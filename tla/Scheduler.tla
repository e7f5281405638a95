------------------------------ MODULE Scheduler ------------------------------
(***************************************************************************)
(* When the Home Assistant coordinator fetches (coordinator.py,            *)
(* __init__.py): one in-memory timer, the retry ladder, the freshness      *)
(* guard at startup, the "Fetch now" button, and setup, re-authentication  *)
(* and restart of the config entry.  A refresh is a task with awaits, and  *)
(* a scheduled refresh and a pressed button may overlap; Home Assistant's  *)
(* DataUpdateCoordinator does not serialise them.                          *)
(*                                                                         *)
(* Time is whole hours, and no refresh lasts an hour.  The clock is the    *)
(* hour of the day, the timer the hours left until it fires, and the age   *)
(* of a fetch saturates, so no bound on time is needed.                    *)
(***************************************************************************)
EXTENDS Integers, Sequences

CONSTANTS
  Day,          \* hours of a day
  Slot,         \* hour of the daily slot (fetch_time)
  Jitter,       \* longest random delay of the slot (jitter_minutes)
  RetryDelays,  \* RETRY_DELAYS_MINUTES
  FreshAge,     \* STARTUP_FETCH_MIN_AGE_HOURS
  StaleAge,     \* STALE_AFTER_HOURS
  Outcomes,     \* how a portal cycle may end
  MaxPresses,   \* bound: presses of the button in one hour
  NULL          \* no timer, no fetch

\* "new" and "none": archived, with or without new interval rows; "failed": an
\* error _fetch_cycle maps to UpdateFailed; "auth": rejected credentials;
\* "unexpected": any exception it does not map (a total timeout of aiohttp, a
\* locked database).
ASSUME SchedulerAssumption ==
  /\ Day \in Nat \ {0} /\ Slot \in 0 .. Day - 1
  /\ Jitter \in 0 .. Day - 1
  /\ RetryDelays \in Seq(1 .. Day)
  /\ FreshAge \in Nat /\ StaleAge \in Nat /\ FreshAge <= StaleAge
  /\ Outcomes \subseteq {"new", "none", "failed", "auth", "unexpected"}
  /\ MaxPresses \in Nat
  /\ NULL \notin Nat

VARIABLES
  entry,    \* the config entry: down, setup, loaded, retry or reauth
  hour,     \* hour of the day
  timer,    \* _unsub_timer: hours until it fires
  retry,    \* _retry_index
  manual,   \* _manual
  data,     \* is coordinator.data set?
  task,     \* the scheduled and the pressed refresh
  gridAge,  \* hours since the newest ok grid fetch in the archive
  fetchAge, \* hours since the newest ok fetch of any kind
  stale,    \* is the "stale archive" issue raised?
  served,   \* history: has the timer fetched new rows since it last fired for
            \* today's slot (and the last restart)?
  presses,  \* presses in this hour
  raised    \* history: has a cycle of this load ended in an exception that
            \* _async_update_data does not map, and none ended otherwise since?

vars == <<entry, hour, timer, retry, manual, data, task, gridAge, fetchAge,
          stale, served, presses, raised>>

archiveVars == <<gridAge, fetchAge>>
clockVars   == <<hour, served, presses>>

Tasks   == {"slot", "manual"}
Steps   == {"idle", "begin", "network", "export"}
Idle    == [pc |-> "idle", timed |-> FALSE, first |-> FALSE, fresh |-> FALSE,
            never |-> FALSE]
Resting == [t \in Tasks |-> Idle]
Quiet   == task = Resting

Ages == 0 .. StaleAge + 1

\* A refresh: its step, whether the timer began it, whether it is the first of
\* its coordinator, whether it found the archive fresh, or without any fetch.
Running == [pc : Steps, timed : BOOLEAN, first : BOOLEAN, fresh : BOOLEAN, never : BOOLEAN]

TypeOK ==
  /\ entry \in {"down", "setup", "loaded", "retry", "reauth"}
  /\ hour \in 0 .. Day - 1
  /\ timer \in 0 .. 2 * Day \cup {NULL}
  /\ retry \in 0 .. Len(RetryDelays)
  /\ manual \in BOOLEAN /\ data \in BOOLEAN
  /\ task \in [Tasks -> Running]
  /\ gridAge \in Ages \cup {NULL} /\ fetchAge \in Ages \cup {NULL}
  /\ stale \in BOOLEAN /\ served \in BOOLEAN
  /\ presses \in 0 .. MaxPresses
  /\ raised \in BOOLEAN

-----------------------------------------------------------------------------
(* The timer *)

\* Mutant: today's slot, also when it has passed.
TodaysFire == {Slot + j - hour : j \in 0 .. Jitter}

\* _next_daily_fire: today's slot with a fresh jitter, or tomorrow's.
NextDailyFire ==
  {IF c <= 0 THEN c + Day ELSE c : c \in {Slot + j - hour : j \in 0 .. Jitter}}

CancelTimer == timer' = NULL

\* Mutant: a press is scheduled like any other refresh.
ScheduleAlways(again) ==
  \/ /\ again /\ retry < Len(RetryDelays)
     /\ timer' = RetryDelays[retry + 1]
     /\ retry' = retry + 1
  \/ /\ ~again \/ retry = Len(RetryDelays)
     /\ timer' \in NextDailyFire
     /\ retry' = 0

\* Mutant: the ladder goes on after new rows.
ScheduleLadderAlways(again) ==
  \/ /\ manual
     /\ IF timer = NULL THEN timer' \in NextDailyFire ELSE UNCHANGED timer
     /\ UNCHANGED retry
  \/ ~manual /\ ScheduleAlways(TRUE)

\* Mutant: nothing is armed while a press runs.
ScheduleUnlessManual(again) ==
  \/ manual /\ UNCHANGED <<timer, retry>>
  \/ ~manual /\ ScheduleAlways(again)

\* Mutant: the ladder's end is not followed by the daily slot.
ScheduleLadderOnly(again) ==
  \/ again /\ ~manual /\ retry = Len(RetryDelays) /\ UNCHANGED <<timer, retry>>
  \/ ~(again /\ retry = Len(RetryDelays)) /\ ScheduleUnlessManual(again)

\* _schedule_next.  While a button press runs only a missing timer is armed.
ScheduleNext(again) ==
  \/ /\ manual
     /\ IF timer = NULL THEN timer' \in NextDailyFire ELSE UNCHANGED timer
     /\ UNCHANGED retry
  \/ /\ ~manual
     /\ again /\ retry < Len(RetryDelays)
     /\ timer' = RetryDelays[retry + 1]
     /\ retry' = retry + 1
  \/ /\ ~manual
     /\ ~again \/ retry = Len(RetryDelays)
     /\ timer' \in NextDailyFire
     /\ retry' = 0

-----------------------------------------------------------------------------
(* A refresh *)

\* Reads the age of the newest ok grid fetch.
Begin(t, timed) ==
  task' = [task EXCEPT ![t] = [Idle EXCEPT
             !.pc = "begin", !.timed = timed,
             !.fresh = gridAge # NULL /\ gridAge < FreshAge]]

\* The refresh returns or raises; a press clears its flag either way.
End(t) ==
  /\ task' = [task EXCEPT ![t] = Idle]
  /\ manual' = (manual /\ t # "manual")

\* Home Assistant retries a setup whose first refresh raised.
FirstRefreshFails == entry' = IF entry = "setup" THEN "retry" ELSE entry

UsesNetwork(t) == manual \/ ~(~data /\ task[t].fresh)

GoToNetwork(t) ==
  /\ task[t].pc = "begin"
  /\ UsesNetwork(t)
  /\ task' = [task EXCEPT ![t].pc = "network", ![t].first = ~data,
                          ![t].never = fetchAge = NULL]
  /\ UNCHANGED <<entry, timer, retry, manual, data, archiveVars, clockVars,
                 stale, raised>>

\* Startup with a recent archive: only the daily slot is armed.  (The branch
\* that would arm a two-minute timer instead needs an archive that is fresh
\* and older than 26 hours.)
SkipNetwork(t) ==
  /\ task[t].pc = "begin"
  /\ ~UsesNetwork(t)
  /\ ScheduleNext(FALSE)
  /\ task' = [task EXCEPT ![t].pc = "export", ![t].first = ~data]
  /\ UNCHANGED <<entry, manual, data, archiveVars, clockVars,
                 stale, raised>>

CycleSucceeds(t) ==
  /\ task[t].pc = "network"
  /\ \E outcome \in Outcomes \cap {"new", "none"} :
       /\ ScheduleNext(outcome = "none")
       /\ served' = (served \/ (task[t].timed /\ hour >= Slot /\ outcome = "new"))
  /\ gridAge' = 0
  /\ fetchAge' = 0
  /\ task' = [task EXCEPT ![t].pc = "export"]
  /\ raised' = FALSE
  /\ UNCHANGED <<entry, hour, manual, data, stale, presses>>

\* UpdateFailed.  The daily table may have been archived before the failure.
UpdateFails(t) ==
  /\ fetchAge' \in {fetchAge, 0}
  /\ IF task[t].first THEN CancelTimer /\ UNCHANGED retry ELSE ScheduleNext(TRUE)
  /\ FirstRefreshFails
  /\ End(t)
  /\ raised' = FALSE
  /\ UNCHANGED <<data, gridAge, clockVars, stale>>

CycleFails(t) ==
  /\ task[t].pc = "network"
  /\ "failed" \in Outcomes
  /\ UpdateFails(t)

\* Credentials rejected: transient on an archive that never fetched, otherwise
\* the timer is cancelled and re-authentication starts.  A login that asks for
\* a second factor starts it on any archive.
LoginRejected(t) ==
  /\ task[t].pc = "network"
  /\ "auth" \in Outcomes
  /\ \/ /\ task[t].never
        /\ UpdateFails(t)
     \/ /\ CancelTimer
        /\ entry' = "reauth"
        /\ End(t)
        /\ UNCHANGED <<retry, data, archiveVars, clockVars, stale,
                        raised>>

\* An exception no handler maps ends the refresh: as it reads the archive's
\* freshness, or wherever the cycle was.
CycleRaises(t) ==
  /\ task[t].pc \in {"begin", "network"}
  /\ "unexpected" \in Outcomes
  /\ \/ UNCHANGED archiveVars
     \/ task[t].pc = "network" /\ fetchAge' = 0 /\ gridAge' \in {gridAge, 0}
  /\ timer' = IF entry = "setup" THEN NULL ELSE timer
  /\ FirstRefreshFails
  /\ End(t)
  /\ raised' = TRUE
  /\ UNCHANGED <<retry, data, clockVars, stale>>

\* The export and _build_data, which also settles the stale issue.
RefreshCompletes(t) ==
  /\ task[t].pc = "export"
  /\ stale' = (fetchAge # NULL /\ fetchAge > StaleAge)
  /\ data' = TRUE
  /\ entry' = IF entry = "setup" THEN "loaded" ELSE entry
  /\ End(t)
  /\ UNCHANGED <<timer, retry, archiveVars, clockVars, raised>>

\* The export raises; a failed setup runs the unload callbacks.
ExportRaises(t) ==
  /\ task[t].pc = "export"
  /\ "unexpected" \in Outcomes
  /\ timer' = IF entry = "setup" THEN NULL ELSE timer
  /\ FirstRefreshFails
  /\ End(t)
  /\ UNCHANGED <<retry, data, archiveVars, clockVars,
                 stale, raised>>

Refresh(t) ==
  \/ GoToNetwork(t)
  \/ SkipNetwork(t)
  \/ CycleSucceeds(t)
  \/ CycleFails(t)
  \/ LoginRejected(t)
  \/ CycleRaises(t)
  \/ RefreshCompletes(t)
  \/ ExportRaises(t)

-----------------------------------------------------------------------------
(* Home Assistant, the user and the clock *)

\* async_setup_entry: a new coordinator and its first refresh.
Setup ==
  /\ entry \in {"down", "retry"}
  /\ Quiet
  /\ entry' = "setup"
  /\ timer' = NULL /\ retry' = 0 /\ manual' = FALSE /\ data' = FALSE
  /\ Begin("slot", FALSE)
  /\ raised' = FALSE
  /\ UNCHANGED <<archiveVars, clockVars, stale>>

\* Until the jitter is over, it may be today's slot that was drawn again.
TimerFires ==
  /\ timer = 0
  /\ task["slot"] = Idle
  /\ timer' = NULL
  /\ Begin("slot", TRUE)
  /\ served' = (served /\ hour > Slot + Jitter)
  /\ UNCHANGED <<entry, hour, retry, manual, data, archiveVars, presses, stale, raised>>

\* async_fetch_now; a second press is refused while one runs.
PressButton ==
  /\ entry \in {"loaded", "reauth"} /\ data
  /\ task["manual"] = Idle
  /\ presses < MaxPresses
  /\ presses' = presses + 1
  /\ manual' = TRUE
  /\ Begin("manual", FALSE)
  /\ UNCHANGED <<entry, timer, retry, data, archiveVars, hour, served, stale, raised>>

\* A restart, a crash, or a reload of the entry after re-authentication.
Restart ==
  /\ entry # "down"
  /\ entry' = "down"
  /\ timer' = NULL /\ retry' = 0 /\ manual' = FALSE /\ data' = FALSE
  /\ task' = Resting
  /\ served' = FALSE
  /\ raised' = FALSE
  /\ UNCHANGED <<archiveVars, hour, presses, stale>>

Older(age) == IF age = NULL \/ age > StaleAge THEN age ELSE age + 1

Tick ==
  /\ Quiet
  /\ entry # "setup"
  /\ timer # 0
  /\ hour' = (hour + 1) % Day
  /\ timer' = IF timer = NULL THEN NULL ELSE timer - 1
  /\ gridAge' = Older(gridAge)
  /\ fetchAge' = Older(fetchAge)
  /\ served' = (served /\ hour' # 0)
  /\ presses' = 0
  /\ UNCHANGED <<entry, retry, manual, data, task, stale, raised>>

Init ==
  /\ entry = "down"
  /\ hour \in 0 .. Day - 1
  /\ timer = NULL
  /\ retry = 0
  /\ manual = FALSE
  /\ data = FALSE
  /\ task = Resting
  /\ gridAge = NULL
  /\ fetchAge = NULL
  /\ stale = FALSE
  /\ served = FALSE
  /\ presses = 0
  /\ raised = FALSE

Next ==
  \/ \E t \in Tasks : Refresh(t)
  \/ Setup
  \/ TimerFires
  \/ PressButton
  \/ Restart
  \/ Tick

Spec == Init /\ [][Next]_vars

\* Timers fire, refreshes end (every request has a timeout), time passes.
FairSpec ==
  /\ Spec
  /\ WF_vars(Tick)
  /\ WF_vars(TimerFires)
  /\ \A t \in Tasks : WF_vars(Refresh(t))

-----------------------------------------------------------------------------
(* Properties *)

\* A loaded entry always has its next fetch armed, no more than a day (and the
\* jitter) ahead, however refreshes and presses overlapped before.
TimerAlwaysArmed ==
  entry = "loaded" /\ Quiet => timer # NULL /\ timer <= Day + Jitter

\* The same as long as the last cycle of this load ended in a way
\* _async_update_data maps: every path it handles re-arms the timer.
Armed == ~raised => TimerAlwaysArmed

\* The button leaves the schedule alone: no step of a pressed refresh moves an
\* armed timer or the retry ladder ("deliberately does not touch the
\* schedule", README.md); only rejected credentials may cancel the timer.
ButtonLeavesSchedule ==
  [][task'["manual"] # task["manual"] /\ entry' # "down" =>
       /\ retry' = retry
       /\ timer # NULL => timer' = timer \/ entry' = "reauth"]_vars

\* Once today's slot, or a retry of it, has brought new rows, the timer does not
\* fire again that day unless Home Assistant restarts ("fetches once a day and
\* never polls", README.md), whatever the jitter, the ladder, presses and raised
\* cycles in between.  Excepted are the minutes of the jitter: the slot is drawn
\* again when it has been served, and may be drawn for later the same day, which
\* begins it, and its retries, anew.
OnceADay == [][TimerFires /\ hour > Slot + Jitter => ~served]_vars

\* An archive without a successful fetch for StaleAge hours has its issue
\* raised ("after 48 hours without new data a stale archive repair issue is
\* raised", README.md).
StaleRaised ==
  entry = "loaded" /\ Quiet /\ fetchAge # NULL /\ fetchAge > StaleAge => stale

\* An entry that stays loaded, and whose cycles from some time on end in ways
\* _async_update_data maps, keeps being fetched by its timer.
KeepsFetching ==
  <>[](entry = "loaded" /\ ~raised) => []<>(task["slot"].pc = "network")
=============================================================================
