--------------------------- MODULE SchedulerProofs ---------------------------
(***************************************************************************)
(* The timer under any day, slot, jitter and retry ladder, and any overlap *)
(* of scheduled and pressed refreshes.  Whether it is armed depends on who *)
(* is running: the inductive part says which refresh may be running in     *)
(* which state of the entry, and who owes the next timer.                  *)
(***************************************************************************)
EXTENDS Scheduler, TLAPS

Idling(t) == task[t].pc = "idle"

Bounded == timer # NULL => timer <= Day + Jitter

\* Before the first data there is only the first refresh, setup waits for it, and
\* no timer outlives a setup that failed.
FirstAlone ==
  /\ ~data => Idling("manual") /\ (~Idling("slot") => entry = "setup")
  /\ entry = "loaded" => data
  /\ entry = "setup" => ~data /\ ~Idling("slot")
  /\ ~data /\ entry # "setup" => timer = NULL
  /\ \A t \in Tasks : task[t].pc = "network" => (task[t].first <=> ~data)

\* A press is under way only while its flag is set.
Flagged == ~Idling("manual") => manual

\* A timer is armed, or the refresh it started has yet to arm the next one.
Owed ==
  entry \in {"setup", "loaded"} /\ ~raised =>
    timer # NULL \/ task["slot"].pc \in {"begin", "network"}

Inv == TypeOK /\ Bounded /\ FirstAlone /\ Flagged /\ Owed

LEMMA NextFireBounds == TypeOK => NextDailyFire \subseteq 1 .. Day + Jitter
BY SchedulerAssumption DEF TypeOK, NextDailyFire

\* Whatever _schedule_next decides, a timer is armed afterwards, and a press
\* moves neither an armed timer nor the ladder.
LEMMA Schedules ==
  ASSUME TypeOK, Bounded, NEW again \in BOOLEAN, ScheduleNext(again)
  PROVE  /\ timer' \in 0 .. 2 * Day /\ timer' # NULL /\ timer' <= Day + Jitter
         /\ retry' \in 0 .. Len(RetryDelays)
         /\ manual => retry' = retry /\ (timer # NULL => timer' = timer)
<1> USE SchedulerAssumption, NextFireBounds
<1>1. Day + Jitter <= 2 * Day /\ Day + Jitter \in Nat
  OBVIOUS
<1>2. CASE manual
  BY <1>1, <1>2 DEF ScheduleNext, TypeOK, Bounded
<1>3. CASE ~manual /\ again /\ retry < Len(RetryDelays)
  <2>1. RetryDelays[retry + 1] \in 1 .. Day
    BY <1>3 DEF TypeOK
  <2> QED BY <1>1, <1>3, <2>1 DEF ScheduleNext, TypeOK
<1>4. CASE ~manual /\ (~again \/ retry = Len(RetryDelays))
  <2>1. timer' \in 1 .. Day + Jitter /\ retry' = 0
    BY <1>4 DEF ScheduleNext, TypeOK
  <2> QED BY <1>1, <1>4, <2>1
<1> QED BY <1>2, <1>3, <1>4 DEF TypeOK

\* A step of one refresh leaves the other alone.
Stepped(t, pc) ==
  /\ task'[t].pc = pc
  /\ \A u \in Tasks \ {t} : task'[u] = task[u]
  /\ task' \in [Tasks -> Running]

LEMMA Ends ==
  ASSUME TypeOK, NEW t \in Tasks, End(t)
  PROVE  Stepped(t, "idle") /\ manual' = (manual /\ t # "manual") /\ manual' \in BOOLEAN
BY DEF TypeOK, End, Stepped, Idle, Running, Steps

LEMMA Begins ==
  ASSUME TypeOK, NEW t \in Tasks, NEW timed \in BOOLEAN, Begin(t, timed)
  PROVE  Stepped(t, "begin")
<1>1. PICK fresh \in BOOLEAN : fresh = (gridAge # NULL /\ gridAge < FreshAge)
  OBVIOUS
<1>2. PICK r \in Running : r = [Idle EXCEPT !.pc = "begin"]
  BY DEF Idle, Running, Steps
<1>3. PICK q \in Running : q = [r EXCEPT !.timed = timed]
  BY DEF Running
<1>4. [q EXCEPT !.fresh = fresh] \in Running /\ [q EXCEPT !.fresh = fresh].pc = "begin"
  BY <1>2, <1>3 DEF Running, Idle
<1>5. task' = [task EXCEPT ![t] = [q EXCEPT !.fresh = fresh]]
  BY <1>1, <1>2, <1>3 DEF Begin
<1> QED BY <1>4, <1>5 DEF TypeOK, Stepped

LEMMA Moves ==
  ASSUME TypeOK, NEW t \in Tasks, NEW pc \in Steps, task' = [task EXCEPT ![t].pc = pc]
  PROVE  Stepped(t, pc) /\ task'[t].first = task[t].first
BY DEF TypeOK, Stepped, Running

LEMMA Marks ==
  ASSUME TypeOK, NEW t \in Tasks, NEW pc \in Steps, NEW first \in BOOLEAN,
         task' = [task EXCEPT ![t].pc = pc, ![t].first = first]
  PROVE  Stepped(t, pc) /\ task'[t].first = first
<1>1. PICK r \in Running : r = [task[t] EXCEPT !.pc = pc]
  BY DEF TypeOK, Running
<1>2. [r EXCEPT !.first = first] \in Running
  BY DEF Running
<1>3. task' = [task EXCEPT ![t] = [r EXCEPT !.first = first]]
  BY <1>1 DEF TypeOK
<1> QED BY <1>1, <1>2, <1>3 DEF TypeOK, Stepped, Running

LEMMA Goes ==
  ASSUME TypeOK, NEW t \in Tasks, GoToNetwork(t)
  PROVE  Stepped(t, "network") /\ task'[t].first = ~data
<1>1. PICK never \in BOOLEAN : never = (fetchAge = NULL)
  OBVIOUS
<1>2. PICK first \in BOOLEAN : first = ~data
  BY DEF TypeOK
<1>3. PICK r \in Running : r = [[task[t] EXCEPT !.pc = "network"] EXCEPT !.first = first]
  <2>1. PICK q \in Running : q = [task[t] EXCEPT !.pc = "network"]
    BY DEF TypeOK, Running, Steps
  <2>2. [q EXCEPT !.first = first] \in Running
    BY DEF Running
  <2> QED BY <2>1, <2>2
<1>4. [r EXCEPT !.never = never] \in Running /\ r.pc = "network" /\ r.first = first
  BY <1>3 DEF Running, TypeOK
<1>5. task' = [task EXCEPT ![t] = [r EXCEPT !.never = never]]
  BY <1>1, <1>2, <1>3 DEF TypeOK, GoToNetwork
<1> QED BY <1>2, <1>4, <1>5 DEF TypeOK, Stepped, Running

LEMMA Initially == Init => Inv
<1> SUFFICES ASSUME Init PROVE Inv
  OBVIOUS
<1>1. Resting \in [Tasks -> Running] /\ \A t \in Tasks : Resting[t].pc = "idle"
  BY DEF Resting, Idle, Running, Steps
<1>2. TypeOK
  <2>1. 0 \in 0 .. Len(RetryDelays)
    BY SchedulerAssumption
  <2>2. task \in [Tasks -> Running]
    BY <1>1 DEF Init
  <2>3. entry \in {"down"} /\ timer = NULL /\ retry = 0 /\ presses \in 0 .. MaxPresses
    BY SchedulerAssumption DEF Init
  <2> QED BY <2>1, <2>2, <2>3, SchedulerAssumption DEF Init, TypeOK
<1>3. Bounded /\ FirstAlone /\ Flagged /\ Owed
  BY <1>1, SchedulerAssumption DEF Init, Bounded, FirstAlone, Flagged, Owed, Idling, Tasks
<1> QED BY <1>2, <1>3 DEF Inv

\* The fields a refresh may change keep their types.
LEMMA AgesTyped ==
  ASSUME TypeOK
  PROVE  /\ 0 \in Ages
         /\ \A age \in Ages \cup {NULL} : Older(age) \in Ages \cup {NULL}
BY SchedulerAssumption DEF TypeOK, Ages, Older

\* UpdateFailed, in a cycle or for a login of an archive without any fetch.
LEMMA Fails ==
  ASSUME Inv, NEW t \in Tasks, UpdateFails(t), task[t].pc = "network",
         UNCHANGED presses
  PROVE  Inv'
<1> USE SchedulerAssumption
<1>1. Stepped(t, "idle") /\ manual' = (manual /\ t # "manual") /\ manual' \in BOOLEAN
  BY Ends DEF UpdateFails, Inv
<1>2. CASE task[t].first
  <2>1. entry = "setup" /\ t = "slot" /\ ~data
    BY <1>2 DEF Inv, FirstAlone, Idling, Tasks
  <2>2. timer' = NULL /\ retry' = retry /\ entry' = "retry"
    BY <1>2, <2>1 DEF UpdateFails, CancelTimer, FirstRefreshFails
  <2>3. TypeOK'
    BY <1>1, <2>2, AgesTyped DEF UpdateFails, Inv, TypeOK, Stepped, clockVars
  <2> QED BY <1>1, <2>1, <2>2, <2>3 DEF UpdateFails, Inv, Bounded, FirstAlone, Flagged, Owed,
             Idling, Stepped, Tasks
<1>3. CASE ~task[t].first
  <2>1. /\ timer' \in 0 .. 2 * Day /\ timer' # NULL /\ timer' <= Day + Jitter
        /\ retry' \in 0 .. Len(RetryDelays)
    BY <1>3, Schedules DEF UpdateFails, Inv
  <2>2. data /\ data' = data /\ entry' = entry /\ entry # "setup"
    BY <1>3 DEF UpdateFails, FirstRefreshFails, Inv, FirstAlone
  <2>3. TypeOK'
    BY <1>1, <2>1, <2>2, AgesTyped DEF UpdateFails, Inv, TypeOK, Stepped, clockVars
  <2>4. Bounded' /\ Owed'
    BY <2>1 DEF Bounded, Owed
  <2>5. FirstAlone'
    BY <1>1, <2>2 DEF Inv, FirstAlone, Idling, Stepped, Tasks
  <2>6. Flagged'
    BY <1>1 DEF Inv, Flagged, Idling, Stepped, Tasks
  <2> QED BY <2>3, <2>4, <2>5, <2>6 DEF Inv
<1> QED BY <1>2, <1>3

LEMMA Inductive ==
  ASSUME Inv, [Next]_vars
  PROVE  Inv'
<1> USE SchedulerAssumption DEF archiveVars, clockVars
<1>1. ASSUME NEW t \in Tasks, GoToNetwork(t) PROVE Inv'
  <2>1. Stepped(t, "network") /\ task'[t].first = ~data /\ task[t].pc = "begin"
    BY <1>1, Goes DEF Inv, GoToNetwork
  <2>2. TypeOK'
    BY <1>1, <2>1 DEF GoToNetwork, Inv, TypeOK, Stepped
  <2> QED BY <1>1, <2>1, <2>2 DEF GoToNetwork, Inv, Bounded, FirstAlone, Flagged, Owed, Idling,
             Stepped, Tasks
<1>2. ASSUME NEW t \in Tasks, SkipNetwork(t) PROVE Inv'
  <2>1. Stepped(t, "export") /\ task[t].pc = "begin"
    <3>1. PICK first \in BOOLEAN : first = ~data
      BY DEF Inv, TypeOK
    <3> QED BY <1>2, <3>1, Marks DEF SkipNetwork, Inv, Steps
  <2>2. /\ timer' \in 0 .. 2 * Day /\ timer' # NULL /\ timer' <= Day + Jitter
        /\ retry' \in 0 .. Len(RetryDelays)
    BY <1>2, Schedules DEF SkipNetwork, Inv
  <2>3. TypeOK'
    BY <1>2, <2>1, <2>2 DEF SkipNetwork, Inv, TypeOK, Stepped
  <2> QED BY <1>2, <2>1, <2>2, <2>3 DEF SkipNetwork, Inv, Bounded, FirstAlone, Flagged, Owed,
             Idling, Stepped, Tasks
<1>3. ASSUME NEW t \in Tasks, CycleSucceeds(t) PROVE Inv'
  <2>1. Stepped(t, "export") /\ task[t].pc = "network"
    BY <1>3, Moves DEF CycleSucceeds, Inv, Steps
  <2>2. /\ timer' \in 0 .. 2 * Day /\ timer' # NULL /\ timer' <= Day + Jitter
        /\ retry' \in 0 .. Len(RetryDelays)
        /\ served' \in BOOLEAN
    BY <1>3, Schedules DEF CycleSucceeds, Inv
  <2>3. TypeOK'
    BY <1>3, <2>1, <2>2, AgesTyped DEF CycleSucceeds, Inv, TypeOK, Stepped
  <2> QED BY <1>3, <2>1, <2>2, <2>3 DEF CycleSucceeds, Inv, Bounded, FirstAlone, Flagged, Owed,
             Idling, Stepped, Tasks
<1>4. ASSUME NEW t \in Tasks, CycleFails(t) PROVE Inv'
  BY <1>4, Fails DEF CycleFails, UpdateFails
<1>5. ASSUME NEW t \in Tasks, LoginRejected(t) PROVE Inv'
  <2>1. CASE UpdateFails(t)
    BY <1>5, <2>1, Fails DEF LoginRejected, UpdateFails
  <2>2. CASE ~UpdateFails(t)
    <3>1. Stepped(t, "idle") /\ manual' = (manual /\ t # "manual") /\ manual' \in BOOLEAN
      BY <1>5, <2>2, Ends DEF LoginRejected, Inv
    <3>2. timer' = NULL /\ entry' = "reauth" /\ task[t].pc = "network"
          /\ UNCHANGED <<retry, data, gridAge, fetchAge, hour, served, presses, stale, raised>>
      BY <1>5, <2>2 DEF LoginRejected, CancelTimer
    <3>3. TypeOK'
      BY <3>1, <3>2 DEF Inv, TypeOK, Stepped
    <3> QED BY <3>1, <3>2, <3>3 DEF Inv, Bounded, FirstAlone, Flagged, Owed, Idling, Stepped, Tasks
  <2> QED BY <2>1, <2>2
<1>6. ASSUME NEW t \in Tasks, CycleRaises(t) PROVE Inv'
  <2>1. Stepped(t, "idle") /\ manual' = (manual /\ t # "manual") /\ manual' \in BOOLEAN
    BY <1>6, Ends DEF CycleRaises, Inv
  <2>2. /\ timer' \in {timer, NULL}
        /\ entry' = IF entry = "setup" THEN "retry" ELSE entry
        /\ raised' = TRUE
    BY <1>6 DEF CycleRaises, FirstRefreshFails
  <2>3. TypeOK'
    BY <1>6, <2>1, <2>2, AgesTyped DEF CycleRaises, Inv, TypeOK, Stepped
  <2> QED BY <1>6, <2>1, <2>2, <2>3 DEF CycleRaises, Inv, Bounded, FirstAlone, Flagged, Owed,
             Idling, Stepped, Tasks
<1>7. ASSUME NEW t \in Tasks, RefreshCompletes(t) PROVE Inv'
  <2>1. /\ Stepped(t, "idle") /\ manual' = (manual /\ t # "manual") /\ manual' \in BOOLEAN
        /\ task[t].pc = "export"
    BY <1>7, Ends DEF RefreshCompletes, Inv
  <2>2. TypeOK'
    BY <1>7, <2>1 DEF RefreshCompletes, Inv, TypeOK, Stepped
  <2> QED BY <1>7, <2>1, <2>2 DEF RefreshCompletes, Inv, Bounded, FirstAlone, Flagged, Owed,
             Idling, Stepped, Tasks
<1>8. ASSUME NEW t \in Tasks, ExportRaises(t) PROVE Inv'
  <2>1. /\ Stepped(t, "idle") /\ manual' = (manual /\ t # "manual") /\ manual' \in BOOLEAN
        /\ task[t].pc = "export"
    BY <1>8, Ends DEF ExportRaises, Inv
  <2>2. /\ timer' = IF entry = "setup" THEN NULL ELSE timer
        /\ entry' = IF entry = "setup" THEN "retry" ELSE entry
    BY <1>8 DEF ExportRaises, FirstRefreshFails
  <2>3. TypeOK'
    BY <1>8, <2>1, <2>2 DEF ExportRaises, Inv, TypeOK, Stepped
  <2> QED BY <1>8, <2>1, <2>2, <2>3 DEF ExportRaises, Inv, Bounded, FirstAlone, Flagged, Owed,
             Idling, Stepped, Tasks
<1>9. CASE Setup
  <2>1. Stepped("slot", "begin") /\ \A t \in Tasks : Idling(t)
    BY <1>9, Begins DEF Setup, Inv, Quiet, Resting, Idle, Idling, Tasks
  <2>2. TypeOK'
    <3>1. 0 \in 0 .. Len(RetryDelays)
      OBVIOUS
    <3> QED BY <1>9, <2>1, <3>1 DEF Setup, Inv, TypeOK, Stepped
  <2> QED BY <1>9, <2>1, <2>2 DEF Setup, Inv, Bounded, FirstAlone, Flagged, Owed, Idling,
             Stepped, Tasks
<1>10. CASE TimerFires
  <2>1. Stepped("slot", "begin") /\ Idling("slot")
    <3>1. Stepped("slot", "begin")
      BY <1>10, Begins DEF TimerFires, Inv, Tasks
    <3> QED BY <1>10, <3>1 DEF TimerFires, Idle, Idling
  <2>2. TypeOK'
    BY <1>10, <2>1 DEF TimerFires, Inv, TypeOK, Stepped
  <2> QED BY <1>10, <2>1, <2>2 DEF TimerFires, Inv, Bounded, FirstAlone, Flagged, Owed, Idling,
             Stepped, Tasks
<1>11. CASE PressButton
  <2>1. Stepped("manual", "begin") /\ Idling("manual")
    <3>1. Stepped("manual", "begin")
      BY <1>11, Begins DEF PressButton, Inv, Tasks
    <3> QED BY <1>11, <3>1 DEF PressButton, Idle, Idling
  <2>2. TypeOK'
    BY <1>11, <2>1 DEF PressButton, Inv, TypeOK, Stepped
  <2> QED BY <1>11, <2>1, <2>2 DEF PressButton, Inv, Bounded, FirstAlone, Flagged, Owed, Idling,
             Stepped, Tasks
<1>12. CASE Restart
  <2>1. task' \in [Tasks -> Running] /\ \A t \in Tasks : task'[t].pc = "idle"
    BY <1>12 DEF Restart, Resting, Idle, Running, Steps
  <2>2. TypeOK'
    <3>1. 0 \in 0 .. Len(RetryDelays)
      OBVIOUS
    <3> QED BY <1>12, <2>1, <3>1 DEF Restart, Inv, TypeOK
  <2> QED BY <1>12, <2>1, <2>2 DEF Restart, Inv, Bounded, FirstAlone, Flagged, Owed, Idling, Tasks
<1>13. CASE Tick
  <2>1. hour' \in 0 .. Day - 1
    BY <1>13 DEF Tick, Inv, TypeOK
  <2>2. timer' \in 0 .. 2 * Day \cup {NULL} /\ (timer # NULL => timer' # NULL) /\ Bounded'
    BY <1>13 DEF Tick, Inv, TypeOK, Bounded
  <2>3. TypeOK'
    BY <1>13, <2>1, <2>2, AgesTyped DEF Tick, Inv, TypeOK
  <2> QED BY <1>13, <2>2, <2>3 DEF Tick, Inv, FirstAlone, Flagged, Owed, Idling
<1>14. CASE UNCHANGED vars
  BY <1>14 DEF vars, Inv, TypeOK, Bounded, FirstAlone, Flagged, Owed, Idling
<1> QED BY <1>1, <1>2, <1>3, <1>4, <1>5, <1>6, <1>7, <1>8, <1>9, <1>10, <1>11, <1>12, <1>13,
           <1>14 DEF Next, Refresh

LEMMA Invariant == Spec => []Inv
BY Initially, Inductive, PTL DEF Spec


\* The state keeps its shape whatever the constants of the schedule.
THEOREM Typed == Spec => []TypeOK
<1>1. Inv => TypeOK
  BY DEF Inv
<1> QED BY <1>1, Invariant, PTL

\* An entry that stays loaded always has its next fetch armed, at most a day and
\* the jitter ahead, unless a cycle ended in an exception that
\* _async_update_data does not map.
THEOREM AlwaysArmed == Spec => []Armed
<1>1. Inv => Armed
  BY DEF Inv, Owed, Bounded, Armed, TimerAlwaysArmed, Quiet, Resting, Idle, Tasks
<1> QED BY <1>1, Invariant, PTL

LEMMA PressStep ==
  ASSUME Inv, [Next]_vars, task'["manual"] # task["manual"], entry' # "down"
  PROVE  retry' = retry /\ (timer # NULL => timer' = timer \/ entry' = "reauth")
<1>1. ASSUME NEW t \in Tasks, Refresh(t)
      PROVE  t = "manual" /\ manual /\ data /\ entry # "setup" /\ task[t].pc # "idle"
  <2>1. t = "manual"
    <3> SUFFICES ASSUME t = "slot" PROVE FALSE
      BY DEF Tasks
    <3> USE DEF Inv, TypeOK, Tasks, End
    <3>1. CASE GoToNetwork(t) \/ SkipNetwork(t) \/ CycleSucceeds(t)
      BY <3>1 DEF GoToNetwork, SkipNetwork, CycleSucceeds
    <3>2. CASE CycleFails(t) \/ LoginRejected(t)
      BY <3>2 DEF CycleFails, LoginRejected, UpdateFails
    <3>3. CASE CycleRaises(t) \/ RefreshCompletes(t) \/ ExportRaises(t)
      BY <3>3 DEF CycleRaises, RefreshCompletes, ExportRaises
    <3> QED BY <1>1, <3>1, <3>2, <3>3 DEF Refresh
  <2>2. task[t].pc # "idle"
    BY <1>1 DEF Refresh, GoToNetwork, SkipNetwork, CycleSucceeds, CycleFails, LoginRejected,
       UpdateFails, CycleRaises, RefreshCompletes, ExportRaises
  <2> QED BY <2>1, <2>2 DEF Inv, FirstAlone, Flagged, Idling
<1>2. ASSUME NEW again \in BOOLEAN, ScheduleNext(again), manual
      PROVE  retry' = retry /\ (timer # NULL => timer' = timer)
  BY <1>2, Schedules DEF Inv
<1>3. ASSUME NEW t \in Tasks, Refresh(t), UpdateFails(t), task[t].pc = "network"
      PROVE  retry' = retry /\ (timer # NULL => timer' = timer)
  BY <1>1, <1>2, <1>3 DEF UpdateFails, Inv, FirstAlone
<1>4. ASSUME NEW t \in Tasks, Refresh(t)
      PROVE  retry' = retry /\ (timer # NULL => timer' = timer \/ entry' = "reauth")
  <2>1. CASE SkipNetwork(t)
    BY <1>1, <1>2, <1>4, <2>1 DEF SkipNetwork
  <2>2. CASE CycleSucceeds(t)
    <3>1. PICK again \in BOOLEAN : ScheduleNext(again)
      BY <2>2 DEF CycleSucceeds
    <3> QED BY <1>1, <1>2, <1>4, <3>1
  <2>3. CASE CycleFails(t)
    BY <1>3, <1>4, <2>3 DEF CycleFails
  <2>4. CASE LoginRejected(t)
    BY <1>3, <1>4, <2>4 DEF LoginRejected
  <2>5. CASE GoToNetwork(t) \/ CycleRaises(t) \/ RefreshCompletes(t) \/ ExportRaises(t)
    BY <1>1, <1>4, <2>5 DEF GoToNetwork, CycleRaises, RefreshCompletes, ExportRaises
  <2> QED BY <1>4, <2>1, <2>2, <2>3, <2>4, <2>5 DEF Refresh
<1>5. CASE Setup \/ TimerFires
  BY <1>5 DEF Setup, TimerFires, Begin, Inv, TypeOK, Tasks
<1>6. CASE PressButton \/ Restart \/ Tick \/ UNCHANGED vars
  BY <1>6 DEF PressButton, Restart, Tick, vars
<1> QED BY <1>4, <1>5, <1>6 DEF Next

\* A pressed refresh moves neither an armed timer nor the retry ladder, however
\* it overlaps a scheduled one and however either ends; only rejected
\* credentials cancel the timer (async_fetch_now, _schedule_next).
THEOREM PressesLeaveSchedule == Spec => ButtonLeavesSchedule
<1>1. Inv /\ [Next]_vars =>
        [task'["manual"] # task["manual"] /\ entry' # "down" =>
           /\ retry' = retry
           /\ timer # NULL => timer' = timer \/ entry' = "reauth"]_vars
  BY PressStep
<1> QED BY <1>1, Invariant, PTL DEF Spec, ButtonLeavesSchedule
-----------------------------------------------------------------------------
(* Once a day *)

\* Today until the jitter is over, or no sooner than midnight.
Rests == timer # NULL => timer + hour <= Slot + Jitter \/ timer >= Day - hour

\* Once the slot is served, the timer waits for another day, or for the slot drawn
\* again, and its refresh is over but for the export.  A press may have armed the
\* timer while the refresh of the slot was under way: in the same way.
Spaced ==
  /\ data => entry \in {"loaded", "reauth"}
  /\ served \/ task["slot"].timed => data
  /\ ~task["manual"].timed
  /\ served => hour >= Slot /\ Rests /\ task["slot"].pc \in {"idle", "export"}
  /\ task["slot"].timed /\ task["slot"].pc \in {"begin", "network"} /\ hour >= Slot => Rests

\* The daily slot is drawn for the minutes of the jitter, or for tomorrow.
LEMMA ArmsRest ==
  ASSUME TypeOK, hour >= Slot, hour' = hour, NEW again \in BOOLEAN, ScheduleNext(again),
         manual \/ ~again, manual => Rests
  PROVE  Rests'
<1>1. \A fire \in NextDailyFire : fire + hour <= Slot + Jitter \/ fire >= Day - hour
  <2> SUFFICES ASSUME NEW j \in 0 .. Jitter, NEW fire,
                      fire = IF Slot + j - hour <= 0 THEN Slot + j - hour + Day ELSE Slot + j - hour
               PROVE  fire + hour <= Slot + Jitter \/ fire >= Day - hour
    BY DEF NextDailyFire
  <2> QED BY SchedulerAssumption DEF TypeOK
<1> QED BY <1>1 DEF ScheduleNext, Rests

\* A refresh goes on as it was begun, or ends.
LEMMA TimedKept ==
  ASSUME TypeOK, NEW t \in Tasks, Refresh(t)
  PROVE  /\ \A u \in Tasks \ {t} : task'[u] = task[u]
         /\ task'[t].timed = task[t].timed \/ (task'[t].timed = FALSE /\ task'[t].pc = "idle")
         /\ task[t].pc # "idle" /\ hour' = hour
<1> USE DEF clockVars
<1>1. task[t] \in Running
  BY DEF TypeOK
<1>2. CASE GoToNetwork(t)
  BY <1>1, <1>2 DEF GoToNetwork, TypeOK, Running
<1>3. CASE SkipNetwork(t)
  BY <1>1, <1>3 DEF SkipNetwork, TypeOK, Running
<1>4. CASE CycleSucceeds(t)
  BY <1>1, <1>4 DEF CycleSucceeds, TypeOK, Running
<1>5. CASE CycleFails(t) \/ LoginRejected(t) \/ CycleRaises(t) \/ RefreshCompletes(t)
           \/ ExportRaises(t)
  <2>1. End(t) /\ task[t].pc # "idle" /\ hour' = hour
    BY <1>5 DEF CycleFails, LoginRejected, UpdateFails, CycleRaises, RefreshCompletes, ExportRaises
  <2> QED BY <2>1 DEF End, Idle, TypeOK
<1> QED BY <1>2, <1>3, <1>4, <1>5 DEF Refresh

\* A press under way arms only a missing timer, and for the slot.
LEMMA PressSpaced ==
  ASSUME Inv, Spaced, Refresh("manual")
  PROVE  Spaced'
<1> USE DEF clockVars, archiveVars
<1>1. /\ task'["slot"] = task["slot"] /\ ~task'["manual"].timed /\ task["manual"].pc # "idle"
      /\ hour' = hour
  BY TimedKept DEF Inv, Spaced, Tasks
<1>2. manual /\ data /\ entry \in {"loaded", "reauth"}
  BY <1>1 DEF Inv, Flagged, FirstAlone, Idling, Spaced
<1>3. /\ data' = TRUE /\ entry' \in {"loaded", "reauth"} /\ served' = served
      /\ \/ timer' \in {timer, NULL}
         \/ \E again \in BOOLEAN : ScheduleNext(again)
  <2>1. task["manual"].pc = "network" => ~task["manual"].first
    BY <1>2 DEF Inv, FirstAlone, Tasks
  <2>2. CASE GoToNetwork("manual") \/ SkipNetwork("manual")
    BY <1>2, <2>2 DEF GoToNetwork, SkipNetwork
  <2>3. CASE CycleSucceeds("manual")
    <3>1. served' = served
      BY <1>2, <2>3 DEF CycleSucceeds, Spaced, Inv, TypeOK
    <3> QED BY <1>2, <2>3, <3>1 DEF CycleSucceeds
  <2>4. CASE CycleFails("manual") \/ LoginRejected("manual")
    BY <1>2, <2>1, <2>4 DEF CycleFails, LoginRejected, UpdateFails, FirstRefreshFails, CancelTimer
  <2>5. CASE CycleRaises("manual") \/ RefreshCompletes("manual") \/ ExportRaises("manual")
    BY <1>2, <2>5 DEF CycleRaises, RefreshCompletes, ExportRaises, FirstRefreshFails
  <2> QED BY <2>2, <2>3, <2>4, <2>5 DEF Refresh
<1>4. hour >= Slot /\ Rests => Rests'
  <2>1. CASE timer' \in {timer, NULL}
    BY <1>1, <2>1 DEF Rests
  <2>2. ASSUME NEW again \in BOOLEAN, ScheduleNext(again) PROVE hour >= Slot /\ Rests => Rests'
    BY <1>1, <1>2, <2>2, ArmsRest DEF Inv
  <2> QED BY <1>3, <2>1, <2>2
<1> QED BY <1>1, <1>2, <1>3, <1>4 DEF Spaced

\* The refresh the timer began serves the slot, and then leaves it to the next.
LEMMA SlotSpaced ==
  ASSUME Inv, Spaced, Refresh("slot")
  PROVE  Spaced'
<1> USE DEF clockVars, archiveVars
<1>1. /\ task'["manual"] = task["manual"] /\ task["slot"].pc # "idle" /\ hour' = hour
      /\ task'["slot"].timed => task["slot"].timed
  BY TimedKept DEF Inv, Tasks
<1>2. ~data => entry = "setup"
  BY <1>1 DEF Inv, FirstAlone, Idling
<1>3. task["slot"].pc = "network" => (task["slot"].first <=> ~data)
  BY DEF Inv, FirstAlone, Tasks
<1>4. CASE GoToNetwork("slot")
  <2>1. /\ UNCHANGED <<entry, data, timer, served>> /\ task["slot"].pc = "begin"
    BY <1>4 DEF GoToNetwork
  <2> QED BY <1>1, <2>1 DEF Spaced, Rests
<1>5. CASE SkipNetwork("slot")
  <2>1. /\ UNCHANGED <<entry, data, served>> /\ task["slot"].pc = "begin"
        /\ task'["slot"].pc = "export"
    BY <1>5 DEF SkipNetwork, Inv, TypeOK, Tasks, Running
  <2> QED BY <1>1, <2>1 DEF Spaced
<1>6. CASE CycleSucceeds("slot")
  <2>1. /\ UNCHANGED <<entry, data>> /\ task["slot"].pc = "network" /\ ~served
        /\ task'["slot"].pc = "export"
    BY <1>6 DEF CycleSucceeds, Inv, TypeOK, Tasks, Running, Spaced
  <2>2. CASE served'
    <3>1. task["slot"].timed /\ hour >= Slot /\ ScheduleNext(FALSE)
      BY <1>6, <2>1, <2>2 DEF CycleSucceeds
    <3>2. Rests /\ data
      BY <2>1, <3>1 DEF Spaced
    <3>3. Rests'
      BY <1>1, <3>1, <3>2, ArmsRest DEF Inv
    <3> QED BY <1>1, <2>1, <3>1, <3>2, <3>3 DEF Spaced
  <2>3. CASE ~served'
    BY <1>1, <2>1, <2>3 DEF Spaced
  <2> QED BY <2>2, <2>3
<1>7. CASE CycleFails("slot") \/ LoginRejected("slot") \/ CycleRaises("slot")
  <2>1. /\ UNCHANGED <<data, served>> /\ task["slot"].pc \in {"begin", "network"} /\ End("slot")
        /\ entry' \in {IF entry = "setup" THEN "retry" ELSE entry, "reauth"}
    BY <1>7 DEF CycleFails, LoginRejected, CycleRaises, UpdateFails, FirstRefreshFails
  <2>2. task'["slot"] = Idle
    BY <2>1 DEF End, Inv, TypeOK, Tasks
  <2>3. data => entry' \in {"loaded", "reauth"}
    BY <2>1 DEF Spaced
  <2> QED BY <1>1, <2>1, <2>2, <2>3 DEF Spaced, Idle
<1>8. CASE RefreshCompletes("slot") \/ ExportRaises("slot")
  <2>1. /\ served' = served /\ End("slot") /\ timer' \in {timer, NULL}
        /\ \/ data' = TRUE /\ entry' = IF entry = "setup" THEN "loaded" ELSE entry
           \/ data' = data /\ entry' = IF entry = "setup" THEN "retry" ELSE entry
    BY <1>8 DEF RefreshCompletes, ExportRaises, FirstRefreshFails
  <2>2. task'["slot"] = Idle
    BY <2>1 DEF End, Inv, TypeOK, Tasks
  <2>3. data' => entry' \in {"loaded", "reauth"}
    BY <1>2, <2>1 DEF Spaced
  <2>4. served' => data'
    <3>1. served => data
      BY DEF Spaced
    <3>2. served' => served
      BY <2>1
    <3>3. data => data'
      BY <2>1
    <3> QED BY <3>1, <3>2, <3>3
  <2>5. Rests => Rests'
    BY <1>1, <2>1 DEF Rests
  <2> QED BY <1>1, <2>1, <2>2, <2>3, <2>4, <2>5 DEF Spaced, Idle
<1> QED BY <1>4, <1>5, <1>6, <1>7, <1>8 DEF Refresh

LEMMA NextHour ==
  ASSUME TypeOK, Tick
  PROVE  hour' = 0 \/ hour' = hour + 1
<1>1. hour \in Int /\ Day \in Int /\ 0 <= hour /\ hour + 1 <= Day /\ 0 < Day
  BY SchedulerAssumption DEF TypeOK
<1>2. hour + 1 = Day => (hour + 1) % Day = 0
  BY <1>1
<1>3. hour + 1 < Day => (hour + 1) % Day = hour + 1
  BY <1>1
<1> QED BY <1>1, <1>2, <1>3 DEF Tick

LEMMA SpacedNext ==
  ASSUME Inv, Spaced, [Next]_vars
  PROVE  Spaced'
<1> USE DEF clockVars, archiveVars
<1>1. ASSUME NEW t \in Tasks, Refresh(t) PROVE Spaced'
  <2>1. t = "manual" \/ t = "slot"
    BY DEF Tasks
  <2> QED BY <1>1, <2>1, PressSpaced, SlotSpaced
<1>2. CASE Setup
  <2>1. ~served /\ ~data' /\ served' = served
    BY <1>2 DEF Setup, Spaced
  <2>2. ~task'["slot"].timed /\ ~task'["manual"].timed
    <3>1. task'["slot"] = [Idle EXCEPT !.pc = "begin", !.timed = FALSE,
                             !.fresh = gridAge # NULL /\ gridAge < FreshAge]
          /\ task'["manual"] = task["manual"]
      BY <1>2 DEF Setup, Begin, Inv, TypeOK, Tasks
    <3> QED BY <3>1 DEF Spaced, Idle
  <2> QED BY <2>1, <2>2 DEF Spaced
<1>3. CASE TimerFires
  <2>1. data /\ ~served'
    <3>1. data
      BY <1>3, SchedulerAssumption DEF TimerFires, Inv, FirstAlone, Idling, Idle
    <3>2. served => hour <= Slot + Jitter
      BY <1>3, SchedulerAssumption DEF TimerFires, Spaced, Rests, Inv, TypeOK
    <3>3. hour <= Slot + Jitter => ~(hour > Slot + Jitter)
      BY SchedulerAssumption DEF Inv, TypeOK
    <3>4. served' <=> served /\ hour > Slot + Jitter
      BY <1>3 DEF TimerFires
    <3> QED BY <3>1, <3>2, <3>3, <3>4
  <2>2. task'["manual"] = task["manual"]
    BY <1>3 DEF TimerFires, Begin, Inv, TypeOK, Tasks
  <2>3. UNCHANGED <<entry, data>> /\ timer' = NULL
    BY <1>3 DEF TimerFires
  <2> QED BY <2>1, <2>2, <2>3 DEF Spaced, Rests
<1>4. CASE PressButton
  <2>1. task'["slot"] = task["slot"] /\ ~task'["manual"].timed
    <3>1. task'["manual"] = [Idle EXCEPT !.pc = "begin", !.timed = FALSE,
                               !.fresh = gridAge # NULL /\ gridAge < FreshAge]
          /\ task'["slot"] = task["slot"]
      BY <1>4 DEF PressButton, Begin, Inv, TypeOK, Tasks
    <3> QED BY <3>1 DEF Idle
  <2> QED BY <1>4, <2>1 DEF PressButton, Spaced, Rests
<1>5. CASE Restart
  BY <1>5 DEF Restart, Spaced, Resting, Idle, Tasks
<1>6. CASE Tick
  <2>1. served' => served /\ hour' = hour + 1
    <3>1. served' => served /\ hour' # 0
      BY <1>6 DEF Tick
    <3> QED BY <1>6, <3>1, NextHour DEF Inv
  <2>2. Quiet /\ task' = task /\ UNCHANGED <<entry, data>>
    BY <1>6 DEF Tick
  <2>3. served /\ hour' = hour + 1 /\ Rests => Rests'
    <3>1. timer' = IF timer = NULL THEN NULL ELSE timer - 1
      BY <1>6 DEF Tick
    <3> QED BY <3>1, SchedulerAssumption DEF Rests, Inv, TypeOK
  <2>4. served /\ hour' = hour + 1 => hour' >= Slot
    BY SchedulerAssumption DEF Spaced, Inv, TypeOK
  <2>5. task["slot"] = Idle
    BY <2>2 DEF Quiet, Resting, Tasks
  <2> QED BY <2>1, <2>2, <2>3, <2>4, <2>5 DEF Spaced, Idle
<1>7. CASE UNCHANGED vars
  BY <1>7 DEF vars, Spaced, Rests
<1> QED BY <1>1, <1>2, <1>3, <1>4, <1>5, <1>6, <1>7 DEF Next

\* Once the slot has brought new rows the timer does not fire again that day after
\* the minutes of the jitter, whatever the jitter, the ladder, presses and failures
\* in between (_schedule_next, _next_daily_fire).
THEOREM ServedOnce == Spec => OnceADay
<1>1. Init => Spaced
  BY DEF Init, Spaced, Resting, Idle, Tasks
<1>2. Inv /\ Spaced /\ [Next]_vars => Spaced'
  BY SpacedNext
<1>3. Inv /\ Spaced => (TimerFires /\ hour > Slot + Jitter => ~served)
  BY SchedulerAssumption DEF TimerFires, Spaced, Rests, Inv, TypeOK
<1>4. Inv /\ Spaced /\ [Next]_vars => [TimerFires /\ hour > Slot + Jitter => ~served]_vars
  BY <1>3
<1> QED BY <1>1, <1>2, <1>4, Invariant, PTL DEF Spec, OnceADay
=============================================================================
