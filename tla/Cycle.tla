-------------------------------- MODULE Cycle --------------------------------
(***************************************************************************)
(* One portal cycle (service.py, Pipeline.run_cycle): login, the daily     *)
(* table, the one-shot daily-history backfill, the interval grid.  Every   *)
(* page is archived in two transactions: record_fetch writes the fetch     *)
(* log, then a store call writes the readings.  The log alone decides      *)
(* whether the backfill was already asked for and whether the grid is      *)
(* recent, so what happens between the two matters.                        *)
(*                                                                         *)
(* A cycle may be cut short by a crash or by an exception no handler       *)
(* expects; Faults says which of these an instance has.  How it ended is   *)
(* not part of the state: no later cycle looks at it.                      *)
(***************************************************************************)
EXTENDS Integers, Sequences, FiniteSets, FiniteSetsExt

CONSTANTS
  Cycles,      \* cycles that may overlap
  Spans,       \* values of the backfill option, in days; 0 disables it
  PortalDays,  \* days the portal's daily history reaches back
  TableDays,   \* days of the default daily table
  FirstDay,    \* the day the model starts
  LastDay,     \* bound: the day it ends
  MaxFetches,  \* bound: rows of the fetch log
  Faults,      \* which of crash, escape, locked, form may happen
  NULL         \* no window, no fetch

\* crash: the process dies; escape: an exception of the request that is not a
\* TransportError; locked: the archive raises while storing; form: the page
\* the range form is read from carries no such form.
ASSUME CycleAssumption ==
  /\ IsFiniteSet(Cycles)
  /\ Spans \subseteq Nat
  /\ PortalDays \in Nat /\ TableDays \in Nat /\ MaxFetches \in Nat
  /\ FirstDay \in Nat /\ LastDay \in Nat /\ FirstDay <= LastDay
  /\ Faults \subseteq {"crash", "escape", "locked", "form"}
  /\ NULL \notin Int

VARIABLES
  today,   \* the portal's Eastern date
  span,    \* the backfill option
  log,     \* table fetches
  reads,   \* days of the daily history in the archive
  grids,   \* grid fetches whose intervals are in the archive
  cycle,   \* what each cycle is doing
  torn     \* history: fetches whose cycle was cut between its transactions

vars == <<today, span, log, reads, grids, cycle, torn>>

Kinds  == {"daily", "daily_range", "intervals"}
Phases == {"idle", "login", "request", "store", "backfill", "meter"}

\* A row of the fetch log, as far as it matters here.
Fetches == [kind : Kinds, ok : BOOLEAN, from : Int \cup {NULL}]

\* What a cycle knows: its step, the page it is at, the option it started with
\* and the fetch it stores for.
States == [phase : Phases, kind : Kinds, span : Nat, id : Nat]

Idle == [phase |-> "idle", kind |-> "daily", span |-> 0, id |-> 0]

TypeOK ==
  /\ today \in FirstDay .. LastDay
  /\ span \in Spans
  /\ log \in Seq(Fetches)
  /\ reads \subseteq Int
  /\ grids \subseteq 1 .. Len(log)
  /\ cycle \in [Cycles -> States]
  /\ torn \subseteq 1 .. Len(log)

-----------------------------------------------------------------------------
(* The fetch log *)

Record(kind, ok, from) ==
  log' = Append(log, [kind |-> kind, ok |-> ok, from |-> from])

\* range_fetch_covered_from_utc: earliest window asked for successfully.
Asked == {log[i].from : i \in {j \in 1 .. Len(log) :
            log[j].kind = "daily_range" /\ log[j].ok /\ log[j].from # NULL}}

\* Mutant: asking for exactly the span that was asked for does not count.
BackfillNeededAgain(days) ==
  /\ days > 0
  /\ Asked = {} \/ Min(Asked) >= today - days

BackfillNeeded(days) ==
  /\ days > 0
  /\ Asked = {} \/ Min(Asked) > today - days

\* Mutant: the range form is posted without its dates.
DefaultAnswer(kind, from) ==
  {d \in today - PortalDays .. today - 1 : d >= today - TableDays}

\* The days a daily page answers with: the default table, or the range asked
\* for as far as the portal has it.
Answer(kind, from) ==
  LET first == IF kind = "daily" THEN today - TableDays ELSE from
  IN  {d \in today - PortalDays .. today - 1 : d >= first}

-----------------------------------------------------------------------------
(* The steps of a cycle *)

\* The cycle returns, or raises.
End(c) == cycle' = [cycle EXCEPT ![c] = Idle]

Go(c, phase, kind) ==
  cycle' = [cycle EXCEPT ![c].phase = phase, ![c].kind = kind]

Requesting(c, kind) == cycle[c].phase = "request" /\ cycle[c].kind = kind

StartCycle(c) ==
  /\ cycle[c].phase = "idle"
  /\ cycle' = [cycle EXCEPT ![c] = [Idle EXCEPT !.phase = "login", !.span = span]]
  /\ UNCHANGED <<today, span, log, reads, grids, torn>>

\* A rejected or unreachable login leaves nothing in the log.
Login(c) ==
  /\ cycle[c].phase = "login"
  /\ Go(c, "request", "daily") \/ End(c)
  /\ UNCHANGED <<today, span, log, reads, grids, torn>>

\* The request fails with a TransportError, or the page does not parse: a failure
\* is logged, without the page or with it, and ends the cycle.
FetchFails(c) ==
  /\ cycle[c].phase = "request"
  /\ Len(log) < MaxFetches
  /\ Record(cycle[c].kind, FALSE, NULL)
  /\ End(c)
  /\ UNCHANGED <<today, span, reads, grids, torn>>

\* The session expired, or the request ran into its total timeout: neither is
\* a TransportError, so nothing is logged.
RequestEscapes(c) ==
  /\ "escape" \in Faults
  /\ cycle[c].phase = "request"
  /\ End(c)
  /\ UNCHANGED <<today, span, log, reads, grids, torn>>

\* The history page the range form is read from has no such form: a LayoutError
\* raised where only a TransportError is caught, so the page is not kept.
FormMissing(c) ==
  /\ "form" \in Faults
  /\ Requesting(c, "daily_range")
  /\ End(c)
  /\ UNCHANGED <<today, span, log, reads, grids, torn>>

\* The page parses: first transaction.  A range fetch records the window it
\* asked for.
RecordFetch(c) ==
  /\ cycle[c].phase = "request"
  /\ Len(log) < MaxFetches
  /\ Record(cycle[c].kind, TRUE,
            IF Requesting(c, "daily_range") THEN today - cycle[c].span ELSE NULL)
  /\ cycle' = [cycle EXCEPT ![c].phase = "store", ![c].id = Len(log) + 1]
  /\ UNCHANGED <<today, span, reads, grids, torn>>

\* Second transaction, store_daily.
StoreDaily(c) ==
  /\ cycle[c].phase = "store" /\ cycle[c].kind # "intervals"
  /\ reads' = reads \cup Answer(cycle[c].kind, log[cycle[c].id].from)
  /\ IF cycle[c].kind = "daily" THEN Go(c, "backfill", "daily")
                                ELSE Go(c, "meter", "daily")
  /\ UNCHANGED <<today, span, log, grids, torn>>

\* Mutant: the newest row of the log is taken for the cycle's own.
StoreForNewest(c) ==
  /\ cycle[c].phase = "store" /\ cycle[c].kind = "intervals"
  /\ grids' = grids \cup {Len(log)}
  /\ End(c)
  /\ UNCHANGED <<today, span, log, reads, torn>>

\* Second transaction, store_intervals; the rest of the cycle only reports.
StoreIntervals(c) ==
  /\ cycle[c].phase = "store" /\ cycle[c].kind = "intervals"
  /\ grids' = grids \cup {cycle[c].id}
  /\ End(c)
  /\ UNCHANGED <<today, span, log, reads, torn>>

StoreRaises(c) ==
  /\ "locked" \in Faults
  /\ cycle[c].phase = "store"
  /\ torn' = torn \cup {cycle[c].id}
  /\ End(c)
  /\ UNCHANGED <<today, span, log, reads, grids>>

CheckBackfill(c) ==
  /\ cycle[c].phase = "backfill"
  /\ IF BackfillNeeded(cycle[c].span) THEN Go(c, "request", "daily_range")
                                      ELSE Go(c, "meter", "daily")
  /\ UNCHANGED <<today, span, log, reads, grids, torn>>

\* Exactly one known meter, or the account is not supported.
LearnMeter(c) ==
  /\ cycle[c].phase = "meter"
  /\ Go(c, "request", "intervals") \/ End(c)
  /\ UNCHANGED <<today, span, log, reads, grids, torn>>

Crash(c) ==
  /\ "crash" \in Faults
  /\ cycle[c].phase # "idle"
  /\ torn' = IF cycle[c].phase = "store" THEN torn \cup {cycle[c].id} ELSE torn
  /\ End(c)
  /\ UNCHANGED <<today, span, log, reads, grids>>

-----------------------------------------------------------------------------

\* A cycle lasts seconds: the day does not change between its two transactions.
DayPasses ==
  /\ today < LastDay
  /\ \A c \in Cycles : cycle[c].phase = "idle"
  /\ today' = today + 1
  /\ UNCHANGED <<span, log, reads, grids, cycle, torn>>

\* The user changes the backfill option.
ChangeSpan ==
  /\ span' \in Spans \ {span}
  /\ UNCHANGED <<today, log, reads, grids, cycle, torn>>

Init ==
  /\ today = FirstDay
  /\ span \in Spans
  /\ log = <<>>
  /\ reads = {}
  /\ grids = {}
  /\ cycle = [c \in Cycles |-> Idle]
  /\ torn = {}

Step(c) ==
  \/ StartCycle(c)
  \/ Login(c)
  \/ FetchFails(c)
  \/ RequestEscapes(c)
  \/ FormMissing(c)
  \/ RecordFetch(c)
  \/ StoreDaily(c)
  \/ StoreIntervals(c)
  \/ StoreRaises(c)
  \/ CheckBackfill(c)
  \/ LearnMeter(c)
  \/ Crash(c)

Next ==
  \/ \E c \in Cycles : Step(c)
  \/ DayPasses
  \/ ChangeSpan

Spec == Init /\ [][Next]_vars

-----------------------------------------------------------------------------
(* Properties *)

\* A logged fetch whose cycle is about to store it.
Pending(i) == \E c \in Cycles : cycle[c].phase = "store" /\ cycle[c].id = i

\* Days the portal's history shows on every day of the model.
AlwaysShown == LastDay - PortalDays .. FirstDay - 1

OkFetches(kind) == {i \in 1 .. Len(log) : log[i].ok /\ log[i].kind = kind}

\* What a successful range fetch asked for is archived, as far as the portal
\* had it.
Backfilled(i) == {d \in AlwaysShown : d >= log[i].from} \subseteq reads

\* Every day the log says was asked for is in the archive, unless the cycle was
\* cut between its two transactions: backfill_needed trusts the log, and
\* overlapping cycles, a change of the option or of the day, and every other
\* failure keep the log and the archived days in step.
BackfillKept ==
  \A i \in OkFetches("daily_range") \ torn : Pending(i) \/ Backfilled(i)

\* A successful grid fetch in the log has its intervals in the archive, unless
\* its cycle was cut between its two transactions: "a cycle that was interrupted
\* [...] before the grid must not count as recent" (coordinator.py).
FreshMeansStored ==
  \A i \in OkFetches("intervals") \ torn : Pending(i) \/ i \in grids

\* Successful range fetches that asked for nothing fetch i had not asked for.
Redundant(i) ==
  {j \in OkFetches("daily_range") : j > i /\ log[j].from >= log[i].from}

\* Once a range fetch is logged, only cycles that had already decided to ask may
\* ask for the same span again, each of them once: cycles that start later, on
\* the same day or on later ones, find it in the log ("on its first fetch the
\* integration asks for that history once", README.md; one request per span,
\* service.py).
BackfillOnce ==
  \A i \in OkFetches("daily_range") : Cardinality(Redundant(i)) < Cardinality(Cycles)
=============================================================================
