----------------------------- MODULE CycleProofs -----------------------------
(***************************************************************************)
(* The two transactions of a fetch, for any number of overlapping cycles,  *)
(* any faults and any history of the log.  What is missing for induction:  *)
(* a cycle that is about to store knows the log entry it stores for, a     *)
(* range fetch that succeeded has its window, and the cycles that may      *)
(* still repeat a span are counted together with those that did.           *)
(***************************************************************************)
EXTENDS Cycle, FiniteSetTheorems, TLAPS

Numbered ==
  \A c \in Cycles : cycle[c].phase = "store" =>
    cycle[c].id \in 1 .. Len(log) /\ log[cycle[c].id].kind = cycle[c].kind

Dated == \A i \in OkFetches("daily_range") : log[i].from \in Int

\* There is an earliest day asked for.
Earliest == Asked = {} \/ \E x \in Asked : \A y \in Asked : x <= y

\* Cycles about to ask for nothing fetch i had not asked for.
AskingAgain(i) ==
  {c \in Cycles : Requesting(c, "daily_range") /\ today - cycle[c].span >= log[i].from}

\* The cycle that logged fetch i is not one of those that may repeat it.
Once ==
  \A i \in OkFetches("daily_range") :
    Cardinality(Redundant(i)) + Cardinality(AskingAgain(i)) < Cardinality(Cycles)

Inv == TypeOK /\ Numbered /\ Dated /\ BackfillKept /\ FreshMeansStored /\ Earliest /\ Once

\* Cycle c moves, but not into its second transaction, and the archive is left
\* alone; if it gives up its second transaction, the fetch is torn.
Aside(c) ==
  /\ UNCHANGED <<log, reads, grids>>
  /\ torn \subseteq torn'
  /\ cycle[c].phase = "store" => cycle[c].id \in torn'
  /\ cycle'[c].phase # "store"
  /\ \A d \in Cycles \ {c} : cycle'[d] = cycle[d]

\* record_fetch adds this row.
Logged(row) == row \in Fetches /\ log' = Append(log, row)

Failure(kind) == [kind |-> kind, ok |-> FALSE, from |-> NULL]

LEMMA IdleTyped == Idle \in States
BY DEF States, Idle, Phases, Kinds

\* What record_fetch does to the log.
LEMMA LogGrows ==
  ASSUME TypeOK, NEW row, Logged(row)
  PROVE  /\ log' \in Seq(Fetches)
         /\ Len(log) \in Nat /\ Len(log') = Len(log) + 1
         /\ \A i \in 1 .. Len(log) : log'[i] = log[i]
         /\ log'[Len(log) + 1] = row
BY DEF TypeOK, Logged

\* The sets that are counted are finite.
LEMMA Countable ==
  ASSUME TypeOK, NEW i
  PROVE  /\ IsFiniteSet(Redundant(i)) /\ Cardinality(Redundant(i)) \in Nat
         /\ IsFiniteSet(AskingAgain(i)) /\ Cardinality(AskingAgain(i)) \in Nat
         /\ Cardinality(Cycles) \in Nat
<1>1. Redundant(i) \subseteq 1 .. Len(log) /\ IsFiniteSet(1 .. Len(log))
  BY FS_Interval DEF Redundant, OkFetches, TypeOK
<1>2. AskingAgain(i) \subseteq Cycles
  BY DEF AskingAgain
<1> QED BY <1>1, <1>2, FS_Subset, FS_CardinalityType, CycleAssumption

\* The successful fetches stay as they are, and no cycle joins those that may
\* repeat one.
LEMMA OnceKept ==
  ASSUME Inv, TypeOK',
         OkFetches("daily_range")' = OkFetches("daily_range"),
         \A i \in OkFetches("daily_range") : log'[i] = log[i],
         \A i \in OkFetches("daily_range") : AskingAgain(i)' \subseteq AskingAgain(i)
  PROVE  Earliest' /\ Once'
<1>1. Asked' = Asked
  BY DEF Asked, OkFetches
<1>2. Once'
  <2> SUFFICES ASSUME NEW i \in OkFetches("daily_range")
               PROVE  Cardinality(Redundant(i)') + Cardinality(AskingAgain(i)') < Cardinality(Cycles)
    BY DEF Once
  <2>1. Redundant(i)' = Redundant(i)
    BY DEF Redundant
  <2>2. IsFiniteSet(AskingAgain(i)) /\ Cardinality(AskingAgain(i)) \in Nat
        /\ Cardinality(Redundant(i)) \in Nat /\ Cardinality(Cycles) \in Nat
    BY Countable DEF Inv
  <2>3. /\ Cardinality(AskingAgain(i)') <= Cardinality(AskingAgain(i))
        /\ Cardinality(AskingAgain(i)') \in Nat
    BY <2>2, FS_Subset, FS_CardinalityType
  <2>4. Cardinality(Redundant(i)) + Cardinality(AskingAgain(i)) < Cardinality(Cycles)
    BY DEF Inv, Once
  <2> QED BY <2>1, <2>2, <2>3, <2>4
<1> QED BY <1>1, <1>2 DEF Inv, Earliest

\* The backfill check passes only a cycle whose span reaches before everything
\* that was asked for.
LEMMA NeededIsNew ==
  ASSUME Inv, NEW days \in Nat, BackfillNeeded(days), NEW i \in OkFetches("daily_range")
  PROVE  ~(today - days >= log[i].from)
<1>1. log[i].from \in Int /\ log[i].from \in Asked
  BY CycleAssumption DEF Inv, Dated, OkFetches, Asked
<1>2. PICK x \in Asked : \A y \in Asked : x <= y
  BY <1>1 DEF Inv, Earliest
<1>3. Min(Asked) \in Asked /\ Min(Asked) <= log[i].from
  BY <1>1, <1>2 DEF Min
<1>4. Asked \subseteq Int
  BY DEF Inv, Dated, OkFetches, Asked
<1>5. Min(Asked) > today - days
  BY <1>1 DEF BackfillNeeded
<1>6. today \in Int
  BY CycleAssumption DEF Inv, TypeOK
<1>7. Min(Asked) \in Int
  BY <1>3, <1>4
<1> QED BY <1>1, <1>3, <1>5, <1>6, <1>7

\* A step aside disturbs no invariant.
LEMMA AsideKeeps ==
  ASSUME Inv, NEW c \in Cycles, Aside(c)
  PROVE  Numbered' /\ Dated' /\ BackfillKept' /\ FreshMeansStored'
<1>1. Numbered'
  BY DEF Inv, Numbered, Aside
<1>2. Dated'
  BY DEF Inv, Dated, OkFetches, Aside
<1>3. \A i : Pending(i) => Pending(i)' \/ i \in torn'
  BY DEF Pending, Aside
<1>4. BackfillKept'
  BY <1>3 DEF Inv, BackfillKept, OkFetches, Backfilled, AlwaysShown, Aside
<1>5. FreshMeansStored'
  BY <1>3 DEF Inv, FreshMeansStored, OkFetches, Aside
<1> QED BY <1>1, <1>2, <1>4, <1>5

\* A fetch that failed is logged: no successful fetch is added.
LEMMA FailureKeeps ==
  ASSUME Inv, TypeOK', NEW c \in Cycles, NEW kind, Logged(Failure(kind)),
         cycle[c].phase = "request", cycle'[c].phase = "idle",
         \A d \in Cycles \ {c} : cycle'[d] = cycle[d],
         UNCHANGED <<today, reads, grids, torn>>
  PROVE  Numbered' /\ Dated' /\ BackfillKept' /\ FreshMeansStored' /\ Earliest' /\ Once'
<1>1. /\ Len(log') = Len(log) + 1 /\ Len(log) \in Nat
      /\ \A i \in 1 .. Len(log) : log'[i] = log[i]
      /\ ~log'[Len(log) + 1].ok
  BY LogGrows DEF Inv, Failure
<1>2. Numbered'
  BY <1>1 DEF Inv, Numbered
<1>3. \A k : OkFetches(k)' = OkFetches(k)
  BY <1>1 DEF OkFetches
<1>4. Dated'
  BY <1>1, <1>3 DEF Inv, Dated, OkFetches
<1>5. \A i : Pending(i) => Pending(i)'
  BY DEF Pending
<1>6. BackfillKept'
  <2> SUFFICES ASSUME NEW i \in OkFetches("daily_range") \ torn
               PROVE  Pending(i)' \/ Backfilled(i)'
    BY <1>3 DEF BackfillKept
  <2>1. log'[i].from = log[i].from
    BY <1>1 DEF OkFetches
  <2> QED BY <1>5, <2>1 DEF Inv, BackfillKept, Backfilled, AlwaysShown
<1>7. FreshMeansStored'
  BY <1>3, <1>5 DEF Inv, FreshMeansStored
<1>8. Earliest' /\ Once'
  <2>1. \A i \in OkFetches("daily_range") : log'[i] = log[i]
    BY <1>1 DEF OkFetches
  <2>2. \A i \in OkFetches("daily_range") : AskingAgain(i)' \subseteq AskingAgain(i)
    BY <2>1 DEF AskingAgain, Requesting
  <2> QED BY <1>3, <2>1, <2>2, OnceKept
<1> QED BY <1>2, <1>4, <1>6, <1>7, <1>8

LEMMA Initially == Init => Inv
<1> SUFFICES ASSUME Init PROVE Inv
  OBVIOUS
<1>1. TypeOK
  <2>1. cycle \in [Cycles -> States]
    BY DEF Init, Idle, States, Phases, Kinds
  <2> QED BY <2>1, CycleAssumption DEF Init, TypeOK
<1>2. Numbered /\ Dated /\ BackfillKept /\ FreshMeansStored /\ Earliest /\ Once
  BY DEF Init, Idle, Numbered, Dated, BackfillKept, FreshMeansStored, OkFetches, Earliest,
     Asked, Once
<1> QED BY <1>1, <1>2 DEF Inv

LEMMA TypeStep ==
  ASSUME TypeOK, Numbered, [Next]_vars
  PROVE  TypeOK'
<1> USE CycleAssumption
<1>1. ASSUME NEW c \in Cycles, End(c)
      PROVE  cycle' \in [Cycles -> States]
  BY <1>1, IdleTyped DEF End, TypeOK, States
<1>2. ASSUME NEW c \in Cycles, NEW phase \in Phases, NEW kind \in Kinds, Go(c, phase, kind)
      PROVE  cycle' \in [Cycles -> States]
  BY <1>2 DEF Go, TypeOK, States
<1>3. ASSUME NEW c \in Cycles, StartCycle(c) PROVE TypeOK'
  BY <1>3 DEF StartCycle, TypeOK, States, Idle, Phases, Kinds
<1>4. ASSUME NEW c \in Cycles, Login(c) PROVE TypeOK'
  BY <1>4, <1>1, <1>2 DEF Login, TypeOK, Phases, Kinds
<1>5. ASSUME NEW c \in Cycles, FetchFails(c) PROVE TypeOK'
  <2>1. Logged(Failure(cycle[c].kind))
    BY <1>5 DEF FetchFails, Record, Logged, Failure, Fetches, TypeOK, States
  <2>2. log' \in Seq(Fetches) /\ Len(log) \in Nat /\ Len(log') = Len(log) + 1
    BY <2>1, LogGrows
  <2>3. cycle' \in [Cycles -> States]
    BY <1>5, <1>1 DEF FetchFails
  <2> QED BY <1>5, <2>1, <2>2, <2>3 DEF FetchFails, TypeOK
<1>7. ASSUME NEW c \in Cycles, RequestEscapes(c) \/ FormMissing(c) PROVE TypeOK'
  BY <1>7, <1>1 DEF RequestEscapes, FormMissing, TypeOK
<1>8. ASSUME NEW c \in Cycles, RecordFetch(c) PROVE TypeOK'
  <2> DEFINE from == IF Requesting(c, "daily_range") THEN today - cycle[c].span ELSE NULL
  <2>0. from \in Int \cup {NULL}
    BY DEF TypeOK, States
  <2>1. Logged([kind |-> cycle[c].kind, ok |-> TRUE, from |-> from])
    BY <1>8, <2>0 DEF RecordFetch, Record, Logged, Fetches, TypeOK, States
  <2>2. cycle' \in [Cycles -> States]
    <3>1. [cycle[c] EXCEPT !.phase = "store", !.id = Len(log) + 1] \in States
      <4>1. cycle[c] \in States /\ Len(log) \in Nat
        BY DEF TypeOK
      <4>2. PICK s \in States : s = [cycle[c] EXCEPT !.phase = "store"]
        BY <4>1 DEF States, Phases
      <4>3. [s EXCEPT !.id = Len(log) + 1] \in States
        BY <4>1 DEF States
      <4> QED BY <4>2, <4>3
    <3> QED BY <1>8, <3>1 DEF RecordFetch, TypeOK, States
  <2>3. Len(log) \in Nat /\ Len(log') = Len(log) + 1
    BY <2>1, LogGrows
  <2> QED BY <1>8, <2>1, <2>2, <2>3, LogGrows DEF RecordFetch, TypeOK
<1>9. ASSUME NEW c \in Cycles, StoreDaily(c) PROVE TypeOK'
  <2>1. reads' \subseteq Int
    <3>1. Answer(cycle[c].kind, log[cycle[c].id].from) \subseteq Int
      BY DEF Answer, TypeOK
    <3> QED BY <1>9, <3>1 DEF StoreDaily, TypeOK
  <2> QED BY <1>9, <1>2, <2>1 DEF StoreDaily, TypeOK, Phases, Kinds
<1>10. ASSUME NEW c \in Cycles, StoreIntervals(c) PROVE TypeOK'
  BY <1>10, <1>1 DEF StoreIntervals, TypeOK, Numbered
<1>11. ASSUME NEW c \in Cycles, StoreRaises(c) \/ Crash(c) PROVE TypeOK'
  BY <1>11, <1>1 DEF StoreRaises, Crash, TypeOK, Numbered
<1>12. ASSUME NEW c \in Cycles, CheckBackfill(c) PROVE TypeOK'
  BY <1>12, <1>2 DEF CheckBackfill, TypeOK, Phases, Kinds
<1>13. ASSUME NEW c \in Cycles, LearnMeter(c) PROVE TypeOK'
  BY <1>13, <1>1, <1>2 DEF LearnMeter, TypeOK, Phases, Kinds
<1>14. CASE DayPasses
  BY <1>14 DEF DayPasses, TypeOK
<1>15. CASE ChangeSpan
  BY <1>15 DEF ChangeSpan, TypeOK
<1>16. CASE UNCHANGED vars
  BY <1>16 DEF vars, TypeOK
<1> QED BY <1>3, <1>4, <1>5, <1>7, <1>8, <1>9, <1>10, <1>11, <1>12, <1>13, <1>14, <1>15,
           <1>16 DEF Next, Step

LEMMA Inductive ==
  ASSUME Inv, [Next]_vars
  PROVE  Inv'
<1> USE CycleAssumption
<1>1. TypeOK'
  BY TypeStep DEF Inv
<1>2. ASSUME NEW c \in Cycles, Aside(c),
             \A i \in OkFetches("daily_range") : AskingAgain(i)' \subseteq AskingAgain(i)
      PROVE  Inv'
  <2>1. Earliest' /\ Once'
    BY <1>1, <1>2, OnceKept DEF Aside, OkFetches
  <2> QED BY <1>1, <1>2, <2>1, AsideKeeps DEF Inv
<1>3. ASSUME NEW c \in Cycles,
             StartCycle(c) \/ Login(c) \/ RequestEscapes(c) \/ FormMissing(c)
               \/ CheckBackfill(c) \/ LearnMeter(c) \/ StoreRaises(c) \/ Crash(c)
      PROVE  Inv'
  <2>1. Aside(c)
    <3> USE DEF Aside, End, Go, Idle, Inv, TypeOK, States
    <3>1. CASE StartCycle(c)
      BY <3>1 DEF StartCycle
    <3>2. CASE Login(c)
      BY <3>2 DEF Login
    <3>3. CASE RequestEscapes(c) \/ FormMissing(c)
      BY <3>3 DEF RequestEscapes, FormMissing, Requesting
    <3>4. CASE CheckBackfill(c)
      BY <3>4 DEF CheckBackfill
    <3>5. CASE LearnMeter(c)
      BY <3>5 DEF LearnMeter
    <3>6. CASE StoreRaises(c) \/ Crash(c)
      BY <3>6 DEF StoreRaises, Crash
    <3> QED BY <1>3, <3>1, <3>2, <3>3, <3>4, <3>5, <3>6
  <2>2. UNCHANGED <<today, log>>
    BY <1>3 DEF StartCycle, Login, RequestEscapes, FormMissing, CheckBackfill, LearnMeter,
       StoreRaises, Crash
  <2>3. Requesting(c, "daily_range")' => CheckBackfill(c) /\ BackfillNeeded(cycle[c].span)
                                        /\ cycle'[c].span = cycle[c].span
    <3> USE DEF End, Go, Idle, Inv, TypeOK, States, Requesting
    <3>1. CASE StartCycle(c)
      BY <3>1 DEF StartCycle
    <3>4. CASE Login(c)
      BY <3>4 DEF Login
    <3>5. CASE LearnMeter(c)
      BY <3>5 DEF LearnMeter
    <3>2. CASE RequestEscapes(c) \/ FormMissing(c) \/ StoreRaises(c) \/ Crash(c)
      BY <3>2 DEF RequestEscapes, FormMissing, StoreRaises, Crash
    <3>3. CASE CheckBackfill(c)
      BY <3>3 DEF CheckBackfill
    <3> QED BY <1>3, <3>1, <3>2, <3>3, <3>4, <3>5
  <2>4. ASSUME NEW i \in OkFetches("daily_range")
        PROVE  AskingAgain(i)' \subseteq AskingAgain(i)
    <3>1. cycle[c].span \in Nat
      BY DEF Inv, TypeOK, States
    <3>2. c \notin AskingAgain(i)'
      BY <2>2, <2>3, <3>1, NeededIsNew DEF AskingAgain
    <3> QED BY <2>1, <2>2, <3>2 DEF AskingAgain, Requesting, Aside
  <2> QED BY <1>2, <2>1, <2>4
<1>4. ASSUME NEW c \in Cycles, FetchFails(c) PROVE Inv'
  <2>1. Logged(Failure(cycle[c].kind))
    BY <1>4 DEF FetchFails, Record, Logged, Failure, Fetches, Inv, TypeOK, States
  <2>2. /\ cycle[c].phase = "request" /\ cycle'[c].phase = "idle"
        /\ \A d \in Cycles \ {c} : cycle'[d] = cycle[d]
        /\ UNCHANGED <<today, reads, grids, torn>>
    BY <1>4 DEF FetchFails, End, Idle, Inv, TypeOK
  <2> QED BY <1>1, <2>1, <2>2, FailureKeeps DEF Inv
<1>5. ASSUME NEW c \in Cycles, RecordFetch(c) PROVE Inv'
  <2> PICK n \in Nat : n = Len(log) + 1
    BY DEF Inv, TypeOK
  <2> DEFINE from == IF Requesting(c, "daily_range") THEN today - cycle[c].span ELSE NULL
  <2>1. /\ Len(log') = n /\ n \in Nat
        /\ \A i \in 1 .. Len(log) : log'[i] = log[i]
        /\ log'[n] = [kind |-> cycle[c].kind, ok |-> TRUE, from |-> from]
    <3>1. Logged([kind |-> cycle[c].kind, ok |-> TRUE, from |-> from])
      <4>1. from \in Int \cup {NULL}
        BY DEF Inv, TypeOK, States
      <4> QED BY <1>5, <4>1 DEF RecordFetch, Record, Logged, Fetches, Inv, TypeOK, States
    <3> HIDE DEF from
    <3> QED BY <3>1, LogGrows DEF Inv
  <2>2. /\ cycle[c].phase = "request"
        /\ cycle'[c].phase = "store" /\ cycle'[c].id = n /\ cycle'[c].kind = cycle[c].kind
        /\ \A d \in Cycles \ {c} : cycle'[d] = cycle[d]
        /\ UNCHANGED <<today, reads, grids, torn>>
    BY <1>5 DEF RecordFetch, Inv, TypeOK, States
  <2>3. Numbered'
    BY <2>1, <2>2 DEF Inv, Numbered
  <2>4. \A k : OkFetches(k)' \subseteq OkFetches(k) \cup {n}
    BY <2>1 DEF OkFetches
  <2>5. Dated'
    <3>1. cycle[c].kind = "daily_range" => from \in Int
      BY <2>2 DEF Requesting, Inv, TypeOK, States
    <3> QED BY <2>1, <3>1 DEF Inv, Dated, OkFetches
  <2>6. Pending(n)' /\ (\A i : Pending(i) => Pending(i)')
    BY <2>2 DEF Pending
  <2>7. BackfillKept'
    <3> SUFFICES ASSUME NEW i \in OkFetches("daily_range") \ torn, i # n
                 PROVE  Pending(i)' \/ Backfilled(i)'
      BY <2>2, <2>4, <2>6 DEF BackfillKept
    <3>1. log'[i].from = log[i].from
      BY <2>1 DEF OkFetches
    <3> QED BY <2>2, <2>6, <3>1 DEF Inv, BackfillKept, Backfilled, AlwaysShown
  <2>8. FreshMeansStored'
    BY <2>2, <2>4, <2>6 DEF Inv, FreshMeansStored
  <2>9. CASE cycle[c].kind # "daily_range"
    <3>1. OkFetches("daily_range")' = OkFetches("daily_range")
      BY <2>1, <2>9 DEF OkFetches
    <3>2. \A i \in OkFetches("daily_range") : log'[i] = log[i]
      BY <2>1 DEF OkFetches
    <3>3. \A i \in OkFetches("daily_range") : AskingAgain(i)' \subseteq AskingAgain(i)
      BY <2>2, <3>2 DEF AskingAgain, Requesting
    <3>4. Earliest' /\ Once'
      BY <1>1, <3>1, <3>2, <3>3, OnceKept
    <3> QED BY <1>1, <2>3, <2>5, <2>7, <2>8, <3>4 DEF Inv
  <2>10. CASE cycle[c].kind = "daily_range"
    <3>1. /\ from = today - cycle[c].span /\ from \in Int
          /\ Requesting(c, "daily_range") /\ ~Requesting(c, "daily_range")'
      BY <2>2, <2>10 DEF Requesting, Inv, TypeOK, States
    <3> HIDE DEF from
    <3>2. OkFetches("daily_range")' = OkFetches("daily_range") \cup {n}
          /\ n \notin OkFetches("daily_range")
      BY <2>1, <2>10 DEF OkFetches
    <3>3. \A i \in OkFetches("daily_range") : log'[i] = log[i] /\ i \in Nat /\ i < n
      BY <2>1 DEF OkFetches
    <3>4. Asked' = Asked \cup {from} /\ Asked \subseteq Int
      <4>1. \A k \in 1 .. n : k # n => k \in 1 .. Len(log) /\ log'[k] = log[k]
        BY <2>1
      <4>2. from # NULL
        BY <3>1, CycleAssumption
      <4>3. Asked = {log[i].from : i \in {j \in OkFetches("daily_range") : log[j].from # NULL}}
        BY DEF Asked, OkFetches
      <4>4. Asked' = {log'[i].from : i \in {j \in OkFetches("daily_range")' : log'[j].from # NULL}}
        BY DEF Asked, OkFetches
      <4> QED BY <2>1, <3>2, <3>3, <4>2, <4>3, <4>4 DEF Inv, Dated
    <3>5. Earliest'
      <4>1. CASE Asked = {}
        BY <3>1, <3>4, <4>1 DEF Earliest
      <4>2. CASE Asked # {}
        <5>1. PICK x \in Asked : \A y \in Asked : x <= y
          BY <4>2 DEF Inv, Earliest
        <5>2. CASE x <= from
          BY <3>1, <3>4, <5>1, <5>2 DEF Earliest
        <5>3. CASE ~(x <= from)
          BY <3>1, <3>4, <5>1, <5>3 DEF Earliest
        <5> QED BY <5>2, <5>3
      <4> QED BY <4>1, <4>2
    <3>6. ASSUME NEW i \in OkFetches("daily_range")
          PROVE  Cardinality(Redundant(i)') + Cardinality(AskingAgain(i)') < Cardinality(Cycles)
      <4>1. /\ IsFiniteSet(Redundant(i)) /\ Cardinality(Redundant(i)) \in Nat
            /\ IsFiniteSet(AskingAgain(i)) /\ Cardinality(AskingAgain(i)) \in Nat
            /\ Cardinality(Cycles) \in Nat
            /\ Cardinality(Redundant(i)) + Cardinality(AskingAgain(i)) < Cardinality(Cycles)
        BY Countable DEF Inv, Once
      <4>2. AskingAgain(i)' = AskingAgain(i) \ {c}
        BY <2>2, <3>1, <3>3 DEF AskingAgain, Requesting
      <4>3. n \notin Redundant(i)
        BY <3>2 DEF Redundant
      <4>4. CASE from >= log[i].from
        <5>1. Redundant(i)' = Redundant(i) \cup {n}
          BY <2>1, <3>2, <3>3, <4>4 DEF Redundant
        <5>2. c \in AskingAgain(i)
          BY <3>1, <4>4 DEF AskingAgain
        <5>3. Cardinality(Redundant(i)') = Cardinality(Redundant(i)) + 1
          BY <4>1, <4>3, <5>1, FS_AddElement
        <5>4. Cardinality(AskingAgain(i)') = Cardinality(AskingAgain(i)) - 1
          BY <4>1, <4>2, <5>2, FS_RemoveElement
        <5> QED BY <4>1, <5>3, <5>4
      <4>5. CASE ~(from >= log[i].from)
        <5>1. Redundant(i)' = Redundant(i)
          BY <2>1, <3>2, <3>3, <4>5 DEF Redundant
        <5>2. /\ Cardinality(AskingAgain(i)') <= Cardinality(AskingAgain(i))
              /\ Cardinality(AskingAgain(i)') \in Nat
          BY <4>1, <4>2, FS_Subset, FS_CardinalityType
        <5> QED BY <4>1, <5>1, <5>2
      <4> QED BY <4>4, <4>5
    <3>7. Cardinality(Redundant(n)') + Cardinality(AskingAgain(n)') < Cardinality(Cycles)
      <4>1. Redundant(n)' = {}
        BY <3>2, <3>3 DEF Redundant
      <4>2. AskingAgain(n)' \subseteq Cycles \ {c}
        BY <3>1 DEF AskingAgain
      <4>3. /\ IsFiniteSet(Cycles \ {c}) /\ Cardinality(Cycles) \in Nat
            /\ Cardinality(Cycles \ {c}) = Cardinality(Cycles) - 1
        BY FS_RemoveElement, FS_CardinalityType, CycleAssumption
      <4>4. /\ Cardinality(AskingAgain(n)') <= Cardinality(Cycles \ {c})
            /\ Cardinality(AskingAgain(n)') \in Nat
        BY <4>2, <4>3, FS_Subset, FS_CardinalityType
      <4>5. Cardinality(Redundant(n)') = 0
        BY <4>1, FS_EmptySet
      <4> QED BY <4>3, <4>4, <4>5
    <3>8. Once'
      BY <3>2, <3>6, <3>7 DEF Once
    <3> QED BY <1>1, <2>3, <2>5, <2>7, <2>8, <3>5, <3>8 DEF Inv
  <2> QED BY <2>9, <2>10
<1>6. ASSUME NEW c \in Cycles, StoreDaily(c) PROVE Inv'
  <2> DEFINE id == cycle[c].id
  <2>1. /\ cycle[c].phase = "store" /\ cycle[c].kind # "intervals"
        /\ cycle'[c].phase \notin {"store", "request"}
        /\ \A d \in Cycles \ {c} : cycle'[d] = cycle[d]
        /\ UNCHANGED <<today, log, grids, torn>>
        /\ reads' = reads \cup Answer(cycle[c].kind, log[id].from)
    BY <1>6 DEF StoreDaily, Go, Inv, TypeOK, States
  <2>2. id \in 1 .. Len(log) /\ log[id].kind = cycle[c].kind
    BY <2>1 DEF Inv, Numbered
  <2>3. Numbered' /\ Dated'
    BY <2>1 DEF Inv, Numbered, Dated, OkFetches
  <2>4. \A i : Pending(i) => Pending(i)' \/ i = id
    BY <2>1 DEF Pending
  <2>5. BackfillKept'
    <3> SUFFICES ASSUME NEW i \in OkFetches("daily_range") \ torn
                 PROVE  Pending(i)' \/ Backfilled(i)'
      BY <2>1 DEF BackfillKept, OkFetches
    <3>1. CASE i = id
      <4>1. log[i].kind = "daily_range" /\ log[i].from \in Int
        BY DEF OkFetches, Inv, Dated
      <4>2. Answer("daily_range", log[i].from) \subseteq reads'
        BY <2>1, <2>2, <3>1, <4>1
      <4>3. {d \in AlwaysShown : d >= log[i].from} \subseteq Answer("daily_range", log[i].from)
        BY <4>1 DEF AlwaysShown, Answer, Inv, TypeOK
      <4> QED BY <2>1, <4>2, <4>3 DEF Backfilled, AlwaysShown
    <3>2. CASE i # id
      BY <2>1, <2>4, <3>2 DEF Inv, BackfillKept, Backfilled, AlwaysShown
    <3> QED BY <3>1, <3>2
  <2>6. FreshMeansStored'
    BY <2>1, <2>2, <2>4 DEF Inv, FreshMeansStored, OkFetches
  <2>7. Earliest' /\ Once'
    <3>1. \A i \in OkFetches("daily_range") : AskingAgain(i)' \subseteq AskingAgain(i)
      BY <2>1 DEF AskingAgain, Requesting
    <3> QED BY <1>1, <2>1, <3>1, OnceKept DEF OkFetches
  <2> QED BY <1>1, <2>3, <2>5, <2>6, <2>7 DEF Inv
<1>7. ASSUME NEW c \in Cycles, StoreIntervals(c) PROVE Inv'
  <2> DEFINE id == cycle[c].id
  <2>1. /\ cycle[c].phase = "store" /\ cycle[c].kind = "intervals"
        /\ cycle'[c].phase \notin {"store", "request"}
        /\ \A d \in Cycles \ {c} : cycle'[d] = cycle[d]
        /\ UNCHANGED <<today, log, reads, torn>>
        /\ grids' = grids \cup {id}
    BY <1>7 DEF StoreIntervals, End, Idle, Inv, TypeOK
  <2>2. id \in 1 .. Len(log) /\ log[id].kind = "intervals"
    BY <2>1 DEF Inv, Numbered
  <2>3. Numbered' /\ Dated'
    BY <2>1 DEF Inv, Numbered, Dated, OkFetches
  <2>4. \A i : Pending(i) => Pending(i)' \/ i = id
    BY <2>1 DEF Pending
  <2>5. BackfillKept'
    BY <2>1, <2>2, <2>4 DEF Inv, BackfillKept, Backfilled, AlwaysShown, OkFetches
  <2>6. FreshMeansStored'
    BY <2>1, <2>4 DEF Inv, FreshMeansStored, OkFetches
  <2>7. Earliest' /\ Once'
    <3>1. \A i \in OkFetches("daily_range") : AskingAgain(i)' \subseteq AskingAgain(i)
      BY <2>1 DEF AskingAgain, Requesting
    <3> QED BY <1>1, <2>1, <3>1, OnceKept DEF OkFetches
  <2> QED BY <1>1, <2>3, <2>5, <2>6, <2>7 DEF Inv
<1>8. CASE DayPasses \/ ChangeSpan \/ UNCHANGED vars
  <2>1. UNCHANGED <<log, reads, grids, cycle, torn>>
    BY <1>8 DEF DayPasses, ChangeSpan, vars
  <2>2. \A i \in OkFetches("daily_range") : AskingAgain(i)' \subseteq AskingAgain(i)
    BY <1>8 DEF DayPasses, ChangeSpan, vars, AskingAgain, Requesting
  <2>3. Earliest' /\ Once'
    BY <1>1, <2>1, <2>2, OnceKept DEF OkFetches
  <2> QED BY <1>1, <2>1, <2>3 DEF Inv, Numbered, Dated, BackfillKept, FreshMeansStored, OkFetches,
             Pending, Backfilled, AlwaysShown
<1> QED BY <1>3, <1>4, <1>5, <1>6, <1>7, <1>8 DEF Next, Step

LEMMA Invariant == Spec => []Inv
BY Initially, Inductive, PTL DEF Spec

\* The log, the archive and the cycles keep their shape.
THEOREM Typed == Spec => []TypeOK
<1>1. Inv => TypeOK
  BY DEF Inv
<1> QED BY <1>1, Invariant, PTL

\* The log and the archived days agree on what was backfilled, unless a cycle was
\* cut between its two transactions (Pipeline._fetch_range, backfill_needed).
THEOREM BackfillInStep == Spec => []BackfillKept
<1>1. Inv => BackfillKept
  BY DEF Inv
<1> QED BY <1>1, Invariant, PTL

\* The log and the archived intervals agree on how recent the archive is, with
\* the same exception (Pipeline.fetch_intervals, the startup guard).
THEOREM FreshnessInStep == Spec => []FreshMeansStored
<1>1. Inv => FreshMeansStored
  BY DEF Inv
<1> QED BY <1>1, Invariant, PTL

\* A span that was asked for is asked for again only by cycles that had decided to
\* before the log said so, however many cycles run, whatever the option is changed
\* to and however many days pass (Pipeline.backfill_needed, fetch_daily).
THEOREM AskedOnce == Spec => []BackfillOnce
<1>1. Inv => BackfillOnce
  <2> SUFFICES ASSUME Inv, NEW i \in OkFetches("daily_range")
               PROVE  Cardinality(Redundant(i)) < Cardinality(Cycles)
    BY DEF BackfillOnce
  <2>1. /\ Cardinality(Redundant(i)) \in Nat /\ Cardinality(AskingAgain(i)) \in Nat
        /\ Cardinality(Cycles) \in Nat
    BY Countable DEF Inv
  <2>2. Cardinality(Redundant(i)) + Cardinality(AskingAgain(i)) < Cardinality(Cycles)
    BY DEF Inv, Once
  <2> QED BY <2>1, <2>2
<1> QED BY <1>1, Invariant, PTL
=============================================================================
