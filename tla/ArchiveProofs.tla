---------------------------- MODULE ArchiveProofs ----------------------------
(***************************************************************************)
(* Archive, for any keys, columns, pages, writers and bounds.              *)
(***************************************************************************)
EXTENDS Archive, SequenceTheorems, FiniteSetTheorems, WellFoundedInduction, TLAPS

-----------------------------------------------------------------------------
(* Lemmas about the operators *)

\* What a page holds.
LEMMA CaptureType ==
  ASSUME NEW c \in Captures
  PROVE  /\ c.received \in BOOLEAN
         /\ c.keys \subseteq Keys
         /\ \A k \in Keys, f \in Fields : c.cell[k][f] \in Values \cup {NULL}
BY CapturesAssumption DEF Capture, Cells

\* Pruning keeps every row of raw_pages: it may only clear the content.
LEMMA PrunedType ==
  ASSUME NEW ps \in Seq(Page), NEW s
  PROVE  Pruned(ps, s) \in Seq(Page) /\ Len(Pruned(ps, s)) = Len(ps)
<1> DEFINE pr(p) == [ps[p] EXCEPT !.kept = @ /\ (ps[p].ok => p \in s)]
<1>1. ASSUME NEW p \in 1 .. Len(ps) PROVE pr(p) \in Page
  <2>1. ps[p] \in Page
    OBVIOUS
  <2>2. ps[p].kept \in BOOLEAN /\ (ps[p].kept /\ (ps[p].ok => p \in s)) \in BOOLEAN
    BY <2>1 DEF Page
  <2> QED BY <2>1, <2>2 DEF Page
<1>2. Len(ps) \in Nat
  OBVIOUS
<1> QED BY <1>1, <1>2 DEF Pruned

\* The upsert keeps the tables well typed.
LEMMA StoreType ==
  ASSUME TypeOK, NEW c \in Captures, NEW id \in Nat, NEW at \in Nat,
         StoreIntervals(c, id, at)
  PROVE  /\ rows' \in [Keys -> Row]
         /\ revisions' \in [Keys -> [Fields -> Seq(Revision)]]
         /\ hasReceived' \in BOOLEAN
<1>1. \A k \in Keys : rows[k].val \in Cells /\ rows[k].fetch \in Nat
  BY DEF TypeOK, Row
<1>2. ASSUME NEW k \in Keys PROVE NewRow(c, k, id) \in Row
  BY <1>1, CaptureType DEF NewRow, Row, Cells
<1>3. rows' \in [Keys -> Row]
  BY <1>2 DEF StoreIntervals, TypeOK
<1>4. ASSUME NEW k \in Keys, NEW f \in Fields, Differs(c, k, f)
      PROVE  NewRevision(c, k, f, id, at) \in Revision
  BY <1>1, <1>4, CaptureType DEF NewRevision, Revision, Cells, Differs
<1>5. ASSUME NEW k \in Keys, NEW f \in Fields
      PROVE  revisions'[k][f] \in Seq(Revision)
  BY <1>4 DEF StoreIntervals, TypeOK
<1>6. revisions' \in [Keys -> [Fields -> Seq(Revision)]]
  BY <1>5 DEF StoreIntervals, TypeOK
<1>7. hasReceived' \in BOOLEAN
  BY DEF StoreIntervals, MeterReceived, TypeOK
<1> QED BY <1>3, <1>6, <1>7

\* What is owed are starts.
LEMMA OweType ==
  ASSUME TypeOK, NEW written, written \subseteq Keys, NEW t, Owe(written, t)
  PROVE  owed' \subseteq Keys
BY DEF Owe, TypeOK

\* So are what a page inserts and updates.
LEMMA WrittenType ==
  ASSUME NEW c \in Captures
  PROVE  Inserted(c) \subseteq Keys /\ Updated(c) \subseteq Keys
BY CaptureType DEF Inserted, Updated

\* A fetch is logged: the tables only grow, and a page that is added is named by
\* the fetch added with it.
LEMMA RecordType ==
  ASSUME TypeOK, References, NEW c, NEW at \in Nat,
         \/ RecordTransportError(at)
         \/ c \in Captures /\ (RecordOk(c, at) \/ RecordParseError(c, at))
  PROVE  /\ fetches' \in Seq(Fetch)
         /\ pages' \in Seq(Page)
         /\ Len(fetches') = Len(fetches) + 1
         /\ \A id \in 1 .. Len(fetches) : fetches'[id] = fetches[id]
         /\ Len(pages') >= Len(pages)
         /\ \A p \in 1 .. Len(pages') :
              \E id \in 1 .. Len(fetches') : fetches'[id].page = p
<1> DEFINE New(ok, p) == [ok |-> ok, at |-> at, page |-> p]
           Added(ok)  == [ok |-> ok, at |-> at, kept |-> TRUE, cap |-> c]
           Logged(fetch) ==
             /\ fetches' = Append(fetches, fetch)
             /\ pages' \in Seq(Page)
             /\ \/ pages' = pages
                \/ fetch.page = Len(pages) + 1 /\ Len(pages') = fetch.page
<1> HIDE DEF Logged
<1>1. fetches \in Seq(Fetch) /\ pages \in Seq(Page) /\ Len(pages) \in Nat
  BY DEF TypeOK
<1>2. ASSUME NEW ok \in BOOLEAN, c \in Captures
      PROVE  /\ Append(pages, Added(ok)) \in Seq(Page)
             /\ Len(Append(pages, Added(ok))) = Len(pages) + 1
  <2>1. Added(ok) \in Page
    BY <1>2 DEF Page
  <2> QED BY <1>1, <2>1
<1>3. \E fetch \in Fetch : Logged(fetch)
  <2>1. CASE RecordOk(c, at) /\ KeepOk = 0
    <3>1. New(TRUE, 0) \in Fetch /\ Logged(New(TRUE, 0))
      BY <1>1, <2>1 DEF RecordOk, Logged, Fetch
    <3> QED BY <3>1
  <2>2. CASE c \in Captures /\ RecordOk(c, at) /\ KeepOk # 0
    <3>1. /\ fetches' = Append(fetches, New(TRUE, Len(Append(pages, Added(TRUE)))))
          /\ \E s : pages' = Pruned(Append(pages, Added(TRUE)), s)
      BY <2>2 DEF RecordOk
    <3>2. pages' \in Seq(Page) /\ Len(pages') = Len(pages) + 1
      BY <2>2, <3>1, <1>2, PrunedType
    <3>3. New(TRUE, Len(pages) + 1) \in Fetch /\ Logged(New(TRUE, Len(pages) + 1))
      BY <1>1, <1>2, <2>2, <3>1, <3>2 DEF Logged, Fetch
    <3> QED BY <3>3
  <2>3. CASE RecordTransportError(at)
    <3>1. New(FALSE, 0) \in Fetch /\ Logged(New(FALSE, 0))
      BY <1>1, <2>3 DEF RecordTransportError, Logged, Fetch
    <3> QED BY <3>1
  <2>4. CASE c \in Captures /\ RecordParseError(c, at)
    <3>1. pages' = Append(pages, Added(FALSE))
      BY <2>4 DEF RecordParseError
    <3>2. New(FALSE, Len(pages) + 1) \in Fetch
      BY <1>1 DEF Fetch
    <3>3. Logged(New(FALSE, Len(pages) + 1))
      BY <1>2, <2>4, <3>1 DEF RecordParseError, Logged
    <3> QED BY <3>2, <3>3
  <2> QED BY <2>1, <2>2, <2>3, <2>4
<1>4. PICK fetch \in Fetch : Logged(fetch)
  BY <1>3
<1> USE DEF Logged
<1>5. fetches' \in Seq(Fetch) /\ Len(fetches') = Len(fetches) + 1
  BY <1>1, <1>4
<1>6. /\ \A id \in 1 .. Len(fetches) : fetches'[id] = fetches[id]
      /\ fetches'[Len(fetches) + 1] = fetch
  BY <1>1, <1>4
<1>7. ASSUME NEW q \in 1 .. Len(pages')
      PROVE  \E id \in 1 .. Len(fetches') : fetches'[id].page = q
  <2>1. CASE q \in 1 .. Len(pages)
    <3>1. PICK id \in 1 .. Len(fetches) : fetches[id].page = q
      BY <2>1 DEF References
    <3>2. id \in 1 .. Len(fetches') /\ fetches'[id].page = q
      BY <3>1, <1>1, <1>5, <1>6
    <3> QED BY <3>2
  <2>2. CASE q = Len(pages) + 1 /\ fetch.page = q
    BY <2>2, <1>1, <1>5, <1>6
  <2> QED BY <1>1, <1>4, <2>1, <2>2
<1>8. pages' \in Seq(Page) /\ Len(pages') >= Len(pages)
  BY <1>1, <1>4
<1> QED BY <1>5, <1>6, <1>7, <1>8

-----------------------------------------------------------------------------
(* The invariant *)

\* Inductive: `reparse` stores under the fetch References finds for its page,
\* and a trail grows only on a row that is stored.
Inv == TypeOK /\ References /\ AuditTrail /\ ReceivedKnown

\* An empty archive satisfies the invariant.
LEMMA InitInv == Init => Inv
<1> SUFFICES ASSUME Init PROVE Inv
  OBVIOUS
<1> USE DEF Init
<1>1. TypeOK
  <2>1. rows \in [Keys -> Row]
    BY DEF Row, Cells
  <2>2. revisions \in [Keys -> [Fields -> Seq(Revision)]]
    OBVIOUS
  <2>3. worker \in [Writers -> Work]
    BY DEF Work, Steps, Idle
  <2>4. fetches \in Seq(Fetch) /\ pages \in Seq(Page)
    OBVIOUS
  <2>5. reparse \in Reparse
    BY DEF Reparse, Done
  <2> QED BY <2>1, <2>2, <2>3, <2>4, <2>5 DEF TypeOK
<1>2. References
  BY DEF References, Idle, Done
<1>3. AuditTrail
  BY DEF AuditTrail, CellAudited
<1>4. ReceivedKnown
  BY FieldsAssumption DEF ReceivedKnown
<1> QED BY <1>1, <1>2, <1>3, <1>4 DEF Inv

\* An upsert under a logged fetch extends the trails by exactly what it changes.
LEMMA StoreAudited ==
  ASSUME Inv, NEW c \in Captures, NEW id \in 1 .. Len(fetches), NEW at \in Nat,
         StoreIntervals(c, id, at)
  PROVE  /\ AuditTrail'
         /\ ReceivedKnown'
         /\ \A k \in Keys : rows'[k].fetch \in {id, rows[k].fetch}
<1> USE DEF Inv
<1>1. id \in Nat \ {0}
  BY DEF TypeOK
<1>2. ASSUME NEW k \in Keys, NEW f \in Fields PROVE CellAudited(k, f)'
  <2>1. CellAudited(k, f)
    BY DEF AuditTrail
  <2>2. revisions[k][f] \in Seq(Revision)
    BY DEF TypeOK
  <2>3. CASE k \in Updated(c) /\ Differs(c, k, f)
    <3>1. rows'[k] = NewRow(c, k, id) /\ rows'[k].val[f] = c.cell[k][f]
      BY <2>3 DEF StoreIntervals, NewRow
    <3>2. revisions'[k][f] = Append(revisions[k][f], NewRevision(c, k, f, id, at))
      BY <2>3 DEF StoreIntervals
    <3>3. rows'[k].fetch # 0
      BY <3>1, <1>1 DEF NewRow
    <3> DEFINE trail == revisions[k][f]
               new   == NewRevision(c, k, f, id, at)
    <3>4. new.old = rows[k].val[f] /\ new.new = c.cell[k][f]
      BY DEF NewRevision
    <3>5. /\ Len(trail) \in Nat
          /\ Len(revisions'[k][f]) = Len(trail) + 1
          /\ revisions'[k][f][Len(trail) + 1] = new
          /\ \A i \in 1 .. Len(trail) : revisions'[k][f][i] = trail[i]
      BY <2>2, <3>2
    <3> HIDE DEF new
    <3>6. ASSUME NEW i \in 1 .. Len(trail)
          PROVE  revisions'[k][f][i + 1].old = revisions'[k][f][i].new
      <4>1. CASE i = Len(trail)
        <5>1. rows[k].val[f] = trail[i].new
          BY <2>1, <3>5, <4>1 DEF CellAudited
        <5>2. revisions'[k][f][i + 1] = new /\ revisions'[k][f][i] = trail[i]
          BY <3>5, <4>1
        <5> QED BY <3>4, <5>1, <5>2
      <4>2. CASE i \in 1 .. Len(trail) - 1
        <5>1. trail[i + 1].old = trail[i].new
          BY <2>1, <4>2 DEF CellAudited
        <5>2. i + 1 \in 1 .. Len(trail)
          BY <3>5, <4>2
        <5> QED BY <3>5, <4>2, <5>1, <5>2
      <4> QED BY <3>5, <4>1, <4>2
    <3> QED BY <3>1, <3>3, <3>4, <3>5, <3>6 DEF CellAudited, Stored
  <2>4. CASE ~(k \in Updated(c) /\ Differs(c, k, f))
    <3>1. revisions'[k][f] = revisions[k][f]
      BY <2>4 DEF StoreIntervals
    <3>2. CASE revisions[k][f] = <<>>
      BY <3>1, <3>2 DEF CellAudited
    <3>3. CASE Stored(k)
      <4>1. rows'[k].val[f] = rows[k].val[f] /\ rows'[k].fetch # 0
        BY <1>1, <2>4, <3>3 DEF StoreIntervals, NewRow, Stored, Inserted, Updated
      <4> QED BY <2>1, <3>1, <3>3, <4>1 DEF CellAudited, Stored
    <3> QED BY <2>1, <2>2, <3>2, <3>3 DEF CellAudited
  <2> QED BY <2>3, <2>4
<1>3. AuditTrail'
  BY <1>2 DEF AuditTrail
<1>4. ReceivedKnown'
  <2> SUFFICES ASSUME NEW k \in Keys, rows'[k].val[Received] # NULL
               PROVE  hasReceived'
    BY DEF ReceivedKnown
  <2>1. CASE rows[k].val[Received] # NULL
    BY <2>1 DEF ReceivedKnown, StoreIntervals, MeterReceived
  <2>2. CASE rows[k].val[Received] = NULL
    <3>1. Differs(c, k, Received)
      BY <2>2, FieldsAssumption DEF StoreIntervals, NewRow, Inserted, Updated
    <3> QED BY <3>1, CapturesAssumption DEF Differs, StoreIntervals, MeterReceived
  <2> QED BY <2>1, <2>2
<1>5. \A k \in Keys : rows'[k].fetch \in {id, rows[k].fetch}
  BY DEF StoreIntervals, NewRow
<1> QED BY <1>3, <1>4, <1>5

\* A transaction's stamp is a time that has come.
LEMMA StampType ==
  ASSUME TypeOK, NEW t, NEW at \in Stamps(t), t \in Nat
  PROVE  at \in Nat
BY DEF Stamps, TypeOK

\* A step that leaves the tables alone disturbs neither trails nor registers.
LEMMA SameTables ==
  ASSUME Inv, UNCHANGED <<rows, revisions, hasReceived>>
  PROVE  AuditTrail' /\ ReceivedKnown'
BY DEF Inv, AuditTrail, CellAudited, ReceivedKnown, Stored

\* A transaction that only appends to the log leaves what refers to it valid.
LEMMA AppendRefers ==
  ASSUME TypeOK, References, UNCHANGED <<rows, reparse>>,
         Len(fetches') = Len(fetches) + 1,
         \A id \in 1 .. Len(fetches) : fetches'[id] = fetches[id],
         pages' \in Seq(Page), Len(pages') >= Len(pages),
         \A p \in 1 .. Len(pages') :
           \E id \in 1 .. Len(fetches') : fetches'[id].page = p,
         \A v \in Writers : worker'[v].pc = "fetched" =>
           worker'[v].fetch \in 1 .. Len(fetches') /\ worker'[v].cap \in Captures
  PROVE  References'
<1>1. Len(fetches) \in Nat /\ Len(pages) \in Nat /\ Len(pages') \in Nat
  BY DEF TypeOK
<1>2. \A k \in Keys : rows'[k].fetch \in 0 .. Len(fetches')
  BY <1>1 DEF References
<1>3. /\ reparse'.todo \subseteq 1 .. Len(pages')
      /\ reparse'.pc # "next" => reparse'.page \in 1 .. Len(pages')
  BY <1>1 DEF References
<1>4. reparse'.pc = "found" => /\ reparse'.fetch \in 1 .. Len(fetches')
                              /\ fetches'[reparse'.fetch].page = reparse'.page
  BY <1>1 DEF References
<1> QED BY <1>2, <1>3, <1>4 DEF References

\* Every transaction, and everything between transactions, keeps the invariant.
LEMMA NextInv == Inv /\ [Next]_vars => Inv'
<1> SUFFICES ASSUME Inv, [Next]_vars PROVE Inv'
  OBVIOUS
<1> USE DEF Inv, archiveVars, feedVars, reparseVars
<1>1. ASSUME NEW w \in Writers, StartFetch(w) PROVE Inv'
  <2>1. TypeOK'
    BY <1>1 DEF TypeOK, StartFetch, Work, Steps, Idle
  <2>2. References'
    BY <1>1 DEF TypeOK, References, StartFetch
  <2> QED BY <1>1, <2>1, <2>2, SameTables DEF StartFetch
<1>2. ASSUME NEW w \in Writers, FetchFails(w) PROVE Inv'
  <2>1. worker[w].since \in Nat
    BY DEF TypeOK, Work
  <2>2. PICK at \in Stamps(worker[w].since), c \in Captures \cup {NULL} :
          \/ RecordTransportError(at)
          \/ c \in Captures /\ RecordParseError(c, at)
    BY <1>2 DEF FetchFails
  <2>3. at \in Nat
    BY <2>1, StampType
  <2> HIDE DEF Inv
  <2>4. /\ fetches' \in Seq(Fetch) /\ Len(fetches') = Len(fetches) + 1
        /\ \A id \in 1 .. Len(fetches) : fetches'[id] = fetches[id]
        /\ pages' \in Seq(Page) /\ Len(pages') >= Len(pages)
        /\ \A p \in 1 .. Len(pages') :
             \E id \in 1 .. Len(fetches') : fetches'[id].page = p
    BY <2>2, <2>3, RecordType DEF Inv
  <2>5. TypeOK'
    BY <1>2, <2>4 DEF Inv, TypeOK, FetchFails, Work, Steps, Idle
  <2>6. References'
    <3>1. Len(fetches) \in Nat /\ Len(pages) \in Nat /\ Len(pages') \in Nat
      BY <2>4 DEF Inv, TypeOK
    <3>2. /\ \A v \in Writers : worker'[v].pc = "fetched" => worker'[v] = worker[v]
          /\ UNCHANGED <<rows, reparse>>
      BY <1>2 DEF Inv, TypeOK, FetchFails, Idle
    <3>3. \A v \in Writers : worker'[v].pc = "fetched" =>
            worker'[v].fetch \in 1 .. Len(fetches') /\ worker'[v].cap \in Captures
      BY <2>4, <3>1, <3>2 DEF Inv, References
    <3> QED BY <2>4, <3>2, <3>3, AppendRefers DEF Inv
  <2> QED BY <1>2, <2>5, <2>6, SameTables DEF Inv, FetchFails
<1>3. ASSUME NEW w \in Writers, RecordFetch(w) PROVE Inv'
  <2>1. worker[w].since \in Nat
    BY DEF TypeOK, Work
  <2>2. PICK at \in Stamps(worker[w].since), c \in Captures :
          /\ RecordOk(c, at)
          /\ worker' = [worker EXCEPT ![w] =
               [pc |-> "fetched", began |-> worker[w].began, since |-> clock,
                fetch |-> Len(fetches) + 1, cap |-> c]]
    BY <1>3 DEF RecordFetch
  <2>3. at \in Nat
    BY <2>1, StampType
  <2> HIDE DEF Inv
  <2>4. /\ fetches' \in Seq(Fetch) /\ Len(fetches') = Len(fetches) + 1
        /\ \A id \in 1 .. Len(fetches) : fetches'[id] = fetches[id]
        /\ pages' \in Seq(Page) /\ Len(pages') >= Len(pages)
        /\ \A p \in 1 .. Len(pages') :
             \E id \in 1 .. Len(fetches') : fetches'[id].page = p
    BY <2>2, <2>3, RecordType DEF Inv
  <2>5. Len(fetches) \in Nat /\ Len(pages) \in Nat /\ Len(pages') \in Nat
    BY <2>4 DEF Inv, TypeOK
  <2>6. TypeOK'
    <3>1. worker \in [Writers -> Work] /\ worker[w] \in Work /\ clock \in Nat
      BY DEF Inv, TypeOK
    <3>2. worker' \in [Writers -> Work]
      <4>1. worker[w].began \in Nat
        BY <3>1 DEF Work
      <4> QED BY <2>2, <2>5, <3>1, <4>1 DEF Work, Steps
    <3> QED BY <1>3, <2>4, <3>2 DEF Inv, TypeOK, RecordFetch
  <2>7. References'
    <3>1. /\ worker'[w].fetch = Len(fetches) + 1 /\ worker'[w].cap \in Captures
          /\ \A v \in Writers \ {w} : worker'[v] = worker[v]
      <4>1. worker \in [Writers -> Work] /\ worker[w] \in Work
        BY DEF Inv, TypeOK
      <4> QED BY <2>2, <4>1 DEF Work
    <3>2. UNCHANGED <<rows, reparse>> /\ Len(fetches') \in Nat
      BY <1>3, <2>4, <2>5 DEF RecordFetch
    <3>3. ASSUME NEW v \in Writers, worker'[v].pc = "fetched"
          PROVE  worker'[v].fetch \in 1 .. Len(fetches') /\ worker'[v].cap \in Captures
      <4>1. CASE v = w
        BY <2>4, <2>5, <3>1, <4>1
      <4>2. CASE v # w
        <5>1. worker[v].fetch \in 1 .. Len(fetches) /\ worker[v].cap \in Captures
          BY <3>1, <3>3, <4>2 DEF Inv, References
        <5> QED BY <2>4, <2>5, <3>1, <4>2, <5>1
      <4> QED BY <4>1, <4>2
    <3> QED BY <2>4, <3>2, <3>3, AppendRefers DEF Inv
  <2> QED BY <1>3, <2>6, <2>7, SameTables DEF Inv, RecordFetch
<1>4. ASSUME NEW w \in Writers, Store(w) PROVE Inv'
  <2>1. worker[w].since \in Nat
    BY DEF TypeOK, Work
  <2>2. PICK at \in Stamps(worker[w].since) :
          StoreIntervals(worker[w].cap, worker[w].fetch, at)
    BY <1>4 DEF Store
  <2>3. /\ at \in Nat
        /\ worker[w].fetch \in 1 .. Len(fetches)
        /\ worker[w].cap \in Captures
    BY <1>4, <2>1, StampType DEF Store, References
  <2>4. worker[w].fetch \in Nat
    BY <2>3 DEF TypeOK
  <2>5. TypeOK'
    <3>1. worker' \in [Writers -> Work]
      BY <1>4 DEF Store, TypeOK, Work, Steps, Idle
    <3>3. owed' \subseteq Keys
      BY <1>4, <2>3, WrittenType, OweType DEF Store
    <3> QED BY <1>4, <2>2, <2>3, <2>4, <3>1, <3>3, StoreType DEF Store, TypeOK
  <2> HIDE DEF Inv
  <2>6. AuditTrail' /\ ReceivedKnown'
        /\ \A k \in Keys : rows'[k].fetch \in {worker[w].fetch, rows[k].fetch}
    BY <2>2, <2>3, StoreAudited
  <2>7. References'
    <3>1. \A k \in Keys : rows'[k].fetch \in 0 .. Len(fetches)
      BY <2>3, <2>6 DEF Inv, References
    <3>2. \A v \in Writers : worker'[v].pc = "fetched" => worker'[v] = worker[v]
      BY <1>4 DEF Inv, TypeOK, Store, Idle
    <3> QED BY <1>4, <3>1, <3>2 DEF Inv, Store, References
  <2> QED BY <2>5, <2>6, <2>7 DEF Inv
<1>5. ASSUME NEW w \in Writers, Crash(w) PROVE Inv'
  <2>1. TypeOK'
    BY <1>5 DEF TypeOK, Crash, Work, Steps, Idle
  <2>2. References'
    BY <1>5 DEF TypeOK, References, Crash, Idle
  <2> QED BY <1>5, <2>1, <2>2, SameTables DEF Crash
<1>6. ASSUME SetExporterState PROVE Inv'
  <2>1. TypeOK' /\ References'
    BY <1>6 DEF TypeOK, References, SetExporterState
  <2> QED BY <1>6, <2>1, SameTables DEF SetExporterState
<1>7. ASSUME StartReparse \/ ReadPage \/ FindFetch \/ StopReparse PROVE Inv'
  <2>1. UNCHANGED <<clock, archiveVars, worker, feedVars>> /\ reparses' \in Nat
    <3>1. UNCHANGED <<clock, archiveVars, worker, feedVars>>
      BY <1>7 DEF StartReparse, ReadPage, FindFetch, StopReparse
    <3>2. reparses' \in {reparses, reparses + 1} /\ reparses \in Nat
      BY <1>7 DEF TypeOK, StartReparse, ReadPage, FindFetch, StopReparse
    <3> QED BY <3>1, <3>2
  <2>2. /\ reparse' \in Reparse
        /\ reparse'.todo \subseteq 1 .. Len(pages)
        /\ reparse'.pc # "next" => reparse'.page \in 1 .. Len(pages)
        /\ reparse'.pc = "found" => /\ reparse'.fetch \in 1 .. Len(fetches)
                                   /\ fetches[reparse'.fetch].page = reparse'.page
    <3>1. reparse \in Reparse /\ 1 .. Len(pages) \subseteq Nat /\ clock \in Nat
      BY DEF TypeOK
    <3>2. CASE StartReparse
      <4>1. PICK todo : todo \subseteq 1 .. Len(pages) /\ reparse' = [Done EXCEPT !.todo = todo]
        BY <3>2 DEF StartReparse, WithContent
      <4> QED BY <3>1, <4>1 DEF Reparse, Done
    <3>3. CASE ReadPage
      <4>1. PICK p \in reparse.todo :
              reparse' \in {[reparse EXCEPT !.pc = "read", !.page = p, !.todo = @ \ {p}],
                           [reparse EXCEPT !.todo = @ \ {p}]}
        BY <3>3 DEF ReadPage
      <4>2. p \in 1 .. Len(pages) /\ reparse.pc = "next"
        BY <3>3 DEF References, ReadPage
      <4> QED BY <3>1, <4>1, <4>2 DEF Reparse, References
    <3>4. CASE FindFetch
      <4>1. /\ reparse' = [reparse EXCEPT !.pc = "found", !.since = clock,
                                          !.fetch = FetchForRawPage(reparse.page)]
            /\ reparse.page \in 1 .. Len(pages)
        BY <3>4 DEF FindFetch, References
      <4>2. PICK id \in 1 .. Len(fetches) : id = FetchForRawPage(reparse.page)
                                           /\ fetches[id].page = reparse.page
        BY <4>1 DEF References, FetchForRawPage
      <4>3. id \in Nat
        BY DEF TypeOK
      <4> QED BY <3>1, <4>1, <4>2, <4>3 DEF Reparse, References
    <3>5. CASE StopReparse
      BY <3>5 DEF StopReparse, Reparse, Done
    <3> QED BY <1>7, <3>2, <3>3, <3>4, <3>5
  <2>3. TypeOK' /\ References'
    BY <2>1, <2>2 DEF TypeOK, References
  <2> QED BY <2>1, <2>3, SameTables
<1>8. ASSUME StorePage PROVE Inv'
  <2> DEFINE p  == reparse.page
             id == reparse.fetch
             c  == pages[p].cap
  <2>1. /\ reparse' = [Done EXCEPT !.todo = reparse.todo]
        /\ UNCHANGED <<clock, fetches, pages, worker, reparses, mark>>
        /\ p \in 1 .. Len(pages) /\ id \in 1 .. Len(fetches) /\ id \in Nat
        /\ reparse.since \in Nat /\ reparse.todo \subseteq Nat
    BY <1>8 DEF StorePage, References, TypeOK, Reparse
  <2>2. reparse' \in Reparse /\ reparse'.pc = "next" /\ reparse'.todo = reparse.todo
    BY <2>1 DEF Reparse, Done
  <2>3. CASE UNCHANGED <<rows, revisions, hasReceived, owed>>
    <3>1. TypeOK' /\ References'
      BY <2>1, <2>2, <2>3 DEF TypeOK, References
    <3> QED BY <2>3, <3>1, SameTables
  <2>4. ASSUME NEW at \in Stamps(reparse.since), StoreIntervals(c, id, at),
               Owe(Updated(c), reparse.since)
        PROVE  Inv'
    <3>1. at \in Nat
      BY <2>1, StampType
    <3>2. c \in Captures
      <4>1. pages[p] \in Page
        BY <2>1 DEF TypeOK
      <4> QED BY <4>1 DEF Page
    <3>3. TypeOK'
      <4>1. owed' \subseteq Keys
        BY <2>4, <3>2, WrittenType, OweType
      <4> HIDE DEF c, id
      <4>2. /\ rows' \in [Keys -> Row]
            /\ revisions' \in [Keys -> [Fields -> Seq(Revision)]]
            /\ hasReceived' \in BOOLEAN
        BY <2>1, <2>4, <3>1, <3>2, StoreType
      <4> QED BY <2>1, <2>2, <4>1, <4>2 DEF TypeOK
    <3> HIDE DEF Inv, c, id
    <3>4. AuditTrail' /\ ReceivedKnown'
          /\ \A k \in Keys : rows'[k].fetch \in {id, rows[k].fetch}
      BY <2>1, <2>4, <3>1, <3>2, StoreAudited
    <3>5. References'
      BY <2>1, <2>2, <3>4 DEF Inv, References
    <3> QED BY <3>3, <3>4, <3>5 DEF Inv
  <2> QED BY <1>8, <2>3, <2>4 DEF StorePage
<1>9. ASSUME Tick \/ UNCHANGED vars PROVE Inv'
  <2>1. TypeOK'
    <3>1. CASE Tick
      BY <3>1 DEF TypeOK, Tick
    <3>2. CASE UNCHANGED vars
      BY <3>2 DEF TypeOK, vars
    <3> QED BY <1>9, <3>1, <3>2
  <2>2. References'
    BY <1>9 DEF References, Tick, vars
  <2> QED BY <1>9, <2>1, <2>2, SameTables DEF Tick, vars
<1> QED BY <1>1, <1>2, <1>3, <1>4, <1>5, <1>6, <1>7, <1>8, <1>9 DEF Next

\* The audit trail, the references and the known register hold in every
\* reachable state, whoever writes and whatever the pages say.
THEOREM InvHolds == Spec => []Inv
<1>1. Inv /\ UNCHANGED vars => Inv'
  BY NextInv
<1> QED BY InitInv, NextInv, <1>1, PTL DEF Spec

-----------------------------------------------------------------------------
(* The properties *)

\* Every variable keeps its type.
THEOREM TypeCorrect == Spec => []TypeOK
<1>1. Inv => TypeOK
  BY DEF Inv
<1> QED BY InvHolds, <1>1, PTL

\* The audit trail of every cell is unbroken and ends at the stored value
\* (store_intervals: "Nothing changes silently").
THEOREM TrailUnbroken == Spec => []AuditTrail
<1>1. Inv => AuditTrail
  BY DEF Inv
<1> QED BY InvHolds, <1>1, PTL

\* Whatever is archived names a fetch of the log (record_fetch, reparse).
THEOREM ReferencesHold == Spec => []References
<1>1. Inv => References
  BY DEF Inv
<1> QED BY InvHolds, <1>1, PTL

\* The export register is only filled once the meter is known to have one
\* (store_intervals, _meter_id).
THEOREM RegisterKnown == Spec => []ReceivedKnown
<1>1. Inv => ReceivedKnown
  BY DEF Inv
<1> QED BY InvHolds, <1>1, PTL

\* Only the two upserts touch the rows: every step leaves rows and revisions
\* alone or stores one page under a logged fetch.
LEMMA OnlyUpserts ==
  ASSUME Inv, [Next]_vars
  PROVE  \/ UNCHANGED <<rows, revisions>>
         \/ \E c \in Captures, id \in 1 .. Len(fetches), at \in Nat :
              StoreIntervals(c, id, at)
<1> USE DEF archiveVars
<1>1. CASE \E w \in Writers : Store(w)
  <2>1. PICK w \in Writers : Store(w)
    BY <1>1
  <2>2. PICK at \in Stamps(worker[w].since) :
          StoreIntervals(worker[w].cap, worker[w].fetch, at)
    BY <2>1 DEF Store
  <2>3. worker[w].since \in Nat
    BY DEF Inv, TypeOK, Work
  <2>4. at \in Nat
    BY <2>3, StampType DEF Inv
  <2>5. worker[w].cap \in Captures /\ worker[w].fetch \in 1 .. Len(fetches)
    BY <2>1 DEF Inv, References, Store
  <2> QED BY <2>2, <2>4, <2>5
<1>2. CASE StorePage
  <2>1. /\ reparse.page \in 1 .. Len(pages)
        /\ reparse.fetch \in 1 .. Len(fetches)
        /\ reparse.since \in Nat
    BY <1>2 DEF Inv, References, TypeOK, Reparse, StorePage
  <2>2. \/ UNCHANGED <<rows, revisions>>
        \/ \E at \in Stamps(reparse.since) :
             StoreIntervals(pages[reparse.page].cap, reparse.fetch, at)
    BY <1>2 DEF StorePage
  <2>3. pages[reparse.page].cap \in Captures
    <3>1. pages[reparse.page] \in Page
      BY <2>1 DEF Inv, TypeOK
    <3> QED BY <3>1 DEF Page
  <2>4. \A at \in Stamps(reparse.since) : at \in Nat
    BY <2>1, StampType DEF Inv
  <2> QED BY <2>1, <2>2, <2>3, <2>4
<1>3. CASE \E w \in Writers : StartFetch(w) \/ FetchFails(w) \/ RecordFetch(w) \/ Crash(w)
  BY <1>3 DEF StartFetch, FetchFails, RecordFetch, Crash
<1>4. CASE SetExporterState \/ Tick \/ UNCHANGED vars
  BY <1>4 DEF SetExporterState, Tick, vars
<1>5. CASE StartReparse \/ ReadPage \/ FindFetch \/ StopReparse
  BY <1>5 DEF StartReparse, ReadPage, FindFetch, StopReparse
<1> QED BY <1>1, <1>2, <1>3, <1>4, <1>5 DEF Next

\* A non-empty cell is never emptied, a stored row never dropped
\* (store_intervals: "never let an empty cell erase data").
THEOREM NullErasesNothing == Spec => NullNeverErases
<1>1. ASSUME Inv, [Next]_vars
      PROVE  \A k \in Keys :
               /\ Stored(k) => rows'[k].fetch # 0
               /\ \A f \in Fields : rows[k].val[f] # NULL => rows'[k].val[f] # NULL
  <2>1. CASE UNCHANGED <<rows, revisions>>
    BY <2>1 DEF Stored
  <2>2. ASSUME NEW c \in Captures, NEW id \in 1 .. Len(fetches), NEW at \in Nat,
               StoreIntervals(c, id, at), NEW k \in Keys
        PROVE  /\ Stored(k) => rows'[k].fetch # 0
               /\ \A f \in Fields : rows[k].val[f] # NULL => rows'[k].val[f] # NULL
    <3>1. id # 0
      BY <1>1 DEF Inv, TypeOK
    <3> QED BY <2>2, <3>1 DEF StoreIntervals, NewRow, Differs, Stored
  <2> QED BY <1>1, <2>1, <2>2, OnlyUpserts
<1> QED BY <1>1, InvHolds, PTL DEF Spec, NullNeverErases

\* A stored value is only replaced together with the revision that says so
\* (store_intervals).
THEOREM ChangesAudited == Spec => NothingChangesSilently
<1> DEFINE Audit(k, f) ==
      Stored(k) /\ rows'[k].val[f] # rows[k].val[f] =>
        /\ Len(revisions'[k][f]) = Len(revisions[k][f]) + 1
        /\ revisions'[k][f][Len(revisions'[k][f])].old = rows[k].val[f]
        /\ revisions'[k][f][Len(revisions'[k][f])].new = rows'[k].val[f]
<1>1. ASSUME Inv, [Next]_vars PROVE \A k \in Keys, f \in Fields : Audit(k, f)
  <2>1. CASE UNCHANGED <<rows, revisions>>
    BY <2>1
  <2>2. ASSUME NEW c \in Captures, NEW id \in 1 .. Len(fetches), NEW at \in Nat,
               StoreIntervals(c, id, at), NEW k \in Keys, NEW f \in Fields,
               Stored(k), rows'[k].val[f] # rows[k].val[f]
        PROVE  /\ Len(revisions'[k][f]) = Len(revisions[k][f]) + 1
               /\ revisions'[k][f][Len(revisions'[k][f])].old = rows[k].val[f]
               /\ revisions'[k][f][Len(revisions'[k][f])].new = rows'[k].val[f]
    <3> DEFINE new == NewRevision(c, k, f, id, at)
    <3>1. k \in Updated(c) /\ Differs(c, k, f)
      BY <2>2 DEF StoreIntervals, NewRow, Inserted, Updated
    <3>2. rows'[k].val[f] = c.cell[k][f]
      BY <2>2, <3>1 DEF StoreIntervals, NewRow
    <3>3. new.old = rows[k].val[f] /\ new.new = c.cell[k][f]
      BY DEF NewRevision
    <3>4. revisions'[k][f] = Append(revisions[k][f], new)
      BY <2>2, <3>1 DEF StoreIntervals
    <3>5. revisions[k][f] \in Seq(Revision)
      BY <1>1 DEF Inv, TypeOK
    <3> HIDE DEF new
    <3>6. /\ Len(revisions'[k][f]) = Len(revisions[k][f]) + 1
          /\ revisions'[k][f][Len(revisions'[k][f])] = new
      BY <3>4, <3>5
    <3> QED BY <3>2, <3>3, <3>6
  <2> QED BY <1>1, <2>1, <2>2, OnlyUpserts
<1> QED BY <1>1, InvHolds, PTL DEF Spec, NothingChangesSilently

-----------------------------------------------------------------------------
(* The raw pages *)

\* RawPagesKept by itself does not say why a page that comes late, with an old
\* stamp, cannot outlive a newer one that is gone: content is only cleared while
\* KeepOk other pages keep theirs.
Full == (\E q \in 1 .. Len(pages) : pages[q].ok /\ ~pages[q].kept) =>
          Cardinality(WithContent(pages, TRUE)) = KeepOk

LEMMA SurvivorsAre ==
  ASSUME NEW ps, NEW s \in Survivors(ps)
  PROVE  LET live == WithContent(ps, TRUE) IN
         /\ s \subseteq live
         /\ Cardinality(s) = KeepOk \/ (s = live /\ Cardinality(live) < KeepOk)
         /\ \A p \in s, q \in live \ s : ps[p].at >= ps[q].at
BY DEF Survivors

\* A page that parsed is added, and all but the survivors are cleared.
LEMMA OkPagePruned ==
  ASSUME TypeOK, RawPagesKept, Full, KeepOk # 0, NEW c \in Captures, NEW at \in Nat,
         NEW s \in Survivors(Append(pages, [ok |-> TRUE, at |-> at, kept |-> TRUE, cap |-> c])),
         pages' = Pruned(Append(pages, [ok |-> TRUE, at |-> at, kept |-> TRUE, cap |-> c]), s)
  PROVE  RawPagesKept' /\ Full'
<1> DEFINE new  == [ok |-> TRUE, at |-> at, kept |-> TRUE, cap |-> c]
           ps   == Append(pages, new)
           n    == Len(pages) + 1
           old  == WithContent(pages, TRUE)
           live == WithContent(ps, TRUE)
<1>1. /\ Len(pages) \in Nat /\ n \in Nat /\ Len(ps) = n /\ ps[n] = new
      /\ \A p \in 1 .. Len(pages) : ps[p] = pages[p] /\ ps[p] \in Page
  BY DEF TypeOK
<1>2. new \in Page /\ new.ok /\ new.kept
  BY DEF Page
<1>3. /\ \A p \in 1 .. n : ps[p] \in Page
      /\ \A p \in 1 .. n : p = n \/ p \in 1 .. Len(pages)
  BY <1>1, <1>2
<1>4. /\ Len(pages') = n
      /\ \A p \in 1 .. n : /\ pages'[p].ok = ps[p].ok /\ pages'[p].at = ps[p].at
                           /\ pages'[p].kept = (ps[p].kept /\ (ps[p].ok => p \in s))
  <2>1. pages' = [p \in 1 .. n |-> [ps[p] EXCEPT !.kept = @ /\ (ps[p].ok => p \in s)]]
    BY <1>1 DEF Pruned
  <2> HIDE DEF ps
  <2>2. Len(pages') = n
    BY <1>1, <2>1
  <2>3. ASSUME NEW p \in 1 .. n
        PROVE  /\ pages'[p].ok = ps[p].ok /\ pages'[p].at = ps[p].at
               /\ pages'[p].kept = (ps[p].kept /\ (ps[p].ok => p \in s))
    <3>1. pages'[p] = [ps[p] EXCEPT !.kept = @ /\ (ps[p].ok => p \in s)]
      BY <2>1
    <3>2. ps[p] \in Page
      BY <1>3
    <3> QED BY <3>1, <3>2 DEF Page
  <2> QED BY <2>2, <2>3
<1>6. /\ s \subseteq live
      /\ Cardinality(s) = KeepOk \/ (s = live /\ Cardinality(live) < KeepOk)
      /\ \A p \in s, q \in live \ s : ps[p].at >= ps[q].at
  BY SurvivorsAre
<1> HIDE DEF ps, new
<1>5. live = old \cup {n} /\ n \notin old /\ old \subseteq 1 .. Len(pages)
  <2>1. \A p \in 1 .. n : ps[p].ok = TRUE /\ ps[p].kept <=> p \in old \/ p = n
    BY <1>1, <1>2, <1>3 DEF WithContent, Page
  <2> QED BY <1>1, <1>3, <2>1 DEF WithContent
<1>7. WithContent(pages, TRUE)' = s
  <2>1. ASSUME NEW p \in 1 .. n
        PROVE  (pages'[p].kept /\ pages'[p].ok = TRUE) <=> p \in s
    <3>1. ps[p].ok \in BOOLEAN /\ ps[p].kept \in BOOLEAN
      BY <1>3 DEF Page
    <3>2. p \in live <=> ps[p].kept /\ ps[p].ok
      BY <1>1, <3>1 DEF WithContent
    <3> QED BY <1>4, <1>6, <3>1, <3>2
  <2>2. live \subseteq 1 .. n
    BY <1>1 DEF WithContent
  <2> QED BY <1>4, <1>6, <2>1, <2>2 DEF WithContent
<1>8. ASSUME NEW q \in 1 .. n, pages'[q].ok, ~pages'[q].kept
      PROVE  q \in live \ s \/ (q \in 1 .. Len(pages) /\ pages[q].ok /\ ~pages[q].kept)
  <2>1. ps[q].ok /\ (~ps[q].kept \/ q \notin s)
    BY <1>4, <1>8
  <2>2. CASE ps[q].kept
    <3>1. ps[q].ok = TRUE
      BY <1>3, <2>1 DEF Page
    <3> QED BY <1>1, <2>1, <2>2, <3>1 DEF WithContent
  <2>3. CASE ~ps[q].kept
    BY <1>1, <1>2, <1>3, <2>1, <2>3
  <2> QED BY <2>2, <2>3
<1>9. (\E q \in 1 .. Len(pages) : pages[q].ok /\ ~pages[q].kept) => Cardinality(old) = KeepOk
  BY DEF Full
<1>10. Cardinality(old) <= KeepOk
  BY DEF RawPagesKept
<1>11. \A p, q \in 1 .. Len(pages) :
         p \in old /\ pages[q].ok /\ ~pages[q].kept => ps[p].at >= ps[q].at
  BY <1>1 DEF RawPagesKept, WithContent
<1> HIDE DEF old, live
<1>12. /\ IsFiniteSet(old) /\ Cardinality(old) \in Nat
       /\ IsFiniteSet(live) /\ Cardinality(live) = Cardinality(old) + 1
  <2>1. IsFiniteSet(1 .. Len(pages))
    BY <1>1, FS_Interval
  <2>2. IsFiniteSet(old)
    BY <1>5, <2>1, FS_Subset
  <2> QED BY <1>5, <2>2, FS_AddElement, FS_CardinalityType
<1>13. (\E q \in 1 .. Len(pages) : pages[q].ok /\ ~pages[q].kept) =>
         Cardinality(s) = KeepOk /\ s # live
  BY <1>6, <1>9, <1>12, BoundsAssumption
<1>14. Full'
  <2>1. ASSUME NEW q \in 1 .. n, pages'[q].ok, ~pages'[q].kept PROVE Cardinality(s) = KeepOk
    BY <1>6, <1>8, <1>13, <2>1
  <2> QED BY <1>4, <1>7, <2>1 DEF Full
<1>15. \A p \in 1 .. n : ~pages'[p].ok => pages'[p].kept
  <2> SUFFICES ASSUME NEW p \in 1 .. n, ~ps[p].ok PROVE ps[p].kept
    BY <1>4
  <2>1. p \in 1 .. Len(pages)
    BY <1>1, <1>2, <1>3
  <2> QED BY <1>1, <2>1 DEF RawPagesKept
<1>16. Cardinality(s) <= KeepOk
  BY <1>6, <1>12, BoundsAssumption
<1>17. ASSUME NEW p \in 1 .. n, NEW q \in 1 .. n,
              pages'[p].ok, pages'[p].kept, pages'[q].ok, ~pages'[q].kept
       PROVE  ps[p].at >= ps[q].at
  <2>1. p \in s
    BY <1>4, <1>17
  <2>2. CASE q \in live \ s
    BY <1>6, <2>1, <2>2
  <2>3. CASE q \in 1 .. Len(pages) /\ pages[q].ok /\ ~pages[q].kept
    <3>1. CASE p \in old
      BY <1>5, <1>11, <2>3, <3>1
    <3>2. CASE p = n
      <4>1. PICK d \in live \ s : TRUE
        BY <1>6, <1>13, <2>3
      <4>2. d \in old /\ ps[p].at >= ps[d].at /\ ps[d].at >= ps[q].at
        BY <1>5, <1>6, <1>11, <2>1, <2>3, <3>2, <4>1
      <4>3. ps[p].at \in Nat /\ ps[d].at \in Nat /\ ps[q].at \in Nat
        BY <1>1, <1>3, <1>5, <4>2 DEF Page
      <4> QED BY <4>2, <4>3
    <3> QED BY <1>5, <1>6, <2>1, <3>1, <3>2
  <2> QED BY <1>8, <1>17, <2>2, <2>3
<1>18. Cardinality(WithContent(pages, TRUE)') <= KeepOk
  BY <1>7, <1>16
<1>19. \A p, q \in 1 .. n :
         pages'[p].ok /\ pages'[p].kept /\ pages'[q].ok /\ ~pages'[q].kept
           => pages'[p].at >= pages'[q].at
  BY <1>4, <1>17
<1>20. RawPagesKept'
  <2> HIDE DEF n
  <2>1. Len(pages') = n
    BY <1>4
  <2>2. Cardinality(WithContent(pages', TRUE)) <= KeepOk
    BY <1>18
  <2> QED BY <1>15, <1>19, <2>1, <2>2 DEF RawPagesKept
<1> QED BY <1>14, <1>20

\* A page that did not parse is added with its content.
LEMMA FailurePageKept ==
  ASSUME TypeOK, RawPagesKept, Full, NEW c \in Captures, NEW at \in Nat,
         pages' = Append(pages, [ok |-> FALSE, at |-> at, kept |-> TRUE, cap |-> c])
  PROVE  RawPagesKept' /\ Full'
<1>1. /\ Len(pages) \in Nat /\ Len(pages') = Len(pages) + 1
      /\ \A p \in 1 .. Len(pages) : pages'[p] = pages[p]
      /\ pages'[Len(pages) + 1].kept /\ pages'[Len(pages) + 1].ok = FALSE
  BY DEF TypeOK
<1>2. WithContent(pages, TRUE)' = WithContent(pages, TRUE)
  BY <1>1 DEF WithContent
<1>3. \A p \in 1 .. Len(pages') :
        \/ p \in 1 .. Len(pages) /\ pages'[p] = pages[p]
        \/ pages'[p].kept /\ pages'[p].ok = FALSE
  BY <1>1
<1>4. RawPagesKept'
  BY <1>2, <1>3 DEF RawPagesKept
<1>5. Full'
  BY <1>2, <1>3 DEF Full
<1> QED BY <1>4, <1>5

\* Nothing but the end of a fetch touches the raw pages.
LEMMA PagesNext ==
  ASSUME Inv, RawPagesKept, Full, [Next]_vars
  PROVE  RawPagesKept' /\ Full'
<1>1. CASE UNCHANGED pages
  BY <1>1 DEF RawPagesKept, Full, WithContent
<1>2. ASSUME NEW w \in Writers, RecordFetch(w) PROVE RawPagesKept' /\ Full'
  <2>1. PICK at \in Stamps(worker[w].since), c \in Captures : RecordOk(c, at)
    BY <1>2 DEF RecordFetch
  <2>2. at \in Nat
    <3>1. worker[w].since \in Nat
      BY DEF Inv, TypeOK, Work
    <3> QED BY <2>1, <3>1, StampType DEF Inv
  <2> QED BY <1>1, <2>1, <2>2, OkPagePruned DEF RecordOk, Inv
<1>3. ASSUME NEW w \in Writers, FetchFails(w) PROVE RawPagesKept' /\ Full'
  <2>1. PICK at \in Stamps(worker[w].since) :
          RecordTransportError(at) \/ \E c \in Captures : RecordParseError(c, at)
    BY <1>3 DEF FetchFails
  <2>2. at \in Nat
    <3>1. worker[w].since \in Nat
      BY DEF Inv, TypeOK, Work
    <3> QED BY <2>1, <3>1, StampType DEF Inv
  <2> QED BY <1>1, <2>1, <2>2, FailurePageKept DEF RecordTransportError, RecordParseError, Inv
<1>4. CASE \E w \in Writers : StartFetch(w) \/ Store(w) \/ Crash(w)
  BY <1>1, <1>4 DEF StartFetch, Store, Crash, archiveVars
<1>5. CASE SetExporterState \/ StartReparse \/ ReadPage \/ FindFetch \/ StorePage \/ StopReparse
  BY <1>1, <1>5 DEF SetExporterState, StartReparse, ReadPage, FindFetch, StorePage,
     StopReparse, archiveVars
<1>6. CASE Tick \/ UNCHANGED vars
  BY <1>1, <1>6 DEF Tick, vars, archiveVars
<1> QED BY <1>2, <1>3, <1>4, <1>5, <1>6 DEF Next

\* Failure pages keep their content, and the newest KeepOk of the others, in
\* whatever order their stamps arrive (record_fetch, _prune_ok_pages).
THEOREM PagesKept == Spec => []RawPagesKept
<1>1. Init => RawPagesKept /\ Full
  <2> SUFFICES ASSUME Init PROVE RawPagesKept /\ Full
    OBVIOUS
  <2>1. 1 .. Len(pages) = {}
    BY DEF Init
  <2>2. Cardinality(WithContent(pages, TRUE)) = 0
    BY <2>1, FS_EmptySet DEF WithContent
  <2>3. RawPagesKept
    <3>1. Cardinality(WithContent(pages, TRUE)) <= KeepOk
      <4>1. 0 <= KeepOk
        BY BoundsAssumption
      <4> QED BY <2>2, <4>1, Zenon
    <3> QED BY <2>1, <3>1 DEF RawPagesKept
  <2>4. Full
    BY <2>1 DEF Full
  <2> QED BY <2>3, <2>4
<1>2. Inv /\ RawPagesKept /\ Full /\ [Next]_vars => (RawPagesKept /\ Full)'
  BY PagesNext
<1> QED BY <1>1, <1>2, InvHolds, PTL DEF Spec

-----------------------------------------------------------------------------
(* The change feed *)

\* Every stamp of work begun after the watermark is newer than it, and what is
\* owed is among the starts the feed reads: a later write leaves it there, or
\* stamps a revision of its own, or takes it off what is owed.
Ahead ==
  /\ \A w \in Writers :
       /\ worker[w].began <= clock
       /\ worker[w].pc = "net" => worker[w].began <= worker[w].since
  /\ mark = NULL => owed = {}
  /\ mark # NULL =>
       /\ \A w \in Writers : worker[w].pc = "fetched" /\ worker[w].began > mark =>
            fetches[worker[w].fetch].at > mark /\ worker[w].since > mark
       /\ \A k \in owed : k \in ChangedSince(mark)

\* The fetch log only grows.
LEMMA LogGrows ==
  ASSUME TypeOK, NEW c, NEW at,
         \/ RecordTransportError(at)
         \/ c \in Captures /\ (RecordOk(c, at) \/ RecordParseError(c, at))
  PROVE  /\ \A id \in 1 .. Len(fetches) : fetches'[id] = fetches[id]
         /\ fetches'[Len(fetches) + 1].at = at
<1>1. fetches \in Seq(Fetch)
  BY DEF TypeOK
<1>2. PICK p, ok : fetches' = Append(fetches, [ok |-> ok, at |-> at, page |-> p])
  BY DEF RecordTransportError, RecordOk, RecordParseError
<1> QED BY <1>1, <1>2

\* A longer log names what it named.
LEMMA NamedStill ==
  ASSUME Inv, UNCHANGED <<rows, revisions, mark, owed>>,
         \A id \in 1 .. Len(fetches) : fetches'[id] = fetches[id],
         \A k \in owed : k \in ChangedSince(mark)
  PROVE  \A k \in owed' : k \in ChangedSince(mark)'
<1> SUFFICES ASSUME NEW k \in owed PROVE k \in ChangedSince(mark)'
  OBVIOUS
<1>1. k \in Keys /\ k \in ChangedSince(mark)
  BY DEF Inv, TypeOK
<1>2. Stored(k) => rows[k].fetch \in 1 .. Len(fetches)
  <2>1. rows[k].fetch \in 0 .. Len(fetches) /\ Len(fetches) \in Nat
    BY <1>1 DEF Inv, References, TypeOK
  <2> QED BY <2>1 DEF Stored
<1> QED BY <1>1, <1>2 DEF ChangedSince, Stored

\* An upsert that stamps its revisions after the watermark names the revised.
LEMMA RevisedNamed ==
  ASSUME Inv, NEW c \in Captures, NEW id, NEW at \in Nat, StoreIntervals(c, id, at),
         mark \in Nat, at > mark, NEW k \in Updated(c), UNCHANGED mark
  PROVE  k \in ChangedSince(mark)'
<1>1. k \in Keys
  BY WrittenType
<1>2. PICK f \in Fields : Differs(c, k, f)
  BY DEF Updated
<1> DEFINE trail == revisions[k][f]
           new   == NewRevision(c, k, f, id, at)
<1>3. revisions'[k][f] = Append(trail, new) /\ new.at = at
  BY <1>1, <1>2 DEF StoreIntervals, NewRevision
<1>4. trail \in Seq(Revision)
  BY <1>1 DEF Inv, TypeOK
<1> HIDE DEF new
<1>5. /\ Len(trail) + 1 \in 1 .. Len(revisions'[k][f])
      /\ revisions'[k][f][Len(trail) + 1].at > mark
  BY <1>3, <1>4
<1> QED BY <1>1, <1>5 DEF ChangedSince

\* An upsert names what it did not touch as before.
LEMMA UntouchedNamed ==
  ASSUME Inv, NEW c \in Captures, NEW id, NEW at, StoreIntervals(c, id, at),
         UNCHANGED <<fetches, mark>>,
         NEW k \in ChangedSince(mark), k \notin Inserted(c) \cup Updated(c)
  PROVE  k \in ChangedSince(mark)'
<1>1. k \in Keys
  BY DEF ChangedSince
<1>2. rows'[k] = rows[k] /\ \A f \in Fields : revisions'[k][f] = revisions[k][f]
  BY <1>1 DEF StoreIntervals
<1> QED BY <1>1, <1>2 DEF ChangedSince, Stored

\* So does a writer's whole transaction, whenever its fetch began.
LEMMA StoreNamed ==
  ASSUME Inv, NEW c \in Captures, NEW id \in 1 .. Len(fetches), NEW at \in Nat,
         StoreIntervals(c, id, at), UNCHANGED <<fetches, mark>>, mark \in Nat,
         NEW t, t > mark => fetches[id].at > mark /\ at > mark,
         \A k \in owed : k \in ChangedSince(mark),
         Owe(Inserted(c) \cup Updated(c), t)
  PROVE  \A k \in owed' : k \in ChangedSince(mark)'
<1> SUFFICES ASSUME NEW k \in owed' PROVE k \in ChangedSince(mark)'
  OBVIOUS
<1>1. CASE k \in Inserted(c) \cup Updated(c)
  <2>1. t > mark /\ k \in Keys
    BY <1>1, WrittenType DEF Owe
  <2>2. rows'[k].fetch = id /\ id # 0
    BY <1>1, <2>1 DEF StoreIntervals, NewRow
  <2> QED BY <2>1, <2>2 DEF ChangedSince, Stored
<1>2. CASE k \notin Inserted(c) \cup Updated(c)
  <2>1. k \in owed
    BY <1>2 DEF Owe
  <2> QED BY <1>2, <2>1, UntouchedNamed
<1> QED BY <1>1, <1>2

LEMMA AheadNext ==
  ASSUME Inv, Ahead, [Next]_vars
  PROVE  Ahead'
<1> USE DEF archiveVars, reparseVars, feedVars
<1>1. clock \in Nat /\ mark \in Nat \cup {NULL} /\ worker \in [Writers -> Work]
  BY DEF Inv, TypeOK
<1>2. \A v \in Writers :
        /\ worker[v].began \in Nat /\ worker[v].since \in Nat
        /\ worker[v].pc = "fetched" => worker[v].fetch \in 1 .. Len(fetches)
  BY <1>1 DEF Work, Inv, References
<1>3. ASSUME NEW w \in Writers, StartFetch(w) PROVE Ahead'
  <2>1. /\ worker'[w].pc = "net" /\ worker'[w].began = clock /\ worker'[w].since = clock
        /\ \A v \in Writers \ {w} : worker'[v] = worker[v]
    BY <1>1, <1>3 DEF StartFetch, Idle
  <2>2. UNCHANGED <<clock, fetches, rows, revisions, mark, owed>>
    BY <1>3 DEF StartFetch
  <2> QED BY <1>1, <2>1, <2>2 DEF Ahead, ChangedSince, Stored
<1>4. ASSUME NEW w \in Writers, FetchFails(w) PROVE Ahead'
  <2>1. PICK at \in Stamps(worker[w].since), c \in Captures \cup {NULL} :
          \/ RecordTransportError(at)
          \/ c \in Captures /\ RecordParseError(c, at)
    BY <1>4 DEF FetchFails
  <2>2. \A id \in 1 .. Len(fetches) : fetches'[id] = fetches[id]
    BY <2>1, LogGrows DEF Inv
  <2>3. /\ worker'[w].pc = "idle" /\ worker'[w].began = 0
        /\ \A v \in Writers \ {w} : worker'[v] = worker[v]
    BY <1>1, <1>4 DEF FetchFails, Idle
  <2>4. UNCHANGED <<clock, rows, revisions, mark, owed>>
    BY <1>4 DEF FetchFails
  <2>5. mark # NULL => \A k \in owed' : k \in ChangedSince(mark)'
    BY <2>2, <2>4, NamedStill DEF Ahead
  <2> QED BY <1>1, <1>2, <2>2, <2>3, <2>4, <2>5 DEF Ahead
<1>5. ASSUME NEW w \in Writers, RecordFetch(w) PROVE Ahead'
  <2>1. PICK at \in Stamps(worker[w].since), c \in Captures :
          /\ RecordOk(c, at)
          /\ worker' = [worker EXCEPT ![w] =
               [pc |-> "fetched", began |-> worker[w].began, since |-> clock,
                fetch |-> Len(fetches) + 1, cap |-> c]]
    BY <1>5 DEF RecordFetch
  <2>2. /\ \A id \in 1 .. Len(fetches) : fetches'[id] = fetches[id]
        /\ fetches'[Len(fetches) + 1].at = at
    BY <2>1, LogGrows DEF Inv
  <2>3. /\ worker'[w].pc = "fetched" /\ worker'[w].fetch = Len(fetches) + 1
        /\ worker'[w].since = clock /\ worker'[w].began = worker[w].began
        /\ \A v \in Writers \ {w} : worker'[v] = worker[v]
    <3>1. worker[w] \in Work
      BY <1>1
    <3> QED BY <1>1, <2>1, <3>1 DEF Work
  <2>4. UNCHANGED <<clock, rows, revisions, mark, owed>> /\ worker[w].pc = "net"
    BY <1>5 DEF RecordFetch
  <2>5. mark # NULL => \A k \in owed' : k \in ChangedSince(mark)'
    BY <2>2, <2>4, NamedStill DEF Ahead
  <2>6. worker[w].began <= at /\ at <= clock /\ at \in Nat
    <3>1. worker[w].since <= at /\ at <= clock /\ at \in Nat
      BY <1>1, <1>2, <2>1 DEF Stamps
    <3> QED BY <1>2, <2>4, <3>1 DEF Ahead
  <2>7. mark # NULL /\ worker[w].began > mark => at > mark /\ clock > mark
    BY <1>1, <1>2, <2>4, <2>6
  <2> QED BY <1>2, <2>2, <2>3, <2>4, <2>5, <2>7 DEF Ahead
<1>6. ASSUME NEW w \in Writers, Store(w) PROVE Ahead'
  <2> DEFINE c  == worker[w].cap
             id == worker[w].fetch
  <2>1. PICK at \in Stamps(worker[w].since) : StoreIntervals(c, id, at)
    BY <1>6 DEF Store
  <2>2. /\ Owe(Inserted(c) \cup Updated(c), worker[w].began)
        /\ UNCHANGED <<clock, fetches, mark>>
        /\ worker' = [worker EXCEPT ![w] = Idle] /\ worker[w].pc = "fetched"
    BY <1>6 DEF Store
  <2>3. c \in Captures /\ id \in 1 .. Len(fetches)
    BY <2>2 DEF Inv, References
  <2>4. at \in Nat /\ worker[w].since <= at
    BY <1>1, <1>2, <2>1 DEF Stamps
  <2>5. mark # NULL /\ worker[w].began > mark => fetches[id].at > mark /\ at > mark
    BY <1>1, <1>2, <2>2, <2>4 DEF Ahead
  <2>6. CASE mark = NULL
    <3>1. owed' = {} /\ mark' = NULL
      BY <2>2, <2>6 DEF Ahead, Owe
    <3> QED BY <1>1, <1>2, <2>2, <3>1 DEF Ahead, Idle
  <2>7. CASE mark # NULL
    <3>1. mark \in Nat /\ mark' # NULL /\ \A k \in owed : k \in ChangedSince(mark)
      BY <1>1, <2>2, <2>7 DEF Ahead
    <3> HIDE DEF c, id
    <3>2. \A k \in owed' : k \in ChangedSince(mark)'
      BY <2>1, <2>2, <2>3, <2>4, <2>5, <2>7, <3>1, StoreNamed
    <3> QED BY <1>1, <1>2, <2>2, <3>1, <3>2 DEF Ahead, Idle
  <2> QED BY <2>6, <2>7
<1>7. ASSUME NEW w \in Writers, Crash(w) PROVE Ahead'
  BY <1>1, <1>7 DEF Crash, Ahead, ChangedSince, Stored, Idle
<1>8. CASE SetExporterState
  <2>1. /\ mark' = clock /\ clock' = clock /\ owed' = {}
        /\ worker' = worker /\ fetches' = fetches
    BY <1>8 DEF SetExporterState
  <2>2. \A w \in Writers : ~(worker[w].began > clock)
    BY <1>1, <1>2 DEF Ahead
  <2>3. mark' = NULL => owed' = {}
    BY <2>1
  <2> QED BY <1>1, <2>1, <2>2, <2>3 DEF Ahead
<1>9. CASE StorePage
  <2> DEFINE c == pages[reparse.page].cap
  <2>1. /\ UNCHANGED <<clock, fetches, worker, mark>>
        /\ reparse.page \in 1 .. Len(pages) /\ reparse.since \in Nat
    BY <1>9 DEF StorePage, Inv, References, TypeOK, Reparse
  <2>2. CASE UNCHANGED <<rows, revisions, owed>>
    BY <2>1, <2>2 DEF Ahead, ChangedSince, Stored
  <2>3. ASSUME NEW at \in Stamps(reparse.since), StoreIntervals(c, reparse.fetch, at),
               Owe(Updated(c), reparse.since), mark # NULL, NEW k \in owed'
        PROVE  k \in ChangedSince(mark)'
    <3>1. c \in Captures
      <4>1. pages[reparse.page] \in Page
        BY <2>1 DEF Inv, TypeOK
      <4> QED BY <4>1 DEF Page
    <3>2. at \in Nat /\ reparse.since <= at /\ mark \in Nat
      BY <1>1, <2>1, <2>3 DEF Stamps
    <3> HIDE DEF c
    <3>3. CASE k \in Updated(c)
      <4>1. at > mark
        BY <2>1, <2>3, <3>2, <3>3 DEF Owe
      <4> QED BY <2>1, <2>3, <3>1, <3>2, <3>3, <4>1, RevisedNamed
    <3>4. CASE k \notin Updated(c)
      <4>1. k \in owed /\ k \in ChangedSince(mark)
        BY <2>1, <2>3, <3>4 DEF Owe, Ahead
      <4>2. CASE k \in Inserted(c)
        <5>1. PICK f \in Fields : revisions[k][f] # <<>>
          <6>1. ~Stored(k) /\ k \in Keys
            BY <3>1, <4>2, WrittenType DEF Inserted
          <6>2. PICK f \in Fields : \E i \in 1 .. Len(revisions[k][f]) : TRUE
            BY <4>1, <6>1 DEF ChangedSince
          <6> QED BY <6>2
        <5>2. k \in Keys /\ ~Stored(k) /\ revisions[k][f] \in Seq(Revision)
          BY <3>1, <4>2, WrittenType DEF Inserted, Inv, TypeOK
        <5>3. Len(revisions[k][f]) > 0
          BY <5>1, <5>2
        <5> QED BY <5>2, <5>3 DEF Inv, AuditTrail, CellAudited
      <4>3. CASE k \notin Inserted(c)
        BY <2>1, <2>3, <3>1, <3>4, <4>1, <4>3, UntouchedNamed
      <4> QED BY <4>2, <4>3
    <3> QED BY <3>3, <3>4
  <2>4. CASE /\ mark = NULL => owed' = {}
             /\ mark # NULL => \A k \in owed' : k \in ChangedSince(mark)'
    BY <2>1, <2>4 DEF Ahead
  <2>5. mark = NULL => owed' = {}
    BY <1>9 DEF StorePage, Ahead, Owe
  <2> QED BY <1>9, <2>2, <2>3, <2>4, <2>5 DEF StorePage
<1>10. CASE StartReparse \/ ReadPage \/ FindFetch \/ StopReparse \/ UNCHANGED vars
  BY <1>10 DEF StartReparse, ReadPage, FindFetch, StopReparse, vars, Ahead, ChangedSince, Stored
<1>11. CASE Tick
  <2>1. UNCHANGED <<fetches, rows, revisions, worker, mark, owed>> /\ clock' = clock + 1
    BY <1>11 DEF Tick
  <2>2. \A w \in Writers : worker[w].began <= clock + 1
    BY <1>1, <1>2 DEF Ahead
  <2> QED BY <2>1, <2>2 DEF Ahead, ChangedSince, Stored
<1> QED BY <1>3, <1>4, <1>5, <1>6, <1>7, <1>8, <1>9, <1>10, <1>11 DEF Next

LEMMA LeastOf ==
  ASSUME NEW S, S \subseteq Nat, S # {}
  PROVE  \E c \in S : \A k \in S : c <= k
<1> DEFINE R == {pair \in Nat \X Nat : pair[1] < pair[2]}
<1>1. IsWellFoundedOn(R, Nat)
  BY NatLessThanWellFounded DEF OpToRel
<1> HIDE DEF R
<1>2. PICK c \in S : \A k \in S : <<k, c>> \notin R
  BY <1>1, WFMin
<1>3. ASSUME NEW k \in S PROVE c <= k
  <2>1. c \in Nat /\ k \in Nat /\ <<k, c>> \notin R
    BY <1>2
  <2>2. ~(k < c)
    BY <2>1 DEF R
  <2> QED BY <2>1, <2>2
<1> QED BY <1>3

\* The change feed reaches back to everything written by work begun after the
\* watermark (earliest_interval_change_since, set_exporter_state), for any
\* stamps and lock waits.
THEOREM FeedReachesBack == Spec => []FeedComplete
<1>1. Init => Ahead
  BY DEF Init, Ahead, Idle
<1>2. Inv /\ Ahead /\ [Next]_vars => Ahead'
  BY AheadNext
<1>3. Inv /\ Ahead => FeedComplete
  <2> SUFFICES ASSUME Inv, Ahead, owed # {}
               PROVE  \E c \in ChangedSince(mark) : \A k \in owed : c <= k
    BY DEF FeedComplete
  <2>1. owed \subseteq Nat
    BY KeysAssumption DEF Inv, TypeOK
  <2>2. PICK c \in owed : \A k \in owed : c <= k
    BY <2>1, LeastOf
  <2>3. c \in ChangedSince(mark)
    BY <2>2 DEF Ahead, Inv
  <2> QED BY <2>2, <2>3
<1> QED BY <1>1, <1>2, <1>3, InvHolds, PTL DEF Spec

-----------------------------------------------------------------------------
(* Archive implements AuditedStore: the rows with their revisions are a    *)
(* store that never forgets a reading, for any keys, columns and writers.  *)

Cell == Values \cup {NULL}

\* The new values of a trail.
News(trail) == [i \in 1 .. Len(trail) |-> trail[i].new]

\* A start without a row shows no readings.
Unseen == \A k \in Keys : ~Stored(k) => \A f \in Fields : rows[k].val[f] = NULL

-----------------------------------------------------------------------------
(* Lemmas about trails *)

\* The new values of a trail are readings.
LEMMA NewsType ==
  ASSUME NEW trail \in Seq(Revision)
  PROVE  News(trail) \in Seq(Values) /\ Len(News(trail)) = Len(trail)
<1>1. \A i \in 1 .. Len(trail) : trail[i].new \in Values
  <2>1. \A i \in 1 .. Len(trail) : trail[i] \in Revision
    OBVIOUS
  <2> QED BY <2>1 DEF Revision
<1>2. Len(trail) \in Nat
  OBVIOUS
<1> QED BY <1>1, <1>2 DEF News

\* A longer trail has one more value.
LEMMA NewsAppend ==
  ASSUME NEW trail \in Seq(Revision), NEW rev \in Revision
  PROVE  News(Append(trail, rev)) = Append(News(trail), rev.new)
<1>1. Append(trail, rev) \in Seq(Revision) /\ rev.new \in Values
  BY DEF Revision
<1>2. /\ News(trail) \in Seq(Values) /\ Len(News(trail)) = Len(trail)
      /\ News(Append(trail, rev)) \in Seq(Values)
      /\ Len(News(Append(trail, rev))) = Len(trail) + 1
  BY <1>1, NewsType, AppendProperties
<1>3. /\ Append(News(trail), rev.new) \in Seq(Values)
      /\ Len(Append(News(trail), rev.new)) = Len(trail) + 1
  BY <1>1, <1>2, AppendProperties
<1>4. ASSUME NEW i \in 1 .. Len(trail) + 1
      PROVE  News(Append(trail, rev))[i] = Append(News(trail), rev.new)[i]
  <2>1. News(Append(trail, rev))[i] = Append(trail, rev)[i].new
    BY <1>1 DEF News
  <2>2. CASE i = Len(trail) + 1
    <3>1. Append(trail, rev)[i] = rev
      BY <2>2
    <3>2. Append(News(trail), rev.new)[Len(News(trail)) + 1] = rev.new
      BY <1>1, <1>2, AppendProperties
    <3>3. Append(News(trail), rev.new)[i] = rev.new
      BY <1>2, <2>2, <3>2
    <3> QED BY <2>1, <3>1, <3>3
  <2>3. CASE i \in 1 .. Len(trail)
    <3>1. Append(trail, rev)[i] = trail[i]
      BY <2>3
    <3>2. Append(News(trail), rev.new)[i] = News(trail)[i]
      BY <1>1, <1>2, <2>3
    <3>3. News(trail)[i] = trail[i].new
      BY <2>3 DEF News
    <3> QED BY <2>1, <3>1, <3>2, <3>3
  <2>4. Len(trail) \in Nat
    OBVIOUS
  <2>5. i \in 1 .. Len(trail) \/ i = Len(trail) + 1
    BY <2>4
  <2> QED BY <2>2, <2>3, <2>5
<1> QED BY <1>2, <1>3, <1>4, SeqEqual

\* What a cell was inserted with, as a history.
First(x) == IF x = NULL THEN <<>> ELSE <<x>>

\* That history holds readings only.
LEMMA FirstType ==
  ASSUME NEW x \in Cell
  PROVE  First(x) \in Seq(Values)
BY DEF First, Cell

\* The history of a cell grows with its trail, and with nothing else.
LEMMA HistoryGrows ==
  ASSUME NEW x \in Cell, NEW trail \in Seq(Revision), NEW rev \in Revision
  PROVE  First(x) \o News(Append(trail, rev)) = Append(First(x) \o News(trail), rev.new)
<1>1. rev.new \in Values
  BY DEF Revision
<1>2. First(x) \in Seq(Values) /\ News(trail) \in Seq(Values) /\ <<rev.new>> \in Seq(Values)
  BY <1>1, FirstType, NewsType
<1>3. News(Append(trail, rev)) = News(trail) \o <<rev.new>>
  BY <1>1, <1>2, NewsAppend, AppendIsConcat
<1>4. First(x) \o News(trail) \in Seq(Values)
  BY <1>2, ConcatProperties
<1>5. First(x) \o (News(trail) \o <<rev.new>>) = (First(x) \o News(trail)) \o <<rev.new>>
  BY <1>2, ConcatAssociative
<1> QED BY <1>1, <1>3, <1>4, <1>5, AppendIsConcat

\* The first reading of a cell, and its history from there.
Origin(k, f) ==
  IF revisions[k][f] = <<>> THEN rows[k].val[f] ELSE revisions[k][f][1].old

\* The history of a cell is its origin followed by what its revisions left.
LEMMA HistoryIs ==
  ASSUME NEW k, NEW f
  PROVE  CellHistory(k, f) = First(Origin(k, f)) \o News(revisions[k][f])
BY DEF CellHistory, First, Origin, News

-----------------------------------------------------------------------------
(* The refinement *)

\* The page an upsert merges: an empty cell wherever it has no reading.
Merged(c) ==
  [k \in Keys |-> [f \in Fields |->
     IF k \in c.keys THEN c.cell[k][f] ELSE NULL]]

\* A page is a partial assignment of readings to cells.
LEMMA MergedType ==
  ASSUME NEW c \in Captures
  PROVE  Merged(c) \in [Keys -> [Fields -> Cell]]
BY CaptureType DEF Merged, Cell

\* One cell under an upsert: what the row holds, and the history it shows.
LEMMA CellStep ==
  ASSUME Inv, Unseen, NEW c \in Captures, NEW id \in 1 .. Len(fetches), NEW at \in Nat,
         StoreIntervals(c, id, at), NEW k \in Keys, NEW f \in Fields
  PROVE  LET new == Merged(c)[k][f] IN
         /\ rows'[k].val[f] = IF new = NULL THEN rows[k].val[f] ELSE new
         /\ CellHistory(k, f)' = IF new \in {NULL, rows[k].val[f]}
                                 THEN CellHistory(k, f)
                                 ELSE Append(CellHistory(k, f), new)
         /\ ~Stored(k)' => rows'[k].val[f] = NULL
<1> DEFINE new   == Merged(c)[k][f]
           trail == revisions[k][f]
           rev   == NewRevision(c, k, f, id, at)
<1>1. id # 0 /\ id \in Nat
  BY DEF Inv, TypeOK
<1>2. rows[k] \in Row /\ trail \in Seq(Revision)
  BY DEF Inv, TypeOK
<1>3. rows[k].val[f] \in Cell
  BY <1>2 DEF Row, Cells, Cell
<1>4. new = IF k \in c.keys THEN c.cell[k][f] ELSE NULL
  BY DEF Merged
<1>5. CASE ~Differs(c, k, f)
  <2>1. new \in {NULL, rows[k].val[f]}
    BY <1>4, <1>5 DEF Differs
  <2>2. rows'[k].val[f] = rows[k].val[f]
    BY <1>5 DEF StoreIntervals, NewRow
  <2>3. revisions'[k][f] = trail
    BY <1>5 DEF StoreIntervals
  <2>4. CellHistory(k, f)' = CellHistory(k, f)
    BY <2>2, <2>3 DEF CellHistory
  <2>5. ~Stored(k)' => ~Stored(k)
    BY <1>1 DEF StoreIntervals, NewRow, Stored
  <2> QED BY <2>1, <2>2, <2>4, <2>5 DEF Unseen
<1>6. CASE Differs(c, k, f)
  <2>1. new = c.cell[k][f] /\ new # NULL /\ new # rows[k].val[f] /\ new \in Values
    BY <1>4, <1>6, CaptureType DEF Differs
  <2>2. k \in Inserted(c) \cup Updated(c)
    BY <1>6 DEF Differs, Inserted, Updated
  <2>3. rows'[k] = NewRow(c, k, id)
    BY <2>2 DEF StoreIntervals
  <2>4. rows'[k].val[f] = new /\ rows'[k].fetch = id
    BY <1>6, <2>1, <2>3 DEF NewRow
  <2>5. CASE ~Stored(k)
    <3>1. revisions'[k][f] = trail
      BY <2>5 DEF StoreIntervals, Updated
    <3>2. trail = <<>>
      BY <1>2, <2>5 DEF Inv, AuditTrail, CellAudited
    <3>3. rows[k].val[f] = NULL
      BY <2>5 DEF Unseen
    <3>4. News(<<>>) = <<>>
      BY DEF News
    <3>5. CellHistory(k, f) = First(NULL) \o <<>>
      BY <3>2, <3>3, <3>4, HistoryIs DEF Origin
    <3>6. CellHistory(k, f)' = First(new) \o <<>>
      BY <2>4, <3>1, <3>2, <3>4 DEF CellHistory, First, News
    <3>7. CellHistory(k, f)' = Append(CellHistory(k, f), new)
      BY <2>1, <3>5, <3>6 DEF First
    <3> QED BY <1>1, <2>1, <2>4, <3>7 DEF Stored
  <2>6. CASE Stored(k)
    <3>1. revisions'[k][f] = Append(trail, rev)
      BY <1>6, <2>2, <2>6 DEF StoreIntervals, Inserted
    <3>2. rev.old = rows[k].val[f] /\ rev.new = new
      BY <2>1 DEF NewRevision
    <3>3. rev \in Revision
      BY <1>1, <1>3, <2>1 DEF NewRevision, Revision, Cell
    <3>4. Origin(k, f) \in Cell
      <4>1. CASE trail = <<>>
        BY <1>3, <4>1 DEF Origin
      <4>2. CASE trail # <<>>
        <5>1. trail[1] \in Revision
          BY <1>2, <4>2
        <5> QED BY <4>2, <5>1 DEF Origin, Revision, Cell
      <4> QED BY <4>1, <4>2
    <3> HIDE DEF rev, new
    <3>5. /\ Append(trail, rev) # <<>>
          /\ Append(trail, rev)[1].old = Origin(k, f)
      <4>1. CASE trail = <<>>
        BY <1>2, <3>2, <3>3, <4>1, AppendProperties DEF Origin
      <4>2. CASE trail # <<>>
        <5>1. Append(trail, rev)[1] = trail[1] /\ Append(trail, rev) # <<>>
          BY <1>2, <3>3, <4>2
        <5> QED BY <4>2, <5>1 DEF Origin
      <4> QED BY <4>1, <4>2
    <3>6. CellHistory(k, f)' = First(Origin(k, f)) \o News(Append(trail, rev))
      BY <3>1, <3>5 DEF CellHistory, First, News
    <3>7. CellHistory(k, f)' = Append(CellHistory(k, f), new)
      BY <1>2, <3>2, <3>3, <3>4, <3>6, HistoryGrows, HistoryIs
    <3> QED BY <1>1, <2>1, <2>4, <3>7 DEF Stored, new
  <2> QED BY <2>5, <2>6
<1> QED BY <1>5, <1>6

\* An empty archive has no row to have been seen.
LEMMA UnseenInit == Init => Unseen
BY DEF Init, Unseen, Stored

\* A row that was never stored holds nothing, after every step.
LEMMA UnseenNext == Inv /\ Unseen /\ [Next]_vars => Unseen'
<1> SUFFICES ASSUME Inv, Unseen, [Next]_vars PROVE Unseen'
  OBVIOUS
<1>1. CASE UNCHANGED <<rows, revisions>>
  BY <1>1 DEF Unseen, Stored
<1>2. ASSUME NEW c \in Captures, NEW id \in 1 .. Len(fetches), NEW at \in Nat,
             StoreIntervals(c, id, at)
      PROVE  Unseen'
  BY <1>2, CellStep DEF Unseen
<1> QED BY <1>1, <1>2, OnlyUpserts

\* The archive starts as an empty store.
LEMMA RefinesInit == Init => Audited!Init
<1> SUFFICES ASSUME Init PROVE Audited!Init
  OBVIOUS
<1>1. \A k \in Keys, f \in Fields : CellHistory(k, f) = <<>>
  BY DEF Init, CellHistory
<1> QED BY <1>1 DEF Init, Audited!Init

\* Every step merges a page into the store, or leaves it alone.
LEMMA RefinesNext ==
  ASSUME Inv, Unseen, [Next]_vars
  PROVE  [Audited!Next]_<<[k \in Keys |-> rows[k].val],
                          [k \in Keys |-> [f \in Fields |-> CellHistory(k, f)]]>>
<1>1. CASE UNCHANGED <<rows, revisions>>
  BY <1>1 DEF CellHistory
<1>2. ASSUME NEW c \in Captures, NEW id \in 1 .. Len(fetches), NEW at \in Nat,
             StoreIntervals(c, id, at)
      PROVE  Audited!Merge(Merged(c))
  <2>1. \A k \in Keys : rows[k].val \in [Fields -> Cell] /\ rows'[k].val \in [Fields -> Cell]
    <3>1. TypeOK /\ id \in Nat
      BY DEF Inv, TypeOK
    <3>2. rows \in [Keys -> Row] /\ rows' \in [Keys -> Row]
      BY <1>2, <3>1, StoreType DEF TypeOK
    <3> QED BY <3>2 DEF Row, Cells, Cell
  <2>2. ASSUME NEW k \in Keys
        PROVE  rows'[k].val = [f \in Fields |->
                 IF Merged(c)[k][f] = NULL THEN rows[k].val[f] ELSE Merged(c)[k][f]]
    BY <1>2, <2>1, CellStep
  <2>3. ASSUME NEW k \in Keys, NEW f \in Fields
        PROVE  CellHistory(k, f)' =
                 IF Merged(c)[k][f] \in {NULL, rows[k].val[f]}
                 THEN CellHistory(k, f)
                 ELSE Append(CellHistory(k, f), Merged(c)[k][f])
    BY <1>2, CellStep
  <2> QED BY <2>2, <2>3 DEF Audited!Merge
<1> QED BY <1>1, <1>2, OnlyUpserts, MergedType DEF Audited!Next, Cell

\* Rows and revisions implement the append-only store: no reading a cell held
\* is ever lost and none is recorded that it did not hold (store_intervals).
THEOREM ArchiveImplementsStore == Spec => ImplementsAuditedStore
<1>1. Inv /\ Unseen /\ [Next]_vars =>
        [Audited!Next]_<<[k \in Keys |-> rows[k].val],
                         [k \in Keys |-> [f \in Fields |-> CellHistory(k, f)]]>>
  BY RefinesNext
<1> QED BY <1>1, UnseenInit, UnseenNext, InvHolds, RefinesInit, PTL
        DEF Spec, ImplementsAuditedStore, Audited!Spec
=============================================================================
