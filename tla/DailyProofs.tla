----------------------------- MODULE DailyProofs ------------------------------
(***************************************************************************)
(* Daily, for any clock, tables, layouts, processes, fetches and exports.  *)
(*                                                                         *)
(* store_daily is a loop over the parsed reads, here a fold.  What it does *)
(* for a table of any length is proved by induction over its prefixes; the *)
(* induction is on sets of naturals, so that the provers can apply it.     *)
(***************************************************************************)
EXTENDS DailyTruth, SequenceTheorems, FiniteSetTheorems, WellFoundedInduction, TLAPS

-----------------------------------------------------------------------------
(* Induction and folds *)

\* A set that holds 0 and, with every number below n, the next one, holds all
\* numbers up to n.
LEMMA Climb ==
  ASSUME NEW n \in Nat, NEW T,
         0 \in T, \A k \in 0 .. n - 1 : k \in T => k + 1 \in T
  PROVE  0 .. n \subseteq T
<1> DEFINE R == OpToRel(<, Nat)
           U == {k \in 0 .. n : k \notin T}
<1>1. SUFFICES ASSUME U # {}  PROVE FALSE
  OBVIOUS
<1>2. U \subseteq Nat
  OBVIOUS
<1>3. IsWellFoundedOn(R, Nat)
  BY NatLessThanWellFounded
<1> HIDE DEF R
<1>4. PICK x \in U : \A y \in U : <<y, x>> \notin R
  <2> HIDE DEF U
  <2> QED BY <1>1, <1>2, <1>3, WFMin, Zenon
<1>5. x \in Nat /\ x # 0 /\ x - 1 \in 0 .. n - 1 /\ (x - 1) + 1 = x
  OBVIOUS
<1>6. x - 1 \in U
  BY <1>5
<1>7. <<x - 1, x>> \in R
  BY <1>5 DEF R, OpToRel
<1> QED BY <1>4, <1>6, <1>7

\* What holds of a set when it holds of the set without any one element holds
\* of every finite set: G collects the sets it holds of.
LEMMA Shrink ==
  ASSUME NEW S, IsFiniteSet(S), NEW G,
         \A B \in SUBSET S : (\A x \in B : B \ {x} \in G) => B \in G
  PROVE  \A B \in SUBSET S : B \in G
<1> DEFINE T(n) == {k \in 0 .. n : \A B \in SUBSET S : Cardinality(B) = k => B \in G}
<1>1. SUFFICES ASSUME NEW n \in Nat
               PROVE  \A B \in SUBSET S : Cardinality(B) = n => B \in G
  <2>1. \A B \in SUBSET S : Cardinality(B) \in Nat
    BY FS_Subset, FS_CardinalityType
  <2> QED BY <2>1
<1>2. 0 \in T(n)
  <2>1. \A B \in SUBSET S : Cardinality(B) = 0 => B = {}
    BY FS_EmptySet, FS_Subset
  <2>2. 0 \in 0 .. n
    OBVIOUS
  <2> QED BY <2>1, <2>2
<1>3. ASSUME NEW k \in 0 .. n - 1, k \in T(n)  PROVE k + 1 \in T(n)
  <2>1. k \in Nat /\ k + 1 \in 0 .. n
    OBVIOUS
  <2>2. ASSUME NEW B \in SUBSET S, Cardinality(B) = k + 1, NEW x \in B
        PROVE  B \ {x} \in G
    <3>1. Cardinality(B \ {x}) = Cardinality(B) - 1
      BY FS_Subset, FS_RemoveElement
    <3>2. (k + 1) - 1 = k
      BY <2>1
    <3>3. Cardinality(B \ {x}) = k
      BY <2>2, <3>1, <3>2, Zenon
    <3> QED BY <1>3, <3>3
  <2>3. ASSUME NEW B \in SUBSET S, Cardinality(B) = k + 1  PROVE B \in G
    BY <2>2, <2>3
  <2> QED BY <2>1, <2>3
<1>4. 0 .. n \subseteq T(n)
  <2> HIDE DEF T
  <2> QED BY <1>2, <1>3, Climb
<1> QED BY <1>4

\* A finite set of numbers that is not empty has a least and a greatest one.
LEMMA Extremes ==
  ASSUME NEW S, S \subseteq Int, IsFiniteSet(S), S # {}
  PROVE  /\ Min(S) \in S /\ \A x \in S : Min(S) <= x
         /\ Max(S) \in S /\ \A x \in S : x <= Max(S)
<1> DEFINE G == {B \in SUBSET S :
                   B # {} => /\ \E m \in B : \A x \in B : m <= x
                             /\ \E m \in B : \A x \in B : m >= x}
<1>1. ASSUME NEW B \in SUBSET S, \A x \in B : B \ {x} \in G  PROVE B \in G
  <2>1. CASE B = {}
    BY <2>1
  <2>2. CASE B # {}
    <3>1. PICK x \in B : TRUE
      BY <2>2
    <3>2. B \subseteq Int /\ x \in Int
      OBVIOUS
    <3>3. CASE B \ {x} = {}
      BY <3>2, <3>3
    <3>4. CASE B \ {x} # {}
      <4>1. B \ {x} \in G
        BY <1>1
      <4>2. PICK l \in B \ {x} : \A y \in B \ {x} : l <= y
        BY <3>4, <4>1
      <4>3. PICK m \in B \ {x} : \A y \in B \ {x} : m >= y
        BY <3>4, <4>1
      <4>4. \E z \in B : \A y \in B : z <= y
        <5>1. CASE l <= x
          BY <3>2, <4>2, <5>1
        <5>2. CASE x <= l
          BY <3>2, <4>2, <5>2
        <5> QED BY <3>2, <5>1, <5>2
      <4>5. \E z \in B : \A y \in B : z >= y
        <5>1. CASE m >= x
          BY <3>2, <4>3, <5>1
        <5>2. CASE x >= m
          BY <3>2, <4>3, <5>2
        <5> QED BY <3>2, <5>1, <5>2
      <4> QED BY <4>4, <4>5
    <3> QED BY <3>3, <3>4
  <2> QED BY <2>1, <2>2
<1>2. S \in G
  <2> HIDE DEF G
  <2> QED BY <1>1, Shrink
<1>3. (\E m \in S : \A x \in S : m <= x) /\ (\E m \in S : \A x \in S : m >= x)
  BY <1>2
<1>4. Min(S) \in S /\ \A x \in S : Min(S) <= x
  BY <1>3 DEF Min
<1>5. Max(S) \in S /\ \A x \in S : Max(S) >= x
  BY <1>3 DEF Max
<1> QED BY <1>4, <1>5

\* The recursion behind a fold over a set of numbers in ascending order has a
\* solution: op is F, applied to a number and the value so far.
LEMMA FoldDefined ==
  ASSUME NEW D, D \subseteq Int, IsFiniteSet(D),
         NEW A, NEW base \in A, NEW F \in [D \X A -> A]
  PROVE  \E g \in [SUBSET D -> A] :
           \A s \in SUBSET D :
             /\ g[s] = IF s = {} THEN base ELSE F[<<Max(s), g[s \ {Max(s)}]>>]
             /\ s # {} => Max(s) \in s
<1> DEFINE Good(B, g) ==
             /\ g \in [SUBSET B -> A]
             /\ \A s \in SUBSET B :
                  g[s] = IF s = {} THEN base ELSE F[<<Max(s), g[s \ {Max(s)}]>>]
           G == {B \in SUBSET D : \E g : Good(B, g)}
<1>1. \A s \in SUBSET D : s # {} => Max(s) \in s /\ \A x \in s : x <= Max(s)
  BY Extremes, FS_Subset
<1>2. ASSUME NEW B \in SUBSET D, \A x \in B : B \ {x} \in G  PROVE B \in G
  <2>1. CASE B = {}
    <3> DEFINE g == [s \in SUBSET B |-> base]
    <3>1. Good(B, g)
      BY <2>1
    <3> HIDE DEF g, Good
    <3> QED BY <3>1
  <2>2. CASE B # {}
    <3> DEFINE m == Max(B)
    <3>1. m \in B /\ \A x \in B : x <= m
      BY <1>1, <2>2
    <3>2. PICK g : Good(B \ {m}, g)
      BY <1>2, <3>1
    <3> DEFINE h == [s \in SUBSET B |->
                       IF m \in s THEN F[<<m, g[s \ {m}]>>] ELSE g[s]]
    <3>3. ASSUME NEW s \in SUBSET B, m \in s
          PROVE  /\ Max(s) = m /\ s \ {m} \in SUBSET (B \ {m})
                 /\ h[s] = F[<<m, g[s \ {m}]>>] /\ h[s \ {m}] = g[s \ {m}]
                 /\ g[s \ {m}] \in A
      <4>1. Max(s) \in s /\ m <= Max(s) /\ Max(s) <= m
        BY <1>1, <3>1, <3>3
      <4>2. Max(s) \in Int /\ m \in Int
        BY <3>1, <4>1
      <4>3. Max(s) = m
        BY <4>1, <4>2
      <4> HIDE DEF m
      <4> QED BY <3>2, <3>3, <4>3
    <3>4. ASSUME NEW s \in SUBSET B, m \notin s
          PROVE  s \in SUBSET (B \ {m}) /\ h[s] = g[s] /\ g[s] \in A
      BY <3>2, <3>4
    <3> HIDE DEF m
    <3>5. h \in [SUBSET B -> A]
      <4> SUFFICES ASSUME NEW s \in SUBSET B  PROVE h[s] \in A
        BY DEF h
      <4>1. CASE m \in s
        <5>1. <<m, g[s \ {m}]>> \in D \X A
          BY <3>1, <3>3, <4>1
        <5> QED BY <3>3, <4>1, <5>1
      <4> QED BY <3>4, <4>1
    <3>6. ASSUME NEW s \in SUBSET B
          PROVE  h[s] = IF s = {} THEN base ELSE F[<<Max(s), h[s \ {Max(s)}]>>]
      <4>1. CASE m \in s
        BY <3>3, <4>1
      <4>2. CASE m \notin s /\ s = {}
        BY <3>2, <3>4, <4>2
      <4>3. CASE m \notin s /\ s # {}
        <5>1. Max(s) \in s
          BY <1>1, <4>3
        <5>2. g[s] = F[<<Max(s), g[s \ {Max(s)}]>>]
          BY <3>2, <3>4, <4>3
        <5>3. h[s \ {Max(s)}] = g[s \ {Max(s)}]
          BY <3>4, <4>3
        <5> QED BY <3>4, <4>3, <5>2, <5>3
      <4> QED BY <4>1, <4>2, <4>3
    <3>7. Good(B, h)
      <4> HIDE DEF h
      <4> QED BY <3>5, <3>6
    <3> HIDE DEF h, Good
    <3> QED BY <3>7
  <2> QED BY <2>1, <2>2
<1>3. D \in G
  <2> HIDE DEF G
  <2> QED BY <1>2, Shrink
<1> QED BY <1>1, <1>3

-----------------------------------------------------------------------------
(* Types *)

Cells == Int \cup {NULL}

\* A parsed read.
Parsed == [from : Int, to : Cells, type : STRING, delivered : Cells, received : Cells]

\* Tables of daily reads.
Tables ==
  {t \in UNION {[D -> Row] : D \in SUBSET Int} : IsFiniteSet(DOMAIN t)}

LEMMA TableType ==
  ASSUME NEW t
  PROVE  t \in Tables <=>
           /\ DOMAIN t \subseteq Int /\ IsFiniteSet(DOMAIN t)
           /\ t \in [DOMAIN t -> Row]
BY DEF Tables

LEMMA InstantType ==
  ASSUME NEW w \in Int, NEW fold
  PROVE  Instant(w, fold) \in Int
BY ClockAssumption, SMT DEF Instant, Offset, SpringAt, FallAt, Wall

LEMMA ReadingType ==
  ASSUME NEW u \in Int
  PROVE  Reading(u) \in Int
BY ClockAssumption, SMT DEF Reading, SpringAt, FallAt, Wall

\* A read, or the beginning of one, always has a day.
LEMMA DayType ==
  ASSUME NEW from \in Int, NEW to \in Cells
  PROVE  /\ usage_date_local(from, to) \in Int
         /\ DayAt(from) \in Int
<1>1. read_end(from, to) \in Int
  BY DEF read_end, Cells
<1>2. Reading(read_end(from, to)) \in Int /\ Reading(from) \in Int
  BY <1>1, ReadingType
<1>3. \A w \in Int : w \div DayLen \in Int /\ w \div DayLen - 1 \in Int
  BY ClockAssumption, SMT
<1> QED BY <1>2, <1>3 DEF usage_date_local, usage_day, DayAt

LEMMA AttributedType ==
  ASSUME NEW p, NEW r \in Parsed
  PROVE  Attributed(p, r) \in Int
BY DayType DEF Attributed, Parsed

-----------------------------------------------------------------------------
(* store_daily, one read *)

\* An inserted row, and a row after an update: its day stays, it is stamped, and
\* no value it had is emptied.
LEMMA InsertedRow ==
  ASSUME NEW p, NEW at \in Int, NEW r \in Parsed
  PROVE  /\ Inserted(p, at, r) \in Row
         /\ Inserted(p, at, r).fetch = at
         /\ Inserted(p, at, r).to = r.to
         /\ Inserted(p, at, r).day = Attributed(p, r)
BY AttributedType DEF Inserted, Row, Parsed, Cells

LEMMA RevisedRow ==
  ASSUME NEW at \in Int, NEW now \in Int, NEW old \in Row, NEW r \in Parsed
  PROVE  /\ Revised(at, now, old, r) \in Row
         /\ Revised(at, now, old, r).day = old.day
         /\ \A f \in Columns : old[f] # NULL => Revised(at, now, old, r)[f] # NULL
         /\ \/ Revised(at, now, old, r) = old
            \/ Revised(at, now, old, r).revised >= now
<1> DEFINE new == [f \in DOMAIN old |->
                     CASE f \in Differs(old, r) -> r[f]
                       [] f = "fetch"           -> at
                       [] f = "revised"         -> IF now > old.revised THEN now ELSE old.revised
                       [] OTHER                 -> old[f]]
           d == Differs(old, r)
<1>1. DOMAIN old = {"to", "type", "delivered", "received", "day", "fetch", "revised"}
  BY DEF Row
<1>2. d \subseteq Columns /\ \A f \in d : r[f] # NULL
  BY DEF Differs
<1>3. "day" \notin d /\ "fetch" \notin d /\ "revised" \notin d
  BY <1>2 DEF Columns
<1> HIDE DEF d
<1>4. /\ new.to = IF "to" \in d THEN r.to ELSE old.to
      /\ new.type = IF "type" \in d THEN r.type ELSE old.type
      /\ new.delivered = IF "delivered" \in d THEN r.delivered ELSE old.delivered
      /\ new.received = IF "received" \in d THEN r.received ELSE old.received
      /\ new.day = old.day /\ new.fetch = at
      /\ new.revised = IF now > old.revised THEN now ELSE old.revised
  BY <1>1, <1>3 DEF d
<1>5. new = [to |-> new.to, type |-> new.type, delivered |-> new.delivered,
             received |-> new.received, day |-> new.day, fetch |-> new.fetch,
             revised |-> new.revised]
  BY <1>1
<1>6. /\ new.to \in Cells /\ new.type \in STRING /\ new.delivered \in Cells
      /\ new.received \in Cells /\ new.day \in Int /\ new.fetch \in Int /\ new.revised \in Int
      /\ new.revised >= now
  BY <1>4 DEF Row, Parsed, Cells
<1>7. \A f \in Columns : old[f] # NULL => new[f] # NULL
  BY <1>2, <1>4 DEF Columns
<1>8. Revised(at, now, old, r) = IF d = {} THEN old ELSE new
  BY DEF Revised, d
<1> HIDE DEF new
<1>9. new \in Row
  BY <1>5, <1>6 DEF Row, Cells
<1>10. new.day = old.day /\ new.revised >= now
  BY <1>4, <1>6
<1>11. CASE d = {}
  BY <1>8, <1>11
<1>12. CASE d # {}
  BY <1>7, <1>8, <1>9, <1>10, <1>12
<1> QED BY <1>11, <1>12

LEMMA UpsertType ==
  ASSUME NEW p, NEW at \in Int, NEW now \in Int, NEW t \in Tables, NEW r \in Parsed
  PROVE  /\ Upsert(p, at, now, t, r) \in Tables
         /\ DOMAIN Upsert(p, at, now, t, r) = DOMAIN t \cup {r.from}
<1> DEFINE u == Upsert(p, at, now, t, r)
<1>1. /\ DOMAIN t \subseteq Int /\ IsFiniteSet(DOMAIN t)
      /\ \A k \in DOMAIN t : t[k] \in Row
  BY TableType
<1>2. DOMAIN u = DOMAIN t \cup {r.from}
  BY DEF Upsert
<1>3. DOMAIN u \subseteq Int /\ IsFiniteSet(DOMAIN u)
  BY <1>1, <1>2, FS_AddElement DEF Parsed
<1>4. \A k \in DOMAIN u : u[k] \in Row
  BY <1>1, InsertedRow, RevisedRow DEF Upsert
<1>5. u = [k \in DOMAIN u |-> u[k]]
  BY DEF Upsert
<1> QED BY <1>2, <1>3, <1>4, <1>5, TableType

-----------------------------------------------------------------------------
(* store_daily, the whole table *)

\* The tables the loop goes through.
Loop(p, at, now, t, parsed, acc) ==
  /\ acc \in [0 .. Len(parsed) -> Tables]
  /\ acc[0] = t
  /\ \A k \in 0 .. Len(parsed) - 1 : acc[k + 1] = Upsert(p, at, now, acc[k], parsed[k + 1])
  /\ store_daily(p, at, now, t, parsed) = acc[Len(parsed)]

LEMMA StoreLoop ==
  ASSUME NEW p, NEW at \in Int, NEW now \in Int, NEW t \in Tables, NEW parsed \in Seq(Parsed)
  PROVE  \E acc : Loop(p, at, now, t, parsed, acc)
<1> DEFINE n == Len(parsed)
           op(i, u) == Upsert(p, at, now, u, parsed[i])
           F == [x \in (1 .. n) \X Tables |-> op(x[1], x[2])]
           Solves(h) ==
             h = [s \in SUBSET (1 .. n) |-> IF s = {} THEN t ELSE op(Max(s), h[s \ {Max(s)}])]
           iter == CHOOSE h : Solves(h)
<1>1. /\ n \in Nat /\ DOMAIN parsed = 1 .. n
      /\ \A i \in 1 .. n : parsed[i] \in Parsed
  BY LenProperties
<1>2. store_daily(p, at, now, t, parsed) = iter[1 .. n]
  BY <1>1 DEF store_daily, FoldLeft, MapThenFoldSet
<1>3. F \in [(1 .. n) \X Tables -> Tables]
  BY <1>1, UpsertType
<1>4. PICK g \in [SUBSET (1 .. n) -> Tables] :
        \A s \in SUBSET (1 .. n) :
          /\ g[s] = IF s = {} THEN t ELSE F[<<Max(s), g[s \ {Max(s)}]>>]
          /\ s # {} => Max(s) \in s
  <2>1. IsFiniteSet(1 .. n) /\ 1 .. n \subseteq Int
    BY <1>1, FS_Interval
  <2> HIDE DEF F, n
  <2> QED BY <1>3, <2>1, FoldDefined
<1>5. Solves(g)
  <2>1. ASSUME NEW s \in SUBSET (1 .. n), s # {}
        PROVE  F[<<Max(s), g[s \ {Max(s)}]>>] = op(Max(s), g[s \ {Max(s)}])
    <3>1. Max(s) \in 1 .. n /\ g[s \ {Max(s)}] \in Tables
      BY <1>4, <2>1
    <3> QED BY <3>1
  <2> HIDE DEF F, op
  <2> QED BY <1>4, <2>1
<1>6. Solves(iter)
  <2> HIDE DEF Solves
  <2> QED BY <1>5
<1> HIDE DEF F, op, iter
<1>7. \A s \in SUBSET (1 .. n) :
        iter[s] = IF s = {} THEN t ELSE op(Max(s), iter[s \ {Max(s)}])
  BY <1>6
<1> DEFINE acc == [k \in 0 .. n |-> iter[1 .. k]]
<1>8. acc[0] = t
  <2>1. 1 .. 0 = {} /\ 0 \in 0 .. n
    BY <1>1, SMT
  <2> QED BY <1>7, <2>1
<1>9. ASSUME NEW k \in 0 .. n - 1
      PROVE  acc[k + 1] = op(k + 1, acc[k])
  <2>1. /\ k \in 0 .. n /\ k + 1 \in 0 .. n /\ 1 .. k + 1 \in SUBSET (1 .. n)
        /\ 1 .. k + 1 # {} /\ (1 .. k + 1) \ {k + 1} = 1 .. k
    <3> HIDE DEF n
    <3>1. k \in Int /\ 0 <= k /\ k + 1 <= n
      BY <1>1, SMT
    <3>2. k \in 0 .. n /\ k + 1 \in 0 .. n /\ k + 1 \in 1 .. k + 1
      BY <1>1, <3>1, SMT
    <3>3. \A i \in 1 .. k + 1 : i \in 1 .. n /\ (i # k + 1 <=> i \in 1 .. k)
      BY <1>1, <3>1, SMT
    <3>4. \A i \in 1 .. k : i \in 1 .. k + 1
      BY <1>1, <3>1, SMT
    <3> QED BY <3>2, <3>3, <3>4
  <2>2. Max(1 .. k + 1) = k + 1
    BY SMT DEF Max
  <2> QED BY <1>7, <2>1, <2>2
<1> HIDE DEF acc
<1>10. acc \in [0 .. n -> Tables]
  <2> DEFINE T == {k \in 0 .. n : acc[k] \in Tables}
  <2>1. 0 \in T
    BY <1>1, <1>8, SMT
  <2>2. ASSUME NEW k \in 0 .. n - 1, k \in T
        PROVE  k + 1 \in T
    <3>1. k + 1 \in 1 .. n /\ k + 1 \in 0 .. n
      BY <1>1, SMT
    <3>2. op(k + 1, acc[k]) \in Tables
      BY <1>1, <2>2, <3>1, UpsertType DEF op
    <3> QED BY <1>9, <3>1, <3>2
  <2>3. 0 .. n \subseteq T
    <3> HIDE DEF T, n
    <3> QED BY <1>1, <2>1, <2>2, Climb
  <2> QED BY <2>3 DEF acc
<1>11. iter[1 .. n] = acc[n]
  BY <1>1, SMT DEF acc
<1>12. Loop(p, at, now, t, parsed, acc)
  BY <1>2, <1>8, <1>9, <1>10, <1>11 DEF op, Loop
<1> QED BY <1>12

\* A row that was there keeps its day and its values, and has a new revision if it
\* changes.
Kept(t, u, now) ==
  \A k \in DOMAIN t :
    /\ k \in DOMAIN u
    /\ u[k].day = t[k].day
    /\ \A f \in Columns : t[k][f] # NULL => u[k][f] # NULL
    /\ u[k] = t[k] \/ u[k].revised >= now

\* A row that was not there is as it was inserted.
Added(p, t, u, at, parsed) ==
  \A k \in DOMAIN u \ DOMAIN t : \E i \in DOMAIN parsed :
    parsed[i].from = k /\ u[k] = Inserted(p, at, parsed[i])

\* What store_daily does to the table, whatever its length, when no two reads
\* begin at the same time.
LEMMA StoreFacts ==
  ASSUME NEW p, NEW at \in Int, NEW now \in Int, NEW t \in Tables, NEW parsed \in Seq(Parsed),
         \A i, j \in DOMAIN parsed : parsed[i].from = parsed[j].from => i = j
  PROVE  /\ store_daily(p, at, now, t, parsed) \in Tables
         /\ Kept(t, store_daily(p, at, now, t, parsed), now)
         /\ Added(p, t, store_daily(p, at, now, t, parsed), at, parsed)
<1> DEFINE n == Len(parsed)
<1>1. /\ n \in Nat /\ DOMAIN parsed = 1 .. n
      /\ \A i \in 1 .. n : parsed[i] \in Parsed
  BY LenProperties
<1>2. PICK acc \in [0 .. n -> Tables] :
        /\ acc[0] = t
        /\ \A k \in 0 .. n - 1 : acc[k + 1] = Upsert(p, at, now, acc[k], parsed[k + 1])
        /\ store_daily(p, at, now, t, parsed) = acc[n]
  <2>1. PICK acc : Loop(p, at, now, t, parsed, acc)
    BY StoreLoop
  <2> QED BY <2>1 DEF Loop
<1> HIDE DEF n
<1> DEFINE New(k) ==
             \A x \in DOMAIN acc[k] \ DOMAIN t : \E i \in 1 .. k :
               parsed[i].from = x /\ acc[k][x] = Inserted(p, at, parsed[i])
           T == {k \in 0 .. n : Kept(t, acc[k], now) /\ New(k)}
<1>3. 0 \in T
  <2>1. 0 \in 0 .. n
    BY <1>1, SMT
  <2>2. Kept(t, acc[0], now) /\ New(0)
    BY <1>2 DEF Kept
  <2> QED BY <2>1, <2>2
<1>4. ASSUME NEW k \in 0 .. n - 1, k \in T
      PROVE  k + 1 \in T
  <2> DEFINE r == parsed[k + 1]
             u == acc[k]
             v == acc[k + 1]
  <2>1. k \in 0 .. n /\ k + 1 \in 0 .. n /\ k + 1 \in 1 .. n /\ 1 .. k \subseteq 1 .. n
        /\ k + 1 \notin 1 .. k /\ 1 .. k \subseteq 1 .. k + 1 /\ k + 1 \in 1 .. k + 1
    BY <1>1, SMT
  <2>2. r \in Parsed /\ u \in Tables /\ v = Upsert(p, at, now, u, r)
    BY <1>1, <1>2, <2>1
  <2>3. Kept(t, u, now) /\ New(k)
    BY <1>4
  <2>4. \A x \in DOMAIN u : u[x] \in Row
    BY <2>2, TableType
  <2>5. DOMAIN v = DOMAIN u \cup {r.from}
    <3> HIDE DEF u, v, r
    <3>1. DOMAIN Upsert(p, at, now, u, r) = DOMAIN u \cup {r.from}
      BY <2>2 DEF Upsert
    <3> QED BY <2>2, <3>1
  <2>6. \A x \in DOMAIN u : v[x] = IF x = r.from THEN Revised(at, now, u[x], r) ELSE u[x]
    BY <2>2 DEF Upsert
  <2>7. r.from \notin DOMAIN u => v[r.from] = Inserted(p, at, r)
    BY <2>2 DEF Upsert
  <2> HIDE DEF u, v, r
  <2>8. Kept(t, v, now)
    <3> SUFFICES ASSUME NEW x \in DOMAIN t
                 PROVE  /\ x \in DOMAIN v
                        /\ v[x].day = t[x].day
                        /\ \A f \in Columns : t[x][f] # NULL => v[x][f] # NULL
                        /\ v[x] = t[x] \/ v[x].revised >= now
      BY DEF Kept
    <3>1. /\ x \in DOMAIN u /\ u[x].day = t[x].day
          /\ \A f \in Columns : t[x][f] # NULL => u[x][f] # NULL
          /\ u[x] = t[x] \/ u[x].revised >= now
      BY <2>3 DEF Kept
    <3>2. CASE x # r.from
      BY <2>5, <2>6, <3>1, <3>2
    <3>3. CASE x = r.from
      <4>1. v[x] = Revised(at, now, u[x], r)
        BY <2>6, <3>1, <3>3
      <4>2. /\ v[x].day = u[x].day
            /\ \A f \in Columns : u[x][f] # NULL => v[x][f] # NULL
            /\ v[x] = u[x] \/ v[x].revised >= now
        BY <2>2, <2>4, <3>1, <4>1, RevisedRow
      <4> QED BY <2>5, <3>1, <4>2
    <3> QED BY <3>2, <3>3
  <2>9. ASSUME NEW x \in DOMAIN v \ DOMAIN t
        PROVE  \E i \in 1 .. k + 1 :
                 parsed[i].from = x /\ v[x] = Inserted(p, at, parsed[i])
    <3>1. CASE x \in DOMAIN u
      <4>1. PICK i \in 1 .. k : parsed[i].from = x /\ u[x] = Inserted(p, at, parsed[i])
        BY <2>3, <2>9, <3>1 DEF u
      <4>2. x # r.from
        BY <1>1, <2>1, <4>1 DEF r
      <4> QED BY <2>1, <2>6, <3>1, <4>1, <4>2
    <3>2. CASE x \notin DOMAIN u
      <4>1. x = r.from
        BY <2>5, <2>9, <3>2
      <4> QED BY <2>1, <2>7, <3>2, <4>1 DEF r
    <3> QED BY <3>1, <3>2
  <2> QED BY <2>1, <2>8, <2>9 DEF v
<1>5. n \in T
  <2>1. 0 .. n \subseteq T
    <3> HIDE DEF T
    <3> QED BY <1>1, <1>3, <1>4, Climb
  <2>2. n \in 0 .. n
    BY <1>1, SMT
  <2> QED BY <2>1, <2>2
<1>6. acc[n] \in Tables
  <2>1. n \in 0 .. n
    BY <1>1, SMT
  <2> QED BY <1>2, <2>1
<1> QED BY <1>1, <1>2, <1>5, <1>6 DEF Added

LEMMA RevisedCells ==
  ASSUME NEW at \in Int, NEW now \in Int, NEW old \in Row, NEW r \in Parsed, NEW f \in Columns
  PROVE  Revised(at, now, old, r)[f] = IF r[f] = NULL THEN old[f] ELSE r[f]
<1>1. DOMAIN old = {"to", "type", "delivered", "received", "day", "fetch", "revised"}
  BY DEF Row
<1>2. f \in DOMAIN old /\ f \notin {"fetch", "revised"}
  BY <1>1 DEF Columns
<1>3. CASE f \in Differs(old, r)
  <2>1. r[f] # NULL /\ Differs(old, r) # {}
    BY <1>3 DEF Differs
  <2> QED BY <1>2, <1>3, <2>1, Zenon DEF Revised
<1>4. CASE f \notin Differs(old, r)
  <2>1. r[f] = NULL \/ r[f] = old[f]
    BY <1>4 DEF Differs
  <2>2. Revised(at, now, old, r)[f] = old[f]
    BY <1>2, <1>4, Zenon DEF Revised
  <2> QED BY <2>1, <2>2
<1> QED BY <1>3, <1>4

\* Table u is what table t becomes when table q is stored: a cell of q counts
\* unless it is empty.
Merged(t, q, u) ==
  /\ DOMAIN u = DOMAIN t \cup DOMAIN q
  /\ \A k \in DOMAIN u : \A f \in Columns :
       u[k][f] = IF k \in DOMAIN q /\ (k \notin DOMAIN t \/ q[k][f] # NULL)
                 THEN q[k][f] ELSE t[k][f]

LEMMA StoreMerges ==
  ASSUME NEW p, NEW at \in Int, NEW now \in Int, NEW t \in Tables, NEW parsed \in Seq(Parsed),
         \A i, j \in DOMAIN parsed : parsed[i].from = parsed[j].from => i = j
  PROVE  Merged(t, Told(parsed), store_daily(p, at, now, t, parsed))
<1> DEFINE n == Len(parsed)
           q == Told(parsed)
<1>1. /\ n \in Nat /\ DOMAIN parsed = 1 .. n
      /\ \A i \in 1 .. n : parsed[i] \in Parsed
  BY LenProperties
<1>2. PICK acc : Loop(p, at, now, t, parsed, acc)
  BY StoreLoop
<1>3. /\ acc \in [0 .. n -> Tables] /\ acc[0] = t
      /\ \A k \in 0 .. n - 1 : acc[k + 1] = Upsert(p, at, now, acc[k], parsed[k + 1])
      /\ store_daily(p, at, now, t, parsed) = acc[n]
  BY <1>2 DEF Loop
<1>4. /\ DOMAIN q = {parsed[i].from : i \in 1 .. n}
      /\ \A i \in 1 .. n : q[parsed[i].from] = parsed[i]
  <2>1. DOMAIN q = {parsed[i].from : i \in 1 .. n}
    BY <1>1 DEF Told
  <2>2. ASSUME NEW i \in 1 .. n  PROVE q[parsed[i].from] = parsed[i]
    <3> DEFINE c == CHOOSE j \in DOMAIN parsed : parsed[j].from = parsed[i].from
    <3>1. c \in DOMAIN parsed /\ parsed[c].from = parsed[i].from
      BY <1>1
    <3>2. c = i
      BY <1>1, <3>1
    <3>3. q[parsed[i].from] = parsed[c]
      BY <1>1 DEF Told
    <3> QED BY <3>2, <3>3
  <2> QED BY <2>1, <2>2
<1> HIDE DEF n, q
<1> DEFINE Read(k, x) == \E i \in 1 .. k : parsed[i].from = x
           Pre(k) ==
             /\ \A x : x \in DOMAIN acc[k] <=> x \in DOMAIN t \/ Read(k, x)
             /\ \A x \in DOMAIN acc[k] : \A f \in Columns :
                  acc[k][x][f] = IF Read(k, x) /\ (x \notin DOMAIN t \/ q[x][f] # NULL)
                                 THEN q[x][f] ELSE t[x][f]
           T == {k \in 0 .. n : Pre(k)}
<1>5. 0 \in T
  <2>1. 0 \in 0 .. n /\ 1 .. 0 = {}
    BY <1>1, SMT
  <2>2. \A x : ~Read(0, x)
    BY <2>1
  <2> HIDE DEF Read
  <2> QED BY <1>3, <2>1, <2>2
<1>6. ASSUME NEW k \in 0 .. n - 1, k \in T
      PROVE  k + 1 \in T
  <2> DEFINE r == parsed[k + 1]
             u == acc[k]
             v == acc[k + 1]
  <2>1. k \in 0 .. n /\ k + 1 \in 0 .. n /\ k + 1 \in 1 .. n
        /\ \A i : i \in 1 .. k + 1 <=> i \in 1 .. k \/ i = k + 1
    BY <1>1, SMT
  <2>2. r \in Parsed /\ u \in Tables /\ v = Upsert(p, at, now, u, r) /\ q[r.from] = r
    BY <1>1, <1>3, <1>4, <2>1
  <2>3. Pre(k)
    BY <1>6
  <2>4. \A x : Read(k + 1, x) <=> Read(k, x) \/ x = r.from
    BY <2>1
  <2>5. ~Read(k, r.from)
    <3>1. \A i \in 1 .. k : i \in 1 .. n /\ i # k + 1
      BY <1>1, SMT
    <3> QED BY <1>1, <2>1, <3>1
  <2>6. \A x \in DOMAIN u : u[x] \in Row
    BY <2>2, TableType
  <2>7. /\ \A x : x \in DOMAIN v <=> x \in DOMAIN u \/ x = r.from
        /\ \A x \in DOMAIN u : v[x] = IF x = r.from THEN Revised(at, now, u[x], r) ELSE u[x]
        /\ r.from \notin DOMAIN u => v[r.from] = Inserted(p, at, r)
    <3> HIDE DEF u, v, r
    <3> QED BY <2>2 DEF Upsert
  <2> HIDE DEF u, v, r
  <2>8. \A x : x \in DOMAIN u <=> x \in DOMAIN t \/ Read(k, x)
    BY <2>3 DEF u
  <2>9. \A x \in DOMAIN u : \A f \in Columns :
          u[x][f] = IF Read(k, x) /\ (x \notin DOMAIN t \/ q[x][f] # NULL)
                    THEN q[x][f] ELSE t[x][f]
    BY <2>3 DEF u
  <2> HIDE DEF Read
  <2>10. \A x : x \in DOMAIN v <=> x \in DOMAIN t \/ Read(k + 1, x)
    BY <2>4, <2>7, <2>8
  <2>11. ASSUME NEW x \in DOMAIN v, NEW f \in Columns
         PROVE  v[x][f] = IF Read(k + 1, x) /\ (x \notin DOMAIN t \/ q[x][f] # NULL)
                          THEN q[x][f] ELSE t[x][f]
    <3>1. CASE x # r.from
      BY <2>4, <2>7, <2>9, <3>1
    <3>2. CASE x = r.from /\ x \in DOMAIN u
      <4>1. u[x][f] = t[x][f] /\ x \in DOMAIN t
        BY <2>5, <2>8, <2>9, <3>2
      <4>2. v[x][f] = IF r[f] = NULL THEN u[x][f] ELSE r[f]
        <5>1. v[x] = Revised(at, now, u[x], r) /\ u[x] \in Row
          BY <2>6, <2>7, <3>2
        <5>2. \A old \in Row : Revised(at, now, old, r)[f] = IF r[f] = NULL THEN old[f] ELSE r[f]
          BY <2>2, <2>11, RevisedCells, SMTT(20)
        <5>3. Revised(at, now, u[x], r)[f] = IF r[f] = NULL THEN u[x][f] ELSE r[f]
          BY <5>1, <5>2
        <5> QED BY <5>1, <5>3, Zenon
      <4> QED BY <2>2, <2>4, <3>2, <4>1, <4>2
    <3>3. CASE x = r.from /\ x \notin DOMAIN u
      <4>1. v[x][f] = r[f] /\ x \notin DOMAIN t
        <5>1. Inserted(p, at, r)[f] = r[f]
          BY DEF Inserted, Columns
        <5>2. v[x] = Inserted(p, at, r)
          BY <2>7, <3>3
        <5> QED BY <2>8, <3>3, <5>1, <5>2, Zenon
      <4> QED BY <2>2, <2>4, <3>3, <4>1
    <3> QED BY <3>1, <3>2, <3>3
  <2> QED BY <2>1, <2>10, <2>11 DEF v
<1>7. n \in T
  <2>1. 0 .. n \subseteq T
    <3> HIDE DEF T
    <3> QED BY <1>1, <1>5, <1>6, Climb
  <2>2. n \in 0 .. n
    BY <1>1, SMT
  <2> QED BY <2>1, <2>2
<1>8. \A x : Read(n, x) <=> x \in DOMAIN q
  BY <1>4
<1> HIDE DEF Read
<1> QED BY <1>3, <1>7, <1>8 DEF Merged, q

-----------------------------------------------------------------------------
(* parse_daily_history *)

\* A page of an account, disturbed or not.
Arrives(page, table, layout) ==
  /\ table \in Seq(PortalRead) /\ layout \in Seq(STRING)
  /\ page \in Sent(table, layout)

\* A disturbed page still has its columns where they were, and every cell of a
\* row that is long enough is what the portal prints there, unless it is a meter.
Shape(page, table, layout) ==
  /\ Len(page.header) = Len(layout) /\ Len(layout) \in Nat
  /\ \A j \in 1 .. Len(layout) : page.header[j] \in {layout[j], "", "$ Cost"}
  /\ Len(page.rows) = Len(table) /\ Len(table) \in Nat
  /\ \A i \in 1 .. Len(table) : Len(page.rows[i]) >= Len(layout) =>
       \A j \in 1 .. Len(layout) :
         \/ page.rows[i][j] = Printed(table[i], layout[j])
         \/ page.header[j] = "Meter"

LEMMA PageShape ==
  ASSUME NEW table, NEW layout, NEW page, Arrives(page, table, layout)
  PROVE  Shape(page, table, layout)
<1> USE DEF Shape
<1>0. table \in Seq(PortalRead) /\ layout \in Seq(STRING)
  BY DEF Arrives
<1> DEFINE n == Len(table)
           m == Len(layout)
           clean == CleanTable(table, layout)
<1>1. /\ n \in Nat /\ m \in Nat /\ DOMAIN layout = 1 .. m
      /\ \A j \in 1 .. m : layout[j] \in STRING
  BY <1>0, LenProperties
<1> HIDE DEF n, m
<1>2. /\ clean.header = layout
      /\ clean.rows = [i \in 1 .. n |-> [j \in 1 .. m |-> Printed(table[i], layout[j])]]
      /\ DOMAIN clean = {"header", "rows", "total"}
  BY DEF CleanTable, n, m
<1> HIDE DEF clean
<1>3. /\ Len(clean.rows) = n /\ DOMAIN clean.rows = 1 .. n
      /\ \A i \in 1 .. n :
           /\ Len(clean.rows[i]) = m /\ DOMAIN clean.rows[i] = 1 .. m
           /\ \A j \in 1 .. m : clean.rows[i][j] = Printed(table[i], layout[j])
  BY <1>1, <1>2
<1> DEFINE Renamed(h) ==
             \E i \in 1 .. m : page = [clean EXCEPT !.header[i] = h]
           Cut ==
             \E i \in 1 .. n : page = [clean EXCEPT !.rows[i] = Front(clean.rows[i])]
           Blanked ==
             \E i \in 1 .. n :
               page = [clean EXCEPT !.rows[i] =
                         [j \in 1 .. m |-> IF clean.header[j] = "Meter" THEN Blank ELSE clean.rows[i][j]]]
<1>4. page = clean \/ Renamed("$ Cost") \/ Renamed("") \/ Cut \/ Blanked
  <2>1. CASE page = clean
    BY <2>1
  <2>2. CASE page \in Disturbed(clean)
    <3>1. Len(clean.header) = m
      BY <1>2 DEF m
    <3>2. \/ \E i \in 1 .. m : page = [clean EXCEPT !.header[i] = "$ Cost"]
          \/ \E i \in 1 .. m : page = [clean EXCEPT !.header[i] = ""]
          \/ \E i \in 1 .. n : page = [clean EXCEPT !.rows[i] = Front(clean.rows[i])]
          \/ \E i \in 1 .. n :
               page = [clean EXCEPT !.rows[i] =
                         [j \in 1 .. m |-> IF clean.header[j] = "Meter" THEN Blank ELSE clean.rows[i][j]]]
      BY <1>3, <2>2, <3>1, Zenon DEF Disturbed
    <3> QED BY <3>2, Zenon
  <2> QED BY <2>1, <2>2 DEF Arrives, Sent, clean
<1>5. CASE page = clean
  BY <1>1, <1>2, <1>3, <1>5 DEF n, m
<1>6. ASSUME NEW h \in {"", "$ Cost"}, Renamed(h)
      PROVE  /\ page.rows = clean.rows /\ Len(page.header) = m
             /\ \A j \in 1 .. m : page.header[j] \in {layout[j], h}
  <2>1. PICK i \in 1 .. m : page = [clean EXCEPT !.header[i] = h]
    BY <1>6
  <2>2. page.rows = clean.rows /\ page.header = [layout EXCEPT ![i] = h]
    BY <1>2, <2>1
  <2>3. layout = [j \in 1 .. m |-> layout[j]]
    BY <1>0, LenProperties, Zenon DEF m
  <2>4. page.header = [j \in 1 .. m |-> IF j = i THEN h ELSE layout[j]]
    BY <2>2, <2>3
  <2>5. Len(page.header) = m
    <3> DEFINE S == STRING \cup {h}
    <3>1. STRING \subseteq S /\ h \in S
      OBVIOUS
    <3> HIDE DEF S
    <3>2. layout \in Seq(S)
      BY <1>0, <3>1, SeqMonotonic
    <3>3. Len([layout EXCEPT ![i] = h]) = Len(layout)
      BY <3>1, <3>2, ExceptSeq DEF m
    <3> QED BY <2>2, <3>3 DEF m
  <2> QED BY <2>2, <2>4, <2>5
<1>7. CASE Cut
  <2>1. PICK i \in 1 .. n : page = [clean EXCEPT !.rows[i] = Front(clean.rows[i])]
    BY <1>7
  <2>2. page.header = layout /\ page.rows = [clean.rows EXCEPT ![i] = Front(clean.rows[i])]
    BY <1>2, <2>1
  <2>3. Len(page.rows) = n
    BY <1>1, <1>2, <1>3, <2>2
  <2>4. ASSUME NEW x \in 1 .. n, Len(page.rows[x]) >= m, NEW j \in 1 .. m
        PROVE  page.rows[x][j] = Printed(table[x], layout[j])
    <3>1. CASE x # i
      BY <1>3, <2>2, <3>1
    <3>2. CASE x = i
      <4>1. page.rows[x] = Front(clean.rows[x])
        BY <1>3, <2>2, <3>2
      <4>2. Front(clean.rows[x]) = [y \in 1 .. m - 1 |-> clean.rows[x][y]]
        BY <1>1, <1>3 DEF Front
      <4>3. Len(Front(clean.rows[x])) = m - 1
        <5>1. m - 1 \in Nat
          BY <1>1, SMT
        <5> QED BY <4>2, <5>1
      <4> QED BY <1>1, <2>4, <4>1, <4>3
    <3> QED BY <3>1, <3>2
  <2> QED BY <1>1, <2>2, <2>3, <2>4 DEF n, m
<1>8. CASE Blanked
  <2>1. PICK i \in 1 .. n :
          page = [clean EXCEPT !.rows[i] =
                    [j \in 1 .. m |-> IF clean.header[j] = "Meter" THEN Blank ELSE clean.rows[i][j]]]
    BY <1>8
  <2>2. /\ page.header = layout
        /\ page.rows = [clean.rows EXCEPT ![i] =
                          [j \in 1 .. m |-> IF clean.header[j] = "Meter" THEN Blank ELSE clean.rows[i][j]]]
    BY <1>2, <2>1
  <2>3. Len(page.rows) = n
    BY <1>1, <1>2, <1>3, <2>2
  <2>4. ASSUME NEW x \in 1 .. n, NEW j \in 1 .. m
        PROVE  page.rows[x][j] = Printed(table[x], layout[j]) \/ layout[j] = "Meter"
    <3>1. CASE x # i
      BY <1>3, <2>2, <3>1
    <3>2. CASE x = i
      <4>1. page.rows[x] =
              [y \in 1 .. m |-> IF clean.header[y] = "Meter" THEN Blank ELSE clean.rows[x][y]]
        BY <1>3, <2>2, <3>2
      <4> QED BY <1>2, <1>3, <4>1
    <3> QED BY <3>1, <3>2
  <2> QED BY <1>1, <2>2, <2>3, <2>4 DEF n, m
<1> HIDE DEF Renamed
<1>9. CASE Renamed("$ Cost") \/ Renamed("")
  <2>1. /\ page.rows = clean.rows /\ Len(page.header) = m
        /\ \A j \in 1 .. m : page.header[j] \in {layout[j], "", "$ Cost"}
    BY <1>6, <1>9
  <2> QED BY <1>1, <1>3, <2>1 DEF n, m
<1> HIDE DEF Cut, Blanked
<1> QED BY <1>4, <1>5, <1>7, <1>8, <1>9

\* A cell of a column that is there shows what the portal prints under its
\* header.
Shown(page, table, i, name) ==
  \E h : DailyColumn(h) = name /\ Cell(page, page.rows[i], name) = Printed(table[i], h)

LEMMA CellShape ==
  ASSUME NEW table, NEW layout, NEW page, Arrives(page, table, layout),
         NEW i \in 1 .. Len(table), Len(page.rows[i]) >= Len(page.header),
         NEW name, name # "meter", name # "unknown", Index(page.header, name) # {}
  PROVE  Shown(page, table, i, name)
<1> DEFINE at == Index(page.header, name)
           j == Min(at)
<1>0. Shape(page, table, layout)
  BY PageShape
<1>1. Len(page.header) = Len(layout) /\ Len(layout) \in Nat
  BY <1>0 DEF Shape
<1>2. at \subseteq 1 .. Len(layout)
  BY <1>1 DEF Index
<1>3. at \subseteq Int /\ IsFiniteSet(at)
  <2>1. IsFiniteSet(1 .. Len(layout)) /\ 1 .. Len(layout) \subseteq Int
    BY <1>1, FS_Interval
  <2> HIDE DEF at
  <2> QED BY <1>2, <2>1, FS_Subset
<1>4. j \in at
  <2> HIDE DEF at
  <2> QED BY <1>3, Extremes DEF at
<1>5. j \in 1 .. Len(layout) /\ DailyColumn(page.header[j]) = name
  <2> HIDE DEF j
  <2> QED BY <1>2, <1>4 DEF Index
<1> HIDE DEF j
<1>6. /\ DailyColumn("Meter") = "meter" /\ DailyColumn("$ Cost") = "unknown"
      /\ DailyColumn("") = "unknown"
  BY DEF DailyColumn
<1>7. page.header[j] = layout[j] /\ page.header[j] # "Meter"
  BY <1>0, <1>5, <1>6 DEF Shape
<1>8. page.rows[i][j] = Printed(table[i], layout[j])
  BY <1>0, <1>1, <1>5, <1>7 DEF Shape
<1>9. Cell(page, page.rows[i], name) = page.rows[i][j]
  BY DEF Cell, j, at
<1> QED BY <1>5, <1>7, <1>8, <1>9 DEF Shown

\* What a table of the portal parses to, if it is not refused: as many reads as
\* it has, each of the type the archive stores, beginning when the portal says.
LEMMA ParseFacts ==
  ASSUME NEW table, NEW layout, NEW page, Arrives(page, table, layout),
         parse_daily_history(page) # Refused
  PROVE  /\ parse_daily_history(page) \in Seq(Parsed)
         /\ Len(parse_daily_history(page)) = Len(table)
         /\ \A i \in 1 .. Len(table) :
              parse_daily_history(page)[i].from = Instant(table[i].from[1], 0)
<1> DEFINE n == Len(table)
           parsed == parse_daily_history(page)
           Read(i) ==
             LET row == page.rows[i]
             IN  [from      |-> parse_local_datetime(Cell(page, row, "from")),
                  to        |-> parse_local_datetime(Cell(page, row, "to")),
                  type      |-> Cell(page, row, "type"),
                  delivered |-> IF Index(page.header, "kwh_delivered") # {}
                                THEN Cell(page, row, "kwh_delivered")
                                ELSE Cell(page, row, "kwh"),
                  received  |-> Cell(page, row, "kwh_received")]
<1>1. n \in Nat /\ Len(page.rows) = n /\ table \in Seq(PortalRead)
  BY PageShape DEF Shape, Arrives
<1>2. TableFits(page) /\ parsed = [i \in 1 .. n |-> Read(i)]
  BY <1>1 DEF parse_daily_history
<1>3. ASSUME NEW i \in 1 .. n
      PROVE  /\ Read(i) \in Parsed
             /\ Read(i).from = Instant(table[i].from[1], 0)
  <2> DEFINE row == page.rows[i]
  <2>1. Len(row) >= Len(page.header)
    <3>1. PICK rows : rows = page.rows /\ DOMAIN rows = 1 .. n
      BY <1>1
    <3> QED BY <1>2, <3>1 DEF TableFits
  <2>2. table[i] \in PortalRead
    BY <1>1, ElementOfSeq
  <2>3. /\ table[i].from \in Time /\ table[i].from # NULL
        /\ table[i].to \in Time \cup {NULL} /\ table[i].type \in STRING
        /\ table[i].delivered \in Cells /\ table[i].received \in Cells
    BY <2>2, DailyAssumption DEF PortalRead, Cells
  <2>4. ASSUME NEW t \in Time
        PROVE  t[1] \in Int /\ parse_local_datetime(t) \in Int
               /\ parse_local_datetime(t) = Instant(t[1], 0)
    BY InstantType, DailyAssumption DEF parse_local_datetime, Time
  <2>5. ASSUME NEW name, name # "meter", name # "unknown", Index(page.header, name) # {}
        PROVE  Shown(page, table, i, name)
    <3> HIDE DEF n
    <3>1. i \in 1 .. Len(table) /\ Len(page.rows[i]) >= Len(page.header)
      BY <2>1 DEF n
    <3> QED BY <2>5, <3>1, CellShape, Zenon
  <2>6. Cell(page, row, "from") = table[i].from
    <3>1. Index(page.header, "from") # {}
      BY <1>2 DEF TableFits
    <3>2. PICK h : DailyColumn(h) = "from" /\ Cell(page, row, "from") = Printed(table[i], h)
      BY <2>5, <3>1 DEF Shown
    <3>3. h = "From"
      BY <3>2 DEF DailyColumn
    <3> QED BY <3>2, <3>3 DEF Printed
  <2>7. Cell(page, row, "type") = table[i].type
    <3>1. Index(page.header, "type") # {}
      BY <1>2 DEF TableFits
    <3>2. PICK h : DailyColumn(h) = "type" /\ Cell(page, row, "type") = Printed(table[i], h)
      BY <2>5, <3>1 DEF Shown
    <3>3. h = "Type"
      BY <3>2 DEF DailyColumn
    <3> QED BY <3>2, <3>3 DEF Printed
  <2>8. Cell(page, row, "to") \in Time \cup {NULL}
    <3>1. CASE Index(page.header, "to") = {}
      BY <3>1 DEF Cell
    <3>2. CASE Index(page.header, "to") # {}
      <4>1. PICK h : DailyColumn(h) = "to" /\ Cell(page, row, "to") = Printed(table[i], h)
        BY <2>5, <3>2 DEF Shown
      <4>2. h = "To"
        BY <4>1 DEF DailyColumn
      <4> QED BY <2>3, <4>1, <4>2 DEF Printed
    <3> QED BY <3>1, <3>2
  <2>9. ASSUME NEW name \in {"kwh_delivered", "kwh", "kwh_received"}
        PROVE  Cell(page, row, name) \in Cells
    <3>1. CASE Index(page.header, name) = {}
      BY <3>1 DEF Cell, Cells
    <3>2. CASE Index(page.header, name) # {}
      <4>1. PICK h : DailyColumn(h) = name /\ Cell(page, row, name) = Printed(table[i], h)
        BY <2>5, <3>2 DEF Shown
      <4>2. h \in {"kWh Delivered", "kWh Del", "kWh Received", "kWh Rcvd", "kWh"}
        BY <4>1 DEF DailyColumn
      <4> QED BY <2>3, <4>1, <4>2 DEF Printed, Cells
    <3> QED BY <3>1, <3>2
  <2>10. parse_local_datetime(Cell(page, row, "to")) \in Cells
    BY <2>4, <2>8 DEF parse_local_datetime, Cells
  <2>11. Read(i).from = Instant(table[i].from[1], 0) /\ Read(i).from \in Int
    BY <2>3, <2>4, <2>6
  <2> HIDE DEF row
  <2>12. Read(i) \in Parsed
    BY <2>7, <2>9, <2>10, <2>11, <2>3 DEF Parsed, row
  <2> QED BY <2>11, <2>12
<1> HIDE DEF Read, n, parsed
<1>4. parsed \in Seq(Parsed)
  BY <1>1, <1>2, <1>3, IsASeq
<1>5. Len(parsed) = n
  BY <1>1, <1>2
<1> QED BY <1>2, <1>3, <1>4, <1>5 DEF n, parsed

-----------------------------------------------------------------------------
(* Type correctness *)

\* What a fetch may have logged: the reads of a page of the account that was
\* accepted.
Answers == [at : Nat, parsed : Seq(Parsed)]

Genuine(answer) ==
  /\ answer \in Answers
  /\ \A i, j \in DOMAIN answer.parsed :
       answer.parsed[i].from = answer.parsed[j].from => i = j
  /\ \E table \in account.tables : \E page \in Sent(table, account.layout) :
       answer.parsed = parse_daily_history(page) /\ answer.parsed # Refused

TypeInv ==
  /\ account \in [tables : Stories, layout : Layouts]
  /\ version \in {0, 1, 2}
  /\ reads \in Tables
  /\ conn \in [Procs -> {"closed", "ready", "create", "migrate"}]
  /\ stamp \in [Procs -> Nat]
  /\ {clock, mark} \subseteq Nat

\* Only what was logged is stored.
WorkInv ==
  /\ \A answer \in log : Genuine(answer)
  /\ \A p \in Procs : work[p] = NULL \/ Genuine(work[p])
  /\ DOMAIN work = Procs

\* Nobody stores before there are tables, nobody migrates a file without tables,
\* and only a file of version 2 is exported.
StageInv ==
  /\ \A p \in Procs : conn[p] \in {"ready", "migrate"} => version # 0
  /\ version = 0 => DOMAIN reads = {}
  /\ exporting # NULL => version = 2
  /\ exported # NULL => version = 2

Inv == TypeInv /\ WorkInv /\ StageInv

LEMMA EmptyTable == [k \in {} |-> NULL] \in Tables
<1> DEFINE t == [k \in {} |-> NULL]
<1>1. DOMAIN t = {} /\ t \in [DOMAIN t -> Row]
  OBVIOUS
<1>2. DOMAIN t \subseteq Int /\ IsFiniteSet(DOMAIN t)
  BY <1>1, FS_EmptySet
<1> HIDE DEF t
<1>3. t \in Tables
  BY <1>1, <1>2, TableType
<1> QED BY <1>3 DEF t

LEMMA ReattributedType ==
  ASSUME Inv
  PROVE  /\ Reattributed \in Tables /\ DOMAIN Reattributed = DOMAIN reads
         /\ \A k \in DOMAIN reads :
              /\ reads[k] \in Row /\ k \in Int /\ DayOf(k) \in Int
              /\ Reattributed[k].day = DayOf(k)
              /\ \A f \in Columns : Reattributed[k][f] = reads[k][f]
              /\ Reattributed[k].fetch = reads[k].fetch
              /\ Reattributed[k].revised = reads[k].revised
<1>1. /\ DOMAIN reads \subseteq Int /\ IsFiniteSet(DOMAIN reads)
      /\ \A k \in DOMAIN reads : reads[k] \in Row
  BY TableType DEF Inv, TypeInv
<1>2. \A k \in DOMAIN reads : k \in Int /\ DayOf(k) \in Int
  BY <1>1, DayType DEF DayOf, Day, Row, Cells
<1>3. /\ DOMAIN Reattributed = DOMAIN reads
      /\ \A k \in DOMAIN reads : Reattributed[k] = [reads[k] EXCEPT !.day = DayOf(k)]
      /\ Reattributed = [k \in DOMAIN Reattributed |-> Reattributed[k]]
  BY DEF Reattributed
<1>4. ASSUME NEW k \in DOMAIN reads, NEW d \in Int
      PROVE  LET r == [reads[k] EXCEPT !.day = d]
             IN  /\ r \in Row /\ r.day = d
                 /\ \A f \in Columns : r[f] = reads[k][f]
                 /\ r.fetch = reads[k].fetch /\ r.revised = reads[k].revised
  BY <1>1 DEF Row, Columns
<1>5. Reattributed \in Tables
  BY <1>1, <1>2, <1>3, <1>4, TableType
<1>6. ASSUME NEW k \in DOMAIN reads
      PROVE  /\ Reattributed[k] \in Row /\ Reattributed[k].day = DayOf(k)
             /\ \A f \in Columns : Reattributed[k][f] = reads[k][f]
             /\ Reattributed[k].fetch = reads[k].fetch
             /\ Reattributed[k].revised = reads[k].revised
  <2>1. PICK d \in Int : d = DayOf(k)
    BY <1>2
  <2>2. Reattributed[k] = [reads[k] EXCEPT !.day = d]
    BY <1>3, <2>1
  <2> QED BY <1>4, <2>1, <2>2
<1> QED BY <1>1, <1>2, <1>3, <1>5, <1>6

\* The table before and after a fetch is stored.
Stored(p) ==
  \E parsed \in Seq(Parsed) :
    /\ reads' \in Tables
    /\ Kept(reads, reads', stamp[p])
    /\ Added(p, reads, reads', work[p].at, parsed)
    /\ Merged(reads, Told(parsed), reads')
    /\ \E table \in account.tables : \E page \in Sent(table, account.layout) :
         parsed = parse_daily_history(page) /\ parsed # Refused

LEMMA StoreIs ==
  ASSUME Inv, NEW p \in Procs, Store(p)
  PROVE  Stored(p)
<1>1. /\ work[p].parsed \in Seq(Parsed) /\ work[p].at \in Int /\ stamp[p] \in Int
      /\ \A i, j \in DOMAIN work[p].parsed :
           work[p].parsed[i].from = work[p].parsed[j].from => i = j
      /\ \E table \in account.tables : \E page \in Sent(table, account.layout) :
           work[p].parsed = parse_daily_history(page) /\ work[p].parsed # Refused
  <2>1. Genuine(work[p])
    BY DEF Store, Inv, WorkInv
  <2> QED BY <2>1 DEF Genuine, Answers, Inv, TypeInv
<1>2. reads \in Tables /\ reads' = store_daily(p, work[p].at, stamp[p], reads, work[p].parsed)
  BY DEF Store, Inv, TypeInv
<1>3. PICK parsed, at, now : parsed = work[p].parsed /\ at = work[p].at /\ now = stamp[p]
  OBVIOUS
<1>4. /\ store_daily(p, at, now, reads, parsed) \in Tables
      /\ Kept(reads, store_daily(p, at, now, reads, parsed), now)
      /\ Added(p, reads, store_daily(p, at, now, reads, parsed), at, parsed)
  BY <1>1, <1>2, <1>3, StoreFacts
<1>5. Merged(reads, Told(parsed), store_daily(p, at, now, reads, parsed))
  BY <1>1, <1>2, <1>3, StoreMerges
<1> QED BY <1>1, <1>2, <1>3, <1>4, <1>5, Zenon DEF Stored

\* An answer is refused, and nothing changes, or it is logged.
LEMMA FetchLogs ==
  ASSUME Inv, NEW p \in Procs, Arrive(p)
  PROVE  WorkInv'
<1>1. PICK table \in account.tables :
        \E page \in Sent(table, account.layout) : Fetch(p, page)
  BY DEF Arrive
<1>2. PICK page \in Sent(table, account.layout) : Fetch(p, page)
  BY <1>1
<1>3. /\ account.tables \in Stories /\ account.layout \in Layouts /\ stamp[p] \in Nat
  BY DEF Inv, TypeInv
<1>4. /\ table \in Seq(PortalRead) /\ account.layout \in Seq(STRING)
      /\ \A i, j \in DOMAIN table :
           Instant(table[i].from[1], 0) = Instant(table[j].from[1], 0) => i = j
  BY <1>3, DailyAssumption
<1>5. Arrives(page, table, account.layout)
  BY <1>2, <1>4 DEF Arrives
<1>6. account' = account
  BY <1>2 DEF Fetch
<1>7. \A a : Genuine(a)' <=> Genuine(a)
  BY <1>6 DEF Genuine
<1> DEFINE parsed == parse_daily_history(page)
           answer == [at |-> stamp[p], parsed |-> parsed]
<1>8. CASE parsed = Refused
  <2>1. work' = work /\ log' = log
    BY <1>2, <1>8 DEF Fetch
  <2> QED BY <1>7, <2>1 DEF Inv, WorkInv
<1>9. CASE parsed # Refused
  <2>1. /\ parsed \in Seq(Parsed) /\ Len(parsed) = Len(table)
        /\ \A i \in 1 .. Len(table) : parsed[i].from = Instant(table[i].from[1], 0)
    BY <1>5, <1>9, ParseFacts
  <2>2. DOMAIN table = 1 .. Len(table) /\ DOMAIN parsed = 1 .. Len(parsed)
    BY <1>4, <2>1, LenProperties
  <2>3. \A i, j \in DOMAIN parsed : parsed[i].from = parsed[j].from => i = j
    BY <1>4, <2>1, <2>2
  <2>4. \E tab \in account.tables : \E pag \in Sent(tab, account.layout) :
          parsed = parse_daily_history(pag) /\ parsed # Refused
    BY <1>2, <1>9
  <2>5. work' = [work EXCEPT ![p] = answer] /\ log' = log \cup {answer}
    BY <1>2, <1>9 DEF Fetch
  <2> HIDE DEF parsed
  <2>6. answer \in Answers /\ answer.parsed = parsed
    BY <1>3, <2>1 DEF Answers
  <2>7. Genuine(answer)
    <3> HIDE DEF answer
    <3> QED BY <2>3, <2>4, <2>6 DEF Genuine
  <2> HIDE DEF answer
  <2> QED BY <1>7, <2>5, <2>7 DEF Inv, WorkInv
<1> QED BY <1>8, <1>9

LEMMA InvInit == Init => Inv
<1> SUFFICES ASSUME Init  PROVE Inv
  OBVIOUS
<1>1. CASE version = 0
  <2>1. reads = [k \in {} |-> NULL] /\ DOMAIN reads = {}
    BY <1>1 DEF Init
  <2>2. reads \in Tables
    BY <2>1, EmptyTable
  <2> QED BY <2>1, <2>2 DEF Init, Inv, TypeInv, WorkInv, StageInv
<1>2. CASE version = 1
  <2>1. reads \in OldFiles
    BY <1>2 DEF Init
  <2>2. reads \in Tables
    BY <2>1, DailyAssumption, TableType
  <2> QED BY <1>2, <2>2 DEF Init, Inv, TypeInv, WorkInv, StageInv
<1> QED BY <1>1, <1>2 DEF Init

LEMMA TypeNext == Inv /\ [Next]_vars => TypeInv'
<1> SUFFICES ASSUME Inv, [Next]_vars  PROVE TypeInv'
  OBVIOUS
<1> USE DEF Inv, TypeInv, Leave, fileVars, procVars, exportVars, historyVars
<1>1. ASSUME NEW p \in Procs, Open(p)
      PROVE  TypeInv'
  BY <1>1 DEF Open
<1>2. ASSUME NEW p \in Procs, Close(p)
      PROVE  TypeInv'
  BY <1>2 DEF Close
<1>3. ASSUME NEW p \in Procs, Crash(p)
      PROVE  TypeInv'
  BY <1>3 DEF Crash
<1>4. ASSUME NEW p \in Procs, Create(p)
      PROVE  TypeInv'
  <2>1. Code[p] \in {1, 2}
    BY DailyAssumption
  <2>2. CASE version = 0
    BY <1>4, <2>1, <2>2 DEF Create
  <2>3. CASE version # 0
    BY <1>4, <2>3 DEF Create
  <2> QED BY <2>2, <2>3
<1>5. ASSUME NEW p \in Procs, Migrate(p)
      PROVE  TypeInv'
  BY <1>5, ReattributedType DEF Migrate
<1>6. ASSUME NEW p \in Procs, Arrive(p)
      PROVE  TypeInv'
  BY <1>6 DEF Arrive, Fetch
<1>7. ASSUME NEW p \in Procs, Reread(p)
      PROVE  TypeInv'
  BY <1>7 DEF Reread
<1>8. ASSUME NEW p \in Procs, Store(p)
      PROVE  TypeInv'
  <2>1. reads' \in Tables
    BY <1>8, StoreIs DEF Stored
  <2> QED BY <1>8, <2>1 DEF Store
<1>9. CASE ReadBuckets \/ SetWatermark \/ AbortExport
  BY <1>9 DEF ReadBuckets, SetWatermark, AbortExport
<1>10. CASE Tick
  BY <1>10 DEF Tick
<1>11. CASE UNCHANGED vars
  BY <1>11 DEF vars
<1> QED BY <1>1, <1>2, <1>3, <1>4, <1>5, <1>6, <1>7, <1>8, <1>9, <1>10, <1>11 DEF Next, Step

LEMMA WorkNext == Inv /\ [Next]_vars => WorkInv'
<1> SUFFICES ASSUME Inv, [Next]_vars  PROVE WorkInv'
  OBVIOUS
<1> USE DEF fileVars, procVars, exportVars, historyVars
<1>1. ASSUME account' = account
      PROVE  \A a : Genuine(a)' <=> Genuine(a)
  BY <1>1 DEF Genuine
<1>2. ASSUME UNCHANGED <<account, log, work>>
      PROVE  WorkInv'
  BY <1>1, <1>2 DEF Inv, WorkInv
<1>3. ASSUME NEW p \in Procs, Crash(p) \/ Store(p)
      PROVE  WorkInv'
  <2>1. account' = account /\ log' = log /\ work' = [work EXCEPT ![p] = NULL]
    BY <1>3 DEF Crash, Store
  <2> QED BY <1>1, <2>1 DEF Inv, WorkInv
<1>4. ASSUME NEW p \in Procs, Reread(p)
      PROVE  WorkInv'
  <2>1. PICK answer \in log :
          account' = account /\ log' = log /\ work' = [work EXCEPT ![p] = answer]
    BY <1>4 DEF Reread
  <2> QED BY <1>1, <2>1 DEF Inv, WorkInv
<1>5. ASSUME NEW p \in Procs, Open(p) \/ Close(p) \/ Create(p) \/ Migrate(p)
      PROVE  UNCHANGED <<account, log, work>>
  BY <1>5 DEF Open, Close, Create, Migrate
<1>6. ASSUME ReadBuckets \/ SetWatermark \/ AbortExport \/ Tick \/ UNCHANGED vars
      PROVE  UNCHANGED <<account, log, work>>
  BY <1>6 DEF ReadBuckets, SetWatermark, AbortExport, Tick, vars
<1> QED BY <1>2, <1>3, <1>4, <1>5, <1>6, FetchLogs DEF Next, Step

LEMMA StageNext == Inv /\ [Next]_vars => StageInv'
<1> SUFFICES ASSUME Inv, [Next]_vars  PROVE StageInv'
  OBVIOUS
<1> USE DEF Inv, TypeInv, StageInv, Leave, fileVars, procVars, exportVars, historyVars
<1>1. ASSUME NEW p \in Procs, Open(p)
      PROVE  StageInv'
  BY <1>1, DailyAssumption DEF Open
<1>2. ASSUME NEW p \in Procs, Close(p) \/ Crash(p)
      PROVE  StageInv'
  BY <1>2 DEF Close, Crash
<1>3. ASSUME NEW p \in Procs, Create(p)
      PROVE  StageInv'
  BY <1>3, DailyAssumption DEF Create
<1>4. ASSUME NEW p \in Procs, Migrate(p)
      PROVE  StageInv'
  BY <1>4, ReattributedType DEF Migrate
<1>5. ASSUME NEW p \in Procs, Arrive(p) \/ Reread(p)
      PROVE  StageInv'
  BY <1>5 DEF Arrive, Fetch, Reread
<1>6. ASSUME NEW p \in Procs, Store(p)
      PROVE  StageInv'
  BY <1>6 DEF Store
<1>7. CASE ReadBuckets \/ SetWatermark \/ AbortExport
  BY <1>7 DEF ReadBuckets, SetWatermark, AbortExport
<1>8. CASE Tick \/ UNCHANGED vars
  BY <1>8 DEF Tick, vars
<1> QED BY <1>1, <1>2, <1>3, <1>4, <1>5, <1>6, <1>7, <1>8 DEF Next, Step

LEMMA InvNext == Inv /\ [Next]_vars => Inv'
<1> QED BY TypeNext, WorkNext, StageNext DEF Inv

LEMMA Typed == Spec => []Inv
<1> QED BY InvInit, InvNext, PTL DEF Spec

-----------------------------------------------------------------------------
(* Nothing is lost *)

\* No read, no value and no version is lost in any step.
THEOREM NothingIsLost == Spec => NothingLost
<1> DEFINE Keeps ==
             /\ version' >= version
             /\ \A k \in DOMAIN reads :
                  /\ k \in DOMAIN reads'
                  /\ \A f \in Columns : reads[k][f] # NULL => reads'[k][f] # NULL
<1>1. Inv /\ [Next]_vars => [Keeps]_vars
  <2> SUFFICES ASSUME Inv, Next  PROVE Keeps
    OBVIOUS
  <2>1. ASSUME UNCHANGED <<version, reads>>
        PROVE  Keeps
    BY <2>1 DEF Inv, TypeInv
  <2>2. ASSUME NEW p \in Procs, Create(p)
        PROVE  Keeps
    <3>1. reads' = reads
      BY <2>2 DEF Create
    <3>2. version' = version \/ (version = 0 /\ version' \in {1, 2})
      BY <2>2, DailyAssumption DEF Create
    <3> QED BY <3>1, <3>2 DEF Inv, TypeInv
  <2>3. ASSUME NEW p \in Procs, Migrate(p)
        PROVE  Keeps
    BY <2>3, ReattributedType DEF Migrate, Inv, TypeInv
  <2>4. ASSUME NEW p \in Procs, Store(p)
        PROVE  Keeps
    <3>1. version' = version
      BY <2>4 DEF Store
    <3> QED BY <2>4, <3>1, StoreIs DEF Stored, Kept, Inv, TypeInv
  <2>5. ASSUME NEW p \in Procs,
               Open(p) \/ Close(p) \/ Crash(p) \/ Arrive(p) \/ Reread(p)
        PROVE  UNCHANGED <<version, reads>>
    BY <2>5 DEF Open, Close, Crash, Arrive, Fetch, Reread, fileVars
  <2>6. ASSUME ReadBuckets \/ SetWatermark \/ AbortExport \/ Tick
        PROVE  UNCHANGED <<version, reads>>
    BY <2>6 DEF ReadBuckets, SetWatermark, AbortExport, Tick, fileVars
  <2> QED BY <2>1, <2>2, <2>3, <2>4, <2>5, <2>6 DEF Next, Step
<1> QED BY <1>1, Typed, PTL DEF Spec, NothingLost

-----------------------------------------------------------------------------
(* The stored day *)

\* A row keeps the day of the read as it was first stored.  Until the end of the
\* read goes back to an earlier day, that day is not after the one the read is
\* drawn on, and it is that one until the end moves at all.
DayInv ==
  version = 2 =>
    \A k \in DOMAIN reads \ late : <<k, "back">> \notin moved =>
      /\ reads[k].day <= DayOf(k)
      /\ <<k, "on">> \notin moved => reads[k].day = DayOf(k)

LEMMA RowTypes ==
  ASSUME Inv, NEW k \in DOMAIN reads
  PROVE  k \in Int /\ reads[k] \in Row /\ reads[k].day \in Int /\ DayOf(k) \in Int
BY ReattributedType DEF Row

LEMMA DayInvNext == Inv /\ Inv' /\ DayInv /\ [Next]_vars => DayInv'
<1> SUFFICES ASSUME Inv, Inv', DayInv, [Next]_vars,
                    version' = 2, NEW k \in DOMAIN reads' \ late', <<k, "back">> \notin moved'
             PROVE  /\ reads'[k].day <= Day(reads', k)
                    /\ <<k, "on">> \notin moved' => reads'[k].day = Day(reads', k)
  BY DEF DayInv, DayOf
<1>1. CASE UNCHANGED <<version, reads, moved, late>>
  BY <1>1 DEF DayInv, DayOf
<1>2. ASSUME NEW p \in Procs, Create(p), version = 0
      PROVE  FALSE
  BY <1>2 DEF Create, Inv, StageInv
<1>3. ASSUME NEW p \in Procs, Migrate(p)
      PROVE  /\ reads'[k].day = Day(reads', k) /\ reads'[k].day \in Int
  <2>1. k \in DOMAIN reads /\ reads'[k].day = DayOf(k) /\ reads'[k].to = reads[k].to
    BY <1>3, ReattributedType DEF Migrate, Columns
  <2> QED BY <2>1, RowTypes DEF DayOf, Day
<1>4. ASSUME NEW p \in Procs, Store(p)
      PROVE  /\ reads'[k].day <= Day(reads', k)
             /\ <<k, "on">> \notin moved' => reads'[k].day = Day(reads', k)
  <2>0. /\ moved' = moved
             \cup {<<x, "on">> : x \in {j \in DOMAIN reads : Day(reads', j) > DayOf(j)}}
             \cup {<<x, "back">> : x \in {j \in DOMAIN reads : Day(reads', j) < DayOf(j)}}
        /\ late' = IF Code[p] < version THEN late \cup (DOMAIN reads' \ DOMAIN reads) ELSE late
        /\ Stored(p)
    BY <1>4, StoreIs DEF Store
  <2>1. version = 2
    BY <1>4 DEF Store
  <2>2. reads'[k].day \in Int /\ Day(reads', k) \in Int
    <3>1. reads' \in Tables /\ k \in DOMAIN reads'
      BY DEF Inv, TypeInv
    <3>2. k \in Int /\ reads'[k] \in Row
      BY <3>1, TableType
    <3>3. reads'[k].day \in Int /\ reads'[k].to \in Cells
      BY <3>2 DEF Row, Cells
    <3> QED BY <3>2, <3>3, DayType DEF Day
  <2>3. CASE k \in DOMAIN reads
    <3>1. reads'[k].day = reads[k].day /\ reads[k].day \in Int /\ DayOf(k) \in Int
      BY <2>0, <2>3, RowTypes DEF Stored, Kept
    <3>2. <<k, "back">> \notin moved /\ ~(Day(reads', k) < DayOf(k)) /\ k \notin late
      BY <2>0, <2>3
    <3>3. reads[k].day <= DayOf(k) /\ (<<k, "on">> \notin moved => reads[k].day = DayOf(k))
      BY <2>1, <2>3, <3>2 DEF DayInv
    <3>4. <<k, "on">> \notin moved' => <<k, "on">> \notin moved /\ ~(Day(reads', k) > DayOf(k))
      BY <2>0, <2>3
    <3> QED BY <2>2, <3>1, <3>2, <3>3, <3>4
  <2>4. CASE k \notin DOMAIN reads
    <3>1. PICK parsed \in Seq(Parsed) : Added(p, reads, reads', work[p].at, parsed)
      BY <2>0 DEF Stored
    <3>2. PICK i \in DOMAIN parsed :
            parsed[i].from = k /\ reads'[k] = Inserted(p, work[p].at, parsed[i])
      BY <2>4, <3>1 DEF Added
    <3>3. reads'[k].day = Attributed(p, parsed[i]) /\ reads'[k].to = parsed[i].to
      BY <3>2 DEF Inserted
    <3>4. Code[p] = 2
      BY <2>0, <2>1, <2>4, DailyAssumption
    <3>5. reads'[k].day = Day(reads', k)
      BY <3>2, <3>3, <3>4 DEF Attributed, Day
    <3> QED BY <2>2, <3>5
  <2> QED BY <2>3, <2>4
<1>5. ASSUME NEW p \in Procs,
             Open(p) \/ Close(p) \/ Crash(p) \/ Arrive(p) \/ Reread(p)
      PROVE  UNCHANGED <<version, reads, moved, late>>
  BY <1>5 DEF Open, Close, Crash, Arrive, Fetch, Reread, fileVars, historyVars
<1>6. ASSUME ReadBuckets \/ SetWatermark \/ AbortExport \/ Tick
      PROVE  UNCHANGED <<version, reads, moved, late>>
  BY <1>6 DEF ReadBuckets, SetWatermark, AbortExport, Tick, fileVars, historyVars
<1>7. ASSUME NEW p \in Procs, Create(p)
      PROVE  UNCHANGED <<version, reads, moved, late>> \/ version = 0
  BY <1>7 DEF Create, historyVars
<1>8. ASSUME UNCHANGED vars
      PROVE  UNCHANGED <<version, reads, moved, late>>
  BY <1>8 DEF vars, fileVars, historyVars
<1> QED BY <1>1, <1>2, <1>3, <1>4, <1>5, <1>6, <1>7, <1>8 DEF Next, Step

LEMMA DayInvAlways == Spec => []DayInv
<1>1. Init => DayInv
  BY DEF Init, DayInv
<1> QED BY <1>1, DayInvNext, Typed, PTL DEF Spec

\* In a migrated file the stored day is the day of the read, whichever process
\* created, migrated or filled the file, and in whichever order.
THEOREM DayIsStored == Spec => []StoredDay
<1>1. DayInv => StoredDay
  BY DEF DayInv, StoredDay
<1> QED BY <1>1, DayInvAlways, PTL

-----------------------------------------------------------------------------
(* The change feed *)

Touched(k) == reads[k].fetch > mark \/ reads[k].revised > mark

\* The stored day of such a read may be after the day it is drawn on.
Odd(k) == k \in late \/ <<k, "back">> \in moved

\* A table an export has read: its reads are still there, and no stored day is
\* after the day a read was drawn on then.
Base(t) ==
  /\ t \in Tables
  /\ DOMAIN t \subseteq DOMAIN reads
  /\ \A k \in DOMAIN t : Odd(k) \/ reads[k].day <= Day(t, k)

\* What is not touched since an export, and not hidden, is as it was exported.
FeedInv ==
  /\ exporting # NULL => Base(exporting)
  /\ exported # NULL =>
       /\ Base(exported)
       /\ \A k \in DOMAIN reads \ hidden : Touched(k) \/ Same(exported, k)

\* A table that was read stays a base while days are kept and nothing gets even.
LEMMA BaseStays ==
  ASSUME NEW t, Base(t), DOMAIN reads \subseteq DOMAIN reads',
         moved \subseteq moved', late \subseteq late',
         \A k \in DOMAIN reads : reads'[k].day = reads[k].day \/ k \in late'
  PROVE  Base(t)'
BY DEF Base, Odd, Tables

LEMMA FeedInvNext == Inv /\ Inv' /\ DayInv /\ FeedInv /\ [Next]_vars => FeedInv'
<1> SUFFICES ASSUME Inv, Inv', DayInv, FeedInv, [Next]_vars
             PROVE  FeedInv'
  OBVIOUS
<1>1. ASSUME UNCHANGED <<reads, mark, exporting, exported, historyVars>>
      PROVE  FeedInv'
  BY <1>1 DEF FeedInv, Base, Odd, Tables, Touched, Same, historyVars
<1>2. ASSUME NEW p \in Procs, Migrate(p)
      PROVE  FeedInv'
  <2>1. UNCHANGED <<exportVars, hidden>>
    BY <1>2 DEF Migrate
  <2>2. ASSUME version = 2  PROVE FeedInv'
    <3>1. /\ DOMAIN reads' = DOMAIN reads
          /\ moved \subseteq moved' /\ late \subseteq late'
          /\ \A k \in DOMAIN reads :
               /\ reads'[k].day = reads[k].day \/ k \in late'
               /\ \A f \in Columns : reads'[k][f] = reads[k][f]
               /\ reads'[k].fetch = reads[k].fetch /\ reads'[k].revised = reads[k].revised
      BY <1>2, <2>2, ReattributedType DEF Migrate
    <3>2. ASSUME NEW t, Base(t)  PROVE Base(t)'
      BY <3>1, <3>2, BaseStays
    <3>3. ASSUME NEW t, NEW k \in DOMAIN reads
          PROVE  /\ Same(t, k) => Same(t, k)'
                 /\ Touched(k) => Touched(k)'
      BY <2>1, <3>1 DEF Same, Touched, exportVars
    <3>4. exporting # NULL => Base(exporting)'
      BY <2>1, <3>2 DEF FeedInv, Base, Odd, exportVars
    <3>5. exported # NULL => Base(exported)'
      BY <2>1, <3>2 DEF FeedInv, Base, Odd, exportVars
    <3>6. exported # NULL =>
            \A k \in DOMAIN reads \ hidden : Touched(k)' \/ Same(exported, k)'
      BY <2>1, <3>3 DEF FeedInv, Same, exportVars
    <3> HIDE DEF FeedInv
    <3> QED BY <2>1, <3>1, <3>4, <3>5, <3>6 DEF FeedInv, exportVars, Base, Same, Odd
  <2>3. ASSUME version # 2  PROVE FeedInv'
    BY <2>1, <2>3 DEF FeedInv, Inv, StageInv, exportVars
  <2> QED BY <2>2, <2>3
<1>3. ASSUME NEW p \in Procs, Store(p)
      PROVE  FeedInv'
  <2>1. /\ UNCHANGED exportVars /\ moved \subseteq moved' /\ late \subseteq late'
        /\ hidden' = IF exported = NULL THEN {} ELSE Hidden(p)
    BY <1>3 DEF Store
  <2>2. PICK parsed \in Seq(Parsed) :
          Kept(reads, reads', stamp[p]) /\ Added(p, reads, reads', work[p].at, parsed)
    BY <1>3, StoreIs DEF Stored
  <2>3. /\ DOMAIN reads \subseteq DOMAIN reads'
        /\ \A k \in DOMAIN reads : reads'[k].day = reads[k].day
    BY <2>2 DEF Kept
  <2>4. ASSUME NEW t, Base(t)  PROVE Base(t)'
    BY <2>1, <2>3, <2>4, BaseStays
  <2>5. ASSUME exported # NULL, NEW k \in DOMAIN reads' \ hidden'
        PROVE  Touched(k)' \/ Same(exported, k)'
    <3>1. mark' = mark /\ exported' = exported /\ hidden' = Hidden(p)
      BY <2>1, <2>5 DEF exportVars
    <3>2. CASE k \notin DOMAIN reads
      <4>1. ~(work[p].at <= mark)
        BY <2>5, <3>1, <3>2 DEF Hidden
      <4>2. reads'[k].fetch = work[p].at
        BY <2>2, <2>5, <3>2 DEF Added, Inserted
      <4>3. work[p].at \in Int /\ mark \in Int
        BY <1>3 DEF Store, Inv, TypeInv, WorkInv, Genuine, Answers
      <4> QED BY <3>1, <4>1, <4>2, <4>3 DEF Touched
    <3>3. CASE k \in DOMAIN reads /\ reads'[k] # reads[k]
      <4>1. ~(stamp[p] <= mark)
        BY <2>5, <3>1, <3>3 DEF Hidden
      <4>2. reads'[k].revised >= stamp[p]
        BY <2>2, <3>3 DEF Kept
      <4>3. stamp[p] \in Int /\ mark \in Int /\ reads'[k].revised \in Int
        <5>1. reads'[k] \in Row
          BY <2>5, TableType DEF Inv, TypeInv
        <5> QED BY <5>1 DEF Inv, TypeInv, Row
      <4> QED BY <3>1, <4>1, <4>2, <4>3 DEF Touched
    <3>4. CASE k \in DOMAIN reads /\ reads'[k] = reads[k]
      <4>1. k \notin hidden
        BY <2>5, <3>1, <3>4 DEF Hidden
      <4>2. Touched(k) \/ Same(exported, k)
        BY <2>5, <3>4, <4>1 DEF FeedInv
      <4> QED BY <3>1, <3>4, <4>2 DEF Touched, Same
    <3> QED BY <3>2, <3>3, <3>4
  <2>6. exporting # NULL => Base(exporting)'
    BY <2>1, <2>4 DEF FeedInv, Base, Odd, exportVars
  <2>7. exported # NULL => Base(exported)'
    BY <2>1, <2>4 DEF FeedInv, Base, Odd, exportVars
  <2> QED BY <2>1, <2>5, <2>6, <2>7 DEF FeedInv, exportVars, Base, Same, Odd
<1>4. CASE ReadBuckets
  <2>1. /\ exporting' = reads /\ version = 2
        /\ UNCHANGED <<reads, mark, exported, historyVars>>
    BY <1>4 DEF ReadBuckets, fileVars
  <2>2. \A k \in DOMAIN reads : Odd(k) \/ reads[k].day <= Day(reads, k)
    BY <2>1 DEF DayInv, DayOf, Odd
  <2>3. Base(exporting)'
    BY <2>1, <2>2 DEF Base, Odd, Inv, TypeInv, historyVars
  <2> QED BY <2>1, <2>3 DEF FeedInv, Base, Odd, Tables, Touched, Same, historyVars
<1>5. CASE SetWatermark
  <2>1. /\ exporting # NULL /\ exporting' = NULL /\ exported' = exporting
        /\ reads' = reads /\ UNCHANGED <<moved, late>>
        /\ hidden' = {k \in DOMAIN reads : ~Same(exporting, k)}
    BY <1>5 DEF SetWatermark, fileVars
  <2>2. Base(exported)'
    BY <2>1 DEF FeedInv, Base, Odd, Tables
  <2>3. \A k \in DOMAIN reads' \ hidden' : Same(exported, k)'
    BY <2>1 DEF Same
  <2> QED BY <2>1, <2>2, <2>3 DEF FeedInv
<1>6. CASE AbortExport
  <2>1. exporting' = NULL /\ UNCHANGED <<reads, mark, exported, historyVars>>
    BY <1>6 DEF AbortExport, fileVars
  <2> QED BY <2>1 DEF FeedInv, Base, Odd, Tables, Touched, Same, historyVars
<1>7. ASSUME NEW p \in Procs,
             Open(p) \/ Close(p) \/ Crash(p) \/ Create(p) \/ Arrive(p) \/ Reread(p)
      PROVE  UNCHANGED <<reads, mark, exporting, exported, historyVars>>
  BY <1>7 DEF Open, Close, Crash, Create, Arrive, Fetch, Reread, fileVars, exportVars
<1>8. ASSUME Tick \/ UNCHANGED vars
      PROVE  UNCHANGED <<reads, mark, exporting, exported, historyVars>>
  BY <1>8 DEF Tick, vars, fileVars, exportVars
<1> QED BY <1>1, <1>2, <1>3, <1>4, <1>5, <1>6, <1>7, <1>8 DEF Next, Step

\* For every read that is new or changed since an export, the feed names a day no
\* later than the read is drawn on, now and then, with the exceptions FeedNamesDays
\* states.
THEOREM FeedNamesThem == Spec => []FeedNamesDays
<1>1. Init => FeedInv
  BY DEF Init, FeedInv
<1>2. Inv /\ DayInv /\ FeedInv => FeedNamesDays
  <2> SUFFICES ASSUME Inv, DayInv, FeedInv, exported # NULL, NEW k \in Outdated
               PROVE  \E d \in daily_change_days_since(mark) :
                        d <= DayOf(k) /\ (k \in DOMAIN exported => d <= Day(exported, k))
    BY DEF FeedNamesDays
  <2>1. k \in DOMAIN reads \ hidden /\ ~Odd(k) /\ ~Same(exported, k)
    BY DEF Outdated, Unsure, Odd
  <2>2. Touched(k) /\ Base(exported) /\ version = 2
    BY <2>1 DEF FeedInv, Inv, StageInv
  <2>3. reads[k].day \in daily_change_days_since(mark)
    BY <2>1, <2>2 DEF daily_change_days_since, Touched
  <2>4. reads[k].day <= DayOf(k)
    BY <2>1, <2>2 DEF DayInv, Odd
  <2>5. k \in DOMAIN exported => reads[k].day <= Day(exported, k)
    BY <2>1, <2>2 DEF Base
  <2> QED BY <2>3, <2>4, <2>5
<1> QED BY <1>1, <1>2, FeedInvNext, DayInvAlways, Typed, PTL DEF Spec

-----------------------------------------------------------------------------
(* The groups of the consistency report *)

\* A read that opens a group.
Host(k) ==
  /\ k \in DOMAIN reads /\ ~Placeholder(reads, k)
  /\ reads[k].to # NULL /\ reads[k].delivered # NULL

\* Failed reads before x: only such follow up to x, and the last group before them
\* has ended.
Waiting(x) ==
  {p \in DOMAIN reads :
     /\ p < x /\ Placeholder(reads, p)
     /\ \A j \in DOMAIN reads : p < j /\ j < x => Placeholder(reads, j)
     /\ \A h \in DOMAIN reads :
          Host(h) /\ h < p /\ (\A j \in DOMAIN reads : h < j /\ j < p => ~Host(j))
            => reads[h].to <= p}

\* Failed reads in the window of host k.
Caught(k) ==
  {p \in DOMAIN reads :
     /\ k < p /\ p < reads[k].to /\ Placeholder(reads, p)
     /\ \A j \in DOMAIN reads : k < j /\ j < p => ~Host(j)}

Accs ==
  [groups  : Seq([read : DOMAIN reads, window_from : Int, window_to : Int,
                  placeholders : SUBSET DOMAIN reads]),
   pending : SUBSET DOMAIN reads]

\* The group of a host once the reads before x are grouped.
GroupOf(g, x) ==
  /\ Host(g.read) /\ g.read < x
  /\ g.window_from = Min({g.read} \cup Waiting(g.read))
  /\ g.window_to = reads[g.read].to
  /\ g.placeholders = Waiting(g.read) \cup {p \in Caught(g.read) : p < x}

\* The loop has gone through the reads before x.
Grouped(acc, x) ==
  /\ acc.pending = Waiting(x)
  /\ \A i \in 1 .. Len(acc.groups) :
       /\ GroupOf(acc.groups[i], x)
       /\ i # Len(acc.groups) => acc.groups[i].read < acc.groups[Len(acc.groups)].read
  /\ \A h \in DOMAIN reads : Host(h) /\ h < x =>
       Len(acc.groups) # 0 /\ h <= acc.groups[Len(acc.groups)].read

LEMMA ReadTypes ==
  ASSUME reads \in Tables, NEW k \in DOMAIN reads
  PROVE  k \in Int /\ reads[k].to \in Cells /\ reads[k].delivered \in Cells
<1>1. k \in Int /\ reads[k] \in Row
  BY TableType
<1> QED BY <1>1 DEF Row, Cells

\* The four ways of one turn of the loop.
LEMMA GroupNextIs ==
  ASSUME reads \in Tables, NEW acc \in Accs, NEW y \in DOMAIN reads
  PROVE  LET n    == Len(acc.groups)
             next == GroupNext(acc, y)
         IN  /\ n \in Nat
             /\ \/ /\ Placeholder(reads, y) /\ n # 0
                   /\ acc.groups[n].read < y /\ y < acc.groups[n].window_to
                   /\ next.pending = acc.pending /\ Len(next.groups) = n
                   /\ \A i \in 1 .. n : i # n => next.groups[i] = acc.groups[i]
                   /\ next.groups[n] = [acc.groups[n] EXCEPT !.placeholders = @ \cup {y}]
                \/ /\ Placeholder(reads, y)
                   /\ n = 0 \/ ~(acc.groups[n].read < y /\ y < acc.groups[n].window_to)
                   /\ next.pending = acc.pending \cup {y} /\ next.groups = acc.groups
                \/ /\ ~Placeholder(reads, y) /\ ~Host(y)
                   /\ next.pending = {} /\ next.groups = acc.groups
                \/ /\ Host(y)
                   /\ next.pending = {} /\ Len(next.groups) = n + 1
                   /\ \A i \in 1 .. n : next.groups[i] = acc.groups[i]
                   /\ next.groups[n + 1] = NewGroup(y, acc.pending)
             /\ next \in Accs
<1> DEFINE T == [read : DOMAIN reads, window_from : Int, window_to : Int,
                 placeholders : SUBSET DOMAIN reads]
           n == Len(acc.groups)
           host == Last(acc.groups)
           next == GroupNext(acc, y)
<1>1. /\ acc.groups \in Seq(T) /\ acc.pending \subseteq DOMAIN reads
      /\ n \in Nat /\ DOMAIN acc.groups = 1 .. n
      /\ acc = [groups |-> acc.groups, pending |-> acc.pending]
      /\ \A i \in 1 .. n : acc.groups[i] \in T
      /\ (acc.groups # <<>>) <=> n # 0
  <2>1. /\ acc.groups \in Seq(T) /\ acc.pending \subseteq DOMAIN reads
        /\ acc = [groups |-> acc.groups, pending |-> acc.pending]
    BY DEF Accs
  <2> HIDE DEF T
  <2>2. PICK q \in Seq(T) : q = acc.groups
    BY <2>1
  <2>3. Len(q) \in Nat /\ DOMAIN q = 1 .. Len(q) /\ \A i \in 1 .. Len(q) : q[i] \in T
    BY LenProperties, ElementOfSeq
  <2>4. (q # <<>>) <=> Len(q) # 0
    BY EmptySeq
  <2> QED BY <2>1, <2>2, <2>3, <2>4
<1>2. host = acc.groups[n]
  BY DEF Last
<1> HIDE DEF T, host
<1>3. CASE Placeholder(reads, y) /\ n # 0 /\ host.read < y /\ y < host.window_to
  <2> DEFINE new == [acc.groups[n] EXCEPT !.placeholders = @ \cup {y}]
  <2>1. next = [acc EXCEPT !.groups[n].placeholders = @ \cup {y}]
    BY <1>1, <1>3 DEF GroupNext, host
  <2>2. next = [groups |-> [acc.groups EXCEPT ![n] = new], pending |-> acc.pending]
    BY <1>1, <2>1
  <2>3. new \in T
    <3>1. n \in 1 .. n
      BY <1>1, <1>3
    <3>2. acc.groups[n] \in T
      BY <1>1, <3>1
    <3> QED BY <3>2 DEF T
  <2> HIDE DEF new
  <2>4. [acc.groups EXCEPT ![n] = new] \in Seq(T)
    <3>1. n \in 1 .. Len(acc.groups)
      BY <1>1, <1>3
    <3> QED BY <1>1, <2>3, <3>1, ExceptSeq
  <2>5. next \in Accs
    BY <1>1, <2>2, <2>4 DEF Accs, T
  <2>6. /\ next.pending = acc.pending /\ Len(next.groups) = n
        /\ \A i \in 1 .. n : i # n => next.groups[i] = acc.groups[i]
        /\ next.groups[n] = new
    BY <1>1, <1>3, <2>2
  <2> QED BY <1>1, <1>2, <1>3, <2>5, <2>6 DEF new
<1>4. CASE Placeholder(reads, y) /\ ~(n # 0 /\ host.read < y /\ y < host.window_to)
  <2>1. next = [acc EXCEPT !.pending = @ \cup {y}]
    BY <1>1, <1>4 DEF GroupNext, host
  <2>2. next.pending = acc.pending \cup {y} /\ next.groups = acc.groups /\ next \in Accs
    BY <1>1, <2>1 DEF Accs, T
  <2> QED BY <1>1, <1>2, <1>4, <2>2
<1>5. CASE ~Placeholder(reads, y) /\ ~Host(y)
  <2>1. next = [acc EXCEPT !.pending = {}]
    BY <1>1, <1>5 DEF GroupNext, Host
  <2>2. next.pending = {} /\ next.groups = acc.groups /\ next \in Accs
    BY <1>1, <2>1 DEF Accs, T
  <2> QED BY <1>1, <1>5, <2>2
<1>6. CASE Host(y)
  <2> DEFINE new == NewGroup(y, acc.pending)
  <2>1. next = [groups |-> Append(acc.groups, new), pending |-> {}]
    BY <1>1, <1>6 DEF GroupNext, Host
  <2>2. new \in T
    <3>1. y \in Int /\ reads[y].to \in Int
      BY <1>6, ReadTypes DEF Host, Cells
    <3>2. {y} \cup acc.pending \subseteq Int /\ IsFiniteSet({y} \cup acc.pending)
      <4>1. DOMAIN reads \subseteq Int /\ IsFiniteSet(DOMAIN reads)
        BY TableType
      <4> QED BY <1>1, <3>1, <4>1, FS_Subset
    <3>3. Min({y} \cup acc.pending) \in Int
      <4> DEFINE S == {y} \cup acc.pending
      <4>1. S # {} /\ S \subseteq Int /\ IsFiniteSet(S)
        BY <3>2
      <4> HIDE DEF S
      <4>2. Min(S) \in Int
        BY <4>1, Extremes
      <4> QED BY <4>2 DEF S
    <3> QED BY <1>1, <3>1, <3>3 DEF NewGroup, T
  <2> HIDE DEF new
  <2>3. next \in Accs
    BY <1>1, <2>1, <2>2, AppendProperties DEF Accs, T
  <2>4. /\ next.pending = {} /\ Len(next.groups) = n + 1
        /\ \A i \in 1 .. n : next.groups[i] = acc.groups[i]
        /\ next.groups[n + 1] = new
    BY <1>1, <2>1, <2>2, AppendProperties
  <2> QED BY <1>1, <1>6, <2>3, <2>4 DEF new
<1> QED BY <1>2, <1>3, <1>4, <1>5, <1>6 DEF Host

\* What waits, and what is caught up with, when the loop moves on from y to x.
LEMMA WaitingNext ==
  ASSUME reads \in Tables, NEW y \in DOMAIN reads, NEW x \in Int, y < x,
         \A j \in DOMAIN reads : ~(y < j /\ j < x)
  PROVE  /\ ~Placeholder(reads, y) => Waiting(x) = {}
         /\ Placeholder(reads, y) =>
              Waiting(x) \ {y} = Waiting(y) /\ y \notin Waiting(y)
         /\ y \in Waiting(x) <=>
              /\ Placeholder(reads, y)
              /\ \A h \in DOMAIN reads :
                   Host(h) /\ h < y /\ (\A j \in DOMAIN reads : h < j /\ j < y => ~Host(j))
                     => reads[h].to <= y
<1>1. \A j \in DOMAIN reads : j \in Int
  BY ReadTypes
<1>2. \A j \in DOMAIN reads : j < x <=> j < y \/ j = y
  BY <1>1
<1>3. ~Placeholder(reads, y) => Waiting(x) = {}
  BY <1>1, <1>2 DEF Waiting
<1>4. y \notin Waiting(y)
  BY <1>1 DEF Waiting
<1>5. ASSUME Placeholder(reads, y), NEW p \in DOMAIN reads, p # y
      PROVE  p \in Waiting(x) <=> p \in Waiting(y)
  BY <1>1, <1>2, <1>5 DEF Waiting
<1>6. y \in Waiting(x) <=>
        /\ Placeholder(reads, y)
        /\ \A h \in DOMAIN reads :
             Host(h) /\ h < y /\ (\A j \in DOMAIN reads : h < j /\ j < y => ~Host(j))
               => reads[h].to <= y
  BY <1>1, <1>2 DEF Waiting
<1>7. Waiting(x) \subseteq DOMAIN reads /\ Waiting(y) \subseteq DOMAIN reads
  BY DEF Waiting
<1> QED BY <1>3, <1>4, <1>5, <1>6, <1>7

\* The loop takes the next read.
LEMMA GroupStep ==
  ASSUME reads \in Tables, NEW acc \in Accs, NEW y \in DOMAIN reads, Grouped(acc, y),
         NEW x \in Int, y < x, \A j \in DOMAIN reads : ~(y < j /\ j < x)
  PROVE  Grouped(GroupNext(acc, y), x)
<1> DEFINE n == Len(acc.groups)
           next == GroupNext(acc, y)
<1>1. \A j \in DOMAIN reads : j \in Int /\ (j < x <=> j < y \/ j = y)
  BY ReadTypes
<1>2. n \in Nat
  BY GroupNextIs
<1>3. \A i \in 1 .. n : GroupOf(acc.groups[i], y) /\ (i # n => acc.groups[i].read < acc.groups[n].read)
  BY DEF Grouped
<1>4. \A h \in DOMAIN reads : Host(h) /\ h < y => n # 0 /\ h <= acc.groups[n].read
  BY DEF Grouped
<1>5. acc.pending = Waiting(y)
  BY DEF Grouped
<1>6. \A i \in 1 .. n : Host(acc.groups[i].read) /\ acc.groups[i].read < y
                        /\ acc.groups[i].read \in DOMAIN reads
                        /\ acc.groups[i].window_to = reads[acc.groups[i].read].to
  BY <1>3 DEF GroupOf, Host
\* the host before y
<1>7. ASSUME NEW h \in DOMAIN reads, Host(h), h < y
      PROVE  (\A j \in DOMAIN reads : h < j /\ j < y => ~Host(j)) <=> h = acc.groups[n].read
  <2>1. n \in 1 .. n
    BY <1>2, <1>4, <1>7
  <2>2. /\ acc.groups[n].read \in DOMAIN reads /\ Host(acc.groups[n].read)
        /\ acc.groups[n].read < y
    BY <1>6, <2>1
  <2>3. h <= acc.groups[n].read /\ h \in Int /\ acc.groups[n].read \in Int
    BY <1>1, <1>4, <1>7, <2>2
  <2>4. CASE h = acc.groups[n].read
    <3>1. ASSUME NEW j \in DOMAIN reads, h < j, j < y, Host(j)  PROVE FALSE
      <4>1. j <= h /\ j \in Int
        BY <1>1, <1>4, <2>4, <3>1
      <4> QED BY <2>3, <3>1, <4>1
    <3> QED BY <2>4, <3>1
  <2>5. CASE h # acc.groups[n].read
    <3>1. h < acc.groups[n].read
      BY <2>3, <2>5
    <3> QED BY <2>2, <2>5, <3>1
  <2> QED BY <2>4, <2>5
<1>8. \A i \in 1 .. n : y \in Caught(acc.groups[i].read) <=>
        Placeholder(reads, y) /\ i = n /\ y < acc.groups[n].window_to
  <2> SUFFICES ASSUME NEW i \in 1 .. n
               PROVE  y \in Caught(acc.groups[i].read) <=>
                        Placeholder(reads, y) /\ i = n /\ y < acc.groups[n].window_to
    OBVIOUS
  <2>1. /\ Host(acc.groups[i].read) /\ acc.groups[i].read < y
        /\ acc.groups[i].read \in DOMAIN reads
        /\ acc.groups[i].window_to = reads[acc.groups[i].read].to
    BY <1>6
  <2>2. (\A j \in DOMAIN reads : acc.groups[i].read < j /\ j < y => ~Host(j))
          <=> acc.groups[i].read = acc.groups[n].read
    BY <1>7, <2>1
  <2>3. acc.groups[i].read = acc.groups[n].read <=> i = n
    <3>1. acc.groups[i].read \in Int /\ (i # n => acc.groups[i].read < acc.groups[n].read)
      BY <1>1, <1>3, <2>1
    <3>2. n \in 1 .. n
      BY <1>2
    <3>3. acc.groups[n].read \in Int
      BY <1>1, <1>6, <3>2
    <3> QED BY <3>1, <3>3
  <2> QED BY <2>1, <2>2, <2>3 DEF Caught
\* the groups there were, but for the failed read that the last one catches up with
<1>9. ASSUME NEW i \in 1 .. n, y \notin Caught(acc.groups[i].read)
      PROVE  GroupOf(acc.groups[i], x)
  <2>1. \A p \in Caught(acc.groups[i].read) : p \in DOMAIN reads /\ p # y
    BY <1>9 DEF Caught
  <2>2. {p \in Caught(acc.groups[i].read) : p < x} = {p \in Caught(acc.groups[i].read) : p < y}
    BY <1>1, <2>1
  <2>3. GroupOf(acc.groups[i], y) /\ acc.groups[i].read \in DOMAIN reads
    BY <1>3, <1>6
  <2> QED BY <1>1, <2>2, <2>3 DEF GroupOf
<1>10. \A h \in DOMAIN reads : Host(h) /\ h < x /\ h # y => n # 0 /\ h <= acc.groups[n].read
  BY <1>1, <1>4
<1> HIDE DEF n, next
<1>11. CASE /\ Placeholder(reads, y) /\ n # 0
            /\ acc.groups[n].read < y /\ y < acc.groups[n].window_to
            /\ next.pending = acc.pending /\ Len(next.groups) = n
            /\ \A i \in 1 .. n : i # n => next.groups[i] = acc.groups[i]
            /\ next.groups[n] = [acc.groups[n] EXCEPT !.placeholders = @ \cup {y}]
  <2>1. n \in 1 .. n
    BY <1>2, <1>11
  <2>2. acc.groups[n] \in [read : DOMAIN reads, window_from : Int, window_to : Int,
                           placeholders : SUBSET DOMAIN reads]
    BY <2>1, ElementOfSeq DEF Accs, n
  <2>3. /\ next.groups[n].read = acc.groups[n].read
        /\ next.groups[n].window_from = acc.groups[n].window_from
        /\ next.groups[n].window_to = acc.groups[n].window_to
        /\ next.groups[n].placeholders = acc.groups[n].placeholders \cup {y}
    BY <1>11, <2>2
  <2>4. Waiting(x) = Waiting(y)
    <3>1. y \notin Waiting(x)
      <4>1. acc.groups[n].read \in DOMAIN reads /\ Host(acc.groups[n].read)
            /\ acc.groups[n].window_to = reads[acc.groups[n].read].to
        BY <1>6, <2>1
      <4>2. \A j \in DOMAIN reads : acc.groups[n].read < j /\ j < y => ~Host(j)
        BY <1>7, <1>11, <4>1
      <4>3. ~(reads[acc.groups[n].read].to <= y)
        <5>1. acc.groups[n].window_to \in Int /\ y \in Int
          BY <1>1, <2>2
        <5> QED BY <1>11, <4>1, <5>1
      <4> QED BY <1>11, <4>1, <4>2, <4>3, WaitingNext
    <3>2. Waiting(x) \ {y} = Waiting(y)
      BY <1>11, WaitingNext
    <3> QED BY <3>1, <3>2
  <2>5. GroupOf(next.groups[n], x)
    <3>1. y \in Caught(acc.groups[n].read)
      BY <1>8, <1>11, <2>1
    <3>2. {p \in Caught(acc.groups[n].read) : p < x}
            = {p \in Caught(acc.groups[n].read) : p < y} \cup {y}
      <4>1. Caught(acc.groups[n].read) \subseteq DOMAIN reads
        BY DEF Caught
      <4> QED BY <1>1, <3>1, <4>1
    <3>3. GroupOf(acc.groups[n], y) /\ acc.groups[n].read \in DOMAIN reads
      BY <1>3, <1>6, <2>1
    <3>4. acc.groups[n].read < x
      BY <1>1, <1>11, <3>3
    <3> QED BY <2>3, <3>2, <3>3, <3>4 DEF GroupOf
  <2>6. ASSUME NEW i \in 1 .. n
        PROVE  GroupOf(next.groups[i], x) /\ (i # n => next.groups[i].read < next.groups[n].read)
    <3>1. CASE i = n
      BY <2>5, <3>1
    <3>2. CASE i # n
      BY <1>3, <1>8, <1>9, <1>11, <2>3, <3>2
    <3> QED BY <3>1, <3>2
  <2>7. ~Host(y)
    BY <1>11 DEF Host
  <2> QED BY <1>5, <1>10, <1>11, <2>3, <2>4, <2>6, <2>7 DEF Grouped, next
<1>12. CASE /\ Placeholder(reads, y)
            /\ n = 0 \/ ~(acc.groups[n].read < y /\ y < acc.groups[n].window_to)
            /\ next.pending = acc.pending \cup {y} /\ next.groups = acc.groups
  <2>1. n # 0 => n \in 1 .. n
    BY <1>2
  <2>2. y \in Waiting(x)
    <3>1. ASSUME NEW h \in DOMAIN reads, Host(h), h < y,
                 \A j \in DOMAIN reads : h < j /\ j < y => ~Host(j)
          PROVE  reads[h].to <= y
      <4>1. n # 0 /\ h = acc.groups[n].read
        BY <1>4, <1>7, <3>1
      <4>2. acc.groups[n].window_to = reads[h].to /\ acc.groups[n].read < y
        BY <1>6, <2>1, <4>1
      <4>3. reads[h].to \in Int /\ y \in Int
        BY <1>1, <3>1, ReadTypes DEF Host, Cells
      <4> QED BY <1>12, <4>1, <4>2, <4>3
    <3> QED BY <1>12, <3>1, WaitingNext
  <2>3. next.pending = Waiting(x)
    BY <1>5, <1>12, <2>2, WaitingNext
  <2>4. \A i \in 1 .. n : GroupOf(next.groups[i], x)
    <3>1. ASSUME NEW i \in 1 .. n  PROVE y \notin Caught(acc.groups[i].read)
      <4>1. n # 0 /\ n \in 1 .. n
        BY <1>2
      <4> QED BY <1>6, <1>8, <1>12, <4>1
    <3> QED BY <1>9, <1>12, <3>1
  <2>5. ~Host(y) /\ Len(next.groups) = n
    BY <1>12 DEF Host, n
  <2> QED BY <1>3, <1>10, <1>12, <2>3, <2>4, <2>5 DEF Grouped, next
<1>13. CASE /\ ~Placeholder(reads, y) /\ ~Host(y)
            /\ next.pending = {} /\ next.groups = acc.groups
  <2>1. Len(next.groups) = n /\ next.pending = Waiting(x)
    BY <1>13, WaitingNext DEF n
  <2>2. \A i \in 1 .. n : GroupOf(next.groups[i], x)
    BY <1>8, <1>9, <1>13
  <2> QED BY <1>3, <1>10, <1>13, <2>1, <2>2 DEF Grouped, next
<1>14. CASE /\ Host(y)
            /\ next.pending = {} /\ Len(next.groups) = n + 1
            /\ \A i \in 1 .. n : next.groups[i] = acc.groups[i]
            /\ next.groups[n + 1] = NewGroup(y, acc.pending)
  <2>1. ~Placeholder(reads, y)
    BY <1>14 DEF Host
  <2>2. next.pending = Waiting(x)
    BY <1>14, <2>1, WaitingNext
  <2>3. /\ next.groups[n + 1].read = y
        /\ next.groups[n + 1].window_from = Min({y} \cup Waiting(y))
        /\ next.groups[n + 1].window_to = reads[y].to
        /\ next.groups[n + 1].placeholders = Waiting(y)
    BY <1>5, <1>14 DEF NewGroup
  <2>4. GroupOf(next.groups[n + 1], x)
    <3>1. {p \in Caught(y) : p < x} = {}
      BY <1>1 DEF Caught
    <3> QED BY <1>14, <2>3, <3>1 DEF GroupOf
  <2>5. ASSUME NEW i \in 1 .. n + 1
        PROVE  GroupOf(next.groups[i], x) /\ (i # n + 1 => next.groups[i].read < next.groups[n + 1].read)
    <3>1. CASE i = n + 1
      BY <2>4, <3>1
    <3>2. CASE i # n + 1
      <4>1. i \in 1 .. n
        BY <1>2, <3>2
      <4> QED BY <1>6, <1>8, <1>9, <1>14, <2>1, <2>3, <4>1
    <3> QED BY <3>1, <3>2
  <2>6. ASSUME NEW h \in DOMAIN reads, Host(h), h < x
        PROVE  n + 1 # 0 /\ h <= next.groups[n + 1].read
    <3>1. h \in Int /\ y \in Int
      BY <1>1
    <3> QED BY <1>1, <1>2, <2>3, <2>6, <3>1
  <2> QED BY <1>14, <2>2, <2>5, <2>6 DEF Grouped, next
<1> QED BY <1>11, <1>12, <1>13, <1>14, GroupNextIs DEF n, next

\* The values of the fold behind Groups.
LEMMA GroupLoop ==
  ASSUME reads \in Tables
  PROVE  \E iter :
           /\ Groups = iter[DOMAIN reads].groups
           /\ \A s \in SUBSET DOMAIN reads :
                /\ iter[s] \in Accs
                /\ s = {} => iter[s] = [groups |-> <<>>, pending |-> {}]
                /\ s # {} => Max(s) \in s /\ iter[s] = GroupNext(iter[s \ {Max(s)}], Max(s))
<1> DEFINE D == DOMAIN reads
           base == [groups |-> <<>>, pending |-> {}]
           op(k, acc) == GroupNext(acc, k)
           F == [x \in D \X Accs |-> op(x[1], x[2])]
           Solves(h) ==
             h = [s \in SUBSET D |-> IF s = {} THEN base ELSE op(Max(s), h[s \ {Max(s)}])]
           iter == CHOOSE h : Solves(h)
<1>1. Groups = iter[D].groups
  BY DEF Groups, MapThenFoldSet
<1>2. D \subseteq Int /\ IsFiniteSet(D)
  BY TableType
<1>3. base \in Accs
  BY EmptySeq DEF Accs
<1>4. F \in [D \X Accs -> Accs]
  BY GroupNextIs
<1> HIDE DEF D, base, op, iter
<1>5. PICK g \in [SUBSET D -> Accs] :
        \A s \in SUBSET D :
          /\ g[s] = IF s = {} THEN base ELSE F[<<Max(s), g[s \ {Max(s)}]>>]
          /\ s # {} => Max(s) \in s
  <2> HIDE DEF F
  <2> QED BY <1>2, <1>3, <1>4, FoldDefined
<1>6. ASSUME NEW s \in SUBSET D, s # {}
      PROVE  F[<<Max(s), g[s \ {Max(s)}]>>] = op(Max(s), g[s \ {Max(s)}])
  <2>1. Max(s) \in D /\ g[s \ {Max(s)}] \in Accs
    BY <1>5, <1>6
  <2> QED BY <2>1
<1> HIDE DEF F
<1>7. Solves(g)
  BY <1>5, <1>6
<1>8. Solves(iter)
  <2> HIDE DEF Solves
  <2> QED BY <1>7 DEF iter
<1>9. \A s \in SUBSET D :
        iter[s] = IF s = {} THEN base ELSE op(Max(s), iter[s \ {Max(s)}])
  BY <1>8
<1> DEFINE G == {s \in SUBSET D : iter[s] = g[s]}
<1>10. ASSUME NEW s \in SUBSET D, \A x \in s : s \ {x} \in G  PROVE s \in G
  <2>1. CASE s = {}
    BY <1>5, <1>9, <2>1
  <2>2. CASE s # {}
    <3>1. Max(s) \in s /\ g[s] = op(Max(s), g[s \ {Max(s)}])
      BY <1>5, <1>6, <2>2
    <3>2. iter[s] = op(Max(s), iter[s \ {Max(s)}])
      BY <1>9, <2>2
    <3>3. iter[s \ {Max(s)}] = g[s \ {Max(s)}]
      BY <1>10, <3>1
    <3> QED BY <3>1, <3>2, <3>3
  <2> QED BY <2>1, <2>2
<1>11. \A s \in SUBSET D : s \in G
  <2> HIDE DEF G
  <2> QED BY <1>2, <1>10, Shrink
<1>12. \A s \in SUBSET D :
         /\ iter[s] \in Accs
         /\ s = {} => iter[s] = base
         /\ s # {} => Max(s) \in s /\ iter[s] = op(Max(s), iter[s \ {Max(s)}])
  BY <1>5, <1>9, <1>11
<1> QED BY <1>1, <1>12 DEF D, base, op

\* The report has groups of hosts only: each begins with the failed reads that
\* wait for it and holds those it catches up with.
LEMMA GroupsAre ==
  ASSUME reads \in Tables, NEW g \in ToSet(Groups)
  PROVE  /\ Host(g.read)
         /\ g.window_from = Min({g.read} \cup Waiting(g.read))
         /\ g.window_to = reads[g.read].to
         /\ g.placeholders = Waiting(g.read) \cup Caught(g.read)
<1> DEFINE D == DOMAIN reads
<1>1. PICK iter :
        /\ Groups = iter[D].groups
        /\ \A s \in SUBSET D :
             /\ iter[s] \in Accs
             /\ s = {} => iter[s] = [groups |-> <<>>, pending |-> {}]
             /\ s # {} => Max(s) \in s /\ iter[s] = GroupNext(iter[s \ {Max(s)}], Max(s))
  BY GroupLoop
<1>2. D \subseteq Int /\ IsFiniteSet(D)
  BY TableType
<1>3. \A s \in SUBSET D : s # {} => Max(s) \in s /\ \A x \in s : x <= Max(s)
  BY <1>2, Extremes, FS_Subset
<1> DEFINE G == {s \in SUBSET D :
                   \A x \in Int : s = {j \in D : j < x} => Grouped(iter[s], x)}
<1>4. ASSUME NEW s \in SUBSET D, \A y \in s : s \ {y} \in G  PROVE s \in G
  <2> SUFFICES ASSUME NEW x \in Int, s = {j \in D : j < x}
               PROVE  Grouped(iter[s], x)
    OBVIOUS
  <2>1. CASE s = {}
    <3>1. Waiting(x) = {}
      BY <2>1 DEF Waiting
    <3>2. ~\E h \in D : Host(h) /\ h < x
      BY <2>1
    <3>3. iter[s].pending = {} /\ iter[s].groups = <<>> /\ Len(iter[s].groups) = 0
      <4>1. iter[s] = [groups |-> <<>>, pending |-> {}]
        BY <1>1, <2>1
      <4> QED BY <4>1
    <3>4. 1 .. 0 = {}
      OBVIOUS
    <3> QED BY <3>1, <3>2, <3>3, <3>4 DEF Grouped
  <2>2. CASE s # {}
    <3> DEFINE y == Max(s)
               acc == iter[s \ {y}]
    <3>1. y \in s /\ y \in D /\ y \in Int /\ \A j \in s : j <= y
      BY <1>2, <1>3, <2>2
    <3>2. acc \in Accs /\ iter[s] = GroupNext(acc, y)
      BY <1>1, <2>2
    <3> HIDE DEF y, acc
    <3>3. s \ {y} = {j \in D : j < y}
      <4>1. \A j \in D : j \in Int /\ (j \in s <=> j < x)
        BY <1>2
      <4> QED BY <3>1, <4>1
    <3>4. Grouped(acc, y)
      BY <1>4, <3>1, <3>3 DEF acc
    <3>5. y < x /\ \A j \in D : ~(y < j /\ j < x)
      BY <1>2, <3>1
    <3> QED BY <3>1, <3>2, <3>4, <3>5, GroupStep
  <2> QED BY <2>1, <2>2
<1>5. D \in G
  <2>1. \A s \in SUBSET D : s \in G
    <3> HIDE DEF G, D
    <3> QED BY <1>2, <1>4, Shrink
  <2> HIDE DEF G
  <2> QED BY <2>1
<1>6. PICK x \in Int : \A j \in D : j < x
  <2>1. CASE D = {}
    BY <2>1
  <2>2. CASE D # {}
    <3>1. Max(D) \in Int /\ \A j \in D : j <= Max(D)
      BY <1>2, <2>2, Extremes
    <3>2. Max(D) + 1 \in Int /\ \A j \in D : j < Max(D) + 1
      BY <1>2, <3>1
    <3> QED BY <3>2
  <2> QED BY <2>1, <2>2
<1>7. Grouped(iter[D], x)
  BY <1>5, <1>6
<1>8. PICK i \in 1 .. Len(Groups) : g = Groups[i]
  <2>1. Groups \in Seq([read : DOMAIN reads, window_from : Int, window_to : Int,
                        placeholders : SUBSET DOMAIN reads])
    BY <1>1 DEF Accs
  <2> QED BY <2>1, LenProperties DEF ToSet
<1>9. GroupOf(g, x)
  BY <1>1, <1>7, <1>8 DEF Grouped
<1>10. {p \in Caught(g.read) : p < x} = Caught(g.read)
  BY <1>6 DEF Caught
<1> QED BY <1>9, <1>10 DEF GroupOf

-----------------------------------------------------------------------------
(* What the archive makes of truthful tables *)

\* Tables with the same values have the same usage.
LEMMA UsageSame ==
  ASSUME NEW t, NEW u, NEW keys, NEW f, \A k \in keys : t[k][f] = u[k][f]
  PROVE  Carried(t, keys, f) = Carried(u, keys, f) /\ Usage(t, keys, f) = Usage(u, keys, f)
<1> DEFINE S == Carried(t, keys, f)
           pick(s) == CHOOSE x \in s : TRUE
           F(h, v) == [s \in SUBSET S |->
                         IF s = {} THEN 0 ELSE v[pick(s)][f] + h[s \ {pick(s)}]]
           iter(v) == CHOOSE h : h = F(h, v)
<1>1. Carried(u, keys, f) = S
  BY DEF Carried
<1>2. Usage(t, keys, f) = iter(t)[S]
  BY DEF Usage, MapThenSumSet, MapThenFoldSet
<1>3. Usage(u, keys, f) = iter(u)[S]
  BY <1>1 DEF Usage, MapThenSumSet, MapThenFoldSet
<1>4. \A k \in S : t[k][f] = u[k][f]
  BY DEF Carried
<1> HIDE DEF S
<1>5. ASSUME NEW h  PROVE F(h, t) = F(h, u)
  <2>1. ASSUME NEW s \in SUBSET S, s # {}  PROVE t[pick(s)][f] = u[pick(s)][f]
    <3>1. pick(s) \in s
      BY <2>1
    <3> QED BY <1>4, <3>1
  <2> HIDE DEF pick
  <2> QED BY <2>1
<1>6. iter(t) = iter(u)
  <2> HIDE DEF F
  <2> QED BY <1>5, Zenon
<1>7. iter(t)[S] = iter(u)[S]
  <2> HIDE DEF iter
  <2> QED BY <1>6
<1> HIDE DEF iter
<1> QED BY <1>1, <1>2, <1>3, <1>7 DEF S

\* A version of a row has no cell that the row has not.
Sub(a, b) == \A f \in Columns : a[f] = NULL \/ a[f] = b[f]

\* Every cell of the table is a cell of one of the files, whose version of the row
\* is a part of it and all of whose reads the table has.
MadeOf(files, table) ==
  \A k \in DOMAIN table : \A f \in Columns : \E x \in files :
    /\ k \in DOMAIN x /\ DOMAIN x \subseteq DOMAIN table
    /\ Sub(x[k], table[k]) /\ x[k][f] = table[k][f]

\* It stays so when a page is stored that fills rows in or replaces them whole.
LEMMA MergeMade ==
  ASSUME NEW files, NEW t, NEW q \in files, NEW u,
         Merged(t, q, u), Updates(files, q), MadeOf(files, t)
  PROVE  MadeOf(files, u)
<1> SUFFICES ASSUME NEW k \in DOMAIN u, NEW f \in Columns
             PROVE  \E x \in files :
                      /\ k \in DOMAIN x /\ DOMAIN x \subseteq DOMAIN u
                      /\ Sub(x[k], u[k]) /\ x[k][f] = u[k][f]
  BY DEF MadeOf
<1>1. /\ DOMAIN u = DOMAIN t \cup DOMAIN q
      /\ \A g \in Columns :
           u[k][g] = IF k \in DOMAIN q /\ (k \notin DOMAIN t \/ q[k][g] # NULL)
                     THEN q[k][g] ELSE t[k][g]
  BY DEF Merged
<1>2. CASE k \notin DOMAIN q
  <2>1. PICK x \in files : /\ k \in DOMAIN x /\ DOMAIN x \subseteq DOMAIN t
                           /\ Sub(x[k], t[k]) /\ x[k][f] = t[k][f]
    BY <1>1, <1>2 DEF MadeOf
  <2>2. Sub(x[k], u[k])
    BY <1>1, <1>2, <2>1 DEF Sub
  <2> QED BY <1>1, <1>2, <2>1, <2>2
<1>3. CASE k \in DOMAIN q /\ k \notin DOMAIN t
  BY <1>1, <1>3 DEF Sub
<1>4. CASE k \in DOMAIN q /\ k \in DOMAIN t /\ Whole(files, q[k])
  <2>1. ASSUME NEW g \in Columns  PROVE u[k][g] = q[k][g]
    <3>1. CASE q[k][g] # NULL
      BY <1>1, <1>4, <3>1
    <3>2. CASE q[k][g] = NULL
      <4>1. PICK x \in files : k \in DOMAIN x /\ x[k][g] = t[k][g]
        BY <1>4 DEF MadeOf
      <4>2. x[k][g] = NULL
        BY <1>4, <3>2, <4>1 DEF Whole
      <4> QED BY <1>1, <1>4, <3>2, <4>1, <4>2
    <3> QED BY <3>1, <3>2
  <2> QED BY <1>1, <1>4, <2>1 DEF Sub
<1>5. CASE /\ k \in DOMAIN q /\ k \in DOMAIN t
           /\ \A x \in files : k \in DOMAIN x => Agree(x[k], q[k])
  <2>1. CASE q[k][f] # NULL
    BY <1>1, <1>5, <2>1 DEF Sub
  <2>2. CASE q[k][f] = NULL
    <3>1. PICK x \in files : /\ k \in DOMAIN x /\ DOMAIN x \subseteq DOMAIN t
                             /\ Sub(x[k], t[k]) /\ x[k][f] = t[k][f]
      BY <1>5 DEF MadeOf
    <3>2. Agree(x[k], q[k])
      BY <1>5, <3>1
    <3>3. Sub(x[k], u[k])
      BY <1>1, <1>5, <3>1, <3>2 DEF Sub, Agree
    <3> QED BY <1>1, <1>5, <2>2, <3>1, <3>3
  <2> QED BY <2>1, <2>2
<1> QED BY <1>2, <1>3, <1>4, <1>5 DEF Updates

\* What an account and an old file say, reads of a second pass excepted.
Files(old) ==
  Pages(account.tables, account.layout) \cup
    {q \in {old} : \A k \in DOMAIN q : ~SecondPass(account.tables, k)}

TruthInv ==
  (\A k \in DOMAIN reads : ~SecondPass(account.tables, k)) =>
    \E old \in Beginnings : MadeOf(Files(old), reads)

LEMMA TruthInit == Init => TruthInv
<1> SUFFICES ASSUME Init, \A k \in DOMAIN reads : ~SecondPass(account.tables, k)
             PROVE  \E old \in Beginnings : MadeOf(Files(old), reads)
  BY DEF TruthInv
<1>1. reads \in Beginnings
  BY DEF Init, Beginnings
<1>2. reads \in Files(reads)
  BY DEF Files
<1>3. MadeOf(Files(reads), reads)
  BY <1>2 DEF MadeOf, Sub
<1> QED BY <1>1, <1>3

LEMMA TruthNext ==
  ASSUME Truthful, Inv, TruthInv, [Next]_vars
  PROVE  TruthInv'
<1>1. ASSUME account' = account, DOMAIN reads' = DOMAIN reads,
             \A k \in DOMAIN reads : \A f \in Columns : reads'[k][f] = reads[k][f]
      PROVE  TruthInv'
  <2>1. \A files : MadeOf(files, reads) => MadeOf(files, reads')
    BY <1>1 DEF MadeOf, Sub
  <2>2. \A old : Files(old)' = Files(old)
    BY <1>1 DEF Files
  <2> QED BY <1>1, <2>1, <2>2 DEF TruthInv
<1>2. ASSUME NEW p \in Procs, Create(p)
      PROVE  account' = account /\ reads' = reads
  BY <1>2 DEF Create
<1>3. ASSUME NEW p \in Procs, Migrate(p)
      PROVE  TruthInv'
  BY <1>1, <1>3, ReattributedType DEF Migrate
<1>4. ASSUME NEW p \in Procs, Store(p)
      PROVE  TruthInv'
  <2>0. Stored(p) /\ account' = account
    BY <1>4, StoreIs DEF Store
  <2> SUFFICES ASSUME \A k \in DOMAIN reads' : ~SecondPass(account.tables, k)
               PROVE  \E old \in Beginnings : MadeOf(Files(old), reads')
    <3>1. \A old : Files(old)' = Files(old)
      BY <2>0 DEF Files
    <3> QED BY <2>0, <3>1 DEF TruthInv
  <2>1. PICK parsed \in Seq(Parsed) :
          /\ Merged(reads, Told(parsed), reads')
          /\ \E table \in account.tables : \E page \in Sent(table, account.layout) :
               parsed = parse_daily_history(page) /\ parsed # Refused
    BY <2>0 DEF Stored
  <2> DEFINE q == Told(parsed)
  <2>2. DOMAIN reads' = DOMAIN reads \cup DOMAIN q
    BY <2>1 DEF Merged
  <2>3. PICK old \in Beginnings : MadeOf(Files(old), reads)
    BY <2>2 DEF TruthInv
  <2>4. q \in Pages(account.tables, account.layout)
    BY <2>1, <2>2 DEF Pages
  <2>5. Updates(Files(old), q)
    <3>1. account.tables \in Stories /\ account.layout \in Layouts
      BY DEF Inv, TypeInv
    <3> QED BY <2>3, <2>4, <3>1 DEF Truthful, Files
  <2>6. q \in Files(old)
    BY <2>4 DEF Files
  <2> QED BY <2>1, <2>3, <2>5, <2>6, MergeMade
<1>5. ASSUME NEW p \in Procs,
             Open(p) \/ Close(p) \/ Crash(p) \/ Arrive(p) \/ Reread(p)
      PROVE  account' = account /\ reads' = reads
  BY <1>5 DEF Open, Close, Crash, Arrive, Fetch, Reread, fileVars
<1>6. ASSUME ReadBuckets \/ SetWatermark \/ AbortExport \/ Tick \/ UNCHANGED vars
      PROVE  account' = account /\ reads' = reads
  BY <1>6 DEF ReadBuckets, SetWatermark, AbortExport, Tick, vars, fileVars
<1> QED BY <1>1, <1>2, <1>3, <1>4, <1>5, <1>6 DEF Next, Step

\* A failed read of the archive failed in some file, every other read held in one;
\* a version that failed makes the row a failed read.
LEMMA MadePlaceholders ==
  ASSUME NEW files, MadeOf(files, reads), NEW k \in DOMAIN reads
  PROVE  /\ Placeholder(reads, k) => k \in Fails(files)
         /\ ~Placeholder(reads, k) => k \in Holds(files)
         /\ \A x \in files :
              k \in DOMAIN x /\ Sub(x[k], reads[k]) /\ Placeholder(x, k) => Placeholder(reads, k)
<1>1. "to" \in Columns /\ "type" \in Columns /\ "Failed" # NULL
  BY DailyAssumption DEF Columns
<1>2. \A x : k \in DOMAIN x =>
        (Placeholder(x, k) <=> x[k].type = "Failed" \/ (x[k].to # NULL /\ x[k].to = k))
  BY DEF Placeholder, is_failed, is_zero_length
<1>3. ASSUME NEW x \in files, k \in DOMAIN x, Sub(x[k], reads[k]), Placeholder(x, k)
      PROVE  Placeholder(reads, k)
  <2>1. x[k].type = "Failed" => reads[k].type = "Failed"
    BY <1>1, <1>3 DEF Sub
  <2>2. x[k].to # NULL => reads[k].to = x[k].to
    BY <1>1, <1>3 DEF Sub
  <2> QED BY <1>2, <1>3, <2>1, <2>2
<1>4. PICK x \in files : k \in DOMAIN x /\ Sub(x[k], reads[k]) /\ x[k]["type"] = reads[k]["type"]
  BY <1>1 DEF MadeOf
<1>5. PICK z \in files : k \in DOMAIN z /\ Sub(z[k], reads[k]) /\ z[k]["to"] = reads[k]["to"]
  BY <1>1 DEF MadeOf
<1>6. Placeholder(reads, k) => Placeholder(x, k) \/ Placeholder(z, k)
  BY <1>2, <1>4, <1>5
<1>7. Placeholder(reads, k) => k \in Fails(files)
  BY <1>4, <1>5, <1>6 DEF Fails
<1>8. ~Placeholder(reads, k) => k \in Holds(files)
  BY <1>3, <1>4 DEF Holds
<1> QED BY <1>3, <1>7, <1>8

\* A failed read that never reads otherwise is in the archive as it is in a table.
LEMMA SteadyRow ==
  ASSUME NEW files, MadeOf(files, reads), NEW q, DOMAIN q \subseteq DOMAIN reads,
         q \in files, NEW p \in Steady(files, q)
  PROVE  /\ p \in DOMAIN q /\ p \in DOMAIN reads /\ Placeholder(reads, p)
         /\ \A f \in Columns : reads[p][f] = q[p][f]
<1>1. p \in DOMAIN q /\ p \in DOMAIN reads /\ Placeholder(q, p)
  BY DEF Steady
<1>2. ASSUME NEW f \in Columns  PROVE reads[p][f] = q[p][f]
  <2>1. PICK x \in files : p \in DOMAIN x /\ x[p][f] = reads[p][f]
    BY <1>1 DEF MadeOf
  <2>2. x[p][f] = q[p][f]
    BY <2>1 DEF Steady
  <2> QED BY <2>1, <2>2
<1>3. Sub(q[p], reads[p])
  BY <1>2 DEF Sub
<1> QED BY <1>1, <1>2, <1>3, MadePlaceholders

\* The failed reads grouped with a host are those its table answers for.
LEMMA GroupAnswers ==
  ASSUME reads \in Tables, NEW files, MadeOf(files, reads), NEW q \in files,
         DOMAIN q \subseteq DOMAIN reads, NEW k \in DOMAIN q, Host(k),
         Sub(q[k], reads[k]), q[k].to = reads[k].to,
         k \in Closing(q) => TellsTruth(files, q, k)
  PROVE  /\ TellsTruth(files, q, k)
         /\ Waiting(k) = Rolled(files, q, k) /\ Caught(k) = Within(files, q, k)
<1>1. k \in Closing(q)
  BY MadePlaceholders DEF Closing, Host
<1>2. TellsTruth(files, q, k)
  BY <1>1
<1>3. \A j \in DOMAIN reads : j \in Int
  BY ReadTypes
<1>4. \A j \in DOMAIN reads : (Placeholder(reads, j) => j \in Fails(files))
                             /\ (~Placeholder(reads, j) => j \in Holds(files))
  BY MadePlaceholders
<1>5. \A p \in Steady(files, q) : p \in DOMAIN q /\ p \in DOMAIN reads /\ Placeholder(reads, p)
  BY SteadyRow
<1>6. ASSUME NEW p \in Waiting(k)  PROVE p \in Rolled(files, q, k)
  <2>1. /\ p \in DOMAIN reads /\ p < k /\ Placeholder(reads, p)
        /\ \A j \in DOMAIN reads : p < j /\ j < k => Placeholder(reads, j)
    BY <1>6 DEF Waiting
  <2>2. ~\E j \in DOMAIN q \ Fails(files) : p < j /\ j < k
    BY <1>4, <2>1
  <2> QED BY <1>2, <1>4, <2>1, <2>2 DEF TellsTruth
<1>7. ASSUME NEW p \in Rolled(files, q, k)  PROVE p \in Waiting(k)
  <2>1. /\ p \in Steady(files, q) /\ p < k
        /\ \A j \in Holds(files) : ~(p < j /\ j < k)
        /\ \A x \in files : \A h \in Closing(x) : h < p => x[h].to <= p
    BY <1>7 DEF Rolled
  <2>2. ASSUME NEW h \in DOMAIN reads, Host(h), h < p  PROVE reads[h].to <= p
    <3>1. "to" \in Columns
      BY DEF Columns
    <3>2. PICK x \in files : h \in DOMAIN x /\ Sub(x[h], reads[h]) /\ x[h]["to"] = reads[h]["to"]
      BY <3>1 DEF MadeOf
    <3>3. h \in Closing(x)
      BY <2>2, <3>2, MadePlaceholders DEF Closing, Host
    <3> QED BY <2>1, <2>2, <3>2, <3>3
  <2> QED BY <1>4, <1>5, <2>1, <2>2 DEF Waiting
<1>8. ASSUME NEW p \in Caught(k)  PROVE p \in Within(files, q, k)
  <2>1. p \in DOMAIN reads /\ k < p /\ p < q[k].to /\ Placeholder(reads, p)
    BY <1>8 DEF Caught
  <2> QED BY <1>2, <1>4, <2>1 DEF TellsTruth
<1>9. ASSUME NEW p \in Within(files, q, k)  PROVE p \in Caught(k)
  BY <1>4, <1>5, <1>9 DEF Within, Caught, Host
<1> QED BY <1>2, <1>6, <1>7, <1>8, <1>9

\* A product with a positive number orders as its factor does.
LEMMA Scaled ==
  ASSUME NEW G \in Nat \ {0}, NEW x \in Int, NEW y \in Int
  PROVE  x * G < y * G => x < y
<1> SUFFICES ASSUME y <= x  PROVE y * G <= x * G
  OBVIOUS
<1>1. x * G = y * G + (x - y) * G /\ (x - y) * G >= 0
  BY SMT
<1>2. x * G \in Int /\ y * G \in Int /\ (x - y) * G \in Int
  BY SMT
<1> QED BY <1>1, <1>2

\* How many intervals start in a window of w intervals: no more than w, and at most
\* one less than reach into it.
LEMMA WindowCount ==
  ASSUME NEW g, g.window_from \in Int, g.window_to \in Int,
         NEW w \in Nat, g.window_to = g.window_from + w * Grain
  PROVE  /\ Cardinality(Inside(g)) \in Nat
         /\ Cardinality(Inside(g)) <= w
         /\ Cardinality(Inside(g)) >= Cardinality(Covered(g)) - 1
<1> DEFINE a == g.window_from
           I == Inside(g)
           C == Covered(g)
<1>1. /\ Grain \in Nat \ {0} /\ Intervals \subseteq Int /\ IsFiniteSet(Intervals)
  BY DailyAssumption
<1>2. /\ I \subseteq C /\ C \subseteq Intervals
      /\ \A n \in C : n \in I <=> a <= n * Grain
      /\ \A n \in C : a < (n + 1) * Grain
      /\ \A n \in I : n * Grain < a + w * Grain
  BY DEF Inside, Covered
<1>3. IsFiniteSet(C) /\ IsFiniteSet(I)
  BY <1>1, <1>2, FS_Subset
<1>4. a \in Int
  OBVIOUS
<1> HIDE DEF a, I, C
<1>5. \A n \in Int : n * Grain \in Int
  BY <1>1, SMT
<1>6. Cardinality(I) <= w
  <2>1. CASE I = {}
    BY <2>1, FS_EmptySet
  <2>2. CASE I # {}
    <3>1. PICK m \in I : m \in Int /\ \A n \in I : m <= n
      <4>1. I \subseteq Int
        BY <1>1, <1>2
      <4> QED BY <1>3, <2>2, <4>1, Extremes
    <3>2. ASSUME NEW n \in I  PROVE n \in m .. m + w - 1
      <4>1. n \in Int /\ m <= n
        BY <1>1, <1>2, <3>1
      <4>2. n * Grain < a + w * Grain /\ a <= m * Grain
        BY <1>2, <3>1
      <4>3. m * Grain + w * Grain = (m + w) * Grain
        BY <1>1, <3>1, SMT
      <4>4. n * Grain < (m + w) * Grain
        BY <1>4, <1>5, <3>1, <4>1, <4>2, <4>3
      <4>5. n < m + w
        BY <1>1, <3>1, <4>1, <4>4, Scaled
      <4> QED BY <3>1, <4>1, <4>5
    <3>3. IsFiniteSet(m .. m + w - 1) /\ Cardinality(m .. m + w - 1) = w
      <4>1. m + w - 1 \in Int
        BY <3>1
      <4>2. IsFiniteSet(m .. m + w - 1)
            /\ Cardinality(m .. m + w - 1) = IF m > m + w - 1 THEN 0 ELSE (m + w - 1) - m + 1
        BY <3>1, <4>1, FS_Interval
      <4> QED BY <3>1, <4>1, <4>2
    <3>4. I \subseteq m .. m + w - 1
      BY <3>2
    <3> QED BY <3>3, <3>4, FS_Subset
  <2> QED BY <2>1, <2>2
<1>7. Cardinality(I) >= Cardinality(C) - 1
  <2>1. CASE C = I
    BY <1>3, <2>1, FS_CardinalityType
  <2>2. CASE C # I
    <3>1. PICK n \in C : n \notin I
      BY <1>2, <2>2
    <3>2. ASSUME NEW j \in C, j \notin I  PROVE j = n
      <4>1. j \in Int /\ n \in Int
        BY <1>1, <1>2, <3>1
      <4>2. j * Grain < a /\ a < (j + 1) * Grain /\ n * Grain < a /\ a < (n + 1) * Grain
        BY <1>2, <1>4, <1>5, <3>1, <3>2, <4>1
      <4>3. j * Grain < (n + 1) * Grain /\ n * Grain < (j + 1) * Grain
        BY <1>4, <1>5, <4>1, <4>2
      <4>4. j < n + 1 /\ n < j + 1
        BY <1>1, <4>1, <4>3, Scaled
      <4> QED BY <4>1, <4>4
    <3>3. I = C \ {n}
      BY <1>2, <3>1, <3>2
    <3> QED BY <1>3, <3>1, <3>3, FS_RemoveElement, FS_CardinalityType
  <2> QED BY <2>1, <2>2
<1> QED BY <1>3, <1>6, <1>7, FS_CardinalityType DEF I, C

\* Where tables tell the truth, a group that is compared does not mismatch.
LEMMA GroupsQuiet ==
  ASSUME reads \in Tables, NEW files, MadeOf(files, reads),
         \A q \in files : \A k \in Closing(q) : TellsTruth(files, q, k),
         Tolerance >= 2, NEW g \in ToSet(Groups), Compared(g), NEW f \in Registers
  PROVE  ~Mismatch(g, f)
<1> DEFINE k == g.read
<1>1. /\ Host(k) /\ k \in DOMAIN reads /\ k \in Int
      /\ g.window_from = Min({k} \cup Waiting(k)) /\ g.window_to = reads[k].to
      /\ g.placeholders = Waiting(k) \cup Caught(k)
      /\ reads[k].to \in Int
  BY GroupsAre, ReadTypes DEF Host, Cells
<1> HIDE DEF k
<1>2. "to" \in Columns /\ f \in Columns
  BY DEF Columns, Registers
<1>3. PICK q \in files : /\ k \in DOMAIN q /\ DOMAIN q \subseteq DOMAIN reads
                         /\ Sub(q[k], reads[k]) /\ q[k]["to"] = reads[k]["to"]
  BY <1>1, <1>2 DEF MadeOf
<1> DEFINE members == {k} \cup Answered(files, q, k)
<1>4. /\ TellsTruth(files, q, k)
      /\ Waiting(k) = Rolled(files, q, k) /\ Caught(k) = Within(files, q, k)
  BY <1>1, <1>3, GroupAnswers
<1>5. Members(g) = members
  BY <1>1, <1>4 DEF Members, Answered, k
<1>6. \A p \in Answered(files, q, k) :
        p \in DOMAIN q /\ p \in DOMAIN reads /\ p # k /\ reads[p][f] = q[p][f]
  <2>1. \A p \in Answered(files, q, k) : p \in Steady(files, q) /\ (p < k \/ k < p)
    BY DEF Answered, Rolled, Within
  <2>2. \A p \in Steady(files, q) : p \in DOMAIN q /\ p \in DOMAIN reads /\ reads[p][f] = q[p][f]
    BY <1>2, <1>3, SteadyRow
  <2>3. \A p \in DOMAIN reads : p \in Int
    BY ReadTypes
  <2> QED BY <1>1, <2>1, <2>2, <2>3
<1>7. PICK x \in files : /\ k \in DOMAIN x /\ Sub(x[k], reads[k]) /\ x[k][f] = reads[k][f]
  BY <1>1, <1>2 DEF MadeOf
<1>8. Agree(x[k], q[k])
  BY <1>3, <1>7 DEF Agree, Sub
\* the window
<1>9. /\ g.window_from \in Int /\ g.window_from <= k /\ k < g.window_to
      /\ g.window_to = q[k].to /\ g.window_from = Min({k} \cup Rolled(files, q, k))
  <2> DEFINE S == {k} \cup Waiting(k)
  <2>1. S \subseteq DOMAIN reads
    BY <1>1 DEF Waiting
  <2>2. S \subseteq Int /\ IsFiniteSet(S) /\ S # {} /\ k \in S
    BY <2>1, TableType, FS_Subset
  <2> HIDE DEF S
  <2>3. Min(S) \in Int /\ Min(S) <= k
    BY <2>2, Extremes
  <2> QED BY <1>1, <1>3, <1>4, <2>3 DEF S, TellsTruth
<1>10. CASE reads[k][f] # NULL
  <2> DEFINE m == [q EXCEPT ![k] = x[k]]
  <2> DEFINE w == (g.window_to - g.window_from) \div Grain
  <2>1. Usage(m, members, f) = w /\ (g.window_to - g.window_from) % Grain = 0
    BY <1>4, <1>7, <1>8, <1>9, <1>10 DEF TellsTruth, Length
  <2>2. \A p \in members : reads[p][f] = m[p][f]
    BY <1>3, <1>6, <1>7
  <2>3. w \in Nat /\ g.window_to = g.window_from + w * Grain
    <3>1. PICK d \in Nat : d = g.window_to - g.window_from
      BY <1>1, <1>9
    <3>2. d % Grain = 0 => d \div Grain \in Nat /\ d = (d \div Grain) * Grain
      BY DailyAssumption, SMT
    <3> QED BY <1>1, <1>9, <2>1, <3>1, <3>2
  <2>4. Cardinality(Covered(g)) >= w - 1
    BY DEF Compared
  <2> HIDE DEF m, members, w
  <2>5. Usage(reads, members, f) = w
    BY <2>1, <2>2, UsageSame
  <2>6. /\ Cardinality(Inside(g)) \in Nat /\ Cardinality(Inside(g)) <= w
        /\ Cardinality(Inside(g)) >= Cardinality(Covered(g)) - 1
    BY <1>1, <1>9, <2>3, WindowCount
  <2>7. Cardinality(Covered(g)) \in Nat
    <3>1. Covered(g) \subseteq Intervals
      BY DEF Covered
    <3> QED BY <3>1, DailyAssumption, FS_Subset, FS_CardinalityType
  <2>8. Tolerance \in Nat
    BY DailyAssumption
  <2> QED BY <1>5, <2>3, <2>4, <2>5, <2>6, <2>7, <2>8 DEF Mismatch
<1>11. CASE reads[k][f] = NULL
  <2>1. \A p \in Answered(files, q, k) : reads[p][f] = NULL
    <3> SUFFICES ASSUME NEW p \in Answered(files, q, k)  PROVE reads[p][f] = NULL
      OBVIOUS
    <3>1. Whole(files, q[k])
      BY <1>4 DEF TellsTruth
    <3>2. q[k][f] = NULL
      BY <1>2, <1>3, <1>11 DEF Sub
    <3>3. q[p][f] = NULL
      BY <1>2, <1>6, <3>1, <3>2 DEF Whole
    <3> QED BY <1>6, <3>3
  <2>2. Carried(reads, members, f) = {}
    BY <1>11, <2>1 DEF Carried
  <2> QED BY <1>5, <2>2 DEF Mismatch
<1> QED BY <1>10, <1>11

\* Whatever pages of a truthful account are stored, in whatever order, by processes
\* of either version and on top of whatever old file, the report finds no mismatch
\* in intervals of one kWh, whichever of them are missing, with a tolerance of two
\* kWh (archive.py, consistency_report).
THEOREM TruthStaysQuiet ==
  ASSUME Truthful, Tolerance >= 2
  PROVE  Spec => []TruthIsQuiet
<1>1. Inv /\ TruthInv => TruthIsQuiet
  <2> SUFFICES ASSUME Inv, TruthInv, \A k \in DOMAIN reads : ~SecondPass(account.tables, k)
               PROVE  window_mismatches = {}
    BY DEF TruthIsQuiet
  <2>1. PICK old \in Beginnings : MadeOf(Files(old), reads)
    BY DEF TruthInv
  <2>2. account.tables \in Stories /\ account.layout \in Layouts /\ reads \in Tables
    BY DEF Inv, TypeInv
  <2>3. \A q \in Files(old) : \A k \in Closing(q) : TellsTruth(Files(old), q, k)
    BY <2>1, <2>2 DEF Truthful, Files
  <2>4. \A g \in ToSet(Groups) : \A f \in Registers : Compared(g) => ~Mismatch(g, f)
    BY <2>1, <2>2, <2>3, GroupsQuiet
  <2> QED BY <2>4 DEF window_mismatches, Registers
<1>2. Inv /\ TruthInv /\ [Next]_vars => TruthInv'
  BY TruthNext
<1> QED BY <1>1, <1>2, TruthInit, Typed, PTL DEF Spec

=============================================================================
