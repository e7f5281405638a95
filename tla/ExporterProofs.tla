---------------------------- MODULE ExporterProofs -----------------------------
(***************************************************************************)
(* Exporter, for any days, windows, contents, and number of writes,        *)
(* deletions and exports, when one export at a time runs over an archive   *)
(* that rests meanwhile: the sums never rewind, and an export that ends    *)
(* leaves the exact fold of the archive.                                   *)
(***************************************************************************)
EXTENDS Exporter, FiniteSetTheorems, SequenceTheorems, WellFoundedInduction, TLAPS

-----------------------------------------------------------------------------
(* Induction and finite sets *)

\* A set that holds 0 and, with every number below n, the next one, holds all
\* numbers up to n.
LEMMA Climb ==
  ASSUME NEW n \in Nat, NEW T,
         0 \in T, \A k \in 0 .. n - 1 : k \in T => k + 1 \in T
  PROVE  0 .. n \subseteq T
<1> DEFINE R == OpToRel(<, Nat)
           U == {k \in 0 .. n : k \notin T}
<1>1. SUFFICES ASSUME U # {}  PROVE FALSE
  OBVIOUS
<1>2. U \subseteq Nat
  OBVIOUS
<1>3. IsWellFoundedOn(R, Nat)
  BY NatLessThanWellFounded
<1> HIDE DEF R
<1>4. PICK x \in U : \A y \in U : <<y, x>> \notin R
  <2> HIDE DEF U
  <2> QED BY <1>1, <1>2, <1>3, WFMin, Zenon
<1>5. x \in Nat /\ x # 0 /\ x - 1 \in 0 .. n - 1 /\ (x - 1) + 1 = x
  OBVIOUS
<1>6. x - 1 \in U
  BY <1>5
<1>7. <<x - 1, x>> \in R
  BY <1>5 DEF R, OpToRel
<1> QED BY <1>4, <1>6, <1>7

\* What holds of a set when it holds of the set without any one element holds
\* of every finite set: G collects the sets it holds of.
LEMMA Shrink ==
  ASSUME NEW S, IsFiniteSet(S), NEW G,
         \A A \in SUBSET S : (\A x \in A : A \ {x} \in G) => A \in G
  PROVE  \A A \in SUBSET S : A \in G
<1> DEFINE T(n) == {k \in 0 .. n : \A A \in SUBSET S : Cardinality(A) = k => A \in G}
<1>1. SUFFICES ASSUME NEW n \in Nat
               PROVE  \A A \in SUBSET S : Cardinality(A) = n => A \in G
  <2>1. \A A \in SUBSET S : Cardinality(A) \in Nat
    BY FS_Subset, FS_CardinalityType
  <2> QED BY <2>1
<1>2. 0 \in T(n)
  <2>1. \A A \in SUBSET S : Cardinality(A) = 0 => A = {}
    BY FS_EmptySet, FS_Subset
  <2>2. 0 \in 0 .. n
    OBVIOUS
  <2> QED BY <2>1, <2>2
<1>3. ASSUME NEW k \in 0 .. n - 1, k \in T(n)  PROVE k + 1 \in T(n)
  <2>1. k \in Nat /\ k + 1 \in 0 .. n
    OBVIOUS
  <2>2. ASSUME NEW A \in SUBSET S, Cardinality(A) = k + 1, NEW x \in A
        PROVE  A \ {x} \in G
    <3>1. IsFiniteSet(A)
      BY FS_Subset
    <3>2. Cardinality(A \ {x}) = Cardinality(A) - 1
      BY <3>1, FS_RemoveElement
    <3>3. (k + 1) - 1 = k
      BY <2>1
    <3>4. Cardinality(A \ {x}) = k
      BY <2>2, <3>2, <3>3, Zenon
    <3> QED BY <1>3, <3>4
  <2>3. ASSUME NEW A \in SUBSET S, Cardinality(A) = k + 1  PROVE A \in G
    BY <2>2, <2>3
  <2> QED BY <2>1, <2>3
<1>4. 0 .. n \subseteq T(n)
  <2> HIDE DEF T
  <2> QED BY <1>2, <1>3, Climb
<1>5. n \in T(n)
  BY <1>4
<1> QED BY <1>5

\* What holds of the empty set, and of a set with one element more than one it
\* holds of, holds of every finite set.
LEMMA Gather ==
  ASSUME NEW S, IsFiniteSet(S), NEW G,
         {} \in G,
         \A A \in SUBSET S, x \in S : x \notin A /\ A \in G => A \cup {x} \in G
  PROVE  S \in G
<1>1. ASSUME NEW A \in SUBSET S, \A x \in A : A \ {x} \in G  PROVE A \in G
  <2>1. CASE A = {}
    BY <2>1
  <2>2. CASE A # {}
    <3>1. PICK x \in A : TRUE
      BY <2>2
    <3>2. (A \ {x}) \cup {x} \in G
      BY <1>1
    <3>3. (A \ {x}) \cup {x} = A
      OBVIOUS
    <3> QED BY <3>2, <3>3
  <2> QED BY <2>1, <2>2
<1> QED BY <1>1, Shrink

\* A finite set of numbers that is not empty has a greatest and a least one.
LEMMA Extremes ==
  ASSUME NEW S, S \subseteq Int, IsFiniteSet(S), S # {}
  PROVE  /\ Max(S) \in S /\ \A x \in S : x <= Max(S)
         /\ Min(S) \in S /\ \A x \in S : Min(S) <= x
<1> DEFINE G == {A \in SUBSET S :
                   A # {} => /\ \E m \in A : \A x \in A : m >= x
                             /\ \E m \in A : \A x \in A : m =< x}
<1>1. {} \in G
  OBVIOUS
<1>2. ASSUME NEW A \in SUBSET S, NEW x \in S, A \in G  PROVE A \cup {x} \in G
  <2>1. CASE A = {}
    BY <2>1
  <2>2. CASE A # {}
    <3>1. PICK m \in A : \A y \in A : m >= y
      BY <1>2, <2>2
    <3>2. PICK l \in A : \A y \in A : l =< y
      BY <1>2, <2>2
    <3>3. m \in Int /\ l \in Int /\ x \in Int /\ A \subseteq Int
      OBVIOUS
    <3>4. \E z \in A \cup {x} : \A y \in A \cup {x} : z >= y
      <4>1. CASE m >= x
        BY <3>1, <3>3, <4>1
      <4>2. CASE ~(m >= x)
        <5>1. \A y \in A \cup {x} : x >= y
          BY <3>1, <3>3, <4>2
        <5> QED BY <5>1
      <4> QED BY <4>1, <4>2
    <3>5. \E z \in A \cup {x} : \A y \in A \cup {x} : z =< y
      <4>1. CASE l =< x
        BY <3>2, <3>3, <4>1
      <4>2. CASE ~(l =< x)
        <5>1. \A y \in A \cup {x} : x =< y
          BY <3>2, <3>3, <4>2
        <5> QED BY <5>1
      <4> QED BY <4>1, <4>2
    <3> QED BY <3>4, <3>5
  <2> QED BY <2>1, <2>2
<1>3. S \in G
  <2> HIDE DEF G
  <2> QED BY <1>1, <1>2, Gather
<1>4. (\E m \in S : \A x \in S : m >= x) /\ (\E m \in S : \A x \in S : m =< x)
  BY <1>3
<1>5. Max(S) \in S /\ \A x \in S : Max(S) >= x
  BY <1>4 DEF Max
<1>6. Min(S) \in S /\ \A x \in S : Min(S) =< x
  BY <1>4 DEF Min
<1> QED BY <1>5, <1>6

-----------------------------------------------------------------------------
(* Sums over sets of points *)

Valued(S) == \A x \in S : State(x) \in Nat

\* g sums the subsets of S, whatever order their elements are added in.
Sums(g, S) ==
  /\ g \in [SUBSET S -> Nat]
  /\ g[{}] = 0
  /\ \A A \in SUBSET S : \A x \in A : g[A] = State(x) + g[A \ {x}]

LEMMA SumsExist ==
  ASSUME NEW S, IsFiniteSet(S), Valued(S)
  PROVE  \E g : Sums(g, S)
<1> DEFINE G == {A \in SUBSET S : \E g : Sums(g, A)}
<1>1. {} \in G
  <2>1. Sums([A \in SUBSET {} |-> 0], {})
    BY DEF Sums
  <2> HIDE DEF Sums
  <2> QED BY <2>1
<1>2. ASSUME NEW A \in SUBSET S, NEW x \in S, x \notin A, A \in G
      PROVE  A \cup {x} \in G
  <2>1. PICK g : Sums(g, A)
    BY <1>2
  <2> DEFINE B == A \cup {x}
             h == [s \in SUBSET B |-> IF x \in s THEN State(x) + g[s \ {x}] ELSE g[s]]
  <2>2. State(x) \in Nat
    BY DEF Valued
  <2>3. \A s \in SUBSET B : s \ {x} \in SUBSET A /\ g[s \ {x}] \in Nat
    BY <2>1 DEF Sums
  <2>4. \A s \in SUBSET B : x \notin s => s \in SUBSET A /\ g[s] \in Nat
    BY <2>1 DEF Sums
  <2>5. h \in [SUBSET B -> Nat]
    BY <2>2, <2>3, <2>4
  <2>6. h[{}] = 0
    BY <2>1 DEF Sums
  <2>7. ASSUME NEW s \in SUBSET B, NEW c \in s
        PROVE  h[s] = State(c) + h[s \ {c}]
    <3>1. State(c) \in Nat
      BY <1>2 DEF Valued
    <3>2. s \ {c} \in SUBSET B
      OBVIOUS
    <3>3. CASE x \notin s
      BY <2>1, <2>4, <3>2, <3>3 DEF Sums
    <3>4. CASE x \in s /\ c = x
      BY <3>2, <3>4
    <3>5. CASE x \in s /\ c # x
      <4>1. c \in s \ {x} /\ s \ {x} \in SUBSET A
        BY <2>3, <3>5
      <4>2. g[s \ {x}] = State(c) + g[(s \ {x}) \ {c}]
        BY <2>1, <4>1 DEF Sums
      <4>3. g[(s \ {x}) \ {c}] = g[(s \ {c}) \ {x}]
        <5>1. (s \ {x}) \ {c} = (s \ {c}) \ {x}
          OBVIOUS
        <5> QED BY <5>1, Zenon
      <4>4. g[(s \ {c}) \ {x}] \in Nat
        BY <2>3, <3>2
      <4>5. h[s] = State(x) + g[s \ {x}] /\ h[s \ {c}] = State(x) + g[(s \ {c}) \ {x}]
        BY <3>2, <3>5
      <4> HIDE DEF h
      <4> QED BY <2>2, <3>1, <4>2, <4>3, <4>4, <4>5
    <3> QED BY <3>3, <3>4, <3>5
  <2>8. Sums(h, B)
    <3> HIDE DEF h, B
    <3> QED BY <2>5, <2>6, <2>7 DEF Sums
  <2> HIDE DEF h
  <2> QED BY <2>8
<1>3. S \in G
  <2> HIDE DEF G
  <2> QED BY <1>1, <1>2, Gather
<1> QED BY <1>3

\* The fold of MapThenSumSet is that sum.
LEMMA SumIs ==
  ASSUME NEW S, IsFiniteSet(S), Valued(S), NEW g, Sums(g, S), NEW A \in SUBSET S
  PROVE  MapThenSumSet(State, A) = g[A]
<1> DEFINE pick(s) == CHOOSE x \in s : TRUE
           F(h) == [s \in SUBSET A |->
                      IF s = {} THEN 0 ELSE State(pick(s)) + h[s \ {pick(s)}]]
           iter == CHOOSE h : h = F(h)
<1>1. MapThenSumSet(State, A) = iter[A]
  BY DEF MapThenSumSet, MapThenFoldSet
<1>2. [s \in SUBSET A |-> g[s]] = F([s \in SUBSET A |-> g[s]])
  <2> SUFFICES ASSUME NEW s \in SUBSET A
               PROVE  g[s] = IF s = {} THEN 0
                             ELSE State(pick(s)) + [u \in SUBSET A |-> g[u]][s \ {pick(s)}]
    BY Zenon
  <2>1. CASE s = {}
    BY <2>1 DEF Sums
  <2>2. CASE s # {}
    <3>1. pick(s) \in s
      BY <2>2
    <3> HIDE DEF pick
    <3> QED BY <2>2, <3>1 DEF Sums
  <2> QED BY <2>1, <2>2
<1>3. iter = F(iter)
  <2> HIDE DEF F
  <2> QED BY <1>2
<1> HIDE DEF iter
<1> DEFINE G == {s \in SUBSET A : iter[s] = g[s]}
<1>4. ASSUME NEW s \in SUBSET A, \A x \in s : s \ {x} \in G  PROVE s \in G
  <2>1. iter[s] = IF s = {} THEN 0 ELSE State(pick(s)) + iter[s \ {pick(s)}]
    BY <1>3
  <2>2. CASE s = {}
    BY <2>1, <2>2 DEF Sums
  <2>3. CASE s # {}
    <3>1. pick(s) \in s
      BY <2>3
    <3> HIDE DEF pick
    <3>2. iter[s \ {pick(s)}] = g[s \ {pick(s)}]
      BY <1>4, <3>1
    <3>3. g[s] = State(pick(s)) + g[s \ {pick(s)}]
      BY <3>1 DEF Sums
    <3> QED BY <2>1, <2>3, <3>2, <3>3
  <2> QED BY <2>2, <2>3
<1>5. IsFiniteSet(A)
  BY FS_Subset
<1>6. A \in G
  <2> HIDE DEF G
  <2> QED BY <1>4, <1>5, Shrink
<1> QED BY <1>1, <1>6

\* A sum is a natural number, and grows by the value of what is added.
LEMMA SumFacts ==
  ASSUME NEW S, IsFiniteSet(S), Valued(S)
  PROVE  /\ MapThenSumSet(State, S) \in Nat
         /\ S = {} => MapThenSumSet(State, S) = 0
         /\ \A x \in S : MapThenSumSet(State, S) = State(x) + MapThenSumSet(State, S \ {x})
         /\ \A A \in SUBSET S : MapThenSumSet(State, A) <= MapThenSumSet(State, S)
<1>1. PICK g : Sums(g, S)
  BY SumsExist
<1>2. \A A \in SUBSET S : MapThenSumSet(State, A) = g[A] /\ g[A] \in Nat
  <2> SUFFICES ASSUME NEW A \in SUBSET S
               PROVE  MapThenSumSet(State, A) = g[A] /\ g[A] \in Nat
    OBVIOUS
  <2>1. MapThenSumSet(State, A) = g[A]
    BY <1>1, SumIs
  <2>2. g[A] \in Nat
    BY <1>1 DEF Sums
  <2> QED BY <2>1, <2>2
<1>3. S = {} => MapThenSumSet(State, S) = 0
  BY <1>1, <1>2 DEF Sums
<1>4. \A x \in S : MapThenSumSet(State, S) = State(x) + MapThenSumSet(State, S \ {x})
  BY <1>1, <1>2 DEF Sums
<1> DEFINE G == {B \in SUBSET S : \A A \in SUBSET B : g[A] <= g[B]}
<1>5. {} \in G
  <2>1. \A A \in SUBSET {} : A = {}
    OBVIOUS
  <2>2. g[{}] <= g[{}]
    BY <1>1 DEF Sums
  <2> QED BY <2>1, <2>2
<1>6. ASSUME NEW B \in SUBSET S, NEW x \in S, x \notin B, B \in G
      PROVE  B \cup {x} \in G
  <2>1. State(x) \in Nat
    BY DEF Valued
  <2>2. g[B \cup {x}] = State(x) + g[B]
    <3>1. (B \cup {x}) \ {x} = B /\ x \in B \cup {x} /\ B \cup {x} \in SUBSET S
      BY <1>6
    <3>2. g[B \cup {x}] = State(x) + g[(B \cup {x}) \ {x}]
      BY <1>1, <3>1 DEF Sums
    <3> QED BY <3>1, <3>2, Zenon
  <2>3. ASSUME NEW A \in SUBSET (B \cup {x})  PROVE g[A] <= g[B \cup {x}]
    <3>1. A \ {x} \in SUBSET B
      OBVIOUS
    <3>2. g[A \ {x}] <= g[B]
      BY <1>6, <3>1
    <3>3. g[A \ {x}] \in Nat /\ g[B] \in Nat /\ g[A] \in Nat
      BY <1>1, <3>1 DEF Sums
    <3>4. CASE x \in A
      <4>1. g[A] = State(x) + g[A \ {x}]
        BY <1>1, <3>4 DEF Sums
      <4> QED BY <2>1, <2>2, <3>2, <3>3, <4>1
    <3>5. CASE x \notin A
      <4>1. A \in SUBSET B
        BY <3>5
      <4>2. g[A] <= g[B]
        BY <1>6, <4>1
      <4> QED BY <2>1, <2>2, <3>3, <4>2
    <3> QED BY <3>4, <3>5
  <2> QED BY <2>3
<1>7. S \in G
  <2> HIDE DEF G
  <2> QED BY <1>5, <1>6, Gather
<1>8. \A A \in SUBSET S : MapThenSumSet(State, A) <= MapThenSumSet(State, S)
  BY <1>2, <1>7
<1> QED BY <1>2, <1>3, <1>4, <1>8

\* Sets whose points pair off with equal values have equal sums.
LEMMA SumsAgree ==
  ASSUME NEW S, IsFiniteSet(S), Valued(S),
         NEW T, IsFiniteSet(T), Valued(T),
         NEW f \in [S -> T],
         \A x, y \in S : f[x] = f[y] => x = y,
         \A y \in T : \E x \in S : f[x] = y,
         \A x \in S : State(f[x]) = State(x)
  PROVE  MapThenSumSet(State, S) = MapThenSumSet(State, T)
<1>1. PICK g : Sums(g, S)
  BY SumsExist
<1>2. PICK h : Sums(h, T)
  BY SumsExist
<1> DEFINE Im(A) == {y \in T : \E x \in A : f[x] = y}
           G == {A \in SUBSET S : g[A] = h[Im(A)]}
<1>3. {} \in G
  <2>1. Im({}) = {}
    OBVIOUS
  <2>2. g[{}] = h[{}]
    BY <1>1, <1>2 DEF Sums
  <2>3. g[{}] = h[Im({})]
    <3> HIDE DEF Im
    <3> QED BY <2>1, <2>2, Zenon
  <2> HIDE DEF Im
  <2> QED BY <2>3
<1>4. ASSUME NEW A \in SUBSET S, NEW x \in S, x \notin A, A \in G
      PROVE  A \cup {x} \in G
  <2>1. Im(A \cup {x}) \ {f[x]} = Im(A) /\ f[x] \in Im(A \cup {x})
    BY <1>4
  <2>2. (A \cup {x}) \ {x} = A
    BY <1>4
  <2>3. Im(A \cup {x}) \in SUBSET T /\ A \cup {x} \in SUBSET S
    OBVIOUS
  <2> HIDE DEF Im
  <2>4. h[Im(A \cup {x})] = State(f[x]) + h[Im(A \cup {x}) \ {f[x]}]
    BY <1>2, <2>1, <2>3 DEF Sums
  <2>5. g[A \cup {x}] = State(x) + g[(A \cup {x}) \ {x}]
    BY <1>1, <2>3 DEF Sums
  <2>6. g[A] = h[Im(A)]
    BY <1>4
  <2>7. State(x) = State(f[x])
    OBVIOUS
  <2>8. g[A \cup {x}] = h[Im(A \cup {x})]
    BY <2>1, <2>2, <2>4, <2>5, <2>6, <2>7, Zenon
  <2> QED BY <2>3, <2>8
<1>5. S \in G
  <2> HIDE DEF G
  <2> QED BY <1>3, <1>4, Gather
<1>6. Im(S) = T
  OBVIOUS
<1> HIDE DEF Im
<1>7. g[S] = h[T]
  BY <1>5, <1>6, Zenon
<1>8. MapThenSumSet(State, S) = g[S] /\ MapThenSumSet(State, T) = h[T]
  BY <1>1, <1>2, SumIs
<1> QED BY <1>7, <1>8

-----------------------------------------------------------------------------
(* Series of points *)

PointType ==
  [kind : {"hour", "day"}, start : Nat, end : Nat, val : Nat \cup {NULL},
   final : BOOLEAN]

IsSeries(P) ==
  /\ P \subseteq PointType
  /\ IsFiniteSet(P)
  /\ \A p \in P : p.start < p.end
  /\ \A p, q \in P : p.start = q.start => p = q

UpTo(P, t) == {p \in P : p.start <= t}

\* What the points up to t add up to.
Total(P, t) == MapThenSumSet(State, UpTo(P, t))

\* The starts at which the fold of the final prefix has a row.
Emitted(P, o) == Starts({p \in FinalPrefix(P, o) : EmitsRow(p)})

LEMMA SeriesFacts ==
  ASSUME NEW P, IsSeries(P)
  PROVE  /\ \A p \in P : State(p) \in Nat
         /\ \A t : /\ UpTo(P, t) \subseteq P
                   /\ IsFiniteSet(UpTo(P, t))
                   /\ Valued(UpTo(P, t))
                   /\ Total(P, t) \in Nat
         /\ \A s, t \in Int : s <= t => Total(P, s) <= Total(P, t)
<1>1. ASSUME NEW p \in P  PROVE State(p) \in Nat
  BY DEF State, IsSeries, PointType
<1>2. ASSUME NEW t
      PROVE  /\ UpTo(P, t) \subseteq P
             /\ IsFiniteSet(UpTo(P, t))
             /\ Valued(UpTo(P, t))
             /\ Total(P, t) \in Nat
  <2>1. UpTo(P, t) \subseteq P
    BY DEF UpTo
  <2>2. IsFiniteSet(UpTo(P, t))
    BY <2>1, FS_Subset DEF IsSeries
  <2>3. Valued(UpTo(P, t))
    BY <1>1, <2>1 DEF Valued
  <2>4. Total(P, t) \in Nat
    BY <2>2, <2>3, SumFacts DEF Total
  <2> QED BY <2>1, <2>2, <2>3, <2>4
<1>3. ASSUME NEW s \in Int, NEW t \in Int, s <= t
      PROVE  Total(P, s) <= Total(P, t)
  <2>1. UpTo(P, s) \in SUBSET UpTo(P, t)
    BY <1>3 DEF UpTo, IsSeries, PointType
  <2>2. \A A \in SUBSET UpTo(P, t) :
          MapThenSumSet(State, A) <= MapThenSumSet(State, UpTo(P, t))
    BY <1>2, SumFacts
  <2> QED BY <2>1, <2>2 DEF Total
<1> QED BY <1>1, <1>2, <1>3

\* The final prefix is closed downward, and its starts are finitely many.
LEMMA PrefixFacts ==
  ASSUME NEW P, IsSeries(P), NEW o
  PROVE  /\ FinalPrefix(P, o) \subseteq P
         /\ \A p \in FinalPrefix(P, o), q \in P :
              q.start <= p.start => q \in FinalPrefix(P, o)
         /\ Starts(P) \subseteq Nat
         /\ IsFiniteSet(Starts(P))
         /\ Starts(FinalPrefix(P, o)) \subseteq Starts(P)
         /\ IsFiniteSet(Starts(FinalPrefix(P, o)))
         /\ Emitted(P, o) \subseteq Starts(FinalPrefix(P, o))
         /\ IsFiniteSet(Emitted(P, o))
<1>1. FinalPrefix(P, o) \subseteq P
  BY DEF FinalPrefix
<1>2. ASSUME NEW p \in FinalPrefix(P, o), NEW q \in P, q.start <= p.start
      PROVE  q \in FinalPrefix(P, o)
  <2>1. p \in P /\ \A x \in P : x.start \in Nat
    BY <1>1 DEF IsSeries, PointType
  <2>2. \A x \in P : x.start <= q.start => x.start <= p.start
    BY <1>2, <2>1
  <2>3. \A x \in P : x.start <= p.start => ~Blocks(P, x, o)
    BY DEF FinalPrefix
  <2> QED BY <2>2, <2>3 DEF FinalPrefix
<1>3. Starts(P) \subseteq Nat
  BY DEF Starts, IsSeries, PointType
<1>4. IsFiniteSet(Starts(P))
  <2> DEFINE f == [p \in P |-> p.start]
  <2>1. f \in Surjection(P, Starts(P))
    BY DEF Surjection, Starts
  <2> QED BY <2>1, FS_Surjection DEF IsSeries
<1>5. Starts(FinalPrefix(P, o)) \subseteq Starts(P)
  BY <1>1 DEF Starts
<1>6. Emitted(P, o) \subseteq Starts(FinalPrefix(P, o))
  BY DEF Starts, Emitted
<1> QED BY <1>1, <1>2, <1>3, <1>4, <1>5, <1>6, FS_Subset

\* The fold of the final prefix: a row at every emitted start, which carries
\* everything up to it.
LEMMA FoldFacts ==
  ASSUME NEW P, IsSeries(P), NEW o, NEW base
  PROVE  LET rows == Fold(FinalPrefix(P, o), base)
         IN  /\ DOMAIN rows = Emitted(P, o)
             /\ \A t \in Emitted(P, o) : rows[t].sum = base + Total(P, t)
<1> DEFINE prefix == FinalPrefix(P, o)
           rows == Fold(prefix, base)
<1>1. DOMAIN rows = Emitted(P, o)
  BY DEF Fold, Emitted
<1>2. ASSUME NEW t \in Emitted(P, o)  PROVE rows[t].sum = base + Total(P, t)
  <2>1. PICK p \in prefix : p.start = t
    BY DEF Emitted, Starts
  <2>2. {q \in prefix : q.start <= t} = UpTo(P, t)
    BY <2>1, PrefixFacts DEF UpTo
  <2>3. rows[t].sum = base + MapThenSumSet(State, {q \in prefix : q.start <= t})
    BY <1>1 DEF Fold, Emitted
  <2> QED BY <2>2, <2>3 DEF Total
<1> QED BY <1>1, <1>2

\* The end of the point before p is the end of the one that starts last.
LEMMA PreviousEndIs ==
  ASSUME NEW P, IsSeries(P), NEW p, p.start \in Nat
  PROVE  \/ Earlier(P, p) = {} /\ PreviousEnd(P, p) = p.start
         \/ \E q \in P : /\ q.start < p.start
                         /\ \A x \in P : x.start < p.start => x.start <= q.start
                         /\ PreviousEnd(P, p) = q.end
<1>1. CASE Earlier(P, p) = {}
  BY <1>1 DEF PreviousEnd
<1>2. CASE Earlier(P, p) # {}
  <2> DEFINE E == Earlier(P, p)
             Last(q) == \A x \in E : x.start <= q.start
  <2>1. E \subseteq P /\ Starts(E) \subseteq Starts(P) /\ Starts(E) # {}
    BY <1>2 DEF Earlier, Starts
  <2>2. IsFiniteSet(Starts(E)) /\ Starts(E) \subseteq Int
    BY <2>1, PrefixFacts, FS_Subset
  <2>3. PICK m \in Starts(E) : \A s \in Starts(E) : s <= m
    BY <2>1, <2>2, Extremes
  <2>4. \E q \in E : Last(q)
    BY <2>3 DEF Starts
  <2> DEFINE q == CHOOSE q \in E : Last(q)
  <2>5. q \in E /\ Last(q)
    BY <2>4
  <2>6. PreviousEnd(P, p) = q.end
    BY <1>2 DEF PreviousEnd
  <2> HIDE DEF q
  <2> QED BY <2>5, <2>6 DEF Earlier
<1> QED BY <1>1, <1>2

-----------------------------------------------------------------------------
(* How a write changes the series *)

\* q is what p became.
Became(p, q, F) ==
  /\ q.start = p.start /\ q.end = p.end /\ q.kind = p.kind
  /\ p.final => q.final
  /\ EmitsRow(p) => EmitsRow(q)
  /\ p.start \notin F => q.val = p.val

\* q is a point behind all others, or one that fills a hole older than the
\* window and that the feed F names.
Joins(q, P, u, F) ==
  \/ \A p \in P : p.start < q.start
  \/ /\ q.start \in F /\ q.final /\ q.end <= u
     /\ \A p \in P : p.start > q.end =>
          q.end < u \/ \E x \in P : q.start < x.start /\ x.start < p.start

\* The series P of a window from o on became Q, of a window from u on.
Grown(P, o, Q, u, F) ==
  /\ IsSeries(P) /\ IsSeries(Q)
  /\ o \in Int /\ u \in Int /\ o <= u
  /\ \A p \in P : \E q \in Q : Became(p, q, F)
  /\ \A q \in Q : q.start \notin Starts(P) => Joins(q, P, u, F)

\* A point of the final prefix stays in it.
LEMMA PrefixGrows ==
  ASSUME NEW P, NEW o, NEW Q, NEW u, NEW F, Grown(P, o, Q, u, F),
         NEW p \in FinalPrefix(P, o), NEW q \in Q, q.start = p.start
  PROVE  q \in FinalPrefix(Q, u)
<1>1. /\ IsSeries(P) /\ IsSeries(Q) /\ o \in Int /\ u \in Int /\ o <= u
      /\ \A x \in P : \E y \in Q : Became(x, y, F)
      /\ \A y \in Q : y.start \notin Starts(P) => Joins(y, P, u, F)
  BY DEF Grown
<1>2. /\ \A x \in P : x.start \in Nat /\ x.end \in Nat /\ x.start < x.end
      /\ \A y \in Q : y.start \in Nat /\ y.end \in Nat /\ y.start < y.end
  BY <1>1 DEF IsSeries, PointType
<1>3. p \in P /\ \A x \in P : x.start <= p.start => ~Blocks(P, x, o)
  BY DEF FinalPrefix
<1>4. SUFFICES ASSUME NEW y \in Q, y.start <= q.start, Blocks(Q, y, u)
               PROVE  FALSE
  BY DEF FinalPrefix
<1>5. ASSUME y.start \notin Starts(P)
      PROVE  y.final /\ y.end <= u /\ y.start \in F
  <2>1. Joins(y, P, u, F)
    BY <1>1, <1>5
  <2>2. y.start <= p.start
    BY <1>4
  <2>3. ~(p.start < y.start)
    BY <1>2, <1>3, <2>2
  <2> QED BY <1>3, <2>1, <2>3 DEF Joins
<1>6. y.final
  <2>1. CASE y.start \in Starts(P)
    <3>1. PICK x \in P : x.start = y.start
      BY <2>1 DEF Starts
    <3>2. PICK z \in Q : Became(x, z, F)
      BY <1>1
    <3>3. z = y
      BY <1>1, <3>1, <3>2 DEF Became, IsSeries
    <3>4. x.final
      BY <1>3, <1>4, <3>1 DEF Blocks
    <3> QED BY <3>2, <3>3, <3>4 DEF Became
  <2> QED BY <1>5, <2>1
<1>7. y.start > PreviousEnd(Q, y) /\ PreviousEnd(Q, y) >= u
  BY <1>4, <1>6 DEF Blocks
<1>8. PICK x \in Q : /\ x.start < y.start
                     /\ \A z \in Q : z.start < y.start => z.start <= x.start
                     /\ PreviousEnd(Q, y) = x.end
  BY <1>1, <1>2, <1>7, PreviousEndIs
<1>9. y.start > x.end /\ x.end >= u
  BY <1>7, <1>8
<1>10. y.start \in Starts(P)
  <2>1. y.start < y.end
    BY <1>2
  <2> QED BY <1>1, <1>2, <1>5, <1>9, <2>1
<1>11. PICK v \in P : v.start = y.start
  BY <1>10 DEF Starts
<1>12. \A z \in P : z.start < v.start => z.start <= x.start
  <2> SUFFICES ASSUME NEW z \in P, z.start < v.start  PROVE z.start <= x.start
    OBVIOUS
  <2>1. PICK w \in Q : Became(z, w, F)
    BY <1>1
  <2> QED BY <1>8, <1>11, <2>1 DEF Became
<1>13. CASE x.start \in Starts(P)
  <2>1. PICK z \in P : z.start = x.start
    BY <1>13 DEF Starts
  <2>2. PICK w \in Q : Became(z, w, F)
    BY <1>1
  <2>3. w = x
    BY <1>1, <2>1, <2>2 DEF Became, IsSeries
  <2>4. z.end = x.end
    BY <2>2, <2>3 DEF Became
  <2>5. PreviousEnd(P, v) = z.end
    <3>1. v.start \in Nat /\ z.start < v.start
      BY <1>2, <1>8, <1>11, <2>1
    <3>2. z \in Earlier(P, v)
      BY <3>1 DEF Earlier
    <3>3. PICK a \in P : /\ a.start < v.start
                         /\ \A b \in P : b.start < v.start => b.start <= a.start
                         /\ PreviousEnd(P, v) = a.end
      BY <1>1, <3>1, <3>2, PreviousEndIs
    <3>4. a.start = z.start
      BY <1>2, <1>12, <2>1, <3>1, <3>3
    <3>5. a = z
      BY <1>1, <3>4 DEF IsSeries
    <3> QED BY <3>3, <3>5
  <2>6. v.start > PreviousEnd(P, v) /\ PreviousEnd(P, v) >= o
    BY <1>1, <1>2, <1>9, <1>11, <2>4, <2>5
  <2>7. Blocks(P, v, o)
    BY <2>6 DEF Blocks
  <2>8. v.start <= p.start
    BY <1>4, <1>11
  <2> QED BY <1>3, <2>7, <2>8
<1>14. CASE x.start \notin Starts(P)
  <2>1. Joins(x, P, u, F)
    BY <1>1, <1>14
  <2>2. ~(v.start < x.start) /\ v.start > x.end
    BY <1>2, <1>8, <1>9, <1>11
  <2>3. x.end < u \/ \E z \in P : x.start < z.start /\ z.start < v.start
    BY <1>2, <2>1, <2>2 DEF Joins
  <2> QED BY <1>1, <1>2, <1>9, <1>12, <2>3
<1> QED BY <1>13, <1>14

\* Before the first start the feed names, nothing is added to the series among
\* its old points.
LEMMA NothingBefore ==
  ASSUME NEW P, NEW o, NEW Q, NEW u, NEW F, Grown(P, o, Q, u, F),
         NEW t \in Starts(P), \A s \in F : t < s,
         NEW q \in Q, q.start <= t
  PROVE  \E p \in P : p.start = q.start /\ Became(p, q, F)
<1>1. /\ IsSeries(P) /\ IsSeries(Q)
      /\ \A x \in P : \E y \in Q : Became(x, y, F)
      /\ \A y \in Q : y.start \notin Starts(P) => Joins(y, P, u, F)
      /\ t \in Int /\ q.start \in Int
  BY DEF Grown, IsSeries, PointType, Starts
<1>2. q.start \in Starts(P)
  <2>1. SUFFICES ASSUME q.start \notin Starts(P)  PROVE FALSE
    OBVIOUS
  <2>2. Joins(q, P, u, F)
    BY <1>1, <2>1
  <2>3. ~(t < q.start)
    BY <1>1
  <2>4. q.start \notin F
    BY <1>1, <2>3
  <2> QED BY <2>2, <2>3, <2>4 DEF Joins, Starts
<1>3. PICK p \in P : p.start = q.start
  BY <1>2 DEF Starts
<1>4. PICK y \in Q : Became(p, y, F)
  BY <1>1
<1>5. y = q
  BY <1>1, <1>3, <1>4 DEF Became, IsSeries
<1> QED BY <1>3, <1>4, <1>5

\* Up to there the totals stay.
LEMMA TotalStays ==
  ASSUME NEW P, NEW o, NEW Q, NEW u, NEW F, Grown(P, o, Q, u, F),
         NEW t \in Starts(P), \A s \in F : t < s
  PROVE  Total(P, t) = Total(Q, t)
<1>1. /\ IsSeries(P) /\ IsSeries(Q)
      /\ \A x \in P : \E y \in Q : Became(x, y, F)
  BY DEF Grown
<1>2. t \in Int /\ \A x \in P : x.start \in Int
  BY <1>1 DEF IsSeries, PointType, Starts
<1> DEFINE S == UpTo(P, t)
           T == UpTo(Q, t)
           f == [x \in S |-> CHOOSE y \in T : Became(x, y, F)]
<1>3. ASSUME NEW x \in S  PROVE \E y \in T : Became(x, y, F)
  BY <1>1 DEF UpTo, Became
<1>4. \A x \in S : f[x] \in T /\ Became(x, f[x], F)
  BY <1>3
<1>5. f \in [S -> T]
  BY <1>4
<1>6. \A x \in S : x.start \notin F
  BY <1>2 DEF UpTo
<1>7. \A x \in S : State(f[x]) = State(x)
  <2> HIDE DEF f, S
  <2> QED BY <1>4, <1>6 DEF State, Became
<1>8. \A x, y \in S : f[x] = f[y] => x = y
  <2>1. S \subseteq P
    BY DEF UpTo
  <2> HIDE DEF f, S
  <2> QED BY <1>1, <1>4, <2>1 DEF Became, IsSeries
<1>9. ASSUME NEW y \in T  PROVE \E x \in S : f[x] = y
  <2>1. y \in Q /\ y.start <= t
    BY DEF UpTo
  <2>2. PICK x \in P : x.start = y.start /\ Became(x, y, F)
    BY <2>1, NothingBefore
  <2>3. x \in S
    BY <2>1, <2>2 DEF UpTo
  <2>4. f[x] \in Q /\ f[x].start = y.start
    <3>1. f[x] \in T /\ Became(x, f[x], F)
      BY <1>4, <2>3
    <3> HIDE DEF f
    <3> QED BY <2>2, <3>1 DEF UpTo, Became
  <2>5. f[x] = y
    BY <1>1, <2>1, <2>4 DEF IsSeries
  <2> QED BY <2>3, <2>5
<1>10. IsFiniteSet(S) /\ Valued(S) /\ IsFiniteSet(T) /\ Valued(T)
  BY <1>1, SeriesFacts
<1> HIDE DEF f, S, T
<1>11. MapThenSumSet(State, S) = MapThenSumSet(State, T)
  BY <1>5, <1>7, <1>8, <1>9, <1>10, SumsAgree
<1> QED BY <1>11 DEF Total, S, T

\* The rows of the fold stay, and up to there none joins them.
LEMMA EmittedGrows ==
  ASSUME NEW P, NEW o, NEW Q, NEW u, NEW F, Grown(P, o, Q, u, F)
  PROVE  /\ Emitted(P, o) \subseteq Emitted(Q, u)
         /\ \A t \in Emitted(Q, u), z \in Emitted(P, o) :
              t <= z /\ (\A s \in F : t < s) => t \in Emitted(P, o)
<1>1. /\ IsSeries(P) /\ IsSeries(Q)
      /\ \A x \in P : \E y \in Q : Became(x, y, F)
      /\ \A y \in Q : y.start \notin Starts(P) => Joins(y, P, u, F)
  BY DEF Grown
<1>2. ASSUME NEW t \in Emitted(P, o)  PROVE t \in Emitted(Q, u)
  <2>1. PICK p \in FinalPrefix(P, o) : p.start = t /\ EmitsRow(p)
    BY DEF Emitted, Starts
  <2>2. p \in P
    BY DEF FinalPrefix
  <2>3. PICK q \in Q : Became(p, q, F)
    BY <1>1, <2>2
  <2>4. q \in FinalPrefix(Q, u)
    BY <2>3, PrefixGrows DEF Became
  <2> QED BY <2>1, <2>3, <2>4 DEF Emitted, Starts, Became
<1>3. ASSUME NEW t \in Emitted(Q, u), NEW z \in Emitted(P, o),
             t <= z, \A s \in F : t < s
      PROVE  t \in Emitted(P, o)
  <2>1. PICK q \in FinalPrefix(Q, u) : q.start = t /\ EmitsRow(q)
    BY DEF Emitted, Starts
  <2>2. PICK a \in FinalPrefix(P, o) : a.start = z
    BY DEF Emitted, Starts
  <2>3. q \in Q /\ a \in P
    BY DEF FinalPrefix
  <2>4. t \in Int /\ z \in Int
    BY <1>1, <2>1, <2>2, <2>3 DEF IsSeries, PointType
  <2>5. t \in Starts(P)
    <3>1. SUFFICES ASSUME t \notin Starts(P)  PROVE FALSE
      OBVIOUS
    <3>2. Joins(q, P, u, F)
      BY <1>1, <2>1, <2>3, <3>1
    <3>3. ~(a.start < q.start) /\ q.start \notin F
      BY <1>3, <2>1, <2>2, <2>4
    <3> QED BY <2>3, <3>2, <3>3 DEF Joins
  <2>6. PICK p \in P : p.start = q.start /\ Became(p, q, F)
    BY <1>3, <2>1, <2>3, <2>4, <2>5, NothingBefore
  <2>7. p \in FinalPrefix(P, o)
    BY <1>1, <1>3, <2>1, <2>2, <2>6, PrefixFacts
  <2>8. EmitsRow(p)
    <3>1. p.start \notin F
      BY <1>3, <2>1, <2>4, <2>6
    <3> QED BY <2>1, <2>6, <3>1 DEF Became, EmitsRow
  <2> QED BY <2>1, <2>6, <2>7, <2>8 DEF Emitted, Starts
<1> QED BY <1>2, <1>3

-----------------------------------------------------------------------------
(* What the recorder holds *)

\* A statistics table whose sums never rewind.
Table(r) ==
  /\ DOMAIN r \subseteq Int
  /\ IsFiniteSet(DOMAIN r)
  /\ \A s \in DOMAIN r : r[s] \in Nat
  /\ \A s, t \in DOMAIN r : s < t => r[s] <= r[t]

\* The sum the series continues from.
Past(r) == {t \in DOMAIN r : t < 0}
Base(r) == IF Past(r) = {} THEN 0 ELSE r[Max(Past(r))]

\* The table z holds the fold of the final prefix, but for what the feed names.
Recorded(P, o, F, z) ==
  /\ \A t \in DOMAIN z : t >= 0 => t \in Emitted(P, o)
  /\ \A t \in DOMAIN z :
       t >= 0 /\ (\A s \in F : t < s) => z[t] = Base(z) + Total(P, t)
  /\ \A t \in Emitted(P, o), x \in DOMAIN z :
       t <= x /\ (\A s \in F : t < s) => t \in DOMAIN z

\* It holds all of it.
Complete(P, o, z) ==
  \A t \in Emitted(P, o) : t \in DOMAIN z /\ z[t] = Base(z) + Total(P, t)

LEMMA RecordedGrows ==
  ASSUME NEW P, NEW o, NEW Q, NEW u, NEW F, Grown(P, o, Q, u, F),
         NEW E, E \subseteq F, NEW z, Table(z), Recorded(P, o, E, z)
  PROVE  Recorded(Q, u, F, z)
<1>1. /\ IsSeries(P) /\ IsSeries(Q)
      /\ Emitted(P, o) \subseteq Starts(P) /\ Emitted(Q, u) \subseteq Starts(Q)
      /\ Starts(P) \subseteq Nat /\ Starts(Q) \subseteq Nat
  BY PrefixFacts DEF Grown
<1>2. \A t \in DOMAIN z : t >= 0 => t \in Emitted(P, o)
  BY DEF Recorded
<1>3. \A t \in DOMAIN z : t >= 0 => t \in Emitted(Q, u)
  BY <1>2, EmittedGrows
<1>4. ASSUME NEW t \in DOMAIN z, t >= 0, \A s \in F : t < s
      PROVE  z[t] = Base(z) + Total(Q, t)
  <2>1. t \in Starts(P)
    BY <1>1, <1>2, <1>4
  <2>2. Total(P, t) = Total(Q, t)
    BY <1>4, <2>1, TotalStays
  <2>3. z[t] = Base(z) + Total(P, t)
    BY <1>4 DEF Recorded
  <2> QED BY <2>2, <2>3
<1>5. ASSUME NEW t \in Emitted(Q, u), NEW x \in DOMAIN z, t <= x, \A s \in F : t < s
      PROVE  t \in DOMAIN z
  <2>1. x \in Emitted(P, o)
    <3>1. x \in Int /\ t \in Nat
      BY <1>1 DEF Table
    <3>2. x >= 0
      BY <1>5, <3>1
    <3> QED BY <1>2, <3>2
  <2>2. t \in Emitted(P, o)
    BY <1>5, <2>1, EmittedGrows
  <2> QED BY <1>5, <2>2 DEF Recorded
<1> QED BY <1>3, <1>4, <1>5 DEF Recorded

-----------------------------------------------------------------------------
(* The series of an archive *)

\* Days as spans of hours.
LEMMA DayArith ==
  /\ \A d \in Int : d * DayLen \in Int /\ (d + 1) * DayLen = d * DayLen + DayLen
  /\ \A d \in Nat : d * DayLen \in Nat
  /\ \A d, e \in Int : d < e => d * DayLen + DayLen <= e * DayLen
  /\ \A d, e \in Int : d * DayLen = e * DayLen => d = e
  /\ \A d \in DayIds : d \in Nat /\ d * DayLen \in Hours /\ (d + 1) * DayLen <= Days * DayLen
  /\ DayLen \in Nat /\ DayLen > 0 /\ Days \in Nat /\ Days * DayLen \in Nat
<1>1. DayLen \in Nat /\ DayLen > 0 /\ Days \in Nat
  BY ExporterAssumption
<1>2. \A d \in Int : d * DayLen \in Int /\ (d + 1) * DayLen = d * DayLen + DayLen
  BY <1>1
<1>3. \A d \in Nat : d * DayLen \in Nat
  BY <1>1
<1>4. ASSUME NEW d \in Int, NEW e \in Int, d < e
      PROVE  d * DayLen + DayLen <= e * DayLen
  <2>1. e - d - 1 \in Nat
    BY <1>4
  <2>2. (e - d - 1) * DayLen \in Nat
    BY <1>1, <2>1
  <2>3. e * DayLen = d * DayLen + DayLen + (e - d - 1) * DayLen
    BY <1>1, <1>4
  <2> QED BY <1>1, <1>2, <2>2, <2>3
<1>5. ASSUME NEW d \in Int, NEW e \in Int, d * DayLen = e * DayLen
      PROVE  d = e
  <2>1. ~(d < e)
    BY <1>1, <1>2, <1>4, <1>5
  <2>2. ~(e < d)
    BY <1>1, <1>2, <1>4, <1>5
  <2> QED BY <2>1, <2>2
<1>6. ASSUME NEW d \in DayIds
      PROVE  d \in Nat /\ d * DayLen \in Hours /\ (d + 1) * DayLen <= Days * DayLen
  <2>1. d \in Nat /\ d < Days
    BY <1>1, <1>6 DEF DayIds
  <2>2. d * DayLen + DayLen <= Days * DayLen
    BY <1>1, <1>4, <2>1
  <2> QED BY <1>1, <1>2, <1>3, <2>1, <2>2 DEF Hours
<1>7. Days * DayLen \in Nat
  BY <1>1, <1>3
<1> QED BY <1>1, <1>2, <1>3, <1>4, <1>5, <1>6, <1>7

HourPt(hr, o, h) ==
  [kind |-> "hour", start |-> h, end |-> h + 1, val |-> hr[h].val,
   final |-> hr[h].complete \/ h < o]

DayPt(dy, d) ==
  [kind |-> "day", start |-> d * DayLen, end |-> (d + 1) * DayLen,
   val |-> dy[d].val, final |-> TRUE]

\* The days that are represented by their bucket.
Bucketed(hr, dy, o) ==
  {d \in DayIds :
     /\ dy[d] # NULL
     /\ (d + 1) * DayLen <= o
     /\ \A h \in Hours : d * DayLen <= h /\ h < (d + 1) * DayLen => hr[h] = NULL}

Known(hr) == {h \in Hours : hr[h] # NULL}

PointsOf(hr, dy, o) ==
  {HourPt(hr, o, h) : h \in Known(hr)} \cup {DayPt(dy, d) : d \in Bucketed(hr, dy, o)}

HourlyOf(hr) ==
  {[start |-> h, val |-> hr[h].val, complete |-> hr[h].complete] :
     h \in {x \in Hours : hr[x] # NULL}}

DailyOf(dy) ==
  {[start |-> d * DayLen, end |-> (d + 1) * DayLen, val |-> dy[d].val] :
     d \in {x \in DayIds : dy[x] # NULL}}

LEMMA PointsAre ==
  ASSUME NEW hr, NEW dy, NEW o
  PROVE  BuildPoints(HourlyOf(hr), DailyOf(dy), o) = PointsOf(hr, dy, o)
<1> DEFINE H == HourlyOf(hr)
           D == DailyOf(dy)
           bucket(d) == [start |-> d * DayLen, end |-> (d + 1) * DayLen, val |-> dy[d].val]
           slot(h) == [start |-> h, val |-> hr[h].val, complete |-> hr[h].complete]
<1>0. H = {slot(h) : h \in Known(hr)}
  BY DEF HourlyOf, Known
<1>1. {HourPoint(b, o) : b \in H} = {HourPt(hr, o, h) : h \in Known(hr)}
  <2>1. \A h : HourPoint(slot(h), o) = HourPt(hr, o, h)
    BY DEF HourPoint, HourPt
  <2> HIDE DEF H, slot
  <2> QED BY <1>0, <2>1
<1>2. ASSUME NEW d \in DayIds
      PROVE  Eligible(bucket(d), H, o) <=>
               /\ (d + 1) * DayLen <= o
               /\ \A h \in Hours : d * DayLen <= h /\ h < (d + 1) * DayLen => hr[h] = NULL
  <2>1. \A h : slot(h).start = h
    OBVIOUS
  <2>2. (\A b \in H : ~(d * DayLen <= b.start /\ b.start < (d + 1) * DayLen))
          <=> (\A h \in Known(hr) : ~(d * DayLen <= h /\ h < (d + 1) * DayLen))
    <3> HIDE DEF H, slot
    <3> QED BY <1>0, <2>1
  <2>3. Eligible(bucket(d), H, o) <=>
          /\ (d + 1) * DayLen <= o
          /\ \A b \in H : ~(d * DayLen <= b.start /\ b.start < (d + 1) * DayLen)
    <3> HIDE DEF H
    <3> QED BY DEF Eligible
  <2> HIDE DEF H, bucket
  <2> QED BY <2>2, <2>3 DEF Known
<1>3. \A d : DayPoint(bucket(d)) = DayPt(dy, d)
  BY DEF DayPoint, DayPt
<1>4. ASSUME NEW b \in D, Eligible(b, H, o)
      PROVE  \E d \in Bucketed(hr, dy, o) : DayPoint(b) = DayPt(dy, d)
  <2>1. PICK d \in DayIds : dy[d] # NULL /\ b = bucket(d)
    BY DEF DailyOf
  <2>2. d \in Bucketed(hr, dy, o)
    BY <1>2, <1>4, <2>1 DEF Bucketed
  <2> QED BY <1>3, <2>1, <2>2
<1>5. ASSUME NEW d \in Bucketed(hr, dy, o)
      PROVE  bucket(d) \in D /\ Eligible(bucket(d), H, o)
  BY <1>2 DEF Bucketed, DailyOf
<1>6. {DayPoint(b) : b \in {x \in D : Eligible(x, H, o)}}
        = {DayPt(dy, d) : d \in Bucketed(hr, dy, o)}
  <2> HIDE DEF D, H, bucket
  <2> QED BY <1>3, <1>4, <1>5
<1> QED BY <1>1, <1>6 DEF BuildPoints, PointsOf

HourTable == [Hours -> Contents \cup {NULL}]
DayTable  == [DayIds -> [val : DailyValues] \cup {NULL}]

\* Pages come hour after hour: what lies in the window and is not known yet is
\* followed by nothing that is.
Closed(hr, w) ==
  /\ \A h \in Hours : hr[h] # NULL => h < (w + Window) * DayLen
  /\ \A h, k \in Hours :
       h <= k /\ h >= w * DayLen /\ hr[h] = NULL => hr[k] = NULL

LEMMA HourPtType ==
  ASSUME NEW hr \in HourTable, NEW o \in Int, NEW h \in Known(hr)
  PROVE  HourPt(hr, o, h) \in PointType /\ h \in Hours /\ h \in Nat
<1>1. h \in Hours /\ h \in Nat
  BY DayArith DEF Known, Hours
<1>2. hr[h] \in Contents
  BY <1>1 DEF Known, HourTable
<1>3. hr[h].val \in Nat \cup {NULL} /\ hr[h].complete \in BOOLEAN
  BY <1>2, ExporterAssumption
<1>4. (hr[h].complete \/ h < o) \in BOOLEAN
  OBVIOUS
<1> QED BY <1>1, <1>3, <1>4 DEF HourPt, PointType

LEMMA DayPtType ==
  ASSUME NEW hr, NEW dy \in DayTable, NEW o \in Int, NEW d \in Bucketed(hr, dy, o)
  PROVE  /\ DayPt(dy, d) \in PointType
         /\ d \in DayIds /\ d \in Nat /\ d * DayLen \in Hours /\ d * DayLen \in Nat
         /\ d * DayLen < (d + 1) * DayLen
<1>1. d \in DayIds /\ d \in Nat /\ d * DayLen \in Hours
  BY DayArith DEF Bucketed
<1>2. dy[d] \in [val : DailyValues]
  BY <1>1 DEF Bucketed, DayTable
<1>3. dy[d].val \in Nat \cup {NULL}
  BY <1>2, ExporterAssumption
<1>4. d * DayLen \in Nat /\ (d + 1) * DayLen = d * DayLen + DayLen /\ DayLen \in Nat /\ DayLen > 0
  BY <1>1, DayArith
<1> QED BY <1>1, <1>3, <1>4 DEF DayPt, PointType

LEMMA SeriesOfArchive ==
  ASSUME NEW hr \in HourTable, NEW dy \in DayTable, NEW o \in Int
  PROVE  IsSeries(PointsOf(hr, dy, o))
<1> DEFINE P == PointsOf(hr, dy, o)
           HP == {HourPt(hr, o, h) : h \in Known(hr)}
           DP == {DayPt(dy, d) : d \in Bucketed(hr, dy, o)}
<1>1. P \subseteq PointType /\ \A p \in P : p.start < p.end
  <2>1. \A p \in HP : p \in PointType /\ p.start < p.end
    BY HourPtType DEF HourPt
  <2>2. \A p \in DP : p \in PointType /\ p.start < p.end
    BY DayPtType DEF DayPt
  <2> QED BY <2>1, <2>2 DEF PointsOf
<1>2. IsFiniteSet(HP)
  <2>1. IsFiniteSet(Known(hr))
    <3>1. IsFiniteSet(Hours)
      <4>1. 0 \in Int /\ Days * DayLen - 1 \in Int
        BY DayArith
      <4> QED BY <4>1, FS_Interval DEF Hours
    <3> QED BY <3>1, FS_Subset DEF Known
  <2> DEFINE f == [h \in Known(hr) |-> HourPt(hr, o, h)]
  <2>2. f \in Surjection(Known(hr), HP)
    BY DEF Surjection
  <2> QED BY <2>1, <2>2, FS_Surjection
<1>3. IsFiniteSet(DP)
  <2>1. IsFiniteSet(Bucketed(hr, dy, o))
    <3>1. IsFiniteSet(DayIds)
      <4>1. 0 \in Int /\ Days - 1 \in Int
        BY DayArith
      <4> QED BY <4>1, FS_Interval DEF DayIds
    <3> QED BY <3>1, FS_Subset DEF Bucketed
  <2> DEFINE f == [d \in Bucketed(hr, dy, o) |-> DayPt(dy, d)]
  <2>2. f \in Surjection(Bucketed(hr, dy, o), DP)
    BY DEF Surjection
  <2> QED BY <2>1, <2>2, FS_Surjection
<1>4. IsFiniteSet(P)
  BY <1>2, <1>3, FS_Union DEF PointsOf
<1>5. ASSUME NEW p \in P, NEW q \in P, p.start = q.start
      PROVE  p = q
  <2>1. ASSUME NEW h \in Known(hr), NEW d \in Bucketed(hr, dy, o)
        PROVE  h # d * DayLen
    <3>1. hr[h] # NULL /\ h \in Hours
      BY DEF Known
    <3>2. d * DayLen \in Int /\ d * DayLen < (d + 1) * DayLen
      BY DayPtType
    <3>3. d * DayLen <= h /\ h < (d + 1) * DayLen => hr[h] = NULL
      BY <3>1 DEF Bucketed
    <3> QED BY <3>1, <3>2, <3>3
  <2>2. CASE p \in HP /\ q \in HP
    BY <1>5, <2>2 DEF HourPt
  <2>3. CASE p \in HP /\ q \in DP
    BY <1>5, <2>1, <2>3 DEF HourPt, DayPt
  <2>4. CASE p \in DP /\ q \in HP
    BY <1>5, <2>1, <2>4 DEF HourPt, DayPt
  <2>5. CASE p \in DP /\ q \in DP
    <3>1. PICK d \in Bucketed(hr, dy, o) : p = DayPt(dy, d)
      BY <2>5
    <3>2. PICK e \in Bucketed(hr, dy, o) : q = DayPt(dy, e)
      BY <2>5
    <3>3. d * DayLen = e * DayLen /\ d \in Int /\ e \in Int
      BY <1>5, <3>1, <3>2, DayPtType DEF DayPt
    <3>4. d = e
      BY <3>3, DayArith
    <3> QED BY <3>1, <3>2, <3>4
  <2> QED BY <2>2, <2>3, <2>4, <2>5 DEF PointsOf
<1> QED BY <1>1, <1>4, <1>5 DEF IsSeries

\* What the change feed asks to rewrite, given the hours and days it names.
Touched(P, hours, days) ==
  hours \cup ({d * DayLen : d \in days} \cap Starts({p \in P : p.kind = "day"}))

LEMMA TouchedIs ==
  ASSUME NEW hr \in HourTable, NEW dy \in DayTable, NEW o \in Int,
         NEW hours, NEW days \in SUBSET DayIds
  PROVE  Touched(PointsOf(hr, dy, o), hours, days)
           = hours \cup {d * DayLen : d \in days \cap Bucketed(hr, dy, o)}
<1> DEFINE P == PointsOf(hr, dy, o)
           B == Bucketed(hr, dy, o)
<1>1. Starts({p \in P : p.kind = "day"}) = {d * DayLen : d \in B}
  <2>1. /\ \A h : HourPt(hr, o, h).kind # "day"
        /\ \A d : DayPt(dy, d).kind = "day" /\ DayPt(dy, d).start = d * DayLen
    BY DEF HourPt, DayPt
  <2>2. {p \in P : p.kind = "day"} = {DayPt(dy, d) : d \in B}
    <3> HIDE DEF B
    <3> QED BY <2>1 DEF PointsOf, B
  <2> HIDE DEF P, B
  <2> QED BY <2>1, <2>2 DEF Starts
<1>2. \A d, e \in DayIds : d * DayLen = e * DayLen => d = e
  <2>1. \A d \in DayIds : d \in Int
    BY DayArith
  <2> QED BY <2>1, DayArith
<1>3. B \subseteq DayIds
  BY DEF Bucketed
<1>4. {d * DayLen : d \in days} \cap {d * DayLen : d \in B}
        = {d * DayLen : d \in days \cap B}
  <2> HIDE DEF B
  <2> QED BY <1>2, <1>3
<1> HIDE DEF B
<1> QED BY <1>1, <1>4 DEF Touched, B

\* A grid page changes hours of the window, and completes what it changes.
LEMMA HoursGrow ==
  ASSUME NEW hr \in HourTable, NEW dy \in DayTable, NEW w \in Nat, Closed(hr, w),
         NEW new \in HourTable, NEW F,
         \A h \in Hours : new[h] # hr[h] =>
           /\ h \in F /\ h >= w * DayLen /\ new[h] # NULL
           /\ hr[h] # NULL /\ hr[h].complete => new[h].complete
  PROVE  /\ Grown(PointsOf(hr, dy, w * DayLen), w * DayLen,
                  PointsOf(new, dy, w * DayLen), w * DayLen, F)
         /\ Bucketed(new, dy, w * DayLen) = Bucketed(hr, dy, w * DayLen)
<1> DEFINE o == w * DayLen
           P == PointsOf(hr, dy, o)
           Q == PointsOf(new, dy, o)
<1>1. o \in Int
  BY DayArith
<1>2. IsSeries(P) /\ IsSeries(Q)
  BY <1>1, SeriesOfArchive
<1>3. \A h \in Hours : h \in Int
  BY DayArith DEF Hours
<1>4. Bucketed(new, dy, o) = Bucketed(hr, dy, o)
  <2>1. ASSUME NEW d \in DayIds, (d + 1) * DayLen <= o, NEW h \in Hours,
               h < (d + 1) * DayLen
        PROVE  new[h] = hr[h]
    <3>1. (d + 1) * DayLen \in Int
      BY DayArith
    <3>2. h < o
      BY <1>1, <1>3, <2>1, <3>1
    <3> QED BY <1>1, <1>3, <3>2
  <2> QED BY <2>1 DEF Bucketed
<1>5. ASSUME NEW p \in P  PROVE \E q \in Q : Became(p, q, F)
  <2>1. CASE \E d \in Bucketed(hr, dy, o) : p = DayPt(dy, d)
    <3>1. p \in Q
      BY <1>4, <2>1 DEF PointsOf
    <3>2. Became(p, p, F)
      BY DEF Became
    <3> QED BY <3>1, <3>2
  <2>2. CASE \E h \in Known(hr) : p = HourPt(hr, o, h)
    <3>1. PICK h \in Known(hr) : p = HourPt(hr, o, h)
      BY <2>2
    <3>2. h \in Hours /\ hr[h] # NULL
      BY DEF Known
    <3>3. h \in Known(new)
      BY <3>2 DEF Known
    <3>4. HourPt(new, o, h) \in Q
      BY <3>3 DEF PointsOf
    <3>5. hr[h].complete => new[h].complete
      BY <3>2
    <3>6. h \notin F => new[h].val = hr[h].val
      BY <3>2
    <3>7. Became(p, HourPt(new, o, h), F)
      BY <3>1, <3>5, <3>6 DEF Became, HourPt, EmitsRow
    <3> QED BY <3>4, <3>7
  <2> QED BY <2>1, <2>2 DEF PointsOf
<1>6. ASSUME NEW q \in Q, q.start \notin Starts(P)  PROVE Joins(q, P, o, F)
  <2>1. CASE \E d \in Bucketed(new, dy, o) : q = DayPt(dy, d)
    <3>1. q \in P
      BY <1>4, <2>1 DEF PointsOf
    <3> QED BY <1>6, <3>1 DEF Starts
  <2>2. CASE \E h \in Known(new) : q = HourPt(new, o, h)
    <3>1. PICK h \in Known(new) : q = HourPt(new, o, h)
      BY <2>2
    <3>2. h \in Hours /\ new[h] # NULL /\ q.start = h
      BY <3>1 DEF Known, HourPt
    <3>3. hr[h] = NULL
      <4>1. SUFFICES ASSUME hr[h] # NULL  PROVE FALSE
        OBVIOUS
      <4>2. HourPt(hr, o, h) \in P /\ HourPt(hr, o, h).start = h
        BY <3>2, <4>1 DEF PointsOf, Known, HourPt
      <4> QED BY <1>6, <3>2, <4>2 DEF Starts
    <3>4. h >= o
      BY <3>2, <3>3
    <3>5. ASSUME NEW p \in P  PROVE p.start < q.start
      <4>1. CASE \E d \in Bucketed(hr, dy, o) : p = DayPt(dy, d)
        <5>1. PICK d \in Bucketed(hr, dy, o) : p = DayPt(dy, d)
          BY <4>1
        <5>2. d * DayLen < (d + 1) * DayLen /\ d * DayLen \in Nat /\ (d + 1) * DayLen \in Int
          BY <1>1, <5>1, DayPtType, DayArith
        <5>3. (d + 1) * DayLen <= o
          BY <5>1 DEF Bucketed
        <5>4. p.start = d * DayLen
          BY <5>1 DEF DayPt
        <5> HIDE DEF o
        <5> QED BY <1>1, <1>3, <3>2, <3>4, <5>2, <5>3, <5>4
      <4>2. CASE \E k \in Known(hr) : p = HourPt(hr, o, k)
        <5>1. PICK k \in Known(hr) : p = HourPt(hr, o, k)
          BY <4>2
        <5>2. k \in Hours /\ hr[k] # NULL /\ p.start = k
          BY <5>1 DEF Known, HourPt
        <5>3. ~(h <= k)
          BY <3>2, <3>3, <3>4, <5>2 DEF Closed
        <5> QED BY <1>3, <3>2, <5>2, <5>3
      <4> QED BY <4>1, <4>2 DEF PointsOf
    <3> QED BY <3>5 DEF Joins
  <2> QED BY <2>1, <2>2 DEF PointsOf
<1>7. o <= o
  BY <1>1
<1> QED BY <1>1, <1>2, <1>4, <1>5, <1>6, <1>7 DEF Grown

\* A daily read changes at most the bucket of its day.
LEMMA DayGrows ==
  ASSUME NEW hr \in HourTable, NEW dy \in DayTable, NEW w \in Nat, Closed(hr, w),
         NEW d \in DayIds, NEW new \in DayTable, NEW F,
         \A e \in DayIds : e # d => new[e] = dy[e],
         new[d] # NULL, dy[d] = NULL \/ new[d].val # NULL,
         d \in Bucketed(hr, new, w * DayLen) => d * DayLen \in F
  PROVE  /\ Grown(PointsOf(hr, dy, w * DayLen), w * DayLen,
                  PointsOf(hr, new, w * DayLen), w * DayLen, F)
         /\ Bucketed(hr, dy, w * DayLen) \subseteq Bucketed(hr, new, w * DayLen)
<1> DEFINE o == w * DayLen
           P == PointsOf(hr, dy, o)
           Q == PointsOf(hr, new, o)
<1>1. o \in Int /\ o \in Nat
  BY DayArith
<1>2. IsSeries(P) /\ IsSeries(Q)
  BY <1>1, SeriesOfArchive
<1>3. \A h \in Hours : h \in Int
  BY DayArith DEF Hours
<1>4. /\ Bucketed(hr, dy, o) \subseteq Bucketed(hr, new, o)
      /\ \A e \in Bucketed(hr, new, o) : e # d => e \in Bucketed(hr, dy, o)
  BY DEF Bucketed
<1>5. \A e \in DayIds : e # d => DayPt(new, e) = DayPt(dy, e)
  BY DEF DayPt
<1>6. ASSUME NEW p \in P  PROVE \E q \in Q : Became(p, q, F)
  <2>1. CASE \E h \in Known(hr) : p = HourPt(hr, o, h)
    <3>1. p \in Q
      BY <2>1 DEF PointsOf
    <3>2. Became(p, p, F)
      BY DEF Became
    <3> QED BY <3>1, <3>2
  <2>2. CASE \E e \in Bucketed(hr, dy, o) : p = DayPt(dy, e)
    <3>1. PICK e \in Bucketed(hr, dy, o) : p = DayPt(dy, e)
      BY <2>2
    <3>2. DayPt(new, e) \in Q
      BY <1>4, <3>1 DEF PointsOf
    <3>3. e \in DayIds /\ dy[e] # NULL
      BY DEF Bucketed
    <3>4. CASE e # d
      <4>1. Became(p, DayPt(new, e), F)
        BY <1>5, <3>1, <3>3, <3>4 DEF Became
      <4> QED BY <3>2, <4>1
    <3>5. CASE e = d
      <4>1. d * DayLen \in F /\ new[d].val # NULL
        BY <1>4, <3>1, <3>3, <3>5
      <4>2. Became(p, DayPt(new, e), F)
        BY <3>1, <3>5, <4>1 DEF Became, DayPt, EmitsRow
      <4> QED BY <3>2, <4>2
    <3> QED BY <3>4, <3>5
  <2> QED BY <2>1, <2>2 DEF PointsOf
<1>7. ASSUME NEW q \in Q, q.start \notin Starts(P)  PROVE Joins(q, P, o, F)
  <2>1. q \notin P
    BY <1>7 DEF Starts
  <2>2. d \in Bucketed(hr, new, o) /\ q = DayPt(new, d)
    <3>1. PICK e \in Bucketed(hr, new, o) : q = DayPt(new, e)
      BY <2>1 DEF PointsOf
    <3>2. e \in DayIds
      BY DEF Bucketed
    <3>3. e = d
      BY <1>4, <1>5, <2>1, <3>1, <3>2 DEF PointsOf
    <3> QED BY <3>1, <3>3
  <2>3. /\ q.start = d * DayLen /\ q.end = (d + 1) * DayLen /\ q.final
        /\ q.end <= o /\ q.start \in F
    BY <2>2 DEF DayPt, Bucketed
  <2>4. q.start \in Int /\ q.end \in Int /\ q.start < q.end
    BY <1>1, <2>2, <2>3, DayPtType, DayArith
  <2>5. ASSUME NEW p \in P, p.start > q.end, ~(q.end < o)
        PROVE  \E x \in P : q.start < x.start /\ x.start < p.start
    <3>1. q.end = o
      BY <1>1, <2>3, <2>4, <2>5
    <3>2. ~(\E e \in Bucketed(hr, dy, o) : p = DayPt(dy, e))
      <4>1. SUFFICES ASSUME NEW e \in Bucketed(hr, dy, o), p = DayPt(dy, e)
                     PROVE  FALSE
        OBVIOUS
      <4>2. e * DayLen < (e + 1) * DayLen /\ e * DayLen \in Nat /\ (e + 1) * DayLen \in Int
        BY <1>1, DayPtType, DayArith
      <4>3. (e + 1) * DayLen <= o /\ p.start = e * DayLen
        BY <4>1 DEF Bucketed, DayPt
      <4> HIDE DEF o
      <4> QED BY <1>1, <2>5, <3>1, <4>2, <4>3
    <3>3. PICK k \in Known(hr) : p = HourPt(hr, o, k)
      BY <3>2 DEF PointsOf
    <3>4. k \in Hours /\ hr[k] # NULL /\ p.start = k
      BY <3>3 DEF Known, HourPt
    <3>5. o \in Hours /\ o < k
      <4>1. o < k /\ k \in 0 .. Days * DayLen - 1 /\ Days * DayLen \in Nat
        BY <2>5, <3>1, <3>4, DayArith DEF Hours
      <4> HIDE DEF o
      <4> QED BY <1>1, <4>1 DEF Hours
    <3>6. hr[o] # NULL
      <4>1. o <= k /\ o >= w * DayLen
        BY <1>1, <1>3, <3>4, <3>5
      <4> QED BY <3>4, <3>5, <4>1 DEF Closed
    <3>7. HourPt(hr, o, o) \in P /\ HourPt(hr, o, o).start = o
      BY <3>5, <3>6 DEF PointsOf, Known, HourPt
    <3> HIDE DEF o, P
    <3> QED BY <2>4, <2>5, <3>1, <3>7
  <2> QED BY <2>3, <2>5 DEF Joins
<1>8. o <= o
  BY <1>1
<1> QED BY <1>1, <1>2, <1>4, <1>6, <1>7, <1>8 DEF Grown

\* When the window's oldest day passes, a bucket may take its place, behind
\* everything else.
LEMMA WindowGrows ==
  ASSUME NEW hr \in HourTable, NEW dy \in DayTable, NEW w \in Nat, Closed(hr, w),
         NEW F
  PROVE  /\ Grown(PointsOf(hr, dy, w * DayLen), w * DayLen,
                  PointsOf(hr, dy, (w + 1) * DayLen), (w + 1) * DayLen, F)
         /\ Bucketed(hr, dy, w * DayLen) \subseteq Bucketed(hr, dy, (w + 1) * DayLen)
<1> DEFINE o == w * DayLen
           u == (w + 1) * DayLen
           P == PointsOf(hr, dy, o)
           Q == PointsOf(hr, dy, u)
<1>1. o \in Int /\ u \in Int /\ o <= u /\ u = o + DayLen
  BY DayArith
<1>2. IsSeries(P) /\ IsSeries(Q)
  BY <1>1, SeriesOfArchive
<1>3. \A h \in Hours : h \in Int
  BY DayArith DEF Hours
<1>4. Bucketed(hr, dy, o) \subseteq Bucketed(hr, dy, u)
  <2>1. \A d \in DayIds : (d + 1) * DayLen \in Int
    BY DayArith
  <2> HIDE DEF o, u
  <2> QED BY <1>1, <2>1 DEF Bucketed
<1>5. ASSUME NEW p \in P  PROVE \E q \in Q : Became(p, q, F)
  <2>1. CASE \E h \in Known(hr) : p = HourPt(hr, o, h)
    <3>1. PICK h \in Known(hr) : p = HourPt(hr, o, h)
      BY <2>1
    <3>2. HourPt(hr, u, h) \in Q
      BY DEF PointsOf
    <3>3. h \in Int
      BY <1>3 DEF Known
    <3>4. h < o => h < u
      BY <1>1, <3>3
    <3>5. Became(p, HourPt(hr, u, h), F)
      <4> HIDE DEF o, u
      <4> QED BY <3>1, <3>4 DEF Became, HourPt, EmitsRow
    <3> QED BY <3>2, <3>5
  <2>2. CASE \E d \in Bucketed(hr, dy, o) : p = DayPt(dy, d)
    <3>1. p \in Q
      BY <1>4, <2>2 DEF PointsOf
    <3>2. Became(p, p, F)
      BY DEF Became
    <3> QED BY <3>1, <3>2
  <2> QED BY <2>1, <2>2 DEF PointsOf
<1>6. ASSUME NEW q \in Q, q.start \notin Starts(P)  PROVE Joins(q, P, u, F)
  <2>1. ~(\E h \in Known(hr) : q = HourPt(hr, u, h))
    <3>1. SUFFICES ASSUME NEW h \in Known(hr), q = HourPt(hr, u, h)  PROVE FALSE
      OBVIOUS
    <3>2. HourPt(hr, o, h) \in P /\ HourPt(hr, o, h).start = q.start
      BY <3>1 DEF PointsOf, HourPt
    <3> QED BY <1>6, <3>2 DEF Starts
  <2>2. PICK d \in Bucketed(hr, dy, u) : q = DayPt(dy, d)
    BY <2>1 DEF PointsOf
  <2>3. d \notin Bucketed(hr, dy, o)
    <3>1. SUFFICES ASSUME d \in Bucketed(hr, dy, o)  PROVE FALSE
      OBVIOUS
    <3>2. q \in P
      BY <2>2, <3>1 DEF PointsOf
    <3> QED BY <1>6, <3>2 DEF Starts
  <2>4. /\ d \in DayIds /\ d \in Nat
        /\ \A h \in Hours : d * DayLen <= h /\ h < (d + 1) * DayLen => hr[h] = NULL
        /\ (d + 1) * DayLen <= u /\ ~((d + 1) * DayLen <= o)
    BY <2>3, DayArith DEF Bucketed
  <2>5. d = w
    <3>1. DayLen \in Nat /\ DayLen > 0 /\ \A x \in Int : x * DayLen \in Int
      BY DayArith
    <3>2. ~(d < w)
      <4>1. d < w => d * DayLen + DayLen <= w * DayLen
        BY <2>4, DayArith
      <4>2. (d + 1) * DayLen = d * DayLen + DayLen
        BY <2>4, DayArith
      <4> QED BY <2>4, <4>1, <4>2
    <3>3. ~(w < d)
      <4>1. SUFFICES ASSUME w < d  PROVE FALSE
        OBVIOUS
      <4>2. w * DayLen + DayLen <= d * DayLen
        BY <2>4, <4>1, DayArith
      <4>3. (d + 1) * DayLen = d * DayLen + DayLen /\ u = w * DayLen + DayLen
        BY <2>4, DayArith
      <4> HIDE DEF u
      <4> QED BY <2>4, <3>1, <4>2, <4>3
    <3> QED BY <2>4, <3>2, <3>3
  <2>6. q.start = o /\ o \in Hours /\ hr[o] = NULL
    <3>1. q.start = o
      BY <2>2, <2>5 DEF DayPt
    <3>2. o \in Hours
      BY <2>4, <2>5, DayArith
    <3>3. o < u
      BY <1>1, DayArith
    <3>4. hr[o] = NULL
      BY <1>1, <2>4, <2>5, <3>2, <3>3
    <3> QED BY <3>1, <3>2, <3>4
  <2>7. ASSUME NEW p \in P  PROVE p.start < o
    <3>1. CASE \E k \in Known(hr) : p = HourPt(hr, o, k)
      <4>1. PICK k \in Known(hr) : p = HourPt(hr, o, k)
        BY <3>1
      <4>2. k \in Hours /\ hr[k] # NULL /\ p.start = k
        BY <4>1 DEF Known, HourPt
      <4>3. ~(o <= k)
        <5>1. o >= w * DayLen
          BY <1>1
        <5> QED BY <2>6, <4>2, <5>1 DEF Closed
      <4> HIDE DEF o
      <4> QED BY <1>1, <1>3, <4>2, <4>3
    <3>2. CASE \E e \in Bucketed(hr, dy, o) : p = DayPt(dy, e)
      <4>1. PICK e \in Bucketed(hr, dy, o) : p = DayPt(dy, e)
        BY <3>2
      <4>2. e * DayLen < (e + 1) * DayLen /\ e * DayLen \in Nat /\ (e + 1) * DayLen \in Int
        BY <1>1, DayPtType, DayArith
      <4>3. (e + 1) * DayLen <= o /\ p.start = e * DayLen
        BY <4>1 DEF Bucketed, DayPt
      <4> HIDE DEF o
      <4> QED BY <1>1, <4>2, <4>3
    <3> QED BY <3>1, <3>2 DEF PointsOf
  <2> QED BY <2>6, <2>7 DEF Joins
<1> QED BY <1>1, <1>2, <1>4, <1>5, <1>6 DEF Grown

-----------------------------------------------------------------------------
(* Imports *)

\* The table r after the recorder has taken the rows of an import.
Taken(r, rows) ==
  [s \in DOMAIN r \cup DOMAIN rows |->
     IF s \in DOMAIN rows THEN rows[s].sum ELSE r[s]]

\* z holds every row of r, and what predates the series unchanged.
Carries(r, z) ==
  /\ DOMAIN r \subseteq DOMAIN z
  /\ \A t \in DOMAIN z : t < 0 => t \in DOMAIN r /\ r[t] = z[t]

\* Rows of the fold of P, from some start on, that complete what z holds.
Completes(P, o, z, rows) ==
  /\ DOMAIN rows \subseteq Emitted(P, o)
  /\ \A t \in DOMAIN rows : rows[t].sum = Base(z) + Total(P, t)
  /\ \A t \in DOMAIN rows, u \in Emitted(P, o) : t <= u => u \in DOMAIN rows
  /\ \A t \in Emitted(P, o) : t \notin DOMAIN rows =>
       t \in DOMAIN z /\ z[t] = Base(z) + Total(P, t)

LEMMA BaseFacts ==
  ASSUME NEW z, Table(z)
  PROVE  /\ Base(z) \in Nat
         /\ \A t \in DOMAIN z : t < 0 => z[t] <= Base(z)
         /\ \A r : Table(r) /\ Carries(r, z) => Base(r) = Base(z)
<1>1. CASE Past(z) = {}
  BY <1>1 DEF Past, Base, Carries
<1>2. CASE Past(z) # {}
  <2>1. Past(z) \subseteq DOMAIN z /\ Past(z) \subseteq Int /\ IsFiniteSet(Past(z))
    BY FS_Subset DEF Past, Table
  <2>2. Max(Past(z)) \in Past(z) /\ \A x \in Past(z) : x <= Max(Past(z))
    BY <1>2, <2>1, Extremes
  <2>3. Base(z) = z[Max(Past(z))]
    BY <1>2 DEF Base
  <2>4. Base(z) \in Nat
    BY <2>1, <2>2, <2>3 DEF Table
  <2>5. ASSUME NEW t \in DOMAIN z, t < 0  PROVE z[t] <= Base(z)
    <3>1. t \in Past(z)
      BY <2>5 DEF Past
    <3>2. CASE t = Max(Past(z))
      BY <2>3, <2>4, <3>2
    <3>3. CASE t # Max(Past(z))
      <4>1. t < Max(Past(z))
        BY <2>1, <2>2, <3>1, <3>3
      <4> QED BY <2>1, <2>2, <2>3, <4>1 DEF Table
    <3> QED BY <3>2, <3>3
  <2>6. ASSUME NEW r, Table(r), Carries(r, z)  PROVE Base(r) = Base(z)
    <3>1. Past(r) = Past(z) /\ \A t \in Past(z) : r[t] = z[t]
      BY <2>6 DEF Past, Carries
    <3> QED BY <2>2, <3>1 DEF Base
  <2> QED BY <2>4, <2>5, <2>6
<1> QED BY <1>1, <1>2

LEMMA Imported ==
  ASSUME NEW P, IsSeries(P), NEW o, NEW z, Table(z),
         \A t \in DOMAIN z : t >= 0 => t \in Emitted(P, o),
         NEW rows, Completes(P, o, z, rows)
  PROVE  /\ Table(Taken(z, rows))
         /\ Carries(z, Taken(z, rows))
         /\ Base(Taken(z, rows)) = Base(z)
         /\ Complete(P, o, Taken(z, rows))
         /\ \A t \in DOMAIN Taken(z, rows) : t >= 0 => t \in Emitted(P, o)
<1> DEFINE y == Taken(z, rows)
           E == Emitted(P, o)
<1>1. E \subseteq Nat /\ IsFiniteSet(E)
  BY PrefixFacts
<1>2. DOMAIN rows \subseteq E
  BY DEF Completes
<1>3. DOMAIN y = DOMAIN z \cup DOMAIN rows
  BY DEF Taken
<1>4. \A t \in DOMAIN y : t \in Int /\ (t >= 0 => t \in E)
  BY <1>1, <1>2, <1>3 DEF Table
<1>5. ASSUME NEW t \in E  PROVE t \in DOMAIN y /\ y[t] = Base(z) + Total(P, t)
  <2>1. CASE t \in DOMAIN rows
    BY <1>3, <2>1 DEF Taken, Completes
  <2>2. CASE t \notin DOMAIN rows
    BY <1>3, <2>2 DEF Taken, Completes
  <2> QED BY <2>1, <2>2
<1>6. \A t \in DOMAIN y : t < 0 => t \in DOMAIN z /\ y[t] = z[t]
  <2>1. \A t \in DOMAIN rows : ~(t < 0)
    BY <1>1, <1>2
  <2> QED BY <1>3, <2>1 DEF Taken
<1>7. Carries(z, y)
  <2> HIDE DEF y
  <2> QED BY <1>3, <1>6 DEF Carries
<1>8. \A t \in Int : Total(P, t) \in Nat
  BY SeriesFacts
<1>9. Base(z) \in Nat /\ \A t \in DOMAIN z : t < 0 => z[t] <= Base(z)
  BY BaseFacts
<1> HIDE DEF y, E
<1>10. Table(y)
  <2>1. DOMAIN y \subseteq Int
    BY <1>4
  <2>2. IsFiniteSet(DOMAIN y)
    <3>1. IsFiniteSet(DOMAIN rows) /\ IsFiniteSet(DOMAIN z)
      BY <1>1, <1>2, FS_Subset DEF Table
    <3> QED BY <1>3, <3>1, FS_Union
  <2>3. ASSUME NEW t \in DOMAIN y  PROVE y[t] \in Nat
    <3>1. CASE t < 0
      BY <1>6, <3>1 DEF Table
    <3>2. CASE ~(t < 0)
      BY <1>4, <1>5, <1>8, <1>9, <3>2
    <3> QED BY <3>1, <3>2
  <2>4. ASSUME NEW s \in DOMAIN y, NEW t \in DOMAIN y, s < t  PROVE y[s] <= y[t]
    <3>1. s \in Int /\ t \in Int
      BY <2>1
    <3>2. CASE s < 0 /\ t < 0
      BY <1>6, <2>4, <3>2 DEF Table
    <3>3. CASE s < 0 /\ ~(t < 0)
      <4>1. y[t] = Base(z) + Total(P, t) /\ Total(P, t) \in Nat
        BY <1>4, <1>5, <1>8, <3>1, <3>3
      <4>2. y[s] <= Base(z) /\ y[s] \in Nat
        BY <1>6, <1>9, <2>3, <3>3
      <4> QED BY <1>9, <4>1, <4>2
    <3>4. CASE ~(s < 0)
      <4>1. s \in E /\ t \in E
        BY <1>4, <2>4, <3>1, <3>4
      <4>2. Total(P, s) <= Total(P, t)
        BY <2>4, <3>1, SeriesFacts
      <4> QED BY <1>5, <1>8, <1>9, <3>1, <4>1, <4>2
    <3> QED BY <3>1, <3>2, <3>3, <3>4
  <2> QED BY <2>1, <2>2, <2>3, <2>4 DEF Table
<1>11. Base(y) = Base(z)
  BY <1>7, <1>10, BaseFacts
<1>12. Complete(P, o, y)
  BY <1>5, <1>11 DEF Complete, E
<1>13. \A t \in DOMAIN y : t >= 0 => t \in E
  BY <1>4
<1> QED BY <1>7, <1>10, <1>11, <1>12, <1>13 DEF y, E

\* A complete table is recorded, whatever the feed names.
LEMMA CompleteIsRecorded ==
  ASSUME NEW P, NEW o, NEW z, NEW F, Complete(P, o, z),
         \A t \in DOMAIN z : t >= 0 => t \in Emitted(P, o)
  PROVE  Recorded(P, o, F, z)
BY DEF Complete, Recorded

-----------------------------------------------------------------------------
(* The queue *)

\* T takes the recorder from r to z, import by import.
Path(T, r, q, z) ==
  /\ T[0] = r /\ T[Len(q)] = z
  /\ \A j \in 0 .. Len(q) : Table(T[j]) /\ Carries(T[j], z)
  /\ \A j \in 0 .. Len(q) - 1 : T[j + 1] = Taken(T[j], q[j + 1])

\* Once it has taken the queued imports q, the recorder holds z.
Pending(r, q, z) ==
  /\ \E S : q \in Seq(S)
  /\ \E T : Path(T, r, q, z)

LEMMA PendingFacts ==
  ASSUME NEW r, NEW q, NEW z, Pending(r, q, z)
  PROVE  /\ Table(r) /\ Table(z) /\ Carries(r, z) /\ Base(r) = Base(z)
         /\ q = <<>> => r = z
<1>1. PICK S : q \in Seq(S)
  BY DEF Pending
<1>2. PICK T : Path(T, r, q, z)
  BY DEF Pending
<1>3. Len(q) \in Nat /\ (q = <<>> => Len(q) = 0)
  BY <1>1
<1>4. Table(r) /\ Table(z) /\ Carries(r, z)
  BY <1>2, <1>3 DEF Path
<1> QED BY <1>2, <1>3, <1>4, BaseFacts DEF Path

\* The recorder takes the next import.
LEMMA PendingHead ==
  ASSUME NEW r, NEW q, NEW z, Pending(r, q, z), q # <<>>
  PROVE  Pending(Taken(r, Head(q)), Tail(q), z)
<1>1. PICK S : q \in Seq(S)
  BY DEF Pending
<1>2. PICK T : Path(T, r, q, z)
  BY DEF Pending
<1> DEFINE n == Len(q)
           U == [j \in 0 .. n - 1 |-> T[j + 1]]
<1>3. /\ n \in Nat /\ n > 0
      /\ Tail(q) \in Seq(S) /\ Len(Tail(q)) = n - 1
      /\ \A j \in 1 .. n - 1 : Tail(q)[j] = q[j + 1]
      /\ Head(q) = q[1]
  BY <1>1
<1> HIDE DEF n
<1>4. U[0] = Taken(r, Head(q))
  BY <1>2, <1>3 DEF Path, n
<1>5. U[Len(Tail(q))] = z
  BY <1>2, <1>3 DEF Path, n
<1>6. \A j \in 0 .. n - 1 : Table(U[j]) /\ Carries(U[j], z)
  BY <1>2, <1>3 DEF Path, n
<1>7. ASSUME NEW j \in 0 .. (n - 1) - 1  PROVE U[j + 1] = Taken(U[j], Tail(q)[j + 1])
  <2>1. j + 1 \in 0 .. n - 1 /\ j \in 0 .. n - 1 /\ j + 1 \in 1 .. n - 1
    BY <1>3
  <2>2. T[(j + 1) + 1] = Taken(T[j + 1], q[(j + 1) + 1])
    BY <1>2, <2>1 DEF Path, n
  <2>3. Tail(q)[j + 1] = q[(j + 1) + 1]
    BY <1>3, <2>1
  <2> QED BY <2>1, <2>2, <2>3
<1> HIDE DEF U
<1>8. Path(U, Taken(r, Head(q)), Tail(q), z)
  BY <1>3, <1>4, <1>5, <1>6, <1>7 DEF Path
<1> QED BY <1>3, <1>8 DEF Pending

\* An export queues an import.
LEMMA PendingAppend ==
  ASSUME NEW r, NEW q, NEW z, Pending(r, q, z),
         NEW rows, Table(Taken(z, rows)), Carries(z, Taken(z, rows))
  PROVE  Pending(r, Append(q, rows), Taken(z, rows))
<1>1. PICK S : q \in Seq(S)
  BY DEF Pending
<1>2. PICK T : Path(T, r, q, z)
  BY DEF Pending
<1> DEFINE n == Len(q)
           y == Taken(z, rows)
           U == [j \in 0 .. n + 1 |-> IF j = n + 1 THEN y ELSE T[j]]
<1>3. /\ n \in Nat
      /\ Append(q, rows) \in Seq(S \cup {rows}) /\ Len(Append(q, rows)) = n + 1
      /\ \A j \in 1 .. n : Append(q, rows)[j] = q[j]
      /\ Append(q, rows)[n + 1] = rows
  <2>1. q \in Seq(S \cup {rows})
    BY <1>1, SeqMonotonic
  <2> QED BY <2>1, AppendProperties
<1> HIDE DEF n, y
<1>4. U[0] = r /\ U[n + 1] = y
  BY <1>2, <1>3 DEF Path, n
<1>5. ASSUME NEW j \in 0 .. n + 1  PROVE Table(U[j]) /\ Carries(U[j], y)
  <2>1. CASE j = n + 1
    BY <2>1, <1>4 DEF y, Carries
  <2>2. CASE j # n + 1
    <3>1. j \in 0 .. n /\ U[j] = T[j]
      BY <1>3, <2>2
    <3>2. Table(T[j]) /\ Carries(T[j], z) /\ Carries(z, y)
      BY <1>2, <3>1 DEF Path, n, y
    <3> QED BY <3>1, <3>2 DEF Carries
  <2> QED BY <2>1, <2>2
<1>6. ASSUME NEW j \in 0 .. (n + 1) - 1  PROVE U[j + 1] = Taken(U[j], Append(q, rows)[j + 1])
  <2>1. CASE j = n
    <3>1. U[n] = z
      BY <1>2, <1>3 DEF Path, n
    <3> QED BY <1>3, <1>4, <2>1, <3>1 DEF y
  <2>2. CASE j # n
    <3>1. j \in 0 .. n - 1 /\ j + 1 \in 1 .. n /\ U[j] = T[j] /\ U[j + 1] = T[j + 1]
      BY <1>3, <2>2
    <3> QED BY <1>2, <1>3, <3>1 DEF Path, n
  <2> QED BY <2>1, <2>2
<1> HIDE DEF U
<1>7. Path(U, r, Append(q, rows), y)
  BY <1>3, <1>4, <1>5, <1>6 DEF Path
<1> QED BY <1>3, <1>7 DEF Pending, y

-----------------------------------------------------------------------------
(* The planner *)

LEMMA FullCompletes ==
  ASSUME NEW P, IsSeries(P), NEW o, NEW z
  PROVE  Completes(P, o, z, Fold(FinalPrefix(P, o), Base(z)))
<1> DEFINE rows == Fold(FinalPrefix(P, o), Base(z))
<1>1. /\ DOMAIN rows = Emitted(P, o)
      /\ \A t \in Emitted(P, o) : rows[t].sum = Base(z) + Total(P, t)
  BY FoldFacts
<1> HIDE DEF rows
<1> QED BY <1>1 DEF Completes, rows

LEMMA FromCompletes ==
  ASSUME NEW P, IsSeries(P), NEW o, NEW z, NEW s \in Int,
         \A t \in Emitted(P, o) : t < s => t \in DOMAIN z /\ z[t] = Base(z) + Total(P, t)
  PROVE  Completes(P, o, z, From(Fold(FinalPrefix(P, o), Base(z)), s))
<1> DEFINE all == Fold(FinalPrefix(P, o), Base(z))
           rows == From(all, s)
<1>1. /\ DOMAIN all = Emitted(P, o)
      /\ \A t \in Emitted(P, o) : all[t].sum = Base(z) + Total(P, t)
  BY FoldFacts
<1>2. Emitted(P, o) \subseteq Int
  BY PrefixFacts
<1> HIDE DEF all
<1>3. /\ DOMAIN rows = {t \in Emitted(P, o) : t >= s}
      /\ \A t \in DOMAIN rows : rows[t] = all[t]
  BY <1>1 DEF From
<1> HIDE DEF rows
<1>4. \A t \in DOMAIN rows, u \in Emitted(P, o) : t <= u => u \in DOMAIN rows
  BY <1>2, <1>3
<1>5. \A t \in Emitted(P, o) : t \notin DOMAIN rows => t < s
  BY <1>2, <1>3
<1> QED BY <1>1, <1>3, <1>4, <1>5 DEF Completes, rows, all

\* What an export knows of the newest row the recorder held.
Anchors(anchor, z) ==
  IF anchor = NULL THEN Past(z) = {}
  ELSE /\ anchor.start \in DOMAIN z
       /\ anchor.start < 0 => anchor.sum = Base(z)

\* What it knows of the earliest start the feed names.
Earliest(changed, F, z) ==
  IF changed = NULL THEN F = {} \/ \A t \in DOMAIN z : t < 0
  ELSE changed \in F /\ \A s \in F : changed <= s

\* The decision table never refuses, and its rows complete the fold.
LEMMA PlanFacts ==
  ASSUME NEW P, IsSeries(P), NEW o, NEW z, Table(z),
         NEW F, F \subseteq Int, Recorded(P, o, F, z),
         NEW anchor, Anchors(anchor, z), NEW changed, Earliest(changed, F, z), NEW pre,
         pre = Base(z) \/ (anchor # NULL /\ anchor.start < Min(Starts(P)))
  PROVE  LET plan == PlanSeries(P, anchor, pre, changed, o)
         IN  plan.action # "halt" /\ Completes(P, o, z, plan.rows)
<1> DEFINE prefix == FinalPrefix(P, o)
           E == Emitted(P, o)
           first == Min(Starts(prefix))
           last == Max(Starts(prefix))
           all == Fold(prefix, pre)
           new == From(all, anchor.start + 1)
           plan == PlanSeries(P, anchor, pre, changed, o)
           Good(p) == p.action # "halt" /\ Completes(P, o, z, p.rows)
<1>1. /\ E \subseteq Starts(prefix) /\ Starts(prefix) \subseteq Starts(P)
      /\ Starts(P) \subseteq Nat
      /\ IsFiniteSet(Starts(prefix)) /\ IsFiniteSet(Starts(P))
  BY PrefixFacts
<1>2. \A t \in DOMAIN z : t \in Int /\ (t >= 0 => t \in E)
  BY DEF Recorded, Table
<1>3. \A a, r : Plan(a, r).action = a /\ Plan(a, r).rows = r
  BY DEF Plan
<1>4. CASE prefix = {}
  <2>1. E = {} /\ DOMAIN NoRows = {}
    BY <1>1, <1>4 DEF Starts, NoRows
  <2>2. plan = Plan("none", NoRows)
    BY <1>4 DEF PlanSeries
  <2>3. Completes(P, o, z, NoRows)
    BY <2>1 DEF Completes
  <2> QED BY <1>3, <2>2, <2>3
<1>5. CASE prefix # {} /\ anchor = NULL
  <2>1. plan = Plan("full", all)
    BY <1>5 DEF PlanSeries
  <2>2. Completes(P, o, z, all)
    BY <1>5, FullCompletes
  <2> QED BY <1>3, <2>1, <2>2
<1>6. CASE prefix # {} /\ anchor # NULL
  <2>1. Starts(prefix) # {} /\ Starts(P) # {}
    BY <1>1, <1>6 DEF Starts
  <2>2. /\ first \in Starts(prefix) /\ last \in Starts(prefix)
        /\ \A t \in Starts(prefix) : first <= t /\ t <= last
        /\ \A t \in Starts(P) : Min(Starts(P)) <= t
        /\ Min(Starts(P)) \in Nat /\ first \in Nat /\ last \in Nat
    <3>1. Starts(prefix) \subseteq Int /\ Starts(P) \subseteq Int
      BY <1>1
    <3>2. /\ first \in Starts(prefix) /\ last \in Starts(prefix)
          /\ \A t \in Starts(prefix) : first <= t /\ t <= last
      BY <1>1, <2>1, <3>1, Extremes
    <3>3. Min(Starts(P)) \in Starts(P) /\ \A t \in Starts(P) : Min(Starts(P)) <= t
      BY <1>1, <2>1, <3>1, Extremes
    <3> QED BY <1>1, <3>2, <3>3
  <2>3. /\ anchor.start \in DOMAIN z /\ anchor.start \in Int
        /\ anchor.start >= 0 => anchor.start \in E
        /\ anchor.start < 0 => anchor.sum = Base(z)
    BY <1>2, <1>6 DEF Anchors
  <2>4. ~(anchor.start > last)
    <3> HIDE DEF last, first, E
    <3> QED BY <1>1, <2>2, <2>3
  <2>5. CASE anchor.start < first
    <3>1. anchor.sum = Base(z)
      <4> HIDE DEF last, first, E
      <4> QED BY <1>1, <2>2, <2>3, <2>5
    <3>2. plan = Plan("append", Fold(prefix, anchor.sum))
      <4> HIDE DEF E
      <4> QED BY <1>6, <2>4, <2>5 DEF PlanSeries
    <3>3. Completes(P, o, z, Fold(prefix, anchor.sum))
      BY <3>1, FullCompletes
    <3> QED BY <1>3, <3>2, <3>3
  <2>6. CASE ~(anchor.start < first)
    <3>1. ~(anchor.start < Min(Starts(P))) /\ anchor.start >= 0
      <4>1. Min(Starts(P)) <= first
        BY <1>1, <2>2
      <4> HIDE DEF first, last
      <4> QED BY <2>2, <2>3, <2>6, <4>1
    <3>2. pre = Base(z)
      BY <3>1
    <3>3. DOMAIN all = E /\ \A t \in E : t \in Nat
      BY <1>1, FoldFacts
    <3>4. Completes(P, o, z, all)
      BY <3>2, FullCompletes
    <3>5. changed = NULL => F = {}
      BY <2>3, <3>1 DEF Earliest
    <3>6. changed # NULL => changed \in Int /\ \A s \in F : changed <= s
      BY DEF Earliest
    <3>7. ASSUME NEW t \in E, t <= anchor.start, \A s \in F : t < s
          PROVE  t \in DOMAIN z /\ z[t] = Base(z) + Total(P, t)
      <4>1. t \in DOMAIN z
        BY <2>3, <3>7 DEF Recorded
      <4>2. t >= 0
        BY <3>3
      <4> QED BY <3>7, <4>1, <4>2 DEF Recorded
    <3>8. CASE anchor.start \notin DOMAIN all
      <4>1. plan = Plan("full", all)
        <5> HIDE DEF all
        <5> QED BY <1>6, <2>4, <2>6, <3>8 DEF PlanSeries, all
      <4> QED BY <1>3, <3>4, <4>1
    <3>9. CASE anchor.start \in DOMAIN all /\ changed # NULL /\ changed <= anchor.start
      <4>1. plan = Plan("reimport", From(all, changed))
        <5> HIDE DEF all
        <5> QED BY <1>6, <2>4, <2>6, <3>9 DEF PlanSeries, all
      <4>2. changed \in Int /\ changed \in F /\ \A s \in F : changed <= s
        BY <3>9 DEF Earliest
      <4>3. ASSUME NEW t \in E, t < changed
            PROVE  t \in DOMAIN z /\ z[t] = Base(z) + Total(P, t)
        <5>1. t <= anchor.start /\ \A s \in F : t < s
          BY <2>3, <3>3, <3>9, <4>2, <4>3
        <5> QED BY <3>7, <5>1
      <4>4. Completes(P, o, z, From(all, changed))
        BY <3>2, <4>2, <4>3, FromCompletes
      <4> QED BY <1>3, <4>1, <4>4
    <3>10. CASE /\ anchor.start \in DOMAIN all
                /\ ~(changed # NULL /\ changed <= anchor.start)
                /\ all[anchor.start].sum # anchor.sum
      <4>1. plan = Plan("full", all)
        <5> HIDE DEF all
        <5> QED BY <1>6, <2>4, <2>6, <3>10 DEF PlanSeries, all
      <4> QED BY <1>3, <3>4, <4>1
    <3>11. CASE /\ anchor.start \in DOMAIN all
                /\ ~(changed # NULL /\ changed <= anchor.start)
                /\ all[anchor.start].sum = anchor.sum
      <4>1. plan = Plan(IF new = NoRows THEN "none" ELSE "append", new)
        <5> HIDE DEF all
        <5> QED BY <1>6, <2>4, <2>6, <3>11 DEF PlanSeries, all
      <4>2. plan.action # "halt" /\ plan.rows = new
        BY <1>3, <4>1
      <4>3. ASSUME NEW t \in E, t < anchor.start + 1
            PROVE  t \in DOMAIN z /\ z[t] = Base(z) + Total(P, t)
        <5>1. t <= anchor.start
          BY <2>3, <3>3, <4>3
        <5>2. \A s \in F : t < s
          BY <2>3, <3>3, <3>5, <3>6, <3>11, <5>1
        <5> QED BY <3>7, <5>1, <5>2
      <4>4. Completes(P, o, z, new)
        <5>1. anchor.start + 1 \in Int
          BY <2>3
        <5> QED BY <3>2, <4>3, <5>1, FromCompletes
      <4> QED BY <4>2, <4>4
    <3> QED BY <3>8, <3>9, <3>10, <3>11
  <2> QED BY <2>5, <2>6
<1> QED BY <1>4, <1>5, <1>6

\* No row of the rewritten span is stray.
LEMMA NoStrays ==
  ASSUME NEW P, IsSeries(P), NEW o, NEW z, NEW rows, Completes(P, o, z, rows),
         \A t \in DOMAIN z : t >= 0 => t \in Emitted(P, o),
         NEW existing, existing \subseteq DOMAIN z, existing \subseteq Int
  PROVE  Completes(P, o, z, MergeStrayRows(rows, existing))
<1>1. CASE DOMAIN rows = {}
  BY <1>1 DEF MergeStrayRows
<1>2. CASE DOMAIN rows # {}
  <2> DEFINE strays == {s \in existing \ DOMAIN rows :
                          Min(DOMAIN rows) <= s /\ s <= Max(DOMAIN rows)}
             merged == MergeStrayRows(rows, existing)
  <2>1. DOMAIN rows \subseteq Emitted(P, o) /\ Emitted(P, o) \subseteq Nat
        /\ IsFiniteSet(DOMAIN rows)
    <3>1. DOMAIN rows \subseteq Emitted(P, o)
      BY DEF Completes
    <3> QED BY <3>1, PrefixFacts, FS_Subset
  <2>2. Min(DOMAIN rows) \in DOMAIN rows /\ Min(DOMAIN rows) \in Nat
    BY <1>2, <2>1, Extremes
  <2>3. strays = {}
    <3>1. SUFFICES ASSUME NEW s \in strays  PROVE FALSE
      OBVIOUS
    <3>2. s \in DOMAIN z /\ s \in Int /\ s \notin DOMAIN rows /\ Min(DOMAIN rows) <= s
      OBVIOUS
    <3>3. s >= 0
      BY <2>2, <3>2
    <3>4. s \in Emitted(P, o)
      BY <3>2, <3>3
    <3> QED BY <2>2, <3>2, <3>4 DEF Completes
  <2>4. DOMAIN merged = DOMAIN rows /\ \A t \in DOMAIN rows : merged[t] = rows[t]
    <3>1. merged = [s \in DOMAIN rows \cup strays |->
                      IF s \in strays
                      THEN [state |-> 0,
                            sum |-> rows[Max({t \in DOMAIN rows : t < s})].sum]
                      ELSE rows[s]]
      BY <1>2 DEF MergeStrayRows
    <3> HIDE DEF strays, merged
    <3> QED BY <2>3, <3>1
  <2> HIDE DEF merged
  <2> QED BY <2>4 DEF Completes, merged
<1> QED BY <1>1, <1>2

-----------------------------------------------------------------------------
(* The invariant *)

\* One export at a time, over an archive that rests meanwhile, and nothing that
\* the exporter cannot see: no page re-ingested behind the watermark, no sum
\* adjusted by hand, no queued import lost.
OneAtATime ==
  /\ ~Overlap
  /\ \A t, u \in Tasks : t = u
  /\ MaxReparses = 0 /\ MaxAdjusts = 0 /\ MaxRestarts = 0

\* rec has the fields of an export.
Shaped(rec) ==
  rec = [pc |-> rec.pc, hourly |-> rec.hourly, points |-> rec.points,
         oldest |-> rec.oldest, since |-> rec.since, changed |-> rec.changed,
         anchor |-> rec.anchor, plan |-> rec.plan, existing |-> rec.existing,
         stale |-> rec.stale]

TypeInv ==
  /\ hour \in HourTable
  /\ day \in DayTable
  /\ oldestDay \in Nat /\ oldestDay + Window <= Days
  /\ feedHours \in SUBSET Hours
  /\ feedDays \in SUBSET DayIds
  /\ marked \in BOOLEAN
  /\ shelf = {}
  /\ export = [t \in Tasks |-> export[t]]
  /\ \A t \in Tasks : Shaped(export[t])
  /\ budget \in [Bounded -> Nat]

Feed == Touched(Points, feedHours, feedDays)

\* How far the export rec has come, and what it has read: P is the series, o the
\* window's first hour, H the hourly buckets, F the starts the feed names.
PhaseOf(rec, z, P, o, H, F) ==
  /\ rec.pc \in Steps
  /\ rec.pc = "hourly" => rec.hourly = H /\ rec.oldest = o /\ P # {}
  /\ rec.pc \in {"series", "feed", "fed", "anchor"} =>
       rec.points = P /\ rec.oldest = o /\ P # {}
  /\ rec.pc = "feed" =>
       /\ rec.since = marked
       /\ rec.changed = IF marked /\ feedHours # {} THEN Min(feedHours) ELSE NULL
  /\ rec.pc \in {"fed", "anchor"} => Earliest(rec.changed, F, z)
  /\ rec.pc \in {"hourly", "series", "feed", "fed"} => rec.anchor = NULL
  /\ rec.pc = "anchor" => Anchors(rec.anchor, z)
  /\ rec.pc \in {"planned", "existing"} =>
       rec.plan.action # "halt" /\ Completes(P, o, z, rec.plan.rows)
  /\ rec.pc = "existing" => rec.existing \subseteq DOMAIN z
  /\ rec.pc = "queued" => Complete(P, o, z)

Phase(t, z) == PhaseOf(export[t], z, Points, Oldest, Hourly, Feed)

\* z is what the recorder will hold once its queue is empty.
Held(z) ==
  /\ Pending(recorder, queue, z)
  /\ Recorded(Points, Oldest, Feed, z)
  /\ ~marked /\ (\A t \in Tasks : export[t].pc # "queued") =>
       \A s \in DOMAIN z : s < 0
  /\ synced # "no" => Complete(Points, Oldest, z)
  /\ \A t \in Tasks : Phase(t, z)

Inv ==
  /\ TypeInv
  /\ Closed(hour, oldestDay)
  /\ \E z : Held(z)

\* The series the exporter sees.
LEMMA SeriesNow ==
  ASSUME TypeInv
  PROVE  /\ Points = PointsOf(hour, day, Oldest)
         /\ IsSeries(Points)
         /\ Oldest \in Int
         /\ Feed = feedHours \cup {d * DayLen : d \in feedDays \cap Bucketed(hour, day, Oldest)}
         /\ Feed \subseteq Int
<1>1. Oldest \in Int
  BY DayArith DEF TypeInv, Oldest
<1>2. Points = PointsOf(hour, day, Oldest)
  <2>1. Hourly = HourlyOf(hour) /\ Daily = DailyOf(day)
    BY DEF Hourly, HourlyOf, Daily, DailyOf
  <2> QED BY <2>1, PointsAre DEF Points
<1>3. IsSeries(Points)
  BY <1>1, <1>2, SeriesOfArchive DEF TypeInv
<1>4. Feed = feedHours \cup {d * DayLen : d \in feedDays \cap Bucketed(hour, day, Oldest)}
  BY <1>1, <1>2, TouchedIs DEF Feed, TypeInv
<1>5. Feed \subseteq Int
  <2>1. feedHours \subseteq Int
    BY DayArith DEF TypeInv, Hours
  <2>2. \A d \in feedDays : d * DayLen \in Int
    BY DayArith DEF TypeInv, Hours
  <2> QED BY <1>4, <2>1, <2>2
<1> QED BY <1>1, <1>2, <1>3, <1>4, <1>5

\* The same in the next state.
LEMMA SeriesNext ==
  ASSUME TypeInv'
  PROVE  /\ Points' = PointsOf(hour', day', Oldest')
         /\ IsSeries(Points')
         /\ Oldest' \in Int
         /\ Feed' = feedHours' \cup
                      {d * DayLen : d \in feedDays' \cap Bucketed(hour', day', Oldest')}
<1>1. Oldest' \in Int
  BY DayArith DEF TypeInv, Oldest
<1>2. Points' = PointsOf(hour', day', Oldest')
  <2>1. Hourly' = HourlyOf(hour') /\ Daily' = DailyOf(day')
    BY DEF Hourly, HourlyOf, Daily, DailyOf
  <2> QED BY <2>1, PointsAre DEF Points
<1>3. IsSeries(Points')
  BY <1>1, <1>2, SeriesOfArchive DEF TypeInv
<1>4. Feed' = feedHours' \cup
                {d * DayLen : d \in feedDays' \cap Bucketed(hour', day', Oldest')}
  BY <1>1, <1>2, TouchedIs DEF Feed, TypeInv
<1> QED BY <1>1, <1>2, <1>3, <1>4

\* The hours of the window's days.
LEMMA WindowHours ==
  ASSUME NEW w \in Nat, w + Window <= Days
  PROVE  /\ UNION {HoursOf(x) : x \in w .. w + Window - 1} \subseteq Hours
         /\ \A h \in Hours : h \in UNION {HoursOf(x) : x \in w .. w + Window - 1}
                               <=> w * DayLen <= h /\ h < (w + Window) * DayLen
<1>1. DayLen \in Nat /\ DayLen > 0 /\ Window \in Nat /\ Days \in Nat
  BY ExporterAssumption
<1>2. ASSUME NEW x \in w .. w + Window - 1
      PROVE  /\ x \in DayIds /\ x \in Int
             /\ w * DayLen <= x * DayLen /\ (x + 1) * DayLen <= (w + Window) * DayLen
             /\ x * DayLen \in Nat /\ (x + 1) * DayLen \in Nat
             /\ (x + 1) * DayLen <= Days * DayLen
  <2>1. x \in Nat /\ x \in DayIds /\ w <= x /\ x < w + Window
    BY <1>1 DEF DayIds
  <2>2. w * DayLen <= x * DayLen
    <3>1. CASE w = x
      BY <1>1, <3>1, DayArith
    <3>2. CASE w < x
      <4>1. w * DayLen + DayLen <= x * DayLen
        BY <2>1, <3>2, DayArith
      <4> QED BY <1>1, <2>1, <4>1, DayArith
    <3> QED BY <2>1, <3>1, <3>2
  <2>3. (x + 1) * DayLen <= (w + Window) * DayLen
    <3>1. x * DayLen + DayLen <= (w + Window) * DayLen
      BY <1>1, <2>1, DayArith
    <3> QED BY <2>1, <3>1, DayArith
  <2>4. x * DayLen \in Nat /\ (x + 1) * DayLen \in Nat /\ (x + 1) * DayLen <= Days * DayLen
    BY <2>1, DayArith
  <2> QED BY <2>1, <2>2, <2>3, <2>4
<1>3. UNION {HoursOf(x) : x \in w .. w + Window - 1} \subseteq Hours
  <2> SUFFICES ASSUME NEW x \in w .. w + Window - 1, NEW h \in HoursOf(x)
               PROVE  h \in Hours
    OBVIOUS
  <2>1. Days * DayLen \in Nat
    BY DayArith
  <2> QED BY <1>2, <2>1 DEF HoursOf, Hours
<1> DEFINE Covered(h, k) == \E x \in w .. w + k - 1 : x * DayLen <= h /\ h < (x + 1) * DayLen
           T == {k \in 0 .. Window :
                   \A h \in Nat : w * DayLen <= h /\ h < (w + k) * DayLen => Covered(h, k)}
<1>4. 0 \in T
  <2>1. (w + 0) * DayLen = w * DayLen /\ w * DayLen \in Nat
    BY DayArith
  <2>2. 0 \in 0 .. Window
    BY <1>1
  <2> QED BY <2>1, <2>2
<1>5. ASSUME NEW k \in 0 .. Window - 1, k \in T  PROVE k + 1 \in T
  <2>1. k \in Nat /\ k + 1 \in 0 .. Window /\ w + k \in Int /\ w + (k + 1) = (w + k) + 1
    BY <1>1
  <2>2. (w + k) * DayLen \in Int
    BY <2>1, DayArith
  <2>3. ASSUME NEW h \in Nat, w * DayLen <= h, h < (w + (k + 1)) * DayLen
        PROVE  Covered(h, k + 1)
    <3>1. CASE h < (w + k) * DayLen
      <4>1. PICK x \in w .. w + k - 1 : x * DayLen <= h /\ h < (x + 1) * DayLen
        BY <1>5, <2>3, <3>1
      <4>2. x \in w .. w + (k + 1) - 1
        BY <2>1
      <4> QED BY <4>1, <4>2
    <3>2. CASE ~(h < (w + k) * DayLen)
      <4>1. (w + k) * DayLen <= h /\ h < ((w + k) + 1) * DayLen
        BY <2>1, <2>2, <2>3, <3>2
      <4>2. w + k \in w .. w + (k + 1) - 1
        BY <2>1
      <4> QED BY <4>1, <4>2
    <3> QED BY <3>1, <3>2
  <2> QED BY <2>1, <2>3
<1>6. Window \in T
  <2>1. 0 .. Window \subseteq T
    <3> HIDE DEF T
    <3> QED BY <1>1, <1>4, <1>5, Climb
  <2> HIDE DEF T
  <2> QED BY <1>1, <2>1
<1>7. ASSUME NEW h \in Hours
      PROVE  h \in UNION {HoursOf(x) : x \in w .. w + Window - 1}
               <=> w * DayLen <= h /\ h < (w + Window) * DayLen
  <2>1. h \in Nat
    BY DayArith DEF Hours
  <2>2. (w + Window) * DayLen \in Int /\ w * DayLen \in Int
    BY <1>1, DayArith
  <2>3. ASSUME NEW x \in w .. w + Window - 1, h \in HoursOf(x)
        PROVE  w * DayLen <= h /\ h < (w + Window) * DayLen
    BY <1>2, <2>1, <2>2, <2>3 DEF HoursOf
  <2>4. ASSUME w * DayLen <= h, h < (w + Window) * DayLen
        PROVE  \E x \in w .. w + Window - 1 : h \in HoursOf(x)
    <3>1. Covered(h, Window)
      BY <1>6, <2>1, <2>4
    <3>2. PICK x \in w .. w + Window - 1 : x * DayLen <= h /\ h < (x + 1) * DayLen
      BY <3>1
    <3>3. h \in HoursOf(x)
      BY <1>2, <2>1, <3>2 DEF HoursOf
    <3> QED BY <3>3
  <2> QED BY <2>3, <2>4
<1> QED BY <1>3, <1>7

-----------------------------------------------------------------------------
(* Writes to the archive *)

LEMMA RestingFacts ==
  Shaped(Resting) /\ Resting.pc = "idle" /\ Resting.anchor = NULL
BY DEF Resting, Shaped

\* While no export runs, a disturbance leaves them alone.
LEMMA DisturbQuiet ==
  ASSUME TypeInv, Quiet, Disturb
  PROVE  export' = export /\ synced' = "no"
BY DEF TypeInv, Quiet, Disturb

\* A write after which the series has grown, and the feed with it.
LEMMA WriteHeld ==
  ASSUME NEW z, Held(z), TypeInv, TypeInv', Quiet, Disturb, UNCHANGED <<recorderVars, marked>>,
         Grown(Points, Oldest, Points', Oldest', Feed'), Feed \subseteq Feed'
  PROVE  Held(z)'
<1>1. export' = export /\ synced' = "no" /\ recorder' = recorder /\ queue' = queue
      /\ marked' = marked
  BY DisturbQuiet DEF recorderVars
<1>2. Pending(recorder', queue', z)
  BY <1>1 DEF Held
<1>3. Table(z)
  BY PendingFacts DEF Held
<1>4. Recorded(Points', Oldest', Feed', z)
  BY <1>3, RecordedGrows DEF Held
<1>5. ~marked' /\ (\A t \in Tasks : export'[t].pc # "queued") =>
        \A s \in DOMAIN z : s < 0
  BY <1>1 DEF Held
<1>6. \A t \in Tasks : Phase(t, z)'
  <2>1. \A t \in Tasks : export'[t].pc = "idle"
    BY <1>1 DEF Quiet
  <2> QED BY <2>1 DEF Phase, PhaseOf, Steps
<1> QED BY <1>1, <1>2, <1>4, <1>5, <1>6 DEF Held

LEMMA BudgetFacts ==
  ASSUME TypeInv, NEW what \in Bounded, NEW max, Spend(what, max)
  PROVE  max # 0 /\ budget' \in [Bounded -> Nat]
BY DEF TypeInv, Spend

LEMMA StepGrid ==
  ASSUME OneAtATime, TypeInv, Closed(hour, oldestDay), FetchGrid
  PROVE  /\ TypeInv' /\ Closed(hour', oldestDay')
         /\ \A z : Held(z) => Held(z)'
<1>1. Quiet
  BY DEF OneAtATime, FetchGrid
<1>2. PICK cap \in Pages(oldestDay) :
        /\ Changed(cap) # {}
        /\ StoreHours(cap)
        /\ feedHours' = feedHours \cup Changed(cap)
  BY DEF FetchGrid
<1>3. /\ Disturb
      /\ UNCHANGED <<day, oldestDay, feedDays, marked, shelf, recorderVars>>
      /\ budget' \in [Bounded -> Nat]
  <2>1. "writes" \in Bounded
    BY DEF Bounded
  <2> QED BY <2>1, BudgetFacts DEF FetchGrid
<1>4. export' = export
  BY <1>1, <1>3, DisturbQuiet
<1> DEFINE W == UNION {HoursOf(x) : x \in oldestDay .. oldestDay + Window - 1}
           o == oldestDay * DayLen
<1>5. /\ oldestDay \in Nat /\ oldestDay + Window <= Days
      /\ hour \in HourTable /\ day \in DayTable
  BY DEF TypeInv
<1>6. /\ W \subseteq Hours
      /\ \A h \in Hours : h \in W <=> o <= h /\ h < (oldestDay + Window) * DayLen
  BY <1>5, WindowHours
<1>7. cap \in [W -> Contents]
  BY <1>2 DEF Pages
<1> HIDE DEF W
<1>8. Changed(cap) \subseteq W
  BY <1>7 DEF Changed
<1>9. hour' = [h \in Hours |-> IF h \in Changed(cap) THEN cap[h] ELSE hour[h]]
  BY <1>2 DEF StoreHours
<1>10. hour' \in HourTable
  BY <1>5, <1>7, <1>8, <1>9 DEF HourTable
<1>11. ASSUME NEW h \in W
       PROVE  /\ hour'[h] # NULL
              /\ hour[h] # NULL /\ hour[h].complete => hour'[h].complete
  <2>1. cap[h] \in Contents /\ cap[h] # NULL /\ h \in Hours
    BY <1>6, <1>7, NullAssumption
  <2>2. CASE h \in Changed(cap)
    <3>1. hour'[h] = cap[h]
      BY <1>9, <2>1, <2>2
    <3>2. Merged(hour[h], cap[h]) # hour[h]
      BY <2>2 DEF Changed
    <3>3. hour[h] # NULL => ~(Rank(cap[h]) < Rank(hour[h]))
      BY <3>2 DEF Merged
    <3>4. cap[h].complete \in BOOLEAN
      BY <2>1, ExporterAssumption
    <3> QED BY <2>1, <3>1, <3>3, <3>4 DEF Rank
  <2>3. CASE h \notin Changed(cap)
    <3>1. hour'[h] = hour[h] /\ Merged(hour[h], cap[h]) = hour[h]
      BY <1>7, <1>9, <2>1, <2>3 DEF Changed
    <3>2. hour[h] # NULL
      BY <2>1, <3>1 DEF Merged
    <3> QED BY <3>1, <3>2
  <2> QED BY <2>2, <2>3
<1>12. \A h \in Hours : hour'[h] # hour[h] => h \in W /\ h \in Changed(cap)
  BY <1>8, <1>9
<1>13. TypeInv'
  <2>1. feedHours' \in SUBSET Hours
    BY <1>2, <1>6, <1>8 DEF TypeInv
  <2> QED BY <1>3, <1>4, <1>10, <2>1 DEF TypeInv
<1>14. Closed(hour', oldestDay')
  <2>1. oldestDay' = oldestDay
    BY <1>3
  <2>2. \A h \in Hours : h \in Int
    BY DayArith DEF Hours
  <2>3. (oldestDay + Window) * DayLen \in Int
    BY <1>5, ExporterAssumption, DayArith
  <2>4. \A h \in Hours : hour'[h] # NULL => h < (oldestDay + Window) * DayLen
    BY <1>6, <1>12 DEF Closed
  <2>5. ASSUME NEW h \in Hours, NEW k \in Hours, h <= k, h >= o, hour'[h] = NULL
        PROVE  hour'[k] = NULL
    <3>1. h \notin W
      BY <1>11, <2>5
    <3>2. h >= (oldestDay + Window) * DayLen
      BY <1>6, <2>2, <2>3, <2>5, <3>1
    <3>3. ~(k < (oldestDay + Window) * DayLen)
      BY <2>2, <2>3, <2>5, <3>2
    <3> QED BY <2>4, <3>3
  <2> QED BY <2>1, <2>4, <2>5 DEF Closed
<1>15. /\ Grown(Points, Oldest, Points', Oldest', Feed')
       /\ Feed \subseteq Feed'
  <2>1. Oldest = o /\ Oldest' = o /\ day' = day /\ feedDays' = feedDays
    BY <1>3 DEF Oldest
  <2>2. \A h \in Hours : h \in Changed(cap) => h \in Feed'
    BY <1>2, <1>13, SeriesNext
  <2>3. \A h \in Hours : hour'[h] # hour[h] =>
           /\ h \in Feed' /\ h >= oldestDay * DayLen /\ hour'[h] # NULL
           /\ hour[h] # NULL /\ hour[h].complete => hour'[h].complete
    <3>1. o \in Int /\ \A h \in Hours : h \in Int
      BY <1>5, DayArith DEF Hours
    <3> QED BY <1>6, <1>11, <1>12, <2>2, <3>1
  <2>4. /\ Grown(PointsOf(hour, day, o), o, PointsOf(hour', day, o), o, Feed')
        /\ Bucketed(hour', day, o) = Bucketed(hour, day, o)
    BY <1>5, <1>10, <2>3, HoursGrow
  <2>5. Points = PointsOf(hour, day, o) /\ Points' = PointsOf(hour', day, o)
    BY <1>13, <2>1, SeriesNow, SeriesNext
  <2>6. Feed = feedHours \cup {d * DayLen : d \in feedDays \cap Bucketed(hour, day, o)}
    BY <2>1, SeriesNow
  <2>7. Feed' = feedHours' \cup {d * DayLen : d \in feedDays \cap Bucketed(hour', day, o)}
    BY <1>13, <2>1, SeriesNext
  <2> QED BY <1>2, <2>1, <2>4, <2>5, <2>6, <2>7
<1>16. UNCHANGED <<recorderVars, marked>>
  BY <1>3
<1>17. ASSUME NEW z, Held(z)  PROVE Held(z)'
  BY <1>1, <1>3, <1>13, <1>15, <1>16, <1>17, WriteHeld
<1> QED BY <1>13, <1>14, <1>17

LEMMA StepDaily ==
  ASSUME OneAtATime, TypeInv, Closed(hour, oldestDay), FetchDaily
  PROVE  /\ TypeInv' /\ Closed(hour', oldestDay')
         /\ \A z : Held(z) => Held(z)'
<1>1. Quiet
  BY DEF OneAtATime, FetchDaily
<1>2. PICK d \in DayIds, v \in DailyValues :
        /\ \/ day[d] = NULL
           \/ day[d] # NULL /\ v \notin {NULL, day[d].val}
        /\ day' = [day EXCEPT ![d] = [val |-> v]]
        /\ feedDays' = feedDays \cup {d}
  BY DEF FetchDaily
<1>3. /\ Disturb
      /\ UNCHANGED <<hour, oldestDay, feedHours, marked, shelf, recorderVars>>
      /\ budget' \in [Bounded -> Nat]
  <2>1. "writes" \in Bounded
    BY DEF Bounded
  <2> QED BY <2>1, BudgetFacts DEF FetchDaily
<1>4. export' = export
  BY <1>1, <1>3, DisturbQuiet
<1> DEFINE o == oldestDay * DayLen
<1>5. oldestDay \in Nat /\ hour \in HourTable /\ day \in DayTable
  BY DEF TypeInv
<1>6. [val |-> v] \in [val : DailyValues] /\ [val |-> v] # NULL
  BY NullAssumption
<1>7. day' \in DayTable
  BY <1>2, <1>5, <1>6 DEF DayTable
<1>8. day'[d] = [val |-> v] /\ \A e \in DayIds : e # d => day'[e] = day[e]
  BY <1>2, <1>5 DEF DayTable
<1>9. TypeInv'
  BY <1>2, <1>3, <1>4, <1>7 DEF TypeInv
<1>10. /\ Grown(Points, Oldest, Points', Oldest', Feed')
       /\ Feed \subseteq Feed'
  <2>1. Oldest = o /\ Oldest' = o /\ hour' = hour /\ feedHours' = feedHours
    BY <1>3 DEF Oldest
  <2>2. Feed' = feedHours \cup {e * DayLen : e \in feedDays' \cap Bucketed(hour, day', o)}
    BY <1>9, <2>1, SeriesNext
  <2>3. d \in Bucketed(hour, day', oldestDay * DayLen) => d * DayLen \in Feed'
    BY <1>2, <2>2
  <2>4. day'[d] # NULL /\ (day[d] = NULL \/ day'[d].val # NULL)
    BY <1>2, <1>6, <1>8
  <2>5. /\ Grown(PointsOf(hour, day, o), o, PointsOf(hour, day', o), o, Feed')
        /\ Bucketed(hour, day, o) \subseteq Bucketed(hour, day', o)
    BY <1>5, <1>7, <1>8, <2>3, <2>4, DayGrows
  <2>6. Points = PointsOf(hour, day, o) /\ Points' = PointsOf(hour, day', o)
    BY <1>9, <2>1, SeriesNow, SeriesNext
  <2>7. Feed = feedHours \cup {e * DayLen : e \in feedDays \cap Bucketed(hour, day, o)}
    BY <2>1, SeriesNow
  <2> QED BY <1>2, <2>1, <2>2, <2>5, <2>6, <2>7
<1>11. UNCHANGED <<recorderVars, marked>>
  BY <1>3
<1>12. ASSUME NEW z, Held(z)  PROVE Held(z)'
  BY <1>1, <1>3, <1>9, <1>10, <1>11, <1>12, WriteHeld
<1>13. Closed(hour', oldestDay')
  BY <1>3
<1> QED BY <1>9, <1>12, <1>13

LEMMA StepWindow ==
  ASSUME OneAtATime, TypeInv, Closed(hour, oldestDay), DayPasses
  PROVE  /\ TypeInv' /\ Closed(hour', oldestDay')
         /\ \A z : Held(z) => Held(z)'
<1>1. /\ Quiet /\ Disturb
      /\ oldestDay + Window < Days /\ oldestDay' = oldestDay + 1
      /\ UNCHANGED <<hour, day, feedVars, recorderVars, budget>>
  BY DEF OneAtATime, DayPasses
<1>2. export' = export
  BY <1>1, DisturbQuiet
<1>3. /\ oldestDay \in Nat /\ hour \in HourTable /\ day \in DayTable
      /\ Window \in Nat /\ Days \in Nat
  BY ExporterAssumption DEF TypeInv
<1>4. TypeInv'
  BY <1>1, <1>2, <1>3 DEF TypeInv, feedVars
<1>5. Closed(hour', oldestDay')
  <2>1. /\ oldestDay' * DayLen = oldestDay * DayLen + DayLen
        /\ (oldestDay' + Window) * DayLen = (oldestDay + Window) * DayLen + DayLen
        /\ oldestDay * DayLen \in Int /\ (oldestDay + Window) * DayLen \in Int
        /\ DayLen \in Nat
    <3>1. oldestDay' + Window = (oldestDay + Window) + 1
      BY <1>1, <1>3
    <3> QED BY <1>1, <1>3, <3>1, DayArith
  <2>2. \A h \in Hours : h \in Int
    BY DayArith DEF Hours
  <2>3. hour' = hour
    BY <1>1
  <2> QED BY <2>1, <2>2, <2>3 DEF Closed
<1>6. /\ Grown(Points, Oldest, Points', Oldest', Feed')
      /\ Feed \subseteq Feed'
  <2> DEFINE o == oldestDay * DayLen
             u == (oldestDay + 1) * DayLen
  <2>1. /\ Oldest = o /\ Oldest' = u
        /\ hour' = hour /\ day' = day /\ feedHours' = feedHours /\ feedDays' = feedDays
    BY <1>1 DEF Oldest, feedVars
  <2>2. /\ Grown(PointsOf(hour, day, o), o, PointsOf(hour, day, u), u, Feed')
        /\ Bucketed(hour, day, o) \subseteq Bucketed(hour, day, u)
    BY <1>3, WindowGrows
  <2>3. Points = PointsOf(hour, day, o) /\ Points' = PointsOf(hour, day, u)
    BY <1>4, <2>1, SeriesNow, SeriesNext
  <2>4. Feed = feedHours \cup {e * DayLen : e \in feedDays \cap Bucketed(hour, day, o)}
    BY <2>1, SeriesNow
  <2>5. Feed' = feedHours \cup {e * DayLen : e \in feedDays \cap Bucketed(hour, day, u)}
    BY <1>4, <2>1, SeriesNext
  <2> QED BY <2>1, <2>2, <2>3, <2>4, <2>5
<1>7. UNCHANGED <<recorderVars, marked>>
  BY <1>1 DEF feedVars
<1>8. ASSUME NEW z, Held(z)  PROVE Held(z)'
  BY <1>1, <1>4, <1>6, <1>7, <1>8, WriteHeld
<1> QED BY <1>4, <1>5, <1>8

-----------------------------------------------------------------------------
(* The recorder and the user *)

LEMMA PendingNothing ==
  ASSUME NEW r, Table(r)
  PROVE  Pending(r, <<>>, r)
<1>1. <<>> \in Seq({}) /\ Len(<<>>) = 0
  BY EmptySeq
<1> DEFINE T == [j \in {0} |-> r]
<1>2. Carries(r, r)
  BY DEF Carries
<1>3. Path(T, r, <<>>, r)
  BY <1>1, <1>2 DEF Path
<1> HIDE DEF T
<1> QED BY <1>1, <1>3 DEF Pending

\* What the exporter reads of the archive is as it was.
ArchiveRests == UNCHANGED <<archiveVars, feedVars>>

LEMMA RestFacts ==
  ASSUME ArchiveRests
  PROVE  /\ Points' = Points /\ Oldest' = Oldest /\ Hourly' = Hourly
         /\ Feed' = Feed /\ marked' = marked
         /\ Closed(hour, oldestDay) => Closed(hour', oldestDay')
<1>1. /\ hour' = hour /\ day' = day /\ oldestDay' = oldestDay
      /\ feedHours' = feedHours /\ feedDays' = feedDays /\ marked' = marked
  BY DEF ArchiveRests, archiveVars, feedVars
<1>2. Hourly' = Hourly /\ Daily' = Daily /\ Oldest' = Oldest
  BY <1>1 DEF Hourly, Daily, Oldest
<1>3. Points' = Points
  BY <1>2 DEF Points
<1> QED BY <1>1, <1>2, <1>3 DEF Feed

LEMMA StepRecorder ==
  ASSUME TypeInv, Closed(hour, oldestDay), RecorderApplies
  PROVE  /\ TypeInv' /\ Closed(hour', oldestDay')
         /\ \A z : Held(z) => Held(z)'
<1>1. /\ ArchiveRests /\ UNCHANGED <<exportVars, budget>>
      /\ queue # <<>> /\ queue' = Tail(queue)
      /\ recorder' = Taken(recorder, Head(queue))
  BY DEF RecorderApplies, ArchiveRests, Taken
<1>2. export' = export /\ synced' = synced
  BY <1>1 DEF exportVars
<1>3. TypeInv'
  BY <1>1, <1>2 DEF TypeInv, ArchiveRests, archiveVars, feedVars
<1>4. ASSUME NEW z, Held(z)  PROVE Held(z)'
  <2>1. Pending(recorder', queue', z)
    BY <1>1, <1>4, PendingHead DEF Held
  <2>2. \A t \in Tasks : Phase(t, z)'
    <3>1. feedHours' = feedHours /\ marked' = marked
      BY <1>1 DEF ArchiveRests, feedVars
    <3>2. \A t \in Tasks : Phase(t, z)' <=> Phase(t, z)
      BY <1>1, <1>2, <3>1, RestFacts DEF Phase, PhaseOf
    <3> QED BY <1>4, <3>2 DEF Held
  <2> QED BY <1>1, <1>2, <1>4, <2>1, <2>2, RestFacts DEF Held
<1> QED BY <1>1, <1>3, <1>4, RestFacts

LEMMA StepDelete ==
  ASSUME OneAtATime, TypeInv, Closed(hour, oldestDay), UserDeletes
  PROVE  /\ TypeInv' /\ Closed(hour', oldestDay')
         /\ \E z : Held(z)'
<1>1. /\ Quiet /\ Disturb /\ queue = <<>> /\ queue' = <<>>
      /\ recorder' = NoHistory /\ ArchiveRests
      /\ budget' \in [Bounded -> Nat]
  <2>1. "deletes" \in Bounded
    BY DEF Bounded
  <2> QED BY <2>1, BudgetFacts DEF UserDeletes, OneAtATime, ArchiveRests
<1>2. export' = export /\ synced' = "no"
  BY <1>1, DisturbQuiet
<1>3. TypeInv'
  BY <1>1, <1>2 DEF TypeInv, ArchiveRests, archiveVars, feedVars
<1>4. DOMAIN NoHistory = {}
  BY DEF NoHistory
<1>5. Table(NoHistory)
  BY <1>4, FS_EmptySet DEF Table
<1>6. Pending(recorder', queue', NoHistory)
  BY <1>1, <1>5, PendingNothing
<1>7. Recorded(Points', Oldest', Feed', NoHistory)
  BY <1>4 DEF Recorded
<1>8. \A t \in Tasks : Phase(t, NoHistory)'
  <2>1. \A t \in Tasks : export'[t].pc = "idle"
    BY <1>1, <1>2 DEF Quiet
  <2> QED BY <2>1 DEF Phase, PhaseOf, Steps
<1>9. Held(NoHistory)'
  BY <1>2, <1>4, <1>6, <1>7, <1>8 DEF Held
<1> QED BY <1>1, <1>3, <1>9, RestFacts

\* The rest of the environment does not act.
LEMMA NeverActs ==
  ASSUME OneAtATime, TypeInv
  PROVE  ~(ParseError \/ Reparse \/ UserAdjusts \/ Restart)
<1>1. \A what \in Bounded : ~(budget[what] < 0)
  BY DEF TypeInv
<1>2. "reparses" \in Bounded /\ "adjusts" \in Bounded /\ "restarts" \in Bounded
  BY DEF Bounded
<1>3. ~ParseError /\ ~UserAdjusts /\ ~Restart
  BY <1>1, <1>2 DEF ParseError, UserAdjusts, Restart, Spend, OneAtATime
<1>4. ~Reparse
  BY DEF Reparse, TypeInv
<1> QED BY <1>3, <1>4

-----------------------------------------------------------------------------
(* The export *)

\* The lone export becomes rec.
LEMMA LoneStep ==
  ASSUME OneAtATime, TypeInv, NEW t \in Tasks, NEW rec, Shaped(rec),
         export' = [export EXCEPT ![t] = rec],
         ArchiveRests, budget' = budget
  PROVE  /\ TypeInv'
         /\ \A u \in Tasks : u = t /\ export'[u] = rec
<1>1. \A u \in Tasks : u = t
  BY DEF OneAtATime
<1>2. export'[t] = rec /\ export' = [u \in Tasks |-> export'[u]]
  BY DEF TypeInv
<1>3. \A u \in Tasks : export'[u] = rec
  BY <1>1, <1>2
<1> QED BY <1>1, <1>2, <1>3 DEF TypeInv, ArchiveRests, archiveVars, feedVars

\* A step that reads: the recorder and its queue stay.
LEMMA ReadHeld ==
  ASSUME OneAtATime, TypeInv, NEW t \in Tasks, NEW rec, Shaped(rec),
         export' = [export EXCEPT ![t] = rec],
         ArchiveRests, budget' = budget, UNCHANGED recorderVars,
         NEW z, Held(z), PhaseOf(rec, z, Points, Oldest, Hourly, Feed),
         rec.pc # "queued", export[t].pc # "queued",
         synced' = synced \/ Complete(Points, Oldest, z)
  PROVE  Held(z)'
<1>1. \A u \in Tasks : u = t /\ export'[u] = rec
  BY LoneStep
<1>2. /\ recorder' = recorder /\ queue' = queue
      /\ feedHours' = feedHours /\ marked' = marked
  BY DEF recorderVars, ArchiveRests, feedVars
<1>3. \A u \in Tasks : export[u].pc # "queued"
  BY <1>1
<1>4. \A u \in Tasks : Phase(u, z)'
  <2>1. \A u \in Tasks : PhaseOf(export'[u], z, Points, Oldest, Hourly, Feed)
    BY <1>1
  <2> QED BY <1>2, <2>1, RestFacts DEF Phase, PhaseOf
<1> QED BY <1>2, <1>3, <1>4, RestFacts DEF Held

\* _sum_before of a start that no row of the series precedes.
LEMMA SumBeforeIs ==
  ASSUME NEW z, Pending(recorder, queue, z), NEW s \in Nat,
         \A t \in DOMAIN z : t >= 0 => s <= t
  PROVE  SumBefore(s) = Base(z)
<1>1. Table(recorder) /\ Table(z) /\ Carries(recorder, z) /\ Base(recorder) = Base(z)
  BY PendingFacts
<1>2. \A t \in DOMAIN recorder : t \in Int /\ (t >= 0 => s <= t)
  BY <1>1 DEF Table, Carries
<1>3. {t \in DOMAIN recorder : t < s} = Past(recorder)
  BY <1>2 DEF Past
<1>4. SumBefore(s) = Base(recorder)
  BY <1>3 DEF SumBefore, Base
<1> QED BY <1>1, <1>4

\* What Held says of the exporter's lone task, with what its types say.
LEMMA HeldFacts ==
  ASSUME TypeInv, NEW z, Held(z), NEW t \in Tasks
  PROVE  /\ Pending(recorder, queue, z)
         /\ Table(z) /\ Carries(recorder, z) /\ Base(recorder) = Base(z)
         /\ Recorded(Points, Oldest, Feed, z)
         /\ \A s \in DOMAIN z : s >= 0 => s \in Emitted(Points, Oldest)
         /\ PhaseOf(export[t], z, Points, Oldest, Hourly, Feed)
         /\ Shaped(export[t])
         /\ IsSeries(Points) /\ Feed \subseteq Int
BY PendingFacts, SeriesNow DEF Held, Recorded, TypeInv, Phase

\* A record of the phase "idle" has nothing to be right about.
LEMMA IdlePhase ==
  ASSUME NEW z, NEW P, NEW o, NEW H, NEW F
  PROVE  PhaseOf(Resting, z, P, o, H, F)
BY RestingFacts DEF PhaseOf, Steps

LEMMA StepReads ==
  ASSUME OneAtATime, TypeInv, NEW t \in Tasks,
         ReadHourly(t) \/ ReadDaily(t) \/ ReadFeed(t) \/ ReadDailyFeed(t) \/ ReadAnchor(t)
  PROVE  TypeInv' /\ \A z : Held(z) => Held(z)'
<1> DEFINE rec == export[t]
<1>1. /\ ArchiveRests /\ budget' = budget /\ UNCHANGED recorderVars /\ synced' = synced
  BY DEF ReadHourly, ReadDaily, ReadFeed, ReadDailyFeed, ReadAnchor, ArchiveRests
<1>2. Shaped(rec)
  BY DEF TypeInv
<1>3. ASSUME NEW new, Shaped(new), export' = [export EXCEPT ![t] = new],
             new.pc # "queued", rec.pc # "queued",
             \A z : Held(z) => PhaseOf(new, z, Points, Oldest, Hourly, Feed)
      PROVE  TypeInv' /\ \A z : Held(z) => Held(z)'
  <2>1. TypeInv'
    BY <1>1, <1>3, LoneStep
  <2>2. ASSUME NEW z, Held(z)  PROVE Held(z)'
    <3>1. PhaseOf(new, z, Points, Oldest, Hourly, Feed)
      BY <1>3, <2>2
    <3> QED BY <1>1, <1>3, <2>2, <3>1, ReadHeld
  <2> QED BY <2>1, <2>2
<1>4. CASE ReadHourly(t)
  <2> DEFINE new == [[Resting EXCEPT !.hourly = Hourly, !.oldest = Oldest] EXCEPT !.pc = "hourly"]
  <2>1. export' = [export EXCEPT ![t] = new] /\ rec.pc = "idle" /\ Points # {}
    BY <1>4 DEF ReadHourly, Go
  <2>2. /\ Shaped(new) /\ new.pc = "hourly" /\ new.anchor = NULL
        /\ new.hourly = Hourly /\ new.oldest = Oldest
    <3> DEFINE one == [Resting EXCEPT !.hourly = Hourly]
               two == [one EXCEPT !.oldest = Oldest]
    <3>1. /\ Shaped(one) /\ one.anchor = NULL /\ one.hourly = Hourly
      BY RestingFacts DEF Shaped
    <3> HIDE DEF one
    <3>2. /\ Shaped(two) /\ two.anchor = NULL
          /\ two.hourly = Hourly /\ two.oldest = Oldest
      BY <3>1 DEF Shaped
    <3> HIDE DEF two
    <3>3. new = [two EXCEPT !.pc = "hourly"]
      BY DEF one, two
    <3> HIDE DEF new
    <3> QED BY <3>2, <3>3 DEF Shaped
  <2> HIDE DEF new
  <2>3. ASSUME NEW z, Held(z)  PROVE PhaseOf(new, z, Points, Oldest, Hourly, Feed)
    BY <2>1, <2>2 DEF PhaseOf, Steps
  <2> QED BY <1>3, <2>1, <2>2, <2>3
<1>5. CASE ReadDaily(t)
  <2> DEFINE new == [[rec EXCEPT !.hourly = {},
                                 !.points = BuildPoints(rec.hourly, Daily, rec.oldest)]
                       EXCEPT !.pc = "series"]
  <2>1. export' = [export EXCEPT ![t] = new] /\ rec.pc = "hourly"
    BY <1>5 DEF ReadDaily, Go
  <2>2. /\ Shaped(new) /\ new.pc = "series" /\ new.anchor = rec.anchor
        /\ new.points = BuildPoints(rec.hourly, Daily, rec.oldest) /\ new.oldest = rec.oldest
    <3> DEFINE pts == BuildPoints(rec.hourly, Daily, rec.oldest)
               one == [rec EXCEPT !.hourly = {}]
               two == [one EXCEPT !.points = pts]
    <3> HIDE DEF pts
    <3>1. /\ Shaped(one) /\ one.anchor = rec.anchor /\ one.oldest = rec.oldest
      BY <1>2 DEF Shaped
    <3> HIDE DEF one
    <3>2. /\ Shaped(two) /\ two.anchor = rec.anchor
          /\ two.points = pts /\ two.oldest = rec.oldest
      BY <3>1 DEF Shaped
    <3> HIDE DEF two
    <3>3. new = [two EXCEPT !.pc = "series"]
      BY DEF one, two, pts
    <3> HIDE DEF new
    <3> QED BY <3>2, <3>3 DEF Shaped, pts
  <2> HIDE DEF new
  <2>3. ASSUME NEW z, Held(z)  PROVE PhaseOf(new, z, Points, Oldest, Hourly, Feed)
    <3>1. rec.hourly = Hourly /\ rec.oldest = Oldest /\ Points # {} /\ rec.anchor = NULL
      BY <2>1, <2>3, HeldFacts DEF PhaseOf
    <3>2. new.points = Points
      BY <2>2, <3>1 DEF Points
    <3> QED BY <2>2, <3>1, <3>2 DEF PhaseOf, Steps
  <2> QED BY <1>3, <2>1, <2>2, <2>3
<1>6. CASE ReadFeed(t)
  <2> DEFINE chg == IF marked /\ feedHours # {} THEN Min(feedHours) ELSE NULL
             new == [[rec EXCEPT !.since = marked, !.changed = chg] EXCEPT !.pc = "feed"]
  <2>1. export' = [export EXCEPT ![t] = new] /\ rec.pc = "series"
    BY <1>6 DEF ReadFeed, Go
  <2>2. /\ Shaped(new) /\ new.pc = "feed" /\ new.anchor = rec.anchor
        /\ new.points = rec.points /\ new.oldest = rec.oldest
        /\ new.since = marked /\ new.changed = chg
    <3> DEFINE one == [rec EXCEPT !.since = marked]
               two == [one EXCEPT !.changed = chg]
    <3> HIDE DEF chg
    <3>1. /\ Shaped(one) /\ one.anchor = rec.anchor /\ one.since = marked
          /\ one.points = rec.points /\ one.oldest = rec.oldest
      BY <1>2 DEF Shaped
    <3> HIDE DEF one
    <3>2. /\ Shaped(two) /\ two.anchor = rec.anchor /\ two.since = marked
          /\ two.points = rec.points /\ two.oldest = rec.oldest /\ two.changed = chg
      BY <3>1 DEF Shaped
    <3> HIDE DEF two
    <3>3. new = [two EXCEPT !.pc = "feed"]
      BY DEF one, two
    <3> HIDE DEF new
    <3> QED BY <3>2, <3>3 DEF Shaped
  <2> HIDE DEF new
  <2>3. ASSUME NEW z, Held(z)  PROVE PhaseOf(new, z, Points, Oldest, Hourly, Feed)
    <3>1. rec.points = Points /\ rec.oldest = Oldest /\ Points # {} /\ rec.anchor = NULL
      BY <2>1, <2>3, HeldFacts DEF PhaseOf
    <3> QED BY <2>2, <3>1 DEF PhaseOf, Steps
  <2> QED BY <1>3, <2>1, <2>2, <2>3
<1>7. CASE ReadDailyFeed(t)
  <2> DEFINE touched == {d * DayLen : d \in feedDays}
                          \cap Starts({p \in rec.points : p.kind = "day"})
             all == touched \cup ({rec.changed} \ {NULL})
             base == IF rec.since /\ all # {} THEN [rec EXCEPT !.changed = Min(all)] ELSE rec
             new == [base EXCEPT !.pc = "fed"]
  <2>1. export' = [export EXCEPT ![t] = new] /\ rec.pc = "feed"
    BY <1>7 DEF ReadDailyFeed, Go
  <2>2. /\ Shaped(new) /\ new.pc = "fed" /\ new.anchor = rec.anchor
        /\ new.points = rec.points /\ new.oldest = rec.oldest
        /\ new.changed = IF rec.since /\ all # {} THEN Min(all) ELSE rec.changed
    <3> DEFINE m == Min(all)
    <3> HIDE DEF all, m
    <3>1. CASE rec.since /\ all # {}
      <4> DEFINE mid == [rec EXCEPT !.changed = m]
      <4>1. /\ Shaped(mid) /\ mid.anchor = rec.anchor
            /\ mid.points = rec.points /\ mid.oldest = rec.oldest /\ mid.changed = m
        BY <1>2 DEF Shaped
      <4> HIDE DEF mid
      <4>2. new = [mid EXCEPT !.pc = "fed"]
        BY <3>1 DEF mid, m
      <4> HIDE DEF new
      <4> QED BY <3>1, <4>1, <4>2 DEF Shaped, m
    <3>2. CASE ~(rec.since /\ all # {})
      BY <1>2, <3>2 DEF Shaped
    <3> QED BY <3>1, <3>2
  <2> HIDE DEF new
  <2>3. ASSUME NEW z, Held(z)  PROVE PhaseOf(new, z, Points, Oldest, Hourly, Feed)
    <3>1. /\ rec.points = Points /\ rec.oldest = Oldest /\ Points # {} /\ rec.anchor = NULL
          /\ rec.since = marked
          /\ rec.changed = IF marked /\ feedHours # {} THEN Min(feedHours) ELSE NULL
      BY <2>1, <2>3, HeldFacts DEF PhaseOf
    <3>2. Feed = feedHours \cup touched
      BY <3>1 DEF Feed, Touched
    <3>3. Earliest(new.changed, Feed, z)
      <4>1. CASE ~marked
        <5>1. \A u \in Tasks : export[u].pc # "queued"
          BY <2>1 DEF OneAtATime
        <5>2. \A s \in DOMAIN z : s < 0
          BY <2>3, <4>1, <5>1 DEF Held
        <5>3. new.changed = NULL
          <6> HIDE DEF all
          <6> QED BY <2>2, <3>1, <4>1
        <5> QED BY <5>2, <5>3 DEF Earliest
      <4>2. CASE marked /\ feedHours = {}
        <5>1. rec.changed = NULL
          BY <3>1, <4>2
        <5>2. all = touched /\ Feed = touched
          BY <3>2, <4>2, <5>1
        <5>3. Feed \subseteq Int /\ IsFiniteSet(Feed)
          <6>1. touched \subseteq Starts(Points)
            BY <3>1 DEF Starts
          <6> QED BY <5>2, <6>1, SeriesNow, PrefixFacts, FS_Subset
        <5>4. new.changed = IF Feed # {} THEN Min(Feed) ELSE NULL
          <6> HIDE DEF all, touched
          <6> QED BY <2>2, <3>1, <4>2, <5>1, <5>2
        <5>5. CASE Feed = {}
          BY <5>4, <5>5 DEF Earliest
        <5>6. CASE Feed # {}
          <6>1. Min(Feed) \in Feed /\ \A x \in Feed : Min(Feed) <= x
            BY <5>3, <5>6, Extremes
          <6> QED BY <5>3, <5>4, <5>6, <6>1, NullAssumption DEF Earliest
        <5> QED BY <5>5, <5>6
      <4>3. CASE marked /\ feedHours # {}
        <5>1. IsFiniteSet(feedHours) /\ feedHours \subseteq Int
          <6>1. IsFiniteSet(Hours) /\ Hours \subseteq Int
            <7>1. 0 \in Int /\ Days * DayLen - 1 \in Int
              BY DayArith
            <7> QED BY <7>1, FS_Interval DEF Hours
          <6> QED BY <6>1, FS_Subset DEF TypeInv
        <5>2. Min(feedHours) \in feedHours /\ \A x \in feedHours : Min(feedHours) <= x
          BY <4>3, <5>1, Extremes
        <5>3. rec.changed = Min(feedHours) /\ rec.changed # NULL
          BY <3>1, <4>3, <5>1, <5>2, NullAssumption
        <5>4. all = touched \cup {rec.changed} /\ all # {}
          BY <5>3
        <5>5. touched \subseteq Starts(Points)
          BY <3>1 DEF Starts
        <5>6. IsFiniteSet(all) /\ all \subseteq Int
          <6>1. IsFiniteSet(touched) /\ touched \subseteq Int
            <7> HIDE DEF touched
            <7>1. IsFiniteSet(Starts(Points)) /\ Starts(Points) \subseteq Nat
              BY SeriesNow, PrefixFacts
            <7> QED BY <5>5, <7>1, FS_Subset
          <6>2. IsFiniteSet({rec.changed})
            BY FS_Singleton
          <6> HIDE DEF touched
          <6> QED BY <5>1, <5>2, <5>3, <5>4, <6>1, <6>2, FS_Union
        <5>7. Min(all) \in all /\ \A x \in all : Min(all) <= x
          BY <5>4, <5>6, Extremes
        <5>8. new.changed = Min(all)
          <6> HIDE DEF all
          <6> QED BY <2>2, <3>1, <4>3, <5>4
        <5> HIDE DEF all, touched
        <5>9. Min(all) \in Feed /\ Min(all) \in Int
          BY <3>2, <5>2, <5>3, <5>4, <5>6, <5>7
        <5>10. \A x \in Feed : Min(all) <= x
          BY <3>2, <5>1, <5>2, <5>3, <5>4, <5>6, <5>7
        <5> QED BY <5>8, <5>9, <5>10, NullAssumption DEF Earliest
      <4> QED BY <4>1, <4>2, <4>3
    <3> QED BY <2>2, <3>1, <3>3 DEF PhaseOf, Steps
  <2> QED BY <1>3, <2>1, <2>2, <2>3
<1>8. CASE ReadAnchor(t)
  <2> DEFINE newest == Max(DOMAIN recorder)
             base == IF DOMAIN recorder = {} THEN rec
                     ELSE [rec EXCEPT !.anchor = [start |-> newest, sum |-> recorder[newest]]]
             new == [base EXCEPT !.pc = "anchor"]
  <2>1. export' = [export EXCEPT ![t] = new] /\ rec.pc = "fed"
    BY <1>8 DEF ReadAnchor, Go
  <2>2. /\ Shaped(new) /\ new.pc = "anchor"
        /\ new.points = rec.points /\ new.oldest = rec.oldest /\ new.changed = rec.changed
        /\ new.anchor = IF DOMAIN recorder = {} THEN rec.anchor
                        ELSE [start |-> newest, sum |-> recorder[newest]]
    <3> HIDE DEF newest
    <3>1. CASE DOMAIN recorder = {}
      BY <1>2, <3>1 DEF Shaped
    <3>2. CASE DOMAIN recorder # {}
      BY <1>2, <3>2 DEF Shaped
    <3> QED BY <3>1, <3>2
  <2> HIDE DEF new
  <2>3. ASSUME NEW z, Held(z)  PROVE PhaseOf(new, z, Points, Oldest, Hourly, Feed)
    <3>1. /\ rec.points = Points /\ rec.oldest = Oldest /\ Points # {} /\ rec.anchor = NULL
          /\ Earliest(rec.changed, Feed, z)
      BY <2>1, <2>3, HeldFacts DEF PhaseOf
    <3>2. /\ Carries(recorder, z) /\ Base(recorder) = Base(z) /\ Table(recorder)
      BY <2>3, HeldFacts, PendingFacts DEF Held
    <3>3. CASE DOMAIN recorder = {}
      <4>1. new.anchor = NULL
        BY <2>2, <3>1, <3>3
      <4>2. Past(z) = {}
        BY <3>2, <3>3 DEF Past, Carries
      <4>3. Anchors(new.anchor, z)
        BY <4>1, <4>2 DEF Anchors
      <4> QED BY <2>2, <3>1, <4>3 DEF PhaseOf, Steps
    <3>4. CASE DOMAIN recorder # {}
      <4>1. newest \in DOMAIN recorder /\ \A s \in DOMAIN recorder : s <= newest
        BY <3>2, <3>4, Extremes DEF Table
      <4>2. newest \in Int /\ recorder[newest] \in Nat
        BY <3>2, <4>1 DEF Table
      <4>3. newest < 0 => recorder[newest] = Base(recorder)
        <5>1. SUFFICES ASSUME newest < 0  PROVE recorder[newest] = Base(recorder)
          OBVIOUS
        <5>2. Past(recorder) = DOMAIN recorder
          <6> HIDE DEF newest
          <6> QED BY <3>2, <4>1, <4>2, <5>1 DEF Past, Table
        <5> QED BY <3>4, <5>2 DEF Base
      <4> HIDE DEF newest
      <4>4. new.anchor = [start |-> newest, sum |-> recorder[newest]] /\ new.anchor # NULL
        BY <2>2, <3>4, <4>2, NullAssumption
      <4>5. Anchors(new.anchor, z)
        BY <3>2, <4>1, <4>3, <4>4 DEF Anchors, Carries
      <4> QED BY <2>2, <3>1, <4>5 DEF PhaseOf, Steps
    <3> QED BY <3>3, <3>4
  <2> QED BY <1>3, <2>1, <2>2, <2>3
<1> QED BY <1>4, <1>5, <1>6, <1>7, <1>8

LEMMA StepPlan ==
  ASSUME OneAtATime, TypeInv, NEW t \in Tasks, ReadSumBefore(t)
  PROVE  TypeInv' /\ \A z : Held(z) => Held(z)'
<1> DEFINE rec == export[t]
           first == Min(Starts(rec.points))
           pre == IF rec.anchor = NULL \/ rec.anchor.start < first THEN 0 ELSE SumBefore(first)
           plan == PlanSeries(rec.points, rec.anchor, pre, rec.changed, rec.oldest)
           new == [[Resting EXCEPT !.plan = plan, !.stale = rec.stale] EXCEPT !.pc = "planned"]
<1>1. /\ ArchiveRests /\ budget' = budget /\ UNCHANGED recorderVars /\ synced' = synced
      /\ rec.pc = "anchor" /\ export' = [export EXCEPT ![t] = new]
  BY DEF ReadSumBefore, ArchiveRests, Go
<1>2. Shaped(new) /\ new.pc = "planned" /\ new.plan = plan
  <2> DEFINE one == [Resting EXCEPT !.plan = plan]
             two == [one EXCEPT !.stale = rec.stale]
  <2> HIDE DEF plan
  <2>1. Shaped(one) /\ one.plan = plan
    BY RestingFacts DEF Shaped
  <2> HIDE DEF one
  <2>2. Shaped(two) /\ two.plan = plan
    BY <2>1 DEF Shaped
  <2> HIDE DEF two
  <2>3. new = [two EXCEPT !.pc = "planned"]
    BY DEF one, two, plan
  <2> HIDE DEF new
  <2> QED BY <2>2, <2>3 DEF Shaped, plan
<1> HIDE DEF new
<1>3. TypeInv'
  BY <1>1, <1>2, LoneStep
<1>4. ASSUME NEW z, Held(z)  PROVE Held(z)'
  <2>1. /\ rec.points = Points /\ rec.oldest = Oldest /\ Points # {}
        /\ Earliest(rec.changed, Feed, z) /\ Anchors(rec.anchor, z)
    BY <1>1, <1>4, HeldFacts DEF PhaseOf
  <2>2. /\ Pending(recorder, queue, z) /\ Table(z)
        /\ Recorded(Points, Oldest, Feed, z)
        /\ IsSeries(Points) /\ Feed \subseteq Int
        /\ \A s \in DOMAIN z : s >= 0 => s \in Emitted(Points, Oldest)
    BY <1>4, HeldFacts
  <2>3. first \in Nat /\ \A s \in Starts(Points) : first <= s
    <3>1. Starts(Points) \subseteq Nat /\ IsFiniteSet(Starts(Points))
      BY <2>2, PrefixFacts
    <3>2. Starts(Points) # {}
      BY <2>1 DEF Starts
    <3> QED BY <2>1, <3>1, <3>2, Extremes
  <2>4. \A s \in DOMAIN z : s >= 0 => first <= s
    <3>1. Emitted(Points, Oldest) \subseteq Starts(Points)
      BY <2>2, PrefixFacts
    <3> QED BY <2>2, <2>3, <3>1
  <2> HIDE DEF first
  <2>5. pre = Base(z) \/ (rec.anchor # NULL /\ rec.anchor.start < first)
    <3>1. CASE rec.anchor = NULL
      BY <2>1, <3>1 DEF Anchors, Base
    <3>2. CASE rec.anchor # NULL /\ ~(rec.anchor.start < first)
      BY <2>2, <2>3, <2>4, <3>2, SumBeforeIs
    <3> QED BY <3>1, <3>2
  <2>6. plan.action # "halt" /\ Completes(Points, Oldest, z, plan.rows)
    <3> HIDE DEF pre
    <3> QED BY <2>1, <2>2, <2>5, PlanFacts DEF first
  <2> HIDE DEF plan
  <2>7. PhaseOf(new, z, Points, Oldest, Hourly, Feed)
    BY <1>2, <2>6 DEF PhaseOf, Steps
  <2> QED BY <1>1, <1>2, <1>4, <2>7, ReadHeld
<1> QED BY <1>3, <1>4

LEMMA StepEnds ==
  ASSUME OneAtATime, TypeInv, NEW t \in Tasks, Halt(t) \/ UpToDate(t)
  PROVE  TypeInv' /\ \A z : Held(z) => Held(z)'
<1> DEFINE rec == export[t]
<1>1. /\ ArchiveRests /\ budget' = budget /\ UNCHANGED recorderVars
      /\ rec.pc = "planned" /\ export' = [export EXCEPT ![t] = Resting]
      /\ synced' = synced \/ rec.plan.rows = NoRows
  BY DEF Halt, UpToDate, ArchiveRests
<1>2. TypeInv'
  BY <1>1, RestingFacts, LoneStep
<1>3. ASSUME NEW z, Held(z)  PROVE Held(z)'
  <2>1. rec.plan.rows = NoRows => Complete(Points, Oldest, z)
    <3>1. DOMAIN NoRows = {}
      BY DEF NoRows
    <3>2. Completes(Points, Oldest, z, rec.plan.rows)
      BY <1>1, <1>3, HeldFacts DEF PhaseOf
    <3> QED BY <3>1, <3>2 DEF Completes, Complete
  <2>2. PhaseOf(Resting, z, Points, Oldest, Hourly, Feed)
    BY IdlePhase
  <2> QED BY <1>1, <1>3, <2>1, <2>2, RestingFacts, ReadHeld
<1> QED BY <1>2, <1>3

LEMMA StepExisting ==
  ASSUME OneAtATime, TypeInv, NEW t \in Tasks, ReadExisting(t)
  PROVE  TypeInv' /\ \A z : Held(z) => Held(z)'
<1> DEFINE rec == export[t]
           mid == [rec EXCEPT !.existing = DOMAIN recorder]
           new == [mid EXCEPT !.pc = "existing"]
<1>1. /\ ArchiveRests /\ budget' = budget /\ UNCHANGED recorderVars /\ synced' = synced
      /\ rec.pc = "planned" /\ export' = [export EXCEPT ![t] = new]
  BY DEF ReadExisting, ArchiveRests, Go
<1>2. /\ Shaped(new) /\ new.pc = "existing"
      /\ new.existing = DOMAIN recorder /\ new.plan = rec.plan
  <2>1. Shaped(mid) /\ mid.existing = DOMAIN recorder /\ mid.plan = rec.plan
    BY DEF TypeInv, Shaped
  <2> HIDE DEF mid
  <2> QED BY <2>1 DEF Shaped
<1> HIDE DEF new
<1>3. TypeInv'
  BY <1>1, <1>2, LoneStep
<1>4. ASSUME NEW z, Held(z)  PROVE Held(z)'
  <2>1. /\ rec.plan.action # "halt" /\ Completes(Points, Oldest, z, rec.plan.rows)
        /\ DOMAIN recorder \subseteq DOMAIN z
    BY <1>1, <1>4, HeldFacts DEF PhaseOf, Carries
  <2>2. PhaseOf(new, z, Points, Oldest, Hourly, Feed)
    BY <1>2, <2>1 DEF PhaseOf, Steps
  <2> QED BY <1>1, <1>2, <1>4, <2>2, ReadHeld
<1> QED BY <1>3, <1>4

\* An import that completes the fold joins the queue.
LEMMA StepQueue ==
  ASSUME OneAtATime, TypeInv, NEW t \in Tasks, NEW rows, Queue(t, rows),
         NEW z, Held(z), Completes(Points, Oldest, z, rows)
  PROVE  TypeInv' /\ Held(Taken(z, rows))'
<1> DEFINE new == [[Resting EXCEPT !.stale = export[t].stale] EXCEPT !.pc = "queued"]
           y == Taken(z, rows)
<1>1. /\ ArchiveRests /\ budget' = budget /\ recorder' = recorder /\ synced' = synced
      /\ queue' = Append(queue, rows) /\ export' = [export EXCEPT ![t] = new]
  BY DEF Queue, ArchiveRests, Go
<1>2. Shaped(new) /\ new.pc = "queued"
  <2> DEFINE mid == [Resting EXCEPT !.stale = export[t].stale]
  <2>1. Shaped(mid)
    BY RestingFacts DEF Shaped
  <2>2. new = [mid EXCEPT !.pc = "queued"]
    BY DEF mid
  <2> HIDE DEF mid, new
  <2> QED BY <2>1, <2>2 DEF Shaped
<1> HIDE DEF new
<1>3. TypeInv' /\ \A u \in Tasks : u = t /\ export'[u] = new
  BY <1>1, <1>2, LoneStep
<1>4. /\ Table(y) /\ Carries(z, y) /\ Base(y) = Base(z)
      /\ Complete(Points, Oldest, y)
      /\ \A s \in DOMAIN y : s >= 0 => s \in Emitted(Points, Oldest)
  <2>1. /\ IsSeries(Points) /\ Table(z)
        /\ \A s \in DOMAIN z : s >= 0 => s \in Emitted(Points, Oldest)
    BY HeldFacts
  <2> QED BY <2>1, Imported
<1>5. Pending(recorder', queue', y)
  <2>1. Pending(recorder, queue, z)
    BY HeldFacts
  <2> QED BY <1>1, <1>4, <2>1, PendingAppend
<1> HIDE DEF y
<1>6. Recorded(Points', Oldest', Feed', y)
  BY <1>1, <1>4, CompleteIsRecorded, RestFacts
<1>7. Complete(Points', Oldest', y)
  BY <1>1, <1>4, RestFacts
<1>8. \A u \in Tasks : Phase(u, y)'
  BY <1>2, <1>3, <1>7 DEF Phase, PhaseOf, Steps
<1>9. \E u \in Tasks : export'[u].pc = "queued"
  BY <1>2, <1>3
<1>10. Held(y)'
  BY <1>5, <1>6, <1>7, <1>8, <1>9 DEF Held
<1> QED BY <1>3, <1>10 DEF y

LEMMA StepImport ==
  ASSUME OneAtATime, TypeInv, NEW t \in Tasks, QueueAppend(t) \/ QueueRewrite(t),
         NEW z, Held(z)
  PROVE  TypeInv' /\ \E y : Held(y)'
<1> DEFINE rec == export[t]
<1>1. CASE QueueAppend(t)
  <2>1. rec.pc = "planned" /\ Queue(t, rec.plan.rows)
    BY <1>1 DEF QueueAppend
  <2>2. Completes(Points, Oldest, z, rec.plan.rows)
    BY <2>1, HeldFacts DEF PhaseOf
  <2> QED BY <2>1, <2>2, StepQueue
<1>2. CASE QueueRewrite(t)
  <2> DEFINE rows == MergeStrayRows(rec.plan.rows, rec.existing)
  <2>1. rec.pc = "existing" /\ Queue(t, rows)
    BY <1>2 DEF QueueRewrite
  <2>2. /\ Completes(Points, Oldest, z, rec.plan.rows)
        /\ rec.existing \subseteq DOMAIN z /\ Table(z) /\ IsSeries(Points)
        /\ \A s \in DOMAIN z : s >= 0 => s \in Emitted(Points, Oldest)
    BY <2>1, HeldFacts DEF PhaseOf
  <2>3. rec.existing \subseteq Int
    BY <2>2 DEF Table
  <2>4. Completes(Points, Oldest, z, rows)
    BY <2>2, <2>3, NoStrays
  <2> HIDE DEF rows
  <2> QED BY <2>1, <2>4, StepQueue
<1> QED BY <1>1, <1>2

LEMMA StepWatermark ==
  ASSUME OneAtATime, TypeInv, Closed(hour, oldestDay), NEW t \in Tasks, SetWatermark(t)
  PROVE  /\ TypeInv' /\ Closed(hour', oldestDay')
         /\ \A z : Held(z) => Held(z)'
<1>1. /\ export[t].pc = "queued"
      /\ marked' = TRUE /\ feedHours' = {} /\ feedDays' = {}
      /\ shelf' = {[page EXCEPT !.late = TRUE] : page \in shelf}
      /\ export' = [export EXCEPT ![t] = Resting]
      /\ hour' = hour /\ day' = day /\ oldestDay' = oldestDay
      /\ recorder' = recorder /\ queue' = queue /\ budget' = budget
  BY DEF SetWatermark, archiveVars, recorderVars
<1>2. \A u \in Tasks : u = t
  BY DEF OneAtATime
<1>3. export'[t] = Resting /\ export' = [u \in Tasks |-> export'[u]]
  BY <1>1 DEF TypeInv
<1>4. TypeInv'
  <2>1. shelf' = {}
    BY <1>1 DEF TypeInv
  <2> QED BY <1>1, <1>2, <1>3, <2>1, RestingFacts DEF TypeInv
<1>5. Points' = Points /\ Oldest' = Oldest
  BY <1>1 DEF Points, Oldest, Hourly, Daily
<1>6. ASSUME NEW z, Held(z)  PROVE Held(z)'
  <2>1. /\ Pending(recorder, queue, z)
        /\ Complete(Points, Oldest, z)
        /\ \A s \in DOMAIN z : s >= 0 => s \in Emitted(Points, Oldest)
    BY <1>1, <1>6, HeldFacts DEF PhaseOf
  <2>2. Recorded(Points', Oldest', Feed', z)
    BY <1>5, <2>1, CompleteIsRecorded
  <2>3. \A u \in Tasks : Phase(u, z)'
    BY <1>2, <1>3, RestingFacts DEF Phase, PhaseOf, Steps
  <2> QED BY <1>1, <1>5, <2>1, <2>2, <2>3 DEF Held
<1> QED BY <1>1, <1>4, <1>6

-----------------------------------------------------------------------------
(* The invariant holds *)

LEMMA InvInit ==
  ASSUME Init
  PROVE  Inv
<1>1. TypeInv
  <2>1. hour \in HourTable /\ day \in DayTable
    BY DEF Init, HourTable, DayTable
  <2>2. oldestDay \in Nat /\ oldestDay + Window <= Days
    BY ExporterAssumption DEF Init
  <2>3. export = [t \in Tasks |-> export[t]] /\ \A t \in Tasks : Shaped(export[t])
    BY RestingFacts DEF Init
  <2> QED BY <2>1, <2>2, <2>3 DEF Init, TypeInv
<1>2. Closed(hour, oldestDay)
  BY DEF Init, Closed
<1>3. Table(PreRows)
  BY PreRowsAssumption DEF Table
<1>4. Pending(recorder, queue, PreRows)
  BY <1>3, PendingNothing DEF Init
<1>5. \A s \in DOMAIN PreRows : s \in Int /\ s < 0
  BY PreRowsAssumption
<1>6. Recorded(Points, Oldest, Feed, PreRows)
  <2>1. Emitted(Points, Oldest) \subseteq Nat
    BY <1>1, SeriesNow, PrefixFacts
  <2>2. \A t \in Emitted(Points, Oldest), x \in DOMAIN PreRows : ~(t <= x)
    BY <1>5, <2>1
  <2> QED BY <1>5, <2>2 DEF Recorded
<1>7. \A t \in Tasks : Phase(t, PreRows)
  BY IdlePhase DEF Phase, Init
<1>8. Held(PreRows)
  BY <1>4, <1>5, <1>6, <1>7 DEF Held, Init
<1> QED BY <1>1, <1>2, <1>8 DEF Inv

LEMMA InvNext ==
  ASSUME OneAtATime, Inv, [Next]_vars
  PROVE  Inv'
<1>1. TypeInv /\ Closed(hour, oldestDay) /\ \E z : Held(z)
  BY DEF Inv
<1>2. PICK z : Held(z)
  BY <1>1
<1>3. SUFFICES TypeInv' /\ Closed(hour', oldestDay') /\ \E y : Held(y)'
  BY DEF Inv, Closed
<1>4. CASE FetchGrid
  BY <1>1, <1>2, <1>4, StepGrid
<1>5. CASE FetchDaily
  BY <1>1, <1>2, <1>5, StepDaily
<1>6. CASE DayPasses
  BY <1>1, <1>2, <1>6, StepWindow
<1>7. CASE UserDeletes
  BY <1>1, <1>7, StepDelete
<1>8. CASE RecorderApplies
  BY <1>1, <1>2, <1>8, StepRecorder
<1>9. CASE ParseError \/ Reparse \/ UserAdjusts \/ Restart
  BY <1>1, <1>9, NeverActs
<1>10. ASSUME NEW t \in Tasks, Export(t)
       PROVE  TypeInv' /\ Closed(hour', oldestDay') /\ \E y : Held(y)'
  <2>1. CASE SetWatermark(t)
    BY <1>1, <1>2, <2>1, StepWatermark
  <2>2. CASE ~SetWatermark(t)
    <3>1. ArchiveRests
      BY <1>10, <2>2 DEF Export, ReadHourly, ReadDaily, ReadFeed, ReadDailyFeed,
                         ReadAnchor, ReadSumBefore, Halt, UpToDate, ReadExisting,
                         QueueAppend, QueueRewrite, Queue, ArchiveRests
    <3>2. Closed(hour', oldestDay')
      BY <1>1, <3>1, RestFacts
    <3>3. CASE \/ ReadHourly(t) \/ ReadDaily(t) \/ ReadFeed(t)
               \/ ReadDailyFeed(t) \/ ReadAnchor(t)
      BY <1>1, <1>2, <3>2, <3>3, StepReads
    <3>4. CASE ReadSumBefore(t)
      BY <1>1, <1>2, <3>2, <3>4, StepPlan
    <3>5. CASE Halt(t) \/ UpToDate(t)
      BY <1>1, <1>2, <3>2, <3>5, StepEnds
    <3>6. CASE ReadExisting(t)
      BY <1>1, <1>2, <3>2, <3>6, StepExisting
    <3>7. CASE QueueAppend(t) \/ QueueRewrite(t)
      BY <1>1, <1>2, <3>2, <3>7, StepImport
    <3> QED BY <1>10, <2>2, <3>3, <3>4, <3>5, <3>6, <3>7 DEF Export
  <2> QED BY <2>1, <2>2
<1>11. CASE UNCHANGED vars
  <2>1. /\ ArchiveRests /\ budget' = budget
        /\ export' = export /\ synced' = synced
        /\ recorder' = recorder /\ queue' = queue
    BY <1>11 DEF vars, ArchiveRests, exportVars, recorderVars
  <2>2. TypeInv'
    BY <1>1, <2>1 DEF TypeInv, ArchiveRests, archiveVars, feedVars
  <2>3. \A t \in Tasks : Phase(t, z)' <=> Phase(t, z)
    <3>1. feedHours' = feedHours /\ marked' = marked
      BY <2>1 DEF ArchiveRests, feedVars
    <3> QED BY <2>1, <3>1, RestFacts DEF Phase, PhaseOf
  <2>4. Held(z)'
    BY <1>2, <2>1, <2>3, RestFacts DEF Held
  <2> QED BY <1>1, <2>1, <2>2, <2>4, RestFacts
<1> QED BY <1>4, <1>5, <1>6, <1>7, <1>8, <1>9, <1>10, <1>11 DEF Next

LEMMA Invariance ==
  ASSUME OneAtATime
  PROVE  Spec => []Inv
<1>1. Init => Inv
  BY InvInit
<1>2. Inv /\ [Next]_vars => Inv'
  BY InvNext
<1> QED BY <1>1, <1>2, PTL DEF Spec

-----------------------------------------------------------------------------
(* The theorems *)

\* While one export at a time runs over a resting archive, the sums of the
\* statistic never rewind, whatever part of the queued imports the recorder has
\* taken (exporter.py, async_export and _import).
THEOREM SumsNeverRewind ==
  ASSUME OneAtATime
  PROVE  Spec => []NoRewind
<1>1. Inv => NoRewind
  <2>1. SUFFICES ASSUME Inv  PROVE NoRewind
    OBVIOUS
  <2>2. Table(recorder)
    BY <2>1, PendingFacts DEF Inv, Held
  <2> QED BY <2>2 DEF NoRewind, Table
<1> QED BY <1>1, Invariance, PTL

\* There, once an export of the current archive has completed and the recorder
\* has caught up, the statistic is the fold of the archive's final points
\* (series.py, plan_series).
THEOREM StatisticIsTheFold ==
  ASSUME OneAtATime
  PROVE  Spec => []ExactFold
<1>1. Inv => ExactFold
  <2>1. SUFFICES ASSUME Inv, synced # "no", queue = <<>>  PROVE Folded
    BY DEF ExactFold
  <2>2. PICK z : Held(z)
    BY <2>1 DEF Inv
  <2>3. z = recorder
    BY <2>1, <2>2, PendingFacts DEF Held
  <2>4. /\ Complete(Points, Oldest, recorder)
        /\ \A s \in DOMAIN recorder : s >= 0 => s \in Emitted(Points, Oldest)
    BY <2>1, <2>2, <2>3 DEF Held, Recorded
  <2> DEFINE prefix == FinalPrefix(Points, Oldest)
             first == Min(Starts(prefix))
             rows == Fold(prefix, SumBefore(first))
  <2>5. SUFFICES ASSUME prefix # {}
                 PROVE  \A s \in DOMAIN rows : s \in DOMAIN recorder /\ recorder[s] = rows[s].sum
    BY DEF Folded
  <2>6. IsSeries(Points)
    BY <2>1, SeriesNow DEF Inv
  <2>7. first \in Nat /\ \A s \in Emitted(Points, Oldest) : first <= s
    <3>1. /\ Starts(prefix) \subseteq Starts(Points) /\ Starts(Points) \subseteq Nat
          /\ IsFiniteSet(Starts(prefix))
          /\ Emitted(Points, Oldest) \subseteq Starts(prefix)
      BY <2>6, PrefixFacts
    <3>2. Starts(prefix) # {}
      BY <2>5 DEF Starts
    <3>3. first \in Starts(prefix) /\ \A s \in Starts(prefix) : first <= s
      BY <3>1, <3>2, Extremes
    <3> QED BY <3>1, <3>3
  <2>8. SumBefore(first) = Base(recorder)
    <3>1. Pending(recorder, queue, recorder)
      BY <2>2, <2>3 DEF Held
    <3>2. \A t \in DOMAIN recorder : t >= 0 => first <= t
      BY <2>4, <2>7
    <3> HIDE DEF first
    <3> QED BY <2>7, <3>1, <3>2, SumBeforeIs
  <2>9. /\ DOMAIN rows = Emitted(Points, Oldest)
        /\ \A s \in Emitted(Points, Oldest) : rows[s].sum = Base(recorder) + Total(Points, s)
    BY <2>6, <2>8, FoldFacts
  <2> HIDE DEF rows
  <2> QED BY <2>4, <2>9 DEF Complete
<1> QED BY <1>1, Invariance, PTL

\* There, no plan refuses an export because the recorder is ahead of the archive
\* (series.py, plan_series, case 4).
THEOREM NeverAhead ==
  ASSUME OneAtATime
  PROVE  Spec => [](\A t \in Tasks : export[t].pc = "planned" =>
                      export[t].plan.action # "halt")
<1>1. Inv => \A t \in Tasks : export[t].pc = "planned" => export[t].plan.action # "halt"
  BY DEF Inv, Held, Phase, PhaseOf
<1> QED BY <1>1, Invariance, PTL

-----------------------------------------------------------------------------
(* Rebuilds in a row *)

\* The recorder commits an import before the next export, every daily read has a
\* value, and the user does not delete the statistic too often.
FewDeletes ==
  /\ MaxQueue = 0 /\ NULL \notin DailyValues
  /\ MaxDeletes \in Nat /\ MaxDeletes + 1 < ThrashLimit

\* The anchor is the newest row of the table r.
Newest(anchor, r) ==
  IF anchor = NULL THEN DOMAIN r = {}
  ELSE anchor.start \in DOMAIN r /\ anchor.sum = r[anchor.start]

\* An export that runs finds every import committed, and plans a rebuild only of
\* an empty table.
CalmOf(rec, r, q) ==
  /\ rec.pc \notin {"idle", "queued"} => q = <<>>
  /\ rec.pc \in {"hourly", "series", "feed", "fed"} => rec.anchor = NULL
  /\ rec.pc = "anchor" => Newest(rec.anchor, r)
  /\ rec.pc = "planned" =>
       /\ rec.plan.rows # NoRows => DOMAIN rec.plan.rows # {}
       /\ rec.plan.action = "full" => DOMAIN r = {} /\ rec.plan.rows # NoRows
  /\ rec.pc = "existing" => DOMAIN rec.plan.rows # {}

\* 1 while the next plan would be a rebuild that is not counted yet.
Owed(r, q, ex) ==
  IF DOMAIN r = {} /\ q = <<>> /\ (\A t \in Tasks : ex[t].pc # "existing") THEN 1 ELSE 0

\* Every rebuild in a row but the first answers a deletion of its own.
Calm ==
  /\ \A i \in 1 .. Len(queue) : DOMAIN queue[i] # {}
  /\ \A t \in Tasks : CalmOf(export[t], recorder, queue)
  /\ fulls \in Nat /\ fulls + Owed(recorder, queue, export) <= budget["deletes"] + 1
  /\ budget["deletes"] <= MaxDeletes
  /\ ~issue

\* Once the recorder holds what it will hold, only an empty table is rebuilt, and
\* the rebuild has rows.
LEMMA PlanRebuilds ==
  ASSUME NEW P, IsSeries(P), \A p \in P : EmitsRow(p),
         NEW o, NEW z, Table(z),
         NEW F, F \subseteq Int, Recorded(P, o, F, z),
         NEW anchor, Newest(anchor, z), NEW changed, Earliest(changed, F, z), NEW pre,
         pre = Base(z) \/ (anchor # NULL /\ anchor.start < Min(Starts(P)))
  PROVE  LET plan == PlanSeries(P, anchor, pre, changed, o)
         IN  /\ plan.rows # NoRows => DOMAIN plan.rows # {}
             /\ plan.action = "full" => DOMAIN z = {} /\ plan.rows # NoRows
<1> DEFINE prefix == FinalPrefix(P, o)
           E == Emitted(P, o)
           first == Min(Starts(prefix))
           last == Max(Starts(prefix))
           all == Fold(prefix, pre)
           new == From(all, anchor.start + 1)
           plan == PlanSeries(P, anchor, pre, changed, o)
<1>1. /\ E \subseteq Starts(prefix) /\ Starts(prefix) \subseteq Starts(P)
      /\ Starts(P) \subseteq Nat /\ prefix \subseteq P
      /\ IsFiniteSet(Starts(prefix)) /\ IsFiniteSet(Starts(P))
  BY PrefixFacts
<1>2. \A a, r : Plan(a, r).action = a /\ Plan(a, r).rows = r
  BY DEF Plan
<1>3. DOMAIN NoRows = {}
  BY DEF NoRows
<1>4. DOMAIN all = E /\ \A t \in E : all[t].sum = pre + Total(P, t)
  BY FoldFacts
<1>5. prefix # {} => E # {}
  BY <1>1 DEF Emitted, Starts
<1>6. plan.rows # NoRows => DOMAIN plan.rows # {}
  <2>1. \A base : DOMAIN Fold(prefix, base) = {} => Fold(prefix, base) = NoRows
    BY DEF Fold, NoRows
  <2>2. \A s : DOMAIN From(all, s) = {} => From(all, s) = NoRows
    <3> HIDE DEF all
    <3> QED BY DEF From, NoRows
  <2>3. \/ plan.rows = NoRows
        \/ \E base : plan.rows = Fold(prefix, base)
        \/ \E s : plan.rows = From(all, s)
    <3> HIDE DEF prefix
    <3> QED BY <1>2 DEF PlanSeries, prefix
  <2> DEFINE rows == plan.rows
  <2>4. DOMAIN rows = {} => rows = NoRows
    <3>1. ASSUME NEW base, rows = Fold(prefix, base)  PROVE DOMAIN rows = {} => rows = NoRows
      BY <2>1, <3>1
    <3>2. ASSUME NEW s, rows = From(all, s)  PROVE DOMAIN rows = {} => rows = NoRows
      BY <2>2, <3>2
    <3> HIDE DEF plan, all, prefix
    <3> QED BY <2>3, <3>1, <3>2
  <2> HIDE DEF rows
  <2> QED BY <2>4 DEF rows
<1>7. ASSUME plan.action = "full"  PROVE DOMAIN z = {} /\ plan.rows # NoRows
  <2>1. prefix # {}
    <3>1. prefix = {} => plan = Plan("none", NoRows)
      BY DEF PlanSeries
    <3> HIDE DEF plan
    <3> QED BY <1>2, <1>7, <3>1
  <2>2. CASE anchor = NULL
    <3>1. plan = Plan("full", all)
      BY <2>1, <2>2 DEF PlanSeries
    <3> HIDE DEF plan, all
    <3>2. plan.rows = all
      BY <1>2, <3>1
    <3> QED BY <1>3, <1>4, <1>5, <2>1, <2>2, <3>2 DEF Newest
  <2>3. CASE anchor # NULL
    <3>1. /\ anchor.start \in DOMAIN z /\ anchor.sum = z[anchor.start]
          /\ anchor.start \in Int
      BY <2>3 DEF Newest, Table
    <3>2. /\ ~(anchor.start > last) /\ ~(anchor.start < first)
          /\ \/ anchor.start \notin DOMAIN all
             \/ /\ ~(changed # NULL /\ changed <= anchor.start)
                /\ all[anchor.start].sum # anchor.sum
      <4>1. plan = IF anchor.start > last THEN Plan("halt", NoRows)
                   ELSE IF anchor.start < first THEN Plan("append", Fold(prefix, anchor.sum))
                   ELSE IF anchor.start \notin DOMAIN all THEN Plan("full", all)
                   ELSE IF changed # NULL /\ changed <= anchor.start
                        THEN Plan("reimport", From(all, changed))
                   ELSE IF all[anchor.start].sum # anchor.sum THEN Plan("full", all)
                   ELSE Plan(IF new = NoRows THEN "none" ELSE "append", new)
        BY <2>1, <2>3 DEF PlanSeries
      <4> HIDE DEF plan, all, new, first, last, prefix
      <4> QED BY <1>2, <1>7, <4>1
    <3>3. first \in Nat /\ Min(Starts(P)) <= first
      <4>1. Starts(prefix) # {} /\ Starts(P) # {}
        BY <1>1, <2>1 DEF Starts
      <4>2. first \in Starts(prefix)
        BY <1>1, <4>1, Extremes
      <4>3. \A t \in Starts(P) : Min(Starts(P)) <= t
        BY <1>1, <4>1, Extremes
      <4> QED BY <1>1, <4>2, <4>3
    <3> HIDE DEF first
    <3>4. anchor.start >= 0 /\ pre = Base(z)
      <4>1. Min(Starts(P)) \in Int
        <5>1. Starts(P) # {}
          BY <2>1, <1>1 DEF Starts
        <5> QED BY <1>1, <5>1, Extremes
      <4> QED BY <3>1, <3>2, <3>3, <4>1
    <3>5. anchor.start \in E
      BY <3>1, <3>4 DEF Recorded
    <3>6. \A s \in F : anchor.start < s
      <4>1. ~(changed # NULL /\ changed <= anchor.start)
        BY <1>4, <3>2, <3>5
      <4>2. CASE changed = NULL
        <5>1. ~(\A t \in DOMAIN z : t < 0)
          BY <3>1, <3>4
        <5>2. F = {}
          BY <4>2, <5>1 DEF Earliest
        <5> QED BY <5>2
      <4>3. CASE changed # NULL
        <5>1. changed \in F /\ \A s \in F : changed <= s
          BY <4>3 DEF Earliest
        <5>2. changed \in Int /\ \A s \in F : s \in Int
          BY <5>1
        <5>3. anchor.start < changed
          BY <3>1, <4>1, <4>3, <5>2
        <5> QED BY <3>1, <5>1, <5>2, <5>3
      <4> QED BY <4>2, <4>3
    <3>7. z[anchor.start] = Base(z) + Total(P, anchor.start)
      BY <3>1, <3>4, <3>6 DEF Recorded
    <3> QED BY <1>4, <3>1, <3>2, <3>4, <3>5, <3>7
  <2> QED BY <2>2, <2>3
<1> QED BY <1>6, <1>7

\* Every point of the archive has a row once daily reads have values.
LEMMA EveryPointEmits ==
  ASSUME FewDeletes, TypeInv
  PROVE  \A p \in Points : EmitsRow(p)
<1>1. Points = PointsOf(hour, day, Oldest)
  BY SeriesNow
<1>2. \A h : EmitsRow(HourPt(hour, Oldest, h))
  BY DEF EmitsRow, HourPt
<1>3. ASSUME NEW d \in Bucketed(hour, day, Oldest)  PROVE EmitsRow(DayPt(day, d))
  <2>1. d \in DayIds /\ day[d] # NULL
    BY <1>3 DEF Bucketed
  <2>2. day[d] \in [val : DailyValues]
    BY <2>1 DEF TypeInv, DayTable
  <2> QED BY <2>2 DEF EmitsRow, DayPt, FewDeletes
<1> QED BY <1>1, <1>2, <1>3 DEF PointsOf

\* The lone export becomes rec, and nothing else that counts changes.
LEMMA CalmRead ==
  ASSUME OneAtATime, TypeInv, Calm, NEW t \in Tasks, NEW rec,
         export' = [export EXCEPT ![t] = rec], UNCHANGED recorderVars,
         fulls' = fulls, issue' = issue, budget' = budget,
         CalmOf(rec, recorder, queue), rec.pc # "existing", export[t].pc # "existing"
  PROVE  Calm'
<1>1. \A u \in Tasks : u = t
  BY DEF OneAtATime
<1>2. \A u \in Tasks : export'[u] = rec
  BY <1>1 DEF TypeInv
<1>3. recorder' = recorder /\ queue' = queue
  BY DEF recorderVars
<1>4. Owed(recorder', queue', export') = Owed(recorder, queue, export)
  BY <1>1, <1>2, <1>3 DEF Owed
<1>5. \A u \in Tasks : CalmOf(export'[u], recorder', queue')
  BY <1>2, <1>3
<1> QED BY <1>3, <1>4, <1>5 DEF Calm

LEMMA CalmReads ==
  ASSUME OneAtATime, FewDeletes, Inv, Calm, NEW t \in Tasks,
         ReadHourly(t) \/ ReadDaily(t) \/ ReadFeed(t) \/ ReadDailyFeed(t) \/ ReadAnchor(t)
  PROVE  Calm'
<1> DEFINE rec == export[t]
           new == export'[t]
<1>1. /\ UNCHANGED recorderVars /\ fulls' = fulls /\ issue' = issue /\ budget' = budget
      /\ rec.pc \in {"idle", "hourly", "series", "feed", "fed"}
  BY DEF ReadHourly, ReadDaily, ReadFeed, ReadDailyFeed, ReadAnchor
<1>2. TypeInv /\ Shaped(rec) /\ CalmOf(rec, recorder, queue)
  BY DEF Inv, TypeInv, Calm
<1>3. SUFFICES /\ export' = [export EXCEPT ![t] = new]
               /\ CalmOf(new, recorder, queue) /\ new.pc # "existing"
  <2> HIDE DEF new
  <2> QED BY <1>1, <1>2, <1>3, CalmRead
<1>4. CASE ReadHourly(t)
  <2>1. new = [[Resting EXCEPT !.hourly = Hourly, !.oldest = Oldest] EXCEPT !.pc = "hourly"]
    BY <1>2, <1>4 DEF ReadHourly, Go, TypeInv
  <2>2. new.pc = "hourly" /\ new.anchor = NULL
    BY <2>1 DEF Resting
  <2>3. queue = <<>>
    <3>1. PICK z : Held(z)
      BY DEF Inv
    <3>2. PICK S : queue \in Seq(S)
      BY <3>1 DEF Held, Pending
    <3> QED BY <1>4, <3>2 DEF ReadHourly, FewDeletes
  <2>4. export' = [export EXCEPT ![t] = new]
    BY <1>4, <2>1 DEF ReadHourly, Go
  <2> HIDE DEF new
  <2> QED BY <2>2, <2>3, <2>4 DEF CalmOf
<1>5. CASE ReadDaily(t) \/ ReadFeed(t) \/ ReadDailyFeed(t)
  <2>1. new.pc \in {"series", "feed", "fed"} /\ new.anchor = rec.anchor
    <3> DEFINE chg == IF marked /\ feedHours # {} THEN Min(feedHours) ELSE NULL
    <3>1. CASE ReadDaily(t)
      <4> DEFINE pts == BuildPoints(rec.hourly, Daily, rec.oldest)
      <4>1. new = [[rec EXCEPT !.hourly = {}, !.points = pts] EXCEPT !.pc = "series"]
        BY <1>2, <3>1 DEF ReadDaily, Go, TypeInv
      <4> HIDE DEF pts, new
      <4> QED BY <1>2, <4>1 DEF Shaped
    <3>2. CASE ReadFeed(t)
      <4>1. new = [[rec EXCEPT !.since = marked, !.changed = chg] EXCEPT !.pc = "feed"]
        BY <1>2, <3>2 DEF ReadFeed, Go, TypeInv
      <4> HIDE DEF chg, new
      <4> QED BY <1>2, <4>1 DEF Shaped
    <3>3. CASE ReadDailyFeed(t)
      <4>1. \E mid : /\ mid = rec \/ \E m : mid = [rec EXCEPT !.changed = m]
                     /\ new = [mid EXCEPT !.pc = "fed"]
        <5> DEFINE all == ({d * DayLen : d \in feedDays}
                             \cap Starts({p \in rec.points : p.kind = "day"}))
                          \cup ({rec.changed} \ {NULL})
                   m == Min(all)
                   mid == IF rec.since /\ all # {} THEN [rec EXCEPT !.changed = m] ELSE rec
        <5>1. new = [mid EXCEPT !.pc = "fed"]
          BY <1>2, <3>3 DEF ReadDailyFeed, Go, TypeInv
        <5> HIDE DEF new, all, m
        <5>2. mid = rec \/ mid = [rec EXCEPT !.changed = m]
          OBVIOUS
        <5> HIDE DEF mid
        <5> QED BY <5>1, <5>2
      <4>2. PICK mid : /\ mid = rec \/ \E m : mid = [rec EXCEPT !.changed = m]
                       /\ new = [mid EXCEPT !.pc = "fed"]
        BY <4>1
      <4>3. Shaped(mid) /\ mid.anchor = rec.anchor
        BY <1>2, <4>2 DEF Shaped
      <4> HIDE DEF new
      <4> QED BY <4>2, <4>3 DEF Shaped
    <3> QED BY <1>5, <3>1, <3>2, <3>3
  <2>2. export' = [export EXCEPT ![t] = new]
    BY <1>2, <1>5 DEF ReadDaily, ReadFeed, ReadDailyFeed, Go, TypeInv
  <2>3. rec.pc \in {"hourly", "series", "feed"}
    BY <1>5 DEF ReadDaily, ReadFeed, ReadDailyFeed
  <2> HIDE DEF new
  <2> QED BY <1>2, <2>1, <2>2, <2>3 DEF CalmOf
<1>6. CASE ReadAnchor(t)
  <2> DEFINE newest == Max(DOMAIN recorder)
             row == [start |-> newest, sum |-> recorder[newest]]
             mid == IF DOMAIN recorder = {} THEN rec ELSE [rec EXCEPT !.anchor = row]
  <2>1. export' = [export EXCEPT ![t] = new] /\ new = [mid EXCEPT !.pc = "anchor"] /\ rec.pc = "fed"
    BY <1>2, <1>6 DEF ReadAnchor, Go, TypeInv
  <2>2. /\ new.pc = "anchor"
        /\ new.anchor = IF DOMAIN recorder = {} THEN rec.anchor ELSE row
    <3> HIDE DEF row
    <3>1. Shaped(mid) /\ mid.anchor = IF DOMAIN recorder = {} THEN rec.anchor ELSE row
      <4>1. CASE DOMAIN recorder = {}
        BY <1>2, <4>1 DEF Shaped
      <4>2. CASE DOMAIN recorder # {}
        BY <1>2, <4>2 DEF Shaped
      <4> QED BY <4>1, <4>2
    <3> HIDE DEF mid, new
    <3> QED BY <2>1, <3>1 DEF Shaped
  <2>3. Newest(new.anchor, recorder)
    <3>1. CASE DOMAIN recorder = {}
      BY <1>2, <2>1, <2>2, <3>1 DEF CalmOf, Newest
    <3>2. CASE DOMAIN recorder # {}
      <4>1. Table(recorder)
        <5>1. PICK z : Held(z)
          BY DEF Inv
        <5> QED BY <5>1, PendingFacts DEF Held
      <4>2. newest \in DOMAIN recorder
        BY <3>2, <4>1, Extremes DEF Table
      <4>3. row.start = newest /\ row.sum = recorder[newest]
        OBVIOUS
      <4>4. row # NULL
        <5>1. newest \in Int /\ recorder[newest] \in Nat
          BY <4>1, <4>2 DEF Table
        <5> QED BY <5>1, NullAssumption
      <4> HIDE DEF newest, row, new
      <4> QED BY <2>2, <3>2, <4>2, <4>3, <4>4 DEF Newest
    <3> QED BY <3>1, <3>2
  <2> HIDE DEF new
  <2> QED BY <1>2, <2>1, <2>2, <2>3 DEF CalmOf
<1> QED BY <1>4, <1>5, <1>6

LEMMA CalmPlan ==
  ASSUME OneAtATime, FewDeletes, Inv, Calm, NEW t \in Tasks, ReadSumBefore(t)
  PROVE  Calm'
<1> DEFINE rec == export[t]
           first == Min(Starts(rec.points))
           pre == IF rec.anchor = NULL \/ rec.anchor.start < first THEN 0 ELSE SumBefore(first)
           plan == PlanSeries(rec.points, rec.anchor, pre, rec.changed, rec.oldest)
           new == [[Resting EXCEPT !.plan = plan, !.stale = rec.stale] EXCEPT !.pc = "planned"]
<1>1. /\ UNCHANGED recorderVars /\ fulls' = fulls /\ issue' = issue /\ budget' = budget
      /\ rec.pc = "anchor" /\ export' = [export EXCEPT ![t] = new]
  BY DEF ReadSumBefore, Go
<1>2. new.pc = "planned" /\ new.plan = plan
  <2> HIDE DEF plan
  <2> QED BY DEF Resting
<1>3. TypeInv /\ CalmOf(rec, recorder, queue)
  BY DEF Inv, Calm
<1>4. queue = <<>> /\ Newest(rec.anchor, recorder)
  BY <1>1, <1>3 DEF CalmOf
<1>5. Held(recorder)
  <2>1. PICK z : Held(z)
    BY DEF Inv
  <2>2. z = recorder
    BY <1>4, <2>1, PendingFacts DEF Held
  <2> QED BY <2>1, <2>2
<1>6. /\ rec.points = Points /\ rec.oldest = Oldest /\ Points # {}
      /\ Earliest(rec.changed, Feed, recorder) /\ Anchors(rec.anchor, recorder)
      /\ Pending(recorder, queue, recorder) /\ Table(recorder)
      /\ Recorded(Points, Oldest, Feed, recorder)
      /\ IsSeries(Points) /\ Feed \subseteq Int
      /\ \A s \in DOMAIN recorder : s >= 0 => s \in Emitted(Points, Oldest)
  BY <1>1, <1>3, <1>5, HeldFacts DEF PhaseOf
<1>7. first \in Nat /\ \A s \in Starts(Points) : first <= s
  <2>1. Starts(Points) \subseteq Nat /\ IsFiniteSet(Starts(Points))
    BY <1>6, PrefixFacts
  <2>2. Starts(Points) # {}
    BY <1>6 DEF Starts
  <2> QED BY <1>6, <2>1, <2>2, Extremes
<1>8. \A s \in DOMAIN recorder : s >= 0 => first <= s
  <2>1. Emitted(Points, Oldest) \subseteq Starts(Points)
    BY <1>6, PrefixFacts
  <2> QED BY <1>6, <1>7, <2>1
<1> HIDE DEF first
<1>9. pre = Base(recorder) \/ (rec.anchor # NULL /\ rec.anchor.start < first)
  <2>1. CASE rec.anchor = NULL
    BY <1>6, <2>1 DEF Anchors, Base
  <2>2. CASE rec.anchor # NULL /\ ~(rec.anchor.start < first)
    BY <1>6, <1>7, <1>8, <2>2, SumBeforeIs
  <2> QED BY <2>1, <2>2
<1>10. /\ plan.rows # NoRows => DOMAIN plan.rows # {}
       /\ plan.action = "full" => DOMAIN recorder = {} /\ plan.rows # NoRows
  <2>1. \A p \in Points : EmitsRow(p)
    BY <1>3, EveryPointEmits
  <2> HIDE DEF pre
  <2> QED BY <1>4, <1>6, <1>9, <2>1, PlanRebuilds DEF first
<1> HIDE DEF plan, new
<1>11. CalmOf(new, recorder, queue)
  BY <1>2, <1>4, <1>10 DEF CalmOf
<1> QED BY <1>1, <1>2, <1>3, <1>11, CalmRead

\* Counting one more rebuild stays below the limit.
LEMMA FullsFacts ==
  ASSUME fulls \in Nat, NEW plan
  PROVE  /\ FullsAfter(plan) \in Nat
         /\ plan.action # "full" => FullsAfter(plan) = 0
         /\ FullsAfter(plan) <= fulls + 1
<1> DEFINE both == {fulls + 1, ThrashLimit}
<1>1. both \subseteq Int /\ ThrashLimit \in Nat
  BY ExporterAssumption
<1>2. IsFiniteSet(both)
  <2>1. both = {fulls + 1} \cup {ThrashLimit}
    OBVIOUS
  <2> HIDE DEF both
  <2> QED BY <2>1, FS_Singleton, FS_Union
<1>3. both # {}
  OBVIOUS
<1>4. Min(both) \in both /\ \A x \in both : Min(both) <= x
  BY <1>1, <1>2, <1>3, Extremes
<1> QED BY <1>1, <1>4 DEF FullsAfter

\* No plan is refused, and what is queued has rows.
LEMMA CalmActs ==
  ASSUME OneAtATime, FewDeletes, Inv, Calm, NEW t \in Tasks,
         \/ Halt(t) \/ UpToDate(t) \/ ReadExisting(t)
         \/ QueueAppend(t) \/ QueueRewrite(t) \/ SetWatermark(t)
  PROVE  Calm'
<1> DEFINE rec == export[t]
           plan == rec.plan
           new == export'[t]
<1>1. \A u \in Tasks : u = t
  BY DEF OneAtATime
<1>2. TypeInv /\ Shaped(rec) /\ CalmOf(rec, recorder, queue)
  BY DEF Inv, TypeInv, Calm
<1>3. /\ fulls \in Nat /\ budget["deletes"] \in Nat /\ budget["deletes"] <= MaxDeletes
      /\ fulls + Owed(recorder, queue, export) <= budget["deletes"] + 1
      /\ Owed(recorder, queue, export) \in {0, 1}
      /\ MaxDeletes \in Nat /\ MaxDeletes + 1 < ThrashLimit /\ ThrashLimit \in Nat
  BY <1>2, ExporterAssumption DEF Calm, TypeInv, Bounded, Owed, FewDeletes
<1>4. PICK S : queue \in Seq(S)
  BY DEF Inv, Held, Pending
<1>5. /\ FullsAfter(plan) \in Nat
      /\ plan.action # "full" => FullsAfter(plan) = 0
      /\ FullsAfter(plan) <= fulls + 1
  BY <1>3, FullsFacts
<1>6. rec.pc = "planned" /\ plan.action = "full" =>
        Owed(recorder, queue, export) = 1 /\ FullsAfter(plan) <= budget["deletes"] + 1
  <2>1. SUFFICES ASSUME rec.pc = "planned", plan.action = "full"
                 PROVE  /\ Owed(recorder, queue, export) = 1
                        /\ FullsAfter(plan) <= budget["deletes"] + 1
    OBVIOUS
  <2>2. DOMAIN recorder = {} /\ queue = <<>>
    BY <1>2, <2>1 DEF CalmOf
  <2>3. \A u \in Tasks : export[u].pc # "existing"
    BY <1>1, <2>1
  <2>4. Owed(recorder, queue, export) = 1
    BY <2>2, <2>3 DEF Owed
  <2> HIDE DEF plan
  <2> QED BY <1>3, <1>5, <2>4
<1>7. rec.pc = "planned" => ~Refused(plan)
  <2>1. rec.pc = "planned" => plan.action # "halt"
    BY DEF Inv, Held, Phase, PhaseOf
  <2> HIDE DEF plan, rec
  <2> QED BY <1>3, <1>5, <1>6, <2>1 DEF Refused, Thrashing
<1>8. ~Halt(t)
  BY <1>7 DEF Halt
<1>9. CASE UpToDate(t) \/ SetWatermark(t)
  <2>1. /\ export' = [export EXCEPT ![t] = Resting] /\ issue' = FALSE
        /\ recorder' = recorder /\ queue' = queue /\ budget' = budget
        /\ rec.pc # "existing"
    BY <1>9 DEF UpToDate, SetWatermark, recorderVars
  <2>2. \A u \in Tasks : export'[u] = Resting
    BY <1>1, <1>2, <2>1 DEF TypeInv
  <2>3. \A u \in Tasks : CalmOf(export'[u], recorder', queue')
    BY <2>2, RestingFacts DEF CalmOf
  <2>4. Owed(recorder', queue', export') = Owed(recorder, queue, export)
    BY <1>1, <2>1, <2>2, RestingFacts DEF Owed
  <2>5. fulls' \in Nat /\ (fulls' = 0 \/ fulls' = fulls)
    <3>1. CASE UpToDate(t)
      <4>1. plan.action # "full"
        BY <1>2, <3>1 DEF UpToDate, CalmOf
      <4>2. fulls' = FullsAfter(plan)
        BY <3>1 DEF UpToDate
      <4> QED BY <1>5, <4>1, <4>2
    <3>2. CASE SetWatermark(t)
      BY <1>3, <3>2 DEF SetWatermark
    <3> QED BY <1>9, <3>1, <3>2
  <2> QED BY <1>3, <2>1, <2>3, <2>4, <2>5 DEF Calm
<1>10. CASE ReadExisting(t)
  <2>1. /\ rec.pc = "planned" /\ plan.rows # NoRows
        /\ fulls' = FullsAfter(plan) /\ issue' = issue
        /\ recorder' = recorder /\ queue' = queue /\ budget' = budget
        /\ export' = [export EXCEPT ![t] = [[rec EXCEPT !.existing = DOMAIN recorder]
                                              EXCEPT !.pc = "existing"]]
    BY <1>10 DEF ReadExisting, Go, recorderVars
  <2>2. new.pc = "existing" /\ new.plan = plan
    <3> DEFINE mid == [rec EXCEPT !.existing = DOMAIN recorder]
    <3>1. new = [mid EXCEPT !.pc = "existing"]
      BY <1>2, <2>1 DEF TypeInv
    <3>2. Shaped(mid) /\ mid.plan = rec.plan
      BY <1>2 DEF Shaped
    <3> HIDE DEF mid, new
    <3> QED BY <3>1, <3>2 DEF Shaped
  <2>3. DOMAIN plan.rows # {} /\ queue = <<>>
    BY <1>2, <2>1 DEF CalmOf
  <2> HIDE DEF new
  <2>4. CalmOf(new, recorder, queue)
    BY <2>2, <2>3 DEF CalmOf
  <2>5. Owed(recorder', queue', export') = 0
    BY <2>2 DEF Owed, new
  <2>6. fulls' <= budget["deletes"] + 1
    <3> HIDE DEF plan
    <3> QED BY <1>3, <1>5, <1>6, <2>1
  <2>7. \A u \in Tasks : export'[u] = new
    BY <1>1 DEF new
  <2>8. \A u \in Tasks : CalmOf(export'[u], recorder', queue')
    BY <2>1, <2>4, <2>7
  <2> QED BY <1>3, <1>5, <2>1, <2>5, <2>6, <2>8 DEF Calm
<1>11. ASSUME NEW rows, Queue(t, rows), DOMAIN rows # {},
              fulls' \in Nat, fulls' <= budget["deletes"] + 1
       PROVE  Calm'
  <2>1. /\ queue' = Append(queue, rows) /\ recorder' = recorder
        /\ issue' = issue /\ budget' = budget
        /\ export' = [export EXCEPT ![t] = [[Resting EXCEPT !.stale = rec.stale]
                                              EXCEPT !.pc = "queued"]]
    BY <1>11 DEF Queue, Go
  <2>2. new.pc = "queued"
    BY <1>2, <2>1 DEF TypeInv, Resting
  <2> HIDE DEF new
  <2>3. \A u \in Tasks : CalmOf(export'[u], recorder', queue')
    BY <1>1, <2>2 DEF CalmOf, new
  <2>4. /\ queue' # <<>> /\ Len(queue') = Len(queue) + 1 /\ Len(queue) \in Nat
        /\ \A i \in 1 .. Len(queue') : queue'[i] = IF i <= Len(queue) THEN queue[i] ELSE rows
    <3>1. queue \in Seq(S \cup {rows})
      BY <1>4
    <3> QED BY <2>1, <3>1
  <2>5. \A i \in 1 .. Len(queue') : DOMAIN queue'[i] # {}
    BY <1>11, <2>4 DEF Calm
  <2>6. Owed(recorder', queue', export') = 0
    BY <2>4 DEF Owed
  <2> QED BY <1>3, <1>11, <2>1, <2>3, <2>5, <2>6 DEF Calm
<1>12. CASE QueueAppend(t)
  <2>1. /\ rec.pc = "planned" /\ plan.rows # NoRows /\ fulls' = 0
        /\ Queue(t, plan.rows)
    BY <1>12 DEF QueueAppend
  <2>2. DOMAIN plan.rows # {}
    BY <1>2, <2>1 DEF CalmOf
  <2> QED BY <1>3, <1>11, <2>1, <2>2
<1>13. CASE QueueRewrite(t)
  <2> DEFINE rows == MergeStrayRows(plan.rows, rec.existing)
  <2>1. rec.pc = "existing" /\ fulls' = fulls /\ Queue(t, rows)
    BY <1>13 DEF QueueRewrite
  <2>2. DOMAIN plan.rows # {}
    BY <1>2, <2>1 DEF CalmOf
  <2>3. DOMAIN rows # {}
    BY <2>2 DEF MergeStrayRows
  <2> HIDE DEF rows
  <2> QED BY <1>3, <1>11, <2>1, <2>3
<1> QED BY <1>8, <1>9, <1>10, <1>12, <1>13

\* While no export runs, the archive or the user acts: only a deletion counts.
LEMMA CalmWorld ==
  ASSUME OneAtATime, FewDeletes, Inv, Calm,
         FetchGrid \/ FetchDaily \/ DayPasses \/ UserDeletes
  PROVE  Calm'
<1>1. TypeInv /\ budget \in [Bounded -> Nat] /\ "deletes" \in Bounded /\ "writes" \in Bounded
  BY DEF Inv, TypeInv, Bounded
<1>2. Quiet /\ Disturb /\ queue' = queue
  BY DEF OneAtATime, FetchGrid, FetchDaily, DayPasses, UserDeletes, recorderVars
<1>3. export' = export /\ fulls' = fulls /\ issue' = issue
  BY <1>1, <1>2, DisturbQuiet DEF Disturb
<1>4. \A u \in Tasks : CalmOf(export'[u], recorder', queue')
  BY <1>2, <1>3 DEF Quiet, CalmOf
<1>5. CASE FetchGrid \/ FetchDaily \/ DayPasses
  <2>1. budget'["deletes"] = budget["deletes"] /\ recorder' = recorder
    BY <1>1, <1>5 DEF FetchGrid, FetchDaily, DayPasses, Spend, recorderVars
  <2> QED BY <1>2, <1>3, <1>4, <2>1 DEF Calm
<1>6. CASE UserDeletes
  <2>1. budget'["deletes"] = budget["deletes"] + 1 /\ budget["deletes"] < MaxDeletes
    BY <1>1, <1>6 DEF UserDeletes, Spend
  <2>2. Owed(recorder', queue', export') \in {0, 1} /\ Owed(recorder, queue, export) \in {0, 1}
    BY DEF Owed
  <2>3. budget["deletes"] \in Nat /\ MaxDeletes \in Nat
    BY <1>1 DEF FewDeletes
  <2>4. fulls + Owed(recorder', queue', export') <= budget'["deletes"] + 1
    BY <2>1, <2>2, <2>3 DEF Calm
  <2>5. budget'["deletes"] <= MaxDeletes
    BY <2>1, <2>3
  <2> QED BY <1>2, <1>3, <1>4, <2>4, <2>5 DEF Calm
<1> QED BY <1>5, <1>6

LEMMA CalmRecorder ==
  ASSUME OneAtATime, Inv, Calm, RecorderApplies
  PROVE  Calm'
<1>1. PICK S : queue \in Seq(S)
  BY DEF Inv, Held, Pending
<1>2. /\ queue # <<>> /\ queue' = Tail(queue) /\ recorder' = Taken(recorder, Head(queue))
      /\ export' = export /\ fulls' = fulls /\ issue' = issue /\ budget' = budget
  BY DEF RecorderApplies, Taken, exportVars
<1>3. /\ Len(queue) \in Nat /\ Len(queue) > 0 /\ Head(queue) = queue[1]
      /\ Len(queue') = Len(queue) - 1
      /\ \A i \in 1 .. Len(queue') : queue'[i] = queue[i + 1]
  BY <1>1, <1>2
<1>4. ASSUME NEW i \in 1 .. Len(queue')  PROVE DOMAIN queue'[i] # {}
  <2>1. i + 1 \in 1 .. Len(queue) /\ queue'[i] = queue[i + 1]
    BY <1>3
  <2> QED BY <2>1 DEF Calm
<1>5. DOMAIN recorder' # {}
  BY <1>2, <1>3 DEF Calm, Taken
<1>6. Owed(recorder', queue', export') = 0 /\ Owed(recorder, queue, export) \in {0, 1}
  BY <1>5 DEF Owed
<1>7. \A u \in Tasks : CalmOf(export'[u], recorder', queue')
  BY <1>2 DEF Calm, CalmOf
<1>8. budget["deletes"] \in Nat
  BY DEF Inv, TypeInv, Bounded
<1>9. fulls' + Owed(recorder', queue', export') <= budget'["deletes"] + 1
  BY <1>2, <1>6, <1>8 DEF Calm
<1> QED BY <1>2, <1>4, <1>7, <1>9 DEF Calm

LEMMA CalmInvariance ==
  ASSUME OneAtATime, FewDeletes
  PROVE  Spec => []Calm
<1>1. Init => Calm
  <2>1. SUFFICES ASSUME Init  PROVE Calm
    OBVIOUS
  <2>2. \A t \in Tasks : CalmOf(export[t], recorder, queue)
    BY <2>1, RestingFacts DEF Init, CalmOf
  <2>3. fulls = 0 /\ budget["deletes"] = 0 /\ queue = <<>> /\ ~issue
    BY <2>1 DEF Init, Bounded
  <2>4. Owed(recorder, queue, export) \in {0, 1}
    BY DEF Owed
  <2> QED BY <2>2, <2>3, <2>4 DEF Calm, FewDeletes
<1>2. Inv /\ Calm /\ [Next]_vars => Calm'
  <2>1. SUFFICES ASSUME Inv, Calm, [Next]_vars  PROVE Calm'
    OBVIOUS
  <2>2. CASE FetchGrid \/ FetchDaily \/ DayPasses \/ UserDeletes
    BY <2>1, <2>2, CalmWorld
  <2>3. CASE RecorderApplies
    BY <2>1, <2>3, CalmRecorder
  <2>4. CASE ParseError \/ Reparse \/ UserAdjusts \/ Restart
    BY <2>1, <2>4, NeverActs DEF Inv
  <2>5. ASSUME NEW t \in Tasks, Export(t)  PROVE Calm'
    BY <2>1, <2>5, CalmReads, CalmPlan, CalmActs DEF Export
  <2>6. CASE UNCHANGED vars
    BY <2>1, <2>6 DEF vars, recorderVars, exportVars, Calm
  <2> QED BY <2>1, <2>2, <2>3, <2>4, <2>5, <2>6 DEF Next
<1> QED BY <1>1, <1>2, Invariance, PTL DEF Spec

\* There, if the recorder keeps up, daily reads have values and the user deletes
\* the statistic fewer times than the limit less one, no export halts: each full
\* rebuild in a row but the first takes another deletion (exporter.py,
\* THRASH_LIMIT and async_export).
THEOREM HaltsTakeDeletions ==
  ASSUME OneAtATime, FewDeletes
  PROVE  Spec => []NeverHalts
<1>1. Calm => NeverHalts
  BY DEF Calm, NeverHalts
<1> QED BY <1>1, CalmInvariance, PTL

=============================================================================
