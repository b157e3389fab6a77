---------------------------- MODULE Fleet_proofs ----------------------------
(***************************************************************************)
(* Proofs about module FleetReport: what the reports on the files of a     *)
(* fleet of processes are worth.  The lemmas go from folds, sums and ranks *)
(* over the replay of one process to what each step of the fleet adds to   *)
(* the file; the theorems are where the invariants they need are at hand.  *)
(***************************************************************************)
EXTENDS FleetReport, FiniteSetTheorems, SequenceTheorems, WellFoundedInduction, TLAPS

-----------------------------------------------------------------------------
(* Induction over the natural numbers, and over the subsets of a set.      *)

Less == OpToRel(<, Nat)

\* Every set of natural numbers has a least element.
LEMMA Least ==
  ASSUME NEW T, T \subseteq Nat, T # {}
  PROVE  \E x \in T : \A y \in T : x <= y
<1>1. IsWellFoundedOn(Less, Nat)
  BY NatLessThanWellFounded DEF Less
<1>2. \E x \in T : \A y \in T : ~(<<y, x>> \in Less)
  BY <1>1, WFMin
<1>3. \A x, y \in Nat : y < x => <<y, x>> \in Less
  BY DEF Less, OpToRel
<1>4. PICK x \in T : \A y \in T : ~(<<y, x>> \in Less)
  BY <1>2
<1>5. ASSUME NEW y \in T
      PROVE  x <= y
  <2>1. x \in Nat /\ y \in Nat /\ ~(y < x)
    BY <1>3, <1>4
  <2> QED
    BY <2>1
<1> QED
  BY <1>5

\* Induction, on the set of the numbers for which something holds.
LEMMA Induction ==
  ASSUME NEW T, 0 \in T, \A n \in Nat : n \in T => n + 1 \in T
  PROVE  Nat \subseteq T
<1>1. SUFFICES ASSUME Nat \ T # {} PROVE FALSE
  OBVIOUS
<1>2. PICK x \in Nat \ T : \A y \in Nat \ T : x <= y
  BY <1>1, Least
<1>3. x - 1 \in Nat /\ x - 1 \in T
  BY <1>2
<1> QED
  BY <1>2, <1>3

\* Induction over the subsets of a finite set.
LEMMA SetInduction ==
  ASSUME NEW S, IsFiniteSet(S), NEW T, {} \in T,
         \A u \in SUBSET S : u # {} /\ (\A x \in u : u \ {x} \in T) => u \in T
  PROVE  \A u \in SUBSET S : u \in T
<1> DEFINE K == {k \in Nat : \A u \in SUBSET S : Cardinality(u) = k => u \in T}
<1>1. \A u \in SUBSET S : IsFiniteSet(u) /\ Cardinality(u) \in Nat
  BY FS_Subset, FS_CardinalityType
<1>2. 0 \in K
  BY <1>1, FS_EmptySet
<1>3. ASSUME NEW k \in Nat, k \in K
      PROVE  k + 1 \in K
  <2>1. SUFFICES ASSUME NEW u \in SUBSET S, Cardinality(u) = k + 1
                 PROVE  u \in T
    OBVIOUS
  <2>2. u # {}
    BY <1>1, <2>1, FS_EmptySet
  <2>3. ASSUME NEW x \in u
        PROVE  u \ {x} \in T
    <3>1. Cardinality(u \ {x}) = k
      BY <1>1, <2>1, FS_RemoveElement
    <3> QED
      BY <1>3, <3>1
  <2> QED
    BY <2>2, <2>3
<1>4. Nat \subseteq K
  <2> HIDE DEF K
  <2> QED
    BY <1>2, <1>3, Induction
<1> QED
  BY <1>1, <1>4

\* A finite set of integers has a largest element.
LEMMA MaxOf ==
  ASSUME NEW u, IsFiniteSet(u), u \subseteq Int, u # {}
  PROVE  Max(u) \in u /\ \A x \in u : x <= Max(u)
<1> DEFINE T == {v \in SUBSET u : v # {} => \E x \in v : \A y \in v : x >= y}
<1>1. {} \in T
  OBVIOUS
<1>2. ASSUME NEW v \in SUBSET u, v # {}, \A x \in v : v \ {x} \in T
      PROVE  v \in T
  <2>1. PICK x \in v : TRUE
    BY <1>2
  <2>2. CASE v = {x}
    BY <2>1, <2>2
  <2>3. CASE v # {x}
    <3>1. v \ {x} # {} /\ v \ {x} \in T
      BY <1>2, <2>1, <2>3
    <3>2. PICK y \in v \ {x} : \A z \in v \ {x} : y >= z
      BY <3>1
    <3>3. x \in Int /\ y \in Int /\ \A z \in v : z \in Int
      BY <2>1
    <3> QED
      BY <3>2, <3>3
  <2> QED
    BY <2>2, <2>3
<1>3. \E x \in u : \A y \in u : x >= y
  <2>1. u \in SUBSET u
    OBVIOUS
  <2> HIDE DEF T
  <2>2. u \in T
    BY <1>1, <1>2, <2>1, SetInduction
  <2> QED
    BY <2>2 DEF T
<1>4. Max(u) \in u /\ \A y \in u : Max(u) >= y
  BY <1>3 DEF Max
<1> QED
  BY <1>4

LEMMA Largest ==
  ASSUME NEW n \in Nat, NEW u \in SUBSET (1 .. n), u # {}
  PROVE  Max(u) \in u /\ \A x \in u : x <= Max(u)
<1>1. IsFiniteSet(1 .. n)
  BY FS_Interval
<1>2. u \subseteq 1 .. n
  OBVIOUS
<1>3. IsFiniteSet(u)
  BY <1>1, <1>2, FS_Subset
<1>4. u \subseteq Int
  BY <1>2
<1> QED
  BY <1>3, <1>4, MaxOf

-----------------------------------------------------------------------------
(* The sum over a set.                                                     *)

Chosen(u) == CHOOSE x \in u : TRUE

LEMMA ChosenIsIn == ASSUME NEW u, u # {} PROVE Chosen(u) \in u
BY DEF Chosen

\* The sum of m over a set.
Sum(m, S) == MapThenSumSet(LAMBDA a : m[a], S)

Sums(f, m, S) ==
  f = [u \in SUBSET S |-> IF u = {} THEN 0 ELSE m[Chosen(u)] + f[u \ {Chosen(u)}]]

LEMMA SumIsSums ==
  ASSUME NEW m, NEW S
  PROVE  Sum(m, S) = (CHOOSE f : Sums(f, m, S))[S]
BY DEF Sum, MapThenSumSet, MapThenFoldSet, Sums, Chosen

LEMMA SumsValue ==
  ASSUME NEW f, NEW m, NEW S, Sums(f, m, S), NEW u \in SUBSET S
  PROVE  f[u] = IF u = {} THEN 0 ELSE m[Chosen(u)] + f[u \ {Chosen(u)}]
<1> DEFINE F(w) == IF w = {} THEN 0 ELSE m[Chosen(w)] + f[w \ {Chosen(w)}]
<1> HIDE DEF F
<1>1. f = [w \in SUBSET S |-> F(w)]
  BY DEF Sums, F
<1>2. f[u] = F(u)
  BY <1>1
<1> QED
  BY <1>2 DEF F

LEMMA SumsExist ==
  ASSUME NEW m, NEW S, IsFiniteSet(S)
  PROVE  \E f : Sums(f, m, S)
<1> DEFINE Step(f, u) == IF u = {} THEN 0 ELSE m[Chosen(u)] + f[u \ {Chosen(u)}]
           UpTo(f, k) == \A u \in SUBSET S : Cardinality(u) <= k => f[u] = Step(f, u)
           K == {k \in Nat : \E f : UpTo(f, k)}
<1>1. \A u \in SUBSET S : IsFiniteSet(u) /\ Cardinality(u) \in Nat
  BY FS_Subset, FS_CardinalityType
<1>2. \A u \in SUBSET S : Cardinality(u) = 0 => u = {}
  BY <1>1, FS_EmptySet
<1>3. 0 \in K
  <2> DEFINE f == [u \in SUBSET S |-> 0]
  <2>1. UpTo(f, 0)
    BY <1>1, <1>2
  <2> QED
    BY <2>1
<1>4. ASSUME NEW k \in Nat, k \in K
      PROVE  k + 1 \in K
  <2>1. PICK f : UpTo(f, k)
    BY <1>4
  <2> HIDE DEF Step
  <2> DEFINE h == [u \in SUBSET S |-> Step(f, u)]
  <2>2. \A u \in SUBSET S : Cardinality(u) <= k => h[u] = f[u]
    BY <2>1
  <2>3. ASSUME NEW u \in SUBSET S, Cardinality(u) <= k + 1
        PROVE  h[u] = Step(h, u)
    <3>1. CASE u = {}
      BY <3>1 DEF Step
    <3>2. CASE u # {}
      <4>1. Chosen(u) \in u
        BY <3>2, ChosenIsIn
      <4>2. Cardinality(u \ {Chosen(u)}) = Cardinality(u) - 1
        BY <1>1, <4>1, FS_RemoveElement
      <4>3. u \ {Chosen(u)} \in SUBSET S /\ Cardinality(u \ {Chosen(u)}) <= k
        BY <1>1, <2>3, <4>2
      <4>4. h[u \ {Chosen(u)}] = f[u \ {Chosen(u)}]
        BY <2>2, <4>3
      <4>5. h[u] = m[Chosen(u)] + f[u \ {Chosen(u)}]
        BY <3>2 DEF Step
      <4> HIDE DEF h
      <4> QED
        BY <3>2, <4>4, <4>5 DEF Step
    <3> QED
      BY <3>1, <3>2
  <2>4. UpTo(h, k + 1)
    BY <2>3
  <2> HIDE DEF h, UpTo
  <2> QED
    BY <2>4
<1>5. Cardinality(S) \in K
  <2> HIDE DEF K
  <2> QED
    BY <1>1, <1>3, <1>4, Induction
<1>6. PICK f : UpTo(f, Cardinality(S))
  BY <1>5
<1>7. \A u \in SUBSET S : Cardinality(u) <= Cardinality(S)
  BY FS_Subset
<1> DEFINE h == [u \in SUBSET S |-> f[u]]
<1>8. \A u \in SUBSET S : f[u] = Step(f, u)
  <2> HIDE DEF Step
  <2> QED
    BY <1>6, <1>7
<1>9. \A u \in SUBSET S : h[u] = Step(h, u)
  <2>1. ASSUME NEW u \in SUBSET S
        PROVE  h[u] = Step(h, u)
    <3>1. u \ {Chosen(u)} \in SUBSET S
      OBVIOUS
    <3>2. h[u] = f[u] /\ h[u \ {Chosen(u)}] = f[u \ {Chosen(u)}]
      BY <3>1
    <3> HIDE DEF h
    <3> QED
      BY <1>8, <3>2
  <2> QED
    BY <2>1
<1>10. h = [u \in SUBSET S |-> Step(h, u)]
  <2> HIDE DEF Step
  <2>1. DOMAIN h = SUBSET S /\ h = [u \in SUBSET S |-> h[u]]
    OBVIOUS
  <2> HIDE DEF h
  <2> QED
    BY <1>9, <2>1
<1>11. Sums(h, m, S)
  <2> HIDE DEF h
  <2> QED
    BY <1>10 DEF Sums
<1> QED
  BY <1>11

LEMMA SumsType ==
  ASSUME NEW m, NEW S, IsFiniteSet(S), NEW f, Sums(f, m, S), \A a \in S : m[a] \in Int
  PROVE  \A u \in SUBSET S : f[u] \in Int
<1> DEFINE T == {u \in SUBSET S : f[u] \in Int}
<1>1. {} \in T
  <2>1. {} \in SUBSET S
    OBVIOUS
  <2>2. f[{}] = IF {} = {} THEN 0 ELSE m[Chosen({})] + f[{} \ {Chosen({})}]
    BY <2>1, SumsValue
  <2> QED
    BY <2>1, <2>2
<1>2. ASSUME NEW u \in SUBSET S, u # {}, \A x \in u : u \ {x} \in T
      PROVE  u \in T
  <2>1. Chosen(u) \in u /\ m[Chosen(u)] \in Int /\ f[u \ {Chosen(u)}] \in Int
    BY <1>2, ChosenIsIn
  <2>2. f[u] = IF u = {} THEN 0 ELSE m[Chosen(u)] + f[u \ {Chosen(u)}]
    BY SumsValue
  <2> QED
    BY <1>2, <2>1, <2>2
<1>3. \A u \in SUBSET S : u \in T
  <2> HIDE DEF T
  <2> QED
    BY <1>1, <1>2, SetInduction
<1> QED
  BY <1>3

\* The order of the elements makes no difference.
LEMMA SumsTake ==
  ASSUME NEW m, NEW S, IsFiniteSet(S), NEW f, Sums(f, m, S), \A a \in S : m[a] \in Int
  PROVE  \A u \in SUBSET S : \A x \in u : f[u] = m[x] + f[u \ {x}]
<1> DEFINE T == {u \in SUBSET S : \A x \in u : f[u] = m[x] + f[u \ {x}]}
<1>1. {} \in T
  OBVIOUS
<1>2. ASSUME NEW u \in SUBSET S, u # {}, \A x \in u : u \ {x} \in T
      PROVE  u \in T
  <2> DEFINE c == Chosen(u)
  <2>1. c \in u
    BY <1>2, ChosenIsIn
  <2>2. f[u] = m[c] + f[u \ {c}]
    <3>1. u # {}
      BY <1>2
    <3>2. f[u] = IF u = {} THEN 0 ELSE m[Chosen(u)] + f[u \ {Chosen(u)}]
      BY SumsValue
    <3> QED
      BY <3>1, <3>2
  <2> HIDE DEF c
  <2>3. ASSUME NEW x \in u, x # c
        PROVE  f[u] = m[x] + f[u \ {x}]
    <3> DEFINE w == u \ {c, x}
    <3>1. f[u \ {c}] = m[x] + f[w]
      <4>1. u \ {c} \in T /\ x \in u \ {c} /\ (u \ {c}) \ {x} = w
        BY <1>2, <2>1, <2>3
      <4> QED
        BY <4>1
    <3>2. f[u \ {x}] = m[c] + f[w]
      <4>1. u \ {x} \in T /\ c \in u \ {x} /\ (u \ {x}) \ {c} = w
        BY <1>2, <2>1, <2>3
      <4> QED
        BY <4>1
    <3>3. m[c] \in Int /\ m[x] \in Int /\ f[w] \in Int
      <4>1. w \in SUBSET S
        OBVIOUS
      <4> QED
        BY <2>1, <2>3, <4>1, SumsType
    <3> HIDE DEF w
    <3> QED
      BY <2>2, <3>1, <3>2, <3>3
  <2> QED
    BY <2>2, <2>3
<1>3. \A u \in SUBSET S : u \in T
  <2> HIDE DEF T
  <2> QED
    BY <1>1, <1>2, SetInduction
<1> QED
  BY <1>3

\* Sums of what is the same are the same, whatever else there is.
LEMMA SumsAgree ==
  ASSUME NEW m, NEW w, NEW S, NEW Z, IsFiniteSet(S), S \subseteq Z,
         NEW f, NEW h, Sums(f, m, S), Sums(h, w, Z), \A a \in S : m[a] = w[a]
  PROVE  \A u \in SUBSET S : f[u] = h[u]
<1> DEFINE T == {u \in SUBSET S : f[u] = h[u]}
<1>1. {} \in T
  BY SumsValue
<1>2. ASSUME NEW u \in SUBSET S, u # {}, \A x \in u : u \ {x} \in T
      PROVE  u \in T
  <2>1. Chosen(u) \in u /\ m[Chosen(u)] = w[Chosen(u)] /\ f[u \ {Chosen(u)}] = h[u \ {Chosen(u)}]
    BY <1>2, ChosenIsIn
  <2>2. f[u] = m[Chosen(u)] + f[u \ {Chosen(u)}]
    BY <1>2, SumsValue
  <2>3. h[u] = w[Chosen(u)] + h[u \ {Chosen(u)}]
    <3>1. \A v \in SUBSET Z :
            h[v] = IF v = {} THEN 0 ELSE w[Chosen(v)] + h[v \ {Chosen(v)}]
      BY SumsValue
    <3>2. u \in SUBSET Z
      OBVIOUS
    <3> QED
      BY <1>2, <3>1, <3>2
  <2> QED
    BY <2>1, <2>2, <2>3
<1>3. \A u \in SUBSET S : u \in T
  <2> HIDE DEF T
  <2> QED
    BY <1>1, <1>2, SetInduction
<1> QED
  BY <1>3

LEMMA SumFound ==
  ASSUME NEW m, NEW S, IsFiniteSet(S)
  PROVE  \E f : Sums(f, m, S) /\ Sum(m, S) = f[S]
BY SumsExist, SumIsSums

LEMMA SumEmpty == ASSUME NEW m PROVE Sum(m, {}) = 0
BY SumFound, SumsValue, FS_EmptySet

LEMMA SumType ==
  ASSUME NEW m, NEW S, IsFiniteSet(S), \A a \in S : m[a] \in Int
  PROVE  Sum(m, S) \in Int
BY SumFound, SumsType

LEMMA SumSame ==
  ASSUME NEW m, NEW w, NEW S, IsFiniteSet(S), \A a \in S : m[a] = w[a]
  PROVE  Sum(m, S) = Sum(w, S)
<1>1. PICK f : Sums(f, m, S) /\ Sum(m, S) = f[S]
  BY SumFound
<1>2. PICK h : Sums(h, w, S) /\ Sum(w, S) = h[S]
  BY SumFound
<1>3. \A u \in SUBSET S : f[u] = h[u]
  <2>1. S \subseteq S
    OBVIOUS
  <2> QED
    BY <1>1, <1>2, <2>1, SumsAgree
<1> QED
  BY <1>1, <1>2, <1>3

LEMMA SumTake ==
  ASSUME NEW m, NEW S, IsFiniteSet(S), \A a \in S : m[a] \in Int, NEW x \in S
  PROVE  Sum(m, S) = m[x] + Sum(m, S \ {x})
<1> DEFINE R == S \ {x}
<1>0. IsFiniteSet(R) /\ R \subseteq S
  BY FS_Subset
<1>1. PICK f : Sums(f, m, S) /\ Sum(m, S) = f[S]
  BY SumFound
<1>2. PICK h : Sums(h, m, R) /\ Sum(m, R) = h[R]
  BY <1>0, SumFound
<1>3. f[S] = m[x] + f[R]
  BY <1>1, SumsTake
<1>4. h[R] = f[R]
  <2> HIDE DEF R
  <2>1. \A a \in R : m[a] = m[a]
    OBVIOUS
  <2>2. \A u \in SUBSET R : h[u] = f[u]
    BY <1>0, <1>1, <1>2, <2>1, SumsAgree
  <2> QED
    BY <2>2
<1> QED
  BY <1>1, <1>2, <1>3, <1>4

-----------------------------------------------------------------------------
(* correlate: the replay of a list of records.                             *)

Folds(f, s, n) ==
  f = [u \in SUBSET (1 .. n) |->
         IF u = {} THEN NoRecords
         ELSE CorrelateRecord(f[u \ {Max(u)}], s[Max(u)])]

LEMMA FoldsValue ==
  ASSUME NEW f, NEW s, NEW n \in Nat, Folds(f, s, n), NEW u \in SUBSET (1 .. n)
  PROVE  f[u] = IF u = {} THEN NoRecords
                ELSE CorrelateRecord(f[u \ {Max(u)}], s[Max(u)])
<1> DEFINE F(w) == IF w = {} THEN NoRecords
             ELSE CorrelateRecord(f[w \ {Max(w)}], s[Max(w)])
<1> HIDE DEF F
<1>1. f = [w \in SUBSET (1 .. n) |-> F(w)]
  BY DEF Folds, F
<1>2. f[u] = F(u)
  BY <1>1
<1> QED
  BY <1>2 DEF F

LEMMA FoldsExist ==
  ASSUME NEW s, NEW n \in Nat
  PROVE  \E f : Folds(f, s, n)
<1> DEFINE T == {k \in Nat : \E f : Folds(f, s, k)}
<1>1. 0 \in T
  <2> DEFINE f == [u \in SUBSET (1 .. 0) |-> NoRecords]
  <2>1. \A u \in SUBSET (1 .. 0) : u = {}
    OBVIOUS
  <2>2. Folds(f, s, 0)
    BY <2>1 DEF Folds
  <2> QED
    BY <2>2
<1>2. ASSUME NEW k \in Nat, k \in T
      PROVE  k + 1 \in T
  <2>1. PICK f : Folds(f, s, k)
    BY <1>2
  <2>0. \A w \in SUBSET (1 .. k) :
          f[w] = IF w = {} THEN NoRecords
                 ELSE CorrelateRecord(f[w \ {Max(w)}], s[Max(w)])
    BY <2>1, FoldsValue
  <2> DEFINE h == [u \in SUBSET (1 .. k + 1) |->
                     IF k + 1 \in u THEN CorrelateRecord(f[u \ {k + 1}], s[k + 1])
                     ELSE f[u]]
  <2>2. ASSUME NEW u \in SUBSET (1 .. k + 1)
        PROVE  h[u] = IF u = {} THEN NoRecords
                      ELSE CorrelateRecord(h[u \ {Max(u)}], s[Max(u)])
    <3>0. \A w \in SUBSET (1 .. k + 1) : k + 1 \notin w => w \in SUBSET (1 .. k) /\ h[w] = f[w]
      OBVIOUS
    <3>1. CASE k + 1 \in u
      <4>1. Max(u) = k + 1
        <5>1. k + 1 \in Nat /\ u # {}
          BY <3>1
        <5>2. Max(u) \in u /\ k + 1 <= Max(u)
          BY <5>1, <3>1, Largest
        <5>3. Max(u) \in 1 .. k + 1
          BY <5>2
        <5> QED
          BY <5>2, <5>3
      <4>2. h[u \ {k + 1}] = f[u \ {k + 1}]
        BY <3>0
      <4>3. h[u] = CorrelateRecord(f[u \ {k + 1}], s[k + 1])
        BY <3>1
      <4> QED
        BY <3>1, <4>1, <4>2, <4>3
    <3>2. CASE k + 1 \notin u
      <4>1. u \in SUBSET (1 .. k) /\ h[u] = f[u]
        BY <3>0, <3>2
      <4>2. h[u \ {Max(u)}] = f[u \ {Max(u)}]
        BY <3>0, <3>2
      <4>3. f[u] = IF u = {} THEN NoRecords
                   ELSE CorrelateRecord(f[u \ {Max(u)}], s[Max(u)])
        BY <4>1, <2>0
      <4> HIDE DEF h
      <4> QED
        BY <4>1, <4>2, <4>3
    <3> QED
      BY <3>1, <3>2
  <2>3. Folds(h, s, k + 1)
    <3> DEFINE G(u) == IF u = {} THEN NoRecords
                ELSE CorrelateRecord(h[u \ {Max(u)}], s[Max(u)])
    <3>1. \A u \in SUBSET (1 .. k + 1) : h[u] = G(u)
      BY <2>2
    <3> HIDE DEF G
    <3>2. h = [u \in SUBSET (1 .. k + 1) |-> G(u)]
      BY <3>1
    <3> HIDE DEF h
    <3> QED
      BY <3>2 DEF Folds, G
  <2> QED
    BY <2>3
<1> HIDE DEF T
<1>3. n \in T
  BY <1>1, <1>2, Induction
<1> QED
  BY <1>3 DEF T

\* Two lists begin with the same n records.
SameUpTo(s, z, n) == \A i \in 1 .. n : s[i] = z[i]

Fold(f, n) == f[1 .. n]

\* Two replays agree on what the lists have in common.
LEMMA FoldsAgree ==
  ASSUME NEW f, NEW h, NEW s, NEW z, NEW n \in Nat, NEW m \in Nat, n <= m,
         Folds(f, s, n), Folds(h, z, m), SameUpTo(s, z, n)
  PROVE  Fold(f, n) = Fold(h, n)
<1> DEFINE T == {k \in Nat : k <= n => f[1 .. k] = h[1 .. k]}
<1>1. 0 \in T
  <2>1. 1 .. 0 = {} /\ {} \in SUBSET (1 .. n) /\ {} \in SUBSET (1 .. m)
    OBVIOUS
  <2> QED
    BY <2>1, FoldsValue
<1>2. ASSUME NEW k \in Nat, k \in T
      PROVE  k + 1 \in T
  <2>1. SUFFICES ASSUME k + 1 <= n PROVE f[1 .. k + 1] = h[1 .. k + 1]
    OBVIOUS
  <2> DEFINE u == 1 .. k + 1
  <2>2. u \in SUBSET (1 .. n) /\ u \in SUBSET (1 .. m) /\ u # {}
    BY <2>1
  <2>3. Max(u) = k + 1
    <3>1. k + 1 \in Nat /\ k + 1 \in u /\ u \in SUBSET (1 .. k + 1)
      OBVIOUS
    <3>2. Max(u) \in u /\ k + 1 <= Max(u)
      BY <3>1, <2>2, Largest
    <3> QED
      BY <3>2
  <2>4. u \ {k + 1} = 1 .. k
    OBVIOUS
  <2> HIDE DEF u
  <2>5. f[u] = CorrelateRecord(f[1 .. k], s[k + 1])
    <3>1. f[u] = IF u = {} THEN NoRecords
                 ELSE CorrelateRecord(f[u \ {Max(u)}], s[Max(u)])
      BY <2>2, FoldsValue
    <3> QED
      BY <2>2, <2>3, <2>4, <3>1
  <2>6. h[u] = CorrelateRecord(h[1 .. k], z[k + 1])
    <3>1. h[u] = IF u = {} THEN NoRecords
                 ELSE CorrelateRecord(h[u \ {Max(u)}], z[Max(u)])
      BY <2>2, FoldsValue
    <3> QED
      BY <2>2, <2>3, <2>4, <3>1
  <2>7. f[1 .. k] = h[1 .. k] /\ s[k + 1] = z[k + 1]
    BY <1>2, <2>1 DEF SameUpTo
  <2> QED
    BY <2>5, <2>6, <2>7 DEF u
<1> HIDE DEF T
<1>3. n \in T
  BY <1>1, <1>2, Induction
<1> QED
  BY <1>3 DEF T, Fold

LEMMA ReplayFolds ==
  ASSUME NEW s, NEW n \in Nat, DOMAIN s = 1 .. n
  PROVE  \E f : Folds(f, s, n) /\ Replay(s) = f[1 .. n]
<1>1. Replay(s) = (CHOOSE f : Folds(f, s, n))[1 .. n]
  BY DEF Replay, FoldLeft, MapThenFoldSet, Folds
<1> QED
  BY <1>1, FoldsExist

LEMMA ReplayNone == Replay(<< >>) = NoRecords
<1>1. DOMAIN << >> = 1 .. 0 /\ 1 .. 0 = {}
  OBVIOUS
<1> QED
  BY <1>1, ReplayFolds, FoldsValue

LEMMA ReplayMore ==
  ASSUME NEW s, NEW z, NEW n \in Nat, NEW m \in Nat, m = n + 1,
         DOMAIN s = 1 .. n, DOMAIN z = 1 .. m, \A i \in 1 .. n : s[i] = z[i]
  PROVE  Replay(z) = CorrelateRecord(Replay(s), z[m])
<1>1. PICK f : Folds(f, s, n) /\ Replay(s) = f[1 .. n]
  BY ReplayFolds
<1>2. PICK h : Folds(h, z, m) /\ Replay(z) = h[1 .. m]
  BY ReplayFolds
<1>3. Fold(f, n) = Fold(h, n)
  <2>1. n <= m
    OBVIOUS
  <2> QED
    <3>1. Folds(f, s, n) /\ Folds(h, z, m)
      BY <1>1, <1>2
    <3>2. SameUpTo(s, z, n)
      BY DEF SameUpTo
    <3> QED
      BY <2>1, <3>1, <3>2, FoldsAgree
<1> DEFINE u == 1 .. m
<1>4. m \in u /\ u # {} /\ u \in SUBSET (1 .. m)
  <2>1. m \in u
    OBVIOUS
  <2> QED
    BY <2>1
<1>5. u \ {m} = 1 .. n
  OBVIOUS
<1> HIDE DEF u
<1>6. Max(u) = m
  <2>1. Max(u) \in u /\ m <= Max(u)
    BY <1>4, Largest
  <2>2. Max(u) \in 1 .. m
    BY <2>1, <1>4
  <2> QED
    BY <2>1, <2>2
<1>7. h[u] = IF u = {} THEN NoRecords
             ELSE CorrelateRecord(h[u \ {Max(u)}], z[Max(u)])
  <2>1. Folds(h, z, m)
    BY <1>2
  <2>2. u \in SUBSET (1 .. m)
    BY <1>4
  <2> QED
    BY <2>1, <2>2, FoldsValue
<1> QED
  BY <1>1, <1>2, <1>3, <1>4, <1>5, <1>6, <1>7 DEF u, Fold

-----------------------------------------------------------------------------
(* load_records.                                                           *)

Loads(f, log) ==
  f = [n \in 0 .. Len(log) |->
         IF n = 0 THEN << >> ELSE f[n - 1] \o RecordsOf(log, n)]

\* The records of the first n lines.
Recs(log, n) == [k \in 1 .. n |-> log[k].rec]

LEMMA RecsAppend ==
  ASSUME NEW log, NEW n \in Nat
  PROVE  Recs(log, n + 1) = Recs(log, n) \o <<log[n + 1].rec>>
<1> DEFINE R == {log[k].rec : k \in 1 .. n + 1}
           r == log[n + 1].rec
<1>1. \A k \in 1 .. n + 1 : log[k].rec \in R
  OBVIOUS
<1>2. r \in R
  OBVIOUS
<1> HIDE DEF R, r
<1>3. Recs(log, n) \in Seq(R) /\ Len(Recs(log, n)) = n
  BY <1>1 DEF Recs
<1>4. /\ Recs(log, n) \o <<r>> \in Seq(R) /\ Len(Recs(log, n) \o <<r>>) = n + 1
      /\ \A k \in 1 .. n + 1 :
           (Recs(log, n) \o <<r>>)[k] = IF k = n + 1 THEN r ELSE Recs(log, n)[k]
  BY <1>2, <1>3
<1>5. Recs(log, n + 1) \in Seq(R) /\ Len(Recs(log, n + 1)) = n + 1
  BY <1>1 DEF Recs
<1>6. \A k \in 1 .. n + 1 : Recs(log, n + 1)[k] = (Recs(log, n) \o <<r>>)[k]
  BY <1>4 DEF Recs, r
<1>7. Recs(log, n + 1) = Recs(log, n) \o <<r>>
  BY <1>4, <1>5, <1>6, SeqEqual
<1> QED
  BY <1>7 DEF r

\* Of lines that are all whole, load_records gets every record.
LEMMA LoadWhole ==
  ASSUME NEW C, NEW log \in Seq(C), \A n \in 1 .. Len(log) : log[n].whole = TRUE
  PROVE  Load(log) = Recs(log, Len(log))
<1>0. Len(log) \in Nat
  OBVIOUS
<1>1. Load(log) = (CHOOSE f : Loads(f, log))[Len(log)]
  BY DEF Load, Loads
<1>2. \A n \in 1 .. Len(log) : RecordsOf(log, n) = <<log[n].rec>>
  BY DEF RecordsOf, Parses
<1> DEFINE h == [n \in 0 .. Len(log) |-> Recs(log, n)]
<1>3. Recs(log, 0) = << >>
  BY DEF Recs
<1>4. Loads(h, log)
  <2>1. ASSUME NEW n \in 0 .. Len(log)
        PROVE  h[n] = IF n = 0 THEN << >> ELSE h[n - 1] \o RecordsOf(log, n)
    <3>1. CASE n = 0
      BY <1>3, <3>1
    <3>2. CASE n > 0
      <4>1. n - 1 \in Nat /\ n - 1 + 1 = n /\ n - 1 \in 0 .. Len(log) /\ n \in 1 .. Len(log)
        BY <3>2, <1>0
      <4>2. h[n] = Recs(log, n - 1) \o <<log[n].rec>>
        BY <4>1, RecsAppend
      <4>3. h[n - 1] = Recs(log, n - 1)
        BY <4>1
      <4>4. n # 0 /\ RecordsOf(log, n) = <<log[n].rec>>
        BY <3>2, <4>1, <1>2
      <4> HIDE DEF h
      <4> QED
        BY <4>2, <4>3, <4>4
    <3>3. n = 0 \/ n > 0
      BY <1>0
    <3> HIDE DEF h
    <3> QED
      BY <3>1, <3>2, <3>3
  <2> HIDE DEF h
  <2> DEFINE H(n) == IF n = 0 THEN << >> ELSE h[n - 1] \o RecordsOf(log, n)
  <2>2. \A n \in 0 .. Len(log) : h[n] = H(n)
    BY <2>1
  <2> HIDE DEF H
  <2>3. h = [n \in 0 .. Len(log) |-> H(n)]
    BY <2>2 DEF h
  <2> QED
    BY <2>3 DEF Loads, H
<1>5. PICK f : Loads(f, log) /\ Load(log) = f[Len(log)]
  BY <1>1, <1>4
<1>6. \A n \in 0 .. Len(log) :
         f[n] = IF n = 0 THEN << >> ELSE f[n - 1] \o RecordsOf(log, n)
  <2> DEFINE F(n) == IF n = 0 THEN << >> ELSE f[n - 1] \o RecordsOf(log, n)
  <2> HIDE DEF F
  <2>1. f = [n \in 0 .. Len(log) |-> F(n)]
    BY <1>5 DEF Loads, F
  <2>2. \A n \in 0 .. Len(log) : f[n] = F(n)
    BY <2>1
  <2> QED
    BY <2>2 DEF F
<1> DEFINE T == {n \in Nat : n <= Len(log) => f[n] = Recs(log, n)}
<1>7. 0 \in T
  BY <1>0, <1>3, <1>6
<1>8. ASSUME NEW n \in Nat, n \in T
      PROVE  n + 1 \in T
  <2>1. SUFFICES ASSUME n + 1 <= Len(log) PROVE f[n + 1] = Recs(log, n + 1)
    OBVIOUS
  <2>2. n + 1 \in 0 .. Len(log) /\ n + 1 \in 1 .. Len(log) /\ n + 1 - 1 = n /\ n + 1 > 0
    BY <2>1, <1>0
  <2>3. f[n + 1] = f[n] \o <<log[n + 1].rec>>
    <3>1. f[n + 1] = IF n + 1 = 0 THEN << >>
                     ELSE f[n + 1 - 1] \o RecordsOf(log, n + 1)
      BY <2>2, <1>6
    <3>2. RecordsOf(log, n + 1) = <<log[n + 1].rec>>
      BY <2>2, <1>2
    <3>3. n + 1 # 0 /\ n + 1 - 1 = n
      OBVIOUS
    <3>4. f[n + 1] = f[n] \o RecordsOf(log, n + 1)
      BY <3>1, <3>3
    <3> QED
      BY <3>2, <3>4
  <2>4. f[n] = Recs(log, n)
    BY <1>0, <1>8, <2>1
  <2> QED
    BY <2>3, <2>4, RecsAppend
<1> HIDE DEF T
<1>9. Len(log) \in T
  BY <1>0, <1>7, <1>8, Induction
<1> QED
  BY <1>0, <1>5, <1>9 DEF T

-----------------------------------------------------------------------------
(* Totals.                                                                 *)

LEMMA TotalIs == ASSUME NEW f PROVE Total(f) = Sum(f, DOMAIN f)
BY DEF Total, Sum

\* What is not positive adds nothing; parts of sums of natural numbers.
LEMMA SumPart ==
  ASSUME NEW w, NEW Z, IsFiniteSet(Z), \A a \in Z : w[a] \in Nat, NEW S, S \subseteq Z
  PROVE  /\ Sum(w, S) \in Nat /\ Sum(w, Z) \in Nat /\ Sum(w, S) <= Sum(w, Z)
         /\ (\A a \in Z \ S : w[a] = 0) => Sum(w, S) = Sum(w, Z)
<1> DEFINE T == {u \in SUBSET Z :
                   /\ Sum(w, u) \in Nat /\ Sum(w, u \cap S) \in Nat
                   /\ Sum(w, u \cap S) <= Sum(w, u)
                   /\ (\A a \in Z \ S : w[a] = 0) => Sum(w, u \cap S) = Sum(w, u)}
<1>0. \A u \in SUBSET Z : IsFiniteSet(u) /\ \A a \in u : w[a] \in Int
  BY FS_Subset
<1>1. {} \in T
  <2>1. {} \cap S = {} /\ {} \in SUBSET Z
    OBVIOUS
  <2> QED
    BY <2>1, SumEmpty
<1>2. ASSUME NEW u \in SUBSET Z, u # {}, \A x \in u : u \ {x} \in T
      PROVE  u \in T
  <2>1. PICK x \in u : TRUE
    BY <1>2
  <2> DEFINE v == u \ {x}
  <2>2. v \in T
    BY <1>2
  <2>3. Sum(w, u) = w[x] + Sum(w, v) /\ w[x] \in Nat
    BY <1>0, SumTake
  <2>4. CASE x \in S
    <3> DEFINE y == u \cap S
    <3>1. y \ {x} = v \cap S /\ x \in y /\ y \in SUBSET Z
      BY <2>4
    <3> HIDE DEF y, v
    <3>2. Sum(w, y) = w[x] + Sum(w, v \cap S)
      BY <1>0, <3>1, SumTake
    <3> QED
      BY <2>2, <2>3, <3>2 DEF y
  <2>5. CASE x \notin S
    <3>1. u \cap S = v \cap S
      BY <2>5
    <3> HIDE DEF v
    <3> QED
      BY <2>2, <2>3, <2>5, <3>1
  <2> QED
    BY <2>4, <2>5
<1>3. Z \in T
  <2>1. Z \in SUBSET Z
    OBVIOUS
  <2> HIDE DEF T
  <2> QED
    BY <1>1, <1>2, <2>1, SetInduction
<1>4. Z \cap S = S
  OBVIOUS
<1> HIDE DEF Sum
<1> QED
  BY <1>3, <1>4

\* A sum of larger numbers is larger.
LEMMA SumGrows ==
  ASSUME NEW m, NEW w, NEW S, IsFiniteSet(S),
         \A a \in S : m[a] \in Int /\ w[a] \in Int /\ m[a] <= w[a]
  PROVE  Sum(m, S) \in Int /\ Sum(w, S) \in Int /\ Sum(m, S) <= Sum(w, S)
<1> DEFINE T == {u \in SUBSET S :
                   Sum(m, u) \in Int /\ Sum(w, u) \in Int /\ Sum(m, u) <= Sum(w, u)}
<1>0. \A u \in SUBSET S : IsFiniteSet(u)
  BY FS_Subset
<1>1. {} \in T
  BY SumEmpty
<1>2. ASSUME NEW u \in SUBSET S, u # {}, \A x \in u : u \ {x} \in T
      PROVE  u \in T
  <2>1. PICK x \in u : TRUE
    BY <1>2
  <2>2. Sum(m, u) = m[x] + Sum(m, u \ {x})
    BY <1>0, SumTake
  <2>3. Sum(w, u) = w[x] + Sum(w, u \ {x})
    BY <1>0, SumTake
  <2>4. u \ {x} \in T
    BY <1>2
  <2> QED
    BY <2>2, <2>3, <2>4
<1>3. S \in T
  <2>1. S \in SUBSET S
    OBVIOUS
  <2> HIDE DEF T
  <2> QED
    BY <1>1, <1>2, <2>1, SetInduction
<1> QED
  BY <1>3

\* A total is at most one of numbers that are not smaller, what is 0 left aside.
LEMMA TotalAtMost ==
  ASSUME NEW f, NEW g, IsFiniteSet(DOMAIN f), IsFiniteSet(DOMAIN g),
         \A a \in DOMAIN f : f[a] \in Nat, \A a \in DOMAIN g : g[a] \in Nat,
         \A a \in DOMAIN f : f[a] > 0 => a \in DOMAIN g /\ f[a] <= g[a]
  PROVE  Total(f) \in Nat /\ Total(g) \in Nat /\ Total(f) <= Total(g)
<1> DEFINE P == {a \in DOMAIN f : f[a] > 0}
<1>1. P \subseteq DOMAIN f /\ P \subseteq DOMAIN g /\ \A a \in DOMAIN f \ P : f[a] = 0
  OBVIOUS
<1>2. \A a \in P : f[a] \in Int /\ g[a] \in Int /\ f[a] <= g[a]
  OBVIOUS
<1>3. IsFiniteSet(P)
  BY <1>1, FS_Subset
<1> HIDE DEF P
<1>4. Sum(f, P) = Sum(f, DOMAIN f) /\ Sum(f, DOMAIN f) \in Nat
  BY <1>1, SumPart
<1>5. Sum(f, P) <= Sum(g, P) /\ Sum(f, P) \in Int /\ Sum(g, P) \in Int
  BY <1>2, <1>3, SumGrows
<1>6. Sum(g, P) <= Sum(g, DOMAIN g) /\ Sum(g, DOMAIN g) \in Nat
  BY <1>1, SumPart
<1>7. Total(f) = Sum(f, DOMAIN f) /\ Total(g) = Sum(g, DOMAIN g)
  BY TotalIs
<1> HIDE DEF Sum, Total
<1> QED
  BY <1>4, <1>5, <1>6, <1>7

\* One more, or another at x.
LEMMA TotalPut ==
  ASSUME NEW f, NEW g, NEW x, IsFiniteSet(DOMAIN f), x \in DOMAIN g,
         DOMAIN g = DOMAIN f \cup {x},
         \A a \in DOMAIN f : f[a] \in Int, g[x] \in Int, \A a \in DOMAIN f \ {x} : g[a] = f[a]
  PROVE  /\ Total(f) \in Int /\ Total(g) \in Int
         /\ x \notin DOMAIN f => Total(g) = Total(f) + g[x]
         /\ x \in DOMAIN f => Total(g) = Total(f) + g[x] - f[x]
<1> DEFINE D == DOMAIN f \ {x}
<1>1. IsFiniteSet(D) /\ IsFiniteSet(DOMAIN g)
  BY FS_Subset, FS_AddElement
<1>2. \A a \in DOMAIN g : g[a] \in Int
  OBVIOUS
<1>3. DOMAIN g \ {x} = D
  OBVIOUS
<1>4. Sum(g, DOMAIN g) = g[x] + Sum(g, D)
  BY <1>1, <1>2, <1>3, SumTake
<1>5. Sum(g, D) = Sum(f, D) /\ Sum(f, D) \in Int
  BY <1>1, SumSame, SumType
<1>6. Total(f) = Sum(f, DOMAIN f) /\ Total(g) = Sum(g, DOMAIN g)
  BY TotalIs
<1>7. CASE x \notin DOMAIN f
  <2>1. D = DOMAIN f
    BY <1>7
  <2> HIDE DEF D
  <2> QED
    BY <1>4, <1>5, <1>6, <1>7, <2>1
<1>8. CASE x \in DOMAIN f
  <2>1. Sum(f, DOMAIN f) = f[x] + Sum(f, D) /\ f[x] \in Int
    BY <1>8, SumTake
  <2> HIDE DEF D
  <2> QED
    BY <1>4, <1>5, <1>6, <1>8, <2>1
<1> QED
  BY <1>7, <1>8

LEMMA TotalSame ==
  ASSUME NEW f, NEW g, DOMAIN f = DOMAIN g, IsFiniteSet(DOMAIN f),
         \A a \in DOMAIN f : f[a] = g[a]
  PROVE  Total(f) = Total(g)
BY SumSame, TotalIs

LEMMA TotalNone == ASSUME NEW f, DOMAIN f = {} PROVE Total(f) = 0
BY SumEmpty, TotalIs

\* One less.
LEMMA TotalTake ==
  ASSUME NEW f, NEW g, NEW x \in DOMAIN f, IsFiniteSet(DOMAIN f), DOMAIN g = DOMAIN f \ {x},
         \A a \in DOMAIN f : f[a] \in Int, \A a \in DOMAIN g : g[a] = f[a]
  PROVE  Total(f) \in Int /\ Total(g) \in Int /\ Total(g) = Total(f) - f[x]
<1>1. IsFiniteSet(DOMAIN g) /\ x \notin DOMAIN g /\ DOMAIN f = DOMAIN g \cup {x}
  BY FS_Subset
<1>2. \A a \in DOMAIN g : g[a] \in Int
  OBVIOUS
<1>3. \A a \in DOMAIN g \ {x} : f[a] = g[a]
  OBVIOUS
<1>5. x \in DOMAIN f /\ f[x] \in Int
  OBVIOUS
<1>4. Total(g) \in Int /\ Total(f) \in Int /\ Total(f) = Total(g) + f[x]
  BY ONLY <1>1, <1>2, <1>3, <1>5, TotalPut
<1> QED
  BY <1>4, <1>5

\* A total over other names for the same things.
LEMMA TotalRename ==
  ASSUME NEW f, NEW g, NEW b, IsFiniteSet(DOMAIN f), DOMAIN b = DOMAIN f,
         DOMAIN g = {b[a] : a \in DOMAIN f}, \A x, y \in DOMAIN f : b[x] = b[y] => x = y,
         \A a \in DOMAIN f : f[a] \in Int /\ g[b[a]] = f[a]
  PROVE  /\ IsFiniteSet(DOMAIN g) /\ Total(g) = Total(f)
         /\ Cardinality(DOMAIN g) = Cardinality(DOMAIN f)
<1> DEFINE Z == DOMAIN f
           Of(u) == {b[a] : a \in u}
           T == {u \in SUBSET Z : /\ IsFiniteSet(Of(u)) /\ Sum(g, Of(u)) = Sum(f, u)
                                  /\ Cardinality(Of(u)) = Cardinality(u)}
<1>0. \A u \in SUBSET Z : IsFiniteSet(u) /\ (\A a \in u : f[a] \in Int)
  BY FS_Subset
<1>1. {} \in T
  <2>1. Of({}) = {}
    OBVIOUS
  <2> QED
    BY <2>1, SumEmpty, FS_EmptySet
<1>2. ASSUME NEW u \in SUBSET Z, u # {}, \A x \in u : u \ {x} \in T
      PROVE  u \in T
  <2>1. PICK x \in u : TRUE
    BY <1>2
  <2> DEFINE v == u \ {x}
             o == Of(u)
  <2>2. v \in T /\ v \in SUBSET Z
    BY <1>2
  <2>3. Of(v) = o \ {b[x]} /\ b[x] \in o /\ o = Of(v) \cup {b[x]} /\ b[x] \notin Of(v)
    <3>1. \A y \in u : b[y] = b[x] => y = x
      OBVIOUS
    <3> QED
      BY <3>1
  <2>4. \A a \in o : g[a] \in Int
    OBVIOUS
  <2>5. IsFiniteSet(Of(v)) /\ Sum(g, Of(v)) = Sum(f, v) /\ Cardinality(Of(v)) = Cardinality(v)
    BY <2>2
  <2>6. g[b[x]] = f[x] /\ IsFiniteSet(u) /\ \A a \in u : f[a] \in Int
    BY <1>0
  <2>7. x \in u /\ v = u \ {x} /\ u = v \cup {x} /\ x \notin v
    BY <2>1
  <2> HIDE DEF o, v, Of, Z
  <2>8. IsFiniteSet(o) /\ Cardinality(o) = Cardinality(Of(v)) + 1
    BY <2>3, <2>5, FS_AddElement
  <2>9. Sum(g, o) = g[b[x]] + Sum(g, o \ {b[x]})
    BY <2>3, <2>4, <2>8, SumTake
  <2>10. Sum(f, u) = f[x] + Sum(f, v)
    BY <2>6, <2>7, SumTake
  <2>11. IsFiniteSet(v)
    BY <2>6, <2>7, FS_Subset
  <2>12. Cardinality(u) = Cardinality(v) + 1
    BY <2>7, <2>11, FS_AddElement
  <2> QED
    BY <2>3, <2>5, <2>6, <2>8, <2>9, <2>10, <2>12 DEF o
<1>3. Z \in T
  <2>1. Z \in SUBSET Z /\ IsFiniteSet(Z)
    OBVIOUS
  <2> HIDE DEF T, Z
  <2> QED
    BY <1>1, <1>2, <2>1, SetInduction
<1>4. Of(Z) = DOMAIN g
  OBVIOUS
<1>5. Total(f) = Sum(f, Z) /\ Total(g) = Sum(g, Of(Z))
  BY <1>4, TotalIs
<1> HIDE DEF Of
<1> QED
  BY <1>3, <1>4, <1>5

-----------------------------------------------------------------------------
(* Sizes that the OS gives out.                                            *)

LEMMA Quotient ==
  ASSUME NEW g \in Nat \ {0}, NEW a \in Nat
  PROVE  /\ a \div g \in Nat /\ (a \div g) * g \in Nat
         /\ (a \div g) * g <= a /\ a < (a \div g) * g + g
<1>1. g \in Int /\ g > 0 /\ a \in Int /\ a >= 0
  OBVIOUS
<1> QED
  BY <1>1, SMTT(30)

LEMMA Cancel ==
  ASSUME NEW g \in Nat \ {0}, NEW a \in Int, NEW b \in Int, a * g < b * g + g
  PROVE  a <= b
<1>1. SUFFICES ASSUME a >= b + 1 PROVE FALSE
  OBVIOUS
<1>2. (a - b - 1) * g >= 0
  BY <1>1
<1>3. (a - b - 1) * g = a * g - b * g - g
  OBVIOUS
<1>4. a * g \in Int /\ b * g \in Int
  OBVIOUS
<1> QED
  BY <1>2, <1>3, <1>4

LEMMA Rounding ==
  /\ RoundUp(0) = 0
  /\ \A a \in Nat : RoundUp(a) \in Nat /\ a <= RoundUp(a)
  /\ \A a, b \in Nat : a <= b => RoundUp(a) <= RoundUp(b)
<1> USE FleetAssumption
<1>1. ASSUME NEW a \in Nat
      PROVE  LET q == (a + Granule - 1) \div Granule
             IN  /\ q \in Nat /\ RoundUp(a) = q * Granule /\ q * Granule \in Nat
                 /\ q * Granule <= a + Granule - 1 /\ a - 1 < q * Granule
  <2>1. a + Granule - 1 \in Nat /\ Granule \in Nat \ {0}
    OBVIOUS
  <2>2. LET q == (a + Granule - 1) \div Granule
        IN  /\ q \in Nat /\ q * Granule \in Nat
            /\ q * Granule <= a + Granule - 1 /\ a + Granule - 1 < q * Granule + Granule
    BY <2>1, Quotient
  <2> DEFINE z == ((a + Granule - 1) \div Granule) * Granule
  <2>3. RoundUp(a) = z
    BY DEF RoundUp
  <2>4. a - 1 < z
    <3>1. z \in Nat /\ a + Granule - 1 < z + Granule
      BY <2>2
    <3> HIDE DEF z
    <3> QED
      BY <3>1
  <2> QED
    BY <2>2, <2>3, <2>4
<1>2. \A a \in Nat : RoundUp(a) \in Nat /\ a <= RoundUp(a)
  <2> TAKE a \in Nat
  <2> QED
    BY <1>1
<1>3. ASSUME NEW a \in Nat, NEW b \in Nat, a <= b
      PROVE  RoundUp(a) <= RoundUp(b)
  <2> DEFINE q == (a + Granule - 1) \div Granule
             r == (b + Granule - 1) \div Granule
  <2>1. /\ q \in Nat /\ RoundUp(a) = q * Granule /\ q * Granule \in Nat
        /\ q * Granule <= a + Granule - 1
    BY <1>1
  <2>2. /\ r \in Nat /\ RoundUp(b) = r * Granule /\ r * Granule \in Nat
        /\ b - 1 < r * Granule
    BY <1>1
  <2> HIDE DEF q, r
  <2>3. q * Granule < r * Granule + Granule
    BY <1>3, <2>1, <2>2
  <2>4. q <= r
    BY <2>1, <2>2, <2>3, Cancel
  <2>5. (r - q) * Granule >= 0
    BY <2>1, <2>2, <2>4
  <2>6. (r - q) * Granule = r * Granule - q * Granule
    BY <2>1, <2>2
  <2> QED
    BY <2>1, <2>2, <2>5, <2>6
<1>4. RoundUp(0) = 0
  <2> DEFINE q == (0 + Granule - 1) \div Granule
  <2>1. /\ q \in Nat /\ RoundUp(0) = q * Granule /\ q * Granule \in Nat
        /\ q * Granule <= 0 + Granule - 1
    BY <1>1
  <2> HIDE DEF q
  <2>2. q * Granule < 0 * Granule + Granule
    BY <2>1
  <2>3. q <= 0
    BY <2>1, <2>2, Cancel
  <2> QED
    BY <2>1, <2>3
<1> QED
  BY <1>2, <1>3, <1>4

-----------------------------------------------------------------------------
(* The records of one file.                                                *)

LEMMA FlattenOne ==
  ASSUME NEW s, Len(s) = 1
  PROVE  FlattenSeq(s) = s[1]
<1> DEFINE P(f) == f = [i \in 1 .. Len(s) |-> IF i = 1 THEN s[i] ELSE f[i - 1] \o s[i]]
<1>1. FlattenSeq(s) = (CHOOSE f : P(f))[Len(s)]
  BY DEF FlattenSeq
<1>2. P([i \in 1 .. 1 |-> s[1]])
  OBVIOUS
<1> DEFINE f == CHOOSE f : P(f)
<1>3. P(f)
  BY <1>2
<1> HIDE DEF f
<1>4. f[1] = s[1]
  BY <1>3
<1> QED
  BY <1>1, <1>4 DEF f

LEMMA FlattenTwo ==
  ASSUME NEW s, Len(s) = 2
  PROVE  FlattenSeq(s) = s[1] \o s[2]
<1> DEFINE P(f) == f = [i \in 1 .. Len(s) |-> IF i = 1 THEN s[i] ELSE f[i - 1] \o s[i]]
<1>1. FlattenSeq(s) = (CHOOSE f : P(f))[Len(s)]
  BY DEF FlattenSeq
<1>2. P([i \in 1 .. 2 |-> IF i = 1 THEN s[1] ELSE s[1] \o s[2]])
  OBVIOUS
<1> DEFINE f == CHOOSE f : P(f)
<1>3. P(f)
  BY <1>2
<1> HIDE DEF f
<1>4. f[1] = s[1] /\ f[2] = f[1] \o s[2]
  BY <1>3
<1> QED
  BY <1>1, <1>4 DEF f

WholeFile(f) == f \in Seq(Range(f)) /\ \A n \in DOMAIN f : f[n].whole = TRUE

LEMMA LoadIs ==
  ASSUME NEW f, WholeFile(f)
  PROVE  /\ Len(f) \in Nat /\ DOMAIN f = 1 .. Len(f)
         /\ Load(f) = Recs(f, Len(f))
<1>1. f \in Seq(Range(f)) /\ Len(f) \in Nat /\ DOMAIN f = 1 .. Len(f)
  BY DEF WholeFile
<1>2. \A n \in 1 .. Len(f) : f[n].whole = TRUE
  BY <1>1 DEF WholeFile
<1> QED
  BY <1>1, <1>2, LoadWhole

LEMMA LoadedIs ==
  ASSUME NEW f, WholeFile(f)
  PROVE  /\ LoadRecords(<<f>>) = Recs(f, Len(f))
         /\ Len(f) \in Nat /\ DOMAIN f = 1 .. Len(f)
         /\ DOMAIN Recs(f, Len(f)) = DOMAIN f
         /\ \A n \in DOMAIN f : Recs(f, Len(f))[n] = f[n].rec
<1> DEFINE s == [n \in DOMAIN <<f>> |-> Load(<<f>>[n])]
<1>1. Len(s) = 1 /\ s[1] = Load(f)
  <2>1. DOMAIN <<f>> = 1 .. 1 /\ <<f>>[1] = f
    OBVIOUS
  <2>2. s \in [1 .. 1 -> {Load(f)}]
    BY <2>1
  <2>3. s \in Seq({Load(f)}) /\ s[1] = Load(f) /\ DOMAIN s = 1 .. 1
    BY <2>1, <2>2
  <2> HIDE DEF s
  <2> QED
    BY <2>3
<1>2. LoadRecords(<<f>>) = s[1]
  <2>1. LoadRecords(<<f>>) = FlattenSeq(s)
    BY DEF LoadRecords
  <2> HIDE DEF s
  <2> QED
    BY <1>1, <2>1, FlattenOne
<1> HIDE DEF s
<1>3. LoadRecords(<<f>>) = Recs(f, Len(f))
  BY <1>1, <1>2, LoadIs
<1> QED
  BY <1>3, LoadIs DEF Recs

LEMMA RecordsAre ==
  ASSUME FileInv
  PROVE  /\ WholeFile(file) /\ Records = Recs(file, Len(file)) /\ Len(file) \in Nat
         /\ DOMAIN file = 1 .. Len(file) /\ DOMAIN Records = DOMAIN file
         /\ \A n \in DOMAIN file : Records[n] = file[n].rec /\ Shape(Records[n])
<1>1. WholeFile(file)
  BY DEF FileInv, WholeFile
<1> QED
  BY <1>1, LoadedIs DEF FileInv, Records

\* R is the beginning of Q.
Begins(R, Q) ==
  /\ \E n \in Nat : DOMAIN R = 1 .. n
  /\ \E n \in Nat : DOMAIN Q = 1 .. n
  /\ DOMAIN R \subseteq DOMAIN Q /\ \A n \in DOMAIN R : Q[n] = R[n]

\* The records a process writes.
LEMMA Written ==
  ASSUME WholeFile(file), NEW p, NEW k \in Nat, NEW lines, DOMAIN lines = 1 .. k, Write(p, lines)
  PROVE  /\ WholeFile(file') /\ Len(file') = Len(file) + k /\ Len(file) \in Nat
         /\ DOMAIN file = 1 .. Len(file) /\ DOMAIN file' = 1 .. Len(file')
         /\ \A n \in DOMAIN file : file'[n] = file[n]
         /\ \A i \in 1 .. k : file'[Len(file) + i].rec = Stamped(p, lines[i])
<1> DEFINE s == [i \in DOMAIN lines |-> [rec |-> Stamped(p, lines[i]), whole |-> TRUE]]
           X == {s[i] : i \in 1 .. k}
           n == Len(file)
           Y == Range(file) \cup X
<1>1. n \in Nat /\ DOMAIN file = 1 .. n /\ file \in Seq(Y)
  <2>1. file \in Seq(Range(file))
    BY DEF WholeFile
  <2>2. Range(file) \subseteq Y
    OBVIOUS
  <2> HIDE DEF Y
  <2> QED
    BY <2>1, <2>2
<1>2. /\ s \in Seq(Y) /\ Len(s) = k /\ DOMAIN s = 1 .. k
      /\ \A i \in 1 .. k : s[i].rec = Stamped(p, lines[i]) /\ s[i].whole = TRUE
  <2>1. \A i \in 1 .. k : s[i] \in Y
    OBVIOUS
  <2>2. DOMAIN s = 1 .. k /\ s = [i \in 1 .. k |-> s[i]]
    OBVIOUS
  <2>3. \A i \in 1 .. k : s[i].rec = Stamped(p, lines[i]) /\ s[i].whole = TRUE
    OBVIOUS
  <2> HIDE DEF s, Y
  <2>4. s \in [1 .. k -> Y]
    BY <2>1, <2>2
  <2> QED
    BY <2>2, <2>3, <2>4
<1>3. file' = file \o s
  BY DEF Write
<1> HIDE DEF s, X, Y
<1>4. /\ file' \in Seq(Y) /\ Len(file') = n + k
      /\ \A i \in 1 .. n : file'[i] = file[i]
      /\ \A i \in 1 .. k : file'[n + i] = s[i]
  BY <1>1, <1>2, <1>3
<1>5. DOMAIN file' = 1 .. n + k
  BY <1>4
<1>6. file' \in Seq(Range(file'))
  <2>1. \A i \in 1 .. n + k : file'[i] \in Range(file')
    BY <1>5 DEF Range
  <2> QED
    BY <1>4, <1>5, <2>1
<1>7. ASSUME NEW i \in 1 .. n + k
      PROVE  file'[i].whole = TRUE
  <2>1. CASE i <= n
    <3>1. i \in 1 .. n
      BY <1>1, <2>1
    <3> QED
      BY <1>1, <1>4, <3>1 DEF WholeFile
  <2>2. CASE i > n
    <3>1. i - n \in 1 .. k /\ i = n + (i - n)
      BY <1>1, <2>2
    <3>2. file'[i] = s[i - n]
      BY <1>4, <3>1
    <3> QED
      BY <1>2, <3>1, <3>2
  <2>3. i <= n \/ i > n
    BY <1>1
  <2> QED
    BY <2>1, <2>2, <2>3
<1> QED
  BY <1>1, <1>2, <1>4, <1>5, <1>6, <1>7 DEF WholeFile

(* What a process has mapped, and types.                                   *)

LEMMA TotalNat ==
  ASSUME NEW f, IsFiniteSet(DOMAIN f), \A a \in DOMAIN f : f[a] \in Nat
  PROVE  Total(f) \in Nat
BY TotalAtMost

LEMMA NullIs == NULL \notin Int /\ NULL \notin Region /\ NULL \notin Names /\ NULL \notin Mapping
BY FleetAssumption

LEMMA LargerIs ==
  ASSUME NEW m \in Int, NEW n \in Int
  PROVE  /\ Larger(m, n) \in {m, n} /\ m <= Larger(m, n) /\ n <= Larger(m, n)
BY DEF Larger

\* An entry of the table.
LEMMA HeldIs ==
  ASSUME Types, NEW p \in Procs, NEW n \in Names
  PROVE  /\ held[p][n] \in Region \cup {NULL} /\ DOMAIN held[p] = Names
         /\ held[p] \in [Names -> Region \cup {NULL}]
         /\ n \in Listed(p) <=> held[p][n] # NULL
         /\ n \in Listed(p) <=> held[p][n] \in Region
         /\ n \in Listed(p) => /\ held[p][n].addr \in Nat /\ held[p][n].size \in Nat
                               /\ held[p][n].since \in Nat
<1>1. held[p] \in [Names -> Region \cup {NULL}]
  BY DEF Types
<1>2. held[p][n] \in Region => /\ held[p][n].addr \in Nat /\ held[p][n].size \in Nat
                               /\ held[p][n].since \in Nat
  BY DEF Region
<1>3. n \in Listed(p) <=> held[p][n] # NULL
  BY DEF Listed
<1> QED
  BY <1>1, <1>2, <1>3, NullIs

\* What the OS knows.
LEMMA HasIs ==
  ASSUME Types, NEW p \in Procs, NEW n \in Names
  PROVE  /\ mapped[p][n] \in Mapping \cup {NULL} /\ DOMAIN mapped[p] = Names
         /\ mapped[p] \in [Names -> Mapping \cup {NULL}]
         /\ n \in Mapped(p) <=> mapped[p][n] # NULL
         /\ n \in Mapped(p) <=> mapped[p][n] \in Mapping
         /\ n \in Mapped(p) =>
              /\ mapped[p][n].addr \in Nat /\ mapped[p][n].size \in Nat
              /\ mapped[p][n].since \in Nat /\ mapped[p][n].refs \in Nat \ {0}
<1>1. mapped[p] \in [Names -> Mapping \cup {NULL}]
  BY DEF Types
<1>2. mapped[p][n] \in Mapping =>
        /\ mapped[p][n].addr \in Nat /\ mapped[p][n].size \in Nat
        /\ mapped[p][n].since \in Nat /\ mapped[p][n].refs \in Nat \ {0}
  BY DEF Mapping
<1>3. n \in Mapped(p) <=> mapped[p][n] # NULL
  BY DEF Mapped
<1> QED
  BY <1>1, <1>2, <1>3, NullIs

LEMMA NamesAre ==
  ASSUME NEW p
  PROVE  /\ Mapped(p) \subseteq Names /\ IsFiniteSet(Mapped(p))
         /\ Cardinality(Mapped(p)) \in Nat
         /\ Listed(p) \subseteq Names /\ IsFiniteSet(Listed(p))
         /\ Cardinality(Listed(p)) \in Nat
<1>1. Mapped(p) \subseteq Names /\ Listed(p) \subseteq Names
  BY DEF Mapped, Listed
<1> QED
  BY <1>1, FS_Subset, FS_CardinalityType, FleetAssumption

\* One name more.
LEMMA NameMore ==
  ASSUME NEW S, S \subseteq Names, NEW n \in Names
  PROVE  IsFiniteSet(S \cup {n}) /\ Cardinality(S \cup {n}) \in Nat
<1>1. S \cup {n} \subseteq Names
  OBVIOUS
<1> QED
  BY <1>1, FS_Subset, FS_CardinalityType, FleetAssumption

LEMMA TakenIs ==
  ASSUME NEW p
  PROVE  IsFiniteSet(Taken(p)) /\ Cardinality(Taken(p)) <= Cardinality(Names)
         /\ Cardinality(Taken(p)) \in Nat /\ Cardinality(Names) \in Nat
<1> DEFINE f == [n \in Mapped(p) |-> mapped[p][n].addr]
<1>1. f \in Surjection(Mapped(p), Taken(p))
  <2>1. f \in [Mapped(p) -> Taken(p)]
    BY DEF Taken
  <2>2. \A t \in Taken(p) : \E n \in Mapped(p) : f[n] = t
    BY DEF Taken
  <2> QED
    BY <2>1, <2>2 DEF Surjection
<1>2. IsFiniteSet(Taken(p)) /\ Cardinality(Taken(p)) <= Cardinality(Mapped(p))
  BY <1>1, NamesAre, FS_Surjection
<1>3. Cardinality(Mapped(p)) <= Cardinality(Names) /\ Cardinality(Names) \in Nat
  BY NamesAre, FS_Subset, FS_CardinalityType, FleetAssumption
<1>4. Cardinality(Taken(p)) \in Nat /\ Cardinality(Mapped(p)) \in Nat
  BY <1>2, NamesAre, FS_CardinalityType
<1> QED
  BY <1>2, <1>3, <1>4

\* There is always a free address.
LEMMA FreeIs ==
  ASSUME NEW p
  PROVE  Free(p) \in Nat /\ Free(p) \notin Taken(p)
<1> DEFINE k == Cardinality(Names) + 1
           u == (1 .. k) \ Taken(p)
<1>1. Cardinality(Taken(p)) < k /\ k \in Nat
  BY TakenIs
<1>2. u # {}
  <2>1. SUFFICES ASSUME 1 .. k \subseteq Taken(p) PROVE FALSE
    OBVIOUS
  <2>2. Cardinality(1 .. k) <= Cardinality(Taken(p)) /\ Cardinality(Taken(p)) \in Nat
    BY <2>1, TakenIs, FS_Subset
  <2>3. Cardinality(1 .. k) = k
    <3>1. 1 \in Int /\ k \in Int /\ k >= 1 /\ k - 1 + 1 = k
      BY <1>1, TakenIs
    <3> HIDE DEF k
    <3> QED
      BY <3>1, FS_Interval
  <2> HIDE DEF k
  <2> QED
    BY <1>1, <2>2, <2>3
<1>3. u \subseteq Nat
  BY <1>1
<1>4. \E x \in u : \A y \in u : x <= y
  BY <1>2, <1>3, Least
<1>5. Free(p) = CHOOSE x \in u : \A y \in u : x <= y
  BY DEF Free, Min
<1>6. Free(p) \in u
  <2> HIDE DEF u
  <2> QED
    BY <1>4, <1>5
<1> QED
  BY <1>3, <1>6

\* The entry of a map, and the bytes with it.
EntryOf(addr, size) == [addr |-> addr, size |-> size, since |-> clock]
Added(p, size) == bytes[p] + size

\* What shm_profiler_on_map changes.
LEMMA OnMapIs ==
  ASSUME Types, NEW p \in Procs, NEW n \in Names, NEW addr \in Nat, NEW size \in Asked,
         OnMap(p, n, addr, size)
  PROVE  /\ size \in Nat /\ size > 0
         /\ held'[p][n] = EntryOf(addr, size) /\ held'[p][n] \in Region
         /\ EntryOf(addr, size) \in Region /\ Added(p, size) \in Int
         /\ \A m \in Names \ {n} : held'[p][m] = held[p][m]
         /\ \A q \in Procs \ {p} : /\ held'[q] = held[q] /\ bytes'[q] = bytes[q]
                                   /\ peak'[q] = peak[q] /\ last'[q] = last[q]
                                   /\ Listed(q)' = Listed(q)
         /\ held' \in [Procs -> [Names -> Region \cup {NULL}]] /\ bytes' \in [Procs -> Int]
         /\ peak' \in [Procs -> [count : Nat, bytes : Nat]]
         /\ last' \in [Procs -> Nat \cup {NULL}]
         /\ bytes'[p] = Added(p, size)
         /\ peak'[p].count = Larger(peak[p].count, Cardinality(Listed(p) \cup {n}))
         /\ peak'[p].bytes = Larger(peak[p].bytes, Added(p, size))
         /\ last'[p] = clock /\ inited' = inited \cup {p}
         /\ Listed(p)' = Listed(p) \cup {n}
<1> DEFINE e == EntryOf(addr, size)
           c == Cardinality(Listed(p) \cup {n})
           b == Added(p, size)
<1>1. /\ held' = [held EXCEPT ![p][n] = e] /\ bytes' = [bytes EXCEPT ![p] = @ + size]
      /\ peak' = [peak EXCEPT ![p].count = Larger(@, c), ![p].bytes = Larger(@, b)]
      /\ last' = [last EXCEPT ![p] = clock] /\ inited' = inited \cup {p}
  BY DEF OnMap, Record, EntryOf, Added
<1>2. e \in Region /\ size \in Nat /\ size > 0 /\ clock \in Nat
  BY FleetAssumption DEF Types, Region, EntryOf
<1>3. c \in Nat /\ b \in Int
  <2>1. c \in Nat
    BY NamesAre, NameMore
  <2> QED
    BY <1>2, <2>1 DEF Types, Added
<1>4. /\ held \in [Procs -> [Names -> Region \cup {NULL}]] /\ bytes \in [Procs -> Int]
      /\ peak \in [Procs -> [count : Nat, bytes : Nat]] /\ last \in [Procs -> Nat \cup {NULL}]
  BY DEF Types
<1>5. e = EntryOf(addr, size) /\ b = bytes[p] + size
  BY DEF Added
<1> HIDE DEF e, c, b
<1>6. /\ held'[p] = [held[p] EXCEPT ![n] = e]
      /\ \A q \in Procs \ {p} : held'[q] = held[q]
      /\ held' \in [Procs -> [Names -> Region \cup {NULL}]]
  BY <1>1, <1>2, <1>4
<1>7. held'[p][n] = e /\ \A m \in Names \ {n} : held'[p][m] = held[p][m]
  <2>1. DOMAIN held[p] = Names
    BY <1>4
  <2> QED
    BY <1>6, <2>1
<1>8. /\ bytes' \in [Procs -> Int] /\ bytes'[p] = b
      /\ \A q \in Procs \ {p} : bytes'[q] = bytes[q]
  BY <1>1, <1>2, <1>3, <1>4, <1>5
<1>9. /\ last' \in [Procs -> Nat \cup {NULL}] /\ last'[p] = clock
      /\ \A q \in Procs \ {p} : last'[q] = last[q]
  BY <1>1, <1>2, <1>4
<1>10. /\ peak'[p].count = Larger(peak[p].count, c) /\ peak'[p].bytes = Larger(peak[p].bytes, b)
       /\ peak' \in [Procs -> [count : Nat, bytes : Nat]]
       /\ \A q \in Procs \ {p} : peak'[q] = peak[q]
  <2> DEFINE k == Larger(peak[p].count, c)
             l == Larger(peak[p].bytes, b)
  <2>1. peak[p].count \in Nat /\ peak[p].bytes \in Nat /\ peak[p] \in [count : Nat, bytes : Nat]
    BY <1>4
  <2>2. k \in Nat /\ l \in Nat
    BY <1>3, <2>1 DEF Larger
  <2>3. peak' = [peak EXCEPT ![p].count = k, ![p].bytes = l]
    BY <1>1, <1>4
  <2>4. k = Larger(peak[p].count, c) /\ l = Larger(peak[p].bytes, b)
    OBVIOUS
  <2> HIDE DEF k, l
  <2> QED
    BY <1>4, <2>1, <2>2, <2>3, <2>4
<1>11. Listed(p)' = Listed(p) \cup {n}
  BY <1>2, <1>7, NullIs DEF Listed
<1>12. \A q \in Procs \ {p} : Listed(q)' = Listed(q)
  BY <1>6 DEF Listed
<1> QED
  BY <1>1, <1>2, <1>5, <1>6, <1>7, <1>8, <1>9, <1>10, <1>11, <1>12 DEF b, c

\* What shm_profiler_on_unmap changes.
LEMMA OnUnmapIs ==
  ASSUME Types, NEW p \in Procs, NEW n \in Names, NEW ret, OnUnmap(p, n, ret)
  PROVE  /\ held'[p][n] = NULL
         /\ \A m \in Names \ {n} : held'[p][m] = held[p][m]
         /\ \A q \in Procs \ {p} : /\ held'[q] = held[q] /\ bytes'[q] = bytes[q]
                                   /\ last'[q] = last[q] /\ Listed(q)' = Listed(q)
         /\ held' \in [Procs -> [Names -> Region \cup {NULL}]] /\ bytes' \in [Procs -> Int]
         /\ last' \in [Procs -> Nat \cup {NULL}] /\ peak' = peak
         /\ n \in Listed(p) => bytes'[p] = bytes[p] - held[p][n].size
         /\ n \notin Listed(p) => held' = held /\ bytes' = bytes
         /\ last'[p] = clock /\ inited' = inited \cup {p}
         /\ Listed(p)' = Listed(p) \ {n}
<1>1. /\ last' = [last EXCEPT ![p] = clock] /\ inited' = inited \cup {p} /\ peak' = peak
      /\ n \in Listed(p) => /\ held' = [held EXCEPT ![p][n] = NULL]
                            /\ bytes' = [bytes EXCEPT ![p] = @ - held[p][n].size]
      /\ n \notin Listed(p) => held' = held /\ bytes' = bytes
  BY DEF OnUnmap, Record
<1>2. /\ held \in [Procs -> [Names -> Region \cup {NULL}]] /\ bytes \in [Procs -> Int]
      /\ last \in [Procs -> Nat \cup {NULL}] /\ clock \in Nat
  BY DEF Types
<1>3. /\ last' \in [Procs -> Nat \cup {NULL}] /\ last'[p] = clock
      /\ \A q \in Procs \ {p} : last'[q] = last[q]
  BY <1>1, <1>2
<1>4. /\ held'[p][n] = NULL /\ \A m \in Names \ {n} : held'[p][m] = held[p][m]
      /\ \A q \in Procs \ {p} : held'[q] = held[q]
      /\ held' \in [Procs -> [Names -> Region \cup {NULL}]]
  <2>1. CASE n \in Listed(p)
    <3>1. /\ held'[p] = [held[p] EXCEPT ![n] = NULL]
          /\ \A q \in Procs \ {p} : held'[q] = held[q]
          /\ held' \in [Procs -> [Names -> Region \cup {NULL}]]
      BY <1>1, <1>2, <2>1
    <3>2. DOMAIN held[p] = Names
      BY <1>2
    <3> QED
      BY <3>1, <3>2
  <2>2. CASE n \notin Listed(p)
    BY <1>1, <1>2, <2>2, HeldIs
  <2> QED
    BY <2>1, <2>2
<1>5. /\ bytes' \in [Procs -> Int] /\ \A q \in Procs \ {p} : bytes'[q] = bytes[q]
      /\ n \in Listed(p) => bytes'[p] = bytes[p] - held[p][n].size
  <2>1. CASE n \in Listed(p)
    <3>1. held[p][n].size \in Int
      BY <2>1, HeldIs
    <3> QED
      BY <1>1, <1>2, <2>1, <3>1
  <2>2. CASE n \notin Listed(p)
    BY <1>1, <1>2, <2>2
  <2> QED
    BY <2>1, <2>2
<1>6. Listed(p)' = Listed(p) \ {n} /\ \A q \in Procs \ {p} : Listed(q)' = Listed(q)
  BY <1>4 DEF Listed
<1> QED
  BY <1>1, <1>3, <1>4, <1>5, <1>6

\* What the OS has after a map, a second one, and an unmap.
LEMMA MapIs ==
  ASSUME Types, NEW p \in Procs, NEW n \in Names, NEW size \in Asked, Map(p, n, size)
  PROVE  /\ p \in up /\ n \notin Mapped(p)
         /\ mapped'[p][n] = [addr |-> Free(p), size |-> size, since |-> clock, refs |-> 1]
         /\ \A m \in Names \ {n} : mapped'[p][m] = mapped[p][m]
         /\ \A q \in Procs \ {p} : mapped'[q] = mapped[q] /\ Mapped(q)' = Mapped(q)
         /\ mapped' \in [Procs -> [Names -> Mapping \cup {NULL}]]
         /\ Mapped(p)' = Mapped(p) \cup {n}
         /\ OnMap(p, n, Free(p), size) /\ Free(p) \in Nat
<1> DEFINE e == [addr |-> Free(p), size |-> size, since |-> clock, refs |-> 1]
<1>1. /\ mapped' = [mapped EXCEPT ![p][n] = e] /\ p \in up /\ n \notin Mapped(p)
      /\ OnMap(p, n, Free(p), size)
  BY DEF Map, Call
<1>2. e \in Mapping /\ Free(p) \in Nat
  BY FreeIs, FleetAssumption DEF Types, Mapping
<1>3. mapped \in [Procs -> [Names -> Mapping \cup {NULL}]]
  BY DEF Types
<1> HIDE DEF e
<1>4. /\ mapped'[p] = [mapped[p] EXCEPT ![n] = e]
      /\ \A q \in Procs \ {p} : mapped'[q] = mapped[q]
      /\ mapped' \in [Procs -> [Names -> Mapping \cup {NULL}]]
  BY <1>1, <1>2, <1>3
<1>5. mapped'[p][n] = e /\ \A m \in Names \ {n} : mapped'[p][m] = mapped[p][m]
  <2>1. DOMAIN mapped[p] = Names
    BY <1>3
  <2> QED
    BY <1>4, <2>1
<1>6. Mapped(p)' = Mapped(p) \cup {n}
  BY <1>2, <1>5, NullIs DEF Mapped
<1>7. \A q \in Procs \ {p} : Mapped(q)' = Mapped(q)
  BY <1>4 DEF Mapped
<1> QED
  BY <1>1, <1>2, <1>4, <1>5, <1>6, <1>7 DEF e

LEMMA MapAgainIs ==
  ASSUME Types, NEW p \in Procs, NEW n \in Names, NEW size \in Asked, MapAgain(p, n, size)
  PROVE  /\ p \in up /\ n \in Mapped(p) /\ mapped'[p][n] \in Mapping
         /\ mapped'[p][n].addr = mapped[p][n].addr /\ mapped'[p][n].size = mapped[p][n].size
         /\ mapped'[p][n].since = mapped[p][n].since
         /\ \A m \in Names \ {n} : mapped'[p][m] = mapped[p][m]
         /\ \A q \in Procs \ {p} : /\ mapped'[q] = mapped[q] /\ Mapped(q)' = Mapped(q)
                                   /\ odd'[q] = odd[q]
         /\ mapped' \in [Procs -> [Names -> Mapping \cup {NULL}]]
         /\ Mapped(p)' = Mapped(p) /\ odd'[p] = odd[p] \cup {n}
         /\ odd' \in [Procs -> SUBSET Names]
         /\ OnMap(p, n, mapped[p][n].addr, size) /\ mapped[p][n].addr \in Nat
<1> DEFINE e == [mapped[p][n] EXCEPT !.refs = @ + 1]
<1>1. /\ mapped' = [mapped EXCEPT ![p][n].refs = @ + 1] /\ p \in up /\ n \in Mapped(p)
      /\ OnMap(p, n, mapped[p][n].addr, size) /\ odd' = [odd EXCEPT ![p] = @ \cup {n}]
  BY DEF MapAgain, Call
<1>2. mapped[p][n] \in Mapping /\ mapped[p][n].addr \in Nat /\ mapped[p][n].refs \in Nat \ {0}
  BY <1>1, HasIs
<1>3. mapped \in [Procs -> [Names -> Mapping \cup {NULL}]] /\ odd \in [Procs -> SUBSET Names]
  BY DEF Types
<1>4. /\ e \in Mapping /\ e.addr = mapped[p][n].addr /\ e.size = mapped[p][n].size
      /\ e.since = mapped[p][n].since
  BY <1>2 DEF Mapping
<1>5. mapped' = [mapped EXCEPT ![p][n] = e]
  BY <1>1, <1>3
<1> HIDE DEF e
<1>6. /\ mapped'[p] = [mapped[p] EXCEPT ![n] = e]
      /\ \A q \in Procs \ {p} : mapped'[q] = mapped[q]
      /\ mapped' \in [Procs -> [Names -> Mapping \cup {NULL}]]
  BY <1>3, <1>4, <1>5
<1>7. mapped'[p][n] = e /\ \A m \in Names \ {n} : mapped'[p][m] = mapped[p][m]
  <2>1. DOMAIN mapped[p] = Names
    BY <1>3
  <2> QED
    BY <1>6, <2>1
<1>8. Mapped(p)' = Mapped(p)
  BY <1>1, <1>4, <1>7, NullIs DEF Mapped
<1>9. \A q \in Procs \ {p} : Mapped(q)' = Mapped(q)
  BY <1>6 DEF Mapped
<1>10. /\ odd' \in [Procs -> SUBSET Names] /\ odd'[p] = odd[p] \cup {n}
       /\ \A q \in Procs \ {p} : odd'[q] = odd[q]
  BY <1>1, <1>3
<1> QED
  BY <1>1, <1>2, <1>4, <1>6, <1>7, <1>8, <1>9, <1>10

LEMMA UnmapIs ==
  ASSUME Types, NEW p \in Procs, NEW n \in Names, Unmap(p, n)
  PROVE  /\ p \in up /\ n \in Mapped(p)
         /\ mapped[p][n].refs = 1 => mapped'[p][n] = NULL
         /\ mapped'[p][n] = NULL \/ (/\ mapped'[p][n] \in Mapping
                                     /\ mapped'[p][n].addr = mapped[p][n].addr
                                     /\ mapped'[p][n].size = mapped[p][n].size
                                     /\ mapped'[p][n].since = mapped[p][n].since)
         /\ \A m \in Names \ {n} : mapped'[p][m] = mapped[p][m]
         /\ \A q \in Procs \ {p} : mapped'[q] = mapped[q] /\ Mapped(q)' = Mapped(q)
         /\ mapped' \in [Procs -> [Names -> Mapping \cup {NULL}]]
         /\ Mapped(p)' \subseteq Mapped(p) /\ Mapped(p) \subseteq Mapped(p)' \cup {n}
         /\ n \in Mapped(p)' <=> mapped'[p][n] # NULL
         /\ OnUnmap(p, n, 0) /\ mapped[p][n].addr \in Nat
<1> DEFINE e == IF mapped[p][n].refs > 1
                THEN [mapped[p][n] EXCEPT !.refs = @ - 1] ELSE NULL
<1>1. /\ mapped' = IF mapped[p][n].refs > 1
                   THEN [mapped EXCEPT ![p][n].refs = @ - 1]
                   ELSE [mapped EXCEPT ![p][n] = NULL]
      /\ p \in up /\ n \in Mapped(p) /\ OnUnmap(p, n, 0)
  BY DEF Unmap, Call
<1>2. mapped[p][n] \in Mapping /\ mapped[p][n].addr \in Nat /\ mapped[p][n].refs \in Nat \ {0}
  BY <1>1, HasIs
<1>3. mapped \in [Procs -> [Names -> Mapping \cup {NULL}]]
  BY DEF Types
<1>4. /\ mapped[p][n].refs = 1 => e = NULL
      /\ e = NULL \/ (/\ e \in Mapping /\ e.addr = mapped[p][n].addr
                      /\ e.size = mapped[p][n].size /\ e.since = mapped[p][n].since)
  <2>1. CASE mapped[p][n].refs > 1
    <3>1. e = [mapped[p][n] EXCEPT !.refs = @ - 1]
      BY <2>1
    <3>2. /\ e \in Mapping /\ e.addr = mapped[p][n].addr
          /\ e.size = mapped[p][n].size /\ e.since = mapped[p][n].since
      <4> HIDE DEF e
      <4>1. mapped[p][n].refs - 1 \in Nat \ {0}
        BY <1>2, <2>1
      <4> QED
        BY <1>2, <3>1, <4>1 DEF Mapping
    <3> HIDE DEF e
    <3> QED
      BY <1>2, <2>1, <3>2
  <2>2. CASE ~(mapped[p][n].refs > 1)
    BY <2>2
  <2> QED
    BY <2>1, <2>2
<1>5. mapped' = [mapped EXCEPT ![p][n] = e]
  BY <1>1, <1>3
<1> HIDE DEF e
<1>6. /\ mapped'[p] = [mapped[p] EXCEPT ![n] = e]
      /\ \A q \in Procs \ {p} : mapped'[q] = mapped[q]
      /\ mapped' \in [Procs -> [Names -> Mapping \cup {NULL}]]
  BY <1>3, <1>4, <1>5
<1>7. mapped'[p][n] = e /\ \A m \in Names \ {n} : mapped'[p][m] = mapped[p][m]
  <2>1. DOMAIN mapped[p] = Names
    BY <1>3
  <2> QED
    BY <1>6, <2>1
<1>8. /\ Mapped(p)' \subseteq Mapped(p) /\ Mapped(p) \subseteq Mapped(p)' \cup {n}
      /\ n \in Mapped(p)' <=> mapped'[p][n] # NULL
  BY <1>1, <1>7 DEF Mapped
<1>9. \A q \in Procs \ {p} : Mapped(q)' = Mapped(q)
  BY <1>6 DEF Mapped
<1> QED
  BY <1>1, <1>2, <1>4, <1>6, <1>7, <1>8, <1>9

LEMMA RefusedIs ==
  ASSUME Types, NEW p \in Procs, NEW n \in Names, UnmapRefused(p, n)
  PROVE  /\ p \in up /\ n \in Mapped(p) /\ mapped' = mapped
         /\ odd'[p] = odd[p] \cup {n} /\ odd' \in [Procs -> SUBSET Names]
         /\ \A q \in Procs \ {p} : odd'[q] = odd[q]
         /\ \A q \in Procs : Mapped(q)' = Mapped(q)
         /\ OnUnmap(p, n, -1) /\ mapped[p][n].addr \in Nat
<1>1. /\ mapped' = mapped /\ p \in up /\ n \in Mapped(p)
      /\ OnUnmap(p, n, -1) /\ odd' = [odd EXCEPT ![p] = @ \cup {n}]
  BY DEF UnmapRefused, Call, osVars
<1>2. mapped[p][n].addr \in Nat /\ odd \in [Procs -> SUBSET Names]
  BY <1>1, HasIs DEF Types
<1>3. /\ odd' \in [Procs -> SUBSET Names] /\ odd'[p] = odd[p] \cup {n}
      /\ \A q \in Procs \ {p} : odd'[q] = odd[q]
  BY <1>1, <1>2
<1>4. \A q \in Procs : Mapped(q)' = Mapped(q)
  BY <1>1 DEF Mapped
<1> QED
  BY <1>1, <1>2, <1>3, <1>4

\* The sizes of what a process has.
Sized(now) == now \in [Names -> Region \cup {NULL}] \/ now \in [Names -> Mapping \cup {NULL}]

LEMMA SizesAre ==
  ASSUME NEW now, Sized(now)
  PROVE  SizesOf(now) \in Nat
<1> DEFINE D == {m \in Names : now[m] # NULL}
           f == [n \in D |-> now[n].size]
<1>1. IsFiniteSet(D)
  BY FS_Subset, FleetAssumption
<1>2. \A n \in D : f[n] \in Nat
  BY DEF Region, Mapping, Sized
<1>3. DOMAIN f = D
  OBVIOUS
<1> HIDE DEF f
<1>4. Total(f) \in Nat
  BY <1>1, <1>2, <1>3, TotalNat
<1> QED
  BY <1>4 DEF SizesOf, f

\* Another entry of n, or none any more.
LEMMA SizesPut ==
  ASSUME NEW now, Sized(now), NEW new, Sized(new), NEW n \in Names, new[n] # NULL,
         \A m \in Names \ {n} : new[m] = now[m]
  PROVE  /\ now[n] = NULL => SizesOf(new) = SizesOf(now) + new[n].size
         /\ now[n] # NULL => SizesOf(new) = SizesOf(now) + new[n].size - now[n].size
<1> DEFINE D == {m \in Names : now[m] # NULL}
           E == {m \in Names : new[m] # NULL}
           f == [m \in D |-> now[m].size]
           g == [m \in E |-> new[m].size]
<1>1. IsFiniteSet(D) /\ n \in E /\ E = D \cup {n}
  BY FS_Subset, FleetAssumption
<1>2. (\A m \in D : f[m] \in Int) /\ g[n] \in Int /\ \A m \in D \ {n} : g[m] = f[m]
  BY <1>1 DEF Region, Mapping, Sized
<1>3. DOMAIN f = D /\ DOMAIN g = E /\ g[n] = new[n].size /\ (n \in D => f[n] = now[n].size)
  BY <1>1
<1>4. n \in D <=> now[n] # NULL
  OBVIOUS
<1>5. SizesOf(now) = Total(f) /\ SizesOf(new) = Total(g)
  BY DEF SizesOf
<1> HIDE DEF f, g, D, E
<1>6. /\ n \notin D => Total(g) = Total(f) + g[n]
      /\ n \in D => Total(g) = Total(f) + g[n] - f[n]
  BY <1>1, <1>2, <1>3, TotalPut
<1> QED
  BY <1>3, <1>4, <1>5, <1>6

LEMMA SizesTake ==
  ASSUME NEW now, Sized(now), NEW new, Sized(new), NEW n \in Names, now[n] # NULL,
         new[n] = NULL, \A m \in Names \ {n} : new[m] = now[m]
  PROVE  SizesOf(new) = SizesOf(now) - now[n].size
<1> DEFINE D == {m \in Names : now[m] # NULL}
           E == {m \in Names : new[m] # NULL}
           f == [m \in D |-> now[m].size]
           g == [m \in E |-> new[m].size]
<1>1. IsFiniteSet(D) /\ n \in D /\ E = D \ {n}
  BY FS_Subset, FleetAssumption
<1>2. (\A m \in D : f[m] \in Int) /\ \A m \in E : g[m] = f[m]
  BY <1>1 DEF Region, Mapping, Sized
<1>3. DOMAIN f = D /\ DOMAIN g = E /\ f[n] = now[n].size
  BY <1>1
<1>4. SizesOf(now) = Total(f) /\ SizesOf(new) = Total(g)
  BY DEF SizesOf
<1> HIDE DEF f, g, D, E
<1>5. Total(g) = Total(f) - f[n]
  BY <1>1, <1>2, <1>3, TotalTake
<1> QED
  BY <1>3, <1>4, <1>5

\* Two that have the same sizes.
LEMMA SizesSame ==
  ASSUME NEW now, NEW new, Sized(now),
         \A m \in Names : new[m] = NULL <=> now[m] = NULL,
         \A m \in Names : now[m] # NULL => new[m].size = now[m].size
  PROVE  SizesOf(new) = SizesOf(now)
<1> DEFINE D == {m \in Names : now[m] # NULL}
           f == [m \in D |-> now[m].size]
           g == [m \in D |-> new[m].size]
<1>1. f = g
  OBVIOUS
<1>2. {m \in Names : new[m] # NULL} = D
  OBVIOUS
<1> QED
  BY <1>1, <1>2 DEF SizesOf

LEMMA TypesInit == Init => Types
<1> SUFFICES ASSUME Init PROVE Types
  OBVIOUS
<1>1. /\ NoPeak \in [count : Nat, bytes : Nat]
      /\ Nothing \in [Names -> Region \cup {NULL}] /\ Nothing \in [Names -> Mapping \cup {NULL}]
  BY DEF NoPeak, Nothing
<1>2. /\ runs \in [Procs -> Nat \ {0}] /\ held \in [Procs -> [Names -> Region \cup {NULL}]]
      /\ mapped \in [Procs -> [Names -> Mapping \cup {NULL}]]
  BY <1>1 DEF Init
<1>3. /\ peak \in [Procs -> [count : Nat, bytes : Nat]]
      /\ most \in [count : Nat, bytes : Nat, os : Nat, cost : Nat]
  BY <1>1 DEF Init
<1>4. last \in [Procs -> Nat \cup {NULL}] /\ region \in [Names -> Nat]
  BY DEF Init
<1>5. clock \in Nat /\ stepped \in BOOLEAN /\ up \subseteq Procs /\ unknown \in Nat
  BY DEF Init
<1>6. /\ done \in [Procs -> Seq(Life)] /\ bytes \in [Procs -> Int] /\ inited \subseteq Procs
      /\ odd \in [Procs -> SUBSET Names]
  BY DEF Init
<1> QED
  BY <1>2, <1>3, <1>4, <1>5, <1>6 DEF Types

LEMMA FreesIs ==
  ASSUME Types, OsFrees
  PROVE  /\ region' \in [Names -> Nat]
         /\ \A n \in Names : region'[n] \in {0, region[n]}
         /\ \A n \in Names : \A p \in up' : mapped'[p][n] # NULL => region'[n] = region[n]
BY DEF Types, OsFrees

LEMMA MostIs ==
  ASSUME Types, NEW p \in Procs, NEW n \in Names, NEW size \in Asked, Map(p, n, size)
  PROVE  /\ region' \in [Names -> Nat]
         /\ region'[n] = (IF region[n] = 0 THEN size ELSE region[n])
         /\ \A m \in Names \ {n} : region'[m] = region[m]
         /\ most' \in [count : Nat, bytes : Nat, os : Nat, cost : Nat]
         /\ most'.count = Larger(most.count, Cardinality(Mapped(p) \cup {n}))
         /\ most'.bytes = Larger(most.bytes, SizesOf(mapped'[p]))
         /\ SizesOf(mapped'[p]) \in Nat
         /\ most'.os = Larger(most.os, Total(region'))
         /\ most'.cost = Larger(most.cost, Total([m \in Names |-> RoundUp(region'[m])]))
<1>1. OsMaps(n, Free(p), size) /\ size \in Nat
  BY OnMapIs, MapIs DEF Map
<1>2. /\ region' \in [Names -> Nat] /\ region'[n] = (IF region[n] = 0 THEN size ELSE region[n])
      /\ \A m \in Names \ {n} : region'[m] = region[m]
  BY <1>1 DEF OsMaps, Types
<1> DEFINE c == Cardinality(Mapped(p) \cup {n})
           b == SizesOf(mapped'[p])
           o == Total(region')
           z == Total([m \in Names |-> RoundUp(region'[m])])
<1>3. c \in Nat /\ b \in Nat
  <2>1. Sized(mapped'[p])
    BY MapIs DEF Sized
  <2>2. c \in Nat
    BY NamesAre, NameMore
  <2> QED
    BY <2>1, <2>2, SizesAre
<1>4. o \in Nat /\ z \in Nat
  <2>1. IsFiniteSet(Names)
    BY FleetAssumption
  <2>2. \A m \in Names : RoundUp(region'[m]) \in Nat
    BY <1>2, Rounding
  <2> DEFINE g == [m \in Names |-> RoundUp(region'[m])]
  <2>3. DOMAIN g = Names /\ \A m \in Names : g[m] \in Nat
    BY <2>2
  <2>4. DOMAIN region' = Names /\ \A m \in Names : region'[m] \in Nat
    BY <1>2
  <2> HIDE DEF g
  <2>5. Total(g) \in Nat /\ Total(region') \in Nat
    BY <2>1, <2>3, <2>4, TotalNat
  <2> QED
    BY <2>5 DEF g
<1>5. most' = [count |-> Larger(most.count, c), bytes |-> Larger(most.bytes, b),
               os |-> Larger(most.os, o), cost |-> Larger(most.cost, z)]
  BY DEF Map
<1>6. most \in [count : Nat, bytes : Nat, os : Nat, cost : Nat]
  BY DEF Types
<1> HIDE DEF o, z, c, b
<1>7. most' \in [count : Nat, bytes : Nat, os : Nat, cost : Nat]
  BY <1>3, <1>4, <1>5, <1>6 DEF Larger
<1> QED
  BY <1>2, <1>3, <1>5, <1>7 DEF o, z, c, b

LEMMA TypesStep == Types /\ [Next]_vars => Types'
<1> SUFFICES ASSUME Types, [Next]_vars
             PROVE  Types'
  OBVIOUS
<1>0. \A p : inited \cup {p} \subseteq Procs <=> p \in Procs
  BY DEF Types
<1>1. ASSUME NEW p \in Procs, NEW n \in Names, NEW size \in Asked, Map(p, n, size)
      PROVE  Types'
  <2>1. mapped' \in [Procs -> [Names -> Mapping \cup {NULL}]]
    BY <1>1, MapIs
  <2>2. /\ held' \in [Procs -> [Names -> Region \cup {NULL}]] /\ bytes' \in [Procs -> Int]
        /\ peak' \in [Procs -> [count : Nat, bytes : Nat]]
        /\ last' \in [Procs -> Nat \cup {NULL}] /\ inited' \subseteq Procs
    <3> DEFINE a == Free(p)
    <3>1. OnMap(p, n, a, size) /\ a \in Nat
      BY <1>1, MapIs
    <3> HIDE DEF a
    <3>2. inited' = inited \cup {p}
      BY <3>1 DEF OnMap, Record
    <3> QED
      BY <1>0, <3>1, <3>2, OnMapIs
  <2>3. /\ region' \in [Names -> Nat]
        /\ most' \in [count : Nat, bytes : Nat, os : Nat, cost : Nat]
    BY <1>1, MostIs
  <2>4. UNCHANGED <<clock, stepped, up, runs, done, unknown, odd>>
    BY <1>1 DEF Map
  <2> QED
    BY <2>1, <2>2, <2>3, <2>4 DEF Types
<1>2. ASSUME NEW p \in Procs, NEW n \in Names, NEW size \in Asked, MapAgain(p, n, size)
      PROVE  Types'
  <2>1. mapped' \in [Procs -> [Names -> Mapping \cup {NULL}]] /\ odd' \in [Procs -> SUBSET Names]
    BY <1>2, MapAgainIs
  <2>2. /\ held' \in [Procs -> [Names -> Region \cup {NULL}]] /\ bytes' \in [Procs -> Int]
        /\ peak' \in [Procs -> [count : Nat, bytes : Nat]]
        /\ last' \in [Procs -> Nat \cup {NULL}] /\ inited' \subseteq Procs
    <3> DEFINE a == mapped[p][n].addr
    <3>1. OnMap(p, n, a, size) /\ a \in Nat
      BY <1>2, MapAgainIs
    <3> HIDE DEF a
    <3>2. inited' = inited \cup {p}
      BY <3>1 DEF OnMap, Record
    <3> QED
      BY <1>0, <3>1, <3>2, OnMapIs
  <2>3. UNCHANGED <<clock, stepped, up, runs, region, most, done, unknown>>
    BY <1>2 DEF MapAgain
  <2> QED
    BY <2>1, <2>2, <2>3 DEF Types
<1>3. ASSUME NEW p \in Procs, NEW n \in Names, Unmap(p, n)
      PROVE  Types'
  <2>1. mapped' \in [Procs -> [Names -> Mapping \cup {NULL}]]
    BY <1>3, UnmapIs
  <2>2. /\ held' \in [Procs -> [Names -> Region \cup {NULL}]] /\ bytes' \in [Procs -> Int]
        /\ peak' = peak
        /\ last' \in [Procs -> Nat \cup {NULL}] /\ inited' \subseteq Procs
    BY <1>0, <1>3, UnmapIs, OnUnmapIs
  <2>3. region' \in [Names -> Nat]
    BY <1>3, FreesIs DEF Unmap
  <2>4. UNCHANGED <<clock, stepped, up, runs, most, unknown, odd>>
    BY <1>3 DEF Unmap
  <2>5. done' \in [Procs -> Seq(Life)]
    <3> DEFINE freed == [size |-> mapped[p][n].size, flags |-> Flags[p],
                         life |-> clock - mapped[p][n].since]
    <3>1. freed \in Life
      <4>1. mapped[p][n].size \in Nat /\ mapped[p][n].since \in Nat
        BY <1>3, UnmapIs, HasIs
      <4>2. Flags[p] \in 0 .. 5 /\ clock \in Nat
        BY FleetAssumption DEF Types
      <4> QED
        BY <4>1, <4>2 DEF Life
    <3>2. done' \in {done, [done EXCEPT ![p] = Append(@, freed)]}
      BY <1>3 DEF Unmap
    <3>3. done \in [Procs -> Seq(Life)]
      BY DEF Types
    <3> HIDE DEF freed
    <3>4. Append(done[p], freed) \in Seq(Life)
      BY <3>1, <3>3
    <3> QED
      BY <3>2, <3>3, <3>4
  <2> QED
    BY <2>1, <2>2, <2>3, <2>4, <2>5 DEF Types
<1>4. ASSUME NEW p \in Procs, NEW n \in Names, UnmapRefused(p, n)
      PROVE  Types'
  <2>1. odd' \in [Procs -> SUBSET Names] /\ mapped' = mapped
    BY <1>4, RefusedIs
  <2>2. /\ held' \in [Procs -> [Names -> Region \cup {NULL}]] /\ bytes' \in [Procs -> Int]
        /\ peak' = peak
        /\ last' \in [Procs -> Nat \cup {NULL}] /\ inited' \subseteq Procs
    BY <1>0, <1>4, RefusedIs, OnUnmapIs
  <2>3. UNCHANGED <<clock, stepped, up, runs, region, most, done, unknown>>
    BY <1>4 DEF UnmapRefused, osVars
  <2> QED
    BY <2>1, <2>2, <2>3 DEF Types
<1>5. ASSUME NEW p \in Procs, MapFails(p) \/ UnmapUnknown(p)
      PROVE  Types'
  <2>0. clock \in Nat /\ unknown \in Nat /\ last \in [Procs -> Nat \cup {NULL}]
    BY DEF Types
  <2>1. /\ last' = [last EXCEPT ![p] = clock] /\ unknown' \in {unknown, unknown + 1}
        /\ inited' \subseteq Procs
    BY <1>0, <1>5 DEF MapFails, UnmapUnknown, Record
  <2>2. UNCHANGED <<clock, stepped, up, runs, mapped, region, held, bytes, peak, most, done, odd>>
    BY <1>5 DEF MapFails, UnmapUnknown, osVars
  <2>3. last' \in [Procs -> Nat \cup {NULL}]
    BY <2>0, <2>1
  <2>4. unknown' \in Nat
    BY <2>0, <2>1
  <2> QED
    BY <2>1, <2>2, <2>3, <2>4 DEF Types
<1>6. ASSUME NEW p \in Procs, Exit(p) \/ Kill(p) \/ \E n \in Names : KillInMap(p, n)
      PROVE  Types'
  <2>1. Ends(p) /\ UNCHANGED <<clock, stepped, runs, profiler, most, done, last, unknown, odd>>
    BY <1>6 DEF Exit, Kill, KillInMap, history
  <2>2. region' \in [Names -> Nat] /\ up' \subseteq Procs /\ mapped' = mapped
    BY <2>1, FreesIs DEF Ends, Types
  <2> QED
    BY <2>1, <2>2 DEF Types, profiler
<1>7. ASSUME NEW p \in Procs, Start(p)
      PROVE  Types'
  <2>1. /\ Nothing \in [Names -> Region \cup {NULL}] /\ NoPeak \in [count : Nat, bytes : Nat]
        /\ Nothing \in [Names -> Mapping \cup {NULL}]
    BY DEF Nothing, NoPeak
  <2>2. /\ held' \in [Procs -> [Names -> Region \cup {NULL}]]
        /\ mapped' \in [Procs -> [Names -> Mapping \cup {NULL}]]
    BY <1>7, <2>1 DEF Start, Types
  <2>3. peak' \in [Procs -> [count : Nat, bytes : Nat]] /\ bytes' \in [Procs -> Int]
    BY <1>7, <2>1 DEF Start, Types
  <2>4. runs' \in [Procs -> Nat \ {0}] /\ up' \subseteq Procs /\ inited' \subseteq Procs
    BY <1>7 DEF Start, Types
  <2>5. UNCHANGED <<clock, stepped, region, most, done, last, unknown, odd>>
    BY <1>7 DEF Start, history
  <2> QED
    BY <2>2, <2>3, <2>4, <2>5 DEF Types
<1>8. ASSUME Tick \/ StepBack
      PROVE  Types'
  <2>1. clock' \in Nat /\ stepped' \in BOOLEAN
    <3>1. CASE Tick
      BY <3>1 DEF Tick, Types
    <3>2. CASE StepBack
      BY <3>2 DEF StepBack, Types
    <3> QED
      BY <1>8, <3>1, <3>2
  <2>2. UNCHANGED <<up, runs, osVars, profiler, history>>
    BY <1>8 DEF Tick, StepBack
  <2> QED
    BY <2>1, <2>2 DEF Types, osVars, profiler, history
<1>9. CASE UNCHANGED vars
  BY <1>9 DEF Types, vars, osVars, profiler, history
<1> QED
  BY <1>1, <1>2, <1>3, <1>4, <1>5, <1>6, <1>7, <1>8, <1>9 DEF Next

-----------------------------------------------------------------------------
(* The records a process writes.                                           *)

LEMMA StampedIs ==
  ASSUME NEW p, NEW r
  PROVE  /\ DOMAIN Stamped(p, r) = DOMAIN r \cup {"pid", "ts"}
         /\ Stamped(p, r).pid = p /\ Stamped(p, r).ts = clock
         /\ \A f \in DOMAIN r : f \notin {"pid", "ts"} => Stamped(p, r)[f] = r[f]
BY DEF Stamped

LEMMA ReferencesAre ==
  ASSUME Types, NEW n \in Names
  PROVE  References(n) \in Nat
<1> DEFINE D == {q \in up : n \in Mapped(q)}
           f == [q \in D |-> mapped[q][n].refs]
<1>1. D \subseteq Procs /\ IsFiniteSet(D)
  <2>1. D \subseteq Procs
    BY DEF Types
  <2> QED
    BY <2>1, FS_Subset, FleetAssumption
<1>2. \A q \in D : f[q] \in Nat
  BY <1>1, HasIs
<1>3. DOMAIN f = D
  OBVIOUS
<1> HIDE DEF f
<1>4. Total(f) \in Nat
  BY <1>1, <1>2, <1>3, TotalNat
<1> QED
  BY <1>4 DEF References, f

LEMMA MapRecordShape ==
  ASSUME Types, NEW p \in Procs, NEW n \in Names, NEW addr \in Nat, NEW size \in Asked
  PROVE  LET r == Stamped(p, MapRecord(p, n, addr, size))
         IN  /\ MapShape(r) /\ Shape(r) /\ MapOk(r) /\ r.pid = p /\ r.ts = clock
             /\ r.name = n /\ r.size = size /\ r.addr = addr /\ r.flags = Flags[p]
             /\ DOMAIN r \subseteq {"event", "name", "size", "addr", "flags", "ret",
                                    "pgname", "pid", "ts"}
<1> DEFINE m == MapRecord(p, n, addr, size)
           r == Stamped(p, m)
           F == {"event", "name", "size", "addr", "flags", "ret"}
<1>1. /\ DOMAIN m = IF p \in Cp THEN F \cup {"pgname"} ELSE F
      /\ m.event = IF p \in Cp THEN "map_on_pg" ELSE "map"
      /\ m.name = n /\ m.size = size /\ m.addr = addr /\ m.flags = Flags[p]
      /\ m.ret \in Nat
      /\ p \in Cp => m.pgname = p
  <2>1. References(n) + 1 \in Nat
    BY ReferencesAre
  <2> DEFINE c == References(n) + 1
  <2> HIDE DEF c
  <2>2. m = IF p \in Cp
            THEN [event |-> "map_on_pg", name |-> n, size |-> size, addr |-> addr,
                  flags |-> Flags[p], ret |-> c, pgname |-> p]
            ELSE [event |-> "map", name |-> n, size |-> size, addr |-> addr,
                  flags |-> Flags[p], ret |-> 0]
    BY DEF MapRecord, c
  <2>3. c \in Nat
    BY <2>1 DEF c
  <2>4. CASE p \in Cp
    BY <2>2, <2>3, <2>4
  <2>5. CASE p \notin Cp
    BY <2>2, <2>5
  <2> QED
    BY <2>4, <2>5
<1> HIDE DEF m
<1>2. /\ DOMAIN r = DOMAIN m \cup {"pid", "ts"} /\ r.pid = p /\ r.ts = clock
      /\ r.event = m.event /\ r.name = n /\ r.size = size /\ r.addr = addr
      /\ r.flags = Flags[p] /\ r.ret = m.ret
      /\ p \in Cp => r.pgname = p
  <2>1. /\ DOMAIN r = DOMAIN m \cup {"pid", "ts"} /\ r.pid = p /\ r.ts = clock
        /\ \A f \in DOMAIN m : f \notin {"pid", "ts"} => r[f] = m[f]
    <3> HIDE DEF r
    <3> QED
      BY DEF r, Stamped
  <2>2. F \subseteq DOMAIN m /\ (p \in Cp => "pgname" \in DOMAIN m)
    BY <1>1
  <2> HIDE DEF r
  <2> QED
    BY <1>1, <2>1, <2>2
<1> HIDE DEF r
<1>3. addr \in Nat /\ clock \in Nat
  BY DEF Types
<1>4. MapShape(r)
  BY <1>1, <1>2, <1>3 DEF MapShape, IsMap
<1>5. MapOk(r)
  BY <1>1, <1>2 DEF MapOk, IsMap, Get
<1>6. Shape(r)
  BY <1>1, <1>2, <1>3, <1>4 DEF Shape
<1> QED
  BY <1>1, <1>2, <1>4, <1>5, <1>6 DEF r, m

LEMMA MapFailsShape ==
  ASSUME Types, NEW p \in Procs
  PROVE  LET r == Stamped(p, [MapRecord(p, NULL, NULL, Max(Asked)) EXCEPT !.ret = -1])
         IN  /\ MapShape(r) /\ Shape(r) /\ ~MapOk(r) /\ r.pid = p /\ r.ts = clock
             /\ IsMap(r) /\ {"pid", "ts", "addr", "ret"} \subseteq DOMAIN r
<1> DEFINE m == MapRecord(p, NULL, NULL, Max(Asked))
           z == [m EXCEPT !.ret = -1]
           r == Stamped(p, z)
           F == {"event", "name", "size", "addr", "flags", "ret"}
<1>1. /\ DOMAIN m = IF p \in Cp THEN F \cup {"pgname"} ELSE F
      /\ m.event = IF p \in Cp THEN "map_on_pg" ELSE "map"
      /\ m.flags = Flags[p] /\ m.addr = NULL
      /\ p \in Cp => m.pgname = p
  BY DEF MapRecord
<1> HIDE DEF m
<1>2. /\ DOMAIN z = DOMAIN m /\ z.event = m.event /\ z.flags = Flags[p]
      /\ z.addr = NULL /\ z.ret = -1
      /\ p \in Cp => z.pgname = p
  BY <1>1
<1> HIDE DEF z
<1>3. /\ DOMAIN r = DOMAIN m \cup {"pid", "ts"} /\ r.pid = p /\ r.ts = clock
      /\ r.event = m.event /\ r.addr = NULL /\ r.flags = Flags[p] /\ r.ret = -1
      /\ p \in Cp => r.pgname = p
  <2>1. /\ DOMAIN r = DOMAIN z \cup {"pid", "ts"} /\ r.pid = p /\ r.ts = clock
        /\ \A f \in DOMAIN z : f \notin {"pid", "ts"} => r[f] = z[f]
    BY StampedIs
  <2>2. F \subseteq DOMAIN m /\ (p \in Cp => "pgname" \in DOMAIN m)
    BY <1>1
  <2> HIDE DEF r
  <2> QED
    BY <1>1, <1>2, <2>1, <2>2
<1> HIDE DEF r
<1>4. clock \in Nat
  BY DEF Types
<1>5. MapShape(r) /\ IsMap(r)
  BY <1>1, <1>3 DEF MapShape, IsMap
<1>6. ~MapOk(r)
  BY <1>1, <1>3 DEF MapOk, IsMap, Get
<1>7. Shape(r)
  BY <1>1, <1>3, <1>4, <1>5 DEF Shape
<1> QED
  BY <1>1, <1>3, <1>5, <1>6, <1>7 DEF r, z, m

LEMMA UnmapRecordShape ==
  ASSUME Types, NEW p \in Procs, NEW addr \in Nat, NEW ret \in {0, -1}
  PROVE  LET r == Stamped(p, UnmapRecord(addr, ret))
         IN  /\ UnmapShape(r) /\ Shape(r) /\ ~MapOk(r) /\ r.pid = p /\ r.ts = clock
             /\ r.event = "unmap" /\ r.addr = addr
             /\ DOMAIN r = {"event", "addr", "ret", "pid", "ts"}
<1> DEFINE m == UnmapRecord(addr, ret)
           r == Stamped(p, m)
<1>1. DOMAIN m = {"event", "addr", "ret"} /\ m.event = "unmap" /\ m.addr = addr /\ m.ret = ret
  BY DEF UnmapRecord
<1> HIDE DEF m
<1>2. /\ DOMAIN r = DOMAIN m \cup {"pid", "ts"} /\ r.pid = p /\ r.ts = clock
      /\ \A f \in DOMAIN m : f \notin {"pid", "ts"} => r[f] = m[f]
  <2> HIDE DEF r
  <2> QED
    BY DEF r, Stamped
<1> HIDE DEF r
<1>3. r.event = "unmap" /\ r.addr = addr
  BY <1>1, <1>2
<1>4. clock \in Nat
  BY DEF Types
<1>5. UnmapShape(r)
  BY <1>1, <1>2, <1>3 DEF UnmapShape
<1>6. Shape(r)
  BY <1>1, <1>2, <1>3, <1>4, <1>5 DEF Shape
<1>7. ~MapOk(r)
  BY <1>3 DEF MapOk, IsMap
<1> QED
  BY <1>1, <1>2, <1>3, <1>5, <1>6, <1>7 DEF r, m

\* Which of the four a record is.
LEMMA ShapeIs ==
  ASSUME NEW r, Shape(r)
  PROVE  /\ r.event \in {"map", "map_on_pg", "unmap", "live_at_exit", "summary"}
         /\ r.event \in {"map", "map_on_pg"} <=> IsMap(r)
         /\ IsMap(r) => MapShape(r)
         /\ r.event = "unmap" => UnmapShape(r)
         /\ r.event = "live_at_exit" => LeakShape(r)
         /\ r.event = "summary" => SummaryShape(r)
         /\ IsEvent(r) <=> r.event \in {"map", "map_on_pg", "unmap"}
         /\ Get(r, "pid", NULL) = r.pid /\ Get(r, "ts", NULL) = r.ts
         /\ \A d : Get(r, "ts", d) = r.ts
         /\ r.pid \in Procs /\ r.ts \in Nat
BY DEF Shape, MapShape, UnmapShape, LeakShape, SummaryShape, IsMap, IsEvent, Get

LEMMA MapOkIs ==
  ASSUME NEW r, Shape(r), MapOk(r)
  PROVE  /\ IsMap(r) /\ r.name \in Names /\ r.size \in Asked /\ r.addr \in Nat /\ r.size \in Nat
         /\ r.flags = Flags[r.pid] /\ r.pid \in Procs /\ r.size > 0 /\ r.name # NULL
         /\ {"name", "size", "addr", "flags", "ret"} \subseteq DOMAIN r
<1>1. IsMap(r) /\ MapShape(r) /\ r.pid \in Procs
  BY ShapeIs DEF MapOk
<1>2. Get(r, "ret", 0) = r.ret
  BY <1>1 DEF MapShape, Get
<1>3. r.ret # -1
  BY <1>2 DEF MapOk
<1>4. r.addr \in Nat /\ r.name \in Names /\ r.size \in Asked
  BY <1>1, <1>3 DEF MapShape
<1>5. /\ r.flags = Flags[r.pid]
      /\ {"name", "size", "addr", "flags", "ret"} \subseteq DOMAIN r
  BY <1>1 DEF MapShape
<1>6. r.size \in Nat /\ r.size > 0 /\ r.name # NULL
  <2>1. \A x \in Asked : x \in Nat /\ x > 0
    BY FleetAssumption
  <2>2. r.size \in Nat /\ r.size > 0
    BY <1>4, <2>1
  <2>3. r.name # NULL
    BY <1>4, NullIs
  <2> QED
    BY <2>2, <2>3
<1> QED
  BY <1>1, <1>4, <1>5, <1>6

-----------------------------------------------------------------------------
(* What is written.                                                        *)

LEMMA FileInit == Init => FileInv
<1> SUFFICES ASSUME Init PROVE FileInv
  OBVIOUS
<1>1. file = << >>
  BY DEF Init
<1>2. file \in Seq(Range(file)) /\ DOMAIN file = {}
  BY <1>1
<1> QED
  BY <1>2 DEF FileInv

LEMMA FileFrame ==
  ASSUME Types, FileInv, file' = file, ~stepped' => ~stepped /\ clock' \in Nat /\ clock <= clock'
  PROVE  FileInv' /\ Records' = Records
<1>1. ASSUME NEW n \in DOMAIN file, ~stepped'
      PROVE  file[n].rec.ts <= clock'
  <2>1. file[n].rec.ts <= clock /\ file[n].rec.ts \in Nat
    BY <1>1 DEF FileInv, Shape
  <2> QED
    BY <1>1, <2>1 DEF Types
<1> QED
  BY <1>1 DEF FileInv, Records

LEMMA FileWrites ==
  ASSUME Types, FileInv, NEW p, NEW k \in Nat, NEW lines, DOMAIN lines = 1 .. k, Write(p, lines),
         \A i \in 1 .. k : Shape(Stamped(p, lines[i])), UNCHANGED <<clock, stepped>>
  PROVE  /\ FileInv' /\ Begins(Records, Records')
         /\ Len(file) \in Nat /\ DOMAIN Records = 1 .. Len(file)
         /\ DOMAIN Records' = 1 .. Len(file) + k
         /\ \A i \in 1 .. k : Records'[Len(file) + i] = Stamped(p, lines[i])
<1>1. /\ WholeFile(file) /\ Records = Recs(file, Len(file)) /\ Len(file) \in Nat
      /\ DOMAIN file = 1 .. Len(file) /\ DOMAIN Records = DOMAIN file
      /\ \A n \in DOMAIN file : Records[n] = file[n].rec /\ Shape(Records[n])
  BY RecordsAre
<1>2. /\ WholeFile(file') /\ Len(file') = Len(file) + k
      /\ DOMAIN file' = 1 .. Len(file')
      /\ \A n \in DOMAIN file : file'[n] = file[n]
      /\ \A i \in 1 .. k : file'[Len(file) + i].rec = Stamped(p, lines[i])
  BY <1>1, Written
<1>3. /\ Records' = Recs(file', Len(file')) /\ DOMAIN Records' = DOMAIN file'
      /\ \A n \in DOMAIN file' : Records'[n] = file'[n].rec
  BY <1>2, LoadedIs DEF Records
<1>4. ASSUME NEW n \in DOMAIN file'
      PROVE  \/ n \in DOMAIN file
             \/ n - Len(file) \in 1 .. k /\ n = Len(file) + (n - Len(file))
  BY <1>1, <1>2
<1>5. \A n \in DOMAIN file' : Shape(file'[n].rec) /\ (~stepped' => file'[n].rec.ts <= clock')
  <2> SUFFICES ASSUME NEW n \in DOMAIN file'
               PROVE  Shape(file'[n].rec) /\ (~stepped' => file'[n].rec.ts <= clock')
    OBVIOUS
  <2>1. CASE n \in DOMAIN file
    <3>1. file'[n] = file[n] /\ Shape(file[n].rec) /\ (~stepped => file[n].rec.ts <= clock)
      BY <1>2, <2>1 DEF FileInv
    <3> QED
      BY <3>1
  <2>2. CASE n - Len(file) \in 1 .. k /\ n = Len(file) + (n - Len(file))
    <3> DEFINE i == n - Len(file)
    <3>1. i \in 1 .. k /\ n = Len(file) + i
      BY <2>2
    <3> HIDE DEF i
    <3>2. file'[n].rec = Stamped(p, lines[i]) /\ Shape(Stamped(p, lines[i]))
      BY <1>2, <3>1
    <3>3. Stamped(p, lines[i]).ts = clock
      BY DEF Stamped
    <3> QED
      BY <3>2, <3>3 DEF Types
  <2> QED
    BY <1>4, <2>1, <2>2
<1>6. FileInv'
  BY <1>2, <1>5 DEF FileInv, WholeFile
<1>7. \A n \in DOMAIN Records : n \in DOMAIN Records' /\ Records'[n] = Records[n]
  BY <1>1, <1>2, <1>3
<1>8. \A i \in 1 .. k : Len(file) + i \in DOMAIN file'
  BY <1>1, <1>2
<1>9. Len(file) + k \in Nat
  BY <1>1
<1> QED
  BY <1>1, <1>2, <1>3, <1>6, <1>7, <1>8, <1>9 DEF Begins

\* One record.
LEMMA WritesOne ==
  ASSUME Types, FileInv, NEW p, NEW r, Write(p, <<r>>), Shape(Stamped(p, r)),
         UNCHANGED <<clock, stepped>>
  PROVE  /\ FileInv' /\ Begins(Records, Records') /\ Len(file) \in Nat
         /\ DOMAIN Records = 1 .. Len(file) /\ DOMAIN Records' = 1 .. Len(file) + 1
         /\ Records'[Len(file) + 1] = Stamped(p, r)
<1> DEFINE l == <<r>>
           k == 1
<1>1. DOMAIN l = 1 .. k /\ l[1] = r /\ k \in Nat /\ 1 .. k = {1} /\ k = 1
  OBVIOUS
<1>0. Write(p, l) /\ UNCHANGED <<clock, stepped>>
  OBVIOUS
<1> HIDE DEF l, k
<1>2. \A i \in 1 .. k : Shape(Stamped(p, l[i]))
  BY <1>1
<1>3. /\ FileInv' /\ Begins(Records, Records') /\ Len(file) \in Nat
      /\ DOMAIN Records = 1 .. Len(file) /\ DOMAIN Records' = 1 .. Len(file) + k
  BY <1>0, <1>1, <1>2, FileWrites
<1>4. \A i \in 1 .. k : Records'[Len(file) + i] = Stamped(p, l[i])
  BY <1>0, <1>1, <1>2, FileWrites
<1> QED
  BY <1>1, <1>3, <1>4

\* The lines a process writes as it exits.
LEMMA ExitLinesAre ==
  ASSUME Types, NEW p \in Procs
  PROVE  \E c \in Nat : LET s(i) == Stamped(p, ExitLines(p)[i]) IN
           /\ DOMAIN ExitLines(p) = 1 .. c + 1
           /\ \A i \in 1 .. c + 1 : Shape(s(i)) /\ s(i).pid = p
           /\ \A i \in 1 .. c :
                /\ s(i).event = "live_at_exit"
                /\ \E n \in Listed(p) : /\ s(i).addr = held[p][n].addr
                                        /\ s(i).size = held[p][n].size
                                        /\ s(i).age = clock - held[p][n].since
           /\ s(c + 1).event = "summary"
           /\ s(c + 1).peakCount = peak[p].count /\ s(c + 1).peakBytes = peak[p].bytes
<1> DEFINE c == Cardinality(Listed(p))
           names == SetToSeq(Listed(p))
           Leak(n) == [event |-> "live_at_exit", name |-> n, addr |-> held[p][n].addr,
                       size |-> held[p][n].size, age |-> clock - held[p][n].since]
           sum == [event |-> "summary", peakCount |-> peak[p].count,
                   peakBytes |-> peak[p].bytes]
           a == [k \in DOMAIN names |-> Leak(names[k])]
           s(i) == Stamped(p, ExitLines(p)[i])
<1>1. c \in Nat /\ names \in [1 .. c -> Listed(p)]
  <2>1. c \in Nat
    BY NamesAre
  <2>2. \E f \in Bijection(1 .. c, Listed(p)) : TRUE
    BY NamesAre, FS_CardinalityType DEF ExistsBijection
  <2>3. \E f \in [1 .. c -> Listed(p)] : IsInjective(f)
    BY <2>2 DEF Bijection, Injection, IsInjective
  <2> QED
    BY <2>1, <2>3 DEF SetToSeq
<1>2. ExitLines(p) = a \o <<sum>>
  BY DEF ExitLines
<1> DEFINE X == {Leak(n) : n \in Listed(p)} \cup {sum}
<1>3. a \in Seq(X) /\ Len(a) = c /\ sum \in X /\ \A i \in 1 .. c : a[i] = Leak(names[i])
  <2>1. \A i \in 1 .. c : Leak(names[i]) \in X
    BY <1>1
  <2>2. DOMAIN names = 1 .. c
    BY <1>1
  <2> HIDE DEF X, Leak, sum, names, c
  <2>3. a \in [1 .. c -> X] /\ \A i \in 1 .. c : a[i] = Leak(names[i])
    BY <2>1, <2>2
  <2> HIDE DEF a
  <2> QED
    BY <1>1, <2>3 DEF X
<1> HIDE DEF X, a
<1>4. /\ DOMAIN ExitLines(p) = 1 .. c + 1 /\ ExitLines(p)[c + 1] = sum
      /\ \A i \in 1 .. c : ExitLines(p)[i] = Leak(names[i])
  <2> HIDE DEF Leak, sum, c, names
  <2> QED
    BY <1>1, <1>2, <1>3
<1>5. clock \in Nat /\ peak[p].count \in Nat /\ peak[p].bytes \in Nat
  BY DEF Types
<1>6. /\ Shape(s(c + 1)) /\ s(c + 1).pid = p /\ s(c + 1).event = "summary"
      /\ s(c + 1).peakCount = peak[p].count /\ s(c + 1).peakBytes = peak[p].bytes
  <2> DEFINE z == Stamped(p, sum)
  <2>1. /\ DOMAIN z = DOMAIN sum \cup {"pid", "ts"} /\ z.pid = p /\ z.ts = clock
        /\ \A f \in DOMAIN sum : f \notin {"pid", "ts"} => z[f] = sum[f]
    BY DEF Stamped
  <2>2. /\ DOMAIN sum = {"event", "peakCount", "peakBytes"} /\ sum.event = "summary"
        /\ sum.peakCount = peak[p].count /\ sum.peakBytes = peak[p].bytes
    OBVIOUS
  <2> HIDE DEF sum, z
  <2>3. /\ z.event = "summary" /\ z.peakCount = peak[p].count
        /\ z.peakBytes = peak[p].bytes
    BY <2>1, <2>2
  <2>4. Shape(z)
    BY <1>5, <2>1, <2>2, <2>3 DEF Shape, SummaryShape
  <2> QED
    BY <1>4, <2>1, <2>3, <2>4 DEF z
<1>7. ASSUME NEW i \in 1 .. c
      PROVE  /\ Shape(s(i)) /\ s(i).pid = p /\ s(i).event = "live_at_exit"
             /\ s(i).addr = held[p][names[i]].addr
             /\ s(i).size = held[p][names[i]].size
             /\ s(i).age = clock - held[p][names[i]].since
  <2> DEFINE n == names[i]
             l == Leak(n)
             z == Stamped(p, l)
  <2>1. /\ DOMAIN z = DOMAIN l \cup {"pid", "ts"} /\ z.pid = p /\ z.ts = clock
        /\ \A f \in DOMAIN l : f \notin {"pid", "ts"} => z[f] = l[f]
    BY DEF Stamped
  <2>2. /\ DOMAIN l = {"event", "name", "addr", "size", "age"} /\ l.event = "live_at_exit"
        /\ l.addr = held[p][n].addr /\ l.size = held[p][n].size
        /\ l.age = clock - held[p][n].since
    OBVIOUS
  <2>3. s(i) = z
    BY <1>4
  <2> HIDE DEF l, z, n, s, c
  <2>4. /\ z.event = "live_at_exit" /\ z.addr = held[p][n].addr
        /\ z.size = held[p][n].size /\ z.age = clock - held[p][n].since
    BY <2>1, <2>2
  <2>5. Shape(z)
    BY <1>5, <2>1, <2>2, <2>4 DEF Shape, LeakShape
  <2> QED
    BY <2>1, <2>3, <2>4, <2>5 DEF n
<1>8. \A i \in 1 .. c : names[i] \in Listed(p)
  BY <1>1
<1>9. \A i \in 1 .. c + 1 : i \in 1 .. c \/ i = c + 1
  BY <1>1
<1> HIDE DEF c, names
<1> HIDE DEF s
<1>10. /\ DOMAIN ExitLines(p) = 1 .. c + 1
       /\ \A i \in 1 .. c + 1 : Shape(s(i)) /\ s(i).pid = p
  BY <1>4, <1>6, <1>7, <1>9
<1>11. \A i \in 1 .. c :
         /\ s(i).event = "live_at_exit"
         /\ \E n \in Listed(p) : /\ s(i).addr = held[p][n].addr
                                 /\ s(i).size = held[p][n].size
                                 /\ s(i).age = clock - held[p][n].since
  BY <1>7, <1>8
<1> QED
  BY <1>1, <1>6, <1>10, <1>11 DEF s

LEMMA FileStep == Types /\ FileInv /\ [Next]_vars => FileInv'
<1> SUFFICES ASSUME Types, FileInv, [Next]_vars
             PROVE  FileInv'
  OBVIOUS
<1>0. clock \in Nat
  BY DEF Types
<1>1. ASSUME NEW p \in Procs, NEW n \in Names, NEW size \in Asked, NEW addr \in Nat,
             OnMap(p, n, addr, size), UNCHANGED <<clock, stepped>>
      PROVE  FileInv'
  <2>1. Write(p, <<MapRecord(p, n, addr, size)>>)
    BY <1>1 DEF OnMap, Record
  <2>2. Shape(Stamped(p, MapRecord(p, n, addr, size)))
    BY MapRecordShape
  <2> QED
    BY <1>1, <2>1, <2>2, WritesOne
<1>2. ASSUME NEW p \in Procs, NEW n \in Names, NEW size \in Asked,
             Map(p, n, size) \/ MapAgain(p, n, size)
      PROVE  FileInv'
  <2>1. UNCHANGED <<clock, stepped>>
    BY <1>2 DEF Map, MapAgain
  <2>2. \E addr \in Nat : OnMap(p, n, addr, size)
    BY <1>2, MapIs, MapAgainIs
  <2> QED
    BY <1>1, <2>1, <2>2
<1>3. ASSUME NEW p \in Procs, NEW n \in Names, Unmap(p, n) \/ UnmapRefused(p, n)
      PROVE  FileInv'
  <2>1. UNCHANGED <<clock, stepped>> /\ mapped[p][n].addr \in Nat
    BY <1>3, UnmapIs, RefusedIs DEF Unmap, UnmapRefused
  <2>2. PICK ret \in {0, -1} : OnUnmap(p, n, ret)
    BY <1>3, UnmapIs, RefusedIs
  <2>3. Write(p, <<UnmapRecord(mapped[p][n].addr, ret)>>)
    BY <2>2 DEF OnUnmap, Record
  <2>4. Shape(Stamped(p, UnmapRecord(mapped[p][n].addr, ret)))
    BY <2>1, <2>2, UnmapRecordShape
  <2> QED
    BY <2>1, <2>3, <2>4, WritesOne
<1>4. ASSUME NEW p \in Procs, MapFails(p)
      PROVE  FileInv'
  <2> DEFINE z == [MapRecord(p, NULL, NULL, Max(Asked)) EXCEPT !.ret = -1]
  <2>1. Write(p, <<z>>) /\ UNCHANGED <<clock, stepped>>
    BY <1>4 DEF MapFails, Record
  <2>2. Shape(Stamped(p, z))
    BY MapFailsShape
  <2> HIDE DEF z
  <2> QED
    BY <2>1, <2>2, WritesOne
<1>5. ASSUME NEW p \in Procs, UnmapUnknown(p)
      PROVE  FileInv'
  <2>1. Write(p, <<UnmapRecord(Free(p), -1)>>) /\ UNCHANGED <<clock, stepped>>
    BY <1>5 DEF UnmapUnknown, Record
  <2>2. Shape(Stamped(p, UnmapRecord(Free(p), -1)))
    BY FreeIs, UnmapRecordShape
  <2> QED
    BY <2>1, <2>2, WritesOne
<1>6. ASSUME NEW p \in Procs, Exit(p)
      PROVE  FileInv'
  <2>1. UNCHANGED <<clock, stepped>> /\ (Write(p, ExitLines(p)) \/ file' = file)
    BY <1>6 DEF Exit
  <2>2. CASE Write(p, ExitLines(p))
    <3>1. PICK c \in Nat : /\ DOMAIN ExitLines(p) = 1 .. c + 1
                           /\ \A i \in 1 .. c + 1 : Shape(Stamped(p, ExitLines(p)[i]))
      BY ExitLinesAre
    <3>2. c + 1 \in Nat
      OBVIOUS
    <3> QED
      BY <2>1, <2>2, <3>1, <3>2, FileWrites
  <2>3. CASE file' = file
    BY <1>0, <2>1, <2>3, FileFrame
  <2> QED
    BY <2>1, <2>2, <2>3
<1>7. ASSUME NEW p \in Procs, Kill(p) \/ Start(p) \/ \E n \in Names : KillInMap(p, n)
      PROVE  FileInv'
  <2>1. UNCHANGED <<clock, stepped, file>>
    BY <1>7 DEF Kill, Start, KillInMap
  <2> QED
    BY <1>0, <2>1, FileFrame
<1>8. ASSUME Tick \/ StepBack
      PROVE  FileInv'
  <2>1. file' = file /\ (~stepped' => ~stepped /\ clock' = clock + 1)
    BY <1>8 DEF Tick, StepBack, Types
  <2> QED
    BY <1>0, <2>1, FileFrame
<1>9. CASE UNCHANGED vars
  BY <1>0, <1>9, FileFrame DEF vars
<1> QED
  BY <1>2, <1>3, <1>4, <1>5, <1>6, <1>7, <1>8, <1>9 DEF Next

-----------------------------------------------------------------------------
(* What the profiler has an entry of, and what is mapped.                  *)

LEMMA SizesNone ==
  ASSUME NEW now, \A n \in Names : now[n] = NULL
  PROVE  SizesOf(now) = 0
<1> DEFINE D == {m \in Names : now[m] # NULL}
           f == [n \in D |-> now[n].size]
<1>1. DOMAIN f = {}
  OBVIOUS
<1> HIDE DEF f
<1>2. Total(f) = 0
  BY <1>1, TotalNone
<1> QED
  BY <1>2 DEF SizesOf, f

LEMMA EntriesInit == Init => EntriesInv
<1> SUFFICES ASSUME Init, NEW p \in Procs PROVE EntryInv(p)
  BY DEF EntriesInv
<1>1. /\ \A n \in Names : held[p][n] = NULL /\ mapped[p][n] = NULL
      /\ bytes[p] = 0 /\ inited = {}
  BY DEF Init, Nothing
<1>2. Listed(p) = {} /\ Mapped(p) = {}
  BY <1>1 DEF Listed, Mapped
<1>3. SizesOf(held[p]) = 0
  BY <1>1, SizesNone
<1> QED
  BY <1>1, <1>2, <1>3 DEF EntryInv, Listing, Complete, Apart, Past, Adds

\* A step of others.
LEMMA EntryFrame ==
  ASSUME Types, Types', NEW p \in Procs, EntryInv(p),
         mapped'[p] = mapped[p], held'[p] = held[p], bytes'[p] = bytes[p], odd'[p] = odd[p],
         p \in inited' => last'[p] # NULL, ~stepped' => ~stepped /\ clock <= clock'
  PROVE  EntryInv(p)'
<1>1. Mapped(p)' = Mapped(p) /\ Listed(p)' = Listed(p)
  BY DEF Mapped, Listed
<1>2. SizesOf(held[p])' = SizesOf(held[p])
  BY DEF SizesOf
<1>3. Past(p)'
  <2> SUFFICES ASSUME ~stepped'
               PROVE  /\ \A n \in Listed(p) : mapped[p][n].since <= held[p][n].since
                      /\ \A n \in Mapped(p) : mapped[p][n].since <= clock'
    BY <1>1 DEF Past
  <2>1. /\ \A n \in Listed(p) : mapped[p][n].since <= held[p][n].since
        /\ \A n \in Mapped(p) : mapped[p][n].since <= clock
    BY DEF EntryInv, Past
  <2>2. clock \in Nat /\ clock' \in Nat /\ clock <= clock'
    BY DEF Types
  <2>3. \A n \in Mapped(p) : mapped[p][n].since \in Nat
    BY HasIs, NamesAre
  <2> QED
    BY <2>1, <2>2, <2>3
<1>4. Listing(p)' /\ Complete(p)'
  BY <1>1 DEF EntryInv, Listing, Complete
<1>5. Apart(p)' /\ Adds(p)'
  BY <1>1, <1>2 DEF EntryInv, Apart, Adds
<1> QED
  BY <1>3, <1>4, <1>5 DEF EntryInv

\* What an entry more is to the sizes.
LEMMA OnMapSizes ==
  ASSUME Types, NEW p \in Procs, NEW n \in Names, NEW addr \in Nat, NEW size \in Asked,
         OnMap(p, n, addr, size), EntryInv(p)
  PROVE  /\ SizesOf(held[p])' = SizesOf(held'[p])
         /\ SizesOf(held[p]) \in Nat /\ SizesOf(held'[p]) \in Nat
         /\ n \notin Listed(p) => SizesOf(held'[p]) = SizesOf(held[p]) + size
         /\ SizesOf(held'[p]) <= SizesOf(held[p]) + size
         /\ SizesOf(held'[p]) <= bytes'[p]
         /\ n \notin Listed(p) /\ odd[p] = {} => SizesOf(held'[p]) = bytes'[p]
<1>0. /\ held'[p][n] = EntryOf(addr, size) /\ size \in Nat
      /\ held'[p][n] \in Region /\ \A m \in Names \ {n} : held'[p][m] = held[p][m]
      /\ held' \in [Procs -> [Names -> Region \cup {NULL}]] /\ bytes'[p] = Added(p, size)
  BY OnMapIs
<1>1. /\ \A m \in Names \ {n} : held'[p][m] = held[p][m]
      /\ held' \in [Procs -> [Names -> Region \cup {NULL}]] /\ bytes'[p] = bytes[p] + size
      /\ size \in Nat
  BY <1>0 DEF Added
<1>2. held'[p][n].size = size /\ held'[p][n] # NULL
  BY <1>0, NullIs DEF EntryOf
<1>3. Sized(held[p]) /\ Sized(held'[p])
  BY <1>1, HeldIs DEF Sized
<1>4. /\ n \notin Listed(p) => SizesOf(held'[p]) = SizesOf(held[p]) + size
      /\ n \in Listed(p) => SizesOf(held'[p]) = SizesOf(held[p]) + size - held[p][n].size
  <2>1. /\ held[p][n] = NULL => SizesOf(held'[p]) = SizesOf(held[p]) + held'[p][n].size
        /\ held[p][n] # NULL =>
             SizesOf(held'[p]) = SizesOf(held[p]) + held'[p][n].size - held[p][n].size
    BY <1>1, <1>2, <1>3, SizesPut
  <2> QED
    BY <1>2, <2>1, HeldIs
<1>5. SizesOf(held[p]) \in Nat /\ SizesOf(held'[p]) \in Nat
  BY <1>3, SizesAre
<1>6. n \in Listed(p) => held[p][n].size \in Nat
  BY HeldIs
<1>7. SizesOf(held[p]) <= bytes[p] /\ (odd[p] = {} => SizesOf(held[p]) = bytes[p])
  BY DEF EntryInv, Adds
<1>8. bytes[p] \in Int
  BY DEF Types
<1>9. SizesOf(held[p])' = SizesOf(held'[p])
  BY DEF SizesOf
<1> QED
  BY <1>1, <1>4, <1>5, <1>6, <1>7, <1>8, <1>9

\* ... and one less.
LEMMA OnUnmapSizes ==
  ASSUME Types, NEW p \in Procs, NEW n \in Names, NEW ret, OnUnmap(p, n, ret), EntryInv(p)
  PROVE  /\ SizesOf(held[p])' = SizesOf(held'[p])
         /\ SizesOf(held'[p]) <= bytes'[p]
         /\ odd[p] = {} => SizesOf(held'[p]) = bytes'[p]
<1>1. /\ held'[p][n] = NULL /\ \A m \in Names \ {n} : held'[p][m] = held[p][m]
      /\ held' \in [Procs -> [Names -> Region \cup {NULL}]]
      /\ n \in Listed(p) => bytes'[p] = bytes[p] - held[p][n].size
      /\ n \notin Listed(p) => held' = held /\ bytes' = bytes
  BY OnUnmapIs
<1>2. Sized(held[p]) /\ Sized(held'[p])
  BY <1>1, HeldIs DEF Sized
<1>3. SizesOf(held[p]) \in Nat /\ SizesOf(held'[p]) \in Nat /\ bytes[p] \in Int
  BY <1>2, SizesAre DEF Types
<1>4. SizesOf(held[p]) <= bytes[p] /\ (odd[p] = {} => SizesOf(held[p]) = bytes[p])
  BY DEF EntryInv, Adds
<1>5. SizesOf(held[p])' = SizesOf(held'[p])
  BY DEF SizesOf
<1>6. CASE n \in Listed(p)
  <2>1. held[p][n] # NULL /\ held[p][n].size \in Nat
    BY <1>6, HeldIs
  <2>2. SizesOf(held'[p]) = SizesOf(held[p]) - held[p][n].size
    BY <1>1, <1>2, <2>1, SizesTake
  <2> QED
    BY <1>1, <1>3, <1>4, <1>5, <1>6, <2>1, <2>2
<1>7. CASE n \notin Listed(p)
  BY <1>1, <1>4, <1>5, <1>7
<1> QED
  BY <1>6, <1>7

\* Entries, of what is mapped.
LEMMA ListedIn ==
  ASSUME NEW p, EntryInv(p)
  PROVE  Listed(p) \subseteq Mapped(p) /\ \A n \in Listed(p) : held[p][n].addr = mapped[p][n].addr
BY DEF EntryInv, Listing

LEMMA EntryMap ==
  ASSUME Types, Types', NEW p \in Procs, NEW n \in Names, NEW size \in Asked, Map(p, n, size),
         EntryInv(p)
  PROVE  EntryInv(p)'
<1> DEFINE a == Free(p)
<1>1. /\ n \notin Mapped(p) /\ Mapped(p)' = Mapped(p) \cup {n} /\ a \in Nat
      /\ mapped'[p][n] = [addr |-> a, size |-> size, since |-> clock, refs |-> 1]
      /\ \A m \in Names \ {n} : mapped'[p][m] = mapped[p][m]
      /\ OnMap(p, n, a, size) /\ a \notin Taken(p)
  BY MapIs, FreeIs
<1>2. odd' = odd /\ clock' = clock /\ stepped' = stepped
  BY DEF Map
<1> HIDE DEF a
<1>3. /\ Listed(p)' = Listed(p) \cup {n} /\ last'[p] = clock
      /\ held'[p][n] = [addr |-> a, size |-> size, since |-> clock]
      /\ \A m \in Names \ {n} : held'[p][m] = held[p][m]
  <2>1. OnMap(p, n, a, size) /\ a \in Nat
    BY <1>1
  <2>2. held'[p][n] = EntryOf(a, size)
    BY <2>1, OnMapIs
  <2>3. Listed(p)' = Listed(p) \cup {n} /\ \A m \in Names \ {n} : held'[p][m] = held[p][m]
    BY <2>1, OnMapIs
  <2>4. last'[p] = clock
    BY <2>1, OnMapIs
  <2> QED
    BY <2>2, <2>3, <2>4 DEF EntryOf
<1>4. n \notin Listed(p) /\ Listed(p) \subseteq Names /\ Mapped(p) \subseteq Names
  BY <1>1, ListedIn, NamesAre
<1>5. clock \in Nat /\ last'[p] # NULL
  BY <1>3, NullIs DEF Types
<1>6. \A m \in Mapped(p) : mapped[p][m].addr # a
  BY <1>1 DEF Taken
<1>7. Listing(p)'
  <2> SUFFICES ASSUME NEW m \in Listed(p)'
               PROVE  m \in Mapped(p)' /\ held'[p][m].addr = mapped'[p][m].addr
    BY DEF Listing
  <2>1. CASE m = n
    BY <1>1, <1>3, <2>1
  <2>2. CASE m # n
    BY <1>1, <1>3, <1>4, <2>2, ListedIn
  <2> QED
    BY <2>1, <2>2
<1>8. Complete(p)'
  <2> SUFFICES ASSUME NEW m \in Mapped(p)', m \notin odd'[p]
               PROVE  /\ m \in Listed(p)' /\ mapped'[p][m].refs = 1
                      /\ mapped'[p][m].size = held'[p][m].size
                      /\ mapped'[p][m].since = held'[p][m].since
    BY DEF Complete
  <2>1. CASE m = n
    BY <1>1, <1>3, <2>1
  <2>2. CASE m # n
    BY <1>1, <1>2, <1>3, <1>4, <2>2 DEF EntryInv, Complete
  <2> QED
    BY <2>1, <2>2
<1>9. Apart(p)'
  <2>1. Apart(p)
    BY DEF EntryInv
  <2> QED
    BY <1>1, <1>4, <1>6, <2>1 DEF Apart
<1>10. Past(p)'
  <2> SUFFICES ASSUME ~stepped
               PROVE  /\ \A m \in Listed(p)' : mapped'[p][m].since <= held'[p][m].since
                      /\ \A m \in Mapped(p)' : mapped'[p][m].since <= clock
    BY <1>2 DEF Past
  <2>1. /\ \A m \in Listed(p) : mapped[p][m].since <= held[p][m].since
        /\ \A m \in Mapped(p) : mapped[p][m].since <= clock
    BY DEF EntryInv, Past
  <2>2. mapped'[p][n].since <= held'[p][n].since /\ mapped'[p][n].since <= clock
    BY <1>1, <1>3, <1>5
  <2> QED
    BY <1>1, <1>3, <1>4, <2>1, <2>2
<1>11. /\ SizesOf(held[p])' <= bytes'[p]
       /\ odd'[p] = {} => SizesOf(held[p])' = bytes'[p]
  BY <1>1, <1>2, <1>4, OnMapSizes
<1> QED
  BY <1>5, <1>7, <1>8, <1>9, <1>10, <1>11 DEF EntryInv, Adds

LEMMA EntryMapAgain ==
  ASSUME Types, Types', NEW p \in Procs, NEW n \in Names, NEW size \in Asked,
         MapAgain(p, n, size), EntryInv(p)
  PROVE  EntryInv(p)'
<1> DEFINE a == mapped[p][n].addr
<1>1. /\ n \in Mapped(p) /\ Mapped(p)' = Mapped(p) /\ a \in Nat
      /\ mapped'[p][n].addr = a /\ mapped'[p][n].since = mapped[p][n].since
      /\ \A m \in Names \ {n} : mapped'[p][m] = mapped[p][m]
      /\ OnMap(p, n, a, size) /\ odd'[p] = odd[p] \cup {n} /\ a = mapped[p][n].addr
  BY MapAgainIs
<1>2. clock' = clock /\ stepped' = stepped
  BY DEF MapAgain
<1> HIDE DEF a
<1>3. /\ Listed(p)' = Listed(p) \cup {n} /\ last'[p] = clock
      /\ held'[p][n] = [addr |-> a, size |-> size, since |-> clock]
      /\ \A m \in Names \ {n} : held'[p][m] = held[p][m]
  <2>1. OnMap(p, n, a, size) /\ a \in Nat
    BY <1>1
  <2>2. held'[p][n] = EntryOf(a, size)
    BY <2>1, OnMapIs
  <2>3. Listed(p)' = Listed(p) \cup {n} /\ \A m \in Names \ {n} : held'[p][m] = held[p][m]
    BY <2>1, OnMapIs
  <2>4. last'[p] = clock
    BY <2>1, OnMapIs
  <2> QED
    BY <2>2, <2>3, <2>4 DEF EntryOf
<1>4. Listed(p) \subseteq Mapped(p) /\ Mapped(p) \subseteq Names
  BY ListedIn, NamesAre
<1>5. clock \in Nat /\ last'[p] # NULL
  BY <1>3, NullIs DEF Types
<1>6. \A m \in Mapped(p) : /\ mapped'[p][m].addr = mapped[p][m].addr
                           /\ mapped'[p][m].since = mapped[p][m].since
  BY <1>1, <1>4
<1>7. Listing(p)'
  <2> SUFFICES ASSUME NEW m \in Listed(p)'
               PROVE  m \in Mapped(p)' /\ held'[p][m].addr = mapped'[p][m].addr
    BY DEF Listing
  <2>1. CASE m = n
    BY <1>1, <1>3, <2>1
  <2>2. CASE m # n
    BY <1>1, <1>3, <1>4, <2>2, ListedIn
  <2> QED
    BY <2>1, <2>2
<1>8. Complete(p)'
  <2> SUFFICES ASSUME NEW m \in Mapped(p)', m \notin odd'[p]
               PROVE  /\ m \in Listed(p)' /\ mapped'[p][m].refs = 1
                      /\ mapped'[p][m].size = held'[p][m].size
                      /\ mapped'[p][m].since = held'[p][m].since
    BY DEF Complete
  <2>1. m # n /\ m \notin odd[p] /\ m \in Mapped(p)
    BY <1>1
  <2> QED
    BY <1>1, <1>3, <1>4, <2>1 DEF EntryInv, Complete
<1>9. Apart(p)'
  <2>1. Apart(p)
    BY DEF EntryInv
  <2> QED
    BY <1>1, <1>6, <2>1 DEF Apart
<1>10. Past(p)'
  <2> SUFFICES ASSUME ~stepped
               PROVE  /\ \A m \in Listed(p)' : mapped'[p][m].since <= held'[p][m].since
                      /\ \A m \in Mapped(p)' : mapped'[p][m].since <= clock
    BY <1>2 DEF Past
  <2>1. /\ \A m \in Listed(p) : mapped[p][m].since <= held[p][m].since
        /\ \A m \in Mapped(p) : mapped[p][m].since <= clock
    BY DEF EntryInv, Past
  <2>2. mapped'[p][n].since <= held'[p][n].since
    BY <1>1, <1>3, <2>1
  <2> QED
    BY <1>1, <1>3, <1>4, <1>6, <2>1, <2>2
<1>11. SizesOf(held[p])' <= bytes'[p] /\ odd'[p] # {}
  BY <1>1, OnMapSizes
<1> QED
  BY <1>5, <1>7, <1>8, <1>9, <1>10, <1>11 DEF EntryInv, Adds

\* An unmap: the reference of a name that is not odd was the only one.
LEMMA EntryUnmap ==
  ASSUME Types, Types', NEW p \in Procs, NEW n \in Names,
         Unmap(p, n) \/ UnmapRefused(p, n), EntryInv(p)
  PROVE  EntryInv(p)'
<1>1. PICK ret : OnUnmap(p, n, ret)
  BY UnmapIs, RefusedIs
<1>2. clock' = clock /\ stepped' = stepped
  BY DEF Unmap, UnmapRefused
<1>3. /\ Listed(p)' = Listed(p) \ {n} /\ last'[p] = clock
      /\ \A m \in Names \ {n} : held'[p][m] = held[p][m]
  BY <1>1, OnUnmapIs
<1>4. Listed(p) \subseteq Mapped(p) /\ Mapped(p) \subseteq Names
  BY ListedIn, NamesAre
<1>5. clock \in Nat /\ last'[p] # NULL
  BY <1>3, NullIs DEF Types
<1>6. /\ Mapped(p)' \subseteq Mapped(p) /\ Mapped(p) \subseteq Mapped(p)' \cup {n}
      /\ \A m \in Names \ {n} : mapped'[p][m] = mapped[p][m]
      /\ n \in Mapped(p)' => /\ mapped'[p][n].addr = mapped[p][n].addr
                             /\ mapped'[p][n].since = mapped[p][n].since
  <2>1. CASE Unmap(p, n)
    BY <2>1, UnmapIs
  <2>2. CASE UnmapRefused(p, n)
    BY <2>2, RefusedIs
  <2> QED
    BY <2>1, <2>2
<1>7. odd[p] \subseteq odd'[p] /\ (n \in Mapped(p)' => n \in odd'[p])
  <2>1. CASE Unmap(p, n)
    <3>1. odd' = odd /\ n \in Mapped(p) /\ (mapped[p][n].refs = 1 => n \notin Mapped(p)')
      BY <2>1, UnmapIs DEF Unmap
    <3>2. n \notin odd[p] => mapped[p][n].refs = 1
      BY <3>1 DEF EntryInv, Complete
    <3> QED
      BY <3>1, <3>2
  <2>2. CASE UnmapRefused(p, n)
    BY <2>2, RefusedIs
  <2> QED
    BY <2>1, <2>2
<1>8. Listing(p)'
  <2> SUFFICES ASSUME NEW m \in Listed(p)'
               PROVE  m \in Mapped(p)' /\ held'[p][m].addr = mapped'[p][m].addr
    BY DEF Listing
  <2>1. m # n /\ m \in Listed(p) /\ m \in Mapped(p) /\ m \in Mapped(p)' /\ m \in Names
    BY <1>3, <1>4, <1>6
  <2> QED
    BY <1>3, <1>6, <2>1, ListedIn
<1>9. Complete(p)'
  <2> SUFFICES ASSUME NEW m \in Mapped(p)', m \notin odd'[p]
               PROVE  /\ m \in Listed(p)' /\ mapped'[p][m].refs = 1
                      /\ mapped'[p][m].size = held'[p][m].size
                      /\ mapped'[p][m].since = held'[p][m].since
    BY DEF Complete
  <2>1. m # n /\ m \notin odd[p] /\ m \in Mapped(p) /\ m \in Names
    BY <1>4, <1>6, <1>7
  <2> QED
    BY <1>3, <1>6, <2>1 DEF EntryInv, Complete
<1>10. \A m \in Mapped(p)' : /\ m \in Mapped(p) /\ mapped'[p][m].addr = mapped[p][m].addr
                             /\ mapped'[p][m].since = mapped[p][m].since
  BY <1>4, <1>6
<1>11. Apart(p)'
  <2>1. Apart(p)
    BY DEF EntryInv
  <2> QED
    BY <1>10, <2>1 DEF Apart
<1>12. Past(p)'
  <2> SUFFICES ASSUME ~stepped
               PROVE  /\ \A m \in Listed(p)' : mapped'[p][m].since <= held'[p][m].since
                      /\ \A m \in Mapped(p)' : mapped'[p][m].since <= clock
    BY <1>2 DEF Past
  <2>1. /\ \A m \in Listed(p) : mapped[p][m].since <= held[p][m].since
        /\ \A m \in Mapped(p) : mapped[p][m].since <= clock
    BY DEF EntryInv, Past
  <2>2. \A m \in Listed(p)' : m # n /\ m \in Listed(p) /\ m \in Names
    BY <1>3, <1>4
  <2> QED
    BY <1>3, <1>6, <1>10, <2>1, <2>2
<1>13. /\ SizesOf(held[p])' <= bytes'[p]
       /\ odd'[p] = {} => SizesOf(held[p])' = bytes'[p]
  BY <1>1, <1>7, OnUnmapSizes
<1> QED
  BY <1>5, <1>8, <1>9, <1>11, <1>12, <1>13 DEF EntryInv, Adds

LEMMA EntriesStep == Types /\ EntriesInv /\ [Next]_vars => EntriesInv'
<1> SUFFICES ASSUME Types, EntriesInv, [Next]_vars, NEW q \in Procs PROVE EntryInv(q)'
  BY DEF EntriesInv
<1>0. Types' /\ EntryInv(q) /\ clock \in Nat
  BY TypesStep DEF EntriesInv, Types
<1>1. ASSUME NEW p \in Procs, NEW n \in Names, NEW size \in Asked, Map(p, n, size)
      PROVE  EntryInv(q)'
  <2>1. CASE q = p
    BY <1>0, <1>1, <2>1, EntryMap
  <2>2. CASE q # p
    <3> DEFINE a == Free(p)
    <3>1. OnMap(p, n, a, size) /\ a \in Nat /\ mapped'[q] = mapped[q]
      BY <1>1, <2>2, MapIs
    <3>2. odd' = odd /\ clock' = clock /\ stepped' = stepped
      BY <1>1 DEF Map
    <3> HIDE DEF a
    <3>3. /\ held'[q] = held[q] /\ bytes'[q] = bytes[q] /\ last'[q] = last[q]
          /\ inited' = inited \cup {p}
      BY <2>2, <3>1, OnMapIs
    <3>4. q \in inited' => last'[q] # NULL
      BY <1>0, <2>2, <3>3 DEF EntryInv
    <3> QED
      BY <1>0, <3>1, <3>2, <3>3, <3>4, EntryFrame
  <2> QED
    BY <2>1, <2>2
<1>2. ASSUME NEW p \in Procs, NEW n \in Names, NEW size \in Asked, MapAgain(p, n, size)
      PROVE  EntryInv(q)'
  <2>1. CASE q = p
    BY <1>0, <1>2, <2>1, EntryMapAgain
  <2>2. CASE q # p
    <3> DEFINE a == mapped[p][n].addr
    <3>1. /\ OnMap(p, n, a, size) /\ a \in Nat /\ mapped'[q] = mapped[q] /\ odd'[q] = odd[q]
      BY <1>2, <2>2, MapAgainIs
    <3>2. clock' = clock /\ stepped' = stepped
      BY <1>2 DEF MapAgain
    <3> HIDE DEF a
    <3>3. /\ held'[q] = held[q] /\ bytes'[q] = bytes[q] /\ last'[q] = last[q]
          /\ inited' = inited \cup {p}
      BY <2>2, <3>1, OnMapIs
    <3>4. q \in inited' => last'[q] # NULL
      BY <1>0, <2>2, <3>3 DEF EntryInv
    <3> QED
      BY <1>0, <3>1, <3>2, <3>3, <3>4, EntryFrame
  <2> QED
    BY <2>1, <2>2
<1>3. ASSUME NEW p \in Procs, NEW n \in Names, Unmap(p, n) \/ UnmapRefused(p, n)
      PROVE  EntryInv(q)'
  <2>1. CASE q = p
    BY <1>0, <1>3, <2>1, EntryUnmap
  <2>2. CASE q # p
    <3>1. /\ mapped'[q] = mapped[q] /\ odd'[q] = odd[q] /\ clock' = clock /\ stepped' = stepped
          /\ \E ret : OnUnmap(p, n, ret)
      <4>1. CASE Unmap(p, n)
        BY <2>2, <4>1, UnmapIs DEF Unmap
      <4>2. CASE UnmapRefused(p, n)
        BY <2>2, <4>2, RefusedIs DEF UnmapRefused
      <4> QED
        BY <1>3, <4>1, <4>2
    <3>2. /\ held'[q] = held[q] /\ bytes'[q] = bytes[q] /\ last'[q] = last[q]
          /\ inited' = inited \cup {p}
      BY <2>2, <3>1, OnUnmapIs
    <3>3. q \in inited' => last'[q] # NULL
      BY <1>0, <2>2, <3>2 DEF EntryInv
    <3> QED
      BY <1>0, <3>1, <3>2, <3>3, EntryFrame
  <2> QED
    BY <2>1, <2>2
<1>4. ASSUME NEW p \in Procs, MapFails(p) \/ UnmapUnknown(p)
      PROVE  EntryInv(q)'
  <2>1. /\ UNCHANGED <<mapped, held, bytes, odd, clock, stepped>>
        /\ last' = [last EXCEPT ![p] = clock] /\ inited' = inited \cup {p}
    BY <1>4 DEF MapFails, UnmapUnknown, Record, osVars
  <2>2. last'[q] = (IF q = p THEN clock ELSE last[q]) /\ clock # NULL
    BY <2>1, NullIs DEF Types
  <2>3. q \in inited' => last'[q] # NULL
    BY <1>0, <2>1, <2>2 DEF EntryInv
  <2> QED
    BY <1>0, <2>1, <2>3, EntryFrame
<1>5. ASSUME NEW p \in Procs, Start(p)
      PROVE  EntryInv(q)'
  <2>1. CASE q = p
    <3>1. /\ mapped'[p] = Nothing /\ held'[p] = Nothing /\ bytes'[p] = 0 /\ p \notin inited'
      BY <1>5 DEF Start, Types
    <3>2. Mapped(p)' = {} /\ Listed(p)' = {}
      BY <3>1 DEF Mapped, Listed, Nothing
    <3>3. SizesOf(held[p])' = 0
      <4>1. \A n \in Names : held'[p][n] = NULL
        BY <3>1 DEF Nothing
      <4>2. SizesOf(held[p])' = SizesOf(held'[p])
        BY DEF SizesOf
      <4> QED
        BY <4>1, <4>2, SizesNone
    <3> QED
      BY <2>1, <3>1, <3>2, <3>3 DEF EntryInv, Listing, Complete, Apart, Past, Adds
  <2>2. CASE q # p
    <3>1. /\ mapped'[q] = mapped[q] /\ held'[q] = held[q] /\ bytes'[q] = bytes[q]
          /\ UNCHANGED <<odd, last, clock, stepped>> /\ inited' = inited \ {p}
      BY <1>5, <2>2 DEF Start, history, Types
    <3> QED
      BY <1>0, <3>1, EntryFrame DEF EntryInv
  <2> QED
    BY <2>1, <2>2
<1>6. ASSUME UNCHANGED <<mapped, profiler, odd, last>>, ~stepped' => ~stepped /\ clock <= clock'
      PROVE  EntryInv(q)'
  BY <1>0, <1>6, EntryFrame DEF profiler, EntryInv
<1>7. ASSUME NEW p \in Procs, Exit(p) \/ Kill(p) \/ \E n \in Names : KillInMap(p, n)
      PROVE  EntryInv(q)'
  <2>1. UNCHANGED <<mapped, profiler, odd, last, clock, stepped>>
    BY <1>7 DEF Exit, Kill, KillInMap, Ends, history
  <2> QED
    BY <1>0, <1>6, <2>1
<1>8. CASE Tick \/ StepBack \/ UNCHANGED vars
  <2>1. UNCHANGED <<mapped, profiler, odd, last>>
    BY <1>8 DEF Tick, StepBack, vars, osVars, history
  <2>2. ~stepped' => ~stepped /\ clock <= clock'
    BY <1>0, <1>8 DEF Tick, StepBack, vars
  <2> QED
    BY <1>6, <2>1, <2>2
<1> QED
  BY <1>1, <1>2, <1>3, <1>4, <1>5, <1>7, <1>8 DEF Next

-----------------------------------------------------------------------------
(* The distinct regions.                                                   *)

AtName(R, name) == {n \in Named(R) : R[n].name = name}
SizesAt(R, name) == {R[n].size : n \in AtName(R, name)}
NamesIn(R) == {R[n].name : n \in Named(R)}

LEMMA RegionsAre ==
  ASSUME NEW R
  PROVE  /\ DOMAIN Regions(R) = NamesIn(R)
         /\ \A name \in NamesIn(R) : Regions(R)[name].size = Max(SizesAt(R, name))
BY DEF Regions, AtName, SizesAt, NamesIn

\* The maps that succeeded have names and sizes, and are not without end.
MapsTell(R) ==
  /\ IsFiniteSet(OkMaps(R)) /\ OkMaps(R) \subseteq DOMAIN R
  /\ \A n \in OkMaps(R) : /\ R[n].size \in Nat /\ R[n].name \in Names
                          /\ Get(R[n], "name", NULL) = R[n].name

LEMMA NamedAre ==
  ASSUME NEW R, MapsTell(R)
  PROVE  Named(R) = OkMaps(R) /\ NamesIn(R) \subseteq Names /\ IsFiniteSet(NamesIn(R))
<1>1. \A n \in OkMaps(R) : Get(R[n], "name", NULL) # NULL
  BY NullIs DEF MapsTell
<1>2. Named(R) = OkMaps(R)
  BY <1>1 DEF Named
<1>3. NamesIn(R) \subseteq Names
  BY <1>2 DEF NamesIn, MapsTell
<1> QED
  BY <1>2, <1>3, FS_Subset, FleetAssumption

LEMMA FiniteImage ==
  ASSUME NEW f, IsFiniteSet(DOMAIN f)
  PROVE  IsFiniteSet({f[x] : x \in DOMAIN f})
<1> DEFINE T == {f[x] : x \in DOMAIN f}
           g == [x \in DOMAIN f |-> f[x]]
<1>1. g \in Surjection(DOMAIN f, T)
  BY DEF Surjection
<1> QED
  BY <1>1, FS_Surjection

LEMMA SizesAtAre ==
  ASSUME NEW R, MapsTell(R), NEW name
  PROVE  /\ IsFiniteSet(SizesAt(R, name)) /\ SizesAt(R, name) \subseteq Nat
         /\ name \in NamesIn(R) => SizesAt(R, name) # {}
<1> DEFINE f == [n \in AtName(R, name) |-> R[n].size]
<1>1. AtName(R, name) \subseteq OkMaps(R)
  BY NamedAre DEF AtName
<1>2. IsFiniteSet(DOMAIN f)
  <2>1. IsFiniteSet(AtName(R, name))
    BY <1>1, FS_Subset DEF MapsTell
  <2> QED
    BY <2>1
<1>3. SizesAt(R, name) = {f[n] : n \in DOMAIN f}
  BY DEF SizesAt
<1> HIDE DEF f
<1>4. IsFiniteSet(SizesAt(R, name))
  BY <1>2, <1>3, FiniteImage
<1>5. SizesAt(R, name) \subseteq Nat
  BY <1>1 DEF SizesAt, MapsTell
<1>6. name \in NamesIn(R) => SizesAt(R, name) # {}
  BY DEF NamesIn, SizesAt, AtName
<1> QED
  BY <1>4, <1>5, <1>6

LEMMA RegionSize ==
  ASSUME NEW R, MapsTell(R), NEW name \in NamesIn(R)
  PROVE  Regions(R)[name].size \in Nat
<1>1. Max(SizesAt(R, name)) \in SizesAt(R, name)
  <2>1. /\ IsFiniteSet(SizesAt(R, name)) /\ SizesAt(R, name) \subseteq Int
        /\ SizesAt(R, name) # {}
    BY SizesAtAre
  <2> QED
    BY <2>1, MaxOf
<1> QED
  BY <1>1, SizesAtAre, RegionsAre

\* The sizes as they are or as the OS rounds them.
Weight(c, size) == IF c THEN RoundUp(size) ELSE size

LEMMA WeightIs ==
  ASSUME NEW c \in BOOLEAN
  PROVE  /\ Weight(c, 0) = 0
         /\ \A a \in Nat : Weight(c, a) \in Nat
         /\ \A a, b \in Nat : a <= b => Weight(c, a) <= Weight(c, b)
BY Rounding DEF Weight

DistinctOf(c, R) == Total([name \in DOMAIN Regions(R) |-> Weight(c, Regions(R)[name].size)])
AllOf(c, R) == Total([n \in OkMaps(R) |-> Weight(c, R[n].size)])

LEMMA WeightsAre ==
  ASSUME NEW R, MapsTell(R)
  PROVE  /\ DistinctOf(FALSE, R) = DistinctBytes(R) /\ DistinctOf(TRUE, R) = DistinctCost(R)
         /\ AllOf(FALSE, R) = Requested(R) /\ AllOf(TRUE, R) = OsCost(R)
BY DEF DistinctOf, AllOf, Weight, DistinctBytes, DistinctCost, Requested, OsCost, Sizes

LEMMA WeightTypes ==
  ASSUME NEW R, MapsTell(R), NEW c \in BOOLEAN
  PROVE  DistinctOf(c, R) \in Nat /\ AllOf(c, R) \in Nat
<1> DEFINE f == [name \in DOMAIN Regions(R) |-> Weight(c, Regions(R)[name].size)]
           g == [n \in OkMaps(R) |-> Weight(c, R[n].size)]
<1>1. DOMAIN f = NamesIn(R) /\ \A name \in NamesIn(R) : f[name] \in Nat
  <2>1. DOMAIN f = NamesIn(R)
    BY RegionsAre
  <2>2. ASSUME NEW name \in NamesIn(R)
        PROVE  f[name] \in Nat
    <3>1. Regions(R)[name].size \in Nat /\ f[name] = Weight(c, Regions(R)[name].size)
      BY <2>1, RegionSize
    <3> HIDE DEF f
    <3> QED
      BY <3>1, WeightIs
  <2> QED
    BY <2>1, <2>2
<1>2. DOMAIN g = OkMaps(R) /\ \A n \in OkMaps(R) : g[n] \in Nat
  BY WeightIs DEF MapsTell
<1>3. IsFiniteSet(NamesIn(R)) /\ IsFiniteSet(OkMaps(R))
  BY NamedAre DEF MapsTell
<1> HIDE DEF f, g
<1>4. Total(f) \in Nat /\ Total(g) \in Nat
  BY <1>1, <1>2, <1>3, TotalNat
<1> QED
  BY <1>4 DEF f, g, DistinctOf, AllOf

\* The same maps make the same figures.
LEMMA SameMaps ==
  ASSUME NEW R, NEW Q, OkMaps(Q) = OkMaps(R), \A n \in OkMaps(R) : Q[n] = R[n]
  PROVE  /\ Regions(Q) = Regions(R)
         /\ DistinctBytes(Q) = DistinctBytes(R) /\ DistinctCost(Q) = DistinctCost(R)
         /\ Requested(Q) = Requested(R) /\ OsCost(Q) = OsCost(R)
<1>1. Named(Q) = Named(R) /\ Named(R) \subseteq OkMaps(R)
  BY DEF Named
<1>2. \A name : AtName(Q, name) = AtName(R, name) /\ AtName(R, name) \subseteq OkMaps(R)
  BY <1>1 DEF AtName
<1>3. \A name : SizesAt(Q, name) = SizesAt(R, name)
  BY <1>2 DEF SizesAt
<1>4. NamesIn(Q) = NamesIn(R)
  BY <1>1 DEF NamesIn
<1>5. \A S : Regions(S) = [name \in NamesIn(S) |->
                              [size |-> Max(SizesAt(S, name)), maps |-> Cardinality(AtName(S, name))]]
  BY DEF Regions, NamesIn, SizesAt, AtName
<1>6. Regions(Q) = Regions(R)
  BY <1>2, <1>3, <1>4, <1>5
<1>7. Sizes(Q) = Sizes(R)
  BY DEF Sizes
<1>8. OsCost(Q) = OsCost(R)
  <2>1. [n \in OkMaps(Q) |-> RoundUp(Q[n].size)] = [n \in OkMaps(R) |-> RoundUp(R[n].size)]
    OBVIOUS
  <2> QED
    BY <2>1 DEF OsCost
<1> QED
  BY <1>6, <1>7, <1>8 DEF DistinctBytes, DistinctCost, Requested

LEMMA MaxMore ==
  ASSUME NEW u, IsFiniteSet(u), u \subseteq Nat, NEW s \in Nat
  PROVE  Max(u \cup {s}) = IF u = {} THEN s ELSE Larger(Max(u), s)
<1> DEFINE v == u \cup {s}
           m == Max(v)
           k == Max(u)
<1>1. IsFiniteSet(v) /\ v \subseteq Int /\ v # {}
  BY FS_AddElement
<1>2. m \in v /\ \A x \in v : x <= m
  <2> HIDE DEF v
  <2> QED
    BY <1>1, MaxOf
<1>3. CASE u = {}
  BY <1>2, <1>3
<1>4. CASE u # {}
  <2>1. k \in u /\ \A x \in u : x <= k
    <3>1. u \subseteq Int
      OBVIOUS
    <3> QED
      BY <1>4, <3>1, MaxOf
  <2>2. k \in Nat /\ m \in Nat /\ k <= m /\ s <= m
    BY <1>2, <2>1
  <2>3. m = s \/ m <= k
    BY <1>2, <2>1
  <2> HIDE DEF m, k
  <2>4. m = Larger(k, s)
    BY <2>2, <2>3 DEF Larger
  <2> QED
    BY <1>4, <2>4 DEF m, k
<1> QED
  BY <1>3, <1>4

\* One more map, of a region of some name.
OneMap(R, Q, m, name, size) ==
  /\ m \notin OkMaps(R) /\ OkMaps(Q) = OkMaps(R) \cup {m}
  /\ \A n \in OkMaps(R) : Q[n] = R[n]
  /\ Q[m].name = name /\ Q[m].size = size

LEMMA RegionsMore ==
  ASSUME NEW R, MapsTell(R), NEW Q, MapsTell(Q), NEW m, NEW name, NEW size \in Nat,
         OneMap(R, Q, m, name, size)
  PROVE  /\ NamesIn(Q) = NamesIn(R) \cup {name}
         /\ \A x \in NamesIn(R) \ {name} : Regions(Q)[x].size = Regions(R)[x].size
         /\ Regions(Q)[name].size = IF name \in NamesIn(R)
                                    THEN Larger(Regions(R)[name].size, size) ELSE size
<1>1. Named(R) = OkMaps(R) /\ Named(Q) = OkMaps(R) \cup {m} /\ m \notin OkMaps(R)
  BY NamedAre DEF OneMap
<1>2. /\ \A n \in OkMaps(R) : Q[n] = R[n]
      /\ Q[m].name = name /\ Q[m].size = size
  BY DEF OneMap
<1>3. NamesIn(Q) = NamesIn(R) \cup {name}
  BY <1>1, <1>2 DEF NamesIn
<1>4. AtName(Q, name) = AtName(R, name) \cup {m} /\ AtName(R, name) \subseteq OkMaps(R)
  BY <1>1, <1>2 DEF AtName
<1>5. SizesAt(Q, name) = SizesAt(R, name) \cup {size}
  BY <1>2, <1>4 DEF SizesAt
<1>6. \A x \in NamesIn(R) \ {name} : Regions(Q)[x].size = Regions(R)[x].size
  <2> SUFFICES ASSUME NEW x \in NamesIn(R) \ {name}
               PROVE  Regions(Q)[x].size = Regions(R)[x].size
    OBVIOUS
  <2>1. AtName(Q, x) = AtName(R, x) /\ AtName(R, x) \subseteq OkMaps(R)
    BY <1>1, <1>2 DEF AtName
  <2>2. SizesAt(Q, x) = SizesAt(R, x)
    BY <1>2, <2>1 DEF SizesAt
  <2> QED
    BY <1>3, <2>2, RegionsAre
<1>7. Regions(Q)[name].size = Max(SizesAt(R, name) \cup {size})
  BY <1>3, <1>5, RegionsAre
<1>8. SizesAt(R, name) = {} <=> name \notin NamesIn(R)
  BY DEF SizesAt, NamesIn, AtName
<1>9. name \in NamesIn(R) => Regions(R)[name].size = Max(SizesAt(R, name))
  BY RegionsAre
<1>10. Max(SizesAt(R, name) \cup {size}) =
         IF SizesAt(R, name) = {} THEN size ELSE Larger(Max(SizesAt(R, name)), size)
  BY SizesAtAre, MaxMore
<1> QED
  BY <1>3, <1>6, <1>7, <1>8, <1>9, <1>10

LEMMA DistinctMore ==
  ASSUME NEW R, MapsTell(R), NEW Q, MapsTell(Q), NEW m, NEW name, NEW size \in Nat,
         OneMap(R, Q, m, name, size), NEW c \in BOOLEAN
  PROVE  /\ AllOf(c, Q) = AllOf(c, R) + Weight(c, size)
         /\ DistinctOf(c, R) <= DistinctOf(c, Q)
         /\ DistinctOf(c, Q) <= DistinctOf(c, R) + Weight(c, size)
<1> DEFINE f == [x \in DOMAIN Regions(R) |-> Weight(c, Regions(R)[x].size)]
           g == [x \in DOMAIN Regions(Q) |-> Weight(c, Regions(Q)[x].size)]
           h == [n \in OkMaps(R) |-> Weight(c, R[n].size)]
           k == [n \in OkMaps(Q) |-> Weight(c, Q[n].size)]
           w == Weight(c, size)
<1>0. w \in Nat
  BY WeightIs
<1>1. Total(k) = Total(h) + w
  <2>1. DOMAIN h = OkMaps(R) /\ DOMAIN k = OkMaps(R) \cup {m} /\ k[m] = w
    BY DEF OneMap
  <2>2. \A n \in OkMaps(R) : h[n] \in Int /\ k[n] = h[n]
    BY WeightIs DEF OneMap, MapsTell
  <2>3. m \notin OkMaps(R) /\ IsFiniteSet(OkMaps(R))
    BY DEF OneMap, MapsTell
  <2> HIDE DEF h, k, w
  <2>4. m \in DOMAIN k /\ k[m] \in Int
    BY <1>0, <2>1
  <2> QED
    BY <2>1, <2>2, <2>3, <2>4, TotalPut
<1>2. /\ DOMAIN f = NamesIn(R) /\ DOMAIN g = NamesIn(R) \cup {name} /\ IsFiniteSet(NamesIn(R))
      /\ \A x \in NamesIn(R) : f[x] = Weight(c, Regions(R)[x].size) /\ f[x] \in Nat
      /\ \A x \in NamesIn(R) \ {name} : g[x] = f[x]
      /\ g[name] = Weight(c, Regions(Q)[name].size)
  <2>1. DOMAIN f = NamesIn(R) /\ DOMAIN g = NamesIn(R) \cup {name} /\ IsFiniteSet(NamesIn(R))
    <3>1. DOMAIN f = NamesIn(R) /\ DOMAIN g = NamesIn(Q)
      BY RegionsAre
    <3>2. NamesIn(Q) = NamesIn(R) \cup {name}
      BY RegionsMore
    <3> HIDE DEF f, g
    <3> QED
      BY <3>1, <3>2, NamedAre
  <2>2. \A x \in NamesIn(R) : f[x] = Weight(c, Regions(R)[x].size) /\ f[x] \in Nat
    BY <2>1, RegionSize, WeightIs
  <2>3. \A x \in NamesIn(R) \ {name} : g[x] = f[x]
    BY <2>1, RegionsMore
  <2>4. g[name] = Weight(c, Regions(Q)[name].size)
    BY <2>1
  <2> HIDE DEF f, g
  <2> QED
    BY <2>1, <2>2, <2>3, <2>4
<1> HIDE DEF f, g
<1>3. CASE name \notin NamesIn(R)
  <2>1. g[name] = w
    BY <1>2, <1>3, RegionsMore
  <2>2. Total(g) = Total(f) + w /\ Total(f) \in Int
    <3>1. name \in DOMAIN g /\ g[name] \in Int /\ \A x \in DOMAIN f \ {name} : g[x] = f[x]
      BY <1>0, <1>2, <2>1
    <3>2. \A x \in DOMAIN f : f[x] \in Int
      BY <1>2
    <3> HIDE DEF w
    <3> QED
      BY <1>2, <1>3, <2>1, <3>1, <3>2, TotalPut
  <2> HIDE DEF w, h, k
  <2> QED
    BY <1>0, <1>1, <2>2 DEF w, h, k, f, g, DistinctOf, AllOf
<1>4. CASE name \in NamesIn(R)
  <2> DEFINE a == Regions(R)[name].size
  <2>1. a \in Nat /\ Regions(Q)[name].size = Larger(a, size)
    BY <1>4, RegionSize, RegionsMore
  <2> HIDE DEF a
  <2>2. /\ f[name] = Weight(c, a) /\ g[name] = Weight(c, Larger(a, size))
        /\ f[name] \in Nat
    BY <1>2, <1>4, <2>1 DEF a
  <2>3. f[name] <= g[name] /\ g[name] <= f[name] + w /\ g[name] \in Nat
    <3>1. Larger(a, size) \in Nat /\ a <= Larger(a, size) /\ Larger(a, size) \in {a, size}
      BY <2>1 DEF Larger
    <3>2. f[name] <= g[name] /\ g[name] \in Nat
      BY <2>1, <2>2, <3>1, WeightIs
    <3>3. g[name] = f[name] \/ g[name] = w
      BY <2>2, <3>1
    <3> HIDE DEF w
    <3> QED
      BY <1>0, <2>2, <3>2, <3>3
  <2>4. Total(g) = Total(f) + g[name] - f[name] /\ Total(f) \in Int
    <3>1. name \in DOMAIN g /\ g[name] \in Int /\ \A x \in DOMAIN f \ {name} : g[x] = f[x]
      BY <1>2, <2>3
    <3>2. \A x \in DOMAIN f : f[x] \in Int
      BY <1>2
    <3> QED
      BY <1>2, <1>4, <3>1, <3>2, TotalPut
  <2> HIDE DEF w, h, k
  <2>5. Total(f) <= Total(g) /\ Total(g) <= Total(f) + w
    BY <1>0, <2>2, <2>3, <2>4
  <2> QED
    BY <1>1, <2>5 DEF w, h, k, f, g, DistinctOf, AllOf
<1> QED
  BY <1>3, <1>4

\* The maps of a file.
LEMMA RecordsTell == FileInv => MapsTell(Records)
<1> SUFFICES ASSUME FileInv PROVE MapsTell(Records)
  OBVIOUS
<1>1. /\ DOMAIN Records = 1 .. Len(file) /\ Len(file) \in Nat
      /\ \A n \in DOMAIN Records : Shape(Records[n])
  BY RecordsAre
<1>2. IsFiniteSet(OkMaps(Records)) /\ OkMaps(Records) \subseteq DOMAIN Records
  <2>1. OkMaps(Records) \subseteq 1 .. Len(file)
    BY <1>1 DEF OkMaps
  <2>2. IsFiniteSet(1 .. Len(file))
    BY <1>1, FS_Interval
  <2> QED
    BY <1>1, <2>1, <2>2, FS_Subset
<1>3. \A n \in OkMaps(Records) : Shape(Records[n]) /\ MapOk(Records[n])
  BY <1>1 DEF OkMaps
<1>4. ASSUME NEW n \in OkMaps(Records)
      PROVE  /\ Records[n].size \in Nat /\ Records[n].name \in Names
             /\ Get(Records[n], "name", NULL) = Records[n].name
  BY <1>3, MapOkIs DEF Get
<1> QED
  BY <1>2, <1>4 DEF MapsTell

\* What the OS holds, by size or by cost.
OsHolds(c) == Total([n \in Names |-> Weight(c, region[n])])
OsMost(c) == IF c THEN most.cost ELSE most.os

LEMMA OsHoldsIs ==
  ASSUME region' \in [Names -> Nat]
  PROVE  /\ OsHolds(FALSE)' = Total(region')
         /\ OsHolds(TRUE)' = Total([m \in Names |-> RoundUp(region'[m])])
<1>1. [n \in Names |-> region'[n]] = region'
  OBVIOUS
<1> QED
  BY <1>1 DEF OsHolds, Weight

\* The bounds, by size and by cost at once.
RegionsHeld ==
  \A n \in Names : region[n] > 0 =>
    n \in NamesIn(Records) /\ region[n] <= Regions(Records)[n].size
Bounds(c) ==
  OsMost(c) <= DistinctOf(c, Records) /\ DistinctOf(c, Records) <= AllOf(c, Records)

LEMMA RegionInvIs ==
  FileInv => (RegionInv <=> /\ RegionsHeld /\ \A c \in BOOLEAN : Bounds(c)
                            /\ Requested(Records) <= OsCost(Records))
<1> SUFFICES ASSUME FileInv
             PROVE  RegionInv <=> /\ RegionsHeld /\ \A c \in BOOLEAN : Bounds(c)
                                  /\ Requested(Records) <= OsCost(Records)
  OBVIOUS
<1>1. MapsTell(Records)
  BY RecordsTell
<1>2. RegionsHeld <=> \A n \in Names : region[n] > 0 =>
         n \in DOMAIN Regions(Records) /\ region[n] <= Regions(Records)[n].size
  BY RegionsAre DEF RegionsHeld
<1>3. Bounds(FALSE) <=> /\ most.os <= DistinctBytes(Records)
                        /\ DistinctBytes(Records) <= Requested(Records)
  BY <1>1, WeightsAre DEF Bounds, OsMost
<1>4. Bounds(TRUE) <=> /\ most.cost <= DistinctCost(Records)
                       /\ DistinctCost(Records) <= OsCost(Records)
  BY <1>1, WeightsAre DEF Bounds, OsMost
<1> QED
  BY <1>2, <1>3, <1>4 DEF RegionInv

LEMMA RegionInvNext ==
  FileInv' => (RegionInv' <=> /\ RegionsHeld' /\ \A c \in BOOLEAN : Bounds(c)'
                              /\ (Requested(Records) <= OsCost(Records))')
<1>1. (FileInv => (RegionInv <=> /\ RegionsHeld /\ \A c \in BOOLEAN : Bounds(c)
                                 /\ Requested(Records) <= OsCost(Records)))'
  BY RegionInvIs, PTL
<1> QED
  BY <1>1

LEMMA RequestedLess ==
  ASSUME NEW R, MapsTell(R)
  PROVE  Requested(R) <= OsCost(R)
<1> DEFINE f == [n \in OkMaps(R) |-> R[n].size]
           g == [n \in OkMaps(R) |-> RoundUp(R[n].size)]
<1>1. /\ DOMAIN f = OkMaps(R) /\ DOMAIN g = OkMaps(R) /\ IsFiniteSet(OkMaps(R))
      /\ \A n \in OkMaps(R) : f[n] \in Nat /\ g[n] \in Nat /\ f[n] <= g[n]
  BY Rounding DEF MapsTell
<1> HIDE DEF f, g
<1>2. Total(f) <= Total(g)
  BY <1>1, TotalAtMost
<1> QED
  BY <1>2 DEF f, g, Requested, OsCost, Sizes

\* What the OS holds is no more than the distinct regions.
LEMMA HeldBounded ==
  ASSUME NEW R, MapsTell(R), NEW now \in [Names -> Nat], NEW c \in BOOLEAN,
         \A n \in Names : now[n] > 0 => n \in NamesIn(R) /\ now[n] <= Regions(R)[n].size
  PROVE  /\ Total([n \in Names |-> Weight(c, now[n])]) \in Nat
         /\ Total([n \in Names |-> Weight(c, now[n])]) <= DistinctOf(c, R)
<1> DEFINE f == [n \in Names |-> Weight(c, now[n])]
           g == [n \in DOMAIN Regions(R) |-> Weight(c, Regions(R)[n].size)]
<1>1. DOMAIN f = Names /\ DOMAIN g = NamesIn(R) /\ IsFiniteSet(Names) /\ IsFiniteSet(NamesIn(R))
  BY NamedAre, RegionsAre, FleetAssumption
<1>2. \A n \in Names : f[n] = Weight(c, now[n]) /\ f[n] \in Nat
  BY WeightIs
<1>3. \A n \in NamesIn(R) : Regions(R)[n].size \in Nat
  BY RegionSize
<1>4. \A n \in NamesIn(R) : g[n] = Weight(c, Regions(R)[n].size) /\ g[n] \in Nat
  BY <1>1, <1>3, WeightIs
<1> HIDE DEF f, g
<1>5. ASSUME NEW n \in Names, f[n] > 0
      PROVE  n \in NamesIn(R) /\ f[n] <= g[n]
  <2>1. now[n] \in Nat /\ now[n] > 0
    <3>1. now[n] \in Nat /\ (now[n] = 0 => f[n] = 0)
      BY <1>2, WeightIs
    <3> QED
      BY <1>5, <3>1
  <2>2. n \in NamesIn(R) /\ now[n] <= Regions(R)[n].size
    BY <2>1
  <2> QED
    BY <1>2, <1>3, <1>4, <2>1, <2>2, WeightIs
<1>6. Total(f) \in Nat /\ Total(f) <= Total(g)
  BY <1>1, <1>2, <1>4, <1>5, TotalAtMost
<1> QED
  BY <1>6 DEF f, g, DistinctOf

\* A step in which no map is recorded and the OS only drops regions.
LEMMA RegionFrame ==
  ASSUME Types, FileInv, FileInv', RegionInv, most' = most,
         OkMaps(Records') = OkMaps(Records), Begins(Records, Records'),
         \A n \in Names : region'[n] \in {0, region[n]}
  PROVE  RegionInv'
<1>1. \A n \in OkMaps(Records) : Records'[n] = Records[n]
  BY DEF Begins, OkMaps
<1>2. /\ Regions(Records') = Regions(Records)
      /\ DistinctBytes(Records') = DistinctBytes(Records)
      /\ DistinctCost(Records') = DistinctCost(Records)
      /\ Requested(Records') = Requested(Records) /\ OsCost(Records') = OsCost(Records)
  BY <1>1, SameMaps
<1> QED
  BY <1>2 DEF RegionInv

\* Records that are no maps.
LEMMA NoMap ==
  ASSUME NEW R, NEW Q, Begins(R, Q), NEW n \in Nat, NEW k \in Nat,
         DOMAIN R = 1 .. n, DOMAIN Q = 1 .. n + k, \A i \in 1 .. k : ~MapOk(Q[n + i])
  PROVE  OkMaps(Q) = OkMaps(R)
<1>1. ASSUME NEW j \in DOMAIN Q, MapOk(Q[j])
      PROVE  j \in DOMAIN R
  <2>1. SUFFICES ASSUME j > n PROVE FALSE
    OBVIOUS
  <2>2. j - n \in 1 .. k /\ n + (j - n) = j
    BY <2>1
  <2> QED
    BY <1>1, <2>2
<1> QED
  BY <1>1 DEF OkMaps, Begins

\* A map that is recorded is one map more.
LEMMA MapRecorded ==
  ASSUME Types, FileInv, FileInv',
         NEW p \in Procs, NEW n \in Names, NEW addr \in Nat, NEW size \in Asked,
         OnMap(p, n, addr, size), UNCHANGED <<clock, stepped>>
  PROVE  /\ MapsTell(Records) /\ MapsTell(Records') /\ size \in Nat /\ size > 0
         /\ OneMap(Records, Records', Len(file) + 1, n, size)
<1> DEFINE r == Stamped(p, MapRecord(p, n, addr, size))
           m == Len(file) + 1
<1>1. Write(p, <<MapRecord(p, n, addr, size)>>) /\ UNCHANGED <<clock, stepped>>
  BY DEF OnMap, Record
<1>2. Shape(r) /\ MapOk(r) /\ r.name = n /\ r.size = size /\ size \in Nat /\ size > 0
  <2>1. Shape(r) /\ MapOk(r) /\ r.name = n /\ r.size = size
    BY MapRecordShape
  <2>2. size \in Nat /\ size > 0
    BY OnMapIs
  <2> QED
    BY <2>1, <2>2
<1>3. /\ Begins(Records, Records') /\ Len(file) \in Nat
      /\ DOMAIN Records = 1 .. Len(file) /\ DOMAIN Records' = 1 .. Len(file) + 1
      /\ Records'[m] = r
  BY <1>1, <1>2, WritesOne
<1>4. MapsTell(Records) /\ MapsTell(Records')
  <2>1. (FileInv => MapsTell(Records))'
    BY RecordsTell, PTL
  <2>2. FileInv' => MapsTell(Records')
    BY <2>1 DEF MapsTell
  <2> QED
    BY <2>2, RecordsTell
<1> HIDE DEF r
<1>5. OneMap(Records, Records', m, n, size)
  <2>1. \A j \in 1 .. m : j \in 1 .. Len(file) \/ j = m
    BY <1>3
  <2>2. m \notin 1 .. Len(file) /\ m \in 1 .. Len(file) + 1
    BY <1>3
  <2> HIDE DEF m
  <2>3. OkMaps(Records') = OkMaps(Records) \cup {m}
    <3>1. DOMAIN Records' = DOMAIN Records \cup {m}
      BY <1>3, <2>1, <2>2 DEF m
    <3>2. \A j \in DOMAIN Records : Records'[j] = Records[j]
      BY <1>3 DEF Begins
    <3> QED
      BY <1>2, <1>3, <3>1, <3>2 DEF OkMaps
  <2>4. m \notin OkMaps(Records) /\ \A j \in OkMaps(Records) : Records'[j] = Records[j]
    BY <1>3, <2>2 DEF OkMaps, Begins
  <2> QED
    BY <1>2, <1>3, <2>3, <2>4 DEF OneMap
<1> QED
  BY <1>2, <1>4, <1>5 DEF m

LEMMA RegionMap ==
  ASSUME Types, FileInv, FileInv', RegionInv,
         NEW p \in Procs, NEW n \in Names, NEW size \in Asked, Map(p, n, size)
  PROVE  RegionInv'
<1> DEFINE m == Len(file) + 1
<1>1. /\ MapsTell(Records) /\ MapsTell(Records') /\ size \in Nat /\ size > 0
      /\ OneMap(Records, Records', m, n, size)
  <2> DEFINE a == Free(p)
  <2>1. OnMap(p, n, a, size) /\ a \in Nat /\ UNCHANGED <<clock, stepped>>
    BY MapIs DEF Map
  <2> HIDE DEF a
  <2> QED
    BY <2>1, MapRecorded
<1> HIDE DEF m
<1>6. /\ NamesIn(Records') = NamesIn(Records) \cup {n}
      /\ \A x \in NamesIn(Records) \ {n} :
           Regions(Records')[x].size = Regions(Records)[x].size
      /\ Regions(Records')[n].size = IF n \in NamesIn(Records)
                                     THEN Larger(Regions(Records)[n].size, size) ELSE size
  BY <1>1, RegionsMore
<1>7. RegionsHeld /\ \A c \in BOOLEAN : Bounds(c)
  BY RegionInvIs
<1>8. /\ region' \in [Names -> Nat]
      /\ region'[n] = (IF region[n] = 0 THEN size ELSE region[n])
      /\ \A x \in Names \ {n} : region'[x] = region[x]
      /\ region[n] \in Nat
  BY MostIs DEF Types
<1>9. \A x \in Names : region'[x] > 0 =>
        x \in NamesIn(Records') /\ region'[x] <= Regions(Records')[x].size
  <2> SUFFICES ASSUME NEW x \in Names, region'[x] > 0
               PROVE  x \in NamesIn(Records') /\ region'[x] <= Regions(Records')[x].size
    OBVIOUS
  <2>1. CASE x # n
    <3>1. region'[x] = region[x] /\ x \in NamesIn(Records)
      BY <1>7, <1>8, <2>1 DEF RegionsHeld
    <3> QED
      BY <1>6, <1>7, <2>1, <3>1 DEF RegionsHeld
  <2>2. CASE x = n
    <3>1. CASE n \notin NamesIn(Records)
      <4>1. region[n] = 0
        BY <1>7, <1>8, <3>1 DEF RegionsHeld
      <4> QED
        BY <1>1, <1>6, <1>8, <2>2, <3>1, <4>1
    <3>2. CASE n \in NamesIn(Records)
      <4> DEFINE a == Regions(Records)[n].size
      <4>1. a \in Nat /\ Regions(Records')[n].size = Larger(a, size)
        BY <1>1, <1>6, <3>2, RegionSize
      <4>2. region[n] > 0 => region[n] <= a
        BY <1>7 DEF RegionsHeld
      <4> HIDE DEF a
      <4>3. region'[n] <= Larger(a, size)
        BY <1>1, <1>8, <4>1, <4>2 DEF Larger
      <4> QED
        BY <1>6, <2>2, <4>1, <4>3
    <3> QED
      BY <3>1, <3>2
  <2> QED
    BY <2>1, <2>2
<1>10. ASSUME NEW c \in BOOLEAN
       PROVE  Bounds(c)'
  <2>1. /\ AllOf(c, Records') = AllOf(c, Records) + Weight(c, size)
        /\ DistinctOf(c, Records) <= DistinctOf(c, Records')
        /\ DistinctOf(c, Records') <= DistinctOf(c, Records) + Weight(c, size)
    BY <1>1, DistinctMore
  <2>2. /\ DistinctOf(c, Records) \in Nat /\ DistinctOf(c, Records') \in Nat
        /\ AllOf(c, Records) \in Nat /\ Weight(c, size) \in Nat
    BY <1>1, WeightTypes, WeightIs
  <2>3. OsHolds(c)' \in Nat /\ OsHolds(c)' <= DistinctOf(c, Records')
    <3>1. /\ Total([x \in Names |-> Weight(c, region'[x])]) \in Nat
          /\ Total([x \in Names |-> Weight(c, region'[x])]) <= DistinctOf(c, Records')
      BY <1>1, <1>8, <1>9, HeldBounded
    <3> QED
      BY <3>1 DEF OsHolds, Weight, RoundUp
  <2>4. OsMost(c)' = Larger(OsMost(c), OsHolds(c)') /\ OsMost(c) \in Nat
    <3>1. /\ most'.os = Larger(most.os, OsHolds(FALSE)')
          /\ most'.cost = Larger(most.cost, OsHolds(TRUE)')
      BY <1>8, MostIs, OsHoldsIs
    <3>2. most.os \in Nat /\ most.cost \in Nat
      BY DEF Types
    <3> QED
      BY <3>1, <3>2 DEF OsMost
  <2>5. OsMost(c) <= DistinctOf(c, Records) /\ DistinctOf(c, Records) <= AllOf(c, Records)
    BY <1>7 DEF Bounds
  <2>6. OsMost(c)' <= DistinctOf(c, Records') /\ DistinctOf(c, Records') <= AllOf(c, Records')
    <3>1. OsMost(c)' \in {OsMost(c), OsHolds(c)'}
      BY <2>4 DEF Larger
    <3> QED
      BY <2>1, <2>2, <2>3, <2>4, <2>5, <3>1
  <2>7. DistinctOf(c, Records)' = DistinctOf(c, Records') /\ AllOf(c, Records)' = AllOf(c, Records')
    BY DEF DistinctOf, AllOf
  <2> QED
    BY <2>6, <2>7 DEF Bounds
<1>11. RegionsHeld' /\ (Requested(Records) <= OsCost(Records))'
  BY <1>1, <1>9, RequestedLess DEF RegionsHeld
<1> QED
  BY <1>10, <1>11, RegionInvNext

LEMMA RegionAgain ==
  ASSUME Types, FileInv, FileInv', RegionInv,
         NEW p \in Procs, NEW n \in Names, NEW size \in Asked, MapAgain(p, n, size)
  PROVE  RegionInv'
<1> DEFINE m == Len(file) + 1
<1>1. /\ MapsTell(Records) /\ MapsTell(Records') /\ size \in Nat /\ size > 0
      /\ OneMap(Records, Records', m, n, size)
  <2> DEFINE a == mapped[p][n].addr
  <2>1. OnMap(p, n, a, size) /\ a \in Nat /\ UNCHANGED <<clock, stepped>>
    BY MapAgainIs DEF MapAgain
  <2> HIDE DEF a
  <2> QED
    BY <2>1, MapRecorded
<1> HIDE DEF m
<1>2. /\ NamesIn(Records') = NamesIn(Records) \cup {n}
      /\ \A x \in NamesIn(Records) \ {n} :
           Regions(Records')[x].size = Regions(Records)[x].size
      /\ Regions(Records')[n].size = IF n \in NamesIn(Records)
                                     THEN Larger(Regions(Records)[n].size, size) ELSE size
  BY <1>1, RegionsMore
<1>3. RegionsHeld /\ \A c \in BOOLEAN : Bounds(c)
  BY RegionInvIs
<1>4. region' = region /\ most' = most /\ \A x \in Names : region[x] \in Nat
  BY DEF MapAgain, Types
<1>5. ASSUME NEW x \in Names, region[x] > 0
      PROVE  x \in NamesIn(Records') /\ region[x] <= Regions(Records')[x].size
  <2>1. x \in NamesIn(Records) /\ region[x] <= Regions(Records)[x].size
    BY <1>3, <1>5 DEF RegionsHeld
  <2> DEFINE a == Regions(Records)[x].size
  <2>2. a \in Nat
    BY <1>1, <2>1, RegionSize
  <2>3. Regions(Records')[x].size \in {a, Larger(a, size)}
    BY <1>2, <2>1
  <2>4. region[x] <= a
    BY <2>1
  <2> HIDE DEF a
  <2> QED
    BY <1>1, <1>2, <1>4, <2>1, <2>2, <2>3, <2>4 DEF Larger
<1>6. ASSUME NEW c \in BOOLEAN
      PROVE  Bounds(c)'
  <2>1. /\ AllOf(c, Records') = AllOf(c, Records) + Weight(c, size)
        /\ DistinctOf(c, Records) <= DistinctOf(c, Records')
        /\ DistinctOf(c, Records') <= DistinctOf(c, Records) + Weight(c, size)
    BY <1>1, DistinctMore
  <2>2. /\ DistinctOf(c, Records) \in Nat /\ DistinctOf(c, Records') \in Nat
        /\ AllOf(c, Records) \in Nat /\ Weight(c, size) \in Nat
    BY <1>1, WeightTypes, WeightIs
  <2>3. OsMost(c)' = OsMost(c) /\ OsMost(c) \in Nat
    BY <1>4 DEF OsMost, Types
  <2>4. OsMost(c) <= DistinctOf(c, Records) /\ DistinctOf(c, Records) <= AllOf(c, Records)
    BY <1>3 DEF Bounds
  <2>5. OsMost(c)' <= DistinctOf(c, Records') /\ DistinctOf(c, Records') <= AllOf(c, Records')
    BY <2>1, <2>2, <2>3, <2>4
  <2>6. DistinctOf(c, Records)' = DistinctOf(c, Records') /\ AllOf(c, Records)' = AllOf(c, Records')
    BY DEF DistinctOf, AllOf
  <2> QED
    BY <2>5, <2>6 DEF Bounds
<1>7. RegionsHeld' /\ (Requested(Records) <= OsCost(Records))'
  BY <1>1, <1>4, <1>5, RequestedLess DEF RegionsHeld
<1> QED
  BY <1>6, <1>7, RegionInvNext

LEMMA RegionInit == Init => RegionInv
<1> SUFFICES ASSUME Init PROVE RegionInv
  OBVIOUS
<1>1. Types /\ FileInv
  BY TypesInit, FileInit
<1>2. MapsTell(Records)
  BY <1>1, RecordsTell
<1>3. /\ most.os = 0 /\ most.cost = 0 /\ \A n \in Names : region[n] = 0
      /\ DOMAIN Records = {}
  <2>1. DOMAIN Records = DOMAIN file /\ file = << >>
    BY <1>1, RecordsAre DEF Init
  <2> QED
    BY <2>1 DEF Init
<1>4. OkMaps(Records) = {}
  BY <1>3 DEF OkMaps
<1>5. NamesIn(Records) = {}
  BY <1>4 DEF NamesIn, Named
<1>6. \A c \in BOOLEAN : AllOf(c, Records) = 0 /\ DistinctOf(c, Records) = 0
  <2> TAKE c \in BOOLEAN
  <2>1. DOMAIN [name \in DOMAIN Regions(Records) |-> Weight(c, Regions(Records)[name].size)] = {}
    BY <1>5, RegionsAre
  <2>2. DOMAIN [n \in OkMaps(Records) |-> Weight(c, Records[n].size)] = {}
    BY <1>4
  <2> QED
    BY <2>1, <2>2, TotalNone DEF AllOf, DistinctOf
<1>7. RegionsHeld /\ \A c \in BOOLEAN : Bounds(c)
  BY <1>3, <1>6 DEF RegionsHeld, Bounds, OsMost
<1> QED
  BY <1>1, <1>2, <1>7, RequestedLess, RegionInvIs

\* Records that are written and are no maps.
LEMMA WritesNoMap ==
  ASSUME Types, FileInv, NEW p, NEW r, Write(p, <<r>>), Shape(Stamped(p, r)),
         ~MapOk(Stamped(p, r)), UNCHANGED <<clock, stepped>>
  PROVE  OkMaps(Records') = OkMaps(Records) /\ Begins(Records, Records')
<1>1. /\ Begins(Records, Records') /\ Len(file) \in Nat
      /\ DOMAIN Records = 1 .. Len(file) /\ DOMAIN Records' = 1 .. Len(file) + 1
      /\ Records'[Len(file) + 1] = Stamped(p, r)
  BY WritesOne
<1>2. \A i \in 1 .. 1 : ~MapOk(Records'[Len(file) + i])
  BY <1>1
<1>3. 1 \in Nat
  OBVIOUS
<1> QED
  BY <1>1, <1>2, <1>3, NoMap

LEMMA ExitNoMap ==
  ASSUME Types, FileInv, NEW p \in Procs, Write(p, ExitLines(p)), UNCHANGED <<clock, stepped>>
  PROVE  OkMaps(Records') = OkMaps(Records) /\ Begins(Records, Records')
<1> DEFINE s(i) == Stamped(p, ExitLines(p)[i])
<1>1. PICK c \in Nat : /\ DOMAIN ExitLines(p) = 1 .. c + 1
                       /\ \A i \in 1 .. c + 1 : Shape(s(i))
                       /\ \A i \in 1 .. c : s(i).event = "live_at_exit"
                       /\ s(c + 1).event = "summary"
  BY ExitLinesAre
<1> DEFINE k == c + 1
<1>2. \A i \in 1 .. k : ~MapOk(s(i))
  <2>1. \A i \in 1 .. c + 1 : i \in 1 .. c \/ i = c + 1
    OBVIOUS
  <2> HIDE DEF s
  <2> QED
    BY <1>1, <2>1 DEF MapOk, IsMap
<1>3. k \in Nat /\ DOMAIN ExitLines(p) = 1 .. k /\ \A i \in 1 .. k : Shape(s(i))
  BY <1>1
<1> HIDE DEF k
<1>4. /\ Begins(Records, Records') /\ Len(file) \in Nat
      /\ DOMAIN Records = 1 .. Len(file) /\ DOMAIN Records' = 1 .. Len(file) + k
  BY <1>3, FileWrites
<1>5. \A i \in 1 .. k : Records'[Len(file) + i] = s(i)
  BY <1>3, FileWrites
<1>6. \A i \in 1 .. k : ~MapOk(Records'[Len(file) + i])
  BY <1>2, <1>5
<1> QED
  BY <1>3, <1>4, <1>6, NoMap

LEMMA NothingWritten ==
  ASSUME FileInv, file' = file
  PROVE  Records' = Records /\ OkMaps(Records') = OkMaps(Records) /\ Begins(Records, Records')
<1>1. Records' = Records
  BY DEF Records
<1>2. DOMAIN Records = 1 .. Len(file) /\ Len(file) \in Nat
  BY RecordsAre
<1> QED
  BY <1>1, <1>2 DEF Begins

LEMMA RegionStep == Types /\ FileInv /\ RegionInv /\ [Next]_vars => RegionInv'
<1> SUFFICES ASSUME Types, FileInv, RegionInv, [Next]_vars
             PROVE  RegionInv'
  OBVIOUS
<1>0. FileInv' /\ Types'
  BY FileStep, TypesStep
<1>1. ASSUME NEW p \in Procs, NEW n \in Names, NEW size \in Asked,
             Map(p, n, size) \/ MapAgain(p, n, size)
      PROVE  RegionInv'
  BY <1>0, <1>1, RegionMap, RegionAgain
<1>2. ASSUME NEW p \in Procs, NEW n \in Names, Unmap(p, n) \/ UnmapRefused(p, n)
      PROVE  RegionInv'
  <2>1. /\ UNCHANGED <<clock, stepped>> /\ most' = most /\ mapped[p][n].addr \in Nat
        /\ OsFrees \/ region' = region
    BY <1>2, UnmapIs, RefusedIs DEF Unmap, UnmapRefused, osVars
  <2>2. PICK ret \in {0, -1} : OnUnmap(p, n, ret)
    BY <1>2, UnmapIs, RefusedIs
  <2>3. Write(p, <<UnmapRecord(mapped[p][n].addr, ret)>>)
    BY <2>2 DEF OnUnmap, Record
  <2>4. LET r == Stamped(p, UnmapRecord(mapped[p][n].addr, ret)) IN Shape(r) /\ ~MapOk(r)
    BY <2>1, <2>2, UnmapRecordShape
  <2>5. OkMaps(Records') = OkMaps(Records) /\ Begins(Records, Records')
    BY <2>1, <2>3, <2>4, WritesNoMap
  <2>6. \A x \in Names : region'[x] \in {0, region[x]}
    BY <2>1, FreesIs
  <2> QED
    BY <1>0, <2>1, <2>5, <2>6, RegionFrame
<1>3. ASSUME NEW p \in Procs, MapFails(p)
      PROVE  RegionInv'
  <2> DEFINE z == [MapRecord(p, NULL, NULL, Max(Asked)) EXCEPT !.ret = -1]
  <2>1. /\ Write(p, <<z>>) /\ UNCHANGED <<clock, stepped>>
        /\ most' = most /\ region' = region
    BY <1>3 DEF MapFails, osVars, Record
  <2>2. Shape(Stamped(p, z)) /\ ~MapOk(Stamped(p, z))
    BY MapFailsShape
  <2> HIDE DEF z
  <2>3. OkMaps(Records') = OkMaps(Records) /\ Begins(Records, Records')
    BY <2>1, <2>2, WritesNoMap
  <2>4. \A x \in Names : region'[x] \in {0, region[x]}
    BY <2>1
  <2> QED
    BY <1>0, <2>1, <2>3, <2>4, RegionFrame
<1>4. ASSUME NEW p \in Procs, UnmapUnknown(p)
      PROVE  RegionInv'
  <2>1. /\ Write(p, <<UnmapRecord(Free(p), -1)>>) /\ UNCHANGED <<clock, stepped>>
        /\ most' = most /\ region' = region
    BY <1>4 DEF UnmapUnknown, osVars, Record
  <2>2. LET r == Stamped(p, UnmapRecord(Free(p), -1)) IN Shape(r) /\ ~MapOk(r)
    BY FreeIs, UnmapRecordShape
  <2>3. OkMaps(Records') = OkMaps(Records) /\ Begins(Records, Records')
    BY <2>1, <2>2, WritesNoMap
  <2>4. \A x \in Names : region'[x] \in {0, region[x]}
    BY <2>1
  <2> QED
    BY <1>0, <2>1, <2>3, <2>4, RegionFrame
<1>5. ASSUME NEW p \in Procs, Exit(p) \/ Kill(p) \/ \E n \in Names : KillInMap(p, n)
      PROVE  RegionInv'
  <2>1. /\ UNCHANGED <<clock, stepped>> /\ most' = most /\ OsFrees
        /\ Write(p, ExitLines(p)) \/ file' = file
    BY <1>5 DEF Exit, Kill, KillInMap, Ends, history
  <2>2. OkMaps(Records') = OkMaps(Records) /\ Begins(Records, Records')
    BY <2>1, ExitNoMap, NothingWritten
  <2>3. \A x \in Names : region'[x] \in {0, region[x]}
    BY <2>1, FreesIs
  <2> QED
    BY <1>0, <2>1, <2>2, <2>3, RegionFrame
<1>6. ASSUME NEW p \in Procs, Start(p)
      PROVE  RegionInv'
  <2>1. UNCHANGED <<file, most, region>>
    BY <1>6 DEF Start, history
  <2> QED
    BY <2>1 DEF RegionInv, Records
<1>7. CASE Tick \/ StepBack \/ UNCHANGED vars
  <2>1. UNCHANGED <<file, most, region>>
    BY <1>7 DEF Tick, StepBack, vars, osVars, history
  <2> QED
    BY <2>1 DEF RegionInv, Records
<1> QED
  BY <1>1, <1>2, <1>3, <1>4, <1>5, <1>6, <1>7 DEF Next

\* The distinct regions of the report are at least what the OS ever held at a
\* time and at most what all maps add up to, whatever the clock did and whichever
\* processes ended.
THEOREM DistinctIsBetween == Spec => []DistinctCovers
<1>1. Types /\ FileInv /\ RegionInv => DistinctCovers
  BY DEF RegionInv, DistinctCovers
<1>2. Init => Types /\ FileInv /\ RegionInv
  BY TypesInit, FileInit, RegionInit
<1>3. Types /\ FileInv /\ RegionInv /\ [Next]_vars => (Types /\ FileInv /\ RegionInv)'
  BY TypesStep, FileStep, RegionStep
<1> QED
  BY <1>1, <1>2, <1>3, PTL DEF Spec

-----------------------------------------------------------------------------
(* The order of the events of a process.                                   *)

\* rel puts the elements of a set in a row.
Orders(rel, at) ==
  /\ \A i \in at : <<i, i>> \notin rel
  /\ \A i, j \in at : i # j => <<i, j>> \in rel \/ <<j, i>> \in rel
  /\ \A i, j, k \in at : <<i, j>> \in rel /\ <<j, k>> \in rel => <<i, k>> \in rel

Below(rel, at, i) == {j \in at : <<j, i>> \in rel}

LEMMA Ranks ==
  ASSUME NEW rel, NEW at, IsFiniteSet(at), Orders(rel, at)
  PROVE  /\ Cardinality(at) \in Nat
         /\ \A i \in at : /\ Cardinality(Below(rel, at, i)) + 1 \in 1 .. Cardinality(at)
                          /\ Cardinality(Below(rel, at, i)) \in Nat
         /\ \A i, j \in at :
              Cardinality(Below(rel, at, i)) = Cardinality(Below(rel, at, j)) => i = j
         /\ \A i, j \in at :
              <<i, j>> \in rel => Cardinality(Below(rel, at, i)) < Cardinality(Below(rel, at, j))
         /\ \A n \in 1 .. Cardinality(at) :
              \E i \in at : Cardinality(Below(rel, at, i)) + 1 = n
<1> DEFINE c == Cardinality(at)
           k(i) == Cardinality(Below(rel, at, i))
           f == [i \in at |-> k(i) + 1]
<1>1. c \in Nat
  BY FS_CardinalityType
<1>2. ASSUME NEW i \in at
      PROVE  IsFiniteSet(Below(rel, at, i)) /\ k(i) \in Nat /\ k(i) + 1 \in 1 .. c
  <2>1. Below(rel, at, i) \subseteq at /\ i \notin Below(rel, at, i)
    BY DEF Below, Orders
  <2>2. IsFiniteSet(Below(rel, at, i)) /\ k(i) \in Nat
    BY <2>1, FS_Subset, FS_CardinalityType
  <2>3. Below(rel, at, i) \cup {i} \subseteq at
    BY <2>1
  <2>4. /\ Cardinality(Below(rel, at, i) \cup {i}) = k(i) + 1
        /\ Cardinality(Below(rel, at, i) \cup {i}) <= c
    BY <2>1, <2>2, <2>3, FS_AddElement, FS_Subset
  <2> HIDE DEF c, k
  <2> QED
    BY <1>1, <2>2, <2>4
<1>3. ASSUME NEW i \in at, NEW j \in at, <<i, j>> \in rel
      PROVE  k(i) < k(j)
  <2>1. Below(rel, at, i) \cup {i} \subseteq Below(rel, at, j) /\ i \notin Below(rel, at, i)
    BY <1>3 DEF Below, Orders
  <2>2. Cardinality(Below(rel, at, i) \cup {i}) = k(i) + 1
    BY <1>2, <2>1, FS_AddElement
  <2>3. Cardinality(Below(rel, at, i) \cup {i}) <= k(j)
    BY <1>2, <2>1, FS_Subset
  <2>4. k(i) \in Nat /\ k(j) \in Nat
    BY <1>2
  <2> HIDE DEF k
  <2> QED
    BY <2>2, <2>3, <2>4
<1>4. ASSUME NEW i \in at, NEW j \in at, k(i) = k(j)
      PROVE  i = j
  <2>1. SUFFICES ASSUME i # j PROVE FALSE
    OBVIOUS
  <2>2. k(i) < k(j) \/ k(j) < k(i)
    BY <1>3, <2>1 DEF Orders
  <2>3. k(i) \in Nat /\ k(j) \in Nat
    BY <1>2
  <2> HIDE DEF k
  <2> QED
    BY <1>4, <2>2, <2>3
<1>5. IsFiniteSet(1 .. c) /\ Cardinality(1 .. c) = c
  <2>1. IF 1 > c THEN Cardinality(1 .. c) = 0 ELSE Cardinality(1 .. c) = c - 1 + 1
    BY <1>1, FS_Interval
  <2> HIDE DEF c
  <2> QED
    BY <1>1, <2>1, FS_Interval
<1>6. f \in Injection(at, 1 .. c)
  <2>1. \A i \in at : k(i) \in Nat /\ k(i) + 1 \in 1 .. c
    BY <1>2
  <2>2. \A i, j \in at : k(i) = k(j) => i = j
    BY <1>4
  <2> HIDE DEF c, k
  <2>3. f \in [at -> 1 .. c]
    BY <2>1
  <2>4. \A i, j \in at : f[i] = f[j] => i = j
    BY <2>1, <2>2
  <2> HIDE DEF f
  <2> QED
    BY <2>3, <2>4 DEF Injection, IsInjective
<1>7. f \in Surjection(at, 1 .. c)
  <2>1. Cardinality(at) = Cardinality(1 .. c)
    BY <1>5
  <2> HIDE DEF f
  <2> QED
    BY <1>5, <1>6, <2>1, FS_Injection
<1>8. \A n \in 1 .. c : \E i \in at : k(i) + 1 = n
  <2> HIDE DEF k
  <2>1. \A n \in 1 .. c : \E i \in at : f[i] = n
    BY <1>7 DEF Surjection
  <2> QED
    BY <2>1
<1> QED
  BY <1>1, <1>2, <1>3, <1>4, <1>8

LEMMA OneToOne ==
  ASSUME NEW f, NEW S, IsFiniteSet(S), \A x, y \in S : f[x] = f[y] => x = y
  PROVE  IsFiniteSet({f[x] : x \in S}) /\ Cardinality({f[x] : x \in S}) = Cardinality(S)
<1> DEFINE T == {f[x] : x \in S}
           g == [x \in S |-> f[x]]
<1>1. g \in [S -> T] /\ \A x \in S : g[x] = f[x]
  OBVIOUS
<1>2. \A t \in T : \E x \in S : g[x] = t
  BY <1>1
<1>3. \A x, y \in S : g[x] = g[y] => x = y
  BY <1>1
<1> HIDE DEF g, T
<1>4. g \in Injection(S, T) /\ g \in Surjection(S, T)
  BY <1>1, <1>2, <1>3 DEF Injection, IsInjective, Surjection
<1>5. ExistsBijection(S, T)
  BY <1>4 DEF ExistsBijection, Bijection
<1>6. IsFiniteSet(T) /\ Cardinality(T) = Cardinality(S)
  BY <1>5, FS_Bijection
<1> QED
  BY <1>6 DEF T

\* Events that have times.
Timed(R, at) == /\ IsFiniteSet(at) /\ at \subseteq Nat
                /\ \A i \in at : Get(R[i], "ts", 0) \in Int
Earlier(R, at, i) == {j \in at : Before(R, j, i)}
Place(R, at, i) == Cardinality(Earlier(R, at, i)) + 1

LEMMA BeforeOrders ==
  ASSUME NEW R, NEW at, Timed(R, at)
  PROVE  LET rel == {x \in at \X at : Before(R, x[1], x[2])}
         IN  Orders(rel, at) /\ \A i \in at : Below(rel, at, i) = Earlier(R, at, i)
<1> DEFINE rel == {x \in at \X at : Before(R, x[1], x[2])}
<1>1. \A i, j \in at : <<i, j>> \in rel <=> Before(R, i, j)
  OBVIOUS
<1>2. \A i \in at : ~Before(R, i, i)
  BY DEF Before, Timed
<1>3. \A i, j \in at : i # j => Before(R, i, j) \/ Before(R, j, i)
  <2> TAKE i, j \in at
  <2>1. Get(R[i], "ts", 0) \in Int /\ Get(R[j], "ts", 0) \in Int /\ i \in Nat /\ j \in Nat
    BY DEF Timed
  <2> QED
    BY <2>1 DEF Before
<1>4. \A i, j, k \in at : Before(R, i, j) /\ Before(R, j, k) => Before(R, i, k)
  <2> TAKE i, j, k \in at
  <2>1. /\ Get(R[i], "ts", 0) \in Int /\ Get(R[j], "ts", 0) \in Int /\ Get(R[k], "ts", 0) \in Int
        /\ i \in Nat /\ j \in Nat /\ k \in Nat
    BY DEF Timed
  <2> QED
    BY <2>1 DEF Before
<1> HIDE DEF rel
<1>5. Orders(rel, at)
  BY <1>1, <1>2, <1>3, <1>4 DEF Orders
<1>6. \A i \in at : Below(rel, at, i) = Earlier(R, at, i)
  BY <1>1 DEF Below, Earlier
<1> QED
  BY <1>5, <1>6 DEF rel

\* ByTime has each record at its place, and nothing else.
LEMMA ByTimeIs ==
  ASSUME NEW R, NEW at, Timed(R, at)
  PROVE  /\ Cardinality(at) \in Nat /\ DOMAIN ByTime(R, at) = 1 .. Cardinality(at)
         /\ \A i \in at : /\ Place(R, at, i) \in 1 .. Cardinality(at)
                          /\ ByTime(R, at)[Place(R, at, i)] = R[i]
         /\ \A n \in 1 .. Cardinality(at) : \E i \in at : Place(R, at, i) = n
<1> DEFINE rel == {x \in at \X at : Before(R, x[1], x[2])}
           k(i) == Cardinality(Earlier(R, at, i))
           c == Cardinality(at)
<1>1. Orders(rel, at) /\ \A i \in at : Below(rel, at, i) = Earlier(R, at, i)
  BY BeforeOrders
<1> HIDE DEF rel
<1>2. /\ c \in Nat /\ \A i \in at : k(i) + 1 \in 1 .. c /\ k(i) \in Nat
      /\ \A i, j \in at : k(i) = k(j) => i = j
      /\ \A n \in 1 .. c : \E i \in at : k(i) + 1 = n
  <2>1. /\ c \in Nat
        /\ \A i \in at : /\ Cardinality(Below(rel, at, i)) + 1 \in 1 .. c
                         /\ Cardinality(Below(rel, at, i)) \in Nat
        /\ \A i, j \in at : Cardinality(Below(rel, at, i)) = Cardinality(Below(rel, at, j)) => i = j
        /\ \A n \in 1 .. c : \E i \in at : Cardinality(Below(rel, at, i)) + 1 = n
    BY <1>1, Ranks DEF Timed
  <2>2. \A i \in at : Cardinality(Below(rel, at, i)) = k(i)
    BY <1>1
  <2> HIDE DEF c, k
  <2> QED
    BY <2>1, <2>2
<1>3. ByTime(R, at) = [n \in 1 .. c |-> R[CHOOSE i \in at : k(i) = n - 1]]
  BY DEF ByTime, Earlier
<1> HIDE DEF k, c
<1>4. ASSUME NEW i \in at
      PROVE  ByTime(R, at)[k(i) + 1] = R[i]
  <2>1. k(i) + 1 \in 1 .. c /\ k(i) \in Nat /\ k(i) + 1 - 1 = k(i)
    BY <1>2
  <2>2. (CHOOSE j \in at : k(j) = k(i) + 1 - 1) = i
    BY <1>2, <2>1
  <2> QED
    BY <1>3, <2>1, <2>2
<1> QED
  BY <1>2, <1>3, <1>4 DEF Place, k, c

\* The same events in the same order, at other positions, are the same list.
LEMMA SameOrder ==
  ASSUME NEW R, NEW at, Timed(R, at), NEW Q, NEW to, Timed(Q, to), NEW b,
         DOMAIN b = to, at = {b[i] : i \in to}, \A i, j \in to : b[i] = b[j] => i = j,
         \A i \in to : Q[i] = R[b[i]],
         \A i, j \in to : Before(Q, i, j) <=> Before(R, b[i], b[j])
  PROVE  ByTime(Q, to) = ByTime(R, at) /\ Cardinality(to) = Cardinality(at)
<1> DEFINE c == Cardinality(at)
<1>1. /\ c \in Nat /\ DOMAIN ByTime(R, at) = 1 .. c
      /\ \A i \in at : Place(R, at, i) \in 1 .. c /\ ByTime(R, at)[Place(R, at, i)] = R[i]
  <2>1. Timed(R, at)
    OBVIOUS
  <2> HIDE DEF c
  <2>2. Cardinality(at) = c
    BY DEF c
  <2> QED
    BY ONLY <2>1, <2>2, ByTimeIs
<1>2. Cardinality(to) = c
  <2>1. IsFiniteSet(to)
    BY DEF Timed
  <2> QED
    BY <2>1, OneToOne
<1>3. ASSUME NEW i \in to
      PROVE  Place(Q, to, i) = Place(R, at, b[i])
  <2> DEFINE E == Earlier(Q, to, i)
             F == Earlier(R, at, b[i])
  <2>1. E \subseteq to /\ F = {b[j] : j \in E}
    BY DEF Earlier
  <2>2. IsFiniteSet(E) /\ \A j, k \in E : b[j] = b[k] => j = k
    BY <2>1, FS_Subset DEF Timed
  <2>3. Cardinality(F) = Cardinality(E)
    <3> HIDE DEF E, F
    <3>1. Cardinality({b[j] : j \in E}) = Cardinality(E)
      BY <2>2, OneToOne
    <3> QED
      BY <2>1, <3>1
  <2> QED
    BY <2>3 DEF Place
<1>4. /\ DOMAIN ByTime(Q, to) = 1 .. c
      /\ \A i \in to : ByTime(Q, to)[Place(Q, to, i)] = Q[i]
      /\ \A n \in 1 .. c : \E i \in to : Place(Q, to, i) = n
  <2>1. Timed(Q, to)
    OBVIOUS
  <2> HIDE DEF c
  <2> QED
    BY ONLY <1>2, <2>1, ByTimeIs
<1> HIDE DEF c
<1>5. ASSUME NEW n \in 1 .. c
      PROVE  ByTime(Q, to)[n] = ByTime(R, at)[n]
  <2>1. PICK i \in to : Place(Q, to, i) = n
    BY <1>4
  <2>2. b[i] \in at /\ Place(R, at, b[i]) = n
    BY <1>3, <2>1
  <2> QED
    BY <1>1, <1>4, <2>1, <2>2
<1>6. ByTime(Q, to) = [n \in 1 .. c |-> ByTime(Q, to)[n]]
  BY <1>4 DEF ByTime
<1>7. ByTime(R, at) = [n \in 1 .. c |-> ByTime(R, at)[n]]
  BY <1>1 DEF ByTime
<1> QED
  BY <1>2, <1>5, <1>6, <1>7 DEF c

\* An event later than all others, and after them, is the last.
LEMMA LastEvent ==
  ASSUME NEW R, NEW at, Timed(R, at), NEW Q, NEW m \in Nat, m \notin at, Timed(Q, at \cup {m}),
         \A i \in at : Q[i] = R[i] /\ i < m,
         \A i \in at : Get(R[i], "ts", 0) <= Get(Q[m], "ts", 0)
  PROVE  Replay(ByTime(Q, at \cup {m})) = CorrelateRecord(Replay(ByTime(R, at)), Q[m])
<1> DEFINE c == Cardinality(at)
           to == at \cup {m}
<1>1. /\ c \in Nat /\ DOMAIN ByTime(R, at) = 1 .. c
      /\ \A i \in at : Place(R, at, i) \in 1 .. c /\ ByTime(R, at)[Place(R, at, i)] = R[i]
      /\ \A n \in 1 .. c : \E i \in at : Place(R, at, i) = n
  BY ByTimeIs
<1>2. Cardinality(to) = c + 1
  BY FS_AddElement DEF Timed
<1>3. /\ DOMAIN ByTime(Q, to) = 1 .. c + 1
      /\ \A i \in to : ByTime(Q, to)[Place(Q, to, i)] = Q[i]
  <2>1. Timed(Q, to)
    OBVIOUS
  <2> HIDE DEF to, c
  <2> QED
    BY <1>2, <2>1, ByTimeIs
<1>4. \A i \in at : Before(Q, i, m) /\ ~Before(Q, m, i)
  <2> TAKE i \in at
  <2>1. /\ Get(Q[i], "ts", 0) \in Int /\ Get(Q[m], "ts", 0) \in Int /\ i \in Nat /\ i < m
        /\ Get(Q[i], "ts", 0) <= Get(Q[m], "ts", 0)
    BY DEF Timed
  <2> QED
    BY <2>1 DEF Before
<1>5. ~Before(Q, m, m)
  <2>1. Get(Q[m], "ts", 0) \in Int
    BY DEF Timed
  <2> QED
    BY <2>1 DEF Before
<1>6. Place(Q, to, m) = c + 1
  <2>1. Earlier(Q, to, m) = at
    BY <1>4, <1>5 DEF Earlier
  <2> QED
    BY <2>1 DEF Place
<1>7. ASSUME NEW i \in at
      PROVE  Place(Q, to, i) = Place(R, at, i)
  <2>1. \A j \in at : Before(Q, j, i) <=> Before(R, j, i)
    BY DEF Before
  <2>2. Earlier(Q, to, i) = Earlier(R, at, i)
    BY <1>4, <2>1 DEF Earlier
  <2> QED
    BY <2>2 DEF Place
<1> HIDE DEF c, to
<1>8. \A n \in 1 .. c : ByTime(R, at)[n] = ByTime(Q, to)[n]
  <2> TAKE n \in 1 .. c
  <2>1. PICK i \in at : Place(R, at, i) = n
    BY <1>1
  <2>2. Place(Q, to, i) = n /\ i \in to
    BY <1>7, <2>1 DEF to
  <2> QED
    BY <1>1, <1>3, <2>1, <2>2
<1>9. ByTime(Q, to)[c + 1] = Q[m]
  <2>1. m \in to
    BY DEF to
  <2> QED
    BY <1>3, <1>6, <2>1
<1>10. c + 1 \in Nat
  BY <1>1
<1>11. Replay(ByTime(Q, to)) = CorrelateRecord(Replay(ByTime(R, at)), ByTime(Q, to)[c + 1])
  BY <1>1, <1>3, <1>8, <1>10, ReplayMore
<1> QED
  BY <1>9, <1>11 DEF to

-----------------------------------------------------------------------------
(* What one record does to the replay.                                     *)

Fields == {"live", "bytes", "peakCount", "peakBytes", "matched", "unmatched",
           "lifetimes", "last"}
Entry(r) == [size |-> r.size, ts |-> r.ts, name |-> r.name, flags |-> r.flags]

LEMMA MapCorrelated ==
  ASSUME NEW m, DOMAIN m = Fields, NEW r, Shape(r), MapOk(r)
  PROVE  LET n == CorrelateRecord(m, r) IN
         /\ DOMAIN n = Fields /\ n.last = r.ts
         /\ DOMAIN n.live = DOMAIN m.live \cup {r.addr}
         /\ n.live[r.addr] = Entry(r)
         /\ \A a \in DOMAIN m.live \ {r.addr} : n.live[a] = m.live[a]
         /\ n.bytes = m.bytes + r.size - SizeAt(m.live, r.addr)
         /\ n.peakCount = Larger(m.peakCount, Cardinality(DOMAIN m.live \cup {r.addr}))
         /\ n.peakBytes = Larger(m.peakBytes, n.bytes)
         /\ n.unmatched = m.unmatched /\ n.lifetimes = m.lifetimes
<1> DEFINE n == [m EXCEPT !.last = r.ts]
           now == [a \in DOMAIN m.live \cup {r.addr} |->
                     IF a = r.addr THEN Entry(r) ELSE m.live[a]]
           sum == m.bytes + r.size - SizeAt(m.live, r.addr)
           count == Cardinality(DOMAIN m.live \cup {r.addr})
           new == [n EXCEPT !.live = now, !.bytes = sum, !.peakCount = Larger(@, count),
                            !.peakBytes = Larger(@, sum)]
<1>1. /\ {"name", "size", "addr", "flags", "ret"} \subseteq DOMAIN r /\ r.addr \in Nat
      /\ IsMap(r)
  BY MapOkIs
<1>2. /\ Get(r, "size", 0) = r.size /\ Get(r, "name", NULL) = r.name
      /\ Get(r, "flags", NULL) = r.flags /\ Get(r, "addr", NULL) = r.addr
  BY <1>1 DEF Get
<1>3. \A d : Get(r, "ts", d) = r.ts
  BY ShapeIs
<1>4. Get(r, "addr", NULL) # NULL
  BY <1>1, <1>2, NullIs
<1>5. /\ DOMAIN n = Fields /\ n.live = m.live /\ n.bytes = m.bytes /\ n.last = r.ts
      /\ n.peakCount = m.peakCount /\ n.peakBytes = m.peakBytes
      /\ n.unmatched = m.unmatched /\ n.lifetimes = m.lifetimes
  BY DEF Fields
<1>6. CorrelateRecord(m, r) = CorrelateMap([m EXCEPT !.last = Get(r, "ts", @)], r)
  BY <1>1, <1>4 DEF CorrelateRecord, IsMap
<1>7. [m EXCEPT !.last = Get(r, "ts", @)] = n
  BY <1>3
<1> HIDE DEF n
<1>8. CorrelateMap(n, r) = new
  <2>1. [size |-> Get(r, "size", 0), ts |-> Get(r, "ts", NULL),
         name |-> Get(r, "name", NULL), flags |-> Get(r, "flags", NULL)] = Entry(r)
    BY <1>2, <1>3 DEF Entry
  <2>2. [a \in DOMAIN n.live \cup {r.addr} |-> IF a = r.addr THEN Entry(r) ELSE n.live[a]] = now
    BY <1>5
  <2>3. n.bytes + Entry(r).size - SizeAt(n.live, r.addr) = sum
    BY <1>5 DEF Entry
  <2>4. DOMAIN now = DOMAIN m.live \cup {r.addr}
    OBVIOUS
  <2> HIDE DEF now, sum
  <2>5. CorrelateMap(n, r) = [n EXCEPT !.live = now, !.bytes = sum,
                                       !.peakCount = Larger(@, Cardinality(DOMAIN now)),
                                       !.peakBytes = Larger(@, sum)]
    BY <2>1, <2>2, <2>3 DEF CorrelateMap
  <2> QED
    BY <2>4, <2>5
<1>9. CorrelateRecord(m, r) = new
  BY <1>6, <1>7, <1>8
<1> HIDE DEF now, sum, count
<1>10. /\ DOMAIN new = Fields /\ new.last = r.ts /\ new.live = now /\ new.bytes = sum
       /\ new.peakCount = Larger(m.peakCount, count) /\ new.peakBytes = Larger(m.peakBytes, sum)
       /\ new.unmatched = m.unmatched /\ new.lifetimes = m.lifetimes
  BY <1>5 DEF Fields
<1> HIDE DEF new
<1>11. /\ DOMAIN now = DOMAIN m.live \cup {r.addr} /\ now[r.addr] = Entry(r)
       /\ \A a \in DOMAIN m.live \ {r.addr} : now[a] = m.live[a]
  BY DEF now
<1> QED
  BY <1>9, <1>10, <1>11 DEF sum, count

LEMMA UnmapCorrelated ==
  ASSUME NEW m, DOMAIN m = Fields, NEW r, Shape(r), r.event = "unmap",
         r.addr \in DOMAIN m.live, m.live[r.addr].ts \in Int
  PROVE  LET n   == CorrelateRecord(m, r)
             was == m.live[r.addr]
         IN
         /\ DOMAIN n = Fields /\ n.last = r.ts
         /\ DOMAIN n.live = DOMAIN m.live \ {r.addr}
         /\ \A a \in DOMAIN m.live \ {r.addr} : n.live[a] = m.live[a]
         /\ n.bytes = m.bytes - was.size
         /\ n.peakCount = m.peakCount /\ n.peakBytes = m.peakBytes
         /\ n.unmatched = m.unmatched
         /\ n.lifetimes = Append(m.lifetimes, [size |-> was.size, life |-> r.ts - was.ts,
                                               flags |-> was.flags])
<1> DEFINE n == [m EXCEPT !.last = r.ts]
           was == m.live[r.addr]
           now == [a \in DOMAIN m.live \ {r.addr} |-> m.live[a]]
           left == Append(m.lifetimes, [size |-> was.size, life |-> r.ts - was.ts,
                                        flags |-> was.flags])
           new == [n EXCEPT !.live = now, !.bytes = @ - was.size, !.matched = @ + 1,
                            !.lifetimes = left]
<1>1. Get(r, "addr", NULL) = r.addr /\ r.ts \in Nat /\ ~MapOk(r)
  BY ShapeIs DEF UnmapShape, Get, MapOk, IsMap
<1>2. \A d : Get(r, "ts", d) = r.ts
  BY ShapeIs
<1>3. /\ DOMAIN n = Fields /\ n.live = m.live /\ n.bytes = m.bytes /\ n.last = r.ts
      /\ n.peakCount = m.peakCount /\ n.peakBytes = m.peakBytes
      /\ n.unmatched = m.unmatched /\ n.lifetimes = m.lifetimes
  BY DEF Fields
<1>4. CorrelateRecord(m, r) = CorrelateUnmap([m EXCEPT !.last = Get(r, "ts", @)], r)
  BY <1>1 DEF CorrelateRecord
<1>5. [m EXCEPT !.last = Get(r, "ts", @)] = n
  BY <1>2
<1> HIDE DEF n
<1>6. NULL \notin {r.ts, was.ts}
  BY <1>1, NullIs
<1>7. CorrelateUnmap(n, r) = new
  BY <1>2, <1>3, <1>6 DEF CorrelateUnmap
<1>8. CorrelateRecord(m, r) = new
  BY <1>4, <1>5, <1>7
<1> HIDE DEF now, left
<1>9. /\ DOMAIN new = Fields /\ new.last = r.ts /\ new.live = now /\ new.bytes = m.bytes - was.size
      /\ new.peakCount = m.peakCount /\ new.peakBytes = m.peakBytes
      /\ new.unmatched = m.unmatched /\ new.lifetimes = left
  BY <1>3 DEF Fields
<1> HIDE DEF new
<1>10. /\ DOMAIN now = DOMAIN m.live \ {r.addr}
       /\ \A a \in DOMAIN m.live \ {r.addr} : now[a] = m.live[a]
  BY DEF now
<1> QED
  BY <1>8, <1>9, <1>10 DEF left

LEMMA OtherCorrelated ==
  ASSUME NEW m, DOMAIN m = Fields, NEW r, Shape(r),
         \/ IsMap(r) /\ ~MapOk(r)
         \/ r.event = "unmap" /\ r.addr \notin DOMAIN m.live
  PROVE  LET n == CorrelateRecord(m, r) IN
         /\ DOMAIN n = Fields /\ n.last = r.ts /\ n.live = m.live /\ n.bytes = m.bytes
         /\ n.peakCount = m.peakCount /\ n.peakBytes = m.peakBytes
         /\ n.unmatched = IF IsMap(r) THEN m.unmatched ELSE m.unmatched + 1
         /\ n.lifetimes = m.lifetimes
<1> DEFINE n == [m EXCEPT !.last = r.ts]
<1>2. \A d : Get(r, "ts", d) = r.ts
  BY ShapeIs
<1>3. /\ DOMAIN n = Fields /\ n.live = m.live /\ n.bytes = m.bytes /\ n.last = r.ts
      /\ n.peakCount = m.peakCount /\ n.peakBytes = m.peakBytes
      /\ n.unmatched = m.unmatched /\ n.lifetimes = m.lifetimes
  BY DEF Fields
<1>5. [m EXCEPT !.last = Get(r, "ts", @)] = n
  BY <1>2
<1>6. CASE IsMap(r) /\ ~MapOk(r)
  <2>1. CorrelateRecord(m, r) = [m EXCEPT !.last = Get(r, "ts", @)]
    BY <1>6 DEF CorrelateRecord, IsMap
  <2> HIDE DEF n
  <2> QED
    BY <1>3, <1>5, <1>6, <2>1
<1>7. CASE r.event = "unmap" /\ r.addr \notin DOMAIN m.live
  <2>1. Get(r, "addr", NULL) = r.addr /\ ~MapOk(r) /\ ~IsMap(r)
    BY <1>7, ShapeIs DEF UnmapShape, Get, MapOk, IsMap
  <2>2. CorrelateRecord(m, r) = [[m EXCEPT !.last = Get(r, "ts", @)] EXCEPT !.unmatched = @ + 1]
    BY <1>7, <2>1 DEF CorrelateRecord
  <2> HIDE DEF n
  <2>3. CorrelateRecord(m, r) = [n EXCEPT !.unmatched = @ + 1]
    BY <1>5, <2>2
  <2> QED
    BY <1>3, <2>1, <2>3 DEF Fields
<1> QED
  BY <1>6, <1>7

-----------------------------------------------------------------------------
(* What the replay is, whatever the order of the events.                   *)

LiveEntry == [size : Nat, ts : Nat, name : Names, flags : 0 .. 5]
SizesLive(m) == [a \in DOMAIN m.live |-> m.live[a].size]

ReplayType(m) ==
  /\ DOMAIN m = Fields
  /\ IsFiniteSet(DOMAIN m.live) /\ DOMAIN m.live \subseteq Nat
  /\ \A a \in DOMAIN m.live : m.live[a] \in LiveEntry
  /\ m.bytes = Total(SizesLive(m))
  /\ m.peakCount \in Nat /\ m.peakBytes \in Nat /\ m.unmatched \in Nat
  /\ m.lifetimes \in Seq(Life)

LEMMA LiveIs ==
  ASSUME NEW m, ReplayType(m)
  PROVE  /\ m.bytes \in Nat /\ Cardinality(DOMAIN m.live) \in Nat
         /\ \A a \in DOMAIN m.live : m.live[a].size \in Nat /\ m.live[a].ts \in Nat
<1>1. \A a \in DOMAIN m.live : m.live[a].size \in Nat /\ m.live[a].ts \in Nat
  BY DEF ReplayType, LiveEntry
<1>2. IsFiniteSet(DOMAIN m.live)
  BY DEF ReplayType
<1>3. Total(SizesLive(m)) \in Nat
  <2> DEFINE f == SizesLive(m)
  <2>1. IsFiniteSet(DOMAIN f) /\ \A a \in DOMAIN f : f[a] \in Nat
    BY <1>1, <1>2 DEF SizesLive
  <2> HIDE DEF f
  <2>2. Total(f) \in Nat
    BY <2>1, TotalNat
  <2> QED
    BY <2>2 DEF f
<1>4. Cardinality(DOMAIN m.live) \in Nat
  BY <1>2, FS_CardinalityType
<1> QED
  BY <1>1, <1>3, <1>4 DEF ReplayType

LEMMA TypeNone == ReplayType(NoRecords)
<1>1. /\ DOMAIN NoRecords = Fields /\ DOMAIN NoRecords.live = {}
      /\ NoRecords.bytes = 0 /\ NoRecords.peakCount = 0 /\ NoRecords.peakBytes = 0
      /\ NoRecords.unmatched = 0 /\ NoRecords.lifetimes = << >>
  BY DEF NoRecords, Fields
<1>2. Total(SizesLive(NoRecords)) = 0
  <2> DEFINE f == SizesLive(NoRecords)
  <2>1. DOMAIN f = {}
    BY <1>1 DEF SizesLive
  <2> HIDE DEF f
  <2>2. Total(f) = 0
    BY <2>1, TotalNone
  <2> QED
    BY <2>2 DEF f
<1> QED
  BY <1>1, <1>2, FS_EmptySet DEF ReplayType

LEMMA TypeMap ==
  ASSUME NEW m, ReplayType(m), NEW r, Shape(r), MapOk(r)
  PROVE  LET n == CorrelateRecord(m, r) IN
         /\ ReplayType(n) /\ n.bytes \in Nat
         /\ n.peakCount >= m.peakCount /\ n.peakCount >= Cardinality(DOMAIN n.live)
         /\ n.peakBytes >= m.peakBytes /\ n.peakBytes >= n.bytes
<1> DEFINE n == CorrelateRecord(m, r)
           f == SizesLive(m)
           g == SizesLive(n)
<1>1. /\ r.name \in Names /\ r.size \in Nat /\ r.addr \in Nat /\ r.ts \in Nat
      /\ r.flags \in 0 .. 5
  <2>1. r.pid \in Procs /\ r.flags = Flags[r.pid] /\ r.ts \in Nat
    BY MapOkIs, ShapeIs
  <2>2. r.flags \in 0 .. 5
    BY <2>1, FleetAssumption
  <2> QED
    BY <2>1, <2>2, MapOkIs
<1>2. DOMAIN m = Fields
  BY DEF ReplayType
<1>3. /\ DOMAIN n = Fields
      /\ DOMAIN n.live = DOMAIN m.live \cup {r.addr}
      /\ n.live[r.addr] = Entry(r)
      /\ \A a \in DOMAIN m.live \ {r.addr} : n.live[a] = m.live[a]
      /\ n.bytes = m.bytes + r.size - SizeAt(m.live, r.addr)
      /\ n.peakCount = Larger(m.peakCount, Cardinality(DOMAIN m.live \cup {r.addr}))
      /\ n.peakBytes = Larger(m.peakBytes, n.bytes)
      /\ n.unmatched = m.unmatched /\ n.lifetimes = m.lifetimes
  BY <1>2, MapCorrelated
<1> HIDE DEF n
<1>4. Entry(r) \in LiveEntry /\ Entry(r).size = r.size
  BY <1>1 DEF Entry, LiveEntry
<1>5. /\ IsFiniteSet(DOMAIN m.live) /\ DOMAIN m.live \subseteq Nat
      /\ \A a \in DOMAIN m.live : m.live[a] \in LiveEntry
      /\ m.bytes = Total(f)
      /\ m.peakCount \in Nat /\ m.peakBytes \in Nat /\ m.unmatched \in Nat
      /\ m.lifetimes \in Seq(Life)
  BY DEF ReplayType
<1>6. /\ IsFiniteSet(DOMAIN n.live) /\ DOMAIN n.live \subseteq Nat
      /\ \A a \in DOMAIN n.live : n.live[a] \in LiveEntry
  <2>1. IsFiniteSet(DOMAIN m.live \cup {r.addr})
    BY <1>5, FS_AddElement
  <2>2. \A a \in DOMAIN n.live : n.live[a] \in LiveEntry
    BY <1>3, <1>4, <1>5
  <2> QED
    BY <1>1, <1>3, <1>5, <2>1, <2>2
<1>7. n.bytes = Total(g)
  <2>1. /\ DOMAIN f = DOMAIN m.live /\ \A a \in DOMAIN f : f[a] = m.live[a].size
        /\ DOMAIN g = DOMAIN n.live /\ \A a \in DOMAIN g : g[a] = n.live[a].size
    BY DEF SizesLive
  <2>2. \A a \in DOMAIN f : f[a] \in Int
    BY <1>5, <2>1 DEF LiveEntry
  <2>3. DOMAIN g = DOMAIN f \cup {r.addr} /\ g[r.addr] = r.size
    BY <1>3, <1>4, <2>1
  <2>4. \A a \in DOMAIN f \ {r.addr} : g[a] = f[a]
    BY <1>3, <2>1
  <2>5. IsFiniteSet(DOMAIN f) /\ r.addr \in DOMAIN g /\ g[r.addr] \in Int
    BY <1>1, <1>5, <2>1, <2>3
  <2>6. SizeAt(m.live, r.addr) = IF r.addr \in DOMAIN f THEN f[r.addr] ELSE 0
    BY <2>1 DEF SizeAt
  <2> HIDE DEF f, g
  <2>7. /\ Total(f) \in Int /\ Total(g) \in Int
        /\ r.addr \notin DOMAIN f => Total(g) = Total(f) + g[r.addr]
        /\ r.addr \in DOMAIN f => Total(g) = Total(f) + g[r.addr] - f[r.addr]
    BY <2>2, <2>3, <2>4, <2>5, TotalPut
  <2> QED
    BY <1>1, <1>3, <1>5, <2>2, <2>3, <2>6, <2>7
<1>8. n.bytes \in Nat
  <2>1. IsFiniteSet(DOMAIN g) /\ \A a \in DOMAIN g : g[a] \in Nat
    BY <1>6 DEF SizesLive, LiveEntry
  <2> HIDE DEF g
  <2> QED
    BY <1>7, <2>1, TotalNat
<1>9. Cardinality(DOMAIN n.live) \in Nat
  BY <1>6, FS_CardinalityType
<1>10. /\ n.peakCount \in Nat /\ n.peakCount >= m.peakCount
       /\ n.peakCount >= Cardinality(DOMAIN n.live)
  BY <1>3, <1>5, <1>9 DEF Larger
<1>11. n.peakBytes \in Nat /\ n.peakBytes >= m.peakBytes /\ n.peakBytes >= n.bytes
  BY <1>3, <1>5, <1>8 DEF Larger
<1>12. ReplayType(n)
  BY <1>3, <1>5, <1>6, <1>7, <1>10, <1>11 DEF ReplayType
<1> QED
  BY <1>8, <1>10, <1>11, <1>12 DEF n

LEMMA TypeUnmap ==
  ASSUME NEW m, ReplayType(m), NEW r, Shape(r), r.event = "unmap", r.addr \in DOMAIN m.live
  PROVE  ReplayType(CorrelateRecord(m, r))
<1> DEFINE n == CorrelateRecord(m, r)
           was == m.live[r.addr]
           freed == [size |-> was.size, life |-> r.ts - was.ts, flags |-> was.flags]
           f == SizesLive(m)
           g == SizesLive(n)
<1>1. DOMAIN m = Fields /\ r.ts \in Nat
  BY ShapeIs DEF ReplayType
<1>2. was \in LiveEntry
  BY DEF ReplayType
<1>3. was.size \in Nat /\ was.ts \in Nat /\ was.flags \in 0 .. 5
  BY <1>2 DEF LiveEntry
<1>4. /\ DOMAIN n = Fields
      /\ DOMAIN n.live = DOMAIN m.live \ {r.addr}
      /\ \A a \in DOMAIN m.live \ {r.addr} : n.live[a] = m.live[a]
      /\ n.bytes = m.bytes - was.size
      /\ n.peakCount = m.peakCount /\ n.peakBytes = m.peakBytes
      /\ n.unmatched = m.unmatched
      /\ n.lifetimes = Append(m.lifetimes, freed)
  BY <1>1, <1>3, UnmapCorrelated
<1> HIDE DEF n
<1>5. freed \in Life
  BY <1>1, <1>3 DEF Life
<1>6. /\ IsFiniteSet(DOMAIN m.live) /\ DOMAIN m.live \subseteq Nat
      /\ \A a \in DOMAIN m.live : m.live[a] \in LiveEntry
      /\ m.bytes = Total(f)
      /\ m.peakCount \in Nat /\ m.peakBytes \in Nat /\ m.unmatched \in Nat
      /\ m.lifetimes \in Seq(Life)
  BY DEF ReplayType
<1>7. /\ IsFiniteSet(DOMAIN n.live) /\ DOMAIN n.live \subseteq Nat
      /\ \A a \in DOMAIN n.live : n.live[a] \in LiveEntry
  BY <1>4, <1>6, FS_Subset
<1>8. n.lifetimes \in Seq(Life)
  <2> HIDE DEF freed
  <2> QED
    BY <1>4, <1>5, <1>6
<1>9. n.bytes = Total(g)
  <2>1. /\ DOMAIN f = DOMAIN m.live /\ \A a \in DOMAIN f : f[a] = m.live[a].size
        /\ DOMAIN g = DOMAIN n.live /\ \A a \in DOMAIN g : g[a] = n.live[a].size
    BY DEF SizesLive
  <2>2. \A a \in DOMAIN f : f[a] \in Int
    BY <1>6, <2>1 DEF LiveEntry
  <2>3. DOMAIN g = DOMAIN f \ {r.addr} /\ f[r.addr] = was.size /\ r.addr \in DOMAIN f
    BY <1>4, <2>1
  <2>4. \A a \in DOMAIN g : g[a] = f[a]
    BY <1>4, <2>1
  <2>5. IsFiniteSet(DOMAIN f)
    BY <1>6, <2>1
  <2> HIDE DEF f, g, was
  <2>6. Total(g) = Total(f) - f[r.addr]
    BY <2>2, <2>3, <2>4, <2>5, TotalTake
  <2> QED
    BY <1>4, <1>6, <2>3, <2>6
<1>10. ReplayType(n)
  BY <1>4, <1>6, <1>7, <1>8, <1>9 DEF ReplayType
<1> QED
  BY <1>10 DEF n

LEMMA TypeOther ==
  ASSUME NEW m, ReplayType(m), NEW r, Shape(r),
         \/ IsMap(r) /\ ~MapOk(r)
         \/ r.event = "unmap" /\ r.addr \notin DOMAIN m.live
  PROVE  ReplayType(CorrelateRecord(m, r))
<1> DEFINE n == CorrelateRecord(m, r)
<1>1. DOMAIN m = Fields
  BY DEF ReplayType
<1>2. /\ DOMAIN n = Fields /\ n.live = m.live /\ n.bytes = m.bytes
      /\ n.peakCount = m.peakCount /\ n.peakBytes = m.peakBytes
      /\ n.unmatched = IF IsMap(r) THEN m.unmatched ELSE m.unmatched + 1
      /\ n.lifetimes = m.lifetimes
  BY <1>1, OtherCorrelated
<1> HIDE DEF n
<1>3. SizesLive(n) = SizesLive(m)
  BY <1>2 DEF SizesLive
<1>4. n.unmatched \in Nat
  BY <1>2 DEF ReplayType
<1> HIDE DEF n
<1>5. ReplayType(n)
  BY <1>2, <1>3, <1>4 DEF ReplayType
<1> QED
  BY <1>5 DEF n

\* The records of events, in some order.
Events(s) == \E n \in Nat : s = [i \in 1 .. n |-> s[i]]
                            /\ \A i \in 1 .. n : Shape(s[i]) /\ IsEvent(s[i])

LEMMA ReplayTyped ==
  ASSUME NEW s, Events(s)
  PROVE  ReplayType(Replay(s))
<1>1. PICK c \in Nat : /\ s = [i \in 1 .. c |-> s[i]]
                       /\ \A i \in 1 .. c : Shape(s[i]) /\ IsEvent(s[i])
  BY DEF Events
<1> DEFINE pre(n) == [i \in 1 .. n |-> s[i]]
           T == {n \in Nat : n <= c => ReplayType(Replay(pre(n)))}
<1>2. 0 \in T
  <2>1. pre(0) = << >>
    OBVIOUS
  <2> HIDE DEF pre
  <2> QED
    BY <2>1, ReplayNone, TypeNone
<1>3. ASSUME NEW n \in Nat, n \in T
      PROVE  n + 1 \in T
  <2> SUFFICES ASSUME n + 1 <= c PROVE ReplayType(Replay(pre(n + 1)))
    OBVIOUS
  <2> DEFINE m == Replay(pre(n))
             r == s[n + 1]
  <2>1. ReplayType(m) /\ Shape(r) /\ IsEvent(r)
    BY <1>1, <1>3
  <2>2. Replay(pre(n + 1)) = CorrelateRecord(m, r)
    <3>1. /\ DOMAIN pre(n) = 1 .. n /\ DOMAIN pre(n + 1) = 1 .. n + 1 /\ n + 1 \in Nat
          /\ \A i \in 1 .. n : pre(n)[i] = pre(n + 1)[i]
          /\ pre(n + 1)[n + 1] = r
      OBVIOUS
    <3> HIDE DEF pre, r
    <3> QED
      BY <3>1, ReplayMore
  <2> HIDE DEF m, r, pre
  <2>3. ReplayType(CorrelateRecord(m, r))
    <3>1. CASE MapOk(r)
      BY <2>1, <3>1, TypeMap
    <3>2. CASE IsMap(r) /\ ~MapOk(r)
      BY <2>1, <3>2, TypeOther
    <3>3. CASE r.event = "unmap" /\ r.addr \in DOMAIN m.live
      BY <2>1, <3>3, TypeUnmap
    <3>4. CASE r.event = "unmap" /\ r.addr \notin DOMAIN m.live
      BY <2>1, <3>4, TypeOther
    <3> QED
      BY <2>1, <3>1, <3>2, <3>3, <3>4 DEF IsEvent, IsMap
  <2> QED
    BY <2>2, <2>3
<1>4. Nat \subseteq T
  <2> HIDE DEF T
  <2> QED
    BY <1>2, <1>3, Induction
<1>5. ReplayType(Replay(pre(c)))
  BY <1>4
<1> QED
  BY <1>1, <1>5

-----------------------------------------------------------------------------
(* The events of a process, as its file grows.                             *)

\* Records a fleet may have written.
Logged(R) == (\E n \in Nat : DOMAIN R = 1 .. n) /\ \A n \in DOMAIN R : Shape(R[n])
ReplayIn(R, p) == Replay(ByTime(R, EventsOf(R, p)))

LEMMA EventsAre ==
  ASSUME NEW R, Logged(R), NEW p
  PROVE  /\ EventsOf(R, p) = {n \in DOMAIN R : IsEvent(R[n]) /\ R[n].pid = p}
         /\ Timed(R, EventsOf(R, p))
<1>1. \A n \in DOMAIN R : /\ Get(R[n], "pid", NULL) = R[n].pid
                          /\ Get(R[n], "ts", 0) = R[n].ts /\ R[n].ts \in Nat
  BY ShapeIs DEF Logged
<1>2. EventsOf(R, p) = {n \in DOMAIN R : IsEvent(R[n]) /\ R[n].pid = p}
  BY <1>1 DEF EventsOf
<1>3. PICK c \in Nat : DOMAIN R = 1 .. c
  BY DEF Logged
<1>4. IsFiniteSet(1 .. c)
  BY FS_Interval
<1>5. EventsOf(R, p) \subseteq 1 .. c
  BY <1>2, <1>3
<1>6. IsFiniteSet(EventsOf(R, p))
  BY <1>4, <1>5, FS_Subset
<1>7. \A i \in EventsOf(R, p) : Get(R[i], "ts", 0) \in Int
  BY <1>1, <1>3, <1>5
<1>8. EventsOf(R, p) \subseteq Nat
  BY <1>5
<1> QED
  BY <1>2, <1>6, <1>7, <1>8 DEF Timed

LEMMA ReplayInTyped ==
  ASSUME NEW R, Logged(R), NEW p
  PROVE  ReplayType(ReplayIn(R, p))
<1> DEFINE at == EventsOf(R, p)
           s == ByTime(R, at)
           c == Cardinality(at)
<1>1. /\ at = {n \in DOMAIN R : IsEvent(R[n]) /\ R[n].pid = p} /\ Timed(R, at)
  BY EventsAre
<1> HIDE DEF at
<1>2. /\ c \in Nat /\ DOMAIN s = 1 .. c
      /\ \A i \in at : s[Place(R, at, i)] = R[i]
      /\ \A n \in 1 .. c : \E i \in at : Place(R, at, i) = n
  <2> HIDE DEF s, c
  <2>1. c = Cardinality(at) /\ s = ByTime(R, at)
    BY DEF s, c
  <2>2. Timed(R, at)
    BY <1>1
  <2>3. /\ Cardinality(at) \in Nat /\ DOMAIN ByTime(R, at) = 1 .. Cardinality(at)
        /\ \A i \in at : ByTime(R, at)[Place(R, at, i)] = R[i]
        /\ \A n \in 1 .. Cardinality(at) : \E i \in at : Place(R, at, i) = n
    BY ONLY <2>2, ByTimeIs
  <2> QED
    BY ONLY <2>1, <2>3
<1>3. s = [n \in 1 .. c |-> s[n]]
  BY DEF ByTime
<1> HIDE DEF s, c
<1>4. \A n \in 1 .. c : Shape(s[n]) /\ IsEvent(s[n])
  <2> TAKE n \in 1 .. c
  <2>1. PICK i \in at : Place(R, at, i) = n
    BY <1>2
  <2>2. s[n] = R[i]
    BY <1>2, <2>1
  <2> QED
    BY <1>1, <2>2 DEF Logged
<1>5. ReplayType(Replay(s))
  BY <1>2, <1>3, <1>4, ReplayTyped DEF Events
<1> QED
  BY <1>5 DEF s, at, ReplayIn

\* Nothing that has to do with the process was written.
LEMMA ReplaySame ==
  ASSUME NEW R, Logged(R), NEW Q, Logged(Q), Begins(R, Q), NEW p,
         \A n \in DOMAIN Q \ DOMAIN R : ~(IsEvent(Q[n]) /\ Q[n].pid = p)
  PROVE  /\ EventsOf(Q, p) = EventsOf(R, p) /\ ReplayIn(Q, p) = ReplayIn(R, p)
         /\ p \in Pids(Q) <=> p \in Pids(R)
<1> DEFINE at == EventsOf(R, p)
           b == [i \in at |-> i]
<1>1. /\ at = {n \in DOMAIN R : IsEvent(R[n]) /\ R[n].pid = p} /\ Timed(R, at)
  BY EventsAre
<1>2. EventsOf(Q, p) = {n \in DOMAIN Q : IsEvent(Q[n]) /\ Q[n].pid = p} /\ Timed(Q, EventsOf(Q, p))
  BY EventsAre
<1> HIDE DEF at
<1>3. EventsOf(Q, p) = at
  BY <1>1, <1>2 DEF Begins
<1>4. \A i \in at : Q[i] = R[i]
  BY <1>1 DEF Begins
<1>5. ByTime(Q, at) = ByTime(R, at)
  <2>1. Timed(R, at) /\ Timed(Q, at)
    BY <1>1, <1>2, <1>3
  <2>2. DOMAIN b = at /\ \A i \in at : b[i] = i
    OBVIOUS
  <2> HIDE DEF b
  <2>3. at = {b[i] : i \in at}
    BY <2>2
  <2>4. \A i, j \in at : Before(Q, i, j) <=> Before(R, b[i], b[j])
    BY <1>4, <2>2 DEF Before
  <2>5. (\A i, j \in at : b[i] = b[j] => i = j) /\ \A i \in at : Q[i] = R[b[i]]
    BY <1>4, <2>2
  <2> QED
    BY <2>1, <2>2, <2>3, <2>4, <2>5, SameOrder
<1>6. p \in Pids(R) <=> EventsOf(R, p) # {}
  BY DEF Pids, EventsOf
<1>7. p \in Pids(Q) <=> EventsOf(Q, p) # {}
  BY DEF Pids, EventsOf
<1> QED
  BY <1>3, <1>5, <1>6, <1>7 DEF at, ReplayIn

\* One more event, not before any of the process.
LEMMA ReplayNext ==
  ASSUME NEW R, Logged(R), NEW Q, Logged(Q), Begins(R, Q), NEW c \in Nat,
         DOMAIN R = 1 .. c, DOMAIN Q = 1 .. c + 1, IsEvent(Q[c + 1]),
         \A n \in DOMAIN R : R[n].ts <= Q[c + 1].ts
  PROVE  LET p == Q[c + 1].pid
         IN  /\ ReplayIn(Q, p) = CorrelateRecord(ReplayIn(R, p), Q[c + 1])
             /\ p \in Pids(Q)
             /\ \A q : q # p => /\ ReplayIn(Q, q) = ReplayIn(R, q)
                                /\ q \in Pids(Q) <=> q \in Pids(R)
<1> DEFINE m == c + 1
           p == Q[m].pid
           at == EventsOf(R, p)
<1>1. /\ at = {n \in DOMAIN R : IsEvent(R[n]) /\ R[n].pid = p} /\ Timed(R, at)
  BY EventsAre
<1>2. EventsOf(Q, p) = {n \in DOMAIN Q : IsEvent(Q[n]) /\ Q[n].pid = p} /\ Timed(Q, EventsOf(Q, p))
  BY EventsAre
<1> HIDE DEF at
<1>3. m \in Nat /\ m \notin 1 .. c /\ 1 .. m = (1 .. c) \cup {m}
  OBVIOUS
<1>4. EventsOf(Q, p) = at \cup {m}
  BY <1>1, <1>2, <1>3 DEF Begins
<1>5. ASSUME NEW i \in at
      PROVE  Q[i] = R[i] /\ i < m /\ Get(R[i], "ts", 0) <= Get(Q[m], "ts", 0)
  <2>1. i \in 1 .. c /\ m \in DOMAIN Q
    BY <1>1, <1>3
  <2>2. Get(R[i], "ts", 0) = R[i].ts /\ Get(Q[m], "ts", 0) = Q[m].ts
    BY <2>1, ShapeIs DEF Logged
  <2> QED
    BY <2>1, <2>2 DEF Begins
<1>6. m \notin at /\ Timed(Q, at \cup {m})
  BY <1>1, <1>2, <1>3, <1>4
<1> HIDE DEF m
<1>7. Replay(ByTime(Q, at \cup {m})) = CorrelateRecord(Replay(ByTime(R, at)), Q[m])
  BY <1>1, <1>3, <1>5, <1>6, LastEvent
<1>8. ReplayIn(Q, p) = CorrelateRecord(ReplayIn(R, p), Q[m])
  BY <1>4, <1>7 DEF at, ReplayIn
<1>9. p \in Pids(Q)
  <2>1. m \in EventsOf(Q, p)
    BY <1>4
  <2> HIDE DEF p
  <2> QED
    BY <2>1 DEF Pids, EventsOf
<1>10. ASSUME NEW q, q # p
       PROVE  /\ ReplayIn(Q, q) = ReplayIn(R, q)
              /\ q \in Pids(Q) <=> q \in Pids(R)
  <2>1. \A n \in DOMAIN Q \ DOMAIN R : n = m
    BY DEF m
  <2>2. \A n \in DOMAIN Q \ DOMAIN R : ~(IsEvent(Q[n]) /\ Q[n].pid = q)
    BY <1>10, <2>1
  <2> QED
    BY <2>2, ReplaySame
<1> QED
  BY <1>8, <1>9, <1>10 DEF m

LEMMA LoggedAre == FileInv => Logged(Records)
<1> SUFFICES ASSUME FileInv PROVE Logged(Records)
  OBVIOUS
<1> QED
  BY RecordsAre DEF Logged

-----------------------------------------------------------------------------
(* What a process has, and what the replay of its events has.              *)

On(now) == {n \in Names : now[n] # NULL}
At(now) == {now[n].addr : n \in On(now)}
Maps == [Names -> Region \cup {NULL}]
Peaks == [count : Nat, bytes : Nat]

Owns(now, fl, m) ==
  \A n \in On(now) :
    /\ now[n].addr \in DOMAIN m.live
    /\ m.live[now[n].addr] = [size |-> now[n].size, ts |-> now[n].since,
                              name |-> n, flags |-> fl]
Knows(now, pk, fl, od, lt, m) ==
  /\ Owns(now, fl, m)
  /\ pk.count <= m.peakCount /\ (od = {} => pk.bytes <= m.peakBytes)
  /\ m.last = lt
Exact(now, pk, od, dn, m) ==
  /\ DOMAIN m.live = At(now)
  /\ m.peakCount = pk.count /\ m.peakBytes <= pk.bytes
  /\ od = {} => m.lifetimes = dn /\ m.peakBytes = pk.bytes

LEMMA OnIs ==
  ASSUME NEW now \in Maps
  PROVE  /\ IsFiniteSet(On(now)) /\ Cardinality(On(now)) \in Nat /\ On(now) \subseteq Names
         /\ \A n \in On(now) : /\ now[n].addr \in Nat /\ now[n].size \in Nat
                               /\ now[n].since \in Nat
<1>1. On(now) \subseteq Names /\ \A n \in On(now) : now[n] \in Region
  BY DEF On, Maps
<1>2. IsFiniteSet(On(now))
  BY <1>1, FleetAssumption, FS_Subset
<1>3. Cardinality(On(now)) \in Nat
  BY <1>2, FS_CardinalityType
<1> QED
  BY <1>1, <1>2, <1>3 DEF Region

LEMMA OwnsIs ==
  ASSUME NEW now, NEW fl, NEW m, Owns(now, fl, m), NEW n \in On(now)
  PROVE  /\ now[n].addr \in DOMAIN m.live /\ m.live[now[n].addr].name = n
         /\ m.live[now[n].addr].size = now[n].size /\ m.live[now[n].addr].ts = now[n].since
         /\ m.live[now[n].addr].flags = fl
<1>1. m.live[now[n].addr] = [size |-> now[n].size, ts |-> now[n].since,
                             name |-> n, flags |-> fl]
  BY DEF Owns
<1>2. now[n].addr \in DOMAIN m.live
  BY DEF Owns
<1> DEFINE e == m.live[now[n].addr]
<1>3. e = [size |-> now[n].size, ts |-> now[n].since, name |-> n, flags |-> fl]
  BY <1>1
<1> HIDE DEF e
<1>4. e.name = n /\ e.size = now[n].size /\ e.ts = now[n].since /\ e.flags = fl
  BY <1>3
<1> QED
  BY <1>2, <1>4 DEF e

\* The replay has no less than the process, and as much if it has nothing else.
LEMMA LiveHas ==
  ASSUME NEW now \in Maps, NEW fl, NEW m, ReplayType(m), Owns(now, fl, m)
  PROVE  /\ SizesOf(now) \in Nat
         /\ Cardinality(On(now)) <= Cardinality(DOMAIN m.live)
         /\ SizesOf(now) <= m.bytes
         /\ DOMAIN m.live = At(now) => /\ Cardinality(On(now)) = Cardinality(DOMAIN m.live)
                                       /\ SizesOf(now) = m.bytes
<1> DEFINE f == [n \in On(now) |-> now[n].size]
           b == [n \in On(now) |-> now[n].addr]
           g == [a \in At(now) |-> m.live[a].size]
           h == SizesLive(m)
<1>1. /\ IsFiniteSet(On(now)) /\ Cardinality(On(now)) \in Nat
      /\ \A n \in On(now) : now[n].addr \in Nat /\ now[n].size \in Nat
  BY OnIs
<1>2. /\ DOMAIN f = On(now) /\ DOMAIN b = On(now) /\ DOMAIN g = {b[n] : n \in On(now)}
      /\ DOMAIN g = At(now) /\ DOMAIN h = DOMAIN m.live
  BY DEF At, SizesLive
<1>3. \A x, y \in On(now) : b[x] = b[y] => x = y
  <2> SUFFICES ASSUME NEW x \in On(now), NEW y \in On(now), b[x] = b[y] PROVE x = y
    OBVIOUS
  <2>1. now[x].addr = now[y].addr
    OBVIOUS
  <2>2. m.live[now[x].addr].name = x /\ m.live[now[y].addr].name = y
    BY OwnsIs
  <2> QED
    BY <2>1, <2>2
<1>4. \A n \in On(now) : f[n] \in Int /\ g[b[n]] = f[n]
  <2> TAKE n \in On(now)
  <2>1. m.live[now[n].addr].size = now[n].size
    BY OwnsIs
  <2>2. now[n].addr \in At(now)
    BY DEF At
  <2> QED
    BY <1>1, <2>1, <2>2
<1>5. At(now) \subseteq DOMAIN m.live
  BY DEF At, Owns
<1>6. /\ \A a \in DOMAIN h : h[a] \in Nat
      /\ \A a \in DOMAIN g : g[a] = h[a] /\ a \in DOMAIN h
      /\ IsFiniteSet(DOMAIN h)
  BY <1>5, LiveIs DEF SizesLive, ReplayType
<1>7. SizesOf(now) = Total(f)
  BY DEF SizesOf, On
<1>8. m.bytes = Total(h)
  BY DEF ReplayType
<1> HIDE DEF f, b, g, h
<1>9. IsFiniteSet(DOMAIN g) /\ Total(g) = Total(f) /\ Cardinality(DOMAIN g) = Cardinality(DOMAIN f)
  BY <1>1, <1>2, <1>3, <1>4, TotalRename
<1>10. \A a \in DOMAIN g : g[a] \in Nat /\ (g[a] > 0 => a \in DOMAIN h /\ g[a] <= h[a])
  BY <1>6
<1>11. Total(g) \in Nat /\ Total(h) \in Nat /\ Total(g) <= Total(h)
  BY <1>6, <1>9, <1>10, TotalAtMost
<1>12. Cardinality(At(now)) <= Cardinality(DOMAIN m.live)
  BY <1>2, <1>5, <1>6, FS_Subset
<1>13. ASSUME DOMAIN m.live = At(now)
       PROVE  Total(g) = Total(h)
  BY <1>2, <1>6, <1>9, <1>13, TotalSame
<1> QED
  BY <1>2, <1>7, <1>8, <1>9, <1>11, <1>12, <1>13

-----------------------------------------------------------------------------
(* A call of a process and the record of it.                               *)

\* What on_map does to the entries and the peaks of a process, at an address that no
\* other name has; on is empty if nothing is odd after it.
PutIn(now, new, pk, pn, b, od, on, r, n) ==
  /\ \A x \in On(now) \ {n} : now[x].addr # r.addr
  /\ now[n] # NULL => now[n].addr = r.addr
  /\ new[n] = [addr |-> r.addr, size |-> r.size, since |-> r.ts]
  /\ \A x \in Names \ {n} : new[x] = now[x]
  /\ pn.count = Larger(pk.count, Cardinality(On(now) \cup {n}))
  /\ pn.bytes = Larger(pk.bytes, b) /\ SizesOf(new) <= b
  /\ on = {} => od = {} /\ SizesOf(new) = b

\* And on_unmap of an entry.
TakenOut(now, new, fl, od, on, dn, dm, r, n) ==
  /\ r.addr = now[n].addr
  /\ new[n] = NULL /\ \A x \in Names \ {n} : new[x] = now[x]
  /\ on = {} => od = {}
  /\ od = {} => dm = Append(dn, [size |-> now[n].size, flags |-> fl,
                                 life |-> r.ts - now[n].since])

LEMMA MapTells ==
  ASSUME NEW m, ReplayType(m), NEW r, Shape(r), MapOk(r), NEW w, w = CorrelateRecord(m, r)
  PROVE  /\ w.last = r.ts
         /\ DOMAIN w.live = DOMAIN m.live \cup {r.addr}
         /\ w.live[r.addr] = Entry(r)
         /\ \A a \in DOMAIN m.live \ {r.addr} : w.live[a] = m.live[a]
         /\ w.peakCount = Larger(m.peakCount, Cardinality(DOMAIN m.live \cup {r.addr}))
         /\ w.peakBytes = Larger(m.peakBytes, w.bytes)
         /\ w.unmatched = m.unmatched /\ w.lifetimes = m.lifetimes
<1>1. DOMAIN m = Fields
  BY DEF ReplayType
<1> QED
  BY <1>1, MapCorrelated

LEMMA LargerMore ==
  ASSUME NEW a \in Int, NEW b \in Int, NEW c \in Int, NEW d \in Int, a <= c, b <= d
  PROVE  Larger(a, b) <= Larger(c, d)
BY DEF Larger

LEMMA KnowsMap ==
  ASSUME NEW now \in Maps, NEW new \in Maps, NEW pk \in Peaks, NEW pn \in Peaks,
         NEW fl, NEW od, NEW on, NEW lt, NEW dn, NEW m, ReplayType(m),
         Knows(now, pk, fl, od, lt, m),
         NEW r, Shape(r), MapOk(r), r.flags = fl, NEW n \in Names, r.name = n,
         NEW b \in Int, PutIn(now, new, pk, pn, b, od, on, r, n), NEW w, w = CorrelateRecord(m, r)
  PROVE  /\ ReplayType(w) /\ Knows(new, pn, fl, on, r.ts, w)
         /\ w.unmatched = m.unmatched
         /\ w.peakCount >= m.peakCount /\ w.peakBytes >= m.peakBytes
         /\ Exact(now, pk, od, dn, m) => Exact(new, pn, on, dn, w)
<1>0. /\ \A x \in On(now) \ {n} : now[x].addr # r.addr
      /\ now[n] # NULL => now[n].addr = r.addr
      /\ new[n] = [addr |-> r.addr, size |-> r.size, since |-> r.ts]
      /\ \A x \in Names \ {n} : new[x] = now[x]
      /\ pn.count = Larger(pk.count, Cardinality(On(now) \cup {n}))
  BY DEF PutIn
<1>1. /\ pn.bytes = Larger(pk.bytes, b) /\ SizesOf(new) <= b
      /\ on = {} => od = {} /\ SizesOf(new) = b
  BY DEF PutIn
<1>2. /\ w.last = r.ts
      /\ DOMAIN w.live = DOMAIN m.live \cup {r.addr}
      /\ w.live[r.addr] = Entry(r)
      /\ \A a \in DOMAIN m.live \ {r.addr} : w.live[a] = m.live[a]
      /\ w.peakCount = Larger(m.peakCount, Cardinality(DOMAIN m.live \cup {r.addr}))
      /\ w.peakBytes = Larger(m.peakBytes, w.bytes)
      /\ w.unmatched = m.unmatched /\ w.lifetimes = m.lifetimes
  BY MapTells
<1>3. /\ ReplayType(w) /\ w.bytes \in Nat
      /\ w.peakCount >= m.peakCount /\ w.peakBytes >= m.peakBytes
  BY TypeMap
<1>4. new[n] # NULL
  <2>1. new[n] \in Region
    <3>0. new[n] = [addr |-> r.addr, size |-> r.size, since |-> r.ts]
      BY <1>0
    <3>1. r.addr \in Nat /\ r.size \in Nat /\ r.ts \in Nat
      BY MapOkIs, ShapeIs
    <3> QED
      BY <3>0, <3>1 DEF Region
  <2> QED
    BY <2>1, NullIs
<1>5. On(new) = On(now) \cup {n}
  BY <1>0, <1>4 DEF On
<1>6. \A x \in On(now) \ {n} : new[x] = now[x]
  BY <1>0 DEF On
<1>7. At(new) = At(now) \cup {r.addr}
  <2>1. new[n].addr = r.addr
    BY <1>0
  <2>2. \A x \in On(now) \ {n} : new[x].addr = now[x].addr
    BY <1>6
  <2>3. n \in On(now) => now[n].addr = r.addr
    BY <1>0 DEF On
  <2> QED
    BY <1>5, <2>1, <2>2, <2>3 DEF At
<1>8. Owns(new, fl, w)
  <2> SUFFICES ASSUME NEW x \in On(new)
               PROVE  /\ new[x].addr \in DOMAIN w.live
                      /\ w.live[new[x].addr] = [size |-> new[x].size, ts |-> new[x].since,
                                                name |-> x, flags |-> fl]
    BY DEF Owns
  <2>1. CASE x = n
    <3>1. new[x].addr = r.addr /\ new[x].size = r.size /\ new[x].since = r.ts
      BY <1>0, <2>1
    <3>2. w.live[new[x].addr] = Entry(r) /\ new[x].addr \in DOMAIN w.live
      BY <1>2, <3>1
    <3> QED
      BY <2>1, <3>1, <3>2 DEF Entry
  <2>2. CASE x # n
    <3>1. x \in On(now) \ {n} /\ new[x] = now[x]
      BY <1>5, <1>6, <2>2
    <3>2. now[x].addr \in DOMAIN m.live
      BY <3>1 DEF Knows, Owns
    <3>3. m.live[now[x].addr] = [size |-> now[x].size, ts |-> now[x].since,
                                 name |-> x, flags |-> fl]
      BY <3>1 DEF Knows, Owns
    <3>4. now[x].addr # r.addr
      BY <1>0, <3>1
    <3>5. w.live[now[x].addr] = m.live[now[x].addr] /\ now[x].addr \in DOMAIN w.live
      BY <1>2, <3>2, <3>4
    <3> QED
      BY <3>1, <3>3, <3>5
  <2> QED
    BY <2>1, <2>2
<1>9. /\ SizesOf(new) \in Nat
      /\ Cardinality(On(new)) <= Cardinality(DOMAIN w.live)
      /\ SizesOf(new) <= w.bytes
      /\ DOMAIN w.live = At(new) => /\ Cardinality(On(new)) = Cardinality(DOMAIN w.live)
                                    /\ SizesOf(new) = w.bytes
  BY <1>3, <1>8, LiveHas
<1>10. Cardinality(On(new)) \in Nat /\ pn.count = Larger(pk.count, Cardinality(On(new)))
  BY <1>0, <1>5, OnIs
<1>11. /\ Cardinality(DOMAIN w.live) \in Nat /\ m.peakCount \in Nat /\ m.peakBytes \in Nat
       /\ pk.count \in Nat /\ pk.bytes \in Nat
       /\ w.peakCount = Larger(m.peakCount, Cardinality(DOMAIN w.live))
  BY <1>2, <1>3, LiveIs DEF ReplayType, Peaks
<1>12. pn.count <= w.peakCount
  <2>1. pk.count <= m.peakCount
    BY DEF Knows
  <2>2. Cardinality(On(new)) <= Cardinality(DOMAIN w.live)
    BY <1>9
  <2> QED
    BY <1>10, <1>11, <2>1, <2>2, LargerMore
<1>13. on = {} => pn.bytes <= w.peakBytes
  <2>1. on = {} => pk.bytes <= m.peakBytes
    BY <1>1 DEF Knows
  <2> QED
    BY <1>1, <1>2, <1>3, <1>9, <1>11, <2>1 DEF Larger
<1>14. ASSUME Exact(now, pk, od, dn, m)
       PROVE  Exact(new, pn, on, dn, w)
  <2>1. DOMAIN w.live = At(new)
    BY <1>2, <1>7, <1>14 DEF Exact
  <2>2. w.peakCount = pn.count
    BY <1>9, <1>10, <1>11, <1>14, <2>1 DEF Exact
  <2>3. SizesOf(new) = w.bytes /\ m.peakBytes <= pk.bytes
    BY <1>9, <1>14, <2>1 DEF Exact
  <2>4. w.peakBytes <= pn.bytes
    BY <1>1, <1>2, <1>3, <1>11, <2>3 DEF Larger
  <2>5. on = {} => w.lifetimes = dn /\ w.peakBytes = pn.bytes
    BY <1>1, <1>2, <1>14, <2>3 DEF Exact
  <2> QED
    BY <2>1, <2>2, <2>4, <2>5 DEF Exact
<1>15. Knows(new, pn, fl, on, r.ts, w)
  BY <1>2, <1>8, <1>12, <1>13 DEF Knows
<1> QED
  BY <1>2, <1>3, <1>14, <1>15

LEMMA KnowsUnmap ==
  ASSUME NEW now \in Maps, NEW new \in Maps, NEW pk \in Peaks,
         NEW fl, NEW od, NEW on, NEW lt, NEW dn, NEW dm,
         NEW m, ReplayType(m), Knows(now, pk, fl, od, lt, m),
         NEW r, Shape(r), r.event = "unmap", NEW n \in On(now),
         TakenOut(now, new, fl, od, on, dn, dm, r, n), NEW w, w = CorrelateRecord(m, r)
  PROVE  /\ ReplayType(w) /\ Knows(new, pk, fl, on, r.ts, w)
         /\ w.unmatched = m.unmatched
         /\ w.peakCount >= m.peakCount /\ w.peakBytes >= m.peakBytes
         /\ Exact(now, pk, od, dn, m) => Exact(new, pk, on, dm, w)
<1> DEFINE was == m.live[r.addr]
           freed == [size |-> now[n].size, flags |-> fl, life |-> r.ts - now[n].since]
           gone == [size |-> was.size, life |-> r.ts - was.ts, flags |-> was.flags]
<1>0. /\ r.addr = now[n].addr
      /\ new[n] = NULL /\ \A x \in Names \ {n} : new[x] = now[x]
      /\ on = {} => od = {}
      /\ od = {} => dm = Append(dn, freed)
  BY DEF TakenOut
<1>1. Owns(now, fl, m)
  BY DEF Knows
<1>2. /\ r.addr \in DOMAIN m.live /\ was.size = now[n].size /\ was.ts = now[n].since
      /\ was.flags = fl /\ was.name = n
  BY <1>0, <1>1, OwnsIs
<1>3. DOMAIN m = Fields /\ was.ts \in Int
  BY <1>2, LiveIs DEF ReplayType
<1>4. /\ w.last = r.ts
      /\ DOMAIN w.live = DOMAIN m.live \ {r.addr}
      /\ \A a \in DOMAIN m.live \ {r.addr} : w.live[a] = m.live[a]
      /\ w.peakCount = m.peakCount /\ w.peakBytes = m.peakBytes
      /\ w.unmatched = m.unmatched
      /\ w.lifetimes = Append(m.lifetimes, gone)
  BY <1>2, <1>3, UnmapCorrelated
<1>5. gone = freed
  BY <1>2
<1>6. ReplayType(w)
  BY <1>2, TypeUnmap
<1>7. w.peakCount >= m.peakCount /\ w.peakBytes >= m.peakBytes
  BY <1>4 DEF ReplayType
<1> HIDE DEF gone, freed
<1>8. On(new) = On(now) \ {n} /\ \A x \in On(new) : new[x] = now[x]
  BY <1>0 DEF On
<1>9. \A x \in On(new) : now[x].addr # r.addr
  <2> TAKE x \in On(new)
  <2>1. x \in On(now) /\ x # n
    BY <1>8
  <2>2. m.live[now[x].addr].name = x
    BY <1>1, <2>1, OwnsIs
  <2> QED
    BY <1>2, <2>1, <2>2
<1>10. Owns(new, fl, w)
  <2> SUFFICES ASSUME NEW x \in On(new)
               PROVE  /\ new[x].addr \in DOMAIN w.live
                      /\ w.live[new[x].addr] = [size |-> new[x].size, ts |-> new[x].since,
                                                name |-> x, flags |-> fl]
    BY DEF Owns
  <2>1. x \in On(now) /\ new[x] = now[x]
    BY <1>8
  <2>2. now[x].addr \in DOMAIN m.live
    BY <1>1, <2>1 DEF Owns
  <2>3. m.live[now[x].addr] = [size |-> now[x].size, ts |-> now[x].since,
                               name |-> x, flags |-> fl]
    BY <1>1, <2>1 DEF Owns
  <2>4. w.live[now[x].addr] = m.live[now[x].addr] /\ now[x].addr \in DOMAIN w.live
    BY <1>4, <1>9, <2>2
  <2> QED
    BY <2>1, <2>3, <2>4
<1>11. Knows(new, pk, fl, on, r.ts, w)
  BY <1>0, <1>4, <1>10 DEF Knows
<1>12. At(new) = At(now) \ {r.addr}
  <2>1. \A x \in On(new) : new[x].addr = now[x].addr
    BY <1>8
  <2> QED
    BY <1>0, <1>8, <1>9, <2>1 DEF At
<1>13. ASSUME Exact(now, pk, od, dn, m)
       PROVE  Exact(new, pk, on, dm, w)
  BY <1>0, <1>4, <1>5, <1>12, <1>13 DEF Exact
<1> QED
  BY <1>4, <1>6, <1>7, <1>11, <1>13

\* Calls that change nothing the process has.
LEMMA KnowsOther ==
  ASSUME NEW now \in Maps, NEW pk \in Peaks,
         NEW fl, NEW od, NEW on, on = {} => od = {}, NEW lt, NEW dn, NEW dm,
         od = {} => dm = dn, NEW m, ReplayType(m), Knows(now, pk, fl, od, lt, m),
         NEW r, Shape(r),
         \/ IsMap(r) /\ ~MapOk(r)
         \/ r.event = "unmap" /\ r.addr \notin At(now)
  PROVE  LET w == CorrelateRecord(m, r) IN
         /\ ReplayType(w) /\ Knows(now, pk, fl, on, r.ts, w)
         /\ w.peakCount >= m.peakCount /\ w.peakBytes >= m.peakBytes
         /\ Exact(now, pk, od, dn, m) =>
              /\ Exact(now, pk, on, dm, w)
              /\ w.unmatched = IF IsMap(r) THEN m.unmatched ELSE m.unmatched + 1
<1> DEFINE w == CorrelateRecord(m, r)
<1>1. DOMAIN m = Fields /\ m.peakCount \in Nat /\ m.peakBytes \in Nat
  BY DEF ReplayType
<1>2. CASE \/ IsMap(r) /\ ~MapOk(r)
           \/ r.event = "unmap" /\ r.addr \notin DOMAIN m.live
  <2>1. /\ w.last = r.ts /\ w.live = m.live
        /\ w.peakCount = m.peakCount /\ w.peakBytes = m.peakBytes
        /\ w.unmatched = IF IsMap(r) THEN m.unmatched ELSE m.unmatched + 1
        /\ w.lifetimes = m.lifetimes
    BY <1>1, <1>2, OtherCorrelated
  <2>2. ReplayType(w)
    BY <1>2, TypeOther
  <2> HIDE DEF w
  <2>3. Knows(now, pk, fl, on, r.ts, w)
    BY <2>1 DEF Knows, Owns
  <2>4. Exact(now, pk, od, dn, m) => Exact(now, pk, on, dm, w)
    BY <2>1 DEF Exact
  <2>5. w.peakCount >= m.peakCount /\ w.peakBytes >= m.peakBytes
    BY <1>1, <2>1
  <2> QED
    BY <2>1, <2>2, <2>3, <2>4, <2>5 DEF w
<1>3. CASE r.event = "unmap" /\ r.addr \in DOMAIN m.live /\ r.addr \notin At(now)
  <2>1. m.live[r.addr].ts \in Int
    BY <1>3, LiveIs
  <2>2. /\ w.last = r.ts
        /\ DOMAIN w.live = DOMAIN m.live \ {r.addr}
        /\ \A a \in DOMAIN m.live \ {r.addr} : w.live[a] = m.live[a]
        /\ w.peakCount = m.peakCount /\ w.peakBytes = m.peakBytes
    BY <1>1, <1>3, <2>1, UnmapCorrelated
  <2>3. ReplayType(w)
    BY <1>3, TypeUnmap
  <2> HIDE DEF w
  <2>4. Owns(now, fl, w)
    <3> SUFFICES ASSUME NEW x \in On(now)
                 PROVE  /\ now[x].addr \in DOMAIN w.live
                        /\ w.live[now[x].addr] = [size |-> now[x].size, ts |-> now[x].since,
                                                  name |-> x, flags |-> fl]
      BY DEF Owns
    <3>1. now[x].addr \in DOMAIN m.live
      BY DEF Knows, Owns
    <3>2. m.live[now[x].addr] = [size |-> now[x].size, ts |-> now[x].since,
                                 name |-> x, flags |-> fl]
      BY DEF Knows, Owns
    <3>3. now[x].addr # r.addr
      BY <1>3 DEF At
    <3>4. w.live[now[x].addr] = m.live[now[x].addr] /\ now[x].addr \in DOMAIN w.live
      BY <2>2, <3>1, <3>3
    <3> QED
      BY <3>2, <3>4
  <2>5. Knows(now, pk, fl, on, r.ts, w)
    BY <2>2, <2>4 DEF Knows
  <2>6. ~Exact(now, pk, od, dn, m)
    BY <1>3 DEF Exact
  <2>7. w.peakCount >= m.peakCount /\ w.peakBytes >= m.peakBytes
    BY <1>1, <2>2
  <2> QED
    BY <2>3, <2>5, <2>6, <2>7 DEF w
<1>4. \/ IsMap(r) /\ ~MapOk(r)
      \/ r.event = "unmap" /\ r.addr \notin DOMAIN m.live
      \/ r.event = "unmap" /\ r.addr \in DOMAIN m.live /\ r.addr \notin At(now)
  OBVIOUS
<1> HIDE DEF w
<1> QED
  BY <1>2, <1>3, <1>4 DEF w

-----------------------------------------------------------------------------
(* What the file says of each process.                                     *)

Replays(p) ==
  /\ HasAll(p, ReplayOf(p))
  /\ runs[p] = 1 => HasOnly(p, ReplayOf(p))
  /\ p \in Pids(Records) <=> last[p] # NULL
  /\ last[p] # NULL => last[p] <= clock

LEMMA ReplaysIs ==
  ASSUME NEW p
  PROVE  /\ Replays(p) <=>
              /\ Knows(held[p], peak[p], Flags[p], odd[p], last[p], ReplayIn(Records, p))
              /\ runs[p] = 1 => Exact(held[p], peak[p], odd[p], done[p], ReplayIn(Records, p))
              /\ p \in Pids(Records) <=> last[p] # NULL
              /\ last[p] # NULL => last[p] <= clock
         /\ ReplayOf(p) = ReplayIn(Records, p)
<1>1. ReplayOf(p) = ReplayIn(Records, p)
  BY DEF ReplayOf, ReplayIn
<1> DEFINE m == ReplayIn(Records, p)
<1>2. /\ HasAll(p, m) <=> Knows(held[p], peak[p], Flags[p], odd[p], last[p], m)
      /\ HasOnly(p, m) <=> Exact(held[p], peak[p], odd[p], done[p], m)
  BY DEF HasAll, HasOnly, Knows, Exact, Owns, On, At, Listed
<1> HIDE DEF m
<1>3. ReplayOf(p) = m
  BY <1>1 DEF m
<1>4. /\ HasAll(p, ReplayOf(p)) <=> HasAll(p, m)
      /\ HasOnly(p, ReplayOf(p)) <=> HasOnly(p, m)
  BY <1>3 DEF HasAll, HasOnly
<1>5. Replays(p) <=>
        /\ Knows(held[p], peak[p], Flags[p], odd[p], last[p], m)
        /\ runs[p] = 1 => Exact(held[p], peak[p], odd[p], done[p], m)
        /\ p \in Pids(Records) <=> last[p] # NULL
        /\ last[p] # NULL => last[p] <= clock
  BY <1>2, <1>4 DEF Replays
<1> QED
  BY <1>1, <1>5 DEF m

LEMMA ReplaysNext ==
  ASSUME NEW p
  PROVE  /\ Replays(p)' <=>
              /\ Knows(held'[p], peak'[p], Flags[p], odd'[p], last'[p], ReplayIn(Records', p))
              /\ runs'[p] = 1 => Exact(held'[p], peak'[p], odd'[p], done'[p], ReplayIn(Records', p))
              /\ p \in Pids(Records') <=> last'[p] # NULL
              /\ last'[p] # NULL => last'[p] <= clock'
         /\ ReplayOf(p)' = ReplayIn(Records', p)
<1> DEFINE P == /\ Replays(p) <=>
                     /\ Knows(held[p], peak[p], Flags[p], odd[p], last[p], ReplayIn(Records, p))
                     /\ runs[p] = 1 => Exact(held[p], peak[p], odd[p], done[p], ReplayIn(Records, p))
                     /\ p \in Pids(Records) <=> last[p] # NULL
                     /\ last[p] # NULL => last[p] <= clock
                /\ ReplayOf(p) = ReplayIn(Records, p)
<1>1. P
  BY ReplaysIs
<1> HIDE DEF P
<1>2. P'
  BY <1>1, ReplaysIs, PTL DEF P
<1> QED
  BY <1>2 DEF P

LEMMA ReplayInvIs ==
  /\ ReplayInv <=> (~stepped => \A p \in Procs : Replays(p))
  /\ ReplayInv' <=> (~stepped' => \A p \in Procs : Replays(p)')
BY DEF ReplayInv, Replays

\* A process whose calls were not written about and that has not changed.
LEMMA ReplaysFrame ==
  ASSUME Types, NEW q \in Procs, Replays(q), clock' \in Nat, clock <= clock',
         held'[q] = held[q], peak'[q] = peak[q], last'[q] = last[q], done'[q] = done[q],
         runs'[q] = runs[q], odd'[q] = odd[q], ReplayIn(Records', q) = ReplayIn(Records, q),
         q \in Pids(Records') <=> q \in Pids(Records)
  PROVE  Replays(q)'
<1>1. last[q] # NULL => last[q] <= clock'
  <2>1. last[q] # NULL => last[q] \in Nat /\ last[q] <= clock
    BY ReplaysIs DEF Types
  <2>2. clock \in Nat
    BY DEF Types
  <2> QED
    BY <2>1, <2>2
<1>2. /\ Knows(held'[q], peak'[q], Flags[q], odd'[q], last'[q], ReplayIn(Records', q))
      /\ runs'[q] = 1 => Exact(held'[q], peak'[q], odd'[q], done'[q], ReplayIn(Records', q))
  BY ReplaysIs
<1>3. q \in Pids(Records') <=> last'[q] # NULL
  BY ReplaysIs
<1> QED
  BY <1>1, <1>2, <1>3, ReplaysNext

\* A call is written about.
LEMMA CallReplays ==
  ASSUME Types, FileInv, ~stepped, NEW p \in Procs, NEW r, Write(p, <<r>>),
         Shape(Stamped(p, r)), IsEvent(Stamped(p, r)), UNCHANGED <<clock, stepped>>
  PROVE  /\ FileInv' /\ Logged(Records) /\ Logged(Records')
         /\ ReplayIn(Records', p) = CorrelateRecord(ReplayIn(Records, p), Stamped(p, r))
         /\ p \in Pids(Records')
         /\ \A q \in Procs \ {p} : /\ ReplayIn(Records', q) = ReplayIn(Records, q)
                                   /\ q \in Pids(Records') <=> q \in Pids(Records)
<1> DEFINE R == Records
           Q == Records'
           c == Len(file)
           s == Stamped(p, r)
<1>1. /\ FileInv' /\ Begins(R, Q) /\ c \in Nat
      /\ DOMAIN R = 1 .. c /\ DOMAIN Q = 1 .. c + 1 /\ Q[c + 1] = s
  BY WritesOne
<1>2. Logged(R)
  BY LoggedAre
<1>3. Logged(Q)
  <2>1. FileInv' => Logged(Records)'
    BY LoggedAre, PTL
  <2> QED
    BY <1>1, <2>1
<1>4. s.pid = p /\ s.ts = clock
  BY StampedIs
<1>5. \A n \in DOMAIN R : R[n].ts <= s.ts
  <2>1. \A n \in DOMAIN R : R[n] = file[n].rec /\ n \in DOMAIN file
    BY RecordsAre
  <2> QED
    BY <1>4, <2>1 DEF FileInv
<1> HIDE DEF R, Q, c, s
<1>6. /\ ReplayIn(Q, p) = CorrelateRecord(ReplayIn(R, p), s)
      /\ p \in Pids(Q)
      /\ \A q : q # p => /\ ReplayIn(Q, q) = ReplayIn(R, q)
                         /\ q \in Pids(Q) <=> q \in Pids(R)
  <2>1. IsEvent(Q[c + 1]) /\ Q[c + 1].pid = p /\ \A n \in DOMAIN R : R[n].ts <= Q[c + 1].ts
    BY <1>1, <1>4, <1>5 DEF s
  <2> QED
    BY <1>1, <1>2, <1>3, <2>1, ReplayNext
<1> QED
  BY <1>1, <1>2, <1>3, <1>6 DEF R, Q, s

\* Only what a process writes as it exits, or nothing.
LEMMA ExitReplays ==
  ASSUME Types, FileInv, NEW p \in Procs, UNCHANGED <<clock, stepped>>,
         Write(p, ExitLines(p)) \/ file' = file
  PROVE  \A q \in Procs : /\ ReplayIn(Records', q) = ReplayIn(Records, q)
                          /\ q \in Pids(Records') <=> q \in Pids(Records)
<1>1. CASE file' = file
  <2>1. Records' = Records
    BY <1>1, NothingWritten
  <2> QED
    BY <2>1
<1>2. CASE Write(p, ExitLines(p))
  <2>1. PICK c \in Nat : /\ DOMAIN ExitLines(p) = 1 .. c + 1
                         /\ \A i \in 1 .. c + 1 : Shape(Stamped(p, ExitLines(p)[i]))
                         /\ \A i \in 1 .. c : Stamped(p, ExitLines(p)[i]).event = "live_at_exit"
                         /\ Stamped(p, ExitLines(p)[c + 1]).event = "summary"
    BY ExitLinesAre
  <2> DEFINE k == c + 1
             lines == ExitLines(p)
             R == Records
             Q == Records'
             len == Len(file)
  <2>2. k \in Nat /\ \A i \in 1 .. k : ~IsEvent(Stamped(p, lines[i]))
    <3>1. \A i \in 1 .. c + 1 : i \in 1 .. c \/ i = c + 1
      OBVIOUS
    <3> QED
      BY <2>1, <3>1 DEF IsEvent
  <2> HIDE DEF lines
  <2>3. /\ FileInv' /\ Begins(R, Q) /\ len \in Nat /\ DOMAIN R = 1 .. len
        /\ DOMAIN Q = 1 .. len + k
        /\ \A i \in 1 .. k : Q[len + i] = Stamped(p, lines[i])
    <3>1. DOMAIN lines = 1 .. k /\ Write(p, lines) /\ \A i \in 1 .. k : Shape(Stamped(p, lines[i]))
      BY <1>2, <2>1 DEF lines
    <3> HIDE DEF k
    <3> QED
      BY <2>2, <3>1, FileWrites
  <2>4. Logged(R)
    BY LoggedAre
  <2>5. Logged(Q)
    <3>1. FileInv' => Logged(Records)'
      BY LoggedAre, PTL
    <3> QED
      BY <2>3, <3>1
  <2> HIDE DEF R, Q, k, len
  <2>6. \A n \in DOMAIN Q \ DOMAIN R : ~IsEvent(Q[n])
    <3> TAKE n \in DOMAIN Q \ DOMAIN R
    <3>1. n - len \in 1 .. k /\ n = len + (n - len)
      BY <2>2, <2>3
    <3> QED
      BY <2>2, <2>3, <3>1
  <2>7. \A q \in Procs : /\ ReplayIn(Q, q) = ReplayIn(R, q)
                         /\ q \in Pids(Q) <=> q \in Pids(R)
    BY <2>3, <2>4, <2>5, <2>6, ReplaySame
  <2> QED
    BY <2>7 DEF Q, R
<1> QED
  BY <1>1, <1>2

LEMMA NoReplay ==
  ASSUME NEW R, Logged(R), NEW p, p \notin Pids(R)
  PROVE  ReplayIn(R, p) = NoRecords
<1> DEFINE at == EventsOf(R, p)
<1>1. at = {}
  BY DEF Pids, EventsOf
<1>2. ByTime(R, at) = << >>
  <2>1. Cardinality(at) = 0
    BY <1>1, FS_EmptySet
  <2> HIDE DEF at
  <2> QED
    BY <2>1 DEF ByTime
<1> HIDE DEF at
<1>3. Replay(ByTime(R, at)) = NoRecords
  BY <1>2, ReplayNone
<1> QED
  BY <1>3 DEF at, ReplayIn

LEMMA ReplayInit == Init => ReplayInv
<1> SUFFICES ASSUME Init PROVE \A p \in Procs : Replays(p)
  BY ReplayInvIs
<1> SUFFICES ASSUME NEW p \in Procs PROVE Replays(p)
  OBVIOUS
<1>1. FileInv
  BY FileInit
<1>2. DOMAIN Records = {}
  <2>1. DOMAIN Records = 1 .. Len(file) /\ Len(file) = 0
    BY <1>1, RecordsAre DEF Init
  <2> QED
    BY <2>1
<1>3. p \notin Pids(Records)
  BY <1>2 DEF Pids
<1>4. ReplayIn(Records, p) = NoRecords
  BY <1>1, <1>3, LoggedAre, NoReplay
<1>5. /\ held[p] = Nothing /\ peak[p] = NoPeak /\ done[p] = << >> /\ last[p] = NULL
  BY DEF Init
<1>6. On(Nothing) = {} /\ At(Nothing) = {}
  BY DEF On, At, Nothing
<1>7. Knows(held[p], peak[p], Flags[p], odd[p], last[p], NoRecords)
  BY <1>5, <1>6 DEF Knows, Owns, NoPeak, NoRecords
<1>8. Exact(held[p], peak[p], odd[p], done[p], NoRecords)
  BY <1>5, <1>6 DEF Exact, NoPeak, NoRecords
<1> QED
  BY <1>3, <1>4, <1>5, <1>7, <1>8, ReplaysIs

\* What a step may do to the replay of a process; k is the number of unmaps of
\* addresses that are not live it adds.
Grows(q, k) ==
  /\ ReplayIn(Records', q).peakCount >= ReplayIn(Records, q).peakCount
  /\ ReplayIn(Records', q).peakBytes >= ReplayIn(Records, q).peakBytes
  /\ runs[q] = 1 => ReplayIn(Records', q).unmatched = ReplayIn(Records, q).unmatched + k

LEMMA GrowsFrame ==
  ASSUME FileInv, NEW q, ReplayIn(Records', q) = ReplayIn(Records, q)
  PROVE  Grows(q, 0)
<1> DEFINE m == ReplayIn(Records, q)
<1>1. ReplayType(m)
  BY LoggedAre, ReplayInTyped
<1>2. m.peakCount \in Nat /\ m.peakBytes \in Nat /\ m.unmatched \in Nat
  BY <1>1 DEF ReplayType
<1> HIDE DEF m
<1>3. m.peakCount >= m.peakCount /\ m.peakBytes >= m.peakBytes /\ m.unmatched = m.unmatched + 0
  BY <1>2
<1> QED
  BY <1>3 DEF Grows, m

LEMMA HeldMaps ==
  ASSUME Types, NEW p \in Procs
  PROVE  /\ held[p] \in Maps /\ peak[p] \in Peaks /\ On(held[p]) = Listed(p)
         /\ \A n \in Listed(p) : held[p][n].addr \in At(held[p])
         /\ \A a \in At(held[p]) : \E n \in Listed(p) : a = held[p][n].addr
BY DEF Types, Maps, Peaks, On, At, Listed

\* Where the entries are, and the addresses the OS gives and is given.
LEMMA ApartIs ==
  ASSUME Types, NEW p \in Procs, EntryInv(p)
  PROVE  /\ \A n \in Mapped(p) : /\ \A m \in Listed(p) \ {n} : held[p][m].addr # mapped[p][n].addr
                                 /\ n \in Listed(p) => held[p][n].addr = mapped[p][n].addr
         /\ \A m \in Listed(p) : held[p][m].addr # Free(p)
         /\ \A n \in Mapped(p) : odd[p] = {} => /\ n \in Listed(p)
                                                /\ mapped[p][n].refs = 1
<1>1. Listed(p) \subseteq Mapped(p) /\ \A n \in Listed(p) : held[p][n].addr = mapped[p][n].addr
  BY ListedIn
<1>2. \A m \in Mapped(p) : mapped[p][m].addr \in Taken(p)
  BY DEF Taken
<1>3. Free(p) \notin Taken(p)
  BY FreeIs
<1>4. \A m \in Listed(p) : held[p][m].addr # Free(p)
  BY <1>1, <1>2, <1>3
<1>5. \A n, m \in Mapped(p) : mapped[p][n].addr = mapped[p][m].addr => n = m
  BY DEF EntryInv, Apart
<1>6. \A n \in Mapped(p) : odd[p] = {} => n \in Listed(p) /\ mapped[p][n].refs = 1
  BY DEF EntryInv, Complete
<1> QED
  BY <1>1, <1>4, <1>5, <1>6

\* A map that succeeded, of a name at its address or at a new one.
LEMMA OnMapReplays ==
  ASSUME Types, FileInv, ~stepped, \A q \in Procs : Replays(q),
         NEW p \in Procs, NEW n \in Names, NEW addr \in Nat, NEW size \in Asked,
         OnMap(p, n, addr, size), EntryInv(p),
         \A x \in Listed(p) \ {n} : held[p][x].addr # addr,
         n \in Listed(p) => held[p][n].addr = addr,
         odd'[p] = {} => odd[p] = {} /\ n \notin Listed(p),
         \A q \in Procs \ {p} : odd'[q] = odd[q],
         UNCHANGED <<clock, stepped, runs, done>>
  PROVE  \A q \in Procs : Replays(q)' /\ Grows(q, 0)
<1> DEFINE r == Stamped(p, MapRecord(p, n, addr, size))
           m == ReplayIn(Records, p)
           w == ReplayIn(Records', p)
<1>1. /\ Shape(r) /\ MapOk(r) /\ IsEvent(r) /\ r.ts = clock
      /\ r.name = n /\ r.size = size /\ r.addr = addr /\ r.flags = Flags[p]
  <2>1. /\ Shape(r) /\ MapOk(r) /\ r.ts = clock
        /\ r.name = n /\ r.size = size /\ r.addr = addr /\ r.flags = Flags[p]
    BY MapRecordShape
  <2>2. IsEvent(r)
    BY <2>1 DEF MapOk, IsMap, IsEvent
  <2> QED
    BY <2>1, <2>2
<1>2. /\ Logged(Records) /\ w = CorrelateRecord(m, r) /\ p \in Pids(Records')
      /\ \A q \in Procs \ {p} : /\ ReplayIn(Records', q) = ReplayIn(Records, q)
                                /\ q \in Pids(Records') <=> q \in Pids(Records)
  <2>1. Write(p, <<MapRecord(p, n, addr, size)>>) /\ UNCHANGED <<clock, stepped>>
    BY DEF OnMap, Record
  <2> QED
    BY <1>1, <2>1, CallReplays
<1>3. held'[p] \in Maps /\ peak'[p] \in Peaks
  BY OnMapIs DEF Maps, Peaks
<1>4. last'[p] = clock /\ \A x \in Names \ {n} : held'[p][x] = held[p][x]
  BY OnMapIs
<1>5. held'[p][n] = [addr |-> addr, size |-> size, since |-> clock]
  <2>1. held'[p][n] = EntryOf(addr, size)
    BY OnMapIs
  <2> QED
    BY <2>1 DEF EntryOf
<1>6. /\ peak'[p].count = Larger(peak[p].count, Cardinality(Listed(p) \cup {n}))
      /\ peak'[p].bytes = Larger(peak[p].bytes, bytes'[p])
      /\ bytes'[p] \in Int
  BY OnMapIs
<1>7. /\ \A q \in Procs \ {p} : held'[q] = held[q] /\ peak'[q] = peak[q] /\ last'[q] = last[q]
      /\ clock \in Nat
  BY OnMapIs DEF Types
<1>8. /\ SizesOf(held'[p]) <= bytes'[p]
      /\ n \notin Listed(p) /\ odd[p] = {} => SizesOf(held'[p]) = bytes'[p]
  BY OnMapSizes
<1>9. /\ held[p] \in Maps /\ peak[p] \in Peaks /\ On(held[p]) = Listed(p)
      /\ held[p][n] # NULL => n \in Listed(p)
  BY HeldMaps DEF Listed
<1>10. ReplayType(m)
  BY <1>2, ReplayInTyped
<1>11. /\ Knows(held[p], peak[p], Flags[p], odd[p], last[p], m)
       /\ runs[p] = 1 => Exact(held[p], peak[p], odd[p], done[p], m)
  BY ReplaysIs
<1> HIDE DEF r, m, w
<1>12. /\ Knows(held'[p], peak'[p], Flags[p], odd'[p], clock, w)
       /\ w.unmatched = m.unmatched
       /\ w.peakCount >= m.peakCount /\ w.peakBytes >= m.peakBytes
       /\ Exact(held[p], peak[p], odd[p], done[p], m) =>
            Exact(held'[p], peak'[p], odd'[p], done[p], w)
  <2> DEFINE now == held[p]
             new == held'[p]
             pk == peak[p]
             pn == peak'[p]
             fl == Flags[p]
             lt == last[p]
             dn == done[p]
             od == odd[p]
             on == odd'[p]
             b == bytes'[p]
  <2>1. /\ now \in Maps /\ new \in Maps /\ pk \in Peaks /\ pn \in Peaks
        /\ Knows(now, pk, fl, od, lt, m) /\ r.flags = fl
        /\ \A x \in On(now) \ {n} : now[x].addr # r.addr
        /\ now[n] # NULL => now[n].addr = r.addr
    BY <1>1, <1>3, <1>9, <1>11
  <2>2. /\ new[n] = [addr |-> r.addr, size |-> r.size, since |-> r.ts]
        /\ \A x \in Names \ {n} : new[x] = now[x]
    BY <1>1, <1>4, <1>5
  <2>3. /\ pn.count = Larger(pk.count, Cardinality(On(now) \cup {n}))
        /\ pn.bytes = Larger(pk.bytes, b) /\ b \in Int /\ SizesOf(new) <= b
        /\ on = {} => od = {} /\ SizesOf(new) = b
    BY <1>6, <1>8, <1>9
  <2> HIDE DEF now, new, pk, pn, fl, lt, dn, od, on, b
  <2>0. PutIn(now, new, pk, pn, b, od, on, r, n)
    BY <2>1, <2>2, <2>3 DEF PutIn
  <2>5. /\ now \in Maps /\ new \in Maps /\ pk \in Peaks /\ pn \in Peaks /\ b \in Int
        /\ ReplayType(m) /\ Knows(now, pk, fl, od, lt, m) /\ w = CorrelateRecord(m, r)
        /\ Shape(r) /\ MapOk(r) /\ r.flags = fl /\ r.name = n
    BY <1>1, <1>2, <1>10, <2>1, <2>3
  <2>4. /\ Knows(new, pn, fl, on, r.ts, w)
        /\ w.unmatched = m.unmatched
        /\ w.peakCount >= m.peakCount /\ w.peakBytes >= m.peakBytes
        /\ Exact(now, pk, od, dn, m) => Exact(new, pn, on, dn, w)
    BY <2>0, <2>5, KnowsMap
  <2> QED
    BY <1>1, <2>4 DEF now, new, pk, pn, fl, dn, od, on
<1>13. Replays(p)'
  <2>1. clock # NULL /\ clock <= clock'
    BY <1>7, NullIs
  <2>2. runs' = runs /\ done' = done
    OBVIOUS
  <2> QED
    BY <1>2, <1>4, <1>11, <1>12, <2>1, <2>2, ReplaysNext DEF w
<1>14. Grows(p, 0)
  <2>1. m.unmatched \in Nat
    BY <1>10 DEF ReplayType
  <2>2. w.unmatched = m.unmatched + 0
    BY <1>12, <2>1
  <2> QED
    BY <1>12, <2>2 DEF Grows, m, w
<1>15. ASSUME NEW q \in Procs \ {p}
       PROVE  Replays(q)' /\ Grows(q, 0)
  <2>1. clock <= clock' /\ clock' \in Nat /\ runs'[q] = runs[q] /\ done'[q] = done[q]
    BY <1>7
  <2>2. Replays(q)'
    BY <1>2, <1>7, <2>1, ReplaysFrame
  <2>3. Grows(q, 0)
    BY <1>2, GrowsFrame
  <2> QED
    BY <2>2, <2>3
<1> QED
  BY <1>13, <1>14, <1>15

\* An unmap of what the profiler has an entry of.
LEMMA OnUnmapReplays ==
  ASSUME Types, FileInv, ~stepped, \A q \in Procs : Replays(q),
         NEW p \in Procs, NEW n \in Names, NEW ret \in {0, -1}, OnUnmap(p, n, ret), EntryInv(p),
         n \in Mapped(p), n \in Listed(p), odd'[p] = {} => odd[p] = {},
         odd[p] = {} /\ odd'[p] = {} =>
           done'[p] = Append(done[p], [size |-> held[p][n].size, flags |-> Flags[p],
                                       life |-> clock - held[p][n].since]),
         \A q \in Procs \ {p} : odd'[q] = odd[q] /\ done'[q] = done[q],
         UNCHANGED <<clock, stepped, runs>>
  PROVE  \A q \in Procs : Replays(q)' /\ Grows(q, 0)
<1> DEFINE a == mapped[p][n].addr
           r == Stamped(p, UnmapRecord(a, ret))
           m == ReplayIn(Records, p)
           w == ReplayIn(Records', p)
<1>0. a \in Nat /\ a = held[p][n].addr
  BY ApartIs, HasIs
<1> HIDE DEF a
<1>1. Shape(r) /\ IsEvent(r) /\ r.ts = clock /\ r.event = "unmap" /\ r.addr = held[p][n].addr
  <2>1. Shape(r) /\ r.ts = clock /\ r.event = "unmap" /\ r.addr = held[p][n].addr
    BY <1>0, UnmapRecordShape
  <2>2. IsEvent(r)
    BY <2>1 DEF IsEvent
  <2> QED
    BY <2>1, <2>2
<1>2. /\ Logged(Records) /\ w = CorrelateRecord(m, r) /\ p \in Pids(Records')
      /\ \A q \in Procs \ {p} : /\ ReplayIn(Records', q) = ReplayIn(Records, q)
                                /\ q \in Pids(Records') <=> q \in Pids(Records)
  <2>1. Write(p, <<UnmapRecord(a, ret)>>) /\ UNCHANGED <<clock, stepped>>
    BY DEF OnUnmap, Record, a
  <2> QED
    BY <1>1, <2>1, CallReplays
<1>3. /\ held'[p] \in Maps /\ last'[p] = clock /\ held'[p][n] = NULL
      /\ \A x \in Names \ {n} : held'[p][x] = held[p][x]
  BY OnUnmapIs DEF Maps
<1>4. /\ \A q \in Procs \ {p} : held'[q] = held[q] /\ last'[q] = last[q]
      /\ peak' = peak /\ clock \in Nat
  BY OnUnmapIs DEF Types
<1>5. held[p] \in Maps /\ peak[p] \in Peaks /\ On(held[p]) = Listed(p)
  BY HeldMaps
<1>6. ReplayType(m)
  BY <1>2, ReplayInTyped
<1>7. /\ Knows(held[p], peak[p], Flags[p], odd[p], last[p], m)
      /\ runs[p] = 1 => Exact(held[p], peak[p], odd[p], done[p], m)
  BY ReplaysIs
<1> HIDE DEF r, m, w
<1>8. /\ Knows(held'[p], peak[p], Flags[p], odd'[p], clock, w)
      /\ w.unmatched = m.unmatched
      /\ w.peakCount >= m.peakCount /\ w.peakBytes >= m.peakBytes
      /\ Exact(held[p], peak[p], odd[p], done[p], m) =>
           Exact(held'[p], peak[p], odd'[p], done'[p], w)
  <2> DEFINE now == held[p]
             new == held'[p]
             pk == peak[p]
             fl == Flags[p]
             lt == last[p]
             dn == done[p]
             od == odd[p]
             on == odd'[p]
             freed == [size |-> now[n].size, flags |-> fl, life |-> r.ts - now[n].since]
             dm == IF odd'[p] = {} THEN done'[p] ELSE Append(dn, freed)
  <2>1. /\ now \in Maps /\ new \in Maps /\ pk \in Peaks
        /\ Knows(now, pk, fl, od, lt, m) /\ n \in On(now) /\ r.addr = now[n].addr
        /\ on = {} => od = {}
    BY <1>1, <1>3, <1>5, <1>7
  <2>2. new[n] = NULL /\ \A x \in Names \ {n} : new[x] = now[x]
    BY <1>3
  <2>3. od = {} /\ on = {} => done'[p] = Append(dn, freed)
    BY <1>1
  <2> HIDE DEF now, new, pk, fl, lt, dn, od, on
  <2>5. od = {} => dm = Append(dn, freed)
    BY <2>3 DEF on
  <2>4. TakenOut(now, new, fl, od, on, dn, dm, r, n)
    BY <2>1, <2>2, <2>5 DEF TakenOut
  <2> HIDE DEF freed
  <2>6. on = {} => dm = done'[p]
    BY DEF on
  <2> HIDE DEF dm
  <2>7. /\ Knows(new, pk, fl, on, r.ts, w)
        /\ w.unmatched = m.unmatched
        /\ w.peakCount >= m.peakCount /\ w.peakBytes >= m.peakBytes
        /\ Exact(now, pk, od, dn, m) => Exact(new, pk, on, dm, w)
    BY <1>1, <1>2, <1>6, <2>1, <2>4, KnowsUnmap
  <2>8. Exact(new, pk, on, dm, w) => Exact(new, pk, on, done'[p], w)
    BY <2>6 DEF Exact
  <2> QED
    BY <1>1, <2>7, <2>8 DEF now, new, pk, fl, dn, od, on
<1>9. Replays(p)'
  <2>1. clock # NULL /\ clock <= clock'
    BY <1>4, NullIs
  <2>2. runs' = runs /\ peak'[p] = peak[p]
    BY <1>4
  <2> QED
    BY <1>2, <1>3, <1>7, <1>8, <2>1, <2>2, ReplaysNext DEF w
<1>10. Grows(p, 0)
  <2>1. m.unmatched \in Nat
    BY <1>6 DEF ReplayType
  <2>2. w.unmatched = m.unmatched + 0
    BY <1>8, <2>1
  <2> QED
    BY <1>8, <2>2 DEF Grows, m, w
<1>11. ASSUME NEW q \in Procs \ {p}
       PROVE  Replays(q)' /\ Grows(q, 0)
  <2>1. clock <= clock' /\ clock' \in Nat /\ runs'[q] = runs[q] /\ peak'[q] = peak[q]
    BY <1>4
  <2>2. Replays(q)'
    BY <1>2, <1>4, <2>1, ReplaysFrame
  <2>3. Grows(q, 0)
    BY <1>2, GrowsFrame
  <2> QED
    BY <2>2, <2>3
<1> QED
  BY <1>9, <1>10, <1>11

LEMMA StampedTime == ASSUME NEW p, NEW r PROVE Stamped(p, r).ts = clock
BY StampedIs

\* Calls that change nothing the process has.
LEMMA OtherReplays ==
  ASSUME Types, FileInv, ~stepped, \A q \in Procs : Replays(q),
         NEW p \in Procs, NEW c, Record(p, c), Shape(Stamped(p, c)),
         \/ IsMap(Stamped(p, c)) /\ ~MapOk(Stamped(p, c))
         \/ /\ Stamped(p, c).event = "unmap"
            /\ \A n \in Listed(p) : held[p][n].addr # Stamped(p, c).addr,
         odd'[p] = {} => odd[p] = {}, odd[p] = {} => done'[p] = done[p],
         \A q \in Procs \ {p} : odd'[q] = odd[q] /\ done'[q] = done[q],
         UNCHANGED <<clock, stepped, runs, held, peak>>
  PROVE  /\ \A q \in Procs : Replays(q)'
         /\ \A q \in Procs \ {p} : Grows(q, 0)
         /\ Grows(p, IF IsMap(Stamped(p, c)) THEN 0 ELSE 1)
<1> DEFINE r == Stamped(p, c)
           m == ReplayIn(Records, p)
           w == ReplayIn(Records', p)
           k == IF IsMap(r) THEN 0 ELSE 1
<1>1. r.ts = clock /\ IsEvent(r)
  <2>1. IsMap(r) \/ r.event = "unmap"
    OBVIOUS
  <2>2. IsEvent(r)
    BY <2>1 DEF IsMap, IsEvent
  <2>3. Stamped(p, c).ts = clock
    BY StampedTime
  <2> QED
    BY <2>2, <2>3
<1>2. /\ Logged(Records) /\ w = CorrelateRecord(m, r) /\ p \in Pids(Records')
      /\ \A q \in Procs \ {p} : /\ ReplayIn(Records', q) = ReplayIn(Records, q)
                                /\ q \in Pids(Records') <=> q \in Pids(Records)
  <2>1. Write(p, <<c>>) /\ UNCHANGED <<clock, stepped>>
    BY DEF Record
  <2> QED
    BY <1>1, <2>1, CallReplays
<1>3. last'[p] = clock /\ clock \in Nat /\ \A q \in Procs \ {p} : last'[q] = last[q]
  BY DEF Types, Record
<1>4. /\ held[p] \in Maps /\ peak[p] \in Peaks
      /\ \A a \in At(held[p]) : \E n \in Listed(p) : a = held[p][n].addr
  BY HeldMaps
<1>5. ReplayType(m)
  BY <1>2, ReplayInTyped
<1>6. /\ Knows(held[p], peak[p], Flags[p], odd[p], last[p], m)
      /\ runs[p] = 1 => Exact(held[p], peak[p], odd[p], done[p], m)
  BY ReplaysIs
<1>7. \/ IsMap(r) /\ ~MapOk(r)
      \/ r.event = "unmap" /\ r.addr \notin At(held[p])
  BY <1>4
<1>8. Shape(r)
  OBVIOUS
<1> HIDE DEF r, m, w
<1>9. /\ Knows(held[p], peak[p], Flags[p], odd'[p], clock, w)
      /\ w.peakCount >= m.peakCount /\ w.peakBytes >= m.peakBytes
      /\ Exact(held[p], peak[p], odd[p], done[p], m) =>
           /\ Exact(held[p], peak[p], odd'[p], done'[p], w)
           /\ w.unmatched = IF IsMap(r) THEN m.unmatched ELSE m.unmatched + 1
  <2> DEFINE now == held[p]
             pk == peak[p]
             fl == Flags[p]
             lt == last[p]
             dn == done[p]
             dm == done'[p]
             od == odd[p]
             on == odd'[p]
  <2>1. /\ now \in Maps /\ pk \in Peaks /\ Knows(now, pk, fl, od, lt, m)
        /\ on = {} => od = {}
        /\ od = {} => dm = dn
        /\ \/ IsMap(r) /\ ~MapOk(r)
           \/ r.event = "unmap" /\ r.addr \notin At(now)
    BY <1>4, <1>6, <1>7
  <2> HIDE DEF now, pk, fl, lt, dn, dm, od, on
  <2>2. /\ Knows(now, pk, fl, on, r.ts, w)
        /\ w.peakCount >= m.peakCount /\ w.peakBytes >= m.peakBytes
        /\ Exact(now, pk, od, dn, m) =>
             /\ Exact(now, pk, on, dm, w)
             /\ w.unmatched = IF IsMap(r) THEN m.unmatched ELSE m.unmatched + 1
    BY <1>2, <1>5, <1>8, <2>1, KnowsOther
  <2> QED
    BY <1>1, <2>2 DEF now, pk, fl, dn, dm, od, on
<1>10. Replays(p)'
  <2>1. clock # NULL /\ clock <= clock'
    BY <1>3, NullIs
  <2> QED
    BY <1>2, <1>3, <1>6, <1>9, <2>1, ReplaysNext DEF w
<1>11. Grows(p, k)
  <2>1. m.unmatched \in Nat
    BY <1>5 DEF ReplayType
  <2>2. runs[p] = 1 => w.unmatched = m.unmatched + k
    BY <1>6, <1>9, <2>1
  <2> HIDE DEF k
  <2> QED
    BY <1>9, <2>2 DEF Grows, m, w
<1>12. ASSUME NEW q \in Procs \ {p}
       PROVE  Replays(q)' /\ Grows(q, 0)
  <2>1. clock <= clock' /\ clock' \in Nat
    BY <1>3
  <2>2. Replays(q)'
    BY <1>2, <1>3, <2>1, ReplaysFrame
  <2>3. Grows(q, 0)
    BY <1>2, GrowsFrame
  <2> QED
    BY <2>2, <2>3
<1> QED
  BY <1>10, <1>11, <1>12 DEF r

\* Nothing is written about a call.
LEMMA QuietReplays ==
  ASSUME Types, FileInv, \A q \in Procs : Replays(q), NEW p \in Procs,
         Write(p, ExitLines(p)) \/ file' = file,
         UNCHANGED <<clock, stepped, runs, held, peak, done, last, odd>>
  PROVE  \A q \in Procs : Replays(q)' /\ Grows(q, 0)
<1> SUFFICES ASSUME NEW q \in Procs PROVE Replays(q)' /\ Grows(q, 0)
  OBVIOUS
<1>1. /\ ReplayIn(Records', q) = ReplayIn(Records, q)
      /\ q \in Pids(Records') <=> q \in Pids(Records)
  BY ExitReplays
<1>2. /\ clock' \in Nat /\ clock <= clock'
      /\ UNCHANGED <<runs, held, peak, done, last, odd>>
  BY DEF Types
<1>3. Replays(q)'
  BY <1>1, <1>2, ReplaysFrame
<1>4. Grows(q, 0)
  BY <1>1, GrowsFrame
<1> QED
  BY <1>3, <1>4

LEMMA StartReplays ==
  ASSUME Types, FileInv, \A q \in Procs : Replays(q), NEW p \in Procs, Start(p)
  PROVE  /\ \A q \in Procs : Replays(q)' /\ Grows(q, 0)
         /\ runs'[p] # 1 /\ \A q \in Procs \ {p} : runs'[q] = runs[q]
<1>1. Records' = Records
  <2>1. file' = file
    BY DEF Start
  <2> QED
    BY <2>1, NothingWritten
<1>2. clock' \in Nat /\ clock <= clock' /\ clock' = clock
  BY DEF Start, Types
<1>3. /\ held'[p] = Nothing /\ peak'[p] = NoPeak /\ runs'[p] # 1
      /\ \A q \in Procs \ {p} : held'[q] = held[q] /\ peak'[q] = peak[q] /\ runs'[q] = runs[q]
  BY DEF Start, Types
<1>4. last' = last /\ done' = done /\ odd' = odd
  BY DEF Start, history
<1>5. Replays(p)'
  <2> DEFINE m == ReplayIn(Records, p)
  <2>1. ReplayType(m)
    BY LoggedAre, ReplayInTyped
  <2>2. On(Nothing) = {}
    BY DEF On, Nothing
  <2>3. m.last = last[p]
    BY ReplaysIs DEF Knows
  <2> HIDE DEF m
  <2>4. Knows(held'[p], peak'[p], Flags[p], odd'[p], last'[p], m)
    BY <1>3, <1>4, <2>1, <2>2, <2>3 DEF Knows, Owns, NoPeak, ReplayType
  <2>5. p \in Pids(Records') <=> last'[p] # NULL
    BY <1>1, <1>4, ReplaysIs
  <2>6. last'[p] # NULL => last'[p] <= clock'
    BY <1>2, <1>4, ReplaysIs
  <2> QED
    BY <1>1, <1>3, <2>4, <2>5, <2>6, ReplaysNext DEF m
<1>6. ASSUME NEW q \in Procs \ {p}
      PROVE  Replays(q)'
  BY <1>1, <1>2, <1>3, <1>4, ReplaysFrame
<1>7. \A q \in Procs : Grows(q, 0)
  BY <1>1, GrowsFrame
<1> QED
  BY <1>3, <1>5, <1>6, <1>7

LEMMA OnlyForward == Types /\ [Next]_vars /\ ~stepped' => ~stepped /\ clock <= clock'
<1> SUFFICES ASSUME Types, [Next]_vars, ~stepped' PROVE ~stepped /\ clock <= clock'
  OBVIOUS
<1>1. clock \in Nat
  BY DEF Types
<1>2. ASSUME NEW p \in Procs, NEW n \in Names, NEW size \in Asked, Map(p, n, size) \/ MapAgain(p, n, size)
      PROVE  UNCHANGED <<clock, stepped>>
  BY <1>2 DEF Map, MapAgain
<1>3. ASSUME NEW p \in Procs, NEW n \in Names,
             Unmap(p, n) \/ UnmapRefused(p, n) \/ KillInMap(p, n)
      PROVE  UNCHANGED <<clock, stepped>>
  BY <1>3 DEF Unmap, UnmapRefused, KillInMap
<1>4. ASSUME NEW p \in Procs,
             MapFails(p) \/ UnmapUnknown(p) \/ Exit(p) \/ Kill(p) \/ Start(p)
      PROVE  UNCHANGED <<clock, stepped>>
  BY <1>4 DEF MapFails, UnmapUnknown, Exit, Kill, Start
<1>5. ASSUME Tick
      PROVE  clock' = clock + 1 /\ stepped' = stepped
  BY <1>5 DEF Tick
<1>6. ASSUME StepBack
      PROVE  FALSE
  BY <1>6 DEF StepBack
<1>7. ASSUME UNCHANGED vars
      PROVE  UNCHANGED <<clock, stepped>>
  BY <1>7 DEF vars
<1>8. CASE Tick
  BY <1>1, <1>5, <1>8
<1>9. CASE UNCHANGED <<clock, stepped>>
  BY <1>1, <1>9
<1> QED
  BY <1>2, <1>3, <1>4, <1>6, <1>7, <1>8, <1>9 DEF Next

LEMMA MapReplays ==
  ASSUME Types, FileInv, EntriesInv, ~stepped, \A q \in Procs : Replays(q),
         NEW p \in Procs, NEW n \in Names, NEW size \in Asked,
         Map(p, n, size) \/ MapAgain(p, n, size)
  PROVE  \A q \in Procs : Replays(q)' /\ Grows(q, 0)
<1>1. EntryInv(p)
  BY DEF EntriesInv
<1>2. CASE Map(p, n, size)
  <2> DEFINE a == Free(p)
  <2>1. a \in Nat /\ OnMap(p, n, a, size) /\ n \notin Mapped(p)
    BY <1>2, MapIs
  <2>2. n \notin Listed(p) /\ \A x \in Listed(p) : held[p][x].addr # a
    BY <1>1, <2>1, ApartIs, ListedIn
  <2>3. odd' = odd /\ UNCHANGED <<clock, stepped, runs, done>>
    BY <1>2 DEF Map
  <2> HIDE DEF a
  <2> QED
    BY <1>1, <2>1, <2>2, <2>3, OnMapReplays
<1>3. CASE MapAgain(p, n, size)
  <2> DEFINE a == mapped[p][n].addr
  <2>1. a \in Nat /\ OnMap(p, n, a, size) /\ n \in Mapped(p)
    BY <1>3, MapAgainIs
  <2>2. /\ \A x \in Listed(p) \ {n} : held[p][x].addr # a
        /\ n \in Listed(p) => held[p][n].addr = a
    BY <1>1, <2>1, ApartIs
  <2>3. odd'[p] # {} /\ \A q \in Procs \ {p} : odd'[q] = odd[q]
    BY <1>3, MapAgainIs
  <2>4. UNCHANGED <<clock, stepped, runs, done>>
    BY <1>3 DEF MapAgain
  <2> HIDE DEF a
  <2> QED
    BY <1>1, <2>1, <2>2, <2>3, <2>4, OnMapReplays
<1> QED
  BY <1>2, <1>3

\* An unmap of what is mapped: the replay may not have it any more.
LEMMA UnmapReplays ==
  ASSUME Types, FileInv, EntriesInv, ~stepped, \A q \in Procs : Replays(q),
         NEW p \in Procs, NEW n \in Names, Unmap(p, n) \/ UnmapRefused(p, n)
  PROVE  /\ \A q \in Procs : Replays(q)'
         /\ \A q \in Procs \ {p} : Grows(q, 0)
         /\ Grows(p, 0) \/ (Grows(p, 1) /\ odd'[p] # {})
<1>1. EntryInv(p)
  BY DEF EntriesInv
<1>2. PICK ret \in {0, -1} : OnUnmap(p, n, ret)
  BY UnmapIs, RefusedIs
<1>3. n \in Mapped(p)
  BY UnmapIs, RefusedIs
<1>4. UNCHANGED <<clock, stepped, runs>>
  BY DEF Unmap, UnmapRefused
<1>5. odd'[p] = {} => odd[p] = {}
  <2>1. CASE Unmap(p, n)
    BY <2>1 DEF Unmap
  <2>2. CASE UnmapRefused(p, n)
    BY <2>2, RefusedIs
  <2> QED
    BY <2>1, <2>2
<1>6. \A q \in Procs \ {p} : odd'[q] = odd[q] /\ done'[q] = done[q]
  <2>1. CASE Unmap(p, n)
    BY <2>1 DEF Unmap, Types
  <2>2. CASE UnmapRefused(p, n)
    <3>1. done' = done
      BY <2>2 DEF UnmapRefused
    <3> QED
      BY <2>2, <3>1, RefusedIs
  <2> QED
    BY <2>1, <2>2
<1>7. CASE n \in Listed(p)
  <2> DEFINE freed == [size |-> held[p][n].size, flags |-> Flags[p],
                       life |-> clock - held[p][n].since]
  <2>1. odd[p] = {} /\ odd'[p] = {} => done'[p] = Append(done[p], freed)
    <3> SUFFICES ASSUME odd[p] = {}, odd'[p] = {} PROVE done'[p] = Append(done[p], freed)
      OBVIOUS
    <3>1. Unmap(p, n)
      BY RefusedIs
    <3>2. /\ mapped[p][n].refs = 1
          /\ mapped[p][n].size = held[p][n].size /\ mapped[p][n].since = held[p][n].since
      BY <1>1, <1>3 DEF EntryInv, Complete
    <3>3. done' = [done EXCEPT ![p] = Append(@, [size |-> mapped[p][n].size,
                                                 flags |-> Flags[p],
                                                 life |-> clock - mapped[p][n].since])]
      BY <3>1, <3>2 DEF Unmap
    <3>4. DOMAIN done = Procs
      BY DEF Types
    <3> QED
      BY <3>2, <3>3, <3>4
  <2>2. \A q \in Procs : Replays(q)' /\ Grows(q, 0)
    BY <1>1, <1>2, <1>3, <1>4, <1>5, <1>6, <1>7, <2>1, OnUnmapReplays
  <2> QED
    BY <2>2
<1>8. CASE n \notin Listed(p)
  <2> DEFINE c == UnmapRecord(mapped[p][n].addr, ret)
             r == Stamped(p, c)
  <2>1. /\ Shape(r) /\ r.event = "unmap" /\ r.addr = mapped[p][n].addr
    BY <1>3, HasIs, UnmapRecordShape
  <2>2. \A x \in Listed(p) : held[p][x].addr # r.addr
    BY <1>1, <1>3, <1>8, <2>1, ApartIs
  <2>3. Record(p, c) /\ UNCHANGED <<held, peak>>
    BY <1>2, <1>8 DEF OnUnmap
  <2>4. odd[p] # {}
    BY <1>1, <1>3, <1>8, ApartIs
  <2>5. ~IsMap(r)
    BY <2>1 DEF IsMap
  <2> HIDE DEF c
  <2>6. /\ \A q \in Procs : Replays(q)'
        /\ \A q \in Procs \ {p} : Grows(q, 0)
        /\ Grows(p, IF IsMap(r) THEN 0 ELSE 1)
    BY <1>4, <1>5, <1>6, <2>1, <2>2, <2>3, <2>4, OtherReplays
  <2> QED
    BY <1>5, <2>4, <2>5, <2>6
<1> QED
  BY <1>7, <1>8

LEMMA ReplaySteps ==
  ASSUME Types, FileInv, EntriesInv, ReplayInv, [Next]_vars, ~stepped'
  PROVE  /\ \A q \in Procs : Replays(q)' /\ (runs'[q] = 1 => runs[q] = 1)
         /\ \/ unknown' = unknown /\ \A q \in Procs : Grows(q, 0)
            \/ \E p \in Procs : /\ \/ unknown' = unknown + 1
                                   \/ unknown' = unknown /\ odd'[p] # {}
                                /\ Grows(p, 1)
                                /\ \A q \in Procs \ {p} : Grows(q, 0)
<1>1. ~stepped
  BY OnlyForward
<1>2. \A q \in Procs : Replays(q)
  BY <1>1, ReplayInvIs
<1> DEFINE Goal == /\ \A q \in Procs : Replays(q)' /\ (runs'[q] = 1 => runs[q] = 1)
                   /\ \/ unknown' = unknown /\ \A q \in Procs : Grows(q, 0)
                      \/ \E p \in Procs : /\ \/ unknown' = unknown + 1
                                             \/ unknown' = unknown /\ odd'[p] # {}
                                          /\ Grows(p, 1)
                                          /\ \A q \in Procs \ {p} : Grows(q, 0)
<1> SUFFICES Goal
  OBVIOUS
<1>3. ASSUME NEW p \in Procs, NEW n \in Names, NEW size \in Asked,
             Map(p, n, size) \/ MapAgain(p, n, size)
      PROVE  Goal
  <2>1. \A q \in Procs : Replays(q)' /\ Grows(q, 0)
    BY <1>1, <1>2, <1>3, MapReplays
  <2>2. unknown' = unknown /\ runs' = runs
    BY <1>3 DEF Map, MapAgain
  <2> QED
    BY <2>1, <2>2
<1>4. ASSUME NEW p \in Procs, NEW n \in Names, Unmap(p, n) \/ UnmapRefused(p, n)
      PROVE  Goal
  <2>1. /\ \A q \in Procs : Replays(q)'
        /\ \A q \in Procs \ {p} : Grows(q, 0)
        /\ Grows(p, 0) \/ (Grows(p, 1) /\ odd'[p] # {})
    BY <1>1, <1>2, <1>4, UnmapReplays
  <2>2. unknown' = unknown /\ runs' = runs
    BY <1>4 DEF Unmap, UnmapRefused
  <2> QED
    BY <2>1, <2>2
<1>5. ASSUME NEW p \in Procs, MapFails(p)
      PROVE  Goal
  <2> DEFINE c == [MapRecord(p, NULL, NULL, Max(Asked)) EXCEPT !.ret = -1]
             r == Stamped(p, c)
  <2>1. Shape(r) /\ IsMap(r) /\ ~MapOk(r)
    BY MapFailsShape
  <2>2. /\ Record(p, c) /\ UNCHANGED <<odd, done, unknown>>
        /\ UNCHANGED <<clock, stepped, runs, held, peak>>
    BY <1>5 DEF MapFails
  <2> HIDE DEF c
  <2>3. /\ \A q \in Procs : Replays(q)'
        /\ \A q \in Procs \ {p} : Grows(q, 0)
        /\ Grows(p, IF IsMap(r) THEN 0 ELSE 1)
    BY <1>1, <1>2, <2>1, <2>2, OtherReplays
  <2>4. \A q \in Procs : Grows(q, 0)
    BY <2>1, <2>3
  <2> QED
    BY <2>2, <2>3, <2>4
<1>6. ASSUME NEW p \in Procs, UnmapUnknown(p)
      PROVE  Goal
  <2> DEFINE c == UnmapRecord(Free(p), -1)
             r == Stamped(p, c)
  <2>0. Shape(r) /\ r.event = "unmap" /\ r.addr = Free(p)
    BY FreeIs, UnmapRecordShape
  <2>1. \A n \in Listed(p) : held[p][n].addr # r.addr
    BY <2>0, ApartIs DEF EntriesInv
  <2>2. /\ Record(p, c) /\ UNCHANGED <<odd, done>> /\ unknown' = unknown + 1
        /\ UNCHANGED <<clock, stepped, runs, held, peak>>
    BY <1>6 DEF UnmapUnknown
  <2> HIDE DEF c
  <2>3. /\ \A q \in Procs : Replays(q)'
        /\ \A q \in Procs \ {p} : Grows(q, 0)
        /\ Grows(p, IF IsMap(r) THEN 0 ELSE 1)
    BY <1>1, <1>2, <2>0, <2>1, <2>2, OtherReplays
  <2>4. ~IsMap(r)
    BY <2>0 DEF IsMap
  <2>5. Grows(p, 1)
    BY <2>3, <2>4
  <2> QED
    BY <2>2, <2>3, <2>5
<1>7. ASSUME NEW p \in Procs,
             \/ Exit(p) \/ Kill(p)
             \/ \E n \in Names : KillInMap(p, n)
             \/ UNCHANGED vars
      PROVE  Goal
  <2>1. /\ Write(p, ExitLines(p)) \/ file' = file
        /\ UNCHANGED <<clock, stepped, runs, held, peak, done, last, odd, unknown>>
    <3>1. CASE Exit(p)
      BY <3>1 DEF Exit, profiler, history
    <3>2. CASE Kill(p)
      BY <3>2 DEF Kill, profiler, history
    <3>4. ASSUME NEW n \in Names, KillInMap(p, n)
          PROVE  file' = file /\ UNCHANGED <<clock, stepped, runs, held, peak, most, done>>
      BY <3>4 DEF KillInMap, profiler
    <3>5. ASSUME NEW n \in Names, KillInMap(p, n)
          PROVE  UNCHANGED <<last, unknown, odd>>
      BY <3>5 DEF KillInMap
    <3>3. CASE UNCHANGED vars
      BY <3>3 DEF vars, profiler, history
    <3> QED
      BY <1>7, <3>1, <3>2, <3>3, <3>4, <3>5
  <2>2. \A q \in Procs : Replays(q)' /\ Grows(q, 0)
    BY <1>2, <2>1, QuietReplays
  <2>3. unknown' = unknown /\ runs' = runs
    BY <2>1
  <2> QED
    BY <2>2, <2>3
<1>8. ASSUME NEW p \in Procs, Start(p)
      PROVE  Goal
  <2>1. /\ \A q \in Procs : Replays(q)' /\ Grows(q, 0)
        /\ runs'[p] # 1 /\ \A q \in Procs \ {p} : runs'[q] = runs[q]
    BY <1>2, <1>8, StartReplays
  <2>2. unknown' = unknown
    BY <1>8 DEF Start, history
  <2> QED
    BY <2>1, <2>2
<1>9. ASSUME Tick
      PROVE  Goal
  <2>1. /\ file' = file /\ clock' \in Nat /\ clock <= clock'
        /\ UNCHANGED <<runs, held, peak, done, last, odd, unknown>>
    BY <1>9 DEF Tick, history, profiler, Types
  <2>2. Records' = Records
    BY <2>1, NothingWritten
  <2>3. ASSUME NEW q \in Procs
        PROVE  Replays(q)' /\ Grows(q, 0)
    <3>1. Replays(q)'
      BY <1>2, <2>1, <2>2, ReplaysFrame
    <3>2. Grows(q, 0)
      BY <2>2, GrowsFrame
    <3> QED
      BY <3>1, <3>2
  <2> QED
    BY <2>1, <2>3
<1>10. ~StepBack
  BY DEF StepBack
<1>11. CASE Procs = {}
  <2>1. CASE UNCHANGED vars
    <3>1. unknown' = unknown
      BY <2>1 DEF vars, profiler, history
    <3> QED
      BY <1>11, <3>1
  <2>2. CASE Tick
    BY <1>9, <2>2
  <2> QED
    BY <1>10, <1>11, <2>1, <2>2 DEF Next
<1>12. CASE Procs # {}
  <2>1. CASE UNCHANGED vars
    BY <1>7, <1>12, <2>1
  <2> HIDE DEF Goal
  <2>2. \A p \in Procs : Exit(p) \/ Kill(p) => Goal
    BY <1>7
  <2>3. \A p \in Procs : \A n \in Names : KillInMap(p, n) => Goal
    BY <1>7
  <2>4. ASSUME NEW p \in Procs, NEW n \in Names,
               \/ \E size \in Asked : Map(p, n, size) \/ MapAgain(p, n, size)
               \/ Unmap(p, n) \/ UnmapRefused(p, n) \/ KillInMap(p, n)
        PROVE  Goal
    BY <1>3, <1>4, <2>3, <2>4
  <2>5. ASSUME NEW p \in Procs,
               MapFails(p) \/ UnmapUnknown(p) \/ Exit(p) \/ Kill(p) \/ Start(p)
        PROVE  Goal
    BY <1>5, <1>6, <1>8, <2>2, <2>5
  <2>6. CASE Next
    BY <1>9, <1>10, <2>4, <2>5, <2>6 DEF Next
  <2> QED
    BY <2>1, <2>6
<1> QED
  BY <1>11, <1>12

LEMMA ReplayStep == Types /\ FileInv /\ EntriesInv /\ ReplayInv /\ [Next]_vars => ReplayInv'
BY ReplaySteps, ReplayInvIs

-----------------------------------------------------------------------------
(* The unmaps nobody knows.                                                *)

UnmatchedAt(R) == [p \in Procs |-> ReplayIn(R, p).unmatched]

UnknownLeft(total) == unknown <= total /\ (Plain => unknown = total)

LEMMA UnknownInvIs ==
  /\ UnknownInv <=> (~stepped /\ OwnPids => UnknownLeft(Total(UnmatchedAt(Records))))
  /\ UnknownInv' <=> (~stepped' /\ OwnPids' => UnknownLeft(Total(UnmatchedAt(Records)))')
<1> DEFINE P == UnknownInv <=> (~stepped /\ OwnPids => UnknownLeft(Total(UnmatchedAt(Records))))
<1> SUFFICES P /\ P'
  OBVIOUS
<1>1. P
  BY DEF UnknownInv, UnknownLeft, UnmatchedAt, ReplayOf, ReplayIn
<1> QED
  BY <1>1, PTL

\* A name stays odd.
LEMMA OddStays ==
  ASSUME Types, [Next]_vars
  PROVE  \A q \in Procs : odd'[q] = {} => odd[q] = {}
<1> DEFINE Goal == \A q \in Procs : odd'[q] = {} => odd[q] = {}
<1> SUFFICES Goal
  OBVIOUS
<1>1. ASSUME NEW p \in Procs, NEW n \in Names, NEW size \in Asked, MapAgain(p, n, size)
      PROVE  Goal
  <2>1. odd'[p] = odd[p] \cup {n} /\ \A q \in Procs \ {p} : odd'[q] = odd[q]
    BY <1>1, MapAgainIs
  <2> QED
    BY <2>1
<1>2. ASSUME NEW p \in Procs, NEW n \in Names, UnmapRefused(p, n)
      PROVE  Goal
  <2>1. odd'[p] = odd[p] \cup {n} /\ \A q \in Procs \ {p} : odd'[q] = odd[q]
    BY <1>2, RefusedIs
  <2> QED
    BY <2>1
<1>3. ASSUME odd' = odd PROVE Goal
  BY <1>3
<1> HIDE DEF Goal
<1>4. ASSUME NEW p \in Procs, NEW n \in Names, NEW size \in Asked, Map(p, n, size)
      PROVE  Goal
  BY <1>3, <1>4 DEF Map
<1>5. ASSUME NEW p \in Procs, NEW n \in Names, Unmap(p, n) \/ KillInMap(p, n)
      PROVE  Goal
  BY <1>3, <1>5 DEF Unmap, KillInMap
<1>6. ASSUME NEW p \in Procs,
             MapFails(p) \/ UnmapUnknown(p) \/ Exit(p) \/ Kill(p) \/ Start(p)
      PROVE  Goal
  BY <1>3, <1>6 DEF MapFails, UnmapUnknown, Exit, Kill, Start, history
<1>7. ASSUME Tick \/ StepBack \/ UNCHANGED vars
      PROVE  Goal
  BY <1>3, <1>7 DEF Tick, StepBack, vars, history
<1> QED
  BY <1>1, <1>2, <1>4, <1>5, <1>6, <1>7 DEF Next

LEMMA UnmatchedIs ==
  ASSUME NEW R, Logged(R)
  PROVE  /\ DOMAIN UnmatchedAt(R) = Procs /\ IsFiniteSet(Procs)
         /\ \A p \in Procs : UnmatchedAt(R)[p] = ReplayIn(R, p).unmatched
                             /\ UnmatchedAt(R)[p] \in Nat
<1>1. \A p \in Procs : ReplayIn(R, p).unmatched \in Nat
  BY ReplayInTyped DEF ReplayType
<1> QED
  BY <1>1, FleetAssumption DEF UnmatchedAt

LEMMA UnknownInit == Init => UnknownInv
<1> SUFFICES ASSUME Init PROVE unknown = Total(UnmatchedAt(Records)) /\ unknown \in Nat
  BY UnknownInvIs DEF UnknownLeft
<1>1. FileInv
  BY FileInit
<1>2. DOMAIN Records = {} /\ unknown = 0
  <2>1. DOMAIN Records = 1 .. Len(file) /\ Len(file) = 0
    BY <1>1, RecordsAre DEF Init
  <2> QED
    BY <2>1 DEF Init
<1> DEFINE f == UnmatchedAt(Records)
<1>3. IsFiniteSet(Procs) /\ DOMAIN f = Procs
  BY <1>1, LoggedAre, UnmatchedIs
<1>4. \A p \in Procs : f[p] = 0
  <2> TAKE p \in Procs
  <2>1. p \notin Pids(Records)
    BY <1>2 DEF Pids
  <2>2. ReplayIn(Records, p) = NoRecords
    BY <1>1, <2>1, LoggedAre, NoReplay
  <2> QED
    BY <2>2 DEF UnmatchedAt, NoRecords
<1> HIDE DEF f
<1>5. \A p \in Procs : f[p] \in Nat
  BY <1>4
<1>6. {} \subseteq Procs /\ \A p \in Procs \ {} : f[p] = 0
  BY <1>4
<1>7. Sum(f, {}) = Sum(f, Procs)
  BY <1>3, <1>5, <1>6, SumPart
<1>8. Total(f) = 0
  BY <1>3, <1>7, SumEmpty, TotalIs
<1> QED
  BY <1>2, <1>8 DEF f

LEMMA LoggedSteps ==
  ASSUME Types, FileInv, [Next]_vars
  PROVE  Logged(Records) /\ Logged(Records')
<1>1. FileInv'
  BY FileStep
<1>2. FileInv' => Logged(Records)'
  BY LoggedAre, PTL
<1> QED
  BY <1>1, <1>2, LoggedAre

LEMMA UnknownStep ==
  Types /\ FileInv /\ EntriesInv /\ ReplayInv /\ UnknownInv /\ [Next]_vars => UnknownInv'
<1> SUFFICES ASSUME Types, FileInv, EntriesInv, ReplayInv, UnknownInv, [Next]_vars,
                    ~stepped', OwnPids'
             PROVE  /\ unknown' <= Total(UnmatchedAt(Records'))
                    /\ Plain' => unknown' = Total(UnmatchedAt(Records'))
  BY UnknownInvIs DEF UnknownLeft
<1>1. /\ \A q \in Procs : runs'[q] = 1 => runs[q] = 1
      /\ \/ unknown' = unknown /\ \A q \in Procs : Grows(q, 0)
         \/ \E p \in Procs : /\ \/ unknown' = unknown + 1
                                \/ unknown' = unknown /\ odd'[p] # {}
                             /\ Grows(p, 1)
                             /\ \A q \in Procs \ {p} : Grows(q, 0)
  BY ReplaySteps
<1>2. ~stepped
  BY OnlyForward
<1>3. \A q \in Procs : runs[q] = 1
  BY <1>1 DEF OwnPids
<1>4. /\ unknown <= Total(UnmatchedAt(Records)) /\ unknown \in Nat
      /\ Plain => unknown = Total(UnmatchedAt(Records))
  BY <1>2, <1>3, UnknownInvIs DEF OwnPids, UnknownLeft, Types
<1>10. Plain' => Plain
  BY OddStays DEF Plain
<1> DEFINE f == UnmatchedAt(Records)
           g == UnmatchedAt(Records')
<1>5. /\ DOMAIN f = Procs /\ DOMAIN g = Procs /\ IsFiniteSet(Procs)
      /\ \A p \in Procs : /\ f[p] = ReplayIn(Records, p).unmatched /\ f[p] \in Nat
                          /\ g[p] = ReplayIn(Records', p).unmatched /\ g[p] \in Nat
  BY LoggedSteps, UnmatchedIs
<1>6. \A q \in Procs, k \in {0, 1} : Grows(q, k) => g[q] = f[q] + k
  BY <1>3, <1>5 DEF Grows
<1> HIDE DEF f, g
<1>7. unknown <= Total(f) /\ unknown \in Nat /\ (Plain => unknown = Total(f))
  BY <1>4 DEF f
<1>8. CASE unknown' = unknown /\ \A q \in Procs : Grows(q, 0)
  <2>1. \A q \in Procs : f[q] = g[q]
    BY <1>5, <1>6, <1>8
  <2>2. Total(f) = Total(g)
    BY <1>5, <2>1, TotalSame
  <2> QED
    BY <1>7, <1>8, <1>10, <2>2 DEF g
<1>9. ASSUME NEW p \in Procs,
             unknown' = unknown + 1 \/ (unknown' = unknown /\ odd'[p] # {}),
             Grows(p, 1), \A q \in Procs \ {p} : Grows(q, 0)
      PROVE  /\ unknown' <= Total(UnmatchedAt(Records'))
             /\ Plain' => unknown' = Total(UnmatchedAt(Records'))
  <2>1. g[p] = f[p] + 1 /\ \A q \in Procs \ {p} : g[q] = f[q]
    BY <1>5, <1>6, <1>9
  <2>2. /\ IsFiniteSet(DOMAIN f) /\ p \in DOMAIN g /\ p \in DOMAIN f
        /\ DOMAIN g = DOMAIN f \cup {p}
        /\ \A a \in DOMAIN f : f[a] \in Int
        /\ g[p] \in Int /\ \A a \in DOMAIN f \ {p} : g[a] = f[a]
    BY <1>5, <2>1
  <2>3. Total(f) \in Int /\ Total(g) = Total(f) + g[p] - f[p]
    BY <2>2, TotalPut
  <2>4. Total(g) = Total(f) + 1
    BY <1>5, <2>1, <2>3
  <2>5. Plain' => odd'[p] = {}
    BY DEF Plain
  <2> QED
    BY <1>7, <1>9, <1>10, <2>3, <2>4, <2>5 DEF g
<1> QED
  BY <1>1, <1>8, <1>9

-----------------------------------------------------------------------------
(* What is written by one step.                                            *)

\* What a process that exits tells in a record.
Tells(p, r) ==
  \/ /\ r.event = "live_at_exit"
     /\ \E n \in Listed(p) : /\ r.addr = held[p][n].addr /\ r.size = held[p][n].size
                             /\ r.age = clock - held[p][n].since
  \/ /\ r.event = "summary"
     /\ r.peakCount = peak[p].count /\ r.peakBytes = peak[p].bytes

NewRecords ==
  /\ Begins(Records, Records')
  /\ \A k \in DOMAIN Records' \ DOMAIN Records :
       \/ IsEvent(Records'[k])
       \/ \E p \in Procs : /\ Exit(p) /\ last[p] # NULL /\ Records'[k].pid = p
                           /\ Tells(p, Records'[k])

LEMMA CallWrites ==
  ASSUME Types, FileInv, NEW p, NEW r, Write(p, <<r>>), Shape(Stamped(p, r)),
         IsEvent(Stamped(p, r)), UNCHANGED <<clock, stepped>>
  PROVE  NewRecords
<1>1. /\ Begins(Records, Records') /\ Len(file) \in Nat
      /\ DOMAIN Records = 1 .. Len(file) /\ DOMAIN Records' = 1 .. Len(file) + 1
      /\ Records'[Len(file) + 1] = Stamped(p, r)
  BY WritesOne
<1>2. \A k \in DOMAIN Records' \ DOMAIN Records : k = Len(file) + 1
  BY <1>1
<1> QED
  BY <1>1, <1>2 DEF NewRecords

LEMMA NothingNew ==
  ASSUME FileInv, file' = file
  PROVE  NewRecords
BY NothingWritten DEF NewRecords

LEMMA ExitWrites ==
  ASSUME Types, FileInv, EntriesInv, NEW p \in Procs, Exit(p)
  PROVE  NewRecords
<1>1. CASE file' = file
  BY <1>1, NothingNew
<1>2. CASE Write(p, ExitLines(p)) /\ last[p] # NULL
  <2> DEFINE s(i) == Stamped(p, ExitLines(p)[i])
             len == Len(file)
  <2>1. PICK c \in Nat : /\ DOMAIN ExitLines(p) = 1 .. c + 1
                         /\ \A i \in 1 .. c + 1 : Shape(s(i)) /\ s(i).pid = p
                         /\ \A i \in 1 .. c :
                              /\ s(i).event = "live_at_exit"
                              /\ \E n \in Listed(p) : /\ s(i).addr = held[p][n].addr
                                                      /\ s(i).size = held[p][n].size
                                                      /\ s(i).age = clock - held[p][n].since
                         /\ s(c + 1).event = "summary"
                         /\ s(c + 1).peakCount = peak[p].count
                         /\ s(c + 1).peakBytes = peak[p].bytes
    BY ExitLinesAre
  <2> DEFINE k == c + 1
  <2>2. \A i \in 1 .. k : Tells(p, s(i)) /\ s(i).pid = p
    <3> TAKE i \in 1 .. k
    <3>1. i \in 1 .. c \/ i = c + 1
      OBVIOUS
    <3> HIDE DEF s
    <3>2. CASE i \in 1 .. c
      BY <2>1, <3>2 DEF Tells
    <3>3. CASE i = c + 1
      BY <2>1, <3>3 DEF Tells
    <3> QED
      BY <3>1, <3>2, <3>3
  <2>3. k \in Nat /\ DOMAIN ExitLines(p) = 1 .. k /\ \A i \in 1 .. k : Shape(s(i))
    BY <2>1
  <2>4. UNCHANGED <<clock, stepped>>
    BY DEF Exit
  <2> HIDE DEF k
  <2>5. /\ Begins(Records, Records') /\ len \in Nat
        /\ DOMAIN Records = 1 .. len /\ DOMAIN Records' = 1 .. len + k
        /\ \A i \in 1 .. k : Records'[len + i] = s(i)
    BY <1>2, <2>3, <2>4, FileWrites
  <2> HIDE DEF s, len
  <2>6. ASSUME NEW j \in DOMAIN Records' \ DOMAIN Records
        PROVE  Tells(p, Records'[j]) /\ Records'[j].pid = p
    <3>1. j - len \in 1 .. k /\ j = len + (j - len)
      BY <2>3, <2>5
    <3> QED
      BY <2>2, <2>5, <3>1
  <2> QED
    BY <1>2, <2>5, <2>6 DEF NewRecords
<1>3. p \in inited => last[p] # NULL
  BY DEF EntriesInv, EntryInv
<1> QED
  BY <1>1, <1>2, <1>3 DEF Exit

LEMMA RecordsStep == Types /\ FileInv /\ EntriesInv /\ [Next]_vars => NewRecords
<1> SUFFICES ASSUME Types, FileInv, EntriesInv, [Next]_vars
             PROVE  NewRecords
  OBVIOUS
<1>9. ASSUME NEW p \in Procs, NEW n \in Names, NEW addr \in Nat, NEW size \in Asked,
             OnMap(p, n, addr, size), UNCHANGED <<clock, stepped>>
      PROVE  NewRecords
  <2> DEFINE c == MapRecord(p, n, addr, size)
  <2>1. Write(p, <<c>>)
    BY <1>9 DEF OnMap, Record
  <2>2. Shape(Stamped(p, c)) /\ MapOk(Stamped(p, c))
    BY MapRecordShape
  <2> HIDE DEF c
  <2>3. IsEvent(Stamped(p, c))
    BY <2>2 DEF MapOk, IsMap, IsEvent
  <2> QED
    BY <1>9, <2>1, <2>2, <2>3, CallWrites
<1>1. ASSUME NEW p \in Procs, NEW n \in Names, NEW size \in Asked,
             Map(p, n, size) \/ MapAgain(p, n, size)
      PROVE  NewRecords
  <2>1. UNCHANGED <<clock, stepped>>
    BY <1>1 DEF Map, MapAgain
  <2>2. \E addr \in Nat : OnMap(p, n, addr, size)
    BY <1>1, MapIs, MapAgainIs
  <2> QED
    BY <1>9, <2>1, <2>2
<1>2. ASSUME NEW p \in Procs, NEW n \in Names, Unmap(p, n) \/ UnmapRefused(p, n)
      PROVE  NewRecords
  <2>1. PICK ret \in {0, -1} : OnUnmap(p, n, ret)
    BY <1>2, UnmapIs, RefusedIs
  <2> DEFINE c == UnmapRecord(mapped[p][n].addr, ret)
  <2>2. Write(p, <<c>>) /\ UNCHANGED <<clock, stepped>>
    BY <1>2, <2>1 DEF Unmap, UnmapRefused, OnUnmap, Record
  <2>3. mapped[p][n].addr \in Nat
    BY <1>2, UnmapIs, RefusedIs
  <2>4. Shape(Stamped(p, c)) /\ Stamped(p, c).event = "unmap"
    BY <2>3, UnmapRecordShape
  <2> HIDE DEF c
  <2>5. IsEvent(Stamped(p, c))
    BY <2>4 DEF IsEvent
  <2> QED
    BY <2>2, <2>4, <2>5, CallWrites
<1>3. ASSUME NEW p \in Procs, MapFails(p)
      PROVE  NewRecords
  <2> DEFINE c == [MapRecord(p, NULL, NULL, Max(Asked)) EXCEPT !.ret = -1]
  <2>1. Write(p, <<c>>) /\ UNCHANGED <<clock, stepped>>
    BY <1>3 DEF MapFails, Record
  <2>2. Shape(Stamped(p, c)) /\ IsMap(Stamped(p, c))
    BY MapFailsShape
  <2> HIDE DEF c
  <2>3. IsEvent(Stamped(p, c))
    BY <2>2 DEF IsMap, IsEvent
  <2> QED
    BY <2>1, <2>2, <2>3, CallWrites
<1>4. ASSUME NEW p \in Procs, UnmapUnknown(p)
      PROVE  NewRecords
  <2> DEFINE c == UnmapRecord(Free(p), -1)
  <2>1. Write(p, <<c>>) /\ UNCHANGED <<clock, stepped>>
    BY <1>4 DEF UnmapUnknown, Record
  <2>2. Shape(Stamped(p, c)) /\ Stamped(p, c).event = "unmap"
    BY FreeIs, UnmapRecordShape
  <2> HIDE DEF c
  <2>3. IsEvent(Stamped(p, c))
    BY <2>2 DEF IsEvent
  <2> QED
    BY <2>1, <2>2, <2>3, CallWrites
<1>5. ASSUME NEW p \in Procs, Exit(p)
      PROVE  NewRecords
  BY <1>5, ExitWrites
<1>6. ASSUME NEW p \in Procs, Kill(p) \/ Start(p) \/ \E n \in Names : KillInMap(p, n)
      PROVE  NewRecords
  <2>1. file' = file
    BY <1>6 DEF Kill, Start, KillInMap
  <2> QED
    BY <2>1, NothingNew
<1>7. ASSUME Tick \/ StepBack
      PROVE  NewRecords
  <2>1. file' = file
    BY <1>7 DEF Tick, StepBack
  <2> QED
    BY <2>1, NothingNew
<1>8. CASE UNCHANGED vars
  BY <1>8, NothingNew DEF vars
<1> QED
  BY <1>1, <1>2, <1>3, <1>4, <1>5, <1>6, <1>7, <1>8 DEF Next

-----------------------------------------------------------------------------
(* The largest peaks.                                                      *)

LEMMA ReplayOfIs ==
  ASSUME NEW p
  PROVE  ReplayOf(p) = ReplayIn(Records, p) /\ ReplayOf(p)' = ReplayIn(Records', p)
BY DEF ReplayOf, ReplayIn

LEMMA MostInit == Init => MostInv
<1> SUFFICES ASSUME Init PROVE PeaksSeen /\ MostReached
  BY DEF MostInv
<1>1. \A p \in Procs : peak[p] = NoPeak /\ mapped[p] = Nothing
  BY DEF Init
<1>2. \A p \in Procs : Mapped(p) = {}
  BY <1>1 DEF Mapped, Nothing
<1>3. Cardinality({}) = 0
  BY FS_EmptySet
<1>4. most.count = 0 /\ most.bytes = 0
  BY DEF Init
<1>5. PeaksSeen
  BY <1>1, <1>2, <1>3, <1>4 DEF PeaksSeen, NoPeak
<1>6. MostReached
  BY <1>4 DEF MostReached
<1> QED
  BY <1>5, <1>6

\* Of a process without odd names the profiler knows all and only what is mapped.
LEMMA NothingOdd ==
  ASSUME Types, NEW p \in Procs, EntryInv(p), odd[p] = {}
  PROVE  Listed(p) = Mapped(p) /\ SizesOf(mapped[p]) = bytes[p]
<1>1. Listed(p) = Mapped(p) /\ \A n \in Mapped(p) : mapped[p][n].size = held[p][n].size
  BY DEF EntryInv, Complete, Listing
<1>2. held[p] \in [Names -> Region \cup {NULL}] /\ mapped[p] \in [Names -> Mapping \cup {NULL}]
  BY DEF Types
<1>3. \A n \in Names : /\ mapped[p][n] = NULL <=> held[p][n] = NULL
                       /\ held[p][n] # NULL => mapped[p][n].size = held[p][n].size
  BY <1>1 DEF Listed, Mapped
<1>4. SizesOf(mapped[p]) = SizesOf(held[p])
  BY <1>2, <1>3, SizesSame DEF Sized
<1>5. SizesOf(held[p]) = bytes[p]
  BY DEF EntryInv, Adds
<1> QED
  BY <1>1, <1>4, <1>5

LEMMA NothingOddNext ==
  ASSUME Types', NEW p \in Procs, EntryInv(p)', odd'[p] = {}
  PROVE  Listed(p)' = Mapped(p)' /\ SizesOf(mapped'[p]) = bytes'[p]
<1> DEFINE P == Types /\ EntryInv(p) /\ odd[p] = {} =>
                  Listed(p) = Mapped(p) /\ SizesOf(mapped[p]) = bytes[p]
<1>1. P
  BY NothingOdd
<1> HIDE DEF P
<1>2. P'
  BY <1>1, NothingOdd, PTL DEF P
<1>3. SizesOf(mapped[p])' = SizesOf(mapped'[p])
  BY DEF SizesOf
<1> QED
  BY <1>2, <1>3 DEF P

LEMMA NotMore ==
  ASSUME NEW p, NEW S, S \subseteq Mapped(p)
  PROVE  Cardinality(S) \in Nat /\ Cardinality(S) <= Cardinality(Mapped(p))
BY NamesAre, FS_Subset, FS_CardinalityType

\* The two counts and sums after a map.
LEMMA MapPeaks ==
  ASSUME Types, EntriesInv, PeaksSeen, NEW p \in Procs, NEW n \in Names, NEW size \in Asked,
         Map(p, n, size), Types', EntriesInv'
  PROVE  /\ PeaksSeen'
         /\ most.count <= most'.count /\ most.bytes <= most'.bytes
         /\ odd'[p] = {} => /\ most'.count # most.count => most'.count <= peak'[p].count
                            /\ most'.bytes # most.bytes => most'.bytes <= peak'[p].bytes
<1> DEFINE c == Cardinality(Mapped(p) \cup {n})
           l == Cardinality(Listed(p) \cup {n})
           s == SizesOf(mapped'[p])
<1>1. EntryInv(p) /\ EntryInv(p)' /\ odd' = odd
  BY DEF EntriesInv, Map
<1>2. /\ Mapped(p)' = Mapped(p) \cup {n} /\ OnMap(p, n, Free(p), size) /\ Free(p) \in Nat
      /\ \A q \in Procs \ {p} : Mapped(q)' = Mapped(q)
  BY MapIs
<1>3. /\ peak'[p].count = Larger(peak[p].count, l) /\ Listed(p)' = Listed(p) \cup {n}
      /\ \A q \in Procs \ {p} : peak'[q] = peak[q]
  BY <1>2, OnMapIs
<1>4. peak'[p].bytes = Larger(peak[p].bytes, bytes'[p]) /\ bytes'[p] \in Int
  BY <1>2, OnMapIs
<1>5. most'.count = Larger(most.count, c) /\ most'.bytes = Larger(most.bytes, s) /\ s \in Nat
  BY MostIs
<1>6. c \in Nat /\ l \in Nat /\ l <= c
  <2>1. Listed(p) \cup {n} \subseteq Mapped(p) \cup {n} /\ IsFiniteSet(Mapped(p) \cup {n})
    BY <1>1, ListedIn, NamesAre, FS_AddElement
  <2> QED
    BY <2>1, FS_Subset, FS_CardinalityType
<1>7. odd'[p] = {} => l = c /\ s = bytes'[p]
  BY <1>1, <1>2, <1>3, NothingOddNext
<1>8. /\ most.count \in Nat /\ most.bytes \in Nat
      /\ \A q \in Procs : peak[q].count \in Nat /\ peak[q].bytes \in Nat
      /\ \A q \in Procs : Cardinality(Mapped(q)) \in Nat
  BY NamesAre DEF Types
<1> HIDE DEF c, l, s
<1>9. most.count <= most'.count /\ c <= most'.count /\ most'.count \in {most.count, c}
  BY <1>5, <1>6, <1>8, LargerIs
<1>10. most.bytes <= most'.bytes /\ s <= most'.bytes /\ most'.bytes \in {most.bytes, s}
  BY <1>5, <1>8, LargerIs
<1>11. /\ peak'[p].count \in {peak[p].count, l} /\ l <= peak'[p].count
       /\ peak[p].count <= most.count
  BY <1>3, <1>6, <1>8, LargerIs DEF PeaksSeen
<1>12. /\ peak'[p].bytes \in {peak[p].bytes, bytes'[p]} /\ bytes'[p] <= peak'[p].bytes
       /\ odd'[p] = {} => peak[p].bytes <= most.bytes
  BY <1>1, <1>4, <1>8, LargerIs DEF PeaksSeen
<1>13. most'.count \in Nat /\ most'.bytes \in Nat
  BY <1>5, <1>6, <1>8, <1>9, <1>10
<1>14. peak'[p].count <= most'.count
  BY <1>6, <1>8, <1>9, <1>11, <1>13
<1>15. odd'[p] = {} => peak'[p].bytes <= most'.bytes
  BY <1>7, <1>8, <1>10, <1>12, <1>13
<1>16. Cardinality(Mapped(p)') <= most'.count
  BY <1>2, <1>9 DEF c
<1>17. ASSUME NEW q \in Procs \ {p}
       PROVE  /\ Cardinality(Mapped(q)') <= most'.count /\ peak'[q].count <= most'.count
              /\ odd'[q] = {} => peak'[q].bytes <= most'.bytes
  <2>1. /\ Cardinality(Mapped(q)) <= most.count /\ peak[q].count <= most.count
        /\ odd[q] = {} => peak[q].bytes <= most.bytes
    BY DEF PeaksSeen
  <2>2. Mapped(q)' = Mapped(q) /\ peak'[q] = peak[q] /\ odd'[q] = odd[q]
    BY <1>1, <1>2, <1>3
  <2> QED
    BY <1>8, <1>9, <1>10, <1>13, <2>1, <2>2
<1>18. \A q \in Procs : /\ Cardinality(Mapped(q)') <= most'.count /\ peak'[q].count <= most'.count
                        /\ odd'[q] = {} => peak'[q].bytes <= most'.bytes
  BY <1>14, <1>15, <1>16, <1>17
<1>19. PeaksSeen'
  BY <1>18 DEF PeaksSeen
<1>20. odd'[p] = {} => /\ most'.count # most.count => most'.count <= peak'[p].count
                       /\ most'.bytes # most.bytes => most'.bytes <= peak'[p].bytes
  BY <1>7, <1>9, <1>10, <1>11, <1>12
<1> QED
  BY <1>9, <1>10, <1>19, <1>20

\* Where the largest peaks stay, and nothing more is mapped.
LEMMA PeaksFrame ==
  ASSUME Types, PeaksSeen, most' = most,
         \A q \in Procs :
           /\ Mapped(q)' \subseteq Mapped(q) /\ (odd'[q] = {} => odd[q] = {})
           /\ \/ peak'[q] \in {peak[q], NoPeak}
              \/ odd'[q] # {} /\ peak'[q].count <= most.count
  PROVE  PeaksSeen'
<1>0. /\ most.count \in Nat /\ most.bytes \in Nat
      /\ \A q \in Procs : peak[q].count \in Nat /\ peak[q].bytes \in Nat
  BY DEF Types
<1>1. ASSUME NEW q \in Procs
      PROVE  /\ Cardinality(Mapped(q)') <= most.count /\ peak'[q].count <= most.count
             /\ odd'[q] = {} => peak'[q].bytes <= most.bytes
  <2>1. /\ Cardinality(Mapped(q)) <= most.count /\ peak[q].count <= most.count
        /\ odd[q] = {} => peak[q].bytes <= most.bytes
    BY DEF PeaksSeen
  <2>2. /\ Cardinality(Mapped(q)') \in Nat /\ Cardinality(Mapped(q)) \in Nat
        /\ Cardinality(Mapped(q)') <= Cardinality(Mapped(q))
    BY NotMore, NamesAre
  <2>3. NoPeak.count = 0 /\ NoPeak.bytes = 0
    BY DEF NoPeak
  <2> QED
    BY <1>0, <2>1, <2>2, <2>3
<1> QED
  BY <1>1 DEF PeaksSeen

LEMMA AgainPeaks ==
  ASSUME Types, EntriesInv, PeaksSeen, NEW p \in Procs, NEW n \in Names, NEW size \in Asked,
         MapAgain(p, n, size)
  PROVE  PeaksSeen' /\ most' = most
<1> DEFINE l == Cardinality(Listed(p) \cup {n})
<1>1. /\ n \in Mapped(p) /\ OnMap(p, n, mapped[p][n].addr, size) /\ mapped[p][n].addr \in Nat
      /\ odd'[p] = odd[p] \cup {n} /\ Mapped(p)' = Mapped(p)
      /\ \A q \in Procs \ {p} : Mapped(q)' = Mapped(q) /\ odd'[q] = odd[q]
  BY MapAgainIs
<1>2. /\ peak'[p].count = Larger(peak[p].count, l)
      /\ \A q \in Procs \ {p} : peak'[q] = peak[q]
  BY <1>1, OnMapIs
<1>3. l \in Nat /\ l <= Cardinality(Mapped(p))
  <2>1. Listed(p) \cup {n} \subseteq Mapped(p)
    BY <1>1, ListedIn DEF EntriesInv
  <2> QED
    BY <2>1, NotMore
<1> HIDE DEF l
<1>4. /\ Cardinality(Mapped(p)) <= most.count /\ peak[p].count <= most.count
      /\ Cardinality(Mapped(p)) \in Nat /\ most.count \in Nat /\ peak[p].count \in Nat
  BY NamesAre DEF PeaksSeen, Types
<1>5. peak'[p].count <= most.count
  BY <1>2, <1>3, <1>4, LargerIs
<1>6. most' = most
  BY DEF MapAgain
<1>7. \A q \in Procs :
        /\ Mapped(q)' \subseteq Mapped(q) /\ (odd'[q] = {} => odd[q] = {})
        /\ \/ peak'[q] \in {peak[q], NoPeak}
           \/ odd'[q] # {} /\ peak'[q].count <= most.count
  BY <1>1, <1>2, <1>5
<1> QED
  BY <1>6, <1>7, PeaksFrame

\* What is mapped and the peaks, of the steps that are not maps.
LEMMA QuietPeaks ==
  ASSUME Types, PeaksSeen, most' = most, peak' = peak,
         \A q \in Procs : Mapped(q)' \subseteq Mapped(q) /\ (odd'[q] = {} => odd[q] = {})
  PROVE  PeaksSeen' /\ most' = most
BY PeaksFrame

LEMMA StartPeaks ==
  ASSUME Types, PeaksSeen, NEW p \in Procs, Start(p)
  PROVE  PeaksSeen' /\ most' = most
<1>1. /\ peak' = [peak EXCEPT ![p] = NoPeak] /\ mapped' = [mapped EXCEPT ![p] = Nothing]
      /\ most' = most /\ odd' = odd
  BY DEF Start, history
<1>2. \A q \in Procs : peak'[q] \in {peak[q], NoPeak} /\ mapped'[q] \in {mapped[q], Nothing}
  BY <1>1 DEF Types
<1>3. \A q \in Procs : Mapped(q)' \subseteq Mapped(q)
  BY <1>2 DEF Mapped, Nothing
<1> QED
  BY <1>1, <1>2, <1>3, PeaksFrame

\* most and the peaks after a step.
LEMMA PeaksStep ==
  ASSUME Types, EntriesInv, PeaksSeen, [Next]_vars
  PROVE  /\ PeaksSeen'
         /\ most.count <= most'.count /\ most.bytes <= most'.bytes
         /\ \/ most' = most
            \/ \E p \in Procs : odd'[p] = {} =>
                 /\ most'.count # most.count => most'.count <= peak'[p].count
                 /\ most'.bytes # most.bytes => most'.bytes <= peak'[p].bytes
<1> DEFINE Goal == /\ PeaksSeen'
                   /\ most.count <= most'.count /\ most.bytes <= most'.bytes
                   /\ \/ most' = most
                      \/ \E p \in Procs : odd'[p] = {} =>
                           /\ most'.count # most.count => most'.count <= peak'[p].count
                           /\ most'.bytes # most.bytes => most'.bytes <= peak'[p].bytes
<1> SUFFICES Goal
  OBVIOUS
<1>0. Types' /\ EntriesInv'
  BY TypesStep, EntriesStep
<1>1. ASSUME NEW p \in Procs, NEW n \in Names, NEW size \in Asked, Map(p, n, size)
      PROVE  Goal
  BY <1>0, <1>1, MapPeaks
<1>2. ASSUME PeaksSeen', most' = most
      PROVE  Goal
  <2>1. most.count \in Nat /\ most.bytes \in Nat
    BY DEF Types
  <2> QED
    BY <1>2, <2>1
<1> HIDE DEF Goal
<1>3. ASSUME NEW p \in Procs, NEW n \in Names, NEW size \in Asked, MapAgain(p, n, size)
      PROVE  Goal
  BY <1>2, <1>3, AgainPeaks
<1>4. ASSUME NEW p \in Procs, NEW n \in Names, Unmap(p, n)
      PROVE  Goal
  <2>1. most' = most /\ odd' = odd
    BY <1>4 DEF Unmap
  <2>2. OnUnmap(p, n, 0) /\ \A q \in Procs : Mapped(q)' \subseteq Mapped(q)
    BY <1>4, UnmapIs
  <2>3. peak' = peak
    BY <2>2 DEF OnUnmap
  <2> QED
    BY <1>2, <2>1, <2>2, <2>3, QuietPeaks
<1>5. ASSUME NEW p \in Procs, NEW n \in Names, UnmapRefused(p, n)
      PROVE  Goal
  <2>1. most' = most
    BY <1>5 DEF UnmapRefused
  <2>2. /\ OnUnmap(p, n, -1) /\ \A q \in Procs : Mapped(q)' = Mapped(q)
        /\ odd'[p] = odd[p] \cup {n} /\ \A q \in Procs \ {p} : odd'[q] = odd[q]
    BY <1>5, RefusedIs
  <2>3. peak' = peak
    BY <2>2 DEF OnUnmap
  <2>4. \A q \in Procs : Mapped(q)' \subseteq Mapped(q) /\ (odd'[q] = {} => odd[q] = {})
    BY <2>2
  <2> QED
    BY <1>2, <2>1, <2>3, <2>4, QuietPeaks
<1>6. ASSUME UNCHANGED <<mapped, peak, most, odd>>
      PROVE  Goal
  <2>1. \A q \in Procs : Mapped(q)' = Mapped(q)
    BY <1>6 DEF Mapped
  <2>2. \A q \in Procs : Mapped(q)' \subseteq Mapped(q) /\ (odd'[q] = {} => odd[q] = {})
    BY <1>6, <2>1
  <2> QED
    BY <1>2, <1>6, <2>2, QuietPeaks
<1>7. ASSUME NEW p \in Procs, MapFails(p) \/ UnmapUnknown(p)
      PROVE  Goal
  BY <1>6, <1>7 DEF MapFails, UnmapUnknown, osVars
<1>8. ASSUME NEW p \in Procs, Exit(p) \/ Kill(p)
      PROVE  Goal
  BY <1>6, <1>8 DEF Exit, Kill, Ends, profiler, history
<1>9. ASSUME NEW p \in Procs, NEW n \in Names, KillInMap(p, n)
      PROVE  Goal
  BY <1>6, <1>9 DEF KillInMap, Ends, profiler
<1>10. ASSUME NEW p \in Procs, Start(p)
       PROVE  Goal
  BY <1>2, <1>10, StartPeaks
<1>11. ASSUME Tick \/ StepBack \/ UNCHANGED vars
       PROVE  Goal
  BY <1>6, <1>11 DEF Tick, StepBack, vars, osVars, profiler, history
<1> QED
  BY <1>1, <1>3, <1>4, <1>5, <1>7, <1>8, <1>9, <1>10, <1>11 DEF Next

LEMMA ReachedStep ==
  ASSUME Types, FileInv, EntriesInv, ReplayInv, PeaksSeen, MostReached, [Next]_vars
  PROVE  MostReached'
<1> SUFFICES ASSUME ~stepped', Plain'
             PROVE  /\ most'.count > 0 =>
                         \E p \in Procs : most'.count <= ReplayIn(Records', p).peakCount
                    /\ most'.bytes > 0 =>
                         \E p \in Procs : most'.bytes <= ReplayIn(Records', p).peakBytes
  BY ReplayOfIs DEF MostReached
<1>0. /\ \A p \in Procs : odd'[p] = {} /\ odd[p] = {}
      /\ Plain
  BY OddStays DEF Plain
<1>1. ~stepped
  BY OnlyForward
<1>2. \A p \in Procs : Replays(p)' /\ \E k \in {0, 1} : Grows(p, k)
  BY ReplaySteps
<1>3. ASSUME NEW p \in Procs
      PROVE  /\ ReplayIn(Records', p).peakCount >= ReplayIn(Records, p).peakCount
             /\ ReplayIn(Records', p).peakBytes >= ReplayIn(Records, p).peakBytes
             /\ peak'[p].count <= ReplayIn(Records', p).peakCount
             /\ peak'[p].bytes <= ReplayIn(Records', p).peakBytes
  <2>1. Knows(held'[p], peak'[p], Flags[p], odd'[p], last'[p], ReplayIn(Records', p))
    BY <1>2, ReplaysNext
  <2> QED
    BY <1>0, <1>2, <2>1 DEF Grows, Knows
<1>4. /\ most.count \in Nat /\ most.bytes \in Nat /\ most'.count \in Nat /\ most'.bytes \in Nat
      /\ \A p \in Procs : peak'[p].count \in Nat /\ peak'[p].bytes \in Nat
  <2>1. Types'
    BY TypesStep
  <2> QED
    BY <2>1 DEF Types
<1>5. \A p \in Procs : /\ ReplayIn(Records, p).peakCount \in Nat
                       /\ ReplayIn(Records, p).peakBytes \in Nat
                       /\ ReplayIn(Records', p).peakCount \in Nat
                       /\ ReplayIn(Records', p).peakBytes \in Nat
  BY LoggedSteps, ReplayInTyped DEF ReplayType
<1>6. /\ most'.count # most.count => \E p \in Procs : most'.count <= peak'[p].count
      /\ most'.bytes # most.bytes => \E p \in Procs : most'.bytes <= peak'[p].bytes
  BY <1>0, PeaksStep
<1>7. /\ most.count > 0 => \E p \in Procs : most.count <= ReplayIn(Records, p).peakCount
      /\ most.bytes > 0 => \E p \in Procs : most.bytes <= ReplayIn(Records, p).peakBytes
  BY <1>0, <1>1, ReplayOfIs DEF MostReached
<1>8. ASSUME most'.count > 0
      PROVE  \E p \in Procs : most'.count <= ReplayIn(Records', p).peakCount
  <2>1. CASE most'.count = most.count
    <3>1. PICK p \in Procs : most.count <= ReplayIn(Records, p).peakCount
      BY <1>7, <1>8, <2>1
    <3>2. most'.count <= ReplayIn(Records', p).peakCount
      BY <1>3, <1>4, <1>5, <2>1, <3>1
    <3> QED
      BY <3>2
  <2>2. CASE most'.count # most.count
    BY <1>3, <1>4, <1>5, <1>6, <2>2
  <2> QED
    BY <2>1, <2>2
<1>9. ASSUME most'.bytes > 0
      PROVE  \E p \in Procs : most'.bytes <= ReplayIn(Records', p).peakBytes
  <2>1. CASE most'.bytes = most.bytes
    <3>1. PICK p \in Procs : most.bytes <= ReplayIn(Records, p).peakBytes
      BY <1>7, <1>9, <2>1
    <3>2. most'.bytes <= ReplayIn(Records', p).peakBytes
      BY <1>3, <1>4, <1>5, <2>1, <3>1
    <3> QED
      BY <3>2
  <2>2. CASE most'.bytes # most.bytes
    BY <1>3, <1>4, <1>5, <1>6, <2>2
  <2> QED
    BY <2>1, <2>2
<1> QED
  BY <1>8, <1>9

LEMMA MostStep ==
  Types /\ FileInv /\ EntriesInv /\ ReplayInv /\ MostInv /\ [Next]_vars => MostInv'
BY PeaksStep, ReachedStep DEF MostInv

LEMMA HighestIs ==
  ASSUME NEW S, IsFiniteSet(S), NEW v, DOMAIN v = S, \A x \in S : v[x] \in Nat
  PROVE  LET h == Highest({v[x] : x \in S})
         IN  /\ h \in Nat /\ \A x \in S : v[x] <= h
             /\ h = 0 \/ \E x \in S : h = v[x]
<1> DEFINE T == {v[x] : x \in S}
           u == {0} \cup T
<1>1. IsFiniteSet(T)
  BY FiniteImage
<1>2. T \subseteq Nat /\ (\A x \in S : v[x] \in T) /\ \A t \in T : \E x \in S : t = v[x]
  OBVIOUS
<1> HIDE DEF T
<1>3. IsFiniteSet(u) /\ u = T \cup {0}
  BY <1>1, FS_AddElement
<1>4. u \subseteq Int /\ u # {}
  BY <1>2
<1> HIDE DEF u
<1>5. Max(u) \in u /\ \A x \in u : x <= Max(u)
  BY <1>3, <1>4, MaxOf
<1> DEFINE z == Max(u)
<1>6. z \in u /\ \A x \in u : x <= z
  BY <1>5
<1> HIDE DEF z
<1>7. \A x \in S : v[x] \in u
  BY <1>2, <1>3
<1>8. z \in Nat /\ \A x \in S : v[x] <= z
  BY <1>2, <1>3, <1>6, <1>7
<1>9. z = 0 \/ \E x \in S : z = v[x]
  BY <1>2, <1>3, <1>6
<1> QED
  BY <1>8, <1>9 DEF Highest, z, u, T

LEMMA ReplayedIs ==
  ASSUME FileInv
  PROVE  /\ DOMAIN Replayed = Pids(Records) /\ Pids(Records) \subseteq Procs
         /\ IsFiniteSet(Pids(Records)) /\ IsFiniteSet(Procs)
         /\ \A p \in Pids(Records) : Replayed[p] = ReplayIn(Records, p)
         /\ \A p : ReplayType(ReplayIn(Records, p))
<1>1. Logged(Records)
  BY LoggedAre
<1>2. DOMAIN Replayed = Pids(Records) /\ \A p \in Pids(Records) : Replayed[p] = ReplayIn(Records, p)
  BY DEF Replayed, Correlated, ReplayIn
<1>3. Pids(Records) \subseteq Procs
  BY <1>1, ShapeIs DEF Pids, Logged
<1>4. \A p : ReplayType(ReplayIn(Records, p))
  BY <1>1, ReplayInTyped
<1> QED
  BY <1>2, <1>3, <1>4, FleetAssumption, FS_Subset

LEMMA FoundPeaks ==
  ASSUME FileInv
  PROVE  /\ PeakCount(Replayed) \in Nat /\ PeakBytes(Replayed) \in Nat
         /\ \A p \in Procs : /\ ReplayIn(Records, p).peakCount <= PeakCount(Replayed)
                             /\ ReplayIn(Records, p).peakBytes <= PeakBytes(Replayed)
         /\ \/ PeakCount(Replayed) = 0
            \/ \E p \in Procs : PeakCount(Replayed) = ReplayIn(Records, p).peakCount
         /\ \/ PeakBytes(Replayed) = 0
            \/ \E p \in Procs : PeakBytes(Replayed) = ReplayIn(Records, p).peakBytes
<1> DEFINE S == Pids(Records)
           c == [p \in S |-> Replayed[p].peakCount]
           b == [p \in S |-> Replayed[p].peakBytes]
           m(p) == ReplayIn(Records, p)
<1>1. /\ IsFiniteSet(S) /\ S \subseteq Procs /\ DOMAIN Replayed = S
      /\ \A p \in S : Replayed[p] = m(p)
  BY ReplayedIs
<1>2. \A p : m(p).peakCount \in Nat /\ m(p).peakBytes \in Nat
  BY ReplayedIs DEF ReplayType
<1>3. \A p \in Procs \ S : m(p).peakCount = 0 /\ m(p).peakBytes = 0
  <2> TAKE p \in Procs \ S
  <2>1. m(p) = NoRecords
    BY LoggedAre, NoReplay
  <2> HIDE DEF m
  <2> QED
    BY <2>1 DEF NoRecords
<1> HIDE DEF m
<1>4. /\ DOMAIN c = S /\ \A p \in S : c[p] = m(p).peakCount /\ c[p] \in Nat
      /\ DOMAIN b = S /\ \A p \in S : b[p] = m(p).peakBytes /\ b[p] \in Nat
  BY <1>1, <1>2
<1>5. PeakCount(Replayed) = Highest({c[p] : p \in S})
  <2>1. \A p \in S : c[p] = Replayed[p].peakCount
    OBVIOUS
  <2>2. {c[p] : p \in S} = {Replayed[p].peakCount : p \in S}
    BY <2>1
  <2> HIDE DEF c, S
  <2> QED
    BY <1>1, <2>2 DEF PeakCount
<1>6. PeakBytes(Replayed) = Highest({b[p] : p \in S})
  <2>1. \A p \in S : b[p] = Replayed[p].peakBytes
    OBVIOUS
  <2>2. {b[p] : p \in S} = {Replayed[p].peakBytes : p \in S}
    BY <2>1
  <2> HIDE DEF b, S
  <2> QED
    BY <1>1, <2>2 DEF PeakBytes
<1> HIDE DEF c, b, S
<1>7. /\ PeakCount(Replayed) \in Nat /\ \A p \in S : c[p] <= PeakCount(Replayed)
      /\ PeakCount(Replayed) = 0 \/ \E p \in S : PeakCount(Replayed) = c[p]
  <2>1. LET h == Highest({c[p] : p \in S})
        IN  /\ h \in Nat /\ \A x \in S : c[x] <= h
            /\ h = 0 \/ \E x \in S : h = c[x]
    <3>1. IsFiniteSet(S) /\ DOMAIN c = S /\ \A x \in S : c[x] \in Nat
      BY <1>1, <1>4
    <3> QED
      BY ONLY <3>1, HighestIs
  <2> QED
    BY <1>5, <2>1
<1>8. /\ PeakBytes(Replayed) \in Nat /\ \A p \in S : b[p] <= PeakBytes(Replayed)
      /\ PeakBytes(Replayed) = 0 \/ \E p \in S : PeakBytes(Replayed) = b[p]
  <2>1. LET h == Highest({b[p] : p \in S})
        IN  /\ h \in Nat /\ \A x \in S : b[x] <= h
            /\ h = 0 \/ \E x \in S : h = b[x]
    <3>1. IsFiniteSet(S) /\ DOMAIN b = S /\ \A x \in S : b[x] \in Nat
      BY <1>1, <1>4
    <3> QED
      BY ONLY <3>1, HighestIs
  <2> QED
    BY <1>6, <2>1
<1>9. \A p \in Procs : m(p).peakCount <= PeakCount(Replayed) /\ m(p).peakBytes <= PeakBytes(Replayed)
  BY <1>3, <1>4, <1>7, <1>8
<1>10. /\ PeakCount(Replayed) = 0 \/ \E p \in Procs : PeakCount(Replayed) = m(p).peakCount
       /\ PeakBytes(Replayed) = 0 \/ \E p \in Procs : PeakBytes(Replayed) = m(p).peakBytes
  BY <1>1, <1>4, <1>7, <1>8
<1> QED
  BY <1>7, <1>8, <1>9, <1>10 DEF m

-----------------------------------------------------------------------------
(* What processes that have ended left behind.                             *)

\* A process that is not up and is not started again.
Rests(q) == /\ runs[q] = 1 /\ q \notin up' /\ held'[q] = held[q] /\ last'[q] = last[q]
            /\ peak'[q] = peak[q]

LEMMA RestsFrame ==
  ASSUME NEW q \in Procs, q \notin up, runs'[q] = 1, UNCHANGED <<up, runs>>,
         NEW p \in up, \A x \in Procs \ {p} : /\ held'[x] = held[x] /\ last'[x] = last[x]
                                              /\ peak'[x] = peak[x]
  PROVE  Rests(q)
BY DEF Rests

LEMMA StaysDown ==
  ASSUME Types, [Next]_vars, NEW q \in Procs, q \notin up, runs'[q] = 1
  PROVE  Rests(q)
<1>1. ASSUME NEW p \in Procs, NEW n \in Names, NEW size \in Asked, Map(p, n, size)
      PROVE  Rests(q)
  <2>1. p \in up /\ OnMap(p, n, Free(p), size) /\ Free(p) \in Nat
    BY <1>1, MapIs
  <2>2. \A x \in Procs \ {p} : held'[x] = held[x] /\ last'[x] = last[x] /\ peak'[x] = peak[x]
    BY <2>1, OnMapIs
  <2>3. UNCHANGED <<up, runs>>
    BY <1>1 DEF Map
  <2> QED
    BY <2>1, <2>2, <2>3, RestsFrame
<1>2. ASSUME NEW p \in Procs, NEW n \in Names, NEW size \in Asked, MapAgain(p, n, size)
      PROVE  Rests(q)
  <2>1. /\ p \in up /\ OnMap(p, n, mapped[p][n].addr, size) /\ mapped[p][n].addr \in Nat
    BY <1>2, MapAgainIs
  <2>2. \A x \in Procs \ {p} : held'[x] = held[x] /\ last'[x] = last[x] /\ peak'[x] = peak[x]
    BY <2>1, OnMapIs
  <2>3. UNCHANGED <<up, runs>>
    BY <1>2 DEF MapAgain
  <2> QED
    BY <2>1, <2>2, <2>3, RestsFrame
<1>3. ASSUME NEW p \in up, p \in Procs, NEW n \in Names, NEW ret, OnUnmap(p, n, ret),
             UNCHANGED <<up, runs>>
      PROVE  Rests(q)
  <2>1. /\ \A x \in Procs \ {p} : held'[x] = held[x] /\ last'[x] = last[x]
        /\ peak' = peak
    BY <1>3, OnUnmapIs
  <2> QED
    BY <1>3, <2>1, RestsFrame
<1>4. ASSUME NEW p \in Procs, NEW n \in Names, Unmap(p, n)
      PROVE  Rests(q)
  <2>1. p \in up /\ OnUnmap(p, n, 0) /\ UNCHANGED <<up, runs>>
    BY <1>4, UnmapIs DEF Unmap
  <2> QED
    BY <1>3, <2>1
<1>5. ASSUME NEW p \in Procs, NEW n \in Names, UnmapRefused(p, n)
      PROVE  Rests(q)
  <2>1. p \in up /\ OnUnmap(p, n, -1) /\ UNCHANGED <<up, runs>>
    BY <1>5, RefusedIs DEF UnmapRefused
  <2> QED
    BY <1>3, <2>1
<1>6. ASSUME NEW p \in Procs, MapFails(p) \/ UnmapUnknown(p)
      PROVE  Rests(q)
  <2>1. /\ p \in up /\ last' = [last EXCEPT ![p] = clock] /\ UNCHANGED <<runs, up, held, peak>>
    BY <1>6 DEF MapFails, UnmapUnknown, Call, Record
  <2> QED
    BY <2>1, RestsFrame DEF Types
<1>7. ASSUME NEW p \in Procs, Exit(p) \/ Kill(p)
      PROVE  Rests(q)
  <2>1. up' = up \ {p} /\ UNCHANGED <<runs, held, last, peak>>
    BY <1>7 DEF Exit, Kill, Ends, profiler, history
  <2> QED
    BY <2>1 DEF Rests
<1>8. ASSUME NEW p \in Procs, NEW n \in Names, KillInMap(p, n)
      PROVE  Rests(q)
  <2>1. up' = up \ {p} /\ UNCHANGED <<runs, held, last, peak>>
    BY <1>8 DEF KillInMap, Ends, profiler
  <2> QED
    BY <2>1 DEF Rests
<1>9. ASSUME NEW p \in Procs, Start(p)
      PROVE  Rests(q)
  <2>1. /\ up' = up \cup {p} /\ last' = last /\ runs' = [runs EXCEPT ![p] = @ + 1]
        /\ held' = [held EXCEPT ![p] = Nothing] /\ peak' = [peak EXCEPT ![p] = NoPeak]
    BY <1>9 DEF Start, history
  <2>2. runs[p] \in Nat \ {0} /\ runs'[p] = runs[p] + 1
    BY <2>1 DEF Types
  <2>3. q # p
    BY <2>2
  <2> QED
    BY <2>1, <2>3 DEF Types, Rests
<1>10. ASSUME Tick \/ StepBack \/ UNCHANGED vars
       PROVE  Rests(q)
  <2>1. UNCHANGED <<up, runs, held, last, peak>>
    BY <1>10 DEF Tick, StepBack, vars, profiler, history
  <2> QED
    BY <2>1 DEF Rests
<1> QED
  BY <1>1, <1>2, <1>4, <1>5, <1>6, <1>7, <1>8, <1>9, <1>10 DEF Next

-----------------------------------------------------------------------------
(* Summaries.                                                              *)

\* What a summary of q has, of which the replay is m.
Says(s, q, m, pk, od, rn, now) ==
  /\ s.peakCount <= m.peakCount /\ (od = {} => s.peakBytes <= m.peakBytes)
  /\ rn = 1 => q \notin now /\ s.peakCount = pk.count /\ s.peakBytes = pk.bytes

LEMMA SummaryInvIs ==
  /\ SummaryInv <=>
       (~stepped => \A k \in Summaries(Records) : \A q : q = Records[k].pid =>
          Says(Records[k], q, ReplayIn(Records, q), peak[q], odd[q], runs[q], up))
  /\ SummaryInv' <=>
       (~stepped' => \A k \in Summaries(Records') : \A q : q = Records'[k].pid =>
          Says(Records'[k], q, ReplayIn(Records', q), peak'[q], odd'[q], runs'[q], up'))
<1> DEFINE P == SummaryInv <=>
       (~stepped => \A k \in Summaries(Records) : \A q : q = Records[k].pid =>
          Says(Records[k], q, ReplayIn(Records, q), peak[q], odd[q], runs[q], up))
<1> SUFFICES P /\ P'
  OBVIOUS
<1>1. P
  <2>1. \A q : ReplayOf(q) = ReplayIn(Records, q)
    BY ReplayOfIs
  <2>2. SummaryInv <=>
          (~stepped => \A k \in Summaries(Records) :
             LET q == Records[k].pid
             IN  Says(Records[k], q, ReplayOf(q), peak[q], odd[q], runs[q], up))
    BY DEF SummaryInv, Says
  <2> QED
    BY <2>1, <2>2
<1> QED
  BY <1>1, PTL

LEMMA SummaryInit == Init => SummaryInv
<1> SUFFICES ASSUME Init PROVE Summaries(Records) = {}
  BY SummaryInvIs
<1>1. DOMAIN Records = 1 .. Len(file) /\ Len(file) = 0
  BY FileInit, RecordsAre DEF Init
<1> QED
  BY <1>1 DEF Summaries

LEMMA SummaryStep ==
  Types /\ FileInv /\ EntriesInv /\ ReplayInv /\ SummaryInv /\ [Next]_vars => SummaryInv'
<1> SUFFICES ASSUME Types, FileInv, EntriesInv, ReplayInv, SummaryInv, [Next]_vars, ~stepped',
                    NEW k \in Summaries(Records'), NEW q, q = Records'[k].pid
             PROVE  Says(Records'[k], q, ReplayIn(Records', q), peak'[q], odd'[q], runs'[q], up')
  BY SummaryInvIs
<1> DEFINE r == Records'[k]
           m == ReplayIn(Records, q)
           w == ReplayIn(Records', q)
<1>0. k \in DOMAIN Records' /\ r.event = "summary"
  BY DEF Summaries
<1>1. ~stepped /\ NewRecords /\ Begins(Records, Records') /\ Logged(Records) /\ Logged(Records')
  BY OnlyForward, LoggedSteps, RecordsStep DEF NewRecords
<1>2. q \in Procs /\ r.peakCount \in Nat /\ r.peakBytes \in Nat
  BY <1>0, <1>1, ShapeIs DEF Logged, SummaryShape
<1>3. Replays(q)' /\ (runs'[q] = 1 => runs[q] = 1) /\ \E i \in {0, 1} : Grows(q, i)
  BY <1>2, ReplaySteps
<1>4. /\ m.peakCount <= w.peakCount /\ m.peakBytes <= w.peakBytes
      /\ m.peakCount \in Nat /\ m.peakBytes \in Nat /\ w.peakCount \in Nat /\ w.peakBytes \in Nat
  BY <1>1, <1>3, ReplayInTyped DEF Grows, ReplayType
<1>5. odd'[q] = {} => odd[q] = {}
  BY <1>2, OddStays
<1>6. CASE k \in DOMAIN Records
  <2>1. r = Records[k] /\ k \in Summaries(Records)
    BY <1>0, <1>1, <1>6 DEF Begins, Summaries
  <2>2. Says(r, q, m, peak[q], odd[q], runs[q], up)
    BY <1>1, <2>1, SummaryInvIs
  <2>3. runs'[q] = 1 => Rests(q)
    BY <1>2, <1>3, <2>2, StaysDown DEF Says
  <2> HIDE DEF r, m, w
  <2> QED
    BY <1>2, <1>3, <1>4, <1>5, <2>2, <2>3 DEF Says, Rests, r, w
<1>7. CASE k \notin DOMAIN Records
  <2>1. ~IsEvent(r)
    BY <1>0 DEF IsEvent
  <2>2. Exit(q) /\ Tells(q, r)
    BY <1>0, <1>1, <1>7, <2>1 DEF NewRecords
  <2>3. r.peakCount = peak[q].count /\ r.peakBytes = peak[q].bytes
    BY <1>0, <2>2 DEF Tells
  <2>4. up' = up \ {q} /\ peak' = peak
    BY <2>2 DEF Exit, Ends, profiler
  <2>5. Knows(held'[q], peak'[q], Flags[q], odd'[q], last'[q], w)
    BY <1>3, ReplaysNext
  <2> HIDE DEF r, m, w
  <2> QED
    BY <2>3, <2>4, <2>5 DEF Says, Knows, r, w
<1> QED
  BY <1>6, <1>7
-----------------------------------------------------------------------------
(* The peaks that are told.                                                *)

\* The largest of the summaries, if none is more than c and d.
LEMMA ToldPeaks ==
  ASSUME FileInv
  PROVE  /\ \A c \in Nat : (\A n \in Summaries(Records) : Records[n].peakCount <= c) =>
              SummaryPeak(Records).count <= c
         /\ \A d \in Nat : (\A n \in Summaries(Records) : Records[n].peakBytes <= d) =>
              SummaryPeak(Records).bytes <= d
<1> DEFINE S == Summaries(Records)
           c == [n \in S |-> Records[n].peakCount]
           b == [n \in S |-> Records[n].peakBytes]
<1>1. IsFiniteSet(S)
  <2>1. S \subseteq 1 .. Len(file) /\ Len(file) \in Nat
    BY RecordsAre DEF Summaries
  <2>2. IsFiniteSet(1 .. Len(file))
    BY <2>1, FS_Interval
  <2> QED
    BY <2>1, <2>2, FS_Subset
<1>2. ASSUME NEW n \in S
      PROVE  c[n] \in Nat /\ b[n] \in Nat
  <2>1. Shape(Records[n]) /\ Records[n].event = "summary"
    BY LoggedAre DEF Logged, Summaries
  <2> QED
    BY <2>1, ShapeIs DEF SummaryShape
<1>3. \A n \in S : c[n] = Records[n].peakCount /\ b[n] = Records[n].peakBytes
  OBVIOUS
<1>4. {c[n] : n \in S} = {Records[n].peakCount : n \in S}
  <2>1. \A n \in S : c[n] = Records[n].peakCount
    OBVIOUS
  <2> QED
    BY <2>1
<1>5. {b[n] : n \in S} = {Records[n].peakBytes : n \in S}
  <2>1. \A n \in S : b[n] = Records[n].peakBytes
    OBVIOUS
  <2> QED
    BY <2>1
<1>6. /\ SummaryPeak(Records).count = Highest({c[n] : n \in S})
      /\ SummaryPeak(Records).bytes = Highest({b[n] : n \in S})
  <2> HIDE DEF c, b
  <2> QED
    BY <1>4, <1>5 DEF SummaryPeak, Highest
<1>7. DOMAIN c = S /\ DOMAIN b = S
  OBVIOUS
<1> HIDE DEF c, b, S
<1>8. LET h == Highest({c[n] : n \in S}) IN h \in Nat /\ (h = 0 \/ \E x \in S : h = c[x])
  BY <1>1, <1>2, <1>7, HighestIs
<1>9. LET h == Highest({b[n] : n \in S}) IN h \in Nat /\ (h = 0 \/ \E x \in S : h = b[x])
  BY <1>1, <1>2, <1>7, HighestIs
<1>10. ASSUME NEW d \in Nat, \A n \in S : Records[n].peakCount <= d
       PROVE  SummaryPeak(Records).count <= d
  <2>1. \A n \in S : c[n] <= d
    BY <1>3, <1>10
  <2> QED
    BY <1>6, <1>8, <2>1
<1>11. ASSUME NEW d \in Nat, \A n \in S : Records[n].peakBytes <= d
       PROVE  SummaryPeak(Records).bytes <= d
  <2>1. \A n \in S : b[n] <= d
    BY <1>3, <1>11
  <2> QED
    BY <1>6, <1>9, <2>1
<1> QED
  BY <1>10, <1>11 DEF S

LEMMA PeakFound ==
  Types /\ FileInv /\ ReplayInv /\ MostInv /\ SummaryInv => PeakIsLargest
<1> SUFFICES ASSUME Types, FileInv, ReplayInv, MostInv, SummaryInv, ~stepped
             PROVE  PeakIsLargest
  BY DEF PeakIsLargest
<1> DEFINE c == PeakCount(Replayed)
           b == PeakBytes(Replayed)
           m(p) == ReplayIn(Records, p)
<1>1. PeaksSeen /\ MostReached
  BY DEF MostInv
<1>2. most.count \in Nat /\ most.bytes \in Nat
  BY DEF Types
<1>3. /\ c \in Nat /\ b \in Nat
      /\ \A p \in Procs : m(p).peakCount <= c /\ m(p).peakBytes <= b
      /\ c = 0 \/ \E p \in Procs : c = m(p).peakCount
      /\ b = 0 \/ \E p \in Procs : b = m(p).peakBytes
  BY FoundPeaks
<1>4. \A p \in Procs : m(p).peakCount \in Nat /\ m(p).peakBytes \in Nat
  BY ReplayedIs DEF ReplayType
<1>5. Plain => /\ most.count > 0 => \E p \in Procs : most.count <= m(p).peakCount
               /\ most.bytes > 0 => \E p \in Procs : most.bytes <= m(p).peakBytes
  BY <1>1, ReplayOfIs DEF MostReached
<1>6. ASSUME NEW p \in Procs, runs[p] = 1
      PROVE  /\ m(p).peakCount = peak[p].count /\ m(p).peakBytes <= peak[p].bytes
             /\ odd[p] = {} => m(p).peakBytes = peak[p].bytes
  <2>1. Exact(held[p], peak[p], odd[p], done[p], m(p))
    BY <1>6, ReplayInvIs, ReplaysIs
  <2> QED
    BY <2>1 DEF Exact
<1>7. ASSUME NEW k \in Summaries(Records)
      PROVE  LET s == Records[k] IN
             /\ s.pid \in Procs /\ s.peakCount \in Nat /\ s.peakBytes \in Nat
             /\ Says(s, s.pid, m(s.pid), peak[s.pid], odd[s.pid], runs[s.pid], up)
  <2>1. Shape(Records[k]) /\ Records[k].event = "summary"
    BY LoggedAre DEF Logged, Summaries
  <2> QED
    BY <2>1, ShapeIs, SummaryInvIs DEF SummaryShape
<1> HIDE DEF c, b, m
<1>8. OwnPids => c <= most.count
  <2>1. \A p \in Procs : peak[p].count <= most.count
    BY <1>1 DEF PeaksSeen
  <2> QED
    BY <1>2, <1>3, <1>6, <2>1 DEF OwnPids
<1>9. Plain => c >= most.count /\ b >= most.bytes
  BY <1>2, <1>3, <1>4, <1>5
<1>10. Plain /\ OwnPids => b <= most.bytes
  <2>1. Plain => \A p \in Procs : peak[p].bytes <= most.bytes
    BY <1>1 DEF PeaksSeen, Plain
  <2> QED
    BY <1>2, <1>3, <1>6, <2>1 DEF OwnPids, Plain
<1>11. SummaryPeak(Records).count <= c /\ (Plain => SummaryPeak(Records).bytes <= b)
  <2>1. \A k \in Summaries(Records) : Records[k].peakCount <= c
    BY <1>3, <1>4, <1>7 DEF Says
  <2>2. Plain => \A k \in Summaries(Records) : Records[k].peakBytes <= b
    BY <1>3, <1>4, <1>7 DEF Says, Plain
  <2> QED
    BY <1>3, <2>1, <2>2, ToldPeaks
<1>12. ASSUME NEW k \in Summaries(Records), NEW q, q = Records[k].pid, runs[q] = 1,
              q \in DOMAIN Replayed
       PROVE  /\ Records[k].peakCount = Replayed[q].peakCount
              /\ Records[k].peakBytes >= Replayed[q].peakBytes
              /\ odd[q] = {} => Records[k].peakBytes = Replayed[q].peakBytes
  <2>1. q \in Procs /\ Records[k].peakCount = peak[q].count /\ Records[k].peakBytes = peak[q].bytes
    BY <1>7, <1>12 DEF Says
  <2>2. Replayed[q] = m(q)
    BY <1>12, ReplayedIs DEF m
  <2> QED
    BY <1>6, <1>12, <2>1, <2>2
<1>13. Plain /\ OwnPids => b = most.bytes
  BY <1>2, <1>3, <1>9, <1>10
<1> QED
  BY <1>8, <1>9, <1>11, <1>12, <1>13 DEF PeakIsLargest, c, b

-----------------------------------------------------------------------------
(* Regions that are told at an exit.                                       *)

LeftOver(r, now, lt) ==
  \E n \in On(now) : /\ r.addr = now[n].addr /\ r.size = now[n].size
                     /\ r.age >= lt - now[n].since

LEMMA LeakInvIs ==
  /\ LeakInv <=>
       (~stepped => \A k \in Leaks(Records) : \A q :
          q = Records[k].pid /\ runs[q] = 1 =>
            q \notin up /\ last[q] # NULL /\ LeftOver(Records[k], held[q], last[q]))
  /\ LeakInv' <=>
       (~stepped' => \A k \in Leaks(Records') : \A q :
          q = Records'[k].pid /\ runs'[q] = 1 =>
            q \notin up' /\ last'[q] # NULL /\ LeftOver(Records'[k], held'[q], last'[q]))
<1>1. LeakInv <=>
       (~stepped => \A k \in Leaks(Records) : \A q :
          q = Records[k].pid /\ runs[q] = 1 =>
            q \notin up /\ last[q] # NULL /\ LeftOver(Records[k], held[q], last[q]))
  BY DEF LeakInv, LeftOver, On, Listed
<1> DEFINE P == LeakInv <=>
       (~stepped => \A k \in Leaks(Records) : \A q :
          q = Records[k].pid /\ runs[q] = 1 =>
            q \notin up /\ last[q] # NULL /\ LeftOver(Records[k], held[q], last[q]))
<1> SUFFICES P /\ P'
  OBVIOUS
<1>2. P
  BY <1>1
<1> QED
  BY <1>2, PTL

LEMMA LeakInit == Init => LeakInv
<1> SUFFICES ASSUME Init PROVE Leaks(Records) = {}
  BY LeakInvIs
<1>1. DOMAIN Records = 1 .. Len(file) /\ Len(file) = 0
  BY FileInit, RecordsAre DEF Init
<1> QED
  BY <1>1 DEF Leaks

LEMMA LeakStep ==
  Types /\ FileInv /\ EntriesInv /\ ReplayInv /\ LeakInv /\ [Next]_vars => LeakInv'
<1> SUFFICES ASSUME Types, FileInv, EntriesInv, ReplayInv, LeakInv, [Next]_vars, ~stepped',
                    NEW k \in Leaks(Records'), NEW q, q = Records'[k].pid, runs'[q] = 1
             PROVE  /\ q \notin up' /\ last'[q] # NULL
                    /\ LeftOver(Records'[k], held'[q], last'[q])
  BY LeakInvIs
<1> DEFINE r == Records'[k]
<1>0. k \in DOMAIN Records' /\ r.event = "live_at_exit"
  BY DEF Leaks
<1>1. ~stepped /\ NewRecords /\ Begins(Records, Records') /\ Logged(Records) /\ Logged(Records')
  BY OnlyForward, LoggedSteps, RecordsStep DEF NewRecords
<1>2. q \in Procs
  BY <1>0, <1>1, ShapeIs DEF Logged
<1>3. CASE k \in DOMAIN Records
  <2>1. r = Records[k] /\ k \in Leaks(Records)
    BY <1>0, <1>1, <1>3 DEF Begins, Leaks
  <2>2. runs[q] = 1
    BY <1>2, ReplaySteps
  <2>3. q \notin up /\ last[q] # NULL /\ LeftOver(r, held[q], last[q])
    BY <1>1, <2>1, <2>2, LeakInvIs
  <2>4. q \notin up' /\ held'[q] = held[q] /\ last'[q] = last[q]
    BY <1>2, <2>2, <2>3, StaysDown DEF Rests
  <2> QED
    BY <2>3, <2>4
<1>4. CASE k \notin DOMAIN Records
  <2>1. ~IsEvent(r)
    BY <1>0 DEF IsEvent
  <2>2. Exit(q) /\ last[q] # NULL /\ Tells(q, r)
    BY <1>0, <1>1, <1>4, <2>1 DEF NewRecords
  <2>3. PICK n \in Listed(q) : /\ r.addr = held[q][n].addr /\ r.size = held[q][n].size
                               /\ r.age = clock - held[q][n].since
    BY <1>0, <2>2 DEF Tells
  <2>4. up' = up \ {q} /\ held' = held /\ last' = last
    BY <2>2 DEF Exit, Ends, profiler, history
  <2>5. n \in On(held[q])
    BY DEF On, Listed
  <2>6. last[q] \in Nat /\ last[q] <= clock /\ clock \in Nat
    <3>1. Replays(q)
      BY <1>1, <1>2, ReplayInvIs
    <3> QED
      BY <1>2, <2>2, <3>1, ReplaysIs DEF Types
  <2>7. held[q][n].since \in Nat
    BY <1>2, HeldIs DEF Listed
  <2>8. r.age >= last[q] - held[q][n].since
    BY <2>3, <2>6, <2>7
  <2>9. LeftOver(r, held[q], last[q])
    BY <2>3, <2>5, <2>8 DEF LeftOver
  <2> QED
    BY <2>2, <2>4, <2>9
<1> QED
  BY <1>3, <1>4

-----------------------------------------------------------------------------
(* What the replay has at the end is what the processes have.              *)

LEMMA NeverFreedIs ==
  ASSUME NEW now \in Maps, NEW fl, NEW lt \in Nat, NEW m, ReplayType(m), Owns(now, fl, m),
         DOMAIN m.live = At(now), m.last = lt
  PROVE  /\ DOMAIN NeverFreed(m) = At(now)
         /\ \A n \in On(now) :
              NeverFreed(m)[now[n].addr] = [name |-> n, size |-> now[n].size, flags |-> fl,
                                            age |-> lt - now[n].since]
<1>1. DOMAIN NeverFreed(m) = At(now)
  BY DEF NeverFreed
<1>2. ASSUME NEW n \in On(now)
      PROVE  NeverFreed(m)[now[n].addr] = [name |-> n, size |-> now[n].size, flags |-> fl,
                                           age |-> lt - now[n].since]
  <2> DEFINE a == now[n].addr
             e == m.live[a]
  <2>1. /\ a \in DOMAIN m.live /\ e.name = n /\ e.size = now[n].size
        /\ e.ts = now[n].since /\ e.flags = fl
    BY OwnsIs
  <2>2. NULL \notin {m.last, e.ts}
    <3>1. now[n].since \in Nat
      BY OnIs
    <3>2. e.ts \in Nat /\ m.last \in Nat
      BY <2>1, <3>1
    <3> HIDE DEF e
    <3> QED
      BY <3>2, NullIs
  <2> HIDE DEF a
  <2>3. NeverFreed(m)[a] =
          [name |-> e.name, size |-> e.size, flags |-> e.flags, age |-> m.last - e.ts]
    BY <2>1, <2>2 DEF NeverFreed
  <2> HIDE DEF e
  <2> QED
    BY <2>1, <2>3 DEF a
<1> QED
  BY <1>1, <1>2

\* Of a process whose pid was given out once, and that has made a call.
LEMMA FoundOf ==
  ASSUME Types, FileInv, NEW p \in Procs, Replays(p), runs[p] = 1, last[p] # NULL
  PROVE  LET m == ReplayIn(Records, p)
         IN  /\ DOMAIN NeverFreed(m) = At(held[p])
             /\ \A n \in Listed(p) : NeverFreed(m)[held[p][n].addr] =
                  [name |-> n, size |-> held[p][n].size, flags |-> Flags[p],
                   age |-> last[p] - held[p][n].since]
             /\ odd[p] = {} => m.lifetimes = done[p]
<1> DEFINE m == ReplayIn(Records, p)
           now == held[p]
           lt == last[p]
           fl == Flags[p]
           od == odd[p]
           dn == done[p]
<1>1. Knows(now, peak[p], fl, od, lt, m) /\ Exact(now, peak[p], od, dn, m)
  BY ReplaysIs
<1>2. /\ Owns(now, fl, m) /\ m.last = lt /\ DOMAIN m.live = At(now)
      /\ od = {} => m.lifetimes = dn
  BY <1>1 DEF Knows, Exact
<1>3. ReplayType(m) /\ now \in Maps /\ lt \in Nat /\ On(now) = Listed(p)
  BY ReplayedIs, HeldMaps DEF Types
<1> HIDE DEF m, now, lt, fl, od, dn
<1>4. /\ DOMAIN NeverFreed(m) = At(now)
      /\ \A n \in On(now) :
           NeverFreed(m)[now[n].addr] = [name |-> n, size |-> now[n].size, flags |-> fl,
                                         age |-> lt - now[n].since]
  BY <1>2, <1>3, NeverFreedIs
<1>5. /\ DOMAIN NeverFreed(m) = At(now)
      /\ \A n \in Listed(p) :
           NeverFreed(m)[now[n].addr] = [name |-> n, size |-> now[n].size, flags |-> fl,
                                         age |-> lt - now[n].since]
      /\ od = {} => m.lifetimes = dn
  BY <1>2, <1>3, <1>4
<1> QED
  BY <1>5 DEF m, now, lt, fl, od, dn

\* The same by name.
LEMMA LeftIs ==
  ASSUME Types, FileInv, NEW p \in Procs, Replays(p), runs[p] = 1, last[p] # NULL,
         NEW n \in Listed(p)
  PROVE  LET e == NeverFreed(ReplayIn(Records, p))[held[p][n].addr]
         IN  /\ held[p][n].addr \in DOMAIN NeverFreed(ReplayIn(Records, p))
             /\ e.name = n /\ e.size = held[p][n].size /\ e.flags = Flags[p]
             /\ e.age = last[p] - held[p][n].since
<1> DEFINE e == NeverFreed(ReplayIn(Records, p))[held[p][n].addr]
<1>1. e = [name |-> n, size |-> held[p][n].size, flags |-> Flags[p],
           age |-> last[p] - held[p][n].since]
  BY FoundOf
<1>2. held[p][n].addr \in DOMAIN NeverFreed(ReplayIn(Records, p))
  BY FoundOf, HeldMaps
<1> HIDE DEF e
<1>3. /\ e.name = n /\ e.size = held[p][n].size /\ e.flags = Flags[p]
      /\ e.age = last[p] - held[p][n].since
  BY <1>1
<1> QED
  BY <1>2, <1>3 DEF e

LEMMA FoundOnly ==
  ASSUME Types, FileInv, ~stepped, NEW p \in Procs, EntryInv(p), Replays(p), runs[p] = 1,
         last[p] # NULL
  PROVE  OnlyMapped(p, NeverFreed(ReplayIn(Records, p)))
<1> DEFINE never == NeverFreed(ReplayIn(Records, p))
<1> SUFFICES ASSUME NEW a \in DOMAIN never
             PROVE  \E n \in Mapped(p) :
                      /\ a = mapped[p][n].addr /\ never[a].name = n
                      /\ never[a].flags = Flags[p] /\ never[a].age <= Told(p, n).age
  BY DEF OnlyMapped
<1>1. a \in At(held[p])
  BY FoundOf
<1>2. PICK n \in Listed(p) : a = held[p][n].addr
  BY <1>1, HeldMaps
<1>3. n \in Mapped(p) /\ held[p][n].addr = mapped[p][n].addr
  BY ListedIn
<1>4. /\ never[a].name = n /\ never[a].flags = Flags[p]
      /\ never[a].age = last[p] - held[p][n].since
  BY <1>2, LeftIs
<1>5. mapped[p][n].since <= held[p][n].since
  BY DEF EntryInv, Past
<1>6. n \in Names
  BY DEF Listed
<1>7. mapped[p][n].since \in Nat /\ held[p][n].since \in Nat /\ last[p] \in Nat
  BY <1>3, <1>6, HasIs, HeldIs DEF Types
<1>8. Told(p, n).age = last[p] - mapped[p][n].since
  BY DEF Told
<1> HIDE DEF never
<1>9. never[a].age <= Told(p, n).age
  BY <1>4, <1>5, <1>7, <1>8
<1> QED
  BY <1>2, <1>3, <1>4, <1>9

LEMMA FoundTold ==
  ASSUME Types, FileInv, NEW p \in Procs, EntryInv(p), Replays(p), runs[p] = 1,
         last[p] # NULL
  PROVE  MappedTold(p, NeverFreed(ReplayIn(Records, p)))
<1> DEFINE never == NeverFreed(ReplayIn(Records, p))
<1> SUFFICES ASSUME NEW n \in Mapped(p) \ odd[p]
             PROVE  /\ mapped[p][n].addr \in DOMAIN never
                    /\ never[mapped[p][n].addr] = Told(p, n)
  BY DEF MappedTold
<1>1. n \in Listed(p) /\ mapped[p][n].size = held[p][n].size /\ mapped[p][n].since = held[p][n].since
  BY DEF EntryInv, Complete
<1>2. held[p][n].addr = mapped[p][n].addr
  BY <1>1, ListedIn
<1>3. /\ held[p][n].addr \in DOMAIN never
      /\ never[held[p][n].addr] = [name |-> n, size |-> held[p][n].size, flags |-> Flags[p],
                                   age |-> last[p] - held[p][n].since]
  BY <1>1, LeftIs, FoundOf
<1> HIDE DEF never
<1> QED
  BY <1>1, <1>2, <1>3 DEF Told

LEMMA UnmatchedFound ==
  ASSUME FileInv
  PROVE  Unmatched(Replayed) = Total(UnmatchedAt(Records))
<1> DEFINE S == Pids(Records)
           f == UnmatchedAt(Records)
           g == [p \in S |-> Replayed[p].unmatched]
<1>1. /\ IsFiniteSet(S) /\ S \subseteq Procs /\ DOMAIN Replayed = S
      /\ \A p \in S : Replayed[p] = ReplayIn(Records, p)
  BY ReplayedIs
<1>2. /\ DOMAIN f = Procs /\ IsFiniteSet(Procs)
      /\ \A p \in Procs : f[p] = ReplayIn(Records, p).unmatched /\ f[p] \in Nat
  BY LoggedAre, UnmatchedIs
<1>3. \A p \in Procs \ S : f[p] = 0
  <2> TAKE p \in Procs \ S
  <2>1. ReplayIn(Records, p) = NoRecords
    BY LoggedAre, NoReplay
  <2> HIDE DEF f
  <2> QED
    BY <1>2, <2>1 DEF NoRecords
<1>4. Unmatched(Replayed) = Total(g)
  <2>1. Unmatched(Replayed) = Total([p \in DOMAIN Replayed |-> Replayed[p].unmatched])
    BY DEF Unmatched
  <2> QED
    BY <1>1, <2>1
<1>5. DOMAIN g = S /\ \A p \in S : g[p] = Replayed[p].unmatched
  OBVIOUS
<1> HIDE DEF f, g, S
<1>6. \A p \in S : g[p] = f[p]
  BY <1>1, <1>2, <1>5
<1>7. Total(g) = Sum(g, S) /\ Total(f) = Sum(f, Procs)
  BY <1>2, <1>5, TotalIs
<1>8. Sum(g, S) = Sum(f, S)
  BY <1>1, <1>6, SumSame
<1>9. Sum(f, S) = Sum(f, Procs)
  BY <1>1, <1>2, <1>3, SumPart
<1> QED
  BY <1>4, <1>7, <1>8, <1>9 DEF f

LEMMA LiveFound ==
  Types /\ FileInv /\ EntriesInv /\ ReplayInv /\ UnknownInv /\ LeakInv => LiveAgrees
<1> SUFFICES ASSUME Types, FileInv, EntriesInv, ReplayInv, UnknownInv, LeakInv, ~stepped,
                    OwnPids
             PROVE  LiveAgrees
  BY DEF LiveAgrees
<1>1. \A p \in Procs : Replays(p) /\ runs[p] = 1 /\ EntryInv(p)
  BY ReplayInvIs DEF OwnPids, EntriesInv
<1>2. /\ DOMAIN Replayed = Pids(Records) /\ Pids(Records) \subseteq Procs
      /\ \A p \in Pids(Records) : Replayed[p] = ReplayIn(Records, p)
  BY ReplayedIs
<1>3. \A p \in Procs : p \in DOMAIN Replayed <=> last[p] # NULL
  BY <1>1, <1>2 DEF Replays
<1>4. ASSUME NEW p \in DOMAIN Replayed
      PROVE  /\ OnlyMapped(p, NeverFreed(Replayed[p])) /\ MappedTold(p, NeverFreed(Replayed[p]))
             /\ odd[p] = {} => Replayed[p].lifetimes = done[p]
  <2>1. p \in Procs /\ last[p] # NULL /\ Replayed[p] = ReplayIn(Records, p)
    BY <1>2, <1>3
  <2> QED
    BY <1>1, <2>1, FoundOnly, FoundTold, FoundOf
<1>5. \A p \in Procs \ DOMAIN Replayed : last[p] = NULL
  BY <1>3
<1>6. Unmatched(Replayed) >= unknown /\ (Plain => Unmatched(Replayed) = unknown)
  <2>1. Unmatched(Replayed) = Total(UnmatchedAt(Records))
    BY UnmatchedFound
  <2>2. UnknownLeft(Total(UnmatchedAt(Records)))
    BY UnknownInvIs
  <2>3. Total(UnmatchedAt(Records)) \in Nat
    BY LoggedAre, UnmatchedIs, TotalNat
  <2> QED
    BY <2>1, <2>2, <2>3 DEF UnknownLeft, Types
<1>7. ASSUME NEW k \in Leaks(Records)
      PROVE  LET leak  == Records[k]
                 never == NeverFreed(Replayed[leak.pid])
             IN  /\ leak.addr \in DOMAIN never
                 /\ leak.size = never[leak.addr].size
                 /\ leak.age >= never[leak.addr].age
  <2> DEFINE r == Records[k]
             q == r.pid
  <2>1. q \in Procs
    BY LoggedAre, ShapeIs DEF Logged, Leaks
  <2>2. last[q] # NULL /\ LeftOver(r, held[q], last[q])
    BY <1>1, <2>1, LeakInvIs
  <2>3. q \in DOMAIN Replayed /\ Replayed[q] = ReplayIn(Records, q)
    BY <1>2, <1>3, <2>1, <2>2
  <2> HIDE DEF q
  <2> DEFINE m == ReplayIn(Records, q)
  <2>4. PICK n \in Listed(q) : /\ r.addr = held[q][n].addr /\ r.size = held[q][n].size
                               /\ r.age >= last[q] - held[q][n].since
    BY <2>2 DEF LeftOver, On, Listed
  <2>5. LET a == held[q][n].addr
        IN  /\ a \in DOMAIN NeverFreed(m) /\ NeverFreed(m)[a].size = held[q][n].size
            /\ NeverFreed(m)[a].age = last[q] - held[q][n].since
    BY <1>1, <2>1, <2>2, <2>4, LeftIs
  <2>6. Replayed[q] = m
    BY <2>3
  <2> HIDE DEF m, r
  <2>7. /\ r.addr \in DOMAIN NeverFreed(m) /\ r.size = NeverFreed(m)[r.addr].size
        /\ r.age >= NeverFreed(m)[r.addr].age
    BY <2>4, <2>5
  <2> QED
    BY <2>6, <2>7 DEF r, q
<1> QED
  BY <1>4, <1>5, <1>6, <1>7 DEF LiveAgrees

\* With a clock that only goes forward and a pid for each process, what the report
\* says was never freed the process has, for no less long; and of a process in which
\* no name was mapped again and no unmap refused it says all that was never freed,
\* held for how long and never known, though the calls of all are in one file.
THEOREM LiveIsTold == Spec => []LiveAgrees
<1> DEFINE I == Types /\ FileInv /\ EntriesInv /\ ReplayInv /\ UnknownInv /\ LeakInv
<1>1. I => LiveAgrees
  BY LiveFound
<1>2. Init => I
  BY TypesInit, FileInit, EntriesInit, ReplayInit, UnknownInit, LeakInit
<1>3. I /\ [Next]_vars => I'
  BY TypesStep, FileStep, EntriesStep, ReplayStep, UnknownStep, LeakStep
<1> QED
  BY <1>1, <1>2, <1>3, PTL DEF Spec

\* The count of the report's peak is never above what a process had mapped at a time,
\* if the clock only goes forward and each process has its pid; both peaks are those
\* of the process that had the most if besides no name was mapped again and no unmap
\* refused.  No summary has a higher count than the report, nor the count of another
\* moment of its process; more bytes only if a name was mapped again.
THEOREM PeakIsTold == Spec => []PeakIsLargest
<1> DEFINE I == /\ Types /\ FileInv /\ EntriesInv /\ ReplayInv /\ MostInv /\ SummaryInv
<1>1. I => PeakIsLargest
  BY PeakFound
<1>2. Init => I
  BY TypesInit, FileInit, EntriesInit, ReplayInit, MostInit, SummaryInit
<1>3. I /\ [Next]_vars => I'
  BY TypesStep, FileStep, EntriesStep, ReplayStep, MostStep, SummaryStep
<1> QED
  BY <1>1, <1>2, <1>3, PTL DEF Spec

-----------------------------------------------------------------------------
(* Tables that count things.                                               *)

Rising(edges) == edges \in Seq(Nat) /\ \A i, j \in DOMAIN edges : i < j => edges[i] < edges[j]

LEMMA EdgesRise == Rising(SizeEdges) /\ Rising(LifeEdges)
BY ReportAssumption DEF Rising

\* Whatever is counted is counted in one class.
LEMMA Parted ==
  ASSUME NEW S, IsFiniteSet(S), NEW C, IsFiniteSet(C), NEW f, \A x \in S : f[x] \in C
  PROVE  Total([c \in C |-> Cardinality({x \in S : f[x] = c})]) = Cardinality(S)
<1> DEFINE g(u) == [c \in C |-> Cardinality({x \in u : f[x] = c})]
           T == {u \in SUBSET S : Total(g(u)) = Cardinality(u)}
<1>0. ASSUME NEW u \in SUBSET S, NEW c \in C
      PROVE  IsFiniteSet(u) /\ IsFiniteSet({x \in u : f[x] = c}) /\ g(u)[c] \in Nat
  <2>1. IsFiniteSet(u)
    BY FS_Subset
  <2>2. IsFiniteSet({x \in u : f[x] = c})
    BY <2>1, FS_Subset
  <2> QED
    BY <2>1, <2>2, FS_CardinalityType
<1>1. {} \in T
  <2>1. \A c \in C : g({})[c] = 0
    <3> TAKE c \in C
    <3>1. {x \in {} : f[x] = c} = {}
      OBVIOUS
    <3> QED
      BY <3>1, FS_EmptySet
  <2>2. DOMAIN g({}) = C
    OBVIOUS
  <2> DEFINE h == g({})
  <2>3. \A c \in C : h[c] \in Nat /\ h[c] = 0
    BY <2>1
  <2> HIDE DEF g
  <2>4. {} \subseteq C /\ \A c \in C \ {} : h[c] = 0
    BY <2>3
  <2>5. DOMAIN h = C
    BY <2>2
  <2> HIDE DEF h
  <2>6. Sum(h, {}) = Sum(h, C)
    BY <2>3, <2>4, SumPart
  <2>7. Total(h) = 0
    BY <2>5, <2>6, SumEmpty, TotalIs
  <2> QED
    BY <2>7, FS_EmptySet DEF h
<1>2. ASSUME NEW u \in SUBSET S, u # {}, \A x \in u : u \ {x} \in T
      PROVE  u \in T
  <2>1. PICK y \in u : TRUE
    BY <1>2
  <2> DEFINE v == u \ {y}
             d == f[y]
             a == g(v)
             b == g(u)
  <2>2. v \in T /\ v \in SUBSET S /\ d \in C /\ y \notin v /\ u = v \cup {y}
    BY <1>2, <2>1
  <2>3. Total(a) = Cardinality(v)
    BY <2>2
  <2>4. IsFiniteSet(v) /\ Cardinality(u) = Cardinality(v) + 1
    <3>1. IsFiniteSet(v)
      BY <1>0, <2>2
    <3> HIDE DEF v
    <3> QED
      BY <2>2, <3>1, FS_AddElement
  <2>5. b[d] = a[d] + 1
    <3>1. {x \in u : f[x] = d} = {x \in v : f[x] = d} \cup {y} /\ y \notin {x \in v : f[x] = d}
      OBVIOUS
    <3>2. IsFiniteSet({x \in v : f[x] = d})
      BY <1>0, <2>2
    <3>3. Cardinality({x \in v : f[x] = d} \cup {y}) = Cardinality({x \in v : f[x] = d}) + 1
      BY <3>1, <3>2, FS_AddElement
    <3>4. b[d] = Cardinality({x \in u : f[x] = d}) /\ a[d] = Cardinality({x \in v : f[x] = d})
      BY <2>2
    <3> HIDE DEF a, b, d, v
    <3> QED
      BY <3>1, <3>3, <3>4
  <2>6. \A c \in C \ {d} : b[c] = a[c]
    <3> TAKE c \in C \ {d}
    <3>1. {x \in u : f[x] = c} = {x \in v : f[x] = c}
      OBVIOUS
    <3> QED
      BY <3>1
  <2>7. DOMAIN a = C /\ DOMAIN b = C
    OBVIOUS
  <2>8. \A c \in C : a[c] \in Nat /\ b[c] \in Nat
    BY <1>0, <2>2
  <2> HIDE DEF a, b, d
  <2>9. /\ IsFiniteSet(DOMAIN a) /\ d \in DOMAIN b /\ d \in DOMAIN a
        /\ DOMAIN b = DOMAIN a \cup {d}
        /\ \A c \in DOMAIN a : a[c] \in Int
        /\ b[d] \in Int /\ \A c \in DOMAIN a \ {d} : b[c] = a[c]
    BY <2>2, <2>6, <2>7, <2>8
  <2>10. Total(a) \in Int /\ Total(b) = Total(a) + b[d] - a[d]
    BY <2>9, TotalPut
  <2>11. Total(b) = Total(a) + 1
    BY <2>2, <2>5, <2>8, <2>10
  <2>12. Total(b) = Cardinality(u)
    BY <2>3, <2>4, <2>11
  <2> QED
    BY <2>12 DEF b
<1>3. S \in T
  <2>1. S \in SUBSET S
    OBVIOUS
  <2> HIDE DEF T
  <2> QED
    BY <1>1, <1>2, <2>1, SetInduction
<1> QED
  BY <1>3

\* The least of some numbers.
LEMMA MinOf ==
  ASSUME NEW u, u # {}, u \subseteq Nat
  PROVE  Min(u) \in u /\ \A x \in u : Min(u) <= x
<1>1. \E x \in u : \A y \in u : x <= y
  BY Least
<1> QED
  BY <1>1 DEF Min

\* A value is in the bucket whose range it is in, and in no other.
LEMMA BucketIs ==
  ASSUME NEW edges, Rising(edges), NEW v \in Int, NEW label \in 1 .. Len(edges) + 1
  PROVE  Bucket(v, edges) = label <=> InRow(v, edges, label)
<1> DEFINE above == {n \in DOMAIN edges : v <= edges[n]}
           b == Bucket(v, edges)
<1>0. /\ DOMAIN edges = 1 .. Len(edges) /\ Len(edges) \in Nat
      /\ \A n \in 1 .. Len(edges) : edges[n] \in Nat
      /\ \A i, j \in 1 .. Len(edges) : i < j => edges[i] < edges[j]
  BY DEF Rising
<1>1. CASE above = {}
  <2>1. b = Len(edges) + 1
    BY <1>1 DEF Bucket
  <2>2. \A n \in 1 .. Len(edges) : edges[n] < v
    BY <1>0, <1>1
  <2> HIDE DEF b, above
  <2>3. b = label => InRow(v, edges, label)
    BY <1>0, <2>1, <2>2 DEF InRow
  <2>4. InRow(v, edges, label) => label > Len(edges)
    BY <1>0, <2>2 DEF InRow
  <2>5. InRow(v, edges, label) => b = label
    BY <1>0, <2>1, <2>4
  <2> QED
    BY <2>3, <2>5 DEF b
<1>2. CASE above # {}
  <2>1. b = Min(above)
    BY <1>2 DEF Bucket
  <2>2. above \subseteq Nat
    BY <1>0
  <2>3. b \in above /\ \A n \in above : b <= n
    BY <1>2, <2>1, <2>2, MinOf
  <2>4. b \in 1 .. Len(edges) /\ v <= edges[b]
    BY <1>0, <2>3
  <2>5. \A n \in 1 .. Len(edges) : v <= edges[n] => b <= n
    BY <1>0, <2>3
  <2> HIDE DEF b, above
  <2>6. b = label => InRow(v, edges, label)
    BY <1>0, <2>4, <2>5 DEF InRow
  <2>7. InRow(v, edges, label) => b <= label
    BY <1>0, <2>4, <2>5 DEF InRow
  <2>8. ASSUME InRow(v, edges, label), b < label
        PROVE  FALSE
    <3>1. label - 1 \in 1 .. Len(edges) /\ b <= label - 1 /\ edges[label - 1] < v
      BY <1>0, <2>4, <2>8 DEF InRow
    <3>2. edges[b] <= edges[label - 1]
      BY <1>0, <2>4, <3>1
    <3> QED
      BY <1>0, <2>4, <3>1, <3>2
  <2> QED
    BY <1>0, <2>4, <2>6, <2>7, <2>8 DEF b
<1> QED
  BY <1>1, <1>2

LEMMA ASeq ==
  ASSUME NEW s, NEW k \in Nat, s = [i \in 1 .. k |-> s[i]], NEW X, \A i \in 1 .. k : s[i] \in X
  PROVE  s \in Seq(X) /\ Len(s) = k /\ DOMAIN s = 1 .. k
<1>1. s \in [1 .. k -> X]
  OBVIOUS
<1>2. s \in Seq(X)
  BY <1>1
<1>3. DOMAIN s = 1 .. k
  BY <1>1
<1> QED
  BY <1>2, <1>3

LEMMA Joined ==
  ASSUME NEW X, NEW s \in Seq(X), NEW t \in Seq(X)
  PROVE  /\ s \o t \in Seq(X) /\ Len(s \o t) = Len(s) + Len(t)
         /\ DOMAIN (s \o t) = 1 .. Len(s) + Len(t)
         /\ \A i \in 1 .. Len(s) : (s \o t)[i] = s[i]
         /\ \A i \in 1 .. Len(t) : (s \o t)[Len(s) + i] = t[i]
<1>1. s \o t \in Seq(X) /\ Len(s \o t) = Len(s) + Len(t)
  OBVIOUS
<1>2. DOMAIN (s \o t) = 1 .. Len(s) + Len(t)
  BY <1>1
<1>3. /\ \A i \in 1 .. Len(s) : (s \o t)[i] = s[i]
      /\ \A i \in 1 .. Len(t) : (s \o t)[Len(s) + i] = t[i]
  OBVIOUS
<1> QED
  BY <1>1, <1>2, <1>3

\* The labels of a table name each of its edges.
LEMMA LabelsAre ==
  ASSUME NEW edges, Rising(edges), NEW row \in 1 .. Len(edges)
  PROVE  /\ row + 1 \in DOMAIN Labels(edges) /\ Labels(edges)[row + 1] = row
         /\ row \in Range(Labels(edges))
<1> DEFINE s == <<Bucket(0, edges)>>
           t == [n \in DOMAIN edges |-> Bucket(edges[n], edges)]
<1>1. Len(edges) \in Nat /\ DOMAIN edges = 1 .. Len(edges) /\ \A n \in 1 .. Len(edges) : edges[n] \in Nat
  BY DEF Rising
<1>2. DOMAIN t = 1 .. Len(edges) /\ t[row] = Bucket(edges[row], edges)
  BY <1>1
<1>3. InRow(edges[row], edges, row)
  <2>1. row > 1 => row - 1 \in DOMAIN edges /\ row - 1 < row /\ row \in DOMAIN edges
    BY <1>1
  <2>2. row > 1 => edges[row - 1] < edges[row]
    BY <2>1 DEF Rising
  <2> QED
    BY <1>1, <2>2 DEF InRow
<1>4. t[row] = row
  <2>1. row \in 1 .. Len(edges) + 1 /\ edges[row] \in Int
    BY <1>1
  <2> HIDE DEF t
  <2> QED
    BY <1>2, <1>3, <2>1, BucketIs
<1> DEFINE X == {Bucket(0, edges)} \cup {t[n] : n \in 1 .. Len(edges)}
<1>5. t = [n \in 1 .. Len(edges) |-> t[n]] /\ \A n \in 1 .. Len(edges) : t[n] \in X
  BY <1>1
<1>6. s \in Seq(X) /\ Len(s) = 1
  OBVIOUS
<1>7. Labels(edges) = s \o t
  BY DEF Labels
<1> HIDE DEF s, t, X
<1>8. t \in Seq(X) /\ Len(t) = Len(edges)
  BY <1>1, <1>5, ASeq
<1>9. DOMAIN (s \o t) = 1 .. Len(edges) + 1 /\ (s \o t)[1 + row] = t[row]
  <2>1. row \in 1 .. Len(t)
    BY <1>8
  <2>2. /\ DOMAIN (s \o t) = 1 .. Len(s) + Len(t)
        /\ (s \o t)[Len(s) + row] = t[row]
    BY <1>6, <1>8, <2>1, Joined
  <2> QED
    BY <1>1, <1>6, <1>8, <2>2
<1>10. row + 1 \in DOMAIN Labels(edges) /\ Labels(edges)[row + 1] = row
  BY <1>1, <1>4, <1>7, <1>9
<1> QED
  BY <1>10 DEF Range

\* A table whose values are numbers counts what its rows say.
LEMMA InIs ==
  ASSUME NEW values, NEW edges, Rising(edges), NEW row \in 1 .. Len(edges) + 1,
         \A x \in DOMAIN values : values[x] \in Int
  PROVE  In(values, edges, row) = Cardinality({x \in DOMAIN values : InRow(values[x], edges, row)})
<1>1. \A x \in DOMAIN values : Bucket(values[x], edges) = row <=> InRow(values[x], edges, row)
  BY BucketIs
<1>2. {x \in DOMAIN values : Bucket(values[x], edges) = row}
        = {x \in DOMAIN values : InRow(values[x], edges, row)}
  BY <1>1
<1> QED
  BY <1>2 DEF In, HowMany

-----------------------------------------------------------------------------
(* The tables of the report.                                               *)

LEMMA SizesTable ==
  ASSUME FileInv, NEW row \in 1 .. Len(SizeEdges) + 1
  PROVE  SizeRows(Sizes(Records))[row]
           = HowMany(Sizes(Records), LAMBDA v : InRow(v, SizeEdges, row))
<1> DEFINE f == Sizes(Records)
<1>1. \A n \in DOMAIN f : f[n] \in Int
  <2>1. DOMAIN f = OkMaps(Records) /\ \A n \in OkMaps(Records) : f[n] = Records[n].size
    BY DEF Sizes
  <2>2. \A n \in OkMaps(Records) : Records[n].size \in Nat
    BY RecordsTell DEF MapsTell
  <2> QED
    BY <2>1, <2>2
<1> HIDE DEF f
<1>2. SizeRows(f)[row] = In(f, SizeEdges, row)
  BY DEF SizeRows
<1>3. In(f, SizeEdges, row) = Cardinality({x \in DOMAIN f : InRow(f[x], SizeEdges, row)})
  BY <1>1, EdgesRise, InIs
<1> QED
  BY <1>2, <1>3 DEF f, HowMany

LEMMA LivesAre ==
  ASSUME FileInv
  PROVE  LET lives == AllLifetimes(Replayed)
         IN  /\ IsFiniteSet(DOMAIN lives)
             /\ \A x \in DOMAIN lives : lives[x] \in Life
<1> DEFINE S == Pids(Records)
           ts(p) == Replayed[p].lifetimes
           at == UNION {{p} \X DOMAIN ts(p) : p \in S}
           lives == AllLifetimes(Replayed)
<1>1. IsFiniteSet(S) /\ DOMAIN Replayed = S
  BY ReplayedIs
<1>2. \A p \in S : ts(p) \in Seq(Life)
  BY ReplayedIs DEF ReplayType
<1>3. lives = [x \in at |-> ts(x[1])[x[2]]]
  BY <1>1 DEF AllLifetimes
<1> HIDE DEF ts
<1>4. \A p \in S : IsFiniteSet({p} \X DOMAIN ts(p))
  <2> TAKE p \in S
  <2>1. IsFiniteSet(DOMAIN ts(p))
    <3>1. DOMAIN ts(p) = 1 .. Len(ts(p)) /\ Len(ts(p)) \in Nat
      BY <1>2
    <3> QED
      BY <3>1, FS_Interval
  <2>2. IsFiniteSet({p})
    BY FS_Singleton
  <2> QED
    BY <2>1, <2>2, FS_Product
<1>5. IsFiniteSet({{p} \X DOMAIN ts(p) : p \in S})
  <2> DEFINE f == [p \in S |-> {p} \X DOMAIN ts(p)]
  <2>1. IsFiniteSet(DOMAIN f)
    BY <1>1
  <2>2. {f[p] : p \in DOMAIN f} = {{p} \X DOMAIN ts(p) : p \in S}
    OBVIOUS
  <2> HIDE DEF f
  <2> QED
    BY <2>1, <2>2, FiniteImage
<1>6. IsFiniteSet(at)
  <2> DEFINE all == {{p} \X DOMAIN ts(p) : p \in S}
  <2>1. \A T \in all : IsFiniteSet(T)
    BY <1>4
  <2>2. IsFiniteSet(all)
    BY <1>5
  <2> HIDE DEF all
  <2>3. IsFiniteSet(UNION all)
    BY <2>1, <2>2, FS_UNION
  <2> QED
    BY <2>3 DEF all
<1>7. ASSUME NEW x \in at
      PROVE  ts(x[1])[x[2]] \in Life
  <2>1. PICK p \in S : x \in {p} \X DOMAIN ts(p)
    OBVIOUS
  <2>2. x[1] = p /\ x[2] \in DOMAIN ts(p)
    BY <2>1
  <2> QED
    BY <1>2, <2>2
<1> HIDE DEF at, lives
<1>8. DOMAIN lives = at /\ \A x \in at : lives[x] \in Life
  BY <1>3, <1>7
<1> QED
  BY <1>6, <1>8 DEF lives

LEMMA LivesTable ==
  ASSUME FileInv, NEW row \in 1 .. Len(LifeEdges)
  PROVE  LET lives == AllLifetimes(Replayed)
         IN  LifeRows(lives)[row] = HowMany(lives, LAMBDA x : InRow(x.life, LifeEdges, row))
<1> DEFINE lives == AllLifetimes(Replayed)
           f == [n \in DOMAIN lives |-> lives[n].life]
<1>1. \A x \in DOMAIN lives : lives[x] \in Life
  BY LivesAre
<1> HIDE DEF lives
<1>2. DOMAIN f = DOMAIN lives /\ \A x \in DOMAIN lives : f[x] = lives[x].life /\ f[x] \in Int
  BY <1>1 DEF Life
<1>3. LifeRows(lives)[row] = In(f, LifeEdges, row)
  <2>1. row \in Range(Labels(LifeEdges))
    BY EdgesRise, LabelsAre
  <2> QED
    BY <2>1 DEF LifeRows
<1> HIDE DEF f
<1>4. In(f, LifeEdges, row) = Cardinality({x \in DOMAIN f : InRow(f[x], LifeEdges, row)})
  <2>1. row \in 1 .. Len(LifeEdges) + 1
    BY EdgesRise DEF Rising
  <2> QED
    BY <1>2, <2>1, EdgesRise, InIs
<1>5. {x \in DOMAIN f : InRow(f[x], LifeEdges, row)}
        = {x \in DOMAIN lives : InRow(lives[x].life, LifeEdges, row)}
  BY <1>2
<1>6. LifeRows(lives)[row] = HowMany(lives, LAMBDA x : InRow(x.life, LifeEdges, row))
  BY <1>3, <1>4, <1>5 DEF HowMany
<1> QED
  BY <1>6 DEF lives

LEMMA GridTable ==
  ASSUME FileInv, NEW row \in 1 .. Len(SizeEdges)
  PROVE  LET lives == AllLifetimes(Replayed)
         IN  Total(Grid(lives)[row + 1]) = HowMany(lives, LAMBDA x : InRow(x.size, SizeEdges, row))
<1> DEFINE lives == AllLifetimes(Replayed)
           at == {x \in DOMAIN lives : Bucket(lives[x].size, SizeEdges) = row}
           f == [x \in at |-> Column(lives[x].life)]
<1>1. /\ IsFiniteSet(DOMAIN lives)
      /\ \A x \in DOMAIN lives : lives[x] \in Life
  BY LivesAre
<1> HIDE DEF lives
<1>2. /\ row + 1 \in DOMAIN Labels(SizeEdges) /\ Labels(SizeEdges)[row + 1] = row
  BY EdgesRise, LabelsAre
<1>3. Grid(lives)[row + 1]
        = [col \in 1 .. 3 |-> Cardinality({x \in at : Column(lives[x].life) = col})]
  BY <1>2 DEF Grid
<1>4. IsFiniteSet(at) /\ at \subseteq DOMAIN lives
  BY <1>1, FS_Subset
<1>5. \A x \in at : f[x] \in 1 .. 3 /\ f[x] = Column(lives[x].life)
  BY DEF Column
<1>6. [col \in 1 .. 3 |-> Cardinality({x \in at : Column(lives[x].life) = col})]
        = [col \in 1 .. 3 |-> Cardinality({x \in at : f[x] = col})]
  <2>1. \A col \in 1 .. 3 : {x \in at : Column(lives[x].life) = col} = {x \in at : f[x] = col}
    BY <1>5
  <2> HIDE DEF at, f
  <2> QED
    BY <2>1
<1>7. \A x \in DOMAIN lives : Bucket(lives[x].size, SizeEdges) = row
                                <=> InRow(lives[x].size, SizeEdges, row)
  <2> TAKE x \in DOMAIN lives
  <2>1. lives[x].size \in Int
    BY <1>1 DEF Life
  <2>2. row \in 1 .. Len(SizeEdges) + 1
    BY EdgesRise DEF Rising
  <2> QED
    BY <2>1, <2>2, EdgesRise, BucketIs
<1>8. at = {x \in DOMAIN lives : InRow(lives[x].size, SizeEdges, row)}
  BY <1>7
<1> HIDE DEF at, f
<1>9. Total([col \in 1 .. 3 |-> Cardinality({x \in at : f[x] = col})]) = Cardinality(at)
  <2> DEFINE C == 1 .. 3
  <2>1. IsFiniteSet(C)
    <3>1. 1 \in Int /\ 3 \in Int
      OBVIOUS
    <3> QED
      BY <3>1, FS_Interval
  <2>2. \A x \in at : f[x] \in C
    BY <1>5
  <2> HIDE DEF C
  <2>3. Total([col \in C |-> Cardinality({x \in at : f[x] = col})]) = Cardinality(at)
    BY <1>4, <2>1, <2>2, Parted
  <2> QED
    BY <2>3 DEF C
<1>10. Total(Grid(lives)[row + 1]) = Cardinality(at)
  BY <1>3, <1>6, <1>9
<1> QED
  BY <1>8, <1>10 DEF HowMany, lives

LEMMA ClassesTable ==
  ASSUME FileInv
  PROVE  Total(ByVaClass(Records)) = Cardinality(OkMaps(Records))
<1> DEFINE S == OkMaps(Records)
           f == [n \in S |-> VaClass(Get(Records[n], "flags", NULL))]
           C == {f[n] : n \in S}
<1>1. IsFiniteSet(S)
  BY RecordsTell DEF MapsTell
<1>2. IsFiniteSet(C)
  <2>1. DOMAIN f = S
    OBVIOUS
  <2> HIDE DEF f, S
  <2> QED
    BY <1>1, <2>1, FiniteImage
<1>3. ByVaClass(Records) = [c \in C |-> Cardinality({n \in S : f[n] = c})]
  <2>1. \A n \in S : f[n] = VaClass(Get(Records[n], "flags", NULL))
    OBVIOUS
  <2>2. C = {VaClass(Get(Records[n], "flags", NULL)) : n \in S}
    BY <2>1
  <2>3. \A c : {n \in S : f[n] = c} = {n \in S : VaClass(Get(Records[n], "flags", NULL)) = c}
    BY <2>1
  <2> HIDE DEF f, C
  <2> QED
    BY <2>2, <2>3 DEF ByVaClass
<1>4. \A n \in S : f[n] \in C
  OBVIOUS
<1> HIDE DEF S, f, C
<1>5. Total([c \in C |-> Cardinality({n \in S : f[n] = c})]) = Cardinality(S)
  BY <1>1, <1>2, <1>4, Parted
<1> QED
  BY <1>3, <1>5 DEF S

LEMMA PgTable ==
  ASSUME FileInv, NEW pg \in Cp
  PROVE  Cardinality({n \in OkMaps(Records) : Records[n].pid = pg})
           = IF pg \in DOMAIN ByPg(Records) THEN ByPg(Records)[pg].maps ELSE 0
<1> DEFINE R == Records
           on == {n \in OkMaps(R) : R[n].event = "map_on_pg"}
           Of(x) == {n \in on : Get(R[n], "pgname", "?") = x}
<1>1. ASSUME NEW n \in OkMaps(R)
      PROVE  /\ R[n].event = "map_on_pg" <=> R[n].pid \in Cp
             /\ R[n].event = "map_on_pg" => Get(R[n], "pgname", "?") = R[n].pid
  <2>1. Shape(R[n]) /\ IsMap(R[n])
    BY LoggedAre DEF Logged, OkMaps, MapOk
  <2>2. MapShape(R[n])
    BY <2>1, ShapeIs
  <2> QED
    BY <2>2 DEF MapShape, Get
<1>2. {n \in OkMaps(R) : R[n].pid = pg} = Of(pg)
  BY <1>1
<1>3. DOMAIN ByPg(R) = {Get(R[n], "pgname", "?") : n \in on}
  BY DEF ByPg
<1>4. pg \in DOMAIN ByPg(R) => ByPg(R)[pg].maps = Cardinality(Of(pg))
  BY DEF ByPg
<1>5. pg \notin DOMAIN ByPg(R) => Of(pg) = {}
  BY <1>3
<1> HIDE DEF R, Of
<1> QED
  BY <1>2, <1>4, <1>5, FS_EmptySet DEF R

LEMMA RowsCounted == FileInv => RowsCountOnce
<1> SUFFICES ASSUME FileInv PROVE RowsCountOnce
  OBVIOUS
<1> DEFINE lives == AllLifetimes(Replayed)
           sizes == Sizes(Records)
<1>1. \A row \in 1 .. Len(SizeEdges) + 1 :
        SizeRows(sizes)[row] = HowMany(sizes, LAMBDA v : InRow(v, SizeEdges, row))
  BY SizesTable
<1>2. \A row \in 1 .. Len(LifeEdges) :
        LifeRows(lives)[row] = HowMany(lives, LAMBDA x : InRow(x.life, LifeEdges, row))
  BY LivesTable
<1>3. \A row \in 1 .. Len(SizeEdges) :
        Total(Grid(lives)[row + 1]) = HowMany(lives, LAMBDA x : InRow(x.size, SizeEdges, row))
  BY GridTable
<1>4. Total(ByVaClass(Records)) = Cardinality(OkMaps(Records))
  BY ClassesTable
<1>5. \A pg \in Cp :
        Cardinality({n \in OkMaps(Records) : Records[n].pid = pg})
          = IF pg \in DOMAIN ByPg(Records) THEN ByPg(Records)[pg].maps ELSE 0
  BY PgTable
<1> QED
  BY <1>1, <1>2, <1>3, <1>4, <1>5 DEF RowsCountOnce, Replayed

\* Each table of the report counts what its rows say, once, whatever the processes
\* and the clock did; and what ShmMapOnPg has mapped is found by its pgname.
THEOREM RowsCount == Spec => []RowsCountOnce
<1>1. Types /\ FileInv => RowsCountOnce
  BY RowsCounted
<1>2. Init => Types /\ FileInv
  BY TypesInit, FileInit
<1>3. Types /\ FileInv /\ [Next]_vars => (Types /\ FileInv)'
  BY TypesStep, FileStep
<1> QED
  BY <1>1, <1>2, <1>3, PTL DEF Spec

-----------------------------------------------------------------------------
(* The same records at other positions.                                    *)

\* Q has the records of R, each once, and the events of each process in the order
\* they have in R.
Moved(R, Q, b) ==
  /\ DOMAIN b = DOMAIN Q /\ DOMAIN R = {b[i] : i \in DOMAIN Q}
  /\ \A i, j \in DOMAIN Q : b[i] = b[j] => i = j
  /\ \A i \in DOMAIN Q : Q[i] = R[b[i]]
  /\ \A i, j \in DOMAIN Q :
       IsEvent(Q[i]) /\ IsEvent(Q[j]) /\ Q[i].pid = Q[j].pid =>
         (Before(Q, i, j) <=> Before(R, b[i], b[j]))

\* The positions S in R are the positions T in Q.
Match(R, S, Q, T, b) ==
  S \subseteq DOMAIN R /\ T \subseteq DOMAIN Q /\ \A i \in DOMAIN Q : i \in T <=> b[i] \in S

LEMMA MovedSet ==
  ASSUME NEW R, NEW Q, NEW b, Moved(R, Q, b), Logged(Q), NEW S, NEW T, Match(R, S, Q, T, b)
  PROVE  /\ S = {b[i] : i \in T} /\ IsFiniteSet(T) /\ Cardinality(T) = Cardinality(S)
         /\ \A i, j \in T : b[i] = b[j] => i = j
         /\ \A i \in T : Q[i] = R[b[i]] /\ b[i] \in S
<1>1. S = {b[i] : i \in T}
  BY DEF Moved, Match
<1>2. IsFiniteSet(T)
  <2>1. PICK c \in Nat : DOMAIN Q = 1 .. c
    BY DEF Logged
  <2>2. IsFiniteSet(1 .. c)
    BY FS_Interval
  <2> QED
    BY <2>1, <2>2, FS_Subset DEF Match
<1>3. \A i, j \in T : b[i] = b[j] => i = j
  BY DEF Moved, Match
<1>4. \A i \in T : Q[i] = R[b[i]] /\ b[i] \in S
  BY DEF Moved, Match
<1>5. Cardinality({b[i] : i \in T}) = Cardinality(T)
  BY <1>2, <1>3, OneToOne
<1> QED
  BY <1>1, <1>2, <1>3, <1>4, <1>5

LEMMA MovedReplay ==
  ASSUME NEW R, NEW Q, NEW b, Moved(R, Q, b), Logged(R), Logged(Q), NEW p
  PROVE  ReplayIn(Q, p) = ReplayIn(R, p)
<1> DEFINE at == EventsOf(R, p)
           to == EventsOf(Q, p)
           c == [i \in to |-> b[i]]
<1>1. at = {n \in DOMAIN R : IsEvent(R[n]) /\ R[n].pid = p} /\ Timed(R, at)
  BY EventsAre
<1>2. to = {n \in DOMAIN Q : IsEvent(Q[n]) /\ Q[n].pid = p} /\ Timed(Q, to)
  BY EventsAre
<1> HIDE DEF at, to
<1>3. Match(R, at, Q, to, b)
  BY <1>1, <1>2 DEF Moved, Match
<1>4. /\ at = {b[i] : i \in to}
      /\ \A i, j \in to : b[i] = b[j] => i = j
      /\ \A i \in to : Q[i] = R[b[i]]
  BY <1>3, MovedSet
<1>5. \A i, j \in to : Before(Q, i, j) <=> Before(R, b[i], b[j])
  BY <1>2 DEF Moved
<1>6. /\ DOMAIN c = to /\ at = {c[i] : i \in to}
      /\ \A i, j \in to : c[i] = c[j] => i = j
      /\ \A i \in to : Q[i] = R[c[i]]
      /\ \A i, j \in to : Before(Q, i, j) <=> Before(R, c[i], c[j])
  <2>1. DOMAIN c = to /\ \A i \in to : c[i] = b[i]
    OBVIOUS
  <2> HIDE DEF c
  <2> QED
    BY <1>4, <1>5, <2>1
<1> HIDE DEF c
<1>7. ByTime(Q, to) = ByTime(R, at)
  BY ONLY <1>1, <1>2, <1>6, SameOrder
<1> QED
  BY <1>7 DEF ReplayIn, at, to

LEMMA MovedCorrelated ==
  ASSUME NEW R, NEW Q, NEW b, Moved(R, Q, b), Logged(R), Logged(Q)
  PROVE  Correlated(Q) = Correlated(R)
<1>1. Pids(Q) = Pids(R)
  <2>1. {i \in DOMAIN R : IsEvent(R[i])} = {b[i] : i \in {k \in DOMAIN Q : IsEvent(Q[k])}}
    BY DEF Moved
  <2>2. \A i \in DOMAIN Q : Q[i] = R[b[i]]
    BY DEF Moved
  <2> QED
    BY <2>1, <2>2 DEF Pids
<1>2. \A p : ReplayIn(Q, p) = ReplayIn(R, p)
  BY MovedReplay
<1>3. Correlated(R) = [p \in Pids(R) |-> ReplayIn(R, p)]
  BY DEF Correlated, ReplayIn
<1>4. Correlated(Q) = [p \in Pids(Q) |-> ReplayIn(Q, p)]
  BY DEF Correlated, ReplayIn
<1> QED
  BY <1>1, <1>2, <1>3, <1>4

LEMMA MovedMaps ==
  ASSUME NEW R, NEW Q, NEW b, Moved(R, Q, b), Logged(Q)
  PROVE  /\ OkMaps(R) = {b[i] : i \in OkMaps(Q)}
         /\ Named(R) = {b[i] : i \in Named(Q)}
         /\ \A i \in DOMAIN Q : Q[i] = R[b[i]] /\ b[i] \in DOMAIN R
         /\ OkMaps(Q) \subseteq DOMAIN Q /\ Named(Q) \subseteq DOMAIN Q
<1>1. \A i \in DOMAIN Q : Q[i] = R[b[i]] /\ b[i] \in DOMAIN R
  BY DEF Moved
<1>2. Match(R, OkMaps(R), Q, OkMaps(Q), b)
  BY <1>1 DEF OkMaps, Match
<1>3. Match(R, Named(R), Q, Named(Q), b)
  BY <1>1, <1>2 DEF Named, Match
<1>4. OkMaps(R) = {b[i] : i \in OkMaps(Q)}
  BY <1>2, MovedSet
<1>5. Named(R) = {b[i] : i \in Named(Q)}
  BY <1>3, MovedSet
<1> QED
  BY <1>1, <1>2, <1>3, <1>4, <1>5 DEF Match

LEMMA MovedRegions ==
  ASSUME NEW R, NEW Q, NEW b, Moved(R, Q, b), Logged(Q)
  PROVE  Regions(Q) = Regions(R)
<1>1. /\ Named(R) = {b[i] : i \in Named(Q)} /\ Named(Q) \subseteq DOMAIN Q
      /\ \A i \in DOMAIN Q : Q[i] = R[b[i]] /\ b[i] \in DOMAIN R
  BY MovedMaps
<1>2. NamesIn(Q) = NamesIn(R)
  BY <1>1 DEF NamesIn
<1>3. ASSUME NEW name
      PROVE  SizesAt(Q, name) = SizesAt(R, name)
             /\ Cardinality(AtName(Q, name)) = Cardinality(AtName(R, name))
  <2>1. Match(R, AtName(R, name), Q, AtName(Q, name), b)
    <3>1. \A i \in DOMAIN Q : i \in Named(Q) <=> b[i] \in Named(R)
      BY <1>1 DEF Moved
    <3>2. Named(R) \subseteq DOMAIN R
      BY <1>1
    <3> QED
      BY <1>1, <3>1, <3>2 DEF AtName, Match
  <2>2. /\ AtName(R, name) = {b[i] : i \in AtName(Q, name)}
        /\ Cardinality(AtName(Q, name)) = Cardinality(AtName(R, name))
        /\ \A i \in AtName(Q, name) : Q[i] = R[b[i]]
    BY <2>1, MovedSet
  <2>3. SizesAt(Q, name) = SizesAt(R, name)
    BY <2>2 DEF SizesAt
  <2> QED
    BY <2>2, <2>3
<1>4. \A X : Regions(X) = [name \in NamesIn(X) |->
                            [size |-> Max(SizesAt(X, name)), maps |-> Cardinality(AtName(X, name))]]
  BY DEF Regions, NamesIn, SizesAt, AtName
<1> QED
  BY <1>2, <1>3, <1>4

LEMMA MovedSizes ==
  ASSUME NEW R, NEW Q, NEW b, Moved(R, Q, b), Logged(Q)
  PROVE  SizeRows(Sizes(Q)) = SizeRows(Sizes(R))
<1> DEFINE InBucket(X, label) == {n \in OkMaps(X) : Bucket(X[n].size, SizeEdges) = label}
<1>1. \A X, label : In(Sizes(X), SizeEdges, label) = Cardinality(InBucket(X, label))
  <2> TAKE X, label
  <2>1. {n \in DOMAIN Sizes(X) : Bucket(Sizes(X)[n], SizeEdges) = label} = InBucket(X, label)
    BY DEF Sizes
  <2> HIDE DEF InBucket
  <2> QED
    BY <2>1 DEF In, HowMany
<1>2. ASSUME NEW label
      PROVE  Cardinality(InBucket(Q, label)) = Cardinality(InBucket(R, label))
  <2> DEFINE S == InBucket(R, label)
             T == InBucket(Q, label)
  <2>1. /\ OkMaps(R) = {b[i] : i \in OkMaps(Q)} /\ OkMaps(Q) \subseteq DOMAIN Q
        /\ \A i \in DOMAIN Q : Q[i] = R[b[i]] /\ b[i] \in DOMAIN R
    BY MovedMaps
  <2>2. \A i \in DOMAIN Q : i \in OkMaps(Q) <=> b[i] \in OkMaps(R)
    BY <2>1 DEF Moved
  <2>3. Match(R, S, Q, T, b)
    BY <2>1, <2>2 DEF Match
  <2> HIDE DEF S, T
  <2>4. Cardinality(T) = Cardinality(S)
    BY <2>3, MovedSet
  <2> QED
    BY <2>4 DEF S, T
<1> HIDE DEF InBucket
<1>3. \A label : In(Sizes(Q), SizeEdges, label) = In(Sizes(R), SizeEdges, label)
  BY <1>1, <1>2
<1> QED
  BY <1>3 DEF SizeRows

LEMMA MovedPeaks ==
  ASSUME NEW R, NEW Q, NEW b, Moved(R, Q, b)
  PROVE  SummaryPeak(Q) = SummaryPeak(R)
<1>1. /\ Summaries(R) = {b[i] : i \in Summaries(Q)}
      /\ \A i \in Summaries(Q) : Q[i] = R[b[i]]
  BY DEF Moved, Summaries
<1>2. {Q[n].peakCount : n \in Summaries(Q)} = {R[n].peakCount : n \in Summaries(R)}
  BY <1>1
<1>3. {Q[n].peakBytes : n \in Summaries(Q)} = {R[n].peakBytes : n \in Summaries(R)}
  BY <1>1
<1> QED
  BY <1>2, <1>3 DEF SummaryPeak

LEMMA MovedFigures ==
  ASSUME NEW R, NEW Q, NEW b, Moved(R, Q, b), Logged(R), Logged(Q)
  PROVE  Figures(R) = Figures(Q)
BY MovedCorrelated, MovedRegions, MovedSizes, MovedPeaks DEF Figures

-----------------------------------------------------------------------------
(* The records in two files.                                               *)

\* What is read of two files.
Together(F, G) ==
  LET Q == LoadRecords(<<F, G>>)
  IN  /\ Len(F) \in Nat /\ Len(G) \in Nat
      /\ DOMAIN Q = 1 .. Len(F) + Len(G)
      /\ \A n \in 1 .. Len(F) : Q[n] = F[n].rec
      /\ \A n \in 1 .. Len(G) : Q[Len(F) + n] = G[n].rec

LEMMA LoadedTwo ==
  ASSUME NEW F, WholeFile(F), NEW G, WholeFile(G)
  PROVE  Together(F, G)
<1> DEFINE t == <<F, G>>
           s == [n \in DOMAIN t |-> Load(t[n])]
           x == Load(F)
           y == Load(G)
           c == Len(F)
           d == Len(G)
<1>1. Len(s) = 2 /\ s[1] = x /\ s[2] = y
  <2>1. DOMAIN t = 1 .. 2 /\ t[1] = F /\ t[2] = G
    OBVIOUS
  <2>2. s = [n \in 1 .. 2 |-> s[n]] /\ s[1] = x /\ s[2] = y
    BY <2>1
  <2> HIDE DEF s, x, y
  <2>3. \A n \in 1 .. 2 : s[n] \in {s[1], s[2]}
    OBVIOUS
  <2>4. Len(s) = 2
    BY <2>2, <2>3, ASeq
  <2> QED
    BY <2>2, <2>4
<1>2. LoadRecords(t) = s[1] \o s[2]
  <2>1. LoadRecords(t) = FlattenSeq(s)
    BY DEF LoadRecords
  <2> HIDE DEF s, t
  <2> QED
    BY <1>1, <2>1, FlattenTwo
<1>3. /\ c \in Nat /\ x = Recs(F, c) /\ d \in Nat /\ y = Recs(G, d)
  BY LoadIs
<1>4. /\ x = [n \in 1 .. c |-> x[n]] /\ \A n \in 1 .. c : x[n] = F[n].rec
      /\ y = [n \in 1 .. d |-> y[n]] /\ \A n \in 1 .. d : y[n] = G[n].rec
  <2> HIDE DEF x, y, c, d
  <2> QED
    BY <1>3 DEF Recs
<1> HIDE DEF s, t, x, y, c, d
<1> DEFINE X == {x[n] : n \in 1 .. c} \cup {y[n] : n \in 1 .. d}
<1>5. x \in Seq(X) /\ Len(x) = c
  <2>1. \A n \in 1 .. c : x[n] \in X
    OBVIOUS
  <2> HIDE DEF X
  <2> QED
    BY <1>3, <1>4, <2>1, ASeq
<1>6. y \in Seq(X) /\ Len(y) = d
  <2>1. \A n \in 1 .. d : y[n] \in X
    OBVIOUS
  <2> HIDE DEF X
  <2> QED
    BY <1>3, <1>4, <2>1, ASeq
<1> HIDE DEF X
<1>7. /\ DOMAIN (x \o y) = 1 .. c + d
      /\ \A n \in 1 .. c : (x \o y)[n] = x[n]
      /\ \A n \in 1 .. d : (x \o y)[c + n] = y[n]
  <2>1. DOMAIN (x \o y) = 1 .. Len(x) + Len(y)
    BY <1>5, <1>6, Joined
  <2>2. ASSUME NEW n \in 1 .. Len(x)
        PROVE  (x \o y)[n] = x[n]
    BY <1>5, <1>6, Joined
  <2>3. ASSUME NEW n \in 1 .. Len(y)
        PROVE  (x \o y)[Len(x) + n] = y[n]
    BY <1>5, <1>6, Joined
  <2> QED
    BY <1>5, <1>6, <2>1, <2>2, <2>3
<1>8. LoadRecords(t) = x \o y
  BY <1>1, <1>2
<1>9. /\ DOMAIN LoadRecords(t) = 1 .. c + d
      /\ \A n \in 1 .. c : LoadRecords(t)[n] = F[n].rec
      /\ \A n \in 1 .. d : LoadRecords(t)[c + n] = G[n].rec
  BY <1>4, <1>7, <1>8
<1> QED
  BY <1>3, <1>9 DEF t, c, d, Together

\* The lines of the file, some in f and the others in g, in the order they have; what
\* two events of one process on either side have in common is not the time.
Splits(f, c, g, d) ==
  /\ c \in Nat /\ d \in Nat
  /\ \A n \in 1 .. c : f[n] \in DOMAIN file
  /\ \A n \in 1 .. d : g[n] \in DOMAIN file
  /\ \A n, m \in 1 .. c : n < m => f[n] < f[m]
  /\ \A n, m \in 1 .. d : n < m => g[n] < g[m]
  /\ \A n \in 1 .. c, m \in 1 .. d : f[n] # g[m]
  /\ \A i \in DOMAIN file : (\E n \in 1 .. c : f[n] = i) \/ (\E n \in 1 .. d : g[n] = i)

Untied(f, c, g, d) ==
  \A n \in 1 .. c, m \in 1 .. d :
    LET r == file[f[n]].rec
        s == file[g[m]].rec
    IN  ~(IsEvent(r) /\ IsEvent(s) /\ r.pid = s.pid /\ r.ts = s.ts)

\* F has the lines of the file at the positions f.
Takes(F, f, c) == WholeFile(F) /\ Len(F) = c /\ \A n \in 1 .. c : F[n] = file[f[n]]

LEMMA TwoFiles ==
  ASSUME FileInv, NEW f, NEW c, NEW g, NEW d, Splits(f, c, g, d), Untied(f, c, g, d),
         NEW F, Takes(F, f, c), NEW G, Takes(G, g, d)
  PROVE  Figures(Records) = Figures(LoadRecords(<<F, G>>))
<1> DEFINE R == Records
           Q == LoadRecords(<<F, G>>)
           b == [n \in 1 .. c + d |-> IF n <= c THEN f[n] ELSE g[n - c]]
<1>0. c \in Nat /\ d \in Nat /\ DOMAIN R = DOMAIN file /\ DOMAIN file = 1 .. Len(file)
      /\ Len(file) \in Nat
  BY RecordsAre DEF Splits
<1>1. /\ DOMAIN Q = 1 .. c + d
      /\ \A n \in 1 .. c : Q[n] = F[n].rec
      /\ \A n \in 1 .. d : Q[c + n] = G[n].rec
  <2>1. WholeFile(F) /\ WholeFile(G) /\ Len(F) = c /\ Len(G) = d
    BY DEF Takes
  <2>2. Together(F, G)
    BY ONLY <2>1, LoadedTwo
  <2>3. /\ DOMAIN Q = 1 .. Len(F) + Len(G)
        /\ \A n \in 1 .. Len(F) : Q[n] = F[n].rec
        /\ \A n \in 1 .. Len(G) : Q[Len(F) + n] = G[n].rec
    BY ONLY <2>2 DEF Together
  <2> HIDE DEF Q
  <2> QED
    BY <2>1, <2>3
<1>2. /\ \A i \in DOMAIN file : R[i] = file[i].rec /\ Shape(R[i])
  BY RecordsAre
<1> HIDE DEF Q, R
<1>3. /\ DOMAIN b = 1 .. c + d
      /\ \A n \in 1 .. c : b[n] = f[n]
      /\ \A n \in 1 .. d : b[c + n] = g[n]
  <2>1. ASSUME NEW n \in 1 .. c
        PROVE  b[n] = f[n]
    <3>1. n \in 1 .. c + d /\ n <= c
      BY <1>0
    <3> QED
      BY <3>1
  <2>2. ASSUME NEW n \in 1 .. d
        PROVE  b[c + n] = g[n]
    <3> DEFINE k == c + n
    <3>1. k \in 1 .. c + d /\ ~(k <= c) /\ k - c = n
      BY <1>0
    <3> HIDE DEF k
    <3>2. b[k] = g[k - c]
      BY <3>1
    <3> QED
      BY <3>1, <3>2 DEF k
  <2>3. DOMAIN b = 1 .. c + d
    OBVIOUS
  <2> HIDE DEF b
  <2> QED
    BY <2>1, <2>2, <2>3
<1> HIDE DEF b
<1>4. \A k \in 1 .. c + d : k \in 1 .. c \/ \E n \in 1 .. d : k = c + n
  <2> TAKE k \in 1 .. c + d
  <2>1. CASE k <= c
    BY <1>0, <2>1
  <2>2. CASE k > c
    <3>1. k - c \in 1 .. d /\ k = c + (k - c)
      BY <1>0, <2>2
    <3> QED
      BY <3>1
  <2> QED
    BY <1>0, <2>1, <2>2
<1>5. \A k \in DOMAIN Q : b[k] \in DOMAIN R /\ Q[k] = R[b[k]]
  <2>1. ASSUME NEW n \in 1 .. c
        PROVE  b[n] \in DOMAIN R /\ Q[n] = R[b[n]]
    <3>1. f[n] \in DOMAIN file /\ F[n] = file[f[n]] /\ b[n] = f[n] /\ Q[n] = F[n].rec
      BY <1>1, <1>3 DEF Splits, Takes
    <3>2. R[f[n]] = file[f[n]].rec
      BY <1>2, <3>1
    <3> QED
      BY <1>0, <3>1, <3>2
  <2>2. ASSUME NEW n \in 1 .. d
        PROVE  b[c + n] \in DOMAIN R /\ Q[c + n] = R[b[c + n]]
    <3>1. g[n] \in DOMAIN file /\ G[n] = file[g[n]] /\ b[c + n] = g[n] /\ Q[c + n] = G[n].rec
      BY <1>1, <1>3 DEF Splits, Takes
    <3>2. R[g[n]] = file[g[n]].rec
      BY <1>2, <3>1
    <3> QED
      BY <1>0, <3>1, <3>2
  <2> QED
    BY <1>1, <1>4, <2>1, <2>2
<1>6. DOMAIN R = {b[k] : k \in DOMAIN Q}
  <2>1. ASSUME NEW i \in DOMAIN R
        PROVE  \E k \in DOMAIN Q : b[k] = i
    <3>1. CASE \E n \in 1 .. c : f[n] = i
      <4>1. PICK n \in 1 .. c : f[n] = i
        BY <3>1
      <4>2. n \in 1 .. c + d
        BY <1>0
      <4> QED
        BY <1>1, <1>3, <4>1, <4>2
    <3>2. CASE \E n \in 1 .. d : g[n] = i
      <4>1. PICK n \in 1 .. d : g[n] = i
        BY <3>2
      <4>2. c + n \in 1 .. c + d
        BY <1>0
      <4> QED
        BY <1>1, <1>3, <4>1, <4>2
    <3> QED
      BY <1>0, <3>1, <3>2 DEF Splits
  <2> QED
    BY <1>5, <2>1
<1>7. \A n, m \in 1 .. c : n < m <=> b[n] < b[m]
  <2> TAKE n, m \in 1 .. c
  <2>1. /\ n \in Nat /\ m \in Nat /\ f[n] \in Nat /\ f[m] \in Nat
        /\ n < m => f[n] < f[m]
        /\ m < n => f[m] < f[n]
    BY <1>0 DEF Splits
  <2>2. b[n] = f[n] /\ b[m] = f[m]
    BY <1>3
  <2>3. CASE n < m
    BY <2>1, <2>2, <2>3
  <2>4. CASE m < n
    BY <2>1, <2>2, <2>4
  <2>5. CASE n = m
    BY <2>1, <2>2, <2>5
  <2> QED
    BY <2>1, <2>3, <2>4, <2>5
<1>8. \A n, m \in 1 .. d : c + n < c + m <=> b[c + n] < b[c + m]
  <2> TAKE n, m \in 1 .. d
  <2>1. /\ n \in Nat /\ m \in Nat /\ g[n] \in Nat /\ g[m] \in Nat
        /\ n < m => g[n] < g[m]
        /\ m < n => g[m] < g[n]
    BY <1>0 DEF Splits
  <2>2. b[c + n] = g[n] /\ b[c + m] = g[m]
    BY <1>3
  <2>3. CASE n < m
    BY <1>0, <2>1, <2>2, <2>3
  <2>4. CASE m < n
    BY <1>0, <2>1, <2>2, <2>4
  <2>5. CASE n = m
    BY <1>0, <2>1, <2>2, <2>5
  <2> QED
    BY <2>1, <2>3, <2>4, <2>5
<1> DEFINE Both(k, l) == /\ b[k] = b[l] => k = l
                         /\ IsEvent(Q[k]) /\ IsEvent(Q[l]) /\ Q[k].pid = Q[l].pid =>
                              (Before(Q, k, l) <=> Before(R, b[k], b[l]))
<1>9. \A k \in DOMAIN Q : \A x : Get(Q[k], "ts", x) = R[b[k]].ts /\ R[b[k]].ts \in Nat
                                 /\ Get(R[b[k]], "ts", x) = R[b[k]].ts
  BY <1>0, <1>2, <1>5, ShapeIs
<1>10. \A k, l \in DOMAIN Q : (k < l <=> b[k] < b[l]) => 
         (Before(Q, k, l) <=> Before(R, b[k], b[l]))
  BY <1>5, <1>9 DEF Before
<1>11. \A k, l \in DOMAIN Q : R[b[k]].ts # R[b[l]].ts => 
         (Before(Q, k, l) <=> Before(R, b[k], b[l]))
  BY <1>5, <1>9 DEF Before
<1>12. \A n, m \in 1 .. c : Both(n, m)
  <2> TAKE n, m \in 1 .. c
  <2>1. n \in DOMAIN Q /\ m \in DOMAIN Q
    BY <1>0, <1>1
  <2>2. b[n] = b[m] => n = m
    <3>1. ~(n < m) /\ ~(m < n) => n = m
      BY <1>0
    <3>2. b[n] \in Nat /\ b[m] \in Nat
      BY <1>0, <1>5, <2>1
    <3> QED
      BY <1>7, <3>1, <3>2
  <2> QED
    BY <1>7, <1>10, <2>1, <2>2
<1>13. \A n, m \in 1 .. d : Both(c + n, c + m)
  <2> TAKE n, m \in 1 .. d
  <2>1. c + n \in DOMAIN Q /\ c + m \in DOMAIN Q
    BY <1>0, <1>1
  <2>2. b[c + n] = b[c + m] => c + n = c + m
    <3>1. ~(c + n < c + m) /\ ~(c + m < c + n) => c + n = c + m
      BY <1>0
    <3>2. b[c + n] \in Nat /\ b[c + m] \in Nat
      BY <1>0, <1>5, <2>1
    <3> QED
      BY <1>8, <3>1, <3>2
  <2> QED
    BY <1>8, <1>10, <2>1, <2>2
<1>14. \A n \in 1 .. c, m \in 1 .. d : Both(n, c + m) /\ Both(c + m, n)
  <2> TAKE n \in 1 .. c, m \in 1 .. d
  <2>1. n \in DOMAIN Q /\ c + m \in DOMAIN Q
    BY <1>0, <1>1
  <2>2. b[n] = f[n] /\ b[c + m] = g[m]
    BY <1>3
  <2>3. f[n] # g[m]
    BY DEF Splits
  <2>4. R[b[n]] = file[f[n]].rec /\ R[b[c + m]] = file[g[m]].rec
    BY <1>0, <1>2, <1>5, <2>1, <2>2
  <2>5. IsEvent(Q[n]) /\ IsEvent(Q[c + m]) /\ Q[n].pid = Q[c + m].pid =>
          R[b[n]].ts # R[b[c + m]].ts
    BY <1>5, <2>1, <2>4 DEF Untied
  <2> QED
    BY <1>11, <2>1, <2>2, <2>3, <2>5
<1>15. \A k, l \in DOMAIN Q : Both(k, l)
  <2> TAKE k, l \in DOMAIN Q
  <2> HIDE DEF Both
  <2> QED
    BY <1>1, <1>4, <1>12, <1>13, <1>14
<1>16. Moved(R, Q, b)
  BY <1>1, <1>3, <1>5, <1>6, <1>15 DEF Moved
<1>17. Logged(R)
  BY LoggedAre DEF R
<1>18. Logged(Q)
  <2>1. c + d \in Nat
    BY <1>0
  <2>2. \A k \in DOMAIN Q : Shape(Q[k])
    BY <1>0, <1>2, <1>5
  <2> QED
    BY <1>1, <2>1, <2>2 DEF Logged
<1>19. Figures(R) = Figures(Q)
  BY <1>16, <1>17, <1>18, MovedFigures
<1> QED
  BY <1>19 DEF R, Q

-----------------------------------------------------------------------------
(* Two ways to cut the file.                                               *)

Nth(at, n) == CHOOSE i \in at : Cardinality({j \in at : j < i}) = n - 1
PartOf(at) == [n \in 1 .. Cardinality(at) |-> file[Nth(at, n)]]

LEMMA NthIs ==
  ASSUME NEW at, IsFiniteSet(at), at \subseteq Nat
  PROVE  /\ Cardinality(at) \in Nat
         /\ \A n \in 1 .. Cardinality(at) : Nth(at, n) \in at
         /\ \A n, m \in 1 .. Cardinality(at) : n < m => Nth(at, n) < Nth(at, m)
         /\ \A i \in at : \E n \in 1 .. Cardinality(at) : Nth(at, n) = i
<1> DEFINE rel == {x \in at \X at : x[1] < x[2]}
           c == Cardinality(at)
           k(i) == Cardinality({j \in at : j < i})
<1>1. \A i, j \in at : <<i, j>> \in rel <=> i < j
  OBVIOUS
<1> HIDE DEF rel
<1>2. Orders(rel, at)
  <2>1. \A i, j, l \in at : i < j /\ j < l => i < l
    OBVIOUS
  <2>2. \A i \in at : ~(i < i)
    OBVIOUS
  <2>3. \A i, j \in at : i # j => i < j \/ j < i
    OBVIOUS
  <2> QED
    BY <1>1, <2>1, <2>2, <2>3 DEF Orders
<1>3. \A i \in at : Cardinality(Below(rel, at, i)) = k(i)
  <2> TAKE i \in at
  <2>1. Below(rel, at, i) = {j \in at : j < i}
    BY <1>1 DEF Below
  <2> QED
    BY <2>1
<1>4. /\ c \in Nat
      /\ \A i \in at : k(i) + 1 \in 1 .. c /\ k(i) \in Nat
      /\ \A i, j \in at : k(i) = k(j) => i = j
      /\ \A i, j \in at : i < j => k(i) < k(j)
      /\ \A n \in 1 .. c : \E i \in at : k(i) + 1 = n
  <2>1. /\ c \in Nat
        /\ \A i \in at : /\ Cardinality(Below(rel, at, i)) + 1 \in 1 .. c
                         /\ Cardinality(Below(rel, at, i)) \in Nat
        /\ \A i, j \in at :
             Cardinality(Below(rel, at, i)) = Cardinality(Below(rel, at, j)) => i = j
        /\ \A i, j \in at :
             <<i, j>> \in rel => Cardinality(Below(rel, at, i)) < Cardinality(Below(rel, at, j))
        /\ \A n \in 1 .. c : \E i \in at : Cardinality(Below(rel, at, i)) + 1 = n
    BY <1>2, Ranks
  <2> HIDE DEF c, k
  <2>2. \A i \in at : k(i) + 1 \in 1 .. c /\ k(i) \in Nat
    BY <1>3, <2>1
  <2>3. \A i, j \in at : k(i) = k(j) => i = j
    BY <1>3, <2>1
  <2>4. ASSUME NEW i \in at, NEW j \in at, i < j
        PROVE  k(i) < k(j)
    <3>1. <<i, j>> \in rel
      BY <1>1, <2>4
    <3>2. Cardinality(Below(rel, at, i)) < Cardinality(Below(rel, at, j))
      BY <2>1, <3>1
    <3> QED
      BY <1>3, <3>2
  <2>5. \A n \in 1 .. c : \E i \in at : k(i) + 1 = n
    BY <1>3, <2>1
  <2> QED
    BY <2>1, <2>2, <2>3, <2>4, <2>5
<1>5. \A n : Nth(at, n) = CHOOSE i \in at : k(i) = n - 1
  BY DEF Nth
<1> HIDE DEF k, c
<1>6. ASSUME NEW n \in 1 .. c
      PROVE  Nth(at, n) \in at /\ k(Nth(at, n)) + 1 = n
  <2>1. PICK i \in at : k(i) + 1 = n
    BY <1>4
  <2>2. i \in at /\ k(i) = n - 1
    <3>1. k(i) \in Nat /\ c \in Nat
      BY <1>4
    <3> QED
      BY <2>1, <3>1
  <2>3. Nth(at, n) \in at /\ k(Nth(at, n)) = n - 1
    BY <1>5, <2>2
  <2> QED
    BY <2>3
<1>7. ASSUME NEW n \in 1 .. c, NEW m \in 1 .. c, n < m
      PROVE  Nth(at, n) < Nth(at, m)
  <2> DEFINE i == Nth(at, n)
             j == Nth(at, m)
  <2>1. i \in at /\ j \in at /\ k(i) + 1 = n /\ k(j) + 1 = m
    BY <1>6
  <2> HIDE DEF i, j
  <2>2. k(i) \in Nat /\ k(j) \in Nat /\ i \in Nat /\ j \in Nat
    BY <1>4, <2>1
  <2>3. j < i => k(j) < k(i)
    BY <1>4, <2>1
  <2>4. i # j
    BY <1>7, <2>1, <2>2
  <2>5. ~(j < i)
    BY <1>7, <2>1, <2>2, <2>3
  <2>6. i < j
    BY <2>2, <2>4, <2>5
  <2> QED
    BY <2>6 DEF i, j
<1>8. ASSUME NEW i \in at
      PROVE  \E n \in 1 .. c : Nth(at, n) = i
  <2> DEFINE n == k(i) + 1
  <2>1. n \in 1 .. c
    BY <1>4
  <2>2. Nth(at, n) \in at /\ k(Nth(at, n)) + 1 = n
    BY <1>6, <2>1
  <2>3. Nth(at, n) = i
    <3> DEFINE j == Nth(at, n)
    <3>1. j \in at /\ k(j) + 1 = k(i) + 1
      BY <2>2
    <3> HIDE DEF j
    <3>2. k(j) \in Nat /\ k(i) \in Nat
      BY <1>4, <3>1
    <3>3. k(j) = k(i)
      BY <3>1, <3>2
    <3> QED
      BY <1>4, <3>1, <3>3 DEF j
  <2> QED
    BY <2>1, <2>3
<1> QED
  BY <1>4, <1>6, <1>7, <1>8 DEF c

LEMMA PartIs ==
  ASSUME FileInv, NEW at, at \subseteq DOMAIN file
  PROVE  LET f == [n \in 1 .. Cardinality(at) |-> Nth(at, n)]
         IN  Takes(PartOf(at), f, Cardinality(at)) /\ IsFiniteSet(at) /\ at \subseteq Nat
<1> DEFINE c == Cardinality(at)
           F == PartOf(at)
           f == [n \in 1 .. c |-> Nth(at, n)]
<1>1. DOMAIN file = 1 .. Len(file) /\ Len(file) \in Nat /\ WholeFile(file)
  BY RecordsAre
<1>2. IsFiniteSet(at) /\ at \subseteq Nat
  <2>1. IsFiniteSet(1 .. Len(file))
    BY <1>1, FS_Interval
  <2> QED
    BY <1>1, <2>1, FS_Subset
<1>3. c \in Nat /\ \A n \in 1 .. c : Nth(at, n) \in at
  BY <1>2, NthIs
<1>4. /\ F = [n \in 1 .. c |-> F[n]]
      /\ \A n \in 1 .. c : F[n] = file[f[n]] /\ f[n] \in DOMAIN file
  BY <1>3 DEF PartOf
<1> HIDE DEF F, f, c
<1>5. DOMAIN F = 1 .. c
  BY <1>4
<1>6. \A n \in 1 .. c : F[n] \in Range(F)
  BY <1>5 DEF Range
<1>7. F \in Seq(Range(F)) /\ Len(F) = c
  BY <1>3, <1>4, <1>6, ASeq
<1>8. \A n \in DOMAIN F : F[n].whole = TRUE
  BY <1>1, <1>4, <1>5 DEF WholeFile
<1>9. Takes(F, f, c)
  BY <1>4, <1>7, <1>8 DEF Takes, WholeFile
<1> QED
  BY <1>2, <1>9 DEF F, f, c

\* A file of one process, and one of all others.
LEMMA OwnFile ==
  ASSUME FileInv, NEW p
  PROVE  LET own == {n \in DOMAIN file : file[n].rec.pid = p}
         IN  Figures(Records) = Figures(LoadRecords(<<PartOf(own), PartOf(DOMAIN file \ own)>>))
<1> DEFINE own == {n \in DOMAIN file : file[n].rec.pid = p}
           rest == DOMAIN file \ own
           c == Cardinality(own)
           d == Cardinality(rest)
           f == [n \in 1 .. c |-> Nth(own, n)]
           g == [n \in 1 .. d |-> Nth(rest, n)]
<1>1. own \subseteq DOMAIN file /\ rest \subseteq DOMAIN file
  OBVIOUS
<1>2. /\ \A n \in own : file[n].rec.pid = p
      /\ \A n \in rest : file[n].rec.pid # p
      /\ \A n \in DOMAIN file : n \in own \/ n \in rest
      /\ \A n \in own : n \notin rest
  OBVIOUS
<1> HIDE DEF own, rest
<1>3. Takes(PartOf(own), f, c) /\ IsFiniteSet(own) /\ own \subseteq Nat
  BY <1>1, PartIs
<1>4. Takes(PartOf(rest), g, d) /\ IsFiniteSet(rest) /\ rest \subseteq Nat
  BY <1>1, PartIs
<1>5. /\ c \in Nat /\ \A n \in 1 .. c : f[n] \in own
      /\ \A n, m \in 1 .. c : n < m => f[n] < f[m]
      /\ \A i \in own : \E n \in 1 .. c : f[n] = i
  BY <1>3, NthIs
<1>6. /\ d \in Nat /\ \A n \in 1 .. d : g[n] \in rest
      /\ \A n, m \in 1 .. d : n < m => g[n] < g[m]
      /\ \A i \in rest : \E n \in 1 .. d : g[n] = i
  BY <1>4, NthIs
<1> HIDE DEF f, g, c, d
<1>7. Splits(f, c, g, d)
  <2>1. \A n \in 1 .. c, m \in 1 .. d : f[n] # g[m]
    BY <1>2, <1>5, <1>6
  <2>2. \A i \in DOMAIN file : (\E n \in 1 .. c : f[n] = i) \/ (\E n \in 1 .. d : g[n] = i)
    BY <1>2, <1>5, <1>6
  <2> QED
    BY <1>1, <1>5, <1>6, <2>1, <2>2 DEF Splits
<1>8. Untied(f, c, g, d)
  BY <1>2, <1>5, <1>6 DEF Untied
<1>9. Figures(Records) = Figures(LoadRecords(<<PartOf(own), PartOf(rest)>>))
  BY <1>3, <1>4, <1>7, <1>8, TwoFiles
<1> QED
  BY <1>9 DEF own, rest

\* A file that was rotated, the later part read first.
LEMMA CutFile ==
  ASSUME FileInv, NEW cut \in DOMAIN file, ~Tied(cut)
  PROVE  Figures(Records)
           = Figures(LoadRecords(<<SubSeq(file, cut + 1, Len(file)), SubSeq(file, 1, cut)>>))
<1> DEFINE l == Len(file)
           c == l - cut
           f == [n \in 1 .. c |-> cut + n]
           g == [n \in 1 .. cut |-> n]
           F == SubSeq(file, cut + 1, l)
           G == SubSeq(file, 1, cut)
<1>1. /\ DOMAIN file = 1 .. l /\ l \in Nat /\ WholeFile(file) /\ cut \in 1 .. l
      /\ c \in Nat /\ cut \in Nat /\ c + cut = l
  BY RecordsAre
<1>2. /\ \A n \in 1 .. c : f[n] = cut + n /\ cut + n \in 1 .. l
      /\ \A n \in 1 .. cut : g[n] = n /\ n \in 1 .. l
  BY <1>1
<1> DEFINE X == Range(file)
<1>3. \A i \in 1 .. l : file[i] \in X
  BY <1>1 DEF Range
<1> HIDE DEF X
<1>4. Takes(F, f, c)
  <2>1. \A i \in cut + 1 .. l : file[i] \in X
    BY <1>1, <1>3
  <2>2. /\ F \in Seq(X) /\ Len(F) = (IF cut + 1 <= l THEN l - (cut + 1) + 1 ELSE 0)
        /\ \A i \in 1 .. l - (cut + 1) + 1 : F[i] = file[cut + 1 + i - 1]
    BY <1>1, <2>1, SubSeqProperties
  <2>3. l - (cut + 1) + 1 = c /\ \A n \in 1 .. c : cut + 1 + n - 1 = cut + n
    BY <1>1
  <2>4. Len(F) = c
    BY <1>1, <2>2
  <2> HIDE DEF F, f, c
  <2>5. \A n \in 1 .. c : F[n] = file[f[n]]
    BY <1>2, <2>2, <2>3
  <2>6. DOMAIN F = 1 .. c
    BY <2>2, <2>4
  <2>7. F \in Seq(Range(F))
    BY <2>2, SeqOfRange, RangeOfSeq DEF Range
  <2>8. \A n \in DOMAIN F : F[n].whole = TRUE
    BY <1>1, <1>2, <2>5, <2>6 DEF WholeFile
  <2> QED
    BY <2>4, <2>5, <2>7, <2>8 DEF Takes, WholeFile
<1>5. Takes(G, g, cut)
  <2>1. \A i \in 1 .. cut : file[i] \in X
    BY <1>1, <1>3
  <2>2. /\ G \in Seq(X) /\ Len(G) = (IF 1 <= cut THEN cut - 1 + 1 ELSE 0)
        /\ \A i \in 1 .. cut - 1 + 1 : G[i] = file[1 + i - 1]
    BY <1>1, <2>1, SubSeqProperties
  <2>3. cut - 1 + 1 = cut /\ \A n \in 1 .. cut : 1 + n - 1 = n
    BY <1>1
  <2>4. Len(G) = cut
    BY <1>1, <2>2
  <2> HIDE DEF G, g
  <2>5. \A n \in 1 .. cut : G[n] = file[g[n]]
    BY <1>2, <2>2, <2>3
  <2>6. DOMAIN G = 1 .. cut
    BY <2>2, <2>4
  <2>7. G \in Seq(Range(G))
    BY <2>2, SeqOfRange, RangeOfSeq DEF Range
  <2>8. \A n \in DOMAIN G : G[n].whole = TRUE
    BY <1>1, <1>2, <2>5, <2>6 DEF WholeFile
  <2> QED
    BY <2>4, <2>5, <2>7, <2>8 DEF Takes, WholeFile
<1> HIDE DEF F, G
<1>6. Splits(f, c, g, cut)
  <2>1. \A n \in 1 .. c, m \in 1 .. cut : f[n] # g[m]
    BY <1>1, <1>2
  <2>2. ASSUME NEW i \in 1 .. l
        PROVE  (\E n \in 1 .. c : f[n] = i) \/ (\E n \in 1 .. cut : g[n] = i)
    <3>1. CASE i <= cut
      <4>1. i \in 1 .. cut
        BY <1>1, <3>1
      <4> QED
        BY <1>2, <4>1
    <3>2. CASE i > cut
      <4>1. i - cut \in 1 .. c /\ cut + (i - cut) = i
        BY <1>1, <3>2
      <4> HIDE DEF f, c
      <4>2. f[i - cut] = i
        BY <1>2, <4>1
      <4> QED
        BY <4>1, <4>2
    <3> QED
      BY <1>1, <3>1, <3>2
  <2>3. \A n, m \in 1 .. c : n < m => f[n] < f[m]
    BY <1>1, <1>2
  <2>4. \A n, m \in 1 .. cut : n < m => g[n] < g[m]
    BY <1>1, <1>2
  <2> HIDE DEF f, c, g, l
  <2> QED
    BY <1>1, <1>2, <2>1, <2>2, <2>3, <2>4 DEF Splits
<1>7. Untied(f, c, g, cut)
  <2> SUFFICES ASSUME NEW n \in 1 .. c, NEW m \in 1 .. cut
               PROVE  LET r == file[cut + n].rec
                          s == file[m].rec
                      IN  ~(IsEvent(r) /\ IsEvent(s) /\ r.pid = s.pid /\ r.ts = s.ts)
    BY <1>2 DEF Untied
  <2>1. cut + n \in cut + 1 .. l
    BY <1>1
  <2> QED
    BY <2>1 DEF Tied
<1> HIDE DEF f, g, c
<1>8. Figures(Records) = Figures(LoadRecords(<<F, G>>))
  BY <1>4, <1>5, <1>6, <1>7, TwoFiles
<1> QED
  BY <1>8 DEF F, G

LEMMA OrderNone == FileInv => FileOrder
<1> SUFFICES ASSUME FileInv PROVE FileOrder
  OBVIOUS
<1>1. \A p \in Procs :
        LET own == {n \in DOMAIN file : file[n].rec.pid = p}
        IN  Figures(Records) = Figures(LoadRecords(<<PartOf(own), PartOf(DOMAIN file \ own)>>))
  BY OwnFile
<1>2. \A cut \in DOMAIN file : ~Tied(cut) =>
        Figures(Records)
          = Figures(LoadRecords(<<SubSeq(file, cut + 1, Len(file)), SubSeq(file, 1, cut)>>))
  BY CutFile
<1> QED
  BY <1>1, <1>2 DEF FileOrder, PartOf, Nth

\* It plays no part in how many files the records are, or which is read first, when
\* each process has its own, or when one was rotated between two times.
THEOREM AnyFiles == Spec => []FileOrder
<1>1. Types /\ FileInv => FileOrder
  BY OrderNone
<1>2. Init => Types /\ FileInv
  BY TypesInit, FileInit
<1>3. Types /\ FileInv /\ [Next]_vars => (Types /\ FileInv)'
  BY TypesStep, FileStep
<1> QED
  BY <1>1, <1>2, <1>3, PTL DEF Spec

-----------------------------------------------------------------------------
(* Numbers in hexadecimal: what is written is read back.                   *)

\* Induction that may look at all numbers below.
LEMMA Below0 ==
  ASSUME NEW T, \A n \in Nat : (\A k \in 0 .. n - 1 : k \in T) => n \in T
  PROVE  Nat \subseteq T
<1>1. SUFFICES ASSUME Nat \ T # {} PROVE FALSE
  OBVIOUS
<1>2. PICK x \in Nat \ T : \A y \in Nat \ T : x <= y
  BY <1>1, Least
<1>3. \A k \in 0 .. x - 1 : k \in T
  BY <1>2
<1> QED
  BY <1>2, <1>3

LEMMA HexParts ==
  ASSUME NEW n \in Nat
  PROVE  /\ n % 16 \in 0 .. 15 /\ n \div 16 \in Nat /\ n = 16 * (n \div 16) + (n % 16)
         /\ n >= 16 => n \div 16 \in 0 .. n - 1
OBVIOUS

Char(k) == Text!Digit[k + 1]
Chars == {Char(k) : k \in 0 .. 15}
DigitAt(c) == CHOOSE d \in DOMAIN Text!Digit : Text!Digit[d] = c

LEMMA CharsAre ==
  /\ \A k \in 0 .. 15 : DigitAt(Char(k)) = k + 1 /\ Char(k) = Text!Digit[k + 1]
  /\ Chars = {Text!Digit[n] : n \in 1 .. 16}
  /\ Chars \ HexDigit \subseteq {Text!Digit[n] : n \in 1 .. 10}
<1>1. DOMAIN Text!Digit = 1 .. 16
  BY DEF Text!Digit
<1>2. \A i, j \in 1 .. 16 : Text!Digit[i] = Text!Digit[j] => i = j
  BY DEF Text!Digit
<1>3. \A i \in 11 .. 16 : Text!Digit[i] \in HexDigit
  BY DEF Text!Digit, HexDigit
<1>4. ASSUME NEW k \in 0 .. 15
      PROVE  DigitAt(Char(k)) = k + 1
  <2>1. k + 1 \in 1 .. 16
    OBVIOUS
  <2> DEFINE x == CHOOSE d \in 1 .. 16 : Text!Digit[d] = Text!Digit[k + 1]
  <2>2. x = k + 1
    BY <1>2, <2>1
  <2> QED
    BY <1>1, <2>2 DEF DigitAt, Char
<1>5. Chars = {Text!Digit[n] : n \in 1 .. 16}
  <2>1. \A n \in 1 .. 16 : n - 1 \in 0 .. 15 /\ Char(n - 1) = Text!Digit[n]
    <3> TAKE n \in 1 .. 16
    <3>1. (n - 1) + 1 = n
      OBVIOUS
    <3> QED
      BY <3>1 DEF Char
  <2>2. \A k \in 0 .. 15 : k + 1 \in 1 .. 16 /\ Char(k) = Text!Digit[k + 1]
    BY DEF Char
  <2> QED
    BY <2>1, <2>2 DEF Chars
<1>6. Chars \ HexDigit \subseteq {Text!Digit[n] : n \in 1 .. 10}
  <2>1. \A n \in 1 .. 16 : n \in 1 .. 10 \/ n \in 11 .. 16
    OBVIOUS
  <2> QED
    BY <1>3, <1>5, <2>1
<1> QED
  BY <1>4, <1>5, <1>6 DEF Char

\* The digits of all numbers, and of those up to one.
DigitsFrom(d, n) == <<Char(n % 16)>> \o IF n < 16 THEN << >> ELSE d[n \div 16]
HexUpTo(d, n) == d = [k \in 0 .. n |-> DigitsFrom(d, k)]
Hex(d) == d = [k \in Nat |-> DigitsFrom(d, k)]

LEMMA NumeralIs ==
  ASSUME NEW v
  PROVE  Text!Numeral(16, v) = Text!Reverse((CHOOSE d : Hex(d))[v])
<1>1. \A d : Hex(d) <=> d = [n \in Nat |-> <<Text!Digit[(n % 16) + 1]>>
                                   \o IF n < 16 THEN << >> ELSE d[n \div 16]]
  BY DEF Hex, DigitsFrom, Char
<1> QED
  BY <1>1 DEF Text!Numeral

LEMMA HexUpToValue ==
  ASSUME NEW d, NEW n \in Nat, HexUpTo(d, n)
  PROVE  \A k \in 0 .. n : d[k] = DigitsFrom(d, k)
<1> DEFINE F(k) == DigitsFrom(d, k)
<1> HIDE DEF F
<1>1. d = [k \in 0 .. n |-> F(k)]
  BY DEF HexUpTo, F
<1>2. \A k \in 0 .. n : d[k] = F(k)
  BY <1>1
<1> QED
  BY <1>2 DEF F

LEMMA HexValue ==
  ASSUME NEW d, Hex(d)
  PROVE  \A k \in Nat : d[k] = DigitsFrom(d, k)
<1> DEFINE F(k) == DigitsFrom(d, k)
<1> HIDE DEF F
<1>1. d = [k \in Nat |-> F(k)]
  BY DEF Hex, F
<1>2. \A k \in Nat : d[k] = F(k)
  BY <1>1
<1> QED
  BY <1>2 DEF F

LEMMA HexAgree ==
  ASSUME NEW d, NEW e, NEW n \in Nat, NEW m \in Nat, HexUpTo(d, n), HexUpTo(e, m)
  PROVE  \A k \in Nat : k <= n /\ k <= m => d[k] = e[k]
<1> DEFINE T == {k \in Nat : k <= n /\ k <= m => d[k] = e[k]}
<1>1. ASSUME NEW k \in Nat, \A j \in 0 .. k - 1 : j \in T
      PROVE  k \in T
  <2>1. SUFFICES ASSUME k <= n, k <= m PROVE d[k] = e[k]
    OBVIOUS
  <2>2. d[k] = DigitsFrom(d, k) /\ e[k] = DigitsFrom(e, k)
    BY <2>1, HexUpToValue
  <2>3. k >= 16 => d[k \div 16] = e[k \div 16]
    <3>1. SUFFICES ASSUME k >= 16 PROVE d[k \div 16] = e[k \div 16]
      OBVIOUS
    <3>2. k \div 16 \in 0 .. k - 1
      BY <3>1, HexParts
    <3> QED
      BY <1>1, <2>1, <3>2
  <2> QED
    BY <2>2, <2>3 DEF DigitsFrom
<1> HIDE DEF T
<1>2. Nat \subseteq T
  BY <1>1, Below0
<1> QED
  BY <1>2 DEF T

LEMMA HexUpToExists ==
  ASSUME NEW n \in Nat
  PROVE  \E d : HexUpTo(d, n)
<1> DEFINE T == {k \in Nat : \E d : HexUpTo(d, k)}
<1>1. 0 \in T
  <2> DEFINE d == [k \in 0 .. 0 |-> <<Char(k % 16)>> \o << >>]
  <2>1. \A k \in 0 .. 0 : d[k] = DigitsFrom(d, k)
    BY DEF DigitsFrom
  <2>2. d = [k \in 0 .. 0 |-> d[k]]
    OBVIOUS
  <2> HIDE DEF d
  <2>3. HexUpTo(d, 0)
    <3> DEFINE G(k) == DigitsFrom(d, k)
    <3>1. \A k \in 0 .. 0 : d[k] = G(k)
      BY <2>1
    <3> HIDE DEF G
    <3>2. d = [k \in 0 .. 0 |-> G(k)]
      BY <2>2, <3>1
    <3> QED
      BY <3>2 DEF G, HexUpTo
  <2> QED
    BY <2>3
<1>2. ASSUME NEW m \in Nat, m \in T
      PROVE  m + 1 \in T
  <2>1. PICK d : HexUpTo(d, m)
    BY <1>2
  <2>2. \A k \in 0 .. m : d[k] = DigitsFrom(d, k)
    BY <2>1, HexUpToValue
  <2> DEFINE e == [k \in 0 .. m + 1 |-> IF k <= m THEN d[k] ELSE DigitsFrom(d, k)]
  <2>3. \A k \in 0 .. m : e[k] = d[k]
    OBVIOUS
  <2>4. ASSUME NEW k \in 0 .. m + 1
        PROVE  e[k] = DigitsFrom(e, k)
    <3>1. e[k] = DigitsFrom(d, k)
      BY <2>2
    <3>2. k >= 16 => e[k \div 16] = d[k \div 16]
      <4>1. SUFFICES ASSUME k >= 16 PROVE e[k \div 16] = d[k \div 16]
        OBVIOUS
      <4>2. k \div 16 \in 0 .. k - 1
        BY <4>1, HexParts
      <4>3. k \div 16 \in 0 .. m
        BY <4>2
      <4> HIDE DEF e
      <4> QED
        BY <2>3, <4>3
    <3> HIDE DEF e
    <3> QED
      BY <3>1, <3>2 DEF DigitsFrom
  <2>5. e = [k \in 0 .. m + 1 |-> e[k]]
    OBVIOUS
  <2> HIDE DEF e
  <2>6. HexUpTo(e, m + 1)
    <3> DEFINE G(k) == DigitsFrom(e, k)
    <3>1. \A k \in 0 .. m + 1 : e[k] = G(k)
      BY <2>4
    <3> HIDE DEF G
    <3>2. e = [k \in 0 .. m + 1 |-> G(k)]
      BY <2>5, <3>1
    <3> QED
      BY <3>2 DEF G, HexUpTo
  <2> QED
    BY <2>6
<1> HIDE DEF T
<1>3. n \in T
  BY <1>1, <1>2, Induction
<1> QED
  BY <1>3 DEF T

LEMMA HexExists == \E d : Hex(d)
<1> DEFINE Of(n) == CHOOSE d : HexUpTo(d, n)
           e == [n \in Nat |-> Of(n)[n]]
<1>1. \A n \in Nat : HexUpTo(Of(n), n)
  BY HexUpToExists
<1> HIDE DEF Of
<1>2. ASSUME NEW n \in Nat
      PROVE  e[n] = DigitsFrom(e, n)
  <2>1. e[n] = DigitsFrom(Of(n), n)
    <3>1. Of(n)[n] = DigitsFrom(Of(n), n)
      BY <1>1, HexUpToValue
    <3> QED
      BY <3>1
  <2>2. n >= 16 => e[n \div 16] = Of(n)[n \div 16]
    <3>1. SUFFICES ASSUME n >= 16 PROVE e[n \div 16] = Of(n)[n \div 16]
      OBVIOUS
    <3> DEFINE k == n \div 16
    <3>2. k \in Nat /\ k <= n /\ k <= k
      BY <3>1, HexParts
    <3> HIDE DEF k
    <3>3. Of(k)[k] = Of(n)[k]
      BY <1>1, <3>2, HexAgree
    <3> QED
      BY <3>2, <3>3 DEF k
  <2> HIDE DEF e
  <2> QED
    BY <2>1, <2>2 DEF DigitsFrom
<1>3. e = [n \in Nat |-> e[n]]
  OBVIOUS
<1> HIDE DEF e
<1>4. Hex(e)
  <2> DEFINE G(k) == DigitsFrom(e, k)
  <2>1. \A k \in Nat : e[k] = G(k)
    BY <1>2
  <2> HIDE DEF G
  <2>2. e = [k \in Nat |-> G(k)]
    BY <1>3, <2>1
  <2> QED
    BY <2>2 DEF G, Hex
<1> QED
  BY <1>4

\* The digits of a number are those of its quotient behind its remainder.
LEMMA HexLast ==
  ASSUME NEW g, Hex(g), NEW v \in Nat, v < 16
  PROVE  g[v] = <<Char(v)>> /\ g[v] \in Seq(Chars) /\ Len(g[v]) = 1 /\ g[v][1] = Char(v)
<1>1. g[v] = <<Char(v % 16)>> \o << >>
  BY HexValue DEF DigitsFrom
<1>2. v % 16 = v
  OBVIOUS
<1>3. Char(v) \in Chars
  BY DEF Chars
<1> QED
  BY <1>1, <1>2, <1>3

LEMMA HexMore ==
  ASSUME NEW g, Hex(g), NEW v \in Nat, v >= 16, g[v \div 16] \in Seq(Chars)
  PROVE  /\ g[v] \in Seq(Chars) /\ Len(g[v]) = Len(g[v \div 16]) + 1
         /\ g[v][1] = Char(v % 16)
         /\ \A i \in 1 .. Len(g[v \div 16]) : g[v][i + 1] = g[v \div 16][i]
<1> DEFINE q == g[v \div 16]
           c == Char(v % 16)
<1>1. g[v] = <<c>> \o q
  BY HexValue DEF DigitsFrom
<1>2. c \in Chars
  BY HexParts DEF Chars
<1>3. q \in Seq(Chars)
  OBVIOUS
<1> HIDE DEF q, c
<1>4. <<c>> \o q \in Seq(Chars) /\ Len(<<c>> \o q) = Len(q) + 1
  BY <1>2, <1>3
<1>5. (<<c>> \o q)[1] = c
  BY <1>2, <1>3
<1>6. \A i \in 1 .. Len(q) : (<<c>> \o q)[i + 1] = q[i]
  BY <1>2, <1>3
<1> QED
  BY <1>1, <1>4, <1>5, <1>6 DEF q, c

LEMMA HexType ==
  ASSUME NEW g, Hex(g)
  PROVE  \A v \in Nat : g[v] \in Seq(Chars)
<1> DEFINE T == {v \in Nat : g[v] \in Seq(Chars)}
<1>1. ASSUME NEW v \in Nat, \A k \in 0 .. v - 1 : k \in T
      PROVE  v \in T
  <2>1. CASE v < 16
    BY <2>1, HexLast
  <2>2. CASE v >= 16
    <3>1. v \div 16 \in 0 .. v - 1
      BY <2>2, HexParts
    <3>2. g[v \div 16] \in Seq(Chars)
      BY <1>1, <3>1
    <3> QED
      BY <2>2, <3>2, HexMore
  <2> QED
    BY <2>1, <2>2
<1> HIDE DEF T
<1>2. Nat \subseteq T
  BY <1>1, Below0
<1> QED
  BY <1>2 DEF T

-----------------------------------------------------------------------------
(* The reading of digits.                                                  *)

ReadOne(v, c) == 16 * v + DigitAt(c) - 1

LEMMA ReadOneIs ==
  ASSUME NEW v \in Nat, NEW k \in 0 .. 15
  PROVE  ReadOne(v, Char(k)) = 16 * v + k
<1>1. ReadOne(v, Char(k)) = 16 * v + (k + 1) - 1
  BY CharsAre DEF ReadOne
<1> QED
  BY <1>1

Evals(f, s, n) ==
  f = [u \in SUBSET (1 .. n) |->
         IF u = {} THEN 0 ELSE ReadOne(f[u \ {Max(u)}], s[Max(u)])]

LEMMA ValueIs ==
  ASSUME NEW s, NEW n, DOMAIN s = 1 .. n
  PROVE  Text!Value(16, s) = (CHOOSE f : Evals(f, s, n))[1 .. n]
BY DEF Text!Value, Text!FoldLeft, Text!MapThenFoldSet, Text!Max, Max, Evals, ReadOne, DigitAt

LEMMA EvalsValue ==
  ASSUME NEW f, NEW s, NEW n \in Nat, Evals(f, s, n), NEW u \in SUBSET (1 .. n)
  PROVE  f[u] = IF u = {} THEN 0 ELSE ReadOne(f[u \ {Max(u)}], s[Max(u)])
<1> DEFINE F(w) == IF w = {} THEN 0 ELSE ReadOne(f[w \ {Max(w)}], s[Max(w)])
<1> HIDE DEF F
<1>1. f = [w \in SUBSET (1 .. n) |-> F(w)]
  BY DEF Evals, F
<1>2. f[u] = F(u)
  BY <1>1
<1> QED
  BY <1>2 DEF F

LEMMA EvalsExist ==
  ASSUME NEW s, NEW n \in Nat
  PROVE  \E f : Evals(f, s, n)
<1> DEFINE T == {k \in Nat : \E f : Evals(f, s, k)}
<1>1. 0 \in T
  <2> DEFINE f == [u \in SUBSET (1 .. 0) |-> 0]
  <2>1. \A u \in SUBSET (1 .. 0) : u = {}
    OBVIOUS
  <2>2. Evals(f, s, 0)
    BY <2>1 DEF Evals
  <2> QED
    BY <2>2
<1>2. ASSUME NEW k \in Nat, k \in T
      PROVE  k + 1 \in T
  <2>1. PICK f : Evals(f, s, k)
    BY <1>2
  <2>0. \A w \in SUBSET (1 .. k) :
          f[w] = IF w = {} THEN 0 ELSE ReadOne(f[w \ {Max(w)}], s[Max(w)])
    BY <2>1, EvalsValue
  <2> DEFINE h == [u \in SUBSET (1 .. k + 1) |->
                     IF k + 1 \in u THEN ReadOne(f[u \ {k + 1}], s[k + 1]) ELSE f[u]]
  <2>2. ASSUME NEW u \in SUBSET (1 .. k + 1)
        PROVE  h[u] = IF u = {} THEN 0 ELSE ReadOne(h[u \ {Max(u)}], s[Max(u)])
    <3>0. \A w \in SUBSET (1 .. k + 1) : k + 1 \notin w => w \in SUBSET (1 .. k) /\ h[w] = f[w]
      OBVIOUS
    <3>1. CASE k + 1 \in u
      <4>1. Max(u) = k + 1
        <5>1. k + 1 \in Nat /\ u # {}
          BY <3>1
        <5>2. Max(u) \in u /\ k + 1 <= Max(u)
          BY <5>1, <3>1, Largest
        <5>3. Max(u) \in 1 .. k + 1
          BY <5>2
        <5> QED
          BY <5>2, <5>3
      <4>2. h[u \ {k + 1}] = f[u \ {k + 1}]
        BY <3>0
      <4>3. h[u] = ReadOne(f[u \ {k + 1}], s[k + 1])
        BY <3>1
      <4> QED
        BY <3>1, <4>1, <4>2, <4>3
    <3>2. CASE k + 1 \notin u
      <4>1. u \in SUBSET (1 .. k) /\ h[u] = f[u]
        BY <3>0, <3>2
      <4>2. h[u \ {Max(u)}] = f[u \ {Max(u)}]
        BY <3>0, <3>2
      <4>3. f[u] = IF u = {} THEN 0 ELSE ReadOne(f[u \ {Max(u)}], s[Max(u)])
        BY <4>1, <2>0
      <4> HIDE DEF h
      <4> QED
        BY <4>1, <4>2, <4>3
    <3> QED
      BY <3>1, <3>2
  <2>3. Evals(h, s, k + 1)
    <3> DEFINE G(u) == IF u = {} THEN 0 ELSE ReadOne(h[u \ {Max(u)}], s[Max(u)])
    <3>1. \A u \in SUBSET (1 .. k + 1) : h[u] = G(u)
      BY <2>2
    <3> HIDE DEF G
    <3>2. h = [u \in SUBSET (1 .. k + 1) |-> G(u)]
      BY <3>1
    <3> HIDE DEF h
    <3> QED
      BY <3>2 DEF Evals, G
  <2> QED
    BY <2>3
<1> HIDE DEF T
<1>3. n \in T
  BY <1>1, <1>2, Induction
<1> QED
  BY <1>3 DEF T

\* One digit more.
LEMMA EvalsMore ==
  ASSUME NEW f, NEW s, NEW n \in Nat, Evals(f, s, n), NEW k \in Nat, k < n
  PROVE  f[1 .. k + 1] = ReadOne(f[1 .. k], s[k + 1])
<1> DEFINE u == 1 .. k + 1
<1>1. k + 1 \in u /\ u # {} /\ u \in SUBSET (1 .. n) /\ u \in SUBSET (1 .. k + 1)
      /\ k + 1 \in Nat
  <2>1. k + 1 \in Nat /\ k + 1 <= n /\ k + 1 \in u
    OBVIOUS
  <2>2. \A x \in u : x \in 1 .. n
    BY <2>1
  <2> QED
    BY <2>1, <2>2
<1>2. u \ {k + 1} = 1 .. k
  OBVIOUS
<1> HIDE DEF u
<1>3. Max(u) = k + 1
  <2>1. Max(u) \in u /\ k + 1 <= Max(u)
    BY <1>1, Largest
  <2>2. Max(u) \in 1 .. k + 1
    BY <1>1, <2>1
  <2> QED
    BY <2>1, <2>2
<1>4. f[u] = IF u = {} THEN 0 ELSE ReadOne(f[u \ {Max(u)}], s[Max(u)])
  BY <1>1, EvalsValue
<1> QED
  BY <1>1, <1>2, <1>3, <1>4 DEF u

LEMMA EvalsNone ==
  ASSUME NEW f, NEW s, NEW n \in Nat, Evals(f, s, n)
  PROVE  f[1 .. 0] = 0
<1>1. 1 .. 0 = {} /\ {} \in SUBSET (1 .. n)
  OBVIOUS
<1> QED
  BY <1>1, EvalsValue

\* The first m characters of s are the digits of v, turned round.
Spells(g, v, s, m) == m = Len(g[v]) /\ \A i \in 1 .. m : s[i] = g[v][(m - i) + 1]

LEMMA SpelledIsRead ==
  ASSUME NEW g, Hex(g), NEW f, NEW s, NEW n \in Nat, Evals(f, s, n)
  PROVE  \A v \in Nat, m \in 0 .. n : Spells(g, v, s, m) => f[1 .. m] = v
<1> DEFINE T == {v \in Nat : \A m \in 0 .. n : Spells(g, v, s, m) => f[1 .. m] = v}
<1>1. ASSUME NEW v \in Nat, \A k \in 0 .. v - 1 : k \in T
      PROVE  v \in T
  <2> SUFFICES ASSUME NEW m \in 0 .. n, Spells(g, v, s, m)
               PROVE  f[1 .. m] = v
    OBVIOUS
  <2>0. m = Len(g[v]) /\ \A i \in 1 .. m : s[i] = g[v][(m - i) + 1]
    BY DEF Spells
  <2>1. CASE v < 16
    <3>1. Len(g[v]) = 1 /\ g[v][1] = Char(v)
      BY <2>1, HexLast
    <3>2. m = 1 /\ s[1] = Char(v)
      <4>1. m = 1 /\ 1 \in 1 .. m /\ (m - 1) + 1 = 1
        BY <2>0, <3>1
      <4>2. s[1] = g[v][(m - 1) + 1]
        BY <2>0, <4>1
      <4> QED
        BY <3>1, <4>1, <4>2
    <3> DEFINE z == 0
    <3>7. z \in Nat /\ z < n /\ z + 1 = 1
      BY <3>2
    <3> HIDE DEF z
    <3>3. f[1 .. 1] = ReadOne(f[1 .. z], s[1])
      <4>1. f[1 .. z + 1] = ReadOne(f[1 .. z], s[z + 1])
        BY <3>7, EvalsMore
      <4> QED
        BY <3>7, <4>1
    <3>4. f[1 .. z] = 0
      BY EvalsNone DEF z
    <3>5. ReadOne(0, Char(v)) = 16 * 0 + v
      <4>1. 0 \in Nat /\ v \in 0 .. 15
        BY <2>1
      <4> QED
        BY <4>1, ReadOneIs
    <3>6. 16 * 0 + v = v
      OBVIOUS
    <3> QED
      BY <3>2, <3>3, <3>4, <3>5, <3>6
  <2>2. CASE v >= 16
    <3> DEFINE q == v \div 16
               k == m - 1
    <3>1. /\ q \in 0 .. v - 1 /\ q \in Nat /\ v % 16 \in 0 .. 15
          /\ v = 16 * q + (v % 16)
      BY <2>2, HexParts
    <3>2. g[q] \in Seq(Chars)
      BY <3>1, HexType
    <3>3. /\ Len(g[v]) = Len(g[q]) + 1 /\ g[v][1] = Char(v % 16)
          /\ \A i \in 1 .. Len(g[q]) : g[v][i + 1] = g[q][i]
      BY <2>2, <3>2, HexMore
    <3> HIDE DEF q
    <3>4. k \in Nat /\ k = Len(g[q]) /\ m = k + 1 /\ k \in 0 .. n /\ k < n
      <4>1. Len(g[q]) \in Nat
        BY <3>2
      <4> QED
        BY <2>0, <3>3, <4>1
    <3> HIDE DEF k
    <3>5. Spells(g, q, s, k)
      <4>1. ASSUME NEW i \in 1 .. k
            PROVE  s[i] = g[q][(k - i) + 1]
        <5>1. i \in 1 .. m /\ (m - i) + 1 = ((k - i) + 1) + 1 /\ (k - i) + 1 \in 1 .. k
          BY <3>4
        <5>2. s[i] = g[v][(m - i) + 1]
          BY <2>0, <5>1
        <5> DEFINE j == (k - i) + 1
        <5>3. j \in 1 .. Len(g[q]) /\ s[i] = g[v][j + 1]
          BY <3>4, <5>1, <5>2
        <5> HIDE DEF j
        <5>4. s[i] = g[q][j]
          BY <3>3, <5>3
        <5> QED
          BY <5>4 DEF j
      <4> QED
        BY <3>4, <4>1 DEF Spells
    <3>6. f[1 .. k] = q
      <4>1. q \in T
        BY <1>1, <3>1
      <4> QED
        BY <3>4, <3>5, <4>1
    <3>7. s[k + 1] = Char(v % 16)
      <4>1. m \in 1 .. m /\ (m - m) + 1 = 1
        BY <3>4
      <4>2. s[m] = g[v][1]
        <5>1. s[m] = g[v][(m - m) + 1]
          BY <2>0, <4>1
        <5> QED
          BY <4>1, <5>1
      <4> QED
        BY <3>3, <3>4, <4>2
    <3>8. f[1 .. k + 1] = ReadOne(f[1 .. k], s[k + 1])
      BY <3>4, EvalsMore
    <3>9. ReadOne(q, Char(v % 16)) = 16 * q + (v % 16)
      BY <3>1, ReadOneIs
    <3> QED
      BY <3>1, <3>4, <3>6, <3>7, <3>8, <3>9
  <2> QED
    BY <2>1, <2>2
<1> HIDE DEF T
<1>2. Nat \subseteq T
  BY <1>1, Below0
<1> QED
  BY <1>2 DEF T

\* A number that is written in hexadecimal has hexadecimal digits, and is read as itself.
LEMMA NumeralRead ==
  ASSUME NEW v \in Nat
  PROVE  Range(Text!Numeral(16, v)) \subseteq Chars /\ Text!Value(16, Text!Numeral(16, v)) = v
<1> DEFINE g == CHOOSE d : Hex(d)
           s == Text!Numeral(16, v)
           n == Len(g[v])
<1>1. Hex(g)
  BY HexExists
<1>2. s = Text!Reverse(g[v])
  BY NumeralIs
<1> HIDE DEF g, s
<1>3. g[v] \in Seq(Chars) /\ n \in Nat
  BY <1>1, HexType
<1>4. s = [i \in 1 .. n |-> g[v][(n - i) + 1]]
  BY <1>2 DEF Text!Reverse
<1> HIDE DEF n
<1>5. /\ DOMAIN s = 1 .. n /\ \A i \in 1 .. n : s[i] = g[v][(n - i) + 1]
  BY <1>4
<1>6. Range(s) \subseteq Chars
  <2>1. ASSUME NEW i \in 1 .. n
        PROVE  s[i] \in Chars
    <3>1. (n - i) + 1 \in 1 .. n
      BY <1>3
    <3>2. (n - i) + 1 \in 1 .. Len(g[v])
      BY <3>1 DEF n
    <3>3. g[v][(n - i) + 1] \in Chars
      BY <1>3, <3>2
    <3> QED
      BY <1>5, <3>3
  <2> QED
    BY <1>5, <2>1 DEF Range
<1>7. Text!Value(16, s) = v
  <2>1. Text!Value(16, s) = (CHOOSE f : Evals(f, s, n))[1 .. n]
    BY <1>5, ValueIs
  <2> DEFINE f == CHOOSE f : Evals(f, s, n)
  <2>2. Evals(f, s, n)
    BY <1>3, EvalsExist
  <2>3. Text!Value(16, s) = f[1 .. n]
    BY <2>1
  <2> HIDE DEF f
  <2>4. n \in 0 .. n /\ Spells(g, v, s, n)
    BY <1>3, <1>5 DEF Spells, n
  <2>5. f[1 .. n] = v
    BY <1>1, <1>3, <2>2, <2>4, SpelledIsRead
  <2> QED
    BY <2>3, <2>5
<1> QED
  BY <1>6, <1>7 DEF s

-----------------------------------------------------------------------------
(* The OS's log.                                                           *)

\* The sizes each name was asked for with, in the maps of a list of records.
AskedIn(R) == [n \in Names |-> SizesAt(R, n)]

OurLine(asked, gone, line) ==
  \E size \in Asked : /\ line = OsLine(line.name, line.addr, size)
                      /\ line.name \in gone \/ size \in asked[line.name]
HasLine(log, n) == \E k \in DOMAIN log : log[k].words >= 4 /\ log[k].name = n
LogOf(asked, gone, log, reg) ==
  /\ gone \subseteq Names /\ log \in Seq(Range(log))
  /\ \A k \in DOMAIN log : log[k].words >= 4 /\ log[k].name \in Names =>
       OurLine(asked, gone, log[k])
  /\ \A n \in Names : reg[n] > 0 \/ n \in gone \/ asked[n] # {} => HasLine(log, n)

LEMMA AskedIs ==
  FileInv => \A n \in Names : SizesAsked(n) = AskedIn(Records)[n]
<1> SUFFICES ASSUME FileInv, NEW n \in Names
             PROVE  SizesAsked(n) = SizesAt(Records, n)
  BY DEF AskedIn
<1>1. DOMAIN Records = DOMAIN file /\ \A k \in DOMAIN file : Records[k] = file[k].rec
  BY RecordsAre
<1>2. Named(Records) = OkMaps(Records)
  BY RecordsTell, NamedAre
<1>3. {j \in DOMAIN file : MapOk(file[j].rec) /\ file[j].rec.name = n} = AtName(Records, n)
  BY <1>1, <1>2 DEF AtName, OkMaps
<1>4. \A k \in AtName(Records, n) : Records[k].size = file[k].rec.size
  BY <1>1, <1>2 DEF AtName, OkMaps
<1> QED
  BY <1>3, <1>4 DEF SizesAsked, SizesAt

LEMMA LogInvIs ==
  FileInv => (LogInv <=> LogOf(AskedIn(Records), lost, osLog, region))
<1> SUFFICES ASSUME FileInv
             PROVE  LogInv <=> LogOf(AskedIn(Records), lost, osLog, region)
  OBVIOUS
<1>1. \A n \in Names : SizesAsked(n) = AskedIn(Records)[n]
  BY AskedIs
<1>2. \A line : line.name \in Names => (ByUs(line) <=> OurLine(AskedIn(Records), lost, line))
  BY <1>1 DEF ByUs, OurLine
<1> QED
  BY <1>1, <1>2 DEF LogInv, LogOf, HasLine

\* What is asked for grows, and what the OS holds is dropped, but for some names.
AsksMore(asked, more, names) ==
  \A m \in Names : asked[m] \subseteq more[m] /\ (more[m] = asked[m] \/ m \in names)
HoldsLess(reg, now, names) ==
  \A m \in Names : /\ reg[m] \in Nat /\ now[m] \in Nat
                   /\ now[m] = 0 \/ reg[m] > 0 \/ m \in names

LEMMA LogKept ==
  ASSUME NEW asked, NEW gone, NEW log, NEW reg, LogOf(asked, gone, log, reg),
         NEW more, NEW now, NEW names, \A n \in names : HasLine(log, n),
         AsksMore(asked, more, names), HoldsLess(reg, now, {})
  PROVE  LogOf(more, gone, log, now)
<1> USE DEF AsksMore, HoldsLess
<1>1. ASSUME NEW k \in DOMAIN log, log[k].words >= 4, log[k].name \in Names
      PROVE  OurLine(more, gone, log[k])
  <2>1. OurLine(asked, gone, log[k])
    BY <1>1 DEF LogOf
  <2> QED
    BY <1>1, <2>1 DEF OurLine
<1>2. ASSUME NEW n \in Names, now[n] > 0 \/ n \in gone \/ more[n] # {}
      PROVE  HasLine(log, n)
  <2>1. now[n] > 0 => reg[n] > 0
    OBVIOUS
  <2> QED
    BY <1>2, <2>1 DEF LogOf
<1> QED
  BY <1>1, <1>2 DEF LogOf

LEMMA OsLineIs ==
  ASSUME NEW n, NEW addr, NEW size
  PROVE  LET line == OsLine(n, addr, size)
         IN  /\ line.words = 7 /\ line.name = n /\ line.addr = addr
             /\ line = OsLine(line.name, line.addr, size)
<1> DEFINE line == OsLine(n, addr, size)
<1>1. line.words = 7 /\ line.name = n /\ line.addr = addr
  BY DEF OsLine
<1> HIDE DEF line
<1>2. line = OsLine(line.name, line.addr, size)
  <2>1. line = OsLine(n, addr, size)
    BY DEF line
  <2> QED
    BY <1>1, <2>1
<1> QED
  BY <1>1, <1>2 DEF line

\* A line more.
LEMMA LogMore ==
  ASSUME NEW asked, NEW gone, NEW log, NEW reg, LogOf(asked, gone, log, reg),
         NEW n \in Names, NEW addr, NEW size \in Asked,
         NEW more, NEW lose, lose \in {gone, gone \cup {n}}, n \in lose \/ size \in more[n],
         NEW now, AsksMore(asked, more, {n}), HoldsLess(reg, now, {n})
  PROVE  LogOf(more, lose, Append(log, OsLine(n, addr, size)), now)
<1> USE DEF AsksMore, HoldsLess
<1> DEFINE line == OsLine(n, addr, size)
           z == Append(log, line)
           l == Len(log) + 1
<1>1. /\ line.words = 7 /\ line.name = n /\ line = OsLine(line.name, line.addr, size)
  BY OsLineIs
<1> HIDE DEF line
<1>2. log \in Seq(Range(log)) /\ gone \subseteq Names
  BY DEF LogOf
<1>3. /\ DOMAIN z = DOMAIN log \cup {l} /\ z[l] = line
      /\ \A k \in DOMAIN log : z[k] = log[k]
      /\ DOMAIN log = 1 .. Len(log) /\ Len(log) \in Nat
  BY <1>2
<1>4. z \in Seq(Range(z))
  <2>1. DOMAIN z = 1 .. l /\ l \in Nat
    BY <1>3
  <2> DEFINE X == Range(log) \cup {line}
  <2>2. log \in Seq(X) /\ line \in X
    <3>1. Range(log) \subseteq X
      OBVIOUS
    <3> HIDE DEF X
    <3>2. log \in Seq(X)
      BY <1>2, <3>1
    <3> QED
      BY <3>2 DEF X
  <2> HIDE DEF X
  <2>3. z \in Seq(X) /\ Len(z) = l
    BY <2>2
  <2>4. z = [k \in 1 .. l |-> z[k]]
    <3> HIDE DEF z, l
    <3> QED
      BY <2>3
  <2>5. \A k \in 1 .. l : z[k] \in Range(z)
    BY <2>1 DEF Range
  <2> HIDE DEF z, l
  <2> QED
    BY <2>1, <2>4, <2>5, ASeq
<1> HIDE DEF z, l
<1>5. ASSUME NEW k \in DOMAIN z, z[k].words >= 4, z[k].name \in Names
      PROVE  OurLine(more, lose, z[k])
  <2>1. CASE k = l
    BY <1>1, <1>3, <2>1 DEF OurLine
  <2>2. CASE k \in DOMAIN log
    <3>1. z[k] = log[k] /\ OurLine(asked, gone, log[k])
      BY <1>3, <1>5, <2>2 DEF LogOf
    <3> QED
      BY <1>5, <3>1 DEF OurLine
  <2> QED
    BY <1>3, <2>1, <2>2
<1>6. ASSUME NEW m \in Names, now[m] > 0 \/ m \in lose \/ more[m] # {}
      PROVE  HasLine(z, m)
  <2>1. CASE m = n
    <3>1. l \in DOMAIN z /\ z[l].words >= 4 /\ z[l].name = m
      BY <1>1, <1>3, <2>1
    <3> QED
      BY <3>1 DEF HasLine
  <2>2. CASE m # n
    <3>1. reg[m] > 0 \/ m \in gone \/ asked[m] # {}
      BY <1>6, <2>2
    <3>2. HasLine(log, m)
      BY <3>1 DEF LogOf
    <3> QED
      BY <1>3, <3>2 DEF HasLine
  <2> QED
    BY <2>1, <2>2
<1>7. lose \subseteq Names
  BY <1>2
<1> QED
  BY <1>4, <1>5, <1>6, <1>7 DEF LogOf, z, line

LEMMA LogInit == Init => LogInv
<1> SUFFICES ASSUME Init PROVE LogInv
  OBVIOUS
<1>1. FileInv /\ DOMAIN Records = {}
  <2>1. FileInv
    BY FileInit
  <2>2. DOMAIN Records = DOMAIN file /\ file = << >>
    BY <2>1, RecordsAre DEF Init
  <2> QED
    BY <2>1, <2>2
<1>2. \A n \in Names : AskedIn(Records)[n] = {}
  BY <1>1 DEF AskedIn, SizesAt, AtName, Named, OkMaps
<1>3. osLog = OldLines /\ lost = {} /\ \A n \in Names : region[n] = 0
  BY DEF Init
<1>4. LogOf(AskedIn(Records), lost, osLog, region)
  BY <1>2, <1>3, LogAssumption DEF LogOf
<1> QED
  BY <1>1, <1>4, LogInvIs

\* The invariant of the next state.
LEMMA LogInvNext ==
  ASSUME FileInv', LogOf(AskedIn(Records'), lost', osLog', region')
  PROVE  LogInv'
<1>1. (FileInv => (LogInv <=> LogOf(AskedIn(Records), lost, osLog, region)))'
  BY LogInvIs, PTL
<1>2. LogOf(AskedIn(Records), lost, osLog, region)' = LogOf(AskedIn(Records'), lost', osLog', region')
  BY DEF LogOf, AskedIn, SizesAt, AtName, Named, OkMaps, HasLine, OurLine, OsLine
<1> QED
  BY <1>1, <1>2

\* The same maps, the same sizes.
LEMMA AskedSame ==
  ASSUME NEW R, NEW Q, OkMaps(Q) = OkMaps(R), Begins(R, Q)
  PROVE  AskedIn(Q) = AskedIn(R)
<1>1. \A n \in OkMaps(R) : Q[n] = R[n]
  BY DEF Begins, OkMaps
<1>2. Named(Q) = Named(R) /\ Named(R) \subseteq OkMaps(R)
  BY <1>1 DEF Named
<1>3. \A name : AtName(Q, name) = AtName(R, name) /\ AtName(R, name) \subseteq OkMaps(R)
  BY <1>1, <1>2 DEF AtName
<1>4. \A name : SizesAt(Q, name) = SizesAt(R, name)
  BY <1>1, <1>3 DEF SizesAt
<1> QED
  BY <1>4 DEF AskedIn

LEMMA AskedMore ==
  ASSUME NEW R, MapsTell(R), NEW Q, MapsTell(Q), NEW m, NEW name \in Names, NEW size,
         OneMap(R, Q, m, name, size)
  PROVE  \A x \in Names : AskedIn(Q)[x] = AskedIn(R)[x] \cup (IF x = name THEN {size} ELSE {})
<1>1. Named(R) = OkMaps(R) /\ Named(Q) = OkMaps(R) \cup {m} /\ m \notin OkMaps(R)
  BY NamedAre DEF OneMap
<1>2. /\ \A n \in OkMaps(R) : Q[n] = R[n]
      /\ Q[m].name = name /\ Q[m].size = size
  BY DEF OneMap
<1>3. AtName(Q, name) = AtName(R, name) \cup {m} /\ AtName(R, name) \subseteq OkMaps(R)
  BY <1>1, <1>2 DEF AtName
<1>4. SizesAt(Q, name) = SizesAt(R, name) \cup {size}
  BY <1>2, <1>3 DEF SizesAt
<1>5. ASSUME NEW x \in Names, x # name
      PROVE  SizesAt(Q, x) = SizesAt(R, x)
  <2>1. AtName(Q, x) = AtName(R, x) /\ AtName(R, x) \subseteq OkMaps(R)
    BY <1>1, <1>2, <1>5 DEF AtName
  <2> QED
    BY <1>2, <2>1 DEF SizesAt
<1> QED
  BY <1>4, <1>5 DEF AskedIn

\* A step in which no map is recorded, nothing is logged and the OS only drops regions.
LEMMA LogFrame ==
  ASSUME Types, Types', FileInv, FileInv', LogInv, UNCHANGED <<lost, osLog>>,
         OkMaps(Records') = OkMaps(Records), Begins(Records, Records'),
         \A n \in Names : region'[n] \in {0, region[n]}
  PROVE  LogInv'
<1>1. AskedIn(Records') = AskedIn(Records)
  BY AskedSame
<1>2. LogOf(AskedIn(Records), lost, osLog, region)
  BY LogInvIs
<1>3. HoldsLess(region, region', {})
  BY DEF Types, HoldsLess
<1>4. LogOf(AskedIn(Records), lost, osLog, region')
  <2> DEFINE asked == AskedIn(Records)
  <2>1. AsksMore(asked, asked, {})
    BY DEF AsksMore
  <2> HIDE DEF asked
  <2> QED
    BY <1>2, <1>3, <2>1, LogKept DEF asked
<1> QED
  BY <1>1, <1>4, LogInvNext

-----------------------------------------------------------------------------
(* What is mapped the OS has.                                              *)

LEMMA KeptInit == Init => KeptInv
BY DEF Init, KeptInv, Mapped, Nothing

\* A step after which no process has more mapped, and the OS keeps what is mapped.
LEMMA KeptFrame ==
  ASSUME KeptInv, up' \subseteq up, \A q \in up' : Mapped(q)' \subseteq Mapped(q),
         \A q \in up' : \A n \in Mapped(q)' : region'[n] = region[n]
  PROVE  KeptInv'
<1>1. ASSUME NEW q \in up', NEW n \in Mapped(q)'
      PROVE  region'[n] > 0
  <2>1. region[n] > 0 /\ region'[n] = region[n]
    BY DEF KeptInv
  <2> QED
    BY <2>1
<1> QED
  BY <1>1 DEF KeptInv

LEMMA KeptEnds ==
  ASSUME Types, KeptInv, NEW p \in Procs, Ends(p)
  PROVE  KeptInv'
<1>1. OsFrees /\ mapped' = mapped /\ up' \subseteq up /\ up \subseteq Procs
  BY DEF Ends, Types
<1>2. \A q : Mapped(q)' = Mapped(q)
  BY <1>1 DEF Mapped
<1>3. \A q \in up' : \A n \in Mapped(q)' : region'[n] = region[n]
  BY <1>1, FreesIs DEF Mapped
<1> QED
  BY <1>1, <1>2, <1>3, KeptFrame

LEMMA KeptStep == Types /\ KeptInv /\ [Next]_vars => KeptInv'
<1> SUFFICES ASSUME Types, KeptInv, [Next]_vars
             PROVE  KeptInv'
  OBVIOUS
<1>0. up \subseteq Procs
  BY DEF Types
<1>1. ASSUME NEW p \in Procs, NEW n \in Names, NEW size \in Asked, Map(p, n, size)
      PROVE  KeptInv'
  <2>1. /\ Mapped(p)' = Mapped(p) \cup {n} /\ \A q \in Procs \ {p} : Mapped(q)' = Mapped(q)
        /\ up' = up
    BY <1>1, MapIs DEF Map
  <2>2. /\ region'[n] = (IF region[n] = 0 THEN size ELSE region[n])
        /\ \A m \in Names \ {n} : region'[m] = region[m]
    BY <1>1, MostIs
  <2>4. region[n] \in Nat /\ size \in Nat /\ size > 0
    BY FleetAssumption DEF Types
  <2>3. ASSUME NEW q \in up, NEW m \in Mapped(q)'
        PROVE  region'[m] > 0
    <3>1. CASE m = n
      BY <2>2, <2>4, <3>1
    <3>2. CASE m # n
      <4>1. m \in Mapped(q) /\ m \in Names
        BY <1>0, <2>1, <3>2 DEF Mapped
      <4> QED
        BY <2>2, <3>2, <4>1 DEF KeptInv
    <3> QED
      BY <3>1, <3>2
  <2> QED
    BY <2>1, <2>3 DEF KeptInv
<1>2. ASSUME \A q \in Procs : Mapped(q)' = Mapped(q), region' = region, up' = up
      PROVE  KeptInv'
  BY <1>0, <1>2, KeptFrame
<1>3. ASSUME NEW p \in Procs, NEW n \in Names, NEW size \in Asked, MapAgain(p, n, size)
      PROVE  KeptInv'
  <2>1. \A q \in Procs : Mapped(q)' = Mapped(q)
    BY <1>3, MapAgainIs
  <2> QED
    BY <1>2, <1>3, <2>1 DEF MapAgain
<1>4. ASSUME NEW p \in Procs, NEW n \in Names, Unmap(p, n)
      PROVE  KeptInv'
  <2>1. (\A q \in Procs : Mapped(q)' \subseteq Mapped(q)) /\ OsFrees /\ up' = up
    BY <1>4, UnmapIs DEF Unmap
  <2>2. \A q \in up' : \A x \in Mapped(q)' : region'[x] = region[x]
    BY <2>1, FreesIs DEF Mapped
  <2> QED
    BY <1>0, <2>1, <2>2, KeptFrame
<1>5. ASSUME NEW p \in Procs, NEW n \in Names, UnmapRefused(p, n)
      PROVE  KeptInv'
  <2>1. \A q \in Procs : Mapped(q)' = Mapped(q)
    BY <1>5, RefusedIs
  <2> QED
    BY <1>2, <1>5, <2>1 DEF UnmapRefused, osVars
<1>6. ASSUME UNCHANGED <<mapped, region, up>>
      PROVE  KeptInv'
  <2>1. \A q \in Procs : Mapped(q)' = Mapped(q)
    BY <1>6 DEF Mapped
  <2> QED
    BY <1>2, <1>6, <2>1
<1>7. ASSUME NEW p \in Procs, MapFails(p) \/ UnmapUnknown(p)
      PROVE  KeptInv'
  BY <1>6, <1>7 DEF MapFails, UnmapUnknown, osVars
<1>8. ASSUME NEW p \in Procs, Exit(p) \/ Kill(p)
      PROVE  KeptInv'
  BY <1>8, KeptEnds DEF Exit, Kill
<1>9. ASSUME NEW p \in Procs, NEW n \in Names, KillInMap(p, n)
      PROVE  KeptInv'
  BY <1>9, KeptEnds DEF KillInMap
<1>10. ASSUME NEW p \in Procs, Start(p)
       PROVE  KeptInv'
  <2>1. /\ up' = up \cup {p} /\ region' = region /\ mapped' = [mapped EXCEPT ![p] = Nothing]
    BY <1>10 DEF Start
  <2>2. /\ Mapped(p)' = {} /\ \A q \in Procs \ {p} : Mapped(q)' = Mapped(q)
    BY <2>1 DEF Types, Mapped, Nothing
  <2>3. \A q \in up' : \A x \in Mapped(q)' : q \in up /\ x \in Mapped(q)
    BY <1>0, <2>1, <2>2
  <2> QED
    BY <2>1, <2>3 DEF KeptInv
<1>11. ASSUME Tick \/ StepBack \/ UNCHANGED vars
       PROVE  KeptInv'
  BY <1>6, <1>11 DEF Tick, StepBack, vars, osVars
<1> QED
  BY <1>1, <1>3, <1>4, <1>5, <1>7, <1>8, <1>9, <1>10, <1>11 DEF Next

-----------------------------------------------------------------------------
LEMMA LogMap ==
  ASSUME Types, Types', FileInv, FileInv', LogInv,
         NEW p \in Procs, NEW n \in Names, NEW size \in Asked, Map(p, n, size)
  PROVE  LogInv'
<1> DEFINE asked == AskedIn(Records)
           more  == AskedIn(Records')
<1>1. \A x \in Names : more[x] = asked[x] \cup (IF x = n THEN {size} ELSE {})
  <2>1. /\ MapsTell(Records) /\ MapsTell(Records')
        /\ OneMap(Records, Records', Len(file) + 1, n, size)
    BY MapIs, MapRecorded DEF Map
  <2> QED
    BY <2>1, AskedMore
<1>2. LogOf(asked, lost, osLog, region)
  BY LogInvIs
<1> HIDE DEF asked, more
<1>3. /\ lost' = lost /\ size \in Nat
      /\ \A x \in Names : region[x] \in Nat /\ region'[x] \in Nat
      /\ \A x \in Names \ {n} : region'[x] = region[x]
  <2>1. \A x \in Names \ {n} : region'[x] = region[x]
    BY MapIs, MostIs
  <2> QED
    BY <2>1, FleetAssumption DEF Map, Types
<1>4. CASE region[n] = 0
  <2>1. osLog' = Append(osLog, OsLine(n, Free(p), size))
    BY <1>4 DEF Map, OsMaps
  <2>2. size \in more[n]
    BY <1>1
  <2>3. AsksMore(asked, more, {n})
    <3> SUFFICES ASSUME NEW x \in Names
                 PROVE  asked[x] \subseteq more[x] /\ (more[x] = asked[x] \/ x \in {n})
      BY DEF AsksMore
    <3>1. more[x] = asked[x] \cup (IF x = n THEN {size} ELSE {})
      BY <1>1
    <3> QED
      BY <3>1
  <2>6. HoldsLess(region, region', {n})
    <3> SUFFICES ASSUME NEW x \in Names
                 PROVE  /\ region[x] \in Nat /\ region'[x] \in Nat
                        /\ region'[x] = 0 \/ region[x] > 0 \/ x \in {n}
      BY DEF HoldsLess
    <3>1. region[x] \in Nat /\ region'[x] \in Nat
      BY <1>3
    <3>2. CASE x = n
      BY <3>1, <3>2
    <3>3. CASE x # n
      <4>1. region'[x] = region[x]
        BY <1>3, <3>3
      <4> QED
        BY <3>1, <4>1
    <3> QED
      BY <3>2, <3>3
  <2>4. lost \in {lost, lost \cup {n}}
    OBVIOUS
  <2>5. LogOf(more, lost, Append(osLog, OsLine(n, Free(p), size)), region')
    BY <1>2, <2>2, <2>3, <2>4, <2>6, LogMore
  <2> QED
    BY <1>3, <2>1, <2>5, LogInvNext DEF more
<1>5. CASE region[n] # 0
  <2>1. osLog' = osLog /\ region' = region
    BY <1>5 DEF Map, OsMaps
  <2>2. HasLine(osLog, n)
    BY <1>2, <1>3, <1>5 DEF LogOf
  <2>3. AsksMore(asked, more, {n})
    <3> SUFFICES ASSUME NEW x \in Names
                 PROVE  asked[x] \subseteq more[x] /\ (more[x] = asked[x] \/ x \in {n})
      BY DEF AsksMore
    <3>1. more[x] = asked[x] \cup (IF x = n THEN {size} ELSE {})
      BY <1>1
    <3> QED
      BY <3>1
  <2>6. HoldsLess(region, region, {})
    <3> SUFFICES ASSUME NEW x \in Names
                 PROVE  /\ region[x] \in Nat /\ region[x] \in Nat
                        /\ region[x] = 0 \/ region[x] > 0 \/ x \in {}
      BY DEF HoldsLess
    <3>1. region[x] \in Nat
      BY <1>3
    <3> QED
      BY <3>1
  <2>4. \A x \in {n} : HasLine(osLog, x)
    BY <2>2
  <2>5. LogOf(more, lost, osLog, region)
    BY <1>2, <2>3, <2>4, <2>6, LogKept
  <2> QED
    BY <1>3, <2>1, <2>5, LogInvNext DEF more
<1> QED
  BY <1>4, <1>5

LEMMA LogMapAgain ==
  ASSUME Types, Types', FileInv, FileInv', LogInv, KeptInv,
         NEW p \in Procs, NEW n \in Names, NEW size \in Asked, MapAgain(p, n, size)
  PROVE  LogInv'
<1> DEFINE asked == AskedIn(Records)
           more  == AskedIn(Records')
<1>1. \A x \in Names : more[x] = asked[x] \cup (IF x = n THEN {size} ELSE {})
  <2>1. /\ OnMap(p, n, mapped[p][n].addr, size) /\ mapped[p][n].addr \in Nat
        /\ UNCHANGED <<clock, stepped>>
    BY MapAgainIs DEF MapAgain
  <2>2. /\ MapsTell(Records) /\ MapsTell(Records')
        /\ OneMap(Records, Records', Len(file) + 1, n, size)
    BY <2>1, MapRecorded
  <2> QED
    BY <2>2, AskedMore
<1>2. LogOf(asked, lost, osLog, region)
  BY LogInvIs
<1> HIDE DEF asked, more
<1>3. lost' = lost /\ osLog' = osLog /\ region' = region /\ region[n] > 0
  BY MapAgainIs DEF MapAgain, KeptInv
<1>4. HasLine(osLog, n)
  BY <1>2, <1>3 DEF LogOf
<1>5. AsksMore(asked, more, {n})
  <2> SUFFICES ASSUME NEW x \in Names
               PROVE  asked[x] \subseteq more[x] /\ (more[x] = asked[x] \/ x \in {n})
    BY DEF AsksMore
  <2>1. more[x] = asked[x] \cup (IF x = n THEN {size} ELSE {})
    BY <1>1
  <2> QED
    BY <2>1
<1>6. HoldsLess(region, region, {})
  <2>1. \A x \in Names : region[x] \in Nat
    BY DEF Types
  <2>2. \A x \in Names : region[x] = 0 \/ region[x] > 0
    BY <2>1
  <2> QED
    BY <2>1, <2>2 DEF HoldsLess
<1>7. \A x \in {n} : HasLine(osLog, x)
  BY <1>4
<1>8. LogOf(more, lost, osLog, region)
  BY <1>2, <1>5, <1>6, <1>7, LogKept
<1> QED
  BY <1>3, <1>8, LogInvNext DEF more

\* The step of a process that dies in a call.
LEMMA LogKill ==
  ASSUME Types, Types', FileInv, FileInv', LogInv,
         NEW p \in Procs, NEW n \in Names, KillInMap(p, n)
  PROVE  LogInv'
<1> DEFINE asked == AskedIn(Records)
           size == Max(Asked)
           more == lost \cup {n}
<1>1. AskedIn(Records') = asked
  <2>1. file' = file
    BY DEF KillInMap
  <2> QED
    BY <2>1, NothingWritten
<1>2. LogOf(asked, lost, osLog, region)
  BY LogInvIs
<1>3. size \in Asked
  <2>1. Asked \subseteq Int /\ IsFiniteSet(Asked) /\ Asked # {}
    BY LogAssumption, FleetAssumption
  <2> QED
    BY <2>1, MaxOf
<1>4. /\ osLog' = Append(osLog, OsLine(n, Free(p), size)) /\ lost' = more
      /\ \A x \in Names : region'[x] \in {0, region[x]}
  BY FreesIs DEF KillInMap, Ends
<1>5. AsksMore(asked, asked, {n})
  BY DEF AsksMore
<1>6. HoldsLess(region, region', {n})
  <2>1. \A x \in Names : region'[x] \in {0, region[x]}
    BY <1>4
  <2>2. \A x \in Names : region[x] \in Nat /\ region'[x] \in Nat
    BY DEF Types
  <2> QED
    BY <2>1, <2>2 DEF HoldsLess
<1>7. more \in {lost, lost \cup {n}} /\ n \in more
  OBVIOUS
<1> HIDE DEF asked, size, more
<1>8. LogOf(asked, more, Append(osLog, OsLine(n, Free(p), size)), region')
  BY <1>2, <1>3, <1>5, <1>6, <1>7, LogMore DEF more
<1> QED
  BY <1>1, <1>4, <1>8, LogInvNext

LEMMA LogStep == Types /\ FileInv /\ KeptInv /\ LogInv /\ [Next]_vars => LogInv'
<1> SUFFICES ASSUME Types, FileInv, KeptInv, LogInv, [Next]_vars
             PROVE  LogInv'
  OBVIOUS
<1>0. FileInv' /\ Types'
  BY FileStep, TypesStep
<1>1. ASSUME NEW p \in Procs, NEW n \in Names, NEW size \in Asked, Map(p, n, size)
      PROVE  LogInv'
  BY <1>0, <1>1, LogMap
<1>2. ASSUME NEW p \in Procs, NEW n \in Names, NEW size \in Asked, MapAgain(p, n, size)
      PROVE  LogInv'
  BY <1>0, <1>2, LogMapAgain
<1>3. ASSUME NEW p \in Procs, NEW r, Write(p, <<r>>), Shape(Stamped(p, r)),
             ~MapOk(Stamped(p, r)), UNCHANGED <<clock, stepped, lost, osLog>>,
             \A x \in Names : region'[x] \in {0, region[x]}
      PROVE  LogInv'
  <2>1. OkMaps(Records') = OkMaps(Records) /\ Begins(Records, Records')
    BY <1>3, WritesNoMap
  <2> QED
    BY <1>0, <1>3, <2>1, LogFrame
<1>4. ASSUME NEW p \in Procs, NEW n \in Names, Unmap(p, n)
      PROVE  LogInv'
  <2>1. /\ Write(p, <<UnmapRecord(mapped[p][n].addr, 0)>>)
        /\ UNCHANGED <<clock, stepped, lost, osLog>> /\ OsFrees
    BY <1>4 DEF Unmap, OnUnmap, Record
  <2>2. mapped[p][n].addr \in Nat
    BY <1>4, UnmapIs
  <2>3. LET r == Stamped(p, UnmapRecord(mapped[p][n].addr, 0)) IN Shape(r) /\ ~MapOk(r)
    BY <2>2, UnmapRecordShape
  <2>4. \A x \in Names : region'[x] \in {0, region[x]}
    BY <2>1, FreesIs
  <2> QED
    BY <1>3, <2>1, <2>3, <2>4
<1>5. ASSUME NEW p \in Procs, NEW n \in Names, UnmapRefused(p, n)
      PROVE  LogInv'
  <2>1. /\ Write(p, <<UnmapRecord(mapped[p][n].addr, -1)>>)
        /\ UNCHANGED <<clock, stepped, lost, osLog, region>>
    BY <1>5 DEF UnmapRefused, OnUnmap, Record, osVars
  <2>2. mapped[p][n].addr \in Nat
    BY <1>5, RefusedIs
  <2>3. LET r == Stamped(p, UnmapRecord(mapped[p][n].addr, -1)) IN Shape(r) /\ ~MapOk(r)
    BY <2>2, UnmapRecordShape
  <2>4. \A x \in Names : region'[x] \in {0, region[x]}
    BY <2>1
  <2> QED
    BY <1>3, <2>1, <2>3, <2>4
<1>6. ASSUME NEW p \in Procs, MapFails(p)
      PROVE  LogInv'
  <2> DEFINE z == [MapRecord(p, NULL, NULL, Max(Asked)) EXCEPT !.ret = -1]
  <2>1. /\ Write(p, <<z>>) /\ UNCHANGED <<clock, stepped, lost, osLog, region>>
    BY <1>6 DEF MapFails, osVars, Record
  <2>2. Shape(Stamped(p, z)) /\ ~MapOk(Stamped(p, z))
    BY MapFailsShape
  <2>3. \A x \in Names : region'[x] \in {0, region[x]}
    BY <2>1
  <2> HIDE DEF z
  <2> QED
    BY <1>3, <2>1, <2>2, <2>3
<1>7. ASSUME NEW p \in Procs, UnmapUnknown(p)
      PROVE  LogInv'
  <2>1. /\ Write(p, <<UnmapRecord(Free(p), -1)>>)
        /\ UNCHANGED <<clock, stepped, lost, osLog, region>>
    BY <1>7 DEF UnmapUnknown, osVars, Record
  <2>2. LET r == Stamped(p, UnmapRecord(Free(p), -1)) IN Shape(r) /\ ~MapOk(r)
    BY FreeIs, UnmapRecordShape
  <2>3. \A x \in Names : region'[x] \in {0, region[x]}
    BY <2>1
  <2> QED
    BY <1>3, <2>1, <2>2, <2>3
<1>8. ASSUME NEW p \in Procs, Exit(p)
      PROVE  LogInv'
  <2>1. /\ UNCHANGED <<clock, stepped, lost, osLog>> /\ OsFrees
        /\ Write(p, ExitLines(p)) \/ file' = file
    BY <1>8 DEF Exit, Ends, history
  <2>2. OkMaps(Records') = OkMaps(Records) /\ Begins(Records, Records')
    BY <2>1, ExitNoMap, NothingWritten
  <2>3. \A x \in Names : region'[x] \in {0, region[x]}
    BY <2>1, FreesIs
  <2> QED
    BY <1>0, <2>1, <2>2, <2>3, LogFrame
<1>9. ASSUME UNCHANGED <<file, lost, osLog>>, \A x \in Names : region'[x] \in {0, region[x]}
      PROVE  LogInv'
  <2>1. OkMaps(Records') = OkMaps(Records) /\ Begins(Records, Records')
    BY <1>9, NothingWritten
  <2> QED
    BY <1>0, <1>9, <2>1, LogFrame
<1>10. ASSUME NEW p \in Procs, Kill(p)
       PROVE  LogInv'
  <2>1. UNCHANGED <<file, lost, osLog>> /\ OsFrees
    BY <1>10 DEF Kill, Ends, history
  <2> QED
    BY <1>9, <2>1, FreesIs
<1>11. ASSUME NEW p \in Procs, Start(p)
       PROVE  LogInv'
  BY <1>9, <1>11 DEF Start, history
<1>12. ASSUME NEW p \in Procs, NEW n \in Names, KillInMap(p, n)
       PROVE  LogInv'
  BY <1>0, <1>12, LogKill
<1>13. ASSUME Tick \/ StepBack \/ UNCHANGED vars
       PROVE  LogInv'
  BY <1>9, <1>13 DEF Tick, StepBack, vars, osVars, history
<1> QED
  BY <1>1, <1>2, <1>4, <1>5, <1>6, <1>7, <1>8, <1>10, <1>11, <1>12, <1>13 DEF Next

\* What parse_os_log reads of a log.
LogRows(log) == {k \in DOMAIN log : log[k].words >= 4}
SizeIsHex(log, hex) == hex \/ ColIsHex({log[k].req : k \in LogRows(log)})
AlignIsHex(log) == ColIsHex({log[k].aligned : k \in LogRows(log)})
LogRead(log, hex) ==
  {k \in LogRows(log) : /\ ~Bad(log[k].req, SizeIsHex(log, hex))
                        /\ ~Bad(log[k].aligned, AlignIsHex(log))}
LinesOf(log, hex, n) == {k \in LogRead(log, hex) : log[k].name = n}

LEMMA OsRegionsAre ==
  ASSUME NEW log, NEW hex
  PROVE  /\ DOMAIN OsRegions(log, hex) = {log[k].name : k \in LogRead(log, hex)}
         /\ \A n \in {log[k].name : k \in LogRead(log, hex)} :
              /\ OsRegions(log, hex)[n].req =
                   Max({ToInt(log[k].req, SizeIsHex(log, hex)) : k \in LinesOf(log, hex, n)})
              /\ OsRegions(log, hex)[n].aligned =
                   Max({ToInt(log[k].aligned, AlignIsHex(log)) : k \in LinesOf(log, hex, n)})
BY DEF OsRegions, LogRows, SizeIsHex, AlignIsHex, LogRead, LinesOf

LEMMA RoundUpIs == \A size \in Nat : RoundUp(size) \in Nat
<1> SUFFICES ASSUME NEW size \in Nat PROVE RoundUp(size) \in Nat
  OBVIOUS
<1>1. Granule \in Nat \ {0}
  BY FleetAssumption
<1>2. (size + Granule - 1) \div Granule \in Nat
  BY <1>1
<1> DEFINE q == (size + Granule - 1) \div Granule
<1>3. q \in Nat
  BY <1>2
<1> HIDE DEF q
<1>4. q * Granule \in Nat
  BY <1>1, <1>3
<1> QED
  BY <1>4 DEF RoundUp, q

\* The columns of a line the OS has written.
LEMMA LineColumns ==
  ASSUME NEW n, NEW addr, NEW size \in Nat
  PROVE  LET line == OsLine(n, addr, size)
         IN  /\ ~line.req.prefix /\ Range(line.req.digits) \subseteq Chars
             /\ line.aligned.prefix /\ Range(line.aligned.digits) \subseteq Chars
             /\ Text!Value(16, line.req.digits) = size
             /\ Text!Value(16, line.aligned.digits) = RoundUp(size)
<1> DEFINE d == Text!Numeral(16, size)
           e == Text!Numeral(16, RoundUp(size))
<1>1. Range(d) \subseteq Chars /\ Text!Value(16, d) = size
  BY NumeralRead
<1>2. Range(e) \subseteq Chars /\ Text!Value(16, e) = RoundUp(size)
  BY NumeralRead, RoundUpIs
<1>3. LET line == OsLine(n, addr, size)
      IN  /\ line.req.prefix = FALSE /\ line.req.digits = d
          /\ line.aligned.prefix = TRUE /\ line.aligned.digits = e
  BY DEF OsLine
<1> HIDE DEF d, e
<1> QED
  BY <1>1, <1>2, <1>3

\* A token of digits is read if none is above the base.
LEMMA ReadIs ==
  ASSUME NEW t, NEW hex, hex \in BOOLEAN, Range(t.digits) \subseteq Chars
  PROVE  /\ hex \/ t.prefix => ~Bad(t, hex)
         /\ ~t.prefix /\ HexDigit \cap Range(t.digits) = {} => ~Bad(t, hex)
<1>1. Chars = {Text!Digit[n] : n \in 1 .. 16}
  BY CharsAre
<1>2. Chars \ HexDigit \subseteq {Text!Digit[n] : n \in 1 .. 10}
  BY CharsAre
<1>3. ASSUME hex \/ t.prefix
      PROVE  ~Bad(t, hex)
  <2>1. \A d \in Range(t.digits) : \E n \in 1 .. 16 : d = Text!Digit[n]
    BY <1>1
  <2> QED
    BY <1>3, <2>1 DEF Bad
<1>4. ASSUME ~t.prefix, HexDigit \cap Range(t.digits) = {}
      PROVE  ~Bad(t, hex)
  <2>1. CASE hex
    BY <1>3, <2>1
  <2>2. CASE ~hex
    <3>1. \A d \in Range(t.digits) : \E n \in 1 .. 10 : d = Text!Digit[n]
      BY <1>2, <1>4
    <3> QED
      BY <1>4, <2>2, <3>1 DEF Bad
  <2> QED
    BY <2>1, <2>2
<1> QED
  BY <1>3, <1>4

\* A line the OS has written is read, whatever the tool takes the sizes for.
LEMMA LineRead ==
  ASSUME NEW log, NEW hex \in BOOLEAN, NEW k \in DOMAIN log,
         NEW n, NEW addr, NEW size \in Nat, log[k] = OsLine(n, addr, size)
  PROVE  k \in LogRead(log, hex) /\ AlignIsHex(log)
<1>1. k \in LogRows(log)
  BY OsLineIs DEF LogRows
<1>2. /\ ~log[k].req.prefix /\ Range(log[k].req.digits) \subseteq Chars
      /\ log[k].aligned.prefix /\ Range(log[k].aligned.digits) \subseteq Chars
  BY LineColumns
<1>3. AlignIsHex(log)
  BY <1>1, <1>2 DEF AlignIsHex, ColIsHex
<1>4. ~Bad(log[k].aligned, AlignIsHex(log))
  <2>1. AlignIsHex(log) \in BOOLEAN
    BY DEF AlignIsHex, ColIsHex
  <2> QED
    BY <1>2, <1>3, <2>1, ReadIs
<1>5. ~Bad(log[k].req, SizeIsHex(log, hex))
  <2>1. SizeIsHex(log, hex) \in BOOLEAN
    BY DEF SizeIsHex, ColIsHex
  <2>2. CASE SizeIsHex(log, hex)
    BY <1>2, <2>1, <2>2, ReadIs
  <2>3. CASE ~SizeIsHex(log, hex)
    <3>1. HexDigit \cap Range(log[k].req.digits) = {}
      BY <1>1, <2>3 DEF SizeIsHex, ColIsHex
    <3> QED
      BY <1>2, <2>1, <3>1, ReadIs
  <2> QED
    BY <2>2, <2>3
<1> QED
  BY <1>1, <1>3, <1>4, <1>5 DEF LogRead

\* What the OS's log has of our names is read.
LEMMA OurNames ==
  ASSUME NEW asked, NEW gone, NEW log, NEW reg, LogOf(asked, gone, log, reg),
         NEW hex \in BOOLEAN, NEW n \in Names
  PROVE  /\ n \in DOMAIN OsRegions(log, hex) <=> HasLine(log, n)
         /\ n \in DOMAIN OsRegions(log, hex) => n \in gone \/ asked[n] # {}
         /\ asked[n] # {} => n \in DOMAIN OsRegions(log, hex)
<1>1. DOMAIN OsRegions(log, hex) = {log[k].name : k \in LogRead(log, hex)}
  BY OsRegionsAre
<1>2. ASSUME NEW k \in DOMAIN log, log[k].words >= 4, log[k].name = n
      PROVE  k \in LogRead(log, hex) /\ (n \in gone \/ asked[n] # {})
  <2>1. OurLine(asked, gone, log[k])
    BY <1>2 DEF LogOf
  <2>2. PICK size \in Asked : /\ log[k] = OsLine(log[k].name, log[k].addr, size)
                              /\ log[k].name \in gone \/ size \in asked[log[k].name]
    BY <2>1 DEF OurLine
  <2>3. size \in Nat
    BY FleetAssumption
  <2>4. k \in LogRead(log, hex)
    BY <2>2, <2>3, LineRead
  <2> QED
    BY <1>2, <2>2, <2>4
<1>3. \A k \in LogRead(log, hex) : k \in DOMAIN log /\ log[k].words >= 4
  BY DEF LogRead, LogRows
<1>4. n \in DOMAIN OsRegions(log, hex) <=> HasLine(log, n)
  BY <1>1, <1>2, <1>3 DEF HasLine
<1>5. n \in DOMAIN OsRegions(log, hex) => n \in gone \/ asked[n] # {}
  BY <1>1, <1>2, <1>3
<1>6. asked[n] # {} => HasLine(log, n)
  BY DEF LogOf
<1> QED
  BY <1>4, <1>5, <1>6

\* The values of a name that was always asked for with one size.
LEMMA OurValues ==
  ASSUME NEW asked, NEW log, NEW reg, LogOf(asked, {}, log, reg),
         NEW hex \in BOOLEAN, SizeIsHex(log, hex),
         NEW n \in Names, NEW s \in Nat, asked[n] = {s}
  PROVE  /\ OsRegions(log, hex)[n].req = s
         /\ OsRegions(log, hex)[n].aligned = RoundUp(s)
<1> DEFINE at == LinesOf(log, hex, n)
           req(k) == ToInt(log[k].req, SizeIsHex(log, hex))
           ali(k) == ToInt(log[k].aligned, AlignIsHex(log))
<1>1. n \in DOMAIN OsRegions(log, hex)
  BY OurNames
<1>2. /\ OsRegions(log, hex)[n].req = Max({req(k) : k \in at})
      /\ OsRegions(log, hex)[n].aligned = Max({ali(k) : k \in at})
  BY <1>1, OsRegionsAre
<1>3. at # {}
  <2>1. DOMAIN OsRegions(log, hex) = {log[k].name : k \in LogRead(log, hex)}
    BY OsRegionsAre
  <2>2. PICK k \in LogRead(log, hex) : log[k].name = n
    BY <1>1, <2>1
  <2> QED
    BY <2>2 DEF LinesOf
<1>4. ASSUME NEW k \in at
      PROVE  req(k) = s /\ ali(k) = RoundUp(s)
  <2>1. k \in DOMAIN log /\ log[k].words >= 4 /\ log[k].name = n
    BY DEF LinesOf, LogRead, LogRows
  <2>2. OurLine(asked, {}, log[k])
    BY <2>1 DEF LogOf
  <2>3. log[k] = OsLine(n, log[k].addr, s)
    BY <2>1, <2>2 DEF OurLine
  <2>4. /\ Text!Value(16, log[k].req.digits) = s
        /\ Text!Value(16, log[k].aligned.digits) = RoundUp(s)
    BY <2>3, LineColumns
  <2>5. AlignIsHex(log)
    BY <2>1, <2>3, LineRead
  <2> QED
    BY <2>4, <2>5 DEF ToInt
<1>5. {req(k) : k \in at} = {s} /\ {ali(k) : k \in at} = {RoundUp(s)}
  <2> HIDE DEF at, req, ali
  <2> QED
    BY <1>3, <1>4
<1>6. \A v \in Int : Max({v}) = v
  <2> TAKE v \in Int
  <2>1. IsFiniteSet({v})
    BY FS_Singleton
  <2>2. {v} \subseteq Int /\ {v} # {}
    OBVIOUS
  <2> QED
    BY <2>1, <2>2, MaxOf
<1>7. RoundUp(s) \in Int /\ s \in Int
  BY RoundUpIs
<1> QED
  BY <1>2, <1>5, <1>6, <1>7

LEMMA CrossIs == FileInv /\ LogInv => CrossMatches
<1> SUFFICES ASSUME FileInv, LogInv, NEW reqHex \in BOOLEAN
             PROVE
    LET told   == \/ reqHex
                  \/ \E k \in DOMAIN osLog : /\ osLog[k].words >= 4
                                             /\ HexDigit \cap Range(osLog[k].req.digits) # {}
        result == Compare(osLog, Records, Names, reqHex, FALSE)
        only   == Compare(osLog, Records, Names, reqHex, TRUE)
    IN  /\ result.missing = {n \in lost : SizesAsked(n) = {}}
        /\ result.extra = {}
        /\ only = [result EXCEPT !.missing = {}]
        /\ told /\ lost = {} => \A n \in Names : Cardinality(SizesAsked(n)) = 1 =>
             n \notin result.sizeDiffers \cup result.alignDiffers
  BY DEF CrossMatches
<1> DEFINE prof   == Regions(Records)
           os     == OsRegions(osLog, reqHex)
           asked  == AskedIn(Records)
           ours   == DOMAIN prof \cap Names
           theirs == DOMAIN os \cap Names
           both(t) == ours \cap t
           sizes(t) == {name \in both(t) : prof[name].size # os[name].req}
           aligns(t) == {name \in both(t) : RoundUp(prof[name].size) # os[name].aligned}
           result == Compare(osLog, Records, Names, reqHex, FALSE)
           only   == Compare(osLog, Records, Names, reqHex, TRUE)
           C(t)   == [missing |-> t \ ours, extra |-> ours \ t,
                      sizeDiffers |-> sizes(t), alignDiffers |-> aligns(t)]
<1>1. result = C(theirs) /\ only = C(theirs \cap ours)
  BY DEF Compare
<1>2. LogOf(asked, lost, osLog, region) /\ lost \subseteq Names
  <2>1. LogOf(asked, lost, osLog, region)
    BY LogInvIs
  <2> QED
    BY <2>1 DEF LogOf
<1>3. \A n \in Names : SizesAsked(n) = asked[n]
  BY AskedIs
<1>4. \A n \in Names : asked[n] = SizesAt(Records, n)
  BY DEF AskedIn
<1>5. \A n \in Names : n \in DOMAIN prof <=> asked[n] # {}
  <2>1. DOMAIN prof = NamesIn(Records)
    BY RegionsAre
  <2>2. \A n : n \in NamesIn(Records) <=> SizesAt(Records, n) # {}
    BY DEF NamesIn, SizesAt, AtName
  <2> HIDE DEF prof, asked
  <2> QED
    BY <1>4, <2>1, <2>2
<1>6. \A n \in Names : /\ n \in DOMAIN os <=> HasLine(osLog, n)
                       /\ n \in DOMAIN os => n \in lost \/ asked[n] # {}
                       /\ asked[n] # {} => n \in DOMAIN os
  <2> HIDE DEF asked
  <2> QED
    BY <1>2, OurNames
<1>7. \A n \in lost : n \in DOMAIN os
  <2>1. \A n \in lost : HasLine(osLog, n)
    <3> HIDE DEF asked
    <3> QED
      BY <1>2 DEF LogOf
  <2> HIDE DEF os, asked
  <2> QED
    BY <1>2, <1>6, <2>1
<1>8. ours \subseteq theirs
  <2> HIDE DEF prof, os, asked
  <2> QED
    BY <1>5, <1>6
<1>9. theirs \ ours = {n \in lost : SizesAsked(n) = {}}
  <2> HIDE DEF prof, os, asked
  <2> QED
    BY <1>2, <1>3, <1>5, <1>6, <1>7
<1>10. only = [result EXCEPT !.missing = {}]
  <2>1. both(theirs \cap ours) = both(theirs)
    <3> HIDE DEF ours, theirs
    <3> QED
      BY <1>8
  <2>2. sizes(theirs \cap ours) = sizes(theirs) /\ aligns(theirs \cap ours) = aligns(theirs)
    <3> HIDE DEF ours, theirs, both, prof, os
    <3> QED
      BY <2>1
  <2>3. /\ (theirs \cap ours) \ ours = {} /\ ours \ (theirs \cap ours) = {}
        /\ ours \ theirs = {}
    <3> HIDE DEF ours, theirs
    <3> QED
      BY <1>8
  <2> HIDE DEF ours, theirs, sizes, aligns, result, only
  <2> QED
    BY <1>1, <2>2, <2>3
<1>11. ASSUME reqHex \/ \E k \in DOMAIN osLog :
                          /\ osLog[k].words >= 4
                          /\ HexDigit \cap Range(osLog[k].req.digits) # {},
              lost = {}, NEW n \in Names, Cardinality(SizesAsked(n)) = 1
       PROVE  n \notin sizes(theirs) \cup aligns(theirs)
  <2>1. SizeIsHex(osLog, reqHex)
    BY <1>11 DEF SizeIsHex, ColIsHex, LogRows
  <2>2. MapsTell(Records)
    BY RecordsTell
  <2>3. asked[n] \subseteq Nat /\ IsFiniteSet(asked[n])
    <3>1. /\ IsFiniteSet(SizesAt(Records, n)) /\ SizesAt(Records, n) \subseteq Nat
      BY <2>2, SizesAtAre
    <3> QED
      BY <1>4, <3>1
  <2>4. PICK s \in Nat : asked[n] = {s}
    <3>1. Cardinality(asked[n]) = 1
      BY <1>3, <1>11
    <3>2. \E x : asked[n] = {x}
      <4> HIDE DEF asked
      <4> QED
        BY <2>3, <3>1, FS_Singleton
    <3> QED
      BY <2>3, <3>2
  <2>5. os[n].req = s /\ os[n].aligned = RoundUp(s)
    <3> HIDE DEF asked
    <3> QED
      BY <1>2, <1>11, <2>1, <2>4, OurValues
  <2>6. n \in ours => prof[n].size = s
    <3>1. n \in DOMAIN prof => prof[n].size = Max(SizesAt(Records, n))
      BY RegionsAre
    <3>2. SizesAt(Records, n) = {s}
      BY <1>4, <2>4
    <3>3. Max({s}) = s
      <4>1. IsFiniteSet({s})
        BY FS_Singleton
      <4>2. {s} \subseteq Int /\ {s} # {}
        OBVIOUS
      <4> QED
        BY <4>1, <4>2, MaxOf
    <3> QED
      BY <3>1, <3>2, <3>3
  <2> HIDE DEF prof, os, asked
  <2> QED
    BY <2>5, <2>6
<1>12. /\ result.missing = theirs \ ours /\ result.extra = ours \ theirs
       /\ result.sizeDiffers = sizes(theirs) /\ result.alignDiffers = aligns(theirs)
  <2> HIDE DEF theirs, ours, sizes, aligns, result
  <2> QED
    BY <1>1
<1>13. ours \ theirs = {}
  <2> HIDE DEF ours, theirs
  <2> QED
    BY <1>8
<1> HIDE DEF prof, os, asked, ours, theirs, both, sizes, aligns, result, only
<1> QED
  BY <1>9, <1>10, <1>11, <1>12, <1>13 DEF result, only

\* The two logs differ only as they should: the cross-check finds missing no name
\* but those no recorded map ever had, finds none extra, and reads of a name that
\* was always asked for with one size that size and its cost, digit by digit.
THEOREM LogsMatch == Spec => []CrossMatches
<1>1. FileInv /\ LogInv => CrossMatches
  BY CrossIs
<1>2. Init => Types /\ FileInv /\ KeptInv /\ LogInv
  BY TypesInit, FileInit, LogInit, KeptInit
<1>3. Types /\ FileInv /\ KeptInv /\ LogInv /\ [Next]_vars
        => (Types /\ FileInv /\ KeptInv /\ LogInv)'
  BY TypesStep, FileStep, KeptStep, LogStep
<1> QED
  BY <1>1, <1>2, <1>3, PTL DEF Spec
=============================================================================
