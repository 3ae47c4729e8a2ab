------------------------------- MODULE Totals -------------------------------
(***************************************************************************)
(* Sums over finite sets: what MapThenSumSet adds up when one summand      *)
(* changes.  The fold is a recursive function on the subsets of a set, so  *)
(* what is said of it is proved from the subset of least cardinality for   *)
(* which it would fail.                                                    *)
(***************************************************************************)
EXTENDS Integers, FiniteSetsExt, FiniteSetTheorems, WellFoundedInduction, TLAPS

SumOver(f, S) == MapThenSumSet(LAMBDA x : f[x], S)

\* The element the fold takes out of s first.
Chosen(s) == CHOOSE x \in s : TRUE

\* g adds f up over every subset of S, or over those with n elements at most.
Adds(g, f, S) ==
    g = [s \in SUBSET S |-> IF s = {} THEN 0 ELSE f[Chosen(s)] + g[s \ {Chosen(s)}]]

Small(S, n) == {s \in SUBSET S : Cardinality(s) <= n}
AddsUpTo(g, f, S, n) ==
    /\ g \in [Small(S, n) -> Int]
    /\ \A s \in Small(S, n) :
          g[s] = IF s = {} THEN 0 ELSE f[Chosen(s)] + g[s \ {Chosen(s)}]

\* Every inhabited set of numbers has a least element.
LEMMA LeastNumber ==
    ASSUME NEW S \in SUBSET Nat, S # {}
    PROVE  \E x \in S : \A y \in S : x <= y
<1>1. IsWellFoundedOn(OpToRel(<, Nat), Nat)
  BY NatLessThanWellFounded
<1>2. PICK x \in S : \A y \in S : <<y, x>> \notin OpToRel(<, Nat)
  BY <1>1, WFMin
<1>3. ASSUME NEW y \in S
      PROVE  x <= y
  <2>1. <<y, x>> \notin {ss \in Nat \X Nat : ss[1] < ss[2]}
    BY <1>2 DEF OpToRel
  <2>2. <<y, x>> \in Nat \X Nat
    OBVIOUS
  <2> QED
    BY <2>1, <2>2
<1> QED
  BY <1>3

LEMMA ChosenIsIn ==
    ASSUME NEW s, s # {}
    PROVE  Chosen(s) \in s
  BY DEF Chosen

\* What the fold leaves when it takes an element out is smaller by one.
LEMMA OneLess ==
    ASSUME NEW S, IsFiniteSet(S), NEW s \in SUBSET S, s # {}
    PROVE  /\ Chosen(s) \in S
           /\ s \ {Chosen(s)} \in SUBSET S
           /\ Cardinality(s) \in Nat
           /\ Cardinality(s \ {Chosen(s)}) \in Nat
           /\ Cardinality(s \ {Chosen(s)}) = Cardinality(s) - 1
<1>1. IsFiniteSet(s)
  BY FS_Subset
<1>2. Chosen(s) \in s
  BY ChosenIsIn
<1>3. Cardinality(s \ {Chosen(s)}) = Cardinality(s) - 1 /\ IsFiniteSet(s \ {Chosen(s)})
  BY <1>1, <1>2, FS_RemoveElement
<1> QED
  BY <1>1, <1>2, <1>3, FS_CardinalityType

\* Whatever holds of the empty set and of s when it holds of s without its
\* chosen element holds of every subset: Good is the set of those it holds of.
LEMMA EverySubset ==
    ASSUME NEW S, IsFiniteSet(S), NEW Good, {} \in Good,
           \A s \in SUBSET S : s # {} /\ s \ {Chosen(s)} \in Good => s \in Good
    PROVE  SUBSET S \subseteq Good
<1> SUFFICES ASSUME ~ (SUBSET S \subseteq Good) PROVE FALSE
  OBVIOUS
<1> DEFINE Sizes == {n \in Nat : \E s \in SUBSET S : s \notin Good /\ Cardinality(s) = n}
<1>1. Sizes # {}
  <2>1. PICK s \in SUBSET S : s \notin Good
    OBVIOUS
  <2>2. Cardinality(s) \in Nat
    BY FS_Subset, FS_CardinalityType
  <2> QED
    BY <2>1, <2>2
<1>2. PICK n \in Sizes : \A m \in Sizes : n <= m
  <2>1. Sizes \in SUBSET Nat
    OBVIOUS
  <2> HIDE DEF Sizes
  <2> QED
    BY <1>1, <2>1, LeastNumber
<1>3. PICK s \in SUBSET S : s \notin Good /\ Cardinality(s) = n
  OBVIOUS
<1>4. s # {}
  BY <1>3
<1>5. Cardinality(s \ {Chosen(s)}) \in Nat /\ Cardinality(s \ {Chosen(s)}) = n - 1
      /\ s \ {Chosen(s)} \in SUBSET S
  BY <1>3, <1>4, OneLess
<1>6. s \ {Chosen(s)} \in Good
  BY <1>2, <1>5
<1> QED
  BY <1>3, <1>4, <1>6
-----------------------------------------------------------------------------
(* The fold is what its recursion says *)

LEMMA AddsOneMore ==
    ASSUME NEW S, IsFiniteSet(S), NEW f \in [S -> Int], NEW n \in Nat,
           NEW g, AddsUpTo(g, f, S, n)
    PROVE  \E h : AddsUpTo(h, f, S, n + 1)
<1> DEFINE h == [s \in Small(S, n + 1) |->
                   IF s = {} THEN 0 ELSE f[Chosen(s)] + g[s \ {Chosen(s)}]]
<1>1. ASSUME NEW s \in Small(S, n + 1), s # {}
      PROVE  Chosen(s) \in S /\ s \ {Chosen(s)} \in Small(S, n)
  BY <1>1, OneLess DEF Small
<1>2. g \in [Small(S, n) -> Int]
  BY DEF AddsUpTo
<1>3. h \in [Small(S, n + 1) -> Int]
  BY <1>1, <1>2
<1>4. ASSUME NEW s \in Small(S, n)
      PROVE  s \in Small(S, n + 1)
  <2>1. Cardinality(s) \in Nat
    BY FS_Subset, FS_CardinalityType DEF Small
  <2> QED
    BY <2>1 DEF Small
<1>5. \A s \in Small(S, n) : h[s] = g[s]
  BY <1>4 DEF AddsUpTo
<1>6. ASSUME NEW s \in Small(S, n + 1), s # {}
      PROVE  h[s] = f[Chosen(s)] + h[s \ {Chosen(s)}]
  BY <1>1, <1>5, <1>6
<1>7. \A s \in Small(S, n + 1) : s = {} => h[s] = 0
  OBVIOUS
<1> HIDE DEF h
<1> QED
  BY <1>3, <1>6, <1>7 DEF AddsUpTo

LEMMA AddsUpToAny ==
    ASSUME NEW S, IsFiniteSet(S), NEW f \in [S -> Int], NEW n \in Nat
    PROVE  \E g : AddsUpTo(g, f, S, n)
<1> DEFINE Bad == {k \in Nat : ~ \E g : AddsUpTo(g, f, S, k)}
<1>1. ASSUME Bad # {} PROVE FALSE
  <2>1. PICK k \in Bad : \A j \in Bad : k <= j
    <3>1. Bad \in SUBSET Nat
      OBVIOUS
    <3> HIDE DEF Bad
    <3> QED
      BY <1>1, <3>1, LeastNumber
  <2>2. k # 0
    <3> DEFINE g == [s \in Small(S, 0) |-> 0]
    <3>1. ASSUME NEW s \in Small(S, 0) PROVE s = {}
      <4>1. IsFiniteSet(s) /\ Cardinality(s) \in Nat /\ Cardinality(s) <= 0
        BY FS_Subset, FS_CardinalityType DEF Small
      <4> QED
        BY <4>1, FS_EmptySet
    <3>2. g \in [Small(S, 0) -> Int] /\ \A s \in Small(S, 0) : s = {} /\ g[s] = 0
      BY <3>1
    <3> HIDE DEF g
    <3>3. AddsUpTo(g, f, S, 0)
      BY <3>2 DEF AddsUpTo
    <3> QED
      BY <3>3
  <2>3. k - 1 \in Nat /\ k - 1 \notin Bad /\ k = (k - 1) + 1
    BY <2>1, <2>2
  <2>4. PICK g : AddsUpTo(g, f, S, k - 1)
    BY <2>3
  <2>5. \E h : AddsUpTo(h, f, S, (k - 1) + 1)
    BY <2>3, <2>4, AddsOneMore
  <2> QED
    BY <2>3, <2>5
<1> QED
  BY <1>1

LEMMA AddsExists ==
    ASSUME NEW S, IsFiniteSet(S), NEW f \in [S -> Int]
    PROVE  \E g : Adds(g, f, S) /\ g \in [SUBSET S -> Int]
<1>1. Cardinality(S) \in Nat
  BY FS_CardinalityType
<1>2. PICK g : AddsUpTo(g, f, S, Cardinality(S))
  BY <1>1, AddsUpToAny
<1>3. \A s \in SUBSET S : Cardinality(s) <= Cardinality(S)
  BY FS_Subset
<1>4. Small(S, Cardinality(S)) = SUBSET S
  BY <1>3 DEF Small
<1>5. /\ g \in [SUBSET S -> Int]
      /\ \A s \in SUBSET S : g[s] = IF s = {} THEN 0 ELSE f[Chosen(s)] + g[s \ {Chosen(s)}]
  BY <1>2, <1>4 DEF AddsUpTo
<1> QED
  BY <1>5 DEF Adds

LEMMA AddsUnique ==
    ASSUME NEW S, IsFiniteSet(S), NEW f, NEW g, NEW h, Adds(g, f, S), Adds(h, f, S)
    PROVE  g[S] = h[S]
<1> DEFINE Good == {s \in SUBSET S : g[s] = h[s]}
<1>1. {} \in Good
  BY DEF Adds
<1>2. ASSUME NEW s \in SUBSET S, s # {}, s \ {Chosen(s)} \in Good
      PROVE  s \in Good
  BY <1>2 DEF Adds
<1>3. SUBSET S \subseteq Good
  <2> HIDE DEF Good
  <2> QED
    BY <1>1, <1>2, EverySubset
<1> QED
  BY <1>3

\* MapThenSumSet is the function its definition describes.
LEMMA SumIsAdded ==
    ASSUME NEW S, IsFiniteSet(S), NEW f, NEW g, Adds(g, f, S)
    PROVE  SumOver(f, S) = g[S]
<1> DEFINE c == CHOOSE k : Adds(k, f, S)
<1>1. Adds(c, f, S)
  OBVIOUS
<1>2. SumOver(f, S) = c[S]
  BY DEF SumOver, MapThenSumSet, MapThenFoldSet, Adds, Chosen
<1> HIDE DEF c
<1> QED
  BY <1>1, <1>2, AddsUnique
-----------------------------------------------------------------------------
(* What sums are worth *)

THEOREM SumType ==
    ASSUME NEW S, IsFiniteSet(S), NEW f \in [S -> Int]
    PROVE  SumOver(f, S) \in Int
<1>1. PICK g : Adds(g, f, S) /\ g \in [SUBSET S -> Int]
  BY AddsExists
<1>2. SumOver(f, S) = g[S]
  BY <1>1, SumIsAdded
<1> QED
  BY <1>1, <1>2

\* Nothing adds up to nothing.
THEOREM SumOfZeros ==
    ASSUME NEW S, IsFiniteSet(S), NEW f \in [S -> Int], \A x \in S : f[x] = 0
    PROVE  SumOver(f, S) = 0
<1>1. PICK g : Adds(g, f, S) /\ g \in [SUBSET S -> Int]
  BY AddsExists
<1> DEFINE Good == {s \in SUBSET S : g[s] = 0}
<1>2. {} \in Good
  BY <1>1 DEF Adds
<1>3. ASSUME NEW s \in SUBSET S, s # {}, s \ {Chosen(s)} \in Good
      PROVE  s \in Good
  <2>1. Chosen(s) \in S
    BY <1>3, OneLess
  <2>2. g[s] = f[Chosen(s)] + g[s \ {Chosen(s)}]
    BY <1>1, <1>3 DEF Adds
  <2> QED
    BY <1>3, <2>1, <2>2
<1>4. SUBSET S \subseteq Good
  <2> HIDE DEF Good
  <2> QED
    BY <1>2, <1>3, EverySubset
<1> QED
  BY <1>1, <1>4, SumIsAdded

\* A sum of which one summand changes, changes by as much.
THEOREM SumChanges ==
    ASSUME NEW S, IsFiniteSet(S), NEW f \in [S -> Int], NEW h \in [S -> Int],
           NEW x \in S, \A y \in S \ {x} : h[y] = f[y]
    PROVE  SumOver(h, S) = SumOver(f, S) + (h[x] - f[x])
<1>1. PICK a : Adds(a, f, S) /\ a \in [SUBSET S -> Int]
  BY AddsExists
<1>2. PICK b : Adds(b, h, S) /\ b \in [SUBSET S -> Int]
  BY AddsExists
<1> DEFINE Good == {s \in SUBSET S : b[s] = a[s] + (IF x \in s THEN h[x] - f[x] ELSE 0)}
<1>3. {} \in Good
  BY <1>1, <1>2 DEF Adds
<1>4. ASSUME NEW s \in SUBSET S, s # {}, s \ {Chosen(s)} \in Good
      PROVE  s \in Good
  <2> DEFINE c == Chosen(s)
  <2>1. c \in S /\ c \in s /\ s \ {c} \in SUBSET S
    BY <1>4, OneLess, ChosenIsIn
  <2>2. a[s] = f[c] + a[s \ {c}] /\ b[s] = h[c] + b[s \ {c}]
    BY <1>1, <1>2, <1>4 DEF Adds
  <2>3. b[s \ {c}] = a[s \ {c}] + (IF x \in s \ {c} THEN h[x] - f[x] ELSE 0)
    BY <1>4
  <2>4. /\ a[s \ {c}] \in Int /\ f[c] \in Int /\ h[c] \in Int
        /\ f[x] \in Int /\ h[x] \in Int
    BY <1>1, <2>1
  <2> HIDE DEF c
  <2>5. CASE c = x
    BY <2>1, <2>2, <2>3, <2>4, <2>5
  <2>6. CASE c # x
    <3>1. h[c] = f[c]
      BY <2>1, <2>6
    <3> QED
      BY <2>1, <2>2, <2>3, <2>4, <2>6, <3>1
  <2> QED
    BY <2>5, <2>6
<1>5. SUBSET S \subseteq Good
  <2> HIDE DEF Good
  <2> QED
    BY <1>3, <1>4, EverySubset
<1>6. b[S] = a[S] + (h[x] - f[x])
  BY <1>5
<1> QED
  BY <1>1, <1>2, <1>6, SumIsAdded

\* A sum of natural numbers is none below zero.
THEOREM SumOfNaturals ==
    ASSUME NEW S, IsFiniteSet(S), NEW f \in [S -> Nat]
    PROVE  SumOver(f, S) >= 0
<1>0. f \in [S -> Int]
  OBVIOUS
<1>1. PICK g : Adds(g, f, S) /\ g \in [SUBSET S -> Int]
  BY <1>0, AddsExists
<1> DEFINE Good == {s \in SUBSET S : g[s] >= 0}
<1>2. {} \in Good
  BY <1>1 DEF Adds
<1>3. ASSUME NEW s \in SUBSET S, s # {}, s \ {Chosen(s)} \in Good
      PROVE  s \in Good
  <2>1. Chosen(s) \in S
    BY <1>3, OneLess
  <2>2. g[s] = f[Chosen(s)] + g[s \ {Chosen(s)}]
    BY <1>1, <1>3 DEF Adds
  <2>3. f[Chosen(s)] \in Nat /\ g[s \ {Chosen(s)}] \in Int
    BY <1>1, <2>1
  <2>4. g[s \ {Chosen(s)}] >= 0
    BY <1>3
  <2> QED
    BY <2>2, <2>3, <2>4
<1>4. SUBSET S \subseteq Good
  <2> HIDE DEF Good
  <2> QED
    BY <1>2, <1>3, EverySubset
<1>5. SumOver(f, S) = g[S]
  BY <1>0, <1>1, SumIsAdded
<1> QED
  BY <1>4, <1>5
=============================================================================
