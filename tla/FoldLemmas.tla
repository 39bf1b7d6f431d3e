----------------------------- MODULE FoldLemmas -----------------------------
(***************************************************************************)
(* Facts about recursion that the proofs of several components need: the   *)
(* first round in which a loop goes wrong, and sums over finite sets.      *)
(***************************************************************************)
EXTENDS Integers, FiniteSetsExt, FiniteSetTheorems, WellFoundedInduction, TLAPS

(* A nonempty set of naturals has a least element: the prefixes 1..k,       *)
(* ordered by strict inclusion, are well founded.  The loops of the code    *)
(* are reasoned about by way of the first round that would go wrong.        *)
LEMMA LeastExists ==
  ASSUME NEW M \in SUBSET Nat, M # {}
  PROVE  \E m \in M : \A j \in M : m <= j
<1> DEFINE T == {1..k : k \in M}
<1>1. PICK x \in T : \A y \in T : ~ (<<y, x>> \in StrictSubsetOrdering(Nat))
  <2>1. T # {} OBVIOUS
  <2>2. T \subseteq FiniteSubsetsOf(Nat)
    <3>1. \A k \in M : IsFiniteSet(1..k) /\ 1..k \in SUBSET Nat
      BY FS_Interval
    <3> QED BY <3>1 DEF FiniteSubsetsOf
  <2> HIDE DEF T
  <2> QED BY <2>1, <2>2, FS_StrictSubsetOrderingWellFounded, WFMin
<1>2. PICK k \in M : x = 1..k OBVIOUS
<1>3. ASSUME NEW j \in M, j < k PROVE FALSE
  <2>1. 1..j \in T OBVIOUS
  <2>2. 1..j \subseteq 1..k BY <1>3
  <2>3. k \in 1..k /\ k \notin 1..j BY <1>3
  <2>4. <<1..j, 1..k>> \in StrictSubsetOrdering(Nat)
    BY <2>2, <2>3 DEF StrictSubsetOrdering
  <2> QED BY <2>1, <2>4, <1>1, <1>2
<1> QED BY <1>3

(* Among subsets of a finite set there is one that contains no other. *)
LEMMA SmallestExists ==
  ASSUME NEW S, IsFiniteSet(S), NEW M \in SUBSET (SUBSET S), M # {}
  PROVE  \E s \in M : \A t \in M : t \subseteq s => t = s
<1>1. M \subseteq FiniteSubsetsOf(S) BY FS_Subset DEF FiniteSubsetsOf
<1>2. PICK s \in M : \A t \in M : ~ (<<t, s>> \in StrictSubsetOrdering(S))
  BY <1>1, FS_StrictSubsetOrderingWellFounded, WFMin
<1>3. ASSUME NEW t \in M, t \subseteq s, t # s PROVE FALSE
  <2>1. <<t, s>> \in StrictSubsetOrdering(S) BY <1>3 DEF StrictSubsetOrdering
  <2> QED BY <1>2, <2>1
<1> QED BY <1>3
-----------------------------------------------------------------------------
(* The recursion behind a sum over S, as a function of the subsets of S.    *)
Some(s) == CHOOSE x \in s : TRUE
Sums(f, S, g) ==
  g = [s \in SUBSET S |-> IF s = {} THEN 0 ELSE f[Some(s)] + g[s \ {Some(s)}]]

(* Integers are summed. *)
Integral(f, S) == \A x \in S : f[x] \in Int

LEMMA SomeIn ==
  ASSUME NEW s, s # {}
  PROVE  Some(s) \in s
BY DEF Some

(* There is such a function: it is extended one cardinality at a time. *)
LEMMA SumsExist ==
  ASSUME NEW S, IsFiniteSet(S), NEW f
  PROVE  \E g : Sums(f, S, g)
<1> DEFINE Round(g, s) == IF s = {} THEN 0 ELSE f[Some(s)] + g[s \ {Some(s)}]
           UpTo(g, k)  == /\ g = [s \in SUBSET S |-> g[s]]
                          /\ \A s \in SUBSET S : Cardinality(s) <= k => g[s] = Round(g, s)
           M == {k \in Nat : ~ \E g : UpTo(g, k)}
<1>1. \A s \in SUBSET S : IsFiniteSet(s) /\ Cardinality(s) \in Nat
  BY FS_Subset, FS_CardinalityType
<1>2. \A s \in SUBSET S : s # {} => /\ s \ {Some(s)} \in SUBSET S
                                    /\ Cardinality(s \ {Some(s)}) = Cardinality(s) - 1
  <2> SUFFICES ASSUME NEW s \in SUBSET S, s # {}
               PROVE  /\ s \ {Some(s)} \in SUBSET S
                      /\ Cardinality(s \ {Some(s)}) = Cardinality(s) - 1
    OBVIOUS
  <2> QED BY <1>1, SomeIn, FS_RemoveElement
<1>3. M = {}
  <2> SUFFICES ASSUME M # {} PROVE FALSE OBVIOUS
  <2>1. PICK m \in M : \A j \in M : m <= j
    <3>1. M \in SUBSET Nat OBVIOUS
    <3> HIDE DEF M
    <3> QED BY <3>1, LeastExists
  <2>2. m \in Nat /\ ~ \E g : UpTo(g, m) OBVIOUS
  <2>3. CASE m = 0
    <3> DEFINE z == [s \in SUBSET S |-> 0]
    <3>1. \A s \in SUBSET S : Cardinality(s) <= 0 => s = {}
      BY <1>1, FS_EmptySet
    <3>2. UpTo(z, 0) BY <3>1
    <3> QED BY <2>2, <2>3, <3>2
  <2>4. CASE m # 0
    <3>1. m - 1 \in Nat /\ m - 1 \notin M
      <4> HIDE DEF M
      <4> QED BY <2>1, <2>2, <2>4
    <3>2. PICK g : UpTo(g, m - 1) BY <3>1
    <3> DEFINE h == [s \in SUBSET S |-> IF Cardinality(s) = m THEN Round(g, s) ELSE g[s]]
    <3>3. ASSUME NEW s \in SUBSET S, Cardinality(s) <= m PROVE h[s] = Round(h, s)
      <4>1. Round(h, s) = Round(g, s)
        <5>1. CASE s = {} BY <5>1
        <5>2. CASE s # {}
          <6>1. s \ {Some(s)} \in SUBSET S /\ Cardinality(s \ {Some(s)}) # m
            BY <1>1, <1>2, <2>2, <3>3, <5>2
          <6>2. h[s \ {Some(s)}] = g[s \ {Some(s)}] BY <6>1
          <6> HIDE DEF h
          <6> QED BY <6>2
        <5> QED BY <5>1, <5>2
      <4>2. CASE Cardinality(s) = m
        <5>1. h[s] = Round(g, s) BY <4>2
        <5> HIDE DEF h, Round
        <5> QED BY <4>1, <5>1
      <4>3. CASE Cardinality(s) # m
        <5>1. h[s] = g[s] BY <4>3
        <5>2. Cardinality(s) <= m - 1 BY <1>1, <2>2, <3>3, <4>3
        <5>3. g[s] = Round(g, s) BY <3>2, <5>2
        <5> HIDE DEF h, Round
        <5> QED BY <4>1, <5>1, <5>3
      <4> QED BY <4>2, <4>3
    <3>4. UpTo(h, m)
      <4>1. h = [s \in SUBSET S |-> h[s]] OBVIOUS
      <4> HIDE DEF h, Round
      <4> QED BY <3>3, <4>1
    <3> HIDE DEF UpTo, h
    <3> QED BY <2>2, <3>4
  <2> QED BY <2>3, <2>4
<1>4. Cardinality(S) \in Nat BY FS_CardinalityType
<1>5. PICK g : UpTo(g, Cardinality(S)) BY <1>3, <1>4
<1>6. \A s \in SUBSET S : g[s] = Round(g, s)
  BY <1>5, FS_Subset
<1>7. g = [s \in SUBSET S |-> Round(g, s)] BY <1>5, <1>6
<1> QED BY <1>7 DEF Sums

(* One round. *)
LEMMA SumsRound ==
  ASSUME NEW S, NEW f, NEW g, Sums(f, S, g)
  PROVE  /\ g[{}] = 0
         /\ \A s \in SUBSET S : s # {} =>
              /\ Some(s) \in s /\ Some(s) \in S /\ s \ {Some(s)} \in SUBSET S
              /\ g[s] = f[Some(s)] + g[s \ {Some(s)}]
<1>1. \A s \in SUBSET S : g[s] = IF s = {} THEN 0 ELSE f[Some(s)] + g[s \ {Some(s)}]
  BY Zenon DEF Sums
<1>2. {} \in SUBSET S OBVIOUS
<1> QED BY <1>1, <1>2, SomeIn

(* Sums of integers are integers. *)
LEMMA SumsTyped ==
  ASSUME NEW S, IsFiniteSet(S), NEW f, Integral(f, S), NEW g, Sums(f, S, g)
  PROVE  \A s \in SUBSET S : g[s] \in Int
<1> DEFINE M == {s \in SUBSET S : g[s] \notin Int}
<1> SUFFICES ASSUME M # {} PROVE FALSE OBVIOUS
<1>1. PICK s \in M : \A t \in M : t \subseteq s => t = s
  <2>1. M \in SUBSET (SUBSET S) OBVIOUS
  <2> HIDE DEF M
  <2> QED BY <2>1, SmallestExists
<1>2. s # {}
  <2>1. g[{}] = 0 BY SumsRound, Zenon
  <2> QED BY <2>1
<1>3. /\ Some(s) \in s /\ Some(s) \in S /\ s \ {Some(s)} \in SUBSET S
      /\ g[s] = f[Some(s)] + g[s \ {Some(s)}]
  BY <1>2, SumsRound
<1>4. g[s \ {Some(s)}] \in Int /\ f[Some(s)] \in Int BY <1>1, <1>3 DEF Integral
<1> QED BY <1>3, <1>4

(* A sum depends on what is summed only. *)
LEMMA SumsAgree ==
  ASSUME NEW S, IsFiniteSet(S), NEW f, NEW g, Sums(f, S, g),
         NEW R, NEW e, NEW h, Sums(e, R, h),
         NEW U \in SUBSET S, U \in SUBSET R, \A x \in U : f[x] = e[x]
  PROVE  g[U] = h[U]
<1>1. /\ g[{}] = 0
      /\ \A s \in SUBSET S : s # {} =>
           Some(s) \in s /\ g[s] = f[Some(s)] + g[s \ {Some(s)}]
  BY SumsRound
<1>2. /\ h[{}] = 0
      /\ \A s \in SUBSET R : s # {} => h[s] = e[Some(s)] + h[s \ {Some(s)}]
  BY ONLY Sums(e, R, h), SumsRound
<1> DEFINE M == {s \in SUBSET U : g[s] # h[s]}
<1> SUFFICES ASSUME M # {} PROVE FALSE OBVIOUS
<1>3. PICK s \in M : \A t \in M : t \subseteq s => t = s
  <2>1. M \in SUBSET (SUBSET U) /\ IsFiniteSet(U) BY FS_Subset
  <2> HIDE DEF M
  <2> QED BY <2>1, SmallestExists
<1>4. s # {} BY <1>1, <1>2
<1>5. /\ Some(s) \in s /\ g[s] = f[Some(s)] + g[s \ {Some(s)}]
      /\ h[s] = e[Some(s)] + h[s \ {Some(s)}]
  <2>1. s \in SUBSET S /\ s \in SUBSET R OBVIOUS
  <2> QED BY <1>1, <1>2, <1>4, <2>1
<1>6. g[s \ {Some(s)}] = h[s \ {Some(s)}] BY <1>3, <1>5
<1> QED BY <1>5, <1>6

(* Any element may be the one taken out. *)
But(s, x) == s \ {x}
Takes(f, S, g) == \A s \in SUBSET S : \A x \in s : g[s] = f[x] + g[But(s, x)]

LEMMA SumsTake ==
  ASSUME NEW S, IsFiniteSet(S), NEW f, Integral(f, S), NEW g, Sums(f, S, g)
  PROVE  Takes(f, S, g)
<1> DEFINE M == {s \in SUBSET S : \E x \in s : g[s] # f[x] + g[But(s, x)]}
<1> SUFFICES ASSUME M # {} PROVE FALSE BY DEF Takes
<1>1. PICK s \in M : \A t \in M : t \subseteq s => t = s
  <2>1. M \in SUBSET (SUBSET S) OBVIOUS
  <2> HIDE DEF M
  <2> QED BY <2>1, SmallestExists
<1>2. PICK x \in s : g[s] # f[x] + g[But(s, x)] OBVIOUS
<1> DEFINE c == Some(s)  r == (s \ {c}) \ {x}
<1>3. /\ c \in s /\ c \in S /\ s \ {c} \in SUBSET S
      /\ g[s] = f[c] + g[s \ {c}]
  BY <1>2, SumsRound
<1>4. x # c BY <1>2, <1>3 DEF But
<1>5. g[s \ {c}] = f[x] + g[r]
  <2>1. s \ {c} \notin M BY <1>1, <1>3
  <2>2. x \in s \ {c} BY <1>4
  <2> QED BY <1>3, <2>1, <2>2 DEF But
<1>6. g[s \ {x}] = f[c] + g[r]
  <2>1. s \ {x} \in SUBSET S /\ s \ {x} \notin M BY <1>1, <1>2
  <2>2. c \in s \ {x} BY <1>3, <1>4
  <2>3. (s \ {x}) \ {c} = r OBVIOUS
  <2> QED BY <2>1, <2>2, <2>3 DEF But
<1>7. f[c] \in Int /\ f[x] \in Int /\ g[r] \in Int
  <2>1. r \in SUBSET S OBVIOUS
  <2>2. \A t \in SUBSET S : g[t] \in Int BY SumsTyped
  <2> QED BY <1>3, <2>1, <2>2 DEF Integral
<1> QED BY <1>2, <1>3, <1>5, <1>6, <1>7 DEF But
-----------------------------------------------------------------------------
(* A sum is the last of these rounds. *)
SumOver(f, S) == MapThenSumSet(LAMBDA x : f[x], S)

LEMMA SumIs ==
  ASSUME NEW S, IsFiniteSet(S), NEW f
  PROVE  \E g : Sums(f, S, g) /\ SumOver(f, S) = g[S]
<1>1. \E g : Sums(f, S, g) BY SumsExist
<1> DEFINE h == CHOOSE g : Sums(f, S, g)
<1>2. Sums(f, S, h) BY <1>1
<1>3. SumOver(f, S) = h[S] BY DEF SumOver, MapThenSumSet, MapThenFoldSet, Sums, Some
<1> QED BY <1>2, <1>3

(* It takes one element after the other, *)
LEMMA SumTake ==
  ASSUME NEW S, IsFiniteSet(S), NEW f, Integral(f, S), NEW y \in S
  PROVE  SumOver(f, S) = f[y] + SumOver(f, But(S, y))
<1>1. PICK g : Sums(f, S, g) /\ SumOver(f, S) = g[S] BY SumIs
<1> DEFINE R == But(S, y)
<1>2. R \in SUBSET S /\ IsFiniteSet(R) BY FS_Subset DEF But
<1>3. g[S] = f[y] + g[R]
  <2>1. Takes(f, S, g) BY <1>1, SumsTake
  <2> QED BY <2>1 DEF Takes
<1> HIDE DEF R
<1>4. PICK h : Sums(f, R, h) /\ SumOver(f, R) = h[R] BY <1>2, SumIs
<1>5. g[R] = h[R] BY <1>1, <1>2, <1>4, SumsAgree
<1> QED BY <1>1, <1>3, <1>4, <1>5 DEF R

(* begins with nothing, *)
LEMMA SumEmpty ==
  ASSUME NEW f
  PROVE  SumOver(f, {}) = 0
<1>1. PICK g : Sums(f, {}, g) /\ SumOver(f, {}) = g[{}] BY SumIs, FS_EmptySet
<1> QED BY <1>1, SumsRound

(* is an integer, *)
LEMMA SumTyped ==
  ASSUME NEW S, IsFiniteSet(S), NEW f, Integral(f, S)
  PROVE  SumOver(f, S) \in Int
<1>1. PICK g : Sums(f, S, g) /\ SumOver(f, S) = g[S] BY SumIs
<1>2. S \in SUBSET S OBVIOUS
<1> QED BY <1>1, <1>2, SumsTyped

(* and depends on what is summed only. *)
LEMMA SumAgree ==
  ASSUME NEW S, IsFiniteSet(S), NEW f, NEW e, \A x \in S : f[x] = e[x]
  PROVE  SumOver(f, S) = SumOver(e, S)
<1>1. PICK g : Sums(f, S, g) /\ SumOver(f, S) = g[S] BY SumIs
<1>2. PICK h : Sums(e, S, h) /\ SumOver(e, S) = h[S] BY SumIs
<1>3. S \in SUBSET S OBVIOUS
<1> QED BY <1>1, <1>2, <1>3, SumsAgree

(* Zeros add up to nothing. *)
LEMMA SumZero ==
  ASSUME NEW S, IsFiniteSet(S), NEW f, \A x \in S : f[x] = 0
  PROVE  SumOver(f, S) = 0
<1>1. PICK g : Sums(f, S, g) /\ SumOver(f, S) = g[S] BY SumIs
<1> DEFINE M == {s \in SUBSET S : g[s] # 0}
<1> SUFFICES ASSUME M # {} PROVE FALSE BY <1>1
<1>2. PICK s \in M : \A t \in M : t \subseteq s => t = s
  <2>1. M \in SUBSET (SUBSET S) OBVIOUS
  <2> HIDE DEF M
  <2> QED BY <2>1, SmallestExists
<1>3. /\ g[{}] = 0
      /\ s # {} => /\ Some(s) \in s /\ Some(s) \in S /\ s \ {Some(s)} \in SUBSET S
                   /\ g[s] = f[Some(s)] + g[s \ {Some(s)}]
  BY <1>1, SumsRound
<1>4. s # {} BY <1>3
<1>5. g[s \ {Some(s)}] = 0 BY <1>2, <1>3, <1>4
<1> QED BY <1>3, <1>4, <1>5

(* One more somewhere is one more in all. *)
LEMMA SumBumps ==
  ASSUME NEW S, IsFiniteSet(S), NEW f \in [S -> Int], NEW y \in S
  PROVE  SumOver([f EXCEPT ![y] = @ + 1], S) = SumOver(f, S) + 1
<1> DEFINE e == [f EXCEPT ![y] = @ + 1]  R == But(S, y)
<1>1. Integral(f, S) /\ Integral(e, S) BY DEF Integral
<1>2. e[y] = f[y] + 1 /\ f[y] \in Int OBVIOUS
<1>3. R \in SUBSET S /\ IsFiniteSet(R) /\ \A x \in R : f[x] = e[x]
  BY FS_Subset DEF But
<1> HIDE DEF e, R
<1>4. SumOver(f, S) = f[y] + SumOver(f, R) BY <1>1, SumTake DEF R
<1>5. SumOver(e, S) = e[y] + SumOver(e, R) BY <1>1, SumTake DEF R
<1>6. SumOver(f, R) = SumOver(e, R) BY <1>3, SumAgree
<1>7. SumOver(f, R) \in Int
  <2>1. Integral(f, R) BY <1>1, <1>3 DEF Integral
  <2> QED BY <1>3, <2>1, SumTyped
<1> QED BY <1>2, <1>4, <1>5, <1>6, <1>7 DEF e
=============================================================================
