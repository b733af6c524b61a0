--------------------------- MODULE FoldInduction ---------------------------
(***************************************************************************)
(* What FoldLeft computes, for any operator Op: the loops of the code that *)
(* carry a value from one element of an array to the next are FoldLeft in  *)
(* the models, and a proof about such a loop needs its rounds one by one.  *)
(*                                                                         *)
(* A module instantiates this one with the operator of its loop.  The      *)
(* induction is over the sets of natural numbers: the least element of the *)
(* complement is what gives it.  FoldLeft is defined over sets of indexes, *)
(* whose greatest element is taken off at each round.  The last section is *)
(* about sums over a finite set, which take off a chosen element instead.  *)
(***************************************************************************)
EXTENDS Integers, Sequences, FiniteSets, SequencesExt, FiniteSetTheorems, WellFoundedInduction, TLAPS

CONSTANT Op(_, _)   \* one round: what there is so far, and the element

\* A set of natural numbers that is not empty has a least member.
LEMMA LeastMember ==
  ASSUME NEW T \in SUBSET Nat, T # {}
  PROVE  \E n \in T : \A m \in T : n <= m
<1>1. PICK n \in T : \A m \in T : ~ (<<m, n>> \in OpToRel(<, Nat))
  BY NatLessThanWellFounded, WFMin
<1>2. \A m, k \in Nat : m < k => <<m, k>> \in OpToRel(<, Nat)
  BY DEF OpToRel
<1>3. \A m \in T : ~ (m < n)
  BY <1>1, <1>2
<1> QED BY <1>3

\* Induction over the natural numbers, of what holds in a set of them.
LEMMA Induction ==
  ASSUME NEW H \in SUBSET Nat, 0 \in H, \A n \in H : n + 1 \in H
  PROVE  \A n \in Nat : n \in H
<1> SUFFICES ASSUME Nat \ H # {} PROVE FALSE
  OBVIOUS
<1>1. PICK n \in Nat \ H : \A m \in Nat \ H : n <= m
  BY LeastMember
<1>2. n # 0 /\ n - 1 \in Nat /\ n - 1 < n
  BY <1>1
<1>3. n - 1 \in H
  BY <1>1, <1>2
<1> QED BY <1>1, <1>2, <1>3

\* A subset of an initial part of the naturals that is not empty has a greatest member.
LEMMA GreatestMember ==
  ASSUME NEW n \in Nat, NEW s \in SUBSET (1..n), s # {}
  PROVE  Max(s) \in s /\ \A m \in s : m <= Max(s)
<1> DEFINE T == {k \in Nat : \A m \in s : m <= k}
<1>1. PICK k \in T : \A m \in T : k <= m
  <2>1. n \in T
    OBVIOUS
  <2> HIDE DEF T
  <2>2. T \in SUBSET Nat
    BY DEF T
  <2> QED BY <2>1, <2>2, LeastMember
<1>2. k \in s
  <2> SUFFICES ASSUME k \notin s PROVE FALSE
    OBVIOUS
  <2>1. k \in Nat /\ \A m \in s : m \in Nat /\ m < k
    BY <1>1
  <2>2. k > 0
    <3>1. PICK m \in s : TRUE
      OBVIOUS
    <3>2. m \in Nat /\ m < k
      BY <2>1, <3>1
    <3> QED BY <2>1, <3>2
  <2>3. k - 1 \in T
    BY <2>1, <2>2
  <2> QED BY <1>1, <2>1, <2>3
<1>3. \E x \in s : \A y \in s : x >= y
  BY <1>1, <1>2
<1> QED BY <1>3 DEF Max

\* What FoldLeft makes of the elements in s alone.
Step(f, seq, base, s) == IF s = {} THEN base ELSE Op(f[s \ {Max(s)}], seq[Max(s)])
\* The sets of at most n of the indexes.
UpTo(n, D) == {s \in SUBSET D : Cardinality(s) <= n}

\* The function FoldLeft chooses: it says of each set of indexes what the rounds make.
IsFold(f, seq, base) == f = [s \in SUBSET DOMAIN seq |-> Step(f, seq, base, s)]

\* There is one: it is built from the sets of n indexes to those of n + 1.
LEMMA FoldExists ==
  ASSUME NEW S, NEW seq \in Seq(S), NEW base
  PROVE  \E f : IsFold(f, seq, base)
<1> DEFINE D == DOMAIN seq
           H == {n \in Nat : \E f : f = [s \in UpTo(n, D) |-> Step(f, seq, base, s)]}
<1>1. Len(seq) \in Nat /\ D = 1..Len(seq) /\ IsFiniteSet(D) /\ Cardinality(D) = Len(seq)
  <2>1. Len(seq) \in Nat /\ D = 1..Len(seq)
    OBVIOUS
  <2>2. IsFiniteSet(1..Len(seq)) /\ Cardinality(1..Len(seq)) = IF 1 > Len(seq) THEN 0 ELSE Len(seq) - 1 + 1
    BY <2>1, FS_Interval
  <2> QED BY <2>1, <2>2
<1>2. \A s \in SUBSET D : IsFiniteSet(s) /\ Cardinality(s) \in Nat /\ Cardinality(s) <= Len(seq)
  BY <1>1, FS_Subset, FS_CardinalityType
<1>3. 0 \in H
  <2> DEFINE f == [s \in UpTo(0, D) |-> base]
  <2>1. \A s \in UpTo(0, D) : s = {}
    BY <1>2, FS_EmptySet DEF UpTo
  <2>2. f = [s \in UpTo(0, D) |-> Step(f, seq, base, s)]
    BY <2>1 DEF Step
  <2> HIDE DEF f
  <2> QED BY <2>2
<1>4. ASSUME NEW n \in H PROVE n + 1 \in H
  <2>1. PICK f : f = [s \in UpTo(n, D) |-> Step(f, seq, base, s)]
    OBVIOUS
  <2> DEFINE g == [s \in UpTo(n + 1, D) |-> Step(f, seq, base, s)]
  <2>2. \A s \in UpTo(n, D) : f[s] = g[s]
    <3>1. UpTo(n, D) \subseteq UpTo(n + 1, D)
      BY <1>2 DEF UpTo
    <3> QED BY <2>1, <3>1
  <2>3. ASSUME NEW s \in UpTo(n + 1, D), s # {} PROVE s \ {Max(s)} \in UpTo(n, D)
    <3>1. s \in SUBSET D /\ Cardinality(s) <= n + 1
      BY DEF UpTo
    <3>2. Max(s) \in s
      BY <1>1, <2>3, <3>1, GreatestMember
    <3>3. Cardinality(s \ {Max(s)}) = Cardinality(s) - 1
      BY <1>2, <3>1, <3>2, FS_RemoveElement
    <3> QED BY <1>2, <3>1, <3>3 DEF UpTo
  <2>4. \A s \in UpTo(n + 1, D) : Step(f, seq, base, s) = Step(g, seq, base, s)
    BY <2>2, <2>3 DEF Step
  <2>5. g = [s \in UpTo(n + 1, D) |-> Step(g, seq, base, s)]
    BY <2>4
  <2> HIDE DEF g
  <2> QED BY <2>5
<1>5. Len(seq) \in H
  <2> HIDE DEF H
  <2>1. H \in SUBSET Nat
    BY DEF H
  <2> QED BY <1>1, <1>3, <1>4, <2>1, Induction
<1>6. UpTo(Len(seq), D) = SUBSET D
  BY <1>2 DEF UpTo
<1> QED BY <1>5, <1>6 DEF IsFold

\* The whole loop.
Fold(base, seq) == FoldLeft(Op, base, seq)

\* FoldLeft takes the elements one by one, from the first to the last: run[n] is what
\* there is after the first n rounds of such a loop (routesFlow.ts:204-235,270-330).
THEOREM FoldLeftRuns ==
  ASSUME NEW S, NEW seq \in Seq(S), NEW base
  PROVE  \E run : /\ run[0] = base
                  /\ \A n \in 1..Len(seq) : run[n] = Op(run[n - 1], seq[n])
                  /\ Fold(base, seq) = run[Len(seq)]
<1> DEFINE D == DOMAIN seq
           iter == CHOOSE f : IsFold(f, seq, base)
           run == [n \in 0..Len(seq) |-> iter[1..n]]
<1>1. Len(seq) \in Nat /\ D = 1..Len(seq)
  OBVIOUS
<1>2. IsFold(iter, seq, base)
  BY FoldExists
<1>3. Fold(base, seq) = iter[D]
  BY DEF Fold, FoldLeft, MapThenFoldSet, IsFold, Step
<1> HIDE DEF iter
<1>4. run[0] = base
  <2>1. 1..0 = {}
    OBVIOUS
  <2> QED BY <1>1, <1>2, <2>1 DEF IsFold, Step
<1>5. ASSUME NEW n \in 1..Len(seq) PROVE run[n] = Op(run[n - 1], seq[n])
  <2>1. n \in Nat /\ n \in 1..n
    OBVIOUS
  <2>2. 1..n # {} /\ (1..n) \ {n} = 1..(n - 1)
    <3>1. \A m : m \in (1..n) \ {n} <=> m \in 1..(n - 1)
      BY <2>1
    <3> QED BY <2>1, <3>1
  <2>7. n \in 0..Len(seq) /\ n - 1 \in 0..Len(seq)
    BY <1>1
  <2>6. 1..n \in SUBSET D
    BY <1>1
  <2>3. Max(1..n) \in 1..n /\ \A m \in 1..n : m <= Max(1..n)
    BY <2>1, GreatestMember
  <2>4. Max(1..n) = n
    BY <2>1, <2>3
  <2>5. iter[1..n] = Op(iter[(1..n) \ {n}], seq[n])
    BY <1>2, <2>2, <2>4, <2>6 DEF IsFold, Step
  <2> QED BY <2>2, <2>5, <2>7
<1>6. Fold(base, seq) = run[Len(seq)]
  BY <1>1, <1>3
<1> HIDE DEF run
<1> QED BY <1>4, <1>5, <1>6
-----------------------------------------------------------------------------
(* Sums over a finite set.                                                 *)

\* The numbers w assigns to the members of S, added up.
Sum(w, S) == MapThenSumSet(LAMBDA x : w[x], S)

\* The function MapThenSumSet chooses.
Pick(s) == CHOOSE x \in s : TRUE
SumStep(f, w, s) == IF s = {} THEN 0 ELSE w[Pick(s)] + f[s \ {Pick(s)}]
IsSum(f, w, D) == f = [s \in SUBSET D |-> SumStep(f, w, s)]

\* The member taken off is a member.
LEMMA Picked ==
  ASSUME NEW s, s # {}
  PROVE  Pick(s) \in s
BY DEF Pick

\* What holds of a finite set if it holds of the sets that are smaller, holds.
LEMMA FiniteInduction ==
  ASSUME NEW D, IsFiniteSet(D), NEW G \in SUBSET (SUBSET D),
         \A s \in SUBSET D : (\A t \in SUBSET D : Cardinality(t) < Cardinality(s) => t \in G) => s \in G
  PROVE  \A s \in SUBSET D : s \in G
<1> DEFINE H == {n \in Nat : \A s \in SUBSET D : Cardinality(s) < n => s \in G}
<1>1. \A s \in SUBSET D : IsFiniteSet(s) /\ Cardinality(s) \in Nat
  BY FS_Subset, FS_CardinalityType
<1>2. 0 \in H
  BY <1>1
<1>3. ASSUME NEW n \in H PROVE n + 1 \in H
  <2> SUFFICES ASSUME NEW s \in SUBSET D, Cardinality(s) < n + 1 PROVE s \in G
    OBVIOUS
  <2>1. \A t \in SUBSET D : Cardinality(t) < Cardinality(s) => t \in G
    BY <1>1
  <2> QED BY <2>1
<1>4. H \in SUBSET Nat
  OBVIOUS
<1> HIDE DEF H
<1>5. \A n \in Nat : n \in H
  BY <1>2, <1>3, <1>4, Induction
<1> SUFFICES ASSUME NEW s \in SUBSET D PROVE s \in G
  OBVIOUS
<1>6. Cardinality(s) + 1 \in H /\ Cardinality(s) < Cardinality(s) + 1
  BY <1>1, <1>5
<1> QED BY <1>6 DEF H

\* There is such a function: from the sets of n members to those of n + 1.
LEMMA SumExists ==
  ASSUME NEW D, IsFiniteSet(D), NEW w
  PROVE  \E f : IsSum(f, w, D)
<1> DEFINE H == {n \in Nat : \E f : f = [s \in UpTo(n, D) |-> SumStep(f, w, s)]}
<1>1. \A s \in SUBSET D : IsFiniteSet(s) /\ Cardinality(s) \in Nat
  BY FS_Subset, FS_CardinalityType
<1>2. 0 \in H
  <2> DEFINE f == [s \in UpTo(0, D) |-> 0]
  <2>1. \A s \in UpTo(0, D) : s = {}
    BY <1>1, FS_EmptySet DEF UpTo
  <2>2. f = [s \in UpTo(0, D) |-> SumStep(f, w, s)]
    BY <2>1 DEF SumStep
  <2> HIDE DEF f
  <2> QED BY <2>2
<1>3. ASSUME NEW n \in H PROVE n + 1 \in H
  <2>1. PICK f : f = [s \in UpTo(n, D) |-> SumStep(f, w, s)]
    OBVIOUS
  <2> DEFINE g == [s \in UpTo(n + 1, D) |-> SumStep(f, w, s)]
  <2>2. \A s \in UpTo(n, D) : f[s] = g[s]
    <3>1. UpTo(n, D) \subseteq UpTo(n + 1, D)
      BY <1>1 DEF UpTo
    <3> QED BY <2>1, <3>1
  <2>3. ASSUME NEW s \in UpTo(n + 1, D), s # {} PROVE s \ {Pick(s)} \in UpTo(n, D)
    <3>1. s \in SUBSET D /\ Cardinality(s) <= n + 1
      BY DEF UpTo
    <3>2. Cardinality(s \ {Pick(s)}) = Cardinality(s) - 1
      BY <1>1, <2>3, <3>1, Picked, FS_RemoveElement
    <3> QED BY <1>1, <3>1, <3>2 DEF UpTo
  <2>4. \A s \in UpTo(n + 1, D) : SumStep(f, w, s) = SumStep(g, w, s)
    BY <2>2, <2>3 DEF SumStep
  <2>5. g = [s \in UpTo(n + 1, D) |-> SumStep(g, w, s)]
    BY <2>4
  <2> HIDE DEF g
  <2> QED BY <2>5
<1>4. Cardinality(D) \in H
  <2> HIDE DEF H
  <2>1. H \in SUBSET Nat
    BY DEF H
  <2> QED BY <1>1, <1>2, <1>3, <2>1, Induction
<1>5. UpTo(Cardinality(D), D) = SUBSET D
  BY <1>1, FS_Subset DEF UpTo
<1> QED BY <1>4, <1>5 DEF IsSum

\* A sum is the value of that function.
LEMMA SumIs ==
  ASSUME NEW D, IsFiniteSet(D), NEW w
  PROVE  \E f : IsSum(f, w, D) /\ Sum(w, D) = f[D]
<1> DEFINE f == CHOOSE f : IsSum(f, w, D)
<1>1. IsSum(f, w, D)
  BY SumExists
<1>2. Sum(w, D) = f[D]
  BY DEF Sum, MapThenSumSet, MapThenFoldSet, IsSum, SumStep, Pick
<1> QED BY <1>1, <1>2

\* A sum depends on the values of the members only.
LEMMA SumsAgree ==
  ASSUME NEW D, IsFiniteSet(D), NEW E, NEW f, NEW g, NEW v, NEW w, IsSum(f, v, D), IsSum(g, w, E),
         D \subseteq E, \A x \in D : v[x] = w[x]
  PROVE  \A s \in SUBSET D : f[s] = g[s]
<1> DEFINE G == {s \in SUBSET D : f[s] = g[s]}
<1>1. \A s \in SUBSET D : IsFiniteSet(s) /\ Cardinality(s) \in Nat
  BY FS_Subset, FS_CardinalityType
<1>2. ASSUME NEW s \in SUBSET D, \A t \in SUBSET D : Cardinality(t) < Cardinality(s) => t \in G
      PROVE  s \in G
  <2>1. s \in SUBSET E
    OBVIOUS
  <2>2. f[s] = SumStep(f, v, s) /\ g[s] = SumStep(g, w, s)
    BY <2>1, Zenon DEF IsSum
  <2>3. CASE s = {}
    BY <2>2, <2>3 DEF SumStep
  <2>4. CASE s # {}
    <3>1. Pick(s) \in s
      BY <2>4, Picked
    <3>2. Cardinality(s \ {Pick(s)}) < Cardinality(s)
      BY <1>1, <3>1, FS_RemoveElement
    <3>3. f[s \ {Pick(s)}] = g[s \ {Pick(s)}]
      BY <1>2, <3>2
    <3>4. v[Pick(s)] = w[Pick(s)]
      BY <3>1
    <3> QED BY <2>2, <3>3, <3>4 DEF SumStep
  <2> QED BY <2>3, <2>4
<1> HIDE DEF G
<1>3. G \in SUBSET (SUBSET D)
  BY DEF G
<1>4. \A s \in SUBSET D : s \in G
  BY <1>2, <1>3, FiniteInduction
<1> QED BY <1>4 DEF G

\* Whichever element is taken off first.
LEMMA SumOff ==
  ASSUME NEW D, IsFiniteSet(D), NEW w, \A x \in D : w[x] \in Nat, NEW f, IsSum(f, w, D)
  PROVE  \A s \in SUBSET D : f[s] \in Nat /\ \A x \in s : f[s] = w[x] + f[s \ {x}]
<1> DEFINE G == {s \in SUBSET D : f[s] \in Nat /\ \A x \in s : f[s] = w[x] + f[s \ {x}]}
<1>1. \A s \in SUBSET D : IsFiniteSet(s) /\ Cardinality(s) \in Nat
  BY FS_Subset, FS_CardinalityType
<1>2. ASSUME NEW s \in SUBSET D, \A t \in SUBSET D : Cardinality(t) < Cardinality(s) => t \in G
      PROVE  s \in G
  <2>1. f[s] = SumStep(f, w, s)
    BY Zenon DEF IsSum
  <2>2. CASE s = {}
    BY <2>1, <2>2 DEF SumStep
  <2>3. CASE s # {}
    <3> DEFINE y == Pick(s)
    <3>1. y \in s /\ w[y] \in Nat
      BY <2>3, Picked
    <3>2. f[s] = w[y] + f[s \ {y}]
      BY <2>1, <2>3 DEF SumStep
    <3> HIDE DEF y
    <3>3. \A x \in s : s \ {x} \in SUBSET D /\ Cardinality(s \ {x}) < Cardinality(s)
      BY <1>1, FS_RemoveElement
    <3>4. \A x \in s : s \ {x} \in G
      BY <1>2, <3>3
    <3>5. f[s \ {y}] \in Nat /\ f[s] \in Nat
      <4>1. f[s \ {y}] \in Nat
        BY <3>1, <3>4
      <4> QED BY <3>1, <3>2, <4>1
    <3>6. ASSUME NEW x \in s, x # y PROVE f[s] = w[x] + f[s \ {x}]
      <4> DEFINE rest == (s \ {y}) \ {x}
      <4>1. rest = (s \ {x}) \ {y}
        OBVIOUS
      <4>2. x \in s \ {y} /\ y \in s \ {x} /\ s \ {x} \in G /\ s \ {y} \in G
        BY <3>1, <3>4, <3>6
      <4>3. f[s \ {y}] = w[x] + f[rest]
        BY <4>2
      <4>4. f[s \ {x}] = w[y] + f[rest]
        BY <4>1, <4>2
      <4>5. rest \in SUBSET D /\ Cardinality(rest) < Cardinality(s)
        <5>1. Cardinality(s \ {y}) < Cardinality(s) /\ s \ {y} \in SUBSET D
          BY <3>1, <3>3
        <5>3. IsFiniteSet(s \ {y}) /\ Cardinality(s \ {y}) \in Nat
          BY <1>1, <5>1
        <5>4. Cardinality(rest) = Cardinality(s \ {y}) - 1
          BY <4>2, <5>3, FS_RemoveElement
        <5>2. Cardinality(rest) \in Nat /\ Cardinality(s \ {y}) \in Nat
          BY <1>1
        <5> QED BY <1>1, <5>1, <5>2, <5>3, <5>4
      <4>6. f[rest] \in Nat /\ w[x] \in Nat
        BY <1>2, <4>5
      <4> QED BY <3>1, <3>2, <4>3, <4>4, <4>6
    <3>7. \A x \in s : f[s] = w[x] + f[s \ {x}]
      BY <3>2, <3>6
    <3> QED BY <3>5, <3>7
  <2> QED BY <2>2, <2>3
<1> HIDE DEF G
<1>3. G \in SUBSET (SUBSET D)
  BY DEF G
<1>4. \A s \in SUBSET D : s \in G
  BY <1>2, <1>3, FiniteInduction
<1> QED BY <1>4 DEF G

\* A sum over no, and over one more, element.
THEOREM SumGrows ==
  ASSUME NEW D, IsFiniteSet(D), NEW w, \A x \in D : w[x] \in Nat
  PROVE  /\ Sum(w, {}) = 0
         /\ Sum(w, D) \in Nat
         /\ \A x \in D : Sum(w, D) = w[x] + Sum(w, D \ {x})
<1>1. PICK f : IsSum(f, w, D) /\ Sum(w, D) = f[D]
  BY SumIs
<1>2. Sum(w, {}) = 0
  <2>1. PICK g : IsSum(g, w, {}) /\ Sum(w, {}) = g[{}]
    BY SumIs, FS_EmptySet
  <2>2. {} \in SUBSET {}
    OBVIOUS
  <2>3. g[{}] = SumStep(g, w, {})
    BY <2>1, <2>2, Zenon DEF IsSum
  <2> QED BY <2>1, <2>3 DEF SumStep
<1>3. ASSUME NEW x \in D PROVE Sum(w, D) = w[x] + Sum(w, D \ {x})
  <2> DEFINE rest == D \ {x}
  <2>1. IsFiniteSet(rest) /\ rest \subseteq D
    BY FS_Subset
  <2> HIDE DEF rest
  <2>2. PICK g : IsSum(g, w, rest) /\ Sum(w, rest) = g[rest]
    BY <2>1, SumIs
  <2>3. g[rest] = f[rest]
    BY <1>1, <2>1, <2>2, SumsAgree
  <2>4. f[D] = w[x] + f[D \ {x}]
    BY <1>1, SumOff
  <2> QED BY <1>1, <2>2, <2>3, <2>4 DEF rest
<1>4. Sum(w, D) \in Nat
  BY <1>1, SumOff
<1> QED BY <1>2, <1>3, <1>4

\* A sum of the same values is the same.
LEMMA SumSame ==
  ASSUME NEW D, IsFiniteSet(D), NEW v, NEW w, \A x \in D : v[x] = w[x]
  PROVE  Sum(v, D) = Sum(w, D)
<1>1. PICK f : IsSum(f, v, D) /\ Sum(v, D) = f[D]
  BY SumIs
<1>2. PICK g : IsSum(g, w, D) /\ Sum(w, D) = g[D]
  BY SumIs
<1>3. \A s \in SUBSET D : f[s] = g[s]
  BY <1>1, <1>2, SumsAgree
<1> QED BY <1>1, <1>2, <1>3
=============================================================================
