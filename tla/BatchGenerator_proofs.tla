------------------------ MODULE BatchGenerator_proofs ------------------------
(***************************************************************************)
(* Continuous batching for any number of requests, any segments, caches,    *)
(* processors and batch sizes: one inductive invariant on the queue, the    *)
(* two batches and the work beside them, from which follow that work, rows  *)
(* and caches stay aligned, that admission does not overtake, that every    *)
(* row keeps its own logits processors and that each sequence behaves as if *)
(* it were alone (the refinement of SingleRequest).                         *)
(***************************************************************************)
EXTENDS BatchRefinement, SequencesExt, Integers, TLAPS, FiniteSetTheorems, NaturalsInduction,
        WellFoundedInduction, SequenceTheorems

----------------------------------------
(* What the proofs need of naturals, finite sets and sums. *)

(* A set that has 0 and with every natural the next one has them all. *)
LEMMA SetInduction ==
  ASSUME NEW S, 0 \in S, \A n \in Nat : n \in S => n + 1 \in S
  PROVE  Nat \subseteq S
<1> SUFFICES ASSUME Nat \ S # {} PROVE FALSE
  OBVIOUS
<1>1. PICK x \in Nat \ S : \A y \in Nat \ S : ~(<<y, x>> \in OpToRel(<, Nat))
  <2>1. Nat \ S \subseteq Nat
    OBVIOUS
  <2> QED BY <2>1, NatLessThanWellFounded, WFMin, Zenon
<1>2. x # 0 /\ x - 1 \in Nat /\ x - 1 < x /\ x - 1 + 1 = x
  BY SMT
<1>3. x - 1 \in S
  <2>1. SUFFICES ASSUME x - 1 \notin S PROVE FALSE
    OBVIOUS
  <2>2. x - 1 \in Nat \ S
    BY <1>2, <2>1
  <2>3. <<x - 1, x>> \in OpToRel(<, Nat)
    <3>1. <<x - 1, x>> \in Nat \X Nat /\ <<x - 1, x>>[1] = x - 1 /\ <<x - 1, x>>[2] = x
      BY <1>2
    <3> QED BY <3>1, <1>2, Zenon DEF OpToRel
  <2> QED BY <1>1, <2>2, <2>3, Zenon
<1> QED BY <1>2, <1>3

(* A bounded set of naturals has a greatest element, and Max is it. *)
LEMMA MaxIsGreatest ==
  ASSUME NEW S \in SUBSET Nat, S # {}, NEW b \in Nat, \A x \in S : x <= b
  PROVE  Max(S) \in S /\ \A y \in S : Max(S) >= y
<1> DEFINE Gaps == {g \in Nat : \E x \in S : g = b - x}
<1>1. Gaps \in SUBSET Nat /\ Gaps # {}
  <2>1. \A x \in S : b - x \in Nat
    OBVIOUS
  <2> QED BY <2>1
<1>2. PICK g \in Gaps : \A e \in Gaps : ~(<<e, g>> \in OpToRel(<, Nat))
  <2> HIDE DEF Gaps
  <2> QED BY <1>1, NatLessThanWellFounded, WFMin, Zenon
<1>3. PICK x \in S : g = b - x
  <2>1. g \in Gaps
    BY <1>2, Zenon
  <2> QED BY <2>1
<1>4. ASSUME NEW y \in S PROVE x >= y
  <2>1. b - y \in Gaps /\ b - y \in Nat /\ b - x \in Nat
    OBVIOUS
  <2>2. <<b - y, b - x>> \in Nat \X Nat /\ <<b - y, b - x>>[1] = b - y
        /\ <<b - y, b - x>>[2] = b - x
    BY <2>1
  <2>3. ~(<<b - y, b - x>> \in OpToRel(<, Nat))
    BY <1>2, <1>3, <2>1, Zenon
  <2>4. ~(b - y < b - x)
    BY <2>2, <2>3, Zenon DEF OpToRel
  <2> QED BY <2>4
<1>5. \E z \in S : \A y \in S : z >= y
  BY <1>4
<1> QED BY <1>5, Zenon DEF Max

(* The least of two. *)
LEMMA LeastOfTwo ==
  ASSUME NEW a \in Int, NEW b \in Int
  PROVE  Min({a, b}) = IF a <= b THEN a ELSE b
<1>1. \E x \in {a, b} : \A y \in {a, b} : x =< y
  OBVIOUS
<1>2. Min({a, b}) \in {a, b} /\ \A y \in {a, b} : Min({a, b}) =< y
  BY <1>1, Zenon DEF Min
<1> QED BY <1>2

(* The recursive function SumFunction is defined by. *)
FirstOf(s) == CHOOSE x \in s : TRUE

SumStep(f, sum, s) == IF s = {} THEN 0 ELSE f[FirstOf(s)] + sum[s \ {FirstOf(s)}]

LEMMA FirstOfProperties ==
  ASSUME NEW s, s # {}
  PROVE  FirstOf(s) \in s
BY DEF FirstOf

(* The subsets of at most n elements. *)
UpTo(D, n) == {s \in SUBSET D : Cardinality(s) <= n}

(* The sizes of a finite set and of the set without an element. *)
LEMMA SizeWithout ==
  ASSUME NEW D, IsFiniteSet(D), NEW s \in SUBSET D
  PROVE  /\ IsFiniteSet(s) /\ Cardinality(s) \in Nat /\ Cardinality(s) <= Cardinality(D)
         /\ Cardinality(s) = 0 <=> s = {}
         /\ \A x \in s : Cardinality(s \ {x}) = Cardinality(s) - 1 /\ s \ {x} \in SUBSET D
<1>1. IsFiniteSet(s) /\ Cardinality(s) <= Cardinality(D)
  BY FS_Subset
<1>2. Cardinality(s) \in Nat
  BY <1>1, FS_CardinalityType
<1>3. Cardinality(s) = 0 <=> s = {}
  BY <1>1, FS_EmptySet
<1>4. \A x \in s : Cardinality(s \ {x}) = Cardinality(s) - 1
  BY <1>1, FS_RemoveElement
<1> QED BY <1>1, <1>2, <1>3, <1>4

(* That function exists, by induction on the size of the subsets. *)
LEMMA SumExists ==
  ASSUME NEW f, IsFiniteSet(DOMAIN f)
  PROVE  \E sum : sum = [s \in SUBSET DOMAIN f |-> SumStep(f, sum, s)]
<1> DEFINE D == DOMAIN f
           Has == {n \in Nat : \E sum : sum = [s \in UpTo(D, n) |-> SumStep(f, sum, s)]}
<1>1. 0 \in Has
  <2>1. \A s \in UpTo(D, 0) : s = {}
    <3> SUFFICES ASSUME NEW s \in UpTo(D, 0) PROVE s = {}
      OBVIOUS
    <3>1. s \in SUBSET D /\ Cardinality(s) <= 0
      BY DEF UpTo
    <3>2. Cardinality(s) \in Nat /\ (Cardinality(s) = 0 <=> s = {})
      BY <3>1, SizeWithout
    <3> QED BY <3>1, <3>2
  <2> DEFINE g == [s \in UpTo(D, 0) |-> 0]
  <2>2. \A s \in UpTo(D, 0) : SumStep(f, g, s) = 0
    BY <2>1 DEF SumStep
  <2>3. g = [s \in UpTo(D, 0) |-> SumStep(f, g, s)]
    BY <2>2
  <2> HIDE DEF g
  <2> QED BY <2>3
<1>2. ASSUME NEW n \in Nat, n \in Has PROVE n + 1 \in Has
  <2>1. PICK g : g = [s \in UpTo(D, n) |-> SumStep(f, g, s)]
    BY <1>2
  <2> DEFINE h == [s \in UpTo(D, n + 1) |-> IF s \in UpTo(D, n) THEN g[s] ELSE SumStep(f, g, s)]
  <2>2. ASSUME NEW s \in UpTo(D, n + 1) PROVE h[s] = SumStep(f, h, s)
    <3>1. s \in SUBSET D /\ Cardinality(s) <= n + 1
      BY DEF UpTo
    <3>2. h[s] = SumStep(f, g, s)
      <4>1. CASE s \in UpTo(D, n)
        <5>1. g[s] = SumStep(f, g, s)
          BY <2>1, <4>1
        <5> QED BY <4>1, <5>1
      <4>2. CASE s \notin UpTo(D, n)
        BY <4>2
      <4> QED BY <4>1, <4>2
    <3>3. CASE s = {}
      BY <3>2, <3>3 DEF SumStep
    <3>4. CASE s # {}
      <4> DEFINE rest == s \ {FirstOf(s)}
      <4>1. FirstOf(s) \in s
        BY <3>4, FirstOfProperties
      <4>2. /\ Cardinality(rest) = Cardinality(s) - 1 /\ rest \in SUBSET D
            /\ Cardinality(s) \in Nat
        BY <3>1, <4>1, SizeWithout
      <4> HIDE DEF rest
      <4>3. Cardinality(rest) <= n /\ Cardinality(rest) <= n + 1
        BY <3>1, <4>2
      <4>4. rest \in UpTo(D, n) /\ rest \in UpTo(D, n + 1)
        BY <4>2, <4>3 DEF UpTo
      <4>5. h[rest] = g[rest]
        BY <4>4
      <4> HIDE DEF h
      <4>6. SumStep(f, g, s) = f[FirstOf(s)] + g[rest] /\ SumStep(f, h, s) = f[FirstOf(s)] + h[rest]
        BY <3>4 DEF SumStep, rest
      <4> QED BY <3>2, <4>5, <4>6
    <3> QED BY <3>3, <3>4
  <2>3. h = [s \in UpTo(D, n + 1) |-> SumStep(f, h, s)]
    <3>1. h = [s \in UpTo(D, n + 1) |-> h[s]]
      OBVIOUS
    <3> HIDE DEF h
    <3> QED BY <2>2, <3>1, Zenon
  <2>4. n + 1 \in Nat
    OBVIOUS
  <2> HIDE DEF h
  <2> QED BY <2>3, <2>4, Zenon
<1>3. Nat \subseteq Has
  <2> HIDE DEF Has
  <2> QED BY <1>1, <1>2, SetInduction
<1>4. Cardinality(D) \in Nat
  BY FS_CardinalityType
<1>5. UpTo(D, Cardinality(D)) = SUBSET D
  <2>1. \A s \in SUBSET D : Cardinality(s) <= Cardinality(D)
    BY SizeWithout
  <2> QED BY <2>1 DEF UpTo
<1>6. Cardinality(D) \in Has
  <2> HIDE DEF Has
  <2> QED BY <1>3, <1>4
<1>7. PICK sum : sum = [s \in UpTo(D, Cardinality(D)) |-> SumStep(f, sum, s)]
  BY <1>6
<1> QED BY <1>5, <1>7, Zenon

(* sum has the sums of f over the subsets of its domain. *)
SumsOf(f, sum) ==
  /\ \A s \in SUBSET DOMAIN f : sum[s] \in Int
  /\ sum[{}] = 0
  /\ \A s \in SUBSET DOMAIN f : \A x \in s : sum[s] = f[x] + sum[s \ {x}]

(* SumFunction takes any element first, not only the one it chooses. *)
LEMMA SumFunctionSums ==
  ASSUME NEW f, IsFiniteSet(DOMAIN f), \A x \in DOMAIN f : f[x] \in Int
  PROVE  \E sum : SumFunction(f) = sum[DOMAIN f] /\ SumsOf(f, sum)
<1> DEFINE D == DOMAIN f
           sum == CHOOSE sum : sum = [s \in SUBSET D |-> SumStep(f, sum, s)]
<1>1. sum = [s \in SUBSET D |-> SumStep(f, sum, s)]
  BY SumExists
<1>2. SumFunction(f) = sum[D]
  BY DEF SumFunction, SumFunctionOnSet, FoldFunctionOnSet, MapThenFoldSet, SumStep, FirstOf
<1> HIDE DEF sum
<1>3. \A s \in SUBSET D : sum[s] = SumStep(f, sum, s)
  BY <1>1
<1> DEFINE Sound(s) == /\ sum[s] \in Int
                       /\ \A x \in s : sum[s] = f[x] + sum[s \ {x}]
           Has == {n \in Nat : \A s \in UpTo(D, n) : Sound(s)}
<1>4. sum[{}] = 0
  BY <1>3 DEF SumStep
<1>5. 0 \in Has
  <2> SUFFICES ASSUME NEW s \in UpTo(D, 0) PROVE Sound(s)
    OBVIOUS
  <2>1. s \in SUBSET D /\ Cardinality(s) <= 0
    BY DEF UpTo
  <2>2. Cardinality(s) \in Nat /\ (Cardinality(s) = 0 <=> s = {})
    BY <2>1, SizeWithout
  <2>3. s = {}
    BY <2>1, <2>2
  <2> QED BY <1>4, <2>3
<1>6. ASSUME NEW n \in Nat, n \in Has PROVE n + 1 \in Has
  <2> SUFFICES ASSUME NEW s \in UpTo(D, n + 1) PROVE Sound(s)
    OBVIOUS
  <2>1. s \in SUBSET D /\ Cardinality(s) <= n + 1
    BY DEF UpTo
  <2>2. Cardinality(s) \in Nat /\ IsFiniteSet(s)
    BY <2>1, SizeWithout
  <2>3. ASSUME NEW r \in SUBSET D, Cardinality(r) <= n PROVE Sound(r)
    BY <1>6, <2>3 DEF UpTo
  <2>4. CASE s = {}
    BY <1>4, <2>4
  <2>5. CASE s # {}
    <3> DEFINE c == FirstOf(s)
    <3>1. c \in s
      BY <2>5, FirstOfProperties
    <3>2. sum[s] = f[c] + sum[s \ {c}]
      BY <1>3, <2>1, <2>5 DEF SumStep
    <3> HIDE DEF c
    <3>3. \A x \in s : Cardinality(s \ {x}) = Cardinality(s) - 1 /\ s \ {x} \in SUBSET D
      BY <2>1, SizeWithout
    <3>4. \A x \in s : Sound(s \ {x})
      <4> SUFFICES ASSUME NEW x \in s PROVE Sound(s \ {x})
        OBVIOUS
      <4>1. Cardinality(s \ {x}) <= n /\ s \ {x} \in SUBSET D
        BY <2>1, <2>2, <3>3
      <4> HIDE DEF Sound
      <4> QED BY <2>3, <4>1
    <3>5. \A x \in s : f[x] \in Int /\ sum[s \ {x}] \in Int
      BY <2>1, <3>4
    <3>6. ASSUME NEW x \in s PROVE sum[s] = f[x] + sum[s \ {x}]
      <4>1. CASE x = c
        BY <3>2, <4>1
      <4>2. CASE x # c
        <5> DEFINE both == s \ {c, x}
        <5>1. x \in s \ {c} /\ c \in s \ {x} /\ (s \ {c}) \ {x} = both /\ (s \ {x}) \ {c} = both
          BY <3>1, <4>2
        <5>2. sum[s \ {c}] = f[x] + sum[(s \ {c}) \ {x}]
          BY <3>1, <3>4, <5>1
        <5>3. sum[s \ {x}] = f[c] + sum[(s \ {x}) \ {c}]
          BY <3>4, <5>1
        <5>4. sum[(s \ {c}) \ {x}] \in Int
          <6> DEFINE r == s \ {c}
          <6>1. r \in SUBSET D /\ Cardinality(r) = Cardinality(s) - 1 /\ x \in r
            BY <3>1, <3>3, <5>1
          <6> HIDE DEF r
          <6>2. Cardinality(r \ {x}) = Cardinality(r) - 1 /\ r \ {x} \in SUBSET D
            BY <6>1, SizeWithout
          <6>3. Cardinality(r \ {x}) <= n
            BY <2>1, <2>2, <6>1, <6>2
          <6>4. sum[r \ {x}] \in Int
            BY <2>3, <6>2, <6>3
          <6> QED BY <6>4 DEF r
        <5> HIDE DEF both
        <5>5. sum[s \ {c}] = f[x] + sum[both] /\ sum[s \ {x}] = f[c] + sum[both] /\ sum[both] \in Int
          BY <5>1, <5>2, <5>3, <5>4
        <5>6. f[x] \in Int /\ f[c] \in Int
          BY <3>1, <3>5
        <5> QED BY <3>2, <5>5, <5>6
      <4> QED BY <4>1, <4>2
    <3>7. sum[s] \in Int
      BY <3>1, <3>2, <3>5
    <3> QED BY <3>6, <3>7
  <2> QED BY <2>4, <2>5
<1>7. Nat \subseteq Has
  <2> HIDE DEF Has
  <2> QED BY <1>5, <1>6, SetInduction
<1>8. Cardinality(D) \in Nat
  BY FS_CardinalityType
<1>9. \A s \in SUBSET D : s \in UpTo(D, Cardinality(D))
  BY SizeWithout DEF UpTo
<1>10. \A s \in SUBSET D : Sound(s)
  <2> HIDE DEF Sound
  <2> QED BY <1>7, <1>8, <1>9
<1>11. SumsOf(f, sum)
  BY <1>4, <1>10 DEF SumsOf
<1> QED BY <1>2, <1>11

(* Functions that agree on a set have the same sum over it. *)
LEMMA SumsAgree ==
  ASSUME NEW f, NEW g, NEW fsum, NEW gsum, SumsOf(f, fsum), SumsOf(g, gsum),
         NEW D, IsFiniteSet(D), D \subseteq DOMAIN f, D \subseteq DOMAIN g,
         \A x \in D : f[x] = g[x]
  PROVE  fsum[D] = gsum[D]
<1> DEFINE Has == {n \in Nat : \A s \in UpTo(D, n) : fsum[s] = gsum[s]}
<1>1. ASSUME NEW s, s = {} PROVE fsum[s] = gsum[s]
  BY <1>1 DEF SumsOf
<1>2. 0 \in Has
  <2> SUFFICES ASSUME NEW s \in UpTo(D, 0) PROVE fsum[s] = gsum[s]
    OBVIOUS
  <2>1. s \in SUBSET D /\ Cardinality(s) <= 0
    BY DEF UpTo
  <2>2. Cardinality(s) \in Nat /\ (Cardinality(s) = 0 <=> s = {})
    BY <2>1, SizeWithout
  <2> QED BY <1>1, <2>1, <2>2
<1>3. ASSUME NEW n \in Nat, n \in Has PROVE n + 1 \in Has
  <2> SUFFICES ASSUME NEW s \in UpTo(D, n + 1) PROVE fsum[s] = gsum[s]
    OBVIOUS
  <2>1. s \in SUBSET D /\ Cardinality(s) <= n + 1
    BY DEF UpTo
  <2>2. CASE s # {}
    <3>1. PICK x : x \in s
      BY <2>2
    <3>2. /\ Cardinality(s \ {x}) = Cardinality(s) - 1 /\ s \ {x} \in SUBSET D
          /\ Cardinality(s) \in Nat
      BY <2>1, <3>1, SizeWithout
    <3>3. s \ {x} \in UpTo(D, n)
      BY <2>1, <3>2 DEF UpTo
    <3>4. fsum[s \ {x}] = gsum[s \ {x}]
      BY <1>3, <3>3
    <3>5. fsum[s] = f[x] + fsum[s \ {x}] /\ gsum[s] = g[x] + gsum[s \ {x}]
      BY <2>1, <3>1 DEF SumsOf
    <3> QED BY <2>1, <3>1, <3>4, <3>5
  <2> QED BY <1>1, <2>2
<1>4. Nat \subseteq Has
  <2> HIDE DEF Has
  <2> QED BY <1>2, <1>3, SetInduction
<1>5. Cardinality(D) \in Nat
  BY FS_CardinalityType
<1>6. D \in UpTo(D, Cardinality(D))
  BY SizeWithout DEF UpTo
<1> QED BY <1>4, <1>5, <1>6

(* A sum is that of the function without an element, and what it has there. *)
Without(f, x) == [k \in DOMAIN f \ {x} |-> f[k]]

LEMMA SumWithout ==
  ASSUME NEW f, IsFiniteSet(DOMAIN f), \A k \in DOMAIN f : f[k] \in Int, NEW x \in DOMAIN f
  PROVE  /\ SumFunction(f) = f[x] + SumFunction(Without(f, x))
         /\ SumFunction(f) \in Int /\ SumFunction(Without(f, x)) \in Int
<1> DEFINE g == Without(f, x)
           D == DOMAIN f \ {x}
<1>1. DOMAIN g = D /\ \A k \in D : g[k] = f[k] /\ g[k] \in Int
  BY DEF Without
<1>2. IsFiniteSet(D)
  BY FS_RemoveElement
<1> HIDE DEF g
<1>3. PICK fsum : SumFunction(f) = fsum[DOMAIN f] /\ SumsOf(f, fsum)
  BY SumFunctionSums
<1>4. PICK gsum : SumFunction(g) = gsum[DOMAIN g] /\ SumsOf(g, gsum)
  BY <1>1, <1>2, SumFunctionSums
<1>5. fsum[D] = gsum[D]
  <2>1. D \subseteq DOMAIN f /\ D \subseteq DOMAIN g /\ \A k \in D : f[k] = g[k]
    BY <1>1
  <2> HIDE DEF D
  <2> QED BY <1>2, <1>3, <1>4, <2>1, SumsAgree
<1>6. fsum[DOMAIN f] = f[x] + fsum[D] /\ fsum[DOMAIN f] \in Int /\ fsum[D] \in Int
  BY <1>3 DEF SumsOf
<1> QED BY <1>1, <1>3, <1>4, <1>5, <1>6 DEF g

LEMMA SumOfNone ==
  ASSUME NEW f, DOMAIN f = {}
  PROVE  SumFunction(f) = 0
<1>1. IsFiniteSet(DOMAIN f) /\ \A k \in DOMAIN f : f[k] \in Int
  BY FS_EmptySet
<1>2. PICK sum : SumFunction(f) = sum[DOMAIN f] /\ SumsOf(f, sum)
  BY <1>1, SumFunctionSums
<1> QED BY <1>2 DEF SumsOf

LEMMA SumType ==
  ASSUME NEW f, IsFiniteSet(DOMAIN f), \A k \in DOMAIN f : f[k] \in Int
  PROVE  SumFunction(f) \in Int
<1>1. PICK sum : SumFunction(f) = sum[DOMAIN f] /\ SumsOf(f, sum)
  BY SumFunctionSums
<1> QED BY <1>1 DEF SumsOf

(* The sum of a list grows by what is appended to it. *)
LEMMA SumAppended ==
  ASSUME NEW s \in Seq(Int), NEW x \in Int
  PROVE  /\ SumFunction(Append(s, x)) = SumFunction(s) + x
         /\ SumFunction(s) \in Int
<1> DEFINE n == Len(s)
           t == Append(s, x)
<1>1. n \in Nat /\ DOMAIN s = 1..n /\ \A i \in 1..n : s[i] \in Int
  BY LenProperties, ElementOfSeq
<1>2. DOMAIN t = 1..n + 1 /\ t[n + 1] = x /\ \A i \in 1..n : t[i] = s[i]
  BY <1>1, AppendProperties
<1>3. IsFiniteSet(DOMAIN t) /\ IsFiniteSet(DOMAIN s)
  BY <1>1, <1>2, FS_Interval
<1>4. \A i \in DOMAIN t : t[i] \in Int
  BY <1>1, <1>2
<1>5. Without(t, n + 1) = s
  <2>1. DOMAIN t \ {n + 1} = 1..n
    BY <1>1, <1>2
  <2>2. s = [i \in 1..n |-> s[i]]
    BY <1>1
  <2> QED BY <1>2, <2>1, <2>2 DEF Without
<1>6. n + 1 \in DOMAIN t
  BY <1>1, <1>2
<1> HIDE DEF t
<1>7. SumFunction(t) = t[n + 1] + SumFunction(Without(t, n + 1))
  BY <1>3, <1>4, <1>6, SumWithout
<1>8. SumFunction(s) \in Int
  BY <1>1, <1>3, SumType
<1> QED BY <1>2, <1>5, <1>7, <1>8 DEF t

(* The sum of the first elements of a list. *)
Upto(s, k) == SumFunction(SubSeq(s, 1, k))

LEMMA UptoProperties ==
  ASSUME NEW s \in Seq(Nat)
  PROVE  /\ Upto(s, 0) = 0
         /\ Upto(s, Len(s)) = SumFunction(s)
         /\ \A k \in 0..Len(s) : Upto(s, k) \in Nat
         /\ \A k \in 1..Len(s) : Upto(s, k) = Upto(s, k - 1) + s[k]
         /\ SumFunction(s) \in Nat
<1> DEFINE n == Len(s)
<1>1. n \in Nat /\ DOMAIN s = 1..n /\ \A i \in 1..n : s[i] \in Nat
  BY LenProperties, ElementOfSeq
<1>2. Upto(s, 0) = 0
  <2>1. SubSeq(s, 1, 0) = << >> /\ DOMAIN SubSeq(s, 1, 0) = {}
    OBVIOUS
  <2> QED BY <2>1, SumOfNone DEF Upto
<1>3. Upto(s, n) = SumFunction(s)
  <2>1. SubSeq(s, 1, n) = s
    BY <1>1
  <2> QED BY <2>1 DEF Upto
<1>4. ASSUME NEW k \in 1..n PROVE Upto(s, k) = Upto(s, k - 1) + s[k] /\ Upto(s, k - 1) \in Int
  <2>1. SubSeq(s, 1, k) = Append(SubSeq(s, 1, k - 1), s[k]) /\ SubSeq(s, 1, k - 1) \in Seq(Int)
        /\ s[k] \in Int
    <3>1. SubSeq(s, 1, k - 1) \in Seq(Int) /\ SubSeq(s, 1, k) \in Seq(Int) /\ s[k] \in Int
          /\ Len(SubSeq(s, 1, k - 1)) = k - 1 /\ Len(SubSeq(s, 1, k)) = k
      BY <1>1
    <3>2. Len(Append(SubSeq(s, 1, k - 1), s[k])) = k
          /\ Append(SubSeq(s, 1, k - 1), s[k]) \in Seq(Int)
      BY <3>1
    <3>3. \A i \in 1..k : SubSeq(s, 1, k)[i] = Append(SubSeq(s, 1, k - 1), s[k])[i]
      BY <1>1, <3>1
    <3> QED BY <3>1, <3>2, <3>3, SeqEqual
  <2> QED BY <2>1, SumAppended DEF Upto
<1>5. \A k \in 0..n : Upto(s, k) \in Nat
  <2> DEFINE S == {k \in Nat : k <= n => Upto(s, k) \in Nat}
  <2>1. 0 \in S
    BY <1>2
  <2>2. ASSUME NEW k \in Nat, k \in S PROVE k + 1 \in S
    <3>1. k + 1 <= n => Upto(s, k + 1) = Upto(s, k) + s[k + 1] /\ s[k + 1] \in Nat
      <4>1. SUFFICES ASSUME k + 1 <= n PROVE Upto(s, k + 1) = Upto(s, k) + s[k + 1] /\ s[k + 1] \in Nat
        OBVIOUS
      <4>2. k + 1 \in 1..n /\ k + 1 - 1 = k
        BY <1>1, <4>1
      <4> QED BY <1>1, <1>4, <4>2
    <3> QED BY <1>1, <2>2, <3>1
  <2>3. Nat \subseteq S
    <3> HIDE DEF S
    <3> QED BY <2>1, <2>2, SetInduction
  <2> QED BY <2>3, <1>1
<1> QED BY <1>1, <1>2, <1>3, <1>4, <1>5

(* The sum of a list with an element put in front. *)
LEMMA SumCons ==
  ASSUME NEW a \in Nat, NEW t \in Seq(Nat)
  PROVE  /\ SumFunction(<<a>> \o t) = a + SumFunction(t)
         /\ <<a>> \o t \in Seq(Nat) /\ Len(<<a>> \o t) = Len(t) + 1
         /\ SumFunction(t) \in Nat
         /\ \A k \in 0..Len(t) : Upto(<<a>> \o t, k + 1) = a + Upto(t, k)
<1> DEFINE u == <<a>> \o t
           n == Len(t)
           S == {k \in Nat : k <= n => Upto(u, k + 1) = a + Upto(t, k)}
<1>1. u \in Seq(Nat) /\ Len(u) = n + 1 /\ n \in Nat /\ u[1] = a
      /\ \A k \in 1..n : u[k + 1] = t[k]
  <2>1. <<a>> \in Seq(Nat) /\ Len(<<a>>) = 1 /\ <<a>>[1] = a
    OBVIOUS
  <2> QED BY <2>1, ConcatProperties, LenProperties
<1> HIDE DEF u
<1>2. 0 \in S
  <2>1. Upto(u, 1) = Upto(u, 0) + u[1] /\ Upto(u, 0) = 0 /\ Upto(t, 0) = 0
    <3>1. 1 \in 1..Len(u) /\ 1 - 1 = 0
      BY <1>1
    <3>2. Upto(u, 1) = Upto(u, 1 - 1) + u[1]
      BY <1>1, <3>1, UptoProperties
    <3> QED BY <1>1, <3>1, <3>2, UptoProperties
  <2> QED BY <1>1, <2>1
<1>3. ASSUME NEW k \in Nat, k \in S PROVE k + 1 \in S
  <2>1. SUFFICES ASSUME k + 1 <= n PROVE Upto(u, k + 1 + 1) = a + Upto(t, k + 1)
    OBVIOUS
  <2>2. k + 1 + 1 \in 1..Len(u) /\ k + 1 + 1 - 1 = k + 1 /\ k + 1 \in 1..n /\ k + 1 - 1 = k
        /\ k \in 0..n /\ k + 1 \in 0..Len(u) /\ k + 1 \in 0..n
    BY <1>1, <2>1
  <2>3. Upto(u, k + 1 + 1) = Upto(u, k + 1) + u[k + 1 + 1]
    <3>1. \A m \in 1..Len(u) : Upto(u, m) = Upto(u, m - 1) + u[m]
      BY <1>1, UptoProperties
    <3>2. PICK m \in 1..Len(u) : m = k + 1 + 1
      BY <2>2
    <3>3. Upto(u, m) = Upto(u, m - 1) + u[m] /\ m - 1 = k + 1
      BY <3>1, <3>2
    <3> QED BY <3>2, <3>3
  <2>4. Upto(t, k + 1) = Upto(t, k) + t[k + 1] /\ Upto(t, k) \in Nat
    BY <1>1, <2>2, UptoProperties, SMTT(30)
  <2>5. u[k + 1 + 1] = t[k + 1] /\ t[k + 1] \in Nat
    BY <1>1, <2>2, ElementOfSeq
  <2>6. Upto(u, k + 1) = a + Upto(t, k)
    BY <1>3, <2>1, <1>1
  <2> QED BY <2>3, <2>4, <2>5, <2>6
<1>4. Nat \subseteq S
  <2> HIDE DEF S
  <2> QED BY <1>2, <1>3, SetInduction
<1>5. Upto(u, n + 1) = SumFunction(u) /\ Upto(t, n) = SumFunction(t) /\ SumFunction(t) \in Nat
  BY <1>1, UptoProperties
<1> QED BY <1>1, <1>4, <1>5 DEF u

(* The sum of a list, by its head and its tail. *)
LEMMA SumTail ==
  ASSUME NEW s \in Seq(Nat), s # <<>>
  PROVE  /\ Head(s) \in Nat /\ Head(s) = s[1] /\ Tail(s) \in Seq(Nat) /\ Len(Tail(s)) = Len(s) - 1
         /\ SumFunction(s) = Head(s) + SumFunction(Tail(s))
         /\ SumFunction(Tail(s)) \in Nat
         /\ \A k \in 1..Len(s) : Upto(s, k) = Head(s) + Upto(Tail(s), k - 1)
<1>1. Head(s) \in Nat /\ Head(s) = s[1] /\ Tail(s) \in Seq(Nat) /\ Len(Tail(s)) = Len(s) - 1
  BY HeadTailProperties, LenProperties, ElementOfSeq, EmptySeq
<1>2. s = <<Head(s)>> \o Tail(s)
  <2>1. <<Head(s)>> \in Seq(Nat) /\ Len(<<Head(s)>>) = 1 /\ <<Head(s)>>[1] = Head(s)
    BY <1>1
  <2>2. <<Head(s)>> \o Tail(s) \in Seq(Nat) /\ Len(<<Head(s)>> \o Tail(s)) = Len(s)
    BY <1>1, <2>1, LenProperties
  <2>3. \A i \in 1..Len(s) : s[i] = (<<Head(s)>> \o Tail(s))[i]
    BY <1>1, <2>1
  <2> QED BY <2>2, <2>3, SeqEqual
<1>3. \A k \in 0..Len(Tail(s)) : Upto(s, k + 1) = Head(s) + Upto(Tail(s), k)
  BY <1>1, <1>2, SumCons
<1>4. ASSUME NEW k \in 1..Len(s) PROVE Upto(s, k) = Head(s) + Upto(Tail(s), k - 1)
  <2>1. k - 1 \in 0..Len(Tail(s)) /\ k - 1 + 1 = k
    BY <1>1, LenProperties
  <2> QED BY <1>3, <2>1
<1> QED BY <1>1, <1>2, <1>4, SumCons

----------------------------------------
(* The elements of a list at some of its places. *)

(* How many of the places come before one. *)
Rank(keep, i) == Cardinality({j \in keep : j < i})

(* The places in their order. *)
Nth(keep) == [k \in 1..Cardinality(keep) |-> CHOOSE i \in keep : Rank(keep, i) = k - 1]

(* Of two places the later has more of them before it, and none has them *)
(* all.                                                                  *)
LEMMA RankGrows ==
  ASSUME NEW n \in Nat, NEW keep \in SUBSET (1..n)
  PROVE  /\ IsFiniteSet(keep) /\ Cardinality(keep) \in Nat /\ Cardinality(keep) <= n
         /\ keep = {} <=> Cardinality(keep) = 0
         /\ \A i \in keep : Rank(keep, i) \in 0..Cardinality(keep) - 1
         /\ \A i, j \in keep : i < j => Rank(keep, i) < Rank(keep, j)
<1>1. IsFiniteSet(1..n) /\ Cardinality(1..n) = n
  BY FS_Interval
<1>2. IsFiniteSet(keep) /\ Cardinality(keep) \in Nat /\ Cardinality(keep) <= n
  BY <1>1, FS_Subset, FS_CardinalityType
<1>3. keep = {} <=> Cardinality(keep) = 0
  BY <1>2, FS_EmptySet
<1>4. ASSUME NEW S \in SUBSET keep, NEW T \in SUBSET keep, S \subseteq T, NEW x \in T, x \notin S
      PROVE  Cardinality(S) \in Nat /\ Cardinality(S) < Cardinality(T)
  <2>1. IsFiniteSet(T) /\ IsFiniteSet(S)
    BY <1>2, FS_Subset
  <2>2. Cardinality(S) \in Nat /\ Cardinality(T) \in Nat /\ Cardinality(S) <= Cardinality(T)
        /\ (Cardinality(T) = Cardinality(S) => T = S)
    BY <2>1, <1>4, FS_Subset, FS_CardinalityType
  <2> QED BY <1>4, <2>2
<1>5. ASSUME NEW i \in keep PROVE Rank(keep, i) \in 0..Cardinality(keep) - 1
  <2> DEFINE S == {j \in keep : j < i}
  <2>1. S \in SUBSET keep /\ i \notin S
    OBVIOUS
  <2>2. Cardinality(S) \in Nat /\ Cardinality(S) < Cardinality(keep)
    <3> HIDE DEF S
    <3> QED BY <1>4, <2>1
  <2> QED BY <1>2, <2>2 DEF Rank
<1>6. ASSUME NEW i \in keep, NEW j \in keep, i < j PROVE Rank(keep, i) < Rank(keep, j)
  <2> DEFINE S == {k \in keep : k < i}
             T == {k \in keep : k < j}
  <2>1. S \in SUBSET keep /\ T \in SUBSET keep /\ S \subseteq T /\ i \in T /\ i \notin S
    <3>1. ASSUME NEW k \in S PROVE k \in T
      <4>1. k \in Int /\ k < i /\ k \in keep
        OBVIOUS
      <4> QED BY <1>6, <4>1
    <3>2. ~(i < i)
      OBVIOUS
    <3> QED BY <1>6, <3>1, <3>2, Zenon
  <2>2. Cardinality(S) < Cardinality(T)
    <3> HIDE DEF S, T
    <3> QED BY <1>4, <2>1
  <2> QED BY <2>2 DEF Rank
<1> QED BY <1>2, <1>3, <1>5, <1>6

(* Nth counts the places upwards and leaves none out. *)
LEMMA NthProperties ==
  ASSUME NEW n \in Nat, NEW keep \in SUBSET (1..n)
  PROVE  /\ Nth(keep) \in [1..Cardinality(keep) -> keep]
         /\ \A j, k \in 1..Cardinality(keep) : j < k => Nth(keep)[j] < Nth(keep)[k]
         /\ \A j, k \in 1..Cardinality(keep) : Nth(keep)[j] = Nth(keep)[k] => j = k
         /\ \A i \in keep : \E k \in 1..Cardinality(keep) : Nth(keep)[k] = i
<1> DEFINE c == Cardinality(keep)
           f == [i \in keep |-> Rank(keep, i)]
<1>1. c \in Nat /\ IsFiniteSet(keep)
  BY RankGrows
<1>2. \A i \in keep : Rank(keep, i) \in 0..c - 1
  BY RankGrows
<1>3. \A i, j \in keep : i < j => Rank(keep, i) < Rank(keep, j)
  BY RankGrows
<1>4. \A i, j \in keep : Rank(keep, i) = Rank(keep, j) => i = j
  <2>1. SUFFICES ASSUME NEW i \in keep, NEW j \in keep, Rank(keep, i) = Rank(keep, j), i # j
                 PROVE FALSE
    OBVIOUS
  <2>2. i < j \/ j < i
    BY <2>1
  <2>3. Rank(keep, i) \in Int /\ Rank(keep, j) \in Int
    BY <1>1, <1>2
  <2> QED BY <1>3, <2>1, <2>2, <2>3
<1>5. f \in Injection(keep, 0..c - 1)
  BY <1>2, <1>4 DEF Injection, IsInjective
<1>6. IsFiniteSet(0..c - 1) /\ Cardinality(0..c - 1) = c
  BY <1>1, FS_Interval, SMTT(30)
<1>7. f \in Surjection(keep, 0..c - 1)
  <2> HIDE DEF f, c
  <2> QED BY <1>5, <1>6, FS_Injection DEF c
<1>8. \A k \in 0..c - 1 : \E i \in keep : Rank(keep, i) = k
  BY <1>7 DEF Surjection
<1>9. ASSUME NEW k \in 1..c
      PROVE  Nth(keep)[k] \in keep /\ Rank(keep, Nth(keep)[k]) = k - 1
  <2>1. k - 1 \in 0..c - 1
    BY <1>1
  <2>2. \E i \in keep : Rank(keep, i) = k - 1
    BY <1>8, <2>1
  <2> QED BY <2>2 DEF Nth
<1>10. \A j, k \in 1..c : j < k => Nth(keep)[j] < Nth(keep)[k]
  <2>1. SUFFICES ASSUME NEW j \in 1..c, NEW k \in 1..c, j < k, ~(Nth(keep)[j] < Nth(keep)[k])
                 PROVE FALSE
    OBVIOUS
  <2>2. Nth(keep)[j] \in Nat /\ Nth(keep)[k] \in Nat
    <3>1. Nth(keep)[j] \in keep /\ Nth(keep)[k] \in keep /\ keep \subseteq Nat
      BY <1>9
    <3> QED BY <3>1
  <2>3. Nth(keep)[k] < Nth(keep)[j] \/ Nth(keep)[k] = Nth(keep)[j]
    BY <2>1, <2>2
  <2>4. k - 1 <= j - 1
    <3>1. Nth(keep)[j] \in keep /\ Rank(keep, Nth(keep)[j]) = j - 1
          /\ Nth(keep)[k] \in keep /\ Rank(keep, Nth(keep)[k]) = k - 1
      BY <1>9
    <3>2. k - 1 < j - 1 \/ k - 1 = j - 1
      BY <1>3, <2>3, <3>1
    <3> QED BY <1>1, <3>2
  <2> QED BY <1>1, <2>1, <2>4
<1>11. \A j, k \in 1..c : Nth(keep)[j] = Nth(keep)[k] => j = k
  BY <1>1, <1>9
<1>12. \A i \in keep : \E k \in 1..c : Nth(keep)[k] = i
  <2>1. SUFFICES ASSUME NEW i \in keep PROVE \E k \in 1..c : Nth(keep)[k] = i
    OBVIOUS
  <2>2. PICK r \in 1..c : r - 1 = Rank(keep, i)
    <3>1. Rank(keep, i) \in 0..c - 1
      BY <1>2
    <3>2. \A q \in 0..c - 1 : \E r \in 1..c : r - 1 = q
      <4>1. \A q \in 0..c - 1 : q + 1 \in 1..c /\ q + 1 - 1 = q
        BY <1>1
      <4> QED BY <4>1
    <3> QED BY <3>1, <3>2
  <2>3. Nth(keep)[r] \in keep /\ Rank(keep, Nth(keep)[r]) = Rank(keep, i)
    BY <1>9, <2>2
  <2> QED BY <1>4, <2>2, <2>3
<1>13. Nth(keep) \in [1..c -> keep]
  BY <1>9 DEF Nth
<1> QED BY <1>10, <1>11, <1>12, <1>13

(* Pick keeps what is at the given places, all of them and in their order. *)
LEMMA PickProperties ==
  ASSUME NEW R, NEW s \in Seq(R), NEW keep \in SUBSET DOMAIN s
  PROVE  /\ Pick(s, keep) \in Seq(R) /\ Len(Pick(s, keep)) = Cardinality(keep)
         /\ DOMAIN Pick(s, keep) = 1..Cardinality(keep)
         /\ Cardinality(keep) \in Nat /\ Cardinality(keep) <= Len(s)
         /\ keep = {} <=> Pick(s, keep) = <<>>
         /\ \A k \in DOMAIN Pick(s, keep) :
              Nth(keep)[k] \in keep /\ Pick(s, keep)[k] = s[Nth(keep)[k]]
         /\ \A i \in keep : \E k \in DOMAIN Pick(s, keep) : Nth(keep)[k] = i
         /\ \A j, k \in DOMAIN Pick(s, keep) : Nth(keep)[j] = Nth(keep)[k] => j = k
<1> DEFINE c == Cardinality(keep)
<1>1. Len(s) \in Nat /\ DOMAIN s = 1..Len(s) /\ \A i \in DOMAIN s : s[i] \in R
  BY LenProperties, ElementOfSeq
<1>2. c \in Nat /\ c <= Len(s) /\ (keep = {} <=> c = 0)
  BY <1>1, RankGrows
<1>3. Pick(s, keep) = [k \in 1..c |-> s[Nth(keep)[k]]]
  BY DEF Pick, Nth, Rank
<1>4. \A k \in 1..c : Nth(keep)[k] \in keep
  BY <1>1, NthProperties
<1>5. Pick(s, keep) \in Seq(R) /\ Len(Pick(s, keep)) = c /\ DOMAIN Pick(s, keep) = 1..c
  <2>1. \A k \in 1..c : s[Nth(keep)[k]] \in R
    BY <1>1, <1>4
  <2> HIDE DEF c
  <2>2. Pick(s, keep) \in Seq(R)
    BY <1>2, <1>3, <2>1, IsASeq
  <2> QED BY <1>2, <1>3, <2>2, LenProperties
<1>6. keep = {} <=> Pick(s, keep) = <<>>
  BY <1>2, <1>5, EmptySeq
<1> QED BY <1>1, <1>2, <1>3, <1>4, <1>5, <1>6, NthProperties

----------------------------------------
(* Batches. *)

PromptRecords == [uid : Nat, held : Nat]
GenRecords == [uid : Nat, held : Nat, num : Nat]
Applied == Seq(Nat) \cup {None}
KindNames == {"none", "fp", "quantized"}
Records(R) == [rows : Seq(R), lp : Seq(Applied), idx : Nat, kind : KindNames]

(* A row for each sequence. *)
OneRow(rows) == \A i, j \in DOMAIN rows : rows[i].uid = rows[j].uid => i = j

(* A batch of such rows whose merged cache covers them. *)
Good(b, R) ==
  /\ b \in Records(R)
  /\ OneRow(b.rows)
  /\ Len(b.lp) >= Len(b.rows)
  /\ b.kind = "none" <=> b.rows = <<>>
  /\ \A i \in DOMAIN b.rows : b.rows[i].held <= b.idx

(* Naturals in a list have a bound. *)
LEMMA ListBounded ==
  ASSUME NEW s \in Seq(Nat)
  PROVE  \E b \in Nat : \A i \in DOMAIN s : s[i] <= b
<1> DEFINE S == {n \in Nat : \E b \in Nat : \A i \in DOMAIN s : i <= n => s[i] <= b}
<1>1. Len(s) \in Nat /\ DOMAIN s = 1..Len(s) /\ \A i \in DOMAIN s : s[i] \in Nat
  BY LenProperties, ElementOfSeq
<1>2. 0 \in S
  BY <1>1
<1>3. ASSUME NEW n \in Nat, n \in S PROVE n + 1 \in S
  <2>1. PICK b \in Nat : \A i \in DOMAIN s : i <= n => s[i] <= b
    BY <1>3
  <2>2. CASE n + 1 \in DOMAIN s
    <3>1. b + s[n + 1] \in Nat /\ s[n + 1] \in Nat
      BY <1>1, <2>2
    <3>2. PICK c \in Nat : c = b + s[n + 1]
      BY <3>1
    <3>3. \A i \in DOMAIN s : i <= n + 1 => s[i] <= c
      <4>1. SUFFICES ASSUME NEW i \in DOMAIN s, i <= n + 1 PROVE s[i] <= c
        OBVIOUS
      <4>2. s[i] \in Nat /\ (i <= n \/ i = n + 1)
        BY <1>1, <4>1
      <4> QED BY <2>1, <3>1, <3>2, <4>2
    <3>4. n + 1 \in Nat /\ c \in Nat
      BY <3>2
    <3> QED BY <3>3, <3>4, Zenon
  <2>3. CASE n + 1 \notin DOMAIN s
    <3>1. \A i \in DOMAIN s : i <= n + 1 => i <= n
      BY <1>1, <2>3
    <3>2. \A i \in DOMAIN s : i <= n + 1 => s[i] <= b
      BY <2>1, <3>1
    <3> QED BY <3>2
  <2> QED BY <2>2, <2>3
<1>4. Len(s) \in S
  <2> HIDE DEF S
  <2>1. Nat \subseteq S
    BY <1>2, <1>3, SetInduction
  <2> QED BY <1>1, <2>1
<1> QED BY <1>1, <1>4

(* The greatest of a list of naturals, and 0. *)
LEMMA GreatestOfList ==
  ASSUME NEW s \in Seq(Nat)
  PROVE  LET m == Max({0} \cup {s[i] : i \in DOMAIN s})
         IN  m \in Nat /\ \A i \in DOMAIN s : s[i] <= m
<1> DEFINE S == {0} \cup {s[i] : i \in DOMAIN s}
<1>1. \A i \in DOMAIN s : s[i] \in Nat
  BY LenProperties, ElementOfSeq
<1>2. S \in SUBSET Nat /\ S # {} /\ \A i \in DOMAIN s : s[i] \in S
  BY <1>1
<1>3. PICK b \in Nat : \A i \in DOMAIN s : s[i] <= b
  BY ListBounded
<1>4. \A x \in S : x <= b
  BY <1>3
<1> HIDE DEF S
<1>5. Max(S) \in S /\ \A y \in S : Max(S) >= y
  BY <1>2, <1>4, MaxIsGreatest
<1>6. Max(S) \in Nat /\ \A i \in DOMAIN s : s[i] <= Max(S)
  BY <1>2, <1>5, <1>1
<1> QED BY <1>6 DEF S

(* The greater of two naturals covers both. *)
LEMMA GreatestOfTwo ==
  ASSUME NEW a \in Nat, NEW b \in Nat
  PROVE  Max({a, b}) \in Nat /\ a <= Max({a, b}) /\ b <= Max({a, b})
<1>1. \A x \in {a, b} : x <= a + b /\ a + b \in Nat
  OBVIOUS
<1>2. Max({a, b}) \in {a, b} /\ \A y \in {a, b} : Max({a, b}) >= y
  BY <1>1, MaxIsGreatest
<1> QED BY <1>2

(* Longest covers what every row holds. *)
LEMMA LongestProperties ==
  ASSUME NEW R, \A r \in R : r.held \in Nat, NEW rows \in Seq(R)
  PROVE  Longest(rows) \in Nat /\ \A i \in DOMAIN rows : rows[i].held <= Longest(rows)
<1> DEFINE s == [i \in 1..Len(rows) |-> rows[i].held]
<1>1. Len(rows) \in Nat /\ DOMAIN rows = 1..Len(rows) /\ \A i \in DOMAIN rows : rows[i] \in R
  BY LenProperties, ElementOfSeq
<1>2. s \in Seq(Nat) /\ DOMAIN s = DOMAIN rows
  <2>1. \A i \in 1..Len(rows) : rows[i].held \in Nat
    BY <1>1
  <2> QED BY <1>1, <2>1, IsASeq
<1>3. {s[i] : i \in DOMAIN s} = {rows[i].held : i \in DOMAIN rows}
  BY <1>1
<1>4. \A i \in DOMAIN rows : s[i] = rows[i].held
  BY <1>1
<1> HIDE DEF s
<1>5. /\ Max({0} \cup {s[i] : i \in DOMAIN s}) \in Nat
      /\ \A i \in DOMAIN s : s[i] <= Max({0} \cup {s[i_1] : i_1 \in DOMAIN s})
  BY <1>2, GreatestOfList
<1> QED BY <1>2, <1>3, <1>4, <1>5 DEF Longest

(* A batch after a filter. *)
LEMMA FilterGood ==
  ASSUME NEW R, \A r \in R : r.uid \in Nat /\ r.held \in Nat,
         NEW b, Good(b, R), NEW keep \in SUBSET DOMAIN b.rows,
         NEW lp \in Seq(Applied), Len(lp) >= Cardinality(keep)
  PROVE  LET f == FilterRows(b, keep, lp)
         IN  /\ Good(f, R) /\ f.lp = lp
             /\ f.rows = Pick(b.rows, keep)
             /\ Len(f.rows) = Cardinality(keep) /\ Len(f.rows) <= Len(b.rows)
             /\ f.rows = <<>> <=> keep = {}
             /\ Uids(f.rows) = {b.rows[i].uid : i \in keep}
             /\ \A k \in DOMAIN f.rows :
                  Nth(keep)[k] \in keep /\ f.rows[k] = b.rows[Nth(keep)[k]]
<1> DEFINE rows == Pick(b.rows, keep)
           f == FilterRows(b, keep, lp)
<1>1. b.rows \in Seq(R) /\ b.kind \in KindNames /\ b.idx \in Nat
  BY DEF Good, Records
<1>2. /\ rows \in Seq(R) /\ Len(rows) = Cardinality(keep)
      /\ DOMAIN rows = 1..Cardinality(keep)
      /\ Cardinality(keep) \in Nat /\ Cardinality(keep) <= Len(b.rows)
      /\ keep = {} <=> rows = <<>>
      /\ \A k \in DOMAIN rows : Nth(keep)[k] \in keep /\ rows[k] = b.rows[Nth(keep)[k]]
      /\ \A i \in keep : \E k \in DOMAIN rows : Nth(keep)[k] = i
      /\ \A j, k \in DOMAIN rows : Nth(keep)[j] = Nth(keep)[k] => j = k
  BY <1>1, PickProperties
<1>3. f.rows = rows /\ f.lp = lp /\ f.idx = Longest(rows)
      /\ f.kind = (IF keep = {} THEN "none" ELSE b.kind)
  BY DEF FilterRows
<1>4. f = [rows |-> f.rows, lp |-> f.lp, idx |-> f.idx, kind |-> f.kind]
  BY DEF FilterRows
<1> HIDE DEF f, rows
<1>5. Longest(rows) \in Nat /\ \A i \in DOMAIN rows : rows[i].held <= Longest(rows)
  BY <1>2, LongestProperties
<1>6. f \in Records(R)
  <2>1. f.kind \in KindNames
    BY <1>1, <1>3 DEF KindNames
  <2> QED BY <1>2, <1>3, <1>4, <1>5, <2>1 DEF Records
<1>7. OneRow(rows)
  <2>1. SUFFICES ASSUME NEW j \in DOMAIN rows, NEW k \in DOMAIN rows, rows[j].uid = rows[k].uid
                 PROVE j = k
    BY DEF OneRow
  <2>2. Nth(keep)[j] = Nth(keep)[k]
    BY <1>2, <2>1, SMTT(30) DEF Good, OneRow
  <2> QED BY <1>2, <2>2
<1>8. f.kind = "none" <=> rows = <<>>
  <2>1. keep # {} => b.rows # <<>>
    BY <1>1, EmptySeq
  <2> QED BY <1>2, <1>3, <2>1 DEF Good
<1>9. Good(f, R)
  BY <1>2, <1>3, <1>5, <1>6, <1>7, <1>8 DEF Good
<1>10. Uids(rows) = {b.rows[i].uid : i \in keep}
  <2>1. ASSUME NEW k \in DOMAIN rows PROVE rows[k].uid \in {b.rows[i].uid : i \in keep}
    <3>1. Nth(keep)[k] \in keep /\ rows[k] = b.rows[Nth(keep)[k]]
      BY <1>2, <2>1
    <3> QED BY <3>1
  <2>2. ASSUME NEW i \in keep PROVE b.rows[i].uid \in {rows[k].uid : k \in DOMAIN rows}
    <3>1. PICK k \in DOMAIN rows : Nth(keep)[k] = i
      BY <1>2, <2>2
    <3>2. rows[k] = b.rows[i]
      BY <1>2, <3>1
    <3> QED BY <3>1, <3>2
  <2> QED BY <2>1, <2>2 DEF Uids
<1> QED BY <1>2, <1>3, <1>9, <1>10 DEF f, rows

(* Two batches joined. *)
Joined(e, a, b, R) ==
  /\ Good(e, R)
  /\ e.rows = a.rows \o b.rows
  /\ Len(e.rows) = Len(a.rows) + Len(b.rows)
  /\ Uids(e.rows) = Uids(a.rows) \cup Uids(b.rows)
  /\ \A i \in DOMAIN a.rows : e.rows[i] = a.rows[i]
  /\ \A i \in DOMAIN b.rows : e.rows[Len(a.rows) + i] = b.rows[i]
  /\ \A i \in DOMAIN e.rows : i \in DOMAIN a.rows \/ (i > Len(a.rows) /\ i - Len(a.rows) \in DOMAIN b.rows)

Rowed(R) == \A r \in R : r.uid \in Nat /\ r.held \in Nat

(* Two batches with nothing in common join to one that covers the rows of *)
(* both.                                                                  *)
LEMMA ExtendGood ==
  \A R, a, b : Rowed(R) /\ Good(a, R) /\ Good(b, R) /\ Uids(a.rows) \cap Uids(b.rows) = {} =>
    \A lp \in Seq(Applied) : Len(lp) >= Len(a.rows) + Len(b.rows) =>
      Joined(ExtendRows(a, b, lp), a, b, R) /\ ExtendRows(a, b, lp).lp = lp
<1> TAKE R, a, b
<1> HAVE Rowed(R) /\ Good(a, R) /\ Good(b, R) /\ Uids(a.rows) \cap Uids(b.rows) = {}
<1> TAKE lp \in Seq(Applied)
<1> HAVE Len(lp) >= Len(a.rows) + Len(b.rows)
<1>0. \A r \in R : r.uid \in Nat /\ r.held \in Nat
  BY DEF Rowed
<1> USE <1>0
<1> DEFINE e == ExtendRows(a, b, lp)
           rows == a.rows \o b.rows
           m == Len(a.rows)
           n == Len(b.rows)
<1>1. /\ a.rows \in Seq(R) /\ a.kind \in KindNames /\ a.idx \in Nat
      /\ b.rows \in Seq(R) /\ b.kind \in KindNames /\ b.idx \in Nat
  BY DEF Good, Records
<1>2. m \in Nat /\ n \in Nat /\ DOMAIN a.rows = 1..m /\ DOMAIN b.rows = 1..n
  BY <1>1, LenProperties
<1>3. /\ rows \in Seq(R) /\ Len(rows) = m + n /\ DOMAIN rows = 1..m + n
      /\ \A i \in 1..m : rows[i] = a.rows[i]
      /\ \A i \in 1..n : rows[m + i] = b.rows[i]
  <2>1. /\ rows \in Seq(R) /\ Len(rows) = m + n
        /\ \A i \in 1..m + n : rows[i] = IF i <= m THEN a.rows[i] ELSE b.rows[i - m]
    BY <1>1, ConcatProperties, ZenonT(40)
  <2>2. DOMAIN rows = 1..m + n
    BY <2>1, LenProperties
  <2> HIDE DEF rows, m, n
  <2>3. \A i \in 1..m : i \in 1..m + n /\ i <= m
    BY <1>2
  <2>4. ASSUME NEW i \in 1..n PROVE rows[m + i] = b.rows[i]
    <3>1. PICK j \in 1..m + n : j = m + i
      BY <1>2
    <3>2. ~(j <= m) /\ j - m = i
      BY <1>2, <3>1
    <3> QED BY <2>1, <3>1, <3>2
  <2> QED BY <2>1, <2>2, <2>3, <2>4
<1>4. e.rows = rows /\ e.lp = lp /\ e.idx = Max({a.idx, b.idx})
      /\ e.kind = (IF a.kind = "none" THEN b.kind ELSE a.kind)
  BY DEF ExtendRows, JoinedKind
<1>5. e = [rows |-> e.rows, lp |-> e.lp, idx |-> e.idx, kind |-> e.kind]
  BY DEF ExtendRows
<1> HIDE DEF e, rows, m, n
<1>6. e.idx \in Nat /\ a.idx <= e.idx /\ b.idx <= e.idx
  BY <1>1, <1>4, GreatestOfTwo
<1>7. e \in Records(R)
  <2>1. e.kind \in KindNames
    BY <1>1, <1>4
  <2> QED BY <1>3, <1>4, <1>5, <1>6, <2>1 DEF Records
<1>8. \A i \in 1..m + n : i \in 1..m \/ (i > m /\ i - m \in 1..n /\ m + (i - m) = i)
  BY <1>2
<1>9. \A i \in 1..m + n : \/ i \in 1..m /\ rows[i] = a.rows[i]
                          \/ i > m /\ i - m \in 1..n /\ rows[i] = b.rows[i - m]
  BY <1>3, <1>8
<1>10. OneRow(rows)
  <2>1. SUFFICES ASSUME NEW j \in 1..m + n, NEW k \in 1..m + n, rows[j].uid = rows[k].uid
                 PROVE j = k
    BY <1>3 DEF OneRow
  <2>2. \A i \in 1..m, i_1 \in 1..n : a.rows[i].uid # b.rows[i_1].uid
    BY <1>2 DEF Uids
  <2>3. \A i, i_1 \in 1..m : a.rows[i].uid = a.rows[i_1].uid => i = i_1
    BY <1>2 DEF Good, OneRow
  <2>4. \A i, i_1 \in 1..n : b.rows[i].uid = b.rows[i_1].uid => i = i_1
    BY <1>2 DEF Good, OneRow
  <2>5. CASE j \in 1..m /\ rows[j] = a.rows[j]
    <3>1. k \in 1..m /\ rows[k] = a.rows[k]
      BY <1>9, <2>1, <2>2, <2>5
    <3> QED BY <2>1, <2>3, <2>5, <3>1
  <2>6. CASE j > m /\ j - m \in 1..n /\ rows[j] = b.rows[j - m]
    <3>1. k > m /\ k - m \in 1..n /\ rows[k] = b.rows[k - m]
      BY <1>9, <2>1, <2>2, <2>6
    <3>2. j - m = k - m
      BY <2>1, <2>4, <2>6, <3>1
    <3> QED BY <1>2, <3>2
  <2> QED BY <1>9, <2>5, <2>6
<1>11. e.kind = "none" <=> rows = <<>>
  <2>1. rows = <<>> <=> a.rows = <<>> /\ b.rows = <<>>
    BY <1>1, <1>2, <1>3, EmptySeq
  <2> QED BY <1>4, <2>1 DEF Good
<1>12. \A i \in DOMAIN rows : rows[i].held <= e.idx
  <2>1. SUFFICES ASSUME NEW i \in 1..m + n PROVE rows[i].held <= e.idx
    BY <1>3
  <2>2. CASE i \in 1..m /\ rows[i] = a.rows[i]
    <3>1. a.rows[i] \in R /\ i \in DOMAIN a.rows
      BY <1>1, <1>2, <2>2, ElementOfSeq DEF m
    <3>2. a.rows[i].held <= a.idx /\ a.rows[i].held \in Nat
      BY <3>1 DEF Good
    <3> QED BY <1>1, <1>6, <2>2, <3>2
  <2>3. CASE i > m /\ i - m \in 1..n /\ rows[i] = b.rows[i - m]
    <3>1. b.rows[i - m] \in R /\ i - m \in DOMAIN b.rows
      BY <1>1, <1>2, <2>3, ElementOfSeq DEF n
    <3>2. b.rows[i - m].held <= b.idx /\ b.rows[i - m].held \in Nat
      BY <3>1 DEF Good
    <3> QED BY <1>1, <1>6, <2>3, <3>2
  <2> QED BY <1>9, <2>2, <2>3
<1>13. Good(e, R)
  <2>1. Len(e.lp) >= Len(e.rows)
    BY <1>3, <1>4 DEF m, n
  <2> QED BY <1>4, <1>7, <1>10, <1>11, <1>12, <2>1 DEF Good
<1>14. Uids(rows) = Uids(a.rows) \cup Uids(b.rows)
  <2>1. ASSUME NEW u PROVE u \in Uids(rows) <=> u \in Uids(a.rows) \/ u \in Uids(b.rows)
    <3>1. u \in Uids(rows) <=> \E i \in 1..m + n : u = rows[i].uid
      BY <1>3 DEF Uids
    <3>2. u \in Uids(a.rows) <=> \E i \in 1..m : u = a.rows[i].uid
      BY <1>2 DEF Uids
    <3>3. u \in Uids(b.rows) <=> \E i \in 1..n : u = b.rows[i].uid
      BY <1>2 DEF Uids
    <3>4. \A i \in 1..m : i \in 1..m + n
      BY <1>2
    <3>5. \A i \in 1..n : m + i \in 1..m + n
      BY <1>2
    <3> QED BY <1>3, <1>9, <3>1, <3>2, <3>3, <3>4, <3>5
  <2> QED BY <2>1
<1> QED
  <2>1. \A i \in DOMAIN rows : i \in DOMAIN a.rows \/ (i > m /\ i - m \in DOMAIN b.rows)
    BY <1>2, <1>3, <1>8
  <2>2. /\ \A i \in DOMAIN a.rows : rows[i] = a.rows[i]
        /\ \A i \in DOMAIN b.rows : rows[m + i] = b.rows[i]
    BY <1>2, <1>3
  <2> QED BY <1>3, <1>4, <1>13, <1>14, <2>1, <2>2 DEF Joined, e, rows, m, n

(* Rows rewritten one by one, each for its own sequence. *)
LEMMA RowsMapped ==
  ASSUME NEW R, NEW Q
  PROVE  \A rows \in Seq(R) : \A f \in [DOMAIN rows -> Q] :
           (\A i \in DOMAIN rows : f[i].uid = rows[i].uid) =>
             /\ f \in Seq(Q) /\ Len(f) = Len(rows) /\ DOMAIN f = DOMAIN rows
             /\ f = <<>> <=> rows = <<>>
             /\ Uids(f) = Uids(rows)
             /\ OneRow(rows) => OneRow(f)
<1> SUFFICES ASSUME NEW rows \in Seq(R), NEW f \in [DOMAIN rows -> Q],
                    \A i \in DOMAIN rows : f[i].uid = rows[i].uid
             PROVE  /\ f \in Seq(Q) /\ Len(f) = Len(rows) /\ DOMAIN f = DOMAIN rows
                    /\ f = <<>> <=> rows = <<>>
                    /\ Uids(f) = Uids(rows)
                    /\ OneRow(rows) => OneRow(f)
  OBVIOUS
<1>1. Len(rows) \in Nat /\ DOMAIN rows = 1..Len(rows)
  BY LenProperties
<1>2. f \in Seq(Q) /\ Len(f) = Len(rows) /\ DOMAIN f = DOMAIN rows
  <2>1. f = [i \in 1..Len(rows) |-> f[i]]
    BY <1>1
  <2>2. f \in Seq(Q) /\ DOMAIN f = 1..Len(rows)
    BY <1>1, <2>1, IsASeq
  <2> QED BY <1>1, <2>2, LenProperties
<1>3. f = <<>> <=> rows = <<>>
  BY <1>1, <1>2, EmptySeq
<1>4. Uids(f) = Uids(rows)
  BY <1>2 DEF Uids
<1>5. OneRow(rows) => OneRow(f)
  BY <1>2 DEF OneRow
<1> QED BY <1>2, <1>3, <1>4, <1>5

(* The same for the rows of a prompt batch. *)
LEMMA PromptRowsMapped ==
  \A rows \in Seq(PromptRecords) : \A f \in [DOMAIN rows -> PromptRecords] :
    (\A i \in DOMAIN rows : f[i].uid = rows[i].uid) =>
      /\ f \in Seq(PromptRecords) /\ Len(f) = Len(rows) /\ DOMAIN f = DOMAIN rows
      /\ f = <<>> <=> rows = <<>>
      /\ Uids(f) = Uids(rows)
      /\ OneRow(rows) => OneRow(f)
BY RowsMapped, Zenon

(* Quantizing a cache neither empties nor makes it. *)
LEMMA KindAtProperties ==
  ASSUME NEW kind \in KindNames, NEW idx
  PROVE  KindAt(kind, idx) \in KindNames /\ (KindAt(kind, idx) = "none" <=> kind = "none")
BY DEF KindAt, KindNames

(* A batch after a chunk of each prompt. *)
LEMMA PromptedGood ==
  ASSUME NEW b, Good(b, PromptRecords), NEW chunks \in Seq(Nat), Len(chunks) = Len(b.rows)
  PROVE  LET p == Prompted(b, chunks)
         IN  /\ Good(p, PromptRecords) /\ p.lp = b.lp
             /\ Len(p.rows) = Len(b.rows) /\ DOMAIN p.rows = DOMAIN b.rows
             /\ Uids(p.rows) = Uids(b.rows)
             /\ \A i \in DOMAIN b.rows : /\ p.rows[i].uid = b.rows[i].uid
                                         /\ p.rows[i].held = b.rows[i].held + chunks[i]
<1> DEFINE longest == Max({0} \cup {chunks[i] : i \in DOMAIN chunks})
           rows == [i \in DOMAIN b.rows |-> [b.rows[i] EXCEPT !.held = @ + chunks[i]]]
           p == Prompted(b, chunks)
<1>1. /\ b = [rows |-> b.rows, lp |-> b.lp, idx |-> b.idx, kind |-> b.kind]
      /\ b.rows \in Seq(PromptRecords) /\ b.lp \in Seq(Applied) /\ b.idx \in Nat
      /\ b.kind \in KindNames
  BY DEF Good, Records
<1>2. longest \in Nat /\ \A i \in DOMAIN chunks : chunks[i] <= longest
  BY GreatestOfList
<1>3. /\ DOMAIN b.rows = 1..Len(b.rows) /\ DOMAIN chunks = DOMAIN b.rows
      /\ \A i \in DOMAIN b.rows : chunks[i] \in Nat /\ b.rows[i] \in PromptRecords
  BY <1>1, LenProperties, ElementOfSeq
<1>4. p = [rows |-> rows, lp |-> b.lp, idx |-> b.idx + longest,
           kind |-> IF longest > 0 THEN KindAt(b.kind, b.idx + longest) ELSE b.kind]
  BY Zenon DEF Prompted
<1>5. \A i \in DOMAIN b.rows : /\ rows[i] \in PromptRecords /\ rows[i].uid = b.rows[i].uid
                               /\ rows[i].held = b.rows[i].held + chunks[i]
  <2>1. SUFFICES ASSUME NEW i \in DOMAIN b.rows
                 PROVE  rows[i] \in PromptRecords /\ rows[i].uid = b.rows[i].uid
                        /\ rows[i].held = b.rows[i].held + chunks[i]
    OBVIOUS
  <2> DEFINE r == b.rows[i]
             c == chunks[i]
  <2>2. r \in PromptRecords /\ c \in Nat /\ rows[i] = [r EXCEPT !.held = r.held + c]
    BY <1>3
  <2> HIDE DEF r, c, rows
  <2>3. rows[i] = [uid |-> r.uid, held |-> r.held + c] /\ r.uid \in Nat /\ r.held \in Nat
    BY <2>2 DEF PromptRecords
  <2>4. rows[i].uid = r.uid /\ rows[i].held = r.held + c
    BY <2>3
  <2>5. rows[i] \in PromptRecords
    BY <2>2, <2>3 DEF PromptRecords
  <2> QED BY <2>4, <2>5 DEF r, c
<1>6. rows \in [DOMAIN b.rows -> PromptRecords]
  BY <1>5
<1> HIDE DEF rows, longest, p
<1>7. /\ rows \in Seq(PromptRecords) /\ Len(rows) = Len(b.rows) /\ DOMAIN rows = DOMAIN b.rows
      /\ rows = <<>> <=> b.rows = <<>>
      /\ Uids(rows) = Uids(b.rows)
      /\ OneRow(rows)
  <2>1. \A i \in DOMAIN b.rows : rows[i].uid = b.rows[i].uid
    BY <1>5
  <2>2. b.rows \in Seq(PromptRecords)
    BY <1>1
  <2>3. /\ rows \in Seq(PromptRecords) /\ Len(rows) = Len(b.rows) /\ DOMAIN rows = DOMAIN b.rows
        /\ rows = <<>> <=> b.rows = <<>>
        /\ Uids(rows) = Uids(b.rows)
        /\ OneRow(b.rows) => OneRow(rows)
    BY <1>6, <2>1, <2>2, PromptRowsMapped
  <2> QED BY <2>3 DEF Good
<1>8. /\ p.rows = rows /\ p.lp = b.lp /\ p.idx = b.idx + longest /\ p.idx \in Nat
      /\ p.kind \in KindNames /\ (p.kind = "none" <=> b.kind = "none")
      /\ p \in Records(PromptRecords)
  <2>1. b.idx + longest \in Nat
    BY <1>1, <1>2
  <2>2. p.kind \in KindNames /\ (p.kind = "none" <=> b.kind = "none")
    BY <1>1, <1>4, KindAtProperties
  <2> QED BY <1>1, <1>4, <1>7, <2>1, <2>2 DEF Records
<1>9. \A i \in DOMAIN rows : rows[i].held <= p.idx
  <2>1. SUFFICES ASSUME NEW i \in DOMAIN b.rows PROVE rows[i].held <= p.idx
    BY <1>7
  <2>2. b.rows[i].held \in Nat /\ b.rows[i].held <= b.idx
    BY <1>3 DEF Good, PromptRecords
  <2>3. chunks[i] <= longest /\ chunks[i] \in Nat
    BY <1>2, <1>3
  <2> QED BY <1>1, <1>2, <1>5, <1>8, <2>2, <2>3
<1>10. Good(p, PromptRecords)
  BY <1>7, <1>8, <1>9 DEF Good
<1> QED BY <1>5, <1>7, <1>8, <1>10 DEF p

(* A batch after a step. *)
LEMMA SteppedGood ==
  ASSUME NEW b, Good(b, GenRecords)
  PROVE  LET p == Stepped(b)
         IN  /\ Good(p, GenRecords) /\ p.lp = b.lp
             /\ Len(p.rows) = Len(b.rows) /\ DOMAIN p.rows = DOMAIN b.rows
             /\ p.rows = <<>> <=> b.rows = <<>>
             /\ Uids(p.rows) = Uids(b.rows)
             /\ \A i \in DOMAIN b.rows :
                  p.rows[i] = [uid |-> b.rows[i].uid, held |-> b.rows[i].held + 1,
                               num |-> b.rows[i].num]
<1> DEFINE rows == [i \in DOMAIN b.rows |-> [b.rows[i] EXCEPT !.held = @ + 1]]
           p == Stepped(b)
<1>1. /\ b = [rows |-> b.rows, lp |-> b.lp, idx |-> b.idx, kind |-> b.kind]
      /\ b.rows \in Seq(GenRecords) /\ b.lp \in Seq(Applied) /\ b.idx \in Nat
      /\ b.kind \in KindNames
  BY DEF Good, Records
<1>2. \A i \in DOMAIN b.rows : b.rows[i] \in GenRecords
  BY <1>1, LenProperties, ElementOfSeq
<1>3. p = [rows |-> rows, lp |-> b.lp, idx |-> b.idx + 1, kind |-> KindAt(b.kind, b.idx + 1)]
  BY Zenon DEF Stepped
<1>4. \A i \in DOMAIN b.rows :
        /\ rows[i] = [uid |-> b.rows[i].uid, held |-> b.rows[i].held + 1, num |-> b.rows[i].num]
        /\ rows[i] \in GenRecords
        /\ rows[i].uid = b.rows[i].uid /\ rows[i].held = b.rows[i].held + 1
  BY <1>2 DEF GenRecords
<1>5. rows \in [DOMAIN b.rows -> GenRecords]
  BY <1>4
<1> HIDE DEF rows, p
<1>6. /\ rows \in Seq(GenRecords) /\ Len(rows) = Len(b.rows) /\ DOMAIN rows = DOMAIN b.rows
      /\ rows = <<>> <=> b.rows = <<>>
      /\ Uids(rows) = Uids(b.rows)
      /\ OneRow(rows)
  <2>1. \A i \in DOMAIN b.rows : rows[i].uid = b.rows[i].uid
    BY <1>4
  <2> QED BY <1>1, <1>5, <2>1, RowsMapped DEF Good
<1>7. /\ p.rows = rows /\ p.lp = b.lp /\ p.idx = b.idx + 1 /\ p.idx \in Nat
      /\ p.kind \in KindNames /\ (p.kind = "none" <=> b.kind = "none")
      /\ p \in Records(GenRecords)
  <2>1. b.idx + 1 \in Nat
    BY <1>1
  <2>2. p.kind \in KindNames /\ (p.kind = "none" <=> b.kind = "none")
    BY <1>1, <1>3, KindAtProperties
  <2> QED BY <1>1, <1>3, <1>6, <2>1, <2>2 DEF Records
<1>8. \A i \in DOMAIN rows : rows[i].held <= p.idx
  <2>1. SUFFICES ASSUME NEW i \in DOMAIN b.rows PROVE rows[i].held <= p.idx
    BY <1>6
  <2>2. b.rows[i].held \in Nat /\ b.rows[i].held <= b.idx
    BY <1>2 DEF Good, GenRecords
  <2>3. rows[i].held = b.rows[i].held + 1
    BY <1>4
  <2> QED BY <1>1, <1>7, <2>2, <2>3
<1>9. Good(p, GenRecords)
  BY <1>6, <1>7, <1>8 DEF Good
<1> QED BY <1>4, <1>6, <1>7, <1>9 DEF p

----------------------------------------
(* Lists without repetition. *)

Distinct(s) == \A i, j \in DOMAIN s : s[i] = s[j] => i = j
In(s) == {s[i] : i \in DOMAIN s}

(* Some places of a list without repetition. *)
LEMMA PickDistinct ==
  ASSUME NEW R, NEW s \in Seq(R), Distinct(s), NEW keep \in SUBSET DOMAIN s
  PROVE  /\ Pick(s, keep) \in Seq(R) /\ Distinct(Pick(s, keep))
         /\ Len(Pick(s, keep)) = Cardinality(keep)
         /\ In(Pick(s, keep)) = {s[i] : i \in keep}
<1> DEFINE t == Pick(s, keep)
<1>1. /\ t \in Seq(R) /\ Len(t) = Cardinality(keep)
      /\ \A k \in DOMAIN t : Nth(keep)[k] \in keep /\ t[k] = s[Nth(keep)[k]]
      /\ \A i \in keep : \E k \in DOMAIN t : Nth(keep)[k] = i
      /\ \A j, k \in DOMAIN t : Nth(keep)[j] = Nth(keep)[k] => j = k
  BY PickProperties
<1> HIDE DEF t
<1>2. Distinct(t)
  <2>1. SUFFICES ASSUME NEW j \in DOMAIN t, NEW k \in DOMAIN t, t[j] = t[k] PROVE j = k
    BY DEF Distinct
  <2>2. Nth(keep)[j] = Nth(keep)[k]
    BY <1>1, <2>1 DEF Distinct
  <2> QED BY <1>1, <2>2
<1>3. In(t) = {s[i] : i \in keep}
  BY <1>1 DEF In
<1> QED BY <1>1, <1>2, <1>3 DEF t

(* All the places in their order are the list itself. *)
LEMMA PickAll ==
  ASSUME NEW R, NEW s \in Seq(R)
  PROVE  Pick(s, DOMAIN s) = s
<1> DEFINE n == Len(s)
<1>1. n \in Nat /\ DOMAIN s = 1..n
  BY LenProperties
<1>2. IsFiniteSet(1..n) /\ Cardinality(1..n) = n
  BY <1>1, FS_Interval
<1>3. ASSUME NEW i \in 1..n PROVE Rank(1..n, i) = i - 1
  <2>1. {j \in 1..n : j < i} = 1..i - 1
    BY <1>1
  <2>2. Cardinality(1..i - 1) = i - 1
    BY FS_Interval
  <2> QED BY <2>1, <2>2 DEF Rank
<1>4. ASSUME NEW k \in 1..n PROVE Nth(1..n)[k] = k
  <2>1. Nth(1..n)[k] = CHOOSE i \in 1..n : Rank(1..n, i) = k - 1
    BY <1>2 DEF Nth
  <2>2. Rank(1..n, k) = k - 1
    BY <1>3
  <2>3. \A i \in 1..n : Rank(1..n, i) = k - 1 => i = k
    <3>1. SUFFICES ASSUME NEW i \in 1..n, Rank(1..n, i) = k - 1 PROVE i = k
      OBVIOUS
    <3>2. i - 1 = k - 1
      BY <1>3, <3>1
    <3> QED BY <3>2
  <2> QED BY <2>1, <2>2, <2>3
<1>5. Pick(s, 1..n) = [k \in 1..n |-> s[Nth(1..n)[k]]]
  BY <1>2 DEF Pick, Nth, Rank
<1>6. Pick(s, 1..n) = [k \in 1..n |-> s[k]]
  BY <1>4, <1>5
<1>7. s = [k \in 1..n |-> s[k]]
  BY <1>1
<1> QED BY <1>1, <1>6, <1>7

----------------------------------------
(* The segments of a prompt and what is left of them. *)

(* Where the feeding of a list of segments stops. *)
Stops(segments) == {x \in Nat : \E k \in DOMAIN segments : x = Upto(segments, k)}

(* Segments are not empty, nor is any sum of them. *)
LEMMA PositiveSegments ==
  ASSUME NEW s \in Seq(Nat \ {0})
  PROVE  /\ s \in Seq(Nat) /\ Len(s) \in Nat /\ DOMAIN s = 1..Len(s)
         /\ \A k \in DOMAIN s : s[k] \in Nat /\ s[k] > 0
         /\ SumFunction(s) \in Nat
         /\ \A k \in DOMAIN s : Upto(s, k) \in Nat /\ Upto(s, k) > 0
         /\ s # <<>> => SumFunction(s) > 0 /\ Len(s) \in DOMAIN s
<1>1. s \in Seq(Nat) /\ Len(s) \in Nat /\ DOMAIN s = 1..Len(s)
      /\ \A k \in DOMAIN s : s[k] \in Nat \ {0}
  <2>1. s \in Seq(Nat)
    BY SeqMonotonic
  <2> QED BY <2>1, LenProperties, ElementOfSeq
<1>2. \A k \in DOMAIN s : Upto(s, k) \in Nat /\ Upto(s, k) > 0
  <2>1. SUFFICES ASSUME NEW k \in 1..Len(s) PROVE Upto(s, k) \in Nat /\ Upto(s, k) > 0
    BY <1>1
  <2>2. k - 1 \in 0..Len(s)
    BY <1>1
  <2>3. Upto(s, k) = Upto(s, k - 1) + s[k] /\ Upto(s, k - 1) \in Nat
    BY <1>1, <2>2, UptoProperties
  <2> QED BY <1>1, <2>3
<1>3. SumFunction(s) \in Nat /\ Upto(s, Len(s)) = SumFunction(s)
  BY <1>1, UptoProperties
<1>4. s # <<>> => Len(s) \in DOMAIN s
  BY <1>1, EmptySeq
<1> QED BY <1>1, <1>2, <1>3, <1>4

(* The first stop is the first segment, the others are those of the tail. *)
LEMMA StopsOfTail ==
  ASSUME NEW s \in Seq(Nat \ {0}), s # <<>>, NEW x \in Nat
  PROVE  x \in Stops(s) <=> x = Head(s) \/ (x > Head(s) /\ x - Head(s) \in Stops(Tail(s)))
<1>1. /\ s \in Seq(Nat) /\ Len(s) \in Nat /\ DOMAIN s = 1..Len(s) /\ Len(s) \in DOMAIN s
      /\ Tail(s) \in Seq(Nat \ {0})
  BY PositiveSegments, HeadTailProperties
<1>2. /\ Head(s) \in Nat /\ Head(s) = s[1] /\ Len(Tail(s)) = Len(s) - 1
      /\ \A k \in 1..Len(s) : Upto(s, k) = Head(s) + Upto(Tail(s), k - 1)
  BY <1>1, SumTail
<1>3. /\ DOMAIN Tail(s) = 1..Len(s) - 1
      /\ \A k \in 1..Len(s) - 1 : Upto(Tail(s), k) \in Nat /\ Upto(Tail(s), k) > 0
      /\ Upto(Tail(s), 0) = 0
  BY <1>1, <1>2, PositiveSegments, UptoProperties
<1>4. ASSUME x \in Stops(s)
      PROVE  x = Head(s) \/ (x > Head(s) /\ x - Head(s) \in Stops(Tail(s)))
  <2>1. PICK k \in 1..Len(s) : x = Upto(s, k)
    BY <1>1, <1>4 DEF Stops
  <2>2. CASE k = 1
    BY <1>2, <1>3, <2>1, <2>2
  <2>3. CASE k # 1
    <3>1. PICK j \in 1..Len(s) - 1 : j = k - 1
      BY <1>1, <2>3
    <3>2. x = Head(s) + Upto(Tail(s), j) /\ Upto(Tail(s), j) \in Nat /\ Upto(Tail(s), j) > 0
      BY <1>2, <1>3, <2>1, <3>1
    <3>3. x > Head(s) /\ x - Head(s) = Upto(Tail(s), j) /\ x - Head(s) \in Nat
      BY <1>2, <3>2
    <3> QED BY <1>3, <3>3 DEF Stops
  <2> QED BY <2>2, <2>3
<1>5. ASSUME x = Head(s) PROVE x \in Stops(s)
  <2>1. 1 \in 1..Len(s) /\ 1 - 1 = 0
    BY <1>1
  <2>2. Upto(s, 1) = Head(s) + Upto(Tail(s), 0)
    BY <1>2, <2>1
  <2>3. x = Upto(s, 1)
    BY <1>2, <1>3, <1>5, <2>2
  <2> QED BY <1>1, <2>1, <2>3 DEF Stops
<1>6. ASSUME x > Head(s), x - Head(s) \in Stops(Tail(s)) PROVE x \in Stops(s)
  <2>1. PICK k \in 1..Len(s) - 1 : x - Head(s) = Upto(Tail(s), k)
    BY <1>3, <1>6 DEF Stops
  <2>2. PICK j \in 1..Len(s) : j = k + 1
    BY <1>1
  <2>3. Upto(s, j) = Head(s) + Upto(Tail(s), k)
    <3>1. j - 1 = k
      BY <2>2
    <3> QED BY <1>2, <3>1
  <2>4. x = Upto(s, j)
    BY <1>2, <1>3, <2>1, <2>3
  <2> QED BY <1>1, <2>4 DEF Stops
<1> QED BY <1>4, <1>5, <1>6

(* Segments as a list of integers. *)
LEMMA PositiveInt ==
  ASSUME NEW s \in Seq(Nat \ {0})
  PROVE  s \in Seq(Int)
<1>1. Nat \ {0} \subseteq Int
  OBVIOUS
<1> QED BY <1>1, SeqMonotonic

(* The last token apart: no token is lost, and the only stop added is the *)
(* one before it.                                                         *)
LEMMA LastApartProperties ==
  ASSUME NEW s \in Seq(Nat \ {0}), s # <<>>
  PROVE  /\ LastApart(s) \in Seq(Nat \ {0}) /\ LastApart(s) # <<>> /\ Last(LastApart(s)) = 1
         /\ SumFunction(LastApart(s)) = SumFunction(s)
         /\ Stops(LastApart(s)) = Stops(s) \cup ({SumFunction(s) - 1} \ {0})
<1>0. PICK n \in Nat : n = Len(s)
  BY LenProperties
<1> DEFINE z == SumFunction(s)
<1>1. /\ s \in Seq(Nat) /\ n \in Nat /\ n > 0 /\ DOMAIN s = 1..n /\ n \in 1..n
      /\ \A k \in 1..n : s[k] \in Nat /\ s[k] > 0
      /\ \A k \in 1..n : Upto(s, k) \in Nat /\ Upto(s, k) > 0
      /\ z \in Nat /\ z > 0
  BY <1>0, PositiveSegments
<1>2. Upto(s, n) = z /\ Upto(s, n) = Upto(s, n - 1) + s[n] /\ Upto(s, 0) = 0
      /\ Upto(s, n - 1) \in Nat
  <2>1. n - 1 \in 0..n
    BY <1>1
  <2> QED BY <1>0, <1>1, <2>1, UptoProperties
<1>3. CASE s[n] = 1
  <2>1. LastApart(s) = s /\ Last(s) = 1
    BY <1>0, <1>3 DEF LastApart, Last
  <2>2. z - 1 # 0 => z - 1 \in Stops(s)
    <3>1. z - 1 = Upto(s, n - 1)
      BY <1>1, <1>2, <1>3
    <3>2. n - 1 = 0 \/ n - 1 \in 1..n
      BY <1>1
    <3> QED BY <1>1, <1>2, <3>1, <3>2 DEF Stops
  <2> QED BY <2>1, <2>2
<1>4. CASE s[n] # 1
  <2> DEFINE f == Front(s)
             t == Append(f, s[n] - 1)
             l == LastApart(s)
  <2>1. /\ f \in Seq(Nat \ {0}) /\ Len(f) = n - 1
        /\ \A k \in 1..n - 1 : f[k] = s[k]
    <3>1. f = SubSeq(s, 1, n - 1)
      BY <1>0 DEF Front
    <3> QED BY <1>0, <1>1, <3>1
  <2>2. s[n] - 1 \in Nat \ {0}
    BY <1>1, <1>4
  <2>3. s = Append(f, s[n])
    <3>1. Append(f, s[n]) \in Seq(Nat \ {0}) /\ Len(Append(f, s[n])) = n
      <4>1. s[n] \in Nat \ {0}
        BY <1>1
      <4>2. Append(f, s[n]) \in Seq(Nat \ {0}) /\ Len(Append(f, s[n])) = Len(f) + 1
        <5> HIDE DEF f
        <5> QED BY <2>1, <4>1, AppendProperties
      <4> QED BY <2>1, <4>2
    <3>2. ASSUME NEW i \in 1..n PROVE s[i] = Append(f, s[n])[i]
      <4>1. /\ i \in 1..n - 1 => Append(f, s[n])[i] = f[i]
            /\ Append(f, s[n])[n] = s[n]
        <5> HIDE DEF f
        <5> QED BY <2>1
      <4>2. i \in 1..n - 1 \/ i = n
        OBVIOUS
      <4> HIDE DEF f
      <4> QED BY <2>1, <4>1, <4>2
    <3> HIDE DEF f
    <3> QED BY <1>0, <3>1, <3>2, SeqEqual
  <2>4. l = Append(t, 1)
    <3>1. l = f \o <<s[n] - 1, 1>>
      BY <1>0, <1>4 DEF LastApart, Last
    <3> HIDE DEF f, l
    <3>2. <<s[n] - 1, 1>> \in Seq(Nat \ {0}) /\ Len(<<s[n] - 1, 1>>) = 2
          /\ <<s[n] - 1, 1>>[1] = s[n] - 1 /\ <<s[n] - 1, 1>>[2] = 1
      BY <2>2
    <3>3. l \in Seq(Nat \ {0}) /\ Len(l) = n + 1
      BY <1>1, <2>1, <3>1, <3>2
    <3>4. Append(t, 1) \in Seq(Nat \ {0}) /\ Len(Append(t, 1)) = n + 1
      <4>1. t \in Seq(Nat \ {0}) /\ Len(t) = Len(f) + 1
        BY <2>1, <2>2, AppendProperties
      <4>2. 1 \in Nat \ {0}
        OBVIOUS
      <4> HIDE DEF t
      <4>3. Append(t, 1) \in Seq(Nat \ {0}) /\ Len(Append(t, 1)) = Len(t) + 1
        BY <4>1, <4>2, AppendProperties
      <4> QED BY <2>1, <4>1, <4>3
    <3>5. \A i \in 1..n + 1 : l[i] = Append(t, 1)[i]
      BY <1>1, <2>1, <2>2, <3>1, <3>2
    <3> QED BY <3>3, <3>4, <3>5, SeqEqual
  <2>5. /\ l \in Seq(Nat \ {0}) /\ l # <<>> /\ Last(l) = 1
        /\ Len(l) = n + 1 /\ DOMAIN l = 1..n + 1
        /\ t \in Seq(Nat \ {0}) /\ Len(t) = n
        /\ \A k \in 1..n - 1 : SubSeq(l, 1, k) = SubSeq(s, 1, k)
        /\ SubSeq(l, 1, n) = t /\ SubSeq(l, 1, n + 1) = l
    <3> HIDE DEF f, l
    <3>1. t \in Seq(Nat \ {0}) /\ Len(t) = n
      <4>1. Len(t) = Len(f) + 1 /\ t \in Seq(Nat \ {0})
        BY <2>1, <2>2, AppendProperties
      <4> QED BY <2>1, <4>1
    <3> HIDE DEF t
    <3>2. l \in Seq(Nat \ {0}) /\ Len(l) = n + 1 /\ l[n + 1] = 1 /\ l # <<>>
      <4>1. 1 \in Nat \ {0}
        OBVIOUS
      <4>2. l \in Seq(Nat \ {0}) /\ Len(l) = Len(t) + 1 /\ l[Len(t) + 1] = 1 /\ l # <<>>
        <5> DEFINE e == Append(t, 1)
        <5>1. e \in Seq(Nat \ {0}) /\ Len(e) = Len(t) + 1 /\ e[Len(t) + 1] = 1 /\ e # <<>>
          BY <3>1, <4>1, AppendProperties, SMTT(30)
        <5>2. l = e
          BY <2>4
        <5> HIDE DEF e
        <5> QED BY <5>1, <5>2, Zenon
      <4> QED BY <3>1, <4>2
    <3>3. \A k \in 1..n - 1 : SubSeq(l, 1, k) = SubSeq(s, 1, k)
      <4>1. SUFFICES ASSUME NEW k \in 1..n - 1 PROVE SubSeq(l, 1, k) = SubSeq(s, 1, k)
        OBVIOUS
      <4>2. \A i \in 1..k : l[i] = s[i]
        <5>1. \A i \in 1..k : i \in 1..n /\ i \in 1..n - 1
          BY <1>1
        <5>2. \A i \in 1..n : l[i] = t[i]
          BY <1>1, <2>4, <3>1
        <5>3. \A i \in 1..n - 1 : t[i] = f[i]
          BY <1>1, <2>1, <2>2 DEF t
        <5> QED BY <2>1, <5>1, <5>2, <5>3
      <4>3. SubSeq(l, 1, k) = [i \in 1..k |-> l[i]] /\ SubSeq(s, 1, k) = [i \in 1..k |-> s[i]]
        BY <1>0, <1>1, <3>2
      <4> QED BY <4>2, <4>3
    <3>4. SubSeq(l, 1, n) = t
      <4>1. SubSeq(l, 1, n) = [i \in 1..n |-> l[i]]
        BY <1>1, <3>2
      <4>2. t = [i \in 1..n |-> t[i]]
        BY <3>1
      <4>3. \A i \in 1..n : l[i] = t[i]
        BY <1>1, <2>4, <3>1
      <4> QED BY <4>1, <4>2, <4>3
    <3>5. SubSeq(l, 1, n + 1) = l
      BY <3>2
    <3>6. Last(l) = 1 /\ DOMAIN l = 1..n + 1
      BY <3>2, LenProperties DEF Last
    <3> QED BY <3>1, <3>2, <3>3, <3>4, <3>5, <3>6
  <2>6. /\ SumFunction(s) = SumFunction(f) + s[n] /\ SumFunction(f) \in Int
        /\ SumFunction(t) = SumFunction(f) + (s[n] - 1)
        /\ SumFunction(l) = SumFunction(t) + 1
    <3>1. f \in Seq(Int) /\ t \in Seq(Int) /\ s[n] \in Int /\ s[n] - 1 \in Int /\ 1 \in Int
      <4>1. f \in Seq(Nat \ {0}) /\ t \in Seq(Nat \ {0})
        BY <2>1, <2>5
      <4>2. s[n] \in Int /\ s[n] - 1 \in Int /\ 1 \in Int
        BY <1>1
      <4> HIDE DEF f, t
      <4> QED BY <4>1, <4>2, PositiveInt
    <3> HIDE DEF f
    <3>2. SumFunction(Append(f, s[n])) = SumFunction(f) + s[n] /\ SumFunction(f) \in Int
      BY <3>1, SumAppended
    <3>3. SumFunction(t) = SumFunction(f) + (s[n] - 1)
      BY <3>1, SumAppended
    <3>4. SumFunction(Append(t, 1)) = SumFunction(t) + 1
      <4> HIDE DEF t
      <4> QED BY <3>1, SumAppended
    <3> QED BY <2>3, <2>4, <3>2, <3>3, <3>4
  <2> HIDE DEF f, t, l
  <2>7. SumFunction(l) = z /\ Upto(l, n + 1) = z /\ Upto(l, n) = z - 1
        /\ \A k \in 1..n - 1 : Upto(l, k) = Upto(s, k)
    <3>1. SumFunction(l) = z /\ SumFunction(t) = z - 1
      BY <1>1, <2>6
    <3> QED BY <2>5, <3>1 DEF Upto
  <2>8. z - 1 # 0
    BY <1>1, <1>2, <1>4
  <2>9. ASSUME NEW x \in Nat
        PROVE  x \in Stops(l) <=> x \in Stops(s) \/ x = z - 1
    <3>1. x \in Stops(l) <=> \E k \in 1..n + 1 : x = Upto(l, k)
      BY <2>5 DEF Stops
    <3>2. x \in Stops(s) <=> \E k \in 1..n : x = Upto(s, k)
      BY <1>1 DEF Stops
    <3>3. \A k \in 1..n + 1 : k \in 1..n - 1 \/ k = n \/ k = n + 1
      BY <1>1
    <3>4. \A k \in 1..n : k \in 1..n - 1 \/ k = n
      BY <1>1
    <3>5. \A k \in 1..n - 1 : k \in 1..n + 1 /\ k \in 1..n
      BY <1>1
    <3>6. n \in 1..n + 1 /\ n + 1 \in 1..n + 1
      BY <1>1
    <3>7. ASSUME x \in Stops(l) PROVE x \in Stops(s) \/ x = z - 1
      <4>1. PICK k \in 1..n + 1 : x = Upto(l, k)
        BY <3>1, <3>7
      <4> QED BY <1>1, <1>2, <2>7, <3>2, <3>3, <3>5, <4>1
    <3>8. ASSUME x \in Stops(s) PROVE x \in Stops(l)
      <4>1. PICK k \in 1..n : x = Upto(s, k)
        BY <3>2, <3>8
      <4>2. CASE k \in 1..n - 1
        BY <2>7, <3>1, <3>5, <4>1, <4>2
      <4>3. CASE k = n
        <5>1. x = Upto(l, n + 1)
          BY <1>2, <2>7, <4>1, <4>3
        <5> QED BY <3>1, <3>6, <5>1
      <4> QED BY <3>4, <4>2, <4>3
    <3>9. ASSUME x = z - 1 PROVE x \in Stops(l)
      BY <2>7, <3>1, <3>6, <3>9
    <3> QED BY <3>7, <3>8, <3>9
  <2>10. Stops(l) = Stops(s) \cup ({z - 1} \ {0})
    <3>1. Stops(l) \subseteq Nat /\ Stops(s) \subseteq Nat /\ z - 1 \in Nat
      BY <1>1 DEF Stops
    <3> QED BY <2>8, <2>9, <3>1
  <2> QED BY <2>5, <2>7, <2>10 DEF l
<1> QED BY <1>3, <1>4

AskedRecords == [segments : Segmentings, max : MaxTokens, held : Nat,
                 kind : {"fp", "quantized"}, lp : Seq(Nat)]
WorkRecords == [segments : Seq(Nat \ {0}), done : Nat, total : Nat]

AllOf(uid) == SumFunction(asked[uid].segments)

(* What is left of a row's segments is what its KV cache still misses, and *)
(* stops where the segments of the request do.                             *)
Aligned(row, work) ==
  /\ work.segments # <<>> /\ Last(work.segments) = 1
  /\ work.total = AllOf(row.uid)
  /\ row.held = asked[row.uid].held + work.done
  /\ SumFunction(work.segments) + work.done = AllOf(row.uid)
  /\ \A x \in Nat \ {0} : x \in Stops(work.segments) <=>
                            x + work.done \in Stops(LastApart(asked[row.uid].segments))

(* What was asked of a sequence. *)
LEMMA AskedProperties ==
  ASSUME asked \in Seq(AskedRecords), NEW uid \in DOMAIN asked
  PROVE  /\ asked[uid] \in AskedRecords
         /\ asked[uid].segments \in Seq(Nat \ {0}) /\ asked[uid].segments # <<>>
         /\ asked[uid].held \in Nat /\ asked[uid].max \in Nat \cup {-1}
         /\ asked[uid].kind \in {"fp", "quantized"} /\ asked[uid].lp \in Seq(Nat)
         /\ AllOf(uid) \in Nat /\ AllOf(uid) > 0
         /\ uid \in Nat
<1>1. asked[uid] \in AskedRecords /\ uid \in Nat
  BY LenProperties, ElementOfSeq
<1>2. asked[uid].segments \in Seq(Nat \ {0}) /\ asked[uid].segments # <<>>
  BY <1>1, SegmentingsAssumption DEF AskedRecords
<1>3. asked[uid].held \in Nat /\ asked[uid].max \in Nat \cup {-1}
      /\ asked[uid].kind \in {"fp", "quantized"} /\ asked[uid].lp \in Seq(Nat)
  BY <1>1, SizesAssumption DEF AskedRecords
<1>4. AllOf(uid) \in Nat /\ AllOf(uid) > 0
  BY <1>2, PositiveSegments DEF AllOf
<1> QED BY <1>1, <1>2, <1>3, <1>4

(* A list with an element put in front. *)
LEMMA ConsProperties ==
  ASSUME NEW R, NEW x \in R, NEW t \in Seq(R)
  PROVE  /\ <<x>> \o t \in Seq(R) /\ Len(<<x>> \o t) = Len(t) + 1 /\ <<x>> \o t # <<>>
         /\ Head(<<x>> \o t) = x /\ Tail(<<x>> \o t) = t
         /\ t # <<>> => Last(<<x>> \o t) = Last(t)
<1> DEFINE o == <<x>>
           new == o \o t
<1>1. o \in Seq(R) /\ Len(o) = 1 /\ o[1] = x
  OBVIOUS
<1> HIDE DEF o
<1>2. PICK n \in Nat : n = Len(t)
  BY LenProperties
<1>3. /\ new \in Seq(R) /\ Len(new) = 1 + n
      /\ \A i \in 1..Len(new) : new[i] = IF i <= 1 THEN o[i] ELSE t[i - 1]
  <2>1. /\ new \in Seq(R) /\ Len(new) = Len(o) + Len(t)
        /\ \A i \in 1..Len(o) + Len(t) : new[i] = IF i <= Len(o) THEN o[i] ELSE t[i - Len(o)]
    BY <1>1, ConcatProperties
  <2> HIDE DEF new
  <2> QED BY <1>1, <1>2, <2>1
<1> HIDE DEF new
<1>4. new[1] = x /\ \A i \in 1..n : new[i + 1] = t[i]
  <2>1. 1 \in 1..Len(new)
    BY <1>3
  <2>2. new[1] = x
    BY <1>1, <1>3, <2>1
  <2>3. ASSUME NEW i \in 1..n PROVE new[i + 1] = t[i]
    <3>1. PICK j \in 1..Len(new) : j = i + 1
      BY <1>3
    <3>2. ~(j <= 1) /\ j - 1 = i
      BY <3>1
    <3> QED BY <1>3, <3>1, <3>2
  <2> QED BY <2>2, <2>3
<1>5. new # <<>>
  BY <1>3, EmptySeq
<1>6. Head(new) = x
  BY <1>3, <1>4, <1>5, HeadTailProperties
<1>7. Tail(new) = t
  <2>1. PICK v \in Seq(R) : v = Tail(new)
    BY <1>3, <1>5, HeadTailProperties
  <2>2. Len(v) = n /\ \A i \in 1..Len(v) : v[i] = new[i + 1]
    BY <1>3, <1>5, <2>1, HeadTailProperties
  <2>3. \A i \in 1..Len(v) : v[i] = t[i]
    BY <1>4, <2>2
  <2>4. v = t
    BY <1>2, <2>2, <2>3, SeqEqual
  <2> QED BY <2>1, <2>4
<1>8. t # <<>> => Last(new) = Last(t)
  <2>1. SUFFICES ASSUME t # <<>> PROVE Last(new) = Last(t)
    OBVIOUS
  <2>2. n \in 1..n
    BY <1>2, <2>1, EmptySeq
  <2>3. new[n + 1] = t[n] /\ Len(new) = n + 1
    BY <1>3, <1>4, <2>2
  <2> QED BY <1>2, <2>3 DEF Last
<1> QED BY <1>2, <1>3, <1>5, <1>6, <1>7, <1>8 DEF new, o

(* A list of one element. *)
LEMMA ListOfOne ==
  ASSUME NEW R, NEW x \in R
  PROVE  <<x>> \in Seq(R) /\ Len(<<x>>) = 1 /\ <<x>>[1] = x
OBVIOUS

(* The sum of the list of the last token. *)
LEMMA SumOfOne ==
  SumFunction(<< 1 >>) = 1
<1> DEFINE e == << >>
<1>1. e \in Seq(Int) /\ DOMAIN e = {} /\ Append(e, 1) = << 1 >>
  OBVIOUS
<1> HIDE DEF e
<1>2. SumFunction(Append(e, 1)) = SumFunction(e) + 1 /\ SumFunction(e) \in Int
  <2>1. 1 \in Int
    OBVIOUS
  <2> QED BY <1>1, <2>1, SumAppended
<1>3. SumFunction(e) = 0
  BY <1>1, SumOfNone
<1> QED BY <1>1, <1>2, <1>3

(* A request just admitted. *)
LEMMA WorkAdmitted ==
  ASSUME asked \in Seq(AskedRecords), NEW uid \in DOMAIN asked,
         NEW row, row.uid = uid, row.held = asked[uid].held
  PROVE  Work(uid) \in WorkRecords /\ Aligned(row, Work(uid))
<1> DEFINE L == LastApart(asked[uid].segments)
<1>1. /\ asked[uid].segments \in Seq(Nat \ {0}) /\ asked[uid].segments # <<>>
      /\ asked[uid].held \in Nat /\ AllOf(uid) \in Nat
  BY AskedProperties
<1>2. L \in Seq(Nat \ {0}) /\ L # <<>> /\ Last(L) = 1 /\ SumFunction(L) = AllOf(uid)
  BY <1>1, LastApartProperties DEF AllOf
<1>3. Work(uid) = [segments |-> L, done |-> 0, total |-> SumFunction(L)]
  BY DEF Work
<1> HIDE DEF L
<1>4. Work(uid) \in WorkRecords
  BY <1>1, <1>2, <1>3 DEF WorkRecords
<1>5. Aligned(row, Work(uid))
  <2>1. \A x \in Nat \ {0} : x + 0 = x
    OBVIOUS
  <2> QED BY <1>1, <1>2, <1>3, <2>1 DEF Aligned, L
<1> QED BY <1>4, <1>5

(* A row that is down to its last token. *)
LEMMA ReadyAligned ==
  ASSUME asked \in Seq(AskedRecords), NEW row, row.uid \in DOMAIN asked, NEW work \in WorkRecords,
         Aligned(row, work), work.segments = << 1 >>
  PROVE  row.held + 1 = asked[row.uid].held + AllOf(row.uid)
<1>1. SumFunction(<< 1 >>) = 1
  BY SumOfOne
<1>2. work.done \in Nat /\ asked[row.uid].held \in Nat /\ AllOf(row.uid) \in Nat
  BY AskedProperties DEF WorkRecords
<1>3. /\ row.held = asked[row.uid].held + work.done
      /\ 1 + work.done = AllOf(row.uid)
  BY <1>1 DEF Aligned
<1> QED BY <1>2, <1>3

(* The segments left, after a chunk of the first one. *)
LEMMA SegmentsFed ==
  ASSUME NEW s \in Seq(Nat \ {0}), s # <<>>, Last(s) = 1, s # << 1 >>,
         NEW c \in Nat, c > 0, c <= Head(s), NEW left \in Nat, left = Head(s) - c,
         NEW new, new = IF left = 0 THEN Tail(s) ELSE <<left>> \o Tail(s)
  PROVE  /\ new \in Seq(Nat \ {0}) /\ new # <<>> /\ Last(new) = 1
         /\ SumFunction(new) = SumFunction(s) - c /\ SumFunction(new) > 0
         /\ \A x \in Nat \ {0} : x \in Stops(new) <=> x + c \in Stops(s)
<1>1. PICK h \in Nat \ {0} : h = Head(s)
  BY HeadTailProperties
<1>2. PICK t \in Seq(Nat \ {0}) : t = Tail(s)
  BY HeadTailProperties
<1>3. PICK n \in Nat : n = Len(s) /\ n > 0
  BY LenProperties, EmptySeq
<1>4. /\ s[1] = h /\ Len(t) = n - 1 /\ SumFunction(s) = h + SumFunction(t)
      /\ SumFunction(t) \in Nat /\ t \in Seq(Nat) /\ s[n] = 1
      /\ \A i \in 1..n - 1 : t[i] = s[i + 1]
  <2>1. s \in Seq(Nat) /\ t \in Seq(Nat)
    BY PositiveSegments
  <2>2. \A i \in 1..Len(t) : t[i] = s[i + 1]
    BY <1>2, HeadTailProperties
  <2>3. Head(s) = s[1] /\ Len(Tail(s)) = Len(s) - 1
        /\ SumFunction(s) = Head(s) + SumFunction(Tail(s)) /\ SumFunction(Tail(s)) \in Nat
    BY <2>1, SumTail
  <2> QED BY <1>1, <1>2, <1>3, <2>1, <2>2, <2>3 DEF Last
<1>5. n # 1
  <2>1. SUFFICES ASSUME n = 1 PROVE FALSE
    OBVIOUS
  <2> DEFINE o == << 1 >>
  <2>2. o \in Seq(Nat \ {0}) /\ Len(o) = 1 /\ o[1] = 1
    <3>1. 1 \in Nat \ {0}
      OBVIOUS
    <3> QED BY <3>1, ListOfOne
  <2> HIDE DEF o
  <2>3. \A i \in 1..Len(s) : s[i] = o[i]
    BY <1>3, <1>4, <2>1, <2>2
  <2>4. s = o
    BY <1>3, <2>1, <2>2, <2>3, SeqEqual
  <2> QED BY <2>4 DEF o
<1>6. Len(t) \in Nat /\ Len(t) > 0 /\ t # <<>> /\ Last(t) = 1 /\ SumFunction(t) > 0
  <2>1. Len(t) \in 1..n - 1 /\ Len(t) + 1 = n
    BY <1>4, <1>5
  <2>2. t # <<>>
    BY <2>1
  <2>3. t[Len(t)] = 1
    BY <1>4, <2>1
  <2>4. SumFunction(t) > 0
    BY <2>2, PositiveSegments
  <2> QED BY <2>1, <2>2, <2>3, <2>4 DEF Last
<1>7. ASSUME NEW x \in Nat PROVE x \in Stops(s) <=> x = h \/ (x > h /\ x - h \in Stops(t))
  BY <1>1, <1>2, StopsOfTail
<1>8. CASE left = 0
  <2>1. new = t /\ c = h
    BY <1>1, <1>2, <1>8
  <2>2. ASSUME NEW x \in Nat \ {0} PROVE x \in Stops(t) <=> x + h \in Stops(s)
    <3>1. PICK y \in Nat : y = x + h
      OBVIOUS
    <3>2. y # h /\ y > h /\ y - h = x
      BY <3>1
    <3> QED BY <1>7, <3>1, <3>2
  <2>3. SumFunction(t) = SumFunction(s) - c
    BY <1>4, <2>1
  <2> QED BY <1>6, <2>1, <2>2, <2>3
<1>9. CASE left # 0
  <2>1. PICK l \in Nat \ {0} : l = left
    BY <1>9
  <2>2. PICK new1 : new1 = <<l>> \o t
    OBVIOUS
  <2>3. new = new1
    BY <1>2, <1>9, <2>1, <2>2
  <2>4. new1 \in Seq(Nat \ {0}) /\ new1 # <<>> /\ Head(new1) = l /\ Tail(new1) = t
        /\ (t # <<>> => Last(new1) = Last(t))
    BY <2>2, ConsProperties, ZenonT(40)
  <2>5. SumFunction(new1) = l + SumFunction(t)
    <3>1. l \in Nat /\ t \in Seq(Nat)
      BY <1>4
    <3> QED BY <2>2, <3>1, SumCons
  <2>6. Last(new1) = 1
    BY <1>6, <2>4
  <2>7. l = h - c
    BY <1>1, <2>1
  <2>8. ASSUME NEW x \in Nat \ {0} PROVE x \in Stops(new1) <=> x + c \in Stops(s)
    <3>1. x \in Stops(new1) <=> x = l \/ (x > l /\ x - l \in Stops(t))
      BY <2>4, StopsOfTail
    <3>2. PICK y \in Nat : y = x + c
      OBVIOUS
    <3>3. y \in Stops(s) <=> y = h \/ (y > h /\ y - h \in Stops(t))
      BY <1>7
    <3>4. (x = l <=> y = h) /\ (x > l <=> y > h) /\ x - l = y - h
      BY <2>7, <3>2
    <3> QED BY <3>1, <3>2, <3>3, <3>4
  <2>9. SumFunction(new1) = SumFunction(s) - c /\ SumFunction(new1) > 0
    BY <1>4, <2>5, <1>6, <2>7, SMTT(30)
  <2> QED BY <2>3, <2>4, <2>6, <2>8, <2>9
<1> QED BY <1>8, <1>9

FedSegments(s, c) ==
  IF Head(s) - c = 0 THEN Tail(s) ELSE <<Head(s) - c>> \o Tail(s)

(* The same of the segments as the code leaves them. *)
LEMMA FedSegmentsProperties ==
  \A s \in Seq(Nat \ {0}) : \A c \in Nat :
    s # <<>> /\ Last(s) = 1 /\ s # << 1 >> /\ c > 0 /\ c <= Head(s) =>
      /\ FedSegments(s, c) \in Seq(Nat \ {0}) /\ FedSegments(s, c) # <<>>
      /\ Last(FedSegments(s, c)) = 1
      /\ SumFunction(FedSegments(s, c)) = SumFunction(s) - c /\ SumFunction(FedSegments(s, c)) > 0
      /\ \A x \in Nat \ {0} : x \in Stops(FedSegments(s, c)) <=> x + c \in Stops(s)
<1> SUFFICES ASSUME NEW s \in Seq(Nat \ {0}), NEW c \in Nat,
                    s # <<>>, Last(s) = 1, s # << 1 >>, c > 0, c <= Head(s)
             PROVE  /\ FedSegments(s, c) \in Seq(Nat \ {0}) /\ FedSegments(s, c) # <<>>
                    /\ Last(FedSegments(s, c)) = 1
                    /\ SumFunction(FedSegments(s, c)) = SumFunction(s) - c
                    /\ SumFunction(FedSegments(s, c)) > 0
                    /\ \A x \in Nat \ {0} : x \in Stops(FedSegments(s, c)) <=> x + c \in Stops(s)
  OBVIOUS
<1>1. PICK left \in Nat : left = Head(s) - c
  BY HeadTailProperties
<1>2. FedSegments(s, c) = IF left = 0 THEN Tail(s) ELSE <<left>> \o Tail(s)
  BY <1>1 DEF FedSegments
<1>3. PICK new : new = FedSegments(s, c)
  OBVIOUS
<1> QED BY <1>1, <1>2, <1>3, SegmentsFed

(* A row after its next chunk. *)
LEMMA FedAligned ==
  ASSUME asked \in Seq(AskedRecords), NEW row, row.uid \in DOMAIN asked, NEW work \in WorkRecords,
         Aligned(row, work), work.segments # << 1 >>,
         NEW fed, fed.uid = row.uid, fed.held = row.held + Chunk(work)
  PROVE  /\ Fed(work) \in WorkRecords /\ Aligned(fed, Fed(work))
         /\ Chunk(work) \in Nat /\ Chunk(work) > 0
         /\ Head(work.segments) \in Nat
         /\ Chunk(work) = IF Head(work.segments) <= PrefillStep THEN Head(work.segments)
                          ELSE PrefillStep
         /\ work.done + Chunk(work) < AllOf(row.uid)
<1> DEFINE u == asked[row.uid]
           L == LastApart(u.segments)
<1>1. PICK s \in Seq(Nat \ {0}) : s = work.segments /\ s # <<>> /\ Last(s) = 1 /\ s # << 1 >>
  BY DEF WorkRecords, Aligned
<1>2. PICK h \in Nat \ {0} : h = Head(s)
  BY <1>1, HeadTailProperties
<1>3. Chunk(work) = IF h <= PrefillStep THEN h ELSE PrefillStep
  <2>1. Chunk(work) = Min({h, PrefillStep})
    BY <1>1, <1>2 DEF Chunk
  <2>2. PrefillStep \in Int /\ h \in Int
    BY SizesAssumption
  <2> QED BY <2>1, <2>2, LeastOfTwo
<1>4. PICK c \in Nat : c = Chunk(work) /\ c > 0 /\ c <= h
  BY <1>3, SizesAssumption
<1>6. PICK new : new = FedSegments(s, c)
  OBVIOUS
<1>7. /\ new \in Seq(Nat \ {0}) /\ new # <<>> /\ Last(new) = 1
      /\ SumFunction(new) = SumFunction(s) - c /\ SumFunction(new) > 0
      /\ \A x \in Nat \ {0} : x \in Stops(new) <=> x + c \in Stops(s)
  BY <1>1, <1>2, <1>4, <1>6, FedSegmentsProperties
<1>8. Fed(work) = [segments |-> new, done |-> work.done + c, total |-> work.total]
  BY <1>1, <1>2, <1>4, <1>6 DEF Fed, FedSegments
<1>9. PICK d \in Nat : d = work.done
  BY DEF WorkRecords
<1>10. PICK all \in Nat : all = AllOf(row.uid)
  BY AskedProperties
<1>11. work.total = all /\ SumFunction(s) + d = all /\ u.held \in Nat /\ row.held = u.held + d
       /\ SumFunction(s) \in Nat /\ SumFunction(new) \in Nat
  BY <1>1, <1>7, <1>9, <1>10, AskedProperties, PositiveSegments DEF Aligned
<1>12. d + c < all /\ SumFunction(new) + (d + c) = all
  <2>1. PICK a \in Nat, b \in Nat : a = SumFunction(new) /\ b = SumFunction(s)
    BY <1>11
  <2>2. a = b - c /\ a > 0 /\ b + d = all
    BY <1>7, <1>11, <2>1
  <2> QED BY <2>1, <2>2
<1>13. ASSUME NEW x \in Nat \ {0} PROVE x \in Stops(new) <=> x + (d + c) \in Stops(L)
  <2>1. PICK y \in Nat \ {0} : y = x + c
    OBVIOUS
  <2>2. y + d = x + (d + c)
    BY <2>1
  <2>3. y \in Stops(s) <=> y + d \in Stops(L)
    BY <1>1, <1>9 DEF Aligned
  <2> QED BY <1>7, <2>1, <2>2, <2>3
<1>14. Fed(work) \in WorkRecords
  <2>1. d + c \in Nat
    OBVIOUS
  <2> QED BY <1>7, <1>8, <1>9, <1>11, <2>1 DEF WorkRecords
<1>15. Aligned(fed, Fed(work))
  <2>1. fed.held = u.held + (d + c)
    BY <1>4, <1>11
  <2> HIDE DEF u, L
  <2> QED BY <1>7, <1>8, <1>9, <1>10, <1>11, <1>12, <1>13, <2>1 DEF Aligned, u, L
<1> QED BY <1>1, <1>2, <1>3, <1>4, <1>9, <1>10, <1>12, <1>14, <1>15

----------------------------------------
(* What the operations on batches keep. *)

(* The fields of the rows. *)
LEMMA RecordFields ==
  /\ \A r \in PromptRecords : r.uid \in Nat /\ r.held \in Nat
  /\ \A r \in GenRecords : r.uid \in Nat /\ r.held \in Nat
BY DEF PromptRecords, GenRecords

(* The rows of a batch at some places. *)
Kept(f, b, keep, R) ==
  /\ Good(f, R)
  /\ f.rows = Pick(b.rows, keep)
  /\ Len(f.rows) = Cardinality(keep) /\ Len(f.rows) <= Len(b.rows)
  /\ f.rows = <<>> <=> keep = {}
  /\ Uids(f.rows) = {b.rows[i].uid : i \in keep}
  /\ \A k \in DOMAIN f.rows : Nth(keep)[k] \in keep /\ f.rows[k] = b.rows[Nth(keep)[k]]

(* The lists of logits processors a filter can leave are long enough. *)
LEMMA FilteredLists ==
  ASSUME NEW R, NEW b, Good(b, R), NEW keep \in SUBSET DOMAIN b.rows
  PROVE  /\ Pick(b.lp, keep) \in Seq(Applied) /\ Len(Pick(b.lp, keep)) = Cardinality(keep)
         /\ b.lp \in Seq(Applied) /\ Len(b.lp) >= Cardinality(keep)
         /\ [k \in 1..Cardinality(keep) |-> <<>>] \in Seq(Applied)
         /\ Len([k \in 1..Cardinality(keep) |-> <<>>]) >= Cardinality(keep)
         /\ keep \in SUBSET DOMAIN b.lp
<1>1. b.rows \in Seq(R) /\ b.lp \in Seq(Applied) /\ Len(b.lp) >= Len(b.rows)
  BY DEF Good, Records
<1>2. Len(b.rows) \in Nat /\ Len(b.lp) \in Nat /\ DOMAIN b.rows = 1..Len(b.rows)
      /\ DOMAIN b.lp = 1..Len(b.lp)
  BY <1>1, LenProperties
<1>3. keep \in SUBSET DOMAIN b.lp
  BY <1>1, <1>2
<1>4. Pick(b.lp, keep) \in Seq(Applied) /\ Len(Pick(b.lp, keep)) = Cardinality(keep)
      /\ Cardinality(keep) \in Nat
  BY <1>1, <1>3, PickProperties
<1>5. Cardinality(keep) <= Len(b.rows)
  BY <1>1, PickProperties
<1>6. Len(b.lp) >= Cardinality(keep)
  BY <1>1, <1>2, <1>4, <1>5
<1>7. [k \in 1..Cardinality(keep) |-> <<>>] \in Seq(Applied)
      /\ Len([k \in 1..Cardinality(keep) |-> <<>>]) = Cardinality(keep)
  <2>1. <<>> \in Applied
    BY DEF Applied
  <2> DEFINE c == Cardinality(keep)
             f == [k \in 1..c |-> <<>>]
  <2>2. \A k \in 1..c : f[k] \in Applied
    BY <2>1
  <2> HIDE DEF c
  <2>3. f \in Seq(Applied) /\ DOMAIN f = 1..c
    BY <1>4, <2>2, IsASeq DEF c
  <2> HIDE DEF f
  <2>4. Len(f) = c
    BY <1>4, <2>3, LenProperties DEF c
  <2> QED BY <2>3, <2>4 DEF f, c
<1> QED BY <1>1, <1>3, <1>4, <1>6, <1>7

(* A filter keeps the rows at the given places and covers them. *)
LEMMA FilterKept ==
  ASSUME NEW R, \A r \in R : r.uid \in Nat /\ r.held \in Nat
  PROVE  \A b : Good(b, R) => \A keep \in SUBSET DOMAIN b.rows : \A lp \in Seq(Applied) :
           Len(lp) >= Cardinality(keep) => Kept(FilterRows(b, keep, lp), b, keep, R)
<1> SUFFICES ASSUME NEW b, Good(b, R), NEW keep \in SUBSET DOMAIN b.rows,
                    NEW lp \in Seq(Applied), Len(lp) >= Cardinality(keep)
             PROVE  Kept(FilterRows(b, keep, lp), b, keep, R)
  OBVIOUS
<1>1. LET f == FilterRows(b, keep, lp)
      IN  /\ Good(f, R) /\ f.lp = lp
          /\ f.rows = Pick(b.rows, keep)
          /\ Len(f.rows) = Cardinality(keep) /\ Len(f.rows) <= Len(b.rows)
          /\ f.rows = <<>> <=> keep = {}
          /\ Uids(f.rows) = {b.rows[i].uid : i \in keep}
          /\ \A k \in DOMAIN f.rows :
               Nth(keep)[k] \in keep /\ f.rows[k] = b.rows[Nth(keep)[k]]
  BY FilterGood
<1> QED BY <1>1, Zenon DEF Kept

(* The filter of a prompt batch. *)
LEMMA FilterPromptKept ==
  ASSUME NEW b, Good(b, PromptRecords), NEW keep \in SUBSET DOMAIN b.rows
  PROVE  Kept(FilterPrompt(b, keep), b, keep, PromptRecords)
<1> DEFINE lp == IF Truthy(b.lp) THEN Pick(b.lp, keep) ELSE [k \in 1..Cardinality(keep) |-> <<>>]
<1>1. lp \in Seq(Applied) /\ Len(lp) >= Cardinality(keep)
  <2>1. /\ Pick(b.lp, keep) \in Seq(Applied) /\ Len(Pick(b.lp, keep)) = Cardinality(keep)
        /\ [k \in 1..Cardinality(keep) |-> <<>>] \in Seq(Applied)
        /\ Len([k \in 1..Cardinality(keep) |-> <<>>]) >= Cardinality(keep)
    BY FilteredLists
  <2>2. Len(Pick(b.lp, keep)) \in Nat
    BY <2>1, LenProperties
  <2> QED BY <2>1, <2>2
<1>2. FilterPrompt(b, keep) = FilterRows(b, keep, lp)
  BY DEF FilterPrompt
<1> HIDE DEF lp
<1>3. \A r \in PromptRecords : r.uid \in Nat /\ r.held \in Nat
  BY RecordFields
<1>4. Kept(FilterRows(b, keep, lp), b, keep, PromptRecords)
  BY <1>1, <1>3, FilterKept
<1> QED BY <1>2, <1>4

(* The filter of a generation batch. *)
LEMMA FilterGenerationKept ==
  ASSUME NEW b, Good(b, GenRecords), NEW keep \in SUBSET DOMAIN b.rows
  PROVE  Kept(FilterGeneration(b, keep), b, keep, GenRecords)
<1> DEFINE lp == IF Truthy(b.lp) THEN Pick(b.lp, keep) ELSE b.lp
<1>1. lp \in Seq(Applied) /\ Len(lp) >= Cardinality(keep)
  <2>1. /\ Pick(b.lp, keep) \in Seq(Applied) /\ Len(Pick(b.lp, keep)) = Cardinality(keep)
        /\ b.lp \in Seq(Applied) /\ Len(b.lp) >= Cardinality(keep)
    BY FilteredLists
  <2>2. Len(Pick(b.lp, keep)) \in Nat
    BY <2>1, LenProperties
  <2> QED BY <2>1, <2>2
<1>2. FilterGeneration(b, keep) = FilterRows(b, keep, lp)
  BY DEF FilterGeneration
<1> HIDE DEF lp
<1>3. \A r \in GenRecords : r.uid \in Nat /\ r.held \in Nat
  BY RecordFields
<1>4. Kept(FilterRows(b, keep, lp), b, keep, GenRecords)
  BY <1>1, <1>3, FilterKept
<1> QED BY <1>2, <1>4

(* A batch with other rows for the same sequences. *)
Rerowed(b, f, Q) ==
  /\ Good(WithRows(b, f), Q) /\ WithRows(b, f).rows = f /\ WithRows(b, f).lp = b.lp
  /\ Len(f) = Len(b.rows) /\ DOMAIN f = DOMAIN b.rows
  /\ f = <<>> <=> b.rows = <<>>
  /\ Uids(f) = Uids(b.rows)

SameRows(f, rows) == \A i \in DOMAIN rows : f[i].uid = rows[i].uid /\ f[i].held = rows[i].held

(* Rows rewritten for the same sequences and the same lengths stay covered. *)
LEMMA WithRowsGood ==
  ASSUME NEW R, NEW Q, NEW b, Good(b, R), NEW f \in [DOMAIN b.rows -> Q], SameRows(f, b.rows)
  PROVE  Rerowed(b, f, Q)
<1>0. \A i \in DOMAIN b.rows : f[i].uid = b.rows[i].uid /\ f[i].held = b.rows[i].held
  BY DEF SameRows
<1> USE <1>0
<1> DEFINE w == WithRows(b, f)
<1>1. b.rows \in Seq(R) /\ b.lp \in Seq(Applied) /\ b.idx \in Nat /\ b.kind \in KindNames
      /\ OneRow(b.rows)
  BY DEF Good, Records
<1>2. /\ f \in Seq(Q) /\ Len(f) = Len(b.rows) /\ DOMAIN f = DOMAIN b.rows
      /\ f = <<>> <=> b.rows = <<>>
      /\ Uids(f) = Uids(b.rows)
      /\ OneRow(f)
  <2>1. \A i \in DOMAIN b.rows : f[i].uid = b.rows[i].uid
    OBVIOUS
  <2>2. PICK rows \in Seq(R) : rows = b.rows
    BY <1>1
  <2>3. f \in [DOMAIN rows -> Q] /\ \A i \in DOMAIN rows : f[i].uid = rows[i].uid
    BY <2>1, <2>2
  <2>4. /\ f \in Seq(Q) /\ Len(f) = Len(rows) /\ DOMAIN f = DOMAIN rows
        /\ f = <<>> <=> rows = <<>>
        /\ Uids(f) = Uids(rows)
        /\ OneRow(rows) => OneRow(f)
    <3>1. \A s \in Seq(R) : \A g \in [DOMAIN s -> Q] :
            (\A i \in DOMAIN s : g[i].uid = s[i].uid) =>
              /\ g \in Seq(Q) /\ Len(g) = Len(s) /\ DOMAIN g = DOMAIN s
              /\ g = <<>> <=> s = <<>>
              /\ Uids(g) = Uids(s)
              /\ OneRow(s) => OneRow(g)
      BY RowsMapped, Zenon
    <3> QED BY <2>3, <3>1
  <2> QED BY <1>1, <2>2, <2>4
<1>3. w = [rows |-> f, lp |-> b.lp, idx |-> b.idx, kind |-> b.kind]
  BY DEF WithRows
<1> HIDE DEF w
<1>4. w \in Records(Q)
  BY <1>1, <1>2, <1>3 DEF Records
<1>5. Good(w, Q)
  BY <1>2, <1>3, <1>4 DEF Good
<1> QED BY <1>2, <1>3, <1>5 DEF w, Rerowed

----------------------------------------
(* The inductive invariant: types, one stage for each sequence, the batches *)
(* within their bounds, work and rows aligned, decoding rows that hold their *)
(* prompt and what they returned.                                           *)

Decodes(row) == row.held = asked[row.uid].held + AllOf(row.uid) + row.num

Typed ==
  /\ asked \in Seq(AskedRecords)
  /\ ended \subseteq DOMAIN asked
  /\ raised \in {"no", "TypeError", "ValueError"}
  /\ unprocessed \in Seq(DOMAIN asked)
  /\ processing \in Seq(WorkRecords)
  /\ Good(prompt, PromptRecords)
  /\ Good(gen, GenRecords)

Staged ==
  /\ Distinct(unprocessed)
  /\ In(unprocessed) \cap Uids(prompt.rows) = {}
  /\ In(unprocessed) \cap Uids(gen.rows) = {}
  /\ Uids(prompt.rows) \cap Uids(gen.rows) = {}
  /\ In(unprocessed) \cup Uids(prompt.rows) \cup Uids(gen.rows) = DOMAIN asked \ ended

Worked ==
  /\ Len(processing) = Len(prompt.rows)
  /\ \A i \in DOMAIN prompt.rows : Aligned(prompt.rows[i], processing[i])
  /\ \A i \in DOMAIN gen.rows : Decodes(gen.rows[i])

Inv == Typed /\ Staged /\ Bounded /\ Worked

----------------------------------------
(* The parts of next(). *)

(* A row with one token more. *)
OneMore(row) == [uid |-> row.uid, held |-> row.held + 1, num |-> row.num + 1]

(* A decoding step gives each row one token more. *)
LEMMA DecodedGood ==
  ASSUME Good(gen, GenRecords)
  PROVE  /\ Good(Decoded, GenRecords) /\ Decoded.lp = gen.lp
         /\ Len(Decoded.rows) = Len(gen.rows) /\ DOMAIN Decoded.rows = DOMAIN gen.rows
         /\ Uids(Decoded.rows) = Uids(gen.rows)
         /\ \A i \in DOMAIN gen.rows : Decoded.rows[i] = OneMore(gen.rows[i])
<1> DEFINE p == Stepped(gen)
           f == [i \in DOMAIN p.rows |-> [p.rows[i] EXCEPT !.num = @ + 1]]
<1>1. /\ Good(p, GenRecords) /\ p.lp = gen.lp
      /\ Len(p.rows) = Len(gen.rows) /\ DOMAIN p.rows = DOMAIN gen.rows
      /\ Uids(p.rows) = Uids(gen.rows)
      /\ \A i \in DOMAIN gen.rows :
           p.rows[i] = [uid |-> gen.rows[i].uid, held |-> gen.rows[i].held + 1,
                        num |-> gen.rows[i].num]
  BY SteppedGood
<1>2. Decoded = WithRows(p, f)
  BY DEF Decoded
<1>3. p.rows \in Seq(GenRecords)
  <2> HIDE DEF p
  <2> QED BY <1>1 DEF Good, Records
<1> HIDE DEF p
<1>4. \A i \in DOMAIN p.rows : p.rows[i] \in GenRecords
  BY <1>3, LenProperties, ElementOfSeq
<1>5. \A i \in DOMAIN p.rows : /\ f[i] = OneMore(gen.rows[i]) /\ f[i] \in GenRecords
                               /\ f[i].uid = p.rows[i].uid /\ f[i].held = p.rows[i].held
  <2>1. SUFFICES ASSUME NEW i \in DOMAIN p.rows
                 PROVE  /\ f[i] = OneMore(gen.rows[i]) /\ f[i] \in GenRecords
                        /\ f[i].uid = p.rows[i].uid /\ f[i].held = p.rows[i].held
    OBVIOUS
  <2>2. PICK r \in GenRecords : r = p.rows[i]
    BY <1>4
  <2>3. f[i] = [r EXCEPT !.num = r.num + 1]
    BY <2>2
  <2>4. r = [uid |-> gen.rows[i].uid, held |-> gen.rows[i].held + 1, num |-> gen.rows[i].num]
    BY <1>1, <2>2
  <2> HIDE DEF f
  <2>5. f[i] = [uid |-> r.uid, held |-> r.held, num |-> r.num + 1]
        /\ r.uid \in Nat /\ r.held \in Nat /\ r.num \in Nat
    BY <2>3 DEF GenRecords
  <2>6. f[i] \in GenRecords /\ f[i].uid = r.uid /\ f[i].held = r.held
    BY <2>5 DEF GenRecords
  <2>7. f[i] = OneMore(gen.rows[i])
    BY <2>4, <2>5 DEF OneMore
  <2> QED BY <2>2, <2>6, <2>7
<1>6. f \in [DOMAIN p.rows -> GenRecords]
  BY <1>5
<1> HIDE DEF f
<1>7. \A i \in DOMAIN p.rows : f[i].uid = p.rows[i].uid /\ f[i].held = p.rows[i].held
  BY <1>5
<1>8. /\ Good(WithRows(p, f), GenRecords) /\ WithRows(p, f).rows = f /\ WithRows(p, f).lp = p.lp
      /\ Len(f) = Len(p.rows) /\ DOMAIN f = DOMAIN p.rows
      /\ Uids(f) = Uids(p.rows)
  <2>1. SameRows(f, p.rows)
    BY <1>7 DEF SameRows
  <2>2. Rerowed(p, f, GenRecords)
    BY <1>1, <1>6, <2>1, WithRowsGood
  <2> QED BY <2>2 DEF Rerowed
<1> QED BY <1>1, <1>2, <1>5, <1>8

(* The generation batch after its step: the rows that go on have one token *)
(* more.                                                                   *)
DecodedFrom(decoding, stops) ==
  /\ Good(decoding, GenRecords)
  /\ Len(decoding.rows) <= Len(gen.rows)
  /\ EndedBy(stops) \subseteq Uids(gen.rows)
  /\ Uids(decoding.rows) = Uids(gen.rows) \ EndedBy(stops)
  /\ \A k \in DOMAIN decoding.rows : \E i \in DOMAIN gen.rows \ Finishing(stops) :
       decoding.rows[k] = OneMore(gen.rows[i])

(* The generation batch after its step holds the rows that go on. *)
LEMMA DecodeKept ==
  ASSUME Good(gen, GenRecords), NEW stops
  PROVE  DecodedFrom(AfterDecode(stops), stops)
<1> DEFINE D == AfterDecode(stops)
           F == Finishing(stops)
<1>1. F \subseteq DOMAIN gen.rows
  BY DEF Finishing
<1>2. EndedBy(stops) = {gen.rows[i].uid : i \in F}
  BY DEF EndedBy
<1>3. gen.rows \in Seq(GenRecords) /\ Len(gen.rows) \in Nat /\ OneRow(gen.rows)
      /\ DOMAIN gen.rows = 1..Len(gen.rows)
  <2>1. gen.rows \in Seq(GenRecords) /\ OneRow(gen.rows)
    BY DEF Good, Records
  <2> QED BY <2>1, LenProperties
<1>4. EndedBy(stops) \subseteq Uids(gen.rows)
  BY <1>1, <1>2 DEF Uids
<1>5. {gen.rows[i].uid : i \in DOMAIN gen.rows \ F} = Uids(gen.rows) \ EndedBy(stops)
  BY <1>1, <1>2, <1>3 DEF Uids, OneRow
<1> HIDE DEF F
<1>6. CASE gen.rows = <<>>
  <2>1. D = gen
    BY <1>6 DEF AfterDecode
  <2>2. DOMAIN gen.rows = {}
    BY <1>6
  <2>3. Uids(gen.rows) = {}
    BY <2>2 DEF Uids
  <2> HIDE DEF D
  <2>4. /\ Uids(D.rows) = Uids(gen.rows) \ EndedBy(stops) /\ Len(D.rows) <= Len(gen.rows)
        /\ DOMAIN D.rows = {}
    BY <1>3, <2>1, <2>2, <2>3
  <2> QED BY <1>4, <2>1, <2>4 DEF DecodedFrom, D
<1>7. CASE gen.rows # <<>> /\ F = {}
  <2>1. D = Decoded
    BY <1>7 DEF AfterDecode, F
  <2> HIDE DEF D
  <2>2. /\ Good(Decoded, GenRecords)
        /\ Len(Decoded.rows) = Len(gen.rows) /\ DOMAIN Decoded.rows = DOMAIN gen.rows
        /\ Uids(Decoded.rows) = Uids(gen.rows)
        /\ \A i \in DOMAIN gen.rows : Decoded.rows[i] = OneMore(gen.rows[i])
    BY DecodedGood
  <2>3. EndedBy(stops) = {}
    BY <1>2, <1>7
  <2>4. Uids(D.rows) = Uids(gen.rows) \ EndedBy(stops) /\ Len(D.rows) <= Len(gen.rows)
    BY <1>3, <2>1, <2>2, <2>3
  <2>5. \A k \in DOMAIN D.rows : \E i \in DOMAIN gen.rows \ F : D.rows[k] = OneMore(gen.rows[i])
    BY <1>7, <2>1, <2>2
  <2> QED BY <1>4, <2>1, <2>2, <2>4, <2>5 DEF DecodedFrom, D, F
<1>8. CASE gen.rows # <<>> /\ F # {}
  <2> DEFINE keep == DOMAIN gen.rows \ F
  <2>1. D = FilterGeneration(Decoded, keep)
    BY <1>8 DEF AfterDecode, F
  <2>2. /\ Good(Decoded, GenRecords)
        /\ Len(Decoded.rows) = Len(gen.rows) /\ DOMAIN Decoded.rows = DOMAIN gen.rows
        /\ \A i \in DOMAIN gen.rows : Decoded.rows[i] = OneMore(gen.rows[i])
    BY DecodedGood
  <2>3. keep \in SUBSET DOMAIN Decoded.rows
    BY <2>2
  <2> HIDE DEF D, keep
  <2>4. Kept(D, Decoded, keep, GenRecords)
    BY <2>1, <2>2, <2>3, FilterGenerationKept
  <2>5. /\ Good(D, GenRecords) /\ Len(D.rows) <= Len(gen.rows)
        /\ Uids(D.rows) = {Decoded.rows[i].uid : i \in keep}
        /\ \A k \in DOMAIN D.rows : Nth(keep)[k] \in keep /\ D.rows[k] = Decoded.rows[Nth(keep)[k]]
    BY <2>2, <2>4 DEF Kept
  <2>6. \A i \in keep : Decoded.rows[i].uid = gen.rows[i].uid
    <3>1. \A i \in keep : i \in DOMAIN gen.rows
      BY DEF keep
    <3>2. \A i \in DOMAIN gen.rows : OneMore(gen.rows[i]).uid = gen.rows[i].uid
      BY DEF OneMore
    <3> QED BY <2>2, <3>1, <3>2
  <2>7. Uids(D.rows) = {gen.rows[i].uid : i \in keep}
    BY <2>5, <2>6
  <2>8. Uids(D.rows) = Uids(gen.rows) \ EndedBy(stops)
    BY <1>5, <2>7 DEF keep
  <2>9. \A k \in DOMAIN D.rows : \E i \in keep : D.rows[k] = OneMore(gen.rows[i])
    BY <2>2, <2>5 DEF keep
  <2> QED BY <1>4, <2>5, <2>8, <2>9 DEF DecodedFrom, D, F, keep
<1> QED BY <1>6, <1>7, <1>8

(* The size of an initial part of the naturals. *)
LEMMA NaturalsUpTo ==
  \A m \in Nat : IsFiniteSet(0..m) /\ Cardinality(0..m) = m + 1
BY FS_Interval

(* Who is selected: no more than there is room for, and of two of a kind the *)
(* older.                                                                    *)
LEMMA SelectedProperties ==
  ASSUME NEW decoding, Len(decoding.rows) \in Nat, Len(prompt.rows) \in Nat,
         unprocessed \in Seq(DOMAIN asked)
  PROVE  LET selected == Selected(decoding)
         IN  /\ selected \in SUBSET DOMAIN unprocessed
             /\ Cardinality(selected) \in Nat
             /\ selected # {} => Cardinality(selected) <= PrefillBatch - Len(prompt.rows)
             /\ \A i, j \in DOMAIN unprocessed :
                  j \in selected /\ i < j /\ Kind(i) = Kind(j) => i \in selected
<1> DEFINE admissible == {i \in DOMAIN unprocessed : /\ Compatible(prompt.kind, Kind(i))
                                                     /\ Compatible(decoding.kind, Kind(i))}
           alike == {i \in admissible : Kind(i) = Kind(Min(admissible))}
           selected == Selected(decoding)
<1>1. selected = {i \in alike : Rank(alike, i) < Room(decoding)}
  BY DEF Selected, Rank
<1>2. alike \in SUBSET DOMAIN unprocessed
  OBVIOUS
<1>3. ASSUME NEW i \in DOMAIN unprocessed, NEW j \in alike, Kind(i) = Kind(j)
      PROVE  i \in alike
  BY <1>3
<1> HIDE DEF alike, selected
<1>4. PICK n \in Nat : n = Len(unprocessed) /\ DOMAIN unprocessed = 1..n
  BY LenProperties
<1>5. PICK r \in Int : r = Room(decoding) /\ r <= PrefillBatch - Len(prompt.rows)
  <2>1. PrefillBatch - Len(prompt.rows) \in Int /\ CompletionBatch - Len(decoding.rows) \in Int
    BY SizesAssumption
  <2>2. Room(decoding) = IF PrefillBatch - Len(prompt.rows) <= CompletionBatch - Len(decoding.rows)
                         THEN PrefillBatch - Len(prompt.rows)
                         ELSE CompletionBatch - Len(decoding.rows)
    BY <2>1, LeastOfTwo DEF Room
  <2> QED BY <2>1, <2>2
<1>6. alike \in SUBSET (1..n)
  BY <1>2, <1>4
<1>7. /\ IsFiniteSet(alike) /\ Cardinality(alike) \in Nat
      /\ \A i \in alike : Rank(alike, i) \in 0..Cardinality(alike) - 1
      /\ \A i, j \in alike : i < j => Rank(alike, i) < Rank(alike, j)
  BY <1>6, RankGrows
<1>8. selected \in SUBSET alike
  BY <1>1
<1>9. IsFiniteSet(selected) /\ Cardinality(selected) \in Nat
  BY <1>7, <1>8, FS_Subset, FS_CardinalityType
<1>10. ASSUME selected # {} PROVE Cardinality(selected) <= r
  <2> DEFINE f == [i \in selected |-> Rank(alike, i)]
  <2>1. \A i \in selected : Rank(alike, i) \in Nat /\ Rank(alike, i) < r
    BY <1>1, <1>5, <1>7, <1>8
  <2>2. r > 0
    BY <1>10, <2>1
  <2>3. \A i, j \in selected : f[i] = f[j] => i = j
    <3>1. SUFFICES ASSUME NEW i \in selected, NEW j \in selected, Rank(alike, i) = Rank(alike, j),
                          i # j
                   PROVE FALSE
      OBVIOUS
    <3>2. i \in Nat /\ j \in Nat /\ i \in alike /\ j \in alike
      BY <1>6, <1>8
    <3>3. i < j \/ j < i
      BY <3>1, <3>2
    <3>4. Rank(alike, i) < Rank(alike, j) \/ Rank(alike, j) < Rank(alike, i)
      BY <1>7, <3>2, <3>3
    <3> QED BY <2>1, <3>1, <3>4
  <2>4. f \in [selected -> 0..r - 1]
    BY <2>1
  <2>5. f \in Injection(selected, 0..r - 1)
    BY <2>3, <2>4 DEF Injection, IsInjective
  <2>6. IsFiniteSet(0..r - 1) /\ Cardinality(0..r - 1) = r
    <3>1. PICK m \in Nat : m = r - 1
      BY <2>2
    <3>2. IsFiniteSet(0..m) /\ Cardinality(0..m) = m + 1
      BY NaturalsUpTo
    <3> QED BY <3>1, <3>2
  <2> HIDE DEF f
  <2> QED BY <2>5, <2>6, FS_Injection
<1>11. \A i, j \in DOMAIN unprocessed :
         j \in selected /\ i < j /\ Kind(i) = Kind(j) => i \in selected
  <2>1. SUFFICES ASSUME NEW i \in DOMAIN unprocessed, NEW j \in selected, i < j, Kind(i) = Kind(j)
                 PROVE i \in selected
    OBVIOUS
  <2>2. j \in alike /\ i \in alike
    BY <1>3, <1>8, <2>1
  <2>3. Rank(alike, i) < Rank(alike, j) /\ Rank(alike, j) < r
        /\ Rank(alike, i) \in Nat /\ Rank(alike, j) \in Nat
    BY <1>1, <1>5, <1>7, <2>1, <2>2
  <2> QED BY <1>1, <1>5, <2>2, <2>3
<1>12. selected \in SUBSET DOMAIN unprocessed
  BY <1>2, <1>8
<1>13. selected # {} => Cardinality(selected) <= PrefillBatch - Len(prompt.rows)
  <2>1. PrefillBatch - Len(prompt.rows) \in Int
    BY SizesAssumption
  <2> QED BY <1>5, <1>9, <1>10, <2>1
<1> QED BY <1>9, <1>11, <1>12, <1>13 DEF selected

(* A function on an interval is a list. *)
LEMMA ListOf ==
  \A R : \A n \in Nat : \A f \in [1..n -> R] : f \in Seq(R) /\ Len(f) = n
<1> SUFFICES ASSUME NEW R, NEW n \in Nat, NEW f \in [1..n -> R] PROVE f \in Seq(R) /\ Len(f) = n
  OBVIOUS
<1>1. f \in Seq(R)
  BY SeqDef
<1> QED BY <1>1, LenProperties

(* The batch of the selected sequences, before it joins the prompt batch. *)
LEMMA MakeBatchGood ==
  ASSUME asked \in Seq(AskedRecords), NEW uids \in Seq(DOMAIN asked), Distinct(uids), uids # <<>>
  PROVE  /\ Good(MakeBatch(uids), PromptRecords)
         /\ Len(MakeBatch(uids).rows) = Len(uids)
         /\ DOMAIN MakeBatch(uids).rows = DOMAIN uids
         /\ Uids(MakeBatch(uids).rows) = In(uids)
         /\ \A i \in DOMAIN uids : MakeBatch(uids).rows[i]
                                     = [uid |-> uids[i], held |-> asked[uids[i]].held]
<1> DEFINE rows == [i \in DOMAIN uids |-> [uid |-> uids[i], held |-> asked[uids[i]].held]]
           lp == [i \in DOMAIN uids |-> asked[uids[i]].lp]
           b == MakeBatch(uids)
<1>1. PICK n \in Nat : n = Len(uids) /\ DOMAIN uids = 1..n /\ n > 0
                       /\ \A i \in 1..n : uids[i] \in DOMAIN asked
  BY LenProperties, ElementOfSeq, EmptySeq
<1>2. \A i \in 1..n : rows[i] \in PromptRecords /\ lp[i] \in Applied
  <2>1. SUFFICES ASSUME NEW i \in 1..n PROVE rows[i] \in PromptRecords /\ lp[i] \in Applied
    OBVIOUS
  <2>2. PICK u \in DOMAIN asked : u = uids[i]
    BY <1>1
  <2>3. u \in Nat /\ asked[u].held \in Nat /\ asked[u].lp \in Seq(Nat)
    BY AskedProperties
  <2> QED BY <1>1, <2>2, <2>3 DEF PromptRecords, Applied
<1>3. b = [rows |-> rows, lp |-> lp, idx |-> Longest(rows), kind |-> asked[uids[1]].kind]
  BY DEF MakeBatch
<1>5. \A i \in 1..n : rows[i].uid = uids[i]
  BY <1>1
<1>6. \A i \in DOMAIN uids : rows[i] = [uid |-> uids[i], held |-> asked[uids[i]].held]
  OBVIOUS
<1>16. rows \in [1..n -> PromptRecords] /\ lp \in [1..n -> Applied]
  BY <1>1, <1>2
<1> HIDE DEF rows, lp, b
<1>7. rows \in Seq(PromptRecords) /\ DOMAIN rows = 1..n /\ Len(rows) = n
  BY <1>16, ListOf
<1>8. lp \in Seq(Applied) /\ Len(lp) = n
  BY <1>16, ListOf
<1>9. Longest(rows) \in Nat /\ \A i \in DOMAIN rows : rows[i].held <= Longest(rows)
  <2>1. \A r \in PromptRecords : r.held \in Nat
    BY RecordFields
  <2> QED BY <1>7, <2>1, LongestProperties
<1>10. asked[uids[1]].kind \in KindNames /\ asked[uids[1]].kind # "none"
  <2>1. PICK u \in DOMAIN asked : u = uids[1]
    BY <1>1
  <2>2. asked[u].kind \in {"fp", "quantized"}
    BY AskedProperties
  <2> QED BY <2>1, <2>2 DEF KindNames
<1>11. b \in Records(PromptRecords)
  BY <1>3, <1>7, <1>8, <1>9, <1>10 DEF Records
<1>12. OneRow(rows)
  BY <1>1, <1>5, <1>7 DEF OneRow, Distinct
<1>13. rows # <<>>
  BY <1>1, <1>7, EmptySeq
<1>14. Good(b, PromptRecords)
  <2>1. Len(b.lp) >= Len(b.rows)
    BY <1>3, <1>7, <1>8
  <2> QED BY <1>3, <1>9, <1>10, <1>11, <1>12, <1>13, <2>1 DEF Good
<1>15. Uids(rows) = In(uids)
  BY <1>1, <1>5, <1>7 DEF Uids, In
<1> QED BY <1>1, <1>3, <1>6, <1>7, <1>14, <1>15 DEF b

(* The prompt batch and its work with the selected sequences. *)
AdmittedTo(batch, work, uids) ==
  /\ Good(batch, PromptRecords)
  /\ Len(batch.rows) = Len(prompt.rows) + Len(uids)
  /\ Uids(batch.rows) = Uids(prompt.rows) \cup In(uids)
  /\ work \in Seq(WorkRecords) /\ Len(work) = Len(batch.rows)
  /\ \A i \in DOMAIN batch.rows : Aligned(batch.rows[i], work[i])
  /\ \A i \in DOMAIN batch.rows :
       \/ \E j \in DOMAIN prompt.rows : batch.rows[i] = prompt.rows[j]
       \/ \E u \in In(uids) : batch.rows[i] = [uid |-> u, held |-> asked[u].held]

(* The work of the selected sequences. *)
LEMMA WorkList ==
  ASSUME asked \in Seq(AskedRecords), NEW uids \in Seq(DOMAIN asked)
  PROVE  LET new == [i \in DOMAIN uids |-> Work(uids[i])]
         IN  new \in Seq(WorkRecords) /\ Len(new) = Len(uids)
             /\ \A i \in DOMAIN uids : new[i] = Work(uids[i])
<1> DEFINE new == [i \in DOMAIN uids |-> Work(uids[i])]
<1>1. PICK n \in Nat : n = Len(uids) /\ DOMAIN uids = 1..n
                       /\ \A i \in 1..n : uids[i] \in DOMAIN asked
  BY LenProperties, ElementOfSeq
<1>2. \A i \in 1..n : Work(uids[i]) \in WorkRecords
  <2>1. SUFFICES ASSUME NEW i \in 1..n PROVE Work(uids[i]) \in WorkRecords
    OBVIOUS
  <2>2. PICK u \in DOMAIN asked : u = uids[i]
    BY <1>1
  <2>3. PICK row : row = [uid |-> u, held |-> asked[u].held]
    OBVIOUS
  <2>4. row.uid = u /\ row.held = asked[u].held
    BY <2>3
  <2> QED BY <2>2, <2>4, WorkAdmitted
<1>3. new \in Seq(WorkRecords) /\ DOMAIN new = 1..n
  <2>1. new = [i \in 1..n |-> Work(uids[i])]
    BY <1>1
  <2> QED BY <1>2, <2>1, IsASeq
<1>4. Len(new) = n
  BY <1>3, LenProperties
<1> QED BY <1>1, <1>3, <1>4

(* Admission puts the selected sequences behind the rows of the prompt *)
(* batch, with all of their prompt to do.                              *)
LEMMA AdmissionKept ==
  ASSUME Typed, Worked, NEW uids \in Seq(DOMAIN asked), Distinct(uids),
         In(uids) \cap Uids(prompt.rows) = {}
  PROVE  AdmittedTo(AfterAdmission(uids), WorkAfterAdmission(uids), uids)
<1> DEFINE batch == AfterAdmission(uids)
           work == WorkAfterAdmission(uids)
           new == [i \in DOMAIN uids |-> Work(uids[i])]
<1>1. asked \in Seq(AskedRecords) /\ Good(prompt, PromptRecords) /\ processing \in Seq(WorkRecords)
      /\ Len(processing) = Len(prompt.rows)
      /\ \A i \in DOMAIN prompt.rows : Aligned(prompt.rows[i], processing[i])
  BY DEF Typed, Worked
<1>2. PICK m \in Nat : /\ m = Len(prompt.rows) /\ DOMAIN prompt.rows = 1..m
                       /\ DOMAIN processing = 1..m /\ Len(processing) = m
                       /\ prompt.rows \in Seq(PromptRecords)
  <2>1. prompt.rows \in Seq(PromptRecords)
    BY <1>1 DEF Good, Records
  <2> QED BY <1>1, <2>1, LenProperties
<1>3. PICK n \in Nat : n = Len(uids) /\ DOMAIN uids = 1..n
                       /\ \A i \in 1..n : uids[i] \in DOMAIN asked
  BY LenProperties, ElementOfSeq
<1>4. new \in Seq(WorkRecords) /\ Len(new) = n /\ \A i \in 1..n : new[i] = Work(uids[i])
  BY <1>1, <1>3, WorkList
<1>5. work = processing \o new
  BY DEF WorkAfterAdmission
<1> HIDE DEF new, work, batch
<1>6. /\ work \in Seq(WorkRecords) /\ Len(work) = m + n
      /\ \A i \in 1..m + n : work[i] = IF i <= m THEN processing[i] ELSE new[i - m]
  <2>1. /\ work \in Seq(WorkRecords) /\ Len(work) = Len(processing) + Len(new)
        /\ \A i \in 1..Len(processing) + Len(new) :
             work[i] = IF i <= Len(processing) THEN processing[i] ELSE new[i - Len(processing)]
    <3> DEFINE w == processing \o new
    <3>1. /\ w \in Seq(WorkRecords) /\ Len(w) = Len(processing) + Len(new)
          /\ \A i \in 1..Len(processing) + Len(new) :
               w[i] = IF i <= Len(processing) THEN processing[i] ELSE new[i - Len(processing)]
      <4>1. processing \in Seq(WorkRecords) /\ new \in Seq(WorkRecords)
        BY <1>1, <1>4
      <4> QED BY <4>1, ConcatProperties, Zenon
    <3>2. work = w
      BY <1>5
    <3> HIDE DEF w
    <3> QED BY <3>1, <3>2, Zenon
  <2>2. Len(processing) = m /\ Len(new) = n
    BY <1>2, <1>4
  <2> QED BY <2>1, <2>2
<1>7. CASE uids = <<>>
  <2>1. batch = prompt
    BY <1>7 DEF AfterAdmission, batch
  <2>2. n = 0 /\ In(uids) = {}
    BY <1>3, <1>7 DEF In
  <2>3. \A i \in 1..m : work[i] = processing[i]
    BY <1>6, <2>2
  <2>4. Len(uids) = 0 /\ Len(work) = Len(prompt.rows)
    BY <1>2, <1>3, <1>6, <2>2
  <2>5. Len(prompt.rows) = Len(prompt.rows) + Len(uids)
    BY <1>2, <2>4
  <2>6. Uids(prompt.rows) = Uids(prompt.rows) \cup In(uids)
    BY <2>2
  <2>7. \A i \in DOMAIN prompt.rows : Aligned(prompt.rows[i], work[i])
    BY <1>1, <1>2, <2>3
  <2>8. AdmittedTo(prompt, work, uids)
    BY <1>1, <1>6, <2>4, <2>5, <2>6, <2>7 DEF AdmittedTo
  <2> QED BY <2>1, <2>8 DEF batch, work
<1>8. CASE uids # <<>>
  <2> DEFINE made == MakeBatch(uids)
             lp == batch.lp
  <2>1. /\ Good(made, PromptRecords) /\ Len(made.rows) = n /\ DOMAIN made.rows = 1..n
        /\ Uids(made.rows) = In(uids)
        /\ \A i \in 1..n : made.rows[i] = [uid |-> uids[i], held |-> asked[uids[i]].held]
    BY <1>1, <1>3, <1>8, MakeBatchGood
  <2>2. batch = ExtendPrompt(prompt, made)
    BY <1>8 DEF AfterAdmission, batch
  <2> HIDE DEF made
  <2>3. batch = ExtendRows(prompt, made, batch.lp) /\ batch.lp \in Seq(Applied)
        /\ Len(batch.lp) >= m + n
    <3> DEFINE filled(b) == IF Truthy(b.lp) THEN b.lp ELSE [i \in DOMAIN b.rows |-> None]
    <3>1. batch = ExtendRows(prompt, made, filled(prompt) \o filled(made))
      BY <2>2 DEF ExtendPrompt
    <3>2. ASSUME NEW b, Good(b, PromptRecords)
          PROVE  filled(b) \in Seq(Applied) /\ Len(filled(b)) \in Nat /\ Len(filled(b)) >= Len(b.rows)
      <4>1. b.rows \in Seq(PromptRecords) /\ b.lp \in Seq(Applied) /\ Len(b.lp) >= Len(b.rows)
        BY <3>2 DEF Good, Records
      <4>2. PICK k \in Nat : k = Len(b.rows) /\ DOMAIN b.rows = 1..k
        BY <4>1, LenProperties
      <4> DEFINE nones == [i \in 1..k |-> None]
      <4>3. nones \in Seq(Applied) /\ DOMAIN nones = 1..k
        <5>1. None \in Applied
          BY DEF Applied
        <5>2. \A i \in 1..k : nones[i] \in Applied
          BY <5>1
        <5> QED BY <5>2, IsASeq
      <4>4. Len(nones) = k
        BY <4>3, LenProperties
      <4>5. filled(b) = b.lp \/ filled(b) = nones
        BY <4>2
      <4> HIDE DEF nones, filled
      <4> QED BY <4>1, <4>2, <4>3, <4>4, <4>5, LenProperties
    <3>3. /\ filled(prompt) \in Seq(Applied) /\ Len(filled(prompt)) \in Nat /\ Len(filled(prompt)) >= m
          /\ filled(made) \in Seq(Applied) /\ Len(filled(made)) \in Nat /\ Len(filled(made)) >= n
      BY <1>1, <1>2, <2>1, <3>2
    <3> DEFINE lists == filled(prompt) \o filled(made)
    <3> HIDE DEF filled
    <3>4. lists \in Seq(Applied) /\ Len(lists) = Len(filled(prompt)) + Len(filled(made))
      BY <3>3, ConcatProperties
    <3>5. Len(lists) >= m + n
      BY <3>3, <3>4
    <3>6. batch = ExtendRows(prompt, made, lists)
      BY <3>1
    <3> HIDE DEF lists
    <3>7. batch.lp = lists
      BY <3>6 DEF ExtendRows
    <3> QED BY <3>4, <3>5, <3>6, <3>7
  <2>4. Uids(prompt.rows) \cap Uids(made.rows) = {}
    BY <2>1
  <2>5. /\ Good(batch, PromptRecords)
        /\ Len(batch.rows) = m + n
        /\ Uids(batch.rows) = Uids(prompt.rows) \cup In(uids)
        /\ \A i \in 1..m : batch.rows[i] = prompt.rows[i]
        /\ \A i \in 1..n : batch.rows[m + i] = made.rows[i]
    <3>1. Rowed(PromptRecords)
      BY RecordFields DEF Rowed
    <3>2. Len(batch.lp) >= Len(prompt.rows) + Len(made.rows)
      BY <1>2, <2>1, <2>3
    <3>3. Joined(ExtendRows(prompt, made, batch.lp), prompt, made, PromptRecords)
      BY <1>1, <2>1, <2>3, <2>4, <3>1, <3>2, ExtendGood
    <3>4. Joined(batch, prompt, made, PromptRecords)
      BY <2>3, <3>3
    <3> QED BY <1>2, <2>1, <3>4 DEF Joined
  <2>6. DOMAIN batch.rows = 1..m + n
    <3>1. batch.rows \in Seq(PromptRecords)
      BY <2>5 DEF Good, Records
    <3> QED BY <2>5, <3>1, LenProperties
  <2>7. ASSUME NEW i \in 1..m + n
        PROVE  /\ Aligned(batch.rows[i], work[i])
               /\ \/ \E j \in DOMAIN prompt.rows : batch.rows[i] = prompt.rows[j]
                  \/ \E u \in In(uids) : batch.rows[i] = [uid |-> u, held |-> asked[u].held]
    <3>1. CASE i \in 1..m
      <4>1. batch.rows[i] = prompt.rows[i] /\ work[i] = processing[i]
        BY <1>6, <2>5, <3>1
      <4> QED BY <1>1, <1>2, <3>1, <4>1
    <3>2. CASE i \notin 1..m
      <4>1. PICK j \in 1..n : i = m + j
        <5>1. i - m \in 1..n /\ i = m + (i - m)
          BY <3>2
        <5> QED BY <5>1
      <4>2. ~(i <= m) /\ i - m = j
        BY <4>1
      <4>3. work[i] = Work(uids[j])
        BY <1>4, <1>6, <4>2
      <4>4. PICK u \in DOMAIN asked : u = uids[j]
        BY <1>3
      <4>5. batch.rows[i] = [uid |-> u, held |-> asked[u].held]
        BY <2>1, <2>5, <4>1, <4>4
      <4>6. batch.rows[i].uid = u /\ batch.rows[i].held = asked[u].held
        BY <4>5
      <4>7. Aligned(batch.rows[i], Work(u))
        BY <1>1, <4>6, WorkAdmitted
      <4>8. u \in In(uids)
        BY <1>3, <4>4 DEF In
      <4> QED BY <4>3, <4>4, <4>5, <4>7, <4>8
    <3> QED BY <3>1, <3>2
  <2> QED BY <1>2, <1>3, <1>6, <2>5, <2>6, <2>7 DEF AdmittedTo, batch, work
<1> QED BY <1>7, <1>8

(* The new generation batch: the rows that are down to their last token. *)
StartedFrom(starting, batch, work) ==
  /\ Good(starting, GenRecords)
  /\ Len(starting.rows) <= Len(batch.rows)
  /\ starting.rows = <<>> <=> Ready(work) = {}
  /\ Uids(starting.rows) = {batch.rows[i].uid : i \in Ready(work)}
  /\ \A k \in DOMAIN starting.rows : \E i \in Ready(work) :
       starting.rows[k] = [uid |-> batch.rows[i].uid, held |-> batch.rows[i].held, num |-> 0]

(* The rows that are down to their last token start with no token returned. *)
LEMMA StartingKept ==
  ASSUME NEW batch, Good(batch, PromptRecords), NEW work \in Seq(WorkRecords),
         Len(work) = Len(batch.rows)
  PROVE  /\ StartedFrom(Starting(batch, work), batch, work)
         /\ Starting(batch, work).lp = FilterPrompt(batch, Ready(work)).lp
         /\ Len(Starting(batch, work).rows) = Cardinality(Ready(work))
<1> DEFINE split == FilterPrompt(batch, Ready(work))
           f == [i \in DOMAIN split.rows |->
                   [uid |-> split.rows[i].uid, held |-> split.rows[i].held, num |-> 0]]
           S == Starting(batch, work)
<1>1. batch.rows \in Seq(PromptRecords) /\ DOMAIN batch.rows = DOMAIN work
      /\ \A i \in DOMAIN batch.rows : batch.rows[i] \in PromptRecords
  <2>1. batch.rows \in Seq(PromptRecords)
    BY DEF Good, Records
  <2> QED BY <2>1, LenProperties, ElementOfSeq
<1>2. Ready(work) \in SUBSET DOMAIN batch.rows
  BY <1>1 DEF Ready
<1>3. Kept(split, batch, Ready(work), PromptRecords)
  BY <1>2, FilterPromptKept
<1>4. S = WithRows(split, f)
  BY DEF Starting
<1> HIDE DEF split
<1>5. /\ Good(split, PromptRecords)
      /\ Len(split.rows) = Cardinality(Ready(work)) /\ Len(split.rows) <= Len(batch.rows)
      /\ split.rows = <<>> <=> Ready(work) = {}
      /\ Uids(split.rows) = {batch.rows[i].uid : i \in Ready(work)}
      /\ \A k \in DOMAIN split.rows : \E i \in Ready(work) : split.rows[k] = batch.rows[i]
  BY <1>3 DEF Kept
<1>6. \A k \in DOMAIN split.rows : split.rows[k] \in PromptRecords
  BY <1>1, <1>2, <1>5
<1>7. f \in [DOMAIN split.rows -> GenRecords]
  BY <1>6 DEF PromptRecords, GenRecords
<1>8. \A i \in DOMAIN split.rows :
        /\ f[i] = [uid |-> split.rows[i].uid, held |-> split.rows[i].held, num |-> 0]
        /\ f[i].uid = split.rows[i].uid /\ f[i].held = split.rows[i].held
  OBVIOUS
<1> HIDE DEF f, S
<1>9. /\ Good(WithRows(split, f), GenRecords) /\ WithRows(split, f).rows = f
      /\ WithRows(split, f).lp = split.lp
      /\ Len(f) = Len(split.rows) /\ DOMAIN f = DOMAIN split.rows
      /\ f = <<>> <=> split.rows = <<>>
      /\ Uids(f) = Uids(split.rows)
  <2>1. SameRows(f, split.rows)
    BY <1>8 DEF SameRows
  <2>2. Rerowed(split, f, GenRecords)
    BY <1>5, <1>7, <2>1, WithRowsGood
  <2> QED BY <2>2 DEF Rerowed
<1>10. \A k \in DOMAIN f : \E i \in Ready(work) :
         f[k] = [uid |-> batch.rows[i].uid, held |-> batch.rows[i].held, num |-> 0]
  <2>1. SUFFICES ASSUME NEW k \in DOMAIN split.rows
                 PROVE  \E i \in Ready(work) :
                          f[k] = [uid |-> batch.rows[i].uid, held |-> batch.rows[i].held, num |-> 0]
    BY <1>9
  <2>2. PICK i \in Ready(work) : split.rows[k] = batch.rows[i]
    BY <1>5
  <2>3. f[k] = [uid |-> batch.rows[i].uid, held |-> batch.rows[i].held, num |-> 0]
    BY <1>8, <2>2
  <2> QED BY <2>3
<1>11. StartedFrom(S, batch, work)
  BY <1>4, <1>5, <1>9, <1>10 DEF StartedFrom
<1> QED BY <1>4, <1>5, <1>9, <1>11 DEF S, split

(* The rows whose prompt goes on, and what is left of it. *)
StillFrom(still, rest, batch, work) ==
  /\ Good(still, PromptRecords)
  /\ Len(still.rows) <= Len(batch.rows)
  /\ rest \in Seq(WorkRecords) /\ Len(rest) = Len(still.rows)
  /\ Uids(still.rows) = {batch.rows[i].uid : i \in Rest(work)}
  /\ \A k \in DOMAIN still.rows : \E i \in Rest(work) :
       still.rows[k] = batch.rows[i] /\ rest[k] = work[i]

(* The other rows stay, with their work. *)
LEMMA RestKept ==
  ASSUME NEW batch, Good(batch, PromptRecords), NEW work \in Seq(WorkRecords),
         Len(work) = Len(batch.rows)
  PROVE  StillFrom(StillPrompt(batch, work), Pick(work, Rest(work)), batch, work)
<1> DEFINE still == StillPrompt(batch, work)
           rest == Pick(work, Rest(work))
<1>1. batch.rows \in Seq(PromptRecords) /\ DOMAIN batch.rows = DOMAIN work
  <2>1. batch.rows \in Seq(PromptRecords)
    BY DEF Good, Records
  <2> QED BY <2>1, LenProperties
<1>2. Rest(work) \in SUBSET DOMAIN work /\ Rest(work) \in SUBSET DOMAIN batch.rows
  BY <1>1 DEF Rest
<1>3. CASE Ready(work) = {}
  <2>1. still = batch /\ Rest(work) = DOMAIN work
    BY <1>3 DEF StillPrompt, Rest
  <2>2. rest = work
    BY <2>1, PickAll
  <2> HIDE DEF still, rest
  <2>3. Uids(batch.rows) = {batch.rows[i].uid : i \in Rest(work)}
    BY <1>1, <2>1 DEF Uids
  <2>4. Len(batch.rows) \in Nat
    BY <1>1, LenProperties
  <2>5. StillFrom(batch, work, batch, work)
    BY <1>1, <2>1, <2>3, <2>4 DEF StillFrom
  <2> QED BY <2>1, <2>2, <2>5 DEF still, rest
<1>4. CASE Ready(work) # {}
  <2>1. still = FilterPrompt(batch, Rest(work))
    BY <1>4 DEF StillPrompt
  <2> HIDE DEF still, rest
  <2>2. Kept(still, batch, Rest(work), PromptRecords)
    BY <1>2, <2>1, FilterPromptKept
  <2>3. /\ Good(still, PromptRecords)
        /\ Len(still.rows) = Cardinality(Rest(work)) /\ Len(still.rows) <= Len(batch.rows)
        /\ Uids(still.rows) = {batch.rows[i].uid : i \in Rest(work)}
        /\ \A k \in DOMAIN still.rows :
             Nth(Rest(work))[k] \in Rest(work) /\ still.rows[k] = batch.rows[Nth(Rest(work))[k]]
    BY <2>2 DEF Kept
  <2>4. /\ rest \in Seq(WorkRecords) /\ Len(rest) = Cardinality(Rest(work))
        /\ \A k \in DOMAIN rest : rest[k] = work[Nth(Rest(work))[k]]
    BY <1>2, PickProperties DEF rest
  <2>5. DOMAIN rest = DOMAIN still.rows
    <3>1. still.rows \in Seq(PromptRecords)
      BY <2>3 DEF Good, Records
    <3> QED BY <2>3, <2>4, <3>1, LenProperties
  <2>6. StillFrom(still, rest, batch, work)
    BY <2>3, <2>4, <2>5 DEF StillFrom
  <2> QED BY <2>6 DEF still, rest
<1> QED BY <1>3, <1>4

(* The prompt batch and its work after a chunk. *)
FedFrom(fed, left, still, rest) ==
  /\ Good(fed, PromptRecords)
  /\ Len(fed.rows) = Len(still.rows) /\ DOMAIN fed.rows = DOMAIN still.rows
  /\ Uids(fed.rows) = Uids(still.rows)
  /\ left \in Seq(WorkRecords) /\ Len(left) = Len(fed.rows)
  /\ \A i \in DOMAIN fed.rows :
       /\ fed.rows[i].uid = still.rows[i].uid
       /\ fed.rows[i].held = still.rows[i].held + Chunk(rest[i])
       /\ left[i] = Fed(rest[i])
       /\ Aligned(fed.rows[i], left[i])

(* Every row left gets its chunk, and its work is what is left after it. *)
LEMMA FedKept ==
  ASSUME asked \in Seq(AskedRecords),
         NEW still, Good(still, PromptRecords), NEW rest \in Seq(WorkRecords),
         Len(rest) = Len(still.rows),
         \A i \in DOMAIN still.rows : /\ still.rows[i].uid \in DOMAIN asked
                                      /\ Aligned(still.rows[i], rest[i])
                                      /\ rest[i].segments # << 1 >>
  PROVE  FedFrom(Prompted(still, [i \in DOMAIN rest |-> Chunk(rest[i])]),
                 [i \in DOMAIN rest |-> Fed(rest[i])], still, rest)
<1> DEFINE chunks == [i \in DOMAIN rest |-> Chunk(rest[i])]
           fed == Prompted(still, chunks)
           left == [i \in DOMAIN rest |-> Fed(rest[i])]
<1>1. PICK n \in Nat : n = Len(still.rows) /\ DOMAIN still.rows = 1..n /\ DOMAIN rest = 1..n
                       /\ Len(rest) = n /\ \A i \in 1..n : rest[i] \in WorkRecords
  <2>1. still.rows \in Seq(PromptRecords)
    BY DEF Good, Records
  <2> QED BY <2>1, LenProperties, ElementOfSeq
<1>2. ASSUME NEW i \in 1..n, NEW r, r.uid = still.rows[i].uid,
             r.held = still.rows[i].held + Chunk(rest[i])
      PROVE  /\ Fed(rest[i]) \in WorkRecords /\ Aligned(r, Fed(rest[i]))
             /\ Chunk(rest[i]) \in Nat
  <2>1. PICK row : row = still.rows[i]
    OBVIOUS
  <2>2. PICK w \in WorkRecords : w = rest[i]
    BY <1>1
  <2>3. row.uid \in DOMAIN asked /\ Aligned(row, w) /\ w.segments # << 1 >>
        /\ r.uid = row.uid /\ r.held = row.held + Chunk(w)
    BY <1>1, <1>2, <2>1, <2>2
  <2> QED BY <2>2, <2>3, FedAligned
<1>3. \A i \in 1..n : Chunk(rest[i]) \in Nat /\ Fed(rest[i]) \in WorkRecords
  <2>1. SUFFICES ASSUME NEW i \in 1..n PROVE Chunk(rest[i]) \in Nat /\ Fed(rest[i]) \in WorkRecords
    OBVIOUS
  <2>2. PICK r : r = [uid |-> still.rows[i].uid, held |-> still.rows[i].held + Chunk(rest[i])]
    OBVIOUS
  <2>3. r.uid = still.rows[i].uid /\ r.held = still.rows[i].held + Chunk(rest[i])
    BY <2>2
  <2> QED BY <1>2, <2>3
<1>4. chunks \in [1..n -> Nat] /\ left \in [1..n -> WorkRecords]
  BY <1>1, <1>3
<1>5. \A i \in 1..n : chunks[i] = Chunk(rest[i]) /\ left[i] = Fed(rest[i])
  BY <1>1
<1> HIDE DEF chunks, left
<1>6. chunks \in Seq(Nat) /\ Len(chunks) = n /\ left \in Seq(WorkRecords) /\ Len(left) = n
  BY <1>4, ListOf
<1>7. /\ Good(fed, PromptRecords)
      /\ Len(fed.rows) = Len(still.rows) /\ DOMAIN fed.rows = DOMAIN still.rows
      /\ Uids(fed.rows) = Uids(still.rows)
      /\ \A i \in DOMAIN still.rows : /\ fed.rows[i].uid = still.rows[i].uid
                                      /\ fed.rows[i].held = still.rows[i].held + chunks[i]
  BY <1>1, <1>6, PromptedGood
<1> HIDE DEF fed
<1>8. \A i \in 1..n : Aligned(fed.rows[i], left[i])
  <2>1. SUFFICES ASSUME NEW i \in 1..n PROVE Aligned(fed.rows[i], left[i])
    OBVIOUS
  <2>2. PICK r : r = fed.rows[i]
    OBVIOUS
  <2>3. r.uid = still.rows[i].uid /\ r.held = still.rows[i].held + Chunk(rest[i])
    BY <1>1, <1>5, <1>7, <2>2
  <2>4. Aligned(r, Fed(rest[i]))
    BY <1>2, <2>3
  <2> QED BY <1>5, <2>2, <2>4
<1>9. FedFrom(fed, left, still, rest)
  BY <1>1, <1>5, <1>6, <1>7, <1>8 DEF FedFrom
<1> QED BY <1>9 DEF fed, left, chunks

----------------------------------------
(* The invariant holds at the start and every step keeps it. *)

(* A batch without rows. *)
LEMMA NoBatchGood ==
  /\ Good(NoBatch, PromptRecords) /\ Good(NoBatch, GenRecords)
  /\ Uids(NoBatch.rows) = {} /\ Len(NoBatch.rows) = 0 /\ DOMAIN NoBatch.rows = {}
<1>1. ASSUME NEW R PROVE NoBatch \in Records(R)
  BY DEF NoBatch, Records, KindNames
<1>2. NoBatch.rows = <<>> /\ NoBatch.lp = <<>> /\ NoBatch.kind = "none"
      /\ DOMAIN NoBatch.rows = {} /\ Len(NoBatch.rows) = 0 /\ Len(NoBatch.lp) = 0
  BY DEF NoBatch
<1> QED BY <1>1, <1>2 DEF Good, OneRow, Uids

(* It holds at the start. *)
LEMMA InitInv == Init => Inv
<1> SUFFICES ASSUME Init PROVE Inv
  OBVIOUS
<1>1. /\ asked = <<>> /\ ended = {} /\ unprocessed = <<>> /\ processing = <<>>
      /\ prompt = NoBatch /\ gen = NoBatch /\ raised = "no"
  BY DEF Init
<1>2. Typed
  BY <1>1, NoBatchGood DEF Typed
<1>3. Staged
  BY <1>1, NoBatchGood DEF Staged, Distinct, In
<1>4. Bounded
  BY <1>1, NoBatchGood, SizesAssumption DEF Bounded
<1>5. Worked
  BY <1>1, NoBatchGood DEF Worked
<1> QED BY <1>2, <1>3, <1>4, <1>5 DEF Inv

(* The batches as lists of rows. *)
LEMMA Batched ==
  ASSUME Inv
  PROVE  /\ prompt.rows \in Seq(PromptRecords) /\ gen.rows \in Seq(GenRecords)
         /\ Len(prompt.rows) \in Nat /\ Len(gen.rows) \in Nat
         /\ DOMAIN prompt.rows = 1..Len(prompt.rows) /\ DOMAIN gen.rows = 1..Len(gen.rows)
         /\ DOMAIN processing = DOMAIN prompt.rows
         /\ \A i \in DOMAIN prompt.rows : /\ prompt.rows[i].uid \in DOMAIN asked \ ended
                                          /\ prompt.rows[i].uid \in Uids(prompt.rows)
                                          /\ processing[i] \in WorkRecords
         /\ \A i \in DOMAIN gen.rows : /\ gen.rows[i].uid \in DOMAIN asked \ ended
                                       /\ gen.rows[i].uid \in Uids(gen.rows)
                                       /\ gen.rows[i] \in GenRecords
<1>1. Good(prompt, PromptRecords) /\ Good(gen, GenRecords) /\ processing \in Seq(WorkRecords)
      /\ Len(processing) = Len(prompt.rows)
  BY DEF Inv, Typed, Worked
<1>2. prompt.rows \in Seq(PromptRecords) /\ gen.rows \in Seq(GenRecords)
  BY <1>1 DEF Good, Records
<1>3. /\ Len(prompt.rows) \in Nat /\ Len(gen.rows) \in Nat
      /\ DOMAIN prompt.rows = 1..Len(prompt.rows) /\ DOMAIN gen.rows = 1..Len(gen.rows)
      /\ DOMAIN processing = DOMAIN prompt.rows
  BY <1>1, <1>2, LenProperties
<1>4. Uids(prompt.rows) \subseteq DOMAIN asked \ ended /\ Uids(gen.rows) \subseteq DOMAIN asked \ ended
  BY DEF Inv, Staged
<1>5. /\ \A i \in DOMAIN prompt.rows : prompt.rows[i].uid \in Uids(prompt.rows)
      /\ \A i \in DOMAIN gen.rows : gen.rows[i].uid \in Uids(gen.rows)
  BY DEF Uids
<1>6. \A i \in DOMAIN prompt.rows : processing[i] \in WorkRecords
  BY <1>1, <1>3, ElementOfSeq
<1>7. \A i \in DOMAIN gen.rows : gen.rows[i] \in GenRecords
  BY <1>2, <1>3, ElementOfSeq
<1> QED BY <1>2, <1>3, <1>4, <1>5, <1>6, <1>7

(* The queue and the records with a sequence more. *)
QueueGrown(n, a) ==
  /\ n \in Nat /\ DOMAIN asked = 1..n
  /\ asked' \in Seq(AskedRecords) /\ DOMAIN asked' = 1..n + 1
  /\ asked'[n + 1] = a /\ \A u \in 1..n : asked'[u] = asked[u]
  /\ unprocessed' \in Seq(1..n + 1) /\ Distinct(unprocessed')
  /\ In(unprocessed') = In(unprocessed) \cup {n + 1}
  /\ ended' = ended /\ processing' = processing /\ prompt' = prompt /\ gen' = gen
  /\ raised' = raised

(* An insertion puts a new sequence into the queue. *)
LEMMA Inserted ==
  ASSUME Inv, NEW s \in Segmentings, NEW m \in MaxTokens, NEW c \in Caches, NEW p \in Processors,
         Insert(s, m, c, p)
  PROVE  \E n, a : /\ QueueGrown(n, a)
                   /\ a.segments = s /\ a.max = m /\ a.held = c.held
<1>1. PICK n \in Nat : n = Len(asked) /\ DOMAIN asked = 1..n /\ asked \in Seq(AskedRecords)
  BY LenProperties DEF Inv, Typed
<1>2. PICK a : a = [segments |-> s, max |-> m, held |-> c.held, kind |-> c.kind,
                    lp |-> IF p THEN <<n + 1>> ELSE <<>>]
  OBVIOUS
<1>3. /\ asked' = Append(asked, a) /\ unprocessed' = Append(unprocessed, n + 1)
      /\ ended' = ended /\ processing' = processing /\ prompt' = prompt /\ gen' = gen
      /\ raised' = raised
  BY <1>1, <1>2 DEF Insert
<1>4. a \in AskedRecords
  <2>1. c.held \in Nat /\ c.kind \in {"fp", "quantized"}
    BY SizesAssumption
  <2>2. (IF p THEN <<n + 1>> ELSE <<>>) \in Seq(Nat)
    BY ListOfOne, EmptySeq
  <2> QED BY <1>2, <2>1, <2>2 DEF AskedRecords
<1>5. /\ asked' \in Seq(AskedRecords) /\ DOMAIN asked' = 1..n + 1
      /\ asked'[n + 1] = a /\ \A u \in 1..n : asked'[u] = asked[u]
  <2>1. /\ asked' \in Seq(AskedRecords) /\ Len(asked') = n + 1
        /\ asked'[n + 1] = a /\ \A i \in 1..n : asked'[i] = asked[i]
    BY <1>1, <1>3, <1>4, AppendProperties
  <2> QED BY <2>1, LenProperties
<1>6. PICK k \in Nat : k = Len(unprocessed) /\ DOMAIN unprocessed = 1..k
                       /\ unprocessed \in Seq(1..n) /\ \A i \in 1..k : unprocessed[i] \in 1..n
  BY <1>1, LenProperties, ElementOfSeq DEF Inv, Typed
<1>7. /\ unprocessed' \in Seq(1..n + 1) /\ DOMAIN unprocessed' = 1..k + 1
      /\ \A i \in 1..k : unprocessed'[i] = unprocessed[i]
      /\ unprocessed'[k + 1] = n + 1
  <2>1. unprocessed \in Seq(1..n + 1)
    <3>1. 1..n \subseteq 1..n + 1
      OBVIOUS
    <3> QED BY <1>6, <3>1, SeqMonotonic
  <2>2. /\ unprocessed' \in Seq(1..n + 1) /\ Len(unprocessed') = k + 1
        /\ \A i \in 1..k : unprocessed'[i] = unprocessed[i]
        /\ unprocessed'[k + 1] = n + 1
    BY <1>3, <1>6, <2>1, AppendProperties
  <2> QED BY <2>2, LenProperties
<1>8. In(unprocessed') = In(unprocessed) \cup {n + 1}
  <2>1. ASSUME NEW u PROVE u \in In(unprocessed') <=> u \in In(unprocessed) \/ u = n + 1
    <3>1. u \in In(unprocessed') <=> \E i \in 1..k + 1 : u = unprocessed'[i]
      BY <1>7 DEF In
    <3>2. u \in In(unprocessed) <=> \E i \in 1..k : u = unprocessed[i]
      BY <1>6 DEF In
    <3>3. \A i \in 1..k + 1 : i \in 1..k \/ i = k + 1
      OBVIOUS
    <3>4. k + 1 \in 1..k + 1 /\ \A i \in 1..k : i \in 1..k + 1
      OBVIOUS
    <3> QED BY <1>7, <3>1, <3>2, <3>3, <3>4
  <2> QED BY <2>1
<1>9. Distinct(unprocessed')
  <2>1. SUFFICES ASSUME NEW i \in 1..k + 1, NEW j \in 1..k + 1, unprocessed'[i] = unprocessed'[j]
                 PROVE i = j
    BY <1>7 DEF Distinct
  <2>2. \A h \in 1..k : unprocessed'[h] # n + 1
    <3>1. \A h \in 1..n : h # n + 1
      OBVIOUS
    <3> QED BY <1>6, <1>7, <3>1
  <2>3. \A h \in 1..k + 1 : h \in 1..k \/ h = k + 1
    OBVIOUS
  <2>4. \A g, h \in 1..k : unprocessed[g] = unprocessed[h] => g = h
    BY <1>6 DEF Inv, Staged, Distinct
  <2> QED BY <1>7, <2>1, <2>2, <2>3, <2>4
<1>10. QueueGrown(n, a)
  BY <1>1, <1>3, <1>5, <1>7, <1>8, <1>9 DEF QueueGrown
<1>11. a.segments = s /\ a.max = m /\ a.held = c.held
  BY <1>2
<1> QED BY <1>10, <1>11

(* It keeps the invariant. *)
LEMMA InsertInv ==
  ASSUME Inv, NEW s \in Segmentings, NEW m \in MaxTokens, NEW c \in Caches, NEW p \in Processors,
         Insert(s, m, c, p)
  PROVE  Inv'
<1>1. PICK n, a : QueueGrown(n, a)
  BY Inserted
<1>2. /\ n \in Nat /\ DOMAIN asked = 1..n
      /\ asked' \in Seq(AskedRecords) /\ DOMAIN asked' = 1..n + 1
      /\ \A u \in 1..n : asked'[u] = asked[u]
      /\ unprocessed' \in Seq(1..n + 1) /\ Distinct(unprocessed')
      /\ In(unprocessed') = In(unprocessed) \cup {n + 1}
      /\ ended' = ended /\ processing' = processing /\ prompt' = prompt /\ gen' = gen
      /\ raised' = raised
  BY <1>1 DEF QueueGrown
<1>3. Typed'
  <2>1. ended' \subseteq DOMAIN asked'
    BY <1>2 DEF Inv, Typed
  <2> QED BY <1>2, <2>1 DEF Inv, Typed
<1>4. Staged'
  <2>1. n + 1 \notin 1..n /\ 1..n + 1 = 1..n \cup {n + 1}
    BY <1>2
  <2>2. /\ In(unprocessed) \cap Uids(prompt.rows) = {}
        /\ In(unprocessed) \cap Uids(gen.rows) = {}
        /\ Uids(prompt.rows) \cap Uids(gen.rows) = {}
        /\ In(unprocessed) \cup Uids(prompt.rows) \cup Uids(gen.rows) = 1..n \ ended
        /\ ended \subseteq 1..n
    BY <1>2 DEF Inv, Staged, Typed
  <2> HIDE DEF Inv
  <2>3. /\ In(unprocessed') \cap Uids(prompt.rows) = {}
        /\ In(unprocessed') \cap Uids(gen.rows) = {}
        /\ In(unprocessed') \cup Uids(prompt.rows) \cup Uids(gen.rows) = 1..n + 1 \ ended
    BY <1>2, <2>1, <2>2
  <2> QED BY <1>2, <2>2, <2>3 DEF Staged
<1>5. Bounded'
  BY <1>2 DEF Inv, Bounded
<1>6. Worked'
  <2>1. ASSUME NEW i \in DOMAIN prompt.rows PROVE Aligned(prompt.rows[i], processing[i])'
    <3>1. PICK row : row = prompt.rows[i]
      OBVIOUS
    <3>2. PICK w : w = processing[i]
      OBVIOUS
    <3>3. row.uid \in 1..n
      BY <1>2, <3>1, Batched
    <3>4. asked'[row.uid] = asked[row.uid]
      BY <1>2, <3>3
    <3>5. Aligned(row, w)
      BY <3>1, <3>2 DEF Inv, Worked
    <3>6. Aligned(row, w)'
      BY <3>4, <3>5 DEF Aligned, AllOf
    <3> QED BY <1>2, <3>1, <3>2, <3>6
  <2>2. ASSUME NEW i \in DOMAIN gen.rows PROVE Decodes(gen.rows[i])'
    <3>1. PICK row : row = gen.rows[i]
      OBVIOUS
    <3>2. row.uid \in 1..n
      BY <1>2, <3>1, Batched
    <3>3. asked'[row.uid] = asked[row.uid]
      BY <1>2, <3>2
    <3>4. Decodes(row)
      BY <3>1 DEF Inv, Worked
    <3>5. Decodes(row)'
      BY <3>3, <3>4 DEF Decodes, AllOf
    <3> QED BY <1>2, <3>1, <3>5
  <2>3. Len(processing') = Len(prompt'.rows)
    BY <1>2 DEF Inv, Worked
  <2> QED BY <1>2, <2>1, <2>2, <2>3 DEF Worked
<1> QED BY <1>3, <1>4, <1>5, <1>6 DEF Inv

(* A prompt batch of rows of the present one, and their work. *)
PromptLeft(p, w, U) ==
  /\ Good(p, PromptRecords)
  /\ Len(p.rows) <= Len(prompt.rows)
  /\ Uids(p.rows) = U
  /\ w \in Seq(WorkRecords) /\ Len(w) = Len(p.rows)
  /\ \A k \in DOMAIN p.rows : \E i \in DOMAIN prompt.rows :
       p.rows[k] = prompt.rows[i] /\ w[k] = processing[i]

(* A generation batch of rows of the present one. *)
GenLeft(g, U) ==
  /\ Good(g, GenRecords)
  /\ Len(g.rows) <= Len(gen.rows)
  /\ Uids(g.rows) = U
  /\ \A k \in DOMAIN g.rows : \E i \in DOMAIN gen.rows : g.rows[k] = gen.rows[i]

(* What remove() leaves of the prompt batch and of its work. *)
LEMMA PromptRemoved ==
  ASSUME Inv, NEW uid,
         NEW keep, keep = {i \in DOMAIN prompt.rows : prompt.rows[i].uid # uid}
  PROVE  PromptLeft(FilterPrompt(prompt, keep), Pick(processing, keep), Uids(prompt.rows) \ {uid})
<1> DEFINE p == FilterPrompt(prompt, keep)
           w == Pick(processing, keep)
<1>1. Good(prompt, PromptRecords) /\ processing \in Seq(WorkRecords)
      /\ keep \in SUBSET DOMAIN prompt.rows /\ keep \in SUBSET DOMAIN processing
  BY Batched DEF Inv, Typed
<1>2. Kept(p, prompt, keep, PromptRecords)
  BY <1>1, FilterPromptKept
<1>3. /\ w \in Seq(WorkRecords) /\ Len(w) = Cardinality(keep)
      /\ \A k \in DOMAIN w : w[k] = processing[Nth(keep)[k]]
  BY <1>1, PickProperties
<1> HIDE DEF p, w
<1>4. /\ Good(p, PromptRecords) /\ Len(p.rows) <= Len(prompt.rows)
      /\ Len(p.rows) = Cardinality(keep)
      /\ Uids(p.rows) = {prompt.rows[i].uid : i \in keep}
      /\ \A k \in DOMAIN p.rows : Nth(keep)[k] \in keep /\ p.rows[k] = prompt.rows[Nth(keep)[k]]
  BY <1>2 DEF Kept
<1>5. DOMAIN w = DOMAIN p.rows
  <2>1. p.rows \in Seq(PromptRecords)
    BY <1>4 DEF Good, Records
  <2> QED BY <1>3, <1>4, <2>1, LenProperties
<1>6. Uids(p.rows) = Uids(prompt.rows) \ {uid}
  <2>1. {prompt.rows[i].uid : i \in keep} = {prompt.rows[i].uid : i \in DOMAIN prompt.rows} \ {uid}
    OBVIOUS
  <2> QED BY <1>4, <2>1 DEF Uids
<1>7. \A k \in DOMAIN p.rows : \E i \in DOMAIN prompt.rows :
        p.rows[k] = prompt.rows[i] /\ w[k] = processing[i]
  BY <1>1, <1>3, <1>4, <1>5
<1> QED BY <1>3, <1>4, <1>6, <1>7 DEF PromptLeft, p, w

(* What remove() leaves of the generation batch. *)
LEMMA GenRemoved ==
  ASSUME Inv, NEW uid,
         NEW keep, keep = {i \in DOMAIN gen.rows : gen.rows[i].uid # uid}
  PROVE  GenLeft(FilterGeneration(gen, keep), Uids(gen.rows) \ {uid})
<1> DEFINE g == FilterGeneration(gen, keep)
<1>1. Good(gen, GenRecords) /\ keep \in SUBSET DOMAIN gen.rows
  BY DEF Inv, Typed
<1>2. Kept(g, gen, keep, GenRecords)
  BY <1>1, FilterGenerationKept
<1> HIDE DEF g
<1>3. /\ Good(g, GenRecords) /\ Len(g.rows) <= Len(gen.rows)
      /\ Uids(g.rows) = {gen.rows[i].uid : i \in keep}
      /\ \A k \in DOMAIN g.rows : Nth(keep)[k] \in keep /\ g.rows[k] = gen.rows[Nth(keep)[k]]
  BY <1>2 DEF Kept
<1>4. Uids(g.rows) = Uids(gen.rows) \ {uid}
  <2>1. {gen.rows[i].uid : i \in keep} = {gen.rows[i].uid : i \in DOMAIN gen.rows} \ {uid}
    OBVIOUS
  <2> QED BY <1>3, <2>1 DEF Uids
<1>5. \A k \in DOMAIN g.rows : \E i \in DOMAIN gen.rows : g.rows[k] = gen.rows[i]
  BY <1>1, <1>3
<1> QED BY <1>3, <1>4, <1>5 DEF GenLeft, g

(* What remove() leaves of the queue. *)
LEMMA QueueRemoved ==
  ASSUME Inv, NEW uid,
         NEW q, q = Pick(unprocessed, {i \in DOMAIN unprocessed : unprocessed[i] # uid})
  PROVE  q \in Seq(DOMAIN asked) /\ Distinct(q) /\ In(q) = In(unprocessed) \ {uid}
<1> DEFINE keep == {i \in DOMAIN unprocessed : unprocessed[i] # uid}
<1>1. unprocessed \in Seq(DOMAIN asked) /\ Distinct(unprocessed)
      /\ keep \in SUBSET DOMAIN unprocessed
  BY DEF Inv, Typed, Staged
<1>2. {unprocessed[i] : i \in keep} = In(unprocessed) \ {uid}
  BY DEF In
<1> HIDE DEF keep
<1>3. q = Pick(unprocessed, keep)
  BY DEF keep
<1>4. PICK R : R = DOMAIN asked
  OBVIOUS
<1>5. unprocessed \in Seq(R)
  BY <1>1, <1>4
<1>6. /\ Pick(unprocessed, keep) \in Seq(R) /\ Distinct(Pick(unprocessed, keep))
      /\ In(Pick(unprocessed, keep)) = {unprocessed[i] : i \in keep}
  BY <1>1, <1>5, PickDistinct
<1> QED BY <1>2, <1>3, <1>4, <1>6

(* A step after which the batches hold rows they held before. *)
LEMMA LeftInv ==
  ASSUME Inv, asked' = asked, raised' \in {"no", "TypeError", "ValueError"},
         NEW uid \in DOMAIN asked, ended' = ended \cup {uid},
         unprocessed' \in Seq(DOMAIN asked), Distinct(unprocessed'),
         In(unprocessed') = In(unprocessed) \ {uid},
         PromptLeft(prompt', processing', Uids(prompt.rows) \ {uid}),
         GenLeft(gen', Uids(gen.rows) \ {uid})
  PROVE  Inv'
<1>1. /\ asked \in Seq(AskedRecords) /\ ended \subseteq DOMAIN asked
      /\ Good(prompt', PromptRecords) /\ Good(gen', GenRecords)
      /\ processing' \in Seq(WorkRecords) /\ Len(processing') = Len(prompt'.rows)
      /\ Len(prompt'.rows) <= Len(prompt.rows) /\ Len(gen'.rows) <= Len(gen.rows)
      /\ Uids(prompt'.rows) = Uids(prompt.rows) \ {uid} /\ Uids(gen'.rows) = Uids(gen.rows) \ {uid}
  BY DEF Inv, Typed, PromptLeft, GenLeft
<1>2. Typed'
  BY <1>1 DEF Typed
<1>3. Staged'
  BY <1>1 DEF Inv, Staged
<1>4. Bounded'
  <2>1. PICK a \in Nat, b \in Nat : a = Len(prompt.rows) /\ b = Len(gen.rows)
    BY Batched
  <2>2. PICK c \in Nat, d \in Nat : c = Len(prompt'.rows) /\ d = Len(gen'.rows)
    <3>1. prompt'.rows \in Seq(PromptRecords) /\ gen'.rows \in Seq(GenRecords)
      BY <1>1 DEF Good, Records
    <3> QED BY <3>1, LenProperties
  <2>3. c <= a /\ d <= b /\ a <= PrefillBatch /\ b < CompletionBatch + PrefillBatch
    BY <1>1, <2>1, <2>2 DEF Inv, Bounded
  <2>4. c <= PrefillBatch /\ d < CompletionBatch + PrefillBatch
    BY <2>3, SizesAssumption
  <2> QED BY <2>2, <2>4 DEF Bounded
<1>5. \A i \in DOMAIN prompt'.rows : Aligned(prompt'.rows[i], processing'[i])
  <2>1. SUFFICES ASSUME NEW i \in DOMAIN prompt'.rows PROVE Aligned(prompt'.rows[i], processing'[i])
    OBVIOUS
  <2>2. PICK j \in DOMAIN prompt.rows : prompt'.rows[i] = prompt.rows[j]
                                        /\ processing'[i] = processing[j]
    BY DEF PromptLeft
  <2>3. Aligned(prompt.rows[j], processing[j])
    BY DEF Inv, Worked
  <2> QED BY <2>2, <2>3
<1>6. \A i \in DOMAIN gen'.rows : Decodes(gen'.rows[i])
  <2>1. SUFFICES ASSUME NEW i \in DOMAIN gen'.rows PROVE Decodes(gen'.rows[i])
    OBVIOUS
  <2>2. PICK j \in DOMAIN gen.rows : gen'.rows[i] = gen.rows[j]
    BY DEF GenLeft
  <2>3. Decodes(gen.rows[j])
    BY DEF Inv, Worked
  <2> QED BY <2>2, <2>3
<1>7. Worked'
  <2>1. \A i \in DOMAIN prompt'.rows : Aligned(prompt.rows[i], processing[i])'
    BY <1>5 DEF Aligned, AllOf
  <2>2. \A i \in DOMAIN gen'.rows : Decodes(gen.rows[i])'
    BY <1>6 DEF Decodes, AllOf
  <2> QED BY <1>1, <2>1, <2>2 DEF Worked
<1> QED BY <1>2, <1>3, <1>4, <1>7 DEF Inv

(* remove() takes a sequence out of the one place it is in. *)
LEMMA Removed ==
  ASSUME Inv, NEW uid \in DOMAIN asked, RemoveSequence(uid)
  PROVE  /\ asked' = asked /\ raised' = raised /\ ended' = ended \cup {uid}
         /\ unprocessed' \in Seq(DOMAIN asked) /\ Distinct(unprocessed')
         /\ In(unprocessed') = In(unprocessed) \ {uid}
         /\ PromptLeft(prompt', processing', Uids(prompt.rows) \ {uid})
         /\ GenLeft(gen', Uids(gen.rows) \ {uid})
<1>1. /\ asked' = asked /\ raised' = raised /\ ended' = ended \cup {uid}
      /\ unprocessed' = Pick(unprocessed, {i \in DOMAIN unprocessed : unprocessed[i] # uid})
  BY DEF RemoveSequence
<1>2. unprocessed' \in Seq(DOMAIN asked) /\ Distinct(unprocessed')
      /\ In(unprocessed') = In(unprocessed) \ {uid}
  BY <1>1, QueueRemoved
<1>3. PromptLeft(prompt', processing', Uids(prompt.rows) \ {uid})
  <2>1. CASE uid \in Uids(prompt.rows)
    <3>1. PICK keep : keep = {i \in DOMAIN prompt.rows : prompt.rows[i].uid # uid}
      OBVIOUS
    <3>2. prompt' = FilterPrompt(prompt, keep) /\ processing' = Pick(processing, keep)
      BY <2>1, <3>1 DEF RemoveSequence
    <3> QED BY <3>1, <3>2, PromptRemoved
  <2>2. CASE uid \notin Uids(prompt.rows)
    <3>1. prompt' = prompt /\ processing' = processing
      BY <2>2 DEF RemoveSequence
    <3>2. /\ Good(prompt, PromptRecords) /\ processing \in Seq(WorkRecords)
          /\ Len(processing) = Len(prompt.rows)
      BY DEF Inv, Typed, Worked
    <3>3. Len(prompt.rows) <= Len(prompt.rows) /\ Uids(prompt.rows) = Uids(prompt.rows) \ {uid}
      BY <2>2, Batched
    <3>4. PromptLeft(prompt, processing, Uids(prompt.rows) \ {uid})
      BY <3>2, <3>3 DEF PromptLeft
    <3> QED BY <3>1, <3>4
  <2> QED BY <2>1, <2>2
<1>4. GenLeft(gen', Uids(gen.rows) \ {uid})
  <2>1. CASE uid \in Uids(gen.rows)
    <3>1. PICK keep : keep = {i \in DOMAIN gen.rows : gen.rows[i].uid # uid}
      OBVIOUS
    <3>2. gen' = FilterGeneration(gen, keep)
      BY <2>1, <3>1 DEF RemoveSequence
    <3> QED BY <3>1, <3>2, GenRemoved
  <2>2. CASE uid \notin Uids(gen.rows)
    <3>1. gen' = gen
      BY <2>2 DEF RemoveSequence
    <3>2. Good(gen, GenRecords)
      BY DEF Inv, Typed
    <3>3. Len(gen.rows) <= Len(gen.rows) /\ Uids(gen.rows) = Uids(gen.rows) \ {uid}
      BY <2>2, Batched
    <3>4. GenLeft(gen, Uids(gen.rows) \ {uid})
      BY <3>2, <3>3 DEF GenLeft
    <3> QED BY <3>1, <3>4
  <2> QED BY <2>1, <2>2
<1> QED BY <1>1, <1>2, <1>3, <1>4

(* It keeps the invariant. *)
LEMMA RemoveInv ==
  ASSUME Inv, NEW uid \in DOMAIN asked, RemoveSequence(uid)
  PROVE  Inv'
<1>1. raised' \in {"no", "TypeError", "ValueError"}
  BY Removed DEF Inv, Typed
<1> QED BY <1>1, Removed, LeftInv

(* Nothing changes but the exception. *)
LEMMA RaisedInv ==
  ASSUME Inv, UNCHANGED <<asked, ended, unprocessed, processing, prompt, gen>>,
         raised' \in {"no", "TypeError", "ValueError"}
  PROVE  Inv'
<1>1. Typed'
  BY DEF Inv, Typed
<1>2. Staged'
  BY DEF Inv, Staged
<1>3. Bounded'
  BY DEF Inv, Bounded
<1>4. Worked'
  BY DEF Inv, Worked, Aligned, AllOf, Decodes
<1> QED BY <1>1, <1>2, <1>3, <1>4 DEF Inv

(* The rows that go on still hold their prompt and what they returned. *)
LEMMA DecodedDecodes ==
  ASSUME Inv, NEW decoding, NEW stops, DecodedFrom(decoding, stops)
  PROVE  /\ Good(decoding, GenRecords) /\ Len(decoding.rows) <= Len(gen.rows)
         /\ EndedBy(stops) \subseteq Uids(gen.rows)
         /\ Uids(decoding.rows) = Uids(gen.rows) \ EndedBy(stops)
         /\ \A k \in DOMAIN decoding.rows : Decodes(decoding.rows[k])
<1>1. ASSUME NEW k \in DOMAIN decoding.rows PROVE Decodes(decoding.rows[k])
  <2>1. PICK i \in DOMAIN gen.rows : decoding.rows[k] = OneMore(gen.rows[i])
    BY DEF DecodedFrom
  <2>2. PICK row \in GenRecords : row = gen.rows[i] /\ row.uid \in DOMAIN asked
    BY Batched
  <2>3. row.held \in Nat /\ row.num \in Nat /\ asked[row.uid].held \in Nat /\ AllOf(row.uid) \in Nat
    BY <2>2, AskedProperties DEF GenRecords, Inv, Typed
  <2>4. row.held = asked[row.uid].held + AllOf(row.uid) + row.num
    BY <2>2 DEF Inv, Worked, Decodes
  <2>5. row.held + 1 = asked[row.uid].held + AllOf(row.uid) + (row.num + 1)
    BY <2>3, <2>4
  <2>6. PICK more : more = OneMore(row)
    OBVIOUS
  <2>7. more.uid = row.uid /\ more.held = row.held + 1 /\ more.num = row.num + 1
    BY <2>6 DEF OneMore
  <2>8. Decodes(more)
    BY <2>5, <2>7 DEF Decodes
  <2> QED BY <2>1, <2>2, <2>6, <2>8
<1> QED BY <1>1 DEF DecodedFrom

(* A call that only decodes. *)
LEMMA DecodeOnlyInv ==
  ASSUME Inv, NEW stops, DecodeOnly(stops)
  PROVE  Inv'
<1>1. PICK decoding : /\ decoding = AfterDecode(stops)
                      /\ \/ raised' = "TypeError" /\ UNCHANGED <<gen, ended>>
                         \/ gen' = decoding /\ ended' = ended \cup EndedBy(stops) /\ UNCHANGED raised
                      /\ UNCHANGED <<asked, unprocessed, processing, prompt>>
  BY DEF DecodeOnly
<1>2. CASE raised' = "TypeError" /\ UNCHANGED <<gen, ended>>
  BY <1>1, <1>2, RaisedInv
<1>3. CASE gen' = decoding /\ ended' = ended \cup EndedBy(stops) /\ UNCHANGED raised
  <2>1. DecodedFrom(decoding, stops)
    BY <1>1, DecodeKept DEF Inv, Typed
  <2>2. /\ Good(decoding, GenRecords) /\ Len(decoding.rows) <= Len(gen.rows)
        /\ EndedBy(stops) \subseteq Uids(gen.rows)
        /\ Uids(decoding.rows) = Uids(gen.rows) \ EndedBy(stops)
        /\ \A k \in DOMAIN decoding.rows : Decodes(decoding.rows[k])
    BY <2>1, DecodedDecodes
  <2>3. Uids(gen.rows) \subseteq DOMAIN asked
    BY DEF Inv, Staged
  <2>4. Typed'
    BY <1>1, <1>3, <2>2, <2>3 DEF Inv, Typed
  <2>5. Staged'
    BY <1>1, <1>3, <2>2 DEF Inv, Staged
  <2>6. Bounded'
    <3>1. PICK b \in Nat, d \in Nat : b = Len(gen.rows) /\ d = Len(decoding.rows)
      <4>1. decoding.rows \in Seq(GenRecords)
        BY <2>2 DEF Good, Records
      <4> QED BY <4>1, Batched, LenProperties
    <3>2. d <= b /\ b < CompletionBatch + PrefillBatch
      BY <2>2, <3>1 DEF Inv, Bounded
    <3>3. d < CompletionBatch + PrefillBatch
      BY <3>2, SizesAssumption
    <3> QED BY <1>1, <1>3, <3>1, <3>3 DEF Inv, Bounded
  <2>7. Worked'
    <3>1. \A i \in DOMAIN gen'.rows : Decodes(gen.rows[i])'
      BY <1>1, <1>3, <2>2 DEF Decodes, AllOf
    <3>2. \A i \in DOMAIN prompt'.rows : Aligned(prompt.rows[i], processing[i])'
      BY <1>1 DEF Inv, Worked, Aligned, AllOf
    <3> QED BY <1>1, <3>1, <3>2 DEF Inv, Worked
  <2> QED BY <2>4, <2>5, <2>6, <2>7 DEF Inv
<1> QED BY <1>1, <1>2, <1>3

----------------------------------------
(* One call of next() that prefills, in its parts. *)

NextParts(stops, decoding, selected, uids, batch, work, starting, rest, started, still) ==
  /\ decoding = AfterDecode(stops) /\ DecodedFrom(decoding, stops)
  /\ Len(decoding.rows) \in Nat /\ Len(decoding.rows) < CompletionBatch
  /\ selected = Selected(decoding) /\ selected \in SUBSET DOMAIN unprocessed
  /\ uids = Pick(unprocessed, selected)
  /\ uids \in Seq(DOMAIN asked) /\ Distinct(uids) /\ In(uids) = {unprocessed[i] : i \in selected}
  /\ In(uids) \subseteq In(unprocessed)
  /\ Len(uids) \in Nat /\ Len(prompt.rows) + Len(uids) <= PrefillBatch
  /\ batch = AfterAdmission(uids) /\ work = WorkAfterAdmission(uids)
  /\ AdmittedTo(batch, work, uids)
  /\ starting = Starting(batch, work) /\ StartedFrom(starting, batch, work)
  /\ started = Stepped(starting)
  /\ still = StillPrompt(batch, work) /\ rest = Pick(work, Rest(work))
  /\ StillFrom(still, rest, batch, work)

(* What the parts of a call establish for each other. *)
LEMMA PartsOfNext ==
  ASSUME Inv, NEW stops, DecodeAndPrefill(stops), raised' = "no"
  PROVE  \E decoding, selected, uids, batch, work, starting, rest, started, still :
           /\ NextParts(stops, decoding, selected, uids, batch, work, starting, rest, started, still)
           /\ gen' = IF Ready(work) = {} THEN decoding ELSE ExtendGeneration(decoding, started)
           /\ prompt' = Prompted(still, [i \in DOMAIN rest |-> Chunk(rest[i])])
           /\ processing' = [i \in DOMAIN rest |-> Fed(rest[i])]
           /\ unprocessed' = Pick(unprocessed, DOMAIN unprocessed \ selected)
           /\ ended' = ended \cup EndedBy(stops)
           /\ asked' = asked
<1> DEFINE decoding == AfterDecode(stops)
           selected == Selected(decoding)
           uids == Pick(unprocessed, selected)
           batch == AfterAdmission(uids)
           work == WorkAfterAdmission(uids)
           starting == Starting(batch, work)
           rest == Pick(work, Rest(work))
           started == Stepped(starting)
           still == StillPrompt(batch, work)
<1>0. /\ Len(decoding.rows) < CompletionBatch
      /\ gen' = IF Ready(work) = {} THEN decoding ELSE ExtendGeneration(decoding, started)
      /\ prompt' = Prompted(still, [i \in DOMAIN rest |-> Chunk(rest[i])])
      /\ processing' = [i \in DOMAIN rest |-> Fed(rest[i])]
      /\ unprocessed' = Pick(unprocessed, DOMAIN unprocessed \ selected)
      /\ ended' = ended \cup EndedBy(stops)
      /\ asked' = asked
  BY DEF DecodeAndPrefill
<1>1. /\ decoding = AfterDecode(stops) /\ selected = Selected(decoding)
      /\ uids = Pick(unprocessed, selected)
      /\ batch = AfterAdmission(uids) /\ work = WorkAfterAdmission(uids)
      /\ starting = Starting(batch, work) /\ rest = Pick(work, Rest(work))
      /\ started = Stepped(starting) /\ still = StillPrompt(batch, work)
  OBVIOUS
<1> HIDE DEF decoding, selected, uids, batch, work, starting, rest, started, still
<1>2. DecodedFrom(decoding, stops) /\ Len(decoding.rows) \in Nat
  <2>1. DecodedFrom(decoding, stops)
    BY <1>1, DecodeKept DEF Inv, Typed
  <2>2. decoding.rows \in Seq(GenRecords)
    BY <2>1 DEF DecodedFrom, Good, Records
  <2> QED BY <2>1, <2>2, LenProperties
<1>3. unprocessed \in Seq(DOMAIN asked) /\ Distinct(unprocessed)
      /\ Len(prompt.rows) \in Nat /\ Len(prompt.rows) <= PrefillBatch
  BY Batched DEF Inv, Typed, Staged, Bounded
<1>4. /\ selected \in SUBSET DOMAIN unprocessed /\ Cardinality(selected) \in Nat
      /\ selected # {} => Cardinality(selected) <= PrefillBatch - Len(prompt.rows)
  BY <1>1, <1>2, <1>3, SelectedProperties
<1>5. /\ uids \in Seq(DOMAIN asked) /\ Distinct(uids) /\ Len(uids) = Cardinality(selected)
      /\ In(uids) = {unprocessed[i] : i \in selected}
  <2>1. PICK R : R = DOMAIN asked
    OBVIOUS
  <2>2. unprocessed \in Seq(R)
    BY <1>3, <2>1
  <2>3. /\ Pick(unprocessed, selected) \in Seq(R) /\ Distinct(Pick(unprocessed, selected))
        /\ Len(Pick(unprocessed, selected)) = Cardinality(selected)
        /\ In(Pick(unprocessed, selected)) = {unprocessed[i] : i \in selected}
    BY <1>3, <1>4, <2>2, PickDistinct
  <2> QED BY <1>1, <2>1, <2>3
<1>6. In(uids) \subseteq In(unprocessed)
  BY <1>4, <1>5 DEF In
<1>7. Len(uids) \in Nat /\ Len(prompt.rows) + Len(uids) <= PrefillBatch
  <2>1. PICK n \in Nat : n = Cardinality(selected) /\ n = Len(uids)
    BY <1>4, <1>5
  <2>2. PICK m \in Nat : m = Len(prompt.rows) /\ m <= PrefillBatch
    BY <1>3
  <2>3. selected = {} => n = 0
    BY <2>1, FS_EmptySet
  <2>4. selected # {} => n <= PrefillBatch - m
    BY <1>4, <2>1, <2>2
  <2>5. m + n <= PrefillBatch
    BY <2>2, <2>3, <2>4, SizesAssumption
  <2> QED BY <2>1, <2>2, <2>5
<1>8. AdmittedTo(batch, work, uids)
  <2>1. In(uids) \cap Uids(prompt.rows) = {}
    BY <1>6 DEF Inv, Staged
  <2> QED BY <1>1, <1>5, <2>1, AdmissionKept DEF Inv
<1>9. Good(batch, PromptRecords) /\ work \in Seq(WorkRecords) /\ Len(work) = Len(batch.rows)
  BY <1>8 DEF AdmittedTo
<1>10. StartedFrom(starting, batch, work)
  BY <1>1, <1>9, StartingKept
<1>11. StillFrom(still, rest, batch, work)
  BY <1>1, <1>9, RestKept
<1>12. NextParts(stops, decoding, selected, uids, batch, work, starting, rest, started, still)
  BY <1>0, <1>1, <1>2, <1>4, <1>5, <1>6, <1>7, <1>8, <1>10, <1>11 DEF NextParts
<1> QED BY <1>0, <1>12

(* The prompt batch with those admitted, cut in those that start decoding *)
(* and those that go on.                                                  *)
LEMMA PartsCut ==
  ASSUME Inv,
         NEW stops, NEW decoding, NEW selected, NEW uids, NEW batch, NEW work, NEW starting,
         NEW rest, NEW started, NEW still,
         NextParts(stops, decoding, selected, uids, batch, work, starting, rest, started, still)
  PROVE  /\ Ready(work) \cup Rest(work) = DOMAIN batch.rows
         /\ Ready(work) \cap Rest(work) = {}
         /\ batch.rows \in Seq(PromptRecords) /\ DOMAIN batch.rows = DOMAIN work
         /\ Uids(batch.rows) = Uids(prompt.rows) \cup In(uids)
         /\ Uids(batch.rows) \subseteq DOMAIN asked
         /\ Uids(starting.rows) \cup Uids(still.rows) = Uids(batch.rows)
         /\ Uids(starting.rows) \cap Uids(still.rows) = {}
         /\ \A i \in DOMAIN batch.rows : /\ batch.rows[i] \in PromptRecords
                                         /\ batch.rows[i].uid \in DOMAIN asked
                                         /\ work[i] \in WorkRecords
                                         /\ Aligned(batch.rows[i], work[i])
<1>1. /\ Good(batch, PromptRecords) /\ Uids(batch.rows) = Uids(prompt.rows) \cup In(uids)
      /\ work \in Seq(WorkRecords) /\ Len(work) = Len(batch.rows)
      /\ \A i \in DOMAIN batch.rows : Aligned(batch.rows[i], work[i])
      /\ Uids(starting.rows) = {batch.rows[i].uid : i \in Ready(work)}
      /\ Uids(still.rows) = {batch.rows[i].uid : i \in Rest(work)}
      /\ In(uids) \subseteq In(unprocessed)
  BY DEF NextParts, AdmittedTo, StartedFrom, StillFrom
<1>2. batch.rows \in Seq(PromptRecords) /\ DOMAIN batch.rows = DOMAIN work /\ OneRow(batch.rows)
      /\ \A i \in DOMAIN batch.rows : work[i] \in WorkRecords /\ batch.rows[i] \in PromptRecords
  <2>1. batch.rows \in Seq(PromptRecords) /\ OneRow(batch.rows)
    BY <1>1 DEF Good, Records
  <2> QED BY <1>1, <2>1, LenProperties, ElementOfSeq
<1>3. Ready(work) \cup Rest(work) = DOMAIN batch.rows /\ Ready(work) \cap Rest(work) = {}
  BY <1>2 DEF Ready, Rest
<1>4. Uids(batch.rows) = {batch.rows[i].uid : i \in DOMAIN batch.rows}
  BY DEF Uids
<1>5. Uids(starting.rows) \cup Uids(still.rows) = Uids(batch.rows)
  BY <1>1, <1>3, <1>4
<1>6. Uids(starting.rows) \cap Uids(still.rows) = {}
  BY <1>1, <1>2, <1>3 DEF OneRow
<1>7. Uids(batch.rows) \subseteq DOMAIN asked
  <2>1. Uids(prompt.rows) \subseteq DOMAIN asked /\ In(unprocessed) \subseteq DOMAIN asked
    BY DEF Inv, Staged
  <2> QED BY <1>1, <2>1
<1>8. \A i \in DOMAIN batch.rows : batch.rows[i].uid \in DOMAIN asked
  BY <1>4, <1>7
<1> QED BY <1>1, <1>2, <1>3, <1>5, <1>6, <1>7, <1>8

(* The rows that start decoding hold their prompt. *)
LEMMA StartedDecodes ==
  ASSUME Inv,
         NEW stops, NEW decoding, NEW selected, NEW uids, NEW batch, NEW work, NEW starting,
         NEW rest, NEW started, NEW still,
         NextParts(stops, decoding, selected, uids, batch, work, starting, rest, started, still)
  PROVE  /\ Good(started, GenRecords) /\ started.lp = starting.lp
         /\ Len(started.rows) = Len(starting.rows) /\ DOMAIN started.rows = DOMAIN starting.rows
         /\ started.rows = <<>> <=> Ready(work) = {}
         /\ Uids(started.rows) = Uids(starting.rows)
         /\ \A k \in DOMAIN started.rows : /\ started.rows[k].num = 0
                                           /\ Decodes(started.rows[k])
                                           /\ \E i \in Ready(work) :
                                                /\ started.rows[k].uid = batch.rows[i].uid
                                                /\ started.rows[k].held = batch.rows[i].held + 1
<1>1. StartedFrom(starting, batch, work) /\ started = Stepped(starting)
  BY DEF NextParts
<1>2. Good(starting, GenRecords) /\ (starting.rows = <<>> <=> Ready(work) = {})
  BY <1>1 DEF StartedFrom
<1>3. /\ Good(started, GenRecords) /\ started.lp = starting.lp
      /\ Len(started.rows) = Len(starting.rows) /\ DOMAIN started.rows = DOMAIN starting.rows
      /\ started.rows = <<>> <=> starting.rows = <<>>
      /\ Uids(started.rows) = Uids(starting.rows)
      /\ \A i \in DOMAIN starting.rows :
           started.rows[i] = [uid |-> starting.rows[i].uid, held |-> starting.rows[i].held + 1,
                              num |-> starting.rows[i].num]
  BY <1>1, <1>2, SteppedGood
<1>4. ASSUME NEW k \in DOMAIN started.rows
      PROVE  /\ started.rows[k].num = 0 /\ Decodes(started.rows[k])
             /\ \E i \in Ready(work) : /\ started.rows[k].uid = batch.rows[i].uid
                                       /\ started.rows[k].held = batch.rows[i].held + 1
  <2>1. PICK i \in Ready(work) :
          starting.rows[k] = [uid |-> batch.rows[i].uid, held |-> batch.rows[i].held, num |-> 0]
    BY <1>1, <1>3 DEF StartedFrom
  <2>2. PICK row : row = batch.rows[i]
    OBVIOUS
  <2>3. PICK w : w = work[i]
    OBVIOUS
  <2>4. row \in PromptRecords /\ row.uid \in DOMAIN asked /\ w \in WorkRecords /\ Aligned(row, w)
    BY <2>2, <2>3, PartsCut
  <2>5. w.segments = << 1 >>
    BY <2>3 DEF Ready
  <2>6. row.held + 1 = asked[row.uid].held + AllOf(row.uid)
    BY <2>4, <2>5, ReadyAligned DEF Inv, Typed
  <2>7. started.rows[k] = [uid |-> row.uid, held |-> row.held + 1, num |-> 0]
    BY <1>3, <2>1, <2>2, SMTT(30)
  <2>8. PICK r : r = started.rows[k]
    OBVIOUS
  <2>9. r.uid = row.uid /\ r.held = row.held + 1 /\ r.num = 0
    BY <2>7, <2>8
  <2>10. asked[row.uid].held \in Nat /\ AllOf(row.uid) \in Nat
    BY <2>4, AskedProperties DEF Inv, Typed
  <2>11. Decodes(r)
    BY <2>6, <2>9, <2>10 DEF Decodes
  <2> QED BY <2>2, <2>8, <2>9, <2>11
<1> QED BY <1>2, <1>3, <1>4

(* The generation batch after the call. *)
GenJoined(g, decoding, starting, started) ==
  /\ Good(g, GenRecords)
  /\ Len(g.rows) < CompletionBatch + PrefillBatch
  /\ Uids(g.rows) = Uids(decoding.rows) \cup Uids(starting.rows)
  /\ \A k \in DOMAIN g.rows :
       \/ \E j \in DOMAIN decoding.rows : g.rows[k] = decoding.rows[j]
       \/ \E j \in DOMAIN started.rows : g.rows[k] = started.rows[j]

(* Those that go on decoding and those that start make a batch within its *)
(* bound.                                                                 *)
LEMMA GenAfter ==
  ASSUME Inv,
         NEW stops, NEW decoding, NEW selected, NEW uids, NEW batch, NEW work, NEW starting,
         NEW rest, NEW started, NEW still,
         NextParts(stops, decoding, selected, uids, batch, work, starting, rest, started, still),
         NEW g, g = IF Ready(work) = {} THEN decoding ELSE ExtendGeneration(decoding, started)
  PROVE  GenJoined(g, decoding, starting, started)
<1>1. /\ Good(decoding, GenRecords) /\ Uids(decoding.rows) \subseteq Uids(gen.rows)
      /\ Len(decoding.rows) \in Nat /\ Len(decoding.rows) < CompletionBatch
      /\ Len(starting.rows) <= Len(batch.rows)
      /\ Len(batch.rows) = Len(prompt.rows) + Len(uids)
      /\ Len(uids) \in Nat /\ Len(prompt.rows) + Len(uids) <= PrefillBatch
      /\ In(uids) \subseteq In(unprocessed)
      /\ StartedFrom(starting, batch, work)
  BY DEF NextParts, DecodedFrom, StartedFrom, AdmittedTo
<1>2. Uids(starting.rows) \subseteq Uids(prompt.rows) \cup In(uids)
  BY PartsCut
<1>3. /\ Good(started, GenRecords) /\ Len(started.rows) = Len(starting.rows)
      /\ DOMAIN started.rows = DOMAIN starting.rows
      /\ started.rows = <<>> <=> Ready(work) = {}
      /\ Uids(started.rows) = Uids(starting.rows)
  BY StartedDecodes
<1>4. CASE Ready(work) = {}
  <2>1. g = decoding
    BY <1>4
  <2>2. Uids(starting.rows) = {}
    BY <1>1, <1>4 DEF StartedFrom
  <2>3. Len(decoding.rows) < CompletionBatch + PrefillBatch
    BY <1>1, SizesAssumption
  <2> QED BY <1>1, <2>1, <2>2, <2>3 DEF GenJoined
<1>5. CASE Ready(work) # {}
  <2>1. g = ExtendRows(decoding, started, decoding.lp \o started.lp)
    BY <1>5 DEF ExtendGeneration
  <2>2. /\ decoding.lp \in Seq(Applied) /\ Len(decoding.lp) >= Len(decoding.rows)
        /\ started.lp \in Seq(Applied) /\ Len(started.lp) >= Len(started.rows)
        /\ decoding.rows \in Seq(GenRecords) /\ started.rows \in Seq(GenRecords)
    BY <1>1, <1>3 DEF Good, Records
  <2>3. PICK a \in Nat, b \in Nat : a = Len(decoding.rows) /\ b = Len(started.rows)
                                    /\ DOMAIN decoding.rows = 1..a /\ DOMAIN started.rows = 1..b
    BY <2>2, LenProperties
  <2>4. PICK c \in Nat, d \in Nat : c = Len(decoding.lp) /\ d = Len(started.lp)
    BY <2>2, LenProperties
  <2>5. PICK lp \in Seq(Applied) : lp = decoding.lp \o started.lp /\ Len(lp) = c + d
    BY <2>2, <2>4, ConcatProperties
  <2>6. Len(lp) >= Len(decoding.rows) + Len(started.rows)
    <3>1. c >= a /\ d >= b /\ Len(lp) = c + d
      BY <2>2, <2>3, <2>4, <2>5
    <3>2. Len(lp) >= a + b
      BY <3>1
    <3> QED BY <2>3, <3>2
  <2>7. Uids(decoding.rows) \cap Uids(started.rows) = {}
    <3>1. Uids(gen.rows) \cap (Uids(prompt.rows) \cup In(unprocessed)) = {}
      BY DEF Inv, Staged
    <3> QED BY <1>1, <1>2, <1>3, <3>1
  <2>8. Rowed(GenRecords)
    BY RecordFields DEF Rowed
  <2>9. Joined(ExtendRows(decoding, started, lp), decoding, started, GenRecords)
    BY <1>1, <1>3, <2>6, <2>7, <2>8, ExtendGood
  <2>10. Joined(g, decoding, started, GenRecords)
    BY <2>1, <2>5, <2>9
  <2>11. /\ Good(g, GenRecords) /\ Len(g.rows) = a + b
         /\ Uids(g.rows) = Uids(decoding.rows) \cup Uids(started.rows)
         /\ \A i \in 1..a : g.rows[i] = decoding.rows[i]
         /\ \A i \in 1..b : g.rows[a + i] = started.rows[i]
         /\ \A i \in DOMAIN g.rows : i \in 1..a \/ (i > a /\ i - a \in 1..b)
    BY <2>3, <2>10 DEF Joined
  <2>12. a + b < CompletionBatch + PrefillBatch
    <3>1. PICK m \in Nat, n \in Nat : m = Len(prompt.rows) /\ n = Len(uids)
      BY <1>1, Batched
    <3>2. a < CompletionBatch /\ b <= m + n /\ m + n <= PrefillBatch
      BY <1>1, <1>3, <2>3, <3>1
    <3> QED BY <3>2, SizesAssumption
  <2>13. DOMAIN g.rows = 1..a + b
    <3>1. g.rows \in Seq(GenRecords)
      BY <2>11 DEF Good, Records
    <3> QED BY <2>11, <3>1, LenProperties
  <2>14. ASSUME NEW k \in DOMAIN g.rows
         PROVE  \/ \E j \in 1..a : g.rows[k] = decoding.rows[j]
                \/ \E j \in 1..b : g.rows[k] = started.rows[j]
    <3>1. CASE k \in 1..a
      BY <2>11, <3>1
    <3>2. CASE k > a /\ k - a \in 1..b
      <4>1. PICK j \in 1..b : k = a + j
        <5>1. k = a + (k - a)
          BY <2>13
        <5> QED BY <3>2, <5>1
      <4> QED BY <2>11, <4>1
    <3> QED BY <2>11, <3>1, <3>2
  <2> QED BY <1>3, <2>3, <2>11, <2>12, <2>14, ZenonT(40) DEF GenJoined
<1> QED BY <1>4, <1>5

(* The prompt batch after the call. *)
LEMMA PromptAfter ==
  ASSUME Inv,
         NEW stops, NEW decoding, NEW selected, NEW uids, NEW batch, NEW work, NEW starting,
         NEW rest, NEW started, NEW still,
         NextParts(stops, decoding, selected, uids, batch, work, starting, rest, started, still)
  PROVE  FedFrom(Prompted(still, [i \in DOMAIN rest |-> Chunk(rest[i])]),
                 [i \in DOMAIN rest |-> Fed(rest[i])], still, rest)
<1>1. /\ Good(still, PromptRecords) /\ rest \in Seq(WorkRecords) /\ Len(rest) = Len(still.rows)
      /\ \A k \in DOMAIN still.rows : \E i \in Rest(work) :
           still.rows[k] = batch.rows[i] /\ rest[k] = work[i]
  BY DEF NextParts, StillFrom
<1>2. ASSUME NEW k \in DOMAIN still.rows
      PROVE  /\ still.rows[k].uid \in DOMAIN asked
             /\ Aligned(still.rows[k], rest[k]) /\ rest[k].segments # << 1 >>
  <2>1. PICK i \in Rest(work) : still.rows[k] = batch.rows[i] /\ rest[k] = work[i]
    BY <1>1
  <2>2. i \in DOMAIN batch.rows /\ work[i].segments # << 1 >>
    <3>1. i \in DOMAIN batch.rows
      BY PartsCut
    <3> QED BY <3>1 DEF Rest, Ready
  <2>3. batch.rows[i].uid \in DOMAIN asked /\ Aligned(batch.rows[i], work[i])
    BY <2>2, PartsCut
  <2> QED BY <2>1, <2>2, <2>3
<1>3. asked \in Seq(AskedRecords)
  BY DEF Inv, Typed
<1> QED BY <1>1, <1>2, <1>3, FedKept

(* What a call that prefills leaves behind. *)
AfterPrefill(stops, decoding, uids, starting, rest, started, still) ==
  /\ asked' = asked /\ ended' = ended \cup EndedBy(stops)
  /\ unprocessed' \in Seq(DOMAIN asked) /\ Distinct(unprocessed')
  /\ In(unprocessed') = In(unprocessed) \ In(uids)
  /\ GenJoined(gen', decoding, starting, started)
  /\ FedFrom(prompt', processing', still, rest)

(* Such a call leaves this behind when nothing is raised. *)
LEMMA Prefilled ==
  ASSUME Inv, NEW stops, DecodeAndPrefill(stops), raised' = "no"
  PROVE  \E decoding, selected, uids, batch, work, starting, rest, started, still :
           /\ NextParts(stops, decoding, selected, uids, batch, work, starting, rest, started, still)
           /\ AfterPrefill(stops, decoding, uids, starting, rest, started, still)
<1>1. PICK decoding, selected, uids, batch, work, starting, rest, started, still :
         /\ NextParts(stops, decoding, selected, uids, batch, work, starting, rest, started, still)
         /\ gen' = IF Ready(work) = {} THEN decoding ELSE ExtendGeneration(decoding, started)
         /\ prompt' = Prompted(still, [i \in DOMAIN rest |-> Chunk(rest[i])])
         /\ processing' = [i \in DOMAIN rest |-> Fed(rest[i])]
         /\ unprocessed' = Pick(unprocessed, DOMAIN unprocessed \ selected)
         /\ ended' = ended \cup EndedBy(stops)
         /\ asked' = asked
  BY PartsOfNext, ZenonT(40)
<1>0. NextParts(stops, decoding, selected, uids, batch, work, starting, rest, started, still)
  BY <1>1
<1>2. GenJoined(gen', decoding, starting, started)
  <2>1. PICK g : g = IF Ready(work) = {} THEN decoding ELSE ExtendGeneration(decoding, started)
    OBVIOUS
  <2>2. GenJoined(g, decoding, starting, started)
    BY <1>0, <2>1, GenAfter
  <2> QED BY <1>1, <2>1, <2>2
<1>3. FedFrom(prompt', processing', still, rest)
  BY <1>1, PromptAfter
<1>4. selected \in SUBSET DOMAIN unprocessed /\ In(uids) = {unprocessed[i] : i \in selected}
  BY <1>0 DEF NextParts
<1>5. /\ unprocessed' \in Seq(DOMAIN asked) /\ Distinct(unprocessed')
      /\ In(unprocessed') = In(unprocessed) \ In(uids)
  <2>1. PICK R : R = DOMAIN asked
    OBVIOUS
  <2>2. unprocessed \in Seq(R) /\ Distinct(unprocessed)
    BY <2>1 DEF Inv, Typed, Staged
  <2> DEFINE keep == DOMAIN unprocessed \ selected
  <2>3. keep \in SUBSET DOMAIN unprocessed
    OBVIOUS
  <2>4. {unprocessed[i] : i \in keep} = In(unprocessed) \ In(uids)
    <3>1. \A i, j \in DOMAIN unprocessed : unprocessed[i] = unprocessed[j] => i = j
      BY <2>2 DEF Distinct
    <3>2. ASSUME NEW u PROVE u \in {unprocessed[i] : i \in keep} <=> u \in In(unprocessed) \ In(uids)
      <4>1. u \in {unprocessed[i] : i \in keep} <=> \E i \in keep : u = unprocessed[i]
        OBVIOUS
      <4>2. u \in In(unprocessed) <=> \E i \in DOMAIN unprocessed : u = unprocessed[i]
        BY DEF In
      <4>3. u \in In(uids) <=> \E i \in selected : u = unprocessed[i]
        BY <1>4
      <4>4. \A i \in DOMAIN unprocessed : i \in keep <=> i \notin selected
        OBVIOUS
      <4> HIDE DEF keep
      <4> QED BY <1>4, <2>3, <3>1, <4>1, <4>2, <4>3, <4>4
    <3> QED BY <3>2
  <2> HIDE DEF keep
  <2>5. /\ Pick(unprocessed, keep) \in Seq(R) /\ Distinct(Pick(unprocessed, keep))
        /\ In(Pick(unprocessed, keep)) = {unprocessed[i] : i \in keep}
    BY <2>2, <2>3, PickDistinct
  <2> QED BY <1>1, <2>1, <2>4, <2>5 DEF keep
<1>6. AfterPrefill(stops, decoding, uids, starting, rest, started, still)
  BY <1>1, <1>2, <1>3, <1>5 DEF AfterPrefill
<1> QED BY <1>0, <1>6

(* A call that decodes, admits, starts and prefills. *)
LEMMA PrefillInv ==
  ASSUME Inv, NEW stops, DecodeAndPrefill(stops)
  PROVE  Inv'
<1>1. CASE raised' # "no"
  <2>1. UNCHANGED <<asked, ended, unprocessed, processing, prompt, gen>>
    BY <1>1 DEF DecodeAndPrefill
  <2>2. raised' \in {"no", "TypeError", "ValueError"}
    BY DEF DecodeAndPrefill, Raised
  <2> QED BY <2>1, <2>2, RaisedInv
<1>2. CASE raised' = "no"
  <2>1. PICK decoding, selected, uids, batch, work, starting, rest, started, still :
           /\ NextParts(stops, decoding, selected, uids, batch, work, starting, rest, started, still)
           /\ AfterPrefill(stops, decoding, uids, starting, rest, started, still)
    BY <1>2, Prefilled
  <2>0. NextParts(stops, decoding, selected, uids, batch, work, starting, rest, started, still)
    BY <2>1
  <2>2. /\ Good(gen', GenRecords) /\ Len(gen'.rows) < CompletionBatch + PrefillBatch
        /\ Uids(gen'.rows) = Uids(decoding.rows) \cup Uids(starting.rows)
        /\ \A k \in DOMAIN gen'.rows :
              \/ \E j \in DOMAIN decoding.rows : gen'.rows[k] = decoding.rows[j]
              \/ \E j \in DOMAIN started.rows : gen'.rows[k] = started.rows[j]
    BY <2>1 DEF AfterPrefill, GenJoined
  <2>3. FedFrom(prompt', processing', still, rest)
    BY <2>1 DEF AfterPrefill
  <2>4. /\ DecodedFrom(decoding, stops) /\ selected \in SUBSET DOMAIN unprocessed
        /\ In(uids) = {unprocessed[i] : i \in selected} /\ In(uids) \subseteq In(unprocessed)
        /\ Len(uids) \in Nat /\ Len(prompt.rows) + Len(uids) <= PrefillBatch
        /\ Len(batch.rows) = Len(prompt.rows) + Len(uids)
        /\ Len(still.rows) <= Len(batch.rows)
    BY <2>0 DEF NextParts, AdmittedTo, StillFrom
  <2>5. /\ EndedBy(stops) \subseteq Uids(gen.rows)
        /\ Uids(decoding.rows) = Uids(gen.rows) \ EndedBy(stops)
        /\ \A k \in DOMAIN decoding.rows : Decodes(decoding.rows[k])
    BY <2>4, DecodedDecodes
  <2>6. /\ Uids(batch.rows) = Uids(prompt.rows) \cup In(uids)
        /\ Uids(starting.rows) \cup Uids(still.rows) = Uids(batch.rows)
        /\ Uids(starting.rows) \cap Uids(still.rows) = {}
    BY <2>0, PartsCut
  <2>7. /\ Good(prompt', PromptRecords) /\ Len(prompt'.rows) = Len(still.rows)
        /\ Uids(prompt'.rows) = Uids(still.rows)
        /\ processing' \in Seq(WorkRecords) /\ Len(processing') = Len(prompt'.rows)
        /\ \A i \in DOMAIN prompt'.rows : Aligned(prompt'.rows[i], processing'[i])
    BY <2>3 DEF FedFrom
  <2>8. /\ unprocessed' \in Seq(DOMAIN asked) /\ Distinct(unprocessed')
        /\ In(unprocessed') = In(unprocessed) \ In(uids)
        /\ asked' = asked /\ ended' = ended \cup EndedBy(stops)
    BY <2>1 DEF AfterPrefill
  <2>9. /\ In(unprocessed) \cap Uids(prompt.rows) = {}
        /\ In(unprocessed) \cap Uids(gen.rows) = {}
        /\ Uids(prompt.rows) \cap Uids(gen.rows) = {}
        /\ In(unprocessed) \cup Uids(prompt.rows) \cup Uids(gen.rows) = DOMAIN asked \ ended
        /\ ended \subseteq DOMAIN asked /\ asked \in Seq(AskedRecords)
    BY DEF Inv, Staged, Typed
  <2>10. Typed'
    <3>1. ended' \subseteq DOMAIN asked'
      BY <2>5, <2>8, <2>9
    <3> QED BY <1>2, <2>2, <2>7, <2>8, <2>9, <3>1 DEF Typed
  <2>11. Staged'
    <3>1. In(unprocessed') \cap Uids(prompt'.rows) = {}
      BY <2>6, <2>7, <2>8, <2>9
    <3>2. In(unprocessed') \cap Uids(gen'.rows) = {}
      BY <2>2, <2>4, <2>5, <2>6, <2>8, <2>9
    <3>3. Uids(prompt'.rows) \cap Uids(gen'.rows) = {}
      BY <2>2, <2>4, <2>5, <2>6, <2>7, <2>9
    <3>4. In(unprocessed') \cup Uids(prompt'.rows) \cup Uids(gen'.rows)
            = (In(unprocessed) \cup Uids(prompt.rows) \cup Uids(gen.rows)) \ EndedBy(stops)
      <4>1. Uids(prompt'.rows) \cup Uids(starting.rows) = Uids(prompt.rows) \cup In(uids)
        BY <2>6, <2>7
      <4> QED BY <2>2, <2>4, <2>5, <2>8, <2>9, <4>1
    <3>5. DOMAIN asked' \ ended' = (DOMAIN asked \ ended) \ EndedBy(stops)
      BY <2>8
    <3> QED BY <2>8, <2>9, <3>1, <3>2, <3>3, <3>4, <3>5 DEF Staged
  <2>12. Bounded'
    <3>1. PICK m \in Nat, n \in Nat : m = Len(prompt.rows) /\ n = Len(uids)
      BY <2>4, Batched
    <3>2. PICK p \in Nat : p = Len(prompt'.rows)
      <4>1. prompt'.rows \in Seq(PromptRecords)
        BY <2>7 DEF Good, Records
      <4> QED BY <4>1, LenProperties
    <3>3. p <= m + n /\ m + n <= PrefillBatch
      BY <2>4, <2>7, <3>1, <3>2
    <3>4. p <= PrefillBatch
      BY <3>3, SizesAssumption
    <3> QED BY <2>2, <3>2, <3>4 DEF Bounded
  <2>13. \A k \in DOMAIN gen'.rows : Decodes(gen'.rows[k])
    <3>1. \A k \in DOMAIN started.rows : Decodes(started.rows[k])
      BY <2>0, StartedDecodes
    <3> QED BY <2>2, <2>5, <3>1
  <2>14. Worked'
    <3>1. \A i \in DOMAIN prompt'.rows : Aligned(prompt.rows[i], processing[i])'
      BY <2>7, <2>8 DEF Aligned, AllOf
    <3>2. \A i \in DOMAIN gen'.rows : Decodes(gen.rows[i])'
      BY <2>8, <2>13 DEF Decodes, AllOf
    <3> QED BY <2>7, <3>1, <3>2 DEF Worked
  <2> QED BY <2>10, <2>11, <2>12, <2>14 DEF Inv
<1> QED BY <1>1, <1>2

(* Every step keeps the invariant. *)
LEMMA NextInv == Inv /\ [Next]_vars => Inv'
<1> SUFFICES ASSUME Inv, [Next]_vars PROVE Inv'
  OBVIOUS
<1>1. ASSUME NEW s \in Segmentings, NEW m \in MaxTokens, NEW c \in Caches, NEW p \in Processors,
             Insert(s, m, c, p)
      PROVE  Inv'
  BY <1>1, InsertInv
<1>2. ASSUME NEW uid \in DOMAIN asked, RemoveSequence(uid) PROVE Inv'
  BY <1>2, RemoveInv
<1>3. ASSUME NEW stops, DecodeOnly(stops) \/ DecodeAndPrefill(stops) PROVE Inv'
  BY <1>3, DecodeOnlyInv, PrefillInv
<1>4. CASE UNCHANGED vars
  <2>1. UNCHANGED <<asked, ended, unprocessed, processing, prompt, gen>> /\ raised' = raised
    BY <1>4 DEF vars
  <2>2. raised' \in {"no", "TypeError", "ValueError"}
    BY <2>1 DEF Inv, Typed
  <2> QED BY <2>1, <2>2, RaisedInv
<1> QED BY <1>1, <1>2, <1>3, <1>4 DEF Next, CallNext

(* Two lists without repetition and nothing in common, one behind the *)
(* other.                                                             *)
LEMMA ConcatDistinct ==
  \A R : \A s, t \in Seq(R) :
    Distinct(s) /\ Distinct(t) /\ In(s) \cap In(t) = {} =>
      /\ s \o t \in Seq(R) /\ Distinct(s \o t)
      /\ In(s \o t) = In(s) \cup In(t)
<1> SUFFICES ASSUME NEW R, NEW s \in Seq(R), NEW t \in Seq(R),
                    Distinct(s), Distinct(t), In(s) \cap In(t) = {}
             PROVE  /\ s \o t \in Seq(R) /\ Distinct(s \o t)
                    /\ In(s \o t) = In(s) \cup In(t)
  OBVIOUS
<1>1. PICK m \in Nat, n \in Nat : m = Len(s) /\ n = Len(t) /\ DOMAIN s = 1..m /\ DOMAIN t = 1..n
  BY LenProperties
<1>2. PICK c : c = s \o t
  OBVIOUS
<1>3. /\ c \in Seq(R) /\ DOMAIN c = 1..m + n
      /\ \A i \in 1..m + n : c[i] = IF i <= m THEN s[i] ELSE t[i - m]
  <2>1. /\ c \in Seq(R) /\ Len(c) = Len(s) + Len(t)
        /\ \A i \in 1..Len(s) + Len(t) : c[i] = IF i <= Len(s) THEN s[i] ELSE t[i - Len(s)]
    BY <1>2, ConcatProperties
  <2>2. Len(c) = m + n
    BY <1>1, <2>1
  <2> QED BY <1>1, <2>1, <2>2, LenProperties
<1>4. \A i \in 1..m + n : \/ i \in 1..m /\ c[i] = s[i]
                          \/ i > m /\ i - m \in 1..n /\ c[i] = t[i - m]
  <2>1. \A i \in 1..m + n : (i \in 1..m /\ i <= m) \/ (i > m /\ ~(i <= m) /\ i - m \in 1..n)
    OBVIOUS
  <2> QED BY <1>3, <2>1
<1>5. \A i \in 1..m : i \in 1..m + n /\ c[i] = s[i]
  <2>1. \A i \in 1..m : i \in 1..m + n /\ i <= m
    OBVIOUS
  <2> QED BY <1>3, <2>1
<1>6. \A i \in 1..n : \E j \in 1..m + n : c[j] = t[i]
  <2>1. \A i \in 1..n : m + i \in 1..m + n /\ ~(m + i <= m) /\ (m + i) - m = i
    OBVIOUS
  <2> QED BY <1>3, <2>1
<1>7. In(c) = In(s) \cup In(t)
  <2>1. ASSUME NEW u PROVE u \in In(c) <=> u \in In(s) \/ u \in In(t)
    <3>1. u \in In(c) <=> \E i \in 1..m + n : u = c[i]
      BY <1>3 DEF In
    <3>2. u \in In(s) <=> \E i \in 1..m : u = s[i]
      BY <1>1 DEF In
    <3>3. u \in In(t) <=> \E i \in 1..n : u = t[i]
      BY <1>1 DEF In
    <3> QED BY <1>4, <1>5, <1>6, <3>1, <3>2, <3>3
  <2> QED BY <2>1
<1>8. Distinct(c)
  <2>1. SUFFICES ASSUME NEW i \in 1..m + n, NEW j \in 1..m + n, c[i] = c[j] PROVE i = j
    BY <1>3 DEF Distinct
  <2>2. \A g \in 1..m, h \in 1..n : s[g] # t[h]
    BY <1>1 DEF In
  <2>3. \A g, h \in 1..m : s[g] = s[h] => g = h
    BY <1>1 DEF Distinct
  <2>4. \A g, h \in 1..n : t[g] = t[h] => g = h
    BY <1>1 DEF Distinct
  <2>5. CASE i \in 1..m /\ c[i] = s[i]
    <3>1. j \in 1..m /\ c[j] = s[j]
      BY <1>4, <2>1, <2>2, <2>5
    <3> QED BY <2>1, <2>3, <2>5, <3>1
  <2>6. CASE i > m /\ i - m \in 1..n /\ c[i] = t[i - m]
    <3>1. j > m /\ j - m \in 1..n /\ c[j] = t[j - m]
      BY <1>4, <2>1, <2>2, <2>6
    <3>2. i - m = j - m
      BY <2>1, <2>4, <2>6, <3>1
    <3> QED BY <3>2
  <2> QED BY <1>4, <2>5, <2>6
<1> QED BY <1>2, <1>3, <1>7, <1>8

(* The uids of rows as a list. *)
LEMMA UidList ==
  ASSUME NEW R, NEW rows \in Seq(R), \A i \in DOMAIN rows : rows[i].uid \in Nat, OneRow(rows)
  PROVE  LET s == [i \in DOMAIN rows |-> rows[i].uid]
         IN  s \in Seq(Nat) /\ Distinct(s) /\ In(s) = Uids(rows)
<1> DEFINE s == [i \in DOMAIN rows |-> rows[i].uid]
<1>1. PICK n \in Nat : DOMAIN rows = 1..n
  BY LenProperties
<1>2. s \in [1..n -> Nat]
  BY <1>1
<1>3. s \in Seq(Nat)
  BY <1>2, ListOf
<1>4. Distinct(s) /\ In(s) = Uids(rows)
  BY DEF Distinct, OneRow, In, Uids
<1> QED BY <1>3, <1>4

(* The queue and the two batches, read as one list, name each living *)
(* sequence once.                                                    *)
LEMMA StagesApart ==
  ASSUME Inv
  PROVE  OneStage
<1> DEFINE P == [i \in DOMAIN prompt.rows |-> prompt.rows[i].uid]
           G == [i \in DOMAIN gen.rows |-> gen.rows[i].uid]
           Q == unprocessed \o P
           places == Q \o G
<1>1. /\ P \in Seq(Nat) /\ Distinct(P) /\ In(P) = Uids(prompt.rows)
      /\ G \in Seq(Nat) /\ Distinct(G) /\ In(G) = Uids(gen.rows)
  <2>1. /\ prompt.rows \in Seq(PromptRecords) /\ OneRow(prompt.rows)
        /\ gen.rows \in Seq(GenRecords) /\ OneRow(gen.rows)
    BY DEF Inv, Typed, Good, Records
  <2>2. /\ \A i \in DOMAIN prompt.rows : prompt.rows[i].uid \in Nat
        /\ \A i \in DOMAIN gen.rows : gen.rows[i].uid \in Nat
    <3>1. DOMAIN asked \subseteq Nat
      <4>1. asked \in Seq(AskedRecords)
        BY DEF Inv, Typed
      <4> QED BY <4>1, LenProperties
    <3> QED BY <3>1, Batched
  <2>3. P \in Seq(Nat) /\ Distinct(P) /\ In(P) = Uids(prompt.rows)
    BY <2>1, <2>2, UidList
  <2>4. G \in Seq(Nat) /\ Distinct(G) /\ In(G) = Uids(gen.rows)
    BY <2>1, <2>2, UidList
  <2> QED BY <2>3, <2>4
<1>2. unprocessed \in Seq(Nat) /\ Distinct(unprocessed)
  <2>1. asked \in Seq(AskedRecords) /\ unprocessed \in Seq(DOMAIN asked) /\ Distinct(unprocessed)
    BY DEF Inv, Typed, Staged
  <2>2. DOMAIN asked \subseteq Nat
    BY <2>1, LenProperties
  <2> QED BY <2>1, <2>2, SeqMonotonic
<1>3. /\ In(unprocessed) \cap Uids(prompt.rows) = {}
      /\ In(unprocessed) \cap Uids(gen.rows) = {}
      /\ Uids(prompt.rows) \cap Uids(gen.rows) = {}
      /\ In(unprocessed) \cup Uids(prompt.rows) \cup Uids(gen.rows) = DOMAIN asked \ ended
  BY DEF Inv, Staged
<1>4. OneStage <=> IsInjective(places) /\ ToSet(places) = DOMAIN asked \ ended
  BY DEF OneStage
<1> HIDE DEF P, G, Q, places
<1>5. Q \in Seq(Nat) /\ Distinct(Q) /\ In(Q) = In(unprocessed) \cup In(P)
  BY <1>1, <1>2, <1>3, ConcatDistinct DEF Q
<1>6. places \in Seq(Nat) /\ Distinct(places) /\ In(places) = In(Q) \cup In(G)
  <2>1. In(Q) \cap In(G) = {}
    BY <1>1, <1>3, <1>5
  <2> QED BY <1>1, <1>5, <2>1, ConcatDistinct DEF places
<1>7. IsInjective(places)
  BY <1>6 DEF Distinct, IsInjective
<1>8. ToSet(places) = DOMAIN asked \ ended
  BY <1>1, <1>3, <1>5, <1>6 DEF ToSet, In
<1> QED BY <1>4, <1>7, <1>8

(* The types of the variables. *)
LEMMA TypesAre ==
  ASSUME Inv
  PROVE  TypeOK
<1>1. /\ asked \in Seq(AskedRecords) /\ ended \subseteq DOMAIN asked
      /\ raised \in {"no", "TypeError", "ValueError"}
      /\ unprocessed \in Seq(DOMAIN asked) /\ processing \in Seq(WorkRecords)
      /\ Good(prompt, PromptRecords) /\ Good(gen, GenRecords)
  BY DEF Inv, Typed
<1>2. asked \in Seq([segments : Segmentings, max : MaxTokens, held : Nat,
                     kind : {"fp", "quantized"}, lp : Seq(Nat)])
  BY <1>1 DEF AskedRecords
<1>3. processing \in Seq([segments : Seq(Nat), done : Nat, total : Nat])
  <2>1. Seq(Nat \ {0}) \subseteq Seq(Nat)
    BY SeqMonotonic
  <2>2. WorkRecords \subseteq [segments : Seq(Nat), done : Nat, total : Nat]
    BY <2>1 DEF WorkRecords
  <2> QED BY <1>1, <2>2, SeqMonotonic
<1>4. prompt.rows \in Seq([uid : DOMAIN asked, held : Nat])
  <2>1. PICK n \in Nat : DOMAIN prompt.rows = 1..n /\ prompt.rows \in [1..n -> PromptRecords]
                         /\ \A i \in 1..n : prompt.rows[i].uid \in DOMAIN asked
    <3>1. PICK n \in Nat : n = Len(prompt.rows) /\ DOMAIN prompt.rows = 1..n
      BY Batched
    <3>2. prompt.rows \in [1..n -> PromptRecords]
      BY <3>1, Batched, LenProperties
    <3> QED BY <3>1, <3>2, Batched
  <2>2. prompt.rows \in [1..n -> [uid : DOMAIN asked, held : Nat]]
    BY <2>1 DEF PromptRecords
  <2> QED BY <2>2, ListOf
<1>5. gen.rows \in Seq([uid : DOMAIN asked, held : Nat, num : Nat])
  <2>1. PICK n \in Nat : DOMAIN gen.rows = 1..n /\ gen.rows \in [1..n -> GenRecords]
                         /\ \A i \in 1..n : gen.rows[i].uid \in DOMAIN asked
    <3>1. PICK n \in Nat : n = Len(gen.rows) /\ DOMAIN gen.rows = 1..n
      BY Batched
    <3>2. gen.rows \in [1..n -> GenRecords]
      BY <3>1, Batched, LenProperties
    <3> QED BY <3>1, <3>2, Batched
  <2>2. gen.rows \in [1..n -> [uid : DOMAIN asked, held : Nat, num : Nat]]
    BY <2>1 DEF GenRecords
  <2> QED BY <2>2, ListOf
<1>6. \A b \in Batches : /\ b.lp \in Seq(Seq(Nat) \cup {None})
                         /\ b.idx \in Nat
                         /\ b.kind \in {"none", "fp", "quantized"}
  <2>1. /\ prompt.lp \in Seq(Applied) /\ prompt.idx \in Nat /\ prompt.kind \in KindNames
        /\ gen.lp \in Seq(Applied) /\ gen.idx \in Nat /\ gen.kind \in KindNames
    BY <1>1 DEF Good, Records
  <2> QED BY <2>1 DEF Batches, Applied, KindNames
<1> QED BY <1>1, <1>2, <1>3, <1>4, <1>5, <1>6 DEF TypeOK

(* The merged caches cover their rows. *)
LEMMA RowsCovered ==
  ASSUME Inv
  PROVE  CachesCoverRows
<1>1. \A b \in Batches : /\ \A i \in DOMAIN b.rows : b.rows[i].held <= b.idx
                         /\ b.kind = "none" <=> b.rows = <<>>
  BY DEF Inv, Typed, Good, Batches
<1>2. \A i \in DOMAIN gen.rows : Decodes(gen.rows[i])
  BY DEF Inv, Worked
<1> QED BY <1>1, <1>2 DEF CachesCoverRows, Decodes, AllOf

(* The invariant is what the book-keeping is said to be. *)
LEMMA WorkIsAligned ==
  ASSUME Inv
  PROVE  WorkAligned
<1>1. TypeOK /\ OneStage /\ Bounded /\ CachesCoverRows
  BY TypesAre, StagesApart, RowsCovered DEF Inv
<1>2. Len(processing) = Len(prompt.rows)
  BY DEF Inv, Worked
<1>3. ASSUME NEW i \in DOMAIN processing
      PROVE  /\ processing[i].total = SumFunction(asked[prompt.rows[i].uid].segments)
             /\ processing[i].done = prompt.rows[i].held - asked[prompt.rows[i].uid].held
             /\ SumFunction(processing[i].segments)
                  = SumFunction(asked[prompt.rows[i].uid].segments) - processing[i].done
             /\ processing[i].segments # <<>>
  <2>1. PICK row : row = prompt.rows[i]
    OBVIOUS
  <2>2. PICK w \in WorkRecords : w = processing[i]
    BY Batched
  <2>3. row.uid \in DOMAIN asked /\ Aligned(row, w)
    BY <2>1, <2>2, Batched DEF Inv, Worked
  <2>4. asked[row.uid].held \in Nat /\ AllOf(row.uid) \in Nat
    BY <2>3, AskedProperties DEF Inv, Typed
  <2>5. w.done \in Nat /\ w.segments \in Seq(Nat \ {0})
    BY DEF WorkRecords
  <2>6. SumFunction(w.segments) \in Nat
    BY <2>5, PositiveSegments
  <2>7. /\ w.segments # <<>> /\ w.total = AllOf(row.uid)
        /\ row.held = asked[row.uid].held + w.done
        /\ SumFunction(w.segments) + w.done = AllOf(row.uid)
    BY <2>3 DEF Aligned
  <2>8. /\ w.done = row.held - asked[row.uid].held
        /\ SumFunction(w.segments) = AllOf(row.uid) - w.done
    BY <2>4, <2>5, <2>6, <2>7
  <2> QED BY <2>1, <2>2, <2>7, <2>8 DEF AllOf
<1> QED BY <1>1, <1>2, <1>3 DEF WorkAligned

(* Whatever is inserted, removed and stopped, and whichever way the waiting *)
(* sequences are batched, the book-keeping of BatchGenerator stays whole:   *)
(* the inductive invariant holds in every state.                            *)
THEOREM InvariantHolds == Spec => []Inv
BY InitInv, NextInv, PTL DEF Spec

(* _currently_processing stays aligned with the rows of the prompt batch    *)
(* through admissions, splits and removals; a living sequence is in one     *)
(* place only and once; the batches keep their bounds and the merged caches *)
(* cover their rows.                                                        *)
THEOREM AlwaysWorkAligned == Spec => []WorkAligned
<1>1. Inv => WorkAligned
  BY WorkIsAligned
<1> QED BY <1>1, InvariantHolds, PTL

----------------------------------------
(* Among waiting sequences of a kind the older goes first. *)

Overtaking == \A i, j \in DOMAIN unprocessed :
                i < j /\ Kind(i) = Kind(j)
                  /\ unprocessed[j] \in Uids(prompt'.rows) \cup Uids(gen'.rows)
                => ~Contains(unprocessed', unprocessed[i])

(* Nobody leaves the queue for a batch. *)
LEMMA NobodyAdmitted ==
  ASSUME Inv, Uids(prompt'.rows) \cup Uids(gen'.rows) \subseteq Uids(prompt.rows) \cup Uids(gen.rows)
  PROVE  Overtaking
<1>1. \A j \in DOMAIN unprocessed : unprocessed[j] \in In(unprocessed)
  BY DEF In
<1>2. In(unprocessed) \cap (Uids(prompt.rows) \cup Uids(gen.rows)) = {}
  BY DEF Inv, Staged
<1>3. \A j \in DOMAIN unprocessed : unprocessed[j] \notin Uids(prompt'.rows) \cup Uids(gen'.rows)
  BY <1>1, <1>2
<1> QED BY <1>3 DEF Overtaking

(* insert_segments() leaves the batches alone. *)
LEMMA InsertAdmitsNobody ==
  ASSUME Inv, NEW s, NEW m, NEW c, NEW p, Insert(s, m, c, p)
  PROVE  Overtaking
<1>1. prompt' = prompt /\ gen' = gen
  BY DEF Insert
<1> QED BY <1>1, NobodyAdmitted

(* remove() moves nobody into a batch. *)
LEMMA RemoveAdmitsNobody ==
  ASSUME Inv, NEW uid \in DOMAIN asked, RemoveSequence(uid)
  PROVE  Overtaking
<1>1. Uids(prompt'.rows) \subseteq Uids(prompt.rows)
  <2>1. CASE uid \in Uids(prompt.rows)
    <3>1. PICK keep : keep = {i \in DOMAIN prompt.rows : prompt.rows[i].uid # uid}
      OBVIOUS
    <3>2. prompt' = FilterPrompt(prompt, keep)
      BY <2>1, <3>1 DEF RemoveSequence
    <3>3. PromptLeft(FilterPrompt(prompt, keep), Pick(processing, keep), Uids(prompt.rows) \ {uid})
      BY <3>1, PromptRemoved
    <3> QED BY <3>2, <3>3 DEF PromptLeft
  <2>2. CASE uid \notin Uids(prompt.rows)
    BY <2>2 DEF RemoveSequence
  <2> QED BY <2>1, <2>2
<1>2. Uids(gen'.rows) \subseteq Uids(gen.rows)
  <2>1. CASE uid \in Uids(gen.rows)
    <3>1. PICK keep : keep = {i \in DOMAIN gen.rows : gen.rows[i].uid # uid}
      OBVIOUS
    <3>2. gen' = FilterGeneration(gen, keep)
      BY <2>1, <3>1 DEF RemoveSequence
    <3>3. GenLeft(FilterGeneration(gen, keep), Uids(gen.rows) \ {uid})
      BY <3>1, GenRemoved
    <3> QED BY <3>2, <3>3 DEF GenLeft
  <2>2. CASE uid \notin Uids(gen.rows)
    BY <2>2 DEF RemoveSequence
  <2> QED BY <2>1, <2>2
<1> QED BY <1>1, <1>2, NobodyAdmitted

(* A call that only decodes moves nobody into a batch. *)
LEMMA DecodeAdmitsNobody ==
  ASSUME Inv, NEW stops, DecodeOnly(stops)
  PROVE  Overtaking
<1>1. prompt' = prompt /\ (gen' = gen \/ gen' = AfterDecode(stops))
  BY DEF DecodeOnly
<1>2. Uids(AfterDecode(stops).rows) \subseteq Uids(gen.rows)
  <2>1. DecodedFrom(AfterDecode(stops), stops)
    BY DecodeKept DEF Inv, Typed
  <2> QED BY <2>1 DEF DecodedFrom
<1> QED BY <1>1, <1>2, NobodyAdmitted

(* Admission takes the older of two of a kind first. *)
LEMMA OldestAdmitted ==
  ASSUME Inv, NEW stops, DecodeAndPrefill(stops)
  PROVE  Overtaking
<1>1. CASE raised' # "no"
  <2>1. prompt' = prompt /\ gen' = gen
    BY <1>1 DEF DecodeAndPrefill
  <2> QED BY <2>1, NobodyAdmitted
<1>2. CASE raised' = "no"
  <2>1. PICK decoding, selected, uids, batch, work, starting, rest, started, still :
           /\ NextParts(stops, decoding, selected, uids, batch, work, starting, rest, started, still)
           /\ gen' = IF Ready(work) = {} THEN decoding ELSE ExtendGeneration(decoding, started)
           /\ prompt' = Prompted(still, [i \in DOMAIN rest |-> Chunk(rest[i])])
           /\ processing' = [i \in DOMAIN rest |-> Fed(rest[i])]
           /\ unprocessed' = Pick(unprocessed, DOMAIN unprocessed \ selected)
           /\ ended' = ended \cup EndedBy(stops)
           /\ asked' = asked
    BY <1>2, PartsOfNext, ZenonT(40)
  <2>2. NextParts(stops, decoding, selected, uids, batch, work, starting, rest, started, still)
    BY <2>1
  <2>3. Uids(gen'.rows) = Uids(decoding.rows) \cup Uids(starting.rows)
    <3>1. PICK g : g = IF Ready(work) = {} THEN decoding ELSE ExtendGeneration(decoding, started)
      OBVIOUS
    <3>2. GenJoined(g, decoding, starting, started)
      BY <2>2, <3>1, GenAfter
    <3>3. gen' = g
      BY <2>1, <3>1
    <3> QED BY <3>2, <3>3 DEF GenJoined
  <2>4. Uids(prompt'.rows) = Uids(still.rows)
    <3>1. FedFrom(prompt', processing', still, rest)
      BY <2>1, PromptAfter
    <3> QED BY <3>1 DEF FedFrom
  <2>5. Uids(prompt'.rows) \cup Uids(gen'.rows) \subseteq Uids(prompt.rows) \cup Uids(gen.rows) \cup In(uids)
    <3>1. /\ Uids(batch.rows) = Uids(prompt.rows) \cup In(uids)
          /\ Uids(starting.rows) \cup Uids(still.rows) = Uids(batch.rows)
      BY <2>2, PartsCut
    <3>2. Uids(decoding.rows) \subseteq Uids(gen.rows)
      BY <2>2 DEF NextParts, DecodedFrom
    <3> QED BY <2>3, <2>4, <3>1, <3>2
  <2>6. /\ selected = Selected(decoding) /\ Len(decoding.rows) \in Nat
        /\ selected \in SUBSET DOMAIN unprocessed
        /\ In(uids) = {unprocessed[i] : i \in selected}
    BY <2>2 DEF NextParts
  <2>7. Distinct(unprocessed) /\ unprocessed \in Seq(DOMAIN asked)
    BY DEF Inv, Typed, Staged
  <2>8. \A i, j \in DOMAIN unprocessed : j \in selected /\ i < j /\ Kind(i) = Kind(j) => i \in selected
    BY <2>6, <2>7, Batched, SelectedProperties
  <2>9. ASSUME NEW i \in DOMAIN unprocessed, NEW j \in DOMAIN unprocessed, i < j, Kind(i) = Kind(j),
               unprocessed[j] \in Uids(prompt'.rows) \cup Uids(gen'.rows)
        PROVE  ~Contains(unprocessed', unprocessed[i])
    <3>1. unprocessed[j] \in In(unprocessed)
      BY DEF In
    <3>2. unprocessed[j] \in In(uids)
      <4>1. In(unprocessed) \cap (Uids(prompt.rows) \cup Uids(gen.rows)) = {}
        BY DEF Inv, Staged
      <4> QED BY <2>5, <2>9, <3>1, <4>1
    <3>3. j \in selected
      BY <2>6, <2>7, <3>2 DEF Distinct
    <3>4. i \in selected
      BY <2>8, <2>9, <3>3
    <3>5. ASSUME NEW k \in 1..Len(unprocessed') PROVE unprocessed'[k] # unprocessed[i]
      <4> DEFINE keep == DOMAIN unprocessed \ selected
      <4>1. keep \in SUBSET DOMAIN unprocessed
        OBVIOUS
      <4>2. unprocessed' = Pick(unprocessed, keep)
        BY <2>1
      <4> HIDE DEF keep
      <4>3. Nth(keep)[k] \in keep /\ unprocessed'[k] = unprocessed[Nth(keep)[k]]
        BY <2>7, <3>5, <4>1, <4>2, PickProperties
      <4>4. Nth(keep)[k] \in DOMAIN unprocessed /\ Nth(keep)[k] # i
        BY <3>4, <4>3 DEF keep
      <4> QED BY <2>7, <4>3, <4>4 DEF Distinct
    <3> QED BY <3>5 DEF Contains
  <2> QED BY <2>9 DEF Overtaking
<1> QED BY <1>1, <1>2

(* No step overtakes. *)
LEMMA NextInOrder == Inv /\ [Next]_vars => [Overtaking]_vars
<1> SUFFICES ASSUME Inv, Next PROVE Overtaking
  OBVIOUS
<1>1. ASSUME NEW s \in Segmentings, NEW m \in MaxTokens, NEW c \in Caches, NEW p \in Processors,
             Insert(s, m, c, p)
      PROVE  Overtaking
  BY <1>1, InsertAdmitsNobody
<1>2. ASSUME NEW uid \in DOMAIN asked, RemoveSequence(uid) PROVE Overtaking
  BY <1>2, RemoveAdmitsNobody
<1>3. ASSUME NEW stops, DecodeOnly(stops) \/ DecodeAndPrefill(stops) PROVE Overtaking
  BY <1>3, DecodeAdmitsNobody, OldestAdmitted
<1> QED BY <1>1, <1>2, <1>3 DEF Next, CallNext

(* Admission, which scans past sequences incompatible with an active batch, *)
(* never takes the newer of two waiting sequences of one kind before the    *)
(* older.                                                                   *)
THEOREM OldestFirst == Spec => NoOvertaking
<1>1. Inv /\ [Next]_vars => [Overtaking]_vars
  BY NextInOrder
<1>2. NoOvertaking <=> [][Overtaking]_vars
  BY DEF NoOvertaking, Overtaking
<1> QED BY <1>1, <1>2, InvariantHolds, PTL DEF Spec

----------------------------------------
(* The lists of logits processors, when all requests bring some or none: with *)
(* each row its own, or nothing anywhere.                                     *)

Alike == \A p, q \in Processors : p = q

Listed(rows, lp) ==
  IF TRUE \in Processors
    THEN Len(lp) = Len(rows) /\ \A i \in DOMAIN rows : lp[i] = <<rows[i].uid>>
    ELSE \A i \in DOMAIN lp : lp[i] \in {None, <<>>}

OwnLists ==
  /\ \A u \in DOMAIN asked : asked[u].lp = IF TRUE \in Processors THEN <<u>> ELSE <<>>
  /\ Listed(prompt.rows, prompt.lp)
  /\ Listed(gen.rows, gen.lp)

(* The processors of a request are not the filler for rows without any. *)
LEMMA SomeList ==
  \A u \in Nat : <<u>> # None /\ <<u>> # <<>>
<1> SUFFICES ASSUME NEW u \in Nat PROVE <<u>> # None /\ <<u>> # <<>>
  OBVIOUS
<1>1. <<u>> \in Seq(Nat)
  BY ListOfOne
<1>2. <<u>> # <<>>
  OBVIOUS
<1> QED BY <1>1, <1>2, SizesAssumption

(* With processors and rows the list counts as filled, without any it does *)
(* not.                                                                    *)
LEMMA ListedTruthy ==
  ASSUME NEW R, Rowed(R), NEW rows \in Seq(R), NEW lp \in Seq(Applied), Listed(rows, lp)
  PROVE  /\ TRUE \in Processors /\ rows # <<>> => Truthy(lp)
         /\ TRUE \in Processors /\ rows = <<>> => lp = <<>>
         /\ TRUE \notin Processors => ~Truthy(lp)
<1>1. DOMAIN rows = 1..Len(rows) /\ Len(rows) \in Nat /\ DOMAIN lp = 1..Len(lp) /\ Len(lp) \in Nat
      /\ \A i \in DOMAIN rows : rows[i] \in R
  BY LenProperties, ElementOfSeq
<1>2. ASSUME TRUE \in Processors, rows # <<>> PROVE Truthy(lp)
  <2>1. 1 \in DOMAIN rows /\ 1 \in DOMAIN lp /\ lp[1] = <<rows[1].uid>>
    <3>1. Len(lp) = Len(rows) /\ \A i \in DOMAIN rows : lp[i] = <<rows[i].uid>>
      BY <1>2 DEF Listed
    <3>2. Len(rows) # 0
      BY <1>2, EmptySeq
    <3> QED BY <1>1, <3>1, <3>2
  <2>2. PICK u \in Nat : u = rows[1].uid
    BY <1>1, <2>1 DEF Rowed
  <2>3. lp[1] # None /\ lp[1] # <<>>
    BY <2>1, <2>2, SomeList
  <2> QED BY <2>1, <2>3 DEF Truthy
<1>3. ASSUME TRUE \in Processors, rows = <<>> PROVE lp = <<>>
  <2>1. Len(lp) = Len(rows)
    BY <1>3 DEF Listed
  <2> QED BY <1>3, <2>1, EmptySeq
<1>4. ASSUME TRUE \notin Processors PROVE ~Truthy(lp)
  BY <1>4 DEF Listed, Truthy
<1> QED BY <1>2, <1>3, <1>4

(* Some places of the rows and of their processors. *)
LEMMA ListedPicked ==
  ASSUME NEW R, Rowed(R), NEW b, Good(b, R), Listed(b.rows, b.lp), NEW keep \in SUBSET DOMAIN b.rows,
         TRUE \in Processors
  PROVE  Listed(Pick(b.rows, keep), Pick(b.lp, keep))
<1>1. b.rows \in Seq(R) /\ b.lp \in Seq(Applied) /\ Len(b.lp) = Len(b.rows)
      /\ \A i \in DOMAIN b.rows : b.lp[i] = <<b.rows[i].uid>>
  BY DEF Good, Records, Listed
<1>2. keep \in SUBSET DOMAIN b.lp
  BY <1>1, LenProperties
<1>3. PICK r, l : r = Pick(b.rows, keep) /\ l = Pick(b.lp, keep)
  OBVIOUS
<1>4. /\ Len(r) = Cardinality(keep) /\ DOMAIN r = 1..Cardinality(keep)
      /\ \A k \in DOMAIN r : Nth(keep)[k] \in keep /\ r[k] = b.rows[Nth(keep)[k]]
  BY <1>1, <1>3, PickProperties
<1>5. /\ Len(l) = Cardinality(keep) /\ DOMAIN l = 1..Cardinality(keep)
      /\ \A k \in DOMAIN l : l[k] = b.lp[Nth(keep)[k]]
  BY <1>1, <1>2, <1>3, PickProperties
<1>6. \A k \in DOMAIN r : l[k] = <<r[k].uid>>
  <2>1. SUFFICES ASSUME NEW k \in DOMAIN r PROVE l[k] = <<r[k].uid>>
    OBVIOUS
  <2>2. PICK i \in DOMAIN b.rows : i = Nth(keep)[k] /\ r[k] = b.rows[i] /\ l[k] = b.lp[i]
    BY <1>4, <1>5
  <2> QED BY <1>1, <2>2
<1>7. Listed(r, l)
  BY <1>4, <1>5, <1>6 DEF Listed
<1> QED BY <1>3, <1>7

(* No place leaves nothing. *)
LEMMA PickNone ==
  ASSUME NEW R, NEW s \in Seq(R)
  PROVE  Pick(s, {}) = <<>>
<1>1. {} \in SUBSET DOMAIN s
  OBVIOUS
<1> QED BY <1>1, PickProperties

(* The filter of a prompt batch leaves each row its own processors. *)
LEMMA ListedFilterPrompt ==
  ASSUME NEW b, Good(b, PromptRecords), Listed(b.rows, b.lp), NEW keep \in SUBSET DOMAIN b.rows
  PROVE  Listed(FilterPrompt(b, keep).rows, FilterPrompt(b, keep).lp)
<1>1. b.rows \in Seq(PromptRecords) /\ b.lp \in Seq(Applied)
  BY DEF Good, Records
<1>2. Rowed(PromptRecords)
  BY RecordFields DEF Rowed
<1>3. /\ TRUE \in Processors /\ b.rows # <<>> => Truthy(b.lp)
      /\ TRUE \in Processors /\ b.rows = <<>> => b.lp = <<>>
      /\ TRUE \notin Processors => ~Truthy(b.lp)
  BY <1>1, <1>2, ListedTruthy
<1>4. PICK f : f = FilterPrompt(b, keep)
  OBVIOUS
<1>5. f.rows = Pick(b.rows, keep)
      /\ f.lp = IF Truthy(b.lp) THEN Pick(b.lp, keep) ELSE [k \in 1..Cardinality(keep) |-> <<>>]
  BY <1>4 DEF FilterPrompt, FilterRows
<1>6. CASE TRUE \in Processors /\ b.rows # <<>>
  <2>1. Listed(Pick(b.rows, keep), Pick(b.lp, keep))
    BY <1>2, <1>6, ListedPicked
  <2>2. f.rows = Pick(b.rows, keep) /\ f.lp = Pick(b.lp, keep)
    BY <1>3, <1>5, <1>6
  <2>3. Listed(f.rows, f.lp)
    BY <2>1, <2>2
  <2> QED BY <1>4, <2>3
<1>7. CASE TRUE \in Processors /\ b.rows = <<>>
  <2>1. keep = {}
    BY <1>7
  <2>2. ~Truthy(b.lp)
    BY <1>3, <1>7 DEF Truthy
  <2>3. Cardinality(keep) = 0
    BY <2>1, FS_EmptySet
  <2>4. f.rows = <<>>
    BY <1>1, <1>5, <2>1, PickNone
  <2>5. f.lp = [k \in 1..0 |-> <<>>]
    BY <1>5, <2>2, <2>3
  <2>6. f.lp = <<>>
    <3>1. [k \in 1..0 |-> <<>>] = <<>>
      OBVIOUS
    <3> QED BY <2>5, <3>1
  <2>7. Listed(f.rows, f.lp)
    BY <1>7, <2>4, <2>6 DEF Listed
  <2> QED BY <1>4, <2>7
<1>8. CASE TRUE \notin Processors
  <2>1. f.lp = [k \in 1..Cardinality(keep) |-> <<>>]
    BY <1>3, <1>5, <1>8
  <2>2. \A i \in DOMAIN f.lp : f.lp[i] \in {None, <<>>}
    BY <2>1
  <2>3. Listed(f.rows, f.lp)
    BY <1>8, <2>2 DEF Listed
  <2> QED BY <1>4, <2>3
<1> QED BY <1>6, <1>7, <1>8

(* So does the filter of a generation batch. *)
LEMMA ListedFilterGeneration ==
  ASSUME NEW b, Good(b, GenRecords), Listed(b.rows, b.lp), NEW keep \in SUBSET DOMAIN b.rows
  PROVE  Listed(FilterGeneration(b, keep).rows, FilterGeneration(b, keep).lp)
<1>1. b.rows \in Seq(GenRecords) /\ b.lp \in Seq(Applied)
  BY DEF Good, Records
<1>2. Rowed(GenRecords)
  BY RecordFields DEF Rowed
<1>3. /\ TRUE \in Processors /\ b.rows # <<>> => Truthy(b.lp)
      /\ TRUE \in Processors /\ b.rows = <<>> => b.lp = <<>>
      /\ TRUE \notin Processors => ~Truthy(b.lp)
  BY <1>1, <1>2, ListedTruthy
<1>4. PICK f : f = FilterGeneration(b, keep)
  OBVIOUS
<1>5. f.rows = Pick(b.rows, keep) /\ f.lp = IF Truthy(b.lp) THEN Pick(b.lp, keep) ELSE b.lp
  BY <1>4 DEF FilterGeneration, FilterRows
<1>6. CASE TRUE \in Processors /\ b.rows # <<>>
  <2>1. Listed(Pick(b.rows, keep), Pick(b.lp, keep))
    BY <1>2, <1>6, ListedPicked
  <2>2. f.rows = Pick(b.rows, keep) /\ f.lp = Pick(b.lp, keep)
    BY <1>3, <1>5, <1>6
  <2>3. Listed(f.rows, f.lp)
    BY <2>1, <2>2
  <2> QED BY <1>4, <2>3
<1>7. CASE TRUE \in Processors /\ b.rows = <<>>
  <2>1. keep = {} /\ b.lp = <<>>
    BY <1>3, <1>7
  <2>2. ~Truthy(b.lp)
    BY <2>1 DEF Truthy
  <2>3. f.rows = <<>> /\ f.lp = <<>>
    BY <1>1, <1>5, <2>1, <2>2, PickNone
  <2>4. Listed(f.rows, f.lp)
    BY <1>7, <2>3 DEF Listed
  <2> QED BY <1>4, <2>4
<1>8. CASE TRUE \notin Processors
  <2>1. f.lp = b.lp
    BY <1>3, <1>5, <1>8
  <2>2. Listed(f.rows, f.lp)
    BY <1>8, <2>1 DEF Listed
  <2> QED BY <1>4, <2>2
<1> QED BY <1>6, <1>7, <1>8

(* Two batches joined. *)
LEMMA ListedJoined ==
  ASSUME NEW R, NEW r \in Seq(R), NEW s \in Seq(R), NEW l \in Seq(Applied), NEW m \in Seq(Applied),
         Listed(r, l), Listed(s, m)
  PROVE  Listed(r \o s, l \o m)
<1>1. PICK a \in Nat, b \in Nat : a = Len(r) /\ b = Len(s) /\ DOMAIN r = 1..a /\ DOMAIN s = 1..b
  BY LenProperties
<1>2. PICK c \in Nat, d \in Nat : c = Len(l) /\ d = Len(m) /\ DOMAIN l = 1..c /\ DOMAIN m = 1..d
  BY LenProperties
<1>3. PICK rs, lm : rs = r \o s /\ lm = l \o m
  OBVIOUS
<1>4. /\ Len(rs) = a + b /\ DOMAIN rs = 1..a + b
      /\ \A i \in 1..a + b : rs[i] = IF i <= a THEN r[i] ELSE s[i - a]
  <2>1. /\ rs \in Seq(R) /\ Len(rs) = Len(r) + Len(s)
        /\ \A i \in 1..Len(r) + Len(s) : rs[i] = IF i <= Len(r) THEN r[i] ELSE s[i - Len(r)]
    BY <1>3, ConcatProperties
  <2>2. Len(rs) = a + b
    BY <1>1, <2>1
  <2> QED BY <1>1, <2>1, <2>2, LenProperties
<1>5. /\ Len(lm) = c + d /\ DOMAIN lm = 1..c + d
      /\ \A i \in 1..c + d : lm[i] = IF i <= c THEN l[i] ELSE m[i - c]
  <2>1. /\ lm \in Seq(Applied) /\ Len(lm) = Len(l) + Len(m)
        /\ \A i \in 1..Len(l) + Len(m) : lm[i] = IF i <= Len(l) THEN l[i] ELSE m[i - Len(l)]
    BY <1>3, ConcatProperties
  <2>2. Len(lm) = c + d
    BY <1>2, <2>1
  <2> QED BY <1>2, <2>1, <2>2, LenProperties
<1>6. CASE TRUE \in Processors
  <2>1. /\ c = a /\ d = b
        /\ \A i \in 1..a : l[i] = <<r[i].uid>>
        /\ \A i \in 1..b : m[i] = <<s[i].uid>>
    BY <1>1, <1>2, <1>6 DEF Listed
  <2>2. ASSUME NEW i \in 1..a + b PROVE lm[i] = <<rs[i].uid>>
    <3>1. CASE i <= a
      <4>1. i \in 1..a /\ rs[i] = r[i] /\ lm[i] = l[i]
        BY <1>4, <1>5, <2>1, <3>1
      <4> QED BY <2>1, <4>1
    <3>2. CASE ~(i <= a)
      <4>1. PICK j \in 1..b : j = i - a
        BY <3>2
      <4>2. rs[i] = s[j] /\ lm[i] = m[j]
        BY <1>4, <1>5, <2>1, <3>2, <4>1
      <4> QED BY <2>1, <4>2
    <3> QED BY <3>1, <3>2
  <2>3. Listed(rs, lm)
    BY <1>4, <1>5, <1>6, <2>1, <2>2 DEF Listed
  <2> QED BY <1>3, <2>3
<1>7. CASE TRUE \notin Processors
  <2>1. /\ \A i \in 1..c : l[i] \in {None, <<>>}
        /\ \A i \in 1..d : m[i] \in {None, <<>>}
    BY <1>2, <1>7 DEF Listed
  <2>2. ASSUME NEW i \in 1..c + d PROVE lm[i] \in {None, <<>>}
    <3>1. CASE i <= c
      BY <1>5, <2>1, <3>1, SMTT(30)
    <3>2. CASE ~(i <= c)
      <4>1. PICK j \in 1..d : j = i - c
        BY <3>2
      <4> QED BY <1>5, <2>1, <3>2, <4>1
    <3> QED BY <3>1, <3>2
  <2>3. Listed(rs, lm)
    BY <1>5, <1>7, <2>2 DEF Listed
  <2> QED BY <1>3, <2>3
<1> QED BY <1>6, <1>7

(* Rows of the same sequences in the same places. *)
LEMMA ListedSame ==
  ASSUME NEW r, NEW s, NEW lp, DOMAIN s = DOMAIN r, Len(s) = Len(r),
         \A i \in DOMAIN r : s[i].uid = r[i].uid, Listed(r, lp)
  PROVE  Listed(s, lp)
BY DEF Listed

(* A decoding step. *)
LEMMA ListedDecoded ==
  ASSUME Good(gen, GenRecords), Listed(gen.rows, gen.lp), NEW stops
  PROVE  Listed(AfterDecode(stops).rows, AfterDecode(stops).lp)
<1>1. /\ Good(Decoded, GenRecords) /\ Decoded.lp = gen.lp
      /\ Len(Decoded.rows) = Len(gen.rows) /\ DOMAIN Decoded.rows = DOMAIN gen.rows
      /\ \A i \in DOMAIN gen.rows : Decoded.rows[i] = OneMore(gen.rows[i])
  BY DecodedGood
<1>2. Listed(Decoded.rows, Decoded.lp)
  <2>1. \A i \in DOMAIN gen.rows : Decoded.rows[i].uid = gen.rows[i].uid
    <3>1. \A i \in DOMAIN gen.rows : OneMore(gen.rows[i]).uid = gen.rows[i].uid
      BY DEF OneMore
    <3> QED BY <1>1, <3>1
  <2> QED BY <1>1, <2>1, ListedSame
<1>3. CASE gen.rows = <<>>
  <2>1. AfterDecode(stops) = gen
    BY <1>3 DEF AfterDecode
  <2> QED BY <2>1
<1>4. CASE gen.rows # <<>> /\ Finishing(stops) = {}
  <2>1. AfterDecode(stops) = Decoded
    BY <1>4 DEF AfterDecode
  <2> QED BY <1>2, <2>1
<1>5. CASE gen.rows # <<>> /\ Finishing(stops) # {}
  <2>1. PICK keep : keep = DOMAIN gen.rows \ Finishing(stops)
    OBVIOUS
  <2>2. AfterDecode(stops) = FilterGeneration(Decoded, keep)
    BY <1>5, <2>1 DEF AfterDecode
  <2>3. keep \in SUBSET DOMAIN Decoded.rows
    BY <1>1, <2>1
  <2>4. Listed(FilterGeneration(Decoded, keep).rows, FilterGeneration(Decoded, keep).lp)
    BY <1>1, <1>2, <2>3, ListedFilterGeneration
  <2> QED BY <2>2, <2>4
<1> QED BY <1>3, <1>4, <1>5

(* An admission. *)
LEMMA ListedAdmitted ==
  ASSUME Inv, OwnLists, NEW uids \in Seq(DOMAIN asked), Distinct(uids)
  PROVE  Listed(AfterAdmission(uids).rows, AfterAdmission(uids).lp)
<1>1. CASE uids = <<>>
  <2>1. AfterAdmission(uids) = prompt
    BY <1>1 DEF AfterAdmission
  <2> QED BY <2>1 DEF OwnLists
<1>2. CASE uids # <<>>
  <2>1. PICK made : made = MakeBatch(uids)
    OBVIOUS
  <2>2. /\ Good(made, PromptRecords) /\ Len(made.rows) = Len(uids)
        /\ DOMAIN made.rows = DOMAIN uids
        /\ \A i \in DOMAIN uids : made.rows[i] = [uid |-> uids[i], held |-> asked[uids[i]].held]
    BY <1>2, <2>1, MakeBatchGood DEF Inv, Typed
  <2>3. made.lp = [i \in DOMAIN uids |-> asked[uids[i]].lp]
    BY <2>1 DEF MakeBatch
  <2>4. PICK n \in Nat : n = Len(uids) /\ DOMAIN uids = 1..n
                         /\ \A i \in 1..n : uids[i] \in DOMAIN asked
    BY LenProperties, ElementOfSeq
  <2>5. made.lp \in Seq(Applied) /\ Len(made.lp) = n
    <3>1. \A i \in 1..n : asked[uids[i]].lp \in Applied
      BY <2>4, AskedProperties DEF Inv, Typed, Applied
    <3>2. made.lp \in [1..n -> Applied]
      BY <2>3, <2>4, <3>1
    <3> QED BY <3>2, ListOf
  <2>6. \A i \in 1..n : /\ made.lp[i] = IF TRUE \in Processors THEN <<uids[i]>> ELSE <<>>
                        /\ made.rows[i].uid = uids[i]
    <3>1. SUFFICES ASSUME NEW i \in 1..n
                   PROVE  /\ made.lp[i] = IF TRUE \in Processors THEN <<uids[i]>> ELSE <<>>
                          /\ made.rows[i].uid = uids[i]
      OBVIOUS
    <3>2. PICK u \in DOMAIN asked : u = uids[i]
      BY <2>4
    <3>3. asked[u].lp = IF TRUE \in Processors THEN <<u>> ELSE <<>>
      BY DEF OwnLists
    <3>4. made.lp[i] = asked[u].lp
      BY <2>3, <2>4, <3>2
    <3>5. made.rows[i] = [uid |-> u, held |-> asked[u].held]
      BY <2>2, <2>4, <3>2
    <3>6. made.rows[i].uid = u
      BY <3>5
    <3> QED BY <3>2, <3>3, <3>4, <3>6
  <2>7. Listed(made.rows, made.lp)
    <3>1. DOMAIN made.lp = 1..n
      BY <2>3, <2>4
    <3>2. CASE TRUE \in Processors
      BY <2>2, <2>4, <2>5, <2>6, <3>2 DEF Listed
    <3>3. CASE TRUE \notin Processors
      BY <2>6, <3>1, <3>3 DEF Listed
    <3> QED BY <3>2, <3>3
  <2> DEFINE filled(b) == IF Truthy(b.lp) THEN b.lp ELSE [i \in DOMAIN b.rows |-> None]
  <2>8. ASSUME NEW b, Good(b, PromptRecords), Listed(b.rows, b.lp)
        PROVE  filled(b) \in Seq(Applied) /\ Listed(b.rows, filled(b))
    <3>1. b.rows \in Seq(PromptRecords) /\ b.lp \in Seq(Applied)
      BY <2>8 DEF Good, Records
    <3>2. Rowed(PromptRecords)
      BY RecordFields DEF Rowed
    <3>3. /\ TRUE \in Processors /\ b.rows # <<>> => Truthy(b.lp)
          /\ TRUE \notin Processors => ~Truthy(b.lp)
      BY <2>8, <3>1, <3>2, ListedTruthy
    <3>4. PICK k \in Nat : k = Len(b.rows) /\ DOMAIN b.rows = 1..k
      BY <3>1, LenProperties
    <3>5. PICK nones : nones = [i \in 1..k |-> None]
      OBVIOUS
    <3>6. nones \in Seq(Applied) /\ Len(nones) = k /\ DOMAIN nones = 1..k
          /\ \A i \in 1..k : nones[i] = None
      <4>1. None \in Applied
        BY DEF Applied
      <4>2. nones \in [1..k -> Applied]
        BY <3>5, <4>1
      <4> QED BY <3>5, <4>2, ListOf
    <3>7. CASE Truthy(b.lp)
      BY <2>8, <3>1, <3>7
    <3>8. CASE ~Truthy(b.lp)
      <4>1. filled(b) = nones
        BY <3>4, <3>5, <3>8
      <4>2. Listed(b.rows, nones)
        <5>1. CASE TRUE \in Processors
          <6>1. k = 0
            BY <3>3, <3>4, <3>8, <5>1, EmptySeq
          <6> QED BY <3>4, <3>6, <5>1, <6>1 DEF Listed
        <5>2. CASE TRUE \notin Processors
          BY <3>6, <5>2 DEF Listed
        <5> QED BY <5>1, <5>2
      <4> QED BY <3>6, <4>1, <4>2
    <3> QED BY <3>7, <3>8
  <2>9. Good(prompt, PromptRecords) /\ Listed(prompt.rows, prompt.lp)
    BY DEF Inv, Typed, OwnLists
  <2>10. prompt.rows \in Seq(PromptRecords) /\ made.rows \in Seq(PromptRecords)
    BY <2>2, <2>9 DEF Good, Records
  <2>11. PICK l, m : l = filled(prompt) /\ m = filled(made)
    OBVIOUS
  <2>12. /\ l \in Seq(Applied) /\ m \in Seq(Applied)
         /\ Listed(prompt.rows, l) /\ Listed(made.rows, m)
    BY <2>2, <2>7, <2>8, <2>9, <2>11
  <2>13. Listed(prompt.rows \o made.rows, l \o m)
    BY <2>10, <2>12, ListedJoined
  <2>14. AfterAdmission(uids).rows = prompt.rows \o made.rows /\ AfterAdmission(uids).lp = l \o m
    BY <1>2, <2>1, <2>11 DEF AfterAdmission, ExtendPrompt, ExtendRows
  <2> QED BY <2>13, <2>14
<1> QED BY <1>1, <1>2

(* The rows that start decoding. *)
LEMMA ListedStarted ==
  ASSUME Inv,
         NEW stops, NEW decoding, NEW selected, NEW uids, NEW batch, NEW work, NEW starting,
         NEW rest, NEW started, NEW still,
         NextParts(stops, decoding, selected, uids, batch, work, starting, rest, started, still),
         Listed(batch.rows, batch.lp)
  PROVE  Listed(started.rows, started.lp) /\ Listed(still.rows, still.lp)
<1>1. /\ Good(batch, PromptRecords) /\ work \in Seq(WorkRecords) /\ Len(work) = Len(batch.rows)
      /\ starting = Starting(batch, work) /\ started = Stepped(starting)
      /\ still = StillPrompt(batch, work)
      /\ Good(starting, GenRecords)
  BY DEF NextParts, AdmittedTo, StartedFrom
<1>2. Ready(work) \in SUBSET DOMAIN batch.rows /\ Rest(work) \in SUBSET DOMAIN batch.rows
  BY PartsCut
<1>3. PICK split : split = FilterPrompt(batch, Ready(work))
  OBVIOUS
<1>4. Listed(split.rows, split.lp)
  BY <1>1, <1>2, <1>3, ListedFilterPrompt
<1>5. /\ starting.lp = split.lp
      /\ starting.rows = [i \in DOMAIN split.rows |->
           [uid |-> split.rows[i].uid, held |-> split.rows[i].held, num |-> 0]]
  BY <1>1, <1>3 DEF Starting, WithRows
<1>6. /\ Len(starting.rows) = Len(split.rows) /\ DOMAIN starting.rows = DOMAIN split.rows
      /\ \A i \in DOMAIN split.rows : starting.rows[i].uid = split.rows[i].uid
  <2>1. Kept(split, batch, Ready(work), PromptRecords)
    BY <1>1, <1>2, <1>3, FilterPromptKept
  <2>2. split.rows \in Seq(PromptRecords)
    BY <2>1 DEF Kept, Good, Records
  <2>3. starting.rows \in Seq(GenRecords)
    BY <1>1 DEF Good, Records
  <2>4. DOMAIN starting.rows = DOMAIN split.rows
    BY <1>5
  <2>5. Len(starting.rows) = Len(split.rows)
    BY <2>2, <2>3, <2>4, LenProperties
  <2> QED BY <1>5, <2>4, <2>5
<1>7. Listed(starting.rows, starting.lp)
  BY <1>4, <1>5, <1>6, ListedSame
<1>8. /\ started.lp = starting.lp
      /\ Len(started.rows) = Len(starting.rows) /\ DOMAIN started.rows = DOMAIN starting.rows
      /\ \A i \in DOMAIN starting.rows :
           started.rows[i] = [uid |-> starting.rows[i].uid, held |-> starting.rows[i].held + 1,
                              num |-> starting.rows[i].num]
  BY <1>1, SteppedGood
<1>9. Listed(started.rows, started.lp)
  <2>1. ASSUME NEW i \in DOMAIN starting.rows PROVE started.rows[i].uid = starting.rows[i].uid
    <3>1. PICK r : r = started.rows[i]
      OBVIOUS
    <3>2. r = [uid |-> starting.rows[i].uid, held |-> starting.rows[i].held + 1,
               num |-> starting.rows[i].num]
      BY <1>8, <3>1
    <3>3. r.uid = starting.rows[i].uid
      BY <3>2
    <3> QED BY <3>1, <3>3
  <2> QED BY <1>7, <1>8, <2>1, ListedSame
<1>10. Listed(still.rows, still.lp)
  <2>1. CASE Ready(work) = {}
    <3>1. still = batch
      BY <1>1, <2>1 DEF StillPrompt
    <3> QED BY <3>1
  <2>2. CASE Ready(work) # {}
    <3>1. PICK f : f = FilterPrompt(batch, Rest(work))
      OBVIOUS
    <3>2. still = f
      BY <1>1, <2>2, <3>1 DEF StillPrompt
    <3>3. Listed(f.rows, f.lp)
      BY <1>1, <1>2, <3>1, ListedFilterPrompt
    <3> QED BY <3>2, <3>3
  <2> QED BY <2>1, <2>2
<1> QED BY <1>9, <1>10

(* Every step leaves each row its own processors. *)
LEMMA OwnListsKept ==
  ASSUME Alike, Inv, OwnLists, [Next]_vars
  PROVE  OwnLists'
<1>1. asked \in Seq(AskedRecords) /\ Good(prompt, PromptRecords) /\ Good(gen, GenRecords)
  BY DEF Inv, Typed
<1>2. ASSUME asked' = asked, Listed(prompt'.rows, prompt'.lp), Listed(gen'.rows, gen'.lp)
      PROVE  OwnLists'
  BY <1>2 DEF OwnLists, Listed
<1>3. Listed(prompt.rows, prompt.lp) /\ Listed(gen.rows, gen.lp)
  BY DEF OwnLists
<1>4. ASSUME NEW s \in Segmentings, NEW m \in MaxTokens, NEW c \in Caches, NEW p \in Processors,
             Insert(s, m, c, p)
      PROVE  OwnLists'
  <2>1. PICK n \in Nat : n = Len(asked) /\ DOMAIN asked = 1..n
    BY <1>1, LenProperties
  <2>2. PICK a : a = [segments |-> s, max |-> m, held |-> c.held, kind |-> c.kind,
                      lp |-> IF p THEN <<n + 1>> ELSE <<>>]
    OBVIOUS
  <2>3. asked' = Append(asked, a) /\ prompt' = prompt /\ gen' = gen
    BY <1>4, <2>1, <2>2 DEF Insert
  <2>4. DOMAIN asked' = 1..n + 1 /\ asked'[n + 1] = a /\ \A u \in 1..n : asked'[u] = asked[u]
    BY <1>1, <2>1, <2>3
  <2>5. a.lp = IF TRUE \in Processors THEN <<n + 1>> ELSE <<>>
    <3>1. p \in BOOLEAN
      BY SizesAssumption
    <3>2. p = TRUE <=> TRUE \in Processors
      BY <3>1 DEF Alike
    <3> QED BY <2>2, <3>2
  <2>6. ASSUME NEW u \in 1..n + 1
        PROVE  asked'[u].lp = IF TRUE \in Processors THEN <<u>> ELSE <<>>
    <3>1. CASE u \in 1..n
      <4>1. asked'[u] = asked[u] /\ u \in DOMAIN asked
        BY <2>1, <2>4, <3>1
      <4>2. asked[u].lp = IF TRUE \in Processors THEN <<u>> ELSE <<>>
        BY <4>1 DEF OwnLists
      <4> QED BY <4>1, <4>2
    <3>2. CASE u = n + 1
      <4>1. asked'[u].lp = a.lp /\ u = n + 1
        BY <2>4, <3>2
      <4> QED BY <2>5, <4>1, Zenon
    <3>3. u \in 1..n \/ u = n + 1
      OBVIOUS
    <3> QED BY <3>1, <3>2, <3>3
  <2> QED BY <1>3, <2>3, <2>4, <2>6 DEF OwnLists, Listed
<1>5. ASSUME NEW uid \in DOMAIN asked, RemoveSequence(uid)
      PROVE  OwnLists'
  <2>1. asked' = asked
    BY <1>5 DEF RemoveSequence
  <2>2. Listed(prompt'.rows, prompt'.lp)
    <3>1. PICK keep \in SUBSET DOMAIN prompt.rows :
            keep = {i \in DOMAIN prompt.rows : prompt.rows[i].uid # uid}
      OBVIOUS
    <3>2. prompt' = prompt \/ prompt' = FilterPrompt(prompt, keep)
      BY <1>5, <3>1 DEF RemoveSequence
    <3>3. Listed(FilterPrompt(prompt, keep).rows, FilterPrompt(prompt, keep).lp)
      BY <1>1, <1>3, ListedFilterPrompt
    <3> QED BY <1>3, <3>2, <3>3
  <2>3. Listed(gen'.rows, gen'.lp)
    <3>1. PICK keep \in SUBSET DOMAIN gen.rows :
            keep = {i \in DOMAIN gen.rows : gen.rows[i].uid # uid}
      OBVIOUS
    <3>2. gen' = gen \/ gen' = FilterGeneration(gen, keep)
      BY <1>5, <3>1 DEF RemoveSequence
    <3>3. Listed(FilterGeneration(gen, keep).rows, FilterGeneration(gen, keep).lp)
      BY <1>1, <1>3, ListedFilterGeneration
    <3> QED BY <1>3, <3>2, <3>3
  <2> QED BY <1>2, <2>1, <2>2, <2>3
<1>6. ASSUME NEW stops, DecodeOnly(stops)
      PROVE  OwnLists'
  <2>1. asked' = asked /\ prompt' = prompt /\ (gen' = gen \/ gen' = AfterDecode(stops))
    BY <1>6 DEF DecodeOnly
  <2>2. Listed(AfterDecode(stops).rows, AfterDecode(stops).lp)
    BY <1>1, <1>3, ListedDecoded
  <2> QED BY <1>2, <1>3, <2>1, <2>2
<1>7. ASSUME NEW stops, DecodeAndPrefill(stops)
      PROVE  OwnLists'
  <2>1. CASE raised' # "no"
    <3>1. asked' = asked /\ prompt' = prompt /\ gen' = gen
      BY <1>7, <2>1 DEF DecodeAndPrefill
    <3> QED BY <1>2, <1>3, <3>1
  <2>2. CASE raised' = "no"
    <3>1. PICK decoding, selected, uids, batch, work, starting, rest, started, still :
             /\ NextParts(stops, decoding, selected, uids, batch, work, starting, rest, started, still)
             /\ gen' = IF Ready(work) = {} THEN decoding ELSE ExtendGeneration(decoding, started)
             /\ prompt' = Prompted(still, [i \in DOMAIN rest |-> Chunk(rest[i])])
             /\ processing' = [i \in DOMAIN rest |-> Fed(rest[i])]
             /\ unprocessed' = Pick(unprocessed, DOMAIN unprocessed \ selected)
             /\ ended' = ended \cup EndedBy(stops)
             /\ asked' = asked
      BY <1>7, <2>2, PartsOfNext, ZenonT(40)
    <3>2. NextParts(stops, decoding, selected, uids, batch, work, starting, rest, started, still)
      BY <3>1
    <3>3. Listed(decoding.rows, decoding.lp) /\ Good(decoding, GenRecords)
      <4>1. decoding = AfterDecode(stops) /\ Good(decoding, GenRecords)
        BY <3>2 DEF NextParts, DecodedFrom
      <4> QED BY <1>1, <1>3, <4>1, ListedDecoded
    <3>4. Listed(batch.rows, batch.lp)
      <4>1. batch = AfterAdmission(uids) /\ uids \in Seq(DOMAIN asked) /\ Distinct(uids)
        BY <3>2 DEF NextParts
      <4>2. Listed(AfterAdmission(uids).rows, AfterAdmission(uids).lp)
        BY <4>1, ListedAdmitted
      <4> QED BY <4>1, <4>2
    <3>5. Listed(started.rows, started.lp) /\ Listed(still.rows, still.lp)
      BY <3>2, <3>4, ListedStarted
    <3>6. Good(started, GenRecords)
      BY <3>2, StartedDecodes
    <3>7. Listed(gen'.rows, gen'.lp)
      <4>1. CASE Ready(work) = {}
        BY <3>1, <3>3, <4>1
      <4>2. CASE Ready(work) # {}
        <5>1. gen' = ExtendGeneration(decoding, started)
          BY <3>1, <4>2
        <5>2. gen'.rows = decoding.rows \o started.rows /\ gen'.lp = decoding.lp \o started.lp
          BY <5>1 DEF ExtendGeneration, ExtendRows
        <5>3. /\ decoding.rows \in Seq(GenRecords) /\ started.rows \in Seq(GenRecords)
              /\ decoding.lp \in Seq(Applied) /\ started.lp \in Seq(Applied)
          BY <3>3, <3>6 DEF Good, Records
        <5>4. Listed(decoding.rows \o started.rows, decoding.lp \o started.lp)
          BY <3>3, <3>5, <5>3, ListedJoined
        <5> QED BY <5>2, <5>4
      <4> QED BY <4>1, <4>2
    <3>8. Listed(prompt'.rows, prompt'.lp)
      <4>1. FedFrom(prompt', processing', still, rest)
        BY <3>1, PromptAfter
      <4>2. /\ Len(prompt'.rows) = Len(still.rows) /\ DOMAIN prompt'.rows = DOMAIN still.rows
            /\ \A i \in DOMAIN still.rows : prompt'.rows[i].uid = still.rows[i].uid
        BY <4>1 DEF FedFrom
      <4>3. prompt'.lp = still.lp
        BY <3>1 DEF Prompted
      <4> QED BY <3>5, <4>2, <4>3, ListedSame
    <3> QED BY <1>2, <3>1, <3>7, <3>8
  <2> QED BY <2>1, <2>2
<1>8. CASE UNCHANGED vars
  <2>1. asked' = asked /\ prompt' = prompt /\ gen' = gen
    BY <1>8 DEF vars
  <2> QED BY <1>2, <1>3, <2>1
<1> QED BY <1>4, <1>5, <1>6, <1>7, <1>8 DEF Next, CallNext

(* The processors a row is sampled with are then those of its request. *)
LEMMA OwnListsMean ==
  ASSUME Inv, OwnLists
  PROVE  LogitsOwn
<1>1. gen.rows \in Seq(GenRecords) /\ gen.lp \in Seq(Applied) /\ Listed(gen.rows, gen.lp)
      /\ Len(gen.lp) >= Len(gen.rows)
  BY DEF Inv, Typed, Good, Records, OwnLists
<1>2. ASSUME NEW i \in DOMAIN gen.rows
      PROVE  AppliedTo(i) = asked[gen.rows[i].uid].lp
  <2>1. PICK u \in DOMAIN asked : u = gen.rows[i].uid /\ u \in Nat
    <3>1. asked \in Seq(AskedRecords)
      BY DEF Inv, Typed
    <3>2. DOMAIN asked \subseteq Nat
      BY <3>1, LenProperties
    <3> QED BY <3>2, Batched
  <2>2. asked[u].lp = IF TRUE \in Processors THEN <<u>> ELSE <<>>
    BY DEF OwnLists
  <2>3. CASE TRUE \in Processors
    <3>1. gen.lp[i] = <<u>> /\ <<u>> # None /\ <<u>> # <<>>
      BY <1>1, <2>1, <2>3, SomeList DEF Listed
    <3>2. i \in DOMAIN gen.lp
      <4>1. Len(gen.lp) = Len(gen.rows)
        BY <1>1, <2>3 DEF Listed
      <4> QED BY <1>1, <4>1, LenProperties
    <3>3. Truthy(gen.lp)
      BY <3>1, <3>2 DEF Truthy
    <3> QED BY <2>1, <2>2, <2>3, <3>1, <3>3 DEF AppliedTo
  <2>4. CASE TRUE \notin Processors
    <3>1. ~Truthy(gen.lp)
      BY <1>1, <2>4 DEF Listed, Truthy
    <3> QED BY <2>1, <2>2, <2>4, <3>1 DEF AppliedTo
  <2> QED BY <2>3, <2>4
<1> QED BY <1>2 DEF LogitsOwn

(* When all requests bring logits processors or none does, each row is     *)
(* sampled with those of its own request, through every filter and join of *)
(* the lists beside the rows. (Of requests of both sorts                   *)
(* MCBatchGenerator_logits.cfg shows the opposite.)                        *)
THEOREM AlwaysLogitsOwn ==
  ASSUME \A p, q \in Processors : p = q
  PROVE  Spec => []LogitsOwn
<1>1. Alike
  BY DEF Alike
<1>2. Init => OwnLists
  <2>1. SUFFICES ASSUME Init PROVE OwnLists
    OBVIOUS
  <2>2. asked = <<>> /\ prompt = NoBatch /\ gen = NoBatch
    BY <2>1 DEF Init
  <2>3. Listed(<<>>, <<>>)
    BY DEF Listed
  <2> QED BY <2>2, <2>3 DEF OwnLists, NoBatch
<1>3. OwnLists /\ Inv /\ [Next]_vars => OwnLists'
  BY <1>1, OwnListsKept
<1>4. Inv /\ OwnLists => LogitsOwn
  BY OwnListsMean
<1> QED BY <1>2, <1>3, <1>4, InvariantHolds, PTL DEF Spec

----------------------------------------
(* Each sequence alone. *)

(* What SingleRequest knows of a request. *)
Seen(stage, request, held, produced) ==
  [stage |-> stage, request |-> request, held |-> held, produced |-> produced]

(* What is seen of a sequence of the generator. *)
Shown(u) == Seen(Stage(u), Request(u), Held(u), Produced(u))

Nothing == [segments |-> <<>>, held |-> 0, max |-> 0]
AskedOf(u) == [segments |-> asked[u].segments, held |-> asked[u].held, max |-> asked[u].max]
Askable == [segments : Segmentings, held : {c.held : c \in Caches}, max : MaxTokens]

AllIn(r) == r.held + SumFunction(r.segments)
StopsAt(r, n) == r.held + SumFunction(SubSeq(r.segments, 1, n))

(* Where the next chunk ends. *)
NextStop(r, held) ==
  Min({held + PrefillStep, AllIn(r) - 1} \cup
      {StopsAt(r, n) : n \in {k \in DOMAIN r.segments : StopsAt(r, k) > held}})

(* The actions of SingleRequest on what is seen. *)
Submits(x, y) ==
  x.stage = "absent" /\ \E r \in Askable : y = Seen("waiting", r, r.held, 0)
Prefills(x, y) ==
  /\ x.stage \in {"waiting", "prompt"}
  /\ x.held < AllIn(x.request) - 1
  /\ y = Seen("prompt", x.request, NextStop(x.request, x.held), x.produced)
Starts(x, y) ==
  /\ x.stage \in {"waiting", "prompt"}
  /\ x.held = AllIn(x.request) - 1
  /\ y = Seen("decoding", x.request, AllIn(x.request), x.produced)
Emits(x, y) ==
  /\ x.stage = "decoding"
  /\ x.request.max >= 0 => x.produced + 1 < x.request.max
  /\ y = Seen("decoding", x.request, x.held + 1, x.produced + 1)
Ends(x, y) ==
  /\ x.stage \in {"waiting", "prompt", "decoding"}
  /\ y = Seen("ended", x.request, 0, 0)

GoesOn(x, y) ==
  Submits(x, y) \/ Prefills(x, y) \/ Starts(x, y) \/ Emits(x, y) \/ Ends(x, y) \/ x = y

(* What is seen of a sequence, by where it is. *)
View ==
  /\ \A u : u \notin DOMAIN asked => Shown(u) = Seen("absent", Nothing, 0, 0)
  /\ \A u \in ended : Shown(u) = Seen("ended", AskedOf(u), 0, 0)
  /\ \A u \in In(unprocessed) : Shown(u) = Seen("waiting", AskedOf(u), asked[u].held, 0)
  /\ \A u : \A i \in DOMAIN prompt.rows : prompt.rows[i].uid = u =>
       Shown(u) = Seen("prompt", AskedOf(u), prompt.rows[i].held, 0)
  /\ \A u : \A i \in DOMAIN gen.rows : gen.rows[i].uid = u =>
       Shown(u) = Seen("decoding", AskedOf(u), gen.rows[i].held, gen.rows[i].num)

(* The row of a sequence is the one with its uid. *)
LEMMA RowOfIt ==
  ASSUME NEW rows, OneRow(rows), NEW i \in DOMAIN rows
  PROVE  RowOf(rows[i].uid, rows) = rows[i] /\ rows[i].uid \in Uids(rows)
<1> DEFINE j == CHOOSE j \in DOMAIN rows : rows[j].uid = rows[i].uid
<1>1. j \in DOMAIN rows /\ rows[j].uid = rows[i].uid
  OBVIOUS
<1> HIDE DEF j
<1>2. j = i
  BY <1>1 DEF OneRow
<1> QED BY <1>2 DEF RowOf, j, Uids

(* The invariant says where each sequence is, and so what is seen of it. *)
LEMMA ViewOf == Inv => View
<1> SUFFICES ASSUME Inv PROVE View
  OBVIOUS
<1>1. /\ OneRow(prompt.rows) /\ OneRow(gen.rows)
      /\ unprocessed \in Seq(DOMAIN asked) /\ ended \subseteq DOMAIN asked
  BY DEF Inv, Typed, Good
<1>2. /\ In(unprocessed) \cap Uids(prompt.rows) = {}
      /\ In(unprocessed) \cap Uids(gen.rows) = {}
      /\ Uids(prompt.rows) \cap Uids(gen.rows) = {}
      /\ In(unprocessed) \cup Uids(prompt.rows) \cup Uids(gen.rows) = DOMAIN asked \ ended
  BY DEF Inv, Staged
<1>3. \A u : Contains(unprocessed, u) <=> u \in In(unprocessed)
  <2>1. DOMAIN unprocessed = 1..Len(unprocessed)
    BY <1>1, LenProperties
  <2> QED BY <2>1 DEF Contains, In
<1>4. ASSUME NEW u, u \notin DOMAIN asked PROVE Shown(u) = Seen("absent", Nothing, 0, 0)
  <2>1. Stage(u) = "absent"
    BY <1>4 DEF Stage
  <2> QED BY <2>1 DEF Shown, Request, Held, Produced, Nothing
<1>5. ASSUME NEW u \in ended PROVE Shown(u) = Seen("ended", AskedOf(u), 0, 0)
  <2>1. Stage(u) = "ended"
    BY <1>1 DEF Stage
  <2> QED BY <2>1 DEF Shown, Request, Held, Produced, AskedOf
<1>6. ASSUME NEW u \in In(unprocessed)
      PROVE  Shown(u) = Seen("waiting", AskedOf(u), asked[u].held, 0)
  <2>1. Stage(u) = "waiting"
    BY <1>2, <1>3 DEF Stage
  <2> QED BY <2>1 DEF Shown, Request, Held, Produced, AskedOf
<1>7. ASSUME NEW i \in DOMAIN prompt.rows, NEW u, u = prompt.rows[i].uid
      PROVE  Shown(u) = Seen("prompt", AskedOf(u), prompt.rows[i].held, 0)
  <2>1. RowOf(u, prompt.rows) = prompt.rows[i] /\ u \in Uids(prompt.rows)
    BY <1>1, <1>7, RowOfIt
  <2>2. Stage(u) = "prompt"
    BY <1>2, <1>3, <2>1 DEF Stage
  <2> QED BY <2>1, <2>2 DEF Shown, Request, Held, Produced, AskedOf
<1>8. ASSUME NEW i \in DOMAIN gen.rows, NEW u, u = gen.rows[i].uid
      PROVE  Shown(u) = Seen("decoding", AskedOf(u), gen.rows[i].held, gen.rows[i].num)
  <2>1. RowOf(u, gen.rows) = gen.rows[i] /\ u \in Uids(gen.rows)
    BY <1>1, <1>8, RowOfIt
  <2>2. Stage(u) = "decoding"
    BY <1>2, <1>3, <2>1 DEF Stage
  <2> QED BY <2>1, <2>2 DEF Shown, Request, Held, Produced, AskedOf
<1> QED BY <1>4, <1>5, <1>6, <1>7, <1>8 DEF View

(* It says so after a step, too. *)
LEMMA ViewNext == Inv' => View'
<1>1. Inv => View
  BY ViewOf
<1> QED BY <1>1, PTL

(* SingleRequest sums and compares in its own copies of the operators. *)
LEMMA AloneSum == \A f : Alone!SumFunction(f) = SumFunction(f)
BY DEF SumFunction, SumFunctionOnSet, FoldFunctionOnSet, MapThenFoldSet, Alone!SumFunction,
       Alone!SumFunctionOnSet, Alone!FoldFunctionOnSet, Alone!MapThenFoldSet

(* The same of the minimum. *)
LEMMA AloneMin == \A S : Alone!Min(S) = Min(S)
BY DEF Min, Alone!Min

(* A step of each is a step of SingleRequest. *)
LEMMA AloneNext ==
  ASSUME \A u \in Ids : GoesOn(Shown(u), Shown(u)')
  PROVE  Alone!Next
<1> SUFFICES ASSUME NEW u \in Ids
             PROVE  \/ Alone!Submit(u) \/ Alone!Prefill(u) \/ Alone!Start(u)
                    \/ Alone!Emit(u) \/ Alone!End(u) \/ Alone!Idle(u)
  BY DEF Alone!Next
<1>1. GoesOn(Shown(u), Shown(u)')
  OBVIOUS
<1>2. /\ Shown(u).stage = Stage(u) /\ Shown(u).request = Request(u)
      /\ Shown(u).held = Held(u) /\ Shown(u).produced = Produced(u)
  BY DEF Shown, Seen
<1>3. /\ Shown(u)'.stage = Stage(u)' /\ Shown(u)'.request = Request(u)'
      /\ Shown(u)'.held = Held(u)' /\ Shown(u)'.produced = Produced(u)'
  BY DEF Shown, Seen
<1>4. CASE Submits(Shown(u), Shown(u)')
  <2>1. PICK r \in Askable : Shown(u)' = Seen("waiting", r, r.held, 0)
    BY <1>4 DEF Submits
  <2>2. /\ Stage(u)' = "waiting" /\ Request(u)' = r /\ Held(u)' = r.held /\ Produced(u)' = 0
    BY <1>3, <2>1 DEF Seen
  <2>3. Stage(u) = "absent"
    BY <1>2, <1>4 DEF Submits
  <2> QED BY <2>2, <2>3 DEF Alone!Submit, Askable
<1>5. CASE Prefills(Shown(u), Shown(u)')
  <2> DEFINE r == Request(u)
  <2>1. /\ Stage(u) \in {"waiting", "prompt"} /\ Held(u) < AllIn(r) - 1
        /\ Shown(u)' = Seen("prompt", r, NextStop(r, Held(u)), Produced(u))
    BY <1>2, <1>5 DEF Prefills
  <2>2. /\ Stage(u)' = "prompt" /\ Request(u)' = r /\ Produced(u)' = Produced(u)
        /\ Held(u)' = Min({Held(u) + PrefillStep, AllIn(r) - 1} \cup
                  {StopsAt(r, n) : n \in {k \in DOMAIN r.segments : StopsAt(r, k) > Held(u)}})
    BY <1>3, <2>1 DEF Seen, NextStop
  <2>3. Alone!Total(u) = AllIn(r) /\ \A n : Alone!Boundary(u, n) = StopsAt(r, n)
    BY AloneSum DEF Alone!Total, Alone!Boundary, AllIn, StopsAt
  <2> QED BY <2>1, <2>2, <2>3, AloneMin DEF Alone!Prefill
<1>6. CASE Starts(Shown(u), Shown(u)')
  <2> DEFINE r == Request(u)
  <2>1. /\ Stage(u) \in {"waiting", "prompt"} /\ Held(u) = AllIn(r) - 1
        /\ Shown(u)' = Seen("decoding", r, AllIn(r), Produced(u))
    BY <1>2, <1>6 DEF Starts
  <2>2. /\ Stage(u)' = "decoding" /\ Request(u)' = r /\ Produced(u)' = Produced(u)
        /\ Held(u)' = AllIn(r)
    BY <1>3, <2>1 DEF Seen
  <2>3. Alone!Total(u) = AllIn(r)
    BY AloneSum DEF Alone!Total, AllIn
  <2> QED BY <2>1, <2>2, <2>3 DEF Alone!Start
<1>7. CASE Emits(Shown(u), Shown(u)')
  <2>1. /\ Stage(u) = "decoding"
        /\ Request(u).max >= 0 => Produced(u) + 1 < Request(u).max
        /\ Shown(u)' = Seen("decoding", Request(u), Held(u) + 1, Produced(u) + 1)
    BY <1>2, <1>7 DEF Emits
  <2>2. /\ Stage(u)' = "decoding" /\ Request(u)' = Request(u) /\ Produced(u)' = Produced(u) + 1
        /\ Held(u)' = Held(u) + 1
    BY <1>3, <2>1 DEF Seen
  <2> QED BY <2>1, <2>2 DEF Alone!Emit
<1>8. CASE Ends(Shown(u), Shown(u)')
  <2>1. /\ Stage(u) \in {"waiting", "prompt", "decoding"}
        /\ Shown(u)' = Seen("ended", Request(u), 0, 0)
    BY <1>2, <1>8 DEF Ends
  <2>2. Stage(u)' = "ended" /\ Request(u)' = Request(u) /\ Produced(u)' = 0 /\ Held(u)' = 0
    BY <1>3, <2>1 DEF Seen
  <2> QED BY <2>1, <2>2 DEF Alone!End
<1>9. CASE Shown(u) = Shown(u)'
  <2>1. /\ Stage(u)' = Stage(u) /\ Request(u)' = Request(u)
        /\ Held(u)' = Held(u) /\ Produced(u)' = Produced(u)
    BY <1>2, <1>3, <1>9
  <2> QED BY <2>1 DEF Alone!Idle
<1> QED BY <1>1, <1>4, <1>5, <1>6, <1>7, <1>8, <1>9 DEF GoesOn

(* A sequence is in one of these places. *)
LEMMA Somewhere ==
  ASSUME Inv, NEW u
  PROVE  \/ u \notin DOMAIN asked \/ u \in ended \/ u \in In(unprocessed)
         \/ \E i \in DOMAIN prompt.rows : prompt.rows[i].uid = u
         \/ \E i \in DOMAIN gen.rows : gen.rows[i].uid = u
<1>1. In(unprocessed) \cup Uids(prompt.rows) \cup Uids(gen.rows) = DOMAIN asked \ ended
  BY DEF Inv, Staged
<1>2. u \in DOMAIN asked \ ended => u \in In(unprocessed) \/ u \in Uids(prompt.rows) \/ u \in Uids(gen.rows)
  BY <1>1
<1> QED BY <1>2 DEF Uids

(* What stays where it is and as it is, looks the same. *)
LEMMA Stays ==
  ASSUME Inv, Inv', NEW u,
         u \in DOMAIN asked <=> u \in DOMAIN asked',
         u \in DOMAIN asked => asked'[u] = asked[u],
         u \in ended => u \in ended',
         u \in In(unprocessed) => u \in In(unprocessed'),
         \A i \in DOMAIN prompt.rows : prompt.rows[i].uid = u =>
           \E k \in DOMAIN prompt'.rows : prompt'.rows[k] = prompt.rows[i],
         \A i \in DOMAIN gen.rows : gen.rows[i].uid = u =>
           \E k \in DOMAIN gen'.rows : gen'.rows[k] = gen.rows[i]
  PROVE  Shown(u)' = Shown(u)
<1>1. View /\ View'
  BY ViewOf, ViewNext
<1>2. CASE u \notin DOMAIN asked
  BY <1>1, <1>2 DEF View, Seen, Nothing
<1>3. u \in DOMAIN asked => AskedOf(u)' = AskedOf(u)
  BY DEF AskedOf
<1>4. /\ ended \subseteq DOMAIN asked /\ In(unprocessed) \subseteq DOMAIN asked
      /\ \A i \in DOMAIN prompt.rows : prompt.rows[i].uid \in DOMAIN asked
      /\ \A i \in DOMAIN gen.rows : gen.rows[i].uid \in DOMAIN asked
  BY Batched DEF Inv, Typed, Staged
<1>5. CASE u \in ended
  <2>1. Shown(u) = Seen("ended", AskedOf(u), 0, 0) /\ Shown(u)' = Seen("ended", AskedOf(u), 0, 0)'
    BY <1>1, <1>5 DEF View
  <2> QED BY <1>3, <1>4, <1>5, <2>1 DEF Seen
<1>6. CASE u \in In(unprocessed)
  <2>1. /\ Shown(u) = Seen("waiting", AskedOf(u), asked[u].held, 0)
        /\ Shown(u)' = Seen("waiting", AskedOf(u)', asked'[u].held, 0)
    BY <1>1, <1>6 DEF View, Seen
  <2> QED BY <1>3, <1>4, <1>6, <2>1
<1>7. ASSUME NEW i \in DOMAIN prompt.rows, prompt.rows[i].uid = u PROVE Shown(u)' = Shown(u)
  <2>1. PICK k \in DOMAIN prompt'.rows : prompt'.rows[k] = prompt.rows[i]
    BY <1>7
  <2>2. /\ Shown(u) = Seen("prompt", AskedOf(u), prompt.rows[i].held, 0)
        /\ Shown(u)' = Seen("prompt", AskedOf(u)', prompt'.rows[k].held, 0)
    BY <1>1, <1>7, <2>1 DEF View, Seen
  <2> QED BY <1>3, <1>4, <1>7, <2>1, <2>2
<1>8. ASSUME NEW i \in DOMAIN gen.rows, gen.rows[i].uid = u PROVE Shown(u)' = Shown(u)
  <2>1. PICK k \in DOMAIN gen'.rows : gen'.rows[k] = gen.rows[i]
    BY <1>8
  <2>2. /\ Shown(u) = Seen("decoding", AskedOf(u), gen.rows[i].held, gen.rows[i].num)
        /\ Shown(u)' = Seen("decoding", AskedOf(u)', gen'.rows[k].held, gen'.rows[k].num)
    BY <1>1, <1>8, <2>1 DEF View, Seen
  <2> QED BY <1>3, <1>4, <1>8, <2>1, <2>2
<1> QED BY <1>2, <1>5, <1>6, <1>7, <1>8, Somewhere

(* Nothing is seen when nothing moves. *)
LEMMA NothingSeen ==
  ASSUME Inv, Inv', NEW u, asked' = asked, ended' = ended, unprocessed' = unprocessed,
         prompt' = prompt, gen' = gen
  PROVE  GoesOn(Shown(u), Shown(u)')
<1>1. Shown(u)' = Shown(u)
  BY Stays
<1> QED BY <1>1 DEF GoesOn

(* insert_segments() *)
LEMMA InsertSeen ==
  ASSUME Inv, Inv', NEW u, NEW s \in Segmentings, NEW m \in MaxTokens, NEW c \in Caches,
         NEW p \in Processors, Insert(s, m, c, p)
  PROVE  GoesOn(Shown(u), Shown(u)')
<1>1. PICK n, a : QueueGrown(n, a) /\ a.segments = s /\ a.max = m /\ a.held = c.held
  BY Inserted
<1>2. /\ n \in Nat /\ DOMAIN asked = 1..n /\ DOMAIN asked' = 1..n + 1
      /\ asked'[n + 1] = a /\ \A v \in 1..n : asked'[v] = asked[v]
      /\ In(unprocessed') = In(unprocessed) \cup {n + 1}
      /\ ended' = ended /\ prompt' = prompt /\ gen' = gen
  BY <1>1 DEF QueueGrown
<1>3. CASE u = n + 1
  <2>1. u \notin DOMAIN asked /\ u \in In(unprocessed')
    BY <1>2, <1>3
  <2>2. /\ Shown(u) = Seen("absent", Nothing, 0, 0)
        /\ Shown(u)' = Seen("waiting", AskedOf(u)', asked'[u].held, 0)
    BY <2>1, ViewOf, ViewNext DEF View, Seen
  <2>3. AskedOf(u)' = [segments |-> s, held |-> c.held, max |-> m]
    BY <1>1, <1>2, <1>3 DEF AskedOf
  <2>4. AskedOf(u)' \in Askable /\ AskedOf(u)'.held = asked'[u].held
    BY <1>1, <1>2, <1>3, <2>3 DEF Askable
  <2>5. Submits(Shown(u), Shown(u)')
    BY <2>2, <2>4 DEF Submits, Seen
  <2> QED BY <2>5 DEF GoesOn
<1>4. CASE u # n + 1
  <2>1. u \in DOMAIN asked <=> u \in DOMAIN asked'
    BY <1>2, <1>4
  <2>2. Shown(u)' = Shown(u)
    BY <1>2, <1>4, <2>1, Stays
  <2> QED BY <2>2 DEF GoesOn
<1> QED BY <1>3, <1>4

(* Every row of new is one of rows. *)
Taken(new, rows) == \A k \in DOMAIN new : \E i \in DOMAIN rows : new[k] = rows[i]

(* A row whose uid is among those taken over was taken over itself. *)
LEMMA RowsTaken ==
  ASSUME NEW rows, NEW new, OneRow(rows), Taken(new, rows),
         NEW i \in DOMAIN rows, rows[i].uid \in Uids(new)
  PROVE  \E k \in DOMAIN new : new[k] = rows[i]
<1>1. PICK k \in DOMAIN new : new[k].uid = rows[i].uid
  BY DEF Uids
<1>2. PICK j \in DOMAIN rows : new[k] = rows[j]
  BY DEF Taken
<1>3. j = i
  BY <1>1, <1>2 DEF OneRow
<1> QED BY <1>2, <1>3

(* remove() *)
LEMMA RemoveSeen ==
  ASSUME Inv, Inv', NEW u, NEW uid \in DOMAIN asked, RemoveSequence(uid)
  PROVE  GoesOn(Shown(u), Shown(u)')
<1>1. /\ asked' = asked /\ ended' = ended \cup {uid}
      /\ In(unprocessed') = In(unprocessed) \ {uid}
      /\ PromptLeft(prompt', processing', Uids(prompt.rows) \ {uid})
      /\ GenLeft(gen', Uids(gen.rows) \ {uid})
  BY Removed
<1>2. uid \notin ended
  BY DEF RemoveSequence
<1>3. View /\ View'
  BY ViewOf, ViewNext
<1>4. CASE u = uid
  <2>1. Shown(u)' = Seen("ended", AskedOf(u), 0, 0)
    <3>1. u \in ended'
      BY <1>1, <1>4
    <3>2. Shown(u)' = Seen("ended", AskedOf(u)', 0, 0)
      BY <1>3, <3>1 DEF View, Seen
    <3> QED BY <1>1, <3>2 DEF AskedOf
  <2>2. Shown(u).stage \in {"waiting", "prompt", "decoding"} /\ Shown(u).request = AskedOf(u)
    <3>1. CASE u \in In(unprocessed)
      BY <1>3, <3>1 DEF View, Seen
    <3>2. ASSUME NEW i \in DOMAIN prompt.rows, prompt.rows[i].uid = u
          PROVE  Shown(u) = Seen("prompt", AskedOf(u), prompt.rows[i].held, 0)
      BY <1>3, <3>2 DEF View
    <3>3. ASSUME NEW i \in DOMAIN gen.rows, gen.rows[i].uid = u
          PROVE  Shown(u) = Seen("decoding", AskedOf(u), gen.rows[i].held, gen.rows[i].num)
      BY <1>3, <3>3 DEF View
    <3> QED BY <1>2, <1>4, <3>1, <3>2, <3>3, Somewhere DEF Seen
  <2>3. Ends(Shown(u), Shown(u)')
    BY <2>1, <2>2 DEF Ends
  <2> QED BY <2>3 DEF GoesOn
<1>5. CASE u # uid
  <2>1. ASSUME NEW i \in DOMAIN prompt.rows, prompt.rows[i].uid = u
        PROVE  \E k \in DOMAIN prompt'.rows : prompt'.rows[k] = prompt.rows[i]
    <3>1. OneRow(prompt.rows)
      BY DEF Inv, Typed, Good
    <3>2. prompt.rows[i].uid \in Uids(prompt'.rows)
      BY <1>1, <1>5, <2>1 DEF PromptLeft, Uids
    <3>3. Taken(prompt'.rows, prompt.rows)
      BY <1>1 DEF PromptLeft, Taken
    <3> QED BY <3>1, <3>2, <3>3, RowsTaken
  <2>2. ASSUME NEW i \in DOMAIN gen.rows, gen.rows[i].uid = u
        PROVE  \E k \in DOMAIN gen'.rows : gen'.rows[k] = gen.rows[i]
    <3>1. OneRow(gen.rows)
      BY DEF Inv, Typed, Good
    <3>2. gen.rows[i].uid \in Uids(gen'.rows)
      BY <1>1, <1>5, <2>2 DEF GenLeft, Uids
    <3>3. Taken(gen'.rows, gen.rows)
      BY <1>1 DEF GenLeft, Taken
    <3> QED BY <3>1, <3>2, <3>3, RowsTaken
  <2>3. Shown(u)' = Shown(u)
    BY <1>1, <1>5, <2>1, <2>2, Stays
  <2> QED BY <2>3 DEF GoesOn
<1> QED BY <1>4, <1>5

(* The minimum is the member below all others. *)
LEMMA LeastIs ==
  ASSUME NEW S \in SUBSET Int, NEW m \in S, \A y \in S : m <= y
  PROVE  Min(S) = m
<1>1. \E x \in S : \A y \in S : x =< y
  OBVIOUS
<1>2. Min(S) \in S /\ \A y \in S : Min(S) =< y
  BY <1>1, Zenon DEF Min
<1>3. Min(S) <= m /\ m <= Min(S) /\ m \in Int /\ Min(S) \in Int
  BY <1>2
<1> QED BY <1>3

(* The first stop is the first segment, none is before it. *)
LEMMA FirstStop ==
  ASSUME NEW s \in Seq(Nat \ {0}), s # <<>>
  PROVE  Head(s) \in Nat /\ Head(s) \in Stops(s) /\ \A x \in Stops(s) : Head(s) <= x
<1>1. s \in Seq(Nat) /\ DOMAIN s = 1..Len(s) /\ Len(s) \in DOMAIN s /\ Len(s) \in Nat
  BY PositiveSegments
<1>2. /\ Head(s) \in Nat /\ Tail(s) \in Seq(Nat) /\ Len(Tail(s)) = Len(s) - 1
      /\ \A k \in 1..Len(s) : Upto(s, k) = Head(s) + Upto(Tail(s), k - 1)
  BY <1>1, SumTail
<1>3. \A k \in 0..Len(Tail(s)) : Upto(Tail(s), k) \in Nat
  BY <1>2, UptoProperties
<1>4. Upto(Tail(s), 0) = 0
  BY <1>2, UptoProperties
<1>5. ASSUME NEW k \in 1..Len(s) PROVE Upto(s, k) \in Nat /\ Head(s) <= Upto(s, k)
  <2>1. k - 1 \in 0..Len(Tail(s))
    BY <1>1, <1>2
  <2>2. PICK d \in Nat : d = Upto(Tail(s), k - 1)
    BY <1>3, <2>1
  <2>3. Upto(s, k) = Head(s) + d
    BY <1>2, <2>2
  <2> QED BY <1>2, <2>3
<1>6. Upto(s, 1) = Head(s) /\ 1 \in 1..Len(s)
  <2>1. 1 \in 1..Len(s) /\ 1 - 1 = 0
    BY <1>1
  <2>2. Upto(s, 1) = Head(s) + Upto(Tail(s), 1 - 1)
    BY <1>2, <2>1
  <2> QED BY <1>2, <1>4, <2>1, <2>2
<1> QED BY <1>1, <1>2, <1>5, <1>6 DEF Stops

(* A chunk ends at the next stop of the request, before its last token, or *)
(* is a whole step.                                                        *)
LEMMA ChunkIsNext ==
  ASSUME asked \in Seq(AskedRecords), NEW row, row.uid \in DOMAIN asked, NEW work \in WorkRecords,
         Aligned(row, work), work.segments # << 1 >>,
         NEW r, r = AskedOf(row.uid)
  PROVE  /\ row.held < AllIn(r) - 1
         /\ row.held + Chunk(work) = NextStop(r, row.held)
<1>1. PICK segs : segs = asked[row.uid].segments
  OBVIOUS
<1>2. PICK H \in Nat : H = asked[row.uid].held
  BY AskedProperties
<1>3. PICK A \in Nat : A = AllOf(row.uid)
  BY AskedProperties
<1>4. PICK w : w = work.segments
  OBVIOUS
<1>5. PICK d \in Nat : d = work.done
  BY DEF WorkRecords
<1>6. /\ Chunk(work) \in Nat /\ Chunk(work) > 0
      /\ Chunk(work) = IF Head(work.segments) <= PrefillStep THEN Head(work.segments)
                       ELSE PrefillStep
      /\ work.done + Chunk(work) < AllOf(row.uid)
  <2>1. PICK fed : fed.uid = row.uid /\ fed.held = row.held + Chunk(work)
    <3>1. [uid |-> row.uid, held |-> row.held + Chunk(work)].uid = row.uid
          /\ [uid |-> row.uid, held |-> row.held + Chunk(work)].held = row.held + Chunk(work)
      OBVIOUS
    <3> QED BY <3>1
  <2> QED BY <2>1, FedAligned
<1>7. PICK c \in Nat : c = Chunk(work)
  BY <1>6
<1>8. segs \in Seq(Nat \ {0}) /\ segs # <<>> /\ A = SumFunction(segs)
  BY <1>1, <1>3, AskedProperties DEF AllOf
<1>9. w \in Seq(Nat \ {0}) /\ w # <<>> /\ row.held = H + d
  BY <1>2, <1>4, <1>5 DEF WorkRecords, Aligned
<1>10. PICK h \in Nat : h = Head(w)
  BY <1>9, FirstStop
<1>11. /\ c > 0 /\ d + c < A
       /\ c = IF h <= PrefillStep THEN h ELSE PrefillStep
  BY <1>3, <1>4, <1>5, <1>6, <1>7, <1>10
<1>12. PrefillStep \in Nat
  BY SizesAssumption
<1>13. \A x \in Nat \ {0} : x \in Stops(w) <=> x + d \in Stops(LastApart(segs))
  BY <1>1, <1>4, <1>5 DEF Aligned
<1>14. Stops(LastApart(segs)) = Stops(segs) \cup ({A - 1} \ {0})
  BY <1>8, LastApartProperties
<1>15. h \in Stops(w) /\ \A x \in Stops(w) : h <= x
  BY <1>9, <1>10, FirstStop
<1>16. AllIn(r) = H + A /\ r.segments = segs /\ \A n : StopsAt(r, n) = H + Upto(segs, n)
  BY <1>1, <1>2, <1>8 DEF AllIn, AskedOf, StopsAt, Upto
<1>17. \A k \in DOMAIN segs : Upto(segs, k) \in Nat
  BY <1>8, PositiveSegments
<1> DEFINE T == {StopsAt(r, n) : n \in {k \in DOMAIN r.segments : StopsAt(r, k) > row.held}}
           S == {row.held + PrefillStep, AllIn(r) - 1} \cup T
<1>18. ASSUME NEW t
       PROVE  t \in T <=> \E x \in Stops(segs) : t = H + x /\ x > d
  <2>1. t \in T <=> \E k \in DOMAIN segs : t = H + Upto(segs, k) /\ H + Upto(segs, k) > H + d
    BY <1>9, <1>16
  <2>2. \A k \in DOMAIN segs : H + Upto(segs, k) > H + d <=> Upto(segs, k) > d
    BY <1>17
  <2>3. \A x : x \in Stops(segs) <=> \E k \in DOMAIN segs : x = Upto(segs, k)
    BY <1>17 DEF Stops
  <2> HIDE DEF T
  <2> QED BY <2>1, <2>2, <2>3
<1> HIDE DEF T
<1>19. Stops(segs) \subseteq Nat
  BY DEF Stops
<1>20. S \in SUBSET Int
  <2>1. T \subseteq Int
    BY <1>18, <1>19
  <2>2. row.held + PrefillStep \in Int /\ AllIn(r) - 1 \in Int
    BY <1>9, <1>12, <1>16
  <2> QED BY <2>1, <2>2
<1>21. H + d + c \in S
  <2>1. CASE h <= PrefillStep
    <3>1. c = h /\ c \in Stops(w) /\ c \in Nat \ {0}
      BY <1>11, <1>15, <2>1
    <3>2. c + d \in Stops(segs) \/ c + d = A - 1
      BY <1>13, <1>14, <3>1
    <3>3. c + d \in Stops(segs) => H + d + c \in T
      <4>1. H + d + c = H + (c + d) /\ c + d > d
        BY <1>11
      <4> QED BY <1>18, <4>1
    <3>4. c + d = A - 1 => H + d + c = AllIn(r) - 1
      BY <1>16
    <3> QED BY <3>2, <3>3, <3>4
  <2>2. CASE ~(h <= PrefillStep)
    <3>1. c = PrefillStep
      BY <1>11, <2>2
    <3> QED BY <1>9, <3>1
  <2> QED BY <2>1, <2>2
<1>22. ASSUME NEW y \in S PROVE H + d + c <= y
  <2>1. CASE y = row.held + PrefillStep
    BY <1>9, <1>11, <1>12, <2>1
  <2>2. CASE y = AllIn(r) - 1
    <3>1. y = H + A - 1 /\ d + c < A
      BY <1>11, <1>16, <2>2
    <3> QED BY <3>1
  <2>3. CASE y \in T
    <3>1. PICK x \in Stops(segs) : y = H + x /\ x > d
      BY <1>18, <2>3
    <3>2. x \in Nat /\ x - d \in Nat \ {0} /\ x - d + d = x
      BY <1>19, <3>1
    <3>3. x \in Stops(LastApart(segs))
      BY <1>14, <3>1
    <3>4. PICK z \in Nat \ {0} : z = x - d /\ z + d = x
      BY <3>2
    <3>5. z \in Stops(w)
      BY <1>13, <3>3, <3>4
    <3>6. h <= z
      BY <1>15, <3>5
    <3>7. c <= h
      BY <1>11, <1>12
    <3> QED BY <3>1, <3>2, <3>4, <3>6, <3>7
  <2> QED BY <2>1, <2>2, <2>3
<1>23. Min(S) = H + d + c
  <2> HIDE DEF S
  <2> QED BY <1>20, <1>21, <1>22, LeastIs
<1>24. row.held + Chunk(work) = H + d + c /\ row.held < AllIn(r) - 1
  BY <1>7, <1>9, <1>11, <1>16
<1> QED BY <1>23, <1>24 DEF S, T, NextStop

(* A decoding sequence got its last token, or goes on with one more. *)
LEMMA DecodedOrEnded ==
  ASSUME Inv, NEW decoding, NEW stops, DecodedFrom(decoding, stops), NEW i \in DOMAIN gen.rows,
         gen.rows[i].uid \notin EndedBy(stops)
  PROVE  /\ asked[gen.rows[i].uid].max >= 0
              => gen.rows[i].num + 1 < asked[gen.rows[i].uid].max
         /\ \E k \in DOMAIN decoding.rows : decoding.rows[k] = OneMore(gen.rows[i])
<1>1. i \notin Finishing(stops)
  BY DEF EndedBy
<1>2. asked[gen.rows[i].uid].max >= 0 => gen.rows[i].num + 1 < asked[gen.rows[i].uid].max
  <2>1. \/ asked[gen.rows[i].uid].max < 0
        \/ ~(gen.rows[i].num + 1 >= asked[gen.rows[i].uid].max)
    BY <1>1 DEF Finishing, Unlimited
  <2>2. gen.rows[i] \in GenRecords /\ gen.rows[i].uid \in DOMAIN asked /\ asked \in Seq(AskedRecords)
    BY Batched DEF Inv, Typed
  <2>3. gen.rows[i].num \in Nat /\ asked[gen.rows[i].uid].max \in Nat \cup {-1}
    BY <2>2, AskedProperties DEF GenRecords
  <2> QED BY <2>1, <2>3
<1>3. PICK k \in DOMAIN decoding.rows : decoding.rows[k].uid = gen.rows[i].uid
  <2>1. gen.rows[i].uid \in Uids(decoding.rows)
    BY Batched DEF DecodedFrom
  <2> QED BY <2>1 DEF Uids
<1>4. PICK j \in DOMAIN gen.rows : decoding.rows[k] = OneMore(gen.rows[j])
  BY DEF DecodedFrom
<1>5. j = i
  <2>1. OneRow(gen.rows)
    BY DEF Inv, Typed, Good
  <2> QED BY <1>3, <1>4, <2>1 DEF OneRow, OneMore
<1> QED BY <1>2, <1>4, <1>5

(* What is then seen of it. *)
LEMMA DecodingSeen ==
  ASSUME Inv, Inv', NEW decoding, NEW stops, DecodedFrom(decoding, stops),
         asked' = asked, ended' = ended \cup EndedBy(stops), Taken(decoding.rows, gen'.rows),
         NEW u, NEW i \in DOMAIN gen.rows, gen.rows[i].uid = u
  PROVE  GoesOn(Shown(u), Shown(u)')
<1>1. PICK row : row = gen.rows[i] /\ row.uid = u
  OBVIOUS
<1>2. Shown(u) = Seen("decoding", AskedOf(u), row.held, row.num)
  BY <1>1, ViewOf DEF View
<1>3. AskedOf(u)' = AskedOf(u)
  BY DEF AskedOf
<1>4. CASE u \in EndedBy(stops)
  <2>1. u \in ended'
    BY <1>4
  <2>2. Shown(u)' = Seen("ended", AskedOf(u)', 0, 0)
    BY <2>1, ViewNext DEF View, Seen
  <2>3. Ends(Shown(u), Shown(u)')
    BY <1>2, <1>3, <2>2 DEF Ends, Seen
  <2> QED BY <1>1, <2>3 DEF GoesOn
<1>5. CASE u \notin EndedBy(stops)
  <2>1. PICK k \in DOMAIN decoding.rows : decoding.rows[k] = OneMore(row)
    BY <1>1, <1>5, DecodedOrEnded
  <2>2. asked[u].max >= 0 => row.num + 1 < asked[u].max
    BY <1>1, <1>5, DecodedOrEnded
  <2>3. PICK l \in DOMAIN gen'.rows : gen'.rows[l] = OneMore(row)
    BY <2>1 DEF Taken
  <2>4. gen'.rows[l].uid = u /\ gen'.rows[l].held = row.held + 1 /\ gen'.rows[l].num = row.num + 1
    BY <1>1, <2>3 DEF OneMore
  <2>5. Shown(u)' = Seen("decoding", AskedOf(u)', row.held + 1, row.num + 1)
    <3>1. Shown(u)' = Seen("decoding", AskedOf(u)', gen'.rows[l].held, gen'.rows[l].num)
      BY <2>4, ViewNext DEF View, Seen
    <3> QED BY <2>4, <3>1
  <2>6. Emits(Shown(u), Shown(u)')
    BY <1>2, <1>3, <2>2, <2>5 DEF Emits, Seen, AskedOf
  <2> QED BY <1>1, <2>6 DEF GoesOn
<1> QED BY <1>4, <1>5

(* A call that only decodes. *)
LEMMA DecodeOnlySeen ==
  ASSUME Inv, Inv', NEW u, NEW stops, DecodeOnly(stops)
  PROVE  GoesOn(Shown(u), Shown(u)')
<1>1. PICK decoding : /\ decoding = AfterDecode(stops)
                      /\ \/ UNCHANGED <<gen, ended>>
                         \/ gen' = decoding /\ ended' = ended \cup EndedBy(stops)
                      /\ UNCHANGED <<asked, unprocessed, processing, prompt>>
  BY DEF DecodeOnly
<1>2. CASE UNCHANGED <<gen, ended>>
  BY <1>1, <1>2, NothingSeen
<1>3. CASE gen' = decoding /\ ended' = ended \cup EndedBy(stops)
  <2>1. DecodedFrom(decoding, stops)
    BY <1>1, DecodeKept DEF Inv, Typed
  <2>2. Taken(decoding.rows, gen'.rows)
    BY <1>3 DEF Taken
  <2>3. ASSUME NEW i \in DOMAIN gen.rows, gen.rows[i].uid = u PROVE GoesOn(Shown(u), Shown(u)')
    BY <1>1, <1>3, <2>1, <2>2, <2>3, DecodingSeen
  <2>4. CASE \A i \in DOMAIN gen.rows : gen.rows[i].uid # u
    <3>1. Shown(u)' = Shown(u)
      BY <1>1, <1>3, <2>4, Stays
    <3> QED BY <3>1 DEF GoesOn
  <2> QED BY <2>3, <2>4
<1> QED BY <1>1, <1>2, <1>3

(* The generation batch has all the rows that went on and all that started. *)
LEMMA JoinedTaken ==
  ASSUME NEW g, NEW decoding, NEW starting, NEW started, GenJoined(g, decoding, starting, started),
         Uids(decoding.rows) \cap Uids(starting.rows) = {}, Uids(started.rows) = Uids(starting.rows),
         OneRow(decoding.rows), OneRow(started.rows)
  PROVE  Taken(decoding.rows, g.rows) /\ Taken(started.rows, g.rows)
<1>1. ASSUME NEW k \in DOMAIN decoding.rows
      PROVE  \E l \in DOMAIN g.rows : decoding.rows[k] = g.rows[l]
  <2>1. decoding.rows[k].uid \in Uids(decoding.rows)
    BY DEF Uids
  <2>2. PICK l \in DOMAIN g.rows : g.rows[l].uid = decoding.rows[k].uid
    BY <2>1 DEF GenJoined, Uids
  <2>3. ASSUME NEW j \in DOMAIN started.rows, g.rows[l] = started.rows[j] PROVE FALSE
    <3>1. started.rows[j].uid \in Uids(started.rows)
      BY DEF Uids
    <3> QED BY <2>1, <2>2, <2>3, <3>1
  <2>4. PICK j \in DOMAIN decoding.rows : g.rows[l] = decoding.rows[j]
    BY <2>3 DEF GenJoined
  <2>5. j = k
    BY <2>2, <2>4 DEF OneRow
  <2> QED BY <2>4, <2>5
<1>2. ASSUME NEW k \in DOMAIN started.rows
      PROVE  \E l \in DOMAIN g.rows : started.rows[k] = g.rows[l]
  <2>1. started.rows[k].uid \in Uids(starting.rows)
    BY DEF Uids
  <2>6. started.rows[k].uid \in Uids(g.rows)
    BY <2>1 DEF GenJoined
  <2>2. PICK l \in DOMAIN g.rows : g.rows[l].uid = started.rows[k].uid
    BY <2>6 DEF Uids
  <2>3. ASSUME NEW j \in DOMAIN decoding.rows, g.rows[l] = decoding.rows[j] PROVE FALSE
    <3>1. decoding.rows[j].uid \in Uids(decoding.rows)
      BY DEF Uids
    <3> QED BY <2>1, <2>2, <2>3, <3>1
  <2>4. PICK j \in DOMAIN started.rows : g.rows[l] = started.rows[j]
    BY <2>3 DEF GenJoined
  <2>5. j = k
    BY <2>2, <2>4 DEF OneRow
  <2> QED BY <2>4, <2>5
<1> QED BY <1>1, <1>2 DEF Taken

(* What is seen of a sequence whose prompt is, or begins to be, processed. *)
LEMMA InPromptSeen ==
  ASSUME Inv, NEW batch, NEW work, NEW uids, AdmittedTo(batch, work, uids),
         In(uids) \subseteq In(unprocessed), NEW i \in DOMAIN batch.rows
  PROVE  \E stage \in {"waiting", "prompt"} :
           Shown(batch.rows[i].uid)
             = Seen(stage, AskedOf(batch.rows[i].uid), batch.rows[i].held, 0)
<1>1. View
  BY ViewOf
<1>2. ASSUME NEW j \in DOMAIN prompt.rows, batch.rows[i] = prompt.rows[j]
      PROVE  Shown(batch.rows[i].uid)
               = Seen("prompt", AskedOf(batch.rows[i].uid), batch.rows[i].held, 0)
  BY <1>1, <1>2 DEF View
<1>3. ASSUME NEW u \in In(uids), batch.rows[i] = [uid |-> u, held |-> asked[u].held]
      PROVE  Shown(batch.rows[i].uid)
               = Seen("waiting", AskedOf(batch.rows[i].uid), batch.rows[i].held, 0)
  <2>1. batch.rows[i].uid = u /\ batch.rows[i].held = asked[u].held /\ u \in In(unprocessed)
    BY <1>3
  <2> QED BY <1>1, <2>1 DEF View
<1>4. \/ \E j \in DOMAIN prompt.rows : batch.rows[i] = prompt.rows[j]
      \/ \E u \in In(uids) : batch.rows[i] = [uid |-> u, held |-> asked[u].held]
  BY DEF AdmittedTo
<1> QED BY <1>2, <1>3, <1>4

(* A sequence whose prompt is down to its last token starts to decode. *)
LEMMA StartSeen ==
  ASSUME Inv, Inv',
         NEW stops, NEW decoding, NEW selected, NEW uids, NEW batch, NEW work, NEW starting,
         NEW rest, NEW started, NEW still,
         NextParts(stops, decoding, selected, uids, batch, work, starting, rest, started, still),
         asked' = asked, Taken(started.rows, gen'.rows),
         NEW u, NEW i \in Ready(work), batch.rows[i].uid = u
  PROVE  GoesOn(Shown(u), Shown(u)')
<1>1. /\ i \in DOMAIN batch.rows /\ batch.rows[i].uid \in DOMAIN asked
      /\ work[i] \in WorkRecords /\ Aligned(batch.rows[i], work[i])
  BY PartsCut
<1>2. asked \in Seq(AskedRecords)
  BY DEF Inv, Typed
<1>3. batch.rows[i].held + 1 = asked[u].held + AllOf(u)
  <2>1. work[i].segments = << 1 >>
    BY DEF Ready
  <2> QED BY <1>1, <1>2, <2>1, ReadyAligned
<1>4. AllIn(AskedOf(u)) = asked[u].held + AllOf(u)
  BY DEF AllIn, AskedOf, AllOf
<1>5. PICK stage \in {"waiting", "prompt"} :
        Shown(u) = Seen(stage, AskedOf(u), batch.rows[i].held, 0)
  <2>1. AdmittedTo(batch, work, uids) /\ In(uids) \subseteq In(unprocessed)
    BY DEF NextParts
  <2> QED BY <1>1, <2>1, InPromptSeen
<1>6. PICK k \in DOMAIN started.rows : started.rows[k].uid = u
  <2>1. u \in Uids(starting.rows)
    BY <1>1 DEF NextParts, StartedFrom
  <2>2. Uids(started.rows) = Uids(starting.rows)
    BY StartedDecodes
  <2> QED BY <2>1, <2>2 DEF Uids
<1>7. /\ started.rows[k] \in GenRecords /\ started.rows[k].num = 0
      /\ Decodes(started.rows[k])
  <2>1. Good(started, GenRecords) /\ started.rows[k].num = 0 /\ Decodes(started.rows[k])
    BY StartedDecodes
  <2> QED BY <2>1 DEF Good, Records
<1>8. asked[u].held \in Nat /\ AllOf(u) \in Nat
  BY <1>1, <1>2, AskedProperties
<1>9. started.rows[k].held = AllIn(AskedOf(u))
  BY <1>4, <1>6, <1>7, <1>8 DEF Decodes
<1>10. PICK l \in DOMAIN gen'.rows : gen'.rows[l] = started.rows[k]
  BY <1>6 DEF Taken
<1>11. Shown(u)' = Seen("decoding", AskedOf(u), AllIn(AskedOf(u)), 0)
  <2>1. Shown(u)' = Seen("decoding", AskedOf(u)', gen'.rows[l].held, gen'.rows[l].num)
    BY <1>6, <1>10, ViewNext DEF View, Seen
  <2>2. AskedOf(u)' = AskedOf(u)
    BY DEF AskedOf
  <2> QED BY <1>7, <1>9, <1>10, <2>1, <2>2
<1>12. batch.rows[i].held = AllIn(AskedOf(u)) - 1
  <2>1. batch.rows[i].held \in Nat
    BY <1>1, PartsCut DEF PromptRecords
  <2> QED BY <1>3, <1>4, <1>8, <2>1
<1>13. Starts(Shown(u), Shown(u)')
  BY <1>5, <1>11, <1>12 DEF Starts, Seen
<1> QED BY <1>13 DEF GoesOn

(* The others get a chunk. *)
LEMMA ChunkSeen ==
  ASSUME Inv, Inv',
         NEW stops, NEW decoding, NEW selected, NEW uids, NEW batch, NEW work, NEW starting,
         NEW rest, NEW started, NEW still,
         NextParts(stops, decoding, selected, uids, batch, work, starting, rest, started, still),
         asked' = asked, FedFrom(prompt', processing', still, rest),
         NEW u, NEW i \in Rest(work), batch.rows[i].uid = u
  PROVE  GoesOn(Shown(u), Shown(u)')
<1>1. /\ i \in DOMAIN batch.rows /\ batch.rows[i].uid \in DOMAIN asked
      /\ work[i] \in WorkRecords /\ Aligned(batch.rows[i], work[i])
  BY PartsCut
<1>2. asked \in Seq(AskedRecords)
  BY DEF Inv, Typed
<1>3. work[i].segments # << 1 >>
  BY <1>1, PartsCut DEF Rest, Ready
<1>4. PICK r : r = AskedOf(u)
  OBVIOUS
<1>5. /\ batch.rows[i].held < AllIn(r) - 1
      /\ batch.rows[i].held + Chunk(work[i]) = NextStop(r, batch.rows[i].held)
  <2>1. PICK row, w : row = batch.rows[i] /\ w = work[i]
    OBVIOUS
  <2>2. /\ row.uid \in DOMAIN asked /\ w \in WorkRecords /\ Aligned(row, w)
        /\ w.segments # << 1 >> /\ r = AskedOf(row.uid)
    BY <1>1, <1>3, <1>4, <2>1
  <2>3. /\ row.held < AllIn(r) - 1
        /\ row.held + Chunk(w) = NextStop(r, row.held)
    BY <1>2, <2>2, ChunkIsNext
  <2> QED BY <2>1, <2>3
<1>6. PICK stage \in {"waiting", "prompt"} :
        Shown(u) = Seen(stage, r, batch.rows[i].held, 0)
  <2>1. AdmittedTo(batch, work, uids) /\ In(uids) \subseteq In(unprocessed)
    BY DEF NextParts
  <2> QED BY <1>1, <1>4, <2>1, InPromptSeen
<1>7. PICK k \in DOMAIN still.rows : still.rows[k].uid = u
  <2>1. u \in Uids(still.rows)
    BY <1>1 DEF NextParts, StillFrom
  <2> QED BY <2>1 DEF Uids
<1>8. still.rows[k] = batch.rows[i] /\ rest[k] = work[i]
  <2>1. PICK j \in Rest(work) : still.rows[k] = batch.rows[j] /\ rest[k] = work[j]
    BY DEF NextParts, StillFrom
  <2>2. j \in DOMAIN batch.rows
    BY PartsCut
  <2>3. OneRow(batch.rows)
    BY DEF NextParts, AdmittedTo, Good
  <2>4. j = i
    BY <1>1, <1>7, <2>1, <2>2, <2>3 DEF OneRow
  <2> QED BY <2>1, <2>4
<1>9. /\ k \in DOMAIN prompt'.rows /\ prompt'.rows[k].uid = u
      /\ prompt'.rows[k].held = batch.rows[i].held + Chunk(work[i])
  BY <1>7, <1>8 DEF FedFrom
<1>10. Shown(u)' = Seen("prompt", r, batch.rows[i].held + Chunk(work[i]), 0)
  <2>1. Shown(u)' = Seen("prompt", AskedOf(u)', prompt'.rows[k].held, 0)
    BY <1>9, ViewNext DEF View, Seen
  <2>2. AskedOf(u)' = AskedOf(u)
    BY DEF AskedOf
  <2> QED BY <1>4, <1>9, <2>1, <2>2
<1>11. Prefills(Shown(u), Shown(u)')
  BY <1>5, <1>6, <1>10 DEF Prefills, Seen
<1> QED BY <1>11 DEF GoesOn

(* A call that decodes, admits, starts and prefills. *)
LEMMA PrefillSeen ==
  ASSUME Inv, Inv', NEW u, NEW stops, DecodeAndPrefill(stops)
  PROVE  GoesOn(Shown(u), Shown(u)')
<1>1. CASE raised' # "no"
  <2>1. UNCHANGED <<asked, ended, unprocessed, prompt, gen>>
    BY <1>1 DEF DecodeAndPrefill
  <2> QED BY <2>1, NothingSeen
<1>2. CASE raised' = "no"
  <2>1. PICK decoding, selected, uids, batch, work, starting, rest, started, still :
           /\ NextParts(stops, decoding, selected, uids, batch, work, starting, rest, started, still)
           /\ AfterPrefill(stops, decoding, uids, starting, rest, started, still)
    BY <1>2, Prefilled
  <2>2. NextParts(stops, decoding, selected, uids, batch, work, starting, rest, started, still)
    BY <2>1
  <2>3. /\ asked' = asked /\ ended' = ended \cup EndedBy(stops)
        /\ In(unprocessed') = In(unprocessed) \ In(uids)
        /\ GenJoined(gen', decoding, starting, started)
        /\ FedFrom(prompt', processing', still, rest)
    BY <2>1 DEF AfterPrefill
  <2>4. /\ Ready(work) \cup Rest(work) = DOMAIN batch.rows
        /\ Uids(batch.rows) = Uids(prompt.rows) \cup In(uids)
        /\ Uids(starting.rows) \subseteq Uids(batch.rows)
    BY <2>2, PartsCut
  <2>5. /\ DecodedFrom(decoding, stops) /\ OneRow(decoding.rows)
        /\ Uids(decoding.rows) \subseteq Uids(gen.rows) /\ In(uids) \subseteq In(unprocessed)
    BY <2>2 DEF NextParts, DecodedFrom, Good
  <2>6. /\ In(unprocessed) \cap Uids(gen.rows) = {}
        /\ Uids(prompt.rows) \cap Uids(gen.rows) = {}
    BY DEF Inv, Staged
  <2>7. Taken(decoding.rows, gen'.rows) /\ Taken(started.rows, gen'.rows)
    <3>1. Uids(started.rows) = Uids(starting.rows) /\ OneRow(started.rows)
      BY <2>2, StartedDecodes DEF Good
    <3>2. Uids(decoding.rows) \cap Uids(starting.rows) = {}
      BY <2>4, <2>5, <2>6
    <3> QED BY <2>3, <2>5, <3>1, <3>2, JoinedTaken
  <2>8. ASSUME NEW i \in DOMAIN gen.rows, gen.rows[i].uid = u PROVE GoesOn(Shown(u), Shown(u)')
    BY <2>3, <2>5, <2>7, <2>8, DecodingSeen
  <2>9. ASSUME NEW i \in DOMAIN batch.rows, batch.rows[i].uid = u PROVE GoesOn(Shown(u), Shown(u)')
    <3>1. CASE i \in Ready(work)
      BY <2>2, <2>3, <2>7, <2>9, <3>1, StartSeen
    <3>2. CASE i \in Rest(work)
      BY <2>2, <2>3, <2>9, <3>2, ChunkSeen
    <3> QED BY <2>4, <2>9, <3>1, <3>2
  <2>10. CASE u \notin Uids(gen.rows) /\ u \notin Uids(batch.rows)
    <3>1. /\ \A i \in DOMAIN prompt.rows : prompt.rows[i].uid # u
          /\ \A i \in DOMAIN gen.rows : gen.rows[i].uid # u
          /\ u \notin In(uids)
      BY <2>4, <2>10 DEF Uids
    <3>2. Shown(u)' = Shown(u)
      BY <2>3, <3>1, Stays
    <3> QED BY <3>2 DEF GoesOn
  <2> QED BY <2>8, <2>9, <2>10 DEF Uids
<1> QED BY <1>1, <1>2

(* Every step lets every sequence go on as if it were alone. *)
LEMMA EachGoesOn ==
  ASSUME Inv, Inv', [Next]_vars, NEW u
  PROVE  GoesOn(Shown(u), Shown(u)')
<1>1. ASSUME NEW s \in Segmentings, NEW m \in MaxTokens, NEW c \in Caches, NEW p \in Processors,
             Insert(s, m, c, p)
      PROVE  GoesOn(Shown(u), Shown(u)')
  BY <1>1, InsertSeen
<1>2. ASSUME NEW uid \in DOMAIN asked, RemoveSequence(uid) PROVE GoesOn(Shown(u), Shown(u)')
  BY <1>2, RemoveSeen
<1>3. ASSUME NEW stops, DecodeOnly(stops) \/ DecodeAndPrefill(stops)
      PROVE  GoesOn(Shown(u), Shown(u)')
  BY <1>3, DecodeOnlySeen, PrefillSeen
<1>4. CASE UNCHANGED vars
  BY <1>4, NothingSeen DEF vars
<1> QED BY <1>1, <1>2, <1>3, <1>4 DEF Next, CallNext

(* At first there is nobody. *)
LEMMA AloneInit == Init => Alone!Init
<1> SUFFICES ASSUME Init PROVE Alone!Init
  OBVIOUS
<1>1. \A u \in Ids : /\ Stage(u) = "absent" /\ Held(u) = 0 /\ Produced(u) = 0
                     /\ Request(u) = [segments |-> <<>>, held |-> 0, max |-> 0]
  <2>1. SUFFICES ASSUME NEW u \in Ids
                 PROVE  /\ Stage(u) = "absent" /\ Held(u) = 0 /\ Produced(u) = 0
                        /\ Request(u) = [segments |-> <<>>, held |-> 0, max |-> 0]
    OBVIOUS
  <2>2. DOMAIN asked = {}
    BY DEF Init
  <2>3. Stage(u) = "absent"
    BY <2>2 DEF Stage
  <2> QED BY <2>3 DEF Held, Produced, Request
<1> QED BY <1>1 DEF Alone!Init, Alone!NoRequest

(* The generator behaves, for each of its sequences, like SingleRequest:    *)
(* chunk by chunk up to the segment boundaries, then token by token up to   *)
(* max_tokens, whatever is admitted, filtered or removed beside it.         *)
THEOREM Implements == Spec => EachAsIfAlone
<1>1. Inv /\ Inv' /\ [Next]_vars => Alone!Next /\ Alone!Kept'
  <2>1. SUFFICES ASSUME Inv, Inv', [Next]_vars PROVE Alone!Next /\ Alone!Kept'
    OBVIOUS
  <2>2. \A u \in Ids : GoesOn(Shown(u), Shown(u)')
    BY <2>1, EachGoesOn
  <2>3. Alone!Next
    BY <2>2, AloneNext
  <2>4. Alone!Kept'
    BY DEF Alone!Kept
  <2> QED BY <2>3, <2>4
<1> QED BY <1>1, AloneInit, InvariantHolds, PTL DEF Spec, EachAsIfAlone, Alone!Spec

==============================================================================
