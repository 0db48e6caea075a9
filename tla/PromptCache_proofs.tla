-------------------------- MODULE PromptCache_proofs --------------------------
(***************************************************************************)
(* The prompt cache: its types, the agreement of orders and trie, the shape *)
(* of the trie and what a lookup finds in it, its limits, its byte counters   *)
(* and what leaves it.                                                      *)
(***************************************************************************)
EXTENDS PromptCache, SequencesExt, Integers, TLAPS, FiniteSetTheorems, NaturalsInduction,
        WellFoundedInduction, SequenceTheorems

----------------------------------------
(* What the proofs need of naturals, finite sets and sums. *)

(* A set that has 0 and with every natural the next one has them all. *)
LEMMA SetInduction ==
  ASSUME NEW S, 0 \in S, \A n \in Nat : n \in S => n + 1 \in S
  PROVE  Nat \subseteq S
<1> SUFFICES ASSUME Nat \ S # {} PROVE FALSE
  OBVIOUS
<1>1. PICK x \in Nat \ S : \A y \in Nat \ S : ~(<<y, x>> \in OpToRel(<, Nat))
  <2>1. Nat \ S \subseteq Nat
    OBVIOUS
  <2> QED BY <2>1, NatLessThanWellFounded, WFMin, Zenon
<1>2. x # 0 /\ x - 1 \in Nat /\ x - 1 < x /\ x - 1 + 1 = x
  BY SMT
<1>3. x - 1 \in S
  <2>1. SUFFICES ASSUME x - 1 \notin S PROVE FALSE
    OBVIOUS
  <2>2. x - 1 \in Nat \ S
    BY <1>2, <2>1
  <2>3. <<x - 1, x>> \in OpToRel(<, Nat)
    <3>1. <<x - 1, x>> \in Nat \X Nat /\ <<x - 1, x>>[1] = x - 1 /\ <<x - 1, x>>[2] = x
      BY <1>2
    <3> QED BY <3>1, <1>2, Zenon DEF OpToRel
  <2> QED BY <1>1, <2>2, <2>3, Zenon
<1> QED BY <1>2, <1>3

(* A bounded set of naturals has a greatest element, and Max is it. *)
LEMMA MaxIsGreatest ==
  ASSUME NEW S \in SUBSET Nat, S # {}, NEW b \in Nat, \A x \in S : x <= b
  PROVE  Max(S) \in S /\ \A y \in S : Max(S) >= y
<1> DEFINE Gaps == {g \in Nat : \E x \in S : g = b - x}
<1>1. Gaps \in SUBSET Nat /\ Gaps # {}
  <2>1. \A x \in S : b - x \in Nat
    OBVIOUS
  <2> QED BY <2>1
<1>2. PICK g \in Gaps : \A e \in Gaps : ~(<<e, g>> \in OpToRel(<, Nat))
  <2> HIDE DEF Gaps
  <2> QED BY <1>1, NatLessThanWellFounded, WFMin, Zenon
<1>3. PICK x \in S : g = b - x
  <2>1. g \in Gaps
    BY <1>2, Zenon
  <2> QED BY <2>1
<1>4. ASSUME NEW y \in S PROVE x >= y
  <2>1. b - y \in Gaps /\ b - y \in Nat /\ b - x \in Nat
    OBVIOUS
  <2>2. <<b - y, b - x>> \in Nat \X Nat /\ <<b - y, b - x>>[1] = b - y
        /\ <<b - y, b - x>>[2] = b - x
    BY <2>1
  <2>3. ~(<<b - y, b - x>> \in OpToRel(<, Nat))
    BY <1>2, <1>3, <2>1, Zenon
  <2>4. ~(b - y < b - x)
    BY <2>2, <2>3, Zenon DEF OpToRel
  <2> QED BY <2>4
<1>5. \E z \in S : \A y \in S : z >= y
  BY <1>4
<1> QED BY <1>5, Zenon DEF Max

(* The least of two. *)
LEMMA LeastOfTwo ==
  ASSUME NEW a \in Int, NEW b \in Int
  PROVE  Min({a, b}) = IF a <= b THEN a ELSE b
<1>1. \E x \in {a, b} : \A y \in {a, b} : x =< y
  OBVIOUS
<1>2. Min({a, b}) \in {a, b} /\ \A y \in {a, b} : Min({a, b}) =< y
  BY <1>1, Zenon DEF Min
<1> QED BY <1>2

(* The recursive function SumFunction is defined by. *)
FirstOf(s) == CHOOSE x \in s : TRUE

SumStep(f, sum, s) == IF s = {} THEN 0 ELSE f[FirstOf(s)] + sum[s \ {FirstOf(s)}]

LEMMA FirstOfProperties ==
  ASSUME NEW s, s # {}
  PROVE  FirstOf(s) \in s
BY DEF FirstOf

(* The subsets of at most n elements. *)
UpTo(D, n) == {s \in SUBSET D : Cardinality(s) <= n}

(* The sizes of a finite set and of the set without an element. *)
LEMMA SizeWithout ==
  ASSUME NEW D, IsFiniteSet(D), NEW s \in SUBSET D
  PROVE  /\ IsFiniteSet(s) /\ Cardinality(s) \in Nat /\ Cardinality(s) <= Cardinality(D)
         /\ Cardinality(s) = 0 <=> s = {}
         /\ \A x \in s : Cardinality(s \ {x}) = Cardinality(s) - 1 /\ s \ {x} \in SUBSET D
<1>1. IsFiniteSet(s) /\ Cardinality(s) <= Cardinality(D)
  BY FS_Subset
<1>2. Cardinality(s) \in Nat
  BY <1>1, FS_CardinalityType
<1>3. Cardinality(s) = 0 <=> s = {}
  BY <1>1, FS_EmptySet
<1>4. \A x \in s : Cardinality(s \ {x}) = Cardinality(s) - 1
  BY <1>1, FS_RemoveElement
<1> QED BY <1>1, <1>2, <1>3, <1>4

(* That function exists, by induction on the size of the subsets. *)
LEMMA SumExists ==
  ASSUME NEW f, IsFiniteSet(DOMAIN f)
  PROVE  \E sum : sum = [s \in SUBSET DOMAIN f |-> SumStep(f, sum, s)]
<1> DEFINE D == DOMAIN f
           Has == {n \in Nat : \E sum : sum = [s \in UpTo(D, n) |-> SumStep(f, sum, s)]}
<1>1. 0 \in Has
  <2>1. \A s \in UpTo(D, 0) : s = {}
    <3> SUFFICES ASSUME NEW s \in UpTo(D, 0) PROVE s = {}
      OBVIOUS
    <3>1. s \in SUBSET D /\ Cardinality(s) <= 0
      BY DEF UpTo
    <3>2. Cardinality(s) \in Nat /\ (Cardinality(s) = 0 <=> s = {})
      BY <3>1, SizeWithout
    <3> QED BY <3>1, <3>2
  <2> DEFINE g == [s \in UpTo(D, 0) |-> 0]
  <2>2. \A s \in UpTo(D, 0) : SumStep(f, g, s) = 0
    BY <2>1 DEF SumStep
  <2>3. g = [s \in UpTo(D, 0) |-> SumStep(f, g, s)]
    BY <2>2
  <2> HIDE DEF g
  <2> QED BY <2>3
<1>2. ASSUME NEW n \in Nat, n \in Has PROVE n + 1 \in Has
  <2>1. PICK g : g = [s \in UpTo(D, n) |-> SumStep(f, g, s)]
    BY <1>2
  <2> DEFINE h == [s \in UpTo(D, n + 1) |-> IF s \in UpTo(D, n) THEN g[s] ELSE SumStep(f, g, s)]
  <2>2. ASSUME NEW s \in UpTo(D, n + 1) PROVE h[s] = SumStep(f, h, s)
    <3>1. s \in SUBSET D /\ Cardinality(s) <= n + 1
      BY DEF UpTo
    <3>2. h[s] = SumStep(f, g, s)
      <4>1. CASE s \in UpTo(D, n)
        <5>1. g[s] = SumStep(f, g, s)
          BY <2>1, <4>1
        <5> QED BY <4>1, <5>1
      <4>2. CASE s \notin UpTo(D, n)
        BY <4>2
      <4> QED BY <4>1, <4>2
    <3>3. CASE s = {}
      BY <3>2, <3>3 DEF SumStep
    <3>4. CASE s # {}
      <4> DEFINE rest == s \ {FirstOf(s)}
      <4>1. FirstOf(s) \in s
        BY <3>4, FirstOfProperties
      <4>2. /\ Cardinality(rest) = Cardinality(s) - 1 /\ rest \in SUBSET D
            /\ Cardinality(s) \in Nat
        BY <3>1, <4>1, SizeWithout
      <4> HIDE DEF rest
      <4>3. Cardinality(rest) <= n /\ Cardinality(rest) <= n + 1
        BY <3>1, <4>2
      <4>4. rest \in UpTo(D, n) /\ rest \in UpTo(D, n + 1)
        BY <4>2, <4>3 DEF UpTo
      <4>5. h[rest] = g[rest]
        BY <4>4
      <4> HIDE DEF h
      <4>6. SumStep(f, g, s) = f[FirstOf(s)] + g[rest] /\ SumStep(f, h, s) = f[FirstOf(s)] + h[rest]
        BY <3>4 DEF SumStep, rest
      <4> QED BY <3>2, <4>5, <4>6
    <3> QED BY <3>3, <3>4
  <2>3. h = [s \in UpTo(D, n + 1) |-> SumStep(f, h, s)]
    <3>1. h = [s \in UpTo(D, n + 1) |-> h[s]]
      OBVIOUS
    <3> HIDE DEF h
    <3> QED BY <2>2, <3>1, Zenon
  <2>4. n + 1 \in Nat
    OBVIOUS
  <2> HIDE DEF h
  <2> QED BY <2>3, <2>4, Zenon
<1>3. Nat \subseteq Has
  <2> HIDE DEF Has
  <2> QED BY <1>1, <1>2, SetInduction
<1>4. Cardinality(D) \in Nat
  BY FS_CardinalityType
<1>5. UpTo(D, Cardinality(D)) = SUBSET D
  <2>1. \A s \in SUBSET D : Cardinality(s) <= Cardinality(D)
    BY SizeWithout
  <2> QED BY <2>1 DEF UpTo
<1>6. Cardinality(D) \in Has
  <2> HIDE DEF Has
  <2> QED BY <1>3, <1>4
<1>7. PICK sum : sum = [s \in UpTo(D, Cardinality(D)) |-> SumStep(f, sum, s)]
  BY <1>6
<1> QED BY <1>5, <1>7, Zenon

(* sum has the sums of f over the subsets of its domain. *)
SumsOf(f, sum) ==
  /\ \A s \in SUBSET DOMAIN f : sum[s] \in Int
  /\ sum[{}] = 0
  /\ \A s \in SUBSET DOMAIN f : \A x \in s : sum[s] = f[x] + sum[s \ {x}]

(* SumFunction takes any element first, not only the one it chooses. *)
LEMMA SumFunctionSums ==
  ASSUME NEW f, IsFiniteSet(DOMAIN f), \A x \in DOMAIN f : f[x] \in Int
  PROVE  \E sum : SumFunction(f) = sum[DOMAIN f] /\ SumsOf(f, sum)
<1> DEFINE D == DOMAIN f
           sum == CHOOSE sum : sum = [s \in SUBSET D |-> SumStep(f, sum, s)]
<1>1. sum = [s \in SUBSET D |-> SumStep(f, sum, s)]
  BY SumExists
<1>2. SumFunction(f) = sum[D]
  BY DEF SumFunction, SumFunctionOnSet, FoldFunctionOnSet, MapThenFoldSet, SumStep, FirstOf
<1> HIDE DEF sum
<1>3. \A s \in SUBSET D : sum[s] = SumStep(f, sum, s)
  BY <1>1
<1> DEFINE Sound(s) == /\ sum[s] \in Int
                       /\ \A x \in s : sum[s] = f[x] + sum[s \ {x}]
           Has == {n \in Nat : \A s \in UpTo(D, n) : Sound(s)}
<1>4. sum[{}] = 0
  BY <1>3 DEF SumStep
<1>5. 0 \in Has
  <2> SUFFICES ASSUME NEW s \in UpTo(D, 0) PROVE Sound(s)
    OBVIOUS
  <2>1. s \in SUBSET D /\ Cardinality(s) <= 0
    BY DEF UpTo
  <2>2. Cardinality(s) \in Nat /\ (Cardinality(s) = 0 <=> s = {})
    BY <2>1, SizeWithout
  <2>3. s = {}
    BY <2>1, <2>2
  <2> QED BY <1>4, <2>3
<1>6. ASSUME NEW n \in Nat, n \in Has PROVE n + 1 \in Has
  <2> SUFFICES ASSUME NEW s \in UpTo(D, n + 1) PROVE Sound(s)
    OBVIOUS
  <2>1. s \in SUBSET D /\ Cardinality(s) <= n + 1
    BY DEF UpTo
  <2>2. Cardinality(s) \in Nat /\ IsFiniteSet(s)
    BY <2>1, SizeWithout
  <2>3. ASSUME NEW r \in SUBSET D, Cardinality(r) <= n PROVE Sound(r)
    BY <1>6, <2>3 DEF UpTo
  <2>4. CASE s = {}
    BY <1>4, <2>4
  <2>5. CASE s # {}
    <3> DEFINE c == FirstOf(s)
    <3>1. c \in s
      BY <2>5, FirstOfProperties
    <3>2. sum[s] = f[c] + sum[s \ {c}]
      BY <1>3, <2>1, <2>5 DEF SumStep
    <3> HIDE DEF c
    <3>3. \A x \in s : Cardinality(s \ {x}) = Cardinality(s) - 1 /\ s \ {x} \in SUBSET D
      BY <2>1, SizeWithout
    <3>4. \A x \in s : Sound(s \ {x})
      <4> SUFFICES ASSUME NEW x \in s PROVE Sound(s \ {x})
        OBVIOUS
      <4>1. Cardinality(s \ {x}) <= n /\ s \ {x} \in SUBSET D
        BY <2>1, <2>2, <3>3
      <4> HIDE DEF Sound
      <4> QED BY <2>3, <4>1
    <3>5. \A x \in s : f[x] \in Int /\ sum[s \ {x}] \in Int
      BY <2>1, <3>4
    <3>6. ASSUME NEW x \in s PROVE sum[s] = f[x] + sum[s \ {x}]
      <4>1. CASE x = c
        BY <3>2, <4>1
      <4>2. CASE x # c
        <5> DEFINE both == s \ {c, x}
        <5>1. x \in s \ {c} /\ c \in s \ {x} /\ (s \ {c}) \ {x} = both /\ (s \ {x}) \ {c} = both
          BY <3>1, <4>2
        <5>2. sum[s \ {c}] = f[x] + sum[(s \ {c}) \ {x}]
          BY <3>1, <3>4, <5>1
        <5>3. sum[s \ {x}] = f[c] + sum[(s \ {x}) \ {c}]
          BY <3>4, <5>1
        <5>4. sum[(s \ {c}) \ {x}] \in Int
          <6> DEFINE r == s \ {c}
          <6>1. r \in SUBSET D /\ Cardinality(r) = Cardinality(s) - 1 /\ x \in r
            BY <3>1, <3>3, <5>1
          <6> HIDE DEF r
          <6>2. Cardinality(r \ {x}) = Cardinality(r) - 1 /\ r \ {x} \in SUBSET D
            BY <6>1, SizeWithout
          <6>3. Cardinality(r \ {x}) <= n
            BY <2>1, <2>2, <6>1, <6>2
          <6>4. sum[r \ {x}] \in Int
            BY <2>3, <6>2, <6>3
          <6> QED BY <6>4 DEF r
        <5> HIDE DEF both
        <5>5. sum[s \ {c}] = f[x] + sum[both] /\ sum[s \ {x}] = f[c] + sum[both] /\ sum[both] \in Int
          BY <5>1, <5>2, <5>3, <5>4
        <5>6. f[x] \in Int /\ f[c] \in Int
          BY <3>1, <3>5
        <5> QED BY <3>2, <5>5, <5>6
      <4> QED BY <4>1, <4>2
    <3>7. sum[s] \in Int
      BY <3>1, <3>2, <3>5
    <3> QED BY <3>6, <3>7
  <2> QED BY <2>4, <2>5
<1>7. Nat \subseteq Has
  <2> HIDE DEF Has
  <2> QED BY <1>5, <1>6, SetInduction
<1>8. Cardinality(D) \in Nat
  BY FS_CardinalityType
<1>9. \A s \in SUBSET D : s \in UpTo(D, Cardinality(D))
  BY SizeWithout DEF UpTo
<1>10. \A s \in SUBSET D : Sound(s)
  <2> HIDE DEF Sound
  <2> QED BY <1>7, <1>8, <1>9
<1>11. SumsOf(f, sum)
  BY <1>4, <1>10 DEF SumsOf
<1> QED BY <1>2, <1>11

(* Functions that agree on a set have the same sum over it. *)
LEMMA SumsAgree ==
  ASSUME NEW f, NEW g, NEW fsum, NEW gsum, SumsOf(f, fsum), SumsOf(g, gsum),
         NEW D, IsFiniteSet(D), D \subseteq DOMAIN f, D \subseteq DOMAIN g,
         \A x \in D : f[x] = g[x]
  PROVE  fsum[D] = gsum[D]
<1> DEFINE Has == {n \in Nat : \A s \in UpTo(D, n) : fsum[s] = gsum[s]}
<1>1. ASSUME NEW s, s = {} PROVE fsum[s] = gsum[s]
  BY <1>1 DEF SumsOf
<1>2. 0 \in Has
  <2> SUFFICES ASSUME NEW s \in UpTo(D, 0) PROVE fsum[s] = gsum[s]
    OBVIOUS
  <2>1. s \in SUBSET D /\ Cardinality(s) <= 0
    BY DEF UpTo
  <2>2. Cardinality(s) \in Nat /\ (Cardinality(s) = 0 <=> s = {})
    BY <2>1, SizeWithout
  <2> QED BY <1>1, <2>1, <2>2
<1>3. ASSUME NEW n \in Nat, n \in Has PROVE n + 1 \in Has
  <2> SUFFICES ASSUME NEW s \in UpTo(D, n + 1) PROVE fsum[s] = gsum[s]
    OBVIOUS
  <2>1. s \in SUBSET D /\ Cardinality(s) <= n + 1
    BY DEF UpTo
  <2>2. CASE s # {}
    <3>1. PICK x : x \in s
      BY <2>2
    <3>2. /\ Cardinality(s \ {x}) = Cardinality(s) - 1 /\ s \ {x} \in SUBSET D
          /\ Cardinality(s) \in Nat
      BY <2>1, <3>1, SizeWithout
    <3>3. s \ {x} \in UpTo(D, n)
      BY <2>1, <3>2 DEF UpTo
    <3>4. fsum[s \ {x}] = gsum[s \ {x}]
      BY <1>3, <3>3
    <3>5. fsum[s] = f[x] + fsum[s \ {x}] /\ gsum[s] = g[x] + gsum[s \ {x}]
      BY <2>1, <3>1 DEF SumsOf
    <3> QED BY <2>1, <3>1, <3>4, <3>5
  <2> QED BY <1>1, <2>2
<1>4. Nat \subseteq Has
  <2> HIDE DEF Has
  <2> QED BY <1>2, <1>3, SetInduction
<1>5. Cardinality(D) \in Nat
  BY FS_CardinalityType
<1>6. D \in UpTo(D, Cardinality(D))
  BY SizeWithout DEF UpTo
<1> QED BY <1>4, <1>5, <1>6

(* A sum is that of the function without an element, and what it has there. *)
Without(f, x) == [k \in DOMAIN f \ {x} |-> f[k]]

LEMMA SumWithout ==
  ASSUME NEW f, IsFiniteSet(DOMAIN f), \A k \in DOMAIN f : f[k] \in Int, NEW x \in DOMAIN f
  PROVE  /\ SumFunction(f) = f[x] + SumFunction(Without(f, x))
         /\ SumFunction(f) \in Int /\ SumFunction(Without(f, x)) \in Int
<1> DEFINE g == Without(f, x)
           D == DOMAIN f \ {x}
<1>1. DOMAIN g = D /\ \A k \in D : g[k] = f[k] /\ g[k] \in Int
  BY DEF Without
<1>2. IsFiniteSet(D)
  BY FS_RemoveElement
<1> HIDE DEF g
<1>3. PICK fsum : SumFunction(f) = fsum[DOMAIN f] /\ SumsOf(f, fsum)
  BY SumFunctionSums
<1>4. PICK gsum : SumFunction(g) = gsum[DOMAIN g] /\ SumsOf(g, gsum)
  BY <1>1, <1>2, SumFunctionSums
<1>5. fsum[D] = gsum[D]
  <2>1. D \subseteq DOMAIN f /\ D \subseteq DOMAIN g /\ \A k \in D : f[k] = g[k]
    BY <1>1
  <2> HIDE DEF D
  <2> QED BY <1>2, <1>3, <1>4, <2>1, SumsAgree
<1>6. fsum[DOMAIN f] = f[x] + fsum[D] /\ fsum[DOMAIN f] \in Int /\ fsum[D] \in Int
  BY <1>3 DEF SumsOf
<1> QED BY <1>1, <1>3, <1>4, <1>5, <1>6 DEF g

LEMMA SumOfNone ==
  ASSUME NEW f, DOMAIN f = {}
  PROVE  SumFunction(f) = 0
<1>1. IsFiniteSet(DOMAIN f) /\ \A k \in DOMAIN f : f[k] \in Int
  BY FS_EmptySet
<1>2. PICK sum : SumFunction(f) = sum[DOMAIN f] /\ SumsOf(f, sum)
  BY <1>1, SumFunctionSums
<1> QED BY <1>2 DEF SumsOf

LEMMA SumType ==
  ASSUME NEW f, IsFiniteSet(DOMAIN f), \A k \in DOMAIN f : f[k] \in Int
  PROVE  SumFunction(f) \in Int
<1>1. PICK sum : SumFunction(f) = sum[DOMAIN f] /\ SumsOf(f, sum)
  BY SumFunctionSums
<1> QED BY <1>1 DEF SumsOf

(* The sequence with the element at i taken out, index by index. *)
LEMMA RemoveAtElements ==
  ASSUME NEW S, NEW s \in Seq(S), NEW i \in 1..Len(s)
  PROVE  /\ RemoveAt(s, i) \in Seq(S)
         /\ Len(RemoveAt(s, i)) = Len(s) - 1
         /\ \A j \in 1..(Len(s) - 1) :
              RemoveAt(s, i)[j] = IF j < i THEN s[j] ELSE s[j + 1]
<1> DEFINE left == SubSeq(s, 1, i - 1)
           right == SubSeq(s, i + 1, Len(s))
<1>1. /\ left \in Seq(S)
      /\ Len(left) = i - 1
      /\ \A j \in 1..(i - 1) : left[j] = s[j]
  OBVIOUS
<1>2. /\ right \in Seq(S)
      /\ Len(right) = Len(s) - i
      /\ \A j \in 1..(Len(s) - i) : right[j] = s[i + j]
  OBVIOUS
<1>3. RemoveAt(s, i) = left \o right
  BY DEF RemoveAt
<1> HIDE DEF left, right
<1>4. /\ left \o right \in Seq(S)
      /\ Len(left \o right) = Len(left) + Len(right)
      /\ \A j \in 1..(Len(left) + Len(right)) :
           (left \o right)[j] = IF j <= Len(left) THEN left[j]
                               ELSE right[j - Len(left)]
  BY <1>1, <1>2, ConcatProperties
<1>5. ASSUME NEW j \in 1..(Len(s) - 1)
      PROVE  RemoveAt(s, i)[j] = IF j < i THEN s[j] ELSE s[j + 1]
  <2>1. CASE j < i
    BY <2>1, <1>1, <1>2, <1>3, <1>4
  <2>2. CASE ~(j < i)
    <3>1. j - (i - 1) \in 1..(Len(s) - i) /\ i + (j - (i - 1)) = j + 1
      BY <2>2
    <3>2. right[j - (i - 1)] = s[j + 1]
      BY <3>1, <1>2
    <3> QED BY <2>2, <3>1, <3>2, <1>1, <1>2, <1>3, <1>4
  <2> QED BY <2>1, <2>2
<1> QED BY <1>1, <1>2, <1>3, <1>4, <1>5

(* Removing the only occurrence of e from a duplicate-free sequence. *)
LEMMA RemoveFirstProperties ==
  ASSUME NEW S, NEW s \in Seq(S), NEW e, IsInjective(s)
  PROVE  /\ RemoveFirst(s, e) \in Seq(S)
         /\ IsInjective(RemoveFirst(s, e))
         /\ ToSet(RemoveFirst(s, e)) = ToSet(s) \ {e}
         /\ Len(RemoveFirst(s, e)) <= Len(s)
<1>1. CASE ~ \E i \in 1..Len(s) : s[i] = e
  <2>1. RemoveFirst(s, e) = s
    BY <1>1 DEF RemoveFirst
  <2>2. e \notin ToSet(s)
    BY <1>1 DEF ToSet
  <2> QED BY <2>1, <2>2
<1>2. ASSUME NEW i \in 1..Len(s), s[i] = e
      PROVE  /\ RemoveFirst(s, e) \in Seq(S)
             /\ IsInjective(RemoveFirst(s, e))
             /\ ToSet(RemoveFirst(s, e)) = ToSet(s) \ {e}
             /\ Len(RemoveFirst(s, e)) <= Len(s)
  <2>1. {j \in 1..Len(s) : s[j] = e} = {i}
    BY <1>2 DEF IsInjective
  <2>2. RemoveFirst(s, e) = RemoveAt(s, i)
    BY <2>1, <1>2 DEF RemoveFirst, SelectInSeq, Min
  <2> DEFINE r == RemoveAt(s, i)
  <2>3. /\ r \in Seq(S)
        /\ Len(r) = Len(s) - 1
        /\ \A j \in 1..(Len(s) - 1) : r[j] = IF j < i THEN s[j] ELSE s[j + 1]
    BY RemoveAtElements
  <2> HIDE DEF r
  <2>4. IsInjective(r)
    BY <2>3, SMTT(30) DEF IsInjective
  <2>5. ASSUME NEW x \in ToSet(r) PROVE x \in ToSet(s) \ {e}
    BY <2>3, <2>5, <1>2 DEF ToSet, IsInjective
  <2>6. ASSUME NEW x \in ToSet(s) \ {e} PROVE x \in ToSet(r)
    <3>1. PICK j \in 1..Len(s) : s[j] = x /\ j # i
      BY <1>2, <2>6 DEF ToSet
    <3>2. CASE j < i
      BY <3>1, <3>2, <2>3 DEF ToSet
    <3>3. CASE j > i
      <4>1. j - 1 \in 1..Len(r) /\ r[j - 1] = s[j]
        BY <3>3, <2>3
      <4> QED BY <4>1, <3>1, <2>3 DEF ToSet
    <3> QED BY <3>1, <3>2, <3>3
  <2> QED BY <2>2, <2>3, <2>4, <2>5, <2>6 DEF r
<1> QED BY <1>1, <1>2


----------------------------------------
(* The inductive invariant.  OrdersMatchTrie speaks of the orders, the trie *)
(* and the entries a call is retiring; what it needs of the call is that    *)
(* its key is in the trie until it is pushed, that entries are retired only *)
(* in "forget", one per key, and that a victim is still in the trie.        *)
CallConsistent ==
  /\ pc \in {"push", "prefixes"} => call.key \in DOMAIN entry
  /\ call.prefixes # {} => pc = "forget"
  /\ \A p, q \in call.prefixes : p.key = q.key => p = q
  /\ pc = "pop" => call.victim \in DOMAIN entry

IInv == TypeOK /\ OrdersMatchTrie /\ CallConsistent

(* remove() takes the key out of the one order that has it. *)
LEMMA RemovedFromOrderProperties ==
  ASSUME lru \in [Types -> Seq(Keys)], NEW key, NEW u \in Types,
         \A t \in Types : IsInjective(lru[t]),
         key \in ToSet(lru[u]),
         \A t \in Types : key \in ToSet(lru[t]) => t = u
  PROVE  /\ RemovedFromOrder(key) \in [Types -> Seq(Keys)]
         /\ \A t \in Types : IsInjective(RemovedFromOrder(key)[t])
         /\ \A t \in Types : ToSet(RemovedFromOrder(key)[t]) = ToSet(lru[t]) \ {key}
<1>1. \A t \in Types : Contains(lru[t], key) <=> key \in ToSet(lru[t])
  BY DEF Contains, ToSet
<1>2. Entered(key) = {u}
  BY <1>1 DEF Entered
<1>3. FirstOrder(key) = u
  BY <1>2 DEF FirstOrder, Types
<1>4. RemovedFromOrder(key) = [lru EXCEPT ![u] = RemoveFirst(@, key)]
  BY <1>2, <1>3 DEF RemovedFromOrder
<1>5. /\ RemoveFirst(lru[u], key) \in Seq(Keys)
      /\ IsInjective(RemoveFirst(lru[u], key))
      /\ ToSet(RemoveFirst(lru[u], key)) = ToSet(lru[u]) \ {key}
  BY RemoveFirstProperties
<1> QED BY <1>4, <1>5

(* Appending a new element keeps a sequence free of duplicates. *)
LEMMA AppendInjectiveElements ==
  ASSUME NEW S, NEW s \in Seq(S), NEW e \in S, IsInjective(s), e \notin ToSet(s)
  PROVE  /\ Append(s, e) \in Seq(S)
         /\ IsInjective(Append(s, e))
         /\ ToSet(Append(s, e)) = ToSet(s) \cup {e}
<1>1. /\ Append(s, e) \in Seq(S)
      /\ Len(Append(s, e)) = Len(s) + 1
      /\ \A i \in 1..Len(s) : Append(s, e)[i] = s[i]
      /\ Append(s, e)[Len(s) + 1] = e
  OBVIOUS
<1>2. IsInjective(Append(s, e))
  BY <1>1 DEF IsInjective, ToSet
<1>3. ToSet(Append(s, e)) = ToSet(s) \cup {e}
  BY <1>1 DEF ToSet
<1> QED BY <1>1, <1>2, <1>3

(* Popping the oldest element of a duplicate-free sequence. *)
LEMMA TailInjectiveElements ==
  ASSUME NEW S, NEW s \in Seq(S), IsInjective(s), s # <<>>
  PROVE  /\ Tail(s) \in Seq(S)
         /\ Head(s) \in S
         /\ Head(s) \in ToSet(s)
         /\ IsInjective(Tail(s))
         /\ ToSet(Tail(s)) = ToSet(s) \ {Head(s)}
<1> DEFINE r == Tail(s)
<1>1. /\ r \in Seq(S)
      /\ Len(r) = Len(s) - 1
      /\ \A i \in 1..(Len(s) - 1) : r[i] = s[i + 1]
      /\ Head(s) = s[1]
      /\ Len(s) \in Nat \ {0}
      /\ DOMAIN s = 1..Len(s)
  OBVIOUS
<1> HIDE DEF r
<1>2. DOMAIN r = 1..(Len(s) - 1)
  BY <1>1
<1>3. IsInjective(r)
  BY <1>1, <1>2 DEF IsInjective
<1>4. ASSUME NEW x \in ToSet(r) PROVE x \in ToSet(s) \ {Head(s)}
  BY <1>1, <1>2, <1>4, SMTT(30) DEF ToSet, IsInjective
<1>5. ASSUME NEW x \in ToSet(s) \ {Head(s)} PROVE x \in ToSet(r)
  <2>1. PICK j \in 1..Len(s) : s[j] = x /\ j # 1
    BY <1>1, <1>5 DEF ToSet
  <2>2. PICK i \in 1..(Len(s) - 1) : j = i + 1
    <3>1. j - 1 \in 1..(Len(s) - 1) /\ j = (j - 1) + 1
      BY <1>1, <2>1
    <3> QED BY <3>1
  <2>3. r[i] = x
    BY <1>1, <2>1, <2>2
  <2> QED BY <1>2, <2>3 DEF ToSet
<1>6. Head(s) \in ToSet(s) /\ Head(s) \in S
  BY <1>1 DEF ToSet
<1> QED BY <1>1, <1>3, <1>4, <1>5, <1>6 DEF r

(* Each key is in the order of one type only. *)
LEMMA OneOrderEach ==
  ASSUME IInv, NEW t \in Types, NEW u \in Types, NEW k,
         k \in ToSet(lru[t]), k \in ToSet(lru[u])
  PROVE  t = u
BY DEF IInv, OrdersMatchTrie, CallConsistent

(* The fields of an entry the counters are computed from. *)
LEMMA EntryFields ==
  ASSUME NEW e \in Entries
  PROVE  e.type \in Types /\ e.nbytes \in Int
<1>1. e.type \in Types /\ e.nbytes \in Sizes
  BY DEF Entries
<1>2. \A x \in Sizes : x \in Int
  BY SizesAssumption
<1> QED BY <1>1, <1>2

(* The nodes on the way to a key. *)
LEMMA PathType ==
  ASSUME NEW key \in Keys
  PROVE  Path(key) \subseteq Models \X Seq(Tokens)
<1>1. key[1] \in Models /\ key[2] \in Seq(Tokens)
  BY PromptsAssumption DEF Keys
<1>2. ASSUME NEW n \in 0..Len(key[2]) PROVE SubSeq(key[2], 1, n) \in Seq(Tokens)
  BY <1>1, SubSeqProperties
<1> QED BY <1>1, <1>2 DEF Path, Cut, PrefixOf

----------------------------------------
(* Inserting puts the key in the trie and takes it out of its order. *)
LEMMA InsertPreserves ==
  ASSUME IInv, NEW key \in Keys, NEW e \in Entries, Insert(key, e)
  PROVE  IInv'
<1> USE DEF IInv
<1>1. /\ \A p \in call.prefixes : FALSE
      /\ Detached = {}
  BY DEF Insert, CallConsistent, Detached
<1>2. /\ lru' \in [Types -> Seq(Keys)]
      /\ \A t \in Types : IsInjective(lru'[t])
      /\ \A t \in Types : ToSet(lru'[t]) = ToSet(lru[t]) \ {key}
  <2>1. CASE key \in DOMAIN entry
    <3>1. /\ entry[key].type \in Types
          /\ key \in ToSet(lru[entry[key].type])
      BY <2>1, <1>1 DEF OrdersMatchTrie, TypeOK, Entries
    <3>2. \A t \in Types : key \in ToSet(lru[t]) => t = entry[key].type
      BY <3>1, OneOrderEach
    <3>3. lru' = RemovedFromOrder(key)
      BY <2>1 DEF Insert
    <3> QED BY <3>1, <3>2, <3>3, RemovedFromOrderProperties DEF TypeOK, OrdersMatchTrie
  <2>2. CASE key \notin DOMAIN entry
    <3>1. lru' = lru
      BY <2>2 DEF Insert
    <3>2. \A t \in Types : key \notin ToSet(lru[t])
      BY <2>2, <1>1 DEF OrdersMatchTrie
    <3> QED BY <3>1, <3>2 DEF TypeOK, OrdersMatchTrie
  <2> QED BY <2>1, <2>2
<1>3. TypeOK'
  <2>1. nodes' \subseteq Models \X Seq(Tokens)
    BY PathType DEF Insert, TypeOK
  <2>2. /\ DOMAIN entry' \subseteq Keys
        /\ \A k \in DOMAIN entry' : entry'[k] \in Entries
    BY DEF Insert, TypeOK
  <2>3. nBytes' \in Int /\ typeBytes' \in [Types -> Int]
    BY SizesAssumption, SMTT(30) DEF Insert, TypeOK, Entries
  <2>4. /\ call' \in [key : Keys \cup {NoKey}, victim : Keys \cup {NoKey}, bytes : Nat,
                      prefixes : SUBSET [key : Keys, value : Entries]]
        /\ pc' = "push" /\ flush' = flush
    BY LimitsAssumption DEF Insert, NoCall
  <2> QED BY <1>2, <2>1, <2>2, <2>3, <2>4 DEF TypeOK
<1>4. /\ call'.key = key /\ call'.prefixes = {} /\ pc' = "push"
      /\ DOMAIN entry' = DOMAIN entry \cup {key}
      /\ \A k \in DOMAIN entry : k # key => entry'[k] = entry[k]
  BY DEF Insert, NoCall
<1>5. Detached' = {key}
  BY <1>4 DEF Detached
<1>6. OrdersMatchTrie'
  <2>1. ASSUME NEW t \in Types, NEW k \in ToSet(lru'[t])
        PROVE  k \in DOMAIN entry' \ Detached' /\ entry'[k].type = t
    <3>1. k \in ToSet(lru[t]) /\ k # key
      BY <1>2, <2>1
    <3>2. k \in DOMAIN entry /\ entry[k].type = t
      BY <1>1, <3>1 DEF OrdersMatchTrie
    <3> QED BY <1>4, <1>5, <3>1, <3>2
  <2>2. ASSUME NEW k \in DOMAIN entry' \ Detached'
        PROVE  k \in ToSet(lru'[entry'[k].type])
    <3>1. k \in DOMAIN entry /\ k # key /\ entry'[k] = entry[k]
      BY <1>4, <1>5
    <3>2. k \in ToSet(lru[entry[k].type]) /\ entry[k].type \in Types
      BY <1>1, <3>1 DEF OrdersMatchTrie, TypeOK, Entries
    <3> QED BY <1>2, <3>1, <3>2
  <2> QED BY <1>2, <1>4, <2>1, <2>2 DEF OrdersMatchTrie
<1>7. CallConsistent'
  BY <1>4 DEF CallConsistent
<1> QED BY <1>3, <1>6, <1>7

(* Pushing files the key, which no order holds, under its entry's type. *)
LEMMA PushPreserves ==
  ASSUME IInv, Push
  PROVE  IInv'
<1> USE DEF IInv
<1> DEFINE key == call.key
           type == entry[key].type
<1>1. /\ call.prefixes = {} /\ Detached = {key}
      /\ key \in DOMAIN entry /\ key \in Keys /\ type \in Types
  BY DEF Push, CallConsistent, Detached, TypeOK, Entries
<1>2. \A t \in Types : key \notin ToSet(lru[t])
  BY <1>1 DEF OrdersMatchTrie
<1>3. /\ lru' = [lru EXCEPT ![type] = Append(@, key)]
      /\ UNCHANGED <<nodes, entry, nBytes, typeBytes, call, flush>>
      /\ pc' \in {"prefixes", "size"}
  BY DEF Push
<1>4. /\ Append(lru[type], key) \in Seq(Keys)
      /\ IsInjective(Append(lru[type], key))
      /\ ToSet(Append(lru[type], key)) = ToSet(lru[type]) \cup {key}
  BY <1>1, <1>2, AppendInjectiveElements DEF TypeOK, OrdersMatchTrie
<1> HIDE DEF key, type
<1>5. /\ lru' \in [Types -> Seq(Keys)]
      /\ \A t \in Types : IsInjective(lru'[t])
      /\ \A t \in Types : ToSet(lru'[t]) =
           IF t = type THEN ToSet(lru[t]) \cup {key} ELSE ToSet(lru[t])
  BY <1>1, <1>3, <1>4 DEF TypeOK, OrdersMatchTrie
<1>6. TypeOK'
  BY <1>3, <1>5 DEF TypeOK
<1>7. Detached' = {}
  BY <1>3 DEF Detached
<1>8. OrdersMatchTrie'
  <2>1. ASSUME NEW t \in Types, NEW k \in ToSet(lru'[t])
        PROVE  k \in DOMAIN entry' \ Detached' /\ entry'[k].type = t
    <3>1. CASE k = key
      <4>1. t = type
        BY <1>2, <1>5, <2>1, <3>1
      <4> QED BY <1>1, <1>3, <1>7, <3>1, <4>1 DEF type
    <3>2. CASE k # key
      <4>1. k \in ToSet(lru[t])
        BY <1>5, <2>1, <3>2
      <4>2. k \in DOMAIN entry /\ entry[k].type = t
        BY <1>1, <4>1 DEF OrdersMatchTrie
      <4> QED BY <1>3, <1>7, <4>2
    <3> QED BY <3>1, <3>2
  <2>2. ASSUME NEW k \in DOMAIN entry' \ Detached'
        PROVE  k \in ToSet(lru'[entry'[k].type])
    <3>1. CASE k = key
      BY <1>1, <1>3, <1>5, <3>1 DEF type
    <3>2. CASE k # key
      <4>1. k \in ToSet(lru[entry[k].type]) /\ entry[k].type \in Types
        BY <1>1, <1>3, <3>2, <2>2 DEF OrdersMatchTrie, TypeOK, Entries
      <4> QED BY <1>3, <1>5, <4>1
    <3> QED BY <3>1, <3>2
  <2> QED BY <1>1, <1>3, <1>5, <2>1, <2>2 DEF OrdersMatchTrie
<1>9. CallConsistent'
  BY <1>1, <1>3 DEF CallConsistent, key
<1> QED BY <1>6, <1>8, <1>9

(* The prefixes leave the trie and stay in their orders. *)
LEMMA DropPrefixesPreserves ==
  ASSUME IInv, DropPrefixes
  PROVE  IInv'
<1> USE DEF IInv
<1> DEFINE dropped == ValuedPrefixes(call.key)
<1>1. call.prefixes = {} /\ Detached = {}
  BY DEF DropPrefixes, CallConsistent, Detached
<1>2. dropped \subseteq DOMAIN entry
  BY DEF ValuedPrefixes
<1>3. /\ entry' = [k \in DOMAIN entry \ dropped |-> entry[k]]
      /\ call' = [call EXCEPT !.prefixes =
                    {[key |-> k, value |-> entry[k]] : k \in dropped}]
      /\ pc' = IF dropped = {} THEN "size" ELSE "forget"
      /\ UNCHANGED <<nodes, lru, nBytes, typeBytes, flush>>
  BY DEF DropPrefixes
<1> HIDE DEF dropped
<1>4. /\ call'.prefixes = {[key |-> k, value |-> entry[k]] : k \in dropped}
      /\ Detached' = {}
  BY <1>3 DEF TypeOK, Detached
<1>5. TypeOK'
  <2>1. \A k \in dropped : k \in Keys /\ entry[k] \in Entries
    BY <1>2 DEF TypeOK
  <2>2. call'.prefixes \subseteq [key : Keys, value : Entries]
    BY <1>4, <2>1
  <2>3. call' \in [key : Keys \cup {NoKey}, victim : Keys \cup {NoKey}, bytes : Nat,
                   prefixes : SUBSET [key : Keys, value : Entries]]
    BY <1>3, <2>2 DEF TypeOK
  <2>4. /\ DOMAIN entry' \subseteq Keys
        /\ \A k \in DOMAIN entry' : entry'[k] \in Entries
    BY <1>3 DEF TypeOK
  <2> QED BY <1>3, <2>3, <2>4 DEF TypeOK
<1>6. OrdersMatchTrie'
  <2>1. ASSUME NEW t \in Types, NEW k \in ToSet(lru'[t])
        PROVE  \/ k \in DOMAIN entry' \ Detached' /\ entry'[k].type = t
               \/ \E p \in call'.prefixes : p.key = k /\ p.value.type = t
    <3>1. k \in DOMAIN entry /\ entry[k].type = t
      BY <1>1, <1>3, <2>1 DEF OrdersMatchTrie
    <3>2. CASE k \in dropped
      <4>1. [key |-> k, value |-> entry[k]] \in call'.prefixes
        BY <1>4, <3>2
      <4> QED BY <3>1, <4>1
    <3>3. CASE k \notin dropped
      BY <1>3, <1>4, <3>1, <3>3
    <3> QED BY <3>2, <3>3
  <2>2. \A k \in DOMAIN entry' \ Detached' : k \in ToSet(lru'[entry'[k].type])
    BY <1>1, <1>3, <1>4 DEF OrdersMatchTrie
  <2>3. ASSUME NEW p \in call'.prefixes
        PROVE  p.key \notin DOMAIN entry' /\ p.key \in ToSet(lru'[p.value.type])
    BY <1>1, <1>2, <1>3, <1>4, <2>3 DEF OrdersMatchTrie
  <2> QED BY <1>3, <2>1, <2>2, <2>3 DEF OrdersMatchTrie
<1>7. CallConsistent'
  BY <1>3, <1>4 DEF CallConsistent
<1> QED BY <1>5, <1>6, <1>7

(* Forgetting a retired entry takes its key out of its order. *)
LEMMA ForgetPrefixPreserves ==
  ASSUME IInv, ForgetPrefix
  PROVE  IInv'
<1> USE DEF IInv
<1>1. PICK old \in call.prefixes :
        /\ nBytes' = nBytes - old.value.nbytes
        /\ typeBytes' = [typeBytes EXCEPT ![old.value.type] = @ - old.value.nbytes]
        /\ lru' = RemovedFromOrder(old.key)
        /\ call' = [call EXCEPT !.prefixes = @ \ {old}]
  BY DEF ForgetPrefix
<1>2. /\ old.key \in Keys /\ old.value \in Entries
      /\ old.value.type \in Types /\ old.value.nbytes \in Int
  <2>1. old \in [key : Keys, value : Entries]
    BY DEF TypeOK
  <2>2. old.key \in Keys /\ old.value \in Entries
    BY <2>1
  <2> QED BY <2>2, EntryFields
<1>3. /\ call'.prefixes = call.prefixes \ {old}
      /\ pc' = IF call'.prefixes = {} THEN "size" ELSE "forget"
      /\ UNCHANGED <<nodes, entry, flush>>
      /\ pc = "forget"
  BY <1>1 DEF ForgetPrefix, TypeOK
<1>4. Detached = {} /\ Detached' = {}
  BY <1>3 DEF Detached
<1>5. /\ lru' \in [Types -> Seq(Keys)]
      /\ \A t \in Types : IsInjective(lru'[t])
      /\ \A t \in Types : ToSet(lru'[t]) = ToSet(lru[t]) \ {old.key}
  <2>1. old.key \in ToSet(lru[old.value.type])
    BY DEF OrdersMatchTrie
  <2>2. \A t \in Types : old.key \in ToSet(lru[t]) => t = old.value.type
    BY <1>2, <2>1, OneOrderEach
  <2> QED BY <1>1, <1>2, <2>1, <2>2, RemovedFromOrderProperties
          DEF TypeOK, OrdersMatchTrie
<1>6. TypeOK'
  <2> DEFINE n == old.value.nbytes
             type == old.value.type
  <2>1. nBytes' \in Int /\ typeBytes' \in [Types -> Int]
    <3>1. /\ nBytes' = nBytes - n
          /\ typeBytes' = [typeBytes EXCEPT ![type] = @ - n]
          /\ n \in Int /\ type \in Types
          /\ nBytes \in Int /\ typeBytes \in [Types -> Int]
      BY <1>1, <1>2 DEF TypeOK
    <3> HIDE DEF n, type
    <3> QED BY <3>1
  <2>2. call' \in [key : Keys \cup {NoKey}, victim : Keys \cup {NoKey}, bytes : Nat,
                   prefixes : SUBSET [key : Keys, value : Entries]]
    BY <1>1 DEF TypeOK
  <2>3. pc' \in {"size", "forget"}
    BY <1>3
  <2> QED BY <1>3, <1>5, <2>1, <2>2, <2>3 DEF TypeOK
<1>7. OrdersMatchTrie'
  <2>1. ASSUME NEW t \in Types, NEW k \in ToSet(lru'[t])
        PROVE  \/ k \in DOMAIN entry' \ Detached' /\ entry'[k].type = t
               \/ \E p \in call'.prefixes : p.key = k /\ p.value.type = t
    BY <1>3, <1>4, <1>5, <2>1 DEF OrdersMatchTrie
  <2>2. ASSUME NEW k \in DOMAIN entry' \ Detached'
        PROVE  k \in ToSet(lru'[entry'[k].type])
    <3>1. k # old.key /\ k \in ToSet(lru[entry[k].type]) /\ entry[k].type \in Types
      BY <1>3, <1>4, <2>2 DEF OrdersMatchTrie, TypeOK, Entries
    <3> QED BY <1>3, <1>5, <3>1
  <2>3. ASSUME NEW p \in call'.prefixes
        PROVE  p.key \notin DOMAIN entry' /\ p.key \in ToSet(lru'[p.value.type])
    <3>1. /\ p \in call.prefixes /\ p # old
          /\ p.value.type \in Types
          /\ p.key \notin DOMAIN entry /\ p.key \in ToSet(lru[p.value.type])
      BY <1>3, <2>3 DEF OrdersMatchTrie, TypeOK, Entries
    <3>2. p.key # old.key
      BY <3>1 DEF CallConsistent
    <3> QED BY <1>3, <1>5, <3>1, <3>2
  <2> QED BY <1>5, <2>1, <2>2, <2>3 DEF OrdersMatchTrie
<1>8. CallConsistent'
  BY <1>3 DEF CallConsistent
<1> QED BY <1>6, <1>7, <1>8

(* The victim of an eviction leaves its order before it leaves the trie. *)
LEMMA EvictFromLruPreserves ==
  ASSUME IInv, EvictFromLru
  PROVE  IInv'
<1> USE DEF IInv
<1> DEFINE type == VictimType
<1>1. /\ type \in Types /\ call.prefixes = {} /\ Detached = {}
      /\ pc \in {"size", "bytes"}
  BY DEF EvictFromLru, VictimType, Types, CallConsistent, Detached
<1>2. CASE lru[type] = <<>>
  <2>1. pc' = "raised" /\ UNCHANGED <<nodes, entry, lru, nBytes, typeBytes, call, flush>>
    BY <1>2 DEF EvictFromLru
  <2>2. Detached' = {}
    BY <2>1 DEF Detached
  <2> QED BY <1>1, <2>1, <2>2 DEF TypeOK, OrdersMatchTrie, CallConsistent
<1>3. CASE lru[type] # <<>>
  <2> DEFINE key == Head(lru[type])
  <2>1. /\ lru' = [lru EXCEPT ![type] = Tail(@)]
        /\ call' = [call EXCEPT !.victim = key]
        /\ pc' = "pop"
        /\ UNCHANGED <<nodes, entry, nBytes, typeBytes, flush>>
    BY <1>3 DEF EvictFromLru
  <2>2. /\ Tail(lru[type]) \in Seq(Keys) /\ key \in Keys
        /\ key \in ToSet(lru[type])
        /\ IsInjective(Tail(lru[type]))
        /\ ToSet(Tail(lru[type])) = ToSet(lru[type]) \ {key}
    BY <1>1, <1>3, TailInjectiveElements DEF TypeOK, OrdersMatchTrie
  <2> HIDE DEF key, type
  <2>3. /\ \A t \in Types : key \in ToSet(lru[t]) => t = type
        /\ key \in DOMAIN entry
    BY <1>1, <2>2, OneOrderEach DEF OrdersMatchTrie
  <2>4. /\ lru' \in [Types -> Seq(Keys)]
        /\ \A t \in Types : IsInjective(lru'[t])
        /\ \A t \in Types : ToSet(lru'[t]) = ToSet(lru[t]) \ {key}
    <3>1. ASSUME NEW t \in Types PROVE ToSet(lru'[t]) = ToSet(lru[t]) \ {key}
      <4>1. CASE t = type
        BY <1>1, <2>1, <2>2, <4>1 DEF TypeOK
      <4>2. CASE t # type
        <5>1. lru'[t] = lru[t] /\ key \notin ToSet(lru[t])
          BY <1>1, <2>1, <2>3, <4>2 DEF TypeOK
        <5> QED BY <5>1
      <4> QED BY <4>1, <4>2
    <3> QED BY <1>1, <2>1, <2>2, <3>1 DEF TypeOK, OrdersMatchTrie
  <2>5. call'.victim = key /\ call'.prefixes = {} /\ Detached' = {key}
    BY <1>1, <2>1 DEF TypeOK, Detached
  <2>6. TypeOK'
    BY <1>1, <2>1, <2>2, <2>4 DEF TypeOK
  <2>7. OrdersMatchTrie'
    <3>1. ASSUME NEW t \in Types, NEW k \in ToSet(lru'[t])
          PROVE  k \in DOMAIN entry' \ Detached' /\ entry'[k].type = t
      BY <1>1, <2>1, <2>4, <2>5, <3>1 DEF OrdersMatchTrie
    <3>2. ASSUME NEW k \in DOMAIN entry' \ Detached'
          PROVE  k \in ToSet(lru'[entry'[k].type])
      <4>1. k # key /\ k \in ToSet(lru[entry[k].type]) /\ entry[k].type \in Types
        BY <1>1, <2>1, <2>5, <3>2 DEF OrdersMatchTrie, TypeOK, Entries
      <4> QED BY <2>1, <2>4, <4>1
    <3> QED BY <2>4, <2>5, <3>1, <3>2 DEF OrdersMatchTrie
  <2>8. CallConsistent'
    BY <2>1, <2>3, <2>5 DEF CallConsistent
  <2> QED BY <2>6, <2>7, <2>8
<1> QED BY <1>2, <1>3

(* The victim is still in the trie, so popping it cannot fail. *)
LEMMA EvictFromTriePreserves ==
  ASSUME IInv, EvictFromTrie
  PROVE  IInv'
<1> USE DEF IInv
<1> DEFINE n == entry[call.victim].nbytes
           type == entry[call.victim].type
<1>1. /\ pc = "pop" /\ call.victim \in DOMAIN entry
      /\ call.prefixes = {} /\ Detached = {call.victim}
  BY DEF EvictFromTrie, CallConsistent, Detached
<1>2. n \in Int /\ type \in Types
  BY <1>1, EntryFields DEF TypeOK
<1>3. /\ nodes' = nodes \ Emptied(call.victim)
      /\ entry' = [k \in DOMAIN entry \ {call.victim} |-> entry[k]]
      /\ nBytes' = nBytes - n
      /\ typeBytes' = [typeBytes EXCEPT ![type] = @ - n]
      /\ call' = [call EXCEPT !.victim = NoKey]
      /\ pc' = "bytes"
      /\ lru' = lru
      /\ flush' = flush
  BY <1>1 DEF EvictFromTrie
<1> HIDE DEF n, type
<1>4. call'.prefixes = {} /\ Detached' = {}
  BY <1>1, <1>3 DEF TypeOK, Detached
<1>5. TypeOK'
  <2>1. nBytes' \in Int /\ typeBytes' \in [Types -> Int]
    BY <1>2, <1>3 DEF TypeOK
  <2>2. nodes' \subseteq Models \X Seq(Tokens)
    BY <1>3 DEF TypeOK
  <2>3. call' \in [key : Keys \cup {NoKey}, victim : Keys \cup {NoKey}, bytes : Nat,
                   prefixes : SUBSET [key : Keys, value : Entries]]
    BY <1>3 DEF TypeOK
  <2> QED BY <1>3, <2>1, <2>2, <2>3 DEF TypeOK
<1>6. OrdersMatchTrie'
  <2>1. ASSUME NEW t \in Types, NEW k \in ToSet(lru'[t])
        PROVE  k \in DOMAIN entry' \ Detached' /\ entry'[k].type = t
    BY <1>1, <1>3, <1>4, <2>1 DEF OrdersMatchTrie
  <2>2. \A k \in DOMAIN entry' \ Detached' : k \in ToSet(lru'[entry'[k].type])
    BY <1>1, <1>3, <1>4 DEF OrdersMatchTrie
  <2> QED BY <1>3, <1>4, <2>1, <2>2 DEF OrdersMatchTrie
<1>7. CallConsistent'
  BY <1>3, <1>4 DEF CallConsistent
<1> QED BY <1>5, <1>6, <1>7

(* The remaining steps leave the trie and the orders alone. *)
LEMMA OtherStepsPreserve ==
  ASSUME IInv,
         \/ \E bytes \in Limits : TrimTo(bytes)
         \/ WithinSize \/ Return \/ FlushList \/ FlushEntry \/ UNCHANGED vars
  PROVE  IInv'
<1> USE DEF IInv
<1>1. ASSUME NEW bytes \in Limits, TrimTo(bytes) PROVE IInv'
  <2>1. call' = [NoCall EXCEPT !.bytes = bytes] /\ pc' = "bytes"
        /\ pc = "idle" /\ UNCHANGED <<nodes, entry, lru, nBytes, typeBytes, flush>>
    BY <1>1 DEF TrimTo, cacheVars
  <2>2. /\ call.prefixes = {} /\ call'.prefixes = {}
        /\ Detached = {} /\ Detached' = {}
    BY <2>1 DEF Detached, CallConsistent, NoCall
  <2>3. TypeOK'
    BY <2>1, LimitsAssumption DEF TypeOK, NoCall
  <2> QED BY <2>1, <2>2, <2>3 DEF OrdersMatchTrie, CallConsistent
<1>2. CASE WithinSize
  <2>1. pc = "size" /\ pc' = "bytes" /\ UNCHANGED <<cacheVars, call, flush>>
    BY <1>2 DEF WithinSize
  <2>2. Detached = {} /\ Detached' = {}
    BY <2>1 DEF Detached
  <2> QED BY <2>1, <2>2 DEF TypeOK, OrdersMatchTrie, CallConsistent, cacheVars
<1>3. CASE Return
  <2>1. pc = "bytes" /\ pc' = "idle" /\ call' = NoCall /\ UNCHANGED <<cacheVars, flush>>
    BY <1>3 DEF Return
  <2>2. /\ call.prefixes = {} /\ call'.prefixes = {}
        /\ Detached = {} /\ Detached' = {}
    BY <2>1 DEF Detached, CallConsistent, NoCall
  <2>3. TypeOK'
    BY <2>1 DEF TypeOK, NoCall, cacheVars
  <2> QED BY <2>1, <2>2, <2>3 DEF OrdersMatchTrie, CallConsistent, cacheVars
<1>4. CASE FlushList
  <2>1. /\ flush' = [flush EXCEPT !.todo = Reverse(lru[Head(flush.types)]),
                                  !.types = Tail(@)]
        /\ flush.types # <<>>
        /\ UNCHANGED <<cacheVars, pc, call>>
    BY <1>4 DEF FlushList
  <2>2. /\ Head(flush.types) \in Types /\ Tail(flush.types) \in Seq(Types)
    BY <2>1 DEF TypeOK
  <2>3. Reverse(lru[Head(flush.types)]) \in Seq(Keys)
    <3>1. ASSUME NEW s \in Seq(Keys) PROVE Reverse(s) \in Seq(Keys)
      <4>1. \A i \in 1..Len(s) : s[(Len(s) - i) + 1] \in Keys
        OBVIOUS
      <4> QED BY <4>1 DEF Reverse
    <3> QED BY <2>2, <3>1 DEF TypeOK
  <2>4. TypeOK'
    BY <2>1, <2>2, <2>3 DEF TypeOK, cacheVars
  <2>5. Detached' = Detached
    BY <2>1 DEF Detached
  <2> QED BY <2>1, <2>4, <2>5 DEF OrdersMatchTrie, CallConsistent, cacheVars
<1>5. CASE FlushEntry
  <2>1. /\ flush.todo # <<>>
        /\ \/ flush' = [flush EXCEPT !.todo = Tail(@)]
           \/ flush' = [flush EXCEPT !.failed = TRUE]
        /\ UNCHANGED <<cacheVars, pc, call>>
    BY <1>5 DEF FlushEntry
  <2>2. flush' \in [todo : Seq(Keys), types : Seq(Types), failed : BOOLEAN]
    <3>1. Tail(flush.todo) \in Seq(Keys)
      BY <2>1 DEF TypeOK
    <3> QED BY <2>1, <3>1 DEF TypeOK
  <2>3. TypeOK'
    BY <2>1, <2>2 DEF TypeOK, cacheVars
  <2>4. Detached' = Detached
    BY <2>1 DEF Detached
  <2> QED BY <2>1, <2>3, <2>4 DEF OrdersMatchTrie, CallConsistent, cacheVars
<1>6. CASE UNCHANGED vars
  <2>1. Detached' = Detached
    BY <1>6 DEF vars, Detached
  <2> QED BY <1>6, <2>1 DEF vars, TypeOK, OrdersMatchTrie, CallConsistent
<1> QED BY <1>1, <1>2, <1>3, <1>4, <1>5, <1>6

----------------------------------------
(* The invariant holds in every state of every behaviour. *)
THEOREM Invariant == Spec => []IInv
<1>1. Init => IInv
  <2> SUFFICES ASSUME Init PROVE IInv
    OBVIOUS
  <2>1. TypeOK
    <3>1. <<"assistant", "user", "system">> \in Seq(Types)
      BY DEF Types
    <3> QED BY <3>1 DEF Init, TypeOK, NoCall, Types, Entries
  <2>2. OrdersMatchTrie
    BY DEF Init, OrdersMatchTrie, NoCall, IsInjective, ToSet, Types
  <2> QED BY <2>1, <2>2 DEF IInv, CallConsistent, Init, NoCall
<1>2. IInv /\ [Next]_vars => IInv'
  BY InsertPreserves, PushPreserves, DropPrefixesPreserves, ForgetPrefixPreserves,
     EvictFromLruPreserves, EvictFromTriePreserves, OtherStepsPreserve DEF Next
<1> QED BY <1>1, <1>2, PTL DEF Spec

(* TypeOK: every variable keeps its type, whatever the caller inserts. *)
THEOREM TypeCorrect == Spec => []TypeOK
BY Invariant, PTL DEF IInv

(* The orders and the trie of LRUPromptCache always describe the same *)
(* entries (cache.py insert_cache and trim_to).                       *)
THEOREM OrdersAgree == Spec => []OrdersMatchTrie
BY Invariant, PTL DEF IInv

VictimHeld == pc = "pop" => call.victim \in DOMAIN entry

(* PromptTrie.pop is only called on a key the trie holds: an eviction never *)
(* ends the generation thread with a KeyError.                              *)
THEOREM EvictionFindsVictim == Spec => []VictimHeld
<1>1. IInv => VictimHeld
  BY DEF IInv, CallConsistent, VictimHeld
<1> QED BY <1>1, Invariant, PTL

----------------------------------------
(* The shape of the trie: closed under prefixes, and every branch ends in a *)
(* value.                                                                   *)

Places == Models \X Seq(Tokens)

(* A prefix, element by element. *)
LEMMA PrefixElements ==
  ASSUME NEW s \in Seq(Tokens), NEW t \in Seq(Tokens)
  PROVE  IsPrefix(s, t) <=> Len(s) <= Len(t) /\ \A i \in 1..Len(s) : s[i] = t[i]
<1>1. CASE Len(s) <= Len(t)
  <2>1. /\ SubSeq(s, 1, Len(s)) \in Seq(Tokens)
        /\ Len(SubSeq(s, 1, Len(s))) = Len(s)
        /\ \A i \in 1..Len(s) : SubSeq(s, 1, Len(s))[i] = s[i]
    OBVIOUS
  <2>2. /\ SubSeq(t, 1, Len(s)) \in Seq(Tokens)
        /\ Len(SubSeq(t, 1, Len(s))) = Len(s)
        /\ \A i \in 1..Len(s) : SubSeq(t, 1, Len(s))[i] = t[i]
    BY <1>1
  <2>3. SubSeq(s, 1, Len(s)) = SubSeq(t, 1, Len(s)) <=> \A i \in 1..Len(s) : s[i] = t[i]
    <3>1. ASSUME SubSeq(s, 1, Len(s)) = SubSeq(t, 1, Len(s)), NEW i \in 1..Len(s)
          PROVE  s[i] = t[i]
      BY <2>1, <2>2, <3>1
    <3>2. ASSUME \A i \in 1..Len(s) : s[i] = t[i]
          PROVE  SubSeq(s, 1, Len(s)) = SubSeq(t, 1, Len(s))
      BY <2>1, <2>2, <3>2, SeqEqual
    <3> QED BY <3>1, <3>2
  <2> QED BY <1>1, <2>3 DEF IsPrefix
<1>2. CASE ~(Len(s) <= Len(t))
  BY <1>2 DEF IsPrefix
<1> QED BY <1>1, <1>2

(* Below is a partial order. *)
LEMMA BelowItself ==
  ASSUME NEW x \in Places
  PROVE  Below(x, x)
<1>1. x[2] \in Seq(Tokens) /\ Len(x[2]) \in Nat
  BY DEF Places
<1> QED BY <1>1, PrefixElements DEF Below

LEMMA BelowTransitive ==
  ASSUME NEW x \in Places, NEW y \in Places, NEW z \in Places, Below(x, y), Below(y, z)
  PROVE  Below(x, z)
<1>1. /\ x[2] \in Seq(Tokens) /\ y[2] \in Seq(Tokens) /\ z[2] \in Seq(Tokens)
      /\ x[1] = z[1]
  BY DEF Places, Below
<1>2. /\ Len(y[2]) <= Len(x[2]) /\ \A i \in 1..Len(y[2]) : y[2][i] = x[2][i]
      /\ Len(z[2]) <= Len(y[2]) /\ \A i \in 1..Len(z[2]) : z[2][i] = y[2][i]
  BY <1>1, PrefixElements DEF Below
<1>3. Len(x[2]) \in Nat /\ Len(y[2]) \in Nat /\ Len(z[2]) \in Nat
  BY <1>1
<1>4. Len(z[2]) <= Len(x[2]) /\ \A i \in 1..Len(z[2]) : z[2][i] = x[2][i]
  BY <1>2, <1>3
<1> QED BY <1>1, <1>4, PrefixElements DEF Below

(* The way to a node is what the node is below of. *)
LEMMA PathIsAbove ==
  ASSUME NEW x \in Places
  PROVE  Path(x) = {p \in Places : Below(x, p)}
<1>1. x[1] \in Models /\ x[2] \in Seq(Tokens) /\ Len(x[2]) \in Nat
  BY DEF Places
<1>2. ASSUME NEW n \in 0..Len(x[2])
      PROVE  Cut(x, n) \in Places /\ Below(x, Cut(x, n))
  <2> DEFINE s == SubSeq(x[2], 1, n)
  <2>1. /\ s \in Seq(Tokens) /\ Len(s) = n
        /\ \A i \in 1..n : s[i] = x[2][i]
    BY <1>1
  <2>2. Cut(x, n)[1] = x[1] /\ Cut(x, n)[2] = s /\ Cut(x, n) = <<x[1], s>>
    BY DEF Cut, PrefixOf
  <2> HIDE DEF s
  <2>3. IsPrefix(s, x[2])
    BY <1>1, <2>1, PrefixElements
  <2> QED BY <1>1, <2>1, <2>2, <2>3 DEF Places, Below
<1>3. ASSUME NEW p \in Places, Below(x, p)
      PROVE  p \in Path(x)
  <2>1. /\ p = <<p[1], p[2]>> /\ p[2] \in Seq(Tokens) /\ Len(p[2]) \in Nat
        /\ p[1] = x[1] /\ IsPrefix(p[2], x[2])
    BY <1>3 DEF Places, Below
  <2>2. Len(p[2]) \in 0..Len(x[2]) /\ \A i \in 1..Len(p[2]) : p[2][i] = x[2][i]
    BY <1>1, <2>1, PrefixElements
  <2>3. p[2] = SubSeq(x[2], 1, Len(p[2]))
    <3>1. /\ SubSeq(x[2], 1, Len(p[2])) \in Seq(Tokens)
          /\ Len(SubSeq(x[2], 1, Len(p[2]))) = Len(p[2])
          /\ \A i \in 1..Len(p[2]) : SubSeq(x[2], 1, Len(p[2]))[i] = x[2][i]
      BY <1>1, <2>1, <2>2
    <3> QED BY <2>1, <2>2, <3>1, SeqEqual
  <2>4. p = Cut(x, Len(p[2]))
    BY <2>1, <2>3 DEF Cut, PrefixOf
  <2> QED BY <2>2, <2>4 DEF Path
<1>4. Path(x) \subseteq {p \in Places : Below(x, p)}
  BY <1>2 DEF Path
<1> QED BY <1>3, <1>4

(* A prefix that pop_prefixes takes is above the key and not the key itself. *)
LEMMA PrefixAbove ==
  ASSUME NEW x \in Places, NEW k \in ValuedPrefixes(x)
  PROVE  k \in DOMAIN entry /\ k # x /\ k \in Path(x)
<1>1. x[2] \in Seq(Tokens) /\ Len(x[2]) \in Nat
  BY DEF Places
<1>2. PICK n \in 0..(Len(x[2]) - 1) : k = Cut(x, n)
  BY DEF ValuedPrefixes
<1>3. n \in 0..Len(x[2]) /\ n # Len(x[2])
  BY <1>1, <1>2
<1>4. Len(SubSeq(x[2], 1, n)) = n
  BY <1>1, <1>3
<1>5. k[2] = SubSeq(x[2], 1, n)
  BY <1>2 DEF Cut, PrefixOf
<1>6. k # x
  BY <1>3, <1>4, <1>5
<1> QED BY <1>2, <1>3, <1>6 DEF Path, ValuedPrefixes

----------------------------------------
(* Every node, and every key with a value, is a place. *)
LEMMA NodesArePlaces ==
  ASSUME IInv
  PROVE  nodes \subseteq Places /\ DOMAIN entry \subseteq Places /\ Keys \subseteq Places
BY PromptsAssumption DEF IInv, TypeOK, Keys, Places

(* add() creates the whole way to the key. *)
LEMMA InsertKeepsShape ==
  ASSUME IInv, TrieWellFormed, NEW key \in Keys, NEW e \in Entries, Insert(key, e)
  PROVE  TrieWellFormed'
<1>1. nodes' = nodes \cup Path(key) /\ DOMAIN entry' = DOMAIN entry \cup {key}
  BY DEF Insert
<1>2. key \in Places /\ nodes \subseteq Places /\ DOMAIN entry \subseteq Places
  BY NodesArePlaces
<1>3. ASSUME NEW k \in DOMAIN entry' \cup nodes' PROVE Path(k) \subseteq nodes'
  <2>1. CASE k \in DOMAIN entry \cup nodes
    BY <1>1, <2>1 DEF TrieWellFormed
  <2>2. CASE k \in Path(key) \cup {key}
    <3>1. k \in Places /\ Below(key, k)
      BY <1>2, <2>2, PathIsAbove, BelowItself
    <3>2. Path(k) \subseteq Path(key)
      BY <1>2, <3>1, PathIsAbove, BelowTransitive
    <3> QED BY <1>1, <3>2
  <2> QED BY <1>1, <1>3, <2>1, <2>2
<1>4. ASSUME NEW n \in nodes', n[2] # <<>> PROVE \E k \in DOMAIN entry' : Below(k, n)
  <2>1. CASE n \in nodes
    BY <1>1, <1>4, <2>1 DEF TrieWellFormed
  <2>2. CASE n \in Path(key)
    BY <1>1, <1>2, <2>2, PathIsAbove
  <2> QED BY <1>1, <2>1, <2>2
<1> QED BY <1>3, <1>4 DEF TrieWellFormed

(* The key below the prefixes keeps its value. *)
LEMMA DropPrefixesKeepsShape ==
  ASSUME IInv, TrieWellFormed, DropPrefixes
  PROVE  TrieWellFormed'
<1> DEFINE key == call.key
<1>1. /\ key \in DOMAIN entry /\ nodes' = nodes
      /\ DOMAIN entry' = DOMAIN entry \ ValuedPrefixes(key)
  BY DEF DropPrefixes, IInv, CallConsistent
<1> HIDE DEF key
<1>2. key \in Places /\ nodes \subseteq Places /\ DOMAIN entry \subseteq Places
  BY <1>1, NodesArePlaces
<1>3. key \in DOMAIN entry'
  BY <1>1, <1>2, PrefixAbove
<1>4. ASSUME NEW n \in nodes', n[2] # <<>> PROVE \E k \in DOMAIN entry' : Below(k, n)
  <2>1. PICK k \in DOMAIN entry : Below(k, n)
    BY <1>1, <1>4 DEF TrieWellFormed
  <2>2. CASE k \in ValuedPrefixes(key)
    <3>1. k \in Places /\ Below(key, k)
      BY <1>2, <2>2, PrefixAbove, PathIsAbove
    <3>2. Below(key, n)
      BY <1>1, <1>2, <1>4, <2>1, <3>1, BelowTransitive
    <3> QED BY <1>3, <3>2
  <2>3. CASE k \notin ValuedPrefixes(key)
    BY <1>1, <2>1, <2>3
  <2> QED BY <2>2, <2>3
<1>5. \A k \in DOMAIN entry' \cup nodes' : Path(k) \subseteq nodes'
  BY <1>1 DEF TrieWellFormed
<1> QED BY <1>4, <1>5 DEF TrieWellFormed

(* pop() deletes the part of the way that nothing else uses. *)
LEMMA EvictFromTrieKeepsShape ==
  ASSUME IInv, TrieWellFormed, EvictFromTrie
  PROVE  TrieWellFormed'
<1> DEFINE key == call.victim
<1>1. /\ key \in DOMAIN entry
      /\ nodes' = nodes \ Emptied(key)
      /\ DOMAIN entry' = DOMAIN entry \ {key}
  BY DEF EvictFromTrie, IInv, CallConsistent
<1> HIDE DEF key
<1>2. key \in Places /\ nodes \subseteq Places /\ DOMAIN entry \subseteq Places
  BY <1>1, NodesArePlaces
<1>3. DOMAIN entry \subseteq nodes
  BY <1>2, PathIsAbove, BelowItself DEF TrieWellFormed
<1>4. ASSUME NEW p \in Emptied(key), NEW n \in nodes, Below(n, p)
      PROVE  n \in Path(key) /\ (n # key => n \notin DOMAIN entry)
  BY <1>4 DEF Emptied
<1>5. Emptied(key) \subseteq Path(key) /\ \A p \in Emptied(key) : p[2] # <<>>
  BY DEF Emptied
<1>6. ASSUME NEW k \in DOMAIN entry' \cup nodes' PROVE Path(k) \subseteq nodes'
  <2>1. k \in nodes /\ k \in Places /\ Path(k) \subseteq nodes
    BY <1>1, <1>2, <1>3, <1>6 DEF TrieWellFormed
  <2>2. ASSUME NEW p \in Path(k), p \in Emptied(key) PROVE FALSE
    <3>1. p \in Places /\ Below(k, p)
      BY <2>1, <2>2, PathIsAbove
    <3>2. k \in Path(key) /\ (k # key => k \notin DOMAIN entry)
      BY <1>4, <2>1, <2>2, <3>1
    <3>3. k \notin DOMAIN entry'
      BY <1>1, <3>2
    <3>4. k \notin Emptied(key)
      BY <1>1, <1>6, <3>3
    <3>5. k[2] # <<>>
      <4>1. p[2] # <<>> /\ p[2] \in Seq(Tokens) /\ k[2] \in Seq(Tokens)
        BY <1>5, <2>1, <2>2, <3>1 DEF Places
      <4>2. Len(p[2]) <= Len(k[2])
        BY <3>1, <4>1, PrefixElements DEF Below
      <4> QED BY <4>1, <4>2
    <3>6. PICK n \in nodes : /\ Below(n, k)
                             /\ ~(n \in Path(key) /\ (n # key => n \notin DOMAIN entry))
      BY <3>2, <3>4, <3>5 DEF Emptied
    <3>7. Below(n, p)
      BY <1>2, <2>1, <3>1, <3>6, BelowTransitive
    <3> QED BY <1>4, <2>2, <3>6, <3>7
  <2> QED BY <1>1, <2>1, <2>2
<1>7. ASSUME NEW n \in nodes', n[2] # <<>> PROVE \E k \in DOMAIN entry' : Below(k, n)
  <2>1. n \in nodes /\ n \in Places /\ n \notin Emptied(key)
    BY <1>1, <1>2
  <2>2. PICK k \in DOMAIN entry : Below(k, n)
    BY <1>7, <2>1 DEF TrieWellFormed
  <2>3. CASE k # key
    BY <1>1, <2>2, <2>3
  <2>4. CASE k = key
    <3>1. n \in Path(key)
      BY <1>2, <2>1, <2>2, <2>4, PathIsAbove
    <3>2. PICK m \in nodes : /\ Below(m, n)
                             /\ ~(m \in Path(key) /\ (m # key => m \notin DOMAIN entry))
      BY <1>7, <2>1, <3>1 DEF Emptied
    <3>3. CASE m \in Path(key)
      BY <1>1, <3>2, <3>3
    <3>4. CASE m \notin Path(key)
      <4>1. m \in Places /\ m[2] # <<>>
        <5>1. n[2] # <<>> /\ n[2] \in Seq(Tokens) /\ m[2] \in Seq(Tokens) /\ m \in Places
          BY <1>2, <1>7, <2>1 DEF Places
        <5>2. Len(n[2]) <= Len(m[2])
          BY <3>2, <5>1, PrefixElements DEF Below
        <5> QED BY <5>1, <5>2
      <4>2. PICK j \in DOMAIN entry : Below(j, m)
        BY <4>1 DEF TrieWellFormed
      <4>3. j # key
        BY <1>2, <3>4, <4>1, <4>2, PathIsAbove
      <4>4. Below(j, n)
        BY <1>2, <2>1, <3>2, <4>1, <4>2, BelowTransitive
      <4> QED BY <1>1, <4>3, <4>4
    <3> QED BY <3>3, <3>4
  <2> QED BY <2>3, <2>4
<1> QED BY <1>6, <1>7 DEF TrieWellFormed

(* TrieWellFormed: through insertions, prefix removals and evictions the     *)
(* trie stays closed under prefixes and every branch of it ends in a value,  *)
(* on which PromptTrie.search relies when it looks for a longer entry.       *)
THEOREM TrieKeepsShape == Spec => []TrieWellFormed
<1>1. Init => TrieWellFormed
  BY DEF Init, TrieWellFormed
<1>2. IInv /\ TrieWellFormed /\ [Next]_vars => TrieWellFormed'
  <2> SUFFICES ASSUME IInv, TrieWellFormed, [Next]_vars PROVE TrieWellFormed'
    OBVIOUS
  <2>1. CASE \E key \in Keys, e \in Entries : Insert(key, e)
    BY <2>1, InsertKeepsShape
  <2>2. CASE DropPrefixes
    BY <2>2, DropPrefixesKeepsShape
  <2>3. CASE EvictFromTrie
    BY <2>3, EvictFromTrieKeepsShape
  <2>4. CASE UNCHANGED <<nodes, entry>>
    BY <2>4 DEF TrieWellFormed
  <2>5. \/ \E bytes \in Limits : TrimTo(bytes)
        \/ Push \/ ForgetPrefix \/ EvictFromLru \/ WithinSize \/ Return
        \/ FlushList \/ FlushEntry \/ UNCHANGED vars
        => UNCHANGED <<nodes, entry>>
    BY DEF TrimTo, Push, ForgetPrefix, EvictFromLru, WithinSize, Return, FlushList,
           FlushEntry, vars, cacheVars
  <2> QED BY <2>1, <2>2, <2>3, <2>4, <2>5 DEF Next
<1> QED BY <1>1, <1>2, Invariant, PTL DEF Spec

----------------------------------------
(* fetch_nearest_cache *)

(* The first n tokens of a request, and what has them as a prefix. *)
LEMMA FirstTokens ==
  ASSUME NEW q \in Seq(Tokens), NEW n \in 0..Len(q), NEW t \in Seq(Tokens)
  PROVE  /\ PrefixOf(q, n) \in Seq(Tokens) /\ Len(PrefixOf(q, n)) = n
         /\ IsPrefix(PrefixOf(q, n), t) <=>
              n <= Len(t) /\ \A i \in 1..n : q[i] = t[i]
<1>1. /\ PrefixOf(q, n) \in Seq(Tokens) /\ Len(PrefixOf(q, n)) = n
      /\ \A i \in 1..n : PrefixOf(q, n)[i] = q[i]
  BY DEF PrefixOf
<1>2. IsPrefix(PrefixOf(q, n), t) <=>
        n <= Len(t) /\ \A i \in 1..n : PrefixOf(q, n)[i] = t[i]
  BY <1>1, PrefixElements
<1> QED BY <1>1, <1>2

LEMMA FewerTokens ==
  ASSUME NEW q \in Seq(Tokens), NEW t \in Seq(Tokens), NEW n \in 0..Len(q), NEW j \in 0..n,
         IsPrefix(PrefixOf(q, n), t)
  PROVE  IsPrefix(PrefixOf(q, j), t)
<1>1. j \in 0..Len(q) /\ Len(t) \in Nat
  OBVIOUS
<1>2. n <= Len(t) /\ \A i \in 1..n : q[i] = t[i]
  BY FirstTokens
<1>3. j <= Len(t) /\ \A i \in 1..j : q[i] = t[i]
  BY <1>1, <1>2
<1> QED BY <1>1, <1>3, FirstTokens

(* All its tokens are the request itself. *)
LEMMA AllTokens ==
  ASSUME NEW q \in Seq(Tokens)
  PROVE  PrefixOf(q, Len(q)) = q
BY DEF PrefixOf

(* A request, on the way to whose end the trie is walked. *)
Asked(m, q) == m \in Models /\ q \in Prompts

LEMMA AskedType ==
  ASSUME NEW m, NEW q, Asked(m, q)
  PROVE  m \in Models /\ q \in Seq(Tokens) /\ Len(q) \in Nat
BY PromptsAssumption DEF Asked

(* The walk ends at the deepest node whose tokens begin the request. *)
LEMMA WalkIsDeepest ==
  ASSUME NEW m, NEW q, Asked(m, q)
  PROVE  /\ WalkLength(m, q) \in 0..Len(q)
         /\ WalkLength(m, q) > 0 => <<m, PrefixOf(q, WalkLength(m, q))>> \in nodes
         /\ \A n \in 1..Len(q) : <<m, PrefixOf(q, n)>> \in nodes => n <= WalkLength(m, q)
<1> DEFINE S == {0} \cup {n \in 1..Len(q) : <<m, PrefixOf(q, n)>> \in nodes}
<1>1. Len(q) \in Nat
  BY AskedType
<1>2. S \in SUBSET Nat /\ S # {} /\ \A x \in S : x <= Len(q)
  BY <1>1
<1>3. Max(S) \in S /\ \A y \in S : Max(S) >= y
  BY <1>1, <1>2, MaxIsGreatest
<1>4. WalkLength(m, q) = Max(S)
  BY DEF WalkLength
<1> QED BY <1>1, <1>3, <1>4

(* The longest valued prefix of at least two tokens. *)
LEMMA ShorterIsLongest ==
  ASSUME NEW m, NEW q, Asked(m, q)
  PROVE  /\ ShorterLength(m, q) \in 0..Len(q)
         /\ ShorterLength(m, q) > 0 =>
              /\ <<m, PrefixOf(q, ShorterLength(m, q))>> \in DOMAIN entry
              /\ ShorterLength(m, q) > 1
<1> DEFINE S == {0} \cup {n \in 2..Len(q) : <<m, PrefixOf(q, n)>> \in DOMAIN entry}
<1>1. Len(q) \in Nat
  BY AskedType
<1>2. S \in SUBSET Nat /\ S # {} /\ \A x \in S : x <= Len(q)
  BY <1>1
<1>3. Max(S) \in S
  BY <1>1, <1>2, MaxIsGreatest
<1>4. ShorterLength(m, q) = Max(S)
  BY DEF ShorterLength
<1> QED BY <1>1, <1>3, <1>4

(* Every entry and every node is a place of the trie, its way in the trie. *)
LEMMA WaysInTrie ==
  ASSUME IInv, TrieWellFormed, NEW m, NEW q, Asked(m, q), NEW k \in DOMAIN entry \cup nodes,
         k[1] = m, NEW n \in 0..Len(q), IsPrefix(PrefixOf(q, n), k[2])
  PROVE  <<m, PrefixOf(q, n)>> \in nodes
<1>1. m \in Models /\ q \in Seq(Tokens) /\ k \in Places
  BY AskedType, NodesArePlaces
<1>2. PrefixOf(q, n) \in Seq(Tokens)
  BY <1>1, FirstTokens
<1>3. <<m, PrefixOf(q, n)>> \in Places /\ Below(k, <<m, PrefixOf(q, n)>>)
  BY <1>1, <1>2 DEF Places, Below
<1>4. <<m, PrefixOf(q, n)>> \in Path(k)
  BY <1>1, <1>3, PathIsAbove
<1> QED BY <1>4 DEF TrieWellFormed

(* The walk is at least as deep as a prefix of the request that an entry has. *)
LEMMA WalkReaches ==
  ASSUME IInv, TrieWellFormed, NEW m, NEW q, Asked(m, q), NEW k \in DOMAIN entry, k[1] = m,
         NEW n \in 0..Len(q), IsPrefix(PrefixOf(q, n), k[2])
  PROVE  n <= WalkLength(m, q)
<1>1. <<m, PrefixOf(q, n)>> \in nodes /\ Len(q) \in Nat
  BY WaysInTrie, AskedType
<1>2. WalkLength(m, q) \in 0..Len(q)
      /\ \A j \in 1..Len(q) : <<m, PrefixOf(q, j)>> \in nodes => j <= WalkLength(m, q)
  BY WalkIsDeepest
<1>3. CASE n = 0
  BY <1>1, <1>2, <1>3
<1>4. CASE n \in 1..Len(q)
  BY <1>1, <1>2, <1>4
<1> QED BY <1>1, <1>3, <1>4

(* search() finds a continuation of the deepest common node: there is one, *)
(* as every branch ends in a value.                                        *)
LEMMA ContinuationExists ==
  ASSUME IInv, TrieWellFormed, NEW m, NEW q, Asked(m, q), WalkLength(m, q) > 0
  PROVE  /\ LongerKeys(m, q) # {}
         /\ \A k \in LongerKeys(m, q) :
              k \in DOMAIN entry /\ k[1] = m /\ IsPrefix(PrefixOf(q, WalkLength(m, q)), k[2])
<1> DEFINE common == <<m, PrefixOf(q, WalkLength(m, q))>>
           valued == {k \in DOMAIN entry : Below(k, common)}
<1>1. LongerKeys(m, q) = {k \in valued : \A other \in valued : Len(k[2]) <= Len(other[2])}
  BY DEF LongerKeys
<1>2. q \in Seq(Tokens) /\ WalkLength(m, q) \in 0..Len(q) /\ common \in nodes
  BY AskedType, WalkIsDeepest
<1>3. Len(PrefixOf(q, WalkLength(m, q))) = WalkLength(m, q)
  BY <1>2, FirstTokens
<1>4. common[2] # <<>>
  BY <1>2, <1>3
<1>5. valued # {}
  BY <1>2, <1>4 DEF TrieWellFormed
<1>6. \A k \in valued : Len(k[2]) \in Nat
  <2>1. \A k \in DOMAIN entry : k \in Models \X Seq(Tokens)
    BY NodesArePlaces DEF Places
  <2>2. \A k \in DOMAIN entry : k[2] \in Seq(Tokens)
    BY <2>1
  <2> QED BY <2>2
<1>7. \E k \in valued : \A other \in valued : Len(k[2]) <= Len(other[2])
  <2> HIDE DEF valued
  <2> DEFINE lengths == {n \in Nat : \E k \in valued : n = Len(k[2])}
  <2>1. lengths \in SUBSET Nat /\ lengths # {}
    BY <1>5, <1>6
  <2>2. PICK g \in lengths : \A h \in lengths : ~(<<h, g>> \in OpToRel(<, Nat))
    <3> HIDE DEF lengths
    <3> QED BY <2>1, NatLessThanWellFounded, WFMin, Zenon
  <2>3. g \in lengths
    <3> HIDE DEF lengths
    <3> QED BY <2>2, Zenon
  <2>4. PICK k \in valued : g = Len(k[2])
    BY <2>3
  <2>5. ASSUME NEW other \in valued PROVE Len(k[2]) <= Len(other[2])
    <3>1. Len(other[2]) \in lengths
      BY <1>6
    <3> HIDE DEF lengths
    <3>2. g \in Nat /\ Len(other[2]) \in Nat
      BY <2>1, <2>3, <3>1
    <3>3. <<Len(other[2]), g>> \in Nat \X Nat /\ <<Len(other[2]), g>>[1] = Len(other[2])
          /\ <<Len(other[2]), g>>[2] = g
      BY <3>2
    <3>4. ~(Len(other[2]) < g)
      BY <2>2, <3>1, <3>3, Zenon DEF OpToRel
    <3> QED BY <2>4, <3>2, <3>4
  <2> QED BY <2>5
<1>8. LongerKeys(m, q) # {}
  BY <1>1, <1>7
<1>9. ASSUME NEW k \in LongerKeys(m, q)
      PROVE  k \in DOMAIN entry /\ k[1] = m /\ IsPrefix(PrefixOf(q, WalkLength(m, q)), k[2])
  BY <1>1 DEF Below
<1> QED BY <1>8, <1>9

(* The four ways fetch_nearest_cache ends: with the prompt itself, with the  *)
(* cut cache of a longer entry, with the longest shorter one, or with none. *)
Exact(m, q, f) == <<m, q>> \in DOMAIN entry /\ f = [from |-> <<m, q>>, cached |-> Len(q)]

FromLonger(m, q, f) ==
  /\ <<m, q>> \notin DOMAIN entry
  /\ WalkLength(m, q) > ShorterLength(m, q)
  /\ \E k \in LongerKeys(m, q) :
       entry[k].trimmable /\ f = [from |-> k, cached |-> Min({Len(q) - 1, WalkLength(m, q)})]

(* No longer entry, or one that cannot be cut. *)
NoneLonger(m, q) ==
  /\ <<m, q>> \notin DOMAIN entry
  /\ \/ ~(WalkLength(m, q) > ShorterLength(m, q))
     \/ /\ WalkLength(m, q) > 0
        /\ \E k \in LongerKeys(m, q) : ~entry[k].trimmable

FromShorter(m, q, f) ==
  /\ NoneLonger(m, q) /\ ShorterLength(m, q) > 0
  /\ f = [from |-> <<m, PrefixOf(q, ShorterLength(m, q))>>, cached |-> ShorterLength(m, q)]

FromNone(m, q, f) ==
  /\ NoneLonger(m, q) /\ ~(ShorterLength(m, q) > 0)
  /\ f = Miss

LEMMA FetchWays ==
  ASSUME IInv, TrieWellFormed, NEW m, NEW q, Asked(m, q)
  PROVE  /\ Fetch(m, q) # {}
         /\ \A f \in Fetch(m, q) :
              Exact(m, q, f) \/ FromLonger(m, q, f) \/ FromShorter(m, q, f) \/ FromNone(m, q, f)
<1>1. /\ WalkLength(m, q) \in Nat /\ ShorterLength(m, q) \in Nat
      /\ WalkLength(m, q) > 0 => LongerKeys(m, q) # {}
  <2>1. Len(q) \in Nat
    BY AskedType
  <2>2. WalkLength(m, q) \in 0..Len(q) /\ ShorterLength(m, q) \in 0..Len(q)
    BY WalkIsDeepest, ShorterIsLongest
  <2>3. WalkLength(m, q) > 0 => LongerKeys(m, q) # {}
    BY ContinuationExists
  <2> QED BY <2>1, <2>2, <2>3
<1> DEFINE Shorter == IF ShorterLength(m, q) > 0
                        THEN [from |-> <<m, PrefixOf(q, ShorterLength(m, q))>>,
                              cached |-> ShorterLength(m, q)]
                        ELSE Miss
           Longer(k) == IF entry[k].trimmable
                          THEN [from |-> k, cached |-> Min({Len(q) - 1, WalkLength(m, q)})]
                          ELSE Shorter
<1>2. CASE <<m, q>> \in DOMAIN entry
  <2>1. Fetch(m, q) = {[from |-> <<m, q>>, cached |-> Len(q)]}
    BY <1>2 DEF Fetch
  <2> QED BY <1>2, <2>1 DEF Exact
<1>3. CASE <<m, q>> \notin DOMAIN entry /\ WalkLength(m, q) > ShorterLength(m, q)
  <2>1. Fetch(m, q) = {Longer(k) : k \in LongerKeys(m, q)}
    BY <1>3, Zenon DEF Fetch
  <2>2. WalkLength(m, q) > 0
    BY <1>1, <1>3
  <2>3. Fetch(m, q) # {}
    BY <1>1, <2>1, <2>2
  <2>4. ASSUME NEW f \in Fetch(m, q), NEW k \in LongerKeys(m, q), f = Longer(k)
        PROVE  FromLonger(m, q, f) \/ FromShorter(m, q, f) \/ FromNone(m, q, f)
    <3>1. CASE entry[k].trimmable
      BY <1>3, <2>4, <3>1 DEF FromLonger
    <3>2. CASE ~entry[k].trimmable
      <4>1. NoneLonger(m, q) /\ f = Shorter
        BY <1>3, <2>2, <2>4, <3>2 DEF NoneLonger
      <4> QED BY <4>1 DEF FromShorter, FromNone
    <3> QED BY <3>1, <3>2
  <2>5. \A f \in Fetch(m, q) : \E k \in LongerKeys(m, q) : f = Longer(k)
    BY <2>1
  <2> QED BY <2>3, <2>4, <2>5
<1>4. CASE <<m, q>> \notin DOMAIN entry /\ ~(WalkLength(m, q) > ShorterLength(m, q))
  <2>1. Fetch(m, q) = {Shorter}
    BY <1>4, Zenon DEF Fetch
  <2>2. NoneLonger(m, q)
    BY <1>4 DEF NoneLonger
  <2> QED BY <2>1, <2>2 DEF FromShorter, FromNone
<1> QED BY <1>2, <1>3, <1>4

(* What FetchSound says of one cache returned. *)
LEMMA FetchedIsSound ==
  ASSUME IInv, TrieWellFormed, NEW m, NEW q, Asked(m, q), NEW f \in Fetch(m, q), f # Miss
  PROVE  /\ f.from \in DOMAIN entry
         /\ f.from[1] = m
         /\ f.cached \in 0..Len(q)
         /\ IsPrefix(PrefixOf(q, f.cached), f.from[2])
         /\ f.cached < Len(f.from[2]) => entry[f.from].trimmable
         /\ f.cached = Len(q) => f.from[2] = q
<1>1. /\ m \in Models /\ q \in Seq(Tokens) /\ Len(q) \in Nat
      /\ WalkLength(m, q) \in 0..Len(q) /\ ShorterLength(m, q) \in 0..Len(q)
  BY AskedType, WalkIsDeepest, ShorterIsLongest
<1>2. CASE Exact(m, q, f)
  <2>1. /\ f.from = <<m, q>> /\ f.cached = Len(q) /\ f.from \in DOMAIN entry
        /\ f.from[1] = m /\ f.from[2] = q
    BY <1>2 DEF Exact
  <2>2. IsPrefix(PrefixOf(q, f.cached), f.from[2])
    BY <1>1, <2>1, FirstTokens
  <2> QED BY <1>1, <2>1, <2>2
<1>3. CASE FromLonger(m, q, f)
  <2>1. PICK k \in LongerKeys(m, q) :
          /\ entry[k].trimmable
          /\ f = [from |-> k, cached |-> Min({Len(q) - 1, WalkLength(m, q)})]
    BY <1>3 DEF FromLonger
  <2>2. WalkLength(m, q) > 0
    BY <1>1, <1>3 DEF FromLonger
  <2>3. k \in DOMAIN entry /\ k[1] = m /\ IsPrefix(PrefixOf(q, WalkLength(m, q)), k[2])
    BY <2>2, ContinuationExists
  <2>4. f.from = k /\ f.cached = Min({Len(q) - 1, WalkLength(m, q)})
    BY <2>1
  <2>5. f.cached \in 0..WalkLength(m, q) /\ f.cached < Len(q)
    <3>1. Min({Len(q) - 1, WalkLength(m, q)})
            = IF Len(q) - 1 <= WalkLength(m, q) THEN Len(q) - 1 ELSE WalkLength(m, q)
      BY <1>1, LeastOfTwo
    <3> QED BY <1>1, <2>2, <2>4, <3>1
  <2>6. k[2] \in Seq(Tokens)
    BY <2>3, NodesArePlaces DEF Places
  <2>7. IsPrefix(PrefixOf(q, f.cached), k[2])
    BY <1>1, <2>3, <2>5, <2>6, FewerTokens
  <2> QED BY <1>1, <2>1, <2>3, <2>4, <2>5, <2>7
<1>4. CASE FromShorter(m, q, f)
  <2>1. /\ f.from = <<m, PrefixOf(q, ShorterLength(m, q))>> /\ f.cached = ShorterLength(m, q)
        /\ f.from[1] = m /\ f.from[2] = PrefixOf(q, ShorterLength(m, q))
        /\ f.from \in DOMAIN entry
    BY <1>4, ShorterIsLongest DEF FromShorter
  <2>2. /\ Len(f.from[2]) = f.cached
        /\ f.from[2] \in Seq(Tokens)
    BY <1>1, <2>1, FirstTokens
  <2>3. IsPrefix(PrefixOf(q, f.cached), f.from[2])
    BY <1>1, <2>1, <2>2, PrefixElements
  <2>4. f.cached = Len(q) => f.from[2] = q
    BY <1>1, <2>1, AllTokens
  <2> QED BY <1>1, <2>1, <2>2, <2>3, <2>4
<1> QED BY <1>2, <1>3, <1>4, FetchWays DEF FromNone

LEMMA FetchIsSound ==
  ASSUME IInv, TrieWellFormed
  PROVE  FetchSound
<1>1. ASSUME NEW m \in Models, NEW q \in Prompts PROVE Asked(m, q)
  BY DEF Asked
<1> QED BY <1>1, FetchWays, FetchedIsSound DEF FetchSound

----------------------------------------
(* How many tokens of the request the key has. *)
Shared(k, q) == {n \in 0..Len(q) : IsPrefix(PrefixOf(q, n), k[2])}

LEMMA SharedIsCommon ==
  ASSUME IInv, NEW m, NEW q, Asked(m, q), NEW k \in DOMAIN entry
  PROVE  /\ Max(Shared(k, q)) \in 0..Len(q)
         /\ IsPrefix(PrefixOf(q, Max(Shared(k, q))), k[2])
         /\ \A n \in 0..Len(q) : IsPrefix(PrefixOf(q, n), k[2]) => n <= Max(Shared(k, q))
<1>1. q \in Seq(Tokens) /\ Len(q) \in Nat /\ k[2] \in Seq(Tokens) /\ Len(k[2]) \in Nat
  <2>1. k[2] \in Seq(Tokens)
    BY NodesArePlaces DEF Places
  <2> QED BY <2>1, AskedType
<1>2. 0 \in Shared(k, q)
  <2>1. 0 \in 0..Len(q) /\ 0 <= Len(k[2]) /\ \A i \in 1..0 : q[i] = k[2][i]
    BY <1>1
  <2> QED BY <1>1, <2>1, FirstTokens DEF Shared
<1>3. Shared(k, q) \in SUBSET Nat /\ \A n \in Shared(k, q) : n <= Len(q)
  BY <1>1 DEF Shared
<1>4. Max(Shared(k, q)) \in Shared(k, q) /\ \A n \in Shared(k, q) : Max(Shared(k, q)) >= n
  BY <1>1, <1>2, <1>3, MaxIsGreatest
<1> QED BY <1>3, <1>4 DEF Shared

(* The tokens an entry other than the request itself offers. *)
LEMMA ReuseOfOther ==
  ASSUME IInv, NEW m, NEW q, Asked(m, q), NEW k \in DOMAIN entry, k[2] # q
  PROVE  Reuse(k, q) = IF Len(q) - 1 <= Max(Shared(k, q)) THEN Len(q) - 1 ELSE Max(Shared(k, q))
<1>1. Len(q) - 1 \in Int /\ Max(Shared(k, q)) \in Int
  BY AskedType, SharedIsCommon
<1>2. Reuse(k, q) = Min({Len(q) - 1, Max(Shared(k, q))})
  BY DEF Reuse, Shared
<1> QED BY <1>1, <1>2, LeastOfTwo

(* The greatest of 0 and of what some entries offer, by its two properties. *)
LEMMA GreatestOffer ==
  ASSUME NEW mine, NEW q, NEW c \in Nat,
         \A k \in mine : Reuse(k, q) \in Int /\ Reuse(k, q) <= c,
         c = 0 \/ \E k \in mine : Reuse(k, q) = c
  PROVE  c = Max({0} \cup {Reuse(k, q) : k \in mine})
<1> DEFINE S == {0} \cup {Reuse(k, q) : k \in mine}
<1>1. c \in S /\ S \subseteq Int /\ \A y \in S : c >= y
  OBVIOUS
<1> HIDE DEF S
<1>2. \A z \in S : (\A y \in S : z >= y) => z = c
  BY <1>1
<1>3. Max(S) \in S /\ \A y \in S : Max(S) >= y
  BY <1>1, Zenon DEF Max
<1> QED BY <1>2, <1>3 DEF S

(* What is fetched is what the best entry offers. *)
LEMMA FetchedIsNearest ==
  ASSUME IInv, TrieWellFormed, NEW m, NEW q, Asked(m, q), NEW f \in Fetch(m, q),
         \A k \in DOMAIN entry : k[1] = m => entry[k].trimmable
  PROVE  f.cached = Max({0} \cup {Reuse(k, q) : k \in {k \in DOMAIN entry : k[1] = m}})
<1> DEFINE mine == {k \in DOMAIN entry : k[1] = m}
           common == WalkLength(m, q)
<1>1. /\ m \in Models /\ q \in Seq(Tokens) /\ Len(q) \in Nat
      /\ WalkLength(m, q) \in 0..Len(q) /\ ShorterLength(m, q) \in 0..Len(q)
  BY AskedType, WalkIsDeepest, ShorterIsLongest
<1>2. ASSUME NEW k \in mine
      PROVE  /\ k \in DOMAIN entry /\ k = <<m, k[2]>>
             /\ k[2] = q => <<m, q>> \in DOMAIN entry /\ Reuse(k, q) = Len(q)
             /\ Max(Shared(k, q)) \in 0..Len(q) /\ Max(Shared(k, q)) <= common
  <2>1. k \in DOMAIN entry /\ k = <<m, k[2]>>
    BY NodesArePlaces DEF Places
  <2>2. /\ Max(Shared(k, q)) \in 0..Len(q)
        /\ IsPrefix(PrefixOf(q, Max(Shared(k, q))), k[2])
    BY SharedIsCommon
  <2>3. Max(Shared(k, q)) <= common
    BY <2>2, WalkReaches
  <2> QED BY <2>1, <2>2, <2>3 DEF Reuse
<1>3. CASE Exact(m, q, f)
  <2>1. f.cached = Len(q) /\ <<m, q>> \in mine /\ Reuse(<<m, q>>, q) = Len(q)
    BY <1>3 DEF Exact, Reuse
  <2>2. ASSUME NEW k \in mine PROVE Reuse(k, q) \in Int /\ Reuse(k, q) <= Len(q)
    <3>1. CASE k[2] = q
      BY <1>1, <1>2, <3>1
    <3>2. CASE k[2] # q
      BY <1>1, <1>2, <3>2, ReuseOfOther
    <3> QED BY <3>1, <3>2
  <2> QED BY <1>1, <2>1, <2>2, GreatestOffer
<1>4. CASE <<m, q>> \notin DOMAIN entry
  <2>1. ASSUME NEW k \in mine
        PROVE  /\ k \in DOMAIN entry /\ Max(Shared(k, q)) \in 0..Len(q)
               /\ Max(Shared(k, q)) <= common
               /\ Reuse(k, q) = IF Len(q) - 1 <= Max(Shared(k, q)) THEN Len(q) - 1
                                ELSE Max(Shared(k, q))
    BY <1>2, <1>4, ReuseOfOther
  <2>2. CASE FromLonger(m, q, f)
    <3>1. PICK k \in LongerKeys(m, q) : f = [from |-> k, cached |-> Min({Len(q) - 1, common})]
      BY <2>2 DEF FromLonger
    <3>2. common > 0
      BY <1>1, <2>2 DEF FromLonger
    <3>3. k \in mine /\ IsPrefix(PrefixOf(q, common), k[2])
      BY <3>2, ContinuationExists
    <3>4. common <= Max(Shared(k, q))
      BY <1>1, <3>3, SharedIsCommon
    <3>5. f.cached = IF Len(q) - 1 <= common THEN Len(q) - 1 ELSE common
      BY <1>1, <3>1, LeastOfTwo
    <3> HIDE DEF mine, common
    <3>6. common \in 0..Len(q)
      BY <1>1 DEF common
    <3>7. f.cached \in Nat
      BY <1>1, <3>2, <3>5, <3>6
    <3>8. Reuse(k, q) = f.cached
      BY <1>1, <2>1, <3>3, <3>4, <3>5, <3>6
    <3>9. \A j \in mine : Reuse(j, q) \in Int /\ Reuse(j, q) <= f.cached
      BY <1>1, <2>1, <3>5, <3>6
    <3> QED BY <3>3, <3>7, <3>8, <3>9, GreatestOffer DEF mine
  <2>3. CASE NoneLonger(m, q)
    <3>1. common <= ShorterLength(m, q)
      <4>1. ~(\E k \in LongerKeys(m, q) : ~entry[k].trimmable) \/ ~(common > 0)
        BY ContinuationExists
      <4> QED BY <1>1, <2>3, <4>1 DEF NoneLonger
    <3>2. CASE FromShorter(m, q, f)
      <4> DEFINE k == <<m, PrefixOf(q, ShorterLength(m, q))>>
      <4>1. k \in mine /\ f.cached = ShorterLength(m, q) /\ ShorterLength(m, q) > 0
        BY <3>2, ShorterIsLongest DEF FromShorter
      <4>2. Len(k[2]) = ShorterLength(m, q) /\ k[2] \in Seq(Tokens)
        BY <1>1, FirstTokens
      <4>3. k[2] # q
        BY <1>4, <4>1
      <4>4. IsPrefix(PrefixOf(q, ShorterLength(m, q)), k[2])
        BY <1>1, <4>2, PrefixElements
      <4>5. ShorterLength(m, q) <= Max(Shared(k, q))
        BY <1>1, <4>1, <4>4, SharedIsCommon
      <4>6. ShorterLength(m, q) # Len(q)
        BY <4>3, AllTokens, <1>1
      <4> HIDE DEF k, mine, common
      <4>7. common \in 0..Len(q)
        BY <1>1 DEF common
      <4>8. Reuse(k, q) = f.cached
        BY <1>1, <2>1, <3>1, <4>1, <4>5, <4>6, <4>7
      <4>9. \A j \in mine : Reuse(j, q) \in Int /\ Reuse(j, q) <= f.cached
        BY <1>1, <2>1, <3>1, <4>1, <4>7
      <4>10. f.cached \in Nat
        BY <1>1, <4>1
      <4> QED BY <4>1, <4>8, <4>9, <4>10, GreatestOffer DEF mine
    <3>3. CASE FromNone(m, q, f)
      <4>1. f.cached = 0 /\ common = 0
        BY <1>1, <3>1, <3>3 DEF FromNone, Miss
      <4> HIDE DEF mine, common
      <4>2. \A j \in mine : Reuse(j, q) \in Int /\ Reuse(j, q) <= f.cached
        BY <1>1, <2>1, <4>1
      <4>3. f.cached \in Nat
        BY <4>1
      <4>4. f.cached = 0 \/ \E j \in mine : Reuse(j, q) = f.cached
        BY <4>1
      <4>5. f.cached = Max({0} \cup {Reuse(j, q) : j \in mine})
        BY <4>2, <4>3, <4>4, GreatestOffer
      <4> QED BY <4>5 DEF mine
    <3>4. \/ Exact(m, q, f) \/ FromLonger(m, q, f) \/ FromShorter(m, q, f) \/ FromNone(m, q, f)
      BY FetchWays
    <3> HIDE DEF mine, common
    <3> QED BY <1>3, <2>2, <3>2, <3>3, <3>4 DEF mine, common
  <2>4. \/ Exact(m, q, f) \/ FromLonger(m, q, f) \/ NoneLonger(m, q)
    BY FetchWays DEF FromShorter, FromNone
  <2> QED BY <1>3, <2>2, <2>3, <2>4
<1>5. Exact(m, q, f) \/ <<m, q>> \notin DOMAIN entry
  BY FetchWays DEF FromLonger, FromShorter, FromNone, NoneLonger
<1> QED BY <1>3, <1>4, <1>5

(* FetchNearest: fetch_nearest_cache returns a cache of the request's own     *)
(* model that holds a prefix of the request, cut only if it can be cut, and  *)
(* of the entries it searches none would have saved more tokens: the walk    *)
(* along the trie, which never looks at the other branches, misses nothing.  *)
THEOREM FetchFindsNearest == Spec => []FetchNearest
<1>1. IInv /\ TrieWellFormed => FetchNearest
  <2> SUFFICES ASSUME IInv, TrieWellFormed PROVE FetchNearest
    OBVIOUS
  <2>1. FetchSound
    BY FetchIsSound
  <2>2. ASSUME NEW m \in Models, NEW q \in Prompts,
               \A k \in {k \in DOMAIN entry : k[1] = m} : entry[k].trimmable,
               NEW f \in Fetch(m, q)
        PROVE  f.cached = Max({0} \cup {Reuse(k, q) : k \in {k \in DOMAIN entry : k[1] = m}})
    <3>1. Asked(m, q)
      BY DEF Asked
    <3>2. \A k \in DOMAIN entry : k[1] = m => entry[k].trimmable
      BY <2>2
    <3> QED BY <3>1, <3>2, FetchedIsNearest
  <2> QED BY <2>1, <2>2 DEF FetchNearest
<1> QED BY <1>1, Invariant, TrieKeepsShape, PTL

----------------------------------------
(* Limits: what the prompt cache keeps within them.                          *)

(* An order never grows when a key is removed from the orders. *)
LEMMA RemovedFromOrderShorter ==
  ASSUME IInv, NEW key
  PROVE  \A t \in Types : Len(RemovedFromOrder(key)[t]) <= Len(lru[t])
<1>1. /\ lru \in [Types -> Seq(Keys)]
      /\ \A t \in Types : IsInjective(lru[t])
  BY DEF IInv, TypeOK, OrdersMatchTrie
<1>2. FirstOrder(key) \in Types
  BY DEF FirstOrder, Types
<1>3. Len(RemoveFirst(lru[FirstOrder(key)], key)) <= Len(lru[FirstOrder(key)])
  BY <1>1, <1>2, RemoveFirstProperties
<1>4. CASE Entered(key) = {}
  BY <1>1, <1>4 DEF RemovedFromOrder
<1>5. CASE Entered(key) # {}
  <2>1. RemovedFromOrder(key) = [lru EXCEPT ![FirstOrder(key)] = RemoveFirst(@, key)]
    BY <1>5 DEF RemovedFromOrder
  <2> QED BY <1>1, <1>2, <1>3, <2>1
<1> QED BY <1>4, <1>5

----------------------------------------
(* The inductive invariant: an insertion adds one entry to a cache within   *)
(* its size and the size check takes one away again; the byte limit of a    *)
(* call is max_bytes, or the cache was within max_bytes when it started.    *)
CallLimits ==
  /\ pc \in {"idle", "push", "pop", "bytes"} => Sequences(lru) <= MaxSize
  /\ pc \in {"prefixes", "forget", "size"} => Sequences(lru) <= MaxSize + 1
  /\ pc = "idle" => nBytes <= MaxBytes
  /\ pc \in {"pop", "bytes"} => call.bytes = MaxBytes \/ nBytes <= MaxBytes
  /\ pc \in {"push", "prefixes", "forget", "size"} => call.bytes = MaxBytes

(* The number of entries of well-typed orders. *)
LEMMA SequencesType ==
  ASSUME NEW l \in [Types -> Seq(Keys)]
  PROVE  /\ Sequences(l) \in Nat
         /\ Len(l["assistant"]) \in Nat
         /\ Len(l["user"]) \in Nat
         /\ Len(l["system"]) \in Nat
  BY DEF Sequences, Types

(* Orders that are no longer hold no more entries. *)
LEMMA SequencesShorter ==
  ASSUME NEW old \in [Types -> Seq(Keys)], NEW new \in [Types -> Seq(Keys)],
         \A t \in Types : Len(new[t]) <= Len(old[t])
  PROVE  Sequences(new) <= Sequences(old)
<1>1. /\ Len(new["assistant"]) <= Len(old["assistant"])
      /\ Len(new["user"]) <= Len(old["user"])
      /\ Len(new["system"]) <= Len(old["system"])
  BY DEF Types
<1>2. /\ Len(new["assistant"]) \in Nat /\ Len(new["user"]) \in Nat /\ Len(new["system"]) \in Nat
      /\ Len(old["assistant"]) \in Nat /\ Len(old["user"]) \in Nat /\ Len(old["system"]) \in Nat
  BY DEF Types
<1>3. /\ Sequences(new) = Len(new["assistant"]) + Len(new["user"]) + Len(new["system"])
      /\ Sequences(old) = Len(old["assistant"]) + Len(old["user"]) + Len(old["system"])
  BY DEF Sequences
<1> QED BY <1>1, <1>2, <1>3 DEF Types

(* One order changes by d, the others keep their lengths. *)
LEMMA SequencesChange ==
  ASSUME NEW old \in [Types -> Seq(Keys)], NEW new \in [Types -> Seq(Keys)],
         NEW type \in Types, NEW d \in Int,
         Len(new[type]) = Len(old[type]) + d,
         \A t \in Types \ {type} : Len(new[t]) = Len(old[t])
  PROVE  Sequences(new) = Sequences(old) + d
<1>1. Len(old["assistant"]) \in Nat /\ Len(old["user"]) \in Nat /\ Len(old["system"]) \in Nat
  BY DEF Types
<1>5. /\ Sequences(new) = Len(new["assistant"]) + Len(new["user"]) + Len(new["system"])
      /\ Sequences(old) = Len(old["assistant"]) + Len(old["user"]) + Len(old["system"])
  BY DEF Sequences
<1>2. CASE type = "assistant"
  <2>1. /\ Len(new["assistant"]) = Len(old["assistant"]) + d
        /\ Len(new["user"]) = Len(old["user"]) /\ Len(new["system"]) = Len(old["system"])
    BY <1>2 DEF Types
  <2> QED BY <1>1, <1>5, <2>1 DEF Types
<1>3. CASE type = "user"
  <2>1. /\ Len(new["user"]) = Len(old["user"]) + d
        /\ Len(new["assistant"]) = Len(old["assistant"]) /\ Len(new["system"]) = Len(old["system"])
    BY <1>3 DEF Types
  <2> QED BY <1>1, <1>5, <2>1 DEF Types
<1>4. CASE type = "system"
  <2>1. /\ Len(new["system"]) = Len(old["system"]) + d
        /\ Len(new["assistant"]) = Len(old["assistant"]) /\ Len(new["user"]) = Len(old["user"])
    BY <1>4 DEF Types
  <2> QED BY <1>1, <1>5, <2>1 DEF Types
<1> QED BY <1>2, <1>3, <1>4 DEF Types

(* Insert takes a key out of its order at most. *)
LEMMA InsertLimits ==
  ASSUME IInv, IInv', CallLimits, NEW key \in Keys, NEW e \in Entries, Insert(key, e)
  PROVE  CallLimits'
<1>1. pc = "idle" /\ pc' = "push" /\ call'.bytes = MaxBytes
  BY DEF Insert, NoCall
<1>2. lru' = lru \/ lru' = RemovedFromOrder(key)
  BY DEF Insert
<1>3. lru \in [Types -> Seq(Keys)] /\ lru' \in [Types -> Seq(Keys)]
  BY DEF IInv, TypeOK
<1>4. \A t \in Types : Len(lru'[t]) <= Len(lru[t])
  BY <1>2, <1>3, RemovedFromOrderShorter
<1>5. Sequences(lru') <= Sequences(lru)
  BY <1>3, <1>4, SequencesShorter
<1>6. Sequences(lru') <= MaxSize
  BY <1>1, <1>3, <1>5, SequencesType, LimitsAssumption DEF CallLimits
<1> QED BY <1>1, <1>6 DEF CallLimits

(* Push adds one. *)
LEMMA PushLimits ==
  ASSUME IInv, IInv', CallLimits, Push
  PROVE  CallLimits'
<1>1. pc = "push" /\ pc' \in {"prefixes", "size"} /\ call' = call
  BY DEF Push
<1> DEFINE type == entry[call.key].type
<1>2. type \in Types
  BY <1>1 DEF IInv, CallConsistent, TypeOK, Entries
<1>3. lru' = [lru EXCEPT ![type] = Append(@, call.key)]
  BY DEF Push
<1>4. lru \in [Types -> Seq(Keys)] /\ call.key \in Keys
  BY <1>1 DEF IInv, CallConsistent, TypeOK
<1> HIDE DEF type
<1>5. Len(Append(lru[type], call.key)) = Len(lru[type]) + 1
  BY <1>2, <1>4
<1>6. /\ Len(lru'[type]) = Len(lru[type]) + 1
      /\ \A t \in Types \ {type} : Len(lru'[t]) = Len(lru[t])
  BY <1>2, <1>3, <1>4, <1>5
<1>7. Sequences(lru') = Sequences(lru) + 1
  <2>1. lru' \in [Types -> Seq(Keys)]
    BY DEF IInv, TypeOK
  <2>2. lru \in [Types -> Seq(Keys)] /\ type \in Types /\ 1 \in Int
    BY <1>2, <1>4
  <2>3. /\ Len(lru'[type]) = Len(lru[type]) + 1
        /\ \A t \in Types \ {type} : Len(lru'[t]) = Len(lru[t])
    BY <1>6
  <2> QED BY <2>1, <2>2, <2>3, SequencesChange
<1>8. Sequences(lru') <= MaxSize + 1
  BY <1>1, <1>4, <1>7, SequencesType, LimitsAssumption DEF CallLimits
<1> QED BY <1>1, <1>8 DEF CallLimits

(* Forgetting a prefix takes one away. *)
LEMMA ForgetLimits ==
  ASSUME IInv, IInv', CallLimits, ForgetPrefix
  PROVE  CallLimits'
<1>1. PICK old \in call.prefixes :
        /\ lru' = RemovedFromOrder(old.key)
        /\ call' = [call EXCEPT !.prefixes = @ \ {old}]
  BY DEF ForgetPrefix
<1>2. pc = "forget" /\ pc' \in {"size", "forget"} /\ call'.bytes = call.bytes
  BY <1>1 DEF ForgetPrefix, IInv, TypeOK
<1>3. lru \in [Types -> Seq(Keys)] /\ lru' \in [Types -> Seq(Keys)]
  BY DEF IInv, TypeOK
<1>4. Sequences(lru') <= Sequences(lru)
  BY <1>1, <1>3, RemovedFromOrderShorter, SequencesShorter
<1>5. Sequences(lru') <= MaxSize + 1
  BY <1>2, <1>3, <1>4, SequencesType, LimitsAssumption DEF CallLimits
<1> QED BY <1>2, <1>5 DEF CallLimits

(* The eviction of the size check, and those of the byte check, take one. *)
LEMMA EvictFromLruLimits ==
  ASSUME IInv, IInv', CallLimits, EvictFromLru
  PROVE  CallLimits'
<1> DEFINE type == VictimType
<1>1. /\ type \in Types /\ pc \in {"size", "bytes"}
      /\ lru \in [Types -> Seq(Keys)]
  BY DEF EvictFromLru, VictimType, Types, IInv, TypeOK
<1>2. CASE lru[type] = <<>>
  <2>1. pc' = "raised"
    BY <1>2 DEF EvictFromLru
  <2> QED BY <2>1 DEF CallLimits
<1>3. CASE lru[type] # <<>>
  <2>1. /\ lru' = [lru EXCEPT ![type] = Tail(@)]
        /\ pc' = "pop" /\ nBytes' = nBytes
        /\ call'.bytes = call.bytes
    BY <1>3 DEF EvictFromLru, IInv, TypeOK
  <2> HIDE DEF type
  <2>2. Len(Tail(lru[type])) = Len(lru[type]) - 1
    BY <1>1, <1>3
  <2>3. /\ Len(lru'[type]) = Len(lru[type]) - 1
        /\ \A t \in Types \ {type} : Len(lru'[t]) = Len(lru[t])
    BY <1>1, <2>1, <2>2
  <2>4. Sequences(lru) = Sequences(lru') + 1
    <3>1. lru' \in [Types -> Seq(Keys)]
      BY DEF IInv, TypeOK
    <3>2. /\ Len(lru[type]) = Len(lru'[type]) + 1
          /\ \A t \in Types \ {type} : Len(lru[t]) = Len(lru'[t])
      BY <1>1, <2>3, <3>1
    <3>3. lru \in [Types -> Seq(Keys)] /\ type \in Types /\ 1 \in Int
      BY <1>1
    <3> QED BY <3>1, <3>2, <3>3, SequencesChange
  <2>5. Sequences(lru') <= MaxSize
    <3>1. lru' \in [Types -> Seq(Keys)]
      BY DEF IInv, TypeOK
    <3> QED BY <1>1, <2>4, <3>1, SequencesType, LimitsAssumption DEF CallLimits
  <2> QED BY <1>1, <2>1, <2>5 DEF CallLimits
<1> QED BY <1>2, <1>3

(* The bytes of a victim are not negative. *)
LEMMA EvictFromTrieLimits ==
  ASSUME IInv, CallLimits, EvictFromTrie
  PROVE  CallLimits'
<1> DEFINE n == entry[call.victim].nbytes
<1>1. pc = "pop" /\ call.victim \in DOMAIN entry
  BY DEF EvictFromTrie, IInv, CallConsistent
<1>2. n \in Nat
  BY <1>1, SizesAssumption DEF IInv, TypeOK, Entries
<1>3. /\ nBytes' = nBytes - n /\ lru' = lru /\ pc' = "bytes"
      /\ call'.bytes = call.bytes
      /\ nBytes \in Int
  BY <1>1 DEF EvictFromTrie, IInv, TypeOK
<1> HIDE DEF n
<1>4. nBytes <= MaxBytes => nBytes' <= MaxBytes
  BY <1>2, <1>3, LimitsAssumption
<1> QED BY <1>1, <1>3, <1>4 DEF CallLimits

(* The other steps do not touch the orders and the counters; WithinSize and *)
(* Return are only taken within the limit.                                  *)
LEMMA OtherLimits ==
  ASSUME IInv, CallLimits,
         \/ \E bytes \in Limits : TrimTo(bytes)
         \/ DropPrefixes \/ WithinSize \/ Return
         \/ FlushList \/ FlushEntry \/ UNCHANGED vars
  PROVE  CallLimits'
<1>1. ASSUME NEW bytes \in Limits, TrimTo(bytes) PROVE CallLimits'
  BY <1>1 DEF TrimTo, cacheVars, CallLimits
<1>2. CASE DropPrefixes
  <2>1. /\ pc = "prefixes" /\ pc' \in {"size", "forget"}
        /\ lru' = lru /\ call'.bytes = call.bytes
    BY <1>2 DEF DropPrefixes, IInv, TypeOK
  <2> QED BY <2>1 DEF CallLimits
<1>3. CASE WithinSize
  <2>1. /\ pc = "size" /\ pc' = "bytes" /\ ~(Sequences(lru) > MaxSize)
        /\ UNCHANGED <<lru, nBytes, call>>
    BY <1>3 DEF WithinSize, OverLimit, cacheVars
  <2>2. Sequences(lru) <= MaxSize
    BY <2>1, SequencesType, LimitsAssumption DEF IInv, TypeOK
  <2> QED BY <2>1, <2>2 DEF CallLimits
<1>4. CASE Return
  <2>1. /\ pc = "bytes" /\ pc' = "idle" /\ ~(nBytes > call.bytes)
        /\ UNCHANGED <<lru, nBytes>>
    BY <1>4 DEF Return, OverLimit, cacheVars
  <2>2. nBytes \in Int /\ call.bytes \in Nat
    BY DEF IInv, TypeOK
  <2>3. nBytes <= MaxBytes
    BY <2>1, <2>2, LimitsAssumption DEF CallLimits
  <2> QED BY <2>1, <2>3 DEF CallLimits
<1>5. CASE FlushList \/ FlushEntry \/ UNCHANGED vars
  <2>1. UNCHANGED <<lru, nBytes, pc, call>>
    BY <1>5 DEF FlushList, FlushEntry, vars, cacheVars
  <2> QED BY <2>1 DEF CallLimits
<1> QED BY <1>1, <1>2, <1>3, <1>4, <1>5

(* The limits of a running call hold in every state. *)
LEMMA LimitsInvariant == Spec => []CallLimits
<1>1. Init => CallLimits
  BY LimitsAssumption DEF Init, CallLimits, Sequences, Types
<1>2. IInv /\ IInv' /\ CallLimits /\ [Next]_vars => CallLimits'
  BY InsertLimits, PushLimits, ForgetLimits, EvictFromLruLimits,
     EvictFromTrieLimits, OtherLimits DEF Next
<1> QED BY <1>1, <1>2, Invariant, PTL DEF Spec

(* WithinLimits: whatever is inserted and trimmed, LRUPromptCache respects *)
(* max_size and max_bytes between its operations, although its size check  *)
(* evicts a single entry.                                                  *)
THEOREM LimitsRespected == Spec => []WithinLimits
<1>1. CallLimits => WithinLimits
  BY DEF CallLimits, WithinLimits
<1> QED BY <1>1, LimitsInvariant, PTL

----------------------------------------
(* The byte counters *)

(* What an entry weighs in the counter of a type; the entries of the trie *)
(* and those a running call has taken out of it.                          *)
SizeIn(t, e) == IF e.type = t THEN e.nbytes ELSE 0
Weights(t, e) == [k \in DOMAIN e |-> SizeIn(t, e[k])]
Retired(t, ps) == [p \in ps |-> SizeIn(t, p.value)]
HeldIn(t) == SumFunction(Weights(t, entry)) + SumFunction(Retired(t, call.prefixes))

(* The inductive invariant: the counters are these sums, and the sums finite. *)
Accounted ==
  /\ IsFiniteSet(DOMAIN entry) /\ IsFiniteSet(call.prefixes)
  /\ \A t \in Types : typeBytes[t] = HeldIn(t)
  /\ nBytes = HeldIn("assistant") + HeldIn("user") + HeldIn("system")

(* With the types, that is BytesAccounted. *)
LEMMA AccountedMeans ==
  ASSUME IInv, Accounted
  PROVE  BytesAccounted
<1>1. \A t : HeldIn(t) = Held(t)
  BY DEF HeldIn, Held, Weights, Retired, SizeIn
<1> QED BY <1>1 DEF IInv, Accounted, BytesAccounted, HeldInAll

(* What an entry weighs is an integer, in one counter. *)
LEMMA SizeType ==
  ASSUME NEW e \in Entries
  PROVE  /\ e.type \in Types /\ e.nbytes \in Int
         /\ \A t : SizeIn(t, e) \in Int
         /\ e.nbytes = SizeIn("assistant", e) + SizeIn("user", e) + SizeIn("system", e)
<1>1. e.type \in Types /\ e.nbytes \in Int
  BY EntryFields
<1>2. \A t : SizeIn(t, e) \in Int
  BY <1>1 DEF SizeIn
<1>3. e.nbytes = SizeIn("assistant", e) + SizeIn("user", e) + SizeIn("system", e)
  BY <1>1 DEF SizeIn, Types
<1> QED BY <1>1, <1>2, <1>3

(* The sums are integers, and without an element less by what it weighs. *)
LEMMA WeightsWithout ==
  ASSUME NEW t, NEW e, IsFiniteSet(DOMAIN e), \A k \in DOMAIN e : e[k] \in Entries
  PROVE  /\ SumFunction(Weights(t, e)) \in Int
         /\ \A x \in DOMAIN e : SumFunction(Weights(t, e))
                                  = SizeIn(t, e[x]) + SumFunction(Weights(t, Without(e, x)))
<1>1. DOMAIN Weights(t, e) = DOMAIN e /\ \A k \in DOMAIN e : Weights(t, e)[k] = SizeIn(t, e[k])
  BY DEF Weights
<1>2. \A k \in DOMAIN Weights(t, e) : Weights(t, e)[k] \in Int
  BY <1>1, SizeType
<1>3. SumFunction(Weights(t, e)) \in Int
  BY <1>1, <1>2, SumType
<1>4. ASSUME NEW x \in DOMAIN e
      PROVE  SumFunction(Weights(t, e))
               = SizeIn(t, e[x]) + SumFunction(Weights(t, Without(e, x)))
  <2>1. Without(Weights(t, e), x) = Weights(t, Without(e, x))
    BY DEF Without, Weights
  <2>2. SumFunction(Weights(t, e)) = Weights(t, e)[x] + SumFunction(Without(Weights(t, e), x))
    BY <1>1, <1>2, SumWithout
  <2> QED BY <1>1, <2>1, <2>2
<1> QED BY <1>3, <1>4

LEMMA RetiredWithout ==
  ASSUME NEW t, NEW ps, IsFiniteSet(ps), \A p \in ps : p.value \in Entries
  PROVE  /\ SumFunction(Retired(t, ps)) \in Int
         /\ \A x \in ps : SumFunction(Retired(t, ps))
                            = SizeIn(t, x.value) + SumFunction(Retired(t, ps \ {x}))
<1>1. DOMAIN Retired(t, ps) = ps /\ \A p \in ps : Retired(t, ps)[p] = SizeIn(t, p.value)
  BY DEF Retired
<1>2. \A p \in DOMAIN Retired(t, ps) : Retired(t, ps)[p] \in Int
  BY <1>1, SizeType
<1>3. SumFunction(Retired(t, ps)) \in Int
  BY <1>1, <1>2, SumType
<1>4. ASSUME NEW x \in ps
      PROVE  SumFunction(Retired(t, ps))
               = SizeIn(t, x.value) + SumFunction(Retired(t, ps \ {x}))
  <2>1. Without(Retired(t, ps), x) = Retired(t, ps \ {x})
    BY DEF Without, Retired
  <2>2. SumFunction(Retired(t, ps)) = Retired(t, ps)[x] + SumFunction(Without(Retired(t, ps), x))
    BY <1>1, <1>2, SumWithout
  <2> QED BY <1>1, <2>1, <2>2
<1> QED BY <1>3, <1>4

LEMMA NoneRetired ==
  ASSUME NEW t
  PROVE  SumFunction(Retired(t, {})) = 0
<1>1. DOMAIN Retired(t, {}) = {}
  BY DEF Retired
<1> QED BY <1>1, SumOfNone

(* Values that leave the trie for the running call weigh the same there. *)
Kept(e, dropped) == [k \in DOMAIN e \ dropped |-> e[k]]
Taken(e, dropped) == {[key |-> k, value |-> e[k]] : k \in dropped}

LEMMA TakenWeighsTheSame ==
  ASSUME NEW t, NEW e, IsFiniteSet(DOMAIN e), \A k \in DOMAIN e : e[k] \in Entries,
         NEW dropped \in SUBSET DOMAIN e
  PROVE  /\ IsFiniteSet(Taken(e, dropped)) /\ IsFiniteSet(DOMAIN Kept(e, dropped))
         /\ SumFunction(Weights(t, e))
              = SumFunction(Weights(t, Kept(e, dropped))) + SumFunction(Retired(t, Taken(e, dropped)))
<1> DEFINE D == DOMAIN e
           Same(s) == /\ IsFiniteSet(Taken(e, s))
                      /\ SumFunction(Weights(t, e))
                           = SumFunction(Weights(t, Kept(e, s))) + SumFunction(Retired(t, Taken(e, s)))
           Has == {n \in Nat : \A s \in UpTo(D, n) : Same(s)}
<1>1. ASSUME NEW s \in SUBSET D
      PROVE  /\ DOMAIN Kept(e, s) = D \ s /\ IsFiniteSet(D \ s)
             /\ \A k \in D \ s : Kept(e, s)[k] = e[k] /\ Kept(e, s)[k] \in Entries
             /\ \A p \in Taken(e, s) : p.value \in Entries
  <2>1. D \ s \in SUBSET D
    OBVIOUS
  <2>2. IsFiniteSet(D \ s)
    BY <2>1, FS_Subset
  <2> QED BY <2>2 DEF Kept, Taken
<1>2. Same({})
  <2>1. Kept(e, {}) = [k \in D |-> e[k]] /\ Taken(e, {}) = {}
    BY DEF Kept, Taken
  <2>2. Weights(t, Kept(e, {})) = Weights(t, e)
    BY <2>1 DEF Weights
  <2>3. SumFunction(Weights(t, e)) \in Int
    BY WeightsWithout
  <2>4. SumFunction(Retired(t, Taken(e, {}))) = 0
    BY <2>1, NoneRetired
  <2>5. IsFiniteSet(Taken(e, {}))
    BY <2>1, FS_EmptySet
  <2> QED BY <2>2, <2>3, <2>4, <2>5
<1>3. 0 \in Has
  <2> SUFFICES ASSUME NEW s \in UpTo(D, 0) PROVE Same(s)
    OBVIOUS
  <2>1. s \in SUBSET D /\ Cardinality(s) <= 0
    BY DEF UpTo
  <2>2. Cardinality(s) \in Nat /\ (Cardinality(s) = 0 <=> s = {})
    BY <2>1, SizeWithout
  <2>3. s = {}
    BY <2>1, <2>2
  <2> HIDE DEF Same
  <2> QED BY <1>2, <2>3
<1>4. ASSUME NEW n \in Nat, n \in Has PROVE n + 1 \in Has
  <2> SUFFICES ASSUME NEW s \in UpTo(D, n + 1) PROVE Same(s)
    OBVIOUS
  <2>1. s \in SUBSET D /\ Cardinality(s) <= n + 1
    BY DEF UpTo
  <2>2. CASE s = {}
    <3> HIDE DEF Same
    <3> QED BY <1>2, <2>2
  <2>3. CASE s # {}
    <3>1. PICK x : x \in s
      BY <2>3
    <3> DEFINE r == s \ {x}
               record == [key |-> x, value |-> e[x]]
    <3>2. Cardinality(r) = Cardinality(s) - 1 /\ r \in SUBSET D /\ Cardinality(s) \in Nat
      BY <2>1, <3>1, SizeWithout
    <3>3. r \in UpTo(D, n)
      BY <2>1, <3>2 DEF UpTo
    <3>4. Same(r)
      BY <1>4, <3>3
    <3>5. x \in D \ r /\ Kept(e, s) = Without(Kept(e, r), x) /\ Kept(e, r)[x] = e[x]
      <4>1. x \in D \ r /\ (D \ r) \ {x} = D \ s
        BY <2>1, <3>1
      <4>2. DOMAIN Kept(e, r) = D \ r /\ \A k \in D \ r : Kept(e, r)[k] = e[k]
        BY DEF Kept
      <4>3. Without(Kept(e, r), x) = [k \in D \ s |-> e[k]]
        BY <4>1, <4>2 DEF Without
      <4> QED BY <4>1, <4>2, <4>3 DEF Kept
    <3>6. Taken(e, r) = Taken(e, s) \ {record} /\ record \in Taken(e, s)
          /\ Taken(e, s) = Taken(e, r) \cup {record} /\ record.value = e[x]
      BY <3>1 DEF Taken
    <3> HIDE DEF r, record
    <3>7. IsFiniteSet(Taken(e, s))
      BY <3>4, <3>6, FS_AddElement
    <3>8. SumFunction(Weights(t, Kept(e, r)))
            = SizeIn(t, e[x]) + SumFunction(Weights(t, Kept(e, s)))
      <4> DEFINE kept == Kept(e, r)
      <4>1. IsFiniteSet(DOMAIN kept) /\ (\A k \in DOMAIN kept : kept[k] \in Entries)
            /\ x \in DOMAIN kept
        BY <1>1, <3>2, <3>5
      <4> HIDE DEF kept
      <4>2. SumFunction(Weights(t, kept)) = SizeIn(t, kept[x]) + SumFunction(Weights(t, Without(kept, x)))
        BY <4>1, WeightsWithout
      <4> QED BY <3>5, <4>2 DEF kept
    <3>9. SumFunction(Retired(t, Taken(e, s)))
            = SizeIn(t, e[x]) + SumFunction(Retired(t, Taken(e, r)))
      <4> DEFINE taken == Taken(e, s)
      <4>1. IsFiniteSet(taken) /\ (\A p \in taken : p.value \in Entries) /\ record \in taken
        BY <1>1, <2>1, <3>6, <3>7
      <4> HIDE DEF taken
      <4>2. SumFunction(Retired(t, taken))
              = SizeIn(t, record.value) + SumFunction(Retired(t, taken \ {record}))
        BY <4>1, RetiredWithout
      <4> QED BY <3>6, <4>2 DEF taken
    <3>10. /\ SumFunction(Weights(t, Kept(e, s))) \in Int
           /\ SumFunction(Retired(t, Taken(e, r))) \in Int
           /\ SizeIn(t, e[x]) \in Int
      <4>1. SumFunction(Weights(t, Kept(e, s))) \in Int
        BY <1>1, <2>1, WeightsWithout
      <4>2. SumFunction(Retired(t, Taken(e, r))) \in Int
        BY <1>1, <3>2, <3>4, RetiredWithout
      <4>3. SizeIn(t, e[x]) \in Int
        BY <2>1, <3>1, SizeType
      <4> QED BY <4>1, <4>2, <4>3
    <3> QED BY <3>4, <3>7, <3>8, <3>9, <3>10
  <2> QED BY <2>2, <2>3
<1>5. Nat \subseteq Has
  <2> HIDE DEF Has
  <2> QED BY <1>3, <1>4, SetInduction
<1>6. Cardinality(D) \in Nat /\ dropped \in UpTo(D, Cardinality(D))
  BY SizeWithout, FS_CardinalityType DEF UpTo
<1>7. Same(dropped)
  <2> HIDE DEF Same
  <2> QED BY <1>5, <1>6
<1> QED BY <1>1, <1>7

----------------------------------------
(* The sums a state's counters are compared with are integers. *)
LEMMA HeldType ==
  ASSUME IInv, Accounted, NEW t \in Types
  PROVE  /\ SumFunction(Weights(t, entry)) \in Int
         /\ SumFunction(Retired(t, call.prefixes)) \in Int
         /\ typeBytes[t] = SumFunction(Weights(t, entry)) + SumFunction(Retired(t, call.prefixes))
<1>1. \A k \in DOMAIN entry : entry[k] \in Entries
  BY DEF IInv, TypeOK
<1>2. \A p \in call.prefixes : p.value \in Entries
  BY DEF IInv, TypeOK
<1>3. SumFunction(Weights(t, entry)) \in Int
  BY <1>1, WeightsWithout DEF Accounted
<1>4. SumFunction(Retired(t, call.prefixes)) \in Int
  BY <1>2, RetiredWithout DEF Accounted
<1> QED BY <1>3, <1>4 DEF Accounted, HeldIn

(* Nothing but the trie, the counters and the prefixes matters here. *)
LEMMA AccountedUnchanged ==
  ASSUME Accounted, UNCHANGED <<entry, nBytes, typeBytes>>, call'.prefixes = call.prefixes
  PROVE  Accounted'
BY DEF Accounted, HeldIn

(* The counters are right again when each sum changed as its counter did. *)
LEMMA AccountedChanged ==
  ASSUME IInv, Accounted, NEW d \in [Types -> Int],
         IsFiniteSet(DOMAIN entry'), IsFiniteSet(call'.prefixes),
         \A t \in Types : HeldIn(t)' = HeldIn(t) + d[t],
         \A t \in Types : typeBytes'[t] = typeBytes[t] + d[t],
         nBytes' = nBytes + (d["assistant"] + d["user"] + d["system"])
  PROVE  Accounted'
<1>1. \A t \in Types : HeldIn(t) \in Int /\ typeBytes[t] = HeldIn(t) /\ d[t] \in Int
  BY HeldType DEF HeldIn
<1>2. \A t \in Types : typeBytes'[t] = HeldIn(t)'
  BY <1>1
<1>3. "assistant" \in Types /\ "user" \in Types /\ "system" \in Types
  BY DEF Types
<1>4. nBytes = HeldIn("assistant") + HeldIn("user") + HeldIn("system")
  BY DEF Accounted
<1>5. /\ HeldIn("assistant")' = HeldIn("assistant") + d["assistant"]
      /\ HeldIn("user")' = HeldIn("user") + d["user"]
      /\ HeldIn("system")' = HeldIn("system") + d["system"]
  BY <1>3
<1>6. nBytes' = HeldIn("assistant")' + HeldIn("user")' + HeldIn("system")'
  BY <1>1, <1>3, <1>4, <1>5
<1> QED BY <1>2, <1>6 DEF Accounted

(* An insertion adds the entry and deducts the one it replaces. *)
LEMMA InsertAccounts ==
  ASSUME IInv, IInv', Accounted, NEW key \in Keys, NEW e \in Entries, Insert(key, e)
  PROVE  Accounted'
<1> DEFINE old(t) == IF key \in DOMAIN entry THEN SizeIn(t, entry[key]) ELSE 0
           d == [t \in Types |-> SizeIn(t, e) - old(t)]
<1>1. /\ entry' = [k \in DOMAIN entry \cup {key} |-> IF k = key THEN e ELSE entry[k]]
      /\ nBytes' = nBytes + e.nbytes - (IF key \in DOMAIN entry THEN entry[key].nbytes ELSE 0)
      /\ typeBytes' = [t \in Types |-> typeBytes[t] + SizeIn(t, e) - old(t)]
      /\ call.prefixes = {} /\ call'.prefixes = {}
  BY DEF Insert, SizeIn, IInv, CallConsistent, NoCall
<1>2. /\ \A k \in DOMAIN entry : entry[k] \in Entries
      /\ \A k \in DOMAIN entry' : entry'[k] \in Entries
      /\ nBytes \in Int /\ typeBytes \in [Types -> Int]
  BY DEF IInv, TypeOK
<1>3. DOMAIN entry' = DOMAIN entry \cup {key} /\ entry'[key] = e
  BY <1>1
<1>4. IsFiniteSet(DOMAIN entry) /\ IsFiniteSet(DOMAIN entry')
  BY <1>3, FS_AddElement DEF Accounted
<1>5. \A t \in Types : old(t) \in Int /\ SizeIn(t, e) \in Int
  BY <1>2, SizeType
<1>6. ASSUME NEW t \in Types
      PROVE  SumFunction(Weights(t, entry')) = SumFunction(Weights(t, entry)) + (SizeIn(t, e) - old(t))
  <2> DEFINE rest == SumFunction(Weights(t, Without(entry', key)))
  <2>1. SumFunction(Weights(t, entry')) = SizeIn(t, e) + rest /\ SumFunction(Weights(t, entry')) \in Int
    <3>1. key \in DOMAIN entry'
      BY <1>3
    <3>2. SumFunction(Weights(t, entry')) = SizeIn(t, entry'[key]) + rest
      BY <1>2, <1>4, <3>1, WeightsWithout
    <3>3. SumFunction(Weights(t, entry')) \in Int
      BY <1>2, <1>4, WeightsWithout
    <3> QED BY <1>3, <3>2, <3>3
  <2>2. SumFunction(Weights(t, entry)) \in Int
    BY <1>2, <1>4, WeightsWithout
  <2>3. rest \in Int
    <3>1. Without(entry', key) = [k \in DOMAIN entry \ {key} |-> entry[k]]
      BY <1>1 DEF Without
    <3> DEFINE w == Without(entry', key)
    <3>2. DOMAIN w = DOMAIN entry \ {key} /\ \A k \in DOMAIN w : w[k] \in Entries
      BY <1>2, <3>1
    <3>3. IsFiniteSet(DOMAIN w)
      BY <1>4, <3>2, FS_RemoveElement
    <3> HIDE DEF w
    <3>4. SumFunction(Weights(t, w)) \in Int
      BY <3>2, <3>3, WeightsWithout
    <3> QED BY <3>4 DEF w
  <2>4. CASE key \in DOMAIN entry
    <3>1. Without(entry', key) = Without(entry, key)
      BY <1>1 DEF Without
    <3>2. SumFunction(Weights(t, entry)) = SizeIn(t, entry[key]) + rest
      BY <1>2, <1>4, <2>4, <3>1, WeightsWithout
    <3>3. old(t) = SizeIn(t, entry[key])
      BY <2>4
    <3> HIDE DEF rest, old
    <3> QED BY <1>5, <2>1, <2>3, <3>2, <3>3
  <2>5. CASE key \notin DOMAIN entry
    <3>1. Weights(t, Without(entry', key)) = Weights(t, entry)
      BY <1>1, <2>5 DEF Without, Weights
    <3>2. SumFunction(Weights(t, entry)) = rest
      BY <3>1
    <3>3. old(t) = 0
      BY <2>5
    <3> HIDE DEF rest, old
    <3> QED BY <1>5, <2>1, <2>3, <3>2, <3>3
  <2> QED BY <2>4, <2>5
<1>7. ASSUME NEW t \in Types PROVE HeldIn(t)' = HeldIn(t) + d[t]
  <2>1. SumFunction(Retired(t, call.prefixes)) = 0 /\ SumFunction(Retired(t, call'.prefixes)) = 0
    BY <1>1, NoneRetired
  <2>2. SumFunction(Weights(t, entry)) \in Int
    BY HeldType
  <2>3. HeldIn(t) = SumFunction(Weights(t, entry)) + SumFunction(Retired(t, call.prefixes))
        /\ HeldIn(t)' = SumFunction(Weights(t, entry')) + SumFunction(Retired(t, call'.prefixes))
    BY DEF HeldIn
  <2>4. d[t] = SizeIn(t, e) - old(t) /\ d[t] \in Int
    BY <1>5
  <2> HIDE DEF d, old
  <2> QED BY <1>6, <2>1, <2>2, <2>3, <2>4
<1>8. d \in [Types -> Int] /\ \A t \in Types : typeBytes'[t] = typeBytes[t] + d[t]
  <2>1. \A t \in Types : typeBytes[t] \in Int
    BY <1>2
  <2> HIDE DEF old
  <2> QED BY <1>1, <1>5, <2>1
<1>9. nBytes' = nBytes + (d["assistant"] + d["user"] + d["system"])
  <2>1. d["assistant"] + d["user"] + d["system"]
          = e.nbytes - (IF key \in DOMAIN entry THEN entry[key].nbytes ELSE 0)
    <3>1. /\ d["assistant"] = SizeIn("assistant", e) - old("assistant")
          /\ d["user"] = SizeIn("user", e) - old("user")
          /\ d["system"] = SizeIn("system", e) - old("system")
      BY DEF Types
    <3>2. e.nbytes = SizeIn("assistant", e) + SizeIn("user", e) + SizeIn("system", e)
      BY SizeType
    <3>3. (IF key \in DOMAIN entry THEN entry[key].nbytes ELSE 0)
            = old("assistant") + old("user") + old("system")
      BY <1>2, SizeType
    <3>4. /\ old("assistant") \in Int /\ old("user") \in Int /\ old("system") \in Int
          /\ SizeIn("assistant", e) \in Int /\ SizeIn("user", e) \in Int /\ SizeIn("system", e) \in Int
      BY <1>5 DEF Types
    <3> HIDE DEF old, d
    <3> QED BY <3>1, <3>2, <3>3, <3>4
  <2>2. e.nbytes \in Int /\ (IF key \in DOMAIN entry THEN entry[key].nbytes ELSE 0) \in Int
    BY <1>2, SizeType
  <2> HIDE DEF d
  <2> QED BY <1>1, <1>2, <2>1, <2>2
<1>10. IsFiniteSet(call'.prefixes)
  BY <1>1, FS_EmptySet
<1> HIDE DEF d
<1> QED BY <1>4, <1>7, <1>8, <1>9, <1>10, AccountedChanged

(* pop_prefixes hands values from the trie to the running call. *)
LEMMA DropPrefixesAccounts ==
  ASSUME IInv, Accounted, DropPrefixes
  PROVE  Accounted'
<1> DEFINE dropped == ValuedPrefixes(call.key)
<1>1. /\ entry' = [k \in DOMAIN entry \ dropped |-> entry[k]]
      /\ call'.prefixes = {[key |-> k, value |-> entry[k]] : k \in dropped}
      /\ UNCHANGED <<nBytes, typeBytes>> /\ call.prefixes = {}
  <2>1. call \in [key : Keys \cup {NoKey}, victim : Keys \cup {NoKey}, bytes : Nat,
                  prefixes : SUBSET [key : Keys, value : Entries]]
    BY DEF IInv, TypeOK
  <2>2. pc = "prefixes" /\ call.prefixes = {}
    BY DEF DropPrefixes, IInv, CallConsistent
  <2> QED BY <2>1, <2>2 DEF DropPrefixes
<1>2. dropped \in SUBSET DOMAIN entry
  BY DEF ValuedPrefixes
<1> HIDE DEF dropped
<1>3. entry' = Kept(entry, dropped) /\ call'.prefixes = Taken(entry, dropped)
  BY <1>1 DEF Kept, Taken
<1>4. IsFiniteSet(DOMAIN entry) /\ \A k \in DOMAIN entry : entry[k] \in Entries
  BY DEF Accounted, IInv, TypeOK
<1>5. IsFiniteSet(DOMAIN entry') /\ IsFiniteSet(call'.prefixes)
  BY <1>2, <1>3, <1>4, TakenWeighsTheSame
<1>6. ASSUME NEW t \in Types PROVE HeldIn(t)' = HeldIn(t)
  <2>1. SumFunction(Weights(t, entry))
          = SumFunction(Weights(t, entry')) + SumFunction(Retired(t, call'.prefixes))
    BY <1>2, <1>3, <1>4, TakenWeighsTheSame
  <2>2. SumFunction(Retired(t, call.prefixes)) = 0
    BY <1>1, NoneRetired
  <2>3. SumFunction(Weights(t, entry)) \in Int
    BY HeldType
  <2>4. HeldIn(t) = SumFunction(Weights(t, entry)) + SumFunction(Retired(t, call.prefixes))
        /\ HeldIn(t)' = SumFunction(Weights(t, entry')) + SumFunction(Retired(t, call'.prefixes))
    BY DEF HeldIn
  <2> QED BY <2>1, <2>2, <2>3, <2>4
<1>7. "assistant" \in Types /\ "user" \in Types /\ "system" \in Types
  BY DEF Types
<1>8. /\ \A t \in Types : typeBytes[t] = HeldIn(t)
      /\ nBytes = HeldIn("assistant") + HeldIn("user") + HeldIn("system")
  BY DEF Accounted
<1>9. \A t \in Types : typeBytes'[t] = HeldIn(t)'
  BY <1>1, <1>6, <1>8
<1>10. nBytes' = HeldIn("assistant")' + HeldIn("user")' + HeldIn("system")'
  BY <1>1, <1>6, <1>7, <1>8
<1> QED BY <1>5, <1>9, <1>10 DEF Accounted

(* What an entry that goes takes from the counters. *)
Deducted(e) == [t \in Types |-> 0 - SizeIn(t, e)]

LEMMA DeductedProperties ==
  ASSUME IInv, NEW e \in Entries,
         typeBytes' = [typeBytes EXCEPT ![e.type] = @ - e.nbytes],
         nBytes' = nBytes - e.nbytes
  PROVE  /\ Deducted(e) \in [Types -> Int]
         /\ \A t \in Types : typeBytes'[t] = typeBytes[t] + Deducted(e)[t]
         /\ nBytes' = nBytes + (Deducted(e)["assistant"] + Deducted(e)["user"] + Deducted(e)["system"])
<1>1. /\ e.type \in Types /\ e.nbytes \in Int /\ \A t \in Types : SizeIn(t, e) \in Int
      /\ e.nbytes = SizeIn("assistant", e) + SizeIn("user", e) + SizeIn("system", e)
  BY SizeType
<1>2. nBytes \in Int /\ typeBytes \in [Types -> Int]
  BY DEF IInv, TypeOK
<1>3. \A t \in Types : Deducted(e)[t] = 0 - SizeIn(t, e) /\ Deducted(e)[t] \in Int
  BY <1>1 DEF Deducted
<1>4. Deducted(e) \in [Types -> Int]
  BY <1>1 DEF Deducted
<1>5. ASSUME NEW t \in Types PROVE typeBytes'[t] = typeBytes[t] + Deducted(e)[t]
  <2>1. typeBytes[t] \in Int
    BY <1>2
  <2>2. CASE t = e.type
    <3>1. typeBytes'[t] = typeBytes[t] - e.nbytes /\ SizeIn(t, e) = e.nbytes
      BY <1>1, <1>2, <2>2 DEF SizeIn
    <3> QED BY <1>1, <1>3, <2>1, <3>1
  <2>3. CASE t # e.type
    <3>1. typeBytes'[t] = typeBytes[t] /\ SizeIn(t, e) = 0
      BY <1>2, <2>3 DEF SizeIn
    <3> QED BY <1>3, <2>1, <3>1
  <2> QED BY <2>2, <2>3
<1>6. nBytes' = nBytes + (Deducted(e)["assistant"] + Deducted(e)["user"] + Deducted(e)["system"])
  <2>1. "assistant" \in Types /\ "user" \in Types /\ "system" \in Types
    BY DEF Types
  <2>2. /\ SizeIn("assistant", e) \in Int /\ SizeIn("user", e) \in Int /\ SizeIn("system", e) \in Int
        /\ Deducted(e)["assistant"] = 0 - SizeIn("assistant", e)
        /\ Deducted(e)["user"] = 0 - SizeIn("user", e)
        /\ Deducted(e)["system"] = 0 - SizeIn("system", e)
    BY <1>1, <1>3, <2>1
  <2> QED BY <1>1, <1>2, <2>2
<1> QED BY <1>4, <1>5, <1>6

(* A prefix leaves the running call and the counters. *)
LEMMA ForgetPrefixAccounts ==
  ASSUME IInv, Accounted, ForgetPrefix
  PROVE  Accounted'
<1>1. call \in [key : Keys \cup {NoKey}, victim : Keys \cup {NoKey}, bytes : Nat,
                prefixes : SUBSET [key : Keys, value : Entries]]
  BY DEF IInv, TypeOK
<1>2. PICK old \in call.prefixes :
        /\ nBytes' = nBytes - old.value.nbytes
        /\ typeBytes' = [typeBytes EXCEPT ![old.value.type] = @ - old.value.nbytes]
        /\ call' = [call EXCEPT !.prefixes = @ \ {old}]
  BY DEF ForgetPrefix
<1>3. call'.prefixes = call.prefixes \ {old} /\ entry' = entry
  BY <1>1, <1>2 DEF ForgetPrefix
<1>4. \A p \in call.prefixes : p.value \in Entries
  BY <1>1
<1>5. IsFiniteSet(DOMAIN entry') /\ IsFiniteSet(call'.prefixes) /\ IsFiniteSet(call.prefixes)
  BY <1>3, FS_RemoveElement DEF Accounted
<1> DEFINE e == old.value
<1>6. e \in Entries
  BY <1>4
<1>7. ASSUME NEW t \in Types PROVE HeldIn(t)' = HeldIn(t) + Deducted(e)[t]
  <2>1. SumFunction(Retired(t, call.prefixes))
          = SizeIn(t, e) + SumFunction(Retired(t, call'.prefixes))
    BY <1>3, <1>4, <1>5, RetiredWithout
  <2>2. SumFunction(Retired(t, call'.prefixes)) \in Int
    BY <1>3, <1>4, <1>5, RetiredWithout
  <2>3. SumFunction(Weights(t, entry)) \in Int /\ SizeIn(t, e) \in Int
    BY <1>6, HeldType, SizeType
  <2>4. HeldIn(t) = SumFunction(Weights(t, entry)) + SumFunction(Retired(t, call.prefixes))
        /\ HeldIn(t)' = SumFunction(Weights(t, entry)) + SumFunction(Retired(t, call'.prefixes))
    BY <1>3 DEF HeldIn
  <2>5. Deducted(e)[t] = 0 - SizeIn(t, e)
    BY DEF Deducted
  <2> HIDE DEF e
  <2> QED BY <2>1, <2>2, <2>3, <2>4, <2>5
<1> HIDE DEF e
<1>8. /\ nBytes' = nBytes - e.nbytes
      /\ typeBytes' = [typeBytes EXCEPT ![e.type] = @ - e.nbytes]
  BY <1>2 DEF e
<1> QED BY <1>5, <1>6, <1>7, <1>8, DeductedProperties, AccountedChanged

(* A victim leaves the trie and the counters. *)
LEMMA EvictFromTrieAccounts ==
  ASSUME IInv, Accounted, EvictFromTrie
  PROVE  Accounted'
<1> DEFINE key == call.victim
           e == entry[call.victim]
<1>1. /\ key \in DOMAIN entry
      /\ entry' = Without(entry, key)
      /\ nBytes' = nBytes - e.nbytes
      /\ typeBytes' = [typeBytes EXCEPT ![e.type] = @ - e.nbytes]
      /\ call' = [call EXCEPT !.victim = NoKey]
  BY DEF EvictFromTrie, IInv, CallConsistent, Without
<1>2. call \in [key : Keys \cup {NoKey}, victim : Keys \cup {NoKey}, bytes : Nat,
                prefixes : SUBSET [key : Keys, value : Entries]]
      /\ \A k \in DOMAIN entry : entry[k] \in Entries
  BY DEF IInv, TypeOK
<1>3. call'.prefixes = call.prefixes /\ e \in Entries
  BY <1>1, <1>2
<1>4. IsFiniteSet(DOMAIN entry) /\ IsFiniteSet(DOMAIN entry') /\ IsFiniteSet(call'.prefixes)
  BY <1>1, <1>3, FS_RemoveElement DEF Accounted, Without
<1>5. ASSUME NEW t \in Types PROVE HeldIn(t)' = HeldIn(t) + Deducted(e)[t]
  <2>1. SumFunction(Weights(t, entry)) = SizeIn(t, e) + SumFunction(Weights(t, entry'))
    BY <1>1, <1>2, <1>4, WeightsWithout
  <2>2. SumFunction(Weights(t, entry')) \in Int
    <3>1. \A k \in DOMAIN entry' : entry'[k] \in Entries
      BY <1>1, <1>2 DEF Without
    <3> QED BY <1>4, <3>1, WeightsWithout
  <2>3. SumFunction(Retired(t, call.prefixes)) \in Int /\ SizeIn(t, e) \in Int
    BY <1>3, HeldType, SizeType
  <2>4. HeldIn(t) = SumFunction(Weights(t, entry)) + SumFunction(Retired(t, call.prefixes))
        /\ HeldIn(t)' = SumFunction(Weights(t, entry')) + SumFunction(Retired(t, call.prefixes))
    BY <1>3 DEF HeldIn
  <2>5. Deducted(e)[t] = 0 - SizeIn(t, e)
    BY DEF Deducted
  <2> HIDE DEF e, key
  <2> QED BY <2>1, <2>2, <2>3, <2>4, <2>5
<1> HIDE DEF e, key
<1> QED BY <1>1, <1>3, <1>4, <1>5, DeductedProperties, AccountedChanged

(* The other steps leave the trie, the counters and the prefixes alone. *)
LEMMA OtherStepsAccount ==
  ASSUME IInv, Accounted,
         \/ \E bytes \in Limits : TrimTo(bytes)
         \/ Push \/ EvictFromLru \/ WithinSize \/ Return
         \/ FlushList \/ FlushEntry \/ UNCHANGED vars
  PROVE  Accounted'
<1>1. call \in [key : Keys \cup {NoKey}, victim : Keys \cup {NoKey}, bytes : Nat,
                prefixes : SUBSET [key : Keys, value : Entries]]
  BY DEF IInv, TypeOK
<1>2. UNCHANGED <<entry, nBytes, typeBytes>>
  BY DEF TrimTo, Push, EvictFromLru, WithinSize, Return, FlushList, FlushEntry, vars, cacheVars
<1>3. call'.prefixes = call.prefixes
  <2>1. CASE (\E bytes \in Limits : TrimTo(bytes)) \/ Return
    <3>1. call.prefixes = {}
      BY <2>1 DEF TrimTo, Return, IInv, CallConsistent
    <3>2. call'.prefixes = {}
      BY <2>1 DEF TrimTo, Return, NoCall
    <3> QED BY <3>1, <3>2
  <2>2. CASE EvictFromLru
    BY <1>1, <2>2 DEF EvictFromLru
  <2>3. CASE Push \/ WithinSize \/ FlushList \/ FlushEntry \/ UNCHANGED vars
    BY <2>3 DEF Push, WithinSize, FlushList, FlushEntry, vars
  <2> QED BY <2>1, <2>2, <2>3
<1> QED BY <1>2, <1>3, AccountedUnchanged

(* BytesAccounted: the counters that insert_cache and trim_to keep by hand,  *)
(* in total and by type, are always the sizes of the entries held and of     *)
(* those a running call has yet to deduct, whatever is inserted, replaced,   *)
(* served by a longer entry or evicted.                                      *)
THEOREM CountersExact == Spec => []BytesAccounted
<1>1. Init => Accounted
  <2> SUFFICES ASSUME Init PROVE Accounted
    OBVIOUS
  <2>1. /\ DOMAIN entry = {} /\ call.prefixes = {} /\ nBytes = 0
        /\ typeBytes = [t \in Types |-> 0]
    BY DEF Init, NoCall
  <2>2. ASSUME NEW t PROVE HeldIn(t) = 0
    <3>1. DOMAIN Weights(t, entry) = {}
      BY <2>1 DEF Weights
    <3>2. SumFunction(Weights(t, entry)) = 0
      BY <3>1, SumOfNone
    <3>3. SumFunction(Retired(t, call.prefixes)) = 0
      BY <2>1, NoneRetired
    <3> QED BY <3>2, <3>3 DEF HeldIn
  <2>3. IsFiniteSet(DOMAIN entry) /\ IsFiniteSet(call.prefixes)
    BY <2>1, FS_EmptySet
  <2>4. \A t \in Types : typeBytes[t] = HeldIn(t)
    BY <2>1, <2>2
  <2>5. nBytes = HeldIn("assistant") + HeldIn("user") + HeldIn("system")
    BY <2>1, <2>2
  <2> QED BY <2>3, <2>4, <2>5 DEF Accounted
<1>2. IInv /\ IInv' /\ Accounted /\ [Next]_vars => Accounted'
  BY InsertAccounts, DropPrefixesAccounts, ForgetPrefixAccounts, EvictFromTrieAccounts,
     OtherStepsAccount DEF Next
<1>3. IInv /\ Accounted => BytesAccounted
  BY AccountedMeans
<1> QED BY <1>1, <1>2, <1>3, Invariant, PTL DEF Spec

----------------------------------------
(* What leaves the cache, and why. *)

(* A sequence without repetition has as many elements as it is long. *)
LEMMA AsManyElements ==
  ASSUME NEW S, NEW s \in Seq(S), IsInjective(s)
  PROVE  IsFiniteSet(ToSet(s)) /\ Cardinality(ToSet(s)) = Len(s)
<1>1. /\ Len(s) \in Nat /\ DOMAIN s = 1..Len(s)
      /\ s = [i \in 1..Len(s) |-> s[i]]
  OBVIOUS
<1>2. IsFiniteSet(1..Len(s))
  <2>1. 1 \in Int /\ Len(s) \in Int
    BY <1>1
  <2> QED BY <2>1, FS_Interval
<1>3. s \in Bijection(1..Len(s), ToSet(s))
  <2>1. s \in [1..Len(s) -> ToSet(s)]
    BY <1>1 DEF ToSet
  <2>2. \A i, j \in 1..Len(s) : s[i] = s[j] => i = j
    BY <1>1 DEF IsInjective
  <2>3. \A x \in ToSet(s) : \E i \in 1..Len(s) : s[i] = x
    BY <1>1 DEF ToSet
  <2> QED BY <2>1, <2>2, <2>3 DEF Bijection, Injection, Surjection, IsInjective
<1>4. ExistsBijection(1..Len(s), ToSet(s))
  BY <1>3 DEF ExistsBijection
<1> QED BY <1>1, <1>2, <1>4, FS_Bijection, FS_CountingElements

(* While nothing is set apart but a victim, the orders count the rest. *)
LEMMA OrdersCount ==
  ASSUME IInv, pc = "pop"
  PROVE  IsFiniteSet(DOMAIN entry) /\ Cardinality(DOMAIN entry) = Sequences(lru) + 1
<1> DEFINE A == ToSet(lru["assistant"])
           U == ToSet(lru["user"])
           S == ToSet(lru["system"])
           v == call.victim
<1>1. /\ lru["assistant"] \in Seq(Keys) /\ lru["user"] \in Seq(Keys)
      /\ lru["system"] \in Seq(Keys)
      /\ \A t \in Types : IsInjective(lru[t])
  BY DEF IInv, TypeOK, OrdersMatchTrie, Types
<1>2. /\ call.prefixes = {} /\ v \in DOMAIN entry /\ Detached = {v}
  BY DEF IInv, CallConsistent, Detached
<1>3. /\ IsFiniteSet(A) /\ Cardinality(A) = Len(lru["assistant"])
      /\ IsFiniteSet(U) /\ Cardinality(U) = Len(lru["user"])
      /\ IsFiniteSet(S) /\ Cardinality(S) = Len(lru["system"])
  BY <1>1, AsManyElements DEF Types
<1>4. A \cap U = {} /\ (A \cup U) \cap S = {}
  BY OneOrderEach DEF Types
<1>5. DOMAIN entry \ {v} = (A \cup U) \cup S
  <2>1. \A t \in Types : \A k \in ToSet(lru[t]) : k \in DOMAIN entry \ {v}
    BY <1>2 DEF IInv, OrdersMatchTrie
  <2>2. ASSUME NEW k \in DOMAIN entry \ {v} PROVE \E t \in Types : k \in ToSet(lru[t])
    <3>1. entry[k].type \in Types
      BY EntryFields DEF IInv, TypeOK
    <3> QED BY <1>2, <3>1 DEF IInv, OrdersMatchTrie
  <2> QED BY <2>1, <2>2 DEF Types
<1>6. /\ Len(lru["assistant"]) \in Nat /\ Len(lru["user"]) \in Nat
      /\ Len(lru["system"]) \in Nat
  BY <1>1
<1> HIDE DEF A, U, S, v
<1>7. /\ IsFiniteSet(A \cup U)
      /\ Cardinality(A \cup U) = Len(lru["assistant"]) + Len(lru["user"])
  <2>1. Cardinality(A \cup U) = Cardinality(A) + Cardinality(U) - Cardinality(A \cap U)
    BY <1>3, FS_Union
  <2>2. Cardinality(A \cap U) = 0
    BY <1>4, FS_EmptySet
  <2>3. IsFiniteSet(A \cup U)
    BY <1>3, FS_Union
  <2> QED BY <1>3, <1>6, <2>1, <2>2, <2>3
<1>8. /\ IsFiniteSet((A \cup U) \cup S)
      /\ Cardinality((A \cup U) \cup S) = Sequences(lru)
  <2>1. Cardinality((A \cup U) \cup S)
          = Cardinality(A \cup U) + Cardinality(S) - Cardinality((A \cup U) \cap S)
    BY <1>3, <1>7, FS_Union
  <2>2. Cardinality((A \cup U) \cap S) = 0
    BY <1>4, FS_EmptySet
  <2>3. IsFiniteSet((A \cup U) \cup S)
    BY <1>3, <1>7, FS_Union
  <2>4. Cardinality((A \cup U) \cup S)
          = (Len(lru["assistant"]) + Len(lru["user"])) + Len(lru["system"]) - 0
    BY <1>3, <1>7, <2>1, <2>2, Zenon
  <2>5. Sequences(lru) = (Len(lru["assistant"]) + Len(lru["user"])) + Len(lru["system"])
    BY DEF Sequences
  <2> QED BY <1>6, <2>3, <2>4, <2>5
<1>9. DOMAIN entry = (DOMAIN entry \ {v}) \cup {v} /\ v \notin DOMAIN entry \ {v}
  BY <1>2
<1> QED BY <1>5, <1>8, <1>9, FS_AddElement

(* A victim is taken while a limit is exceeded, and prefixes go only under *)
(* a cache that can be cut.                                                *)
RoomNeeded ==
  /\ pc = "pop" => Sequences(lru) + 1 > MaxSize \/ nBytes > call.bytes
  /\ pc = "prefixes" => entry[call.key].trimmable

(* The eviction looks at a limit that is exceeded. *)
LEMMA TakenForRoom ==
  ASSUME IInv, IInv', EvictFromLru, pc' = "pop"
  PROVE  Sequences(lru') + 1 > MaxSize \/ nBytes' > call'.bytes
<1> DEFINE type == VictimType
<1>1. /\ type \in Types /\ pc \in {"size", "bytes"} /\ OverLimit
      /\ lru \in [Types -> Seq(Keys)] /\ lru' \in [Types -> Seq(Keys)]
      /\ lru[type] # <<>>
      /\ lru' = [lru EXCEPT ![type] = Tail(@)]
      /\ nBytes' = nBytes /\ call'.bytes = call.bytes
  BY DEF EvictFromLru, VictimType, Types, IInv, TypeOK
<1> HIDE DEF type
<1>2. Len(Tail(lru[type])) = Len(lru[type]) - 1
  BY <1>1
<1>3. /\ Len(lru[type]) = Len(lru'[type]) + 1
      /\ \A t \in Types \ {type} : Len(lru[t]) = Len(lru'[t])
  BY <1>1, <1>2
<1>4. lru \in [Types -> Seq(Keys)] /\ lru' \in [Types -> Seq(Keys)] /\ type \in Types /\ 1 \in Int
  BY <1>1
<1>5. Sequences(lru) = Sequences(lru') + 1
  BY <1>3, <1>4, SequencesChange
<1> QED BY <1>1, <1>5 DEF OverLimit

(* Both hold in every state. *)
LEMMA RoomInvariant == Spec => []RoomNeeded
<1>1. Init => RoomNeeded
  BY DEF Init, RoomNeeded
<1>2. ASSUME IInv, IInv', RoomNeeded, [Next]_vars PROVE RoomNeeded'
  <2>1. CASE EvictFromLru
    <3>1. pc' # "prefixes"
      BY <2>1 DEF EvictFromLru
    <3> QED BY <1>2, <2>1, <3>1, TakenForRoom DEF RoomNeeded
  <2>2. CASE Push
    BY <2>2 DEF Push, RoomNeeded
  <2>3. CASE FlushList \/ FlushEntry \/ UNCHANGED vars
    BY <1>2, <2>3 DEF FlushList, FlushEntry, vars, cacheVars, RoomNeeded
  <2>4. ASSUME pc' \notin {"pop", "prefixes"} PROVE RoomNeeded'
    <3>1. ~(pc' = "pop") /\ ~(pc' = "prefixes")
      BY <2>4
    <3> QED BY <3>1, Zenon DEF RoomNeeded
  <2>5. ASSUME NEW key \in Keys, NEW e \in Entries, Insert(key, e) PROVE RoomNeeded'
    BY <2>4, <2>5 DEF Insert
  <2>6. ASSUME NEW bytes \in Limits, TrimTo(bytes) PROVE RoomNeeded'
    BY <2>4, <2>6 DEF TrimTo
  <2>7. CASE DropPrefixes
    BY <2>4, <2>7 DEF DropPrefixes
  <2>8. CASE ForgetPrefix
    BY <2>4, <2>8 DEF ForgetPrefix
  <2>9. CASE EvictFromTrie
    BY <2>4, <2>9 DEF EvictFromTrie
  <2>10. CASE WithinSize \/ Return
    BY <2>4, <2>10 DEF WithinSize, Return
  <2> QED BY <1>2, <2>1, <2>2, <2>3, <2>5, <2>6, <2>7, <2>8, <2>9, <2>10 DEF Next
<1> QED BY <1>1, <1>2, Invariant, PTL DEF Spec

(* Why an entry may leave: LostForRoom, of one key. *)
Needless(k) ==
  ~ \/ /\ call.key \in DOMAIN entry'
       /\ entry'[call.key].trimmable
       /\ Below(call.key, k)
    \/ Cardinality(DOMAIN entry) > MaxSize
    \/ HeldInAll > call.bytes

(* The prefixes that go are served by the cache inserted. *)
LEMMA DropsServed ==
  ASSUME IInv, RoomNeeded, DropPrefixes, NEW k \in DOMAIN entry \ DOMAIN entry'
  PROVE  ~Needless(k)
<1> DEFINE dropped == ValuedPrefixes(call.key)
<1>1. /\ call.key \in DOMAIN entry /\ call.key \in Keys
      /\ entry[call.key].trimmable
      /\ entry' = [j \in DOMAIN entry \ dropped |-> entry[j]]
  BY DEF DropPrefixes, IInv, TypeOK, CallConsistent, RoomNeeded
<1>2. call.key \in Places
  BY <1>1, PromptsAssumption DEF Keys, Places
<1>3. PICK n \in 0..(Len(call.key[2]) - 1) : k = Cut(call.key, n)
  BY <1>1 DEF ValuedPrefixes
<1>4. Len(call.key[2]) \in Nat
  BY <1>2 DEF Places
<1>5. Below(call.key, k)
  <2>1. k \in Path(call.key)
    BY <1>3, <1>4 DEF Path
  <2> QED BY <1>2, <2>1, PathIsAbove
<1>6. call.key \notin dropped
  <2>1. ASSUME NEW m \in 0..(Len(call.key[2]) - 1) PROVE Cut(call.key, m) # call.key
    <3>1. Len(SubSeq(call.key[2], 1, m)) = m
      BY <1>2, <1>4 DEF Places
    <3> QED BY <1>4, <3>1 DEF Cut, PrefixOf
  <2> QED BY <2>1 DEF ValuedPrefixes
<1> QED BY <1>1, <1>5, <1>6 DEF Needless

(* The trie holds one entry more than the orders when a victim leaves it. *)
LEMMA EvictionsMakeRoom ==
  ASSUME IInv, RoomNeeded, BytesAccounted, EvictFromTrie, NEW k
  PROVE  ~Needless(k)
<1>1. pc = "pop" /\ nBytes = HeldInAll
  BY DEF EvictFromTrie, BytesAccounted
<1>2. Cardinality(DOMAIN entry) = Sequences(lru) + 1
  BY <1>1, OrdersCount
<1> QED BY <1>1, <1>2 DEF RoomNeeded, Needless

(* LostForRoom: what leaves LRUPromptCache is served by the longer cache just *)
(* inserted, or had to go: the entries it really held were too many or too    *)
(* large, for every history of insertions, replacements and trims.            *)
THEOREM NothingLostForNothing == Spec => LostForRoom
<1> DEFINE Needed == \A k \in DOMAIN entry \ DOMAIN entry' : ~Needless(k)
<1>1. IInv /\ RoomNeeded /\ BytesAccounted /\ [Next]_vars => [Needed]_vars
  <2> SUFFICES ASSUME IInv, RoomNeeded, BytesAccounted, [Next]_vars PROVE Needed
    OBVIOUS
  <2>1. CASE DropPrefixes
    BY <2>1, DropsServed
  <2>2. CASE EvictFromTrie
    BY <2>2, EvictionsMakeRoom
  <2>3. CASE \E key \in Keys, e \in Entries : Insert(key, e)
    BY <2>3 DEF Insert
  <2>4. CASE \/ \E bytes \in Limits : TrimTo(bytes)
            \/ Push \/ ForgetPrefix \/ EvictFromLru \/ WithinSize \/ Return
            \/ FlushList \/ FlushEntry \/ UNCHANGED vars
    <3>1. entry' = entry
      BY <2>4 DEF TrimTo, Push, ForgetPrefix, EvictFromLru, WithinSize, Return,
                  FlushList, FlushEntry, vars, cacheVars
    <3> QED BY <3>1
  <2> QED BY <2>1, <2>2, <2>3, <2>4 DEF Next
<1>2. [Needed]_vars => [\A k \in DOMAIN entry \ DOMAIN entry' :
        \/ /\ call.key \in DOMAIN entry'
           /\ entry'[call.key].trimmable
           /\ Below(call.key, k)
        \/ Cardinality(DOMAIN entry) > MaxSize
        \/ HeldInAll > call.bytes]_vars
  BY DEF Needless
<1> QED BY <1>1, <1>2, Invariant, RoomInvariant, CountersExact, PTL DEF Spec, LostForRoom
=============================================================================
