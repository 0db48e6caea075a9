------------------------ MODULE CheckpointStore_proofs ------------------------
(***************************************************************************)
(* The prompt checkpoints on disk, for any names and the forms they are    *)
(* saved in, prompts, tasks of the threads and limits.  What the server    *)
(* restores for a rendered prompt is whole where its name can be read; as  *)
(* long as calls do not overlap, the manifest lists just the files there   *)
(* are, the disk is within its budget, and no delta loses its base to a    *)
(* prune.                                                                  *)
(***************************************************************************)
EXTENDS CheckpointStore, SequencesExt, Integers, TLAPS, FiniteSetTheorems, NaturalsInduction,
        WellFoundedInduction, SequenceTheorems

----------------------------------------
(* What the proofs need of naturals, finite sets and sums. *)

(* A set that has 0 and with every natural the next one has them all. *)
LEMMA SetInduction ==
  ASSUME NEW S, 0 \in S, \A n \in Nat : n \in S => n + 1 \in S
  PROVE  Nat \subseteq S
<1> SUFFICES ASSUME Nat \ S # {} PROVE FALSE
  OBVIOUS
<1>1. PICK x \in Nat \ S : \A y \in Nat \ S : ~(<<y, x>> \in OpToRel(<, Nat))
  <2>1. Nat \ S \subseteq Nat
    OBVIOUS
  <2> QED BY <2>1, NatLessThanWellFounded, WFMin, Zenon
<1>2. x # 0 /\ x - 1 \in Nat /\ x - 1 < x /\ x - 1 + 1 = x
  BY SMT
<1>3. x - 1 \in S
  <2>1. SUFFICES ASSUME x - 1 \notin S PROVE FALSE
    OBVIOUS
  <2>2. x - 1 \in Nat \ S
    BY <1>2, <2>1
  <2>3. <<x - 1, x>> \in OpToRel(<, Nat)
    <3>1. <<x - 1, x>> \in Nat \X Nat /\ <<x - 1, x>>[1] = x - 1 /\ <<x - 1, x>>[2] = x
      BY <1>2
    <3> QED BY <3>1, <1>2, Zenon DEF OpToRel
  <2> QED BY <1>1, <2>2, <2>3, Zenon
<1> QED BY <1>2, <1>3

(* A bounded set of naturals has a greatest element, and Max is it. *)
LEMMA MaxIsGreatest ==
  ASSUME NEW S \in SUBSET Nat, S # {}, NEW b \in Nat, \A x \in S : x <= b
  PROVE  Max(S) \in S /\ \A y \in S : Max(S) >= y
<1> DEFINE Gaps == {g \in Nat : \E x \in S : g = b - x}
<1>1. Gaps \in SUBSET Nat /\ Gaps # {}
  <2>1. \A x \in S : b - x \in Nat
    OBVIOUS
  <2> QED BY <2>1
<1>2. PICK g \in Gaps : \A e \in Gaps : ~(<<e, g>> \in OpToRel(<, Nat))
  <2> HIDE DEF Gaps
  <2> QED BY <1>1, NatLessThanWellFounded, WFMin, Zenon
<1>3. PICK x \in S : g = b - x
  <2>1. g \in Gaps
    BY <1>2, Zenon
  <2> QED BY <2>1
<1>4. ASSUME NEW y \in S PROVE x >= y
  <2>1. b - y \in Gaps /\ b - y \in Nat /\ b - x \in Nat
    OBVIOUS
  <2>2. <<b - y, b - x>> \in Nat \X Nat /\ <<b - y, b - x>>[1] = b - y
        /\ <<b - y, b - x>>[2] = b - x
    BY <2>1
  <2>3. ~(<<b - y, b - x>> \in OpToRel(<, Nat))
    BY <1>2, <1>3, <2>1, Zenon
  <2>4. ~(b - y < b - x)
    BY <2>2, <2>3, Zenon DEF OpToRel
  <2> QED BY <2>4
<1>5. \E z \in S : \A y \in S : z >= y
  BY <1>4
<1> QED BY <1>5, Zenon DEF Max

(* The recursive function SumFunction is defined by. *)
FirstOf(s) == CHOOSE x \in s : TRUE

SumStep(f, sum, s) == IF s = {} THEN 0 ELSE f[FirstOf(s)] + sum[s \ {FirstOf(s)}]

LEMMA FirstOfProperties ==
  ASSUME NEW s, s # {}
  PROVE  FirstOf(s) \in s
BY DEF FirstOf

(* The subsets of at most n elements. *)
UpTo(D, n) == {s \in SUBSET D : Cardinality(s) <= n}

(* The sizes of a finite set and of the set without an element. *)
LEMMA SizeWithout ==
  ASSUME NEW D, IsFiniteSet(D), NEW s \in SUBSET D
  PROVE  /\ IsFiniteSet(s) /\ Cardinality(s) \in Nat /\ Cardinality(s) <= Cardinality(D)
         /\ Cardinality(s) = 0 <=> s = {}
         /\ \A x \in s : Cardinality(s \ {x}) = Cardinality(s) - 1 /\ s \ {x} \in SUBSET D
<1>1. IsFiniteSet(s) /\ Cardinality(s) <= Cardinality(D)
  BY FS_Subset
<1>2. Cardinality(s) \in Nat
  BY <1>1, FS_CardinalityType
<1>3. Cardinality(s) = 0 <=> s = {}
  BY <1>1, FS_EmptySet
<1>4. \A x \in s : Cardinality(s \ {x}) = Cardinality(s) - 1
  BY <1>1, FS_RemoveElement
<1> QED BY <1>1, <1>2, <1>3, <1>4

(* That function exists, by induction on the size of the subsets. *)
LEMMA SumExists ==
  ASSUME NEW f, IsFiniteSet(DOMAIN f)
  PROVE  \E sum : sum = [s \in SUBSET DOMAIN f |-> SumStep(f, sum, s)]
<1> DEFINE D == DOMAIN f
           Has == {n \in Nat : \E sum : sum = [s \in UpTo(D, n) |-> SumStep(f, sum, s)]}
<1>1. 0 \in Has
  <2>1. \A s \in UpTo(D, 0) : s = {}
    <3> SUFFICES ASSUME NEW s \in UpTo(D, 0) PROVE s = {}
      OBVIOUS
    <3>1. s \in SUBSET D /\ Cardinality(s) <= 0
      BY DEF UpTo
    <3>2. Cardinality(s) \in Nat /\ (Cardinality(s) = 0 <=> s = {})
      BY <3>1, SizeWithout
    <3> QED BY <3>1, <3>2
  <2> DEFINE g == [s \in UpTo(D, 0) |-> 0]
  <2>2. \A s \in UpTo(D, 0) : SumStep(f, g, s) = 0
    BY <2>1 DEF SumStep
  <2>3. g = [s \in UpTo(D, 0) |-> SumStep(f, g, s)]
    BY <2>2
  <2> HIDE DEF g
  <2> QED BY <2>3
<1>2. ASSUME NEW n \in Nat, n \in Has PROVE n + 1 \in Has
  <2>1. PICK g : g = [s \in UpTo(D, n) |-> SumStep(f, g, s)]
    BY <1>2
  <2> DEFINE h == [s \in UpTo(D, n + 1) |-> IF s \in UpTo(D, n) THEN g[s] ELSE SumStep(f, g, s)]
  <2>2. ASSUME NEW s \in UpTo(D, n + 1) PROVE h[s] = SumStep(f, h, s)
    <3>1. s \in SUBSET D /\ Cardinality(s) <= n + 1
      BY DEF UpTo
    <3>2. h[s] = SumStep(f, g, s)
      <4>1. CASE s \in UpTo(D, n)
        <5>1. g[s] = SumStep(f, g, s)
          BY <2>1, <4>1
        <5> QED BY <4>1, <5>1
      <4>2. CASE s \notin UpTo(D, n)
        BY <4>2
      <4> QED BY <4>1, <4>2
    <3>3. CASE s = {}
      BY <3>2, <3>3 DEF SumStep
    <3>4. CASE s # {}
      <4> DEFINE rest == s \ {FirstOf(s)}
      <4>1. FirstOf(s) \in s
        BY <3>4, FirstOfProperties
      <4>2. /\ Cardinality(rest) = Cardinality(s) - 1 /\ rest \in SUBSET D
            /\ Cardinality(s) \in Nat
        BY <3>1, <4>1, SizeWithout
      <4> HIDE DEF rest
      <4>3. Cardinality(rest) <= n /\ Cardinality(rest) <= n + 1
        BY <3>1, <4>2
      <4>4. rest \in UpTo(D, n) /\ rest \in UpTo(D, n + 1)
        BY <4>2, <4>3 DEF UpTo
      <4>5. h[rest] = g[rest]
        BY <4>4
      <4> HIDE DEF h
      <4>6. SumStep(f, g, s) = f[FirstOf(s)] + g[rest] /\ SumStep(f, h, s) = f[FirstOf(s)] + h[rest]
        BY <3>4 DEF SumStep, rest
      <4> QED BY <3>2, <4>5, <4>6
    <3> QED BY <3>3, <3>4
  <2>3. h = [s \in UpTo(D, n + 1) |-> SumStep(f, h, s)]
    <3>1. h = [s \in UpTo(D, n + 1) |-> h[s]]
      OBVIOUS
    <3> HIDE DEF h
    <3> QED BY <2>2, <3>1, Zenon
  <2>4. n + 1 \in Nat
    OBVIOUS
  <2> HIDE DEF h
  <2> QED BY <2>3, <2>4, Zenon
<1>3. Nat \subseteq Has
  <2> HIDE DEF Has
  <2> QED BY <1>1, <1>2, SetInduction
<1>4. Cardinality(D) \in Nat
  BY FS_CardinalityType
<1>5. UpTo(D, Cardinality(D)) = SUBSET D
  <2>1. \A s \in SUBSET D : Cardinality(s) <= Cardinality(D)
    BY SizeWithout
  <2> QED BY <2>1 DEF UpTo
<1>6. Cardinality(D) \in Has
  <2> HIDE DEF Has
  <2> QED BY <1>3, <1>4
<1>7. PICK sum : sum = [s \in UpTo(D, Cardinality(D)) |-> SumStep(f, sum, s)]
  BY <1>6
<1> QED BY <1>5, <1>7, Zenon

(* sum has the sums of f over the subsets of its domain. *)
SumsOf(f, sum) ==
  /\ \A s \in SUBSET DOMAIN f : sum[s] \in Int
  /\ sum[{}] = 0
  /\ \A s \in SUBSET DOMAIN f : \A x \in s : sum[s] = f[x] + sum[s \ {x}]

(* SumFunction takes any element first, not only the one it chooses. *)
LEMMA SumFunctionSums ==
  ASSUME NEW f, IsFiniteSet(DOMAIN f), \A x \in DOMAIN f : f[x] \in Int
  PROVE  \E sum : SumFunction(f) = sum[DOMAIN f] /\ SumsOf(f, sum)
<1> DEFINE D == DOMAIN f
           sum == CHOOSE sum : sum = [s \in SUBSET D |-> SumStep(f, sum, s)]
<1>1. sum = [s \in SUBSET D |-> SumStep(f, sum, s)]
  BY SumExists
<1>2. SumFunction(f) = sum[D]
  BY DEF SumFunction, SumFunctionOnSet, FoldFunctionOnSet, MapThenFoldSet, SumStep, FirstOf
<1> HIDE DEF sum
<1>3. \A s \in SUBSET D : sum[s] = SumStep(f, sum, s)
  BY <1>1
<1> DEFINE Sound(s) == /\ sum[s] \in Int
                       /\ \A x \in s : sum[s] = f[x] + sum[s \ {x}]
           Has == {n \in Nat : \A s \in UpTo(D, n) : Sound(s)}
<1>4. sum[{}] = 0
  BY <1>3 DEF SumStep
<1>5. 0 \in Has
  <2> SUFFICES ASSUME NEW s \in UpTo(D, 0) PROVE Sound(s)
    OBVIOUS
  <2>1. s \in SUBSET D /\ Cardinality(s) <= 0
    BY DEF UpTo
  <2>2. Cardinality(s) \in Nat /\ (Cardinality(s) = 0 <=> s = {})
    BY <2>1, SizeWithout
  <2>3. s = {}
    BY <2>1, <2>2
  <2> QED BY <1>4, <2>3
<1>6. ASSUME NEW n \in Nat, n \in Has PROVE n + 1 \in Has
  <2> SUFFICES ASSUME NEW s \in UpTo(D, n + 1) PROVE Sound(s)
    OBVIOUS
  <2>1. s \in SUBSET D /\ Cardinality(s) <= n + 1
    BY DEF UpTo
  <2>2. Cardinality(s) \in Nat /\ IsFiniteSet(s)
    BY <2>1, SizeWithout
  <2>3. ASSUME NEW r \in SUBSET D, Cardinality(r) <= n PROVE Sound(r)
    BY <1>6, <2>3 DEF UpTo
  <2>4. CASE s = {}
    BY <1>4, <2>4
  <2>5. CASE s # {}
    <3> DEFINE c == FirstOf(s)
    <3>1. c \in s
      BY <2>5, FirstOfProperties
    <3>2. sum[s] = f[c] + sum[s \ {c}]
      BY <1>3, <2>1, <2>5 DEF SumStep
    <3> HIDE DEF c
    <3>3. \A x \in s : Cardinality(s \ {x}) = Cardinality(s) - 1 /\ s \ {x} \in SUBSET D
      BY <2>1, SizeWithout
    <3>4. \A x \in s : Sound(s \ {x})
      <4> SUFFICES ASSUME NEW x \in s PROVE Sound(s \ {x})
        OBVIOUS
      <4>1. Cardinality(s \ {x}) <= n /\ s \ {x} \in SUBSET D
        BY <2>1, <2>2, <3>3
      <4> HIDE DEF Sound
      <4> QED BY <2>3, <4>1
    <3>5. \A x \in s : f[x] \in Int /\ sum[s \ {x}] \in Int
      BY <2>1, <3>4
    <3>6. ASSUME NEW x \in s PROVE sum[s] = f[x] + sum[s \ {x}]
      <4>1. CASE x = c
        BY <3>2, <4>1
      <4>2. CASE x # c
        <5> DEFINE both == s \ {c, x}
        <5>1. x \in s \ {c} /\ c \in s \ {x} /\ (s \ {c}) \ {x} = both /\ (s \ {x}) \ {c} = both
          BY <3>1, <4>2
        <5>2. sum[s \ {c}] = f[x] + sum[(s \ {c}) \ {x}]
          BY <3>1, <3>4, <5>1
        <5>3. sum[s \ {x}] = f[c] + sum[(s \ {x}) \ {c}]
          BY <3>4, <5>1
        <5>4. sum[(s \ {c}) \ {x}] \in Int
          <6> DEFINE r == s \ {c}
          <6>1. r \in SUBSET D /\ Cardinality(r) = Cardinality(s) - 1 /\ x \in r
            BY <3>1, <3>3, <5>1
          <6> HIDE DEF r
          <6>2. Cardinality(r \ {x}) = Cardinality(r) - 1 /\ r \ {x} \in SUBSET D
            BY <6>1, SizeWithout
          <6>3. Cardinality(r \ {x}) <= n
            BY <2>1, <2>2, <6>1, <6>2
          <6>4. sum[r \ {x}] \in Int
            BY <2>3, <6>2, <6>3
          <6> QED BY <6>4 DEF r
        <5> HIDE DEF both
        <5>5. sum[s \ {c}] = f[x] + sum[both] /\ sum[s \ {x}] = f[c] + sum[both] /\ sum[both] \in Int
          BY <5>1, <5>2, <5>3, <5>4
        <5>6. f[x] \in Int /\ f[c] \in Int
          BY <3>1, <3>5
        <5> QED BY <3>2, <5>5, <5>6
      <4> QED BY <4>1, <4>2
    <3>7. sum[s] \in Int
      BY <3>1, <3>2, <3>5
    <3> QED BY <3>6, <3>7
  <2> QED BY <2>4, <2>5
<1>7. Nat \subseteq Has
  <2> HIDE DEF Has
  <2> QED BY <1>5, <1>6, SetInduction
<1>8. Cardinality(D) \in Nat
  BY FS_CardinalityType
<1>9. \A s \in SUBSET D : s \in UpTo(D, Cardinality(D))
  BY SizeWithout DEF UpTo
<1>10. \A s \in SUBSET D : Sound(s)
  <2> HIDE DEF Sound
  <2> QED BY <1>7, <1>8, <1>9
<1>11. SumsOf(f, sum)
  BY <1>4, <1>10 DEF SumsOf
<1> QED BY <1>2, <1>11

(* A set of subsets that has {} and every subset that is in it but for an element has all. *)
LEMMA SubsetInduction ==
  ASSUME NEW D, IsFiniteSet(D), NEW Good, {} \in Good,
         \A s \in SUBSET D : \A x \in s : s \ {x} \in Good => s \in Good
  PROVE  D \in Good
<1> DEFINE Has == {n \in Nat : UpTo(D, n) \subseteq Good}
<1>1. ASSUME NEW n \in Nat, \A s \in UpTo(D, n) : s = {} \/ \E x \in s : s \ {x} \in Good
      PROVE  n \in Has
  BY <1>1 DEF UpTo
<1>2. 0 \in Has
  BY <1>1, SizeWithout DEF UpTo
<1>3. ASSUME NEW n \in Nat, n \in Has PROVE n + 1 \in Has
  <2>1. ASSUME NEW s \in UpTo(D, n + 1), NEW x \in s PROVE s \ {x} \in Good
    <3>1. Cardinality(s \ {x}) = Cardinality(s) - 1 /\ s \ {x} \in SUBSET D /\ Cardinality(s) \in Nat
      BY SizeWithout DEF UpTo
    <3> QED BY <1>3, <3>1 DEF UpTo
  <2>2. \A s \in UpTo(D, n + 1) : s = {} \/ \E x \in s : s \ {x} \in Good
    BY <2>1
  <2>3. n + 1 \in Nat
    OBVIOUS
  <2> HIDE DEF Has
  <2> QED BY <1>1, <2>2, <2>3, Zenon
<1>4. Nat \subseteq Has
  <2> HIDE DEF Has
  <2> QED BY <1>2, <1>3, SetInduction
<1> QED BY <1>4, FS_CardinalityType, SizeWithout DEF UpTo

(* Functions that agree on a set have the same sum over it. *)
LEMMA SumsAgree ==
  ASSUME NEW f, NEW g, NEW fsum, NEW gsum, SumsOf(f, fsum), SumsOf(g, gsum),
         NEW D, IsFiniteSet(D), D \subseteq DOMAIN f, D \subseteq DOMAIN g,
         \A x \in D : f[x] = g[x]
  PROVE  fsum[D] = gsum[D]
<1> DEFINE Good == {s \in SUBSET D : fsum[s] = gsum[s]}
<1>1. {} \in Good
  BY DEF SumsOf
<1>2. ASSUME NEW s \in SUBSET D, NEW x \in s, s \ {x} \in Good PROVE s \in Good
  BY <1>2 DEF SumsOf
<1> HIDE DEF Good
<1>3. D \in Good
  BY <1>1, <1>2, SubsetInduction
<1> QED BY <1>3 DEF Good

(* A sum is that of the function without an element, and what it has there. *)
Without(f, x) == [k \in DOMAIN f \ {x} |-> f[k]]

LEMMA SumWithout ==
  ASSUME NEW f, IsFiniteSet(DOMAIN f), \A k \in DOMAIN f : f[k] \in Int, NEW x \in DOMAIN f
  PROVE  /\ SumFunction(f) = f[x] + SumFunction(Without(f, x))
         /\ SumFunction(f) \in Int /\ SumFunction(Without(f, x)) \in Int
<1> DEFINE g == Without(f, x)
           D == DOMAIN f \ {x}
<1>1. DOMAIN g = D /\ \A k \in D : g[k] = f[k] /\ g[k] \in Int
  BY DEF Without
<1>2. IsFiniteSet(D)
  BY FS_RemoveElement
<1> HIDE DEF g
<1>3. PICK fsum : SumFunction(f) = fsum[DOMAIN f] /\ SumsOf(f, fsum)
  BY SumFunctionSums
<1>4. PICK gsum : SumFunction(g) = gsum[DOMAIN g] /\ SumsOf(g, gsum)
  BY <1>1, <1>2, SumFunctionSums
<1>5. fsum[D] = gsum[D]
  <2>1. D \subseteq DOMAIN f /\ D \subseteq DOMAIN g /\ \A k \in D : f[k] = g[k]
    BY <1>1
  <2> HIDE DEF D
  <2> QED BY <1>2, <1>3, <1>4, <2>1, SumsAgree
<1>6. fsum[DOMAIN f] = f[x] + fsum[D] /\ fsum[DOMAIN f] \in Int /\ fsum[D] \in Int
  BY <1>3 DEF SumsOf
<1> QED BY <1>1, <1>3, <1>4, <1>5, <1>6 DEF g

LEMMA SumOfNone ==
  ASSUME NEW f, DOMAIN f = {}
  PROVE  SumFunction(f) = 0
<1>1. IsFiniteSet(DOMAIN f) /\ \A k \in DOMAIN f : f[k] \in Int
  BY FS_EmptySet
<1>2. PICK sum : SumFunction(f) = sum[DOMAIN f] /\ SumsOf(f, sum)
  BY <1>1, SumFunctionSums
<1> QED BY <1>2 DEF SumsOf

LEMMA SumType ==
  ASSUME NEW f, IsFiniteSet(DOMAIN f), \A k \in DOMAIN f : f[k] \in Int
  PROVE  SumFunction(f) \in Int
<1>1. PICK sum : SumFunction(f) = sum[DOMAIN f] /\ SumsOf(f, sum)
  BY SumFunctionSums
<1> QED BY <1>1 DEF SumsOf

(* A sum does not exceed that of a function that is nowhere below and has no less terms. *)
LEMMA SumBelow ==
  ASSUME NEW f, NEW g, IsFiniteSet(DOMAIN g), DOMAIN f \subseteq DOMAIN g,
         \A x \in DOMAIN f : f[x] \in Int /\ f[x] <= g[x], \A x \in DOMAIN g : g[x] \in Nat
  PROVE  SumFunction(f) <= SumFunction(g)
<1> DEFINE D == DOMAIN g
           F == DOMAIN f
<1>1. IsFiniteSet(F) /\ \A x \in D : g[x] \in Int
  BY FS_Subset
<1>2. PICK fsum : SumFunction(f) = fsum[F] /\ SumsOf(f, fsum)
  BY <1>1, SumFunctionSums
<1>3. PICK gsum : SumFunction(g) = gsum[D] /\ SumsOf(g, gsum)
  BY <1>1, SumFunctionSums
<1> DEFINE Good == {s \in SUBSET D : fsum[s \cap F] <= gsum[s]}
<1>4. {} \in Good
  <2>1. {} \cap F = {}
    OBVIOUS
  <2> QED BY <1>2, <1>3, <2>1 DEF SumsOf
<1>5. ASSUME NEW s \in SUBSET D, NEW x \in s, s \ {x} \in Good PROVE s \in Good
  <2> DEFINE a == fsum[(s \ {x}) \cap F]
             b == gsum[s \ {x}]
  <2>1. gsum[s] = g[x] + b /\ b \in Int /\ g[x] \in Nat /\ a <= b
    BY <1>3, <1>5 DEF SumsOf
  <2>2. CASE x \in F
    <3>1. (s \cap F) \ {x} = (s \ {x}) \cap F /\ s \cap F \in SUBSET F /\ x \in s \cap F
      BY <2>2
    <3>2. fsum[s \cap F] = f[x] + fsum[(s \cap F) \ {x}] /\ a \in Int
      BY <1>2, <3>1 DEF SumsOf
    <3>3. fsum[s \cap F] = f[x] + a /\ f[x] \in Int /\ f[x] <= g[x]
      BY <2>2, <3>1, <3>2
    <3> HIDE DEF a, b, F, D
    <3>4. fsum[s \cap F] <= gsum[s]
      BY <2>1, <3>2, <3>3
    <3> QED BY <3>4 DEF D
  <2>3. CASE x \notin F
    <3>1. (s \ {x}) \cap F = s \cap F
      BY <2>3
    <3>2. fsum[s \cap F] = a /\ a \in Int
      BY <1>2, <3>1 DEF SumsOf
    <3> HIDE DEF a, b, F, D
    <3>3. fsum[s \cap F] <= gsum[s]
      BY <2>1, <3>2
    <3> QED BY <3>3 DEF D
  <2> QED BY <2>2, <2>3
<1> HIDE DEF Good
<1>6. D \in Good
  BY <1>4, <1>5, SubsetInduction
<1>7. fsum[D \cap F] <= gsum[D] /\ D \cap F = F
  BY <1>6 DEF Good
<1> QED BY <1>2, <1>3, <1>7

----------------------------------------
(* The invariant. *)

Calls ==
    [op : {None, "save", "prune", "rendered", "token"}, name : Names \cup {None},
     label : Labels \cup {None}, base : Names \cup {None},
     goal : Names \cup Prompts \cup {None}, protected : SUBSET Names,
     entries : Manifests, dirty : BOOLEAN, candidates : SUBSET Names,
     at : Names \cup {None}, covered : SUBSET Nat, cached : Nat]

Places == {"idle", "write", "load", "store", "sync", "syncstore", "stale", "prune",
           "find", "keep", "try", "delta", "base"}

(* What was restored as a base held all tokens of its name, or was a delta in turn. *)
Base(n) == n \in Names /\ Forms[n] # {"exact"}

(* A delta of name n on a base. *)
DeltaOn(n, base) == "delta" \in Forms[n] /\ Base(base) /\ IsStrictPrefix(base, n)

(* What is on disk was saved in a form of its name. *)
FilesFormed ==
    \A n \in Names : file[n] # None =>
      /\ file[n].label \in Forms[n]
      /\ file[n].label = "delta" => DeltaOn(n, file[n].base)

(* Only what is saved as a delta is listed as one, and nothing else where that is its only form. *)
KnownAs(n, kind) ==
    /\ kind = "delta" => "delta" \in Forms[n]
    /\ Forms[n] = {"delta"} => kind = "delta"

Known(entries) == \A n \in Names : entries[n] # None => KnownAs(n, entries[n].kind)

(* Before there is a manifest nothing was found in one, and no delta was saved. *)
Unlisted ==
    /\ served = {} /\ index \in {None, NoEntries}
    /\ \A n \in Names : file[n] # None => file[n].label # "delta"

(* Files, manifest, index and the bases that deltas may have. *)
Stored ==
    /\ file \in [Names -> Content \cup {None}] /\ FilesFormed
    /\ manifest \in Manifests \cup {None} /\ (manifest # None => Known(manifest))
    /\ index \in Manifests \cup {None} /\ (index # None => Known(index))
    /\ \A n \in served : Base(n)
    /\ manifest = None => Unlisted

(* The chunks behind one are saved as deltas, up to the goal. *)
Ahead(n, goal) ==
    /\ n \in Names /\ goal \in Names /\ IsPrefix(n, goal)
    /\ n # goal => \A c \in Chunks(n, goal) : c \in Names /\ "delta" \in Forms[c]

(* What a saving call c has in hand at a place p. *)
Saving(p, c) ==
    c.op = "save" =>
      /\ p \in {"write", "load", "store", "sync", "syncstore", "stale", "prune"}
      /\ c.name \in Names /\ c.label \in Forms[c.name]
      /\ c.label = "delta" => DeltaOn(c.name, c.base) /\ Ahead(c.name, c.goal)

(* What a lookup has in hand: candidates, the chain it has come down, a hit. *)
Looking(p, c) ==
    c.op \in {"rendered", "token"} =>
      /\ p \in {"find", "sync", "syncstore", "keep", "try", "delta", "base", "load", "store"}
      /\ p \notin {"load", "store"} => c.goal \in Prompts
      /\ p \notin {"try", "delta", "base"} => c.candidates = {}
      /\ p \notin {"load", "store", "delta", "base"} => c.covered = {}
      /\ \A n \in c.candidates : /\ c.entries[n] # None /\ IsPrefix(n, c.goal)
                                 /\ c.op = "token" => c.entries[n].kind # "delta"
      /\ p \in {"load", "store"} =>
           /\ c.name \in Names /\ c.label \in Labels
           /\ KnownAs(c.name, c.label)
      /\ p \in {"delta", "base"} =>
           /\ c.op = "rendered"
           /\ c.name \in c.candidates /\ "delta" \in Forms[c.name]
           /\ Base(c.at) /\ IsPrefix(c.at, c.name)
           /\ p = "base" => IsStrictPrefix(c.at, c.name)
           /\ c.covered = Len(c.at) + 1 .. Len(c.name)

Pruning(p, c) ==
    c.op = "prune" => p \in {"sync", "syncstore", "stale", "prune"} /\ c.label = None

(* A thread's call. *)
Sane(p, c) ==
    /\ p \in Places /\ c \in Calls /\ (c.op = None <=> p = "idle")
    /\ Known(c.entries) /\ Saving(p, c) /\ Looking(p, c) /\ Pruning(p, c)

(* A call before there is a manifest. *)
Early(p, c) ==
    /\ c.label # "delta" /\ c.candidates = {}
    /\ p = "keep" => c.entries = NoEntries

IInv ==
    /\ Stored
    /\ pc \in [Threads -> Places] /\ call \in [Threads -> Calls] /\ quiet \in BOOLEAN
    /\ \A t \in Threads : Sane(pc[t], call[t]) /\ (manifest = None => Early(pc[t], call[t]))

----------------------------------------
(* Data. *)

(* The fields of files, entries and calls. *)
LEMMA Records ==
    /\ \A x \in Content : x.label \in Labels /\ x.base \in Names \cup {None} /\ x # None
    /\ \A x \in Entry : /\ x.kind \in Kinds /\ x.base \in Names \cup {None} /\ x.size \in Nat
                        /\ x # None
    /\ \A x \in Manifests : x # None /\ \A n \in Names : x[n] \in Entry \cup {None}
    /\ NoEntries \in Manifests /\ Known(NoEntries)
    /\ \A label \in Labels, base \in Names \cup {None} :
         [label |-> label, base |-> base] \in Content
    /\ \A kind \in Kinds, base \in Names \cup {None}, size \in Nat :
         [kind |-> kind, base |-> base, size |-> size] \in Entry
    /\ Labels \subseteq Kinds
    /\ \A n \in Names : n # None /\ n \in Seq(Nat) /\ Len(n) \in Nat
<1>1. /\ \A x \in Content : x.label \in Labels /\ x.base \in Names \cup {None} /\ x # None
      /\ \A x \in Entry : /\ x.kind \in Kinds /\ x.base \in Names \cup {None} /\ x.size \in Nat
                          /\ x # None
  BY NoneAssumption DEF Content, Entry
<1>2. \A x \in Manifests : x # None /\ \A n \in Names : x[n] \in Entry \cup {None}
  BY NoneAssumption DEF Manifests
<1>3. NoEntries \in Manifests /\ Known(NoEntries)
  BY DEF NoEntries, Manifests, Known
<1>4. /\ \A label \in Labels, base \in Names \cup {None} :
           [label |-> label, base |-> base] \in Content
      /\ \A kind \in Kinds, base \in Names \cup {None}, size \in Nat :
           [kind |-> kind, base |-> base, size |-> size] \in Entry
  BY DEF Content, Entry
<1>5. Labels \subseteq Kinds
  BY DEF Kinds
<1>6. \A n \in Names : n # None /\ n \in Seq(Nat) /\ Len(n) \in Nat
  BY NoneAssumption, NamesAssumption
<1> QED BY <1>1, <1>2, <1>3, <1>4, <1>5, <1>6

(* None is no label, kind or operation. *)
LEMMA NoneApart ==
    /\ None \notin {"save", "prune", "rendered", "token", "exact", "prefix", "frontier",
                    "continued", "delta", "unknown"}
    /\ None \notin Labels
BY NoneAssumption DEF Kinds, Labels

(* The forms of a name are labels. *)
LEMMA FormsAreLabels ==
  ASSUME NEW n \in Names, NEW label \in Forms[n]
  PROVE  label \in Labels
BY TasksAssumption

(* No call. *)
LEMMA NothingInHand ==
    /\ NoCall \in Calls /\ Sane("idle", NoCall) /\ Early("idle", NoCall)
    /\ NoCall.op = None /\ NoCall.name = None /\ NoCall.label = None /\ NoCall.base = None
    /\ NoCall.goal = None /\ NoCall.protected = {} /\ NoCall.entries = NoEntries
    /\ NoCall.dirty = FALSE /\ NoCall.candidates = {} /\ NoCall.at = None
    /\ NoCall.covered = {} /\ NoCall.cached = 0
<1>1. NoCall \in Calls
  BY Records DEF NoCall, Calls
<1>2. Known(NoCall.entries)
  BY Records DEF NoCall
<1>3. Saving("idle", NoCall) /\ Looking("idle", NoCall) /\ Pruning("idle", NoCall)
  BY NoneApart DEF Saving, Looking, Pruning, NoCall
<1>4. Early("idle", NoCall)
  BY NoneApart DEF Early, NoCall
<1> QED BY <1>1, <1>2, <1>3, <1>4 DEF Sane, Places, NoCall

(* The positions a file holds: those of a whole one, or of a delta. *)
LEMMA HeldPositions ==
  ASSUME NEW n \in Names, NEW x \in Content
  PROVE  /\ x.label = "exact" => Held(n, x) = 1 .. Len(n) - 1
         /\ x.label = "delta" => Held(n, x) = Len(x.base) + 1 .. Len(n)
         /\ x.label \notin {"exact", "delta"} => Held(n, x) = 1 .. Len(n)
BY DEF Held

(* The positions of a file are naturals, finitely many. *)
LEMMA HeldType ==
  ASSUME NEW n \in Names, NEW x \in Content, x.label = "delta" => x.base \in Names
  PROVE  Held(n, x) \in SUBSET Nat /\ IsFiniteSet(Held(n, x)) /\ Cardinality(Held(n, x)) \in Nat
<1>1. \E a, b \in Int : a > 0 /\ Held(n, x) = a .. b
  <2>1. CASE x.label = "exact"
    <3>1. 1 \in Int /\ 1 > 0 /\ Len(n) - 1 \in Int
      BY Records
    <3> QED BY <2>1, <3>1, HeldPositions
  <2>2. CASE x.label = "delta"
    <3>1. Len(x.base) + 1 \in Int /\ Len(x.base) + 1 > 0 /\ Len(n) \in Int
      BY <2>2, Records
    <3> QED BY <2>2, <3>1, HeldPositions
  <2>3. CASE x.label \notin {"exact", "delta"}
    <3>1. 1 \in Int /\ 1 > 0 /\ Len(n) \in Int
      BY Records
    <3> QED BY <2>3, <3>1, HeldPositions
  <2> QED BY <2>1, <2>2, <2>3
<1>2. PICK a \in Int, b \in Int : a > 0 /\ Held(n, x) = a .. b
  BY <1>1
<1>3. a .. b \in SUBSET Nat
  BY <1>2
<1> QED BY <1>2, <1>3, FS_Interval, FS_CardinalityType

(* The size of a file that is there. *)
LEMMA SizeType ==
  ASSUME Stored, NEW n \in Names, file[n] # None
  PROVE  Size(n) \in Nat
<1>1. file[n] \in Content /\ (file[n].label = "delta" => file[n].base \in Names)
  BY DEF Stored, FilesFormed, DeltaOn, Base
<1> QED BY <1>1, HeldType DEF Size

(* What the manifest lists is known. *)
LEMMA LoadedKnown ==
  ASSUME Stored
  PROVE  Loaded \in Manifests /\ Known(Loaded)
BY Records DEF Stored, Loaded

(* The entry of a file has the kind it is listed as. *)
LEMMA EntryOfKnown ==
  ASSUME Stored, NEW n \in Names, file[n] # None, NEW kind \in Kinds, NEW base \in Names \cup {None}
  PROVE  EntryOf(n, kind, base) \in Entry /\ EntryOf(n, kind, base).kind = kind
BY SizeType, Records DEF EntryOf

(* A file was saved in a form of its name. *)
LEMMA FileKind ==
  ASSUME Stored, NEW n \in Names, file[n] # None
  PROVE  /\ file[n] \in Content /\ file[n].label \in Forms[n] /\ KnownAs(n, file[n].label)
         /\ file[n].label = "delta" => DeltaOn(n, file[n].base)
BY DEF Stored, FilesFormed, KnownAs

(* A manifest made from the files knows the deltas: without one before, no file is one. *)
LEMMA SyncedKnown ==
  ASSUME Stored
  PROVE  Synced \in Manifests /\ Known(Synced)
<1>1. ASSUME NEW n \in Names
      PROVE  /\ Synced[n] \in Entry \cup {None}
             /\ Synced[n] # None => KnownAs(n, Synced[n].kind)
  <2>1. CASE file[n] = None \/ (manifest # None /\ manifest[n] = None)
    BY <2>1 DEF Synced
  <2>2. CASE file[n] # None /\ manifest = None
    <3>1. Synced[n] = EntryOf(n, "unknown", None)
      BY <2>2 DEF Synced
    <3>2. file[n].label \in Forms[n] /\ file[n].label # "delta"
      BY <2>2, FileKind DEF Stored, Unlisted
    <3>3. KnownAs(n, "unknown")
      BY <3>2 DEF KnownAs
    <3> QED BY <2>2, <3>1, <3>3, EntryOfKnown DEF Kinds
  <2>3. CASE file[n] # None /\ manifest # None /\ manifest[n] # None
    <3>1. manifest[n] \in Entry /\ KnownAs(n, manifest[n].kind)
      BY <2>3, Records DEF Stored, Known
    <3>2. Synced[n] = [manifest[n] EXCEPT !.size = Size(n)]
      BY <2>3 DEF Synced
    <3>3. Synced[n] \in Entry /\ Synced[n].kind = manifest[n].kind
      BY <2>3, <3>1, <3>2, SizeType DEF Entry
    <3> QED BY <3>1, <3>3
  <2> QED BY <2>1, <2>2, <2>3
<1>2. Synced = [n \in Names |-> Synced[n]]
  BY DEF Synced
<1> QED BY <1>1, <1>2 DEF Manifests, Known

(* Entries with one that is taken out or listed. *)
LEMMA ForgottenKnown ==
  ASSUME NEW entries \in Manifests, Known(entries), NEW victim
  PROVE  Forgotten(entries, victim) \in Manifests /\ Known(Forgotten(entries, victim))
BY DEF Forgotten, Manifests, Known

(* Entries with one that is listed. *)
LEMMA ListedKnown ==
  ASSUME NEW entries \in Manifests, Known(entries), NEW n \in Names, NEW e \in Entry,
         KnownAs(n, e.kind)
  PROVE  [entries EXCEPT ![n] = e] \in Manifests /\ Known([entries EXCEPT ![n] = e])
BY DEF Manifests, Known

(* Some of the entries. *)
LEMMA SomeKnown ==
  ASSUME NEW entries \in Manifests, Known(entries), NEW S
  PROVE  LET some == [n \in Names |-> IF n \in S THEN entries[n] ELSE None]
         IN  some \in Manifests /\ Known(some)
BY DEF Manifests, Known

----------------------------------------
(* A step of a thread. *)

(* A thread is somewhere else, with other locals; what is stored fits. *)
LEMMA Moved ==
  ASSUME IInv, NEW t \in Threads, NEW p, NEW c, Goto(t, p), Hold(t, c), Sane(p, c),
         Stored', quiet' \in BOOLEAN, manifest' = None => manifest = None /\ Early(p, c)
  PROVE  IInv'
<1>1. pc' \in [Threads -> Places] /\ call' \in [Threads -> Calls]
  BY DEF IInv, Goto, Hold, Sane
<1>2. ASSUME NEW u \in Threads
      PROVE  Sane(pc'[u], call'[u]) /\ (manifest' = None => Early(pc'[u], call'[u]))
  <2>1. CASE u = t
    <3>1. pc'[u] = p /\ call'[u] = c
      BY <2>1 DEF IInv, Goto, Hold
    <3> QED BY <3>1
  <2>2. CASE u # t
    <3>1. pc'[u] = pc[u] /\ call'[u] = call[u]
      BY <2>2 DEF IInv, Goto, Hold
    <3> QED BY <3>1 DEF IInv
  <2> QED BY <2>1, <2>2
<1>3. Stored' /\ quiet' \in BOOLEAN
  OBVIOUS
<1> QED BY <1>1, <1>2, <1>3 DEF IInv

(* What is stored has not changed. *)
LEMMA StoredStays ==
  ASSUME Stored, UNCHANGED <<file, manifest, index, served>>
  PROVE  Stored'
BY DEF Stored, FilesFormed, Unlisted

(* A manifest is saved. *)
LEMMA ManifestSaved ==
  ASSUME Stored, UNCHANGED <<file, served>>, NEW entries \in Manifests, Known(entries),
         SaveManifest(entries)
  PROVE  Stored' /\ manifest' # None
BY Records DEF Stored, FilesFormed, SaveManifest

(* A file is written in a form of its name. *)
LEMMA FileWritten ==
  ASSUME Stored, UNCHANGED <<manifest, served>>, index' = None, NEW n \in Names,
         NEW x \in Content, x.label \in Forms[n],
         x.label = "delta" => DeltaOn(n, x.base) /\ manifest # None,
         file' = [file EXCEPT ![n] = x]
  PROVE  Stored'
<1>1. file' \in [Names -> Content \cup {None}] /\ FilesFormed'
  BY DEF Stored, FilesFormed
<1>2. manifest = None => Unlisted'
  BY DEF Stored, Unlisted
<1> QED BY <1>1, <1>2 DEF Stored

(* A file is removed. *)
LEMMA FileRemoved ==
  ASSUME Stored, UNCHANGED <<manifest, served>>, index' = None, NEW n,
         file' = [file EXCEPT ![n] = None]
  PROVE  Stored'
<1>1. file' \in [Names -> Content \cup {None}] /\ FilesFormed'
  BY DEF Stored, FilesFormed
<1>2. manifest = None => Unlisted'
  BY DEF Stored, Unlisted
<1> QED BY <1>1, <1>2 DEF Stored

(* The index is kept. *)
LEMMA IndexKept ==
  ASSUME Stored, UNCHANGED <<file, manifest, served>>, index' \in Manifests, Known(index'),
         manifest = None => index' = NoEntries
  PROVE  Stored'
<1>1. manifest = None => Unlisted'
  BY DEF Stored, Unlisted
<1> QED BY <1>1 DEF Stored, FilesFormed

(* A checkpoint serves as a base from now on. *)
LEMMA BaseServed ==
  ASSUME Stored, UNCHANGED <<file, manifest, index>>, manifest # None,
         \A n \in served' : Base(n)
  PROVE  Stored'
BY DEF Stored, FilesFormed

(* Where a thread is, and what it has in hand. *)
LEMMA ThreadSane ==
  ASSUME IInv, NEW t \in Threads
  PROVE  /\ Stored /\ Sane(pc[t], call[t]) /\ call[t] \in Calls
         /\ call[t].entries \in Manifests /\ Known(call[t].entries)
         /\ manifest = None => Early(pc[t], call[t])
BY DEF IInv, Sane, Calls

----------------------------------------
(* Saving. *)

(* A checkpoint that is not a delta is saved, in a form of its name. *)
LEMMA SaveWholeStep ==
  ASSUME IInv, NEW t \in Threads, NEW label \in Labels, NEW n \in Names,
         SaveWhole(t, label, n), quiet' \in BOOLEAN
  PROVE  IInv'
<1> DEFINE there == label = "frontier" /\ file[n] # None
           p == IF there THEN "load" ELSE "write"
           c == [NoCall EXCEPT !.op = "save", !.name = n, !.label = label,
                   !.base = IF there THEN file[n].base ELSE None,
                   !.protected = Protected(label, n)]
<1>1. /\ Goto(t, p) /\ Hold(t, c) /\ label \in Forms[n] /\ label # "delta"
      /\ UNCHANGED <<file, manifest, index, served>>
  BY DEF SaveWhole
<1>2. (IF there THEN file[n].base ELSE None) \in Names \cup {None}
  BY ThreadSane, Records DEF Stored
<1>3. Protected(label, n) \in SUBSET Names
  BY DEF Protected
<1>4. /\ c \in Calls /\ c.op = "save" /\ c.name = n /\ c.label = label
      /\ c.entries = NoEntries /\ c.candidates = {}
  BY <1>2, <1>3, NothingInHand, ZenonT(40) DEF Calls, NoCall
<1>5. Sane(p, c) /\ Early(p, c)
  <2>1. Saving(p, c) /\ Looking(p, c) /\ Pruning(p, c)
    BY <1>1, <1>4 DEF Saving, Looking, Pruning
  <2>2. Known(c.entries)
    BY <1>4, Records
  <2> QED BY <1>1, <1>4, <2>1, <2>2, NoneApart DEF Sane, Early, Places
<1>6. Stored'
  BY <1>1, StoredStays, ThreadSane
<1> QED BY <1>1, <1>5, <1>6, Moved

(* A prefix, index by index. *)
LEMMA PrefixIndexed ==
  ASSUME NEW s \in Seq(Nat), NEW u \in Seq(Nat)
  PROVE  /\ IsPrefix(s, u) <=> Len(s) <= Len(u) /\ \A i \in 1 .. Len(s) : s[i] = u[i]
         /\ IsStrictPrefix(s, u) <=> Len(s) < Len(u) /\ \A i \in 1 .. Len(s) : s[i] = u[i]
<1>1. Len(s) \in Nat /\ Len(u) \in Nat
  OBVIOUS
<1>2. SubSeq(s, 1, Len(s)) = s
  OBVIOUS
<1>3. ASSUME Len(s) <= Len(u)
      PROVE  SubSeq(u, 1, Len(s)) = s <=> \A i \in 1 .. Len(s) : s[i] = u[i]
  BY <1>1, <1>3
<1>4. IsPrefix(s, u) <=> Len(s) <= Len(u) /\ \A i \in 1 .. Len(s) : s[i] = u[i]
  BY <1>1, <1>2, <1>3 DEF IsPrefix
<1>5. Len(s) = Len(u) /\ (\A i \in 1 .. Len(s) : s[i] = u[i]) => s = u
  OBVIOUS
<1> QED BY <1>1, <1>4, <1>5 DEF IsStrictPrefix

(* A number does not shrink when it is multiplied. *)
LEMMA TimesGrows ==
  ASSUME NEW a \in Nat, NEW k \in Nat, k > 0
  PROVE  a * k >= a
<1>1. a * k = a * (k - 1) + a
  OBVIOUS
<1>2. a * (k - 1) >= 0
  <2>1. k - 1 \in Nat
    OBVIOUS
  <2> QED BY <2>1
<1> QED BY <1>1, <1>2

(* The first chunk ends behind the base, and the others are ahead of its end. *)
LEMMA ChunkAhead ==
  ASSUME NEW base \in Seq(Nat), NEW goal \in Seq(Nat), IsStrictPrefix(base, goal),
         NEW n, n = ChunkEnd(base, goal)
  PROVE  /\ n \in Seq(Nat) /\ n \in Chunks(base, goal)
         /\ IsStrictPrefix(base, n) /\ IsPrefix(n, goal)
         /\ n # goal => Chunks(n, goal) \subseteq Chunks(base, goal)
<1> DEFINE b == Len(base)
           g == Len(goal)
<1>1. /\ b \in Nat /\ g \in Nat /\ b < g /\ ChunkTokens \in Nat
      /\ \A i \in 1 .. b : base[i] = goal[i]
  BY LimitsAssumption, PrefixIndexed
<1>2. 1 \in 1 .. g
  BY <1>1
<1>3. n \in Chunks(base, goal)
  BY <1>2 DEF Chunks, ChunkEnd
<1>4. CASE n = goal
  BY <1>1, <1>3, <1>4, PrefixIndexed
<1>5. CASE n # goal
  <2>1. /\ ChunkTokens > 0 /\ b + ChunkTokens < g /\ n = SubSeq(goal, 1, b + ChunkTokens)
    BY <1>1, <1>5 DEF ChunkEnd, Chunk
  <2>2. /\ n \in Seq(Nat) /\ Len(n) = b + ChunkTokens
        /\ \A i \in 1 .. b + ChunkTokens : n[i] = goal[i]
    BY <1>1, <2>1
  <2>3. IsStrictPrefix(base, n) /\ IsPrefix(n, goal)
    <3>1. Len(base) < Len(n) /\ \A i \in 1 .. Len(base) : base[i] = n[i]
      BY <1>1, <2>1, <2>2
    <3>2. Len(n) <= Len(goal) /\ \A i \in 1 .. Len(n) : n[i] = goal[i]
      BY <1>1, <2>1, <2>2
    <3>3. IsStrictPrefix(base, n)
      BY <2>2, <3>1, PrefixIndexed
    <3>4. IsPrefix(n, goal)
      BY <2>2, <3>2, PrefixIndexed
    <3> QED BY <3>3, <3>4
  <2>4. ASSUME NEW i \in 1 .. g PROVE Chunk(n, goal, i) \in Chunks(base, goal)
    <3>1. Len(n) + i * ChunkTokens = b + (i + 1) * ChunkTokens
      BY <1>1, <2>2
    <3>2. Chunk(n, goal, i) = Chunk(base, goal, i + 1)
      BY <3>1 DEF Chunk
    <3>3. CASE i < g
      <4>1. i + 1 \in 1 .. Len(goal)
        BY <1>1, <3>3
      <4>2. Chunk(base, goal, i + 1) \in Chunks(base, goal)
        BY <4>1 DEF Chunks
      <4> QED BY <3>2, <4>2
    <3>4. CASE i = g
      <4>1. g * ChunkTokens >= g
        BY <1>1, <2>1, TimesGrows
      <4>2. (g + 1) * ChunkTokens = g * ChunkTokens + ChunkTokens
        BY <1>1
      <4>3. g * ChunkTokens \in Nat
        BY <1>1
      <4>4. Chunk(base, goal, g + 1) = goal /\ Chunk(base, goal, g) = goal
        BY <1>1, <4>1, <4>2, <4>3 DEF Chunk
      <4> QED BY <1>1, <3>2, <3>4, <4>4 DEF Chunks
    <3> QED BY <1>1, <3>3, <3>4
  <2> QED BY <1>3, <2>2, <2>3, <2>4 DEF Chunks
<1> QED BY <1>4, <1>5

(* The save of a chunk: the first on the way from a base, when they are all to be saved. *)
LEMMA ChunkCallSane ==
  ASSUME IInv, NEW t \in Threads, NEW base, NEW goal, NEW protected \in SUBSET Names,
         ChunkCall(t, base, goal, protected), manifest # None,
         Base(base), goal \in Names, IsStrictPrefix(base, goal),
         \A c \in Chunks(base, goal) : c \in Names /\ "delta" \in Forms[c]
  PROVE  \E p, c : Goto(t, p) /\ Hold(t, c) /\ Sane(p, c)
<1> DEFINE n == ChunkEnd(base, goal)
           p == IF file[n] = [label |-> "delta", base |-> base] THEN "load" ELSE "write"
           c == [NoCall EXCEPT !.op = "save", !.name = n, !.label = "delta", !.base = base,
                   !.goal = goal, !.protected = protected \cup {n}]
<1>1. Goto(t, p) /\ Hold(t, c)
  BY DEF ChunkCall
<1>2. base \in Names /\ base \in Seq(Nat) /\ goal \in Seq(Nat)
  BY NamesAssumption DEF Base
<1>3. /\ n \in Chunks(base, goal) /\ IsStrictPrefix(base, n) /\ IsPrefix(n, goal)
      /\ n # goal => Chunks(n, goal) \subseteq Chunks(base, goal)
  BY <1>2, ChunkAhead
<1>4. n \in Names /\ DeltaOn(n, base) /\ Ahead(n, goal)
  BY <1>3 DEF DeltaOn, Ahead
<1>5. /\ c \in Calls /\ c.op = "save" /\ c.name = n /\ c.label = "delta" /\ c.base = base
      /\ c.goal = goal /\ c.entries = NoEntries
  BY <1>2, <1>4, NothingInHand DEF Calls, NoCall, Labels
<1>6. Saving(p, c) /\ Looking(p, c) /\ Pruning(p, c)
  BY <1>4, <1>5 DEF Saving, Looking, Pruning, DeltaOn
<1>7. Sane(p, c)
  BY <1>4, <1>5, <1>6, Records, NoneApart DEF Sane, Places
<1> QED BY <1>1, <1>7

(* A delta is saved on a base that served before. *)
LEMMA SaveDeltaStep ==
  ASSUME IInv, NEW t \in Threads, NEW base \in served, NEW goal \in Names,
         SaveDelta(t, base, goal), quiet' \in BOOLEAN
  PROVE  IInv'
<1>1. manifest # None /\ Base(base)
  BY ThreadSane DEF Stored, Unlisted
<1>2. PICK p, c : Goto(t, p) /\ Hold(t, c) /\ Sane(p, c)
  <2>1. {base} \in SUBSET Names
    BY <1>1 DEF Base
  <2> QED BY <1>1, <2>1, ChunkCallSane DEF SaveDelta
<1>3. Stored' /\ manifest' # None
  BY <1>1, StoredStays, ThreadSane DEF SaveDelta
<1> QED BY <1>2, <1>3, Moved

(* The file is written. *)
LEMMA WriteStep ==
  ASSUME IInv, NEW t \in Threads, Write(t), quiet' \in BOOLEAN
  PROVE  IInv'
<1> DEFINE c == call[t]
           x == [label |-> c.label, base |-> c.base]
<1>1. /\ pc[t] = "write" /\ Goto(t, "load") /\ UNCHANGED <<manifest, served, call>>
      /\ index' = None /\ file' = [file EXCEPT ![c.name] = x]
  BY DEF Write
<1>2. /\ c.op = "save" /\ c.name \in Names /\ c.label \in Forms[c.name]
      /\ c.label = "delta" => DeltaOn(c.name, c.base) /\ manifest # None
      /\ c \in Calls /\ c.base \in Names \cup {None} /\ Stored
  BY <1>1, ThreadSane DEF Sane, Saving, Looking, Pruning, Early, Calls
<1>3. x \in Content
  BY <1>2, FormsAreLabels, Records
<1>4. Stored'
  <2>1. x.label = c.label /\ x.base = c.base
    OBVIOUS
  <2> HIDE DEF x
  <2> QED BY <1>1, <1>2, <1>3, <2>1, FileWritten
<1>5. Hold(t, c)
  BY <1>1 DEF Hold, IInv
<1>6. Sane("load", c) /\ (manifest = None => Early("load", c))
  BY <1>1, <1>2, ThreadSane DEF Sane, Saving, Looking, Pruning, Early, Places
<1> QED BY <1>1, <1>4, <1>5, <1>6, Moved

(* The call of a thread at a place says what it is doing there. *)
LEMMA AtPlace ==
  ASSUME IInv, NEW t \in Threads
  PROVE  /\ pc[t] \in {"load", "store"} => call[t].op \in {"save", "rendered", "token"}
         /\ pc[t] \in {"stale", "prune"} => call[t].op \in {"save", "prune"}
         /\ pc[t] \in {"sync", "syncstore"} => call[t].op \in {"save", "prune", "rendered", "token"}
         /\ pc[t] \in {"find", "keep", "try", "delta", "base"} => call[t].op \in {"rendered", "token"}
<1>1. Sane(pc[t], call[t]) /\ call[t].op \in {None, "save", "prune", "rendered", "token"}
  BY ThreadSane DEF Calls
<1> QED BY <1>1 DEF Sane, Saving, Looking, Pruning

(* A call returns. *)
LEMMA Returned ==
  ASSUME IInv, NEW t \in Threads, Return(t), quiet' \in BOOLEAN, Stored',
         manifest' = None => manifest = None
  PROVE  IInv'
BY NothingInHand, Moved DEF Return

(* The entries of a manifest are read, and the one of the call is set. *)
LEMMA UpdateLoadStep ==
  ASSUME IInv, NEW t \in Threads, UpdateLoad(t), quiet' \in BOOLEAN
  PROVE  IInv'
<1> DEFINE c == call[t]
           n == c.name
           d == [c EXCEPT !.entries = [Loaded EXCEPT ![n] = EntryOf(n, c.label, c.base)]]
<1>1. pc[t] = "load" /\ UNCHANGED <<file, manifest, index, served>>
  BY DEF UpdateLoad
<1>2. Stored'
  BY <1>1, ThreadSane, StoredStays
<1>3. Stored /\ Sane("load", c) /\ c \in Calls /\ (manifest = None => Early("load", c))
  BY <1>1, ThreadSane
<1>4. CASE file[n] # None
  <2>1. Goto(t, "store") /\ Hold(t, d)
    BY <1>4 DEF UpdateLoad
  <2>2. c.op \in {"save", "rendered", "token"}
    BY <1>1, AtPlace
  <2>3. /\ n \in Names /\ c.label \in Labels /\ c.base \in Names \cup {None}
        /\ KnownAs(n, c.label)
    <3>1. c.base \in Names \cup {None}
      BY <1>3 DEF Calls
    <3>2. CASE c.op = "save"
      <4>1. n \in Names /\ c.label \in Forms[n]
        BY <1>3, <3>2 DEF Sane, Saving
      <4> QED BY <3>1, <4>1, FormsAreLabels DEF KnownAs
    <3>3. CASE c.op \in {"rendered", "token"}
      BY <1>3, <3>1, <3>3 DEF Sane, Looking
    <3> QED BY <2>2, <3>2, <3>3
  <2>4. EntryOf(n, c.label, c.base) \in Entry /\ EntryOf(n, c.label, c.base).kind = c.label
    BY <1>3, <1>4, <2>3, EntryOfKnown, Records
  <2>5. d.entries \in Manifests /\ Known(d.entries)
    <3>1. c.label \in Kinds
      BY <2>3, Records
    <3>2. Loaded \in Manifests /\ Known(Loaded)
      BY <1>3, LoadedKnown
    <3>3. d.entries = [Loaded EXCEPT ![n] = EntryOf(n, c.label, c.base)]
      BY <1>3 DEF Calls
    <3> QED BY <2>3, <2>4, <3>2, <3>3, ListedKnown
  <2>6. /\ d \in Calls /\ d.op = c.op /\ d.name = n /\ d.label = c.label /\ d.base = c.base
        /\ d.goal = c.goal /\ d.candidates = c.candidates /\ d.covered = c.covered
        /\ d.cached = c.cached
    BY <1>3, <2>5 DEF Calls
  <2>7. Sane("store", d)
    <3>1. Saving("store", d)
      BY <1>3, <2>6 DEF Sane, Saving
    <3>2. Looking("store", d)
      BY <1>3, <2>6 DEF Sane, Looking
    <3>3. Pruning("store", d)
      BY <2>2, <2>6 DEF Pruning
    <3> QED BY <2>2, <2>5, <2>6, <3>1, <3>2, <3>3, NoneApart DEF Sane, Places
  <2>8. manifest = None => Early("store", d)
    BY <1>3, <2>6 DEF Early
  <2> QED BY <1>1, <1>2, <2>1, <2>7, <2>8, Moved
<1>5. CASE file[n] = None /\ c.op = "save" /\ c.label \notin {"continued", "delta"}
  <2>1. Goto(t, "sync") /\ Hold(t, c)
    BY <1>5 DEF UpdateLoad, Hold, IInv
  <2>2. Sane("sync", c) /\ (manifest = None => Early("sync", c))
    BY <1>3, <1>5 DEF Sane, Saving, Looking, Pruning, Early, Places
  <2> QED BY <1>1, <1>2, <2>1, <2>2, Moved
<1>6. CASE file[n] = None /\ ~(c.op = "save" /\ c.label \notin {"continued", "delta"})
  BY <1>1, <1>2, <1>6, Returned DEF UpdateLoad
<1> QED BY <1>4, <1>5, <1>6

(* They are saved. *)
LEMMA UpdateStoreStep ==
  ASSUME IInv, NEW t \in Threads, UpdateStore(t), quiet' \in BOOLEAN
  PROVE  IInv'
<1> DEFINE c == call[t]
           d == [c EXCEPT !.entries = NoEntries]
<1>1. /\ pc[t] = "store" /\ SaveManifest(c.entries) /\ UNCHANGED <<file, served>>
  BY DEF UpdateStore
<1>2. Sane("store", c) /\ c \in Calls
  BY <1>1, ThreadSane
<1>3. Stored' /\ manifest' # None
  BY <1>1, ThreadSane, ManifestSaved
<1>4. CASE c.op = "save"
  <2>1. Goto(t, "sync") /\ Hold(t, d)
    BY <1>4 DEF UpdateStore
  <2>2. /\ d \in Calls /\ d.op = "save" /\ d.name = c.name /\ d.label = c.label
        /\ d.base = c.base /\ d.goal = c.goal /\ d.entries = NoEntries
    BY <1>2, <1>4, Records DEF Calls
  <2>3. Sane("sync", d)
    BY <1>2, <1>4, <2>2, Records, NoneApart DEF Sane, Saving, Looking, Pruning, Places
  <2> QED BY <1>3, <2>1, <2>3, Moved
<1>5. CASE c.op # "save"
  BY <1>3, <1>5, Returned DEF UpdateStore
<1> QED BY <1>4, <1>5

----------------------------------------
(* Pruning. *)

(* A prune begins at shutdown. *)
LEMMA PruneAtShutdownStep ==
  ASSUME IInv, NEW t \in Threads, PruneAtShutdown(t), quiet' \in BOOLEAN
  PROVE  IInv'
<1> DEFINE c == [NoCall EXCEPT !.op = "prune"]
<1>1. Goto(t, "sync") /\ Hold(t, c) /\ UNCHANGED <<file, manifest, index, served>>
  BY DEF PruneAtShutdown
<1>2. /\ c \in Calls /\ c.op = "prune" /\ c.entries = NoEntries /\ c.label = None
      /\ c.candidates = {}
  BY NothingInHand DEF Calls, NoCall
<1>3. Sane("sync", c) /\ Early("sync", c)
  BY <1>2, Records, NoneApart DEF Sane, Early, Saving, Looking, Pruning, Places
<1> QED BY <1>1, <1>3, StoredStays, ThreadSane, Moved

(* The manifest is brought in line with the directory: the entries are read ... *)
LEMMA SyncStep ==
  ASSUME IInv, NEW t \in Threads, Sync(t), quiet' \in BOOLEAN
  PROVE  IInv'
<1> DEFINE c == call[t]
           d == [c EXCEPT !.entries = Synced, !.dirty = SyncChanges]
           p == IF SyncChanges THEN "syncstore"
                ELSE IF c.op \in {"rendered", "token"} THEN "keep" ELSE "stale"
<1>1. /\ pc[t] = "sync" /\ Goto(t, p) /\ Hold(t, d)
      /\ UNCHANGED <<file, manifest, index, served>>
  BY DEF Sync
<1>2. /\ Stored /\ Sane("sync", c) /\ c \in Calls /\ (manifest = None => Early("sync", c))
      /\ c.op \in {"save", "prune", "rendered", "token"}
  BY <1>1, ThreadSane, AtPlace
<1>3. /\ d \in Calls /\ d.op = c.op /\ d.name = c.name /\ d.label = c.label
      /\ d.base = c.base /\ d.goal = c.goal /\ d.entries = Synced
      /\ d.candidates = c.candidates /\ d.covered = c.covered
  <2>1. SyncChanges \in BOOLEAN
    BY DEF SyncChanges
  <2>2. Synced \in Manifests
    BY <1>2, SyncedKnown
  <2> QED BY <1>2, <2>1, <2>2 DEF Calls
<1>4. Sane(p, d)
  <2>1. Known(d.entries)
    BY <1>2, <1>3, SyncedKnown
  <2>2. Saving(p, d) /\ Pruning(p, d)
    BY <1>2, <1>3, NoneApart DEF Sane, Saving, Pruning
  <2>3. Looking(p, d)
    BY <1>2, <1>3 DEF Sane, Looking
  <2> QED BY <1>2, <1>3, <2>1, <2>2, <2>3, NoneApart DEF Sane, Places
<1>5. manifest = None => Early(p, d)
  BY <1>2, <1>3 DEF Early, SyncChanges, Loaded
<1> QED BY <1>1, <1>2, <1>4, <1>5, StoredStays, Moved

(* ... and saved. *)
LEMMA SyncStoreStep ==
  ASSUME IInv, NEW t \in Threads, SyncStore(t), quiet' \in BOOLEAN
  PROVE  IInv'
<1> DEFINE c == call[t]
           p == IF c.op \in {"rendered", "token"} THEN "keep" ELSE "stale"
<1>1. /\ pc[t] = "syncstore" /\ Goto(t, p) /\ Hold(t, c)
      /\ SaveManifest(c.entries) /\ UNCHANGED <<file, served>>
  BY DEF SyncStore, Hold, IInv
<1>2. Sane("syncstore", c) /\ c.op \in {"save", "prune", "rendered", "token"}
  BY <1>1, ThreadSane, AtPlace
<1>3. Stored' /\ manifest' # None
  BY <1>1, ThreadSane, ManifestSaved
<1>4. Sane(p, c)
  <2>1. Saving(p, c) /\ Pruning(p, c)
    BY <1>2 DEF Sane, Saving, Pruning
  <2>2. Looking(p, c)
    BY <1>2 DEF Sane, Looking
  <2> QED BY <1>2, <2>1, <2>2, NoneApart DEF Sane, Places
<1> QED BY <1>1, <1>3, <1>4, Moved

(* A file and its entry are removed. *)
LEMMA RemoveEntryStep ==
  ASSUME IInv, NEW t \in Threads, NEW victim, RemoveEntry(t, victim),
         pc[t] \in {"stale", "prune"}, NEW p \in {"stale", "prune"}, Goto(t, p), quiet' \in BOOLEAN
  PROVE  IInv'
<1> DEFINE c == call[t]
           d == [c EXCEPT !.entries = Forgotten(@, victim), !.dirty = TRUE]
<1>1. /\ Hold(t, d) /\ UNCHANGED <<manifest, served>> /\ index' = None
      /\ file' = [file EXCEPT ![victim] = None]
  BY DEF RemoveEntry
<1>2. /\ Sane(pc[t], c) /\ c \in Calls /\ (manifest = None => Early(pc[t], c))
      /\ c.op \in {"save", "prune"}
  BY ThreadSane, AtPlace
<1>3. Forgotten(c.entries, victim) \in Manifests /\ Known(Forgotten(c.entries, victim))
  BY ThreadSane, ForgottenKnown
<1>4. /\ d \in Calls /\ d.op = c.op /\ d.name = c.name /\ d.label = c.label
      /\ d.base = c.base /\ d.goal = c.goal /\ d.entries = Forgotten(c.entries, victim)
      /\ d.candidates = c.candidates
  BY <1>2, <1>3 DEF Calls
<1>5. Saving(p, d) /\ Looking(p, d) /\ Pruning(p, d)
  BY <1>2, <1>4 DEF Sane, Saving, Looking, Pruning
<1>6. Sane(p, d)
  BY <1>2, <1>3, <1>4, <1>5, NoneApart DEF Sane, Places
<1>7. manifest = None => Early(p, d)
  BY <1>2, <1>4 DEF Early
<1> QED BY <1>1, <1>6, <1>7, ThreadSane, FileRemoved, Moved

(* The entries that are left are saved; the next chunk of a delta builds on the last. *)
LEMMA PruneStoreStep ==
  ASSUME IInv, NEW t \in Threads, PruneStore(t), quiet' \in BOOLEAN
  PROVE  IInv'
<1> DEFINE c == call[t]
<1>1. /\ pc[t] \in {"stale", "prune"} /\ UNCHANGED <<file, served>>
      /\ IF c.dirty THEN SaveManifest(c.entries) ELSE UNCHANGED <<manifest, index>>
  BY DEF PruneStore
<1>2. /\ Sane(pc[t], c) /\ c \in Calls /\ (manifest = None => Early(pc[t], c))
      /\ c.op \in {"save", "prune"}
  BY <1>1, ThreadSane, AtPlace
<1>3. Stored' /\ (manifest' = None => manifest = None)
  <2>1. CASE c.dirty
    BY <1>1, <2>1, ThreadSane, ManifestSaved
  <2>2. CASE ~c.dirty
    BY <1>1, <2>2, ThreadSane, StoredStays
  <2> QED BY <2>1, <2>2
<1>4. CASE c.label = "delta" /\ c.name # c.goal
  <2>1. c.op = "save" /\ manifest # None
    BY <1>2, <1>4, NoneApart DEF Sane, Pruning, Early
  <2>2. DeltaOn(c.name, c.base) /\ Ahead(c.name, c.goal) /\ c.name \in Names
    BY <1>2, <1>4, <2>1 DEF Sane, Saving
  <2>3. Base(c.name)
    BY <2>2 DEF DeltaOn, Base
  <2>4. IsStrictPrefix(c.name, c.goal) /\ c.goal \in Names
    BY <1>4, <2>2 DEF Ahead, IsStrictPrefix
  <2>5. \A x \in Chunks(c.name, c.goal) : x \in Names /\ "delta" \in Forms[x]
    BY <1>4, <2>2 DEF Ahead
  <2>6. ChunkCall(t, c.name, c.goal, c.protected) /\ c.protected \in SUBSET Names
    BY <1>2, <1>4 DEF PruneStore, Calls
  <2>7. PICK p, d : Goto(t, p) /\ Hold(t, d) /\ Sane(p, d)
    BY <2>1, <2>3, <2>4, <2>5, <2>6, ChunkCallSane
  <2> QED BY <1>3, <2>1, <2>7, Moved
<1>5. CASE ~(c.label = "delta" /\ c.name # c.goal)
  BY <1>3, <1>5, Returned DEF PruneStore
<1> QED BY <1>4, <1>5

----------------------------------------
(* Looking a prompt up. *)

(* A lookup begins. *)
LEMMA StartLookupStep ==
  ASSUME IInv, NEW t \in Threads, NEW op \in {"rendered", "token"}, NEW prompt \in Prompts,
         StartLookup(t, op, prompt), quiet' \in BOOLEAN
  PROVE  IInv'
<1> DEFINE c == [NoCall EXCEPT !.op = op, !.goal = prompt]
<1>1. Goto(t, "find") /\ Hold(t, c) /\ UNCHANGED <<file, manifest, index, served>>
  BY DEF StartLookup
<1>2. /\ c \in Calls /\ c.op = op /\ c.goal = prompt /\ c.entries = NoEntries /\ c.label = None
      /\ c.candidates = {} /\ c.covered = {}
  BY NothingInHand DEF Calls, NoCall
<1>3. Saving("find", c) /\ Looking("find", c) /\ Pruning("find", c)
  BY <1>2 DEF Saving, Looking, Pruning
<1>4. Sane("find", c) /\ Early("find", c)
  BY <1>2, <1>3, Records, NoneApart DEF Sane, Early, Places
<1> QED BY <1>1, <1>4, StoredStays, ThreadSane, Moved

(* The candidates of a lookup, from an index or a manifest just read. *)
LEMMA TryAmongSane ==
  ASSUME IInv, NEW t \in Threads, pc[t] \in {"find", "keep"}, NEW entries \in Manifests,
         Known(entries), TryAmong(t, entries), manifest = None => entries = NoEntries
  PROVE  \E c : Goto(t, "try") /\ Hold(t, c) /\ Sane("try", c) /\ (manifest = None => Early("try", c))
<1> DEFINE c == call[t]
           candidates == Candidates(c.op, c.goal, entries)
           some == [n \in Names |-> IF n \in candidates THEN entries[n] ELSE None]
           d == [c EXCEPT !.dirty = FALSE, !.candidates = candidates, !.entries = some]
<1>1. Goto(t, "try") /\ Hold(t, d)
  BY DEF TryAmong
<1>2. /\ Sane(pc[t], c) /\ c \in Calls /\ c.op \in {"rendered", "token"}
      /\ manifest = None => Early(pc[t], c)
  BY ThreadSane, AtPlace
<1>3. some \in Manifests /\ Known(some)
  BY SomeKnown
<1>4. /\ candidates \in SUBSET Names
      /\ \A n \in candidates : /\ entries[n] # None /\ IsPrefix(n, c.goal)
                               /\ entries[n].kind \in AllowedKinds(c.op)
  BY DEF Candidates, Listed
<1>5. /\ d \in Calls /\ d.op = c.op /\ d.goal = c.goal /\ d.label = c.label
      /\ d.candidates = candidates /\ d.entries = some /\ d.covered = c.covered
  BY <1>2, <1>3, <1>4 DEF Calls
<1>6. ASSUME NEW n \in candidates
      PROVE  /\ some[n] # None /\ IsPrefix(n, c.goal)
             /\ c.op = "token" => some[n].kind # "delta"
  <2>1. some[n] = entries[n] /\ n \in Names
    BY <1>4
  <2>2. c.op = "token" => entries[n].kind # "delta"
    BY <1>4 DEF AllowedKinds
  <2> QED BY <1>4, <2>1, <2>2
<1>7. Looking("try", d)
  BY <1>2, <1>5, <1>6 DEF Sane, Looking
<1>8. Sane("try", d)
  BY <1>2, <1>3, <1>5, <1>7, NoneApart DEF Sane, Saving, Pruning, Places
<1>9. manifest = None => Early("try", d)
  <2>1. ASSUME manifest = None PROVE candidates = {}
    BY <2>1 DEF Candidates, Listed, NoEntries
  <2> QED BY <1>2, <1>5, <2>1 DEF Early
<1> QED BY <1>1, <1>8, <1>9

(* The index is there, or has to be built. *)
LEMMA FindIndexStep ==
  ASSUME IInv, NEW t \in Threads, FindIndex(t), quiet' \in BOOLEAN
  PROVE  IInv'
<1>1. pc[t] = "find" /\ UNCHANGED <<file, manifest, index, served>>
  BY DEF FindIndex
<1>2. Stored' /\ Stored
  BY <1>1, ThreadSane, StoredStays
<1>3. CASE index # None
  <2>1. index \in Manifests /\ Known(index) /\ (manifest = None => index = NoEntries)
    BY <1>2, <1>3 DEF Stored, Unlisted
  <2>2. TryAmong(t, index)
    BY <1>3 DEF FindIndex
  <2>3. PICK c : Goto(t, "try") /\ Hold(t, c) /\ Sane("try", c) /\ (manifest = None => Early("try", c))
    BY <1>1, <2>1, <2>2, TryAmongSane
  <2> QED BY <1>1, <1>2, <2>3, Moved
<1>4. CASE index = None
  <2>1. Goto(t, "sync") /\ Hold(t, call[t])
    BY <1>4 DEF FindIndex, Hold, IInv
  <2>2. /\ Sane("find", call[t]) /\ call[t].op \in {"rendered", "token"}
        /\ manifest = None => Early("find", call[t])
    BY <1>1, ThreadSane, AtPlace
  <2>3. Sane("sync", call[t]) /\ (manifest = None => Early("sync", call[t]))
    BY <2>2, NoneApart DEF Sane, Early, Saving, Looking, Pruning, Places
  <2> QED BY <1>1, <1>2, <2>1, <2>3, Moved
<1> QED BY <1>3, <1>4

(* The index is kept. *)
LEMMA KeepIndexStep ==
  ASSUME IInv, NEW t \in Threads, KeepIndex(t), quiet' \in BOOLEAN
  PROVE  IInv'
<1> DEFINE entries == call[t].entries
<1>1. /\ pc[t] = "keep" /\ index' = entries /\ TryAmong(t, entries)
      /\ UNCHANGED <<file, manifest, served>>
  BY DEF KeepIndex
<1>2. /\ entries \in Manifests /\ Known(entries) /\ Stored
      /\ manifest = None => entries = NoEntries
  BY <1>1, ThreadSane DEF Early
<1>3. PICK c : Goto(t, "try") /\ Hold(t, c) /\ Sane("try", c) /\ (manifest = None => Early("try", c))
  BY <1>1, <1>2, TryAmongSane
<1>4. Stored'
  BY <1>1, <1>2, IndexKept
<1> QED BY <1>1, <1>3, <1>4, Moved

(* The longest candidate is one. *)
LEMMA LongestOne ==
  ASSUME NEW S \in SUBSET Names, S # {}, NEW u \in Seq(Nat), \A n \in S : IsPrefix(n, u)
  PROVE  Longest(S) \in S
<1> DEFINE lengths == {Len(n) : n \in S}
<1>1. lengths \in SUBSET Nat /\ lengths # {} /\ Len(u) \in Nat
  <2>1. \A n \in S : Len(n) \in Nat
    BY Records
  <2>2. lengths \in SUBSET Nat
    BY <2>1
  <2>3. lengths # {}
    OBVIOUS
  <2>4. Len(u) \in Nat
    OBVIOUS
  <2> QED BY <2>2, <2>3, <2>4
<1>2. \A l \in lengths : l <= Len(u)
  <2>1. \A n \in S : Len(n) <= Len(u)
    BY Records, PrefixIndexed
  <2> QED BY <2>1
<1>3. Max(lengths) \in lengths /\ \A l \in lengths : Max(lengths) >= l
  BY <1>1, <1>2, MaxIsGreatest
<1>4. PICK n \in S : Len(n) = Max(lengths)
  BY <1>3
<1>5. \A m \in S : Len(m) <= Len(n)
  BY <1>1, <1>3, <1>4
<1> QED BY <1>5 DEF Longest

(* A candidate is given up. *)
LEMMA Rejected ==
  ASSUME IInv, NEW t \in Threads, NEW n, Reject(t, n), pc[t] \in {"try", "delta", "base"},
         UNCHANGED <<file, manifest, index>>, quiet' \in BOOLEAN
  PROVE  IInv'
<1> DEFINE c == call[t]
           d == [c EXCEPT !.candidates = @ \ {n}, !.name = None, !.at = None, !.covered = {}]
<1>1. Goto(t, "try") /\ Hold(t, d) /\ UNCHANGED <<file, manifest, index, served>>
  BY DEF Reject
<1>2. /\ Sane(pc[t], c) /\ c \in Calls /\ c.op \in {"rendered", "token"}
      /\ manifest = None => Early(pc[t], c)
  BY ThreadSane, AtPlace
<1>3. /\ d \in Calls /\ d.op = c.op /\ d.goal = c.goal /\ d.label = c.label
      /\ d.candidates = c.candidates \ {n} /\ d.entries = c.entries /\ d.covered = {}
  BY <1>2 DEF Calls
<1>4. Looking("try", d)
  BY <1>2, <1>3 DEF Sane, Looking
<1>5. Sane("try", d) /\ (manifest = None => Early("try", d))
  BY <1>2, <1>3, <1>4, NoneApart DEF Sane, Early, Saving, Pruning, Places
<1> QED BY <1>1, <1>5, ThreadSane, StoredStays, Moved

(* A checkpoint is restored. *)
LEMMA Restored ==
  ASSUME IInv, NEW t \in Threads, pc[t] \in {"try", "base"}, call[t].op \in {"rendered", "token"},
         NEW n \in Names, NEW label \in Labels, NEW base \in Names \cup {None},
         NEW covered \in SUBSET Nat, NEW cached \in Nat, Hit(t, n, label, base, covered, cached),
         KnownAs(n, label),
         call[t].op = "rendered" /\ label # "exact" => Base(n),
         manifest # None, UNCHANGED <<file, manifest, index>>, quiet' \in BOOLEAN
  PROVE  IInv'
<1> DEFINE c == [NoCall EXCEPT !.op = call[t].op, !.name = n, !.label = label, !.base = base,
                   !.covered = covered, !.cached = cached]
<1>1. Goto(t, "load") /\ Hold(t, c)
  BY DEF Hit
<1>2. /\ c \in Calls /\ c.op = call[t].op /\ c.name = n /\ c.label = label /\ c.entries = NoEntries
      /\ c.candidates = {} /\ c.covered = covered /\ c.cached = cached
  BY NothingInHand DEF Calls, NoCall
<1>3. Saving("load", c) /\ Pruning("load", c)
  BY <1>2 DEF Saving, Pruning
<1>4. Looking("load", c)
  BY <1>2 DEF Looking
<1>5. Sane("load", c)
  BY <1>2, <1>3, <1>4, Records, NoneApart DEF Sane, Places
<1>6. Stored'
  <2>1. \A m \in served' : Base(m)
    BY ThreadSane DEF Hit, Stored
  <2> QED BY <2>1, ThreadSane, BaseServed
<1> QED BY <1>1, <1>5, <1>6, Moved

(* The longest candidate of a lookup: a name with an entry, there being a manifest. *)
LEMMA Candidate ==
  ASSUME IInv, NEW t \in Threads, pc[t] = "try", call[t].candidates # {}
  PROVE  LET n == Longest(call[t].candidates)
         IN  /\ n \in call[t].candidates /\ n \in Names /\ manifest # None
             /\ KnownAs(n, call[t].entries[n].kind)
             /\ call[t].entries[n] # None
             /\ call[t].op = "token" => call[t].entries[n].kind # "delta" /\ Forms[n] # {"delta"}
<1> DEFINE c == call[t]
           n == Longest(c.candidates)
<1>1. /\ Sane("try", c) /\ c \in Calls /\ c.op \in {"rendered", "token"}
      /\ manifest # None
  BY ThreadSane, AtPlace DEF Early
<1>2. /\ c.candidates \in SUBSET Names /\ c.goal \in Prompts
      /\ \A m \in c.candidates : IsPrefix(m, c.goal) /\ c.entries[m] # None
      /\ \A m \in c.candidates : c.op = "token" => c.entries[m].kind # "delta"
  BY <1>1 DEF Sane, Looking, Calls
<1>3. n \in c.candidates
  BY <1>2, LongestOne, NamesAssumption
<1>4. KnownAs(n, c.entries[n].kind)
  BY <1>1, <1>2, <1>3 DEF Sane, Known
<1> QED BY <1>1, <1>2, <1>3, <1>4 DEF KnownAs

(* What a file of a name holds. *)
LEMMA FileHeld ==
  ASSUME Stored, NEW n \in Names, file[n] # None
  PROVE  /\ file[n].label \in Labels /\ file[n].base \in Names \cup {None}
         /\ KnownAs(n, file[n].label)
         /\ RenderedTokens(n, file[n].label) \in Nat
         /\ file[n].label # "delta" => Held(n, file[n]) = 1 .. RenderedTokens(n, file[n].label)
         /\ Held(n, file[n]) \in SUBSET Nat
         /\ file[n].label # "exact" => Base(n)
<1>1. /\ file[n] \in Content /\ file[n].label \in Labels /\ file[n].base \in Names \cup {None}
      /\ KnownAs(n, file[n].label) /\ (file[n].label # "exact" => Base(n))
      /\ file[n].label = "delta" => file[n].base \in Names
  BY FileKind, Records DEF Base, DeltaOn
<1>2. Len(n) \in Nat /\ Len(n) > 1
  BY Records, NamesAssumption
<1>3. RenderedTokens(n, file[n].label) \in Nat
  BY <1>2 DEF RenderedTokens
<1>4. file[n].label # "delta" => Held(n, file[n]) = 1 .. RenderedTokens(n, file[n].label)
  BY <1>1, HeldPositions DEF RenderedTokens
<1> QED BY <1>1, <1>3, <1>4, HeldType

(* Prefixes of prefixes. *)
LEMMA PrefixOfPrefix ==
  ASSUME NEW a \in Seq(Nat), NEW b \in Seq(Nat), NEW c \in Seq(Nat), IsPrefix(a, b), IsPrefix(b, c)
  PROVE  IsPrefix(a, c) /\ (IsStrictPrefix(a, b) => IsStrictPrefix(a, c))
<1>1. /\ Len(a) \in Nat /\ Len(b) \in Nat /\ Len(c) \in Nat
      /\ Len(a) <= Len(b) /\ \A i \in 1 .. Len(a) : a[i] = b[i]
      /\ Len(b) <= Len(c) /\ \A i \in 1 .. Len(b) : b[i] = c[i]
  BY PrefixIndexed
<1>2. Len(a) <= Len(c) /\ \A i \in 1 .. Len(a) : a[i] = c[i]
  BY <1>1
<1>3. ASSUME IsStrictPrefix(a, b) PROVE Len(a) < Len(c)
  <2>1. Len(a) < Len(b)
    BY <1>3, PrefixIndexed
  <2> QED BY <1>1, <2>1
<1> QED BY <1>2, <1>3, PrefixIndexed

(* The longest candidate for a rendered prompt is read, or is a delta. *)
LEMMA TryRenderedStep ==
  ASSUME IInv, NEW t \in Threads, TryRendered(t), quiet' \in BOOLEAN
  PROVE  IInv'
<1> DEFINE c == call[t]
           n == Longest(c.candidates)
           kind == c.entries[n].kind
           content == file[n]
<1>1. /\ pc[t] = "try" /\ c.op = "rendered" /\ c.candidates # {}
      /\ UNCHANGED <<file, manifest, index>>
  BY DEF TryRendered
<1>2. /\ n \in c.candidates /\ n \in Names /\ manifest # None
      /\ KnownAs(n, kind)
  BY <1>1, Candidate
<1>3. Stored /\ Sane("try", c) /\ c \in Calls
  BY <1>1, ThreadSane
<1>4. CASE kind = "delta"
  <2> DEFINE d == [c EXCEPT !.name = n, !.at = n]
  <2>1. Goto(t, "delta") /\ Hold(t, d) /\ UNCHANGED served
    BY <1>4 DEF TryRendered
  <2>2. /\ d \in Calls /\ d.op = c.op /\ d.goal = c.goal /\ d.name = n /\ d.at = n
        /\ d.candidates = c.candidates /\ d.entries = c.entries /\ d.covered = c.covered
    BY <1>2, <1>3 DEF Calls
  <2>3. Base(n) /\ "delta" \in Forms[n] /\ Len(n) + 1 .. Len(n) = {} /\ IsPrefix(n, n)
    <3>1. Len(n) + 1 .. Len(n) = {}
      BY <1>2, Records
    <3>2. "delta" \in Forms[n] /\ n \in Seq(Nat)
      BY <1>2, <1>4, Records DEF KnownAs
    <3>3. IsPrefix(n, n)
      BY <3>2, PrefixIndexed
    <3> QED BY <1>2, <3>1, <3>2, <3>3 DEF Base
  <2>4. Looking("delta", d)
    <3>1. /\ c.goal \in Prompts /\ c.covered = {}
          /\ \A m \in c.candidates : c.entries[m] # None /\ IsPrefix(m, c.goal)
      BY <1>1, <1>3 DEF Sane, Looking
    <3>2. /\ d.name \in d.candidates /\ "delta" \in Forms[d.name]
          /\ Base(d.at) /\ IsPrefix(d.at, d.name) /\ d.covered = Len(d.at) + 1 .. Len(d.name)
      <4>1. d.name = n /\ d.at = n /\ n \in d.candidates /\ "delta" \in Forms[n] /\ Base(n)
        BY <1>2, <2>2, <2>3
      <4>2. d.covered = Len(n) + 1 .. Len(n) /\ IsPrefix(n, n)
        BY <2>2, <2>3, <3>1
      <4> HIDE DEF d, n, c
      <4> QED BY <4>1, <4>2
    <3>3. d.op = "rendered" /\ d.op # "token"
      BY <1>1, <2>2
    <3> HIDE DEF d
    <3> QED BY <2>2, <3>1, <3>2, <3>3 DEF Looking
  <2>5. Sane("delta", d)
    BY <1>1, <1>3, <2>2, <2>4, NoneApart DEF Sane, Saving, Pruning, Places
  <2> QED BY <1>1, <1>2, <1>3, <2>1, <2>5, StoredStays, Moved
<1>5. CASE kind # "delta" /\ (content = None \/ (kind = "exact" /\ content.label # "exact"))
  BY <1>1, <1>5, Rejected DEF TryRendered
<1>6. CASE kind # "delta" /\ ~(content = None \/ (kind = "exact" /\ content.label # "exact"))
  <2>1. Hit(t, n, content.label, content.base, Held(n, content),
                    RenderedTokens(n, content.label))
    BY <1>6 DEF TryRendered
  <2> QED BY <1>1, <1>2, <1>3, <1>6, <2>1, FileHeld, Restored
<1> QED BY <1>4, <1>5, <1>6

(* A delta on the way down is read. *)
LEMMA ReadDeltaStep ==
  ASSUME IInv, NEW t \in Threads, ReadDelta(t), quiet' \in BOOLEAN
  PROVE  IInv'
<1> DEFINE c == call[t]
           at == c.at
           n == c.name
<1>1. pc[t] = "delta" /\ UNCHANGED <<file, manifest, index>>
  BY DEF ReadDelta
<1>2. Stored /\ Sane("delta", c) /\ c \in Calls /\ (manifest = None => Early("delta", c))
  BY <1>1, ThreadSane
<1>3. CASE file[at] = None \/ file[at].label # "delta"
  BY <1>1, <1>3, Rejected DEF ReadDelta
<1>4. CASE file[at] # None /\ file[at].label = "delta"
  <2> DEFINE d == [c EXCEPT !.covered = @ \cup Held(at, file[at]),
                        !.base = IF at = n THEN file[at].base ELSE @,
                        !.at = file[at].base]
  <2>1. Goto(t, "base") /\ Hold(t, d) /\ UNCHANGED served
    BY <1>4 DEF ReadDelta
  <2>2. /\ c.op \in {"rendered", "token"} /\ n \in Names /\ at \in Names
        /\ IsPrefix(at, n) /\ c.covered = Len(at) + 1 .. Len(n)
    <3>1. c.op \in {"rendered", "token"}
      BY <1>1, AtPlace
    <3>2. n \in c.candidates /\ c.candidates \in SUBSET Names
      BY <1>2, <3>1 DEF Sane, Looking, Calls
    <3> QED BY <1>2, <3>1, <3>2 DEF Sane, Looking, Base
  <2>3. DeltaOn(at, file[at].base) /\ file[at] \in Content
    BY <1>2, <1>4, <2>2 DEF Stored, FilesFormed
  <2>4. /\ Base(file[at].base) /\ file[at].base \in Names
        /\ Len(file[at].base) \in Nat /\ Len(at) \in Nat /\ Len(n) \in Nat
        /\ Len(file[at].base) < Len(at) /\ Len(at) <= Len(n)
        /\ IsPrefix(file[at].base, n) /\ IsStrictPrefix(file[at].base, n)
    <3> DEFINE b == file[at].base
    <3>1. Base(b) /\ b \in Names /\ IsStrictPrefix(b, at) /\ IsPrefix(b, at)
      BY <2>3 DEF DeltaOn, Base, IsStrictPrefix
    <3> HIDE DEF b, at, n
    <3>2. b \in Seq(Nat) /\ at \in Seq(Nat) /\ n \in Seq(Nat)
      BY <2>2, <3>1, Records
    <3>3. IsPrefix(b, n) /\ IsStrictPrefix(b, n)
      BY <2>2, <3>1, <3>2, PrefixOfPrefix
    <3>4. Len(b) < Len(at) /\ Len(at) <= Len(n)
      BY <2>2, <3>1, <3>2, PrefixIndexed
    <3>5. Len(b) \in Nat /\ Len(at) \in Nat /\ Len(n) \in Nat
      BY <3>2
    <3> QED BY <3>1, <3>3, <3>4, <3>5 DEF b
  <2>5. c.covered \cup Held(at, file[at]) = Len(file[at].base) + 1 .. Len(n)
    <3>1. Held(at, file[at]) = Len(file[at].base) + 1 .. Len(at)
      BY <1>4, <2>2, <2>3, HeldPositions
    <3> HIDE DEF at, n, c
    <3> QED BY <2>2, <2>4, <3>1
  <2>6. /\ d \in Calls /\ d.op = c.op /\ d.goal = c.goal /\ d.name = n /\ d.at = file[at].base
        /\ d.candidates = c.candidates /\ d.entries = c.entries /\ d.label = c.label
        /\ d.covered = Len(file[at].base) + 1 .. Len(n)
    <3>1. Len(file[at].base) + 1 .. Len(n) \in SUBSET Nat
      BY <2>4
    <3>2. (IF at = n THEN file[at].base ELSE c.base) \in Names \cup {None}
      BY <1>2, <2>4 DEF Calls
    <3> QED BY <1>2, <2>4, <2>5, <3>1, <3>2, ZenonT(40) DEF Calls
  <2>7. Looking("base", d)
    <3>1. IsPrefix(d.at, d.name) /\ IsStrictPrefix(d.at, d.name)
      BY <2>4, <2>6
    <3> QED BY <1>2, <2>2, <2>4, <2>6, <3>1 DEF Sane, Looking
  <2>8. Sane("base", d) /\ (manifest = None => Early("base", d))
    BY <1>2, <2>2, <2>6, <2>7, NoneApart DEF Sane, Saving, Pruning, Places, Early
  <2> QED BY <1>1, <1>2, <2>1, <2>8, StoredStays, Moved
<1> QED BY <1>3, <1>4

(* The base of a delta is read, or is a delta in turn. *)
LEMMA ReadBaseStep ==
  ASSUME IInv, NEW t \in Threads, ReadBase(t), quiet' \in BOOLEAN
  PROVE  IInv'
<1> DEFINE c == call[t]
           at == c.at
           n == c.name
<1>1. pc[t] = "base" /\ UNCHANGED <<file, manifest, index>>
  BY DEF ReadBase
<1>2. /\ Stored /\ Sane("base", c) /\ c \in Calls /\ (manifest = None => Early("base", c))
      /\ c.op \in {"rendered", "token"}
  BY <1>1, ThreadSane, AtPlace
<1>3. CASE file[at] = None
  BY <1>1, <1>3, Rejected DEF ReadBase
<1>4. CASE file[at] # None /\ file[at].label = "delta"
  <2>1. Goto(t, "delta") /\ Hold(t, c) /\ UNCHANGED served
    BY <1>4 DEF ReadBase, Hold, IInv
  <2>2. Looking("delta", c)
    BY <1>2 DEF Sane, Looking
  <2>3. Sane("delta", c) /\ (manifest = None => Early("delta", c))
    BY <1>2, <2>2, NoneApart DEF Sane, Saving, Pruning, Places, Early
  <2> QED BY <1>1, <1>2, <2>1, <2>3, StoredStays, Moved
<1>5. CASE file[at] # None /\ file[at].label # "delta"
  <2>1. Hit(t, n, "delta", c.base, c.covered \cup Held(at, file[at]), Len(n))
    BY <1>5 DEF ReadBase
  <2>2. /\ c.op = "rendered" /\ n \in c.candidates /\ "delta" \in Forms[n]
        /\ Base(at) /\ c.covered \in SUBSET Nat
    BY <1>2 DEF Sane, Looking, Calls
  <2>3. n \in Names /\ at \in Names /\ c.base \in Names \cup {None} /\ manifest # None
    BY <1>2, <2>2 DEF Calls, Early, Base
  <2>4. Held(at, file[at]) \in SUBSET Nat
    BY <1>2, <1>5, <2>3, FileHeld
  <2>5. Len(n) \in Nat /\ c.covered \cup Held(at, file[at]) \in SUBSET Nat
    BY <2>2, <2>3, <2>4, Records
  <2>6. Base(n)
    BY <2>2, <2>3 DEF Base
  <2>7. "delta" \in Labels /\ KnownAs(n, "delta")
    BY <2>2 DEF Labels, KnownAs
  <2> QED BY <1>1, <2>1, <2>2, <2>3, <2>5, <2>6, <2>7, Restored
<1> QED BY <1>3, <1>4, <1>5

(* The longest candidate of generate_step's lookup is read. *)
LEMMA TryTokenStep ==
  ASSUME IInv, NEW t \in Threads, TryToken(t), quiet' \in BOOLEAN
  PROVE  IInv'
<1> DEFINE c == call[t]
           n == Longest(c.candidates)
<1>1. /\ pc[t] = "try" /\ c.op = "token" /\ c.candidates # {}
      /\ UNCHANGED <<file, manifest, index>>
  BY DEF TryToken
<1>2. /\ n \in c.candidates /\ n \in Names /\ manifest # None /\ Forms[n] # {"delta"} /\ Stored
  BY <1>1, Candidate, ThreadSane
<1>3. CASE file[n] = None
  BY <1>1, <1>3, Rejected DEF TryToken
<1>4. CASE file[n] # None
  <2>1. Hit(t, n, TokenLabel(n, c.goal, file[n]), file[n].base,
                    Held(n, file[n]), TokenTokens(n, c.goal))
    BY <1>4 DEF TryToken
  <2>2. TokenLabel(n, c.goal, file[n]) \in Labels /\ KnownAs(n, TokenLabel(n, c.goal, file[n]))
    <3>1. TokenLabel(n, c.goal, file[n]) \in Labels \ {"delta"}
      BY DEF TokenLabel, Labels
    <3> QED BY <1>2, <3>1 DEF KnownAs
  <2>3. TokenTokens(n, c.goal) \in Nat
    BY <1>2, Records, NamesAssumption DEF TokenTokens
  <2> QED BY <1>1, <1>2, <1>4, <2>1, <2>2, <2>3, FileHeld, Restored
<1> QED BY <1>3, <1>4

----------------------------------------
(* The invariant holds. *)

(* The process starts again. *)
LEMMA RestartStep ==
  ASSUME IInv, Restart, quiet' \in BOOLEAN
  PROVE  IInv'
<1>1. Stored'
  BY DEF IInv, Restart, Stored, FilesFormed, Unlisted
<1>2. pc' \in [Threads -> Places] /\ call' \in [Threads -> Calls]
  BY NothingInHand DEF Restart, Places
<1>3. \A t \in Threads : pc'[t] = "idle" /\ call'[t] = NoCall
  BY DEF Restart
<1> QED BY <1>1, <1>2, <1>3, NothingInHand DEF IInv

(* Initially. *)
LEMMA InitHolds ==
  ASSUME Init
  PROVE  IInv
<1>1. Stored
  BY DEF Init, Stored, FilesFormed, Unlisted
<1>2. pc \in [Threads -> Places] /\ call \in [Threads -> Calls] /\ quiet \in BOOLEAN
  BY NothingInHand DEF Init, Places
<1>3. \A t \in Threads : pc[t] = "idle" /\ call[t] = NoCall
  BY DEF Init
<1> QED BY <1>1, <1>2, <1>3, NothingInHand DEF IInv

(* Every step. *)
LEMMA NextHolds ==
  ASSUME IInv, [Next]_vars
  PROVE  IInv'
<1>1. CASE UNCHANGED vars
  BY <1>1 DEF vars, IInv, Stored, FilesFormed, Unlisted
<1>2. CASE Restart /\ quiet' = (quiet /\ Busy = {})
  <2>1. quiet' \in BOOLEAN
    BY <1>2
  <2> QED BY <1>2, <2>1, RestartStep
<1>3. ASSUME NEW t \in Threads, Begin(t), Track
      PROVE  IInv'
  <2>1. quiet' \in BOOLEAN
    BY <1>3 DEF Track
  <2>2. CASE \E label \in Labels, n \in Names : SaveWhole(t, label, n)
    BY <2>1, <2>2, SaveWholeStep
  <2>3. CASE \E base \in served, goal \in Names : SaveDelta(t, base, goal)
    BY <2>1, <2>3, SaveDeltaStep
  <2>4. CASE PruneAtShutdown(t)
    BY <2>1, <2>4, PruneAtShutdownStep
  <2>5. CASE \E op \in {"rendered", "token"}, prompt \in Prompts : StartLookup(t, op, prompt)
    BY <2>1, <2>5, StartLookupStep
  <2> QED BY <1>3, <2>2, <2>3, <2>4, <2>5 DEF Begin
<1>4. ASSUME NEW t \in Threads, Continue(t), Track
      PROVE  IInv'
  <2>1. quiet' \in BOOLEAN
    BY <1>4 DEF Track
  <2>2. CASE Write(t)          BY <2>1, <2>2, WriteStep
  <2>3. CASE UpdateLoad(t)     BY <2>1, <2>3, UpdateLoadStep
  <2>4. CASE UpdateStore(t)    BY <2>1, <2>4, UpdateStoreStep
  <2>5. CASE Sync(t)           BY <2>1, <2>5, SyncStep
  <2>6. CASE SyncStore(t)      BY <2>1, <2>6, SyncStoreStep
  <2>7. CASE RemoveStale(t)
    <3>1. Goto(t, "stale")
      BY <2>7 DEF RemoveStale, Goto, IInv
    <3>2. \E victim \in Listed(call[t].entries) \cap Aging : RemoveEntry(t, victim)
      BY <2>7 DEF RemoveStale
    <3>3. pc[t] = "stale"
      BY <2>7 DEF RemoveStale
    <3> QED BY <2>1, <3>1, <3>2, <3>3, RemoveEntryStep
  <2>8. CASE RemoveOverBudget(t)
    BY <2>1, <2>8, RemoveEntryStep DEF RemoveOverBudget
  <2>9. CASE PruneStore(t)     BY <2>1, <2>9, PruneStoreStep
  <2>10. CASE FindIndex(t)     BY <2>1, <2>10, FindIndexStep
  <2>11. CASE KeepIndex(t)     BY <2>1, <2>11, KeepIndexStep
  <2>12. CASE TryRendered(t)   BY <2>1, <2>12, TryRenderedStep
  <2>13. CASE ReadDelta(t)     BY <2>1, <2>13, ReadDeltaStep
  <2>14. CASE ReadBase(t)      BY <2>1, <2>14, ReadBaseStep
  <2>15. CASE TryToken(t)      BY <2>1, <2>15, TryTokenStep
  <2>16. CASE Miss(t)
    <3>1. Return(t) /\ UNCHANGED <<file, manifest, index, served>>
      BY <2>16 DEF Miss
    <3> QED BY <2>1, <3>1, StoredStays, ThreadSane, Returned
  <2> QED
    BY <1>4, <2>2, <2>3, <2>4, <2>5, <2>6, <2>7, <2>8, <2>9, <2>10, <2>11, <2>12, <2>13,
       <2>14, <2>15, <2>16 DEF Continue
<1> QED BY <1>1, <1>2, <1>3, <1>4 DEF Next

(* The invariant. *)
THEOREM Invariant == Spec => []IInv
<1>1. Init => IInv
  BY InitHolds
<1>2. IInv /\ [Next]_vars => IInv'
  BY NextHolds
<1> QED BY <1>1, <1>2, PTL DEF Spec

(* Files, manifest, index and the threads' locals have their types. *)
THEOREM Types == Spec => []TypeOK
<1>1. IInv => TypeOK
  <2> SUFFICES ASSUME IInv PROVE TypeOK
    OBVIOUS
  <2>1. /\ file \in [Names -> Content \cup {None}]
        /\ manifest \in Manifests \cup {None} /\ index \in Manifests \cup {None}
        /\ quiet \in BOOLEAN /\ served \subseteq Names
    BY DEF IInv, Stored, Base
  <2>2. pc \in [Threads -> Places]
    BY DEF IInv
  <2>3. \A t \in Threads : call[t] \in Calls /\ (call[t].op = None <=> pc[t] = "idle")
    BY DEF IInv, Sane
  <2> QED BY <2>1, <2>2, <2>3 DEF TypeOK, Places, Calls
<1> QED BY <1>1, Invariant, PTL

----------------------------------------
(* As long as calls do not overlap, the manifest keeps up with the files. *)

Files == {n \in Names : file[n] # None}
InManifest == Listed(Loaded)

(* How the files and what the manifest lists differ while a call c is at a place p.  *)
(* "at" may have gone down from a delta only once the delta's own file was read.     *)
Fits(p, c, files, listed) ==
    /\ p \in {"idle", "write", "sync", "syncstore", "find", "keep", "try", "delta", "base"}
         => listed = files
    /\ p = "load" => c.name \in files /\ listed \cup {c.name} = files
    /\ p \in {"store", "syncstore", "stale", "prune"} => Listed(c.entries) = files
    /\ p \in {"stale", "prune"} => c.dirty \/ listed = files
    /\ p \in {"delta", "base"} => c.at = c.name \/ c.name \in files

(* Where calls did not overlap, one thread at most is busy. *)
Alone ==
    quiet => \E t \in Threads : /\ \A u \in Threads \ {t} : pc[u] = "idle"
                                /\ Fits(pc[t], call[t], Files, InManifest)

(* A set of one element at most. *)
LEMMA AtMostOne ==
  ASSUME NEW S, IsFiniteSet(S), Cardinality(S) <= 1, NEW x \in S, NEW y \in S
  PROVE  x = y
<1> SUFFICES ASSUME x # y PROVE FALSE
  OBVIOUS
<1>1. IsFiniteSet(S \ {x}) /\ Cardinality(S \ {x}) = Cardinality(S) - 1
  BY FS_RemoveElement
<1>2. Cardinality(S \ {x}) # 0
  BY <1>1, FS_EmptySet
<1>3. Cardinality(S \ {x}) \in Nat /\ Cardinality(S) \in Nat
  BY <1>1, FS_CardinalityType
<1> QED BY <1>1, <1>2, <1>3

(* The threads are finitely many. *)
LEMMA ThreadsFinite == IsFiniteSet(Threads) /\ "generation" \in Threads
<1>1. IsFiniteSet({task[1] : task \in Tasks})
  <2> DEFINE T == {task[1] : task \in Tasks}
             f == [task \in Tasks |-> task[1]]
  <2>1. f \in Surjection(Tasks, T)
    BY DEF Surjection
  <2> QED BY <2>1, TasksAssumption, FS_Surjection
<1>2. IsFiniteSet({"generation"})
  BY FS_Singleton
<1> QED BY <1>1, <1>2, FS_Union DEF Threads

(* A thread that moves in a quiet step is the only one that is not idle. *)
LEMMA OnlyOne ==
  ASSUME IInv, Alone, NEW t \in Threads, NEW p, Goto(t, p), pc[t] # "idle" \/ p # "idle",
         Track, quiet'
  PROVE  /\ quiet /\ \A u \in Threads \ {t} : pc[u] = "idle"
         /\ Fits(pc[t], call[t], Files, InManifest)
<1>1. quiet /\ Cardinality(Busy') <= 1
  BY DEF Track
<1>2. PICK w \in Threads : /\ \A u \in Threads \ {w} : pc[u] = "idle"
                           /\ Fits(pc[w], call[w], Files, InManifest)
  BY <1>1 DEF Alone
<1>3. pc' = [pc EXCEPT ![t] = p] /\ pc \in [Threads -> Places]
  BY DEF IInv, Goto
<1>4. CASE w = t
  BY <1>1, <1>2, <1>4
<1>5. CASE w # t
  <2>1. pc[t] = "idle" /\ t \in Busy'
    BY <1>2, <1>3, <1>5 DEF Busy
  <2>2. pc[w] = "idle"
    <3>1. pc[w] # "idle" => w \in Busy'
      BY <1>3, <1>5 DEF Busy
    <3>2. IsFiniteSet(Busy')
      BY ThreadsFinite, FS_Subset DEF Busy
    <3> QED BY <1>1, <1>5, <2>1, <3>1, <3>2, AtMostOne
  <2>3. Fits("idle", call[t], Files, InManifest)
    BY <1>2, <2>2 DEF Fits
  <2> QED BY <1>1, <1>2, <2>1, <2>2, <2>3
<1> QED BY <1>4, <1>5

(* A step of a thread, when what it has in hand fits again where the others are idle. *)
LEMMA StillAlone ==
  ASSUME IInv, Alone, NEW t \in Threads, NEW p, NEW c, Goto(t, p), Hold(t, c), Track,
         pc[t] # "idle" \/ p # "idle",
         quiet /\ Fits(pc[t], call[t], Files, InManifest) => Fits(p, c, Files', InManifest')
  PROVE  Alone'
<1> SUFFICES ASSUME quiet'
             PROVE  \E w \in Threads : /\ \A u \in Threads \ {w} : pc'[u] = "idle"
                                       /\ Fits(pc'[w], call'[w], Files', InManifest')
  BY DEF Alone, Fits
<1>1. /\ quiet /\ \A u \in Threads \ {t} : pc[u] = "idle"
      /\ Fits(pc[t], call[t], Files, InManifest)
  BY OnlyOne
<1>2. Fits(p, c, Files', InManifest')
  BY <1>1
<1>3. pc'[t] = p /\ call'[t] = c /\ \A u \in Threads \ {t} : pc'[u] = pc[u]
  BY DEF IInv, Goto, Hold
<1> QED BY <1>1, <1>2, <1>3

(* Files and manifest are as they were. *)
LEMMA NothingListed ==
  ASSUME UNCHANGED <<file, manifest>>
  PROVE  Files' = Files /\ InManifest' = InManifest
BY DEF Files, InManifest, Loaded, Listed

(* A manifest that is saved lists its entries. *)
LEMMA ManifestLists ==
  ASSUME NEW entries \in Manifests, SaveManifest(entries)
  PROVE  InManifest' = Listed(entries)
BY Records DEF InManifest, Loaded, Listed, SaveManifest

(* A file is written or removed. *)
LEMMA FilesChange ==
  ASSUME IInv, UNCHANGED manifest, NEW n, NEW x, file' = [file EXCEPT ![n] = x]
  PROVE  /\ InManifest' = InManifest
         /\ x # None /\ n \in Names => Files' = Files \cup {n}
         /\ x = None => Files' = Files \ {n}
<1>1. file \in [Names -> Content \cup {None}]
  BY DEF IInv, Stored
<1> QED BY <1>1 DEF Files, InManifest, Loaded, Listed

(* A save begins, with the file there already or not. *)
LEMMA SaveAlone ==
  ASSUME IInv, Alone, NEW t \in Threads, NEW c, NEW p \in {"load", "write"},
         Goto(t, p), Hold(t, c), Track, UNCHANGED <<file, manifest>>,
         p = "load" => c.name \in Files,
         pc[t] = "idle"
  PROVE  Alone'
<1>1. Fits("idle", call[t], Files, InManifest) => Fits(p, c, Files, InManifest)
  BY DEF Fits
<1> QED BY <1>1, NothingListed, StillAlone

(* A checkpoint that is not a delta. *)
LEMMA SaveWholeAlone ==
  ASSUME IInv, Alone, NEW t \in Threads, NEW label \in Labels, NEW n \in Names,
         SaveWhole(t, label, n), Track
  PROVE  Alone'
<1> DEFINE there == label = "frontier" /\ file[n] # None
           p == IF there THEN "load" ELSE "write"
           c == [NoCall EXCEPT !.op = "save", !.name = n, !.label = label,
                   !.base = IF there THEN file[n].base ELSE None,
                   !.protected = Protected(label, n)]
<1>1. /\ Goto(t, p) /\ Hold(t, c) /\ pc[t] = "idle" /\ UNCHANGED <<file, manifest>>
  BY DEF SaveWhole
<1>2. c.name = n
  BY DEF NoCall
<1>3. p = "load" => c.name \in Files
  BY <1>2 DEF Files
<1>4. p \in {"load", "write"}
  OBVIOUS
<1> HIDE DEF p, c
<1> QED BY <1>1, <1>3, <1>4, SaveAlone

(* A chunk that is there already is only listed. *)
LEMMA ChunkCallThere ==
  ASSUME NEW t \in Threads, NEW base, NEW goal, NEW protected, ChunkEnd(base, goal) \in Names,
         ChunkCall(t, base, goal, protected), base \in Names
  PROVE  \E p, c : /\ p \in {"load", "write"} /\ Goto(t, p) /\ Hold(t, c)
                   /\ p = "load" => c.name \in Files
<1> DEFINE n == ChunkEnd(base, goal)
           p == IF file[n] = [label |-> "delta", base |-> base] THEN "load" ELSE "write"
           c == [NoCall EXCEPT !.op = "save", !.name = n, !.label = "delta", !.base = base,
                   !.goal = goal, !.protected = protected \cup {n}]
<1>1. Goto(t, p) /\ Hold(t, c)
  BY DEF ChunkCall
<1>2. c.name = n
  BY DEF NoCall
<1>3. [label |-> "delta", base |-> base] # None
  BY Records DEF Labels
<1>4. p = "load" => c.name \in Files
  BY <1>2, <1>3 DEF Files
<1>5. p \in {"load", "write"}
  OBVIOUS
<1> HIDE DEF p, c
<1> QED BY <1>1, <1>4, <1>5

(* A delta. *)
LEMMA SaveDeltaAlone ==
  ASSUME IInv, Alone, NEW t \in Threads, NEW base \in served, NEW goal \in Names,
         SaveDelta(t, base, goal), Track
  PROVE  Alone'
<1>1. /\ pc[t] = "idle" /\ IsStrictPrefix(base, goal) /\ Chunks(base, goal) \subseteq Names
      /\ ChunkCall(t, base, goal, {base}) /\ UNCHANGED <<file, manifest>>
  BY DEF SaveDelta
<1>2. base \in Names
  BY ThreadSane DEF Stored, Base
<1>3. ChunkEnd(base, goal) \in Names
  BY <1>1, <1>2, ChunkAhead, NamesAssumption
<1>4. PICK p, c : /\ p \in {"load", "write"} /\ Goto(t, p) /\ Hold(t, c)
                  /\ p = "load" => c.name \in Files
  BY <1>1, <1>2, <1>3, ChunkCallThere
<1> QED BY <1>1, <1>4, SaveAlone

(* A step that leaves files, manifest and the call's hold on them alone. *)
LEMMA LookedOn ==
  ASSUME IInv, Alone, NEW t \in Threads, NEW p, NEW c, Goto(t, p), Hold(t, c), Track,
         UNCHANGED <<file, manifest>>,
         pc[t] \in {"idle", "find", "keep", "try", "delta", "base"},
         p \in {"idle", "sync", "find", "keep", "try", "delta", "base", "load"},
         pc[t] # "idle" \/ p # "idle",
         quiet /\ Fits(pc[t], call[t], Files, InManifest) =>
           /\ p \in {"delta", "base"} => c.at = c.name \/ c.name \in Files
           /\ p = "load" => c.name \in Files
  PROVE  Alone'
<1>1. ASSUME quiet, Fits(pc[t], call[t], Files, InManifest)
      PROVE  Fits(p, c, Files, InManifest)
  <2>1. InManifest = Files
    BY <1>1 DEF Fits
  <2> QED BY <1>1, <2>1 DEF Fits
<1> QED BY <1>1, NothingListed, StillAlone

(* The file is written. *)
LEMMA WriteAlone ==
  ASSUME IInv, Alone, NEW t \in Threads, Write(t), Track
  PROVE  Alone'
<1> DEFINE c == call[t]
           x == [label |-> c.label, base |-> c.base]
<1>1. /\ pc[t] = "write" /\ Goto(t, "load") /\ UNCHANGED manifest
      /\ file' = [file EXCEPT ![c.name] = x] /\ Hold(t, c)
  BY DEF Write, Hold, IInv
<1>2. c.name \in Names /\ x # None
  <2>1. Sane("write", c) /\ c \in Calls
    BY <1>1, ThreadSane
  <2>2. c.op = "save"
    BY <2>1 DEF Sane, Looking, Pruning, Calls
  <2>3. c.name \in Names /\ c.label \in Labels /\ c.base \in Names \cup {None}
    BY <2>1, <2>2, FormsAreLabels DEF Sane, Saving, Calls
  <2> QED BY <2>3, Records
<1>3. Files' = Files \cup {c.name} /\ InManifest' = InManifest
  <2> HIDE DEF x
  <2> QED BY <1>1, <1>2, FilesChange
<1>4. Fits(pc[t], c, Files, InManifest) => Fits("load", c, Files', InManifest')
  BY <1>1, <1>3 DEF Fits
<1> HIDE DEF c
<1> QED BY <1>1, <1>4, StillAlone DEF c

(* The manifest is read, and the call's file listed with the others. *)
LEMMA UpdateLoadAlone ==
  ASSUME IInv, Alone, NEW t \in Threads, UpdateLoad(t), Track
  PROVE  Alone'
<1> DEFINE c == call[t]
           n == c.name
           d == [c EXCEPT !.entries = [Loaded EXCEPT ![n] = EntryOf(n, c.label, c.base)]]
<1>1. pc[t] = "load" /\ UNCHANGED <<file, manifest, index, served>>
  BY DEF UpdateLoad
<1>2. Stored /\ Sane("load", c) /\ c \in Calls
  BY <1>1, ThreadSane
<1>3. CASE file[n] # None
  <2>1. Goto(t, "store") /\ Hold(t, d)
    BY <1>3 DEF UpdateLoad
  <2>2. ASSUME Fits("load", c, Files, InManifest)
        PROVE  Fits("store", d, Files, InManifest)
    <3>1. n \in Names /\ InManifest \cup {n} = Files
      BY <2>2 DEF Fits, Files
    <3>2. EntryOf(n, c.label, c.base) # None
      <4>1. c.op \in {"save", "rendered", "token"}
        BY <1>1, AtPlace
      <4>2. c.label \in Labels /\ c.base \in Names \cup {None}
        BY <1>2, <3>1, <4>1, FormsAreLabels DEF Sane, Saving, Looking, Calls
      <4> QED BY <1>2, <1>3, <3>1, <4>2, EntryOfKnown, Records
    <3>3. d.entries = [Loaded EXCEPT ![n] = EntryOf(n, c.label, c.base)]
      BY <1>2 DEF Calls
    <3>4. Loaded \in [Names -> Entry \cup {None}]
      BY <1>2, LoadedKnown DEF Manifests
    <3>5. Listed(d.entries) = InManifest \cup {n}
      BY <3>1, <3>2, <3>3, <3>4 DEF Listed, InManifest
    <3> QED BY <3>1, <3>5 DEF Fits
  <2> HIDE DEF c, d
  <2> QED BY <1>1, <2>1, <2>2, NothingListed, StillAlone DEF c
<1>4. CASE file[n] = None
  <2>1. PICK p, e : Goto(t, p) /\ Hold(t, e)
    BY <1>4 DEF UpdateLoad, Return, Hold, IInv
  <2>2. ~Fits("load", c, Files, InManifest)
    BY <1>4 DEF Fits, Files
  <2> HIDE DEF c
  <2> QED BY <1>1, <2>1, <2>2, StillAlone DEF c
<1> QED BY <1>3, <1>4

(* The manifest is written back. *)
LEMMA UpdateStoreAlone ==
  ASSUME IInv, Alone, NEW t \in Threads, UpdateStore(t), Track
  PROVE  Alone'
<1> DEFINE c == call[t]
<1>1. pc[t] = "store" /\ SaveManifest(c.entries) /\ UNCHANGED file
  BY DEF UpdateStore
<1>2. PICK p, d : p \in {"sync", "idle"} /\ Goto(t, p) /\ Hold(t, d)
  BY DEF UpdateStore, Return
<1>3. Files' = Files /\ InManifest' = Listed(c.entries)
  BY <1>1, ThreadSane, ManifestLists DEF Files
<1>4. Fits("store", c, Files, InManifest) => Fits(p, d, Files', InManifest')
  BY <1>2, <1>3 DEF Fits
<1> HIDE DEF c
<1> QED BY <1>1, <1>2, <1>4, StillAlone DEF c

(* The synced entries list what files and manifest have in common, or all files. *)
LEMMA SyncedLists ==
  ASSUME Stored, InManifest = Files
  PROVE  Listed(Synced) = Files
<1>1. ASSUME NEW n \in Names
      PROVE  Synced[n] # None <=> file[n] # None
  <2>1. CASE file[n] = None
    BY <2>1 DEF Synced
  <2>2. CASE file[n] # None /\ manifest = None
    <3>1. n \in InManifest
      BY <2>2 DEF Files
    <3> QED BY <2>2, <3>1 DEF InManifest, Loaded, Listed, NoEntries
  <2>3. CASE file[n] # None /\ manifest # None
    <3>1. manifest[n] # None
      <4>1. n \in InManifest
        BY <2>3 DEF Files
      <4> QED BY <2>3, <4>1 DEF InManifest, Loaded, Listed
    <3>2. Synced[n] = [manifest[n] EXCEPT !.size = Size(n)] /\ manifest[n] \in Entry
      BY <2>3, <3>1, Records DEF Synced, Stored
    <3>3. Synced[n] \in Entry
      BY <2>3, <3>2, SizeType DEF Entry
    <3> QED BY <2>3, <3>3, Records
  <2> QED BY <2>1, <2>2, <2>3
<1> QED BY <1>1 DEF Listed, Files

(* The manifest is brought in line. *)
LEMMA SyncAlone ==
  ASSUME IInv, Alone, NEW t \in Threads, Sync(t), Track
  PROVE  Alone'
<1> DEFINE c == call[t]
           d == [c EXCEPT !.entries = Synced, !.dirty = SyncChanges]
           p == IF SyncChanges THEN "syncstore"
                ELSE IF c.op \in {"rendered", "token"} THEN "keep" ELSE "stale"
<1>1. /\ pc[t] = "sync" /\ Goto(t, p) /\ Hold(t, d) /\ UNCHANGED <<file, manifest>>
  BY DEF Sync
<1>2. c \in Calls /\ Stored
  BY ThreadSane
<1>3. d.entries = Synced /\ d.dirty = SyncChanges
  BY <1>2 DEF Calls
<1>4. ASSUME Fits("sync", c, Files, InManifest)
      PROVE  Fits(p, d, Files, InManifest)
  <2>1. InManifest = Files
    BY <1>4 DEF Fits
  <2>2. Listed(d.entries) = Files
    BY <1>2, <1>3, <2>1, SyncedLists
  <2>3. p \in {"syncstore", "keep", "stale"}
    OBVIOUS
  <2> HIDE DEF p, d, c
  <2> QED BY <2>1, <2>2, <2>3 DEF Fits
<1>5. p # "idle"
  OBVIOUS
<1> HIDE DEF c, d, p
<1> QED BY <1>1, <1>4, <1>5, NothingListed, StillAlone DEF c

(* It is saved. *)
LEMMA SyncStoreAlone ==
  ASSUME IInv, Alone, NEW t \in Threads, SyncStore(t), Track
  PROVE  Alone'
<1> DEFINE c == call[t]
           p == IF c.op \in {"rendered", "token"} THEN "keep" ELSE "stale"
<1>1. /\ pc[t] = "syncstore" /\ Goto(t, p) /\ Hold(t, c)
      /\ SaveManifest(c.entries) /\ UNCHANGED file
  BY DEF SyncStore, Hold, IInv
<1>2. Files' = Files /\ InManifest' = Listed(c.entries)
  BY <1>1, ThreadSane, ManifestLists DEF Files
<1>3. p \in {"keep", "stale"}
  OBVIOUS
<1>4. Fits("syncstore", c, Files, InManifest) => Fits(p, c, Files', InManifest')
  <2> HIDE DEF p, c
  <2> QED BY <1>2, <1>3 DEF Fits
<1> HIDE DEF c, p
<1> QED BY <1>1, <1>3, <1>4, StillAlone DEF c

(* A file and its entry are removed. *)
LEMMA RemoveEntryAlone ==
  ASSUME IInv, Alone, NEW t \in Threads, NEW victim, RemoveEntry(t, victim),
         pc[t] \in {"stale", "prune"}, NEW p \in {"stale", "prune"}, Goto(t, p), Track
  PROVE  Alone'
<1> DEFINE c == call[t]
           d == [c EXCEPT !.entries = Forgotten(@, victim), !.dirty = TRUE]
<1>1. /\ Hold(t, d) /\ UNCHANGED manifest /\ file' = [file EXCEPT ![victim] = None]
  BY DEF RemoveEntry
<1>2. c \in Calls /\ c.entries \in [Names -> Entry \cup {None}]
  BY ThreadSane DEF Manifests
<1>3. d.entries = Forgotten(c.entries, victim) /\ d.dirty = TRUE
  BY <1>2 DEF Calls
<1>4. Listed(d.entries) = Listed(c.entries) \ {victim}
  BY <1>2, <1>3 DEF Listed, Forgotten
<1>5. Files' = Files \ {victim}
  BY <1>1, FilesChange
<1>6. Fits(pc[t], c, Files, InManifest) => Fits(p, d, Files', InManifest')
  <2> HIDE DEF c, d
  <2> QED BY <1>3, <1>4, <1>5 DEF Fits
<1> HIDE DEF c, d
<1> QED BY <1>1, <1>6, StillAlone DEF c

(* The entries that are left are saved. *)
LEMMA PruneStoreAlone ==
  ASSUME IInv, Alone, NEW t \in Threads, PruneStore(t), Track
  PROVE  Alone'
<1> DEFINE c == call[t]
<1>1. /\ pc[t] \in {"stale", "prune"} /\ UNCHANGED file
      /\ IF c.dirty THEN SaveManifest(c.entries) ELSE UNCHANGED <<manifest, index>>
  BY DEF PruneStore
<1>2. /\ Sane(pc[t], c) /\ c \in Calls /\ (manifest = None => Early(pc[t], c))
      /\ c.op \in {"save", "prune"}
  BY <1>1, ThreadSane, AtPlace
<1>3. Fits(pc[t], c, Files, InManifest) => Files' = Files /\ InManifest' = Files
  <2>1. CASE c.dirty
    <3>1. InManifest' = Listed(c.entries) /\ Files' = Files
      BY <1>1, <2>1, ThreadSane, ManifestLists DEF Files
    <3> QED BY <1>1, <3>1 DEF Fits
  <2>2. CASE ~c.dirty
    <3>1. InManifest' = InManifest /\ Files' = Files
      BY <1>1, <2>2, NothingListed
    <3> QED BY <1>1, <2>2, <3>1 DEF Fits
  <2> QED BY <2>1, <2>2
<1>4. \E p, d : /\ p \in {"idle", "load", "write"} /\ Goto(t, p) /\ Hold(t, d)
                /\ p = "load" => d.name \in Files
  <2>1. CASE c.label = "delta" /\ c.name # c.goal
    <3>1. c.op = "save"
      BY <1>2, <2>1, NoneApart DEF Sane, Pruning
    <3>2. Ahead(c.name, c.goal) /\ c.name \in Names /\ c.goal \in Names
      BY <1>2, <2>1, <3>1 DEF Sane, Saving, Ahead
    <3>3. ChunkEnd(c.name, c.goal) \in Names
      <4>1. IsStrictPrefix(c.name, c.goal)
        BY <2>1, <3>2 DEF Ahead, IsStrictPrefix
      <4>2. ChunkEnd(c.name, c.goal) \in Chunks(c.name, c.goal)
        BY <3>2, <4>1, ChunkAhead, NamesAssumption
      <4> QED BY <2>1, <3>2, <4>2 DEF Ahead
    <3>4. ChunkCall(t, c.name, c.goal, c.protected)
      BY <2>1 DEF PruneStore
    <3> QED BY <3>2, <3>3, <3>4, ChunkCallThere
  <2>2. CASE ~(c.label = "delta" /\ c.name # c.goal)
    BY <2>2 DEF PruneStore, Return
  <2> QED BY <2>1, <2>2
<1>5. PICK p, d : /\ p \in {"idle", "load", "write"} /\ Goto(t, p) /\ Hold(t, d)
                  /\ p = "load" => d.name \in Files
  BY <1>4
<1>6. Fits(pc[t], c, Files, InManifest) => Fits(p, d, Files', InManifest')
  BY <1>3, <1>5 DEF Fits
<1>7. pc[t] # "idle"
  BY <1>1
<1> HIDE DEF c
<1> QED BY <1>5, <1>6, <1>7, StillAlone DEF c

(* A lookup, or the prune at shutdown, begins. *)
LEMMA BeginAlone ==
  ASSUME IInv, Alone, NEW t \in Threads, Track,
         \/ PruneAtShutdown(t)
         \/ \E op \in {"rendered", "token"}, prompt \in Prompts : StartLookup(t, op, prompt)
  PROVE  Alone'
<1>1. PICK p, c : p \in {"sync", "find"} /\ Goto(t, p) /\ Hold(t, c)
  BY DEF PruneAtShutdown, StartLookup
<1>2. pc[t] = "idle" /\ UNCHANGED <<file, manifest>>
  BY DEF PruneAtShutdown, StartLookup
<1> QED BY <1>1, <1>2, LookedOn

(* The index is found, built or kept, or there is no candidate left. *)
LEMMA IndexAlone ==
  ASSUME IInv, Alone, NEW t \in Threads, Track, FindIndex(t) \/ KeepIndex(t) \/ Miss(t)
  PROVE  Alone'
<1>1. PICK p, c : p \in {"sync", "try", "idle"} /\ Goto(t, p) /\ Hold(t, c)
  <2>1. CASE FindIndex(t)
    <3>1. CASE index # None
      BY <2>1, <3>1 DEF FindIndex, TryAmong
    <3>2. CASE index = None
      BY <2>1, <3>2 DEF FindIndex, Hold, IInv
    <3> QED BY <3>1, <3>2
  <2>2. CASE KeepIndex(t)
    BY <2>2 DEF KeepIndex, TryAmong
  <2>3. CASE Miss(t)
    BY <2>3 DEF Miss, Return
  <2> QED BY <2>1, <2>2, <2>3
<1>2. pc[t] \in {"find", "keep", "try"} /\ UNCHANGED <<file, manifest>>
  BY DEF FindIndex, KeepIndex, Miss
<1> QED BY <1>1, <1>2, LookedOn

(* A candidate is given up. *)
LEMMA RejectAlone ==
  ASSUME IInv, Alone, NEW t \in Threads, Track, NEW n, Reject(t, n),
         pc[t] \in {"try", "delta", "base"}, UNCHANGED <<file, manifest>>
  PROVE  Alone'
BY LookedOn DEF Reject

(* A checkpoint whose file was there is restored. *)
LEMMA HitAlone ==
  ASSUME IInv, Alone, NEW t \in Threads, Track, NEW n, NEW label, NEW base, NEW covered, NEW cached,
         Hit(t, n, label, base, covered, cached),
         pc[t] \in {"try", "base"}, UNCHANGED <<file, manifest>>,
         Fits(pc[t], call[t], Files, InManifest) => n \in Files
  PROVE  Alone'
<1> DEFINE c == [NoCall EXCEPT !.op = call[t].op, !.name = n, !.label = label, !.base = base,
                   !.covered = covered, !.cached = cached]
<1>1. Goto(t, "load") /\ Hold(t, c)
  BY DEF Hit
<1>2. c.name = n
  BY DEF NoCall
<1> HIDE DEF c
<1> QED BY <1>1, <1>2, LookedOn

(* Candidates are tried. *)
LEMMA TryAlone ==
  ASSUME IInv, Alone, NEW t \in Threads, Track, TryRendered(t) \/ TryToken(t)
  PROVE  Alone'
<1> DEFINE c == call[t]
           n == Longest(c.candidates)
           d == [c EXCEPT !.name = n, !.at = n]
<1>1. pc[t] = "try" /\ c.candidates # {} /\ UNCHANGED <<file, manifest>>
  BY DEF TryRendered, TryToken
<1>2. n \in Names /\ c \in Calls
  BY <1>1, Candidate, ThreadSane
<1>3. \/ Reject(t, n)
      \/ Goto(t, "delta") /\ Hold(t, d)
      \/ file[n] # None /\ \E label, base, covered, cached : Hit(t, n, label, base, covered, cached)
  <2>1. CASE TryRendered(t)
    BY <2>1 DEF TryRendered
  <2>2. CASE TryToken(t)
    BY <2>2 DEF TryToken
  <2> QED BY <2>1, <2>2
<1>4. CASE Reject(t, n)
  BY <1>1, <1>4, RejectAlone
<1>5. CASE Goto(t, "delta") /\ Hold(t, d)
  <2>1. d.at = d.name
    BY <1>2 DEF Calls
  <2> HIDE DEF d
  <2> QED BY <1>1, <1>5, <2>1, LookedOn
<1>6. CASE file[n] # None /\ \E label, base, covered, cached : Hit(t, n, label, base, covered, cached)
  <2>1. n \in Files
    BY <1>2, <1>6 DEF Files
  <2> HIDE DEF n
  <2> QED BY <1>1, <1>6, <2>1, HitAlone
<1> QED BY <1>3, <1>4, <1>5, <1>6

(* A delta is read: from now on the file restored has been seen. *)
LEMMA ReadDeltaAlone ==
  ASSUME IInv, Alone, NEW t \in Threads, Track, ReadDelta(t)
  PROVE  Alone'
<1> DEFINE c == call[t]
           at == c.at
           d == [c EXCEPT !.covered = @ \cup Held(at, file[at]),
                        !.base = IF at = c.name THEN file[at].base ELSE @,
                        !.at = file[at].base]
<1>1. pc[t] = "delta" /\ UNCHANGED <<file, manifest>>
  BY DEF ReadDelta
<1>2. CASE file[at] = None \/ file[at].label # "delta"
  BY <1>1, <1>2, RejectAlone DEF ReadDelta
<1>3. CASE file[at] # None /\ file[at].label = "delta"
  <2>1. Goto(t, "base") /\ Hold(t, d)
    BY <1>3 DEF ReadDelta
  <2>2. d.name = c.name /\ Base(at) /\ c \in Calls
    BY <1>1, ThreadSane, AtPlace DEF Sane, Looking, Calls
  <2>3. Fits("delta", c, Files, InManifest) => d.name \in Files
    BY <1>3, <2>2 DEF Fits, Files, Base
  <2> HIDE DEF d
  <2> QED BY <1>1, <2>1, <2>3, LookedOn
<1> QED BY <1>2, <1>3

(* Its base is read. *)
LEMMA ReadBaseAlone ==
  ASSUME IInv, Alone, NEW t \in Threads, Track, ReadBase(t)
  PROVE  Alone'
<1> DEFINE c == call[t]
           at == c.at
           n == c.name
<1>1. pc[t] = "base" /\ UNCHANGED <<file, manifest>>
  BY DEF ReadBase
<1>2. CASE file[at] = None
  BY <1>1, <1>2, RejectAlone DEF ReadBase
<1>3. CASE file[at] # None /\ file[at].label = "delta"
  <2>1. Goto(t, "delta") /\ Hold(t, c)
    BY <1>3 DEF ReadBase, Hold, IInv
  <2>2. Fits("base", c, Files, InManifest) => c.at = c.name \/ c.name \in Files
    BY DEF Fits
  <2> HIDE DEF c
  <2> QED BY <1>1, <2>1, <2>2, LookedOn DEF c
<1>4. CASE file[at] # None /\ file[at].label # "delta"
  <2>1. Hit(t, n, "delta", c.base, c.covered \cup Held(at, file[at]), Len(n))
    BY <1>4 DEF ReadBase
  <2>2. Base(at)
    BY <1>1, ThreadSane, AtPlace DEF Sane, Looking
  <2>3. Fits("base", c, Files, InManifest) => n \in Files
    BY <1>4, <2>2 DEF Fits, Files, Base
  <2> QED BY <1>1, <2>1, <2>3, HitAlone
<1> QED BY <1>2, <1>3, <1>4

(* Nothing is there initially. *)
LEMMA InitAlone ==
  ASSUME Init
  PROVE  Alone
<1>1. Files = {} /\ InManifest = {}
  BY DEF Init, Files, InManifest, Loaded, Listed, NoEntries
<1>2. Fits("idle", NoCall, Files, InManifest)
  BY <1>1 DEF Fits
<1>3. "generation" \in Threads /\ \A t \in Threads : pc[t] = "idle" /\ call[t] = NoCall
  BY ThreadsFinite DEF Init
<1> QED BY <1>2, <1>3 DEF Alone

(* Every step. *)
LEMMA NextAlone ==
  ASSUME IInv, Alone, [Next]_vars
  PROVE  Alone'
<1>1. CASE UNCHANGED vars
  BY <1>1 DEF vars, Alone, Fits, Files, InManifest, Loaded, Listed
<1>2. CASE Restart /\ quiet' = (quiet /\ Busy = {})
  <2> SUFFICES ASSUME quiet' PROVE Alone'
    BY DEF Alone
  <2>1. quiet /\ \A t \in Threads : pc[t] = "idle"
    BY <1>2 DEF Busy
  <2>2. InManifest = Files
    BY <2>1 DEF Alone, Fits
  <2>3. InManifest' = Files' /\ \A t \in Threads : pc'[t] = "idle" /\ call'[t] = NoCall
    BY <1>2, <2>2, NothingListed DEF Restart
  <2>4. Fits("idle", NoCall, Files', InManifest')
    BY <2>3 DEF Fits
  <2> QED BY <2>3, <2>4, ThreadsFinite DEF Alone
<1>3. ASSUME NEW t \in Threads, Begin(t), Track
      PROVE  Alone'
  <2>1. CASE \E label \in Labels, n \in Names : SaveWhole(t, label, n)
    BY <1>3, <2>1, SaveWholeAlone
  <2>2. CASE \E base \in served, goal \in Names : SaveDelta(t, base, goal)
    BY <1>3, <2>2, SaveDeltaAlone
  <2>3. CASE \/ PruneAtShutdown(t)
             \/ \E op \in {"rendered", "token"}, prompt \in Prompts : StartLookup(t, op, prompt)
    BY <1>3, <2>3, BeginAlone
  <2> QED BY <1>3, <2>1, <2>2, <2>3 DEF Begin
<1>4. ASSUME NEW t \in Threads, Continue(t), Track
      PROVE  Alone'
  <2>1. CASE Write(t)          BY <1>4, <2>1, WriteAlone
  <2>2. CASE UpdateLoad(t)     BY <1>4, <2>2, UpdateLoadAlone
  <2>3. CASE UpdateStore(t)    BY <1>4, <2>3, UpdateStoreAlone
  <2>4. CASE Sync(t)           BY <1>4, <2>4, SyncAlone
  <2>5. CASE SyncStore(t)      BY <1>4, <2>5, SyncStoreAlone
  <2>6. CASE RemoveStale(t)
    <3>1. Goto(t, "stale")
      BY <2>6 DEF RemoveStale, Goto, IInv
    <3>2. pc[t] = "stale" /\ \E victim \in Listed(call[t].entries) \cap Aging : RemoveEntry(t, victim)
      BY <2>6 DEF RemoveStale
    <3> QED BY <1>4, <3>1, <3>2, RemoveEntryAlone
  <2>7. CASE RemoveOverBudget(t)
    BY <1>4, <2>7, RemoveEntryAlone DEF RemoveOverBudget
  <2>8. CASE PruneStore(t)     BY <1>4, <2>8, PruneStoreAlone
  <2>9. CASE FindIndex(t) \/ KeepIndex(t) \/ Miss(t)
    BY <1>4, <2>9, IndexAlone
  <2>10. CASE TryRendered(t) \/ TryToken(t)
    BY <1>4, <2>10, TryAlone
  <2>11. CASE ReadDelta(t)     BY <1>4, <2>11, ReadDeltaAlone
  <2>12. CASE ReadBase(t)      BY <1>4, <2>12, ReadBaseAlone
  <2> QED
    BY <1>4, <2>1, <2>2, <2>3, <2>4, <2>5, <2>6, <2>7, <2>8, <2>9, <2>10, <2>11, <2>12
       DEF Continue
<1> QED BY <1>1, <1>2, <1>3, <1>4 DEF Next

----------------------------------------
(* The budget of the disk. *)

(* The files of names S fit into the budget, even when each holds its whole name. *)
RoomFor(S) ==
    /\ MaxFiles > 0 => Cardinality(S) <= MaxFiles
    /\ MaxBytes > 0 => SumFunction([n \in S |-> Len(n)]) <= MaxBytes

(* The budget has room for any single checkpoint, and for the whole chain of a delta. *)
BudgetSuffices ==
    /\ \A n \in Names : RoomFor({n})
    /\ \A base, goal \in Names :
         IsStrictPrefix(base, goal)
           /\ (\A c \in Chunks(base, goal) : c \in Names /\ "delta" \in Forms[c])
         => RoomFor({base} \cup Chunks(base, goal))

FileSizes == [n \in Names |-> Size(n)]

(* DiskWithinBudget, between calls or not. *)
Within ==
    /\ MaxFiles > 0 => Cardinality(Files) <= MaxFiles
    /\ MaxBytes > 0 => SumFunction([n \in Files |-> Size(n)]) <= MaxBytes

(* What a call protects from pruning, now or with the chunks to come, has room. *)
Spares(c) ==
    /\ c.op = "prune" => c.protected = {}
    /\ c.op = "save" => \E S \in SUBSET Names :
         /\ RoomFor(S) /\ c.protected \subseteq S
         /\ c.label = "delta" /\ c.name # c.goal => Chunks(c.name, c.goal) \subseteq S

(* Only a save exceeds the budget; the entries it prunes by have the sizes of the files. *)
Sized(p, c, within, size) ==
    /\ p = "idle" \/ c.op \in {"rendered", "token"} => within
    /\ p \in {"syncstore", "stale", "prune"} /\ c.op \in {"save", "prune"}
         => \A n \in Listed(c.entries) : c.entries[n].size = size[n]

Budget ==
    /\ \A t \in Threads : Spares(call[t])
    /\ quiet => \A t \in Threads :
         (\A u \in Threads \ {t} : pc[u] = "idle") => Sized(pc[t], call[t], Within, FileSizes)

(* A step of a thread. *)
LEMMA StillInBudget ==
  ASSUME IInv, Alone, Budget, NEW t \in Threads, NEW p, NEW c, Goto(t, p), Hold(t, c), Track,
         pc[t] # "idle" \/ p # "idle", Spares(c), p = "idle" => c.op = None,
         quiet /\ Fits(pc[t], call[t], Files, InManifest)
           /\ Sized(pc[t], call[t], Within, FileSizes) => Sized(p, c, Within', FileSizes')
  PROVE  Budget'
<1>1. /\ pc'[t] = p /\ call'[t] = c
      /\ \A u \in Threads \ {t} : pc'[u] = pc[u] /\ call'[u] = call[u]
  BY DEF IInv, Goto, Hold
<1>2. \A u \in Threads : Spares(call'[u])
  BY <1>1 DEF Budget
<1>3. ASSUME quiet', NEW w \in Threads, \A u \in Threads \ {w} : pc'[u] = "idle"
      PROVE  Sized(pc'[w], call'[w], Within', FileSizes')
  <2>1. /\ quiet /\ \A u \in Threads \ {t} : pc[u] = "idle"
        /\ Fits(pc[t], call[t], Files, InManifest)
    BY <1>3, OnlyOne
  <2>2. Sized(pc[t], call[t], Within, FileSizes)
    BY <2>1 DEF Budget
  <2>3. Sized(p, c, Within', FileSizes')
    BY <2>1, <2>2
  <2>4. CASE w = t
    BY <1>1, <2>3, <2>4
  <2>5. CASE w # t
    <3>1. p = "idle" /\ pc'[w] = "idle"
      BY <1>1, <1>3, <2>1, <2>5
    <3>2. Within'
      BY <2>3, <3>1 DEF Sized
    <3> QED BY <3>1, <3>2 DEF Sized
  <2> QED BY <2>4, <2>5
<1> QED BY <1>2, <1>3 DEF Budget

(* Files that stay. *)
LEMMA FilesStay ==
  ASSUME UNCHANGED file
  PROVE  Files' = Files /\ (Within' <=> Within) /\ FileSizes' = FileSizes
<1>1. Files' = Files /\ \A n : Size(n)' = Size(n)
  BY DEF Files, Size
<1>2. [n \in Files |-> Size(n)]' = [n \in Files |-> Size(n)]
  BY DEF Files, Size
<1>3. FileSizes' = FileSizes
  BY <1>1 DEF FileSizes, Size
<1> QED BY <1>1, <1>2, <1>3 DEF Within

(* A save that has not come to prune, or a lookup. *)
LEMMA OutOfPrune ==
  ASSUME IInv, Alone, Budget, NEW t \in Threads, NEW p, NEW c, Goto(t, p), Hold(t, c), Track,
         pc[t] # "idle" \/ p # "idle", Spares(c),
         \/ p \notin {"idle", "syncstore", "stale", "prune"} /\ c.op \in {"save", "prune"}
         \/ /\ pc[t] = "idle" \/ call[t].op \in {"rendered", "token"}
            /\ IF p = "idle" THEN c.op = None ELSE c.op \in {"rendered", "token"}
            /\ UNCHANGED file
  PROVE  Budget'
<1>1. ASSUME Sized(pc[t], call[t], Within, FileSizes)
      PROVE  Sized(p, c, Within', FileSizes')
  <2>1. CASE p \notin {"idle", "syncstore", "stale", "prune"} /\ c.op \in {"save", "prune"}
    BY <2>1 DEF Sized
  <2>2. CASE /\ pc[t] = "idle" \/ call[t].op \in {"rendered", "token"}
             /\ IF p = "idle" THEN c.op = None ELSE c.op \in {"rendered", "token"}
             /\ UNCHANGED file
    <3>1. Within'
      BY <1>1, <2>2, FilesStay DEF Sized
    <3>2. c.op \notin {"save", "prune"}
      BY <2>2, NoneApart
    <3> QED BY <3>1, <3>2 DEF Sized
  <2> QED BY <2>1, <2>2
<1>2. p = "idle" => c.op = None
  OBVIOUS
<1> QED BY <1>1, <1>2, StillInBudget

(* A lookup's call spares nothing, and a call that returned. *)
LEMMA LookupSpares ==
  ASSUME NEW c, c.op \in {"rendered", "token", None}
  PROVE  Spares(c)
BY NoneApart DEF Spares

(* The calls that save have room for what they spare. *)
LEMMA SaveWholeBudget ==
  ASSUME BudgetSuffices, IInv, Alone, Budget, NEW t \in Threads, NEW label \in Labels, NEW n \in Names,
         SaveWhole(t, label, n), Track
  PROVE  Budget'
<1> DEFINE there == label = "frontier" /\ file[n] # None
           p == IF there THEN "load" ELSE "write"
           c == [NoCall EXCEPT !.op = "save", !.name = n, !.label = label,
                   !.base = IF there THEN file[n].base ELSE None,
                   !.protected = Protected(label, n)]
<1>1. /\ Goto(t, p) /\ Hold(t, c) /\ pc[t] = "idle" /\ label # "delta"
  BY DEF SaveWhole
<1>2. c.op = "save" /\ c.label = label /\ c.protected = Protected(label, n)
  BY DEF NoCall
<1>3. Spares(c)
  <2>1. RoomFor({n}) /\ {n} \in SUBSET Names /\ Protected(label, n) \subseteq {n}
    BY DEF BudgetSuffices, Protected
  <2>2. c.op # "prune"
    BY <1>2
  <2> HIDE DEF c
  <2> QED BY <1>1, <1>2, <2>1, <2>2 DEF Spares
<1>4. p \in {"load", "write"}
  OBVIOUS
<1> HIDE DEF p, c
<1> QED BY <1>1, <1>2, <1>3, <1>4, OutOfPrune

(* A chunk is saved, with room for the base, the chunks so far and those to come. *)
LEMMA ChunkBudget ==
  ASSUME IInv, Alone, Budget, NEW t \in Threads, NEW base \in Names, NEW goal \in Names, NEW protected,
         ChunkCall(t, base, goal, protected), IsStrictPrefix(base, goal), Track,
         NEW S \in SUBSET Names, RoomFor(S), protected \subseteq S, Chunks(base, goal) \subseteq S
  PROVE  Budget'
<1> DEFINE n == ChunkEnd(base, goal)
           p == IF file[n] = [label |-> "delta", base |-> base] THEN "load" ELSE "write"
           c == [NoCall EXCEPT !.op = "save", !.name = n, !.label = "delta", !.base = base,
                   !.goal = goal, !.protected = protected \cup {n}]
<1>1. Goto(t, p) /\ Hold(t, c)
  BY DEF ChunkCall
<1>2. /\ c.op = "save" /\ c.label = "delta" /\ c.protected = protected \cup {n}
      /\ c.name = n /\ c.goal = goal
  BY DEF NoCall
<1>3. n \in Chunks(base, goal) /\ (n # goal => Chunks(n, goal) \subseteq Chunks(base, goal))
  BY ChunkAhead, NamesAssumption
<1>4. Spares(c)
  <2>1. c.protected \subseteq S /\ (c.name # c.goal => Chunks(c.name, c.goal) \subseteq S)
    BY <1>2, <1>3
  <2>2. c.op # "prune"
    BY <1>2
  <2> HIDE DEF c
  <2> QED BY <2>1, <2>2 DEF Spares
<1>5. p \in {"load", "write"}
  OBVIOUS
<1> HIDE DEF p, c
<1> QED BY <1>1, <1>2, <1>4, <1>5, OutOfPrune

(* A delta is saved. *)
LEMMA SaveDeltaBudget ==
  ASSUME BudgetSuffices, IInv, Alone, Budget, NEW t \in Threads, NEW base \in served, NEW goal \in Names,
         SaveDelta(t, base, goal), Track
  PROVE  Budget'
<1> DEFINE S == {base} \cup Chunks(base, goal)
<1>1. /\ IsStrictPrefix(base, goal) /\ Chunks(base, goal) \subseteq Names
      /\ \A c \in Chunks(base, goal) : "delta" \in Forms[c]
      /\ ChunkCall(t, base, goal, {base})
  BY DEF SaveDelta
<1>2. base \in Names
  BY ThreadSane DEF Stored, Base
<1>3. RoomFor(S) /\ S \in SUBSET Names /\ {base} \subseteq S /\ Chunks(base, goal) \subseteq S
  BY <1>1, <1>2 DEF BudgetSuffices
<1> HIDE DEF S
<1> QED BY <1>1, <1>2, <1>3, ChunkBudget

(* The file is written. *)
LEMMA WriteBudget ==
  ASSUME IInv, Alone, Budget, NEW t \in Threads, Write(t), Track
  PROVE  Budget'
<1>1. pc[t] = "write" /\ Goto(t, "load") /\ Hold(t, call[t])
  BY DEF Write, Hold, IInv
<1>2. call[t].op = "save"
  BY <1>1, ThreadSane DEF Sane, Looking, Pruning, Calls
<1>3. Spares(call[t])
  BY DEF Budget
<1> QED BY <1>1, <1>2, <1>3, OutOfPrune

(* The manifest is read. *)
LEMMA UpdateLoadBudget ==
  ASSUME IInv, Alone, Budget, NEW t \in Threads, UpdateLoad(t), Track
  PROVE  Budget'
<1> DEFINE c == call[t]
           n == c.name
           d == [c EXCEPT !.entries = [Loaded EXCEPT ![n] = EntryOf(n, c.label, c.base)]]
<1>1. pc[t] = "load" /\ UNCHANGED file
  BY DEF UpdateLoad
<1>2. c \in Calls /\ c.op \in {"save", "rendered", "token"} /\ Spares(c)
  BY <1>1, ThreadSane, AtPlace DEF Budget
<1>3. CASE file[n] # None
  <2>1. Goto(t, "store") /\ Hold(t, d)
    BY <1>3 DEF UpdateLoad
  <2>2. /\ d.op = c.op /\ d.name = c.name /\ d.label = c.label /\ d.goal = c.goal
        /\ d.protected = c.protected
    BY <1>2 DEF Calls
  <2>3. Spares(d)
    <3> HIDE DEF d, c
    <3> QED BY <1>2, <2>2 DEF Spares
  <2> HIDE DEF d
  <2> QED BY <1>1, <1>2, <2>1, <2>2, <2>3, OutOfPrune
<1>4. CASE file[n] = None
  <2>1. PICK p, e : /\ Goto(t, p) /\ Hold(t, e) /\ Spares(e) /\ (p = "idle" => e.op = None)
    <3>1. CASE c.op = "save" /\ c.label \notin {"continued", "delta"}
      <4>1. Goto(t, "sync") /\ Hold(t, c)
        BY <1>4, <3>1 DEF UpdateLoad, Hold, IInv
      <4> QED BY <1>2, <4>1
    <3>2. CASE ~(c.op = "save" /\ c.label \notin {"continued", "delta"})
      BY <1>4, <3>2, NothingInHand, LookupSpares DEF UpdateLoad, Return
    <3> QED BY <3>1, <3>2
  <2>2. ~Fits("load", c, Files, InManifest)
    BY <1>4 DEF Fits, Files
  <2> HIDE DEF c
  <2> QED BY <1>1, <2>1, <2>2, StillInBudget DEF c
<1> QED BY <1>3, <1>4

(* The manifest is written back. *)
LEMMA UpdateStoreBudget ==
  ASSUME IInv, Alone, Budget, NEW t \in Threads, UpdateStore(t), Track
  PROVE  Budget'
<1> DEFINE c == call[t]
           d == [c EXCEPT !.entries = NoEntries]
<1>1. pc[t] = "store" /\ UNCHANGED file
  BY DEF UpdateStore
<1>2. c \in Calls /\ c.op \in {"save", "rendered", "token"} /\ Spares(c)
  BY <1>1, ThreadSane, AtPlace DEF Budget
<1>3. CASE c.op = "save"
  <2>1. Goto(t, "sync") /\ Hold(t, d)
    BY <1>3 DEF UpdateStore
  <2>2. /\ d.op = c.op /\ d.name = c.name /\ d.label = c.label /\ d.goal = c.goal
        /\ d.protected = c.protected
    BY <1>2 DEF Calls
  <2>3. Spares(d)
    <3> HIDE DEF d, c
    <3> QED BY <1>2, <2>2 DEF Spares
  <2> HIDE DEF d
  <2> QED BY <1>1, <1>3, <2>1, <2>2, <2>3, OutOfPrune
<1>4. CASE c.op # "save"
  <2>1. Goto(t, "idle") /\ Hold(t, NoCall)
    BY <1>4 DEF UpdateStore, Return
  <2> QED BY <1>1, <1>2, <1>4, <2>1, NothingInHand, LookupSpares, OutOfPrune
<1> QED BY <1>3, <1>4

(* A synced entry has the size of its file. *)
LEMMA SyncedSizes ==
  ASSUME Stored, NEW n \in Listed(Synced)
  PROVE  Synced[n].size = FileSizes[n]
<1>1. n \in Names /\ Synced[n] # None
  BY DEF Listed
<1>2. file[n] # None /\ (manifest # None => manifest[n] # None)
  BY <1>1 DEF Synced
<1>3. CASE manifest = None
  <2>1. Synced[n] = EntryOf(n, "unknown", None)
    BY <1>1, <1>2, <1>3 DEF Synced
  <2> QED BY <1>1, <2>1 DEF EntryOf, FileSizes
<1>4. CASE manifest # None
  <2>1. Synced[n] = [manifest[n] EXCEPT !.size = Size(n)] /\ manifest[n] \in Entry
    BY <1>1, <1>2, <1>4, Records DEF Synced, Stored
  <2> QED BY <1>1, <2>1 DEF Entry, FileSizes
<1> QED BY <1>3, <1>4

(* The manifest is brought in line. *)
LEMMA SyncBudget ==
  ASSUME IInv, Alone, Budget, NEW t \in Threads, Sync(t), Track
  PROVE  Budget'
<1> DEFINE c == call[t]
           d == [c EXCEPT !.entries = Synced, !.dirty = SyncChanges]
           p == IF SyncChanges THEN "syncstore"
                ELSE IF c.op \in {"rendered", "token"} THEN "keep" ELSE "stale"
<1>1. /\ pc[t] = "sync" /\ Goto(t, p) /\ Hold(t, d) /\ UNCHANGED file
  BY DEF Sync
<1>2. c \in Calls /\ Stored /\ Spares(c) /\ c.op \in {"save", "prune", "rendered", "token"}
  BY <1>1, ThreadSane, AtPlace DEF Budget
<1>3. /\ d.entries = Synced /\ d.op = c.op /\ d.name = c.name /\ d.label = c.label
      /\ d.goal = c.goal /\ d.protected = c.protected
  BY <1>2 DEF Calls
<1>4. Spares(d)
  <2> HIDE DEF d, c
  <2> QED BY <1>2, <1>3 DEF Spares
<1>5. Sized(pc[t], c, Within, FileSizes) => Sized(p, d, Within', FileSizes')
  <2>1. \A n \in Listed(d.entries) : d.entries[n].size = FileSizes'[n]
    BY <1>1, <1>2, <1>3, SyncedSizes, FilesStay
  <2>2. p # "idle"
    OBVIOUS
  <2> HIDE DEF p, d, c
  <2> QED BY <1>1, <1>3, <2>1, <2>2, FilesStay DEF Sized
<1>6. p # "idle"
  OBVIOUS
<1> HIDE DEF p, d, c
<1> QED BY <1>1, <1>4, <1>5, <1>6, StillInBudget DEF c

(* It is saved. *)
LEMMA SyncStoreBudget ==
  ASSUME IInv, Alone, Budget, NEW t \in Threads, SyncStore(t), Track
  PROVE  Budget'
<1> DEFINE c == call[t]
           p == IF c.op \in {"rendered", "token"} THEN "keep" ELSE "stale"
<1>1. /\ pc[t] = "syncstore" /\ Goto(t, p) /\ Hold(t, c) /\ UNCHANGED file
  BY DEF SyncStore, Hold, IInv
<1>2. Spares(c)
  BY DEF Budget
<1>3. p # "idle"
  OBVIOUS
<1>4. Sized(pc[t], c, Within, FileSizes) => Sized(p, c, Within', FileSizes')
  <2> HIDE DEF p, c
  <2> QED BY <1>1, <1>3, FilesStay DEF Sized
<1> HIDE DEF p, c
<1> QED BY <1>1, <1>2, <1>3, <1>4, StillInBudget DEF c

(* A file and its entry are removed: the other files keep their sizes. *)
LEMMA RemoveEntryBudget ==
  ASSUME IInv, Alone, Budget, NEW t \in Threads, NEW victim, RemoveEntry(t, victim),
         pc[t] \in {"stale", "prune"}, NEW p \in {"stale", "prune"}, Goto(t, p), Track
  PROVE  Budget'
<1> DEFINE c == call[t]
           d == [c EXCEPT !.entries = Forgotten(@, victim), !.dirty = TRUE]
<1>1. /\ Hold(t, d) /\ file' = [file EXCEPT ![victim] = None]
  BY DEF RemoveEntry
<1>2. /\ c \in Calls /\ c.entries \in [Names -> Entry \cup {None}] /\ Spares(c)
      /\ c.op \in {"save", "prune"}
  BY ThreadSane, AtPlace DEF Manifests, Budget
<1>3. /\ d.entries = Forgotten(c.entries, victim) /\ d.op = c.op /\ d.name = c.name
      /\ d.label = c.label /\ d.goal = c.goal /\ d.protected = c.protected
  BY <1>2 DEF Calls
<1>4. Spares(d)
  <2> HIDE DEF d, c
  <2> QED BY <1>2, <1>3 DEF Spares
<1>5. ASSUME NEW n \in Listed(d.entries)
      PROVE  /\ n \in Listed(c.entries) /\ d.entries[n] = c.entries[n]
             /\ FileSizes'[n] = FileSizes[n]
  <2>1. n \in Names /\ n # victim /\ d.entries[n] = c.entries[n] /\ n \in Listed(c.entries)
    BY <1>2, <1>3, <1>5 DEF Listed, Forgotten
  <2>2. file'[n] = file[n]
    BY <1>1, <2>1 DEF IInv, Stored
  <2>3. Size(n)' = Size(n)
    BY <2>2 DEF Size
  <2> QED BY <2>1, <2>3 DEF FileSizes
<1>6. Sized(pc[t], c, Within, FileSizes) => Sized(p, d, Within', FileSizes')
  <2>1. d.op \notin {"rendered", "token"} /\ p # "idle"
    BY <1>2, <1>3
  <2> HIDE DEF c, d
  <2> QED BY <1>2, <1>5, <2>1 DEF Sized
<1> HIDE DEF c, d
<1> QED BY <1>1, <1>4, <1>6, StillInBudget DEF c

(* If a file is not protected, there is a victim. *)
LEMMA VictimThere ==
  ASSUME NEW entries \in Manifests, NEW protected, Listed(entries) \ protected # {}
  PROVE  Victims(entries, protected) # {}
<1> DEFINE unprotected == Listed(entries) \ protected
           spare == unprotected \ DeltaBaseFiles(entries)
           among == IF spare # {} THEN spare ELSE unprotected
           rank(n) == KindRank(entries[n].kind)
           heights == {5 - rank(n) : n \in among}
<1>1. among # {} /\ among \subseteq Listed(entries)
  OBVIOUS
<1>2. \A n \in among : rank(n) \in 0 .. 5
  <2>1. \A n \in among : entries[n] \in Entry
    BY <1>1, Records DEF Listed
  <2>2. \A n \in among : entries[n].kind \in Kinds
    BY <2>1 DEF Entry
  <2> HIDE DEF among
  <2> QED BY <2>2 DEF Kinds, Labels, KindRank
<1> HIDE DEF among, rank
<1>3. heights \in SUBSET Nat /\ heights # {} /\ \A h \in heights : h <= 5
  BY <1>1, <1>2
<1>4. Max(heights) \in heights /\ \A h \in heights : Max(heights) >= h
  BY <1>3, MaxIsGreatest
<1>5. PICK n \in among : 5 - rank(n) = Max(heights)
  BY <1>4
<1>6. \A m \in among : rank(n) <= rank(m)
  <2> SUFFICES ASSUME NEW m \in among PROVE rank(n) <= rank(m)
    OBVIOUS
  <2>1. 5 - rank(n) >= 5 - rank(m)
    BY <1>4, <1>5
  <2> QED BY <1>2, <2>1
<1>7. n \in {k \in among : \A m \in among : rank(k) <= rank(m)}
  BY <1>6
<1> QED BY <1>7 DEF Victims, among, rank

(* No file is larger than its whole name. *)
LEMMA SizeBelow ==
  ASSUME Stored, NEW n \in Names, file[n] # None
  PROVE  Size(n) \in Nat /\ Size(n) <= Len(n)
<1>1. Size(n) \in Nat /\ file[n] \in Content /\ Len(n) \in Nat
  BY SizeType, FileKind, Records
<1>2. Held(n, file[n]) \subseteq 1 .. Len(n)
  <2>1. CASE file[n].label = "exact"
    BY <1>1, <2>1, HeldPositions
  <2>2. CASE file[n].label = "delta"
    <3>1. Len(file[n].base) \in Nat
      BY <2>2, Records DEF Stored, FilesFormed, DeltaOn, Base
    <3>2. Held(n, file[n]) = Len(file[n].base) + 1 .. Len(n)
      BY <1>1, <2>2, HeldPositions
    <3> QED BY <1>1, <3>1, <3>2
  <2>3. CASE file[n].label \notin {"exact", "delta"}
    BY <1>1, <2>3, HeldPositions
  <2> QED BY <2>1, <2>2, <2>3
<1>3. IsFiniteSet(1 .. Len(n)) /\ Cardinality(1 .. Len(n)) = Len(n)
  <2>1. 1 \in Int /\ Len(n) \in Int
    BY <1>1
  <2>2. IsFiniteSet(1 .. Len(n)) /\ Cardinality(1 .. Len(n)) = IF 1 > Len(n) THEN 0 ELSE Len(n) - 1 + 1
    BY <2>1, FS_Interval
  <2> QED BY <1>1, <2>2
<1>4. Cardinality(Held(n, file[n])) <= Len(n)
  BY <1>2, <1>3, FS_Subset
<1> QED BY <1>1, <1>4 DEF Size

(* Files that have room are within the budget. *)
LEMMA RoomWithin ==
  ASSUME Stored, NEW S \in SUBSET Names, RoomFor(S), Files \subseteq S
  PROVE  Within
<1>1. IsFiniteSet(S)
  BY NamesAssumption, FS_Subset
<1>2. ASSUME MaxFiles > 0 PROVE Cardinality(Files) <= MaxFiles
  <2>1. Cardinality(Files) <= Cardinality(S) /\ Cardinality(S) <= MaxFiles /\ IsFiniteSet(Files)
    BY <1>1, <1>2, FS_Subset DEF RoomFor
  <2>2. Cardinality(Files) \in Nat /\ Cardinality(S) \in Nat
    BY <1>1, <2>1, FS_CardinalityType
  <2> QED BY <2>1, <2>2, LimitsAssumption
<1>3. ASSUME MaxBytes > 0 PROVE SumFunction([n \in Files |-> Size(n)]) <= MaxBytes
  <2> DEFINE f == [n \in Files |-> Size(n)]
             g == [n \in S |-> Len(n)]
  <2>1. DOMAIN f = Files /\ DOMAIN g = S /\ \A n \in S : g[n] \in Nat
    BY Records
  <2>2. \A n \in Files : f[n] \in Int /\ f[n] <= g[n]
    BY SizeBelow DEF Files
  <2>3. IsFiniteSet(Files) /\ IsFiniteSet(S)
    BY <1>1, FS_Subset
  <2>4. SumFunction(g) <= MaxBytes
    BY <1>3 DEF RoomFor
  <2> HIDE DEF f, g
  <2>5. SumFunction(f) <= SumFunction(g)
    BY <2>1, <2>2, <2>3, SumBelow
  <2>6. SumFunction(f) \in Int /\ SumFunction(g) \in Int
    BY <2>1, <2>2, <2>3, SumType
  <2> QED BY <2>4, <2>5, <2>6, LimitsAssumption DEF f
<1> QED BY <1>2, <1>3 DEF Within

(* When a prune ends, the files are within the budget. *)
LEMMA PrunedWithin ==
  ASSUME Stored, NEW entries \in Manifests, Listed(entries) = Files,
         \A n \in Listed(entries) : entries[n].size = FileSizes[n],
         NEW S \in SUBSET Names, RoomFor(S), NEW protected \in SUBSET S,
         ~OverBudget(entries) \/ Victims(entries, protected) = {}
  PROVE  Within
<1>1. CASE Victims(entries, protected) = {}
  <2>1. Files \subseteq S
    BY <1>1, VictimThere
  <2> QED BY <2>1, RoomWithin
<1>2. CASE ~OverBudget(entries)
  <2> DEFINE f == [n \in Files |-> Size(n)]
             g == [n \in Listed(entries) |-> entries[n].size]
  <2>1. f = g
    BY DEF FileSizes, Files
  <2>2. IsFiniteSet(Files)
    BY NamesAssumption, FS_Subset DEF Files
  <2>3. Cardinality(Files) \in Nat
    BY <2>2, FS_CardinalityType
  <2>4. SumFunction(f) \in Int
    <3>1. DOMAIN f = Files /\ \A n \in Files : f[n] \in Int
      BY SizeBelow DEF Files
    <3> HIDE DEF f
    <3> QED BY <2>2, <3>1, SumType
  <2>5. MaxBytes > 0 => ~(SumFunction(g) > MaxBytes)
    BY <1>2 DEF OverBudget, TotalBytes
  <2>6. MaxFiles > 0 => ~(Cardinality(Files) > MaxFiles)
    BY <1>2 DEF OverBudget
  <2>7. MaxBytes > 0 => SumFunction(f) <= MaxBytes
    <3> HIDE DEF f, g
    <3> QED BY <2>1, <2>4, <2>5, LimitsAssumption
  <2> QED BY <2>3, <2>6, <2>7, LimitsAssumption DEF Within
<1> QED BY <1>1, <1>2

(* The entries that are left are saved. *)
LEMMA PruneStoreBudget ==
  ASSUME BudgetSuffices, IInv, Alone, Budget, NEW t \in Threads, PruneStore(t), Track
  PROVE  Budget'
<1> DEFINE c == call[t]
<1>1. /\ pc[t] \in {"stale", "prune"} /\ UNCHANGED file
      /\ ~OverBudget(c.entries) \/ Victims(c.entries, c.protected) = {}
  BY DEF PruneStore
<1>2. /\ Sane(pc[t], c) /\ c \in Calls /\ c.op \in {"save", "prune"} /\ Stored
      /\ c.entries \in Manifests /\ Spares(c)
  BY <1>1, ThreadSane, AtPlace DEF Budget
<1>3. \E S \in SUBSET Names : /\ RoomFor(S) /\ c.protected \subseteq S
                              /\ c.label = "delta" /\ c.name # c.goal /\ c.op = "save"
                                   => Chunks(c.name, c.goal) \subseteq S
  <2>1. CASE c.op = "save"
    BY <1>2, <2>1 DEF Spares
  <2>2. CASE c.op = "prune"
    <3>1. RoomFor({})
      <4>1. Cardinality({}) = 0
        BY FS_EmptySet
      <4>2. DOMAIN [n \in {} |-> Len(n)] = {}
        OBVIOUS
      <4>3. SumFunction([n \in {} |-> Len(n)]) = 0
        BY <4>2, SumOfNone
      <4> QED BY <4>1, <4>3, LimitsAssumption DEF RoomFor
    <3> QED BY <1>2, <2>2, <3>1 DEF Spares
  <2> QED BY <1>2, <2>1, <2>2
<1>4. PICK S \in SUBSET Names : /\ RoomFor(S) /\ c.protected \subseteq S
                                /\ c.label = "delta" /\ c.name # c.goal /\ c.op = "save"
                                     => Chunks(c.name, c.goal) \subseteq S
  BY <1>3
<1>5. CASE c.label = "delta" /\ c.name # c.goal
  <2>1. c.op = "save"
    BY <1>2, <1>5, NoneApart DEF Sane, Pruning
  <2>2. Ahead(c.name, c.goal) /\ c.name \in Names /\ c.goal \in Names
    BY <1>2, <1>5, <2>1 DEF Sane, Saving, Ahead
  <2>3. IsStrictPrefix(c.name, c.goal)
    BY <1>5, <2>2 DEF Ahead, IsStrictPrefix
  <2>4. ChunkCall(t, c.name, c.goal, c.protected)
    BY <1>5 DEF PruneStore
  <2> QED BY <1>4, <1>5, <2>1, <2>2, <2>3, <2>4, ChunkBudget
<1>6. CASE ~(c.label = "delta" /\ c.name # c.goal)
  <2>1. Goto(t, "idle") /\ Hold(t, NoCall)
    BY <1>6 DEF PruneStore, Return
  <2>2. ASSUME Fits(pc[t], c, Files, InManifest), Sized(pc[t], c, Within, FileSizes)
        PROVE  Sized("idle", NoCall, Within', FileSizes')
    <3>1. /\ Listed(c.entries) = Files
          /\ \A n \in Listed(c.entries) : c.entries[n].size = FileSizes[n]
      BY <1>1, <1>2, <2>2 DEF Fits, Sized
    <3>2. c.protected \in SUBSET S
      BY <1>4
    <3>3. Within
      <4> HIDE DEF c
      <4> QED BY <1>1, <1>2, <1>4, <3>1, <3>2, PrunedWithin
    <3> QED BY <1>1, <3>3, FilesStay DEF Sized
  <2>3. Spares(NoCall)
    BY NothingInHand, LookupSpares
  <2> HIDE DEF c
  <2> QED BY <1>1, <2>1, <2>2, <2>3, NothingInHand, StillInBudget DEF c
<1> QED BY <1>5, <1>6

(* Lookups change no file. *)
LEMMA LookupBudget ==
  ASSUME IInv, Alone, Budget, NEW t \in Threads, Track,
         \/ \E op \in {"rendered", "token"}, prompt \in Prompts : StartLookup(t, op, prompt)
         \/ FindIndex(t) \/ KeepIndex(t) \/ TryRendered(t) \/ ReadDelta(t) \/ ReadBase(t)
         \/ TryToken(t) \/ Miss(t)
  PROVE  Budget'
<1>1. \E p, c : /\ Goto(t, p) /\ Hold(t, c) /\ (pc[t] # "idle" \/ p # "idle")
                /\ pc[t] = "idle" \/ call[t].op \in {"rendered", "token"}
                /\ IF p = "idle" THEN c.op = None ELSE c.op \in {"rendered", "token"}
  <2>1. CASE \E op \in {"rendered", "token"}, prompt \in Prompts : StartLookup(t, op, prompt)
    <3>1. PICK op \in {"rendered", "token"}, prompt \in Prompts : StartLookup(t, op, prompt)
      BY <2>1
    <3> DEFINE c == [NoCall EXCEPT !.op = op, !.goal = prompt]
    <3>2. pc[t] = "idle" /\ Goto(t, "find") /\ Hold(t, c)
      BY <3>1 DEF StartLookup
    <3>3. c.op = op
      BY DEF NoCall
    <3> HIDE DEF c
    <3> QED BY <3>2, <3>3
  <2>2. CASE \/ FindIndex(t) \/ KeepIndex(t) \/ TryRendered(t) \/ ReadDelta(t) \/ ReadBase(t)
             \/ TryToken(t) \/ Miss(t)
    <3>1. pc[t] \in {"find", "keep", "try", "delta", "base"}
      BY <2>2 DEF FindIndex, KeepIndex, TryRendered, ReadDelta, ReadBase, TryToken, Miss
    <3>2. call[t] \in Calls /\ call[t].op \in {"rendered", "token"} /\ pc[t] # "idle"
      BY <3>1, ThreadSane, AtPlace
    <3>3. ASSUME NEW entries, TryAmong(t, entries)
          PROVE  \E c : Goto(t, "try") /\ Hold(t, c) /\ c.op = call[t].op
      <4> DEFINE candidates == Candidates(call[t].op, call[t].goal, entries)
                 d == [call[t] EXCEPT !.dirty = FALSE, !.candidates = candidates,
                         !.entries = [n \in Names |-> IF n \in candidates THEN entries[n] ELSE None]]
      <4>1. Goto(t, "try") /\ Hold(t, d)
        BY <3>3 DEF TryAmong
      <4>2. d.op = call[t].op
        BY <3>2 DEF Calls
      <4> HIDE DEF d
      <4> QED BY <4>1, <4>2
    <3>4. ASSUME NEW n, Reject(t, n)
          PROVE  \E c : Goto(t, "try") /\ Hold(t, c) /\ c.op = call[t].op
      <4> DEFINE d == [call[t] EXCEPT !.candidates = @ \ {n}, !.name = None, !.at = None,
                         !.covered = {}]
      <4>1. Goto(t, "try") /\ Hold(t, d)
        BY <3>4 DEF Reject
      <4>2. d.op = call[t].op
        BY <3>2 DEF Calls
      <4> HIDE DEF d
      <4> QED BY <4>1, <4>2
    <3>5. ASSUME NEW n, NEW label, NEW base, NEW covered, NEW cached,
                 Hit(t, n, label, base, covered, cached)
          PROVE  \E c : Goto(t, "load") /\ Hold(t, c) /\ c.op = call[t].op
      <4> DEFINE c == [NoCall EXCEPT !.op = call[t].op, !.name = n, !.label = label, !.base = base,
                   !.covered = covered, !.cached = cached]
      <4>1. c.op = call[t].op
        BY DEF NoCall
      <4>2. Goto(t, "load") /\ Hold(t, c)
        BY <3>5 DEF Hit
      <4> HIDE DEF c
      <4> QED BY <4>1, <4>2
    <3>6. \/ Goto(t, "idle") /\ Hold(t, NoCall)
          \/ \E p, c : p # "idle" /\ Goto(t, p) /\ Hold(t, c) /\ c.op = call[t].op
      <4>1. CASE FindIndex(t)
        <5>1. CASE index # None
          BY <3>3, <4>1, <5>1 DEF FindIndex
        <5>2. CASE index = None
          BY <4>1, <5>2 DEF FindIndex, Hold, IInv
        <5> QED BY <5>1, <5>2
      <4>2. CASE KeepIndex(t)
        BY <3>3, <4>2 DEF KeepIndex
      <4>3. CASE TryRendered(t)
        <5> DEFINE n == Longest(call[t].candidates)
                   d == [call[t] EXCEPT !.name = n, !.at = n]
        <5>1. \/ Reject(t, n)
              \/ Goto(t, "delta") /\ Hold(t, d)
              \/ \E label, base, covered, cached : Hit(t, n, label, base, covered, cached)
          BY <4>3 DEF TryRendered
        <5>2. d.op = call[t].op
          BY <3>2 DEF Calls
        <5> HIDE DEF d, n
        <5> QED BY <3>4, <3>5, <5>1, <5>2
      <4>4. CASE ReadDelta(t)
        <5> DEFINE d == [call[t] EXCEPT !.covered = @ \cup Held(call[t].at, file[call[t].at]),
                        !.base = IF call[t].at = call[t].name THEN file[call[t].at].base ELSE @,
                        !.at = file[call[t].at].base]
        <5>1. \/ Reject(t, call[t].name)
              \/ Goto(t, "base") /\ Hold(t, d)
          BY <4>4 DEF ReadDelta
        <5>2. d.op = call[t].op
          BY <3>2 DEF Calls
        <5> HIDE DEF d
        <5> QED BY <3>4, <5>1, <5>2
      <4>5. CASE ReadBase(t)
        <5>1. \/ Reject(t, call[t].name)
              \/ Goto(t, "delta") /\ Hold(t, call[t])
              \/ \E base, covered, cached : Hit(t, call[t].name, "delta", base, covered, cached)
          <6>1. CASE file[call[t].at] = None
            BY <4>5, <6>1 DEF ReadBase
          <6>2. CASE file[call[t].at] # None /\ file[call[t].at].label = "delta"
            BY <4>5, <6>2 DEF ReadBase, Hold, IInv
          <6>3. CASE file[call[t].at] # None /\ file[call[t].at].label # "delta"
            BY <4>5, <6>3 DEF ReadBase
          <6> QED BY <6>1, <6>2, <6>3
        <5> QED BY <3>4, <3>5, <5>1
      <4>6. CASE TryToken(t)
        <5> DEFINE n == Longest(call[t].candidates)
        <5>1. \/ Reject(t, n)
              \/ \E label, base, covered, cached : Hit(t, n, label, base, covered, cached)
          BY <4>6 DEF TryToken
        <5> HIDE DEF n
        <5> QED BY <3>4, <3>5, <5>1
      <4>7. CASE Miss(t)
        BY <4>7 DEF Miss, Return
      <4> QED BY <2>2, <4>1, <4>2, <4>3, <4>4, <4>5, <4>6, <4>7
    <3> QED BY <3>2, <3>6, NothingInHand
  <2> QED BY <2>1, <2>2
<1>2. UNCHANGED file
  BY DEF StartLookup, FindIndex, KeepIndex, TryRendered, ReadDelta, ReadBase, TryToken, Miss
<1>3. PICK p, c : /\ Goto(t, p) /\ Hold(t, c) /\ (pc[t] # "idle" \/ p # "idle")
                  /\ pc[t] = "idle" \/ call[t].op \in {"rendered", "token"}
                  /\ IF p = "idle" THEN c.op = None ELSE c.op \in {"rendered", "token"}
  BY <1>1
<1>4. Spares(c)
  BY <1>3, LookupSpares
<1> QED BY <1>2, <1>3, <1>4, OutOfPrune

(* Initially. *)
LEMMA InitBudget ==
  ASSUME Init
  PROVE  Budget
<1>1. Files = {}
  BY DEF Init, Files
<1>2. Within
  <2>1. Cardinality(Files) = 0
    BY <1>1, FS_EmptySet
  <2>2. DOMAIN [n \in Files |-> Size(n)] = {}
    BY <1>1
  <2>3. SumFunction([n \in Files |-> Size(n)]) = 0
    BY <2>2, SumOfNone
  <2> QED BY <2>1, <2>3, LimitsAssumption DEF Within
<1>3. \A t \in Threads : pc[t] = "idle" /\ call[t] = NoCall
  BY DEF Init
<1>4. Spares(NoCall) /\ Sized("idle", NoCall, Within, FileSizes)
  BY <1>2, NothingInHand, LookupSpares DEF Sized
<1> QED BY <1>3, <1>4 DEF Budget

(* Every step. *)
LEMMA NextBudget ==
  ASSUME BudgetSuffices, IInv, Alone, Budget, [Next]_vars
  PROVE  Budget'
<1>1. CASE UNCHANGED vars
  <2>1. (Within' <=> Within) /\ FileSizes' = FileSizes
    BY <1>1, FilesStay DEF vars
  <2>2. pc' = pc /\ call' = call /\ quiet' = quiet
    BY <1>1 DEF vars
  <2>3. \A t \in Threads : Sized(pc[t], call[t], Within, FileSizes)
                             => Sized(pc[t], call[t], Within', FileSizes')
    BY <2>1 DEF Sized
  <2> QED BY <2>2, <2>3 DEF Budget
<1>2. CASE Restart /\ quiet' = (quiet /\ Busy = {})
  <2>1. \A t \in Threads : pc'[t] = "idle" /\ call'[t] = NoCall
    BY <1>2 DEF Restart
  <2>2. Spares(NoCall)
    BY NothingInHand, LookupSpares
  <2>3. ASSUME quiet' PROVE Sized("idle", NoCall, Within', FileSizes')
    <3>1. quiet /\ \A t \in Threads : pc[t] = "idle"
      BY <1>2, <2>3 DEF Busy
    <3>2. Within
      BY <3>1, ThreadsFinite DEF Budget, Sized
    <3>3. Within'
      BY <1>2, <3>2, FilesStay DEF Restart
    <3> QED BY <3>3, NothingInHand DEF Sized
  <2> QED BY <2>1, <2>2, <2>3 DEF Budget
<1>3. ASSUME NEW t \in Threads, Begin(t), Track
      PROVE  Budget'
  <2>1. CASE \E label \in Labels, n \in Names : SaveWhole(t, label, n)
    BY <1>3, <2>1, SaveWholeBudget
  <2>2. CASE \E base \in served, goal \in Names : SaveDelta(t, base, goal)
    BY <1>3, <2>2, SaveDeltaBudget
  <2>3. CASE PruneAtShutdown(t)
    <3> DEFINE c == [NoCall EXCEPT !.op = "prune"]
    <3>1. Goto(t, "sync") /\ Hold(t, c) /\ pc[t] = "idle"
      BY <2>3 DEF PruneAtShutdown
    <3>2. c.op = "prune" /\ c.protected = {}
      BY DEF NoCall
    <3> HIDE DEF c
    <3>3. Spares(c)
      BY <3>2 DEF Spares
    <3> QED BY <1>3, <3>1, <3>2, <3>3, OutOfPrune
  <2>4. CASE \E op \in {"rendered", "token"}, prompt \in Prompts : StartLookup(t, op, prompt)
    BY <1>3, <2>4, LookupBudget
  <2> QED BY <1>3, <2>1, <2>2, <2>3, <2>4 DEF Begin
<1>4. ASSUME NEW t \in Threads, Continue(t), Track
      PROVE  Budget'
  <2>1. CASE Write(t)          BY <1>4, <2>1, WriteBudget
  <2>2. CASE UpdateLoad(t)     BY <1>4, <2>2, UpdateLoadBudget
  <2>3. CASE UpdateStore(t)    BY <1>4, <2>3, UpdateStoreBudget
  <2>4. CASE Sync(t)           BY <1>4, <2>4, SyncBudget
  <2>5. CASE SyncStore(t)      BY <1>4, <2>5, SyncStoreBudget
  <2>6. CASE RemoveStale(t)
    <3>1. Goto(t, "stale")
      BY <2>6 DEF RemoveStale, Goto, IInv
    <3>2. pc[t] = "stale" /\ \E victim \in Listed(call[t].entries) \cap Aging : RemoveEntry(t, victim)
      BY <2>6 DEF RemoveStale
    <3> QED BY <1>4, <3>1, <3>2, RemoveEntryBudget
  <2>7. CASE RemoveOverBudget(t)
    BY <1>4, <2>7, RemoveEntryBudget DEF RemoveOverBudget
  <2>8. CASE PruneStore(t)     BY <1>4, <2>8, PruneStoreBudget
  <2>9. CASE \/ FindIndex(t) \/ KeepIndex(t) \/ TryRendered(t) \/ ReadDelta(t) \/ ReadBase(t)
             \/ TryToken(t) \/ Miss(t)
    BY <1>4, <2>9, LookupBudget
  <2> QED
    BY <1>4, <2>1, <2>2, <2>3, <2>4, <2>5, <2>6, <2>7, <2>8, <2>9 DEF Continue
<1> QED BY <1>1, <1>2, <1>3, <1>4 DEF Next

(* When the budget has room for any chain of deltas, and calls did not overlap, the disk *)
(* is within it between calls: a prune that finds only protected files to be left        *)
(* leaves a single checkpoint or one chain.                                              *)
THEOREM BudgetKept ==
  ASSUME BudgetSuffices
  PROVE  Spec => []DiskWithinBudget
<1>1. Init => IInv /\ Alone /\ Budget
  BY InitHolds, InitAlone, InitBudget
<1>2. IInv /\ Alone /\ Budget /\ [Next]_vars => (IInv /\ Alone /\ Budget)'
  BY NextHolds, NextAlone, NextBudget
<1>3. IInv /\ Alone /\ Budget => DiskWithinBudget
  <2> SUFFICES ASSUME Budget, quiet, Busy = {} PROVE Within
    BY DEF DiskWithinBudget, Within, Files
  <2> QED BY ThreadsFinite DEF Budget, Sized, Busy
<1> QED BY <1>1, <1>2, <1>3, PTL DEF Spec

----------------------------------------
(* The chains of deltas. *)

(* The budget has room for every checkpoint on the way to one that is a delta. *)
ChainsFit ==
    \A goal \in Names :
      "delta" \in Forms[goal] => RoomFor({m \in Names : IsPrefix(m, goal)})

(* No frontier save lists what may be a delta. *)
FrontiersApart == \A n \in Names : FrontierApart(n)

(* What a file is listed as matches it: the base is that of a delta, and a delta is listed *)
(* as one and nothing else is, unless a frontier save lists what it finds.                 *)
Matches(n, kind, base, content) ==
    content # None =>
      /\ content.label = "delta" => base = content.base
      /\ FrontierApart(n) => (kind = "delta" <=> content.label = "delta")

Agree(entries, files, except) ==
    \A n \in Listed(entries) \ except : Matches(n, entries[n].kind, entries[n].base, files[n])

(* What a call lists its file as, and will list the delta as that it is coming down from. *)
Carries(c, files) == Matches(c.name, c.label, c.base, files[c.name])

Follows(c, files) == Matches(c.name, "delta", c.base, files[c.name])

Built(p, c, entries, files) ==
    /\ Agree(entries, files, IF p \in {"load", "store"} THEN {c.name} ELSE {})
    /\ p \in {"load", "store"} \/ (c.op = "save" /\ p # "write") => Carries(c, files)
    /\ p = "base" \/ (p = "delta" /\ c.at # c.name) => Follows(c, files)
    /\ p \in {"store", "syncstore", "stale", "prune", "keep", "try", "delta", "base"}
         => Agree(c.entries, files, {})

(* A prune spares its own checkpoint, or what is on the way to the delta it belongs to. *)
Guards(c) ==
    /\ c.op = "prune" => c.protected = {}
    /\ c.op = "save" /\ c.label # "delta" => c.protected \subseteq {c.name}
    /\ c.op = "save" /\ c.label = "delta" =>
         /\ c.goal \in Names /\ "delta" \in Forms[c.goal]
         /\ \A m \in c.protected : IsPrefix(m, c.goal)

Tied ==
    /\ \A t \in Threads : Guards(call[t])
    /\ quiet => \A t \in Threads :
         (\A u \in Threads \ {t} : pc[u] = "idle") => Built(pc[t], call[t], Loaded, file)
    /\ quiet /\ index # None => Agree(index, file, {})

(* A step of a thread. *)
LEMMA StillTied ==
  ASSUME IInv, Alone, Tied, NEW t \in Threads, NEW p, NEW c, Goto(t, p), Hold(t, c), Track,
         pc[t] # "idle" \/ p # "idle", Guards(c),
         quiet /\ Fits(pc[t], call[t], Files, InManifest) /\ Built(pc[t], call[t], Loaded, file)
           => Built(p, c, Loaded', file'),
         \/ index' = None \/ UNCHANGED <<file, index>>
         \/ quiet /\ Built(pc[t], call[t], Loaded, file) => Agree(index', file', {})
  PROVE  Tied'
<1>1. /\ pc'[t] = p /\ call'[t] = c
      /\ \A u \in Threads \ {t} : pc'[u] = pc[u] /\ call'[u] = call[u]
  BY DEF IInv, Goto, Hold
<1>2. \A u \in Threads : Guards(call'[u])
  BY <1>1 DEF Tied
<1>3. ASSUME quiet', NEW w \in Threads, \A u \in Threads \ {w} : pc'[u] = "idle"
      PROVE  Built(pc'[w], call'[w], Loaded', file')
  <2>1. /\ quiet /\ \A u \in Threads \ {t} : pc[u] = "idle"
        /\ Fits(pc[t], call[t], Files, InManifest)
    BY <1>3, OnlyOne
  <2>2. Built(pc[t], call[t], Loaded, file)
    BY <2>1 DEF Tied
  <2>3. Built(p, c, Loaded', file')
    BY <2>1, <2>2
  <2>4. CASE w = t
    BY <1>1, <2>3, <2>4
  <2>5. CASE w # t
    <3>1. p = "idle" /\ pc'[w] = "idle"
      BY <1>1, <1>3, <2>1, <2>5
    <3>2. Agree(Loaded', file', {})
      BY <2>3, <3>1 DEF Built
    <3>3. call'[w].op = None
      BY <1>1, <2>5, <3>1, ThreadSane DEF Sane
    <3> QED BY <3>1, <3>2, <3>3, NoneApart DEF Built
  <2> QED BY <2>4, <2>5
<1>4. ASSUME quiet', index' # None
      PROVE  Agree(index', file', {})
  <2>1. quiet
    BY <1>4 DEF Track
  <2>2. CASE UNCHANGED <<file, index>>
    BY <1>4, <2>1, <2>2 DEF Tied
  <2>3. CASE quiet /\ Built(pc[t], call[t], Loaded, file) => Agree(index', file', {})
    <3>1. \A u \in Threads \ {t} : pc[u] = "idle"
      BY <1>4, OnlyOne
    <3> QED BY <2>1, <2>3, <3>1 DEF Tied
  <2> QED BY <1>4, <2>2, <2>3
<1> QED BY <1>2, <1>3, <1>4 DEF Tied

(* Nothing is asked of a call that a thread has not begun. *)
LEMMA IdleBuilt ==
  ASSUME NEW entries, NEW files, Agree(entries, files, {})
  PROVE  Built("idle", NoCall, entries, files)
BY NothingInHand, NoneApart DEF Built

(* A manifest that stays. *)
LEMMA ManifestStays ==
  ASSUME UNCHANGED manifest
  PROVE  Loaded' = Loaded
BY DEF Loaded

(* A step that leaves files and manifest alone, where the entries agree with the files. *)
LEMMA LookedTied ==
  ASSUME IInv, Alone, Tied, NEW t \in Threads, NEW p, NEW c, Goto(t, p), Hold(t, c), Track,
         UNCHANGED <<file, manifest>>, Guards(c),
         pc[t] \in {"idle", "find", "keep", "try", "delta", "base"},
         p \in {"idle", "sync", "write", "find", "keep", "try", "delta", "base", "load"},
         pc[t] # "idle" \/ p # "idle", c.op = "save" => p \in {"write", "load"},
         quiet /\ Built(pc[t], call[t], Loaded, file) =>
           /\ p = "load" => Carries(c, file)
           /\ p = "base" \/ (p = "delta" /\ c.at # c.name) => Follows(c, file)
           /\ p \in {"keep", "try", "delta", "base"} => Agree(c.entries, file, {})
           /\ index' = index \/ Agree(index', file, {})
  PROVE  Tied'
<1>1. Loaded' = Loaded
  BY ManifestStays
<1>2. ASSUME quiet, Built(pc[t], call[t], Loaded, file)
      PROVE  Built(p, c, Loaded', file')
  <2>1. Agree(Loaded, file, {})
    BY <1>2 DEF Built
  <2>2. Agree(Loaded, file, IF p \in {"load", "store"} THEN {c.name} ELSE {})
    BY <2>1 DEF Agree
  <2>3. Built(p, c, Loaded, file)
    BY <1>2, <2>2 DEF Built
  <2> QED BY <1>1, <2>3
<1>3. quiet /\ Built(pc[t], call[t], Loaded, file)
        => UNCHANGED <<file, index>> \/ Agree(index', file', {})
  OBVIOUS
<1>4. \/ UNCHANGED <<file, index>>
      \/ quiet /\ Built(pc[t], call[t], Loaded, file) => Agree(index', file', {})
  BY <1>3
<1> QED BY <1>2, <1>4, StillTied

(* A lookup guards nothing, nor a call that returned. *)
LEMMA LookupGuards ==
  ASSUME NEW c, c.op \in {"rendered", "token", None}
  PROVE  Guards(c)
BY NoneApart DEF Guards

(* A checkpoint that is not a delta is saved. *)
LEMMA SaveWholeTied ==
  ASSUME IInv, Alone, Tied, NEW t \in Threads, NEW label \in Labels, NEW n \in Names,
         SaveWhole(t, label, n), Track
  PROVE  Tied'
<1> DEFINE there == label = "frontier" /\ file[n] # None
           p == IF there THEN "load" ELSE "write"
           c == [NoCall EXCEPT !.op = "save", !.name = n, !.label = label,
                   !.base = IF there THEN file[n].base ELSE None,
                   !.protected = Protected(label, n)]
<1>1. /\ Goto(t, p) /\ Hold(t, c) /\ pc[t] = "idle" /\ label # "delta"
      /\ UNCHANGED <<file, manifest, index>> /\ label \in Forms[n]
  BY DEF SaveWhole
<1>2. /\ c.op = "save" /\ c.name = n /\ c.label = label /\ c.protected = Protected(label, n)
      /\ c.base = IF there THEN file[n].base ELSE None
  BY DEF NoCall
<1>3. Guards(c)
  <2>1. Protected(label, n) \subseteq {n}
    BY DEF Protected
  <2>2. c.op # "prune"
    BY <1>2
  <2> HIDE DEF c
  <2> QED BY <1>1, <1>2, <2>1, <2>2 DEF Guards
<1>4. p \in {"load", "write"}
  OBVIOUS
<1>5. p = "load" => Carries(c, file)
  <2>1. there => c.base = file[n].base /\ label = "frontier"
    BY <1>2
  <2>2. p = "load" => there
    OBVIOUS
  <2>3. FrontierApart(n) /\ file[n] # None /\ there => file[n].label # "delta"
    <3> HIDE DEF there
    <3> QED BY <1>1, <2>1, FileKind, ThreadSane DEF FrontierApart
  <2> HIDE DEF p, c, there
  <2> QED BY <1>1, <1>2, <2>1, <2>2, <2>3 DEF Carries, Matches
<1> HIDE DEF p, c
<1> QED BY <1>1, <1>3, <1>4, <1>5, LookedTied

(* The goal of a delta is its last chunk. *)
LEMMA GoalIsChunk ==
  ASSUME NEW base \in Names, NEW goal \in Names, IsStrictPrefix(base, goal)
  PROVE  goal \in Chunks(base, goal)
<1>1. /\ base \in Seq(Nat) /\ goal \in Seq(Nat) /\ Len(base) \in Nat /\ Len(goal) \in Nat
      /\ Len(base) < Len(goal) /\ ChunkTokens \in Nat
  BY NamesAssumption, LimitsAssumption, PrefixIndexed
<1>2. Len(goal) \in 1 .. Len(goal)
  BY <1>1
<1>3. Chunk(base, goal, Len(goal)) = goal
  <2>1. CASE ChunkTokens = 0
    BY <2>1 DEF Chunk
  <2>2. CASE ChunkTokens > 0
    <3>1. Len(goal) * ChunkTokens >= Len(goal) /\ Len(goal) * ChunkTokens \in Nat
      BY <1>1, <2>2, TimesGrows, SMTT(30)
    <3>2. Len(goal) <= Len(base) + Len(goal) * ChunkTokens
      BY <1>1, <3>1
    <3> QED BY <3>2 DEF Chunk
  <2> QED BY <1>1, <2>1, <2>2
<1> QED BY <1>2, <1>3 DEF Chunks

(* A chunk is saved: from an idle thread, or when the one before has been pruned for. *)
LEMMA ChunkHeld ==
  ASSUME NEW t \in Threads, NEW base \in Names, NEW goal \in Names, NEW protected,
         ChunkCall(t, base, goal, protected), IsStrictPrefix(base, goal),
         \A c \in Chunks(base, goal) : c \in Names /\ "delta" \in Forms[c],
         \A m \in protected : IsPrefix(m, goal)
  PROVE  \E p, c : /\ Goto(t, p) /\ Hold(t, c) /\ p \in {"load", "write"} /\ Guards(c)
                   /\ p = "load" => Carries(c, file)
<1> DEFINE n == ChunkEnd(base, goal)
           p == IF file[n] = [label |-> "delta", base |-> base] THEN "load" ELSE "write"
           c == [NoCall EXCEPT !.op = "save", !.name = n, !.label = "delta", !.base = base,
                   !.goal = goal, !.protected = protected \cup {n}]
<1>1. Goto(t, p) /\ Hold(t, c)
  BY DEF ChunkCall
<1>2. /\ c.op = "save" /\ c.label = "delta" /\ c.protected = protected \cup {n}
      /\ c.name = n /\ c.goal = goal /\ c.base = base
  BY DEF NoCall
<1>3. n \in Chunks(base, goal) /\ IsPrefix(n, goal)
  BY ChunkAhead, NamesAssumption
<1>4. Guards(c)
  <2>1. "delta" \in Forms[goal]
    BY GoalIsChunk
  <2>2. c.op # "prune"
    BY <1>2
  <2> HIDE DEF c
  <2> QED BY <1>2, <1>3, <2>1, <2>2 DEF Guards
<1>5. p \in {"load", "write"}
  OBVIOUS
<1>6. p = "load" => Carries(c, file)
  <2>1. p = "load" => file[n] = [label |-> "delta", base |-> base]
    OBVIOUS
  <2>2. n \in Names /\ "delta" \in Labels
    BY <1>3 DEF Labels
  <2>3. [label |-> "delta", base |-> base] # None
    BY <2>2, Records
  <2>4. [label |-> "delta", base |-> base].label = "delta" /\ [label |-> "delta", base |-> base].base = base
    OBVIOUS
  <2> HIDE DEF p, c, n
  <2> QED BY <1>2, <2>1, <2>2, <2>3, <2>4 DEF Carries, Matches
<1> HIDE DEF p, c
<1> QED BY <1>1, <1>4, <1>5, <1>6

(* A delta is saved. *)
LEMMA SaveDeltaTied ==
  ASSUME IInv, Alone, Tied, NEW t \in Threads, NEW base \in served, NEW goal \in Names,
         SaveDelta(t, base, goal), Track
  PROVE  Tied'
<1>1. /\ IsStrictPrefix(base, goal) /\ pc[t] = "idle" /\ UNCHANGED <<file, manifest, index>>
      /\ \A c \in Chunks(base, goal) : c \in Names /\ "delta" \in Forms[c]
      /\ ChunkCall(t, base, goal, {base})
  BY DEF SaveDelta
<1>2. base \in Names
  BY ThreadSane DEF Stored, Base
<1>3. \A m \in {base} : IsPrefix(m, goal)
  BY <1>1 DEF IsStrictPrefix
<1>4. PICK p, c : /\ Goto(t, p) /\ Hold(t, c) /\ p \in {"load", "write"} /\ Guards(c)
                  /\ p = "load" => Carries(c, file)
  BY <1>1, <1>2, <1>3, ChunkHeld
<1> QED BY <1>1, <1>4, LookedTied

(* The file is written: for the moment the manifest may name another base. *)
LEMMA WriteTied ==
  ASSUME IInv, Alone, Tied, NEW t \in Threads, Write(t), Track
  PROVE  Tied'
<1> DEFINE c == call[t]
           x == [label |-> c.label, base |-> c.base]
<1>1. /\ pc[t] = "write" /\ Goto(t, "load") /\ Hold(t, c) /\ UNCHANGED manifest
      /\ file' = [file EXCEPT ![c.name] = x] /\ index' = None
  BY DEF Write, Hold, IInv
<1>2. c.name \in Names
  <2>1. Sane("write", c) /\ c \in Calls
    BY <1>1, ThreadSane
  <2>2. c.op = "save"
    BY <2>1 DEF Sane, Looking, Pruning, Calls
  <2> QED BY <2>1, <2>2 DEF Sane, Saving
<1>3. Guards(c)
  BY DEF Tied
<1>4. Loaded' = Loaded
  BY <1>1 DEF Loaded
<1>5. /\ \A n \in Names \ {c.name} : file'[n] = file[n]
      /\ file'[c.name].label = c.label /\ file'[c.name].base = c.base
  <2>1. file'[c.name] = x /\ \A n \in Names \ {c.name} : file'[n] = file[n]
    BY <1>1, <1>2 DEF IInv, Stored
  <2>2. x.base = c.base /\ x.label = c.label
    OBVIOUS
  <2> HIDE DEF c, x
  <2> QED BY <1>2, <2>1, <2>2
<1>6. Built("write", c, Loaded, file) => Built("load", c, Loaded', file')
  <2> HIDE DEF c
  <2>1. Agree(Loaded, file, {}) => Agree(Loaded, file', {c.name})
    BY <1>5 DEF Agree, Listed
  <2>2. Carries(c, file')
    BY <1>5 DEF Carries, Matches
  <2> QED BY <1>4, <2>1, <2>2 DEF Built
<1> HIDE DEF c
<1> QED BY <1>1, <1>3, <1>6, StillTied DEF c

(* The manifest is read, and the call's file listed. *)
LEMMA UpdateLoadTied ==
  ASSUME IInv, Alone, Tied, NEW t \in Threads, UpdateLoad(t), Track
  PROVE  Tied'
<1> DEFINE c == call[t]
           n == c.name
           d == [c EXCEPT !.entries = [Loaded EXCEPT ![n] = EntryOf(n, c.label, c.base)]]
<1>1. pc[t] = "load" /\ UNCHANGED <<file, manifest, index>>
  BY DEF UpdateLoad
<1>2. c \in Calls /\ Stored /\ Guards(c)
  BY <1>1, ThreadSane DEF Tied
<1>3. CASE file[n] # None
  <2>1. Goto(t, "store") /\ Hold(t, d)
    BY <1>3 DEF UpdateLoad
  <2>2. /\ d.op = c.op /\ d.name = c.name /\ d.label = c.label /\ d.goal = c.goal
        /\ d.protected = c.protected
        /\ d.base = c.base /\ d.entries = [Loaded EXCEPT ![n] = EntryOf(n, c.label, c.base)]
    BY <1>2 DEF Calls
  <2>3. Guards(d)
    <3> HIDE DEF d, c
    <3> QED BY <1>2, <2>2 DEF Guards
  <2>4. ASSUME Built("load", c, Loaded, file), Fits("load", c, Files, InManifest)
        PROVE  Built("store", d, Loaded, file)
    <3>1. Loaded \in [Names -> Entry \cup {None}] /\ n \in Names
      BY <1>2, <2>4, LoadedKnown DEF Manifests, Fits, Files
    <3>2. EntryOf(n, c.label, c.base).base = c.base /\ EntryOf(n, c.label, c.base).kind = c.label
      BY DEF EntryOf
    <3>3. Agree(Loaded, file, {c.name}) /\ Carries(c, file)
      BY <2>4 DEF Built
    <3>4. Agree(d.entries, file, {})
      <4> SUFFICES ASSUME NEW m \in Listed(d.entries)
                   PROVE  Matches(m, d.entries[m].kind, d.entries[m].base, file[m])
        BY DEF Agree
      <4>1. m \in Names /\ d.entries[m] # None
        BY DEF Listed
      <4>2. CASE m = n
        <5>1. d.entries[m] = EntryOf(n, c.label, c.base)
          BY <2>2, <3>1, <4>2
        <5> QED BY <3>2, <3>3, <4>2, <5>1 DEF Carries
      <4>3. CASE m # n
        <5>1. d.entries[m] = Loaded[m]
          BY <2>2, <3>1, <4>1, <4>3
        <5> QED BY <3>3, <4>1, <4>3, <5>1 DEF Agree, Listed
      <4> QED BY <4>2, <4>3
    <3>5. Carries(d, file)
      BY <2>2, <3>3 DEF Carries
    <3> QED BY <2>2, <3>3, <3>4, <3>5 DEF Built
  <2>5. Loaded' = Loaded /\ file' = file
    BY <1>1, ManifestStays
  <2> HIDE DEF c, d
  <2> QED BY <1>1, <2>1, <2>3, <2>4, <2>5, StillTied DEF c
<1>4. CASE file[n] = None
  <2>1. PICK p, e : Goto(t, p) /\ Hold(t, e) /\ Guards(e)
    <3>1. CASE c.op = "save" /\ c.label \notin {"continued", "delta"}
      <4>1. Goto(t, "sync") /\ Hold(t, c)
        BY <1>4, <3>1 DEF UpdateLoad, Hold, IInv
      <4> QED BY <1>2, <4>1
    <3>2. CASE ~(c.op = "save" /\ c.label \notin {"continued", "delta"})
      BY <1>4, <3>2, NothingInHand, LookupGuards DEF UpdateLoad, Return
    <3> QED BY <3>1, <3>2
  <2>2. ~Fits("load", c, Files, InManifest)
    BY <1>4 DEF Fits, Files
  <2> HIDE DEF c
  <2> QED BY <1>1, <2>1, <2>2, StillTied DEF c
<1> QED BY <1>3, <1>4

(* A manifest that is saved is the one loaded from then on. *)
LEMMA ManifestLoads ==
  ASSUME NEW entries \in Manifests, SaveManifest(entries)
  PROVE  Loaded' = entries
BY Records DEF Loaded, SaveManifest

(* The manifest is written back. *)
LEMMA UpdateStoreTied ==
  ASSUME IInv, Alone, Tied, NEW t \in Threads, UpdateStore(t), Track
  PROVE  Tied'
<1> DEFINE c == call[t]
           d == [c EXCEPT !.entries = NoEntries]
<1>1. pc[t] = "store" /\ SaveManifest(c.entries) /\ UNCHANGED file
  BY DEF UpdateStore
<1>2. c \in Calls /\ Guards(c) /\ c.entries \in Manifests
  BY <1>1, ThreadSane DEF Tied
<1>3. PICK p, e : /\ p \in {"sync", "idle"} /\ Goto(t, p) /\ Hold(t, e) /\ Guards(e)
                  /\ e.op = "save" => e.name = c.name /\ e.label = c.label /\ e.base = c.base
  <2>1. CASE c.op = "save"
    <3>1. Goto(t, "sync") /\ Hold(t, d)
      BY <2>1 DEF UpdateStore
    <3>2. /\ d.op = c.op /\ d.name = c.name /\ d.label = c.label /\ d.goal = c.goal
          /\ d.protected = c.protected /\ d.base = c.base
      BY <1>2 DEF Calls
    <3>3. Guards(d)
      <4> HIDE DEF d, c
      <4> QED BY <1>2, <3>2 DEF Guards
    <3> HIDE DEF d
    <3> QED BY <3>1, <3>2, <3>3
  <2>2. CASE c.op # "save"
    <3>1. Goto(t, "idle") /\ Hold(t, NoCall)
      BY <2>2 DEF UpdateStore, Return
    <3> QED BY <3>1, NothingInHand, NoneApart, LookupGuards
  <2> QED BY <2>1, <2>2
<1>4. file' = file /\ Loaded' = c.entries /\ index' = None
  BY <1>1, <1>2, ManifestLoads DEF SaveManifest
<1>5. ASSUME Built("store", c, Loaded, file)
      PROVE  Built(p, e, Loaded', file')
  <2>1. Agree(c.entries, file, {}) /\ Carries(c, file)
    BY <1>5 DEF Built
  <2>2. e.op = "save" => Carries(e, file)
    BY <1>3, <2>1 DEF Carries
  <2> HIDE DEF c
  <2> QED BY <1>3, <1>4, <2>1, <2>2 DEF Built
<1> HIDE DEF c
<1> QED BY <1>1, <1>3, <1>4, <1>5, StillTied DEF c

(* The prune at shutdown, or a lookup, begins. *)
LEMMA BeginTied ==
  ASSUME IInv, Alone, Tied, NEW t \in Threads, Track,
         \/ PruneAtShutdown(t)
         \/ \E op \in {"rendered", "token"}, prompt \in Prompts : StartLookup(t, op, prompt)
  PROVE  Tied'
<1>1. PICK p, c : p \in {"sync", "find"} /\ Goto(t, p) /\ Hold(t, c) /\ Guards(c) /\ c.op # "save"
  <2>1. CASE PruneAtShutdown(t)
    <3> DEFINE c == [NoCall EXCEPT !.op = "prune"]
    <3>1. Goto(t, "sync") /\ Hold(t, c)
      BY <2>1 DEF PruneAtShutdown
    <3>2. c.op = "prune" /\ c.protected = {}
      BY DEF NoCall
    <3> HIDE DEF c
    <3> QED BY <3>1, <3>2 DEF Guards
  <2>2. CASE \E op \in {"rendered", "token"}, prompt \in Prompts : StartLookup(t, op, prompt)
    <3>1. PICK op \in {"rendered", "token"}, prompt \in Prompts : StartLookup(t, op, prompt)
      BY <2>2
    <3> DEFINE c == [NoCall EXCEPT !.op = op, !.goal = prompt]
    <3>2. Goto(t, "find") /\ Hold(t, c)
      BY <3>1 DEF StartLookup
    <3>3. c.op = op
      BY DEF NoCall
    <3> HIDE DEF c
    <3> QED BY <3>2, <3>3, LookupGuards
  <2> QED BY <2>1, <2>2
<1>2. pc[t] = "idle" /\ UNCHANGED <<file, manifest, index>>
  BY DEF PruneAtShutdown, StartLookup
<1> QED BY <1>1, <1>2, LookedTied

(* The manifest is brought in line: entries keep their bases. *)
LEMMA SyncTied ==
  ASSUME IInv, Alone, Tied, NEW t \in Threads, Sync(t), Track
  PROVE  Tied'
<1> DEFINE c == call[t]
           d == [c EXCEPT !.entries = Synced, !.dirty = SyncChanges]
           p == IF SyncChanges THEN "syncstore"
                ELSE IF c.op \in {"rendered", "token"} THEN "keep" ELSE "stale"
<1>1. /\ pc[t] = "sync" /\ Goto(t, p) /\ Hold(t, d) /\ UNCHANGED <<file, manifest, index>>
  BY DEF Sync
<1>2. c \in Calls /\ Stored /\ Guards(c)
  BY ThreadSane DEF Tied
<1>3. /\ d.entries = Synced /\ d.op = c.op /\ d.name = c.name /\ d.label = c.label
      /\ d.goal = c.goal /\ d.protected = c.protected /\ d.base = c.base
  BY <1>2 DEF Calls
<1>4. Guards(d)
  <2> HIDE DEF d, c
  <2> QED BY <1>2, <1>3 DEF Guards
<1>5. p \in {"syncstore", "keep", "stale"}
  OBVIOUS
<1>6. ASSUME Agree(Loaded, file, {}), NEW n \in Listed(Synced)
      PROVE  Matches(n, Synced[n].kind, Synced[n].base, file[n])
  <2>1. n \in Names /\ Synced[n] # None /\ file[n] # None
    BY DEF Listed, Synced
  <2>2. CASE manifest = None
    <3>1. Synced[n].kind = "unknown" /\ file[n].label # "delta"
      BY <1>2, <2>1, <2>2 DEF Synced, Stored, Unlisted, EntryOf
    <3> QED BY <3>1 DEF Matches
  <2>3. CASE manifest # None
    <3>1. manifest[n] # None
      BY <2>1, <2>3 DEF Synced
    <3>2. Synced[n] = [manifest[n] EXCEPT !.size = Size(n)] /\ manifest[n] \in Entry
      BY <1>2, <2>1, <2>3, <3>1, Records DEF Synced, Stored
    <3>3. Synced[n].base = manifest[n].base /\ Synced[n].kind = manifest[n].kind
      BY <3>2 DEF Entry
    <3>4. Loaded = manifest /\ n \in Listed(Loaded)
      BY <2>1, <2>3, <3>1 DEF Loaded, Listed
    <3> QED BY <1>6, <3>3, <3>4 DEF Agree
  <2> QED BY <2>2, <2>3
<1>7. Built("sync", c, Loaded, file) => Built(p, d, Loaded', file')
  <2>1. Agree(Loaded, file, {}) => Agree(d.entries, file, {})
    BY <1>3, <1>6 DEF Agree
  <2>2. Carries(c, file) => Carries(d, file)
    BY <1>3 DEF Carries
  <2>3. Loaded' = Loaded /\ file' = file
    BY <1>1, ManifestStays
  <2> HIDE DEF p, d, c
  <2> QED BY <1>3, <1>5, <2>1, <2>2, <2>3 DEF Built
<1> HIDE DEF p, d, c
<1> QED BY <1>1, <1>4, <1>5, <1>7, StillTied DEF c

(* It is saved. *)
LEMMA SyncStoreTied ==
  ASSUME IInv, Alone, Tied, NEW t \in Threads, SyncStore(t), Track
  PROVE  Tied'
<1> DEFINE c == call[t]
           p == IF c.op \in {"rendered", "token"} THEN "keep" ELSE "stale"
<1>1. /\ pc[t] = "syncstore" /\ Goto(t, p) /\ Hold(t, c) /\ SaveManifest(c.entries)
      /\ UNCHANGED file
  BY DEF SyncStore, Hold, IInv
<1>2. Guards(c) /\ c.entries \in Manifests
  BY ThreadSane DEF Tied
<1>3. file' = file /\ Loaded' = c.entries /\ index' = None
  BY <1>1, <1>2, ManifestLoads DEF SaveManifest
<1>4. p \in {"keep", "stale"}
  OBVIOUS
<1>5. Built("syncstore", c, Loaded, file) => Built(p, c, Loaded', file')
  <2> HIDE DEF p, c
  <2> QED BY <1>3, <1>4 DEF Built
<1> HIDE DEF p, c
<1> QED BY <1>1, <1>2, <1>3, <1>4, <1>5, StillTied DEF c

(* A file and its entry are removed. *)
LEMMA RemoveEntryTied ==
  ASSUME IInv, Alone, Tied, NEW t \in Threads, NEW victim, RemoveEntry(t, victim),
         pc[t] \in {"stale", "prune"}, NEW p \in {"stale", "prune"}, Goto(t, p), Track
  PROVE  Tied'
<1> DEFINE c == call[t]
           d == [c EXCEPT !.entries = Forgotten(@, victim), !.dirty = TRUE]
<1>1. /\ Hold(t, d) /\ UNCHANGED manifest /\ file' = [file EXCEPT ![victim] = None]
      /\ index' = None
  BY DEF RemoveEntry
<1>2. c \in Calls /\ c.entries \in [Names -> Entry \cup {None}] /\ Guards(c)
  BY ThreadSane DEF Manifests, Tied
<1>3. /\ d.entries = Forgotten(c.entries, victim) /\ d.op = c.op /\ d.name = c.name
      /\ d.label = c.label /\ d.goal = c.goal /\ d.protected = c.protected
      /\ d.base = c.base
  BY <1>2 DEF Calls
<1>4. Guards(d)
  <2> HIDE DEF d, c
  <2> QED BY <1>2, <1>3 DEF Guards
<1>5. \A n, kind, base : Matches(n, kind, base, file[n]) /\ n \in Names
                          => Matches(n, kind, base, file'[n])
  <2>1. \A n \in Names : file'[n] = None \/ file'[n] = file[n]
    BY <1>1 DEF IInv, Stored
  <2> QED BY <2>1 DEF Matches
<1>6. Loaded' = Loaded
  BY <1>1 DEF Loaded
<1>7. \A n \in Listed(d.entries) : n \in Listed(c.entries) /\ d.entries[n] = c.entries[n]
  BY <1>2, <1>3 DEF Listed, Forgotten
<1>10. c.op = "save" => c.name \in Names
  BY ThreadSane DEF Sane, Saving
<1>8. Built(pc[t], c, Loaded, file) => Built(p, d, Loaded', file')
  <2> HIDE DEF c, d
  <2>1. Agree(Loaded, file, {}) => Agree(Loaded, file', {})
    BY <1>5 DEF Agree, Listed
  <2>2. Agree(c.entries, file, {}) => Agree(d.entries, file', {})
    BY <1>5, <1>7 DEF Agree, Listed
  <2>3. c.op = "save" => c.name \in Names
    BY <1>10
  <2>4. d.op = "save" /\ Carries(c, file) => Carries(d, file')
    BY <1>3, <1>5, <2>3 DEF Carries
  <2> QED BY <1>3, <1>6, <2>1, <2>2, <2>4 DEF Built
<1> HIDE DEF c, d
<1> QED BY <1>1, <1>4, <1>8, StillTied DEF c

(* The entries that are left are saved. *)
LEMMA PruneStoreTied ==
  ASSUME IInv, Alone, Tied, NEW t \in Threads, PruneStore(t), Track
  PROVE  Tied'
<1> DEFINE c == call[t]
<1>1. /\ pc[t] \in {"stale", "prune"} /\ UNCHANGED file
      /\ IF c.dirty THEN SaveManifest(c.entries) ELSE UNCHANGED <<manifest, index>>
  BY DEF PruneStore
<1>2. /\ Sane(pc[t], c) /\ c \in Calls /\ c.op \in {"save", "prune"}
      /\ Guards(c) /\ c.entries \in Manifests
  BY <1>1, ThreadSane, AtPlace DEF Tied
<1>3. file' = file /\ (index' = None \/ index' = index)
  BY <1>1 DEF SaveManifest
<1>4. Built(pc[t], c, Loaded, file) => Agree(Loaded', file', {})
  <2>1. CASE c.dirty
    <3>1. Loaded' = c.entries
      BY <1>1, <1>2, <2>1, ManifestLoads
    <3> QED BY <1>1, <1>3, <3>1 DEF Built
  <2>2. CASE ~c.dirty
    <3>1. Loaded' = Loaded
      BY <1>1, <2>2 DEF Loaded
    <3> QED BY <1>1, <1>3, <3>1 DEF Built
  <2> QED BY <2>1, <2>2
<1>5. \E p, d : /\ p \in {"idle", "load", "write"} /\ Goto(t, p) /\ Hold(t, d) /\ Guards(d)
                /\ p = "load" => Carries(d, file)
                /\ p = "idle" => d.op = None
  <2>1. CASE c.label = "delta" /\ c.name # c.goal
    <3>1. c.op = "save"
      BY <1>2, <2>1, NoneApart DEF Sane, Pruning
    <3>2. Ahead(c.name, c.goal) /\ c.name \in Names /\ c.goal \in Names
      BY <1>2, <2>1, <3>1 DEF Sane, Saving, Ahead
    <3>3. IsStrictPrefix(c.name, c.goal)
      BY <2>1, <3>2 DEF Ahead, IsStrictPrefix
    <3>4. \A x \in Chunks(c.name, c.goal) : x \in Names /\ "delta" \in Forms[x]
      BY <2>1, <3>2 DEF Ahead
    <3>5. \A m \in c.protected : IsPrefix(m, c.goal)
      BY <1>2, <2>1, <3>1 DEF Guards
    <3>6. ChunkCall(t, c.name, c.goal, c.protected)
      BY <2>1 DEF PruneStore
    <3> QED BY <3>2, <3>3, <3>4, <3>5, <3>6, ChunkHeld
  <2>2. CASE ~(c.label = "delta" /\ c.name # c.goal)
    <3>1. Goto(t, "idle") /\ Hold(t, NoCall)
      BY <2>2 DEF PruneStore, Return
    <3> QED BY <3>1, NothingInHand, LookupGuards
  <2> QED BY <2>1, <2>2
<1>6. PICK p, d : /\ p \in {"idle", "load", "write"} /\ Goto(t, p) /\ Hold(t, d) /\ Guards(d)
                  /\ p = "load" => Carries(d, file)
                  /\ p = "idle" => d.op = None
  BY <1>5
<1>7. Built(pc[t], c, Loaded, file) => Built(p, d, Loaded', file')
  <2>1. Agree(Loaded', file', {}) => Agree(Loaded', file', IF p \in {"load", "store"} THEN {d.name} ELSE {})
    BY DEF Agree
  <2> QED BY <1>3, <1>4, <1>6, <2>1, NoneApart DEF Built
<1>8. pc[t] # "idle"
  BY <1>1
<1> HIDE DEF c
<1> QED BY <1>3, <1>6, <1>7, <1>8, StillTied DEF c

(* The index is found, built or kept, or there is no candidate left. *)
LEMMA IndexTied ==
  ASSUME IInv, Alone, Tied, NEW t \in Threads, Track, FindIndex(t) \/ KeepIndex(t) \/ Miss(t)
  PROVE  Tied'
<1> DEFINE Still == quiet /\ Built(pc[t], call[t], Loaded, file)
<1>1. /\ pc[t] \in {"find", "keep", "try"} /\ UNCHANGED <<file, manifest>>
      /\ call[t] \in Calls /\ call[t].op \in {"rendered", "token"}
  BY ThreadSane, AtPlace DEF FindIndex, KeepIndex, Miss
<1>2. ASSUME NEW entries, TryAmong(t, entries)
      PROVE  \E c : /\ Goto(t, "try") /\ Hold(t, c) /\ c.op \in {"rendered", "token"}
                    /\ Agree(entries, file, {}) => Agree(c.entries, file, {})
  <2> DEFINE candidates == Candidates(call[t].op, call[t].goal, entries)
             some == [n \in Names |-> IF n \in candidates THEN entries[n] ELSE None]
             c == [call[t] EXCEPT !.dirty = FALSE, !.candidates = candidates, !.entries = some]
  <2>1. Goto(t, "try") /\ Hold(t, c)
    BY <1>2 DEF TryAmong
  <2>2. c.op = call[t].op /\ c.entries = some
    BY <1>1 DEF Calls
  <2>3. \A n \in Listed(some) : n \in Listed(entries) /\ some[n] = entries[n]
    BY DEF Listed, Candidates
  <2> HIDE DEF c, some
  <2>4. Agree(entries, file, {}) => Agree(some, file, {})
    BY <2>3 DEF Agree
  <2> QED BY <1>1, <2>1, <2>2, <2>4
<1>3. \E p, c : /\ p \in {"sync", "try", "idle"} /\ Goto(t, p) /\ Hold(t, c)
                /\ c.op \in {"rendered", "token", None}
                /\ Still /\ p = "try" => Agree(c.entries, file, {})
                /\ Still => index' = index \/ Agree(index', file, {})
  <2>1. CASE FindIndex(t)
    <3>1. CASE index # None
      <4>1. PICK c : /\ Goto(t, "try") /\ Hold(t, c) /\ c.op \in {"rendered", "token"}
                     /\ Agree(index, file, {}) => Agree(c.entries, file, {})
        BY <1>2, <2>1, <3>1 DEF FindIndex
      <4>2. quiet => Agree(index, file, {})
        BY <3>1 DEF Tied
      <4> QED BY <2>1, <4>1, <4>2 DEF FindIndex
    <3>2. CASE index = None
      <4>1. Goto(t, "sync") /\ Hold(t, call[t]) /\ index' = index
        BY <2>1, <3>2 DEF FindIndex, Hold, IInv
      <4> HIDE DEF Still
      <4> QED BY <1>1, <4>1
    <3> QED BY <3>1, <3>2
  <2>2. CASE KeepIndex(t)
    <3>1. pc[t] = "keep" /\ index' = call[t].entries /\ TryAmong(t, call[t].entries)
      BY <2>2 DEF KeepIndex
    <3>2. PICK c : /\ Goto(t, "try") /\ Hold(t, c) /\ c.op \in {"rendered", "token"}
                   /\ Agree(call[t].entries, file, {}) => Agree(c.entries, file, {})
      BY <1>2, <3>1
    <3>3. Still => Agree(call[t].entries, file, {})
      BY <3>1 DEF Built
    <3> HIDE DEF Still
    <3> QED BY <3>1, <3>2, <3>3
  <2>3. CASE Miss(t)
    <3>1. Goto(t, "idle") /\ Hold(t, NoCall) /\ index' = index
      BY <2>3 DEF Miss, Return
    <3> HIDE DEF Still
    <3> QED BY <3>1, NothingInHand
  <2> HIDE DEF Still
  <2> QED BY <2>1, <2>2, <2>3
<1> HIDE DEF Still
<1>4. PICK p, c : /\ p \in {"sync", "try", "idle"} /\ Goto(t, p) /\ Hold(t, c)
                  /\ c.op \in {"rendered", "token", None}
                  /\ Still /\ p = "try" => Agree(c.entries, file, {})
                  /\ Still => index' = index \/ Agree(index', file, {})
  BY <1>3
<1>5. Guards(c) /\ c.op # "save"
  BY <1>4, LookupGuards, NoneApart
<1> QED BY <1>1, <1>4, <1>5, LookedTied DEF Still

(* A candidate is given up. *)
LEMMA RejectTied ==
  ASSUME IInv, Alone, Tied, NEW t \in Threads, Track, NEW n, Reject(t, n),
         pc[t] \in {"try", "delta", "base"}, UNCHANGED <<file, manifest, index>>
  PROVE  Tied'
<1> DEFINE c == [call[t] EXCEPT !.candidates = @ \ {n}, !.name = None, !.at = None, !.covered = {}]
<1>1. Goto(t, "try") /\ Hold(t, c)
  BY DEF Reject
<1>2. call[t] \in Calls /\ call[t].op \in {"rendered", "token"}
  BY ThreadSane, AtPlace
<1>3. c.op = call[t].op /\ c.entries = call[t].entries
  BY <1>2 DEF Calls
<1> HIDE DEF c
<1>4. Built(pc[t], call[t], Loaded, file) => Agree(c.entries, file, {})
  BY <1>3 DEF Built
<1>5. Guards(c) /\ c.op # "save"
  BY <1>2, <1>3, LookupGuards
<1> QED BY <1>1, <1>4, <1>5, LookedTied

(* A checkpoint is restored, with the base its file names. *)
LEMMA HitTied ==
  ASSUME IInv, Alone, Tied, NEW t \in Threads, Track, NEW n \in Names, NEW label, NEW base,
         NEW covered, NEW cached, Hit(t, n, label, base, covered, cached),
         pc[t] \in {"try", "base"}, UNCHANGED <<file, manifest, index>>,
         quiet /\ Built(pc[t], call[t], Loaded, file) => Matches(n, label, base, file[n])
  PROVE  Tied'
<1> DEFINE c == [NoCall EXCEPT !.op = call[t].op, !.name = n, !.label = label, !.base = base,
                   !.covered = covered, !.cached = cached]
<1>1. Goto(t, "load") /\ Hold(t, c)
  BY DEF Hit
<1>2. c.name = n /\ c.label = label /\ c.base = base /\ c.op = call[t].op
  BY DEF NoCall
<1>3. call[t].op \in {"rendered", "token"}
  BY AtPlace
<1> HIDE DEF c
<1>4. Guards(c)
  BY <1>2, <1>3, LookupGuards
<1>5. quiet /\ Built(pc[t], call[t], Loaded, file) => Carries(c, file)
  BY <1>2 DEF Carries
<1> QED BY <1>1, <1>2, <1>3, <1>4, <1>5, LookedTied

(* Candidates are tried. *)
LEMMA TryTied ==
  ASSUME IInv, Alone, Tied, NEW t \in Threads, Track, TryRendered(t) \/ TryToken(t)
  PROVE  Tied'
<1> DEFINE c == call[t]
           n == Longest(c.candidates)
           d == [c EXCEPT !.name = n, !.at = n]
<1>1. pc[t] = "try" /\ c.candidates # {} /\ UNCHANGED <<file, manifest, index>>
  BY DEF TryRendered, TryToken
<1>2. n \in Names /\ c \in Calls /\ c.op \in {"rendered", "token"}
  BY <1>1, Candidate, ThreadSane, AtPlace
<1> DEFINE Told(label) == label = file[n].label \/ (label # "delta" /\ c.op = "token")
<1>3. \/ Reject(t, n)
      \/ Goto(t, "delta") /\ Hold(t, d)
      \/ file[n] # None /\ \E label, covered, cached :
             Told(label) /\ Hit(t, n, label, file[n].base, covered, cached)
  <2>1. CASE TryRendered(t)
    BY <2>1 DEF TryRendered
  <2>2. CASE TryToken(t)
    <3>1. TokenLabel(n, c.goal, file[n]) # "delta"
      BY DEF TokenLabel
    <3> QED BY <2>2, <3>1 DEF TryToken
  <2> QED BY <2>1, <2>2
<1>4. CASE Reject(t, n)
  BY <1>1, <1>4, RejectTied
<1>5. CASE Goto(t, "delta") /\ Hold(t, d)
  <2>1. d.at = d.name /\ d.op = c.op /\ d.entries = c.entries
    BY <1>2 DEF Calls
  <2> HIDE DEF d
  <2>2. Guards(d) /\ d.op # "save"
    BY <1>2, <2>1, LookupGuards
  <2>3. Built(pc[t], call[t], Loaded, file) => Agree(d.entries, file, {})
    BY <1>1, <2>1 DEF Built
  <2> QED BY <1>1, <1>5, <2>1, <2>2, <2>3, LookedTied
<1>6. ASSUME file[n] # None, NEW label, NEW covered, NEW cached, Told(label),
             Hit(t, n, label, file[n].base, covered, cached)
      PROVE  Tied'
  <2>1. CASE label = file[n].label
    <3>1. Matches(n, label, file[n].base, file[n])
      BY <2>1 DEF Matches
    <3> HIDE DEF n, c
    <3> QED BY <1>1, <1>2, <1>6, <3>1, HitTied
  <2>2. CASE label # "delta" /\ c.op = "token"
    <3>1. c.entries[n] # None /\ c.entries[n].kind # "delta"
      BY <1>1, <2>2, Candidate
    <3>2. Built(pc[t], c, Loaded, file) => Matches(n, c.entries[n].kind, c.entries[n].base, file[n])
      BY <1>1, <1>2, <3>1 DEF Built, Agree, Listed
    <3>3. Matches(n, c.entries[n].kind, c.entries[n].base, file[n])
            => Matches(n, label, file[n].base, file[n])
      BY <2>2, <3>1 DEF Matches
    <3> HIDE DEF n, c
    <3> QED BY <1>1, <1>2, <1>6, <3>2, <3>3, HitTied DEF c
  <2> QED BY <1>6, <2>1, <2>2
<1> QED BY <1>3, <1>4, <1>5, <1>6

(* A delta is read: the first in a chain tells its base. *)
LEMMA ReadDeltaTied ==
  ASSUME IInv, Alone, Tied, NEW t \in Threads, Track, ReadDelta(t)
  PROVE  Tied'
<1> DEFINE c == call[t]
           at == c.at
           d == [c EXCEPT !.covered = @ \cup Held(at, file[at]),
                        !.base = IF at = c.name THEN file[at].base ELSE @,
                        !.at = file[at].base]
<1>1. pc[t] = "delta" /\ UNCHANGED <<file, manifest, index>>
  BY DEF ReadDelta
<1>2. CASE file[at] = None \/ file[at].label # "delta"
  BY <1>1, <1>2, RejectTied DEF ReadDelta
<1>3. CASE file[at] # None /\ file[at].label = "delta"
  <2>1. Goto(t, "base") /\ Hold(t, d)
    BY <1>3 DEF ReadDelta
  <2>2. c.op \in {"rendered", "token"} /\ c.name \in Names /\ c \in Calls
    BY <1>1, ThreadSane, AtPlace DEF Sane, Looking, Calls
  <2>3. /\ d.name = c.name /\ d.op = c.op /\ d.entries = c.entries
        /\ d.base = IF at = c.name THEN file[at].base ELSE c.base
    BY <2>2 DEF Calls
  <2>4. Built("delta", c, Loaded, file) => Follows(d, file) /\ Agree(d.entries, file, {})
    <3>1. CASE at = c.name
      <4>1. Follows(d, file)
        BY <1>3, <2>2, <2>3, <3>1 DEF Follows, Matches
      <4> HIDE DEF d, c
      <4> QED BY <2>3, <4>1 DEF Built
    <3>2. CASE at # c.name
      <4> HIDE DEF d
      <4> QED BY <2>3, <3>2 DEF Follows, Built
    <3> QED BY <3>1, <3>2
  <2> HIDE DEF d
  <2>5. Guards(d) /\ d.op # "save"
    BY <2>2, <2>3, LookupGuards
  <2> QED BY <1>1, <2>1, <2>4, <2>5, LookedTied
<1> QED BY <1>2, <1>3

(* Its base is read. *)
LEMMA ReadBaseTied ==
  ASSUME IInv, Alone, Tied, NEW t \in Threads, Track, ReadBase(t)
  PROVE  Tied'
<1> DEFINE c == call[t]
           at == c.at
           n == c.name
<1>1. pc[t] = "base" /\ UNCHANGED <<file, manifest, index>>
  BY DEF ReadBase
<1>2. c.op \in {"rendered", "token"} /\ n \in Names
  BY <1>1, ThreadSane, AtPlace DEF Sane, Looking, Calls
<1>3. Built("base", c, Loaded, file) => Follows(c, file) /\ Agree(c.entries, file, {})
  BY DEF Built
<1>4. CASE file[at] = None
  BY <1>1, <1>4, RejectTied DEF ReadBase
<1>5. CASE file[at] # None /\ file[at].label = "delta"
  <2>1. Goto(t, "delta") /\ Hold(t, c)
    BY <1>5 DEF ReadBase, Hold, IInv
  <2>2. Guards(c) /\ c.op # "save"
    BY <1>2, LookupGuards
  <2> HIDE DEF c
  <2> QED BY <1>1, <1>3, <2>1, <2>2, LookedTied DEF c
<1>6. CASE file[at] # None /\ file[at].label # "delta"
  <2>1. Hit(t, n, "delta", c.base, c.covered \cup Held(at, file[at]), Len(n))
    BY <1>6 DEF ReadBase
  <2> QED BY <1>1, <1>2, <1>3, <2>1, HitTied DEF Follows
<1> QED BY <1>4, <1>5, <1>6

(* Nothing is there initially. *)
LEMMA InitTied ==
  ASSUME Init
  PROVE  Tied
<1>1. \A t \in Threads : pc[t] = "idle" /\ call[t] = NoCall
  BY DEF Init
<1>2. Agree(Loaded, file, {})
  BY DEF Init, Agree, Matches, Listed
<1>3. Guards(NoCall) /\ Built("idle", NoCall, Loaded, file)
  BY <1>2, NothingInHand, LookupGuards, IdleBuilt
<1> QED BY <1>1, <1>3 DEF Tied, Init

(* Every step. *)
LEMMA NextTied ==
  ASSUME IInv, Alone, Tied, [Next]_vars
  PROVE  Tied'
<1>1. CASE UNCHANGED vars
  <2>1. /\ file' = file /\ Loaded' = Loaded /\ pc' = pc /\ call' = call /\ quiet' = quiet
        /\ index' = index
    BY <1>1, ManifestStays DEF vars
  <2> QED BY <2>1 DEF Tied
<1>2. CASE Restart /\ quiet' = (quiet /\ Busy = {})
  <2>1. \A t \in Threads : pc'[t] = "idle" /\ call'[t] = NoCall
    BY <1>2 DEF Restart
  <2>2. Guards(NoCall)
    BY NothingInHand, LookupGuards
  <2>3. ASSUME quiet' PROVE Built("idle", NoCall, Loaded', file')
    <3>1. quiet /\ \A t \in Threads : pc[t] = "idle"
      BY <1>2, <2>3 DEF Busy
    <3>2. Agree(Loaded, file, {})
      BY <3>1, ThreadsFinite DEF Tied, Built
    <3>3. file' = file /\ Loaded' = Loaded
      BY <1>2, ManifestStays DEF Restart
    <3> QED BY <3>2, <3>3, IdleBuilt
  <2>4. index' = None
    BY <1>2 DEF Restart
  <2> QED BY <2>1, <2>2, <2>3, <2>4 DEF Tied
<1>3. ASSUME NEW t \in Threads, Begin(t), Track
      PROVE  Tied'
  <2>1. CASE \E label \in Labels, n \in Names : SaveWhole(t, label, n)
    BY <1>3, <2>1, SaveWholeTied
  <2>2. CASE \E base \in served, goal \in Names : SaveDelta(t, base, goal)
    BY <1>3, <2>2, SaveDeltaTied
  <2>3. CASE \/ PruneAtShutdown(t)
             \/ \E op \in {"rendered", "token"}, prompt \in Prompts : StartLookup(t, op, prompt)
    BY <1>3, <2>3, BeginTied
  <2> QED BY <1>3, <2>1, <2>2, <2>3 DEF Begin
<1>4. ASSUME NEW t \in Threads, Continue(t), Track
      PROVE  Tied'
  <2>1. CASE Write(t)          BY <1>4, <2>1, WriteTied
  <2>2. CASE UpdateLoad(t)     BY <1>4, <2>2, UpdateLoadTied
  <2>3. CASE UpdateStore(t)    BY <1>4, <2>3, UpdateStoreTied
  <2>4. CASE Sync(t)           BY <1>4, <2>4, SyncTied
  <2>5. CASE SyncStore(t)      BY <1>4, <2>5, SyncStoreTied
  <2>6. CASE RemoveStale(t)
    <3>1. Goto(t, "stale")
      BY <2>6 DEF RemoveStale, Goto, IInv
    <3>2. pc[t] = "stale" /\ \E victim \in Listed(call[t].entries) \cap Aging : RemoveEntry(t, victim)
      BY <2>6 DEF RemoveStale
    <3> QED BY <1>4, <3>1, <3>2, RemoveEntryTied
  <2>7. CASE RemoveOverBudget(t)
    BY <1>4, <2>7, RemoveEntryTied DEF RemoveOverBudget
  <2>8. CASE PruneStore(t)     BY <1>4, <2>8, PruneStoreTied
  <2>9. CASE FindIndex(t) \/ KeepIndex(t) \/ Miss(t)
    BY <1>4, <2>9, IndexTied
  <2>10. CASE TryRendered(t) \/ TryToken(t)
    BY <1>4, <2>10, TryTied
  <2>11. CASE ReadDelta(t)     BY <1>4, <2>11, ReadDeltaTied
  <2>12. CASE ReadBase(t)      BY <1>4, <2>12, ReadBaseTied
  <2> QED
    BY <1>4, <2>1, <2>2, <2>3, <2>4, <2>5, <2>6, <2>7, <2>8, <2>9, <2>10, <2>11, <2>12
       DEF Continue
<1> QED BY <1>1, <1>2, <1>3, <1>4 DEF Next

(* Where calls did not overlap, the manifest lists just the files there are when no call *)
(* is under way, and lists a file as a delta if and only if it is one, unless its name   *)
(* is saved as a frontier as well: nothing that was saved is lost, whatever is pruned,   *)
(* looked up or restarted between the calls.                                             *)
THEOREM NothingLost == Spec => []FilesListed
<1> DEFINE J == IInv /\ Alone /\ Tied
<1>1. Init => J
  BY InitHolds, InitAlone, InitTied
<1>2. J /\ [Next]_vars => J'
  BY NextHolds, NextAlone, NextTied
<1>3. TypeOK /\ J => FilesListed
  <2> SUFFICES ASSUME IInv, Alone, Tied, quiet, Busy = {}
               PROVE  /\ Listed(Loaded) = {n \in Names : file[n] # None}
                      /\ \A n \in Listed(Loaded) : FrontierApart(n) =>
                           (Loaded[n].kind = "delta" <=> file[n].label = "delta")
    BY DEF FilesListed
  <2>1. InManifest = Files
    BY DEF Alone, Fits, Busy
  <2>2. Agree(Loaded, file, {})
    <3>1. \A t \in Threads : pc[t] = "idle"
      BY DEF Busy
    <3> QED BY <3>1, ThreadsFinite DEF Tied, Built
  <2>3. ASSUME NEW n \in Listed(Loaded), FrontierApart(n)
        PROVE  Loaded[n].kind = "delta" <=> file[n].label = "delta"
    <3>1. file[n] # None
      BY <2>1 DEF InManifest, Files
    <3> QED BY <2>2, <2>3, <3>1 DEF Agree, Matches
  <2> QED BY <2>1, <2>3 DEF InManifest, Files
<1> HIDE DEF J
<1> QED BY <1>1, <1>2, <1>3, Types, PTL DEF Spec

----------------------------------------
(* What is restored for a rendered prompt. *)

(* That a name can be read, when calls did not overlap so far or they did. *)
ReadableIf(n, apart) ==
  "delta" \in Forms[n] =>
    /\ Forms[n] = {"delta"} \/ (apart /\ FrontierApart(n))
    /\ \A m \in Names : IsStrictPrefix(m, n) /\ "exact" \in Forms[m] => Forms[m] = {"exact"}

(* A thread went where it went, with what it holds. *)
LEMMA Moves ==
  ASSUME IInv, NEW t \in Threads
  PROVE  /\ \A p : Goto(t, p) => pc'[t] = p /\ \A u \in Threads \ {t} : pc'[u] = pc[u]
         /\ \A c : Hold(t, c) => call'[t] = c /\ \A u \in Threads \ {t} : call'[u] = call[u]
BY DEF IInv, Goto, Hold

(* A file that is read as a whole is not a delta, where its name can be read. *)
LEMMA WholeRead ==
  ASSUME IInv, Alone, Tied, NEW t \in Threads, NEW p, Goto(t, p), Track, pc[t] = "try", call[t].candidates # {},
         NEW n, n = Longest(call[t].candidates), file[n] # None,
         call[t].entries[n].kind # "delta", ReadableIf(n, quiet')
  PROVE  n \in Names /\ file[n].label # "delta"
<1> DEFINE c == call[t]
<1>1. n \in c.candidates /\ n \in Names /\ KnownAs(n, c.entries[n].kind) /\ c.entries[n] # None
  BY Candidate
<1>2. SUFFICES ASSUME file[n].label = "delta" PROVE FALSE
  BY <1>1
<1>3. "delta" \in Forms[n] /\ Forms[n] # {"delta"}
  BY <1>1, <1>2, FileKind, ThreadSane DEF KnownAs
<1>4. quiet' /\ FrontierApart(n)
  BY <1>3 DEF ReadableIf, FrontierApart
<1>5. quiet /\ \A u \in Threads \ {t} : pc[u] = "idle"
  BY <1>4, OnlyOne
<1>6. Agree(c.entries, file, {})
  BY <1>5 DEF Tied, Built
<1>7. Matches(n, c.entries[n].kind, c.entries[n].base, file[n])
  BY <1>1, <1>6 DEF Agree, Listed
<1> QED BY <1>2, <1>4, <1>7 DEF Matches

(* A checkpoint that is restored holds the tokens it is taken to hold. *)
LEMMA RenderedHit ==
  ASSUME IInv, Alone, Tied, NEW t \in Threads, Track, TryRendered(t) \/ ReadBase(t),
         pc'[t] = "load", ReadableIf(call'[t].name, quiet')
  PROVE  call'[t].covered = 1 .. call'[t].cached
<1> DEFINE c == call[t]
<1>1. ASSUME NEW n, Reject(t, n) PROVE FALSE
  BY <1>1, Moves DEF Reject
<1>2. ASSUME NEW n, NEW label, NEW base, NEW covered, NEW cached,
             Hit(t, n, label, base, covered, cached)
      PROVE  call'[t].name = n /\ call'[t].covered = covered /\ call'[t].cached = cached
  <2> DEFINE d == [NoCall EXCEPT !.op = call[t].op, !.name = n, !.label = label, !.base = base,
                     !.covered = covered, !.cached = cached]
  <2>1. Hold(t, d)
    BY <1>2 DEF Hit
  <2>2. d.name = n /\ d.covered = covered /\ d.cached = cached
    BY DEF NoCall
  <2> HIDE DEF d
  <2> QED BY <2>1, <2>2, Moves
<1>3. CASE TryRendered(t)
  <2> DEFINE n == Longest(c.candidates)
             kind == c.entries[n].kind
  <2>1. pc[t] = "try" /\ c.candidates # {}
    BY <1>3 DEF TryRendered
  <2>2. kind # "delta"
    <3>1. kind = "delta" => Goto(t, "delta")
      BY <1>3 DEF TryRendered
    <3> QED BY <3>1, Moves
  <2>3. /\ file[n] # None
        /\ Hit(t, n, file[n].label, file[n].base, Held(n, file[n]), RenderedTokens(n, file[n].label))
    BY <1>1, <1>3, <2>2 DEF TryRendered
  <2>4. /\ call'[t].name = n /\ call'[t].covered = Held(n, file[n])
        /\ call'[t].cached = RenderedTokens(n, file[n].label)
    BY <1>2, <2>3
  <2>5. ReadableIf(n, quiet')
    BY <2>4
  <2>6. n \in Names /\ file[n].label # "delta"
    <3>1. Goto(t, "load")
      BY <2>3 DEF Hit
    <3> QED BY <2>1, <2>2, <2>3, <2>5, <3>1, WholeRead
  <2> QED BY <2>3, <2>4, <2>6, FileHeld, ThreadSane
<1>4. CASE ReadBase(t)
  <2> DEFINE n == c.name
             at == c.at
  <2>1. pc[t] = "base" /\ Sane("base", c) /\ c.op \in {"rendered", "token"} /\ Stored /\ c \in Calls
    BY <1>4, ThreadSane, AtPlace DEF ReadBase
  <2>2. /\ file[at] # None /\ file[at].label # "delta"
        /\ Hit(t, n, "delta", c.base, c.covered \cup Held(at, file[at]), Len(n))
    <3>1. file[at] # None
      BY <1>1, <1>4 DEF ReadBase
    <3>2. file[at].label # "delta"
      <4>1. file[at].label = "delta" => Goto(t, "delta")
        BY <1>4, <3>1 DEF ReadBase
      <4> QED BY <4>1, Moves
    <3> QED BY <1>4, <3>1, <3>2 DEF ReadBase
  <2>3. /\ call'[t].name = n /\ call'[t].covered = c.covered \cup Held(at, file[at])
        /\ call'[t].cached = Len(n)
    BY <1>2, <2>2
  <2>4. /\ n \in c.candidates /\ "delta" \in Forms[n] /\ Base(at) /\ IsStrictPrefix(at, n)
        /\ c.covered = Len(at) + 1 .. Len(n)
    BY <2>1 DEF Sane, Looking
  <2>5. n \in Names /\ at \in Names /\ Forms[at] # {"exact"}
    BY <2>1, <2>4 DEF Calls, Base
  <2>6. "exact" \notin Forms[at]
    BY <2>3, <2>4, <2>5 DEF ReadableIf
  <2>7. file[at] \in Content /\ file[at].label \in Forms[at]
    BY <2>1, <2>2, <2>5, FileKind
  <2>8. Held(at, file[at]) = 1 .. Len(at)
    BY <2>2, <2>5, <2>6, <2>7, HeldPositions
  <2>9. Len(at) \in Nat /\ Len(n) \in Nat /\ Len(at) < Len(n)
    BY <2>4, <2>5, Records, PrefixIndexed
  <2> HIDE DEF n, at, c
  <2> QED BY <2>3, <2>4, <2>8, <2>9
<1> QED BY <1>3, <1>4

(* No other step restores one. *)
LEMMA OtherSteps ==
  ASSUME IInv, NEW t \in Threads, Begin(t) \/ Continue(t), ~(TryRendered(t) \/ ReadBase(t)),
         pc'[t] = "load"
  PROVE  call'[t].op # "rendered"
<1> DEFINE c == call[t]
<1>1. ASSUME NEW label, NEW n, SaveWhole(t, label, n)
      PROVE  call'[t].op # "rendered"
  <2> DEFINE d == [NoCall EXCEPT !.op = "save", !.name = n, !.label = label,
                     !.base = IF label = "frontier" /\ file[n] # None THEN file[n].base ELSE None,
                     !.protected = Protected(label, n)]
  <2>1. Hold(t, d)
    BY <1>1 DEF SaveWhole
  <2>2. d.op = "save"
    BY DEF NoCall
  <2> HIDE DEF d
  <2> QED BY <2>1, <2>2, Moves
<1>2. ASSUME NEW base, NEW goal, NEW protected, ChunkCall(t, base, goal, protected)
      PROVE  call'[t].op # "rendered"
  <2> DEFINE n == ChunkEnd(base, goal)
             d == [NoCall EXCEPT !.op = "save", !.name = n, !.label = "delta", !.base = base,
                     !.goal = goal, !.protected = protected \cup {n}]
  <2>1. Hold(t, d)
    BY <1>2 DEF ChunkCall
  <2>2. d.op = "save"
    BY DEF NoCall
  <2> HIDE DEF d
  <2> QED BY <2>1, <2>2, Moves
<1>3. ASSUME NEW p, Goto(t, p), p # "load" PROVE FALSE
  BY <1>3, Moves
<1>4. CASE Begin(t)
  <2>1. CASE \E label \in Labels, n \in Names : SaveWhole(t, label, n)
    BY <1>1, <2>1
  <2>2. CASE \E base \in served, goal \in Names : SaveDelta(t, base, goal)
    BY <1>2, <2>2 DEF SaveDelta
  <2>3. CASE PruneAtShutdown(t)
    BY <1>3, <2>3 DEF PruneAtShutdown
  <2>4. CASE \E op \in {"rendered", "token"}, prompt \in Prompts : StartLookup(t, op, prompt)
    BY <1>3, <2>4 DEF StartLookup
  <2> QED BY <1>4, <2>1, <2>2, <2>3, <2>4 DEF Begin
<1>5. CASE Continue(t)
  <2>1. CASE Write(t)
    <3>1. pc[t] = "write" /\ call' = call
      BY <2>1 DEF Write
    <3>2. c.op = "save"
      BY <3>1, ThreadSane DEF Sane, Looking, Pruning, Calls
    <3> QED BY <3>1, <3>2
  <2>2. CASE UpdateLoad(t) \/ UpdateStore(t) \/ Miss(t)
    BY <1>3, <2>2 DEF UpdateLoad, UpdateStore, Miss, Return
  <2>3. CASE Sync(t) \/ SyncStore(t)
    <3>1. \E p \in {"syncstore", "keep", "stale"} : Goto(t, p)
      BY <2>3 DEF Sync, SyncStore
    <3> QED BY <1>3, <3>1
  <2>4. CASE RemoveStale(t) \/ RemoveOverBudget(t)
    BY <1>3, <2>4 DEF RemoveStale, RemoveOverBudget
  <2>5. CASE PruneStore(t)
    BY <1>2, <1>3, <2>5 DEF PruneStore, Return
  <2>6. CASE FindIndex(t) \/ KeepIndex(t)
    BY <1>3, <2>6 DEF FindIndex, KeepIndex, TryAmong
  <2>7. CASE ReadDelta(t)
    BY <1>3, <2>7 DEF ReadDelta, Reject
  <2>8. CASE TryToken(t)
    <3>1. c.op = "token"
      BY <2>8 DEF TryToken
    <3>2. ASSUME NEW n, NEW label, NEW base, NEW covered, NEW cached,
                 Hit(t, n, label, base, covered, cached)
          PROVE  call'[t].op = "token"
      <4> DEFINE d == [NoCall EXCEPT !.op = call[t].op, !.name = n, !.label = label,
                         !.base = base, !.covered = covered, !.cached = cached]
      <4>1. Hold(t, d)
        BY <3>2 DEF Hit
      <4>2. d.op = "token"
        BY <3>1 DEF NoCall
      <4> HIDE DEF d
      <4> QED BY <4>1, <4>2, Moves
    <3>3. ASSUME NEW n, Reject(t, n) PROVE FALSE
      BY <1>3, <3>3 DEF Reject
    <3> QED BY <2>8, <3>2, <3>3 DEF TryToken
  <2> QED BY <1>5, <2>1, <2>2, <2>3, <2>4, <2>5, <2>6, <2>7, <2>8 DEF Continue
<1> QED BY <1>4, <1>5

(* A step of a thread leaves the others where they are. *)
LEMMA StepMoves ==
  ASSUME IInv, NEW t \in Threads, Begin(t) \/ Continue(t)
  PROVE  \A u \in Threads \ {t} : pc'[u] = pc[u] /\ call'[u] = call[u]
<1>1. ASSUME (\E p : Goto(t, p)) \/ pc' = pc, (\E c : Hold(t, c)) \/ call' = call
      PROVE  \A u \in Threads \ {t} : pc'[u] = pc[u] /\ call'[u] = call[u]
  BY <1>1, Moves
<1>2. CASE Begin(t)
  <2>1. CASE \E label \in Labels, n \in Names : SaveWhole(t, label, n)
    BY <1>1, <2>1 DEF SaveWhole
  <2>2. CASE \E base \in served, goal \in Names : SaveDelta(t, base, goal)
    BY <1>1, <2>2 DEF SaveDelta, ChunkCall
  <2>3. CASE PruneAtShutdown(t)
    BY <1>1, <2>3 DEF PruneAtShutdown
  <2>4. CASE \E op \in {"rendered", "token"}, prompt \in Prompts : StartLookup(t, op, prompt)
    BY <1>1, <2>4 DEF StartLookup
  <2> QED BY <1>2, <2>1, <2>2, <2>3, <2>4 DEF Begin
<1>3. CASE Continue(t)
  <2>1. CASE Write(t) \/ UpdateStore(t) \/ Sync(t) \/ SyncStore(t) \/ Miss(t)
    BY <1>1, <2>1 DEF Write, UpdateStore, Sync, SyncStore, Miss, Return
  <2>2. CASE UpdateLoad(t)
    BY <1>1, <2>2 DEF UpdateLoad, Return
  <2>3. CASE RemoveStale(t) \/ RemoveOverBudget(t)
    BY <1>1, <2>3 DEF RemoveStale, RemoveOverBudget, RemoveEntry
  <2>4. CASE PruneStore(t)
    BY <1>1, <2>4 DEF PruneStore, ChunkCall, Return
  <2>5. CASE FindIndex(t) \/ KeepIndex(t)
    BY <1>1, <2>5 DEF FindIndex, KeepIndex, TryAmong
  <2>6. CASE TryRendered(t)
    BY <1>1, <2>6 DEF TryRendered, Reject, Hit
  <2>7. CASE ReadDelta(t)
    BY <1>1, <2>7 DEF ReadDelta, Reject
  <2>8. CASE ReadBase(t)
    BY <1>1, <2>8 DEF ReadBase, Reject, Hit
  <2>9. CASE TryToken(t)
    BY <1>1, <2>9 DEF TryToken, Reject, Hit
  <2> QED BY <1>3, <2>1, <2>2, <2>3, <2>4, <2>5, <2>6, <2>7, <2>8, <2>9 DEF Continue
<1> QED BY <1>2, <1>3

(* Every step. *)
LEMMA NextRendered ==
  ASSUME IInv, Alone, Tied, RenderedWhole, [Next]_vars
  PROVE  RenderedWhole'
<1> SUFFICES ASSUME NEW u \in Threads, pc'[u] = "load", call'[u].op = "rendered",
                    ReadableIf(call'[u].name, quiet')
             PROVE  call'[u].covered = 1 .. call'[u].cached
  BY DEF RenderedWhole, Readable, ReadableIf, FrontierApart
<1>1. ASSUME quiet' => quiet, pc'[u] = pc[u], call'[u] = call[u]
      PROVE  call'[u].covered = 1 .. call'[u].cached
  BY <1>1 DEF RenderedWhole, Readable, ReadableIf, FrontierApart
<1>2. CASE UNCHANGED vars
  BY <1>1, <1>2 DEF vars
<1>3. CASE Restart
  BY <1>3 DEF Restart
<1>4. ASSUME NEW t \in Threads, Begin(t) \/ Continue(t), Track
      PROVE  call'[u].covered = 1 .. call'[u].cached
  <2>1. CASE u = t
    BY <1>4, <2>1, OtherSteps, RenderedHit
  <2>2. CASE u # t
    <3>1. pc'[u] = pc[u] /\ call'[u] = call[u]
      BY <1>4, <2>2, StepMoves
    <3>2. quiet' => quiet
      BY <1>4 DEF Track
    <3> QED BY <1>1, <3>1, <3>2
  <2> QED BY <2>1, <2>2
<1> QED BY <1>2, <1>3, <1>4 DEF Next

(* What the server restores for a rendered prompt holds every token it is taken to hold  *)
(* and no other, where its name can be read: whatever the threads write, remove and      *)
(* prune meanwhile and wherever the process was ended before if the name is saved in one *)
(* form, and as long as calls do not overlap if it is saved whole and as a delta.        *)
THEOREM RestoredWhole == Spec => []RenderedWhole
<1> DEFINE J == IInv /\ Alone /\ Tied
<1>1. Init => J /\ RenderedWhole
  <2>1. Init => RenderedWhole
    BY DEF Init, RenderedWhole
  <2> QED BY <2>1, InitHolds, InitAlone, InitTied
<1>2. J /\ RenderedWhole /\ [Next]_vars => J' /\ RenderedWhole'
  BY NextHolds, NextAlone, NextTied, NextRendered
<1> HIDE DEF J
<1> QED BY <1>1, <1>2, PTL DEF Spec

----------------------------------------
(* What a prune removes is no base of a delta that stays. *)

(* Of some names one is longest. *)
LEMMA LongestThere ==
  ASSUME NEW S \in SUBSET Names, S # {}
  PROVE  \E n \in S : \A m \in S : Len(m) <= Len(n)
<1> DEFINE g == [n \in S |-> Len(n)]
           total == SumFunction(g)
           lengths == {Len(n) : n \in S}
<1>1. DOMAIN g = S /\ IsFiniteSet(DOMAIN g) /\ \A n \in S : g[n] = Len(n) /\ g[n] \in Nat
  BY Records, NamesAssumption, FS_Subset
<1>2. ASSUME NEW n \in S
      PROVE  Len(n) <= total /\ total \in Nat
  <2> DEFINE rest == Without(g, n)
             none == [x \in {} |-> 0]
  <2>1. /\ DOMAIN rest \subseteq S /\ IsFiniteSet(DOMAIN rest)
        /\ \A x \in DOMAIN rest : rest[x] \in Nat
    <3>1. DOMAIN rest = S \ {n} /\ \A x \in S \ {n} : rest[x] = g[x]
      BY <1>1 DEF Without
    <3> HIDE DEF rest, g
    <3> QED BY <1>1, <3>1, FS_Subset
  <2>2. DOMAIN none = {}
    OBVIOUS
  <2> HIDE DEF g, rest, none
  <2>3. total = g[n] + SumFunction(rest) /\ SumFunction(rest) \in Int
    BY <1>1, SumWithout DEF rest
  <2>4. SumFunction(none) = 0 /\ SumFunction(none) <= SumFunction(rest)
    BY <2>1, <2>2, SumOfNone, SumBelow
  <2> QED BY <1>1, <2>3, <2>4
<1>3. total \in Nat /\ lengths \in SUBSET Nat /\ lengths # {} /\ \A l \in lengths : l <= total
  <2>1. total \in Nat
    BY <1>2
  <2> HIDE DEF total
  <2> QED BY <1>1, <1>2, <2>1
<1> HIDE DEF total
<1>4. Max(lengths) \in lengths /\ \A l \in lengths : Max(lengths) >= l
  BY <1>3, MaxIsGreatest
<1>5. PICK n \in S : Len(n) = Max(lengths)
  BY <1>4
<1> QED BY <1>3, <1>4, <1>5

(* A listed delta: its entry names the base of its file, which is shorter. *)
LEMMA ListedDelta ==
  ASSUME FrontiersApart, Stored, NEW entries \in Manifests, Listed(entries) = Files,
         Agree(entries, file, {}), NEW d \in Listed(entries),
         entries[d].kind = "delta" \/ file[d].label = "delta"
  PROVE  /\ d \in Names /\ entries[d].kind = "delta" /\ file[d].label = "delta"
         /\ entries[d].base = file[d].base /\ DeltaOn(d, file[d].base)
<1>1. d \in Names /\ file[d] # None /\ entries[d] # None
  BY DEF Listed, Files
<1>2. Matches(d, entries[d].kind, entries[d].base, file[d]) /\ FrontierApart(d)
  BY <1>1 DEF Agree, FrontiersApart
<1>3. file[d].label = "delta" /\ entries[d].kind = "delta" /\ entries[d].base = file[d].base
  BY <1>1, <1>2 DEF Matches
<1> QED BY <1>1, <1>3, FileKind

(* The entries' sizes are the files': over the budget by them is over the budget. *)
LEMMA WithinNotOver ==
  ASSUME Stored, NEW entries \in Manifests, Listed(entries) = Files,
         \A n \in Listed(entries) : entries[n].size = FileSizes[n], Within
  PROVE  ~OverBudget(entries)
<1> DEFINE f == [n \in Files |-> Size(n)]
           g == [n \in Listed(entries) |-> entries[n].size]
<1>1. f = g
  BY DEF FileSizes, Files
<1>2. IsFiniteSet(Files) /\ Cardinality(Files) \in Nat
  BY NamesAssumption, FS_Subset, FS_CardinalityType DEF Files
<1>3. SumFunction(f) \in Int
  <2>1. DOMAIN f = Files /\ \A n \in Files : f[n] \in Int
    BY SizeBelow DEF Files
  <2> HIDE DEF f
  <2> QED BY <1>2, <2>1, SumType
<1>4. /\ MaxFiles > 0 => Cardinality(Files) <= MaxFiles
      /\ MaxBytes > 0 => SumFunction(f) <= MaxBytes
  BY DEF Within
<1>5. MaxBytes > 0 => ~(SumFunction(g) > MaxBytes)
  <2> HIDE DEF f, g
  <2> QED BY <1>1, <1>3, <1>4, LimitsAssumption
<1>6. MaxFiles > 0 => ~(Cardinality(Listed(entries)) > MaxFiles)
  <2> HIDE DEF f, g
  <2> QED BY <1>2, <1>4, LimitsAssumption
<1> QED BY <1>5, <1>6 DEF OverBudget, TotalBytes

(* Over the budget there is always something else to remove than the base of a delta:    *)
(* else each unprotected file would have a longer delta on it, so that all lie on the    *)
(* way to the delta being saved, and the budget has room for those.                      *)
LEMMA BasesSpared ==
  ASSUME ChainsFit, FrontiersApart, Stored, NEW c \in Calls, c.op \in {"save", "prune"},
         Guards(c), c.op = "save" => Carries(c, file),
         Listed(c.entries) = Files, Agree(c.entries, file, {}),
         \A n \in Listed(c.entries) : c.entries[n].size = FileSizes[n],
         OverBudget(c.entries), NEW victim \in Victims(c.entries, c.protected)
  PROVE  victim \notin DeltaBaseFiles(c.entries)
<1> DEFINE entries == c.entries
           unprotected == Listed(entries) \ c.protected
           spare == unprotected \ DeltaBaseFiles(entries)
<1>1. entries \in Manifests
  BY DEF Calls
<1> SUFFICES ASSUME victim \in DeltaBaseFiles(entries) PROVE FALSE
  OBVIOUS
<1>2. spare = {} /\ victim \in unprotected
  BY DEF Victims
<1>3. ASSUME NEW x \in unprotected
      PROVE  \E d \in Listed(entries) : /\ d \in Names /\ x \in Names /\ file[d].label = "delta"
                                        /\ IsPrefix(x, d) /\ Len(x) < Len(d)
  <2>1. x \in DeltaBaseFiles(entries)
    BY <1>2
  <2>2. PICK d \in Listed(entries) : entries[d].kind = "delta" /\ entries[d].base = x
    BY <2>1 DEF DeltaBaseFiles
  <2>3. d \in Names /\ DeltaOn(d, x) /\ file[d].label = "delta"
    <3> HIDE DEF entries
    <3> QED BY <1>1, <2>2, ListedDelta DEF entries
  <2>4. x \in Names /\ IsStrictPrefix(x, d)
    BY <2>3 DEF DeltaOn, Base
  <2>5. IsPrefix(x, d) /\ Len(x) < Len(d)
    BY <2>3, <2>4, Records, PrefixIndexed DEF IsStrictPrefix
  <2> QED BY <2>3, <2>4, <2>5
<1>4. unprotected \in SUBSET Names
  BY DEF Listed
<1>5. CASE c.op = "save" /\ c.label = "delta"
  <2>1. /\ c.goal \in Names /\ "delta" \in Forms[c.goal]
        /\ \A m \in c.protected : IsPrefix(m, c.goal)
    BY <1>5 DEF Guards
  <2> DEFINE W == {x \in unprotected : ~IsPrefix(x, c.goal)}
             S == {m \in Names : IsPrefix(m, c.goal)}
  <2>2. W = {}
    <3> SUFFICES ASSUME W # {} PROVE FALSE
      OBVIOUS
    <3>1. W \in SUBSET Names
      BY <1>4
    <3>2. PICK w \in W : \A m \in W : Len(m) <= Len(w)
      <4> HIDE DEF W
      <4> QED BY <3>1, LongestThere
    <3>3. PICK d \in Listed(entries) : d \in Names /\ w \in Names /\ IsPrefix(w, d) /\ Len(w) < Len(d)
      BY <1>3
    <3>4. IsPrefix(d, c.goal)
      <4>1. CASE d \in c.protected
        BY <2>1, <4>1
      <4>2. CASE d \notin c.protected
        <5>1. d \notin W
          <6>1. Len(w) \in Nat /\ Len(d) \in Nat
            BY <3>3, Records
          <6> HIDE DEF W
          <6> QED BY <3>2, <3>3, <6>1
        <5> QED BY <4>2, <5>1
      <4> QED BY <4>1, <4>2
    <3>5. IsPrefix(w, c.goal)
      BY <2>1, <3>3, <3>4, Records, PrefixOfPrefix
    <3> QED BY <3>5
  <2>3. Files \subseteq S
    BY <2>1, <2>2 DEF Files
  <2>4. RoomFor(S) /\ S \in SUBSET Names
    BY <2>1 DEF ChainsFit
  <2>5. Within
    <3> HIDE DEF S
    <3> QED BY <2>3, <2>4, RoomWithin
  <2> HIDE DEF W, S, entries
  <2> QED BY <1>1, <2>5, WithinNotOver DEF entries
<1>6. CASE ~(c.op = "save" /\ c.label = "delta")
  <2>1. PICK u \in unprotected : \A m \in unprotected : Len(m) <= Len(u)
    <3> HIDE DEF unprotected
    <3> QED BY <1>2, <1>4, LongestThere
  <2>2. PICK d \in Listed(entries) : /\ d \in Names /\ u \in Names /\ file[d].label = "delta"
                                     /\ Len(u) < Len(d)
    BY <1>3
  <2>3. d \in c.protected
    <3>1. Len(u) \in Nat /\ Len(d) \in Nat
      BY <2>2, Records
    <3>2. d \notin unprotected
      <4> HIDE DEF unprotected
      <4> QED BY <2>1, <2>2, <3>1
    <3> QED BY <3>2
  <2>4. c.op = "save" /\ d = c.name
    BY <1>6, <2>3 DEF Guards
  <2>5. file[d] # None /\ FrontierApart(d)
    BY <2>2 DEF Files, FrontiersApart
  <2>6. c.label = "delta"
    BY <2>2, <2>4, <2>5 DEF Carries, Matches
  <2> QED BY <1>6, <2>4, <2>6
<1> QED BY <1>5, <1>6

(* What is complete stays so when a file goes that is no base, unless it is the file itself. *)
LEMMA StaysComplete ==
  ASSUME FrontiersApart, Stored, NEW entries \in Manifests, Listed(entries) = Files,
         Agree(entries, file, {}), NEW victim, victim \notin DeltaBaseFiles(entries),
         file' = [file EXCEPT ![victim] = None],
         NEW n \in Names, Complete(n, file), file'[n] # None
  PROVE  Complete(n, file')
<1>1. PICK chain \in SUBSET Names :
        /\ n \in chain
        /\ \A m \in chain : /\ file[m] # None
                            /\ file[m].label = "delta" => file[m].base \in chain
  BY DEF Complete
<1>2. file \in [Names -> Content \cup {None}]
  BY DEF Stored
<1>3. n # victim
  BY <1>2
<1>4. ASSUME NEW m \in chain \ {victim}
      PROVE  /\ file'[m] # None
             /\ file'[m].label = "delta" => file'[m].base \in chain \ {victim}
  <2>1. m \in Names /\ file'[m] = file[m] /\ file[m] # None
    BY <1>1, <1>2
  <2>2. m \in Listed(entries)
    BY <2>1 DEF Files
  <2>3. ASSUME file[m].label = "delta"
        PROVE  file[m].base \in chain \ {victim}
    <3>1. entries[m].kind = "delta" /\ entries[m].base = file[m].base
      BY <2>2, <2>3, ListedDelta
    <3>2. file[m].base \in DeltaBaseFiles(entries)
      BY <2>2, <3>1 DEF DeltaBaseFiles
    <3> QED BY <1>1, <2>3, <3>2
  <2> QED BY <2>1, <2>3
<1>5. chain \ {victim} \in SUBSET Names /\ n \in chain \ {victim}
  BY <1>1, <1>3
<1> QED BY <1>4, <1>5 DEF Complete

(* A removal, while calls do not overlap. *)
LEMMA RemovalKeepsChains ==
  ASSUME ChainsFit, FrontiersApart, IInv, Alone, Budget, Tied, NEW t \in Threads, Track, quiet',
         RemoveStale(t) \/ RemoveOverBudget(t),
         NEW n \in Names, Complete(n, file), file'[n] # None
  PROVE  Complete(n, file')
<1> DEFINE c == call[t]
<1>1. PICK victim :
        /\ RemoveEntry(t, victim)
        /\ \/ victim \notin DeltaBaseFiles(c.entries)
           \/ OverBudget(c.entries) /\ victim \in Victims(c.entries, c.protected)
  BY DEF RemoveStale, RemoveOverBudget
<1>2. pc[t] \in {"stale", "prune"} /\ \E p : Goto(t, p)
  BY DEF RemoveStale, RemoveOverBudget, Goto, IInv
<1>3. /\ quiet /\ \A u \in Threads \ {t} : pc[u] = "idle"
      /\ Fits(pc[t], c, Files, InManifest)
  BY <1>2, OnlyOne
<1>4. Built(pc[t], c, Loaded, file) /\ Sized(pc[t], c, Within, FileSizes) /\ Guards(c)
  BY <1>3 DEF Tied, Budget
<1>5. /\ Stored /\ c \in Calls /\ c.entries \in Manifests
      /\ c.op \in {"save", "prune"}
  BY <1>2, ThreadSane, AtPlace
<1>6. /\ Listed(c.entries) = Files /\ Agree(c.entries, file, {})
      /\ c.op = "save" => Carries(c, file)
      /\ \A m \in Listed(c.entries) : c.entries[m].size = FileSizes[m]
  BY <1>2, <1>3, <1>4, <1>5 DEF Fits, Built, Sized
<1> HIDE DEF c
<1>7. victim \notin DeltaBaseFiles(c.entries)
  BY <1>1, <1>4, <1>5, <1>6, BasesSpared
<1>8. file' = [file EXCEPT ![victim] = None]
  BY <1>1 DEF RemoveEntry
<1> QED BY <1>5, <1>6, <1>7, <1>8, StaysComplete

(* The action of ChainsKept. *)
Removing ==
    quiet' /\ (\A m \in Names : file'[m] \in {file[m], None})
      => \A n \in Names : Complete(n, file) /\ file'[n] # None => Complete(n, file')

(* Every step. *)
LEMMA NextKeepsChains ==
  ASSUME ChainsFit, FrontiersApart, IInv, Alone, Budget, Tied, [Next]_vars
  PROVE  [Removing]_vars
<1>1. ASSUME file' = file PROVE Removing
  BY <1>1 DEF Removing
<1>2. CASE UNCHANGED vars
  BY <1>2
<1>3. CASE Restart
  BY <1>1, <1>3 DEF Restart
<1>4. ASSUME NEW t \in Threads, Begin(t)
      PROVE  file' = file
  BY <1>4 DEF Begin, SaveWhole, SaveDelta, PruneAtShutdown, StartLookup
<1>5. ASSUME NEW t \in Threads, Continue(t), Track
      PROVE  Removing
  <2>1. CASE Write(t)
    <3> DEFINE c == call[t]
               x == [label |-> c.label, base |-> c.base]
    <3>1. /\ c.name \in Names /\ c.label \in Labels /\ c.base \in Names \cup {None}
      <4>1. c \in Calls /\ Saving("write", c) /\ c.op = "save"
        BY <2>1, ThreadSane DEF Write, Sane, Looking, Pruning, Calls
      <4> QED BY <4>1, FormsAreLabels DEF Saving, Calls
    <3>2. x # None
      BY <3>1, Records
    <3>3. file' = [file EXCEPT ![c.name] = x] /\ file \in [Names -> Content \cup {None}]
      BY <2>1 DEF Write, IInv, Stored
    <3> HIDE DEF c, x
    <3>4. file'[c.name] = x /\ \A m \in Names \ {c.name} : file'[m] = file[m]
      BY <3>1, <3>3
    <3>5. file'[c.name] \in {file[c.name], None} => file' = file
      BY <3>1, <3>2, <3>3, <3>4
    <3> QED BY <1>1, <3>1, <3>5 DEF Removing
  <2>2. CASE RemoveStale(t) \/ RemoveOverBudget(t)
    BY <1>5, <2>2, RemovalKeepsChains DEF Removing
  <2>3. CASE ~(Write(t) \/ RemoveStale(t) \/ RemoveOverBudget(t))
    <3>1. file' = file
      BY <1>5, <2>3 DEF Continue, UpdateLoad, UpdateStore, Sync, SyncStore, PruneStore, FindIndex,
           KeepIndex, TryRendered, ReadDelta, ReadBase, TryToken, Miss
    <3> QED BY <1>1, <3>1
  <2> QED BY <2>1, <2>2, <2>3
<1> QED BY <1>1, <1>2, <1>3, <1>4, <1>5 DEF Next

(* When the budget has room for whatever lies on the way to a delta, no name is saved    *)
(* both as a frontier and as a delta, and calls did not overlap, no prune takes a file   *)
(* from under a delta that stays.                                                        *)
THEOREM BasesStayUnderDeltas ==
  ASSUME BudgetSuffices, ChainsFit, FrontiersApart
  PROVE  Spec => ChainsKept
<1> DEFINE J == IInv /\ Alone /\ Budget /\ Tied
<1>1. Init => J
  BY InitHolds, InitAlone, InitBudget, InitTied
<1>2. J /\ [Next]_vars => J'
  BY NextHolds, NextAlone, NextBudget, NextTied
<1>3. J /\ [Next]_vars => [Removing]_vars
  BY NextKeepsChains
<1>4. ChainsKept <=> [][Removing]_vars
  BY DEF ChainsKept, Removing
<1> HIDE DEF J
<1> QED BY <1>1, <1>2, <1>3, <1>4, PTL DEF Spec
=============================================================================
