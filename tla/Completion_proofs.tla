-------------------------- MODULE Completion_proofs --------------------------
(***************************************************************************)
(* What a client gets of a generation, for any control sequences, limits    *)
(* and guards, whenever the detokenizer holds no token back: the automaton   *)
(* is where the longest sequence ends, the buffer still has every token of   *)
(* one that does, what is sent and kept is what the tokens say, in order,    *)
(* the guards count from the last change of state, and a stream of events is *)
(* well-formed wherever it is cut off.                                       *)
(***************************************************************************)
EXTENDS Completion, SequencesExt, Integers, TLAPS, FiniteSetTheorems, NaturalsInduction,
        WellFoundedInduction, SequenceTheorems

----------------------------------------
(* What the proofs need of naturals. *)

(* A set that has 0 and with every natural the next one has them all. *)
LEMMA SetInduction ==
  ASSUME NEW S, 0 \in S, \A n \in Nat : n \in S => n + 1 \in S
  PROVE  Nat \subseteq S
<1> SUFFICES ASSUME Nat \ S # {} PROVE FALSE
  OBVIOUS
<1>1. PICK x \in Nat \ S : \A y \in Nat \ S : ~(<<y, x>> \in OpToRel(<, Nat))
  <2>1. Nat \ S \subseteq Nat
    OBVIOUS
  <2> QED BY <2>1, NatLessThanWellFounded, WFMin, Zenon
<1>2. x # 0 /\ x - 1 \in Nat /\ x - 1 < x /\ x - 1 + 1 = x
  BY SMT
<1>3. x - 1 \in S
  <2>1. SUFFICES ASSUME x - 1 \notin S PROVE FALSE
    OBVIOUS
  <2>2. x - 1 \in Nat \ S
    BY <1>2, <2>1
  <2>3. <<x - 1, x>> \in OpToRel(<, Nat)
    <3>1. <<x - 1, x>> \in Nat \X Nat /\ <<x - 1, x>>[1] = x - 1 /\ <<x - 1, x>>[2] = x
      BY <1>2
    <3> QED BY <3>1, <1>2, Zenon DEF OpToRel
  <2> QED BY <1>1, <2>2, <2>3, Zenon
<1> QED BY <1>2, <1>3

(* A bounded set of naturals has a greatest element, and Max is it. *)
LEMMA MaxIsGreatest ==
  ASSUME NEW S \in SUBSET Nat, S # {}, NEW b \in Nat, \A x \in S : x <= b
  PROVE  Max(S) \in S /\ \A y \in S : Max(S) >= y
<1> DEFINE Gaps == {g \in Nat : \E x \in S : g = b - x}
<1>1. Gaps \in SUBSET Nat /\ Gaps # {}
  <2>1. \A x \in S : b - x \in Nat
    OBVIOUS
  <2> QED BY <2>1
<1>2. PICK g \in Gaps : \A e \in Gaps : ~(<<e, g>> \in OpToRel(<, Nat))
  <2> HIDE DEF Gaps
  <2> QED BY <1>1, NatLessThanWellFounded, WFMin, Zenon
<1>3. PICK x \in S : g = b - x
  <2>1. g \in Gaps
    BY <1>2, Zenon
  <2> QED BY <2>1
<1>4. ASSUME NEW y \in S PROVE x >= y
  <2>1. b - y \in Gaps /\ b - y \in Nat /\ b - x \in Nat
    OBVIOUS
  <2>2. <<b - y, b - x>> \in Nat \X Nat /\ <<b - y, b - x>>[1] = b - y
        /\ <<b - y, b - x>>[2] = b - x
    BY <2>1
  <2>3. ~(<<b - y, b - x>> \in OpToRel(<, Nat))
    BY <1>2, <1>3, <2>1, Zenon
  <2>4. ~(b - y < b - x)
    BY <2>2, <2>3, Zenon DEF OpToRel
  <2> QED BY <2>4
<1>5. \E z \in S : \A y \in S : z >= y
  BY <1>4
<1> QED BY <1>5, Zenon DEF Max

----------------------------------------
(* Sequences *)

(* A set of sequences that has the empty one and every extension of a sequence *)
(* it has has them all.                                                         *)
LEMMA SequenceInduction ==
  ASSUME NEW R, NEW P, <<>> \in P, \A s \in Seq(R) : s \in P => \A x \in R : Append(s, x) \in P
  PROVE  Seq(R) \subseteq P
<1> DEFINE S == {n \in Nat : \A s \in Seq(R) : Len(s) = n => s \in P}
<1>1. 0 \in S
  <2>1. ASSUME NEW s \in Seq(R), Len(s) = 0 PROVE s \in P
    <3>1. s = <<>>
      BY <2>1, EmptySeq
    <3> QED BY <3>1
  <2> QED BY <2>1
<1>2. ASSUME NEW n \in Nat, n \in S PROVE n + 1 \in S
  <2>1. ASSUME NEW s \in Seq(R), Len(s) = n + 1 PROVE s \in P
    <3>1. PICK t \in Seq(R), x \in R : s = Append(t, x)
      <4>1. s # <<>>
        BY <1>2, <2>1
      <4> QED BY <4>1, SequenceEmptyOrAppend
    <3>2. Len(s) = Len(t) + 1 /\ Len(t) \in Nat
      BY <3>1
    <3>3. Len(t) = n
      BY <1>2, <2>1, <3>2
    <3> QED BY <1>2, <3>1, <3>3
  <2> QED BY <1>2, <2>1
<1> HIDE DEF S
<1>3. Nat \subseteq S
  BY <1>1, <1>2, SetInduction
<1>4. ASSUME NEW s \in Seq(R) PROVE s \in P
  <2>1. Len(s) \in Nat
    OBVIOUS
  <2> QED BY <1>3, <2>1 DEF S
<1> QED BY <1>4

Steps(V, b, G, N) == N \in Nat /\ b \in V /\ \A n \in Nat, v \in V : G[<<n, v>>] \in V

Run(V, b, G, N) ==
  \E f \in [0..N -> V] : f[0] = b /\ \A n \in 1..N : f[n] = G[<<n, f[n - 1]>>]

(* A value and a step, applied again and again. *)
LEMMA Recursion ==
  ASSUME NEW V, NEW b, NEW G, NEW N, Steps(V, b, G, N)
  PROVE  Run(V, b, G, N)
<1> USE DEF Steps
<1> DEFINE Good(m, f) == f[0] = b /\ \A n \in 1..m : f[n] = G[<<n, f[n - 1]>>]
           S == {m \in Nat : \E f \in [0..m -> V] : Good(m, f)}
<1>1. 0 \in S
  <2>1. [n \in 0..0 |-> b] \in [0..0 -> V] /\ Good(0, [n \in 0..0 |-> b])
    OBVIOUS
  <2> QED BY <2>1
<1>2. ASSUME NEW m \in Nat, m \in S PROVE m + 1 \in S
  <2>1. PICK f \in [0..m -> V] : Good(m, f)
    BY <1>2
  <2> DEFINE g == [n \in 0..m + 1 |-> IF n <= m THEN f[n] ELSE G[<<m + 1, f[m]>>]]
  <2>2. f[m] \in V
    OBVIOUS
  <2>3. G[<<m + 1, f[m]>>] \in V
    BY <2>2
  <2>4. g \in [0..m + 1 -> V]
    BY <2>3
  <2>5. g[0] = b
    BY <2>1
  <2>6. ASSUME NEW n \in 1..m + 1 PROVE g[n] = G[<<n, g[n - 1]>>]
    <3>1. n - 1 \in 0..m /\ n - 1 \in 0..m + 1 /\ g[n - 1] = f[n - 1]
      OBVIOUS
    <3>2. CASE n <= m
      <4>1. n \in 1..m /\ g[n] = f[n]
        BY <3>2
      <4> QED BY <2>1, <3>1, <4>1
    <3>3. CASE n = m + 1
      BY <3>1, <3>3
    <3> QED BY <3>2, <3>3
  <2> HIDE DEF g
  <2>7. Good(m + 1, g)
    BY <2>5, <2>6
  <2> HIDE DEF Good
  <2> QED BY <1>2, <2>4, <2>7
<1> HIDE DEF S
<1>3. Nat \subseteq S
  BY <1>1, <1>2, SetInduction
<1> QED BY <1>3 DEF S, Run

(* An element and what is before it. *)
LEMMA AppendItem ==
  ASSUME NEW R, NEW s \in Seq(R), NEW x \in R
  PROVE  /\ Append(s, x) \in Seq(R) /\ Len(Append(s, x)) = Len(s) + 1
         /\ DOMAIN Append(s, x) = 1..Len(s) + 1 /\ DOMAIN s = 1..Len(s) /\ Len(s) \in Nat
         /\ Append(s, x)[Len(s) + 1] = x
         /\ \A i \in 1..Len(s) : Append(s, x)[i] = s[i] /\ s[i] \in R
  OBVIOUS

----------------------------------------
(* Among *)

AmongStep(s, S, among, n) ==
  IF n = 0 THEN <<>>
  ELSE IF s[n] \in S THEN Append(among[n - 1], s[n]) ELSE among[n - 1]

AmongFunction(s, S) ==
  CHOOSE among : among = [n \in 0..Len(s) |-> AmongStep(s, S, among, n)]

(* The function behind Among is what its definition says. *)
LEMMA AmongDefined ==
  ASSUME NEW R, NEW s \in Seq(R), NEW S
  PROVE  /\ Among(s, S) = AmongFunction(s, S)[Len(s)]
         /\ AmongFunction(s, S) = [n \in 0..Len(s) |-> AmongStep(s, S, AmongFunction(s, S), n)]
<1> DEFINE G == [a \in Nat \X Seq(R) |->
                   IF a[1] \in 1..Len(s) /\ s[a[1]] \in S THEN Append(a[2], s[a[1]]) ELSE a[2]]
<1>1. ASSUME NEW n \in Nat, NEW v \in Seq(R) PROVE G[<<n, v>>] \in Seq(R)
  <2>1. n \in 1..Len(s) => s[n] \in R
    OBVIOUS
  <2>2. G[<<n, v>>] = IF n \in 1..Len(s) /\ s[n] \in S THEN Append(v, s[n]) ELSE v
    OBVIOUS
  <2> QED BY <2>1, <2>2
<1>2. PICK f \in [0..Len(s) -> Seq(R)] :
        f[0] = <<>> /\ \A n \in 1..Len(s) : f[n] = G[<<n, f[n - 1]>>]
  <2> HIDE DEF G
  <2>1. <<>> \in Seq(R) /\ Len(s) \in Nat /\ \A n \in Nat, v \in Seq(R) : G[<<n, v>>] \in Seq(R)
    BY <1>1
  <2>2. Steps(Seq(R), <<>>, G, Len(s))
    BY <2>1 DEF Steps
  <2>3. Run(Seq(R), <<>>, G, Len(s))
    BY <2>2, Recursion
  <2> QED BY <2>3 DEF Run
<1>3. f = [n \in 0..Len(s) |-> AmongStep(s, S, f, n)]
  <2>1. ASSUME NEW n \in 0..Len(s) PROVE f[n] = AmongStep(s, S, f, n)
    <3>1. CASE n = 0
      BY <1>2, <3>1 DEF AmongStep
    <3>2. CASE n # 0
      <4>1. n \in 1..Len(s) /\ n - 1 \in 0..Len(s) /\ n \in Nat
        BY <3>2
      <4>2. f[n - 1] \in Seq(R)
        BY <4>1
      <4>3. f[n] = G[<<n, f[n - 1]>>]
        BY <1>2, <4>1
      <4>4. <<n, f[n - 1]>> \in Nat \X Seq(R) /\ <<n, f[n - 1]>>[1] = n
            /\ <<n, f[n - 1]>>[2] = f[n - 1]
        BY <4>1, <4>2
      <4>5. G[<<n, f[n - 1]>>] = IF s[n] \in S THEN Append(f[n - 1], s[n]) ELSE f[n - 1]
        BY <4>1, <4>4
      <4> QED BY <3>2, <4>3, <4>5 DEF AmongStep
    <3> QED BY <3>1, <3>2
  <2> QED BY <2>1
<1>4. \E g : g = [n \in 0..Len(s) |-> AmongStep(s, S, g, n)]
  BY <1>3
<1>5. AmongFunction(s, S) = [n \in 0..Len(s) |-> AmongStep(s, S, AmongFunction(s, S), n)]
  BY <1>4 DEF AmongFunction
<1>6. Among(s, S) = AmongFunction(s, S)[Len(s)]
  BY DEF Among, AmongFunction, AmongStep
<1> QED BY <1>5, <1>6

(* Among of a sequence and one more element. *)
LEMMA AmongAppend ==
  ASSUME NEW R, NEW s \in Seq(R), NEW x \in R, NEW S
  PROVE  Among(Append(s, x), S) = IF x \in S THEN Append(Among(s, S), x) ELSE Among(s, S)
<1> DEFINE t == Append(s, x)
           f == AmongFunction(s, S)
           g == AmongFunction(t, S)
           N == Len(s)
           E == {n \in Nat : n <= N => f[n] = g[n]}
<1>1. t \in Seq(R) /\ Len(t) = N + 1 /\ N \in Nat /\ t[N + 1] = x
      /\ \A n \in 1..N : t[n] = s[n]
  BY AppendItem
<1>2. /\ Among(s, S) = f[N] /\ f = [n \in 0..N |-> AmongStep(s, S, f, n)]
  BY AmongDefined
<1>3. /\ Among(t, S) = g[N + 1] /\ g = [n \in 0..N + 1 |-> AmongStep(t, S, g, n)]
  <2>1. /\ Among(t, S) = g[Len(t)] /\ g = [n \in 0..Len(t) |-> AmongStep(t, S, g, n)]
    <3> HIDE DEF t
    <3> QED BY <1>1, AmongDefined
  <2> QED BY <1>1, <2>1
<1> HIDE DEF f, g, t, N
<1>4. 0 \in E
  <2>1. f[0] = AmongStep(s, S, f, 0) /\ g[0] = AmongStep(t, S, g, 0)
    <3>1. 0 \in 0..N /\ 0 \in 0..N + 1
      BY <1>1
    <3> QED BY <1>2, <1>3, <3>1
  <2> QED BY <2>1 DEF AmongStep
<1>5. ASSUME NEW n \in Nat, n \in E PROVE n + 1 \in E
  <2>1. SUFFICES ASSUME n + 1 <= N PROVE f[n + 1] = g[n + 1]
    OBVIOUS
  <2>2. n + 1 \in 0..N /\ n + 1 \in 0..N + 1 /\ n + 1 \in 1..N /\ n + 1 # 0 /\ n + 1 - 1 = n
        /\ f[n] = g[n]
    BY <1>1, <1>5, <2>1
  <2>3. f[n + 1] = AmongStep(s, S, f, n + 1) /\ g[n + 1] = AmongStep(t, S, g, n + 1)
    BY <1>2, <1>3, <2>2
  <2> QED BY <1>1, <2>2, <2>3 DEF AmongStep
<1> HIDE DEF E
<1>6. Nat \subseteq E
  BY <1>4, <1>5, SetInduction
<1>7. f[N] = g[N]
  BY <1>1, <1>6 DEF E
<1>8. g[N + 1] = AmongStep(t, S, g, N + 1)
  <2>1. N + 1 \in 0..N + 1
    BY <1>1
  <2> QED BY <1>3, <2>1
<1>9. N + 1 # 0 /\ N + 1 - 1 = N
  BY <1>1
<1> QED BY <1>1, <1>2, <1>3, <1>7, <1>8, <1>9 DEF AmongStep, t

(* Among of nothing. *)
LEMMA AmongNone ==
  ASSUME NEW S
  PROVE  Among(<<>>, S) = <<>>
<1>1. <<>> \in Seq({}) /\ Len(<<>>) = 0
  OBVIOUS
<1>2. /\ Among(<<>>, S) = AmongFunction(<<>>, S)[0]
      /\ AmongFunction(<<>>, S) = [n \in 0..0 |-> AmongStep(<<>>, S, AmongFunction(<<>>, S), n)]
  <2>1. /\ Among(<<>>, S) = AmongFunction(<<>>, S)[Len(<<>>)]
        /\ AmongFunction(<<>>, S)
             = [n \in 0..Len(<<>>) |-> AmongStep(<<>>, S, AmongFunction(<<>>, S), n)]
    <3> DEFINE e == <<>>
    <3>1. e \in Seq({})
      BY <1>1
    <3> HIDE DEF e
    <3>2. /\ Among(e, S) = AmongFunction(e, S)[Len(e)]
          /\ AmongFunction(e, S) = [n \in 0..Len(e) |-> AmongStep(e, S, AmongFunction(e, S), n)]
      BY <3>1, AmongDefined
    <3> QED BY <3>2 DEF e
  <2> QED BY <1>1, <2>1
<1> QED BY <1>2 DEF AmongStep

(* Among keeps elements of the sequence that are in the set. *)
LEMMA AmongType ==
  ASSUME NEW R, NEW s \in Seq(R), NEW S
  PROVE  /\ Among(s, S) \in Seq(R) /\ Among(s, S) \in Seq(R \cap S)
         /\ Range(Among(s, S)) = Range(s) \cap S /\ Len(Among(s, S)) <= Len(s)
<1> DEFINE P == {t \in Seq(R) : /\ Among(t, S) \in Seq(R \cap S)
                                /\ Range(Among(t, S)) = Range(t) \cap S
                                /\ Len(Among(t, S)) <= Len(t)}
<1>1. <<>> \in P
  <2>1. Range(<<>>) = {} /\ <<>> \in Seq(R) /\ <<>> \in Seq(R \cap S) /\ Len(<<>>) <= Len(<<>>)
    BY DEF Range
  <2> QED BY <2>1, AmongNone
<1>2. ASSUME NEW t \in Seq(R), t \in P, NEW x \in R PROVE Append(t, x) \in P
  <2> DEFINE a == Among(t, S)
             b == Among(Append(t, x), S)
  <2>1. b = IF x \in S THEN Append(a, x) ELSE a
    BY AmongAppend
  <2>2. a \in Seq(R \cap S) /\ Range(a) = Range(t) \cap S /\ Len(a) <= Len(t)
    BY <1>2
  <2> HIDE DEF a, b
  <2>3. Append(t, x) \in Seq(R) /\ Len(Append(t, x)) = Len(t) + 1 /\ Len(t) \in Nat
        /\ Range(Append(t, x)) = Range(t) \cup {x}
    BY AppendItem DEF Range
  <2>4. CASE x \in S
    <3>1. b = Append(a, x) /\ x \in R \cap S
      BY <2>1, <2>4
    <3>2. b \in Seq(R \cap S) /\ Len(b) = Len(a) + 1 /\ Len(a) \in Nat
          /\ Range(b) = Range(a) \cup {x}
      <4>1. /\ b \in Seq(R \cap S) /\ Len(b) = Len(a) + 1 /\ DOMAIN b = 1..Len(a) + 1
            /\ DOMAIN a = 1..Len(a) /\ Len(a) \in Nat /\ b[Len(a) + 1] = x
            /\ \A i \in 1..Len(a) : b[i] = a[i]
        BY <2>2, <3>1, AppendItem
      <4> QED BY <4>1 DEF Range
    <3> QED BY <2>2, <2>3, <2>4, <3>2 DEF b
  <2>5. CASE x \notin S
    <3>1. b = a /\ Len(a) \in Nat
      BY <2>1, <2>2, <2>5
    <3> QED BY <2>2, <2>3, <2>5, <3>1 DEF b
  <2> QED BY <2>4, <2>5
<1> HIDE DEF P
<1>3. s \in P
  BY <1>1, <1>2, SequenceInduction
<1>4. Among(s, S) \in Seq(R \cap S) /\ Range(Among(s, S)) = Range(s) \cap S
      /\ Len(Among(s, S)) <= Len(s)
  BY <1>3 DEF P
<1>5. Among(s, S) \in Seq(R)
  BY <1>4, SeqMonotonic, Zenon
<1> QED BY <1>4, <1>5

(* Sets that agree on the elements of the sequence choose the same ones. *)
LEMMA AmongAgree ==
  ASSUME NEW R, NEW s \in Seq(R), NEW S, NEW T, \A x \in Range(s) : x \in S <=> x \in T
  PROVE  Among(s, S) = Among(s, T)
<1> DEFINE P == {t \in Seq(R) : (\A x \in Range(t) : x \in S <=> x \in T) => Among(t, S) = Among(t, T)}
<1>1. <<>> \in P
  BY AmongNone
<1>2. ASSUME NEW t \in Seq(R), t \in P, NEW x \in R PROVE Append(t, x) \in P
  <2>1. Append(t, x) \in Seq(R) /\ Range(Append(t, x)) = Range(t) \cup {x}
    BY AppendItem DEF Range
  <2>2. SUFFICES ASSUME \A y \in Range(Append(t, x)) : y \in S <=> y \in T
                 PROVE  Among(Append(t, x), S) = Among(Append(t, x), T)
    BY <2>1
  <2>3. Among(t, S) = Among(t, T) /\ (x \in S <=> x \in T)
    BY <1>2, <2>1, <2>2
  <2>4. /\ Among(Append(t, x), S) = IF x \in S THEN Append(Among(t, S), x) ELSE Among(t, S)
        /\ Among(Append(t, x), T) = IF x \in T THEN Append(Among(t, T), x) ELSE Among(t, T)
    BY AmongAppend
  <2> QED BY <2>3, <2>4
<1> HIDE DEF P
<1>3. s \in P
  BY <1>1, <1>2, SequenceInduction
<1> QED BY <1>3 DEF P

(* Among of two sequences, one behind the other. *)
LEMMA AmongConcat ==
  ASSUME NEW R, NEW s \in Seq(R), NEW t \in Seq(R), NEW S
  PROVE  Among(s \o t, S) = Among(s, S) \o Among(t, S)
<1> DEFINE P == {u \in Seq(R) : Among(s \o u, S) = Among(s, S) \o Among(u, S)}
<1>0. Among(s, S) \in Seq(R)
  BY AmongType
<1>1. <<>> \in P
  <2>1. s \o <<>> = s /\ Among(s, S) \o <<>> = Among(s, S) /\ <<>> \in Seq(R)
    BY <1>0
  <2> QED BY <2>1, AmongNone
<1>2. ASSUME NEW u \in Seq(R), u \in P, NEW x \in R PROVE Append(u, x) \in P
  <2>1. s \o Append(u, x) = Append(s \o u, x) /\ s \o u \in Seq(R) /\ Append(u, x) \in Seq(R)
    OBVIOUS
  <2>2. /\ Among(Append(s \o u, x), S)
             = IF x \in S THEN Append(Among(s \o u, S), x) ELSE Among(s \o u, S)
        /\ Among(Append(u, x), S) = IF x \in S THEN Append(Among(u, S), x) ELSE Among(u, S)
    BY <2>1, AmongAppend
  <2>3. Among(s \o u, S) = Among(s, S) \o Among(u, S) /\ Among(u, S) \in Seq(R)
    BY <1>2, AmongType
  <2>4. Append(Among(s, S) \o Among(u, S), x) = Among(s, S) \o Append(Among(u, S), x)
    <3> DEFINE a == Among(s, S)
               b == Among(u, S)
    <3>1. a \in Seq(R) /\ b \in Seq(R)
      BY <1>0, <2>3
    <3> HIDE DEF a, b
    <3> DEFINE ab == a \o b
               o == << x >>
    <3>2. ab \in Seq(R) /\ o \in Seq(R)
      BY <3>1
    <3>3. ab \o o = a \o (b \o o)
      BY <3>1, <3>2, ConcatAssociative
    <3> HIDE DEF ab
    <3>4. Append(ab, x) = ab \o o
      BY <3>2, AppendIsConcat
    <3>5. Append(b, x) = b \o o
      BY <3>1, AppendIsConcat
    <3> HIDE DEF o
    <3>6. Append(ab, x) = a \o Append(b, x)
      BY <3>3, <3>4, <3>5
    <3> QED BY <3>6 DEF a, b, ab
  <2> QED BY <2>1, <2>2, <2>3, <2>4
<1> HIDE DEF P
<1>3. t \in P
  BY <1>1, <1>2, SequenceInduction
<1> QED BY <1>3 DEF P

(* What is chosen and what is left out are as many as there were. *)
LEMMA AmongSplit ==
  ASSUME NEW R, NEW s \in Seq(R), NEW S, NEW T
  PROVE  Len(Among(Among(s, S), T)) + Len(Among(Among(s, R \ S), T)) = Len(Among(s, T))
<1> DEFINE L(u) == Len(Among(Among(u, S), T)) + Len(Among(Among(u, R \ S), T))
           P == {u \in Seq(R) : L(u) = Len(Among(u, T))}
<1>1. <<>> \in P
  BY AmongNone
<1>2. ASSUME NEW u \in Seq(R), u \in P, NEW x \in R PROVE Append(u, x) \in P
  <2> DEFINE a == Among(u, S)
             b == Among(u, R \ S)
             v == Append(u, x)
             add(w) == IF x \in T THEN Append(Among(w, T), x) ELSE Among(w, T)
  <2>1. v \in Seq(R) /\ a \in Seq(R) /\ b \in Seq(R)
    BY AmongType, AppendItem
  <2>2. /\ Among(v, S) = IF x \in S THEN Append(a, x) ELSE a
        /\ Among(v, R \ S) = IF x \in S THEN b ELSE Append(b, x)
        /\ Among(v, T) = add(u)
    BY AmongAppend
  <2>3. Among(Append(a, x), T) = add(a) /\ Among(Append(b, x), T) = add(b)
    <3> HIDE DEF a, b
    <3>1. Among(Append(a, x), T) = add(a)
      BY <2>1, AmongAppend, ZenonT(40)
    <3>2. Among(Append(b, x), T) = add(b)
      BY <2>1, AmongAppend, ZenonT(40)
    <3> QED BY <3>1, <3>2
  <2>4. Among(a, T) \in Seq(R) /\ Among(b, T) \in Seq(R) /\ Among(u, T) \in Seq(R)
    BY <2>1, AmongType
  <2>5. /\ Len(add(a)) = Len(Among(a, T)) + (IF x \in T THEN 1 ELSE 0)
        /\ Len(add(b)) = Len(Among(b, T)) + (IF x \in T THEN 1 ELSE 0)
        /\ Len(add(u)) = Len(Among(u, T)) + (IF x \in T THEN 1 ELSE 0)
        /\ Len(Among(a, T)) \in Nat /\ Len(Among(b, T)) \in Nat /\ Len(Among(u, T)) \in Nat
    BY <2>4, AppendItem
  <2>6. Len(Among(a, T)) + Len(Among(b, T)) = Len(Among(u, T))
    BY <1>2
  <2> HIDE DEF a, b, v, add
  <2>7. Len(Among(Among(v, S), T)) + Len(Among(Among(v, R \ S), T)) = Len(Among(v, T))
    <3>1. CASE x \in S
      <4>1. Among(v, S) = Append(a, x) /\ Among(v, R \ S) = b
        BY <2>2, <3>1
      <4>2. /\ Len(Among(Among(v, S), T)) = Len(add(a))
            /\ Len(Among(Among(v, R \ S), T)) = Len(Among(b, T))
            /\ Len(Among(v, T)) = Len(add(u))
        BY <2>2, <2>3, <4>1
      <4> QED BY <2>5, <2>6, <4>2
    <3>2. CASE x \notin S
      <4>1. Among(v, S) = a /\ Among(v, R \ S) = Append(b, x)
        BY <2>2, <3>2
      <4>2. /\ Len(Among(Among(v, S), T)) = Len(Among(a, T))
            /\ Len(Among(Among(v, R \ S), T)) = Len(add(b))
            /\ Len(Among(v, T)) = Len(add(u))
        BY <2>2, <2>3, <4>1
      <4> QED BY <2>5, <2>6, <4>2
    <3> QED BY <3>1, <3>2
  <2> QED BY <2>1, <2>7 DEF v
<1> HIDE DEF P
<1>3. s \in P
  BY <1>1, <1>2, SequenceInduction
<1> QED BY <1>3 DEF P

----------------------------------------
(* FlattenSeq *)

FlattenStep(ss, flatten, i) == IF i = 1 THEN ss[i] ELSE flatten[i - 1] \o ss[i]

Flattened(ss) == CHOOSE flatten : flatten = [i \in 1..Len(ss) |-> FlattenStep(ss, flatten, i)]

FlattenRun(R, ss, g) ==
  g \in [0..Len(ss) -> Seq(R)] /\ g[0] = <<>> /\ \A n \in 1..Len(ss) : g[n] = g[n - 1] \o ss[n]

(* There is a function that puts the sequences together, one after the other. *)
LEMMA FlattenRuns ==
  ASSUME NEW R, NEW ss \in Seq(Seq(R))
  PROVE  \E g : FlattenRun(R, ss, g)
<1> DEFINE G == [a \in Nat \X Seq(R) |-> IF a[1] \in 1..Len(ss) THEN a[2] \o ss[a[1]] ELSE a[2]]
<1>1. ASSUME NEW n \in Nat, NEW v \in Seq(R)
      PROVE  G[<<n, v>>] = (IF n \in 1..Len(ss) THEN v \o ss[n] ELSE v) /\ G[<<n, v>>] \in Seq(R)
  <2>1. n \in 1..Len(ss) => ss[n] \in Seq(R)
    OBVIOUS
  <2>2. G[<<n, v>>] = IF n \in 1..Len(ss) THEN v \o ss[n] ELSE v
    OBVIOUS
  <2> QED BY <2>1, <2>2
<1> HIDE DEF G
<1>2. Steps(Seq(R), <<>>, G, Len(ss))
  BY <1>1 DEF Steps
<1>3. PICK g \in [0..Len(ss) -> Seq(R)] :
        g[0] = <<>> /\ \A n \in 1..Len(ss) : g[n] = G[<<n, g[n - 1]>>]
  BY <1>2, Recursion DEF Run
<1>4. ASSUME NEW n \in 1..Len(ss) PROVE g[n] = g[n - 1] \o ss[n]
  <2>0. Len(ss) \in Nat
    OBVIOUS
  <2>1. n \in Nat /\ n - 1 \in 0..Len(ss)
    BY <2>0
  <2>2. g[n - 1] \in Seq(R)
    BY <2>1
  <2> QED BY <1>1, <1>3, <2>1, <2>2
<1> QED BY <1>3, <1>4 DEF FlattenRun

(* FlattenSeq is the last value of that function. *)
LEMMA FlattenIsRun ==
  ASSUME NEW R, NEW ss \in Seq(Seq(R)), NEW g, FlattenRun(R, ss, g)
  PROVE  FlattenSeq(ss) = g[Len(ss)] /\ FlattenSeq(ss) \in Seq(R)
<1>0. Len(ss) \in Nat /\ g \in [0..Len(ss) -> Seq(R)] /\ g[Len(ss)] \in Seq(R)
  BY DEF FlattenRun
<1>1. CASE Len(ss) = 0
  <2>1. FlattenSeq(ss) = <<>>
    BY <1>1, EmptySeq DEF FlattenSeq
  <2> QED BY <1>0, <1>1, <2>1 DEF FlattenRun
<1>2. CASE Len(ss) # 0
  <2> DEFINE N == Len(ss)
             f == Flattened(ss)
             w == [i \in 1..N |-> g[i]]
             S == {n \in Nat : n \in 1..N => f[n] = g[n]}
  <2>1. w = [i \in 1..N |-> FlattenStep(ss, w, i)]
    <3>1. ASSUME NEW i \in 1..N PROVE g[i] = FlattenStep(ss, w, i)
      <4>0. g[i] = g[i - 1] \o ss[i] /\ ss[i] \in Seq(R)
        BY DEF FlattenRun
      <4>1. CASE i = 1
        <5>1. g[i - 1] = <<>>
          BY <4>1 DEF FlattenRun
        <5>2. <<>> \o ss[i] = ss[i]
          BY <4>0
        <5> QED BY <4>0, <4>1, <5>1, <5>2 DEF FlattenStep
      <4>2. CASE i # 1
        <5>1. i - 1 \in 1..N
          BY <4>2
        <5>2. w[i - 1] = g[i - 1]
          BY <5>1
        <5> QED BY <4>0, <4>2, <5>2 DEF FlattenStep
      <4> QED BY <4>1, <4>2
    <3> QED BY <3>1
  <2>2. f = [i \in 1..N |-> FlattenStep(ss, f, i)]
    <3>1. \E v : v = [i \in 1..N |-> FlattenStep(ss, v, i)]
      BY <2>1
    <3> QED BY <3>1 DEF Flattened
  <2>3. FlattenSeq(ss) = f[N]
    BY <1>2 DEF FlattenSeq, Flattened, FlattenStep
  <2> HIDE DEF f, w
  <2>4. 0 \in S
    OBVIOUS
  <2>5. ASSUME NEW n \in Nat, n \in S PROVE n + 1 \in S
    <3>1. SUFFICES ASSUME n + 1 \in 1..N PROVE f[n + 1] = g[n + 1]
      OBVIOUS
    <3>2. f[n + 1] = FlattenStep(ss, f, n + 1)
      BY <2>2, <3>1
    <3>3. g[n + 1] = g[n] \o ss[n + 1] /\ ss[n + 1] \in Seq(R)
      <4>1. n + 1 - 1 = n
        BY <2>5
      <4> DEFINE m == n + 1
      <4>2. m \in 1..Len(ss) /\ m - 1 = n
        BY <3>1, <4>1
      <4> HIDE DEF m
      <4>3. \A i \in 1..Len(ss) : g[i] = g[i - 1] \o ss[i]
        BY DEF FlattenRun
      <4>4. g[m] = g[m - 1] \o ss[m]
        BY <4>2, <4>3
      <4>5. ss[m] \in Seq(R)
        BY <4>2, ElementOfSeq
      <4>6. g[m - 1] = g[n]
        BY <4>2
      <4>7. g[m] = g[n] \o ss[m]
        BY <4>4, <4>6
      <4> QED BY <4>5, <4>7 DEF m
    <3>4. CASE n = 0
      <4>1. g[n] = <<>> /\ n + 1 = 1
        BY <3>4 DEF FlattenRun
      <4>2. <<>> \o ss[n + 1] = ss[n + 1]
        BY <3>3
      <4> QED BY <3>2, <3>3, <4>1, <4>2 DEF FlattenStep
    <3>5. CASE n # 0
      <4>1. n \in 1..N /\ n + 1 # 1 /\ n + 1 - 1 = n
        BY <1>0, <2>5, <3>1, <3>5
      <4>2. f[n] = g[n]
        BY <2>5, <4>1
      <4>3. FlattenStep(ss, f, n + 1) = f[n] \o ss[n + 1]
        <5> DEFINE m == n + 1
        <5>1. m # 1 /\ m - 1 = n
          BY <4>1
        <5> HIDE DEF m
        <5>2. FlattenStep(ss, f, m) = f[m - 1] \o ss[m]
          BY <5>1 DEF FlattenStep
        <5>3. f[m - 1] = f[n]
          BY <5>1
        <5>4. FlattenStep(ss, f, m) = f[n] \o ss[m]
          BY <5>2, <5>3
        <5> QED BY <5>4 DEF m
      <4> QED BY <3>2, <3>3, <4>2, <4>3
    <3> QED BY <3>4, <3>5
  <2> HIDE DEF S
  <2>6. N \in S
    BY <1>0, <2>4, <2>5, SetInduction
  <2>7. f[N] = g[N]
    BY <1>0, <1>2, <2>6 DEF S
  <2> QED BY <1>0, <2>3, <2>7
<1> QED BY <1>1, <1>2

(* What FlattenSeq is of no sequence, and of one more. *)
LEMMA FlattenProperties ==
  ASSUME NEW R
  PROVE  /\ FlattenSeq(<<>>) = <<>>
         /\ \A ss \in Seq(Seq(R)) :
              /\ FlattenSeq(ss) \in Seq(R)
              /\ \A s \in Seq(R) : FlattenSeq(Append(ss, s)) = FlattenSeq(ss) \o s
<1>1. FlattenSeq(<<>>) = <<>>
  BY EmptySeq DEF FlattenSeq
<1>2. ASSUME NEW ss \in Seq(Seq(R)) PROVE FlattenSeq(ss) \in Seq(R)
  BY FlattenRuns, FlattenIsRun
<1>3. ASSUME NEW ss \in Seq(Seq(R)), NEW s \in Seq(R)
      PROVE  FlattenSeq(Append(ss, s)) = FlattenSeq(ss) \o s
  <2>1. PICK g : FlattenRun(R, ss, g)
    BY FlattenRuns
  <2> DEFINE t == Append(ss, s)
             N == Len(ss)
             k == [n \in 0..N + 1 |-> IF n <= N THEN g[n] ELSE g[N] \o s]
  <2>2. t \in Seq(Seq(R)) /\ Len(t) = N + 1 /\ N \in Nat /\ t[N + 1] = s
        /\ \A i \in 1..N : t[i] = ss[i]
    BY AppendItem
  <2>3. g \in [0..N -> Seq(R)] /\ g[0] = <<>> /\ \A n \in 1..N : g[n] = g[n - 1] \o ss[n]
    BY <2>1 DEF FlattenRun
  <2>4. FlattenRun(R, t, k)
    <3>1. g[N] \o s \in Seq(R)
      <4>1. g[N] \in Seq(R)
        BY <2>2, <2>3
      <4> QED BY <4>1
    <3>2. k \in [0..N + 1 -> Seq(R)] /\ k[0] = <<>>
      BY <2>2, <2>3, <3>1
    <3>3. ASSUME NEW n \in 1..N + 1 PROVE k[n] = k[n - 1] \o t[n]
      <4>1. n - 1 \in 0..N + 1 /\ n - 1 <= N /\ k[n - 1] = g[n - 1]
        BY <2>2
      <4>2. CASE n <= N
        <5>1. n \in 1..N /\ k[n] = g[n] /\ t[n] = ss[n]
          BY <2>2, <4>2
        <5>2. g[n] = g[n - 1] \o ss[n]
          BY <2>3, <5>1
        <5> HIDE DEF k, t
        <5>3. k[n] = g[n - 1] \o ss[n]
          BY <5>1, <5>2
        <5> QED BY <4>1, <5>1, <5>3
      <4>3. CASE n = N + 1
        <5>1. k[n] = g[N] \o s /\ n - 1 = N
          BY <2>2, <4>3
        <5>2. k[n - 1] = g[N] /\ t[n] = s
          BY <2>2, <4>1, <4>3, <5>1
        <5> HIDE DEF k, t
        <5>3. k[n] = k[n - 1] \o s
          BY <5>1, <5>2
        <5> QED BY <5>2, <5>3
      <4>4. n <= N \/ n = N + 1
        BY <2>2
      <4> HIDE DEF k, t
      <4> QED BY <4>2, <4>3, <4>4
    <3> HIDE DEF k, t
    <3> QED BY <2>2, <3>2, <3>3 DEF FlattenRun
  <2>5. k[N + 1] = g[N] \o s
    BY <2>2
  <2> HIDE DEF k, t
  <2>6. FlattenSeq(t) = k[N + 1]
    <3>1. FlattenSeq(t) = k[Len(t)]
      BY <2>2, <2>4, FlattenIsRun
    <3> QED BY <2>2, <3>1
  <2>7. FlattenSeq(ss) = g[N]
    BY <2>1, FlattenIsRun
  <2> QED BY <2>5, <2>6, <2>7 DEF t
<1> QED BY <1>1, <1>2, <1>3

----------------------------------------
(* Ends of sequences *)

(* A sequence ends with another one when it has its elements at its end. *)
LEMMA EndsWith ==
  ASSUME NEW V, NEW p \in Seq(V), NEW t \in Seq(V)
  PROVE  IsSuffix(p, t) <=> /\ Len(p) <= Len(t)
                            /\ \A i \in 1..Len(p) : p[i] = t[Len(t) - Len(p) + i]
<1> DEFINE rp == Reverse(p)
           rt == Reverse(t)
<1>1. /\ rp \in Seq(V) /\ Len(rp) = Len(p) /\ rt \in Seq(V) /\ Len(rt) = Len(t)
      /\ Len(p) \in Nat /\ Len(t) \in Nat
      /\ \A i \in 1..Len(p) : rp[i] = p[(Len(p) - i) + 1]
      /\ \A i \in 1..Len(t) : rt[i] = t[(Len(t) - i) + 1]
  BY DEF Reverse
<1> HIDE DEF rp, rt
<1>2. IsSuffix(p, t) <=> Len(p) <= Len(t) /\ SubSeq(rp, 1, Len(p)) = SubSeq(rt, 1, Len(p))
  BY <1>1 DEF IsSuffix, IsPrefix, rp, rt
<1>3. SUFFICES ASSUME Len(p) <= Len(t)
               PROVE  SubSeq(rp, 1, Len(p)) = SubSeq(rt, 1, Len(p))
                      <=> \A i \in 1..Len(p) : p[i] = t[Len(t) - Len(p) + i]
  BY <1>2
<1>4. /\ SubSeq(rp, 1, Len(p)) = [i \in 1..Len(p) |-> rp[i]]
      /\ SubSeq(rt, 1, Len(p)) = [i \in 1..Len(p) |-> rt[i]]
  BY <1>1, <1>3
<1>5. SubSeq(rp, 1, Len(p)) = SubSeq(rt, 1, Len(p)) <=> \A i \in 1..Len(p) : rp[i] = rt[i]
  BY <1>4
<1>6. (\A i \in 1..Len(p) : rp[i] = rt[i]) <=> \A i \in 1..Len(p) : p[i] = t[Len(t) - Len(p) + i]
  <2>1. ASSUME \A i \in 1..Len(p) : rp[i] = rt[i], NEW i \in 1..Len(p)
        PROVE  p[i] = t[Len(t) - Len(p) + i]
    <3> DEFINE j == (Len(p) - i) + 1
    <3>1. j \in 1..Len(p) /\ j \in 1..Len(t) /\ (Len(p) - j) + 1 = i
          /\ (Len(t) - j) + 1 = Len(t) - Len(p) + i
      BY <1>1, <1>3
    <3> HIDE DEF j
    <3>2. rp[j] = p[(Len(p) - j) + 1] /\ rt[j] = t[(Len(t) - j) + 1] /\ rp[j] = rt[j]
      BY <1>1, <2>1, <3>1
    <3> QED BY <3>1, <3>2
  <2>2. ASSUME \A i \in 1..Len(p) : p[i] = t[Len(t) - Len(p) + i], NEW i \in 1..Len(p)
        PROVE  rp[i] = rt[i]
    <3> DEFINE j == (Len(p) - i) + 1
    <3>1. j \in 1..Len(p) /\ i \in 1..Len(t) /\ Len(t) - Len(p) + j = (Len(t) - i) + 1
      BY <1>1, <1>3
    <3>2. rp[i] = p[j] /\ rt[i] = t[(Len(t) - i) + 1]
      BY <1>1, <3>1
    <3> HIDE DEF j
    <3>3. p[j] = t[Len(t) - Len(p) + j]
      BY <2>2, <3>1
    <3> QED BY <3>1, <3>2, <3>3
  <2> QED BY <2>1, <2>2
<1> QED BY <1>5, <1>6

(* Ends of a sequence: the whole, the empty one, ends of an end, and the end   *)
(* of one and of another end that is at least as long.                         *)
LEMMA EndsOfEnds ==
  ASSUME NEW V, NEW p \in Seq(V), NEW t \in Seq(V)
  PROVE  /\ IsSuffix(t, t) /\ IsSuffix(<<>>, t)
         /\ IsSuffix(p, t) => Len(p) <= Len(t)
         /\ IsSuffix(p, t) /\ Len(p) = Len(t) => p = t
         /\ \A q \in Seq(V) :
              /\ IsSuffix(q, p) /\ IsSuffix(p, t) => IsSuffix(q, t)
              /\ IsSuffix(q, t) /\ IsSuffix(p, t) /\ Len(q) <= Len(p) => IsSuffix(q, p)
              /\ IsSuffix(q, t) /\ IsSuffix(p, t) /\ Len(q) = Len(p) => q = p
<1>0. <<>> \in Seq(V) /\ Len(<<>>) = 0 /\ Len(p) \in Nat /\ Len(t) \in Nat
  OBVIOUS
<1>1. IsSuffix(t, t)
  <2>1. Len(t) <= Len(t) /\ \A i \in 1..Len(t) : t[i] = t[Len(t) - Len(t) + i]
    BY <1>0
  <2> QED BY <2>1, EndsWith
<1>2. IsSuffix(<<>>, t)
  <2> DEFINE e == <<>>
  <2>1. e \in Seq(V) /\ Len(e) = 0
    BY <1>0
  <2> HIDE DEF e
  <2>2. Len(e) <= Len(t) /\ \A i \in 1..Len(e) : e[i] = t[Len(t) - Len(e) + i]
    BY <1>0, <2>1
  <2>3. IsSuffix(e, t)
    BY <2>1, <2>2, EndsWith
  <2> QED BY <2>3 DEF e
<1>3. IsSuffix(p, t) => Len(p) <= Len(t)
  BY EndsWith
<1>4. ASSUME NEW q \in Seq(V), IsSuffix(q, p), IsSuffix(p, t) PROVE IsSuffix(q, t)
  <2>1. Len(q) \in Nat /\ Len(q) <= Len(p) /\ Len(p) <= Len(t)
    BY <1>4, EndsWith
  <2>2. ASSUME NEW i \in 1..Len(q) PROVE q[i] = t[Len(t) - Len(q) + i]
    <3>1. q[i] = p[Len(p) - Len(q) + i]
      BY <1>4, EndsWith
    <3> DEFINE j == Len(p) - Len(q) + i
    <3>2. j \in 1..Len(p) /\ Len(t) - Len(p) + j = Len(t) - Len(q) + i
      BY <1>0, <2>1
    <3> HIDE DEF j
    <3>3. p[j] = t[Len(t) - Len(p) + j]
      BY <1>4, <3>2, EndsWith
    <3> QED BY <3>1, <3>2, <3>3 DEF j
  <2>3. Len(q) <= Len(t)
    BY <1>0, <2>1
  <2> QED BY <2>2, <2>3, EndsWith
<1>5. ASSUME NEW q \in Seq(V), IsSuffix(q, t), IsSuffix(p, t), Len(q) <= Len(p)
      PROVE  IsSuffix(q, p)
  <2>1. Len(q) \in Nat /\ Len(p) <= Len(t)
    BY <1>5, EndsWith
  <2>2. ASSUME NEW i \in 1..Len(q) PROVE q[i] = p[Len(p) - Len(q) + i]
    <3>1. q[i] = t[Len(t) - Len(q) + i]
      BY <1>5, EndsWith
    <3> DEFINE j == Len(p) - Len(q) + i
    <3>2. j \in 1..Len(p) /\ Len(t) - Len(p) + j = Len(t) - Len(q) + i
      BY <1>0, <1>5, <2>1
    <3> HIDE DEF j
    <3>3. p[j] = t[Len(t) - Len(p) + j]
      BY <1>5, <3>2, EndsWith
    <3> QED BY <3>1, <3>2, <3>3 DEF j
  <2> QED BY <1>5, <2>2, EndsWith
<1>6. ASSUME NEW q \in Seq(V), NEW u \in Seq(V), IsSuffix(q, u), Len(q) = Len(u) PROVE q = u
  <2>1. \A i \in 1..Len(q) : q[i] = u[i]
    <3>1. ASSUME NEW i \in 1..Len(q) PROVE q[i] = u[i]
      <4>1. q[i] = u[Len(u) - Len(q) + i] /\ Len(u) \in Nat
        BY <1>6, EndsWith
      <4>2. Len(u) - Len(q) + i = i
        BY <1>6, <4>1
      <4> QED BY <4>1, <4>2
    <3> QED BY <3>1
  <2> QED BY <1>6, <2>1, SeqEqual
<1>7. ASSUME NEW q \in Seq(V), IsSuffix(q, t), IsSuffix(p, t), Len(q) = Len(p) PROVE q = p
  <2>1. IsSuffix(q, p)
    <3>1. Len(q) <= Len(p)
      BY <1>0, <1>7
    <3> QED BY <1>5, <1>7, <3>1
  <2> QED BY <1>6, <1>7, <2>1
<1> QED BY <1>1, <1>2, <1>3, <1>4, <1>5, <1>6, <1>7

(* Ends of a sequence and one more element. *)
LEMMA EndsOfAppend ==
  ASSUME NEW V, NEW t \in Seq(V), NEW x \in V
  PROVE  /\ \A p \in Seq(V) : IsSuffix(Append(p, x), Append(t, x)) <=> IsSuffix(p, t)
         /\ \A c \in Seq(V) : IsSuffix(c, Append(t, x)) =>
              \/ c = <<>>
              \/ \E p \in Seq(V) : c = Append(p, x) /\ IsSuffix(p, t)
<1>0. Append(t, x) \in Seq(V) /\ Len(Append(t, x)) = Len(t) + 1 /\ Len(t) \in Nat
      /\ Append(t, x)[Len(t) + 1] = x /\ \A i \in 1..Len(t) : Append(t, x)[i] = t[i]
  BY AppendItem
<1>1. ASSUME NEW p \in Seq(V), NEW y \in V
      PROVE  IsSuffix(Append(p, y), Append(t, x)) <=> y = x /\ IsSuffix(p, t)
  <2> DEFINE c == Append(p, y)
             u == Append(t, x)
  <2>1. c \in Seq(V) /\ Len(c) = Len(p) + 1 /\ Len(p) \in Nat /\ c[Len(p) + 1] = y
        /\ \A i \in 1..Len(p) : c[i] = p[i]
    BY AppendItem
  <2> HIDE DEF c, u
  <2>2. u \in Seq(V) /\ Len(u) = Len(t) + 1 /\ u[Len(t) + 1] = x /\ \A i \in 1..Len(t) : u[i] = t[i]
    BY <1>0 DEF u
  <2>3. IsSuffix(c, u) <=> Len(c) <= Len(u) /\ \A i \in 1..Len(c) : c[i] = u[Len(u) - Len(c) + i]
    BY <2>1, <2>2, EndsWith
  <2>4. IsSuffix(p, t) <=> Len(p) <= Len(t) /\ \A i \in 1..Len(p) : p[i] = t[Len(t) - Len(p) + i]
    BY EndsWith
  <2>5. ASSUME IsSuffix(c, u) PROVE y = x /\ IsSuffix(p, t)
    <3>1. Len(p) <= Len(t)
      BY <1>0, <2>1, <2>2, <2>3, <2>5
    <3>2. Len(u) - Len(c) + (Len(p) + 1) = Len(t) + 1 /\ Len(p) + 1 \in 1..Len(c)
      BY <1>0, <2>1, <2>2
    <3>3. y = x
      BY <2>1, <2>2, <2>3, <2>5, <3>2
    <3>4. ASSUME NEW i \in 1..Len(p) PROVE p[i] = t[Len(t) - Len(p) + i]
      <4> DEFINE j == Len(t) - Len(p) + i
      <4>1. i \in 1..Len(c) /\ Len(u) - Len(c) + i = j /\ j \in 1..Len(t)
        BY <1>0, <2>1, <2>2, <3>1
      <4> HIDE DEF j
      <4>2. c[i] = u[j] /\ c[i] = p[i] /\ u[j] = t[j]
        BY <2>1, <2>2, <2>3, <2>5, <4>1
      <4> QED BY <4>2 DEF j
    <3> QED BY <2>4, <3>1, <3>3, <3>4
  <2>6. ASSUME y = x, IsSuffix(p, t) PROVE IsSuffix(c, u)
    <3>1. Len(p) <= Len(t) /\ Len(c) <= Len(u)
      BY <1>0, <2>1, <2>2, <2>4, <2>6
    <3>2. ASSUME NEW i \in 1..Len(c) PROVE c[i] = u[Len(u) - Len(c) + i]
      <4>1. CASE i = Len(p) + 1
        <5>1. Len(u) - Len(c) + i = Len(t) + 1
          BY <1>0, <2>1, <2>2, <4>1
        <5> QED BY <2>1, <2>2, <2>6, <4>1, <5>1
      <4>2. CASE i # Len(p) + 1
        <5> DEFINE j == Len(t) - Len(p) + i
        <5>1. i \in 1..Len(p) /\ Len(u) - Len(c) + i = j /\ j \in 1..Len(t)
          BY <1>0, <2>1, <2>2, <3>1, <4>2
        <5>2. p[i] = t[j]
          BY <2>4, <2>6, <5>1
        <5> HIDE DEF j
        <5> QED BY <2>1, <2>2, <5>1, <5>2
      <4> QED BY <4>1, <4>2
    <3> QED BY <2>3, <3>1, <3>2
  <2> QED BY <2>5, <2>6 DEF c, u
<1>2. ASSUME NEW c \in Seq(V), IsSuffix(c, Append(t, x)), c # <<>>
      PROVE  \E p \in Seq(V) : c = Append(p, x) /\ IsSuffix(p, t)
  <2>1. PICK p \in Seq(V), y \in V : c = Append(p, y)
    BY <1>2, SequenceEmptyOrAppend
  <2>2. y = x /\ IsSuffix(p, t)
    BY <1>1, <1>2, <2>1
  <2> QED BY <2>1, <2>2
<1> QED BY <1>1, <1>2

(* A part of a sequence. *)
LEMMA PartOf ==
  ASSUME NEW V, NEW s \in Seq(V), NEW a \in Nat, NEW b \in Nat, 1 <= a, a <= b + 1, b <= Len(s)
  PROVE  /\ SubSeq(s, a, b) \in Seq(V) /\ Len(SubSeq(s, a, b)) = (b - a) + 1
         /\ \A i \in 1..(b - a) + 1 : SubSeq(s, a, b)[i] = s[a + i - 1]
         /\ b < Len(s) => SubSeq(s, a, b + 1) = Append(SubSeq(s, a, b), s[b + 1])
<1> DEFINE u == SubSeq(s, a, b)
           L == (b - a) + 1
<1>0. L \in Nat /\ Len(s) \in Nat
  OBVIOUS
<1>1. \A i \in a..b : s[i] \in V
  OBVIOUS
<1>2. u \in Seq(V) /\ Len(u) = L /\ \A i \in 1..L : u[i] = s[a + i - 1]
  <2>1. a \in Int /\ b \in Int
    OBVIOUS
  <2>2. u \in Seq(V) /\ Len(u) = (IF a <= b THEN b - a + 1 ELSE 0)
        /\ \A i \in 1..b - a + 1 : u[i] = s[a + i - 1]
    BY <1>1, <2>1, SubSeqProperties
  <2>3. b - a + 1 = L /\ (~(a <= b) => L = 0)
    OBVIOUS
  <2> HIDE DEF u, L
  <2> QED BY <1>0, <2>2, <2>3
<1>3. ASSUME b < Len(s) PROVE SubSeq(s, a, b + 1) = Append(u, s[b + 1])
  <2> DEFINE w == SubSeq(s, a, b + 1)
             c == b + 1
             x == s[b + 1]
             v == Append(u, x)
  <2>1. c \in Int /\ a \in Int /\ c - a + 1 = L + 1 /\ a <= c /\ x \in V
        /\ \A i \in a..c : s[i] \in V
    BY <1>3
  <2>2. w = SubSeq(s, a, c)
    OBVIOUS
  <2> HIDE DEF w, c
  <2>3. w \in Seq(V) /\ Len(w) = L + 1 /\ \A i \in 1..L + 1 : w[i] = s[a + i - 1]
    <3>1. w \in Seq(V) /\ Len(w) = (IF a <= c THEN c - a + 1 ELSE 0)
          /\ \A i \in 1..c - a + 1 : w[i] = s[a + i - 1]
      BY <2>1, <2>2, SubSeqProperties
    <3> HIDE DEF L
    <3> QED BY <2>1, <3>1
  <2> HIDE DEF u
  <2>4. v \in Seq(V) /\ Len(v) = L + 1 /\ v[L + 1] = x /\ \A i \in 1..L : v[i] = u[i]
    <3> HIDE DEF L, x
    <3> QED BY <1>2, <2>1, AppendItem
  <2>5. a + (L + 1) - 1 = b + 1
    OBVIOUS
  <2> HIDE DEF v
  <2>6. ASSUME NEW i \in 1..L + 1 PROVE w[i] = v[i]
    <3>1. CASE i = L + 1
      <4>1. w[i] = s[a + (L + 1) - 1]
        BY <1>0, <2>3, <3>1
      <4>2. w[i] = x
        BY <2>5, <4>1
      <4> QED BY <2>4, <3>1, <4>2
    <3>2. CASE i # L + 1
      <4>1. i \in 1..L
        BY <1>0, <3>2
      <4> HIDE DEF L
      <4> QED BY <1>2, <2>3, <2>4, <4>1
    <3> QED BY <3>1, <3>2
  <2> HIDE DEF L
  <2>7. w = v
    BY <2>3, <2>4, <2>6, SeqEqual
  <2> QED BY <2>7 DEF w, v, x
<1> QED BY <1>2, <1>3

----------------------------------------
(* The trie *)

Tree(V, N) ==
  /\ N \subseteq Seq(V) /\ <<>> \in N
  /\ \A p \in Seq(V), x \in V : Append(p, x) \in N => p \in N

LongestEnd(N, p, t) ==
  p \in N /\ IsSuffix(p, t) /\ \A q \in N : IsSuffix(q, t) => Len(q) <= Len(p)

FailOf(N, p, f) ==
  /\ f \in N
  /\ p = <<>> => f = <<>>
  /\ p # <<>> => /\ IsSuffix(f, p) /\ Len(f) < Len(p)
                 /\ \A q \in N : IsSuffix(q, p) /\ Len(q) < Len(p) => Len(q) <= Len(f)

FailUpTo(N, fail, m) ==
  /\ DOMAIN fail = {p \in N : Len(p) <= m}
  /\ \A p \in DOMAIN fail : FailOf(N, p, fail[p])

(* Of sequences no longer than a bound one is the longest. *)
LEMMA LongestOf ==
  ASSUME NEW V, NEW S \in SUBSET Seq(V), S # {}, NEW b \in Nat, \A q \in S : Len(q) <= b
  PROVE  \E p \in S : \A q \in S : Len(q) <= Len(p)
<1> DEFINE L == {Len(q) : q \in S}
<1>1. L \in SUBSET Nat /\ L # {} /\ \A n \in L : n <= b
  <2>1. \A q \in S : Len(q) \in Nat /\ Len(q) <= b
    OBVIOUS
  <2> QED BY <2>1
<1>2. \A q \in S : Len(q) \in L
  OBVIOUS
<1> HIDE DEF L
<1>3. Max(L) \in L /\ \A n \in L : Max(L) >= n
  BY <1>1, MaxIsGreatest
<1>4. PICK p \in S : Max(L) = Len(p)
  BY <1>3 DEF L
<1>5. ASSUME NEW q \in S PROVE Len(q) <= Len(p)
  <2>1. Len(q) \in L /\ Len(q) \in Nat /\ Len(p) \in Nat
    BY <1>2
  <2>2. Max(L) >= Len(q)
    BY <1>3, <2>1
  <2> QED BY <1>4, <2>1, <2>2
<1> QED BY <1>5

ClimbStep(N, fail, x, up, n) ==
  IF n = <<>> \/ Append(n, x) \in N THEN n ELSE up[fail[n]]

Climb(N, fail, x) ==
  CHOOSE up : up = [n \in DOMAIN fail |-> ClimbStep(N, fail, x, up, n)]

Climbed(N, n, x, q) ==
  /\ q \in N /\ IsSuffix(q, n) /\ (q = <<>> \/ Append(q, x) \in N)
  /\ \A r \in N : IsSuffix(r, n) /\ Append(r, x) \in N => Len(r) <= Len(q)

(* The longest end of a node that has a child for a token, if there is one. *)
LEMMA ClimbedExists ==
  ASSUME NEW V, NEW N, Tree(V, N), NEW n \in N, NEW x \in V
  PROVE  \E q \in N : Climbed(N, n, x, q)
<1>0. N \subseteq Seq(V) /\ <<>> \in N /\ n \in Seq(V) /\ Len(n) \in Nat
  BY DEF Tree
<1> DEFINE S == {q \in N : IsSuffix(q, n) /\ Append(q, x) \in N}
<1>1. CASE S = {}
  <2>1. IsSuffix(<<>>, n)
    BY <1>0, EndsOfEnds
  <2> QED BY <1>0, <1>1, <2>1 DEF Climbed
<1>2. CASE S # {}
  <2>1. S \in SUBSET Seq(V) /\ \A q \in S : Len(q) <= Len(n)
    BY <1>0, EndsOfEnds
  <2>2. \E p \in S : \A q \in S : Len(q) <= Len(p)
    <3> HIDE DEF S
    <3> QED BY <1>0, <1>2, <2>1, LongestOf
  <2> QED BY <2>2 DEF Climbed
<1> QED BY <1>1, <1>2

(* There is only one. *)
LEMMA ClimbedOnce ==
  ASSUME NEW V, NEW N, Tree(V, N), NEW n \in N, NEW x \in V, NEW p, NEW q,
         Climbed(N, n, x, p), Climbed(N, n, x, q)
  PROVE  p = q
<1>0. N \subseteq Seq(V) /\ <<>> \in N /\ n \in Seq(V) /\ Len(n) \in Nat
      /\ p \in N /\ q \in N /\ p \in Seq(V) /\ q \in Seq(V) /\ Len(p) \in Nat /\ Len(q) \in Nat
  BY DEF Tree, Climbed
<1>1. Len(<<>>) = 0
  OBVIOUS
<1>2. Len(p) <= Len(q)
  <2>1. CASE p = <<>>
    BY <1>0, <1>1, <2>1
  <2>2. CASE p # <<>>
    BY <1>0, <2>2 DEF Climbed
  <2> QED BY <2>1, <2>2
<1>3. Len(q) <= Len(p)
  <2>1. CASE q = <<>>
    BY <1>0, <1>1, <2>1
  <2>2. CASE q # <<>>
    BY <1>0, <2>2 DEF Climbed
  <2> QED BY <2>1, <2>2
<1>4. Len(p) = Len(q) /\ IsSuffix(p, n) /\ IsSuffix(q, n)
  BY <1>0, <1>2, <1>3 DEF Climbed
<1> QED BY <1>0, <1>4, EndsOfEnds

(* A node without the child is where its failure link is. *)
LEMMA ClimbedLink ==
  ASSUME NEW V, NEW N, Tree(V, N), NEW n \in N, NEW x \in V, NEW f, FailOf(N, n, f),
         n # <<>>, Append(n, x) \notin N, NEW q, Climbed(N, f, x, q)
  PROVE  Climbed(N, n, x, q)
<1>0. /\ N \subseteq Seq(V) /\ n \in Seq(V) /\ Len(n) \in Nat /\ f \in N /\ f \in Seq(V)
      /\ q \in N /\ q \in Seq(V) /\ IsSuffix(q, f) /\ IsSuffix(f, n) /\ Len(f) < Len(n)
      /\ Len(f) \in Nat /\ Len(q) \in Nat
  BY DEF Tree, Climbed, FailOf
<1>1. IsSuffix(q, n)
  BY <1>0, EndsOfEnds
<1>2. ASSUME NEW r \in N, IsSuffix(r, n), Append(r, x) \in N PROVE Len(r) <= Len(q)
  <2>1. r \in Seq(V) /\ Len(r) \in Nat /\ r # n /\ Len(r) <= Len(n)
    BY <1>0, <1>2, EndsOfEnds
  <2>2. Len(r) # Len(n)
    BY <1>0, <1>2, <2>1, EndsOfEnds
  <2>3. Len(r) <= Len(f)
    BY <1>0, <1>2, <2>1, <2>2 DEF FailOf
  <2>4. IsSuffix(r, f)
    BY <1>0, <1>2, <2>1, <2>3, EndsOfEnds
  <2> QED BY <1>2, <2>4 DEF Climbed
<1> QED BY <1>0, <1>1, <1>2 DEF Climbed

(* The climb up the failure links ends there. *)
LEMMA ClimbEnds ==
  ASSUME NEW V, NEW N, Tree(V, N), NEW fail, NEW m \in Nat, FailUpTo(N, fail, m), NEW x \in V
  PROVE  \A n \in DOMAIN fail : Climbed(N, n, x, Climb(N, fail, x)[n])
<1> DEFINE F == DOMAIN fail
           w == [n \in F |-> CHOOSE q \in N : Climbed(N, n, x, q)]
           u == Climb(N, fail, x)
<1>0. /\ N \subseteq Seq(V) /\ F = {p \in N : Len(p) <= m}
      /\ \A p \in F : FailOf(N, p, fail[p])
  BY DEF Tree, FailUpTo
<1>1. ASSUME NEW n \in F PROVE w[n] \in N /\ Climbed(N, n, x, w[n])
  <2>1. \E q \in N : Climbed(N, n, x, q)
    BY <1>0, ClimbedExists
  <2> QED BY <2>1
<1> HIDE DEF w
<1>2. ASSUME NEW n \in F, n # <<>>
      PROVE  fail[n] \in F /\ Len(fail[n]) < Len(n) /\ Len(n) \in Nat /\ Len(fail[n]) \in Nat
  <2>1. fail[n] \in N /\ Len(fail[n]) < Len(n) /\ n \in Seq(V) /\ Len(n) <= m
    BY <1>0, <1>2 DEF FailOf
  <2>2. Len(n) \in Nat /\ Len(fail[n]) \in Nat
    BY <1>0, <2>1
  <2> QED BY <1>0, <2>1, <2>2
<1>3. ASSUME NEW n \in F, n = <<>> \/ Append(n, x) \in N PROVE Climbed(N, n, x, n)
  <2>1. n \in Seq(V) /\ n \in N
    BY <1>0
  <2>2. IsSuffix(n, n) /\ \A r \in N : IsSuffix(r, n) => Len(r) <= Len(n)
    BY <1>0, <2>1, EndsOfEnds
  <2> QED BY <1>3, <2>1, <2>2 DEF Climbed
<1>4. w = [n \in F |-> ClimbStep(N, fail, x, w, n)]
  <2>1. ASSUME NEW n \in F PROVE w[n] = ClimbStep(N, fail, x, w, n)
    <3>1. CASE n = <<>> \/ Append(n, x) \in N
      <4>1. w[n] = n
        BY <1>0, <1>1, <1>3, <3>1, ClimbedOnce
      <4> QED BY <3>1, <4>1 DEF ClimbStep
    <3>2. CASE ~(n = <<>> \/ Append(n, x) \in N)
      <4>1. fail[n] \in F
        BY <1>2, <3>2
      <4>2. Climbed(N, fail[n], x, w[fail[n]])
        BY <1>1, <4>1
      <4>3. Climbed(N, n, x, w[fail[n]])
        BY <1>0, <3>2, <4>2, ClimbedLink
      <4>4. w[n] = w[fail[n]]
        BY <1>0, <1>1, <4>3, ClimbedOnce
      <4> QED BY <3>2, <4>4 DEF ClimbStep
    <3> QED BY <3>1, <3>2
  <2>2. w = [n \in F |-> w[n]]
    BY DEF w
  <2> QED BY <2>1, <2>2
<1>5. u = [n \in F |-> ClimbStep(N, fail, x, u, n)]
  <2>1. \E up : up = [n \in F |-> ClimbStep(N, fail, x, up, n)]
    BY <1>4
  <2> QED BY <2>1 DEF Climb
<1> HIDE DEF u
<1> DEFINE S == {k \in Nat : \A n \in F : Len(n) <= k => Climbed(N, n, x, u[n])}
<1>6. ASSUME NEW k \in Nat, NEW n \in F, Len(n) <= k,
             \A p \in F : Len(p) < k => Climbed(N, p, x, u[p])
      PROVE  Climbed(N, n, x, u[n])
  <2>1. u[n] = ClimbStep(N, fail, x, u, n)
    BY <1>5
  <2>2. CASE n = <<>> \/ Append(n, x) \in N
    BY <1>3, <2>1, <2>2 DEF ClimbStep
  <2>3. CASE ~(n = <<>> \/ Append(n, x) \in N)
    <3>1. u[n] = u[fail[n]]
      BY <2>1, <2>3 DEF ClimbStep
    <3>2. fail[n] \in F /\ Len(fail[n]) < k
      BY <1>2, <1>6, <2>3
    <3>3. Climbed(N, fail[n], x, u[fail[n]])
      BY <1>6, <3>2
    <3>4. Climbed(N, n, x, u[fail[n]])
      BY <1>0, <2>3, <3>3, ClimbedLink
    <3> QED BY <3>1, <3>4
  <2> QED BY <2>2, <2>3
<1>7. 0 \in S
  <2>1. \A p \in F : Len(p) \in Nat
    BY <1>0
  <2>2. \A p \in F : ~(Len(p) < 0)
    BY <2>1
  <2> QED BY <1>6, <2>2
<1>8. ASSUME NEW k \in Nat, k \in S PROVE k + 1 \in S
  <2>1. ASSUME NEW p \in F, Len(p) < k + 1 PROVE Climbed(N, p, x, u[p])
    <3>1. Len(p) \in Nat
      BY <1>0
    <3>2. Len(p) <= k
      BY <2>1, <3>1
    <3> QED BY <1>8, <3>2
  <2>2. k + 1 \in Nat
    OBVIOUS
  <2>3. ASSUME NEW n \in F, Len(n) <= k + 1 PROVE Climbed(N, n, x, u[n])
    BY <1>6, <2>1, <2>2, <2>3
  <2> QED BY <2>2, <2>3
<1> HIDE DEF S
<1>9. m \in S
  BY <1>7, <1>8, SetInduction
<1>10. \A n \in F : Len(n) <= m
  BY <1>0
<1> QED BY <1>9, <1>10 DEF S, u

(* _step_trie: the longest node that ends the node and the token. *)
LEMMA ChildIsLongest ==
  ASSUME NEW V, NEW N, Tree(V, N), NEW fail, NEW m \in Nat, FailUpTo(N, fail, m), NEW x \in V,
         NEW n \in DOMAIN fail
  PROVE  LongestEnd(N, Child(N, fail, n, x), Append(n, x))
<1> DEFINE q == Climb(N, fail, x)[n]
<1>1. Child(N, fail, n, x) = IF Append(q, x) \in N THEN Append(q, x) ELSE <<>>
  BY DEF Child, Climb, ClimbStep
<1>2. Climbed(N, n, x, q)
  BY ClimbEnds
<1> HIDE DEF q
<1>3. /\ N \subseteq Seq(V) /\ <<>> \in N /\ n \in Seq(V) /\ n \in N /\ q \in N /\ q \in Seq(V)
      /\ IsSuffix(q, n) /\ Append(n, x) \in Seq(V) /\ Append(q, x) \in Seq(V)
      /\ Len(Append(q, x)) = Len(q) + 1 /\ Len(q) \in Nat /\ Len(<<>>) = 0
  BY <1>2, AppendItem DEF Tree, Climbed, FailUpTo
<1>4. ASSUME NEW r \in N, IsSuffix(r, Append(n, x))
      PROVE  \/ r = <<>>
             \/ \E p \in N : r = Append(p, x) /\ IsSuffix(p, n) /\ Len(p) <= Len(q)
                             /\ Len(r) = Len(p) + 1
  <2>1. SUFFICES ASSUME r # <<>>
                 PROVE  \E p \in N : r = Append(p, x) /\ IsSuffix(p, n) /\ Len(p) <= Len(q)
                                     /\ Len(r) = Len(p) + 1
    OBVIOUS
  <2>2. PICK p \in Seq(V) : r = Append(p, x) /\ IsSuffix(p, n)
    BY <1>3, <1>4, <2>1, EndsOfAppend
  <2>3. p \in N
    BY <2>2 DEF Tree
  <2>4. Len(p) <= Len(q)
    BY <1>2, <2>2, <2>3 DEF Climbed
  <2>5. Len(r) = Len(p) + 1
    BY <2>2, AppendItem
  <2> QED BY <2>2, <2>3, <2>4, <2>5
<1>5. CASE Append(q, x) \in N
  <2>1. IsSuffix(Append(q, x), Append(n, x))
    BY <1>3, EndsOfAppend
  <2>2. ASSUME NEW r \in N, IsSuffix(r, Append(n, x)) PROVE Len(r) <= Len(q) + 1
    <3>1. CASE r = <<>>
      BY <1>3, <3>1
    <3>2. CASE r # <<>>
      <4>1. PICK p \in N : Len(p) <= Len(q) /\ Len(r) = Len(p) + 1
        BY <1>4, <2>2, <3>2
      <4>2. Len(p) \in Nat
        BY <1>3
      <4> QED BY <1>3, <4>1, <4>2
    <3> QED BY <3>1, <3>2
  <2> QED BY <1>1, <1>3, <1>5, <2>1, <2>2 DEF LongestEnd
<1>6. CASE Append(q, x) \notin N
  <2>1. q = <<>>
    BY <1>2, <1>6 DEF Climbed
  <2>2. ASSUME NEW r \in N, IsSuffix(r, Append(n, x)) PROVE r = <<>>
    <3>1. SUFFICES ASSUME r # <<>> PROVE FALSE
      OBVIOUS
    <3>2. PICK p \in N : r = Append(p, x) /\ IsSuffix(p, n) /\ Len(p) <= Len(q)
      BY <1>4, <2>2, <3>1
    <3>3. p \in Seq(V) /\ Len(p) = 0
      BY <1>3, <2>1, <3>2
    <3>4. p = q
      BY <2>1, <3>3, EmptySeq
    <3> QED BY <1>6, <3>2, <3>4
  <2>3. IsSuffix(<<>>, Append(n, x))
    BY <1>3, EndsOfEnds
  <2>4. Len(<<>>) <= Len(<<>>)
    BY <1>3
  <2> QED BY <1>1, <1>3, <1>6, <2>2, <2>3, <2>4 DEF LongestEnd
<1> QED BY <1>5, <1>6

TrieOf(V, X) == X \subseteq Seq(V) \ {<<>>} /\ X # {} /\ IsFiniteSet(X)

(* The lengths of finitely many sequences are bounded. *)
LEMMA LengthsBounded ==
  ASSUME NEW V, NEW X \in SUBSET Seq(V), IsFiniteSet(X)
  PROVE  \E b \in Nat : \A y \in X : Len(y) <= b
<1>1. PICK n \in Nat : ExistsSurjection(1..n, X)
  BY FS_NatSurjection
<1>2. PICK f \in [1..n -> X] : \A y \in X : \E i \in 1..n : f[i] = y
  BY <1>1 DEF ExistsSurjection, Surjection
<1> DEFINE S == {k \in Nat : \E b \in Nat : \A i \in 1..n : i <= k => Len(f[i]) <= b}
<1>3. 0 \in S
  BY <1>1
<1>4. ASSUME NEW k \in Nat, k \in S PROVE k + 1 \in S
  <2>1. PICK b \in Nat : \A i \in 1..n : i <= k => Len(f[i]) <= b
    BY <1>4
  <2>2. CASE k + 1 \in 1..n
    <3>1. f[k + 1] \in Seq(V) /\ Len(f[k + 1]) \in Nat
      BY <1>2, <2>2
    <3> DEFINE c == b + Len(f[k + 1])
    <3>2. c \in Nat /\ b <= c /\ Len(f[k + 1]) <= c
      BY <3>1
    <3>3. ASSUME NEW i \in 1..n, i <= k + 1 PROVE Len(f[i]) <= c
      <4>1. CASE i = k + 1
        BY <3>2, <4>1
      <4>2. CASE i # k + 1
        <5>1. i <= k /\ f[i] \in Seq(V)
          BY <3>3, <4>2
        <5>2. Len(f[i]) <= b /\ Len(f[i]) \in Nat
          BY <2>1, <5>1
        <5> HIDE DEF c
        <5> QED BY <3>2, <5>2
      <4> QED BY <4>1, <4>2
    <3> HIDE DEF c
    <3>4. k + 1 \in Nat
      BY <1>4
    <3> QED BY <3>2, <3>3, <3>4
  <2>3. CASE k + 1 \notin 1..n
    <3>1. \A i \in 1..n : i <= k + 1 => i <= k
      BY <2>3
    <3>2. \A i \in 1..n : i <= k + 1 => Len(f[i]) <= b
      BY <2>1, <3>1
    <3> QED BY <1>4, <3>2
  <2> QED BY <2>2, <2>3
<1> HIDE DEF S
<1>5. n \in S
  BY <1>3, <1>4, SetInduction
<1>6. PICK b \in Nat : \A i \in 1..n : i <= n => Len(f[i]) <= b
  BY <1>5 DEF S
<1>7. ASSUME NEW y \in X PROVE Len(y) <= b
  <2>1. PICK i \in 1..n : f[i] = y
    BY <1>2
  <2>2. i <= n
    OBVIOUS
  <2> QED BY <1>6, <2>1, <2>2
<1> QED BY <1>7

(* The nodes of the trie of finitely many sequences. *)
LEMMA NodesTree ==
  ASSUME NEW V, NEW X, TrieOf(V, X)
  PROVE  /\ Tree(V, Nodes(X)) /\ X \subseteq Nodes(X)
         /\ Depth(X) \in Nat /\ \A p \in Nodes(X) : Len(p) <= Depth(X)
         /\ \A y \in X : Len(y) <= Depth(X)
         /\ \E y \in X : Len(y) = Depth(X)
<1> DEFINE N == Nodes(X)
<1>0. X \subseteq Seq(V) /\ X # {} /\ \A y \in X : Len(y) \in Nat
  BY DEF TrieOf
<1>1. Depth(X) \in Nat /\ (\A y \in X : Len(y) <= Depth(X)) /\ \E y \in X : Len(y) = Depth(X)
  <2> DEFINE L == {Len(y) : y \in X}
  <2>1. PICK b \in Nat : \A y \in X : Len(y) <= b
    BY <1>0, LengthsBounded DEF TrieOf
  <2>2. L \in SUBSET Nat /\ L # {} /\ \A k \in L : k <= b
    BY <1>0, <2>1
  <2>3. Max(L) \in L /\ \A k \in L : Max(L) >= k
    <3> HIDE DEF L
    <3> QED BY <2>2, MaxIsGreatest
  <2>4. Depth(X) = Max(L)
    BY DEF Depth
  <2>5. \A y \in X : Len(y) \in L
    OBVIOUS
  <2>6. \E y \in X : Len(y) = Max(L)
    BY <2>3
  <2>7. L \subseteq Nat
    BY <2>2
  <2> HIDE DEF L
  <2> QED BY <2>3, <2>4, <2>5, <2>6, <2>7
<1>2. ASSUME NEW p PROVE p \in N <=> \E y \in X, n \in Nat : n <= Len(y) /\ p = SubSeq(y, 1, n)
  <2>1. \A y \in X : \A n : n \in 0..Len(y) <=> n \in Nat /\ n <= Len(y)
    BY <1>0
  <2> QED BY <2>1 DEF Nodes
<1> HIDE DEF N
<1>3. ASSUME NEW y \in X, NEW n \in Nat, n <= Len(y)
      PROVE  SubSeq(y, 1, n) \in Seq(V) /\ Len(SubSeq(y, 1, n)) = n
             /\ \A i \in 1..n : SubSeq(y, 1, n)[i] = y[i]
  <2>1. y \in Seq(V)
    BY <1>0
  <2>2. \A i \in 1..n : y[i] \in V
    BY <1>3, <2>1
  <2> QED BY <1>3, <2>1, <2>2
<1>4. \A p \in N : p \in Seq(V) /\ Len(p) <= Depth(X)
  <2>1. ASSUME NEW p \in N PROVE p \in Seq(V) /\ Len(p) <= Depth(X)
    <3>1. PICK y \in X, n \in Nat : n <= Len(y) /\ p = SubSeq(y, 1, n)
      BY <1>2
    <3>2. p \in Seq(V) /\ Len(p) = n
      BY <1>3, <3>1
    <3> QED BY <1>0, <1>1, <3>1, <3>2
  <2> QED BY <2>1
<1>5. <<>> \in N
  <2>1. PICK y \in X : TRUE
    BY <1>0
  <2>2. 0 <= Len(y) /\ 0 \in Nat
    BY <1>0
  <2>3. SubSeq(y, 1, 0) = <<>>
    BY <1>3, <2>2, EmptySeq
  <2> QED BY <1>2, <2>2, <2>3
<1>6. ASSUME NEW p \in Seq(V), NEW x \in V, Append(p, x) \in N PROVE p \in N
  <2>1. PICK y \in X, n \in Nat : n <= Len(y) /\ Append(p, x) = SubSeq(y, 1, n)
    BY <1>2, <1>6
  <2> DEFINE k == Len(p)
  <2>2. k \in Nat /\ n = k + 1
    BY <1>3, <2>1, AppendItem
  <2>3. k <= Len(y)
    BY <1>0, <2>1, <2>2
  <2>4. /\ SubSeq(y, 1, k) \in Seq(V) /\ Len(SubSeq(y, 1, k)) = k
        /\ \A i \in 1..k : SubSeq(y, 1, k)[i] = y[i]
    <3> HIDE DEF k
    <3> QED BY <1>3, <2>2, <2>3
  <2>5. ASSUME NEW i \in 1..k PROVE SubSeq(y, 1, k)[i] = p[i]
    <3>1. i \in 1..n
      BY <2>2
    <3>2. Append(p, x)[i] = y[i]
      BY <1>3, <2>1, <3>1
    <3> QED BY <2>4, <3>2, AppendItem
  <2>6. SubSeq(y, 1, k) = p
    BY <2>4, <2>5, SeqEqual
  <2> QED BY <1>2, <2>2, <2>3, <2>6
<1>7. X \subseteq N
  <2>1. ASSUME NEW y \in X PROVE y \in N
    <3>1. SubSeq(y, 1, Len(y)) = y
      BY <1>0, SubSeqFull
    <3>2. Len(y) \in Nat /\ Len(y) <= Len(y)
      BY <1>0
    <3> QED BY <1>2, <3>1, <3>2
  <2> QED BY <2>1
<1> QED BY <1>1, <1>4, <1>5, <1>6, <1>7 DEF Tree, N

(* The failure link of a node one level further down. *)
LEMMA FailLinkOf ==
  ASSUME NEW V, NEW N, Tree(V, N), NEW fail, NEW m \in Nat, FailUpTo(N, fail, m),
         NEW p \in N, Len(p) = m + 1
  PROVE  FailOf(N, p, FailLink(N, fail, p))
<1>0. N \subseteq Seq(V) /\ <<>> \in N /\ p \in Seq(V) /\ p # <<>> /\ Len(<<>>) = 0
  BY DEF Tree
<1>1. CASE Len(p) = 1
  <2>1. FailLink(N, fail, p) = <<>>
    BY <1>1 DEF FailLink
  <2>2. IsSuffix(<<>>, p)
    BY <1>0, EndsOfEnds
  <2>3. \A q \in N : Len(q) < Len(p) => Len(q) <= 0
    <3>1. ASSUME NEW q \in N, Len(q) < Len(p) PROVE Len(q) <= 0
      <4>1. Len(q) \in Nat
        BY <1>0
      <4>2. Len(q) < 1
        BY <1>1, <3>1
      <4> QED BY <4>1, <4>2
    <3> QED BY <3>1
  <2> QED BY <1>0, <1>1, <2>1, <2>2, <2>3 DEF FailOf
<1>2. CASE Len(p) # 1
  <2> DEFINE f == Front(p)
             x == Last(p)
             g == fail[f]
             c == Child(N, fail, g, x)
  <2>1. f \in Seq(V) /\ x \in V /\ p = Append(f, x)
    <3>1. PICK s \in Seq(V), y \in V : p = Append(s, y)
      BY <1>0, SequenceEmptyOrAppend
    <3>2. Front(Append(s, y)) = s /\ Last(Append(s, y)) = y
      <4>1. Last(Append(s, y)) = y
        BY AppendItem DEF Last
      <4>2. Front(Append(s, y)) = SubSeq(Append(s, y), 1, Len(s))
        <5>1. Len(Append(s, y)) - 1 = Len(s)
          BY AppendItem
        <5> QED BY <5>1 DEF Front
      <4>3. SubSeq(Append(s, y), 1, Len(s)) = s
        OBVIOUS
      <4> QED BY <4>1, <4>2, <4>3
    <3> QED BY <3>1, <3>2
  <2>2. FailLink(N, fail, p) = c
    BY <1>2 DEF FailLink
  <2> HIDE DEF f, x
  <2>3. f \in N /\ Len(f) = m /\ Len(p) = Len(f) + 1 /\ f # <<>>
    <3>1. Len(p) = Len(f) + 1 /\ Len(f) \in Nat
      BY <2>1, AppendItem
    <3>2. f \in N
      BY <2>1 DEF Tree
    <3> QED BY <1>0, <1>2, <3>1, <3>2
  <2>4. FailOf(N, f, g)
    BY <2>3 DEF FailUpTo
  <2>5. /\ g \in N /\ IsSuffix(g, f) /\ Len(g) < Len(f)
        /\ \A q \in N : IsSuffix(q, f) /\ Len(q) < Len(f) => Len(q) <= Len(g)
    BY <2>3, <2>4 DEF FailOf
  <2> HIDE DEF g
  <2>6. g \in Seq(V) /\ Len(g) \in Nat /\ g \in DOMAIN fail
    <3>1. g \in Seq(V) /\ Len(g) \in Nat
      BY <1>0, <2>5
    <3>2. Len(g) <= m
      BY <2>3, <2>5, <3>1
    <3> QED BY <2>5, <3>1, <3>2 DEF FailUpTo
  <2>7. LongestEnd(N, c, Append(g, x))
    BY <2>1, <2>6, ChildIsLongest
  <2> HIDE DEF c
  <2>8. /\ Append(g, x) \in Seq(V) /\ Len(Append(g, x)) = Len(g) + 1 /\ c \in N /\ c \in Seq(V)
        /\ IsSuffix(c, Append(g, x)) /\ Len(c) \in Nat
    BY <1>0, <2>1, <2>6, <2>7, AppendItem DEF LongestEnd
  <2>9. IsSuffix(Append(g, x), p)
    BY <2>1, <2>5, <2>6, EndsOfAppend
  <2>10. IsSuffix(c, p)
    BY <1>0, <2>8, <2>9, EndsOfEnds
  <2>11. Len(c) <= Len(g) + 1
    <3> DEFINE a == Append(g, x)
    <3>1. a \in Seq(V) /\ IsSuffix(c, a) /\ Len(a) = Len(g) + 1
      BY <2>8
    <3> HIDE DEF a
    <3>2. Len(c) <= Len(a)
      BY <2>8, <3>1, EndsWith
    <3> QED BY <3>1, <3>2
  <2>12. Len(c) < Len(p)
    BY <2>3, <2>5, <2>6, <2>8, <2>11
  <2>13. ASSUME NEW q \in N, IsSuffix(q, p), Len(q) < Len(p) PROVE Len(q) <= Len(c)
    <3>1. CASE q = <<>>
      BY <1>0, <2>8, <3>1
    <3>2. CASE q # <<>>
      <4>1. PICK r \in Seq(V) : q = Append(r, x) /\ IsSuffix(r, f)
        BY <1>0, <2>1, <2>13, <3>2, EndsOfAppend
      <4>2. r \in N /\ Len(q) = Len(r) + 1 /\ Len(r) \in Nat
        BY <2>1, <4>1, AppendItem DEF Tree
      <4>3. Len(r) < Len(f)
        BY <2>3, <2>13, <4>2
      <4>4. Len(r) <= Len(g)
        BY <2>5, <4>1, <4>2, <4>3
      <4>5. IsSuffix(r, g)
        BY <2>1, <2>5, <2>6, <4>1, <4>4, EndsOfEnds
      <4>6. IsSuffix(q, Append(g, x))
        BY <2>1, <2>6, <4>1, <4>5, EndsOfAppend
      <4> QED BY <2>7, <4>6 DEF LongestEnd
    <3> QED BY <3>1, <3>2
  <2> QED BY <1>0, <2>2, <2>8, <2>10, <2>12, <2>13 DEF FailOf
<1> QED BY <1>1, <1>2

FailLinksStep(X, fail, n) ==
  IF n = 0 THEN Root
  ELSE Over([p \in Level(X, n) |-> FailLink(Nodes(X), fail[n - 1], p)], fail[n - 1])

FailLinksRun(X) ==
  CHOOSE fail : fail = [n \in 0..Depth(X) |-> FailLinksStep(X, fail, n)]

(* FailLinks gives every node the longest end of it that is a node. *)
LEMMA FailLinksOf ==
  ASSUME NEW V, NEW X, TrieOf(V, X)
  PROVE  FailUpTo(Nodes(X), FailLinks(X), Depth(X))
<1> DEFINE N == Nodes(X)
           D == Depth(X)
           T == UNION {[M -> N] : M \in SUBSET N}
           add(v, n) == Over([p \in Level(X, n) |-> FailLink(N, v, p)], v)
           G == [a \in Nat \X T |-> add(a[2], a[1])]
           u == FailLinksRun(X)
<1>0. /\ Tree(V, N) /\ D \in Nat /\ N \subseteq Seq(V) /\ <<>> \in N
      /\ \A n : Level(X, n) = {p \in N : Len(p) = n}
  BY NodesTree DEF Tree, Level
<1> HIDE DEF N, D
<1>1. ASSUME NEW n \in Nat, NEW v \in T PROVE G[<<n, v>>] = add(v, n) /\ G[<<n, v>>] \in T
  <2>1. G[<<n, v>>] = add(v, n)
    <3>1. <<n, v>> \in Nat \X T /\ <<n, v>>[1] = n /\ <<n, v>>[2] = v
      OBVIOUS
    <3> HIDE DEF add, T
    <3> QED BY <3>1
  <2>2. PICK M \in SUBSET N : v \in [M -> N]
    OBVIOUS
  <2>3. \A p : FailLink(N, v, p) \in N
    BY <1>0 DEF FailLink, Child
  <2>4. add(v, n) \in [Level(X, n) \cup M -> N]
    BY <2>2, <2>3 DEF Over
  <2>5. Level(X, n) \cup M \in SUBSET N
    BY <1>0, <2>2
  <2>6. add(v, n) \in T
    <3> HIDE DEF add
    <3> QED BY <2>4, <2>5
  <2> QED BY <2>1, <2>6
<1>2. Root \in T
  <2>1. Root \in [{<<>>} -> N]
    BY <1>0 DEF Root
  <2> QED BY <1>0, <2>1
<1> HIDE DEF T, G
<1>3. PICK f \in [0..D -> T] : f[0] = Root /\ \A n \in 1..D : f[n] = G[<<n, f[n - 1]>>]
  <2>1. Steps(T, Root, G, D)
    BY <1>0, <1>1, <1>2 DEF Steps
  <2>2. Run(T, Root, G, D)
    BY <2>1, Recursion
  <2> QED BY <2>2 DEF Run
<1>4. f = [n \in 0..D |-> FailLinksStep(X, f, n)]
  <2>1. ASSUME NEW n \in 0..D PROVE f[n] = FailLinksStep(X, f, n)
    <3>1. CASE n = 0
      BY <1>3, <3>1 DEF FailLinksStep
    <3>2. CASE n # 0
      <4>1. n \in 1..D /\ n - 1 \in 0..D /\ n \in Nat
        BY <1>0, <3>2
      <4>2. f[n] = add(f[n - 1], n)
        <5>1. f[n - 1] \in T
          BY <1>3, <4>1
        <5> HIDE DEF add
        <5>2. G[<<n, f[n - 1]>>] = add(f[n - 1], n)
          BY <1>1, <4>1, <5>1
        <5>3. f[n] = G[<<n, f[n - 1]>>]
          BY <1>3, <4>1
        <5> QED BY <5>2, <5>3
      <4> QED BY <3>2, <4>2 DEF FailLinksStep, N
    <3> QED BY <3>1, <3>2
  <2>2. f = [n \in 0..D |-> f[n]]
    BY <1>3
  <2> QED BY <2>1, <2>2
<1>5. u = [n \in 0..D |-> FailLinksStep(X, u, n)]
  <2>1. \E fail : fail = [n \in 0..D |-> FailLinksStep(X, fail, n)]
    BY <1>4
  <2> QED BY <2>1 DEF FailLinksRun, D
<1>6. FailLinks(X) = u[D]
  BY DEF FailLinks, FailLinksRun, FailLinksStep, D
<1> HIDE DEF u
<1> DEFINE S == {n \in Nat : n <= D => FailUpTo(N, u[n], n)}
<1>7. 0 \in S
  <2>1. 0 \in 0..D
    BY <1>0
  <2>2. u[0] = Root
    BY <1>5, <2>1 DEF FailLinksStep
  <2>3. {p \in N : Len(p) <= 0} = {<<>>}
    <3>1. \A p \in N : Len(p) \in Nat /\ (Len(p) = 0 => p = <<>>)
      BY <1>0, EmptySeq
    <3>2. Len(<<>>) = 0
      OBVIOUS
    <3> QED BY <1>0, <3>1, <3>2
  <2>4. FailOf(N, <<>>, <<>>)
    BY <1>0 DEF FailOf
  <2>5. FailUpTo(N, Root, 0)
    BY <2>3, <2>4 DEF FailUpTo, Root
  <2> QED BY <2>2, <2>5
<1>8. ASSUME NEW k \in Nat, k \in S PROVE k + 1 \in S
  <2>1. SUFFICES ASSUME k + 1 <= D PROVE FailUpTo(N, u[k + 1], k + 1)
    OBVIOUS
  <2> DEFINE n == k + 1
             v == u[k]
  <2>2. n \in 0..D /\ n # 0 /\ n - 1 = k /\ k <= D
    BY <1>0, <2>1
  <2>3. FailUpTo(N, v, k)
    BY <1>8, <2>2
  <2>4. u[n] = add(v, n)
    <3> HIDE DEF n, add
    <3>1. u[n] = FailLinksStep(X, u, n)
      BY <1>5, <2>2
    <3>2. FailLinksStep(X, u, n) = add(u[n - 1], n)
      BY <2>2 DEF FailLinksStep, add, N
    <3> QED BY <2>2, <3>1, <3>2
  <2> HIDE DEF v
  <2>5. DOMAIN add(v, n) = {p \in N : Len(p) <= n}
    <3>1. DOMAIN add(v, n) = Level(X, n) \cup DOMAIN v
      BY DEF Over
    <3>2. DOMAIN v = {p \in N : Len(p) <= k} /\ Level(X, n) = {p \in N : Len(p) = n}
      BY <1>0, <2>3 DEF FailUpTo
    <3>3. \A p \in N : Len(p) <= n <=> Len(p) <= k \/ Len(p) = n
      <4>1. \A p \in N : Len(p) \in Nat
        BY <1>0
      <4> QED BY <4>1
    <3> HIDE DEF add, n
    <3> QED BY <3>1, <3>2, <3>3
  <2>6. ASSUME NEW p \in DOMAIN add(v, n) PROVE FailOf(N, p, add(v, n)[p])
    <3>1. CASE p \in Level(X, n)
      <4>1. add(v, n)[p] = FailLink(N, v, p)
        BY <3>1 DEF Over
      <4>2. p \in N /\ Len(p) = k + 1
        BY <1>0, <3>1
      <4>3. FailOf(N, p, FailLink(N, v, p))
        BY <1>0, <2>3, <4>2, FailLinkOf
      <4> QED BY <4>1, <4>3
    <3>2. CASE p \notin Level(X, n)
      <4>1. add(v, n)[p] = v[p] /\ p \in DOMAIN v
        BY <3>2 DEF Over
      <4> QED BY <2>3, <4>1 DEF FailUpTo
    <3> QED BY <3>1, <3>2
  <2> HIDE DEF add
  <2>7. FailUpTo(N, add(v, n), n)
    BY <2>5, <2>6 DEF FailUpTo
  <2> QED BY <2>4, <2>7
<1> HIDE DEF S
<1>9. D \in S
  BY <1>0, <1>7, <1>8, SetInduction
<1>10. FailUpTo(N, u[D], D)
  BY <1>0, <1>9 DEF S
<1> QED BY <1>6, <1>10 DEF N, D

MatchOf(X, p, m) ==
  m \in X \cup {<<>>} /\ IsSuffix(m, p) /\ \A y \in X : IsSuffix(y, p) => Len(y) <= Len(m)

(* Of the sequences that end another one, one is the longest, and only one. *)
LEMMA MatchExists ==
  ASSUME NEW V, NEW X \in SUBSET Seq(V), NEW p \in Seq(V)
  PROVE  /\ \E m : MatchOf(X, p, m)
         /\ \A m, k : MatchOf(X, p, m) /\ MatchOf(X, p, k) => m = k
<1>0. Len(p) \in Nat /\ <<>> \in Seq(V) /\ Len(<<>>) = 0
      /\ \A m \in X \cup {<<>>} : m \in Seq(V) /\ Len(m) \in Nat
  <2>1. \A m \in X : m \in Seq(V) /\ Len(m) \in Nat
    OBVIOUS
  <2>2. <<>> \in Seq(V) /\ Len(<<>>) = 0 /\ Len(p) \in Nat
    OBVIOUS
  <2>3. ASSUME NEW m \in X \cup {<<>>} PROVE m \in Seq(V) /\ Len(m) \in Nat
    <3>1. m \in Seq(V)
      <4>1. CASE m \in X
        BY <2>1, <4>1
      <4>2. CASE m = <<>>
        BY <2>2, <4>2
      <4> QED BY <4>1, <4>2
    <3> QED BY <3>1
  <2> QED BY <2>2, <2>3
<1>1. \E m : MatchOf(X, p, m)
  <2> DEFINE S == {y \in X : IsSuffix(y, p)}
  <2>1. CASE S = {}
    <3>1. IsSuffix(<<>>, p)
      BY EndsOfEnds
    <3> QED BY <2>1, <3>1 DEF MatchOf
  <2>2. CASE S # {}
    <3>1. S \in SUBSET Seq(V) /\ \A y \in S : Len(y) <= Len(p)
      BY EndsOfEnds
    <3>2. \E m \in S : \A y \in S : Len(y) <= Len(m)
      <4> HIDE DEF S
      <4> QED BY <1>0, <2>2, <3>1, LongestOf
    <3> QED BY <3>2 DEF MatchOf
  <2> QED BY <2>1, <2>2
<1>2. ASSUME NEW m, NEW k, MatchOf(X, p, m), MatchOf(X, p, k) PROVE Len(m) <= Len(k)
  <2>0. m \in X \cup {<<>>} /\ IsSuffix(m, p) /\ k \in Seq(V) /\ Len(k) \in Nat
    BY <1>0, <1>2 DEF MatchOf
  <2>1. CASE m \in X
    BY <1>2, <2>0, <2>1 DEF MatchOf
  <2>2. CASE m = <<>>
    BY <1>0, <2>0, <2>2
  <2> QED BY <2>0, <2>1, <2>2
<1>3. ASSUME NEW m, NEW k, MatchOf(X, p, m), MatchOf(X, p, k) PROVE m = k
  <2>1. m \in Seq(V) /\ k \in Seq(V) /\ IsSuffix(m, p) /\ IsSuffix(k, p)
        /\ Len(m) \in Nat /\ Len(k) \in Nat
    BY <1>0, <1>3 DEF MatchOf
  <2>2. Len(m) <= Len(k) /\ Len(k) <= Len(m)
    BY <1>2, <1>3
  <2>3. Len(m) = Len(k)
    BY <2>1, <2>2
  <2> QED BY <2>1, <2>3, EndsOfEnds
<1> QED BY <1>1, <1>3

(* The longest sequence that ends a node is the node or ends its failure link. *)
LEMMA MatchOfNode ==
  ASSUME NEW V, NEW N, Tree(V, N), NEW X \in SUBSET N, NEW p \in N
  PROVE  /\ p \in X => MatchOf(X, p, p)
         /\ p = <<>> => MatchOf(X, p, <<>>)
         /\ \A f, m : /\ p # <<>> /\ p \notin X /\ FailOf(N, p, f) /\ MatchOf(X, f, m)
                      => MatchOf(X, p, m)
<1>0. N \subseteq Seq(V) /\ p \in Seq(V) /\ Len(p) \in Nat /\ X \subseteq Seq(V)
  BY DEF Tree
<1>1. IsSuffix(p, p) /\ \A y \in X : IsSuffix(y, p) => Len(y) <= Len(p)
  BY <1>0, EndsOfEnds
<1>2. ASSUME NEW f, NEW m, p # <<>>, p \notin X, FailOf(N, p, f), MatchOf(X, f, m)
      PROVE  MatchOf(X, p, m)
  <2>1. /\ f \in N /\ f \in Seq(V) /\ IsSuffix(f, p) /\ m \in X \cup {<<>>} /\ m \in Seq(V)
        /\ IsSuffix(m, f)
    <3>1. f \in N /\ IsSuffix(f, p)
      BY <1>2 DEF FailOf
    <3>2. m \in X \cup {<<>>} /\ IsSuffix(m, f)
      BY <1>2 DEF MatchOf
    <3>3. <<>> \in Seq(V)
      OBVIOUS
    <3>4. m \in Seq(V)
      BY <1>0, <3>2, <3>3, Zenon
    <3> QED BY <1>0, <3>1, <3>2, <3>4
  <2>2. IsSuffix(m, p)
    BY <1>0, <2>1, EndsOfEnds
  <2>3. ASSUME NEW y \in X, IsSuffix(y, p) PROVE Len(y) <= Len(m)
    <3>1. y \in Seq(V) /\ Len(y) \in Nat /\ y # p
      BY <1>0, <1>2
    <3>2. Len(y) <= Len(p) /\ Len(y) # Len(p)
      BY <1>0, <2>3, <3>1, EndsOfEnds
    <3>3. Len(y) < Len(p)
      BY <1>0, <3>1, <3>2
    <3>4. Len(y) <= Len(f)
      BY <1>2, <2>3, <3>3 DEF FailOf
    <3>5. IsSuffix(y, f)
      BY <1>0, <2>1, <2>3, <3>1, <3>4, EndsOfEnds
    <3> QED BY <1>2, <3>5 DEF MatchOf
  <2> QED BY <2>1, <2>2, <2>3 DEF MatchOf
<1> QED BY <1>1, <1>2 DEF MatchOf

MatchesStep(X, fail, match, n) ==
  IF n = 0 THEN Root
  ELSE Over([p \in Level(X, n) |-> IF p \in X THEN p ELSE match[n - 1][fail[p]]], match[n - 1])

MatchesRun(X, fail) ==
  CHOOSE match : match = [n \in 0..Depth(X) |-> MatchesStep(X, fail, match, n)]

MatchUpTo(X, N, match, m) ==
  /\ DOMAIN match = {p \in N : Len(p) <= m}
  /\ \A p \in DOMAIN match : MatchOf(X, p, match[p])

(* One level of the trie after another gets its matches. *)
LEMMA MatchesNext ==
  ASSUME NEW V, NEW X, TrieOf(V, X), NEW fail, FailUpTo(Nodes(X), fail, Depth(X)),
         NEW match, NEW n \in 0..Depth(X),
         n # 0 => MatchUpTo(X, Nodes(X), match[n - 1], n - 1)
  PROVE  MatchUpTo(X, Nodes(X), MatchesStep(X, fail, match, n), n)
<1> DEFINE N == Nodes(X)
           step == MatchesStep(X, fail, match, n)
<1>0. /\ Tree(V, N) /\ Depth(X) \in Nat /\ N \subseteq Seq(V) /\ <<>> \in N /\ X \in SUBSET N
      /\ Level(X, n) = {p \in N : Len(p) = n} /\ n \in Nat /\ n <= Depth(X)
      /\ \A p \in N : Len(p) \in Nat
  BY NodesTree DEF Tree, Level
<1> HIDE DEF N
<1>1. CASE n = 0
  <2>1. step = Root
    BY <1>1 DEF MatchesStep
  <2>2. {p \in N : Len(p) <= 0} = {<<>>}
    <3>1. \A p \in N : Len(p) = 0 => p = <<>>
      BY <1>0, EmptySeq
    <3>2. Len(<<>>) = 0
      OBVIOUS
    <3> QED BY <1>0, <3>1, <3>2
  <2>3. MatchOf(X, <<>>, <<>>)
    BY <1>0, MatchOfNode
  <2> QED BY <1>1, <2>1, <2>2, <2>3 DEF MatchUpTo, Root, N
<1>2. CASE n # 0
  <2> DEFINE k == n - 1
             v == match[k]
             own == [p \in Level(X, n) |-> IF p \in X THEN p ELSE v[fail[p]]]
  <2>1. step = Over(own, v) /\ k \in Nat /\ n = k + 1
    BY <1>0, <1>2 DEF MatchesStep
  <2>2. MatchUpTo(X, N, v, k)
    BY <1>2 DEF N
  <2> HIDE DEF v, k, step
  <2>3. DOMAIN step = {p \in N : Len(p) <= n}
    <3>1. DOMAIN step = Level(X, n) \cup {p \in N : Len(p) <= k}
      BY <2>1, <2>2 DEF Over, MatchUpTo
    <3>2. \A p \in N : Len(p) <= n <=> Len(p) <= k \/ Len(p) = n
      BY <1>0, <2>1
    <3> QED BY <1>0, <3>1, <3>2
  <2>4. ASSUME NEW p \in DOMAIN step PROVE MatchOf(X, p, step[p])
    <3>1. CASE p \in Level(X, n)
      <4>1. step[p] = IF p \in X THEN p ELSE v[fail[p]]
        BY <2>1, <3>1 DEF Over
      <4>2. p \in N /\ Len(p) = n /\ p # <<>>
        <5>1. Len(<<>>) = 0
          OBVIOUS
        <5> QED BY <1>0, <1>2, <3>1, <5>1
      <4>3. CASE p \in X
        <5>1. MatchOf(X, p, p)
          BY <1>0, <4>2, <4>3, MatchOfNode
        <5> QED BY <4>1, <4>3, <5>1
      <4>4. CASE p \notin X
        <5>1. FailOf(N, p, fail[p])
          <6>1. p \in DOMAIN fail
            BY <1>0, <4>2 DEF FailUpTo, N
          <6> QED BY <6>1 DEF FailUpTo, N
        <5>2. fail[p] \in N /\ Len(fail[p]) < n
          BY <4>2, <5>1 DEF FailOf
        <5>3. Len(fail[p]) <= k
          BY <1>0, <2>1, <5>2
        <5>4. MatchOf(X, fail[p], v[fail[p]])
          BY <2>2, <5>2, <5>3 DEF MatchUpTo
        <5>5. MatchOf(X, p, v[fail[p]])
          BY <1>0, <4>2, <4>4, <5>1, <5>4, MatchOfNode
        <5> QED BY <4>1, <4>4, <5>5
      <4> QED BY <4>3, <4>4
    <3>2. CASE p \notin Level(X, n)
      <4>1. step[p] = v[p] /\ p \in DOMAIN v
        BY <2>1, <3>2 DEF Over
      <4> QED BY <2>2, <4>1 DEF MatchUpTo
    <3> QED BY <3>1, <3>2
  <2> QED BY <2>3, <2>4 DEF MatchUpTo, step, N
<1> QED BY <1>1, <1>2

(* Two matches for the same nodes are the same. *)
LEMMA MatchesOnce ==
  ASSUME NEW V, NEW N \in SUBSET Seq(V), NEW X \in SUBSET N, NEW n,
         NEW f, NEW g, MatchUpTo(X, N, f, n), MatchUpTo(X, N, g, n),
         f = [p \in DOMAIN f |-> f[p]], g = [p \in DOMAIN g |-> g[p]]
  PROVE  f = g
<1>1. DOMAIN f = DOMAIN g
  BY DEF MatchUpTo
<1>2. ASSUME NEW p \in DOMAIN f PROVE f[p] = g[p]
  <2>1. p \in Seq(V) /\ MatchOf(X, p, f[p]) /\ MatchOf(X, p, g[p])
    BY <1>1 DEF MatchUpTo
  <2> QED BY <2>1, MatchExists
<1> QED BY <1>1, <1>2

(* Matches gives every node the longest sequence that ends it. *)
LEMMA MatchesOf ==
  ASSUME NEW V, NEW X, TrieOf(V, X)
  PROVE  MatchUpTo(X, Nodes(X), Matches(X, FailLinks(X)), Depth(X))
<1> DEFINE N == Nodes(X)
           D == Depth(X)
           fail == FailLinks(X)
           w == [n \in 0..D |-> [p \in {r \in N : Len(r) <= n} |-> CHOOSE m : MatchOf(X, p, m)]]
           u == MatchesRun(X, fail)
<1>0. Tree(V, N) /\ D \in Nat /\ N \subseteq Seq(V) /\ X \in SUBSET N /\ N \in SUBSET Seq(V)
  BY NodesTree DEF Tree
<1>1. FailUpTo(N, fail, D)
  BY FailLinksOf
<1> HIDE DEF N, D, fail
<1>2. ASSUME NEW n \in 0..D PROVE MatchUpTo(X, N, w[n], n)
  <2>1. ASSUME NEW p \in N, Len(p) <= n PROVE MatchOf(X, p, w[n][p])
    <3>1. \E m : MatchOf(X, p, m)
      BY <1>0, MatchExists
    <3>2. w[n][p] = CHOOSE m : MatchOf(X, p, m)
      BY <2>1
    <3> QED BY <3>1, <3>2
  <2>2. DOMAIN w[n] = {r \in N : Len(r) <= n}
    OBVIOUS
  <2> HIDE DEF w
  <2> QED BY <2>1, <2>2 DEF MatchUpTo
<1>3. ASSUME NEW n \in 0..D PROVE w[n] = MatchesStep(X, fail, w, n)
  <2>1. n # 0 => n - 1 \in 0..D
    BY <1>0
  <2>2. n # 0 => MatchUpTo(X, N, w[n - 1], n - 1)
    <3> HIDE DEF w
    <3> QED BY <1>2, <2>1
  <2>3. MatchUpTo(X, N, MatchesStep(X, fail, w, n), n)
    <3> HIDE DEF w
    <3> QED BY <1>1, <2>2, MatchesNext DEF N, D
  <2>4. w[n] = [p \in DOMAIN w[n] |-> w[n][p]]
    OBVIOUS
  <2> HIDE DEF w
  <2>5. MatchesStep(X, fail, w, n)
          = [p \in DOMAIN MatchesStep(X, fail, w, n) |-> MatchesStep(X, fail, w, n)[p]]
    BY DEF MatchesStep, Over, Root
  <2> DEFINE g == MatchesStep(X, fail, w, n)
             f == w[n]
  <2>6. MatchUpTo(X, N, f, n) /\ MatchUpTo(X, N, g, n)
        /\ f = [p \in DOMAIN f |-> f[p]] /\ g = [p \in DOMAIN g |-> g[p]]
    BY <1>2, <2>3, <2>4, <2>5
  <2> HIDE DEF f, g
  <2>7. f = g
    BY <1>0, <2>6, MatchesOnce
  <2> QED BY <2>7 DEF f, g
<1>4. w = [n \in 0..D |-> MatchesStep(X, fail, w, n)]
  <2>1. w = [n \in 0..D |-> w[n]]
    OBVIOUS
  <2> HIDE DEF w
  <2> QED BY <1>3, <2>1
<1>5. u = [n \in 0..D |-> MatchesStep(X, fail, u, n)]
  <2>1. \E match : match = [n \in 0..D |-> MatchesStep(X, fail, match, n)]
    BY <1>4
  <2> QED BY <2>1 DEF MatchesRun, D
<1>6. Matches(X, fail) = u[D]
  BY DEF Matches, MatchesRun, MatchesStep, D
<1> HIDE DEF u, w
<1> DEFINE S == {n \in Nat : n <= D => MatchUpTo(X, N, u[n], n)}
<1>7. ASSUME NEW n \in 0..D, n # 0 => MatchUpTo(X, N, u[n - 1], n - 1)
      PROVE  MatchUpTo(X, N, u[n], n)
  <2>1. MatchUpTo(X, N, MatchesStep(X, fail, u, n), n)
    BY <1>1, <1>7, MatchesNext DEF N, D
  <2>2. u[n] = MatchesStep(X, fail, u, n)
    BY <1>5
  <2> QED BY <2>1, <2>2
<1>8. 0 \in S
  BY <1>0, <1>7
<1>9. ASSUME NEW k \in Nat, k \in S PROVE k + 1 \in S
  <2>1. SUFFICES ASSUME k + 1 <= D PROVE MatchUpTo(X, N, u[k + 1], k + 1)
    OBVIOUS
  <2> DEFINE n == k + 1
  <2>2. n \in 0..D /\ n - 1 = k /\ k <= D
    BY <1>0, <2>1
  <2>3. MatchUpTo(X, N, u[k], k)
    BY <1>9, <2>2
  <2> HIDE DEF n
  <2>4. MatchUpTo(X, N, u[n], n)
    BY <1>7, <2>2, <2>3
  <2> QED BY <2>4 DEF n
<1> HIDE DEF S
<1>10. D \in S
  BY <1>0, <1>8, <1>9, SetInduction
<1>11. MatchUpTo(X, N, u[D], D)
  BY <1>0, <1>10 DEF S
<1> QED BY <1>6, <1>11 DEF N, D, fail

(* A step of the trie from the longest node that ends what was read leads to    *)
(* the longest one that ends what is read then, and to the longest sequence.   *)
LEMMA TrieFollows ==
  ASSUME NEW V, NEW X, TrieOf(V, X), NEW t \in Seq(V), NEW x \in V,
         NEW node, LongestEnd(Nodes(X), node, t), NEW c, c = StepTrie(BuildTrie(X), node, x)
  PROVE  /\ LongestEnd(Nodes(X), c, Append(t, x))
         /\ MatchOf(X, Append(t, x), BuildTrie(X).match[c])
<1> DEFINE N == Nodes(X)
           u == Append(t, x)
           match == Matches(X, FailLinks(X))
           m == match[c]
<1>0. /\ Tree(V, N) /\ N \subseteq Seq(V) /\ <<>> \in N /\ X \subseteq N /\ Depth(X) \in Nat
      /\ \A p \in N : Len(p) <= Depth(X)
  BY NodesTree DEF Tree
<1>1. /\ node \in N /\ node \in Seq(V) /\ Len(node) \in Nat /\ IsSuffix(node, t)
      /\ u \in Seq(V) /\ Append(node, x) \in Seq(V)
  BY <1>0 DEF LongestEnd
<1>2. LongestEnd(N, c, Append(node, x))
  <2>1. FailUpTo(N, FailLinks(X), Depth(X))
    BY FailLinksOf
  <2>2. c = Child(N, FailLinks(X), node, x)
    BY DEF StepTrie, BuildTrie
  <2>3. node \in DOMAIN FailLinks(X)
    BY <1>0, <1>1, <2>1 DEF FailUpTo
  <2> QED BY <1>0, <2>1, <2>2, <2>3, ChildIsLongest
<1>3. c \in N /\ c \in Seq(V) /\ Len(c) \in Nat /\ IsSuffix(c, Append(node, x))
  BY <1>0, <1>2 DEF LongestEnd
<1>4. IsSuffix(Append(node, x), u)
  BY <1>1, EndsOfAppend
<1>5. IsSuffix(c, u)
  BY <1>1, <1>3, <1>4, EndsOfEnds
<1>6. ASSUME NEW q \in N, IsSuffix(q, u) PROVE Len(q) <= Len(c)
  <2>1. CASE q = <<>>
    <3>1. Len(<<>>) = 0
      OBVIOUS
    <3> QED BY <1>3, <2>1, <3>1
  <2>2. CASE q # <<>>
    <3>1. PICK r \in Seq(V) : q = Append(r, x) /\ IsSuffix(r, t)
      BY <1>0, <1>6, <2>2, EndsOfAppend
    <3>2. r \in N
      BY <1>0, <3>1 DEF Tree
    <3>3. Len(r) <= Len(node)
      BY <3>1, <3>2 DEF LongestEnd
    <3>4. IsSuffix(r, node)
      BY <1>1, <3>1, <3>3, EndsOfEnds
    <3>5. IsSuffix(q, Append(node, x))
      BY <1>1, <3>1, <3>4, EndsOfAppend
    <3> QED BY <1>2, <3>5 DEF LongestEnd
  <2> QED BY <2>1, <2>2
<1>7. MatchOf(X, c, m)
  <2>1. MatchUpTo(X, N, match, Depth(X))
    BY MatchesOf
  <2>2. c \in DOMAIN match
    BY <1>0, <1>3, <2>1 DEF MatchUpTo
  <2> QED BY <2>1, <2>2 DEF MatchUpTo
<1>8. BuildTrie(X).match[c] = m
  BY DEF BuildTrie
<1> HIDE DEF N, u, m, match
<1>9. MatchOf(X, u, m)
  <2>1. m \in X \cup {<<>>} /\ m \in Seq(V) /\ IsSuffix(m, c)
    <3>1. <<>> \in Seq(V)
      OBVIOUS
    <3> QED BY <1>0, <1>7, <3>1 DEF MatchOf
  <2>2. IsSuffix(m, u)
    BY <1>1, <1>3, <1>5, <2>1, EndsOfEnds
  <2>3. ASSUME NEW y \in X, IsSuffix(y, u) PROVE Len(y) <= Len(m)
    <3>1. y \in N /\ y \in Seq(V) /\ Len(y) <= Len(c)
      BY <1>0, <1>6, <2>3
    <3>2. IsSuffix(y, c)
      BY <1>1, <1>3, <1>5, <2>3, <3>1, EndsOfEnds
    <3> QED BY <1>7, <3>2 DEF MatchOf
  <2> QED BY <2>1, <2>2, <2>3 DEF MatchOf
<1>10. LongestEnd(N, c, u)
  BY <1>3, <1>5, <1>6 DEF LongestEnd
<1> QED BY <1>8, <1>9, <1>10 DEF N, u

----------------------------------------
(* The sequence state machine *)

Targets == States \cup {Stop}

Leads(s) == IF s = "normal" THEN {"tool", "reasoning", Stop} ELSE {"normal", Stop}

(* The sequences of a state: finitely many, none empty, and none leads back to it. *)
LEMMA TransitionsOf ==
  ASSUME NEW q \in Requests, NEW s \in States
  PROVE  /\ TrieOf(q.vocab, Sequences(q, s))
         /\ \A y \in Sequences(q, s) : Transitions(q, s)[y] \in Leads(s)
<1> DEFINE V == q.vocab
           stops == [x \in q.stops |-> Stop]
           edge(pair, i, to) == IF pair = <<>> THEN <<>> ELSE [x \in {pair[i]} \ {<<>>} |-> to]
           Good(f, T) == /\ DOMAIN f \subseteq Seq(V) \ {<<>>} /\ IsFiniteSet(DOMAIN f)
                         /\ \A y \in DOMAIN f : f[y] \in T
<1>1. /\ q.stops \subseteq Seq(V) \ {<<>>} /\ q.stops # {} /\ IsFiniteSet(q.stops)
      /\ q.think = <<>> \/ q.think \in Seq(V) \X Seq(V)
      /\ q.tool = <<>> \/ q.tool \in Seq(V) \X Seq(V)
  BY RequestsAssumption
<1>2. Good(stops, {Stop}) /\ DOMAIN stops = q.stops
  BY <1>1
<1>3. ASSUME NEW pair, pair = <<>> \/ pair \in Seq(V) \X Seq(V), NEW i \in 1..2, NEW to
      PROVE  Good(edge(pair, i, to), {to})
  <2>1. CASE pair = <<>>
    <3>1. edge(pair, i, to) = <<>> /\ DOMAIN edge(pair, i, to) = {}
      BY <2>1
    <3> QED BY <3>1, FS_EmptySet
  <2>2. CASE pair # <<>>
    <3>1. pair[i] \in Seq(V)
      BY <1>3, <2>2
    <3>2. DOMAIN edge(pair, i, to) = {pair[i]} \ {<<>>}
      BY <2>2
    <3>3. IsFiniteSet({pair[i]} \ {<<>>})
      BY FS_Singleton, FS_Difference
    <3>4. \A y \in {pair[i]} \ {<<>>} : edge(pair, i, to)[y] = to
      BY <2>2
    <3> HIDE DEF edge
    <3> QED BY <3>1, <3>2, <3>3, <3>4
  <2> QED BY <2>1, <2>2
<1> HIDE DEF edge, stops
<1>4. ASSUME NEW f, NEW g, NEW T, NEW U, Good(f, T), Good(g, U)
      PROVE  Good(Over(f, g), T \cup U) /\ DOMAIN Over(f, g) = DOMAIN f \cup DOMAIN g
  <2>1. DOMAIN Over(f, g) = DOMAIN f \cup DOMAIN g
    BY DEF Over
  <2>2. IsFiniteSet(DOMAIN f \cup DOMAIN g)
    BY <1>4, FS_Union
  <2>3. \A y \in DOMAIN f \cup DOMAIN g : Over(f, g)[y] \in T \cup U
    BY <1>4 DEF Over
  <2> QED BY <1>4, <2>1, <2>2, <2>3
<1>5. ASSUME NEW f, NEW T, Good(f, T), T \subseteq Leads(s), q.stops \subseteq DOMAIN f,
             Transitions(q, s) = f
      PROVE  /\ TrieOf(q.vocab, Sequences(q, s))
             /\ \A y \in Sequences(q, s) : Transitions(q, s)[y] \in Leads(s)
  <2>1. Sequences(q, s) = DOMAIN f /\ DOMAIN f # {}
    BY <1>1, <1>5 DEF Sequences
  <2>2. TrieOf(V, DOMAIN f)
    BY <1>5, <2>1 DEF TrieOf
  <2>3. \A y \in DOMAIN f : f[y] \in Leads(s)
    BY <1>5
  <2> HIDE DEF Good
  <2> QED BY <1>5, <2>1, <2>2, <2>3
<1>6. CASE s = "normal"
  <2> DEFINE a == edge(q.tool, 1, "tool")
             b == edge(q.think, 2, Stop)
             c == edge(q.think, 1, "reasoning")
             f == Over(a, Over(b, Over(c, stops)))
             T == {"tool"} \cup ({Stop} \cup ({"reasoning"} \cup {Stop}))
  <2>1. Good(a, {"tool"}) /\ Good(b, {Stop}) /\ Good(c, {"reasoning"})
    <3> HIDE DEF Good
    <3>1. 1 \in 1..2 /\ 2 \in 1..2
      OBVIOUS
    <3> QED BY <1>1, <1>3, <3>1
  <2>2. Transitions(q, s) = f
    BY <1>6 DEF Transitions, edge, stops
  <2> HIDE DEF Good, a, b, c
  <2>3. Good(Over(c, stops), {"reasoning"} \cup {Stop})
        /\ DOMAIN Over(c, stops) = DOMAIN c \cup DOMAIN stops
    BY <1>2, <1>4, <2>1
  <2>4. Good(Over(b, Over(c, stops)), {Stop} \cup ({"reasoning"} \cup {Stop}))
        /\ DOMAIN Over(b, Over(c, stops)) = DOMAIN b \cup DOMAIN Over(c, stops)
    BY <1>4, <2>1, <2>3
  <2>5. Good(f, T) /\ DOMAIN f = DOMAIN a \cup DOMAIN Over(b, Over(c, stops))
    BY <1>4, <2>1, <2>4
  <2>6. q.stops \subseteq DOMAIN f
    BY <1>2, <2>3, <2>4, <2>5
  <2>7. T \subseteq Leads(s)
    BY <1>6 DEF Leads
  <2> HIDE DEF T, f
  <2> QED BY <1>5, <2>2, <2>5, <2>6, <2>7
<1>7. ASSUME NEW pair, pair = <<>> \/ pair \in Seq(V) \X Seq(V), s # "normal",
             Transitions(q, s) = Over(stops, edge(pair, 2, "normal"))
      PROVE  /\ TrieOf(q.vocab, Sequences(q, s))
             /\ \A y \in Sequences(q, s) : Transitions(q, s)[y] \in Leads(s)
  <2> DEFINE e == edge(pair, 2, "normal")
             f == Over(stops, e)
             T == {Stop} \cup {"normal"}
  <2>1. Good(e, {"normal"})
    <3> HIDE DEF Good
    <3>1. 2 \in 1..2
      OBVIOUS
    <3> QED BY <1>3, <1>7, <3>1
  <2> HIDE DEF Good, e
  <2>2. Good(f, T) /\ DOMAIN f = DOMAIN stops \cup DOMAIN e
    BY <1>2, <1>4, <2>1
  <2>3. q.stops \subseteq DOMAIN f
    BY <1>2, <2>2
  <2>4. T \subseteq Leads(s)
    BY <1>7 DEF Leads
  <2>5. Transitions(q, s) = f
    BY <1>7 DEF e
  <2> HIDE DEF T, f
  <2> QED BY <1>5, <2>2, <2>3, <2>4, <2>5
<1>8. CASE s = "reasoning"
  <2>1. Transitions(q, s) = Over(stops, edge(q.think, 2, "normal"))
    BY <1>8 DEF Transitions, edge, stops
  <2> HIDE DEF Good
  <2> QED BY <1>1, <1>7, <1>8, <2>1
<1>9. CASE s = "tool"
  <2>1. Transitions(q, s) = Over(stops, edge(q.tool, 2, "normal"))
    BY <1>9 DEF Transitions, edge, stops
  <2> HIDE DEF Good
  <2> QED BY <1>1, <1>7, <1>9, <2>1
<1> QED BY <1>6, <1>8, <1>9 DEF States

(* Nothing follows a stop. *)
LEMMA NoTransitions ==
  ASSUME NEW q
  PROVE  Sequences(q, Stop) = {}
<1>1. Transitions(q, Stop) = <<>>
  BY DEF Transitions, Stop
<1> QED BY <1>1 DEF Sequences

----------------------------------------
(* The reference *)

Entries == [state : Targets, from : Nat, length : Nat]

Seen(t, before, i) == SubSeq(t, before.from + 1, i)

(* After by the longest sequence that ends the tokens since the last change. *)
LEMMA AfterIs ==
  ASSUME NEW q \in Requests, NEW t, NEW i, NEW before \in Entries,
         Seen(t, before, i) \in Seq(q.vocab),
         NEW m, MatchOf(Sequences(q, before.state), Seen(t, before, i), m)
  PROVE  After(q, t, before, i)
           = IF m = <<>> THEN [state |-> before.state, from |-> before.from, length |-> 0]
             ELSE [state |-> Transitions(q, before.state)[m], from |-> i, length |-> Len(m)]
<1> DEFINE X == Sequences(q, before.state)
           seen == Seen(t, before, i)
           ends == {x \in X : IsSuffix(x, seen)}
           longest == CHOOSE x \in ends : \A y \in ends : Len(y) <= Len(x)
<1>0. X \subseteq Seq(q.vocab) \ {<<>>}
  <2>1. CASE before.state \in States
    BY <2>1, TransitionsOf DEF TrieOf
  <2>2. CASE before.state \notin States
    BY <2>2, NoTransitions DEF Entries, Targets
  <2> QED BY <2>1, <2>2
<1>1. After(q, t, before, i)
        = IF ends = {} THEN [state |-> before.state, from |-> before.from, length |-> 0]
          ELSE [state |-> Transitions(q, before.state)[longest], from |-> i,
                length |-> Len(longest)]
  BY DEF After, Seen
<1>2. CASE m = <<>>
  <2>1. ASSUME NEW y \in ends PROVE FALSE
    <3>1. y \in Seq(q.vocab) /\ y # <<>> /\ Len(y) <= Len(m) /\ Len(<<>>) = 0
      BY <1>0, <2>1 DEF MatchOf
    <3>2. Len(y) = 0
      BY <1>2, <3>1
    <3> QED BY <3>1, <3>2, EmptySeq
  <2> HIDE DEF ends, longest
  <2> QED BY <1>1, <1>2, <2>1
<1>3. CASE m # <<>>
  <2>1. m \in ends /\ \A y \in ends : Len(y) <= Len(m)
    BY <1>3 DEF MatchOf
  <2>2. longest \in ends /\ \A y \in ends : Len(y) <= Len(longest)
    <3> HIDE DEF ends
    <3> QED BY <2>1
  <2>3. MatchOf(X, seen, longest)
    BY <2>2 DEF MatchOf
  <2>4. longest = m
    <3> HIDE DEF longest, ends, X, seen
    <3>1. X \in SUBSET Seq(q.vocab) /\ seen \in Seq(q.vocab) /\ MatchOf(X, seen, m)
      BY <1>0 DEF X, seen
    <3> QED BY <2>3, <3>1, MatchExists
  <2> HIDE DEF longest, ends
  <2> QED BY <1>1, <1>3, <2>1, <2>4
<1> QED BY <1>2, <1>3

Follows(b, e, i) ==
  /\ b \in Entries /\ b.from < i /\ e \in Entries /\ e.from <= i /\ b.from <= e.from
  /\ e.length <= i - b.from
  /\ e.length = 0 => e.state = b.state /\ e.from = b.from
  /\ e.length # 0 => b.state \in States /\ e.from = i /\ e.state \in Leads(b.state)

(* The entry after another one. *)
LEMMA AfterFollows ==
  ASSUME NEW q \in Requests, NEW t \in Seq(q.vocab), NEW i \in 1..Len(t),
         NEW before \in Entries, before.from < i
  PROVE  Follows(before, After(q, t, before, i), i)
<1> DEFINE X == Sequences(q, before.state)
           e == After(q, t, before, i)
           f == before.from
           s == before.state
<1>0. f \in Nat /\ s \in Targets /\ i \in Nat /\ f < i
  BY DEF Entries
<1>1. Seen(t, before, i) \in Seq(q.vocab) /\ Len(Seen(t, before, i)) = i - f
  <2> HIDE DEF f
  <2>1. Seen(t, before, i) = SubSeq(t, f + 1, i)
    BY DEF Seen, f
  <2> DEFINE a == f + 1
  <2>2. a \in Nat /\ i \in Nat /\ 1 <= a /\ a <= i + 1 /\ (i - a) + 1 = i - f /\ i <= Len(t)
    BY <1>0
  <2> HIDE DEF a
  <2>3. SubSeq(t, a, i) \in Seq(q.vocab) /\ Len(SubSeq(t, a, i)) = (i - a) + 1
    BY <2>2, PartOf
  <2> QED BY <2>1, <2>2, <2>3 DEF a
<1>2. X \subseteq Seq(q.vocab) \ {<<>>}
  <2>1. CASE before.state \in States
    BY <2>1, TransitionsOf DEF TrieOf
  <2>2. CASE before.state \notin States
    BY <2>2, NoTransitions DEF Entries, Targets
  <2> QED BY <2>1, <2>2
<1>3. PICK m : MatchOf(X, Seen(t, before, i), m)
  BY <1>1, <1>2, MatchExists
<1>4. e = IF m = <<>> THEN [state |-> s, from |-> f, length |-> 0]
          ELSE [state |-> Transitions(q, s)[m], from |-> i, length |-> Len(m)]
  BY <1>1, <1>3, AfterIs
<1>5. CASE m = <<>>
  <2>1. e = [state |-> s, from |-> f, length |-> 0]
    BY <1>4, <1>5
  <2> HIDE DEF e
  <2>2. Follows(before, e, i)
    BY <1>0, <2>1 DEF Follows, Entries
  <2> QED BY <2>2 DEF e
<1>6. CASE m # <<>>
  <2>1. m \in X /\ IsSuffix(m, Seen(t, before, i)) /\ m \in Seq(q.vocab)
    BY <1>2, <1>3, <1>6 DEF MatchOf
  <2>2. s \in States
    BY <2>1, NoTransitions DEF Entries, Targets
  <2>3. Len(m) \in Nat /\ Len(m) # 0 /\ Len(m) <= i - f
    <3>1. Len(m) \in Nat /\ Len(m) # 0
      BY <1>6, <2>1, EmptySeq
    <3>2. Len(m) <= Len(Seen(t, before, i))
      BY <1>1, <2>1, EndsWith
    <3> QED BY <1>1, <3>1, <3>2
  <2>4. Transitions(q, s)[m] \in Leads(s)
    BY <2>1, <2>2, TransitionsOf
  <2>5. Leads(s) \subseteq Targets
    BY DEF Leads, Targets, States
  <2>6. e = [state |-> Transitions(q, s)[m], from |-> i, length |-> Len(m)]
    BY <1>4, <1>6
  <2> DEFINE u == Transitions(q, s)[m]
             k == Len(m)
  <2>7. e = [state |-> u, from |-> i, length |-> k] /\ u \in Leads(s) /\ u \in Targets
        /\ k \in Nat /\ k # 0 /\ k <= i - f
    BY <2>3, <2>4, <2>5, <2>6
  <2> HIDE DEF e, u, k, X
  <2>8. Follows(before, e, i)
    BY <1>0, <2>2, <2>7 DEF Follows, Entries
  <2> QED BY <2>8 DEF e
<1> QED BY <1>5, <1>6

Before(q, ref, i) == IF i = 1 THEN Start(q) ELSE ref[i - 1]

RefersTo(q, t, n, ref) ==
  /\ ref \in Seq(Entries) /\ Len(ref) = n
  /\ \A i \in 1..n : /\ ref[i] = After(q, t, Before(q, ref, i), i)
                     /\ Follows(Before(q, ref, i), ref[i], i)

(* One entry more. *)
LEMMA RefersToNext ==
  ASSUME NEW q \in Requests, NEW t \in Seq(q.vocab), NEW n \in Nat, n < Len(t),
         NEW ref, RefersTo(q, t, n, ref), NEW b, b = Before(q, ref, n + 1)
  PROVE  /\ RefersTo(q, t, n + 1, Append(ref, After(q, t, b, n + 1)))
         /\ b \in Entries /\ b.from <= n
<1> DEFINE m == n + 1
           e == After(q, t, b, m)
           r == Append(ref, e)
<1>0. m \in 1..Len(t) /\ m \in Nat /\ m - 1 = n
  OBVIOUS
<1>1. b \in Entries /\ b.from < m /\ b.from <= n
  <2>1. CASE n = 0
    <3>1. b = Start(q)
      BY <2>1 DEF Before
    <3>2. q.initial \in States
      BY RequestsAssumption
    <3> QED BY <2>1, <3>1, <3>2 DEF Start, Entries, Targets
  <2>2. CASE n # 0
    <3>1. n \in 1..n /\ b = ref[n]
      BY <1>0, <2>2 DEF Before
    <3>2. Follows(Before(q, ref, n), b, n)
      BY <3>1 DEF RefersTo
    <3>3. b \in Entries /\ b.from <= n /\ b.from \in Nat
      BY <3>2 DEF Follows, Entries
    <3> QED BY <3>3
  <2> QED BY <2>1, <2>2
<1>2. Follows(b, e, m)
  <2> HIDE DEF m
  <2> QED BY <1>0, <1>1, AfterFollows
<1>3. e \in Entries
  BY <1>2 DEF Follows
<1> HIDE DEF e, m
<1>4. ref \in Seq(Entries) /\ Len(ref) = n
  BY DEF RefersTo
<1>5. /\ r \in Seq(Entries) /\ Len(r) = m /\ r[m] = e /\ \A i \in 1..n : r[i] = ref[i]
  <2>1. /\ r \in Seq(Entries) /\ Len(r) = n + 1 /\ r[n + 1] = e /\ \A i \in 1..n : r[i] = ref[i]
    BY <1>3, <1>4, AppendItem
  <2> QED BY <2>1 DEF m
<1> HIDE DEF r
<1>6. ASSUME NEW i \in 1..m
      PROVE  r[i] = After(q, t, Before(q, r, i), i) /\ Follows(Before(q, r, i), r[i], i)
  <2>1. CASE i = m
    <3>1. Before(q, r, m) = b
      <4>1. CASE n = 0
        BY <4>1 DEF Before, m
      <4>2. CASE n # 0
        <5>1. n \in 1..n /\ m # 1
          BY <1>0, <4>2
        <5>2. r[m - 1] = ref[n]
          BY <1>0, <1>5, <5>1
        <5>3. b = ref[m - 1]
          BY <5>1 DEF Before, m
        <5> QED BY <1>0, <5>1, <5>2, <5>3 DEF Before
      <4> QED BY <4>1, <4>2
    <3> QED BY <1>2, <1>5, <2>1, <3>1 DEF e
  <2>2. CASE i # m
    <3>1. i \in 1..n /\ r[i] = ref[i]
      BY <1>0, <1>5, <2>2
    <3>2. Before(q, r, i) = Before(q, ref, i)
      <4>1. CASE i = 1
        BY <4>1 DEF Before
      <4>2. CASE i # 1
        <5>1. i - 1 \in 1..n
          BY <3>1, <4>2
        <5> QED BY <1>5, <4>2, <5>1 DEF Before
      <4> QED BY <4>1, <4>2
    <3> QED BY <3>1, <3>2 DEF RefersTo
  <2> QED BY <2>1, <2>2
<1>7. RefersTo(q, t, m, r)
  BY <1>5, <1>6 DEF RefersTo
<1> QED BY <1>1, <1>7 DEF e, m, r

(* There is only one. *)
LEMMA RefersToOnce ==
  ASSUME NEW q, NEW t, NEW n \in Nat, NEW ref, RefersTo(q, t, n, ref), NEW r, RefersTo(q, t, n, r)
  PROVE  r = ref
<1> DEFINE S == {k \in Nat : k \in 1..n => r[k] = ref[k]}
<1>1. 0 \in S
  OBVIOUS
<1>2. ASSUME NEW k \in Nat, k \in S PROVE k + 1 \in S
  <2> DEFINE m == k + 1
  <2>1. SUFFICES ASSUME m \in 1..n PROVE r[m] = ref[m]
    OBVIOUS
  <2>2. m - 1 = k /\ (m = 1 \/ k \in 1..n)
    BY <2>1
  <2> HIDE DEF m
  <2>3. Before(q, r, m) = Before(q, ref, m)
    <3>1. CASE m = 1
      BY <3>1 DEF Before
    <3>2. CASE m # 1
      <4>1. r[k] = ref[k]
        BY <1>2, <2>2, <3>2
      <4> QED BY <2>2, <3>2, <4>1 DEF Before
    <3> QED BY <3>1, <3>2
  <2>4. r[m] = After(q, t, Before(q, r, m), m) /\ ref[m] = After(q, t, Before(q, ref, m), m)
    BY <2>1 DEF RefersTo
  <2> QED BY <2>3, <2>4
<1> HIDE DEF S
<1>3. Nat \subseteq S
  BY <1>1, <1>2, SetInduction
<1>4. \A k \in 1..n : r[k] = ref[k]
  BY <1>3 DEF S
<1>5. r \in Seq(Entries) /\ ref \in Seq(Entries) /\ Len(r) = n /\ Len(ref) = n
  BY DEF RefersTo
<1> QED BY <1>4, <1>5, SeqEqual

ReferenceStep(q, t, ref, n) ==
  IF n = 0 THEN <<>>
  ELSE Append(ref[n - 1], After(q, t, IF n = 1 THEN Start(q) ELSE ref[n - 1][n - 1], n))

ReferenceRun(q, t) ==
  CHOOSE ref : ref = [n \in 0..Len(t) |-> ReferenceStep(q, t, ref, n)]

(* The function behind ReferenceOf. *)
LEMMA ReferenceRuns ==
  ASSUME NEW q \in Requests, NEW t \in Seq(q.vocab)
  PROVE  /\ ReferenceOf(q, t) = ReferenceRun(q, t)[Len(t)]
         /\ ReferenceRun(q, t)
              = [n \in 0..Len(t) |-> ReferenceStep(q, t, ReferenceRun(q, t), n)]
<1> DEFINE L == Len(t)
           V == Seq(Entries)
           more(v, n) == Append(v, After(q, t, Before(q, v, n), n))
           G == [a \in Nat \X V |-> IF a[1] \in 1..L /\ RefersTo(q, t, a[1] - 1, a[2])
                                    THEN more(a[2], a[1]) ELSE a[2]]
<1>0. L \in Nat
  OBVIOUS
<1>1. ASSUME NEW n \in Nat, NEW v \in V
      PROVE  /\ G[<<n, v>>] = IF n \in 1..L /\ RefersTo(q, t, n - 1, v) THEN more(v, n) ELSE v
             /\ G[<<n, v>>] \in V
             /\ n \in 1..L /\ RefersTo(q, t, n - 1, v) => RefersTo(q, t, n, more(v, n))
  <2>1. G[<<n, v>>] = IF n \in 1..L /\ RefersTo(q, t, n - 1, v) THEN more(v, n) ELSE v
    <3>1. <<n, v>> \in Nat \X V /\ <<n, v>>[1] = n /\ <<n, v>>[2] = v
      OBVIOUS
    <3> HIDE DEF more, V
    <3> QED BY <3>1
  <2>2. ASSUME n \in 1..L, RefersTo(q, t, n - 1, v) PROVE RefersTo(q, t, n, more(v, n))
    <3> DEFINE k == n - 1
               b == Before(q, v, n)
    <3>1. k \in Nat /\ k < L /\ k + 1 = n
      BY <1>0, <2>2
    <3>2. b = Before(q, v, k + 1)
      BY <3>1
    <3>3. RefersTo(q, t, k, v)
      BY <2>2
    <3> HIDE DEF k, b
    <3>4. RefersTo(q, t, k + 1, Append(v, After(q, t, b, k + 1)))
      BY <3>1, <3>2, <3>3, RefersToNext
    <3> QED BY <3>1, <3>4 DEF b
  <2>3. n \in 1..L /\ RefersTo(q, t, n - 1, v) => more(v, n) \in V
    BY <2>2 DEF RefersTo
  <2> HIDE DEF more, G
  <2> QED BY <2>1, <2>2, <2>3
<1> HIDE DEF G
<1>2. PICK f \in [0..L -> V] : f[0] = <<>> /\ \A n \in 1..L : f[n] = G[<<n, f[n - 1]>>]
  <2>1. <<>> \in V
    OBVIOUS
  <2> HIDE DEF V, more
  <2>2. Steps(V, <<>>, G, L)
    BY <1>0, <1>1, <2>1 DEF Steps
  <2>3. Run(V, <<>>, G, L)
    BY <2>2, Recursion
  <2> QED BY <2>3 DEF Run
<1> DEFINE S == {n \in Nat : n <= L => RefersTo(q, t, n, f[n])}
<1>3. 0 \in S
  <2>1. <<>> \in Seq(Entries) /\ Len(<<>>) = 0
    OBVIOUS
  <2> QED BY <1>2, <2>1 DEF RefersTo
<1>4. ASSUME NEW m \in 1..L, RefersTo(q, t, m - 1, f[m - 1])
      PROVE  f[m] = more(f[m - 1], m) /\ RefersTo(q, t, m, f[m])
  <2>1. m - 1 \in 0..L /\ m \in Nat
    BY <1>0
  <2>2. f[m - 1] \in V
    BY <1>2, <2>1
  <2>3. f[m] = G[<<m, f[m - 1]>>]
    BY <1>2
  <2> HIDE DEF more, V
  <2>4. G[<<m, f[m - 1]>>] = more(f[m - 1], m) /\ RefersTo(q, t, m, more(f[m - 1], m))
    BY <1>1, <1>4, <2>1, <2>2
  <2> QED BY <2>3, <2>4
<1>5. ASSUME NEW k \in Nat, k \in S PROVE k + 1 \in S
  <2> DEFINE m == k + 1
  <2>1. SUFFICES ASSUME m <= L PROVE RefersTo(q, t, m, f[m])
    OBVIOUS
  <2>2. m - 1 = k /\ k <= L /\ m \in 1..L
    BY <1>0, <2>1
  <2>3. RefersTo(q, t, m - 1, f[m - 1])
    BY <1>5, <2>2
  <2> HIDE DEF m
  <2> QED BY <1>4, <2>2, <2>3
<1> HIDE DEF S
<1>6. Nat \subseteq S
  BY <1>3, <1>5, SetInduction
<1>7. f = [n \in 0..L |-> ReferenceStep(q, t, f, n)]
  <2>1. ASSUME NEW n \in 0..L PROVE f[n] = ReferenceStep(q, t, f, n)
    <3>1. CASE n = 0
      BY <1>2, <3>1 DEF ReferenceStep
    <3>2. CASE n # 0
      <4>1. n \in 1..L /\ n - 1 \in Nat /\ n - 1 <= L
        BY <1>0, <3>2
      <4>2. RefersTo(q, t, n - 1, f[n - 1])
        BY <1>6, <4>1 DEF S
      <4>3. f[n] = more(f[n - 1], n)
        BY <1>4, <4>1, <4>2
      <4> QED BY <3>2, <4>3 DEF ReferenceStep, Before
    <3> QED BY <3>1, <3>2
  <2>2. f = [n \in 0..L |-> f[n]]
    BY <1>2
  <2> QED BY <2>1, <2>2
<1>8. \E ref : ref = [n \in 0..L |-> ReferenceStep(q, t, ref, n)]
  BY <1>7
<1>9. ReferenceRun(q, t) = [n \in 0..L |-> ReferenceStep(q, t, ReferenceRun(q, t), n)]
  BY <1>8 DEF ReferenceRun
<1>10. ReferenceOf(q, t) = ReferenceRun(q, t)[L]
  BY DEF ReferenceOf, ReferenceRun, ReferenceStep
<1> QED BY <1>9, <1>10

(* ReferenceOf has an entry for every token, which follows the one before. *)
LEMMA ReferenceIs ==
  ASSUME NEW q \in Requests, NEW t \in Seq(q.vocab)
  PROVE  RefersTo(q, t, Len(t), ReferenceOf(q, t))
<1> DEFINE L == Len(t)
           u == ReferenceRun(q, t)
           S == {n \in Nat : n <= L => RefersTo(q, t, n, u[n])}
<1>1. ReferenceOf(q, t) = u[L] /\ u = [n \in 0..L |-> ReferenceStep(q, t, u, n)] /\ L \in Nat
  BY ReferenceRuns
<1> HIDE DEF u, L
<1>2. 0 \in S
  <2>1. 0 \in 0..L
    BY <1>1
  <2>2. u[0] = <<>>
    BY <1>1, <2>1 DEF ReferenceStep
  <2>3. <<>> \in Seq(Entries) /\ Len(<<>>) = 0
    OBVIOUS
  <2>4. RefersTo(q, t, 0, u[0])
    BY <2>2, <2>3 DEF RefersTo
  <2> QED BY <2>4
<1>3. ASSUME NEW k \in Nat, k \in S PROVE k + 1 \in S
  <2> DEFINE m == k + 1
             v == u[k]
             b == Before(q, v, m)
  <2>1. SUFFICES ASSUME m <= L PROVE RefersTo(q, t, m, u[m])
    OBVIOUS
  <2>2. m - 1 = k /\ k <= L /\ k < L /\ m \in 0..L /\ m # 0
    BY <1>1, <2>1
  <2>3. RefersTo(q, t, k, v)
    BY <1>3, <2>2
  <2>4. u[m] = Append(v, After(q, t, b, m))
    <3> HIDE DEF m
    <3>1. u[m] = ReferenceStep(q, t, u, m)
      BY <1>1, <2>2
    <3> QED BY <2>2, <3>1 DEF ReferenceStep, Before
  <2>5. RefersTo(q, t, m, Append(v, After(q, t, b, m)))
    <3> HIDE DEF v
    <3> DEFINE c == b
    <3>1. c = Before(q, v, k + 1)
      OBVIOUS
    <3> HIDE DEF c
    <3>2. RefersTo(q, t, k + 1, Append(v, After(q, t, c, k + 1)))
      BY <2>2, <2>3, <3>1, RefersToNext DEF L
    <3> QED BY <3>2 DEF c
  <2> HIDE DEF m, v, b
  <2> QED BY <2>4, <2>5
<1> HIDE DEF S
<1>4. L \in S
  BY <1>1, <1>2, <1>3, SetInduction
<1>5. RefersTo(q, t, L, u[L])
  BY <1>1, <1>4 DEF S
<1> QED BY <1>1, <1>5 DEF L

(* With another token ReferenceOf has another entry. *)
LEMMA ReferenceAppend ==
  ASSUME NEW q \in Requests, NEW t \in Seq(q.vocab), NEW x \in q.vocab, NEW n, n = Len(t) + 1,
         NEW ref, ref = ReferenceOf(q, t), NEW b, b = Before(q, ref, n)
  PROVE  /\ ReferenceOf(q, Append(t, x)) = Append(ref, After(q, Append(t, x), b, n))
         /\ b \in Entries /\ b.from < n
<1> DEFINE u == Append(t, x)
           k == Len(t)
<1>0. u \in Seq(q.vocab) /\ Len(u) = n /\ k \in Nat /\ n = k + 1 /\ k < n
      /\ \A i \in 1..k : u[i] = t[i]
  BY AppendItem
<1> HIDE DEF u, k
<1>1. RefersTo(q, t, k, ref)
  BY ReferenceIs DEF k
<1>2. ASSUME NEW i \in 1..k, NEW c \in Entries, c.from < i
      PROVE  After(q, u, c, i) = After(q, t, c, i)
  <2> DEFINE a == c.from + 1
  <2>1. a \in Nat /\ 1 <= a /\ a <= i /\ a <= i + 1 /\ i \in Nat /\ i <= k
    BY <1>0, <1>2 DEF Entries
  <2>2. SubSeq(u, a, i) = SubSeq(t, a, i)
    <3> HIDE DEF a
    <3>1. /\ SubSeq(t, a, i) \in Seq(q.vocab) /\ Len(SubSeq(t, a, i)) = (i - a) + 1
          /\ \A j \in 1..(i - a) + 1 : SubSeq(t, a, i)[j] = t[a + j - 1]
      <4>1. i <= Len(t)
        BY <2>1 DEF k
      <4> QED BY <2>1, <4>1, PartOf
    <3>2. /\ SubSeq(u, a, i) \in Seq(q.vocab) /\ Len(SubSeq(u, a, i)) = (i - a) + 1
          /\ \A j \in 1..(i - a) + 1 : SubSeq(u, a, i)[j] = u[a + j - 1]
      <4>1. i <= Len(u) /\ u \in Seq(q.vocab)
        BY <1>0, <2>1
      <4> QED BY <2>1, <4>1, PartOf
    <3>3. \A j \in 1..(i - a) + 1 : a + j - 1 \in 1..k
      BY <1>0, <2>1
    <3>4. \A j \in 1..(i - a) + 1 : SubSeq(u, a, i)[j] = SubSeq(t, a, i)[j]
      BY <1>0, <3>1, <3>2, <3>3
    <3> QED BY <3>1, <3>2, <3>4, SeqEqual
  <2> QED BY <2>2 DEF After
<1>3. RefersTo(q, u, k, ref)
  <2>1. ASSUME NEW i \in 1..k
        PROVE  ref[i] = After(q, u, Before(q, ref, i), i)
    <3>1. Before(q, ref, i) \in Entries /\ Before(q, ref, i).from < i
          /\ ref[i] = After(q, t, Before(q, ref, i), i)
      BY <1>1 DEF RefersTo, Follows
    <3> QED BY <1>2, <3>1
  <2> QED BY <1>1, <2>1 DEF RefersTo
<1>4. b = Before(q, ref, k + 1)
  BY <1>0
<1>5. RefersTo(q, u, k + 1, Append(ref, After(q, u, b, k + 1))) /\ b \in Entries /\ b.from <= k
  BY <1>0, <1>3, <1>4, RefersToNext
<1>6. RefersTo(q, u, n, Append(ref, After(q, u, b, n)))
  BY <1>0, <1>5
<1>7. RefersTo(q, u, n, ReferenceOf(q, u))
  BY <1>0, ReferenceIs
<1>8. ReferenceOf(q, u) = Append(ref, After(q, u, b, n))
  <2>1. n \in Nat
    BY <1>0
  <2> QED BY <1>6, <1>7, <2>1, RefersToOnce
<1>9. b.from < n
  BY <1>0, <1>5 DEF Entries
<1> QED BY <1>5, <1>8, <1>9 DEF u

----------------------------------------
(* The matcher follows the reference *)

Latest(q, t) == Before(q, ReferenceOf(q, t), Len(t) + 1)

FinishAt(q, ref, i) ==
  IF ref[i].state = Stop THEN Stop ELSE IF i >= q.limit THEN "length" ELSE None

MachineIs(q, t, m, end) ==
  /\ q \in Requests /\ t \in Seq(q.vocab) /\ Len(t) <= q.limit
  /\ m.state = Latest(q, t).state
  /\ m.state \in States => LongestEnd(Nodes(Sequences(q, m.state)), m.node,
                                      SubSeq(t, Latest(q, t).from + 1, Len(t)))
  /\ end = IF t = <<>> THEN None ELSE FinishAt(q, ReferenceOf(q, t), Len(t))
  /\ \A i \in 1..Len(t) - 1 : FinishAt(q, ReferenceOf(q, t), i) = None

(* The buffer has room for the longest control sequence. *)
LEMMA BufferSizeIs ==
  ASSUME request \in Requests
  PROVE  /\ BufferSize \in Nat /\ BufferSize >= 1
         /\ \A s \in States : \A y \in Sequences(request, s) : Len(y) <= BufferSize
<1> DEFINE X == UNION {Sequences(request, s) : s \in States}
           V == request.vocab
<1>1. \A s \in States : TrieOf(V, Sequences(request, s))
  BY TransitionsOf
<1>2. "normal" \in States /\ "reasoning" \in States /\ "tool" \in States
  BY DEF States
<1>3. X = (Sequences(request, "normal") \cup Sequences(request, "reasoning"))
          \cup Sequences(request, "tool")
  BY DEF States
<1>4. /\ IsFiniteSet(Sequences(request, "normal")) /\ IsFiniteSet(Sequences(request, "reasoning"))
      /\ IsFiniteSet(Sequences(request, "tool"))
  BY <1>1, <1>2 DEF TrieOf
<1>5. IsFiniteSet(X)
  <2>1. IsFiniteSet(Sequences(request, "normal") \cup Sequences(request, "reasoning"))
    BY <1>4, FS_Union
  <2> HIDE DEF X
  <2> QED BY <1>3, <1>4, <2>1, FS_Union
<1>6. X \subseteq Seq(V) \ {<<>>} /\ X # {}
  <2>1. Sequences(request, "normal") # {} /\ Sequences(request, "normal") \subseteq X
    BY <1>1, <1>2 DEF TrieOf
  <2>2. \A s \in States : Sequences(request, s) \subseteq Seq(V) \ {<<>>}
    BY <1>1 DEF TrieOf
  <2> QED BY <2>1, <2>2
<1>7. TrieOf(V, X)
  BY <1>5, <1>6 DEF TrieOf
<1>8. BufferSize = Depth(X)
  BY DEF BufferSize, Depth
<1>9. \A s \in States : Sequences(request, s) \subseteq X
  OBVIOUS
<1> HIDE DEF X
<1>10. /\ Depth(X) \in Nat /\ (\A y \in X : Len(y) <= Depth(X)) /\ \E y \in X : Len(y) = Depth(X)
  BY <1>7, NodesTree
<1>11. Depth(X) # 0
  <2>1. PICK y \in X : Len(y) = Depth(X)
    BY <1>10
  <2>2. y \in Seq(V) /\ y # <<>>
    BY <1>6
  <2> QED BY <2>1, <2>2, EmptySeq
<1>12. Depth(X) >= 1
  BY <1>10, <1>11
<1> QED BY <1>8, <1>9, <1>10, <1>12

Matching(q, t, x, n, b, node, c, y, e) ==
  /\ q \in Requests /\ t \in Seq(q.vocab) /\ x \in q.vocab /\ n = Len(t) + 1
  /\ b \in Entries /\ b.from < n /\ b.state \in States
  /\ LongestEnd(Nodes(Sequences(q, b.state)), node, SubSeq(t, b.from + 1, Len(t)))
  /\ c = StepTrie(BuildTrie(Sequences(q, b.state)), node, x)
  /\ y = BuildTrie(Sequences(q, b.state)).match[c]
  /\ e = After(q, Append(t, x), b, n)

(* SequenceStateMachine.match finds the entry that follows. *)
LEMMA MatchFollows ==
  ASSUME NEW q, NEW t, NEW x, NEW n, NEW b, NEW node, NEW c, NEW y, NEW e,
         Matching(q, t, x, n, b, node, c, y, e)
  PROVE  /\ e = IF y = <<>> THEN [state |-> b.state, from |-> b.from, length |-> 0]
                ELSE [state |-> Transitions(q, b.state)[y], from |-> n, length |-> Len(y)]
         /\ y # <<>> => y \in Sequences(q, b.state)
         /\ LongestEnd(Nodes(Sequences(q, b.state)), c, SubSeq(Append(t, x), b.from + 1, n))
         /\ Follows(b, e, n)
<1> USE DEF Matching
<1> DEFINE X == Sequences(q, b.state)
           V == q.vocab
           u == Append(t, x)
           a == b.from + 1
           k == Len(t)
           seen == SubSeq(t, a, k)
<1>0. TrieOf(V, X) /\ b.from \in Nat
  BY TransitionsOf DEF Entries
<1>1. u \in Seq(V) /\ Len(u) = n /\ k \in Nat /\ n \in 1..Len(u) /\ u[n] = x /\ \A i \in 1..k : u[i] = t[i]
  BY AppendItem
<1>2. a \in Nat /\ 1 <= a /\ a <= k + 1
  BY <1>0, <1>1
<1> HIDE DEF u, k, a
<1>3. /\ seen \in Seq(V) /\ Len(seen) = (k - a) + 1
      /\ \A i \in 1..(k - a) + 1 : seen[i] = t[a + i - 1]
  <2>1. k <= Len(t)
    BY <1>1 DEF k
  <2> QED BY <1>1, <1>2, <2>1, PartOf
<1>4. SubSeq(u, a, n) = Append(seen, x)
  <2>1. /\ SubSeq(u, a, k) \in Seq(V) /\ Len(SubSeq(u, a, k)) = (k - a) + 1
        /\ \A i \in 1..(k - a) + 1 : SubSeq(u, a, k)[i] = u[a + i - 1]
        /\ SubSeq(u, a, k + 1) = Append(SubSeq(u, a, k), u[k + 1])
    <3>1. k <= Len(u) /\ k < Len(u) /\ k \in Nat /\ u \in Seq(V)
      BY <1>1 DEF k
    <3> QED BY <1>2, <3>1, PartOf
  <2>2. \A i \in 1..(k - a) + 1 : a + i - 1 \in 1..k
    BY <1>1, <1>2
  <2>3. \A i \in 1..(k - a) + 1 : SubSeq(u, a, k)[i] = seen[i]
    BY <1>1, <1>3, <2>1, <2>2
  <2>4. SubSeq(u, a, k) = seen
    BY <1>3, <2>1, <2>3, SeqEqual
  <2>5. n = k + 1
    BY DEF k
  <2> QED BY <1>1, <2>1, <2>4, <2>5
<1>5. LongestEnd(Nodes(X), node, seen)
  BY DEF a, k
<1> HIDE DEF seen, X
<1>6. LongestEnd(Nodes(X), c, Append(seen, x)) /\ MatchOf(X, Append(seen, x), y)
  <2>1. c = StepTrie(BuildTrie(X), node, x) /\ y = BuildTrie(X).match[c]
    BY DEF X
  <2> QED BY <1>0, <1>3, <1>5, <2>1, TrieFollows
<1>7. Append(seen, x) \in Seq(V) /\ Seen(u, b, n) = Append(seen, x)
  BY <1>3, <1>4, AppendItem DEF Seen, a
<1>8. e = IF y = <<>> THEN [state |-> b.state, from |-> b.from, length |-> 0]
          ELSE [state |-> Transitions(q, b.state)[y], from |-> n, length |-> Len(y)]
  <2>1. Seen(u, b, n) \in Seq(q.vocab) /\ MatchOf(Sequences(q, b.state), Seen(u, b, n), y)
    BY <1>6, <1>7 DEF X
  <2>2. e = After(q, u, b, n)
    BY DEF u
  <2> QED BY <2>1, <2>2, AfterIs
<1>9. y # <<>> => y \in X
  BY <1>6 DEF MatchOf
<1>10. Follows(b, e, n)
  <2>1. e = After(q, u, b, n)
    BY DEF u
  <2> QED BY <1>1, <2>1, AfterFollows
<1>11. LongestEnd(Nodes(X), c, SubSeq(u, a, n))
  BY <1>4, <1>6
<1> QED BY <1>8, <1>9, <1>10, <1>11 DEF X, u, a

EndBy(q, s, n) == IF s = Stop THEN Stop ELSE IF n >= q.limit THEN "length" ELSE None

(* A token generated while the generation goes on. *)
LEMMA MachineStep ==
  ASSUME MachineIs(request, tokens, matcher, ended), ended = None,
         NEW x \in request.vocab, NEW k, k = Match(matcher, x), NEW n, n = Len(tokens) + 1,
         NEW b, b = Latest(request, tokens),
         NEW e, e = After(request, Append(tokens, x), b, n),
         NEW m, m.state = k.state, m.node = k.node,
         NEW end, end = EndBy(request, k.state, n)
  PROVE  /\ MachineIs(request, Append(tokens, x), m, end)
         /\ ReferenceOf(request, Append(tokens, x)) = Append(Reference, e)
         /\ Follows(b, e, n) /\ k.state = e.state /\ k.length = e.length
         /\ b.state \in States /\ e.length <= BufferSize
<1> DEFINE q == request
           t == tokens
           u == Append(t, x)
           ref == Reference
           new == ReferenceOf(q, u)
           X == Sequences(q, b.state)
           c == StepTrie(BuildTrie(X), matcher.node, x)
           y == BuildTrie(X).match[c]
<1>0. q \in Requests /\ t \in Seq(q.vocab) /\ q.limit \in Nat /\ q.limit # 0 /\ q.initial \in States
  BY RequestsAssumption DEF MachineIs
<1>1. u \in Seq(q.vocab) /\ Len(u) = n /\ n \in Nat /\ Len(t) \in Nat /\ u # <<>> /\ n - 1 = Len(t)
  <2>1. u \in Seq(q.vocab) /\ Len(u) = n /\ n \in Nat /\ Len(t) \in Nat /\ Len(u) # 0
    BY <1>0, AppendItem
  <2> QED BY <2>1
<1>2. /\ RefersTo(q, t, Len(t), ref) /\ ref \in Seq(Entries) /\ Len(ref) = Len(t)
  BY <1>0, ReferenceIs DEF Reference, RefersTo
<1>3. new = Append(ref, e) /\ b \in Entries /\ b.from < n
  <2>1. b = Before(q, ref, n)
    BY DEF Latest, Reference
  <2> QED BY <1>0, <2>1, ReferenceAppend DEF Reference
<1>4. b.state \in States /\ matcher.state = b.state
  <2>1. matcher.state = b.state
    BY DEF MachineIs
  <2>2. CASE t = <<>>
    <3>1. b = Start(q)
      BY <2>2 DEF Latest, Before
    <3> QED BY <1>0, <2>1, <3>1 DEF Start
  <2>3. CASE t # <<>>
    <3>1. n # 1
      BY <1>0, <1>1, <2>3, EmptySeq
    <3>2. b = ref[Len(t)]
      BY <1>1, <3>1 DEF Latest, Before, Reference
    <3>3. FinishAt(q, ref, Len(t)) = None
      BY <2>3 DEF MachineIs, Reference
    <3>4. b.state # Stop
      BY <3>2, <3>3 DEF FinishAt, Stop, None
    <3> QED BY <1>3, <2>1, <3>4 DEF Entries, Targets
  <2> QED BY <2>2, <2>3
<1>5. k = IF y = <<>> THEN [state |-> b.state, node |-> c, length |-> 0]
          ELSE [state |-> Transitions(q, b.state)[y], node |-> <<>>, length |-> Len(y)]
  <2>1. Tries[q][b.state] = BuildTrie(X)
    BY <1>0, <1>4 DEF Tries
  <2> QED BY <1>4, <2>1 DEF Match
<1>6. LongestEnd(Nodes(X), matcher.node, SubSeq(t, b.from + 1, Len(t)))
  BY <1>4 DEF MachineIs
<1> HIDE DEF c, y
<1>7. /\ e = IF y = <<>> THEN [state |-> b.state, from |-> b.from, length |-> 0]
             ELSE [state |-> Transitions(q, b.state)[y], from |-> n, length |-> Len(y)]
      /\ y # <<>> => y \in X
      /\ LongestEnd(Nodes(X), c, SubSeq(u, b.from + 1, n))
      /\ Follows(b, e, n)
  <2>1. c = StepTrie(BuildTrie(Sequences(q, b.state)), matcher.node, x)
        /\ y = BuildTrie(Sequences(q, b.state)).match[c]
    BY DEF c, y
  <2>2. Matching(q, t, x, n, b, matcher.node, c, y, e)
    BY <1>0, <1>3, <1>4, <1>6, <2>1 DEF Matching
  <2> QED BY <2>2, MatchFollows
<1>8. k.state = e.state /\ k.length = e.length
      /\ (IF y = <<>> THEN k.node = c /\ e.from = b.from /\ e.state = b.state /\ e.length = 0
          ELSE k.node = <<>> /\ e.from = n /\ e.length = Len(y))
  BY <1>5, <1>7
<1>9. e.length <= BufferSize
  <2>1. BufferSize >= 0 /\ \A z \in X : Len(z) <= BufferSize
    BY <1>0, <1>4, BufferSizeIs
  <2> QED BY <1>7, <1>8, <2>1
<1>10. e \in Entries
  BY <1>7 DEF Follows
<1>11. new[n] = e /\ \A i \in 1..Len(t) : new[i] = ref[i]
  <2>1. Len(ref) + 1 = n
    BY <1>2
  <2> QED BY <1>2, <1>3, <1>10, <2>1, AppendItem
<1>12. Latest(q, u) = e
  <2>1. n + 1 # 1 /\ (n + 1) - 1 = n
    BY <1>1
  <2> HIDE DEF new
  <2>2. Latest(q, u) = new[n]
    BY <1>1, <2>1 DEF Latest, Before, new
  <2> QED BY <1>11, <2>2
<1>13. n <= q.limit
  <2>1. CASE t = <<>>
    <3>1. n = 1
      BY <2>1
    <3> QED BY <1>0, <3>1
  <2>2. CASE t # <<>>
    <3>1. FinishAt(q, ref, Len(t)) = None
      BY <2>2 DEF MachineIs, Reference
    <3>2. ~(Len(t) >= q.limit)
      BY <3>1 DEF FinishAt, Stop, None
    <3> QED BY <1>0, <1>1, <3>2
  <2> QED BY <2>1, <2>2
<1>14. m.state \in States => LongestEnd(Nodes(Sequences(q, m.state)), m.node, SubSeq(u, e.from + 1, n))
  <2>1. CASE y = <<>>
    BY <1>7, <1>8, <2>1
  <2>2. CASE y # <<>>
    <3>1. m.node = <<>> /\ e.from = n
      BY <1>8, <2>2
    <3>2. SubSeq(u, n + 1, n) = <<>>
      <4>1. n + 1 \in Int /\ n \in Int /\ n < n + 1
        BY <1>1
      <4> QED BY <4>1, SubSeqEmpty
    <3>3. SUFFICES ASSUME m.state \in States
                   PROVE  LongestEnd(Nodes(Sequences(q, m.state)), <<>>, <<>>)
      BY <3>1, <3>2
    <3> DEFINE N == Nodes(Sequences(q, m.state))
               V == q.vocab
    <3>4. TrieOf(V, Sequences(q, m.state))
      BY <1>0, <3>3, TransitionsOf
    <3>5. N \subseteq Seq(V) /\ <<>> \in N
      BY <3>4, NodesTree DEF Tree
    <3> HIDE DEF N
    <3>6. <<>> \in Seq(V)
      OBVIOUS
    <3>7. IsSuffix(<<>>, <<>>) /\ \A p \in N : IsSuffix(p, <<>>) => Len(p) <= Len(<<>>)
      <4> DEFINE z == <<>>
      <4>1. z \in Seq(V)
        BY <3>6
      <4> HIDE DEF z
      <4>2. IsSuffix(z, z) /\ \A p \in N : IsSuffix(p, z) => Len(p) <= Len(z)
        BY <3>5, <4>1, EndsOfEnds
      <4> QED BY <4>2 DEF z
    <3> QED BY <3>5, <3>7 DEF LongestEnd, N
  <2> QED BY <2>1, <2>2
<1>15. end = FinishAt(q, new, n)
  BY <1>8, <1>11 DEF FinishAt, EndBy
<1>16. ASSUME NEW i \in 1..n - 1 PROVE FinishAt(q, new, i) = None
  <2>1. i \in 1..Len(t) /\ new[i] = ref[i]
    BY <1>1, <1>11
  <2>2. FinishAt(q, ref, i) = None
    <3>1. CASE i = Len(t)
      <4>1. t # <<>>
        <5>1. Len(t) # 0
          BY <2>1
        <5> QED BY <5>1
      <4> QED BY <3>1, <4>1 DEF MachineIs, Reference
    <3>2. CASE i # Len(t)
      <4>1. i \in 1..Len(t) - 1
        BY <1>1, <2>1, <3>2
      <4> QED BY <4>1 DEF MachineIs, Reference
    <3> QED BY <3>1, <3>2
  <2> QED BY <2>1, <2>2 DEF FinishAt
<1> HIDE DEF u, new
<1>17. MachineIs(q, u, m, end)
  <2>1. u = <<>> <=> FALSE
    BY <1>1
  <2>2. m.state = Latest(q, u).state
    BY <1>8, <1>12
  <2> QED BY <1>0, <1>1, <1>12, <1>13, <1>14, <1>15, <1>16, <2>1, <2>2 DEF MachineIs, new
<1> QED BY <1>3, <1>4, <1>7, <1>8, <1>9, <1>17 DEF u, new

----------------------------------------
(* What the handler makes of a response *)

Handlers(V) ==
  [prev : Targets \cup {None}, tool : Seq(Nat), calls : Seq(Seq(Nat)), text : Seq(Nat),
   reasoning : Seq(Nat), made : BOOLEAN, finish : {Stop, "length"}, count : Nat,
   toolTokens : Nat, reasoningTokens : Nat, cut : BOOLEAN,
   span : [state : {None, "reasoning", "normal"}, tokens : Seq(V)]]

Reads(V) ==
  [token : V, state : Targets, text : Seq(Nat), finish : {None, Stop, "length"}]

Closes(r) == r.state = "normal" /\ h.prev = "tool"

By(r, s) == IF r.state = s THEN r.text ELSE <<>>

(* What Collected says of every variable of the handler. *)
LEMMA CollectedIs ==
  ASSUME NEW V, h \in Handlers(V), NEW r \in Reads(V), NEW c, c = Collected(r)
  PROVE  /\ c \in Handlers(V)
         /\ c.prev = h.prev /\ c.finish = h.finish /\ c.cut = h.cut /\ c.count = h.count + 1
         /\ c.reasoning = h.reasoning \o By(r, "reasoning") /\ c.text = h.text \o By(r, "normal")
         /\ c.tool = IF Closes(r) THEN <<>> ELSE h.tool \o By(r, "tool")
         /\ c.calls = IF Closes(r) THEN Append(h.calls, h.tool) ELSE h.calls
         /\ c.made = (h.made \/ Closes(r))
         /\ c.toolTokens = IF r.state = "tool" THEN h.toolTokens + 1 ELSE 0
         /\ c.reasoningTokens = IF r.state = "reasoning" THEN h.reasoningTokens + 1 ELSE 0
         /\ c.span = Spanned(h, r)
<1>1. /\ h.prev \in Targets \cup {None} /\ h.tool \in Seq(Nat) /\ h.calls \in Seq(Seq(Nat))
      /\ h.text \in Seq(Nat) /\ h.reasoning \in Seq(Nat) /\ h.made \in BOOLEAN
      /\ h.finish \in {Stop, "length"} /\ h.count \in Nat /\ h.toolTokens \in Nat
      /\ h.reasoningTokens \in Nat /\ h.cut \in BOOLEAN
      /\ h.span \in [state : {None, "reasoning", "normal"}, tokens : Seq(V)]
  BY DEF Handlers
<1>2. r.token \in V /\ r.state \in Targets /\ r.text \in Seq(Nat)
  BY DEF Reads
<1>3. Spanned(h, r) \in [state : {None, "reasoning", "normal"}, tokens : Seq(V)]
  <2>1. CASE r.state \notin {"reasoning", "normal"}
    <3>1. <<>> \in Seq(V)
      OBVIOUS
    <3> QED BY <2>1, <3>1 DEF Spanned
  <2>2. CASE r.state \in {"reasoning", "normal"}
    <3> DEFINE s == IF r.state = h.span.state THEN h.span.tokens ELSE <<>>
    <3>1. s \in Seq(V)
      <4>1. h.span.tokens \in Seq(V) /\ <<>> \in Seq(V)
        BY <1>1
      <4> QED BY <4>1, Zenon
    <3>2. Spanned(h, r) = [state |-> r.state, tokens |-> Append(s, r.token)]
      BY <2>2 DEF Spanned
    <3> HIDE DEF s
    <3>3. Append(s, r.token) \in Seq(V)
      BY <1>2, <3>1
    <3> QED BY <2>2, <3>2, <3>3
  <2> QED BY <2>1, <2>2
<1> DEFINE tool == IF Closes(r) THEN <<>> ELSE h.tool \o By(r, "tool")
           calls == IF Closes(r) THEN Append(h.calls, h.tool) ELSE h.calls
           text == h.text \o By(r, "normal")
           reasoning == h.reasoning \o By(r, "reasoning")
           made == h.made \/ Closes(r)
           count == h.count + 1
           toolTokens == IF r.state = "tool" THEN h.toolTokens + 1 ELSE 0
           reasoningTokens == IF r.state = "reasoning" THEN h.reasoningTokens + 1 ELSE 0
           span == Spanned(h, r)
<1>4. c = [h EXCEPT !.reasoning = reasoning, !.text = text, !.tool = tool, !.calls = calls,
                    !.made = made, !.count = count, !.toolTokens = toolTokens,
                    !.reasoningTokens = reasoningTokens, !.span = span]
  BY DEF Collected, By, Closes
<1>5. \A s : By(r, s) \in Seq(Nat)
  <2>1. <<>> \in Seq(Nat)
    OBVIOUS
  <2> QED BY <1>2, <2>1 DEF By
<1>6. tool \in Seq(Nat) /\ calls \in Seq(Seq(Nat)) /\ text \in Seq(Nat) /\ reasoning \in Seq(Nat)
      /\ made \in BOOLEAN /\ count \in Nat /\ toolTokens \in Nat /\ reasoningTokens \in Nat
  <2>1. h.text \o By(r, "normal") \in Seq(Nat) /\ h.reasoning \o By(r, "reasoning") \in Seq(Nat)
        /\ h.tool \o By(r, "tool") \in Seq(Nat) /\ Append(h.calls, h.tool) \in Seq(Seq(Nat))
        /\ <<>> \in Seq(Nat)
    BY <1>1, <1>5
  <2>2. tool \in Seq(Nat)
    BY <2>1, Zenon
  <2> QED BY <1>1, <2>1, <2>2, SMTT(30)
<1> HIDE DEF tool, calls, text, reasoning, made, count, toolTokens, reasoningTokens, span
<1>7. c = [prev |-> h.prev, tool |-> tool, calls |-> calls, text |-> text,
           reasoning |-> reasoning, made |-> made, finish |-> h.finish, count |-> count,
           toolTokens |-> toolTokens, reasoningTokens |-> reasoningTokens, cut |-> h.cut,
           span |-> span]
  BY <1>4 DEF Handlers
<1>8. c \in Handlers(V)
  BY <1>1, <1>3, <1>6, <1>7 DEF Handlers, span
<1> QED BY <1>7, <1>8 DEF tool, calls, text, reasoning, made, count, toolTokens,
                          reasoningTokens, span

(* No guard trips on nothing. *)
LEMMA NoLoop == ~HasLoop(<<>>)
<1> DEFINE s == <<>>
<1>1. Len(s) = 0
  OBVIOUS
<1> HIDE DEF s
<1>2. SUFFICES ASSUME HasLoop(s) PROVE FALSE
  BY DEF s
<1>3. NgramSize > 0 /\ Repeats > 1 /\ NgramSize \in Nat /\ Repeats \in Nat
  BY <1>2, GuardsAssumption DEF HasLoop
<1>4. PICK n \in {8, 16, 32, 64, NgramSize} : n * Repeats <= Len(s)
  BY <1>2 DEF HasLoop
<1>5. n \in Nat /\ n >= 1
  BY <1>3
<1>6. n * Repeats >= Repeats
  BY <1>3, <1>5
<1> QED BY <1>1, <1>3, <1>4, <1>5, <1>6

Like(c, d) ==
  /\ d.tool = c.tool /\ d.made = c.made /\ d.count = c.count /\ d.span = c.span
  /\ d.toolTokens = c.toolTokens /\ d.reasoningTokens = c.reasoningTokens

Same(c, d) == d.text = c.text /\ d.reasoning = c.reasoning /\ d.calls = c.calls

GoesOn(c, r) ==
  /\ phase' = "loop" /\ NoGuardTrips(c) /\ connected' = connected
  /\ Like(c, h') /\ h'.prev = r.state /\ h'.cut = c.cut
  /\ \/ /\ Same(c, h')
        /\ request.api = "chat" =>
             /\ sent' = sent
             /\ request.stream /\ r.state # "tool" =>
                  c.text = <<>> /\ c.reasoning = <<>> /\ c.calls = <<>>
     \/ /\ request.api = "chat" /\ request.stream /\ r.state # "tool"
        /\ h'.text = <<>> /\ h'.reasoning = <<>> /\ h'.calls = <<>>
        /\ \E parsed \in SUBSET Range(c.calls) : sent' = Append(sent, Chunk(c, parsed, None))

Breaks(c, r) ==
  /\ phase' = "final" /\ Like(c, h') /\ h'.prev = c.prev
  /\ \/ Same(c, h')
     \/ /\ r.state = "reasoning" /\ h'.text = Append(c.text, Message)
        /\ h'.reasoning = c.reasoning /\ h'.calls = c.calls
  /\ h'.cut = (c.cut \/ r.state = "tool")
  /\ request.api = "chat" => sent' = sent
  /\ r.state = Stop => /\ request.api = "chat" /\ request.stream
                       /\ c.text # <<>> \/ c.reasoning # <<>> \/ c.calls # <<>>

(* A handler that is changed in some variables. *)
LEMMA ChangedHandler ==
  ASSUME NEW V, NEW c \in Handlers(V)
  PROVE  /\ \A f \in {Stop, "length"} :
              /\ [c EXCEPT !.finish = f] \in Handlers(V)
              /\ Like(c, [c EXCEPT !.finish = f]) /\ Same(c, [c EXCEPT !.finish = f])
              /\ [c EXCEPT !.finish = f].prev = c.prev /\ [c EXCEPT !.finish = f].cut = c.cut
              /\ \A p \in Targets : LET d == [c EXCEPT !.finish = f, !.prev = p]
                                    IN  /\ d \in Handlers(V) /\ Like(c, d) /\ Same(c, d)
                                        /\ d.prev = p /\ d.cut = c.cut
         /\ LET d == [c EXCEPT !.cut = TRUE]
            IN  /\ d \in Handlers(V) /\ Like(c, d) /\ Same(c, d) /\ d.prev = c.prev
                /\ d.cut = TRUE
         /\ LET d == [c EXCEPT !.text = Append(@, Message)]
            IN  /\ d \in Handlers(V) /\ Like(c, d) /\ d.text = Append(c.text, Message)
                /\ d.reasoning = c.reasoning /\ d.calls = c.calls /\ d.prev = c.prev
                /\ d.cut = c.cut
         /\ LET d == [c EXCEPT !.text = <<>>, !.reasoning = <<>>, !.calls = <<>>]
            IN  /\ d \in Handlers(V) /\ Like(c, d) /\ d.text = <<>>
                /\ d.reasoning = <<>> /\ d.calls = <<>> /\ d.prev = c.prev
                /\ d.cut = c.cut
<1>1. /\ c.prev \in Targets \cup {None} /\ c.tool \in Seq(Nat) /\ c.calls \in Seq(Seq(Nat))
      /\ c.text \in Seq(Nat) /\ c.reasoning \in Seq(Nat) /\ c.made \in BOOLEAN
      /\ c.finish \in {Stop, "length"} /\ c.count \in Nat /\ c.toolTokens \in Nat
      /\ c.reasoningTokens \in Nat /\ c.cut \in BOOLEAN
      /\ c.span \in [state : {None, "reasoning", "normal"}, tokens : Seq(V)]
  BY DEF Handlers
<1>2. ASSUME NEW f \in {Stop, "length"}
      PROVE  /\ [c EXCEPT !.finish = f] \in Handlers(V)
             /\ Like(c, [c EXCEPT !.finish = f]) /\ Same(c, [c EXCEPT !.finish = f])
             /\ [c EXCEPT !.finish = f].prev = c.prev /\ [c EXCEPT !.finish = f].cut = c.cut
  BY DEF Handlers, Like, Same
<1>3. ASSUME NEW f \in {Stop, "length"}, NEW p \in Targets
      PROVE  LET d == [c EXCEPT !.finish = f, !.prev = p]
             IN  /\ d \in Handlers(V) /\ Like(c, d) /\ Same(c, d)
                 /\ d.prev = p /\ d.cut = c.cut
  BY DEF Handlers, Like, Same
<1>4. LET d == [c EXCEPT !.cut = TRUE]
      IN  /\ d \in Handlers(V) /\ Like(c, d) /\ Same(c, d) /\ d.prev = c.prev /\ d.cut = TRUE
  BY DEF Handlers, Like, Same
<1>5. LET d == [c EXCEPT !.text = Append(@, Message)]
      IN  /\ d \in Handlers(V) /\ Like(c, d) /\ d.text = Append(c.text, Message)
          /\ d.reasoning = c.reasoning /\ d.calls = c.calls /\ d.prev = c.prev /\ d.cut = c.cut
  <2>1. Append(c.text, Message) \in Seq(Nat)
    BY <1>1 DEF Message
  <2> DEFINE tx == Append(c.text, Message)
  <2>2. [c EXCEPT !.text = Append(@, Message)] = [c EXCEPT !.text = tx]
    OBVIOUS
  <2> HIDE DEF tx
  <2>3. LET d == [c EXCEPT !.text = tx]
        IN  /\ d \in Handlers(V) /\ Like(c, d) /\ d.text = tx
            /\ d.reasoning = c.reasoning /\ d.calls = c.calls /\ d.prev = c.prev /\ d.cut = c.cut
    BY <2>1 DEF Handlers, Like, tx
  <2> QED BY <2>2, <2>3 DEF tx
<1>6. LET d == [c EXCEPT !.text = <<>>, !.reasoning = <<>>, !.calls = <<>>]
      IN  /\ d \in Handlers(V) /\ Like(c, d) /\ d.text = <<>>
          /\ d.reasoning = <<>> /\ d.calls = <<>> /\ d.prev = c.prev /\ d.cut = c.cut
  <2> DEFINE e == <<>>
  <2>1. e \in Seq(Nat) /\ e \in Seq(Seq(Nat))
    OBVIOUS
  <2> HIDE DEF e
  <2>2. LET d == [c EXCEPT !.text = e, !.reasoning = e, !.calls = e]
        IN  /\ d \in Handlers(V) /\ Like(c, d) /\ d.text = e
            /\ d.reasoning = e /\ d.calls = e /\ d.prev = c.prev /\ d.cut = c.cut
    BY <2>1 DEF Handlers, Like
  <2> QED BY <2>2 DEF e
<1> QED BY <1>2, <1>3, <1>4, <1>5, <1>6

Kept(c, r) ==
  /\ c.span = Spanned(h, r)
  /\ c.toolTokens = IF r.state = "tool" THEN h.toolTokens + 1 ELSE 0
  /\ c.reasoningTokens = IF r.state = "reasoning" THEN h.reasoningTokens + 1 ELSE 0

(* Reading that breaks off changes nothing but the reason. *)
LEMMA BrokenOff ==
  ASSUME NEW V, NEW k \in Handlers(V), NEW s \in {Stop, "length"}, Break(k, s)
  PROVE  /\ phase' = "final" /\ h' \in Handlers(V) /\ Like(k, h') /\ Same(k, h')
         /\ h'.prev = k.prev /\ h'.cut = k.cut
<1> DEFINE f(t) == [k EXCEPT !.finish = t]
<1>1. h' = f(s) /\ phase' = "final"
  BY DEF Break
<1>2. \A t \in {Stop, "length"} : /\ f(t) \in Handlers(V) /\ Like(k, f(t)) /\ Same(k, f(t))
                                /\ f(t).prev = k.prev /\ f(t).cut = k.cut
  BY ChangedHandler, ZenonT(40)
<1> HIDE DEF f
<1> QED BY <1>1, <1>2

(* A guard of the tokens trips in the text, or on a tool call that is too long. *)
LEMMA TrippedGuard ==
  ASSUME NEW V, NEW r \in Reads(V), NEW c \in Handlers(V), Kept(c, r), TokenGuards(c)
  PROVE  /\ phase' = "final" /\ h' \in Handlers(V) /\ Like(c, h') /\ Same(c, h')
         /\ h'.prev = c.prev /\ h'.cut = (c.cut \/ r.state = "tool") /\ r.state # Stop
<1> DEFINE d == [c EXCEPT !.cut = TRUE]
<1>1. r.state \in Targets
  BY DEF Reads
<1>2. ToolMax \in Nat /\ ReasoningMax \in Nat
  BY GuardsAssumption
<1>3. ~HasLoop(<<>>)
  BY NoLoop
<1>4. r.state \notin {"reasoning", "normal"} => c.span.tokens = <<>>
  BY DEF Kept, Spanned
<1>5. HasLoop(c.span.tokens) => r.state \in {"reasoning", "normal"}
  BY <1>3, <1>4
<1>6. ToolTooLong(c) => r.state = "tool"
  BY <1>2 DEF Kept, ToolTooLong
<1>7. ReasoningTooLong(c) => r.state = "reasoning"
  BY <1>2 DEF Kept, ReasoningTooLong
<1>8. d \in Handlers(V) /\ Like(c, d) /\ Same(c, d) /\ d.prev = c.prev /\ d.cut = TRUE
  BY ChangedHandler
<1>9. ASSUME NEW k \in Handlers(V), NEW s \in {Stop, "length"}, Break(k, s)
      PROVE  /\ phase' = "final" /\ h' \in Handlers(V) /\ Like(k, h') /\ Same(k, h')
             /\ h'.prev = k.prev /\ h'.cut = k.cut
  BY <1>9, BrokenOff
<1>10. CASE HasLoop(c.span.tokens) /\ Break(c, Stop)
  <2>1. r.state \in {"reasoning", "normal"}
    BY <1>5, <1>10
  <2>2. c.cut \in BOOLEAN
    BY DEF Handlers
  <2>3. /\ phase' = "final" /\ h' \in Handlers(V) /\ Like(c, h') /\ Same(c, h')
        /\ h'.prev = c.prev /\ h'.cut = c.cut
    BY <1>9, <1>10
  <2> QED BY <2>1, <2>2, <2>3 DEF Stop
<1>11. CASE ToolTooLong(c) /\ Break(d, "length")
  <2>1. r.state = "tool"
    BY <1>6, <1>11
  <2>2. /\ phase' = "final" /\ h' \in Handlers(V) /\ Like(d, h') /\ Same(d, h')
        /\ h'.prev = d.prev /\ h'.cut = d.cut
    BY <1>8, <1>9, <1>11
  <2> HIDE DEF d
  <2>3. Like(c, h') /\ Same(c, h')
    BY <1>8, <2>2 DEF Like, Same
  <2> QED BY <1>8, <2>1, <2>2, <2>3 DEF Stop
<1>12. CASE ReasoningTooLong(c) /\ Break(c, "length")
  <2>1. r.state = "reasoning"
    BY <1>7, <1>12
  <2>2. c.cut \in BOOLEAN
    BY DEF Handlers
  <2>3. /\ phase' = "final" /\ h' \in Handlers(V) /\ Like(c, h') /\ Same(c, h')
        /\ h'.prev = c.prev /\ h'.cut = c.cut
    BY <1>9, <1>12
  <2> QED BY <2>1, <2>2, <2>3 DEF Stop
<1> QED BY <1>10, <1>11, <1>12 DEF TokenGuards

Finished(V, c, d) == d \in Handlers(V) /\ Like(c, d) /\ Same(c, d) /\ d.cut = c.cut

Ended(c, f, p) == [c EXCEPT !.finish = f, !.prev = p]

Marked(c) == [c EXCEPT !.text = Append(@, Message)]

Emptied(c) == [c EXCEPT !.text = <<>>, !.reasoning = <<>>, !.calls = <<>>]

Changed(V, c, d) ==
  d \in Handlers(V) /\ Like(c, d) /\ d.prev = c.prev /\ d.cut = c.cut

(* Some changes of a handler, with names for the results. *)
LEMMA NamedChanges ==
  ASSUME NEW V, NEW c \in Handlers(V)
  PROVE  /\ \A f \in {Stop, "length"}, p \in Targets :
              Finished(V, c, Ended(c, f, p)) /\ Ended(c, f, p).prev = p
         /\ Changed(V, c, Marked(c)) /\ Marked(c).text = Append(c.text, Message)
         /\ Marked(c).reasoning = c.reasoning /\ Marked(c).calls = c.calls
         /\ Changed(V, c, Emptied(c)) /\ Emptied(c).text = <<>>
         /\ Emptied(c).reasoning = <<>> /\ Emptied(c).calls = <<>>
<1>1. ASSUME NEW f \in {Stop, "length"}, NEW p \in Targets
      PROVE  Finished(V, c, Ended(c, f, p)) /\ Ended(c, f, p).prev = p
  BY DEF Finished, Handlers, Like, Same, Ended
<1>2. Changed(V, c, Marked(c)) /\ Marked(c).text = Append(c.text, Message)
      /\ Marked(c).reasoning = c.reasoning /\ Marked(c).calls = c.calls
  BY ChangedHandler DEF Changed, Marked
<1>3. Changed(V, c, Emptied(c)) /\ Emptied(c).text = <<>>
      /\ Emptied(c).reasoning = <<>> /\ Emptied(c).calls = <<>>
  BY ChangedHandler DEF Changed, Emptied
<1> QED BY <1>1, <1>2, <1>3

Taken(c, r) ==
  \/ r.state = "reasoning" /\ Break(Marked(c), Stop) /\ (request.api = "chat" => sent' = sent)
  \/ r.state = "normal" /\ Break(c, Stop) /\ (request.api = "chat" => sent' = sent)
  \/ TokenGuards(c) /\ sent' = sent
  \/ NoGuardTrips(c) /\ ChatStream(c, r) /\ request.api = "chat"
  \/ NoGuardTrips(c) /\ ResponsesStream(c, r) /\ request.api = "responses"

(* The handler's loop goes on with the next response, or it is left. *)
LEMMA TakenOutcomes ==
  ASSUME NEW V, NEW c \in Handlers(V), phase = "loop", NEW r \in Reads(V), Kept(c, r), Taken(c, r)
  PROVE  h' \in Handlers(V) /\ (GoesOn(c, r) \/ Breaks(c, r))
<1> DEFINE marked == Marked(c)
           emptied == Emptied(c)
<1>0. marked = Marked(c) /\ emptied = Emptied(c)
  OBVIOUS
<1> HIDE DEF marked, emptied
<1>1. c \in Handlers(V) /\ Kept(c, r)
  OBVIOUS
<1>2. /\ marked \in Handlers(V) /\ Like(c, marked) /\ marked.text = Append(c.text, Message)
      /\ marked.reasoning = c.reasoning /\ marked.calls = c.calls /\ marked.prev = c.prev
      /\ marked.cut = c.cut
  BY <1>0, <1>1, NamedChanges DEF Changed
<1>3. /\ emptied \in Handlers(V) /\ Like(c, emptied) /\ emptied.text = <<>>
      /\ emptied.reasoning = <<>> /\ emptied.calls = <<>> /\ emptied.prev = c.prev
      /\ emptied.cut = c.cut
  BY <1>0, <1>1, NamedChanges DEF Changed
<1>4. r.state \in Targets /\ r.finish \in {None, Stop, "length"}
  BY DEF Reads
<1>5. c.cut \in BOOLEAN
  BY <1>1 DEF Handlers
<1>6. ASSUME NEW k \in Handlers(V), NEW s \in {Stop, "length"}, Break(k, s)
      PROVE  /\ phase' = "final" /\ h' \in Handlers(V) /\ Like(k, h') /\ Same(k, h')
             /\ h'.prev = k.prev /\ h'.cut = k.cut
  BY <1>6, BrokenOff
<1>7. ASSUME NEW k \in Handlers(V), GoOn(k, r)
      PROVE  /\ phase' = "loop" /\ h' \in Handlers(V) /\ Like(k, h') /\ Same(k, h')
             /\ h'.prev = r.state /\ h'.cut = k.cut
  <2> DEFINE s == IF r.finish = None THEN k.finish ELSE r.finish
             d == Ended(k, s, r.state)
  <2>1. h' = d /\ phase' = "loop"
    BY <1>7 DEF GoOn, Ended
  <2>2. s \in {Stop, "length"}
    BY <1>4 DEF Handlers
  <2> HIDE DEF s
  <2>3. d = Ended(k, s, r.state)
    OBVIOUS
  <2> HIDE DEF d
  <2>4. d \in Handlers(V) /\ Like(k, d) /\ Same(k, d) /\ d.prev = r.state /\ d.cut = k.cut
    BY <1>4, <2>2, <2>3, NamedChanges DEF Finished
  <2> QED BY <2>1, <2>4
<1>8. ASSUME Break(marked, Stop), r.state = "reasoning", request.api = "chat" => sent' = sent
      PROVE  h' \in Handlers(V) /\ Breaks(c, r)
  <2>1. /\ phase' = "final" /\ h' \in Handlers(V) /\ Like(marked, h') /\ Same(marked, h')
        /\ h'.prev = marked.prev /\ h'.cut = marked.cut
    BY <1>2, <1>6, <1>8
  <2>2. Like(c, h')
    BY <1>2, <2>1 DEF Like
  <2>3. h'.text = Append(c.text, Message) /\ h'.reasoning = c.reasoning /\ h'.calls = c.calls
    BY <1>2, <2>1 DEF Same
  <2>4. h'.prev = c.prev /\ h'.cut = (c.cut \/ r.state = "tool") /\ r.state # Stop
    BY <1>2, <1>5, <1>8, <2>1 DEF Stop
  <2> QED BY <1>8, <2>1, <2>2, <2>3, <2>4 DEF Breaks
<1>9. ASSUME Break(c, Stop), r.state \in {"reasoning", "normal"}, request.api = "chat" => sent' = sent
      PROVE  h' \in Handlers(V) /\ Breaks(c, r)
  <2>1. /\ phase' = "final" /\ h' \in Handlers(V) /\ Like(c, h') /\ Same(c, h')
        /\ h'.prev = c.prev /\ h'.cut = c.cut
    BY <1>1, <1>6, <1>9
  <2>2. h'.cut = (c.cut \/ r.state = "tool") /\ r.state # Stop
    BY <1>5, <1>9, <2>1 DEF Stop
  <2> QED BY <1>9, <2>1, <2>2 DEF Breaks
<1>10. ASSUME TokenGuards(c), sent' = sent
       PROVE  h' \in Handlers(V) /\ Breaks(c, r)
  <2>1. /\ phase' = "final" /\ h' \in Handlers(V) /\ Like(c, h') /\ Same(c, h')
        /\ h'.prev = c.prev /\ h'.cut = (c.cut \/ r.state = "tool") /\ r.state # Stop
    BY <1>1, <1>10, TrippedGuard
  <2> QED BY <1>10, <2>1 DEF Breaks
<1>11. ASSUME NoGuardTrips(c), ChatStream(c, r), request.api = "chat"
       PROVE  h' \in Handlers(V) /\ (GoesOn(c, r) \/ Breaks(c, r))
  <2>1. CASE ~(/\ request.stream /\ r.state # "tool"
               /\ c.text # <<>> \/ c.calls # <<>> \/ c.reasoning # <<>>)
    <3>1. GoOn(c, r) /\ sent' = sent /\ connected' = connected
      BY <1>11, <2>1 DEF ChatStream
    <3>2. /\ phase' = "loop" /\ h' \in Handlers(V) /\ Like(c, h') /\ Same(c, h')
          /\ h'.prev = r.state /\ h'.cut = c.cut
      BY <1>1, <1>7, <3>1
    <3> QED BY <1>11, <2>1, <3>1, <3>2 DEF GoesOn
  <2>2. CASE /\ request.stream /\ r.state # "tool"
             /\ c.text # <<>> \/ c.calls # <<>> \/ c.reasoning # <<>>
    <3>1. \/ \E parsed \in SUBSET Range(c.calls) :
                /\ sent' = Append(sent, Chunk(c, parsed, None))
                /\ GoOn(emptied, r)
                /\ connected' = connected
          \/ h' = c /\ phase' = "final" /\ sent' = sent
      BY <1>0, <1>11, <2>2 DEF ChatStream, Emptied
    <3>2. CASE \E parsed \in SUBSET Range(c.calls) :
                /\ sent' = Append(sent, Chunk(c, parsed, None))
                /\ GoOn(emptied, r)
                /\ connected' = connected
      <4>1. /\ phase' = "loop" /\ h' \in Handlers(V) /\ Like(emptied, h') /\ Same(emptied, h')
            /\ h'.prev = r.state /\ h'.cut = emptied.cut
        BY <1>3, <1>7, <3>2
      <4>2. Like(c, h') /\ h'.cut = c.cut
        BY <1>3, <4>1 DEF Like
      <4>3. h'.text = <<>> /\ h'.reasoning = <<>> /\ h'.calls = <<>>
        BY <1>3, <4>1 DEF Same
      <4>4. connected' = connected
        BY <3>2
      <4>5. \E parsed \in SUBSET Range(c.calls) : sent' = Append(sent, Chunk(c, parsed, None))
        BY <3>2
      <4> QED BY <1>11, <2>2, <4>1, <4>2, <4>3, <4>4, <4>5 DEF GoesOn
    <3>3. CASE h' = c /\ phase' = "final" /\ sent' = sent
      <4>1. Like(c, h') /\ Same(c, h') /\ h'.prev = c.prev
        BY <3>3 DEF Like, Same
      <4>2. h'.cut = (c.cut \/ r.state = "tool")
        BY <1>5, <2>2, <3>3
      <4> QED BY <1>1, <1>11, <2>2, <3>3, <4>1, <4>2 DEF Breaks
    <3> QED BY <3>1, <3>2, <3>3
  <2> QED BY <2>1, <2>2
<1>12. ASSUME NoGuardTrips(c), ResponsesStream(c, r), request.api = "responses"
       PROVE  h' \in Handlers(V) /\ (GoesOn(c, r) \/ Breaks(c, r))
  <2>1. \/ GoOn(c, r) /\ connected' = connected
        \/ h' = c /\ phase' = "final" /\ r.state \in {"normal", "reasoning"}
    BY <1>12 DEF ResponsesStream
  <2>2. CASE GoOn(c, r) /\ connected' = connected
    <3>1. /\ phase' = "loop" /\ h' \in Handlers(V) /\ Like(c, h') /\ Same(c, h')
          /\ h'.prev = r.state /\ h'.cut = c.cut
      BY <1>1, <1>7, <2>2
    <3> QED BY <1>12, <2>2, <3>1 DEF GoesOn
  <2>3. CASE h' = c /\ phase' = "final" /\ r.state \in {"normal", "reasoning"}
    <3>1. Like(c, h') /\ Same(c, h') /\ h'.prev = c.prev
      BY <2>3 DEF Like, Same
    <3>2. h'.cut = (c.cut \/ r.state = "tool") /\ r.state # Stop
      BY <1>5, <2>3 DEF Stop
    <3> QED BY <1>1, <1>12, <2>3, <3>1, <3>2 DEF Breaks
  <2> QED BY <2>1, <2>2, <2>3
<1> QED BY <1>0, <1>8, <1>9, <1>10, <1>11, <1>12 DEF Taken

(* The same of a response that is taken from the stream. *)
LEMMA TakeOutcomes ==
  ASSUME NEW V, h \in Handlers(V), phase = "loop", NEW r \in Reads(V),
         request.api \in {"chat", "responses"}, NEW c, c = Collected(r), Take(r)
  PROVE  h' \in Handlers(V) /\ (GoesOn(c, r) \/ Breaks(c, r))
<1>1. c \in Handlers(V) /\ Kept(c, r)
  BY CollectedIs DEF Kept
<1>2. TextGuardMayTrip(r) => r.state \in {"reasoning", "normal"}
  BY DEF TextGuardMayTrip
<1>3. CASE request.api = "chat"
  <2>1. ChatTake(r)
    BY <1>3 DEF Take
  <2>2. \/ TextGuardMayTrip(r) /\ Break(IF r.state = "reasoning" THEN Marked(c) ELSE c, Stop) /\ sent' = sent
        \/ TokenGuards(c) /\ sent' = sent
        \/ NoGuardTrips(c) /\ ChatStream(c, r)
    BY <2>1 DEF ChatTake, Marked
  <2>3. Taken(c, r)
    BY <1>2, <1>3, <2>2 DEF Taken
  <2> QED BY <1>1, <2>3, TakenOutcomes
<1>4. CASE request.api = "responses"
  <2>1. ResponsesTake(r)
    BY <1>4 DEF Take
  <2>2. \/ r.state = "reasoning" /\ Break(Marked(c), Stop)
        \/ r.state = "normal" /\ Break(c, Stop)
        \/ TokenGuards(c) /\ sent' = sent
        \/ NoGuardTrips(c) /\ ResponsesStream(c, r)
    BY <2>1 DEF ResponsesTake, Marked
  <2>3. Taken(c, r)
    BY <1>4, <2>2 DEF Taken
  <2> QED BY <1>1, <2>3, TakenOutcomes
<1> QED BY <1>3, <1>4

----------------------------------------
(* The buffer *)

(* What the stream says of token i, given all the tokens generated so far. *)
Response(q, t, ref, i) ==
  [token |-> t[i], state |-> ref[i].state, text |-> IF Visible(ref, i) THEN << i >> ELSE <<>>,
   finish |-> FinishAt(q, ref, i)]

Waiting(q, t, ref, c) == [k \in 1..Len(t) - c |-> Response(q, t, ref, c + k)]

(* A token ends a sequence that hides as many tokens as it is long. *)
LEMMA VisibleNext ==
  ASSUME NEW ref \in Seq(Entries), NEW e \in Entries, NEW n, n = Len(ref) + 1,
         NEW new, new = Append(ref, e), NEW i \in 1..n
  PROVE  Visible(new, i) <=> (i < n => Visible(ref, i)) /\ e.length <= n - i
<1>1. Len(new) = n /\ new[n] = e /\ n \in Nat /\ n - 1 = Len(ref) /\ \A j \in 1..n - 1 : new[j] = ref[j]
  BY AppendItem
<1> HIDE DEF Entries
<1>2. \A j \in i..n : j \in i..n - 1 \/ j = n
  BY <1>1
<1>3. i < n => \A j \in i..n - 1 : j \in 1..n - 1 /\ j \in i..n
  BY <1>1
<1>4. n \in i..n /\ n - i = n - i
  BY <1>1
<1>5. ~(i < n) => \A j \in i..n : j = n
  BY <1>1
<1>6. Visible(new, i) <=> \A j \in i..n : new[j].length <= j - i
  BY <1>1 DEF Visible
<1>7. Visible(ref, i) <=> \A j \in i..n - 1 : ref[j].length <= j - i
  BY <1>1 DEF Visible
<1>8. CASE i < n
  <2>1. \A j \in i..n - 1 : new[j] = ref[j]
    BY <1>1, <1>3, <1>8
  <2>2. Visible(ref, i) <=> \A j \in i..n - 1 : new[j].length <= j - i
    BY <1>7, <2>1
  <2>3. (\A j \in i..n : new[j].length <= j - i)
        <=> (\A j \in i..n - 1 : new[j].length <= j - i) /\ new[n].length <= n - i
    BY <1>2, <1>3, <1>4, <1>8
  <2> QED BY <1>1, <1>6, <1>8, <2>2, <2>3
<1>9. CASE ~(i < n)
  <2>1. (\A j \in i..n : new[j].length <= j - i) <=> new[n].length <= n - i
    BY <1>4, <1>5, <1>9
  <2> QED BY <1>1, <1>6, <1>9, <2>1
<1> QED BY <1>8, <1>9

(* The tokens the handler has seen stay what they were. *)
Extends(t, ref, u, new, c) ==
  /\ Len(t) <= Len(u) /\ Len(ref) = Len(t) /\ Len(new) = Len(u)
  /\ \A i \in 1..Len(t) : new[i] = ref[i] /\ u[i] = t[i]
  /\ \A i \in 1..c : Visible(new, i) = Visible(ref, i)

Grown(q, t, x, u, n, ref, e, new, c) ==
  /\ t \in Seq(q.vocab) /\ x \in q.vocab /\ u = Append(t, x) /\ n = Len(t) + 1
  /\ ref \in Seq(Entries) /\ Len(ref) = Len(t) /\ e \in Entries /\ new = Append(ref, e)
  /\ c \in 0..Len(t)

(* With the next token the buffer has one more, and some are blanked. *)
LEMMA BlankedIsWaiting ==
  ASSUME NEW q, NEW t, NEW x, NEW u, NEW n, NEW ref, NEW e, NEW new, NEW c,
         Grown(q, t, x, u, n, ref, e, new, c), NEW r,
         r = [token |-> x, state |-> e.state, text |-> << n >>, finish |-> FinishAt(q, new, n)]
  PROVE  Blanked(Append(Waiting(q, t, ref, c), r), e.length) = Waiting(q, u, new, c)
<1> DEFINE w == Waiting(q, t, ref, c)
           a == Append(w, r)
           L == n - c
           R(i) == Response(q, t, ref, i)
           N(i) == Response(q, u, new, i)
<1>0. /\ n \in Nat /\ c \in Nat /\ L \in Nat /\ L >= 1 /\ c < n /\ Len(t) = n - 1 /\ Len(t) - c = L - 1
      /\ Len(ref) = n - 1 /\ n - 1 \in Nat /\ c + L = n
  BY DEF Grown
<1>1. u[n] = x /\ Len(u) = n /\ \A i \in 1..n - 1 : u[i] = t[i]
  BY <1>0, AppendItem DEF Grown
<1>2. new[n] = e /\ Len(new) = n /\ \A i \in 1..n - 1 : new[i] = ref[i]
  <2>1. ref \in Seq(Entries) /\ e \in Entries /\ new = Append(ref, e)
    BY DEF Grown
  <2> QED BY <1>0, <2>1, AppendItem
<1>3. e.length \in Nat
  BY DEF Grown, Entries
<1>4. \A i \in 1..n : Visible(new, i) <=> (i < n => Visible(ref, i)) /\ e.length <= n - i
  <2>1. ref \in Seq(Entries) /\ e \in Entries /\ new = Append(ref, e) /\ n = Len(ref) + 1
    BY DEF Grown
  <2> QED BY <2>1, VisibleNext
<1>5. w = [k \in 1..L - 1 |-> R(c + k)]
  BY <1>0 DEF Waiting
<1>6. Waiting(q, u, new, c) = [k \in 1..L |-> N(c + k)]
  BY <1>0, <1>1 DEF Waiting
<1>7. \A i \in 1..n : N(i) = [token |-> u[i], state |-> new[i].state,
                              text |-> IF Visible(new, i) THEN << i >> ELSE <<>>,
                              finish |-> FinishAt(q, new, i)]
  BY DEF Response
<1>8. \A i \in 1..n - 1 : R(i) = [token |-> t[i], state |-> ref[i].state,
                                  text |-> IF Visible(ref, i) THEN << i >> ELSE <<>>,
                                  finish |-> FinishAt(q, ref, i)]
  BY DEF Response
<1>9. \A i \in 1..n - 1 : FinishAt(q, new, i) = FinishAt(q, ref, i)
  BY <1>2 DEF FinishAt
<1> HIDE DEF L, w, N, R
<1>10. w \in Seq({w[k] : k \in 1..L - 1}) /\ Len(w) = L - 1 /\ \A k \in 1..L - 1 : w[k] = R(c + k)
  <2> DEFINE m == L - 1
             S == {w[k] : k \in 1..m}
  <2>1. m \in Nat
    BY <1>0
  <2> HIDE DEF m
  <2>2. \A k \in 1..m : w[k] = R(c + k) /\ w[k] \in S
    BY <1>5 DEF m
  <2>3. w = [k \in 1..m |-> w[k]]
    BY <1>5 DEF m
  <2> HIDE DEF S
  <2>4. w \in [1..m -> S]
    BY <2>2, <2>3
  <2>5. w \in Seq(S) /\ Len(w) = m
    BY <2>1, <2>4
  <2> QED BY <2>2, <2>5 DEF m, S
<1>11. /\ Len(a) = L /\ DOMAIN a = 1..L /\ a[L] = r /\ \A k \in 1..L - 1 : a[k] = R(c + k)
  <2> DEFINE S == {w[k] : k \in 1..L - 1} \cup {r}
  <2>1. w \in Seq(S) /\ r \in S
    BY <1>10
  <2> HIDE DEF S
  <2>2. /\ Len(Append(w, r)) = Len(w) + 1 /\ DOMAIN Append(w, r) = 1..Len(w) + 1
        /\ Append(w, r)[Len(w) + 1] = r /\ \A k \in 1..Len(w) : Append(w, r)[k] = w[k]
    BY <2>1, AppendItem
  <2>3. Len(w) + 1 = L
    BY <1>0, <1>10
  <2> QED BY <1>10, <2>2, <2>3
<1> HIDE DEF a
<1>12. Blanked(a, e.length) = [k \in 1..L |-> IF k > L - e.length THEN [a[k] EXCEPT !.text = <<>>] ELSE a[k]]
  BY <1>11 DEF Blanked
<1>13. ASSUME NEW k \in 1..L
       PROVE  (IF k > L - e.length THEN [a[k] EXCEPT !.text = <<>>] ELSE a[k]) = N(c + k)
  <2> DEFINE i == c + k
  <2>1. i \in 1..n /\ (k > L - e.length <=> ~(e.length <= n - i)) /\ (k = L <=> i = n)
        /\ (k # L => i \in 1..n - 1 /\ k \in 1..L - 1 /\ i < n)
    BY <1>0, <1>3
  <2> HIDE DEF i
  <2>2. CASE k = L
    <3>1. a[k] = r /\ i = n /\ r = [token |-> u[n], state |-> new[n].state, text |-> << n >>, finish |-> FinishAt(q, new, n)]
      BY <1>1, <1>2, <1>11, <2>1, <2>2
    <3>2. Visible(new, i) <=> e.length <= n - i
      BY <1>0, <1>4, <2>1, <3>1
    <3>3. N(i) = [token |-> u[n], state |-> new[n].state,
                  text |-> IF Visible(new, i) THEN << n >> ELSE <<>>, finish |-> FinishAt(q, new, n)]
      BY <1>7, <2>1, <3>1
    <3>4. CASE k > L - e.length
      <4>1. N(i) = [token |-> u[n], state |-> new[n].state, text |-> <<>>, finish |-> FinishAt(q, new, n)]
        BY <2>1, <3>2, <3>3, <3>4
      <4>2. [a[k] EXCEPT !.text = <<>>] = [token |-> u[n], state |-> new[n].state, text |-> <<>>, finish |-> FinishAt(q, new, n)]
        BY <3>1
      <4> QED BY <3>4, <4>1, <4>2 DEF i
    <3>5. CASE ~(k > L - e.length)
      <4>1. N(i) = r
        BY <2>1, <3>1, <3>2, <3>3, <3>5
      <4> QED BY <3>1, <3>5, <4>1 DEF i
    <3> QED BY <3>4, <3>5
  <2>3. CASE k # L
    <3>1. a[k] = R(i) /\ i \in 1..n - 1 /\ i < n
      BY <1>11, <2>1, <2>3 DEF i
    <3>2. a[k] = [token |-> t[i], state |-> ref[i].state,
                  text |-> IF Visible(ref, i) THEN << i >> ELSE <<>>, finish |-> FinishAt(q, ref, i)]
      BY <1>8, <3>1
    <3>3. N(i) = [token |-> t[i], state |-> ref[i].state,
                  text |-> IF Visible(new, i) THEN << i >> ELSE <<>>, finish |-> FinishAt(q, ref, i)]
      BY <1>1, <1>2, <1>7, <1>9, <2>1, <3>1
    <3>4. Visible(new, i) <=> Visible(ref, i) /\ e.length <= n - i
      BY <1>4, <2>1, <3>1
    <3>5. CASE k > L - e.length
      <4>1. N(i) = [token |-> t[i], state |-> ref[i].state, text |-> <<>>, finish |-> FinishAt(q, ref, i)]
        BY <2>1, <3>3, <3>4, <3>5
      <4>2. [a[k] EXCEPT !.text = <<>>]
            = [token |-> t[i], state |-> ref[i].state, text |-> <<>>, finish |-> FinishAt(q, ref, i)]
        BY <3>2
      <4> QED BY <3>5, <4>1, <4>2 DEF i
    <3>6. CASE ~(k > L - e.length)
      <4>1. Visible(new, i) <=> Visible(ref, i)
        BY <2>1, <3>4, <3>6
      <4>2. N(i) = a[k]
        BY <3>2, <3>3, <4>1
      <4> QED BY <3>6, <4>2 DEF i
    <3> QED BY <3>5, <3>6
  <2> QED BY <2>2, <2>3
<1>14. Blanked(a, e.length) = Waiting(q, u, new, c)
  BY <1>6, <1>12, <1>13
<1> QED BY <1>14 DEF a, w

(* What the detokenizer holds back is left open by the code; here, nothing. *)
NothingHeld == \A q \in Requests : q.held = {}

Generated(x, n, k, r, full) ==
  /\ k = Match(matcher, x) /\ n = Len(tokens) + 1
  /\ r = [token |-> x, state |-> k.state, text |-> << n >>, finish |-> EndBy(request, k.state, n)]
  /\ full = Blanked(Append(buffer, r), k.length)
  /\ tokens' = Append(tokens, x) /\ matcher' = [state |-> k.state, node |-> k.node]
  /\ unflushed' = <<>> /\ ended' = r.finish /\ raised' = (k.length > Len(full))
  /\ ~(k.length > Len(full)) =>
       IF Len(full) >= BufferSize THEN buffer' = Tail(full) /\ Take(Head(full))
       ELSE buffer' = full /\ UNCHANGED <<h, sent, phase, connected>>

(* Generate when nothing is held back. *)
LEMMA GenerateIs ==
  ASSUME NothingHeld, request \in Requests, unflushed = <<>>, tokens \in Seq(request.vocab), Generate
  PROVE  /\ phase = "loop" /\ ended = None /\ request' = request
         /\ \E x \in request.vocab : \E n, k, r, full : Generated(x, n, k, r, full)
<1>1. PICK x \in request.vocab :
        LET at == Len(tokens) + 1
            m  == Match(matcher, x)
            r  == [token |-> x, state |-> m.state, text |-> Append(unflushed, at),
                   finish |-> IF m.state = Stop THEN Stop
                              ELSE IF at >= request.limit THEN "length" ELSE None]
            held == x \in request.held
            full == Blanked(Append(buffer, [r EXCEPT !.text = IF held THEN <<>> ELSE @]),
                            m.length)
        IN  /\ tokens' = Append(tokens, x)
            /\ matcher' = [state |-> m.state, node |-> m.node]
            /\ unflushed' = IF held THEN r.text ELSE <<>>
            /\ ended' = r.finish
            /\ raised' = (m.length > Len(full))
            /\ IF raised' THEN /\ phase' = "done"
                               /\ UNCHANGED <<buffer, h, sent, connected>>
               ELSE IF Len(full) >= BufferSize
               THEN buffer' = Tail(full) /\ Take(Head(full))
               ELSE buffer' = full /\ UNCHANGED <<h, sent, phase, connected>>
  BY DEF Generate
<1> DEFINE n == Len(tokens) + 1
           k == Match(matcher, x)
           end == EndBy(request, k.state, n)
           r == [token |-> x, state |-> k.state, text |-> << n >>, finish |-> end]
           s == [token |-> x, state |-> k.state, text |-> Append(unflushed, n), finish |-> end]
           full == Blanked(Append(buffer, r), k.length)
<1>2. x \notin request.held
  BY DEF NothingHeld
<1>3. Append(unflushed, n) = << n >>
  <2> DEFINE e == <<>>
  <2>1. e \in Seq(Nat) /\ n \in Nat
    OBVIOUS
  <2>2. Append(e, n) = << n >>
    OBVIOUS
  <2> QED BY <2>2
<1>4. s = r /\ s.finish = r.finish
  BY <1>3
<1>5. [s EXCEPT !.text = s.text] = s
  OBVIOUS
<1>6. /\ tokens' = Append(tokens, x)
      /\ matcher' = [state |-> k.state, node |-> k.node]
      /\ unflushed' = <<>>
      /\ ended' = s.finish
      /\ raised' = (k.length > Len(Blanked(Append(buffer, [s EXCEPT !.text = s.text]), k.length)))
      /\ IF raised' THEN /\ phase' = "done"
                         /\ UNCHANGED <<buffer, h, sent, connected>>
         ELSE IF Len(Blanked(Append(buffer, [s EXCEPT !.text = s.text]), k.length)) >= BufferSize
         THEN /\ buffer' = Tail(Blanked(Append(buffer, [s EXCEPT !.text = s.text]), k.length))
              /\ Take(Head(Blanked(Append(buffer, [s EXCEPT !.text = s.text]), k.length)))
         ELSE /\ buffer' = Blanked(Append(buffer, [s EXCEPT !.text = s.text]), k.length)
              /\ UNCHANGED <<h, sent, phase, connected>>
  BY <1>1, <1>2 DEF EndBy
<1> HIDE DEF s
<1>7. /\ tokens' = Append(tokens, x)
      /\ matcher' = [state |-> k.state, node |-> k.node]
      /\ unflushed' = <<>>
      /\ ended' = r.finish
      /\ raised' = (k.length > Len(full))
      /\ IF raised' THEN /\ phase' = "done"
                         /\ UNCHANGED <<buffer, h, sent, connected>>
         ELSE IF Len(full) >= BufferSize THEN buffer' = Tail(full) /\ Take(Head(full))
         ELSE buffer' = full /\ UNCHANGED <<h, sent, phase, connected>>
  BY <1>4, <1>5, <1>6, Zenon
<1>8. Generated(x, n, k, r, full)
  <2> HIDE DEF full
  <2>1. full = Blanked(Append(buffer, r), k.length)
    BY DEF full
  <2> QED BY <1>7, <2>1 DEF Generated
<1>9. phase = "loop" /\ ended = None /\ request' = request
  BY DEF Generate
<1> HIDE DEF n, k, r, full
<1> QED BY <1>8, <1>9

(* A response of the stream is one. *)
LEMMA ResponseIs ==
  ASSUME NEW q \in Requests, NEW t \in Seq(q.vocab), NEW i \in 1..Len(t)
  PROVE  Response(q, t, ReferenceOf(q, t), i) \in Reads(q.vocab)
<1> DEFINE ref == ReferenceOf(q, t)
<1>1. ref \in Seq(Entries) /\ Len(ref) = Len(t)
  BY ReferenceIs DEF RefersTo
<1> HIDE DEF ref
<1>2. ref[i] \in Entries /\ t[i] \in q.vocab /\ i \in Nat
  BY <1>1
<1>3. ref[i].state \in Targets
  BY <1>2 DEF Entries
<1>4. FinishAt(q, ref, i) \in {None, Stop, "length"}
  BY DEF FinishAt
<1>5. (IF Visible(ref, i) THEN << i >> ELSE <<>>) \in Seq(Nat)
  <2>1. << i >> \in Seq(Nat) /\ <<>> \in Seq(Nat)
    BY <1>2
  <2> QED BY <2>1
<1> QED BY <1>2, <1>3, <1>4, <1>5 DEF Response, Reads, ref

(* The buffer's first response is the one of the next token. *)
LEMMA WaitingIs ==
  ASSUME NEW q, NEW V, NEW t \in Seq(V), NEW ref, NEW c \in 0..Len(t)
  PROVE  /\ Len(Waiting(q, t, ref, c)) = Len(t) - c
         /\ c < Len(t) => /\ Head(Waiting(q, t, ref, c)) = Response(q, t, ref, c + 1)
                          /\ Tail(Waiting(q, t, ref, c)) = Waiting(q, t, ref, c + 1)
<1> DEFINE R(i) == Response(q, t, ref, i)
           N == Len(t) - c
           w == [k \in 1..N |-> R(c + k)]
           S == {R(c + k) : k \in 1..N}
<1>1. N \in Nat /\ c \in Nat /\ Len(t) \in Nat /\ (c < Len(t) <=> N # 0) /\ Len(t) - (c + 1) = N - 1
  OBVIOUS
<1>2. Waiting(q, t, ref, c) = w
  BY DEF Waiting
<1>3. Waiting(q, t, ref, c + 1) = [k \in 1..N - 1 |-> R((c + 1) + k)]
  BY <1>1 DEF Waiting
<1> HIDE DEF N, R
<1>4. \A k \in 1..N : w[k] = R(c + k) /\ R(c + k) \in S
  OBVIOUS
<1>5. w \in Seq(S) /\ Len(w) = N
  <2>1. \A k \in 1..N : R(c + k) \in S
    OBVIOUS
  <2> HIDE DEF S
  <2>2. w \in [1..N -> S]
    BY <2>1
  <2> HIDE DEF w
  <2> QED BY <1>1, <2>2
<1>6. ASSUME N # 0
      PROVE  Head(w) = R(c + 1) /\ Tail(w) = [k \in 1..N - 1 |-> R((c + 1) + k)]
  <2> DEFINE m == N - 1
             v == [k \in 1..m |-> R((c + 1) + k)]
  <2>1. m \in Nat /\ N = m + 1 /\ 1 \in 1..N
    BY <1>1, <1>6
  <2>2. \A k \in 1..m : k + 1 \in 1..N /\ c + (k + 1) = (c + 1) + k /\ k \in Nat
    BY <1>1, <2>1
  <2> HIDE DEF m, S
  <2>3. \A k \in 1..m : v[k] = R((c + 1) + k) /\ R((c + 1) + k) \in S
    BY <1>4, <2>2
  <2>4. v \in Seq(S) /\ Len(v) = m
    <3>1. v \in [1..m -> S]
      BY <2>3
    <3> HIDE DEF v
    <3> QED BY <2>1, <3>1
  <2> HIDE DEF w, v
  <2>5. Head(w) = w[1] /\ Tail(w) \in Seq(S) /\ Len(Tail(w)) = m /\ \A k \in 1..m : Tail(w)[k] = w[k + 1]
    <3>1. w # <<>>
      BY <1>5, <2>1
    <3>2. /\ Tail(w) \in Seq(S) /\ Len(Tail(w)) = Len(w) - 1
          /\ \A k \in 1..Len(Tail(w)) : Tail(w)[k] = w[k + 1]
      BY <1>5, <3>1, HeadTailProperties
    <3>3. Len(w) - 1 = m
      BY <1>5, <2>1
    <3> QED BY <3>2, <3>3
  <2>6. \A k \in 1..m : Tail(w)[k] = v[k]
    BY <1>4, <2>2, <2>3, <2>5
  <2>7. Tail(w) = v
    BY <2>4, <2>5, <2>6, SeqEqual
  <2>8. Head(w) = R(c + 1)
    BY <1>4, <2>1, <2>5
  <2> QED BY <2>7, <2>8 DEF v, m
<1> HIDE DEF w
<1> QED BY <1>1, <1>2, <1>3, <1>5, <1>6 DEF N, R

Core ==
  /\ MachineIs(request, tokens, matcher, ended)
  /\ unflushed = <<>> /\ ~raised
  /\ h \in Handlers(request.vocab)
  /\ h.count <= Len(tokens)
  /\ buffer = Waiting(request, tokens, Reference, h.count)
  /\ Len(tokens) - h.count < BufferSize
  /\ phase \in {"open", "loop", "final", "done"}
  /\ phase = "open" => tokens = <<>> /\ h = NewHandler /\ sent = <<>>
  /\ phase = "loop" /\ ended = None => h.count = 0 \/ Len(tokens) - h.count = BufferSize - 1
  /\ phase = "final" => h.count > 0

(* It holds in the beginning. *)
LEMMA CoreInit ==
  ASSUME Init
  PROVE  Core
<1> USE DEF Init
<1> DEFINE V == request.vocab
           none == <<>>
           t == tokens
<1>1. request \in Requests /\ none \in Seq(V) /\ Len(none) = 0
  OBVIOUS
<1>2. request.initial \in States /\ request.limit \in Nat
  BY <1>1, RequestsAssumption
<1>3. h \in Handlers(V) /\ h.count = 0
  <2>1. NoSpan \in [state : {None, "reasoning", "normal"}, tokens : Seq(V)]
    BY DEF NoSpan
  <2>2. none \in Seq(Nat) /\ none \in Seq(Seq(Nat))
    OBVIOUS
  <2>3. NewHandler = [prev |-> None, tool |-> none, calls |-> none, text |-> none, reasoning |-> none,
                      made |-> FALSE, finish |-> Stop, count |-> 0, toolTokens |-> 0,
                      reasoningTokens |-> 0, cut |-> FALSE, span |-> NoSpan]
    BY DEF NewHandler
  <2> HIDE DEF none
  <2> QED BY <2>1, <2>2, <2>3 DEF Handlers
<1>4. Len(tokens) = 0 /\ tokens \in Seq(V)
  BY <1>1
<1>5. BufferSize \in Nat /\ BufferSize >= 1
  BY <1>1, BufferSizeIs
<1>6. RefersTo(request, tokens, 0, Reference) /\ Reference = <<>>
  <2>1. RefersTo(request, tokens, Len(tokens), Reference)
    BY <1>1, <1>4, ReferenceIs DEF Reference
  <2>2. Reference \in Seq(Entries) /\ Len(Reference) = 0
    BY <1>4, <2>1 DEF RefersTo
  <2> QED BY <1>4, <2>1, <2>2, EmptySeq
<1>7. Latest(request, tokens) = Start(request)
  BY <1>4 DEF Latest, Before
<1>8. matcher.state \in States => LongestEnd(Nodes(Sequences(request, matcher.state)), matcher.node,
                                             SubSeq(tokens, Latest(request, tokens).from + 1, Len(tokens)))
  <2> DEFINE X == Sequences(request, matcher.state)
  <2>1. matcher.state = request.initial /\ matcher.node = none
    OBVIOUS
  <2>2. TrieOf(V, X)
    BY <1>1, <1>2, <2>1, TransitionsOf
  <2>3. Tree(V, Nodes(X))
    BY <2>2, NodesTree
  <2>4. SubSeq(tokens, Latest(request, tokens).from + 1, Len(tokens)) = none
    <3>1. Latest(request, tokens).from = 0
      BY <1>7 DEF Start
    <3>2. SubSeq(none, 1, 0) = none
      OBVIOUS
    <3> QED BY <1>4, <3>1, <3>2
  <2> HIDE DEF X
  <2>5. LongestEnd(Nodes(X), none, none)
    <3>1. none \in Nodes(X)
      BY <2>3 DEF Tree
    <3>2. IsSuffix(none, none)
      <4>1. none \in Seq(V) /\ Len(none) = 0
        BY <1>1
      <4> HIDE DEF none, t
      <4>2. \A i \in 1..Len(none) : none[i] = none[Len(none) - Len(none) + i]
        BY <4>1
      <4>3. Len(none) <= Len(none)
        BY <4>1
      <4> QED BY <4>1, <4>2, <4>3, EndsWith, Zenon
    <3>3. \A y \in Nodes(X) : IsSuffix(y, none) => Len(y) <= 0
      <4>1. ASSUME NEW y \in Nodes(X), IsSuffix(y, none) PROVE Len(y) <= 0
        <5>1. y \in Seq(V)
          BY <2>3 DEF Tree
        <5> QED BY <1>1, <4>1, <5>1, EndsWith
      <4> QED BY <4>1
    <3> QED BY <1>1, <3>1, <3>2, <3>3 DEF LongestEnd
  <2> QED BY <2>1, <2>4, <2>5 DEF X
<1>9. MachineIs(request, tokens, matcher, ended)
  <2>1. matcher.state = Latest(request, tokens).state
    BY <1>7 DEF Start
  <2>2. \A i \in 1..Len(tokens) - 1 : FALSE
    BY <1>4
  <2>3. Len(tokens) <= request.limit
    BY <1>2, <1>4
  <2> QED BY <1>1, <1>4, <1>8, <2>1, <2>2, <2>3 DEF MachineIs
<1>10. buffer = Waiting(request, tokens, Reference, 0)
  <2>1. 1..Len(tokens) - 0 = {}
    BY <1>4
  <2>2. Waiting(request, tokens, Reference, 0) = <<>>
    BY <2>1 DEF Waiting
  <2> QED BY <2>2
<1> QED BY <1>3, <1>4, <1>5, <1>9, <1>10 DEF Core

Reading(u, new) ==
  /\ phase = "loop" /\ h.count < Len(u) /\ Extends(tokens, Reference, u, new, h.count)
  /\ \E r, c : /\ r = Response(request, u, new, h.count + 1) /\ c = Collected(r)
               /\ GoesOn(c, r) \/ Breaks(c, r)
  /\ Take(Response(request, u, new, h.count + 1))

Beginning ==
  /\ Open /\ phase = "open" /\ phase' \in {"loop", "done"} /\ h' = h /\ tokens' = tokens
  /\ request.api = "chat" => sent' = <<>>

Skipping ==
  /\ phase = "loop" /\ phase' = "loop" /\ UNCHANGED <<h, sent, connected>>
  /\ Extends(tokens, Reference, tokens', Reference', h.count)

Leaving ==
  /\ phase = "loop" /\ phase' = "final" /\ UNCHANGED <<h, sent, connected, tokens>>
  /\ h.count = Len(tokens) /\ h.count > 0

Finishing ==
  /\ phase = "final" /\ tokens' = tokens
  /\ IF request.api = "chat" THEN ChatFinish ELSE ResponsesFinish

(* What a step does for the handler. *)
Move ==
  /\ request' = request
  /\ UNCHANGED vars \/ Beginning \/ Skipping \/ Reading(tokens', Reference') \/ Leaving \/ Finishing

(* A response is taken. *)
LEMMA ReadingStep ==
  ASSUME NEW u, request \in Requests, u \in Seq(request.vocab), h \in Handlers(request.vocab),
         phase = "loop", h.count < Len(u),
         NEW new, new = ReferenceOf(request, u), Extends(tokens, Reference, u, new, h.count),
         Take(Response(request, u, new, h.count + 1))
  PROVE  /\ Reading(u, new) /\ h' \in Handlers(request.vocab) /\ h'.count = h.count + 1
         /\ phase' \in {"loop", "final"}
<1> DEFINE r == Response(request, u, new, h.count + 1)
           c == Collected(r)
           V == request.vocab
<1>1. r \in Reads(V)
  <2>1. h.count \in Nat
    BY DEF Handlers
  <2>2. h.count + 1 \in 1..Len(u)
    BY <2>1
  <2> QED BY <2>2, ResponseIs
<1> HIDE DEF r
<1>2. c \in Handlers(V) /\ c.count = h.count + 1
  BY <1>1, CollectedIs
<1>3. request.api \in {"chat", "responses"}
  BY RequestsAssumption
<1>4. Take(r)
  BY DEF r
<1>5. h' \in Handlers(V) /\ (GoesOn(c, r) \/ Breaks(c, r))
  BY <1>1, <1>3, <1>4, TakeOutcomes
<1> HIDE DEF c
<1>6. h'.count = c.count /\ phase' \in {"loop", "final"}
  BY <1>5 DEF GoesOn, Breaks, Like
<1>7. Reading(u, new)
  <2>1. c = Collected(r) /\ r = Response(request, u, new, h.count + 1)
    BY DEF c, r
  <2> QED BY <1>5, <2>1 DEF Reading
<1> QED BY <1>2, <1>5, <1>6, <1>7

(* A token is generated. *)
LEMMA CoreGenerate ==
  ASSUME NothingHeld, Core, Generate
  PROVE  Core' /\ Move
<1> DEFINE q == request
           V == request.vocab
           t == tokens
           c == h.count
           B == BufferSize
           ref == Reference
<1>1. q \in Requests /\ t \in Seq(V) /\ unflushed = <<>> /\ MachineIs(q, t, matcher, ended)
  BY DEF Core, MachineIs
<1>2. phase = "loop" /\ ended = None /\ request' = q
  BY <1>1, GenerateIs
<1>3. PICK x \in V : \E n, k, r, full : Generated(x, n, k, r, full)
  BY <1>1, GenerateIs
<1>4. PICK n, k, r, full : Generated(x, n, k, r, full)
  BY <1>3
<1> DEFINE u == Append(t, x)
           b == Latest(q, t)
           e == After(q, u, b, n)
           new == Append(ref, e)
<1>5. /\ k = Match(matcher, x) /\ n = Len(t) + 1
      /\ r = [token |-> x, state |-> k.state, text |-> << n >>, finish |-> EndBy(q, k.state, n)]
      /\ full = Blanked(Append(buffer, r), k.length)
      /\ tokens' = u /\ matcher' = [state |-> k.state, node |-> k.node]
      /\ unflushed' = <<>> /\ ended' = r.finish /\ raised' = (k.length > Len(full))
  BY <1>4 DEF Generated
<1>6. matcher'.state = k.state /\ matcher'.node = k.node /\ r.finish = EndBy(q, k.state, n)
  BY <1>5
<1>7. /\ MachineIs(q, u, matcher', EndBy(q, k.state, n))
      /\ ReferenceOf(q, u) = new
      /\ Follows(b, e, n) /\ k.state = e.state /\ k.length = e.length
      /\ e.length <= B
  <2> DEFINE m == matcher'
             end == EndBy(q, k.state, n)
  <2>1. m.state = k.state /\ m.node = k.node
    BY <1>6
  <2> HIDE DEF m, end
  <2>2. end = EndBy(q, k.state, n) /\ k = Match(matcher, x) /\ n = Len(tokens) + 1
    BY <1>5 DEF end
  <2>3. /\ MachineIs(request, Append(tokens, x), m, end)
        /\ ReferenceOf(request, Append(tokens, x)) = Append(Reference, e)
        /\ Follows(b, e, n) /\ k.state = e.state /\ k.length = e.length
        /\ e.length <= BufferSize
    BY <1>1, <1>2, <2>1, <2>2, MachineStep
  <2> QED BY <2>3 DEF m, end
<1>8. /\ h \in Handlers(V) /\ c \in Nat /\ c <= Len(t) /\ buffer = Waiting(q, t, ref, c)
      /\ Len(t) - c < B /\ (c = 0 \/ Len(t) - c = B - 1)
  BY <1>2 DEF Core, Handlers
<1>9. B \in Nat /\ B >= 1
  BY <1>1, BufferSizeIs
<1>10. RefersTo(q, t, Len(t), ref)
  BY <1>1, ReferenceIs DEF Reference
<1>11. e \in Entries /\ e.length \in Nat /\ e.length <= n
  <2>1. Follows(b, e, n)
    BY <1>7
  <2>2. n \in Nat
    BY <1>1, <1>5
  <2> HIDE DEF e, b
  <2>3. b \in Entries /\ e \in Entries /\ e.length <= n - b.from
    BY <2>1 DEF Follows
  <2>4. b.from \in Nat /\ e.length \in Nat
    BY <2>3 DEF Entries
  <2> QED BY <2>2, <2>3, <2>4
<1>12. u \in Seq(V) /\ Len(u) = n /\ n \in Nat /\ Len(t) = n - 1 /\ Len(t) \in Nat
       /\ \A i \in 1..Len(t) : u[i] = t[i]
  BY <1>1, <1>5, AppendItem
<1> HIDE DEF e, u, b, ref, B
<1>13. ref \in Seq(Entries) /\ Len(ref) = Len(t)
  BY <1>10 DEF RefersTo
<1>14. new \in Seq(Entries) /\ Len(new) = n /\ new[n] = e /\ \A i \in 1..Len(t) : new[i] = ref[i]
  BY <1>11, <1>12, <1>13, AppendItem
<1>15. n - c >= e.length
  BY <1>8, <1>7, <1>9, <1>11, <1>12
<1>16. full = Waiting(q, u, new, c)
  <2>1. Grown(q, t, x, u, n, ref, e, new, c)
    BY <1>1, <1>8, <1>11, <1>12, <1>13, <1>5 DEF Grown, u
  <2>2. r = [token |-> x, state |-> e.state, text |-> << n >>, finish |-> FinishAt(q, new, n)]
    <3>1. FinishAt(q, new, n) = EndBy(q, k.state, n)
      BY <1>7, <1>14 DEF FinishAt, EndBy
    <3> QED BY <1>5, <1>7, <3>1
  <2>3. full = Blanked(Append(Waiting(q, t, ref, c), r), e.length)
    BY <1>5, <1>7, <1>8
  <2> HIDE DEF new
  <2> QED BY <2>1, <2>2, <2>3, BlankedIsWaiting
<1>17. Len(full) = n - c /\ n - c \in Nat /\ c \in 0..Len(u) /\ c < Len(u)
       /\ Head(full) = Response(q, u, new, c + 1) /\ Tail(full) = Waiting(q, u, new, c + 1)
  <2>1. c \in 0..Len(u) /\ c < Len(u) /\ n - c \in Nat
    BY <1>8, <1>12
  <2> HIDE DEF new
  <2>2. /\ Len(Waiting(q, u, new, c)) = Len(u) - c
        /\ c < Len(u) => /\ Head(Waiting(q, u, new, c)) = Response(q, u, new, c + 1)
                         /\ Tail(Waiting(q, u, new, c)) = Waiting(q, u, new, c + 1)
    <3> HIDE DEF V, q, c
    <3> QED BY <1>12, <2>1, WaitingIs
  <2> QED BY <1>12, <1>16, <2>1, <2>2
<1>18. ~(k.length > Len(full)) /\ ~raised'
  <2>1. k.length = e.length /\ Len(full) = n - c /\ raised' = (k.length > Len(full))
    BY <1>5, <1>7, <1>17
  <2>2. ~(e.length > n - c)
    BY <1>11, <1>15, <1>17
  <2>3. ~(k.length > Len(full))
    BY <2>1, <2>2, Zenon
  <2>4. ~raised'
    BY <2>1, <2>3, Zenon
  <2> QED BY <2>3, <2>4
<1>19. Extends(t, ref, u, new, c)
  <2>1. ASSUME NEW i \in 1..c PROVE Visible(new, i) = Visible(ref, i)
    <3>1. i \in 1..n /\ i < n /\ e.length <= n - i
      BY <1>8, <1>11, <1>12, <1>15
    <3>2. n = Len(ref) + 1
      BY <1>12, <1>13
    <3>3. Visible(new, i) <=> (i < n => Visible(ref, i)) /\ e.length <= n - i
      BY <1>11, <1>13, <3>1, <3>2, VisibleNext
    <3>4. Visible(new, i) \in BOOLEAN /\ Visible(ref, i) \in BOOLEAN
      BY DEF Visible
    <3> QED BY <3>1, <3>3, <3>4
  <2> HIDE DEF new
  <2> QED BY <1>12, <1>13, <1>14, <2>1 DEF Extends
<1>20. Reference' = new
  BY <1>2, <1>5, <1>7 DEF Reference, u
<1>21. BufferSize' = B
  BY <1>2 DEF BufferSize, B, Sequences, Transitions
<1>22. MachineIs(request', tokens', matcher', ended')
  BY <1>2, <1>5, <1>6, <1>7 DEF u
<1> HIDE DEF new
<1>23. CASE Len(full) >= B
  <2>1. buffer' = Tail(full) /\ Take(Head(full))
    BY <1>4, <1>18, <1>23 DEF Generated, B
  <2>2. Take(Response(q, u, new, c + 1))
    BY <1>17, <2>1
  <2>3. /\ Reading(u, new) /\ h' \in Handlers(V) /\ h'.count = c + 1
        /\ phase' \in {"loop", "final"}
    <3>1. new = ReferenceOf(request, u)
      BY <1>7
    <3> QED BY <1>1, <1>2, <1>8, <1>12, <1>17, <1>19, <2>2, <3>1, ReadingStep DEF ref
  <2>4. buffer' = Waiting(request', tokens', Reference', h'.count)
    BY <1>2, <1>5, <1>17, <1>20, <2>1, <2>3 DEF u
  <2>5. Len(tokens') - h'.count = B - 1 /\ h'.count <= Len(tokens') /\ h'.count > 0
    <3>1. Len(tokens') = n
      BY <1>5, <1>12 DEF u
    <3> QED BY <1>8, <1>9, <1>12, <1>17, <1>23, <2>3, <3>1
  <2>6. h' \in Handlers(request'.vocab)
    BY <1>2, <2>3
  <2>7. Core'
    <3>1. phase' # "open" /\ phase' \in {"open", "loop", "final", "done"}
      BY <2>3
    <3>2. Len(tokens') - h'.count < BufferSize'
      BY <1>9, <1>21, <2>5
    <3>3. Len(tokens') - h'.count = BufferSize' - 1
      BY <1>21, <2>5
    <3> QED BY <1>5, <1>18, <1>22, <2>4, <2>5, <2>6, <3>1, <3>2, <3>3 DEF Core
  <2>8. Move
    BY <1>2, <1>5, <1>20, <2>3 DEF Move, u
  <2> QED BY <2>7, <2>8
<1>24. CASE ~(Len(full) >= B)
  <2>1. buffer' = full /\ h' = h /\ sent' = sent /\ phase' = phase /\ connected' = connected
    BY <1>4, <1>18, <1>24 DEF Generated, B
  <2>2. buffer' = Waiting(request', tokens', Reference', h'.count)
    BY <1>2, <1>5, <1>16, <1>20, <2>1 DEF u
  <2>3. Len(tokens') = n
    BY <1>5, <1>12 DEF u
  <2>4. c = 0
    BY <1>8, <1>9, <1>12, <1>17, <1>24
  <2>5. h'.count = 0 /\ h'.count <= Len(tokens') /\ Len(tokens') - h'.count < BufferSize'
    BY <1>9, <1>12, <1>17, <1>21, <1>24, <2>1, <2>3, <2>4
  <2>6. h' \in Handlers(request'.vocab)
    BY <1>2, <1>8, <2>1
  <2>7. Core'
    <3>1. phase' = "loop"
      BY <1>2, <2>1
    <3> QED BY <1>5, <1>18, <1>22, <2>2, <2>5, <2>6, <3>1 DEF Core
  <2>8. Skipping
    BY <1>2, <1>5, <1>19, <1>20, <2>1 DEF Skipping, u, ref
  <2>9. Move
    BY <1>2, <2>8 DEF Move
  <2> QED BY <2>7, <2>9
<1> QED BY <1>23, <1>24

(* A sequence of tokens extends itself. *)
LEMMA ExtendsSelf ==
  ASSUME NEW q \in Requests, NEW t \in Seq(q.vocab), NEW c
  PROVE  Extends(t, ReferenceOf(q, t), t, ReferenceOf(q, t), c)
<1>1. Len(ReferenceOf(q, t)) = Len(t) /\ Len(t) \in Nat
  BY ReferenceIs DEF RefersTo
<1> QED BY <1>1 DEF Extends

(* What is left in the buffer is taken. *)
LEMMA CoreDrain ==
  ASSUME Core, Drain
  PROVE  Core' /\ Move
<1> DEFINE q == request
           V == request.vocab
           t == tokens
           c == h.count
           ref == Reference
<1>1. q \in Requests /\ t \in Seq(V) /\ MachineIs(q, t, matcher, ended)
  BY DEF Core, MachineIs
<1>2. /\ phase = "loop" /\ ended # None /\ buffer # <<>> /\ buffer' = Tail(buffer) /\ Take(Head(buffer))
      /\ UNCHANGED <<request, tokens, matcher, unflushed, ended, raised>>
  BY DEF Drain
<1>3. /\ h \in Handlers(V) /\ c \in Nat /\ c <= Len(t) /\ buffer = Waiting(q, t, ref, c)
      /\ Len(t) - c < BufferSize
  BY DEF Core, Handlers
<1>4. BufferSize \in Nat /\ BufferSize' = BufferSize
  <2>1. request' = request
    BY <1>2
  <2> QED BY <1>1, <2>1, BufferSizeIs DEF BufferSize, Sequences, Transitions
<1>5. c < Len(t)
  <2>1. SUFFICES ASSUME c = Len(t) PROVE FALSE
    BY <1>1, <1>3
  <2>2. 1..Len(t) - c = {}
    BY <1>1, <2>1
  <2>3. Waiting(q, t, ref, c) = <<>>
    BY <2>2 DEF Waiting
  <2> QED BY <1>2, <1>3, <2>3
<1>6. Head(buffer) = Response(q, t, ref, c + 1) /\ Tail(buffer) = Waiting(q, t, ref, c + 1)
  <2>1. c \in 0..Len(t) /\ t \in Seq(V)
    BY <1>1, <1>3
  <2>2. c < Len(t) => /\ Head(Waiting(q, t, ref, c)) = Response(q, t, ref, c + 1)
                      /\ Tail(Waiting(q, t, ref, c)) = Waiting(q, t, ref, c + 1)
    <3> HIDE DEF V, q, c, ref, t
    <3> QED BY <2>1, WaitingIs
  <2> QED BY <1>3, <1>5, <2>2
<1>7. Take(Response(q, t, ref, c + 1))
  BY <1>2, <1>6
<1>8. /\ Reading(t, ref) /\ h' \in Handlers(V) /\ h'.count = c + 1
      /\ phase' \in {"loop", "final"}
  <2>1. Extends(t, ref, t, ref, c) /\ ref = ReferenceOf(q, t)
    BY <1>1, ExtendsSelf DEF Reference
  <2> QED BY <1>1, <1>2, <1>3, <1>5, <1>7, <2>1, ReadingStep
<1>9. Reference' = ref
  BY <1>2 DEF Reference
<1>10. MachineIs(request', tokens', matcher', ended')
  BY <1>1, <1>2
<1>11. buffer' = Waiting(request', tokens', Reference', h'.count)
  BY <1>2, <1>6, <1>8, <1>9
<1>12. h'.count <= Len(tokens') /\ Len(tokens') - h'.count < BufferSize' /\ h'.count > 0
  <2>1. Len(t) \in Nat /\ tokens' = t
    BY <1>1, <1>2
  <2> QED BY <1>3, <1>4, <1>5, <1>8, <2>1
<1>13. Core'
  <2>1. unflushed' = <<>> /\ ~raised' /\ h' \in Handlers(request'.vocab)
    BY <1>2, <1>8 DEF Core
  <2>2. phase' # "open" /\ phase' \in {"open", "loop", "final", "done"} /\ ended' # None
    BY <1>2, <1>8
  <2> QED BY <1>10, <1>11, <1>12, <2>1, <2>2 DEF Core
<1>14. Move
  BY <1>2, <1>8, <1>9 DEF Move
<1> QED BY <1>13, <1>14

(* The stream is at its end. *)
LEMMA CoreLeave ==
  ASSUME Core, LeaveLoop
  PROVE  Core' /\ Move
<1>1. /\ phase = "loop" /\ ended # None /\ buffer = <<>> /\ phase' = "final"
      /\ UNCHANGED <<request, tokens, matcher, unflushed, buffer, ended, h, sent, connected, raised>>
  BY DEF LeaveLoop
<1>2. request \in Requests /\ tokens \in Seq(request.vocab) /\ MachineIs(request, tokens, matcher, ended)
  BY DEF Core, MachineIs
<1>3. h \in Handlers(request.vocab) /\ h.count \in Nat /\ h.count <= Len(tokens)
      /\ buffer = Waiting(request, tokens, Reference, h.count)
  BY DEF Core, Handlers
<1>4. tokens # <<>> /\ Len(tokens) \in Nat /\ Len(tokens) # 0
  <2>1. tokens # <<>>
    BY <1>1, <1>2 DEF MachineIs
  <2> QED BY <1>2, <2>1, EmptySeq
<1>5. h.count = Len(tokens)
  <2>1. SUFFICES ASSUME h.count < Len(tokens) PROVE FALSE
    BY <1>3, <1>4
  <2> DEFINE w == Waiting(request, tokens, Reference, h.count)
  <2>2. Len(w) = Len(tokens) - h.count
    <3>1. h.count \in 0..Len(tokens) /\ tokens \in Seq(request.vocab)
      BY <1>2, <1>3, <1>4
    <3> QED BY <3>1, WaitingIs
  <2>3. w = <<>>
    BY <1>1, <1>3
  <2>4. Len(w) = 0
    BY <2>3
  <2> HIDE DEF w
  <2> QED BY <1>3, <1>4, <2>1, <2>2, <2>4
<1>6. request' = request /\ Reference' = Reference /\ BufferSize' = BufferSize
  BY <1>1 DEF Reference, BufferSize, Sequences, Transitions
<1>7. Core'
  <2>1. /\ MachineIs(request', tokens', matcher', ended') /\ unflushed' = <<>> /\ ~raised'
        /\ h' \in Handlers(request'.vocab) /\ h'.count <= Len(tokens')
        /\ buffer' = Waiting(request', tokens', Reference', h'.count)
        /\ Len(tokens') - h'.count < BufferSize'
    BY <1>1, <1>2, <1>3, <1>6 DEF Core
  <2>2. h'.count > 0
    BY <1>1, <1>3, <1>4, <1>5
  <2> QED BY <1>1, <2>1, <2>2 DEF Core
<1>8. Leaving
  BY <1>1, <1>3, <1>4, <1>5 DEF Leaving
<1> QED BY <1>6, <1>7, <1>8 DEF Move

(* The handler begins. *)
LEMMA CoreOpen ==
  ASSUME Core, Open
  PROVE  Core' /\ Move
<1>1. /\ phase = "open" /\ phase' \in {"loop", "done"}
      /\ UNCHANGED <<request, tokens, matcher, unflushed, buffer, ended, h, raised>>
  BY DEF Open
<1>2. request.api = "chat" => sent' = <<>>
  <2>1. ASSUME request.api = "chat" PROVE sent' = <<>>
    <3>1. \/ sent' = <<>>
          \/ \E n \in {0} \cup 1..Len(<<>>) - 1 : sent' = SubSeq(<<>>, 1, n)
      BY <2>1 DEF Open
    <3>2. \A n \in {0} \cup 1..Len(<<>>) - 1 : n = 0
      OBVIOUS
    <3>3. SubSeq(<<>>, 1, 0) = <<>>
      OBVIOUS
    <3> QED BY <3>1, <3>2, <3>3
  <2> QED BY <2>1
<1>3. request' = request /\ Reference' = Reference /\ BufferSize' = BufferSize
  BY <1>1 DEF Reference, BufferSize, Sequences, Transitions
<1>4. h.count = 0
  BY <1>1 DEF Core, NewHandler
<1>5. Core'
  <2>1. /\ MachineIs(request', tokens', matcher', ended') /\ unflushed' = <<>> /\ ~raised'
        /\ h' \in Handlers(request'.vocab) /\ h'.count <= Len(tokens')
        /\ buffer' = Waiting(request', tokens', Reference', h'.count)
        /\ Len(tokens') - h'.count < BufferSize'
    BY <1>1, <1>3 DEF Core
  <2>2. h'.count = 0 /\ phase' # "open" /\ phase' # "final" /\ phase' \in {"open", "loop", "final", "done"}
    BY <1>1, <1>4
  <2> QED BY <2>1, <2>2 DEF Core
<1>6. Beginning
  BY <1>1, <1>2 DEF Beginning
<1> QED BY <1>3, <1>5, <1>6 DEF Move

(* Closing the call that is open changes nothing that counts. *)
LEMMA ClosedIs ==
  ASSUME NEW V, NEW k \in Handlers(V), NEW c, c = Closed(k)
  PROVE  /\ c \in Handlers(V) /\ c.text = k.text /\ c.reasoning = k.reasoning /\ c.tool = k.tool
         /\ c.cut = k.cut /\ c.count = k.count /\ c.prev = k.prev
         /\ c.calls = IF k.prev = "tool" /\ k.tool # <<>> /\ ~k.cut THEN Append(k.calls, k.tool)
                      ELSE k.calls
<1>1. /\ k.prev \in Targets \cup {None} /\ k.tool \in Seq(Nat) /\ k.calls \in Seq(Seq(Nat))
      /\ k.text \in Seq(Nat) /\ k.reasoning \in Seq(Nat) /\ k.made \in BOOLEAN
      /\ k.finish \in {Stop, "length"} /\ k.count \in Nat /\ k.toolTokens \in Nat
      /\ k.reasoningTokens \in Nat /\ k.cut \in BOOLEAN
      /\ k.span \in [state : {None, "reasoning", "normal"}, tokens : Seq(V)]
  BY DEF Handlers
<1> DEFINE more == Append(k.calls, k.tool)
<1>2. more \in Seq(Seq(Nat))
  BY <1>1
<1>3. [k EXCEPT !.calls = Append(@, k.tool), !.made = TRUE] = [k EXCEPT !.calls = more, !.made = TRUE]
  OBVIOUS
<1> HIDE DEF more
<1>4. LET d == [k EXCEPT !.calls = more, !.made = TRUE]
      IN  /\ d \in Handlers(V) /\ d.text = k.text /\ d.reasoning = k.reasoning /\ d.tool = k.tool
          /\ d.cut = k.cut /\ d.count = k.count /\ d.prev = k.prev /\ d.calls = more
  BY <1>2 DEF Handlers
<1>5. CASE k.prev = "tool" /\ k.tool # <<>> /\ ~k.cut
  <2>1. c = [k EXCEPT !.calls = more, !.made = TRUE]
    BY <1>3, <1>5 DEF Closed
  <2> QED BY <1>4, <1>5, <2>1 DEF more
<1>6. CASE ~(k.prev = "tool" /\ k.tool # <<>> /\ ~k.cut)
  <2>1. c = k
    BY <1>6 DEF Closed
  <2> QED BY <1>6, <2>1
<1> QED BY <1>5, <1>6

(* The last of a response is sent. *)
LEMMA CoreFinish ==
  ASSUME Core, Finish
  PROVE  Core' /\ Move
<1>1. /\ phase = "final" /\ phase' = "done" /\ h' = Closed(h)
      /\ UNCHANGED <<request, tokens, matcher, unflushed, buffer, ended, raised>>
  BY DEF Finish, ChatFinish, ResponsesFinish
<1>2. h' \in Handlers(request.vocab) /\ h'.count = h.count
  BY <1>1, ClosedIs DEF Core
<1>3. request' = request /\ Reference' = Reference /\ BufferSize' = BufferSize
  BY <1>1 DEF Reference, BufferSize, Sequences, Transitions
<1>4. Core'
  <2>1. /\ MachineIs(request', tokens', matcher', ended') /\ unflushed' = <<>> /\ ~raised'
        /\ h' \in Handlers(request'.vocab) /\ h'.count <= Len(tokens')
        /\ buffer' = Waiting(request', tokens', Reference', h'.count)
        /\ Len(tokens') - h'.count < BufferSize'
    BY <1>1, <1>2, <1>3 DEF Core
  <2> QED BY <1>1, <2>1 DEF Core
<1>5. Finishing
  BY <1>1 DEF Finish, Finishing
<1> QED BY <1>3, <1>4, <1>5 DEF Move

(* Every step keeps it, and is one of the handler's moves. *)
LEMMA CoreStep ==
  ASSUME NothingHeld, Core, [Next]_vars
  PROVE  Core' /\ Move
<1>1. CASE UNCHANGED vars
  <2>1. Core'
    BY <1>1 DEF Core, vars, Reference, BufferSize, Sequences, Transitions
  <2> QED BY <1>1, <2>1 DEF Move, vars
<1>2. CASE Open
  BY <1>2, CoreOpen
<1>3. CASE Generate
  BY <1>3, CoreGenerate
<1>4. CASE Drain
  BY <1>4, CoreDrain
<1>5. CASE LeaveLoop
  BY <1>5, CoreLeave
<1>6. CASE Finish
  BY <1>6, CoreFinish
<1> QED BY <1>1, <1>2, <1>3, <1>4, <1>5, <1>6 DEF Next, Done

----------------------------------------
(* What the tokens say *)

Counting(n) == [i \in 1..n |-> i]

NextOf(n, m) == n \in Nat /\ m = n + 1

(* The positions up to one more. *)
LEMMA CountingIs ==
  ASSUME NEW n, NEW m, NextOf(n, m)
  PROVE  /\ Counting(n) \in Seq(Nat) /\ Range(Counting(n)) = 1..n /\ Counting(0) = <<>>
         /\ Counting(m) = Append(Counting(n), m)
<1>0. n \in Nat /\ m = n + 1
  BY DEF NextOf
<1>1. Counting(n) \in Seq(Nat) /\ Len(Counting(n)) = n /\ \A i \in 1..n : Counting(n)[i] = i
  BY <1>0 DEF Counting
<1>2. Range(Counting(n)) = 1..n
  BY <1>0 DEF Counting, Range
<1>3. Counting(0) = <<>>
  BY DEF Counting
<1> DEFINE a == Append(Counting(n), m)
<1>4. m \in Nat /\ m = n + 1 /\ n = m - 1
  BY <1>0
<1>5. Counting(m) \in Seq(Nat) /\ Len(Counting(m)) = m /\ \A i \in 1..m : Counting(m)[i] = i
  BY <1>4 DEF Counting
<1>6. a \in Seq(Nat) /\ Len(a) = m /\ a[m] = m /\ \A i \in 1..n : a[i] = i
  BY <1>1, <1>4, AppendItem
<1> HIDE DEF a
<1>7. \A i \in 1..m : a[i] = Counting(m)[i]
  <2>1. \A i \in 1..m : i = m \/ i \in 1..n
    BY <1>4
  <2> QED BY <1>4, <1>5, <1>6, <2>1
<1>8. a = Counting(m)
  BY <1>5, <1>6, <1>7, SeqEqual
<1> QED BY <1>1, <1>2, <1>3, <1>8 DEF a

(* A sequence over a set is one over a larger set. *)
LEMMA SequenceInto ==
  ASSUME NEW T, NEW W, T \subseteq W, NEW a \in Seq(T)
  PROVE  a \in Seq(W)
<1>1. a \in [1..Len(a) -> T] /\ Len(a) \in Nat
  OBVIOUS
<1>2. a \in [1..Len(a) -> W]
  BY <1>1
<1> QED BY <1>1, <1>2

(* The elements of a sequence over a set are in it. *)
LEMMA ElementsOf ==
  ASSUME NEW R, NEW a \in Seq(R)
  PROVE  Range(a) \subseteq R
  BY DEF Range

(* A choice among numbers. *)
LEMMA AmongNumbers ==
  ASSUME NEW s \in Seq(Nat), NEW S
  PROVE  /\ \A m \in Nat : Among(Append(s, m), S)
                            = IF m \in S THEN Append(Among(s, S), m) ELSE Among(s, S)
         /\ Among(s, S) \in Seq(Nat) /\ Among(s, S) \in Seq(S)
         /\ Range(Among(s, S)) = Range(s) \cap S
<1> DEFINE R == Nat
<1>1. s \in Seq(R)
  OBVIOUS
<1>2. \A m \in Nat : m \in R
  OBVIOUS
<1> HIDE DEF R
<1>3. \A m \in R : Among(Append(s, m), S) = IF m \in S THEN Append(Among(s, S), m) ELSE Among(s, S)
  BY <1>1, AmongAppend
<1>4. Among(s, S) \in Seq(R) /\ Among(s, S) \in Seq(R \cap S) /\ Range(Among(s, S)) = Range(s) \cap S
  BY <1>1, AmongType
<1>5. Among(s, S) \in Seq(S)
  <2>1. R \cap S \subseteq S
    OBVIOUS
  <2> QED BY <1>4, <2>1, SequenceInto
<1> QED BY <1>2, <1>3, <1>4, <1>5 DEF R

CutTo(S, T, n) == T = S \cap (1..n)

(* A choice of positions, up to one more. *)
LEMMA AmongNext ==
  ASSUME NEW n, NEW m, NextOf(n, m), NEW S, NEW T, CutTo(S, T, n)
  PROVE  /\ Among(Counting(m), S) = Among(Counting(n), T) \o (IF m \in S THEN << m >> ELSE <<>>)
         /\ Among(Counting(n), T) \in Seq(T) /\ Range(Among(Counting(n), T)) = T
<1> DEFINE s == Counting(n)
           a == Among(s, T)
<1>1. s \in Seq(Nat) /\ Range(s) = 1..n /\ Counting(m) = Append(s, m) /\ m \in Nat
  <2>1. m \in Nat
    BY DEF NextOf
  <2> QED BY <2>1, CountingIs
<1> HIDE DEF s
<1>2. a \in Seq(T) /\ Range(a) = 1..n \cap T /\ a \in Seq(Nat)
  <2> HIDE DEF a
  <2>1. Among(s, T) \in Seq(T) /\ Range(Among(s, T)) = Range(s) \cap T /\ Among(s, T) \in Seq(Nat)
    BY <1>1, AmongNumbers
  <2> QED BY <1>1, <2>1 DEF a
<1>3. 1..n \cap T = T
  BY DEF CutTo
<1>4. Among(Append(s, m), S) = IF m \in S THEN Append(Among(s, S), m) ELSE Among(s, S)
  BY <1>1, AmongNumbers
<1>5. Among(s, S) = a
  <2>1. \A x \in Range(s) : x \in S <=> x \in T
    BY <1>1 DEF CutTo
  <2> QED BY <1>1, <2>1, AmongAgree
<1> HIDE DEF a
<1>6. Append(a, m) = a \o << m >> /\ a \o <<>> = a
  BY <1>1, <1>2
<1>7. Among(Counting(m), S) = a \o (IF m \in S THEN << m >> ELSE <<>>)
  BY <1>1, <1>4, <1>5, <1>6
<1>8. a \in Seq(T) /\ Range(a) = T
  BY <1>2, <1>3
<1> QED BY <1>7, <1>8 DEF a, s

Shown(ref, s, n) == {i \in 1..n : ref[i].state = s /\ Visible(ref, i)}

(* The texts of a state, one token later. *)
LEMMA InStateNext ==
  ASSUME NEW ref, NEW s, NEW n, NEW m, NextOf(n, m)
  PROVE  /\ InState(ref, s, m)
              = InState(ref, s, n) \o (IF ref[m].state = s /\ Visible(ref, m) THEN << m >> ELSE <<>>)
         /\ InState(ref, s, n) \in Seq(1..n) /\ InState(ref, s, n) \in Seq(Nat)
         /\ InState(ref, s, 0) = <<>>
<1> DEFINE S == Shown(ref, s, m)
           T == Shown(ref, s, n)
<1>1. InState(ref, s, m) = Among(Counting(m), S) /\ InState(ref, s, n) = Among(Counting(n), T)
  BY DEF InState, Counting, Shown
<1>0. n \in Nat /\ m = n + 1
  BY DEF NextOf
<1>2. m \in S <=> ref[m].state = s /\ Visible(ref, m)
  BY <1>0 DEF Shown
<1>3. T = S \cap (1..n)
  BY <1>0 DEF Shown
<1>4. T \subseteq 1..n /\ T \subseteq Nat
  BY <1>0 DEF Shown
<1> HIDE DEF S, T
<1>5. /\ Among(Counting(m), S) = Among(Counting(n), T) \o (IF m \in S THEN << m >> ELSE <<>>)
      /\ Among(Counting(n), T) \in Seq(T)
  <2>1. CutTo(S, T, n)
    BY <1>3 DEF CutTo
  <2> QED BY <2>1, AmongNext
<1>6. Among(Counting(n), T) \in Seq(1..n) /\ Among(Counting(n), T) \in Seq(Nat)
  BY <1>4, <1>5, SequenceInto
<1>7. InState(ref, s, 0) = <<>>
  <2>1. InState(ref, s, 0) = Among(Counting(0), Shown(ref, s, 0))
    BY DEF InState, Counting, Shown
  <2>2. Counting(0) = <<>>
    BY DEF Counting
  <2> QED BY <2>1, <2>2, AmongNone
<1> QED BY <1>1, <1>2, <1>5, <1>6, <1>7

(* An open call, one token later. *)
LEMMA CallOfNext ==
  ASSUME NEW ref, NEW f, NEW n, NEW m, NextOf(n, m)
  PROVE  /\ CallOf(ref, m, f)
              = CallOf(ref, n, f)
                \o (IF ref[m].state = "tool" /\ Visible(ref, m) /\ ref[m].from = f
                    THEN << m >> ELSE <<>>)
         /\ CallOf(ref, n, f) \in Seq(Nat)
         /\ (\A i \in 1..n : ref[i].from # f) => CallOf(ref, n, f) = <<>>
<1> DEFINE F(k) == {i \in 1..k : ref[i].from = f}
           a == InState(ref, "tool", n)
           shown == ref[m].state = "tool" /\ Visible(ref, m)
           c == CallOf(ref, n, f)
<1>0. n \in Nat /\ m = n + 1
  BY DEF NextOf
<1>1. /\ InState(ref, "tool", m) = a \o (IF shown THEN << m >> ELSE <<>>)
      /\ a \in Seq(1..n) /\ a \in Seq(Nat)
  BY InStateNext
<1>2. CallOf(ref, m, f) = Among(InState(ref, "tool", m), F(m)) /\ c = Among(a, F(n))
  BY DEF CallOf
<1>3. Range(a) \subseteq 1..n
  <2>1. a \in Seq(1..n)
    BY <1>1
  <2> HIDE DEF a
  <2> QED BY <2>1, ElementsOf
<1>4. /\ \A x \in 1..n : x \in F(m) <=> x \in F(n)
      /\ m \in F(m) <=> ref[m].from = f
      /\ (\A i \in 1..n : ref[i].from # f) => F(n) = {}
  BY <1>0
<1> HIDE DEF F, a, shown
<1>5. Among(a, F(m)) = c
  BY <1>1, <1>2, <1>3, <1>4, AmongAgree
<1>6. c \in Seq(Nat) /\ Range(c) = Range(a) \cap F(n)
  <2>1. a \in Seq(Nat)
    BY <1>1
  <2>2. Among(a, F(n)) \in Seq(Nat) /\ Range(Among(a, F(n))) = Range(a) \cap F(n)
    BY <2>1, AmongNumbers
  <2> QED BY <1>2, <2>2
<1>7. ASSUME shown
      PROVE  CallOf(ref, m, f) = c \o (IF ref[m].from = f THEN << m >> ELSE <<>>)
  <2>1. a \o << m >> = Append(a, m) /\ m \in Nat
    BY <1>0, <1>1
  <2>2. Among(Append(a, m), F(m)) = IF m \in F(m) THEN Append(c, m) ELSE c
    <3>1. Among(Append(a, m), F(m)) = IF m \in F(m) THEN Append(Among(a, F(m)), m) ELSE Among(a, F(m))
      <4>1. a \in Seq(Nat)
        BY <1>1
      <4> QED BY <2>1, <4>1, AmongNumbers
    <3> QED BY <1>5, <3>1
  <2> HIDE DEF c
  <2>3. Append(c, m) = c \o << m >> /\ c \o <<>> = c
    BY <1>6, <2>1
  <2>4. CallOf(ref, m, f) = Among(Append(a, m), F(m))
    BY <1>1, <1>2, <1>7, <2>1
  <2> QED BY <1>4, <2>2, <2>3, <2>4
<1>8. ASSUME ~shown PROVE CallOf(ref, m, f) = c \o <<>>
  <2>1. a \o <<>> = a
    BY <1>1
  <2>2. CallOf(ref, m, f) = c
    BY <1>1, <1>2, <1>5, <1>8, <2>1
  <2> HIDE DEF c
  <2> QED BY <1>6, <2>2
<1>9. (\A i \in 1..n : ref[i].from # f) => c = <<>>
  <2>1. SUFFICES ASSUME F(n) = {} PROVE c = <<>>
    BY <1>4
  <2> HIDE DEF c
  <2>2. Range(c) = {}
    BY <1>6, <2>1
  <2>3. Len(c) = 0
    BY <1>6, <2>2 DEF Range
  <2> QED BY <1>6, <2>3, EmptySeq
<1> HIDE DEF c
<1>10. CallOf(ref, m, f)
         = c \o (IF shown /\ ref[m].from = f THEN << m >> ELSE <<>>)
  BY <1>7, <1>8
<1> QED BY <1>6, <1>9, <1>10 DEF c, shown

Closers(ref, n) == {j \in 2..n : ref[j].state = "normal" /\ ref[j - 1].state = "tool"}

CallClosedAt(ref, j) == CallOf(ref, j, ref[j - 1].from)

CallsAt(ref, c) == [k \in DOMAIN c |-> CallClosedAt(ref, c[k])]

(* The complete calls, one token later. *)
LEMMA CallsInNext ==
  ASSUME NEW ref, NEW n, NEW m, NextOf(n, m)
  PROVE  /\ CallsIn(ref, m)
              = CallsIn(ref, n) \o (IF m \in Closers(ref, m) THEN << CallClosedAt(ref, m) >> ELSE <<>>)
         /\ CallsIn(ref, n) \in Seq(Seq(Nat)) /\ CallsIn(ref, 0) = <<>>
<1> DEFINE S == Closers(ref, m)
           T == Closers(ref, n)
           a == Among(Counting(n), T)
           b == Among(Counting(m), S)
<1>0. n \in Nat /\ m = n + 1 /\ m \in Nat
  BY DEF NextOf
<1>1. CallsIn(ref, n) = CallsAt(ref, a) /\ CallsIn(ref, m) = CallsAt(ref, b)
  BY DEF CallsIn, CallsAt, CallClosedAt, Counting, Closers
<1>2. CutTo(S, T, n)
  BY <1>0 DEF CutTo, Closers
<1>3. T \subseteq Nat
  BY <1>0 DEF Closers
<1> HIDE DEF S, T
<1>4. b = a \o (IF m \in S THEN << m >> ELSE <<>>) /\ a \in Seq(T)
  BY <1>2, AmongNext
<1>5. a \in Seq(Nat)
  BY <1>3, <1>4, SequenceInto
<1> HIDE DEF a, b
<1>6. \A j \in Nat : CallClosedAt(ref, j) \in Seq(Nat)
  <2>1. ASSUME NEW j \in Nat PROVE CallClosedAt(ref, j) \in Seq(Nat)
    <3> DEFINE k == j + 1
    <3>1. NextOf(j, k)
      BY DEF NextOf
    <3> HIDE DEF k
    <3> QED BY <3>1, CallOfNext DEF CallClosedAt
  <2> QED BY <2>1
<1>7. CallsAt(ref, a) \in Seq(Seq(Nat)) /\ Len(CallsAt(ref, a)) = Len(a)
      /\ \A k \in 1..Len(a) : CallsAt(ref, a)[k] = CallClosedAt(ref, a[k])
  <2> DEFINE W == Seq(Nat)
             g == CallsAt(ref, a)
  <2>1. Len(a) \in Nat /\ DOMAIN a = 1..Len(a) /\ \A k \in 1..Len(a) : a[k] \in Nat
    BY <1>5
  <2>2. \A k \in 1..Len(a) : CallClosedAt(ref, a[k]) \in W
    BY <1>6, <2>1
  <2> HIDE DEF W
  <2>3. g = [k \in 1..Len(a) |-> CallClosedAt(ref, a[k])]
    BY <2>1 DEF CallsAt
  <2>4. g \in [1..Len(a) -> W]
    BY <2>2, <2>3
  <2> HIDE DEF g
  <2>5. g \in Seq(W) /\ Len(g) = Len(a)
    BY <2>1, <2>4
  <2> QED BY <2>3, <2>5 DEF W, g
<1>8. ASSUME m \in S PROVE CallsAt(ref, b) = CallsAt(ref, a) \o << CallClosedAt(ref, m) >>
  <2> DEFINE g == CallsAt(ref, a)
             x == CallClosedAt(ref, m)
             L == Len(a)
             W == Seq(Nat)
             e == Append(g, x)
  <2>1. b = Append(a, m)
    BY <1>0, <1>4, <1>5, <1>8
  <2>2. /\ Len(b) = L + 1 /\ DOMAIN b = 1..L + 1 /\ b[L + 1] = m /\ L \in Nat
        /\ \A k \in 1..L : b[k] = a[k]
    BY <1>0, <1>5, <2>1, AppendItem
  <2>3. g \in Seq(W) /\ Len(g) = L /\ x \in W /\ \A k \in 1..L : g[k] = CallClosedAt(ref, a[k])
    BY <1>0, <1>6, <1>7
  <2> HIDE DEF W, g, x, L
  <2>4. /\ Len(e) = L + 1 /\ DOMAIN e = 1..L + 1 /\ e[L + 1] = x
        /\ (\A k \in 1..L : e[k] = g[k]) /\ e \in Seq(W)
    BY <2>3, AppendItem
  <2>5. CallsAt(ref, b) = [k \in 1..L + 1 |-> CallClosedAt(ref, b[k])]
    BY <2>2 DEF CallsAt
  <2> HIDE DEF e
  <2>6. e = [k \in 1..L + 1 |-> e[k]]
    <3>1. e \in Seq(W) /\ DOMAIN e = 1..L + 1
      BY <2>4
    <3>2. e = [k \in DOMAIN e |-> e[k]]
      BY <3>1
    <3> QED BY <3>1, <3>2
  <2>7. ASSUME NEW k \in 1..L + 1 PROVE e[k] = CallClosedAt(ref, b[k])
    <3>1. k = L + 1 \/ k \in 1..L
      BY <2>2
    <3>2. CASE k = L + 1
      BY <2>2, <2>4, <3>2 DEF x
    <3>3. CASE k \in 1..L
      BY <2>2, <2>3, <2>4, <3>3
    <3> QED BY <3>1, <3>2, <3>3
  <2>8. CallsAt(ref, b) = e
    BY <2>5, <2>6, <2>7
  <2>9. Append(g, x) = g \o << x >>
    BY <2>3
  <2> QED BY <2>8, <2>9 DEF e, g, x
<1>9. ASSUME m \notin S PROVE CallsAt(ref, b) = CallsAt(ref, a) \o <<>>
  <2>1. b = a
    BY <1>4, <1>5, <1>9
  <2> DEFINE g == CallsAt(ref, a)
  <2>2. g \in Seq(Seq(Nat))
    BY <1>7
  <2> HIDE DEF g
  <2>3. g \o <<>> = g
    BY <2>2
  <2> QED BY <2>1, <2>3 DEF g
<1>10. CallsIn(ref, 0) = <<>>
  <2>1. Counting(0) = <<>>
    BY DEF Counting
  <2>2. CallsIn(ref, 0) = CallsAt(ref, Among(Counting(0), Closers(ref, 0)))
    BY DEF CallsIn, CallsAt, CallClosedAt, Counting, Closers
  <2>3. Among(Counting(0), Closers(ref, 0)) = <<>>
    BY <2>1, AmongNone
  <2>4. CallsAt(ref, <<>>) = <<>>
    BY DEF CallsAt
  <2> QED BY <2>2, <2>3, <2>4
<1> QED BY <1>1, <1>7, <1>8, <1>9, <1>10 DEF S

AgreeUpto(ref, new, n) ==
  n \in Nat /\ \A i \in 1..n : new[i] = ref[i] /\ (Visible(new, i) <=> Visible(ref, i))

(* What the tokens say depends on what is known of them alone. *)
LEMMA SaysTheSame ==
  ASSUME NEW ref, NEW new, NEW n, AgreeUpto(ref, new, n)
  PROVE  /\ \A s : InState(new, s, n) = InState(ref, s, n)
         /\ \A f : CallOf(new, n, f) = CallOf(ref, n, f)
         /\ CallsIn(new, n) = CallsIn(ref, n)
         /\ n > 0 => OpenCall(new, n) = OpenCall(ref, n)
<1>0. n \in Nat
  BY DEF AgreeUpto
<1>1. ASSUME NEW j \in 0..n, NEW s PROVE InState(new, s, j) = InState(ref, s, j)
  <2>1. Shown(new, s, j) = Shown(ref, s, j)
    BY <1>0 DEF Shown, AgreeUpto
  <2> QED BY <2>1 DEF InState, Shown
<1>2. ASSUME NEW j \in 0..n, NEW f PROVE CallOf(new, j, f) = CallOf(ref, j, f)
  <2>1. {i \in 1..j : new[i].from = f} = {i \in 1..j : ref[i].from = f}
    BY <1>0 DEF AgreeUpto
  <2> QED BY <1>1, <2>1 DEF CallOf
<1>3. CallsIn(new, n) = CallsIn(ref, n)
  <2> DEFINE a == Among(Counting(n), Closers(ref, n))
  <2>1. Closers(new, n) = Closers(ref, n)
    <3>1. \A j \in 2..n : j \in 1..n /\ j - 1 \in 1..n
      BY <1>0
    <3> QED BY <3>1 DEF Closers, AgreeUpto
  <2>2. CallsIn(new, n) = CallsAt(new, a) /\ CallsIn(ref, n) = CallsAt(ref, a)
    BY <2>1 DEF CallsIn, CallsAt, CallClosedAt, Counting, Closers
  <2>3. a \in Seq(Closers(ref, n))
    <3>1. CutTo(Closers(ref, n), Closers(ref, n), n)
      BY <1>0 DEF CutTo, Closers
    <3>2. NextOf(n, n + 1)
      BY <1>0 DEF NextOf
    <3> QED BY <3>1, <3>2, AmongNext
  <2> HIDE DEF a
  <2>4. ASSUME NEW k \in DOMAIN a PROVE CallClosedAt(new, a[k]) = CallClosedAt(ref, a[k])
    <3>1. a[k] \in Closers(ref, n)
      BY <2>3
    <3>2. a[k] \in 0..n /\ a[k] - 1 \in 1..n
      BY <1>0, <3>1 DEF Closers
    <3>3. new[a[k] - 1] = ref[a[k] - 1]
      BY <3>2 DEF AgreeUpto
    <3> QED BY <1>2, <3>2, <3>3 DEF CallClosedAt
  <2>5. CallsAt(new, a) = CallsAt(ref, a)
    BY <2>4 DEF CallsAt
  <2> QED BY <2>2, <2>5
<1>4. n > 0 => OpenCall(new, n) = OpenCall(ref, n)
  <2>1. ASSUME n > 0 PROVE OpenCall(new, n) = OpenCall(ref, n)
    <3>1. n \in 1..n /\ n \in 0..n
      BY <1>0, <2>1
    <3>2. new[n] = ref[n]
      BY <3>1 DEF AgreeUpto
    <3>3. CallOf(new, n, ref[n].from) = CallOf(ref, n, ref[n].from)
      BY <1>2, <3>1
    <3> QED BY <3>2, <3>3 DEF OpenCall
  <2> QED BY <2>1
<1>5. n \in 0..n
  BY <1>0
<1> QED BY <1>1, <1>2, <1>3, <1>4, <1>5

----------------------------------------
(* What the client got *)

Chunks ==
  [text : Seq(Nat), reasoning : Seq(Nat), calls : Seq(Seq(Nat)), rejected : Seq(Seq(Nat)),
   finish : {None, Stop, "length", "tool_calls"}]

FieldsOf(s, field) == [k \in DOMAIN s |-> s[k][field]]

HasField(R, C, field) == \A x \in C : x[field] \in Seq(R)

(* What was sent, with one more. *)
LEMMA SentMore ==
  ASSUME NEW R, NEW C, NEW field, HasField(R, C, field), NEW s \in Seq(C)
  PROVE  /\ FlattenSeq(FieldsOf(s, field)) \in Seq(R)
         /\ \A x \in C : FlattenSeq(FieldsOf(Append(s, x), field))
                           = FlattenSeq(FieldsOf(s, field)) \o x[field]
         /\ FlattenSeq(FieldsOf(<<>>, field)) = <<>>
<1> DEFINE W == Seq(R)
           L == Len(s)
           f == FieldsOf(s, field)
<1>1. \A x \in C : x[field] \in W
  BY DEF HasField
<1>2. L \in Nat /\ DOMAIN s = 1..L /\ \A k \in 1..L : s[k] \in C
  OBVIOUS
<1> HIDE DEF W, L
<1>3. f \in Seq(W) /\ Len(f) = L /\ \A k \in 1..L : f[k] = s[k][field]
  <2>1. f = [k \in 1..L |-> s[k][field]]
    BY <1>2 DEF FieldsOf
  <2>2. f \in [1..L -> W]
    BY <1>1, <1>2, <2>1
  <2> HIDE DEF f
  <2>3. f \in Seq(W) /\ Len(f) = L
    BY <1>2, <2>2
  <2> QED BY <2>1, <2>3
<1> HIDE DEF f
<1>4. FlattenSeq(f) \in Seq(R)
  BY <1>3, FlattenProperties DEF W
<1>5. ASSUME NEW x \in C
      PROVE  FlattenSeq(FieldsOf(Append(s, x), field)) = FlattenSeq(f) \o x[field]
  <2> DEFINE t == Append(s, x)
             g == FieldsOf(t, field)
             y == x[field]
             e == Append(f, y)
  <2>1. /\ Len(t) = L + 1 /\ DOMAIN t = 1..L + 1 /\ t[L + 1] = x /\ \A k \in 1..L : t[k] = s[k]
    BY AppendItem DEF L
  <2> HIDE DEF t
  <2>2. g = [k \in 1..L + 1 |-> t[k][field]]
    BY <2>1 DEF FieldsOf
  <2>3. y \in W
    BY <1>1
  <2>4. /\ e \in Seq(W) /\ DOMAIN e = 1..L + 1 /\ e[L + 1] = y /\ \A k \in 1..L : e[k] = f[k]
    BY <1>3, <2>3, AppendItem
  <2>5. ASSUME NEW k \in 1..L + 1 PROVE t[k][field] = e[k]
    <3>1. k = L + 1 \/ k \in 1..L
      BY <1>2
    <3>2. CASE k = L + 1
      BY <2>1, <2>4, <3>2
    <3>3. CASE k \in 1..L
      BY <1>3, <2>1, <2>4, <3>3
    <3> QED BY <3>1, <3>2, <3>3
  <2> HIDE DEF e, g, y
  <2>6. e = [k \in 1..L + 1 |-> e[k]]
    <3>1. e = [k \in DOMAIN e |-> e[k]]
      BY <2>4
    <3> QED BY <2>4, <3>1
  <2>7. g = e
    BY <2>2, <2>5, <2>6
  <2>8. FlattenSeq(Append(f, y)) = FlattenSeq(f) \o y
    BY <1>3, <2>3, FlattenProperties DEF W
  <2> QED BY <2>7, <2>8 DEF e, g, t, y
<1>6. FlattenSeq(FieldsOf(<<>>, field)) = <<>>
  <2>1. FieldsOf(<<>>, field) = <<>>
    BY DEF FieldsOf
  <2> QED BY <2>1, FlattenProperties
<1> QED BY <1>4, <1>5, <1>6 DEF f

Called == Seq(Nat) \ {<<>>}

(* One more call on both sides. *)
LEMMA SameCallsMore ==
  ASSUME NEW got \in Seq(Seq(Nat)), NEW expected \in Seq(Seq(Nat)), NEW x \in Seq(Nat),
         SameCalls(got, expected)
  PROVE  SameCalls(got \o << x >>, expected \o << x >>)
<1> DEFINE W == Seq(Nat)
           a == Among(got, Called)
           b == Among(expected, Called)
           more(u) == IF x \in Called THEN Append(u, x) ELSE u
<1>1. Range(a) = Range(b) /\ Len(a) = Len(b)
  BY DEF SameCalls, Called
<1>2. got \in Seq(W) /\ expected \in Seq(W) /\ x \in W
  OBVIOUS
<1> HIDE DEF W
<1>3. a \in Seq(W) /\ b \in Seq(W)
  BY <1>2, AmongType
<1>4. Among(Append(got, x), Called) = more(a) /\ Among(Append(expected, x), Called) = more(b)
  BY <1>2, AmongAppend
<1> HIDE DEF a, b
<1>5. Range(more(a)) = Range(more(b)) /\ Len(more(a)) = Len(more(b))
  <2>1. ASSUME NEW u \in Seq(W)
        PROVE  Len(Append(u, x)) = Len(u) + 1 /\ Range(Append(u, x)) = Range(u) \cup {x}
    <3>1. x \in W
      BY <1>2
    <3>2. /\ Len(Append(u, x)) = Len(u) + 1 /\ DOMAIN Append(u, x) = 1..Len(u) + 1
          /\ DOMAIN u = 1..Len(u) /\ Len(u) \in Nat
          /\ Append(u, x)[Len(u) + 1] = x /\ \A i \in 1..Len(u) : Append(u, x)[i] = u[i]
      BY <3>1, AppendItem
    <3> DEFINE v == Append(u, x)
    <3>3. Len(v) = Len(u) + 1
      BY <3>2
    <3>4. DOMAIN v = 1..Len(u) + 1 /\ v[Len(u) + 1] = x /\ \A i \in 1..Len(u) : v[i] = u[i]
      BY <3>2
    <3>5. DOMAIN u = 1..Len(u) /\ Len(u) \in Nat
      BY <3>2
    <3> HIDE DEF v
    <3>6. Range(v) = {v[i] : i \in 1..Len(u) + 1} /\ Range(u) = {u[i] : i \in 1..Len(u)}
      BY <3>4, <3>5 DEF Range
    <3>7. 1..Len(u) + 1 = (1..Len(u)) \cup {Len(u) + 1}
      BY <3>5
    <3>8. Range(v) = Range(u) \cup {x}
      <4> DEFINE L == Len(u)
                 I == 1..L
                 last == L + 1
      <4>1. Range(v) = {v[i] : i \in I \cup {last}} /\ Range(u) = {u[i] : i \in I}
        BY <3>6, <3>7
      <4>2. v[last] = x /\ \A i \in I : v[i] = u[i]
        BY <3>4
      <4> HIDE DEF I, last
      <4>3. ASSUME NEW y PROVE y \in Range(v) <=> y \in Range(u) \cup {x}
        BY <4>1, <4>2
      <4> QED BY <4>3
    <3> QED BY <3>3, <3>8 DEF v
  <2>2. Len(Append(a, x)) = Len(a) + 1 /\ Range(Append(a, x)) = Range(a) \cup {x}
    BY <1>3, <2>1
  <2>3. Len(Append(b, x)) = Len(b) + 1 /\ Range(Append(b, x)) = Range(b) \cup {x}
    BY <1>3, <2>1
  <2> QED BY <1>1, <2>2, <2>3
<1>6. got \o << x >> = Append(got, x) /\ expected \o << x >> = Append(expected, x)
  OBVIOUS
<1> HIDE DEF more
<1>7. SameCalls(Append(got, x), Append(expected, x))
  BY <1>4, <1>5 DEF SameCalls, Called
<1> QED BY <1>6, <1>7

Parts(C, P, f, g) == f = Among(C, P) /\ g = Among(C, Range(C) \ P)

(* Calls put together, those that were parsed and those that were not. *)
LEMMA SameCallsSplit ==
  ASSUME NEW A \in Seq(Seq(Nat)), NEW B \in Seq(Seq(Nat)), NEW C \in Seq(Seq(Nat)), NEW P,
         NEW f, NEW g, Parts(C, P, f, g), NEW expected,
         SameCalls(A \o B \o C, expected)
  PROVE  SameCalls((A \o f) \o (B \o g), expected)
<1> DEFINE W == Seq(Nat)
           T == Called
           M(u) == Among(u, T)
           e == (A \o f) \o (B \o g)
           d == A \o B \o C
<1>1. A \in Seq(W) /\ B \in Seq(W) /\ C \in Seq(W)
  OBVIOUS
<1> HIDE DEF W, T
<1>2. f = Among(C, P) /\ g = Among(C, W \ P)
  <2>1. \A x \in Range(C) : x \in Range(C) \ P <=> x \in W \ P
    <3>1. Range(C) \subseteq W
      BY <1>1, ElementsOf
    <3> QED BY <3>1
  <2>2. Among(C, Range(C) \ P) = Among(C, W \ P)
    BY <1>1, <2>1, AmongAgree
  <2> QED BY <2>2 DEF Parts
<1>3. f \in Seq(W) /\ g \in Seq(W) /\ Range(f) = Range(C) \cap P /\ Range(g) = Range(C) \cap (W \ P)
      /\ Range(C) \subseteq W
  <2> DEFINE NP == W \ P
             u == Among(C, P)
             v == Among(C, NP)
  <2>1. f = u /\ g = v
    BY <1>2
  <2>2. u \in Seq(W) /\ Range(u) = Range(C) \cap P
    BY <1>1, AmongType
  <2> HIDE DEF NP
  <2>3. v \in Seq(W) /\ Range(v) = Range(C) \cap NP
    BY <1>1, AmongType
  <2> HIDE DEF u, v
  <2>4. Range(C) \subseteq W
    BY <1>1, ElementsOf
  <2> QED BY <2>1, <2>2, <2>3, <2>4 DEF NP
<1>4. Len(M(f)) + Len(M(g)) = Len(M(C))
  <2>1. Len(M(Among(C, P))) + Len(M(Among(C, W \ P))) = Len(M(C))
    BY <1>1, AmongSplit
  <2> HIDE DEF M
  <2> QED BY <1>2, <2>1
<1>5. A \o f \in Seq(W) /\ B \o g \in Seq(W) /\ A \o B \in Seq(W)
  BY <1>1, <1>3
<1>6. M(e) = (M(A) \o M(f)) \o (M(B) \o M(g)) /\ M(d) = (M(A) \o M(B)) \o M(C)
  <2>1. \A u, v \in Seq(W) : M(u \o v) = M(u) \o M(v)
    BY AmongConcat
  <2> DEFINE Af == A \o f
             Bg == B \o g
             AB == A \o B
  <2>2. Af \in Seq(W) /\ Bg \in Seq(W) /\ AB \in Seq(W)
    BY <1>5
  <2>3. A \in Seq(W) /\ B \in Seq(W) /\ C \in Seq(W) /\ f \in Seq(W) /\ g \in Seq(W)
    BY <1>1, <1>3
  <2>4. e = Af \o Bg /\ d = AB \o C
    OBVIOUS
  <2> HIDE DEF M, e, d
  <2>5. M(Af) = M(A) \o M(f) /\ M(Bg) = M(B) \o M(g) /\ M(AB) = M(A) \o M(B)
    BY <2>1, <2>3
  <2> HIDE DEF Af, Bg, AB
  <2>6. M(Af \o Bg) = M(Af) \o M(Bg) /\ M(AB \o C) = M(AB) \o M(C)
    BY <2>1, <2>2, <2>3
  <2> QED BY <2>4, <2>5, <2>6
<1>7. /\ M(A) \in Seq(W) /\ M(B) \in Seq(W) /\ M(C) \in Seq(W) /\ M(f) \in Seq(W) /\ M(g) \in Seq(W)
      /\ Range(M(f)) = Range(f) \cap T /\ Range(M(g)) = Range(g) \cap T
      /\ Range(M(C)) = Range(C) \cap T
  <2>1. \A u \in Seq(W) : M(u) \in Seq(W) /\ Range(M(u)) = Range(u) \cap T
    BY AmongType
  <2> HIDE DEF M
  <2> QED BY <1>1, <1>3, <2>1
<1> HIDE DEF M
<1>9. Range(M(f)) \cup Range(M(g)) = Range(M(C))
  BY <1>3, <1>7
<1> DEFINE a == M(A)
           b == M(B)
           c == M(C)
           p == M(f)
           q == M(g)
<1>10. a \in Seq(W) /\ b \in Seq(W) /\ c \in Seq(W) /\ p \in Seq(W) /\ q \in Seq(W)
       /\ Range(p) \cup Range(q) = Range(c) /\ Len(p) + Len(q) = Len(c)
  BY <1>4, <1>7, <1>9
<1>11. M(e) = (a \o p) \o (b \o q) /\ M(d) = (a \o b) \o c
  BY <1>6
<1> HIDE DEF a, b, c, p, q, e, d
<1>12. Len(M(e)) = Len(M(d))
  <2>1. Len((a \o p) \o (b \o q)) = Len(a) + Len(p) + (Len(b) + Len(q))
    BY <1>10
  <2>2. Len((a \o b) \o c) = Len(a) + Len(b) + Len(c)
    BY <1>10
  <2>3. Len(a) \in Nat /\ Len(b) \in Nat /\ Len(c) \in Nat /\ Len(p) \in Nat /\ Len(q) \in Nat
    BY <1>10
  <2>4. Len(p) + Len(q) = Len(c)
    BY <1>10
  <2>5. Len(M(e)) = Len(a) + Len(p) + (Len(b) + Len(q))
    BY <1>11, <2>1
  <2>6. Len(M(d)) = Len(a) + Len(b) + Len(c)
    BY <1>11, <2>2
  <2> DEFINE la == Len(a)
             lb == Len(b)
             lc == Len(c)
             lp == Len(p)
             lq == Len(q)
             le == Len(M(e))
             ld == Len(M(d))
  <2> HIDE DEF la, lb, lc, lp, lq, le, ld
  <2>7. le = la + lp + (lb + lq) /\ ld = la + lb + lc
    BY <2>5, <2>6 DEF la, lb, lc, lp, lq, le, ld
  <2>8. la \in Nat /\ lb \in Nat /\ lc \in Nat /\ lp \in Nat /\ lq \in Nat /\ lp + lq = lc
    BY <2>3, <2>4 DEF la, lb, lc, lp, lq
  <2>9. le = ld
    BY <2>7, <2>8
  <2> QED BY <2>9 DEF le, ld
<1>13. Range(M(e)) = Range(M(d))
  <2>1. \A u, v \in Seq(W) : Range(u \o v) = Range(u) \cup Range(v)
    BY RangeConcatenation
  <2>2. a \o p \in Seq(W) /\ b \o q \in Seq(W) /\ a \o b \in Seq(W)
    BY <1>10
  <2>3. Range(M(e)) = (Range(a) \cup Range(p)) \cup (Range(b) \cup Range(q))
    <3>1. Range(a \o p) = Range(a) \cup Range(p) /\ Range(b \o q) = Range(b) \cup Range(q)
      BY <1>10, <2>1
    <3>2. Range((a \o p) \o (b \o q)) = Range(a \o p) \cup Range(b \o q)
      BY <2>1, <2>2
    <3> QED BY <1>11, <3>1, <3>2
  <2>4. Range(M(d)) = (Range(a) \cup Range(b)) \cup Range(c)
    <3> DEFINE ab == a \o b
    <3>1. ab \in Seq(W) /\ c \in Seq(W) /\ M(d) = ab \o c
      BY <1>10, <1>11, <2>2
    <3>2. Range(ab) = Range(a) \cup Range(b)
      BY <1>10, <2>1
    <3> HIDE DEF ab, a, b, c
    <3>3. Range(ab \o c) = Range(ab) \cup Range(c)
      BY <2>1, <3>1
    <3> QED BY <3>1, <3>2, <3>3
  <2> QED BY <1>10, <2>3, <2>4
<1>14. SameCalls(e, expected)
  BY <1>12, <1>13 DEF SameCalls, M, T, Called, d
<1> QED BY <1>14 DEF e

----------------------------------------
(* The types *)

(* The nodes of a state's trie. *)
LEMMA TriesAre ==
  ASSUME NEW q \in Requests, NEW s \in States
  PROVE  Tries[q][s].nodes = Nodes(Sequences(q, s))
<1>1. Tries[q] = [x \in States |-> BuildTrie(Sequences(q, x))]
  BY DEF Tries
<1>2. Tries[q][s] = BuildTrie(Sequences(q, s))
  BY <1>1
<1> QED BY <1>2 DEF BuildTrie

(* The matcher is at a node of its trie, and the buffer has a response for every *)
(* token that was not read: what is known of every state implies the types.      *)
LEMMA CoreTypes ==
  ASSUME Core
  PROVE  TypeOK /\ ~raised
<1> DEFINE q == request
           b == Latest(q, tokens)
           L == Len(tokens)
           ref == ReferenceOf(q, tokens)
<1>1. MachineIs(q, tokens, matcher, ended) /\ q \in Requests /\ tokens \in Seq(q.vocab)
      /\ L <= q.limit
  BY DEF Core, MachineIs
<1>2. matcher.state = b.state
      /\ (matcher.state \in States =>
            LongestEnd(Nodes(Sequences(q, matcher.state)), matcher.node,
                       SubSeq(tokens, b.from + 1, L)))
      /\ ended = (IF tokens = <<>> THEN None ELSE FinishAt(q, ref, L))
  BY <1>1 DEF MachineIs
<1>3. L \in Nat /\ (tokens = <<>> <=> L = 0)
  BY <1>1
<1>4. \/ matcher.state = Stop /\ ended = Stop
      \/ matcher.node \in Tries[request][matcher.state].nodes
  <2>1. CASE matcher.state \in States
    <3>1. matcher.node \in Nodes(Sequences(q, matcher.state))
      BY <1>2, <2>1 DEF LongestEnd
    <3> QED BY <1>1, <2>1, <3>1, TriesAre
  <2>2. CASE matcher.state \notin States
    <3>1. CASE L = 0
      <4>1. b = Start(q)
        BY <1>3, <3>1 DEF Latest, Before
      <4>2. Start(q).state = q.initial /\ q.initial \in States
        BY <1>1, RequestsAssumption DEF Start
      <4> QED BY <1>2, <2>2, <4>1, <4>2
    <3>2. CASE L # 0
      <4>1. RefersTo(q, tokens, L, ref)
        BY <1>1, ReferenceIs
      <4>2. ref \in Seq(Entries) /\ Len(ref) = L
        BY <4>1 DEF RefersTo
      <4>3. ref[L] \in Entries
        BY <1>3, <3>2, <4>2
      <4>4. b = ref[L]
        BY <1>3, <3>2 DEF Latest, Before
      <4>5. ref[L].state = Stop
        BY <1>2, <2>2, <4>3, <4>4 DEF Entries, Targets
      <4> QED BY <1>2, <1>3, <3>2, <4>4, <4>5 DEF FinishAt
    <3> QED BY <3>1, <3>2
  <2> QED BY <2>1, <2>2
<1>5. h.count \in Nat /\ h.count <= L
  BY DEF Core, Handlers
<1>6. Len(buffer) = L - h.count
  <2>1. buffer = Waiting(q, tokens, Reference, h.count)
    BY DEF Core
  <2>2. h.count \in 0..L
    BY <1>3, <1>5
  <2> DEFINE V == q.vocab
             c == h.count
  <2>3. tokens \in Seq(V) /\ c \in 0..Len(tokens)
    BY <1>1, <2>2
  <2> HIDE DEF V, c
  <2>4. Len(Waiting(q, tokens, Reference, c)) = Len(tokens) - c
    BY <2>3, WaitingIs
  <2> QED BY <2>1, <2>4 DEF c
<1>7. h.count + Len(buffer) = Len(tokens)
  BY <1>3, <1>5, <1>6
<1>8. Len(buffer) < BufferSize
  BY <1>6 DEF Core
<1>9. phase \in {"open", "loop", "final", "done"} /\ ~raised
  BY DEF Core
<1> HIDE DEF L
<1> QED BY <1>1, <1>4, <1>7, <1>8, <1>9 DEF TypeOK, L

----------------------------------------
(* What was sent and what is kept *)

(* What the client got and what a handler k keeps, taken together. *)
Got(q, s, field, kept) ==
  IF q.api = "responses" THEN kept ELSE FlattenSeq(FieldsOf(s, field)) \o kept

GotCalls(q, s, kept) ==
  IF q.api = "responses" THEN kept
  ELSE FlattenSeq(FieldsOf(s, "calls")) \o FlattenSeq(FieldsOf(s, "rejected")) \o kept

Told(q, s, k, ref, n) ==
  /\ WithoutMessage(Got(q, s, "text", k.text)) = InState(ref, "normal", n)
  /\ Got(q, s, "reasoning", k.reasoning) = InState(ref, "reasoning", n)
  /\ SameCalls(GotCalls(q, s, k.calls), CallsIn(ref, n))

(* The requests of the chat API get chunks. *)
Client(q, s) == q.api \in {"chat", "responses"} /\ (q.api = "chat" => s \in Seq(Chunks))

(* The fields of chunks. *)
LEMMA ChunkFields ==
  /\ HasField(Nat, Chunks, "text") /\ HasField(Nat, Chunks, "reasoning")
  /\ HasField(Seq(Nat), Chunks, "calls") /\ HasField(Seq(Nat), Chunks, "rejected")
BY DEF HasField, Chunks

(* What a chunk says. *)
LEMMA ChunkIs ==
  ASSUME NEW V, NEW c \in Handlers(V), NEW parsed, NEW f \in {None, Stop, "length", "tool_calls"},
         NEW x, x = Chunk(c, parsed, f)
  PROVE  /\ x \in Chunks /\ x["text"] = c.text /\ x["reasoning"] = c.reasoning
         /\ Parts(c.calls, parsed, x["calls"], x["rejected"])
<1> DEFINE W == Seq(Nat)
<1>1. c.calls \in Seq(W) /\ c.text \in Seq(Nat) /\ c.reasoning \in Seq(Nat)
  BY DEF Handlers
<1> HIDE DEF W
<1>2. Among(c.calls, parsed) \in Seq(W) /\ Among(c.calls, Range(c.calls) \ parsed) \in Seq(W)
  BY <1>1, AmongType
<1>3. x = [text |-> c.text, reasoning |-> c.reasoning, calls |-> Among(c.calls, parsed),
           rejected |-> Among(c.calls, Range(c.calls) \ parsed), finish |-> f]
  BY DEF Chunk, Formatted
<1>4. x["calls"] = Among(c.calls, parsed) /\ x["rejected"] = Among(c.calls, Range(c.calls) \ parsed)
      /\ x["text"] = c.text /\ x["reasoning"] = c.reasoning
  BY <1>3
<1>5. x \in Chunks
  BY <1>1, <1>2, <1>3 DEF Chunks, W
<1> QED BY <1>4, <1>5 DEF Parts

(* What was got are sequences. *)
LEMMA GotTypes ==
  ASSUME NEW q, NEW s, Client(q, s), NEW V, NEW k \in Handlers(V)
  PROVE  /\ Got(q, s, "text", k.text) \in Seq(Nat)
         /\ Got(q, s, "reasoning", k.reasoning) \in Seq(Nat)
         /\ GotCalls(q, s, k.calls) \in Seq(Seq(Nat))
<1> DEFINE W == Seq(Nat)
           a == FlattenSeq(FieldsOf(s, "text"))
           b == FlattenSeq(FieldsOf(s, "reasoning"))
           c == FlattenSeq(FieldsOf(s, "calls"))
           d == FlattenSeq(FieldsOf(s, "rejected"))
<1>1. k.calls \in Seq(W) /\ k.text \in Seq(Nat) /\ k.reasoning \in Seq(Nat)
  BY DEF Handlers
<1>2. HasField(W, Chunks, "calls") /\ HasField(W, Chunks, "rejected")
  BY ChunkFields
<1> HIDE DEF W
<1>3. CASE q.api = "responses"
  BY <1>1, <1>3 DEF Got, GotCalls, W
<1>4. CASE q.api # "responses"
  <2>1. s \in Seq(Chunks)
    BY <1>4 DEF Client
  <2>2. a \in Seq(Nat) /\ b \in Seq(Nat)
    BY <2>1, ChunkFields, SentMore
  <2>3. c \in Seq(W) /\ d \in Seq(W)
    BY <2>1, <1>2, SentMore
  <2> HIDE DEF a, b, c, d
  <2>4. a \o k.text \in Seq(Nat) /\ b \o k.reasoning \in Seq(Nat)
    BY <1>1, <2>2
  <2>5. c \o d \o k.calls \in Seq(W)
    BY <1>1, <2>3
  <2> QED BY <1>4, <2>4, <2>5 DEF Got, GotCalls, a, b, c, d, W
<1> QED BY <1>3, <1>4

(* It depends on what the handler keeps alone. *)
LEMMA ToldSame ==
  ASSUME NEW q, NEW s, NEW c, NEW d, Same(c, d), NEW ref, NEW n, Told(q, s, c, ref, n)
  PROVE  Told(q, s, d, ref, n)
BY DEF Told, Same

(* The message of a guard is not part of the text. *)
LEMMA ToldMarked ==
  ASSUME NEW q, NEW s, Client(q, s), NEW V, NEW c \in Handlers(V), NEW d,
         d.text = Append(c.text, Message), d.reasoning = c.reasoning, d.calls = c.calls,
         NEW ref, NEW n, Told(q, s, c, ref, n)
  PROVE  Told(q, s, d, ref, n)
<1> DEFINE a == FlattenSeq(FieldsOf(s, "text"))
           g == Got(q, s, "text", c.text)
<1>1. c.text \in Seq(Nat) /\ Message \in Nat
  BY DEF Handlers, Message
<1>2. g \in Seq(Nat)
  BY GotTypes
<1>3. Got(q, s, "text", d.text) = Append(g, Message)
  <2>1. CASE q.api = "responses"
    BY <2>1 DEF Got
  <2>2. CASE q.api # "responses"
    <3>1. s \in Seq(Chunks)
      BY <2>2 DEF Client
    <3>2. a \in Seq(Nat)
      BY <3>1, ChunkFields, SentMore
    <3> DEFINE t == c.text
               z == Message
    <3>3. a \in Seq(Nat) /\ t \in Seq(Nat) /\ z \in Nat
      BY <1>1, <3>2
    <3> HIDE DEF a, t, z
    <3>4. a \o Append(t, z) = Append(a \o t, z)
      BY <3>3
    <3> QED BY <2>2, <3>4 DEF Got, a, t, z
  <2> QED BY <2>1, <2>2
<1> HIDE DEF g
<1>4. WithoutMessage(Append(g, Message)) = WithoutMessage(g)
  BY <1>1, <1>2, AmongNumbers DEF WithoutMessage
<1> QED BY <1>3, <1>4 DEF Told, g

(* One more chunk. *)
LEMMA FieldMore ==
  ASSUME NEW R, NEW field, HasField(R, Chunks, field), NEW s \in Seq(Chunks), NEW x \in Chunks
  PROVE  /\ FlattenSeq(FieldsOf(s, field)) \in Seq(R)
         /\ FlattenSeq(FieldsOf(Append(s, x), field)) = FlattenSeq(FieldsOf(s, field)) \o x[field]
BY SentMore

(* The client has got with t what it had got with s and what c keeps. *)
Sends(q, s, c, t, d) ==
  /\ Client(q, t)
  /\ Got(q, t, "text", d.text) = Got(q, s, "text", c.text)
  /\ Got(q, t, "reasoning", d.reasoning) = Got(q, s, "reasoning", c.reasoning)
  /\ \A expected : SameCalls(GotCalls(q, s, c.calls), expected)
                     => SameCalls(GotCalls(q, t, d.calls), expected)

Empty(d) == d.text = <<>> /\ d.reasoning = <<>> /\ d.calls = <<>>

(* A chunk takes over what the handler kept. *)
LEMMA ToldSent ==
  ASSUME NEW q, NEW s, Client(q, s), q.api = "chat", NEW V, NEW c \in Handlers(V),
         NEW parsed, NEW f \in {None, Stop, "length", "tool_calls"}, NEW d, Empty(d)
  PROVE  Sends(q, s, c, Append(s, Chunk(c, parsed, f)), d)
<1> DEFINE x == Chunk(c, parsed, f)
<1>0. d.text = <<>> /\ d.reasoning = <<>> /\ d.calls = <<>>
  BY DEF Empty
<1> DEFINE W == Seq(Nat)
           t == Append(s, x)
           a == FlattenSeq(FieldsOf(s, "text"))
           b == FlattenSeq(FieldsOf(s, "reasoning"))
           A == FlattenSeq(FieldsOf(s, "calls"))
           B == FlattenSeq(FieldsOf(s, "rejected"))
           C == c.calls
           F == x["calls"]
           G == x["rejected"]
<1>1. s \in Seq(Chunks) /\ x \in Chunks /\ x["text"] = c.text /\ x["reasoning"] = c.reasoning
      /\ Parts(C, parsed, F, G)
  BY ChunkIs DEF Client
<1>2. Client(q, t)
  BY <1>1 DEF Client
<1>3. /\ a \in Seq(Nat) /\ FlattenSeq(FieldsOf(t, "text")) = a \o c.text
      /\ b \in Seq(Nat) /\ FlattenSeq(FieldsOf(t, "reasoning")) = b \o c.reasoning
  <2>1. a \in Seq(Nat) /\ FlattenSeq(FieldsOf(t, "text")) = a \o x["text"]
    BY <1>1, ChunkFields, FieldMore
  <2>2. b \in Seq(Nat) /\ FlattenSeq(FieldsOf(t, "reasoning")) = b \o x["reasoning"]
    BY <1>1, ChunkFields, FieldMore
  <2> HIDE DEF a, b, t
  <2> QED BY <1>1, <2>1, <2>2
<1>4. /\ A \in Seq(W) /\ FlattenSeq(FieldsOf(t, "calls")) = A \o F
      /\ B \in Seq(W) /\ FlattenSeq(FieldsOf(t, "rejected")) = B \o G
  <2>1. HasField(W, Chunks, "calls") /\ HasField(W, Chunks, "rejected")
    BY ChunkFields
  <2> HIDE DEF W
  <2>2. A \in Seq(W) /\ FlattenSeq(FieldsOf(t, "calls")) = A \o F
    BY <1>1, <2>1, FieldMore
  <2>3. B \in Seq(W) /\ FlattenSeq(FieldsOf(t, "rejected")) = B \o G
    BY <1>1, <2>1, FieldMore
  <2> HIDE DEF A, B, F, G, t
  <2> QED BY <2>2, <2>3
<1>5. c.text \in Seq(Nat) /\ c.reasoning \in Seq(Nat) /\ C \in Seq(W)
  BY DEF Handlers
<1>6. F \in Seq(W) /\ G \in Seq(W)
  BY <1>1 DEF Chunks
<1> HIDE DEF a, b, A, B, C, F, G, W, x
<1>7. (a \o c.text) \o <<>> = a \o c.text /\ (b \o c.reasoning) \o <<>> = b \o c.reasoning
  BY <1>3, <1>5
<1>8. ((A \o F) \o (B \o G)) \o <<>> = (A \o F) \o (B \o G)
  BY <1>4, <1>6
<1> HIDE DEF t
<1>9. /\ Got(q, t, "text", d.text) = Got(q, s, "text", c.text)
      /\ Got(q, t, "reasoning", d.reasoning) = Got(q, s, "reasoning", c.reasoning)
  BY <1>0, <1>3, <1>7 DEF Got, a, b
<1>10. ASSUME NEW expected, SameCalls(GotCalls(q, s, c.calls), expected)
       PROVE  SameCalls(GotCalls(q, t, d.calls), expected)
  <2>1. SameCalls(A \o B \o C, expected)
    BY <1>10 DEF GotCalls, A, B, C
  <2>2. SameCalls((A \o F) \o (B \o G), expected)
    BY <1>1, <1>4, <1>5, <2>1, SameCallsSplit DEF W
  <2>3. GotCalls(q, t, d.calls) = (A \o F) \o (B \o G)
    BY <1>0, <1>4, <1>8 DEF GotCalls
  <2> QED BY <2>2, <2>3
<1> QED BY <1>2, <1>9, <1>10 DEF t, x, Sends

----------------------------------------
(* What the handler has read *)

Seeing(q, u, new, n, m) ==
  /\ q \in Requests /\ u \in Seq(q.vocab) /\ new = ReferenceOf(q, u)
  /\ NextOf(n, m) /\ m <= Len(u)

(* While the handler reads: the state it is in, and the tool call, if it is in one. *)
Holds(q, k, ref, n) ==
  /\ k.count = n /\ ~k.cut
  /\ k.prev = IF n = 0 THEN None ELSE ref[n].state
  /\ k.prev = "tool" => k.tool = CallOf(ref, n, ref[n].from)
  /\ k.prev \in {None, "normal", "reasoning"} => k.tool = <<>>
  /\ q.api = "chat" /\ q.stream => k.text = <<>> /\ k.reasoning = <<>> /\ k.calls = <<>>

(* The entries of the tokens that were read, and the one of the next. *)
LEMMA SeeingIs ==
  ASSUME NEW q, NEW u, NEW new, NEW n, NEW m, Seeing(q, u, new, n, m)
  PROVE  /\ new \in Seq(Entries) /\ Len(new) = Len(u)
         /\ \A i \in 1..m : new[i] \in Entries /\ new[i].from <= i
         /\ n \in Nat /\ m = n + 1
         /\ n = 0 => Follows(Start(q), new[m], m) /\ m = 1
         /\ n # 0 => Follows(new[n], new[m], m) /\ n \in 1..m
<1>1. RefersTo(q, u, Len(u), new)
  BY ReferenceIs DEF Seeing
<1>2. new \in Seq(Entries) /\ Len(new) = Len(u)
      /\ \A i \in 1..Len(u) : Follows(Before(q, new, i), new[i], i)
  BY <1>1 DEF RefersTo
<1>3. n \in Nat /\ m = n + 1 /\ m <= Len(u) /\ Len(u) \in Nat
  BY DEF Seeing, NextOf
<1>4. \A i \in 1..m : i \in 1..Len(u)
  BY <1>3
<1>5. \A i \in 1..m : new[i] \in Entries /\ new[i].from <= i
  BY <1>2, <1>4 DEF Follows
<1>6. m \in 1..m
  BY <1>3
<1>7. Follows(Before(q, new, m), new[m], m)
  BY <1>2, <1>4, <1>6
<1>8. (n = 0 => Before(q, new, m) = Start(q) /\ m = 1) /\ (n # 0 => Before(q, new, m) = new[n])
  BY <1>3 DEF Before
<1>9. n # 0 => n \in 1..m
  BY <1>3
<1> QED BY <1>2, <1>3, <1>5, <1>7, <1>8, <1>9

(* What the tokens said so far does not change with the next ones. *)
LEMMA AgreeSame ==
  ASSUME NEW q, NEW s, NEW k, NEW ref, NEW new, NEW n, AgreeUpto(ref, new, n)
  PROVE  /\ Told(q, s, k, ref, n) => Told(q, s, k, new, n)
         /\ Holds(q, k, ref, n) => Holds(q, k, new, n)
<1>1. /\ \A s1 : InState(new, s1, n) = InState(ref, s1, n)
      /\ \A f : CallOf(new, n, f) = CallOf(ref, n, f)
      /\ CallsIn(new, n) = CallsIn(ref, n)
  BY SaysTheSame
<1>2. n # 0 => new[n] = ref[n]
  BY DEF AgreeUpto
<1>3. Told(q, s, k, ref, n) => Told(q, s, k, new, n)
  BY <1>1 DEF Told
<1>4. ASSUME Holds(q, k, ref, n) PROVE Holds(q, k, new, n)
  <2>1. CASE n = 0
    <3>1. k.prev # "tool"
      BY <1>4, <2>1 DEF Holds, None
    <3> QED BY <1>4, <2>1, <3>1 DEF Holds
  <2>2. CASE n # 0
    BY <1>1, <1>2, <1>4, <2>2 DEF Holds
  <2> QED BY <2>1, <2>2
<1> QED BY <1>3, <1>4

ToolFollows(k, new, m) ==
  /\ k.prev = "tool" /\ new[m].state = "tool" =>
       CallOf(new, m, new[m].from) = k.tool \o (IF Visible(new, m) THEN << m >> ELSE <<>>)
  /\ k.prev # "tool" /\ new[m].state = "tool" =>
       CallOf(new, m, new[m].from) = IF Visible(new, m) THEN << m >> ELSE <<>>
  /\ k.prev = "tool" /\ new[m].state = "normal" =>
       k.tool = CallClosedAt(new, m) /\ m \in Closers(new, m)
  /\ m \in Closers(new, m) => k.prev = "tool" /\ new[m].state = "normal"
  /\ k.prev = "tool" => new[m].state # "reasoning"
  /\ k.prev # "tool" => k.tool = <<>> \/ k.prev = Stop
  /\ k.prev = Stop => new[m].state = Stop

(* The tool call, one token later. *)
LEMMA ToolNext ==
  ASSUME NEW q, NEW u, NEW new, NEW n, NEW m, Seeing(q, u, new, n, m),
         NEW k, Holds(q, k, new, n)
  PROVE  ToolFollows(k, new, m)
<1> DEFINE f == new[m].from
           more == IF Visible(new, m) THEN << m >> ELSE <<>>
<1>1. n \in Nat /\ m = n + 1
      /\ (n = 0 => Follows(Start(q), new[m], m)) /\ (n # 0 => Follows(new[n], new[m], m))
      /\ \A i \in 1..m : new[i] \in Entries /\ new[i].from <= i
  BY SeeingIs
<1>2. NextOf(n, m)
  BY DEF Seeing
<1>3. k.prev = "tool" => n # 0 /\ new[n].state = "tool" /\ k.tool = CallOf(new, n, new[n].from)
  BY DEF Holds, None
<1>4. new[m].state = "tool" => CallOf(new, m, f) = CallOf(new, n, f) \o more
  BY <1>2, CallOfNext
<1>5. CallOf(new, n, f) \in Seq(Nat)
  BY <1>2, CallOfNext
<1>6. CASE k.prev = "tool"
  <2>1. new[n].state = "tool" /\ n # 0 /\ k.tool = CallOf(new, n, new[n].from)
    BY <1>3, <1>6
  <2>2. new[m].length = 0 => new[m].state = "tool" /\ f = new[n].from
    BY <1>1, <2>1 DEF Follows
  <2>3. new[m].length # 0 => new[m].state \in {"normal", Stop}
    BY <1>1, <2>1 DEF Follows, Leads
  <2>4. new[m].state = "tool" => f = new[n].from
    BY <2>2, <2>3 DEF Stop
  <2>5. new[m].state # "reasoning"
    BY <2>2, <2>3 DEF Stop
  <2>6. m - 1 = n
    BY <1>1
  <2>7. new[m].state = "normal" => m \in Closers(new, m)
    BY <1>1, <2>1, <2>6 DEF Closers
  <2>8. new[m].state = "normal" => CallOf(new, m, new[n].from) = CallOf(new, n, new[n].from)
    <3> DEFINE g == new[n].from
    <3> DEFINE now == new[m].state = "tool" /\ Visible(new, m) /\ new[m].from = g
    <3>3. CallOf(new, m, g) = CallOf(new, n, g) \o (IF now THEN << m >> ELSE <<>>)
      BY <1>2, CallOfNext
    <3>4. new[m].state = "normal" => ~now
      OBVIOUS
    <3> HIDE DEF now
    <3>1. new[m].state = "normal" => CallOf(new, m, g) = CallOf(new, n, g) \o <<>>
      BY <3>3, <3>4
    <3>2. CallOf(new, n, g) \in Seq(Nat)
      BY <1>2, CallOfNext
    <3> HIDE DEF g
    <3> QED BY <3>1, <3>2 DEF g
  <2>9. new[m].state = "normal" => k.tool = CallClosedAt(new, m)
    BY <2>1, <2>6, <2>8 DEF CallClosedAt
  <2> HIDE DEF more
  <2>10. new[m].state = "tool" => CallOf(new, m, f) = k.tool \o more
    BY <1>4, <2>1, <2>4
  <2>11. m \in Closers(new, m) => new[m].state = "normal"
    BY DEF Closers
  <2>12. k.prev # Stop
    BY <1>6 DEF Stop
  <2> QED BY <1>6, <2>5, <2>7, <2>9, <2>10, <2>11, <2>12 DEF more, ToolFollows
<1>7. CASE k.prev # "tool"
  <2>1. k.tool = <<>> \/ k.prev = Stop
    <3>1. n # 0 => new[n].state \in Targets
      BY <1>1 DEF Entries
    <3>2. k.prev \in Targets \cup {None}
      BY <3>1 DEF Holds
    <3> QED BY <1>7, <3>2 DEF Holds, Targets, States
  <2>2. m \notin Closers(new, m)
    <3>1. m - 1 = n
      BY <1>1
    <3>2. n # 0 => new[n].state # "tool"
      BY <1>7 DEF Holds
    <3> QED BY <1>1, <3>1, <3>2 DEF Closers
  <2>3. ASSUME new[m].state = "tool" PROVE CallOf(new, m, f) = more
    <3>1. \A i \in 1..n : new[i].from # f
      <4>1. CASE n = 0
        BY <4>1
      <4>2. CASE n # 0
        <5>1. new[n].state # "tool"
          BY <1>7, <4>2 DEF Holds
        <5>2. new[m].length # 0 /\ f = m
          BY <1>1, <2>3, <4>2, <5>1 DEF Follows
        <5>3. \A i \in 1..n : new[i].from <= i /\ i < m /\ new[i].from \in Nat
          BY <1>1 DEF Entries
        <5> QED BY <1>1, <5>2, <5>3
      <4> QED BY <4>1, <4>2
    <3>2. CallOf(new, n, f) = <<>>
      BY <1>2, <3>1, CallOfNext
    <3>3. <<>> \o more = more
      OBVIOUS
    <3> QED BY <1>4, <2>3, <3>2, <3>3
  <2>4. ASSUME k.prev = Stop PROVE new[m].state = Stop
    <3>1. n # 0 /\ new[n].state = Stop
      BY <2>4 DEF Holds, Stop, None
    <3>2. Follows(new[n], new[m], m) /\ Stop \notin States
      BY <1>1, <3>1 DEF Stop, States
    <3> QED BY <3>1, <3>2 DEF Follows
  <2> HIDE DEF f, more
  <2> QED BY <1>7, <2>1, <2>2, <2>3, <2>4 DEF f, more, ToolFollows
<1> QED BY <1>6, <1>7

(* What a token adds to the text of a state. *)
Says(ref, s, m) == IF ref[m].state = s /\ Visible(ref, m) THEN << m >> ELSE <<>>

(* More of what a handler keeps. *)
LEMMA GotMore ==
  ASSUME NEW q, NEW s, Client(q, s)
  PROVE  /\ \A a \in Seq(Nat), b \in Seq(Nat), field \in {"text", "reasoning"} :
              Got(q, s, field, a \o b) = Got(q, s, field, a) \o b
         /\ \A a \in Seq(Seq(Nat)), x \in Seq(Nat) :
              GotCalls(q, s, Append(a, x)) = GotCalls(q, s, a) \o << x >>
<1> DEFINE W == Seq(Nat)
           said(field) == FlattenSeq(FieldsOf(s, field))
           d == said("calls") \o said("rejected")
<1>1. CASE q.api = "responses"
  <2>1. \A a \in Seq(W), x \in W : Append(a, x) = a \o << x >>
    OBVIOUS
  <2> QED BY <1>1, <2>1 DEF Got, GotCalls
<1>2. CASE q.api # "responses"
  <2>1. s \in Seq(Chunks)
    BY <1>2 DEF Client
  <2>2. said("text") \in Seq(Nat) /\ said("reasoning") \in Seq(Nat)
    BY <2>1, ChunkFields, SentMore
  <2>3. HasField(W, Chunks, "calls") /\ HasField(W, Chunks, "rejected")
    BY ChunkFields
  <2> HIDE DEF W
  <2>4. said("calls") \in Seq(W) /\ said("rejected") \in Seq(W)
    BY <2>1, <2>3, SentMore
  <2> HIDE DEF said
  <2>5. d \in Seq(W)
    BY <2>4
  <2> HIDE DEF d
  <2>6. ASSUME NEW a \in Seq(Nat), NEW b \in Seq(Nat), NEW field \in {"text", "reasoning"}
        PROVE  Got(q, s, field, a \o b) = Got(q, s, field, a) \o b
    <3> DEFINE p == said(field)
    <3>1. p \in Seq(Nat)
      BY <2>2
    <3> HIDE DEF p
    <3>2. p \o (a \o b) = (p \o a) \o b
      BY <3>1
    <3> QED BY <1>2, <3>2 DEF Got, p, said
  <2>7. ASSUME NEW a \in Seq(W), NEW x \in W
        PROVE  GotCalls(q, s, Append(a, x)) = GotCalls(q, s, a) \o << x >>
    <3>1. d \o Append(a, x) = (d \o a) \o << x >>
      BY <2>5
    <3> QED BY <1>2, <3>1 DEF GotCalls, d, said
  <2> QED BY <2>6, <2>7 DEF W
<1> QED BY <1>1, <1>2

(* A message is no position. *)
LEMMA MessageApart ==
  ASSUME NEW g \in Seq(Nat), NEW m \in Nat \ {0}
  PROVE  /\ WithoutMessage(g \o << m >>) = WithoutMessage(g) \o << m >>
         /\ WithoutMessage(g \o <<>>) = WithoutMessage(g) \o <<>>
<1> DEFINE S == Nat \ {Message}
<1>1. Among(Append(g, m), S) = IF m \in S THEN Append(Among(g, S), m) ELSE Among(g, S)
  <2> HIDE DEF S
  <2>1. \A i \in Nat : Among(Append(g, i), S)
                       = IF i \in S THEN Append(Among(g, S), i) ELSE Among(g, S)
    BY AmongNumbers
  <2> QED BY <2>1
<1>2. m \in S
  BY DEF Message
<1>3. Among(g, S) \in Seq(Nat)
  BY AmongNumbers
<1> DEFINE a == Among(g, S)
<1> HIDE DEF S
<1>4. Append(g, m) = g \o << m >> /\ g \o <<>> = g
  OBVIOUS
<1>5. Among(g \o << m >>, S) = Append(a, m) /\ Among(g \o <<>>, S) = a
  BY <1>1, <1>2, <1>4
<1> HIDE DEF a
<1>6. Append(a, m) = a \o << m >> /\ a \o <<>> = a
  BY <1>3 DEF a
<1> QED BY <1>5, <1>6 DEF WithoutMessage, a, S

(* A response that was collected tells of one more token. *)
LEMMA ToldNext ==
  ASSUME NEW u, NEW new, NEW n, NEW m, Seeing(request, u, new, n, m),
         h \in Handlers(request.vocab), Holds(request, h, new, n),
         Client(request, sent), Told(request, sent, h, new, n),
         NEW r, r = Response(request, u, new, m), NEW c, c = Collected(r)
  PROVE  /\ Told(request, sent, c, new, m) /\ c \in Handlers(request.vocab) /\ c.count = m
         /\ r \in Reads(request.vocab) /\ r.state = new[m].state
         /\ \A s : By(r, s) = Says(new, s, m)
<1>0. /\ h.prev = "tool" /\ new[m].state = "normal" =>
            h.tool = CallClosedAt(new, m) /\ m \in Closers(new, m)
      /\ m \in Closers(new, m) => h.prev = "tool" /\ new[m].state = "normal"
  <2>1. ToolFollows(h, new, m)
    BY ToolNext
  <2> QED BY <2>1 DEF ToolFollows
<1>1. n \in Nat /\ m = n + 1 /\ NextOf(n, m) /\ m \in 1..Len(u)
      /\ request \in Requests /\ u \in Seq(request.vocab) /\ new = ReferenceOf(request, u)
  BY DEF Seeing, NextOf
<1>2. r \in Reads(request.vocab)
  BY <1>1, ResponseIs
<1>3. r.state = new[m].state /\ r.text = IF Visible(new, m) THEN << m >> ELSE <<>>
  BY DEF Response
<1>4. \A s : By(r, s) = Says(new, s, m)
  BY <1>3 DEF By, Says
<1>5. /\ c \in Handlers(request.vocab) /\ c.count = h.count + 1
      /\ c.reasoning = h.reasoning \o By(r, "reasoning") /\ c.text = h.text \o By(r, "normal")
      /\ c.calls = IF Closes(r) THEN Append(h.calls, h.tool) ELSE h.calls
  <2> DEFINE V == request.vocab
  <2>1. h \in Handlers(V) /\ r \in Reads(V)
    BY <1>2
  <2> HIDE DEF V
  <2>2. /\ c \in Handlers(V) /\ c.count = h.count + 1
        /\ c.reasoning = h.reasoning \o By(r, "reasoning") /\ c.text = h.text \o By(r, "normal")
        /\ c.calls = IF Closes(r) THEN Append(h.calls, h.tool) ELSE h.calls
    BY <2>1, CollectedIs
  <2> QED BY <2>2 DEF V
<1>6. c.count = m
  BY <1>1, <1>5 DEF Holds
<1>7. h.text \in Seq(Nat) /\ h.reasoning \in Seq(Nat) /\ h.calls \in Seq(Seq(Nat))
      /\ h.tool \in Seq(Nat)
  BY DEF Handlers
<1>8. \A s : Says(new, s, m) \in Seq(Nat) /\ Says(new, s, m) \in {<<>>, << m >>}
  BY <1>1 DEF Says
<1>9. \A s : InState(new, s, m) = InState(new, s, n) \o Says(new, s, m)
  BY <1>1, InStateNext DEF Says
<1>10. WithoutMessage(Got(request, sent, "text", c.text)) = InState(new, "normal", m)
  <2> DEFINE g == Got(request, sent, "text", h.text)
             y == Says(new, "normal", m)
             z == InState(new, "normal", n)
  <2>1. g \in Seq(Nat)
    BY GotTypes
  <2>2. y \in Seq(Nat) /\ (y = <<>> \/ y = << m >>)
    BY <1>8
  <2>3. c.text = h.text \o y
    BY <1>4, <1>5
  <2> HIDE DEF y
  <2>4. Got(request, sent, "text", c.text) = g \o y
    <3> DEFINE a == h.text
    <3>1. \A v \in Seq(Nat), b \in Seq(Nat) :
             Got(request, sent, "text", v \o b) = Got(request, sent, "text", v) \o b
      BY GotMore
    <3>2. a \in Seq(Nat)
      BY <1>7
    <3> HIDE DEF a
    <3>3. Got(request, sent, "text", a \o y) = Got(request, sent, "text", a) \o y
      BY <2>2, <3>1, <3>2
    <3> QED BY <2>3, <3>3 DEF a
  <2>5. WithoutMessage(g) = z
    BY DEF Told
  <2> HIDE DEF g, z
  <2>6. WithoutMessage(g \o y) = WithoutMessage(g) \o y
    <3>1. m \in Nat \ {0}
      BY <1>1
    <3>2. /\ WithoutMessage(g \o << m >>) = WithoutMessage(g) \o << m >>
          /\ WithoutMessage(g \o <<>>) = WithoutMessage(g) \o <<>>
      BY <2>1, <3>1, MessageApart
    <3> QED BY <2>2, <3>2
  <2> QED BY <1>9, <2>4, <2>5, <2>6 DEF y, z
<1>11. Got(request, sent, "reasoning", c.reasoning) = InState(new, "reasoning", m)
  <2> DEFINE g == Got(request, sent, "reasoning", h.reasoning)
             y == Says(new, "reasoning", m)
             z == InState(new, "reasoning", n)
  <2>2. y \in Seq(Nat)
    BY <1>8
  <2>3. c.reasoning = h.reasoning \o y
    BY <1>4, <1>5
  <2> HIDE DEF y
  <2>4. Got(request, sent, "reasoning", c.reasoning) = g \o y
    <3> DEFINE a == h.reasoning
    <3>1. \A v \in Seq(Nat), b \in Seq(Nat) :
             Got(request, sent, "reasoning", v \o b) = Got(request, sent, "reasoning", v) \o b
      BY GotMore
    <3>2. a \in Seq(Nat)
      BY <1>7
    <3> HIDE DEF a
    <3>3. Got(request, sent, "reasoning", a \o y) = Got(request, sent, "reasoning", a) \o y
      BY <2>2, <3>1, <3>2
    <3> QED BY <2>3, <3>3 DEF a
  <2>5. g = z
    BY DEF Told
  <2> HIDE DEF g, z
  <2> QED BY <1>9, <2>4, <2>5 DEF y, z
<1>12. SameCalls(GotCalls(request, sent, c.calls), CallsIn(new, m))
  <2> DEFINE g == GotCalls(request, sent, h.calls)
             y == CallsIn(new, n)
             W == Seq(Nat)
             x == h.tool
             closes == m \in Closers(new, m)
  <2>1. SameCalls(g, y)
    BY DEF Told
  <2>2. g \in Seq(W)
    BY GotTypes
  <2>3. /\ CallsIn(new, m) = y \o (IF closes THEN << CallClosedAt(new, m) >> ELSE <<>>)
        /\ y \in Seq(W)
    BY <1>1, CallsInNext
  <2>4. /\ closes => h.prev = "tool" /\ r.state = "normal"
        /\ h.prev = "tool" /\ r.state = "normal" => closes /\ x = CallClosedAt(new, m)
    <3>1. /\ h.prev = "tool" /\ new[m].state = "normal" =>
                h.tool = CallClosedAt(new, m) /\ m \in Closers(new, m)
          /\ m \in Closers(new, m) => h.prev = "tool" /\ new[m].state = "normal"
      BY <1>0
    <3> QED BY <1>3, <3>1
  <2>5. Closes(r) <=> closes
    BY <2>4 DEF Closes
  <2>6. CASE closes
    <3>1. GotCalls(request, sent, c.calls) = g \o << x >>
      <4>1. c.calls = Append(h.calls, x)
        BY <1>5, <2>5, <2>6
      <4>2. \A a \in Seq(W), v \in W :
               GotCalls(request, sent, Append(a, v)) = GotCalls(request, sent, a) \o << v >>
        BY GotMore
      <4> DEFINE a == h.calls
      <4>3. a \in Seq(W) /\ x \in W
        BY <1>7
      <4> HIDE DEF a, x
      <4>4. GotCalls(request, sent, Append(a, x)) = GotCalls(request, sent, a) \o << x >>
        BY <4>2, <4>3
      <4> QED BY <4>1, <4>4 DEF a
    <3>2. CallsIn(new, m) = y \o << x >>
      BY <2>3, <2>4, <2>6
    <3>3. x \in W
      BY <1>7
    <3> HIDE DEF g, y, x
    <3>4. SameCalls(g \o << x >>, y \o << x >>)
      BY <2>1, <2>2, <2>3, <3>3, SameCallsMore
    <3> QED BY <3>1, <3>2, <3>4
  <2>7. CASE ~closes
    <3>1. GotCalls(request, sent, c.calls) = g
      BY <1>5, <2>5, <2>7
    <3>2. CallsIn(new, m) = y \o <<>>
      BY <2>3, <2>7
    <3> HIDE DEF g, y
    <3>3. y \o <<>> = y
      BY <2>3
    <3> QED BY <2>1, <3>1, <3>2, <3>3
  <2> QED BY <2>6, <2>7
<1> QED BY <1>2, <1>3, <1>4, <1>5, <1>6, <1>10, <1>11, <1>12 DEF Told

----------------------------------------
(* Reading on, and stopping *)

(* The call that is still open when the handler stops reading. *)
Closing(k) == IF k.prev = "tool" /\ k.tool # <<>> /\ ~k.cut THEN << k.tool >> ELSE <<>>

StillOpen(k, ref, n) == IF ~k.cut THEN OpenCall(ref, n) ELSE <<>>

(* To the Responses API it makes no difference what was sent. *)
LEMMA ToldOther ==
  ASSUME NEW q, NEW s, NEW t, Client(q, s), q.api = "chat" => t = s,
         NEW k, NEW ref, NEW n, Told(q, s, k, ref, n)
  PROVE  Client(q, t) /\ Told(q, t, k, ref, n)
<1>1. CASE q.api = "chat"
  BY <1>1
<1>2. CASE q.api = "responses"
  BY <1>2 DEF Client, Told, Got, GotCalls
<1> QED BY <1>1, <1>2 DEF Client

(* What the response of the next token does to the tool call. *)
LEMMA CollectedTool ==
  ASSUME NEW u, NEW new, NEW n, NEW m, Seeing(request, u, new, n, m),
         h \in Handlers(request.vocab), Holds(request, h, new, n),
         NEW r, r = Response(request, u, new, m), NEW c, c = Collected(r)
  PROVE  /\ c.prev = h.prev /\ ~c.cut
         /\ new[m].state = "tool" => c.tool = CallOf(new, m, new[m].from)
         /\ new[m].state \in {"normal", "reasoning"} => c.tool = <<>>
         /\ new[m].state = "tool" /\ request.api = "chat" /\ request.stream =>
              c.text = <<>> /\ c.reasoning = <<>> /\ c.calls = <<>>
         /\ new[m].state = Stop /\ request.api = "chat" /\ request.stream =>
              c.text = <<>> /\ c.reasoning = <<>> /\ c.calls = <<>>
         /\ h.prev = "tool" => new[m].state # "reasoning"
<1>1. n \in Nat /\ m = n + 1 /\ NextOf(n, m) /\ m \in 1..Len(u)
      /\ request \in Requests /\ u \in Seq(request.vocab) /\ new = ReferenceOf(request, u)
  BY DEF Seeing, NextOf
<1>2. r \in Reads(request.vocab)
  BY <1>1, ResponseIs
<1>3. r.state = new[m].state /\ r.text = IF Visible(new, m) THEN << m >> ELSE <<>>
  BY DEF Response
<1>4. /\ c \in Handlers(request.vocab) /\ c.prev = h.prev /\ c.cut = h.cut
      /\ c.reasoning = h.reasoning \o By(r, "reasoning") /\ c.text = h.text \o By(r, "normal")
      /\ c.calls = IF Closes(r) THEN Append(h.calls, h.tool) ELSE h.calls
      /\ c.tool = IF Closes(r) THEN <<>> ELSE h.tool \o By(r, "tool")
  <2> DEFINE V == request.vocab
  <2>1. h \in Handlers(V) /\ r \in Reads(V)
    BY <1>2
  <2> HIDE DEF V
  <2>2. /\ c \in Handlers(V) /\ c.prev = h.prev /\ c.cut = h.cut
        /\ c.reasoning = h.reasoning \o By(r, "reasoning") /\ c.text = h.text \o By(r, "normal")
        /\ c.calls = IF Closes(r) THEN Append(h.calls, h.tool) ELSE h.calls
        /\ c.tool = IF Closes(r) THEN <<>> ELSE h.tool \o By(r, "tool")
    BY <2>1, CollectedIs
  <2> QED BY <2>2 DEF V
<1>5. ToolFollows(h, new, m)
  BY ToolNext
<1>6. h.tool \in Seq(Nat) /\ ~h.cut
      /\ (request.api = "chat" /\ request.stream =>
            h.text = <<>> /\ h.reasoning = <<>> /\ h.calls = <<>>)
  BY DEF Handlers, Holds
<1>7. <<>> \o <<>> = <<>> /\ h.tool \o <<>> = h.tool
  BY <1>6
<1>8. ASSUME new[m].state = "tool" PROVE c.tool = CallOf(new, m, new[m].from)
  <2> DEFINE more == IF Visible(new, m) THEN << m >> ELSE <<>>
  <2>1. ~Closes(r) /\ By(r, "tool") = more
    BY <1>3, <1>8 DEF Closes, By
  <2>2. c.tool = h.tool \o more
    BY <1>4, <2>1
  <2>3. h.prev # "tool" => h.tool = <<>> /\ CallOf(new, m, new[m].from) = more
    BY <1>5, <1>8 DEF ToolFollows, Stop
  <2>4. h.prev = "tool" => CallOf(new, m, new[m].from) = h.tool \o more
    BY <1>5, <1>8 DEF ToolFollows
  <2>5. <<>> \o more = more
    OBVIOUS
  <2> HIDE DEF more
  <2> QED BY <2>2, <2>3, <2>4, <2>5
<1>9. ASSUME new[m].state \in {"normal", "reasoning"} PROVE c.tool = <<>>
  <2>1. By(r, "tool") = <<>> /\ h.prev # Stop
    BY <1>3, <1>5, <1>9 DEF By, ToolFollows, Stop
  <2>2. CASE Closes(r)
    BY <1>4, <2>2
  <2>3. CASE ~Closes(r)
    <3>1. h.prev # "tool"
      BY <1>3, <1>5, <1>9, <2>3 DEF Closes, ToolFollows
    <3>2. h.tool = <<>>
      BY <1>5, <2>1, <3>1 DEF ToolFollows
    <3> QED BY <1>4, <1>7, <2>1, <2>3, <3>2
  <2> QED BY <2>2, <2>3
<1>10. ASSUME new[m].state \in {"tool", Stop}, request.api = "chat" /\ request.stream
       PROVE  c.text = <<>> /\ c.reasoning = <<>> /\ c.calls = <<>>
  <2>1. ~Closes(r) /\ By(r, "normal") = <<>> /\ By(r, "reasoning") = <<>>
    BY <1>3, <1>10 DEF Closes, By, Stop
  <2>2. c.text = <<>> \o <<>> /\ c.reasoning = <<>> \o <<>> /\ c.calls = <<>>
    BY <1>4, <1>6, <1>10, <2>1
  <2> QED BY <1>7, <2>2
<1>11. h.prev = "tool" => new[m].state # "reasoning"
  BY <1>5 DEF ToolFollows
<1> QED BY <1>4, <1>6, <1>8, <1>9, <1>10, <1>11

(* The handler goes on with the next response. *)
LEMMA ReadOn ==
  ASSUME NEW u, NEW new, NEW n, NEW m, Seeing(request, u, new, n, m),
         h \in Handlers(request.vocab), h' \in Handlers(request.vocab),
         Holds(request, h, new, n), Client(request, sent), Told(request, sent, h, new, n),
         NEW r, r = Response(request, u, new, m), NEW c, c = Collected(r), GoesOn(c, r)
  PROVE  /\ Client(request, sent') /\ Told(request, sent', h', new, m)
         /\ Holds(request, h', new, m)
<1>1. Told(request, sent, c, new, m) /\ c \in Handlers(request.vocab) /\ c.count = m
      /\ r.state = new[m].state
  BY ToldNext
<1>2. /\ c.prev = h.prev /\ ~c.cut
      /\ new[m].state = "tool" => c.tool = CallOf(new, m, new[m].from)
      /\ new[m].state \in {"normal", "reasoning"} => c.tool = <<>>
      /\ new[m].state = "tool" /\ request.api = "chat" /\ request.stream =>
           c.text = <<>> /\ c.reasoning = <<>> /\ c.calls = <<>>
  BY CollectedTool
<1>3. m # 0
  BY DEF Seeing, NextOf
<1>4. Like(c, h') /\ h'.prev = r.state /\ h'.cut = c.cut
  BY DEF GoesOn
<1>5. Client(request, sent') /\ Told(request, sent', h', new, m)
  <2>1. CASE Same(c, h') /\ (request.api = "chat" => sent' = sent)
    <3>1. Told(request, sent, h', new, m)
      BY <1>1, <2>1, ToldSame
    <3> QED BY <2>1, <3>1, ToldOther
  <2>2. CASE /\ request.api = "chat" /\ h'.text = <<>> /\ h'.reasoning = <<>> /\ h'.calls = <<>>
             /\ \E parsed \in SUBSET Range(c.calls) : sent' = Append(sent, Chunk(c, parsed, None))
    <3>1. PICK parsed : sent' = Append(sent, Chunk(c, parsed, None))
      BY <2>2
    <3> DEFINE d == h'
    <3>2. None \in {None, Stop, "length", "tool_calls"} /\ Empty(d) /\ c \in Handlers(request.vocab)
      BY <1>1, <2>2 DEF Empty
    <3> HIDE DEF d
    <3>3. Sends(request, sent, c, Append(sent, Chunk(c, parsed, None)), d)
      BY <2>2, <3>2, ToldSent
    <3>4. Sends(request, sent, c, sent', h')
      BY <3>1, <3>3 DEF d
    <3> QED BY <1>1, <3>4 DEF Told, Sends
  <2> QED BY <2>1, <2>2 DEF GoesOn
<1>6. h'.count = m /\ ~h'.cut /\ h'.prev = new[m].state /\ h'.tool = c.tool
  BY <1>1, <1>2, <1>4 DEF Like
<1>7. request.api = "chat" /\ request.stream => h'.text = <<>> /\ h'.reasoning = <<>> /\ h'.calls = <<>>
  BY <1>1, <1>2 DEF GoesOn, Same
<1>8. h'.prev \in {None, "normal", "reasoning"} => h'.tool = <<>>
  <2>1. new \in Seq(Entries) /\ \A i \in 1..m : new[i] \in Entries
    BY SeeingIs
  <2>2. new[m].state \in Targets
    BY <2>1 DEF Entries, Seeing, NextOf
  <2> QED BY <1>2, <1>6, <2>2 DEF Targets, States, None, Stop
<1>9. h'.prev = "tool" => h'.tool = CallOf(new, m, new[m].from)
  BY <1>2, <1>6
<1> QED BY <1>3, <1>5, <1>6, <1>7, <1>8, <1>9 DEF Holds

(* The handler stops reading. *)
LEMMA ReadLast ==
  ASSUME NEW u, NEW new, NEW n, NEW m, Seeing(request, u, new, n, m),
         h \in Handlers(request.vocab), h' \in Handlers(request.vocab),
         Holds(request, h, new, n), Client(request, sent), Told(request, sent, h, new, n),
         NEW r, r = Response(request, u, new, m), NEW c, c = Collected(r), Breaks(c, r)
  PROVE  /\ Client(request, sent') /\ Told(request, sent', h', new, m)
         /\ Closing(h') = StillOpen(h', new, m)
<1>1. Told(request, sent, c, new, m) /\ c \in Handlers(request.vocab) /\ c.count = m
      /\ r.state = new[m].state
  BY ToldNext
<1>2. /\ c.prev = h.prev /\ ~c.cut
      /\ new[m].state \in {"normal", "reasoning"} => c.tool = <<>>
      /\ new[m].state = Stop /\ request.api = "chat" /\ request.stream =>
           c.text = <<>> /\ c.reasoning = <<>> /\ c.calls = <<>>
  BY CollectedTool
<1>3. Told(request, sent, h', new, m)
  <2>1. CASE Same(c, h')
    BY <1>1, <2>1, ToldSame
  <2>2. CASE h'.text = Append(c.text, Message) /\ h'.reasoning = c.reasoning /\ h'.calls = c.calls
    BY <1>1, <2>2, ToldMarked
  <2> QED BY <2>1, <2>2 DEF Breaks
<1>4. Client(request, sent') /\ Told(request, sent', h', new, m)
  <2>1. request.api = "chat" => sent' = sent
    BY DEF Breaks
  <2> QED BY <1>3, <2>1, ToldOther
<1>5. h'.tool = c.tool /\ h'.cut = (c.cut \/ r.state = "tool") /\ r.state # Stop
  BY <1>1, <1>2 DEF Breaks, Like
<1>6. new[m].state \in Targets
  <2>1. \A i \in 1..m : new[i] \in Entries
    BY SeeingIs
  <2> QED BY <2>1 DEF Entries, Seeing, NextOf
<1>7. CASE new[m].state = "tool"
  <2>1. h'.cut
    BY <1>1, <1>5, <1>7
  <2> QED BY <1>4, <2>1 DEF Closing, StillOpen
<1>8. CASE new[m].state \in {"normal", "reasoning"}
  <2>1. h'.tool = <<>>
    BY <1>2, <1>5, <1>8
  <2>2. OpenCall(new, m) = <<>>
    BY <1>8 DEF OpenCall
  <2> QED BY <1>4, <2>1, <2>2 DEF Closing, StillOpen
<1> QED BY <1>1, <1>5, <1>6, <1>7, <1>8 DEF Targets, States

----------------------------------------
(* The end of the response *)

ToldWith(q, s, k, ref, n, more) ==
  /\ WithoutMessage(Got(q, s, "text", k.text)) = InState(ref, "normal", n)
  /\ Got(q, s, "reasoning", k.reasoning) = InState(ref, "reasoning", n)
  /\ SameCalls(GotCalls(q, s, k.calls), CallsIn(ref, n) \o more)

(* What is left with the handler at the end: with a chunk, nothing. *)
Left(q, k, there) == IF q.api = "chat" /\ there THEN Emptied(k) ELSE k

(* The open call is one of the calls, then. *)
LEMMA ToldClosed ==
  ASSUME NEW q, NEW s, Client(q, s), NEW V, NEW k \in Handlers(V), NEW ref, NEW n, NEW more,
         Told(q, s, k, ref, n), CallsIn(ref, n) \in Seq(Seq(Nat)), Closing(k) = more,
         NEW c, c = Closed(k)
  PROVE  ToldWith(q, s, c, ref, n, more)
<1> DEFINE W == Seq(Nat)
           g == GotCalls(q, s, k.calls)
           y == CallsIn(ref, n)
           x == k.tool
<1>1. c.text = k.text /\ c.reasoning = k.reasoning
      /\ c.calls = IF k.prev = "tool" /\ k.tool # <<>> /\ ~k.cut THEN Append(k.calls, k.tool)
                   ELSE k.calls
  BY ClosedIs
<1>2. k.calls \in Seq(W) /\ x \in W /\ g \in Seq(W) /\ y \in Seq(W)
  BY GotTypes DEF Handlers
<1>3. SameCalls(g, y)
  BY DEF Told
<1>4. SameCalls(GotCalls(q, s, c.calls), y \o more)
  <2>1. CASE k.prev = "tool" /\ k.tool # <<>> /\ ~k.cut
    <3>1. c.calls = Append(k.calls, x) /\ more = << x >>
      BY <1>1, <2>1 DEF Closing
    <3>2. \A a \in Seq(W), v \in W : GotCalls(q, s, Append(a, v)) = GotCalls(q, s, a) \o << v >>
      BY GotMore
    <3> DEFINE a == k.calls
    <3>3. a \in Seq(W)
      BY <1>2
    <3> HIDE DEF a, x
    <3>4. GotCalls(q, s, Append(a, x)) = GotCalls(q, s, a) \o << x >>
      BY <1>2, <3>2, <3>3
    <3>5. GotCalls(q, s, c.calls) = g \o << x >>
      BY <3>1, <3>4 DEF a
    <3> HIDE DEF g, y
    <3>6. SameCalls(g \o << x >>, y \o << x >>)
      BY <1>2, <1>3, SameCallsMore
    <3> QED BY <3>1, <3>5, <3>6
  <2>2. CASE ~(k.prev = "tool" /\ k.tool # <<>> /\ ~k.cut)
    <3>1. c.calls = k.calls /\ more = <<>>
      BY <1>1, <2>2 DEF Closing
    <3>2. GotCalls(q, s, c.calls) = g
      BY <3>1
    <3> HIDE DEF g, y
    <3>3. y \o <<>> = y
      BY <1>2
    <3> QED BY <1>3, <3>1, <3>2, <3>3
  <2> QED BY <2>1, <2>2
<1> QED BY <1>1, <1>4 DEF Told, ToldWith

(* The last chunk. *)
LEMMA ToldFinished ==
  ASSUME NEW V, h \in Handlers(V), NEW ref, NEW n,
         Client(request, sent), Told(request, sent, h, ref, n), CallsIn(ref, n) \in Seq(Seq(Nat)),
         Closing(h) = StillOpen(h, ref, n),
         IF request.api = "chat" THEN ChatFinish ELSE ResponsesFinish
  PROVE  /\ Client(request, sent') /\ h'.cut = h.cut /\ h'.count = h.count /\ phase' = "done"
         /\ ToldWith(request, sent', Left(request, h', connected'), ref, n, StillOpen(h', ref, n))
<1> DEFINE c == Closed(h)
           more == StillOpen(h, ref, n)
<1>1. c \in Handlers(V) /\ c.cut = h.cut /\ c.count = h.count
  BY ClosedIs
<1>2. ToldWith(request, sent, c, ref, n, more)
  <2> DEFINE k == h
             s == sent
  <2>1. k \in Handlers(V) /\ Client(request, s) /\ Told(request, s, k, ref, n) /\ Closing(k) = more
    OBVIOUS
  <2> HIDE DEF k, s, more
  <2>2. ToldWith(request, s, Closed(k), ref, n, more)
    BY <2>1, ToldClosed
  <2> QED BY <2>2 DEF k, s
<1>3. h' = c /\ phase' = "done"
  BY DEF ChatFinish, ResponsesFinish
<1>4. StillOpen(h', ref, n) = more
  BY <1>1, <1>3 DEF StillOpen
<1> HIDE DEF c, more
<1>5. CASE request.api = "chat"
  <2>1. /\ connected' \in BOOLEAN
        /\ \/ /\ connected' = TRUE
              /\ \E parsed \in SUBSET Range(c.calls) :
                   sent' = Append(sent, Chunk(c, parsed, FinishReason(c)))
           \/ connected' = FALSE /\ sent' = sent
    BY <1>5 DEF ChatFinish, c
  <2>2. CASE connected' = FALSE /\ sent' = sent
    <3>1. Left(request, h', connected') = c
      BY <1>3, <2>2 DEF Left
    <3> QED BY <1>1, <1>2, <1>3, <1>4, <2>2, <3>1
  <2>3. CASE connected' = TRUE /\ \E parsed \in SUBSET Range(c.calls) :
                                     sent' = Append(sent, Chunk(c, parsed, FinishReason(c)))
    <3>1. PICK parsed : sent' = Append(sent, Chunk(c, parsed, FinishReason(c)))
      BY <2>3
    <3> DEFINE f == FinishReason(c)
               d == Emptied(c)
    <3>2. f \in {None, Stop, "length", "tool_calls"}
      BY <1>1 DEF FinishReason, Handlers
    <3>3. Empty(d)
      BY <1>1, NamedChanges DEF Empty
    <3> HIDE DEF f, d
    <3>4. Sends(request, sent, c, Append(sent, Chunk(c, parsed, f)), d)
      BY <1>1, <1>5, <3>2, <3>3, ToldSent
    <3>5. Sends(request, sent, c, sent', d)
      BY <3>1, <3>4 DEF f
    <3>6. Left(request, h', connected') = d
      BY <1>3, <1>5, <2>3 DEF Left, d
    <3>7. Client(request, sent') /\ ToldWith(request, sent', d, ref, n, more)
      BY <1>2, <3>5 DEF Sends, ToldWith
    <3> QED BY <1>1, <1>3, <1>4, <3>6, <3>7
  <2> QED BY <2>1, <2>2, <2>3
<1>6. CASE request.api # "chat"
  <2>1. request.api = "responses" /\ Client(request, sent')
    BY <1>6 DEF Client
  <2>2. Left(request, h', connected') = c
    BY <1>3, <1>6 DEF Left
  <2>3. ToldWith(request, sent', c, ref, n, more)
    BY <1>2, <2>1 DEF ToldWith, Got, GotCalls
  <2> QED BY <1>1, <1>3, <1>4, <2>1, <2>2, <2>3
<1> QED BY <1>5, <1>6

(* The stream is at its end when the handler stops reading. *)
LEMMA ClosingAtEnd ==
  ASSUME NEW q, NEW k, NEW ref, NEW n, Holds(q, k, ref, n), n > 0
  PROVE  Closing(k) = StillOpen(k, ref, n)
<1>1. ~k.cut /\ k.prev = ref[n].state /\ (k.prev = "tool" => k.tool = CallOf(ref, n, ref[n].from))
  BY DEF Holds
<1> QED BY <1>1 DEF Closing, StillOpen, OpenCall

(* Before anything is generated there is nothing to tell. *)
LEMMA ToldNothing ==
  ASSUME NEW q \in Requests, NEW s, q.api = "chat" => s = <<>>, NEW ref
  PROVE  /\ Client(q, s) /\ Told(q, s, NewHandler, ref, 0)
         /\ Holds(q, NewHandler, ref, 0)
<1> DEFINE k == NewHandler
<1>1. q.api \in {"chat", "responses"}
  BY RequestsAssumption
<1>2. Client(q, s)
  <2> DEFINE C == Chunks
  <2> HIDE DEF C
  <2>1. <<>> \in Seq(C)
    OBVIOUS
  <2>2. q.api = "chat" => s \in Seq(C)
    BY <2>1
  <2> QED BY <1>1, <2>2 DEF Client, C
<1>3. /\ k.text = <<>> /\ k.reasoning = <<>> /\ k.calls = <<>> /\ k.tool = <<>> /\ k.prev = None
      /\ k.count = 0 /\ k.cut = FALSE
  BY DEF NewHandler
<1>4. Holds(q, k, ref, 0)
  BY <1>3 DEF Holds, None
<1> DEFINE e == <<>>
<1>5. \A field : FieldsOf(e, field) = e
  BY DEF FieldsOf
<1>6. FlattenSeq(e) = e
  BY FlattenProperties
<1>7. e \o e = e
  OBVIOUS
<1>8. Among(e, Nat \ {Message}) = e /\ Among(e, Seq(Nat) \ {<<>>}) = e
  BY AmongNone
<1>9. NextOf(0, 1)
  BY DEF NextOf
<1>10. \A x : InState(ref, x, 0) = e
  BY <1>9, InStateNext
<1>11. CallsIn(ref, 0) = e
  BY <1>9, CallsInNext
<1> DEFINE w == k.text
           y == k.reasoning
           z == k.calls
<1>12. w = e /\ y = e /\ z = e /\ (q.api = "chat" => s = e)
  BY <1>3
<1> HIDE DEF e, w, y, z
<1>13. Got(q, s, "text", w) = e /\ Got(q, s, "reasoning", y) = e
       /\ GotCalls(q, s, z) = e
  BY <1>1, <1>5, <1>6, <1>7, <1>12 DEF Got, GotCalls
<1>14. WithoutMessage(e) = e /\ SameCalls(e, e)
  BY <1>8 DEF WithoutMessage, SameCalls
<1> QED BY <1>2, <1>4, <1>10, <1>11, <1>13, <1>14 DEF Told, w, y, z

----------------------------------------
(* Everything is delivered *)

Delivery ==
  /\ Core
  /\ Client(request, sent)
  /\ phase = "loop" =>
       /\ Told(request, sent, h, Reference, h.count)
       /\ Holds(request, h, Reference, h.count)
  /\ phase = "final" =>
       /\ Told(request, sent, h, Reference, h.count)
       /\ Closing(h) = StillOpen(h, Reference, h.count)
  /\ phase = "done" /\ h.count > 0 =>
       ToldWith(request, sent, Left(request, h, connected), Reference, h.count,
                StillOpen(h, Reference, h.count))
  /\ phase = "done" /\ h.count = 0 => Told(request, sent, h, Reference, 0)

(* It holds in the beginning. *)
LEMMA DeliveryInit ==
  ASSUME Init
  PROVE  Delivery
<1>1. Core
  BY CoreInit
<1>2. request \in Requests /\ sent = <<>> /\ h = NewHandler /\ tokens = <<>> /\ phase = "open"
  BY DEF Init
<1>3. Client(request, sent)
  BY <1>2, ToldNothing
<1> QED BY <1>1, <1>2, <1>3 DEF Delivery

(* The handler takes a response. *)
LEMMA DeliveryReading ==
  ASSUME Delivery, Core', request' = request, Reading(tokens', Reference')
  PROVE  Delivery'
<1> DEFINE u == tokens'
           new == ReferenceOf(request, u)
           n == h.count
           m == n + 1
<1>1. Reference' = new
  BY DEF Reference
<1>2. /\ phase = "loop" /\ n < Len(u) /\ Extends(tokens, Reference, u, new, n)
      /\ \E r, c : /\ r = Response(request, u, new, m) /\ c = Collected(r)
                   /\ GoesOn(c, r) \/ Breaks(c, r)
  BY <1>1 DEF Reading
<1>3. /\ request \in Requests /\ u \in Seq(request.vocab)
      /\ h \in Handlers(request.vocab) /\ h' \in Handlers(request.vocab) /\ n \in Nat
      /\ n <= Len(tokens)
  BY DEF Delivery, Core, MachineIs, Handlers
<1>4. Seeing(request, u, new, n, m)
  BY <1>2, <1>3 DEF Seeing, NextOf
<1>5. AgreeUpto(Reference, new, n)
  <2>1. tokens \in Seq(request.vocab)
    BY DEF Delivery, Core, MachineIs
  <2>2. Len(tokens) \in Nat
    BY <2>1
  <2>3. \A i \in 1..n : i \in 1..Len(tokens)
    BY <1>3, <2>2
  <2> QED BY <1>2, <1>3, <2>3 DEF AgreeUpto, Extends
<1>6. Client(request, sent) /\ Told(request, sent, h, new, n) /\ Holds(request, h, new, n)
  <2> DEFINE k == h
             s == sent
             ref == Reference
  <2>1. Client(request, s) /\ Told(request, s, k, ref, n) /\ Holds(request, k, ref, n)
    BY <1>2 DEF Delivery
  <2> HIDE DEF k, s, ref, new, n
  <2>2. Told(request, s, k, new, n) /\ Holds(request, k, new, n)
    BY <1>5, <2>1, AgreeSame DEF ref
  <2> QED BY <2>1, <2>2 DEF k, s
<1> HIDE DEF u, new, n, m
<1>7. PICK r, c : /\ r = Response(request, u, new, m) /\ c = Collected(r)
                  /\ GoesOn(c, r) \/ Breaks(c, r)
  BY <1>2
<1>8. c.count = m
  BY <1>3, <1>4, <1>6, <1>7, ToldNext
<1>9. h'.count = m
  BY <1>7, <1>8 DEF GoesOn, Breaks, Like
<1>10. CASE GoesOn(c, r)
  <2>1. Client(request, sent') /\ Told(request, sent', h', new, m) /\ Holds(request, h', new, m)
    BY <1>3, <1>4, <1>6, <1>7, <1>10, ReadOn
  <2>2. phase' = "loop"
    BY <1>10 DEF GoesOn
  <2> QED BY <1>1, <1>9, <2>1, <2>2 DEF Delivery
<1>11. CASE Breaks(c, r)
  <2>1. Client(request, sent') /\ Told(request, sent', h', new, m)
        /\ Closing(h') = StillOpen(h', new, m)
    BY <1>3, <1>4, <1>6, <1>7, <1>11, ReadLast
  <2>2. phase' = "final"
    BY <1>11 DEF Breaks
  <2> QED BY <1>1, <1>9, <2>1, <2>2 DEF Delivery
<1> QED BY <1>7, <1>10, <1>11

(* The same response, with more tokens generated. *)
LEMMA DeliverySkipping ==
  ASSUME Delivery, Core', request' = request, Skipping
  PROVE  Delivery'
<1> DEFINE ref == Reference
           new == Reference'
           n == h.count
           k == h
           s == sent
<1>1. phase = "loop" /\ phase' = "loop" /\ h' = h /\ sent' = sent
      /\ Extends(tokens, ref, tokens', new, n)
  BY DEF Skipping
<1>2. AgreeUpto(ref, new, n)
  <2>1. tokens \in Seq(request.vocab) /\ n \in Nat /\ n <= Len(tokens)
    BY DEF Delivery, Core, MachineIs, Handlers
  <2>2. Len(tokens) \in Nat
    BY <2>1
  <2>3. \A i \in 1..n : i \in 1..Len(tokens)
    BY <2>1, <2>2
  <2> QED BY <1>1, <2>1, <2>3 DEF AgreeUpto, Extends
<1>3. Client(request, s) /\ Told(request, s, k, ref, n) /\ Holds(request, k, ref, n)
  BY <1>1 DEF Delivery
<1>4. h' = k /\ sent' = s /\ h'.count = n
  BY <1>1
<1> HIDE DEF ref, new, n, k, s
<1>5. Told(request, s, k, new, n) /\ Holds(request, k, new, n)
  BY <1>2, <1>3, AgreeSame
<1> QED BY <1>1, <1>3, <1>4, <1>5 DEF Delivery, new

(* Every step keeps it. *)
LEMMA DeliveryStep ==
  ASSUME NothingHeld, Delivery, [Next]_vars
  PROVE  Delivery'
<1>1. Core' /\ Move
  BY CoreStep DEF Delivery
<1>2. request' = request
  BY <1>1 DEF Move
<1>3. CASE UNCHANGED vars
  <2>1. Reference' = Reference
    BY <1>3 DEF vars, Reference
  <2> QED BY <1>1, <1>3, <2>1 DEF Delivery, vars
<1>4. CASE Beginning
  <2>1. phase = "open" /\ phase' \in {"loop", "done"} /\ h' = h /\ tokens' = tokens
        /\ (request.api = "chat" => sent' = <<>>)
    BY <1>4 DEF Beginning
  <2>2. h = NewHandler /\ tokens = <<>> /\ request \in Requests
    BY <2>1 DEF Delivery, Core, MachineIs
  <2>3. Client(request, sent') /\ Told(request, sent', h', Reference', 0)
        /\ Holds(request, h', Reference', 0)
    BY <2>1, <2>2, ToldNothing
  <2>4. h'.count = 0
    BY <2>1, <2>2 DEF NewHandler
  <2> QED BY <1>1, <1>2, <2>1, <2>3, <2>4 DEF Delivery
<1>5. CASE Skipping
  BY <1>1, <1>2, <1>5, DeliverySkipping
<1>6. CASE Reading(tokens', Reference')
  BY <1>1, <1>2, <1>6, DeliveryReading
<1>7. CASE Leaving
  <2>1. phase = "loop" /\ phase' = "final" /\ h' = h /\ sent' = sent /\ tokens' = tokens /\ h.count > 0
    BY <1>7 DEF Leaving
  <2>2. Reference' = Reference
    BY <1>2, <2>1 DEF Reference
  <2>3. Told(request, sent, h, Reference, h.count) /\ Holds(request, h, Reference, h.count)
        /\ Client(request, sent)
    BY <2>1 DEF Delivery
  <2>4. Closing(h) = StillOpen(h, Reference, h.count)
    BY <2>1, <2>3, ClosingAtEnd
  <2> QED BY <1>1, <1>2, <2>1, <2>2, <2>3, <2>4 DEF Delivery
<1>8. CASE Finishing
  <2>1. phase = "final" /\ tokens' = tokens
        /\ IF request.api = "chat" THEN ChatFinish ELSE ResponsesFinish
    BY <1>8 DEF Finishing
  <2>2. Reference' = Reference
    BY <1>2, <2>1 DEF Reference
  <2> DEFINE ref == Reference
             n == h.count
             V == request.vocab
  <2>3. Told(request, sent, h, ref, n) /\ Closing(h) = StillOpen(h, ref, n)
        /\ Client(request, sent)
    BY <2>1 DEF Delivery
  <2>4. h \in Handlers(V) /\ n \in Nat /\ n > 0
    BY <2>1 DEF Delivery, Core, Handlers
  <2>5. CallsIn(ref, n) \in Seq(Seq(Nat))
    <3>1. NextOf(n, n + 1)
      BY <2>4 DEF NextOf
    <3> HIDE DEF ref, n
    <3> QED BY <3>1, CallsInNext
  <2>6. h'.count = n /\ phase' = "done" /\ Client(request, sent')
        /\ ToldWith(request, sent', Left(request, h', connected'), ref, n, StillOpen(h', ref, n))
    <3> HIDE DEF ref, V
    <3>1. /\ Client(request, sent') /\ h'.cut = h.cut /\ h'.count = h.count /\ phase' = "done"
          /\ ToldWith(request, sent', Left(request, h', connected'), ref, n, StillOpen(h', ref, n))
      BY <2>1, <2>3, <2>4, <2>5, ToldFinished
    <3> QED BY <3>1
  <2> QED BY <1>1, <1>2, <2>2, <2>4, <2>6 DEF Delivery
<1> QED BY <1>1, <1>3, <1>4, <1>5, <1>6, <1>7, <1>8 DEF Move

----------------------------------------
(* In order *)

(* The positions that a handler keeps. *)
Shows(k) ==
  (Range(k.text) \cup Range(k.reasoning) \cup UNION {Range(x) : x \in Range(k.calls)}) \ {Message}

KeptBack(k) == Shows(k) \cup (Range(k.tool) \ {Message})

InOrder(s) ==
  \A a, b \in DOMAIN s : a < b => \A i \in Positions(s[a]), j \in Positions(s[b]) : i < j

Above(s, S) == \A a \in DOMAIN s : \A i \in Positions(s[a]), j \in S : i < j

Ordered(s, k) ==
  /\ InOrder(s) /\ Above(s, KeptBack(k)) /\ KeptBack(k) \subseteq 1..k.count
  /\ \A a \in DOMAIN s : Positions(s[a]) \subseteq 1..k.count

(* The elements of sequences put together. *)
LEMMA FlattenRange ==
  ASSUME NEW ss \in Seq(Seq(Nat))
  PROVE  Range(FlattenSeq(ss)) \subseteq UNION {Range(x) : x \in Range(ss)}
<1> DEFINE W == Seq(Nat)
           P == {s \in Seq(W) : Range(FlattenSeq(s)) \subseteq UNION {Range(x) : x \in Range(s)}}
<1>1. <<>> \in P
  <2>1. FlattenSeq(<<>>) = <<>>
    BY FlattenProperties
  <2>2. Range(<<>>) = {}
    BY DEF Range
  <2>3. <<>> \in Seq(W)
    OBVIOUS
  <2> QED BY <2>1, <2>2, <2>3
<1>2. ASSUME NEW s \in Seq(W), s \in P, NEW x \in W PROVE Append(s, x) \in P
  <2>1. FlattenSeq(Append(s, x)) = FlattenSeq(s) \o x /\ FlattenSeq(s) \in Seq(Nat)
    BY <1>2, FlattenProperties
  <2>2. Range(FlattenSeq(s) \o x) = Range(FlattenSeq(s)) \cup Range(x)
    <3> DEFINE f == FlattenSeq(s)
    <3>1. f \in Seq(Nat) /\ x \in Seq(Nat)
      BY <2>1
    <3> HIDE DEF f
    <3>2. Range(f \o x) = Range(f) \cup Range(x)
      BY <3>1, RangeConcatenation
    <3> QED BY <3>2 DEF f
  <2> HIDE DEF W
  <2>3. /\ Append(s, x) \in Seq(W) /\ DOMAIN Append(s, x) = 1..Len(s) + 1
        /\ Append(s, x)[Len(s) + 1] = x /\ DOMAIN s = 1..Len(s) /\ Len(s) \in Nat
        /\ \A i \in 1..Len(s) : Append(s, x)[i] = s[i]
    BY AppendItem
  <2> DEFINE t == Append(s, x)
  <2> HIDE DEF t
  <2>4. Len(s) + 1 \in DOMAIN t /\ \A i \in DOMAIN s : i \in DOMAIN t /\ t[i] = s[i]
    BY <2>3 DEF t
  <2>5. x \in Range(t) /\ Range(s) \subseteq Range(t)
    <3>1. t[Len(s) + 1] = x
      BY <2>3 DEF t
    <3> QED BY <2>4, <3>1 DEF Range
  <2>6. Range(FlattenSeq(s)) \subseteq UNION {Range(y) : y \in Range(s)}
    BY <1>2
  <2>7. Range(FlattenSeq(t)) \subseteq UNION {Range(y) : y \in Range(t)}
    BY <2>1, <2>2, <2>5, <2>6 DEF t
  <2> QED BY <2>3, <2>7 DEF t
<1>3. ss \in Seq(W)
  OBVIOUS
<1> HIDE DEF W
<1>4. Seq(W) \subseteq P
  <2> HIDE DEF P
  <2> QED BY <1>1, <1>2, SequenceInduction
<1> QED BY <1>3, <1>4

(* What a chunk shows was kept before. *)
LEMMA ChunkShows ==
  ASSUME NEW V, NEW c \in Handlers(V), NEW parsed, NEW f \in {None, Stop, "length", "tool_calls"}
  PROVE  Chunk(c, parsed, f) \in Chunks /\ Positions(Chunk(c, parsed, f)) \subseteq Shows(c)
<1> DEFINE W == Seq(Nat)
           x == Chunk(c, parsed, f)
           F == x["calls"]
           G == x["rejected"]
<1>1. x \in Chunks /\ x["text"] = c.text /\ x["reasoning"] = c.reasoning /\ Parts(c.calls, parsed, F, G)
  BY ChunkIs
<1>2. c.text \in Seq(Nat) /\ c.reasoning \in Seq(Nat) /\ c.calls \in Seq(W)
  BY DEF Handlers
<1>3. Positions(x) = Range(c.text \o c.reasoning \o FlattenSeq(F \o G)) \ {Message}
  BY <1>1 DEF Positions
<1> HIDE DEF W, x
<1>4. F \in Seq(W) /\ G \in Seq(W) /\ Range(F) \subseteq Range(c.calls) /\ Range(G) \subseteq Range(c.calls)
  <2> DEFINE Q == Range(c.calls) \ parsed
             a == Among(c.calls, parsed)
             b == Among(c.calls, Q)
  <2>1. F = a /\ G = b
    BY <1>1 DEF Parts
  <2>2. a \in Seq(W) /\ Range(a) = Range(c.calls) \cap parsed
    BY <1>2, AmongType
  <2> HIDE DEF Q
  <2>3. b \in Seq(W) /\ Range(b) = Range(c.calls) \cap Q
    BY <1>2, AmongType
  <2> HIDE DEF a, b, F, G
  <2> QED BY <2>1, <2>2, <2>3
<1> HIDE DEF F, G
<1> DEFINE e == F \o G
           fe == FlattenSeq(e)
<1>5. e \in Seq(W) /\ Range(e) = Range(F) \cup Range(G)
  BY <1>4, RangeConcatenation
<1> HIDE DEF e
<1>6. fe \in Seq(Nat) /\ Range(fe) \subseteq UNION {Range(y) : y \in Range(e)}
  <2>1. fe \in Seq(Nat)
    BY <1>5, FlattenProperties DEF W
  <2> QED BY <1>5, <2>1, FlattenRange DEF W
<1>7. Range(c.text \o c.reasoning \o fe) = Range(c.text) \cup Range(c.reasoning) \cup Range(fe)
  <2> DEFINE a == c.text
             b == c.reasoning
             d == a \o b
  <2>1. a \in Seq(Nat) /\ b \in Seq(Nat) /\ fe \in Seq(Nat)
    BY <1>2, <1>6
  <2> HIDE DEF a, b, fe
  <2>2. d \in Seq(Nat) /\ Range(d) = Range(a) \cup Range(b)
    BY <2>1, RangeConcatenation
  <2> HIDE DEF d
  <2>3. Range(d \o fe) = Range(d) \cup Range(fe)
    BY <2>1, <2>2, RangeConcatenation
  <2> QED BY <2>2, <2>3 DEF a, b, d
<1>8. \A y \in Range(e) : y \in Range(c.calls)
  BY <1>4, <1>5
<1> HIDE DEF fe
<1>9. Range(fe) \subseteq UNION {Range(y) : y \in Range(c.calls)}
  BY <1>6, <1>8
<1>10. Positions(x) \subseteq Shows(c)
  BY <1>3, <1>7, <1>9 DEF Shows, fe, e
<1> QED BY <1>1, <1>10 DEF x

(* One more chunk, of what was kept. *)
LEMMA OrderAppend ==
  ASSUME NEW s \in Seq(Chunks), InOrder(s), NEW x \in Chunks, Above(s, Positions(x))
  PROVE  /\ InOrder(Append(s, x))
         /\ \A a \in DOMAIN Append(s, x) :
              \/ Append(s, x)[a] = x
              \/ a \in DOMAIN s /\ Append(s, x)[a] = s[a]
<1> DEFINE t == Append(s, x)
           L == Len(s)
           C == Chunks
<1>1. s \in Seq(C) /\ x \in C
  OBVIOUS
<1> HIDE DEF C
<1>2. DOMAIN t = 1..L + 1 /\ t[L + 1] = x /\ DOMAIN s = 1..L /\ L \in Nat
      /\ \A i \in 1..L : t[i] = s[i]
  BY <1>1, AppendItem
<1> HIDE DEF t, L
<1>3. \A a \in DOMAIN t : a = L + 1 \/ (a \in DOMAIN s /\ t[a] = s[a])
  BY <1>2
<1>4. ASSUME NEW a \in DOMAIN t, NEW b \in DOMAIN t, a < b,
             NEW i \in Positions(t[a]), NEW j \in Positions(t[b])
      PROVE  i < j
  <2>1. a \in DOMAIN s /\ t[a] = s[a]
    BY <1>2, <1>3, <1>4
  <2>2. CASE b = L + 1
    BY <1>2, <1>4, <2>1, <2>2 DEF Above
  <2>3. CASE b \in DOMAIN s /\ t[b] = s[b]
    BY <1>4, <2>1, <2>3 DEF InOrder
  <2> QED BY <1>3, <2>2, <2>3
<1>5. InOrder(t)
  BY <1>4 DEF InOrder
<1> QED BY <1>2, <1>3, <1>5 DEF t

(* What is collected of a token are its position and what was kept before. *)
LEMMA CollectedShows ==
  ASSUME NEW u, NEW new, NEW n, NEW m, Seeing(request, u, new, n, m),
         h \in Handlers(request.vocab), NEW r, r = Response(request, u, new, m),
         NEW c, c = Collected(r)
  PROVE  KeptBack(c) \subseteq KeptBack(h) \cup {m}
<1>1. n \in Nat /\ m = n + 1 /\ m \in 1..Len(u)
      /\ request \in Requests /\ u \in Seq(request.vocab) /\ new = ReferenceOf(request, u)
  BY DEF Seeing, NextOf
<1>2. r \in Reads(request.vocab)
  BY <1>1, ResponseIs
<1>3. r.text = <<>> \/ r.text = << m >>
  BY DEF Response
<1>4. \A s : By(r, s) \in Seq(Nat) /\ Range(By(r, s)) \subseteq {m}
  <2>1. Range(<<>>) = {} /\ Range(<< m >>) = {m}
    BY DEF Range
  <2>2. \A s : By(r, s) = <<>> \/ By(r, s) = << m >>
    BY <1>3 DEF By
  <2>3. \A s : By(r, s) \in Seq(Nat)
    BY <1>2 DEF By, Reads
  <2> QED BY <2>1, <2>2, <2>3
<1>5. /\ c.reasoning = h.reasoning \o By(r, "reasoning") /\ c.text = h.text \o By(r, "normal")
      /\ c.calls = IF Closes(r) THEN Append(h.calls, h.tool) ELSE h.calls
      /\ c.tool = IF Closes(r) THEN <<>> ELSE h.tool \o By(r, "tool")
  <2> DEFINE V == request.vocab
  <2>1. h \in Handlers(V) /\ r \in Reads(V)
    BY <1>2
  <2> HIDE DEF V
  <2>2. /\ c.reasoning = h.reasoning \o By(r, "reasoning") /\ c.text = h.text \o By(r, "normal")
        /\ c.calls = IF Closes(r) THEN Append(h.calls, h.tool) ELSE h.calls
        /\ c.tool = IF Closes(r) THEN <<>> ELSE h.tool \o By(r, "tool")
    BY <2>1, CollectedIs
  <2> QED BY <2>2 DEF V
<1>6. h.text \in Seq(Nat) /\ h.reasoning \in Seq(Nat) /\ h.calls \in Seq(Seq(Nat))
      /\ h.tool \in Seq(Nat)
  BY DEF Handlers
<1>7. \A a \in Seq(Nat) : \A s : Range(a \o By(r, s)) \subseteq Range(a) \cup {m}
  <2>1. ASSUME NEW a \in Seq(Nat), NEW s PROVE Range(a \o By(r, s)) \subseteq Range(a) \cup {m}
    <3> DEFINE b == By(r, s)
    <3>1. b \in Seq(Nat) /\ Range(b) \subseteq {m}
      BY <1>4
    <3> HIDE DEF b
    <3>2. Range(a \o b) = Range(a) \cup Range(b)
      BY <3>1, RangeConcatenation
    <3> QED BY <3>1, <3>2 DEF b
  <2> QED BY <2>1
<1>8. Range(c.text) \subseteq Range(h.text) \cup {m}
      /\ Range(c.reasoning) \subseteq Range(h.reasoning) \cup {m}
  BY <1>5, <1>6, <1>7
<1>9. Range(c.tool) \subseteq Range(h.tool) \cup {m}
  <2>1. Range(<<>>) = {}
    BY DEF Range
  <2>2. Range(h.tool \o By(r, "tool")) \subseteq Range(h.tool) \cup {m}
    BY <1>6, <1>7
  <2> QED BY <1>5, <2>1, <2>2
<1>10. \A y \in Range(c.calls) : y \in Range(h.calls) \/ y = h.tool
  <2> DEFINE W == Seq(Nat)
             a == h.calls
             x == h.tool
             t == Append(a, x)
  <2>1. a \in Seq(W) /\ x \in W
    BY <1>6
  <2> HIDE DEF W, a, x
  <2>2. DOMAIN t = 1..Len(a) + 1 /\ t[Len(a) + 1] = x /\ DOMAIN a = 1..Len(a) /\ Len(a) \in Nat
        /\ \A i \in 1..Len(a) : t[i] = a[i]
    BY <2>1, AppendItem
  <2> HIDE DEF t
  <2>3. \A i \in DOMAIN t : i = Len(a) + 1 \/ i \in DOMAIN a
    BY <2>2
  <2>4. \A y \in Range(t) : y \in Range(a) \/ y = x
    BY <2>2, <2>3 DEF Range
  <2> QED BY <1>5, <2>4 DEF t, a, x
<1> QED BY <1>8, <1>9, <1>10 DEF KeptBack, Shows

(* The next position is behind all others. *)
LEMMA OrderNext ==
  ASSUME NEW s, NEW k, k.count \in Nat, Ordered(s, k), NEW c, c.count = k.count + 1,
         KeptBack(c) \subseteq KeptBack(k) \cup {c.count}
  PROVE  Ordered(s, c)
<1> DEFINE n == k.count
           m == c.count
<1>1. n \in Nat /\ m = n + 1
  OBVIOUS
<1>2. InOrder(s) /\ Above(s, KeptBack(k)) /\ KeptBack(k) \subseteq 1..n
      /\ \A a \in DOMAIN s : Positions(s[a]) \subseteq 1..n
  BY DEF Ordered
<1> HIDE DEF n, m
<1>3. 1..n \subseteq 1..m /\ m \in 1..m /\ \A i \in 1..n : i < m
  BY <1>1
<1>4. Above(s, KeptBack(c))
  BY <1>2, <1>3 DEF Above, m
<1>5. KeptBack(c) \subseteq 1..m /\ \A a \in DOMAIN s : Positions(s[a]) \subseteq 1..m
  BY <1>2, <1>3 DEF m
<1> QED BY <1>2, <1>4, <1>5 DEF Ordered, m

(* A handler that keeps less, or the same. *)
LEMMA OrderLess ==
  ASSUME NEW s, NEW c, Ordered(s, c), NEW d, d.count = c.count, KeptBack(d) \subseteq KeptBack(c)
  PROVE  Ordered(s, d)
BY DEF Ordered, Above

(* What a handler keeps that was changed in its text alone. *)
LEMMA KeptLike ==
  ASSUME NEW V, NEW c \in Handlers(V), NEW d, Like(c, d)
  PROVE  /\ Same(c, d) => KeptBack(d) = KeptBack(c)
         /\ d.text = Append(c.text, Message) /\ d.reasoning = c.reasoning /\ d.calls = c.calls
              => KeptBack(d) = KeptBack(c)
         /\ Empty(d) => KeptBack(d) = Range(c.tool) \ {Message}
<1>1. d.tool = c.tool
  BY DEF Like
<1>2. Same(c, d) => KeptBack(d) = KeptBack(c)
  BY <1>1 DEF Same, KeptBack, Shows
<1>3. ASSUME d.text = Append(c.text, Message), d.reasoning = c.reasoning, d.calls = c.calls
      PROVE  KeptBack(d) = KeptBack(c)
  <2> DEFINE a == c.text
             z == Message
             t == Append(a, z)
  <2>1. a \in Seq(Nat) /\ z \in Nat
    BY DEF Handlers, Message
  <2> HIDE DEF a, z
  <2>2. DOMAIN t = 1..Len(a) + 1 /\ t[Len(a) + 1] = z /\ DOMAIN a = 1..Len(a) /\ Len(a) \in Nat
        /\ \A i \in 1..Len(a) : t[i] = a[i]
    BY <2>1, AppendItem
  <2> HIDE DEF t
  <2>3. \A i : i \in DOMAIN t <=> i = Len(a) + 1 \/ i \in DOMAIN a
    BY <2>2
  <2>4. \A y : y \in Range(t) <=> y \in Range(a) \/ y = z
    BY <2>2, <2>3 DEF Range
  <2>5. d.text = t
    BY <1>3 DEF t, a, z
  <2>6. Shows(d) = Shows(c)
    BY <1>3, <2>4, <2>5 DEF Shows, a, z
  <2> QED BY <1>1, <2>6 DEF KeptBack
<1>4. ASSUME Empty(d) PROVE KeptBack(d) = Range(c.tool) \ {Message}
  <2>1. Range(<<>>) = {}
    BY DEF Range
  <2>2. Shows(d) = {}
    BY <1>4, <2>1 DEF Shows, Empty
  <2> QED BY <1>1, <2>2 DEF KeptBack
<1> QED BY <1>2, <1>3, <1>4

(* A chunk with all that is kept but the tool call. *)
LEMMA OrderSent ==
  ASSUME NEW s \in Seq(Chunks), NEW c, c.count \in Nat, Ordered(s, c),
         NEW x \in Chunks, Positions(x) \subseteq Shows(c),
         NEW d, d.count = c.count, KeptBack(d) = Range(c.tool) \ {Message},
         c.tool = <<>> \/ Empty(c)
  PROVE  Ordered(Append(s, x), d) /\ InOrder(Append(s, x))
<1>1. InOrder(s) /\ Above(s, KeptBack(c)) /\ KeptBack(c) \subseteq 1..c.count
      /\ \A a \in DOMAIN s : Positions(s[a]) \subseteq 1..c.count
  BY DEF Ordered
<1>2. Positions(x) \subseteq KeptBack(c) /\ KeptBack(d) \subseteq KeptBack(c)
  BY DEF KeptBack
<1>3. Above(s, Positions(x)) /\ Above(s, KeptBack(d))
  BY <1>1, <1>2 DEF Above
<1> DEFINE t == Append(s, x)
<1>4. InOrder(t) /\ \A a \in DOMAIN t : t[a] = x \/ (a \in DOMAIN s /\ t[a] = s[a])
  BY <1>1, <1>3, OrderAppend
<1> HIDE DEF t
<1>5. Positions(x) = {} \/ KeptBack(d) = {}
  <2>1. Range(<<>>) = {}
    BY DEF Range
  <2>2. Empty(c) => Shows(c) = {}
    BY <2>1 DEF Empty, Shows
  <2> QED BY <2>1, <2>2
<1>6. Above(t, KeptBack(d))
  BY <1>3, <1>4, <1>5 DEF Above
<1>7. \A a \in DOMAIN t : Positions(t[a]) \subseteq 1..c.count
  BY <1>1, <1>2, <1>4
<1> QED BY <1>1, <1>2, <1>4, <1>6, <1>7 DEF Ordered, t

Order ==
  request.api = "chat" =>
    InOrder(sent) /\ (phase \in {"loop", "final"} => Ordered(sent, h))

(* Nothing is in order. *)
LEMMA OrderNothing ==
  ASSUME NEW k, k = NewHandler
  PROVE  Ordered(<<>>, k) /\ InOrder(<<>>)
<1>1. Range(<<>>) = {}
  BY DEF Range
<1>2. k.text = <<>> /\ k.reasoning = <<>> /\ k.calls = <<>> /\ k.tool = <<>>
  BY DEF NewHandler
<1>3. KeptBack(k) = {}
  BY <1>1, <1>2 DEF KeptBack, Shows
<1> DEFINE e == <<>>
<1>4. DOMAIN e = {}
  OBVIOUS
<1> HIDE DEF e
<1>5. Ordered(e, k) /\ InOrder(e)
  BY <1>3, <1>4 DEF Ordered, InOrder, Above
<1> QED BY <1>5 DEF e

(* The handler takes a response. *)
LEMMA OrderReading ==
  ASSUME Delivery, Order, Core', request' = request, Reading(tokens', Reference'),
         request.api = "chat"
  PROVE  Ordered(sent', h') /\ InOrder(sent')
<1> DEFINE u == tokens'
           new == ReferenceOf(request, u)
           n == h.count
           m == n + 1
<1>1. Reference' = new
  BY DEF Reference
<1>2. /\ phase = "loop" /\ n < Len(u) /\ Extends(tokens, Reference, u, new, n)
      /\ \E r, c : /\ r = Response(request, u, new, m) /\ c = Collected(r)
                   /\ GoesOn(c, r) \/ Breaks(c, r)
  BY <1>1 DEF Reading
<1>3. /\ request \in Requests /\ u \in Seq(request.vocab)
      /\ h \in Handlers(request.vocab) /\ h' \in Handlers(request.vocab) /\ n \in Nat
      /\ n <= Len(tokens)
  BY DEF Delivery, Core, MachineIs, Handlers
<1>4. Seeing(request, u, new, n, m)
  BY <1>2, <1>3 DEF Seeing, NextOf
<1>5. Holds(request, h, new, n)
  <2>1. AgreeUpto(Reference, new, n)
    <3>1. tokens \in Seq(request.vocab)
      BY DEF Delivery, Core, MachineIs
    <3>2. Len(tokens) \in Nat
      BY <3>1
    <3>3. \A i \in 1..n : i \in 1..Len(tokens)
      BY <1>3, <3>2
    <3> QED BY <1>2, <1>3, <3>3 DEF AgreeUpto, Extends
  <2> DEFINE k == h
             ref == Reference
  <2>2. Holds(request, k, ref, n)
    BY <1>2 DEF Delivery
  <2> HIDE DEF k, ref, new, n
  <2>3. Holds(request, k, new, n)
    BY <2>1, <2>2, AgreeSame DEF ref
  <2> QED BY <2>3 DEF k
<1>6. sent \in Seq(Chunks) /\ Ordered(sent, h)
  BY <1>2 DEF Delivery, Client, Order
<1>7. n \in Nat /\ m = n + 1 /\ h.count = n
  BY <1>3
<1> HIDE DEF u, new, n, m
<1>8. PICK r, c : /\ r = Response(request, u, new, m) /\ c = Collected(r)
                  /\ GoesOn(c, r) \/ Breaks(c, r)
  BY <1>2
<1>9. KeptBack(c) \subseteq KeptBack(h) \cup {m}
  BY <1>3, <1>4, <1>8, CollectedShows
<1>10. c \in Handlers(request.vocab) /\ c.count = h.count + 1 /\ r.state = new[m].state
  <2>1. m \in 1..Len(u) /\ new = ReferenceOf(request, u)
    BY <1>4 DEF Seeing, NextOf
  <2>2. r \in Reads(request.vocab)
    BY <1>3, <1>8, <2>1, ResponseIs
  <2> QED BY <1>3, <1>8, <2>2, CollectedIs DEF Response
<1>11. Ordered(sent, c)
  <2> DEFINE k == h
             s == sent
  <2>1. k.count \in Nat /\ Ordered(s, k) /\ c.count = k.count + 1
        /\ KeptBack(c) \subseteq KeptBack(k) \cup {c.count}
    BY <1>6, <1>7, <1>9, <1>10
  <2> HIDE DEF k, s
  <2>2. Ordered(s, c)
    BY <2>1, OrderNext
  <2> QED BY <2>2 DEF s
<1>12. Like(c, h')
  BY <1>8 DEF GoesOn, Breaks
<1> DEFINE d == h'
           V == request.vocab
<1>13. Like(c, d) /\ c \in Handlers(V) /\ d.count = c.count
  BY <1>10, <1>12 DEF Like
<1> HIDE DEF d, V
<1>14. /\ Same(c, d) => KeptBack(d) = KeptBack(c)
       /\ d.text = Append(c.text, Message) /\ d.reasoning = c.reasoning /\ d.calls = c.calls
            => KeptBack(d) = KeptBack(c)
       /\ Empty(d) => KeptBack(d) = Range(c.tool) \ {Message}
  BY <1>13, KeptLike
<1>15. CASE KeptBack(d) = KeptBack(c) /\ sent' = sent
  <2>1. Ordered(sent, d)
    BY <1>11, <1>13, <1>15, OrderLess
  <2> QED BY <1>15, <2>1 DEF d, Ordered
<1>16. CASE /\ request.stream /\ r.state # "tool"
            /\ d.text = <<>> /\ d.reasoning = <<>> /\ d.calls = <<>>
            /\ \E parsed \in SUBSET Range(c.calls) : sent' = Append(sent, Chunk(c, parsed, None))
  <2>1. PICK parsed : sent' = Append(sent, Chunk(c, parsed, None))
    BY <1>16
  <2> DEFINE x == Chunk(c, parsed, None)
             s == sent
  <2>2. x \in Chunks /\ Positions(x) \subseteq Shows(c)
    <3>1. None \in {None, Stop, "length", "tool_calls"}
      OBVIOUS
    <3> QED BY <1>13, <3>1, ChunkShows
  <2>3. Empty(d)
    BY <1>16 DEF Empty
  <2>4. c.tool = <<>> \/ Empty(c)
    <3>1. /\ new[m].state \in {"normal", "reasoning"} => c.tool = <<>>
          /\ new[m].state = Stop /\ request.api = "chat" /\ request.stream =>
               c.text = <<>> /\ c.reasoning = <<>> /\ c.calls = <<>>
      BY <1>3, <1>4, <1>5, <1>8, CollectedTool
    <3>2. new[m].state \in Targets
      <4>1. \A i \in 1..m : new[i] \in Entries
        BY <1>4, SeeingIs
      <4> QED BY <1>7, <4>1 DEF Entries
    <3> QED BY <1>10, <1>16, <3>1, <3>2 DEF Targets, States, Empty
  <2>5. s \in Seq(Chunks) /\ c.count \in Nat /\ Ordered(s, c)
    BY <1>6, <1>10, <1>7, <1>11
  <2> HIDE DEF x, s
  <2>6. Ordered(Append(s, x), d) /\ InOrder(Append(s, x))
    BY <1>13, <1>14, <2>2, <2>3, <2>4, <2>5, OrderSent
  <2> QED BY <2>1, <2>6 DEF d, x, s
<1>17. CASE GoesOn(c, r)
  BY <1>14, <1>15, <1>16, <1>17 DEF GoesOn, d
<1>18. CASE Breaks(c, r)
  BY <1>14, <1>15, <1>18 DEF Breaks, d
<1> QED BY <1>8, <1>17, <1>18

(* The last chunk. *)
LEMMA OrderFinishing ==
  ASSUME Delivery, Order, request.api = "chat", phase = "final", ChatFinish
  PROVE  InOrder(sent')
<1> DEFINE c == Closed(h)
           k == h
           V == request.vocab
<1>1. k \in Handlers(V) /\ Ordered(sent, k) /\ sent \in Seq(Chunks)
  BY DEF Delivery, Core, Order, Client
<1>2. sent' = sent \/ \E parsed : sent' = Append(sent, Chunk(c, parsed, FinishReason(c)))
  BY DEF ChatFinish
<1> HIDE DEF k, V
<1>3. /\ c \in Handlers(V) /\ c.text = k.text /\ c.reasoning = k.reasoning
      /\ c.calls = IF k.prev = "tool" /\ k.tool # <<>> /\ ~k.cut THEN Append(k.calls, k.tool)
                   ELSE k.calls
  <2>1. \A e : e = Closed(k) =>
          /\ e \in Handlers(V) /\ e.text = k.text /\ e.reasoning = k.reasoning
          /\ e.calls = IF k.prev = "tool" /\ k.tool # <<>> /\ ~k.cut THEN Append(k.calls, k.tool)
                       ELSE k.calls
    BY <1>1, ClosedIs
  <2> QED BY <2>1 DEF k
<1> HIDE DEF c
<1>4. Shows(c) \subseteq KeptBack(k)
  <2>1. \A y \in Range(c.calls) : y \in Range(k.calls) \/ y = k.tool
    <3> DEFINE W == Seq(Nat)
               a == k.calls
               x == k.tool
               t == Append(a, x)
    <3>1. a \in Seq(W) /\ x \in W
      BY <1>1 DEF Handlers
    <3> HIDE DEF W, a, x
    <3>2. DOMAIN t = 1..Len(a) + 1 /\ t[Len(a) + 1] = x /\ DOMAIN a = 1..Len(a) /\ Len(a) \in Nat
          /\ \A i \in 1..Len(a) : t[i] = a[i]
      BY <3>1, AppendItem
    <3> HIDE DEF t
    <3>3. \A i \in DOMAIN t : i = Len(a) + 1 \/ i \in DOMAIN a
      BY <3>2
    <3>4. \A y \in Range(t) : y \in Range(a) \/ y = x
      BY <3>2, <3>3 DEF Range
    <3> QED BY <1>3, <3>4 DEF t, a, x
  <2> QED BY <1>3, <2>1 DEF KeptBack, Shows
<1>5. CASE sent' = sent
  BY <1>1, <1>5 DEF Ordered
<1>6. CASE \E parsed : sent' = Append(sent, Chunk(c, parsed, FinishReason(c)))
  <2>1. PICK parsed : sent' = Append(sent, Chunk(c, parsed, FinishReason(c)))
    BY <1>6
  <2> DEFINE f == FinishReason(c)
             x == Chunk(c, parsed, f)
  <2>2. f \in {None, Stop, "length", "tool_calls"}
    BY <1>3 DEF FinishReason, Handlers
  <2> HIDE DEF f
  <2>3. x \in Chunks /\ Positions(x) \subseteq Shows(c)
    BY <1>3, <2>2, ChunkShows
  <2> HIDE DEF x
  <2>4. InOrder(sent) /\ Above(sent, Positions(x))
    BY <1>1, <1>4, <2>3 DEF Ordered, Above
  <2>5. InOrder(Append(sent, x))
    BY <1>1, <2>3, <2>4, OrderAppend
  <2> QED BY <2>1, <2>5 DEF x, f
<1> QED BY <1>2, <1>5, <1>6

(* Every step keeps the order. *)
LEMMA OrderStep ==
  ASSUME NothingHeld, Delivery, Order, [Next]_vars
  PROVE  Order'
<1>1. Core' /\ Move
  BY CoreStep DEF Delivery
<1>2. request' = request
  BY <1>1 DEF Move
<1> SUFFICES ASSUME request.api = "chat"
             PROVE  InOrder(sent') /\ (phase' \in {"loop", "final"} => Ordered(sent', h'))
  BY <1>2 DEF Order
<1>3. CASE UNCHANGED vars
  BY <1>3 DEF vars, Order
<1>4. CASE Beginning
  <2>1. h' = NewHandler /\ sent' = <<>>
    BY <1>4 DEF Beginning, Delivery, Core
  <2> QED BY <2>1, OrderNothing
<1>5. CASE Skipping
  BY <1>5 DEF Skipping, Order
<1>6. CASE Reading(tokens', Reference')
  BY <1>1, <1>2, <1>6, OrderReading
<1>7. CASE Leaving
  BY <1>7 DEF Leaving, Order
<1>8. CASE Finishing
  <2>1. phase = "final" /\ ChatFinish
    BY <1>8 DEF Finishing
  <2>2. phase' = "done"
    BY <2>1 DEF ChatFinish
  <2>3. InOrder(sent')
    BY <2>1, OrderFinishing
  <2> QED BY <2>2, <2>3
<1> QED BY <1>1, <1>3, <1>4, <1>5, <1>6, <1>7, <1>8 DEF Move

(* What the invariants say of the client is what the tokens say. *)
LEMMA DeliveryDelivers ==
  ASSUME Delivery, Order
  PROVE  DeliveredAsGenerated
<1>1. TypeOK /\ ~raised
  BY CoreTypes DEF Delivery
<1> DEFINE ref == Reference
           n == h.count
           more == IF phase = "done" /\ ~h.cut /\ n > 0 THEN OpenCall(ref, n) ELSE <<>>
           s == sent
           k == h
           d == Left(request, h, connected)
<1>2. Client(request, s) /\ n \in Nat /\ k \in Handlers(request.vocab)
      /\ phase \in {"open", "loop", "final", "done"}
  BY DEF Delivery, Core, Handlers
<1>3. CallsIn(ref, n) \in Seq(Seq(Nat))
  <2>1. NextOf(n, n + 1)
    BY <1>2 DEF NextOf
  <2> HIDE DEF ref, n
  <2> QED BY <2>1, CallsInNext
<1>4. \A field : AllSent(field) = FlattenSeq(FieldsOf(s, field))
  BY DEF AllSent, FieldsOf
<1>5. ASSUME phase # "open", phase = "done" => n > 0
      PROVE  /\ Text = InState(ref, "normal", n) /\ ReasoningText = InState(ref, "reasoning", n)
             /\ SameCalls(Calls, CallsIn(ref, n) \o more)
  <2>1. CASE phase = "done"
    <3>1. ToldWith(request, s, d, ref, n, StillOpen(k, ref, n))
      BY <1>5, <2>1 DEF Delivery
    <3>2. StillOpen(k, ref, n) = more
      BY <1>5, <2>1 DEF StillOpen
    <3>3. CASE request.api = "chat" /\ connected
      <4>1. d.text = <<>> /\ d.reasoning = <<>> /\ d.calls = <<>>
        BY <1>2, <3>3, NamedChanges DEF Left
      <4>2. Pending(h.text) = <<>> /\ Pending(h.reasoning) = <<>> /\ Pending(h.calls) = <<>>
        BY <2>1, <3>3 DEF Pending
      <4>3. /\ Got(request, s, "text", d.text) = AllSent("text") \o Pending(h.text)
            /\ Got(request, s, "reasoning", d.reasoning) = AllSent("reasoning") \o Pending(h.reasoning)
            /\ GotCalls(request, s, d.calls)
                 = AllSent("calls") \o AllSent("rejected") \o Pending(h.calls)
        BY <1>4, <3>3, <4>1, <4>2 DEF Got, GotCalls
      <4> HIDE DEF d, s, more, n, ref
      <4>4. request.api # "responses"
        BY <3>3
      <4> QED BY <3>1, <3>2, <4>3, <4>4 DEF ToldWith, Text, ReasoningText, Calls
    <3>4. CASE ~(request.api = "chat" /\ connected)
      <4>1. d = k
        BY <3>4 DEF Left
      <4>2. request.api # "responses" =>
              Pending(h.text) = h.text /\ Pending(h.reasoning) = h.reasoning /\ Pending(h.calls) = h.calls
        BY <1>2, <3>4 DEF Pending, Client
      <4>3. /\ Text = WithoutMessage(Got(request, s, "text", k.text))
            /\ ReasoningText = Got(request, s, "reasoning", k.reasoning)
            /\ Calls = GotCalls(request, s, k.calls)
        BY <1>4, <4>2 DEF Text, ReasoningText, Calls, Got, GotCalls
      <4> HIDE DEF d, s, more, n, ref, k
      <4> QED BY <3>1, <3>2, <4>1, <4>3 DEF ToldWith
    <3> QED BY <3>3, <3>4
  <2>2. CASE phase # "done"
    <3>1. Told(request, s, k, ref, n)
      BY <1>2, <1>5, <2>2 DEF Delivery
    <3>2. Pending(h.text) = h.text /\ Pending(h.reasoning) = h.reasoning /\ Pending(h.calls) = h.calls
      BY <2>2 DEF Pending
    <3>3. /\ Text = WithoutMessage(Got(request, s, "text", k.text))
          /\ ReasoningText = Got(request, s, "reasoning", k.reasoning)
          /\ Calls = GotCalls(request, s, k.calls)
      BY <1>4, <3>2 DEF Text, ReasoningText, Calls, Got, GotCalls
    <3>4. more = <<>>
      BY <2>2
    <3> DEFINE y == CallsIn(ref, n)
    <3>5. y \in Seq(Seq(Nat))
      BY <1>3
    <3> HIDE DEF s, more, n, ref, k, y
    <3>6. y \o <<>> = y
      BY <3>5
    <3> QED BY <3>1, <3>3, <3>4, <3>6 DEF Told, y
  <2> QED BY <2>1, <2>2
<1>6. request.api = "chat" =>
        \A a, b \in DOMAIN sent : a < b =>
          \A i \in Positions(sent[a]), j \in Positions(sent[b]) : i < j
  BY DEF Order, InOrder
<1>7. AllDelivered
  BY <1>5, <1>6 DEF AllDelivered
<1> QED BY <1>1, <1>7 DEF DeliveredAsGenerated

(* DeliveredAsGenerated holds of every request, whatever its control sequences, *)
(* when the detokenizer holds no token back: the matcher is at the longest end   *)
(* of the tokens since the last change of state, so the buffer still has every    *)
(* token of a sequence that ends, and what the handler was given is what the       *)
(* definition of the states says; it is kept or sent, and neither twice.           *)
THEOREM EverythingIsDelivered ==
  ASSUME NothingHeld
  PROVE  Spec => []DeliveredAsGenerated
<1> DEFINE Inv == Delivery /\ Order
<1>1. Init => Inv
  <2>1. Init => Order
    <3>1. ASSUME Init PROVE Order
      <4>1. sent = <<>> /\ phase = "open" /\ h = NewHandler
        BY <3>1 DEF Init
      <4> QED BY <4>1, OrderNothing DEF Order
    <3> QED BY <3>1
  <2> QED BY <2>1, DeliveryInit
<1>2. Inv /\ [Next]_vars => Inv'
  BY DeliveryStep, OrderStep
<1>3. Inv => DeliveredAsGenerated
  BY DeliveryDelivers
<1> HIDE DEF Inv
<1> QED BY <1>1, <1>2, <1>3, PTL DEF Spec

----------------------------------------
(* The guards *)

(* The positions up to n from which on the state is that of n. *)
Steady(ref, n) == {i \in 1..n : \A k \in i..n : ref[k].state = ref[n].state}

Starts(ref, n, a) == a \in Steady(ref, n) /\ \A i \in Steady(ref, n) : a <= i

(* Of some naturals one is the least. *)
LEMMA LeastExists ==
  ASSUME NEW S \in SUBSET Nat, S # {}
  PROVE  \E x \in S : \A y \in S : x <= y
<1>1. PICK x \in S : \A y \in S : ~(<< y, x >> \in OpToRel(<, Nat))
  BY NatLessThanWellFounded, WFMin, Zenon
<1>2. ASSUME NEW y \in S PROVE x <= y
  <2>1. ~(y < x)
    BY <1>1 DEF OpToRel
  <2> QED BY <2>1
<1> QED BY <1>2

(* The span starts at the least of them. *)
LEMMA SpanStarts ==
  ASSUME NEW ref, NEW n \in Nat \ {0}
  PROVE  Starts(ref, n, SpanStart(ref, n)) /\ \A a : Starts(ref, n, a) => a = SpanStart(ref, n)
<1> DEFINE S == Steady(ref, n)
<1>1. SpanStart(ref, n) = CHOOSE x \in S : \A y \in S : x <= y
  BY DEF SpanStart, Steady, Min
<1>2. S \subseteq Nat /\ n \in S
  BY DEF Steady
<1> HIDE DEF S
<1>3. \E x \in S : \A y \in S : x <= y
  BY <1>2, LeastExists
<1> DEFINE b == SpanStart(ref, n)
<1>4. b \in S /\ \A y \in S : b <= y
  BY <1>1, <1>3
<1> HIDE DEF b
<1>5. ASSUME NEW a \in S, \A y \in S : a <= y PROVE a = b
  <2>1. a <= b /\ b <= a /\ a \in Nat /\ b \in Nat
    BY <1>2, <1>4, <1>5
  <2> QED BY <2>1
<1> QED BY <1>4, <1>5 DEF Starts, S, b

(* The span of the next token goes on or starts with it. *)
LEMMA SpanNext ==
  ASSUME NEW ref, NEW n, NEW m, NextOf(n, m)
  PROVE  /\ SpanStart(ref, m) \in 1..m
         /\ n # 0 => SpanStart(ref, n) \in 1..n
         /\ n # 0 /\ ref[m].state = ref[n].state => SpanStart(ref, m) = SpanStart(ref, n)
         /\ n = 0 \/ ref[m].state # ref[n].state => SpanStart(ref, m) = m
<1>1. n \in Nat /\ m \in Nat \ {0} /\ m = n + 1
  BY DEF NextOf
<1>2. SpanStart(ref, m) \in 1..m /\ (n # 0 => SpanStart(ref, n) \in 1..n)
  BY <1>1, SpanStarts DEF Starts, Steady
<1>3. ASSUME n # 0, ref[m].state = ref[n].state PROVE SpanStart(ref, m) = SpanStart(ref, n)
  <2> DEFINE a == SpanStart(ref, n)
  <2>1. Starts(ref, n, a)
    BY <1>1, <1>3, SpanStarts
  <2> HIDE DEF a
  <2>2. a \in 1..n /\ \A k \in a..n : ref[k].state = ref[n].state
    BY <2>1 DEF Starts, Steady
  <2>3. \A k \in a..m : k = m \/ k \in a..n
    BY <1>1, <2>2
  <2>4. a \in Steady(ref, m)
    BY <1>1, <1>3, <2>2, <2>3 DEF Steady
  <2>5. ASSUME NEW i \in Steady(ref, m) PROVE a <= i
    <3>1. i \in 1..m /\ \A k \in i..m : ref[k].state = ref[m].state
      BY DEF Steady
    <3>2. CASE i = m
      BY <1>1, <2>2, <3>2
    <3>3. CASE i # m
      <4>1. i \in 1..n /\ \A k \in i..n : k \in i..m
        BY <1>1, <3>1, <3>3
      <4>2. \A k \in i..n : ref[k].state = ref[n].state
        BY <1>3, <3>1, <4>1
      <4>3. i \in Steady(ref, n)
        BY <4>1, <4>2 DEF Steady
      <4> QED BY <2>1, <4>3 DEF Starts
    <3> QED BY <3>2, <3>3
  <2>6. Starts(ref, m, a)
    BY <2>4, <2>5 DEF Starts
  <2> QED BY <1>1, <2>6, SpanStarts DEF a
<1>4. ASSUME n = 0 \/ ref[m].state # ref[n].state PROVE SpanStart(ref, m) = m
  <2>1. m \in Steady(ref, m)
    BY <1>1 DEF Steady
  <2>2. ASSUME NEW i \in Steady(ref, m) PROVE m <= i
    <3>1. i \in 1..m /\ \A k \in i..m : ref[k].state = ref[m].state
      BY DEF Steady
    <3>2. CASE i = m
      BY <1>1, <3>2
    <3>3. CASE i # m
      <4>1. n # 0 /\ n \in i..m
        BY <1>1, <3>1, <3>3
      <4> QED BY <1>4, <3>1, <4>1
    <3> QED BY <3>2, <3>3
  <2>3. Starts(ref, m, m)
    BY <2>1, <2>2 DEF Starts
  <2> QED BY <1>1, <2>3, SpanStarts
<1> QED BY <1>2, <1>3, <1>4

Counts(t, k, ref, n) ==
  /\ k.span = IF n > 0 /\ ref[n].state \in {"normal", "reasoning"}
              THEN [state |-> ref[n].state, tokens |-> SubSeq(t, SpanStart(ref, n), n)]
              ELSE NoSpan
  /\ k.toolTokens = IF n > 0 /\ ref[n].state = "tool" THEN n - SpanStart(ref, n) + 1 ELSE 0
  /\ k.reasoningTokens = IF n > 0 /\ ref[n].state = "reasoning"
                         THEN n - SpanStart(ref, n) + 1 ELSE 0

Guarded(t, k, ref, n) ==
  /\ Counts(t, k, ref, n)
  /\ NoGuardTrips(k)
  /\ k.prev = "tool" => Len(k.tool) <= k.toolTokens

(* The counters do not depend on the tokens that follow. *)
LEMMA CountsAgree ==
  ASSUME NEW V, NEW t \in Seq(V), NEW u \in Seq(V), NEW ref, NEW new, NEW n \in Nat, n <= Len(t),
         Len(t) <= Len(u), \A i \in 1..Len(t) : new[i] = ref[i] /\ u[i] = t[i],
         NEW k, Guarded(t, k, ref, n)
  PROVE  Guarded(u, k, new, n)
<1>1. CASE n = 0
  BY <1>1 DEF Guarded, Counts
<1>2. CASE n # 0
  <2>1. \A i \in 1..n : new[i] = ref[i] /\ u[i] = t[i]
    <3>1. \A i \in 1..n : i \in 1..Len(t)
      OBVIOUS
    <3> QED BY <3>1
  <2>2. Steady(new, n) = Steady(ref, n)
    <3>1. \A i \in 1..n : \A k1 \in i..n : k1 \in 1..n
      OBVIOUS
    <3>2. n \in 1..n
      BY <1>2
    <3> QED BY <2>1, <3>1, <3>2 DEF Steady
  <2> DEFINE a == SpanStart(ref, n)
  <2>3. Starts(ref, n, a)
    BY <1>2, SpanStarts
  <2> HIDE DEF a
  <2>4. Starts(new, n, a)
    BY <2>2, <2>3 DEF Starts
  <2>5. SpanStart(new, n) = a
    BY <1>2, <2>4, SpanStarts
  <2>6. a \in 1..n
    BY <2>3 DEF Starts, Steady
  <2>7. SubSeq(u, a, n) = SubSeq(t, a, n)
    <3>1. \A i \in 1..n - a + 1 : i + a - 1 \in 1..n
      BY <2>6
    <3>2. SubSeq(u, a, n) = [i \in 1..n - a + 1 |-> u[i + a - 1]]
          /\ SubSeq(t, a, n) = [i \in 1..n - a + 1 |-> t[i + a - 1]]
      BY <2>6
    <3> QED BY <2>1, <3>1, <3>2
  <2>8. new[n] = ref[n]
    BY <1>2, <2>1
  <2> QED BY <2>5, <2>7, <2>8 DEF Guarded, Counts, a
<1> QED BY <1>1, <1>2

(* The counters of the handler count the tokens of the span. *)
LEMMA CountsNext ==
  ASSUME NEW u, NEW new, NEW n, NEW m, Seeing(request, u, new, n, m),
         h \in Handlers(request.vocab), Holds(request, h, new, n), Guarded(u, h, new, n),
         NEW r, r = Response(request, u, new, m), NEW c, c = Collected(r)
  PROVE  /\ Counts(u, c, new, m)
         /\ new[m].state = "tool" => Len(c.tool) <= c.toolTokens
         /\ m \in Closers(new, m) /\ ToolMax > 0 => Len(CallClosedAt(new, m)) <= ToolMax
<1> DEFINE a == SpanStart(new, n)
           b == SpanStart(new, m)
           s == new[m].state
           p == new[n].state
           V == request.vocab
<1>1. n \in Nat /\ m = n + 1 /\ NextOf(n, m) /\ m \in 1..Len(u) /\ Len(u) \in Nat
      /\ request \in Requests /\ u \in Seq(V) /\ new = ReferenceOf(request, u)
  BY DEF Seeing, NextOf
<1>2. r \in Reads(V) /\ r.state = s /\ r.token = u[m]
      /\ r.text = IF Visible(new, m) THEN << m >> ELSE <<>>
  <2>1. r \in Reads(V)
    BY <1>1, ResponseIs
  <2> QED BY <2>1 DEF Response
<1>3. s \in Targets
  BY <1>2 DEF Reads
<1>4. /\ b \in 1..m /\ (n # 0 => a \in 1..n)
      /\ (n # 0 /\ s = p => b = a) /\ (n = 0 \/ s # p => b = m)
  BY <1>1, SpanNext
<1>5. /\ c.tool = IF Closes(r) THEN <<>> ELSE h.tool \o By(r, "tool")
      /\ c.toolTokens = IF s = "tool" THEN h.toolTokens + 1 ELSE 0
      /\ c.reasoningTokens = IF s = "reasoning" THEN h.reasoningTokens + 1 ELSE 0
      /\ c.span = Spanned(h, r)
  <2>1. h \in Handlers(V) /\ r \in Reads(V)
    BY <1>2
  <2> HIDE DEF V
  <2>2. /\ c.tool = IF Closes(r) THEN <<>> ELSE h.tool \o By(r, "tool")
        /\ c.toolTokens = IF r.state = "tool" THEN h.toolTokens + 1 ELSE 0
        /\ c.reasoningTokens = IF r.state = "reasoning" THEN h.reasoningTokens + 1 ELSE 0
        /\ c.span = Spanned(h, r)
    BY <2>1, CollectedIs
  <2> HIDE DEF s
  <2> QED BY <1>2, <2>2
<1>6. /\ h.span = IF n > 0 /\ p \in {"normal", "reasoning"}
                  THEN [state |-> p, tokens |-> SubSeq(u, a, n)] ELSE NoSpan
      /\ h.toolTokens = IF n > 0 /\ p = "tool" THEN n - a + 1 ELSE 0
      /\ h.reasoningTokens = IF n > 0 /\ p = "reasoning" THEN n - a + 1 ELSE 0
      /\ ~ToolTooLong(h) /\ (h.prev = "tool" => Len(h.tool) <= h.toolTokens)
  BY DEF Guarded, Counts, NoGuardTrips
<1>7. h.tool \in Seq(Nat) /\ h.toolTokens \in Nat
  BY DEF Handlers
<1>8. ToolFollows(h, new, m)
  BY ToolNext
<1>9. n > 0 <=> n # 0
  BY <1>1
<1> HIDE DEF a, b, s, p, V
<1>10. n - a + 1 + 1 = m - a + 1 \/ n = 0
  BY <1>1, <1>4
<1>11. c.toolTokens = IF m > 0 /\ s = "tool" THEN m - b + 1 ELSE 0
  <2>1. CASE s # "tool"
    BY <1>5, <2>1
  <2>2. CASE s = "tool" /\ n # 0 /\ s = p
    BY <1>1, <1>4, <1>5, <1>6, <1>9, <2>2
  <2>3. CASE s = "tool" /\ ~(n # 0 /\ s = p)
    <3>1. b = m /\ h.toolTokens = 0
      BY <1>4, <1>6, <1>9, <2>3
    <3> QED BY <1>1, <1>5, <2>3, <3>1
  <2> QED BY <2>1, <2>2, <2>3
<1>12. c.reasoningTokens = IF m > 0 /\ s = "reasoning" THEN m - b + 1 ELSE 0
  <2>1. CASE s # "reasoning"
    BY <1>5, <2>1
  <2>2. CASE s = "reasoning" /\ n # 0 /\ s = p
    BY <1>1, <1>4, <1>5, <1>6, <1>9, <2>2
  <2>3. CASE s = "reasoning" /\ ~(n # 0 /\ s = p)
    <3>1. b = m /\ h.reasoningTokens = 0
      BY <1>4, <1>6, <1>9, <2>3
    <3> QED BY <1>1, <1>5, <2>3, <3>1
  <2> QED BY <2>1, <2>2, <2>3
<1>13. c.span = IF m > 0 /\ s \in {"normal", "reasoning"}
                THEN [state |-> s, tokens |-> SubSeq(u, b, m)] ELSE NoSpan
  <2>1. CASE s \notin {"normal", "reasoning"}
    BY <1>2, <1>5, <2>1 DEF Spanned, NoSpan
  <2>2. CASE s \in {"normal", "reasoning"}
    <3> DEFINE was == IF s = h.span.state THEN h.span.tokens ELSE <<>>
               now == SubSeq(u, b, m)
    <3>1. c.span = [state |-> s, tokens |-> Append(was, u[m])]
      BY <1>2, <1>5, <2>2 DEF Spanned
    <3>2. Append(was, u[m]) = now
      <4>1. CASE n # 0 /\ s = p
        <5>1. was = SubSeq(u, a, n)
          <6> DEFINE w == SubSeq(u, a, n)
          <6>1. h.span = [state |-> p, tokens |-> w]
            BY <1>6, <1>9, <2>2, <4>1
          <6> HIDE DEF w
          <6>2. h.span.state = p /\ h.span.tokens = w
            BY <6>1
          <6>3. was = w
            BY <4>1, <6>2
          <6> HIDE DEF was
          <6> QED BY <6>3 DEF w
        <5>2. a \in Nat /\ 1 <= a /\ a <= n + 1 /\ n < Len(u) /\ n <= Len(u)
          BY <1>1, <1>4, <4>1
        <5> DEFINE lu == Len(u)
        <5>3. n < lu => SubSeq(u, a, n + 1) = Append(SubSeq(u, a, n), u[n + 1])
          BY <1>1, <5>2, PartOf
        <5>4. SubSeq(u, a, m) = Append(SubSeq(u, a, n), u[m])
          BY <1>1, <5>2, <5>3
        <5>5. b = a
          BY <1>4, <4>1
        <5> HIDE DEF was
        <5> QED BY <5>1, <5>4, <5>5
      <4>2. CASE ~(n # 0 /\ s = p)
        <5>1. was = <<>>
          BY <1>6, <1>9, <2>2, <4>2 DEF NoSpan, None
        <5>2. b = m
          BY <1>4, <4>2
        <5> DEFINE none == SubSeq(u, m, n)
        <5>3. none \in Seq(V) /\ Len(none) = (n - m) + 1
              /\ (n < Len(u) => SubSeq(u, m, n + 1) = Append(none, u[n + 1]))
          <6>1. m \in Nat /\ n \in Nat /\ 1 <= m /\ m <= n + 1 /\ n <= Len(u) /\ u \in Seq(V)
            BY <1>1
          <6> QED BY <6>1, PartOf
        <5> HIDE DEF none
        <5>4. none = <<>>
          <6>1. Len(none) = 0
            BY <1>1, <5>3
          <6> QED BY <5>3, <6>1
        <5>5. SubSeq(u, m, m) = Append(<<>>, u[m])
          <6>1. n < Len(u) /\ n + 1 = m
            BY <1>1
          <6> QED BY <5>3, <5>4, <6>1
        <5> HIDE DEF was
        <5> QED BY <5>1, <5>2, <5>5
      <4> QED BY <4>1, <4>2
    <3> HIDE DEF was, now
    <3>3. c.span = [state |-> s, tokens |-> now]
      BY <3>1, <3>2
    <3>4. m > 0
      BY <1>1
    <3> QED BY <2>2, <3>3, <3>4 DEF now
  <2> QED BY <2>1, <2>2
<1>14. ASSUME s = "tool" PROVE Len(c.tool) <= c.toolTokens
  <2> DEFINE y == By(r, "tool")
  <2>1. c.tool = h.tool \o y
    BY <1>2, <1>5, <1>14 DEF Closes
  <2>2. y \in Seq(Nat) /\ Len(y) <= 1
    <3>1. y = <<>> \/ y = << m >>
      BY <1>2 DEF By
    <3>2. Len(<<>>) = 0 /\ Len(<< m >>) = 1 /\ <<>> \in Seq(Nat) /\ << m >> \in Seq(Nat)
      BY <1>1
    <3> HIDE DEF y
    <3>3. CASE y = <<>>
      BY <3>2, <3>3
    <3>4. CASE y = << m >>
      BY <3>2, <3>4
    <3> QED BY <3>1, <3>3, <3>4
  <2>3. c.toolTokens = h.toolTokens + 1
    BY <1>5, <1>14
  <2>4. Len(h.tool) <= h.toolTokens
    <3>1. CASE h.prev = "tool"
      BY <1>6, <3>1
    <3>2. CASE h.prev # "tool"
      <4>1. h.tool = <<>>
        BY <1>8, <1>14, <3>2 DEF ToolFollows, Stop, s
      <4> QED BY <1>7, <4>1
    <3> QED BY <3>1, <3>2
  <2> DEFINE t == h.tool
  <2>5. t \in Seq(Nat) /\ Len(t) <= h.toolTokens /\ c.tool = t \o y
    BY <1>7, <2>1, <2>4
  <2> HIDE DEF y, t
  <2>6. Len(t \o y) = Len(t) + Len(y) /\ Len(t) \in Nat /\ Len(y) \in Nat
    BY <2>2, <2>5
  <2> QED BY <1>7, <2>2, <2>3, <2>5, <2>6
<1>15. ASSUME m \in Closers(new, m), ToolMax > 0 PROVE Len(CallClosedAt(new, m)) <= ToolMax
  <2>1. h.prev = "tool" /\ h.tool = CallClosedAt(new, m)
    BY <1>8, <1>15 DEF ToolFollows
  <2>2. Len(h.tool) <= h.toolTokens /\ ~(h.toolTokens > ToolMax)
    BY <1>6, <1>15, <2>1 DEF ToolTooLong
  <2>3. Len(h.tool) \in Nat /\ ToolMax \in Nat
    BY <1>7, GuardsAssumption
  <2>4. Len(h.tool) <= ToolMax
    BY <1>7, <2>2, <2>3
  <2> QED BY <2>1, <2>4
<1> QED BY <1>11, <1>12, <1>13, <1>14, <1>15 DEF Counts, b, s

Short(calls) == ToolMax > 0 => \A x \in Range(calls) : Len(x) <= ToolMax

Guards ==
  /\ phase = "loop" => Guarded(tokens, h, Reference, h.count)
  /\ Short(CallsIn(Reference, h.count))
  /\ phase \in {"final", "done"} /\ h.count > 0 => Short(StillOpen(h, Reference, h.count))

(* The calls that are complete, with those of the next token. *)
LEMMA ShortMore ==
  ASSUME NEW a \in Seq(Seq(Nat)), Short(a), NEW x \in Seq(Nat), ToolMax > 0 => Len(x) <= ToolMax
  PROVE  Short(a \o << x >>) /\ Short(a \o <<>>) /\ Short(<<>>) /\ Short(<< x >>)
<1> DEFINE W == Seq(Nat)
           o == << x >>
           e == <<>>
<1>1. a \in Seq(W) /\ o \in Seq(W) /\ e \in Seq(W)
  OBVIOUS
<1>2. Range(o) = {x} /\ Range(e) = {}
  BY DEF Range
<1>3. a \o e = a
  OBVIOUS
<1> HIDE DEF W, o, e
<1>4. Range(a \o o) = Range(a) \cup Range(o)
  BY <1>1, RangeConcatenation
<1> QED BY <1>2, <1>3, <1>4 DEF Short, o, e

(* The handler takes a response. *)
LEMMA GuardsReading ==
  ASSUME Delivery, Guards, Core', request' = request, Reading(tokens', Reference')
  PROVE  Guards'
<1> DEFINE u == tokens'
           new == ReferenceOf(request, u)
           n == h.count
           m == n + 1
<1>1. Reference' = new
  BY DEF Reference
<1>2. /\ phase = "loop" /\ n < Len(u) /\ Extends(tokens, Reference, u, new, n)
      /\ \E r, c : /\ r = Response(request, u, new, m) /\ c = Collected(r)
                   /\ GoesOn(c, r) \/ Breaks(c, r)
  BY <1>1 DEF Reading
<1>3. /\ request \in Requests /\ u \in Seq(request.vocab) /\ tokens \in Seq(request.vocab)
      /\ h \in Handlers(request.vocab) /\ h' \in Handlers(request.vocab) /\ n \in Nat
      /\ n <= Len(tokens) /\ Len(tokens) \in Nat
  <2>1. tokens \in Seq(request.vocab)
    BY DEF Delivery, Core, MachineIs
  <2>2. Len(tokens) \in Nat
    BY <2>1
  <2> QED BY <2>1, <2>2 DEF Delivery, Core, MachineIs, Handlers
<1>4. Seeing(request, u, new, n, m)
  BY <1>2, <1>3 DEF Seeing, NextOf
<1>5. AgreeUpto(Reference, new, n)
  <2>1. \A i \in 1..n : i \in 1..Len(tokens)
    BY <1>3
  <2> QED BY <1>2, <1>3, <2>1 DEF AgreeUpto, Extends
<1>6. Holds(request, h, new, n) /\ Guarded(u, h, new, n) /\ Short(CallsIn(new, n))
  <2> DEFINE k == h
             ref == Reference
             V == request.vocab
             t == tokens
  <2>1. Holds(request, k, ref, n) /\ Guarded(t, k, ref, n) /\ Short(CallsIn(ref, n))
    BY <1>2 DEF Delivery, Guards
  <2>2. t \in Seq(V) /\ u \in Seq(V) /\ n \in Nat /\ n <= Len(t)
    BY <1>3
  <2>3. Len(t) <= Len(u) /\ \A i \in 1..Len(t) : new[i] = ref[i] /\ u[i] = t[i]
    BY <1>2 DEF Extends
  <2> HIDE DEF k, ref, new, n, V, t, u
  <2>4. Holds(request, k, new, n)
    BY <1>5, <2>1, AgreeSame DEF ref
  <2>5. Guarded(u, k, new, n)
    BY <2>1, <2>2, <2>3, CountsAgree
  <2>6. CallsIn(new, n) = CallsIn(ref, n)
    BY <1>5, SaysTheSame DEF ref
  <2> QED BY <2>1, <2>4, <2>5, <2>6 DEF k
<1>7. n \in Nat /\ m = n + 1 /\ NextOf(n, m)
  BY <1>3 DEF NextOf
<1> HIDE DEF u, new, n, m
<1>8. PICK r, c : /\ r = Response(request, u, new, m) /\ c = Collected(r)
                  /\ GoesOn(c, r) \/ Breaks(c, r)
  BY <1>2
<1>9. /\ Counts(u, c, new, m)
      /\ new[m].state = "tool" => Len(c.tool) <= c.toolTokens
      /\ m \in Closers(new, m) /\ ToolMax > 0 => Len(CallClosedAt(new, m)) <= ToolMax
  BY <1>3, <1>4, <1>6, <1>8, CountsNext
<1>10. r.state = new[m].state /\ c.count = m
  <2>1. m \in 1..Len(u) /\ new = ReferenceOf(request, u)
    BY <1>4 DEF Seeing, NextOf
  <2>2. r \in Reads(request.vocab)
    BY <1>3, <1>8, <2>1, ResponseIs
  <2> QED BY <1>3, <1>7, <1>8, <2>2, CollectedIs DEF Response, n
<1>11. h'.count = m /\ Like(c, h')
  BY <1>8, <1>10 DEF GoesOn, Breaks, Like
<1>12. Counts(u, h', new, m)
  BY <1>9, <1>11 DEF Counts, Like
<1>13. Short(CallsIn(new, m))
  <2> DEFINE x == CallClosedAt(new, m)
             y == CallsIn(new, n)
             closes == m \in Closers(new, m)
  <2>1. CallsIn(new, m) = y \o (IF closes THEN << x >> ELSE <<>>) /\ y \in Seq(Seq(Nat))
    BY <1>7, CallsInNext
  <2>2. closes /\ ToolMax > 0 => Len(x) <= ToolMax
    BY <1>9
  <2>3. x \in Seq(Nat)
    <3>1. NextOf(m, m + 1)
      BY <1>7 DEF NextOf
    <3> QED BY <3>1, CallOfNext DEF CallClosedAt
  <2>4. Short(y)
    BY <1>6
  <2> HIDE DEF x, y, closes
  <2>5. CASE closes
    BY <2>1, <2>2, <2>3, <2>4, <2>5, ShortMore
  <2>6. CASE ~closes
    <3>1. y \o <<>> = y
      BY <2>1
    <3> QED BY <2>1, <2>4, <2>6, <3>1
  <2> QED BY <2>5, <2>6
<1>14. CASE GoesOn(c, r)
  <2>1. phase' = "loop" /\ h'.prev = r.state /\ NoGuardTrips(c)
    BY <1>14 DEF GoesOn
  <2>2. NoGuardTrips(h')
    BY <1>11, <2>1 DEF NoGuardTrips, ToolTooLong, ReasoningTooLong, Like
  <2>3. h'.prev = "tool" => Len(h'.tool) <= h'.toolTokens
    BY <1>9, <1>10, <1>11, <2>1 DEF Like
  <2>4. Guarded(u, h', new, m)
    BY <1>12, <2>2, <2>3 DEF Guarded
  <2> QED BY <1>1, <1>11, <1>13, <2>1, <2>4 DEF Guards, u
<1>15. CASE Breaks(c, r)
  <2>1. phase' = "final" /\ h'.cut = (c.cut \/ r.state = "tool")
    BY <1>15 DEF Breaks
  <2>2. StillOpen(h', new, m) = <<>>
    BY <1>10, <2>1 DEF StillOpen, OpenCall
  <2>3. Short(<<>>)
    BY DEF Short, Range
  <2> QED BY <1>1, <1>11, <1>13, <2>1, <2>2, <2>3 DEF Guards
<1> QED BY <1>8, <1>14, <1>15

(* The guards when the handler begins. *)
LEMMA GuardedNothing ==
  ASSUME NEW t, NEW ref
  PROVE  Guarded(t, NewHandler, ref, 0)
<1> DEFINE k == NewHandler
<1>1. k.span = NoSpan /\ k.toolTokens = 0 /\ k.reasoningTokens = 0 /\ k.prev = None
  BY DEF NewHandler
<1>2. k.span.tokens = <<>>
  BY <1>1 DEF NoSpan
<1> HIDE DEF k
<1>3. NoGuardTrips(k)
  BY <1>1, <1>2, NoLoop, GuardsAssumption DEF NoGuardTrips, ToolTooLong, ReasoningTooLong
<1>4. k.prev # "tool"
  BY <1>1 DEF None
<1>5. Guarded(t, k, ref, 0)
  BY <1>1, <1>3, <1>4 DEF Guarded, Counts
<1> QED BY <1>5 DEF k

(* No call is too long before there is one. *)
LEMMA ShortNothing ==
  ASSUME NEW ref
  PROVE  Short(CallsIn(ref, 0)) /\ CallsIn(ref, 0) = <<>> /\ Short(<<>>)
<1>1. NextOf(0, 1)
  BY DEF NextOf
<1>2. CallsIn(ref, 0) = <<>>
  BY <1>1, CallsInNext
<1>3. Short(<<>>)
  BY DEF Short, Range
<1> QED BY <1>2, <1>3

(* Every step keeps the counters right, and the calls within the limit. *)
LEMMA GuardsStep ==
  ASSUME NothingHeld, Delivery, Guards, [Next]_vars
  PROVE  Guards'
<1>1. Core' /\ Move
  BY CoreStep DEF Delivery
<1>2. request' = request
  BY <1>1 DEF Move
<1>3. CASE UNCHANGED vars
  <2>1. Reference' = Reference
    BY <1>3 DEF vars, Reference
  <2> QED BY <1>3, <2>1 DEF Guards, vars
<1>4. CASE Beginning
  <2>1. h' = NewHandler
    BY <1>4 DEF Beginning, Delivery, Core
  <2>2. h'.count = 0
    BY <2>1 DEF NewHandler
  <2>3. Guarded(tokens', h', Reference', 0)
    BY <2>1, GuardedNothing
  <2>4. Short(CallsIn(Reference', 0))
    BY ShortNothing
  <2> QED BY <2>2, <2>3, <2>4 DEF Guards
<1>5. CASE Skipping
  <2> DEFINE ref == Reference
             new == Reference'
             n == h.count
             k == h
             V == request.vocab
             t == tokens
             u == tokens'
  <2>1. phase = "loop" /\ phase' = "loop" /\ h' = k /\ Extends(t, ref, u, new, n)
    BY <1>5 DEF Skipping
  <2>2. t \in Seq(V) /\ u \in Seq(V) /\ n \in Nat /\ n <= Len(t)
    BY <1>1, <1>2 DEF Delivery, Core, MachineIs, Handlers
  <2>3. Len(t) <= Len(u) /\ \A i \in 1..Len(t) : new[i] = ref[i] /\ u[i] = t[i]
    BY <2>1 DEF Extends
  <2>4. AgreeUpto(ref, new, n)
    <3>1. Len(t) \in Nat
      BY <2>2
    <3>2. \A i \in 1..n : i \in 1..Len(t)
      BY <2>2, <3>1
    <3> QED BY <2>1, <2>2, <3>2 DEF AgreeUpto, Extends
  <2>5. Guarded(t, k, ref, n) /\ Short(CallsIn(ref, n))
    BY <2>1 DEF Guards
  <2>6. h'.count = n
    BY <2>1
  <2> HIDE DEF ref, new, n, k, V, t, u
  <2>7. Guarded(u, k, new, n)
    BY <2>2, <2>3, <2>5, CountsAgree
  <2>8. CallsIn(new, n) = CallsIn(ref, n)
    BY <2>4, SaysTheSame
  <2> QED BY <2>1, <2>5, <2>6, <2>7, <2>8 DEF Guards, u, new
<1>6. CASE Reading(tokens', Reference')
  BY <1>1, <1>2, <1>6, GuardsReading
<1>7. CASE Leaving
  <2>1. phase = "loop" /\ phase' = "final" /\ h' = h /\ tokens' = tokens /\ h.count > 0
    BY <1>7 DEF Leaving
  <2>2. Reference' = Reference
    BY <1>2, <2>1 DEF Reference
  <2>3. Holds(request, h, Reference, h.count) /\ Guarded(tokens, h, Reference, h.count)
        /\ Short(CallsIn(Reference, h.count))
    BY <2>1 DEF Delivery, Guards
  <2>4. Closing(h) = StillOpen(h, Reference, h.count)
    BY <2>1, <2>3, ClosingAtEnd
  <2>5. Short(Closing(h))
    <3>1. CASE h.prev = "tool"
      <4> DEFINE x == h.tool
      <4>1. Len(x) <= h.toolTokens /\ ~(ToolMax > 0 /\ h.toolTokens > ToolMax)
        BY <2>3, <3>1 DEF Guarded, NoGuardTrips, ToolTooLong
      <4>2. x \in Seq(Nat) /\ h.toolTokens \in Nat /\ ToolMax \in Nat
        BY GuardsAssumption DEF Delivery, Core, Handlers
      <4> HIDE DEF x
      <4>3. Len(x) \in Nat
        BY <4>2
      <4>4. ToolMax > 0 => Len(x) <= ToolMax
        BY <4>1, <4>2, <4>3
      <4>5. Closing(h) = << x >> \/ Closing(h) = <<>>
        BY DEF Closing, x
      <4>6. Range(<< x >>) = {x} /\ Range(<<>>) = {}
        BY DEF Range
      <4> QED BY <4>4, <4>5, <4>6 DEF Short
    <3>2. CASE h.prev # "tool"
      <4>1. Closing(h) = <<>>
        BY <3>2 DEF Closing
      <4> QED BY <4>1, ShortNothing
    <3> QED BY <3>1, <3>2
  <2> QED BY <2>1, <2>2, <2>3, <2>4, <2>5 DEF Guards
<1>8. CASE Finishing
  <2>1. phase = "final" /\ tokens' = tokens /\ h' = Closed(h) /\ phase' = "done"
    BY <1>8 DEF Finishing, ChatFinish, ResponsesFinish
  <2>2. Reference' = Reference
    BY <1>2, <2>1 DEF Reference
  <2>3. h'.cut = h.cut /\ h'.count = h.count
    BY <2>1, ClosedIs DEF Delivery, Core
  <2>4. StillOpen(h', Reference, h.count) = StillOpen(h, Reference, h.count)
    BY <2>3 DEF StillOpen
  <2>5. Short(CallsIn(Reference, h.count)) /\ (h.count > 0 => Short(StillOpen(h, Reference, h.count)))
    BY <2>1 DEF Guards
  <2> QED BY <2>1, <2>2, <2>3, <2>4, <2>5 DEF Guards
<1> QED BY <1>1, <1>3, <1>4, <1>5, <1>6, <1>7, <1>8 DEF Move

(* Calls that are the same as short ones are short. *)
LEMMA SameCallsShort ==
  ASSUME NEW got \in Seq(Seq(Nat)), NEW expected \in Seq(Seq(Nat)), SameCalls(got, expected),
         Short(expected)
  PROVE  Short(got)
<1> DEFINE W == Seq(Nat)
           a == Among(got, Called)
           b == Among(expected, Called)
<1>1. Range(a) = Range(b)
  BY DEF SameCalls, Called
<1>2. got \in Seq(W) /\ expected \in Seq(W)
  OBVIOUS
<1> HIDE DEF W
<1>3. Range(a) = Range(got) \cap Called /\ Range(b) = Range(expected) \cap Called
  BY <1>2, AmongType
<1>4. Range(got) \subseteq W
  BY <1>2, ElementsOf
<1>5. \A x \in Range(got) : x = <<>> \/ x \in Range(expected)
  BY <1>1, <1>3, <1>4 DEF Called, W
<1>6. Len(<<>>) = 0 /\ ToolMax \in Nat
  BY GuardsAssumption
<1> QED BY <1>5, <1>6 DEF Short

(* The calls the client gets. *)
LEMMA CallsAre ==
  ASSUME Delivery
  PROVE  /\ Calls \in Seq(Seq(Nat))
         /\ Range(Calls) \subseteq Range(GotCalls(request, sent, h.calls))
<1> DEFINE W == Seq(Nat)
           V == request.vocab
           k == h
           d == Emptied(h)
           s == sent
           q == request
<1>1. Client(q, s) /\ k \in Handlers(V) /\ h.calls \in Seq(W)
  BY DEF Delivery, Core, Handlers
<1>2. d \in Handlers(V) /\ d.calls = <<>>
  BY <1>1, NamedChanges DEF Changed
<1>3. GotCalls(q, s, k.calls) \in Seq(W) /\ GotCalls(q, s, d.calls) \in Seq(W)
  <2> HIDE DEF d, k, V, s, q
  <2> QED BY <1>1, <1>2, GotTypes DEF W
<1>4. \A field : AllSent(field) = FlattenSeq(FieldsOf(s, field))
  BY DEF AllSent, FieldsOf
<1>5. Calls = GotCalls(q, s, k.calls)
      \/ (Calls = GotCalls(q, s, d.calls) /\ q.api # "responses")
  <2>1. Pending(h.calls) = h.calls \/ Pending(h.calls) = <<>>
    BY DEF Pending
  <2> DEFINE p == Pending(h.calls)
             e == <<>>
  <2>2. p = k.calls \/ p = d.calls
    BY <1>2, <2>1
  <2>3. Calls = IF q.api = "responses" THEN k.calls ELSE AllSent("calls") \o AllSent("rejected") \o p
    BY DEF Calls
  <2> HIDE DEF p, d, k, s, q
  <2> QED BY <1>4, <2>2, <2>3 DEF GotCalls
<1>6. q.api # "responses" => Range(GotCalls(q, s, d.calls)) \subseteq Range(GotCalls(q, s, k.calls))
  <2> SUFFICES ASSUME q.api # "responses"
               PROVE  Range(GotCalls(q, s, d.calls)) \subseteq Range(GotCalls(q, s, k.calls))
    OBVIOUS
  <2>1. s \in Seq(Chunks)
    BY <1>1 DEF Client
  <2>2. HasField(W, Chunks, "calls") /\ HasField(W, Chunks, "rejected")
    BY ChunkFields
  <2> DEFINE A == FlattenSeq(FieldsOf(s, "calls"))
             B == FlattenSeq(FieldsOf(s, "rejected"))
             AB == A \o B
             C == k.calls
  <2>3. C \in Seq(W)
    BY <1>1
  <2> HIDE DEF W, s, C
  <2>4. A \in Seq(W) /\ B \in Seq(W)
    BY <2>1, <2>2, SentMore
  <2> HIDE DEF A, B
  <2>5. AB \in Seq(W)
    BY <2>4
  <2> HIDE DEF AB
  <2>6. Range(AB \o C) = Range(AB) \cup Range(C) /\ AB \o <<>> = AB
    BY <2>3, <2>5, RangeConcatenation
  <2>7. GotCalls(q, s, d.calls) = AB \o <<>> /\ GotCalls(q, s, k.calls) = AB \o C
    BY <1>2 DEF GotCalls, AB, A, B, C
  <2> QED BY <2>6, <2>7
<1> HIDE DEF d, k, s, q
<1> QED BY <1>3, <1>5, <1>6 DEF W, k, s, q

(* It holds in the beginning. *)
LEMMA GuardsInit ==
  ASSUME Init
  PROVE  Guards
<1>1. phase = "open" /\ h = NewHandler
  BY DEF Init
<1>2. h.count = 0
  BY <1>1 DEF NewHandler
<1>3. Short(CallsIn(Reference, 0))
  BY ShortNothing
<1> QED BY <1>1, <1>2, <1>3 DEF Guards

(* The calls the client gets are within the limit. *)
LEMMA CallsShort ==
  ASSUME Delivery, Order, Guards
  PROVE  Short(Calls)
<1> DEFINE W == Seq(Nat)
           n == h.count
           ref == Reference
           y == CallsIn(ref, n)
           more == IF phase = "done" /\ ~h.cut /\ n > 0 THEN OpenCall(ref, n) ELSE <<>>
           g == GotCalls(request, sent, h.calls)
           none == <<>>
<1>1. n \in Nat /\ phase \in {"open", "loop", "final", "done"} /\ Short(y)
      /\ request \in Requests
  BY DEF Delivery, Core, MachineIs, Handlers, Guards
<1>2. y \in Seq(W) /\ CallsIn(ref, 0) = none
  <2>1. NextOf(n, n + 1) /\ NextOf(0, 1)
    BY <1>1 DEF NextOf
  <2> HIDE DEF ref, n
  <2> QED BY <2>1, CallsInNext
<1>3. Calls \in Seq(W) /\ Range(Calls) \subseteq Range(g)
  BY CallsAre
<1>4. Short(none) /\ Range(none) = {} /\ none \in Seq(W)
  BY DEF Short, Range
<1>5. CASE phase # "open" /\ (phase = "done" => n > 0)
  <2>1. SameCalls(Calls, y \o more)
    BY <1>5, DeliveryDelivers DEF DeliveredAsGenerated, AllDelivered
  <2>2. more \in Seq(W) /\ Short(more)
    <3>1. CASE more = none
      BY <1>4, <3>1
    <3>2. CASE more # none
      <4>1. phase = "done" /\ ~h.cut /\ n > 0 /\ more = OpenCall(ref, n)
        BY <3>2
      <4>2. Short(more)
        BY <4>1 DEF Guards, StillOpen
      <4> DEFINE x == CallOf(ref, n, ref[n].from)
      <4>3. x \in W
        <5>1. NextOf(n, n + 1)
          BY <1>1 DEF NextOf
        <5> QED BY <5>1, CallOfNext
      <4>4. more = << x >> \/ more = none
        BY <4>1 DEF OpenCall
      <4> HIDE DEF x, W, more, none
      <4>5. << x >> \in Seq(W)
        BY <4>3
      <4> QED BY <1>4, <4>2, <4>4, <4>5
    <3> QED BY <3>1, <3>2
  <2> HIDE DEF more, y, W
  <2> DEFINE all == y \o more
  <2>3. all \in Seq(W) /\ Range(all) = Range(y) \cup Range(more)
    BY <1>2, <2>2, RangeConcatenation
  <2>4. Short(all)
    BY <1>1, <2>2, <2>3 DEF Short
  <2> HIDE DEF all
  <2>5. SameCalls(Calls, all)
    BY <2>1 DEF all
  <2>6. all \in Seq(Seq(Nat)) /\ Calls \in Seq(Seq(Nat))
    BY <1>3, <2>3 DEF W
  <2> QED BY <2>4, <2>5, <2>6, SameCallsShort
<1>6. CASE phase = "open" \/ (phase = "done" /\ ~(n > 0))
  <2>1. n = 0
    <3>1. CASE phase = "open"
      BY <3>1 DEF Delivery, Core, NewHandler
    <3>2. CASE phase = "done"
      BY <1>1, <1>6, <3>2
    <3> QED BY <1>6, <3>1, <3>2
  <2>2. Told(request, sent, h, ref, 0)
    <3>1. CASE phase = "open"
      <4>1. h = NewHandler /\ sent = <<>>
        BY <3>1 DEF Delivery, Core
      <4> HIDE DEF ref
      <4>2. Told(request, sent, NewHandler, ref, 0)
        BY <1>1, <4>1, ToldNothing
      <4> QED BY <4>1, <4>2
    <3>2. CASE phase = "done"
      BY <2>1, <3>2 DEF Delivery
    <3> QED BY <1>6, <3>1, <3>2
  <2>3. SameCalls(g, none)
    BY <1>2, <2>2 DEF Told
  <2>4. g \in Seq(Seq(Nat))
    <3>1. Client(request, sent) /\ h \in Handlers(request.vocab)
      BY DEF Delivery, Core
    <3>2. h.calls \in Seq(Seq(Nat))
      BY <3>1 DEF Handlers
    <3> QED BY <3>1, <3>2, GotTypes
  <2> HIDE DEF g, none
  <2>5. Short(g)
    BY <1>4, <2>3, <2>4, SameCallsShort DEF W
  <2> QED BY <1>3, <2>5 DEF Short
<1> QED BY <1>1, <1>5, <1>6

(* What the invariants say of the counters is what the guards promise. *)
LEMMA GuardsGuard ==
  ASSUME Delivery, Order, Guards
  PROVE  GuardsHold
<1> DEFINE n == h.count
           ref == Reference
           a == SpanStart(ref, n)
           span == SubSeq(tokens, a, n)
           s == ref[n].state
<1>1. ASSUME phase = "loop", n > 0
      PROVE  /\ s \in {"normal", "reasoning"} => ~HasLoop(span)
             /\ s = "tool" /\ ToolMax > 0 => Len(span) <= ToolMax
             /\ s = "reasoning" /\ ReasoningMax > 0 => Len(span) <= ReasoningMax
  <2>1. Guarded(tokens, h, ref, n)
    BY <1>1 DEF Guards
  <2>2. n \in Nat \ {0} /\ n <= Len(tokens) /\ tokens \in Seq(request.vocab)
    BY <1>1 DEF Delivery, Core, MachineIs, Handlers
  <2>3. a \in 1..n
    BY <2>2, SpanStarts DEF Starts, Steady
  <2>4. Len(span) = (n - a) + 1
    <3> HIDE DEF a
    <3>1. a \in Nat /\ n \in Nat /\ 1 <= a /\ a <= n + 1 /\ n <= Len(tokens)
      BY <2>2, <2>3
    <3> QED BY <2>2, <3>1, PartOf
  <2>5. /\ h.span = IF s \in {"normal", "reasoning"} THEN [state |-> s, tokens |-> span] ELSE NoSpan
        /\ h.toolTokens = IF s = "tool" THEN n - a + 1 ELSE 0
        /\ h.reasoningTokens = IF s = "reasoning" THEN n - a + 1 ELSE 0
    BY <1>1, <2>1 DEF Guarded, Counts
  <2>6. ~HasLoop(h.span.tokens) /\ ~ToolTooLong(h) /\ ~ReasoningTooLong(h)
    BY <2>1 DEF Guarded, NoGuardTrips
  <2> DEFINE w == span
             l == Len(span)
  <2> HIDE DEF w, s, a, n, ref, span
  <2>7. ASSUME s \in {"normal", "reasoning"} PROVE ~HasLoop(span)
    <3>1. h.span.tokens = span
      BY <2>5, <2>7
    <3> QED BY <2>6, <3>1
  <2>8. ASSUME s = "tool", ToolMax > 0 PROVE l <= ToolMax
    <3>1. h.toolTokens = l /\ ~(h.toolTokens > ToolMax)
      BY <2>2, <2>3, <2>4, <2>5, <2>6, <2>8 DEF ToolTooLong
    <3>2. l \in Nat /\ ToolMax \in Nat
      BY <2>2, <2>3, <2>4, GuardsAssumption
    <3> QED BY <3>1, <3>2
  <2>9. ASSUME s = "reasoning", ReasoningMax > 0 PROVE l <= ReasoningMax
    <3>1. h.reasoningTokens = l /\ ~(h.reasoningTokens > ReasoningMax)
      BY <2>2, <2>3, <2>4, <2>5, <2>6, <2>9 DEF ReasoningTooLong
    <3>2. l \in Nat /\ ReasoningMax \in Nat
      BY <2>2, <2>3, <2>4, GuardsAssumption
    <3> QED BY <3>1, <3>2
  <2> QED BY <2>7, <2>8, <2>9
<1>2. Short(Calls)
  BY CallsShort
<1> QED BY <1>1, <1>2 DEF GuardsHold, Short

(* GuardsHold of every request, whatever its control sequences and the limits:  *)
(* the counters of the handler are the length of the span of tokens since the    *)
(* last change of state, so no span it reads on from is a loop or too long, and   *)
(* a tool call holds no more texts than tokens were counted for it.               *)
THEOREM GuardsAlwaysHold ==
  ASSUME NothingHeld
  PROVE  Spec => []GuardsHold
<1> DEFINE Inv == Delivery /\ Order /\ Guards
<1>1. Init => Inv
  <2>1. Init => Order
    <3>1. ASSUME Init PROVE Order
      <4>1. sent = <<>> /\ phase = "open" /\ h = NewHandler
        BY <3>1 DEF Init
      <4> QED BY <4>1, OrderNothing DEF Order
    <3> QED BY <3>1
  <2> QED BY <2>1, DeliveryInit, GuardsInit
<1>2. Inv /\ [Next]_vars => Inv'
  BY DeliveryStep, OrderStep, GuardsStep
<1>3. Inv => GuardsHold
  BY GuardsGuard
<1> HIDE DEF Inv
<1> QED BY <1>1, <1>2, <1>3, PTL DEF Spec

----------------------------------------
(* The events of a stream *)

DeltaEvents == {Event(t, 0, 0, x) : t \in {"text.delta", "reasoning.delta"}, x \in Seq(Nat)}

TextDeltas == {x \in DeltaEvents : x.type = "text.delta"}

(* What the deltas say. *)
Said(d) == FlattenSeq(FieldsOf(Among(d, TextDeltas), "text"))

(* What they say with one more. *)
LEMMA SaidMore ==
  ASSUME NEW d \in Seq(DeltaEvents), NEW x \in Seq(Nat)
  PROVE  /\ Said(d) \in Seq(Nat) /\ Said(<<>>) = <<>>
         /\ Append(d, TextDelta(x)) \in Seq(DeltaEvents)
         /\ Said(Append(d, TextDelta(x))) = Said(d) \o x
         /\ Append(d, Event("reasoning.delta", 0, 0, x)) \in Seq(DeltaEvents)
         /\ Said(Append(d, Event("reasoning.delta", 0, 0, x))) = Said(d)
<1> DEFINE E == DeltaEvents
           T == TextDeltas
           y == TextDelta(x)
           z == Event("reasoning.delta", 0, 0, x)
           a == Among(d, T)
<1>1. y \in E /\ y.type = "text.delta" /\ z \in E /\ z.type = "reasoning.delta" /\ y["text"] = x
  BY DEF DeltaEvents, TextDelta, Event
<1>2. y \in T /\ z \notin T /\ T \subseteq E
  BY <1>1 DEF TextDeltas
<1>3. HasField(Nat, T, "text")
  BY DEF HasField, TextDeltas, DeltaEvents, Event
<1> HIDE DEF E, T, y, z
<1>4. d \in Seq(E)
  BY DEF E
<1>5. Append(d, y) \in Seq(E) /\ Append(d, z) \in Seq(E)
  BY <1>1, <1>4
<1>6. Among(Append(d, y), T) = Append(a, y) /\ Among(Append(d, z), T) = a
  BY <1>1, <1>2, <1>4, AmongAppend
<1>7. a \in Seq(T)
  <2>1. a \in Seq(E \cap T) /\ E \cap T = T
    BY <1>2, <1>4, AmongType
  <2> QED BY <2>1
<1> HIDE DEF a
<1>8. /\ FlattenSeq(FieldsOf(a, "text")) \in Seq(Nat)
      /\ FlattenSeq(FieldsOf(Append(a, y), "text")) = FlattenSeq(FieldsOf(a, "text")) \o y["text"]
      /\ FlattenSeq(FieldsOf(<<>>, "text")) = <<>>
  BY <1>2, <1>3, <1>7, SentMore
<1>9. Among(<<>>, T) = <<>>
  BY AmongNone
<1> QED BY <1>1, <1>5, <1>6, <1>8, <1>9 DEF Said, E, T, y, z, a

Joined(R, s, t, u) ==
  /\ u \in Seq(R) /\ Len(u) = Len(s) + Len(t)
  /\ \A i \in 1..Len(s) : u[i] = s[i]
  /\ \A i \in 1..Len(t) : u[Len(s) + i] = t[i]

(* What stands where in two sequences put together. *)
LEMMA JoinItem ==
  ASSUME NEW R, NEW s \in Seq(R), NEW t \in Seq(R), NEW u, u = s \o t
  PROVE  Joined(R, s, t, u)
<1> DEFINE m == Len(s)
           n == Len(t)
<1>1. m \in Nat /\ n \in Nat
  OBVIOUS
<1>2. u \in Seq(R) /\ Len(u) = m + n /\ \A i \in 1..m + n : u[i] = IF i <= m THEN s[i] ELSE t[i - m]
  BY ConcatProperties
<1> HIDE DEF m, n
<1>3. ASSUME NEW i \in 1..m PROVE u[i] = s[i]
  <2>1. i \in 1..m + n /\ i <= m
    BY <1>1
  <2> QED BY <1>2, <2>1
<1>4. ASSUME NEW i \in 1..n PROVE u[m + i] = t[i]
  <2> DEFINE j == m + i
  <2>1. j \in 1..m + n /\ ~(j <= m) /\ j - m = i
    BY <1>1
  <2> HIDE DEF j
  <2>2. u[j] = IF j <= m THEN s[j] ELSE t[j - m]
    BY <1>2, <2>1
  <2> QED BY <2>1, <2>2 DEF j
<1> QED BY <1>2, <1>3, <1>4 DEF m, n, Joined

(* Sequences of four, one behind the other. *)
LEMMA Fours ==
  ASSUME NEW E, NEW ss \in Seq({b \in Seq(E) : Len(b) = 4})
  PROVE  /\ FlattenSeq(ss) \in Seq(E) /\ Len(FlattenSeq(ss)) = 4 * Len(ss)
         /\ \A k \in 1..Len(ss) : \A j \in 1..4 : FlattenSeq(ss)[4 * (k - 1) + j] = ss[k][j]
<1> DEFINE R == {b \in Seq(E) : Len(b) = 4}
           Good(bs) == /\ Len(FlattenSeq(bs)) = 4 * Len(bs)
                       /\ \A k \in 1..Len(bs) : \A j \in 1..4 :
                            FlattenSeq(bs)[4 * (k - 1) + j] = bs[k][j]
           P == {bs \in Seq(R) : Good(bs)}
<1>0. \A bs \in Seq(R) : bs \in Seq(Seq(E))
  <2>1. R \subseteq Seq(E)
    OBVIOUS
  <2> QED BY <2>1
<1>1. <<>> \in P
  <2> DEFINE e == <<>>
  <2>1. FlattenSeq(e) = <<>> /\ Len(e) = 0 /\ e \in Seq(R)
    BY FlattenProperties
  <2>2. 1..Len(e) = {} /\ Len(FlattenSeq(e)) = 4 * Len(e)
    BY <2>1
  <2> HIDE DEF e
  <2>3. Good(e)
    BY <2>2
  <2> QED BY <2>1, <2>3 DEF e
<1>2. ASSUME NEW bs \in Seq(R), bs \in P, NEW b \in R PROVE Append(bs, b) \in P
  <2> DEFINE cs == Append(bs, b)
             f == FlattenSeq(bs)
             g == FlattenSeq(cs)
             n == Len(bs)
  <2>1. cs \in Seq(R) /\ Len(cs) = n + 1 /\ n \in Nat /\ cs[n + 1] = b
        /\ \A k \in 1..n : cs[k] = bs[k]
    <3> HIDE DEF R, P
    <3> QED BY <1>2, AppendItem
  <2>2. b \in Seq(E) /\ Len(b) = 4 /\ bs \in Seq(Seq(E))
    BY <1>0
  <2>3. f \in Seq(E) /\ g = f \o b
    <3> HIDE DEF R, P
    <3> QED BY <2>2, FlattenProperties
  <2>4. Len(f) = 4 * n /\ \A k \in 1..n : \A j \in 1..4 : f[4 * (k - 1) + j] = bs[k][j]
    BY <1>2
  <2> HIDE DEF R, P, cs, f, g, n
  <2>5. Len(g) = 4 * (n + 1) /\ (\A i \in 1..4 * n : g[i] = f[i]) /\ \A j \in 1..4 : g[4 * n + j] = b[j]
    <3>1. Joined(E, f, b, g)
      BY <2>2, <2>3, JoinItem
    <3> QED BY <2>1, <2>2, <2>4, <3>1 DEF Joined
  <2>6. ASSUME NEW k \in 1..n + 1, NEW j \in 1..4 PROVE g[4 * (k - 1) + j] = cs[k][j]
    <3>1. CASE k = n + 1
      <4>1. k - 1 = n
        BY <2>1, <3>1
      <4> QED BY <2>1, <2>5, <3>1, <4>1
    <3>2. CASE k # n + 1
      <4>1. k \in 1..n /\ 4 * (k - 1) + j \in 1..4 * n
        BY <2>1, <3>2
      <4> DEFINE i == 4 * (k - 1) + j
      <4>2. i \in 1..4 * n /\ f[i] = bs[k][j]
        BY <2>4, <4>1
      <4> HIDE DEF i
      <4>3. g[i] = f[i] /\ cs[k] = bs[k]
        BY <2>1, <2>5, <4>1, <4>2
      <4>4. g[i] = cs[k][j]
        BY <4>2, <4>3
      <4> QED BY <4>4 DEF i
    <3> QED BY <3>1, <3>2
  <2>7. Len(g) = 4 * Len(cs) /\ \A k \in 1..Len(cs) : \A j \in 1..4 : g[4 * (k - 1) + j] = cs[k][j]
    BY <2>1, <2>5, <2>6
  <2> QED BY <2>1, <2>7 DEF P, g, cs
<1> HIDE DEF P
<1>3. ss \in P
  <2> HIDE DEF R
  <2>1. Seq(R) \subseteq P
    BY <1>1, <1>2, SequenceInduction
  <2> QED BY <2>1 DEF R
<1> QED BY <1>0, <1>3, FlattenProperties DEF P

(* What stands where in the events at the end. *)
EndingAt(e, text, calls, items, place, c) ==
  /\ Len(e) = 4 * c + 4
  /\ e[1] = Event("text.done", 0, 0, text) /\ e[2] = Event("part.done", 0, 0, text)
  /\ e[3] = Event("item.done", 0, 0, text)
  /\ \A k \in 1..c : /\ e[4 * k] = Event("item.added", k, place + k - 1, <<>>)
                     /\ e[4 * k + 1] = Event("arguments.delta", k, place + k - 1, calls[k])
                     /\ e[4 * k + 2] = Event("arguments.done", k, place + k - 1, calls[k])
                     /\ e[4 * k + 3] = Event("item.done", k, place + k - 1, calls[k])
  /\ e[4 * c + 4] = [type |-> "completed", items |-> items]

(* The ending is three events, four for each call, and the last. *)
LEMMA EndingIs ==
  ASSUME NEW text, NEW calls \in Seq(Seq(Nat)), NEW items
  PROVE  /\ EndingAt(Ending(text, calls, items), text, calls, items, Cardinality(items \cap {0}), Len(calls))
         /\ \E S : Ending(text, calls, items) \in Seq(S)
<1> DEFINE p == Cardinality(items \cap {0})
           c == Len(calls)
           B(k) == CallEvents(k, p + k - 1, calls[k])
           ss == [k \in 1..c |-> B(k)]
           a1 == Event("text.done", 0, 0, text)
           a2 == Event("part.done", 0, 0, text)
           a3 == Event("item.done", 0, 0, text)
           a == << a1, a2, a3 >>
           z == [type |-> "completed", items |-> items]
           E == {B(k)[j] : k \in 1..c, j \in 1..4}
           R == {b \in Seq(E) : Len(b) = 4}
           f == FlattenSeq(ss)
<1>1. c \in Nat /\ DOMAIN calls = 1..c
  OBVIOUS
<1>2. Ending(text, calls, items) = a \o f \o << z >>
  BY <1>1 DEF Ending
<1>3. ASSUME NEW k \in 1..c
      PROVE  /\ B(k) \in R
             /\ B(k)[1] = Event("item.added", k, p + k - 1, <<>>)
             /\ B(k)[2] = Event("arguments.delta", k, p + k - 1, calls[k])
             /\ B(k)[3] = Event("arguments.done", k, p + k - 1, calls[k])
             /\ B(k)[4] = Event("item.done", k, p + k - 1, calls[k])
  <2> DEFINE e1 == Event("item.added", k, p + k - 1, <<>>)
             e2 == Event("arguments.delta", k, p + k - 1, calls[k])
             e3 == Event("arguments.done", k, p + k - 1, calls[k])
             e4 == Event("item.done", k, p + k - 1, calls[k])
             b == B(k)
  <2>1. b[1] \in E /\ b[2] \in E /\ b[3] \in E /\ b[4] \in E
    <3>1. ASSUME NEW j \in 1..4 PROVE B(k)[j] \in E
      <4> HIDE DEF B, c
      <4> QED OBVIOUS
    <3> HIDE DEF B, E
    <3> QED BY <3>1
  <2>2. b = << e1, e2, e3, e4 >>
    BY DEF CallEvents
  <2> HIDE DEF e1, e2, e3, e4, E, b
  <2>3. b[1] = e1 /\ b[2] = e2 /\ b[3] = e3 /\ b[4] = e4
    BY <2>2
  <2>4. b \in Seq(E) /\ Len(b) = 4
    BY <2>1, <2>2, <2>3
  <2>5. b \in R
    BY <2>4
  <2> QED BY <2>3, <2>5 DEF e1, e2, e3, e4, b
<1>4. ss \in Seq(R) /\ Len(ss) = c /\ \A k \in 1..c : ss[k] = B(k)
  <2> HIDE DEF R, B, c
  <2>1. \A k \in 1..c : B(k) \in R
    BY <1>3
  <2> QED BY <1>1, <2>1
<1> HIDE DEF ss, E, B
<1>5. f \in Seq(E) /\ Len(f) = 4 * c /\ \A k \in 1..c : \A j \in 1..4 : f[4 * (k - 1) + j] = B(k)[j]
  <2>1. /\ f \in Seq(E) /\ Len(f) = 4 * Len(ss)
        /\ \A k \in 1..Len(ss) : \A j \in 1..4 : f[4 * (k - 1) + j] = ss[k][j]
    BY <1>4, Fours
  <2> HIDE DEF f
  <2> QED BY <1>4, <2>1
<1> DEFINE S == E \cup {a1, a2, a3, z}
<1> HIDE DEF a1, a2, a3, z, f
<1>6. a \in Seq(S) /\ Len(a) = 3 /\ << z >> \in Seq(S) /\ f \in Seq(S)
  <2>1. f \in Seq(S)
    <3>1. E \subseteq S
      OBVIOUS
    <3> HIDE DEF S
    <3> QED BY <1>5, <3>1
  <2>2. a1 \in S /\ a2 \in S /\ a3 \in S /\ z \in S
    OBVIOUS
  <2> HIDE DEF S
  <2> QED BY <2>1, <2>2
<1> DEFINE af == a \o f
           o == << z >>
           e == af \o o
<1>7. a[1] = a1 /\ a[2] = a2 /\ a[3] = a3 /\ o[1] = z /\ Len(o) = 1 /\ o \in Seq(S)
  BY <1>6
<1> HIDE DEF S, a, o
<1>8. af \in Seq(S) /\ Len(af) = 4 * c + 3 /\ (\A i \in 1..3 : af[i] = a[i])
      /\ \A i \in 1..4 * c : af[3 + i] = f[i]
  <2>1. af = a \o f
    OBVIOUS
  <2> HIDE DEF af
  <2>2. Joined(S, a, f, af)
    BY <1>6, <2>1, JoinItem
  <2> QED BY <1>1, <1>5, <1>6, <2>2 DEF Joined
<1> HIDE DEF af
<1>9. e \in Seq(S) /\ Len(e) = 4 * c + 4 /\ (\A i \in 1..4 * c + 3 : e[i] = af[i]) /\ e[4 * c + 4] = z
  <2>1. e = af \o o
    OBVIOUS
  <2> HIDE DEF e
  <2>2. Joined(S, af, o, e)
    BY <1>7, <1>8, <2>1, JoinItem
  <2>3. e[Len(af) + 1] = z /\ 4 * c + 3 + 1 = 4 * c + 4
    BY <1>1, <1>7, <2>2 DEF Joined
  <2>4. e \in Seq(S) /\ Len(e) = 4 * c + 3 + 1 /\ \A i \in 1..4 * c + 3 : e[i] = af[i]
    BY <1>1, <1>7, <1>8, <2>2 DEF Joined
  <2> QED BY <1>8, <2>3, <2>4
<1> HIDE DEF e, c, p
<1>10. ASSUME NEW k \in 1..c, NEW j \in 1..4 PROVE e[4 * k + j - 1] = B(k)[j]
  <2> DEFINE i == 4 * (k - 1) + j
  <2>1. i \in 1..4 * c /\ 3 + i \in 1..4 * c + 3 /\ 3 + i = 4 * k + j - 1
    BY <1>1
  <2>2. f[i] = B(k)[j]
    BY <1>5
  <2> HIDE DEF i
  <2>3. e[3 + i] = af[3 + i] /\ af[3 + i] = f[i]
    BY <1>8, <1>9, <2>1
  <2> QED BY <2>1, <2>2, <2>3
<1>11. ASSUME NEW k \in 1..c
       PROVE  /\ e[4 * k] = B(k)[1] /\ e[4 * k + 1] = B(k)[2]
              /\ e[4 * k + 2] = B(k)[3] /\ e[4 * k + 3] = B(k)[4]
  <2>1. /\ e[4 * k + 1 - 1] = B(k)[1] /\ e[4 * k + 2 - 1] = B(k)[2]
        /\ e[4 * k + 3 - 1] = B(k)[3] /\ e[4 * k + 4 - 1] = B(k)[4]
    BY <1>10
  <2>2. 4 * k + 1 - 1 = 4 * k /\ 4 * k + 2 - 1 = 4 * k + 1
        /\ 4 * k + 3 - 1 = 4 * k + 2 /\ 4 * k + 4 - 1 = 4 * k + 3
    BY <1>1
  <2> QED BY <2>1, <2>2
<1>12. e[1] = a1 /\ e[2] = a2 /\ e[3] = a3
  <2>1. 1 \in 1..4 * c + 3 /\ 2 \in 1..4 * c + 3 /\ 3 \in 1..4 * c + 3
    BY <1>1
  <2> QED BY <1>7, <1>8, <1>9, <2>1
<1>13. Ending(text, calls, items) = e
  BY <1>2 DEF e, af, o
<1>14. EndingAt(e, text, calls, items, p, c)
  BY <1>3, <1>9, <1>11, <1>12 DEF EndingAt, z, a1, a2, a3
<1> QED BY <1>9, <1>13, <1>14 DEF c, p

----------------------------------------
(* Where the events of an item are *)

(* In a stream with b events up to the last delta, item 0 is opened by the      *)
(* second, the k-th call by the fourth behind the call before it.               *)
Adds(b, x) == IF x = 0 THEN 2 ELSE b + 4 * x

Dones(b, x) == IF x = 0 THEN b + 3 ELSE b + 4 * x + 3

IndexOf(p, x) == IF x = 0 THEN 0 ELSE p + x - 1

OfItem(s, k, b, p, x) ==
  /\ s[k].item = x /\ s[k].index = IndexOf(p, x)
  /\ \/ s[k].type = "item.added" /\ k = Adds(b, x)
     \/ s[k].type = "item.done" /\ k = Dones(b, x)
     \/ s[k].type \in ItemEvents \ {"item.done"} /\ Adds(b, x) < k /\ k < Dones(b, x)

Placed(s, k, b, c, p) ==
  \/ s[k].type = "created"
  \/ s[k].type = "completed" /\ k = b + 4 * c + 4 /\ s[k].items \subseteq 0..c
  \/ \E x \in 0..c : OfItem(s, k, b, p, x)

AddedAt(s, b, p, x) ==
  Adds(b, x) <= Len(s) => /\ s[Adds(b, x)].type = "item.added" /\ s[Adds(b, x)].item = x
                          /\ s[Adds(b, x)].index = IndexOf(p, x)

DoneAt(s, b, x) ==
  Dones(b, x) <= Len(s) => s[Dones(b, x)].type = "item.done" /\ s[Dones(b, x)].item = x

Located(s, b, c, p) ==
  /\ b \in Nat /\ b >= 3 /\ c \in Nat
  /\ Len(s) \in Nat /\ DOMAIN s = 1..Len(s) /\ Len(s) <= b + 4 * c + 4
  /\ \A k \in 1..Len(s) : Placed(s, k, b, c, p)
  /\ \A x \in 0..c : AddedAt(s, b, p, x) /\ DoneAt(s, b, x)

EventIs(s, k, type, item) == s[k].type = type /\ s[k].item = item

(* EventsWellFormed without what the final text is. *)
Nested(s) ==
  \A k \in DOMAIN s :
    IF s[k].type = "completed"
    THEN /\ k = Len(s)
         /\ \A j \in 1..k - 1 : s[j].type = "item.added" =>
              \E d \in j..k : EventIs(s, d, "item.done", s[j].item)
         /\ \A item \in s[k].items : \E d \in 1..k - 1 : EventIs(s, d, "item.done", item)
    ELSE /\ s[k].type \in ItemEvents =>
              /\ \E j \in 1..k - 1 : /\ EventIs(s, j, "item.added", s[k].item)
                                     /\ s[j].index = s[k].index
              /\ ~\E j \in 1..k - 1 : EventIs(s, j, "item.done", s[k].item)
         /\ s[k].type = "item.added" =>
              ~\E j \in 1..k - 1 : EventIs(s, j, "item.added", s[k].item)

(* Events that are in their places nest. *)
LEMMA LocatedNest ==
  ASSUME NEW s, NEW b, NEW c, NEW p, Located(s, b, c, p)
  PROVE  Nested(s)
<1> DEFINE n == Len(s)
<1>1. b \in Nat /\ b >= 3 /\ c \in Nat /\ n \in Nat /\ DOMAIN s = 1..n /\ n <= b + 4 * c + 4
  BY DEF Located
<1>2. \A x \in 0..c : /\ Adds(b, x) \in Nat /\ Dones(b, x) \in Nat /\ 1 <= Adds(b, x)
                      /\ Adds(b, x) < Dones(b, x) /\ Dones(b, x) < b + 4 * c + 4
  BY <1>1 DEF Adds, Dones
<1> HIDE DEF n
<1>3. ASSUME NEW k \in 1..n, s[k].type \in ItemEvents \cup {"item.added"}
      PROVE  \E x \in 0..c : OfItem(s, k, b, p, x)
  <2>1. Placed(s, k, b, c, p)
    BY DEF Located, n
  <2>2. s[k].type # "created" /\ s[k].type # "completed"
    BY <1>3 DEF ItemEvents
  <2> QED BY <2>1, <2>2 DEF Placed
<1>4. ASSUME NEW k \in 1..n, s[k].type = "item.added"
      PROVE  /\ s[k].item \in 0..c /\ k = Adds(b, s[k].item)
             /\ s[k].index = IndexOf(p, s[k].item)
  <2>1. PICK x \in 0..c : OfItem(s, k, b, p, x)
    BY <1>3, <1>4
  <2> QED BY <1>4, <2>1 DEF OfItem, ItemEvents
<1>5. ASSUME NEW k \in 1..n, s[k].type = "item.done"
      PROVE  s[k].item \in 0..c /\ k = Dones(b, s[k].item)
  <2>1. PICK x \in 0..c : OfItem(s, k, b, p, x)
    BY <1>3, <1>5 DEF ItemEvents
  <2> QED BY <1>5, <2>1 DEF OfItem
<1>6. ASSUME NEW x \in 0..c, Dones(b, x) <= n PROVE EventIs(s, Dones(b, x), "item.done", x)
  <2>1. DoneAt(s, b, x)
    BY DEF Located
  <2> QED BY <1>6, <2>1 DEF DoneAt, EventIs, n
<1>7. ASSUME NEW x \in 0..c, Adds(b, x) <= n
      PROVE  EventIs(s, Adds(b, x), "item.added", x) /\ s[Adds(b, x)].index = IndexOf(p, x)
  <2>1. AddedAt(s, b, p, x)
    BY DEF Located
  <2> QED BY <1>7, <2>1 DEF AddedAt, EventIs, n
<1>8. ASSUME NEW k \in 1..n, s[k].type = "completed"
      PROVE  /\ k = n
             /\ \A j \in 1..k - 1 : s[j].type = "item.added" =>
                  \E d \in j..k : EventIs(s, d, "item.done", s[j].item)
             /\ \A item \in s[k].items : \E d \in 1..k - 1 : EventIs(s, d, "item.done", item)
  <2>1. k = b + 4 * c + 4 /\ s[k].items \subseteq 0..c
    <3>1. Placed(s, k, b, c, p)
      BY DEF Located, n
    <3>2. s[k].type # "created" /\ s[k].type # "item.added" /\ s[k].type # "item.done"
          /\ s[k].type \notin ItemEvents
      BY <1>8 DEF ItemEvents
    <3> QED BY <3>1, <3>2 DEF Placed, OfItem
  <2>2. k = n
    BY <1>1, <2>1
  <2>3. ASSUME NEW j \in 1..k - 1, s[j].type = "item.added"
        PROVE  \E d \in j..k : EventIs(s, d, "item.done", s[j].item)
    <3> DEFINE x == s[j].item
               d == Dones(b, x)
    <3>1. j \in 1..n
      BY <1>1, <2>2
    <3>2. x \in 0..c /\ j = Adds(b, x)
      BY <1>4, <2>3, <3>1
    <3> HIDE DEF x
    <3>3. d \in j..k /\ d <= n
      BY <1>1, <1>2, <2>1, <2>2, <3>2
    <3>4. EventIs(s, d, "item.done", x)
      BY <1>6, <3>2, <3>3
    <3> HIDE DEF d
    <3> QED BY <3>3, <3>4 DEF x
  <2>4. ASSUME NEW item \in s[k].items PROVE \E d \in 1..k - 1 : EventIs(s, d, "item.done", item)
    <3> DEFINE d == Dones(b, item)
    <3>1. item \in 0..c
      BY <2>1
    <3>2. d \in 1..k - 1 /\ d <= n
      BY <1>1, <1>2, <2>1, <2>2, <3>1
    <3>3. EventIs(s, d, "item.done", item)
      BY <1>6, <3>1, <3>2
    <3> HIDE DEF d
    <3> QED BY <3>2, <3>3
  <2> QED BY <2>2, <2>3, <2>4
<1>9. ASSUME NEW k \in 1..n, s[k].type \in ItemEvents
      PROVE  /\ \E j \in 1..k - 1 : /\ EventIs(s, j, "item.added", s[k].item)
                                    /\ s[j].index = s[k].index
             /\ ~\E j \in 1..k - 1 : EventIs(s, j, "item.done", s[k].item)
  <2>1. PICK x \in 0..c : OfItem(s, k, b, p, x)
    BY <1>3, <1>9
  <2>2. s[k].item = x /\ s[k].index = IndexOf(p, x) /\ s[k].type # "item.added"
    BY <1>9, <2>1 DEF OfItem, ItemEvents
  <2> DEFINE a == Adds(b, x)
             z == Dones(b, x)
  <2>3. a < k /\ k <= z /\ a \in Nat /\ 1 <= a /\ z \in Nat
    BY <1>2, <2>1, <2>2 DEF OfItem
  <2> HIDE DEF a, z
  <2>4. a \in 1..k - 1 /\ a <= n
    BY <1>1, <2>3
  <2>5. EventIs(s, a, "item.added", x) /\ s[a].index = IndexOf(p, x)
    BY <1>7, <2>4 DEF a
  <2>6. ASSUME NEW j \in 1..k - 1, EventIs(s, j, "item.done", x) PROVE FALSE
    <3>1. j \in 1..n
      BY <1>1
    <3>2. s[j].type = "item.done" /\ s[j].item = x
      BY <2>6 DEF EventIs
    <3>3. j = z
      BY <1>5, <3>1, <3>2 DEF z
    <3> QED BY <2>3, <3>3
  <2> QED BY <2>2, <2>4, <2>5, <2>6
<1>10. ASSUME NEW k \in 1..n, s[k].type = "item.added"
       PROVE  ~\E j \in 1..k - 1 : EventIs(s, j, "item.added", s[k].item)
  <2>1. SUFFICES ASSUME NEW j \in 1..k - 1, EventIs(s, j, "item.added", s[k].item) PROVE FALSE
    OBVIOUS
  <2>2. j \in 1..n /\ j # k
    BY <1>1
  <2>3. s[j].type = "item.added" /\ s[j].item = s[k].item
    BY <2>1 DEF EventIs
  <2>4. k = Adds(b, s[k].item) /\ j = Adds(b, s[j].item)
    BY <1>4, <1>10, <2>2, <2>3
  <2> QED BY <2>2, <2>3, <2>4
<1> QED BY <1>1, <1>8, <1>9, <1>10 DEF Nested, n

(* What stands where in a stream that is cut off somewhere: the opening, the    *)
(* deltas up to b, the ending.                                                  *)
Streams(s, b, c, e) ==
  /\ b \in Nat /\ b >= 3 /\ c \in Nat
  /\ Len(s) \in Nat /\ DOMAIN s = 1..Len(s) /\ Len(s) <= b + (4 * c + 4)
  /\ \A k \in 1..3 : k <= Len(s) => s[k] = Opening[k]
  /\ \A k \in 4..b : k <= Len(s) => s[k] \in DeltaEvents
  /\ \A i \in 1..4 * c + 4 : b + i <= Len(s) => s[b + i] = e[i]

(* Every event of a stream is in its place. *)
LEMMA StreamPlaced ==
  ASSUME NEW s, NEW b, NEW c, NEW e, NEW text, NEW calls, NEW items, NEW p,
         Streams(s, b, c, e), EndingAt(e, text, calls, items, p, c), items \subseteq 0..c,
         NEW k \in 1..Len(s)
  PROVE  Placed(s, k, b, c, p)
<1> DEFINE n == Len(s)
<1>1. b \in Nat /\ b >= 3 /\ c \in Nat /\ n \in Nat /\ n <= b + (4 * c + 4) /\ 0 \in 0..c
  BY DEF Streams
<1>2. Adds(b, 0) = 2 /\ Dones(b, 0) = b + 3 /\ IndexOf(p, 0) = 0
  BY DEF Adds, Dones, IndexOf
<1> HIDE DEF n
<1>3. CASE k \in 1..3
  <2>1. s[k] = Opening[k]
    BY <1>3 DEF Streams
  <2>2. CASE k = 1
    BY <2>1, <2>2 DEF Opening, Event, Placed
  <2>3. CASE k = 2
    <3>1. s[k].type = "item.added" /\ s[k].item = 0 /\ s[k].index = 0
      BY <2>1, <2>3 DEF Opening, Event
    <3>2. OfItem(s, k, b, p, 0)
      BY <1>2, <2>3, <3>1 DEF OfItem
    <3> QED BY <1>1, <3>2 DEF Placed
  <2>4. CASE k = 3
    <3>1. s[k].type = "part.added" /\ s[k].item = 0 /\ s[k].index = 0
      BY <2>1, <2>4 DEF Opening, Event
    <3>2. 2 < k /\ k < b + 3
      BY <1>1, <2>4
    <3>3. OfItem(s, k, b, p, 0)
      BY <1>2, <3>1, <3>2 DEF OfItem, ItemEvents
    <3> QED BY <1>1, <3>3 DEF Placed
  <2> QED BY <1>3, <2>2, <2>3, <2>4
<1>4. CASE k \in 4..b
  <2>1. s[k] \in DeltaEvents
    BY <1>4 DEF Streams
  <2>2. s[k].type \in {"text.delta", "reasoning.delta"} /\ s[k].item = 0 /\ s[k].index = 0
    BY <2>1 DEF DeltaEvents, Event
  <2>3. 2 < k /\ k < b + 3
    BY <1>1, <1>4
  <2>4. s[k].type \in ItemEvents \ {"item.done"}
    BY <2>2 DEF ItemEvents
  <2>5. OfItem(s, k, b, p, 0)
    BY <1>2, <2>2, <2>3, <2>4 DEF OfItem
  <2> QED BY <1>1, <2>5 DEF Placed
<1>5. CASE k > b
  <2>1. PICK i \in 1..4 * c + 4 : k = b + i
    <3>1. k - b \in 1..4 * c + 4 /\ k = b + (k - b)
      BY <1>1, <1>5 DEF n
    <3> QED BY <3>1
  <2>2. s[k] = e[i]
    BY <2>1 DEF Streams
  <2>3. CASE i \in 1..3
    <3>1. /\ s[k].type = IF i = 1 THEN "text.done" ELSE IF i = 2 THEN "part.done" ELSE "item.done"
          /\ s[k].item = 0 /\ s[k].index = 0
      <4>1. /\ e[1] = Event("text.done", 0, 0, text) /\ e[2] = Event("part.done", 0, 0, text)
            /\ e[3] = Event("item.done", 0, 0, text)
        BY DEF EndingAt
      <4> QED BY <2>2, <2>3, <4>1 DEF Event
    <3>2. 2 < k /\ (i # 3 => k < b + 3) /\ (i = 3 => k = b + 3)
      BY <1>1, <2>1, <2>3
    <3>3. OfItem(s, k, b, p, 0)
      BY <1>2, <2>3, <3>1, <3>2 DEF OfItem, ItemEvents
    <3> QED BY <1>1, <3>3 DEF Placed
  <2>4. CASE i \in 4..4 * c + 3
    <3> DEFINE m == i \div 4
               r == i % 4
    <3>1. m \in 1..c /\ r \in 0..3 /\ i = 4 * m + r
      BY <1>1, <2>4
    <3> HIDE DEF m, r
    <3>2. /\ s[k].type = (IF r = 0 THEN "item.added" ELSE IF r = 1 THEN "arguments.delta"
                          ELSE IF r = 2 THEN "arguments.done" ELSE "item.done")
          /\ s[k].item = m /\ s[k].index = p + m - 1
      <4>1. /\ e[4 * m] = Event("item.added", m, p + m - 1, <<>>)
            /\ e[4 * m + 1] = Event("arguments.delta", m, p + m - 1, calls[m])
            /\ e[4 * m + 2] = Event("arguments.done", m, p + m - 1, calls[m])
            /\ e[4 * m + 3] = Event("item.done", m, p + m - 1, calls[m])
        BY <3>1 DEF EndingAt
      <4>2. CASE r = 0
        <5>1. i = 4 * m
          BY <1>1, <3>1, <4>2
        <5> QED BY <2>2, <4>1, <4>2, <5>1 DEF Event
      <4>3. CASE r = 1
        BY <2>2, <3>1, <4>1, <4>3 DEF Event
      <4>4. CASE r = 2
        BY <2>2, <3>1, <4>1, <4>4 DEF Event
      <4>5. CASE r = 3
        BY <2>2, <3>1, <4>1, <4>5 DEF Event
      <4> QED BY <3>1, <4>2, <4>3, <4>4, <4>5
    <3>3. m \in 0..c /\ m # 0 /\ (r = 0 => k = b + 4 * m) /\ (r # 0 => b + 4 * m < k)
          /\ (r = 3 => k = b + 4 * m + 3) /\ (r # 3 => k < b + 4 * m + 3)
      BY <1>1, <2>1, <3>1
    <3>4. Adds(b, m) = b + 4 * m /\ Dones(b, m) = b + 4 * m + 3 /\ IndexOf(p, m) = p + m - 1
      BY <3>3 DEF Adds, Dones, IndexOf
    <3>5. OfItem(s, k, b, p, m)
      <4>1. s[k].item = m /\ s[k].index = IndexOf(p, m)
        BY <3>2, <3>4
      <4>2. CASE r = 0
        BY <3>2, <3>3, <3>4, <4>1, <4>2 DEF OfItem
      <4>3. CASE r = 3
        BY <3>2, <3>3, <3>4, <4>1, <4>3 DEF OfItem
      <4>4. CASE r \in {1, 2}
        <5>1. s[k].type \in ItemEvents \ {"item.done"}
          BY <3>2, <4>4 DEF ItemEvents
        <5> QED BY <3>3, <3>4, <4>1, <4>4, <5>1 DEF OfItem
      <4> QED BY <3>1, <4>2, <4>3, <4>4
    <3> QED BY <3>3, <3>5 DEF Placed
  <2>5. CASE i = 4 * c + 4
    <3>1. s[k] = [type |-> "completed", items |-> items]
      BY <2>2, <2>5 DEF EndingAt
    <3>2. k = b + 4 * c + 4
      BY <1>1, <2>1, <2>5
    <3> QED BY <3>1, <3>2 DEF Placed
  <2> QED BY <1>1, <2>1, <2>3, <2>4, <2>5
<1> QED BY <1>1, <1>3, <1>4, <1>5 DEF n

(* Such a stream nests. *)
LEMMA StreamNests ==
  ASSUME NEW s, NEW b, NEW c, NEW e, NEW text, NEW calls, NEW items, NEW p,
         Streams(s, b, c, e), EndingAt(e, text, calls, items, p, c), items \subseteq 0..c
  PROVE  Nested(s)
<1> DEFINE n == Len(s)
<1>1. b \in Nat /\ b >= 3 /\ c \in Nat /\ n \in Nat /\ DOMAIN s = 1..n /\ n <= b + (4 * c + 4)
  BY DEF Streams
<1>2. \A k \in 1..n : Placed(s, k, b, c, p)
  BY StreamPlaced
<1> HIDE DEF n
<1>3. ASSUME NEW x \in 0..c PROVE AddedAt(s, b, p, x)
  <2>1. CASE x = 0
    <3>1. Adds(b, x) = 2 /\ IndexOf(p, x) = 0 /\ 2 \in 1..3
      BY <2>1 DEF Adds, IndexOf
    <3>2. 2 <= n => s[2] = Opening[2]
      BY <3>1 DEF Streams, n
    <3> QED BY <2>1, <3>1, <3>2 DEF AddedAt, Opening, Event, n
  <2>2. CASE x # 0
    <3> DEFINE i == 4 * x
    <3>1. x \in 1..c /\ i \in 1..4 * c + 4 /\ Adds(b, x) = b + i /\ IndexOf(p, x) = p + x - 1
      BY <1>1, <2>2 DEF Adds, IndexOf
    <3>2. e[i] = Event("item.added", x, p + x - 1, <<>>)
      BY <3>1 DEF EndingAt
    <3> HIDE DEF i
    <3>3. b + i <= n => s[b + i] = e[i]
      BY <3>1 DEF Streams, n
    <3> QED BY <3>1, <3>2, <3>3 DEF AddedAt, Event, n
  <2> QED BY <2>1, <2>2
<1>4. ASSUME NEW x \in 0..c PROVE DoneAt(s, b, x)
  <2>1. CASE x = 0
    <3>1. Dones(b, x) = b + 3 /\ 3 \in 1..4 * c + 4
      BY <1>1, <2>1 DEF Dones
    <3>2. b + 3 <= n => s[b + 3] = e[3]
      BY <3>1 DEF Streams, n
    <3>3. e[3] = Event("item.done", 0, 0, text)
      BY DEF EndingAt
    <3> QED BY <2>1, <3>1, <3>2, <3>3 DEF DoneAt, Event, n
  <2>2. CASE x # 0
    <3> DEFINE i == 4 * x + 3
    <3>1. x \in 1..c /\ i \in 1..4 * c + 4 /\ Dones(b, x) = b + i
      BY <1>1, <2>2 DEF Dones
    <3>2. e[i] = Event("item.done", x, p + x - 1, calls[x])
      BY <3>1 DEF EndingAt
    <3> HIDE DEF i
    <3>3. b + i <= n => s[b + i] = e[i]
      BY <3>1 DEF Streams, n
    <3> QED BY <3>1, <3>2, <3>3 DEF DoneAt, Event, n
  <2> QED BY <2>1, <2>2
<1>5. n <= b + 4 * c + 4
  BY <1>1
<1>6. Located(s, b, c, p)
  BY <1>1, <1>2, <1>3, <1>4, <1>5 DEF Located, n
<1> QED BY <1>6, LocatedNest

(* There is no delta in the ending, and its first event only closes the text. *)
LEMMA EndingTypes ==
  ASSUME NEW e, NEW text, NEW calls, NEW items, NEW p, NEW c \in Nat,
         EndingAt(e, text, calls, items, p, c), NEW i \in 1..4 * c + 4
  PROVE  /\ e[i].type # "text.delta" /\ (i # 1 => e[i].type # "text.done")
         /\ i # 4 * c + 4 => e[i].type # "completed"
<1>1. CASE i \in 1..3
  <2>1. /\ e[1] = Event("text.done", 0, 0, text) /\ e[2] = Event("part.done", 0, 0, text)
        /\ e[3] = Event("item.done", 0, 0, text)
    BY DEF EndingAt
  <2> QED BY <1>1, <2>1 DEF Event
<1>2. CASE i \in 4..4 * c + 3
  <2> DEFINE m == i \div 4
             r == i % 4
  <2>1. m \in 1..c /\ r \in 0..3 /\ i = 4 * m + r
    BY <1>2
  <2> HIDE DEF m, r
  <2>2. /\ e[4 * m] = Event("item.added", m, p + m - 1, <<>>)
        /\ e[4 * m + 1] = Event("arguments.delta", m, p + m - 1, calls[m])
        /\ e[4 * m + 2] = Event("arguments.done", m, p + m - 1, calls[m])
        /\ e[4 * m + 3] = Event("item.done", m, p + m - 1, calls[m])
    BY <2>1 DEF EndingAt
  <2>3. /\ e[4 * m].type = "item.added" /\ e[4 * m + 1].type = "arguments.delta"
        /\ e[4 * m + 2].type = "arguments.done" /\ e[4 * m + 3].type = "item.done"
    BY <2>2 DEF Event
  <2>4. i = 4 * m \/ i = 4 * m + 1 \/ i = 4 * m + 2 \/ i = 4 * m + 3
    BY <2>1
  <2> QED BY <2>3, <2>4
<1>3. CASE i = 4 * c + 4
  BY <1>3 DEF EndingAt
<1> QED BY <1>1, <1>2, <1>3

(* A stream that has come to its ending. *)
Finale(s, d, e, n) == s = (Opening \o d) \o SubSeq(e, 1, n)

Endings(e, d, n, S, c) == /\ d \in Seq(DeltaEvents) /\ c \in Nat /\ e \in Seq(S) /\ Len(e) = 4 * c + 4
                          /\ n \in 0..4 * c + 4

Pieces(s, d, e, n, U, o, f) ==
  /\ o = Opening \o d /\ f = SubSeq(e, 1, n) /\ s = o \o f
  /\ Opening \in Seq(U) /\ Len(Opening) = 3 /\ d \in Seq(U)
  /\ f \in Seq(U) /\ Len(f) = n /\ \A i \in 1..n : f[i] = e[i]

(* Its pieces. *)
LEMMA FinalePieces ==
  ASSUME NEW s, NEW d, NEW e, NEW n, NEW S, NEW c, Endings(e, d, n, S, c), Finale(s, d, e, n)
  PROVE  \E U, o, f : Pieces(s, d, e, n, U, o, f)
<1> DEFINE o == Opening \o d
           f == SubSeq(e, 1, n)
           a1 == Opening[1]
           a2 == Opening[2]
           a3 == Opening[3]
           U == DeltaEvents \cup S \cup {a1, a2, a3}
           D == DeltaEvents
<1>1. d \in Seq(D) /\ e \in Seq(S) /\ Len(e) = 4 * c + 4 /\ n \in Nat /\ n <= Len(e)
  BY DEF Endings
<1>2. Opening = << a1, a2, a3 >>
  BY DEF Opening
<1>3. s = o \o f
  BY DEF Finale
<1> HIDE DEF a1, a2, a3, D
<1>4. D \subseteq U /\ S \subseteq U /\ a1 \in U /\ a2 \in U /\ a3 \in U
  BY DEF D
<1> HIDE DEF U
<1>5. Opening \in Seq(U) /\ Len(Opening) = 3
  BY <1>2, <1>4
<1>6. d \in Seq(U) /\ e \in Seq(U)
  BY <1>1, <1>4
<1>7. f \in Seq(U) /\ Len(f) = n /\ \A i \in 1..n : f[i] = e[i]
  <2>1. 1 \in Nat /\ 1 <= 1 /\ 1 <= n + 1 /\ (n - 1) + 1 = n /\ \A i \in 1..n : 1 + i - 1 = i
    BY <1>1
  <2>2. /\ f \in Seq(U) /\ Len(f) = (n - 1) + 1 /\ \A i \in 1..(n - 1) + 1 : f[i] = e[1 + i - 1]
    BY <1>1, <1>6, <2>1, PartOf
  <2> HIDE DEF f
  <2> QED BY <2>1, <2>2
<1> HIDE DEF f
<1>8. Pieces(s, d, e, n, U, o, f)
  BY <1>3, <1>5, <1>6, <1>7 DEF Pieces, f
<1> HIDE DEF o
<1> QED BY <1>8

(* It is a stream. *)
LEMMA FinaleStreams ==
  ASSUME NEW s, NEW d, NEW e, NEW n, NEW S, NEW c, Endings(e, d, n, S, c), Finale(s, d, e, n)
  PROVE  Streams(s, 3 + Len(d), c, e)
<1>1. PICK U, o, f : Pieces(s, d, e, n, U, o, f)
  BY FinalePieces
<1>2. /\ o = Opening \o d /\ s = o \o f /\ Opening \in Seq(U) /\ Len(Opening) = 3 /\ d \in Seq(U)
      /\ f \in Seq(U) /\ Len(f) = n /\ \A i \in 1..n : f[i] = e[i]
  BY <1>1 DEF Pieces
<1>3. Joined(U, Opening, d, o)
  BY <1>2, JoinItem
<1>4. o \in Seq(U)
  BY <1>3 DEF Joined
<1>5. Joined(U, o, f, s)
  BY <1>2, <1>4, JoinItem
<1> DEFINE m == Len(d)
           b == 3 + m
           op == Opening
<1>6. m \in Nat /\ n \in Nat /\ n <= 4 * c + 4 /\ c \in Nat /\ \A i \in 1..m : d[i] \in DeltaEvents
  BY DEF Endings
<1>7. Len(o) = b /\ (\A i \in 1..3 : o[i] = op[i]) /\ \A i \in 1..m : o[3 + i] = d[i]
  BY <1>2, <1>3 DEF Joined
<1>8. s \in Seq(U) /\ Len(s) = b + n /\ (\A i \in 1..b : s[i] = o[i]) /\ \A i \in 1..n : s[b + i] = f[i]
  BY <1>2, <1>5, <1>7 DEF Joined
<1> HIDE DEF op, m
<1>9. ASSUME NEW k \in 1..3 PROVE s[k] = op[k]
  <2>1. k \in 1..b
    BY <1>6
  <2> QED BY <1>7, <1>8, <2>1
<1>10. ASSUME NEW k \in 4..b PROVE s[k] \in DeltaEvents
  <2>1. k \in 1..b /\ k - 3 \in 1..m /\ 3 + (k - 3) = k
    BY <1>6
  <2>2. o[3 + (k - 3)] = d[k - 3]
    BY <1>7, <2>1
  <2> QED BY <1>6, <1>8, <2>1, <2>2
<1>11. ASSUME NEW i \in 1..4 * c + 4, b + i <= Len(s) PROVE s[b + i] = e[i]
  <2>1. i \in 1..n
    BY <1>6, <1>8, <1>11
  <2> QED BY <1>2, <1>8, <2>1
<1>12. b \in Nat /\ b >= 3 /\ Len(s) \in Nat /\ DOMAIN s = 1..Len(s) /\ Len(s) <= b + (4 * c + 4)
  BY <1>6, <1>8
<1> HIDE DEF b
<1>13. Streams(s, b, c, e)
  BY <1>6, <1>9, <1>10, <1>11, <1>12 DEF Streams, op
<1> QED BY <1>13 DEF b, m

----------------------------------------
(* What the final text is *)

DeltasIn(s) == {e \in Range(s) : e.type = "text.delta"}

SaidIn(s) == FlattenSeq(FieldsOf(Among(s, DeltasIn(s)), "text"))

(* The positions whose tokens may be missing at the end of the final text. *)
Droppable == Written(request.blank \cup request.leaked)

(* FinalOf, where only positions of D are missing. *)
Fits(text, said, D) ==
  \/ IsPrefix(said, text) /\ Len(text) <= Len(said) + 1
  \/ IsPrefix(text, said) /\ \A i \in Len(text) + 1..Len(said) : said[i] \in D

(* What EventsWellFormed says of the final text. *)
TextFits(s, D) ==
  \A k \in DOMAIN s : s[k].type = "text.done" =>
    Fits(s[k].text, SaidIn(s), D) \/ (s[k].text = <<>> /\ ReadAsCall(s))

(* The text is what was said, with one more token at most. *)
AtMostOneMore(text, said) == \E x \in Seq(Nat) : Len(x) <= 1 /\ text = said \o x

(* What the ending holds, behind what was said. *)
Concludes(text, items, said, D) ==
  Fits(text, said, D) \/ (text = <<>> /\ \E item \in items : item > 0)

(* None of a sequence is in a set. *)
LEMMA NoneAmong ==
  ASSUME NEW R, NEW s \in Seq(R), NEW S, Range(s) \cap S = {}
  PROVE  Among(s, S) = <<>>
<1> DEFINE a == Among(s, S)
<1>1. a \in Seq(R) /\ Range(a) = {}
  BY AmongType
<1> HIDE DEF a
<1>2. DOMAIN a = {}
  BY <1>1 DEF Range
<1>3. Len(a) = 0
  BY <1>1, <1>2
<1>4. a = <<>>
  BY <1>1, <1>3
<1> QED BY <1>4 DEF a

(* The events before and behind the deltas do not say anything. *)
LEMMA FinaleSays ==
  ASSUME NEW s, NEW d, NEW e, NEW n, NEW S, NEW c, Endings(e, d, n, S, c), Finale(s, d, e, n),
         NEW text, NEW calls, NEW items, NEW p, EndingAt(e, text, calls, items, p, c)
  PROVE  SaidIn(s) = Said(d)
<1> DEFINE T == DeltasIn(s)
           op == Opening
<1>1. PICK U, o, f : Pieces(s, d, e, n, U, o, f)
  BY FinalePieces
<1>2. /\ o = op \o d /\ s = o \o f /\ op \in Seq(U) /\ Len(op) = 3 /\ d \in Seq(U)
      /\ f \in Seq(U) /\ Len(f) = n /\ \A i \in 1..n : f[i] = e[i]
  BY <1>1 DEF Pieces
<1>3. d \in Seq(DeltaEvents) /\ c \in Nat /\ n \in 0..4 * c + 4
  BY DEF Endings
<1>4. Range(op) \cap T = {}
  <2>1. ASSUME NEW i \in 1..3 PROVE op[i].type # "text.delta"
    BY DEF Opening, Event
  <2>2. DOMAIN op = 1..3
    BY <1>2
  <2> HIDE DEF op
  <2> QED BY <2>1, <2>2 DEF Range, DeltasIn
<1> HIDE DEF op, T
<1>5. o \in Seq(U)
  BY <1>2
<1>6. Among(s, T) = (Among(op, T) \o Among(d, T)) \o Among(f, T)
  <2>1. f \in Seq(U) /\ op \in Seq(U) /\ d \in Seq(U)
    BY <1>2
  <2>2. Among(o \o f, T) = Among(o, T) \o Among(f, T)
    BY <1>5, <2>1, AmongConcat
  <2>3. Among(op \o d, T) = Among(op, T) \o Among(d, T)
    BY <2>1, AmongConcat
  <2> QED BY <1>2, <2>2, <2>3
<1>7. Among(op, T) = <<>>
  BY <1>2, <1>4, NoneAmong
<1>8. Range(f) \cap T = {}
  <2>1. ASSUME NEW i \in 1..n PROVE f[i].type # "text.delta"
    <3>1. i \in 1..4 * c + 4
      BY <1>3
    <3>2. e[i].type # "text.delta"
      BY <1>3, <3>1, EndingTypes
    <3> QED BY <1>2, <3>2
  <2>2. DOMAIN f = 1..n
    BY <1>2
  <2> QED BY <2>1, <2>2 DEF Range, DeltasIn, T
<1>9. Among(f, T) = <<>>
  BY <1>2, <1>8, NoneAmong
<1>10. Among(d, T) = Among(d, TextDeltas)
  <2>1. Range(d) \subseteq Range(s)
    <3>1. Range(op \o d) = Range(op) \cup Range(d) /\ Range(o \o f) = Range(o) \cup Range(f)
      BY <1>2, <1>5, RangeConcatenation
    <3> QED BY <1>2, <3>1
  <2>2. Range(d) \subseteq DeltaEvents
    BY <1>3 DEF Range
  <2>3. \A x \in Range(d) : x \in T <=> x \in TextDeltas
    BY <2>1, <2>2 DEF T, DeltasIn, TextDeltas
  <2> QED BY <1>3, <2>3, AmongAgree
<1>11. Among(d, TextDeltas) \in Seq(DeltaEvents)
  BY <1>3, AmongType
<1> DEFINE a == Among(d, TextDeltas)
<1>12. Among(s, T) = (<<>> \o a) \o <<>>
  BY <1>6, <1>7, <1>9, <1>10
<1>13. a \in Seq(DeltaEvents)
  BY <1>11
<1> HIDE DEF a
<1>14. Among(s, T) = a
  BY <1>12, <1>13
<1> QED BY <1>14 DEF SaidIn, Said, T, a

(* The final text fits. *)
LEMMA FinaleFits ==
  ASSUME NEW s, NEW d, NEW e, NEW n, NEW S, NEW c, Endings(e, d, n, S, c), Finale(s, d, e, n),
         NEW text, NEW calls, NEW items, NEW p, EndingAt(e, text, calls, items, p, c),
         NEW D, Concludes(text, items, Said(d), D)
  PROVE  TextFits(s, D)
<1> DEFINE b == 3 + Len(d)
           said == Said(d)
<1>1. Streams(s, b, c, e)
  BY FinaleStreams
<1>2. d \in Seq(DeltaEvents) /\ c \in Nat
  BY DEF Endings
<1>3. SaidIn(s) = said
  BY FinaleSays
<1> HIDE DEF b, said
<1>4. ASSUME NEW k \in 1..Len(s), s[k].type = "text.done" PROVE s[k].text = text
  <2>1. b \in Nat /\ b >= 3 /\ Len(s) \in Nat /\ Len(s) <= b + (4 * c + 4)
    BY <1>1 DEF Streams
  <2>2. CASE k \in 1..3
    <3>1. s[k] = Opening[k]
      BY <1>1, <2>2 DEF Streams
    <3> QED BY <1>4, <2>2, <3>1 DEF Opening, Event
  <2>3. CASE k \in 4..b
    <3>1. s[k] \in DeltaEvents
      BY <1>1, <2>3 DEF Streams
    <3> QED BY <1>4, <3>1 DEF DeltaEvents, Event
  <2>4. CASE k > b
    <3> DEFINE i == k - b
    <3>1. i \in 1..4 * c + 4 /\ b + i = k
      BY <1>2, <2>1, <2>4
    <3> HIDE DEF i
    <3>2. s[k] = e[i]
      <4>1. b + i <= Len(s)
        BY <3>1
      <4>2. s[b + i] = e[i]
        BY <1>1, <3>1, <4>1 DEF Streams
      <4> QED BY <3>1, <4>2
    <3>3. i = 1
      BY <1>2, <1>4, <3>1, <3>2, EndingTypes
    <3>4. e[1] = Event("text.done", 0, 0, text)
      BY DEF EndingAt
    <3> QED BY <3>2, <3>3, <3>4 DEF Event
  <2> QED BY <2>1, <2>2, <2>3, <2>4
<1>5. ASSUME NEW k \in 1..Len(s), s[k].type = "completed" PROVE s[k].items = items
  <2>1. b \in Nat /\ b >= 3 /\ Len(s) \in Nat /\ Len(s) <= b + (4 * c + 4)
    BY <1>1 DEF Streams
  <2>2. CASE k \in 1..3
    <3>1. s[k] = Opening[k]
      BY <1>1, <2>2 DEF Streams
    <3> QED BY <1>5, <2>2, <3>1 DEF Opening, Event
  <2>3. CASE k \in 4..b
    <3>1. s[k] \in DeltaEvents
      BY <1>1, <2>3 DEF Streams
    <3> QED BY <1>5, <3>1 DEF DeltaEvents, Event
  <2>4. CASE k > b
    <3> DEFINE i == k - b
    <3>1. i \in 1..4 * c + 4 /\ b + i = k
      BY <1>2, <2>1, <2>4
    <3> HIDE DEF i
    <3>2. s[k] = e[i]
      <4>1. b + i <= Len(s)
        BY <3>1
      <4>2. s[b + i] = e[i]
        BY <1>1, <3>1, <4>1 DEF Streams
      <4> QED BY <3>1, <4>2
    <3>3. i = 4 * c + 4
      BY <1>2, <1>5, <3>1, <3>2, EndingTypes
    <3>4. e[4 * c + 4] = [type |-> "completed", items |-> items]
      BY DEF EndingAt
    <3> QED BY <3>2, <3>3, <3>4
  <2> QED BY <2>1, <2>2, <2>3, <2>4
<1>6. DOMAIN s = 1..Len(s)
  BY <1>1 DEF Streams
<1>7. (\E item \in items : item > 0) => ReadAsCall(s)
  BY <1>5, <1>6 DEF ReadAsCall
<1> QED BY <1>3, <1>4, <1>6, <1>7 DEF TextFits, Concludes, said

----------------------------------------
(* Streams that are well-formed *)

Formed(s, D) == Nested(s) /\ TextFits(s, D)

(* What EventsWellFormed says is said of the events sent. *)
LEMMA FormedEvents ==
  ASSUME Formed(sent, Droppable)
  PROVE  EventsWellFormed
<1>1. ASSUME NEW k \in DOMAIN sent, sent[k].type = "completed"
      PROVE  /\ k = Len(sent)
             /\ \A j \in 1..k - 1 : sent[j].type = "item.added" =>
                  \E d \in j..k : Is(d, "item.done", sent[j].item)
             /\ \A item \in sent[k].items : \E d \in 1..k - 1 : Is(d, "item.done", item)
  BY <1>1 DEF Formed, Nested, EventIs, Is
<1>2. ASSUME NEW k \in DOMAIN sent, sent[k].type # "completed"
      PROVE  /\ sent[k].type \in ItemEvents =>
                  /\ \E j \in 1..k - 1 : /\ Is(j, "item.added", sent[k].item)
                                         /\ sent[j].index = sent[k].index
                  /\ ~\E j \in 1..k - 1 : Is(j, "item.done", sent[k].item)
             /\ sent[k].type = "item.added" =>
                  ~\E j \in 1..k - 1 : Is(j, "item.added", sent[k].item)
  BY <1>2 DEF Formed, Nested, EventIs, Is
<1>3. TextOf(Deltas("text.delta")) = SaidIn(sent)
  BY DEF TextOf, Deltas, SaidIn, DeltasIn, FieldsOf
<1>4. ASSUME NEW k \in DOMAIN sent, sent[k].type = "text.done"
      PROVE  \/ FinalOf(sent[k].text, TextOf(Deltas("text.delta")))
             \/ sent[k].text = <<>> /\ ReadAsCall(sent)
  BY <1>3, <1>4 DEF Formed, TextFits, Fits, FinalOf, Droppable
<1> QED BY <1>1, <1>2, <1>4 DEF EventsWellFormed

(* A stream that has come to its ending is well-formed. *)
LEMMA FinaleFormed ==
  ASSUME NEW s, NEW d \in Seq(DeltaEvents), NEW text, NEW calls \in Seq(Seq(Nat)),
         NEW items \in SUBSET (0..Len(calls)),
         NEW n \in 0..Len(Ending(text, calls, items)), Finale(s, d, Ending(text, calls, items), n),
         NEW D, Concludes(text, items, Said(d), D)
  PROVE  Formed(s, D)
<1> DEFINE e == Ending(text, calls, items)
           c == Len(calls)
           p == Cardinality(items \cap {0})
<1>1. EndingAt(e, text, calls, items, p, c) /\ \E S : e \in Seq(S)
  BY EndingIs
<1>2. PICK S : e \in Seq(S)
  BY <1>1
<1>3. c \in Nat /\ items \subseteq 0..c /\ n \in 0..Len(e) /\ Finale(s, d, e, n)
  OBVIOUS
<1> HIDE DEF e, c, p
<1>4. Len(e) = 4 * c + 4
  BY <1>1 DEF EndingAt
<1>5. Endings(e, d, n, S, c)
  BY <1>2, <1>3, <1>4 DEF Endings
<1>6. Streams(s, 3 + Len(d), c, e)
  BY <1>3, <1>5, FinaleStreams
<1>7. Nested(s)
  BY <1>1, <1>3, <1>6, StreamNests
<1>8. TextFits(s, D)
  BY <1>1, <1>3, <1>5, FinaleFits
<1> QED BY <1>7, <1>8 DEF Formed

(* So is one whose deltas still come. *)
LEMMA DeltasFormed ==
  ASSUME NEW s, NEW d \in Seq(DeltaEvents), s = Opening \o d, NEW D
  PROVE  Formed(s, D)
<1> DEFINE none == <<>>
           items == {}
           said == Said(d)
           e == Ending(said, none, items)
<1>1. none \in Seq(Seq(Nat)) /\ Len(none) = 0 /\ items \in SUBSET (0..Len(none))
  OBVIOUS
<1>2. \E S : e \in Seq(S)
  <2> HIDE DEF none, items
  <2> QED BY <1>1, EndingIs
<1>3. PICK S : e \in Seq(S)
  BY <1>2
<1> HIDE DEF e, items, said
<1>4. 0 \in 0..Len(e) /\ SubSeq(e, 1, 0) = <<>>
  BY <1>3
<1>5. PICK R : s \in Seq(R)
  <2> DEFINE a1 == Opening[1]
             a2 == Opening[2]
             a3 == Opening[3]
             E == DeltaEvents
             R == E \cup {a1, a2, a3}
             op == Opening
  <2>1. op = << a1, a2, a3 >>
    BY DEF Opening
  <2>2. d \in Seq(E) /\ E \subseteq R /\ a1 \in R /\ a2 \in R /\ a3 \in R
    OBVIOUS
  <2> HIDE DEF E, R, op, a1, a2, a3
  <2>3. op \in Seq(R) /\ d \in Seq(R)
    BY <2>1, <2>2
  <2>4. s \in Seq(R)
    <3>1. op \o d \in Seq(R)
      BY <2>3
    <3> QED BY <3>1 DEF op
  <2> QED BY <2>4
<1>6. s \o <<>> = s
  BY <1>5
<1>7. Finale(s, d, e, 0)
  BY <1>4, <1>6 DEF Finale
<1> HIDE DEF none
<1>9. 0 \in 0..Len(Ending(said, none, items)) /\ Finale(s, d, Ending(said, none, items), 0)
  BY <1>4, <1>7 DEF e
<1>10. items \in SUBSET (0..Len(none)) /\ none \in Seq(Seq(Nat))
  BY <1>1
<1>11. Concludes(said, items, Said(d), D)
  <2>1. said \in Seq(Nat)
    <3>1. << >> \in Seq(Nat)
      OBVIOUS
    <3> QED BY <3>1, SaidMore DEF said
  <2>2. SubSeq(said, 1, Len(said)) = said /\ Len(said) \in Nat
    BY <2>1
  <2>3. IsPrefix(said, said)
    BY <2>2 DEF IsPrefix
  <2> QED BY <2>2, <2>3 DEF Concludes, Fits, said
<1> QED BY <1>9, <1>10, <1>11, FinaleFormed

(* And one that breaks off at once. *)
LEMMA OpeningFormed ==
  ASSUME NEW s, NEW n \in 0..3, s = SubSeq(Opening, 1, n), NEW D
  PROVE  Formed(s, D)
<1> DEFINE none == <<>>
           items == {}
           e == Ending(none, none, items)
           p == Cardinality(items \cap {0})
           op == Opening
<1>1. none \in Seq(Seq(Nat)) /\ Len(none) = 0 /\ items \subseteq 0..0
  OBVIOUS
<1>2. EndingAt(e, none, none, items, p, 0)
  <2> HIDE DEF none, items
  <2> QED BY <1>1, EndingIs
<1> HIDE DEF e, p, items, none
<1>3. Len(s) = n /\ DOMAIN s = 1..n /\ \A i \in 1..n : s[i] = op[i]
  BY DEF Opening
<1> HIDE DEF op
<1>4. Streams(s, 3, 0, e)
  <2>1. Len(s) \in Nat /\ DOMAIN s = 1..Len(s) /\ Len(s) <= 3 + (4 * 0 + 4)
    BY <1>3
  <2>2. \A k \in 1..3 : k <= Len(s) => s[k] = op[k]
    BY <1>3
  <2>3. 4..3 = {}
    OBVIOUS
  <2>4. \A i \in 1..4 * 0 + 4 : ~(3 + i <= Len(s))
    BY <1>3
  <2>5. \A k \in 1..3 : k <= Len(s) => s[k] = Opening[k]
    BY <2>2 DEF op
  <2> QED BY <2>1, <2>3, <2>4, <2>5 DEF Streams
<1>5. Nested(s)
  BY <1>1, <1>2, <1>4, StreamNests
<1>6. TextFits(s, D)
  <2>1. \A i \in 1..3 : op[i].type # "text.done"
    BY DEF Opening, Event, op
  <2>2. \A k \in DOMAIN s : s[k].type # "text.done"
    BY <1>3, <2>1
  <2> QED BY <2>2 DEF TextFits
<1> QED BY <1>5, <1>6 DEF Formed

----------------------------------------
(* A stream on its way *)

(* The deltas sent say the text. *)
Speaking(s, text) == \E d \in Seq(DeltaEvents) : s = Opening \o d /\ text = Said(d)

(* They say all of it but one token, as far as the client is still there. *)
Spoken(s, text, there) ==
  \E d \in Seq(DeltaEvents) : s = Opening \o d /\ (there => AtMostOneMore(text, Said(d)))

Streamed ==
  request.api = "responses" /\ request.stream =>
    /\ phase = "loop" => Speaking(sent, h.text)
    /\ phase = "final" => Spoken(sent, h.text, connected)
    /\ phase = "open" => sent = <<>>
    /\ phase = "done" => Formed(sent, Droppable)

(* What is sent, and said, with one event more. *)
LEMMA SpeakingMore ==
  ASSUME NEW s, NEW text, Speaking(s, text), NEW x \in Seq(Nat)
  PROVE  /\ Speaking(Append(s, TextDelta(x)), text \o x)
         /\ Speaking(Append(s, Event("reasoning.delta", 0, 0, x)), text)
         /\ Len(x) <= 1 => \A there : Spoken(s, text \o x, there)
         /\ \A other : Spoken(s, other, FALSE)
<1> DEFINE E == DeltaEvents
           op == Opening
           y == TextDelta(x)
           z == Event("reasoning.delta", 0, 0, x)
<1>1. PICK d \in Seq(E) : s = op \o d /\ text = Said(d)
  BY DEF Speaking
<1>2. /\ Said(d) \in Seq(Nat)
      /\ Append(d, y) \in Seq(E) /\ Said(Append(d, y)) = Said(d) \o x
      /\ Append(d, z) \in Seq(E) /\ Said(Append(d, z)) = Said(d)
  BY SaidMore
<1>3. \A v \in E : Append(s, v) = op \o Append(d, v)
  <2> DEFINE a1 == op[1]
             a2 == op[2]
             a3 == op[3]
             R == E \cup {a1, a2, a3}
  <2>1. op = << a1, a2, a3 >>
    BY DEF Opening
  <2>2. E \subseteq R /\ a1 \in R /\ a2 \in R /\ a3 \in R
    OBVIOUS
  <2> HIDE DEF E, R, op, a1, a2, a3
  <2>3. op \in Seq(R) /\ d \in Seq(R)
    BY <2>1, <2>2
  <2>4. ASSUME NEW v \in R PROVE Append(op \o d, v) = op \o Append(d, v)
    <3>1. << v >> \in Seq(R) /\ op \o d \in Seq(R)
      BY <2>3
    <3>2. Append(d, v) = d \o << v >>
      BY <2>3, AppendIsConcat
    <3>3. Append(op \o d, v) = (op \o d) \o << v >>
      BY <3>1, AppendIsConcat
    <3>4. (op \o d) \o << v >> = op \o (d \o << v >>)
      BY <2>3, <3>1, ConcatAssociative
    <3> QED BY <3>2, <3>3, <3>4
  <2> QED BY <1>1, <2>2, <2>4
<1>4. y \in E /\ z \in E
  BY DEF DeltaEvents, TextDelta, Event
<1> HIDE DEF E, y, z, op
<1>5. Append(s, y) = op \o Append(d, y) /\ Append(s, z) = op \o Append(d, z)
  BY <1>3, <1>4
<1>6. Speaking(Append(s, y), text \o x)
  BY <1>1, <1>2, <1>5 DEF Speaking, E, op
<1>7. Speaking(Append(s, z), text)
  BY <1>1, <1>2, <1>5 DEF Speaking, E, op
<1>8. ASSUME Len(x) <= 1 PROVE \A there : Spoken(s, text \o x, there)
  <2>1. AtMostOneMore(text \o x, Said(d))
    BY <1>1, <1>8 DEF AtMostOneMore
  <2> QED BY <1>1, <2>1 DEF Spoken, E, op
<1>9. \A other : Spoken(s, other, FALSE)
  BY <1>1 DEF Spoken, E, op
<1> QED BY <1>1, <1>2, <1>6, <1>7, <1>8, <1>9 DEF y, z

(* The opening says nothing. *)
LEMMA SpeakingBegins ==
  Speaking(Opening, <<>>) /\ Len(Opening) = 3
<1> DEFINE E == DeltaEvents
           op == Opening
           none == <<>>
<1>1. op \o none = op /\ Len(op) = 3
  BY DEF Opening
<1>2. none \in Seq(E) /\ none \in Seq(Nat)
  OBVIOUS
<1> HIDE DEF none, E, op
<1>3. Said(none) = none
  BY <1>2, SaidMore DEF none, E
<1>4. Speaking(op, none)
  BY <1>1, <1>2, <1>3 DEF Speaking, E, op
<1> QED BY <1>1, <1>4 DEF op, none

(* A text without some positions of D at its end. *)
Shortened(final, text, D) ==
  \E n \in 0..Len(text) : /\ final = SubSeq(text, 1, n)
                          /\ \A i \in n + 1..Len(text) : text[i] \in D

(* What the handler makes the final text. *)
FinalText(final, text, items, D) ==
  Shortened(final, text, D) \/ (final = <<>> /\ \E item \in items : item > 0)

(* Such a text fits to what was said of the whole. *)
LEMMA ShortenedFits ==
  ASSUME NEW said \in Seq(Nat), NEW text, NEW final, NEW D,
         AtMostOneMore(text, said), Shortened(final, text, D)
  PROVE  Fits(final, said, D)
<1>1. PICK x \in Seq(Nat) : Len(x) <= 1 /\ text = said \o x
  BY DEF AtMostOneMore
<1>2. /\ text \in Seq(Nat) /\ Len(text) = Len(said) + Len(x)
      /\ \A i \in 1..Len(said) : text[i] = said[i]
  BY <1>1, JoinItem DEF Joined
<1>3. PICK n \in 0..Len(text) : /\ final = SubSeq(text, 1, n)
                                /\ \A i \in n + 1..Len(text) : text[i] \in D
  BY DEF Shortened
<1>4. Len(said) \in Nat /\ Len(x) \in Nat /\ Len(x) <= 1 /\ Len(text) \in Nat /\ n \in Nat
  <2>1. Len(text) \in Nat
    BY <1>2
  <2> QED BY <1>1, <1>3, <2>1
<1>5. Len(final) = n /\ final \in Seq(Nat) /\ \A i \in 1..n : final[i] = text[i]
  BY <1>2, <1>3
<1>6. CASE n <= Len(said)
  <2>1. SubSeq(final, 1, n) = SubSeq(said, 1, n)
    <3>1. ASSUME NEW i \in 1..n PROVE final[i] = said[i]
      <4>1. i \in 1..Len(said)
        BY <1>4, <1>6
      <4>2. text[i] = said[i]
        BY <1>2, <4>1
      <4> QED BY <1>5, <4>2
    <3> QED BY <1>4, <1>5, <1>6, <3>1
  <2>2. IsPrefix(final, said)
    BY <1>5, <1>6, <2>1 DEF IsPrefix
  <2>3. \A i \in Len(final) + 1..Len(said) : said[i] \in D
    BY <1>2, <1>3, <1>4, <1>5, <1>6
  <2> QED BY <2>2, <2>3 DEF Fits
<1>7. CASE n > Len(said)
  <2>1. n <= Len(said) + 1
    BY <1>2, <1>3, <1>4, SMTT(30)
  <2>2. SubSeq(final, 1, Len(said)) = SubSeq(said, 1, Len(said))
    BY <1>2, <1>4, <1>5, <1>7
  <2>3. IsPrefix(said, final)
    BY <1>4, <1>5, <1>7, <2>2 DEF IsPrefix
  <2> QED BY <1>5, <2>1, <2>3 DEF Fits
<1> QED BY <1>4, <1>6, <1>7

(* What is spoken is well-formed, with the ending or without it. *)
LEMMA SpokenFormed ==
  ASSUME NEW s, NEW text, NEW there, Spoken(s, text, there), NEW D
  PROVE  /\ Formed(s, D)
         /\ there => \A final \in Seq(Nat), calls \in Seq(Seq(Nat)) :
              \A items \in SUBSET (0..Len(calls)) :
                FinalText(final, text, items, D) =>
                  \A n \in 0..Len(Ending(final, calls, items)) :
                    Formed(s \o SubSeq(Ending(final, calls, items), 1, n), D)
<1>1. PICK d \in Seq(DeltaEvents) : s = Opening \o d /\ (there => AtMostOneMore(text, Said(d)))
  BY DEF Spoken
<1>2. Formed(s, D)
  BY <1>1, DeltasFormed
<1>3. ASSUME there, NEW final \in Seq(Nat), NEW calls \in Seq(Seq(Nat)),
             NEW items \in SUBSET (0..Len(calls)),
             FinalText(final, text, items, D),
             NEW n \in 0..Len(Ending(final, calls, items))
      PROVE  Formed(s \o SubSeq(Ending(final, calls, items), 1, n), D)
  <2> DEFINE t == s \o SubSeq(Ending(final, calls, items), 1, n)
  <2>1. Concludes(final, items, Said(d), D)
    <3>1. << >> \in Seq(Nat)
      OBVIOUS
    <3>2. Said(d) \in Seq(Nat)
      BY <3>1, SaidMore
    <3>3. Shortened(final, text, D) => Fits(final, Said(d), D)
      BY <1>1, <1>3, <3>2, ShortenedFits
    <3> QED BY <1>3, <3>3 DEF Concludes, FinalText
  <2>2. Finale(t, d, Ending(final, calls, items), n)
    BY <1>1 DEF Finale
  <2> HIDE DEF t
  <2>3. Formed(t, D)
    BY <2>1, <2>2, FinaleFormed
  <2> QED BY <2>3 DEF t
<1> QED BY <1>2, <1>3

(* The handler takes a response: what it adds to the text it sends at once, if  *)
(* it reads on.                                                                  *)
LEMMA StreamedTake ==
  ASSUME NEW V, h \in Handlers(V), phase = "loop", request.stream, NEW r \in Reads(V),
         Len(r.text) <= 1, Speaking(sent, h.text), ResponsesTake(r)
  PROVE  \/ phase' = "loop" /\ Speaking(sent', h'.text)
         \/ phase' = "final" /\ Spoken(sent', h'.text, connected')
<1> DEFINE c == Collected(r)
           x == r.text
           y == By(r, "normal")
           marked == Marked(c)
           dn == TextDelta(x)
           dr == Event("reasoning.delta", 0, 0, x)
           dm == TextDelta(<<Message>>)
<1>1. c \in Handlers(V) /\ c.text = h.text \o y
  <2>1. c = Collected(r)
    OBVIOUS
  <2> HIDE DEF c
  <2> QED BY <2>1, CollectedIs
<1>2. Kept(c, r)
  <2>1. c = Collected(r)
    OBVIOUS
  <2> HIDE DEF c
  <2> QED BY <2>1, CollectedIs DEF Kept
<1>3. x \in Seq(Nat) /\ Len(x) <= 1 /\ r.state \in Targets /\ r.finish \in {None, Stop, "length"}
  BY DEF Reads
<1>4. y \in Seq(Nat) /\ Len(y) <= 1 /\ (r.state = "normal" => y = x) /\ (r.state # "normal" => y = <<>>)
  <2> DEFINE none == <<>>
  <2>1. none \in Seq(Nat) /\ Len(none) <= 1
    OBVIOUS
  <2> HIDE DEF none
  <2>2. y = IF r.state = "normal" THEN x ELSE none
    BY DEF By, none
  <2> HIDE DEF x, y
  <2>3. y \in Seq(Nat) /\ Len(y) <= 1 /\ (r.state = "normal" => y = x) /\ (r.state # "normal" => y = none)
    BY <1>3, <2>1, <2>2
  <2> QED BY <2>3 DEF none
<1>5. h.text \in Seq(Nat) /\ h.text \o <<>> = h.text
  BY DEF Handlers
<1>6. marked \in Handlers(V) /\ marked.text = Append(c.text, Message)
  <2>1. c \in Handlers(V)
    BY <1>1
  <2> HIDE DEF c, marked
  <2>2. Changed(V, c, Marked(c)) /\ Marked(c).text = Append(c.text, Message)
    BY <2>1, NamedChanges
  <2> QED BY <2>2 DEF Changed, marked
<1>7. /\ r.state = "reasoning" => c.text = h.text
      /\ y = <<>> => c.text = h.text
  BY <1>1, <1>4, <1>5
<1>8. /\ Speaking(Append(sent, dn), h.text \o x)
      /\ Speaking(Append(sent, dr), h.text)
      /\ \A other : Spoken(sent, other, FALSE)
  BY <1>3, SpeakingMore
<1>9. \A there : Spoken(sent, h.text \o y, there)
  BY <1>4, SpeakingMore
<1>10. /\ Speaking(Append(sent, dm), h.text \o <<Message>>)
       /\ Append(h.text, Message) = h.text \o <<Message>>
       /\ \A there : Spoken(Append(sent, dm), h.text \o <<Message>>, there)
  <2>1. <<Message>> \in Seq(Nat) /\ Message \in Nat
    BY DEF Message
  <2>2. Append(h.text, Message) = h.text \o <<Message>>
    BY <1>5, <2>1, AppendIsConcat
  <2>3. Speaking(Append(sent, dm), h.text \o <<Message>>)
    BY <2>1, SpeakingMore
  <2> DEFINE none == <<>>
             z == h.text \o <<Message>>
  <2>4. z \in Seq(Nat)
    BY <1>5, <2>1
  <2> HIDE DEF z, dm
  <2>5. none \in Seq(Nat) /\ Len(none) <= 1 /\ z \o none = z
    BY <2>4
  <2> HIDE DEF none
  <2>6. \A there : Spoken(Append(sent, dm), z \o none, there)
    <3>1. Speaking(Append(sent, dm), z)
      BY <2>3 DEF z
    <3> QED BY <2>5, <3>1, SpeakingMore
  <2> QED BY <2>2, <2>3, <2>5, <2>6 DEF z
<1> HIDE DEF c, x, y, marked, dn, dr, dm
<1>11. ASSUME NEW k \in Handlers(V), NEW s \in {Stop, "length"}, Break(k, s)
       PROVE  phase' = "final" /\ h'.text = k.text
  BY <1>11, BrokenOff DEF Same
<1>12. CASE r.state = "reasoning" /\ Break(marked, Stop)
            /\ \/ sent' = Append(sent, dm) /\ UNCHANGED connected
               \/ connected' = FALSE /\ UNCHANGED sent
  <2>1. phase' = "final" /\ h'.text = marked.text
    BY <1>6, <1>11, <1>12
  <2>2. h'.text = h.text \o <<Message>>
    BY <1>6, <1>7, <1>10, <1>12, <2>1
  <2>3. Spoken(sent', h'.text, connected')
    BY <1>8, <1>10, <1>12, <2>2
  <2> QED BY <2>1, <2>3
<1>13. CASE Break(c, Stop) /\ sent' = sent
  <2>1. phase' = "final" /\ h'.text = c.text
    BY <1>1, <1>11, <1>13
  <2> QED BY <1>1, <1>9, <1>13, <2>1
<1>14. CASE TokenGuards(c) /\ sent' = sent
  <2>1. phase' = "final" /\ h'.text = c.text
    BY <1>1, <1>2, <1>14, TrippedGuard DEF Same
  <2> QED BY <1>1, <1>9, <1>14, <2>1
<1>15. CASE ResponsesStream(c, r)
  <2>1. ASSUME GoOn(c, r) PROVE phase' = "loop" /\ h'.text = c.text
    <3> DEFINE f == IF r.finish = None THEN c.finish ELSE r.finish
    <3>1. h' = Ended(c, f, r.state) /\ phase' = "loop"
      BY <2>1 DEF GoOn, Ended
    <3>2. f \in {Stop, "length"}
      BY <1>1, <1>3 DEF Handlers, None
    <3> HIDE DEF f
    <3>3. Finished(V, c, Ended(c, f, r.state))
      BY <1>1, <1>3, <3>2, NamedChanges
    <3> QED BY <3>1, <3>3 DEF Finished, Same
  <2>2. CASE /\ x # <<>> /\ r.state \in {"normal", "reasoning"}
             /\ sent' = Append(sent, IF r.state = "normal" THEN dn ELSE dr) /\ GoOn(c, r)
    <3>1. phase' = "loop" /\ h'.text = c.text
      BY <2>1, <2>2
    <3>2. CASE r.state = "normal"
      BY <1>1, <1>4, <1>8, <2>2, <3>1, <3>2
    <3>3. CASE r.state = "reasoning"
      BY <1>7, <1>8, <2>2, <3>1, <3>3
    <3> QED BY <2>2, <3>1, <3>2, <3>3
  <2>3. CASE connected' = FALSE /\ h' = c /\ phase' = "final" /\ sent' = sent
    BY <1>8, <2>3
  <2>4. CASE ~(x # <<>> /\ r.state \in {"normal", "reasoning"}) /\ GoOn(c, r) /\ sent' = sent
    <3>1. phase' = "loop" /\ h'.text = c.text
      BY <2>1, <2>4
    <3>2. y = <<>>
      BY <1>4, <2>4
    <3> QED BY <1>7, <2>4, <3>1, <3>2
  <2> QED BY <1>15, <2>2, <2>3, <2>4 DEF ResponsesStream, x, dn, dr
<1>16. \/ TextGuardMayTrip(r) /\ r.state = "reasoning" /\ Break(marked, Stop)
          /\ \/ sent' = Append(sent, dm) /\ UNCHANGED connected
             \/ connected' = FALSE /\ UNCHANGED sent
       \/ Break(c, Stop) /\ sent' = sent
       \/ TokenGuards(c) /\ sent' = sent
       \/ ResponsesStream(c, r)
  BY DEF ResponsesTake, c, marked, Marked, dm
<1> QED BY <1>12, <1>13, <1>14, <1>15, <1>16

(* Stripping white space takes positions of it off the end. *)
LEMMA RightStrippedIs ==
  ASSUME NEW text \in Seq(Nat)
  PROVE  Shortened(RightStripped(text), text, Written(request.blank))
<1> DEFINE B == Written(request.blank)
           S == {0} \cup {n \in DOMAIN text : text[n] \notin B}
<1>1. Len(text) \in Nat /\ DOMAIN text = 1..Len(text)
  OBVIOUS
<1> HIDE DEF B
<1>2. S \in SUBSET Nat /\ S # {} /\ \A n \in S : n <= Len(text)
  BY <1>1
<1> DEFINE m == Max(S)
<1>3. m \in S /\ \A n \in S : m >= n
  <2> HIDE DEF S
  <2> QED BY <1>1, <1>2, MaxIsGreatest
<1>4. RightStripped(text) = SubSeq(text, 1, m)
  BY DEF RightStripped, B
<1> HIDE DEF m
<1>5. m \in 0..Len(text)
  BY <1>1, <1>2, <1>3
<1>6. ASSUME NEW i \in m + 1..Len(text) PROVE text[i] \in B
  <2>1. i \in DOMAIN text /\ ~(m >= i)
    BY <1>1, <1>5
  <2> QED BY <1>3, <2>1
<1> QED BY <1>4, <1>5, <1>6 DEF Shortened, B

(* So does taking <|im_end|> off before it. *)
LEMMA StrippedIs ==
  ASSUME NEW text \in Seq(Nat)
  PROVE  Stripped(text) \in Seq(Nat) /\ Shortened(Stripped(text), text, Droppable)
<1> DEFINE B == Written(request.blank)
           t == RightStripped(text)
           f == RightStripped(Front(t))
<1>1. B \subseteq Droppable /\ Written(request.leaked) \subseteq Droppable
  BY DEF Written, Droppable
<1>2. PICK n \in 0..Len(text) : t = SubSeq(text, 1, n) /\ \A i \in n + 1..Len(text) : text[i] \in B
  BY RightStrippedIs DEF Shortened
<1> HIDE DEF t, B
<1>3. /\ t \in Seq(Nat) /\ Len(t) = n /\ n \in Nat /\ Len(text) \in Nat
      /\ \A i \in 1..n : t[i] = text[i]
  BY <1>2
<1>4. CASE Stripped(text) = t
  BY <1>1, <1>2, <1>3, <1>4 DEF Shortened
<1>5. CASE t # <<>> /\ Last(t) \in Written(request.leaked) /\ Stripped(text) = f
  <2>1. n > 0
    BY <1>3, <1>5
  <2> DEFINE g == Front(t)
  <2>2. g = SubSeq(t, 1, n - 1)
    BY <1>3 DEF Front
  <2> HIDE DEF g
  <2>3. g \in Seq(Nat) /\ Len(g) = n - 1 /\ \A i \in 1..n - 1 : g[i] = text[i]
    BY <1>3, <2>1, <2>2
  <2>4. PICK k \in 0..Len(g) : f = SubSeq(g, 1, k) /\ \A i \in k + 1..Len(g) : g[i] \in B
    <3>1. Shortened(RightStripped(g), g, B)
      BY <2>3, RightStrippedIs DEF B
    <3> QED BY <3>1 DEF Shortened, g
  <2> HIDE DEF f
  <2>5. k \in 0..n - 1 /\ k \in 0..Len(text)
    BY <1>2, <1>3, <2>1, <2>3, <2>4
  <2>6. SubSeq(g, 1, k) = SubSeq(text, 1, k)
    BY <1>3, <2>3, <2>5
  <2>7. ASSUME NEW i \in k + 1..Len(text) PROVE text[i] \in Droppable
    <3>1. CASE i < n
      <4>1. i \in k + 1..Len(g) /\ g[i] = text[i]
        BY <1>3, <2>3, <2>5, <3>1
      <4> QED BY <1>1, <2>4, <4>1
    <3>2. CASE i = n
      <4>1. Last(t) = text[n]
        BY <1>3, <2>1 DEF Last
      <4> QED BY <1>1, <1>5, <3>2, <4>1
    <3>3. CASE i > n
      <4>1. i \in n + 1..Len(text)
        BY <1>3, <2>5, <3>3
      <4> QED BY <1>1, <1>2, <4>1
    <3> QED BY <1>3, <2>5, <3>1, <3>2, <3>3
  <2>8. Stripped(text) \in Seq(Nat)
    BY <1>5, <2>3, <2>4, <2>5
  <2> QED BY <1>5, <2>4, <2>5, <2>6, <2>7, <2>8 DEF Shortened
<1>6. Stripped(text) = t \/ (t # <<>> /\ Last(t) \in Written(request.leaked) /\ Stripped(text) = f)
  BY DEF Stripped, t, f
<1> QED BY <1>4, <1>5, <1>6

(* The end: the text the client gets is the one the deltas said, or it was read *)
(* as a call.                                                                    *)
LEMMA StreamedFinish ==
  ASSUME NEW V, h \in Handlers(V), request.stream, Spoken(sent, h.text, connected), ResponsesFinish
  PROVE  phase' = "done" /\ Formed(sent', Droppable)
<1> DEFINE c == Closed(h)
           W == Seq(Nat)
<1>1. c \in Handlers(V) /\ c.text = h.text
  <2>1. c = Closed(h)
    OBVIOUS
  <2> HIDE DEF c
  <2> QED BY <2>1, ClosedIs
<1>2. c.calls \in Seq(W) /\ c.text \in W
  BY <1>1 DEF Handlers
<1>3. phase' = "done"
  BY DEF ResponsesFinish
<1>4. CASE ~connected
  <2>1. sent' = sent
    BY <1>4 DEF ResponsesFinish
  <2> QED BY <1>3, <2>1, SpokenFormed
<1>5. CASE connected
  <2> DEFINE formatted(parsed) == Formatted(c.calls, parsed)
             full == Stripped(c.text)
             final(fallback) == IF fallback THEN <<>> ELSE full
             made(parsed, fallback) == IF fallback THEN <<full>> ELSE formatted(parsed)
             listed(text, calls) ==
               DOMAIN calls \cup (IF text # <<>> \/ calls = <<>> THEN {0} ELSE {})
  <2>1. PICK parsed \in SUBSET Range(c.calls), fallback \in BOOLEAN :
          \E n \in 0..Len(Ending(final(fallback), made(parsed, fallback),
                                 listed(final(fallback), made(parsed, fallback)))) :
            sent' = sent \o SubSeq(Ending(final(fallback), made(parsed, fallback),
                                          listed(final(fallback), made(parsed, fallback))), 1, n)
    BY <1>5, ZenonT(60) DEF ResponsesFinish
  <2> DEFINE text == final(fallback)
             calls == made(parsed, fallback)
             items == listed(text, calls)
  <2>a. full \in W /\ Shortened(full, h.text, Droppable)
    BY <1>1, <1>2, StrippedIs
  <2> HIDE DEF full
  <2>2. text \in Seq(Nat) /\ FinalText(text, h.text, items, Droppable)
    <3>1. CASE ~fallback
      BY <2>a, <3>1 DEF FinalText
    <3>2. CASE fallback
      <4>1. text = <<>> /\ calls = <<full>>
        BY <3>2
      <4>2. DOMAIN calls = {1}
        BY <4>1
      <4> HIDE DEF text, calls
      <4>3. 1 \in items
        BY <4>2
      <4>4. text \in Seq(Nat)
        BY <4>1
      <4> QED BY <4>1, <4>3, <4>4 DEF FinalText
    <3> QED BY <3>1, <3>2
  <2>3. calls \in Seq(W)
    <3>1. formatted(parsed) \in Seq(W)
      <4> HIDE DEF c
      <4> QED BY <1>2, AmongType DEF Formatted
    <3> DEFINE t == full
    <3>2. t \in W
      BY <2>a
    <3> HIDE DEF t, W
    <3>3. << t >> \in Seq(W)
      BY <3>2
    <3> QED BY <3>1, <3>3 DEF t
  <2> HIDE DEF text, calls
  <2>4. items \in SUBSET (0..Len(calls))
    <3>1. DOMAIN calls = 1..Len(calls) /\ Len(calls) \in Nat
      BY <2>3
    <3> QED BY <3>1
  <2> HIDE DEF items
  <2>5. PICK n \in 0..Len(Ending(text, calls, items)) :
          sent' = sent \o SubSeq(Ending(text, calls, items), 1, n)
    BY <2>1 DEF text, calls, items
  <2>6. Formed(sent \o SubSeq(Ending(text, calls, items), 1, n), Droppable)
    <3>1. calls \in Seq(Seq(Nat)) /\ items \in SUBSET (0..Len(calls)) /\ connected
      BY <1>5, <2>3, <2>4 DEF W
    <3> QED BY <2>2, <3>1, SpokenFormed
  <2> QED BY <1>3, <2>5, <2>6
<1> QED BY <1>4, <1>5

(* Every step leaves a stream that can go on to be well-formed. *)
LEMMA StreamedStep ==
  ASSUME NothingHeld, Delivery, Streamed, [Next]_vars
  PROVE  Streamed'
<1>1. Core' /\ Move
  BY CoreStep DEF Delivery
<1>2. request' = request
  BY <1>1 DEF Move
<1>3. SUFFICES ASSUME request.api = "responses", request.stream
               PROVE  /\ phase' = "loop" => Speaking(sent', h'.text)
                      /\ phase' = "final" => Spoken(sent', h'.text, connected')
                      /\ phase' = "open" => sent' = <<>>
                      /\ phase' = "done" => Formed(sent', Droppable')
  BY <1>2 DEF Streamed
<1>4. /\ phase = "loop" => Speaking(sent, h.text)
      /\ phase = "final" => Spoken(sent, h.text, connected)
      /\ phase = "open" => sent = <<>>
      /\ phase = "done" => Formed(sent, Droppable)
  BY <1>3 DEF Streamed
<1>5. h \in Handlers(request.vocab) /\ request \in Requests /\ request.api # "chat"
  BY <1>3 DEF Delivery, Core, MachineIs
<1>6. CASE UNCHANGED vars
  <2>1. phase' = phase /\ sent' = sent /\ h' = h /\ connected' = connected /\ tokens' = tokens
    BY <1>6 DEF vars
  <2>2. Droppable' = Droppable
    BY <1>2, <2>1 DEF Droppable, Written
  <2> QED BY <1>4, <2>1, <2>2
<1>7. CASE Beginning
  <2>1. h' = NewHandler
    BY <1>7 DEF Beginning, Delivery, Core
  <2>2. h'.text = <<>>
    BY <2>1 DEF NewHandler
  <2>3. \/ sent' = Opening /\ phase' = "loop"
        \/ phase' = "done" /\ \E n \in {0} \cup 1..Len(Opening) - 1 : sent' = SubSeq(Opening, 1, n)
    BY <1>3, <1>7 DEF Beginning, Open
  <2>4. CASE sent' = Opening /\ phase' = "loop"
    BY <2>2, <2>4, SpeakingBegins
  <2>5. CASE phase' = "done" /\ \E n \in {0} \cup 1..Len(Opening) - 1 : sent' = SubSeq(Opening, 1, n)
    <3> DEFINE op == Opening
    <3>1. Len(op) = 3
      BY SpeakingBegins
    <3>2. PICK n \in {0} \cup 1..Len(op) - 1 : sent' = SubSeq(op, 1, n)
      BY <2>5
    <3> HIDE DEF op
    <3>3. n \in 0..3
      BY <3>1
    <3>4. sent' = SubSeq(Opening, 1, n)
      BY <3>2 DEF op
    <3> DEFINE s == SubSeq(Opening, 1, n)
    <3>5. s = SubSeq(Opening, 1, n)
      OBVIOUS
    <3> HIDE DEF s
    <3>6. Formed(s, Droppable')
      BY <3>3, <3>5, OpeningFormed
    <3> QED BY <2>5, <3>4, <3>5, <3>6
  <2> QED BY <2>3, <2>4, <2>5
<1>8. CASE Skipping
  <2>1. phase = "loop" /\ phase' = "loop" /\ sent' = sent /\ h' = h
    BY <1>8 DEF Skipping
  <2> QED BY <1>4, <2>1
<1>9. CASE Reading(tokens', Reference')
  <2> DEFINE u == tokens'
             new == ReferenceOf(request, u)
             i == h.count + 1
             r == Response(request, u, new, i)
  <2>1. Reference' = new
    BY <1>2 DEF Reference
  <2>2. phase = "loop" /\ h.count < Len(u) /\ Take(r)
    BY <1>9, <2>1 DEF Reading
  <2>3. u \in Seq(request.vocab) /\ h.count \in Nat
    BY <1>1, <1>2, <1>5 DEF Core, MachineIs, Handlers
  <2>4. i \in 1..Len(u)
    BY <2>2, <2>3
  <2> HIDE DEF i, u
  <2>5. r \in Reads(request.vocab)
    BY <1>5, <2>3, <2>4, ResponseIs
  <2>6. Len(r.text) <= 1
    BY DEF Response
  <2> HIDE DEF r
  <2>7. ResponsesTake(r)
    BY <1>5, <2>2 DEF Take
  <2>8. \/ phase' = "loop" /\ Speaking(sent', h'.text)
        \/ phase' = "final" /\ Spoken(sent', h'.text, connected')
    BY <1>3, <1>4, <1>5, <2>2, <2>5, <2>6, <2>7, StreamedTake
  <2> QED BY <2>8
<1>10. CASE Leaving
  <2>1. phase = "loop" /\ phase' = "final" /\ sent' = sent /\ h' = h
    BY <1>10 DEF Leaving
  <2> DEFINE none == <<>>
             t == h.text
  <2>2. Speaking(sent, t) /\ none \in Seq(Nat) /\ Len(none) <= 1
    BY <1>4, <2>1
  <2>3. t \in Seq(Nat)
    BY <1>5 DEF Handlers
  <2>4. t \o none = t
    BY <2>3
  <2> HIDE DEF none, t
  <2>5. Spoken(sent, t \o none, connected')
    BY <2>2, SpeakingMore
  <2> QED BY <2>1, <2>4, <2>5 DEF t
<1>11. CASE Finishing
  <2>1. phase = "final" /\ ResponsesFinish
    BY <1>5, <1>11 DEF Finishing
  <2>2. phase' = "done" /\ Formed(sent', Droppable)
    BY <1>3, <1>4, <1>5, <2>1, StreamedFinish
  <2>3. Droppable' = Droppable
    BY <1>2, <1>11 DEF Finishing, Droppable, Written
  <2> QED BY <2>2, <2>3
<1> QED BY <1>1, <1>6, <1>7, <1>8, <1>9, <1>10, <1>11 DEF Move

(* Such a stream is well-formed at every point. *)
LEMMA StreamedForms ==
  ASSUME Delivery, Streamed
  PROVE  EventsWellFormed
<1>1. SUFFICES ASSUME request.api = "responses", request.stream PROVE EventsWellFormed
  BY DEF EventsWellFormed
<1>2. /\ phase = "loop" => Speaking(sent, h.text)
      /\ phase = "final" => Spoken(sent, h.text, connected)
      /\ phase = "open" => sent = <<>>
      /\ phase = "done" => Formed(sent, Droppable)
  BY <1>1 DEF Streamed
<1>3. CASE phase = "loop"
  <2>1. Spoken(sent, h.text, FALSE)
    <3>1. PICK d \in Seq(DeltaEvents) : sent = Opening \o d
      BY <1>2, <1>3 DEF Speaking
    <3> QED BY <3>1 DEF Spoken
  <2> QED BY <2>1, SpokenFormed, FormedEvents
<1>4. CASE phase = "final"
  BY <1>2, <1>4, SpokenFormed, FormedEvents
<1>5. CASE phase = "open"
  <2>1. DOMAIN sent = {}
    BY <1>2, <1>5
  <2> QED BY <2>1 DEF EventsWellFormed
<1>6. CASE phase = "done"
  BY <1>2, <1>6, FormedEvents
<1>7. phase \in {"open", "loop", "final", "done"}
  BY DEF Delivery, Core
<1> QED BY <1>3, <1>4, <1>5, <1>6, <1>7

(* EventsWellFormed of every request, whatever its control sequences and the     *)
(* limits: the events stand in fixed places around the deltas, which say the text *)
(* the handler has collected, but for the one token a guard may stop at.           *)
THEOREM EventsAreWellFormed ==
  ASSUME NothingHeld
  PROVE  Spec => []EventsWellFormed
<1> DEFINE Inv == Delivery /\ Streamed
<1>1. Init => Inv
  <2>1. ASSUME Init PROVE Streamed
    <3>1. sent = <<>> /\ phase = "open"
      BY <2>1 DEF Init
    <3> QED BY <3>1 DEF Streamed
  <2> QED BY <2>1, DeliveryInit
<1>2. Inv /\ [Next]_vars => Inv'
  BY DeliveryStep, StreamedStep
<1>3. Inv => EventsWellFormed
  BY StreamedForms
<1> HIDE DEF Inv
<1> QED BY <1>1, <1>2, <1>3, PTL DEF Spec
=============================================================================
