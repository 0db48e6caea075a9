-------------------- MODULE DistributedServing_proofs --------------------
(***************************************************************************)
(* Proofs about DistributedServing, for any number of ranks: they stay in   *)
(* lockstep and decide alike, and their stages cover the model.             *)
(*                                                                          *)
(* What a rank does next is decided by what all the ranks know (its View):  *)
(* where it is, what the last collective gave and the locals they hold in   *)
(* common.  So from a meeting every rank goes along one path of views, at   *)
(* its own pace, and the path ends where the ranks meet again.              *)
(***************************************************************************)
EXTENDS DistributedServing, SequencesExt, Integers, TLAPS, FiniteSetTheorems, NaturalsInduction,
        WellFoundedInduction, SequenceTheorems

----------------------------------------
(* What the proofs need of naturals, finite sets and sums. *)

(* A set that has 0 and with every natural the next one has them all. *)
LEMMA SetInduction ==
  ASSUME NEW S, 0 \in S, \A n \in Nat : n \in S => n + 1 \in S
  PROVE  Nat \subseteq S
<1> SUFFICES ASSUME Nat \ S # {} PROVE FALSE
  OBVIOUS
<1>1. PICK x \in Nat \ S : \A y \in Nat \ S : ~(<<y, x>> \in OpToRel(<, Nat))
  <2>1. Nat \ S \subseteq Nat
    OBVIOUS
  <2> QED BY <2>1, NatLessThanWellFounded, WFMin, Zenon
<1>2. x # 0 /\ x - 1 \in Nat /\ x - 1 < x /\ x - 1 + 1 = x
  BY SMT
<1>3. x - 1 \in S
  <2>1. SUFFICES ASSUME x - 1 \notin S PROVE FALSE
    OBVIOUS
  <2>2. x - 1 \in Nat \ S
    BY <1>2, <2>1
  <2>3. <<x - 1, x>> \in OpToRel(<, Nat)
    <3>1. <<x - 1, x>> \in Nat \X Nat /\ <<x - 1, x>>[1] = x - 1 /\ <<x - 1, x>>[2] = x
      BY <1>2
    <3> QED BY <3>1, <1>2, Zenon DEF OpToRel
  <2> QED BY <1>1, <2>2, <2>3, Zenon
<1> QED BY <1>2, <1>3

(* A bounded set of naturals has a greatest element, and Max is it. *)
LEMMA MaxIsGreatest ==
  ASSUME NEW S \in SUBSET Nat, S # {}, NEW b \in Nat, \A x \in S : x <= b
  PROVE  Max(S) \in S /\ \A y \in S : Max(S) >= y
<1> DEFINE Gaps == {g \in Nat : \E x \in S : g = b - x}
<1>1. Gaps \in SUBSET Nat /\ Gaps # {}
  <2>1. \A x \in S : b - x \in Nat
    OBVIOUS
  <2> QED BY <2>1
<1>2. PICK g \in Gaps : \A e \in Gaps : ~(<<e, g>> \in OpToRel(<, Nat))
  <2> HIDE DEF Gaps
  <2> QED BY <1>1, NatLessThanWellFounded, WFMin, Zenon
<1>3. PICK x \in S : g = b - x
  <2>1. g \in Gaps
    BY <1>2, Zenon
  <2> QED BY <2>1
<1>4. ASSUME NEW y \in S PROVE x >= y
  <2>1. b - y \in Gaps /\ b - y \in Nat /\ b - x \in Nat
    OBVIOUS
  <2>2. <<b - y, b - x>> \in Nat \X Nat /\ <<b - y, b - x>>[1] = b - y
        /\ <<b - y, b - x>>[2] = b - x
    BY <2>1
  <2>3. ~(<<b - y, b - x>> \in OpToRel(<, Nat))
    BY <1>2, <1>3, <2>1, Zenon
  <2>4. ~(b - y < b - x)
    BY <2>2, <2>3, Zenon DEF OpToRel
  <2> QED BY <2>4
<1>5. \E z \in S : \A y \in S : z >= y
  BY <1>4
<1> QED BY <1>5, Zenon DEF Max

(* The recursive function SumFunction is defined by. *)
FirstOf(s) == CHOOSE x \in s : TRUE

SumStep(f, sum, s) == IF s = {} THEN 0 ELSE f[FirstOf(s)] + sum[s \ {FirstOf(s)}]

LEMMA FirstOfProperties ==
  ASSUME NEW s, s # {}
  PROVE  FirstOf(s) \in s
BY DEF FirstOf

(* The subsets of at most n elements. *)
UpTo(D, n) == {s \in SUBSET D : Cardinality(s) <= n}

(* The sizes of a finite set and of the set without an element. *)
LEMMA SizeWithout ==
  ASSUME NEW D, IsFiniteSet(D), NEW s \in SUBSET D
  PROVE  /\ IsFiniteSet(s) /\ Cardinality(s) \in Nat /\ Cardinality(s) <= Cardinality(D)
         /\ Cardinality(s) = 0 <=> s = {}
         /\ \A x \in s : Cardinality(s \ {x}) = Cardinality(s) - 1 /\ s \ {x} \in SUBSET D
<1>1. IsFiniteSet(s) /\ Cardinality(s) <= Cardinality(D)
  BY FS_Subset
<1>2. Cardinality(s) \in Nat
  BY <1>1, FS_CardinalityType
<1>3. Cardinality(s) = 0 <=> s = {}
  BY <1>1, FS_EmptySet
<1>4. \A x \in s : Cardinality(s \ {x}) = Cardinality(s) - 1
  BY <1>1, FS_RemoveElement
<1> QED BY <1>1, <1>2, <1>3, <1>4

(* That function exists, by induction on the size of the subsets. *)
LEMMA SumExists ==
  ASSUME NEW f, IsFiniteSet(DOMAIN f)
  PROVE  \E sum : sum = [s \in SUBSET DOMAIN f |-> SumStep(f, sum, s)]
<1> DEFINE D == DOMAIN f
           Has == {n \in Nat : \E sum : sum = [s \in UpTo(D, n) |-> SumStep(f, sum, s)]}
<1>1. 0 \in Has
  <2>1. \A s \in UpTo(D, 0) : s = {}
    <3> SUFFICES ASSUME NEW s \in UpTo(D, 0) PROVE s = {}
      OBVIOUS
    <3>1. s \in SUBSET D /\ Cardinality(s) <= 0
      BY DEF UpTo
    <3>2. Cardinality(s) \in Nat /\ (Cardinality(s) = 0 <=> s = {})
      BY <3>1, SizeWithout
    <3> QED BY <3>1, <3>2
  <2> DEFINE g == [s \in UpTo(D, 0) |-> 0]
  <2>2. \A s \in UpTo(D, 0) : SumStep(f, g, s) = 0
    BY <2>1 DEF SumStep
  <2>3. g = [s \in UpTo(D, 0) |-> SumStep(f, g, s)]
    BY <2>2
  <2> HIDE DEF g
  <2> QED BY <2>3
<1>2. ASSUME NEW n \in Nat, n \in Has PROVE n + 1 \in Has
  <2>1. PICK g : g = [s \in UpTo(D, n) |-> SumStep(f, g, s)]
    BY <1>2
  <2> DEFINE h == [s \in UpTo(D, n + 1) |-> IF s \in UpTo(D, n) THEN g[s] ELSE SumStep(f, g, s)]
  <2>2. ASSUME NEW s \in UpTo(D, n + 1) PROVE h[s] = SumStep(f, h, s)
    <3>1. s \in SUBSET D /\ Cardinality(s) <= n + 1
      BY DEF UpTo
    <3>2. h[s] = SumStep(f, g, s)
      <4>1. CASE s \in UpTo(D, n)
        <5>1. g[s] = SumStep(f, g, s)
          BY <2>1, <4>1
        <5> QED BY <4>1, <5>1
      <4>2. CASE s \notin UpTo(D, n)
        BY <4>2
      <4> QED BY <4>1, <4>2
    <3>3. CASE s = {}
      BY <3>2, <3>3 DEF SumStep
    <3>4. CASE s # {}
      <4> DEFINE rest == s \ {FirstOf(s)}
      <4>1. FirstOf(s) \in s
        BY <3>4, FirstOfProperties
      <4>2. /\ Cardinality(rest) = Cardinality(s) - 1 /\ rest \in SUBSET D
            /\ Cardinality(s) \in Nat
        BY <3>1, <4>1, SizeWithout
      <4> HIDE DEF rest
      <4>3. Cardinality(rest) <= n /\ Cardinality(rest) <= n + 1
        BY <3>1, <4>2
      <4>4. rest \in UpTo(D, n) /\ rest \in UpTo(D, n + 1)
        BY <4>2, <4>3 DEF UpTo
      <4>5. h[rest] = g[rest]
        BY <4>4
      <4> HIDE DEF h
      <4>6. SumStep(f, g, s) = f[FirstOf(s)] + g[rest] /\ SumStep(f, h, s) = f[FirstOf(s)] + h[rest]
        BY <3>4 DEF SumStep, rest
      <4> QED BY <3>2, <4>5, <4>6
    <3> QED BY <3>3, <3>4
  <2>3. h = [s \in UpTo(D, n + 1) |-> SumStep(f, h, s)]
    <3>1. h = [s \in UpTo(D, n + 1) |-> h[s]]
      OBVIOUS
    <3> HIDE DEF h
    <3> QED BY <2>2, <3>1, Zenon
  <2>4. n + 1 \in Nat
    OBVIOUS
  <2> HIDE DEF h
  <2> QED BY <2>3, <2>4, Zenon
<1>3. Nat \subseteq Has
  <2> HIDE DEF Has
  <2> QED BY <1>1, <1>2, SetInduction
<1>4. Cardinality(D) \in Nat
  BY FS_CardinalityType
<1>5. UpTo(D, Cardinality(D)) = SUBSET D
  <2>1. \A s \in SUBSET D : Cardinality(s) <= Cardinality(D)
    BY SizeWithout
  <2> QED BY <2>1 DEF UpTo
<1>6. Cardinality(D) \in Has
  <2> HIDE DEF Has
  <2> QED BY <1>3, <1>4
<1>7. PICK sum : sum = [s \in UpTo(D, Cardinality(D)) |-> SumStep(f, sum, s)]
  BY <1>6
<1> QED BY <1>5, <1>7, Zenon

(* sum has the sums of f over the subsets of its domain. *)
SumsOf(f, sum) ==
  /\ \A s \in SUBSET DOMAIN f : sum[s] \in Int
  /\ sum[{}] = 0
  /\ \A s \in SUBSET DOMAIN f : \A x \in s : sum[s] = f[x] + sum[s \ {x}]

(* SumFunction takes any element first, not only the one it chooses. *)
LEMMA SumFunctionSums ==
  ASSUME NEW f, IsFiniteSet(DOMAIN f), \A x \in DOMAIN f : f[x] \in Int
  PROVE  \E sum : SumFunction(f) = sum[DOMAIN f] /\ SumsOf(f, sum)
<1> DEFINE D == DOMAIN f
           sum == CHOOSE sum : sum = [s \in SUBSET D |-> SumStep(f, sum, s)]
<1>1. sum = [s \in SUBSET D |-> SumStep(f, sum, s)]
  BY SumExists
<1>2. SumFunction(f) = sum[D]
  BY DEF SumFunction, SumFunctionOnSet, FoldFunctionOnSet, MapThenFoldSet, SumStep, FirstOf
<1> HIDE DEF sum
<1>3. \A s \in SUBSET D : sum[s] = SumStep(f, sum, s)
  BY <1>1
<1> DEFINE Sound(s) == /\ sum[s] \in Int
                       /\ \A x \in s : sum[s] = f[x] + sum[s \ {x}]
           Has == {n \in Nat : \A s \in UpTo(D, n) : Sound(s)}
<1>4. sum[{}] = 0
  BY <1>3 DEF SumStep
<1>5. 0 \in Has
  <2> SUFFICES ASSUME NEW s \in UpTo(D, 0) PROVE Sound(s)
    OBVIOUS
  <2>1. s \in SUBSET D /\ Cardinality(s) <= 0
    BY DEF UpTo
  <2>2. Cardinality(s) \in Nat /\ (Cardinality(s) = 0 <=> s = {})
    BY <2>1, SizeWithout
  <2>3. s = {}
    BY <2>1, <2>2
  <2> QED BY <1>4, <2>3
<1>6. ASSUME NEW n \in Nat, n \in Has PROVE n + 1 \in Has
  <2> SUFFICES ASSUME NEW s \in UpTo(D, n + 1) PROVE Sound(s)
    OBVIOUS
  <2>1. s \in SUBSET D /\ Cardinality(s) <= n + 1
    BY DEF UpTo
  <2>2. Cardinality(s) \in Nat /\ IsFiniteSet(s)
    BY <2>1, SizeWithout
  <2>3. ASSUME NEW r \in SUBSET D, Cardinality(r) <= n PROVE Sound(r)
    BY <1>6, <2>3 DEF UpTo
  <2>4. CASE s = {}
    BY <1>4, <2>4
  <2>5. CASE s # {}
    <3> DEFINE c == FirstOf(s)
    <3>1. c \in s
      BY <2>5, FirstOfProperties
    <3>2. sum[s] = f[c] + sum[s \ {c}]
      BY <1>3, <2>1, <2>5 DEF SumStep
    <3> HIDE DEF c
    <3>3. \A x \in s : Cardinality(s \ {x}) = Cardinality(s) - 1 /\ s \ {x} \in SUBSET D
      BY <2>1, SizeWithout
    <3>4. \A x \in s : Sound(s \ {x})
      <4> SUFFICES ASSUME NEW x \in s PROVE Sound(s \ {x})
        OBVIOUS
      <4>1. Cardinality(s \ {x}) <= n /\ s \ {x} \in SUBSET D
        BY <2>1, <2>2, <3>3
      <4> HIDE DEF Sound
      <4> QED BY <2>3, <4>1
    <3>5. \A x \in s : f[x] \in Int /\ sum[s \ {x}] \in Int
      BY <2>1, <3>4
    <3>6. ASSUME NEW x \in s PROVE sum[s] = f[x] + sum[s \ {x}]
      <4>1. CASE x = c
        BY <3>2, <4>1
      <4>2. CASE x # c
        <5> DEFINE both == s \ {c, x}
        <5>1. x \in s \ {c} /\ c \in s \ {x} /\ (s \ {c}) \ {x} = both /\ (s \ {x}) \ {c} = both
          BY <3>1, <4>2
        <5>2. sum[s \ {c}] = f[x] + sum[(s \ {c}) \ {x}]
          BY <3>1, <3>4, <5>1
        <5>3. sum[s \ {x}] = f[c] + sum[(s \ {x}) \ {c}]
          BY <3>4, <5>1
        <5>4. sum[(s \ {c}) \ {x}] \in Int
          <6> DEFINE r == s \ {c}
          <6>1. r \in SUBSET D /\ Cardinality(r) = Cardinality(s) - 1 /\ x \in r
            BY <3>1, <3>3, <5>1
          <6> HIDE DEF r
          <6>2. Cardinality(r \ {x}) = Cardinality(r) - 1 /\ r \ {x} \in SUBSET D
            BY <6>1, SizeWithout
          <6>3. Cardinality(r \ {x}) <= n
            BY <2>1, <2>2, <6>1, <6>2
          <6>4. sum[r \ {x}] \in Int
            BY <2>3, <6>2, <6>3
          <6> QED BY <6>4 DEF r
        <5> HIDE DEF both
        <5>5. sum[s \ {c}] = f[x] + sum[both] /\ sum[s \ {x}] = f[c] + sum[both] /\ sum[both] \in Int
          BY <5>1, <5>2, <5>3, <5>4
        <5>6. f[x] \in Int /\ f[c] \in Int
          BY <3>1, <3>5
        <5> QED BY <3>2, <5>5, <5>6
      <4> QED BY <4>1, <4>2
    <3>7. sum[s] \in Int
      BY <3>1, <3>2, <3>5
    <3> QED BY <3>6, <3>7
  <2> QED BY <2>4, <2>5
<1>7. Nat \subseteq Has
  <2> HIDE DEF Has
  <2> QED BY <1>5, <1>6, SetInduction
<1>8. Cardinality(D) \in Nat
  BY FS_CardinalityType
<1>9. \A s \in SUBSET D : s \in UpTo(D, Cardinality(D))
  BY SizeWithout DEF UpTo
<1>10. \A s \in SUBSET D : Sound(s)
  <2> HIDE DEF Sound
  <2> QED BY <1>7, <1>8, <1>9
<1>11. SumsOf(f, sum)
  BY <1>4, <1>10 DEF SumsOf
<1> QED BY <1>2, <1>11

----------------------------------------
(* Views. *)

ServerFields == {"req", "aside", "open", "drain", "rows", "solo", "gone", "model", "layers",
                 "store", "passes", "loops", "iterations"}
ViewFields == {"at", "sharing", "inbox", "req", "aside", "open", "drain", "rows", "solo",
               "model", "store", "passes", "loops", "iterations"}

(* Where the request of a rank is everyone's: before, rank 0 alone has it. *)
Common(place, solo) == place \in {"request", "load", "loaded"} \/ solo # None

(* What a rank with the locals s, at a place, has in common with the others. *)
ViewOf(place, what, gave, s) ==
  [at |-> place, sharing |-> what, inbox |-> gave,
   req |-> IF Common(place, s.solo) THEN s.req ELSE None,
   aside |-> s.aside, open |-> s.open, drain |-> s.drain, rows |-> s.rows, solo |-> s.solo,
   model |-> s.model, store |-> s.store, passes |-> s.passes, loops |-> s.loops,
   iterations |-> s.iterations]

View(r) == ViewOf(at[r], sharing[r], inbox[r], server[r])

(* A view, with some of its fields changed. *)
With(v, values) == [f \in DOMAIN v |-> IF f \in DOMAIN values THEN values[f] ELSE v[f]]

(* What a rank makes of its view by itself, place by place. *)
Unasked(v) ==
  IF v.rows # <<>> THEN With(v, [at |-> "budget", inbox |-> None, passes |-> 0])
  ELSE IF v.drain THEN With(v, [at |-> "loop", inbox |-> None, open |-> None, drain |-> FALSE])
  ELSE With(v, [at |-> "loop", inbox |-> None])

FromLoop(v) ==
  IF v.drain THEN Unasked(v)
  ELSE IF v.aside # <<>>
    THEN With(v, [at |-> "request", inbox |-> None, req |-> Last(v.aside),
                  aside |-> Front(v.aside)])
  ELSE With(v, [at |-> "size", inbox |-> None, sharing |-> "request"])

FromSized(v) ==
  IF v.inbox = 0 THEN Unasked(v) ELSE With(v, [at |-> "data", inbox |-> None])

FromShared(v) ==
  IF v.sharing = "request" THEN With(v, [at |-> "request", inbox |-> None, req |-> v.inbox])
  ELSE With(v, [at |-> "loop", inbox |-> None, rows |-> Staying(v.rows, v.inbox)])

FromRequest(v, q) ==
  IF v.open = q.model /\ q.batchable
    THEN IF q.valid
           THEN With(v, [at |-> "loop", inbox |-> None, req |-> None,
                         rows |-> Append(v.rows, NewRow(v.req, q, v.store)),
                         store |-> Limited(v.store, CacheSize)])
           ELSE With(v, [at |-> "loop", inbox |-> None, req |-> None])
  ELSE IF v.open # None
    THEN With(v, [at |-> "loop", inbox |-> None, req |-> None, drain |-> TRUE,
                  aside |-> Append(v.aside, v.req)])
  ELSE IF q.model \notin Models
    THEN With(v, [at |-> "loop", inbox |-> None, req |-> None, model |-> None])
  ELSE IF v.model = q.model THEN With(v, [at |-> "loaded", inbox |-> None])
  ELSE With(v, [at |-> "load", inbox |-> None, model |-> q.model])

FromLoaded(v, q) ==
  IF q.batchable
    THEN With(v, [at |-> "loop", inbox |-> None, req |-> None, open |-> q.model, rows |-> <<>>,
                  aside |-> Append(v.aside, v.req)])
  ELSE IF q.valid
    THEN With(v, [at |-> "pass", inbox |-> None, solo |-> Passes(v.store, q)])
  ELSE With(v, [at |-> "loop", inbox |-> None, req |-> None])

FromSolo(v, q) ==
  IF v.solo - 1 = 0
    THEN With(v, [at |-> "loop", inbox |-> None, req |-> None, solo |-> None,
                  store |-> Inserted(v.store, q.topic, CacheSize)])
  ELSE With(v, [at |-> "pass", inbox |-> None, solo |-> v.solo - 1])

FromBudget(v) ==
  IF v.passes < v.iterations
    THEN IF v.rows # <<>>
           THEN With(v, [at |-> "pass", inbox |-> None, passes |-> v.passes + 1])
           ELSE With(v, [at |-> "size", inbox |-> None, sharing |-> "gone",
                         passes |-> v.passes + 1])
  ELSE IF (v.loops + 1) % SyncFrequency = 0
    THEN With(v, [at |-> "time", inbox |-> None, loops |-> v.loops + 1])
  ELSE With(v, [at |-> "size", inbox |-> None, sharing |-> "gone", loops |-> v.loops + 1])

FromPassed(v) ==
  With(v, [at |-> "budget", rows |-> Going(v.rows),
           store |-> StoreAfter(v.store, v.rows, CacheSize)])

FromTimed(v) ==
  With(v, [at |-> "size", inbox |-> None, sharing |-> "gone", loops |-> 0,
           iterations |-> Max({Rounded(v.iterations * Budget * Size * SyncFrequency, v.inbox), 1})])

(* asked has what the clients ask for. *)
Onward(v, asked) ==
  CASE v.at = "loop" -> FromLoop(v)
    [] v.at = "sized" -> FromSized(v)
    [] v.at = "shared" -> FromShared(v)
    [] v.at = "request" -> FromRequest(v, asked[v.req])
    [] v.at = "loaded" -> FromLoaded(v, asked[v.req])
    [] v.at = "solo" -> FromSolo(v, asked[v.req])
    [] v.at = "budget" -> FromBudget(v)
    [] v.at = "passed" -> FromPassed(v)
    [] v.at = "timed" -> FromTimed(v)

----------------------------------------
(* The invariant. *)

Places == Meets \cup {"loop", "sized", "shared", "request", "loaded", "solo", "budget",
                      "passed", "timed"}

Known(asked) == {c \in Clients : asked[c] # None}

(* What holds of every view on a path. *)
Sound(v, asked) ==
  /\ DOMAIN v = ViewFields
  /\ v.at \in Places
  /\ v.sharing \in {None, "request", "gone"}
  /\ v.aside \in Seq(Known(asked)) /\ Len(v.aside) <= 1
  /\ Common(v.at, v.solo) => v.aside = <<>> /\ v.req \in Known(asked)
  /\ v.at \in {"size", "sized", "data", "shared"} /\ v.sharing = "request" => v.aside = <<>>
  /\ v.solo # None => /\ v.at \in {"pass", "solo"} /\ ~asked[v.req].batchable
                       /\ v.solo \in Nat \ {0}
  /\ v.at = "solo" => v.solo # None
  /\ v.at = "sized" => v.inbox \in Nat
  /\ v.at = "shared" /\ v.sharing = "request" => v.inbox \in Known(asked)
  /\ v.at = "timed" => v.inbox \in Nat \ {0}
  /\ v.iterations \in Nat \ {0} /\ v.passes \in Nat /\ v.loops \in Nat
  /\ v.at = "budget" => v.passes <= v.iterations
  /\ v.at \in {"pass", "passed"} /\ v.solo = None => v.passes <= v.iterations

(* What a rank brings to the collective it waits for. *)
Offers(r) ==
  /\ at[r] = "size" =>
       offer[r] = IF r = 0 /\ (sharing[r] = "gone" \/ server[r].req # None) THEN 1 ELSE 0
  /\ at[r] = "data" =>
       offer[r] = IF r # 0 THEN None
                  ELSE IF sharing[r] = "request" THEN server[r].req ELSE server[r].gone
  /\ at[r] = "pass" =>
       offer[r] = IF server[r].solo = None THEN server[r].rows
                  ELSE <<[client |-> server[r].req, topic |-> ask[server[r].req].topic,
                          left |-> server[r].solo]>>
  /\ at[r] = "time" => offer[r] \in Nat \ {0}

(* Its clock: every pass took some time. *)
Clocked(r) ==
  /\ time[r] \in [clock : Nat, spent : Nat]
  /\ at[r] = "budget" => time[r].clock >= server[r].passes
  /\ at[r] \in {"pass", "passed"} /\ server[r].solo = None =>
       time[r].clock + 1 >= server[r].passes

Loaded(r) == server[r].model # None => server[r].layers = Layers(r)

Own(r) == Offers(r) /\ Clocked(r) /\ Loaded(r)

(* Rank 0 has a request when it shares one. *)
OwnRequest ==
  sharing[0] = "request" =>
    /\ at[0] \in {"size", "sized"} => server[0].req \in Known(ask) \cup {None}
    /\ at[0] = "sized" /\ inbox[0] # 0 => server[0].req \in Known(ask)
    /\ at[0] = "data" => server[0].req \in Known(ask)

Shaped ==
  /\ DOMAIN at = Ranks /\ DOMAIN sharing = Ranks /\ DOMAIN offer = Ranks
  /\ DOMAIN inbox = Ranks /\ DOMAIN server = Ranks /\ DOMAIN time = Ranks
  /\ \A r \in Ranks : DOMAIN server[r] = ServerFields

Global ==
  /\ DOMAIN ask = Clients /\ \A c \in Clients : ask[c] \in MayAsk[c] \cup {None}
  /\ answer \in [Clients -> {"none", "context", "done", "error"}]
  /\ left \subseteq Leavers /\ queue \in Seq(Known(ask)) /\ types \in IndexerTypes

(* p is a path of n steps, which no rank has to wait on before its end. *)
IsPath(n, p, asked) ==
  /\ \A i \in 0 .. n : Sound(p[i], asked)
  /\ \A i \in 0 .. n - 1 : p[i].at \notin Meets /\ p[i + 1] = Onward(p[i], asked)

OnPath ==
  \E n \in Nat : \E p : /\ IsPath(n, p, ask)
                        /\ \A r \in Ranks : \E i \in 0 .. n : View(r) = p[i]

IInv == /\ Shaped /\ Global /\ OwnRequest
        /\ \A r \in Ranks : Own(r)
        /\ OnPath

----------------------------------------
(* What the operations of the model change. *)

(* A view is its fields. *)
LEMMA ViewIsFields ==
  ASSUME NEW place, NEW what, NEW gave, NEW s, NEW v, v = ViewOf(place, what, gave, s)
  PROVE  /\ DOMAIN v = ViewFields /\ v = [f \in ViewFields |-> v[f]]
         /\ v.at = place /\ v.sharing = what /\ v.inbox = gave
         /\ v.req = IF Common(place, s.solo) THEN s.req ELSE None
         /\ v.aside = s.aside /\ v.open = s.open /\ v.drain = s.drain /\ v.rows = s.rows
         /\ v.solo = s.solo /\ v.model = s.model /\ v.store = s.store /\ v.passes = s.passes
         /\ v.loops = s.loops /\ v.iterations = s.iterations
BY DEF ViewOf, ViewFields

(* With changes the fields it is given. *)
LEMMA WithChanges ==
  ASSUME NEW v, NEW w, NEW u, DOMAIN v = ViewFields, w = [f \in ViewFields |-> w[f]],
         \A f \in ViewFields : w[f] = IF f \in DOMAIN u THEN u[f] ELSE v[f]
  PROVE  w = With(v, u)
BY DEF With

(* The locals of a rank have become what they were, with the values given. *)
Becomes(r, values) ==
  \A f \in ServerFields :
    server'[r][f] = IF f \in DOMAIN values THEN values[f] ELSE server[r][f]

(* A rank has moved to a place, sharing an object, with an answer in its inbox. *)
Moves(r, place, what, gave) ==
  at'[r] = place /\ sharing'[r] = what /\ inbox'[r] = gave

(* Nothing has changed at the other ranks. *)
Apart(r) ==
  /\ DOMAIN at' = Ranks /\ DOMAIN sharing' = Ranks /\ DOMAIN offer' = Ranks
  /\ DOMAIN inbox' = Ranks /\ DOMAIN server' = Ranks /\ DOMAIN time' = Ranks
  /\ \A q \in Ranks : DOMAIN server'[q] = ServerFields
  /\ \A q \in Ranks \ {r} :
       /\ at'[q] = at[q] /\ sharing'[q] = sharing[q] /\ offer'[q] = offer[q]
       /\ inbox'[q] = inbox[q] /\ server'[q] = server[q] /\ time'[q] = time[q]
  /\ UNCHANGED clients

(* The locals with the values given. *)
Changed(r, locals, values) ==
  /\ DOMAIN locals = ServerFields
  /\ \A f \in ServerFields :
       locals[f] = IF f \in DOMAIN values THEN values[f] ELSE server[r][f]

(* Update changes the locals of a rank, and Go where it is. *)
LEMMA GoEffects ==
  ASSUME Shaped, NEW r \in Ranks, NEW place, Go(r, place),
         NEW locals, Update(r, locals), NEW values, Changed(r, locals, values)
  PROVE  /\ Apart(r) /\ Moves(r, place, sharing[r], None) /\ Becomes(r, values)
         /\ offer'[r] = offer[r] /\ time'[r] = time[r]
BY DEF Shaped, Update, Go, Apart, Moves, Becomes, Changed, clients

(* Go alone changes none of them. *)
LEMMA GoUnchanged ==
  ASSUME Shaped, NEW r \in Ranks, NEW place, Go(r, place), UNCHANGED server
  PROVE  /\ Apart(r) /\ Moves(r, place, sharing[r], None) /\ Becomes(r, << >>)
         /\ offer'[r] = offer[r] /\ time'[r] = time[r]
BY DEF Shaped, Go, Apart, Moves, Becomes, clients

(* Meet takes a rank to a collective, with what it brings. *)
LEMMA MeetEffects ==
  ASSUME Shaped, NEW r \in Ranks, NEW place, NEW brings, Meet(r, place, brings),
         UNCHANGED sharing, DOMAIN time' = Ranks, \A q \in Ranks \ {r} : time'[q] = time[q],
         NEW locals, Update(r, locals), NEW values, Changed(r, locals, values)
  PROVE  /\ Apart(r) /\ Moves(r, place, sharing[r], None) /\ Becomes(r, values)
         /\ offer'[r] = brings
BY DEF Shaped, Update, Meet, Apart, Moves, Becomes, Changed, clients

(* Meet alone changes none of its locals. *)
LEMMA MeetUnchanged ==
  ASSUME Shaped, NEW r \in Ranks, NEW place, NEW brings, Meet(r, place, brings),
         UNCHANGED <<sharing, server, time>>
  PROVE  /\ Apart(r) /\ Moves(r, place, sharing[r], None) /\ Becomes(r, << >>)
         /\ offer'[r] = brings /\ time'[r] = time[r]
BY DEF Shaped, Meet, Apart, Moves, Becomes, clients

(* Share takes it to the size of an object it shares. *)
LEMMA ShareEffects ==
  ASSUME Shaped, NEW r \in Ranks, NEW what, NEW something, Share(r, what, something),
         DOMAIN time' = Ranks, \A q \in Ranks \ {r} : time'[q] = time[q],
         NEW locals, Update(r, locals), NEW values, Changed(r, locals, values)
  PROVE  /\ Apart(r) /\ Moves(r, "size", what, None) /\ Becomes(r, values)
         /\ offer'[r] = IF r = 0 /\ something THEN 1 ELSE 0
BY DEF Shaped, Update, Share, Meet, Apart, Moves, Becomes, Changed, clients

----------------------------------------
(* A step of a rank takes its view onward. *)

(* The views before and behind a step. *)
LEMMA Views ==
  ASSUME NEW r \in Ranks, NEW place, NEW what, NEW gave, Moves(r, place, what, gave),
         NEW v, v = View(r), NEW w, w = View(r)', NEW values, Becomes(r, values)
  PROVE  /\ DOMAIN v = ViewFields /\ w = [f \in ViewFields |-> w[f]]
         /\ v.at = at[r] /\ v.sharing = sharing[r] /\ v.inbox = inbox[r]
         /\ v.req = IF Common(at[r], server[r].solo) THEN server[r].req ELSE None
         /\ v.aside = server[r].aside /\ v.open = server[r].open /\ v.drain = server[r].drain
         /\ v.rows = server[r].rows /\ v.solo = server[r].solo /\ v.model = server[r].model
         /\ v.store = server[r].store /\ v.passes = server[r].passes
         /\ v.loops = server[r].loops /\ v.iterations = server[r].iterations
         /\ w.at = place /\ w.sharing = what /\ w.inbox = gave
         /\ w.req = IF Common(place, w.solo)
                      THEN IF "req" \in DOMAIN values THEN values.req ELSE server[r].req
                      ELSE None
         /\ \A f \in ViewFields \ {"at", "sharing", "inbox", "req"} :
              w[f] = IF f \in DOMAIN values THEN values[f] ELSE server[r][f]
<1>1. w = ViewOf(place, what, gave, server'[r])
  BY DEF View, Moves
<1>2. /\ DOMAIN v = ViewFields
      /\ v.at = at[r] /\ v.sharing = sharing[r] /\ v.inbox = inbox[r]
      /\ v.req = IF Common(at[r], server[r].solo) THEN server[r].req ELSE None
      /\ v.aside = server[r].aside /\ v.open = server[r].open /\ v.drain = server[r].drain
      /\ v.rows = server[r].rows /\ v.solo = server[r].solo /\ v.model = server[r].model
      /\ v.store = server[r].store /\ v.passes = server[r].passes
      /\ v.loops = server[r].loops /\ v.iterations = server[r].iterations
  BY ViewIsFields DEF View
<1>3. /\ w = [f \in ViewFields |-> w[f]]
      /\ w.at = place /\ w.sharing = what /\ w.inbox = gave
      /\ w.req = IF Common(place, server'[r].solo) THEN server'[r].req ELSE None
      /\ w.aside = server'[r].aside /\ w.open = server'[r].open /\ w.drain = server'[r].drain
      /\ w.rows = server'[r].rows /\ w.solo = server'[r].solo /\ w.model = server'[r].model
      /\ w.store = server'[r].store /\ w.passes = server'[r].passes
      /\ w.loops = server'[r].loops /\ w.iterations = server'[r].iterations
  BY <1>1, ViewIsFields
<1>4. \A f \in ViewFields \ {"at", "sharing", "inbox", "req"} : w[f] = server'[r][f]
  BY <1>3 DEF ViewFields
<1>5. \A f \in ViewFields \ {"at", "sharing", "inbox", "req"} :
        w[f] = IF f \in DOMAIN values THEN values[f] ELSE server[r][f]
  BY <1>4 DEF Becomes, ViewFields, ServerFields
<1>6. server'[r].req = IF "req" \in DOMAIN values THEN values.req ELSE server[r].req
  BY DEF Becomes, ServerFields
<1> QED BY <1>2, <1>3, <1>5, <1>6

(* What a step of a rank starts from, and what it leads to. *)
Ready(r) == Shaped /\ Global /\ OwnRequest /\ Own(r) /\ Sound(View(r), ask)
Done(r) ==
  /\ Apart(r) /\ View(r)' = Onward(View(r), ask)
  /\ Own(r)' /\ Global' /\ OwnRequest'

(* What is sound in terms of the locals. *)
LEMMA SoundLocals ==
  ASSUME NEW r \in Ranks, Sound(View(r), ask)
  PROVE  LET s == server[r] IN
         /\ s.aside \in Seq(Known(ask)) /\ Len(s.aside) <= 1
         /\ Common(at[r], s.solo) => s.aside = <<>> /\ s.req \in Known(ask)
         /\ at[r] \in {"size", "sized", "data", "shared"} /\ sharing[r] = "request" =>
              s.aside = <<>>
         /\ s.solo # None => at[r] \in {"pass", "solo"} /\ ~ask[s.req].batchable
         /\ s.solo # None => s.solo \in Nat \ {0}
         /\ at[r] = "solo" => s.solo # None
         /\ at[r] = "sized" => inbox[r] \in Nat
         /\ at[r] = "shared" /\ sharing[r] = "request" => inbox[r] \in Known(ask)
         /\ at[r] = "timed" => inbox[r] \in Nat \ {0}
         /\ s.iterations \in Nat \ {0} /\ s.passes \in Nat /\ s.loops \in Nat
         /\ at[r] = "budget" => s.passes <= s.iterations
         /\ at[r] \in {"pass", "passed"} /\ s.solo = None => s.passes <= s.iterations
<1>1. PICK v : v = View(r)
  OBVIOUS
<1>2. /\ v.at = at[r] /\ v.sharing = sharing[r] /\ v.inbox = inbox[r]
      /\ v.req = IF Common(at[r], server[r].solo) THEN server[r].req ELSE None
      /\ v.aside = server[r].aside /\ v.solo = server[r].solo /\ v.passes = server[r].passes
      /\ v.loops = server[r].loops /\ v.iterations = server[r].iterations
  BY <1>1, ViewIsFields DEF View
<1> QED BY <1>1, <1>2 DEF Sound, Common

(* The time and the layers a rank has stay, and so what holds of them. *)
LEMMA OthersStay ==
  ASSUME NEW r \in Ranks, Own(r), Apart(r), NEW place, NEW what, NEW gave, NEW values,
         place \notin {"pass", "budget", "passed"},
         Moves(r, place, what, gave), Becomes(r, values), time'[r] = time[r],
         \/ DOMAIN values \cap {"model", "layers"} = {}
         \/ server'[r].model \in {None, server[r].model} /\ "layers" \notin DOMAIN values
  PROVE  Clocked(r)' /\ Loaded(r)'
<1>1. Clocked(r)'
  BY DEF Clocked, Moves, Own
<1>2. server'[r].layers = server[r].layers
  BY DEF Becomes, ServerFields
<1>3. server'[r].model \in {None, server[r].model}
  BY DEF Becomes, ServerFields
<1>4. Layers(r)' = Layers(r)
  BY DEF Layers, Apart, clients
<1> QED BY <1>1, <1>2, <1>3, <1>4 DEF Loaded, Own

(* Nothing a rank has at a meeting, with the budget or of the model changes. *)
LEMMA OwnStays ==
  ASSUME NEW r \in Ranks, Own(r), Apart(r), NEW place, NEW what, NEW gave, NEW values,
         place \notin {"size", "data", "pass", "time", "budget", "passed"},
         Moves(r, place, what, gave), Becomes(r, values), time'[r] = time[r],
         \/ DOMAIN values \cap {"model", "layers"} = {}
         \/ server'[r].model \in {None, server[r].model} /\ "layers" \notin DOMAIN values
  PROVE  Own(r)'
<1>1. Offers(r)'
  BY DEF Offers, Moves
<1> QED BY <1>1, OthersStay DEF Own

(* Rank 0 is a rank. *)
LEMMA ZeroRank == 0 \in Ranks
BY SizeAssumption DEF Ranks

(* Rank 0 shares what it shared, or no request. *)
LEMMA OwnRequestStays ==
  ASSUME NEW r \in Ranks, OwnRequest, Apart(r), NEW place, NEW what, NEW gave,
         Moves(r, place, what, gave), place \notin {"size", "sized", "data"} \/ what # "request"
  PROVE  OwnRequest'
<1>1. 0 \in Ranks
  BY ZeroRank
<1>2. CASE r = 0
  BY <1>2 DEF OwnRequest, Moves
<1>3. CASE r # 0
  BY <1>1, <1>3 DEF OwnRequest, Apart, clients
<1> QED BY <1>2, <1>3

(* Neither queue nor answers change. *)
LEMMA GlobalStays ==
  ASSUME NEW r \in Ranks, Global, Apart(r), UNCHANGED <<answer, queue>>
  PROVE  Global'
BY DEF Global, Apart, clients, Known

(* A client gets a response. *)
LEMMA GlobalAnswers ==
  ASSUME NEW r \in Ranks, Global, Apart(r), UNCHANGED queue,
         NEW c, NEW response \in {"none", "context", "done", "error"}, Put(r, c, response)
  PROVE  Global'
BY DEF Global, Apart, clients, Known, Put

(* A request that was put aside. *)
LEMMA TakeAsideStep ==
  ASSUME NEW r \in Ranks, Ready(r), TakeAside(r)
  PROVE  Done(r)
<1> DEFINE values == [req |-> Last(server[r].aside), aside |-> Front(server[r].aside)]
           locals == [server[r] EXCEPT !.req = Last(server[r].aside),
                                      !.aside = Front(server[r].aside)]
<1>0. Changed(r, locals, values)
  BY DEF Changed, Ready, Shaped, ServerFields
<1>1. /\ Apart(r) /\ Moves(r, "request", sharing[r], None) /\ Becomes(r, values)
      /\ time'[r] = time[r]
  BY <1>0, GoEffects DEF TakeAside, Ready, Shaped
<1>2. PICK v : v = View(r)
  OBVIOUS
<1>3. PICK w : w = View(r)'
  OBVIOUS
<1> DEFINE u == [at |-> "request", inbox |-> None, req |-> Last(v.aside), aside |-> Front(v.aside)]
<1>4. DOMAIN v = ViewFields /\ w = [f \in ViewFields |-> w[f]]
  BY <1>1, <1>2, <1>3, Views
<1>5. Onward(v, ask) = With(v, u)
  BY <1>1, <1>2, <1>3, Views DEF TakeAside, Onward, FromLoop, Common
<1>6. \A f \in ViewFields : w[f] = IF f \in DOMAIN u THEN u[f] ELSE v[f]
  BY <1>1, <1>2, <1>3, Views DEF ViewFields, Common
<1> HIDE DEF u
<1>7. View(r)' = Onward(View(r), ask)
  BY <1>2, <1>3, <1>4, <1>5, <1>6, WithChanges
<1>8. Own(r)'
  BY <1>1, OwnStays DEF Ready
<1>9. Global'
  BY <1>1, GlobalStays DEF Ready, TakeAside
<1>10. OwnRequest'
  BY <1>1, OwnRequestStays DEF Ready, TakeAside
<1> QED BY <1>1, <1>7, <1>8, <1>9, <1>10 DEF Done

(* The queue, of which the other ranks know nothing yet. *)
LEMMA AskQueueStep ==
  ASSUME NEW r \in Ranks, Ready(r), AskQueue(r)
  PROVE  Done(r)
<1> DEFINE values == [req |-> IF r = 0 /\ queue # <<>> THEN Head(queue) ELSE None]
           locals == [server[r] EXCEPT !.req = IF r = 0 /\ queue # <<>> THEN Head(queue) ELSE None]
<1>0. Changed(r, locals, values)
  BY DEF Changed, Ready, Shaped, ServerFields
<1>1. /\ Apart(r) /\ Moves(r, "size", "request", None) /\ Becomes(r, values)
      /\ time'[r] = time[r]
      /\ offer'[r] = IF r = 0 /\ queue # <<>> THEN 1 ELSE 0
  BY <1>0, ShareEffects DEF AskQueue, Ready, Shaped
<1>2. PICK v : v = View(r)
  OBVIOUS
<1>3. PICK w : w = View(r)'
  OBVIOUS
<1> DEFINE u == [at |-> "size", inbox |-> None, sharing |-> "request"]
<1>11. server[r].solo = None /\ at[r] = "loop"
  BY SoundLocals DEF Ready, AskQueue, Common
<1>4. DOMAIN v = ViewFields /\ w = [f \in ViewFields |-> w[f]]
  BY <1>1, <1>2, <1>3, Views
<1>5. Onward(v, ask) = With(v, u)
  BY <1>1, <1>2, <1>3, Views, <1>11 DEF AskQueue, Onward, FromLoop, Common
<1>6. \A f \in ViewFields : w[f] = IF f \in DOMAIN u THEN u[f] ELSE v[f]
  BY <1>1, <1>2, <1>3, Views, <1>11 DEF ViewFields, Common
<1> HIDE DEF u
<1>7. View(r)' = Onward(View(r), ask)
  BY <1>2, <1>3, <1>4, <1>5, <1>6, WithChanges
<1>8. Own(r)'
  <2>1. queue # <<>> => Head(queue) # None
    BY NoneAssumption DEF Ready, Global, Known
  <2>2. server'[r].req = IF r = 0 /\ queue # <<>> THEN Head(queue) ELSE None
    BY <1>1 DEF Becomes, ServerFields
  <2>3. Offers(r)'
    BY <1>1, <2>1, <2>2 DEF Offers, Moves
  <2>4. Clocked(r)' /\ Loaded(r)'
    BY <1>1, OthersStay DEF Ready
  <2> QED BY <2>3, <2>4 DEF Own
<1>9. Global'
  <2>1. queue' \in Seq(Known(ask))
    BY DEF AskQueue, Ready, Global
  <2>2. UNCHANGED <<answer, clients>>
    BY <1>1 DEF AskQueue, Apart
  <2> QED BY <2>1, <2>2 DEF Ready, Global, clients, Known
<1>10. OwnRequest'
  <2>1. CASE r = 0
    <3>1. server'[r].req = IF r = 0 /\ queue # <<>> THEN Head(queue) ELSE None
      BY <1>1 DEF Becomes, ServerFields
    <3>2. UNCHANGED ask
      BY <1>1 DEF Apart, clients
    <3> QED BY <1>1, <2>1, <3>1, <3>2 DEF OwnRequest, Moves, Known, Ready, Global
  <2>2. CASE r # 0
    BY <1>1, <2>2, ZeroRank DEF Ready, OwnRequest, Apart, clients
  <2> QED BY <2>1, <2>2
<1> QED BY <1>1, <1>7, <1>8, <1>9, <1>10 DEF Done

(* What it shares, behind its size. *)
LEMMA ShareDataStep ==
  ASSUME NEW r \in Ranks, Ready(r), ShareData(r)
  PROVE  Done(r)
<1> DEFINE values == << >>
<1>1. /\ Apart(r) /\ Moves(r, "data", sharing[r], None) /\ Becomes(r, values)
      /\ time'[r] = time[r]
      /\ offer'[r] = IF r # 0 THEN None
                     ELSE IF sharing[r] = "request" THEN server[r].req ELSE server[r].gone
  BY MeetUnchanged DEF ShareData, Ready, Shaped
<1>2. PICK v : v = View(r)
  OBVIOUS
<1>3. PICK w : w = View(r)'
  OBVIOUS
<1> DEFINE u == [at |-> "data", inbox |-> None]
<1>11. inbox[r] \in Nat /\ inbox[r] # 0 /\ server[r].solo = None /\ at[r] = "sized"
  BY SoundLocals DEF Ready, ShareData, Common
<1>4. DOMAIN v = ViewFields /\ w = [f \in ViewFields |-> w[f]]
  BY <1>1, <1>2, <1>3, Views
<1>5. Onward(v, ask) = With(v, u)
  BY <1>1, <1>2, <1>3, Views, <1>11 DEF ShareData, Onward, FromSized, Common
<1>6. \A f \in ViewFields : w[f] = IF f \in DOMAIN u THEN u[f] ELSE v[f]
  BY <1>1, <1>2, <1>3, Views, <1>11 DEF ViewFields, Common
<1> HIDE DEF u
<1>7. View(r)' = Onward(View(r), ask)
  BY <1>2, <1>3, <1>4, <1>5, <1>6, WithChanges
<1>8. Own(r)'
  <2>1. server'[r] = server[r]
    BY DEF ShareData
  <2>2. Offers(r)'
    BY <1>1, <2>1 DEF Offers, Moves
  <2>4. Clocked(r)' /\ Loaded(r)'
    BY <1>1, OthersStay DEF Ready
  <2> QED BY <2>2, <2>4 DEF Own
<1>9. Global'
  BY <1>1, GlobalStays DEF Ready, ShareData
<1>10. OwnRequest'
  <2>1. CASE r = 0
    <3>1. server'[r] = server[r] /\ UNCHANGED ask
      BY <1>1 DEF ShareData, Apart, clients
    <3> QED BY <1>1, <1>11, <2>1, <3>1 DEF OwnRequest, Moves, Known, Ready, ShareData
  <2>2. CASE r # 0
    BY <1>1, <2>2, ZeroRank DEF Ready, OwnRequest, Apart, clients
  <2> QED BY <2>1, <2>2
<1> QED BY <1>1, <1>7, <1>8, <1>9, <1>10 DEF Done

(* The request they share. *)
LEMMA TakeSharedStep ==
  ASSUME NEW r \in Ranks, Ready(r), TakeShared(r)
  PROVE  Done(r)
<1> DEFINE values == [req |-> inbox[r]]
           locals == [server[r] EXCEPT !.req = inbox[r]]
<1>0. Changed(r, locals, values)
  BY DEF Changed, Ready, Shaped, ServerFields
<1>1. /\ Apart(r) /\ Moves(r, "request", sharing[r], None) /\ Becomes(r, values)
      /\ time'[r] = time[r]
  BY <1>0, GoEffects DEF TakeShared, Ready, Shaped
<1>2. PICK v : v = View(r)
  OBVIOUS
<1>3. PICK w : w = View(r)'
  OBVIOUS
<1> DEFINE u == [at |-> "request", inbox |-> None, req |-> v.inbox]
<1>4. DOMAIN v = ViewFields /\ w = [f \in ViewFields |-> w[f]]
  BY <1>1, <1>2, <1>3, Views
<1>5. Onward(v, ask) = With(v, u)
  BY <1>1, <1>2, <1>3, Views DEF TakeShared, Onward, FromShared, Common
<1>6. \A f \in ViewFields : w[f] = IF f \in DOMAIN u THEN u[f] ELSE v[f]
  BY <1>1, <1>2, <1>3, Views DEF ViewFields, Common
<1> HIDE DEF u
<1>7. View(r)' = Onward(View(r), ask)
  BY <1>2, <1>3, <1>4, <1>5, <1>6, WithChanges
<1>8. Own(r)'
  BY <1>1, OwnStays DEF Ready
<1>9. Global'
  BY <1>1, GlobalStays DEF Ready, TakeShared
<1>10. OwnRequest'
  BY <1>1, OwnRequestStays DEF Ready, TakeShared
<1> QED BY <1>1, <1>7, <1>8, <1>9, <1>10 DEF Done

(* A request joins the batch: its row is the same on every rank, and so is what
   the prompt cache keeps. *)
LEMMA JoinBatchStep ==
  ASSUME CacheBytes = 0, NEW r \in Ranks, Ready(r), JoinBatch(r)
  PROVE  Done(r)
<1> DEFINE values == [rows |-> Append(server[r].rows, NewRow(server[r].req, Request(r), server[r].store)),
                      req |-> None, store |-> Limited(server[r].store, CacheSize)]
           locals == [server[r] EXCEPT
                        !.rows = Append(server[r].rows,
                                        NewRow(server[r].req, Request(r), server[r].store)),
                        !.req = None, !.store = Limited(server[r].store, CacheSize)]
<1>0. Changed(r, locals, values)
  BY DEF Changed, Ready, Shaped, ServerFields
<1>1. /\ Apart(r) /\ Moves(r, "loop", sharing[r], None) /\ Becomes(r, values)
      /\ time'[r] = time[r]
  BY <1>0, GoEffects DEF JoinBatch, Ready, Shaped, Room
<1>2. PICK v : v = View(r)
  OBVIOUS
<1>3. PICK w : w = View(r)'
  OBVIOUS
<1> DEFINE u == [at |-> "loop", inbox |-> None, req |-> None,
                 rows |-> Append(v.rows, NewRow(v.req, ask[v.req], v.store)),
                 store |-> Limited(v.store, CacheSize)]
<1>11. /\ server[r].req \in Known(ask) /\ server[r].aside = <<>>
       /\ server[r].solo = None /\ at[r] = "request"
  BY SoundLocals DEF Ready, JoinBatch, Common
<1>4. DOMAIN v = ViewFields /\ w = [f \in ViewFields |-> w[f]]
  BY <1>1, <1>2, <1>3, Views
<1>5. Onward(v, ask) = With(v, u)
  BY <1>1, <1>2, <1>3, Views, <1>11 DEF JoinBatch, Onward, FromRequest, Joins, Request, Common
<1>6. \A f \in ViewFields : w[f] = IF f \in DOMAIN u THEN u[f] ELSE v[f]
  <2>1. /\ v.req = server[r].req /\ v.rows = server[r].rows /\ v.store = server[r].store
        /\ Request(r) = ask[v.req]
    BY <1>1, <1>2, <1>3, <1>11, Views DEF Common, Request
  <2>2. values.rows = u.rows /\ values.store = u.store /\ values.req = u.req
    BY <2>1
  <2>3. DOMAIN values = {"rows", "req", "store"}
        /\ DOMAIN u = {"at", "inbox", "req", "rows", "store"}
        /\ u.at = "loop" /\ u.inbox = None /\ u.req = None
    OBVIOUS
  <2> HIDE DEF u, values
  <2> QED BY <1>1, <1>2, <1>3, <1>11, <2>2, <2>3, Views DEF ViewFields, Common
<1> HIDE DEF u
<1>7. View(r)' = Onward(View(r), ask)
  BY <1>2, <1>3, <1>4, <1>5, <1>6, WithChanges
<1>8. Own(r)'
  BY <1>1, OwnStays DEF Ready
<1>9. Global'
  BY <1>1, GlobalAnswers DEF Ready, JoinBatch
<1>10. OwnRequest'
  BY <1>1, OwnRequestStays DEF Ready, JoinBatch
<1> QED BY <1>1, <1>7, <1>8, <1>9, <1>10 DEF Done

(* A request that would join fails. *)
LEMMA RefuseJoinStep ==
  ASSUME NEW r \in Ranks, Ready(r), RefuseJoin(r)
  PROVE  Done(r)
<1> DEFINE values == [req |-> None, model |-> server[r].model]
           locals == [server[r] EXCEPT !.req = None, !.model = server[r].model]
<1>0. Changed(r, locals, values)
  BY DEF Changed, Ready, Shaped, ServerFields
<1>1. /\ Apart(r) /\ Moves(r, "loop", sharing[r], None) /\ Becomes(r, values)
      /\ time'[r] = time[r]
  BY <1>0, GoEffects DEF RefuseJoin, Ready, Shaped, Fail
<1>2. PICK v : v = View(r)
  OBVIOUS
<1>3. PICK w : w = View(r)'
  OBVIOUS
<1> DEFINE u == [at |-> "loop", inbox |-> None, req |-> None]
<1>11. /\ server[r].req \in Known(ask) /\ server[r].aside = <<>>
       /\ server[r].solo = None /\ at[r] = "request"
  BY SoundLocals DEF Ready, RefuseJoin, Common
<1>4. DOMAIN v = ViewFields /\ w = [f \in ViewFields |-> w[f]]
  BY <1>1, <1>2, <1>3, Views
<1>5. Onward(v, ask) = With(v, u)
  BY <1>1, <1>2, <1>3, Views, <1>11 DEF RefuseJoin, Onward, FromRequest, Joins, Request, Common
<1>6. \A f \in ViewFields : w[f] = IF f \in DOMAIN u THEN u[f] ELSE v[f]
  BY <1>1, <1>2, <1>3, Views, <1>11 DEF ViewFields, Common
<1> HIDE DEF u
<1>7. View(r)' = Onward(View(r), ask)
  BY <1>2, <1>3, <1>4, <1>5, <1>6, WithChanges
<1>8. Own(r)'
  <2>1. server'[r].model = server[r].model
    BY <1>1 DEF Becomes, ServerFields
  <2> QED BY <1>1, <2>1, OwnStays DEF Ready
<1>9. Global'
  BY <1>1, GlobalAnswers DEF Ready, RefuseJoin, Fail
<1>10. OwnRequest'
  BY <1>1, OwnRequestStays DEF Ready, RefuseJoin
<1> QED BY <1>1, <1>7, <1>8, <1>9, <1>10 DEF Done

(* There is no such model. *)
LEMMA RefuseLoadStep ==
  ASSUME NEW r \in Ranks, Ready(r), RefuseLoad(r)
  PROVE  Done(r)
<1> DEFINE values == [req |-> None, model |-> None]
           locals == [server[r] EXCEPT !.req = None, !.model = None]
<1>0. Changed(r, locals, values)
  BY DEF Changed, Ready, Shaped, ServerFields
<1>1. /\ Apart(r) /\ Moves(r, "loop", sharing[r], None) /\ Becomes(r, values)
      /\ time'[r] = time[r]
  BY <1>0, GoEffects DEF RefuseLoad, Ready, Shaped, Fail
<1>2. PICK v : v = View(r)
  OBVIOUS
<1>3. PICK w : w = View(r)'
  OBVIOUS
<1> DEFINE u == [at |-> "loop", inbox |-> None, req |-> None, model |-> None]
<1>11. /\ server[r].req \in Known(ask) /\ server[r].aside = <<>>
       /\ server[r].solo = None /\ at[r] = "request"
  BY SoundLocals DEF Ready, RefuseLoad, Common
<1>12. ask[server[r].req].model # None
  BY <1>11, KindsAssumption DEF Ready, Global, Known, Kinds
<1>4. DOMAIN v = ViewFields /\ w = [f \in ViewFields |-> w[f]]
  BY <1>1, <1>2, <1>3, Views
<1>5. Onward(v, ask) = With(v, u)
  BY <1>1, <1>2, <1>3, Views, <1>11, <1>12 DEF RefuseLoad, Onward, FromRequest, Joins, Request,
     Common
<1>6. \A f \in ViewFields : w[f] = IF f \in DOMAIN u THEN u[f] ELSE v[f]
  BY <1>1, <1>2, <1>3, Views, <1>11, <1>12 DEF ViewFields, Common
<1> HIDE DEF u
<1>7. View(r)' = Onward(View(r), ask)
  BY <1>2, <1>3, <1>4, <1>5, <1>6, WithChanges
<1>8. Own(r)'
  <2>1. server'[r].model = None
    BY <1>1 DEF Becomes, ServerFields
  <2> QED BY <1>1, <2>1, OwnStays DEF Ready
<1>9. Global'
  BY <1>1, GlobalAnswers DEF Ready, RefuseLoad, Fail
<1>10. OwnRequest'
  BY <1>1, OwnRequestStays DEF Ready, RefuseLoad
<1> QED BY <1>1, <1>7, <1>8, <1>9, <1>10 DEF Done

(* A request that does not fit the batch is put aside. *)
LEMMA StartDrainingStep ==
  ASSUME NEW r \in Ranks, Ready(r), StartDraining(r)
  PROVE  Done(r)
<1> DEFINE values == [drain |-> TRUE, req |-> None, aside |-> Append(server[r].aside, server[r].req)]
           locals == [server[r] EXCEPT !.drain = TRUE, !.req = None,
                                      !.aside = Append(server[r].aside, server[r].req)]
<1>0. Changed(r, locals, values)
  BY DEF Changed, Ready, Shaped, ServerFields
<1>1. /\ Apart(r) /\ Moves(r, "loop", sharing[r], None) /\ Becomes(r, values)
      /\ time'[r] = time[r]
  BY <1>0, GoEffects DEF StartDraining, Ready, Shaped
<1>2. PICK v : v = View(r)
  OBVIOUS
<1>3. PICK w : w = View(r)'
  OBVIOUS
<1> DEFINE u == [at |-> "loop", inbox |-> None, req |-> None, drain |-> TRUE, aside |-> Append(v.aside, v.req)]
<1>11. /\ server[r].req \in Known(ask) /\ server[r].aside = <<>>
       /\ server[r].solo = None /\ at[r] = "request"
  BY SoundLocals DEF Ready, StartDraining, Common
<1>4. DOMAIN v = ViewFields /\ w = [f \in ViewFields |-> w[f]]
  BY <1>1, <1>2, <1>3, Views
<1>5. Onward(v, ask) = With(v, u)
  BY <1>1, <1>2, <1>3, Views, <1>11 DEF StartDraining, Onward, FromRequest, Joins, Request, Common
<1>6. \A f \in ViewFields : w[f] = IF f \in DOMAIN u THEN u[f] ELSE v[f]
  <2>1. v.req = server[r].req /\ v.aside = server[r].aside
    BY <1>1, <1>2, <1>3, <1>11, Views DEF Common, Request
  <2>2. values.aside = u.aside /\ values.drain = u.drain
    BY <2>1
  <2>3. DOMAIN values = {"drain", "req", "aside"}
        /\ DOMAIN u = {"at", "inbox", "req", "drain", "aside"}
        /\ u.at = "loop" /\ u.inbox = None /\ u.req = None /\ values.req = None
    OBVIOUS
  <2> HIDE DEF u, values
  <2> QED BY <1>1, <1>2, <1>3, <1>11, <2>2, <2>3, Views DEF ViewFields, Common
<1> HIDE DEF u
<1>7. View(r)' = Onward(View(r), ask)
  BY <1>2, <1>3, <1>4, <1>5, <1>6, WithChanges
<1>8. Own(r)'
  BY <1>1, OwnStays DEF Ready
<1>9. Global'
  BY <1>1, GlobalStays DEF Ready, StartDraining
<1>10. OwnRequest'
  BY <1>1, OwnRequestStays DEF Ready, StartDraining
<1> QED BY <1>1, <1>7, <1>8, <1>9, <1>10 DEF Done

(* The model is the one a rank has. *)
LEMMA KeepModelStep ==
  ASSUME NEW r \in Ranks, Ready(r), Load(r), server[r].model = Request(r).model
  PROVE  Done(r)
<1> DEFINE values == << >>
<1>1. /\ Apart(r) /\ Moves(r, "loaded", sharing[r], None) /\ Becomes(r, values)
      /\ time'[r] = time[r]
  BY GoUnchanged DEF Load, Ready, Shaped
<1>2. PICK v : v = View(r)
  OBVIOUS
<1>3. PICK w : w = View(r)'
  OBVIOUS
<1> DEFINE u == [at |-> "loaded", inbox |-> None]
<1>11. /\ server[r].req \in Known(ask) /\ server[r].aside = <<>>
       /\ server[r].solo = None /\ at[r] = "request"
  BY SoundLocals DEF Ready, Load, Common
<1>12. ask[server[r].req].model # None
  BY <1>11, KindsAssumption DEF Ready, Global, Known, Kinds
<1>4. DOMAIN v = ViewFields /\ w = [f \in ViewFields |-> w[f]]
  BY <1>1, <1>2, <1>3, Views
<1>5. Onward(v, ask) = With(v, u)
  BY <1>1, <1>2, <1>3, Views, <1>11, <1>12 DEF Load, Onward, FromRequest, Joins, Request, Common
<1>6. \A f \in ViewFields : w[f] = IF f \in DOMAIN u THEN u[f] ELSE v[f]
  BY <1>1, <1>2, <1>3, Views, <1>11, <1>12 DEF ViewFields, Common
<1> HIDE DEF u
<1>7. View(r)' = Onward(View(r), ask)
  BY <1>2, <1>3, <1>4, <1>5, <1>6, WithChanges
<1>8. Own(r)'
  BY <1>1, OwnStays DEF Ready
<1>9. Global'
  BY <1>1, GlobalStays DEF Ready, Load
<1>10. OwnRequest'
  BY <1>1, OwnRequestStays DEF Ready, Load
<1> QED BY <1>1, <1>7, <1>8, <1>9, <1>10 DEF Done

(* It is another one: every rank loads its layers. *)
LEMMA LoadModelStep ==
  ASSUME NEW r \in Ranks, Ready(r), Load(r), server[r].model # Request(r).model
  PROVE  Done(r)
<1> DEFINE values == [model |-> Request(r).model, layers |-> Layers(r)]
           locals == [server[r] EXCEPT !.model = Request(r).model, !.layers = Layers(r)]
<1>0. Changed(r, locals, values)
  BY DEF Changed, Ready, Shaped, ServerFields
<1>1. /\ Apart(r) /\ Moves(r, "load", sharing[r], None) /\ Becomes(r, values)
      /\ time'[r] = time[r]
  BY <1>0, MeetEffects DEF Load, Ready, Shaped
<1>2. PICK v : v = View(r)
  OBVIOUS
<1>3. PICK w : w = View(r)'
  OBVIOUS
<1> DEFINE u == [at |-> "load", inbox |-> None, model |-> ask[v.req].model]
<1>11. /\ server[r].req \in Known(ask) /\ server[r].aside = <<>>
       /\ server[r].solo = None /\ at[r] = "request"
  BY SoundLocals DEF Ready, Load, Common
<1>12. ask[server[r].req].model # None
  BY <1>11, KindsAssumption DEF Ready, Global, Known, Kinds
<1>4. DOMAIN v = ViewFields /\ w = [f \in ViewFields |-> w[f]]
  BY <1>1, <1>2, <1>3, Views
<1>5. Onward(v, ask) = With(v, u)
  BY <1>1, <1>2, <1>3, Views, <1>11, <1>12 DEF Load, Onward, FromRequest, Joins, Request, Common
<1>6. \A f \in ViewFields : w[f] = IF f \in DOMAIN u THEN u[f] ELSE v[f]
  BY <1>1, <1>2, <1>3, Views, <1>11, <1>12 DEF ViewFields, Common, Request
<1> HIDE DEF u
<1>7. View(r)' = Onward(View(r), ask)
  BY <1>2, <1>3, <1>4, <1>5, <1>6, WithChanges
<1>8. Own(r)'
  <2>1. server'[r].layers = Layers(r)
    BY <1>1 DEF Becomes, ServerFields
  <2>2. Layers(r)' = Layers(r)
    BY <1>1 DEF Layers, Apart, clients
  <2>3. Clocked(r)'
    BY <1>1 DEF Clocked, Moves, Ready, Own
  <2>4. Offers(r)'
    BY <1>1 DEF Offers, Moves
  <2> QED BY <2>1, <2>2, <2>3, <2>4 DEF Own, Loaded
<1>9. Global'
  BY <1>1, GlobalStays DEF Ready, Load
<1>10. OwnRequest'
  BY <1>1, OwnRequestStays DEF Ready, Load
<1> QED BY <1>1, <1>7, <1>8, <1>9, <1>10 DEF Done

(* A batch opens for a request, which is put aside until the next time round. *)
LEMMA OpenBatchStep ==
  ASSUME NEW r \in Ranks, Ready(r), OpenBatch(r)
  PROVE  Done(r)
<1> DEFINE values == [open |-> Request(r).model, rows |-> <<>>, req |-> None,
                      aside |-> Append(server[r].aside, server[r].req)]
           locals == [server[r] EXCEPT !.open = Request(r).model, !.rows = <<>>, !.req = None,
                                      !.aside = Append(server[r].aside, server[r].req)]
<1>0. Changed(r, locals, values)
  BY DEF Changed, Ready, Shaped, ServerFields
<1>1. /\ Apart(r) /\ Moves(r, "loop", sharing[r], None) /\ Becomes(r, values)
      /\ time'[r] = time[r]
  BY <1>0, GoEffects DEF OpenBatch, Ready, Shaped
<1>2. PICK v : v = View(r)
  OBVIOUS
<1>3. PICK w : w = View(r)'
  OBVIOUS
<1> DEFINE u == [at |-> "loop", inbox |-> None, req |-> None, open |-> ask[v.req].model, rows |-> <<>>,
                 aside |-> Append(v.aside, v.req)]
<1>11. /\ server[r].req \in Known(ask) /\ server[r].aside = <<>>
       /\ server[r].solo = None /\ at[r] = "loaded"
  BY SoundLocals DEF Ready, OpenBatch, Common
<1>4. DOMAIN v = ViewFields /\ w = [f \in ViewFields |-> w[f]]
  BY <1>1, <1>2, <1>3, Views
<1>5. Onward(v, ask) = With(v, u)
  BY <1>1, <1>2, <1>3, Views, <1>11 DEF OpenBatch, Onward, FromLoaded, Request, Common
<1>6. \A f \in ViewFields : w[f] = IF f \in DOMAIN u THEN u[f] ELSE v[f]
  <2>1. /\ v.req = server[r].req /\ v.aside = server[r].aside /\ Request(r) = ask[v.req]
    BY <1>1, <1>2, <1>3, <1>11, Views DEF Common, Request
  <2>2. values.open = u.open /\ values.rows = u.rows /\ values.aside = u.aside
    BY <2>1
  <2>3. DOMAIN values = {"open", "rows", "req", "aside"}
        /\ DOMAIN u = {"at", "inbox", "req", "open", "rows", "aside"}
        /\ u.at = "loop" /\ u.inbox = None /\ u.req = None
    OBVIOUS
  <2> HIDE DEF u, values
  <2> QED BY <1>1, <1>2, <1>3, <1>11, <2>2, <2>3, Views DEF ViewFields, Common
<1> HIDE DEF u
<1>7. View(r)' = Onward(View(r), ask)
  BY <1>2, <1>3, <1>4, <1>5, <1>6, WithChanges
<1>8. Own(r)'
  BY <1>1, OwnStays DEF Ready
<1>9. Global'
  BY <1>1, GlobalStays DEF Ready, OpenBatch
<1>10. OwnRequest'
  BY <1>1, OwnRequestStays DEF Ready, OpenBatch
<1> QED BY <1>1, <1>7, <1>8, <1>9, <1>10 DEF Done

(* A request that is served alone fails. *)
LEMMA RefuseSingleStep ==
  ASSUME NEW r \in Ranks, Ready(r), RefuseSingle(r)
  PROVE  Done(r)
<1> DEFINE values == [req |-> None, model |-> server[r].model]
           locals == [server[r] EXCEPT !.req = None, !.model = server[r].model]
<1>0. Changed(r, locals, values)
  BY DEF Changed, Ready, Shaped, ServerFields
<1>1. /\ Apart(r) /\ Moves(r, "loop", sharing[r], None) /\ Becomes(r, values)
      /\ time'[r] = time[r]
  BY <1>0, GoEffects DEF RefuseSingle, Ready, Shaped, Fail
<1>2. PICK v : v = View(r)
  OBVIOUS
<1>3. PICK w : w = View(r)'
  OBVIOUS
<1> DEFINE u == [at |-> "loop", inbox |-> None, req |-> None]
<1>11. /\ server[r].req \in Known(ask) /\ server[r].aside = <<>>
       /\ server[r].solo = None /\ at[r] = "loaded"
  BY SoundLocals DEF Ready, RefuseSingle, Common
<1>4. DOMAIN v = ViewFields /\ w = [f \in ViewFields |-> w[f]]
  BY <1>1, <1>2, <1>3, Views
<1>5. Onward(v, ask) = With(v, u)
  BY <1>1, <1>2, <1>3, Views, <1>11 DEF RefuseSingle, Onward, FromLoaded, Request, Common
<1>6. \A f \in ViewFields : w[f] = IF f \in DOMAIN u THEN u[f] ELSE v[f]
  BY <1>1, <1>2, <1>3, Views, <1>11 DEF ViewFields, Common
<1> HIDE DEF u
<1>7. View(r)' = Onward(View(r), ask)
  BY <1>2, <1>3, <1>4, <1>5, <1>6, WithChanges
<1>8. Own(r)'
  <2>1. server'[r].model = server[r].model
    BY <1>1 DEF Becomes, ServerFields
  <2> QED BY <1>1, <2>1, OwnStays DEF Ready
<1>9. Global'
  BY <1>1, GlobalAnswers DEF Ready, RefuseSingle, Fail
<1>10. OwnRequest'
  BY <1>1, OwnRequestStays DEF Ready, RefuseSingle
<1> QED BY <1>1, <1>7, <1>8, <1>9, <1>10 DEF Done

(* A request is served alone. *)
LEMMA ServeSingleStep ==
  ASSUME NEW r \in Ranks, Ready(r), ServeSingle(r)
  PROVE  Done(r)
<1> DEFINE values == [solo |-> Passes(server[r].store, Request(r))]
           locals == [server[r] EXCEPT !.solo = Passes(server[r].store, Request(r))]
<1>0. Changed(r, locals, values)
  BY DEF Changed, Ready, Shaped, ServerFields
<1>1. /\ Apart(r) /\ Moves(r, "pass", sharing[r], None) /\ Becomes(r, values)
      /\ time'[r] = time[r]
      /\ offer'[r] = <<NewRow(server[r].req, Request(r), server[r].store)>>
  BY <1>0, MeetEffects DEF ServeSingle, Ready, Shaped
<1>2. PICK v : v = View(r)
  OBVIOUS
<1>3. PICK w : w = View(r)'
  OBVIOUS
<1> DEFINE u == [at |-> "pass", inbox |-> None, solo |-> Passes(v.store, ask[v.req])]
<1>11. /\ server[r].req \in Known(ask) /\ server[r].aside = <<>>
       /\ server[r].solo = None /\ at[r] = "loaded"
  BY SoundLocals DEF Ready, ServeSingle, Common
<1>12. Passes(server[r].store, Request(r)) \in Nat \ {0}
  <2>1. Request(r) \in Kinds
    BY <1>11 DEF Ready, Global, Known, Kinds, Request
  <2> QED BY <2>1, KindsAssumption DEF Passes
<1>13. server'[r].solo # None /\ server'[r].req = server[r].req
      /\ server'[r].solo = Passes(server[r].store, Request(r))
  BY <1>1, <1>12, NoneAssumption DEF Becomes, ServerFields
<1>4. DOMAIN v = ViewFields /\ w = [f \in ViewFields |-> w[f]]
  BY <1>1, <1>2, <1>3, Views
<1>5. Onward(v, ask) = With(v, u)
  BY <1>1, <1>2, <1>3, Views, <1>11, <1>12, NoneAssumption DEF ServeSingle, Onward, FromLoaded,
     Request, Common
<1>6. \A f \in ViewFields : w[f] = IF f \in DOMAIN u THEN u[f] ELSE v[f]
  BY <1>1, <1>2, <1>3, Views, <1>11, <1>12, NoneAssumption DEF ViewFields, Common, Request
<1> HIDE DEF u
<1>7. View(r)' = Onward(View(r), ask)
  BY <1>2, <1>3, <1>4, <1>5, <1>6, WithChanges
<1>8. Own(r)'
  <2>1. Offers(r)'
    BY <1>1, <1>13 DEF Offers, Moves, NewRow, Request, Apart, clients
  <2>2. Clocked(r)'
    BY <1>1, <1>13 DEF Clocked, Moves, Ready, Own
  <2>3. Loaded(r)'
    <3>1. server'[r].layers = server[r].layers /\ server'[r].model = server[r].model
      BY <1>1 DEF Becomes, ServerFields
    <3>2. Layers(r)' = Layers(r)
      BY <1>1 DEF Layers, Apart, clients
    <3> QED BY <3>1, <3>2 DEF Loaded, Ready, Own
  <2> QED BY <2>1, <2>2, <2>3 DEF Own
<1>9. Global'
  BY <1>1, GlobalAnswers DEF Ready, ServeSingle
<1>10. OwnRequest'
  BY <1>1, OwnRequestStays DEF Ready, ServeSingle
<1> QED BY <1>1, <1>7, <1>8, <1>9, <1>10 DEF Done

(* The last pass of a request that is served alone. *)
LEMMA EndSingleStep ==
  ASSUME CacheBytes = 0, NEW r \in Ranks, Ready(r), NextSingle(r), server[r].req \notin left, server[r].solo - 1 = 0
  PROVE  Done(r)
<1> DEFINE values == [solo |-> None, req |-> None,
                      store |-> Inserted(server[r].store, ask[server[r].req].topic, CacheSize)]
           locals == [server[r] EXCEPT
                        !.solo = None, !.req = None,
                        !.store = Inserted(server[r].store, ask[server[r].req].topic, CacheSize)]
<1>0. Changed(r, locals, values)
  BY DEF Changed, Ready, Shaped, ServerFields
<1>1. /\ Apart(r) /\ Moves(r, "loop", sharing[r], None) /\ Becomes(r, values)
      /\ time'[r] = time[r]
  BY <1>0, GoEffects DEF NextSingle, Ready, Shaped, Room
<1>2. PICK v : v = View(r)
  OBVIOUS
<1>3. PICK w : w = View(r)'
  OBVIOUS
<1> DEFINE u == [at |-> "loop", inbox |-> None, req |-> None, solo |-> None,
                 store |-> Inserted(v.store, ask[v.req].topic, CacheSize)]
<1>11. /\ server[r].solo \in Nat \ {0} /\ server[r].req \in Known(ask)
       /\ server[r].aside = <<>> /\ at[r] = "solo"
  BY SoundLocals DEF Ready, NextSingle, Common
<1>4. DOMAIN v = ViewFields /\ w = [f \in ViewFields |-> w[f]]
  BY <1>1, <1>2, <1>3, Views
<1>5. Onward(v, ask) = With(v, u)
  BY <1>1, <1>2, <1>3, Views, <1>11, NoneAssumption DEF NextSingle, Onward, FromSolo, Common
<1>6. \A f \in ViewFields : w[f] = IF f \in DOMAIN u THEN u[f] ELSE v[f]
  <2>1. v.req = server[r].req /\ v.store = server[r].store
    BY <1>1, <1>2, <1>3, <1>11, Views, NoneAssumption DEF Common, Request
  <2>2. values.store = u.store
    BY <2>1
  <2>3. DOMAIN values = {"solo", "req", "store"}
        /\ DOMAIN u = {"at", "inbox", "req", "solo", "store"}
        /\ u.at = "loop" /\ u.inbox = None /\ u.req = None /\ values.req = None
        /\ u.solo = None /\ values.solo = None
    OBVIOUS
  <2> HIDE DEF u, values
  <2> QED BY <1>1, <1>2, <1>3, <1>11, <2>2, <2>3, Views DEF ViewFields, Common
<1> HIDE DEF u
<1>7. View(r)' = Onward(View(r), ask)
  BY <1>2, <1>3, <1>4, <1>5, <1>6, WithChanges
<1>8. Own(r)'
  BY <1>1, OwnStays DEF Ready
<1>9. Global'
  BY <1>1, GlobalAnswers DEF Ready, NextSingle
<1>10. OwnRequest'
  BY <1>1, OwnRequestStays DEF Ready, NextSingle
<1> QED BY <1>1, <1>7, <1>8, <1>9, <1>10 DEF Done

(* Another one is left. *)
LEMMA GoOnSingleStep ==
  ASSUME NEW r \in Ranks, Ready(r), NextSingle(r), server[r].req \notin left, server[r].solo - 1 # 0
  PROVE  Done(r)
<1> DEFINE values == [solo |-> server[r].solo - 1]
           locals == [server[r] EXCEPT !.solo = server[r].solo - 1]
<1>0. Changed(r, locals, values)
  BY DEF Changed, Ready, Shaped, ServerFields
<1>1. /\ Apart(r) /\ Moves(r, "pass", sharing[r], None) /\ Becomes(r, values)
      /\ time'[r] = time[r]
      /\ offer'[r] = <<[client |-> server[r].req, topic |-> ask[server[r].req].topic,
                        left |-> server[r].solo - 1]>>
  BY <1>0, MeetEffects DEF NextSingle, Ready, Shaped
<1>2. PICK v : v = View(r)
  OBVIOUS
<1>3. PICK w : w = View(r)'
  OBVIOUS
<1> DEFINE u == [at |-> "pass", inbox |-> None, solo |-> v.solo - 1]
<1>11. /\ server[r].solo \in Nat \ {0} /\ server[r].req \in Known(ask)
       /\ server[r].aside = <<>> /\ server[r].solo # None /\ at[r] = "solo"
  BY SoundLocals DEF Ready, NextSingle, Common
<1>12. server'[r].solo # None /\ server'[r].req = server[r].req
      /\ server'[r].solo = server[r].solo - 1
  BY <1>1, <1>11, NoneAssumption DEF Becomes, ServerFields
<1>4. DOMAIN v = ViewFields /\ w = [f \in ViewFields |-> w[f]]
  BY <1>1, <1>2, <1>3, Views
<1>5. Onward(v, ask) = With(v, u)
  BY <1>1, <1>2, <1>3, Views, <1>11, <1>12, NoneAssumption DEF NextSingle, Onward, FromSolo,
     Common
<1>6. \A f \in ViewFields : w[f] = IF f \in DOMAIN u THEN u[f] ELSE v[f]
  BY <1>1, <1>2, <1>3, Views, <1>11, <1>12, NoneAssumption DEF ViewFields, Common
<1> HIDE DEF u
<1>7. View(r)' = Onward(View(r), ask)
  BY <1>2, <1>3, <1>4, <1>5, <1>6, WithChanges
<1>8. Own(r)'
  <2>1. Offers(r)'
    BY <1>1, <1>12 DEF Offers, Moves, Apart, clients
  <2>2. Clocked(r)'
    BY <1>1, <1>12 DEF Clocked, Moves, Ready, Own
  <2>3. Loaded(r)'
    <3>1. server'[r].layers = server[r].layers /\ server'[r].model = server[r].model
      BY <1>1 DEF Becomes, ServerFields
    <3>2. Layers(r)' = Layers(r)
      BY <1>1 DEF Layers, Apart, clients
    <3> QED BY <3>1, <3>2 DEF Loaded, Ready, Own
  <2> QED BY <2>1, <2>2, <2>3 DEF Own
<1>9. Global'
  BY <1>1, GlobalStays DEF Ready, NextSingle
<1>10. OwnRequest'
  BY <1>1, OwnRequestStays DEF Ready, NextSingle
<1> QED BY <1>1, <1>7, <1>8, <1>9, <1>10 DEF Done

(* There is neither a request nor a batch. *)
LEMMA IdleStep ==
  ASSUME NEW r \in Ranks, Ready(r), Idle(r)
  PROVE  Done(r)
<1> DEFINE values == << >>
<1>1. /\ Apart(r) /\ Moves(r, "loop", sharing[r], None) /\ Becomes(r, values)
      /\ time'[r] = time[r]
  BY GoUnchanged DEF Idle, Ready, Shaped, NoRequest
<1>2. PICK v : v = View(r)
  OBVIOUS
<1>3. PICK w : w = View(r)'
  OBVIOUS
<1> DEFINE u == [at |-> "loop", inbox |-> None]
<1>11. server[r].solo = None /\ at[r] = "sized" /\ inbox[r] = 0
  BY SoundLocals DEF Ready, Idle, NoRequest, Common
<1>4. DOMAIN v = ViewFields /\ w = [f \in ViewFields |-> w[f]]
  BY <1>1, <1>2, <1>3, Views
<1>5. Onward(v, ask) = With(v, u)
  BY <1>1, <1>2, <1>3, Views, <1>11 DEF Idle, Onward, FromSized, Unasked, NoRequest, Common
<1>6. \A f \in ViewFields : w[f] = IF f \in DOMAIN u THEN u[f] ELSE v[f]
  BY <1>1, <1>2, <1>3, Views, <1>11 DEF ViewFields, Common
<1> HIDE DEF u
<1>7. View(r)' = Onward(View(r), ask)
  BY <1>2, <1>3, <1>4, <1>5, <1>6, WithChanges
<1>8. Own(r)'
  BY <1>1, OwnStays DEF Ready
<1>9. Global'
  BY <1>1, GlobalStays DEF Ready, Idle
<1>10. OwnRequest'
  BY <1>1, OwnRequestStays DEF Ready, Idle
<1> QED BY <1>1, <1>7, <1>8, <1>9, <1>10 DEF Done

(* The batch has drained. *)
LEMMA CloseBatchStep ==
  ASSUME NEW r \in Ranks, Ready(r), CloseBatch(r)
  PROVE  Done(r)
<1> DEFINE values == [open |-> None, drain |-> FALSE]
           locals == [server[r] EXCEPT !.open = None, !.drain = FALSE]
<1>0. Changed(r, locals, values)
  BY DEF Changed, Ready, Shaped, ServerFields
<1>1. /\ Apart(r) /\ Moves(r, "loop", sharing[r], None) /\ Becomes(r, values)
      /\ time'[r] = time[r]
  BY <1>0, GoEffects DEF CloseBatch, Ready, Shaped, NoRequest
<1>2. PICK v : v = View(r)
  OBVIOUS
<1>3. PICK w : w = View(r)'
  OBVIOUS
<1> DEFINE u == [at |-> "loop", inbox |-> None, open |-> None, drain |-> FALSE]
<1>11. server[r].solo = None /\ at[r] \in {"loop", "sized"}
  BY SoundLocals DEF Ready, CloseBatch, NoRequest, Common
<1>4. DOMAIN v = ViewFields /\ w = [f \in ViewFields |-> w[f]]
  BY <1>1, <1>2, <1>3, Views
<1>5. Onward(v, ask) = With(v, u)
  BY <1>1, <1>2, <1>3, Views, <1>11 DEF CloseBatch, Onward, FromLoop, FromSized, Unasked,
     NoRequest, Common
<1>6. \A f \in ViewFields : w[f] = IF f \in DOMAIN u THEN u[f] ELSE v[f]
  <2>1. v.solo = server[r].solo
    BY <1>1, <1>2, <1>3, <1>11, Views DEF Common, Request
  <2>2. values.drain = u.drain
    BY <2>1
  <2>3. DOMAIN values = {"open", "drain"}
        /\ DOMAIN u = {"at", "inbox", "open", "drain"}
        /\ u.at = "loop" /\ u.inbox = None
        /\ values.open = None /\ u.open = None
    OBVIOUS
  <2> HIDE DEF u, values
  <2> QED BY <1>1, <1>2, <1>3, <1>11, <2>2, <2>3, Views DEF ViewFields, Common
<1> HIDE DEF u
<1>7. View(r)' = Onward(View(r), ask)
  BY <1>2, <1>3, <1>4, <1>5, <1>6, WithChanges
<1>8. Own(r)'
  BY <1>1, OwnStays DEF Ready
<1>9. Global'
  BY <1>1, GlobalStays DEF Ready, CloseBatch
<1>10. OwnRequest'
  BY <1>1, OwnRequestStays DEF Ready, CloseBatch
<1> QED BY <1>1, <1>7, <1>8, <1>9, <1>10 DEF Done

(* The batch goes on, with a budget of passes. *)
LEMMA StartBudgetStep ==
  ASSUME NEW r \in Ranks, Ready(r), StartBudget(r)
  PROVE  Done(r)
<1> DEFINE values == [passes |-> 0, gone |-> {}]
           locals == [server[r] EXCEPT !.passes = 0, !.gone = {}]
<1>0. Changed(r, locals, values)
  BY DEF Changed, Ready, Shaped, ServerFields
<1>1. /\ Apart(r) /\ Moves(r, "budget", sharing[r], None) /\ Becomes(r, values)
      /\ time'[r] = [time[r] EXCEPT !.clock = 0]
  BY <1>0 DEF StartBudget, Update, Changed, Ready, Shaped, Apart, Moves, Becomes, clients
<1>2. PICK v : v = View(r)
  OBVIOUS
<1>3. PICK w : w = View(r)'
  OBVIOUS
<1> DEFINE u == [at |-> "budget", inbox |-> None, passes |-> 0]
<1>11. server[r].solo = None /\ at[r] \in {"loop", "sized"}
  BY SoundLocals DEF Ready, StartBudget, NoRequest, Common
<1>4. DOMAIN v = ViewFields /\ w = [f \in ViewFields |-> w[f]]
  BY <1>1, <1>2, <1>3, Views
<1>5. Onward(v, ask) = With(v, u)
  BY <1>1, <1>2, <1>3, Views, <1>11 DEF StartBudget, Onward, FromLoop, FromSized, Unasked,
     NoRequest, Common
<1>6. \A f \in ViewFields : w[f] = IF f \in DOMAIN u THEN u[f] ELSE v[f]
  BY <1>1, <1>2, <1>3, Views, <1>11 DEF ViewFields, Common
<1> HIDE DEF u
<1>7. View(r)' = Onward(View(r), ask)
  BY <1>2, <1>3, <1>4, <1>5, <1>6, WithChanges
<1>8. Own(r)'
  <2>1. Offers(r)'
    BY <1>1 DEF Offers, Moves
  <2>2. Clocked(r)'
    <3>1. server'[r].passes = 0
      BY <1>1 DEF Becomes, ServerFields
    <3> QED BY <1>1, <3>1 DEF Clocked, Moves, Ready, Own
  <2>3. Loaded(r)'
    <3>1. server'[r].layers = server[r].layers /\ server'[r].model = server[r].model
      BY <1>1 DEF Becomes, ServerFields
    <3>2. Layers(r)' = Layers(r)
      BY <1>1 DEF Layers, Apart, clients
    <3> QED BY <3>1, <3>2 DEF Loaded, Ready, Own
  <2> QED BY <2>1, <2>2, <2>3 DEF Own
<1>9. Global'
  BY <1>1, GlobalStays DEF Ready, StartBudget
<1>10. OwnRequest'
  BY <1>1, OwnRequestStays DEF Ready, StartBudget
<1> QED BY <1>1, <1>7, <1>8, <1>9, <1>10 DEF Done

(* The rows of the batch take a pass. *)
LEMMA PassStep ==
  ASSUME NEW r \in Ranks, Ready(r), NextPass(r), server[r].rows # <<>>
  PROVE  Done(r)
<1> DEFINE values == [passes |-> server[r].passes + 1]
           locals == [server[r] EXCEPT !.passes = server[r].passes + 1]
<1>0. Changed(r, locals, values)
  BY DEF Changed, Ready, Shaped, ServerFields
<1>1. /\ Apart(r) /\ Moves(r, "pass", sharing[r], None) /\ Becomes(r, values)
      /\ time'[r] = time[r]
      /\ offer'[r] = server[r].rows
  BY <1>0, MeetEffects DEF NextPass, Ready, Shaped
<1>2. PICK v : v = View(r)
  OBVIOUS
<1>3. PICK w : w = View(r)'
  OBVIOUS
<1> DEFINE u == [at |-> "pass", inbox |-> None, passes |-> v.passes + 1]
<1>11. server[r].solo = None /\ at[r] = "budget"
  BY SoundLocals DEF Ready, NextPass, Common
<1>4. DOMAIN v = ViewFields /\ w = [f \in ViewFields |-> w[f]]
  BY <1>1, <1>2, <1>3, Views
<1>5. Onward(v, ask) = With(v, u)
  BY <1>1, <1>2, <1>3, Views, <1>11 DEF NextPass, Onward, FromBudget, Common
<1>6. \A f \in ViewFields : w[f] = IF f \in DOMAIN u THEN u[f] ELSE v[f]
  BY <1>1, <1>2, <1>3, Views, <1>11 DEF ViewFields, Common
<1> HIDE DEF u
<1>7. View(r)' = Onward(View(r), ask)
  BY <1>2, <1>3, <1>4, <1>5, <1>6, WithChanges
<1>8. Own(r)'
  <2>1. server'[r].rows = server[r].rows /\ server'[r].solo = None
        /\ server'[r].passes = server[r].passes + 1
    BY <1>1, <1>11 DEF Becomes, ServerFields
  <2>2. Offers(r)'
    BY <1>1, <2>1 DEF Offers, Moves
  <2>3. time[r].clock \in Nat /\ server[r].passes \in Nat /\ time[r].clock >= server[r].passes
    BY <1>11, SoundLocals DEF Ready, Own, Clocked
  <2>4. Clocked(r)'
    BY <1>1, <2>1, <2>3 DEF Clocked, Moves, Ready, Own
  <2>5. Loaded(r)'
    <3>1. server'[r].layers = server[r].layers /\ server'[r].model = server[r].model
      BY <1>1 DEF Becomes, ServerFields
    <3>2. Layers(r)' = Layers(r)
      BY <1>1 DEF Layers, Apart, clients
    <3> QED BY <3>1, <3>2 DEF Loaded, Ready, Own
  <2> QED BY <2>2, <2>4, <2>5 DEF Own
<1>9. Global'
  BY <1>1, GlobalStays DEF Ready, NextPass
<1>10. OwnRequest'
  BY <1>1, OwnRequestStays DEF Ready, NextPass
<1> QED BY <1>1, <1>7, <1>8, <1>9, <1>10 DEF Done

(* All rows have ended: the loop breaks. *)
LEMMA NoPassStep ==
  ASSUME NEW r \in Ranks, Ready(r), NextPass(r), server[r].rows = <<>>
  PROVE  Done(r)
<1> DEFINE values == [passes |-> server[r].passes + 1]
           locals == [server[r] EXCEPT !.passes = server[r].passes + 1]
<1>0. Changed(r, locals, values)
  BY DEF Changed, Ready, Shaped, ServerFields
<1>1. /\ Apart(r) /\ Moves(r, "size", "gone", None) /\ Becomes(r, values)
      /\ time'[r] = time[r]
      /\ offer'[r] = IF r = 0 THEN 1 ELSE 0
  BY <1>0, ShareEffects DEF NextPass, Ready, Shaped
<1>2. PICK v : v = View(r)
  OBVIOUS
<1>3. PICK w : w = View(r)'
  OBVIOUS
<1> DEFINE u == [at |-> "size", inbox |-> None, sharing |-> "gone", passes |-> v.passes + 1]
<1>11. server[r].solo = None /\ at[r] = "budget"
  BY SoundLocals DEF Ready, NextPass, Common
<1>4. DOMAIN v = ViewFields /\ w = [f \in ViewFields |-> w[f]]
  BY <1>1, <1>2, <1>3, Views
<1>5. Onward(v, ask) = With(v, u)
  BY <1>1, <1>2, <1>3, Views, <1>11 DEF NextPass, Onward, FromBudget, Common
<1>6. \A f \in ViewFields : w[f] = IF f \in DOMAIN u THEN u[f] ELSE v[f]
  BY <1>1, <1>2, <1>3, Views, <1>11 DEF ViewFields, Common
<1> HIDE DEF u
<1>7. View(r)' = Onward(View(r), ask)
  BY <1>2, <1>3, <1>4, <1>5, <1>6, WithChanges
<1>8. Own(r)'
  <2>1. Offers(r)'
    BY <1>1 DEF Offers, Moves
  <2>2. Clocked(r)'
    BY <1>1 DEF Clocked, Moves, Ready, Own
  <2>3. Loaded(r)'
    <3>1. server'[r].layers = server[r].layers /\ server'[r].model = server[r].model
      BY <1>1 DEF Becomes, ServerFields
    <3>2. Layers(r)' = Layers(r)
      BY <1>1 DEF Layers, Apart, clients
    <3> QED BY <3>1, <3>2 DEF Loaded, Ready, Own
  <2> QED BY <2>1, <2>2, <2>3 DEF Own
<1>9. Global'
  BY <1>1, GlobalStays DEF Ready, NextPass
<1>10. OwnRequest'
  BY <1>1, OwnRequestStays DEF Ready, NextPass
<1> QED BY <1>1, <1>7, <1>8, <1>9, <1>10 DEF Done

(* The responses of a pass, which took some time. *)
LEMMA TakeResponsesStep ==
  ASSUME CacheBytes = 0, NEW r \in Ranks, Ready(r), TakeResponses(r)
  PROVE  Done(r)
<1> DEFINE gone == server[r].gone \cup
                     {row.client : row \in {x \in ToSet(server[r].rows) : r = 0 /\ x.client \in left}}
           values == [rows |-> Going(server[r].rows),
                      store |-> StoreAfter(server[r].store, server[r].rows, CacheSize),
                      gone |-> gone]
           locals == [server[r] EXCEPT
                        !.rows = Going(server[r].rows),
                        !.store = StoreAfter(server[r].store, server[r].rows, CacheSize),
                        !.gone = gone]
<1>0. Changed(r, locals, values)
  BY DEF Changed, Ready, Shaped, ServerFields
<1>1. /\ Apart(r) /\ Moves(r, "budget", sharing[r], inbox[r]) /\ Becomes(r, values)
      /\ UNCHANGED queue
      /\ \E t \in PassTimes[r] : time'[r] = [time[r] EXCEPT !.clock = time[r].clock + t]
  BY <1>0 DEF TakeResponses, Update, Room, Changed, Ready, Shaped, Apart, Moves, Becomes, clients
<1>2. PICK v : v = View(r)
  OBVIOUS
<1>3. PICK w : w = View(r)'
  OBVIOUS
<1> DEFINE u == [at |-> "budget", rows |-> Going(v.rows),
                 store |-> StoreAfter(v.store, v.rows, CacheSize)]
<1>11. server[r].solo = None /\ at[r] = "passed"
  BY SoundLocals DEF Ready, TakeResponses, Common
<1>4. DOMAIN v = ViewFields /\ w = [f \in ViewFields |-> w[f]]
  BY <1>1, <1>2, <1>3, Views
<1>5. Onward(v, ask) = With(v, u)
  BY <1>1, <1>2, <1>3, Views, <1>11 DEF TakeResponses, Onward, FromPassed, Common
<1>6. \A f \in ViewFields : w[f] = IF f \in DOMAIN u THEN u[f] ELSE v[f]
  <2>1. v.rows = server[r].rows /\ v.store = server[r].store
    BY <1>1, <1>2, <1>3, <1>11, Views DEF Common, Request
  <2>2. values.rows = u.rows /\ values.store = u.store
    BY <2>1
  <2>3. DOMAIN values = {"rows", "store", "gone"}
        /\ DOMAIN u = {"at", "rows", "store"}
        /\ u.at = "budget"
    OBVIOUS
  <2> HIDE DEF u, values
  <2> QED BY <1>1, <1>2, <1>3, <1>11, <2>2, <2>3, Views DEF ViewFields, Common
<1> HIDE DEF u
<1>7. View(r)' = Onward(View(r), ask)
  BY <1>2, <1>3, <1>4, <1>5, <1>6, WithChanges
<1>8. Own(r)'
  <2>1. Offers(r)'
    BY <1>1 DEF Offers, Moves
  <2>2. PICK t \in PassTimes[r] : time'[r] = [time[r] EXCEPT !.clock = time[r].clock + t]
    BY <1>1
  <2>3. t \in Nat \ {0}
    BY BudgetAssumption
  <2>4. time[r] \in [clock : Nat, spent : Nat] /\ server[r].passes \in Nat
        /\ time[r].clock + 1 >= server[r].passes
    BY <1>11, SoundLocals DEF Ready, Own, Clocked
  <2>5. server'[r].passes = server[r].passes
    BY <1>1 DEF Becomes, ServerFields
  <2>6. Clocked(r)'
    BY <1>1, <2>2, <2>3, <2>4, <2>5 DEF Clocked, Moves
  <2>7. Loaded(r)'
    <3>1. server'[r].layers = server[r].layers /\ server'[r].model = server[r].model
      BY <1>1 DEF Becomes, ServerFields
    <3>2. Layers(r)' = Layers(r)
      BY <1>1 DEF Layers, Apart, clients
    <3> QED BY <3>1, <3>2 DEF Loaded, Ready, Own
  <2> QED BY <2>1, <2>6, <2>7 DEF Own
<1>9. Global'
  <2>1. answer' \in [Clients -> {"none", "context", "done", "error"}]
    BY DEF TakeResponses, PutEach, Ready, Global
  <2> QED BY <1>1, <2>1 DEF Ready, Global, Apart, clients, Known
<1>10. OwnRequest'
  BY <1>1, OwnRequestStays DEF Ready, TakeResponses
<1> QED BY <1>1, <1>7, <1>8, <1>9, <1>10 DEF Done

(* The budget is used up, and every so often the ranks add up their times. *)
LEMMA AskTimesStep ==
  ASSUME NEW r \in Ranks, Ready(r), EndBudget(r), (server[r].loops + 1) % SyncFrequency = 0
  PROVE  Done(r)
<1> DEFINE values == [loops |-> server[r].loops + 1]
           locals == [server[r] EXCEPT !.loops = server[r].loops + 1]
<1>0. Changed(r, locals, values)
  BY DEF Changed, Ready, Shaped, ServerFields
<1>1. /\ Apart(r) /\ Moves(r, "time", sharing[r], None) /\ Becomes(r, values)
      /\ offer'[r] = time[r].spent + time[r].clock
      /\ time'[r] = [time[r] EXCEPT !.spent = time[r].spent + time[r].clock]
  BY <1>0, MeetEffects DEF EndBudget, Ready, Shaped
<1>2. PICK v : v = View(r)
  OBVIOUS
<1>3. PICK w : w = View(r)'
  OBVIOUS
<1> DEFINE u == [at |-> "time", inbox |-> None, loops |-> v.loops + 1]
<1>11. server[r].solo = None /\ at[r] = "budget"
      /\ server[r].passes \in Nat /\ server[r].iterations \in Nat \ {0}
  BY SoundLocals DEF Ready, EndBudget, Common
<1>4. DOMAIN v = ViewFields /\ w = [f \in ViewFields |-> w[f]]
  BY <1>1, <1>2, <1>3, Views
<1>5. Onward(v, ask) = With(v, u)
  BY <1>1, <1>2, <1>3, Views, <1>11 DEF EndBudget, Onward, FromBudget, Common
<1>6. \A f \in ViewFields : w[f] = IF f \in DOMAIN u THEN u[f] ELSE v[f]
  BY <1>1, <1>2, <1>3, Views, <1>11 DEF ViewFields, Common
<1> HIDE DEF u
<1>7. View(r)' = Onward(View(r), ask)
  BY <1>2, <1>3, <1>4, <1>5, <1>6, WithChanges
<1>8. Own(r)'
  <2>1. time[r] \in [clock : Nat, spent : Nat] /\ time[r].clock >= server[r].iterations
    BY <1>11 DEF Ready, Own, Clocked, EndBudget
  <2>2. time[r].spent + time[r].clock \in Nat \ {0}
    BY <1>11, <2>1
  <2>3. Offers(r)'
    BY <1>1, <2>2 DEF Offers, Moves
  <2>4. Clocked(r)'
    BY <1>1, <2>1, <2>2 DEF Clocked, Moves
  <2>5. Loaded(r)'
    <3>1. server'[r].layers = server[r].layers /\ server'[r].model = server[r].model
      BY <1>1 DEF Becomes, ServerFields
    <3>2. Layers(r)' = Layers(r)
      BY <1>1 DEF Layers, Apart, clients
    <3> QED BY <3>1, <3>2 DEF Loaded, Ready, Own
  <2> QED BY <2>3, <2>4, <2>5 DEF Own
<1>9. Global'
  BY <1>1, GlobalStays DEF Ready, EndBudget
<1>10. OwnRequest'
  BY <1>1, OwnRequestStays DEF Ready, EndBudget
<1> QED BY <1>1, <1>7, <1>8, <1>9, <1>10 DEF Done

(* Other times they go straight to the uids to remove. *)
LEMMA SkipTimesStep ==
  ASSUME NEW r \in Ranks, Ready(r), EndBudget(r), (server[r].loops + 1) % SyncFrequency # 0
  PROVE  Done(r)
<1> DEFINE values == [loops |-> server[r].loops + 1]
           locals == [server[r] EXCEPT !.loops = server[r].loops + 1]
<1>0. Changed(r, locals, values)
  BY DEF Changed, Ready, Shaped, ServerFields
<1>1. /\ Apart(r) /\ Moves(r, "size", "gone", None) /\ Becomes(r, values)
      /\ offer'[r] = IF r = 0 THEN 1 ELSE 0
      /\ time'[r] = [time[r] EXCEPT !.spent = time[r].spent + time[r].clock]
  BY <1>0, ShareEffects DEF EndBudget, Ready, Shaped
<1>2. PICK v : v = View(r)
  OBVIOUS
<1>3. PICK w : w = View(r)'
  OBVIOUS
<1> DEFINE u == [at |-> "size", inbox |-> None, sharing |-> "gone", loops |-> v.loops + 1]
<1>11. server[r].solo = None /\ at[r] = "budget"
      /\ server[r].passes \in Nat /\ server[r].iterations \in Nat \ {0}
  BY SoundLocals DEF Ready, EndBudget, Common
<1>4. DOMAIN v = ViewFields /\ w = [f \in ViewFields |-> w[f]]
  BY <1>1, <1>2, <1>3, Views
<1>5. Onward(v, ask) = With(v, u)
  BY <1>1, <1>2, <1>3, Views, <1>11 DEF EndBudget, Onward, FromBudget, Common
<1>6. \A f \in ViewFields : w[f] = IF f \in DOMAIN u THEN u[f] ELSE v[f]
  BY <1>1, <1>2, <1>3, Views, <1>11 DEF ViewFields, Common
<1> HIDE DEF u
<1>7. View(r)' = Onward(View(r), ask)
  BY <1>2, <1>3, <1>4, <1>5, <1>6, WithChanges
<1>8. Own(r)'
  <2>1. Offers(r)'
    BY <1>1 DEF Offers, Moves
  <2>2. Clocked(r)'
    BY <1>1 DEF Clocked, Moves, Ready, Own
  <2>3. Loaded(r)'
    <3>1. server'[r].layers = server[r].layers /\ server'[r].model = server[r].model
      BY <1>1 DEF Becomes, ServerFields
    <3>2. Layers(r)' = Layers(r)
      BY <1>1 DEF Layers, Apart, clients
    <3> QED BY <3>1, <3>2 DEF Loaded, Ready, Own
  <2> QED BY <2>1, <2>2, <2>3 DEF Own
<1>9. Global'
  BY <1>1, GlobalStays DEF Ready, EndBudget
<1>10. OwnRequest'
  BY <1>1, OwnRequestStays DEF Ready, EndBudget
<1> QED BY <1>1, <1>7, <1>8, <1>9, <1>10 DEF Done

(* The passes of the next budgets, by the times of all. *)
LEMMA AdjustBudgetStep ==
  ASSUME NEW r \in Ranks, Ready(r), AdjustBudget(r)
  PROVE  Done(r)
<1> DEFINE iterations ==
             Max({Rounded(server[r].iterations * Budget * Size * SyncFrequency, inbox[r]), 1})
           values == [loops |-> 0, iterations |-> iterations]
           locals == [server[r] EXCEPT !.loops = 0, !.iterations = iterations]
<1>0. Changed(r, locals, values)
  BY DEF Changed, Ready, Shaped, ServerFields
<1>1. /\ Apart(r) /\ Moves(r, "size", "gone", None) /\ Becomes(r, values)
      /\ offer'[r] = IF r = 0 THEN 1 ELSE 0
      /\ time'[r] = [time[r] EXCEPT !.spent = 0]
  BY <1>0, ShareEffects DEF AdjustBudget, Ready, Shaped
<1>2. PICK v : v = View(r)
  OBVIOUS
<1>3. PICK w : w = View(r)'
  OBVIOUS
<1> DEFINE u == [at |-> "size", inbox |-> None, sharing |-> "gone", loops |-> 0,
                 iterations |->
                   Max({Rounded(v.iterations * Budget * Size * SyncFrequency, v.inbox), 1})]
<1>11. server[r].solo = None /\ at[r] = "timed"
  BY SoundLocals DEF Ready, AdjustBudget, Common
<1>4. DOMAIN v = ViewFields /\ w = [f \in ViewFields |-> w[f]]
  BY <1>1, <1>2, <1>3, Views
<1>5. Onward(v, ask) = With(v, u)
  BY <1>1, <1>2, <1>3, Views, <1>11 DEF AdjustBudget, Onward, FromTimed, Common
<1>6. \A f \in ViewFields : w[f] = IF f \in DOMAIN u THEN u[f] ELSE v[f]
  <2>1. v.iterations = server[r].iterations /\ v.inbox = inbox[r]
    BY <1>1, <1>2, <1>3, <1>11, Views DEF Common, Request
  <2>2. values.iterations = u.iterations
    BY <2>1
  <2>3. DOMAIN values = {"loops", "iterations"}
        /\ DOMAIN u = {"at", "inbox", "sharing", "loops", "iterations"}
        /\ u.at = "size" /\ u.inbox = None /\ u.sharing = "gone"
        /\ u.loops = 0 /\ values.loops = 0
    OBVIOUS
  <2> HIDE DEF u, values
  <2> QED BY <1>1, <1>2, <1>3, <1>11, <2>2, <2>3, Views DEF ViewFields, Common
<1> HIDE DEF u
<1>7. View(r)' = Onward(View(r), ask)
  BY <1>2, <1>3, <1>4, <1>5, <1>6, WithChanges
<1>8. Own(r)'
  <2>1. Offers(r)'
    BY <1>1 DEF Offers, Moves
  <2>2. Clocked(r)'
    BY <1>1 DEF Clocked, Moves, Ready, Own
  <2>3. Loaded(r)'
    <3>1. server'[r].layers = server[r].layers /\ server'[r].model = server[r].model
      BY <1>1 DEF Becomes, ServerFields
    <3>2. Layers(r)' = Layers(r)
      BY <1>1 DEF Layers, Apart, clients
    <3> QED BY <3>1, <3>2 DEF Loaded, Ready, Own
  <2> QED BY <2>1, <2>2, <2>3 DEF Own
<1>9. Global'
  BY <1>1, GlobalStays DEF Ready, AdjustBudget
<1>10. OwnRequest'
  BY <1>1, OwnRequestStays DEF Ready, AdjustBudget
<1> QED BY <1>1, <1>7, <1>8, <1>9, <1>10 DEF Done

(* The rows rank 0 found without a client leave the batch. *)
LEMMA RemoveGoneStep ==
  ASSUME NEW r \in Ranks, Ready(r), RemoveGone(r)
  PROVE  Done(r)
<1> DEFINE values == [rows |-> Staying(server[r].rows, inbox[r]), gone |-> {}]
           locals == [server[r] EXCEPT !.rows = Staying(server[r].rows, inbox[r]), !.gone = {}]
<1>0. Changed(r, locals, values)
  BY DEF Changed, Ready, Shaped, ServerFields
<1>1. /\ Apart(r) /\ Moves(r, "loop", sharing[r], None) /\ Becomes(r, values)
      /\ time'[r] = time[r]
  BY <1>0, GoEffects DEF RemoveGone, Ready, Shaped
<1>2. PICK v : v = View(r)
  OBVIOUS
<1>3. PICK w : w = View(r)'
  OBVIOUS
<1> DEFINE u == [at |-> "loop", inbox |-> None, rows |-> Staying(v.rows, v.inbox)]
<1>11. server[r].solo = None /\ at[r] = "shared"
  BY SoundLocals DEF Ready, RemoveGone, Common
<1>4. DOMAIN v = ViewFields /\ w = [f \in ViewFields |-> w[f]]
  BY <1>1, <1>2, <1>3, Views
<1>5. Onward(v, ask) = With(v, u)
  BY <1>1, <1>2, <1>3, Views, <1>11 DEF RemoveGone, Onward, FromShared, Common
<1>6. \A f \in ViewFields : w[f] = IF f \in DOMAIN u THEN u[f] ELSE v[f]
  <2>1. v.rows = server[r].rows /\ v.inbox = inbox[r]
    BY <1>1, <1>2, <1>3, <1>11, Views DEF Common, Request
  <2>2. values.rows = u.rows
    BY <2>1
  <2>3. DOMAIN values = {"rows", "gone"}
        /\ DOMAIN u = {"at", "inbox", "rows"}
        /\ u.at = "loop" /\ u.inbox = None
    OBVIOUS
  <2> HIDE DEF u, values
  <2> QED BY <1>1, <1>2, <1>3, <1>11, <2>2, <2>3, Views DEF ViewFields, Common
<1> HIDE DEF u
<1>7. View(r)' = Onward(View(r), ask)
  BY <1>2, <1>3, <1>4, <1>5, <1>6, WithChanges
<1>8. Own(r)'
  BY <1>1, OwnStays DEF Ready
<1>9. Global'
  BY <1>1, GlobalStays DEF Ready, RemoveGone
<1>10. OwnRequest'
  BY <1>1, OwnRequestStays DEF Ready, RemoveGone
<1> QED BY <1>1, <1>7, <1>8, <1>9, <1>10 DEF Done

----------------------------------------
(* What is sound stays so on the way. *)

(* A budget has at least one pass. *)
LEMMA RoundedAtLeastOne ==
  ASSUME NEW i \in Nat \ {0}, NEW total \in Nat \ {0}
  PROVE  Max({Rounded(i * Budget * Size * SyncFrequency, total), 1}) \in Nat \ {0}
<1> DEFINE a == i * Budget * Size * SyncFrequency
           x == Rounded(a, total)
<1>1. a \in Nat
  BY BudgetAssumption, SizeAssumption
<1>2. x \in Nat
  <2>1. a \div total \in Nat
    <3> HIDE DEF a
    <3> QED BY <1>1
  <2> HIDE DEF a
  <2> QED BY <2>1 DEF Rounded
<1> HIDE DEF x
<1>3. {x, 1} \in SUBSET Nat /\ {x, 1} # {} /\ \A y \in {x, 1} : y <= x + 1
  BY <1>2
<1>4. Max({x, 1}) \in {x, 1} /\ Max({x, 1}) >= 1
  BY <1>2, <1>3, MaxIsGreatest
<1>5. Max({x, 1}) \in Nat \ {0}
  BY <1>2, <1>4
<1> QED BY <1>5 DEF x

(* Going on without a request. *)
LEMMA UnaskedSound ==
  ASSUME NEW asked, NEW v, Sound(v, asked), v.at \in {"loop", "sized"}
  PROVE  Sound(Unasked(v), asked)
<1>1. ASSUME NEW w, w = With(v, [at |-> "budget", inbox |-> None, passes |-> 0])
     PROVE  Sound(w, asked)
  <2>1. DOMAIN w = ViewFields
    BY <1>1 DEF With, Sound
  <2>2. /\ w.at = "budget" /\ w.sharing = v.sharing /\ w.inbox = None /\ w.req = v.req
        /\ w.aside = v.aside /\ w.solo = v.solo /\ w.passes = 0 /\ w.loops = v.loops
        /\ w.iterations = v.iterations
    BY <1>1 DEF With, Sound, ViewFields
  <2> QED BY <1>1, <2>1, <2>2 DEF Sound, Common, Places, Meets
<1>2. ASSUME NEW w, w = With(v, [at |-> "loop", inbox |-> None, open |-> None, drain |-> FALSE])
     PROVE  Sound(w, asked)
  <2>1. DOMAIN w = ViewFields
    BY <1>2 DEF With, Sound
  <2>2. /\ w.at = "loop" /\ w.sharing = v.sharing /\ w.inbox = None /\ w.req = v.req
        /\ w.aside = v.aside /\ w.solo = v.solo /\ w.passes = v.passes
        /\ w.loops = v.loops /\ w.iterations = v.iterations
    BY <1>2 DEF With, Sound, ViewFields
  <2> QED BY <1>2, <2>1, <2>2 DEF Sound, Common, Places, Meets
<1>3. ASSUME NEW w, w = With(v, [at |-> "loop", inbox |-> None])
     PROVE  Sound(w, asked)
  <2>1. DOMAIN w = ViewFields
    BY <1>3 DEF With, Sound
  <2>2. /\ w.at = "loop" /\ w.sharing = v.sharing /\ w.inbox = None /\ w.req = v.req
        /\ w.aside = v.aside /\ w.solo = v.solo /\ w.passes = v.passes
        /\ w.loops = v.loops /\ w.iterations = v.iterations
    BY <1>3 DEF With, Sound, ViewFields
  <2> QED BY <1>3, <2>1, <2>2 DEF Sound, Common, Places, Meets
<1> QED BY <1>1, <1>2, <1>3 DEF Unasked

(* ... to a request that was put aside, or the queue. *)
LEMMA LoopSound ==
  ASSUME NEW asked, NEW v, Sound(v, asked), v.at = "loop"
  PROVE  Sound(FromLoop(v), asked)
<1>1. ASSUME v.aside # <<>>,
          NEW w, w = With(v, [at |-> "request", inbox |-> None, req |-> Last(v.aside),
                              aside |-> Front(v.aside)])
     PROVE  Sound(w, asked)
  <2>1. DOMAIN w = ViewFields
    BY <1>1 DEF With, Sound
  <2>2. /\ w.at = "request" /\ w.sharing = v.sharing /\ w.inbox = None
        /\ w.solo = v.solo /\ w.passes = v.passes /\ w.loops = v.loops
        /\ w.iterations = v.iterations
    BY <1>1 DEF With, Sound, ViewFields
  <2>3. Last(v.aside) \in Known(asked) /\ Front(v.aside) = <<>>
    <3>1. v.aside \in Seq(Known(asked)) /\ Len(v.aside) = 1
      <4>1. v.aside \in Seq(Known(asked)) /\ Len(v.aside) <= 1
        BY DEF Sound
      <4>2. Len(v.aside) \in Nat \ {0}
        BY <1>1, <4>1, EmptySeq, Zenon
      <4>3. Len(v.aside) \in Nat /\ Len(v.aside) # 0
        BY <4>2
      <4>4. \A n \in Nat : n <= 1 /\ n # 0 => n = 1
        OBVIOUS
      <4>5. Len(v.aside) = 1
        BY <4>1, <4>3, <4>4, Zenon
      <4> QED BY <4>1, <4>5
    <3>2. v.aside = <<v.aside[1]>> /\ v.aside[1] \in Known(asked)
      BY <3>1
    <3> QED BY <3>1, <3>2 DEF Last, Front
  <2>4. w.req \in Known(asked) /\ w.aside \in Seq(Known(asked)) /\ Len(w.aside) <= 1
        /\ w.aside = <<>>
    <3>1. w.req = Last(v.aside) /\ w.aside = Front(v.aside)
      BY <1>1 DEF With, Sound, ViewFields
    <3> QED BY <2>3, <3>1
  <2> QED BY <1>1, <2>1, <2>2, <2>4 DEF Sound, Common, Places, Meets
<1>2. ASSUME v.aside = <<>>,
          NEW w, w = With(v, [at |-> "size", inbox |-> None, sharing |-> "request"])
     PROVE  Sound(w, asked)
  <2>1. DOMAIN w = ViewFields
    BY <1>2 DEF With, Sound
  <2>2. /\ w.at = "size" /\ w.sharing = "request" /\ w.inbox = None /\ w.req = v.req
        /\ w.aside = v.aside /\ w.solo = v.solo /\ w.passes = v.passes
        /\ w.loops = v.loops /\ w.iterations = v.iterations
    BY <1>2 DEF With, Sound, ViewFields
  <2> QED BY <1>2, <2>1, <2>2 DEF Sound, Common, Places, Meets
<1> QED BY <1>1, <1>2, UnaskedSound DEF FromLoop

(* ... to the object, or without a request. *)
LEMMA SizedSound ==
  ASSUME NEW asked, NEW v, Sound(v, asked), v.at = "sized"
  PROVE  Sound(FromSized(v), asked)
<1>1. ASSUME v.inbox # 0,
          NEW w, w = With(v, [at |-> "data", inbox |-> None])
     PROVE  Sound(w, asked)
  <2>1. DOMAIN w = ViewFields
    BY <1>1 DEF With, Sound
  <2>2. /\ w.at = "data" /\ w.sharing = v.sharing /\ w.inbox = None /\ w.req = v.req
        /\ w.aside = v.aside /\ w.solo = v.solo /\ w.passes = v.passes
        /\ w.loops = v.loops /\ w.iterations = v.iterations
    BY <1>1 DEF With, Sound, ViewFields
  <2> QED BY <1>1, <2>1, <2>2 DEF Sound, Common, Places, Meets
<1> QED BY <1>1, UnaskedSound DEF FromSized

(* ... with the request or the uids shared. *)
LEMMA SharedSound ==
  ASSUME NEW asked, NEW v, Sound(v, asked), v.at = "shared"
  PROVE  Sound(FromShared(v), asked)
<1>1. ASSUME v.sharing = "request",
          NEW w, w = With(v, [at |-> "request", inbox |-> None, req |-> v.inbox])
     PROVE  Sound(w, asked)
  <2>1. DOMAIN w = ViewFields
    BY <1>1 DEF With, Sound
  <2>2. /\ w.at = "request" /\ w.sharing = v.sharing /\ w.inbox = None
        /\ w.req = v.inbox /\ w.aside = v.aside /\ w.solo = v.solo
        /\ w.passes = v.passes /\ w.loops = v.loops /\ w.iterations = v.iterations
    BY <1>1 DEF With, Sound, ViewFields
  <2> QED BY <1>1, <2>1, <2>2 DEF Sound, Common, Places, Meets
<1>2. ASSUME NEW w, w = With(v, [at |-> "loop", inbox |-> None, rows |-> Staying(v.rows, v.inbox)])
     PROVE  Sound(w, asked)
  <2>1. DOMAIN w = ViewFields
    BY <1>2 DEF With, Sound
  <2>2. /\ w.at = "loop" /\ w.sharing = v.sharing /\ w.inbox = None /\ w.req = v.req
        /\ w.aside = v.aside /\ w.solo = v.solo /\ w.passes = v.passes
        /\ w.loops = v.loops /\ w.iterations = v.iterations
    BY <1>2 DEF With, Sound, ViewFields
  <2> QED BY <1>2, <2>1, <2>2 DEF Sound, Common, Places, Meets
<1> QED BY <1>1, <1>2 DEF FromShared

(* ... with a request: joining the batch, put aside, refused or with its model. *)
LEMMA RequestSound ==
  ASSUME NEW asked, NEW v, Sound(v, asked), v.at = "request", NEW q
  PROVE  Sound(FromRequest(v, q), asked)
<1>1. ASSUME NEW w, w = With(v, [at |-> "loop", inbox |-> None, req |-> None,
                          rows |-> Append(v.rows, NewRow(v.req, q, v.store)),
                          store |-> Limited(v.store, CacheSize)])
     PROVE  Sound(w, asked)
  <2>1. DOMAIN w = ViewFields
    BY <1>1 DEF With, Sound
  <2>2. /\ w.at = "loop" /\ w.sharing = v.sharing /\ w.inbox = None /\ w.req = None
        /\ w.aside = v.aside /\ w.solo = v.solo /\ w.passes = v.passes
        /\ w.loops = v.loops /\ w.iterations = v.iterations
    BY <1>1 DEF With, Sound, ViewFields
  <2> QED BY <1>1, <2>1, <2>2 DEF Sound, Common, Places, Meets
<1>2. ASSUME NEW w, w = With(v, [at |-> "loop", inbox |-> None, req |-> None])
     PROVE  Sound(w, asked)
  <2>1. DOMAIN w = ViewFields
    BY <1>2 DEF With, Sound
  <2>2. /\ w.at = "loop" /\ w.sharing = v.sharing /\ w.inbox = None /\ w.req = None
        /\ w.aside = v.aside /\ w.solo = v.solo /\ w.passes = v.passes
        /\ w.loops = v.loops /\ w.iterations = v.iterations
    BY <1>2 DEF With, Sound, ViewFields
  <2> QED BY <1>2, <2>1, <2>2 DEF Sound, Common, Places, Meets
<1>3. ASSUME NEW w, w = With(v, [at |-> "loop", inbox |-> None, req |-> None, drain |-> TRUE,
                          aside |-> Append(v.aside, v.req)])
     PROVE  Sound(w, asked)
  <2>1. DOMAIN w = ViewFields
    BY <1>3 DEF With, Sound
  <2>2. /\ w.at = "loop" /\ w.sharing = v.sharing /\ w.inbox = None /\ w.req = None
        /\ w.solo = v.solo /\ w.passes = v.passes /\ w.loops = v.loops
        /\ w.iterations = v.iterations
    BY <1>3 DEF With, Sound, ViewFields
  <2>3. Append(v.aside, v.req) \in Seq(Known(asked)) /\ Len(Append(v.aside, v.req)) = 1
    <3>1. v.aside = <<>> /\ v.req \in Known(asked)
      BY DEF Sound, Common
    <3> QED BY <3>1
  <2>4. w.aside \in Seq(Known(asked)) /\ Len(w.aside) <= 1
    <3>1. w.aside = Append(v.aside, v.req)
      BY <1>3 DEF With, Sound, ViewFields
    <3> QED BY <2>3, <3>1
  <2> QED BY <1>3, <2>1, <2>2, <2>4 DEF Sound, Common, Places, Meets
<1>4. ASSUME NEW w, w = With(v, [at |-> "loop", inbox |-> None, req |-> None, model |-> None])
     PROVE  Sound(w, asked)
  <2>1. DOMAIN w = ViewFields
    BY <1>4 DEF With, Sound
  <2>2. /\ w.at = "loop" /\ w.sharing = v.sharing /\ w.inbox = None /\ w.req = None
        /\ w.aside = v.aside /\ w.solo = v.solo /\ w.passes = v.passes
        /\ w.loops = v.loops /\ w.iterations = v.iterations
    BY <1>4 DEF With, Sound, ViewFields
  <2> QED BY <1>4, <2>1, <2>2 DEF Sound, Common, Places, Meets
<1>5. ASSUME NEW w, w = With(v, [at |-> "loaded", inbox |-> None])
     PROVE  Sound(w, asked)
  <2>1. DOMAIN w = ViewFields
    BY <1>5 DEF With, Sound
  <2>2. /\ w.at = "loaded" /\ w.sharing = v.sharing /\ w.inbox = None /\ w.req = v.req
        /\ w.aside = v.aside /\ w.solo = v.solo /\ w.passes = v.passes
        /\ w.loops = v.loops /\ w.iterations = v.iterations
    BY <1>5 DEF With, Sound, ViewFields
  <2> QED BY <1>5, <2>1, <2>2 DEF Sound, Common, Places, Meets
<1>6. ASSUME NEW w, w = With(v, [at |-> "load", inbox |-> None, model |-> q.model])
     PROVE  Sound(w, asked)
  <2>1. DOMAIN w = ViewFields
    BY <1>6 DEF With, Sound
  <2>2. /\ w.at = "load" /\ w.sharing = v.sharing /\ w.inbox = None /\ w.req = v.req
        /\ w.aside = v.aside /\ w.solo = v.solo /\ w.passes = v.passes
        /\ w.loops = v.loops /\ w.iterations = v.iterations
    BY <1>6 DEF With, Sound, ViewFields
  <2> QED BY <1>6, <2>1, <2>2 DEF Sound, Common, Places, Meets
<1> QED BY <1>1, <1>2, <1>3, <1>4, <1>5, <1>6 DEF FromRequest

(* ... with its model: a batch opens, or it is served alone. *)
LEMMA LoadedSound ==
  ASSUME NEW asked, NEW v, Sound(v, asked), v.at = "loaded",
         asked[v.req] \in Kinds
  PROVE  Sound(FromLoaded(v, asked[v.req]), asked)
<1>1. ASSUME NEW w, w = With(v, [at |-> "loop", inbox |-> None, req |-> None, open |-> asked[v.req].model,
                          rows |-> <<>>, aside |-> Append(v.aside, v.req)])
     PROVE  Sound(w, asked)
  <2>1. DOMAIN w = ViewFields
    BY <1>1 DEF With, Sound
  <2>2. /\ w.at = "loop" /\ w.sharing = v.sharing /\ w.inbox = None /\ w.req = None
        /\ w.solo = v.solo /\ w.passes = v.passes /\ w.loops = v.loops
        /\ w.iterations = v.iterations
    BY <1>1 DEF With, Sound, ViewFields
  <2>3. Append(v.aside, v.req) \in Seq(Known(asked)) /\ Len(Append(v.aside, v.req)) = 1
    <3>1. v.aside = <<>> /\ v.req \in Known(asked)
      BY DEF Sound, Common
    <3> QED BY <3>1
  <2>4. w.aside \in Seq(Known(asked)) /\ Len(w.aside) <= 1
    <3>1. w.aside = Append(v.aside, v.req)
      BY <1>1 DEF With, Sound, ViewFields
    <3> QED BY <2>3, <3>1
  <2> QED BY <1>1, <2>1, <2>2, <2>4 DEF Sound, Common, Places, Meets
<1>2. ASSUME ~asked[v.req].batchable,
          NEW w, w = With(v, [at |-> "pass", inbox |-> None, solo |-> Passes(v.store, asked[v.req])])
     PROVE  Sound(w, asked)
  <2>1. DOMAIN w = ViewFields
    BY <1>2 DEF With, Sound
  <2>2. /\ w.at = "pass" /\ w.sharing = v.sharing /\ w.inbox = None /\ w.req = v.req
        /\ w.aside = v.aside /\ w.solo = Passes(v.store, asked[v.req])
        /\ w.passes = v.passes /\ w.loops = v.loops /\ w.iterations = v.iterations
    BY <1>2 DEF With, Sound, ViewFields
  <2>3. Passes(v.store, asked[v.req]) \in Nat \ {0}
    BY KindsAssumption DEF Passes
  <2> QED BY <1>2, <2>1, <2>2, <2>3, NoneAssumption DEF Sound, Common, Places, Meets
<1>3. ASSUME NEW w, w = With(v, [at |-> "loop", inbox |-> None, req |-> None])
     PROVE  Sound(w, asked)
  <2>1. DOMAIN w = ViewFields
    BY <1>3 DEF With, Sound
  <2>2. /\ w.at = "loop" /\ w.sharing = v.sharing /\ w.inbox = None /\ w.req = None
        /\ w.aside = v.aside /\ w.solo = v.solo /\ w.passes = v.passes
        /\ w.loops = v.loops /\ w.iterations = v.iterations
    BY <1>3 DEF With, Sound, ViewFields
  <2> QED BY <1>3, <2>1, <2>2 DEF Sound, Common, Places, Meets
<1> QED BY <1>1, <1>2, <1>3 DEF FromLoaded

(* ... with a pass of it. *)
LEMMA SoloSound ==
  ASSUME NEW asked, NEW v, Sound(v, asked), v.at = "solo", NEW q
  PROVE  Sound(FromSolo(v, q), asked)
<1>1. ASSUME NEW w, w = With(v, [at |-> "loop", inbox |-> None, req |-> None, solo |-> None,
                          store |-> Inserted(v.store, q.topic, CacheSize)])
     PROVE  Sound(w, asked)
  <2>1. DOMAIN w = ViewFields
    BY <1>1 DEF With, Sound
  <2>2. /\ w.at = "loop" /\ w.sharing = v.sharing /\ w.inbox = None /\ w.req = None
        /\ w.aside = v.aside /\ w.solo = None /\ w.passes = v.passes
        /\ w.loops = v.loops /\ w.iterations = v.iterations
    BY <1>1 DEF With, Sound, ViewFields
  <2> QED BY <1>1, <2>1, <2>2 DEF Sound, Common, Places, Meets
<1>2. ASSUME v.solo - 1 # 0,
          NEW w, w = With(v, [at |-> "pass", inbox |-> None, solo |-> v.solo - 1])
     PROVE  Sound(w, asked)
  <2>1. DOMAIN w = ViewFields
    BY <1>2 DEF With, Sound
  <2>2. /\ w.at = "pass" /\ w.sharing = v.sharing /\ w.inbox = None /\ w.req = v.req
        /\ w.aside = v.aside /\ w.solo = v.solo - 1 /\ w.passes = v.passes
        /\ w.loops = v.loops /\ w.iterations = v.iterations
    BY <1>2 DEF With, Sound, ViewFields
  <2> QED BY <1>2, <2>1, <2>2, NoneAssumption DEF Sound, Common, Places, Meets
<1> QED BY <1>1, <1>2 DEF FromSolo

(* ... with a pass of the batch, or at the end of the budget. *)
LEMMA BudgetSound ==
  ASSUME NEW asked, NEW v, Sound(v, asked), v.at = "budget"
  PROVE  Sound(FromBudget(v), asked)
<1>1. ASSUME v.passes < v.iterations,
          NEW w, w = With(v, [at |-> "pass", inbox |-> None, passes |-> v.passes + 1])
     PROVE  Sound(w, asked)
  <2>1. DOMAIN w = ViewFields
    BY <1>1 DEF With, Sound
  <2>2. /\ w.at = "pass" /\ w.sharing = v.sharing /\ w.inbox = None /\ w.req = v.req
        /\ w.aside = v.aside /\ w.solo = v.solo /\ w.passes = v.passes + 1
        /\ w.loops = v.loops /\ w.iterations = v.iterations
    BY <1>1 DEF With, Sound, ViewFields
  <2> QED BY <1>1, <2>1, <2>2 DEF Sound, Common, Places, Meets
<1>2. ASSUME NEW w, w = With(v, [at |-> "size", inbox |-> None, sharing |-> "gone",
                          passes |-> v.passes + 1])
     PROVE  Sound(w, asked)
  <2>1. DOMAIN w = ViewFields
    BY <1>2 DEF With, Sound
  <2>2. /\ w.at = "size" /\ w.sharing = "gone" /\ w.inbox = None /\ w.req = v.req
        /\ w.aside = v.aside /\ w.solo = v.solo /\ w.passes = v.passes + 1
        /\ w.loops = v.loops /\ w.iterations = v.iterations
    BY <1>2 DEF With, Sound, ViewFields
  <2> QED BY <1>2, <2>1, <2>2 DEF Sound, Common, Places, Meets
<1>3. ASSUME NEW w, w = With(v, [at |-> "time", inbox |-> None, loops |-> v.loops + 1])
     PROVE  Sound(w, asked)
  <2>1. DOMAIN w = ViewFields
    BY <1>3 DEF With, Sound
  <2>2. /\ w.at = "time" /\ w.sharing = v.sharing /\ w.inbox = None /\ w.req = v.req
        /\ w.aside = v.aside /\ w.solo = v.solo /\ w.passes = v.passes
        /\ w.loops = v.loops + 1 /\ w.iterations = v.iterations
    BY <1>3 DEF With, Sound, ViewFields
  <2> QED BY <1>3, <2>1, <2>2 DEF Sound, Common, Places, Meets
<1>4. ASSUME NEW w, w = With(v, [at |-> "size", inbox |-> None, sharing |-> "gone", loops |-> v.loops + 1])
     PROVE  Sound(w, asked)
  <2>1. DOMAIN w = ViewFields
    BY <1>4 DEF With, Sound
  <2>2. /\ w.at = "size" /\ w.sharing = "gone" /\ w.inbox = None /\ w.req = v.req
        /\ w.aside = v.aside /\ w.solo = v.solo /\ w.passes = v.passes
        /\ w.loops = v.loops + 1 /\ w.iterations = v.iterations
    BY <1>4 DEF With, Sound, ViewFields
  <2> QED BY <1>4, <2>1, <2>2 DEF Sound, Common, Places, Meets
<1> QED BY <1>1, <1>2, <1>3, <1>4 DEF FromBudget

(* ... behind a pass. *)
LEMMA PassedSound ==
  ASSUME NEW asked, NEW v, Sound(v, asked), v.at = "passed"
  PROVE  Sound(FromPassed(v), asked)
<1>1. ASSUME NEW w, w = With(v, [at |-> "budget", rows |-> Going(v.rows),
                          store |-> StoreAfter(v.store, v.rows, CacheSize)])
     PROVE  Sound(w, asked)
  <2>1. DOMAIN w = ViewFields
    BY <1>1 DEF With, Sound
  <2>2. /\ w.at = "budget" /\ w.sharing = v.sharing /\ w.inbox = v.inbox
        /\ w.req = v.req /\ w.aside = v.aside /\ w.solo = v.solo /\ w.passes = v.passes
        /\ w.loops = v.loops /\ w.iterations = v.iterations
    BY <1>1 DEF With, Sound, ViewFields
  <2> QED BY <1>1, <2>1, <2>2 DEF Sound, Common, Places, Meets
<1> QED BY <1>1 DEF FromPassed

(* ... with the times of all. *)
LEMMA TimedSound ==
  ASSUME NEW asked, NEW v, Sound(v, asked), v.at = "timed"
  PROVE  Sound(FromTimed(v), asked)
<1>1. ASSUME NEW passes, passes \in Nat \ {0},
          NEW w, w = With(v, [at |-> "size", inbox |-> None, sharing |-> "gone", loops |-> 0,
                          iterations |-> passes])
     PROVE  Sound(w, asked)
  <2>1. DOMAIN w = ViewFields
    BY <1>1 DEF With, Sound
  <2>2. /\ w.at = "size" /\ w.sharing = "gone" /\ w.inbox = None /\ w.req = v.req
        /\ w.aside = v.aside /\ w.solo = v.solo /\ w.passes = v.passes /\ w.loops = 0
        /\ w.iterations = passes
    BY <1>1 DEF With, Sound, ViewFields
  <2> QED BY <1>1, <2>1, <2>2 DEF Sound, Common, Places, Meets
<1>2. Max({Rounded(v.iterations * Budget * Size * SyncFrequency, v.inbox), 1}) \in Nat \ {0}
  BY RoundedAtLeastOne DEF Sound
<1> QED BY <1>1, <1>2 DEF FromTimed

(* A view that is not at a meeting goes on to a sound one. *)
LEMMA OnwardSound ==
  ASSUME NEW asked, \A c \in Clients : asked[c] \in MayAsk[c] \cup {None},
         NEW v, Sound(v, asked), v.at \notin Meets
  PROVE  Sound(Onward(v, asked), asked)
<1>1. v.at = "loaded" => asked[v.req] \in Kinds
  BY DEF Sound, Common, Known, Kinds
<1>2. v.at \in Places \ Meets
  BY DEF Sound
<1>3. CASE v.at = "loop"
  BY <1>3, LoopSound DEF Onward
<1>4. CASE v.at = "sized"
  BY <1>4, SizedSound DEF Onward
<1>5. CASE v.at = "shared"
  BY <1>5, SharedSound DEF Onward
<1>6. CASE v.at = "request"
  BY <1>6, RequestSound DEF Onward
<1>7. CASE v.at = "loaded"
  BY <1>1, <1>7, LoadedSound DEF Onward
<1>8. CASE v.at = "solo"
  BY <1>8, SoloSound DEF Onward
<1>9. CASE v.at = "budget"
  BY <1>9, BudgetSound DEF Onward
<1>10. CASE v.at = "passed"
  BY <1>10, PassedSound DEF Onward
<1>11. CASE v.at = "timed"
  BY <1>11, TimedSound DEF Onward
<1> QED BY <1>2, <1>3, <1>4, <1>5, <1>6, <1>7, <1>8, <1>9, <1>10, <1>11 DEF Places

----------------------------------------
(* Steps of one rank. *)

(* Clients whose handler may stop their context are not served alone: behind *)
(* a token, rank 0 would leave such a request by itself.                     *)
BatchedLeavers == \A c \in Clients \cap Leavers : \A k \in MayAsk[c] : k.batchable

(* A request that is served alone is not stopped. *)
LEMMA SoloStays ==
  ASSUME BatchedLeavers, NEW r \in Ranks, Ready(r), server[r].solo # None
  PROVE  server[r].req \notin left
<1>1. server[r].req \in Known(ask) /\ ~ask[server[r].req].batchable
  BY SoundLocals DEF Ready, Common
<1>2. ask[server[r].req] \in MayAsk[server[r].req] /\ server[r].req \in Clients
  BY <1>1 DEF Ready, Global, Known
<1> QED BY <1>1, <1>2 DEF BatchedLeavers, Ready, Global

(* Every step of a rank goes on from a place that is no meeting, and takes it *)
(* onward whatever the other ranks do.                                        *)
LEMMA StepDone ==
  ASSUME CacheBytes = 0, BatchedLeavers, NEW r \in Ranks, Ready(r), Step(r)
  PROVE  Done(r) /\ at[r] \notin Meets
<1>1. CASE TakeAside(r)
  BY <1>1, TakeAsideStep DEF TakeAside, Meets
<1>2. CASE AskQueue(r)
  BY <1>2, AskQueueStep DEF AskQueue, Meets
<1>3. CASE ShareData(r)
  BY <1>3, ShareDataStep DEF ShareData, Meets
<1>4. CASE TakeShared(r)
  BY <1>4, TakeSharedStep DEF TakeShared, Meets
<1>5. CASE JoinBatch(r)
  BY <1>5, JoinBatchStep DEF JoinBatch, Meets
<1>6. CASE RefuseJoin(r)
  BY <1>6, RefuseJoinStep DEF RefuseJoin, Meets
<1>7. CASE StartDraining(r)
  BY <1>7, StartDrainingStep DEF StartDraining, Meets
<1>8. CASE RefuseLoad(r)
  BY <1>8, RefuseLoadStep DEF RefuseLoad, Meets
<1>9. CASE Load(r)
  BY <1>9, KeepModelStep, LoadModelStep DEF Load, Meets
<1>10. CASE OpenBatch(r)
  BY <1>10, OpenBatchStep DEF OpenBatch, Meets
<1>11. CASE RefuseSingle(r)
  BY <1>11, RefuseSingleStep DEF RefuseSingle, Meets
<1>12. CASE ServeSingle(r)
  BY <1>12, ServeSingleStep DEF ServeSingle, Meets
<1>13. CASE NextSingle(r)
  <2>1. at[r] = "solo"
    BY <1>13 DEF NextSingle
  <2>2. server[r].solo # None
    BY <2>1, SoundLocals DEF Ready
  <2> QED BY <1>13, <2>1, <2>2, SoloStays, EndSingleStep, GoOnSingleStep DEF Meets
<1>14. CASE Idle(r)
  BY <1>14, IdleStep DEF Idle, NoRequest, Meets
<1>15. CASE CloseBatch(r)
  BY <1>15, CloseBatchStep DEF CloseBatch, NoRequest, Meets
<1>16. CASE StartBudget(r)
  BY <1>16, StartBudgetStep DEF StartBudget, NoRequest, Meets
<1>17. CASE NextPass(r)
  BY <1>17, PassStep, NoPassStep DEF NextPass, Meets
<1>18. CASE TakeResponses(r)
  BY <1>18, TakeResponsesStep DEF TakeResponses, Meets
<1>19. CASE EndBudget(r)
  BY <1>19, AskTimesStep, SkipTimesStep DEF EndBudget, Meets
<1>20. CASE AdjustBudget(r)
  BY <1>20, AdjustBudgetStep DEF AdjustBudget, Meets
<1>21. CASE RemoveGone(r)
  BY <1>21, RemoveGoneStep DEF RemoveGone, Meets
<1> QED BY <1>1, <1>2, <1>3, <1>4, <1>5, <1>6, <1>7, <1>8, <1>9, <1>10, <1>11, <1>12,
           <1>13, <1>14, <1>15, <1>16, <1>17, <1>18, <1>19, <1>20, <1>21 DEF Step

(* Every view is a sound one. *)
LEMMA ViewsSound ==
  ASSUME OnPath, NEW r \in Ranks
  PROVE  Sound(View(r), ask)
BY DEF OnPath, IsPath

(* A path that the step of a rank at its end makes longer by one. *)
LEMMA LongerPath ==
  ASSUME NEW n \in Nat, NEW p, NEW asked, IsPath(n, p, asked), p[n].at \notin Meets,
         NEW w, w = Onward(p[n], asked), Sound(w, asked)
  PROVE  \E longer : /\ IsPath(n + 1, longer, asked) /\ longer[n + 1] = w
                     /\ \A i \in 0 .. n : longer[i] = p[i]
<1> DEFINE longer == [i \in 0 .. n + 1 |-> IF i <= n THEN p[i] ELSE w]
<1>1. longer[n + 1] = w /\ \A i \in 0 .. n : longer[i] = p[i]
  OBVIOUS
<1>2. \A i \in 0 .. n + 1 : Sound(longer[i], asked)
  <2> SUFFICES ASSUME NEW i \in 0 .. n + 1 PROVE Sound(longer[i], asked)
    OBVIOUS
  <2>1. CASE i = n + 1
    BY <2>1
  <2>2. CASE i \in 0 .. n
    BY <2>2, <1>1 DEF IsPath
  <2> QED BY <2>1, <2>2
<1>3. \A i \in 0 .. n : longer[i].at \notin Meets /\ longer[i + 1] = Onward(longer[i], asked)
  <2> SUFFICES ASSUME NEW i \in 0 .. n
               PROVE  longer[i].at \notin Meets /\ longer[i + 1] = Onward(longer[i], asked)
    OBVIOUS
  <2>1. CASE i = n
    BY <1>1, <2>1
  <2>2. CASE i # n
    <3>1. i \in 0 .. n - 1 /\ i + 1 \in 0 .. n
      BY <2>2
    <3> QED BY <1>1, <3>1 DEF IsPath
  <2> QED BY <2>1, <2>2
<1> HIDE DEF longer
<1> QED BY <1>1, <1>2, <1>3 DEF IsPath

(* A step of a rank keeps the ranks on a path. *)
LEMMA StepOnPath ==
  ASSUME Shaped, Global, OnPath, NEW r \in Ranks, Done(r), at[r] \notin Meets
  PROVE  OnPath'
<1>1. PICK n \in Nat : \E p : /\ IsPath(n, p, ask)
                              /\ \A q \in Ranks : \E i \in 0 .. n : View(q) = p[i]
  BY DEF OnPath
<1>2. PICK p : /\ IsPath(n, p, ask)
               /\ \A q \in Ranks : \E i \in 0 .. n : View(q) = p[i]
  BY <1>1
<1>3. PICK i \in 0 .. n : View(r) = p[i]
  BY <1>2
<1>4. View(r)' = Onward(p[i], ask) /\ UNCHANGED ask
  BY <1>3 DEF Done, Apart, clients
<1>5. \A q \in Ranks \ {r} : View(q)' = View(q)
  BY DEF Done, Apart, View
<1>6. p[i].at \notin Meets
  <2>1. View(r).at = at[r]
    BY DEF View, ViewOf
  <2> QED BY <1>3, <2>1
<1>7. Sound(p[i], ask)
  BY <1>2 DEF IsPath
<1>8. PICK w : w = View(r)'
  OBVIOUS
<1>9. CASE i # n
  <2>1. i + 1 \in 0 .. n /\ View(r)' = p[i + 1]
    BY <1>2, <1>4, <1>9 DEF IsPath
  <2>2. \A q \in Ranks : \E j \in 0 .. n : View(q)' = p[j]
    BY <1>2, <1>5, <2>1
  <2>3. IsPath(n, p, ask)'
    BY <1>2, <1>4 DEF IsPath
  <2> QED BY <2>2, <2>3 DEF OnPath
<1>10. CASE i = n
  <2>1. Sound(w, ask) /\ w = Onward(p[n], ask)
    BY <1>4, <1>6, <1>7, <1>8, <1>10, OnwardSound DEF Global
  <2>2. PICK longer : /\ IsPath(n + 1, longer, ask) /\ longer[n + 1] = w
                      /\ \A j \in 0 .. n : longer[j] = p[j]
    BY <1>2, <1>6, <1>10, <2>1, LongerPath
  <2>3. ASSUME NEW q \in Ranks PROVE \E j \in 0 .. n + 1 : View(q)' = longer[j]
    <3>1. CASE q = r
      BY <1>8, <2>2, <3>1
    <3>2. CASE q # r
      <4>1. PICK j \in 0 .. n : View(q) = p[j]
        BY <1>2
      <4>2. j \in 0 .. n + 1 /\ View(q)' = longer[j]
        BY <1>5, <2>2, <3>2, <4>1
      <4> QED BY <4>2
    <3> QED BY <3>1, <3>2
  <2>4. IsPath(n + 1, longer, ask)'
    BY <1>4, <2>2 DEF IsPath
  <2>5. n + 1 \in Nat
    OBVIOUS
  <2> QED BY <2>3, <2>4, <2>5 DEF OnPath
<1> QED BY <1>9, <1>10

(* A step of a rank keeps the invariant. *)
LEMMA StepInvariant ==
  ASSUME CacheBytes = 0, BatchedLeavers, IInv, NEW r \in Ranks, Step(r)
  PROVE  IInv'
<1>1. Ready(r)
  BY ViewsSound DEF IInv, Ready
<1>2. Done(r) /\ at[r] \notin Meets
  BY <1>1, StepDone
<1>3. Shaped'
  BY <1>2 DEF Done, Apart, Shaped
<1>4. ASSUME NEW q \in Ranks PROVE Own(q)'
  <2>1. CASE q = r
    BY <1>2, <2>1 DEF Done
  <2>2. CASE q # r
    <3>1. /\ at'[q] = at[q] /\ sharing'[q] = sharing[q] /\ offer'[q] = offer[q]
          /\ server'[q] = server[q] /\ time'[q] = time[q] /\ UNCHANGED <<ask, types>>
      BY <1>2, <2>2 DEF Done, Apart, clients
    <3>2. Layers(q)' = Layers(q)
      BY <3>1 DEF Layers
    <3> QED BY <3>1, <3>2 DEF IInv, Own, Offers, Clocked, Loaded
  <2> QED BY <2>1, <2>2
<1>5. OnPath'
  BY <1>2, StepOnPath DEF IInv
<1> QED BY <1>2, <1>3, <1>4, <1>5 DEF IInv, Done

----------------------------------------
(* Meetings. *)

(* A sum of naturals is one, at least each of them, and 0 if all are. *)
LEMMA SumOfNaturals ==
  ASSUME NEW f, IsFiniteSet(DOMAIN f), \A x \in DOMAIN f : f[x] \in Nat
  PROVE  /\ SumFunction(f) \in Nat
         /\ \A x \in DOMAIN f : f[x] <= SumFunction(f)
         /\ (\A x \in DOMAIN f : f[x] = 0) => SumFunction(f) = 0
<1> DEFINE D == DOMAIN f
<1>1. PICK sum : SumFunction(f) = sum[D] /\ SumsOf(f, sum)
  BY SumFunctionSums
<1> DEFINE Fits(s) == sum[s] \in Nat /\ ((\A x \in s : f[x] = 0) => sum[s] = 0)
           Fitting == {n \in Nat : \A s \in SUBSET D : Cardinality(s) = n => Fits(s)}
<1>2. 0 \in Fitting
  <2> SUFFICES ASSUME NEW s \in SUBSET D, Cardinality(s) = 0 PROVE Fits(s)
    OBVIOUS
  <2>1. s = {}
    BY FS_Subset, FS_EmptySet
  <2> QED BY <1>1, <2>1 DEF SumsOf
<1>3. ASSUME NEW n \in Nat, n \in Fitting PROVE n + 1 \in Fitting
  <2> SUFFICES ASSUME NEW s \in SUBSET D, Cardinality(s) = n + 1 PROVE Fits(s)
    OBVIOUS
  <2>1. IsFiniteSet(s)
    BY FS_Subset
  <2>2. PICK x \in s : TRUE
    BY <2>1, FS_EmptySet
  <2>3. Cardinality(s \ {x}) = n
    <3>1. Cardinality(s \ {x}) = Cardinality(s) - 1
      BY SizeWithout
    <3> QED BY <3>1
  <2>4. Fits(s \ {x})
    BY <1>3, <2>3
  <2>5. sum[s] = f[x] + sum[s \ {x}] /\ f[x] \in Nat
    BY <1>1 DEF SumsOf
  <2> QED BY <2>4, <2>5
<1>4. Nat \subseteq Fitting
  <2> HIDE DEF Fitting
  <2> QED BY <1>2, <1>3, SetInduction
<1>5. ASSUME NEW s \in SUBSET D PROVE Fits(s)
  <2>1. Cardinality(s) \in Nat
    BY FS_Subset, FS_CardinalityType
  <2> QED BY <1>4, <2>1
<1>6. ASSUME NEW x \in D PROVE f[x] <= sum[D]
  <2>1. sum[D] = f[x] + sum[D \ {x}]
    BY <1>1 DEF SumsOf
  <2>2. sum[D \ {x}] \in Nat /\ f[x] \in Nat
    BY <1>5
  <2> QED BY <2>1, <2>2
<1> QED BY <1>1, <1>5, <1>6

(* When all ranks wait they are at the end of their path, so they see alike. *)
LEMMA Together ==
  ASSUME OnPath, Waiting = Ranks, NEW r \in Ranks
  PROVE  View(r) = View(0)
<1>1. PICK n \in Nat : \E p : /\ IsPath(n, p, ask)
                              /\ \A q \in Ranks : \E i \in 0 .. n : View(q) = p[i]
  BY DEF OnPath
<1>2. PICK p : /\ IsPath(n, p, ask)
               /\ \A q \in Ranks : \E i \in 0 .. n : View(q) = p[i]
  BY <1>1
<1>3. ASSUME NEW q \in Ranks PROVE View(q) = p[n]
  <2>1. PICK i \in 0 .. n : View(q) = p[i]
    BY <1>2
  <2>2. p[i].at = at[q]
    BY <2>1 DEF View, ViewOf
  <2>3. at[q] \in Meets
    BY DEF Waiting
  <2>4. i = n
    <3>1. SUFFICES ASSUME i # n PROVE FALSE
      OBVIOUS
    <3>2. i \in 0 .. n - 1
      BY <3>1
    <3> QED BY <1>2, <2>2, <2>3, <3>2 DEF IsPath
  <2> QED BY <2>1, <2>4
<1> QED BY <1>3, ZeroRank

(* What they see alike. *)
LEMMA TogetherLocals ==
  ASSUME OnPath, Waiting = Ranks, NEW r \in Ranks
  PROVE  /\ at[r] = at[0] /\ sharing[r] = sharing[0] /\ inbox[r] = inbox[0]
         /\ Common(at[0], server[0].solo) => server[r].req = server[0].req
         /\ server[r].aside = server[0].aside /\ server[r].open = server[0].open
         /\ server[r].drain = server[0].drain /\ server[r].rows = server[0].rows
         /\ server[r].solo = server[0].solo /\ server[r].model = server[0].model
         /\ server[r].store = server[0].store /\ server[r].passes = server[0].passes
         /\ server[r].loops = server[0].loops /\ server[r].iterations = server[0].iterations
<1>1. PICK v : v = View(r)
  OBVIOUS
<1>2. v = View(0)
  BY <1>1, Together
<1>3. /\ v.at = at[r] /\ v.sharing = sharing[r] /\ v.inbox = inbox[r]
      /\ v.req = IF Common(at[r], server[r].solo) THEN server[r].req ELSE None
      /\ v.aside = server[r].aside /\ v.open = server[r].open /\ v.drain = server[r].drain
      /\ v.rows = server[r].rows /\ v.solo = server[r].solo /\ v.model = server[r].model
      /\ v.store = server[r].store /\ v.passes = server[r].passes
      /\ v.loops = server[r].loops /\ v.iterations = server[r].iterations
  BY <1>1, ViewIsFields DEF View
<1>4. /\ v.at = at[0] /\ v.sharing = sharing[0] /\ v.inbox = inbox[0]
      /\ v.req = IF Common(at[0], server[0].solo) THEN server[0].req ELSE None
      /\ v.aside = server[0].aside /\ v.open = server[0].open /\ v.drain = server[0].drain
      /\ v.rows = server[0].rows /\ v.solo = server[0].solo /\ v.model = server[0].model
      /\ v.store = server[0].store /\ v.passes = server[0].passes
      /\ v.loops = server[0].loops /\ v.iterations = server[0].iterations
  BY <1>2, ViewIsFields DEF View
<1>5. at[r] = at[0] /\ sharing[r] = sharing[0] /\ inbox[r] = inbox[0]
      /\ server[r].solo = server[0].solo
  BY <1>3, <1>4
<1>6. Common(at[0], server[0].solo) => server[r].req = server[0].req
  BY <1>3, <1>4, <1>5
<1> QED BY <1>3, <1>4, <1>5, <1>6

(* One sound view, which every rank has next, is a path. *)
LEMMA PathOfOne ==
  ASSUME NEW u, Sound(u, ask'), \A r \in Ranks : View(r)' = u
  PROVE  OnPath'
<1> DEFINE p == [i \in {0} |-> u]
<1>1. IsPath(0, p, ask)'
  BY DEF IsPath
<1>2. \A r \in Ranks : \E i \in 0 .. 0 : View(r)' = p[i]
  OBVIOUS
<1> QED BY <1>1, <1>2 DEF OnPath

(* What a rank offers of its own is a natural, and nothing but rank 0's counts *)
(* when they share an object.                                                  *)
LEMMA SumAtMeeting ==
  ASSUME IInv, Waiting = Ranks
  PROVE  /\ at[0] \in {"size", "time"} => Sum \in Nat
         /\ at[0] = "time" => Sum # 0
         /\ at[0] = "size" /\ Sum # 0 => offer[0] # 0
<1>1. DOMAIN offer = Ranks /\ IsFiniteSet(Ranks) /\ 0 \in Ranks
  BY ZeroRank, FS_Interval, SizeAssumption DEF IInv, Shaped, Ranks
<1>2. \A r \in Ranks : at[r] = at[0] /\ Offers(r)
  BY TogetherLocals DEF IInv, Own
<1>3. CASE at[0] = "size"
  <2>1. \A r \in Ranks : offer[r] \in Nat /\ (r # 0 => offer[r] = 0)
    <3> SUFFICES ASSUME NEW r \in Ranks PROVE offer[r] \in Nat /\ (r # 0 => offer[r] = 0)
      OBVIOUS
    <3>1. at[r] = "size" /\ Offers(r)
      BY <1>2, <1>3
    <3>2. offer[r] = IF r = 0 /\ (sharing[r] = "gone" \/ server[r].req # None) THEN 1 ELSE 0
      BY <3>1 DEF Offers
    <3> QED BY <3>2
  <2>2. SumFunction(offer) \in Nat
        /\ ((\A r \in Ranks : offer[r] = 0) => SumFunction(offer) = 0)
    BY <1>1, <2>1, SumOfNaturals
  <2>3. Sum = SumFunction(offer)
    BY <1>3 DEF Sum
  <2> QED BY <1>3, <2>1, <2>2, <2>3
<1>4. CASE at[0] = "time"
  <2>1. \A r \in Ranks : offer[r] \in Nat \ {0}
    BY <1>2, <1>4 DEF Offers
  <2>2. SumFunction(offer) \in Nat /\ offer[0] <= SumFunction(offer)
    BY <1>1, <2>1, SumOfNaturals
  <2>3. Sum = SumFunction(offer)
    BY <1>4 DEF Sum
  <2> QED BY <1>1, <1>4, <2>1, <2>2, <2>3
<1> QED BY <1>3, <1>4

(* A collective keeps the invariant: all go on from it alike. *)
LEMMA AllSumInvariant ==
  ASSUME IInv, AllSum
  PROVE  IInv'
<1>1. /\ Waiting = Ranks /\ 0 \in Ranks /\ OnPath /\ at[0] \in Meets
  BY ZeroRank DEF AllSum, IInv, Waiting
<1>2. /\ UNCHANGED <<ask, left, types, answer, queue, sharing, server, time>>
      /\ DOMAIN at' = Ranks /\ DOMAIN inbox' = Ranks /\ DOMAIN offer' = Ranks
      /\ \A r \in Ranks : at'[r] = After(r) /\ inbox'[r] = Sum
  BY DEF AllSum, clients
<1>3. \A r \in Ranks : at'[r] = at'[0]
  <2> SUFFICES ASSUME NEW r \in Ranks PROVE at'[r] = at'[0]
    OBVIOUS
  <2>1. at[r] = at[0] /\ server[r].solo = server[0].solo
    BY <1>1, TogetherLocals
  <2> QED BY <1>1, <1>2, <2>1 DEF After
<1>4. Shaped' /\ Global'
  BY <1>2 DEF IInv, Shaped, Global, Known
<1>5. /\ Offers(0) /\ OwnRequest /\ Sound(View(0), ask)
  BY <1>1, ViewsSound DEF IInv, Own
<1>6. LET s == server[0] IN
      /\ s.aside \in Seq(Known(ask)) /\ Len(s.aside) <= 1
      /\ Common(at[0], s.solo) => s.aside = <<>> /\ s.req \in Known(ask)
      /\ at[0] \in {"size", "sized", "data", "shared"} /\ sharing[0] = "request" =>
           s.aside = <<>>
      /\ s.solo # None => /\ at[0] \in {"pass", "solo"} /\ ~ask[s.req].batchable
                          /\ s.solo \in Nat \ {0}
      /\ s.iterations \in Nat \ {0} /\ s.passes \in Nat /\ s.loops \in Nat
      /\ at[0] \in {"pass", "passed"} /\ s.solo = None => s.passes <= s.iterations
  BY <1>1, <1>5, SoundLocals
<1>7. sharing[0] \in {None, "request", "gone"}
  <2>1. View(0).sharing = sharing[0]
    BY DEF View, ViewOf
  <2> QED BY <1>5, <2>1 DEF Sound
<1>8. OwnRequest'
  <2>1. at'[0] = "sized" => at[0] = "size"
    BY <1>1, <1>2 DEF After, Meets
  <2>2. at'[0] \notin {"size", "data"}
    BY <1>1, <1>2 DEF After, Meets
  <2>3. at[0] = "size" /\ Sum # 0 => offer[0] # 0
    BY <1>1, SumAtMeeting
  <2>4. at[0] = "size" /\ sharing[0] = "request" /\ offer[0] # 0 => server[0].req # None
    BY <1>5 DEF Offers
  <2>5. at[0] = "size" /\ sharing[0] = "request" => server[0].req \in Known(ask) \cup {None}
    BY <1>5 DEF OwnRequest
  <2> QED BY <1>1, <1>2, <2>1, <2>2, <2>3, <2>4, <2>5 DEF OwnRequest
<1>9. ASSUME NEW r \in Ranks PROVE Own(r)'
  <2>1. Own(r) /\ at[r] = at[0]
    BY <1>1, TogetherLocals DEF IInv
  <2>2. /\ at'[r] \notin {"size", "data", "pass", "time", "budget"}
        /\ at'[r] = "passed" => at[r] = "pass" /\ server[r].solo = None
    BY <1>1, <1>2, <2>1 DEF After, Meets
  <2>3. Offers(r)'
    BY <2>2 DEF Offers
  <2>4. Clocked(r)'
    BY <1>2, <2>1, <2>2 DEF Own, Clocked
  <2>5. Loaded(r)'
    BY <1>2, <2>1 DEF Own, Loaded, Layers
  <2> QED BY <2>3, <2>4, <2>5 DEF Own
<1>10. PICK u : u = View(0)'
  OBVIOUS
<1>11. /\ DOMAIN u = ViewFields
       /\ u.at = at'[0] /\ u.sharing = sharing[0] /\ u.inbox = Sum
       /\ u.req = IF Common(at'[0], server[0].solo) THEN server[0].req ELSE None
       /\ u.aside = server[0].aside /\ u.solo = server[0].solo
       /\ u.passes = server[0].passes /\ u.loops = server[0].loops
       /\ u.iterations = server[0].iterations
  <2>1. u = ViewOf(at'[0], sharing[0], Sum, server[0])
    BY <1>1, <1>2, <1>10 DEF View
  <2> QED BY <2>1, ViewIsFields
<1>12. Sound(u, ask)
  <2>1. /\ at'[0] \in {"loop", "sized", "shared", "loaded", "passed", "solo", "timed"}
        /\ at'[0] = "loaded" <=> at[0] = "load"
        /\ at'[0] = "sized" <=> at[0] = "size"
        /\ at'[0] = "shared" <=> at[0] = "data"
        /\ at'[0] = "timed" <=> at[0] = "time"
        /\ at'[0] = "passed" <=> at[0] = "pass" /\ server[0].solo = None
        /\ at'[0] = "solo" <=> at[0] = "pass" /\ server[0].solo # None
    BY <1>1, <1>2 DEF After, Meets
  <2>2. /\ at[0] = "size" => Sum \in Nat
        /\ at[0] = "time" => Sum \in Nat \ {0}
    BY <1>1, SumAtMeeting
  <2>3. at[0] = "data" /\ sharing[0] = "request" => Sum \in Known(ask)
    BY <1>5 DEF Sum, Offers, OwnRequest
  <2>4. Common(at'[0], server[0].solo) => Common(at[0], server[0].solo)
    BY <2>1 DEF Common
  <2>5. u.at \in Places
    BY <1>11, <2>1 DEF Places
  <2>6. Common(u.at, u.solo) => u.aside = <<>> /\ u.req \in Known(ask)
    BY <1>6, <1>11, <2>4
  <2>7. /\ u.at \in {"size", "sized", "data", "shared"} /\ u.sharing = "request" => u.aside = <<>>
        /\ u.at = "shared" /\ u.sharing = "request" => u.inbox \in Known(ask)
        /\ u.at = "sized" => u.inbox \in Nat
        /\ u.at = "timed" => u.inbox \in Nat \ {0}
    BY <1>6, <1>11, <2>1, <2>2, <2>3
  <2>8. u.solo # None => /\ u.at \in {"pass", "solo"} /\ ~ask[u.req].batchable
                         /\ u.solo \in Nat \ {0}
    <3> SUFFICES ASSUME server[0].solo # None
                 PROVE  u.at \in {"pass", "solo"} /\ ~ask[u.req].batchable /\ u.solo \in Nat \ {0}
      BY <1>11
    <3>1. u.req = server[0].req /\ u.at = "solo"
      BY <1>1, <1>6, <1>11, <2>1 DEF Common, Meets
    <3>2. ~ask[server[0].req].batchable /\ server[0].solo \in Nat \ {0}
      BY <1>6
    <3> QED BY <1>11, <3>1, <3>2
  <2>9. u.at = "solo" => u.solo # None
    BY <1>11, <2>1
  <2>10. /\ u.at = "budget" => u.passes <= u.iterations
         /\ u.at \in {"pass", "passed"} /\ u.solo = None => u.passes <= u.iterations
    BY <1>6, <1>11, <2>1
  <2> QED BY <1>6, <1>7, <1>11, <2>5, <2>6, <2>7, <2>8, <2>9, <2>10 DEF Sound
<1>13. ASSUME NEW r \in Ranks PROVE View(r)' = u
  <2>1. PICK w : w = View(r)'
    OBVIOUS
  <2>2. w = ViewOf(at'[0], sharing[r], Sum, server[r])
    BY <1>2, <1>3, <2>1 DEF View
  <2>3. u = ViewOf(at'[0], sharing[0], Sum, server[0])
    BY <1>1, <1>2, <1>10 DEF View
  <2>4. Common(at'[0], server[0].solo) => Common(at[0], server[0].solo)
    BY <1>1, <1>2 DEF Common, After, Meets
  <2>5. w = u
    BY <1>1, <2>2, <2>3, <2>4, TogetherLocals DEF ViewOf
  <2> QED BY <2>1, <2>5
<1>14. OnPath'
  <2>1. Sound(u, ask')
    BY <1>2, <1>12
  <2>2. OnPath'
    BY <1>13, <2>1, PathOfOne
  <2> QED BY <2>2
<1> QED BY <1>4, <1>8, <1>9, <1>14 DEF IInv

----------------------------------------
(* Handlers. *)

(* A view and what follows from it do not depend on what others ask. *)
LEMMA SoundAsked ==
  ASSUME NEW asked, NEW more, \A c \in Known(asked) : more[c] = asked[c],
         NEW v, Sound(v, asked)
  PROVE  Sound(v, more) /\ (v.at \notin Meets => Onward(v, more) = Onward(v, asked))
<1>1. Known(asked) \subseteq Known(more)
  BY DEF Known
<1>2. v.aside \in Seq(Known(more))
  <2>1. v.aside \in Seq(Known(asked))
    BY DEF Sound
  <2> QED BY <1>1, <2>1
<1>3. Common(v.at, v.solo) => v.req \in Known(asked) /\ more[v.req] = asked[v.req]
  BY DEF Sound
<1>4. v.solo # None => Common(v.at, v.solo)
  BY DEF Common
<1>5. Sound(v, more)
  BY <1>1, <1>2, <1>3, <1>4 DEF Sound
<1>6. v.at \in {"request", "loaded", "solo"} => more[v.req] = asked[v.req]
  BY <1>3 DEF Sound, Common
<1>7. v.at \in Places
  BY DEF Sound
<1>8. v.at \notin Meets => Onward(v, more) = Onward(v, asked)
  BY <1>6, <1>7 DEF Onward, Places
<1> QED BY <1>5, <1>8

(* A request keeps the invariant. *)
LEMMA AskInvariant ==
  ASSUME IInv, NEW c \in Clients, NEW kind \in MayAsk[c], Ask(c, kind)
  PROVE  IInv'
<1>1. /\ ask[c] = None /\ ask' = [ask EXCEPT ![c] = kind] /\ queue' = Append(queue, c)
      /\ UNCHANGED <<answer, left, types, at, sharing, offer, inbox, server, time>>
  BY DEF Ask
<1>2. kind # None
  BY NoneAssumption DEF Kinds
<1>3. DOMAIN ask = Clients /\ queue \in Seq(Known(ask))
  BY DEF IInv, Global
<1>4. /\ \A d \in Known(ask) : ask'[d] = ask[d]
      /\ Known(ask) \subseteq Known(ask') /\ c \in Known(ask')
  BY <1>1, <1>2, <1>3 DEF Known
<1>5. Shaped'
  BY <1>1 DEF IInv, Shaped
<1>6. Global'
  <2>1. queue' \in Seq(Known(ask'))
    <3>1. queue \in Seq(Known(ask'))
      BY <1>3, <1>4
    <3> QED BY <1>1, <1>4, <3>1
  <2>2. DOMAIN ask' = Clients /\ \A d \in Clients : ask'[d] \in MayAsk[d] \cup {None}
    BY <1>1, <1>3 DEF IInv, Global
  <2> QED BY <1>1, <2>1, <2>2 DEF IInv, Global
<1>7. OwnRequest'
  BY <1>1, <1>4 DEF IInv, OwnRequest
<1>8. ASSUME NEW r \in Ranks PROVE Own(r)'
  <2>1. at[r] = "pass" /\ server[r].solo # None => server[r].req \in Known(ask)
    BY ViewsSound, SoundLocals DEF IInv, Common
  <2>2. Offers(r)'
    BY <1>1, <1>4, <2>1, ZenonT(40) DEF IInv, Own, Offers
  <2>3. Clocked(r)' /\ Loaded(r)'
    BY <1>1 DEF IInv, Own, Clocked, Loaded, Layers
  <2> QED BY <2>2, <2>3 DEF Own
<1>9. OnPath'
  <2>1. PICK n \in Nat : \E p : /\ IsPath(n, p, ask)
                                /\ \A q \in Ranks : \E i \in 0 .. n : View(q) = p[i]
    BY DEF IInv, OnPath
  <2>2. PICK p : /\ IsPath(n, p, ask)
                 /\ \A q \in Ranks : \E i \in 0 .. n : View(q) = p[i]
    BY <2>1
  <2>3. PICK more : more = ask'
    OBVIOUS
  <2>4. \A i \in 0 .. n :
          Sound(p[i], more) /\ (p[i].at \notin Meets => Onward(p[i], more) = Onward(p[i], ask))
    BY <1>4, <2>2, <2>3, SoundAsked DEF IsPath
  <2>5. \A i \in 0 .. n - 1 : i \in 0 .. n
    OBVIOUS
  <2>6. IsPath(n, p, more)
    BY <2>2, <2>4, <2>5 DEF IsPath
  <2>7. \A q \in Ranks : View(q)' = View(q)
    BY <1>1 DEF View
  <2>8. IsPath(n, p, ask)' /\ \A q \in Ranks : \E i \in 0 .. n : View(q)' = p[i]
    BY <2>2, <2>3, <2>6, <2>7 DEF IsPath
  <2> QED BY <2>8 DEF OnPath
<1> QED BY <1>5, <1>6, <1>7, <1>8, <1>9 DEF IInv

(* Nothing the invariant is about but the handlers' variables changes. *)
LEMMA SameInvariant ==
  ASSUME IInv, UNCHANGED <<ask, answer, queue, types, at, sharing, offer, inbox, server, time>>,
         left' \subseteq Leavers
  PROVE  IInv'
<1>1. Shaped' /\ Global' /\ OwnRequest'
  BY DEF IInv, Shaped, Global, OwnRequest
<1>2. \A r \in Ranks : Own(r)'
  BY DEF IInv, Own, Offers, Clocked, Loaded, Layers
<1>3. OnPath'
  <2>1. \A q \in Ranks : View(q)' = View(q)
    BY DEF View
  <2> QED BY <2>1 DEF IInv, OnPath, IsPath
<1> QED BY <1>1, <1>2, <1>3 DEF IInv

----------------------------------------
(* The theorems. *)

(* The invariant holds at the start: all ranks come to the seed. *)
LEMMA InitInvariant ==
  ASSUME Init
  PROVE  IInv
<1>1. Shaped
  BY DEF Init, Shaped, NewServer, ServerFields
<1>2. Global
  BY DEF Init, Global
<1>3. OwnRequest
  BY ZeroRank DEF Init, OwnRequest
<1>4. ASSUME NEW r \in Ranks PROVE Own(r)
  BY DEF Init, Own, Offers, Clocked, Loaded, NewServer
<1>5. PICK u : u = ViewOf("seed", None, None, NewServer)
  OBVIOUS
<1>6. \A r \in Ranks : View(r) = u
  BY <1>5 DEF Init, View
<1>7. Sound(u, ask)
  <2>1. /\ DOMAIN u = ViewFields /\ u.at = "seed" /\ u.sharing = None
        /\ u.aside = <<>> /\ u.solo = None /\ u.passes = 0 /\ u.loops = 0
        /\ u.iterations = Iterations
    BY <1>5, ViewIsFields DEF NewServer
  <2> QED BY <2>1, BudgetAssumption DEF Sound, Places, Meets, Common
<1>8. OnPath
  <2> DEFINE p == [i \in {0} |-> u]
  <2>1. IsPath(0, p, ask)
    BY <1>7 DEF IsPath
  <2>2. \A r \in Ranks : \E i \in 0 .. 0 : View(r) = p[i]
    BY <1>6
  <2> QED BY <2>1, <2>2 DEF OnPath
<1> QED BY <1>1, <1>2, <1>3, <1>4, <1>8 DEF IInv

(* Every step keeps it. *)
LEMMA NextInvariant ==
  ASSUME CacheBytes = 0, BatchedLeavers, IInv, [Next]_vars
  PROVE  IInv'
<1>1. CASE AllSum
  BY <1>1, AllSumInvariant
<1>2. ASSUME NEW r \in Ranks, Step(r) PROVE IInv'
  BY <1>2, StepInvariant
<1>3. ASSUME NEW c \in Clients, Leave(c) PROVE IInv'
  BY <1>3, SameInvariant DEF Leave, IInv, Global
<1>4. ASSUME NEW c \in Clients, NEW kind \in MayAsk[c], Ask(c, kind) PROVE IInv'
  BY <1>4, AskInvariant
<1>5. CASE UNCHANGED vars
  BY <1>5, SameInvariant DEF vars, IInv, Global
<1> QED BY <1>1, <1>2, <1>3, <1>4, <1>5 DEF Next, Serving

(* Without a limit in bytes, and with clients that leave only requests of a *)
(* batch, the ranks are on a path throughout.                               *)
THEOREM InvariantHolds ==
  ASSUME CacheBytes = 0, BatchedLeavers
  PROVE  Spec => []IInv
<1>1. Init => IInv
  BY InitInvariant
<1>2. IInv /\ [Next]_vars => IInv'
  BY NextInvariant
<1> QED BY <1>1, <1>2, PTL DEF Spec

(* The invariant gives the types. *)
LEMMA TypesHold ==
  ASSUME IInv
  PROVE  TypeOK
<1>1. queue \in Seq(Clients)
  <2>1. Known(ask) \subseteq Clients
    BY DEF Known
  <2> QED BY <2>1 DEF IInv, Global
<1>2. ASSUME NEW r \in Ranks
      PROVE  /\ at[r] \in Meets \cup {"loop", "sized", "shared", "request", "loaded", "solo",
                                      "budget", "passed", "timed"}
             /\ sharing[r] \in {None, "request", "gone"}
             /\ server[r].aside \in Seq(Clients) /\ Len(server[r].aside) <= 1
             /\ server[r].iterations \in Nat \ {0}
             /\ time[r].clock \in Nat /\ time[r].spent \in Nat
  <2>1. Sound(View(r), ask)
    BY ViewsSound DEF IInv
  <2>2. at[r] \in Places /\ sharing[r] \in {None, "request", "gone"}
    <3>1. View(r).at = at[r] /\ View(r).sharing = sharing[r]
      BY DEF View, ViewOf
    <3> QED BY <2>1, <3>1 DEF Sound
  <2>3. server[r].aside \in Seq(Known(ask)) /\ Len(server[r].aside) <= 1
        /\ server[r].iterations \in Nat \ {0}
    BY <2>1, SoundLocals
  <2>4. server[r].aside \in Seq(Clients)
    <3>1. Known(ask) \subseteq Clients
      BY DEF Known
    <3> QED BY <2>3, <3>1
  <2>5. time[r].clock \in Nat /\ time[r].spent \in Nat
    BY DEF IInv, Own, Clocked
  <2> QED BY <2>2, <2>3, <2>4, <2>5 DEF Places
<1> QED BY <1>1, <1>2 DEF IInv, Global, TypeOK

(* ... and the lockstep. *)
LEMMA LockstepOfInvariant ==
  ASSUME IInv
  PROVE  InLockstep
<1> SUFFICES ASSUME Waiting = Ranks, NEW r \in Ranks
             PROVE  /\ at[r] = at[0]
                    /\ at[r] \in {"size", "data"} => sharing[r] = sharing[0]
                    /\ at[r] = "pass" => offer[r] = offer[0] /\ server[r].solo = server[0].solo
                    /\ at[r] \in {"size", "data"} /\ r # 0 => offer[r] \in {0, None}
  BY TypesHold DEF InLockstep
<1>1. /\ at[r] = at[0] /\ sharing[r] = sharing[0]
      /\ Common(at[0], server[0].solo) => server[r].req = server[0].req
      /\ server[r].rows = server[0].rows /\ server[r].solo = server[0].solo
  BY TogetherLocals DEF IInv
<1>2. Offers(r) /\ Offers(0)
  BY ZeroRank DEF IInv, Own
<1>3. at[r] = "pass" => offer[r] = offer[0]
  BY <1>1, <1>2 DEF Offers, Common
<1>4. at[r] \in {"size", "data"} /\ r # 0 => offer[r] \in {0, None}
  BY <1>2 DEF Offers
<1> QED BY <1>1, <1>3, <1>4

(* When every rank waits for the others, they are at the same call, for the *)
(* same object and with the same rows, whatever the number of machines and   *)
(* however slow each is (server.py 1782-1812, 3187-3394).                    *)
THEOREM LockstepHolds ==
  ASSUME CacheBytes = 0, BatchedLeavers
  PROVE  Spec => []InLockstep
<1>1. IInv => InLockstep
  BY LockstepOfInvariant
<1> QED BY <1>1, InvariantHolds, PTL

----------------------------------------
(* The stages of the pipeline. *)

(* A set of naturals has a least one. *)
LEMMA LeastExists ==
  ASSUME NEW S \in SUBSET Nat, S # {}
  PROVE  \E m \in S : \A y \in S : m <= y
<1>1. PICK m \in S : \A y \in S : ~(<<y, m>> \in OpToRel(<, Nat))
  BY NatLessThanWellFounded, WFMin, Zenon
<1>2. ASSUME NEW y \in S PROVE m <= y
  <2>1. <<y, m>> \in Nat \X Nat /\ <<y, m>>[1] = y /\ <<y, m>>[2] = m
    OBVIOUS
  <2>2. ~(y < m)
    BY <1>1, <2>1, Zenon DEF OpToRel
  <2> QED BY <2>2
<1> QED BY <1>2

(* Python's round gives a natural. *)
LEMMA RoundedType ==
  ASSUME NEW a \in Nat, NEW b \in Nat \ {0}
  PROVE  Rounded(a, b) \in Nat
<1>1. a \div b \in Nat
  OBVIOUS
<1> QED BY <1>1 DEF Rounded

(* There is a closest one, the first of the closest. *)
LEMMA ClosestIn ==
  ASSUME NEW set \in SUBSET Nat, set # {}, NEW target \in Nat
  PROVE  Closest(set, target) \in set
<1> DEFINE D(i) == Distance(i, target)
<1>1. \A i \in set : D(i) \in Nat
  BY DEF Distance
<1> HIDE DEF D
<1> DEFINE Distances == {d \in Nat : \E i \in set : D(i) = d}
<1>2. PICK d \in Distances : \A e \in Distances : d <= e
  <2>1. Distances \in SUBSET Nat /\ Distances # {}
    BY <1>1
  <2> HIDE DEF Distances
  <2> QED BY <2>1, LeastExists
<1> DEFINE Nearest == {i \in set : D(i) = d}
<1>3. PICK m \in Nearest : \A j \in Nearest : m <= j
  <2>1. Nearest \in SUBSET Nat /\ Nearest # {}
    OBVIOUS
  <2> HIDE DEF Nearest
  <2> QED BY <2>1, LeastExists
<1>4. ASSUME NEW j \in set PROVE D(m) < D(j) \/ (D(m) = D(j) /\ m <= j)
  <2>1. D(m) = d /\ d \in Nat /\ D(j) \in Nat /\ d <= D(j)
    BY <1>1, <1>2
  <2>2. D(j) = d => m <= j
    BY <1>3
  <2> QED BY <2>1, <2>2
<1>5. \E i \in set : \A j \in set :
        \/ Distance(i, target) < Distance(j, target)
        \/ Distance(i, target) = Distance(j, target) /\ i <= j
  <2>1. m \in set
    OBVIOUS
  <2> QED BY <1>4, <2>1 DEF D
<1> QED BY <1>5, Zenon DEF Closest

(* The recursive function of the boundaries is defined. *)
LEMMA BoundariesExist ==
  ASSUME NEW indexers
  PROVE  \E b : b = [split \in 0 .. Size |->
                       Boundary(indexers, IF split = 0 THEN 0 ELSE b[split - 1], split)]
<1> DEFINE Follows(b, n) ==
             b = [split \in 0 .. n |->
                    Boundary(indexers, IF split = 0 THEN 0 ELSE b[split - 1], split)]
           Has == {n \in Nat : \E b : Follows(b, n)}
<1>1. 0 \in Has
  <2> DEFINE b == [split \in 0 .. 0 |-> Boundary(indexers, 0, split)]
  <2>1. Follows(b, 0)
    OBVIOUS
  <2> QED BY <2>1
<1>2. ASSUME NEW n \in Nat, n \in Has PROVE n + 1 \in Has
  <2>1. PICK b : Follows(b, n)
    BY <1>2
  <2> DEFINE longer == [split \in 0 .. n + 1 |->
                          IF split <= n THEN b[split] ELSE Boundary(indexers, b[n], n + 1)]
  <2>2. ASSUME NEW split \in 0 .. n + 1
        PROVE  longer[split] =
                 Boundary(indexers, IF split = 0 THEN 0 ELSE longer[split - 1], split)
    <3>1. CASE split = 0
      <4>1. longer[0] = b[0] /\ b[0] = Boundary(indexers, 0, 0)
        BY <2>1
      <4> HIDE DEF longer
      <4> QED BY <3>1, <4>1
    <3>2. CASE split \in 1 .. n
      <4>1. split \in 0 .. n /\ split - 1 \in 0 .. n /\ split # 0
        BY <3>2
      <4>2. longer[split] = b[split] /\ longer[split - 1] = b[split - 1]
        BY <4>1
      <4>3. b[split] = Boundary(indexers, b[split - 1], split)
        BY <2>1, <4>1
      <4> HIDE DEF longer
      <4> QED BY <4>1, <4>2, <4>3
    <3>3. CASE split = n + 1
      <4>1. longer[n + 1] = Boundary(indexers, b[n], n + 1) /\ longer[n] = b[n]
        OBVIOUS
      <4>2. split # 0 /\ split - 1 = n
        BY <3>3
      <4> HIDE DEF longer
      <4> QED BY <3>3, <4>1, <4>2
    <3>4. split = 0 \/ split \in 1 .. n \/ split = n + 1
      OBVIOUS
    <3> QED BY <3>1, <3>2, <3>3, <3>4
  <2>3. DOMAIN longer = 0 .. n + 1 /\ longer = [split \in 0 .. n + 1 |-> longer[split]]
    OBVIOUS
  <2> HIDE DEF longer
  <2>4. Follows(longer, n + 1)
    BY <2>2, <2>3
  <2> QED BY <2>4
<1>3. Size \in Has
  <2> HIDE DEF Has
  <2> QED BY <1>1, <1>2, SetInduction, SizeAssumption
<1> QED BY <1>3

(* Each boundary follows the one before. *)
LEMMA BoundariesFollow ==
  ASSUME NEW indexers, NEW b, b = Boundaries(indexers)
  PROVE  /\ b[0] = 0 /\ b[Size] = Len(indexers)
         /\ \A s \in 0 .. Size - 2 :
              b[s + 1] = Closest(Eligible(indexers, b[s], s + 1),
                                 Rounded((s + 1) * Len(indexers), Size))
<1> DEFINE boundary ==
             CHOOSE g : g = [split \in 0 .. Size |->
                               Boundary(indexers, IF split = 0 THEN 0 ELSE g[split - 1], split)]
<1>1. boundary = [split \in 0 .. Size |->
                    Boundary(indexers, IF split = 0 THEN 0 ELSE boundary[split - 1], split)]
  BY BoundariesExist
<1>2. b = boundary
  BY DEF Boundaries
<1> HIDE DEF boundary
<1>3. \A s \in 0 .. Size : b[s] = Boundary(indexers, IF s = 0 THEN 0 ELSE b[s - 1], s)
  BY <1>1, <1>2
<1>4. Size \in Nat /\ Size > 1 /\ 0 \in 0 .. Size /\ Size \in 0 .. Size
  BY SizeAssumption
<1>5. b[0] = 0 /\ b[Size] = Len(indexers)
  BY <1>3, <1>4 DEF Boundary
<1>6. ASSUME NEW s \in 0 .. Size - 2
      PROVE  b[s + 1] = Closest(Eligible(indexers, b[s], s + 1),
                                Rounded((s + 1) * Len(indexers), Size))
  <2>1. s + 1 \in 0 .. Size /\ s + 1 # 0 /\ s + 1 # Size /\ s + 1 - 1 = s
    BY <1>4
  <2> QED BY <1>3, <2>1 DEF Boundary
<1> QED BY <1>5, <1>6

(* Behind a boundary enough layers of their own indexer are left for the *)
(* stages to come.                                                       *)
Enough(T, last, s) ==
  /\ last \in Nat /\ last < Len(T) /\ T[last + 1] = "full"
  /\ Cardinality(Candidates(T, last)) >= Size - s - 1

(* The places a boundary may have are among the layers, and finitely many. *)
LEMMA CandidatesFinite ==
  ASSUME NEW T \in Seq({"full", "shared"}), NEW last
  PROVE  /\ Candidates(T, last) \subseteq 1 .. Len(T) - 1
         /\ IsFiniteSet(Candidates(T, last)) /\ Cardinality(Candidates(T, last)) \in Nat
<1>1. Len(T) \in Nat
  BY LenProperties
<1>2. IsFiniteSet(1 .. Len(T) - 1)
  BY <1>1, FS_Interval
<1>3. Candidates(T, last) \subseteq 1 .. Len(T) - 1
  BY DEF Candidates
<1> QED BY <1>2, <1>3, FS_Subset, FS_CardinalityType

(* At the start there are enough. *)
LEMMA EnoughAtStart ==
  ASSUME NEW T \in IndexerTypes
  PROVE  T \in Seq({"full", "shared"}) /\ Len(T) \in Nat \ {0} /\ Enough(T, 0, 0)
<1>1. /\ T \in Seq({"full", "shared"}) /\ T[1] = "full"
      /\ Cardinality({i \in DOMAIN T : T[i] = "full"}) >= Size
  BY LayersAssumption
<1> DEFINE full == {i \in DOMAIN T : T[i] = "full"}
           rest == full \ {1}
<1>2. DOMAIN T = 1 .. Len(T) /\ Len(T) \in Nat
  BY <1>1, LenProperties
<1>3. IsFiniteSet(full)
  <2>1. IsFiniteSet(1 .. Len(T))
    BY <1>2, FS_Interval
  <2> QED BY <1>2, <2>1, FS_Subset
<1>4. Len(T) # 0
  <2>1. SUFFICES ASSUME Len(T) = 0 PROVE FALSE
    OBVIOUS
  <2>2. full = {}
    BY <1>2, <2>1
  <2>3. Cardinality(full) = 0
    BY <2>2, FS_EmptySet
  <2> QED BY <1>1, <2>3, SizeAssumption
<1>5. 1 \in full
  BY <1>1, <1>2, <1>4
<1>6. IsFiniteSet(rest) /\ Cardinality(rest) = Cardinality(full) - 1
  BY <1>3, <1>5, FS_RemoveElement
<1> DEFINE f == [i \in rest |-> i - 1]
<1>7. f \in Injection(rest, Candidates(T, 0))
  <2>1. \A i \in rest : i \in 2 .. Len(T) /\ T[i] = "full"
    BY <1>2
  <2>2. \A i \in rest : i - 1 \in Candidates(T, 0)
    BY <1>2, <2>1 DEF Candidates
  <2>3. \A i, j \in rest : f[i] = f[j] => i = j
    BY <2>1
  <2> QED BY <2>2, <2>3 DEF Injection, IsInjective
<1>8. Cardinality(rest) <= Cardinality(Candidates(T, 0))
  BY <1>1, <1>7, CandidatesFinite, FS_Injection
<1>9. Cardinality(Candidates(T, 0)) >= Size - 0 - 1
  <2>1. Cardinality(full) \in Nat /\ Cardinality(Candidates(T, 0)) \in Nat
    BY <1>1, <1>3, CandidatesFinite, FS_CardinalityType
  <2> HIDE DEF full, rest
  <2>2. Cardinality(full) >= Size
    BY <1>1 DEF full
  <2> QED BY <1>6, <1>8, <2>1, <2>2, SizeAssumption
<1> QED BY <1>1, <1>2, <1>4, <1>9 DEF Enough

(* A stage that takes the closest leaves enough for the others. *)
LEMMA EnoughNext ==
  ASSUME NEW T \in IndexerTypes, NEW s \in 0 .. Size - 2, NEW last, Enough(T, last, s),
         NEW target \in Nat, NEW next, next = Closest(Eligible(T, last, s + 1), target)
  PROVE  last < next /\ Enough(T, next, s + 1)
<1>1. T \in Seq({"full", "shared"}) /\ Len(T) \in Nat
  BY EnoughAtStart
<1> DEFINE C == Candidates(T, last)
<1>2. C \in SUBSET Nat /\ IsFiniteSet(C) /\ Cardinality(C) \in Nat
  BY <1>1, CandidatesFinite
<1>3. C # {}
  <2>1. Cardinality(C) >= Size - s - 1
    BY DEF Enough
  <2>2. Cardinality(C) # 0
    BY <1>2, <2>1, SizeAssumption
  <2> QED BY <2>2, FS_EmptySet
<1>4. PICK m \in C : \A y \in C : m <= y
  <2> HIDE DEF C
  <2> QED BY <1>2, <1>3, LeastExists
<1>5. Candidates(T, m) = C \ {m}
  <2>1. m > last /\ last \in Nat /\ m \in Nat
    BY <1>2 DEF Candidates, Enough
  <2>2. \A i \in C \ {m} : i > m
    BY <1>2, <1>4
  <2>3. \A i \in Candidates(T, m) : i \in C \ {m}
    BY <1>1, <2>1 DEF Candidates
  <2>4. \A i \in C \ {m} : i \in Candidates(T, m)
    BY <2>2 DEF Candidates
  <2> QED BY <2>3, <2>4
<1>6. Cardinality(Candidates(T, m)) >= Size - (s + 1) - 1
  <2>1. Cardinality(C \ {m}) = Cardinality(C) - 1
    BY <1>2, <1>4, FS_RemoveElement
  <2>2. Cardinality(C) >= Size - s - 1
    BY DEF Enough
  <2> HIDE DEF C
  <2> QED BY <1>2, <1>5, <2>1, <2>2, SizeAssumption
<1>7. m \in Eligible(T, last, s + 1)
  BY <1>4, <1>6 DEF Eligible
<1>8. next \in Eligible(T, last, s + 1)
  <2>1. Eligible(T, last, s + 1) \in SUBSET Nat
    BY <1>2 DEF Eligible
  <2> QED BY <1>7, <2>1, ClosestIn
<1>9. next \in C /\ Cardinality(Candidates(T, next)) >= Size - (s + 1) - 1
  BY <1>8 DEF Eligible
<1>10. next \in 1 .. Len(T) - 1 /\ T[next + 1] = "full" /\ next > last
  BY <1>9 DEF Candidates
<1>11. next \in Nat /\ next < Len(T) /\ last < next
  BY <1>1, <1>10 DEF Enough
<1> QED BY <1>9, <1>10, <1>11 DEF Enough

(* Every stage begins with a layer that has its own indexer, behind the one before. *)
LEMMA BoundariesGrow ==
  ASSUME NEW T \in IndexerTypes, NEW b, b = Boundaries(T)
  PROVE  /\ b[0] = 0 /\ b[Size] = Len(T)
         /\ \A s \in 0 .. Size - 1 : b[s] \in Nat /\ T[b[s] + 1] = "full" /\ b[s] < b[s + 1]
<1>1. Len(T) \in Nat \ {0} /\ Enough(T, 0, 0)
  BY EnoughAtStart
<1>2. Size \in Nat /\ Size > 1
  BY SizeAssumption
<1> DEFINE Has == {n \in Nat : n < Size => Enough(T, b[n], n)}
<1>3. b[0] = 0 /\ b[Size] = Len(T)
  BY BoundariesFollow
<1>4. ASSUME NEW s \in 0 .. Size - 2, Enough(T, b[s], s)
      PROVE  b[s] < b[s + 1] /\ Enough(T, b[s + 1], s + 1)
  <2>1. b[s + 1] = Closest(Eligible(T, b[s], s + 1), Rounded((s + 1) * Len(T), Size))
    BY BoundariesFollow
  <2>2. (s + 1) * Len(T) \in Nat /\ Size \in Nat \ {0}
    BY <1>1, <1>2
  <2>3. Rounded((s + 1) * Len(T), Size) \in Nat
    BY <2>2, RoundedType
  <2> QED BY <1>4, <2>1, <2>3, EnoughNext
<1>5. Nat \subseteq Has
  <2>1. 0 \in Has
    BY <1>1, <1>3
  <2>2. ASSUME NEW n \in Nat, n \in Has PROVE n + 1 \in Has
    <3>1. n + 1 < Size => n \in 0 .. Size - 2 /\ n < Size
      BY <1>2
    <3> QED BY <1>4, <2>2, <3>1
  <2> HIDE DEF Has
  <2> QED BY <2>1, <2>2, SetInduction
<1>6. \A s \in 0 .. Size - 1 : Enough(T, b[s], s)
  BY <1>2, <1>5
<1>7. ASSUME NEW s \in 0 .. Size - 1 PROVE b[s] < b[s + 1]
  <2>1. CASE s = Size - 1
    <3>1. b[s + 1] = Len(T) /\ b[s] < Len(T)
      BY <1>2, <1>3, <1>6, <2>1 DEF Enough
    <3> QED BY <3>1
  <2>2. CASE s \in 0 .. Size - 2
    BY <1>4, <1>6, <2>2
  <2> QED BY <1>2, <2>1, <2>2
<1>8. \A s \in 0 .. Size - 1 : b[s] \in Nat /\ T[b[s] + 1] = "full"
  BY <1>6 DEF Enough
<1> QED BY <1>3, <1>7, <1>8

(* A later boundary is further on. *)
LEMMA BoundariesOrdered ==
  ASSUME NEW b, \A s \in 0 .. Size - 1 : b[s] \in Nat /\ b[s] < b[s + 1], b[Size] \in Nat
  PROVE  \A s \in 0 .. Size : \A t \in s .. Size : b[s] <= b[t]
<1>1. Size \in Nat
  BY SizeAssumption
<1>2. \A s \in 0 .. Size : b[s] \in Nat
  <2>1. \A s \in 0 .. Size : s \in 0 .. Size - 1 \/ s = Size
    BY <1>1
  <2> QED BY <2>1
<1> DEFINE Has == {n \in Nat : \A s \in 0 .. Size : s + n <= Size => b[s] <= b[s + n]}
<1>3. 0 \in Has
  BY <1>2
<1>4. ASSUME NEW n \in Nat, n \in Has PROVE n + 1 \in Has
  <2> SUFFICES ASSUME NEW s \in 0 .. Size, s + (n + 1) <= Size PROVE b[s] <= b[s + (n + 1)]
    OBVIOUS
  <2>1. s + n \in 0 .. Size - 1 /\ s + n + 1 = s + (n + 1) /\ s + (n + 1) \in 0 .. Size
    BY <1>1
  <2>2. b[s] <= b[s + n] /\ b[s + n] < b[s + n + 1]
    BY <1>1, <1>4, <2>1
  <2>3. b[s] \in Nat /\ b[s + n] \in Nat /\ b[s + (n + 1)] \in Nat
    BY <1>1, <1>2, <2>1
  <2> QED BY <2>1, <2>2, <2>3
<1>5. Nat \subseteq Has
  <2> HIDE DEF Has
  <2> QED BY <1>3, <1>4, SetInduction
<1>6. ASSUME NEW s \in 0 .. Size, NEW t \in s .. Size PROVE b[s] <= b[t]
  <2>1. t - s \in Nat /\ s + (t - s) = t /\ t <= Size
    BY <1>1
  <2>2. t - s \in Has
    BY <1>5, <2>1
  <2> QED BY <2>1, <2>2
<1> QED BY <1>6

(* The stages cover the model, each layer on one rank. *)
LEMMA StagesOfInvariant ==
  ASSUME IInv
  PROVE  StagesCover
<1> SUFFICES ASSUME \A r \in Ranks : server[r].model # None
             PROVE  /\ \A i \in 0 .. Len(types) - 1 :
                         Cardinality({r \in Ranks : /\ server[r].layers[1] <= i
                                                    /\ i < server[r].layers[2]}) = 1
                    /\ \A r \in Ranks : /\ server[r].layers[1] < server[r].layers[2]
                                        /\ types[server[r].layers[1] + 1] = "full"
  BY DEF StagesCover
<1>1. types \in IndexerTypes
  BY DEF IInv, Global
<1>2. PICK b : b = Boundaries(types)
  OBVIOUS
<1>3. Size \in Nat /\ Size > 1 /\ Len(types) \in Nat
  BY <1>1, SizeAssumption, EnoughAtStart
<1>4. /\ b[0] = 0 /\ b[Size] = Len(types)
      /\ \A s \in 0 .. Size - 1 : b[s] \in Nat /\ types[b[s] + 1] = "full" /\ b[s] < b[s + 1]
  BY <1>1, <1>2, BoundariesGrow
<1>5. \A s \in 0 .. Size : \A t \in s .. Size : b[s] <= b[t]
  BY <1>3, <1>4, BoundariesOrdered
<1>6. ASSUME NEW r \in Ranks
      PROVE  /\ Size - r - 1 \in 0 .. Size - 1 /\ Size - r - 1 + 1 = Size - r
             /\ server[r].layers[1] = b[Size - r - 1] /\ server[r].layers[2] = b[Size - r]
  <2>1. server[r].layers = Layers(r)
    BY DEF IInv, Own, Loaded
  <2>2. Size - r - 1 \in 0 .. Size - 1 /\ Size - r - 1 + 1 = Size - r
    BY <1>3 DEF Ranks
  <2>3. Layers(r) = <<b[Size - r - 1], b[Size - r - 1 + 1]>>
    BY <1>2 DEF Layers
  <2> QED BY <2>1, <2>2, <2>3
<1>7. ASSUME NEW r \in Ranks
      PROVE  server[r].layers[1] < server[r].layers[2] /\ types[server[r].layers[1] + 1] = "full"
  BY <1>4, <1>6
<1>8. ASSUME NEW i \in 0 .. Len(types) - 1
      PROVE  Cardinality({r \in Ranks : /\ server[r].layers[1] <= i
                                        /\ i < server[r].layers[2]}) = 1
  <2> DEFINE Beyond == {s \in Nat : s \in 1 .. Size /\ i < b[s]}
  <2>1. PICK s \in Beyond : \A t \in Beyond : s <= t
    <3>1. Size \in Beyond
      BY <1>3, <1>4
    <3> HIDE DEF Beyond
    <3>2. Beyond \in SUBSET Nat
      BY DEF Beyond
    <3> QED BY <3>1, <3>2, LeastExists
  <2>2. s \in 1 .. Size /\ i < b[s]
    OBVIOUS
  <2>3. b[s - 1] <= i
    <3>1. CASE s = 1
      BY <1>4, <3>1
    <3>2. CASE s # 1
      <4>1. s - 1 \in Nat /\ s - 1 \in 1 .. Size /\ s - 1 \in 0 .. Size - 1 /\ ~(s <= s - 1)
        BY <1>3, <2>2, <3>2
      <4>2. s - 1 \notin Beyond
        BY <2>1, <4>1
      <4>3. ~(i < b[s - 1]) /\ b[s - 1] \in Nat
        BY <1>4, <4>1, <4>2
      <4> QED BY <4>3
    <3> QED BY <3>1, <3>2
  <2> DEFINE q == Size - s
  <2>4. q \in Ranks /\ Size - q - 1 = s - 1 /\ Size - q = s
    BY <1>3, <2>2 DEF Ranks
  <2>5. server[q].layers[1] <= i /\ i < server[q].layers[2]
    BY <1>6, <2>2, <2>3, <2>4
  <2>6. ASSUME NEW r \in Ranks, server[r].layers[1] <= i, i < server[r].layers[2]
        PROVE  r = q
    <3> DEFINE t == Size - r
    <3>1. t \in 1 .. Size /\ b[t - 1] <= i /\ i < b[t]
      <4>1. t \in 1 .. Size /\ t - 1 = Size - r - 1
        BY <1>3 DEF Ranks
      <4>2. b[Size - r - 1] <= i /\ i < b[Size - r]
        BY <1>6, <2>6
      <4> QED BY <4>1, <4>2
    <3>2. ~(t < s)
      <4>1. SUFFICES ASSUME t < s PROVE FALSE
        OBVIOUS
      <4>2. s - 1 \in 0 .. Size /\ s - 1 \in t .. Size /\ t \in 0 .. Size
        BY <1>3, <2>2, <3>1, <4>1
      <4>3. b[t] <= b[s - 1] /\ b[t] \in Nat /\ b[s - 1] \in Nat
        <5>1. \A u \in 0 .. Size : b[u] \in Nat
          <6>1. \A u \in 0 .. Size : u \in 0 .. Size - 1 \/ u = Size
            BY <1>3
          <6> QED BY <1>3, <1>4, <6>1
        <5> HIDE DEF t
        <5> QED BY <1>5, <4>2, <5>1
      <4> QED BY <2>3, <3>1, <4>3
    <3>3. ~(s < t)
      <4>1. SUFFICES ASSUME s < t PROVE FALSE
        OBVIOUS
      <4>2. t - 1 \in 0 .. Size /\ t - 1 \in s .. Size /\ s \in 0 .. Size
        BY <1>3, <2>2, <3>1, <4>1
      <4>3. b[s] <= b[t - 1] /\ b[s] \in Nat /\ b[t - 1] \in Nat
        <5>1. \A u \in 0 .. Size : b[u] \in Nat
          <6>1. \A u \in 0 .. Size : u \in 0 .. Size - 1 \/ u = Size
            BY <1>3
          <6> QED BY <1>3, <1>4, <6>1
        <5> HIDE DEF t
        <5> QED BY <1>5, <4>2, <5>1
      <4> QED BY <2>2, <3>1, <4>3
    <3>4. t = s
      BY <1>3, <2>2, <3>1, <3>2, <3>3
    <3> QED BY <1>3, <3>4 DEF Ranks
  <2>7. {r \in Ranks : server[r].layers[1] <= i /\ i < server[r].layers[2]} = {q}
    <3> HIDE DEF q
    <3> QED BY <2>4, <2>5, <2>6
  <2> QED BY <2>7, FS_Singleton
<1> QED BY <1>7, <1>8

(* Whenever the ranks wait for each other they have decided alike. *)
LEMMA AgreementOfInvariant ==
  ASSUME IInv
  PROVE  ReplicasAgree
<1> SUFFICES ASSUME Waiting = Ranks, NEW r \in Ranks PROVE Replica(r) = Replica(0)
  BY StagesOfInvariant DEF ReplicasAgree
<1>1. /\ server[r].aside = server[0].aside /\ server[r].open = server[0].open
      /\ server[r].drain = server[0].drain /\ server[r].rows = server[0].rows
      /\ server[r].solo = server[0].solo /\ server[r].model = server[0].model
      /\ server[r].store = server[0].store /\ server[r].passes = server[0].passes
      /\ server[r].loops = server[0].loops /\ server[r].iterations = server[0].iterations
      /\ Common(at[0], server[0].solo) => server[r].req = server[0].req
  BY TogetherLocals DEF IInv
<1>2. DOMAIN server[r] = ServerFields /\ DOMAIN server[0] = ServerFields
  BY ZeroRank DEF IInv, Shaped
<1>3. \A q \in Ranks : DOMAIN server[q] = ServerFields =>
        /\ Replica(q) = [f \in ServerFields |-> Replica(q)[f]]
        /\ \A f \in ServerFields :
             Replica(q)[f] = IF f = "gone" THEN {}
                             ELSE IF f = "layers" THEN <<>>
                             ELSE IF f = "req"
                               THEN IF server[q].solo = None THEN None ELSE server[q].req
                             ELSE server[q][f]
  BY ZenonT(40) DEF Replica, ServerFields
<1>4. \A f \in ServerFields : Replica(r)[f] = Replica(0)[f]
  <2>1. server[r].solo # None => server[r].req = server[0].req
    BY <1>1 DEF Common
  <2>2. \A f \in ServerFields \ {"gone", "layers", "req"} : server[r][f] = server[0][f]
    BY <1>1 DEF ServerFields
  <2> QED BY <1>1, <1>2, <1>3, <2>1, <2>2, ZeroRank
<1> QED BY <1>2, <1>3, <1>4, ZeroRank

(* Whenever the ranks meet they have the same batch, request put aside, model, *)
(* prompt cache and budget of passes, and together they hold the model, each    *)
(* layer once (server.py 1197-1218, 3189-3394; glm_moe_dsa.py 1286-1324).       *)
THEOREM ReplicasHold ==
  ASSUME CacheBytes = 0, BatchedLeavers
  PROVE  Spec => []ReplicasAgree
<1>1. IInv => ReplicasAgree
  BY AgreementOfInvariant
<1> QED BY <1>1, InvariantHolds, PTL

=============================================================================
