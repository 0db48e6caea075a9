---------------------- MODULE SpeculativeDecoding_proofs ----------------------
(***************************************************************************)
(* Decoding one request at a time, for any tokens, prompts, methods, bounds  *)
(* and turns, whatever the models propose and sample and whenever the        *)
(* consumer stops: one inductive invariant, from which follow the logits     *)
(* processors' history, the caches in step and, step by step, that drafts    *)
(* and multi-token prediction yield what plain decoding yields.              *)
(***************************************************************************)
EXTENDS SpeculativeDecoding, TLAPS, SequenceTheorems, WellFoundedInduction, NaturalsInduction

----------------------------------------
(* The inductive invariant. *)

(* What the processors should have been given by now, and what the draft     *)
(* model should have read.                                                   *)
History == (IF Is("mtp") THEN prompt ELSE <<Last(prompt)>>) \o Values(out)
DrafterRead == (began.drafter \o began.new) \o Values(out)

(* What the cache of the layer should hold of a text up to the hidden state  *)
(* behind n tokens: what it had, the pairs of the prompt, and from f tokens   *)
(* on the pairs of what follows.                                             *)
Own == IF setup.fused THEN <<>> ELSE Pairs(began.new, Len(began.target) + 1)
From == IF setup.fused THEN Len(began.target) + 1 ELSE Len(Context)
Later(text, f, n) == [i \in 1..n - f + 1 |-> <<text[f + i], f + i - 1>>]
Layer(text, n) == (began.drafter \o Own) \o Later(text, From, n)

Pieces == IF Is("mtp") THEN Tokens \X Nat ELSE Tokens
Phases == {"idle", "prefill", "decode", "draft", "verify", "yield", "rewind", "catchup"}

Typed ==
  /\ setup \in Setups /\ turn \in 0..Turns
  /\ prompt \in Seq(Tokens) /\ rest \in Seq(Tokens)
  /\ target \in Seq(Tokens) /\ drafter \in Seq(Pieces)
  /\ prev \in Seq(Tokens) /\ draftY \in Seq(Tokens)
  /\ began \in [target : Seq(Tokens), drafter : Seq(Pieces), new : Seq(Tokens)]
  /\ stored \in [key : Seq(Tokens), target : Seq(Tokens), drafter : Seq(Pieces)]
  /\ current \in Seq(Tokens \cup Samples) /\ Len(current) <= 1
  /\ round \in [drafts : Seq(Tokens), tokens : Seq(Samples), num : Nat, n : Nat]
  /\ round.n <= round.num /\ round.num <= setup.num
  /\ hidden \in Nat /\ ready \in BOOLEAN
  /\ stats \in [drafted : Nat, accepted : Nat, fallback : BOOLEAN]
  /\ stats.accepted <= stats.drafted
  /\ out \in Seq(Samples) /\ Len(out) <= MaxTokens
  /\ suspended \in BOOLEAN /\ phase \in Phases

(* A turn has a prompt, and something of it to read; the place of a step      *)
(* belongs to its method; a generator is suspended behind a yield.            *)
Begun ==
  /\ turn = 0 => phase = "idle" /\ out = <<>>
  /\ turn > 0 => /\ prompt # <<>> /\ began.new # <<>>
                 /\ Last(began.new) = Last(prompt)
  /\ phase = "decode" => Is("plain")
  /\ phase \in {"verify", "rewind"} => Is("draft")
  /\ phase = "catchup" => Is("mtp")
  /\ phase \in {"draft", "yield"} => ~Is("plain")
  /\ suspended => out # <<>> /\ phase \notin {"idle", "prefill", "verify"}
  /\ suspended /\ Is("draft") => phase # "draft"

InPrefill ==
  phase = "prefill" =>
    /\ out = <<>> /\ rest # <<>> /\ target \o rest = Context /\ round = NoRound
    /\ Is("mtp") => /\ prev = prompt /\ stats = NoStats
                    /\ Len(began.target) <= Len(target)
                    /\ setup.fused => drafter = Layer(Context, Len(target))
                    /\ ~setup.fused =>
                         \E read \in Seq(Tokens) :
                           /\ read \o rest = began.new
                           /\ drafter = began.drafter \o Pairs(read, Len(began.target) + 1)
                           /\ Len(target) = Len(began.target) + Len(read)
    /\ ~Is("mtp") => prev = <<>>
    /\ Is("draft") => drafter \o rest = began.drafter \o began.new

InDecode ==
  phase = "decode" =>
    /\ target = Read /\ prev = History
    /\ Len(current) = 1 /\ current[1] \in Samples
    /\ current[1].given = target /\ current[1].seen = prev

(* A round begins: the target model has read all but the current token.       *)
AtDraft ==
  phase = "draft" =>
    /\ current \in Seq(Tokens) /\ Len(current) = 1 /\ target \o current = Read
    /\ Is("draft") => /\ prev \o draftY = History /\ drafter \o draftY = DrafterRead
                      /\ draftY # <<>> /\ Last(draftY) = current[1]
                      /\ Len(out) < MaxTokens

AtVerify ==
  phase = "verify" =>
    /\ current \in Seq(Tokens) /\ Len(current) = 1
    /\ target \o current = Read /\ prev \o current = History
    /\ Len(round.drafts) = round.num /\ round.num > 0 /\ round.n = 0
    /\ drafter = DrafterRead \o Front(round.drafts)
    /\ Len(out) < MaxTokens

(* Behind the verification: the caches hold what was read before the round    *)
(* (r, and h by the processors, s by the draft model) and the proposals, of   *)
(* which some were yielded, and at last the token of the target model.       *)
Correction == IF phase = "rewind" THEN <<round.tokens[round.n + 1].token>> ELSE <<>>
Yields == SubSeq(round.drafts, 1, round.n) \o Correction

RoundFrom(r, h, s) ==
  LET d == round.drafts IN
  /\ Len(d) = round.num /\ round.num > 0 /\ Len(round.tokens) = round.num + 1
  /\ \A i \in 1..round.n : round.tokens[i].token = d[i]
  /\ Read = r \o Yields /\ History = h \o Yields /\ DrafterRead = s \o Yields
  /\ \A i \in 1..round.num + 1 :
       /\ round.tokens[i].given = r \o SubSeq(d, 1, i - 1)
       /\ round.tokens[i].seen = h \o SubSeq(Values(round.tokens), 1, i - 1)
  /\ target = r \o d
  /\ prev = h \o SubSeq(Values(round.tokens), 1, round.num)
  /\ drafter = s \o Front(d)

InRound ==
  phase \in {"yield", "rewind"} /\ Is("draft") =>
    \E r, h, s \in Seq(Tokens) : RoundFrom(r, h, s)

(* The tokens the target model agreed with and its own, still to be yielded. *)
InLayerRound ==
  phase = "yield" /\ Is("mtp") =>
    LET t == round.tokens IN
    /\ Len(t) \in 1..round.n + 1 /\ (suspended => Len(t) <= round.n)
    /\ target = Read \o Front(Values(t))
    /\ \A i \in DOMAIN t : /\ t[i].given = Read \o SubSeq(Values(t), 1, i - 1)
                           /\ t[i].seen = History \o SubSeq(Values(t), 1, i - 1)
    /\ stats.accepted + Len(t) - 1 <= stats.drafted

(* The layer's history is the prompt and what was yielded. *)
LayerHistory ==
  Is("mtp") /\ phase \in {"draft", "yield", "catchup"} => prev = History /\ out # <<>>

AtCatchUp ==
  phase = "catchup" =>
    /\ current \in Seq(Tokens) /\ Len(current) = 1 /\ target \o current = Read

(* The cache of the layer, at each place of mtp_speculative_generate_step.    *)
LayerInStep ==
  Is("mtp") =>
    /\ phase = "draft" =>
         /\ hidden = Len(target)
         /\ ready => setup.fused
         /\ LET pairs == Layer(Read, Len(target) - (IF ready THEN 0 ELSE 1))
            IN  IF stats.fallback \/ Len(out) = MaxTokens THEN IsPrefix(drafter, pairs)
                ELSE drafter = pairs
    /\ phase \in {"yield", "catchup"} =>
         /\ ~ready /\ ~stats.fallback /\ round.num > 0
         /\ Len(round.drafts) = round.num
    /\ phase = "yield" =>
         /\ hidden + round.n + 1 = Len(Read) + Len(round.tokens)
         /\ hidden > Len(Context)
         /\ drafter = Layer(Read \o Values(round.tokens),
                            hidden + Min({round.n, round.num - 1}) - 1)
         /\ round.n = round.num => Last(round.drafts) =
              (Read \o Values(round.tokens))[hidden + round.n]
    /\ phase = "catchup" =>
         /\ hidden = Len(target) /\ hidden > Len(Context)
         /\ drafter = Layer(Read, hidden - (IF round.n = round.num THEN 2 ELSE 1))
         /\ round.n = round.num => Last(round.drafts) = Read[hidden]

IInv ==
  /\ Typed /\ Begun /\ InPrefill /\ InDecode /\ AtDraft /\ AtVerify /\ InRound
  /\ InLayerRound /\ LayerHistory /\ AtCatchUp /\ LayerInStep
  /\ HistoryWhole /\ StoredNearby

----------------------------------------
(* Sequences. *)

(* What a sequence holds when one is put behind another. *)
LEMMA ConcatType ==
  ASSUME NEW T, NEW left \in Seq(T), NEW right \in Seq(T)
  PROVE  /\ left \o right \in Seq(T) /\ Len(left \o right) = Len(left) + Len(right)
         /\ Len(left) \in Nat /\ Len(right) \in Nat
         /\ \A i \in 1..Len(left) : (left \o right)[i] = left[i]
         /\ \A i \in 1..Len(right) : (left \o right)[Len(left) + i] = right[i]
<1>1. /\ left \o right \in Seq(T) /\ Len(left \o right) = Len(left) + Len(right)
      /\ Len(left) \in Nat /\ Len(right) \in Nat
      /\ \A i \in 1..Len(left) + Len(right) :
           (left \o right)[i] = IF i <= Len(left) THEN left[i] ELSE right[i - Len(left)]
  BY ConcatProperties, LenProperties
<1>2. \A i \in 1..Len(left) : (left \o right)[i] = left[i]
  BY <1>1
<1>3. ASSUME NEW i \in 1..Len(right) PROVE (left \o right)[Len(left) + i] = right[i]
  <2>1. /\ Len(left) + i \in 1..Len(left) + Len(right)
        /\ ~(Len(left) + i <= Len(left)) /\ Len(left) + i - Len(left) = i
    BY <1>1
  <2> QED BY <1>1, <2>1
<1> QED BY <1>1, <1>2, <1>3

(* What the first part of a sequence holds. *)
LEMMA FirstPart ==
  ASSUME NEW T, NEW s \in Seq(T), NEW n \in 0..Len(s)
  PROVE  /\ SubSeq(s, 1, n) \in Seq(T) /\ Len(SubSeq(s, 1, n)) = n
         /\ \A i \in 1..n : SubSeq(s, 1, n)[i] = s[i]
<1>1. Len(s) \in Nat /\ \A i \in 1..n : s[i] \in T
  BY LenProperties, ElementOfSeq
<1>2. /\ SubSeq(s, 1, n) \in Seq(T)
      /\ Len(SubSeq(s, 1, n)) = IF 1 <= n THEN n - 1 + 1 ELSE 0
      /\ \A i \in 1..n - 1 + 1 : SubSeq(s, 1, n)[i] = s[1 + i - 1]
  BY <1>1, SubSeqProperties
<1> QED BY <1>1, <1>2

(* The first part of a sequence put behind another, and the sequence cut *)
(* back to it.                                                           *)
LEMMA FirstOfConcat ==
  ASSUME NEW T, NEW left \in Seq(T), NEW right \in Seq(T), NEW n \in 0..Len(right)
  PROVE  /\ SubSeq(left \o right, 1, Len(left) + n) = left \o SubSeq(right, 1, n)
         /\ DropLast(left \o right, Len(right) - n) = left \o SubSeq(right, 1, n)
<1>1. /\ left \o right \in Seq(T) /\ Len(left \o right) = Len(left) + Len(right)
      /\ Len(left) \in Nat /\ Len(right) \in Nat
      /\ \A i \in 1..Len(left) : (left \o right)[i] = left[i]
      /\ \A i \in 1..Len(right) : (left \o right)[Len(left) + i] = right[i]
  BY ConcatType
<1>2. /\ SubSeq(right, 1, n) \in Seq(T) /\ Len(SubSeq(right, 1, n)) = n
      /\ \A i \in 1..n : SubSeq(right, 1, n)[i] = right[i]
  BY FirstPart
<1>3. PICK f : f = SubSeq(right, 1, n)
  OBVIOUS
<1>4. /\ left \o f \in Seq(T) /\ Len(left \o f) = Len(left) + n
      /\ \A i \in 1..Len(left) : (left \o f)[i] = left[i]
      /\ \A i \in 1..n : (left \o f)[Len(left) + i] = f[i]
  BY <1>2, <1>3, ConcatType
<1>5. PICK g : g = left \o right
  OBVIOUS
<1>6. /\ Len(left) + n \in 0..Len(g) /\ g \in Seq(T)
  BY <1>1, <1>5
<1>7. /\ SubSeq(g, 1, Len(left) + n) \in Seq(T) /\ Len(SubSeq(g, 1, Len(left) + n)) = Len(left) + n
      /\ \A i \in 1..Len(left) + n : SubSeq(g, 1, Len(left) + n)[i] = g[i]
  BY <1>6, FirstPart
<1>8. ASSUME NEW i \in 1..Len(left) + n PROVE g[i] = (left \o f)[i]
  <2>1. CASE i <= Len(left)
    <3>1. i \in 1..Len(left)
      BY <1>1, <2>1
    <3> QED BY <1>1, <1>4, <1>5, <3>1
  <2>2. CASE i > Len(left)
    <3>1. PICK j \in 1..n : i = Len(left) + j
      <4>1. i - Len(left) \in 1..n /\ i = Len(left) + (i - Len(left))
        BY <1>1, <2>2
      <4> QED BY <4>1
    <3>2. j \in 1..Len(right)
      BY <1>1
    <3>3. (left \o right)[i] = right[j]
      BY <1>1, <3>1, <3>2
    <3>4. (left \o f)[i] = f[j]
      BY <1>4, <3>1
    <3>5. f[j] = right[j]
      BY <1>2, <1>3
    <3> QED BY <1>5, <3>3, <3>4, <3>5
  <2>3. i <= Len(left) \/ i > Len(left)
    BY LenProperties
  <2> QED BY <2>1, <2>2, <2>3, Zenon
<1>9. SubSeq(g, 1, Len(left) + n) = left \o f
  BY <1>4, <1>7, <1>8, SeqEqual
<1>10. Len(left \o right) - (Len(right) - n) = Len(left) + n
  BY <1>1
<1> QED BY <1>3, <1>5, <1>9, <1>10 DEF DropLast

(* The whole of a sequence, none of it, and nothing put to it. *)
LEMMA WholeSeq ==
  ASSUME NEW T, NEW s \in Seq(T)
  PROVE  /\ SubSeq(s, 1, Len(s)) = s /\ SubSeq(s, 1, 0) = <<>> /\ DropLast(s, 0) = s
         /\ s \o <<>> = s /\ <<>> \o s = s
<1>1. Len(s) \in Nat
  BY LenProperties
<1>2. SubSeq(s, 1, Len(s)) = s
  BY SubSeqFull
<1>3. SubSeq(s, 1, 0) = <<>>
  BY SubSeqEmpty
<1>4. s \o <<>> = s /\ <<>> \o s = s
  BY ConcatEmptySeq
<1> QED BY <1>1, <1>2, <1>3, <1>4 DEF DropLast

(* What was put behind a sequence is cut off again. *)
LEMMA StartOfConcat ==
  ASSUME NEW T, NEW left \in Seq(T), NEW right \in Seq(T)
  PROVE  DropLast(left \o right, Len(right)) = left
<1>1. Len(right) \in Nat
  BY LenProperties
<1>2. DropLast(left \o right, Len(right) - 0) = left \o SubSeq(right, 1, 0)
  BY <1>1, FirstOfConcat
<1>3. SubSeq(right, 1, 0) = <<>> /\ left \o <<>> = left
  BY WholeSeq
<1> QED BY <1>1, <1>2, <1>3

(* The first part, one longer. *)
LEMMA OneMore ==
  ASSUME NEW T, NEW d \in Seq(T), NEW n \in 0..Len(d) - 1
  PROVE  /\ SubSeq(d, 1, n + 1) = SubSeq(d, 1, n) \o <<d[n + 1]>>
         /\ d[n + 1] \in T /\ <<d[n + 1]>> \in Seq(T)
<1>1. Len(d) \in Nat
  BY LenProperties
<1>2. n + 1 \in 1..Len(d) /\ 1 \in 1..Len(d) /\ n + 1 \in 1..Len(d) /\ n + 1 - 1 = n
  BY <1>1
<1>3. SubSeq(d, 1, n + 1) = SubSeq(d, 1, n + 1 - 1) \o <<d[n + 1]>>
  BY <1>2, SubSeqRecursiveSecond
<1>4. d[n + 1] \in T
  BY <1>2, ElementOfSeq
<1> QED BY <1>2, <1>3, <1>4

(* A sequence is its front and its last element. *)
LEMMA FrontLast ==
  ASSUME NEW T, NEW s \in Seq(T), s # <<>>
  PROVE  /\ Front(s) \in Seq(T) /\ Last(s) \in T /\ s = Front(s) \o <<Last(s)>>
         /\ Len(s) \in Nat \ {0} /\ Len(Front(s)) = Len(s) - 1
         /\ <<Last(s)>> \in Seq(T)
<1>1. Len(s) \in Nat \ {0}
  BY EmptySeq
<1>2. Len(s) - 1 \in 0..Len(s) - 1 /\ Len(s) - 1 \in 0..Len(s) /\ Len(s) - 1 + 1 = Len(s)
  BY <1>1
<1>3. SubSeq(s, 1, Len(s)) = SubSeq(s, 1, Len(s) - 1) \o <<s[Len(s)]>> /\ s[Len(s)] \in T
  BY <1>2, OneMore
<1>4. SubSeq(s, 1, Len(s) - 1) \in Seq(T) /\ Len(SubSeq(s, 1, Len(s) - 1)) = Len(s) - 1
  BY <1>2, FirstPart
<1> QED BY <1>1, <1>3, <1>4, SubSeqFull DEF Front, Last

(* What one more element at the end changes. *)
LEMMA FrontOfAppend ==
  ASSUME NEW T, NEW s \in Seq(T), NEW x \in T
  PROVE  /\ Front(s \o <<x>>) = s /\ Last(s \o <<x>>) = x
         /\ s \o <<x>> \in Seq(T) /\ Len(s \o <<x>>) = Len(s) + 1
         /\ Append(s, x) = s \o <<x>> /\ s \o <<x>> # <<>>
<1>1. <<x>> \in Seq(T) /\ Len(<<x>>) = 1 /\ <<x>>[1] = x
  OBVIOUS
<1>2. /\ s \o <<x>> \in Seq(T) /\ Len(s \o <<x>>) = Len(s) + 1 /\ Len(s) \in Nat
      /\ (s \o <<x>>)[Len(s) + 1] = x
  BY <1>1, ConcatType
<1>3. DropLast(s \o <<x>>, 1) = s
  BY <1>1, StartOfConcat
<1>4. Front(s \o <<x>>) = s
  BY <1>3 DEF DropLast, Front
<1>5. s \o <<x>> # <<>>
  BY <1>2, EmptySeq
<1> QED BY <1>2, <1>4, <1>5, AppendIsConcat DEF Last

(* The tokens of the samples: one each, in their order. *)
LEMMA ValuesProperties ==
  ASSUME NEW s \in Seq(Samples)
  PROVE  /\ Values(s) \in Seq(Tokens) /\ Len(Values(s)) = Len(s)
         /\ \A i \in 1..Len(s) : Values(s)[i] = s[i].token
         /\ \A x \in Samples : /\ Append(s, x) \in Seq(Samples)
                               /\ Values(Append(s, x)) = Values(s) \o <<x.token>>
                               /\ Append(Values(s), x.token) = Values(s) \o <<x.token>>
         /\ \A n \in 0..Len(s) : Values(SubSeq(s, 1, n)) = SubSeq(Values(s), 1, n)
<1>1. ASSUME NEW t \in Seq(Samples)
      PROVE  /\ Values(t) \in Seq(Tokens) /\ Len(Values(t)) = Len(t)
             /\ \A i \in 1..Len(t) : Values(t)[i] = t[i].token
  <2>1. Len(t) \in Nat /\ DOMAIN t = 1..Len(t) /\ \A i \in 1..Len(t) : t[i] \in Samples
    BY LenProperties, ElementOfSeq
  <2>2. \A i \in 1..Len(t) : t[i].token \in Tokens
    BY <2>1 DEF Samples
  <2> QED BY <2>1, <2>2 DEF Values
<1>2. ASSUME NEW x \in Samples
      PROVE  /\ Append(s, x) \in Seq(Samples)
             /\ Values(Append(s, x)) = Values(s) \o <<x.token>>
             /\ Append(Values(s), x.token) = Values(s) \o <<x.token>>
  <2>1. x.token \in Tokens
    BY DEF Samples
  <2>2. PICK u : u = Append(s, x)
    OBVIOUS
  <2>3. /\ u \in Seq(Samples) /\ Len(u) = Len(s) + 1 /\ u[Len(s) + 1] = x
        /\ \A i \in 1..Len(s) : u[i] = s[i]
    BY <2>2, AppendProperties
  <2>4. /\ Append(Values(s), x.token) = Values(s) \o <<x.token>>
        /\ Values(s) \o <<x.token>> \in Seq(Tokens)
        /\ Len(Values(s) \o <<x.token>>) = Len(s) + 1
    BY <1>1, <2>1, FrontOfAppend
  <2>5. /\ \A i \in 1..Len(s) : Append(Values(s), x.token)[i] = Values(s)[i]
        /\ Append(Values(s), x.token)[Len(s) + 1] = x.token
    BY <1>1, <2>1, AppendProperties
  <2>6. /\ Values(u) \in Seq(Tokens) /\ Len(Values(u)) = Len(s) + 1
        /\ \A i \in 1..Len(s) + 1 : Values(u)[i] = u[i].token
    BY <1>1, <2>3
  <2>7. \A i \in 1..Len(s) + 1 : Values(u)[i] = (Values(s) \o <<x.token>>)[i]
    <3> TAKE i \in 1..Len(s) + 1
    <3>1. Len(s) \in Nat
      BY LenProperties
    <3>2. CASE i \in 1..Len(s)
      <4>1. Values(u)[i] = s[i].token
        BY <2>3, <2>6, <3>2
      <4>2. Append(Values(s), x.token)[i] = s[i].token
        BY <1>1, <2>5, <3>2
      <4> QED BY <2>4, <4>1, <4>2
    <3>3. CASE i = Len(s) + 1
      BY <2>3, <2>4, <2>5, <2>6, <3>3
    <3>4. i \in 1..Len(s) \/ i = Len(s) + 1
      BY <3>1
    <3> QED BY <3>2, <3>3, <3>4, Zenon
  <2>8. Values(u) = Values(s) \o <<x.token>>
    BY <2>4, <2>6, <2>7, SeqEqual
  <2> QED BY <2>2, <2>3, <2>4, <2>8
<1>3. ASSUME NEW n \in 0..Len(s) PROVE Values(SubSeq(s, 1, n)) = SubSeq(Values(s), 1, n)
  <2>1. PICK u : u = SubSeq(s, 1, n)
    OBVIOUS
  <2>2. u \in Seq(Samples) /\ Len(u) = n /\ \A i \in 1..n : u[i] = s[i]
    BY <2>1, FirstPart
  <2>3. PICK v : v = Values(s)
    OBVIOUS
  <2>4. v \in Seq(Tokens) /\ n \in 0..Len(v)
    BY <1>1, <2>3
  <2>5. SubSeq(v, 1, n) \in Seq(Tokens) /\ Len(SubSeq(v, 1, n)) = n
        /\ \A i \in 1..n : SubSeq(v, 1, n)[i] = v[i]
    BY <2>4, FirstPart
  <2>6. /\ Values(u) \in Seq(Tokens) /\ Len(Values(u)) = n
        /\ \A i \in 1..n : Values(u)[i] = u[i].token
    BY <1>1, <2>2
  <2>7. \A i \in 1..n : i \in 1..Len(s)
    BY LenProperties
  <2>8. \A i \in 1..n : Values(u)[i] = SubSeq(v, 1, n)[i]
    BY <1>1, <2>2, <2>3, <2>5, <2>6, <2>7
  <2> QED BY <2>1, <2>3, <2>5, <2>6, <2>8, SeqEqual
<1> QED BY <1>1, <1>2, <1>3

----------------------------------------
(* The texts, and what a yield makes of them. *)

(* What has been read and shown by now. *)
LEMMA Texts ==
  ASSUME Typed
  PROVE  /\ Values(out) \in Seq(Tokens) /\ Len(Values(out)) = Len(out)
         /\ Context \in Seq(Tokens) /\ Read \in Seq(Tokens)
         /\ turn > 0 /\ Begun => History \in Seq(Tokens)
         /\ ~Is("mtp") => /\ DrafterRead \in Seq(Tokens)
                          /\ drafter \in Seq(Tokens) /\ began.drafter \in Seq(Tokens)
         /\ setup.num \in Nat \ {0} /\ setup.method \in {"plain", "draft", "mtp"}
         /\ setup.fused \in BOOLEAN /\ MaxTokens \in Nat \ {0} /\ PrefillStep \in Nat \ {0}
<1>1. out \in Seq(Samples) /\ began.target \in Seq(Tokens) /\ began.new \in Seq(Tokens)
      /\ began.drafter \in Seq(Pieces) /\ prompt \in Seq(Tokens)
  BY DEF Typed
<1>2. Values(out) \in Seq(Tokens) /\ Len(Values(out)) = Len(out)
  BY <1>1, ValuesProperties
<1>3. Context \in Seq(Tokens)
  BY <1>1, ConcatType DEF Context
<1>4. Read \in Seq(Tokens)
  BY <1>2, <1>3, ConcatType DEF Read
<1>5. turn > 0 /\ Begun => History \in Seq(Tokens)
  <2> SUFFICES ASSUME turn > 0, Begun PROVE History \in Seq(Tokens)
    OBVIOUS
  <2>1. prompt # <<>>
    BY DEF Begun
  <2>2. <<Last(prompt)>> \in Seq(Tokens)
    BY <1>1, <2>1, FrontLast
  <2>3. (IF Is("mtp") THEN prompt ELSE <<Last(prompt)>>) \in Seq(Tokens)
    BY <1>1, <2>2
  <2> QED BY <1>2, <2>3, ConcatType DEF History
<1>6. ASSUME ~Is("mtp")
      PROVE  /\ DrafterRead \in Seq(Tokens)
             /\ drafter \in Seq(Tokens) /\ began.drafter \in Seq(Tokens)
  <2>1. Pieces = Tokens
    BY <1>6 DEF Pieces
  <2>2. began.drafter \o began.new \in Seq(Tokens)
    BY <1>1, <2>1, ConcatType
  <2> QED BY <1>1, <1>2, <2>1, <2>2, ConcatType DEF DrafterRead, Typed
<1>7. setup \in Setups
  BY DEF Typed
<1> QED BY <1>2, <1>3, <1>4, <1>5, <1>6, <1>7, DecodingAssumption

(* A step that yields nothing. *)
LEMMA SameTexts ==
  ASSUME UNCHANGED <<setup, prompt, began, out>>
  PROVE  /\ Read' = Read /\ History' = History /\ DrafterRead' = DrafterRead
         /\ Context' = Context /\ Values(out)' = Values(out) /\ Pieces' = Pieces
         /\ From' = From /\ Own' = Own
         /\ \A m : Is(m)' = Is(m)
         /\ HistoryWhole => HistoryWhole'
<1>1. \A m : Is(m)' = Is(m)
  BY DEF Is
<1>2. Values(out)' = Values(out) /\ Context' = Context
  BY DEF Values, Context
<1>3. Read' = Read /\ DrafterRead' = DrafterRead
  BY <1>2 DEF Read, DrafterRead
<1>4. History' = History /\ Pieces' = Pieces
  BY <1>1, <1>2 DEF History, Pieces
<1>5. From' = From /\ Own' = Own
  BY <1>2 DEF From, Own, Pairs
<1>6. HistoryWhole => HistoryWhole'
  <2>1. Is("mtp")' = Is("mtp")
    BY <1>1
  <2> QED BY <1>2, <2>1 DEF HistoryWhole
<1> QED BY <1>1, <1>2, <1>3, <1>4, <1>5, <1>6

(* A token that was sampled behind all that was read, with all that was      *)
(* yielded, is yielded.                                                      *)
RightYield(x) ==
  /\ Yielded(x) /\ x \in Samples /\ x.given = Read /\ x.seen = History
  /\ Len(out) < MaxTokens

(* What the target model should have read and the processors been given, *)
(* behind a right yield.                                                 *)
LEMMA YieldTexts ==
  ASSUME Typed, Begun, turn > 0, HistoryWhole, UNCHANGED <<setup, prompt, began>>,
         NEW x, RightYield(x)
  PROVE  /\ out' \in Seq(Samples) /\ Len(out') = Len(out) + 1 /\ Len(out') <= MaxTokens
         /\ out' # <<>> /\ suspended' = TRUE /\ x.token \in Tokens
         /\ Read' = Read \o <<x.token>> /\ Read' \in Seq(Tokens)
         /\ History' = History \o <<x.token>> /\ History' \in Seq(Tokens)
         /\ ~Is("mtp") => /\ DrafterRead' = DrafterRead \o <<x.token>>
                          /\ DrafterRead' \in Seq(Tokens)
         /\ Context' = Context /\ Pieces' = Pieces /\ From' = From /\ Own' = Own
         /\ \A m : Is(m)' = Is(m)
         /\ HistoryWhole'
<1>1. /\ x \in Samples /\ x.token \in Tokens /\ out' = Append(out, x) /\ suspended' = TRUE
      /\ x.seen = History /\ out \in Seq(Samples) /\ Len(out) \in Nat /\ <<x.token>> \in Seq(Tokens)
      /\ Len(out) < MaxTokens
  BY DEF RightYield, Yielded, Samples, Typed
<1>2. /\ Values(out) \in Seq(Tokens) /\ Len(Values(out)) = Len(out)
      /\ Context \in Seq(Tokens) /\ Read \in Seq(Tokens) /\ History \in Seq(Tokens)
      /\ ~Is("mtp") => DrafterRead \in Seq(Tokens) /\ began.drafter \in Seq(Tokens)
      /\ MaxTokens \in Nat
  BY Texts
<1>3. /\ out' \in Seq(Samples) /\ Len(out') = Len(out) + 1 /\ out' # <<>>
      /\ \A i \in 1..Len(out) : out'[i] = out[i]
      /\ out'[Len(out) + 1] = x
  BY <1>1, AppendProperties
<1>4. Values(out)' = Values(out) \o <<x.token>>
  <2>1. Values(Append(out, x)) = Values(out) \o <<x.token>>
    BY <1>1, ValuesProperties
  <2>2. Values(out)' = Values(Append(out, x))
    BY <1>1 DEF Values
  <2> QED BY <2>1, <2>2
<1>5. \A m : Is(m)' = Is(m)
  BY DEF Is
<1>6. Context' = Context
  BY DEF Context
<1>7. Pieces' = Pieces /\ From' = From /\ Own' = Own
  BY <1>5, <1>6 DEF Pieces, From, Own, Pairs
<1>8. Read' = Read \o <<x.token>> /\ Read' \in Seq(Tokens)
  <2>1. Read' = Context \o (Values(out) \o <<x.token>>)
    BY <1>4, <1>6 DEF Read
  <2>2. Context \o (Values(out) \o <<x.token>>) = (Context \o Values(out)) \o <<x.token>>
    BY <1>1, <1>2, ConcatAssociative
  <2>3. Read \o <<x.token>> \in Seq(Tokens)
    BY <1>1, <1>2, ConcatType
  <2> QED BY <2>1, <2>2, <2>3 DEF Read
<1>9. History' = History \o <<x.token>> /\ History' \in Seq(Tokens)
  <2> DEFINE before == IF Is("mtp") THEN prompt ELSE <<Last(prompt)>>
  <2>1. before \in Seq(Tokens)
    BY FrontLast DEF Typed, Begun
  <2>2. before' = before
    BY <1>5
  <2>3. History = before \o Values(out) /\ History' = before' \o Values(out)'
    BY DEF History
  <2> HIDE DEF before
  <2>4. before \o (Values(out) \o <<x.token>>) = (before \o Values(out)) \o <<x.token>>
    BY <1>1, <1>2, <2>1, ConcatAssociative
  <2>5. History \o <<x.token>> \in Seq(Tokens)
    BY <1>1, <1>2, ConcatType
  <2> QED BY <1>4, <2>2, <2>3, <2>4, <2>5
<1>10. ASSUME ~Is("mtp")
       PROVE  DrafterRead' = DrafterRead \o <<x.token>> /\ DrafterRead' \in Seq(Tokens)
  <2> DEFINE before == began.drafter \o began.new
  <2>1. before \in Seq(Tokens) /\ before' = before
    BY <1>2, <1>10, ConcatType DEF Typed
  <2>2. DrafterRead = before \o Values(out) /\ DrafterRead' = before' \o Values(out)'
    BY DEF DrafterRead
  <2> HIDE DEF before
  <2>3. before \o (Values(out) \o <<x.token>>) = (before \o Values(out)) \o <<x.token>>
    BY <1>1, <1>2, <2>1, ConcatAssociative
  <2>4. DrafterRead \o <<x.token>> \in Seq(Tokens)
    BY <1>1, <1>2, <1>10, ConcatType
  <2> QED BY <1>4, <2>1, <2>2, <2>3, <2>4
<1>11. HistoryWhole'
  <2> DEFINE before == IF Is("mtp") THEN prompt ELSE <<Last(prompt)>>
  <2>1. before' = before
    BY <1>5
  <2>2. DOMAIN out' = 1..Len(out) + 1 /\ DOMAIN out = 1..Len(out)
    BY <1>1, <1>3, LenProperties
  <2>3. History = before \o Values(out)
    BY DEF History
  <2>4. \A i \in DOMAIN out : out[i].seen = before \o SubSeq(Values(out), 1, i - 1)
    BY DEF HistoryWhole
  <2>5. HistoryWhole' <=>
          \A i \in DOMAIN out' : out'[i].seen = before' \o SubSeq(Values(out)', 1, i - 1)
    BY DEF HistoryWhole
  <2> HIDE DEF before
  <2>6. ASSUME NEW i \in 1..Len(out) + 1
        PROVE  out'[i].seen = before \o SubSeq(Values(out)', 1, i - 1)
    <3>1. SubSeq(Values(out)', 1, i - 1) = SubSeq(Values(out), 1, i - 1)
      <4>1. PICK v : v = Values(out)
        OBVIOUS
      <4>2. PICK w : w = v \o <<x.token>>
        OBVIOUS
      <4>3. /\ w \in Seq(Tokens) /\ Len(w) = Len(out) + 1 /\ v \in Seq(Tokens) /\ Len(v) = Len(out)
            /\ \A k \in 1..Len(v) : w[k] = v[k]
        BY <1>1, <1>2, <4>1, <4>2, ConcatType
      <4>4. i - 1 \in 0..Len(v) /\ i - 1 \in 0..Len(w)
        BY <1>1, <4>3
      <4>5. /\ SubSeq(v, 1, i - 1) \in Seq(Tokens) /\ Len(SubSeq(v, 1, i - 1)) = i - 1
            /\ \A k \in 1..i - 1 : SubSeq(v, 1, i - 1)[k] = v[k]
        BY <4>3, <4>4, FirstPart
      <4>6. /\ SubSeq(w, 1, i - 1) \in Seq(Tokens) /\ Len(SubSeq(w, 1, i - 1)) = i - 1
            /\ \A k \in 1..i - 1 : SubSeq(w, 1, i - 1)[k] = w[k]
        BY <4>3, <4>4, FirstPart
      <4>7. \A k \in 1..i - 1 : SubSeq(w, 1, i - 1)[k] = SubSeq(v, 1, i - 1)[k]
        BY <4>3, <4>4, <4>5, <4>6
      <4>8. SubSeq(w, 1, i - 1) = SubSeq(v, 1, i - 1)
        BY <4>5, <4>6, <4>7, SeqEqual
      <4> QED BY <1>4, <4>1, <4>2, <4>8
    <3>2. CASE i \in 1..Len(out)
      <4>1. out'[i] = out[i] /\ out[i].seen = before \o SubSeq(Values(out), 1, i - 1)
        BY <1>3, <2>2, <2>4, <3>2
      <4> QED BY <3>1, <4>1
    <3>3. CASE i = Len(out) + 1
      <4>1. out'[i] = x /\ i - 1 = Len(out)
        BY <1>1, <1>3, <3>3
      <4>2. SubSeq(Values(out), 1, i - 1) = Values(out)
        BY <1>2, <4>1, WholeSeq
      <4> QED BY <1>1, <2>3, <3>1, <4>1, <4>2
    <3>4. i \in 1..Len(out) \/ i = Len(out) + 1
      BY <1>1
    <3> QED BY <3>2, <3>3, <3>4, Zenon
  <2> QED BY <2>1, <2>2, <2>5, <2>6
<1>12. Len(out') <= MaxTokens
  BY <1>1, <1>2, <1>3
<1> QED BY <1>1, <1>3, <1>5, <1>6, <1>7, <1>8, <1>9, <1>10, <1>11, <1>12, Zenon

(* The parts of the invariant about other places of the generators. *)
LEMMA OtherPhases ==
  /\ phase' # "prefill" => InPrefill'
  /\ phase' # "decode" => InDecode'
  /\ phase' # "draft" => AtDraft'
  /\ phase' # "verify" => AtVerify'
  /\ phase' # "yield" /\ phase' # "rewind" => InRound'
  /\ ~Is("draft")' => InRound'
  /\ phase' # "yield" => InLayerRound'
  /\ ~Is("mtp")' => InLayerRound' /\ LayerHistory' /\ LayerInStep'
  /\ phase' \notin {"draft", "yield", "catchup"} => LayerHistory' /\ LayerInStep'
  /\ phase' # "catchup" => AtCatchUp'
  /\ phase' # "idle" => StoredNearby'
<1>1. phase' # "prefill" => InPrefill'
  BY DEF InPrefill
<1>2. phase' # "decode" => InDecode'
  BY DEF InDecode
<1>3. phase' # "draft" => AtDraft'
  BY DEF AtDraft
<1>4. phase' # "verify" => AtVerify'
  BY DEF AtVerify
<1>5. /\ phase' # "yield" /\ phase' # "rewind" => InRound'
      /\ ~Is("draft")' => InRound'
  BY DEF InRound
<1>6. phase' # "yield" => InLayerRound'
  BY DEF InLayerRound
<1>7. ~Is("mtp")' => InLayerRound' /\ LayerHistory' /\ LayerInStep'
  BY DEF InLayerRound, LayerHistory, LayerInStep
<1>8. phase' \notin {"draft", "yield", "catchup"} => LayerHistory' /\ LayerInStep'
  BY DEF LayerHistory, LayerInStep
<1>9. phase' # "catchup" => AtCatchUp'
  BY DEF AtCatchUp
<1>10. phase' # "idle" => StoredNearby'
  BY DEF StoredNearby
<1> QED BY <1>1, <1>2, <1>3, <1>4, <1>5, <1>6, <1>7, <1>8, <1>9, <1>10

----------------------------------------
(* What the prompt cache has for a prompt. *)

(* A set of naturals has a least element; one below a bound has a greatest,   *)
(* and Max is it.                                                            *)
LEMMA LeastOf ==
  ASSUME NEW S \in SUBSET Nat, S # {}
  PROVE  \E x \in S : \A y \in S : x <= y
<1>1. PICK x \in S : \A y \in S : ~(<<y, x>> \in OpToRel(<, Nat))
  BY NatLessThanWellFounded, WFMin, Zenon
<1>2. \A y \in S : <<y, x>> \in Nat \X Nat /\ <<y, x>>[1] = y /\ <<y, x>>[2] = x
  OBVIOUS
<1>3. \A y \in S : ~(y < x)
  BY <1>1, <1>2, Zenon DEF OpToRel
<1>4. \A y \in S : x <= y
  BY <1>3
<1> QED BY <1>4

(* A set of numbers up to a bound has its greatest. *)
LEMMA GreatestOf ==
  ASSUME NEW m \in Nat, NEW S \in SUBSET (0..m), S # {}
  PROVE  Max(S) \in S /\ \A y \in S : y <= Max(S)
<1> DEFINE D == {m - x : x \in S}
<1>1. D \subseteq Nat /\ D # {}
  <2>1. \A x \in S : m - x \in Nat
    OBVIOUS
  <2> QED BY <2>1
<1>2. \A x \in S : m - x \in D
  OBVIOUS
<1>3. PICK d \in D : \A e \in D : d <= e
  <2> HIDE DEF D
  <2> QED BY <1>1, LeastOf
<1>4. PICK x \in S : d = m - x
  OBVIOUS
<1>5. \A y \in S : x >= y
  <2> TAKE y \in S
  <2>1. m - x <= m - y
    BY <1>2, <1>3, <1>4
  <2>2. x \in Int /\ y \in Int
    OBVIOUS
  <2> QED BY <2>1, <2>2
<1>6. \E z \in S : \A y \in S : z >= y
  BY <1>5
<1>7. PICK z : z = Max(S)
  OBVIOUS
<1>8. z \in S /\ \A y \in S : z >= y
  BY <1>6, <1>7, Zenon DEF Max
<1>9. \A y \in S : y <= z
  BY <1>8
<1> QED BY <1>7, <1>8, <1>9

(* The lesser and the greater of two numbers. *)
LEMMA LesserOf ==
  ASSUME NEW a \in Int, NEW b \in Int
  PROVE  /\ Min({a, b}) = IF a <= b THEN a ELSE b
         /\ Max({a, b}) = IF a >= b THEN a ELSE b
<1>1. \E z \in {a, b} : \A y \in {a, b} : z <= y
  OBVIOUS
<1>2. PICK z : z = Min({a, b})
  OBVIOUS
<1>3. z \in {a, b} /\ \A y \in {a, b} : z <= y
  BY <1>1, <1>2, Zenon DEF Min
<1>4. \E x \in {a, b} : \A y \in {a, b} : x >= y
  OBVIOUS
<1>5. PICK x : x = Max({a, b})
  OBVIOUS
<1>6. x \in {a, b} /\ \A y \in {a, b} : x >= y
  BY <1>4, <1>5, Zenon DEF Max
<1> QED BY <1>2, <1>3, <1>5, <1>6

(* What is left of a sequence cut at either end. *)
LEMMA PartType ==
  ASSUME NEW T, NEW s \in Seq(T), NEW n \in Nat
  PROVE  /\ DropLast(s, n) \in Seq(T) /\ Front(s) \in Seq(T)
         /\ SubSeq(s, n + 1, Len(s)) \in Seq(T)
         /\ n < Len(s) => /\ SubSeq(s, n + 1, Len(s)) # <<>>
                          /\ Last(SubSeq(s, n + 1, Len(s))) = Last(s)
<1>1. Len(s) \in Nat /\ \A i \in 1..Len(s) : s[i] \in T
  BY LenProperties, ElementOfSeq
<1>2. \A i \in 1..Len(s) - n : s[i] \in T
  BY <1>1
<1>3. DropLast(s, n) \in Seq(T)
  BY <1>1, <1>2, SubSeqProperties DEF DropLast
<1>4. \A i \in 1..Len(s) - 1 : s[i] \in T
  BY <1>1
<1>5. Front(s) \in Seq(T)
  BY <1>1, <1>4, SubSeqProperties DEF Front
<1>6. \A i \in n + 1..Len(s) : s[i] \in T
  BY <1>1
<1>7. /\ SubSeq(s, n + 1, Len(s)) \in Seq(T)
      /\ Len(SubSeq(s, n + 1, Len(s))) = IF n + 1 <= Len(s) THEN Len(s) - (n + 1) + 1 ELSE 0
      /\ \A i \in 1..Len(s) - (n + 1) + 1 : SubSeq(s, n + 1, Len(s))[i] = s[n + 1 + i - 1]
  BY <1>1, <1>6, SubSeqProperties
<1>8. ASSUME n < Len(s)
      PROVE  /\ SubSeq(s, n + 1, Len(s)) # <<>>
             /\ Last(SubSeq(s, n + 1, Len(s))) = Last(s)
  <2>1. PICK f : f = SubSeq(s, n + 1, Len(s))
    OBVIOUS
  <2>2. Len(f) = Len(s) - n /\ Len(s) - n \in 1..Len(s) - (n + 1) + 1
    BY <1>1, <1>7, <1>8, <2>1
  <2>3. f[Len(f)] = s[n + 1 + (Len(s) - n) - 1]
    BY <1>7, <2>1, <2>2
  <2>4. n + 1 + (Len(s) - n) - 1 = Len(s)
    BY <1>1
  <2>5. f # <<>>
    BY <2>2
  <2> QED BY <2>1, <2>3, <2>4, <2>5 DEF Last
<1> QED BY <1>3, <1>5, <1>7, <1>8

(* An entry of the prompt cache. *)
Entries == [key : Seq(Tokens), target : Seq(Tokens), drafter : Seq(Pieces)]

(* What the prompt cache has for a prompt. *)
LEMMA FetchedType ==
  ASSUME Typed, NEW p \in Seq(Tokens), p # <<>>
  PROVE  Fetched(p) \in Entries /\ Resumed(p, Fetched(p)) \in Entries
<1>1. /\ stored \in Entries /\ stored.key \in Seq(Tokens) /\ stored.target \in Seq(Tokens)
      /\ stored.drafter \in Seq(Pieces)
  BY DEF Typed, Entries
<1>2. Len(p) \in Nat \ {0} /\ Len(stored.key) \in Nat
  BY <1>1, EmptySeq, LenProperties
<1>3. CommonPrefix(p, stored.key) \in 0..Len(stored.key)
  <2>1. PICK m : m = Min({Len(p), Len(stored.key)})
    OBVIOUS
  <2>2. m \in Nat /\ m <= Len(stored.key)
    BY <1>2, <2>1, LesserOf
  <2> DEFINE S == {n \in 0..m : SubSeq(p, 1, n) = SubSeq(stored.key, 1, n)}
  <2>3. 0 \in S
    <3>1. SubSeq(p, 1, 0) = <<>> /\ SubSeq(stored.key, 1, 0) = <<>>
      BY <1>1, WholeSeq
    <3> QED BY <2>2, <3>1
  <2>4. S \in SUBSET (0..m)
    OBVIOUS
  <2>5. CommonPrefix(p, stored.key) = Max(S)
    BY <2>1 DEF CommonPrefix
  <2> HIDE DEF S
  <2>6. Max(S) \in S
    BY <2>2, <2>3, <2>4, GreatestOf
  <2>7. PICK k \in 0..m : k = Max(S)
    BY <2>4, <2>6
  <2>8. k \in 0..Len(stored.key)
    BY <1>2, <2>2
  <2> QED BY <2>5, <2>7, <2>8
<1>4. PICK n \in 0..Len(stored.key) : n = CommonPrefix(p, stored.key)
  BY <1>3
<1>5. PICK keep : keep = Min({n, Len(p) - 1})
  OBVIOUS
<1>6. keep \in 0..Len(stored.key) /\ Len(stored.key) - keep \in Nat
  BY <1>2, <1>5, LesserOf
<1>7. Nothing \in Entries
  BY EmptySeq DEF Nothing, Entries
<1>8. [key |-> SubSeq(stored.key, 1, keep),
       target |-> DropLast(stored.target, Len(stored.key) - keep),
       drafter |-> DropLast(stored.drafter, Len(stored.key) - keep)] \in Entries
  <2>1. SubSeq(stored.key, 1, keep) \in Seq(Tokens)
    BY <1>1, <1>6, FirstPart
  <2>2. /\ DropLast(stored.target, Len(stored.key) - keep) \in Seq(Tokens)
        /\ DropLast(stored.drafter, Len(stored.key) - keep) \in Seq(Pieces)
    BY <1>1, <1>6, PartType
  <2> QED BY <2>1, <2>2 DEF Entries
<1>9. Fetched(p) \in Entries
  BY <1>1, <1>4, <1>5, <1>7, <1>8 DEF Fetched
<1>10. PICK entry \in Entries : entry = Fetched(p)
  BY <1>9
<1>11. /\ entry.key \in Seq(Tokens) /\ entry.target \in Seq(Tokens)
       /\ entry.drafter \in Seq(Pieces)
  BY DEF Entries
<1>12. /\ Front(entry.key) \in Seq(Tokens) /\ Front(entry.target) \in Seq(Tokens)
       /\ Front(entry.drafter) \in Seq(Pieces)
  <2>1. 0 \in Nat
    OBVIOUS
  <2> QED BY <1>11, <2>1, PartType
<1>13. Resumed(p, entry) \in Entries
  BY <1>12 DEF Resumed, Entries
<1> QED BY <1>9, <1>10, <1>13

(* Reading moves the first part of what is left to the end of what was read. *)
LEMMA MoveOver ==
  ASSUME NEW T, NEW a \in Seq(T), NEW b \in Seq(T), NEW n \in 0..Len(b)
  PROVE  /\ (a \o SubSeq(b, 1, n)) \o SubSeq(b, n + 1, Len(b)) = a \o b
         /\ a \o SubSeq(b, 1, n) \in Seq(T) /\ SubSeq(b, n + 1, Len(b)) \in Seq(T)
         /\ SubSeq(b, 1, n) \in Seq(T) /\ Len(SubSeq(b, 1, n)) = n
         /\ Len(a \o SubSeq(b, 1, n)) = Len(a) + n
<1>1. Len(b) \in Nat /\ n \in Nat /\ 1 \in 1..Len(b) + 1 /\ n \in 1 - 1..Len(b)
      /\ Len(b) \in n..Len(b)
  BY LenProperties
<1>2. SubSeq(b, 1, n) \o SubSeq(b, n + 1, Len(b)) = SubSeq(b, 1, Len(b))
  BY <1>1, ConcatAdjacentSubSeq
<1>3. SubSeq(b, 1, n) \in Seq(T) /\ Len(SubSeq(b, 1, n)) = n
  BY FirstPart
<1>4. SubSeq(b, n + 1, Len(b)) \in Seq(T)
  BY <1>1, PartType
<1>5. SubSeq(b, 1, Len(b)) = b
  BY SubSeqFull
<1>6. (a \o SubSeq(b, 1, n)) \o SubSeq(b, n + 1, Len(b)) = a \o b
  <2>1. (a \o SubSeq(b, 1, n)) \o SubSeq(b, n + 1, Len(b))
          = a \o (SubSeq(b, 1, n) \o SubSeq(b, n + 1, Len(b)))
    <3>1. PICK x, y : x = SubSeq(b, 1, n) /\ y = SubSeq(b, n + 1, Len(b))
      OBVIOUS
    <3>2. x \in Seq(T) /\ y \in Seq(T)
      BY <1>3, <1>4, <3>1
    <3>3. (a \o x) \o y = a \o (x \o y)
      BY <3>2, ConcatAssociative
    <3> QED BY <3>1, <3>3
  <2>2. SubSeq(b, 1, n) \o SubSeq(b, n + 1, Len(b)) = b
    BY <1>2, <1>5, Zenon
  <2> QED BY <2>1, <2>2, Zenon
<1> QED BY <1>3, <1>4, <1>6, ConcatType

(* The last element of a sequence put behind another. *)
LEMMA LastOfConcat ==
  ASSUME NEW T, NEW a \in Seq(T), NEW b \in Seq(T), b # <<>>
  PROVE  Last(a \o b) = Last(b) /\ a \o b # <<>>
<1>1. Len(b) \in Nat \ {0} /\ Len(b) \in 1..Len(b)
  BY EmptySeq
<1>2. Len(a \o b) = Len(a) + Len(b) /\ (a \o b)[Len(a) + Len(b)] = b[Len(b)] /\ Len(a) \in Nat
  BY <1>1, ConcatType
<1>3. a \o b # <<>>
  BY <1>1, <1>2
<1> QED BY <1>2, <1>3 DEF Last

(* A sequence of one element. *)
LEMMA OneElement ==
  ASSUME NEW T, NEW s \in Seq(T), Len(s) = 1
  PROVE  s = <<Last(s)>> /\ s # <<>> /\ s[1] = Last(s) /\ s[1] \in T /\ Front(s) = <<>>
<1>1. s # <<>>
  BY EmptySeq
<1>2. s = Front(s) \o <<Last(s)>> /\ Last(s) \in T
  BY <1>1, FrontLast
<1>3. Front(s) = <<>>
  BY SubSeqEmpty DEF Front
<1>4. <<Last(s)>> \in Seq(T)
  BY <1>2
<1>5. s = <<Last(s)>>
  BY <1>2, <1>3, <1>4, WholeSeq
<1> QED BY <1>1, <1>2, <1>3, <1>5 DEF Last

(* No tokens make no pairs. *)
LEMMA NoPairs ==
  \A n : Pairs(<<>>, n) = <<>>
BY DEF Pairs

(* What one more token makes of a text. *)
LEMMA AppendedIs ==
  ASSUME NEW T, NEW s \in Seq(T), NEW x \in T
  PROVE  Append(s, x) \in Seq(T) /\ Append(s, x) # <<>>
BY AppendProperties

(* A turn begins with what the prompt cache has. *)
LEMMA BeginTurnKeeps ==
  ASSUME IInv, BeginTurn
  PROVE  IInv' /\ Context' \in Seq(Tokens)
<1> USE DEF IInv
<1>1. PICK p \in IF turn = 0 THEN {Prompt} ELSE NextPrompts :
        LET entry == Resumed(p, Fetched(p))
            new == SubSeq(p, Len(entry.key) + 1, Len(p))
        IN  /\ prompt' = p
            /\ rest' = new
            /\ target' = entry.target
            /\ drafter' = entry.drafter
            /\ new # <<>>
            /\ began' = [target |-> entry.target, drafter |-> entry.drafter, new |-> new]
            /\ prev' = IF Is("mtp") THEN p ELSE <<>>
  BY DEF BeginTurn
<1>2. /\ turn < Turns /\ phase' = "prefill" /\ turn' = turn + 1 /\ out' = <<>> /\ suspended' = FALSE
      /\ current' = <<>> /\ draftY' = <<>> /\ round' = NoRound /\ hidden' = 0
      /\ ready' = FALSE /\ stats' = NoStats /\ setup' = setup /\ stored' = stored
  BY DEF BeginTurn
<1>3. p \in Seq(Tokens) /\ p # <<>>
  <2>1. CASE turn = 0
    BY <2>1, DecodingAssumption
  <2>2. CASE turn # 0
    <3>1. prompt \in Seq(Tokens) /\ prompt # <<>> /\ User \in Tokens /\ Values(out) \in Seq(Tokens)
      BY <2>2, Texts, DecodingAssumption DEF Typed, Begun
    <3>2. prompt \o Values(out) \in Seq(Tokens)
      BY <3>1, ConcatType
    <3>3. p \in {Append(prompt \o Values(out), User), prompt, Append(prompt, User)}
      BY <2>2 DEF NextPrompts
    <3>4. PICK whole : whole = prompt \o Values(out)
      OBVIOUS
    <3>5. p \in {Append(whole, User), prompt, Append(prompt, User)} /\ whole \in Seq(Tokens)
      BY <3>2, <3>3, <3>4
    <3>6. Append(whole, User) \in Seq(Tokens) /\ Append(whole, User) # <<>>
      BY <3>1, <3>5, AppendedIs
    <3>7. Append(prompt, User) \in Seq(Tokens) /\ Append(prompt, User) # <<>>
      BY <3>1, AppendedIs
    <3> HIDE DEF IInv
    <3> QED BY <3>1, <3>5, <3>6, <3>7, ZenonT(60)
  <2> QED BY <2>1, <2>2
<1>4. PICK entry \in Entries : entry = Resumed(p, Fetched(p))
  BY <1>3, FetchedType
<1>5. /\ entry.key \in Seq(Tokens) /\ entry.target \in Seq(Tokens)
      /\ entry.drafter \in Seq(Pieces) /\ Len(entry.key) \in Nat
  BY LenProperties DEF Entries
<1>6. PICK new : new = SubSeq(p, Len(entry.key) + 1, Len(p))
  OBVIOUS
<1>7. /\ prompt' = p /\ rest' = new /\ target' = entry.target /\ drafter' = entry.drafter
      /\ new # <<>>
      /\ began' = [target |-> entry.target, drafter |-> entry.drafter, new |-> new]
      /\ prev' = IF Is("mtp") THEN p ELSE <<>>
  BY <1>1, <1>4, <1>6
<1>8. new \in Seq(Tokens)
  BY <1>3, <1>5, <1>6, PartType
<1>9. Last(new) = Last(p)
  <2>1. Len(entry.key) < Len(p)
    <3>1. SUFFICES ASSUME ~(Len(entry.key) < Len(p)) PROVE new = <<>>
      BY <1>7
    <3>2. Len(p) \in Nat
      BY <1>3, LenProperties
    <3>3. Len(entry.key) + 1 \in Int /\ Len(p) \in Int /\ Len(p) < Len(entry.key) + 1
      BY <1>5, <3>1, <3>2
    <3> QED BY <1>6, <3>3, SubSeqEmpty, Zenon
  <2> QED BY <1>3, <1>5, <1>6, <2>1, PartType
<1>10. /\ \A m : Is(m)' = Is(m)
       /\ Pieces' = Pieces
  BY <1>2 DEF Is, Pieces
<1>11. Typed'
  <2>1. NoRound \in [drafts : Seq(Tokens), tokens : Seq(Samples), num : Nat, n : Nat]
        /\ NoRound.n = 0 /\ NoRound.num = 0
    BY EmptySeq DEF NoRound
  <2>2. NoStats \in [drafted : Nat, accepted : Nat, fallback : BOOLEAN]
        /\ NoStats.accepted = 0 /\ NoStats.drafted = 0
    BY DEF NoStats
  <2>3. setup.num \in Nat /\ MaxTokens \in Nat /\ Turns \in Nat /\ turn \in 0..Turns
    BY Texts, DecodingAssumption DEF Typed
  <2>4. prev' \in Seq(Tokens)
    BY <1>3, <1>7, EmptySeq
  <2>5. began' \in [target : Seq(Tokens), drafter : Seq(Pieces), new : Seq(Tokens)]
    BY <1>5, <1>7, <1>8
  <2>6. turn' \in 0..Turns
    BY <1>2, <2>3
  <2>7. /\ setup' \in Setups
        /\ stored' \in [key : Seq(Tokens), target : Seq(Tokens), drafter : Seq(Pieces)]
    BY <1>2 DEF Typed
  <2>8. /\ prompt' \in Seq(Tokens) /\ rest' \in Seq(Tokens) /\ target' \in Seq(Tokens)
        /\ drafter' \in Seq(Pieces) /\ draftY' \in Seq(Tokens)
    BY <1>2, <1>3, <1>5, <1>7, <1>8, EmptySeq
  <2>9. /\ current' \in Seq(Tokens \cup Samples) /\ Len(current') <= 1
        /\ out' \in Seq(Samples) /\ Len(out') <= MaxTokens
    BY <1>2, <2>3, EmptySeq
  <2>10. /\ round' \in [drafts : Seq(Tokens), tokens : Seq(Samples), num : Nat, n : Nat]
         /\ round'.n <= round'.num /\ round'.num <= setup'.num
    BY <1>2, <2>1, <2>3
  <2>11. phase' \in Phases
    BY <1>2 DEF Phases
  <2>12. Samples' = Samples
    BY DEF Samples
  <2>13. /\ hidden' \in Nat /\ ready' \in BOOLEAN /\ suspended' \in BOOLEAN
         /\ stats' \in [drafted : Nat, accepted : Nat, fallback : BOOLEAN]
         /\ stats'.accepted <= stats'.drafted
    <3>1. hidden' \in Nat
      BY <1>2
    <3>2. ready' \in BOOLEAN /\ suspended' \in BOOLEAN
      BY <1>2, Zenon
    <3>3. stats'.accepted = 0 /\ stats'.drafted = 0
      BY <1>2, <2>2, Zenon
    <3>4. stats'.accepted <= stats'.drafted
      BY <3>3
    <3> QED BY <1>2, <2>2, <3>1, <3>2, <3>4, Zenon
  <2> QED BY <1>10, <2>4, <2>5, <2>6, <2>7, <2>8, <2>9, <2>10, <2>11, <2>12, <2>13, Zenon DEF Typed
<1>12. Begun'
  <2>1. turn' > 0
    BY <1>2, DecodingAssumption DEF Typed
  <2>2. began'.new = new
    BY <1>7
  <2> QED BY <1>2, <1>3, <1>7, <1>9, <2>1, <2>2 DEF Begun
<1>13. Context' = target' \o rest' /\ Context' \in Seq(Tokens)
  BY <1>5, <1>7, <1>8, ConcatType DEF Context
<1>14. InPrefill'
  <2>1. Is("draft") => drafter' \o rest' = began'.drafter \o began'.new
    BY <1>7
  <2>2. began'.target = target' /\ began'.drafter = drafter' /\ Len(target') \in Nat
    BY <1>5, <1>7, LenProperties
  <2>3. /\ setup.fused => drafter' = Layer(Context, Len(target))'
        /\ ~setup.fused => \E read \in Seq(Tokens) :
             /\ read \o rest' = began'.new
             /\ drafter' = began'.drafter \o Pairs(read, Len(began'.target) + 1)
             /\ Len(target') = Len(began'.target) + Len(read)
    <3>1. CASE setup.fused
      <4>1. Own' = <<>> /\ From' = Len(target') + 1
        BY <1>2, <2>2, <3>1 DEF Own, From
      <4>2. Later(Context', From', Len(target')) = <<>>
        <5>1. 1..Len(target') - From' + 1 = {}
          BY <2>2, <4>1
        <5> QED BY <5>1 DEF Later
      <4>3. drafter' \o <<>> = drafter'
        BY <1>5, <1>7, WholeSeq
      <4> QED BY <2>2, <3>1, <4>1, <4>2, <4>3, Zenon DEF Layer
    <3>2. CASE ~setup.fused
      <4>1. Pairs(<<>>, Len(began'.target) + 1) = <<>> /\ drafter' \o <<>> = drafter'
            /\ <<>> \o rest' = rest'
        BY <1>5, <1>7, <1>8, NoPairs, WholeSeq
      <4>2. <<>> \in Seq(Tokens) /\ Len(target') = Len(began'.target) + Len(<<>>)
        BY <2>2, EmptySeq
      <4> QED BY <1>7, <2>2, <3>2, <4>1, <4>2
    <3> QED BY <3>1, <3>2, Zenon
  <2>4. /\ Len(began'.target) <= Len(target') /\ Is("mtp")' = Is("mtp")
        /\ Is("draft")' = Is("draft") /\ setup' = setup
        /\ (Is("mtp") => prev' = prompt') /\ (~Is("mtp") => prev' = <<>>)
    BY <1>2, <1>7, <1>10, <2>2
  <2> QED BY <1>2, <1>7, <1>13, <2>1, <2>3, <2>4, Zenon DEF InPrefill, Pairs
<1>15. HistoryWhole'
  BY <1>2 DEF HistoryWhole
<1> QED BY <1>2, <1>11, <1>12, <1>13, <1>14, <1>15, OtherPhases

----------------------------------------
(* Plain decoding, and the prefill before it. *)

(* A round. *)
Rounds == [drafts : Seq(Tokens), tokens : Seq(Samples), num : Nat, n : Nat]
(* The counts of proposals. *)
Counts == [drafted : Nat, accepted : Nat, fallback : BOOLEAN]

(* A step within a turn keeps the types if it keeps those of what it may change. *)
LEMMA StillTyped ==
  ASSUME Typed, UNCHANGED fixed,
         rest' \in Seq(Tokens), target' \in Seq(Tokens), drafter' \in Seq(Pieces),
         prev' \in Seq(Tokens), draftY' \in Seq(Tokens),
         current' \in Seq(Tokens \cup Samples), Len(current') <= 1,
         round' \in Rounds, round'.n <= round'.num, round'.num <= setup.num,
         hidden' \in Nat, ready' \in BOOLEAN, stats' \in Counts,
         stats'.accepted <= stats'.drafted,
         out' \in Seq(Samples), Len(out') <= MaxTokens,
         suspended' \in BOOLEAN, phase' \in Phases
  PROVE  Typed'
<1>1. setup' = setup /\ turn' = turn /\ prompt' = prompt /\ began' = began /\ stored' = stored
  BY DEF fixed
<1>2. Samples' = Samples /\ Pieces' = Pieces
  BY <1>1 DEF Samples, Pieces, Is
<1>3. /\ setup' \in Setups /\ turn' \in 0..Turns /\ prompt' \in Seq(Tokens)
      /\ began' \in [target : Seq(Tokens), drafter : Seq(Pieces), new : Seq(Tokens)]
      /\ stored' \in [key : Seq(Tokens), target : Seq(Tokens), drafter : Seq(Pieces)]
      /\ round'.num <= setup'.num
  BY <1>1, Zenon DEF Typed
<1>4. round' \in [drafts : Seq(Tokens), tokens : Seq(Samples), num : Nat, n : Nat]
      /\ stats' \in [drafted : Nat, accepted : Nat, fallback : BOOLEAN]
  BY DEF Rounds, Counts
<1> QED BY <1>2, <1>3, <1>4, Zenon DEF Typed

(* Within a turn, only the places of the steps must fit the method. *)
LEMMA StillBegun ==
  ASSUME Begun, Typed, UNCHANGED fixed, phase # "idle",
         phase' = "decode" => Is("plain"),
         phase' \in {"verify", "rewind"} => Is("draft"),
         phase' = "catchup" => Is("mtp"),
         phase' \in {"draft", "yield"} => ~Is("plain"),
         suspended' => out' # <<>> /\ phase' \notin {"idle", "prefill", "verify"},
         suspended' /\ Is("draft") => phase' # "draft"
  PROVE  Begun' /\ turn > 0
<1>1. setup' = setup /\ turn' = turn /\ prompt' = prompt /\ began' = began
  BY DEF fixed
<1>2. \A m : Is(m)' = Is(m)
  BY <1>1 DEF Is
<1>3. Is("plain")' = Is("plain") /\ Is("draft")' = Is("draft") /\ Is("mtp")' = Is("mtp")
  BY <1>2
<1>4. turn > 0 /\ turn' # 0
  BY <1>1 DEF Typed, Begun
<1>5. prompt' # <<>> /\ began'.new # <<>> /\ Last(began'.new) = Last(prompt')
  BY <1>1, <1>4, Zenon DEF Begun
<1> QED BY <1>3, <1>4, <1>5, Zenon DEF Begun

(* What a step looks like to the specification of decoding: within a turn, it *)
(* yields the right token or nothing.                                        *)
Simulated ==
  /\ phase # "idle" /\ phase' # "idle" /\ UNCHANGED began
  /\ UNCHANGED out \/ \E x : RightYield(x)

(* One token is what current may hold. *)
LEMMA OneToken ==
  ASSUME NEW s \in Seq(Tokens), Len(s) = 1
  PROVE  s \in Seq(Tokens \cup Samples) /\ Len(s) <= 1
<1>1. s = <<Last(s)>> /\ Last(s) \in Tokens
  <2>1. s = <<Last(s)>> /\ s[1] = Last(s) /\ s[1] \in Tokens
    BY OneElement
  <2> QED BY <2>1, Zenon
<1>2. <<Last(s)>> \in Seq(Tokens \cup Samples)
  BY <1>1
<1> QED BY <1>1, <1>2

(* Before the first token is yielded, what should have been read is the *)
(* context.                                                             *)
LEMMA NothingYielded ==
  ASSUME Typed, Begun, turn > 0, out = <<>>
  PROVE  /\ Values(out) = <<>> /\ Read = Context
         /\ History = IF Is("mtp") THEN prompt ELSE <<Last(prompt)>>
         /\ ~Is("mtp") => DrafterRead = began.drafter \o began.new
<1>1. Values(out) = <<>>
  BY DEF Values
<1>2. Context \in Seq(Tokens)
  BY Texts
<1>3. Read = Context
  BY <1>1, <1>2, WholeSeq DEF Read
<1>4. prompt # <<>> /\ prompt \in Seq(Tokens)
  BY DEF Begun, Typed
<1>5. History = IF Is("mtp") THEN prompt ELSE <<Last(prompt)>>
  <2>1. <<Last(prompt)>> \in Seq(Tokens)
    BY <1>4, FrontLast
  <2>2. CASE Is("mtp")
    BY <1>1, <1>4, <2>2, WholeSeq DEF History
  <2>3. CASE ~Is("mtp")
    BY <1>1, <2>1, <2>3, WholeSeq DEF History
  <2> QED BY <2>2, <2>3
<1>6. ASSUME ~Is("mtp") PROVE DrafterRead = began.drafter \o began.new
  <2>1. began.drafter \in Seq(Tokens) /\ began.new \in Seq(Tokens)
    BY <1>6, Texts DEF Typed
  <2>2. began.drafter \o began.new \in Seq(Tokens)
    BY <2>1, ConcatType
  <2> QED BY <1>1, <2>2, WholeSeq DEF DrafterRead
<1> QED BY <1>1, <1>3, <1>5, <1>6

(* Prefill keeps the invariant: the draft model reads what the target model *)
(* reads.                                                                   *)
LEMMA PrefillKeeps ==
  ASSUME IInv, Prefill
  PROVE  IInv' /\ Simulated
<1> USE DEF IInv
<1>1. PICK n : n = Min({PrefillStep, Len(rest) - 1})
  OBVIOUS
<1>2. /\ phase = "prefill" /\ ~Is("mtp") /\ Len(rest) > 1
      /\ target' = target \o SubSeq(rest, 1, n)
      /\ drafter' = (IF Is("draft") THEN drafter \o SubSeq(rest, 1, n) ELSE drafter)
      /\ rest' = SubSeq(rest, n + 1, Len(rest))
      /\ suspended' = FALSE /\ out' = out /\ UNCHANGED <<fixed, loop, prev, phase>>
  BY <1>1 DEF Prefill, Running
<1>3. /\ setup' = setup /\ turn' = turn /\ prompt' = prompt /\ began' = began /\ stored' = stored
      /\ current' = current /\ draftY' = draftY /\ round' = round /\ hidden' = hidden
      /\ ready' = ready /\ stats' = stats /\ prev' = prev /\ phase' = phase
  BY <1>2 DEF fixed, loop
<1>4. /\ target \in Seq(Tokens) /\ rest \in Seq(Tokens) /\ drafter \in Seq(Tokens)
      /\ Len(rest) \in Nat /\ PrefillStep \in Nat \ {0} /\ Pieces = Tokens
  BY <1>2, Texts, LenProperties DEF Typed, Pieces
<1>5. n \in 1..Len(rest) - 1 /\ n \in 0..Len(rest) /\ n < Len(rest) /\ n \in Nat
  <2>1. PrefillStep \in Int /\ Len(rest) - 1 \in Int
    BY <1>4
  <2>2. n = IF PrefillStep <= Len(rest) - 1 THEN PrefillStep ELSE Len(rest) - 1
    BY <1>1, <2>1, LesserOf, Zenon
  <2> QED BY <1>2, <1>4, <2>2
<1>6. /\ target' \o rest' = target \o rest /\ target' \in Seq(Tokens) /\ rest' \in Seq(Tokens)
  BY <1>2, <1>4, <1>5, MoveOver
<1>7. /\ drafter' \in Seq(Tokens)
      /\ Is("draft") => drafter' \o rest' = drafter \o rest
  <2>1. CASE Is("draft")
    BY <1>2, <1>4, <1>5, <2>1, MoveOver
  <2>2. CASE ~Is("draft")
    BY <1>2, <1>4, <2>2
  <2> QED BY <2>1, <2>2
<1>8. rest' # <<>>
  BY <1>2, <1>4, <1>5, PartType
<1>9. Typed'
  BY <1>2, <1>3, <1>4, <1>6, <1>7, StillTyped, Zenon DEF Typed, Rounds, Counts
<1>10. Begun'
  BY <1>2, <1>3, StillBegun
<1>11. /\ Read' = Read /\ Context' = Context /\ \A m : Is(m)' = Is(m)
       /\ HistoryWhole => HistoryWhole'
  BY <1>2, <1>3, SameTexts
<1>12. InPrefill'
  <2>1. Is("mtp")' = Is("mtp") /\ Is("draft")' = Is("draft")
    BY <1>11
  <2>2. /\ out = <<>> /\ target \o rest = Context /\ round = NoRound /\ prev = <<>>
        /\ Is("draft") => drafter \o rest = began.drafter \o began.new
    BY <1>2 DEF InPrefill
  <2>3. NoRound' = NoRound
    BY DEF NoRound
  <2> QED BY <1>2, <1>3, <1>6, <1>7, <1>8, <1>11, <2>1, <2>2, <2>3, Zenon DEF InPrefill
<1>13. Simulated
  BY <1>2, <1>3 DEF Simulated
<1> QED BY <1>2, <1>3, <1>9, <1>10, <1>11, <1>12, <1>13, OtherPhases

(* The first step of decoding keeps the invariant: the last token is sampled *)
(* from, or is current.                                                      *)
LEMMA StartDecodingKeeps ==
  ASSUME IInv, StartDecoding
  PROVE  IInv' /\ Simulated
<1> USE DEF IInv
<1>1. /\ phase = "prefill" /\ ~Is("mtp") /\ Len(rest) = 1 /\ rest' = <<>>
      /\ suspended' = FALSE /\ out' = out
      /\ UNCHANGED <<fixed, drafter, round, hidden, ready, stats>>
  BY DEF StartDecoding, Running
<1>2. /\ setup' = setup /\ turn' = turn /\ prompt' = prompt /\ began' = began /\ stored' = stored
      /\ round' = round /\ hidden' = hidden /\ ready' = ready /\ stats' = stats
      /\ drafter' = drafter
  BY <1>1 DEF fixed
<1>3. /\ target \in Seq(Tokens) /\ rest \in Seq(Tokens) /\ drafter \in Seq(Tokens)
      /\ began.new \in Seq(Tokens) /\ began.target \in Seq(Tokens) /\ prompt \in Seq(Tokens)
      /\ Context \in Seq(Tokens) /\ MaxTokens \in Nat \ {0} /\ turn \in Nat
  BY <1>1, Texts, DecodingAssumption DEF Typed
<1>4. /\ out = <<>> /\ target \o rest = Context /\ prev = <<>>
      /\ Is("draft") => drafter \o rest = began.drafter \o began.new
  BY <1>1 DEF InPrefill
<1>5. turn > 0 /\ began.new # <<>> /\ Last(began.new) = Last(prompt) /\ prompt # <<>>
  BY <1>1, <1>3 DEF Begun
<1>6. rest = <<Last(rest)>> /\ rest # <<>> /\ rest[1] = Last(rest) /\ Last(rest) \in Tokens
  BY <1>1, <1>3, OneElement
<1>7. Last(rest) = Last(prompt)
  <2>1. Last(target \o rest) = Last(rest)
    BY <1>3, <1>6, LastOfConcat
  <2>2. Last(Context) = Last(began.new)
    BY <1>3, <1>5, LastOfConcat DEF Context
  <2> QED BY <1>4, <1>5, <2>1, <2>2
<1>8. /\ Read = Context /\ History = rest /\ DrafterRead = began.drafter \o began.new
  BY <1>1, <1>4, <1>5, <1>6, <1>7, NothingYielded
<1>9. /\ Read' = Read /\ History' = History /\ DrafterRead' = DrafterRead
      /\ \A m : Is(m)' = Is(m)
      /\ HistoryWhole => HistoryWhole'
  BY <1>1, <1>2, SameTexts
<1>10. Is("mtp")' = Is("mtp") /\ Is("draft")' = Is("draft") /\ Is("plain")' = Is("plain")
  BY <1>9
<1>11. CASE Is("plain")
  <2>1. PICK t \in Tokens : /\ target' = target \o rest /\ prev' = rest
                            /\ current' = <<Sampled(t, target', prev')>>
                            /\ phase' = "decode" /\ draftY' = draftY
    BY <1>11 DEF StartDecoding
  <2>2. target' = Read /\ target' \in Seq(Tokens)
    BY <1>3, <1>4, <1>8, <2>1
  <2>3. Sampled(t, target', prev') \in Samples
    BY <1>3, <2>1, <2>2 DEF Sampled, Samples
  <2>4. /\ current' \in Seq(Tokens \cup Samples) /\ Len(current') = 1
        /\ current'[1] = Sampled(t, target', prev')
    BY <2>1, <2>3
  <2>5. Len(current') <= 1 /\ phase' \in Phases /\ rest' \in Seq(Tokens) /\ prev' \in Seq(Tokens)
    BY <1>1, <1>3, <2>1, <2>4, EmptySeq DEF Phases
  <2>6. Typed'
    BY <1>1, <1>2, <2>1, <2>2, <2>4, <2>5, StillTyped, Zenon DEF Typed, Rounds, Counts
  <2>7. Begun'
    BY <1>1, <1>11, <2>1, StillBegun
  <2>8. InDecode'
    <3>1. current'[1] \in Samples' /\ current'[1].given = target' /\ current'[1].seen = prev'
      BY <2>3, <2>4 DEF Sampled, Samples
    <3>2. target' = Read' /\ prev' = History'
      BY <1>8, <1>9, <2>1, <2>2
    <3> QED BY <2>4, <3>1, <3>2, Zenon DEF InDecode
  <2>9. Simulated
    BY <1>1, <1>2, <2>1 DEF Simulated
  <2>10. ~Is("mtp")' /\ ~Is("draft")'
    BY <1>1, <1>10, <1>11 DEF Is
  <2> QED BY <1>9, <2>1, <2>6, <2>7, <2>8, <2>9, <2>10, OtherPhases
<1>12. CASE ~Is("plain")
  <2>1. /\ current' = rest /\ draftY' = rest /\ phase' = "draft" /\ target' = target
        /\ prev' = prev
    BY <1>12 DEF StartDecoding
  <2>2. Is("draft")
    BY <1>1, <1>12, Texts DEF Is
  <2>3. /\ current' \in Seq(Tokens) /\ current' \in Seq(Tokens \cup Samples)
        /\ Len(current') = 1 /\ Len(current') <= 1
        /\ phase' \in Phases /\ rest' \in Seq(Tokens) /\ draftY' \in Seq(Tokens)
    <3>1. phase' \in Phases /\ rest' \in Seq(Tokens)
      BY <1>1, <2>1, EmptySeq DEF Phases
    <3>2. rest \in Seq(Tokens \cup Samples) /\ Len(rest) <= 1
      BY <1>1, <1>3, OneToken
    <3> QED BY <1>1, <1>3, <2>1, <3>1, <3>2, Zenon
  <2>4. Typed'
    BY <1>1, <1>2, <2>1, <2>3, StillTyped, Zenon DEF Typed, Rounds, Counts
  <2>5. Begun'
    BY <1>1, <1>12, <2>1, StillBegun
  <2>6. AtDraft'
    <3>1. target' \o current' = Read'
      BY <1>4, <1>8, <1>9, <2>1
    <3>2. prev' \o draftY' = History'
      BY <1>3, <1>4, <1>8, <1>9, <2>1, WholeSeq
    <3>3. drafter' \o draftY' = DrafterRead'
      BY <1>2, <1>4, <1>8, <1>9, <2>1, <2>2
    <3>4. draftY' # <<>> /\ Last(draftY') = current'[1]
      BY <1>6, <2>1
    <3>5. Len(out') < MaxTokens
      BY <1>1, <1>3, <1>4
    <3> QED BY <2>3, <3>1, <3>2, <3>3, <3>4, <3>5, Zenon DEF AtDraft
  <2>7. Simulated
    BY <1>1, <1>2, <2>1 DEF Simulated
  <2>8. ~Is("mtp")'
    BY <1>1, <1>10
  <2> QED BY <1>9, <2>1, <2>4, <2>5, <2>6, <2>7, <2>8, OtherPhases
<1> QED BY <1>11, <1>12

(* Plain decoding keeps the invariant: the token of lookahead was sampled *)
(* from all before it.                                                    *)
LEMMA DecodeStepKeeps ==
  ASSUME IInv, DecodeStep
  PROVE  IInv' /\ Simulated
<1> USE DEF IInv
<1>1. /\ phase = "decode" /\ Len(out) < MaxTokens /\ phase' = phase
      /\ target' = Append(target, current[1].token)
      /\ prev' = Append(prev, current[1].token)
      /\ Yielded(current[1])
      /\ UNCHANGED <<fixed, rest, drafter, draftY, round, hidden, ready, stats>>
  BY DEF DecodeStep
<1>2. PICK t \in Tokens : current' = <<Sampled(t, target', prev')>>
  BY DEF DecodeStep
<1>3. /\ setup' = setup /\ turn' = turn /\ prompt' = prompt /\ began' = began /\ stored' = stored
      /\ rest' = rest /\ drafter' = drafter /\ draftY' = draftY /\ round' = round
      /\ hidden' = hidden /\ ready' = ready /\ stats' = stats
  BY <1>1 DEF fixed
<1>4. /\ target = Read /\ prev = History /\ Is("plain") /\ turn > 0
      /\ current[1] \in Samples /\ current[1].given = target /\ current[1].seen = prev
  BY <1>1 DEF InDecode, Begun, Typed
<1>5. PICK x \in Samples : x = current[1]
  BY <1>4
<1>6. RightYield(x)
  BY <1>1, <1>4, <1>5 DEF RightYield
<1>7. /\ out' \in Seq(Samples) /\ Len(out') <= MaxTokens /\ out' # <<>> /\ suspended' = TRUE
      /\ x.token \in Tokens
      /\ Read' = Read \o <<x.token>> /\ Read' \in Seq(Tokens)
      /\ History' = History \o <<x.token>> /\ History' \in Seq(Tokens)
      /\ \A m : Is(m)' = Is(m)
      /\ HistoryWhole'
  BY <1>3, <1>4, <1>6, YieldTexts
<1>8. target' = Read' /\ prev' = History'
  <2>1. target \in Seq(Tokens) /\ prev \in Seq(Tokens)
    BY DEF Typed
  <2>2. /\ Append(target, x.token) = target \o <<x.token>>
        /\ Append(prev, x.token) = prev \o <<x.token>>
    BY <1>7, <2>1, FrontOfAppend
  <2> QED BY <1>1, <1>4, <1>5, <1>7, <2>2
<1>9. /\ Sampled(t, target', prev') \in Samples
      /\ Sampled(t, target', prev').given = target' /\ Sampled(t, target', prev').seen = prev'
  BY <1>7, <1>8 DEF Sampled, Samples
<1>10. /\ current' \in Seq(Tokens \cup Samples) /\ Len(current') = 1 /\ Len(current') <= 1
       /\ current'[1] = Sampled(t, target', prev')
  BY <1>2, <1>9
<1>11. Typed'
  BY <1>1, <1>3, <1>7, <1>8, <1>10, StillTyped, Zenon DEF Typed, Rounds, Counts
<1>12. Begun'
  BY <1>1, <1>4, <1>7, StillBegun
<1>13. InDecode'
  <2>1. Samples' = Samples
    BY DEF Samples
  <2> QED BY <1>8, <1>9, <1>10, <2>1, Zenon DEF InDecode
<1>14. ~Is("mtp")' /\ ~Is("draft")'
  BY <1>4, <1>7 DEF Is
<1>15. Simulated
  BY <1>1, <1>3, <1>6 DEF Simulated
<1> QED BY <1>1, <1>7, <1>11, <1>12, <1>13, <1>14, <1>15, OtherPhases

----------------------------------------
(* Drafting, verifying and rewinding. *)

(* Proposals and samples are sequences of tokens. *)
LEMMA FunctionSeq ==
  ASSUME NEW n \in Nat, NEW f \in [1..n -> Tokens]
  PROVE  f \in Seq(Tokens) /\ Len(f) = n /\ \A i \in 1..n : f[i] \in Tokens
<1>1. f \in Seq(Tokens)
  BY DEF Seq
<1> QED BY <1>1, LenProperties

(* Drafting keeps the invariant: the processors' tokens are as before it. *)
LEMMA DraftKeeps ==
  ASSUME IInv, Draft
  PROVE  IInv' /\ Simulated
<1> USE DEF IInv
<1>1. /\ phase = "draft" /\ Is("draft") /\ phase' = "verify" /\ suspended' = FALSE /\ out' = out
      /\ UNCHANGED <<fixed, rest, target, current, draftY, hidden, ready, stats>>
  BY DEF Draft, Running
<1>2. PICK num : num = Min({MaxTokens - Len(out), setup.num})
  OBVIOUS
<1>3. PICK d \in [1..num -> Tokens] :
        /\ drafter' = drafter \o (draftY \o Front(d))
        /\ prev' = DropLast(prev \o (draftY \o Front(d)), Len(current) + num - 1)
        /\ round' = [drafts |-> d, tokens |-> <<>>, num |-> num, n |-> 0]
  BY <1>2, Zenon DEF Draft
<1>4. /\ setup' = setup /\ turn' = turn /\ prompt' = prompt /\ began' = began /\ stored' = stored
      /\ rest' = rest /\ target' = target /\ current' = current /\ draftY' = draftY
      /\ hidden' = hidden /\ ready' = ready /\ stats' = stats
  BY <1>1 DEF fixed
<1>5. /\ current \in Seq(Tokens) /\ Len(current) = 1 /\ target \o current = Read
      /\ prev \o draftY = History /\ drafter \o draftY = DrafterRead
      /\ draftY # <<>> /\ Last(draftY) = current[1]
      /\ Len(out) < MaxTokens
  BY <1>1 DEF AtDraft
<1>6. /\ drafter \in Seq(Tokens) /\ DrafterRead \in Seq(Tokens) /\ Pieces = Tokens
      /\ prev \in Seq(Tokens) /\ draftY \in Seq(Tokens) /\ target \in Seq(Tokens)
      /\ setup.num \in Nat \ {0} /\ MaxTokens \in Nat /\ Len(out) \in Nat
  <2>1. ~Is("mtp")
    BY <1>1 DEF Is
  <2> QED BY <2>1, Texts, LenProperties DEF Typed, Pieces
<1>7. num \in Nat \ {0} /\ num <= setup.num
  <2>1. MaxTokens - Len(out) \in Int /\ setup.num \in Int
    BY <1>6
  <2>2. num = IF MaxTokens - Len(out) <= setup.num THEN MaxTokens - Len(out) ELSE setup.num
    BY <1>2, <2>1, LesserOf, Zenon
  <2> QED BY <1>5, <1>6, <2>2
<1>8. /\ d \in Seq(Tokens) /\ Len(d) = num
  BY <1>7, FunctionSeq
<1>9. PICK f : f = Front(d)
  OBVIOUS
<1>10. f \in Seq(Tokens) /\ Len(f) = num - 1
  <2>1. d # <<>>
    BY <1>7, <1>8
  <2> QED BY <1>8, <1>9, <2>1, FrontLast
<1>11. drafter' = DrafterRead \o f /\ drafter' \in Seq(Tokens)
  <2>1. drafter \o (draftY \o f) = (drafter \o draftY) \o f
    <3>1. drafter \in Seq(Tokens) /\ draftY \in Seq(Tokens) /\ f \in Seq(Tokens)
      BY <1>6, <1>10
    <3> QED BY <3>1, ConcatAssociative
  <2>2. DrafterRead \o f \in Seq(Tokens)
    BY <1>6, <1>10, ConcatType
  <2> QED BY <1>3, <1>5, <1>9, <2>1, <2>2
<1>12. prev' \in Seq(Tokens) /\ prev' \o current = History
  <2>1. PICK a : a = Front(draftY)
    OBVIOUS
  <2>2. current = <<current[1]>> /\ current[1] \in Tokens
    <3>1. current = <<Last(current)>> /\ current[1] = Last(current) /\ current[1] \in Tokens
      BY <1>5, OneElement
    <3> QED BY <3>1, Zenon
  <2>3. draftY = a \o current /\ a \in Seq(Tokens)
    <3>1. draftY = a \o <<Last(draftY)>> /\ a \in Seq(Tokens)
      BY <1>5, <1>6, <2>1, FrontLast
    <3> QED BY <1>5, <2>2, <3>1, Zenon
  <2>4. PICK b : b = current \o f
    OBVIOUS
  <2>5. b \in Seq(Tokens) /\ Len(b) = num
    <3>1. current \in Seq(Tokens) /\ f \in Seq(Tokens)
      BY <1>5, <1>10
    <3>2. b \in Seq(Tokens) /\ Len(b) = Len(current) + Len(f)
      BY <2>4, <3>1, ConcatType
    <3> QED BY <1>5, <1>7, <1>10, <3>2
  <2>6. PICK p : p = prev \o a
    OBVIOUS
  <2>7. p \in Seq(Tokens)
    BY <1>6, <2>3, <2>6, ConcatType
  <2>8. prev \o (draftY \o f) = p \o b
    <3>0. /\ current \in Seq(Tokens) /\ f \in Seq(Tokens) /\ a \in Seq(Tokens)
          /\ b \in Seq(Tokens) /\ prev \in Seq(Tokens)
      BY <1>5, <1>6, <1>10, <2>3, <2>5
    <3>1. (a \o current) \o f = a \o b
      BY <2>4, <3>0, ConcatAssociative
    <3>2. prev \o (a \o b) = p \o b
      BY <2>6, <3>0, ConcatAssociative
    <3> QED BY <2>3, <3>1, <3>2, Zenon
  <2>9. DropLast(p \o b, num) = p
    BY <2>5, <2>7, StartOfConcat
  <2>10. Len(current) + num - 1 = num
    BY <1>5, <1>7
  <2>11. prev' = p
    BY <1>3, <1>9, <2>8, <2>9, <2>10, Zenon
  <2>12. p \o current = prev \o (a \o current)
    <3>1. current \in Seq(Tokens) /\ a \in Seq(Tokens) /\ prev \in Seq(Tokens)
      BY <1>5, <1>6, <2>3
    <3> QED BY <2>6, <3>1, ConcatAssociative
  <2> QED BY <1>5, <2>3, <2>7, <2>11, <2>12, Zenon
<1>13. round' \in Rounds /\ round'.n <= round'.num /\ round'.num <= setup.num
  <2>1. round' \in Rounds
    BY <1>3, <1>7, <1>8, EmptySeq DEF Rounds
  <2> QED BY <1>3, <1>7, <2>1
<1>14. Typed'
  <2>1. phase' \in Phases
    BY <1>1 DEF Phases
  <2> QED BY <1>1, <1>4, <1>6, <1>11, <1>12, <1>13, <2>1, StillTyped, Zenon DEF Typed, Counts
<1>15. Begun'
  BY <1>1, StillBegun
<1>16. /\ Read' = Read /\ History' = History /\ DrafterRead' = DrafterRead
       /\ \A m : Is(m)' = Is(m) /\ (HistoryWhole => HistoryWhole')
  BY <1>1, <1>4, SameTexts
<1>17. AtVerify'
  <2>1. Len(round'.drafts) = round'.num /\ round'.num > 0 /\ round'.n = 0 /\ round'.drafts = d
    BY <1>3, <1>7, <1>8
  <2>2. Front(round.drafts)' = f
    BY <1>9, <2>1
  <2> QED BY <1>1, <1>4, <1>5, <1>11, <1>12, <1>16, <2>1, <2>2, Zenon DEF AtVerify
<1>18. Simulated
  BY <1>1, <1>4 DEF Simulated
<1> QED BY <1>1, <1>14, <1>15, <1>16, <1>17, <1>18, OtherPhases

(* The samples of a round, as the target model made them. *)
SampledRound(d, s, r, h) ==
  [i \in 1..Len(d) + 1 |-> Sampled(s[i], r \o SubSeq(d, 1, i - 1), h \o SubSeq(s, 1, i - 1))]

(* What the verification samples behind each proposal. *)
LEMMA SamplesOfRound ==
  ASSUME NEW d \in Seq(Tokens), NEW s \in [1..Len(d) + 1 -> Tokens],
         NEW r \in Seq(Tokens), NEW h \in Seq(Tokens)
  PROVE  /\ SampledRound(d, s, r, h) \in Seq(Samples)
         /\ Len(SampledRound(d, s, r, h)) = Len(d) + 1
         /\ Values(SampledRound(d, s, r, h)) = s
         /\ \A i \in 1..Len(d) + 1 :
              /\ SampledRound(d, s, r, h)[i].given = r \o SubSeq(d, 1, i - 1)
              /\ SampledRound(d, s, r, h)[i].seen = h \o SubSeq(s, 1, i - 1)
              /\ SampledRound(d, s, r, h)[i].token = s[i]
<1> PICK n \in Nat : n = Len(d)
  BY LenProperties
<1> PICK tokens : tokens = SampledRound(d, s, r, h)
  OBVIOUS
<1> USE DEF SampledRound
<1>1. s \in Seq(Tokens) /\ Len(s) = n + 1 /\ \A i \in 1..n + 1 : s[i] \in Tokens
  <2>1. n + 1 \in Nat
    OBVIOUS
  <2> QED BY <2>1, FunctionSeq
<1>2. ASSUME NEW i \in 1..n + 1
      PROVE  Sampled(s[i], r \o SubSeq(d, 1, i - 1), h \o SubSeq(s, 1, i - 1)) \in Samples
  <2>1. i - 1 \in 0..Len(d) /\ i - 1 \in 0..Len(s)
    BY <1>1
  <2>2. SubSeq(d, 1, i - 1) \in Seq(Tokens) /\ SubSeq(s, 1, i - 1) \in Seq(Tokens)
    BY <1>1, <2>1, FirstPart
  <2>3. PICK x, y : x = SubSeq(d, 1, i - 1) /\ y = SubSeq(s, 1, i - 1)
    OBVIOUS
  <2>4. r \o x \in Seq(Tokens) /\ h \o y \in Seq(Tokens)
    BY <2>2, <2>3, ConcatType
  <2>5. s[i] \in Tokens
    BY <1>1
  <2> QED BY <2>3, <2>4, <2>5 DEF Sampled, Samples
<1>3. DOMAIN tokens = 1..n + 1 /\ tokens \in [1..n + 1 -> Samples]
  BY <1>2
<1>4. tokens \in Seq(Samples) /\ Len(tokens) = n + 1
  <2>1. tokens \in Seq(Samples)
    <3>1. \A m \in Nat : \A f \in [1..m -> Samples] : f \in Seq(Samples)
      BY DEF Seq
    <3>2. n + 1 \in Nat
      OBVIOUS
    <3> HIDE DEF SampledRound
    <3> QED BY <1>3, <3>1, <3>2, Zenon
  <2> QED BY <1>3, <2>1, LenProperties
<1>5. ASSUME NEW i \in 1..n + 1
      PROVE  /\ tokens[i].given = r \o SubSeq(d, 1, i - 1)
             /\ tokens[i].seen = h \o SubSeq(s, 1, i - 1)
             /\ tokens[i].token = s[i]
  <2>1. tokens[i] = Sampled(s[i], r \o SubSeq(d, 1, i - 1), h \o SubSeq(s, 1, i - 1))
    OBVIOUS
  <2> QED BY <2>1, Zenon DEF Sampled
<1>6. Values(tokens) = s
  <2>1. Values(tokens) = [i \in 1..n + 1 |-> tokens[i].token]
    BY <1>3 DEF Values
  <2> QED BY <1>5, <2>1
<1> QED BY <1>4, <1>5, <1>6

(* Verification keeps the invariant: a token is sampled behind every *)
(* proposal.                                                         *)
LEMMA VerifyKeeps ==
  ASSUME IInv, Verify
  PROVE  IInv' /\ Simulated
<1> USE DEF IInv
<1>1. /\ phase = "verify" /\ Is("draft") /\ phase' = "yield" /\ suspended' = FALSE /\ out' = out
      /\ UNCHANGED <<fixed, rest, drafter, current, draftY, hidden, ready, stats>>
  BY DEF Verify, Running
<1>2. PICK d, r, h : d = round.drafts /\ r = target \o current /\ h = prev \o current
  OBVIOUS
<1>3. PICK s \in [1..round.num + 1 -> Tokens] :
        /\ round' = [round EXCEPT !.tokens =
                       [i \in DOMAIN s |-> Sampled(s[i], r \o SubSeq(d, 1, i - 1),
                                                         h \o SubSeq(s, 1, i - 1))]]
        /\ prev' = h \o SubSeq(s, 1, round.num)
        /\ target' = r \o d
  BY <1>2, Zenon DEF Verify
<1>4. /\ setup' = setup /\ turn' = turn /\ prompt' = prompt /\ began' = began /\ stored' = stored
      /\ rest' = rest /\ drafter' = drafter /\ current' = current /\ draftY' = draftY
      /\ hidden' = hidden /\ ready' = ready /\ stats' = stats
  BY <1>1 DEF fixed
<1>5. /\ r = Read /\ h = History /\ Len(d) = round.num /\ round.num > 0 /\ round.n = 0
      /\ drafter = DrafterRead \o Front(d) /\ Len(out) < MaxTokens
  BY <1>1, <1>2 DEF AtVerify
<1>6. /\ r \in Seq(Tokens) /\ h \in Seq(Tokens) /\ DrafterRead \in Seq(Tokens)
      /\ turn > 0 /\ ~Is("mtp")
  <2>1. ~Is("mtp")
    BY <1>1 DEF Is
  <2>2. turn > 0
    BY <1>1 DEF Begun, Typed
  <2> QED BY <1>5, <2>1, <2>2, Texts
<1>7. /\ round \in Rounds /\ d \in Seq(Tokens) /\ round.num \in Nat /\ round.num <= setup.num
  BY <1>2 DEF Typed, Rounds
<1>8. PICK tokens : tokens = [i \in 1..round.num + 1 |->
                               Sampled(s[i], r \o SubSeq(d, 1, i - 1), h \o SubSeq(s, 1, i - 1))]
  OBVIOUS
<1>9. /\ tokens \in Seq(Samples) /\ Len(tokens) = round.num + 1 /\ Values(tokens) = s
      /\ \A i \in 1..round.num + 1 : /\ tokens[i].given = r \o SubSeq(d, 1, i - 1)
                                     /\ tokens[i].seen = h \o SubSeq(s, 1, i - 1)
  <2>1. s \in [1..Len(d) + 1 -> Tokens]
    BY <1>5
  <2>2. tokens = SampledRound(d, s, r, h)
    BY <1>5, <1>8, Zenon DEF SampledRound
  <2> HIDE DEF IInv
  <2>3. /\ SampledRound(d, s, r, h) \in Seq(Samples)
        /\ Len(SampledRound(d, s, r, h)) = Len(d) + 1
        /\ Values(SampledRound(d, s, r, h)) = s
        /\ \A i \in 1..Len(d) + 1 :
             /\ SampledRound(d, s, r, h)[i].given = r \o SubSeq(d, 1, i - 1)
             /\ SampledRound(d, s, r, h)[i].seen = h \o SubSeq(s, 1, i - 1)
             /\ SampledRound(d, s, r, h)[i].token = s[i]
    BY <1>6, <1>7, <2>1, SamplesOfRound, Zenon
  <2> QED BY <1>5, <2>2, <2>3, Zenon
<1>10. /\ round' \in Rounds /\ round'.tokens = tokens /\ round'.drafts = d
       /\ round'.num = round.num /\ round'.n = 0
  <2>1. DOMAIN s = 1..round.num + 1
    OBVIOUS
  <2>2. round' = [round EXCEPT !.tokens = tokens]
    BY <1>3, <1>8, <2>1
  <2> QED BY <1>2, <1>5, <1>7, <1>9, <2>2 DEF Rounds
<1>11. target' \in Seq(Tokens) /\ prev' \in Seq(Tokens)
  <2>1. s \in Seq(Tokens) /\ round.num \in 0..Len(s)
    <3>1. round.num + 1 \in Nat
      BY <1>7
    <3>2. s \in Seq(Tokens) /\ Len(s) = round.num + 1
      BY <3>1, FunctionSeq
    <3> QED BY <1>7, <3>2
  <2>2. PICK x : x = SubSeq(s, 1, round.num)
    OBVIOUS
  <2>3. x \in Seq(Tokens)
    BY <2>1, <2>2, FirstPart
  <2>4. h \o x \in Seq(Tokens)
    BY <1>6, <2>3, ConcatType
  <2>5. r \o d \in Seq(Tokens)
    BY <1>6, <1>7, ConcatType
  <2> QED BY <1>3, <2>2, <2>4, <2>5
<1>12. Typed'
  <2>1. phase' \in Phases
    BY <1>1 DEF Phases
  <2>2. round'.n <= round'.num /\ round'.num <= setup.num
    BY <1>7, <1>10
  <2> QED BY <1>1, <1>4, <1>10, <1>11, <2>1, <2>2, StillTyped, Zenon DEF Typed, Counts
<1>13. Begun'
  BY <1>1, <1>6, StillBegun DEF Is
<1>14. /\ Read' = Read /\ History' = History /\ DrafterRead' = DrafterRead
       /\ \A m : Is(m)' = Is(m) /\ (HistoryWhole => HistoryWhole')
  BY <1>1, <1>4, SameTexts
<1>15. RoundFrom(r, h, DrafterRead)'
  <2>1. Yields' = <<>>
    <3>1. Correction' = <<>>
      BY <1>1 DEF Correction
    <3>2. SubSeq(d, 1, 0) = <<>> /\ <<>> \o <<>> = <<>>
      BY <1>7, WholeSeq, EmptySeq
    <3> QED BY <1>10, <3>1, <3>2, Zenon DEF Yields
  <2>2. /\ Read' = r \o Yields' /\ History' = h \o Yields'
        /\ DrafterRead' = DrafterRead' \o Yields'
    <3>1. r \o <<>> = r /\ h \o <<>> = h /\ DrafterRead \o <<>> = DrafterRead
      BY <1>6, WholeSeq
    <3> QED BY <1>5, <1>14, <2>1, <3>1, Zenon
  <2>3. /\ Len(d) = round'.num /\ round'.num > 0 /\ Len(tokens) = round'.num + 1
        /\ \A i \in 1..round'.n : tokens[i].token = d[i]
    BY <1>5, <1>9, <1>10
  <2>4. Values(round.tokens)' = s
    BY <1>9, <1>10 DEF Values
  <2>5. \A i \in 1..round'.num + 1 :
          /\ tokens[i].given = r \o SubSeq(d, 1, i - 1)
          /\ tokens[i].seen = h \o SubSeq(Values(round.tokens)', 1, i - 1)
    BY <1>9, <1>10, <2>4
  <2>6. /\ target' = r \o d /\ prev' = h \o SubSeq(Values(round.tokens)', 1, round'.num)
        /\ drafter' = DrafterRead' \o Front(d)
    BY <1>3, <1>4, <1>5, <1>10, <1>14, <2>4
  <2> QED BY <1>10, <2>2, <2>3, <2>5, <2>6, Zenon DEF RoundFrom
<1>16. InRound'
  <2>1. DrafterRead' \in Seq(Tokens)
    BY <1>6, <1>14
  <2> QED BY <1>6, <1>15, <2>1, Zenon DEF InRound
<1>17. Simulated
  BY <1>1, <1>4 DEF Simulated
<1>18. ~Is("mtp")'
  BY <1>6, <1>14
<1> QED BY <1>1, <1>12, <1>13, <1>14, <1>16, <1>17, <1>18, OtherPhases

(* The first samples of a round are the proposals that were yielded. *)
LEMMA AgreedStart ==
  ASSUME Typed, NEW r, NEW h, NEW q, RoundFrom(r, h, q)
  PROVE  /\ round.n \in 0..round.num /\ round.num \in Nat \ {0}
         /\ round.drafts \in Seq(Tokens) /\ Len(round.drafts) = round.num
         /\ round.tokens \in Seq(Samples) /\ Len(round.tokens) = round.num + 1
         /\ Values(round.tokens) \in Seq(Tokens) /\ Len(Values(round.tokens)) = round.num + 1
         /\ \A m \in 0..round.n :
              SubSeq(Values(round.tokens), 1, m) = SubSeq(round.drafts, 1, m)
<1>1. /\ round.n \in 0..round.num /\ round.num \in Nat \ {0}
      /\ round.drafts \in Seq(Tokens) /\ Len(round.drafts) = round.num
      /\ round.tokens \in Seq(Samples) /\ Len(round.tokens) = round.num + 1
      /\ \A i \in 1..round.n : round.tokens[i].token = round.drafts[i]
  BY DEF Typed, RoundFrom
<1>2. /\ Values(round.tokens) \in Seq(Tokens) /\ Len(Values(round.tokens)) = round.num + 1
      /\ \A i \in 1..round.num + 1 : Values(round.tokens)[i] = round.tokens[i].token
  BY <1>1, ValuesProperties
<1>3. ASSUME NEW m \in 0..round.n
      PROVE  SubSeq(Values(round.tokens), 1, m) = SubSeq(round.drafts, 1, m)
  <2>1. PICK v, d : v = Values(round.tokens) /\ d = round.drafts
    OBVIOUS
  <2>2. /\ v \in Seq(Tokens) /\ d \in Seq(Tokens) /\ m \in 0..Len(v) /\ m \in 0..Len(d)
        /\ \A i \in 1..m : v[i] = d[i]
    <3>1. \A i \in 1..m : i \in 1..round.n /\ i \in 1..round.num + 1
      BY <1>1
    <3>2. \A i \in 1..m : v[i] = d[i]
      BY <1>1, <1>2, <2>1, <3>1, Zenon
    <3>3. m \in 0..round.num + 1 /\ m \in 0..round.num
      BY <1>1
    <3> QED BY <1>1, <1>2, <2>1, <3>2, <3>3, Zenon
  <2>3. /\ SubSeq(v, 1, m) \in Seq(Tokens) /\ Len(SubSeq(v, 1, m)) = m
        /\ \A i \in 1..m : SubSeq(v, 1, m)[i] = v[i]
    BY <2>2, FirstPart
  <2>4. /\ SubSeq(d, 1, m) \in Seq(Tokens) /\ Len(SubSeq(d, 1, m)) = m
        /\ \A i \in 1..m : SubSeq(d, 1, m)[i] = d[i]
    BY <2>2, FirstPart
  <2>5. \A i \in 1..m : SubSeq(v, 1, m)[i] = SubSeq(d, 1, m)[i]
    BY <2>2, <2>3, <2>4
  <2> QED BY <2>1, <2>3, <2>4, <2>5, SeqEqual
<1> QED BY <1>1, <1>2, <1>3

(* What a round yields next was sampled behind all that was yielded. *)
LEMMA RightInRound ==
  ASSUME Typed, Begun, Is("draft"), phase = "yield",
         NEW r \in Seq(Tokens), NEW h \in Seq(Tokens), NEW q \in Seq(Tokens), RoundFrom(r, h, q),
         Len(out) < MaxTokens, Yielded(round.tokens[round.n + 1])
  PROVE  RightYield(round.tokens[round.n + 1]) /\ Yields = SubSeq(round.drafts, 1, round.n)
<1>1. PICK d, n, v : d = round.drafts /\ n = round.n /\ v = Values(round.tokens)
  OBVIOUS
<1>2. /\ n \in 0..round.num /\ round.num \in Nat \ {0} /\ d \in Seq(Tokens) /\ Len(d) = round.num
      /\ round.tokens \in Seq(Samples) /\ Len(round.tokens) = round.num + 1
      /\ SubSeq(v, 1, n) = SubSeq(d, 1, n)
  <2>1. round.n \in 0..round.n
    BY AgreedStart
  <2> QED BY <1>1, <2>1, AgreedStart
<1>3. n + 1 \in 1..round.num + 1 /\ n + 1 - 1 = n /\ n \in 0..Len(d)
  BY <1>2
<1>4. round.tokens[n + 1] \in Samples
  BY <1>2, <1>3, ElementOfSeq
<1>5. SubSeq(d, 1, n) \in Seq(Tokens)
  BY <1>2, <1>3, FirstPart
<1>6. Yields = SubSeq(d, 1, n)
  <2>1. Correction = <<>>
    BY DEF Correction
  <2>2. SubSeq(d, 1, n) \o <<>> = SubSeq(d, 1, n)
    BY <1>5, WholeSeq
  <2> QED BY <1>1, <2>1, <2>2, Zenon DEF Yields
<1>7. /\ round.tokens[n + 1].given = r \o SubSeq(d, 1, n)
      /\ round.tokens[n + 1].seen = h \o SubSeq(v, 1, n)
  <2>1. \A i \in 1..round.num + 1 :
          /\ round.tokens[i].given = r \o SubSeq(d, 1, i - 1)
          /\ round.tokens[i].seen = h \o SubSeq(v, 1, i - 1)
    BY <1>1, Zenon DEF RoundFrom
  <2>2. PICK k \in 1..round.num + 1 : k = n + 1
    BY <1>3
  <2>3. k - 1 = n
    BY <1>2, <2>2
  <2>4. /\ round.tokens[k].given = r \o SubSeq(d, 1, k - 1)
        /\ round.tokens[k].seen = h \o SubSeq(v, 1, k - 1)
    BY <2>1
  <2>5. /\ round.tokens[k].given = r \o SubSeq(d, 1, n)
        /\ round.tokens[k].seen = h \o SubSeq(v, 1, n)
    BY <2>3, <2>4
  <2> QED BY <2>2, <2>5
<1>8. round.tokens[n + 1].given = Read /\ round.tokens[n + 1].seen = History
  <2>1. Read = r \o Yields /\ History = h \o Yields
    BY DEF RoundFrom
  <2> QED BY <1>2, <1>6, <1>7, <2>1, Zenon
<1> QED BY <1>1, <1>4, <1>6, <1>8 DEF RightYield

(* It does not matter which of three sequences are put together first. *)
LEMMA OneBehindAnother ==
  ASSUME NEW T, NEW next \in Seq(T), NEW right \in Seq(T)
  PROVE  \A left \in Seq(T) : (left \o next) \o right = left \o (next \o right)
<1>1. TAKE left \in Seq(T)
<1> QED BY ConcatAssociative

(* A round goes on with one more token yielded: y is what it yielded. *)
LEMMA RoundGoesOn ==
  ASSUME Typed, Begun, turn > 0, HistoryWhole, UNCHANGED <<fixed, target, prev, drafter>>,
         Is("draft"), NEW x, RightYield(x),
         NEW r \in Seq(Tokens), NEW h \in Seq(Tokens), NEW q \in Seq(Tokens), RoundFrom(r, h, q),
         Yields \in Seq(Tokens), Yields' = Yields \o <<x.token>>,
         round'.drafts = round.drafts, round'.tokens = round.tokens, round'.num = round.num,
         \A i \in 1..round'.n : round.tokens[i].token = round.drafts[i]
  PROVE  InRound'
<1>1. setup' = setup /\ turn' = turn /\ prompt' = prompt /\ began' = began
      /\ target' = target /\ prev' = prev /\ drafter' = drafter
  BY DEF fixed
<1>2. /\ x.token \in Tokens /\ Read' = Read \o <<x.token>> /\ History' = History \o <<x.token>>
      /\ DrafterRead' = DrafterRead \o <<x.token>>
  BY <1>1, YieldTexts DEF Is
<1>3. Read = r \o Yields /\ History = h \o Yields /\ DrafterRead = q \o Yields
  BY DEF RoundFrom
<1>4. PICK y, e : y = Yields /\ e = <<x.token>>
  OBVIOUS
<1>5. y \in Seq(Tokens) /\ e \in Seq(Tokens)
  BY <1>2, <1>4
<1>6. /\ (r \o y) \o e = r \o (y \o e) /\ (h \o y) \o e = h \o (y \o e)
      /\ (q \o y) \o e = q \o (y \o e)
  <2>1. r \in Seq(Tokens) /\ h \in Seq(Tokens) /\ q \in Seq(Tokens)
    OBVIOUS
  <2>2. \A a \in Seq(Tokens) : (a \o y) \o e = a \o (y \o e)
    BY <1>5, OneBehindAnother, Zenon
  <2> QED BY <2>1, <2>2, Zenon
<1>7. Read' = r \o Yields' /\ History' = h \o Yields' /\ DrafterRead' = q \o Yields'
  BY <1>2, <1>3, <1>4, <1>6, Zenon
<1>8. Values(round.tokens)' = Values(round.tokens)
  BY DEF Values
<1>9. RoundFrom(r, h, q)'
  <2>1. Len(round'.drafts) = round'.num /\ round'.num > 0 /\ Len(round'.tokens) = round'.num + 1
    BY DEF RoundFrom
  <2>2. \A i \in 1..round'.n : round'.tokens[i].token = round'.drafts[i]
    BY Zenon
  <2>3. \A i \in 1..round'.num + 1 :
          /\ round'.tokens[i].given = r \o SubSeq(round'.drafts, 1, i - 1)
          /\ round'.tokens[i].seen = h \o SubSeq(Values(round.tokens)', 1, i - 1)
    BY <1>8, Zenon DEF RoundFrom
  <2>4. /\ target' = r \o round'.drafts
        /\ prev' = h \o SubSeq(Values(round.tokens)', 1, round'.num)
        /\ drafter' = q \o Front(round'.drafts)
    BY <1>1, <1>8, Zenon DEF RoundFrom
  <2> QED BY <1>7, <2>1, <2>2, <2>3, <2>4, Zenon DEF RoundFrom
<1> QED BY <1>9, Zenon DEF InRound

(* An accepted proposal was sampled from what was yielded, as those before *)
(* it agree.                                                               *)
LEMMA YieldAcceptedKeeps ==
  ASSUME IInv, YieldAccepted
  PROVE  IInv' /\ Simulated
<1> USE DEF IInv
<1>1. /\ phase = "yield" /\ phase' = phase /\ Is("draft") /\ Agrees /\ Len(out) < MaxTokens
      /\ Yielded(round.tokens[round.n + 1])
      /\ round' = [round EXCEPT !.n = @ + 1]
      /\ UNCHANGED <<fixed, rest, target, drafter, prev, current, draftY, hidden, ready, stats>>
  BY DEF YieldAccepted
<1>2. /\ setup' = setup /\ turn' = turn /\ prompt' = prompt /\ began' = began /\ stored' = stored
      /\ rest' = rest /\ target' = target /\ drafter' = drafter /\ prev' = prev
      /\ current' = current /\ draftY' = draftY /\ hidden' = hidden /\ ready' = ready
      /\ stats' = stats
  BY <1>1 DEF fixed
<1>3. PICK r \in Seq(Tokens), h \in Seq(Tokens), q \in Seq(Tokens) : RoundFrom(r, h, q)
  BY <1>1 DEF InRound
<1>4. turn > 0 /\ ~Is("mtp")
  BY <1>1 DEF Begun, Typed, Is
<1>5. /\ round.n \in 0..round.num /\ round.num \in Nat \ {0}
      /\ round.drafts \in Seq(Tokens) /\ Len(round.drafts) = round.num
      /\ round.n < round.num
      /\ round.tokens[round.n + 1].token = round.drafts[round.n + 1]
      /\ \A i \in 1..round.n : round.tokens[i].token = round.drafts[i]
  <2>1. \A i \in 1..round.n : round.tokens[i].token = round.drafts[i]
    BY <1>3, Zenon DEF RoundFrom
  <2>2. /\ round.n < round.num
        /\ round.tokens[round.n + 1].token = round.drafts[round.n + 1]
    BY <1>1 DEF Agrees
  <2> QED BY <1>3, <2>1, <2>2, AgreedStart, Zenon
<1>6. PICK x : x = round.tokens[round.n + 1]
  OBVIOUS
<1>7. RightYield(x) /\ Yields = SubSeq(round.drafts, 1, round.n)
  BY <1>1, <1>3, <1>6, RightInRound, Zenon
<1>8. round' \in Rounds /\ round'.drafts = round.drafts /\ round'.tokens = round.tokens
      /\ round'.num = round.num /\ round'.n = round.n + 1
  <2>1. round \in Rounds
    BY DEF Typed, Rounds
  <2> QED BY <1>1, <1>5, <2>1 DEF Rounds
<1>9. Yields' = Yields \o <<x.token>> /\ Yields \in Seq(Tokens)
  <2>1. PICK d, n : d = round.drafts /\ n = round.n
    OBVIOUS
  <2>2. n \in 0..Len(d) - 1 /\ n \in 0..Len(d) /\ n + 1 \in 0..Len(d) /\ d \in Seq(Tokens)
    BY <1>5, <2>1
  <2>3. SubSeq(d, 1, n + 1) = SubSeq(d, 1, n) \o <<d[n + 1]>>
    BY <2>2, OneMore
  <2>4. SubSeq(d, 1, n) \in Seq(Tokens) /\ SubSeq(d, 1, n + 1) \in Seq(Tokens)
    BY <2>2, FirstPart
  <2>5. SubSeq(d, 1, n + 1) \o <<>> = SubSeq(d, 1, n + 1)
    BY <2>4, WholeSeq
  <2>6. Correction' = <<>>
    BY <1>1 DEF Correction
  <2>7. Yields' = SubSeq(d, 1, n + 1)
    BY <1>8, <2>1, <2>5, <2>6, Zenon DEF Yields
  <2>8. x.token = d[n + 1]
    BY <1>5, <1>6, <2>1
  <2> QED BY <1>7, <2>1, <2>3, <2>4, <2>7, <2>8, Zenon
<1>10. \A i \in 1..round'.n : round.tokens[i].token = round.drafts[i]
  <2> TAKE i \in 1..round'.n
  <2>1. i \in 1..round.n \/ i = round.n + 1
    BY <1>5, <1>8
  <2> QED BY <1>5, <2>1, Zenon
<1>11. InRound'
  BY <1>1, <1>2, <1>3, <1>4, <1>7, <1>8, <1>9, <1>10, RoundGoesOn, Zenon
<1>12. /\ out' \in Seq(Samples) /\ Len(out') <= MaxTokens /\ out' # <<>> /\ suspended' = TRUE
       /\ \A m : Is(m)' = Is(m)
       /\ HistoryWhole'
  BY <1>2, <1>4, <1>7, YieldTexts
<1>13. Typed'
  <2>1. round'.n <= round'.num /\ round'.num <= setup.num
    <3>1. PICK n, k, l, m : n = round.n /\ k = round.num /\ l = setup.num /\ m = round'.n
      OBVIOUS
    <3>2. n \in Nat /\ k \in Nat /\ n < k /\ m = n + 1
      BY <1>5, <1>8, <3>1
    <3>3. m <= k
      BY <3>2
    <3>4. k <= l
      BY <3>1 DEF Typed
    <3> QED BY <1>8, <3>1, <3>3, <3>4, Zenon
  <2> QED BY <1>1, <1>2, <1>8, <1>12, <2>1, StillTyped, Zenon DEF Typed, Counts
<1>14. Begun'
  <2>1. ~Is("plain")
    BY <1>1 DEF Is
  <2> QED BY <1>1, <1>12, <2>1, StillBegun
<1>15. Simulated
  BY <1>1, <1>2, <1>7 DEF Simulated
<1>16. ~Is("mtp")'
  BY <1>4, <1>12
<1> QED BY <1>1, <1>11, <1>12, <1>13, <1>14, <1>15, <1>16, OtherPhases

(* So was the token of the target model that ends a round. *)
LEMMA YieldTargetKeeps ==
  ASSUME IInv, YieldTarget
  PROVE  IInv' /\ Simulated
<1> USE DEF IInv
<1>1. /\ phase = "yield" /\ phase' = "rewind" /\ Is("draft") /\ Len(out) < MaxTokens
      /\ Yielded(round.tokens[round.n + 1])
      /\ UNCHANGED <<fixed, rest, target, drafter, prev, loop>>
  BY DEF YieldTarget
<1>2. /\ setup' = setup /\ turn' = turn /\ prompt' = prompt /\ began' = began /\ stored' = stored
      /\ rest' = rest /\ target' = target /\ drafter' = drafter /\ prev' = prev
      /\ current' = current /\ draftY' = draftY /\ hidden' = hidden /\ ready' = ready
      /\ stats' = stats /\ round' = round
  BY <1>1 DEF fixed, loop
<1>3. PICK r \in Seq(Tokens), h \in Seq(Tokens), q \in Seq(Tokens) : RoundFrom(r, h, q)
  BY <1>1 DEF InRound
<1>4. turn > 0 /\ ~Is("mtp")
  BY <1>1 DEF Begun, Typed, Is
<1>5. /\ round.n \in 0..round.num /\ round.drafts \in Seq(Tokens)
      /\ Len(round.drafts) = round.num
      /\ \A i \in 1..round.n : round.tokens[i].token = round.drafts[i]
  <2>1. \A i \in 1..round.n : round.tokens[i].token = round.drafts[i]
    BY <1>3, Zenon DEF RoundFrom
  <2> QED BY <1>3, <2>1, AgreedStart, Zenon
<1>6. PICK x : x = round.tokens[round.n + 1]
  OBVIOUS
<1>7. RightYield(x) /\ Yields = SubSeq(round.drafts, 1, round.n)
  BY <1>1, <1>3, <1>6, RightInRound, Zenon
<1>8. Yields' = Yields \o <<x.token>> /\ Yields \in Seq(Tokens)
  <2>1. Correction' = <<x.token>>
    BY <1>1, <1>2, <1>6 DEF Correction
  <2>2. SubSeq(round.drafts, 1, round.n) \in Seq(Tokens)
    BY <1>5, FirstPart
  <2> QED BY <1>2, <1>7, <2>1, <2>2, Zenon DEF Yields
<1>9. InRound'
  <2>1. \A i \in 1..round'.n : round.tokens[i].token = round.drafts[i]
    BY <1>2, <1>5, Zenon
  <2> QED BY <1>1, <1>2, <1>3, <1>4, <1>7, <1>8, <2>1, RoundGoesOn, Zenon
<1>10. /\ out' \in Seq(Samples) /\ Len(out') <= MaxTokens /\ out' # <<>> /\ suspended' = TRUE
       /\ \A m : Is(m)' = Is(m)
       /\ HistoryWhole'
  BY <1>2, <1>4, <1>7, YieldTexts
<1>11. Typed'
  <2>1. phase' \in Phases
    BY <1>1 DEF Phases
  <2> QED BY <1>1, <1>2, <1>10, <2>1, StillTyped, Zenon DEF Typed, Rounds, Counts
<1>12. Begun'
  BY <1>1, <1>10, StillBegun DEF Is
<1>13. Simulated
  BY <1>1, <1>2, <1>7 DEF Simulated
<1>14. ~Is("mtp")'
  BY <1>4, <1>10
<1> QED BY <1>1, <1>9, <1>10, <1>11, <1>12, <1>13, <1>14, OtherPhases

(* What _rewind_cache leaves, within a round and behind it. *)
LEMMA Rewound ==
  ASSUME Typed, NEW r \in Seq(Tokens), NEW h \in Seq(Tokens), NEW q \in Seq(Tokens),
         RoundFrom(r, h, q)
  PROVE  LET d == round.drafts
             n == round.n
             last == IF n = round.num THEN Front(d) ELSE SubSeq(d, 1, n)
         IN  /\ RewoundTarget = r \o SubSeq(d, 1, n)
             /\ RewoundDrafter = q \o last
             /\ RewoundPrev = h \o last
<1>1. PICK d, n, v, num : d = round.drafts /\ n = round.n /\ v = Values(round.tokens)
                          /\ num = round.num
  OBVIOUS
<1>2. /\ n \in 0..num /\ num \in Nat \ {0} /\ d \in Seq(Tokens) /\ Len(d) = num
      /\ v \in Seq(Tokens) /\ Len(v) = num + 1
      /\ \A m \in 0..n : SubSeq(v, 1, m) = SubSeq(d, 1, m)
  BY <1>1, AgreedStart, Zenon
<1>3. target = r \o d /\ prev = h \o SubSeq(v, 1, num) /\ drafter = q \o Front(d)
  BY <1>1, Zenon DEF RoundFrom
<1>4. RewoundTarget = r \o SubSeq(d, 1, n)
  <2>1. n \in 0..Len(d)
    BY <1>2
  <2>2. DropLast(r \o d, Len(d) - n) = r \o SubSeq(d, 1, n)
    <3>1. PICK a \in Seq(Tokens) : a = r
      OBVIOUS
    <3>2. d \in Seq(Tokens)
      BY <1>2
    <3>3. DropLast(a \o d, Len(d) - n) = a \o SubSeq(d, 1, n)
      BY <2>1, <3>2, FirstOfConcat
    <3> QED BY <3>1, <3>3, Zenon
  <2> QED BY <1>1, <1>2, <1>3, <2>2, Zenon DEF RewoundTarget
<1>5. PICK f : f = Front(d)
  OBVIOUS
<1>6. f \in Seq(Tokens) /\ Len(f) = num - 1 /\ f = SubSeq(d, 1, num - 1)
  <2>1. d # <<>>
    BY <1>2
  <2>2. Front(d) = SubSeq(d, 1, num - 1)
    BY <1>2 DEF Front
  <2> QED BY <1>2, <1>5, <2>1, <2>2, FrontLast
<1>7. PICK w : w = SubSeq(v, 1, num)
  OBVIOUS
<1>8. w \in Seq(Tokens) /\ Len(w) = num
  <2>1. num \in 0..Len(v)
    BY <1>2
  <2> QED BY <1>2, <1>7, <2>1, FirstPart
<1>9. \A m \in 0..num : SubSeq(w, 1, m) = SubSeq(v, 1, m)
  <2> TAKE m \in 0..num
  <2>1. m \in 0..Len(v) /\ m \in 0..Len(w) /\ num \in 0..Len(v)
    BY <1>2, <1>8
  <2>2. /\ SubSeq(w, 1, m) \in Seq(Tokens) /\ Len(SubSeq(w, 1, m)) = m
        /\ \A i \in 1..m : SubSeq(w, 1, m)[i] = w[i]
    BY <1>8, <2>1, FirstPart
  <2>3. /\ SubSeq(v, 1, m) \in Seq(Tokens) /\ Len(SubSeq(v, 1, m)) = m
        /\ \A i \in 1..m : SubSeq(v, 1, m)[i] = v[i]
    BY <1>2, <2>1, FirstPart
  <2>4. \A i \in 1..num : w[i] = v[i]
    BY <1>2, <1>7, <2>1, FirstPart
  <2>5. \A i \in 1..m : SubSeq(w, 1, m)[i] = SubSeq(v, 1, m)[i]
    BY <1>2, <2>2, <2>3, <2>4
  <2> QED BY <2>2, <2>3, <2>5, SeqEqual
<1>10. CASE n = num
  <2>1. RewoundDrafter = q \o f
    <3>1. Max({num - n - 1, 0}) = 0
      <4>1. num - n - 1 \in Int /\ 0 \in Int /\ ~(num - n - 1 >= 0)
        BY <1>2, <1>10
      <4> QED BY <4>1, LesserOf, Zenon
    <3>2. q \o f \in Seq(Tokens)
      BY <1>6, ConcatType
    <3>3. DropLast(q \o f, 0) = q \o f
      BY <3>2, WholeSeq
    <3> QED BY <1>1, <1>3, <1>5, <3>1, <3>3, Zenon DEF RewoundDrafter
  <2>2. RewoundPrev = h \o f
    <3>1. Max({num - n, 1}) = 1
      <4>1. num - n \in Int /\ 1 \in Int /\ ~(num - n >= 1)
        BY <1>2, <1>10
      <4> QED BY <4>1, LesserOf, Zenon
    <3>2. num - 1 \in 0..Len(w) /\ Len(w) - (num - 1) = 1 /\ num - 1 \in 0..n /\ num - 1 \in 0..num
      BY <1>2, <1>8, <1>10
    <3>3. DropLast(h \o w, Len(w) - (num - 1)) = h \o SubSeq(w, 1, num - 1)
      BY <1>8, <3>2, FirstOfConcat
    <3>4. SubSeq(w, 1, num - 1) = f
      BY <1>2, <1>6, <1>9, <3>2, Zenon
    <3> QED BY <1>1, <1>3, <1>7, <3>1, <3>2, <3>3, <3>4, Zenon DEF RewoundPrev
  <2> QED BY <1>1, <1>4, <1>5, <1>10, <2>1, <2>2
<1>11. CASE n # num
  <2>1. RewoundDrafter = q \o SubSeq(d, 1, n)
    <3>1. Max({num - n - 1, 0}) = num - 1 - n
      <4>1. /\ num - n - 1 \in Int /\ 0 \in Int /\ num - n - 1 >= 0
            /\ num - n - 1 = num - 1 - n
        BY <1>2, <1>11
      <4>2. Max({num - n - 1, 0}) = num - n - 1
        BY <4>1, LesserOf, Zenon
      <4> QED BY <4>1, <4>2
    <3>2. n \in 0..Len(f) /\ n \in 0..num - 1 /\ Len(f) = num - 1
      BY <1>2, <1>6, <1>11
    <3>3. DropLast(q \o f, Len(f) - n) = q \o SubSeq(f, 1, n)
      BY <1>6, <3>2, FirstOfConcat
    <3>4. SubSeq(f, 1, n) = SubSeq(d, 1, n)
      <4>1. /\ SubSeq(f, 1, n) \in Seq(Tokens) /\ Len(SubSeq(f, 1, n)) = n
            /\ \A i \in 1..n : SubSeq(f, 1, n)[i] = f[i]
        BY <1>6, <3>2, FirstPart
      <4>2. n \in 0..Len(d) /\ num - 1 \in 0..Len(d)
        BY <1>2
      <4>3. /\ SubSeq(d, 1, n) \in Seq(Tokens) /\ Len(SubSeq(d, 1, n)) = n
            /\ \A i \in 1..n : SubSeq(d, 1, n)[i] = d[i]
        BY <1>2, <4>2, FirstPart
      <4>4. \A i \in 1..num - 1 : f[i] = d[i]
        BY <1>2, <1>6, <4>2, FirstPart
      <4>5. \A i \in 1..n : SubSeq(f, 1, n)[i] = SubSeq(d, 1, n)[i]
        BY <1>2, <3>2, <4>1, <4>3, <4>4
      <4> QED BY <4>1, <4>3, <4>5, SeqEqual
    <3> QED BY <1>1, <1>3, <1>5, <3>1, <3>2, <3>3, <3>4, Zenon DEF RewoundDrafter
  <2>2. RewoundPrev = h \o SubSeq(d, 1, n)
    <3>1. Max({num - n, 1}) = num - n
      <4>1. num - n \in Int /\ 1 \in Int /\ num - n >= 1
        BY <1>2, <1>11
      <4> QED BY <4>1, LesserOf, Zenon
    <3>2. n \in 0..Len(w) /\ n \in 0..n /\ n \in 0..num
      BY <1>2, <1>8
    <3>3. DropLast(h \o w, Len(w) - n) = h \o SubSeq(w, 1, n)
      BY <1>8, <3>2, FirstOfConcat
    <3>4. SubSeq(w, 1, n) = SubSeq(d, 1, n)
      BY <1>2, <1>9, <3>2, Zenon
    <3> QED BY <1>1, <1>3, <1>7, <1>8, <3>1, <3>3, <3>4, Zenon DEF RewoundPrev
  <2> QED BY <1>1, <1>4, <1>11, <2>1, <2>2
<1> QED BY <1>10, <1>11

(* Rewinding keeps the invariant: what was not yielded is gone from caches *)
(* and processors.                                                         *)
LEMMA RewindKeeps ==
  ASSUME IInv, Rewind
  PROVE  IInv' /\ Simulated
<1> USE DEF IInv
<1>1. PICK t : t = round.tokens[round.n + 1].token
  OBVIOUS
<1>2. /\ phase = "rewind" /\ phase' = "draft" /\ Is("draft") /\ Len(out) < MaxTokens
      /\ current' = <<t>>
      /\ draftY' = (IF round.n = round.num THEN <<Last(round.drafts), t>> ELSE <<t>>)
      /\ prev' = RewoundPrev /\ target' = RewoundTarget /\ drafter' = RewoundDrafter
      /\ suspended' = FALSE /\ out' = out
      /\ UNCHANGED <<fixed, rest, round, hidden, ready, stats>>
  BY <1>1 DEF Rewind, Running
<1>3. /\ setup' = setup /\ turn' = turn /\ prompt' = prompt /\ began' = began /\ stored' = stored
      /\ rest' = rest /\ round' = round /\ hidden' = hidden /\ ready' = ready /\ stats' = stats
  BY <1>2 DEF fixed
<1>4. PICK r \in Seq(Tokens), h \in Seq(Tokens), q \in Seq(Tokens) : RoundFrom(r, h, q)
  BY <1>2 DEF InRound
<1>5. PICK d, n : d = round.drafts /\ n = round.n
  OBVIOUS
<1>6. /\ n \in 0..Len(d) /\ d \in Seq(Tokens) /\ Len(d) = round.num /\ round.num \in Nat \ {0}
      /\ round.tokens \in Seq(Samples) /\ Len(round.tokens) = round.num + 1
  BY <1>4, <1>5, AgreedStart
<1>7. t \in Tokens
  <2>1. n + 1 \in 1..Len(round.tokens)
    BY <1>6
  <2>2. round.tokens[n + 1] \in Samples
    BY <1>6, <2>1, ElementOfSeq
  <2> QED BY <1>1, <1>5, <2>2 DEF Samples
<1>8. PICK first, last :
        /\ first = SubSeq(d, 1, n)
        /\ last = IF n = round.num THEN Front(d) ELSE SubSeq(d, 1, n)
  OBVIOUS
<1>9. first \in Seq(Tokens) /\ last \in Seq(Tokens)
  <2>1. SubSeq(d, 1, n) \in Seq(Tokens)
    BY <1>6, FirstPart
  <2>2. d # <<>>
    BY <1>6
  <2>3. Front(d) \in Seq(Tokens)
    BY <1>6, <2>2, FrontLast
  <2> QED BY <1>8, <2>1, <2>3
<1>10. Yields = first \o <<t>>
  <2>1. Correction = <<t>>
    BY <1>1, <1>2 DEF Correction
  <2> QED BY <1>5, <1>8, <2>1 DEF Yields
<1>11. /\ draftY' \in Seq(Tokens) /\ draftY' # <<>> /\ Last(draftY') = t
       /\ last \o draftY' = first \o <<t>>
  <2>1. CASE n = round.num
    <3>1. PICK e, f : e = Last(d) /\ f = Front(d)
      OBVIOUS
    <3>2. d # <<>>
      BY <1>6
    <3>3. f \in Seq(Tokens) /\ e \in Tokens /\ d = f \o <<e>>
      BY <1>6, <3>1, <3>2, FrontLast
    <3>4. first = d /\ last = f
      BY <1>6, <1>8, <2>1, <3>1, SubSeqFull
    <3>5. draftY' = <<e, t>>
      BY <1>2, <1>5, <2>1, <3>1
    <3>6. <<e, t>> \in Seq(Tokens) /\ <<e, t>> # <<>> /\ Last(<<e, t>>) = t
          /\ <<e>> \o <<t>> = <<e, t>> /\ <<e>> \in Seq(Tokens) /\ <<t>> \in Seq(Tokens)
      <4>1. e \in Tokens /\ t \in Tokens
        BY <1>7, <3>3
      <4>2. <<e>> \in Seq(Tokens) /\ <<t>> \in Seq(Tokens) /\ <<e, t>> \in Seq(Tokens)
        BY <4>1
      <4>3. Len(<<e, t>>) = 2 /\ <<e, t>>[2] = t /\ <<e, t>> # <<>>
        OBVIOUS
      <4>4. Last(<<e, t>>) = t
        BY <4>3 DEF Last
      <4>5. <<e>> \o <<t>> = <<e, t>>
        <5>1. PICK a, b, p : a = <<e>> /\ b = <<t>> /\ p = <<e, t>>
          OBVIOUS
        <5>2. /\ a \in Seq(Tokens) /\ b \in Seq(Tokens) /\ p \in Seq(Tokens) /\ Len(a) = 1
              /\ Len(b) = 1 /\ Len(p) = 2 /\ a[1] = p[1] /\ b[1] = p[2]
          BY <4>2, <5>1
        <5>3. /\ a \o b \in Seq(Tokens) /\ Len(a \o b) = 2
              /\ (a \o b)[1] = a[1] /\ (a \o b)[1 + 1] = b[1]
          <6>1. /\ a \o b \in Seq(Tokens) /\ Len(a \o b) = Len(a) + Len(b)
                /\ \A i \in 1..Len(a) : (a \o b)[i] = a[i]
                /\ \A i \in 1..Len(b) : (a \o b)[Len(a) + i] = b[i]
            <7>1. a \in Seq(Tokens) /\ b \in Seq(Tokens)
              BY <5>2
            <7> HIDE DEF IInv
            <7> QED BY <7>1, ConcatType
          <6>2. 1 \in 1..Len(a) /\ 1 \in 1..Len(b)
            BY <5>2
          <6> QED BY <5>2, <6>1, <6>2
        <5>4. \A i \in 1..Len(p) : (a \o b)[i] = p[i]
          BY <5>2, <5>3
        <5>5. a \o b = p
          BY <5>2, <5>3, <5>4, SeqEqual
        <5> QED BY <5>1, <5>5
      <4> QED BY <4>2, <4>3, <4>4, <4>5
    <3>7. (f \o <<e>>) \o <<t>> = f \o (<<e>> \o <<t>>)
      BY <3>3, <3>6, OneBehindAnother
    <3> QED BY <3>3, <3>4, <3>5, <3>6, <3>7, Zenon
  <2>2. CASE n # round.num
    <3>1. draftY' = <<t>> /\ last = first
      BY <1>2, <1>5, <1>8, <2>2
    <3>2. <<t>> \in Seq(Tokens) /\ <<t>> # <<>> /\ Last(<<t>>) = t
      BY <1>7 DEF Last
    <3> QED BY <3>1, <3>2
  <2> QED BY <2>1, <2>2, Zenon
<1>12. /\ target' = r \o first /\ drafter' = q \o last /\ prev' = h \o last
  BY <1>2, <1>4, <1>5, <1>8, Rewound
<1>13. /\ target' \o <<t>> = Read /\ prev' \o draftY' = History /\ drafter' \o draftY' = DrafterRead
  <2>1. Read = r \o Yields /\ History = h \o Yields /\ DrafterRead = q \o Yields
    BY <1>4 DEF RoundFrom
  <2>2. <<t>> \in Seq(Tokens)
    BY <1>7
  <2>3. \A a \in Seq(Tokens) : (a \o first) \o <<t>> = a \o (first \o <<t>>)
    BY <1>9, <2>2, OneBehindAnother, Zenon
  <2>4. \A a \in Seq(Tokens) : (a \o last) \o draftY' = a \o (last \o draftY')
    BY <1>9, <1>11, OneBehindAnother, Zenon
  <2>5. (r \o first) \o <<t>> = r \o (first \o <<t>>)
    BY <1>4, <2>3, Zenon
  <2>6. (h \o last) \o draftY' = h \o (last \o draftY')
    BY <1>4, <2>4, Zenon
  <2>7. (q \o last) \o draftY' = q \o (last \o draftY')
    BY <1>4, <2>4, Zenon
  <2> QED BY <1>10, <1>11, <1>12, <2>1, <2>5, <2>6, <2>7, Zenon
<1>14. target' \in Seq(Tokens) /\ drafter' \in Seq(Tokens) /\ prev' \in Seq(Tokens)
  <2>1. \A a, b \in Seq(Tokens) : a \o b \in Seq(Tokens)
    BY ConcatType
  <2> QED BY <1>4, <1>9, <1>12, <2>1, Zenon
<1>15. /\ current' \in Seq(Tokens) /\ Len(current') = 1 /\ current'[1] = t
       /\ current' \in Seq(Tokens \cup Samples) /\ Len(current') <= 1
  BY <1>2, <1>7
<1>16. Pieces = Tokens /\ ~Is("mtp") /\ ~Is("plain")
  BY <1>2 DEF Pieces, Is
<1>17. Typed'
  <2>1. phase' \in Phases
    BY <1>2 DEF Phases
  <2> QED BY <1>2, <1>3, <1>11, <1>14, <1>15, <1>16, <2>1, StillTyped, Zenon
          DEF Typed, Rounds, Counts
<1>18. Begun'
  BY <1>2, <1>16, StillBegun
<1>19. /\ Read' = Read /\ History' = History /\ DrafterRead' = DrafterRead
       /\ \A m : Is(m)' = Is(m) /\ (HistoryWhole => HistoryWhole')
  BY <1>2, <1>3, SameTexts
<1>20. AtDraft'
  <2>1. target' \o current' = Read' /\ prev' \o draftY' = History'
        /\ drafter' \o draftY' = DrafterRead' /\ Last(draftY') = current'[1]
        /\ Len(out') < MaxTokens
    BY <1>2, <1>11, <1>13, <1>15, <1>19, Zenon
  <2> QED BY <1>11, <1>15, <2>1, Zenon DEF AtDraft
<1>21. Simulated
  BY <1>2, <1>3 DEF Simulated
<1>22. ~Is("mtp")'
  BY <1>16, <1>19
<1> QED BY <1>2, <1>17, <1>18, <1>19, <1>20, <1>21, <1>22, OtherPhases

----------------------------------------
(* The pairs of the layer. *)

(* What the cache of the layer holds. *)
Pair == Tokens \X Nat

(* The pairs of a text. *)
LEMMA PairsProperties ==
  ASSUME NEW w \in Seq(Tokens), NEW m \in Nat
  PROVE  /\ Pairs(w, m) \in Seq(Pair) /\ Len(Pairs(w, m)) = Len(w)
         /\ \A i \in 1..Len(w) : Pairs(w, m)[i] = <<w[i], m + i - 1>>
<1>1. Len(w) \in Nat /\ DOMAIN w = 1..Len(w) /\ \A i \in 1..Len(w) : w[i] \in Tokens
  BY LenProperties, ElementOfSeq
<1>2. Pairs(w, m) = [i \in 1..Len(w) |-> <<w[i], m + i - 1>>]
  BY <1>1 DEF Pairs
<1>3. \A i \in 1..Len(w) : m + i - 1 \in Nat
  BY <1>1
<1>4. \A i \in 1..Len(w) : <<w[i], m + i - 1>> \in Pair
  BY <1>1, <1>3 DEF Pair
<1>5. Pairs(w, m) \in Seq(Pair)
  BY <1>1, <1>2, <1>4
<1> QED BY <1>1, <1>2, <1>5

(* The pairs of a text from a place on. *)
LEMMA LaterProperties ==
  ASSUME NEW text \in Seq(Tokens), NEW f \in Nat \ {0}, NEW n \in Nat,
         f - 1 <= n, n + 1 <= Len(text)
  PROVE  /\ Later(text, f, n) \in Seq(Pair) /\ Len(Later(text, f, n)) = n - f + 1
         /\ n - f + 1 \in Nat
         /\ \A i \in 1..n - f + 1 : Later(text, f, n)[i] = <<text[f + i], f + i - 1>>
<1>1. Len(text) \in Nat /\ \A i \in 1..Len(text) : text[i] \in Tokens
  BY LenProperties, ElementOfSeq
<1>2. n - f + 1 \in Nat
  OBVIOUS
<1>3. \A i \in 1..n - f + 1 : f + i \in 1..Len(text) /\ f + i - 1 \in Nat
  BY <1>1
<1>4. \A i \in 1..n - f + 1 : text[f + i] \in Tokens
  BY <1>1, <1>3, Zenon
<1>5. \A i \in 1..n - f + 1 : <<text[f + i], f + i - 1>> \in Pair
  BY <1>3, <1>4 DEF Pair
<1>6. Later(text, f, n) \in Seq(Pair)
  BY <1>2, <1>5 DEF Later
<1> QED BY <1>2, <1>6 DEF Later

(* Putting in what follows in the text keeps the layer in step. *)
LEMMA LaterGrows ==
  ASSUME NEW text \in Seq(Tokens), NEW f \in Nat \ {0}, NEW n \in Nat, f - 1 <= n,
         NEW w \in Seq(Tokens), n + 1 + Len(w) <= Len(text),
         \A i \in 1..Len(w) : text[n + 1 + i] = w[i]
  PROVE  Later(text, f, n) \o Pairs(w, n + 1) = Later(text, f, n + Len(w))
<1>1. Len(w) \in Nat /\ Len(text) \in Nat /\ n + 1 \in Nat /\ n + Len(w) \in Nat
      /\ n + 1 <= Len(text) /\ f - 1 <= n + Len(w) /\ n + Len(w) + 1 <= Len(text)
  BY LenProperties
<1>2. PICK a, b, c : a = Later(text, f, n) /\ b = Pairs(w, n + 1) /\ c = Later(text, f, n + Len(w))
  OBVIOUS
<1>3. /\ a \in Seq(Pair) /\ Len(a) = n - f + 1 /\ n - f + 1 \in Nat
      /\ \A i \in 1..n - f + 1 : a[i] = <<text[f + i], f + i - 1>>
  BY <1>1, <1>2, LaterProperties
<1>4. /\ b \in Seq(Pair) /\ Len(b) = Len(w)
      /\ \A i \in 1..Len(w) : b[i] = <<w[i], n + 1 + i - 1>>
  BY <1>1, <1>2, PairsProperties
<1>5. /\ c \in Seq(Pair) /\ Len(c) = n + Len(w) - f + 1
      /\ \A i \in 1..n + Len(w) - f + 1 : c[i] = <<text[f + i], f + i - 1>>
  <2>1. PICK m \in Nat : m = n + Len(w)
    BY <1>1
  <2>2. f - 1 <= m /\ m + 1 <= Len(text) /\ c = Later(text, f, m)
    BY <1>1, <1>2, <2>1
  <2>3. /\ c \in Seq(Pair) /\ Len(c) = m - f + 1
        /\ \A i \in 1..m - f + 1 : c[i] = <<text[f + i], f + i - 1>>
    BY <2>2, LaterProperties
  <2>4. n + Len(w) - f + 1 = m - f + 1
    BY <2>1
  <2> QED BY <2>3, <2>4, Zenon
<1>6. /\ a \o b \in Seq(Pair) /\ Len(a \o b) = Len(a) + Len(b)
      /\ \A i \in 1..Len(a) : (a \o b)[i] = a[i]
      /\ \A i \in 1..Len(b) : (a \o b)[Len(a) + i] = b[i]
  <2>1. a \in Seq(Pair) /\ b \in Seq(Pair)
    BY <1>3, <1>4
  <2> QED BY <2>1, ConcatType
<1>7. Len(a \o b) = Len(c) /\ Len(c) = n - f + 1 + Len(w)
  BY <1>1, <1>3, <1>4, <1>5, <1>6
<1>8. \A i \in 1..Len(c) : (a \o b)[i] = c[i]
  <2> TAKE i \in 1..Len(c)
  <2>1. CASE i <= n - f + 1
    <3>1. i \in 1..n - f + 1 /\ i \in 1..n + Len(w) - f + 1 /\ i \in 1..Len(a)
      BY <1>1, <1>3, <1>7, <2>1
    <3> QED BY <1>3, <1>5, <1>6, <3>1
  <2>2. CASE i > n - f + 1
    <3>1. PICK j \in 1..Len(w) : i = n - f + 1 + j
      <4>1. i - (n - f + 1) \in 1..Len(w) /\ i = n - f + 1 + (i - (n - f + 1))
        BY <1>1, <1>3, <1>7, <2>2
      <4> QED BY <4>1
    <3>2. (a \o b)[i] = <<w[j], n + 1 + j - 1>>
      BY <1>3, <1>4, <1>6, <3>1
    <3>3. i \in 1..n + Len(w) - f + 1 /\ f + i = n + 1 + j /\ f + i - 1 = n + 1 + j - 1
      BY <1>1, <1>7, <3>1
    <3>4. c[i] = <<text[n + 1 + j], n + 1 + j - 1>>
      BY <1>5, <3>3
    <3> QED BY <3>1, <3>2, <3>4
  <2>3. i <= n - f + 1 \/ i > n - f + 1
    BY <1>3
  <2> QED BY <2>1, <2>2, <2>3, Zenon
<1>9. a \o b = c
  BY <1>5, <1>6, <1>7, <1>8, SeqEqual
<1> QED BY <1>2, <1>9

(* Only the text up to the last pair matters. *)
LEMMA LaterOfSameText ==
  ASSUME NEW text \in Seq(Tokens), NEW other \in Seq(Tokens), NEW f \in Nat \ {0}, NEW n \in Nat,
         f - 1 <= n, n + 1 <= Len(text), n + 1 <= Len(other),
         \A i \in 1..n + 1 : text[i] = other[i]
  PROVE  Later(text, f, n) = Later(other, f, n)
<1>1. \A i \in 1..n - f + 1 : f + i \in 1..n + 1
  OBVIOUS
<1>2. \A i \in 1..n - f + 1 : text[f + i] = other[f + i]
  BY <1>1
<1> QED BY <1>2 DEF Later

(* What is cut off is what came later. *)
LEMMA LaterShrinks ==
  ASSUME NEW text \in Seq(Tokens), NEW f \in Nat \ {0}, NEW n \in Nat, NEW m \in Nat,
         f - 1 <= m, m <= n, n + 1 <= Len(text)
  PROVE  SubSeq(Later(text, f, n), 1, m - f + 1) = Later(text, f, m)
<1>1. Len(text) \in Nat /\ f - 1 <= n /\ m + 1 <= Len(text)
  BY LenProperties
<1>2. PICK a, b : a = Later(text, f, n) /\ b = Later(text, f, m)
  OBVIOUS
<1>3. /\ a \in Seq(Pair) /\ Len(a) = n - f + 1 /\ n - f + 1 \in Nat
      /\ \A i \in 1..n - f + 1 : a[i] = <<text[f + i], f + i - 1>>
  BY <1>1, <1>2, LaterProperties
<1>4. /\ b \in Seq(Pair) /\ Len(b) = m - f + 1 /\ m - f + 1 \in Nat
      /\ \A i \in 1..m - f + 1 : b[i] = <<text[f + i], f + i - 1>>
  BY <1>1, <1>2, LaterProperties
<1>5. m - f + 1 \in 0..Len(a)
  BY <1>3, <1>4
<1>6. PICK k : k = m - f + 1
  OBVIOUS
<1>7. SubSeq(a, 1, k) \in Seq(Pair) /\ Len(SubSeq(a, 1, k)) = k
      /\ \A i \in 1..k : SubSeq(a, 1, k)[i] = a[i]
  BY <1>3, <1>5, <1>6, FirstPart
<1>8. \A i \in 1..k : i \in 1..n - f + 1 /\ i \in 1..m - f + 1
  BY <1>3, <1>4, <1>6
<1>9. \A i \in 1..k : SubSeq(a, 1, k)[i] = b[i]
  BY <1>3, <1>4, <1>7, <1>8
<1>10. SubSeq(a, 1, k) = b
  BY <1>4, <1>6, <1>7, <1>9, SeqEqual
<1> QED BY <1>2, <1>6, <1>10

(* A sequence is a prefix of what it becomes with another behind it. *)
LEMMA PrefixOfConcat ==
  ASSUME NEW T, NEW left \in Seq(T), NEW right \in Seq(T)
  PROVE  IsPrefix(left, left \o right)
<1>1. Len(left) \in Nat /\ Len(right) \in Nat /\ Len(left \o right) = Len(left) + Len(right)
  BY ConcatType
<1>2. 0 \in 0..Len(right)
  BY <1>1
<1>3. SubSeq(left \o right, 1, Len(left) + 0) = left \o SubSeq(right, 1, 0)
  BY <1>2, FirstOfConcat
<1>4. left \o SubSeq(right, 1, 0) = left /\ SubSeq(left, 1, Len(left)) = left
  BY WholeSeq
<1>5. Len(left) + 0 = Len(left) /\ Len(left) <= Len(left \o right)
  BY <1>1
<1> QED BY <1>3, <1>4, <1>5 DEF IsPrefix

(* The first part is a prefix. *)
LEMMA PrefixAsStart ==
  ASSUME NEW T, NEW whole \in Seq(T), NEW k \in 0..Len(whole)
  PROVE  IsPrefix(SubSeq(whole, 1, k), whole)
<1>1. PICK a : a = SubSeq(whole, 1, k)
  OBVIOUS
<1>2. a \in Seq(T) /\ Len(a) = k /\ Len(whole) \in Nat
  BY <1>1, FirstPart, LenProperties
<1>3. SubSeq(a, 1, Len(a)) = a
  BY <1>2, WholeSeq
<1> QED BY <1>1, <1>2, <1>3 DEF IsPrefix

(* A prefix of a prefix is a prefix. *)
LEMMA PrefixTransitive ==
  ASSUME NEW T, NEW a \in Seq(T), NEW b \in Seq(T), NEW c \in Seq(T), IsPrefix(a, b), IsPrefix(b, c)
  PROVE  IsPrefix(a, c)
<1>1. Len(a) \in Nat /\ Len(b) \in Nat /\ Len(c) \in Nat /\ Len(a) <= Len(b) /\ Len(b) <= Len(c)
      /\ SubSeq(a, 1, Len(a)) = SubSeq(b, 1, Len(a))
      /\ SubSeq(b, 1, Len(b)) = SubSeq(c, 1, Len(b))
  BY LenProperties DEF IsPrefix
<1>2. PICK k, l : k = Len(a) /\ l = Len(b)
  OBVIOUS
<1>3. k \in 0..Len(b) /\ k \in 0..Len(c) /\ l \in 0..Len(b) /\ l \in 0..Len(c) /\ k <= l /\ k \in Nat
  BY <1>1, <1>2
<1>4. SubSeq(b, 1, k) \in Seq(T) /\ Len(SubSeq(b, 1, k)) = k
      /\ \A i \in 1..k : SubSeq(b, 1, k)[i] = b[i]
  BY <1>3, FirstPart
<1>5. SubSeq(c, 1, k) \in Seq(T) /\ Len(SubSeq(c, 1, k)) = k
      /\ \A i \in 1..k : SubSeq(c, 1, k)[i] = c[i]
  BY <1>3, FirstPart
<1>6. \A i \in 1..l : SubSeq(b, 1, l)[i] = b[i]
  BY <1>3, FirstPart
<1>7. \A i \in 1..l : SubSeq(c, 1, l)[i] = c[i]
  BY <1>3, FirstPart
<1>8. \A i \in 1..k : b[i] = c[i]
  <2> TAKE i \in 1..k
  <2>1. i \in 1..l
    BY <1>1, <1>2, <1>3
  <2> QED BY <1>1, <1>2, <1>6, <1>7, <2>1
<1>9. \A i \in 1..k : SubSeq(b, 1, k)[i] = SubSeq(c, 1, k)[i]
  BY <1>4, <1>5, <1>8
<1>10. SubSeq(b, 1, k) = SubSeq(c, 1, k)
  BY <1>4, <1>5, <1>9, SeqEqual
<1>11. Len(a) <= Len(c)
  BY <1>1
<1> QED BY <1>1, <1>2, <1>10, <1>11 DEF IsPrefix

(* Where the pairs of a turn begin: behind what the cache had, or behind the *)
(* prompt.                                                                   *)
LEMMA LayerShape ==
  ASSUME Typed, Begun, turn > 0, Is("mtp")
  PROVE  /\ From \in Nat \ {0} /\ From <= Len(Context) /\ Len(Context) \in Nat
         /\ Len(began.target) \in Nat /\ Pieces = Pair
         /\ Own \in Seq(Pair) /\ began.drafter \in Seq(Pair) /\ began.drafter \o Own \in Seq(Pair)
         /\ setup.fused => Own = <<>> /\ From = Len(began.target) + 1
         /\ ~setup.fused => Own = Pairs(began.new, Len(began.target) + 1) /\ From = Len(Context)
<1>1. Pieces = Pair
  BY DEF Pieces, Pair
<1>2. /\ began.target \in Seq(Tokens) /\ began.new \in Seq(Tokens) /\ began.drafter \in Seq(Pair)
      /\ began.new # <<>>
  BY <1>1 DEF Typed, Begun
<1>3. /\ Len(began.new) \in Nat \ {0} /\ Len(began.target) \in Nat
      /\ Len(Context) = Len(began.target) + Len(began.new)
  BY <1>2, EmptySeq, ConcatType DEF Context
<1>4. Own \in Seq(Pair)
  <2>1. Len(began.target) + 1 \in Nat
    BY <1>3
  <2>2. Pairs(began.new, Len(began.target) + 1) \in Seq(Pair)
    BY <1>2, <2>1, PairsProperties
  <2>3. <<>> \in Seq(Pair)
    BY EmptySeq
  <2> QED BY <2>2, <2>3 DEF Own
<1>5. began.drafter \o Own \in Seq(Pair)
  BY <1>2, <1>4, ConcatType
<1>6. /\ setup.fused => Own = <<>> /\ From = Len(began.target) + 1
      /\ ~setup.fused => Own = Pairs(began.new, Len(began.target) + 1) /\ From = Len(Context)
  BY DEF Own, From
<1>7. From \in Nat \ {0} /\ From <= Len(Context) /\ Len(Context) \in Nat
  <2>1. Len(Context) \in Nat \ {0} /\ Len(began.target) + 1 <= Len(Context)
        /\ Len(began.target) + 1 \in Nat \ {0}
    <3>1. PICK a, b, c : a = Len(began.target) /\ b = Len(began.new) /\ c = Len(Context)
      OBVIOUS
    <3>2. a \in Nat /\ b \in Nat \ {0} /\ c = a + b
      BY <1>3, <3>1, Zenon
    <3>3. c \in Nat \ {0} /\ a + 1 <= c /\ a + 1 \in Nat \ {0}
      BY <3>2
    <3> QED BY <3>1, <3>3, Zenon
  <2>2. From = Len(began.target) + 1 \/ From = Len(Context)
    BY <1>6, Zenon
  <2>3. CASE From = Len(began.target) + 1
    BY <2>1, <2>3
  <2>4. CASE From = Len(Context)
    BY <2>1, <2>4
  <2> QED BY <2>2, <2>3, <2>4, Zenon
<1> QED BY <1>1, <1>2, <1>3, <1>4, <1>5, <1>6, <1>7

(* The cache of the layer grows by pairs, is cut back to fewer, and depends *)
(* on the text it covers only.                                              *)
LEMMA LayerProperties ==
  ASSUME Typed, Begun, turn > 0, Is("mtp"),
         NEW text \in Seq(Tokens), NEW n \in Nat, From - 1 <= n, n + 1 <= Len(text)
  PROVE  /\ Layer(text, n) \in Seq(Pair)
         /\ \A w \in Seq(Tokens) :
              /\ n + 1 + Len(w) <= Len(text)
              /\ \A i \in 1..Len(w) : text[n + 1 + i] = w[i]
              => Layer(text, n) \o Pairs(w, n + 1) = Layer(text, n + Len(w))
         /\ \A other \in Seq(Tokens) :
              n + 1 <= Len(other) /\ (\A i \in 1..n + 1 : text[i] = other[i])
              => Layer(text, n) = Layer(other, n)
         /\ \A m \in Nat : From - 1 <= m /\ m <= n =>
              /\ DropLast(Layer(text, n), n - m) = Layer(text, m)
              /\ IsPrefix(Layer(text, m), Layer(text, n))
<1>1. PICK f, base : f = From /\ base = began.drafter \o Own
  OBVIOUS
<1>2. f \in Nat \ {0} /\ base \in Seq(Pair)
  BY <1>1, LayerShape
<1>3. \A t, k : Layer(t, k) = base \o Later(t, f, k)
  BY <1>1 DEF Layer
<1>4. Later(text, f, n) \in Seq(Pair) /\ Len(Later(text, f, n)) = n - f + 1 /\ n - f + 1 \in Nat
  BY <1>1, <1>2, LaterProperties
<1>5. Layer(text, n) \in Seq(Pair)
  BY <1>2, <1>3, <1>4, ConcatType
<1>6. ASSUME NEW w \in Seq(Tokens), n + 1 + Len(w) <= Len(text),
             \A i \in 1..Len(w) : text[n + 1 + i] = w[i]
      PROVE  Layer(text, n) \o Pairs(w, n + 1) = Layer(text, n + Len(w))
  <2>1. Later(text, f, n) \o Pairs(w, n + 1) = Later(text, f, n + Len(w))
    BY <1>1, <1>2, <1>6, LaterGrows
  <2>2. Pairs(w, n + 1) \in Seq(Pair)
    BY PairsProperties
  <2>3. (base \o Later(text, f, n)) \o Pairs(w, n + 1) = base \o (Later(text, f, n) \o Pairs(w, n + 1))
    BY <1>2, <1>4, <2>2, OneBehindAnother
  <2> QED BY <1>3, <2>1, <2>3, Zenon
<1>7. ASSUME NEW other \in Seq(Tokens), n + 1 <= Len(other), \A i \in 1..n + 1 : text[i] = other[i]
      PROVE  Layer(text, n) = Layer(other, n)
  <2>1. Later(text, f, n) = Later(other, f, n)
    BY <1>1, <1>2, <1>7, LaterOfSameText
  <2> QED BY <1>3, <2>1, Zenon
<1>8. ASSUME NEW m \in Nat, From - 1 <= m, m <= n
      PROVE  /\ DropLast(Layer(text, n), n - m) = Layer(text, m)
             /\ IsPrefix(Layer(text, m), Layer(text, n))
  <2>1. SubSeq(Later(text, f, n), 1, m - f + 1) = Later(text, f, m)
    BY <1>1, <1>2, <1>8, LaterShrinks
  <2>2. PICK a, k : a = Later(text, f, n) /\ k = m - f + 1
    OBVIOUS
  <2>3. a \in Seq(Pair) /\ k \in 0..Len(a) /\ Len(a) - k = n - m
    BY <1>1, <1>2, <1>4, <1>8, <2>2
  <2>4. /\ DropLast(base \o a, Len(a) - k) = base \o SubSeq(a, 1, k)
        /\ SubSeq(base \o a, 1, Len(base) + k) = base \o SubSeq(a, 1, k)
    BY <1>2, <2>3, FirstOfConcat
  <2>5. DropLast(Layer(text, n), n - m) = Layer(text, m)
    BY <1>3, <2>1, <2>2, <2>3, <2>4, Zenon
  <2>6. PICK whole, l : whole = base \o a /\ l = Len(base) + k
    OBVIOUS
  <2>7. whole \in Seq(Pair) /\ l \in 0..Len(whole)
    <3>1. whole \in Seq(Pair) /\ Len(whole) = Len(base) + Len(a) /\ Len(base) \in Nat
          /\ Len(a) \in Nat
      BY <1>2, <2>3, <2>6, ConcatType
    <3> QED BY <2>3, <2>6, <3>1
  <2>8. IsPrefix(SubSeq(whole, 1, l), whole)
    BY <2>7, PrefixAsStart
  <2>9. IsPrefix(Layer(text, m), Layer(text, n))
    BY <1>3, <2>1, <2>2, <2>4, <2>6, <2>8, Zenon
  <2> QED BY <2>5, <2>9
<1> QED BY <1>5, <1>6, <1>7, <1>8

(* A sequence is its own prefix. *)
LEMMA PrefixItself ==
  ASSUME NEW T, NEW a \in Seq(T)
  PROVE  IsPrefix(a, a)
<1>1. Len(a) \in Nat /\ Len(a) <= Len(a)
  BY LenProperties
<1> QED BY <1>1 DEF IsPrefix

(* The pairs of two texts, one behind the other. *)
LEMMA PairsConcat ==
  ASSUME NEW x \in Seq(Tokens), NEW y \in Seq(Tokens), NEW m \in Nat
  PROVE  Pairs(x, m) \o Pairs(y, m + Len(x)) = Pairs(x \o y, m)
<1>1. /\ x \o y \in Seq(Tokens) /\ Len(x \o y) = Len(x) + Len(y) /\ Len(x) \in Nat /\ Len(y) \in Nat
      /\ \A i \in 1..Len(x) : (x \o y)[i] = x[i]
      /\ \A i \in 1..Len(y) : (x \o y)[Len(x) + i] = y[i]
  BY ConcatType
<1>2. PICK a, b, c, w : a = Pairs(x, m) /\ b = Pairs(y, m + Len(x)) /\ w = x \o y /\ c = Pairs(w, m)
  OBVIOUS
<1>3. a \in Seq(Pair) /\ Len(a) = Len(x) /\ \A i \in 1..Len(x) : a[i] = <<x[i], m + i - 1>>
  BY <1>2, PairsProperties
<1>4. b \in Seq(Pair) /\ Len(b) = Len(y) /\ \A i \in 1..Len(y) : b[i] = <<y[i], m + Len(x) + i - 1>>
  <2>1. m + Len(x) \in Nat
    BY <1>1
  <2> QED BY <1>2, <2>1, PairsProperties
<1>5. c \in Seq(Pair) /\ Len(c) = Len(w) /\ \A i \in 1..Len(w) : c[i] = <<w[i], m + i - 1>>
  BY <1>1, <1>2, PairsProperties
<1>6. /\ a \o b \in Seq(Pair) /\ Len(a \o b) = Len(a) + Len(b)
      /\ \A i \in 1..Len(a) : (a \o b)[i] = a[i]
      /\ \A i \in 1..Len(b) : (a \o b)[Len(a) + i] = b[i]
  <2>1. a \in Seq(Pair) /\ b \in Seq(Pair)
    BY <1>3, <1>4
  <2> QED BY <2>1, ConcatType
<1>7. \A i \in 1..Len(c) : (a \o b)[i] = c[i]
  <2> TAKE i \in 1..Len(c)
  <2>1. CASE i <= Len(x)
    <3>1. i \in 1..Len(x) /\ i \in 1..Len(a) /\ i \in 1..Len(w)
      BY <1>1, <1>3, <1>5, <2>1
    <3>2. w[i] = x[i]
      BY <1>1, <1>2, <3>1
    <3> QED BY <1>3, <1>5, <1>6, <3>1, <3>2, Zenon
  <2>2. CASE i > Len(x)
    <3>1. PICK j \in 1..Len(y) : i = Len(x) + j
      <4>1. i - Len(x) \in 1..Len(y) /\ i = Len(x) + (i - Len(x))
        BY <1>1, <1>2, <1>5, <2>2
      <4> QED BY <4>1
    <3>2. w[i] = y[j]
      BY <1>1, <1>2, <3>1
    <3>3. (a \o b)[i] = <<y[j], m + Len(x) + j - 1>>
      BY <1>3, <1>4, <1>6, <3>1
    <3>4. m + Len(x) + j - 1 = m + i - 1 /\ i \in 1..Len(w)
      BY <1>1, <1>2, <3>1
    <3>5. c[i] = <<w[i], m + i - 1>>
      BY <1>5, <3>4
    <3> QED BY <3>2, <3>3, <3>4, <3>5
  <2>3. i <= Len(x) \/ i > Len(x)
    BY <1>1
  <2> QED BY <2>1, <2>2, <2>3, Zenon
<1>8. Len(a \o b) = Len(c)
  BY <1>1, <1>2, <1>3, <1>4, <1>5, <1>6
<1>9. a \o b = c
  BY <1>5, <1>6, <1>7, <1>8, SeqEqual
<1> QED BY <1>2, <1>9

(* The tokens one further on than those of a chunk. *)
LEMMA OneFurther ==
  ASSUME NEW s \in Seq(Tokens), NEW n \in 1..Len(s), NEW z \in Tokens
  PROVE  /\ Tail(SubSeq(s, 1, n)) \o <<z>> \in Seq(Tokens)
         /\ Len(Tail(SubSeq(s, 1, n)) \o <<z>>) = n
         /\ \A i \in 1..n - 1 : (Tail(SubSeq(s, 1, n)) \o <<z>>)[i] = s[i + 1]
         /\ (Tail(SubSeq(s, 1, n)) \o <<z>>)[n] = z
<1>1. n \in 0..Len(s) /\ n \in Nat \ {0} /\ Len(s) \in Nat
  BY LenProperties
<1>2. PICK c : c = SubSeq(s, 1, n)
  OBVIOUS
<1>3. c \in Seq(Tokens) /\ Len(c) = n /\ \A i \in 1..n : c[i] = s[i]
  BY <1>1, <1>2, FirstPart
<1>4. c # <<>>
  BY <1>1, <1>3
<1>5. PICK a : a = Tail(c)
  OBVIOUS
<1>6. a \in Seq(Tokens) /\ Len(a) = n - 1 /\ \A i \in 1..n - 1 : a[i] = c[i + 1]
  BY <1>3, <1>4, <1>5, HeadTailProperties
<1>7. PICK b : b = <<z>>
  OBVIOUS
<1>8. b \in Seq(Tokens) /\ Len(b) = 1 /\ b[1] = z
  BY <1>7
<1>9. /\ a \o b \in Seq(Tokens) /\ Len(a \o b) = Len(a) + Len(b)
      /\ \A i \in 1..Len(a) : (a \o b)[i] = a[i]
      /\ \A i \in 1..Len(b) : (a \o b)[Len(a) + i] = b[i]
  <2>1. a \in Seq(Tokens) /\ b \in Seq(Tokens)
    BY <1>6, <1>8
  <2> QED BY <2>1, ConcatType
<1>10. Len(a \o b) = n /\ (a \o b)[n] = z
  <2>1. 1 \in 1..Len(b) /\ Len(a) + 1 = n
    BY <1>1, <1>6, <1>8
  <2> QED BY <1>1, <1>6, <1>8, <1>9, <2>1
<1>11. \A i \in 1..n - 1 : (a \o b)[i] = s[i + 1]
  <2> TAKE i \in 1..n - 1
  <2>1. i + 1 \in 1..n /\ i \in 1..Len(a)
    BY <1>1, <1>6
  <2> QED BY <1>3, <1>6, <1>9, <2>1
<1> QED BY <1>2, <1>5, <1>7, <1>9, <1>10, <1>11

(* The layer is measured as before as long as the turn goes on. *)
LEMMA SameLayer ==
  ASSUME UNCHANGED <<setup, began>>
  PROVE  \A text, n : Layer(text, n)' = Layer(text, n)
<1>1. From' = From /\ Own' = Own
  BY DEF From, Own, Context, Pairs
<1> QED BY <1>1 DEF Layer, Later

(* A round may begin if the layer is in step. *)
LEMMA InStepAtDraft ==
  ASSUME UNCHANGED <<setup, began>>, phase' = "draft", hidden' = Len(target'),
         ready' => setup.fused,
         NEW pairs, pairs = Layer(Read', Len(target') - (IF ready' THEN 0 ELSE 1)),
         IF stats'.fallback \/ Len(out') = MaxTokens THEN IsPrefix(drafter', pairs)
         ELSE drafter' = pairs
  PROVE  LayerInStep'
<1>1. Layer(Read, Len(target) - (IF ready THEN 0 ELSE 1))' = pairs
  <2>1. From' = From /\ Own' = Own
    BY DEF From, Own, Context, Pairs
  <2> QED BY <2>1 DEF Layer, Later
<1>2. ready' => setup'.fused
  OBVIOUS
<1> QED BY <1>1, <1>2 DEF LayerInStep

----------------------------------------
(* Multi-token prediction. *)

(* Reading, for all texts. *)
LEMMA MoveOverTokens ==
  \A a, b \in Seq(Tokens) : \A n \in 0..Len(b) :
    /\ (a \o SubSeq(b, 1, n)) \o SubSeq(b, n + 1, Len(b)) = a \o b
    /\ a \o SubSeq(b, 1, n) \in Seq(Tokens) /\ SubSeq(b, n + 1, Len(b)) \in Seq(Tokens)
    /\ SubSeq(b, 1, n) \in Seq(Tokens) /\ Len(SubSeq(b, 1, n)) = n
    /\ Len(a \o SubSeq(b, 1, n)) = Len(a) + n
BY MoveOver

(* The prefill of MTP keeps the invariant: the layer has the pair of every *)
(* token read.                                                             *)
LEMMA PrefillMTPKeeps ==
  ASSUME IInv, PrefillMTP
  PROVE  IInv' /\ Simulated
<1> USE DEF IInv
<1>1. PICK n, k, chunk :
        /\ n = Min({PrefillStep, Len(rest)}) /\ k = Len(target) /\ chunk = SubSeq(rest, 1, n)
  OBVIOUS
<1>2. /\ phase = "prefill" /\ Is("mtp")
      /\ target' = target \o chunk /\ rest' = SubSeq(rest, n + 1, Len(rest))
      /\ UNCHANGED <<fixed, draftY, round, stats>>
  BY <1>1 DEF PrefillMTP
<1>2a. PICK t \in Tokens :
        /\ drafter' = drafter \o
             Pairs(IF setup.fused
                   THEN Tail(chunk) \o (IF n = Len(rest) THEN <<t>> ELSE <<rest[n + 1]>>)
                   ELSE chunk, k + 1)
        /\ IF n = Len(rest)
           THEN /\ Yielded(Sampled(t, target', prev))
                /\ current' = <<t>>
                /\ prev' = Append(prev, t)
                /\ hidden' = Len(target')
                /\ ready' = setup.fused
                /\ phase' = "draft"
           ELSE Running /\ UNCHANGED <<current, prev, hidden, ready, phase>>
  BY <1>1, Zenon DEF PrefillMTP
<1>3. PICK z, shifted :
        /\ z = (IF n = Len(rest) THEN t ELSE rest[n + 1])
        /\ shifted = Tail(chunk) \o <<z>>
        /\ drafter' = drafter \o Pairs(IF setup.fused THEN shifted ELSE chunk, k + 1)
        /\ IF n = Len(rest)
           THEN /\ Yielded(Sampled(t, target', prev))
                /\ current' = <<t>>
                /\ prev' = Append(prev, t)
                /\ hidden' = Len(target')
                /\ ready' = setup.fused
                /\ phase' = "draft"
           ELSE Running /\ UNCHANGED <<current, prev, hidden, ready, phase>>
  <2>1. PICK z : z = (IF n = Len(rest) THEN t ELSE rest[n + 1])
    OBVIOUS
  <2>2. (IF n = Len(rest) THEN <<t>> ELSE <<rest[n + 1]>>) = <<z>>
    BY <2>1
  <2> QED BY <1>2a, <2>1, <2>2, Zenon
<1>4. /\ setup' = setup /\ turn' = turn /\ prompt' = prompt /\ began' = began /\ stored' = stored
      /\ draftY' = draftY /\ round' = round /\ stats' = stats
  BY <1>2 DEF fixed
<1>5. /\ target \in Seq(Tokens) /\ rest \in Seq(Tokens) /\ prev \in Seq(Tokens)
      /\ Context \in Seq(Tokens) /\ Len(rest) \in Nat /\ k \in Nat
      /\ PrefillStep \in Nat \ {0} /\ MaxTokens \in Nat \ {0} /\ turn > 0
  <2>1. turn > 0
    BY <1>2 DEF Begun, Typed
  <2> QED BY <1>1, <2>1, Texts, LenProperties DEF Typed
<1>6. /\ out = <<>> /\ rest # <<>> /\ target \o rest = Context /\ round = NoRound
      /\ prev = prompt /\ stats = NoStats /\ Len(began.target) <= k
      /\ setup.fused => drafter = Layer(Context, k)
      /\ ~setup.fused => \E read \in Seq(Tokens) :
           /\ read \o rest = began.new
           /\ drafter = began.drafter \o Pairs(read, Len(began.target) + 1)
           /\ k = Len(began.target) + Len(read)
  BY <1>1, <1>2, Zenon DEF InPrefill
<1>7. n \in 1..Len(rest) /\ n \in 0..Len(rest)
  <2>1. Len(rest) # 0
    BY <1>5, <1>6, EmptySeq
  <2>2. PrefillStep \in Int /\ Len(rest) \in Int
    BY <1>5
  <2>3. n = IF PrefillStep <= Len(rest) THEN PrefillStep ELSE Len(rest)
    BY <1>1, <2>2, LesserOf, Zenon
  <2> QED BY <1>5, <2>1, <2>3
<1>8. /\ target' \o rest' = Context /\ target' \in Seq(Tokens) /\ rest' \in Seq(Tokens)
      /\ chunk \in Seq(Tokens) /\ Len(chunk) = n /\ Len(target') = k + n
  <2>1. target \in Seq(Tokens) /\ rest \in Seq(Tokens) /\ n \in 0..Len(rest)
    BY <1>5, <1>7
  <2>2. /\ (target \o SubSeq(rest, 1, n)) \o SubSeq(rest, n + 1, Len(rest)) = target \o rest
        /\ target \o SubSeq(rest, 1, n) \in Seq(Tokens)
        /\ SubSeq(rest, n + 1, Len(rest)) \in Seq(Tokens)
        /\ SubSeq(rest, 1, n) \in Seq(Tokens) /\ Len(SubSeq(rest, 1, n)) = n
        /\ Len(target \o SubSeq(rest, 1, n)) = Len(target) + n
    <3> HIDE DEF IInv
    <3> QED BY <2>1, MoveOverTokens, Zenon
  <2> QED BY <1>1, <1>2, <1>6, <2>2, Zenon
<1>9. /\ From \in Nat \ {0} /\ From <= Len(Context) /\ Len(Context) = k + Len(rest)
      /\ Len(began.target) \in Nat /\ Pieces = Pair
      /\ Own \in Seq(Pair) /\ began.drafter \in Seq(Pair) /\ began.drafter \o Own \in Seq(Pair)
      /\ setup.fused => Own = <<>> /\ From = Len(began.target) + 1
      /\ ~setup.fused => Own = Pairs(began.new, Len(began.target) + 1) /\ From = Len(Context)
  <2>1. Len(target \o rest) = Len(target) + Len(rest)
    BY <1>5, ConcatType
  <2> QED BY <1>1, <1>2, <1>5, <1>6, <2>1, LayerShape, Zenon
<1>10. \A i \in 1..Len(rest) : Context[k + i] = rest[i] /\ rest[i] \in Tokens
  BY <1>1, <1>5, <1>6, ConcatType, ElementOfSeq
<1>11. /\ z \in Tokens /\ shifted \in Seq(Tokens) /\ Len(shifted) = n
       /\ \A i \in 1..n - 1 : shifted[i] = rest[i + 1]
       /\ shifted[n] = z
  <2>1. z \in Tokens
    <3>1. n # Len(rest) => n + 1 \in 1..Len(rest)
      BY <1>5, <1>7
    <3> QED BY <1>3, <1>10, <3>1
  <2>2. rest \in Seq(Tokens) /\ n \in 1..Len(rest) /\ z \in Tokens
    BY <1>5, <1>7, <2>1
  <2>3. /\ Tail(SubSeq(rest, 1, n)) \o <<z>> \in Seq(Tokens)
        /\ Len(Tail(SubSeq(rest, 1, n)) \o <<z>>) = n
        /\ \A i \in 1..n - 1 : (Tail(SubSeq(rest, 1, n)) \o <<z>>)[i] = rest[i + 1]
        /\ (Tail(SubSeq(rest, 1, n)) \o <<z>>)[n] = z
    <3> HIDE DEF IInv
    <3> QED BY <2>2, OneFurther
  <2> QED BY <1>1, <1>3, <2>1, <2>3, Zenon
<1>12. /\ Pairs(shifted, k + 1) \in Seq(Pair) /\ Pairs(chunk, k + 1) \in Seq(Pair)
       /\ drafter \in Seq(Pair)
  <2>1. k + 1 \in Nat
    BY <1>5
  <2> QED BY <1>8, <1>9, <1>11, <2>1, PairsProperties DEF Typed
<1>13. drafter' \in Seq(Pieces)
  BY <1>3, <1>9, <1>12, ConcatType
<1>14. ~setup.fused => \E read \in Seq(Tokens) :
         /\ read \o rest' = began.new
         /\ drafter' = began.drafter \o Pairs(read, Len(began.target) + 1)
         /\ Len(target') = Len(began.target) + Len(read)
  <2> SUFFICES ASSUME ~setup.fused
               PROVE  \E read \in Seq(Tokens) :
                        /\ read \o rest' = began.new
                        /\ drafter' = began.drafter \o Pairs(read, Len(began.target) + 1)
                        /\ Len(target') = Len(began.target) + Len(read)
    OBVIOUS
  <2>1. PICK read \in Seq(Tokens) :
           /\ read \o rest = began.new
           /\ drafter = began.drafter \o Pairs(read, Len(began.target) + 1)
           /\ k = Len(began.target) + Len(read)
    BY <1>6
  <2>2. /\ (read \o chunk) \o rest' = read \o rest /\ read \o chunk \in Seq(Tokens)
        /\ Len(read \o chunk) = Len(read) + n
    <3>1. read \in Seq(Tokens) /\ rest \in Seq(Tokens) /\ n \in 0..Len(rest)
      BY <1>5, <1>7
    <3>2. /\ (read \o SubSeq(rest, 1, n)) \o SubSeq(rest, n + 1, Len(rest)) = read \o rest
          /\ read \o SubSeq(rest, 1, n) \in Seq(Tokens)
          /\ Len(read \o SubSeq(rest, 1, n)) = Len(read) + n
      <4> HIDE DEF IInv
      <4> QED BY <3>1, MoveOverTokens, Zenon
    <3> QED BY <1>1, <1>2, <3>2, Zenon
  <2>3. PICK m : m = Len(began.target) + 1
    OBVIOUS
  <2>4. m \in Nat /\ m + Len(read) = k + 1 /\ Len(read) \in Nat
    BY <1>9, <2>1, <2>3, LenProperties
  <2>5. Pairs(read, m) \o Pairs(chunk, m + Len(read)) = Pairs(read \o chunk, m)
    BY <1>8, <2>4, PairsConcat
  <2>6. Pairs(read, m) \in Seq(Pair)
    BY <2>4, PairsProperties
  <2>7. (began.drafter \o Pairs(read, m)) \o Pairs(chunk, k + 1)
          = began.drafter \o (Pairs(read, m) \o Pairs(chunk, k + 1))
    <3>1. PICK a, b, c : a = began.drafter /\ b = Pairs(read, m) /\ c = Pairs(chunk, k + 1)
      OBVIOUS
    <3>2. a \in Seq(Pair) /\ b \in Seq(Pair) /\ c \in Seq(Pair)
      BY <1>9, <1>12, <2>6, <3>1
    <3>3. (a \o b) \o c = a \o (b \o c)
      <4> HIDE DEF IInv
      <4> QED BY <3>2, OneBehindAnother
    <3> QED BY <3>1, <3>3, Zenon
  <2>8. drafter' = began.drafter \o Pairs(read \o chunk, m)
    BY <1>3, <2>1, <2>3, <2>4, <2>5, <2>7, Zenon
  <2>9. Len(target') = Len(began.target) + Len(read \o chunk)
    <3>1. PICK a, b, c, u : /\ a = Len(began.target) /\ b = Len(read) /\ c = Len(read \o chunk)
                            /\ u = Len(target')
      OBVIOUS
    <3>2. a \in Nat /\ b \in Nat /\ k = a + b /\ c = b + n /\ u = k + n /\ n \in Nat
      <4>1. a \in Nat /\ b \in Nat /\ k = a + b
        BY <1>9, <2>1, <2>4, <3>1, Zenon
      <4>2. c = b + n /\ u = k + n
        BY <1>8, <2>2, <3>1, Zenon
      <4>3. n \in Nat
        BY <1>7
      <4> QED BY <4>1, <4>2, <4>3, Zenon
    <3>3. u = a + c
      BY <3>2
    <3> QED BY <3>1, <3>3, Zenon
  <2> QED BY <2>1, <2>2, <2>3, <2>8, <2>9, Zenon
<1>15. \A m : Is(m)' = Is(m)
  BY <1>4 DEF Is
<1>16. CASE n # Len(rest)
  <2>1. /\ suspended' = FALSE /\ out' = out /\ current' = current /\ prev' = prev
        /\ hidden' = hidden /\ ready' = ready /\ phase' = phase
    BY <1>3, <1>16 DEF Running
  <2>2. rest' # <<>>
    <3>1. n < Len(rest) /\ n \in Nat
      BY <1>5, <1>7, <1>16
    <3> QED BY <1>2, <1>5, <3>1, PartType
  <2>3. setup.fused => drafter' = Layer(Context, k + n)
    <3> SUFFICES ASSUME setup.fused PROVE drafter' = Layer(Context, k + n)
      OBVIOUS
    <3>1. /\ From - 1 <= k /\ k + 1 <= Len(Context) /\ k + 1 + Len(shifted) <= Len(Context)
      BY <1>5, <1>6, <1>7, <1>9, <1>11, <1>16
    <3>2. \A i \in 1..Len(shifted) : Context[k + 1 + i] = shifted[i]
      <4> TAKE i \in 1..Len(shifted)
      <4>1. i + 1 \in 1..Len(rest) /\ k + 1 + i = k + (i + 1)
        BY <1>5, <1>7, <1>11, <1>16
      <4>2. Context[k + 1 + i] = rest[i + 1]
        BY <1>10, <4>1
      <4>3. shifted[i] = rest[i + 1]
        <5>1. i \in 1..n - 1 \/ i = n
          BY <1>7, <1>11
        <5>2. z = rest[n + 1]
          BY <1>3, <1>16
        <5> QED BY <1>11, <5>1, <5>2, Zenon
      <4> QED BY <4>2, <4>3
    <3>3. Layer(Context, k) \o Pairs(shifted, k + 1) = Layer(Context, k + Len(shifted))
      BY <1>2, <1>5, <1>11, <3>1, <3>2, LayerProperties
    <3> QED BY <1>3, <1>6, <1>11, <3>3
  <2>4. Typed'
    BY <1>4, <1>8, <1>13, <2>1, StillTyped, Zenon DEF Typed, Rounds, Counts, fixed
  <2>5. Begun'
    BY <1>2, <2>1, StillBegun
  <2>6. /\ Context' = Context /\ (HistoryWhole => HistoryWhole')
    BY <1>4, <2>1, SameTexts
  <2>7. InPrefill'
    <3>1. setup'.fused => drafter' = Layer(Context, Len(target))'
      <4>1. From' = From /\ Own' = Own
        BY <1>4, <2>1, SameTexts
      <4>2. Layer(Context, Len(target))' = Layer(Context, k + n)
        BY <1>4, <1>8, <2>6, <4>1 DEF Layer, Later
      <4> QED BY <1>4, <2>3, <4>2, Zenon
    <3>2. ~setup'.fused => \E read \in Seq(Tokens) :
            /\ read \o rest' = began'.new
            /\ drafter' = began'.drafter \o Pairs(read, Len(began'.target) + 1)
            /\ Len(target') = Len(began'.target) + Len(read)
      BY <1>4, <1>14
    <3>3. Len(began'.target) <= Len(target')
      BY <1>4, <1>5, <1>6, <1>7, <1>8, <1>9
    <3>4. Is("mtp")' /\ ~Is("draft")'
      BY <1>2, <1>4 DEF Is
    <3>5. NoRound' = NoRound /\ NoStats' = NoStats
      BY DEF NoRound, NoStats
    <3> QED BY <1>4, <1>6, <1>8, <2>1, <2>2, <2>6, <3>1, <3>2, <3>3, <3>4, <3>5, Zenon
           DEF InPrefill, Pairs
  <2>8. Simulated
    BY <1>2, <1>4, <2>1 DEF Simulated
  <2> QED BY <1>2, <2>1, <2>4, <2>5, <2>6, <2>7, <2>8, OtherPhases
<1>17. CASE n = Len(rest)
  <2>1. /\ Yielded(Sampled(t, target', prev)) /\ current' = <<t>>
        /\ prev' = Append(prev, t) /\ hidden' = Len(target')
        /\ ready' = setup.fused /\ phase' = "draft"
    BY <1>3, <1>17
  <2>2. target' = Context /\ Len(Context) = k + n
    <3>1. chunk = rest
      BY <1>1, <1>5, <1>17, SubSeqFull
    <3> QED BY <1>2, <1>6, <1>9, <1>17, <3>1
  <2>3. Read = Context /\ History = prompt
    BY <1>2, <1>5, <1>6, NothingYielded
  <2>4. PICK x : x = Sampled(t, target', prev)
    OBVIOUS
  <2>5. x \in Samples /\ x.token = t /\ x.given = Read /\ x.seen = History
    BY <1>5, <1>6, <1>8, <2>2, <2>3, <2>4 DEF Sampled, Samples
  <2>6. RightYield(x)
    <3>1. Len(out) < MaxTokens
      BY <1>5, <1>6
    <3> QED BY <2>1, <2>4, <2>5, <3>1 DEF RightYield
  <2>7. /\ out' \in Seq(Samples) /\ Len(out') <= MaxTokens /\ out' # <<>> /\ suspended' = TRUE
        /\ Read' = Read \o <<t>> /\ Read' \in Seq(Tokens)
        /\ History' = History \o <<t>> /\ History' \in Seq(Tokens)
        /\ HistoryWhole'
    BY <1>4, <1>5, <2>5, <2>6, YieldTexts
  <2>8. prev' = History' /\ prev' \in Seq(Tokens)
    BY <1>5, <1>6, <2>1, <2>3, <2>7, FrontOfAppend
  <2>9. /\ Len(Read') = k + n + 1 /\ Read'[k + n + 1] = t
        /\ \A i \in 1..k + n : Read'[i] = Context[i]
    <3>1. PICK c, o : c = Context /\ o = <<t>>
      OBVIOUS
    <3>2. c \in Seq(Tokens) /\ o \in Seq(Tokens) /\ Len(o) = 1 /\ o[1] = t /\ Len(c) = k + n
      BY <1>5, <2>2, <3>1
    <3>3. /\ Len(c \o o) = Len(c) + Len(o)
          /\ \A i \in 1..Len(c) : (c \o o)[i] = c[i]
          /\ \A i \in 1..Len(o) : (c \o o)[Len(c) + i] = o[i]
      BY <3>2, ConcatType
    <3>4. Read' = c \o o
      BY <2>3, <2>7, <3>1
    <3>5. PICK r : r = c \o o
      OBVIOUS
    <3>6. /\ Len(r) = k + n + 1 /\ r[k + n + 1] = t
          /\ \A i \in 1..k + n : r[i] = c[i]
      <4> HIDE DEF IInv
      <4> QED BY <1>5, <3>2, <3>3, <3>5, SMTT(60)
    <3> QED BY <3>1, <3>4, <3>5, <3>6
  <2>10. drafter' = Layer(Read', Len(target') - (IF ready' THEN 0 ELSE 1))
    <3>1. CASE setup.fused
      <4>1. From - 1 <= k /\ k + 1 <= Len(Context) /\ k + 1 <= Len(Read')
            /\ k + 1 + Len(shifted) <= Len(Read')
        BY <1>5, <1>6, <1>7, <1>9, <1>11, <2>2, <2>9, <3>1
      <4>2. \A i \in 1..k + 1 : Context[i] = Read'[i]
        BY <1>5, <1>7, <2>9
      <4>3. Layer(Context, k) = Layer(Read', k)
        BY <1>2, <1>5, <2>7, <4>1, <4>2, LayerProperties
      <4>4. \A i \in 1..Len(shifted) : Read'[k + 1 + i] = shifted[i]
        <5> TAKE i \in 1..Len(shifted)
        <5>1. CASE i = n
          <6>1. k + 1 + i = k + n + 1 /\ z = t
            BY <1>3, <1>5, <1>7, <1>17, <5>1
          <6> QED BY <1>11, <2>9, <5>1, <6>1
        <5>2. CASE i # n
          <6>1. i + 1 \in 1..Len(rest) /\ k + 1 + i = k + (i + 1) /\ i \in 1..n - 1
                /\ k + 1 + i \in 1..k + n
            BY <1>5, <1>7, <1>11, <1>17, <5>2
          <6>2. Read'[k + 1 + i] = rest[i + 1]
            BY <1>10, <2>9, <6>1
          <6> QED BY <1>11, <6>1, <6>2
        <5> QED BY <5>1, <5>2
      <4>5. Layer(Read', k) \o Pairs(shifted, k + 1) = Layer(Read', k + Len(shifted))
        <5>1. PICK text : text = Read'
          OBVIOUS
        <5>2. /\ Typed /\ Begun /\ turn > 0 /\ Is("mtp")
              /\ text \in Seq(Tokens) /\ k \in Nat /\ From - 1 <= k /\ k + 1 <= Len(text)
              /\ shifted \in Seq(Tokens) /\ k + 1 + Len(shifted) <= Len(text)
              /\ \A i \in 1..Len(shifted) : text[k + 1 + i] = shifted[i]
          BY <1>2, <1>5, <1>11, <2>7, <4>1, <4>4, <5>1
        <5>3. Layer(text, k) \o Pairs(shifted, k + 1) = Layer(text, k + Len(shifted))
          <6> HIDE DEF IInv
          <6> QED BY <5>2, LayerProperties
        <5> QED BY <5>1, <5>3, Zenon
      <4>6. Len(target') - (IF ready' THEN 0 ELSE 1) = k + Len(shifted)
        BY <1>5, <1>7, <1>8, <1>11, <2>1, <3>1
      <4> QED BY <1>3, <1>6, <3>1, <4>3, <4>5, <4>6, Zenon
    <3>2. CASE ~setup.fused
      <4>1. PICK read \in Seq(Tokens) :
              /\ read \o rest' = began.new
              /\ drafter' = began.drafter \o Pairs(read, Len(began.target) + 1)
        BY <1>14, <3>2
      <4>2. rest' = <<>>
        <5>1. n + 1 \in Int /\ Len(rest) \in Int /\ Len(rest) < n + 1
          BY <1>5, <1>7, <1>17
        <5> QED BY <1>2, <5>1, SubSeqEmpty, Zenon
      <4>3. read = began.new
        BY <4>1, <4>2, WholeSeq
      <4>4. drafter' = began.drafter \o Own
        BY <1>9, <3>2, <4>1, <4>3
      <4>5. Later(Read', From, k + n - 1) = <<>>
        <5>1. PICK f, m, text : f = From /\ m = k + n - 1 /\ text = Read'
          OBVIOUS
        <5>2. f \in Nat /\ m \in Nat /\ m - f + 1 = 0
          <6>1. f = k + n /\ m = k + n - 1
            BY <1>9, <2>2, <3>2, <5>1, Zenon
          <6>2. k \in Nat /\ n \in Nat \ {0}
            BY <1>5, <1>7
          <6>3. f \in Nat /\ m \in Nat /\ m - f = 0 - 1
            BY <6>1, <6>2
          <6> QED BY <6>3
        <5>3. 1..m - f + 1 = {}
          BY <5>2
        <5>4. Later(text, f, m) = [i \in 1..m - f + 1 |-> <<text[f + i], f + i - 1>>]
          BY DEF Later
        <5>5. Later(text, f, m) = <<>>
          BY <5>3, <5>4
        <5> QED BY <5>1, <5>5, Zenon
      <4>6. Layer(Read', k + n - 1) = began.drafter \o Own
        BY <1>9, <4>5, WholeSeq DEF Layer
      <4>7. Len(target') - (IF ready' THEN 0 ELSE 1) = k + n - 1
        BY <1>5, <1>7, <1>8, <2>1, <3>2
      <4> QED BY <4>4, <4>6, <4>7, Zenon
    <3> QED BY <3>1, <3>2
  <2>11. LayerInStep'
    <3>1. IsPrefix(drafter', drafter')
      BY <1>13, PrefixItself
    <3> QED BY <1>4, <2>1, <2>10, <3>1, InStepAtDraft, Zenon
  <2>12. /\ current' \in Seq(Tokens) /\ Len(current') = 1
         /\ current' \in Seq(Tokens \cup Samples) /\ Len(current') <= 1
    BY <2>1
  <2>13. Typed'
    <3>1. hidden' \in Nat /\ phase' \in Phases
      BY <1>5, <1>7, <1>8, <2>1 DEF Phases
    <3>2. ready' \in BOOLEAN
      BY <2>1, Texts, Zenon
    <3> QED BY <1>4, <1>8, <1>13, <2>7, <2>8, <2>12, <3>1, <3>2, StillTyped, Zenon
            DEF Typed, Rounds, Counts, fixed
  <2>14. Begun'
    BY <1>2, <2>1, <2>7, StillBegun DEF Is
  <2>15. AtDraft'
    <3>1. target' \o current' = Read'
      BY <2>1, <2>2, <2>3, <2>7
    <3>2. ~Is("draft")'
      BY <1>2, <1>4 DEF Is
    <3> QED BY <2>12, <3>1, <3>2 DEF AtDraft
  <2>16. LayerHistory'
    BY <2>7, <2>8 DEF LayerHistory
  <2>17. Simulated
    BY <1>2, <1>4, <2>1, <2>6 DEF Simulated
  <2>18. ~Is("draft")'
    BY <1>2, <1>4 DEF Is
  <2> QED BY <2>1, <2>7, <2>11, <2>13, <2>14, <2>15, <2>16, <2>17, <2>18, OtherPhases
<1> QED BY <1>16, <1>17

(* What holds of the lengths when a round of MTP begins. *)
LEMMA LayerAtDraft ==
  ASSUME IInv, phase = "draft", Is("mtp")
  PROVE  /\ turn > 0 /\ target \in Seq(Tokens) /\ Len(target) \in Nat
         /\ Read \in Seq(Tokens) /\ Len(Read) = Len(target) + 1
         /\ From \in Nat \ {0} /\ From <= Len(target) /\ Pieces = Pair
         /\ hidden = Len(target) /\ Len(Context) <= Len(target) /\ Len(Context) \in Nat
         /\ prev = History /\ History \in Seq(Tokens) /\ out # <<>>
         /\ drafter \in Seq(Pair)
         /\ \E c \in Tokens : current = <<c>> /\ Read = target \o <<c>>
<1> USE DEF IInv
<1>1. turn > 0
  BY DEF Begun, Typed
<1>2. /\ current \in Seq(Tokens) /\ Len(current) = 1 /\ target \o current = Read
      /\ prev = History /\ out # <<>> /\ hidden = Len(target) /\ drafter \in Seq(Pieces)
      /\ target \in Seq(Tokens)
  BY DEF AtDraft, LayerHistory, LayerInStep, Typed
<1>3. PICK c : c = Last(current)
  OBVIOUS
<1>4. c \in Tokens /\ current = <<c>>
  <2>1. current = <<Last(current)>> /\ current[1] = Last(current) /\ current[1] \in Tokens
    BY <1>2, OneElement
  <2> QED BY <1>3, <2>1
<1>5. /\ Values(out) \in Seq(Tokens) /\ Len(Values(out)) = Len(out)
      /\ Context \in Seq(Tokens) /\ Read \in Seq(Tokens) /\ History \in Seq(Tokens)
  BY <1>1, Texts
<1>6. Len(Read) = Len(target) + 1 /\ Len(target) \in Nat
  <2>1. Len(target \o current) = Len(target) + Len(current) /\ Len(target) \in Nat
    BY <1>2, ConcatType
  <2> QED BY <1>2, <2>1
<1>7. Len(Read) = Len(Context) + Len(out) /\ Len(Context) \in Nat /\ Len(out) \in Nat
  <2>1. PICK v : v = Values(out)
    OBVIOUS
  <2>2. Len(Context \o v) = Len(Context) + Len(v) /\ Len(Context) \in Nat /\ Len(v) \in Nat
    BY <1>5, <2>1, ConcatType
  <2> QED BY <1>5, <2>1, <2>2 DEF Read
<1>8. Len(out) # 0
  <2>1. out \in Seq(Samples)
    BY DEF Typed
  <2> QED BY <1>2, <2>1, EmptySeq
<1>9. Len(Context) <= Len(target)
  BY <1>6, <1>7, <1>8
<1>10. From \in Nat \ {0} /\ From <= Len(Context) /\ Pieces = Pair
  BY <1>1, LayerShape, Zenon
<1>11. From <= Len(target)
  BY <1>6, <1>7, <1>9, <1>10
<1> QED BY <1>1, <1>2, <1>4, <1>5, <1>6, <1>7, <1>9, <1>10, <1>11, Zenon

(* Decoding without proposals keeps the invariant: the layer is left behind. *)
LEMMA DecodeAloneKeeps ==
  ASSUME IInv, DecodeAlone
  PROVE  IInv' /\ Simulated
<1> USE DEF IInv
<1>1. /\ phase = "draft" /\ phase' = phase /\ Is("mtp") /\ Len(out) < MaxTokens
      /\ NumDraftMTP = 0 /\ target' = target \o current /\ hidden' = Len(target')
      /\ stats' = [stats EXCEPT !.fallback = FallsBack]
      /\ UNCHANGED <<fixed, rest, drafter, draftY, round, ready>>
  BY DEF DecodeAlone
<1>2. PICK t \in Tokens : /\ Yielded(Sampled(t, target', prev)) /\ current' = <<t>>
                          /\ prev' = Append(prev, t)
  BY DEF DecodeAlone
<1>3. /\ setup' = setup /\ turn' = turn /\ prompt' = prompt /\ began' = began /\ stored' = stored
      /\ rest' = rest /\ drafter' = drafter /\ draftY' = draftY /\ round' = round
      /\ ready' = ready
  BY <1>1 DEF fixed
<1>4. /\ turn > 0 /\ target \in Seq(Tokens) /\ Len(target) \in Nat
      /\ Read \in Seq(Tokens) /\ Len(Read) = Len(target) + 1
      /\ From \in Nat \ {0} /\ From <= Len(target) /\ Pieces = Pair
      /\ prev = History /\ History \in Seq(Tokens) /\ drafter \in Seq(Pair)
  BY <1>1, LayerAtDraft
<1>5. target' = Read
  BY <1>1 DEF AtDraft
<1>6. PICK x : x = Sampled(t, target', prev)
  OBVIOUS
<1>7. x \in Samples /\ x.token = t /\ x.given = Read /\ x.seen = History
  BY <1>4, <1>5, <1>6 DEF Sampled, Samples
<1>8. RightYield(x)
  BY <1>1, <1>2, <1>6, <1>7 DEF RightYield
<1>9. /\ out' \in Seq(Samples) /\ Len(out') = Len(out) + 1 /\ Len(out') <= MaxTokens
      /\ out' # <<>> /\ suspended' = TRUE
      /\ Read' = Read \o <<t>> /\ Read' \in Seq(Tokens)
      /\ History' = History \o <<t>> /\ History' \in Seq(Tokens)
      /\ From' = From /\ HistoryWhole'
      /\ \A m : Is(m)' = Is(m)
  BY <1>3, <1>4, <1>7, <1>8, YieldTexts
<1>10. prev' = History'
  BY <1>2, <1>4, <1>9, FrontOfAppend
<1>11. PICK k, n, a, b : /\ k = Len(target) /\ n = Len(target) - (IF ready THEN 0 ELSE 1)
                         /\ a = Read /\ b = Read'
  OBVIOUS
<1>12. /\ n \in Nat /\ From - 1 <= n /\ n + 1 <= Len(a) /\ n + 2 <= Len(b) /\ n + 1 \in Nat
       /\ n + 1 <= Len(b)
       /\ a \in Seq(Tokens) /\ b \in Seq(Tokens) /\ \A i \in 1..n + 1 : b[i] = a[i]
  <2>1. PICK o : o = <<t>>
    OBVIOUS
  <2>2. o \in Seq(Tokens) /\ Len(o) = 1 /\ a \in Seq(Tokens) /\ b = a \o o /\ b \in Seq(Tokens)
    BY <1>4, <1>9, <1>11, <2>1
  <2>3. Len(a \o o) = Len(a) + Len(o) /\ \A i \in 1..Len(a) : (a \o o)[i] = a[i]
    <3>1. a \in Seq(Tokens) /\ o \in Seq(Tokens)
      BY <2>2
    <3> HIDE DEF IInv
    <3> QED BY <3>1, ConcatType
  <2>4. n = k \/ n = k - 1
    BY <1>4, <1>11
  <2>5. Len(a) = k + 1 /\ Len(b) = k + 2 /\ k \in Nat /\ From <= k /\ From \in Nat \ {0}
    BY <1>4, <1>11, <2>2, <2>3
  <2>6. /\ n \in Nat /\ From - 1 <= n /\ n + 1 <= Len(a) /\ n + 2 <= Len(b) /\ n + 1 \in Nat
        /\ n + 1 <= Len(b)
    BY <2>4, <2>5
  <2>7. \A i \in 1..n + 1 : i \in 1..Len(a)
    BY <2>5, <2>6
  <2> QED BY <2>2, <2>3, <2>6, <2>7, Zenon
<1>13. IsPrefix(drafter, Layer(a, n))
  <2>1. drafter = Layer(a, n) \/ IsPrefix(drafter, Layer(a, n))
    BY <1>1, <1>11, Zenon DEF LayerInStep
  <2>2. IsPrefix(drafter, drafter)
    BY <1>4, PrefixItself
  <2> QED BY <2>1, <2>2, Zenon
<1>14. /\ Layer(a, n) \in Seq(Pair) /\ Layer(a, n) = Layer(b, n)
       /\ Layer(b, n + 1) \in Seq(Pair) /\ IsPrefix(Layer(b, n), Layer(b, n + 1))
  <2>1. /\ Typed /\ Begun /\ turn > 0 /\ Is("mtp") /\ a \in Seq(Tokens) /\ b \in Seq(Tokens)
        /\ n \in Nat /\ From - 1 <= n /\ n + 1 <= Len(a) /\ n + 1 <= Len(b)
        /\ \A i \in 1..n + 1 : a[i] = b[i]
    BY <1>1, <1>4, <1>12
  <2>2. n + 1 \in Nat /\ From - 1 <= n + 1 /\ (n + 1) + 1 <= Len(b) /\ n <= n + 1
    BY <1>4, <1>12
  <2> HIDE DEF IInv
  <2>3. Layer(a, n) \in Seq(Pair) /\ Layer(a, n) = Layer(b, n)
    BY <2>1, LayerProperties
  <2>4. PICK p : p = n + 1
    OBVIOUS
  <2>5. p \in Nat /\ From - 1 <= p /\ p + 1 <= Len(b) /\ n <= p
    BY <2>2, <2>4
  <2>6. Layer(b, p) \in Seq(Pair) /\ IsPrefix(Layer(b, n), Layer(b, p))
    BY <2>1, <2>5, LayerProperties
  <2> QED BY <2>3, <2>4, <2>6, Zenon
<1>15. IsPrefix(drafter', Layer(b, n + 1))
  <2>1. /\ drafter \in Seq(Pair) /\ Layer(b, n) \in Seq(Pair) /\ Layer(b, n + 1) \in Seq(Pair)
        /\ IsPrefix(drafter, Layer(b, n)) /\ IsPrefix(Layer(b, n), Layer(b, n + 1))
    BY <1>4, <1>13, <1>14, Zenon
  <2> HIDE DEF IInv
  <2> QED BY <1>3, <2>1, PrefixTransitive
<1>16. stats'.fallback \/ Len(out') = MaxTokens
  <2>1. CASE FallsBack
    BY <1>1, <2>1 DEF Typed
  <2>2. CASE ~FallsBack
    <3>1. PICK p, q : p = setup.num /\ q = MaxTokens - Len(out) - 1
      OBVIOUS
    <3>2. Min({p, q}) = 0
      BY <1>1, <2>2, <3>1 DEF NumDraftMTP
    <3>3. p \in Nat \ {0} /\ MaxTokens \in Nat \ {0} /\ Len(out) \in Nat
      BY <3>1, Texts, LenProperties DEF Typed
    <3>4. p \in Int /\ q \in Int
      BY <3>1, <3>3
    <3>5. Min({p, q}) = IF p <= q THEN p ELSE q
      BY <3>4, LesserOf, Zenon
    <3> QED BY <1>9, <3>1, <3>2, <3>3, <3>5
  <2> QED BY <2>1, <2>2
<1>17. Len(target') = k + 1
  BY <1>4, <1>5, <1>11
<1>18. n + 1 = Len(target') - (IF ready' THEN 0 ELSE 1)
  BY <1>3, <1>4, <1>11, <1>17
<1>19. LayerInStep'
  <2>1. ready' => setup.fused
    <3>1. ready => setup.fused
      BY <1>1 DEF LayerInStep
    <3> QED BY <1>3, <3>1, Zenon
  <2>2. IsPrefix(drafter', Layer(Read', Len(target') - (IF ready' THEN 0 ELSE 1)))
    BY <1>11, <1>15, <1>18, Zenon
  <2> QED BY <1>1, <1>3, <1>16, <2>1, <2>2, InStepAtDraft, Zenon
<1>20. /\ current' \in Seq(Tokens) /\ Len(current') = 1
       /\ current' \in Seq(Tokens \cup Samples) /\ Len(current') <= 1
  BY <1>2
<1>21. Typed'
  <2>1. hidden' \in Nat /\ phase' \in Phases
    BY <1>1, <1>4, <1>17, <1>11 DEF Phases
  <2>2. stats' \in Counts /\ stats'.accepted <= stats'.drafted
    <3>1. FallsBack \in BOOLEAN
      BY DEF FallsBack, Typed
    <3> QED BY <1>1, <3>1 DEF Typed, Counts
  <2>3. target' \in Seq(Tokens) /\ prev' \in Seq(Tokens) /\ drafter' \in Seq(Pieces)
    BY <1>3, <1>4, <1>5, <1>9, <1>10
  <2> QED BY <1>1, <1>3, <1>9, <1>20, <2>1, <2>2, <2>3, StillTyped, Zenon
          DEF Typed, Rounds, fixed
<1>22. Begun'
  BY <1>1, <1>9, StillBegun DEF Is
<1>23. ~Is("draft")'
  BY <1>1, <1>3 DEF Is
<1>24. AtDraft'
  <2>1. target' \o current' = Read'
    BY <1>2, <1>5, <1>9
  <2> QED BY <1>20, <1>23, <2>1 DEF AtDraft
<1>25. LayerHistory'
  BY <1>9, <1>10 DEF LayerHistory
<1>26. Simulated
  BY <1>1, <1>3, <1>8 DEF Simulated
<1> QED BY <1>1, <1>9, <1>19, <1>21, <1>22, <1>23, <1>24, <1>25, <1>26, OtherPhases

(* What was accepted of a round: as far as samples and proposals are the same. *)
LEMMA AcceptedPart ==
  ASSUME NEW d \in Seq(Tokens), NEW s \in Seq(Tokens), Len(s) = Len(d) + 1,
         NEW a, a = Max({n \in 0..Len(d) : SubSeq(s, 1, n) = SubSeq(d, 1, n)})
  PROVE  /\ a \in 0..Len(d) /\ Len(d) \in Nat
         /\ SubSeq(s, 1, a) = SubSeq(d, 1, a)
         /\ \A i \in 1..a : s[i] = d[i]
<1>1. Len(d) \in Nat
  BY LenProperties
<1>2. PICK S : S = {n \in 0..Len(d) : SubSeq(s, 1, n) = SubSeq(d, 1, n)}
  OBVIOUS
<1>3. S \in SUBSET (0..Len(d)) /\ S # {}
  <2>1. SubSeq(s, 1, 0) = <<>> /\ SubSeq(d, 1, 0) = <<>>
    BY WholeSeq
  <2>2. 0 \in S
    BY <1>1, <1>2, <2>1
  <2> QED BY <1>2, <2>2
<1>4. a \in S
  <2>1. Max(S) \in S
    BY <1>1, <1>3, GreatestOf
  <2> QED BY <1>2, <2>1
<1>5. a \in 0..Len(d) /\ SubSeq(s, 1, a) = SubSeq(d, 1, a)
  BY <1>2, <1>4
<1>6. \A i \in 1..a : s[i] = d[i]
  <2>1. a \in 0..Len(s)
    BY <1>1, <1>5
  <2>2. \A i \in 1..a : SubSeq(s, 1, a)[i] = s[i]
    BY <2>1, FirstPart
  <2>3. \A i \in 1..a : SubSeq(d, 1, a)[i] = d[i]
    BY <1>5, FirstPart
  <2> QED BY <1>5, <2>2, <2>3
<1> QED BY <1>1, <1>5, <1>6

(* Two sequences that start alike have the same first parts. *)
LEMMA SameFirstParts ==
  ASSUME NEW T, NEW v \in Seq(T), NEW w \in Seq(T), NEW n \in Nat, n <= Len(v), n <= Len(w),
         \A i \in 1..n : v[i] = w[i]
  PROVE  \A m \in 0..n : SubSeq(v, 1, m) = SubSeq(w, 1, m)
<1> TAKE m \in 0..n
<1>1. m \in 0..Len(v) /\ m \in 0..Len(w) /\ m \in Nat
  <2>1. Len(v) \in Nat /\ Len(w) \in Nat
    BY LenProperties
  <2> QED BY <2>1
<1>2. PICK p, q : p = SubSeq(v, 1, m) /\ q = SubSeq(w, 1, m)
  OBVIOUS
<1>3. p \in Seq(T) /\ Len(p) = m /\ \A i \in 1..m : p[i] = v[i]
  BY <1>1, <1>2, FirstPart
<1>4. q \in Seq(T) /\ Len(q) = m /\ \A i \in 1..m : q[i] = w[i]
  BY <1>1, <1>2, FirstPart
<1>5. \A i \in 1..Len(p) : p[i] = q[i]
  <2>1. \A i \in 1..m : i \in 1..n
    BY <1>1
  <2> QED BY <1>3, <1>4, <2>1
<1>6. p = q
  BY <1>3, <1>4, <1>5, SeqEqual
<1> QED BY <1>2, <1>6

(* Of the samples of a round those up to the target model's own. *)
SampledPart(d, s, r, h, n) ==
  [i \in 1..n |-> Sampled(s[i], r \o SubSeq(d, 1, i - 1), h \o SubSeq(s, 1, i - 1))]

(* The tokens of a round of MTP and what each was sampled from. *)
LEMMA SamplesOfPart ==
  ASSUME NEW d \in Seq(Tokens), NEW s \in [1..Len(d) + 1 -> Tokens],
         NEW r \in Seq(Tokens), NEW h \in Seq(Tokens),
         NEW a \in 0..Len(d), \A i \in 1..a : s[i] = d[i]
  PROVE  LET t == SampledPart(d, s, r, h, a + 1)
         IN  /\ t \in Seq(Samples) /\ Len(t) = a + 1
             /\ Values(t) = SubSeq(s, 1, a + 1) /\ Front(Values(t)) = SubSeq(s, 1, a)
             /\ \A i \in DOMAIN t : /\ t[i].given = r \o SubSeq(Values(t), 1, i - 1)
                                    /\ t[i].seen = h \o SubSeq(Values(t), 1, i - 1)
<1>0. PICK t : t = SampledPart(d, s, r, h, a + 1)
  OBVIOUS
<1>1. Len(d) \in Nat /\ a \in Nat /\ a + 1 \in Nat
  BY LenProperties
<1>2. s \in Seq(Tokens) /\ Len(s) = Len(d) + 1
  <2>1. Len(d) + 1 \in Nat
    BY <1>1
  <2> QED BY <2>1, FunctionSeq
<1>3. PICK all : all = SampledRound(d, s, r, h)
  OBVIOUS
<1>4. /\ all \in Seq(Samples) /\ Len(all) = Len(d) + 1 /\ Values(all) = s
      /\ \A i \in 1..Len(d) + 1 : /\ all[i].given = r \o SubSeq(d, 1, i - 1)
                                  /\ all[i].seen = h \o SubSeq(s, 1, i - 1)
  <2>1. /\ SampledRound(d, s, r, h) \in Seq(Samples)
        /\ Len(SampledRound(d, s, r, h)) = Len(d) + 1
        /\ Values(SampledRound(d, s, r, h)) = s
        /\ \A i \in 1..Len(d) + 1 :
             /\ SampledRound(d, s, r, h)[i].given = r \o SubSeq(d, 1, i - 1)
             /\ SampledRound(d, s, r, h)[i].seen = h \o SubSeq(s, 1, i - 1)
             /\ SampledRound(d, s, r, h)[i].token = s[i]
    BY SamplesOfRound
  <2> QED BY <1>3, <2>1, Zenon
<1>5. a + 1 \in 0..Len(all) /\ a + 1 \in 0..Len(s)
  BY <1>1, <1>2, <1>4
<1>6. /\ SubSeq(all, 1, a + 1) \in Seq(Samples) /\ Len(SubSeq(all, 1, a + 1)) = a + 1
      /\ \A i \in 1..a + 1 : SubSeq(all, 1, a + 1)[i] = all[i]
  BY <1>4, <1>5, FirstPart
<1>7. t = SubSeq(all, 1, a + 1)
  <2>1. PICK u : u = SubSeq(all, 1, a + 1)
    OBVIOUS
  <2>2. u \in Seq(Samples) /\ Len(u) = a + 1 /\ \A i \in 1..a + 1 : u[i] = all[i]
    BY <1>6, <2>1
  <2>3. u = [i \in 1..a + 1 |-> u[i]]
    BY <2>2
  <2>4. \A i \in 1..a + 1 :
          u[i] = Sampled(s[i], r \o SubSeq(d, 1, i - 1), h \o SubSeq(s, 1, i - 1))
    <3>1. \A i \in 1..a + 1 : i \in 1..Len(d) + 1
      BY <1>1
    <3>2. \A i \in 1..Len(d) + 1 :
            all[i] = Sampled(s[i], r \o SubSeq(d, 1, i - 1), h \o SubSeq(s, 1, i - 1))
      BY <1>3 DEF SampledRound
    <3> QED BY <2>2, <3>1, <3>2
  <2> QED BY <1>0, <2>1, <2>3, <2>4 DEF SampledPart
<1>8. t \in Seq(Samples) /\ Len(t) = a + 1 /\ Values(t) = SubSeq(s, 1, a + 1)
  <2>1. Values(SubSeq(all, 1, a + 1)) = SubSeq(Values(all), 1, a + 1)
    BY <1>4, <1>5, ValuesProperties
  <2> QED BY <1>4, <1>6, <1>7, <2>1
<1>9. a \in 0..Len(s) - 1
  BY <1>1, <1>2
<1>10. PICK v : v = SubSeq(s, 1, a + 1)
  OBVIOUS
<1>11. v \in Seq(Tokens) /\ Len(v) = a + 1 /\ \A i \in 1..a + 1 : v[i] = s[i]
  BY <1>2, <1>5, <1>10, FirstPart
<1>12. Front(v) = SubSeq(s, 1, a)
  <2>1. v = SubSeq(s, 1, a) \o <<s[a + 1]>> /\ s[a + 1] \in Tokens
    BY <1>2, <1>9, <1>10, OneMore
  <2>2. PICK p, x : p = SubSeq(s, 1, a) /\ x = s[a + 1]
    OBVIOUS
  <2>3. p \in Seq(Tokens) /\ x \in Tokens
    <3>1. a \in 0..Len(s)
      BY <1>1, <1>2
    <3>2. SubSeq(s, 1, a) \in Seq(Tokens)
      BY <1>2, <3>1, FirstPart
    <3> QED BY <2>1, <2>2, <3>2
  <2>4. Front(p \o <<x>>) = p
    BY <2>3, FrontOfAppend
  <2> QED BY <2>1, <2>2, <2>4
<1>13. \A m \in 0..a : SubSeq(v, 1, m) = SubSeq(d, 1, m)
  <2>1. \A i \in 1..a : v[i] = d[i]
    <3>1. \A i \in 1..a : i \in 1..a + 1
      BY <1>1
    <3> QED BY <1>11, <3>1
  <2>2. a <= Len(v) /\ a <= Len(d)
    BY <1>1, <1>11
  <2> QED BY <1>1, <1>11, <2>1, <2>2, SameFirstParts
<1>14. \A m \in 0..a : SubSeq(v, 1, m) = SubSeq(s, 1, m)
  <2>1. \A i \in 1..a : v[i] = s[i]
    <3>1. \A i \in 1..a : i \in 1..a + 1
      BY <1>1
    <3> QED BY <1>11, <3>1
  <2>2. a <= Len(v) /\ a <= Len(s)
    BY <1>1, <1>2, <1>11
  <2> QED BY <1>1, <1>2, <1>11, <2>1, <2>2, SameFirstParts
<1>15. ASSUME NEW i \in DOMAIN t
       PROVE  /\ t[i].given = r \o SubSeq(v, 1, i - 1)
              /\ t[i].seen = h \o SubSeq(v, 1, i - 1)
  <2>1. i \in 1..a + 1
    BY <1>8
  <2>2. i - 1 \in 0..a /\ i \in 1..Len(d) + 1
    BY <1>1, <2>1
  <2>3. t[i] = all[i]
    BY <1>6, <1>7, <2>1
  <2>4. SubSeq(v, 1, i - 1) = SubSeq(d, 1, i - 1) /\ SubSeq(v, 1, i - 1) = SubSeq(s, 1, i - 1)
    BY <1>13, <1>14, <2>2
  <2> QED BY <1>4, <2>2, <2>3, <2>4
<1>16. \A i \in DOMAIN t : /\ t[i].given = r \o SubSeq(Values(t), 1, i - 1)
                           /\ t[i].seen = h \o SubSeq(Values(t), 1, i - 1)
  BY <1>8, <1>10, <1>15
<1>17. Front(Values(t)) = SubSeq(s, 1, a)
  BY <1>8, <1>10, <1>12, Zenon
<1> QED BY <1>0, <1>8, <1>16, <1>17, Zenon

(* Putting texts together, for all texts. *)
LEMMA ConcatTokens ==
  \A left, right \in Seq(Tokens) :
    /\ left \o right \in Seq(Tokens) /\ Len(left \o right) = Len(left) + Len(right)
    /\ \A i \in 1..Len(left) : (left \o right)[i] = left[i]
    /\ \A i \in 1..Len(right) : (left \o right)[Len(left) + i] = right[i]
BY ConcatType

(* The layer is given, behind what it has, the current token and the          *)
(* proposals but the last, of which the first pair may be there.             *)
LEMMA DraftedLayer ==
  ASSUME Typed, Begun, turn > 0, Is("mtp"),
         NEW read \in Seq(Tokens), NEW k \in Nat, Len(read) = k + 1, From <= k,
         NEW d \in Seq(Tokens), d # <<>>
  PROVE  LET text == read \o d
             w == <<read[k + 1]>> \o Front(d)
         IN  /\ Layer(read, k - 1) \o Pairs(w, k) = Layer(text, k + Len(d) - 1)
             /\ Layer(read, k) \o Tail(Pairs(w, k)) = Layer(text, k + Len(d) - 1)
<1>0. PICK c, text, w : c = read[k + 1] /\ text = read \o d /\ w = <<read[k + 1]>> \o Front(d)
  OBVIOUS
<1>1. From \in Nat \ {0} /\ From <= k /\ c \in Tokens
  <2>1. k + 1 \in 1..Len(read)
    OBVIOUS
  <2> QED BY <1>0, <2>1, LayerShape, ElementOfSeq
<1>2. PICK o, f : o = <<c>> /\ f = Front(d)
  OBVIOUS
<1>3. o \in Seq(Tokens) /\ Len(o) = 1 /\ o[1] = c
  BY <1>1, <1>2
<1>4. /\ f \in Seq(Tokens) /\ Len(d) \in Nat \ {0} /\ Len(f) = Len(d) - 1
      /\ d = f \o <<Last(d)>> /\ <<Last(d)>> \in Seq(Tokens)
  BY <1>2, FrontLast
<1>5. \A i \in 1..Len(f) : d[i] = f[i]
  <2>1. PICK e : e = <<Last(d)>>
    OBVIOUS
  <2>2. f \in Seq(Tokens) /\ e \in Seq(Tokens) /\ d = f \o e
    BY <1>4, <2>1
  <2>3. \A i \in 1..Len(f) : (f \o e)[i] = f[i]
    BY <2>2, ConcatType
  <2> QED BY <2>2, <2>3
<1>6. /\ read \in Seq(Tokens) /\ Len(read) = k + 1
      /\ read[k + 1] = c
  BY <1>0
<1>7. /\ text \in Seq(Tokens) /\ Len(text) = k + 1 + Len(d)
      /\ \A i \in 1..k + 1 : text[i] = read[i]
      /\ \A i \in 1..Len(d) : text[k + 1 + i] = d[i]
  <2>1. /\ text \in Seq(Tokens) /\ Len(text) = Len(read) + Len(d)
        /\ \A i \in 1..Len(read) : text[i] = read[i]
        /\ \A i \in 1..Len(d) : text[Len(read) + i] = d[i]
    BY <1>0, <1>6, ConcatTokens, Zenon
  <2> QED BY <1>6, <2>1
<1>8. /\ w \in Seq(Tokens) /\ Len(w) = Len(d) /\ w[1] = c
      /\ \A i \in 1..Len(f) : w[i + 1] = f[i]
  <2>1. /\ w \in Seq(Tokens) /\ Len(w) = Len(o) + Len(f)
        /\ \A i \in 1..Len(o) : w[i] = o[i]
        /\ \A i \in 1..Len(f) : w[Len(o) + i] = f[i]
    <3>1. w = o \o f /\ o \in Seq(Tokens) /\ f \in Seq(Tokens)
      BY <1>0, <1>2, <1>3, <1>4
    <3>2. /\ o \o f \in Seq(Tokens) /\ Len(o \o f) = Len(o) + Len(f)
          /\ \A i \in 1..Len(o) : (o \o f)[i] = o[i]
          /\ \A i \in 1..Len(f) : (o \o f)[Len(o) + i] = f[i]
      BY <3>1, ConcatType
    <3> QED BY <3>1, <3>2, Zenon
  <2>2. 1 \in 1..Len(o) /\ \A i \in 1..Len(f) : 1 + i = i + 1
    BY <1>3, <1>4
  <2> QED BY <1>3, <1>4, <2>1, <2>2
<1>9. \A i \in 1..Len(w) : text[k + i] = w[i]
  <2> TAKE i \in 1..Len(w)
  <2>1. CASE i = 1
    <3>1. k + 1 \in 1..k + 1
      BY <1>1
    <3> QED BY <1>6, <1>7, <1>8, <2>1, <3>1
  <2>2. CASE i # 1
    <3>1. PICK j : j = i - 1
      OBVIOUS
    <3>2. j \in 1..Len(f) /\ j \in 1..Len(d) /\ i = j + 1 /\ k + i = k + 1 + j
      BY <1>1, <1>4, <1>8, <2>2, <3>1
    <3>3. text[k + 1 + j] = d[j] /\ d[j] = f[j] /\ w[j + 1] = f[j]
      BY <1>5, <1>7, <1>8, <3>2
    <3> QED BY <3>2, <3>3
  <2> QED BY <2>1, <2>2
<1>10. ASSUME NEW n \in Nat, From - 1 <= n, n <= k
       PROVE  /\ Layer(read, n) = Layer(text, n)
              /\ \A v \in Seq(Tokens) :
                   n + 1 + Len(v) <= Len(text) /\ (\A i \in 1..Len(v) : text[n + 1 + i] = v[i])
                   => Layer(text, n) \o Pairs(v, n + 1) = Layer(text, n + Len(v))
  <2>1. n + 1 <= Len(text) /\ n + 1 <= Len(read) /\ \A i \in 1..n + 1 : text[i] = read[i]
    <3>1. \A i \in 1..n + 1 : i \in 1..k + 1
      BY <1>1, <1>10
    <3> QED BY <1>1, <1>4, <1>6, <1>7, <1>10, <3>1
  <2>2. Layer(text, n) = Layer(read, n)
    BY <1>6, <1>7, <1>10, <2>1, LayerProperties
  <2>3. \A v \in Seq(Tokens) :
          n + 1 + Len(v) <= Len(text) /\ (\A i \in 1..Len(v) : text[n + 1 + i] = v[i])
          => Layer(text, n) \o Pairs(v, n + 1) = Layer(text, n + Len(v))
    BY <1>7, <1>10, <2>1, LayerProperties
  <2> QED BY <2>2, <2>3
<1>11. Layer(read, k - 1) \o Pairs(w, k) = Layer(text, k + Len(d) - 1)
  <2>1. PICK n : n = k - 1
    OBVIOUS
  <2>2. /\ n \in Nat /\ From - 1 <= n /\ n <= k /\ n + 1 + Len(w) <= Len(text)
        /\ n + 1 = k /\ n + Len(w) = k + Len(d) - 1
    <3>1. PICK e, u, z : e = Len(d) /\ u = Len(w) /\ z = Len(text)
      OBVIOUS
    <3>2. e \in Nat /\ u = e /\ z = k + 1 + e
      BY <1>4, <1>7, <1>8, <3>1
    <3>3. /\ n \in Nat /\ From - 1 <= n /\ n <= k /\ n + 1 + u <= z
          /\ n + 1 = k /\ n + u = k + e - 1
      BY <1>1, <2>1, <3>2
    <3> QED BY <3>1, <3>3, Zenon
  <2>3. \A i \in 1..Len(w) : text[n + 1 + i] = w[i]
    BY <1>9, <2>2
  <2>4. Layer(text, n) \o Pairs(w, n + 1) = Layer(text, n + Len(w))
    BY <1>8, <1>10, <2>2, <2>3
  <2>5. Layer(read, n) = Layer(text, n)
    BY <1>10, <2>2
  <2> QED BY <2>1, <2>2, <2>4, <2>5, Zenon
<1>12. Layer(read, k) \o Tail(Pairs(w, k)) = Layer(text, k + Len(d) - 1)
  <2>1. Tail(Pairs(w, k)) = Pairs(f, k + 1)
    <3>1. PICK p, q : p = Pairs(w, k) /\ q = Pairs(f, k + 1)
      OBVIOUS
    <3>2. p \in Seq(Pair) /\ Len(p) = Len(w) /\ \A i \in 1..Len(w) : p[i] = <<w[i], k + i - 1>>
      BY <1>1, <1>8, <3>1, PairsProperties
    <3>3. q \in Seq(Pair) /\ Len(q) = Len(f) /\ \A i \in 1..Len(f) : q[i] = <<f[i], k + 1 + i - 1>>
      <4>1. k + 1 \in Nat
        BY <1>1
      <4> QED BY <1>4, <3>1, <4>1, PairsProperties
    <3>4. p # <<>>
      BY <1>4, <1>8, <3>2
    <3>5. Tail(p) \in Seq(Pair) /\ Len(Tail(p)) = Len(p) - 1
          /\ \A i \in 1..Len(Tail(p)) : Tail(p)[i] = p[i + 1]
      BY <3>2, <3>4, HeadTailProperties
    <3>6. Len(Tail(p)) = Len(q)
      BY <1>4, <1>8, <3>2, <3>3, <3>5
    <3>7. ASSUME NEW i \in 1..Len(q) PROVE Tail(p)[i] = q[i]
      <4>1. i \in 1..Len(f) /\ i + 1 \in 1..Len(w) /\ k + 1 + i - 1 = k + (i + 1) - 1
        BY <1>1, <1>4, <1>8, <3>3
      <4>2. Tail(p)[i] = p[i + 1] /\ p[i + 1] = <<w[i + 1], k + (i + 1) - 1>>
        BY <3>2, <3>5, <3>6, <4>1
      <4>3. w[i + 1] = f[i] /\ q[i] = <<f[i], k + 1 + i - 1>>
        BY <1>8, <3>3, <4>1
      <4> QED BY <4>1, <4>2, <4>3
    <3>8. Tail(p) = q
      BY <3>3, <3>5, <3>6, <3>7, SeqEqual
    <3> QED BY <3>1, <3>8
  <2>2. k \in Nat /\ From - 1 <= k /\ k <= k /\ k + 1 + Len(f) <= Len(text)
        /\ k + Len(f) = k + Len(d) - 1
    BY <1>1, <1>4, <1>7
  <2>3. \A i \in 1..Len(f) : text[k + 1 + i] = f[i]
    <3>1. \A i \in 1..Len(f) : i \in 1..Len(d)
      BY <1>4
    <3> QED BY <1>5, <1>7, <3>1
  <2>4. Layer(text, k) \o Pairs(f, k + 1) = Layer(text, k + Len(f))
    BY <1>4, <1>10, <2>2, <2>3
  <2>5. Layer(read, k) = Layer(text, k)
    BY <1>10, <2>2
  <2> QED BY <2>1, <2>2, <2>4, <2>5, Zenon
<1> QED BY <1>0, <1>11, <1>12, Zenon

(* What is rejected is rewound from the layer, with its pairs. *)
KeepsAccepted(read, d, s, a, k) ==
  DropLast(Layer(read \o d, k + Len(d) - 1), Max({Len(d) - a - 1, 0}))
    = Layer(read \o SubSeq(s, 1, a + 1), k + Min({a, Len(d) - 1}))

(* The layer is cut back to the proposals that were accepted, the last one *)
(* never in it.                                                            *)
LEMMA KeptLayer ==
  ASSUME Typed, Begun, turn > 0, Is("mtp"),
         NEW read \in Seq(Tokens), NEW k \in Nat, Len(read) = k + 1, From <= k,
         NEW d \in Seq(Tokens), d # <<>>, NEW s \in Seq(Tokens), Len(s) = Len(d) + 1,
         NEW a \in 0..Len(d), \A i \in 1..a : s[i] = d[i]
  PROVE  KeepsAccepted(read, d, s, a, k)
<1>0. PICK text, kept, j : /\ text = read \o d /\ kept = read \o SubSeq(s, 1, a + 1)
                           /\ j = Min({a, Len(d) - 1})
  OBVIOUS
<1>1. PICK e : e = Len(d)
  OBVIOUS
<1>2. e \in Nat \ {0} /\ a \in 0..e /\ From \in Nat \ {0}
  BY <1>1, FrontLast, LayerShape
<1>3. j \in 0..e - 1 /\ j <= a /\ Max({e - a - 1, 0}) = e - 1 - j
  <2>1. PICK p, q : p = e - 1 /\ q = e - a - 1
    OBVIOUS
  <2>2. a \in Int /\ p \in Int /\ q \in Int /\ 0 \in Int
    BY <1>2, <2>1
  <2>3. j = (IF a <= p THEN a ELSE p)
    BY <1>0, <1>1, <2>1, <2>2, LesserOf, Zenon
  <2>4. Max({q, 0}) = (IF q >= 0 THEN q ELSE 0)
    BY <2>2, LesserOf, Zenon
  <2> QED BY <1>2, <2>1, <2>3, <2>4
<1>4. PICK v : v = SubSeq(s, 1, a + 1)
  OBVIOUS
<1>5. v \in Seq(Tokens) /\ Len(v) = a + 1 /\ \A i \in 1..a + 1 : v[i] = s[i]
  <2>1. a + 1 \in 0..Len(s)
    BY <1>1, <1>2
  <2> QED BY <1>4, <2>1, FirstPart
<1>6. /\ text \in Seq(Tokens) /\ Len(text) = k + 1 + e
      /\ \A i \in 1..k + 1 : text[i] = read[i]
      /\ \A i \in 1..e : text[k + 1 + i] = d[i]
  <2>1. /\ text \in Seq(Tokens) /\ Len(text) = Len(read) + Len(d)
        /\ \A i \in 1..Len(read) : text[i] = read[i]
        /\ \A i \in 1..Len(d) : text[Len(read) + i] = d[i]
    BY <1>0, ConcatTokens, Zenon
  <2>2. Len(text) = k + 1 + e
    BY <1>1, <2>1, Zenon
  <2>3. /\ \A i \in 1..k + 1 : text[i] = read[i]
        /\ \A i \in 1..e : text[k + 1 + i] = d[i]
    BY <1>1, <2>1, Zenon
  <2> QED BY <2>1, <2>2, <2>3, Zenon
<1>7. /\ kept \in Seq(Tokens) /\ Len(kept) = k + 1 + a + 1
      /\ \A i \in 1..k + 1 : kept[i] = read[i]
      /\ \A i \in 1..a + 1 : kept[k + 1 + i] = v[i]
  <2>1. v \in Seq(Tokens) /\ read \in Seq(Tokens) /\ kept = read \o v
    BY <1>0, <1>4, <1>5
  <2>2. /\ read \o v \in Seq(Tokens) /\ Len(read \o v) = Len(read) + Len(v)
        /\ \A i \in 1..Len(read) : (read \o v)[i] = read[i]
        /\ \A i \in 1..Len(v) : (read \o v)[Len(read) + i] = v[i]
    BY <2>1, ConcatTokens, Zenon
  <2>3. Len(kept) = k + 1 + (a + 1)
    BY <1>5, <2>1, <2>2, Zenon
  <2>4. k + 1 + (a + 1) = k + 1 + a + 1
    BY <1>2
  <2> QED BY <1>5, <2>1, <2>2, <2>3, <2>4, Zenon
<1>8. PICK n, m : n = k + e - 1 /\ m = k + j
  OBVIOUS
<1>9. /\ n \in Nat /\ m \in Nat /\ From - 1 <= n /\ From - 1 <= m /\ m <= n
      /\ n + 1 <= Len(text) /\ m + 1 <= Len(text) /\ m + 1 <= Len(kept) /\ n - m = e - 1 - j
  <2>1. PICK f, x, y : f = From /\ x = Len(text) /\ y = Len(kept)
    OBVIOUS
  <2>2. /\ f \in Nat \ {0} /\ f <= k /\ x = k + 1 + e /\ y = k + 1 + a + 1
    BY <1>2, <1>6, <1>7, <2>1, Zenon
  <2>3. /\ e \in Nat \ {0} /\ a \in 0..e /\ j \in 0..e - 1 /\ j <= a
        /\ n = k + e - 1 /\ m = k + j
    BY <1>2, <1>3, <1>8
  <2>4. /\ n \in Nat /\ m \in Nat /\ f - 1 <= n /\ f - 1 <= m /\ m <= n
        /\ n + 1 <= x /\ m + 1 <= x /\ m + 1 <= y /\ n - m = e - 1 - j
    <3>1. k \in Nat /\ a \in Nat /\ j \in Nat /\ j <= e - 1
      BY <2>3
    <3>2. n \in Nat /\ m \in Nat /\ m <= n /\ n - m = e - 1 - j
      BY <2>3, <3>1
    <3>3. f - 1 <= n /\ f - 1 <= m
      BY <2>2, <2>3, <3>1
    <3>4. n + 1 <= x
      BY <2>2, <2>3, <3>1
    <3>5. m + 1 <= x
      BY <2>2, <2>3, <3>1
    <3>6. m + 1 <= y
      BY <2>2, <2>3, <3>1
    <3> QED BY <3>2, <3>3, <3>4, <3>5, <3>6
  <2> QED BY <2>1, <2>4, Zenon
<1>10. \A i \in 1..m + 1 : text[i] = kept[i]
  <2> TAKE i \in 1..m + 1
  <2>1. CASE i <= k + 1
    <3>1. i \in 1..k + 1
      BY <1>9, <2>1
    <3> QED BY <1>6, <1>7, <3>1
  <2>2. CASE i > k + 1
    <3>1. PICK p : p = i - (k + 1)
      OBVIOUS
    <3>2. p \in 1..e /\ p \in 1..a + 1 /\ p \in 1..a /\ i = k + 1 + p
      <4>1. i \in Int /\ i <= m + 1 /\ m = k + j /\ j <= a /\ j <= e - 1 /\ j \in Nat
        BY <1>2, <1>3, <1>8, <1>9
      <4>2. a \in Nat /\ e \in Nat
        BY <1>2
      <4>3. p \in Int /\ 1 <= p /\ p <= j
        BY <2>2, <3>1, <4>1
      <4> QED BY <3>1, <4>1, <4>2, <4>3
    <3>3. text[k + 1 + p] = d[p] /\ kept[k + 1 + p] = v[p] /\ v[p] = s[p] /\ s[p] = d[p]
      BY <1>5, <1>6, <1>7, <3>2
    <3> QED BY <3>2, <3>3
  <2>3. i <= k + 1 \/ i > k + 1
    BY <1>9
  <2> QED BY <2>1, <2>2, <2>3, Zenon
<1>11. DropLast(Layer(text, n), n - m) = Layer(text, m)
  BY <1>6, <1>9, LayerProperties
<1>12. Layer(text, m) = Layer(kept, m)
  BY <1>6, <1>7, <1>9, <1>10, LayerProperties
<1> QED BY <1>0, <1>1, <1>3, <1>8, <1>9, <1>11, <1>12, Zenon DEF KeepsAccepted

(* Proposals are made as long as the answer may go on. *)
LEMMA ProposalsMade ==
  ASSUME Typed, NumDraftMTP > 0
  PROVE  /\ NumDraftMTP \in Nat \ {0} /\ NumDraftMTP <= setup.num
         /\ ~stats.fallback /\ Len(out) # MaxTokens
<1>1. setup.num \in Nat \ {0} /\ MaxTokens \in Nat \ {0} /\ Len(out) \in Nat
  BY Texts, LenProperties DEF Typed
<1>2. ~FallsBack
  BY DEF NumDraftMTP
<1>3. PICK p, q : p = setup.num /\ q = MaxTokens - Len(out) - 1
  OBVIOUS
<1>4. NumDraftMTP = Min({p, q})
  BY <1>2, <1>3 DEF NumDraftMTP
<1>5. p \in Int /\ q \in Int
  BY <1>1, <1>3
<1>6. Min({p, q}) = IF p <= q THEN p ELSE q
  BY <1>5, LesserOf, Zenon
<1>7. NumDraftMTP \in Nat \ {0} /\ NumDraftMTP <= p /\ Len(out) # MaxTokens
  BY <1>1, <1>3, <1>4, <1>5, <1>6
<1> QED BY <1>2, <1>3, <1>7 DEF FallsBack

(* The layer is in step within a round, and behind it. *)
LEMMA InStepAtYield ==
  ASSUME UNCHANGED <<setup, began>>, phase' = "yield", ~ready', ~stats'.fallback,
         round'.num > 0, Len(round'.drafts) = round'.num,
         NEW text, text = Read' \o Values(round'.tokens),
         hidden' + round'.n + 1 = Len(Read') + Len(round'.tokens), hidden' > Len(Context'),
         drafter' = Layer(text, hidden' + Min({round'.n, round'.num - 1}) - 1),
         round'.n = round'.num => Last(round'.drafts) = text[hidden' + round'.n]
  PROVE  LayerInStep'
<1>1. Values(round.tokens)' = Values(round'.tokens)
  BY DEF Values
<1>2. Layer(Read \o Values(round.tokens), hidden + Min({round.n, round.num - 1}) - 1)'
        = Layer(text, hidden' + Min({round'.n, round'.num - 1}) - 1)
  <2>1. From' = From /\ Own' = Own
    BY DEF From, Own, Context, Pairs
  <2> QED BY <1>1, <2>1 DEF Layer, Later
<1>3. (Read \o Values(round.tokens))' = text
  BY <1>1
<1>4. ((Read \o Values(round.tokens))[hidden + round.n])' = text[hidden' + round'.n]
  BY <1>1
<1> QED BY <1>2, <1>3, <1>4 DEF LayerInStep

(* When a round of MTP yields, for a step that says what it makes of the *)
(* round.                                                                *)
LEMMA InLayerRoundAt ==
  ASSUME NEW t, t = round'.tokens, NEW v, v = Values(t),
         Len(t) \in 1..round'.n + 1, suspended' => Len(t) <= round'.n,
         target' = Read' \o Front(v),
         \A i \in DOMAIN t : /\ t[i].given = Read' \o SubSeq(v, 1, i - 1)
                              /\ t[i].seen = History' \o SubSeq(v, 1, i - 1),
         stats'.accepted + Len(t) - 1 <= stats'.drafted
  PROVE  InLayerRound'
<1>1. Values(round.tokens)' = v
  BY DEF Values
<1> QED BY <1>1 DEF InLayerRound

(* A round of MTP keeps the invariant: both caches end at what was accepted. *)
LEMMA RoundMTPKeeps ==
  ASSUME IInv, RoundMTP
  PROVE  IInv' /\ Simulated
<1> USE DEF IInv
<1>1. PICK num, read, k : num = NumDraftMTP /\ read = target \o current /\ k = Len(target)
  OBVIOUS
<1>2. /\ phase = "draft" /\ Is("mtp") /\ Len(out) < MaxTokens /\ NumDraftMTP > 0
      /\ ready' = FALSE /\ phase' = "yield" /\ suspended' = FALSE /\ out' = out
      /\ UNCHANGED <<fixed, rest, prev, current, draftY>>
  BY DEF RoundMTP, Running
<1>2a. PICK d \in [1..num -> Tokens], s \in [1..num + 1 -> Tokens] :
        LET accepted == Max({n \in 0..num : SubSeq(s, 1, n) = SubSeq(d, 1, n)})
            pairs == Pairs(current \o Front(d), hidden)
            all == drafter \o (IF ready THEN Tail(pairs) ELSE pairs)
        IN  /\ round' = [drafts |-> d, num |-> num, n |-> accepted,
                         tokens |-> [i \in 1..accepted + 1 |->
                                       Sampled(s[i], read \o SubSeq(d, 1, i - 1),
                                               prev \o SubSeq(s, 1, i - 1))]]
            /\ target' = DropLast(read \o d, num - accepted)
            /\ drafter' = DropLast(all, Max({num - accepted - 1, 0}))
            /\ stats' = [stats EXCEPT !.drafted = @ + num]
            /\ hidden' = k + 1
  BY <1>1, Zenon DEF RoundMTP
<1>3. PICK a, w, all :
        /\ a = Max({n \in 0..num : SubSeq(s, 1, n) = SubSeq(d, 1, n)})
        /\ w = current \o Front(d)
        /\ all = drafter \o (IF ready THEN Tail(Pairs(w, hidden)) ELSE Pairs(w, hidden))
        /\ round' = [drafts |-> d, num |-> num, n |-> a,
                     tokens |-> [i \in 1..a + 1 |-> Sampled(s[i], read \o SubSeq(d, 1, i - 1),
                                                            prev \o SubSeq(s, 1, i - 1))]]
        /\ target' = DropLast(read \o d, num - a)
        /\ drafter' = DropLast(all, Max({num - a - 1, 0}))
        /\ stats' = [stats EXCEPT !.drafted = @ + num]
        /\ hidden' = k + 1
  <2>1. PICK a, w : /\ a = Max({n \in 0..num : SubSeq(s, 1, n) = SubSeq(d, 1, n)})
                    /\ w = current \o Front(d)
    OBVIOUS
  <2>2. PICK all : all = drafter \o (IF ready THEN Tail(Pairs(w, hidden)) ELSE Pairs(w, hidden))
    OBVIOUS
  <2> QED BY <1>2a, <2>1, <2>2, Zenon
<1>4. /\ setup' = setup /\ turn' = turn /\ prompt' = prompt /\ began' = began /\ stored' = stored
      /\ rest' = rest /\ prev' = prev /\ current' = current /\ draftY' = draftY
  BY <1>2 DEF fixed
<1>5. /\ turn > 0 /\ target \in Seq(Tokens) /\ k \in Nat
      /\ Read \in Seq(Tokens) /\ Len(Read) = k + 1
      /\ From \in Nat \ {0} /\ From <= k /\ Pieces = Pair /\ hidden = k
      /\ Len(Context) <= k /\ Len(Context) \in Nat
      /\ prev = History /\ History \in Seq(Tokens) /\ out # <<>> /\ drafter \in Seq(Pair)
      /\ \E c \in Tokens : current = <<c>> /\ Read = target \o <<c>>
  BY <1>1, <1>2, LayerAtDraft, Zenon
<1>6. PICK c \in Tokens : current = <<c>> /\ Read = target \o <<c>>
  BY <1>5
<1>7. read = Read /\ w = <<c>> \o Front(d)
  BY <1>1, <1>3, <1>6
<1>8. num \in Nat \ {0} /\ num <= setup.num /\ ~stats.fallback /\ Len(out) # MaxTokens
  BY <1>1, <1>2, ProposalsMade
<1>9. d \in Seq(Tokens) /\ Len(d) = num /\ d # <<>>
  <2>1. num \in Nat
    BY <1>8
  <2>2. d \in Seq(Tokens) /\ Len(d) = num
    BY <2>1, FunctionSeq
  <2> QED BY <1>8, <2>2, EmptySeq
<1>10. s \in Seq(Tokens) /\ Len(s) = num + 1
  <2>1. num + 1 \in Nat
    BY <1>8
  <2> QED BY <2>1, FunctionSeq
<1>11. /\ a \in 0..num /\ SubSeq(s, 1, a) = SubSeq(d, 1, a) /\ \A i \in 1..a : s[i] = d[i]
  <2>1. /\ d \in Seq(Tokens) /\ s \in Seq(Tokens) /\ Len(s) = Len(d) + 1
        /\ a = Max({n \in 0..Len(d) : SubSeq(s, 1, n) = SubSeq(d, 1, n)})
    BY <1>3, <1>9, <1>10
  <2> HIDE DEF IInv
  <2>2. a \in 0..Len(d) /\ SubSeq(s, 1, a) = SubSeq(d, 1, a) /\ \A i \in 1..a : s[i] = d[i]
    BY <2>1, AcceptedPart
  <2> QED BY <1>9, <2>2
<1>12. PICK text, t, v, j :
         /\ text = read \o d /\ t = round'.tokens /\ v = SubSeq(s, 1, a + 1)
         /\ j = Min({a, num - 1})
  OBVIOUS
<1>13. /\ t \in Seq(Samples) /\ Len(t) = a + 1 /\ Values(t) = v /\ Front(v) = SubSeq(s, 1, a)
       /\ \A i \in DOMAIN t : /\ t[i].given = Read \o SubSeq(v, 1, i - 1)
                              /\ t[i].seen = History \o SubSeq(v, 1, i - 1)
  <2>1. t = SampledPart(d, s, read, prev, a + 1)
    <3>1. t = [i \in 1..a + 1 |-> Sampled(s[i], read \o SubSeq(d, 1, i - 1),
                                          prev \o SubSeq(s, 1, i - 1))]
      BY <1>3, <1>12
    <3> QED BY <3>1, Zenon DEF SampledPart
  <2>2. /\ s \in [1..Len(d) + 1 -> Tokens] /\ a \in 0..Len(d) /\ d \in Seq(Tokens)
        /\ Read \in Seq(Tokens) /\ History \in Seq(Tokens) /\ \A i \in 1..a : s[i] = d[i]
        /\ t = SampledPart(d, s, Read, History, a + 1)
    BY <1>5, <1>7, <1>9, <1>11, <2>1
  <2> HIDE DEF IInv
  <2>4. LET u == SampledPart(d, s, Read, History, a + 1)
        IN  /\ u \in Seq(Samples) /\ Len(u) = a + 1
            /\ Values(u) = SubSeq(s, 1, a + 1) /\ Front(Values(u)) = SubSeq(s, 1, a)
            /\ \A i \in DOMAIN u : /\ u[i].given = Read \o SubSeq(Values(u), 1, i - 1)
                                   /\ u[i].seen = History \o SubSeq(Values(u), 1, i - 1)
    BY <2>2, SamplesOfPart, Zenon
  <2>3. /\ t \in Seq(Samples) /\ Len(t) = a + 1
        /\ Values(t) = SubSeq(s, 1, a + 1) /\ Front(Values(t)) = SubSeq(s, 1, a)
        /\ \A i \in DOMAIN t : /\ t[i].given = Read \o SubSeq(Values(t), 1, i - 1)
                               /\ t[i].seen = History \o SubSeq(Values(t), 1, i - 1)
    BY <2>2, <2>4, Zenon
  <2> QED BY <1>12, <2>3, Zenon
<1>14. v \in Seq(Tokens) /\ Len(v) = a + 1 /\ \A i \in 1..a + 1 : v[i] = s[i]
  <2>1. a + 1 \in 0..Len(s) /\ s \in Seq(Tokens)
    BY <1>8, <1>10, <1>11
  <2> HIDE DEF IInv
  <2> QED BY <1>12, <2>1, FirstPart
<1>15. all = Layer(text, k + num - 1)
  <2>1. PICK f, p : f = Layer(Read, k) /\ p = Pairs(w, k)
    OBVIOUS
  <2>2. /\ Layer(Read, k - 1) \o Pairs(w, k) = Layer(text, k + Len(d) - 1)
        /\ Layer(Read, k) \o Tail(Pairs(w, k)) = Layer(text, k + Len(d) - 1)
    <3>1. /\ Typed /\ Begun /\ turn > 0 /\ Is("mtp") /\ Read \in Seq(Tokens) /\ k \in Nat
          /\ Len(Read) = k + 1 /\ From <= k /\ d \in Seq(Tokens) /\ d # <<>>
      BY <1>2, <1>5, <1>9
    <3>2. /\ Layer(Read, k - 1) \o Pairs(<<Read[k + 1]>> \o Front(d), k)
               = Layer(Read \o d, k + Len(d) - 1)
          /\ Layer(Read, k) \o Tail(Pairs(<<Read[k + 1]>> \o Front(d), k))
               = Layer(Read \o d, k + Len(d) - 1)
      <4> HIDE DEF IInv
      <4> QED BY <3>1, DraftedLayer, Zenon
    <3>3. Read[k + 1] = c
      <4>1. target \in Seq(Tokens) /\ <<c>> \in Seq(Tokens) /\ 1 \in 1..Len(<<c>>)
        BY <1>5
      <4>2. (target \o <<c>>)[Len(target) + 1] = <<c>>[1]
        BY <4>1, ConcatTokens, Zenon
      <4>3. <<c>>[1] = c
        OBVIOUS
      <4> QED BY <1>1, <1>6, <4>2, <4>3, Zenon
    <3> QED BY <1>7, <1>12, <3>2, <3>3, Zenon
  <2>3. drafter = Layer(Read, k - (IF ready THEN 0 ELSE 1))
    BY <1>1, <1>2, <1>8, Zenon DEF LayerInStep
  <2>4. CASE ready
    <3>1. k - 0 = k
      BY <1>5
    <3>2. drafter = Layer(Read, k)
      BY <2>3, <2>4, <3>1, Zenon
    <3> QED BY <1>3, <1>5, <1>9, <2>2, <2>4, <3>2, Zenon
  <2>5. CASE ~ready
    BY <1>3, <1>5, <1>9, <2>2, <2>3, <2>5, Zenon
  <2> QED BY <2>4, <2>5
<1>16. drafter' = Layer(Read \o v, k + j)
  <2>1. /\ Typed /\ Begun /\ turn > 0 /\ Is("mtp") /\ Read \in Seq(Tokens) /\ k \in Nat
        /\ Len(Read) = k + 1 /\ From <= k /\ d \in Seq(Tokens) /\ d # <<>> /\ s \in Seq(Tokens)
        /\ Len(s) = Len(d) + 1 /\ a \in 0..Len(d) /\ (\A i \in 1..a : s[i] = d[i])
    BY <1>2, <1>5, <1>7, <1>9, <1>10, <1>11, <1>12
  <2>2. DropLast(Layer(Read \o d, k + Len(d) - 1), Max({Len(d) - a - 1, 0}))
          = Layer(Read \o SubSeq(s, 1, a + 1), k + Min({a, Len(d) - 1}))
    <3> HIDE DEF IInv
    <3>1. KeepsAccepted(Read, d, s, a, k)
      BY <2>1, KeptLayer, Zenon
    <3> QED BY <3>1, Zenon DEF KeepsAccepted
  <2> QED BY <1>3, <1>7, <1>9, <1>12, <1>15, <2>2, Zenon
<1>17. target' = Read \o Front(v) /\ target' \in Seq(Tokens)
  <2>1. Read \in Seq(Tokens) /\ d \in Seq(Tokens) /\ a \in 0..Len(d)
    BY <1>5, <1>9, <1>11
  <2>2. DropLast(Read \o d, Len(d) - a) = Read \o SubSeq(d, 1, a)
    <3> HIDE DEF IInv
    <3> QED BY <2>1, FirstOfConcat
  <2>3. SubSeq(d, 1, a) \in Seq(Tokens)
    BY <2>1, FirstPart
  <2>4. Read \o SubSeq(d, 1, a) \in Seq(Tokens)
    BY <2>1, <2>3, ConcatTokens, Zenon
  <2> QED BY <1>3, <1>7, <1>9, <1>11, <1>13, <2>2, <2>4, Zenon
<1>18. drafter' \in Seq(Pair)
  <2>1. drafter' = DropLast(drafter', 0) \/ TRUE
    OBVIOUS
  <2>2. Read \o v \in Seq(Tokens) /\ Len(Read \o v) = k + 1 + a + 1
    <3>1. Read \o v \in Seq(Tokens) /\ Len(Read \o v) = Len(Read) + Len(v)
      BY <1>5, <1>14, ConcatTokens, Zenon
    <3>2. Len(Read \o v) = (k + 1) + (a + 1)
      BY <1>5, <1>14, <3>1, Zenon
    <3> QED BY <1>5, <1>11, <3>1, <3>2
  <2>3. PICK u, n : u = Read \o v /\ n = k + j
    OBVIOUS
  <2>4. j \in Nat /\ j <= a
    <3>1. PICK q : q = num - 1
      OBVIOUS
    <3>2. a \in Int /\ q \in Int
      BY <1>8, <1>11, <3>1
    <3>3. j = (IF a <= q THEN a ELSE q)
      BY <1>12, <3>1, <3>2, LesserOf, Zenon
    <3> QED BY <1>8, <1>11, <3>1, <3>3
  <2>5. /\ Typed /\ Begun /\ turn > 0 /\ Is("mtp") /\ u \in Seq(Tokens) /\ n \in Nat
        /\ From - 1 <= n /\ n + 1 <= Len(u)
    BY <1>2, <1>5, <1>11, <2>2, <2>3, <2>4
  <2>6. Layer(u, n) \in Seq(Pair)
    <3> HIDE DEF IInv
    <3> QED BY <2>5, LayerProperties
  <2> QED BY <1>16, <2>3, <2>6, Zenon
<1>19. /\ Context' = Context /\ Read' = Read /\ History' = History
       /\ HistoryWhole'
       /\ \A m : Is(m)' = Is(m)
  BY <1>2, <1>4, SameTexts
<1>20. round'.num = num /\ round'.n = a /\ round'.drafts = d /\ round' \in Rounds
  <2>1. num \in Nat /\ a \in Nat
    BY <1>8, <1>11
  <2> QED BY <1>3, <1>9, <1>12, <1>13, <2>1 DEF Rounds

<1>21. LayerInStep'
  <2>1. hidden' + a + 1 = Len(Read) + Len(t) /\ hidden' > Len(Context)
    <3>1. PICK x, y, z, u : x = hidden' /\ y = Len(Read) /\ z = Len(t) /\ u = Len(Context)
      OBVIOUS
    <3>2. x = k + 1 /\ y = k + 1 /\ z = a + 1 /\ u <= k /\ u \in Nat
      BY <1>3, <1>5, <1>13, <3>1, Zenon
    <3>3. k \in Nat /\ a \in Nat
      BY <1>5, <1>11
    <3>4. x + a + 1 = y + z /\ x > u
      BY <3>2, <3>3
    <3> QED BY <3>1, <3>4, Zenon
  <2>2. drafter' = Layer(Read \o v, hidden' + Min({a, num - 1}) - 1)
    <3>1. k + j = hidden' + j - 1
      <4>1. j \in Int /\ k \in Int
        <5>1. PICK q : q = num - 1
          OBVIOUS
        <5>2. a \in Int /\ q \in Int
          BY <1>8, <1>11, <5>1
        <5>3. j = (IF a <= q THEN a ELSE q)
          BY <1>12, <5>1, <5>2, LesserOf, Zenon
        <5> QED BY <1>5, <5>2, <5>3
      <4> QED BY <1>3, <4>1
    <3> QED BY <1>12, <1>16, <3>1, Zenon
  <2>3. ASSUME a = num PROVE Last(d) = (Read \o v)[hidden' + a]
    <3>1. Last(d) = d[num]
      BY <1>9 DEF Last
    <3>2. num \in 1..a /\ num \in 1..a + 1 /\ num \in 1..Len(v)
      BY <1>8, <1>14, <2>3
    <3>3. d[num] = v[num]
      BY <1>11, <1>14, <3>2
    <3>4. (Read \o v)[Len(Read) + num] = v[num]
      BY <1>5, <1>14, <3>2, ConcatTokens, Zenon
    <3>5. Len(Read) + num = hidden' + a
      BY <1>3, <1>5, <2>3, Zenon
    <3> QED BY <3>1, <3>3, <3>4, <3>5, Zenon
  <2>4. /\ phase' = "yield" /\ ~ready' /\ ~stats'.fallback /\ round'.num > 0
        /\ Len(round'.drafts) = round'.num
    <3>1. ~stats'.fallback
      BY <1>3, <1>8 DEF Typed
    <3> QED BY <1>2, <1>8, <1>9, <1>20, <3>1
  <2>5. hidden' + round'.n + 1 = Len(Read') + Len(round'.tokens) /\ hidden' > Len(Context')
    BY <1>12, <1>19, <1>20, <2>1, Zenon
  <2>6. Read \o v = Read' \o Values(round'.tokens)
    BY <1>12, <1>13, <1>19, Zenon
  <2>7. /\ drafter' = Layer(Read \o v, hidden' + Min({round'.n, round'.num - 1}) - 1)
        /\ round'.n = round'.num => Last(round'.drafts) = (Read \o v)[hidden' + round'.n]
    BY <1>20, <2>2, <2>3, Zenon
  <2> QED BY <1>4, <2>4, <2>5, <2>6, <2>7, InStepAtYield, Zenon
<1>22. Typed'
  <2>1. hidden' \in Nat /\ phase' \in Phases /\ ready' \in BOOLEAN /\ suspended' \in BOOLEAN
    <3>1. hidden' \in Nat
      BY <1>3, <1>5
    <3>2. phase' \in Phases
      BY <1>2 DEF Phases
    <3> QED BY <1>2, <3>1, <3>2, Zenon
  <2>2. stats' \in Counts /\ stats'.accepted <= stats'.drafted
    <3>1. num \in Nat /\ stats' = [stats EXCEPT !.drafted = @ + num]
      BY <1>3, <1>8
    <3>2. stats \in Counts /\ stats.accepted <= stats.drafted
      BY DEF Typed, Counts
    <3> HIDE DEF IInv
    <3> QED BY <3>1, <3>2 DEF Counts
  <2>3. round'.n <= round'.num /\ round'.num <= setup.num
    BY <1>8, <1>11, <1>20
  <2>4. drafter' \in Seq(Pieces)
    BY <1>5, <1>18
  <2> QED BY <1>2, <1>4, <1>17, <1>20, <2>1, <2>2, <2>3, <2>4, StillTyped, Zenon
          DEF Typed
<1>23. Begun'
  BY <1>2, <1>5, StillBegun DEF Is
<1>24. InLayerRound'
  <2>1. Len(t) \in 1..a + 1
    BY <1>11, <1>13
  <2>2. stats'.accepted + Len(t) - 1 <= stats'.drafted
    <3>1. PICK x, y : x = stats.accepted /\ y = stats.drafted
      OBVIOUS
    <3>2. x \in Nat /\ y \in Nat /\ x <= y /\ stats'.accepted = x /\ stats'.drafted = y + num
      BY <1>3, <3>1 DEF Typed
    <3> QED BY <1>8, <1>11, <1>13, <3>2
  <2>3. Values(round'.tokens) = v /\ round'.tokens = t
    BY <1>12, <1>13, Zenon
  <2>4. Len(t) \in 1..round'.n + 1 /\ (suspended' => Len(t) <= round'.n)
    BY <1>2, <1>20, <2>1
  <2>5. /\ target' = Read' \o Front(v)
        /\ \A i \in DOMAIN t : /\ t[i].given = Read' \o SubSeq(v, 1, i - 1)
                               /\ t[i].seen = History' \o SubSeq(v, 1, i - 1)
    BY <1>13, <1>17, <1>19
  <2> QED BY <1>12, <1>13, <2>2, <2>4, <2>5, InLayerRoundAt, Zenon
<1>25. LayerHistory'
  BY <1>2, <1>4, <1>5, <1>19 DEF LayerHistory
<1>26. Simulated
  BY <1>2, <1>4 DEF Simulated
<1>27. ~Is("draft")'
  BY <1>2, <1>4 DEF Is
<1> QED BY <1>2, <1>19, <1>21, <1>22, <1>23, <1>24, <1>25, <1>26, <1>27, OtherPhases

(* A text without its first token. *)
LEMMA BehindHead ==
  ASSUME NEW s \in Seq(Tokens), Len(s) >= 1
  PROVE  /\ Tail(s) \in Seq(Tokens) /\ Len(Tail(s)) = Len(s) - 1 /\ s[1] \in Tokens
         /\ s = <<s[1]>> \o Tail(s) /\ <<s[1]>> \in Seq(Tokens)
         /\ Len(s) > 1 => Front(s) = <<s[1]>> \o Front(Tail(s)) /\ Front(Tail(s)) \in Seq(Tokens)
         /\ Len(s) = 1 => Front(s) = <<>>
         /\ \A i \in 1..Len(s) - 1 : /\ SubSeq(s, 1, i) = <<s[1]>> \o SubSeq(Tail(s), 1, i - 1)
                                     /\ SubSeq(Tail(s), 1, i - 1) \in Seq(Tokens)
<1>1. PICK h, u, n : h = <<s[1]>> /\ u = Tail(s) /\ n = Len(s)
  OBVIOUS
<1>2. n \in Nat /\ n >= 1 /\ s # <<>> /\ s[1] \in Tokens
  <2>1. n \in Nat /\ n >= 1
    BY <1>1, LenProperties
  <2>2. s # <<>>
    BY <1>1, <2>1
  <2>3. 1 \in 1..Len(s)
    BY <1>1, <2>1
  <2> QED BY <2>1, <2>2, <2>3, ElementOfSeq
<1>3. /\ u \in Seq(Tokens) /\ Len(u) = n - 1 /\ \A i \in 1..n - 1 : u[i] = s[i + 1]
  BY <1>1, <1>2, HeadTailProperties
<1>4. h \in Seq(Tokens) /\ Len(h) = 1 /\ h[1] = s[1]
  BY <1>1, <1>2
<1>5. s = h \o u
  <2>1. /\ h \o u \in Seq(Tokens) /\ Len(h \o u) = Len(h) + Len(u)
        /\ \A i \in 1..Len(h) : (h \o u)[i] = h[i]
        /\ \A i \in 1..Len(u) : (h \o u)[Len(h) + i] = u[i]
    BY <1>3, <1>4, ConcatTokens, Zenon
  <2>2. Len(h \o u) = n
    BY <1>2, <1>3, <1>4, <2>1
  <2>3. \A i \in 1..n : (h \o u)[i] = s[i]
    <3> TAKE i \in 1..n
    <3>1. CASE i = 1
      <4>1. 1 \in 1..Len(h)
        BY <1>4
      <4> QED BY <1>4, <2>1, <3>1, <4>1
    <3>2. CASE i # 1
      <4>1. PICK j : j = i - 1
        OBVIOUS
      <4>2. j \in 1..n - 1 /\ i = j + 1 /\ i = 1 + j
        BY <1>2, <3>2, <4>1
      <4>3. (h \o u)[1 + j] = u[j]
        BY <1>3, <1>4, <2>1, <4>2
      <4> QED BY <1>3, <4>2, <4>3
    <3> QED BY <3>1, <3>2
  <2> QED BY <1>1, <2>1, <2>2, <2>3, SeqEqual
<1>6. ASSUME NEW m \in 0..n - 1
      PROVE  SubSeq(s, 1, m + 1) = h \o SubSeq(u, 1, m) /\ SubSeq(u, 1, m) \in Seq(Tokens)
  <2>1. m \in 0..Len(u)
    BY <1>2, <1>3
  <2>2. SubSeq(h \o u, 1, Len(h) + m) = h \o SubSeq(u, 1, m)
    BY <1>3, <1>4, <2>1, FirstOfConcat
  <2>3. Len(h) + m = m + 1
    BY <1>4
  <2>4. SubSeq(u, 1, m) \in Seq(Tokens)
    BY <1>3, <2>1, FirstPart
  <2> QED BY <1>5, <2>2, <2>3, <2>4
<1>7. ASSUME n > 1
      PROVE  Front(s) = h \o Front(u) /\ Front(u) \in Seq(Tokens)
  <2>1. PICK m : m = n - 2
    OBVIOUS
  <2>2. m \in 0..n - 1 /\ m + 1 = n - 1 /\ Len(u) - 1 = m
    BY <1>2, <1>3, <1>7, <2>1
  <2>3. Front(s) = SubSeq(s, 1, m + 1) /\ Front(u) = SubSeq(u, 1, m)
    BY <1>1, <2>2 DEF Front
  <2> QED BY <1>6, <2>2, <2>3
<1>8. n = 1 => Front(s) = <<>>
  BY <1>1, OneElement
<1>9. ASSUME NEW i \in 1..n - 1
      PROVE  SubSeq(s, 1, i) = h \o SubSeq(u, 1, i - 1) /\ SubSeq(u, 1, i - 1) \in Seq(Tokens)
  <2>1. PICK m : m = i - 1
    OBVIOUS
  <2>2. m \in 0..n - 1 /\ m + 1 = i
    BY <1>2, <2>1
  <2> QED BY <1>6, <2>1, <2>2
<1> QED BY <1>1, <1>2, <1>3, <1>4, <1>5, <1>7, <1>8, <1>9, Zenon

(* The next token of a round is sampled as it should be. *)
LEMMA RightInLayerRound ==
  ASSUME IInv, phase = "yield", Is("mtp"), Len(out) < MaxTokens,
         Yielded(Head(round.tokens))
  PROVE  /\ RightYield(Head(round.tokens)) /\ turn > 0
         /\ round.tokens \in Seq(Samples) /\ Len(round.tokens) >= 1 /\ Len(round.tokens) \in Nat
         /\ Values(round.tokens) \in Seq(Tokens)
         /\ Len(Values(round.tokens)) = Len(round.tokens)
         /\ Head(round.tokens).token = Values(round.tokens)[1]
         /\ Values(Tail(round.tokens)) = Tail(Values(round.tokens))
         /\ Tail(round.tokens) \in Seq(Samples)
         /\ Len(Tail(round.tokens)) = Len(round.tokens) - 1
         /\ \A i \in 1..Len(round.tokens) - 1 : Tail(round.tokens)[i] = round.tokens[i + 1]
<1> USE DEF IInv
<1>1. turn > 0
  BY DEF Begun, Typed
<1>2. PICK t, v : t = round.tokens /\ v = Values(t)
  OBVIOUS
<1>3. t \in Seq(Samples) /\ Len(t) >= 1 /\ Len(t) \in Nat
  <2>1. t \in Seq(Samples) /\ Len(t) \in 1..round.n + 1
    BY <1>2 DEF Typed, InLayerRound
  <2> QED BY <2>1, LenProperties
<1>4. v \in Seq(Tokens) /\ Len(v) = Len(t) /\ \A i \in 1..Len(t) : v[i] = t[i].token
  BY <1>2, <1>3, ValuesProperties
<1>5. t # <<>> /\ 1 \in DOMAIN t /\ 1 \in 1..Len(t)
  BY <1>3
<1>6. Head(t) = t[1] /\ t[1] \in Samples
  BY <1>3, <1>5, ElementOfSeq
<1>7. t[1].given = Read /\ t[1].seen = History
  <2>1. t[1].given = Read \o SubSeq(v, 1, 1 - 1) /\ t[1].seen = History \o SubSeq(v, 1, 1 - 1)
    BY <1>2, <1>5 DEF InLayerRound
  <2>2. SubSeq(v, 1, 0) = <<>>
    BY <1>4, WholeSeq
  <2>3. Read \in Seq(Tokens) /\ History \in Seq(Tokens)
    BY <1>1, Texts
  <2>4. Read \o <<>> = Read /\ History \o <<>> = History
    BY <2>3, WholeSeq
  <2>5. 1 - 1 = 0
    OBVIOUS
  <2> QED BY <2>1, <2>2, <2>4, <2>5
<1>8. RightYield(Head(t))
  BY <1>2, <1>6, <1>7 DEF RightYield
<1>9. PICK u : u = Tail(t)
  OBVIOUS
<1>10. u \in Seq(Samples) /\ Len(u) = Len(t) - 1 /\ \A i \in 1..Len(t) - 1 : u[i] = t[i + 1]
  BY <1>3, <1>5, <1>9, HeadTailProperties
<1>11. Values(u) = Tail(v)
  <2>1. /\ Values(u) \in Seq(Tokens) /\ Len(Values(u)) = Len(u)
        /\ \A i \in 1..Len(u) : Values(u)[i] = u[i].token
    BY <1>10, ValuesProperties
  <2>2. v # <<>>
    BY <1>3, <1>4
  <2>3. /\ Tail(v) \in Seq(Tokens) /\ Len(Tail(v)) = Len(v) - 1
        /\ \A i \in 1..Len(v) - 1 : Tail(v)[i] = v[i + 1]
    BY <1>4, <2>2, HeadTailProperties
  <2>4. ASSUME NEW i \in 1..Len(u) PROVE Values(u)[i] = Tail(v)[i]
    <3>1. i \in 1..Len(t) - 1 /\ i \in 1..Len(v) - 1 /\ i + 1 \in 1..Len(t)
      BY <1>3, <1>4, <1>10
    <3> QED BY <1>4, <1>10, <2>1, <2>3, <2>4, <3>1
  <2>5. Len(Values(u)) = Len(Tail(v))
    BY <1>4, <1>10, <2>1, <2>3
  <2>6. \A i \in 1..Len(Values(u)) : Values(u)[i] = Tail(v)[i]
    BY <2>1, <2>4
  <2> HIDE DEF IInv
  <2> QED BY <2>1, <2>3, <2>5, <2>6, SeqEqual
<1>12. Head(t).token = v[1]
  BY <1>4, <1>5, <1>6
<1> QED BY <1>1, <1>2, <1>3, <1>4, <1>8, <1>9, <1>10, <1>11, <1>12, Zenon

(* Yielding an accepted proposal of MTP keeps the invariant. *)
LEMMA YieldAcceptedMTPKeeps ==
  ASSUME IInv, YieldAcceptedMTP
  PROVE  IInv' /\ Simulated
<1> USE DEF IInv
<1>1. PICK t, v, x, u, w : /\ t = round.tokens /\ v = Values(t) /\ x = Head(t)
                           /\ u = Tail(t) /\ w = Tail(v)
  OBVIOUS
<1>2. /\ phase = "yield" /\ phase' = phase /\ Is("mtp") /\ Len(t) > 1 /\ Len(out) < MaxTokens
      /\ Yielded(x) /\ current' = <<x.token>> /\ prev' = Append(prev, x.token)
      /\ round' = [round EXCEPT !.tokens = Tail(@)]
      /\ stats' = [stats EXCEPT !.accepted = @ + 1]
      /\ UNCHANGED <<fixed, rest, target, drafter, draftY, hidden, ready>>
  BY <1>1 DEF YieldAcceptedMTP
<1>3. /\ setup' = setup /\ turn' = turn /\ prompt' = prompt /\ began' = began /\ stored' = stored
      /\ rest' = rest /\ target' = target /\ drafter' = drafter /\ draftY' = draftY
      /\ hidden' = hidden /\ ready' = ready
  BY <1>2 DEF fixed
<1>4. /\ RightYield(x) /\ turn > 0
      /\ t \in Seq(Samples) /\ Len(t) >= 1 /\ Len(t) \in Nat
      /\ v \in Seq(Tokens) /\ Len(v) = Len(t) /\ x.token = v[1] /\ Values(u) = w
      /\ u \in Seq(Samples) /\ Len(u) = Len(t) - 1
      /\ \A i \in 1..Len(t) - 1 : u[i] = t[i + 1]
  <2>1. Yielded(Head(round.tokens))
    BY <1>1, <1>2, Zenon
  <2>2. /\ RightYield(Head(round.tokens)) /\ turn > 0
        /\ round.tokens \in Seq(Samples) /\ Len(round.tokens) >= 1 /\ Len(round.tokens) \in Nat
        /\ Values(round.tokens) \in Seq(Tokens)
        /\ Len(Values(round.tokens)) = Len(round.tokens)
        /\ Head(round.tokens).token = Values(round.tokens)[1]
        /\ Values(Tail(round.tokens)) = Tail(Values(round.tokens))
        /\ Tail(round.tokens) \in Seq(Samples)
        /\ Len(Tail(round.tokens)) = Len(round.tokens) - 1
        /\ \A i \in 1..Len(round.tokens) - 1 : Tail(round.tokens)[i] = round.tokens[i + 1]
    <3> HIDE DEF IInv
    <3> QED BY <1>2, <2>1, RightInLayerRound, Zenon
  <2> QED BY <1>1, <2>2, Zenon
<1>5. PICK o : o = <<x.token>>
  OBVIOUS
<1>6. /\ w \in Seq(Tokens) /\ Len(w) = Len(v) - 1 /\ o \in Seq(Tokens) /\ v = o \o w
      /\ Front(v) = o \o Front(w) /\ Front(w) \in Seq(Tokens)
      /\ \A i \in 1..Len(v) - 1 : /\ SubSeq(v, 1, i) = o \o SubSeq(w, 1, i - 1)
                                  /\ SubSeq(w, 1, i - 1) \in Seq(Tokens)
  <2>1. v \in Seq(Tokens) /\ Len(v) >= 1 /\ Len(v) > 1
    BY <1>2, <1>4
  <2>2. /\ Tail(v) \in Seq(Tokens) /\ Len(Tail(v)) = Len(v) - 1 /\ v[1] \in Tokens
        /\ v = <<v[1]>> \o Tail(v) /\ <<v[1]>> \in Seq(Tokens)
        /\ Front(v) = <<v[1]>> \o Front(Tail(v)) /\ Front(Tail(v)) \in Seq(Tokens)
        /\ \A i \in 1..Len(v) - 1 : /\ SubSeq(v, 1, i) = <<v[1]>> \o SubSeq(Tail(v), 1, i - 1)
                                    /\ SubSeq(Tail(v), 1, i - 1) \in Seq(Tokens)
    BY <2>1, BehindHead, Zenon
  <2> QED BY <1>1, <1>4, <1>5, <2>2, Zenon
<1>7. /\ out' \in Seq(Samples) /\ Len(out') <= MaxTokens /\ out' # <<>> /\ suspended' = TRUE
      /\ x.token \in Tokens /\ Read' = Read \o o /\ Read' \in Seq(Tokens)
      /\ History' = History \o o /\ History' \in Seq(Tokens)
      /\ Context' = Context /\ HistoryWhole' /\ \A m : Is(m)' = Is(m)
  BY <1>3, <1>4, <1>5, YieldTexts
<1>8. Read \in Seq(Tokens) /\ History \in Seq(Tokens) /\ prev = History /\ prev' = History'
  <2>1. Read \in Seq(Tokens) /\ History \in Seq(Tokens)
    BY <1>4, Texts
  <2>2. prev = History
    BY <1>2 DEF LayerHistory
  <2>3. Append(History, x.token) = History \o <<x.token>>
    BY <1>7, <2>1, FrontOfAppend
  <2> QED BY <1>2, <1>5, <1>7, <2>1, <2>2, <2>3
<1>9. \A z \in Seq(Tokens) : Read' \o z = Read \o (o \o z) /\ History' \o z = History \o (o \o z)
  <2> TAKE z \in Seq(Tokens)
  <2>1. \A left \in Seq(Tokens) : (left \o o) \o z = left \o (o \o z)
    BY <1>6, OneBehindAnother, Zenon
  <2> QED BY <1>7, <1>8, <2>1, Zenon
<1>10. /\ round'.tokens = u /\ round'.drafts = round.drafts /\ round'.num = round.num
       /\ round'.n = round.n /\ round' \in Rounds
  <2>1. round \in Rounds
    BY DEF Typed, Rounds
  <2> QED BY <1>1, <1>2, <1>4, <2>1 DEF Rounds
<1>11. stats' \in Counts /\ stats'.accepted = stats.accepted + 1 /\ stats'.drafted = stats.drafted
       /\ stats'.fallback = stats.fallback
  <2>1. stats \in Counts
    BY DEF Typed, Counts
  <2> QED BY <1>2, <2>1 DEF Counts
<1>12. /\ Len(t) \in 1..round.n + 1 /\ target = Read \o Front(v)
       /\ \A i \in DOMAIN t : /\ t[i].given = Read \o SubSeq(v, 1, i - 1)
                              /\ t[i].seen = History \o SubSeq(v, 1, i - 1)
       /\ stats.accepted + Len(t) - 1 <= stats.drafted
  BY <1>1, <1>2 DEF InLayerRound
<1>13. PICK k, n, y, q : /\ k = Len(t) /\ n = round.n /\ y = stats.accepted /\ q = stats.drafted
  OBVIOUS
<1>14. /\ k \in Nat /\ k > 1 /\ k <= n + 1 /\ n \in Nat /\ y \in Nat /\ q \in Nat /\ y + k - 1 <= q
       /\ Len(u) = k - 1
  <2>1. n \in Nat /\ y \in Nat /\ q \in Nat
    BY <1>13 DEF Typed
  <2> QED BY <1>2, <1>4, <1>12, <1>13, <2>1
<1>15. InLayerRound'
  <2>1. Len(u) \in 1..round'.n + 1 /\ (suspended' => Len(u) <= round'.n)
    BY <1>10, <1>13, <1>14
  <2>2. stats'.accepted + Len(u) - 1 <= stats'.drafted
    <3>1. y + 1 + (k - 1) - 1 <= q
      BY <1>14
    <3>2. stats'.accepted = y + 1 /\ stats'.drafted = q
      BY <1>11, <1>13
    <3> QED BY <1>14, <3>1, <3>2
  <2>3. target' = Read' \o Front(w)
    BY <1>3, <1>6, <1>9, <1>12, Zenon
  <2>4. ASSUME NEW i \in DOMAIN u
        PROVE  /\ u[i].given = Read' \o SubSeq(w, 1, i - 1)
               /\ u[i].seen = History' \o SubSeq(w, 1, i - 1)
    <3>1. i \in 1..Len(t) - 1 /\ i + 1 \in DOMAIN t /\ i \in 1..Len(v) - 1 /\ (i + 1) - 1 = i
      BY <1>4
    <3>2. u[i] = t[i + 1]
      BY <1>4, <3>1
    <3>3. t[i + 1].given = Read \o SubSeq(v, 1, i) /\ t[i + 1].seen = History \o SubSeq(v, 1, i)
      BY <1>12, <3>1
    <3>4. SubSeq(v, 1, i) = o \o SubSeq(w, 1, i - 1) /\ SubSeq(w, 1, i - 1) \in Seq(Tokens)
      BY <1>6, <3>1
    <3>5. /\ Read' \o SubSeq(w, 1, i - 1) = Read \o (o \o SubSeq(w, 1, i - 1))
          /\ History' \o SubSeq(w, 1, i - 1) = History \o (o \o SubSeq(w, 1, i - 1))
      BY <1>9, <3>4, Zenon
    <3> QED BY <3>2, <3>3, <3>4, <3>5, Zenon
  <2>5. u = round'.tokens /\ w = Values(u)
    BY <1>4, <1>10
  <2> QED BY <2>1, <2>2, <2>3, <2>4, <2>5, InLayerRoundAt, Zenon
<1>16. LayerInStep'
  <2>1. /\ ~ready /\ ~stats.fallback /\ round.num > 0 /\ Len(round.drafts) = round.num
        /\ hidden + round.n + 1 = Len(Read) + Len(round.tokens) /\ hidden > Len(Context)
        /\ drafter = Layer(Read \o Values(round.tokens),
                           hidden + Min({round.n, round.num - 1}) - 1)
        /\ round.n = round.num =>
             Last(round.drafts) = (Read \o Values(round.tokens))[hidden + round.n]
    BY <1>2 DEF LayerInStep
  <2>2. Read \o v = Read' \o Values(round'.tokens)
    BY <1>4, <1>6, <1>9, <1>10, Zenon
  <2>3. hidden' + round'.n + 1 = Len(Read') + Len(round'.tokens)
    <3>1. Len(Read \o o) = Len(Read) + Len(o) /\ Len(o) = 1 /\ Len(Read) \in Nat
      <4>1. Len(Read \o o) = Len(Read) + Len(o)
        BY <1>6, <1>8, ConcatTokens, Zenon
      <4>2. Len(o) = 1 /\ Len(Read) \in Nat
        BY <1>5, <1>8, LenProperties
      <4> QED BY <4>1, <4>2
    <3>2. PICK e, f, z : e = Len(Read) /\ f = Len(Read') /\ z = Len(round'.tokens)
      OBVIOUS
    <3>3. f = e + 1 /\ e \in Nat /\ z = k - 1 /\ hidden + n + 1 = e + k
      BY <1>1, <1>7, <1>10, <1>13, <1>14, <2>1, <3>1, <3>2, Zenon
    <3>4. f + z = e + k
      BY <1>14, <3>3
    <3> QED BY <1>3, <1>10, <1>13, <3>2, <3>3, <3>4, Zenon
  <2>4. /\ phase' = "yield" /\ ~ready' /\ ~stats'.fallback /\ round'.num > 0
        /\ Len(round'.drafts) = round'.num /\ hidden' > Len(Context')
    BY <1>2, <1>3, <1>7, <1>10, <1>11, <2>1
  <2>5. /\ drafter' = Layer(Read \o v, hidden' + Min({round'.n, round'.num - 1}) - 1)
        /\ round'.n = round'.num => Last(round'.drafts) = (Read \o v)[hidden' + round'.n]
    BY <1>1, <1>3, <1>10, <2>1, Zenon
  <2> QED BY <1>3, <2>2, <2>3, <2>4, <2>5, InStepAtYield, Zenon
<1>17. Typed'
  <2>1. round'.n <= round'.num /\ round'.num <= setup.num
    BY <1>10 DEF Typed
  <2>2. stats'.accepted <= stats'.drafted
    <3>1. y + 1 <= q
      BY <1>14
    <3> QED BY <1>11, <1>13, <3>1
  <2>3. /\ current' \in Seq(Tokens \cup Samples) /\ Len(current') <= 1 /\ prev' \in Seq(Tokens)
    BY <1>2, <1>7, <1>8
  <2> QED BY <1>2, <1>3, <1>7, <1>10, <1>11, <2>1, <2>2, <2>3, StillTyped, Zenon DEF Typed
<1>18. Begun'
  BY <1>2, <1>7, StillBegun DEF Is
<1>19. LayerHistory'
  BY <1>7, <1>8 DEF LayerHistory
<1>20. Simulated
  BY <1>2, <1>3, <1>4 DEF Simulated
<1>21. ~Is("draft")'
  BY <1>2, <1>3 DEF Is
<1> QED BY <1>2, <1>7, <1>15, <1>16, <1>17, <1>18, <1>19, <1>20, <1>21, OtherPhases

(* When the layer is to catch up, for a step that says what its cache holds. *)
LEMMA InStepAtCatchUp ==
  ASSUME UNCHANGED <<setup, began>>, phase' = "catchup", ~ready', ~stats'.fallback,
         round'.num > 0, Len(round'.drafts) = round'.num,
         NEW text, text = Read', hidden' = Len(target'), hidden' > Len(Context'),
         drafter' = Layer(text, hidden' - (IF round'.n = round'.num THEN 2 ELSE 1)),
         round'.n = round'.num => Last(round'.drafts) = text[hidden']
  PROVE  LayerInStep'
<1>1. Layer(Read, hidden - (IF round.n = round.num THEN 2 ELSE 1))'
        = Layer(text, hidden' - (IF round'.n = round'.num THEN 2 ELSE 1))
  <2>1. From' = From /\ Own' = Own
    BY DEF From, Own, Context, Pairs
  <2> QED BY <2>1 DEF Layer, Later
<1>2. Read[hidden]' = text[hidden']
  OBVIOUS
<1> QED BY <1>1, <1>2 DEF LayerInStep

(* Yielding the token of the target model, the last of a round of MTP, keeps *)
(* the invariant.                                                            *)
LEMMA YieldTargetMTPKeeps ==
  ASSUME IInv, YieldTargetMTP
  PROVE  IInv' /\ Simulated
<1> USE DEF IInv
<1>1. PICK t, v, x : t = round.tokens /\ v = Values(t) /\ x = Head(t)
  OBVIOUS
<1>2. /\ phase = "yield" /\ phase' = "catchup" /\ Is("mtp") /\ Len(t) = 1 /\ Len(out) < MaxTokens
      /\ Yielded(x) /\ current' = <<x.token>> /\ prev' = Append(prev, x.token)
      /\ hidden' = hidden + round.n
      /\ UNCHANGED <<fixed, rest, target, drafter, draftY, round, ready, stats>>
  BY <1>1 DEF YieldTargetMTP
<1>3. /\ setup' = setup /\ turn' = turn /\ prompt' = prompt /\ began' = began /\ stored' = stored
      /\ rest' = rest /\ target' = target /\ drafter' = drafter /\ draftY' = draftY
      /\ round' = round /\ ready' = ready /\ stats' = stats
  BY <1>2 DEF fixed
<1>4. /\ RightYield(x) /\ turn > 0 /\ t \in Seq(Samples)
      /\ v \in Seq(Tokens) /\ Len(v) = Len(t) /\ x.token = v[1]
  <2>1. Yielded(Head(round.tokens))
    BY <1>1, <1>2, Zenon
  <2>2. /\ RightYield(Head(round.tokens)) /\ turn > 0
        /\ round.tokens \in Seq(Samples)
        /\ Values(round.tokens) \in Seq(Tokens)
        /\ Len(Values(round.tokens)) = Len(round.tokens)
        /\ Head(round.tokens).token = Values(round.tokens)[1]
    <3> HIDE DEF IInv
    <3> QED BY <1>2, <2>1, RightInLayerRound, Zenon
  <2> QED BY <1>1, <2>2, Zenon
<1>5. PICK o : o = <<x.token>>
  OBVIOUS
<1>6. o \in Seq(Tokens) /\ v = o /\ Front(v) = <<>>
  <2>1. v \in Seq(Tokens) /\ Len(v) = 1
    BY <1>2, <1>4
  <2>2. v = <<Last(v)>> /\ v[1] = Last(v) /\ Front(v) = <<>>
    BY <2>1, OneElement
  <2> QED BY <1>4, <1>5, <2>1, <2>2, Zenon
<1>7. /\ out' \in Seq(Samples) /\ Len(out') <= MaxTokens /\ out' # <<>> /\ suspended' = TRUE
      /\ x.token \in Tokens /\ Read' = Read \o o /\ Read' \in Seq(Tokens)
      /\ History' = History \o o /\ History' \in Seq(Tokens)
      /\ Context' = Context /\ HistoryWhole' /\ \A m : Is(m)' = Is(m)
  BY <1>3, <1>4, <1>5, YieldTexts
<1>8. Read \in Seq(Tokens) /\ prev' = History' /\ Len(Read) \in Nat
  <2>1. Read \in Seq(Tokens) /\ History \in Seq(Tokens)
    BY <1>4, Texts
  <2>2. prev = History
    BY <1>2 DEF LayerHistory
  <2>3. Append(History, x.token) = History \o <<x.token>>
    BY <1>7, <2>1, FrontOfAppend
  <2> QED BY <1>2, <1>5, <1>7, <2>1, <2>2, <2>3, LenProperties
<1>9. target = Read /\ target' = Read
  <2>1. target = Read \o Front(v)
    BY <1>1, <1>2 DEF InLayerRound
  <2>2. Read \o <<>> = Read
    BY <1>8, WholeSeq
  <2> QED BY <1>3, <1>6, <2>1, <2>2, Zenon
<1>10. /\ ~ready /\ ~stats.fallback /\ round.num > 0 /\ Len(round.drafts) = round.num
       /\ hidden + round.n + 1 = Len(Read) + Len(t) /\ hidden > Len(Context)
       /\ drafter = Layer(Read', hidden + Min({round.n, round.num - 1}) - 1)
       /\ round.n = round.num => Last(round.drafts) = Read'[hidden + round.n]
  <2>1. /\ ~ready /\ ~stats.fallback /\ round.num > 0 /\ Len(round.drafts) = round.num
        /\ hidden + round.n + 1 = Len(Read) + Len(t) /\ hidden > Len(Context)
        /\ drafter = Layer(Read \o v, hidden + Min({round.n, round.num - 1}) - 1)
        /\ round.n = round.num => Last(round.drafts) = (Read \o v)[hidden + round.n]
    BY <1>1, <1>2, Zenon DEF LayerInStep
  <2> QED BY <1>6, <1>7, <2>1, Zenon
<1>11. PICK n, num, h, k : n = round.n /\ num = round.num /\ h = hidden /\ k = Len(Read)
  OBVIOUS
<1>12. n \in Nat /\ num \in Nat /\ h \in Nat /\ k \in Nat /\ n <= num /\ num > 0 /\ h + n = k
  <2>1. n \in Nat /\ num \in Nat /\ h \in Nat /\ n <= num
    BY <1>11 DEF Typed
  <2>2. num > 0 /\ h + n + 1 = k + 1 /\ k \in Nat
    BY <1>2, <1>8, <1>10, <1>11
  <2> QED BY <2>1, <2>2
<1>13. LayerInStep'
  <2>1. hidden' = Len(target') /\ hidden' > Len(Context')
    <3>1. hidden' = k
      BY <1>2, <1>11, <1>12
    <3>2. h > Len(Context) /\ Len(Context) \in Nat
      <4>1. Context \in Seq(Tokens)
        BY Texts
      <4> QED BY <1>10, <1>11, <4>1, LenProperties
    <3>3. k > Len(Context)
      BY <1>12, <3>2
    <3> QED BY <1>7, <1>9, <1>11, <3>1, <3>3, Zenon
  <2>2. h + Min({n, num - 1}) - 1 = hidden' - (IF n = num THEN 2 ELSE 1)
    <3>1. PICK q : q = num - 1
      OBVIOUS
    <3>2. n \in Int /\ q \in Int
      BY <1>12, <3>1
    <3>3. Min({n, q}) = (IF n <= q THEN n ELSE q)
      BY <3>2, LesserOf, Zenon
    <3>4. hidden' = h + n
      BY <1>2, <1>11
    <3> QED BY <1>12, <3>1, <3>3, <3>4
  <2>3. PICK text : text = Read'
    OBVIOUS
  <2>4. drafter' = Layer(text, hidden' - (IF round'.n = round'.num THEN 2 ELSE 1))
    BY <1>3, <1>10, <1>11, <2>2, <2>3, Zenon
  <2>5. /\ phase' = "catchup" /\ ~ready' /\ ~stats'.fallback /\ round'.num > 0
        /\ Len(round'.drafts) = round'.num
        /\ round'.n = round'.num => Last(round'.drafts) = text[hidden']
    <3>1. ~ready' /\ ~stats'.fallback
      BY <1>3, <1>10
    <3>2. round'.num > 0 /\ Len(round'.drafts) = round'.num
      BY <1>3, <1>10, Zenon
    <3>3. round'.n = round'.num => Last(round'.drafts) = text[hidden']
      BY <1>2, <1>3, <1>10, <2>3, Zenon
    <3> QED BY <1>2, <3>1, <3>2, <3>3, Zenon
  <2> QED BY <1>3, <2>1, <2>3, <2>4, <2>5, InStepAtCatchUp, Zenon
<1>14. /\ current' \in Seq(Tokens) /\ Len(current') = 1
       /\ current' \in Seq(Tokens \cup Samples) /\ Len(current') <= 1
  BY <1>2, <1>7
<1>15. Typed'
  <2>1. hidden' \in Nat /\ phase' \in Phases
    BY <1>2, <1>11, <1>12 DEF Phases
  <2>2. prev' \in Seq(Tokens)
    BY <1>7, <1>8
  <2> QED BY <1>2, <1>3, <1>7, <1>14, <2>1, <2>2, StillTyped, Zenon DEF Typed, Rounds, Counts
<1>16. Begun'
  BY <1>2, <1>7, StillBegun DEF Is
<1>17. LayerHistory'
  BY <1>7, <1>8 DEF LayerHistory
<1>18. AtCatchUp'
  BY <1>2, <1>5, <1>7, <1>9, <1>14 DEF AtCatchUp
<1>19. Simulated
  BY <1>2, <1>3, <1>4 DEF Simulated
<1>20. ~Is("draft")'
  BY <1>2, <1>3 DEF Is
<1> QED BY <1>2, <1>7, <1>13, <1>15, <1>16, <1>17, <1>18, <1>19, <1>20, OtherPhases

(* Catching up keeps the invariant: the layer has the last proposal again if *)
(* it was accepted.                                                          *)
LEMMA CatchUpKeeps ==
  ASSUME IInv, CatchUp
  PROVE  IInv' /\ Simulated
<1> USE DEF IInv
<1>1. PICK e, h : e = Last(round.drafts) /\ h = hidden
  OBVIOUS
<1>2. /\ phase = "catchup" /\ phase' = "draft" /\ suspended' = FALSE /\ out' = out
      /\ drafter' = (IF round.n = round.num THEN Append(drafter, <<e, h - 1>>) ELSE drafter)
      /\ UNCHANGED <<fixed, rest, target, prev, loop>>
  BY <1>1 DEF CatchUp, Running
<1>3. /\ setup' = setup /\ turn' = turn /\ prompt' = prompt /\ began' = began /\ stored' = stored
      /\ rest' = rest /\ target' = target /\ prev' = prev /\ current' = current
      /\ draftY' = draftY /\ round' = round /\ hidden' = hidden /\ ready' = ready /\ stats' = stats
  BY <1>2 DEF fixed, loop
<1>4. Is("mtp") /\ turn > 0
  BY <1>2 DEF Begun, Typed
<1>5. /\ current \in Seq(Tokens) /\ Len(current) = 1 /\ target \o current = Read
      /\ target \in Seq(Tokens) /\ drafter \in Seq(Pieces) /\ prev = History /\ out # <<>>
  BY <1>2, <1>4 DEF AtCatchUp, Typed, LayerHistory
<1>6. /\ ~ready /\ ~stats.fallback /\ round.num > 0 /\ Len(round.drafts) = round.num
      /\ h = Len(target) /\ h > Len(Context)
      /\ drafter = Layer(Read, h - (IF round.n = round.num THEN 2 ELSE 1))
      /\ round.n = round.num => e = Read[h]
  BY <1>1, <1>2, <1>4, Zenon DEF LayerInStep
<1>7. /\ Read \in Seq(Tokens) /\ Len(Read) = h + 1 /\ h \in Nat /\ From \in Nat \ {0}
      /\ From < h /\ Pieces = Pair
  <2>1. Read \in Seq(Tokens)
    BY Texts
  <2>2. Len(target \o current) = Len(target) + Len(current) /\ Len(target) \in Nat
    BY <1>5, ConcatType
  <2>3. From \in Nat \ {0} /\ From <= Len(Context) /\ Len(Context) \in Nat /\ Pieces = Pair
    BY <1>4, LayerShape, Zenon
  <2> QED BY <1>5, <1>6, <2>1, <2>2, <2>3
<1>8. e \in Tokens
  <2>1. round.drafts \in Seq(Tokens)
    BY DEF Typed
  <2>2. round.drafts # <<>>
    BY <1>6, <2>1
  <2> HIDE DEF IInv
  <2> QED BY <1>1, <2>1, <2>2, FrontLast
<1>9. drafter' = Layer(Read, h - 1)
  <2>1. CASE round.n # round.num
    BY <1>2, <1>6, <2>1, Zenon
  <2>2. CASE round.n = round.num
    <3>1. PICK n, w : n = h - 2 /\ w = <<e>>
      OBVIOUS
    <3>2. /\ n \in Nat /\ From - 1 <= n /\ n + 1 <= Len(Read) /\ n + 1 = h - 1
          /\ n + 1 + 1 = h /\ n + 1 + 1 <= Len(Read)
      BY <1>7, <3>1
    <3>3. w \in Seq(Tokens) /\ Len(w) = 1 /\ w[1] = e
      BY <1>8, <3>1
    <3>4. \A i \in 1..Len(w) : Read[n + 1 + i] = w[i]
      BY <1>6, <2>2, <3>2, <3>3
    <3>5. Layer(Read, n) \in Seq(Pair) /\ Layer(Read, n) \o Pairs(w, n + 1) = Layer(Read, n + 1)
      <4>1. /\ Typed /\ Begun /\ turn > 0 /\ Is("mtp") /\ Read \in Seq(Tokens) /\ n \in Nat
            /\ From - 1 <= n /\ n + 1 <= Len(Read) /\ w \in Seq(Tokens) /\ Len(w) = 1
            /\ n + 1 + Len(w) <= Len(Read)
        BY <1>4, <1>7, <3>2, <3>3
      <4> HIDE DEF IInv
      <4>2. Layer(Read, n) \in Seq(Pair)
        BY <4>1, LayerProperties
      <4>3. Layer(Read, n) \o Pairs(w, n + 1) = Layer(Read, n + Len(w))
        BY <3>4, <4>1, LayerProperties
      <4> QED BY <4>1, <4>2, <4>3, Zenon
    <3>6. Pairs(w, n + 1) = <<(<<e, h - 1>>)>>
      <4>1. PICK p : p = Pairs(w, n + 1)
        OBVIOUS
      <4>2. p \in Seq(Pair) /\ Len(p) = 1 /\ p[1] = <<w[1], n + 1 + 1 - 1>>
        <5>1. n + 1 \in Nat /\ 1 \in 1..Len(w)
          BY <3>2, <3>3
        <5> HIDE DEF IInv
        <5> QED BY <3>3, <4>1, <5>1, PairsProperties
      <4>3. n + 1 + 1 - 1 = h - 1
        BY <1>7, <3>2
      <4>4. p = <<p[1]>>
        <5>1. p \in Seq(Pair) /\ Len(p) = 1
          BY <4>2
        <5>2. p = <<Last(p)>> /\ p[1] = Last(p)
          BY <5>1, OneElement
        <5> QED BY <5>2
      <4> QED BY <3>3, <4>1, <4>2, <4>3, <4>4, Zenon
    <3>7. PICK y, b : y = <<e, h - 1>> /\ b = drafter
      OBVIOUS
    <3>8. b \in Seq(Pair) /\ y \in Pair
      <4>1. h - 1 \in Nat
        BY <1>7
      <4> QED BY <1>5, <1>7, <1>8, <3>7, <4>1 DEF Pair
    <3>9. Append(b, y) = b \o <<y>>
      BY <3>8, FrontOfAppend
    <3>10. drafter = Layer(Read, n) /\ drafter' = Append(b, y)
      BY <1>2, <1>6, <2>2, <3>1, <3>7, Zenon
    <3> QED BY <3>2, <3>5, <3>6, <3>7, <3>9, <3>10, Zenon
  <2> QED BY <2>1, <2>2, Zenon
<1>10. drafter' \in Seq(Pieces)
  <2>1. PICK n : n = h - 1
    OBVIOUS
  <2>2. n \in Nat /\ From - 1 <= n /\ n + 1 <= Len(Read)
    BY <1>7, <2>1
  <2>3. Layer(Read, n) \in Seq(Pair)
    BY <1>4, <1>7, <2>2, LayerProperties
  <2> QED BY <1>7, <1>9, <2>1, <2>3, Zenon
<1>11. /\ Read' = Read /\ History' = History /\ HistoryWhole' /\ \A m : Is(m)' = Is(m)
  BY <1>2, <1>3, SameTexts
<1>12. LayerInStep'
  <2>1. h - 1 = Len(target') - (IF ready' THEN 0 ELSE 1)
    BY <1>3, <1>6
  <2>2. drafter' = Layer(Read', Len(target') - (IF ready' THEN 0 ELSE 1))
    BY <1>9, <1>11, <2>1, Zenon
  <2>3. IsPrefix(drafter', drafter')
    BY <1>10, PrefixItself
  <2>4. hidden' = Len(target') /\ (ready' => setup.fused)
    BY <1>1, <1>3, <1>6, Zenon
  <2> QED BY <1>2, <1>3, <2>2, <2>3, <2>4, InStepAtDraft, Zenon
<1>13. Typed'
  <2>1. phase' \in Phases
    BY <1>2 DEF Phases
  <2> QED BY <1>2, <1>3, <1>10, <2>1, StillTyped, Zenon DEF Typed, Rounds, Counts
<1>14. Begun'
  BY <1>2, <1>4, StillBegun DEF Is
<1>15. ~Is("draft")'
  BY <1>3, <1>4 DEF Is
<1>16. AtDraft'
  <2>1. current' \in Seq(Tokens) /\ Len(current') = 1 /\ target' \o current' = Read'
    BY <1>3, <1>5, <1>11, Zenon
  <2> QED BY <1>15, <2>1 DEF AtDraft
<1>17. LayerHistory'
  BY <1>2, <1>3, <1>5, <1>11 DEF LayerHistory
<1>18. Simulated
  BY <1>2, <1>3 DEF Simulated
<1> QED BY <1>2, <1>11, <1>12, <1>13, <1>14, <1>15, <1>16, <1>17, <1>18, OtherPhases

----------------------------------------
(* The end of a turn. *)

(* In a round the draft model lacks, of what was yielded, two tokens at most. *)
LEMMA RewoundNearby ==
  ASSUME Typed, phase \in {"yield", "rewind"},
         NEW r \in Seq(Tokens), NEW h \in Seq(Tokens), NEW q \in Seq(Tokens), RoundFrom(r, h, q)
  PROVE  /\ RewoundTarget \in {Read, Front(Read)}
         /\ IsPrefix(RewoundDrafter, DrafterRead)
         /\ Len(RewoundDrafter) >= Len(DrafterRead) - 2
<1>1. PICK d, n, num, first, last, c :
        /\ d = round.drafts /\ n = round.n /\ num = round.num /\ first = SubSeq(d, 1, n)
        /\ last = (IF n = num THEN Front(d) ELSE SubSeq(d, 1, n)) /\ c = Correction
  OBVIOUS
<1>2. /\ n \in 0..num /\ num \in Nat \ {0} /\ d \in Seq(Tokens) /\ Len(d) = num
      /\ round.tokens \in Seq(Samples) /\ Len(round.tokens) = num + 1
  BY <1>1, AgreedStart, Zenon
<1>3. RewoundTarget = r \o first /\ RewoundDrafter = q \o last
  BY <1>1, Rewound, Zenon
<1>4. Read = r \o (first \o c) /\ DrafterRead = q \o (first \o c)
  BY <1>1, Zenon DEF RoundFrom, Yields
<1>5. first \in Seq(Tokens)
  <2>1. n \in 0..Len(d)
    BY <1>2
  <2> QED BY <1>1, <1>2, <2>1, FirstPart
<1>6. c \in Seq(Tokens) /\ (c = <<>> \/ \E t \in Tokens : c = <<t>>)
  <2>1. CASE phase = "rewind"
    <3>1. PICK t : t = round.tokens[n + 1].token
      OBVIOUS
    <3>2. n + 1 \in 1..Len(round.tokens)
      BY <1>2
    <3>3. round.tokens[n + 1] \in Samples
      BY <1>2, <3>2, ElementOfSeq
    <3>4. t \in Tokens
      BY <3>1, <3>3 DEF Samples
    <3>5. c = <<t>>
      BY <1>1, <2>1, <3>1 DEF Correction
    <3> QED BY <3>4, <3>5
  <2>2. CASE phase # "rewind"
    <3>1. c = <<>>
      BY <1>1, <2>2 DEF Correction
    <3> QED BY <3>1
  <2> QED BY <2>1, <2>2
<1>7. r \o first \in Seq(Tokens)
  BY <1>5, ConcatTokens, Zenon
<1>8. RewoundTarget \in {Read, Front(Read)}
  <2>1. (r \o first) \o c = r \o (first \o c)
    <3>1. first \in Seq(Tokens) /\ c \in Seq(Tokens)
      BY <1>5, <1>6
    <3>2. \A left \in Seq(Tokens) : (left \o first) \o c = left \o (first \o c)
      BY <3>1, OneBehindAnother, Zenon
    <3> QED BY <3>2, Zenon
  <2>2. PICK a : a = r \o first
    OBVIOUS
  <2>3. a \in Seq(Tokens) /\ a \o c = Read
    BY <1>4, <1>7, <2>1, <2>2
  <2>4. CASE c = <<>>
    <3>1. a \o <<>> = a
      BY <2>3, WholeSeq
    <3> QED BY <1>3, <2>2, <2>3, <2>4, <3>1
  <2>5. ASSUME NEW t \in Tokens, c = <<t>> PROVE a = Front(Read)
    <3>1. Front(a \o <<t>>) = a
      BY <2>3, FrontOfAppend
    <3> QED BY <2>3, <2>5, <3>1
  <2> QED BY <1>3, <1>6, <2>2, <2>4, <2>5
<1>9. PICK x \in Seq(Tokens) : first \o c = last \o x /\ Len(x) <= 2 /\ last \in Seq(Tokens)
  <2>1. CASE n # num
    <3>1. last = first
      BY <1>1, <2>1
    <3>2. Len(c) <= 2
      BY <1>6
    <3> QED BY <1>5, <1>6, <3>1, <3>2
  <2>2. CASE n = num
    <3>1. PICK e, f, o : e = Last(d) /\ f = Front(d) /\ o = <<e>>
      OBVIOUS
    <3>2. d # <<>>
      BY <1>2
    <3>3. f \in Seq(Tokens) /\ e \in Tokens /\ d = f \o o /\ o \in Seq(Tokens)
      BY <1>2, <3>1, <3>2, FrontLast
    <3>4. first = d /\ last = f
      BY <1>1, <1>2, <2>2, <3>1, SubSeqFull
    <3>5. (f \o o) \o c = f \o (o \o c)
      <4>1. o \in Seq(Tokens) /\ c \in Seq(Tokens)
        BY <1>6, <3>3
      <4>2. \A left \in Seq(Tokens) : (left \o o) \o c = left \o (o \o c)
        BY <4>1, OneBehindAnother, Zenon
      <4> QED BY <3>3, <4>2, Zenon
    <3>6. o \o c \in Seq(Tokens) /\ Len(o \o c) <= 2
      <4>1. o \o c \in Seq(Tokens) /\ Len(o \o c) = Len(o) + Len(c)
        BY <1>6, <3>3, ConcatTokens, Zenon
      <4>2. Len(o) = 1
        BY <3>1
      <4>3. Len(c) = 0 \/ Len(c) = 1
        BY <1>6
      <4> QED BY <4>1, <4>2, <4>3
    <3> QED BY <3>3, <3>4, <3>5, <3>6, Zenon
  <2> QED BY <2>1, <2>2
<1>10. PICK b : b = q \o last
  OBVIOUS
<1>11. b \in Seq(Tokens) /\ DrafterRead = b \o x
  <2>1. \A left \in Seq(Tokens) : (left \o last) \o x = left \o (last \o x)
    <3>1. last \in Seq(Tokens) /\ x \in Seq(Tokens)
      BY <1>9
    <3> QED BY <3>1, OneBehindAnother, Zenon
  <2>2. (q \o last) \o x = q \o (last \o x)
    BY <2>1, Zenon
  <2>3. q \o last \in Seq(Tokens)
    BY <1>9, ConcatTokens, Zenon
  <2> QED BY <1>4, <1>9, <1>10, <2>2, <2>3, Zenon
<1>12. IsPrefix(b, b \o x)
  BY <1>9, <1>11, PrefixOfConcat
<1>13. Len(b) >= Len(b \o x) - 2
  <2>1. Len(b \o x) = Len(b) + Len(x)
    BY <1>9, <1>11, ConcatTokens, Zenon
  <2>2. Len(b) \in Nat /\ Len(x) \in Nat
    BY <1>9, <1>11, LenProperties
  <2> QED BY <1>9, <2>1, <2>2
<1>14. RewoundDrafter = b
  BY <1>3, <1>10
<1> QED BY <1>8, <1>11, <1>12, <1>13, <1>14, Zenon

(* The target model has, at a yield, all but the last token of what was       *)
(* yielded, or more: accepted tokens that are still to be.                   *)
LEMMA LayerNearby ==
  ASSUME IInv, suspended, Is("mtp"), phase \in {"draft", "yield", "catchup"}
  PROVE  /\ IsPrefix(Front(Read), target)
         /\ IsPrefix(target, Read) \/ IsPrefix(Read, target)
         /\ Len(target) < Len(Read) + setup.num
<1> USE DEF IInv
<1>1. /\ Read \in Seq(Tokens) /\ target \in Seq(Tokens) /\ setup.num \in Nat \ {0}
  BY Texts DEF Typed
<1>2. CASE phase \in {"draft", "catchup"}
  <2>1. current \in Seq(Tokens) /\ Len(current) = 1 /\ target \o current = Read
    BY <1>2 DEF AtDraft, AtCatchUp
  <2>2. PICK e : e = Last(current)
    OBVIOUS
  <2>3. e \in Tokens /\ current = <<e>>
    <3>1. current = <<Last(current)>> /\ current[1] = Last(current) /\ current[1] \in Tokens
      BY <2>1, OneElement
    <3> QED BY <2>2, <3>1
  <2>4. Front(target \o <<e>>) = target /\ Len(target \o <<e>>) = Len(target) + 1
    BY <1>1, <2>3, FrontOfAppend
  <2>5. IsPrefix(target, target)
    BY <1>1, PrefixItself
  <2>6. IsPrefix(target, target \o current)
    BY <1>1, <2>1, PrefixOfConcat
  <2>7. Len(target) \in Nat
    BY <1>1, LenProperties
  <2>8. Len(Read) = Len(target) + 1
    BY <2>1, <2>3, <2>4
  <2>9. Len(target) < Len(Read) + setup.num
    BY <1>1, <2>7, <2>8
  <2> QED BY <2>1, <2>3, <2>4, <2>5, <2>6, <2>9, Zenon
<1>3. CASE phase = "yield"
  <2>1. PICK t, v, f : t = round.tokens /\ v = Values(t) /\ f = Front(v)
    OBVIOUS
  <2>2. /\ Len(t) \in 1..round.n + 1 /\ Len(t) <= round.n /\ target = Read \o f
        /\ t \in Seq(Samples) /\ round.n \in Nat /\ round.num \in Nat
        /\ round.n <= round.num /\ round.num <= setup.num
    BY <1>3, <2>1 DEF InLayerRound, Typed
  <2>3. v \in Seq(Tokens) /\ Len(v) = Len(t)
    BY <2>1, <2>2, ValuesProperties
  <2>4. v # <<>>
    BY <2>2, <2>3
  <2>5. f \in Seq(Tokens) /\ Len(f) = Len(v) - 1 /\ Len(v) \in Nat
    BY <2>1, <2>3, <2>4, FrontLast
  <2>6. Len(Read \o f) = Len(Read) + Len(f)
    BY <1>1, <2>5, ConcatTokens, Zenon
  <2>7. IsPrefix(Read, Read \o f)
    BY <1>1, <2>5, PrefixOfConcat
  <2>8. Read # <<>>
    <3>1. Values(out) \in Seq(Tokens) /\ Context \in Seq(Tokens) /\ Len(Values(out)) = Len(out)
      BY Texts
    <3>2. Values(out) # <<>>
      <4>1. out # <<>> /\ out \in Seq(Samples)
        BY DEF Begun, Typed
      <4>2. Len(out) # 0
        BY <4>1, EmptySeq
      <4> QED BY <3>1, <4>2
    <3> HIDE DEF IInv
    <3> QED BY <3>1, <3>2, LastOfConcat DEF Read
  <2>9. PICK g, e : g = Front(Read) /\ e = <<Last(Read)>>
    OBVIOUS
  <2>10. g \in Seq(Tokens) /\ e \in Seq(Tokens) /\ Read = g \o e
    BY <1>1, <2>8, <2>9, FrontLast
  <2>11. IsPrefix(g, Read)
    BY <2>10, PrefixOfConcat
  <2>12. IsPrefix(g, target)
    <3>1. /\ g \in Seq(Tokens) /\ Read \in Seq(Tokens) /\ target \in Seq(Tokens)
          /\ IsPrefix(g, Read) /\ IsPrefix(Read, target)
      BY <1>1, <2>2, <2>7, <2>10, <2>11, Zenon
    <3> HIDE DEF IInv
    <3> QED BY <3>1, PrefixTransitive
  <2>13. Len(target) < Len(Read) + setup.num
    <3>1. PICK a, b, c, k : a = Len(Read) /\ b = Len(f) /\ c = Len(t) /\ k = setup.num
      OBVIOUS
    <3>2. a \in Nat /\ b = c - 1 /\ c \in Nat /\ c <= k /\ k \in Nat
      <4>1. a \in Nat
        BY <1>1, <3>1, LenProperties
      <4>2. b = c - 1 /\ c \in Nat
        BY <2>3, <2>5, <3>1
      <4>3. c <= k /\ k \in Nat
        BY <1>1, <2>2, <2>3, <2>5, <3>1
      <4> QED BY <4>1, <4>2, <4>3
    <3>3. a + b < a + k
      BY <3>2
    <3> QED BY <2>2, <2>6, <3>1, <3>3, Zenon
  <2> QED BY <2>2, <2>7, <2>9, <2>12, <2>13, Zenon
<1> QED BY <1>2, <1>3

(* The length of a pair of caches is a number. *)
LEMMA CachedLengthType ==
  ASSUME NEW T, NEW a \in Seq(Tokens), NEW b \in Seq(T)
  PROVE  CachedLength(a, b) \in Nat
<1>1. PICK x, y : x = Len(a) /\ y = Len(b)
  OBVIOUS
<1>2. x \in Nat /\ y \in Nat
  BY <1>1, LenProperties
<1>3. \A m, n \in Nat : Min({m, n}) \in Nat
  BY LesserOf
<1>4. CASE x = 0 /\ y = 0
  <2>1. {x, y} \ {0} = {}
    BY <1>4
  <2> QED BY <1>1, <2>1 DEF CachedLength
<1>5. CASE x # 0 \/ y # 0
  <2>1. PICK m \in Nat, n \in Nat : {x, y} \ {0} = {m, n}
    <3>1. CASE x = 0
      <4>1. {x, y} \ {0} = {y, y}
        BY <1>5, <3>1
      <4> QED BY <1>2, <4>1
    <3>2. CASE y = 0
      <4>1. {x, y} \ {0} = {x, x}
        BY <1>5, <3>2
      <4> QED BY <1>2, <4>1
    <3>3. CASE x # 0 /\ y # 0
      <4>1. {x, y} \ {0} = {x, y}
        BY <3>3
      <4> QED BY <1>2, <4>1
    <3> QED BY <3>1, <3>2, <3>3
  <2>2. {m, n} # {}
    OBVIOUS
  <2>3. CachedLength(a, b) = Min({m, n})
    BY <1>1, <2>1, <2>2, Zenon DEF CachedLength
  <2> QED BY <1>3, <2>3
<1> QED BY <1>4, <1>5

(* Closing a generator keeps the invariant: what is stored is the *)
(* conversation up to its last token.                             *)
LEMMA EndTurnKeeps ==
  ASSUME IInv, EndTurn
  PROVE  /\ IInv' /\ phase # "idle" /\ phase' = "idle" /\ out # <<>>
         /\ UNCHANGED <<began, out>>
<1> USE DEF IInv
<1>1. PICK all, key :
        /\ all = prompt \o Values(out)
        /\ key = (IF Is("mtp")
                  THEN SubSeq(all, 1, Min({CachedLength(target', drafter'), Len(all)}))
                  ELSE all)
  OBVIOUS
<1>2. /\ suspended /\ target' = ClosedTarget /\ drafter' = ClosedDrafter
      /\ stored' = [key |-> key, target |-> target', drafter |-> drafter']
      /\ suspended' = FALSE /\ phase' = "idle"
      /\ UNCHANGED <<setup, turn, prompt, began, rest, prev, loop, out>>
  BY <1>1, Zenon DEF EndTurn
<1>3. /\ setup' = setup /\ turn' = turn /\ prompt' = prompt /\ began' = began /\ rest' = rest
      /\ prev' = prev /\ out' = out /\ current' = current /\ draftY' = draftY /\ round' = round
      /\ hidden' = hidden /\ ready' = ready /\ stats' = stats
  BY <1>2 DEF loop
<1>4. /\ out # <<>> /\ phase \in {"decode", "draft", "yield", "rewind", "catchup"} /\ turn > 0
      /\ Is("draft") => phase # "draft"
  <2>1. /\ out # <<>> /\ phase \in Phases /\ phase \notin {"idle", "prefill", "verify"}
        /\ Is("draft") => phase # "draft"
    BY <1>2 DEF Begun, Typed
  <2>2. turn > 0
    BY <2>1 DEF Begun, Typed
  <2> QED BY <2>1, <2>2 DEF Phases
<1>5. /\ Is("plain") => phase = "decode" /\ ~Is("mtp") /\ ~Is("draft")
      /\ Is("draft") => phase \in {"yield", "rewind"} /\ ~Is("mtp")
      /\ Is("mtp") => phase \in {"draft", "yield", "catchup"} /\ ~Is("draft")
  BY <1>4 DEF Begun, Is
<1>6. target' \in Seq(Tokens) /\ drafter' \in Seq(Pieces)
  <2>1. target \in Seq(Tokens) /\ drafter \in Seq(Pieces)
    BY DEF Typed
  <2>2. CASE Is("draft")
    <3>1. PICK m : m = round.num - round.n
      OBVIOUS
    <3>2. m \in Nat
      BY <3>1 DEF Typed
    <3>3. Max({m - 1, 0}) \in Nat
      <4>1. PICK z : z = m - 1
        OBVIOUS
      <4>2. z \in Int /\ 0 \in Int
        BY <3>2, <4>1
      <4>3. Max({z, 0}) = IF z >= 0 THEN z ELSE 0
        BY <4>2, LesserOf, Zenon
      <4> QED BY <4>1, <4>2, <4>3
    <3>4. PICK w : w = Max({m - 1, 0})
      OBVIOUS
    <3>5. DropLast(target, m) \in Seq(Tokens) /\ DropLast(drafter, w) \in Seq(Pieces)
      <4>1. w \in Nat
        BY <3>3, <3>4
      <4> QED BY <2>1, <3>2, <4>1, PartType
    <3>6. target' = DropLast(target, m) /\ drafter' = DropLast(drafter, w)
      BY <1>2, <2>2, <3>1, <3>4, Zenon DEF ClosedTarget, ClosedDrafter, RewoundTarget, RewoundDrafter
    <3> QED BY <3>5, <3>6
  <2>3. CASE ~Is("draft")
    <3>1. target' = target /\ drafter' = drafter
      BY <1>2, <2>3 DEF ClosedTarget, ClosedDrafter
    <3> QED BY <2>1, <3>1
  <2> QED BY <2>2, <2>3
<1>7. all \in Seq(Tokens) /\ Len(all) \in Nat /\ key \in Seq(Tokens)
  <2>1. prompt \in Seq(Tokens) /\ Values(out) \in Seq(Tokens)
    BY Texts DEF Typed
  <2>2. all \in Seq(Tokens) /\ Len(all) \in Nat
    BY <1>1, <2>1, ConcatTokens, LenProperties
  <2>3. CASE Is("mtp")
    <3>1. PICK m, k : m = CachedLength(target', drafter') /\ k = Len(all)
      OBVIOUS
    <3>2. m \in Nat /\ k \in Nat
      BY <1>6, <2>2, <3>1, CachedLengthType
    <3>3. m \in Int /\ k \in Int
      BY <3>2
    <3>4. Min({m, k}) = IF m <= k THEN m ELSE k
      BY <3>3, LesserOf, Zenon
    <3>5. Min({m, k}) \in 0..Len(all)
      BY <3>1, <3>2, <3>4
    <3>6. SubSeq(all, 1, Min({m, k})) \in Seq(Tokens)
      <4> HIDE DEF IInv
      <4> QED BY <2>2, <3>5, FirstPart
    <3> QED BY <1>1, <2>2, <2>3, <3>1, <3>6, Zenon
  <2>4. CASE ~Is("mtp")
    BY <1>1, <2>2, <2>4
  <2> QED BY <2>2, <2>3, <2>4
<1>8. /\ stored' \in [key : Seq(Tokens), target : Seq(Tokens), drafter : Seq(Pieces)]
      /\ stored'.key = key /\ stored'.target = target' /\ stored'.drafter = drafter'
  BY <1>2, <1>6, <1>7
<1>9. /\ Read' = Read /\ History' = History /\ DrafterRead' = DrafterRead /\ HistoryWhole'
      /\ Values(out)' = Values(out) /\ Pieces' = Pieces /\ \A m : Is(m)' = Is(m)
  BY <1>3, SameTexts
<1>10. Typed'
  <2>1. Samples' = Samples
    BY DEF Samples
  <2>2. phase' \in Phases /\ suspended' \in BOOLEAN
    BY <1>2, Zenon DEF Phases
  <2>3. stored' \in [key : Seq(Tokens), target : Seq(Tokens), drafter : Seq(Pieces')]
    BY <1>8, <1>9
  <2>4. began' \in [target : Seq(Tokens), drafter : Seq(Pieces'), new : Seq(Tokens)]
    BY <1>3, <1>9, Zenon DEF Typed
  <2>5. target' \in Seq(Tokens) /\ drafter' \in Seq(Pieces')
    BY <1>6, <1>9
  <2> QED BY <1>3, <2>1, <2>2, <2>3, <2>4, <2>5, Zenon DEF Typed
<1>11. Begun'
  BY <1>2, <1>3, <1>4 DEF Begun
<1>12. StoredNearby'
  <2>1. Is("plain") => stored'.target = Read' /\ stored'.key = prompt' \o Values(out)'
    <3> SUFFICES ASSUME Is("plain") PROVE stored'.target = Read' /\ stored'.key = prompt' \o Values(out)'
      OBVIOUS
    <3>1. target = Read
      BY <1>5 DEF InDecode
    <3>2. target' = target
      BY <1>2, <1>5 DEF ClosedTarget
    <3>3. key = all
      BY <1>1, <1>5
    <3> QED BY <1>1, <1>3, <1>8, <1>9, <3>1, <3>2, <3>3, Zenon
  <2>2. Is("draft") => /\ stored'.target \in {Read', Front(Read)'}
                       /\ IsPrefix(stored'.drafter, DrafterRead')
                       /\ Len(stored'.drafter) >= Len(DrafterRead') - 2
    <3> SUFFICES ASSUME Is("draft")
                 PROVE  /\ stored'.target \in {Read', Front(Read)'}
                        /\ IsPrefix(stored'.drafter, DrafterRead')
                        /\ Len(stored'.drafter) >= Len(DrafterRead') - 2
      OBVIOUS
    <3>1. PICK r \in Seq(Tokens), h \in Seq(Tokens), q \in Seq(Tokens) : RoundFrom(r, h, q)
      BY <1>5 DEF InRound
    <3>2. /\ RewoundTarget \in {Read, Front(Read)} /\ IsPrefix(RewoundDrafter, DrafterRead)
          /\ Len(RewoundDrafter) >= Len(DrafterRead) - 2
      <4>1. phase \in {"yield", "rewind"}
        BY <1>5
      <4> QED BY <3>1, <4>1, RewoundNearby, Zenon
    <3>3. stored'.target = RewoundTarget /\ stored'.drafter = RewoundDrafter
      BY <1>2, <1>8 DEF ClosedTarget, ClosedDrafter
    <3>4. Front(Read)' = Front(Read)
      BY <1>9 DEF Front
    <3> QED BY <1>9, <3>2, <3>3, <3>4, Zenon
  <2>3. Is("mtp") => /\ IsPrefix(Front(Read'), stored'.target)
                     /\ IsPrefix(stored'.target, Read') \/ IsPrefix(Read', stored'.target)
                     /\ Len(stored'.target) < Len(Read') + setup'.num
    <3> SUFFICES ASSUME Is("mtp")
                 PROVE  /\ IsPrefix(Front(Read'), stored'.target)
                        /\ IsPrefix(stored'.target, Read') \/ IsPrefix(Read', stored'.target)
                        /\ Len(stored'.target) < Len(Read') + setup'.num
      OBVIOUS
    <3>1. /\ IsPrefix(Front(Read), target) /\ (IsPrefix(target, Read) \/ IsPrefix(Read, target))
          /\ Len(target) < Len(Read) + setup.num
      BY <1>2, <1>5, LayerNearby, Zenon
    <3>2. stored'.target = target
      BY <1>2, <1>5, <1>8 DEF ClosedTarget
    <3> QED BY <1>3, <1>9, <3>1, <3>2, Zenon
  <2>4. DrafterRead' = began'.drafter \o began'.new \o Values(out)'
    BY DEF DrafterRead
  <2>5. Front(Read)' = Front(Read')
    BY DEF Front
  <2> QED BY <1>9, <2>1, <2>2, <2>3, <2>4, <2>5, Zenon DEF StoredNearby
<1> QED BY <1>2, <1>3, <1>4, <1>9, <1>10, <1>11, <1>12, OtherPhases

----------------------------------------
(* The inductive invariant holds. *)

(* The invariant holds at first. *)
LEMMA InitHolds ==
  Init => IInv
<1> SUFFICES ASSUME Init PROVE IInv
  OBVIOUS
<1>1. /\ setup \in Setups /\ turn = 0 /\ prompt = <<>> /\ began = NotBegun /\ rest = <<>>
      /\ target = <<>> /\ drafter = <<>> /\ prev = <<>>
      /\ current = <<>> /\ draftY = <<>> /\ round = NoRound /\ hidden = 0
      /\ ready = FALSE /\ stats = NoStats
      /\ out = <<>> /\ suspended = FALSE /\ stored = Nothing /\ phase = "idle"
  BY DEF Init
<1>2. \A T : <<>> \in Seq(T)
  OBVIOUS
<1>3. Typed
  <2>1. turn \in 0..Turns /\ setup.num \in Nat
    BY <1>1, DecodingAssumption
  <2>2. began \in [target : Seq(Tokens), drafter : Seq(Pieces), new : Seq(Tokens)]
    BY <1>1, <1>2 DEF NotBegun
  <2>3. stored \in [key : Seq(Tokens), target : Seq(Tokens), drafter : Seq(Pieces)]
    BY <1>1, <1>2 DEF Nothing
  <2>4. /\ round \in [drafts : Seq(Tokens), tokens : Seq(Samples), num : Nat, n : Nat]
        /\ round.n <= round.num /\ round.num <= setup.num
    BY <1>1, <1>2, <2>1 DEF NoRound
  <2>5. /\ stats \in [drafted : Nat, accepted : Nat, fallback : BOOLEAN]
        /\ stats.accepted <= stats.drafted
    BY <1>1 DEF NoStats
  <2>6. /\ Len(out) <= MaxTokens /\ Len(current) <= 1 /\ hidden \in Nat
        /\ suspended \in BOOLEAN /\ ready \in BOOLEAN /\ phase \in Phases
    <3>1. Len(out) = 0 /\ Len(current) = 0
      BY <1>1, EmptySeq
    <3>2. Len(out) <= MaxTokens /\ Len(current) <= 1 /\ hidden \in Nat
      BY <1>1, <3>1, DecodingAssumption
    <3>3. suspended \in BOOLEAN /\ ready \in BOOLEAN /\ phase \in Phases
      BY <1>1 DEF Phases
    <3> QED BY <3>2, <3>3, Zenon
  <2>7. /\ prompt \in Seq(Tokens) /\ rest \in Seq(Tokens) /\ target \in Seq(Tokens)
        /\ drafter \in Seq(Pieces) /\ prev \in Seq(Tokens) /\ draftY \in Seq(Tokens)
        /\ current \in Seq(Tokens \cup Samples) /\ out \in Seq(Samples)
    BY <1>1, <1>2
  <2> QED BY <1>1, <2>1, <2>2, <2>3, <2>4, <2>5, <2>6, <2>7, Zenon DEF Typed
<1>4. Begun /\ StoredNearby
  BY <1>1 DEF Begun, StoredNearby
<1>5. /\ InPrefill /\ InDecode /\ AtDraft /\ AtVerify /\ InRound /\ InLayerRound
      /\ LayerHistory /\ AtCatchUp /\ LayerInStep
  BY <1>1 DEF InPrefill, InDecode, AtDraft, AtVerify, InRound, InLayerRound,
              LayerHistory, AtCatchUp, LayerInStep
<1>6. HistoryWhole
  BY <1>1 DEF HistoryWhole
<1> QED BY <1>3, <1>4, <1>5, <1>6, Zenon DEF IInv

(* The invariant speaks of the variables only. *)
LEMMA StutterKeeps ==
  ASSUME IInv, UNCHANGED vars
  PROVE  IInv' /\ UNCHANGED <<began, out, phase>>
<1>1. /\ setup' = setup /\ turn' = turn /\ prompt' = prompt /\ began' = began /\ rest' = rest
      /\ target' = target /\ drafter' = drafter /\ prev' = prev /\ current' = current
      /\ draftY' = draftY /\ round' = round /\ hidden' = hidden /\ ready' = ready
      /\ stats' = stats /\ out' = out /\ suspended' = suspended /\ stored' = stored
      /\ phase' = phase
  BY Zenon DEF vars
<1>2. /\ Read' = Read /\ History' = History /\ DrafterRead' = DrafterRead
      /\ Context' = Context /\ Values(out)' = Values(out) /\ Pieces' = Pieces
      /\ (\A m : Is(m)' = Is(m)) /\ HistoryWhole'
  <2>1. HistoryWhole
    BY DEF IInv
  <2> QED BY <1>1, <2>1, SameTexts, Zenon
<1>3. Samples' = Samples /\ \A text, n : Layer(text, n)' = Layer(text, n)
  BY <1>1, SameLayer, Zenon DEF Samples
<1>4. Typed' /\ Begun'
  BY <1>1, <1>2, <1>3, Zenon DEF IInv, Typed, Begun
<1>5. InPrefill' /\ InDecode'
  BY <1>1, <1>2, <1>3, Zenon DEF IInv, InPrefill, InDecode
<1>6. AtDraft' /\ AtVerify' /\ AtCatchUp' /\ LayerHistory'
  BY <1>1, <1>2, Zenon DEF IInv, AtDraft, AtVerify, AtCatchUp, LayerHistory
<1>7. InRound' /\ InLayerRound'
  BY <1>1, <1>2, Zenon DEF IInv, InRound, InLayerRound, RoundFrom, Yields, Correction
<1>8. LayerInStep'
  BY <1>1, <1>2, <1>3, Zenon DEF IInv, LayerInStep
<1>9. StoredNearby'
  BY <1>1, <1>2, Zenon DEF IInv, StoredNearby
<1> QED BY <1>1, <1>2, <1>4, <1>5, <1>6, <1>7, <1>8, <1>9, Zenon DEF IInv

(* Whatever a generator does keeps the invariant, and is a yield of plain *)
(* decoding or nothing.                                                   *)
LEMMA GeneratorKeeps ==
  ASSUME IInv, Prefill \/ StartDecoding \/ PrefillMTP \/ Resume
  PROVE  IInv' /\ Simulated
<1>1. CASE Prefill
  BY <1>1, PrefillKeeps
<1>2. CASE StartDecoding
  BY <1>2, StartDecodingKeeps
<1>3. CASE PrefillMTP
  BY <1>3, PrefillMTPKeeps
<1>4. CASE DecodeStep
  BY <1>4, DecodeStepKeeps
<1>5. CASE Draft
  BY <1>5, DraftKeeps
<1>6. CASE Verify
  BY <1>6, VerifyKeeps
<1>7. CASE YieldAccepted
  BY <1>7, YieldAcceptedKeeps
<1>8. CASE YieldTarget
  BY <1>8, YieldTargetKeeps
<1>9. CASE Rewind
  BY <1>9, RewindKeeps
<1>10. CASE DecodeAlone
  BY <1>10, DecodeAloneKeeps
<1>11. CASE RoundMTP
  BY <1>11, RoundMTPKeeps
<1>12. CASE YieldAcceptedMTP
  BY <1>12, YieldAcceptedMTPKeeps
<1>13. CASE YieldTargetMTP
  BY <1>13, YieldTargetMTPKeeps
<1>14. CASE CatchUp
  BY <1>14, CatchUpKeeps
<1> QED BY <1>1, <1>2, <1>3, <1>4, <1>5, <1>6, <1>7, <1>8, <1>9, <1>10, <1>11, <1>12,
           <1>13, <1>14, Zenon DEF Resume

(* The invariant is inductive. *)
LEMMA NextKeeps ==
  IInv /\ [Next]_vars => IInv'
<1> SUFFICES ASSUME IInv, [Next]_vars PROVE IInv'
  OBVIOUS
<1>1. CASE BeginTurn
  BY <1>1, BeginTurnKeeps
<1>2. CASE Prefill \/ StartDecoding \/ PrefillMTP \/ Resume
  BY <1>2, GeneratorKeeps
<1>3. CASE EndTurn
  BY <1>3, EndTurnKeeps
<1>4. CASE UNCHANGED vars
  BY <1>4, StutterKeeps
<1> QED BY <1>1, <1>2, <1>3, <1>4, Zenon DEF Next, Over

(* The inductive invariant holds whichever way, whatever is proposed, *)
(* sampled and accepted, and whenever the consumer stops.             *)
THEOREM InvariantHolds ==
  Spec => []IInv
BY InitHolds, NextKeeps, PTL DEF Spec

(* HistoryWhole: the logits processors are given the tokens yielded so far, *)
(* none of a rejected proposal and none twice, in every way of decoding.    *)
THEOREM AlwaysHistoryWhole ==
  Spec => []HistoryWhole
<1>1. IInv => HistoryWhole
  BY DEF IInv
<1> QED BY <1>1, InvariantHolds, PTL

----------------------------------------
(* Plain decoding is implemented. *)

(* The types of the module follow from the invariant. *)
LEMMA TypesHold ==
  IInv => TypeOK
<1> SUFFICES ASSUME IInv PROVE TypeOK
  OBVIOUS
<1>1. Typed /\ Begun
  BY DEF IInv
<1>2. Context \in Seq(Tokens)
  BY <1>1, Texts
<1>3. IF Is("mtp") THEN drafter \in Seq(Tokens \X Nat) ELSE drafter \in Seq(Tokens)
  BY <1>1, Zenon DEF Typed, Pieces
<1>4. suspended => out # <<>>
  BY <1>1 DEF Begun
<1> QED BY <1>1, <1>2, <1>3, <1>4 DEF Typed, TypeOK, Phases

(* The pairs the layer should have, put together as the module does. *)
LEMMA LayerIsAsMeant ==
  ASSUME Typed, Begun, turn > 0, Is("mtp"), NEW n \in Nat, From - 1 <= n, n + 1 <= Len(Read)
  PROVE  began.drafter \o LayerPairs(n) = Layer(Read, n)
<1>1. /\ From \in Nat \ {0} /\ began.drafter \in Seq(Pair) /\ Own \in Seq(Pair)
  BY LayerShape
<1>2. Read \in Seq(Tokens)
  BY Texts
<1>3. Later(Read, From, n) \in Seq(Pair)
  BY <1>1, <1>2, LaterProperties
<1>4. LayerPairs(n) = Own \o Later(Read, From, n)
  BY Zenon DEF LayerPairs, Own, From, Later
<1>5. (began.drafter \o Own) \o Later(Read, From, n)
        = began.drafter \o (Own \o Later(Read, From, n))
  BY <1>1, <1>3, OneBehindAnother, Zenon
<1> QED BY <1>4, <1>5, Zenon DEF Layer

(* The caches are in step under the invariant. *)
LEMMA InStep ==
  IInv => CachesInStep
<1> SUFFICES ASSUME IInv PROVE CachesInStep
  OBVIOUS
<1>1. Typed /\ Begun /\ AtDraft /\ LayerInStep /\ StoredNearby
  BY DEF IInv
<1>2. ASSUME phase = "draft"
      PROVE  /\ target = Front(Read)
             /\ Is("draft") => drafter \o draftY = began.drafter \o began.new \o Values(out)
  <2>1. target \in Seq(Tokens)
    BY <1>1 DEF Typed
  <2>2. current \in Seq(Tokens) /\ Len(current) = 1 /\ target \o current = Read
    BY <1>1, <1>2 DEF AtDraft
  <2>3. current = <<Last(current)>> /\ Last(current) \in Tokens
    BY <2>2, OneElement
  <2>4. Front(target \o <<Last(current)>>) = target
    BY <2>1, <2>3, FrontOfAppend
  <2>5. Is("draft") => drafter \o draftY = DrafterRead
    BY <1>1, <1>2 DEF AtDraft
  <2> QED BY <2>2, <2>3, <2>4, <2>5, Zenon DEF DrafterRead
<1>3. ASSUME phase = "draft", Is("mtp"),
             NEW n, n = Len(target) - (IF ready THEN 0 ELSE 1)
      PROVE  IF stats.fallback \/ Len(out) = MaxTokens
             THEN IsPrefix(drafter, began.drafter \o LayerPairs(n))
             ELSE drafter = began.drafter \o LayerPairs(n)
  <2>1. /\ turn > 0 /\ Len(target) \in Nat /\ Len(Read) = Len(target) + 1
        /\ From \in Nat \ {0} /\ From <= Len(target)
    BY <1>3, LayerAtDraft
  <2>2. PICK k, f, l : k = Len(target) /\ f = From /\ l = Len(Read)
    OBVIOUS
  <2>3. n \in Nat /\ f - 1 <= n /\ n + 1 <= l
    <3>1. ready \in BOOLEAN
      BY <1>1 DEF Typed
    <3>2. k \in Nat /\ l = k + 1 /\ f \in Nat \ {0} /\ f <= k
      BY <2>1, <2>2
    <3>3. n = k - (IF ready THEN 0 ELSE 1)
      BY <1>3, <2>2, Zenon
    <3> QED BY <3>1, <3>2, <3>3
  <2>4. n \in Nat /\ From - 1 <= n /\ n + 1 <= Len(Read)
    BY <2>2, <2>3, Zenon
  <2>5. began.drafter \o LayerPairs(n) = Layer(Read, n)
    BY <1>1, <1>3, <2>1, <2>4, LayerIsAsMeant, Zenon
  <2>6. IF stats.fallback \/ Len(out) = MaxTokens THEN IsPrefix(drafter, Layer(Read, n))
        ELSE drafter = Layer(Read, n)
    BY <1>1, <1>3, Zenon DEF LayerInStep
  <2> QED BY <2>5, <2>6, Zenon
<1> QED BY <1>1, <1>2, <1>3, TypesHold, Zenon DEF CachesInStep

(* CachesInStep: when a round begins, the target model has read all but the  *)
(* current token, the draft model and the layer what they should, and at the *)
(* end of a turn what is stored is the conversation up to its last token.    *)
THEOREM AlwaysInStep ==
  Spec => []CachesInStep
BY InStep, InvariantHolds, PTL

(* What plain decoding has yielded: the tokens with what they were sampled *)
(* from.                                                                   *)
Plainly == [i \in DOMAIN out |-> [token |-> out[i].token, given |-> out[i].given]]

(* A right yield is a yield of plain decoding. *)
LEMMA YieldMapped ==
  ASSUME Typed, phase # "idle", phase' # "idle", UNCHANGED began, NEW x, RightYield(x)
  PROVE  AsPlain!Yield
<1>1. out \in Seq(Samples) /\ x \in Samples /\ out' = Append(out, x) /\ x.given = Read
  BY DEF Typed, RightYield, Yielded
<1>2. x.token \in Tokens /\ Len(out) \in Nat
  BY <1>1 DEF Samples
<1>3. Plainly' = Append(Plainly, [token |-> x.token, given |-> x.given])
  <2>1. /\ DOMAIN out = 1..Len(out) /\ DOMAIN out' = 1..Len(out) + 1
        /\ \A i \in 1..Len(out) : out'[i] = out[i]
        /\ out'[Len(out) + 1] = x
    BY <1>1, <1>2
  <2>2. Len(Plainly) = Len(out)
    BY <1>2, <2>1 DEF Plainly
  <2>3. DOMAIN Plainly = 1..Len(out)
    BY <2>1 DEF Plainly
  <2>4. Plainly' = [i \in 1..Len(out) + 1 |->
                      [token |-> out'[i].token, given |-> out'[i].given]]
    BY <2>1, Zenon DEF Plainly
  <2>5. \A i \in 1..Len(out) + 1 :
          [token |-> out'[i].token, given |-> out'[i].given]
            = IF i \in 1..Len(out) THEN Plainly[i] ELSE [token |-> x.token, given |-> x.given]
    BY <1>2, <2>1 DEF Plainly
  <2>6. Append(Plainly, [token |-> x.token, given |-> x.given])
          = [i \in 1..Len(out) + 1 |-> IF i \in 1..Len(out) THEN Plainly[i]
                                       ELSE [token |-> x.token, given |-> x.given]]
    BY <1>2, <2>2 DEF Append
  <2> QED BY <2>4, <2>5, <2>6
<1>4. Values(Plainly) = Values(out) /\ DOMAIN Plainly = DOMAIN out /\ Len(Plainly) = Len(out)
  <2>1. DOMAIN out = 1..Len(out)
    BY <1>1
  <2>2. DOMAIN Plainly = DOMAIN out
    BY DEF Plainly
  <2>3. Len(Plainly) = Len(out)
    BY <1>2, <2>1, <2>2
  <2>4. \A i \in DOMAIN out : Plainly[i].token = out[i].token
    BY DEF Plainly
  <2> QED BY <2>2, <2>3, <2>4, Zenon DEF Values
<1>5. x.given = Context \o Values(Plainly)
  BY <1>1, <1>4, Zenon DEF Read
<1>6. AsPlain!Values(Plainly) = Values(Plainly)
  BY DEF Values, AsPlain!Values
<1>7. Context' = Context
  BY DEF Context
<1>8. Len(Plainly) < MaxTokens
  BY <1>4, Zenon DEF RightYield
<1> QED BY <1>2, <1>3, <1>5, <1>6, <1>7, <1>8, Zenon DEF AsPlain!Yield, Plainly

(* The initial states are initial states of plain decoding. *)
LEMMA InitMapped ==
  Init => AsPlain!Init
<1> SUFFICES ASSUME Init PROVE AsPlain!Init
  OBVIOUS
<1>1. out = <<>> /\ phase = "idle" /\ began = NotBegun
  BY DEF Init
<1>2. Context = <<>>
  BY <1>1 DEF Context, NotBegun
<1>3. [i \in DOMAIN out |-> [token |-> out[i].token, given |-> out[i].given]] = <<>>
  BY <1>1
<1>4. Context \in Seq(Tokens)
  BY <1>2
<1> QED BY <1>1, <1>3, <1>4 DEF AsPlain!Init

(* Every step is a step of plain decoding or changes nothing of it. *)
LEMMA StepMapped ==
  IInv /\ [Next]_vars => [AsPlain!Next]_AsPlain!vars
<1> SUFFICES ASSUME IInv, [Next]_vars PROVE [AsPlain!Next]_AsPlain!vars
  OBVIOUS
<1>1. CASE BeginTurn
  <2>1. Context' \in Seq(Tokens)
    BY <1>1, BeginTurnKeeps
  <2>2. phase = "idle" /\ phase' = "prefill" /\ out' = <<>>
    BY <1>1, Zenon DEF BeginTurn
  <2>3. Plainly' = <<>>
    BY <2>2 DEF Plainly
  <2> QED BY <2>1, <2>2, <2>3 DEF AsPlain!Next, AsPlain!Begin, Plainly
<1>2. CASE Prefill \/ StartDecoding \/ PrefillMTP \/ Resume
  <2>1. /\ phase # "idle" /\ phase' # "idle" /\ UNCHANGED began
        /\ UNCHANGED out \/ \E x : RightYield(x)
    BY <1>2, GeneratorKeeps, Zenon DEF Simulated
  <2>2. CASE UNCHANGED out
    BY <2>1, <2>2 DEF AsPlain!vars, Context
  <2>3. CASE \E x : RightYield(x)
    <3>1. Typed
      BY DEF IInv
    <3>2. AsPlain!Yield
      BY <2>1, <2>3, <3>1, YieldMapped
    <3> QED BY <3>2 DEF AsPlain!Next
  <2> QED BY <2>1, <2>2, <2>3
<1>3. CASE EndTurn
  <2>1. phase # "idle" /\ phase' = "idle" /\ out # <<>> /\ began' = began /\ out' = out
    BY <1>3, EndTurnKeeps
  <2>2. Plainly # <<>>
    <3>1. out \in Seq(Samples)
      BY DEF IInv, Typed
    <3>2. DOMAIN out # {}
      BY <2>1, <3>1
    <3>3. DOMAIN Plainly = DOMAIN out /\ DOMAIN <<>> = {}
      BY DEF Plainly
    <3> QED BY <3>2, <3>3
  <2> QED BY <2>1, <2>2 DEF AsPlain!Next, AsPlain!Close, Plainly, Context
<1>4. CASE UNCHANGED vars
  <2>1. UNCHANGED <<began, out, phase>>
    BY <1>4, StutterKeeps
  <2> QED BY <2>1 DEF AsPlain!vars, Context
<1> QED BY <1>1, <1>2, <1>3, <1>4, Zenon DEF Next, Over

(* DecodesAsPlain: drafts and the layer change nothing; every token yielded *)
(* was sampled by the target model from the context and the tokens yielded  *)
(* before, at most max_tokens of them: the three generators implement the   *)
(* module Decoding.                                                         *)
THEOREM Implements ==
  Spec => DecodesAsPlain
BY InitMapped, StepMapped, InvariantHolds, PTL DEF Spec, DecodesAsPlain, AsPlain!Spec

=============================================================================
