------------------------- MODULE SpeculativeDecoding -------------------------
(***************************************************************************)
(* One request at a time (mlx_lm/generate.py): generate_step decodes with   *)
(* one token of lookahead, speculative_generate_step lets a draft model     *)
(* propose tokens that the target model verifies in one pass, and           *)
(* mtp_speculative_generate_step does so with a layer of the target model   *)
(* itself.  Rejected proposals are rewound from the caches.  The server     *)
(* (mlx_lm/server.py, _serve_single) may stop at any token it is given; it   *)
(* then stores the caches under the tokens of prompt and answer, and the     *)
(* next turn of the conversation starts from them.                          *)
(*                                                                         *)
(* A cache is the sequence of the tokens it holds.  What the models sample  *)
(* is left open; a token is kept with what it was sampled from.  The cache   *)
(* of the layer (MTP) holds pairs: a token, and how many tokens were behind  *)
(* the hidden state it was put in with.                                     *)
(***************************************************************************)
EXTENDS SequencesExt, FiniteSetsExt, Integers

CONSTANTS
  Tokens,
  Eos,         \* a token that ends the answer
  Prompt,      \* the prompt of the first turn
  User,        \* what a user adds for the next turn
  Turns,       \* bound: turns of the conversation
  Setups,      \* records: method, num (num_draft_tokens), fused
  MaxTokens,   \* max_tokens
  PrefillStep, \* prefill_step_size
  MinDrafted,  \* mtp_adaptive_fallback_min_drafted_tokens
  MinRate      \* mtp_adaptive_fallback_min_acceptance_rate, in percent

ASSUME DecodingAssumption ==
  /\ Eos \in Tokens
  /\ Prompt \in Seq(Tokens) \ {<<>>} /\ User \in Tokens
  /\ Turns \in Nat /\ MaxTokens \in Nat \ {0} /\ PrefillStep \in Nat \ {0}
  /\ MinDrafted \in Nat /\ MinRate \in 0..100
  /\ \A s \in Setups : /\ s.method \in {"plain", "draft", "mtp"}
                       /\ s.num \in Nat \ {0}
                       /\ s.fused \in BOOLEAN   \* mtp_prefill_with_last_logits

VARIABLES
  setup,    \* how this server decodes
  turn,     \* the number of the turn
  prompt,   \* the prompt of the turn
  began,    \* what the caches held when the turn began, and what was new
  rest,     \* the part of the prompt still to be read
  target,   \* the cache of the target model
  drafter,  \* the cache of the draft model or of the MTP layer
  prev,     \* prev_tokens, tokens or history: what logits processors are given
  current,  \* y: the token to be read next
  draftY,   \* draft_y
  round,    \* the round: drafts, sampled tokens, num_draft, n
  hidden,   \* tokens behind previous_hidden
  ready,    \* prefetched_draft_logits is there
  stats,    \* drafted and accepted tokens, adaptive_fallback
  out,      \* the tokens yielded
  suspended, \* the generator waits at a yield
  stored,   \* what the server's prompt cache holds
  phase     \* "idle", "prefill", "draft", "verify", "yield"

vars == <<setup, turn, prompt, began, rest, target, drafter, prev, current, draftY,
          round, hidden, ready, stats, out, suspended, stored, phase>>

loop == <<current, draftY, round, hidden, ready, stats>>  \* local to the generators
fixed == <<setup, turn, prompt, began, stored>>           \* as a turn goes on

Is(method) == setup.method = method

Values(s) == [i \in DOMAIN s |-> s[i].token]

DropLast(s, n) == SubSeq(s, 1, Len(s) - n)

NoRound == [drafts |-> <<>>, tokens |-> <<>>, num |-> 0, n |-> 0]

NoStats == [drafted |-> 0, accepted |-> 0, fallback |-> FALSE]

Nothing == [key |-> <<>>, target |-> <<>>, drafter |-> <<>>]

NotBegun == [target |-> <<>>, drafter |-> <<>>, new |-> <<>>]

(* A sampled token, what the model had read and what the processors saw. *)
Sampled(t, given, seen) == [token |-> t, given |-> given, seen |-> seen]

----------------------------------------
(* The server: a turn begins with what its prompt cache has *)

CommonPrefix(s, t) ==
  Max({n \in 0..Min({Len(s), Len(t)}) : SubSeq(s, 1, n) = SubSeq(t, 1, n)})

(* fetch_nearest_cache: the entry if its key starts the prompt, or else cut  *)
(* back to what they share, short of the last token.                        *)
Fetched(p) ==
  LET n == CommonPrefix(p, stored.key)
      keep == Min({n, Len(p) - 1})
      cut == Len(stored.key) - keep
  IN  IF n = 0 THEN Nothing
      ELSE IF n = Len(stored.key) THEN stored
      ELSE [key |-> SubSeq(stored.key, 1, keep),
            target |-> DropLast(stored.target, cut),
            drafter |-> DropLast(stored.drafter, cut)]

(* A fully cached prompt: MTP reads its last token again. *)
Resumed(p, entry) ==
  IF ~Is("mtp") \/ Len(entry.key) < Len(p) THEN entry
  ELSE [key |-> Front(entry.key), target |-> Front(entry.target),
        drafter |-> Front(entry.drafter)]

(* The next prompt follows the answer, or goes back to what was asked.      *)
NextPrompts == {Append(prompt \o Values(out), User), prompt, Append(prompt, User)}

BeginTurn ==
  /\ phase = "idle" /\ turn < Turns
  /\ \E p \in IF turn = 0 THEN {Prompt} ELSE NextPrompts :
       LET entry == Resumed(p, Fetched(p))
           new == SubSeq(p, Len(entry.key) + 1, Len(p))
       IN  /\ prompt' = p
           /\ rest' = new
           /\ target' = entry.target
           /\ drafter' = entry.drafter
           /\ new # <<>>  \* else see the run server_exact_hit
           /\ began' = [target |-> entry.target, drafter |-> entry.drafter, new |-> new]
           /\ prev' = IF Is("mtp") THEN p ELSE <<>>
  /\ turn' = turn + 1
  /\ out' = <<>>
  /\ current' = <<>> /\ draftY' = <<>> /\ round' = NoRound /\ hidden' = 0
  /\ ready' = FALSE /\ stats' = NoStats
  /\ suspended' = FALSE
  /\ phase' = "prefill"
  /\ UNCHANGED <<setup, stored>>

----------------------------------------
(* A step of a generator ends at a yield, or goes on. *)

Yielded(t) == out' = Append(out, t) /\ suspended' = TRUE

Running == suspended' = FALSE /\ UNCHANGED out

----------------------------------------
(* Prefill *)

(* generate_step and _prefill: all but the last token of the prompt.         *)
Prefill ==
  /\ phase = "prefill" /\ ~Is("mtp") /\ Len(rest) > 1
  /\ LET n == Min({PrefillStep, Len(rest) - 1})
     IN  /\ target' = target \o SubSeq(rest, 1, n)
         /\ drafter' = IF Is("draft") THEN drafter \o SubSeq(rest, 1, n) ELSE drafter
         /\ rest' = SubSeq(rest, n + 1, Len(rest))
  /\ Running
  /\ UNCHANGED <<fixed, loop, prev, phase>>

(* The last token is the first to be decoded from; generate_step samples at   *)
(* once what comes after it.                                                 *)
StartDecoding ==
  /\ phase = "prefill" /\ ~Is("mtp") /\ Len(rest) = 1
  /\ rest' = <<>>
  /\ IF Is("plain")
     THEN /\ target' = target \o rest
          /\ prev' = rest
          /\ \E t \in Tokens : current' = <<Sampled(t, target', prev')>>
          /\ phase' = "decode"
          /\ UNCHANGED draftY
     ELSE /\ current' = rest /\ draftY' = rest
          /\ phase' = "draft"
          /\ UNCHANGED <<target, prev>>
  /\ Running
  /\ UNCHANGED <<fixed, drafter, round, hidden, ready, stats>>

(* The pairs of tokens and hidden states that start behind n tokens. *)
Pairs(tokens, n) == [i \in DOMAIN tokens |-> <<tokens[i], n + i - 1>>]

(* The whole prompt, a chunk at a time, and the layer behind it: with the     *)
(* tokens of the chunk or, if the model can, with those one further on, the   *)
(* first sampled token at the end.                                           *)
PrefillMTP ==
  /\ phase = "prefill" /\ Is("mtp")
  /\ LET n == Min({PrefillStep, Len(rest)})
         last == n = Len(rest)
         chunk == SubSeq(rest, 1, n)
     IN  /\ target' = target \o chunk
         /\ rest' = SubSeq(rest, n + 1, Len(rest))
         /\ \E t \in Tokens :
              LET shifted == Tail(chunk) \o (IF last THEN <<t>> ELSE <<rest[n + 1]>>)
              IN  /\ drafter' = drafter \o Pairs(IF setup.fused THEN shifted ELSE chunk,
                                                 Len(target) + 1)
                  /\ IF last
                     THEN /\ Yielded(Sampled(t, target', prev))
                          /\ current' = <<t>>
                          /\ prev' = Append(prev, t)
                          /\ hidden' = Len(target')
                          /\ ready' = setup.fused
                          /\ phase' = "draft"
                     ELSE Running /\ UNCHANGED <<current, prev, hidden, ready, phase>>
  /\ UNCHANGED <<fixed, draftY, round, stats>>

----------------------------------------
(* generate_step: the next token is sampled before this one is yielded *)

DecodeStep ==
  /\ phase = "decode" /\ Len(out) < MaxTokens
  /\ target' = Append(target, current[1].token)
  /\ prev' = Append(prev, current[1].token)
  /\ \E t \in Tokens : current' = <<Sampled(t, target', prev')>>
  /\ Yielded(current[1])
  /\ UNCHANGED <<fixed, rest, drafter, draftY, round, hidden, ready, stats, phase>>

----------------------------------------
(* speculative_generate_step *)

(* _draft_generate: each proposal is sampled when the one before has been     *)
(* read; then prev_tokens loses what the drafting put there.                 *)
Draft ==
  /\ phase = "draft" /\ Is("draft")
  /\ LET num == Min({MaxTokens - Len(out), setup.num})
     IN  \E drafts \in [1..num -> Tokens] :
           LET read == draftY \o Front(drafts)
               all == prev \o read
           IN  /\ drafter' = drafter \o read
               /\ prev' = DropLast(all, Len(current) + num - 1)
               /\ round' = [drafts |-> drafts, tokens |-> <<>>, num |-> num, n |-> 0]
  /\ phase' = "verify"
  /\ Running
  /\ UNCHANGED <<fixed, rest, target, current, draftY, hidden, ready, stats>>

(* _step with n_predict: a token is sampled behind each proposal, and the     *)
(* processors see those sampled so far.                                      *)
Verify ==
  /\ phase = "verify" /\ Is("draft")
  /\ LET d == round.drafts
         read == target \o current
         seen == prev \o current
     IN  \E s \in [1..round.num + 1 -> Tokens] :
           /\ round' = [round EXCEPT !.tokens =
                          [i \in DOMAIN s |-> Sampled(s[i], read \o SubSeq(d, 1, i - 1),
                                                            seen \o SubSeq(s, 1, i - 1))]]
           /\ prev' = seen \o SubSeq(s, 1, round.num)
           /\ target' = read \o d
  /\ phase' = "yield"
  /\ Running
  /\ UNCHANGED <<fixed, rest, drafter, current, draftY, hidden, ready, stats>>

Agrees == round.n < round.num /\ round.tokens[round.n + 1].token = round.drafts[round.n + 1]

YieldAccepted ==
  /\ phase = "yield" /\ Is("draft") /\ Agrees /\ Len(out) < MaxTokens
  /\ Yielded(round.tokens[round.n + 1])
  /\ round' = [round EXCEPT !.n = @ + 1]
  /\ UNCHANGED <<fixed, rest, target, drafter, prev, current, draftY, hidden, ready,
                 stats, phase>>

YieldTarget ==
  /\ phase = "yield" /\ Is("draft") /\ ~Agrees /\ Len(out) < MaxTokens
  /\ Yielded(round.tokens[round.n + 1])
  /\ phase' = "rewind"
  /\ UNCHANGED <<fixed, rest, target, drafter, prev, loop>>

(* _rewind_cache, and prev_tokens with it *)
TargetLate == DropLast(target, Max({round.num - round.n - 1, 0}))
RewoundTarget == DropLast(target, round.num - round.n)

DrafterLikeTarget == DropLast(drafter, round.num - round.n)
RewoundDrafter == DropLast(drafter, Max({round.num - round.n - 1, 0}))

PrevLikeTarget == DropLast(prev, round.num - round.n)
RewoundPrev == DropLast(prev, Max({round.num - round.n, 1}))

(* The token of the target model starts the next round, with the last        *)
(* proposal before it if that was accepted: the draft model has not read it.  *)
Rewind ==
  /\ phase = "rewind" /\ Is("draft") /\ Len(out) < MaxTokens
  /\ LET t == round.tokens[round.n + 1].token
     IN  /\ current' = <<t>>
         /\ draftY' = IF round.n = round.num THEN <<Last(round.drafts), t>> ELSE <<t>>
  /\ prev' = RewoundPrev
  /\ target' = RewoundTarget
  /\ drafter' = RewoundDrafter
  /\ phase' = "draft"
  /\ Running
  /\ UNCHANGED <<fixed, rest, round, hidden, ready, stats>>

----------------------------------------
(* mtp_speculative_generate_step *)

FallsBack ==
  \/ stats.fallback
  \/ /\ MinDrafted > 0 /\ MinRate > 0
     /\ stats.drafted >= MinDrafted
     /\ stats.accepted * 100 < MinRate * stats.drafted

NumDraftUpToEnd == IF FallsBack THEN 0 ELSE MaxTokens - Len(out) - 1
NumDraftMTP == IF FallsBack THEN 0 ELSE Min({setup.num, MaxTokens - Len(out) - 1})

(* No proposals: the target model decodes alone, the layer is left behind.    *)
DecodeAlone ==
  /\ phase = "draft" /\ Is("mtp") /\ Len(out) < MaxTokens /\ NumDraftMTP = 0
  /\ target' = target \o current
  /\ \E t \in Tokens : /\ Yielded(Sampled(t, target', prev))
                       /\ current' = <<t>>
                       /\ prev' = Append(prev, t)
  /\ hidden' = Len(target')
  /\ stats' = [stats EXCEPT !.fallback = FallsBack]
  /\ UNCHANGED <<fixed, rest, drafter, draftY, round, ready, phase>>

(* A round up to its first yield: proposals, verification in one pass, and     *)
(* both caches cut back to what was accepted.  The first proposal may be      *)
(* there from the prefill, its pair in the cache already.                    *)
RoundMTP ==
  /\ phase = "draft" /\ Is("mtp") /\ Len(out) < MaxTokens /\ NumDraftMTP > 0
  /\ LET num == NumDraftMTP
         read == target \o current
     IN  \E d \in [1..num -> Tokens], s \in [1..num + 1 -> Tokens] :
           LET accepted == Max({n \in 0..num : SubSeq(s, 1, n) = SubSeq(d, 1, n)})
               pairs == Pairs(current \o Front(d), hidden)
               all == drafter \o (IF ready THEN Tail(pairs) ELSE pairs)
           IN  /\ round' = [drafts |-> d, num |-> num, n |-> accepted,
                            tokens |-> [i \in 1..accepted + 1 |->
                                          Sampled(s[i], read \o SubSeq(d, 1, i - 1),
                                                  prev \o SubSeq(s, 1, i - 1))]]
               /\ target' = DropLast(read \o d, num - accepted)
               /\ drafter' = DropLast(all, Max({num - accepted - 1, 0}))
               /\ stats' = [stats EXCEPT !.drafted = @ + num]
               /\ hidden' = Len(target) + 1  \* of the first position verified
  /\ ready' = FALSE
  /\ phase' = "yield"
  /\ Running
  /\ UNCHANGED <<fixed, rest, prev, current, draftY>>

YieldAcceptedMTP ==
  /\ phase = "yield" /\ Is("mtp") /\ Len(round.tokens) > 1 /\ Len(out) < MaxTokens
  /\ LET t == Head(round.tokens)
     IN  /\ Yielded(t)
         /\ current' = <<t.token>>
         /\ prev' = Append(prev, t.token)
  /\ round' = [round EXCEPT !.tokens = Tail(@)]
  /\ stats' = [stats EXCEPT !.accepted = @ + 1]
  /\ UNCHANGED <<fixed, rest, target, drafter, draftY, hidden, ready, phase>>

YieldTargetMTP ==
  /\ phase = "yield" /\ Is("mtp") /\ Len(round.tokens) = 1 /\ Len(out) < MaxTokens
  /\ LET t == Head(round.tokens)
     IN  /\ Yielded(t)
         /\ current' = <<t.token>>
         /\ prev' = Append(prev, t.token)
  /\ hidden' = hidden + round.n
  /\ phase' = "catchup"
  /\ UNCHANGED <<fixed, rest, target, drafter, draftY, round, ready, stats>>

(* The generator is resumed: a round accepted in full has its last proposal   *)
(* put into the cache of the layer.                                         *)
CatchUp ==
  /\ phase = "catchup"
  /\ drafter' = IF round.n = round.num
                THEN Append(drafter, <<Last(round.drafts), hidden - 1>>)
                ELSE drafter
  /\ phase' = "draft"
  /\ Running
  /\ UNCHANGED <<fixed, rest, target, prev, loop>>

----------------------------------------
(* The server: the turn ends *)

Stopped == out # <<>> /\ (Last(out).token = Eos \/ Len(out) = MaxTokens)

(* prompt_cache_token_length of the cache of the target and of the layer. *)
CachedLength(t, d) ==
  LET lengths == {Len(t), Len(d)} \ {0}
  IN  IF lengths = {} THEN 0 ELSE Min(lengths)

(* The finally block, which only speculative_generate_step has. *)
ClosedAsIs == target
ClosedTarget == IF Is("draft") THEN RewoundTarget ELSE target
ClosedDrafter == IF Is("draft") THEN RewoundDrafter ELSE drafter

(* The consumer takes no more: after a token that ends the answer, at          *)
(* max_tokens, or at any token because the client is gone.  The generator is   *)
(* closed and the caches are stored.                                          *)
EndTurn ==
  /\ suspended
  /\ target' = ClosedTarget
  /\ drafter' = ClosedDrafter
  /\ LET all == prompt \o Values(out)
         key == IF Is("mtp")
                THEN SubSeq(all, 1, Min({CachedLength(target', drafter'), Len(all)}))
                ELSE all
     IN  stored' = [key |-> key, target |-> target', drafter |-> drafter']
  /\ suspended' = FALSE
  /\ phase' = "idle"
  /\ UNCHANGED <<setup, turn, prompt, began, rest, prev, loop, out>>

----------------------------------------
Init ==
  /\ setup \in Setups
  /\ turn = 0 /\ prompt = <<>> /\ began = NotBegun /\ rest = <<>>
  /\ target = <<>> /\ drafter = <<>> /\ prev = <<>>
  /\ current = <<>> /\ draftY = <<>> /\ round = NoRound /\ hidden = 0
  /\ ready = FALSE /\ stats = NoStats
  /\ out = <<>> /\ suspended = FALSE /\ stored = Nothing
  /\ phase = "idle"

(* What the generators do as long as they are resumed. *)
Resume ==
  /\ ~(suspended /\ Stopped)
  /\ \/ DecodeStep
     \/ Draft \/ Verify \/ YieldAccepted \/ YieldTarget \/ Rewind
     \/ DecodeAlone \/ RoundMTP \/ YieldAcceptedMTP \/ YieldTargetMTP \/ CatchUp

(* The bound on turns is reached. *)
Over == phase = "idle" /\ turn = Turns /\ UNCHANGED vars

Next ==
  \/ BeginTurn
  \/ Prefill \/ StartDecoding \/ PrefillMTP
  \/ Resume
  \/ EndTurn
  \/ Over

Spec == Init /\ [][Next]_vars

----------------------------------------
(* Properties *)

(* What the target model has read when it samples the first token of a turn. *)
Context == began.target \o began.new

Read == Context \o Values(out)

Samples == [token : Tokens, given : Seq(Tokens), seen : Seq(Tokens)]

(* The caches hold tokens; the counts of a round are within its proposals.   *)
TypeOK ==
  /\ setup \in Setups /\ turn \in 0..Turns
  /\ {prompt, rest, target, prev, draftY, Context} \subseteq Seq(Tokens)
  /\ IF Is("mtp") THEN drafter \in Seq(Tokens \X Nat) ELSE drafter \in Seq(Tokens)
  /\ current \in Seq(Tokens \cup Samples) /\ Len(current) <= 1
  /\ round.n <= round.num /\ round.num <= setup.num
  /\ out \in Seq(Samples) /\ Len(out) <= MaxTokens
  /\ stats.accepted <= stats.drafted
  /\ phase \in {"idle", "prefill", "decode", "draft", "verify", "yield", "rewind", "catchup"}
  /\ suspended => out # <<>>

(* Proposals change nothing: every token yielded was sampled by the target    *)
(* model from exactly what it had read and the tokens yielded before, as in   *)
(* plain decoding, and there are no more than max_tokens.                    *)
AsPlain ==
  INSTANCE Decoding WITH
    context <- Context, closed <- phase = "idle",
    out <- [i \in DOMAIN out |-> [token |-> out[i].token, given |-> out[i].given]]

DecodesAsPlain == AsPlain!Spec

(* The logits processors are given the tokens yielded so far, behind the last *)
(* token of the prompt (MTP: all of the prompt), none of a rejected proposal  *)
(* and none twice.                                                           *)
HistoryWhole ==
  \A i \in DOMAIN out :
    out[i].seen = (IF Is("mtp") THEN prompt ELSE <<Last(prompt)>>)
                  \o SubSeq(Values(out), 1, i - 1)

(* What the cache of the layer holds of this turn, up to the hidden state     *)
(* behind n tokens: the token that follows it; for a model without the fused  *)
(* prefill, the tokens of the prompt with their own states.                   *)
LayerPairs(n) ==
  LET base == Len(began.target)
      prompted == Len(Context)
      own == IF setup.fused THEN <<>> ELSE Pairs(began.new, base + 1)
      from == IF setup.fused THEN base + 1 ELSE prompted
  IN  own \o [i \in 1..n - from + 1 |-> <<Read[from + i], from + i - 1>>]

(* When a turn has ended, what is stored holds the conversation up to its     *)
(* last token; it may lack that token if the target model corrected or added  *)
(* it, and MTP may leave in accepted proposals that were not yielded.  The    *)
(* draft model lacks two at most.                                            *)
StoredNearby ==
  phase = "idle" /\ turn > 0 =>
    /\ Is("plain") => stored.target = Read /\ stored.key = prompt \o Values(out)
    /\ Is("draft") =>
         LET all == began.drafter \o began.new \o Values(out)
         IN  /\ stored.target \in {Read, Front(Read)}
             /\ IsPrefix(stored.drafter, all) /\ Len(stored.drafter) >= Len(all) - 2
    /\ Is("mtp") =>
         /\ IsPrefix(Front(Read), stored.target)
         /\ IsPrefix(stored.target, Read) \/ IsPrefix(Read, stored.target)
         /\ Len(stored.target) < Len(Read) + setup.num

(* When a round begins, the caches are in step: the target model has read all *)
(* but the current token; so has the draft model, with what it is about to    *)
(* read; the layer has the pair of every token but the current one, unless    *)
(* it was left behind.  At the end of a turn they are as StoredNearby says.  *)
CachesInStep ==
  /\ TypeOK
  /\ StoredNearby
  /\ phase = "draft" =>
       /\ target = Front(Read)
       /\ Is("draft") => drafter \o draftY = began.drafter \o began.new \o Values(out)
       /\ Is("mtp") =>
            LET pairs == began.drafter \o LayerPairs(Len(target) - (IF ready THEN 0 ELSE 1))
            IN  IF stats.fallback \/ Len(out) = MaxTokens THEN IsPrefix(drafter, pairs)
                ELSE drafter = pairs

(* The stored cache holds the tokens of its key: in every turn, a token is    *)
(* sampled from all of the prompt and of the answer so far, and nothing else. *)
TurnsWhole ==
  \A i \in DOMAIN out : out[i].given = prompt \o SubSeq(Values(out), 1, i - 1)

=============================================================================
