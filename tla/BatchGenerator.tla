---------------------------- MODULE BatchGenerator ----------------------------
(***************************************************************************)
(* Continuous batching: BatchGenerator with its PromptProcessingBatch and   *)
(* GenerationBatch (mlx_lm/generate.py).  One thread calls insert_segments, *)
(* remove and next; a call of next decodes one token for every sequence of  *)
(* the generation batch, admits waiting sequences, moves those whose prompt *)
(* is down to its last token over and prefills a chunk of the others.       *)
(*                                                                          *)
(* A token list is abstracted to its length, a KV cache to the number of    *)
(* tokens it holds and its kind, logits processors to the request they      *)
(* belong to.  Of the lists a batch keeps in parallel those that filter and *)
(* extend treat alike (uids, caches, tokens, max_tokens, state machines,    *)
(* token counts) are the fields of a row; the logits processors, and the    *)
(* samplers that go through the same statements, have rules of their own    *)
(* and stay a list beside the rows.                                         *)
(***************************************************************************)
EXTENDS SequencesExt, FiniteSetsExt, Integers

CONSTANTS MaxRequests,  \* bound: how many sequences are inserted
          Segmentings,  \* segment lengths of the prompts
          MaxTokens,    \* max_tokens of the requests, -1 for no limit
          MaxDecoded,   \* bound: tokens of a sequence without a limit
          Processors,   \* do requests come with logits processors?
          Caches,       \* supplied KV caches: records [held, kind]
          PrefillStep, PrefillBatch, CompletionBatch,
          Quantize,     \* kv_bits is set
          QuantizeFrom, \* quantized_kv_start
          None

ASSUME SegmentingsAssumption ==
  Segmentings \subseteq {s \in Seq(Nat \ {0}) : s # <<>>}
ASSUME SizesAssumption ==
  /\ MaxRequests \in Nat /\ QuantizeFrom \in Nat
  /\ PrefillStep \in Nat \ {0} /\ PrefillBatch \in Nat \ {0}
  /\ CompletionBatch \in Nat /\ CompletionBatch >= PrefillBatch
  /\ MaxTokens \subseteq Nat \cup {-1} /\ MaxDecoded \in Nat
  /\ Processors \subseteq BOOLEAN /\ Quantize \in BOOLEAN
  /\ Caches \subseteq [held : Nat, kind : {"fp", "quantized"}]
  /\ None \notin Seq(Nat)

VARIABLES
  asked,       \* by uid, what was inserted: segments, held, kind, max and lp
  ended,       \* the uids that got their last token or were removed
  unprocessed, \* _unprocessed_sequences: uids
  processing,  \* _currently_processing: segments left, done, total
  prompt,      \* _prompt_batch
  gen,         \* _generation_batch
  raised       \* the exception that left next(), or "no"

vars == <<asked, ended, unprocessed, processing, prompt, gen, raised>>

(* A batch: rows, their logits processors, and of the merged cache the *)
(* length and the kind.                                                *)
NoBatch == [rows |-> <<>>, lp |-> <<>>, idx |-> 0, kind |-> "none"]

Init ==
  /\ asked = <<>>
  /\ ended = {}
  /\ unprocessed = <<>>
  /\ processing = <<>>
  /\ prompt = NoBatch
  /\ gen = NoBatch
  /\ raised = "no"

----------------------------------------
(* Lists *)

(* [s[i] for i in sorted(keep)] *)
Pick(s, keep) ==
  LET nth(k) == CHOOSE i \in keep : Cardinality({j \in keep : j < i}) = k - 1
  IN  [k \in 1..Cardinality(keep) |-> s[nth(k)]]

Uids(rows) == {rows[i].uid : i \in DOMAIN rows}

(* any(list) of lists and Nones *)
Truthy(lp) == \E i \in DOMAIN lp : lp[i] \notin {None, <<>>}

Longest(rows) == Max({0} \cup {rows[i].held : i \in DOMAIN rows})

----------------------------------------
(* Batches *)

(* Mutant of Compatible: an empty cache is taken for an incompatible one. *)
SameKind(a, b) == a = b

Compatible(a, b) == {a, b} # {"fp", "quantized"}

(* _extend_cache: an empty cache takes the other's place. *)
JoinedKind(a, b) == IF a = "none" THEN b ELSE a

(* maybe_quantize_kv_cache, by the length of the merged cache. *)
KindAt(kind, idx) ==
  IF Quantize /\ idx >= QuantizeFrom /\ kind # "none" THEN "quantized" ELSE kind

WithRows(batch, rows) ==
  [rows |-> rows, lp |-> batch.lp, idx |-> batch.idx, kind |-> batch.kind]

(* filter: a merged cache sheds the padding no row needs any more. *)
FilterRows(batch, keep, lp) ==
  [rows |-> Pick(batch.rows, keep),
   lp   |-> lp,
   idx  |-> Longest(Pick(batch.rows, keep)),
   kind |-> IF keep = {} THEN "none" ELSE batch.kind]

FilterPrompt(batch, keep) ==
  FilterRows(batch, keep, IF Truthy(batch.lp) THEN Pick(batch.lp, keep)
                          ELSE [k \in 1..Cardinality(keep) |-> <<>>])

(* Mutant of FilterGeneration: the processors are not filtered. *)
FilterKeepProcessors(batch, keep) == FilterRows(batch, keep, batch.lp)

FilterGeneration(batch, keep) ==
  FilterRows(batch, keep, IF Truthy(batch.lp) THEN Pick(batch.lp, keep)
                          ELSE batch.lp)

ExtendRows(batch, new, lp) ==
  [rows |-> batch.rows \o new.rows,
   lp   |-> lp,
   idx  |-> Max({batch.idx, new.idx}),
   kind |-> JoinedKind(batch.kind, new.kind)]

ExtendPrompt(batch, new) ==
  LET filled(b) == IF Truthy(b.lp) THEN b.lp ELSE [i \in DOMAIN b.rows |-> None]
  IN  ExtendRows(batch, new, filled(batch) \o filled(new))

ExtendGeneration(batch, new) == ExtendRows(batch, new, batch.lp \o new.lp)

(* prompt(): a chunk for every row, padded to the longest. *)
Prompted(batch, chunks) ==
  LET longest == Max({0} \cup {chunks[i] : i \in DOMAIN chunks})
      idx == batch.idx + longest
  IN  [rows |-> [i \in DOMAIN batch.rows |-> [batch.rows[i] EXCEPT !.held = @ + chunks[i]]],
       lp   |-> batch.lp,
       idx  |-> idx,
       kind |-> IF longest > 0 THEN KindAt(batch.kind, idx) ELSE batch.kind]

(* GenerationBatch._step(): the pending token of every row enters the cache *)
(* and the next one is sampled.                                            *)
Stepped(batch) ==
  [rows |-> [i \in DOMAIN batch.rows |-> [batch.rows[i] EXCEPT !.held = @ + 1]],
   lp   |-> batch.lp,
   idx  |-> batch.idx + 1,
   kind |-> KindAt(batch.kind, batch.idx + 1)]

(* It iterates over the processors of every row as soon as one has any. *)
StepRaises(batch) ==
  Truthy(batch.lp) /\ \E i \in DOMAIN batch.rows : batch.lp[i] = None

----------------------------------------
(* insert_segments *)

(* The last token of the prompt becomes a segment of its own. *)
LastApart(segments) ==
  IF Last(segments) = 1 THEN segments
  ELSE Front(segments) \o <<Last(segments) - 1, 1>>

Insert(segments, max, cache, processors) ==
  /\ raised = "no"
  /\ Len(asked) < MaxRequests
  /\ LET uid == Len(asked) + 1
     IN  /\ asked' = Append(asked, [segments |-> segments, max |-> max,
                                    held |-> cache.held, kind |-> cache.kind,
                                    lp |-> IF processors THEN <<uid>> ELSE <<>>])
         /\ unprocessed' = Append(unprocessed, uid)
  /\ UNCHANGED <<ended, processing, prompt, gen, raised>>

(* Mutant of RemoveSequence: _currently_processing is not filtered. *)
RemoveKeepWork(uid) ==
  LET others(rows) == {i \in DOMAIN rows : rows[i].uid # uid}
  IN  /\ raised = "no"
      /\ uid \in DOMAIN asked /\ uid \notin ended
      /\ unprocessed' = Pick(unprocessed, {i \in DOMAIN unprocessed : unprocessed[i] # uid})
      /\ prompt' = IF uid \in Uids(prompt.rows)
                     THEN FilterPrompt(prompt, others(prompt.rows)) ELSE prompt
      /\ gen' = IF uid \in Uids(gen.rows)
                  THEN FilterGeneration(gen, others(gen.rows)) ELSE gen
      /\ ended' = ended \cup {uid}
      /\ UNCHANGED <<asked, raised, processing>>

(* remove *)
RemoveSequence(uid) ==
  LET others(rows) == {i \in DOMAIN rows : rows[i].uid # uid}
  IN  /\ raised = "no"
      /\ uid \in DOMAIN asked /\ uid \notin ended
      /\ unprocessed' = Pick(unprocessed, {i \in DOMAIN unprocessed : unprocessed[i] # uid})
      /\ IF uid \in Uids(prompt.rows)
           THEN /\ prompt' = FilterPrompt(prompt, others(prompt.rows))
                /\ processing' = Pick(processing, others(prompt.rows))
           ELSE UNCHANGED <<prompt, processing>>
      /\ gen' = IF uid \in Uids(gen.rows)
                  THEN FilterGeneration(gen, others(gen.rows)) ELSE gen
      /\ ended' = ended \cup {uid}
      /\ UNCHANGED <<asked, raised>>

----------------------------------------
(* next, first part: a token for every row of the generation batch.  "stops" *)
(* are the uids whose token completes a stop sequence.                       *)

Decoded == LET stepped == Stepped(gen) IN
  WithRows(stepped,
           [i \in DOMAIN stepped.rows |-> [stepped.rows[i] EXCEPT !.num = @ + 1]])

Unlimited(row) == asked[row.uid].max < 0

(* Mutant of Finishing: one token more than max_tokens. *)
FinishingLate(stops) ==
  {i \in DOMAIN gen.rows :
     \/ ~Unlimited(gen.rows[i]) /\ gen.rows[i].num + 1 > asked[gen.rows[i].uid].max
     \/ gen.rows[i].uid \in stops}

Finishing(stops) ==
  {i \in DOMAIN gen.rows :
     \/ ~Unlimited(gen.rows[i]) /\ gen.rows[i].num + 1 >= asked[gen.rows[i].uid].max
     \/ gen.rows[i].uid \in stops}

AfterDecode(stops) ==
  IF gen.rows = <<>> THEN gen
  ELSE IF Finishing(stops) = {} THEN Decoded
  ELSE FilterGeneration(Decoded, DOMAIN gen.rows \ Finishing(stops))

EndedBy(stops) == {gen.rows[i].uid : i \in Finishing(stops)}

----------------------------------------
(* next, second part: admission.  The waiting sequences are taken in order  *)
(* as long as there is room, those incompatible with an active batch or an  *)
(* already selected sequence excepted.                                      *)

Room(decoding) ==
  Min({PrefillBatch - Len(prompt.rows), CompletionBatch - Len(decoding.rows)})

Kind(i) == asked[unprocessed[i]].kind

(* Mutant of Selected: the newest sequences go first. *)
SelectedNewest(decoding) ==
  LET admissible == {i \in DOMAIN unprocessed : /\ Compatible(prompt.kind, Kind(i))
                                                /\ Compatible(decoding.kind, Kind(i))}
      alike == {i \in admissible : Kind(i) = Kind(Max(admissible))}
  IN  {i \in alike : Cardinality({j \in alike : j > i}) < Room(decoding)}

Selected(decoding) ==
  LET admissible == {i \in DOMAIN unprocessed : /\ Compatible(prompt.kind, Kind(i))
                                                /\ Compatible(decoding.kind, Kind(i))}
      alike == {i \in admissible : Kind(i) = Kind(Min(admissible))}
  IN  {i \in alike : Cardinality({j \in alike : j < i}) < Room(decoding)}

MakeBatch(uids) ==
  LET rows == [i \in DOMAIN uids |-> [uid |-> uids[i], held |-> asked[uids[i]].held]]
  IN  [rows |-> rows,
       lp   |-> [i \in DOMAIN uids |-> asked[uids[i]].lp],
       idx  |-> Longest(rows),
       kind |-> asked[uids[1]].kind]

AfterAdmission(uids) ==
  IF uids = <<>> THEN prompt ELSE ExtendPrompt(prompt, MakeBatch(uids))

Work(uid) ==
  LET segments == LastApart(asked[uid].segments)
  IN  [segments |-> segments, done |-> 0, total |-> SumFunction(segments)]

WorkAfterAdmission(uids) == processing \o [i \in DOMAIN uids |-> Work(uids[i])]

----------------------------------------
(* next, third part: the prompts down to one token start decoding. *)

Ready(work) == {i \in DOMAIN work : work[i].segments = <<1>>}

Rest(work) == DOMAIN work \ Ready(work)

(* generate(): the constructor of GenerationBatch makes the first step. *)
Starting(batch, work) ==
  LET split == FilterPrompt(batch, Ready(work))
  IN  WithRows(split,
        [i \in DOMAIN split.rows |->
           [uid |-> split.rows[i].uid, held |-> split.rows[i].held, num |-> 0]])

StillPrompt(batch, work) ==
  IF Ready(work) = {} THEN batch ELSE FilterPrompt(batch, Rest(work))

----------------------------------------
(* next, fourth part: a chunk of each of the other prompts. *)

Chunk(w) == Min({Head(w.segments), PrefillStep})

Fed(w) ==
  LET left == Head(w.segments) - Chunk(w)
      rest == Tail(w.segments)
  IN  [segments |-> IF left = 0 THEN rest ELSE <<left>> \o rest,
       done     |-> w.done + Chunk(w),
       total    |-> w.total]

----------------------------------------

(* The generation batch is full: nothing else happens. *)
DecodeOnly(stops) ==
  \E decoding \in {AfterDecode(stops)} :
    /\ raised = "no"
    /\ Len(decoding.rows) >= CompletionBatch
    /\ IF StepRaises(gen)
         THEN raised' = "TypeError" /\ UNCHANGED <<gen, ended>>
         ELSE gen' = decoding /\ ended' = ended \cup EndedBy(stops) /\ UNCHANGED raised
    /\ UNCHANGED <<asked, unprocessed, processing, prompt>>

(* The processors are applied to the new generation batch before its cache *)
(* joins the old one's.                                                   *)
Raised(decoding, starting) ==
  IF StepRaises(gen) THEN "TypeError"
  ELSE IF starting.rows = <<>> THEN "no"
  ELSE IF StepRaises(starting) THEN "TypeError"
  ELSE IF ~Compatible(decoding.kind, Stepped(starting).kind) THEN "ValueError"
  ELSE "no"

(* What an exception leaves behind is not used again. *)
DecodeAndPrefill(stops) ==
  \E decoding \in {AfterDecode(stops)} :
  \E selected \in {Selected(decoding)} :
  \E uids \in {Pick(unprocessed, selected)} :
  \E batch \in {AfterAdmission(uids)}, work \in {WorkAfterAdmission(uids)} :
  \E starting \in {Starting(batch, work)}, rest \in {Pick(work, Rest(work))} :
  \E started \in {Stepped(starting)}, still \in {StillPrompt(batch, work)} :
    /\ raised = "no"
    /\ Len(decoding.rows) < CompletionBatch
    /\ raised' = Raised(decoding, starting)
    /\ IF raised' # "no" THEN UNCHANGED <<gen, prompt, processing, unprocessed, ended>>
       ELSE /\ gen' = IF Ready(work) = {} THEN decoding
                      ELSE ExtendGeneration(decoding, started)
            /\ prompt' = Prompted(still, [i \in DOMAIN rest |-> Chunk(rest[i])])
            /\ processing' = [i \in DOMAIN rest |-> Fed(rest[i])]
            /\ unprocessed' = Pick(unprocessed, DOMAIN unprocessed \ selected)
            /\ ended' = ended \cup EndedBy(stops)
    /\ UNCHANGED asked

(* The callers call next() as long as a sequence is left; a sequence without *)
(* a limit is followed up to MaxDecoded tokens.                             *)
CallNext ==
  /\ ended # DOMAIN asked
  /\ \A i \in DOMAIN gen.rows : Unlimited(gen.rows[i]) => gen.rows[i].num < MaxDecoded
  /\ \E stops \in SUBSET Uids(gen.rows) : DecodeOnly(stops) \/ DecodeAndPrefill(stops)

Next ==
  \/ \E s \in Segmentings, m \in MaxTokens, c \in Caches, p \in Processors :
       Insert(s, m, c, p)
  \/ \E uid \in DOMAIN asked : RemoveSequence(uid)
  \/ CallNext

Spec == Init /\ [][Next]_vars /\ WF_vars(CallNext)

----------------------------------------
(* Properties *)

Batches == {prompt, gen}

TypeOK ==
  /\ asked \in Seq([segments : Segmentings, max : MaxTokens, held : Nat,
                    kind : {"fp", "quantized"}, lp : Seq(Nat)])
  /\ ended \subseteq DOMAIN asked
  /\ unprocessed \in Seq(DOMAIN asked)
  /\ processing \in Seq([segments : Seq(Nat), done : Nat, total : Nat])
  /\ prompt.rows \in Seq([uid : DOMAIN asked, held : Nat])
  /\ gen.rows \in Seq([uid : DOMAIN asked, held : Nat, num : Nat])
  /\ \A b \in Batches : /\ b.lp \in Seq(Seq(Nat) \cup {None})
                        /\ b.idx \in Nat
                        /\ b.kind \in {"none", "fp", "quantized"}
  /\ raised \in {"no", "TypeError", "ValueError"}

(* A sequence inserted and not yet ended is in one place only - the queue,  *)
(* the prompt batch or the generation batch - and there once; an ended one  *)
(* is nowhere: remove() and the caller's uid-keyed results rely on it.      *)
OneStage ==
  LET places == unprocessed \o [i \in DOMAIN prompt.rows |-> prompt.rows[i].uid]
                            \o [i \in DOMAIN gen.rows |-> gen.rows[i].uid]
  IN  IsInjective(places) /\ ToSet(places) = DOMAIN asked \ ended

(* A merged KV cache is as long as its longest row needs, or longer by       *)
(* padding; every decoding row holds its prompt and the tokens it returned.  *)
CachesCoverRows ==
  /\ \A b \in Batches : /\ \A i \in DOMAIN b.rows : b.rows[i].held <= b.idx
                        /\ b.kind = "none" <=> b.rows = <<>>
  /\ \A i \in DOMAIN gen.rows :
       LET row == gen.rows[i]
       IN  row.held = asked[row.uid].held
                        + SumFunction(asked[row.uid].segments) + row.num

(* The batches stay within their sizes.  The generation batch may outgrow  *)
(* completion_batch_size by the prompts that were already being processed. *)
Bounded ==
  /\ Len(prompt.rows) <= PrefillBatch
  /\ Len(gen.rows) < CompletionBatch + PrefillBatch

(* The book-keeping of the batches: types, one stage per sequence, batches  *)
(* within bounds, caches that cover their rows, and _currently_processing   *)
(* aligned with the rows of the prompt batch through admissions, splits and *)
(* removals: what is left of a row's segments is exactly what its KV cache  *)
(* still misses.                                                            *)
WorkAligned ==
  /\ TypeOK /\ OneStage /\ Bounded /\ CachesCoverRows
  /\ Len(processing) = Len(prompt.rows)
  /\ \A i \in DOMAIN processing :
       LET row == prompt.rows[i]
           all == SumFunction(asked[row.uid].segments)
       IN  /\ processing[i].total = all
           /\ processing[i].done = row.held - asked[row.uid].held
           /\ SumFunction(processing[i].segments) = all - processing[i].done
           /\ processing[i].segments # <<>>

AppliedTo(i) ==
  IF ~Truthy(gen.lp) \/ gen.lp[i] = None THEN <<>> ELSE gen.lp[i]

(* The logits processors a row's next token is sampled with are those its *)
(* own request came with.                                                 *)
LogitsOwn == \A i \in DOMAIN gen.rows : AppliedTo(i) = asked[gen.rows[i].uid].lp

(* next() never raises.  It does with a positive quantized_kv_start, when two *)
(* unquantized sequences are admitted side by side and one of the batches is  *)
(* quantized before the prompt moves over.                                    *)
NeverRaises == raised = "no"

(* The scheduler scans past an incompatible sequence, but of two waiting *)
(* sequences of one kind the older is not overtaken.                     *)
NoOvertaking ==
  [][ \A i, j \in DOMAIN unprocessed :
        i < j /\ Kind(i) = Kind(j)
          /\ unprocessed[j] \in Uids(prompt'.rows) \cup Uids(gen'.rows)
        => ~Contains(unprocessed', unprocessed[i]) ]_vars

(* No sequence is passed by a later one.  One that is incompatible with the *)
(* running batches is, by every later one that is not.                      *)
NonePassed ==
  [][ \A i, j \in DOMAIN unprocessed :
        i < j /\ unprocessed[j] \in Uids(prompt'.rows) \cup Uids(gen'.rows)
        => ~Contains(unprocessed', unprocessed[i]) ]_vars

InBatch(uid) == uid \in Uids(prompt.rows) \cup Uids(gen.rows)
UnlimitedDecodes == \E i \in DOMAIN gen.rows : Unlimited(gen.rows[i])
ArrivalsCease == <>[][FALSE]_asked

(* A sequence taken into a batch ends, and once no more arrive every one that *)
(* waits does, for an incompatible batch to drain too - or one without a      *)
(* limit decodes again and again.  next() does not raise: after an exception  *)
(* there, which ends the server's generation thread, none would end.  While   *)
(* sequences keep arriving nothing is promised to the waiting: those that fit *)
(* the running batches pass one that does not, each time (NonePassed fails).  *)
EverySequenceEnds ==
  LET Ends(uid) == uid \in ended \/ UnlimitedDecodes
  IN  /\ \A uid \in 1..MaxRequests : InBatch(uid) ~> Ends(uid)
      /\ ArrivalsCease => \A uid \in 1..MaxRequests : uid \in DOMAIN asked ~> Ends(uid)

=============================================================================
