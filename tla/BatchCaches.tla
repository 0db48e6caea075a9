------------------------------ MODULE BatchCaches ------------------------------
(***************************************************************************)
(* The caches of a model while sequences go through continuous batching     *)
(* (BatchGenerator, PromptProcessingBatch, GenerationBatch of               *)
(* mlx_lm/generate.py) and through sequential generation, and on to the     *)
(* prompt cache and back.  A cache list is driven as a whole: every         *)
(* operation is applied to each of its caches.                              *)
(*                                                                         *)
(* Beside the caches a sequence has its history: the tokens it was fed, in  *)
(* order, each with a label of its own.  Which rows finish, are removed or  *)
(* go on to decoding, and how the prompts are cut into chunks, is left open *)
(* (BatchGenerator.tla says when).                                          *)
(***************************************************************************)
EXTENDS KVCaches

CONSTANTS Models,   \* the cache lists: sequences of kinds
          MaxBirths,\* bound: how many sequences are started
          MaxHeld,  \* bound: tokens of a history
          MaxChunk, \* bound: tokens of a chunk of prompt
          MaxRows,  \* bound: rows of the two batches
          MaxAdmit  \* prefill_batch_size

ASSUME ModelsAssumption ==
  Models \subseteq Seq({"kv", "rotating", "keep", "chunked", "arrays"})
ASSUME BoundsAssumption ==
  /\ MaxBirths \in Nat /\ MaxHeld \in Nat /\ MaxChunk \in Nat \ {0}
  /\ MaxRows \in Nat \ {0} /\ MaxAdmit \in Nat \ {0}

VARIABLES
  model,   \* the kinds of the model's caches
  births,  \* how many sequences were started
  at,      \* the part of BatchGenerator._next that comes next
  prompt,  \* _prompt_batch: the rows' histories and names, the batch caches
  gen,     \* _generation_batch
  solo,    \* the sequence of sequential generation: <<>> or one record
  stored,  \* an entry of the prompt cache: <<>> or one record
  misread  \* what queries attended to that they should not, or missed

vars == <<model, births, at, prompt, gen, solo, stored, misread>>

NoBatch == [names |-> <<>>, held |-> <<>>, caches |-> <<>>]

Init ==
  /\ model \in Models
  /\ births = 0
  /\ at = "decode"
  /\ prompt = NoBatch
  /\ gen = NoBatch
  /\ solo = <<>>
  /\ stored = <<>>
  /\ misread = {}

Batchable == \A k \in DOMAIN model : model[k] \in {"kv", "rotating", "arrays"}

(* The n tokens that follow a history in the sequence of the given name. *)
Label(name, place) == name * (MaxHeld + MaxChunk + 1) + place

NewTokens(name, held, n) == [i \in 1..n |-> Label(name, Len(held) + i)]

----------------------------------------
(* What a query should attend to *)

Tokens(held, from, to) == {held[k] : k \in AtLeast(1, from)..to}

(* Of a cache of this kind the query at place p must see the tokens of Must *)
(* and may see those of May besides; n is the length of its pass.           *)
Must(kind, held, p, n) ==
  CASE kind = "kv"       -> Tokens(held, 1, p)
    [] kind = "rotating" -> Tokens(held, p - MaxSize + 1, p)
    [] kind = "keep"     -> Tokens(held, p - MaxSize + Keep + 1, p)
                            \cup (IF n = 1 THEN Tokens(held, 1, AtMost(Keep, p)) ELSE {})
    [] kind = "chunked"  -> Tokens(held, ((p - 1) \div ChunkSize) * ChunkSize + 1, p)

May(kind, held, p) ==
  IF kind = "keep" THEN Tokens(held, p - MaxSize + 1, p) \cup Tokens(held, 1, AtMost(Keep, p))
  ELSE {}

ReadsRight(kind, read, held, p, n) ==
  LET seen == {read.cells[j] : j \in read.columns}
      must == Must(kind, held, p, n)
  IN  /\ read.width = Len(read.cells)
      /\ read.columns \subseteq DOMAIN read.cells
      /\ Cardinality(seen) = Cardinality(read.columns)
      /\ must \subseteq seen /\ seen \subseteq must \cup May(kind, held, p)

Attending(kind) == kind # "arrays"

(* A pass over several tokens of a rotating cache that has wrapped around. *)
Wrapped(c, n) == c.kind = "rotating" /\ n > 1 /\ "rotated" \in DOMAIN c /\ c.rotated

(* The queries of a pass that read wrong, with the circumstance above. *)
BatchMisread(batch, chunks) ==
  LET n == Max({Len(chunks[r]) : r \in DOMAIN chunks})
      held(r) == batch.held[r] \o chunks[r]
      wrong(k, r, i) ==
        LET b == batch.caches[k]
            p == Len(batch.held[r]) + i
        IN  ~ReadsRight(b.kind, BatchRead(b, BatchPassed(b, chunks), r, n, i), held(r), p, n)
  IN  {[kind |-> model[k], name |-> batch.names[r], place |-> Len(batch.held[r]) + i,
        wrapped |-> Wrapped(batch.caches[k], n)] :
         <<k, r, i>> \in {<<k, r, i>> \in (DOMAIN batch.caches) \X (DOMAIN chunks) \X (1..n) :
                            /\ i <= Len(chunks[r])
                            /\ Attending(model[k])
                            /\ wrong(k, r, i)}}

SoloMisread(s, new) ==
  LET n == Len(new)
      wrong(k, i) ==
        LET c == s.caches[k]
            p == Len(s.held) + i
        IN  ~ReadsRight(c.kind, Read(c, Updated(c, new), n, i), s.held \o new, p, n)
  IN  {[kind |-> model[k], name |-> s.name, place |-> Len(s.held) + i,
        wrapped |-> FALSE] :
         <<k, i>> \in {<<k, i>> \in (DOMAIN s.caches) \X (1..n) :
                         Attending(model[k]) /\ wrong(k, i)}}

----------------------------------------
(* Batches *)

Rows(batch) == DOMAIN batch.names

Fed(batch, chunks) ==
  [batch EXCEPT !.held = [r \in DOMAIN @ |-> @[r] \o chunks[r]],
                !.caches = [k \in DOMAIN @ |-> BatchUpdated(@[k], chunks)]]

InSequence(set) == SetToSortSeq(set, LAMBDA i, j : i < j)

(* filter(keep), of the batch and of all its caches. *)
Kept(batch, keep) ==
  LET list == InSequence(keep)
  IN  IF keep = {} THEN NoBatch
      ELSE [names  |-> PickRows(batch.names, list),
            held   |-> PickRows(batch.held, list),
            caches |-> [k \in DOMAIN batch.caches |-> Filtered(batch.caches[k], list)]]

(* extend(batch), with _extend_cache *)
With(a, b) ==
  IF a.caches = <<>> THEN b
  ELSE IF b.caches = <<>> THEN a
  ELSE [names  |-> a.names \o b.names,
        held   |-> a.held \o b.held,
        caches |-> [k \in DOMAIN a.caches |-> Extended(a.caches[k], b.caches[k])]]

(* extract_cache(idx), as an entry of the prompt cache. *)
Entry(batch, r) ==
  [held |-> batch.held[r],
   caches |-> [k \in DOMAIN batch.caches |-> Extracted(batch.caches[k], r)]]

(* A new cache or, cut by some tokens where all its caches can be cut, a *)
(* copy of the stored one (trim_prompt_cache).                           *)
Sources ==
  {[held |-> <<>>, caches |-> [k \in DOMAIN model |-> Fresh(model[k])]]}
  \cup UNION {
    {[held |-> First(e.held, Len(e.held) - n),
      caches |-> [k \in DOMAIN e.caches |-> Trimmed(e.caches[k], n)]] :
        n \in IF \A k \in DOMAIN e.caches : Trimmable(e.caches[k])
              THEN 1..Len(e.held) ELSE {}}
    \cup {e} : e \in Range(stored)}

(* PromptProcessingBatch(caches=...), with _merge_caches *)
Made(sources) ==
  [names  |-> [r \in DOMAIN sources |-> births + r],
   held   |-> [r \in DOMAIN sources |-> sources[r].held],
   caches |-> [k \in DOMAIN model |->
                 Merged([r \in DOMAIN sources |-> sources[r].caches[k]])]]

NextOf(batch, lengths) ==
  [r \in Rows(batch) |-> NewTokens(batch.names[r], batch.held[r], lengths[r])]

One(batch) == [r \in Rows(batch) |-> 1]

----------------------------------------
(* BatchGenerator._next, in its four parts *)

(* GenerationBatch.next: a token for every row; rows that end leave. *)
Decode ==
  /\ at = "decode" /\ solo = <<>>
  /\ IF Rows(gen) = {} THEN UNCHANGED <<gen, stored, misread>>
     ELSE LET chunks == NextOf(gen, One(gen))
              fed == Fed(gen, chunks)
          IN  /\ misread' = BatchMisread(gen, chunks)
              /\ \E ends \in SUBSET Rows(gen) :
                   /\ \A r \in Rows(gen) : Len(fed.held[r]) = MaxHeld => r \in ends
                   /\ gen' = Kept(fed, Rows(gen) \ ends)
                   /\ IF ends = {} THEN UNCHANGED stored
                      ELSE \E r \in ends : stored' = <<Entry(fed, r)>>
  /\ at' = "admit"
  /\ UNCHANGED <<model, births, prompt, solo>>

(* New sequences join the prompt batch. *)
Admit ==
  /\ at = "admit"
  /\ \E n \in 0..MaxAdmit :
       /\ births + n <= MaxBirths
       /\ Len(gen.names) + Len(prompt.names) + n <= MaxRows
       /\ n > 0 => Batchable
       /\ births' = births + n
       /\ \E sources \in [1..n -> {s \in Sources : Len(s.held) <= MaxHeld - 2}] :
            prompt' = IF n = 0 THEN prompt ELSE With(prompt, Made(sources))
  /\ at' = "graduate"
  /\ UNCHANGED <<model, gen, solo, stored, misread>>

(* Rows with one token left are split off, process it and start decoding. *)
Graduate ==
  /\ at = "graduate"
  /\ \E split \in SUBSET Rows(prompt) :
       /\ \A r \in Rows(prompt) : Len(prompt.held[r]) = MaxHeld - 2 => r \in split
       /\ prompt' = Kept(prompt, Rows(prompt) \ split)
       /\ IF split = {} THEN UNCHANGED <<gen, misread>>
          ELSE LET last == Kept(prompt, split)
                   chunks == NextOf(last, One(last))
               IN  /\ misread' = misread \cup BatchMisread(last, chunks)
                   /\ gen' = With(gen, Fed(last, chunks))
  /\ at' = "prefill"
  /\ UNCHANGED <<model, births, solo, stored>>

(* PromptProcessingBatch.prompt: a chunk of prompt for the other rows. *)
Prefill ==
  /\ at = "prefill"
  /\ IF Rows(prompt) = {} THEN UNCHANGED <<prompt, misread>>
     ELSE \E lengths \in [Rows(prompt) -> 1..MaxChunk] :
            LET chunks == NextOf(prompt, lengths)
            IN  /\ \A r \in Rows(prompt) :
                     Len(prompt.held[r]) + lengths[r] <= MaxHeld - 2
                /\ misread' = misread \cup BatchMisread(prompt, chunks)
                /\ prompt' = Fed(prompt, chunks)
  /\ at' = "decode"
  /\ UNCHANGED <<model, births, gen, solo, stored>>

(* remove(uids), between two calls of next *)
RemoveRows ==
  /\ at = "decode"
  /\ \/ \E gone \in SUBSET Rows(gen) \ {{}} :
         gen' = Kept(gen, Rows(gen) \ gone) /\ UNCHANGED prompt
     \/ \E gone \in SUBSET Rows(prompt) \ {{}} :
         prompt' = Kept(prompt, Rows(prompt) \ gone) /\ UNCHANGED gen
  /\ misread' = {}
  /\ UNCHANGED <<model, births, at, solo, stored>>

(* extract_cache(uids): the server stores the cache of a prompt at the end *)
(* of a segment.                                                           *)
Extract ==
  /\ at = "decode"
  /\ \E r \in Rows(prompt) : stored' = <<Entry(prompt, r)>>
  /\ misread' = {}
  /\ UNCHANGED <<model, births, at, prompt, gen, solo>>

----------------------------------------
(* Sequential generation, while the batch is empty *)

StartSolo ==
  /\ at = "decode" /\ Rows(gen) = {} /\ Rows(prompt) = {} /\ solo = <<>>
  /\ births < MaxBirths
  /\ births' = births + 1
  /\ \E s \in Sources :
       solo' = <<[name |-> births + 1, held |-> s.held, caches |-> s.caches]>>
  /\ misread' = {}
  /\ UNCHANGED <<model, at, prompt, gen, stored>>

(* A chunk of prompt or a decoded token (generate_step). *)
FeedSolo ==
  \E s \in Range(solo), n \in 1..MaxChunk :
    LET new == NewTokens(s.name, s.held, n)
    IN  /\ Len(s.held) + n <= MaxHeld
        /\ misread' = SoloMisread(s, new)
        /\ solo' = <<[s EXCEPT !.held = @ \o new,
                               !.caches = [k \in DOMAIN @ |-> Updated(@[k], new)]]>>
        /\ UNCHANGED <<model, births, at, prompt, gen, stored>>

(* Rejected draft tokens are taken back (speculative decoding).  The tokens *)
(* that follow are other ones, so the sequence goes on under a new name.     *)
RewindSolo ==
  \E s \in Range(solo) :
    /\ \A k \in DOMAIN s.caches : Trimmable(s.caches[k])
    /\ births < MaxBirths
    /\ births' = births + 1
    /\ \E n \in 1..Len(s.held) :
         solo' = <<[name |-> births + 1, held |-> First(s.held, Len(s.held) - n),
                    caches |-> [k \in DOMAIN s.caches |-> Trimmed(s.caches[k], n)]]>>
    /\ misread' = {}
    /\ UNCHANGED <<model, at, prompt, gen, stored>>

(* save_prompt_cache and load_prompt_cache *)
ReloadSolo ==
  \E s \in Range(solo) :
    /\ s.held # <<>>
    /\ solo' = <<[s EXCEPT !.caches = [k \in DOMAIN @ |-> Reloaded(@[k])]]>>
    /\ misread' = {}
    /\ UNCHANGED <<model, births, at, prompt, gen, stored>>

(* A checkpoint of the first tokens and a delta with the rest, as they are   *)
(* sliced off the cache for the save and put together again by a restore;    *)
(* a cache that no longer holds all tokens is not saved.                     *)
RestoreDelta ==
  \E s \in Range(solo) :
    /\ \A k \in DOMAIN s.caches :
         Attending(model[k]) /\ KVSize(s.caches[k]) >= Len(s.held)
    /\ \E base \in 1..Len(s.held) - 1 :
         stored' = <<[held |-> s.held,
                      caches |-> [k \in DOMAIN s.caches |->
                        Concatenated(Sliced(s.caches[k], 0, base),
                                     Sliced(s.caches[k], base, Len(s.held)))]]>>
    /\ misread' = {}
    /\ UNCHANGED <<model, births, at, prompt, gen, solo>>

EndSolo ==
  \E s \in Range(solo) :
    /\ stored' = <<[held |-> s.held, caches |-> s.caches]>>
    /\ solo' = <<>>
    /\ misread' = {}
    /\ UNCHANGED <<model, births, at, prompt, gen>>

Next ==
  \/ Decode \/ Admit \/ Graduate \/ Prefill \/ RemoveRows \/ Extract
  \/ StartSolo \/ FeedSolo \/ RewindSolo \/ ReloadSolo
  \/ RestoreDelta \/ EndSolo

Spec == Init /\ [][Next]_vars

----------------------------------------
(* Properties *)

Names == 1..MaxBirths

BatchOK(batch) ==
  /\ Len(batch.names) <= MaxRows /\ Range(batch.names) \subseteq Names
  /\ Len(batch.held) = Len(batch.names)
  /\ batch.caches = <<>> <=> batch.names = <<>>
  /\ \A k \in DOMAIN batch.caches :
       LET b == batch.caches[k]
       IN  /\ b.kind = model[k]
           /\ b.cells # <<>> => Len(b.cells) = Len(batch.names)
           /\ b.kind # "arrays" => \A r \in DOMAIN b.cells : Len(b.cells[r]) = Width(b)
           /\ b.pad # <<>> => Len(b.pad) = Len(batch.names)

(* Every list of a batch has one entry per row, the rows of a buffer are *)
(* equally long.                                                         *)
TypeOK ==
  /\ model \in Models /\ births \in 0..MaxBirths
  /\ at \in {"decode", "admit", "graduate", "prefill"}
  /\ BatchOK(prompt) /\ BatchOK(gen)
  /\ Len(solo) <= 1 /\ Len(stored) <= 1

(* In every forward pass of a batch or of a single sequence, a query attends *)
(* to exactly the tokens of its own sequence that it should: all earlier     *)
(* ones in a KVCache, the last max_size in a rotating one, whatever padding, *)
(* rolling, rotation, trimming, filtering, merging and extending the row     *)
(* went through before (make_mask and update_and_fetch agree).  Passes over  *)
(* several tokens of a batch whose rotating buffer has wrapped are left to   *)
(* AlwaysAttends.                                                            *)
AttendsToWindow == \A m \in misread : m.wrapped

(* The same of every pass. *)
AlwaysAttends == misread = {}

HoldsHistory(c, held) ==
  CASE c.kind = "kv" -> c.offset = Len(held) /\ First(c.cells, c.offset) = held
    [] c.kind = "rotating" ->
         /\ c.offset = Len(held)
         /\ LastOf(InOrder(c), KVSize(c)) = LastOf(held, AtMost(MaxSize, Len(held)))
    [] c.kind = "keep" ->
         LET last == AtMost(MaxSize - Keep, Len(held))
         IN  /\ c.offset = Len(held)
             /\ LastOf(InOrder(c), last) = LastOf(held, last)
             /\ First(InOrder(c), AtMost(Keep, Len(held))) = First(held, AtMost(Keep, Len(held)))
    [] c.kind = "arrays" -> SelectSeq(c.cells, LAMBDA t : t # Blank) = held
    [] c.kind = "chunked" -> c.offset = Len(held)

(* A cache taken out of a batch, kept or restored holds the tokens of its    *)
(* sequence in order, its last ones for a rotating cache, and counts them    *)
(* all: the offset is the position the next token is rotated to (RoPE).  The *)
(* batches it is in keep one entry per row (TypeOK).                         *)
RowsHold ==
  /\ TypeOK
  /\ \A batch \in {prompt, gen} : \A k \in DOMAIN batch.caches :
       \A r \in Rows(batch) :
         /\ IF batch.caches[k].cells = <<>> THEN batch.held[r] = <<>>
            ELSE HoldsHistory(Extracted(batch.caches[k], r), batch.held[r])
         /\ Attending(model[k]) => batch.caches[k].offset[r] = Len(batch.held[r])
  /\ \A e \in Range(solo) \cup Range(stored) : \A k \in DOMAIN e.caches :
       HoldsHistory(e.caches[k], e.held)

(* No pad token enters the recurrent state of a row, so that a batch        *)
(* generates what each of its sequences would alone.                        *)
StatesExact ==
  \A batch \in {prompt, gen} : \A k \in DOMAIN batch.caches :
    model[k] = "arrays" => \A r \in DOMAIN batch.caches[k].cells :
      batch.caches[k].cells[r] = batch.held[r]

=============================================================================
