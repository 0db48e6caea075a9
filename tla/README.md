# A TLA+ model of the mlx-lm server

mlx-lm runs language models on Apple silicon. What its tests hardly reach is the
serving side: a generation thread that multiplexes requests over one batch, the
caches below it, an in-memory cache of prompts, checkpoints of them on disk, decoding
that proposes and rewinds tokens, several machines in lockstep, and handler threads
that come and go. This directory models that part of the code in TLA+, checks small
instances with TLC and proves invariants for all instances with TLAPS.

Source references are relative to the repository. `PROJECT.json` maps each
definition to the lines it stands for.

## Inventory

| component | state | operations | hard behaviour | what makes it correct |
|---|---|---|---|---|
| **Prompt cache** `LRUPromptCache`, `PromptTrie`, `CacheOrder` (`models/cache.py` 4537-4820) | a trie of token paths per model, three eviction orders, byte counters | `insert_cache`, `fetch_nearest_cache`, `trim_to`, `snapshot` | several structures describe one set of entries; long sequences of calls; the shutdown flush reads it from another thread without a lock | structures agree; the reused prefix is right and the longest; limits hold; no eviction raises; eviction priorities |
| **Continuous batching** `BatchGenerator`, `PromptProcessingBatch`, `GenerationBatch` (`generate.py` 2845-4110) | a queue, two batches of rows in ten parallel lists, merged KV caches | `insert_segments`, `remove`, `next` | rows enter, move and leave in the middle of everything; the lists must agree; admission by cache kind | a request behaves as if alone; order; sizes; progress; no exception leaves `next` |
| **Server loop** `ResponseGenerator` (`server.py` 1380-4055) | request queue, requests put aside, open batch, the active context, stop flags | `generate`, `_generate`, `_serve_single`, `_cancel_active_generation`, `stop_and_join` | handler threads, generation thread and main thread interleave; clients vanish; a batch drains; requests fail | every request is answered once and in order; none is lost; a stopped one is released |
| **Checkpoint store** `PromptCheckpointManager` and the manifest (`models/cache.py` 680-1540) | files, a JSON manifest, in-memory indexes | save, update, sync, find, prune | read-modify-write of the manifest by three threads without a lock; crashes between file and manifest; delta chains | no reachable checkpoint is lost; budgets; a delta's base exists |
| **Checkpoint worker** (`server.py` 1547-1757) | queue of save jobs, counters | enqueue, save, join, flush at shutdown | backlog limits, join with a timeout, shutdown with a job running | the backlog is bounded; accepted jobs run in order, none is lost |
| **Checkpoint lengths** (`server.py` 410-660, `generate.py` 283-416) | none | which lengths of a prompt to save, how large a chunk may be | boundary arithmetic: strides, alignments, limits | every scheduled length is the end of a chunk; a chunk is within its bound |
| **KV caches** `KVCache`, `RotatingKVCache`, `ChunkedKVCache`, `ArraysCache` and their batched forms (`models/cache.py`) | buffers, ring positions, paddings, offsets | update, trim, filter, extend, merge, extract, make_mask | ring position versus offset, padding on both sides, one write position for rows of different lengths | a row holds its own history and attends to just the tokens it may |
| **Sequence state machine** (`generate.py` 2913-3018) | state and partial match | match one token | overlapping sequences | the longest match, as by definition |
| **Speculative and MTP decoding** (`generate.py` 1675-2660) | target and draft caches, counters | draft, verify, rewind | rewinding after partial acceptance, stopping among accepted tokens | the tokens are those of plain decoding; the caches stay in step |
| **Loop guards** (`server.py` 662-942) | counters and windows per response | feed a token | what a change of state resets | trip exactly on the defined repetition or length |
| **HTTP handlers** (`server.py` 4057-6300) | one response | buffer control tokens, collect, stream, keepalive | texts held back, tokens blanked, a write that fails at any time | what was generated arrives, sorted by state; events nest |
| **Several machines** (`server.py` 1178-1218, 1770-1812, 3161-3397; `utils.py` 528-620; `models/glm_moe_dsa.py` 1286-1319, 2881-2958) | a copy of the loop's state per rank, layers | share a request, meet in a pass, average the budgets | every collective pairs up with whatever the others are at | ranks meet at the same call with the same state; each layer on one rank |
| **Session guard** (`server.py` 944-1151) | outcomes of a conversation's turns | record a turn, lock | | not modelled |
| Architectures, kernels, training, quantization, tokenizers, vision, sampling, tools | | | numerical or sequential code | not modelled, see `PROJECT.json` |

Interactions. A handler thread puts `(response queue, request, arguments)` into
`requests` and then only reads its response queue; it talks back through the
`_should_stop` flag of its `GenerationContext`. The generation thread owns the
`BatchGenerator` and calls it (`insert_segments`, `next`, `remove`); it asks the
`LRUPromptCache` for a prefix before and inserts caches after. The main thread
sets `_stop`, joins with a timeout and, if configured, flushes the prompt cache to
checkpoints. The checkpoint worker writes files and the manifest, which the
generation thread and the main thread write too. With several ranks every rank runs
the generation thread; only rank 0 has handlers, and shares what it takes from them.

## Modules

| module | models | built on |
|---|---|---|
| `PromptCache` | the in-memory prompt cache and the shutdown flush | |
| `PromptCache_proofs` | its inductive invariant and theorems: orders, trie, lookups, limits, eviction priorities, byte counters | `PromptCache`, TLAPS |
| `SingleRequest` | abstract: each request as its client sees it, no batch | |
| `BatchGenerator` | continuous batching | |
| `BatchRefinement` | the mapping under which `BatchGenerator` implements `SingleRequest` | `BatchGenerator`, `SingleRequest` |
| `BatchGenerator_proofs` | its inductive invariant, its theorems and the refinement | `BatchRefinement`, TLAPS |
| `KVCaches` | the caches of one sequence and of a batch, as operators | |
| `BatchCaches` | those caches on their way through the batch generator, sequential generation and the prompt cache | `KVCaches` |
| `ResponseGenerator` | server loop, handlers, cancellation, shutdown | uses the batch as `BatchGenerator` shows it to be |
| `ResponseGenerator_proofs` | lemmas about rows, segments and queues; its inductive invariant and theorems | `ResponseGenerator`, TLAPS |
| `DistributedServing` | the server loop on several ranks, pipeline stages | |
| `DistributedServing_proofs` | its inductive invariant and theorems: lockstep, equal replicas, stages that cover the model | `DistributedServing`, TLAPS |
| `Completion` | state machine, look-ahead buffer, loop guards, chat and Responses handlers | |
| `Completion_proofs` | the automaton finds the longest match; its inductive invariants and theorems: delivery, guards, event streams | `Completion`, TLAPS |
| `Decoding` | abstract: each token sampled from all before it | |
| `SpeculativeDecoding` | plain, draft-model and MTP decoding over several turns | refines `Decoding` |
| `SpeculativeDecoding_proofs` | its inductive invariant, the step simulation of `Decoding` and theorems | `SpeculativeDecoding`, TLAPS |
| `SavePolicy` | the lengths at which checkpoints are saved, as operators | |
| `CheckpointSaves` | generation thread, save worker and shutdown, lengths only | `SavePolicy` |
| `CheckpointSaves_proofs` | prefill and its saves; the queue, the worker and the shutdown | `CheckpointSaves`, TLAPS |
| `CheckpointStore` | checkpoint files, manifest, index, lookups, deltas, pruning | |
| `CheckpointStore_proofs` | its inductive invariant, calls that do not overlap, the budget, chains of deltas | `CheckpointStore`, TLAPS |
| `MC...` | the instances TLC checks | |

### PromptCache

One thread calls the cache, but the flush of another runs between its steps, so an
`insert_cache` is cut at each statement that touches a shared structure: `Insert`
(trie and counters), `Push`, `DropPrefixes` (`pop_prefixes`), `ForgetPrefix` per
dropped prefix, `EvictFromLru` and `EvictFromTrie` for an eviction, `Return`; `pc`
and `call` are its place and locals. `trim_to` enters the same loop. Lookup changes
nothing, so it is an operator, `Fetch`, evaluated in every idle state for every
prompt. `nodes` keeps the trie's paths apart from `entry`, the values: pop removes
nodes, `pop_prefixes` does not. A KV cache is its bytes and whether it can be
trimmed.

### BatchGenerator and SingleRequest

`asked` records what was inserted; `unprocessed`, `processing`, `prompt` and `gen`
are the queue, `_currently_processing` and the two batches; lists a batch filters
and extends alike are fields of its rows. The logits processors (and samplers, which
go through the same statements) have rules of their own and are a list beside the
rows. A call of `next` is one action, as one thread makes it: it decodes, filters
the ended rows, admits (`Selected`), moves prompts down to one token over
(`Starting`, `StillPrompt`) and feeds a chunk of the rest. `CallNext` is called
only while a sequence is left, as the server and `batch_generate` do. Which
sequences stop is a nondeterministic choice.

`SingleRequest` tells the same for requests that know nothing of each other: wait,
prefill up to segment boundaries, decode up to the limit, end. Its variables are
functions of the uid, and a step lets any of them go on by one action of its own.
`BatchRefinement` maps each sequence to one (`EachAsIfAlone`).

### ResponseGenerator

The handlers' actions are the steps of `generate()` and of the response loop; `Arrive`
and `Submit` are apart because the active context is cancelled before the request is
queued. `worker` is the place of the generation thread: the loop, within a time
budget of the batch, in a stage of `_serve_single`, ended. The batch is reduced:
waiting, prompt and decoding rows, a segment per call (the chunks of a long segment
only repeat a progress report). Its rows are filtered and counted by recursive functions
(`RowsFor`, `Total`), and a request without a limit keeps a count of one token. The prompt
cache is reduced to how many tokens of a prompt it holds, the whole prompt only once a cache
of that length was saved. `batch.doomed` is `uids_to_remove`. Failures (of tokenizing,
loading, generating, saving) may happen wherever the code catches them. `dead` is
the generation thread after an exception nobody caught, `stopped` after `_stop`.

### DistributedServing

Every rank has its own copy of the locals of `_generate` (`server[r]`) and a place
(`at[r]`). Between two collectives a rank moves by itself, an action per branch of the
loop; at a collective it waits with what it brings (`offer`). `AllSum` lets all go on at
once when they wait at the same operation: it does not know for what the ranks
call it, so that two that share different things would be paired, as in the code.
`_share_object` is two collectives, of the size and of the data. A pass of the model
is one: every rank runs its layers and the last stage's output goes to all; the rows of
the batch are what a rank brings to it. A pass moves every row by a step, as what
happens inside a batch is `BatchGenerator`'s. Each rank has a clock, which
`TimeBudget` averages every `SyncFrequency` loops. `Boundaries` are the layers at which
the stages begin: of the layers `Eligible` behind the last boundary, those that leave
enough for the stages to come, each takes the `Closest` to its share. `Room` is what a
limit in bytes leaves the prompt cache of a rank beside its active rows. A server with `--model` loads it before the first request; here the
first request does.

### KVCaches and BatchCaches

A cell of a buffer holds the token whose keys and values the code would put there, or
`Blank`. `KVCaches` has an operator per operation of a cache, on records with the
fields of the class (buffer, offset, ring index, paddings), and the columns of its
mask. The quantized and MLA caches keep the same indices as the plain ones and are
modelled by them. `BatchCaches` drives a list of such caches as `BatchGenerator` does:
`Decode`, `Admit` (merge), `Graduate` (finalize and extend), `Prefill`, `RemoveRows`
(filter), `Extract`; beside it a sequence of sequential generation is fed, rewound,
stored and reloaded. Each sequence has a `history` of the tokens it was fed, with which
its row is compared. `misread` collects what a query attended to that it may not, or
missed.

### Completion

One generation and its handler. Control sequences are given as tokens; the state
machine's trie is built level by level as by `_build_trie`: `FailLinks`, then the sequence
that ends at each node (`Matches`); what it should find is defined without it
(`After`, `Reference`). A token's text is its position, so that a text is a sequence of
positions. A detokenizer may hold a text back, the bytes of an unfinished character, and
hand it on with the next token. `DeliveredAsGenerated` sorts texts by the state of their
own token and does not say whose such a text is: a control sequence behind it takes
it away (`HeldBack` in `MCCompletion`), so the instances that are checked have none. The handler works off each token as it
is generated: what it does depends on the tokens only, not on how far it lags
behind. `_process_control_tokens` is a buffer as long as the longest control sequence.
When a guard over text trips is a choice; those over tokens are modelled. Any write may
fail.

### SpeculativeDecoding and Decoding

A cache is the sequence of tokens it has read; the MTP layer's holds pairs, of a token
and the hidden state it came with. What the models sample is open, but a token is kept
with what it was sampled from: `Decoding`, the specification all three methods
implement, says that this is exactly the context and the tokens before it. A step is the
code between two `yield`s. After each one the consumer may stop; the server then stores
the caches, and the next turn is prefilled on top of what they hold. The invariants and
the refinement are proved in `SpeculativeDecoding_proofs`.

### SavePolicy and CheckpointSaves

All prompts are beginnings of one sequence, so that prompts, keys and checkpoints are
lengths. The generation thread takes what is cached, prefills in chunks (`Chunk`, cut at
the scheduled lengths, bounded by step and query-key pairs), saves on its way, answers,
offers its jobs to the queue or runs them itself, and inserts its cache. The worker takes
jobs until it meets the stop marker. The main thread stops both with timeouts that may
be over at any moment, flushes and prunes. What is on the disk belongs to
`CheckpointStore`: here a lookup finds a whole checkpoint of any length, or none. `req.cache`
is what the cache in `generate_step`'s hands holds, `req.held` what its caller's does.

### CheckpointStore

`file`, `manifest` and `index` are the directory, the manifest and the cached
`PromptCheckpointManager` (none when it was invalidated or its signature no longer
fits). Threads share them without a lock, so each call is cut where it reads or writes
one of them, and keeps what it read in `call`. A save is `SaveWhole` or `SaveDelta`
with the `Write` of the file, then `UpdateLoad` and `UpdateStore` for its entry in the
manifest, then a prune: `Sync` with `SyncStore`, `RemoveStale`, `RemoveOverBudget`,
`PruneStore`. A delta in chunks goes round once per chunk. A lookup goes through the
candidates from the longest on, first by rendered prefix (with its chain of deltas read
file by file), then by tokens; a hit updates the manifest. `Restart` may cut every call
short and loses the index and what was restored, never the disk.

A name stands for the token prefix it is the hash of; what a file holds (`Held`) are
positions of that prefix, so that a restored cache can be compared with the tokens the
code believes it `covered`. Ages and hit counts are left out: an old file is one that
may be stale, and any entry of the kind whose turn it is may be the victim. `quiet`
is a history variable: no two calls overlapped so far and none was cut short.

## What TLC checks

Passing runs:

* `prompt_cache` (`MCPromptCache.cfg`): one model, two tokens, a chain of two
  prompts and a branch off it, sizes 1 and 2, two entries, three bytes, trims to 0, and the
  flush of the main thread beside. The chain makes prefix removal happen, the branch
  stops the deletion of emptied nodes, and both limits are exceeded.
  `OrdersMatchTrie`, `TrieWellFormed` and `BytesAccounted` hold at every step of a call,
  `WithinLimits` and `FetchNearest` (what a lookup returns is a prefix, and the
  longest) between calls. `LostForRoom`: no entry leaves for nothing, only under a cache
  that serves it too or while what is really held exceeds a limit (the code decides by
  its orders and a counter). `CallReturns`: the eviction loops end, the flush beside them.
* `batch` (`MCBatchGenerator.cfg`): three sequences of one or two segments, of one
  token or without a limit (followed up to two), with a fresh or a quantized supplied cache,
  batches of two, a prefill step of two. Three sequences are the fewest in which one waits while two are processed
  and rows change places; a step of two cuts a segment of three into unequal chunks.
  Sequences may be removed at any time. `WorkAligned` (parallel lists, sizes, caches: a
  row is in one stage and has all that belongs to it), `LogitsOwn`; `NoOvertaking`
  (among sequences of one kind), `EachAsIfAlone` (refinement). `EverySequenceEnds`: a
  sequence in a batch ends, and once no more arrive a waiting one does too, or one without
  a limit decodes again and again. The premise is needed: admission lets every later
  sequence that fits the running batches pass one that does not (`NonePassed` fails in
  `MCBatchGenerator_passed.cfg`), and with enough of them that one waits forever.
* `server` (`MCResponseGenerator.cfg`): a streamed chat whose client may vanish at any
  moment, a request without a limit for Vision or for another model, and a
  third that joins the batch or makes it drain; concurrency one, so that a request
  waits inside the batch too; cache hits of 0 or 2 tokens (2 is the whole first
  segment of the chat); cancellation of active Vision requests on.
  `ResultsMatchBatch`, `ActiveIsServed`, `NoneDropped`, `ResponsesInOrder`,
  `SavedUnderOwnType`; `ConnectedAnswered`, `AllReleased`.
* `distributed` (`MCDistributedServing.cfg`): three ranks, one of them slower at times; a
  chat whose client may leave, one that joins it (and finds its topic in the prompt
  cache or not), and a third that drains the batch for another model, is served alone, is
  refused or cannot be loaded; six layers whose nearest boundaries are not available.
  `InLockstep`: ranks that wait for each other are at the same call. `ReplicasAgree`:
  they then agree on batch, queue, model, prompt cache and budget, and each layer is on
  one of them. `Answered`. Deadlock is checked: the ranks never stop.
* `caches` (`MCBatchCaches.cfg`): models of plain, of plain and rotating, of rotating
  caches that keep a prefix, and of recurrent states; three sequences of up to six
  tokens, rings of three, buffers that grow by two, chunks of up to three, three rows,
  two admitted at a time: rings wrap, rows are padded on either side, merge, leave,
  are taken apart and stored. `AttendsToWindow`: a query sees the tokens its sequence may
  attend to and no others. `RowsHold`: a row is its history, or the part its cache keeps.
* `completion` (`MCCompletion.cfg`): control sequences of several tokens that overlap,
  control sequences of one token, tool calls only the end closes; chat and Responses,
  streamed or not; loops of two n-grams of two tokens, calls of three tokens, reasoning of
  four. `DeliveredAsGenerated`: what the client gets is what was generated, sorted by
  the states as defined by the longest match. `GuardsHold`: while the handler reads on, no span
  ends in a loop or is longer than its guard allows, counted from the last change of
  state. `EventsWellFormed`: items of a Responses stream
  open, get deltas and close in order, and the final text is what the deltas said. White
  space and `<|im_end|>` at its end are taken off before it is sent as a whole, but have
  been sent as deltas (`server.py` 5608-5610); the token a guard stopped at is not sent as
  a delta.
* `speculative` (`MCSpeculativeDecoding.cfg`): plain, draft (one or two proposals) and MTP
  (one or two, with either prefill), six tokens, a prompt of two chunks, two turns.
  `HistoryWhole`: logits processors see every token yielded, none twice and none of a
  rejected proposal. `CachesInStep`: when a round begins the target's and the drafter's
  caches hold the same conversation up to the current token, and what a turn stores is
  near it. `DecodesAsPlain`: refinement of `Decoding`.
* `saves` (`MCCheckpointSaves.cfg`): three sets of options (the usual; odd strides with a
  tight bound and a backlog of one; everything synchronous), prompts of 1, 5 and 10
  tokens with a system prompt or not, two requests, shutdown at any time.
  `BoundariesSaved`: prefill leaves no scheduled length out, and what it saves under a
  name holds the tokens of that name; if the cache the request began with already lacked tokens
  of its own, it lacks just as many. `ChunksBounded`.
  `SnapshotsBounded`: the caches kept for saves, queued, in the worker's hands or on their
  way, are at most one more than the backlog limit, and a copied one is queued. `SavesConserved`: an accepted
  job is done, running, queued or given up, in order. `AcceptedRun`: in a process that
  is not shut down they all run.
* `checkpoints` (`MCCheckpointStore.cfg`): a frontier, a chain of two deltas on it saved
  in chunks of one token, a longer frontier beside them, a budget of three files for the
  four, each name in one form. The generation thread looks up and saves, a second thread saves deltas and
  prunes, the process restarts anywhere. `RenderedWhole` holds always: what a rendered
  lookup returns holds every token it says (what it says of names saved in two forms is in
  `MCCheckpointStore_mixed.cfg` below). `FilesListed`, `DiskWithinBudget` and
  `ChainsKept` (a prune removes no base of a delta that stays) hold as long as calls do
  not overlap: when they do, an update of the manifest can be lost, or a prune decides
  on a stale copy. `ChainsKept` is about removals only. A delta can be written anew on a
  base that was removed since a lookup restored it, because the save does not look whether that file
  is still there (`server.py` 2589, 2694-2830); a lookup then rejects it. `CallsReturn`: the loops of a lookup and a prune end.

The type invariants are parts of `BytesAccounted`, `WorkAligned`, `ResultsMatchBatch`,
`InLockstep`, `RowsHold`, `DeliveredAsGenerated`, `CachesInStep`, `SavesConserved` and
`FilesListed`.

Runs that find what the code does against what a doc or comment says (`findings` in
`PROJECT.json` quote the lines):

* `speculative_next_turn`: an MTP turn that is stopped among accepted proposals stores
  a cache with tokens that were never part of the conversation.
* `saves_restored`: `generate_step` continues from a longer checkpoint in a cache of its
  own, and the server stores the one it passed in, which lacks those tokens.
* `checkpoints_two_forms`: a response saves one name as a continued checkpoint and then as
  a delta, which the default lengths allow (2048 + 8192 = 10240). Between the write of the
  delta and the update of the manifest, and after a crash there, the entry still says
  "continued": a lookup restores the suffix alone for the whole prefix.

The passing runs stay clear of these: in `batch` quantization starts at 0 and all
requests have processors, in `server` no hit covers a whole prompt, in `checkpoints` each name has one form, and
`ConnectedAnswered` speaks of clients that stay. Liveness there excepts, besides a
stopped server, only the moments when a request without a limit that nobody stopped
is in the batch or served alone. In `speculative` the next turn starts from what the stored
caches hold.

### Other behaviour met on the way

Each of these has a configuration that ends in the state described; they are kept
beside the runs for a reader.

| configuration | property | what happens |
|---|---|---|
| `MCBatchGenerator_logits.cfg` | `LogitsOwn` | logits processors of an ended row stay in the list when all entries are empty (`generate.py` 3451-3454); the next request's are not applied to its row |
| `MCBatchGenerator_passed.cfg` | `NonePassed` | a sequence that is incompatible with the running batches is passed by later ones that are not (3928-3986): nothing bounds how often |
| `MCBatchGenerator_mixed.cfg` | `NeverRaises` | with a positive `quantized_kv_start` the prompt and the generation batch are quantized at different moments and their merge raises out of `next()` (2850-2854) |
| `MCPromptCache_flush.cfg` | `FlushCompletes` | `snapshot` meets a key in the orders whose value just left the trie; `PromptTrie.get` raises where the caller tests for `None` (`cache.py` 4789) |
| `MCResponseGenerator_exact.cfg` | `ThreadSurvives` | a batchable prompt that repeats an earlier one with its answer is in the prompt cache as a whole: the loop at `server.py` 3227-3234 pops every segment, and `insert_segments([[]])` evaluates `seq[-1]` (`generate.py` 3732): the `IndexError` leaves `_generate`, and all handlers wait on. The sequential path takes a token back (`generate.py` 905-918) |
| `MCResponseGenerator_left.cfg` | `HandlersReturn` | a client is lost while its prompt is processed: its handler stops the context, the request is removed without a last response (`server.py` 3390), and the handler waits on |
| `MCResponseGenerator_vision.cfg` | `NewestNotBlocked` | a Vision request still in the queue or in preparation is not found by the newer request that should stop it (1512) |
| `MCCheckpointSaves_short.cfg` | `SavesWhole` | a request that goes on with the short entry of `saves_restored` saves checkpoints under names they lack tokens of; they outlive the process, and no load compares a cache's length with its name (`cache.py` 2099-2130, 1777-1785) |
| `MCCheckpointStore_exact.cfg` | `TokenWhole` | an exact checkpoint of n tokens holds n-1; for a longer prompt `generate_step` restores it and goes on behind n, one token short (`generate.py` 1088) |
| `MCCheckpointStore_frontier.cfg` | `ChainsKept` | a frontier save finds a delta of its name and lists it as a frontier (`generate.py` 1403, `--checkpoint-prefill-frontier-save`, off by default): a prune then takes its base |
| `MCDistributedServing_alone.cfg` | `InLockstep` | a client that leaves a request served alone makes rank 0 raise `NotImplementedError` (`server.py` 3779) and go on to the queue, while the others make the next pass |
| `MCDistributedServing_bytes.cfg` | `InLockstep` | `--prompt-cache-bytes` limits the bytes of a rank's own layers; with uneven stages the ranks evict differently, and a later prompt has different lengths left on each |

`MCCheckpointStore_mixed.cfg` is no such state but a second instance of the store, beside
the run for its size: three names, the first delta saved as a continued checkpoint
too, and a limit of five bytes (a token is a byte). `RenderedWhole`, `FilesListed`, `DiskWithinBudget` and
`ChainsKept` hold there, in 3.3 million states.

Seen in the source while translating it, without a model of their own:

* Several ranks: `_stop` is set on rank 0 only, and the others wait in the next collective.
  `PipelineMixin.pipeline` (`models/pipeline.py` 18-31) loses layers when they do not divide
  evenly: of 5 layers on 2 ranks, layer 2 is on none.
* Caches: `BatchRotatingKVCache.make_mask` for several tokens on a wrapped buffer
  (`cache.py` 4336-4362) and `ArraysCache.make_mask` with padding on both sides (3151) do not
  give the mask of the rows; the state setter of `ChunkedKVCache` drops
  `start_position`. `BatchCaches` has the operators, and its instances keep to the calls
  the batch generator makes.
* Decoding: `max_tokens = -1` makes `speculative_generate_step` raise; `num_draft_tokens`
  of 0 is accepted (`server.py` 4382); that the draft cache can be trimmed is not tested; logits
  processors see the last prompt token and the output in plain decoding, and the
  whole prompt in MTP decoding. What a draft model leaves in the stored caches is as in
  `speculative_next_turn` (`server.py` 4008).
* Handlers: a stopped tool call whose end sequence is empty (`tool_parsers/mistral.py`) is
  not delivered (`server.py` 5022); a function-call item uses `output_index` 0 again; the
  text at which a guard breaks off is not sent as a delta; the status of a streamed
  response is always "completed"; the batched path never calls `finalize` of the
  detokenizer (3358-3361).
* Saves: with a backlog limit of one, a "continued" job that saves nothing takes the
  delta's place; a delta job may be enqueued without a snapshot.
* Model provider: `load` maps the model's path before it looks up its adapter (1405-1407),
  so `--adapter-path` of the default model is not found.

### Bounds

`MaxRequests` (sequences inserted), `MaxDecoded` (tokens of a sequence without a limit in
`BatchGenerator`), `Clients` (a request each), `MaxLag` (responses a
handler may be behind; the generation thread then waits, as the queue of the code is
unbounded; order and ownership do not depend on the number of equal responses), the
sets of sizes, prompts, hits and limits. Counters need no bound: token counts stop at
the request's limit and are not counted for requests without one. No state
constraint, no symmetry (the liveness runs would not be sound with it).

In the store, the second thread stands for the save worker and for the main thread at
shutdown, which joins the worker before it prunes; that join may time out, and three
threads at once are out of TLC's reach. In the run `checkpoints` each name is saved in one
form and the budget counts files; `MCCheckpointStore_mixed.cfg` has a name in two forms and
counts bytes, and the theorems are about any forms. What names in two forms
break is not excluded by the instances but by the properties, which say so (`Readable`, `FrontierApart`).
The budget has room for a whole chain. Prefix checkpoints differ from a frontier only in the order
of eviction and in that they are always written; exact ones are only in
`MCCheckpointStore_exact.cfg` and in the theorems.

In `caches`, `MaxHeld` is twice the ring, `MaxBirths` lets a third sequence meet a batch of
two. In `completion` a generation is as long as the longest control sequences and
guards need to happen twice. In `speculative`, `MaxTokens` lets a full round, a partial
one and the fallback of the adaptive mode follow each other. In `saves` the lengths are
around the strides, alignments and limits of the options, and the longest prompt needs
several chunks. In `distributed`, the third rank makes the boundaries depend on each
other, `SyncFrequency` 2 lets budgets change while a batch is running.

`CHECK_DEADLOCK FALSE` stands in the batch, server and saves runs: all sequences may have
ended, the server may have stopped, the process has exited.

### Fairness

`PromptCache`: weak fairness of the running call: the thread inside the call goes on.
`BatchGenerator`: weak fairness of `CallNext`: its callers loop until the results are
complete. `ResponseGenerator`: weak fairness of the generation thread and of each
handler thread: operating-system threads run. Nothing makes clients ask or
disconnect, or the server stop. The generation thread's fairness is that of the thread as a whole,
never of one of its branches: which request fails, or which token stops a sequence,
is not fair. `SingleToken` with `Decide` may go on for ever for a request without limit.
`CheckpointStore`: weak fairness of each thread inside a call; nothing makes it begin one,
and nothing makes the process restart or stop restarting.
`CheckpointSaves`: weak fairness of the generation thread while it serves a request, and of
the save worker; nobody must ask, and nobody must shut down.
`DistributedServing`: weak fairness of the ranks and the network together: some rank that
can go on does. None can go round the loop without meeting the others, so that it
does not leave them behind.

## What is proved

For every set of models, tokens and prompts, all entry sizes and limits:

| theorem | property | source |
|---|---|---|
| `PromptCache_proofs!TypeCorrect` | `TypeOK` | |
| `PromptCache_proofs!OrdersAgree` | `OrdersMatchTrie` | `cache.py` 4630-4771 |
| `PromptCache_proofs!EvictionFindsVictim` | at "pop" the victim is in the trie, so `PromptTrie.pop` raises no `KeyError` | 4561-4573 |
| `PromptCache_proofs!LimitsRespected` | `WithinLimits` | 4745-4760 |
| `PromptCache_proofs!NothingLostForNothing` | `LostForRoom` | 4630-4771 |
| `PromptCache_proofs!CountersExact` | `BytesAccounted` | 4710-4771 |
| `PromptCache_proofs!TrieKeepsShape` | `TrieWellFormed` | 4542-4582 |
| `PromptCache_proofs!FetchFindsNearest` | `FetchNearest` | 4584-4627, 4688-4708 |

For all clients, requests, hits and concurrencies:

| theorem | property | source |
|---|---|---|
| `ResponseGenerator_proofs!ActiveContextServed` | `ActiveIsServed` | `server.py` 1490-1523, 3399-4016 |
| `ResponseGenerator_proofs!InvariantHolds`, `AtType` | the inductive invariant; `TypeOK` | |
| `ResponseGenerator_proofs!BatchHoldsItsResults` | `ResultsMatchBatch` | 3204-3394 |
| `ResponseGenerator_proofs!RequestsKept` | `NoneDropped` | 1770-1780, 3144-3397 |
| `ResponseGenerator_proofs!OrderKept` | `ResponsesInOrder` | 3204-3382, 3399-4016, 4025-4054 |
| `ResponseGenerator_proofs!TypesKept` | `SavedUnderOwnType` | 3228-3263, 3338-3376, 3913-4016 |

For all segments, supplied caches, limits, processors, batch sizes, prefill steps and
numbers of requests, quantized or not:

| theorem | property | source |
|---|---|---|
| `BatchGenerator_proofs!InvariantHolds` | the inductive invariant | |
| `BatchGenerator_proofs!AlwaysWorkAligned` | `WorkAligned` | `generate.py` 3700-3829, 3873-4062 |
| `BatchGenerator_proofs!OldestFirst` | `NoOvertaking` | 3911-3986 |
| `BatchGenerator_proofs!AlwaysLogitsOwn` | `LogitsOwn`, if all requests bring processors or none does | 3085-3156, 3343-3368, 3442-3462 |
| `BatchGenerator_proofs!Implements` | `EachAsIfAlone` | 3085-3478, 3700-4062 |

For all tokens, prompts, numbers of proposals, bounds and turns, whatever is proposed,
sampled and accepted:

| theorem | property | source |
|---|---|---|
| `SpeculativeDecoding_proofs!InvariantHolds` | the inductive invariant | |
| `SpeculativeDecoding_proofs!Implements` | `DecodesAsPlain` | `generate.py` `generate_step`, `speculative_generate_step`, `mtp_speculative_generate_step` |
| `SpeculativeDecoding_proofs!AlwaysHistoryWhole` | `HistoryWhole` | the same |
| `SpeculativeDecoding_proofs!AlwaysInStep` | `CachesInStep` | the same; `server.py` `_serve_single` |

For any number of ranks, stages and layers, all clients, requests, budgets, clocks and
sizes of the prompt cache, if it has no limit in bytes (`CacheBytes = 0`) and only clients
of batchable requests leave (`BatchedLeavers`):

| theorem | property | source |
|---|---|---|
| `DistributedServing_proofs!InvariantHolds` | the inductive invariant | |
| `DistributedServing_proofs!LockstepHolds` | `InLockstep` | `server.py` 1770-1812, 3144-3397, 3743-3786 |
| `DistributedServing_proofs!ReplicasHold` | `ReplicasAgree` | the same, 1182-1218; `glm_moe_dsa.py` 1286-1324, 2881-2894 |

For all names and the forms they are saved in, prompts, tasks of the threads, chunk sizes and ages, and
any number of threads:

| theorem | property | source |
|---|---|---|
| `CheckpointStore_proofs!Invariant` | the inductive invariant | |
| `CheckpointStore_proofs!RestoredWhole` | `RenderedWhole` | `server.py` 1924-2300 |
| `CheckpointStore_proofs!NothingLost` | `FilesListed` | `cache.py` 1034-1070, 1110-1250 |
| `CheckpointStore_proofs!BudgetKept` | `DiskWithinBudget`, if the budget has room for a chain (`BudgetSuffices`) | `cache.py` 1199-1248 |
| `CheckpointStore_proofs!BasesStayUnderDeltas` | `ChainsKept`, if it has also room for what lies on the way to a delta (`ChainsFit`) and no name is saved both as a frontier and as a delta (`FrontiersApart`) | the same |

For all vocabularies, control sequences, limits and guards, streamed or not, if no text is held back
(`NothingHeld`):

| theorem | property | source |
|---|---|---|
| `Completion_proofs!EverythingIsDelivered` | `DeliveredAsGenerated` | `generate.py` 2913-3018; `server.py` 1165-1178, 4843-5117, 5397-5758 |
| `Completion_proofs!GuardsAlwaysHold` | `GuardsHold` | `server.py` 662-715, 4961-5003 |
| `Completion_proofs!EventsAreWellFormed` | `EventsWellFormed` | `server.py` 5397-5758 |

For all option sets, prompts, outputs and numbers of requests:

| theorem | property | source |
|---|---|---|
| `CheckpointSaves_proofs!TypesKept` | the type invariant of `CheckpointSaves` | |
| `CheckpointSaves_proofs!PrefillSavesBoundaries` | `BoundariesSaved` | `generate.py` 1531-1670 |
| `CheckpointSaves_proofs!PrefillChunksBounded` | `ChunksBounded` | `generate.py` 350-416 |
| `CheckpointSaves_proofs!SavesAreConserved` | `SavesConserved` | `server.py` 1547-1640 |
| `CheckpointSaves_proofs!SnapshotsAreBounded` | `SnapshotsBounded` | `server.py` 1573-1600 |

*Orders.* `OrdersMatchTrie` is not inductive by itself: it says which key a step sets
apart, not what the running call may assume of it. `CallConsistent` adds that: the key
being inserted is in the trie until it is in its order, prefixes taken out of the trie
are pending only at "forget" and are entries of different keys, and at "pop" the victim
is in the trie. `IInv` is the conjunction with `TypeOK`. The proof has one lemma per
step of the code, over lemmas on `RemoveFirst`, `Append` and `Tail` of a sequence
without duplicates.

*Limits.* The size check is an `if` that evicts one entry, so the proof follows the
number of entries through a call (`CallLimits`): at most `max_size` when it starts, one
more after `Push`, no more while prefixes go, at most `max_size` again after the check.
For the bytes, either the call's limit is `max_bytes` or the cache was within it.
That proof needs no sum over the entries: only that no entry has a negative size.

*Trie.* `TrieWellFormed` is inductive together with `IInv`. `Below` is shown to be a partial
order and `Path` to be what is above a node. The step that matters is `pop`: a node that
stays keeps a value below it, because what stopped the deletion is another value on the
way or a branch, whose own value is not the victim's.

*Lookups.* A prefix of the request that some entry has is on that entry's way, so that it is a
node, and the walk is at least as deep (`WalkReaches`); as every branch ends in a value there
is an entry below the deepest node (`ContinuationExists`). What is fetched is then the
greatest of what all entries offer, although the search sees one branch only.

*Counters.* `Accounted` states them as sums over the entries and over the prefixes a call is
retiring, both finite. What the steps need of a sum is that any element can be taken out
(`SumWithout`), not only the one its definition chooses, and that values moved from
the trie to the call weigh the same (`TakenWeighsTheSame`).

*Active context.* The strengthening says that the generation thread serves a client exactly
in the stages of `_serve_single`.

*Server loop.* None of the four invariants of the loop is inductive by itself: where a
request is decides what may be in its queue, and the rows of the batch decide where it
is. `IInv` has five parts for that, and TLC checked each of them on the instance of `server`
before it was proved. `Hands`: a request is in line once, in the batch, or served
alone, and never in two of these places; no batch is open while one is served alone.
`RowsAreResults`: every entry of `_batch_results` has one row among the waiting, prompt
and decoding ones. `Boxes`: a queue is ordered, and the place of its request bounds
the rank of what is in it (`Highest`), so that whatever the next step puts there comes
behind. `Informed`: a request that has begun has been sent its context and one that has
ended its last response, as long as its handler still waits. `Typed`: the segments
left of a row make up the rest of its prompt, and every segment keeps its type. The step that takes
most of the proof is one call of `next()`: rows end, prompts move on by one segment
and into the decoding batch, and new rows join, all at once. `RowsFor` and `Total` are
recursive functions; what they give is proved by showing that the set of counterexamples
has no least element (`LeastOf`, `SetInduction`).

*Batch.* `Inv` is `Typed /\ Staged /\ Bounded /\ Worked`; TLC checked it on the instances of
`BatchGenerator` before the proof. `Typed` says of a batch that it is `Good`: a row per
sequence, lists long enough for the rows, a merged cache that covers every row and is
of some kind just if there are rows. `Staged` says in which of the three places a living
sequence is. `Worked` relates each row of the prompt batch to its entry of
`_currently_processing` (`Aligned`): held and done tokens differ by what was supplied,
the segments left sum up to what is missing and end in the last token alone, and their
boundaries (`Stops`) are those of the request that are still ahead, so that cutting a
segment into chunks, or the last token off, adds no stop but the one before the last token.
A decoding row holds its prompt and what it returned. One call of `next` is proved in
its parts (`NextParts`: decoded, selected, admitted, started, fed), each with a lemma on
the lists it filters or joins; `Nth` counts the places a filter keeps, which makes `Pick`
a list operation the provers can use.

*Order.* `Selected` takes of a kind those with fewest before them, so whoever enters a
batch has no older one of its kind left behind in the queue; the invariant gives that
nobody is in the queue twice or in a batch already.

*Processors.* The list beside the rows is filtered only if some entry is filled, and
filled up with `None` or empty lists by other rules. `OwnLists` says what comes of it: if all
requests bring processors, the list has one entry per row, its own; if none does,
it has nothing but fillers, in any number. Between these two there is no invariant:
`MCBatchGenerator_logits.cfg` shows a row whose processors are not applied. That is why the
theorem has its hypothesis on `Processors`, the set of what requests bring.

*Alone.* `View` says what is seen of a sequence in each of its places; it follows from `Inv`,
before and after a step. A sequence whose row, queue entry or end is taken over as it is
looks the same (`Stays`), so each action is left with the sequences it moves: the one
inserted or removed, the decoding rows, and in a call of `next` the rows that start
(`StartSeen`) or get a chunk (`ChunkSeen`). `ChunkIsNext` is the heart of it: the chunk, cut
from a list of remaining segments whose last token is apart, ends where `SingleRequest`
says, at the least of a whole step, the last token and the segment boundaries ahead,
because `Aligned` relates the stops of the remaining segments to those of the request. The
hypotheses are those of the invariant only, so the theorem holds for any stops, removals,
cache kinds and processors, also where the batch raises.

*Decoding.* That a token was sampled from the right text is known only while the caches
are known, so `IInv` says for each place of the generators what they hold. The central
part, `RoundFrom`, holds from the verification of a draft model's round to its rewind:
there are three texts, what the caches and the processors held before it, such that the
caches are these with all proposals behind, what was yielded is these with the accepted
ones behind, and every sample of the round was taken from the text and the proposals
before it; as long as the proposals agree with the samples, that is what was yielded. So the step to the next yield is
one more element of an equality between sequences, and the rewind cuts the caches back to
the first side of it. `InLayerRound` says the same of a round of MTP, whose caches were cut
back before the first yield. `LayerInStep` follows the cache of the layer: its pairs are
those of the text up to a hidden state (`Layer`), which grows (`LaterGrows`), is cut back
(`LaterShrinks`) and does not depend on the text further on (`LaterOfSameText`); only behind
the fallback, or in the last step up to `max_tokens`, it is a prefix of them. Each action then keeps `IInv` and either yields nothing or makes a
`RightYield`, which is a step of `Decoding` (`StepMapped`). What a turn starts from is
only typed: that it may start from a cache that does not hold its key is the finding of
`speculative_next_turn`, and no theorem rests on it.

*Ranks.* Between two collectives the ranks are at different places, so there is nothing
to say of one rank and the next by itself. What holds is that a step of a rank is decided
by what all the ranks know: its `View` leaves out what only rank 0 has (the request
before it is shared, who has left) and what only the rank has (its clock, its layers).
`Onward` is the step from a view to the next, without a rank in it, and each action is shown to
be that step on its rank's view (`Done`). So from a meeting all ranks go along one path of
views, each at its own pace: `IInv` says that such a path exists, that every rank's view
is on it, and that only its end is a place where ranks meet. A step of the rank that is
ahead makes the path longer; one of another rank goes along it (`StepOnPath`). If all
wait, all are at the end: their views are equal, which is `InLockstep` and, with the locals
that a view leaves out, `ReplicasAgree`. A collective is then the start of a new path of one
view, which needs that what it gives is the same for all and sound (`SumAtMeeting`): a
size that is not 0 means that rank 0 has a request, and the times sum up to more than 0, as
every pass took some (`Clocked`). TLC checked `IInv` on the instance of `distributed`, with
the path as the steps by which each rank gets to the one that is ahead. The stages follow the boundaries by induction: `Enough` layers
of their own indexer are left behind each boundary, so that there is an eligible one for the next and it
is greater (`BoundariesGrow`). Both hypotheses are needed, and hold in `distributed`:
`MCDistributedServing_bytes.cfg` and `_alone.cfg` show the ranks part without either, as
the code lets them.

*Completion.* The proof follows a token on its way. The node of the automaton is the longest
node that the tokens since the last change of state end with (`LongestEnd`): a child
found up the failure links is the longest end of the next text (`ChildIsLongest`), which holds
of the links themselves level by level, so that they lead to the longest end of a node
that is shorter (`FailLinksOf`), and the match of a node is the longest sequence it ends
with (`MatchesOf`, `TrieFollows`). So a match is what `After` defines, and state and position of
the automaton are those of the definition for all tokens (`MachineIs`). `Core` says that the buffer
holds just the responses not yet taken, each with its text if no sequence that ended so far
covers it (`Waiting`): it is always one short of the longest sequence, so that a
token that leaves it is out of reach of any sequence still to end, and nothing is popped from
an empty buffer. `Delivery` says of what was sent and what the handler has, put
together, that it is what the definition says of the tokens taken (`Told`), and of what the handler
has of an open tool call that it is that call so far (`Holds`). Each way through the handler's body moves text from the handler to the
client, which changes nothing of it (`ToldSent`), or takes a response, which adds the token by
its state (`ToldNext`). `Order` says of every chunk that it ends before what the handler has begins, `Guards`
that the counters and the span are those of the tokens since the last change of state
(`Counts`) and that they trip nothing while the handler reads on. TLC checked the four on the
requests of `completion` with shorter limits. `Streamed` says of a stream of events that it is the
opening and deltas that say the handler's text (`Speaking`), but for the token a guard stopped at
(`Spoken`). So, cut off anywhere, it has each event of an item at a place that follows from the
number of deltas and the item (`StreamPlaced`), and what is in such places nests
(`LocatedNest`); the text in the ending is compared with what the deltas say (`FinaleFits`). The hypothesis `NothingHeld` holds of all its requests.

*Prefill.* `BoundariesSaved` is inductive with what the loop knows of its locals: the
lengths still to be saved are those above the position, the cache it works on has been
given what was processed since it began (`LacksNoMore`), and a chunk never goes past
the least of them. That least element exists by well-founded induction on the naturals,
used with one fixed relation. The bound of a chunk follows from the arithmetic of the
step alone (`DivBelow`, `ProductMonotone`).

*Store.* There are two halves. `IInv` holds whatever the threads do to each other and in whatever
forms names are saved: a file is in a form of its name, a delta's base is a strict prefix that may be saved
as more than an exact checkpoint, an entry of the manifest, of the index or in the hands of a
call is of kind "delta" only if its name may be saved as one, and is if it is saved as nothing else
(`KnownAs`), and a lookup that has come down a chain to `at` covers just the positions
behind it, up to its name (`Looking`). As it says nothing of which files are there, it
survives every interleaving and restart: a file may be gone or replaced between two reads, but where its
name has one form, what is read under it holds what that name says.

The other half is about calls that do not overlap. `Alone`: one thread at most is under way, and
`Fits` says for each place of its call how files, manifest and the entries in its hands differ: not at
all before a save, by the file just written until the manifest is stored, by what was removed until the
prune ends. `Tied` says the same of what entries say (`Agree`): the base their file names, and the kind
"delta" just where the file is one, but for the file just written (`Built`), also in the cached index and through a lookup that
writes an entry anew. A name that a frontier save may list is excepted (`FrontierApart`), as
`generate.py` 1403 does not look at the label of what it lists. `RenderedWhole` needs both halves: a name
saved whole and as a delta is read for what it is because entry and file agree when nothing overlaps
(`WholeRead`). What is left out, `Readable`, is what the run `checkpoints_two_forms`
shows to fail, and a delta on a name that is sometimes exact.

`Budget` follows what a call protects from its prune (`Spares`: a set that has room)
and that the sizes it goes by are those of the files. A prune that stops over the limits
has only protected files left, and these have room. For the chains `Tied` says also that what a save of a
delta protects lies on the way to its goal. Then no base is removed: the bases go only
when each unprotected file is one. Take the longest of these that is not on the
way to the goal: the delta on it is longer, so it is on the way, and so is its
base. Thus all files are on the way, and `ChainsFit` says that those have room (`BasesSpared`). Names
count with all their tokens in both hypotheses, while a delta holds fewer. Both hold in `checkpoints`
(three files for a chain of three) and `MCCheckpointStore_mixed.cfg`, as does `FrontiersApart`. It is
needed: `MCCheckpointStore_frontier.cfg`. Before they were proved, TLC checked `Budget` in `checkpoints`, and
`IInv`, `Alone` and `Tied` on instances whose names are saved in two forms, exact ones among them. The
defaults, 256 files and 256 GiB, are far above one chain.

*Queue.* `QInv` is `IInv /\ Order /\ Drained /\ SnapshotsBounded`: accepted jobs are the
done, the running and the queued ones in this order; behind the stop marker nothing is
queued; and the snapshots are within their bound. The proof follows the three threads' actions; what it needs of sequences (removing one element,
appending two pieces) are lemmas of their own.

Assumptions: the named `ASSUME`s of the modules, which type the constants, say that `None`
is no client, and keep Vision requests out of the batch (`_is_batchable`).

Model-checked only: all of `BatchCaches`, and every liveness property (of the server
`ConnectedAnswered` and `AllReleased`, of several ranks `Answered`, of the store
`CallsReturn`), which is out of the prover's reach.

## Not modelled

In the modelled components: restore shard groups of the batch generator, timestamps, the
prompt cache's content as the server sees it (any hit length may occur, and
`DistributedServing` knows topics only). A short row is quantized as soon as the longest
of its batch reaches `quantized_kv_start`; that is modelled, but no property forbids it. In
the store: malformed manifests, writes and removals that fail, identities, layouts and
versions of models, MTP checkpoints. In generation alone: `max_kv_size`, input
embeddings. In the handlers: parsing of requests, the session guard over several turns,
the plain completion endpoint. On several ranks: disks that differ, stopping, the order of
sends within a pass. The model provider's name maps and adapters.

Of the architectures only the split into stages has state of its own to get wrong; layers,
kernels, quantization, training and sampling are numerical code without interleavings or
long-lived state, most of the repository by lines. Tokenizers, tool parsers and chat
templates are string processing, vision is image preprocessing, and the command line
tools are sequential scripts.

## Plan

1. Done: `PromptCache`, `BatchGenerator`, `ResponseGenerator`, `CheckpointStore`; the caches,
   completion, decoding, saves and several ranks.
2. Proofs: the rows of `BatchCaches`. The prompt cache, completion, the server's loop, the batch with its refinement, decoding, saves, the store and
   several ranks are done.
3. More of the store: a manifest lost after deltas were saved (they become "unknown" and a
   token lookup takes them as whole), removals that fail,
   budgets below a chain. Abstract specification: the set of checkpoints a lookup may
   return, each whole.
4. The session guard; the model provider's maps; sharing a model between machines
   (`share.py`).
