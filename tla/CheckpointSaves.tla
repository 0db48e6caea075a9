--------------------------- MODULE CheckpointSaves ---------------------------
(***************************************************************************)
(* When checkpoints are saved.  Three threads take part:                   *)
(*                                                                         *)
(*  - the generation thread serves one request after the other: it takes   *)
(*    what is cached, prefills the rest in chunks and saves on the way     *)
(*    (mlx_lm/generate.py 820-1670), then offers the work of the response  *)
(*    to the save queue and puts its cache into the prompt cache           *)
(*    (mlx_lm/server.py 3574-4010);                                        *)
(*  - the save worker takes jobs from the queue (server.py 1547-1571);     *)
(*  - the main thread shuts down: it waits for both as long as it may,     *)
(*    flushes the prompt cache to the disk and prunes (1525-1757).         *)
(*                                                                         *)
(* The prompts are the beginnings of one sequence of tokens, so a prompt,  *)
(* a key of the prompt cache and a checkpoint are given by their lengths.  *)
(* What is on the disk belongs to CheckpointStore: here a lookup finds a   *)
(* whole checkpoint of any length, or none; one that was saved short (see  *)
(* SavesWhole) is not found again.  Caches can be trimmed, and the         *)
(* requests have no images and no draft model.                             *)
(***************************************************************************)
EXTENDS SavePolicy, Sequences, SequencesExt

CONSTANTS
    Policies,    \* the options the server may be started with
    Totals,      \* the lengths of the prompts
    Systems,     \* where the system prompt may end, 0 without one
    Outputs,     \* the numbers of tokens generated
    MaxRequests, \* bound: the number of requests
    None, Stop   \* Stop: _checkpoint_save_stop

ASSUME PoliciesAssumption == Policies \subseteq Policy
ASSUME LengthsAssumption ==
    /\ Totals \subseteq Nat \ {0} /\ Outputs \subseteq Nat \ {0}
    /\ Systems \subseteq Nat /\ MaxRequests \in Nat

VARIABLES
    policy,    \* the options
    gen,       \* where the generation thread is
    req,       \* the request it serves
    taken,     \* history: the number of requests taken
    ram,       \* prompt_cache: the length of a key, and the tokens its cache holds
    jobs,      \* _checkpoint_save_queue
    worker,    \* where the save worker is, and the job its local variable holds
    main,      \* where the main thread is
    stop,      \* _stop
    flush,     \* the candidates left, the files seen and the number saved
    accepted,  \* history: the jobs queued, in order
    ran,       \* history: the jobs run, in order
    waited     \* history: so far both joins have ended with the thread's end
vars == <<policy, gen, req, taken, ram, jobs, worker, main, stop, flush, accepted,
          ran, waited>>

Entry == [tokens : Nat, held : Nat]
Job == [label : {"continued", "delta"}, request : Nat]
ASSUME MarksAssumption == None \notin Job /\ Stop \notin Job
Request ==
    [total : Nat, processed : Nat, due : SUBSET Nat, pending : SUBSET Nat,
     stored : SUBSET Entry, exact : BOOLEAN, step : Nat, base : Nat,
     key : Nat, began : Entry, cache : Nat, held : Nat, own : BOOLEAN, call : [from : Nat, tokens : Nat]]

NoRequest ==
    [total |-> 0, processed |-> 0, due |-> {}, pending |-> {}, stored |-> {},
     exact |-> FALSE, step |-> 0, base |-> 0, key |-> 0,
     began |-> [tokens |-> 0, held |-> 0], cache |-> 0, held |-> 0, own |-> TRUE, call |-> [from |-> 0, tokens |-> 0]]

TypeOK ==
    /\ policy \in Policies
    /\ gen \in {"idle", "prefill", "decode", "offer", "materialise", "queue", "insert", "ended"}
    /\ req \in Request
    /\ taken \in Nat
    /\ ram \in SUBSET Entry
    /\ jobs \in Seq(Job \cup {Stop})
    /\ worker \in [at : {"waiting", "saving", "ended"}, job : Job \cup {None}]
    /\ main \in {"serving", "joining", "stopping", "waiting", "flush", "prune", "exited"}
    /\ stop \in BOOLEAN
    /\ flush \in [left : SUBSET Entry, seen : SUBSET Nat, saved : Nat]
    /\ accepted \in Seq(Job) /\ ran \in Seq(Job)
    /\ waited \in BOOLEAN

Init ==
    /\ policy \in Policies
    /\ gen = "idle" /\ req = NoRequest /\ taken = 0 /\ ram = {}
    /\ jobs = <<>> /\ worker = [at |-> "waiting", job |-> None]
    /\ main = "serving" /\ stop = FALSE
    /\ flush = [left |-> {}, seen |-> {}, saved |-> 0]
    /\ accepted = <<>> /\ ran = <<>> /\ waited = TRUE

Running == main # "exited"

shutdownVars == <<main, stop, flush, waited>>

----------------------------------------
(* The generation thread: a request and its prefill.                       *)

\* fetch_nearest_cache for a prompt: how many tokens it is said to cover and
\* how many the cache holds.  An entry may have been evicted.
FetchedFrom(entry, total) ==
    IF entry = None THEN [tokens |-> 0, held |-> 0]
    ELSE IF entry.tokens <= total THEN entry
    ELSE [tokens |-> total - 1,
          held   |-> Larger(entry.held, entry.tokens - (total - 1)) - (entry.tokens - (total - 1))]

\* _serve_single up to stream_generate: the prompt cache or, if it covers at
\* least as much, the checkpoint found by the rendered prompt.
Initial(entry, base, total) ==
    LET fetched == FetchedFrom(entry, total)
    IN  IF base > 0 /\ base >= fetched.tokens THEN [tokens |-> base, held |-> base]
        ELSE fetched

\* generate_step: a prompt that is cached as a whole is left one token.  If
\* its cache holds nothing that can be taken back, the request fails.
LeftOne(initial, total) ==
    IF initial.tokens < total THEN initial
    ELSE [tokens |-> total - 1, held |-> initial.held - 1]

\* generate_step takes a longer checkpoint of the disk, if there is one, in
\* place of the cache it was called with; the caller keeps that one.  cache
\* is what the one it works on holds, held what the caller's does.
Take(total, system, entry, base, found) ==
    LET initial   == Initial(entry, base, total)
        left      == LeftOne(initial, total)
        restored  == Smaller(found, total - 1)
        began     == IF found = 0 THEN left ELSE [tokens |-> restored, held |-> restored]
        cached    == began.tokens
        due       == IF total = 1 THEN {}
                     ELSE StoreLengths(policy, total, system, cached, initial.tokens)
    IN  /\ Running /\ gen = "idle" /\ ~stop /\ taken < MaxRequests
        /\ base < total
        /\ initial.tokens < total \/ initial.held > 0
        /\ found = 0 \/ (left.tokens < found /\ found <= total /\ total > 1)
        /\ gen' = "prefill"
        /\ taken' = taken + 1
        /\ req' = [NoRequest EXCEPT
                    !.total = total, !.processed = cached, !.due = due, !.pending = due,
                    !.exact = total > 1 /\ found # total /\ SavesExact(policy, total),
                    !.base = base, !.began = began, !.cache = began.held,
                    !.held = left.held, !.own = found = 0]
        /\ UNCHANGED <<policy, ram, jobs, worker, accepted, ran, shutdownVars>>

\* _effective_prefill_step_size, before its loop
StartStep ==
    LET remaining == req.total - req.processed - 1
    IN  /\ Running /\ gen = "prefill" /\ req.step = 0 /\ remaining > 0
        /\ req' = [req EXCEPT !.step = FirstStep(policy, req.processed, remaining)]
        /\ UNCHANGED <<policy, gen, taken, ram, jobs, worker, accepted, ran, shutdownVars>>

ShrinkStep ==
    /\ Running /\ gen = "prefill" /\ StepTooLarge(policy, req.processed, req.step)
    /\ req' = [req EXCEPT !.step = ShrunkStep(policy, req.processed, req.step)]
    /\ UNCHANGED <<policy, gen, taken, ram, jobs, worker, accepted, ran, shutdownVars>>

\* _save_prompt_checkpoint of the lengths that have been reached: a name, and
\* the cache as it is.  Nothing compares the two.
Stored(pending, processed, cache) ==
    {[tokens |-> length, held |-> cache] : length \in {l \in pending : l = processed}}

ProcessChunk ==
    LET tokens    == CutStep(req.pending, req.processed, req.step)
        processed == req.processed + tokens
        cache     == req.cache + tokens
    IN  /\ Running /\ gen = "prefill" /\ req.step > 0
        /\ ~StepTooLarge(policy, req.processed, req.step)
        /\ req' = [req EXCEPT
                    !.processed = processed, !.step = 0, !.cache = cache,
                    !.call = [from |-> req.processed, tokens |-> tokens],
                    !.pending = {length \in req.pending : length > processed},
                    !.stored = req.stored \cup Stored(req.pending, processed, cache),
                    !.held = IF req.own THEN req.held + tokens ELSE req.held]
        /\ UNCHANGED <<policy, gen, taken, ram, jobs, worker, accepted, ran, shutdownVars>>

EndPrefill ==
    /\ Running /\ gen = "prefill" /\ req.total - req.processed = 1
    /\ gen' = "decode"
    /\ req' = [req EXCEPT !.stored =
                 IF req.exact THEN @ \cup {[tokens |-> req.total, held |-> req.cache]} ELSE @]
    /\ UNCHANGED <<policy, taken, ram, jobs, worker, accepted, ran, shutdownVars>>

----------------------------------------
(* The generation thread: the response and what follows.                   *)

\* The last token of the prompt and those generated go into the cache.
Respond(output) ==
    /\ Running /\ gen = "decode"
    /\ gen' = IF policy.async THEN "offer" ELSE "insert"
    /\ req' = [req EXCEPT !.key = req.total + output,
                          !.held = IF req.own THEN req.held + 1 + output ELSE req.held]
    /\ UNCHANGED <<policy, taken, ram, jobs, worker, accepted, ran, shutdownVars>>

\* _checkpoint_save_backlog_full
BacklogFull == Len(jobs) >= policy.backlog

\* _enqueue_checkpoint_save
Enqueue(label) ==
    LET job == [label |-> label, request |-> taken]
    IN  IF BacklogFull THEN UNCHANGED <<jobs, accepted>>
        ELSE jobs' = Append(jobs, job) /\ accepted' = Append(accepted, job)

OfferContinued ==
    /\ Running /\ gen = "offer" /\ gen' = "materialise"
    /\ Enqueue("continued")
    /\ UNCHANGED <<policy, req, taken, ram, worker, ran, shutdownVars>>

(* Mutant of Materialise: the queue is not looked at before the copy. *)
MaterialiseAlways ==
    /\ Running /\ gen = "materialise"
    /\ gen' = "queue"
    /\ UNCHANGED <<policy, req, taken, ram, jobs, worker, accepted, ran, shutdownVars>>

\* _prepare_delta_prompt_checkpoint_cache, unless the queue is full
Materialise ==
    /\ Running /\ gen = "materialise"
    /\ gen' = IF BacklogFull THEN "insert" ELSE "queue"
    /\ UNCHANGED <<policy, req, taken, ram, jobs, worker, accepted, ran, shutdownVars>>

OfferDelta ==
    /\ Running /\ gen = "queue" /\ gen' = "insert"
    /\ Enqueue("delta")
    /\ UNCHANGED <<policy, req, taken, ram, worker, ran, shutdownVars>>

\* LRUPromptCache.insert_cache
InsertCache ==
    /\ Running /\ gen = "insert" /\ gen' = "idle"
    /\ ram' = {entry \in ram : entry.tokens # req.key}
              \cup {[tokens |-> req.key, held |-> req.held]}
    /\ req' = NoRequest
    /\ UNCHANGED <<policy, taken, jobs, worker, accepted, ran, shutdownVars>>

EndGeneration ==
    /\ Running /\ gen = "idle" /\ stop /\ gen' = "ended"
    /\ UNCHANGED <<policy, req, taken, ram, jobs, worker, accepted, ran, shutdownVars>>

----------------------------------------
(* The save worker.                                                        *)

(* Mutant of GetJob: the newest job is taken first. *)
GetJobNewest ==
    /\ Running /\ worker.at = "waiting" /\ jobs # <<>>
    /\ jobs' = Front(jobs)
    /\ worker' = IF Last(jobs) = Stop THEN [at |-> "ended", job |-> None]
                 ELSE [at |-> "saving", job |-> Last(jobs)]
    /\ UNCHANGED <<policy, gen, req, taken, ram, accepted, ran, shutdownVars>>

\* Its local variable keeps the last job, and so its cache, until the next one.
GetJob ==
    /\ Running /\ worker.at = "waiting" /\ jobs # <<>>
    /\ jobs' = Tail(jobs)
    /\ worker' = IF Head(jobs) = Stop THEN [at |-> "ended", job |-> None]
                 ELSE [at |-> "saving", job |-> Head(jobs)]
    /\ UNCHANGED <<policy, gen, req, taken, ram, accepted, ran, shutdownVars>>

(* Mutant of SaveJob: a save that raises ends the worker. *)
SaveJobOnce ==
    /\ Running /\ worker.at = "saving"
    /\ worker' \in {[worker EXCEPT !.at = "waiting"], [worker EXCEPT !.at = "ended"]}
    /\ ran' = Append(ran, worker.job)
    /\ UNCHANGED <<policy, gen, req, taken, ram, jobs, accepted, shutdownVars>>

\* Whether it saved, skipped or raised makes no difference to the loop.
SaveJob ==
    /\ Running /\ worker.at = "saving"
    /\ worker' = [worker EXCEPT !.at = "waiting"]
    /\ ran' = Append(ran, worker.job)
    /\ UNCHANGED <<policy, gen, req, taken, ram, jobs, accepted, shutdownVars>>

----------------------------------------
(* The main thread.                                                        *)

otherVars == <<policy, gen, req, taken, ram, worker, ran>>

RequestStop ==
    /\ main = "serving" /\ main' = "joining" /\ stop' = TRUE
    /\ UNCHANGED <<jobs, accepted, flush, waited, otherVars>>

\* A join ends with the thread or at its timeout, which is 0 by default.
JoinGeneration ==
    /\ main = "joining" /\ main' = "stopping"
    /\ waited' = (gen = "ended")
    /\ UNCHANGED <<jobs, accepted, stop, flush, otherVars>>

StopWorker ==
    /\ main = "stopping" /\ main' = "waiting"
    /\ jobs' = Append(jobs, Stop)
    /\ UNCHANGED <<accepted, stop, flush, waited, otherVars>>

JoinWorker ==
    /\ main = "waiting" /\ main' = "flush"
    /\ waited' = (waited /\ worker.at = "ended")
    /\ flush' = [flush EXCEPT !.left = IF policy.flushLimit > 0 THEN ram ELSE {}]
    /\ UNCHANGED <<jobs, accepted, stop, otherVars>>

Longest(entry) == \A other \in flush.left : other.tokens <= entry.tokens

\* flush_shutdown_prompt_checkpoints: what becomes of one entry, and whether
\* _save_continued_prompt_checkpoint succeeds if it gets that far.
FlushEntry(entry, succeeds) ==
    LET length    == ContinuedStoreLength(policy, entry.tokens)
        attempted == /\ length > 0 /\ length \notin flush.seen
                     /\ policy.flushMax = 0 \/ length <= policy.flushMax
        surplus   == Larger(entry.held, entry.tokens) - entry.tokens
        trims     == entry.held - surplus >= entry.tokens - length
    IN  /\ main = "flush" /\ flush.saved < policy.flushLimit
        /\ entry \in flush.left /\ Longest(entry)
        /\ succeeds => attempted /\ trims
        /\ flush' = [left  |-> flush.left \ {entry},
                     seen  |-> IF attempted THEN flush.seen \cup {length} ELSE flush.seen,
                     saved |-> IF succeeds THEN flush.saved + 1 ELSE flush.saved]
        /\ UNCHANGED <<main, jobs, accepted, stop, waited, otherVars>>

EndFlush ==
    /\ main = "flush" /\ (flush.left = {} \/ flush.saved >= policy.flushLimit)
    /\ main' = "prune"
    /\ UNCHANGED <<jobs, accepted, stop, flush, waited, otherVars>>

\* prune_shutdown_prompt_checkpoints; then the process ends, with its threads.
Exit ==
    /\ main = "prune" /\ main' = "exited"
    /\ UNCHANGED <<jobs, accepted, stop, flush, waited, otherVars>>

Shutdown ==
    \/ RequestStop \/ JoinGeneration \/ StopWorker \/ JoinWorker \/ EndFlush \/ Exit
    \/ \E entry \in flush.left, succeeds \in BOOLEAN : FlushEntry(entry, succeeds)

----------------------------------------
TakeAny ==
    \E total \in Totals, system \in Systems, entry \in ram \cup {None},
       base \in {0} \cup {t - 1 : t \in Totals}, found \in {0} \cup Totals :
        system < total /\ Take(total, system, entry, base, found)

Serve ==
    \/ StartStep \/ ShrinkStep \/ ProcessChunk \/ EndPrefill
    \/ \E output \in Outputs : Respond(output)
    \/ OfferContinued \/ Materialise \/ OfferDelta \/ InsertCache \/ EndGeneration

SaveWorker == GetJob \/ SaveJob

Next == TakeAny \/ Serve \/ SaveWorker \/ Shutdown

\* The threads are scheduled; a request may never come, nor a shutdown.
Fairness == WF_vars(Serve) /\ WF_vars(SaveWorker)

Spec == Init /\ [][Next]_vars /\ Fairness

----------------------------------------
\* A cache with a claim to n tokens lacks as many of them as the one that
\* prefill began with lacked of its own, 0 unless that was stored short.
LacksNoMore(held, n) == held + req.began.tokens = n + req.began.held

(* Prefill: when it ends, every scheduled length beyond what was cached has *)
(* been saved, and each cache that was saved held the tokens of its name    *)
(* (all but the last, for the exact checkpoint), less only what the cache   *)
(* the request began with already lacked (see RamWhole).  A chunk must not  *)
(* run past a boundary that a save needs, however it was sized, resumed or  *)
(* cut, nor a save be made from the cache that generate_step no longer      *)
(* works on; generate.py 1551-1652.                                         *)
BoundariesSaved ==
    /\ \A entry \in req.stored :
        LacksNoMore(entry.held,
                    IF entry.tokens = req.total THEN entry.tokens - 1 ELSE entry.tokens)
    /\ gen \notin {"idle", "prefill", "ended"} =>
        \A length \in req.due : \E entry \in req.stored : entry.tokens = length

(* No call of the model during prefill works on more query-key pairs than   *)
(* prefill_max_qk_tokens (a single token excepted), each makes progress and *)
(* all together leave exactly one token to the first step of decoding       *)
(* (docstring of generate_step, generate.py 761-764).                       *)
ChunksBounded ==
    /\ gen \in {"prefill", "decode"} => req.processed < req.total
    /\ req.call.tokens > 0 =>
        /\ policy.maxQk = 0 \/ req.call.tokens = 1
            \/ req.call.tokens * (req.call.from + req.call.tokens) <= policy.maxQk
        /\ req.call.tokens <= Larger(policy.step, policy.adaptive)
    /\ gen = "decode" => req.processed = req.total - 1

\* The jobs in the queue; the main thread puts Stop into it once.
Queued == RemoveFirst(jobs, Stop)

Held(job) == IF job = None THEN 0 ELSE 1
Retained == Len(Queued) + Held(worker.job) + (IF gen = "queue" THEN 1 ELSE 0)

(* The caches that are kept for saves to come, the one the worker works on  *)
(* or has just saved and the copy on its way to the queue, are at most one  *)
(* more than the backlog limit; and a delta that was copied, which costs    *)
(* the generation thread its time, is always queued, as long as the queue   *)
(* has not been told to stop                                                *)
(* (docs/prompt-checkpoints.md:127-130, server.py 1573-1598, 3943-3990).    *)
SnapshotsBounded ==
    /\ Retained <= policy.backlog + 1
    /\ gen = "queue" /\ main \in {"serving", "joining", "stopping"} => ~BacklogFull

(* Jobs are run in the order they were accepted and none is lost, whatever   *)
(* the threads do (every variable keeping its type besides); if neither join *)
(* ran into its timeout, all of them are done, and nothing is being saved,   *)
(* when the main thread flushes and prunes the same files                    *)
(* (server.py 1525-1542, 1600-1626).                                         *)
SavesConserved ==
    /\ TypeOK
    /\ accepted = (ran \o (IF worker.at = "saving" THEN <<worker.job>> ELSE <<>>)) \o Queued
    /\ waited /\ main \in {"flush", "prune", "exited"} =>
        gen = "ended" /\ worker.at = "ended" /\ ran = accepted

(* Every accepted job is run unless the server is stopped. *)
AcceptedRun ==
    \A n \in 1 .. 2 * MaxRequests : Len(accepted) >= n ~> (Len(ran) >= n \/ stop)

(* An entry of the prompt cache holds the tokens of its key.  Violated: see *)
(* the README.  generate_step's docstring says of prompt_cache that "if     *)
(* provided, the cache will be updated in place" (generate.py 759-760).     *)
RamWhole == \A entry \in ram : entry.held = entry.tokens

(* Every cache that prefill saves holds the tokens of its name.  It does not *)
(* follow from BoundariesSaved: a request that begins with a short entry of  *)
(* the prompt cache saves short checkpoints, which outlive the process       *)
(* (generate.py 1448-1486).                                                  *)
SavesWhole ==
    \A entry \in req.stored :
        entry.held = (IF entry.tokens = req.total THEN entry.tokens - 1 ELSE entry.tokens)
=============================================================================
