--------------------------- MODULE ResponseGenerator ---------------------------
(***************************************************************************)
(* The server's generation loop: ResponseGenerator (mlx_lm/server.py).      *)
(* Handler threads put requests into one queue and read the responses from  *)
(* a queue of their own; the generation thread serves them in a batch, or   *)
(* alone when they cannot be batched; the main thread tells it to stop.     *)
(* A handler stops its request through the flag of its GenerationContext,   *)
(* and a new request may stop a Vision request served alone.                *)
(*                                                                          *)
(* A request is a record [batchable, vision, stream, model, segments, types,*)
(* max]; its prompt is the lengths of its segments.  The batch is the       *)
(* BatchGenerator reduced to what its module shows of it: admission in      *)
(* order, a segment of each prompt per call (the chunks a long segment is   *)
(* cut into only repeat the progress report), a token of each decoding row. *)
(* What the prompt cache holds of a prompt is any length of Hits, and the   *)
(* whole of it only once a cache of that length was saved.                  *)
(***************************************************************************)
EXTENDS SequencesExt, FiniteSetsExt, Integers

CONSTANTS Clients,      \* the requests of a run, one handler each
          MayAsk,       \* the requests each may make
          Hits,         \* lengths of a prompt found in the prompt cache
          DecodeConcurrency, PromptConcurrency,
          CancelActive, \* cancel_active_on_new_request
          MaxLag,       \* bound: responses a handler is behind by
          None

Total(segments) ==
  LET sum[i \in 0..Len(segments)] == IF i = 0 THEN 0 ELSE sum[i - 1] + segments[i]
  IN  sum[Len(segments)]

Kinds == UNION {MayAsk[c] : c \in Clients}

ASSUME KindsAssumption ==
  \A k \in Kinds :
    /\ k.batchable \in BOOLEAN /\ k.vision \in BOOLEAN /\ k.stream \in BOOLEAN
    /\ k.vision => ~k.batchable
    /\ k.segments \in Seq(Nat \ {0}) /\ k.segments # <<>>
    /\ k.types \in Seq(STRING) /\ Len(k.types) = Len(k.segments)
    /\ k.max \in Nat \* 0 stands for -1, no limit
ASSUME SizesAssumption ==
  /\ PromptConcurrency \in Nat \ {0} /\ DecodeConcurrency \in Nat \ {0}
  /\ Hits \subseteq Nat /\ 0 \in Hits
  /\ CancelActive \in BOOLEAN /\ MaxLag \in Nat \ {0} /\ None \notin Clients

VARIABLES
  ask,      \* what each client asked for
  handler,  \* the stage of each handler thread
  online,   \* the clients whose connection still takes writes
  inbox,    \* response_queue of each handler
  stopped,  \* the clients whose context has _should_stop
  requests, \* requests, the queue
  aside,    \* unprocessed_requests
  active,   \* _active_context
  worker,   \* where _generate is, and for whom in _serve_single
  batch,    \* batch_generator, current_model, drain_batch and batch_results
  rows,     \* inside the batch: waiting, prompt and gen
  saved,    \* what insert_cache was called for
  tokens,   \* tokens generated per client; without a limit, 1 is any number
  stop      \* _stop

vars == <<ask, handler, online, inbox, stopped, requests, aside, active, worker,
          batch, rows, saved, tokens, stop>>

handlers == <<ask, handler, online>>

Idle == [at |-> "loop", client |-> None]
NoBatch == [open |-> FALSE, model |-> None, drain |-> FALSE, results |-> {}, doomed |-> {}]
NoRows == [waiting |-> <<>>, prompt |-> <<>>, gen |-> <<>>]
Returned == {"done", "failed"}

Init ==
  /\ ask = [c \in Clients |-> None]
  /\ handler = [c \in Clients |-> "new"]
  /\ online = Clients
  /\ inbox = [c \in Clients |-> <<>>]
  /\ stopped = {}
  /\ requests = <<>>
  /\ aside = <<>>
  /\ active = None
  /\ worker = Idle
  /\ batch = NoBatch
  /\ rows = NoRows
  /\ saved = {}
  /\ tokens = [c \in Clients |-> 0]
  /\ stop = FALSE

(* rqueue.put, for several requests at once.  Nobody reads the queue of a *)
(* handler that has returned.                                             *)
Sent(out) ==
  [c \in Clients |-> IF handler[c] \in Returned \/ c \notin DOMAIN out THEN inbox[c]
                     ELSE inbox[c] \o out[c]]

To(c, items) == [d \in {c} |-> items]

KeepsUp(c) == Len(inbox[c]) < MaxLag

Endless(c) == ask[c].max = 0

Counted(c) == IF Endless(c) THEN 1 ELSE tokens[c] + 1

----------------------------------------
(* A handler thread: generate() and the loop of handle_completion. *)

(* Cancelling the active context comes before the request is queued. *)
Arrive(c, kind) ==
  /\ handler[c] = "new" /\ ~stop
  /\ ask' = [ask EXCEPT ![c] = kind]
  /\ handler' = [handler EXCEPT ![c] = "submitting"]
  /\ stopped' = IF CancelActive /\ active # None /\ ask[active].vision
                  THEN stopped \cup {active} ELSE stopped
  /\ UNCHANGED <<online, inbox, requests, aside, active, worker, batch, rows,
                 saved, tokens, stop>>

Submit(c) ==
  /\ handler[c] = "submitting"
  /\ handler' = [handler EXCEPT ![c] = "asking"]
  /\ requests' = Append(requests, c)
  /\ UNCHANGED <<ask, online, inbox, stopped, aside, active, worker, batch, rows,
                 saved, tokens, stop>>

Disconnect(c) ==
  /\ handler[c] \in {"asking", "reading"} /\ ask[c].stream
  /\ c \in online
  /\ online' = online \ {c}
  /\ UNCHANGED <<ask, handler, inbox, stopped, requests, aside, active, worker,
                 batch, rows, saved, tokens, stop>>

WriteFails(c) == ask[c].stream /\ c \notin online

Reads(c, item) == inbox[c] # <<>> /\ Head(inbox[c]) = item

(* The handler goes on, or returns; its context is stopped when it returns. *)
Proceed(c, stage, stopping) ==
  /\ handler' = [handler EXCEPT ![c] = stage]
  /\ inbox' = [inbox EXCEPT ![c] = IF stage \in Returned THEN <<>> ELSE Tail(@)]
  /\ stopped' = IF stopping THEN stopped \cup {c} ELSE stopped
  /\ UNCHANGED <<ask, online, requests, aside, active, worker, batch, rows,
                 saved, tokens, stop>>

GetContext(c) ==
  /\ handler[c] = "asking"
  /\ \/ Reads(c, "context") /\ ~WriteFails(c) /\ Proceed(c, "reading", FALSE)
     \/ Reads(c, "context") /\ WriteFails(c) /\ Proceed(c, "done", TRUE)
     \/ Reads(c, "error") /\ Proceed(c, "failed", FALSE)

(* The result of the write in progress_callback is not looked at. *)
ReadProgress(c) ==
  /\ handler[c] = "reading" /\ Reads(c, "progress")
  /\ Proceed(c, "reading", WriteFails(c))

(* A token is written, or has no text yet, or a loop guard ends the response. *)
ReadToken(c) ==
  /\ handler[c] = "reading" /\ Reads(c, "token")
  /\ \/ Proceed(c, "reading", FALSE)
     \/ Proceed(c, "done", TRUE)

ReadEnd(c) ==
  /\ handler[c] = "reading"
  /\ \/ Reads(c, "end") /\ Proceed(c, "done", TRUE)
     \/ Reads(c, "error") /\ Proceed(c, "failed", TRUE)

(* Nothing came for 15 seconds: idle_callback. *)
Idled(c) ==
  /\ handler[c] = "reading" /\ inbox[c] = <<>>
  /\ WriteFails(c) /\ c \notin stopped
  /\ stopped' = stopped \cup {c}
  /\ UNCHANGED <<handlers, inbox, requests, aside, active, worker, batch, rows,
                 saved, tokens, stop>>

Handle(c) ==
  Submit(c) \/ GetContext(c) \/ ReadProgress(c) \/ ReadToken(c) \/ ReadEnd(c) \/ Idled(c)

----------------------------------------
(* _generate takes a request. *)

Waiting == aside \o requests

(* get_next_request: the requests put aside come first. *)
Takes(c) ==
  /\ worker.at = "loop" /\ ~stop /\ ~batch.drain
  /\ Waiting # <<>> /\ c = Head(Waiting)

Joins(c) == batch.open /\ batch.model = ask[c].model /\ ask[c].batchable

(* The request leaves the queue it was taken from. *)
Dequeued ==
  IF aside # <<>> THEN aside' = Front(aside) /\ UNCHANGED requests
  ELSE requests' = Tail(requests) /\ UNCHANGED aside

(* Mutant of PutAside: the request is only taken from the queue. *)
PutNowhere(c) ==
  IF aside # <<>> THEN UNCHANGED <<aside, requests>>
  ELSE requests' = Tail(requests) /\ UNCHANGED aside

(* It is put aside, to be looked at again. *)
PutAside(c) ==
  IF aside # <<>> THEN UNCHANGED <<aside, requests>>
  ELSE aside' = Append(aside, c) /\ requests' = Tail(requests)

(* Tokenizing it, or loading its model, raised. *)
Refuse(c) ==
  /\ Takes(c)
  /\ Joins(c) \/ ~batch.open
  /\ inbox' = Sent(To(c, <<"error">>))
  /\ Dequeued
  /\ UNCHANGED <<handlers, stopped, active, worker, batch, rows, saved, tokens, stop>>

(* What is left of a list of segments, or of their types, once the cache *)
(* covers the first "cached" tokens; the last token stays apart.         *)
Covered(segments, cached) ==
  Cardinality({i \in DOMAIN segments : Total(SubSeq(segments, 1, i)) <= cached})

LastApart(segments) ==
  IF Last(segments) = 1 THEN segments
  ELSE Front(segments) \o <<Last(segments) - 1, 1>>

Uncovered(segments, cached) ==
  LET k == Covered(segments, cached)
      left == SubSeq(segments, k + 1, Len(segments))
  IN  <<Head(left) - (cached - Total(SubSeq(segments, 1, k)))>> \o Tail(left)

(* Mutant of Row: the types of the covered segments stay. *)
RowAllTypes(c, cached) ==
  [client |-> c, held |-> cached, types |-> ask[c].types,
   left |-> LastApart(Uncovered(ask[c].segments, cached))]

Row(c, cached) ==
  [client |-> c, held |-> cached,
   types |-> SubSeq(ask[c].types, Covered(ask[c].segments, cached) + 1, Len(ask[c].types)),
   left |-> LastApart(Uncovered(ask[c].segments, cached))]

(* It joins the batch.  A prompt that is in the cache as a whole leaves no *)
(* segment, and insert_segments raises IndexError out of the thread.       *)
JoinBatch(c, cached) ==
  /\ Takes(c) /\ Joins(c)
  /\ cached <= Total(ask[c].segments)
  /\ cached = Total(ask[c].segments) => \E s \in saved : s.length = cached
  /\ inbox' = Sent(To(c, <<"context">>))
  /\ Dequeued
  /\ IF cached = Total(ask[c].segments)
       THEN worker' = [at |-> "dead", client |-> None] /\ UNCHANGED <<batch, rows>>
       ELSE /\ batch' = [batch EXCEPT !.results = @ \cup {c}]
            /\ rows' = [rows EXCEPT !.waiting = Append(@, Row(c, cached))]
            /\ UNCHANGED worker
  /\ UNCHANGED <<handlers, stopped, active, saved, tokens, stop>>

OpenBatch(c) ==
  /\ Takes(c) /\ ~batch.open /\ ask[c].batchable
  /\ batch' = [NoBatch EXCEPT !.open = TRUE, !.model = ask[c].model]
  /\ rows' = NoRows
  /\ PutAside(c)
  /\ UNCHANGED <<handlers, inbox, stopped, active, worker, saved, tokens, stop>>

(* It cannot join the open batch, which is drained first. *)
Drain(c) ==
  /\ Takes(c) /\ batch.open /\ ~Joins(c)
  /\ batch' = [batch EXCEPT !.drain = TRUE]
  /\ PutAside(c)
  /\ UNCHANGED <<handlers, inbox, stopped, active, worker, rows, saved, tokens, stop>>

ServeAlone(c) ==
  /\ Takes(c) /\ ~batch.open /\ ~ask[c].batchable
  /\ worker' = [at |-> "preparing", client |-> c]
  /\ Dequeued
  /\ UNCHANGED <<handlers, inbox, stopped, active, batch, rows, saved, tokens, stop>>

----------------------------------------
(* _generate serves the batch, for the time of a budget. *)

(* Mutant of Closed: drain_batch stays set. *)
ClosedDraining == [NoBatch EXCEPT !.drain = TRUE]

Closed == NoBatch

CloseBatch ==
  /\ worker.at = "loop" /\ ~stop
  /\ batch.open /\ batch.drain /\ batch.results = {}
  /\ batch' = Closed
  /\ rows' = NoRows
  /\ UNCHANGED <<handlers, inbox, stopped, requests, aside, active, worker, saved,
                 tokens, stop>>

OfRows(list) == {list[i].client : i \in DOMAIN list}

(* The rows of a list that are of these clients, in their order. *)
RowsFor(list, clients) ==
  LET kept[i \in 0..Len(list)] ==
        IF i = 0 THEN <<>>
        ELSE IF list[i].client \in clients THEN Append(kept[i - 1], list[i])
        ELSE kept[i - 1]
  IN  kept[Len(list)]

(* What is left of the prompt is its last token. *)
ReadyOf(list) == {list[i].client : i \in {i \in DOMAIN list : list[i].left = <<1>>}}

Fed(row) == [row EXCEPT !.left = Tail(@), !.held = @ + Head(row.left),
                        !.types = IF @ = <<>> THEN @ ELSE Tail(@)]

(* Mutant of Decoded: the end overtakes the last token. *)
EndFirst(c, ends) == IF c \in ends THEN <<"end", "token">> ELSE <<"token">>

Decoded(c, ends) == IF c \in ends THEN <<"token", "end">> ELSE <<"token">>

(* What insert_cache gets: the prompt so far under the type of the segment   *)
(* that ends with it, and the whole sequence when it is finished.           *)
Segment(row) ==
  [client |-> row.client, type |-> Head(row.types), length |-> row.held + Head(row.left)]

Answer(c, n) ==
  [client |-> c, type |-> "assistant", length |-> Total(ask[c].segments) + n]

(* A call of next(): "ends" are the requests whose token ends them. *)
NextCall(ends) ==
  LET decoded   == OfRows(rows.gen)
      gen       == RowsFor(rows.gen, decoded \ ends)
      full      == Len(gen) >= DecodeConcurrency
      room      == Min({PromptConcurrency - Len(rows.prompt),
                        DecodeConcurrency - Len(gen), Len(rows.waiting)})
      all       == rows.prompt \o SubSeq(rows.waiting, 1, room)
      ready     == RowsFor(all, ReadyOf(all))
      fed       == RowsFor(all, OfRows(all) \ ReadyOf(all))
      prompted  == IF full THEN {} ELSE OfRows(all)
      ending    == {fed[i] : i \in {i \in DOMAIN fed : fed[i].types # <<>>}}
  IN  /\ \/ worker.at = "budget"
         \/ worker.at = "loop" /\ ~stop /\ (batch.drain \/ Waiting = <<>>)
      /\ batch.open /\ batch.results # {}
      /\ \A c \in decoded \cup prompted : KeepsUp(c)
      /\ ends \subseteq decoded
      /\ {c \in decoded : Counted(c) = ask[c].max} \subseteq ends
      /\ tokens' = [c \in Clients |-> IF c \in decoded THEN Counted(c) ELSE tokens[c]]
      /\ inbox' = Sent([c \in decoded \cup prompted |->
                          IF c \in prompted THEN <<"progress">> ELSE Decoded(c, ends)])
      /\ saved' = saved \cup {Answer(c, Counted(c)) : c \in ends}
                        \cup IF full THEN {} ELSE {Segment(row) : row \in ending}
      /\ rows' = IF full THEN [rows EXCEPT !.gen = gen]
                 ELSE [waiting |-> SubSeq(rows.waiting, room + 1, Len(rows.waiting)),
                       prompt |-> [i \in DOMAIN fed |-> Fed(fed[i])],
                       gen |-> gen \o ready]
      /\ batch' = [batch EXCEPT !.results = @ \ ends,
                                !.doomed = @ \cup (stopped \cap (decoded \cup prompted))]
      /\ worker' = [at |-> "budget", client |-> None]
  /\ UNCHANGED <<handlers, stopped, requests, aside, active, stop>>

(* Mutant of EndBudget: only batch_results forgets the requests. *)
EndBudgetKeepRows ==
  /\ worker.at = "budget"
  /\ worker' = Idle
  /\ batch' = [batch EXCEPT !.results = @ \ batch.doomed, !.doomed = {}]
  /\ UNCHANGED <<handlers, inbox, stopped, requests, aside, active, rows, saved,
                 tokens, stop>>

(* The end of the budget removes the stopped requests that got a response. *)
EndBudget ==
  /\ worker.at = "budget"
  /\ worker' = Idle
  /\ batch' = [batch EXCEPT !.results = @ \ batch.doomed, !.doomed = {}]
  /\ rows' = [stage \in DOMAIN rows |-> RowsFor(rows[stage], batch.results \ batch.doomed)]
  /\ UNCHANGED <<handlers, inbox, stopped, requests, aside, active, saved, tokens, stop>>

----------------------------------------
(* _serve_single *)

At(stage) == worker.at = stage
Serving == worker.client

(* Mutant of SingleFails: the context stays active. *)
FailKeepingActive ==
  /\ worker.at \in {"preparing", "prefill", "decoding"}
  /\ inbox' = Sent(To(Serving, <<"error">>))
  /\ worker' = Idle
  /\ UNCHANGED <<handlers, stopped, requests, aside, active, batch, rows, saved,
                 tokens, stop>>

(* Loading images, rendering or generating raised. *)
SingleFails ==
  /\ worker.at \in {"preparing", "prefill", "decoding"}
  /\ inbox' = Sent(To(Serving, <<"error">>))
  /\ active' = None
  /\ worker' = Idle
  /\ UNCHANGED <<handlers, stopped, requests, aside, batch, rows, saved, tokens, stop>>

Prepared ==
  /\ At("preparing")
  /\ active' = Serving
  /\ inbox' = Sent(To(Serving, <<"context">>))
  /\ worker' = [worker EXCEPT !.at = "prefill"]
  /\ UNCHANGED <<handlers, stopped, requests, aside, batch, rows, saved, tokens, stop>>

Prefilled ==
  /\ At("prefill")
  /\ inbox' = Sent(To(Serving, <<"progress">>))
  /\ worker' = [worker EXCEPT !.at = "decoding"]
  /\ UNCHANGED <<handlers, stopped, requests, aside, active, batch, rows, saved,
                 tokens, stop>>

SingleToken ==
  /\ At("decoding") /\ KeepsUp(Serving)
  /\ inbox' = Sent(To(Serving, <<"token">>))
  /\ tokens' = [tokens EXCEPT ![Serving] = Counted(Serving)]
  /\ worker' = [worker EXCEPT !.at = "decided"]
  /\ UNCHANGED <<handlers, stopped, requests, aside, active, batch, rows, saved, stop>>

(* Mutant of Continues: _should_stop is not looked at. *)
ContinuesStopped == Endless(Serving) \/ tokens[Serving] < ask[Serving].max

Continues ==
  /\ Serving \notin stopped
  /\ Endless(Serving) \/ tokens[Serving] < ask[Serving].max

(* _should_stop, then the finish reason of the token. *)
Decide ==
  /\ At("decided")
  /\ \/ Continues /\ worker' = [worker EXCEPT !.at = "decoding"]
     \/ worker' = [worker EXCEPT !.at = "ending"]
  /\ UNCHANGED <<handlers, inbox, stopped, requests, aside, active, batch, rows,
                 saved, tokens, stop>>

SingleEnds ==
  /\ At("ending")
  /\ inbox' = Sent(To(Serving, <<"end">>))
  /\ worker' = [worker EXCEPT !.at = "saving"]
  /\ UNCHANGED <<handlers, stopped, requests, aside, active, batch, rows, saved,
                 tokens, stop>>

(* The caches are saved; an exception there is put behind the end. *)
SingleSaved ==
  /\ At("saving")
  /\ \/ inbox' = Sent(To(Serving, <<"error">>)) /\ UNCHANGED saved
     \/ /\ saved' = IF ask[Serving].vision THEN saved
                    ELSE saved \cup {Answer(Serving, tokens[Serving])}
        /\ UNCHANGED inbox
  /\ active' = None
  /\ worker' = Idle
  /\ UNCHANGED <<handlers, stopped, requests, aside, batch, rows, tokens, stop>>

----------------------------------------

(* stop_and_join sets _stop; the loop looks at it between its iterations. *)
StopServer ==
  /\ ~stop /\ stop' = TRUE
  /\ UNCHANGED <<handlers, inbox, stopped, requests, aside, active, worker, batch,
                 rows, saved, tokens>>

LeaveLoop ==
  /\ At("loop") /\ stop
  /\ worker' = [at |-> "stopped", client |-> None]
  /\ batch' = NoBatch
  /\ rows' = NoRows
  /\ UNCHANGED <<handlers, inbox, stopped, requests, aside, active, saved, tokens, stop>>

Take(c) ==
  \/ Refuse(c) \/ OpenBatch(c) \/ Drain(c) \/ ServeAlone(c)
  \/ \E cached \in Hits : JoinBatch(c, cached)

Generate ==
  \/ \E c \in Clients : Take(c)
  \/ CloseBatch \/ EndBudget \/ LeaveLoop
  \/ \E ends \in SUBSET OfRows(rows.gen) : NextCall(ends)
  \/ SingleFails \/ Prepared \/ Prefilled \/ SingleToken \/ Decide \/ SingleEnds
  \/ SingleSaved

Next ==
  \/ Generate
  \/ StopServer
  \/ \E c \in Clients : Handle(c) \/ Disconnect(c) \/ \E k \in MayAsk[c] : Arrive(c, k)

(* The threads run; nothing makes clients ask, disconnect or the server stop. *)
Spec ==
  /\ Init /\ [][Next]_vars
  /\ WF_vars(Generate)
  /\ \A c \in Clients : WF_vars(Handle(c))

----------------------------------------
(* Properties *)

Stages == {"new", "submitting", "asking", "reading"} \cup Returned
Items == {"context", "progress", "token", "end", "error"}
Alone == {"preparing", "prefill", "decoding", "decided", "ending", "saving"}
RowsOk(list) ==
  \A i \in DOMAIN list : /\ list[i].client \in Clients /\ list[i].held \in Nat
                        /\ list[i].left \in Seq(Nat \ {0}) /\ list[i].left # <<>>

TypeOK ==
  /\ ask \in [Clients -> Kinds \cup {None}]
  /\ handler \in [Clients -> Stages]
  /\ online \subseteq Clients /\ stopped \subseteq Clients
  /\ inbox \in [Clients -> Seq(Items)]
  /\ requests \in Seq(Clients) /\ aside \in Seq(Clients) /\ Len(aside) <= 1
  /\ active \in Clients \cup {None}
  /\ worker.at \in {"loop", "budget", "dead", "stopped"} \cup Alone
  /\ worker.client \in IF worker.at \in Alone THEN Clients ELSE {None}
  /\ batch.results \subseteq Clients /\ batch.doomed \subseteq Clients
  /\ RowsOk(rows.waiting) /\ RowsOk(rows.prompt) /\ RowsOk(rows.gen)
  /\ tokens \in [Clients -> Nat] /\ stop \in BOOLEAN

(* The sequences in the batch and the entries of batch_results are the same *)
(* requests, all of the batch's model and batchable: a response finds its   *)
(* queue, and no request is drained that another could still be waiting for.*)
ResultsMatchBatch ==
  LET all == rows.waiting \o rows.prompt \o rows.gen
  IN  /\ TypeOK
      /\ OfRows(all) = batch.results /\ Len(all) = Cardinality(batch.results)
      /\ \A c \in batch.results : Joins(c)

(* _active_context is the context of the request served alone, from the     *)
(* moment it has one until it is done with: last-request-wins never hits a   *)
(* finished response nor misses one that is decoding.                        *)
ActiveIsServed ==
  active = IF worker.at \in Alone \ {"preparing"} THEN Serving ELSE None

Owners(c) ==
  Cardinality({i \in DOMAIN Waiting : Waiting[i] = c})
    + (IF c \in batch.results THEN 1 ELSE 0) + (IF Serving = c THEN 1 ELSE 0)
Final(c) == \E i \in DOMAIN inbox[c] : inbox[c][i] \in {"end", "error"}

(* A request whose handler waits is in one pair of hands - the queue, put    *)
(* aside, the batch or _serve_single - or its last response is there, or its *)
(* own handler stopped it: none is dropped by draining, errors or removal.   *)
NoneDropped ==
  \A c \in Clients : handler[c] \in {"asking", "reading"} =>
    \/ Owners(c) = 1
    \/ Owners(c) = 0 /\ (Final(c) \/ c \in stopped)
    \/ worker.at \in {"dead", "stopped"}

Rank(item) == CASE item = "context" -> 0 [] item = "progress" -> 1
                [] item = "token" -> 2 [] item = "end" -> 3 [] item = "error" -> 4

(* A handler sees the context or an error first, then progress, then tokens, *)
(* then one end; only a failure to save the caches comes behind it.          *)
ResponsesInOrder ==
  \A c \in Clients :
    LET box == inbox[c]
    IN  /\ \A i, j \in DOMAIN box : i < j =>
             \/ Rank(box[i]) < Rank(box[j])
             \/ box[i] = box[j] /\ box[i] \in {"progress", "token"}
        /\ handler[c] = "asking" /\ box # <<>> => Head(box) \in {"context", "error"}
        /\ handler[c] = "reading" => ~Contains(box, "context")

(* A prompt is saved in the prompt cache under the type of the segment that  *)
(* ends there, however much of it the cache had already covered; evictions   *)
(* spare system prompts by these types.                                      *)
SavedUnderOwnType ==
  \A s \in saved :
    \/ \E i \in DOMAIN ask[s.client].segments :
         LET end == Total(SubSeq(ask[s.client].segments, 1, i))
         IN  /\ s.type = ask[s.client].types[i]
             /\ s.length = IF i = Len(ask[s.client].segments) THEN end - 1 ELSE end
    \/ s.type = "assistant" /\ s.length > Total(ask[s.client].segments)

(* A request without a limit runs, in the batch or alone, and nobody stopped it. *)
Runs(c) == c \in batch.results \/ Serving = c
Blocked == \E c \in Clients \ stopped : Runs(c) /\ Endless(c)

(* A handler whose client stays connected returns, unless the server is      *)
(* told to stop or runs a request without a limit that nobody stopped: no    *)
(* request starves behind a batch or behind a drain, and a stopped one, by   *)
(* its handler or by a newer request, does not hold the server.              *)
ConnectedAnswered ==
  \A c \in Clients : handler[c] = "asking" ~>
    handler[c] \in Returned \/ c \notin online \/ stop \/ Blocked

(* Every request leaves the server's hands, those of lost clients too.       *)
AllReleased ==
  \A c \in Clients : handler[c] = "asking" ~> Owners(c) = 0 \/ stop \/ Blocked

BlockedByText == \E c \in Clients \ stopped : Runs(c) /\ Endless(c) /\ ~ask[c].vision

(* With cancel_active_on_new_request a Vision request without a limit does   *)
(* not keep a newer request from being answered.                             *)
NewestNotBlocked ==
  \A c \in Clients : handler[c] = "asking" /\ ~ask[c].vision ~>
    handler[c] \in Returned \/ c \notin online \/ stop \/ BlockedByText

(* A handler returns, whether its client stays connected or not.             *)
HandlersReturn ==
  \A c \in Clients : handler[c] = "asking" ~> handler[c] \in Returned \/ stop

(* No request ends the generation thread. *)
ThreadSurvives == worker.at # "dead"

=============================================================================
