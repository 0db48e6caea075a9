------------------------- MODULE DistributedServing -------------------------
(***************************************************************************)
(* The server on several machines: every rank runs ResponseGenerator's      *)
(* _generate (mlx_lm/server.py), rank 0 alone has the handlers and the      *)
(* queue of requests.  The ranks meet in collective operations: when rank 0 *)
(* shares a request or the uids to remove, when a model is loaded, at every *)
(* pass of the model, each rank running some of its layers, and when the    *)
(* time budgets are averaged.  A collective pairs up whatever the ranks     *)
(* call: nothing but their running in lockstep makes the calls fit.         *)
(*                                                                          *)
(* A request is [batchable, model, topic, prefill, tokens, valid]: the      *)
(* passes its prompt and its answer take; the prompt cache saves the        *)
(* prefill for a topic it holds.  Each pass moves every row of the batch by *)
(* a step: what happens inside the batch is BatchGenerator's.  A cache is   *)
(* as many bytes as it has layers.                                          *)
(***************************************************************************)
EXTENDS SequencesExt, FiniteSetsExt, Integers

CONSTANTS Size,        \* mx.distributed.init().size()
          Clients,     \* the requests of a run
          MayAsk,      \* the requests each may make
          Leavers,     \* the clients whose handler may stop its context
          Models,      \* the models that load
          IndexerTypes,\* the indexer_types a model may have
          Budget, Iterations, SyncFrequency, \* of TimeBudget
          PassTimes,   \* what a pass may take on each rank
          CacheSize,   \* --prompt-cache-size
          CacheBytes,  \* --prompt-cache-bytes, 0 without one
          None

Ranks == 0 .. Size - 1
Kinds == UNION {MayAsk[c] : c \in Clients}

ASSUME SizeAssumption == Size \in Nat \ {0, 1}
ASSUME KindsAssumption ==
  \A k \in Kinds : /\ k.batchable \in BOOLEAN /\ k.valid \in BOOLEAN
                   /\ k.prefill \in Nat /\ k.tokens \in Nat \ {0}
                   /\ k.model # None
ASSUME NoneAssumption == None \notin Clients /\ None \notin Kinds /\ None \notin Nat
ASSUME BudgetAssumption ==
  /\ {Budget, Iterations, SyncFrequency, CacheSize} \subseteq Nat \ {0}
  /\ (\A r \in Ranks : PassTimes[r] \subseteq Nat \ {0}) /\ CacheBytes \in Nat
ASSUME LayersAssumption ==
  \A types \in IndexerTypes :
    /\ types \in Seq({"full", "shared"}) /\ types[1] = "full"
    /\ Cardinality({i \in DOMAIN types : types[i] = "full"}) >= Size

VARIABLES
  ask,     \* what each client asked for
  answer,  \* the last response in its queue
  left,    \* the clients whose context has _should_stop
  queue,   \* requests of rank 0
  types,   \* the indexer types of the models
  at,      \* where each rank is in _generate
  sharing, \* what its _share_object shares
  offer,   \* what it brings to the collective it is at
  inbox,   \* what the last one gave
  server,  \* the locals of _generate, the model, the prompt cache, the budget
  time     \* TimeBudget's clock of this loop, and _time_spent

vars == <<ask, answer, left, queue, types, at, sharing, offer, inbox, server, time>>
clients == <<ask, left, types>>

Meets == {"seed", "size", "data", "load", "pass", "time"}

NewServer == [req |-> None, aside |-> <<>>, open |-> None, drain |-> FALSE, rows |-> <<>>,
              solo |-> None, gone |-> {}, model |-> None, layers |-> <<0, 0>>, store |-> <<>>,
              passes |-> 0, loops |-> 0, iterations |-> Iterations]

Init ==
  /\ ask = [c \in Clients |-> None]
  /\ answer = [c \in Clients |-> "none"]
  /\ left = {}
  /\ queue = <<>>
  /\ types \in IndexerTypes
  /\ at = [r \in Ranks |-> "seed"]
  /\ sharing = [r \in Ranks |-> None]
  /\ offer = [r \in Ranks |-> None]
  /\ inbox = [r \in Ranks |-> None]
  /\ server = [r \in Ranks |-> NewServer]
  /\ time = [r \in Ranks |-> [clock |-> 0, spent |-> 0]]

----------------------------------------
(* The layers of a rank: rank 0 has the last stage. *)

(* Python's round of a / b: half to even. *)
Rounded(a, b) ==
  LET low == a \div b
      rest == 2 * (a % b)
  IN IF rest > b \/ (rest = b /\ low % 2 = 1) THEN low + 1 ELSE low

Distance(i, j) == IF i < j THEN j - i ELSE i - j

(* _index_share_pipeline_boundaries: a stage may begin behind the last one with *)
(* a layer that has its own indexer, if enough of them are left for the stages  *)
(* to come; it takes the one closest to an even share.                          *)
Candidates(indexers, last) ==
  {i \in 1 .. Len(indexers) - 1 : indexers[i + 1] = "full" /\ i > last}

Eligible(indexers, last, split) ==
  {i \in Candidates(indexers, last) :
     Cardinality(Candidates(indexers, i)) >= Size - split - 1}

Closest(set, target) ==
  CHOOSE i \in set : \A j \in set :
    \/ Distance(i, target) < Distance(j, target)
    \/ Distance(i, target) = Distance(j, target) /\ i <= j

Boundary(indexers, last, split) ==
  IF split = 0 THEN 0
  ELSE IF split = Size THEN Len(indexers)
  ELSE Closest(Eligible(indexers, last, split), Rounded(split * Len(indexers), Size))

Boundaries(indexers) ==
  LET boundary[split \in 0 .. Size] ==
        Boundary(indexers, IF split = 0 THEN 0 ELSE boundary[split - 1], split)
  IN boundary

(* start_idx and end_idx of pipeline() *)
Layers(r) ==
  LET stage == Size - r - 1
  IN <<Boundaries(types)[stage], Boundaries(types)[stage + 1]>>

Bytes(r, count) == count * (server[r].layers[2] - server[r].layers[1])

----------------------------------------
(* Collectives. *)

Waiting == {r \in Ranks : at[r] \in Meets}

(* Where a rank goes on. *)
After(r) ==
  CASE at[r] = "seed" -> "loop"
    [] at[r] = "size" -> "sized"
    [] at[r] = "data" -> "shared"
    [] at[r] = "load" -> "loaded"
    [] at[r] = "pass" -> IF server[r].solo = None THEN "passed" ELSE "solo"
    [] at[r] = "time" -> "timed"

(* What all_sum gives: the data of rank 0, as the others bring zeros. *)
Sum ==
  IF at[0] \in {"size", "time"} THEN SumFunction(offer)
  ELSE IF at[0] = "data" THEN offer[0] ELSE None

(* The ranks call the same operation, wherever the call is in the code. *)
AllSum ==
  /\ Waiting = Ranks
  /\ \A r \in Ranks : at[r] = at[0]
  /\ at' = [r \in Ranks |-> After(r)]
  /\ inbox' = [r \in Ranks |-> Sum]
  /\ offer' = [r \in Ranks |-> None]
  /\ UNCHANGED <<clients, answer, queue, sharing, server, time>>

Go(r, place) ==
  /\ at' = [at EXCEPT ![r] = place]
  /\ inbox' = [inbox EXCEPT ![r] = None]
  /\ UNCHANGED <<clients, sharing, offer, time>>

Meet(r, place, brings) ==
  /\ at' = [at EXCEPT ![r] = place]
  /\ inbox' = [inbox EXCEPT ![r] = None]
  /\ offer' = [offer EXCEPT ![r] = brings]
  /\ UNCHANGED clients

(* _share_object: the size first, from rank 0; it is 0 for None. *)
Share(r, what, something) ==
  /\ sharing' = [sharing EXCEPT ![r] = what]
  /\ Meet(r, "size", IF r = 0 /\ something THEN 1 ELSE 0)

Update(r, locals) == server' = [server EXCEPT ![r] = locals]

(* Only the handlers of rank 0 read what is put into an rqueue. *)
Put(r, c, response) ==
  answer' = IF r = 0 THEN [answer EXCEPT ![c] = response] ELSE answer

PutEach(r, done) ==
  answer' = [c \in Clients |-> IF r = 0 /\ c \in done THEN "done" ELSE answer[c]]

ShareData(r) ==
  /\ at[r] = "sized" /\ inbox[r] > 0
  /\ Meet(r, "data", IF r # 0 THEN None
                     ELSE IF sharing[r] = "request" THEN server[r].req ELSE server[r].gone)
  /\ UNCHANGED <<answer, queue, sharing, server, time>>

----------------------------------------
(* The loop of _generate up to a request. *)

(* get_next_request: one that was put aside comes first, from the end. *)
TakeAside(r) ==
  /\ at[r] = "loop" /\ ~server[r].drain /\ server[r].aside # <<>>
  /\ Update(r, [server[r] EXCEPT !.req = Last(server[r].aside),
                                !.aside = Front(server[r].aside)])
  /\ Go(r, "request")
  /\ UNCHANGED <<answer, queue>>

AskQueue(r) ==
  /\ at[r] = "loop" /\ ~server[r].drain /\ server[r].aside = <<>>
  /\ LET found == r = 0 /\ queue # <<>>
     IN /\ Share(r, "request", found)
        /\ Update(r, [server[r] EXCEPT !.req = IF found THEN Head(queue) ELSE None])
        /\ queue' = IF found THEN Tail(queue) ELSE queue
  /\ UNCHANGED <<answer, time>>

TakeShared(r) ==
  /\ at[r] = "shared" /\ sharing[r] = "request"
  /\ Update(r, [server[r] EXCEPT !.req = inbox[r]])
  /\ Go(r, "request")
  /\ UNCHANGED <<answer, queue>>

Request(r) == ask[server[r].req]

Joins(r) == server[r].open = Request(r).model /\ Request(r).batchable

(* How many entries the prompt cache may have beside the active rows. *)
Room(r, active) ==
  LET free == IF active > CacheBytes THEN 0 ELSE CacheBytes - active
  IN IF CacheBytes = 0 THEN CacheSize ELSE Min({CacheSize, free \div Bytes(r, 1)})

(* It keeps the newest. *)
Limited(store, room) ==
  IF Len(store) <= room THEN store ELSE SubSeq(store, Len(store) - room + 1, Len(store))

(* insert_cache *)
Inserted(store, topic, room) ==
  Limited(Append(SelectSeq(store, LAMBDA t : t # topic), topic), room)

(* The passes a request takes behind what the prompt cache holds. *)
Passes(store, q) == (IF Contains(store, q.topic) THEN 0 ELSE q.prefill) + q.tokens

NewRow(c, q, store) == [client |-> c, topic |-> q.topic, left |-> Passes(store, q)]

JoinBatch(r) ==
  /\ at[r] = "request" /\ Joins(r) /\ Request(r).valid
  /\ LET s == server[r]
         rows == Append(s.rows, NewRow(s.req, Request(r), s.store))
     IN /\ Update(r, [s EXCEPT !.rows = rows, !.req = None,
                                !.store = Limited(s.store, Room(r, Bytes(r, Len(rows))))])
        /\ Put(r, s.req, "context")
  /\ Go(r, "loop")
  /\ UNCHANGED queue

(* The request fails: its prompt in _tokenize, its model in load. *)
Fail(r, forgets) ==
  /\ Put(r, server[r].req, "error")
  /\ Update(r, [server[r] EXCEPT !.req = None,
                                !.model = IF forgets THEN None ELSE server[r].model])
  /\ Go(r, "loop")
  /\ UNCHANGED queue

RefuseJoin(r) ==
  /\ at[r] = "request" /\ Joins(r) /\ ~Request(r).valid
  /\ Fail(r, FALSE)

RefuseLoad(r) ==
  /\ at[r] = "request" /\ server[r].open = None
  /\ Request(r).model \notin Models
  /\ Fail(r, TRUE)

StartDraining(r) ==
  /\ at[r] = "request" /\ server[r].open # None /\ ~Joins(r)
  /\ Update(r, [server[r] EXCEPT !.drain = TRUE, !.req = None,
                                !.aside = Append(server[r].aside, server[r].req)])
  /\ Go(r, "loop")
  /\ UNCHANGED <<answer, queue>>

(* sharded_load ends in a collective, once the rank holds its layers. *)
Load(r) ==
  /\ at[r] = "request" /\ server[r].open = None
  /\ Request(r).model \in Models
  /\ IF server[r].model = Request(r).model
       THEN Go(r, "loaded") /\ UNCHANGED server
       ELSE /\ Meet(r, "load", None)
            /\ Update(r, [server[r] EXCEPT !.model = Request(r).model, !.layers = Layers(r)])
            /\ UNCHANGED <<sharing, time>>
  /\ UNCHANGED <<answer, queue>>

OpenBatch(r) ==
  /\ at[r] = "loaded" /\ Request(r).batchable
  /\ Update(r, [server[r] EXCEPT !.open = Request(r).model, !.rows = <<>>, !.req = None,
                                !.aside = Append(server[r].aside, server[r].req)])
  /\ Go(r, "loop")
  /\ UNCHANGED <<answer, queue>>

----------------------------------------
(* _serve_single *)

RefuseSingle(r) ==
  /\ at[r] = "loaded" /\ ~Request(r).batchable /\ ~Request(r).valid
  /\ Fail(r, FALSE)

ServeSingle(r) ==
  /\ at[r] = "loaded" /\ ~Request(r).batchable /\ Request(r).valid
  /\ Put(r, server[r].req, "context")
  /\ Update(r, [server[r] EXCEPT !.solo = Passes(server[r].store, Request(r))])
  /\ Meet(r, "pass", <<NewRow(server[r].req, Request(r), server[r].store)>>)
  /\ UNCHANGED <<queue, sharing, time>>

(* A pass of it; _should_stop is looked at behind a token, and raises. *)
NextSingle(r) ==
  /\ at[r] = "solo"
  /\ LET s == server[r]
         c == s.req
         rest == s.solo - 1
         stops == r = 0 /\ c \in left /\ rest < ask[c].tokens
     IN \/ /\ stops
           /\ Update(r, [s EXCEPT !.solo = None, !.req = None])
           /\ Put(r, c, "error") /\ Go(r, "loop")
        \/ /\ ~stops /\ rest = 0
           /\ Update(r, [s EXCEPT !.solo = None, !.req = None,
                                   !.store = Inserted(s.store, ask[c].topic, Room(r, 0))])
           /\ Put(r, c, "done") /\ Go(r, "loop")
        \/ /\ ~stops /\ rest > 0
           /\ Update(r, [s EXCEPT !.solo = rest])
           /\ Meet(r, "pass", <<[client |-> c, topic |-> ask[c].topic, left |-> rest]>>)
           /\ UNCHANGED <<answer, sharing, time>>
  /\ UNCHANGED queue

----------------------------------------
(* No request: the batch goes on. *)

NoRequest(r) ==
  \/ at[r] = "loop" /\ server[r].drain
  \/ at[r] = "sized" /\ sharing[r] = "request" /\ inbox[r] = 0

Idle(r) ==
  /\ NoRequest(r) /\ server[r].rows = <<>> /\ ~server[r].drain
  /\ Go(r, "loop")
  /\ UNCHANGED <<answer, queue, server>>

(* Mutant of CloseBatch: drain_batch stays set. *)
CloseStillDraining(r) ==
  /\ NoRequest(r) /\ server[r].rows = <<>> /\ server[r].drain
  /\ Update(r, [server[r] EXCEPT !.open = None])
  /\ Go(r, "loop")
  /\ UNCHANGED <<answer, queue>>

CloseBatch(r) ==
  /\ NoRequest(r) /\ server[r].rows = <<>> /\ server[r].drain
  /\ Update(r, [server[r] EXCEPT !.open = None, !.drain = FALSE])
  /\ Go(r, "loop")
  /\ UNCHANGED <<answer, queue>>

(* __iter__ of the time budget *)
StartBudget(r) ==
  /\ NoRequest(r) /\ server[r].rows # <<>>
  /\ Update(r, [server[r] EXCEPT !.passes = 0, !.gone = {}])
  /\ time' = [time EXCEPT ![r].clock = 0]
  /\ at' = [at EXCEPT ![r] = "budget"]
  /\ inbox' = [inbox EXCEPT ![r] = None]
  /\ UNCHANGED <<clients, answer, queue, sharing, offer>>

(* __next__ lets the loop call BatchGenerator.next, which has nothing to do *)
(* when the rows have ended: then the loop breaks.                          *)
NextPass(r) ==
  /\ at[r] = "budget" /\ server[r].passes < server[r].iterations
  /\ IF server[r].rows # <<>>
       THEN Meet(r, "pass", server[r].rows) /\ UNCHANGED sharing
       ELSE Share(r, "gone", TRUE)
  /\ Update(r, [server[r] EXCEPT !.passes = server[r].passes + 1])
  /\ UNCHANGED <<answer, queue, time>>

(* What a pass makes of the rows. *)
Moved(rows) == [i \in DOMAIN rows |-> [rows[i] EXCEPT !.left = @ - 1]]
Ended(rows) == SelectSeq(Moved(rows), LAMBDA row : row.left = 0)
Going(rows) == SelectSeq(Moved(rows), LAMBDA row : row.left > 0)

(* ... and of the prompt cache, which gets those that ended. *)
StoreAfter(store, rows, room) ==
  FoldLeft(LAMBDA held, row : Inserted(held, row.topic, room), store, Ended(rows))

(* The responses of a pass.  Contexts are stopped on rank 0 only. *)
TakeResponses(r) ==
  /\ at[r] = "passed"
  /\ LET s == server[r]
     IN /\ Update(r, [s EXCEPT
              !.rows = Going(s.rows), !.store = StoreAfter(s.store, s.rows, Room(r, 0)),
              !.gone = s.gone \cup {row.client : row \in
                                       {x \in ToSet(s.rows) : r = 0 /\ x.client \in left}}])
        /\ PutEach(r, {row.client : row \in ToSet(Ended(s.rows))})
  /\ \E t \in PassTimes[r] : time' = [time EXCEPT ![r].clock = @ + t]
  /\ at' = [at EXCEPT ![r] = "budget"]
  /\ UNCHANGED <<clients, queue, sharing, offer, inbox>>

(* __next__ ends the loop, and every SyncFrequency loops asks for the times. *)
EndBudget(r) ==
  /\ at[r] = "budget" /\ server[r].passes = server[r].iterations
  /\ LET spent == time[r].spent + time[r].clock
         loops == server[r].loops + 1
     IN /\ Update(r, [server[r] EXCEPT !.loops = loops])
        /\ time' = [time EXCEPT ![r].spent = spent]
        /\ IF loops % SyncFrequency = 0
             THEN Meet(r, "time", spent) /\ UNCHANGED sharing
             ELSE Share(r, "gone", TRUE)
  /\ UNCHANGED <<answer, queue>>

(* Mutant of AdjustBudget: the rank's own time instead of everyone's. *)
AdjustByOwn(r) ==
  /\ at[r] = "timed"
  /\ LET scaled == server[r].iterations * Budget * SyncFrequency
     IN Update(r, [server[r] EXCEPT !.loops = 0,
           !.iterations = Max({Rounded(scaled, time[r].spent), 1})])
  /\ time' = [time EXCEPT ![r].spent = 0]
  /\ Share(r, "gone", TRUE)
  /\ UNCHANGED <<answer, queue>>

AdjustBudget(r) ==
  /\ at[r] = "timed"
  /\ LET scaled == server[r].iterations * Budget * Size * SyncFrequency
     IN Update(r, [server[r] EXCEPT !.loops = 0,
           !.iterations = Max({Rounded(scaled, inbox[r]), 1})])
  /\ time' = [time EXCEPT ![r].spent = 0]
  /\ Share(r, "gone", TRUE)
  /\ UNCHANGED <<answer, queue>>

Staying(rows, gone) == SelectSeq(rows, LAMBDA row : row.client \notin gone)

(* Mutant of RemoveGone: what the rank collected itself. *)
RemoveOwnGone(r) ==
  /\ at[r] = "shared" /\ sharing[r] = "gone"
  /\ Update(r, [server[r] EXCEPT !.rows = Staying(server[r].rows, server[r].gone),
                                !.gone = {}])
  /\ Go(r, "loop")
  /\ UNCHANGED <<answer, queue>>

RemoveGone(r) ==
  /\ at[r] = "shared" /\ sharing[r] = "gone"
  /\ Update(r, [server[r] EXCEPT !.rows = Staying(server[r].rows, inbox[r]), !.gone = {}])
  /\ Go(r, "loop")
  /\ UNCHANGED <<answer, queue>>

----------------------------------------
(* Handlers, on rank 0. *)

Ask(c, kind) ==
  /\ ask[c] = None
  /\ ask' = [ask EXCEPT ![c] = kind]
  /\ queue' = Append(queue, c)
  /\ UNCHANGED <<answer, left, types, at, sharing, offer, inbox, server, time>>

Leave(c) ==
  /\ c \in Leavers \ left /\ answer[c] = "context"
  /\ left' = left \cup {c}
  /\ UNCHANGED <<ask, answer, queue, types, at, sharing, offer, inbox, server, time>>

Step(r) ==
  \/ TakeAside(r) \/ AskQueue(r) \/ ShareData(r) \/ TakeShared(r)
  \/ JoinBatch(r) \/ RefuseJoin(r) \/ StartDraining(r)
  \/ RefuseLoad(r) \/ Load(r) \/ OpenBatch(r)
  \/ RefuseSingle(r) \/ ServeSingle(r) \/ NextSingle(r)
  \/ Idle(r) \/ CloseBatch(r)
  \/ StartBudget(r) \/ NextPass(r) \/ TakeResponses(r)
  \/ EndBudget(r) \/ AdjustBudget(r) \/ RemoveGone(r)

Serving == AllSum \/ \E r \in Ranks : Step(r)

Next ==
  \/ Serving
  \/ \E c \in Clients : Leave(c) \/ \E kind \in MayAsk[c] : Ask(c, kind)

(* The ranks' threads run and the network delivers.  That some rank goes on *)
(* is enough: none can go round the loop without meeting the others.        *)
Spec == Init /\ [][Next]_vars /\ WF_vars(Serving)

----------------------------------------
TypeOK ==
  /\ \A c \in Clients : ask[c] \in MayAsk[c] \cup {None}
  /\ answer \in [Clients -> {"none", "context", "done", "error"}]
  /\ left \subseteq Leavers /\ queue \in Seq(Clients) /\ types \in IndexerTypes
  /\ \A r \in Ranks :
       /\ at[r] \in Meets \cup {"loop", "sized", "shared", "request", "loaded", "solo",
                                "budget", "passed", "timed"}
       /\ sharing[r] \in {None, "request", "gone"}
       /\ server[r].aside \in Seq(Clients) /\ Len(server[r].aside) <= 1
       /\ server[r].iterations \in Nat \ {0}
       /\ time[r].clock \in Nat /\ time[r].spent \in Nat

(* When every rank waits for the others they are at the same call: the same *)
(* operation, for the same object, with the same rows in a pass; and only    *)
(* rank 0 brings something to share (server.py 1782-1812, 3187-3394).        *)
InLockstep ==
  /\ TypeOK
  /\ Waiting = Ranks =>
       \A r \in Ranks :
         /\ at[r] = at[0]
         /\ at[r] \in {"size", "data"} => sharing[r] = sharing[0]
         /\ at[r] = "pass" => offer[r] = offer[0] /\ server[r].solo = server[0].solo
         /\ at[r] \in {"size", "data"} /\ r # 0 => offer[r] \in {0, None}

(* Each layer runs on exactly one rank, and each stage begins with a layer *)
(* that has an indexer of its own (glm_moe_dsa.py 1286-1324, 2881-2893).    *)
StagesCover ==
  (\A r \in Ranks : server[r].model # None) =>
    /\ \A i \in 0 .. Len(types) - 1 :
         Cardinality({r \in Ranks : server[r].layers[1] <= i /\ i < server[r].layers[2]}) = 1
    /\ \A r \in Ranks : /\ server[r].layers[1] < server[r].layers[2]
                        /\ types[server[r].layers[1] + 1] = "full"

(* What the ranks decide by themselves they decide alike: whenever they meet, *)
(* they have the same batch, request put aside, model, prompt cache and budget *)
(* of passes, though only rank 0 sees handlers and each its own clock           *)
(* (server.py 1197-1218, 3189-3394); and together they hold the model.          *)
Replica(r) ==
  [server[r] EXCEPT !.gone = {}, !.layers = <<>>, !.req = IF server[r].solo = None THEN None ELSE @]

ReplicasAgree ==
  /\ StagesCover
  /\ Waiting = Ranks => \A r \in Ranks : Replica(r) = Replica(0)

(* A request whose context nobody stops ends with a result or an error, *)
(* whatever the others do and however slow a rank is.                   *)
Answered ==
  \A c \in Clients : ask[c] # None ~> answer[c] \in {"done", "error"} \/ c \in left
=============================================================================
