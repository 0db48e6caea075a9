---------------------------- MODULE BatchRefinement ----------------------------
(* The refinement of SingleRequest by BatchGenerator. *)
EXTENDS BatchGenerator

Ids == 1..MaxRequests

(* What a client of the generator knows of a sequence, without its batches. *)
Stage(uid) ==
  IF uid \notin DOMAIN asked THEN "absent"
  ELSE IF uid \in ended THEN "ended"
  ELSE IF Contains(unprocessed, uid) THEN "waiting"
  ELSE IF uid \in Uids(prompt.rows) THEN "prompt" ELSE "decoding"

RowOf(uid, rows) == rows[CHOOSE i \in DOMAIN rows : rows[i].uid = uid]

Request(uid) ==
  IF Stage(uid) = "absent" THEN [segments |-> <<>>, held |-> 0, max |-> 0]
  ELSE [segments |-> asked[uid].segments, held |-> asked[uid].held, max |-> asked[uid].max]

Held(uid) ==
  CASE Stage(uid) = "waiting"  -> asked[uid].held
    [] Stage(uid) = "prompt"   -> RowOf(uid, prompt.rows).held
    [] Stage(uid) = "decoding" -> RowOf(uid, gen.rows).held
    [] OTHER -> 0

Produced(uid) == IF Stage(uid) = "decoding" THEN RowOf(uid, gen.rows).num ELSE 0

Alone ==
  INSTANCE SingleRequest WITH
    Requests <- [segments : Segmentings, held : {c.held : c \in Caches}, max : MaxTokens],
    stage <- [uid \in Ids |-> Stage(uid)], request <- [uid \in Ids |-> Request(uid)],
    held <- [uid \in Ids |-> Held(uid)], produced <- [uid \in Ids |-> Produced(uid)]

(* Batching does not show: each sequence alone behaves like a request of     *)
(* SingleRequest, whatever is admitted, filtered or removed beside it.       *)
EachAsIfAlone == Alone!Spec

=============================================================================
