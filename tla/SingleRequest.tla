---------------------------- MODULE SingleRequest ----------------------------
(***************************************************************************)
(* What each request is promised by BatchGenerator (mlx_lm/generate.py),    *)
(* told without any batch: it waits, its prompt enters the KV cache in      *)
(* chunks of at most PrefillStep tokens that end at its segment boundaries, *)
(* the last token starts the decoding, and every step then produces one     *)
(* token until max_tokens, if any, or a stop.  Each request goes its own    *)
(* way; any of them may take a step at the same time.                       *)
(***************************************************************************)
EXTENDS FiniteSetsExt, SequencesExt, Integers

CONSTANTS PrefillStep, \* prefill_step_size
          Ids,         \* the uids of the requests
          Requests     \* what may be asked: records with segments, held and max

VARIABLES stage,   \* by uid: "absent", "waiting", "prompt", "decoding" or "ended"
          request, \* what was asked
          held,    \* tokens in its KV cache
          produced \* tokens returned

vars == <<stage, request, held, produced>>

NoRequest == [segments |-> <<>>, held |-> 0, max |-> 0]

(* The number of tokens in the cache once the first n segments are in. *)
Boundary(u, n) == request[u].held + SumFunction(SubSeq(request[u].segments, 1, n))
Total(u) == request[u].held + SumFunction(request[u].segments)

Init ==
  /\ stage = [u \in Ids |-> "absent"]
  /\ request = [u \in Ids |-> NoRequest]
  /\ held = [u \in Ids |-> 0]
  /\ produced = [u \in Ids |-> 0]

Submit(u) ==
  /\ stage[u] = "absent"
  /\ stage'[u] = "waiting"
  /\ request'[u] \in Requests
  /\ held'[u] = request'[u].held
  /\ produced'[u] = 0

(* The next chunk, short of the last token of the prompt and of the next *)
(* segment.                                                              *)
Prefill(u) ==
  /\ stage[u] \in {"waiting", "prompt"}
  /\ held[u] < Total(u) - 1
  /\ held'[u] = Min({held[u] + PrefillStep, Total(u) - 1} \cup
                    {Boundary(u, n) : n \in {k \in DOMAIN request[u].segments :
                                               Boundary(u, k) > held[u]}})
  /\ stage'[u] = "prompt"
  /\ request'[u] = request[u] /\ produced'[u] = produced[u]

Start(u) ==
  /\ stage[u] \in {"waiting", "prompt"}
  /\ held[u] = Total(u) - 1
  /\ held'[u] = Total(u)
  /\ stage'[u] = "decoding"
  /\ request'[u] = request[u] /\ produced'[u] = produced[u]

Emit(u) ==
  /\ stage[u] = "decoding" /\ stage'[u] = "decoding"
  /\ request[u].max >= 0 => produced[u] + 1 < request[u].max
  /\ held'[u] = held[u] + 1
  /\ produced'[u] = produced[u] + 1
  /\ request'[u] = request[u]

(* The last token, or the removal of the request. *)
End(u) ==
  /\ stage[u] \in {"waiting", "prompt", "decoding"}
  /\ stage'[u] = "ended"
  /\ held'[u] = 0 /\ produced'[u] = 0
  /\ request'[u] = request[u]

Idle(u) ==
  /\ stage'[u] = stage[u] /\ request'[u] = request[u]
  /\ held'[u] = held[u] /\ produced'[u] = produced[u]

Next == \A u \in Ids :
          Submit(u) \/ Prefill(u) \/ Start(u) \/ Emit(u) \/ End(u) \/ Idle(u)

(* Nothing else is kept of a request. *)
Kept == /\ DOMAIN stage = Ids /\ DOMAIN request = Ids
        /\ DOMAIN held = Ids /\ DOMAIN produced = Ids

Spec == Init /\ [][Next /\ Kept']_vars
=============================================================================
