------------------------- MODULE MCResponseGenerator -------------------------
(* Instances of ResponseGenerator for TLC. *)
EXTENDS ResponseGenerator

CONSTANTS c1, c2, c3

Kind(batchable, vision, model, segments, types, max) ==
  [batchable |-> batchable, vision |-> vision, stream |-> FALSE, model |-> model,
   segments |-> segments, types |-> types, max |-> max]

Streamed(kind) == [kind EXCEPT !.stream = TRUE]

Chat   == Kind(TRUE, FALSE, "m", <<2, 2>>, <<"system", "user">>, 2)
Short  == Kind(TRUE, FALSE, "m", <<1>>, <<"user">>, 1)
Other  == Kind(TRUE, FALSE, "other", <<1>>, <<"user">>, 0)
Seeded == Kind(FALSE, FALSE, "m", <<1>>, <<"user">>, 2)
Vision == Kind(FALSE, TRUE, "m", <<1>>, <<"vision">>, 0)

(* A streamed chat, a request without a limit, for Vision or another model, *)
(* and a third request that joins the batch or makes it drain.              *)
Mixed == c1 :> {Streamed(Chat)} @@ c2 :> {Vision, Other} @@ c3 :> {Short}

TwoChats == c1 :> {Streamed(Chat)} @@ c2 :> {Chat}

(* The second prompt is the first one with its answer. *)
Repeated == c1 :> {Short} @@ c2 :> {[Short EXCEPT !.segments = <<2>>]}

(* Requests behind a proxy that keeps the connection open. *)
Proxied == c1 :> {Vision} @@ c2 :> {Seeded}
==============================================================================
