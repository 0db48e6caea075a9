------------------------ MODULE MCDistributedServing ------------------------
(* Instances of DistributedServing for TLC. *)
EXTENDS DistributedServing

CONSTANTS c1, c2, c3

Kind(batchable, model, topic, prefill, tokens) ==
  [batchable |-> batchable, model |-> model, topic |-> topic, prefill |-> prefill,
   tokens |-> tokens, valid |-> TRUE]

Chat   == Kind(TRUE, "m", "a", 1, 2)
Again  == Kind(TRUE, "m", "a", 1, 1)
Seeded == Kind(FALSE, "m", "b", 1, 2)
Other  == Kind(TRUE, "other", "b", 0, 1)
Absent == Kind(TRUE, "absent", "b", 0, 1)
Invalid(kind) == [kind EXCEPT !.valid = FALSE]

(* A chat whose client may leave, one that joins it, and a third that makes *)
(* the batch drain, is served alone, is refused or cannot be loaded.        *)
Mixed == c1 :> {Chat} @@ c2 :> {Again}
           @@ c3 :> {Other, Seeded, Invalid(Again), Invalid(Seeded), Absent}

(* A seeded request whose client may leave. *)
Alone == c1 :> {Seeded} @@ c2 :> {Chat}

(* Three conversations, one of them twice. *)
Topics == c1 :> {Chat} @@ c2 :> {Kind(TRUE, "m", "b", 1, 1)} @@ c3 :> {Again}

(* One machine is slower at times. *)
Times == [r \in Ranks |-> IF r = 1 THEN {1, 2} ELSE {1}]

F == "full"
S == "shared"
Stages == {<<F, F, F, S, S, S>>, <<F, S, S, S, F, F>>}
Uneven == {<<F, F, S>>}
=============================================================================
