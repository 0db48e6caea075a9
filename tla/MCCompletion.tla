----------------------------- MODULE MCCompletion -----------------------------
(* Instances of Completion for TLC. *)
EXTENDS Completion

CONSTANTS w, x, l, a, b, e

(* Control sequences of several tokens that overlap one another; white space *)
(* and a token that is stripped from the end of a Responses text.            *)
Overlapping ==
  [vocab |-> {w, l, a, b, e}, held |-> {}, blank |-> {w}, leaked |-> {a},
   stops |-> {<<e>>, <<w, a>>},
   think |-> <<<<l, a>>, <<l, b>>>>, tool |-> <<<<l, l, b>>, <<b, l>>>>,
   initial |-> "normal", limit |-> 8, api |-> "chat", stream |-> TRUE,
   textguards |-> FALSE]

(* Control sequences of a token each. *)
Single ==
  [vocab |-> {w, l, a, b, e}, held |-> {}, blank |-> {}, leaked |-> {}, stops |-> {<<e>>},
   think |-> <<<<l>>, <<a>>>>, tool |-> <<<<b>>, <<a>>>>,
   initial |-> "reasoning", limit |-> 7, api |-> "chat", stream |-> TRUE,
   textguards |-> TRUE]

(* No reasoning, and a tool call that only the end closes. *)
Endless ==
  [vocab |-> {w, b, e}, held |-> {}, blank |-> {w}, leaked |-> {}, stops |-> {<<e>>},
   think |-> <<>>, tool |-> <<<<b>>, <<>>>>,
   initial |-> "normal", limit |-> 5, api |-> "chat", stream |-> TRUE,
   textguards |-> FALSE]

AllRequests ==
  {Overlapping, Single} \cup
  {[r EXCEPT !.api = api, !.stream = stream] :
     r \in {[Overlapping EXCEPT !.limit = 6], [Single EXCEPT !.limit = 6], Endless},
     api \in {"chat", "responses"}, stream \in BOOLEAN}

EndlessOnly == {Endless}

(* A word of two tokens, the first of which has no text of its own. *)
HeldBack == {[Single EXCEPT !.vocab = {w, x, l, a, b, e}, !.held = {x}]}

=============================================================================
