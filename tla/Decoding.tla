------------------------------ MODULE Decoding ------------------------------
(***************************************************************************)
(* What every way of decoding in mlx_lm/generate.py promises: one token     *)
(* after another, each sampled by the model from everything before it.      *)
(***************************************************************************)
EXTENDS SequencesExt, Integers

CONSTANTS Tokens, MaxTokens

VARIABLES context, \* what the model has read when the decoding starts
          out,     \* the tokens yielded, each with what it was sampled from
          closed   \* the consumer has what it wants

vars == <<context, out, closed>>

Values(s) == [i \in DOMAIN s |-> s[i].token]

Init == context \in Seq(Tokens) /\ out = <<>> /\ closed = TRUE

(* A new prompt. *)
Begin ==
  /\ closed
  /\ context' \in Seq(Tokens)
  /\ out' = <<>>
  /\ closed' = FALSE

Yield ==
  /\ ~closed
  /\ Len(out) < MaxTokens
  /\ \E t \in Tokens : out' = Append(out, [token |-> t, given |-> context \o Values(out)])
  /\ UNCHANGED <<context, closed>>

(* After the last token, or at any token the consumer stops at. *)
Close ==
  /\ ~closed
  /\ out # <<>>
  /\ closed' = TRUE
  /\ UNCHANGED <<context, out>>

Next == Begin \/ Yield \/ Close

Spec == Init /\ [][Next]_vars
=============================================================================
