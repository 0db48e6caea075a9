---------------------------- MODULE MCPromptCache ----------------------------
(* Instances of PromptCache for TLC. *)
EXTENDS PromptCache

CONSTANTS m1, m2, a, b

OneModel == {m1}
TwoModels == {m1, m2}
TwoTokens == {a, b}

(* A prompt, its extension and a branch off both. *)
ChainPrompts == {<<a, b>>, <<a, b, a>>, <<a, a>>}
(* With the empty prompt, for the root's value. *)
RootPrompts == {<<>>, <<a, b>>}
OneTwo == {1, 2}
=============================================================================
