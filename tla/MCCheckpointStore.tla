-------------------------- MODULE MCCheckpointStore --------------------------
(* Instances of CheckpointStore: a prefix, a chain of deltas on it, a prompt  *)
(* of its own beside them.                                                    *)
EXTENDS CheckpointStore, TLC

Root  == <<1, 2>>
Delta == <<1, 2, 3>>
Deep  == <<1, 2, 3, 4>>
Other == <<1, 2, 3, 4, 5>>

MCNames == {Root, Delta, Deep, Other}
MCForms == (Root :> {"frontier"}) @@ (Delta :> {"delta"}) @@ (Deep :> {"delta"})
             @@ (Other :> {"frontier"})
MCPrompts == {<<1, 2, 3, 4, 5, 6>>}
MCTasks == {<<"generation", "frontier">>, <<"background", "delta">>, <<"background", "prune">>}
MCAging == {Root}

\* Exact checkpoints, looked up for the prompt they were saved for and a longer one.
ExactNames == {Root, Other}
ExactForms == [n \in ExactNames |-> {"exact"}]
ExactPrompts == {Other, <<1, 2, 3, 4, 5, 6>>}
ExactTasks == {<<"generation", "exact">>}
NoneAging == {}

\* One name saved in two forms, as with the default options: behind a prefix of 2048 tokens
\* a delta of 8192 ends where a continued checkpoint is saved too.
TwoNames == {Root, Delta}
TwoForms == (Root :> {"prefix"}) @@ (Delta :> {"continued", "delta"})
TwoPrompts == {Deep}
TwoTasks == {<<"generation", "prefix">>, <<"background", "continued">>, <<"background", "delta">>}

\* A chain under a budget of bytes, its first delta saved in both forms.
MixedNames == {Root, Delta, Deep}
MixedForms == (Root :> {"frontier"}) @@ (Delta :> {"continued", "delta"}) @@ (Deep :> {"delta"})
MixedTasks == MCTasks \cup {<<"background", "continued">>}

\* A delta that a frontier save may list as what it is not.
FrontierForms == (Root :> {"prefix"}) @@ (Delta :> {"delta", "frontier"}) @@ (Deep :> {"delta"})
FrontierTasks == {<<"generation", "prefix">>, <<"generation", "frontier">>, <<"generation", "delta">>,
                  <<"generation", "prune">>}
=============================================================================
