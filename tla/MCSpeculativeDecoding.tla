------------------------ MODULE MCSpeculativeDecoding ------------------------
(* Instances of SpeculativeDecoding for TLC. *)
EXTENDS SpeculativeDecoding

CONSTANTS a, e

TokensAsked == <<a, e, a>>

Plain == [method |-> "plain", num |-> 1, fused |-> FALSE]

WithDraft(n) == [method |-> "draft", num |-> n, fused |-> FALSE]

WithLayer(n, fused) == [method |-> "mtp", num |-> n, fused |-> fused]

AllSetups == {Plain, WithDraft(1), WithDraft(2), WithLayer(1, TRUE), WithLayer(2, TRUE),
              WithLayer(2, FALSE)}

LayerOnly == {WithLayer(2, TRUE)}

DraftOnly == {WithDraft(2)}

=============================================================================
