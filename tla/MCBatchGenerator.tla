--------------------------- MODULE MCBatchGenerator ---------------------------
(* Instances of BatchGenerator for TLC. *)
EXTENDS BatchRefinement

(* A single token, a prompt of one segment, one of two. *)
MixedSegmentings == {<<1>>, <<3>>, <<1, 3>>}
OneOrUnlimited == {1, -1}
ShortSegmentings == {<<1>>, <<2>>}

Fresh == [held |-> 0, kind |-> "fp"]
OnlyFresh == {Fresh}
(* A fresh cache and one the prompt cache kept quantized. *)
FreshOrQuantized == {Fresh, [held |-> 2, kind |-> "quantized"]}
=============================================================================
