----------------------------- MODULE MCBatchCaches -----------------------------
(* Instances of BatchCaches for TLC. *)
EXTENDS BatchCaches

Transformers == {<<"kv">>, <<"kv", "rotating">>, <<"keep">>, <<"arrays">>}

Chunked == {<<"chunked">>}

=============================================================================
