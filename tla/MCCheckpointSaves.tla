-------------------------- MODULE MCCheckpointSaves --------------------------
EXTENDS CheckpointSaves

Usual ==
    [min |-> 2, coldMax |-> 0, trim |-> 1, align |-> 2, interval |-> 3,
     frontiers |-> TRUE, maxFrontiers |-> 2, saveExact |-> TRUE, step |-> 4,
     maxQk |-> 20, glmDsa |-> FALSE, adaptive |-> 0, adaptiveAfter |-> 0, adaptiveMin |-> 0,
     async |-> TRUE, backlog |-> 2, flushLimit |-> 0, flushMax |-> 0]

\* An odd stride, a tight bound of a chunk, a backlog of one job, a flush.
Odd == [Usual EXCEPT !.align = 0, !.trim = 0, !.maxFrontiers = 3, !.glmDsa = TRUE,
                     !.adaptive = 6, !.adaptiveAfter = 3, !.adaptiveMin = 2, !.maxQk = 15,
                     !.backlog = 1, !.flushLimit = 1, !.flushMax = 9]

\* No frontiers, no bound, everything saved by the generation thread.
Synchronous == [Usual EXCEPT !.frontiers = FALSE, !.coldMax = 5, !.maxQk = 0,
                             !.async = FALSE, !.backlog = 0, !.flushLimit = 2]

AllPolicies == {Usual, Odd, Synchronous}
=============================================================================
