----------------------------- MODULE SavePolicy -----------------------------
(***************************************************************************)
(* At which lengths of a prompt a checkpoint is saved.  The server turns   *)
(* its --checkpoint-* options into lengths (mlx_lm/server.py 420-660), and *)
(* generate_step adds the frontiers of a long prefill and the bound on the *)
(* size of a chunk (mlx_lm/generate.py 283-416).                           *)
(*                                                                         *)
(* p is the record of the options.  _prompt_checkpoint_policy_int makes    *)
(* every one of them a natural number; 0 switches most of them off.        *)
(* glmDsa says whether the model is a GLM DSA one.                         *)
(***************************************************************************)
EXTENDS Naturals, FiniteSets, FiniteSetsExt

Policy ==
    [min : Nat, coldMax : Nat, trim : Nat, align : Nat, interval : Nat,
     frontiers : BOOLEAN, maxFrontiers : Nat, saveExact : BOOLEAN,
     step : Nat \ {0}, maxQk : Nat, glmDsa : BOOLEAN,
     adaptive : Nat, adaptiveAfter : Nat, adaptiveMin : Nat,
     async : BOOLEAN, backlog : Nat, flushLimit : Nat, flushMax : Nat]

RoundedUp(n, k) == ((n + k - 1) \div k) * k
RoundedDown(n, k) == n - (n % k)
Larger(m, n) == IF m >= n THEN m ELSE n
Smaller(m, n) == IF m <= n THEN m ELSE n

----------------------------------------
(* server.py                                                               *)

\* _prompt_checkpoint_boundary_store_length: the part of a prompt that the
\* next one is likely to share.
BoundaryStoreLength(p, count) ==
    LET stable  == count - p.trim
        aligned == IF p.align = 0 THEN stable ELSE RoundedDown(stable, p.align)
    IN  IF count > p.min + p.trim /\ aligned >= p.min THEN aligned ELSE count

\* _prompt_checkpoint_cold_prefix_length
ColdPrefixLength(p, count) ==
    IF count < p.min \/ (p.coldMax > 0 /\ count > p.coldMax) THEN 0
    ELSE BoundaryStoreLength(p, count)

\* _prompt_checkpoint_continued_step
ContinuedStep(p) ==
    IF p.interval = 0 \/ p.align = 0 THEN p.interval
    ELSE RoundedUp(p.interval, p.align)

\* _prompt_checkpoint_continued_store_length: 0 if there is nothing to save.
ContinuedStoreLength(p, count) ==
    LET stable == IF count > p.trim THEN count - p.trim ELSE 0
        length == RoundedDown(stable, ContinuedStep(p))
    IN  IF ContinuedStep(p) = 0 \/ count < p.min \/ length < p.min THEN 0 ELSE length

\* _prompt_checkpoint_store_prefix_lengths, and _checkpoint_store_lengths of
\* generate_step behind it.  The only segment with a length of its own is
\* the system prompt; system is where it ends, 0 without one.
StorePrefixLengths(p, total, system, cached) ==
    {length \in {system, ColdPrefixLength(p, total)} : cached < length /\ length < total}

\* _prompt_checkpoint_save_exact_for_prompt
SavesExact(p, total) == p.saveExact /\ (p.coldMax = 0 \/ total <= p.coldMax)

----------------------------------------
(* generate.py                                                             *)

\* _checkpoint_frontier_lengths, with _prompt_checkpoint_continued_frontier_args
FrontierLengths(p, total) ==
    LET stride == IF p.frontiers THEN ContinuedStep(p) ELSE 0
        first  == Larger(2, stride)
    IN  IF stride = 0 THEN {}
        ELSE {length \in first .. total - 1 : length = first \/ length % stride = 0}

\* _checkpoint_limit_frontier_lengths: the first and the last ones.
LimitedFrontiers(p, lengths) ==
    LET Longer(length) == {other \in lengths : other > length}
        keepsFirst     == IF p.maxFrontiers > 1 THEN 1 ELSE 0
    IN  {length \in lengths :
            \/ Cardinality(lengths) <= p.maxFrontiers
            \/ Cardinality(Longer(length)) < p.maxFrontiers - keepsFirst
            \/ keepsFirst = 1 /\ \A other \in lengths : other >= length}

\* What the prefill of a prompt saves on its way beyond the cached tokens.
StoreLengths(p, total, system, cached, initial) ==
    {length \in LimitedFrontiers(p, FrontierLengths(p, total))
                \cup StorePrefixLengths(p, total, system, initial) : length > cached}

\* _glm_dsa_adaptive_prefill_step_size and the start of
\* _effective_prefill_step_size
FirstStep(p, processed, remaining) ==
    LET enlarged == /\ p.glmDsa
                    /\ processed >= p.adaptiveAfter /\ remaining >= p.adaptiveMin
        adaptive == IF enlarged THEN p.adaptive ELSE 0
    IN  Smaller(Larger(p.step, adaptive), remaining)

(* Mutant of StepTooLarge: the context is not counted. *)
StepAloneTooLarge(p, processed, step) ==
    p.maxQk > 0 /\ step > 1 /\ step * step > p.maxQk

\* The condition of the loop of _effective_prefill_step_size, and its body.
StepTooLarge(p, processed, step) ==
    p.maxQk > 0 /\ step > 1 /\ step * (processed + step) > p.maxQk
ShrunkStep(p, processed, step) == Larger(1, p.maxQk \div (processed + step))

(* Mutant of CutStep: the last length in reach is taken, not the first. *)
CutStepAtLast(pending, processed, step) ==
    LET inside == {length \in pending : length <= processed + step}
    IN  IF inside = {} THEN step ELSE Max(inside) - processed

\* The step, cut at the first length to be saved.
CutStep(pending, processed, step) ==
    LET inside == {length \in pending : length <= processed + step}
    IN  IF inside = {} THEN step ELSE Min(inside) - processed
=============================================================================
