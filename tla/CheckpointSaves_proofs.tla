------------------------ MODULE CheckpointSaves_proofs ------------------------
(***************************************************************************)
(* Prefill and its saves; the save queue, its worker and the shutdown: for  *)
(* every set of options, prompts and requests and every interleaving of the *)
(* three threads.                                                           *)
(***************************************************************************)
EXTENDS CheckpointSaves, TLAPS, WellFoundedInduction, NaturalsInduction,
        SequenceTheorems

LEMMA MinIsLeast ==
  ASSUME NEW S \in SUBSET Nat, S # {}
  PROVE  Min(S) \in S /\ \A y \in S : Min(S) <= y
<1>1. PICK x \in S : \A y \in S : ~(<<y, x>> \in OpToRel(<, Nat))
  BY NatLessThanWellFounded, WFMin, Zenon
<1>2. \A y \in S : <<y, x>> \in Nat \X Nat /\ <<y, x>>[1] = y /\ <<y, x>>[2] = x
  OBVIOUS
<1>3. \A y \in S : ~(y < x)
  BY <1>1, <1>2, Zenon DEF OpToRel
<1>4. \A y \in S : x <= y
  BY <1>3
<1> QED BY <1>4 DEF Min

LEMMA DivBelow ==
  ASSUME NEW a \in Nat, NEW b \in Nat \ {0}
  PROVE  a \div b \in Nat /\ b * (a \div b) <= a
OBVIOUS

LEMMA ProductMonotone ==
  ASSUME NEW a \in Nat, NEW b \in Nat, NEW c \in Nat, NEW d \in Nat, a <= b, c <= d
  PROVE  a * c <= b * d
<1>1. a * c <= b * c OBVIOUS
<1>2. b * c <= b * d OBVIOUS
<1>3. a * c \in Nat /\ b * c \in Nat /\ b * d \in Nat OBVIOUS
<1> QED BY <1>1, <1>2, <1>3

----------------------------------------
(* The operators of SavePolicy *)

LEMMA ContinuedStepTyped == ASSUME NEW p \in Policy PROVE ContinuedStep(p) \in Nat
BY DEF ContinuedStep, RoundedUp, Policy

LEMMA ContinuedStoreLengthTyped ==
  ASSUME NEW p \in Policy, NEW count \in Nat
  PROVE  ContinuedStoreLength(p, count) \in Nat
<1>1. ContinuedStep(p) \in Nat
  BY ContinuedStepTyped
<1>2. p.min \in Nat /\ p.trim \in Nat
  BY DEF Policy
<1>3. PICK stable \in Nat : stable = IF count > p.trim THEN count - p.trim ELSE 0
  BY <1>2
<1>4. PICK step \in Nat : step = ContinuedStep(p)
  BY <1>1
<1>5. step # 0 => RoundedDown(stable, step) \in Nat
  BY DEF RoundedDown
<1> QED BY <1>2, <1>3, <1>4, <1>5 DEF ContinuedStoreLength

(* Every length to be saved is a natural number between what is cached and   *)
(* the end of the prompt.                                                    *)
LEMMA StoreLengthsInside ==
  ASSUME NEW p \in Policy, NEW total \in Nat, NEW system \in Nat, NEW cached \in Nat,
         NEW initial \in Nat
  PROVE  \A l \in StoreLengths(p, total, system, cached, initial) :
           l \in Nat /\ cached < l /\ l < total
<1>1. ContinuedStep(p) \in Nat
  BY ContinuedStepTyped
<1>2. \A l \in FrontierLengths(p, total) : l \in Nat /\ l < total
  BY <1>1 DEF FrontierLengths, Larger
<1>3. \A l \in LimitedFrontiers(p, FrontierLengths(p, total)) : l \in Nat /\ l < total
  BY <1>2 DEF LimitedFrontiers
<1>4. ColdPrefixLength(p, total) \in Nat
  <2>1. BoundaryStoreLength(p, total) \in Nat
    BY DEF BoundaryStoreLength, RoundedDown, Policy
  <2> QED BY <2>1 DEF ColdPrefixLength
<1>5. \A l \in StorePrefixLengths(p, total, system, initial) : l \in Nat /\ l < total
  BY <1>4 DEF StorePrefixLengths
<1> QED BY <1>3, <1>5 DEF StoreLengths

LEMMA FirstStepInside ==
  ASSUME NEW p \in Policy, NEW processed \in Nat, NEW remaining \in Nat \ {0}
  PROVE  /\ FirstStep(p, processed, remaining) \in 1..remaining
         /\ FirstStep(p, processed, remaining) <= Larger(p.step, p.adaptive)
BY DEF FirstStep, Smaller, Larger, Policy

(* A step that is too large shrinks, but not to nothing. *)
LEMMA ShrunkStepInside ==
  ASSUME NEW p \in Policy, NEW processed \in Nat, NEW step \in Nat,
         StepTooLarge(p, processed, step)
  PROVE  ShrunkStep(p, processed, step) \in 1..step
<1> DEFINE b == processed + step
           q == p.maxQk \div b
<1>1. p.maxQk \in Nat /\ step > 1 /\ step * b > p.maxQk
  BY DEF StepTooLarge, Policy
<1>2. b \in Nat \ {0}
  BY <1>1
<1>3. q \in Nat /\ b * q <= p.maxQk
  BY <1>1, <1>2, DivBelow
<1>4. q <= step
  <2> SUFFICES ASSUME q > step PROVE FALSE
    BY <1>3
  <2> HIDE DEF q, b
  <2>1. b * step <= b * q
    BY <1>2, <1>3, ProductMonotone
  <2>2. b * step = step * b /\ b * step \in Nat /\ b * q \in Nat
    BY <1>2, <1>3
  <2> QED BY <1>1, <1>3, <2>1, <2>2
<1> QED BY <1>1, <1>3, <1>4 DEF ShrunkStep, Larger

(* A cut chunk makes progress, keeps within the step, ends at the first       *)
(* length in reach and passes none.                                          *)
LEMMA CutStepInside ==
  ASSUME NEW pending \in SUBSET Nat, NEW processed \in Nat, NEW step \in Nat \ {0},
         \A l \in pending : l > processed
  PROVE  /\ CutStep(pending, processed, step) \in 1..step
         /\ \A l \in pending : l >= processed + CutStep(pending, processed, step)
<1> DEFINE inside == {length \in pending : length <= processed + step}
<1>1. CASE inside = {}
  BY <1>1 DEF CutStep
<1>2. CASE inside # {}
  <2>1. Min(inside) \in inside /\ \A y \in inside : Min(inside) <= y
    BY <1>2, MinIsLeast
  <2>2. CutStep(pending, processed, step) = Min(inside) - processed
    BY <1>2 DEF CutStep
  <2>3. PICK m \in Nat : m = Min(inside)
    BY <2>1
  <2>4. m \in pending /\ processed < m /\ m <= processed + step
    BY <2>1, <2>3
  <2>5. \A l \in pending : l >= m
    BY <2>1, <2>3, <2>4
  <2> QED BY <2>2, <2>3, <2>4, <2>5
<1> QED BY <1>1, <1>2

----------------------------------------
(* The inductive invariant *)

(* The save worker works on a job. *)
Typed == TypeOK /\ (worker.at = "saving" => worker.job \in Job)

(* In prefill: the lengths left to save are those ahead, those behind have   *)
(* been saved, the cache has been given what was processed since it began,   *)
(* and the step, once chosen, leaves the last token.                         *)
Prefilling ==
  gen = "prefill" =>
    /\ req.processed < req.total
    /\ req.processed + req.step < req.total
    /\ req.step <= Larger(policy.step, policy.adaptive)
    /\ req.pending = {l \in req.due : l > req.processed}
    /\ \A l \in req.due : l < req.total
    /\ \A l \in req.due : l <= req.processed => \E entry \in req.stored : entry.tokens = l
    /\ \A entry \in req.stored : entry.tokens < req.total
    /\ LacksNoMore(req.cache, req.processed)

IInv == Typed /\ Prefilling /\ BoundariesSaved /\ ChunksBounded

(* What holds of the request as long as the generation thread prefills. *)
RequestInv == req \in Request /\ Prefilling /\ BoundariesSaved /\ ChunksBounded

LEMMA InitInv == Init => IInv
<1> SUFFICES ASSUME Init PROVE IInv
  OBVIOUS
<1>1. req \in Request
  BY DEF Init, NoRequest, Request, Entry
<1>2. Typed
  <2>1. /\ policy \in Policies /\ gen = "idle" /\ taken \in Nat /\ ram \in SUBSET Entry
        /\ main = "serving" /\ stop \in BOOLEAN /\ waited \in BOOLEAN
    BY DEF Init
  <2>2. jobs \in Seq(Job \cup {Stop}) /\ accepted \in Seq(Job) /\ ran \in Seq(Job)
    BY DEF Init
  <2>3. /\ worker \in [at : {"waiting", "saving", "ended"}, job : Job \cup {None}]
        /\ worker.at = "waiting"
    BY DEF Init
  <2>4. flush \in [left : SUBSET Entry, seen : SUBSET Nat, saved : Nat]
    BY DEF Init
  <2> QED BY <1>1, <2>1, <2>2, <2>3, <2>4 DEF Typed, TypeOK
<1>3. Prefilling /\ BoundariesSaved /\ ChunksBounded
  BY DEF Init, NoRequest, Prefilling, BoundariesSaved, ChunksBounded
<1> QED BY <1>2, <1>3 DEF IInv

LEMMA TakeKeeps == ASSUME IInv, TakeAny PROVE RequestInv'
<1>1. policy \in Policy
  BY PoliciesAssumption DEF IInv, Typed, TypeOK
<1>2. PICK total \in Totals, system \in Systems, entry \in ram \cup {None},
           base \in {0} \cup {t - 1 : t \in Totals}, found \in {0} \cup Totals :
        system < total /\ Take(total, system, entry, base, found)
  BY DEF TakeAny
<1>3. total \in Nat \ {0} /\ system \in Nat /\ base \in Nat /\ found \in Nat
  BY LengthsAssumption
<1>4. entry = None \/ entry \in Entry
  BY DEF IInv, Typed, TypeOK
<1> DEFINE initial == Initial(entry, base, total)
           left    == LeftOne(initial, total)
           restored == Smaller(found, total - 1)
           began   == IF found = 0 THEN left ELSE [tokens |-> restored, held |-> restored]
           cached  == began.tokens
           due     == IF total = 1 THEN {}
                      ELSE StoreLengths(policy, total, system, cached, initial.tokens)
<1>5. FetchedFrom(entry, total) \in Entry
  BY <1>3, <1>4 DEF FetchedFrom, Entry, Larger
<1>6. initial \in Entry
  BY <1>3, <1>5 DEF Initial, Entry
<1>7. left \in Entry /\ left.tokens < total
  <2>1. initial.tokens < total \/ initial.held > 0
    BY <1>2 DEF Take, initial
  <2> HIDE DEF initial
  <2> QED BY <1>3, <1>6, <2>1 DEF LeftOne, Entry
<1>8. began \in Entry /\ cached \in Nat /\ cached < total /\ began.held \in Nat
  <2> HIDE DEF left
  <2>1. restored \in Nat /\ restored < total
    BY <1>3 DEF Smaller
  <2> HIDE DEF restored
  <2> QED BY <1>7, <2>1 DEF Entry
<1>9. \A l \in due : l \in Nat /\ cached < l /\ l < total
  <2> HIDE DEF initial, cached, began
  <2> QED BY <1>1, <1>3, <1>6, <1>8, StoreLengthsInside DEF Entry
<1>10. SavesExact(policy, total) \in BOOLEAN
  BY <1>1 DEF SavesExact, Policy
<1>11. /\ gen' = "prefill" /\ policy' = policy
       /\ req' = [NoRequest EXCEPT
                    !.total = total, !.processed = cached, !.due = due, !.pending = due,
                    !.exact = total > 1 /\ found # total /\ SavesExact(policy, total),
                    !.base = base, !.began = began, !.cache = began.held,
                    !.held = left.held, !.own = found = 0]
  BY <1>2 DEF Take, initial, left, restored, began, cached, due
<1>15. cached = began.tokens
  BY DEF cached
<1> HIDE DEF initial, left, restored, began, cached, due
<1>12. req' \in Request
  <2>1. due \in SUBSET Nat /\ began \in Entry /\ began.held \in Nat
    BY <1>8, <1>9
  <2>2. PICK held \in Nat : held = left.held
    BY <1>7 DEF Entry
  <2>3. PICK exact \in BOOLEAN : exact = (total > 1 /\ found # total /\ SavesExact(policy, total))
    BY <1>10
  <2>4. PICK own \in BOOLEAN : own = (found = 0)
    OBVIOUS
  <2>5. req' = [total |-> total, processed |-> cached, due |-> due, pending |-> due,
                stored |-> {}, exact |-> exact, step |-> 0, base |-> base, key |-> 0,
                began |-> began, cache |-> began.held, held |-> held, own |-> own,
                call |-> [from |-> 0, tokens |-> 0]]
    BY <1>11, <2>2, <2>3, <2>4 DEF NoRequest
  <2> QED BY <1>3, <1>8, <2>1, <2>5 DEF Request
<1>13. /\ req'.began = began /\ req'.cache = began.held
       /\ req'.total = total /\ req'.processed = cached /\ req'.due = due
       /\ req'.pending = due /\ req'.stored = {} /\ req'.step = 0 /\ req'.call.tokens = 0
  BY <1>11 DEF NoRequest
<1>16. LacksNoMore(req.cache, req.processed)'
  BY <1>8, <1>13, <1>15 DEF LacksNoMore
<1>14. Prefilling'
  BY <1>1, <1>3, <1>8, <1>9, <1>11, <1>13, <1>16 DEF Prefilling, Larger, Policy
<1>17. BoundariesSaved' /\ ChunksBounded'
  BY <1>3, <1>8, <1>11, <1>13 DEF BoundariesSaved, ChunksBounded
<1> QED BY <1>12, <1>14, <1>17 DEF RequestInv

LEMMA StepsKeep == ASSUME IInv, StartStep \/ ShrinkStep PROVE RequestInv'
<1>1. req \in Request /\ policy \in Policy
  BY PoliciesAssumption DEF IInv, Typed, TypeOK
<1>2. PICK step \in Nat : /\ req' = [req EXCEPT !.step = step]
                          /\ req.processed + step < req.total
                          /\ step <= Larger(policy.step, policy.adaptive)
  <2>1. CASE StartStep
    <3>1. req.total - req.processed - 1 \in Nat \ {0}
      BY <1>1, <2>1 DEF StartStep, Request
    <3> QED BY <1>1, <2>1, <3>1, FirstStepInside DEF StartStep, Request
  <2>2. CASE ShrinkStep
    <3>1. ShrunkStep(policy, req.processed, req.step) \in 1..req.step
      BY <1>1, <2>2, ShrunkStepInside DEF ShrinkStep, Request
    <3>2. req.processed + req.step < req.total
          /\ req.step <= Larger(policy.step, policy.adaptive)
      BY <2>2 DEF ShrinkStep, IInv, Prefilling
    <3> QED BY <1>1, <2>2, <3>1, <3>2 DEF ShrinkStep, Request, Larger, Policy
  <2> QED BY <2>1, <2>2
<1>3. gen = "prefill" /\ gen' = gen /\ policy' = policy
  BY DEF StartStep, ShrinkStep
<1>4. req' \in Request
  BY <1>1, <1>2 DEF Request
<1>5. /\ req'.total = req.total /\ req'.processed = req.processed /\ req'.due = req.due
      /\ req'.pending = req.pending /\ req'.stored = req.stored /\ req'.call = req.call
      /\ req'.began = req.began /\ req'.cache = req.cache /\ req'.step = step
  BY <1>1, <1>2 DEF Request
<1>6. Prefilling'
  BY <1>2, <1>3, <1>5 DEF IInv, Prefilling, LacksNoMore
<1>7. BoundariesSaved' /\ ChunksBounded'
  BY <1>3, <1>5 DEF IInv, BoundariesSaved, ChunksBounded, LacksNoMore
<1> QED BY <1>4, <1>6, <1>7 DEF RequestInv

LEMMA ChunkKeeps == ASSUME IInv, ProcessChunk PROVE RequestInv'
<1> DEFINE chunk == CutStep(req.pending, req.processed, req.step)
           processed == req.processed + chunk
           cache == req.cache + chunk
<1>1. req \in Request /\ policy \in Policy /\ gen = "prefill" /\ req.step > 0
  BY PoliciesAssumption DEF IInv, Typed, TypeOK, ProcessChunk
<1>2. /\ req.pending \in SUBSET Nat /\ req.due \in SUBSET Nat /\ req.processed \in Nat
      /\ req.step \in Nat \ {0} /\ req.total \in Nat /\ req.held \in Nat
      /\ req.stored \in SUBSET Entry /\ req.cache \in Nat
      /\ req.began.tokens \in Nat /\ req.began.held \in Nat
  BY <1>1 DEF Request, Entry
<1>3. /\ req.processed + req.step < req.total
      /\ req.step <= Larger(policy.step, policy.adaptive)
      /\ req.pending = {l \in req.due : l > req.processed}
      /\ \A l \in req.due : l < req.total
      /\ \A l \in req.due : l <= req.processed => \E entry \in req.stored : entry.tokens = l
      /\ \A entry \in req.stored : entry.tokens < req.total
      /\ LacksNoMore(req.cache, req.processed)
  BY <1>1 DEF IInv, Prefilling
<1>4. chunk \in 1..req.step /\ \A l \in req.pending : l >= processed
  BY <1>2, <1>3, CutStepInside
<1>5. Stored(req.pending, processed, cache) = {[tokens |-> l, held |-> cache] :
                                                l \in {k \in req.pending : k = processed}}
  BY DEF Stored
<1> DEFINE call    == [from |-> req.processed, tokens |-> chunk]
           pending == {l \in req.pending : l > processed}
           stored  == req.stored \cup Stored(req.pending, processed, cache)
           held    == IF req.own THEN req.held + chunk ELSE req.held
<1>6. /\ gen' = gen /\ policy' = policy
      /\ req' = [req EXCEPT !.processed = processed, !.step = 0, !.cache = cache,
                            !.call = call, !.pending = pending, !.stored = stored,
                            !.held = held]
  BY DEF ProcessChunk
<1> HIDE DEF chunk
<1>7. processed \in Nat /\ processed < req.total /\ processed > req.processed
  BY <1>2, <1>3, <1>4
<1>19. cache \in Nat /\ LacksNoMore(cache, processed)
  BY <1>2, <1>3, <1>4 DEF LacksNoMore
<1> HIDE DEF processed, cache
<1>8. \A entry \in Stored(req.pending, processed, cache) :
        /\ entry \in Entry /\ entry.tokens = processed /\ entry.held = cache
  BY <1>2, <1>5, <1>7, <1>19 DEF Entry
<1>9. /\ call \in [from : Nat, tokens : Nat] /\ held \in Nat
      /\ stored \in SUBSET Entry /\ pending \in SUBSET Nat
  BY <1>2, <1>4, <1>8
<1>10. pending = {l \in req.due : l > processed}
  BY <1>2, <1>3, <1>7
<1>11. \A l \in req.due : l <= processed => \E entry \in stored : entry.tokens = l
  <2> SUFFICES ASSUME NEW l \in req.due, l <= processed, l > req.processed
               PROVE  \E entry \in stored : entry.tokens = l
    BY <1>2, <1>3
  <2>1. l \in req.pending /\ l = processed
    BY <1>2, <1>3, <1>4, <1>7 DEF processed
  <2>2. [tokens |-> l, held |-> cache] \in stored
    BY <1>5, <2>1
  <2>3. [tokens |-> l, held |-> cache].tokens = l
    OBVIOUS
  <2> QED BY <2>2, <2>3, Zenon
<1>12. \A entry \in stored :
         /\ entry.tokens < req.total
         /\ entry \in req.stored \/ LacksNoMore(entry.held, entry.tokens)
  <2>1. \A entry \in Stored(req.pending, processed, cache) :
          entry.tokens < req.total /\ LacksNoMore(entry.held, entry.tokens)
    BY <1>7, <1>8, <1>19
  <2> QED BY <1>3, <2>1
<1>13. call.from = req.processed /\ call.tokens = chunk
  OBVIOUS
<1> HIDE DEF call, pending, stored, held
<1>14. req' \in Request
  BY <1>1, <1>6, <1>7, <1>9, <1>19 DEF Request
<1>15. /\ req'.total = req.total /\ req'.processed = processed /\ req'.due = req.due
       /\ req'.pending = pending /\ req'.stored = stored /\ req'.step = 0
       /\ req'.call = call /\ req'.began = req.began /\ req'.cache = cache
  BY <1>1, <1>6 DEF Request
<1>20. LacksNoMore(req.cache, req.processed)'
  BY <1>15, <1>19 DEF LacksNoMore
<1>16. Prefilling'
  BY <1>1, <1>2, <1>3, <1>6, <1>7, <1>10, <1>11, <1>12, <1>15, <1>20
     DEF Prefilling, Larger, Policy
<1>17. BoundariesSaved'
  <2>1. \A entry \in stored : LacksNoMore(entry.held, entry.tokens) /\ entry.tokens # req.total
    <3> SUFFICES ASSUME NEW entry \in stored
                 PROVE  LacksNoMore(entry.held, entry.tokens) /\ entry.tokens # req.total
      OBVIOUS
    <3>1. entry.tokens < req.total /\ entry.tokens \in Nat
      BY <1>9, <1>12 DEF Entry
    <3>2. entry \in req.stored => LacksNoMore(entry.held, entry.tokens)
      BY <1>2, <3>1 DEF IInv, BoundariesSaved
    <3> QED BY <1>2, <1>12, <3>1, <3>2
  <2>2. \A entry \in stored : LacksNoMore(entry.held, entry.tokens)'
    BY <1>15, <2>1 DEF LacksNoMore
  <2> QED BY <1>1, <1>6, <1>15, <2>1, <2>2 DEF BoundariesSaved, LacksNoMore
<1>18. ChunksBounded'
  <2>1. chunk <= Larger(policy.step, policy.adaptive)
    BY <1>1, <1>2, <1>3, <1>4 DEF Larger, Policy
  <2>2. \/ policy.maxQk = 0 \/ req.step <= 1
        \/ req.step * (req.processed + req.step) <= policy.maxQk
    BY <1>1, <1>2 DEF ProcessChunk, StepTooLarge, Policy
  <2>3. chunk * (req.processed + chunk) <= req.step * (req.processed + req.step)
    BY <1>2, <1>4, ProductMonotone
  <2>4. /\ chunk * (req.processed + chunk) \in Nat
        /\ req.step * (req.processed + req.step) \in Nat
    BY <1>2, <1>4
  <2>5. \/ policy.maxQk = 0 \/ chunk = 1
        \/ chunk * (req.processed + chunk) <= policy.maxQk
    BY <1>1, <1>2, <1>4, <2>2, <2>3, <2>4 DEF Policy
  <2> QED BY <1>1, <1>6, <1>7, <1>13, <1>15, <2>1, <2>5 DEF ChunksBounded
<1> QED BY <1>14, <1>16, <1>17, <1>18 DEF RequestInv

LEMMA EndPrefillKeeps == ASSUME IInv, EndPrefill PROVE RequestInv'
<1>1. req \in Request /\ gen = "prefill" /\ req.total - req.processed = 1
  BY DEF IInv, Typed, TypeOK, EndPrefill
<1>2. /\ req.total \in Nat /\ req.processed \in Nat /\ req.due \in SUBSET Nat
      /\ req.stored \in SUBSET Entry /\ req.cache \in Nat
      /\ req.processed = req.total - 1
  BY <1>1 DEF Request
<1>3. /\ \A l \in req.due : l < req.total
      /\ \A l \in req.due : l <= req.processed => \E entry \in req.stored : entry.tokens = l
      /\ \A entry \in req.stored : entry.tokens < req.total
      /\ LacksNoMore(req.cache, req.processed)
  BY <1>1 DEF IInv, Prefilling
<1> DEFINE stored == IF req.exact THEN req.stored \cup {[tokens |-> req.total, held |-> req.cache]}
                     ELSE req.stored
           Claim(entry) == IF entry.tokens = req.total THEN entry.tokens - 1 ELSE entry.tokens
<1>4. gen' = "decode" /\ policy' = policy /\ req' = [req EXCEPT !.stored = stored]
  BY DEF EndPrefill
<1>5. stored \in SUBSET Entry /\ req.stored \subseteq stored
  BY <1>2 DEF Entry
<1>6. \A entry \in stored : LacksNoMore(entry.held, Claim(entry))
  <2>1. \A entry \in req.stored : LacksNoMore(entry.held, Claim(entry))
    BY DEF IInv, BoundariesSaved
  <2>2. LacksNoMore(req.cache, req.total - 1)
    BY <1>2, <1>3
  <2>3. \A entry \in stored : entry \in req.stored
          \/ (entry.tokens = req.total /\ entry.held = req.cache)
    OBVIOUS
  <2> QED BY <2>1, <2>2, <2>3
<1>7. \A l \in req.due : \E entry \in stored : entry.tokens = l
  <2>1. \A l \in req.due : l <= req.processed
    BY <1>1, <1>2, <1>3
  <2> QED BY <1>3, <1>5, <2>1
<1> HIDE DEF stored
<1>8. /\ req' \in Request
      /\ req'.total = req.total /\ req'.processed = req.processed /\ req'.due = req.due
      /\ req'.stored = stored /\ req'.call = req.call /\ req'.began = req.began
  BY <1>1, <1>4, <1>5 DEF Request
<1>9. BoundariesSaved'
  BY <1>4, <1>6, <1>7, <1>8 DEF BoundariesSaved, LacksNoMore
<1>10. ChunksBounded' /\ Prefilling'
  BY <1>1, <1>2, <1>4, <1>8 DEF IInv, ChunksBounded, Prefilling
<1> QED BY <1>8, <1>9, <1>10 DEF RequestInv

(* After prefill the request is not changed any more, and then forgotten. *)
LEMMA LaterStepsKeep ==
  ASSUME IInv,
         \/ \E output \in Outputs : Respond(output)
         \/ OfferContinued \/ Materialise \/ OfferDelta \/ InsertCache \/ EndGeneration
         \/ SaveWorker \/ Shutdown \/ UNCHANGED vars
  PROVE  RequestInv'
<1>1. req \in Request
  BY DEF IInv, Typed, TypeOK
<1>2. ASSUME NEW output \in Outputs, Respond(output) PROVE RequestInv'
  <2>1. output \in Nat
    BY LengthsAssumption
  <2> DEFINE held == IF req.own THEN req.held + 1 + output ELSE req.held
  <2>4. held \in Nat /\ req.total + output \in Nat
    BY <1>1, <2>1 DEF Request
  <2>5. req' = [req EXCEPT !.key = req.total + output, !.held = held]
    BY <1>2 DEF Respond
  <2> HIDE DEF held
  <2>2. /\ req' \in Request
        /\ req'.total = req.total /\ req'.processed = req.processed /\ req'.due = req.due
        /\ req'.stored = req.stored /\ req'.call = req.call /\ req'.began = req.began
    BY <1>1, <2>4, <2>5 DEF Request
  <2>3. gen = "decode" /\ gen' \in {"offer", "insert"} /\ policy' = policy
    BY <1>2 DEF Respond
  <2> QED BY <2>2, <2>3 DEF IInv, RequestInv, BoundariesSaved, LacksNoMore, ChunksBounded, Prefilling
<1>3. CASE InsertCache
  <2>1. req' = NoRequest /\ req' \in Request /\ gen' = "idle"
    BY <1>3 DEF InsertCache, NoRequest, Request, Entry
  <2> QED BY <2>1 DEF RequestInv, BoundariesSaved, LacksNoMore, ChunksBounded, Prefilling, NoRequest
<1>4. CASE OfferContinued \/ Materialise \/ OfferDelta \/ EndGeneration
  <2>1. /\ req' = req /\ policy' = policy
        /\ gen \in {"offer", "materialise", "queue", "idle"}
        /\ gen' \in {"materialise", "queue", "insert", "ended"}
        /\ gen = "idle" <=> gen' = "ended"
    BY <1>4 DEF OfferContinued, Materialise, OfferDelta, EndGeneration
  <2> QED BY <1>1, <2>1 DEF IInv, RequestInv, BoundariesSaved, LacksNoMore, ChunksBounded, Prefilling
<1>5. CASE SaveWorker \/ Shutdown \/ UNCHANGED vars
  <2>1. req' = req /\ policy' = policy /\ gen' = gen
    BY <1>5 DEF SaveWorker, GetJob, SaveJob, Shutdown, RequestStop, JoinGeneration,
       StopWorker, JoinWorker, EndFlush, Exit, FlushEntry, otherVars, vars
  <2> QED BY <1>1, <2>1 DEF IInv, RequestInv, BoundariesSaved, LacksNoMore, ChunksBounded, Prefilling
<1> QED BY <1>2, <1>3, <1>4, <1>5

----------------------------------------
(* The other variables *)

LEMMA NextTyped == ASSUME IInv, [Next]_vars, req' \in Request PROVE Typed'
<1> USE DEF IInv, Typed, TypeOK
<1>1. CASE TakeAny
  <2>1. gen' = "prefill" /\ taken' = taken + 1
        /\ UNCHANGED <<policy, ram, jobs, worker, accepted, ran, shutdownVars>>
    BY <1>1 DEF TakeAny, Take
  <2> QED BY <2>1 DEF shutdownVars
<1>2. CASE StartStep \/ ShrinkStep \/ ProcessChunk \/ EndPrefill
  <2>1. gen' \in {"prefill", "decode"}
        /\ UNCHANGED <<policy, taken, ram, jobs, worker, accepted, ran, shutdownVars>>
    BY <1>2 DEF StartStep, ShrinkStep, ProcessChunk, EndPrefill
  <2> QED BY <2>1 DEF shutdownVars
<1>3. ASSUME NEW output \in Outputs, Respond(output) PROVE Typed'
  BY <1>3 DEF Respond, shutdownVars
<1>4. CASE OfferContinued \/ OfferDelta
  <2>1. PICK label \in {"continued", "delta"} : Enqueue(label)
    BY <1>4 DEF OfferContinued, OfferDelta
  <2>2. PICK job \in Job :
          \/ UNCHANGED <<jobs, accepted>>
          \/ jobs' = Append(jobs, job) /\ accepted' = Append(accepted, job)
    <3>1. [label |-> label, request |-> taken] \in Job
      BY DEF Job
    <3> QED BY <2>1, <3>1 DEF Enqueue
  <2>3. jobs' \in Seq(Job \cup {Stop}) /\ accepted' \in Seq(Job)
    <3>1. /\ job \in Job \cup {Stop}
          /\ jobs \in Seq(Job \cup {Stop}) /\ accepted \in Seq(Job)
      OBVIOUS
    <3>2. Append(jobs, job) \in Seq(Job \cup {Stop})
      BY <3>1, AppendProperties
    <3>3. Append(accepted, job) \in Seq(Job)
      BY <3>1, AppendProperties
    <3> QED BY <2>2, <3>1, <3>2, <3>3
  <2>4. gen' \in {"materialise", "insert"}
        /\ UNCHANGED <<policy, req, taken, ram, worker, ran, shutdownVars>>
    BY <1>4 DEF OfferContinued, OfferDelta
  <2> QED BY <2>3, <2>4 DEF shutdownVars
<1>5. CASE Materialise \/ EndGeneration
  BY <1>5 DEF Materialise, EndGeneration, shutdownVars
<1>6. CASE InsertCache
  <2>2. req.key \in Nat /\ req.held \in Nat
    BY <1>6 DEF Request
  <2>3. [tokens |-> req.key, held |-> req.held] \in Entry
    BY <2>2 DEF Entry
  <2>1. ram' \in SUBSET Entry
    BY <1>6, <2>3 DEF InsertCache
  <2> QED BY <1>6, <2>1 DEF InsertCache, shutdownVars
<1>7. CASE GetJob
  <2>1. Head(jobs) \in Job \cup {Stop} /\ Tail(jobs) \in Seq(Job \cup {Stop})
    BY <1>7 DEF GetJob
  <2>2. /\ worker' \in [at : {"waiting", "saving", "ended"}, job : Job \cup {None}]
        /\ worker'.at = "saving" => worker'.job \in Job
    BY <1>7, <2>1 DEF GetJob
  <2> QED BY <1>7, <2>1, <2>2 DEF GetJob, shutdownVars
<1>8. CASE SaveJob
  <2>1. worker' \in [at : {"waiting", "saving", "ended"}, job : Job \cup {None}]
        /\ worker'.at = "waiting"
    BY <1>8 DEF SaveJob
  <2>2. ran' \in Seq(Job)
    BY <1>8 DEF SaveJob
  <2> QED BY <1>8, <2>1, <2>2 DEF SaveJob, shutdownVars
<1>9. CASE RequestStop
  BY <1>9 DEF RequestStop, otherVars
<1>10. CASE JoinGeneration
  <2>1. waited' \in BOOLEAN
    BY <1>10 DEF JoinGeneration
  <2> QED BY <1>10, <2>1 DEF JoinGeneration, otherVars
<1>11. CASE StopWorker
  <2>1. jobs' \in Seq(Job \cup {Stop})
    <3>1. Stop \in Job \cup {Stop} /\ jobs \in Seq(Job \cup {Stop}) /\ jobs' = Append(jobs, Stop)
      BY <1>11 DEF StopWorker
    <3> QED BY <3>1, AppendProperties
  <2> QED BY <1>11, <2>1 DEF StopWorker, otherVars
<1>12. CASE JoinWorker
  <2>1. flush' \in [left : SUBSET Entry, seen : SUBSET Nat, saved : Nat]
    BY <1>12 DEF JoinWorker
  <2>2. waited' \in BOOLEAN
    BY <1>12 DEF JoinWorker
  <2> QED BY <1>12, <2>1, <2>2 DEF JoinWorker, otherVars
<1>13. CASE EndFlush \/ Exit
  BY <1>13 DEF EndFlush, Exit, otherVars
<1>14. ASSUME NEW entry \in flush.left, NEW succeeds \in BOOLEAN, FlushEntry(entry, succeeds)
       PROVE  Typed'
  <2>1. policy \in Policy /\ entry.tokens \in Nat
    BY PoliciesAssumption DEF Entry
  <2>2. ContinuedStoreLength(policy, entry.tokens) \in Nat
    BY <2>1, ContinuedStoreLengthTyped
  <2>3. flush' \in [left : SUBSET Entry, seen : SUBSET Nat, saved : Nat]
    BY <1>14, <2>2 DEF FlushEntry
  <2> QED BY <1>14, <2>3 DEF FlushEntry, otherVars
<1>15. CASE UNCHANGED vars
  BY <1>15 DEF vars
<1> QED BY <1>1, <1>2, <1>3, <1>4, <1>5, <1>6, <1>7, <1>8, <1>9, <1>10, <1>11, <1>12,
           <1>13, <1>14, <1>15
        DEF Next, Serve, SaveWorker, Shutdown

LEMMA NextKeepsInv == IInv /\ [Next]_vars => IInv'
<1> SUFFICES ASSUME IInv, [Next]_vars PROVE IInv'
  OBVIOUS
<1>1. RequestInv'
  BY TakeKeeps, StepsKeep, ChunkKeeps, EndPrefillKeeps, LaterStepsKeep DEF Next, Serve
<1> QED BY <1>1, NextTyped DEF RequestInv, IInv

----------------------------------------
(* Every variable keeps its type. *)
THEOREM TypesKept == Spec => []TypeOK
<1>1. IInv => TypeOK
  BY DEF IInv, Typed
<1> QED BY <1>1, InitInv, NextKeepsInv, PTL DEF Spec

(* For any options, prompts, cached lengths and chunk sizes, prefill has      *)
(* saved every scheduled length when it ends, and each cache it saved lacks    *)
(* no more of the tokens of its name than the one it began with did of its     *)
(* own.                                                                      *)
THEOREM PrefillSavesBoundaries == Spec => []BoundariesSaved
<1>1. IInv => BoundariesSaved
  BY DEF IInv
<1> QED BY <1>1, InitInv, NextKeepsInv, PTL DEF Spec

(* No call of the model exceeds its bounds, and all leave one token. *)
THEOREM PrefillChunksBounded == Spec => []ChunksBounded
<1>1. IInv => ChunksBounded
  BY DEF IInv
<1> QED BY <1>1, InitInv, NextKeepsInv, PTL DEF Spec

----------------------------------------
(* The queue, the worker and the shutdown *)

(* An element in front of a sequence. *)
LEMMA ConsProperties ==
  ASSUME NEW S, NEW a \in Seq(S), NEW b \in Seq(S), NEW n \in Nat,
         Len(a) = 1, Len(b) + 1 = n
  PROVE  /\ a \o b \in Seq(S)
         /\ Len(a \o b) = n
         /\ \A k \in 1..n : (a \o b)[k] = IF k <= 1 THEN a[k] ELSE b[k - 1]
<1>1. Len(a) + Len(b) = n
  BY LenProperties
<1> QED BY <1>1, ConcatProperties

(* RemoveFirst on a sequence with at most one occurrence of e. *)
Once(s, e) == \A i, j \in 1..Len(s) : s[i] = e /\ s[j] = e => i = j

LEMMA RemoveAtProperties ==
  ASSUME NEW S, NEW s \in Seq(S), NEW i \in 1..Len(s)
  PROVE  /\ RemoveAt(s, i) \in Seq(S)
         /\ Len(RemoveAt(s, i)) = Len(s) - 1
         /\ \A k \in 1..Len(s) - 1 : RemoveAt(s, i)[k] = IF k < i THEN s[k] ELSE s[k + 1]
<1> DEFINE front == SubSeq(s, 1, i - 1)
           back  == SubSeq(s, i + 1, Len(s))
<1>1. Len(s) \in Nat /\ i \in Nat /\ i >= 1 /\ i <= Len(s)
  BY LenProperties
<1>2. /\ front \in Seq(S) /\ Len(front) = i - 1
      /\ \A k \in 1..i - 1 : front[k] = s[k]
  <2>1. \A k \in 1..i - 1 : s[k] \in S
    BY <1>1, ElementOfSeq
  <2> QED BY <1>1, <2>1, SubSeqProperties
<1>3. /\ back \in Seq(S) /\ Len(back) = Len(s) - i
      /\ \A k \in 1..Len(s) - i : back[k] = s[i + k]
  <2>1. \A k \in i + 1..Len(s) : s[k] \in S
    BY <1>1, ElementOfSeq
  <2> QED BY <1>1, <2>1, SubSeqProperties
<1> HIDE DEF front, back
<1>4. /\ front \o back \in Seq(S)
      /\ Len(front \o back) = Len(s) - 1
      /\ \A k \in 1..Len(s) - 1 :
           (front \o back)[k] = IF k <= i - 1 THEN front[k] ELSE back[k - (i - 1)]
  <2>1. Len(front) + Len(back) = Len(s) - 1 /\ Len(s) - 1 \in Nat /\ i - 1 \in Nat
    BY <1>1, <1>2, <1>3
  <2>2. front \in Seq(S) /\ back \in Seq(S) /\ Len(front) = i - 1
    BY <1>2, <1>3
  <2>3. /\ front \o back \in Seq(S)
        /\ Len(front \o back) = Len(front) + Len(back)
        /\ \A k \in 1..Len(front) + Len(back) :
             (front \o back)[k] = IF k <= Len(front) THEN front[k]
                                                    ELSE back[k - Len(front)]
    BY <2>2, ConcatProperties
  <2> QED BY <2>1, <2>2, <2>3
<1>5. \A k \in 1..Len(s) - 1 : (front \o back)[k] = IF k < i THEN s[k] ELSE s[k + 1]
  <2> SUFFICES ASSUME NEW k \in 1..Len(s) - 1
               PROVE  (front \o back)[k] = IF k < i THEN s[k] ELSE s[k + 1]
    OBVIOUS
  <2>1. CASE k < i
    <3>1. k \in 1..i - 1 /\ k <= i - 1
      BY <1>1, <2>1
    <3>2. front[k] = s[k]
      BY <1>2, <3>1
    <3> QED BY <1>4, <2>1, <3>1, <3>2
  <2>2. CASE k >= i
    <3>1. k - (i - 1) \in 1..Len(s) - i /\ i + (k - (i - 1)) = k + 1 /\ ~(k <= i - 1)
      BY <1>1, <2>2
    <3>2. back[k - (i - 1)] = s[k + 1]
      BY <1>3, <3>1
    <3> QED BY <1>4, <2>2, <3>1, <3>2
  <2>3. k < i \/ k >= i
    BY <1>1
  <2> QED BY <2>1, <2>2, <2>3
<1>6. RemoveAt(s, i) = front \o back
  BY DEF RemoveAt, front, back
<1> QED BY <1>4, <1>5, <1>6

LEMMA RemoveAtOfLength ==
  ASSUME NEW S, NEW s \in Seq(S), NEW i \in 1..Len(s), NEW n \in Nat, Len(s) = n + 1
  PROVE  /\ RemoveAt(s, i) \in Seq(S)
         /\ Len(RemoveAt(s, i)) = n
         /\ \A k \in 1..n : RemoveAt(s, i)[k] = IF k < i THEN s[k] ELSE s[k + 1]
<1>1. Len(s) - 1 = n
  OBVIOUS
<1> QED BY <1>1, RemoveAtProperties

LEMMA RemoveFirstIsRemoveAt ==
  ASSUME NEW S, NEW s \in Seq(S), NEW e, Once(s, e), NEW i \in 1..Len(s), s[i] = e
  PROVE  RemoveFirst(s, e) = RemoveAt(s, i)
<1>1. {k \in 1..Len(s) : s[k] = e} = {i}
  BY DEF Once
<1>2. Min({i}) = i
  BY LenProperties DEF Min
<1>3. SelectInSeq(s, LAMBDA v : v = e) = i
  BY <1>1, <1>2 DEF SelectInSeq
<1> QED BY <1>3 DEF RemoveFirst

LEMMA RemoveFirstAbsent ==
  ASSUME NEW s, NEW e, \A i \in 1..Len(s) : s[i] # e
  PROVE  RemoveFirst(s, e) = s /\ Once(s, e)
BY DEF RemoveFirst, Once

LEMMA RemoveFirstTyped ==
  ASSUME NEW S, NEW s \in Seq(S), NEW e, Once(s, e)
  PROVE  /\ RemoveFirst(s, e) \in Seq(S)
         /\ Len(RemoveFirst(s, e)) \in {Len(s), Len(s) - 1}
         /\ Len(RemoveFirst(s, e)) = Len(s) <=> \A i \in 1..Len(s) : s[i] # e
<1>1. CASE \A i \in 1..Len(s) : s[i] # e
  BY <1>1, RemoveFirstAbsent
<1>2. ASSUME NEW i \in 1..Len(s), s[i] = e
      PROVE  /\ RemoveFirst(s, e) \in Seq(S)
             /\ Len(RemoveFirst(s, e)) = Len(s) - 1
  BY <1>2, RemoveFirstIsRemoveAt, RemoveAtProperties
<1>3. Len(s) \in Nat
  BY LenProperties
<1> QED BY <1>1, <1>2, <1>3

LEMMA RemoveFirstOfAppend ==
  ASSUME NEW S, NEW s \in Seq(S), NEW e, Once(s, e), NEW x \in S, x # e
  PROVE  /\ RemoveFirst(Append(s, x), e) = Append(RemoveFirst(s, e), x)
         /\ Once(Append(s, x), e)
<1> DEFINE t == Append(s, x)
<1>1. /\ t \in Seq(S) /\ Len(t) = Len(s) + 1 /\ Len(s) \in Nat
      /\ \A k \in 1..Len(s) : t[k] = s[k]
      /\ t[Len(s) + 1] = x
  BY AppendProperties, LenProperties
<1> HIDE DEF t
<1>2. Once(t, e)
  BY <1>1 DEF Once
<1>3. CASE \A i \in 1..Len(s) : s[i] # e
  <2>1. \A i \in 1..Len(t) : t[i] # e
    BY <1>1, <1>3
  <2> QED BY <1>2, <1>3, <2>1, RemoveFirstAbsent DEF t
<1>4. ASSUME NEW i \in 1..Len(s), s[i] = e
      PROVE  RemoveFirst(t, e) = Append(RemoveFirst(s, e), x)
  <2>1. i \in 1..Len(t) /\ t[i] = e
    BY <1>1, <1>4
  <2>2. RemoveFirst(t, e) = RemoveAt(t, i) /\ RemoveFirst(s, e) = RemoveAt(s, i)
    <3>1. RemoveFirst(t, e) = RemoveAt(t, i)
      BY <1>1, <1>2, <2>1, RemoveFirstIsRemoveAt
    <3>2. RemoveFirst(s, e) = RemoveAt(s, i)
      BY <1>4, RemoveFirstIsRemoveAt
    <3> QED BY <3>1, <3>2
  <2>3. /\ RemoveAt(t, i) \in Seq(S) /\ Len(RemoveAt(t, i)) = Len(s)
        /\ \A k \in 1..Len(s) : RemoveAt(t, i)[k] = IF k < i THEN t[k] ELSE t[k + 1]
    BY <1>1, <2>1, RemoveAtOfLength
  <2>4. /\ RemoveAt(s, i) \in Seq(S) /\ Len(RemoveAt(s, i)) = Len(s) - 1
        /\ \A k \in 1..Len(s) - 1 : RemoveAt(s, i)[k] = IF k < i THEN s[k] ELSE s[k + 1]
    BY RemoveAtProperties
  <2> DEFINE u == RemoveAt(s, i)
  <2>5. /\ Append(u, x) \in Seq(S) /\ Len(Append(u, x)) = Len(s)
        /\ \A k \in 1..Len(s) - 1 : Append(u, x)[k] = u[k]
        /\ Append(u, x)[Len(s)] = x
    <3> HIDE DEF u
    <3>1. u \in Seq(S) /\ Len(u) = Len(s) - 1
      BY <2>4 DEF u
    <3> QED BY <1>1, <3>1, AppendProperties
  <2>6. \A k \in 1..Len(s) : RemoveAt(t, i)[k] = Append(u, x)[k]
    <3> SUFFICES ASSUME NEW k \in 1..Len(s) PROVE RemoveAt(t, i)[k] = Append(u, x)[k]
      OBVIOUS
    <3>1. CASE k < Len(s)
      <4>1. k \in 1..Len(s) - 1 /\ k + 1 \in 1..Len(s)
        BY <1>1, <3>1
      <4>2. Append(u, x)[k] = IF k < i THEN s[k] ELSE s[k + 1]
        BY <2>4, <2>5, <4>1
      <4>3. t[k] = s[k] /\ t[k + 1] = s[k + 1]
        BY <1>1, <4>1
      <4> QED BY <2>3, <4>2, <4>3
    <3>2. CASE k = Len(s)
      <4>1. i <= k /\ i \in Nat /\ ~(k < i)
        BY <1>1, <3>2
      <4> QED BY <1>1, <2>3, <2>5, <3>2, <4>1
    <3>3. k < Len(s) \/ k = Len(s)
      BY <1>1
    <3> QED BY <3>1, <3>2, <3>3
  <2>7. RemoveAt(t, i) = Append(u, x)
    <3> HIDE DEF u
    <3> QED BY <1>1, <2>3, <2>5, <2>6, SeqEqual
  <2> QED BY <2>2, <2>7
<1> QED BY <1>2, <1>3, <1>4 DEF t

LEMMA RemoveFirstOfAppended ==
  ASSUME NEW S, NEW s \in Seq(S), NEW e \in S, \A i \in 1..Len(s) : s[i] # e
  PROVE  /\ RemoveFirst(Append(s, e), e) = s
         /\ Once(Append(s, e), e)
<1> DEFINE t == Append(s, e)
           n == Len(s) + 1
<1>1. /\ t \in Seq(S) /\ Len(t) = n /\ Len(s) \in Nat
      /\ \A k \in 1..Len(s) : t[k] = s[k]
      /\ t[n] = e
  BY AppendProperties, LenProperties
<1> HIDE DEF t
<1>2. Once(t, e)
  BY <1>1 DEF Once
<1>3. RemoveFirst(t, e) = RemoveAt(t, n)
  BY <1>1, <1>2, RemoveFirstIsRemoveAt
<1>4. /\ RemoveAt(t, n) \in Seq(S) /\ Len(RemoveAt(t, n)) = Len(s)
      /\ \A k \in 1..Len(s) : RemoveAt(t, n)[k] = IF k < n THEN t[k] ELSE t[k + 1]
  <2>1. n \in 1..Len(t) /\ Len(t) = Len(s) + 1 /\ Len(s) \in Nat /\ t \in Seq(S)
    BY <1>1
  <2> HIDE DEF n
  <2> QED BY <2>1, RemoveAtOfLength
<1>5. RemoveAt(t, n) = s
  <2>1. \A k \in 1..Len(s) : RemoveAt(t, n)[k] = s[k]
    BY <1>1, <1>4
  <2> QED BY <1>1, <1>4, <2>1, SeqEqual
<1> QED BY <1>2, <1>3, <1>5 DEF t

LEMMA RemoveFirstOfHead ==
  ASSUME NEW S, NEW s \in Seq(S), NEW e, Once(s, e), s # <<>>
  PROVE  /\ Once(Tail(s), e)
         /\ Head(s) = e => /\ RemoveFirst(s, e) = Tail(s)
                           /\ \A k \in 1..Len(Tail(s)) : Tail(s)[k] # e
         /\ Head(s) # e => RemoveFirst(s, e) = <<Head(s)>> \o RemoveFirst(Tail(s), e)
<1>1. /\ Head(s) = s[1] /\ Head(s) \in S /\ Tail(s) \in Seq(S)
      /\ Len(Tail(s)) = Len(s) - 1 /\ Len(s) \in Nat \ {0}
      /\ \A k \in 1..Len(s) - 1 : Tail(s)[k] = s[k + 1]
  BY HeadTailProperties, EmptySeq
<1>2. Once(Tail(s), e)
  BY <1>1 DEF Once
<1>3. CASE Head(s) = e
  <2>1. RemoveFirst(s, e) = RemoveAt(s, 1)
    BY <1>1, <1>3, RemoveFirstIsRemoveAt
  <2>2. /\ RemoveAt(s, 1) \in Seq(S) /\ Len(RemoveAt(s, 1)) = Len(s) - 1
        /\ \A k \in 1..Len(s) - 1 : RemoveAt(s, 1)[k] = IF k < 1 THEN s[k] ELSE s[k + 1]
    <3>1. 1 \in 1..Len(s)
      BY <1>1
    <3> QED BY <3>1, RemoveAtProperties
  <2>3. RemoveAt(s, 1) = Tail(s)
    <3>1. \A k \in 1..Len(s) - 1 : RemoveAt(s, 1)[k] = Tail(s)[k]
      BY <1>1, <2>2
    <3> QED BY <1>1, <2>2, <3>1, SeqEqual
  <2>4. \A k \in 1..Len(Tail(s)) : Tail(s)[k] # e
    BY <1>1, <1>3 DEF Once
  <2> QED BY <1>2, <1>3, <2>1, <2>3, <2>4
<1>4. CASE Head(s) # e
  <2>1. CASE \A k \in 1..Len(s) : s[k] # e
    <3>1. \A k \in 1..Len(Tail(s)) : Tail(s)[k] # e
      BY <1>1, <2>1
    <3>2. s = <<Head(s)>> \o Tail(s)
      <4> DEFINE one == <<Head(s)>>
      <4>1. one \in Seq(S) /\ Len(one) = 1 /\ one[1] = s[1]
        BY <1>1
      <4> HIDE DEF one
      <4>2. /\ one \o Tail(s) \in Seq(S) /\ Len(one \o Tail(s)) = Len(s)
            /\ \A k \in 1..Len(s) : (one \o Tail(s))[k] =
                 IF k <= 1 THEN one[k] ELSE Tail(s)[k - 1]
        <5>1. Len(Tail(s)) + 1 = Len(s) /\ Len(s) \in Nat /\ Tail(s) \in Seq(S)
          BY <1>1, <4>1
        <5> QED BY <4>1, <5>1, ConsProperties, SMTT(30)
      <4>3. \A k \in 1..Len(s) : s[k] = (one \o Tail(s))[k]
        BY <1>1, <4>1, <4>2
      <4>4. s = one \o Tail(s)
        BY <4>2, <4>3, SeqEqual
      <4> QED BY <4>4 DEF one
    <3> QED BY <1>2, <1>4, <2>1, <3>1, <3>2, RemoveFirstAbsent
  <2>2. ASSUME NEW i \in 1..Len(s), s[i] = e
        PROVE  RemoveFirst(s, e) = <<Head(s)>> \o RemoveFirst(Tail(s), e)
    <3> DEFINE t == Tail(s)
               j == i - 1
               u == RemoveAt(t, j)
    <3>1. j \in 1..Len(t) /\ t[j] = e /\ i \in Nat /\ i > 1 /\ i <= Len(s)
      BY <1>1, <1>4, <2>2
    <3>2. RemoveFirst(s, e) = RemoveAt(s, i) /\ RemoveFirst(t, e) = u
      BY <1>1, <1>2, <2>2, <3>1, RemoveFirstIsRemoveAt
    <3>3. /\ RemoveAt(s, i) \in Seq(S) /\ Len(RemoveAt(s, i)) = Len(s) - 1
          /\ \A k \in 1..Len(s) - 1 : RemoveAt(s, i)[k] = IF k < i THEN s[k] ELSE s[k + 1]
      BY RemoveAtProperties
    <3>4. /\ u \in Seq(S) /\ Len(u) = Len(s) - 2
          /\ \A k \in 1..Len(s) - 2 : u[k] = IF k < j THEN t[k] ELSE t[k + 1]
      <4>1. Len(t) = (Len(s) - 2) + 1 /\ Len(s) - 2 \in Nat /\ t \in Seq(S)
        BY <1>1, <3>1
      <4> HIDE DEF t, j
      <4>2. j \in 1..Len(t)
        BY <3>1
      <4> QED BY <4>1, <4>2, RemoveAtOfLength, Zenon
    <3> HIDE DEF u
    <3> DEFINE one == <<Head(s)>>
               v == one \o u
    <3>5. one \in Seq(S) /\ Len(one) = 1 /\ one[1] = s[1]
      BY <1>1
    <3>6. /\ v \in Seq(S) /\ Len(v) = Len(s) - 1
          /\ \A k \in 1..Len(s) - 1 : v[k] = IF k <= 1 THEN one[k] ELSE u[k - 1]
      <4> HIDE DEF one
      <4>1. Len(u) + 1 = Len(s) - 1 /\ Len(s) - 1 \in Nat
        BY <1>1, <3>1, <3>4, <3>5
      <4>2. one \in Seq(S) /\ Len(one) = 1 /\ u \in Seq(S)
        BY <3>4, <3>5
      <4> HIDE DEF v
      <4>3. /\ one \o u \in Seq(S) /\ Len(one \o u) = Len(s) - 1
            /\ \A k \in 1..Len(s) - 1 : (one \o u)[k] = IF k <= 1 THEN one[k] ELSE u[k - 1]
        <5> DEFINE m == Len(s) - 1
        <5>1. Len(u) + 1 = m /\ m \in Nat
          BY <4>1
        <5> HIDE DEF m
        <5>2. /\ one \o u \in Seq(S) /\ Len(one \o u) = m
              /\ \A k \in 1..m : (one \o u)[k] = IF k <= 1 THEN one[k] ELSE u[k - 1]
          BY <4>2, <5>1, ConsProperties, SMTT(30)
        <5> QED BY <5>2 DEF m
      <4> QED BY <4>3 DEF v
    <3> HIDE DEF v
    <3>7. \A k \in 1..Len(s) - 1 : RemoveAt(s, i)[k] = v[k]
      <4> SUFFICES ASSUME NEW k \in 1..Len(s) - 1 PROVE RemoveAt(s, i)[k] = v[k]
        OBVIOUS
      <4>1. CASE k = 1
        BY <1>1, <3>1, <3>3, <3>5, <3>6, <4>1
      <4>2. CASE k > 1
        BY <1>1, <3>1, <3>3, <3>4, <3>6, <4>2
      <4> QED BY <1>1, <4>1, <4>2
    <3>8. RemoveAt(s, i) = v
      BY <1>1, <3>3, <3>6, <3>7, SeqEqual
    <3> QED BY <3>2, <3>8 DEF v, one
  <2> QED BY <1>2, <1>4, <2>1, <2>2
<1> QED BY <1>3, <1>4

----------------------------------------
(* The invariant *)

Marked == \E i \in 1..Len(jobs) : jobs[i] = Stop
Busy == IF worker.at = "saving" THEN <<worker.job>> ELSE <<>>
Closing == main \in {"waiting", "flush", "prune", "exited"}

Order ==
    /\ Once(jobs, Stop)
    /\ Marked \/ worker.at = "ended" => Closing
    /\ accepted = (ran \o Busy) \o Queued

Drained ==
    /\ waited /\ main \notin {"serving", "joining"} => gen = "ended"
    /\ waited /\ Closing => IF worker.at = "ended" THEN jobs = <<>>
                            ELSE jobs # <<>> /\ jobs[Len(jobs)] = Stop
    /\ waited /\ Closing /\ main # "waiting" => worker.at = "ended"

QParts == Order /\ Drained /\ SnapshotsBounded
QInv == IInv /\ QParts

\* What the steps above the queue leave of it.
queueVars == <<policy, jobs, worker, accepted, ran>>

LEMMA Types ==
  ASSUME IInv
  PROVE  /\ jobs \in Seq(Job \cup {Stop}) /\ Len(jobs) \in Nat
         /\ accepted \in Seq(Job \cup {Stop}) /\ ran \in Seq(Job \cup {Stop})
         /\ Busy \in Seq(Job \cup {Stop})
         /\ worker \in [at : {"waiting", "saving", "ended"}, job : Job \cup {None}]
         /\ worker.at = "saving" => worker.job \in Job
         /\ policy.backlog \in Nat
<1>1. accepted \in Seq(Job) /\ ran \in Seq(Job) /\ jobs \in Seq(Job \cup {Stop})
  BY DEF IInv, Typed, TypeOK
<1>2. accepted \in Seq(Job \cup {Stop}) /\ ran \in Seq(Job \cup {Stop})
  BY <1>1, SeqMonotonic
<1>3. /\ worker \in [at : {"waiting", "saving", "ended"}, job : Job \cup {None}]
      /\ worker.at = "saving" => worker.job \in Job
  BY DEF IInv, Typed, TypeOK
<1>4. Busy \in Seq(Job \cup {Stop})
  <2>1. CASE worker.at = "saving"
    <3>1. worker.job \in Job \cup {Stop}
      BY <1>3, <2>1
    <3> QED BY <2>1, <3>1 DEF Busy
  <2>2. CASE worker.at # "saving"
    BY <2>2, EmptySeq DEF Busy
  <2> QED BY <2>1, <2>2
<1>5. policy.backlog \in Nat
  BY PoliciesAssumption DEF IInv, Typed, TypeOK, Policy
<1>6. Len(jobs) \in Nat
  BY <1>1, LenProperties
<1> QED BY <1>1, <1>2, <1>3, <1>4, <1>5, <1>6

LEMMA QueuedTyped ==
  ASSUME IInv, Once(jobs, Stop)
  PROVE  /\ Queued \in Seq(Job \cup {Stop})
         /\ Len(Queued) \in Nat /\ Len(Queued) <= Len(jobs)
<1>1. jobs \in Seq(Job \cup {Stop}) /\ Len(jobs) \in Nat
  BY Types
<1>2. /\ RemoveFirst(jobs, Stop) \in Seq(Job \cup {Stop})
      /\ Len(RemoveFirst(jobs, Stop)) \in {Len(jobs), Len(jobs) - 1}
  BY <1>1, RemoveFirstTyped
<1>3. Len(RemoveFirst(jobs, Stop)) \in Nat
  BY <1>2, LenProperties
<1> QED BY <1>1, <1>2, <1>3 DEF Queued

LEMMA HeldTyped == ASSUME NEW job PROVE Held(job) \in {0, 1}
BY DEF Held

LEMMA InitQueue == Init => QInv
<1> SUFFICES ASSUME Init PROVE QParts
  BY InitInv DEF QInv
<1>1. Len(<<>>) = 0
  OBVIOUS
<1>2. jobs = <<>> /\ accepted = <<>> /\ ran = <<>> /\ worker = [at |-> "waiting", job |-> None]
      /\ main = "serving" /\ gen = "idle"
  BY DEF Init
<1>3. Queued = <<>> /\ Once(jobs, Stop) /\ ~Marked
  <2>1. \A i \in 1..Len(jobs) : FALSE
    BY <1>1, <1>2
  <2> QED BY <1>2, <2>1, RemoveFirstAbsent DEF Queued, Marked
<1>4. Order
  <2>1. Busy = <<>>
    BY <1>2 DEF Busy
  <2>2. (<<>> \o <<>>) \o <<>> = <<>>
    OBVIOUS
  <2> QED BY <1>2, <1>3, <2>1, <2>2 DEF Order
<1>5. Drained
  BY <1>2 DEF Drained, Closing
<1>6. SnapshotsBounded
  <2>1. policy.backlog \in Nat
    BY PoliciesAssumption DEF Init, Policy
  <2>2. Retained = 0
    BY <1>1, <1>2, <1>3 DEF Retained, Held
  <2> QED BY <1>2, <2>1, <2>2 DEF SnapshotsBounded
<1> QED BY <1>4, <1>5, <1>6 DEF QParts

----------------------------------------
(* The steps *)

\* A step that leaves the queue, its worker and what has been waited for alone.
LEMMA QuietKeeps ==
  ASSUME QInv, UNCHANGED <<queueVars, waited>>,
         gen' = "queue" => gen = "queue", gen = "ended" => gen' = "ended",
         \/ main' = main
         \/ main = "serving" /\ main' = "joining"
         \/ main = "flush" /\ main' = "prune"
         \/ main = "prune" /\ main' = "exited"
  PROVE  QParts'
<1>1. UNCHANGED <<policy, jobs, worker, accepted, ran, waited>>
  BY DEF queueVars
<1>2. Order' /\ Queued' = Queued
  BY <1>1 DEF QInv, QParts, Order, Marked, Busy, Queued, Closing
<1>3. Drained'
  BY <1>1 DEF QInv, QParts, Drained, Closing
<1>4. SnapshotsBounded'
  <2>1. Len(Queued) \in Nat /\ Held(worker.job) \in {0, 1} /\ policy.backlog \in Nat
    BY QueuedTyped, HeldTyped, Types DEF QInv, QParts, Order
  <2>2. Retained' = Len(Queued) + Held(worker.job) + (IF gen' = "queue" THEN 1 ELSE 0)
    BY <1>1, <1>2 DEF Retained, Held
  <2>3. Retained = Len(Queued) + Held(worker.job) + (IF gen = "queue" THEN 1 ELSE 0)
    BY DEF Retained
  <2>4. BacklogFull' = BacklogFull
    BY <1>1 DEF BacklogFull
  <2> QED BY <1>1, <2>1, <2>2, <2>3, <2>4 DEF QInv, QParts, SnapshotsBounded
<1> QED BY <1>2, <1>3, <1>4 DEF QParts

LEMMA EnqueueKeeps ==
  ASSUME QInv, NEW label \in {"continued", "delta"}, Enqueue(label),
         UNCHANGED <<policy, taken, worker, ran, main, waited>>,
         gen \in {"offer", "queue"}, gen' \in {"materialise", "insert"}
  PROVE  QParts'
<1> DEFINE job == [label |-> label, request |-> taken]
           J == Job \cup {Stop}
<1>1. job \in Job /\ job \in J /\ job # Stop
  <2>1. taken \in Nat
    BY DEF QInv, IInv, Typed, TypeOK
  <2> QED BY <2>1, MarksAssumption DEF Job
<1>2. /\ jobs \in Seq(J) /\ Len(jobs) \in Nat /\ accepted \in Seq(J) /\ ran \in Seq(J)
      /\ Busy \in Seq(J) /\ policy.backlog \in Nat
  BY Types DEF QInv
<1>3. Queued \in Seq(J) /\ Len(Queued) \in Nat /\ Len(Queued) <= Len(jobs)
  BY QueuedTyped DEF QInv, QParts, Order
<1>4. Busy' = Busy /\ (Closing' <=> Closing)
  BY DEF Busy, Closing
<1>5. CASE BacklogFull
  <2>1. UNCHANGED <<jobs, accepted>>
    BY <1>5 DEF Enqueue
  <2>2. Order' /\ Queued' = Queued
    BY <1>4, <2>1 DEF QInv, QParts, Order, Marked, Queued
  <2>3. Drained'
    BY <1>4, <2>1 DEF QInv, QParts, Drained, Closing
  <2>4. Held(worker.job) \in {0, 1} /\ Held(worker.job)' = Held(worker.job)
    BY HeldTyped DEF Held
  <2>5. SnapshotsBounded'
    BY <1>2, <1>3, <2>2, <2>4 DEF QInv, QParts, SnapshotsBounded, Retained
  <2> QED BY <2>2, <2>3, <2>5 DEF QParts
<1>6. CASE ~BacklogFull
  <2>1. jobs' = Append(jobs, job) /\ accepted' = Append(accepted, job)
    BY <1>6 DEF Enqueue
  <2> HIDE DEF job, J
  <2>2. Queued' = Append(Queued, job) /\ Once(jobs', Stop)
    <3>1. Once(jobs, Stop)
      BY DEF QInv, QParts, Order
    <3> QED BY <1>1, <1>2, <2>1, <3>1, RemoveFirstOfAppend DEF Queued
  <2>3. Len(jobs') = Len(jobs) + 1 /\ jobs'[Len(jobs) + 1] = job
        /\ \A i \in 1..Len(jobs) : jobs'[i] = jobs[i]
    BY <1>1, <1>2, <2>1, AppendProperties
  <2>4. Marked' => Marked
    BY <1>1, <1>2, <2>3 DEF Marked
  <2>5. accepted' = (ran' \o Busy') \o Queued'
    <3> DEFINE x == ran \o Busy
    <3>1. x \in Seq(J)
      BY <1>2, ConcatProperties
    <3>2. accepted = x \o Queued
      BY DEF QInv, QParts, Order
    <3> HIDE DEF x
    <3>3. Append(x \o Queued, job) = x \o Append(Queued, job)
      BY <1>1, <1>3, <3>1
    <3> QED BY <1>4, <2>1, <2>2, <3>2, <3>3 DEF x
  <2>6. Order'
    BY <1>4, <2>2, <2>4, <2>5 DEF QInv, QParts, Order
  <2>7. Drained'
    BY <1>4 DEF QInv, QParts, Drained, Closing
  <2>8. SnapshotsBounded'
    <3>1. Len(Queued') = Len(Queued) + 1 /\ Len(jobs) < policy.backlog
      BY <1>1, <1>2, <1>3, <1>6, <2>2, AppendProperties DEF BacklogFull
    <3>2. Held(worker.job) \in {0, 1} /\ Held(worker.job)' = Held(worker.job)
      BY HeldTyped DEF Held
    <3>3. Retained' = Len(Queued) + 1 + Held(worker.job)
      BY <1>3, <3>1, <3>2 DEF Retained
    <3> QED BY <1>2, <1>3, <3>1, <3>2, <3>3 DEF SnapshotsBounded
  <2> QED BY <2>6, <2>7, <2>8 DEF QParts
<1> QED BY <1>5, <1>6

LEMMA MaterialiseKeeps == ASSUME QInv, Materialise PROVE QParts'
<1>1. UNCHANGED <<policy, jobs, worker, accepted, ran, main, waited>>
      /\ gen = "materialise" /\ gen' = IF BacklogFull THEN "insert" ELSE "queue"
  BY DEF Materialise, shutdownVars
<1>2. Order' /\ Queued' = Queued
  BY <1>1 DEF QInv, QParts, Order, Marked, Busy, Queued, Closing
<1>3. Drained'
  BY <1>1 DEF QInv, QParts, Drained, Closing
<1>4. SnapshotsBounded'
  <2>1. /\ Len(Queued) \in Nat /\ Len(Queued) <= Len(jobs) /\ Len(jobs) \in Nat
        /\ Held(worker.job) \in {0, 1} /\ policy.backlog \in Nat
    BY QueuedTyped, HeldTyped, Types DEF QInv, QParts, Order
  <2>2. Retained' = Len(Queued) + Held(worker.job) + (IF gen' = "queue" THEN 1 ELSE 0)
    BY <1>1, <1>2 DEF Retained, Held
  <2>3. Retained = Len(Queued) + Held(worker.job)
    BY <1>1, <2>1 DEF Retained
  <2>4. BacklogFull' = BacklogFull /\ (~BacklogFull => Len(jobs) < policy.backlog)
    BY <1>1, <2>1 DEF BacklogFull
  <2> QED BY <1>1, <2>1, <2>2, <2>3, <2>4 DEF QInv, QParts, SnapshotsBounded
<1> QED BY <1>2, <1>3, <1>4 DEF QParts

LEMMA GetJobKeeps == ASSUME QInv, GetJob PROVE QParts'
<1> DEFINE J == Job \cup {Stop}
<1>1. UNCHANGED <<policy, gen, accepted, ran, main, waited>>
      /\ worker.at = "waiting" /\ jobs # <<>> /\ jobs' = Tail(jobs)
      /\ worker' = IF Head(jobs) = Stop THEN [at |-> "ended", job |-> None]
                   ELSE [at |-> "saving", job |-> Head(jobs)]
  BY DEF GetJob, shutdownVars
<1>2. /\ jobs \in Seq(J) /\ Len(jobs) \in Nat /\ ran \in Seq(J) /\ policy.backlog \in Nat
  BY Types DEF QInv
<1>3. /\ Head(jobs) = jobs[1] /\ Head(jobs) \in J /\ jobs' \in Seq(J)
      /\ Len(jobs) >= 1 /\ Len(jobs') = Len(jobs) - 1
      /\ \A i \in 1..Len(jobs) - 1 : jobs'[i] = jobs[i + 1]
  BY <1>1, <1>2, HeadTailProperties, EmptySeq
<1>4. Once(jobs, Stop)
  BY DEF QInv, QParts, Order
<1> HIDE DEF J
<1>5. Once(jobs', Stop)
  BY <1>1, <1>2, <1>4, RemoveFirstOfHead
<1>6. Marked' => Marked
  BY <1>2, <1>3 DEF Marked
<1>7. /\ Queued \in Seq(J) /\ Len(Queued) \in Nat /\ Len(Queued) <= Len(jobs)
  BY <1>4, QueuedTyped DEF QInv, J
<1>8. Queued' \in Seq(J) /\ Len(Queued') \in Nat
  BY <1>3, <1>5, RemoveFirstTyped, LenProperties DEF Queued
<1>9. Held(worker.job) \in {0, 1}
  BY HeldTyped
<1>10. CASE Head(jobs) = Stop
  <2>1. Queued = jobs' /\ \A i \in 1..Len(jobs') : jobs'[i] # Stop
    BY <1>1, <1>2, <1>4, <1>10, RemoveFirstOfHead DEF Queued
  <2>2. Queued' = Queued /\ ~Marked'
    BY <2>1, RemoveFirstAbsent DEF Queued, Marked
  <2>3. Busy = <<>> /\ Busy' = <<>>
    BY <1>1, <1>10 DEF Busy
  <2>4. Closing /\ Closing'
    <3>1. Marked
      BY <1>2, <1>3, <1>10 DEF Marked
    <3> QED BY <1>1, <3>1 DEF QInv, QParts, Order, Closing
  <2>5. Order'
    BY <1>1, <1>5, <2>2, <2>3, <2>4 DEF QInv, QParts, Order
  <2>6. waited => jobs' = <<>>
    <3> SUFFICES ASSUME waited PROVE jobs' = <<>>
      OBVIOUS
    <3>1. jobs[Len(jobs)] = Stop
      BY <1>1, <2>4 DEF QInv, QParts, Drained
    <3>2. Len(jobs) = 1
      BY <1>2, <1>3, <1>4, <1>10, <3>1 DEF Once
    <3> QED BY <1>3, <3>2
  <2>7. Drained'
    BY <1>1, <1>10, <2>4, <2>6 DEF QInv, QParts, Drained, Closing
  <2>8. SnapshotsBounded'
    <3>1. Held(worker'.job) = 0
      BY <1>1, <1>10 DEF Held
    <3>2. Retained' = Len(Queued) + 0 + (IF gen = "queue" THEN 1 ELSE 0)
      BY <1>1, <2>2, <3>1 DEF Retained
    <3>3. Retained = Len(Queued) + Held(worker.job) + (IF gen = "queue" THEN 1 ELSE 0)
      BY DEF Retained
    <3>4. main \notin {"serving", "joining", "stopping"}
      BY <2>4 DEF Closing
    <3> QED BY <1>1, <1>2, <1>7, <1>9, <3>2, <3>3, <3>4
            DEF QInv, QParts, SnapshotsBounded
  <2> QED BY <2>5, <2>7, <2>8 DEF QParts
<1>11. CASE Head(jobs) # Stop
  <2> DEFINE h == Head(jobs)
  <2>1. h \in J /\ worker' = [at |-> "saving", job |-> h]
    BY <1>1, <1>3, <1>11
  <2> HIDE DEF h
  <2>2. Queued = <<h>> \o Queued'
    BY <1>1, <1>2, <1>4, <1>11, RemoveFirstOfHead DEF Queued, h
  <2>3. Busy = <<>> /\ Busy' = <<h>>
    BY <1>1, <2>1 DEF Busy
  <2>4. <<h>> \in Seq(J) /\ Len(<<h>>) = 1
    BY <2>1
  <2>5. accepted' = (ran' \o Busy') \o Queued'
    <3>1. accepted = (ran \o <<>>) \o (<<h>> \o Queued')
      BY <2>2, <2>3 DEF QInv, QParts, Order
    <3>2. ran \o <<>> = ran
      BY <1>2, ConcatEmptySeq
    <3>3. ran \o (<<h>> \o Queued') = (ran \o <<h>>) \o Queued'
      BY <1>2, <1>8, <2>4, ConcatAssociative
    <3> QED BY <1>1, <2>3, <3>1, <3>2, <3>3
  <2>6. Order'
    BY <1>1, <1>5, <1>6, <2>1, <2>5 DEF QInv, QParts, Order, Closing
  <2>7. Drained'
    <3>1. ASSUME waited, Closing PROVE jobs' # <<>> /\ jobs'[Len(jobs')] = Stop
      <4>1. jobs[Len(jobs)] = Stop
        BY <1>1, <3>1 DEF QInv, QParts, Drained
      <4>2. Len(jobs) > 1
        BY <1>2, <1>3, <1>11, <4>1
      <4>3. Len(jobs') # 0 /\ jobs'[Len(jobs')] = Stop
        BY <1>2, <1>3, <4>1, <4>2
      <4> QED BY <4>3, EmptySeq
    <3>2. waited /\ Closing => main = "waiting"
      BY <1>1 DEF QInv, QParts, Drained
    <3> QED BY <1>1, <2>1, <3>1, <3>2 DEF QInv, QParts, Drained, Closing
  <2>8. SnapshotsBounded'
    <3>1. Held(worker'.job) \in {0, 1}
      BY HeldTyped
    <3>2. Len(Queued) = 1 + Len(Queued')
      BY <1>8, <2>2, <2>4, ConcatProperties
    <3>3. Retained' = Len(Queued') + Held(worker'.job) + (IF gen = "queue" THEN 1 ELSE 0)
      BY <1>1 DEF Retained
    <3>4. Retained = Len(Queued) + Held(worker.job) + (IF gen = "queue" THEN 1 ELSE 0)
      BY DEF Retained
    <3>5. BacklogFull' => BacklogFull
      BY <1>1, <1>2, <1>3 DEF BacklogFull
    <3> QED BY <1>1, <1>2, <1>7, <1>8, <1>9, <3>1, <3>2, <3>3, <3>4, <3>5
            DEF QInv, QParts, SnapshotsBounded
  <2> QED BY <2>6, <2>7, <2>8 DEF QParts
<1> QED BY <1>10, <1>11

LEMMA SaveJobKeeps == ASSUME QInv, SaveJob PROVE QParts'
<1>1. UNCHANGED <<policy, gen, jobs, accepted, main, waited>>
      /\ worker.at = "saving" /\ worker' = [worker EXCEPT !.at = "waiting"]
      /\ ran' = Append(ran, worker.job)
  BY DEF SaveJob, shutdownVars
<1>2. /\ worker \in [at : {"waiting", "saving", "ended"}, job : Job \cup {None}]
      /\ worker.job \in Job \cup {Stop} /\ ran \in Seq(Job \cup {Stop})
  BY <1>1, Types DEF QInv
<1>3. worker'.at = "waiting" /\ worker'.job = worker.job
  BY <1>1, <1>2
<1>4. Queued' = Queued /\ (Marked' <=> Marked) /\ (Closing' <=> Closing)
  BY <1>1 DEF Queued, Marked, Closing
<1>5. Order'
  <2>1. Busy = <<worker.job>> /\ Busy' = <<>>
    BY <1>1, <1>3 DEF Busy
  <2>2. ran' = ran \o <<worker.job>> /\ ran' \in Seq(Job \cup {Stop})
    <3> DEFINE job == worker.job
    <3>1. job \in Job \cup {Stop}
      BY <1>2
    <3> HIDE DEF job
    <3>2. Append(ran, job) = ran \o <<job>> /\ Append(ran, job) \in Seq(Job \cup {Stop})
      BY <1>2, <3>1, AppendIsConcat, AppendProperties
    <3> QED BY <1>1, <3>2 DEF job
  <2>3. ran' \o <<>> = ran'
    BY <2>2, ConcatEmptySeq
  <2> QED BY <1>1, <1>3, <1>4, <2>1, <2>2, <2>3 DEF QInv, QParts, Order
<1>6. Drained'
  BY <1>1, <1>3, <1>4 DEF QInv, QParts, Drained, Closing
<1>7. SnapshotsBounded'
  <2>1. Retained' = Retained
    BY <1>1, <1>3, <1>4 DEF Retained
  <2>2. BacklogFull' = BacklogFull
    BY <1>1 DEF BacklogFull
  <2> QED BY <1>1, <2>1, <2>2 DEF QInv, QParts, SnapshotsBounded
<1> QED BY <1>5, <1>6, <1>7 DEF QParts

LEMMA JoinsKeep == ASSUME QInv, JoinGeneration \/ JoinWorker PROVE QParts'
<1>1. UNCHANGED <<policy, gen, jobs, worker, accepted, ran>>
  BY DEF JoinGeneration, JoinWorker, otherVars
<1>2. Queued' = Queued /\ Busy' = Busy /\ (Marked' <=> Marked)
  BY <1>1 DEF Queued, Busy, Marked
<1>3. \/ main = "joining" /\ main' = "stopping" /\ waited' = (gen = "ended")
      \/ main = "waiting" /\ main' = "flush" /\ waited' = (waited /\ worker.at = "ended")
  BY DEF JoinGeneration, JoinWorker
<1>4. Order'
  BY <1>1, <1>2, <1>3 DEF QInv, QParts, Order, Closing
<1>5. Drained'
  BY <1>1, <1>3 DEF QInv, QParts, Drained, Closing
<1>6. SnapshotsBounded'
  <2>1. Retained' = Retained
    BY <1>1, <1>2 DEF Retained
  <2>2. BacklogFull' = BacklogFull
    BY <1>1 DEF BacklogFull
  <2> QED BY <1>1, <1>3, <2>1, <2>2 DEF QInv, QParts, SnapshotsBounded
<1> QED BY <1>4, <1>5, <1>6 DEF QParts

LEMMA StopWorkerKeeps == ASSUME QInv, StopWorker PROVE QParts'
<1>1. UNCHANGED <<policy, gen, worker, accepted, ran, waited>>
      /\ main = "stopping" /\ main' = "waiting" /\ jobs' = Append(jobs, Stop)
  BY DEF StopWorker, otherVars
<1>2. jobs \in Seq(Job \cup {Stop}) /\ Stop \in Job \cup {Stop}
  BY Types DEF QInv
<1>3. ~Marked /\ worker.at # "ended"
  BY <1>1 DEF QInv, QParts, Order, Closing
<1>4. Once(jobs, Stop) /\ Queued = jobs
  BY <1>3, RemoveFirstAbsent DEF Marked, Queued
<1>5. Once(jobs', Stop) /\ Queued' = Queued
  BY <1>1, <1>2, <1>3, <1>4, RemoveFirstOfAppended DEF Marked, Queued
<1>6. jobs' # <<>> /\ jobs'[Len(jobs')] = Stop
  BY <1>1, <1>2, AppendProperties
<1>7. Order'
  BY <1>1, <1>5 DEF QInv, QParts, Order, Busy, Closing
<1>8. Drained'
  BY <1>1, <1>3, <1>6 DEF QInv, QParts, Drained, Closing
<1>9. SnapshotsBounded'
  <2>1. Retained' = Retained
    BY <1>1, <1>5 DEF Retained
  <2> QED BY <1>1, <2>1 DEF QInv, QParts, SnapshotsBounded
<1> QED BY <1>7, <1>8, <1>9 DEF QParts

LEMMA NextKeepsQueue == QInv /\ [Next]_vars => QInv'
<1> SUFFICES ASSUME QInv, [Next]_vars PROVE QInv'
  OBVIOUS
<1>1. SUFFICES QParts'
  BY NextKeepsInv DEF QInv
<1>2. ASSUME UNCHANGED <<queueVars, waited, main>>,
             gen' # "queue" \/ gen' = gen, gen # "ended" \/ gen' = gen
      PROVE  QParts'
  BY <1>2, QuietKeeps
<1>3. CASE TakeAny
  <2>1. gen = "idle" /\ gen' = "prefill" /\ UNCHANGED <<queueVars, waited, main>>
    BY <1>3 DEF TakeAny, Take, queueVars, shutdownVars
  <2> QED BY <1>2, <2>1
<1>4. CASE Serve
  <2>1. CASE StartStep \/ ShrinkStep \/ ProcessChunk
    <3>1. gen' = gen /\ UNCHANGED <<queueVars, waited, main>>
      BY <2>1 DEF StartStep, ShrinkStep, ProcessChunk, queueVars, shutdownVars
    <3> QED BY <1>2, <3>1
  <2>2. CASE EndPrefill \/ (\E output \in Outputs : Respond(output))
    <3>1. /\ gen \in {"prefill", "decode"} /\ gen' \in {"decode", "offer", "insert"}
          /\ UNCHANGED <<queueVars, waited, main>>
      BY <2>2 DEF EndPrefill, Respond, queueVars, shutdownVars
    <3> QED BY <1>2, <3>1
  <2>3. CASE OfferContinued \/ OfferDelta
    <3>1. PICK label \in {"continued", "delta"} : Enqueue(label)
      BY <2>3 DEF OfferContinued, OfferDelta
    <3>2. /\ UNCHANGED <<policy, taken, worker, ran, main, waited>>
          /\ gen \in {"offer", "queue"} /\ gen' \in {"materialise", "insert"}
      BY <2>3 DEF OfferContinued, OfferDelta, shutdownVars
    <3> QED BY <3>1, <3>2, EnqueueKeeps
  <2>4. CASE Materialise
    BY <2>4, MaterialiseKeeps
  <2>5. CASE InsertCache \/ EndGeneration
    <3>1. /\ gen \in {"insert", "idle"} /\ gen' \in {"idle", "ended"}
          /\ UNCHANGED <<queueVars, waited, main>>
      BY <2>5 DEF InsertCache, EndGeneration, queueVars, shutdownVars
    <3> QED BY <1>2, <3>1
  <2> QED BY <1>4, <2>1, <2>2, <2>3, <2>4, <2>5 DEF Serve
<1>5. CASE SaveWorker
  BY <1>5, GetJobKeeps, SaveJobKeeps DEF SaveWorker
<1>6. CASE Shutdown
  <2>1. CASE RequestStop \/ EndFlush \/ Exit
             \/ (\E entry \in flush.left, succeeds \in BOOLEAN : FlushEntry(entry, succeeds))
    <3>1. /\ UNCHANGED <<queueVars, waited, gen>>
          /\ \/ main' = main
             \/ main = "serving" /\ main' = "joining"
             \/ main = "flush" /\ main' = "prune"
             \/ main = "prune" /\ main' = "exited"
      BY <2>1 DEF RequestStop, EndFlush, Exit, FlushEntry, queueVars, otherVars
    <3> QED BY <3>1, QuietKeeps
  <2> QED BY <1>6, <2>1, JoinsKeep, StopWorkerKeeps DEF Shutdown
<1>7. CASE UNCHANGED vars
  BY <1>2, <1>7 DEF vars, queueVars
<1> QED BY <1>3, <1>4, <1>5, <1>6, <1>7 DEF Next

----------------------------------------
(* Jobs are run in the order they were accepted, none is lost, and all are   *)
(* done before the flush if neither join ran into its timeout.               *)
THEOREM SavesAreConserved == Spec => []SavesConserved
<1>1. QInv => SavesConserved
  <2> SUFFICES ASSUME QInv PROVE SavesConserved
    OBVIOUS
  <2>1. TypeOK /\ accepted = (ran \o Busy) \o Queued
    BY DEF QInv, QParts, Order, IInv, Typed
  <2>2. ASSUME waited, main \in {"flush", "prune", "exited"}
        PROVE  gen = "ended" /\ worker.at = "ended" /\ ran = accepted
    <3>1. gen = "ended" /\ worker.at = "ended" /\ jobs = <<>>
      BY <2>2 DEF QInv, QParts, Drained, Closing
    <3>2. Queued = <<>> /\ Busy = <<>>
      <4>1. \A i \in 1..Len(jobs) : jobs[i] # Stop
        BY <3>1
      <4> QED BY <3>1, <4>1, RemoveFirstAbsent DEF Queued, Busy
    <3>3. ran \in Seq(Job \cup {Stop})
      BY Types DEF QInv
    <3>4. ran \o <<>> = ran
      BY <3>3, ConcatEmptySeq
    <3> QED BY <2>1, <3>1, <3>2, <3>4
  <2> QED BY <2>1, <2>2 DEF SavesConserved, Busy
<1> QED BY <1>1, InitQueue, NextKeepsQueue, PTL DEF Spec

(* The caches kept for saves are at most one more than the backlog limit,    *)
(* and a delta that was copied is queued.                                    *)
THEOREM SnapshotsAreBounded == Spec => []SnapshotsBounded
<1>1. QInv => SnapshotsBounded
  BY DEF QInv, QParts
<1> QED BY <1>1, InitQueue, NextKeepsQueue, PTL DEF Spec

===============================================================================
