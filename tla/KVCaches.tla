------------------------------- MODULE KVCaches -------------------------------
(***************************************************************************)
(* The key/value caches of mlx_lm/models/cache.py: those of one sequence    *)
(* (KVCache, RotatingKVCache, ChunkedKVCache, ArraysCache) and those of a   *)
(* batch (BatchKVCache, BatchRotatingKVCache, ArraysCache with several      *)
(* rows), with the attention masks they make.                               *)
(*                                                                         *)
(* A cell of a buffer holds the token whose keys and values the code would  *)
(* put there, or Blank: padding, an unused cell, what a pad token leaves.   *)
(* An empty buffer stands for keys = None.  A recurrent state (ArraysCache) *)
(* is the sequence of tokens that went into it.  The quantized caches and   *)
(* the MLA caches keep the indices KVCache and BatchKVCache keep and are    *)
(* modelled by them.  Columns count from 1.                                 *)
(***************************************************************************)
EXTENDS SequencesExt, FiniteSetsExt, Integers

CONSTANTS Step,      \* step: buffers grow by multiples of it
          MaxSize,   \* max_size of the rotating caches
          Keep,      \* keep of a rotating cache of kind "keep"
          ChunkSize  \* chunk_size of the chunked caches

ASSUME SizesAssumption ==
  /\ Step \in Nat \ {0} /\ ChunkSize \in Nat \ {0}
  /\ MaxSize \in Nat /\ MaxSize > 1
  /\ Keep \in Nat /\ Keep < MaxSize

Blank == 0

Blanks(n) == [j \in 1..n |-> Blank]

First(s, n) == SubSeq(s, 1, n)

From(s, n) == SubSeq(s, n + 1, Len(s))

(* mx.roll to the right by k, which may be negative. *)
Roll(s, k) == [j \in DOMAIN s |-> s[((j - 1 - k) % Len(s)) + 1]]

(* s[at : at + len(new)] = new *)
Put(s, at, new) ==
  [j \in DOMAIN s |-> IF j \in at + 1..at + Len(new) THEN new[j - at] ELSE s[j]]

AtMost(a, b) == IF a < b THEN a ELSE b

AtLeast(a, b) == IF a < b THEN b ELSE a

----------------------------------------
(* The caches of one sequence *)

Fresh(kind) ==
  CASE kind = "kv"      -> [kind |-> kind, cells |-> <<>>, offset |-> 0]
    [] kind \in {"rotating", "keep"} ->
         [kind |-> kind, cells |-> <<>>, offset |-> 0, idx |-> 0,
          keep |-> IF kind = "keep" THEN Keep ELSE 0]
    [] kind = "chunked" -> [kind |-> kind, cells |-> <<>>, offset |-> 0, start |-> 0]
    [] kind = "arrays"  -> [kind |-> kind, cells |-> <<>>]

(* Room for n more cells after the first prev. *)
Grown(cells, prev, n) ==
  IF cells # <<>> /\ prev + n <= Len(cells) THEN cells
  ELSE (IF prev % Step # 0 THEN First(cells, prev) ELSE cells)
       \o Blanks(((Step + n - 1) \div Step) * Step)

KVUpdated(c, new) ==
  [c EXCEPT !.cells = Put(Grown(@, c.offset, Len(new)), c.offset, new),
            !.offset = @ + Len(new)]

(* RotatingKVCache._temporal_order *)
InOrder(c) ==
  IF c.idx = Len(c.cells) THEN c.cells
  ELSE IF c.idx < c.offset
  THEN First(c.cells, c.keep) \o From(c.cells, c.idx)
       \o SubSeq(c.cells, c.keep + 1, c.idx)
  ELSE First(c.cells, c.idx)

(* RotatingKVCache._trim *)
WithoutOldest(cells, n, keep) ==
  IF n > 0 THEN First(cells, keep) \o From(cells, n + keep) ELSE cells

(* RotatingKVCache._update_concat *)
RotatingAppended(c, new) ==
  LET old == InOrder(c)
      cells == WithoutOldest(old, Len(old) - MaxSize + 1, c.keep) \o new
  IN  [c EXCEPT !.cells = cells, !.offset = @ + Len(new), !.idx = Len(cells)]

(* RotatingKVCache._update_in_place, of a single token. *)
RotatingOverwritten(c, new) ==
  LET grows == c.cells = <<>>
               \/ (c.offset >= Len(c.cells) /\ Len(c.cells) < MaxSize)
      grown == IF grows THEN c.cells \o Blanks(AtMost(Step, MaxSize - c.offset))
               ELSE c.cells
      long  == Len(grown) > MaxSize
      cells == WithoutOldest(grown, Len(grown) - MaxSize, c.keep)
      end   == IF long THEN MaxSize ELSE IF grows THEN c.offset ELSE c.idx
      at    == IF end = MaxSize THEN c.keep ELSE end
  IN  [c EXCEPT !.cells = Put(cells, at, new), !.offset = @ + 1, !.idx = at + 1]

(* ChunkedKVCache.maybe_trim_front, called before every forward pass. *)
FrontTrimmed(c) ==
  IF Len(c.cells) < ChunkSize THEN c
  ELSE [c EXCEPT !.start = @ + Len(c.cells) - ChunkSize,
                 !.cells = From(@, Len(@) - ChunkSize)]

ChunkedUpdated(c, new) ==
  LET prev == c.offset - c.start
  IN  [c EXCEPT !.cells = Put(Grown(@, prev, Len(new)), prev, new),
                !.offset = @ + Len(new)]

(* The forward pass of one sequence over new tokens. *)
Updated(c, new) ==
  CASE c.kind = "kv" -> KVUpdated(c, new)
    [] c.kind \in {"rotating", "keep"} ->
         IF Len(new) = 1 THEN RotatingOverwritten(c, new) ELSE RotatingAppended(c, new)
    [] c.kind = "chunked" -> ChunkedUpdated(FrontTrimmed(c), new)
    [] c.kind = "arrays"  -> [c EXCEPT !.cells = @ \o new]

Trimmable(c) ==
  CASE c.kind \in {"kv", "chunked"}      -> TRUE
    [] c.kind \in {"rotating", "keep"} -> c.offset < MaxSize
    [] c.kind = "arrays"                 -> FALSE

Trimmed(c, n) ==
  CASE c.kind = "kv" -> [c EXCEPT !.offset = @ - AtMost(@, n)]
    [] c.kind = "chunked" -> [c EXCEPT !.offset = @ - AtMost(@ - c.start, n)]
    [] c.kind \in {"rotating", "keep"} ->
         [c EXCEPT !.offset = @ - AtMost(@, n), !.idx = @ - AtMost(c.offset, n)]

(* The state property: the cells up to the offset. *)
StateOf(c) == IF c.offset < Len(c.cells) THEN First(c.cells, c.offset) ELSE c.cells

(* state and meta_state written to a file and read back by from_state; the  *)
(* setter of ChunkedKVCache takes the offset from the length of the buffer. *)
Reloaded(c) ==
  CASE c.kind \in {"kv", "rotating", "keep"} -> [c EXCEPT !.cells = StateOf(c)]
    [] c.kind = "chunked" -> [c EXCEPT !.cells = StateOf(c), !.offset = Len(StateOf(c))]
    [] c.kind = "arrays"  -> c

(* _new_cache_like: a cache of the same kind with these cells. *)
NewLike(c, cells) ==
  CASE c.kind = "kv" -> [c EXCEPT !.cells = cells, !.offset = Len(cells)]
    [] c.kind \in {"rotating", "keep"} ->
         [c EXCEPT !.cells = cells, !.offset = Len(cells),
                   !.idx = AtMost(Len(cells), MaxSize)]
    [] c.kind = "chunked" ->
         [c EXCEPT !.cells = cells, !.offset = Len(cells), !.start = 0]

(* slice_prompt_cache and concat_prompt_caches, of one cache *)
Sliced(c, from, to) == NewLike(c, SubSeq(StateOf(c), from + 1, to))

Concatenated(c, d) == NewLike(c, StateOf(c) \o StateOf(d))

(* size(), or the offset where there is no size (_cache_sequence_length). *)
KVSize(c) ==
  IF c.kind \in {"rotating", "keep"} THEN AtMost(c.offset, MaxSize) ELSE c.offset

(* What a forward pass fetches and which columns of it the query at place i  *)
(* of the new tokens may attend to: update_and_fetch, and make_mask or its   *)
(* absence; before and after are the cache around the pass, n its length.    *)
Read(before, after, n, i) ==
  CASE before.kind = "kv" ->
         [cells |-> First(after.cells, after.offset),
          width |-> after.offset,
          columns |-> 1..after.offset - n + i]
    [] before.kind \in {"rotating", "keep"} ->
         LET old == AtMost(MaxSize - 1, before.offset)
             cells == IF n = 1 /\ after.offset < MaxSize
                      THEN First(after.cells, after.offset) ELSE after.cells
         IN  IF n = 1 THEN [cells |-> cells, width |-> Len(cells),
                            columns |-> DOMAIN cells]
             ELSE IF old + n > MaxSize
             THEN [cells |-> cells, width |-> old + n,
                   columns |-> AtLeast(1, old + i - MaxSize + 1)..old + i]
             ELSE [cells |-> cells, width |-> Len(cells),
                   columns |-> 1..Len(cells) - n + i]
    [] before.kind = "chunked" ->
         LET q == after.offset - n + i - 1
             width == after.offset - after.start
         IN  [cells |-> First(after.cells, width),
              width |-> width,
              columns |-> {j \in 1..width :
                             /\ after.start + j - 1 <= q
                             /\ (after.start + j - 1) \div ChunkSize = q \div ChunkSize}]

----------------------------------------
(* The caches of a batch: cells[r] is the row r of the buffer. *)

(* cls(...) of merge when no cache has content. *)
EmptyBatch(kind, rows) ==
  CASE kind = "kv" ->
         [kind |-> kind, cells |-> <<>>, offset |-> [r \in 1..rows |-> 0],
          pad |-> [r \in 1..rows |-> 0], idx |-> 0]
    [] kind = "rotating" ->
         [kind |-> kind, cells |-> <<>>, offset |-> [r \in 1..rows |-> 0],
          pad |-> [r \in 1..rows |-> 0], idx |-> 0, length |-> 0,
          rotated |-> FALSE]
    [] kind = "arrays" ->
         [kind |-> kind, cells |-> <<>>, pad |-> [r \in 1..rows |-> 0]]

Width(b) == IF b.cells = <<>> THEN 0 ELSE Len(b.cells[1])

OnRows(cells, Op(_)) == [r \in DOMAIN cells |-> Op(cells[r])]

(* Mutant of Finalized: what is rolled in is not counted as padding. *)
FinalizedHalf(b, right) ==
  [b EXCEPT !.cells = [r \in DOMAIN @ |-> Roll(@[r], right[r])],
            !.offset = [r \in DOMAIN @ |-> @[r] - right[r]]]

(* finalize: the pads at the right end of a row wrap around to its left end. *)
(* BatchKVCache keeps the padding, BatchRotatingKVCache what the offsets     *)
(* would be without it; the roll is the same.                                *)
Finalized(b, right) ==
  [b EXCEPT !.cells = [r \in DOMAIN @ |-> Roll(@[r], right[r])],
            !.offset = [r \in DOMAIN @ |-> @[r] - right[r]],
            !.pad = [r \in DOMAIN @ |-> @[r] + right[r]]]

BatchKVUpdated(b, new) ==
  LET n == Len(new[1])
      old == IF b.cells = <<>> THEN [r \in DOMAIN new |-> <<>>] ELSE b.cells
  IN  [b EXCEPT !.cells = [r \in DOMAIN new |-> Put(Grown(old[r], b.idx, n), b.idx, new[r])],
                !.offset = [r \in DOMAIN @ |-> @[r] + n],
                !.idx = @ + n]

(* BatchRotatingKVCache._temporal_order *)
Unrotated(b) ==
  IF ~b.rotated THEN b
  ELSE [b EXCEPT !.cells = OnRows(@, LAMBDA s : Roll(s, -b.idx)),
                 !.idx = Width(b), !.rotated = FALSE]

(* BatchRotatingKVCache._update_concat, in the first pass after prepare. *)
BatchRotatingAppended(b, new) ==
  LET n == Len(new[1])
      u == Unrotated(b)
      cut == AtLeast(0, u.idx - MaxSize + 1)
      cells == [r \in DOMAIN new |->
                  IF b.cells = <<>> THEN new[r]
                  ELSE From(First(u.cells[r], u.idx), cut) \o new[r]]
  IN  [u EXCEPT !.cells = cells,
                !.pad = [r \in DOMAIN @ |-> IF b.cells = <<>> THEN @[r] ELSE @[r] - cut],
                !.offset = [r \in DOMAIN @ |-> @[r] + n],
                !.length = @ + n,
                !.idx = Len(cells[1])]

(* BatchRotatingKVCache._update_in_place, of one token for every row. *)
BatchRotatingOverwritten(b, new) ==
  LET wide  == Width(b)
      grows == b.cells = <<>> \/ (b.length >= wide /\ wide < MaxSize)
      old   == IF b.cells = <<>> THEN [r \in DOMAIN new |-> <<>>] ELSE b.cells
      grown == IF grows THEN OnRows(old, LAMBDA s : s \o Blanks(AtMost(Step, MaxSize - b.length)))
               ELSE old
      cut   == AtLeast(0, Len(grown[1]) - MaxSize)
      end   == IF cut > 0 THEN MaxSize ELSE IF grows THEN b.length ELSE b.idx
      turns == b.rotated \/ end = MaxSize
      at    == IF end = MaxSize THEN 0 ELSE end
  IN  [b EXCEPT !.cells = [r \in DOMAIN new |-> Put(From(grown[r], cut), at, new[r])],
                !.pad = [r \in DOMAIN @ |-> @[r] - cut - (IF turns THEN 1 ELSE 0)],
                !.offset = [r \in DOMAIN @ |-> @[r] + 1],
                !.length = @ + 1,
                !.idx = at + 1,
                !.rotated = turns]

(* ArraysCache.make_mask: which of the n new tokens of row r go into the     *)
(* recurrent state; lengths is <<>> outside a padded pass.                   *)
StateMask(b, lengths, r, n) ==
  IF b.pad # <<>> THEN {i \in 1..n : i - 1 >= b.pad[r]}
  ELSE IF lengths # <<>> THEN 1..lengths[r]
  ELSE 1..n

(* The pass and, in a padded one, advance and finalize. *)
BatchArraysUpdated(b, new, lengths) ==
  LET n == Len(new[1])
      absorbed(r) == LET places == SetToSortSeq(StateMask(b, lengths, r, n),
                                                LAMBDA i, j : i < j)
                     IN  [k \in DOMAIN places |-> new[r][places[k]]]
      old == IF b.cells = <<>> THEN [r \in DOMAIN new |-> <<>>] ELSE b.cells
  IN  [b EXCEPT !.cells = [r \in DOMAIN new |-> old[r] \o absorbed(r)],
                !.pad = IF lengths # <<>> THEN <<>>
                        ELSE [r \in DOMAIN @ |-> @[r] - n]]

(* The forward pass of a batch; chunks of different lengths are right-padded *)
(* to the longest, with prepare before and finalize after the pass.          *)
Padded(chunks) ==
  LET longest == Max({Len(chunks[r]) : r \in DOMAIN chunks})
  IN  [r \in DOMAIN chunks |-> chunks[r] \o Blanks(longest - Len(chunks[r]))]

RightPadding(chunks) ==
  [r \in DOMAIN chunks |-> Max({Len(chunks[s]) : s \in DOMAIN chunks}) - Len(chunks[r])]

IsPadded(chunks) == \E r \in DOMAIN chunks : RightPadding(chunks)[r] > 0

BatchPassed(b, chunks) ==
  LET new == Padded(chunks)
  IN  CASE b.kind = "kv" -> BatchKVUpdated(b, new)
        [] b.kind = "rotating" -> IF Len(new[1]) = 1 THEN BatchRotatingOverwritten(b, new)
                                  ELSE BatchRotatingAppended(b, new)
        [] b.kind = "arrays" ->
             BatchArraysUpdated(b, new, IF IsPadded(chunks)
                                        THEN [r \in DOMAIN chunks |-> Len(chunks[r])]
                                        ELSE <<>>)

BatchUpdated(b, chunks) ==
  LET passed == BatchPassed(b, chunks)
  IN  IF ~IsPadded(chunks) THEN passed
      ELSE IF b.kind = "arrays" THEN passed
      ELSE Finalized(passed, RightPadding(chunks))

(* Mutant of RotatingColumns: the cell that is overwritten is not discounted. *)
RotatingColumnsAsIs(b, r, n, i) ==
  LET old == AtMost(MaxSize - 1, b.length)
      pad == b.pad[r] - AtLeast(0, b.idx - MaxSize + (IF n > 1 THEN 1 ELSE 0))
      rolled == n = 1 /\ (b.rotated \/ b.idx >= MaxSize)
      shift == IF ~rolled THEN 0 ELSE IF b.idx >= MaxSize THEN 1 ELSE b.idx + 1
      columns == {j \in 0..old + n - 1 :
                    /\ j <= old + i - 1 /\ old + i - 1 < j + MaxSize
                    /\ j >= pad}
  IN  {((j + shift) % (old + n)) + 1 : j \in columns}

(* BatchRotatingKVCache.make_mask *)
RotatingColumns(b, r, n, i) ==
  LET old == AtMost(MaxSize - 1, b.length)
      rolled == n = 1 /\ (b.rotated \/ b.idx >= MaxSize)
      pad == b.pad[r] - AtLeast(0, b.idx - MaxSize + (IF n > 1 THEN 1 ELSE 0))
             - (IF rolled THEN 1 ELSE 0)
      shift == IF ~rolled THEN 0 ELSE IF b.idx >= MaxSize THEN 1 ELSE b.idx + 1
      columns == {j \in 0..old + n - 1 :
                    /\ j <= old + i - 1 /\ old + i - 1 < j + MaxSize
                    /\ j >= pad}
  IN  {((j + shift) % (old + n)) + 1 : j \in columns}

(* Read for the query at place i of row r of a batch. *)
BatchRead(before, passed, r, n, i) ==
  CASE before.kind = "kv" ->
         [cells |-> First(passed.cells[r], passed.idx),
          width |-> before.idx + n,
          columns |-> AtLeast(0, before.pad[r]) + 1..before.idx + i]
    [] before.kind = "rotating" ->
         [cells |-> IF n = 1 /\ passed.length < MaxSize
                    THEN First(passed.cells[r], passed.length) ELSE passed.cells[r],
          width |-> AtMost(MaxSize - 1, before.length) + n,
          columns |-> RotatingColumns(before, r, n, i)]

----------------------------------------
(* Rows in and out of a batch *)

LastOf(s, n) == From(s, Len(s) - n)

(* BatchKVCache.merge, BatchRotatingKVCache.merge, ArraysCache.merge *)
Merged(caches) ==
  LET kind == caches[1].kind
      sizes == [r \in DOMAIN caches |-> KVSize(caches[r])]
      longest == Max(Range(sizes))
      held(r) == IF kind = "kv" THEN First(caches[r].cells, caches[r].offset)
                 ELSE LastOf(InOrder(caches[r]), sizes[r])
      pads == [r \in DOMAIN caches |-> longest - sizes[r]]
      cells == [r \in DOMAIN caches |->
                  IF caches[r].cells = <<>> THEN Blanks(longest)
                  ELSE Blanks(pads[r]) \o held(r)]
      empty == EmptyBatch(kind, Len(caches))
  IN  CASE kind = "arrays" ->
             IF \A r \in DOMAIN caches : caches[r].cells = <<>> THEN empty
             ELSE [empty EXCEPT !.cells = [r \in DOMAIN caches |-> caches[r].cells],
                                !.pad = <<>>]
        [] kind = "kv" ->
             IF longest = 0 THEN empty
             ELSE [empty EXCEPT !.cells = cells, !.pad = pads, !.offset = sizes,
                                !.idx = longest]
        [] kind = "rotating" ->
             IF longest = 0 THEN empty
             ELSE [empty EXCEPT !.cells = cells, !.pad = pads,
                                !.offset = [r \in DOMAIN caches |-> caches[r].offset],
                                !.idx = longest, !.length = longest]

PickRows(s, keep) == [k \in DOMAIN keep |-> s[keep[k]]]

(* filter(batch_indices); BatchKVCache also sheds padding no row needs. *)
Filtered(b, keep) ==
  LET cells == IF b.cells = <<>> THEN <<>> ELSE PickRows(b.cells, keep)
      pads  == IF b.pad = <<>> THEN <<>> ELSE PickRows(b.pad, keep)
      spare == AtLeast(0, Min(Range(pads)))
      b1    == [b EXCEPT !.cells = cells, !.pad = pads]
  IN  CASE b.kind = "arrays" -> b1
        [] b.kind = "rotating" -> [b1 EXCEPT !.offset = PickRows(@, keep)]
        [] b.kind = "kv" ->
             [b EXCEPT !.cells = OnRows(cells, LAMBDA s : From(s, spare)),
                       !.pad = [r \in DOMAIN pads |-> pads[r] - spare],
                       !.offset = PickRows(@, keep),
                       !.idx = @ - spare]

(* The pad() of extend: right-justify at the column end, in wide columns. *)
Justified(b, rows, end, wide) ==
  LET left == end - b.idx
      old == IF b.cells = <<>> THEN [r \in 1..rows |-> <<>>] ELSE b.cells
      right == wide - Width(b) - left
  IN  OnRows(old, LAMBDA s : Blanks(left) \o (IF right < 0 THEN First(s, Len(s) + right)
                                              ELSE s \o Blanks(right)))

Joined(a, b) ==
  LET end == AtLeast(a.idx, b.idx)
      wide == AtLeast(Width(a), Width(b))
      moved(c) == [r \in DOMAIN c.pad |-> c.pad[r] + end - c.idx]
  IN  IF a.cells = <<>> /\ b.cells = <<>>
      THEN [a EXCEPT !.offset = @ \o b.offset, !.pad = @ \o b.pad]
      ELSE [a EXCEPT !.cells = Justified(a, Len(a.offset), end, wide)
                               \o Justified(b, Len(b.offset), end, wide),
                     !.offset = @ \o b.offset,
                     !.pad = moved(a) \o moved(b),
                     !.idx = end]

RotatingJoined(a, b) ==
  LET reorder == a.rotated # b.rotated \/ a.idx # b.idx
      in(c) == IF reorder THEN Unrotated(c) ELSE c
  IN  [Joined(in(a), in(b)) EXCEPT !.length = AtLeast(a.length, b.length)]

(* A missing side of ArraysCache.extend is filled up with zeros. *)
ArraysJoined(a, b) ==
  LET rows(c) == IF c.cells # <<>> THEN Len(c.cells) ELSE Len(c.pad)
      filled(s, n, zero) == IF s = <<>> THEN [r \in 1..n |-> zero] ELSE s
      cat(s, t, zero) == IF s = <<>> /\ t = <<>> THEN <<>>
                         ELSE filled(s, rows(a), zero) \o filled(t, rows(b), zero)
  IN  [a EXCEPT !.cells = cat(@, b.cells, <<>>), !.pad = cat(@, b.pad, 0)]

(* extend(other) *)
Extended(a, b) ==
  CASE a.kind = "kv"       -> Joined(a, b)
    [] a.kind = "rotating" -> RotatingJoined(a, b)
    [] a.kind = "arrays"   -> ArraysJoined(a, b)

(* extract(idx) *)
Extracted(b, r) ==
  CASE b.kind = "kv" ->
         LET cells == SubSeq(b.cells[r], b.pad[r] + 1, b.idx)
         IN  [Fresh("kv") EXCEPT !.cells = cells, !.offset = Len(cells)]
    [] b.kind = "rotating" ->
         LET u == IF b.rotated THEN Roll(b.cells[r], -b.idx) ELSE b.cells[r]
             end == IF b.rotated THEN MaxSize ELSE b.idx
             cells == SubSeq(u, AtLeast(0, b.pad[r]) + 1, end)
         IN  [Fresh("rotating") EXCEPT !.cells = cells, !.offset = b.offset[r],
                                       !.idx = Len(cells)]
    [] b.kind = "arrays" -> [Fresh("arrays") EXCEPT !.cells = b.cells[r]]

=============================================================================
