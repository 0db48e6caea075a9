----------------------------- MODULE PromptCache -----------------------------
(***************************************************************************)
(* The in-memory prompt cache of the server: LRUPromptCache, the PromptTrie *)
(* that finds a reusable prefix and the CacheOrder that picks the victim of *)
(* an eviction (mlx_lm/models/cache.py).                                    *)
(*                                                                          *)
(* Only the generation thread calls insert_cache, fetch_nearest_cache and   *)
(* trim_to, but at shutdown the main thread calls snapshot() without having *)
(* joined it (the join timeout defaults to 0).  The cache holds no lock, so *)
(* an operation is a sequence of steps: one per statement (or loop          *)
(* iteration) that touches the trie or a deque, which the interpreter runs  *)
(* without interruption.                                                    *)
(*                                                                          *)
(* A KV cache is abstracted to what the cache reads of it: its size in      *)
(* bytes and whether it can be trimmed.  Timestamps are left out: they only *)
(* break ties between equally long candidates of the shutdown flush.        *)
(***************************************************************************)
EXTENDS SequencesExt, Integers

CONSTANTS Models,     \* model keys
          Tokens,     \* token ids
          Prompts,    \* the token lists requests and insertions use
          Sizes,      \* nbytes of a KV cache
          MaxSize,    \* max_size: number of entries
          MaxBytes,   \* max_bytes
          Limits,     \* n_bytes arguments of trim_to, already clamped at 0
          FlushEnabled \* checkpoint_shutdown_save_limit > 0

ASSUME PromptsAssumption == Prompts \subseteq Seq(Tokens)
ASSUME SizesAssumption == Sizes \subseteq Nat
ASSUME LimitsAssumption ==
  /\ MaxSize \in Nat /\ MaxBytes \in Nat /\ Limits \subseteq Nat
  /\ FlushEnabled \in BOOLEAN

Types == {"assistant", "user", "system"}
Keys == Models \X Prompts
Entries == [nbytes : Sizes, type : Types, trimmable : BOOLEAN]

VARIABLES
  nodes,     \* PromptTrie._trie: the paths <<model, tokens>> that have a node
  entry,     \* the "__value__" of the nodes that have one
  lru,       \* CacheOrder._lrus, oldest first
  nBytes,    \* _n_bytes
  typeBytes, \* _n_bytes_by_type
  pc,        \* where the running operation is
  call,      \* its arguments and locals
  flush      \* snapshot() as the shutdown flush runs it

cacheVars == <<nodes, entry, lru, nBytes, typeBytes>>
vars == <<nodes, entry, lru, nBytes, typeBytes, pc, call, flush>>

NoKey == <<>>

(* "bytes" is the byte limit the operation shrinks the cache to. *)
NoCall == [key |-> NoKey, prefixes |-> {}, victim |-> NoKey, bytes |-> 0]

Init ==
  /\ nodes = {}
  /\ entry = [k \in {} |-> <<>>]
  /\ lru = [t \in Types |-> <<>>]
  /\ nBytes = 0
  /\ typeBytes = [t \in Types |-> 0]
  /\ pc = "idle"
  /\ call = NoCall
  /\ flush = [todo |-> <<>>, types |-> <<"assistant", "user", "system">>,
              failed |-> FALSE]

----------------------------------------
(* PromptTrie *)

PrefixOf(tokens, n) == SubSeq(tokens, 1, n)
Cut(key, n) == <<key[1], PrefixOf(key[2], n)>>

(* The nodes add() walks through or creates, the root included. *)
Path(key) == {Cut(key, n) : n \in 0..Len(key[2])}

(* n is key's node or a node below it. *)
Below(n, key) == n[1] = key[1] /\ IsPrefix(key[2], n[2])

(* Mutant of Emptied: the loop over the path deletes the last node only. *)
EmptiedLastOnly(key) ==
  {p \in {key} : \A n \in nodes : Below(n, key) => n = key}

(* pop() deletes the emptied nodes from key upwards: those whose subtree *)
(* holds nothing but the path to key.  The root always stays.            *)
Emptied(key) ==
  {p \in Path(key) : /\ p[2] # <<>>
                     /\ \A n \in nodes : Below(n, p) =>
                          n \in Path(key) /\ (n # key => n \notin DOMAIN entry)}

(* pop_prefixes() walks to key and takes the values above it; it leaves the *)
(* nodes in place.                                                          *)
ValuedPrefixes(key) ==
  {Cut(key, n) : n \in 0..(Len(key[2]) - 1)} \cap DOMAIN entry

(* search(): the deepest node on the way to tokens, the longest valued     *)
(* prefix (one of a single token is ignored: last_index > 0) and the       *)
(* shortest valued extensions of that deepest node; dict order picks among *)
(* several.                                                                *)
WalkLength(m, tokens) ==
  Max({0} \cup {n \in 1..Len(tokens) : <<m, PrefixOf(tokens, n)>> \in nodes})

ShorterLength(m, tokens) ==
  Max({0} \cup {n \in 2..Len(tokens) :
                  <<m, PrefixOf(tokens, n)>> \in DOMAIN entry})

LongerKeys(m, tokens) ==
  LET common == <<m, PrefixOf(tokens, WalkLength(m, tokens))>>
      valued == {k \in DOMAIN entry : Below(k, common)}
  IN  {k \in valued : \A other \in valued : Len(k[2]) <= Len(other[2])}

Miss == [from |-> NoKey, cached |-> 0]

(* Mutant of Fetch: the cache of a longer entry is cut without asking *)
(* whether it can be, and one token too short.                        *)
FetchCutShort(m, tokens) ==
  LET short  == ShorterLength(m, tokens)
      common == WalkLength(m, tokens)
  IN  IF <<m, tokens>> \in DOMAIN entry
        THEN {[from |-> <<m, tokens>>, cached |-> Len(tokens)]}
      ELSE IF common > short
        THEN {[from |-> k, cached |-> Min({Len(tokens) - 1, common - 1})] :
                k \in LongerKeys(m, tokens)}
      ELSE IF short > 0
        THEN {[from |-> <<m, PrefixOf(tokens, short)>>, cached |-> short]}
      ELSE {Miss}

(* fetch_nearest_cache(): what it may return for tokens.  "from" is the *)
(* entry copied, "cached" the tokens the returned cache holds after the *)
(* trim; the request still has to process the tokens after them.        *)
Fetch(m, tokens) ==
  LET short  == ShorterLength(m, tokens)
      common == WalkLength(m, tokens)
      Shorter == IF short > 0
                   THEN [from |-> <<m, PrefixOf(tokens, short)>>, cached |-> short]
                   ELSE Miss
      Longer(k) == IF entry[k].trimmable
                     THEN [from |-> k, cached |-> Min({Len(tokens) - 1, common})]
                     ELSE Shorter
  IN  IF <<m, tokens>> \in DOMAIN entry
        THEN {[from |-> <<m, tokens>>, cached |-> Len(tokens)]}
      ELSE IF common > short
        THEN {Longer(k) : k \in LongerKeys(m, tokens)}
      ELSE {Shorter}

----------------------------------------
(* CacheOrder *)

Entered(key) == {t \in Types : Contains(lru[t], key)}

(* Mutant of FirstOrder: only the first order is searched. *)
FirstOrderOnly(key) == "assistant"

(* remove(): the first occurrence, in the first order that has one. *)
FirstOrder(key) ==
  IF "assistant" \in Entered(key) THEN "assistant"
  ELSE IF "user" \in Entered(key) THEN "user" ELSE "system"

RemovedFromOrder(key) ==
  IF Entered(key) = {} THEN lru
  ELSE [lru EXCEPT ![FirstOrder(key)] = RemoveFirst(@, key)]

(* pop(): a type gives way as long as it has at least as many entries as *)
(* the next one.                                                         *)
VictimType ==
  IF lru["assistant"] # <<>> /\ Len(lru["assistant"]) >= Len(lru["user"])
    THEN "assistant"
  ELSE IF lru["user"] # <<>> /\ Len(lru["user"]) >= Len(lru["system"])
    THEN "user"
  ELSE "system"

Sequences(l) == Len(l["assistant"]) + Len(l["user"]) + Len(l["system"])

----------------------------------------
(* insert_cache *)

(* The entry goes into the trie and the byte counters; the one it replaces *)
(* leaves the counters and its order.                                      *)
Insert(key, e) ==
  /\ pc = "idle"
  /\ nodes' = nodes \cup Path(key)
  /\ entry' = [k \in DOMAIN entry \cup {key} |-> IF k = key THEN e ELSE entry[k]]
  /\ LET prev == key \in DOMAIN entry
         Bytes(t, x) == IF x.type = t THEN x.nbytes ELSE 0
     IN  /\ nBytes' = nBytes + e.nbytes - (IF prev THEN entry[key].nbytes ELSE 0)
         /\ typeBytes' = [t \in Types |-> typeBytes[t] + Bytes(t, e)
                             - (IF prev THEN Bytes(t, entry[key]) ELSE 0)]
         /\ lru' = IF prev THEN RemovedFromOrder(key) ELSE lru
  /\ call' = [NoCall EXCEPT !.key = key, !.bytes = MaxBytes]
  /\ pc' = "push"
  /\ UNCHANGED flush

Push ==
  /\ pc = "push"
  /\ lru' = [lru EXCEPT ![entry[call.key].type] = Append(@, call.key)]
  /\ pc' = IF entry[call.key].trimmable THEN "prefixes" ELSE "size"
  /\ UNCHANGED <<nodes, entry, nBytes, typeBytes, call, flush>>

(* A trimmable cache serves its prefixes too: their values leave the trie, *)
(* then, one loop iteration each, the counters and the orders.             *)
DropPrefixes ==
  /\ pc = "prefixes"
  /\ LET dropped == ValuedPrefixes(call.key)
     IN  /\ entry' = [k \in DOMAIN entry \ dropped |-> entry[k]]
         /\ call' = [call EXCEPT !.prefixes =
                        {[key |-> k, value |-> entry[k]] : k \in dropped}]
         /\ pc' = IF dropped = {} THEN "size" ELSE "forget"
  /\ UNCHANGED <<nodes, lru, nBytes, typeBytes, flush>>

(* Mutant of ForgetPrefix: the counter of the type is not deducted. *)
ForgetPrefixKeepType ==
  /\ pc = "forget"
  /\ \E old \in call.prefixes :
       /\ \A p \in call.prefixes : Len(old.key[2]) <= Len(p.key[2])
       /\ nBytes' = nBytes - old.value.nbytes
       /\ lru' = RemovedFromOrder(old.key)
       /\ call' = [call EXCEPT !.prefixes = @ \ {old}]
  /\ pc' = IF call'.prefixes = {} THEN "size" ELSE "forget"
  /\ UNCHANGED <<nodes, entry, typeBytes, flush>>

ForgetPrefix ==
  /\ pc = "forget"
  /\ \E old \in call.prefixes :
       /\ \A p \in call.prefixes : Len(old.key[2]) <= Len(p.key[2])
       /\ nBytes' = nBytes - old.value.nbytes
       /\ typeBytes' = [typeBytes EXCEPT ![old.value.type] = @ - old.value.nbytes]
       /\ lru' = RemovedFromOrder(old.key)
       /\ call' = [call EXCEPT !.prefixes = @ \ {old}]
  /\ pc' = IF call'.prefixes = {} THEN "size" ELSE "forget"
  /\ UNCHANGED <<nodes, entry, flush>>

(* trim_to(n_bytes=...), the only way the server calls it. *)
TrimTo(bytes) ==
  /\ pc = "idle"
  /\ call' = [NoCall EXCEPT !.bytes = bytes]
  /\ pc' = "bytes"
  /\ UNCHANGED <<cacheVars, flush>>

(* Mutant of OverLimit: one entry too many is let in. *)
OverLimitByOne ==
  IF pc = "size" THEN Sequences(lru) > MaxSize + 1 ELSE nBytes > call.bytes

(* The size limit evicts at most one entry (an if); the byte limit is a    *)
(* loop.  Popping an empty order raises.                                   *)
OverLimit == IF pc = "size" THEN Sequences(lru) > MaxSize ELSE nBytes > call.bytes

EvictFromLru ==
  /\ pc \in {"size", "bytes"}
  /\ OverLimit
  /\ IF lru[VictimType] = <<>>
       THEN pc' = "raised" /\ UNCHANGED <<lru, call>>
       ELSE /\ call' = [call EXCEPT !.victim = Head(lru[VictimType])]
            /\ lru' = [lru EXCEPT ![VictimType] = Tail(@)]
            /\ pc' = "pop"
  /\ UNCHANGED <<nodes, entry, nBytes, typeBytes, flush>>

(* Mutant of EvictFromTrie: the total is not deducted. *)
EvictKeepBytes ==
  /\ pc = "pop"
  /\ IF call.victim \notin DOMAIN entry
       THEN pc' = "raised" /\ UNCHANGED <<cacheVars, call>>
       ELSE LET old == entry[call.victim] IN
            /\ nodes' = nodes \ Emptied(call.victim)
            /\ entry' = [k \in DOMAIN entry \ {call.victim} |-> entry[k]]
            /\ typeBytes' = [typeBytes EXCEPT ![old.type] = @ - old.nbytes]
            /\ call' = [call EXCEPT !.victim = NoKey]
            /\ pc' = "bytes"
            /\ UNCHANGED <<lru, nBytes>>
  /\ UNCHANGED flush

(* Popping a key the trie does not hold raises a KeyError. *)
EvictFromTrie ==
  /\ pc = "pop"
  /\ IF call.victim \notin DOMAIN entry
       THEN pc' = "raised" /\ UNCHANGED <<cacheVars, call>>
       ELSE LET old == entry[call.victim] IN
            /\ nodes' = nodes \ Emptied(call.victim)
            /\ entry' = [k \in DOMAIN entry \ {call.victim} |-> entry[k]]
            /\ nBytes' = nBytes - old.nbytes
            /\ typeBytes' = [typeBytes EXCEPT ![old.type] = @ - old.nbytes]
            /\ call' = [call EXCEPT !.victim = NoKey]
            /\ pc' = "bytes"
            /\ UNCHANGED lru
  /\ UNCHANGED flush

WithinSize ==
  /\ pc = "size" /\ ~OverLimit
  /\ pc' = "bytes"
  /\ UNCHANGED <<cacheVars, call, flush>>

Return ==
  /\ pc = "bytes" /\ ~OverLimit
  /\ pc' = "idle"
  /\ call' = NoCall
  /\ UNCHANGED <<cacheVars, flush>>

----------------------------------------
(* snapshot(newest_first=True), called by flush_shutdown_prompt_checkpoints *)
(* in the main thread: it copies the orders one by one and looks every key  *)
(* up in the trie.  PromptTrie.get indexes, so a key without a value raises *)
(* although the caller tests for None.                                      *)

FlushList ==
  /\ FlushEnabled /\ ~flush.failed
  /\ flush.todo = <<>> /\ flush.types # <<>>
  /\ flush' = [flush EXCEPT !.todo = Reverse(lru[Head(flush.types)]),
                            !.types = Tail(@)]
  /\ UNCHANGED <<cacheVars, pc, call>>

FlushEntry ==
  /\ ~flush.failed
  /\ flush.todo # <<>>
  /\ flush' = IF Head(flush.todo) \in DOMAIN entry
                THEN [flush EXCEPT !.todo = Tail(@)]
                ELSE [flush EXCEPT !.failed = TRUE]
  /\ UNCHANGED <<cacheVars, pc, call>>

----------------------------------------

Running == Push \/ DropPrefixes \/ ForgetPrefix \/ EvictFromLru
             \/ EvictFromTrie \/ WithinSize \/ Return

Next ==
  \/ \E key \in Keys, e \in Entries : Insert(key, e)
  \/ \E bytes \in Limits : TrimTo(bytes)
  \/ Push
  \/ DropPrefixes
  \/ ForgetPrefix
  \/ EvictFromLru
  \/ EvictFromTrie
  \/ WithinSize
  \/ Return
  \/ FlushList
  \/ FlushEntry

(* The thread that called the cache keeps running until the call returns. *)
Spec == Init /\ [][Next]_vars /\ WF_vars(Running)

----------------------------------------
(* Properties *)

TypeOK ==
  /\ nodes \subseteq Models \X Seq(Tokens)
  /\ DOMAIN entry \subseteq Keys
  /\ \A k \in DOMAIN entry : entry[k] \in Entries
  /\ lru \in [Types -> Seq(Keys)]
  /\ nBytes \in Int
  /\ typeBytes \in [Types -> Int]
  /\ pc \in {"idle", "push", "prefixes", "forget", "size", "bytes", "pop", "raised"}
  /\ call \in [key : Keys \cup {NoKey}, victim : Keys \cup {NoKey}, bytes : Nat,
               prefixes : SUBSET [key : Keys, value : Entries]]
  /\ flush \in [todo : Seq(Keys), types : Seq(Types), failed : BOOLEAN]

Detached == IF pc = "push" THEN {call.key}
            ELSE IF pc = "pop" THEN {call.victim} ELSE {}

(* The orders and the trie describe the same entries, across replacements, *)
(* prefix removals and evictions: a key is in the order of its entry's     *)
(* type, in that one only and once; only the steps between two statements  *)
(* of the running call set one key apart.                                  *)
OrdersMatchTrie ==
  /\ \A t \in Types : IsInjective(lru[t])
  /\ \A t \in Types : \A k \in ToSet(lru[t]) :
       \/ k \in DOMAIN entry \ Detached /\ entry[k].type = t
       \/ \E p \in call.prefixes : p.key = k /\ p.value.type = t
  /\ \A k \in DOMAIN entry \ Detached : k \in ToSet(lru[entry[k].type])
  /\ \A p \in call.prefixes :
       p.key \notin DOMAIN entry /\ p.key \in ToSet(lru[p.value.type])

(* The trie is a tree whose every branch ends in a value: search() extends *)
(* the deepest common node by its best continuation and has no case for    *)
(* there being none.                                                       *)
TrieWellFormed ==
  /\ \A k \in DOMAIN entry \cup nodes : Path(k) \subseteq nodes
  /\ \A n \in nodes : n[2] # <<>> => \E k \in DOMAIN entry : Below(k, n)

(* The bytes of a type: those of the entries, and those that a running call *)
(* has taken out of the trie and not yet deducted.                         *)
Held(t) ==
  LET Size(e) == IF e.type = t THEN e.nbytes ELSE 0
  IN  SumFunction([k \in DOMAIN entry |-> Size(entry[k])])
        + SumFunction([p \in call.prefixes |-> Size(p.value)])

HeldInAll == Held("assistant") + Held("user") + Held("system")

(* The byte counters, changed by hand in insert_cache and trim_to, are what *)
(* is held, in total and by type.                                          *)
BytesAccounted ==
  /\ TypeOK
  /\ \A t \in Types : typeBytes[t] = Held(t)
  /\ nBytes = HeldInAll

(* Between operations the cache respects max_size and max_bytes. *)
WithinLimits ==
  pc = "idle" => Sequences(lru) <= MaxSize /\ nBytes <= MaxBytes

(* What fetch_nearest_cache returns is the KV cache of a prefix of the      *)
(* request: the entry agrees with the request on the tokens kept, a cache   *)
(* that is cut is trimmable, and unless the key is the very prompt at least *)
(* one token is left to process.                                            *)
FetchSound ==
  pc = "idle" =>
    \A m \in Models, q \in Prompts :
      /\ Fetch(m, q) # {}
      /\ \A f \in Fetch(m, q) \ {Miss} :
           /\ f.from \in DOMAIN entry
           /\ f.from[1] = m
           /\ f.cached \in 0..Len(q)
           /\ IsPrefix(PrefixOf(q, f.cached), f.from[2])
           /\ f.cached < Len(f.from[2]) => entry[f.from].trimmable
           /\ f.cached = Len(q) => f.from[2] = q

Reuse(k, q) ==
  IF k[2] = q THEN Len(q)
  ELSE Min({Len(q) - 1, Max({n \in 0..Len(q) : IsPrefix(PrefixOf(q, n), k[2])})})

(* fetch_nearest_cache is sound (FetchSound) and misses nothing: if the    *)
(* model's caches can be trimmed it reuses as much as any entry offers, all *)
(* of an exact one, else the common prefix short of the last token.         *)
FetchNearest ==
  /\ FetchSound
  /\ pc = "idle" =>
       \A m \in Models, q \in Prompts :
         LET mine == {k \in DOMAIN entry : k[1] = m}
         IN  (\A k \in mine : entry[k].trimmable) =>
               \A f \in Fetch(m, q) : f.cached = Max({0} \cup {Reuse(k, q) : k \in mine})

(* No entry is lost for nothing: it leaves because the trimmable cache just *)
(* inserted serves it too and is in the trie itself, or because the         *)
(* entries the trie really has are more than max_size or weigh more than    *)
(* the limit of the call - the eviction looks at the orders and at a        *)
(* counter, which earlier calls could have left wrong.                      *)
LostForRoom ==
  [][ \A k \in DOMAIN entry \ DOMAIN entry' :
        \/ /\ call.key \in DOMAIN entry'
           /\ entry'[call.key].trimmable
           /\ Below(call.key, k)
        \/ Cardinality(DOMAIN entry) > MaxSize
        \/ HeldInAll > call.bytes ]_vars

(* A call that started returns: the eviction loops end, and nothing raises  *)
(* in them - they never pop an empty order, and no key leaves an order that *)
(* the trie does not hold (the KeyError of PromptTrie.pop would end the     *)
(* generation thread).                                                      *)
CallReturns == pc # "idle" ~> pc = "idle"

(* The shutdown flush completes.  It need not: an order lists keys that the *)
(* trie does not hold while a call of the generation thread is under way.   *)
FlushCompletes == ~flush.failed

=============================================================================
