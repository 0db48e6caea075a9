--------------------------- MODULE CheckpointStore ---------------------------
(***************************************************************************)
(* The prompt checkpoints on disk: a file per token prefix, a manifest     *)
(* that lists the files, and the in-memory index of the manifest through   *)
(* which a prompt is looked up (mlx_lm/models/cache.py 640-1640, its users *)
(* in generate.py 1005-1485 and server.py 1924-2960).                      *)
(*                                                                         *)
(* The generation thread looks prompts up and saves while it prefills, the *)
(* save worker saves after a response, the main thread prunes at shutdown. *)
(* They share files and manifest without a lock: a manifest is loaded,     *)
(* changed and written back as a whole.                                    *)
(*                                                                         *)
(* A name is the token prefix it is the hash of.  What a file holds is the *)
(* label in its metadata: "exact" holds all tokens of its name but the     *)
(* last, "delta" those after its base, the others all of them.  Tensors,   *)
(* layouts and identities of models are left out: all files are of one     *)
(* model and one format.  The manifest is missing until it is first saved; *)
(* nothing damages it or the files from outside, and no write fails.       *)
(***************************************************************************)
EXTENDS Naturals, FiniteSets, Sequences, SequencesExt, FiniteSetsExt

CONSTANTS
    Names,       \* the token prefixes that may be saved
    Forms,       \* for a name, the labels it may be saved with
    Prompts,     \* the prompts looked up
    Tasks,       \* <<thread, label>>: what each thread saves; <<thread, "prune">>
    MaxFiles,    \* PROMPT_CHECKPOINT_MAX_FILES, 0 for no limit
    MaxBytes,    \* PROMPT_CHECKPOINT_MAX_BYTES, 0 for no limit
    Aging,       \* the checkpoints that may become too old
    ChunkTokens, \* tokens in a chunk of a delta, 0 for one file
    None

Labels == {"exact", "prefix", "frontier", "continued", "delta"}
Kinds == Labels \cup {"unknown"}
Threads == {task[1] : task \in Tasks} \cup {"generation"}

ASSUME NamesAssumption ==
    /\ Names \subseteq Seq(Nat) /\ IsFiniteSet(Names)
    /\ Prompts \subseteq Seq(Nat)
    /\ \A n \in Names : Len(n) > 1
ASSUME TasksAssumption ==
    /\ Forms \in [Names -> SUBSET Labels] /\ IsFiniteSet(Tasks)
    /\ \A task \in Tasks : task[2] \in Labels \cup {"prune"}
ASSUME LimitsAssumption ==
    /\ MaxFiles \in Nat /\ MaxBytes \in Nat /\ ChunkTokens \in Nat
    /\ Aging \subseteq Names

VARIABLES
    file,      \* what each name's file holds, None if there is none
    manifest,  \* the entries of the manifest, None if it is missing
    index,     \* the entries of the cached PromptCheckpointManager, None if there
               \* is none or its signature is not that of manifest and directory
    served,    \* checkpoints restored in this process that a delta may build on
    pc, call,  \* where each thread is, and its locals
    quiet      \* history: calls did not overlap so far, none was cut short
vars == <<file, manifest, index, served, pc, call, quiet>>

Content == [label : Labels, base : Names \cup {None}]
Entry == [kind : Kinds, base : Names \cup {None}, size : Nat]
Manifests == [Names -> Entry \cup {None}]

ASSUME NoneAssumption ==
    /\ None \notin Names /\ None \notin Kinds \cup {"save", "prune", "rendered", "token"}
    /\ None \notin Content /\ None \notin Entry /\ None \notin Manifests

NoEntries == [n \in Names |-> None]
NoCall == [op |-> None, name |-> None, label |-> None, base |-> None, goal |-> None,
           protected |-> {}, entries |-> NoEntries, dirty |-> FALSE,
           candidates |-> {}, at |-> None, covered |-> {}, cached |-> 0]

----------------------------------------
(* Files and the manifest.                                                 *)

\* The token positions a file of name n holds.
Held(n, content) ==
    CASE content.label = "exact" -> 1 .. (Len(n) - 1)
      [] content.label = "delta" -> (Len(content.base) + 1) .. Len(n)
      [] OTHER                   -> 1 .. Len(n)

Size(n) == Cardinality(Held(n, file[n]))

\* _manifest_entry_from_file
EntryOf(n, kind, base) == [kind |-> kind, base |-> base, size |-> Size(n)]

Listed(entries) == {n \in Names : entries[n] # None}

\* load_prompt_checkpoint_manifest
Loaded == IF manifest = None THEN NoEntries ELSE manifest

\* sync_prompt_checkpoint_manifest(bootstrap=True), up to the save
Synced ==
    [n \in Names |->
        IF file[n] = None \/ (manifest # None /\ manifest[n] = None) THEN None
        ELSE IF manifest = None THEN EntryOf(n, "unknown", None)
        ELSE [manifest[n] EXCEPT !.size = Size(n)]]
SyncChanges == Synced # Loaded

----------------------------------------
(* Pruning.                                                                *)

TotalBytes(entries) == SumFunction([n \in Listed(entries) |-> entries[n].size])

(* Mutant of OverBudget: one file too many is let in. *)
OverBudgetLate(entries) ==
    \/ MaxFiles > 0 /\ Cardinality(Listed(entries)) > MaxFiles + 1
    \/ MaxBytes > 0 /\ TotalBytes(entries) > MaxBytes

OverBudget(entries) ==
    \/ MaxFiles > 0 /\ Cardinality(Listed(entries)) > MaxFiles
    \/ MaxBytes > 0 /\ TotalBytes(entries) > MaxBytes

DeltaBaseFiles(entries) ==
    {entries[n].base : n \in {m \in Listed(entries) : entries[m].kind = "delta"}}

\* Of one kind, the number of hits, the time and the length decide; here, chance.
KindRank(kind) ==
    CASE kind = "exact" -> 0 [] kind = "unknown" -> 1 [] kind = "prefix" -> 2
      [] kind = "frontier" -> 3 [] kind = "continued" -> 4 [] kind = "delta" -> 5

(* Mutant of Victims: the bases of deltas are not spared. *)
AnyVictims(entries, protected) ==
    LET unprotected == Listed(entries) \ protected
    IN  {n \in unprotected : \A m \in unprotected :
            KindRank(entries[n].kind) <= KindRank(entries[m].kind)}

Victims(entries, protected) ==
    LET unprotected == Listed(entries) \ protected
        spare == unprotected \ DeltaBaseFiles(entries)
        among == IF spare # {} THEN spare ELSE unprotected
    IN  {n \in among : \A m \in among :
            KindRank(entries[n].kind) <= KindRank(entries[m].kind)}

----------------------------------------
(* Delta checkpoints.                                                      *)

\* Where the i-th chunk behind base ends on the way to goal.
Chunk(base, goal, i) ==
    LET end == Len(base) + i * ChunkTokens
    IN  IF ChunkTokens = 0 \/ Len(goal) <= end THEN goal ELSE SubSeq(goal, 1, end)

ChunkEnd(base, goal) == Chunk(base, goal, 1)

Chunks(base, goal) == {Chunk(base, goal, i) : i \in 1 .. Len(goal)}

----------------------------------------
TypeOK ==
    /\ file \in [Names -> Content \cup {None}]
    /\ manifest \in Manifests \cup {None}
    /\ index \in Manifests \cup {None}
    /\ quiet \in BOOLEAN
    /\ served \subseteq Names
    /\ pc \in [Threads -> {"idle", "write", "load", "store", "sync", "syncstore", "stale",
                           "prune", "find", "keep", "try", "delta", "base"}]
    /\ \A t \in Threads :
        /\ call[t].op \in {None, "save", "prune", "rendered", "token"}
        /\ call[t].op = None <=> pc[t] = "idle"
        /\ call[t].entries \in Manifests
        /\ call[t].name \in Names \cup {None} /\ call[t].base \in Names \cup {None}
        /\ call[t].label \in Labels \cup {None}
        /\ call[t].protected \subseteq Names /\ call[t].candidates \subseteq Names
        /\ call[t].dirty \in BOOLEAN

Init ==
    /\ file = [n \in Names |-> None]
    /\ manifest = None
    /\ index = None
    /\ served = {}
    /\ pc = [t \in Threads |-> "idle"]
    /\ call = [t \in Threads |-> NoCall]
    /\ quiet = TRUE

Goto(t, place) == pc' = [pc EXCEPT ![t] = place]

Hold(t, locals) == call' = [call EXCEPT ![t] = locals]

Return(t) == Goto(t, "idle") /\ Hold(t, NoCall)

\* save_prompt_checkpoint_manifest; it invalidates the cached index.
SaveManifest(entries) == manifest' = entries /\ index' = None

----------------------------------------
(* Saving a checkpoint: the file, then the manifest, then pruning.         *)

\* What a prune after this save spares.
Protected(label, name) == IF label = "exact" THEN {} ELSE {name}

\* _save_prompt_checkpoint of generate.py, _save_continued_prompt_checkpoint: a
\* frontier that is there already is only listed.
SaveWhole(t, label, n) ==
    /\ pc[t] = "idle"
    /\ <<t, label>> \in Tasks /\ label # "delta" /\ label \in Forms[n]
    /\ LET there == label = "frontier" /\ file[n] # None
       IN  /\ Goto(t, IF there THEN "load" ELSE "write")
           /\ Hold(t, [NoCall EXCEPT !.op = "save", !.name = n, !.label = label,
                           !.base = IF there THEN file[n].base ELSE None,
                           !.protected = Protected(label, n)])
    /\ UNCHANGED <<file, manifest, index, served>>

\* save_one_delta up to the write: a delta that is there already is only listed.
ChunkCall(t, base, goal, protected) ==
    LET n == ChunkEnd(base, goal)
    IN  /\ Goto(t, IF file[n] = [label |-> "delta", base |-> base] THEN "load" ELSE "write")
        /\ Hold(t, [NoCall EXCEPT !.op = "save", !.name = n, !.label = "delta", !.base = base,
                        !.goal = goal, !.protected = protected \cup {n}])

\* _save_delta_prompt_checkpoint: the base is what an earlier lookup restored.
SaveDelta(t, base, goal) ==
    /\ pc[t] = "idle"
    /\ <<t, "delta">> \in Tasks
    /\ base \in served /\ IsStrictPrefix(base, goal)
    /\ Chunks(base, goal) \subseteq Names
    /\ \A c \in Chunks(base, goal) : "delta" \in Forms[c]
    /\ ChunkCall(t, base, goal, {base})
    /\ UNCHANGED <<file, manifest, index, served>>

\* save_prompt_cache: a temporary file, then os.replace.
Write(t) ==
    /\ pc[t] = "write"
    /\ file' = [file EXCEPT ![call[t].name] =
                    [label |-> call[t].label, base |-> call[t].base]]
    /\ index' = None
    /\ Goto(t, "load")
    /\ UNCHANGED <<manifest, served, call>>

\* update_prompt_checkpoint_manifest up to the save.  A file that is gone raises: the
\* saves of generate.py go on to prune, those of the server and the lookups end.
UpdateLoad(t) ==
    /\ pc[t] = "load"
    /\ LET n == call[t].name
       IN  IF file[n] # None
           THEN /\ Hold(t, [call[t] EXCEPT !.entries =
                        [Loaded EXCEPT ![n] = EntryOf(n, call[t].label, call[t].base)]])
                /\ Goto(t, "store")
           ELSE IF call[t].op = "save" /\ call[t].label \notin {"continued", "delta"}
           THEN Goto(t, "sync") /\ UNCHANGED call
           ELSE Return(t)
    /\ UNCHANGED <<file, manifest, index, served>>

UpdateStore(t) ==
    /\ pc[t] = "store"
    /\ SaveManifest(call[t].entries)
    /\ IF call[t].op = "save"
       THEN Goto(t, "sync") /\ Hold(t, [call[t] EXCEPT !.entries = NoEntries])
       ELSE Return(t)
    /\ UNCHANGED <<file, served>>

\* prune_shutdown_prompt_checkpoints
PruneAtShutdown(t) ==
    /\ pc[t] = "idle" /\ <<t, "prune">> \in Tasks
    /\ Goto(t, "sync")
    /\ Hold(t, [NoCall EXCEPT !.op = "prune"])
    /\ UNCHANGED <<file, manifest, index, served>>

\* sync_prompt_checkpoint_manifest, for a prune or for a new index
Sync(t) ==
    /\ pc[t] = "sync"
    /\ Hold(t, [call[t] EXCEPT !.entries = Synced, !.dirty = SyncChanges])
    /\ Goto(t, IF SyncChanges THEN "syncstore"
               ELSE IF call[t].op \in {"rendered", "token"} THEN "keep" ELSE "stale")
    /\ UNCHANGED <<file, manifest, index, served>>

SyncStore(t) ==
    /\ pc[t] = "syncstore"
    /\ SaveManifest(call[t].entries)
    /\ Goto(t, IF call[t].op \in {"rendered", "token"} THEN "keep" ELSE "stale")
    /\ UNCHANGED <<file, served, call>>

Forgotten(entries, victim) == [entries EXCEPT ![victim] = None]

(* Mutant of RemoveEntry: the file stays. *)
ForgetEntry(t, victim) ==
    /\ Hold(t, [call[t] EXCEPT !.entries = Forgotten(@, victim), !.dirty = TRUE])
    /\ UNCHANGED <<file, manifest, index, served>>

\* remove_entry: a file that is gone already counts as removed.
RemoveEntry(t, victim) ==
    /\ file' = [file EXCEPT ![victim] = None]
    /\ index' = None
    /\ Hold(t, [call[t] EXCEPT !.entries = Forgotten(@, victim), !.dirty = TRUE])
    /\ UNCHANGED <<manifest, served>>

\* The loop over stale entries; which are stale is left open.
RemoveStale(t) ==
    /\ pc[t] = "stale"
    /\ \E victim \in Listed(call[t].entries) \cap Aging :
        /\ victim \notin call[t].protected \cup DeltaBaseFiles(call[t].entries)
        /\ RemoveEntry(t, victim)
    /\ UNCHANGED pc

RemoveOverBudget(t) ==
    /\ pc[t] \in {"stale", "prune"} /\ OverBudget(call[t].entries)
    /\ \E victim \in Victims(call[t].entries, call[t].protected) : RemoveEntry(t, victim)
    /\ Goto(t, "prune")

\* The end of a prune; after a chunk of a delta the next one builds on it.
PruneStore(t) ==
    /\ pc[t] \in {"stale", "prune"}
    /\ ~OverBudget(call[t].entries) \/ Victims(call[t].entries, call[t].protected) = {}
    /\ IF call[t].dirty THEN SaveManifest(call[t].entries)
                        ELSE UNCHANGED <<manifest, index>>
    /\ IF call[t].label = "delta" /\ call[t].name # call[t].goal
       THEN ChunkCall(t, call[t].name, call[t].goal, call[t].protected)
       ELSE Return(t)
    /\ UNCHANGED <<file, served>>

----------------------------------------
(* Looking a prompt up.  "rendered" is _load_rendered_prompt_checkpoint of *)
(* the server, "token" the lookup of generate_step.                        *)

\* The index knows the rendered text of a checkpoint unless a rebuilt manifest lost it.
AllowedKinds(op) ==
    IF op = "rendered" THEN Labels ELSE Kinds \ {"delta"}

Candidates(op, prompt, entries) ==
    {n \in Listed(entries) : entries[n].kind \in AllowedKinds(op) /\ IsPrefix(n, prompt)}

StartLookup(t, op, prompt) ==
    /\ pc[t] = "idle" /\ t = "generation"
    /\ Goto(t, "find")
    /\ Hold(t, [NoCall EXCEPT !.op = op, !.goal = prompt])
    /\ UNCHANGED <<file, manifest, index, served>>

TryAmong(t, entries) ==
    LET candidates == Candidates(call[t].op, call[t].goal, entries)
    IN  /\ Goto(t, "try")
        /\ Hold(t, [call[t] EXCEPT !.dirty = FALSE, !.candidates = candidates,
               !.entries = [n \in Names |-> IF n \in candidates THEN entries[n] ELSE None]])

\* get_prompt_checkpoint_manager: the cached index while its signature holds.
FindIndex(t) ==
    /\ pc[t] = "find"
    /\ IF index # None THEN TryAmong(t, index)
                       ELSE Goto(t, "sync") /\ UNCHANGED call
    /\ UNCHANGED <<file, manifest, index, served>>

\* The signature is taken after the manifest was read.
KeepIndex(t) ==
    /\ pc[t] = "keep"
    /\ index' = call[t].entries
    /\ TryAmong(t, call[t].entries)
    /\ UNCHANGED <<file, manifest, served>>

Longest(names) == CHOOSE n \in names : \A m \in names : Len(m) <= Len(n)

(* Mutant of Reject: the candidate is tried again. *)
RejectForNow(t, n) ==
    /\ Goto(t, "try")
    /\ Hold(t, [call[t] EXCEPT !.name = None, !.at = None, !.covered = {}])
    /\ UNCHANGED served

\* PromptCacheCheckpointError: on to the next shorter candidate.
Reject(t, n) ==
    /\ Goto(t, "try")
    /\ Hold(t, [call[t] EXCEPT !.candidates = @ \ {n}, !.name = None, !.at = None,
                   !.covered = {}])
    /\ UNCHANGED served

\* A checkpoint is restored: covered is what the cache holds, cached what its user
\* takes it to hold.  The manifest is told of the hit.
Hit(t, n, label, base, covered, cached) ==
    /\ Goto(t, "load")
    /\ Hold(t, [NoCall EXCEPT !.op = call[t].op, !.name = n, !.label = label, !.base = base,
                   !.covered = covered, !.cached = cached])
    /\ served' = IF call[t].op = "rendered" /\ label # "exact" THEN served \cup {n} ELSE served

\* How many tokens the server takes a rendered hit to cover.
RenderedTokens(n, label) == IF label = "exact" THEN Len(n) - 1 ELSE Len(n)

TryRendered(t) ==
    /\ pc[t] = "try" /\ call[t].op = "rendered" /\ call[t].candidates # {}
    /\ LET n == Longest(call[t].candidates)
           kind == call[t].entries[n].kind
           content == file[n]
       IN  IF kind = "delta"
           THEN /\ Goto(t, "delta") /\ UNCHANGED served
                /\ Hold(t, [call[t] EXCEPT !.name = n, !.at = n])
           ELSE IF content = None \/ (kind = "exact" /\ content.label # "exact")
           THEN Reject(t, n)
           ELSE Hit(t, n, content.label, content.base, Held(n, content),
                    RenderedTokens(n, content.label))
    /\ UNCHANGED <<file, manifest, index>>

\* _load_delta_prompt_checkpoint: the delta itself ...
ReadDelta(t) ==
    /\ pc[t] = "delta"
    /\ LET at == call[t].at
       IN  IF file[at] = None \/ file[at].label # "delta" THEN Reject(t, call[t].name)
           ELSE /\ Goto(t, "base") /\ UNCHANGED served
                /\ Hold(t, [call[t] EXCEPT !.covered = @ \cup Held(at, file[at]),
                        !.base = IF at = call[t].name THEN file[at].base ELSE @,
                        !.at = file[at].base])
    /\ UNCHANGED <<file, manifest, index>>

(* Mutant of ReadBase: a base that is a delta in turn is taken as it is. *)
ReadBaseAsWhole(t) ==
    /\ pc[t] = "base"
    /\ LET at == call[t].at
           n == call[t].name
       IN  IF file[at] = None THEN Reject(t, n)
           ELSE Hit(t, n, "delta", call[t].base,
                    call[t].covered \cup Held(at, file[at]), Len(n))
    /\ UNCHANGED <<file, manifest, index>>

\* ... then its base, which is read again when it is a delta in turn.
ReadBase(t) ==
    /\ pc[t] = "base"
    /\ LET at == call[t].at
           n == call[t].name
       IN  CASE file[at] = None -> Reject(t, n)
             [] file[at] # None /\ file[at].label = "delta" ->
                    Goto(t, "delta") /\ UNCHANGED <<call, served>>
             [] OTHER -> Hit(t, n, "delta", call[t].base,
                             call[t].covered \cup Held(at, file[at]), Len(n))
    /\ UNCHANGED <<file, manifest, index>>

\* A hit on the whole prompt replays its last token; any other counts in full.
TokenTokens(n, prompt) == IF n = prompt THEN Len(n) - 1 ELSE Len(n)

TokenLabel(n, prompt, content) ==
    IF n = prompt THEN "exact"
    ELSE IF content.label \in {"prefix", "frontier", "continued"} THEN content.label
    ELSE "prefix"

TryToken(t) ==
    /\ pc[t] = "try" /\ call[t].op = "token" /\ call[t].candidates # {}
    /\ LET n == Longest(call[t].candidates)
       IN  IF file[n] = None THEN Reject(t, n)
           ELSE Hit(t, n, TokenLabel(n, call[t].goal, file[n]), file[n].base,
                    Held(n, file[n]), TokenTokens(n, call[t].goal))
    /\ UNCHANGED <<file, manifest, index>>

Miss(t) ==
    /\ pc[t] = "try" /\ call[t].candidates = {}
    /\ Return(t)
    /\ UNCHANGED <<file, manifest, index, served>>

----------------------------------------
(* The process ends, in the middle of anything, and starts again.          *)
Restart ==
    /\ pc' = [t \in Threads |-> "idle"] /\ call' = [t \in Threads |-> NoCall]
    /\ index' = None /\ served' = {}
    /\ UNCHANGED <<file, manifest>>

Begin(t) ==
    \/ \E label \in Labels, n \in Names : SaveWhole(t, label, n)
    \/ \E base \in served, goal \in Names : SaveDelta(t, base, goal)
    \/ PruneAtShutdown(t)
    \/ \E op \in {"rendered", "token"}, prompt \in Prompts : StartLookup(t, op, prompt)

Continue(t) ==
    \/ Write(t) \/ UpdateLoad(t) \/ UpdateStore(t) \/ Sync(t) \/ SyncStore(t)
    \/ RemoveStale(t) \/ RemoveOverBudget(t) \/ PruneStore(t)
    \/ FindIndex(t) \/ KeepIndex(t) \/ TryRendered(t) \/ ReadDelta(t) \/ ReadBase(t)
    \/ TryToken(t) \/ Miss(t)

Busy == {t \in Threads : pc[t] # "idle"}
Track == quiet' = (quiet /\ Cardinality(Busy') <= 1)

Next ==
    \/ \E t \in Threads : (Begin(t) \/ Continue(t)) /\ Track
    \/ Restart /\ quiet' = (quiet /\ Busy = {})

Spec == Init /\ [][Next]_vars /\ \A t \in Threads : WF_vars(Continue(t) /\ Track)

----------------------------------------
(* Properties.                                                             *)

\* A frontier save lists a file that is there without reading it (generate.py 1403): a name
\* that is also saved as a delta may so be listed as what it is not.
FrontierApart(n) == ~({"frontier", "delta"} \subseteq Forms[n])

\* Where a name that is saved as a delta can be read for what it is: it is saved in no other
\* form, or entry and file cannot disagree as calls do not overlap; and what it may build on
\* is not overwritten by an exact checkpoint, which lacks a token.
Readable(n) ==
    "delta" \in Forms[n] =>
        /\ Forms[n] = {"delta"} \/ (quiet /\ FrontierApart(n))
        /\ \A m \in Names : IsStrictPrefix(m, n) /\ "exact" \in Forms[m] => Forms[m] = {"exact"}

\* A checkpoint the server restores for a rendered prompt holds every token it is taken
\* to hold and no other, whatever other threads write and remove meanwhile, a restart
\* or a rebuilt manifest left behind (server.py 2032-2299).
RenderedWhole ==
    \A t \in Threads : pc[t] = "load" /\ call[t].op = "rendered" /\ Readable(call[t].name)
        => call[t].covered = 1 .. call[t].cached

\* docs/prompt-checkpoints.md 12-14 says so of every name: prefix hits restore the shared
\* prefix, chained deltas their base and suffixes (server.py 2150-2240).
RenderedWholeAlways ==
    \A t \in Threads : pc[t] = "load" /\ call[t].op = "rendered"
        => call[t].covered = 1 .. call[t].cached

\* The same for the lookup of generate_step (generate.py 1005-1140).
TokenWhole ==
    \A t \in Threads : pc[t] = "load" /\ call[t].op = "token"
        => call[t].covered = 1 .. call[t].cached

\* As long as calls do not overlap, nothing is lost: between calls the manifest lists
\* just the files there are, and deltas as deltas unless a frontier save may list them
\* (cache.py 1034-1070, 1250).
FilesListed ==
    /\ TypeOK
    /\ quiet /\ Busy = {} => /\ Listed(Loaded) = {n \in Names : file[n] # None}
                            /\ \A n \in Listed(Loaded) : FrontierApart(n) =>
                                   (Loaded[n].kind = "delta" <=> file[n].label = "delta")

\* Then the disk also stays within the budget, whatever the chain being saved protects
\* (cache.py 1229-1248).
DiskWithinBudget ==
    quiet /\ Busy = {} =>
        LET disk == {n \in Names : file[n] # None}
        IN  /\ MaxFiles > 0 => Cardinality(disk) <= MaxFiles
            /\ MaxBytes > 0 => SumFunction([n \in disk |-> Size(n)]) <= MaxBytes

\* A checkpoint can be restored: it and all it builds on are on disk.
Complete(n, files) ==
    \E chain \in SUBSET Names :
        /\ n \in chain
        /\ \A m \in chain : /\ files[m] # None
                            /\ files[m].label = "delta" => files[m].base \in chain

\* A prune never takes a file from under a delta that stays, when the budget is enough for
\* one whole chain and calls do not overlap (cache.py 1199-1248).  A delta that is written
\* anew may build on a base that was removed since it was restored: nobody looks.
ChainsKept ==
    [][quiet' /\ (\A m \in Names : file'[m] \in {file[m], None})
        => \A n \in Names : Complete(n, file) /\ file'[n] # None => Complete(n, file')]_vars

\* Every call returns: the loops over stale entries, victims, candidates and chains end.
CallsReturn == \A t \in Threads : []<>(pc[t] = "idle")
=============================================================================
