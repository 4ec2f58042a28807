----------------------------- MODULE GraphCache -----------------------------
(***************************************************************************)
(* The shared graph cache of AIGGraphRegressionDataset                     *)
(* (src/src/data/dataset.py: _rebuild_graph_cache and what it calls).      *)
(*                                                                         *)
(* Jobs with different settings fill one cache directory.  A cached .pt    *)
(* file is named by content version, positional encoding, raw path and     *)
(* the raw file's size and mtime (_stable_graph_cache_name); the name does *)
(* not depend on normalize_edges.  Beside the files lies one JSON index,   *)
(* _num_nodes_global.json, which a job reads whole when it starts, updates *)
(* in memory and rewrites whole, by temporary file and os.replace.         *)
(*                                                                         *)
(* A raw graph file is abstracted to the version of its content: a version *)
(* fixes size, mtime and node count, so `nodes' below is the version whose *)
(* node count is meant.                                                    *)
(***************************************************************************)
EXTENDS Integers, FiniteSets

CONSTANTS
  Graph,       \* raw graph paths that belong to this cache root
  Job,         \* processes that may build a dataset over them
  Requests,    \* the sample sets datasets are built over
  Pe,          \* positional encodings in use
  Norms,       \* values of normalize_edges in use, a subset of BOOLEAN
  LegacyIndex, \* BOOLEAN: the index may start with bare-int entries
  ChunkSize,   \* CHUNK_SIZE
  SaveEvery,   \* _SAVE_NN_EVERY
  MaxRunning,  \* jobs that may run at once (1 under the `%1' array throttle)
  MaxVersion,  \* bound on the versions of a raw file
  MaxFault     \* bound on the crashes and purges of a behaviour

ASSUME ConstantsAssumption ==
  /\ IsFiniteSet(Graph) /\ Graph # {}
  /\ IsFiniteSet(Job)
  /\ Requests \subseteq (SUBSET Graph) \ {{}}
  /\ Norms \subseteq BOOLEAN
  /\ LegacyIndex \in BOOLEAN
  /\ ChunkSize \in Nat \ {0}
  /\ SaveEvery \in Nat \ {0}
  /\ MaxRunning \in Nat
  /\ MaxVersion \in Nat \ {0}
  /\ MaxFault \in Nat

Version == 1..MaxVersion
Config  == [pe : Pe, norm : Norms]

\* _stable_graph_cache_name: what a cache file name stands for.
Key == [pe : Pe, graph : Graph, ver : Version]

\* A global-index value: [cache_path, num_nodes, index_tag], or a legacy
\* bare int, or nothing.
Tagged   == [kind : {"tagged"}, key : Key, nodes : Version, tag : Config]
Legacy   == [kind : {"legacy"}, nodes : Version]
Missing  == [kind |-> "missing"]
IndexEntry == Tagged \cup Legacy \cup {Missing}

\* What _process_one returned for a graph: (cache path, num_nodes).
Served  == [kind : {"served"}, key : Key, nodes : Version]
Result  == Served \cup {Missing}

VARIABLES
  raw,      \* raw[g]: version of the raw .pt file at path g
  file,     \* file[k]: "absent", or a cached graph without / with edge_weight
  index,    \* _num_nodes_global.json on disk
  phase,    \* phase[j]: "idle", "build" (inside a rebuild), "ready"
  config,   \* config[j]: the job's settings, Missing when idle
  memory,   \* memory[j]: its in-memory copy of the index (global_num_nodes)
  todo,     \* todo[j]: graphs in later chunks
  chunk,    \* chunk[j]: graphs of the current chunk not yet consumed
  looking,  \* looking[j]: graphs a thread found no cached file for
  creating, \* creating[j]: those it looked at again and is now building
  result,   \* result[j][g]: path_map and num_nodes_map
  unsaved,  \* unsaved[j]: completed - _last_saved
  dirty,    \* dirty[j]: the index copy differs from what was last written
  faults

store   == <<raw, file, index>>
jobvars == <<phase, config, memory, todo, chunk, looking, creating,
             result, unsaved, dirty>>
vars    == <<store, jobvars, faults>>

TypeOK ==
  /\ raw \in [Graph -> Version]
  /\ file \in [Key -> {"absent", "plain", "weighted"}]
  /\ index \in [Graph -> IndexEntry]
  /\ phase \in [Job -> {"idle", "build", "ready"}]
  /\ config \in [Job -> Config \cup {Missing}]
  /\ memory \in [Job -> [Graph -> IndexEntry]]
  /\ todo \in [Job -> SUBSET Graph]
  /\ chunk \in [Job -> SUBSET Graph]
  /\ looking \in [Job -> SUBSET Graph]
  /\ creating \in [Job -> SUBSET Graph]
  /\ result \in [Job -> [Graph -> Result]]
  /\ unsaved \in [Job -> Nat]
  /\ dirty \in [Job -> BOOLEAN]
  /\ faults \in 0..MaxFault

Nothing == [g \in Graph |-> Missing]

Init ==
  /\ raw = [g \in Graph |-> 1]
  /\ file = [k \in Key |-> "absent"]
  /\ index \in [Graph -> {Missing} \cup
                  (IF LegacyIndex THEN {[kind |-> "legacy", nodes |-> 1]} ELSE {})]
  /\ phase = [j \in Job |-> "idle"]
  /\ config = [j \in Job |-> Missing]
  /\ memory = [j \in Job |-> Nothing]
  /\ todo = [j \in Job |-> {}]
  /\ chunk = [j \in Job |-> {}]
  /\ looking = [j \in Job |-> {}]
  /\ creating = [j \in Job |-> {}]
  /\ result = [j \in Job |-> Nothing]
  /\ unsaved = [j \in Job |-> 0]
  /\ dirty = [j \in Job |-> FALSE]
  /\ faults = 0

-----------------------------------------------------------------------------
(***************************************************************************)
(* Names, tags and the index fast path.                                    *)
(***************************************************************************)

\* The name job j looks for: its encoding, and the raw file as it is now.
KeyOf(j, g) == [pe |-> config[j].pe, graph |-> g, ver |-> raw[g]]

\* Mutant: the tag check is dropped, any entry of the three-element form hits.
HitAnyTag(j, g) ==
  /\ memory[j][g].kind = "tagged"
  /\ file[memory[j][g].key] # "absent"

\* _global_cache_hit: a tagged entry of this job's tag whose file is there.
Hit(j, g) ==
  /\ memory[j][g].kind = "tagged"
  /\ memory[j][g].tag = config[j]
  /\ file[memory[j][g].key] # "absent"

-----------------------------------------------------------------------------
(***************************************************************************)
(* One job's rebuild.                                                      *)
(***************************************************************************)
Running == {j \in Job : phase[j] = "build"}

\* The graphs of the next chunk: CHUNK_SIZE of them, or all that are left.
NextChunk(left) ==
  {c \in SUBSET left : Cardinality(c) = IF Cardinality(left) < ChunkSize
                                        THEN Cardinality(left) ELSE ChunkSize}

\* Mutant: the job starts from an empty index instead of the one on disk.
StartEmpty(j, c, paths) ==
  /\ phase[j] = "idle"
  /\ Cardinality(Running) < MaxRunning
  /\ phase' = [phase EXCEPT ![j] = "build"]
  /\ config' = [config EXCEPT ![j] = c]
  /\ todo' = [todo EXCEPT ![j] = paths]
  /\ UNCHANGED <<store, memory, chunk, looking, creating, result, unsaved, dirty, faults>>

\* _rebuild_graph_cache is entered: the index is read, the samples' unique
\* paths are split into chunks.
Start(j, c, paths) ==
  /\ phase[j] = "idle"
  /\ Cardinality(Running) < MaxRunning
  /\ phase' = [phase EXCEPT ![j] = "build"]
  /\ config' = [config EXCEPT ![j] = c]
  /\ memory' = [memory EXCEPT ![j] = index]
  /\ todo' = [todo EXCEPT ![j] = paths]
  /\ result' = [result EXCEPT ![j] = Nothing]
  /\ unsaved' = [unsaved EXCEPT ![j] = 0]
  /\ dirty' = [dirty EXCEPT ![j] = FALSE]
  /\ UNCHANGED <<store, chunk, looking, creating, faults>>

\* Mutant: the counter is never compared, only the end of the run saves.
SaveNever(j) == FALSE

\* completed - _last_saved >= _SAVE_NN_EVERY.
SaveDue(j) == unsaved[j] >= SaveEvery

\* executor.map over the next chunk.
Submit(j, c) ==
  /\ phase[j] = "build"
  /\ chunk[j] = {} /\ ~SaveDue(j)
  /\ c # {} /\ c \in NextChunk(todo[j])
  /\ chunk' = [chunk EXCEPT ![j] = c]
  /\ todo' = [todo EXCEPT ![j] = @ \ c]
  /\ UNCHANGED <<store, phase, config, memory, looking, creating, result,
                 unsaved, dirty, faults>>

\* Mutant: the index is only marked dirty for graphs it did not know.
ConsumeIfNew(j, g, k, n) ==
  LET entry == [kind |-> "tagged", key |-> k, nodes |-> n, tag |-> config[j]]
  IN  /\ result' = [result EXCEPT ![j][g] = [kind |-> "served", key |-> k, nodes |-> n]]
      /\ chunk' = [chunk EXCEPT ![j] = @ \ {g}]
      /\ unsaved' = [unsaved EXCEPT ![j] = @ + 1]
      /\ dirty' = [dirty EXCEPT ![j] = @ \/ memory[j][g] = Missing]
      /\ memory' = [memory EXCEPT ![j][g] = entry]

\* The main thread consumes one result of the chunk and updates its index
\* copy; the entry carries the job's own tag whatever file it points at.
Consume(j, g, k, n) ==
  LET entry == [kind |-> "tagged", key |-> k, nodes |-> n, tag |-> config[j]]
  IN  /\ result' = [result EXCEPT ![j][g] = [kind |-> "served", key |-> k, nodes |-> n]]
      /\ chunk' = [chunk EXCEPT ![j] = @ \ {g}]
      /\ unsaved' = [unsaved EXCEPT ![j] = @ + 1]
      /\ dirty' = [dirty EXCEPT ![j] = @ \/ memory[j][g] # entry]
      /\ memory' = [memory EXCEPT ![j][g] = entry]

\* Graphs of the chunk whose thread has not gone past its first look.
Fresh(j) == chunk[j] \ (looking[j] \cup creating[j])

\* _process_one, index hit: neither the raw file nor the cached one is read.
ServeFromIndex(j, g) ==
  /\ g \in Fresh(j)
  /\ Hit(j, g)
  /\ Consume(j, g, memory[j][g].key, memory[j][g].nodes)
  /\ UNCHANGED <<store, phase, config, todo, looking, creating, faults>>

\* Mutant: any count the index holds for the path is believed.
ServeFromFileTrusting(j, g) ==
  LET k == KeyOf(j, g)
      n == IF memory[j][g] # Missing THEN memory[j][g].nodes ELSE k.ver
  IN  /\ g \in Fresh(j)
      /\ ~Hit(j, g) /\ file[k] # "absent"
      /\ Consume(j, g, k, n)
      /\ UNCHANGED <<store, phase, config, todo, looking, creating, faults>>

\* _process_one, no hit but the file is there: a legacy count is believed,
\* otherwise the file is loaded and its nodes counted.
ServeFromFile(j, g) ==
  LET k == KeyOf(j, g)
      n == IF memory[j][g].kind = "legacy" THEN memory[j][g].nodes ELSE k.ver
  IN  /\ g \in Fresh(j)
      /\ ~Hit(j, g) /\ file[k] # "absent"
      /\ Consume(j, g, k, n)
      /\ UNCHANGED <<store, phase, config, todo, looking, creating, faults>>

\* _process_one, neither: the thread goes on into _cache_single_graph.
Miss(j, g) ==
  /\ g \in Fresh(j)
  /\ ~Hit(j, g) /\ file[KeyOf(j, g)] = "absent"
  /\ looking' = [looking EXCEPT ![j] = @ \cup {g}]
  /\ UNCHANGED <<store, phase, config, memory, todo, chunk, creating,
                 result, unsaved, dirty, faults>>

\* _cache_single_graph, second look, nothing there: load the raw graph.
LookAgain(j, g) ==
  /\ g \in looking[j]
  /\ file[KeyOf(j, g)] = "absent"
  /\ looking' = [looking EXCEPT ![j] = @ \ {g}]
  /\ creating' = [creating EXCEPT ![j] = @ \cup {g}]
  /\ UNCHANGED <<store, phase, config, memory, todo, chunk, result, unsaved, dirty, faults>>

\* _cache_single_graph, second look, another job was faster: its file is
\* loaded, and rewritten if it lacks the edge weights this job wants.
Refresh(j, g) ==
  LET k == KeyOf(j, g)
  IN  /\ g \in looking[j]
      /\ file[k] # "absent"
      /\ file' = [file EXCEPT ![k] = IF config[j].norm THEN "weighted" ELSE @]
      /\ Consume(j, g, k, k.ver)
      /\ looking' = [looking EXCEPT ![j] = @ \ {g}]
      /\ UNCHANGED <<raw, index, phase, config, todo, creating, faults>>

\* Mutant: the result is handed on before the file is in place.
PublishLater(j, g) ==
  LET k == KeyOf(j, g)
  IN  /\ g \in creating[j]
      /\ Consume(j, g, k, k.ver)
      /\ creating' = [creating EXCEPT ![j] = @ \ {g}]
      /\ UNCHANGED <<store, phase, config, todo, looking, faults>>

\* torch.save to a temporary name, then replace: whatever another job has
\* put there meanwhile is overwritten.
Publish(j, g) ==
  LET k == KeyOf(j, g)
  IN  /\ g \in creating[j]
      /\ file' = [file EXCEPT ![k] = IF config[j].norm THEN "weighted" ELSE "plain"]
      /\ Consume(j, g, k, k.ver)
      /\ creating' = [creating EXCEPT ![j] = @ \ {g}]
      /\ UNCHANGED <<raw, index, phase, config, todo, looking, faults>>

\* Between chunks: the index is written when enough results are unsaved or
\* none are left, and only if something changed.
Save(j) ==
  /\ phase[j] = "build"
  /\ chunk[j] = {} /\ unsaved[j] > 0
  /\ SaveDue(j) \/ todo[j] = {}
  /\ index' = IF dirty[j] THEN memory[j] ELSE index
  /\ dirty' = [dirty EXCEPT ![j] = FALSE]
  /\ unsaved' = [unsaved EXCEPT ![j] = 0]
  /\ UNCHANGED <<raw, file, phase, config, memory, todo, chunk, looking, creating,
                 result, faults>>

\* The rebuild returns and its manifest is applied.
Return(j) ==
  /\ phase[j] = "build"
  /\ todo[j] = {} /\ chunk[j] = {} /\ unsaved[j] = 0
  /\ phase' = [phase EXCEPT ![j] = "ready"]
  /\ UNCHANGED <<store, config, memory, todo, chunk, looking, creating, result,
                 unsaved, dirty, faults>>

\* Everything the process held in memory is gone.
Forget(j) ==
  /\ phase' = [phase EXCEPT ![j] = "idle"]
  /\ config' = [config EXCEPT ![j] = Missing]
  /\ memory' = [memory EXCEPT ![j] = Nothing]
  /\ todo' = [todo EXCEPT ![j] = {}]
  /\ chunk' = [chunk EXCEPT ![j] = {}]
  /\ looking' = [looking EXCEPT ![j] = {}]
  /\ creating' = [creating EXCEPT ![j] = {}]
  /\ result' = [result EXCEPT ![j] = Nothing]
  /\ unsaved' = [unsaved EXCEPT ![j] = 0]
  /\ dirty' = [dirty EXCEPT ![j] = FALSE]

\* The process ends normally.
Exit(j) ==
  /\ phase[j] = "ready"
  /\ Forget(j)
  /\ UNCHANGED <<store, faults>>

\* SIGKILL, out of memory or the SLURM time limit in the middle of a build.
Crash(j) ==
  /\ phase[j] = "build" /\ faults < MaxFault
  /\ faults' = faults + 1
  /\ Forget(j)
  /\ UNCHANGED store

\* The raw graph is regenerated between jobs: new content, size and mtime.
Regenerate(g) ==
  /\ \A j \in Job : phase[j] = "idle"
  /\ raw[g] < MaxVersion
  /\ raw' = [raw EXCEPT ![g] = @ + 1]
  /\ UNCHANGED <<file, index, jobvars, faults>>

\* Cached files disappear between jobs (the cache lies on scratch storage).
Purge(k) ==
  /\ \A j \in Job : phase[j] = "idle"
  /\ file[k] # "absent" /\ faults < MaxFault
  /\ file' = [file EXCEPT ![k] = "absent"]
  /\ faults' = faults + 1
  /\ UNCHANGED <<raw, index, jobvars>>

Step(j) ==
  \/ \E c \in SUBSET todo[j] : Submit(j, c)
  \/ \E g \in Graph : \/ ServeFromIndex(j, g) \/ ServeFromFile(j, g)
                      \/ Miss(j, g) \/ LookAgain(j, g)
                      \/ Refresh(j, g) \/ Publish(j, g)
  \/ Save(j)
  \/ Return(j)

Next ==
  \/ \E j \in Job : \/ \E c \in Config, paths \in Requests : Start(j, c, paths)
                    \/ Step(j)
                    \/ Exit(j)
                    \/ Crash(j)
  \/ \E g \in Graph : Regenerate(g)
  \/ \E k \in Key : Purge(k)

Spec == Init /\ [][Next]_vars

-----------------------------------------------------------------------------
\* The cached file job j was given for graph g, if it has been given one.
Given(j, g) == result[j][g].kind = "served"

(***************************************************************************)
(* Every path a rebuild hands to its manifest is a file that exists: the   *)
(* index, written by other and crashed jobs, never promises a file that    *)
(* was not published, and a purged one is noticed.                         *)
(***************************************************************************)
ServedFileExists ==
  \A j \in Job, g \in Graph : Given(j, g) => file[result[j][g].key] # "absent"

(***************************************************************************)
(* A graph's node count is that of the file served with it (the count goes *)
(* into the node budget; the file is what is loaded).  Needs an index      *)
(* without bare-int entries: see ServeFromFile.                            *)
(***************************************************************************)
ServedSizesExact ==
  \A j \in Job, g \in Graph : Given(j, g) => result[j][g].nodes = result[j][g].key.ver

(***************************************************************************)
(* _cache_index_tag, first half: no job is served another graph's file, or *)
(* one built under another positional encoding.                            *)
(***************************************************************************)
ServedForConfig ==
  \A j \in Job, g \in Graph :
    Given(j, g) => result[j][g].key.pe = config[j].pe /\ result[j][g].key.graph = g

(***************************************************************************)
(* _cache_index_tag, second half ("a fast-path hit can never return a file *)
(* built for a different config -- both PE and normalize_edges affect what *)
(* _prepare_cached_graph writes"): a job that normalises edges is served   *)
(* files that hold edge weights.                                           *)
(***************************************************************************)
ServedWeighted ==
  \A j \in Job, g \in Graph :
    Given(j, g) /\ config[j].norm => file[result[j][g].key] = "weighted"

(***************************************************************************)
(* A crash costs the index at most the results since the last save: fewer  *)
(* than _SAVE_NN_EVERY plus one chunk.                                     *)
(***************************************************************************)
LossBounded == \A j \in Job : unsaved[j] < SaveEvery + ChunkSize

(***************************************************************************)
(* With one job at a time the index only gains: a graph once indexed stays *)
(* indexed, across crashes and restarts.                                   *)
(***************************************************************************)
IndexNeverForgets ==
  [][\A g \in Graph : index[g].kind = "tagged" => index'[g].kind = "tagged"]_vars

(***************************************************************************)
(* With one job at a time, a rebuild that returns has left every graph it  *)
(* served in the index, so the next job of these settings is all hits.     *)
(***************************************************************************)
ReturnIsIndexed ==
  [][\A j \in Job, g \in Graph :
       phase[j] = "build" /\ phase'[j] = "ready" /\ Given(j, g)
         => /\ index[g].kind = "tagged"
            /\ index[g].key = result[j][g].key
            /\ index[g].tag = config[j]]_vars
=============================================================================
