--------------------------- MODULE MaskPrecompute ---------------------------
(***************************************************************************)
(* Precomputing partition and sparsification masks for a graph cache       *)
(* (src/src/data/partition.py update_existing_cache_with_masks,            *)
(* src/src/data/sparsification.py update_from_manifests), and the training *)
(* processes that look the masks up.                                       *)
(*                                                                         *)
(* A job computes the masks of every requested algorithm for a graph in    *)
(* one task of a process pool, collects results in memory and flushes them *)
(* every CHECKPOINT_EVERY graphs as one new chunk file per algorithm       *)
(* (temporary file, os.replace, a name with time and uuid).  A job that is *)
(* killed is submitted again and skips what is on disk for all algorithms. *)
(***************************************************************************)
EXTENDS Integers, FiniteSets, FiniteSetsExt

CONSTANTS
  Graph,           \* cache file names
  Algo,            \* algorithms with an index of their own
  Job,             \* precompute jobs
  AlgoSets,        \* the algorithm sets jobs are asked for
  Reader,          \* processes that read masks
  CheckpointEvery, \* CHECKPOINT_EVERY
  MaxCrash         \* bound on the kills and aborts of a behaviour

ASSUME ConstantsAssumption ==
  /\ IsFiniteSet(Graph) /\ IsFiniteSet(Algo)
  /\ AlgoSets \subseteq (SUBSET Algo) \ {{}}
  /\ CheckpointEvery \in Nat \ {0}
  /\ MaxCrash \in Nat

VARIABLES
  cached,   \* graph files in the cache directory
  chunks,   \* chunks[a]: contents (graph sets) of the chunk files of algorithm a
  pc,       \* pc[j]: "idle", "pool", "flush" (at a checkpoint), "final", "done"
  algos,    \* algos[j]: algo_names
  done,     \* done[j]: done_by_dir, read once when the job starts
  tasks,    \* tasks[j]: graphs the pool has not returned yet
  missing,  \* missing[j]: graphs whose file was gone when a worker got there
  held,     \* held[j][a]: accumulated, the results not yet flushed
  count,    \* count[j]: success_count, modulo CHECKPOINT_EVERY
  scanned,  \* scanned[j]: every graph the job took up or skipped
  index,    \* index[r][a]: _MASK_INDEX_CACHE of reader r, Unloaded before
  crashes

jobvars == <<pc, algos, done, tasks, missing, held, count, scanned>>
vars    == <<cached, chunks, jobvars, index, crashes>>

Unloaded == [loaded |-> FALSE, masks |-> {}]
Loaded(masks) == [loaded |-> TRUE, masks |-> masks]

\* The graphs that some chunk file holds a mask for.
Stored(a) == UNION chunks[a]

Empty == [a \in Algo |-> {}]

TypeOK ==
  /\ cached \subseteq Graph
  /\ chunks \in [Algo -> SUBSET SUBSET Graph]
  /\ pc \in [Job -> {"idle", "pool", "flush", "final", "done"}]
  /\ algos \in [Job -> SUBSET Algo]
  /\ done \in [Job -> SUBSET Graph]
  /\ tasks \in [Job -> SUBSET Graph]
  /\ missing \in [Job -> SUBSET Graph]
  /\ held \in [Job -> [Algo -> SUBSET Graph]]
  /\ count \in [Job -> 0..(CheckpointEvery - 1)]
  /\ scanned \in [Job -> SUBSET Graph]
  /\ index \in [Reader -> [Algo -> [loaded : BOOLEAN, masks : SUBSET Graph]]]
  /\ crashes \in 0..MaxCrash

Init ==
  /\ cached \in SUBSET Graph
  /\ chunks = [a \in Algo |-> {}]
  /\ pc = [j \in Job |-> "idle"]
  /\ algos = [j \in Job |-> {}]
  /\ done = [j \in Job |-> {}]
  /\ tasks = [j \in Job |-> {}]
  /\ missing = [j \in Job |-> {}]
  /\ held = [j \in Job |-> Empty]
  /\ count = [j \in Job |-> 0]
  /\ scanned = [j \in Job |-> {}]
  /\ index = [r \in Reader |-> [a \in Algo |-> Unloaded]]
  /\ crashes = 0

-----------------------------------------------------------------------------
(***************************************************************************)
(* One precompute job.                                                     *)
(***************************************************************************)

\* Mutant: a graph is skipped when any requested algorithm has it.
DoneByAny(wanted) == UNION {Stored(a) : a \in wanted}

\* A graph is done only when every requested algorithm's chunks have it.
Done(wanted) == {g \in Graph : \A a \in wanted : g \in Stored(a)}

\* The existing chunks are read, then the directory is scanned.  The scan
\* streams into the pool while the cache may be filling: it yields the files
\* that were there and possibly some of those that come.
Start(j, wanted) ==
  /\ pc[j] = "idle"
  /\ pc' = [pc EXCEPT ![j] = "pool"]
  /\ algos' = [algos EXCEPT ![j] = wanted]
  /\ done' = [done EXCEPT ![j] = Done(wanted)]
  /\ scanned' = [scanned EXCEPT ![j] = cached]
  /\ tasks' = [tasks EXCEPT ![j] = cached \ Done(wanted)]
  /\ UNCHANGED <<cached, chunks, missing, held, count, index, crashes>>

\* A file that appeared while the scan is still running is taken up too.
ScanMore(j, g) ==
  /\ pc[j] = "pool" /\ tasks[j] # {}
  /\ g \in cached \ scanned[j]
  /\ scanned' = [scanned EXCEPT ![j] = @ \cup {g}]
  /\ tasks' = [tasks EXCEPT ![j] = @ \cup ({g} \ done[j])]
  /\ UNCHANGED <<cached, chunks, pc, algos, done, missing, held, count, index, crashes>>

\* success_count % CHECKPOINT_EVERY == 0.  (At success_count = 0 the code
\* does not flush; there is nothing to flush then.)
CheckpointDue(n) == n % CheckpointEvery = 0

\* The pool returns the masks of one graph, for all algorithms at once.
Collect(j, g) ==
  /\ pc[j] = "pool" /\ g \in tasks[j] /\ g \in cached
  /\ tasks' = [tasks EXCEPT ![j] = @ \ {g}]
  /\ held' = [held EXCEPT ![j] = [a \in Algo |-> IF a \in algos[j] THEN @[a] \cup {g}
                                                 ELSE @[a]]]
  /\ count' = [count EXCEPT ![j] = (@ + 1) % CheckpointEvery]
  /\ pc' = [pc EXCEPT ![j] = IF CheckpointDue(count[j] + 1) THEN "flush" ELSE @]
  /\ UNCHANGED <<cached, chunks, algos, done, missing, scanned, index, crashes>>

\* The file is gone: the worker returns None.
CollectNone(j, g) ==
  /\ pc[j] = "pool" /\ g \in tasks[j] /\ g \notin cached
  /\ tasks' = [tasks EXCEPT ![j] = @ \ {g}]
  /\ missing' = [missing EXCEPT ![j] = @ \cup {g}]
  /\ pc' = [pc EXCEPT ![j] = IF CheckpointDue(count[j]) THEN "flush" ELSE @]
  /\ UNCHANGED <<cached, chunks, algos, done, held, count, scanned, index, crashes>>

\* The pool is exhausted: on to the last flush.
PoolEmpty(j) ==
  /\ pc[j] = "pool" /\ tasks[j] = {}
  /\ pc' = [pc EXCEPT ![j] = "final"]
  /\ UNCHANGED <<cached, chunks, algos, done, tasks, missing, held, count,
                 scanned, index, crashes>>

\* Mutant: the accumulated results of all algorithms are cleared at once.
FlushClearingAll(j, a) ==
  /\ pc[j] \in {"flush", "final"} /\ held[j][a] # {}
  /\ chunks' = [chunks EXCEPT ![a] = @ \cup {held[j][a]}]
  /\ held' = [held EXCEPT ![j] = Empty]
  /\ UNCHANGED <<cached, pc, algos, done, tasks, missing, count, scanned,
                 index, crashes>>

\* Mutant: one index file per algorithm, replaced by what is accumulated.
FlushReplacing(j, a) ==
  /\ pc[j] \in {"flush", "final"} /\ held[j][a] # {}
  /\ chunks' = [chunks EXCEPT ![a] = {held[j][a]}]
  /\ held' = [held EXCEPT ![j][a] = {}]
  /\ UNCHANGED <<cached, pc, algos, done, tasks, missing, count, scanned,
                 index, crashes>>

\* _flush_indices, one algorithm: a new chunk file, and its dict is cleared.
Flush(j, a) ==
  /\ pc[j] \in {"flush", "final"} /\ held[j][a] # {}
  /\ chunks' = [chunks EXCEPT ![a] = @ \cup {held[j][a]}]
  /\ held' = [held EXCEPT ![j][a] = {}]
  /\ UNCHANGED <<cached, pc, algos, done, tasks, missing, count, scanned,
                 index, crashes>>

\* _flush_indices returns: to the pool, or the job is complete.
Flushed(j) ==
  /\ pc[j] \in {"flush", "final"} /\ held[j] = Empty
  /\ pc' = [pc EXCEPT ![j] = IF @ = "flush" THEN "pool" ELSE "done"]
  /\ UNCHANGED <<cached, chunks, algos, done, tasks, missing, held, count,
                 scanned, index, crashes>>

Gone(j) ==
  /\ pc' = [pc EXCEPT ![j] = "idle"]
  /\ algos' = [algos EXCEPT ![j] = {}]
  /\ done' = [done EXCEPT ![j] = {}]
  /\ tasks' = [tasks EXCEPT ![j] = {}]
  /\ missing' = [missing EXCEPT ![j] = {}]
  /\ held' = [held EXCEPT ![j] = Empty]
  /\ count' = [count EXCEPT ![j] = 0]
  /\ scanned' = [scanned EXCEPT ![j] = {}]

Exit(j) ==
  /\ pc[j] = "done"
  /\ Gone(j)
  /\ UNCHANGED <<cached, chunks, index, crashes>>

\* The SLURM time limit, or an exception in a worker: what is held is lost.
Crash(j) ==
  /\ pc[j] \notin {"idle", "done"} /\ crashes < MaxCrash
  /\ crashes' = crashes + 1
  /\ Gone(j)
  /\ UNCHANGED <<cached, chunks, index>>

-----------------------------------------------------------------------------
(***************************************************************************)
(* Readers and the cache they share with the job.                          *)
(***************************************************************************)

\* Mutant: the index is reloaded from one chunk only.
LoadOneChunk(r, a) ==
  /\ ~index[r][a].loaded
  /\ \E c \in chunks[a] : index' = [index EXCEPT ![r][a] = Loaded(c)]
  /\ UNCHANGED <<cached, chunks, jobvars, crashes>>

\* _get_mask_entry, first access: all chunk files of the algorithm are
\* merged; the result is kept for the life of the process.
Load(r, a) ==
  /\ ~index[r][a].loaded
  /\ index' = [index EXCEPT ![r][a] = Loaded(Stored(a))]
  /\ UNCHANGED <<cached, chunks, jobvars, crashes>>

\* clear_mask_index_cache, or the next process.
Unload(r) ==
  /\ index[r] # [a \in Algo |-> Unloaded]
  /\ index' = [index EXCEPT ![r] = [a \in Algo |-> Unloaded]]
  /\ UNCHANGED <<cached, chunks, jobvars, crashes>>

\* The cache is still being filled, or cleaned.
CacheGains(g) ==
  /\ g \notin cached
  /\ cached' = cached \cup {g}
  /\ UNCHANGED <<chunks, jobvars, index, crashes>>

CacheLoses(g) ==
  /\ g \in cached /\ crashes < MaxCrash
  /\ cached' = cached \ {g}
  /\ crashes' = crashes + 1
  /\ UNCHANGED <<chunks, jobvars, index>>

Step(j) ==
  \/ \E g \in Graph : ScanMore(j, g) \/ Collect(j, g) \/ CollectNone(j, g)
  \/ \E a \in Algo : Flush(j, a)
  \/ PoolEmpty(j) \/ Flushed(j)

Next ==
  \/ \E j \in Job : \/ \E wanted \in AlgoSets : Start(j, wanted)
                    \/ Step(j) \/ Exit(j) \/ Crash(j)
  \/ \E r \in Reader : Unload(r) \/ \E a \in Algo : Load(r, a)
  \/ \E g \in Graph : CacheGains(g) \/ CacheLoses(g)

Spec == Init /\ [][Next]_vars

\* A running job is scheduled, and a job that ended is submitted again.
FairSpec ==
  /\ Spec
  /\ \A j \in Job : /\ WF_vars(Step(j)) /\ WF_vars(Exit(j))
                    /\ WF_vars(\E wanted \in AlgoSets : Start(j, wanted))

-----------------------------------------------------------------------------
(***************************************************************************)
(* A graph a job does not take up, because it found it done, has the masks *)
(* of every algorithm the job was asked for; so a kill between the chunks  *)
(* of two algorithms only costs a recomputation.                           *)
(***************************************************************************)
SkipJustified ==
  \A j \in Job : pc[j] = "pool" =>
    \A g \in scanned[j] \ (tasks[j] \cup missing[j]), a \in algos[j] :
      g \in Stored(a) \cup held[j][a]

(***************************************************************************)
(* A job that completes leaves a mask of every requested algorithm for     *)
(* every graph it came across whose file was there, whatever other jobs    *)
(* and earlier killed runs did to the index directory.                     *)
(***************************************************************************)
CompleteRun ==
  \A j \in Job : pc[j] = "done" =>
    \A g \in scanned[j] \ missing[j], a \in algos[j] : g \in Stored(a)

(***************************************************************************)
(* A kill costs at most CHECKPOINT_EVERY graphs                            *)
(* (precompute_sparsification_masks.sh: "Past that first checkpoint,       *)
(* resubmission does make progress").                                      *)
(***************************************************************************)
LossBounded ==
  \A j \in Job : Cardinality(UNION {held[j][a] : a \in Algo}) <= CheckpointEvery

(***************************************************************************)
(* A published mask is never lost, by any flush, kill or resubmission.     *)
(***************************************************************************)
MasksNeverLost == [][\A a \in Algo : Stored(a) \subseteq Stored(a)']_vars

(***************************************************************************)
(* A training process that loads its index while no run is unfinished sees *)
(* every mask a completed run has promised: it raises for no graph.        *)
(***************************************************************************)
LoadAfterRunSeesAll ==
  [][\A r \in Reader, a \in Algo, j \in Job :
       /\ ~index[r][a].loaded /\ index'[r][a].loaded
       /\ pc[j] = "done" /\ a \in algos[j]
       => scanned[j] \ missing[j] \subseteq index'[r][a].masks]_vars

(***************************************************************************)
(* Kills only delay: with jobs resubmitted and kills bounded, every graph  *)
(* that stays in the cache gets the mask of every algorithm always asked.  *)
(***************************************************************************)
EventuallyMasked ==
  \A g \in Graph, a \in Algo :
    (\A wanted \in AlgoSets : a \in wanted)
      => (<>[](g \in cached) => <>(g \in Stored(a)))

\* What of this a client of the jobs sees.
Published == {m \in Algo \X Graph : m[2] \in Stored(m[1])}
Phase == [j \in Job |-> IF pc[j] = "idle" THEN "off"
                        ELSE IF pc[j] = "done" THEN "success" ELSE "on"]
Owed == [j \in Job |-> algos[j] \X (scanned[j] \ missing[j])]

(***************************************************************************)
(* Pools, checkpoints, chunk files and resubmissions implement the service *)
(* of MaskService: only masks of graphs a running job took up are          *)
(* published, none is withdrawn, and a job completes only when all of them *)
(* are on disk, whatever other jobs and earlier killed runs left there.    *)
(***************************************************************************)
Service == INSTANCE MaskService WITH made <- Published, phase <- Phase, owed <- Owed
ServiceKept == Service!Spec
=============================================================================
