--------------------------- MODULE DatasetStartup ---------------------------
(***************************************************************************)
(* Starting a training process on a cached dataset: the sample list, the   *)
(* manifest and the batch plan that successive and concurrent processes of *)
(* one configuration leave to each other on disk                           *)
(* (src/src/data/dataset.py _build_samples, _load_manifest, process;       *)
(* src/src/data/sampler.py load_or_build_batch_plan;                       *)
(* src/src/data/datamodule.py setup).                                      *)
(*                                                                         *)
(* All processes share one cache signature (csv paths, split, seed, ...),  *)
(* so they share the manifest; the plan's file name adds the node budget.  *)
(* The signature hashes the CSV's path, not its content.  The graph cache  *)
(* is taken as GraphCache establishes it: a rebuild serves existing files  *)
(* with their exact node counts, and jobs of other encodings overwrite     *)
(* index entries.                                                          *)
(***************************************************************************)
EXTENDS NodeBudget, SequencesExt

CONSTANTS
  Graph,     \* raw graph paths
  Job,       \* processes
  Tables,    \* the sample sequences the CSV and its split can yield
  Size,      \* Size[g]: node count of graph g
  Budgets,   \* max_total_nodes_per_batch settings in use
  MayVanish, \* BOOLEAN: raw files may be deleted again
  MaxEnv,    \* bound on the changes to CSV, raw files and index
  MaxCrash,  \* bound on the crashes of a behaviour
  None       \* a file that does not exist, a setting of no process

ASSUME ConstantsAssumption ==
  /\ IsFiniteSet(Graph)
  /\ Tables # {} /\ Tables \subseteq Seq(Graph)
  /\ Size \in [Graph -> Nat \ {0}]
  /\ Budgets \subseteq Nat \ {0} /\ Budgets # {}
  /\ MayVanish \in BOOLEAN
  /\ MaxEnv \in Nat /\ MaxCrash \in Nat

VARIABLES
  table,     \* the candidate samples the CSV and split yield now
  raw,       \* raw graph files that exist
  indexed,   \* graphs with a global-index entry that hits for this config
  files,     \* graphs with a published cache file
  manifest,  \* dataset_<signature>_manifest.json: its entries, in order
  planFile,  \* planFile[b]: dynamic_batches/train_<digest>.json per budget
  pc,        \* pc[j]: what process j does next
  budget,    \* budget[j]: its node budget
  samples,   \* samples[j]: self.samples
  sizes,     \* sizes[j]: self._node_sizes
  plan,      \* plan[j]: _train_batch_plan
  changes,   \* environment changes so far
  crashes

disk    == <<manifest, planFile>>
world   == <<table, raw, indexed, files>>
jobvars == <<pc, budget, samples, sizes, plan>>
vars    == <<world, disk, jobvars, changes, crashes>>

MaxSamples == Max({Len(t) : t \in Tables})
SampleSeqs == SeqOf(Graph, MaxSamples)
Plans      == SUBSET SUBSET (1..MaxSamples)

TypeOK ==
  /\ table \in Tables
  /\ raw \subseteq Graph /\ indexed \subseteq files /\ files \subseteq Graph
  /\ manifest \in SampleSeqs \cup {None}
  /\ planFile \in [Budgets -> Plans \cup {None}]
  /\ pc \in [Job -> {"idle", "build", "load", "rebuild", "write", "plan", "ready"}]
  /\ budget \in [Job -> Budgets \cup {None}]
  /\ samples \in [Job -> SampleSeqs]
  /\ sizes \in [Job -> SeqOf({Size[g] : g \in Graph}, MaxSamples)]
  /\ plan \in [Job -> Plans]
  /\ changes \in 0..MaxEnv /\ crashes \in 0..MaxCrash

Init ==
  /\ table \in Tables
  /\ raw \in SUBSET Graph
  /\ indexed = {} /\ files = {}
  /\ manifest = None
  /\ planFile = [b \in Budgets |-> None]
  /\ pc = [j \in Job |-> "idle"]
  /\ budget = [j \in Job |-> None]
  /\ samples = [j \in Job |-> <<>>]
  /\ sizes = [j \in Job |-> <<>>]
  /\ plan = [j \in Job |-> {}]
  /\ changes = 0 /\ crashes = 0

-----------------------------------------------------------------------------
(***************************************************************************)
(* What a process computes from the files it finds.                        *)
(***************************************************************************)

\* The rows of a list whose graphs are in a set, in their order.
RowsIn(rows, set) ==
  LET upTo[i \in 0..Len(rows)] ==
        IF i = 0 THEN <<>>
        ELSE IF rows[i] \in set THEN Append(upTo[i - 1], rows[i]) ELSE upTo[i - 1]
  IN  upTo[Len(rows)]

\* _build_samples: with a manifest, the rows it knows in CSV order and then
\* the unknown rows whose raw file exists; without one, the rows that the
\* global index or the file system vouches for, in CSV order.
SampleList(rows, found, index, known) ==
  IF known = None THEN RowsIn(rows, index \cup found)
  ELSE LET listed == ToSet(known)
       IN  RowsIn(rows, listed) \o RowsIn(rows, found \ listed)

\* Mutant: the manifest is accepted when it lists the same graphs.
AcceptsAnyOrder(known, list) == known # None /\ ToSet(known) = ToSet(list)

\* _load_manifest: accepted only if it lists the samples in their order.
Accepts(known, list) == known # None /\ known = list

\* _apply_manifest: the node sizes, in the order of the manifest's entries.
SizesOf(entries) == [i \in DOMAIN entries |-> Size[entries[i]]]

\* Mutant: whatever plan lies on disk is reused.
NormalizedAlways(stored, count) == stored # None /\ stored # {}

\* _normalize_batch_plan: a stored plan is reused if its batch lengths add
\* up to the number of samples.
Normalized(stored, count) ==
  stored # None /\ stored # {} /\ MapThenSumSet(Cardinality, stored) = count

\* Mutant: the file name leaves max_total_nodes out.
PlanKeyShared(b) == CHOOSE x \in Budgets : TRUE

\* batch_plan_cache_path: one plan file per node budget.
PlanKey(b) == b

-----------------------------------------------------------------------------
(***************************************************************************)
(* One process.                                                            *)
(***************************************************************************)
Goto(j, where) == pc' = [pc EXCEPT ![j] = where]

Start(j, b) ==
  /\ pc[j] = "idle"
  /\ Goto(j, "build")
  /\ budget' = [budget EXCEPT ![j] = b]
  /\ UNCHANGED <<world, disk, samples, sizes, plan, changes, crashes>>

\* AIGGraphRegressionDataset.__init__: self.samples = self._build_samples().
BuildSamples(j) ==
  /\ pc[j] = "build"
  /\ samples' = [samples EXCEPT ![j] = SampleList(table, raw, indexed, manifest)]
  /\ Goto(j, "load")
  /\ UNCHANGED <<world, disk, budget, sizes, plan, changes, crashes>>

\* process(): the manifest is read a second time, by _load_manifest.
UseManifest(j) ==
  /\ pc[j] = "load"
  /\ Accepts(manifest, samples[j])
  /\ sizes' = [sizes EXCEPT ![j] = SizesOf(manifest)]
  /\ Goto(j, "plan")
  /\ UNCHANGED <<world, disk, budget, samples, plan, changes, crashes>>

RejectManifest(j) ==
  /\ pc[j] = "load"
  /\ ~Accepts(manifest, samples[j])
  /\ Goto(j, "rebuild")
  /\ UNCHANGED <<world, disk, budget, samples, sizes, plan, changes, crashes>>

\* Graphs a rebuild can serve: an index hit reads no raw file, anything
\* else stats it.
Servable(j) == ToSet(samples[j]) \subseteq indexed \cup raw

\* Mutant: the index entries are written for files that are not.
RebuildIndexOnly(j) ==
  /\ pc[j] = "rebuild" /\ Servable(j)
  /\ indexed' = indexed \cup ToSet(samples[j])
  /\ Goto(j, "write")
  /\ UNCHANGED <<table, raw, files, disk, budget, samples, sizes, plan, changes, crashes>>

\* _rebuild_graph_cache, to its end.
Rebuild(j) ==
  /\ pc[j] = "rebuild" /\ Servable(j)
  /\ indexed' = indexed \cup ToSet(samples[j])
  /\ files' = files \cup ToSet(samples[j])
  /\ Goto(j, "write")
  /\ UNCHANGED <<table, raw, disk, budget, samples, sizes, plan, changes, crashes>>

\* Mutant: the entries are written newest first.
WriteManifestReversed(j) ==
  /\ pc[j] = "write"
  /\ manifest' = Reverse(samples[j])
  /\ sizes' = [sizes EXCEPT ![j] = SizesOf(samples[j])]
  /\ Goto(j, "plan")
  /\ UNCHANGED <<world, planFile, budget, samples, plan, changes, crashes>>

\* process(): the new manifest replaces the old one and is applied.
WriteManifest(j) ==
  /\ pc[j] = "write"
  /\ manifest' = samples[j]
  /\ sizes' = [sizes EXCEPT ![j] = SizesOf(samples[j])]
  /\ Goto(j, "plan")
  /\ UNCHANGED <<world, planFile, budget, samples, plan, changes, crashes>>

\* datamodule.setup: load_or_build_batch_plan over the train sizes.
Plan(j) ==
  LET k      == PlanKey(budget[j])
      chosen == IF Normalized(planFile[k], Len(sizes[j])) THEN planFile[k]
                ELSE BuildBatchPlan(sizes[j], budget[j])
  IN  /\ pc[j] = "plan"
      /\ plan' = [plan EXCEPT ![j] = chosen]
      /\ planFile' = [planFile EXCEPT ![k] = chosen]
      /\ Goto(j, "ready")
      /\ UNCHANGED <<world, manifest, budget, samples, sizes, changes, crashes>>

\* The process is gone with all it held.
Gone(j) ==
  /\ Goto(j, "idle")
  /\ budget' = [budget EXCEPT ![j] = None]
  /\ samples' = [samples EXCEPT ![j] = <<>>]
  /\ sizes' = [sizes EXCEPT ![j] = <<>>]
  /\ plan' = [plan EXCEPT ![j] = {}]

Exit(j) ==
  /\ pc[j] = "ready"
  /\ Gone(j)
  /\ UNCHANGED <<world, disk, changes, crashes>>

\* A rebuild meets a raw file that is gone and raises; the graphs it had
\* come to before that are cached.
Fail(j) ==
  /\ pc[j] = "rebuild" /\ ~Servable(j)
  /\ \E done \in SUBSET (ToSet(samples[j]) \cap (indexed \cup raw)) :
       /\ files' = files \cup done
       /\ \E saved \in {{}, done} : indexed' = indexed \cup saved
  /\ Gone(j)
  /\ UNCHANGED <<table, raw, disk, changes, crashes>>

\* A kill, in a rebuild after any part of it.
Crash(j) ==
  /\ pc[j] \notin {"idle", "ready"} /\ crashes < MaxCrash
  /\ crashes' = crashes + 1
  /\ IF pc[j] = "rebuild"
     THEN \E done \in SUBSET (ToSet(samples[j]) \cap (indexed \cup raw)) :
            /\ files' = files \cup done
            /\ \E saved \in {{}, done} : indexed' = indexed \cup saved
     ELSE UNCHANGED <<files, indexed>>
  /\ Gone(j)
  /\ UNCHANGED <<table, raw, disk, changes>>

-----------------------------------------------------------------------------
(***************************************************************************)
(* The environment: data creation and other configurations' jobs.          *)
(***************************************************************************)
Environment ==
  /\ changes < MaxEnv
  /\ changes' = changes + 1
  /\ \/ \E t \in Tables \ {table} : table' = t /\ UNCHANGED <<raw, indexed>>
     \/ \E g \in Graph \ raw : raw' = raw \cup {g} /\ UNCHANGED <<table, indexed>>
     \/ \E g \in raw : /\ MayVanish
                       /\ raw' = raw \ {g} /\ UNCHANGED <<table, indexed>>
     \/ \E g \in indexed : indexed' = indexed \ {g} /\ UNCHANGED <<table, raw>>
  /\ UNCHANGED <<files, disk, jobvars, crashes>>

\* What a process does once it is started, up to having its plan.
Step(j) ==
  \/ BuildSamples(j) \/ UseManifest(j) \/ RejectManifest(j)
  \/ Rebuild(j) \/ WriteManifest(j) \/ Plan(j) \/ Fail(j)

Next ==
  \/ \E j \in Job : \/ \E b \in Budgets : Start(j, b)
                    \/ Step(j) \/ Exit(j) \/ Crash(j)
  \/ Environment

Spec == Init /\ [][Next]_vars

\* A running process is scheduled; nobody has to start one or change files.
FairSpec == Spec /\ \A j \in Job : WF_vars(Step(j))

-----------------------------------------------------------------------------
(***************************************************************************)
(* The node sizes a process plans with are those of its samples, position  *)
(* by position: why _load_manifest compares lists.                         *)
(***************************************************************************)
SizesAligned ==
  \A j \in Job : pc[j] \in {"plan", "ready"} => sizes[j] = SizesOf(samples[j])

(***************************************************************************)
(* A plan, built or reused from any earlier process, puts every sample of  *)
(* this process in exactly one batch ("the plan must still cover every     *)
(* test graph exactly once", test_dataset.py, said of the train plan too). *)
(***************************************************************************)
PlanCovers ==
  \A j \in Job : pc[j] = "ready" => CoversOnce(plan[j], Len(samples[j]))

(***************************************************************************)
(* Every graph the manifest on disk names has a published cache file,      *)
(* whoever wrote it and wherever processes were killed.                    *)
(***************************************************************************)
ManifestBacked == manifest # None => ToSet(manifest) \subseteq files

(***************************************************************************)
(* sampler.py: "Build dynamic batches from graph sizes under a total-node  *)
(* budget": no batch a process will load exceeds its budget, single graphs *)
(* aside.                                                                  *)
(***************************************************************************)
PlanWithinBudget ==
  \A j \in Job : pc[j] = "ready" =>
    \A batch \in plan[j] : WithinBudget(sizes[j], batch, budget[j])

(***************************************************************************)
(* The same, where it can hold: as long as nothing changes under the       *)
(* processes, a plan one of them left on disk fits every other one's       *)
(* budget, whatever its own budget was.                                    *)
(***************************************************************************)
BudgetKeptInPeace == changes = 0 => PlanWithinBudget

(***************************************************************************)
(* Once the environment has stopped, processes stop rejecting the manifest *)
(* and rebuilding: racing writers with different orders cannot keep        *)
(* invalidating each other's manifest for ever.  The exception is a listed *)
(* graph whose raw file was deleted: such a graph is kept by a manifest    *)
(* that names it and dropped under one that does not, so two racing starts *)
(* can undo each other's manifest, and a rebuild that needs the file fails.*)
(***************************************************************************)
Settles ==
  \/ <>[](\A j \in Job : pc[j] # "rebuild")
  \/ []<>(\E j \in Job : ~(ToSet(samples[j]) \subseteq raw))
=============================================================================
