# Formal models of the AIG dataset and training pipeline

This directory holds TLA+ models of the parts of the repository in which several
processes, or successive runs of one process, leave files to each other, and of the
algorithms on which those files rest: the audit and cleanup of names beside the preprocessing
jobs, the features and levels of graphs, the shared graph cache, the splits, the manifest and
plan a training start finds, the precomputed masks, training with its batch plans and
checkpoints, and the tuning jobs with their studies. TLC checks the models on small
instances; TLAPS proves the central properties for every size. Source paths below are
relative to the repository root; `src/` in front of a file of `src/src/` is left out where it is
plain.

## 1. The system

The repository trains graph neural networks on And-Inverter Graphs. Data flows one way,
through files on a shared file system, and almost every stage is a SLURM job that may run
beside its siblings, be killed at its time limit and be submitted again.

| Component | State it keeps | Operations | Talks to |
|---|---|---|---|
| Synthesis, optimisation, CSV (`data/creation/*`) | `.aig` archives, logs, per-algorithm CSVs | run ABC per recipe, archive, parse logs, merge tiers | preprocessing, dataset (CSV) |
| Preprocessing (`src/data/preprocess_data.py`, `data_utils.py`, `9_preprocess_graphs.sh`) | staged AIGs, a window of tasks, raw `.pt` graphs | stage what is missing, discover, convert in a pool, skip or overwrite | cleanup, dataset (raw graphs) |
| Name cleanup (`src/data/cleanup_naming.py`, `inspect_data.py`) | rename candidates, temporary archives | audit, rename PT, CSV and ZIP members, verify | every path above |
| Dataset (`src/data/dataset.py`) | samples, splits JSON, manifest, cached graphs, `_num_nodes_global.json`, process-wide caches | build samples, split, rebuild cache, apply manifest, `get` | sampler, masks, datamodule |
| Sampler (`src/data/sampler.py`) | batch plan in memory and in `dynamic_batches/*.json` | build, normalise, reuse a plan | datamodule |
| Mask precomputation (`src/data/partition.py`, `sparsification.py`) | chunk files per algorithm | scan or read manifests, compute in a pool, checkpoint, resume | dataset readers |
| Level index (`src/data/compute_levels.py`) | `_levels.pt`, one per directory | scan, compute in a pool, checkpoint, resume | mask precomputation |
| Mask readers (`src/data/partition_utils.py`, `sparsification.py`) | index per process | load once, look up, clear | dataset `get` |
| Datamodule (`src/data/datamodule.py`) | datasets, train, validation and test plans | `setup`, data loaders | dataset, sampler, trainer |
| Training (`src/train.py`, `train_utils.py`, `models/`) | checkpoints by run label, learning rate, logs | fit, warm-up, reduce the rate, save and evict checkpoints, stop early | datamodule, test |
| Hyper-parameter tuning (`src/hp_tuning*.py`, `shell/big_hp_tuning.sh`) | Optuna study, trial attributes, sentinels | trials, pruning, out-of-memory handling, stage-2 seeding, worker restarts | training |
| Test and benchmark (`src/test.py`, `benchmark.py`) | result CSVs, predictions | choose a checkpoint, evaluate, write rows | tables and plots |
| Warm-up jobs (`shell/warmup_*.sh`) | exclusion file, sentinels, layout version | build caches once, publish | dataset, training jobs |
| Reports (`trivial_baselines.py`, `results_to_latex.py`, `plot_results.py`, `measure_*.py`, `mem_trace.py`) | none that outlives a run | read, print, plot | - |

Where it is hard:

* **Shared files without locks.** The index `_num_nodes_global.json` is read whole, changed in
  memory and written whole by any number of jobs; only the rename is atomic.
* **Positional agreement.** Samples, node sizes, manifest entries and batch plans are lists
  that must agree position by position, yet they are computed at different times from
  different files (CSV, splits, manifest, plan).
* **Reuse by name.** Cached files, manifests, plans and split files are found by a hash of
  *some* of what determined them.
* **Kills between two writes**, resubmission, and files that vanish from scratch storage.
* **Outcomes written piece by piece**: a trial's attributes and its state are separate writes,
  copied and killed in between, and read by the next tuning stage.
* **Two hands on one thing**: a warm-up and a scheduler that write one learning rate, two
  counters of bad epochs, a cleanup that renames graphs while a job writes them, threads that
  look at a target and then rename to it.
* **Index arithmetic that no test recomputes**: path counts, levels, slices, batch offsets and
  the renumbering of nodes all rely on fanins having lower indices.
* **Things that should end**: rebuilding a cache, getting every graph masked, waiting for a
  sentinel, draining a pool.

What makes each part correct: a plan puts each sample in one batch and keeps the node
budget; a cache hands out existing files of the right graph and encoding with the right
node count; a start pairs sizes with samples; an epoch trains every sample once, and the
checkpoint evaluated is the best of its configuration; a cleanup changes names and nothing
else, and a preprocessing job that succeeds has built what it found; a mask run that completes is
complete, and a skipped graph is skipped for a reason; a tuning trial counts as a success exactly if it
completed, and seeds and copies keep that; nothing published is lost.

## 2. Modules

| Module | Models | Role |
|---|---|---|
| `NodeBudget` | `sampler.py` 60-99 | the plan as a function of sizes and budget; what a good plan is |
| `BatchPacking` | `sampler.py` 60-85 | the packing loop, one action per branch |
| `GraphCache` | `dataset.py` 699-866, 1019-1122 | concurrent cache rebuilds and the global index |
| `DatasetStartup` | `dataset.py` 249-275, 598-697, 868-889, 1124-1177; `sampler.py` 15-25, 117-159; `datamodule.py` 166-202 | processes starting on a shared manifest and plan |
| `Splits` | `dataset.py` 339-565; `warmup_cache.sh` 142-192; `warmup_train_cache.sh` 142-189 | split files, the caches of them in a process, the scripts that write or read them |
| `MaskPrecompute` | `partition.py` 206-472; `sparsification.py` 335-485; `partition_utils.py` 54-101 | mask jobs, chunk files, readers |
| `MaskService` | the promise of the above | what mask jobs implement (`ServiceKept`) |
| `Training` | `train.py` 63-249; `train_utils.py` 27-46, 116-131; `lightning_model.py` 297-366; `datamodule.py` 166-227; `sampler.py` 101-159; `config.py` 113-209; `test.py` 152-213 | training runs over `BatchPacking`, and the choice of a checkpoint |
| `Artifacts` | `inspect_data.py` 35-230, 306-344; `data_utils.py` 45-72 | names, keys, archives, graphs and CSV rows on disk |
| `NamingAudit` | `inspect_data.py` 358-1448, 1612-2185 | what the audit computes from them |
| `NamingCleanup` | `inspect_data.py` 1557-1975; `cleanup_naming.py` 47-448, 520-663 | the curator's audits and cleanups, step by step |
| `Preprocess` | `preprocess_data.py` 105-524; `9_preprocess_graphs.sh` 96-222 | the preprocessing job: staging, discovery, pool |
| `DataPreparation` | the two above | their composition on shared stores; properties |
| `GraphData` | `data_utils.py` 84-214; `compute_levels.py` 32-56; `partition.py` 74-144, 244-256; `partition_utils.py` 10-34, 104-148; `sparsification.py` 95-99, 169-228 | features, levels, slices and reductions of one graph |
| `LevelIndex` | `compute_levels.py` 79-186; `partition.py` 43-66 | runs that fill the level index and its reader |
| `HPTuning` | `hp_tuning.py` 47-61, 156-505, 683-723; `hp_tuning_utils.py` 45-110; `big_hp_tuning.sh` 142-236, 286-408; `warmup_cache.sh` 86-130 | tuning jobs of two stages: script, worker, trials, seeds, saved studies |
| `*_proofs` | - | the theorems about the module they are named after |
| `MCTraining`, `MCGraphCache`, `MCDatasetStartup`, `MCSplits`, `MCHPTuning`, `MCDataPreparation`, `MCLevelIndex` | - | instances for TLC |

`BatchPacking` and `DatasetStartup` extend `NodeBudget`: the first shows that the loop
computes the function (`MatchesPlan`), the second uses the function where the code calls
`build_batch_plan`. `Training` extends `BatchPacking`, so that a run packs its plan with the real
loop. `DataPreparation` extends `NamingCleanup` and `Preprocess`, which share the stores of
`Artifacts`; `LevelIndex` extends `GraphData`. `DatasetStartup` uses of the cache what `GraphCache` establishes: a
rebuild serves existing files with exact counts. `Splits` comes before it in a start: the rows
it delivers are the rows of the CSV that `DatasetStartup` takes as given.

### BatchPacking
The deque is only popped at its ends, so it is the run `lo..hi` of sorted positions, and a
batch is a largest position and a run of small ones. `PopLargest` is the outer loop's
`pop()`, `PopSmallest` the inner loop's `popleft()` with its budget test, `CloseBatch` the
`break` or the empty pool and `batches.append`. `Inputs` is the set of calls, with prefix
sums as data so that the node total of a run can be stated without recursion.

### Training
A run goes through `stage`. It packs (`Pack`, `StorePlan`) or reads (`ReusePlan`) its train plan,
is refused when its configuration has no name (`Unnamed`), makes its directory and starts
(`Fit`). `Step` trains one batch, in any order, and sets the rate while warming up; `Validate` is the
validation and early stopping; `Save` and `Evict` are `ModelCheckpoint`, which writes the new file
before it deletes the worst; `Adapt` is the plateau scheduler and the end of the epoch, in the order
in which Lightning calls them. `Kill` forgets memory and keeps files, `Launch` starts another run
in what is there. `Selected` is `resolve_checkpoint_path`. A loss is any of `Losses`; two of them print
alike, as the file name keeps four digits. The scheduler's relative threshold is a margin of
one, its factor one half, as configured. A run label is the sequence of the words that underscores join, so that `ParseRunLabel`
looks for `_partition_` and its like inside it, as `str.partition` does; that no algorithm or method has
a type's word inside is an assumption (`NameAssumption`), and true of all the repository's names. Lightning's callbacks are external and modelled by how
`train.py` configures them. `trained`, `earned`, `atBest` and `lastRate` are history for the properties.

### Artifacts, NamingAudit, NamingCleanup, Preprocess, DataPreparation
A name is a design, up to two algorithms, an id (recipe and step) and a form: clean, carrying a
`mktemp` token that ABC left in it, or bare. The forms decide what the regular expressions do: from
tier 1 on a token has a place of its own in the pattern; in tier 0 it becomes part of the design
unless the directory tells better. An archive is the sequence of its members, since zip files may
hold one name twice.

`NamingAudit` is the arithmetic of the audit: keys by tier, coverage, linkage, missing and
expected sets, breakdowns, the preview and the candidates; `Report` is all it writes about keys.
`NamingCleanup` scans the CSVs, archives and graphs one after the other, and cleans in three
phases, each with its verification. A rename is a look (`CheckPair`) and a rename (`RenamePair`) by one of
`Threads` threads; an archive is copied, compared, and moved by one of as many processes, where a
move across file systems is a copy that readers see half done (`BeginMove`, `EndMove`). `Preprocess` is a
submission of the job script or a run by hand: `Stage` each archive with something missing, `Discover`,
then a pool whose parent alternates between `Enqueue` and `Drain`, and whose workers `Take`, `Build` and
`Save`; `Build` opens the file under its final name, so it is torn until `Save`. `KillJob` and `KillCurator`
are kills. `before`, `quiet` and `calm` are history: the stores when the audit began, and whether others
have changed them since.

### GraphData, LevelIndex
A graph is its number of inputs, the fanins of each gate and the driver of each output; a node is an
index, as in the tensors. `PathCounts`, `NeighbourhoodSum`, `NodeLevels`, `LevelSlices`, `BatchIds` and `Compacted` are
the loops of the source as recursive functions; `LevelIndex` compares them with definitions over sets of
paths. Of `LevelIndex`, `Collect` includes the checkpoint that a result may trigger, and the following
ones, since the condition stays true while files turn out to be missing. `Load` and `LookUp` are the reader
in the mask precomputation. `Start` is a run that reads the index; `StartBlind` one whose read raises an
exception, which the code takes for an empty index and overwrites with less. `overlapped`, `blind` and `absent`
are history: the runs beside which another has run, the runs that could not read the index, and the files
that were not there at some time since a run started.

### GraphCache
A raw graph is its content version, which stands for size, mtime and node count. A cache
file is the key (encoding, path, version) of `_stable_graph_cache_name`; whether it holds
edge weights is its content, since the name does not say. A job reads the index (`Start`),
submits chunks (`Submit`), and for each graph takes one of the paths of `_process_one`: an
index hit (`ServeFromIndex`), an existing file (`ServeFromFile`), or a miss followed by the
second look of `_cache_single_graph` (`Miss`, then `LookAgain` and `Publish`, or `Refresh`
when another job was faster). `Consume` is the main thread's part, in the same action as
the worker's last step: the results of a chunk become visible to nobody in between, and a
kill loses both alike. `Save` writes the index between chunks. `Crash`, `Exit`,
`Regenerate` and `Purge` are the environment; the last two happen only while no job runs,
as data creation and scratch cleaning do.

### DatasetStartup
The processes share one cache signature (the signature hashes the CSV's *path*), so they
share the manifest; plan files differ by node budget. `SampleList` is `_build_samples`
after the split: with a manifest, its known rows in CSV order and then the new rows whose
raw file exists; without one, the rows the global index or the file system vouches for.
`UseManifest` and `RejectManifest` are `_load_manifest`'s list comparison, which reads the
manifest a second time. `Rebuild` is `GraphCache`'s rebuild in one step, possibly cut short
by `Crash` or, at a missing raw file, by `Fail`. `Plan` is `load_or_build_batch_plan` of a fresh process
(its in-process cache is empty). `Environment` changes the CSV, creates or deletes raw
files, and lets a job of another encoding overwrite an index entry.

### Splits
A datamodule builds its datasets one after the other (`todo`). For each, `Read` is
`_read_candidate_samples` (through the process's copy of the CSV rows), `LookInMemory` and
`LookOnDisk` are the two places where `_load_or_create_split_keys` finds a payload,
`Compute` is `_create_split_keys`, `Publish` the `os.replace`, and `Deliver` the end of
`_apply_split`. The stat of CSV and exclusion file (`StatOnce`) is taken when it is first
needed, thus *after* the rows were read, and kept for the dataset object: this order is why
the steps are apart. `Warmup` is step 1 of `warmup_cache.sh`, `MergeStages` step 3b of
`warmup_train_cache.sh`, `ReplaceCsv` a new run of the CSV merge.

There is one list of CSV paths, one `split_by` and one cache directory, so a split file is
told apart by `num_samples` only, as its name tells no more. A version of the CSV stands for
its size, mtime and content. The shuffle and the sample of Python's seeded generator are
constant functions of seed and length; ratios are whole parts of their sum where the code
has floats. `quiet` and `undisturbed` record whether the CSV was replaced under a running
process and appear in properties only.

### MaskPrecompute
`Start` reads the chunk files of all requested algorithms and scans; `ScanMore` takes up a
file that appears while the scan streams; `Collect` and `CollectNone` are results of the
pool; `Flush` writes one algorithm's accumulated results as a new chunk and clears them;
`Flushed` returns from `_flush_indices`. The sparsification job is the case without
`ScanMore`. A reader loads all chunks of an algorithm at its first access and keeps them
(`Load`). A chunk's name contains a time and a uuid, so a chunk is never overwritten.

`MaskService` says the same without pools, memory, cadence or files: a job owes masks,
publishes only what it owes, withdraws nothing, and succeeds only when all it owes is there.
`Published`, `Phase` and `Owed` map the jobs to it, and `ServiceKept` is the service's specification under
that mapping: a step of a job is a step of the service or changes nothing it can see.

### HPTuning
A job is a task of `big_hp_tuning.sh` with a workspace, and may be submitted more than once: each
submission begins with an empty study on its own scratch directory and writes the same copy (`Submit`). `Sleep` and `Proceed` are the
wait for the sentinel (`Warm` writes it), `Launch` the start of `python -m hp_tuning`,
`MayRestart` the test on exit code 137. Inside the process `LoadSeeds` and `Seed` are
`_seed_study_from_best`, one trial per step; `Ask` and `Tell` are what Optuna does around
`objective`; `SetAttr` is one write of `_set_trial_user_attr`, given up after three failures;
`HardPrune`, `FitCompletes`, `FitRunsOutOfMemory`, `FitIsPruned` and `FitRaises` are the ways
`objective` ends, each with the mark it leaves (the last two leave none). The sync loop is
`Backup` and `Move`, since `mv` puts a copy in place that was taken earlier; `Finish` is the
final sync and the exit. `Die` ends the process, `HardKill` the whole job, anywhere.

Of a trial's attributes the model keeps `selection_eligible`: it is the only one that code
reads again, in `Eligible`. The memory estimates behind `--hard_prune` are the set `Risky`.
`_purge_trial_memory` makes one trial's memory independent of the next's and has no part in the
study. Optuna is modelled from its use: `ask` takes the first WAITING trial, `tell` gives a
pruned trial the last value it reported, `skip_if_exists` compares parameters. Left out: a
worker killed between `PRAGMA journal_mode` and `create_study`, when there is a database but no
study, and the `python` child that a killed sync loop may leave behind, which can only make
the final backup fail. `dropped`, `told`, `saved` and `trained` are history for the properties.

## 3. Runs

| Run | Result | What it shows | Instance |
|---|---|---|---|
| `training` | pass | packing: partition, budget, equality with `NodeBudget`; epochs cover every sample; the rate obeys its two writers; early stopping follows a reduction; the selected checkpoint is the best | all sorted vectors of up to 6 sizes in 1..4, budgets 1..10; two launches of three configurations, up to 5 epochs, 4 losses, warm-up of 3 steps, 1 kill |
| `cache` | pass | served files exist, have the planned size, fit the encoding | 2 graphs, 2 concurrent jobs, 2 encodings, 2 versions, 1 fault, symmetric |
| `cache_serial` | pass | index never forgets, a returned rebuild is indexed, bounded loss | 3 graphs, one job at a time, legacy entries, 2 faults |
| `cache_norm` | violation of `ServedWeighted` | section 6 | 1 graph, 2 jobs in turn |
| `startup` | pass | sizes, plans, manifest and budget agree; rebuilding ends | 3 graphs, 2 processes, budgets 3 and 5, 1 change, 1 kill |
| `startup_budget` | violation of `PlanWithinBudget` | section 6 | 3 graphs in a fixed table, 1 process started again and again, budget 4, 1 change |
| `splits` | pass | a payload is what its meta data say, groups stay apart, no row is lost | 4 paths, 3 designs, 2 CSVs (one repeats a path), 3 configurations, 2 processes |
| `splits_stages` | violation of `StagesDisjoint` | section 6 | the same, the configurations of two tuning stages |
| `masks` | pass | justified skips, nothing lost, every graph masked, `MaskService` implemented | 2 graphs, 2 algorithms, 2 jobs, 1 reader, checkpoint every graph, 1 kill or deletion |
| `tuning` | pass | eligibility is completion, values are earned, seeds run once, restarts lose nothing, copies lose only to a resubmission, jobs end | a stage-1 job of 2 trials, a stage-2 job of 1, 2 configurations (one risky), up to 2 submissions of each, 1 restart, 1 sync round, 1 disturbance: kill, lost write, failed copy or resubmission |
| `data_prep` | pass | cleanups change names only and the audit's preview comes true, successful jobs deliver, renames replace nothing unshared, all ends | 4 data sets of up to 2 members per archive, 2 designs, 2 algorithms, 3 audits, cleanups or jobs, 2 threads, 1 worker with a window of 2, 1 kill or failed call |
| `levels` | pass | levels, features, slices, batches and reductions agree with their definitions; the index forgets only under overlap or after a failed read, and then what is computed again | 13 directories of graphs with 2 inputs and up to 3 gates, 2 runs, 1 reader, checkpoint every file, 2 kills or failed reads |

Bounds. Two jobs are enough for every lost update, overwritten file and rejected manifest:
each of these is a conflict between one writer and one other. Two graphs give a chunk
boundary, two algorithms a kill between two chunk files, two versions a stale name, two
budgets a shared plan. In `startup`, three graphs of sizes 1, 2 and 3 let a permutation of
a plan's list change its loads. In `splits`, one configuration tunes on a sample, one trains
on everything but the excluded rows and tests, one uses other ratios, so that two processes
want different payloads in the same file; a design with two graphs can be torn apart, and a
third appears with the second CSV. The sample takes the last rows and the shuffle rotates:
any fixed function will do for the properties that hold, and in `splits_stages` the samples
of the stages overlap, as two samples of the same rows from one seed may do. In `tuning` the jobs have the node one
after the other (`Nodes`), as stage 2 is submitted after stage 1; the seeding job may have been
killed in the middle, so its copy may be of any moment. Two trials let a restart find a finished
one, two configurations make `skip_if_exists` matter, and the one disturbance is a kill, a
lost attribute write, a failed copy, or a job submitted once more after it ended. TLC therefore sees no job that was
killed and then submitted again; `CopiesAdvance` and the other theorems cover those. The faults (`MaxFault`, `MaxCrash`) and environment changes
(`MaxEnv`) bound the length of behaviours, not the place where they strike; the proofs have
no such bounds. In `training` the second launch meets the plan, directory
and checkpoints of the first, finished or killed; with five epochs, patience 2 and scheduler patience
0 the rate can fall, reach its floor and be overwritten by the warm-up; three configurations are
enough to differ in reduction and split, and TopK is 2 so that the third file evicts one. In
`data_prep` the data sets are: tokens everywhere; two names that collide once clean; graphs still to
build from archives where one name occurs twice; and a clean graph that exists beside its messy twin
and two archives called tier0.zip. An audit, a cleanup and a job fit in three runs, as do a killed job
and its resubmission. In `levels` every shape of three gates up to symmetry is a directory of its own,
and one directory of two files is there for the interleavings; a checkpoint after every file makes a run that
could not read the index write less than there was.
`ChunkSize`, `SaveEvery` and `CheckpointEvery` are 256, 10 000 and 50 000 in
the code and constants here; the theorems hold for all values. `cache` and `cache_serial`
are two runs because index growth and index loss contradict each other under concurrency:
`IndexNeverForgets` and `ReturnIsIndexed` are false with two jobs at once, which is what the
`%1` throttle of `src/shell/warmup_train_cache.sh` is for.

Deadlock is checked except in `training`, `data_prep`, `levels` and `tuning`, where launches, runs, starts
and submissions are bounded and all is over when the last has ended.

Fairness. `DatasetStartup!FairSpec` asks only that a started process keeps running
(`WF(Step)`): an operating system schedules it; nobody has to start one, and the
environment owes nothing. `MaskPrecompute!FairSpec` adds that a job that ended is submitted
again, which is the procedure the comments of `precompute_sparsification_masks.sh` describe;
kills are bounded, as without that nothing would ever be masked. `HPTuning!FairSpec` asks that
a submitted job keeps running; a fit ends because the trainer is given `--max_trial_hours`.
Nobody has to write the sentinel: `WorkerEnds` holds because the wait is limited.
`DataPreparation!Fairness` asks that a started cleanup and a started job keep running, their threads
and pool workers included; nobody has to start one.

`Settles` has an exception: a sample whose raw file was deleted while a manifest or the
index still names it. One start keeps such a sample (its manifest lists it), another drops
it (it found a manifest without it), and two racing starts can undo each other's manifest
for ever; a rebuild that needs the file raises. TLC finds both without the exception.

## 4. Proofs

All theorems hold for arbitrary constants under the `ASSUME`s of the modules, which TLC evaluates
on the instances: finite sets, positive sizes and cadences; different configurations differ in what
names them, a configuration has a method exactly if it has a reduction, and no name has a type's word in it
(`NameAssumption`); initial data sets hold no
torn graph (`InitialAssumption`); the seeded draw returns as many indices as it is asked for
(`DrawAssumption`); and in a graph every fanin comes before its gate (`CatalogueAssumption`, which
is what aigverse hands over). Nothing bounds the numbers of processes, files, kills or changes.

* `Training_proofs`, packing: `TypeCorrect`, `PackingPartitions`, `PackingKeepsBudget`,
  `PackingIsMaximal`, `PackingIsThePlan`. The invariant describes the shape of the
  pool: closed batches lie in `1..lo-1` and above `hi`, and the running total is the load of the
  open batch. Without the shape, disjointness is not inductive; without sortedness, one failing
  test would say nothing about the rest of the pool. `PackingIsThePlan` (`MatchesPlan`) adds `MatchInv`: the closed
  batches and what the recursion packs the rest into are the plan, at every step. A batch that closes is the
  one the recursion takes, because the loads of growing runs are prefix sums that do not fall.
* `Training_proofs`, learning rate: `RateObeysLaw`, `StopsOnlyAfterReduction`. The second assumes
  `StopPatience >= SchedPatience + 2`. Its invariant, `StopInv`, relates the two counters: since the
  best epoch, either the rate has been reduced, or the scheduler has counted at least as many
  bad epochs as early stopping, less the one it has yet to see; the margin makes an epoch bad for the scheduler
  whenever it is bad for early stopping, never the other way round.
* `Training_proofs`, epochs and checkpoints: `EpochsCover`, `BestIsSelected`. `EpochInv` says that every
  stored plan partitions the samples of its packing call, and that the sums of the callback are those of the whole
  epochs and of the batches trained since. `FileInv` says of every directory that its files were
  trained under the one configuration that has its label, that none has a lower loss than the least the
  callback ever saw, and that one which has that loss is there and not about to be deleted: the file deleted is
  the worst of those kept when a better one had just been written. That a label is read back as it was
  written (`LabelParses`) keeps the directories of two configurations apart.
* `DataPreparation_proofs`: `RenamesReplaceOnlyShared`, `TypeCorrect`, `ReportsAreTrue`,
  `CleanupChangesNamesOnly`. `RenameInv` says that
  while nothing but the cleanup has touched the graphs, the target of a rename under way is free or has been taken by
  another candidate with the same target. For `ReportsAreTrue` (`JobsDeliver`), `TornInv` finds a writer or a
  fault for every torn graph, and `CalmInv` says what each stage of an undisturbed job has left: staging
  keeps whole archives and leaves out only what has its graphs, a task is a member of a staged archive, and
  all that the archives call for has a graph or a task. For `CleanupChangesNamesOnly` (`CleanupKeepsData`),
  `CleanInv` compares the stores with `before`, those of the last audit: its candidates and keys are the ones of
  `before`; each row, member and graph is what it was or has the name of its key, temporary copies included; after a
  phase has been verified without an error, nothing of that phase has its old name. A second cleanup with the
  same candidates changes nothing more, because cleaning a name twice is cleaning it once (`KeyOfKey`). That the preview
  comes true is then the equality of sets of keys (`KeysOfSame`), whatever is counted in them. The proof also
  shows that no move of an archive fails for want of its copy, although all tier0.zip share one temporary name:
  this needs that such an archive holds tier-0 names only (`InitialAssumption`), as the synthesis scripts write them.
* `LevelIndex_proofs`: `ForgetsForCause`, `LevelsAreRight`, `ReductionsAreSound`, `FeaturesAreRight`. `HoldInv` says that a run no other has overlapped
  and that could read the index holds every entry of it, and that of two runs under way both count as overlapped. `AccountInv`
  is about a run that could not: each file has an entry, is still to be done, or was absent.
  `LevelsAreRight` needs that the one pass over the nodes in index order (`NodeLevels`) computes the depths that
  `ExtractedLevels` defines by recursion on the fanins; this is an induction over the nodes (`PassIsEnough`), and
  the place where well-formedness matters.
  `ReductionsAreSound`: positions number the nodes of a graph in level order without gaps, so both formulas for a slice
  cut the same even shares (`Shares`), a later level never gets an earlier slice, and a label fits its storage type
  because `MaxK` does. Batches keep slices apart because each graph starts at the total of the slices before it
  (`OffsetIsTotal`). Compaction numbers the kept nodes in order, with `OldIndex` as its inverse.
  `FeaturesAreRight` follows two loops: after node `n`, the counts stand for the paths whose last but one
  node is not above `n` (`PathCountsRight`), and ring `d` of a search is the set of nodes at distance `d`, so its sum
  is the total of the distances (`SearchAdvances`, `SpreadIsTotal`). Paths are sequences of nodes that climb, hence
  finitely many.
* `GraphCache_proofs`: `TypeCorrect`, `ServesExistingFiles`, `ServesForConfig`,
  `ServesExactSizes`, `LossIsBounded`, `NeverForgets`, `ReturnsIndexed`. The inductive invariant says of *every* copy of an
  index, on disk or in a job's memory, that a tagged entry's encoding is the tag's, its graph
  the path's and its count the key's, so lost updates only trade true entries for true ones.
  Existence of served files needs that files vanish only between jobs.
  `ServesExactSizes` assumes `~LegacyIndex`. The last two assume `MaxRunning = 1`, the `%1` throttle: `AloneInv`
  says that the one job's copy has all the file has, and is the file unless results are unsaved.
* `DatasetStartup_proofs`: `SizesAreAligned`, `ManifestIsBacked`, `PlansCover`, `BudgetHoldsInPeace`. The
  invariant follows a list
  from the samples through the manifest to the sizes, and says that a process about to write
  its manifest has all its samples' files in place. The theorems about plans rest on what `BuildBatchPlan`
  returns for any sizes and any budget (`PlanPacks`): a partition whose batches keep the budget. `PlansInv` adds that
  every stored plan covers `1..n` once for *some* n. A plan whose lengths add up to
  another number n covers `1..n` (`CoverCounts`), so the length test of `_normalize_batch_plan` is enough
  for `PlansCover`. It is not enough for the budget, where the invariant needs that all processes find one list.
* `Splits_proofs`: `TypeCorrect`, `PayloadsAreCurrent`, `DesignsStayApart`, `LosesNothing`. For the groups, the
  invariant says that while the CSV stands still a payload in memory has the meta data the
  process would compute now, and that every dataset was cut from the payload in memory; a
  payload, once compatible, is therefore never exchanged between train and validation, although the
  file is. For the payloads, rows and stat of a process agree while `quiet`.
  Without these conditions both are false: the rows may then be older than the stat beside them.
  `LosesNothing` adds `WholeInv`, that a delivered split is the part of the drawn rows which the meta data
  call for, and the lemma that the three slices of the shuffled groups leave no group out, for any ratios and lengths.
* `MaskPrecompute_proofs`: `Implements`, `TypeCorrect`, `SkipsAreJustified`, `RunsAreComplete`, `MasksStay`,
  `LoadsSeeCompletedRuns`, `LossIsBounded`. Every graph a live job came across is accounted
  for: still a task, missing, in memory or in a chunk; the set read at the start stays a
  subset of the chunks because chunks only grow. The loss bound counts: in the pool a job
  holds at most `count` graphs, in a flush at most the cadence. `Implements` maps every action to a
  step of `MaskService` or a stutter; a success is a step of the service because of `RunsAreComplete`'s
  invariant, and a flush because what a job has in memory is among what it owes.
* `HPTuning_proofs`: `TypeCorrect`, `CompletedValuesEarned`, `EligibilityIsCompletion`, `ReRunsEachSeedOnce`,
  `RestartsContinue`, `CopiesAdvance`. The first two properties are not
  inductive: while a trial runs, its attribute, the mark about to be written and the
  result about to be told disagree in ways that only together make the finished trial right.
  `Pending` says how, `SoundTrial` what holds of any trial, and the invariant claims it of studies,
  copies and backups alike, so that steps which move a whole study (`Moves`) need one argument. The last three
  rest on `StudyInv`: trials are only appended and a finished one is never touched, so the copy, the file being written,
  the backup and the study are each behind the next; and a parameter set that is in a study is skipped
  when it is seeded again. That chain holds within a submission. For `CopiesAdvance`, `CountInv` adds that a copy which the
  current or last submission did not write was left by an earlier one. `RestartsContinue` assumes a study on disk (`~InMemory`), where a restart can find it.

The type invariants of `BatchPacking`, `GraphCache`, `MaskPrecompute`, `Splits`, `HPTuning` and
`DataPreparation` are proved; those of the other modules are stated beside their variables.

Recursion. tlapm cannot instantiate the library's induction theorems, which take an operator,
nor does it know `SelectSeq` or a recursive function of two arguments. A recursive function of one argument is a
`CHOOSE` to it, whose equation has to be proved to have a solution before it can be used. The lemmas
`NodesUnfold`, `PackUnfolds`, `RowsUnfold` and their like do this by least counterexamples (`LeastNat`, `LeastSet`, `NatInduct`,
the last an induction over a *set* of numbers). `BuildBatchPlan` is therefore a table of rows,
and `RowsIn` a function of its own. `Training_proofs` repeats those lemmas about `NodeBudget` that it needs. `LevelIndex_proofs`
repeats those about totals. In `GraphData`, `(UNION ...) \ seen` has its parentheses because TLC and tlapm
bind `UNION` and `\` differently without them.

Only model-checked: the liveness properties (`Settles`, `EventuallyMasked`, `WorkerEnds`,
`EverythingEnds`), which are out of the prover's reach. Every safety invariant and every action property of a
passing run is stated by a theorem.

## 5. Not modelled

* Tensor computations: models, METIS, PageRank, spanning forests, random masks, losses and
  metrics. What code does with a mask, an assignment or a loss is modelled for any of them.
* Formatting, logging, progress and timing; `mem_trace.py`, `measure_*.py`, `trivial_baselines.py`,
  `results_to_latex.py` and `plot_results.py` are sequential readers of finished files.
* ABC, SLURM and the scripts that call ABC: they are the environment that leaves archives and rows.
* `benchmark.py` and the evaluation in `test.py`: one process, one checkpoint, one CSV written at the end.
  `benchmark.py:335` pairs positions of its plan with rows of its result, which one loop fills in order.
* Of the cleanup, dry runs, `--phase` and `--no-verify`; of training, `last.ckpt`, which
  no code selects; of a datamodule, `validate` and `test`, whose plans are packed anew from
  the sizes in memory.
* `use_graph_cache=False`, the layout version of the warm-up jobs and `migrate_run_labels.sh`.

In `GraphCache`, a raw file does not change while a job runs and JSON files are never torn, as
they are replaced by rename; the three cache roots are one root, since a graph belongs to
exactly one. In `Training`, the samples of a configuration do not change between its launches: plans
over changing samples are the subject of `DatasetStartup`. In `NamingCleanup` one person runs
audits and cleanups, one at a time, and a CSV is rewritten in one step, being replaced when its copy
is complete. The list of components in `PROJECT.json` says for each part whether it is modelled.

## 6. Disagreements found

* **Cached files without edge weights are served under a tag that promises them**
  (`cache_norm`). `_process_one` (`dataset.py:1057`) returns an existing file unseen; the file's
  name does not depend on `normalize_edges`, and the entry it writes carries the job's own tag.
  The docstring of `_cache_index_tag` says a hit "can never return a file built for a different
  config". `_cache_single_graph` has the refresh that would help, but it is reached only when
  no file was there at the first look.
* **A reused plan exceeds the node budget** (`startup_budget`). `_normalize_batch_plan` compares
  counts. The CSV does not change in the run: while a first start runs, preprocessing finishes the raw graph of a
  row it has already passed over. The second start lists this graph last, after those of the manifest, the third
  where the CSV has it, and the plan of the second is applied to the list of the third.
  `BudgetKeptInPeace` shows that this takes a change of the data; `PlanCovers` shows that it never
  drops or repeats a sample.
* **The stages' split files are never used** (`splits_stages`). `warmup_cache.sh` writes the split
  files of both tuning stages so that workers "pick them up without rebuilding". It writes no
  `__meta__`, so `_is_compatible_split_payload` refuses them, the workers compute each stage's
  split on its own and replace the file, and the stages are no longer disjoint.

Met while modelling, without a run of their own:

* The manifest order is not reproducible: the comment in `_load_manifest` (`dataset.py:885`) takes for
  granted that `_build_samples` repeats the order the manifest was written in; after new rows it
  does not, at the price of one more full pass over the cache (`Settles`: only one).
* `big_hp_tuning.sh:372-374` restarts a worker killed for memory to "continue from the same Optuna
  DB/study", but its default (`:48`) is a study in memory, which dies with the process. `RestartContinues`
  is checked with SQLite. With the default there is also no stage-1 database to seed stage 2 from.
* "The DB is copied to WORKSPACE at the end so results are preserved" (`big_hp_tuning.sh:153`), but
  a tuning job that is submitted again replaces them. Its study lies in a directory named after the job id (`:154`), the copy
  in one named after stage and task (`:142`), and nothing reads the copy back: the first sync of the second
  submission puts a study in its place that began empty. `CopyAdvances` allows this, and shows that there is no other
  way to lose a finished trial from the copy.
* With the defaults `PATIENCE` 3 and `SCHEDULER_PATIENCE` 2 (`config.py:50,57`) the scheduler first
  reduces the rate at the end of the epoch after which early stopping ends the run: the reduction is never
  used. `train.sh` sets patience 4, the least for which `StopsOnlyAfterReduction` can be proved.
* A reduction of the rate during the warm-up is overwritten by the next step. The epoch summary of
  `TrainingStartupCallback` divides sums that run over the whole fit, not over the epoch.
* Two candidates with one target both find it free, and one graph replaces the other without an
  error; the verification looks for sources gone and targets present and passes. `cleanup_naming.py:14-15`
  announces a non-zero exit on any mismatch. An archive torn by a cut move is reported as unreadable and passes too.
* A token in a tier-0 member's name becomes part of its design, and the audit, which reads members
  without a hint, judges the name clean: it is never repaired, although preprocessing
  (`preprocess_data.py:141-147`) rejects it and refers to the cleanup. A CSV row that repeats such a name is
  judged by its directory and cleaned, so that a cleanup which passes its verification parts it from the member
  it named; `RowsStayResolved` therefore promises nothing for names whose key depends on the place
  they are read in (`SameKeyAnywhere`). The repository's own scripts write tier-0 names clean. It also means that no tier0.zip has a
  candidate, which is why their common temporary name does no harm.
* Staged files carry no directory to compare the design with, so the job script bypasses that guard.
* A graph torn by a kill exists, so it is never missing: it is built again only by a run that overwrites
  and, if it is the job script's, finds something else missing in the same archive.
