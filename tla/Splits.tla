------------------------------- MODULE Splits -------------------------------
(***************************************************************************)
(* Who trains on what: the train / validation / test split of the CSV's    *)
(* rows, the split files that processes leave to each other, the caches a  *)
(* process keeps of them, and the warm-up script that writes such files    *)
(* too (src/src/data/dataset.py _read_candidate_samples, _apply_split,     *)
(* _load_or_create_split_keys, _create_split_keys;                         *)
(* src/src/shell/warmup_cache.sh; warmup_train_cache.sh step 3b).          *)
(*                                                                         *)
(* One csv_paths list, one split_by and one cache directory: the split     *)
(* file's name then only tells num_samples, `disk[n]' below.  A file's     *)
(* size and mtime stand for its content: the CSV is one of a list of       *)
(* versions, the exclusion file (hp_tuning_splits_path), written once, is  *)
(* the set of the paths it lists.                                          *)
(***************************************************************************)
EXTENDS Integers, SequencesExt

CONSTANTS
  Path,       \* graph paths
  Design,     \* Design[p]: the group key of path p under split_by
  Csv,        \* Csv[v]: the rows of version v of the CSV, a path may repeat
  Setups,     \* datamodule configurations: seed, ratios, exclude, requests
  Shuffle,    \* Shuffle[s, n]: Random(s).shuffle of 1..n
  Draw,       \* Draw[s, n, k]: Random(s).sample of k out of 1..n
  WarmupSeed, \* the seed of warmup_cache.sh
  Stages,     \* <<n1, n2>>: the sample counts of the tuning stages
  Job,        \* processes
  None        \* num_samples=None; nothing read, no file

Split   == {"train", "val", "test"}
Version == DOMAIN Csv
Num     == {Stages[1], Stages[2], None}
Request == [split : Split, num : Num]

ASSUME ConstantsAssumption ==
  /\ Csv # <<>> /\ Csv \in Seq(Seq(Path))
  /\ Stages \in (Nat \ {0}) \X (Nat \ {0}) /\ Stages[1] # Stages[2]
  /\ None \notin Nat
  /\ \A c \in Setups : c.exclude \in BOOLEAN /\ c.requests \in Seq(Request)

\* Random(s).sample(range(n), k) returns k different indices.
ASSUME DrawAssumption ==
  \A c \in Setups, v \in Version : \A n \in 0..Len(Csv[v]) : \A k \in 0..n :
    Draw[c.seed, n, k] \subseteq 1..n /\ Cardinality(Draw[c.seed, n, k]) = k

-----------------------------------------------------------------------------
(***************************************************************************)
(* The split as a function of what it is computed from.                    *)
(***************************************************************************)
\* dict.fromkeys: first occurrences, in order.
Unique(seq) == FoldLeft(LAMBDA u, x : IF Contains(u, x) THEN u ELSE Append(u, x), <<>>, seq)

Shuffled(seq, seed) == [i \in DOMAIN seq |-> seq[Shuffle[seed, Len(seq)][i]]]

\* The i-th smallest number of S.
Nth(S, i) == CHOOSE x \in S : Cardinality({y \in S : y <= x}) = i

\* The rows at these positions, in their order.
RowsAt(rows, at) == [i \in 1..Cardinality(at) |-> rows[Nth(at, i)]]

\* _sample_rows: num_samples of the rows, in their order.
Sampled(rows, seed, num) ==
  IF num = None \/ num >= Len(rows) THEN rows ELSE RowsAt(rows, Draw[seed, Len(rows), num])

\* How many of n groups train and validate; the rest are test.
TrainCount(n, r) == LET t == (n * r.train) \div (r.train + r.val + r.test)
                    IN  IF n > 0 /\ r.train > 0 /\ t = 0 THEN 1 ELSE t
ValCount(n, r)   == LET v == (n * r.val) \div (r.train + r.val + r.test)
                        left == n - TrainCount(n, r)
                    IN  IF v < left THEN v ELSE left

\* Mutant: the test slice starts one group late.
SideOfShort(groups, ratios, g) ==
  LET n   == Len(groups)
      pos == CHOOSE i \in 1..n : groups[i] = g
      t   == TrainCount(n, ratios)
      v   == ValCount(n, ratios)
  IN  IF pos <= t THEN "train" ELSE IF pos <= t + v THEN "val"
      ELSE IF pos = t + v + 1 THEN "none" ELSE "test"

\* group_to_split: the slices of the shuffled groups.
SideOf(groups, ratios, g) ==
  LET n   == Len(groups)
      pos == CHOOSE i \in 1..n : groups[i] = g
      t   == TrainCount(n, ratios)
  IN  IF pos <= t THEN "train" ELSE IF pos <= t + ValCount(n, ratios) THEN "val" ELSE "test"

\* _create_split_keys: the paths of each split.
SplitRows(rows, seed, ratios, num) ==
  LET drawn  == Sampled(rows, seed, num)
      groups == Shuffled(Unique([i \in DOMAIN drawn |-> Design[drawn[i]]]), seed)
  IN  [s \in Split |-> {p \in Path : Contains(drawn, p) /\ SideOf(groups, ratios, Design[p]) = s}]

\* The rows _apply_split leaves: those the exclusion file does not name.
Candidates(rows, excluded) ==
  IF excluded = None THEN rows ELSE RowsAt(rows, {i \in DOMAIN rows : rows[i] \notin excluded})

\* _split_cache_meta of a dataset of setup c, over these files.
Meta(c, num, version, excluded) ==
  [kind |-> "meta", seed |-> c.seed, ratios |-> c.ratios, num |-> num,
   csv |-> version, excluded |-> IF c.exclude THEN excluded ELSE None]

\* What a payload with this meta data should hold.
PartOf(m) == SplitRows(Candidates(Csv[m.csv], m.excluded), m.seed, m.ratios, m.num)

MetaData == {Meta(c, n, v, x) : c \in Setups, n \in Num, v \in Version,
                                x \in (SUBSET Path) \cup {None}}
Payload  == [meta : MetaData, part : [Split -> SUBSET Path]]

\* What warmup_cache.sh writes: paths, but no __meta__.
Unmarked == [kind |-> "unmarked"]
Prepared == [meta : {Unmarked}, part : [Split -> SUBSET Path]]
Absent   == [meta |-> [kind |-> "absent"], part |-> [s \in Split |-> {}]]

-----------------------------------------------------------------------------
VARIABLES
  csv,         \* version of the CSV
  exclusion,   \* the paths the exclusion file lists, None before it is there
  disk,        \* disk[n]: the split file of num_samples = n
  prepared,    \* warmup_cache.sh has written the stages' files
  quiet,       \* history: the CSV was never replaced under a running process
  pc,          \* pc[j]: what process j does next
  setup,       \* setup[j]: its configuration, None if it does not run
  todo,        \* todo[j]: datasets it is still to build, in order
  rows,        \* rows[j]: _CSV_SAMPLE_CACHE, the version of the CSV it read
  memo,        \* memo[j][n]: _SPLITS_CACHE
  meta,        \* meta[j]: _cached_split_meta of the dataset being built
  have,        \* have[j]: datasets it has built
  undisturbed  \* history: the CSV was not replaced since j was started

files   == <<csv, exclusion, disk, prepared>>
jobvars == <<pc, setup, todo, rows, memo, meta, have, undisturbed>>
vars    == <<files, quiet, jobvars>>

TypeOK ==
  /\ csv \in Version
  /\ exclusion \in (SUBSET Path) \cup {None}
  /\ disk \in [Num -> Payload \cup Prepared \cup {Absent}]
  /\ prepared \in BOOLEAN /\ quiet \in BOOLEAN
  /\ pc \in [Job -> {"idle", "free", "memory", "disk", "compute", "publish"}]
  /\ setup \in [Job -> Setups \cup {None}]
  /\ todo \in [Job -> Seq(Request)]
  /\ rows \in [Job -> Version \cup {None}]
  /\ memo \in [Job -> [Num -> Payload \cup {Absent}]]
  /\ meta \in [Job -> MetaData \cup {None}]
  /\ have \in [Job -> SUBSET [split : Split, num : Num, paths : SUBSET Path]]
  /\ undisturbed \in [Job -> BOOLEAN]

Empty == [n \in Num |-> Absent]

Init ==
  /\ csv = 1
  /\ exclusion = None
  /\ disk = Empty
  /\ prepared = FALSE /\ quiet = TRUE
  /\ pc = [j \in Job |-> "idle"]
  /\ setup = [j \in Job |-> None]
  /\ todo = [j \in Job |-> <<>>]
  /\ rows = [j \in Job |-> None]
  /\ memo = [j \in Job |-> Empty]
  /\ meta = [j \in Job |-> None]
  /\ have = [j \in Job |-> {}]
  /\ undisturbed = [j \in Job |-> TRUE]

-----------------------------------------------------------------------------
(***************************************************************************)
(* One process.                                                            *)
(***************************************************************************)
Goto(j, where) == pc' = [pc EXCEPT ![j] = where]

Wanted(j) == Head(todo[j])

\* _split_cache_meta: the files' stat, taken once for each dataset object.
StatOnce(j) == IF meta[j] # None THEN meta[j]
               ELSE Meta(setup[j], Wanted(j).num, csv, exclusion)

\* A process of a setup that excludes starts with the exclusion file there:
\* without it open() raises before anything is written.
Start(j, c) ==
  /\ pc[j] = "idle"
  /\ c.exclude => exclusion # None
  /\ Goto(j, "free")
  /\ setup' = [setup EXCEPT ![j] = c]
  /\ todo' = [todo EXCEPT ![j] = c.requests]
  /\ UNCHANGED <<files, quiet, rows, memo, meta, have, undisturbed>>

\* _read_candidate_samples, for a new dataset object.
Read(j) ==
  /\ pc[j] = "free" /\ todo[j] # <<>>
  /\ rows' = [rows EXCEPT ![j] = IF @ = None THEN csv ELSE @]
  /\ Goto(j, "memory")
  /\ UNCHANGED <<files, quiet, setup, todo, memo, meta, have, undisturbed>>

\* _apply_split: the candidates that the payload names for the split.
Deliver(j, payload) ==
  LET left == ToSet(Candidates(Csv[rows[j]], IF setup[j].exclude THEN exclusion ELSE None))
      ds   == [split |-> Wanted(j).split, num |-> Wanted(j).num,
               paths |-> left \cap payload.part[Wanted(j).split]]
  IN  /\ have' = [have EXCEPT ![j] = @ \cup {ds}]
      /\ todo' = [todo EXCEPT ![j] = Tail(@)]
      /\ meta' = [meta EXCEPT ![j] = None]
      /\ Goto(j, "free")

\* _is_compatible_split_payload.
Compatible(payload, m) == payload.meta = m

\* _SPLITS_CACHE holds a payload for this file: use it or drop it.
LookInMemory(j) ==
  /\ pc[j] = "memory"
  /\ LET n == Wanted(j).num
     IN  IF memo[j][n] # Absent /\ Compatible(memo[j][n], StatOnce(j))
         THEN /\ Deliver(j, memo[j][n])
              /\ UNCHANGED memo
         ELSE /\ memo' = [memo EXCEPT ![j][n] = Absent]
              /\ meta' = [meta EXCEPT ![j] = IF memo[j][n] # Absent THEN StatOnce(j) ELSE @]
              /\ Goto(j, "disk")
              /\ UNCHANGED <<todo, have>>
  /\ UNCHANGED <<files, quiet, setup, rows, undisturbed>>

\* The split file: use it or compute the split.
LookOnDisk(j) ==
  /\ pc[j] = "disk"
  /\ LET n == Wanted(j).num
     IN  IF disk[n] # Absent /\ Compatible(disk[n], StatOnce(j))
         THEN /\ memo' = [memo EXCEPT ![j][n] = disk[n]]
              /\ Deliver(j, disk[n])
         ELSE /\ meta' = [meta EXCEPT ![j] = IF disk[n] # Absent THEN StatOnce(j) ELSE @]
              /\ Goto(j, "compute")
              /\ UNCHANGED <<memo, todo, have>>
  /\ UNCHANGED <<files, quiet, setup, rows, undisturbed>>

\* Mutant: the split is made before the excluded rows are dropped.
ComputeFromAll(j) ==
  LET c == setup[j]
      n == Wanted(j).num
  IN  /\ pc[j] = "compute"
      /\ memo' = [memo EXCEPT ![j][n] = [meta |-> StatOnce(j),
                                         part |-> SplitRows(Csv[rows[j]], c.seed, c.ratios, n)]]
      /\ Goto(j, "publish")
      /\ UNCHANGED <<files, quiet, setup, todo, rows, meta, have, undisturbed>>

\* _create_split_keys: the rows are those read before, __meta__ is the stat.
Compute(j) ==
  LET c    == setup[j]
      n    == Wanted(j).num
      from == Candidates(Csv[rows[j]], IF c.exclude THEN exclusion ELSE None)
  IN  /\ pc[j] = "compute"
      /\ memo' = [memo EXCEPT ![j][n] = [meta |-> StatOnce(j),
                                         part |-> SplitRows(from, c.seed, c.ratios, n)]]
      /\ Goto(j, "publish")
      /\ UNCHANGED <<files, quiet, setup, todo, rows, meta, have, undisturbed>>

\* Mutant: the file is written first come, first served.
PublishIfAbsent(j) ==
  LET n == Wanted(j).num
  IN  /\ pc[j] = "publish"
      /\ disk' = [disk EXCEPT ![n] = IF @ = Absent THEN memo[j][n] ELSE @]
      /\ Deliver(j, disk'[n])
      /\ UNCHANGED <<csv, exclusion, prepared, quiet, setup, rows, memo, undisturbed>>

\* os.replace: the computed payload replaces what is there.
Publish(j) ==
  LET n == Wanted(j).num
  IN  /\ pc[j] = "publish"
      /\ disk' = [disk EXCEPT ![n] = memo[j][n]]
      /\ Deliver(j, memo[j][n])
      /\ UNCHANGED <<csv, exclusion, prepared, quiet, setup, rows, memo, undisturbed>>

\* The process ends, or is killed, at any point.
Stop(j) ==
  /\ pc[j] # "idle"
  /\ Goto(j, "idle")
  /\ setup' = [setup EXCEPT ![j] = None]
  /\ todo' = [todo EXCEPT ![j] = <<>>]
  /\ rows' = [rows EXCEPT ![j] = None]
  /\ memo' = [memo EXCEPT ![j] = Empty]
  /\ meta' = [meta EXCEPT ![j] = None]
  /\ have' = [have EXCEPT ![j] = {}]
  /\ undisturbed' = [undisturbed EXCEPT ![j] = TRUE]
  /\ UNCHANGED <<files, quiet>>

-----------------------------------------------------------------------------
(***************************************************************************)
(* The scripts around them.                                                *)
(***************************************************************************)
Running == {j \in Job : pc[j] # "idle"}

\* warmup_cache.sh, make_split: 80 % train, 20 % val, the rest test.
MakeSplit(keys) ==
  LET n == Len(keys)
      t == (n * 8) \div 10
      v == (n * 2) \div 10
      slice == [train |-> SubSeq(keys, 1, t), val |-> SubSeq(keys, t + 1, t + v),
                test  |-> SubSeq(keys, t + v + 1, n)]
  IN  [s \in Split |-> {p \in Path : Contains(slice[s], p)}]

\* warmup_cache.sh, step 1: the unique paths, shuffled, are dealt to the two
\* stages.  It is run before a stage's workers are submitted.
Warmup ==
  LET keys == Shuffled(Unique(Csv[csv]), WarmupSeed)
      both == Stages[1] + Stages[2]
      end  == IF both < Len(keys) THEN both ELSE Len(keys)
      one  == IF Stages[1] < Len(keys) THEN Stages[1] ELSE Len(keys)
  IN  /\ Running = {}
      /\ disk' = [disk EXCEPT
            ![Stages[1]] = [meta |-> Unmarked, part |-> MakeSplit(SubSeq(keys, 1, one))],
            ![Stages[2]] = [meta |-> Unmarked, part |-> MakeSplit(SubSeq(keys, one + 1, end))]]
      /\ prepared' = TRUE
      /\ UNCHANGED <<csv, exclusion, quiet, jobvars>>

\* warmup_train_cache.sh, step 3b: the exclusion file is the union of both
\* stages' files; it is written once (mv -n).
MergeStages ==
  /\ exclusion = None
  /\ disk[Stages[1]] # Absent /\ disk[Stages[2]] # Absent
  /\ exclusion' = UNION {disk[Stages[i]].part[s] : i \in {1, 2}, s \in Split}
  /\ UNCHANGED <<csv, disk, prepared, quiet, jobvars>>

\* 10_algorithm_csv.sh writes the CSV again.
ReplaceCsv ==
  /\ csv < Len(Csv)
  /\ csv' = csv + 1
  /\ quiet' = (quiet /\ Running = {})
  /\ undisturbed' = [j \in Job |-> undisturbed[j] /\ j \notin Running]
  /\ UNCHANGED <<exclusion, disk, prepared, pc, setup, todo, rows, memo, meta, have>>

Next ==
  \/ \E j \in Job : \/ \E c \in Setups : Start(j, c)
                    \/ Read(j) \/ LookInMemory(j) \/ LookOnDisk(j)
                    \/ Compute(j) \/ Publish(j) \/ Stop(j)
  \/ Warmup \/ MergeStages \/ ReplaceCsv

Spec == Init /\ [][Next]_vars

-----------------------------------------------------------------------------
(***************************************************************************)
(* A split file with meta data holds the split of exactly the files its    *)
(* meta data describe, whoever wrote it, under whatever configuration and  *)
(* from whatever it had cached: __meta__ may be trusted.  It fails when    *)
(* the CSV is replaced under a running process, whose rows are older than  *)
(* its stat; such a payload is then accepted for good.                     *)
(***************************************************************************)
PayloadCurrent ==
  quiet => \A n \in Num : disk[n].meta.kind = "meta" => disk[n].part = PartOf(disk[n].meta)

(***************************************************************************)
(* config.py: "design" "holds out whole base circuits": two splits that a  *)
(* process loads for one num_samples share no group, although other        *)
(* processes replace the split file in between, with other ratios too.     *)
(***************************************************************************)
DesignsApart ==
  \A j \in Job : undisturbed[j] =>
    \A a, b \in have[j] :
      a.num = b.num /\ a.split # b.split =>
        \A p \in a.paths, q \in b.paths : Design[p] # Design[q]

(***************************************************************************)
(* The three splits a process loads for one num_samples hold every row it  *)
(* drew from the CSV: no group falls between the slices, and no payload of *)
(* another version or configuration is met.                                *)
(***************************************************************************)
NothingLost ==
  \A j \in Job : quiet /\ undisturbed[j] =>
    \A n \in {d.num : d \in have[j]} :
      {d.split : d \in {e \in have[j] : e.num = n}} = Split =>
        LET m == Meta(setup[j], n, csv, exclusion)
        IN  ToSet(Sampled(Candidates(Csv[m.csv], m.excluded), m.seed, n))
              \subseteq UNION {d.paths : d \in {e \in have[j] : e.num = n}}

(***************************************************************************)
(* warmup_cache.sh: "pre-compute disjoint splits for both stages ... so    *)
(* warm_cache and HP workers both pick them up without rebuilding": what   *)
(* the workers of the two stages train and validate on is disjoint.        *)
(***************************************************************************)
StagesDisjoint ==
  prepared =>
    \A i, j \in Job : \A a \in have[i], b \in have[j] :
      a.num = Stages[1] /\ b.num = Stages[2] => a.paths \cap b.paths = {}
=============================================================================
