------------------------------ MODULE LevelIndex ------------------------------
(***************************************************************************)
(* The index of node levels of a cache directory: precomputing runs read   *)
(* _levels.pt whole when they start and write it whole at checkpoints and  *)
(* at the end (src/src/data/compute_levels.py); the mask precomputation    *)
(* looks levels up in it and computes what it does not find                *)
(* (src/src/data/partition.py).                                            *)
(***************************************************************************)
EXTENDS GraphData

CONSTANTS
  Runs,            \* runs of precompute_levels
  Catalogue,       \* the directories to check: [file |-> graph]
  CheckpointEvery, \* CHECKPOINT_EVERY
  Unread,          \* an index that a process has not loaded
  MaxStarts,       \* bound: starts of runs and readers
  MaxCrashes       \* bound: killed runs and failed reads of the index

ASSUME LevelIndexAssumption ==
  CheckpointEvery \in Nat \ {0} /\ MaxStarts \in Nat /\ MaxCrashes \in Nat

ASSUME CatalogueAssumption == \A c \in Catalogue : \A f \in DOMAIN c : WellFormed(c[f])

VARIABLES
  content, \* content[f]: the graph a cache file of this name holds, if there
  present, \* the files in the directory
  index,   \* _levels.pt
  run,     \* run[r]: phase, entries accumulated, files to do, successes
  memo,    \* _LEVELS_INDEX_CACHE of the reader
  answer,  \* the reader's last look-up: the file and its levels
  starts, crashes,
  overlapped, \* history: the runs that another run has run beside
  blind,      \* history: the runs that could not read the index
  absent      \* history: files not there at some time since a run last started

history == <<overlapped, blind, absent>>
vars == <<content, present, index, run, memo, answer, starts, crashes, history>>

Files == DOMAIN content
Empty == [f \in {} |-> <<>>]
Idle  == [phase |-> "idle", index |-> Empty, todo |-> {}, successes |-> 0]

Running == {r \in Runs : run[r].phase # "idle"}

Init ==
  /\ content \in Catalogue
  /\ present \in SUBSET Files
  /\ index = Empty
  /\ run = [r \in Runs |-> Idle]
  /\ memo = Unread /\ answer = <<>>
  /\ starts = 0 /\ crashes = 0
  /\ overlapped = {} /\ blind = {} /\ absent = {}

\* A run begins with these entries.
Begin(r, found) ==
  /\ run[r].phase = "idle" /\ starts < MaxStarts
  /\ run' = [run EXCEPT ![r] = [Idle EXCEPT !.phase = "scan", !.index = found]]
  /\ starts' = starts + 1
  /\ overlapped' = IF Running = {} THEN overlapped \ {r} ELSE overlapped \cup Running \cup {r}
  /\ absent' = Files \ present
  /\ UNCHANGED <<content, present, index, memo, answer>>

\* The index is read, whole.
Start(r) ==
  /\ Begin(r, index)
  /\ blind' = blind \ {r}
  /\ UNCHANGED crashes

\* Any exception while an existing index is read counts as an empty index.
StartBlind(r) ==
  /\ index # Empty /\ crashes < MaxCrashes
  /\ Begin(r, Empty)
  /\ blind' = blind \cup {r}
  /\ crashes' = crashes + 1

\* Mutant: what is done is asked of the file, whatever the run has of it.
ScanByFile(r) ==
  /\ run[r].phase = "scan"
  /\ run' = [run EXCEPT ![r].phase = "compute",
                        ![r].todo = present \ DOMAIN index]
  /\ UNCHANGED <<content, present, index, memo, answer, starts, crashes, history>>

\* Files without an entry; after a failed read, every file.
Scan(r) ==
  /\ run[r].phase = "scan"
  /\ run' = [run EXCEPT ![r].phase = "compute",
                        ![r].todo = present \ DOMAIN run[r].index]
  /\ UNCHANGED <<content, present, index, memo, answer, starts, crashes, history>>

\* A result of the pool; a file that has gone gives none.  At a checkpoint
\* the index is replaced by what the run has accumulated, and again with
\* every missing file that follows.
Collect(r, f) ==
  LET got  == f \in present
      acc  == IF got THEN [x \in DOMAIN run[r].index \cup {f} |->
                             IF x = f THEN NodeLevels(content[f]) ELSE run[r].index[x]]
              ELSE run[r].index
      wins == run[r].successes + (IF got THEN 1 ELSE 0)
  IN  /\ run[r].phase = "compute" /\ f \in run[r].todo
      /\ run' = [run EXCEPT ![r].index = acc, ![r].todo = @ \ {f}, ![r].successes = wins]
      /\ index' = IF wins > 0 /\ wins % CheckpointEvery = 0 THEN acc ELSE index
      /\ UNCHANGED <<content, present, memo, answer, starts, crashes, history>>

\* The last flush; an empty index is not written.
Finish(r) ==
  /\ run[r].phase = "compute" /\ run[r].todo = {}
  /\ index' = IF run[r].index # Empty THEN run[r].index ELSE index
  /\ run' = [run EXCEPT ![r] = Idle]
  /\ UNCHANGED <<content, present, memo, answer, starts, crashes, history>>

\* A kill, or a worker's exception, which ends the run without a flush.
Crash(r) ==
  /\ run[r].phase # "idle" /\ crashes < MaxCrashes
  /\ run' = [run EXCEPT ![r] = Idle] /\ crashes' = crashes + 1
  /\ UNCHANGED <<content, present, index, memo, answer, starts, history>>

\* _get_level_for_file: the index is loaded once per process.  A reader that
\* cannot read it ends with the exception.
Load ==
  /\ memo = Unread /\ memo' = index
  /\ UNCHANGED <<content, present, index, run, answer, starts, crashes, history>>

LookUp(f) ==
  /\ memo # Unread /\ f \in present
  /\ answer' = <<f, IF f \in DOMAIN memo THEN memo[f] ELSE NodeLevels(content[f])>>
  /\ UNCHANGED <<content, present, index, run, memo, starts, crashes, history>>

NewReader ==
  /\ memo # Unread /\ starts < MaxStarts
  /\ memo' = Unread /\ answer' = <<>> /\ starts' = starts + 1
  /\ UNCHANGED <<content, present, index, run, crashes, history>>

\* The data set adds cached graphs and scratch cleaning removes them; a name
\* stands for its content.
FileAppears(f) ==
  /\ f \notin present /\ present' = present \cup {f}
  /\ UNCHANGED <<content, index, run, memo, answer, starts, crashes, history>>
FileGoes(f) ==
  /\ f \in present /\ starts < MaxStarts
  /\ present' = present \ {f} /\ starts' = starts + 1
  /\ absent' = absent \cup {f}
  /\ UNCHANGED <<content, index, run, memo, answer, crashes, overlapped, blind>>

Next ==
  \/ \E r \in Runs : \/ Start(r) \/ StartBlind(r) \/ Scan(r) \/ Finish(r) \/ Crash(r)
                     \/ \E f \in Files : Collect(r, f)
  \/ \E f \in Files : LookUp(f) \/ FileAppears(f) \/ FileGoes(f)
  \/ Load \/ NewReader

Spec == Init /\ [][Next]_vars

----------------------------------------------------------------------------
(* Properties *)

\* Levels got from the index or computed on a miss are the depths that the
\* AIG itself has, whatever runs were killed or ran side by side: the single
\* pass of compute_node_levels (compute_levels.py:47-55) is enough on every
\* graph, outputs and constants included.
LevelsRight ==
  /\ \A f \in DOMAIN index : index[f] = ExtractedLevels(content[f])
  /\ answer # <<>> => answer[2] = ExtractedLevels(content[answer[1]])

\* The index is replaced whole (compute_levels.py:147-154), and a run that
\* cannot read it begins without entries and puts less in its place
\* (compute_levels.py:104-111).  Yet it loses an entry only to a run that
\* another has overlapped, or to one that could not read it and has the file
\* still to do: by the end of such a run every entry is back whose file was
\* there all the time.  A run by itself that has read the index only adds.
ForgetsOnlyForCause ==
  [][\A f \in DOMAIN index \ DOMAIN index' : \E r \in Runs :
       /\ Finish(r) \/ \E x \in Files : Collect(r, x)
       /\ \/ r \in overlapped
          \/ r \in blind /\ f \in run'[r].todo \cup absent]_vars

----------------------------------------------------------------------------
(* Reference definitions: a path is the set of its nodes, since edges lead  *)
(* to higher indices.                                                       *)

Chains(g, from, to) ==
  {s \in SUBSET (from..to) :
     /\ {from, to} \subseteq s
     /\ \A n \in s \ {to} : <<n, Min({m \in s : m > n})>> \in Edges(g)}

Span(g, s) ==
  LET level == ExtractedLevels(g)
  IN  Max({0} \cup {level[Min({m \in s : m > n})] - level[n] : n \in s \ {Max(s)}})

PathsTo(g, n) ==
  UNION {{s \in Chains(g, p, n) : Span(g, s) <= MaxPathDepth} : p \in 1..g.pis}

Distance(g, n, m) == Min({Cardinality(s) - 1 : s \in Chains(g, n, m)})

Near(g, n) ==
  {m \in Nodes(g) : Chains(g, n, m) # {} /\ Distance(g, n, m) <= Cutoff}

\* The graphs never change, so what holds of them is looked at once, before
\* any process has started.
Untouched == starts = 0 /\ memo = Unread /\ present = {}
Graphs == {content[f] : f \in Files}

\* The features stored with a graph are those of its paths: counts pushed
\* downstream in index order (data_utils.py:189-198) count every path of
\* short spans from an input exactly once, and the search that stops at the
\* cutoff (data_utils.py:200-212) sums true distances.
FeaturesRight ==
  Untouched => \A g \in Graphs : \A n \in Nodes(g) :
    /\ PathCounts(g)[n] = Cardinality(PathsTo(g, n))
    /\ NeighbourhoodSum(g, n) = MapThenSumSet(LAMBDA m : Distance(g, n, m), Near(g, n))

Slice(parts, i) == {n \in DOMAIN parts.id : parts.id[n] = i}

SlicesSound ==
  \A g \in Graphs : \A k \in MinK..MaxK :
    LET parts == Partitioned(g, k)
        sizes == {Cardinality(Slice(parts, i)) : i \in 0..k - 1}
    IN  /\ UNION {Slice(parts, i) : i \in 0..k - 1} = Nodes(g)
        /\ Max(sizes) - Min(sizes) <= 1
        /\ \A e \in Edges(g) : parts.id[e[1]] <= parts.id[e[2]]
        /\ \A h \in Graphs :
             LET batch == <<parts, Partitioned(h, DynamicK(h)), parts>>
             IN  \A i, j \in DOMAIN batch :
                   i # j => BatchIds(batch, i) \cap BatchIds(batch, j) = {}

CompactionSound ==
  \A g \in Graphs : \A keep \in {AndGateOnly(g)} \cup {Nodes(g) \ {n} : n \in Nodes(g)} :
    LET c == Compacted(g, keep)
        old(i) == CHOOSE n \in keep : Cardinality({m \in keep : m < n}) = i
    IN  /\ c.nodes = Cardinality(keep)
        /\ \A e \in c.edges : 0 <= e[1] /\ e[1] < e[2] /\ e[2] < c.nodes
        /\ {<<old(e[1]), old(e[2])>> : e \in c.edges} = Edges(g) \cap (keep \X keep)

\* Slices are even and never empty while there are nodes to share, no kept
\* or cut edge leads to an earlier slice, no label is changed by its storage
\* type, and graphs in a batch share no partition (partition.py:124-144, 252,
\* partition_utils.py:31-35, 104-148).  Dropping nodes keeps the edges
\* between the others, one for one, and their topological order, on which
\* every later pass over the graph relies (sparsification.py:182-195).
ReductionsSound == Untouched => SlicesSound /\ CompactionSound
=============================================================================
