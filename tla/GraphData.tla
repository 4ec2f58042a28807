------------------------------ MODULE GraphData ------------------------------
(***************************************************************************)
(* How an AIG becomes a graph and what is computed on it: topology, path   *)
(* counts and neighbourhoods (src/src/data/data_utils.py), levels          *)
(* (compute_levels.py), level slices and their application                 *)
(* (partition.py, partition_utils.py), node masks (sparsification.py).     *)
(*                                                                         *)
(* An AIG is [pis, gates, pos]: the number of its inputs, for each gate    *)
(* the set of its fanins, for each output its driver.  Its nodes are 0,    *)
(* the constant, then the inputs, then the gates, each after its fanins.   *)
(* Loops over nodes in index order are recursive functions whose value at  *)
(* n is the array after n nodes.                                           *)
(***************************************************************************)
EXTENDS Integers, Sequences, FiniteSets, FiniteSetsExt, Functions

CONSTANTS
  MaxPathDepth,  \* max_path_depth: spans longer than this carry no path
  Cutoff,        \* neighborhood_cutoff
  Target,        \* TARGET_NODES_PER_PART
  MinK, MaxK,    \* MIN_K, MAX_K
  LabelBits      \* width of a partition label: 8

\* config.MAX_K is 32: the labels fit.
ASSUME GraphDataAssumption ==
  /\ MaxPathDepth \in Nat /\ Cutoff \in Nat /\ Target \in Nat /\ LabelBits \in Nat \ {0}
  /\ MinK \in Nat \ {0} /\ MaxK \in Nat /\ MinK <= MaxK /\ MaxK <= 2 ^ (LabelBits - 1)

NumBase(g)  == 1 + g.pis + Len(g.gates)
NumNodes(g) == NumBase(g) + Len(g.pos)
Nodes(g)    == 0..NumNodes(g) - 1

\* What aigverse hands over: fanins come before their gate, outputs are
\* driven by a node of the AIG.
WellFormed(g) ==
  /\ g.pis \in Nat /\ g.gates \in Seq(SUBSET Nat) /\ g.pos \in Seq(Nat)
  /\ \A i \in DOMAIN g.gates : g.gates[i] \subseteq 0..g.pis + i - 1
  /\ \A i \in DOMAIN g.pos : g.pos[i] < NumBase(g)

\* The first column of x that is set.
Kind(g, n) ==
  CASE n = 0 -> "const"
    [] n \in 1..g.pis -> "pi"
    [] n \in g.pis + 1..NumBase(g) - 1 -> "gate"
    [] OTHER -> "po"

\* Each output is a node of its own, even when two have one driver.
Fanins(g, n) ==
  CASE Kind(g, n) = "gate" -> g.gates[n - g.pis]
    [] Kind(g, n) = "po"   -> {g.pos[n - NumBase(g) + 1]}
    [] OTHER               -> {}

Edges(g) == {e \in Nodes(g) \X Nodes(g) : e[1] \in Fanins(g, e[2])}

Successors(g, n) == {m \in Nodes(g) : n \in Fanins(g, m)}

\* DepthAig.level, and one more than its driver for an output.
ExtractedLevels(g) ==
  LET level[n \in Nodes(g)] ==
        IF Fanins(g, n) = {} THEN 0 ELSE 1 + Max({level[m] : m \in Fanins(g, n)})
  IN  level

\* Mutant: outputs are taken for leaves.
LevelledGates(g, n) == Kind(g, n) = "gate"

\* Nodes that get a level from their fanins.
Levelled(g, n) == Kind(g, n) \in {"gate", "po"} /\ Fanins(g, n) # {}

\* compute_node_levels: from the graph alone, in one pass over the array.
NodeLevels(g) ==
  LET array[n \in 0..NumNodes(g)] ==
        IF n = 0 THEN [m \in Nodes(g) |-> 0]
        ELSE LET done == array[n - 1]
             IN  IF Levelled(g, n - 1)
                 THEN [done EXCEPT ![n - 1] = Max({done[m] : m \in Fanins(g, n - 1)}) + 1]
                 ELSE done
  IN  array[NumNodes(g)]

\* Mutant: a span of the full depth is cut off.
ShortSpanStrict(depth) == depth < MaxPathDepth

\* Only short edges carry paths on.
ShortSpan(depth) == depth <= MaxPathDepth

\* _compute_paths_and_distances, first half: counts are pushed downstream.
PathCounts(g) ==
  LET level == ExtractedLevels(g)
      counts[n \in 0..NumNodes(g)] ==
        IF n = 0 THEN [m \in Nodes(g) |-> 0]
        ELSE LET at == n - 1
                 c  == IF Kind(g, at) = "pi" THEN [counts[at] EXCEPT ![at] = 1]
                       ELSE counts[at]
             IN  [m \in Nodes(g) |->
                    IF m \in Successors(g, at) /\ ShortSpan(level[m] - level[at])
                    THEN c[m] + c[at] ELSE c[m]]
  IN  counts[NumNodes(g)]

\* Its second half: a breadth-first search from each node, by rings.
NeighbourhoodSum(g, n) ==
  LET ring[d \in 0..Cutoff] ==  \* what the queue has reached at distance d
        IF d = 0 THEN [seen |-> {n}, front |-> {n}, sum |-> 0]
        ELSE LET r   == ring[d - 1]
                 new == (UNION {Successors(g, m) : m \in r.front}) \ r.seen
             IN  [seen |-> r.seen \cup new, front |-> new,
                  sum |-> r.sum + d * Cardinality(new)]
  IN  ring[Cutoff].sum

----------------------------------------------------------------------------
(* Partitions *)

\* compute_dynamic_k
DynamicK(g) ==
  LET k == NumNodes(g) \div Max({1, Target})
  IN  Max({MinK, Min({MaxK, k})})

\* run_level_slicing: equal slices of the nodes in a stable order of levels.
LevelSlices(g, k) ==
  LET level == NodeLevels(g)
      position(n) == Cardinality({m \in Nodes(g) : \/ level[m] < level[n]
                                                   \/ level[m] = level[n] /\ m < n})
  IN  [n \in Nodes(g) |-> Min({k - 1, (position(n) * k) \div NumNodes(g)})]

\* Masks are kept as signed integers of LabelBits bits.
Stored(label) ==
  LET w == label % (2 ^ LabelBits)
  IN  IF w >= 2 ^ (LabelBits - 1) THEN w - 2 ^ LabelBits ELSE w

\* partition_by_assignment: every node stays, edges across slices go.
Partitioned(g, k) ==
  LET id == [n \in Nodes(g) |-> Stored(LevelSlices(g, k)[n])]
  IN  [id |-> id, k |-> k, edges |-> {e \in Edges(g) : id[e[1]] = id[e[2]]}]

\* Mutant: ids are concatenated as they are.
BatchIdsPlain(parts, i) == {parts[i].id[n] : n \in DOMAIN parts[i].id}

\* PartitionedData.__inc__: in a batch the ids of a graph are offset by the
\* partitions of the graphs before it.
BatchIds(parts, i) ==
  {parts[i].id[n] + MapThenSumSet(LAMBDA j : parts[j].k, 1..i - 1) : n \in DOMAIN parts[i].id}

----------------------------------------------------------------------------
(* Node masks *)

\* and_gate_only_sparsification
AndGateOnly(g) == {n \in Nodes(g) : Kind(g, n) \notin {"pi", "po"}}

\* _apply_mask_to_data with a node mask: a node's new index is how many kept
\* nodes come before it.
NewIndex(keep, n) == Cardinality({m \in keep : m <= n}) - 1
Compacted(g, keep) ==
  [nodes |-> Cardinality(keep),
   edges |-> {<<NewIndex(keep, e[1]), NewIndex(keep, e[2])>> :
                e \in {f \in Edges(g) : f[1] \in keep /\ f[2] \in keep}}]
=============================================================================
