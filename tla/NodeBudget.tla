----------------------------- MODULE NodeBudget -----------------------------
(***************************************************************************)
(* The node-budgeted batch plan of src/src/data/sampler.py as a function.  *)
(*                                                                         *)
(* build_batch_plan sorts the sample indices by node count and packs them: *)
(* a batch takes the largest graph left, then the smallest graphs left     *)
(* while their nodes still fit under the budget.  `size' is a sequence of  *)
(* node counts, one per sample; a plan is a set of batches and a batch is  *)
(* a set of sample indices (the loaders shuffle batches, and a batch is    *)
(* collated whole, so neither order carries meaning).                      *)
(***************************************************************************)
EXTENDS Integers, Sequences, FiniteSets, FiniteSetsExt

\* Sum of the node counts of the samples in `batch'.
Nodes(size, batch) == MapThenSumSet(LAMBDA i : size[i], batch)

\* sorted(range(n), key=lambda i: sizes[i]): a stable sort, so equal counts
\* keep their index order.
SortedIndices(size) ==
  LET before(i, j) == size[i] < size[j] \/ (size[i] = size[j] /\ i < j)
  IN  [k \in DOMAIN size |->
         CHOOSE i \in DOMAIN size :
           Cardinality({j \in DOMAIN size : before(j, i)}) = k - 1]

\* The positions of the small end of a pool from..to that join a batch
\* which already holds `total' nodes: the longest run that fits the budget.
Fits(size, order, from, to, total, budget) ==
  LET load(k) == total + Nodes(size, {order[m] : m \in from..k})
  IN  Max({from - 1} \cup {k \in from..to : load(k) <= budget})

\* build_batch_plan + _build_node_budgeted_batches, with max(1, budget):
\* pack[hi][lo] are the batches that a pool lo..hi is packed into.
BuildBatchPlan(size, budget) ==
  LET order == SortedIndices(size)
      n     == Len(size)
      pack[hi \in 0..n] ==
        [lo \in 1..(n + 1) |->
           IF lo > hi THEN {}
           ELSE LET last == Fits(size, order, lo, hi - 1, size[order[hi]],
                                 Max({1, budget}))
                IN  {{order[hi]} \cup {order[m] : m \in lo..last}}
                      \cup pack[hi - 1][last + 1]]
  IN  pack[n][1]

\* A batch the loader may build: within the budget, or one graph on its own.
WithinBudget(size, batch, budget) ==
  Nodes(size, batch) <= budget \/ Cardinality(batch) = 1

\* The plan mentions every sample of 1..n in exactly one batch.
CoversOnce(plan, n) ==
  /\ UNION plan = 1..n
  /\ \A b, c \in plan : b # c => b \cap c = {}
=============================================================================
