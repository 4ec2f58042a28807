---------------------------- MODULE BatchPacking ----------------------------
(***************************************************************************)
(* The packing loop of BalancedDynamicBatchSampler                         *)
(* (_build_node_budgeted_batches in src/src/data/sampler.py).              *)
(*                                                                         *)
(* The pool is a deque of sample indices sorted by node count; the loop    *)
(* only pops its right end (the largest) and its left end (the smallest),  *)
(* so the pool is always a run lo..hi of sorted positions, and a batch is  *)
(* its largest position `top' plus a run from..to of small ones.           *)
(***************************************************************************)
EXTENDS NodeBudget

CONSTANTS
  Inputs   \* the calls: records [n, size, prefix, budget], see below

(***************************************************************************)
(* A call sorts before it packs, so `size' is nondecreasing, and           *)
(* build_batch_plan clamps the budget to at least 1.  prefix[k] is the sum *)
(* of the first k sizes: it lets the invariants speak of the nodes of a    *)
(* run of positions without a recursive sum.                               *)
(***************************************************************************)
ASSUME InputsAssumption ==
  \A c \in Inputs :
    /\ c.n \in Nat
    /\ c.size \in [1..c.n -> Nat]
    /\ \A i, j \in 1..c.n : i <= j => c.size[i] <= c.size[j]
    /\ c.prefix \in [0..c.n -> Nat]
    /\ c.prefix[0] = 0
    /\ \A i \in 1..c.n : c.prefix[i] = c.prefix[i - 1] + c.size[i]
    /\ c.budget \in Nat \ {0}

VARIABLES
  call,      \* the input of this call, a member of Inputs
  lo, hi,    \* the pool: positions lo..hi of the sorted order
  open,      \* BOOLEAN: a batch is being filled
  batch,     \* that batch: [top, from, to]
  total,     \* its running node total
  batches    \* the batches closed so far

vars == <<call, lo, hi, open, batch, total, batches>>

Batch == [top : Nat, from : Nat, to : Nat]

\* The positions of a batch, and the nodes they add up to.
Positions(b) == {b.top} \cup (b.from .. b.to)
LoadOf(b) == call.size[b.top] + call.prefix[b.to] - call.prefix[b.from - 1]

TypeOK ==
  /\ lo \in Nat /\ hi \in Nat
  /\ open \in BOOLEAN
  /\ batch \in Batch
  /\ total \in Nat
  /\ batches \subseteq Batch

Init ==
  /\ call \in Inputs
  /\ lo = 1 /\ hi = call.n
  /\ open = FALSE
  /\ batch = [top |-> 0, from |-> 1, to |-> 0]
  /\ total = 0
  /\ batches = {}

\* Mutant: the largest graph is taken off the pool twice.
PopLargestTwice ==
  /\ ~open /\ lo <= hi
  /\ open' = TRUE
  /\ batch' = [top |-> hi, from |-> lo, to |-> lo - 1]
  /\ total' = call.size[hi]
  /\ hi' = hi - 2
  /\ UNCHANGED <<call, lo, batches>>

\* pool.pop(): start a batch with the largest graph left.
PopLargest ==
  /\ ~open /\ lo <= hi
  /\ open' = TRUE
  /\ batch' = [top |-> hi, from |-> lo, to |-> lo - 1]
  /\ total' = call.size[hi]
  /\ hi' = hi - 1
  /\ UNCHANGED <<call, lo, batches>>

\* Mutant: the budget test looks at the running total only.
PopSmallestUnchecked ==
  /\ open /\ lo <= hi
  /\ total <= call.budget
  /\ batch' = [batch EXCEPT !.to = lo]
  /\ total' = total + call.size[lo]
  /\ lo' = lo + 1
  /\ UNCHANGED <<call, hi, open, batches>>

\* pool.popleft(): the smallest graph left joins while it fits.
PopSmallest ==
  /\ open /\ lo <= hi
  /\ total + call.size[lo] <= call.budget
  /\ batch' = [batch EXCEPT !.to = lo]
  /\ total' = total + call.size[lo]
  /\ lo' = lo + 1
  /\ UNCHANGED <<call, hi, open, batches>>

\* Mutant: a batch is closed although the next small graph still fits.
CloseBatchEarly ==
  /\ open
  /\ batches' = batches \cup {batch}
  /\ open' = FALSE
  /\ total' = 0
  /\ UNCHANGED <<call, lo, hi, batch>>

\* break, or an empty pool: batches.append(batch).
CloseBatch ==
  /\ open
  /\ lo > hi \/ total + call.size[lo] > call.budget
  /\ batches' = batches \cup {batch}
  /\ open' = FALSE
  /\ total' = 0
  /\ UNCHANGED <<call, lo, hi, batch>>

Next == PopLargest \/ PopSmallest \/ CloseBatch

Spec == Init /\ [][Next]_vars

Finished == ~open /\ lo > hi

-----------------------------------------------------------------------------
\* The positions every closed batch, the open batch and the pool account for.
Held == IF open THEN batches \cup {batch} ELSE batches
Pool == lo..hi

(***************************************************************************)
(* No sample is lost, doubled or invented at any point of the loop: closed *)
(* batches, the open batch and the pool partition the sample positions.    *)
(* (A plan that drops or repeats an index trains on the wrong data, and    *)
(* _normalize_batch_plan would not notice: it only adds up lengths.)       *)
(***************************************************************************)
Partition ==
  /\ (UNION {Positions(b) : b \in Held}) \cup Pool = 1..call.n
  /\ \A b \in Held : Positions(b) \cap Pool = {}
  /\ \A b, c \in Held : b # c => Positions(b) \cap Positions(c) = {}

(***************************************************************************)
(* A closed batch is within the node budget unless it is one graph that is *)
(* too large on its own (test_max_total_nodes_creates_singletons_...).     *)
(***************************************************************************)
BudgetKept ==
  \A b \in batches : LoadOf(b) <= call.budget \/ Positions(b) = {b.top}

(***************************************************************************)
(* A batch is closed only when no graph left in the pool would have fitted *)
(* it: the test on the smallest one is enough because the pool is sorted.  *)
(***************************************************************************)
NothingLeftFits ==
  \A b \in batches : \A i \in Pool : LoadOf(b) + call.size[i] > call.budget

\* The loop's result is the plan NodeBudget defines for the same sizes.
MatchesPlan ==
  Finished => {Positions(b) : b \in batches} = BuildBatchPlan(call.size, call.budget)
=============================================================================
