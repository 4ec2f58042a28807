----------------------------- MODULE MCTraining -----------------------------
(* Every nondecreasing size vector of at most MaxN graphs with sizes in    *)
(* 1..MaxSize, under every budget in 1..MaxBudget, is packed; two of these *)
(* calls are the train graphs of runs, in one batch and in two.            *)
EXTENDS Training

CONSTANTS MaxN, MaxSize, MaxBudget

PrefixSums(size) ==
  LET sum[k \in 0..Len(size)] == IF k = 0 THEN 0 ELSE sum[k - 1] + size[k]
  IN  [k \in 0..Len(size) |-> sum[k]]

SortedSizes ==
  {s \in UNION {[1..n -> 1..MaxSize] : n \in 1..MaxN} :
     \A i, j \in DOMAIN s : i <= j => s[i] <= s[j]}

PackingCall(s, b) == [n |-> Len(s), size |-> s, prefix |-> PrefixSums(s), budget |-> b]

MCInputs == {PackingCall(s, b) : s \in SortedSizes, b \in 1..MaxBudget}

Run(type, method, split, packing) ==
  [algorithm |-> <<"Orchestrate">>, type |-> type, method |-> method, split |-> split,
   call |-> packing]

\* The two configurations that once shared a directory, and one without a name.
MCConfigs ==
  {Run("none", <<>>, "random", PackingCall(<<1, 2, 3>>, 4)),
   Run("partition", <<"random">>, "design", PackingCall(<<1, 2>>, 3)),
   Run("sparsification", <<"and", "gate", "only">>, "recipe", PackingCall(<<1, 2>>, 3))}
=============================================================================
