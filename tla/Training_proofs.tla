--------------------------- MODULE Training_proofs ---------------------------
(* The packing loop partitions the samples, keeps the budget and ends with *)
(* the plan of NodeBudget, for every list of node counts and every budget, *)
(* in whatever run it is called.  The learning rate obeys the warm-up and  *)
(* the scheduler, and early stopping waits for a reduced rate.  Every      *)
(* epoch trains every sample once, and the checkpoint that test.py selects *)
(* is its configuration's best.                                            *)
EXTENDS Training, FiniteSetTheorems, SequenceTheorems, WellFoundedInduction, TLAPS

\* The well-formedness of one batch under the current call.
BatchOK(b) ==
  /\ b.top \in 1..call.n
  /\ b.from \in 1..(b.to + 1)
  /\ b.to < b.top

\* The two ends of the pool, and what the open batch has taken from them.
EndsInv ==
  /\ lo \in 1..(hi + 1)
  /\ hi <= call.n
  /\ open => /\ BatchOK(batch)
             /\ batch.top = hi + 1
             /\ batch.to = lo - 1
             /\ total = LoadOf(batch)
             /\ total <= call.budget \/ batch.to = batch.from - 1

\* Closed batches lie outside what is still unassigned, and are disjoint.
ClosedInv ==
  /\ \A b \in batches :
       /\ BatchOK(b)
       /\ b.top > (IF open THEN batch.top ELSE hi)
       /\ b.to < (IF open THEN batch.from ELSE lo)
       /\ LoadOf(b) <= call.budget \/ b.to = b.from - 1
  /\ \A b, c \in batches :
       b # c => b.top # c.top /\ (b.to < c.from \/ c.to < b.from)

\* Every position is in the pool or in a batch.
CoverInv ==
  \A p \in 1..call.n : p \in Pool \/ \E b \in Held : p \in Positions(b)

\* No closed batch had room for the smallest graph of the pool.
FullInv ==
  \A b \in batches : lo <= hi => LoadOf(b) + call.size[lo] > call.budget

IInv == call \in Inputs /\ TypeOK /\ EndsInv /\ ClosedInv /\ CoverInv /\ FullInv

-----------------------------------------------------------------------------
LEMMA CallFacts ==
  ASSUME call \in Inputs
  PROVE  /\ call.n \in Nat /\ call.budget \in Nat /\ call.budget > 0
         /\ \A i \in 1..call.n : call.size[i] \in Nat
         /\ \A i, j \in 1..call.n : i <= j => call.size[i] <= call.size[j]
         /\ \A i \in 0..call.n : call.prefix[i] \in Nat
         /\ \A i \in 1..call.n : call.prefix[i] = call.prefix[i - 1] + call.size[i]
<1> DEFINE c == call
<1>1. c \in Inputs
  OBVIOUS
<1> HIDE DEF c
<1>2. c.n \in Nat /\ c.budget \in Nat \ {0} /\ c.size \in [1..c.n -> Nat]
        /\ c.prefix \in [0..c.n -> Nat]
  BY <1>1, InputsAssumption
<1>3. \A i, j \in 1..c.n : i <= j => c.size[i] <= c.size[j]
  BY <1>1, InputsAssumption
<1>4. \A i \in 1..c.n : c.prefix[i] = c.prefix[i - 1] + c.size[i]
  BY <1>1, InputsAssumption
<1> QED
  BY <1>2, <1>3, <1>4 DEF c

LEMMA InitIInv == Init => IInv
<1> SUFFICES ASSUME Init PROVE IInv
  OBVIOUS
<1> USE DEF Init
<1>0. call.n \in Nat
  BY CallFacts
<1>1. TypeOK
  BY <1>0 DEF TypeOK, Batch
<1>2. EndsInv
  BY <1>0 DEF EndsInv
<1>3. ClosedInv /\ FullInv
  BY DEF ClosedInv, FullInv
<1>4. CoverInv
  BY <1>0 DEF CoverInv, Pool
<1> QED
  BY <1>1, <1>2, <1>3, <1>4 DEF IInv

LEMMA PopLargestIInv == IInv /\ PopLargest => IInv'
<1> SUFFICES ASSUME IInv, PopLargest PROVE IInv'
  OBVIOUS
<1> USE DEF IInv, PopLargest
<1>0. call \in Inputs /\ call' = call /\ batches' = batches
  BY DEF TypeOK
<1>a. hi \in 1..call.n /\ lo \in 1..hi /\ hi \in Int /\ lo \in Int
  BY <1>0, CallFacts DEF EndsInv, TypeOK
<1>b. batch' = [top |-> hi, from |-> lo, to |-> lo - 1]
  OBVIOUS
<1>1. TypeOK'
  BY <1>0, <1>a, CallFacts DEF TypeOK, Batch
<1>2. EndsInv'
  <2>1. lo' \in 1..(hi' + 1) /\ hi' <= call'.n
    BY <1>0, <1>a, CallFacts
  <2>2. BatchOK(batch)' /\ batch'.top = hi' + 1 /\ batch'.to = lo' - 1
          /\ batch'.to = batch'.from - 1
    BY <1>0, <1>a DEF BatchOK
  <2>3. total' = LoadOf(batch)'
    <3>1. LoadOf(batch)' = call.size[hi] + call.prefix[lo - 1] - call.prefix[lo - 1]
      BY <1>0, <1>b DEF LoadOf
    <3>2. call.size[hi] \in Nat /\ call.prefix[lo - 1] \in Nat
      BY <1>0, <1>a, CallFacts
    <3> QED BY <3>1, <3>2
  <2> QED BY <2>1, <2>2, <2>3 DEF EndsInv
<1>3. ClosedInv'
  <2>1. ASSUME NEW b \in batches
        PROVE  /\ BatchOK(b)' /\ b.top > batch'.top /\ b.to < batch'.from
               /\ LoadOf(b)' <= call'.budget \/ b.to = b.from - 1
    BY <1>0, <1>a, <1>b DEF ClosedInv, BatchOK, LoadOf
  <2> QED BY <2>1, <1>0 DEF ClosedInv
<1>4. CoverInv'
  <2> SUFFICES ASSUME NEW p \in 1..call.n
               PROVE  p \in Pool' \/ \E b \in Held' : p \in Positions(b)
    BY <1>0 DEF CoverInv, Positions
  <2>1. Held' = Held \cup {batch'} /\ Held = batches
    BY <1>0 DEF Held
  <2>2. CASE p = hi
    BY <2>1, <2>2, <1>b DEF Positions
  <2>3. CASE p # hi
    BY <2>1, <2>3, <1>a DEF CoverInv, Pool
  <2> QED BY <2>2, <2>3
<1>5. FullInv'
  BY <1>0, <1>a DEF FullInv, LoadOf
<1> QED
  BY <1>1, <1>2, <1>3, <1>4, <1>5

LEMMA PopSmallestIInv == IInv /\ PopSmallest => IInv'
<1> SUFFICES ASSUME IInv, PopSmallest PROVE IInv'
  OBVIOUS
<1> USE DEF IInv, PopSmallest
<1>0. call \in Inputs /\ call' = call /\ batches' = batches /\ open' = open /\ open
  BY DEF TypeOK
<1>a. hi \in 1..call.n /\ lo \in 1..hi /\ hi \in Int /\ lo \in Int
  BY <1>0, CallFacts DEF EndsInv, TypeOK
<1>b. /\ batch'.top = batch.top /\ batch'.from = batch.from /\ batch'.to = lo
      /\ batch' \in Batch
  BY <1>a DEF TypeOK, Batch
<1>c. call.size[lo] \in Nat /\ call.prefix[lo] = call.prefix[lo - 1] + call.size[lo]
  BY <1>0, <1>a, CallFacts
<1>d. batch.to = lo - 1 /\ batch.top = hi + 1 /\ batch.from \in 1..lo
        /\ batch.top \in 1..call.n /\ total = LoadOf(batch)
  BY <1>0, <1>a DEF EndsInv, BatchOK
<1>1. TypeOK'
  BY <1>0, <1>a, <1>b, <1>c DEF TypeOK
<1>2. EndsInv'
  <2>1. lo' \in 1..(hi' + 1) /\ hi' <= call'.n
    BY <1>0, <1>a
  <2>2. BatchOK(batch)' /\ batch'.top = hi' + 1 /\ batch'.to = lo' - 1
    BY <1>0, <1>a, <1>b, <1>d DEF BatchOK
  <2>3. total' = LoadOf(batch)'
    <3>1. call.size[batch.top] \in Nat /\ call.prefix[lo - 1] \in Nat
             /\ call.prefix[batch.from - 1] \in Nat
      BY <1>0, <1>a, <1>d, CallFacts
    <3> QED BY <3>1, <1>0, <1>b, <1>c, <1>d DEF LoadOf
  <2>4. total' <= call'.budget
    BY <1>0
  <2> QED BY <2>1, <2>2, <2>3, <2>4 DEF EndsInv
<1>3. ClosedInv'
  BY <1>0, <1>b DEF ClosedInv, BatchOK, LoadOf
<1>4. CoverInv'
  <2> SUFFICES ASSUME NEW p \in 1..call.n
               PROVE  p \in Pool' \/ \E b \in Held' : p \in Positions(b)
    BY <1>0 DEF CoverInv, Positions
  <2>1. Held = batches \cup {batch} /\ Held' = batches \cup {batch'}
    BY <1>0 DEF Held
  <2>2. CASE p = lo
    <3>1. p \in batch'.from .. batch'.to
      BY <2>2, <1>a, <1>b, <1>d
    <3> QED BY <3>1, <2>1 DEF Positions
  <2>3. CASE p # lo /\ p \in Pool
    BY <2>3, <1>a DEF Pool
  <2>4. ASSUME NEW b \in batches, p \in Positions(b)
        PROVE  \E c \in Held' : p \in Positions(c)
    BY <2>1, <2>4
  <2>5. ASSUME p \in Positions(batch)
        PROVE  p \in Positions(batch')
    BY <2>5, <1>a, <1>b, <1>d DEF Positions
  <2> QED BY <2>1, <2>2, <2>3, <2>4, <2>5 DEF CoverInv
<1>5. FullInv'
  <2> SUFFICES ASSUME NEW b \in batches, lo + 1 <= hi
               PROVE  LoadOf(b) + call.size[lo + 1] > call.budget
    BY <1>0 DEF FullInv, LoadOf
  <2>1. call.size[lo] <= call.size[lo + 1] /\ call.size[lo + 1] \in Nat
    BY <1>0, <1>a, CallFacts
  <2>2. LoadOf(b) + call.size[lo] > call.budget
    BY <1>a DEF FullInv
  <2>3. LoadOf(b) \in Int
    <3>1. BatchOK(b) /\ b \in Batch
      BY DEF ClosedInv, TypeOK
    <3>2. b.top \in 1..call.n /\ b.to \in 0..call.n /\ b.from - 1 \in 0..call.n
      BY <3>1, <1>0, CallFacts DEF BatchOK, Batch
    <3> QED BY <3>2, <1>0, CallFacts DEF LoadOf
  <2>4. call.budget \in Nat
    BY <1>0, CallFacts
  <2> QED BY <2>1, <2>2, <2>3, <2>4, <1>c
<1> QED
  BY <1>1, <1>2, <1>3, <1>4, <1>5

LEMMA CloseBatchIInv == IInv /\ CloseBatch => IInv'
<1> SUFFICES ASSUME IInv, CloseBatch PROVE IInv'
  OBVIOUS
<1> USE DEF IInv, CloseBatch
<1>0. /\ call \in Inputs /\ call' = call /\ batch' = batch /\ lo' = lo /\ hi' = hi
      /\ open /\ ~open' /\ batches' = batches \cup {batch}
  BY DEF TypeOK
<1>a. BatchOK(batch) /\ batch.top = hi + 1 /\ batch.to = lo - 1
        /\ total = LoadOf(batch) /\ lo \in 1..(hi + 1) /\ hi <= call.n
        /\ (total <= call.budget \/ batch.to = batch.from - 1)
        /\ hi \in Int /\ lo \in Int /\ batch \in Batch
  BY <1>0 DEF EndsInv, TypeOK
<1>1. TypeOK'
  BY <1>0 DEF TypeOK
<1>2. EndsInv'
  BY <1>0, <1>a DEF EndsInv
<1>3. ClosedInv'
  <2>1. ASSUME NEW b \in batches'
        PROVE  /\ BatchOK(b)' /\ b.top > hi' /\ b.to < lo'
               /\ LoadOf(b)' <= call'.budget \/ b.to = b.from - 1
    <3>1. BatchOK(b)' = BatchOK(b) /\ LoadOf(b)' = LoadOf(b)
      BY <1>0 DEF BatchOK, LoadOf
    <3>2. CASE b = batch
      BY <3>1, <3>2, <1>0, <1>a
    <3>3. CASE b \in batches
      BY <3>1, <3>3, <1>0, <1>a DEF ClosedInv, BatchOK, TypeOK, Batch
    <3> QED BY <3>2, <3>3, <1>0
  <2>2. ASSUME NEW b \in batches', NEW c \in batches', b # c
        PROVE  b.top # c.top /\ (b.to < c.from \/ c.to < b.from)
    BY <2>2, <1>0, <1>a DEF ClosedInv, TypeOK, Batch
  <2> QED BY <2>1, <2>2, <1>0 DEF ClosedInv
<1>4. CoverInv'
  BY <1>0 DEF CoverInv, Held, Pool, Positions
<1>5. FullInv'
  BY <1>0, <1>a DEF FullInv, LoadOf
<1> QED
  BY <1>1, <1>2, <1>3, <1>4, <1>5

LEMMA StutterIInv == IInv /\ UNCHANGED vars => IInv'
BY DEF IInv, vars, TypeOK, EndsInv, ClosedInv, CoverInv, FullInv, BatchOK,
       LoadOf, Pool, Held, Positions

\* A launch begins a packing call, all other steps of a run leave it alone.
LEMMA LaunchInit == \A c \in Configs : Launch(c) => Init'
BY ConfigAssumption DEF Launch, Init

LEMMA InitIInvNext == Init' => IInv'
BY InitIInv, PTL

LEMMA TrainStepIInv == IInv /\ [TrainNext]_trainVars => IInv'
<1> SUFFICES ASSUME IInv, [TrainNext]_trainVars PROVE IInv'
  OBVIOUS
<1>1. CASE UNCHANGED vars
  BY <1>1, StutterIInv
<1>2. CASE Pack
  BY <1>2, PopLargestIInv, PopSmallestIInv, CloseBatchIInv DEF Pack, Next
<1>3. ASSUME NEW c \in Configs, Launch(c) PROVE IInv'
  BY <1>3, LaunchInit, InitIInvNext
<1>4. ASSUME TrainNext, ~Pack, \A c \in Configs : ~Launch(c) PROVE UNCHANGED vars
  BY <1>4 DEF TrainNext, StorePlan, ReusePlan, Unnamed, Fit, Save, Evict, Adapt, Kill,
              Step, Validate
<1> QED
  BY <1>1, <1>2, <1>3, <1>4 DEF trainVars

LEMMA Inductive == TrainSpec => []IInv
<1>1. TrainInit => IInv
  BY InitIInv DEF TrainInit
<1> QED
  BY <1>1, TrainStepIInv, PTL DEF TrainSpec

-----------------------------------------------------------------------------
(* The packing loop never leaves its types, however runs call it.          *)
THEOREM TypeCorrect == TrainSpec => []TypeOK
BY Inductive, PTL DEF IInv

LEMMA PartitionFollows == IInv => Partition
<1> SUFFICES ASSUME IInv PROVE Partition
  OBVIOUS
<1> USE DEF IInv
<1>0. call \in Inputs /\ call.n \in Nat /\ batches \subseteq Batch /\ batch \in Batch
        /\ lo \in Nat /\ hi \in Nat /\ lo \in 1..(hi + 1) /\ hi <= call.n
  BY CallFacts DEF TypeOK, EndsInv
<1>1. ASSUME NEW b \in Held
      PROVE  BatchOK(b) /\ b.top > hi /\ b.to < lo /\ b \in Batch
  <2>1. CASE open
    BY <2>1, <1>0 DEF Held, ClosedInv, EndsInv, BatchOK, Batch
  <2>2. CASE ~open
    BY <2>2, <1>0 DEF Held, ClosedInv
  <2> QED BY <2>1, <2>2
<1>2. ASSUME NEW b \in Held, NEW c \in Held, b # c
      PROVE  b.top # c.top /\ (b.to < c.from \/ c.to < b.from)
  BY <1>2, <1>0 DEF Held, ClosedInv, Batch
<1>3. \A b \in Held : Positions(b) \cap Pool = {} /\ Positions(b) \subseteq 1..call.n
  BY <1>0, <1>1 DEF Positions, Pool, BatchOK, Batch
<1>4. ASSUME NEW b \in Held, NEW c \in Held, b # c
      PROVE  Positions(b) \cap Positions(c) = {}
  BY <1>0, <1>1, <1>2, <1>4 DEF Positions, Batch
<1>5. (UNION {Positions(b) : b \in Held}) \cup Pool = 1..call.n
  <2>1. Pool \subseteq 1..call.n
    BY <1>0 DEF Pool
  <2>2. UNION {Positions(b) : b \in Held} \subseteq 1..call.n
    BY <1>3
  <2>3. 1..call.n \subseteq (UNION {Positions(b) : b \in Held}) \cup Pool
    BY DEF CoverInv
  <2> QED BY <2>1, <2>2, <2>3
<1> QED
  BY <1>3, <1>4, <1>5 DEF Partition

(* At every point of the loop the closed batches, the batch being filled   *)
(* and the pool partition the samples.                                     *)
THEOREM PackingPartitions == TrainSpec => []Partition
BY Inductive, PartitionFollows, PTL

LEMMA BudgetFollows == IInv => BudgetKept
BY CallFacts DEF IInv, ClosedInv, BudgetKept, Positions, TypeOK, Batch, BatchOK

(* A closed batch of two or more graphs is within the node budget.         *)
THEOREM PackingKeepsBudget == TrainSpec => []BudgetKept
BY Inductive, BudgetFollows, PTL

LEMMA FullFollows == IInv => NothingLeftFits
<1> SUFFICES ASSUME IInv, NEW b \in batches, NEW i \in Pool
             PROVE  LoadOf(b) + call.size[i] > call.budget
  BY DEF NothingLeftFits
<1> USE DEF IInv
<1>0. call \in Inputs /\ lo \in 1..call.n /\ i \in 1..call.n /\ lo <= i /\ lo <= hi
  BY CallFacts DEF TypeOK, EndsInv, Pool
<1>1. call.size[lo] <= call.size[i] /\ call.size[lo] \in Nat /\ call.size[i] \in Nat
        /\ call.budget \in Nat
  BY <1>0, CallFacts
<1>2. b.top \in 1..call.n /\ b.to \in 0..call.n /\ b.from - 1 \in 0..call.n
  BY <1>0, CallFacts DEF ClosedInv, BatchOK, TypeOK, Batch
<1>3. LoadOf(b) \in Int
  BY <1>0, <1>2, CallFacts DEF LoadOf
<1>4. LoadOf(b) + call.size[lo] > call.budget
  BY <1>0 DEF FullInv
<1> QED
  BY <1>1, <1>3, <1>4

(* A batch is closed only when nothing left in the pool fits it.           *)
THEOREM PackingIsMaximal == TrainSpec => []NothingLeftFits
BY Inductive, FullFollows, PTL

-----------------------------------------------------------------------------
(* Sums over a set, and what BuildBatchPlan packs.  (These lemmas are also *)
(* in DatasetStartup_proofs, whose variables this module cannot have.)     *)

\* A nonempty set of naturals has a least member.
LEMMA LeastNat ==
  ASSUME NEW T \in SUBSET Nat, T # {}
  PROVE  \E x \in T : \A y \in T : x <= y
<1> DEFINE R == OpToRel(<, Nat)
<1>1. IsWellFoundedOn(R, Nat)
  BY NatLessThanWellFounded
<1>2. \A x, y \in Nat : y < x => <<y, x>> \in R
  BY DEF OpToRel
<1> HIDE DEF R
<1>3. PICK x \in T : \A y \in T : ~(<<y, x>> \in R)
  BY <1>1, WFMin
<1>4. ASSUME NEW y \in T PROVE x <= y
  <2>1. x \in Nat /\ y \in Nat /\ ~(y < x)
    BY <1>2, <1>3, Zenon
  <2> QED BY <2>1
<1> QED BY <1>4

\* Induction over the naturals, for a set of them.
LEMMA NatInduct ==
  ASSUME NEW S, 0 \in S, \A n \in Nat : n \in S => n + 1 \in S
  PROVE  \A n \in Nat : n \in S
<1> DEFINE T == Nat \ S
<1> SUFFICES ASSUME T # {} PROVE FALSE
  OBVIOUS
<1>1. PICK x \in T : \A y \in T : x <= y
  <2>1. T \in SUBSET Nat /\ T # {}
    OBVIOUS
  <2> HIDE DEF T
  <2> QED BY <2>1, LeastNat
<1>2. x \in Nat /\ x \notin S /\ x # 0
  OBVIOUS
<1>3. x - 1 \in Nat /\ x - 1 + 1 = x
  BY <1>2
<1>4. x - 1 \in S
  <2>1. ~(x <= x - 1)
    BY <1>2
  <2> QED BY <1>1, <1>3, <2>1
<1> QED BY <1>2, <1>3, <1>4

\* Among subsets of a finite set one contains none of the others.
LEMMA LeastSet ==
  ASSUME NEW U, IsFiniteSet(U), NEW C \in SUBSET SUBSET U, C # {}
  PROVE  \E S \in C : \A T \in C : T \subseteq S => T = S
<1> DEFINE D == {Cardinality(S) : S \in C}
<1>1. \A S \in C : IsFiniteSet(S) /\ Cardinality(S) \in Nat
  BY FS_Subset, FS_CardinalityType
<1>2. D \in SUBSET Nat /\ D # {}
  BY <1>1
<1>3. PICK d \in D : \A e \in D : d <= e
  <2> HIDE DEF D
  <2> QED BY <1>2, LeastNat
<1>4. PICK S \in C : d = Cardinality(S)
  BY <1>3
<1>5. ASSUME NEW T \in C, T \subseteq S PROVE T = S
  <2>1. Cardinality(S) <= Cardinality(T)
    BY <1>3, <1>4
  <2>2. Cardinality(T) <= Cardinality(S) /\ (Cardinality(S) = Cardinality(T) => S = T)
    BY <1>1, <1>5, FS_Subset
  <2> QED BY <1>1, <2>1, <2>2
<1> QED BY <1>5

\* The member a sum takes first.
First(S) == CHOOSE x \in S : TRUE

LEMMA FirstLess ==
  ASSUME NEW S, S # {}
  PROVE  First(S) \in S /\ S \ {First(S)} \subseteq S /\ S \ {First(S)} # S
BY DEF First

\* The equation of the recursive function behind a sum.
Summed(w, f, S) == IF S = {} THEN 0 ELSE w[First(S)] + f[S \ {First(S)}]
Sums(w, f, U) == \A S \in SUBSET U : f[S] = Summed(w, f, S)

LEMMA SumsAgree ==
  ASSUME NEW w, NEW U, IsFiniteSet(U),
         NEW f, Sums(w, f, U), NEW h, Sums(w, h, U)
  PROVE  f[U] = h[U]
<1> DEFINE C == {S \in SUBSET U : f[S] # h[S]}
<1>1. ASSUME C # {} PROVE FALSE
  <2>1. PICK S \in C : \A T \in C : T \subseteq S => T = S
    <3>1. C \in SUBSET SUBSET U
      OBVIOUS
    <3> HIDE DEF C
    <3> QED BY <1>1, <3>1, LeastSet
  <2>2. f[S] = Summed(w, f, S) /\ h[S] = Summed(w, h, S)
    BY DEF Sums
  <2>3. S # {}
    BY <2>2 DEF Summed
  <2>4. S \ {First(S)} \in SUBSET U /\ S \ {First(S)} \notin C
    BY <2>1, <2>3, FirstLess
  <2>5. f[S \ {First(S)}] = h[S \ {First(S)}]
    BY <2>4
  <2> QED BY <2>2, <2>5 DEF Summed
<1> QED BY <1>1

LEMMA NodesUnfold ==
  ASSUME NEW size, NEW U, IsFiniteSet(U)
  PROVE  Nodes(size, U) = IF U = {} THEN 0
                          ELSE size[First(U)] + Nodes(size, U \ {First(U)})
<1> DEFINE Once(S) == IF S = {} THEN 0 ELSE size[First(S)] + Nodes(size, S \ {First(S)})
           C == {S \in SUBSET U : Nodes(size, S) # Once(S)}
<1> SUFFICES C = {}
  OBVIOUS
<1> SUFFICES ASSUME C # {} PROVE FALSE
  OBVIOUS
<1>1. PICK S \in C : \A T \in C : T \subseteq S => T = S
  <2>1. C \in SUBSET SUBSET U
    OBVIOUS
  <2> HIDE DEF C
  <2> QED BY <2>1, LeastSet
<1>2. IsFiniteSet(S)
  BY FS_Subset
<1>3. ASSUME NEW T \in SUBSET S, T # S PROVE Nodes(size, T) = Once(T)
  BY <1>1, <1>3
<1> HIDE DEF C
<1> DEFINE Sol(f) == f = [T \in SUBSET S |-> Summed(size, f, T)]
           A == CHOOSE f : Sol(f)
           h == [T \in SUBSET S |-> Once(T)]
<1>4. Sol(h)
  <2>1. ASSUME NEW T \in SUBSET S PROVE Once(T) = Summed(size, h, T)
    <3>1. CASE T = {}
      BY <3>1 DEF Summed
    <3>2. CASE T # {}
      <4>1. T \ {First(T)} \in SUBSET S /\ T \ {First(T)} # S
        BY <3>2, FirstLess
      <4>2. h[T \ {First(T)}] = Once(T \ {First(T)})
        BY <4>1
      <4>3. h[T \ {First(T)}] = Nodes(size, T \ {First(T)})
        BY <1>3, <4>1, <4>2
      <4> QED BY <3>2, <4>3 DEF Summed
    <3> QED BY <3>1, <3>2
  <2> HIDE DEF Once
  <2> QED BY <2>1
<1>5. Nodes(size, S) = A[S]
  BY DEF Nodes, MapThenSumSet, MapThenFoldSet, Summed, First
<1> HIDE DEF A, Once
<1>6. Sol(A)
  BY <1>4 DEF A
<1>7. A[S] = h[S]
  <2> HIDE DEF h
  <2>1. Sums(size, A, S)
    BY <1>6 DEF Sums
  <2>2. Sums(size, h, S)
    BY <1>4 DEF Sums
  <2> QED BY <1>2, <2>1, <2>2, SumsAgree
<1>8. h[S] = Once(S)
  OBVIOUS
<1> QED BY <1>1, <1>5, <1>7, <1>8 DEF C

\* The nodes of a batch do not depend on the order they are added in.
LEMMA NodesSplit ==
  ASSUME NEW size, NEW U, IsFiniteSet(U), \A x \in U : size[x] \in Nat
  PROVE  /\ Nodes(size, U) \in Nat
         /\ U = {} => Nodes(size, U) = 0
         /\ \A x \in U : Nodes(size, U) = size[x] + Nodes(size, U \ {x})
<1> DEFINE Splits(S) == /\ Nodes(size, S) \in Nat
                        /\ \A x \in S : Nodes(size, S) = size[x] + Nodes(size, S \ {x})
           C == {S \in SUBSET U : ~Splits(S)}
<1>1. U = {} => Nodes(size, U) = 0
  BY NodesUnfold
<1> SUFFICES C = {}
  BY <1>1
<1> SUFFICES ASSUME C # {} PROVE FALSE
  OBVIOUS
<1>2. PICK S \in C : \A T \in C : T \subseteq S => T = S
  <2>1. C \in SUBSET SUBSET U
    OBVIOUS
  <2> HIDE DEF C
  <2> QED BY <2>1, LeastSet
<1>3. ASSUME NEW T \in SUBSET S, T # S PROVE Splits(T)
  BY <1>2, <1>3
<1>4. Nodes(size, S) = IF S = {} THEN 0 ELSE size[First(S)] + Nodes(size, S \ {First(S)})
  BY NodesUnfold, FS_Subset
<1>5. CASE S = {}
  <2>1. Splits(S)
    BY <1>4, <1>5
  <2> QED BY <2>1
<1>6. CASE S # {}
  <2> DEFINE y == First(S)
  <2>1. y \in S
    BY <1>6, FirstLess
  <2> HIDE DEF y
  <2>2. Splits(S \ {y})
    BY <1>3, <2>1
  <2>3. Nodes(size, S) = size[y] + Nodes(size, S \ {y})
    BY <1>4, <1>6 DEF y
  <2>4. ASSUME NEW x \in S PROVE Nodes(size, S) = size[x] + Nodes(size, S \ {x})
    <3>1. CASE x = y
      BY <2>3, <3>1
    <3>2. CASE x # y
      <4>1. Splits(S \ {x})
        BY <1>3
      <4>2. Nodes(size, S \ {y}) = size[x] + Nodes(size, (S \ {y}) \ {x})
        BY <2>2, <3>2
      <4>3. Nodes(size, S \ {x}) = size[y] + Nodes(size, (S \ {x}) \ {y})
        BY <2>1, <3>2, <4>1
      <4>4. (S \ {y}) \ {x} = (S \ {x}) \ {y}
        OBVIOUS
      <4>5. Splits((S \ {x}) \ {y})
        BY <1>3, <2>1
      <4>6. size[x] \in Nat /\ size[y] \in Nat /\ Nodes(size, (S \ {x}) \ {y}) \in Nat
        BY <2>1, <4>5
      <4> HIDE DEF Splits
      <4> QED BY <2>3, <4>2, <4>3, <4>4, <4>6
    <3> QED BY <3>1, <3>2
  <2>5. Nodes(size, S) \in Nat
    BY <2>1, <2>2, <2>3
  <2>6. Splits(S)
    BY <2>4, <2>5
  <2> QED BY <2>6
<1> QED BY <1>5, <1>6

\* A nonempty set of numbers up to n has a greatest member, which Max is.
LEMMA MaxOfNats ==
  ASSUME NEW n \in Nat, NEW T \in SUBSET (0..n), T # {}
  PROVE  Max(T) \in T /\ \A y \in T : y <= Max(T)
<1> DEFINE D == {n - y : y \in T}
<1>1. D \in SUBSET Nat /\ D # {}
  <2>1. \A y \in T : n - y \in Nat
    OBVIOUS
  <2> QED BY <2>1
<1>2. PICK d \in D : \A e \in D : d <= e
  <2> HIDE DEF D
  <2> QED BY <1>1, LeastNat
<1>3. PICK x \in T : d = n - x
  BY <1>2
<1>4. \A y \in T : x >= y
  <2> TAKE y \in T
  <2>1. n - x <= n - y
    BY <1>2, <1>3
  <2> QED BY <2>1
<1>5. \E z \in T : \A y \in T : z >= y
  BY <1>4
<1>6. Max(T) \in T /\ \A y \in T : Max(T) >= y
  BY <1>5 DEF Max
<1> QED BY <1>6

\* The stable order of the sort, and the place of an index in it.
Before(size, i, j) == size[i] < size[j] \/ (size[i] = size[j] /\ i < j)
Ahead(size, i) == {j \in DOMAIN size : Before(size, j, i)}

\* A run of the order.
Run(order, from, to) == {order[m] : m \in from..to}

\* A batch that begins with position high of the order, and its small end.
LastOf(size, order, low, high, budget) ==
  Fits(size, order, low, high - 1, size[order[high]], Max({1, budget}))
BatchOf(order, low, high, last) == {order[high]} \cup Run(order, low, last)

LEMMA FitsSound ==
  ASSUME NEW size, NEW order, NEW from \in Nat \ {0}, NEW to \in Nat, from <= to + 1,
         NEW held, NEW budget
  PROVE  LET last == Fits(size, order, from, to, held, budget)
         IN  /\ last \in from - 1..to
             /\ \/ last = from - 1
                \/ held + Nodes(size, Run(order, from, last)) <= budget
             /\ \A k \in from..to :
                  held + Nodes(size, Run(order, from, k)) <= budget => k <= last
<1> DEFINE load(k) == held + Nodes(size, Run(order, from, k))
           T == {from - 1} \cup {k \in from..to : load(k) <= budget}
<1>1. Fits(size, order, from, to, held, budget) = Max(T)
  BY DEF Fits, Run
<1>2. T \in SUBSET (0..to) /\ T # {}
  OBVIOUS
<1>3. Max(T) \in T /\ \A y \in T : y <= Max(T)
  <2> HIDE DEF T
  <2> QED BY <1>2, MaxOfNats
<1> DEFINE last == Max(T)
<1>4. last \in T /\ \A y \in T : y <= last
  BY <1>3
<1> HIDE DEF last, load
<1>5. last \in from - 1..to /\ (last = from - 1 \/ load(last) <= budget)
  BY <1>4
<1>6. \A k \in from..to : load(k) <= budget => k <= last
  BY <1>4
<1> QED BY <1>1, <1>5, <1>6 DEF last, load

\* One row of the recursion, from the row before it.
RowFrom(size, order, n, budget, prev, high) ==
  [low \in 1..(n + 1) |->
     IF low > high THEN {}
     ELSE {BatchOf(order, low, high, LastOf(size, order, low, high, budget))}
            \cup prev[LastOf(size, order, low, high, budget) + 1]]

LEMMA PackUnfolds ==
  ASSUME NEW size, NEW n \in Nat, Len(size) = n, NEW budget
  PROVE  \E p : /\ BuildBatchPlan(size, budget) = p[n][1]
                /\ \A high \in 0..n :
                     p[high] = RowFrom(size, SortedIndices(size), n, budget, p[high - 1], high)
<1> DEFINE order == SortedIndices(size)
           Row(prev, high) == RowFrom(size, order, n, budget, prev, high)
           Upto(k, f) == f = [high \in 0..k |-> Row(f[high - 1], high)]
           S == {k \in Nat : \E f : Upto(k, f)}
<1>1. \A f, h : Row(f, 0) = Row(h, 0)
  <2>1. \A low \in 1..n + 1 : low > 0
    OBVIOUS
  <2> QED BY <2>1 DEF RowFrom
<1>2. 0 \in S
  <2> HIDE DEF Row
  <2> DEFINE h == [high \in 0..0 |-> Row(<<>>, 0)]
  <2>1. \A high \in 0..0 : h[high] = Row(h[high - 1], high)
    BY <1>1
  <2>2. h = [high \in 0..0 |-> Row(h[high - 1], high)]
    BY <2>1
  <2> QED BY <2>2
<1>3. ASSUME NEW k \in Nat, k \in S PROVE k + 1 \in S
  <2> HIDE DEF Row
  <2>1. PICK f : Upto(k, f)
    BY <1>3
  <2> DEFINE h == [high \in 0..k + 1 |-> IF high = k + 1 THEN Row(f[k], k + 1) ELSE f[high]]
  <2>2. ASSUME NEW high \in 0..k + 1 PROVE h[high] = Row(h[high - 1], high)
    <3>1. CASE high = 0
      <4>1. h[0] = f[0] /\ f[0] = Row(f[0 - 1], 0)
        BY <2>1
      <4> QED BY <1>1, <3>1, <4>1
    <3>2. CASE high \in 1..k
      <4>1. h[high] = f[high] /\ h[high - 1] = f[high - 1] /\ f[high] = Row(f[high - 1], high)
        BY <2>1, <3>2
      <4> QED BY <4>1
    <3>3. CASE high = k + 1
      <4>1. high - 1 = k /\ h[k] = f[k] /\ h[k + 1] = Row(f[k], k + 1)
        BY <3>3
      <4> QED BY <3>3, <4>1
    <3> QED BY <3>1, <3>2, <3>3
  <2>3. h = [high \in 0..k + 1 |-> Row(h[high - 1], high)]
    BY <2>2
  <2>4. k + 1 \in Nat
    OBVIOUS
  <2> HIDE DEF h
  <2>5. Upto(k + 1, h)
    BY <2>3
  <2> QED BY <2>4, <2>5
<1>4. n \in S
  <2> HIDE DEF S
  <2> QED BY <1>2, <1>3, NatInduct
<1> DEFINE A == CHOOSE f : Upto(n, f)
<1>5. Upto(n, A)
  BY <1>4
<1>6. BuildBatchPlan(size, budget) = A[n][1]
  BY DEF BuildBatchPlan, RowFrom, BatchOf, LastOf, Run
<1> HIDE DEF A, Row
<1>7. \A high \in 0..n : A[high] = Row(A[high - 1], high)
  BY <1>5
<1> QED BY <1>6, <1>7 DEF Row

\* Batches that are apart, within the budget, and hold these samples.
LEMMA ClampedBudget ==
  ASSUME NEW budget \in Nat \ {0}
  PROVE  Max({1, budget}) = budget
<1>1. {1, budget} \in SUBSET (0..budget) /\ {1, budget} # {}
  OBVIOUS
<1>2. Max({1, budget}) \in {1, budget} /\ \A y \in {1, budget} : y <= Max({1, budget})
  BY <1>1, MaxOfNats
<1> QED BY <1>2


-----------------------------------------------------------------------------
(* The loop's result.  The node counts of a call are sorted, so sorting    *)
(* them again leaves the positions as they are, and the nodes of a run of  *)
(* positions are a difference of two prefix sums.                          *)

LEMMA SortedStays ==
  ASSUME NEW n \in Nat, NEW size, DOMAIN size = 1..n, \A i \in 1..n : size[i] \in Nat,
         \A i, j \in 1..n : i <= j => size[i] <= size[j]
  PROVE  \A k \in 1..n : SortedIndices(size)[k] = k
<1>1. ASSUME NEW i \in 1..n PROVE Cardinality(Ahead(size, i)) = i - 1
  <2>1. Ahead(size, i) = 1..(i - 1)
    <3>1. ASSUME NEW j \in 1..n PROVE Before(size, j, i) <=> j < i
      <4>1. CASE j < i
        <5>1. size[j] <= size[i] /\ size[i] \in Nat /\ size[j] \in Nat
          BY <4>1
        <5> QED BY <4>1, <5>1 DEF Before
      <4>2. CASE ~(j < i)
        <5>1. i <= j /\ size[i] <= size[j] /\ size[i] \in Nat /\ size[j] \in Nat
          BY <4>2
        <5> QED BY <4>2, <5>1 DEF Before
      <4> QED BY <4>1, <4>2
    <3> QED BY <3>1 DEF Ahead
  <2> QED BY <2>1, FS_Interval
<1>2. ASSUME NEW k \in 1..n PROVE SortedIndices(size)[k] = k
  <2>1. SortedIndices(size)[k] = CHOOSE j \in 1..n : Cardinality(Ahead(size, j)) = k - 1
    BY DEF SortedIndices, Ahead, Before
  <2>2. \A j \in 1..n : Cardinality(Ahead(size, j)) = k - 1 <=> j = k
    BY <1>1
  <2> QED BY <2>1, <2>2
<1> QED BY <1>2

\* What the prefix sums of a call are.
Prefixes(n, size, prefix) ==
  /\ \A i \in 1..n : size[i] \in Nat
  /\ \A i \in 0..n : prefix[i] \in Nat
  /\ \A i \in 1..n : prefix[i] = prefix[i - 1] + size[i]

LEMMA SumsOfRuns ==
  ASSUME NEW n \in Nat, NEW size, NEW prefix, Prefixes(n, size, prefix),
         NEW from \in 1..(n + 1), NEW to \in (from - 1)..n
  PROVE  /\ Nodes(size, from..to) = prefix[to] - prefix[from - 1]
         /\ prefix[from - 1] <= prefix[to]
<1>0. /\ \A i \in 1..n : size[i] \in Nat
      /\ \A i \in 0..n : prefix[i] \in Nat
      /\ \A i \in 1..n : prefix[i] = prefix[i - 1] + size[i]
  BY DEF Prefixes
<1> DEFINE end(d) == from - 1 + d
           Good(d) == end(d) <= n =>
                        /\ Nodes(size, from..end(d)) = prefix[end(d)] - prefix[from - 1]
                        /\ prefix[from - 1] <= prefix[end(d)]
           S == {d \in Nat : Good(d)}
<1>1. 0 \in S
  <2>1. from..end(0) = {} /\ end(0) = from - 1
    OBVIOUS
  <2>2. Nodes(size, {}) = 0
    BY NodesUnfold, FS_EmptySet
  <2>3. prefix[from - 1] \in Nat
    BY <1>0
  <2> QED BY <2>1, <2>2, <2>3
<1>2. ASSUME NEW d \in Nat, d \in S PROVE d + 1 \in S
  <2> SUFFICES ASSUME end(d + 1) <= n PROVE Good(d + 1)
    OBVIOUS
  <2> DEFINE k == end(d + 1)
  <2>1. k \in 1..n /\ k - 1 = end(d) /\ end(d) <= n /\ from <= k
    OBVIOUS
  <2> HIDE DEF k
  <2>2. from..k = (from..(k - 1)) \cup {k} /\ k \in from..k
          /\ (from..k) \ {k} = from..(k - 1)
    BY <2>1
  <2>3. IsFiniteSet(from..k) /\ \A x \in from..k : size[x] \in Nat
    BY <1>0, <2>1, FS_Interval
  <2>4. Nodes(size, from..k) = size[k] + Nodes(size, from..(k - 1))
    <3> DEFINE U == from..k
    <3>1. IsFiniteSet(U) /\ \A x \in U : size[x] \in Nat
      BY <2>3
    <3> HIDE DEF U
    <3>2. \A x \in U : Nodes(size, U) = size[x] + Nodes(size, U \ {x})
      BY <3>1, NodesSplit
    <3>3. k \in U /\ U \ {k} = from..(k - 1)
      BY <2>2 DEF U
    <3>4. Nodes(size, U) = size[k] + Nodes(size, from..(k - 1))
      BY <3>2, <3>3
    <3> QED BY <3>4 DEF U
  <2>5. /\ Nodes(size, from..(k - 1)) = prefix[k - 1] - prefix[from - 1]
        /\ prefix[from - 1] <= prefix[k - 1]
    BY <1>2, <2>1
  <2>6. /\ prefix[k] = prefix[k - 1] + size[k] /\ prefix[k - 1] \in Nat
        /\ size[k] \in Nat /\ prefix[from - 1] \in Nat /\ prefix[k] \in Nat
    BY <1>0, <2>1
  <2>7. /\ Nodes(size, from..k) = prefix[k] - prefix[from - 1]
        /\ prefix[from - 1] <= prefix[k]
    BY <2>4, <2>5, <2>6
  <2> QED BY <2>7 DEF k
<1>3. \A d \in Nat : d \in S
  <2> HIDE DEF S
  <2> QED BY <1>1, <1>2, NatInduct
<1> DEFINE e == to - (from - 1)
<1>4. e \in Nat /\ end(e) = to
  OBVIOUS
<1>5. Good(e)
  BY <1>3, <1>4
<1> QED BY <1>4, <1>5

\* The two ways to find the end of a batch agree: the longest run that fits,
\* and the run at whose end the next graph does not.
LEMMA LastFits ==
  ASSUME call \in Inputs, NEW top \in 1..call.n, NEW from \in 1..top,
         NEW to \in (from - 1)..(top - 1),
         LET load == call.size[top] + call.prefix[to] - call.prefix[from - 1]
         IN  /\ load <= call.budget \/ to = from - 1
             /\ to = top - 1 \/ load + call.size[to + 1] > call.budget
  PROVE  LastOf(call.size, SortedIndices(call.size), from, top, call.budget) = to
<1> DEFINE n == call.n
           size == call.size
           prefix == call.prefix
           budget == call.budget
           order == SortedIndices(size)
           last == LastOf(size, order, from, top, budget)
<1>1. /\ n \in Nat /\ budget \in Nat \ {0} /\ DOMAIN size = 1..n
      /\ \A i \in 1..n : size[i] \in Nat
      /\ \A i, j \in 1..n : i <= j => size[i] <= size[j]
      /\ \A i \in 0..n : prefix[i] \in Nat
      /\ \A i \in 1..n : prefix[i] = prefix[i - 1] + size[i]
      /\ Prefixes(n, size, prefix)
  BY CallFacts, InputsAssumption DEF Prefixes
<1>2. /\ size[top] + prefix[to] - prefix[from - 1] <= budget \/ to = from - 1
      /\ to = top - 1
           \/ size[top] + prefix[to] - prefix[from - 1] + size[to + 1] > budget
      /\ top \in 1..n
  OBVIOUS
<1> HIDE DEF n, size, prefix, budget
<1>3. \A k \in 1..n : order[k] = k
  BY <1>1, SortedStays
<1>4. last = Fits(size, order, from, top - 1, size[top], budget)
  BY <1>1, <1>2, <1>3, ClampedBudget DEF LastOf
<1> HIDE DEF order
<1>5. ASSUME NEW k \in (from - 1)..(top - 1)
      PROVE  /\ Nodes(size, Run(order, from, k)) = prefix[k] - prefix[from - 1]
             /\ prefix[from - 1] \in Nat /\ prefix[k] \in Nat
  <2>1. Run(order, from, k) = from..k
    <3>1. \A m \in from..k : order[m] = m
      BY <1>1, <1>2, <1>3
    <3> QED BY <3>1 DEF Run
  <2>2. from \in 1..(n + 1) /\ k \in (from - 1)..n /\ k \in 0..n /\ from - 1 \in 0..n
    BY <1>1, <1>2
  <2>3. Nodes(size, from..k) = prefix[k] - prefix[from - 1]
    BY <1>1, <2>2, SumsOfRuns
  <2> QED BY <1>1, <2>1, <2>2, <2>3
<1>6. /\ last \in from - 1..top - 1
      /\ last = from - 1 \/ size[top] + Nodes(size, Run(order, from, last)) <= budget
      /\ \A k \in from..top - 1 :
           size[top] + Nodes(size, Run(order, from, k)) <= budget => k <= last
  <2>1. from \in Nat \ {0} /\ top - 1 \in Nat /\ from <= top - 1 + 1
    BY <1>1, <1>2
  <2> HIDE DEF last
  <2> QED BY <1>4, <2>1, FitsSound
<1> HIDE DEF last
<1>7. to <= last
  <2>1. CASE to = from - 1
    BY <1>6, <2>1
  <2>2. CASE to # from - 1
    <3>1. to \in from..top - 1 /\ size[top] + prefix[to] - prefix[from - 1] <= budget
      BY <1>2, <2>2
    <3>2. size[top] \in Nat /\ size[top] + Nodes(size, Run(order, from, to)) <= budget
      BY <1>1, <1>2, <1>5, <3>1
    <3> QED BY <1>6, <3>1, <3>2
  <2> QED BY <2>1, <2>2
<1>8. last <= to
  <2> SUFFICES ASSUME last > to PROVE FALSE
    BY <1>6
  <2>1. /\ last # from - 1 /\ to # top - 1 /\ to + 1 \in 1..n /\ to \in 0..n
        /\ last \in (to + 1)..n /\ to + 2 \in 1..(n + 1)
    BY <1>1, <1>2, <1>6
  <2>2. size[top] + prefix[last] - prefix[from - 1] <= budget
    <3>1. size[top] \in Nat
      BY <1>1, <1>2
    <3> QED BY <1>5, <1>6, <2>1, <3>1
  <2>3. prefix[to + 1] <= prefix[last]
    <3>1. to + 2 - 1 = to + 1
      OBVIOUS
    <3>2. last \in (to + 2 - 1)..n
      BY <2>1, <3>1
    <3>3. \A low \in 1..(n + 1) : \A high \in (low - 1)..n : prefix[low - 1] <= prefix[high]
      BY <1>1, SumsOfRuns
    <3>4. prefix[to + 2 - 1] <= prefix[last]
      BY <2>1, <3>2, <3>3
    <3> QED BY <3>1, <3>4
  <2>4. prefix[to + 1] = prefix[to] + size[to + 1]
    <3>1. to + 1 - 1 = to
      OBVIOUS
    <3>2. prefix[to + 1] = prefix[to + 1 - 1] + size[to + 1]
      BY <1>1, <2>1
    <3> QED BY <3>1, <3>2
  <2>5. /\ size[top] \in Nat /\ size[to + 1] \in Nat /\ prefix[to] \in Nat
        /\ prefix[to + 1] \in Nat /\ prefix[last] \in Nat /\ prefix[from - 1] \in Nat
    <3>1. from - 1 \in 0..n /\ to \in 0..n /\ last \in 0..n
      BY <1>1, <1>2, <2>1
    <3>2. prefix[to] \in Nat /\ prefix[last] \in Nat /\ prefix[from - 1] \in Nat
      BY <1>1, <3>1
    <3>3. size[top] \in Nat /\ size[to + 1] \in Nat
      BY <1>1, <1>2, <2>1
    <3>4. prefix[to + 1] \in Nat
      BY <2>4, <3>2, <3>3
    <3> QED BY <3>2, <3>3, <3>4
  <2>6. size[top] + prefix[to] - prefix[from - 1] + size[to + 1] > budget
    BY <1>2, <2>1
  <2>7. budget \in Nat
    BY <1>1
  <2> QED BY <2>2, <2>3, <2>4, <2>5, <2>6, <2>7
<1> QED BY <1>6, <1>7, <1>8 DEF last, order, n, size, prefix, budget

\* The table of the recursion of BuildBatchPlan for a call.
IsTable(c, p) ==
  /\ BuildBatchPlan(c.size, c.budget) = p[c.n][1]
  /\ \A h \in 0..c.n :
       p[h] = RowFrom(c.size, SortedIndices(c.size), c.n, c.budget, p[h - 1], h)
Table(c) == CHOOSE p : IsTable(c, p)

LEMMA TableStands ==
  ASSUME call \in Inputs
  PROVE  IsTable(call, Table(call))
<1>1. call.n \in Nat /\ call.size \in [1..call.n -> Nat]
  BY InputsAssumption
<1>2. Len(call.size) = call.n
  BY <1>1
<1>3. \E p : IsTable(call, p)
  BY <1>1, <1>2, PackUnfolds DEF IsTable
<1> QED BY <1>3 DEF Table

\* What the recursion packs the rest of the samples into, the open batch and
\* the pool.  With the closed batches it is the plan from the first step on.
Rest == IF open THEN Table(call)[batch.top][batch.from] ELSE Table(call)[hi][lo]
Closed == {Positions(b) : b \in batches}
MatchInv == Closed \cup Rest = BuildBatchPlan(call.size, call.budget)

LEMMA MatchInit == Init => MatchInv
<1> SUFFICES ASSUME Init PROVE MatchInv
  OBVIOUS
<1>1. call \in Inputs /\ batches = {} /\ lo = 1 /\ hi = call.n /\ ~open
  BY DEF Init
<1>2. Table(call)[call.n][1] = BuildBatchPlan(call.size, call.budget)
  BY <1>1, TableStands DEF IsTable
<1>3. Closed = {}
  BY <1>1 DEF Closed
<1> QED BY <1>1, <1>2, <1>3 DEF MatchInv, Rest

LEMMA MatchPop == IInv /\ MatchInv /\ (PopLargest \/ PopSmallest) => MatchInv'
<1> SUFFICES ASSUME IInv, MatchInv, PopLargest \/ PopSmallest PROVE MatchInv'
  OBVIOUS
<1>1. batches' = batches /\ call' = call
  BY DEF PopLargest, PopSmallest
<1>2. Closed' = Closed
  BY <1>1 DEF Closed, Positions
<1>3. Rest' = Rest
  <2>1. CASE PopLargest
    BY <2>1 DEF PopLargest, Rest
  <2>2. CASE PopSmallest
    <3>1. batch \in Batch
      BY DEF IInv, TypeOK
    <3>2. open /\ open' /\ batch' = [batch EXCEPT !.to = lo] /\ call' = call
      BY <2>2 DEF PopSmallest, IInv, TypeOK
    <3>3. batch'.top = batch.top /\ batch'.from = batch.from
      BY <3>1, <3>2 DEF Batch
    <3> QED BY <3>2, <3>3 DEF Rest
  <2> QED BY <2>1, <2>2
<1> QED BY <1>1, <1>2, <1>3 DEF MatchInv

LEMMA MatchClose == IInv /\ MatchInv /\ CloseBatch => MatchInv'
<1> SUFFICES ASSUME IInv, MatchInv, CloseBatch PROVE MatchInv'
  OBVIOUS
<1> DEFINE top == batch.top
           from == batch.from
           to == batch.to
           order == SortedIndices(call.size)
<1>1. /\ call \in Inputs /\ batch \in Batch /\ open /\ ~open'
      /\ batches' = batches \cup {batch}
      /\ call' = call /\ lo' = lo /\ hi' = hi
      /\ lo > hi \/ total + call.size[lo] > call.budget
  BY DEF IInv, TypeOK, CloseBatch
<1>2. /\ top \in 1..call.n /\ from \in 1..(to + 1) /\ to < top
      /\ top = hi + 1 /\ to = lo - 1 /\ total = LoadOf(batch)
      /\ total <= call.budget \/ to = from - 1
      /\ lo \in Nat /\ hi \in Nat /\ top \in Nat /\ from \in Nat /\ to \in Nat
  BY <1>1 DEF IInv, TypeOK, EndsInv, BatchOK, Batch
<1>3. call.n \in Nat
  BY <1>1, CallFacts
<1>4. LastOf(call.size, order, from, top, call.budget) = to
  <2>1. from \in 1..top /\ to \in (from - 1)..(top - 1)
    BY <1>2, <1>3
  <2>2. total = call.size[top] + call.prefix[to] - call.prefix[from - 1]
    BY <1>2 DEF LoadOf
  <2>3. to = top - 1 \/ total + call.size[to + 1] > call.budget
    <3>1. CASE lo > hi
      BY <1>2, <3>1 DEF IInv, EndsInv
    <3>2. CASE total + call.size[lo] > call.budget
      <4>1. to + 1 = lo
        BY <1>2
      <4> QED BY <3>2, <4>1
    <3> QED BY <1>1, <3>1, <3>2
  <2> HIDE DEF top, from, to
  <2> QED BY <1>1, <1>2, <2>1, <2>2, <2>3, LastFits
<1>5. Table(call)[top] = RowFrom(call.size, order, call.n, call.budget,
                                 Table(call)[top - 1], top)
  <2>1. top \in 0..call.n
    BY <1>2, <1>3
  <2> HIDE DEF top
  <2> QED BY <1>1, <2>1, TableStands DEF IsTable
<1>6. Rest = {BatchOf(order, from, top, to)} \cup Table(call)[top - 1][to + 1]
  <2>1. Rest = Table(call)[top][from]
    BY <1>1 DEF Rest
  <2>2. from \in 1..(call.n + 1) /\ ~(from > top)
    BY <1>2, <1>3
  <2> HIDE DEF top, from, to, order
  <2> QED BY <1>4, <1>5, <2>1, <2>2 DEF RowFrom
<1>7. Table(call)[top - 1][to + 1] = Rest'
  <2>1. top - 1 = hi /\ to + 1 = lo
    BY <1>2
  <2> HIDE DEF top, from, to
  <2> QED BY <1>1, <2>1 DEF Rest
<1>8. BatchOf(order, from, top, to) = Positions(batch)
  <2>1. \A k \in 1..call.n : order[k] = k
    <3>1. /\ DOMAIN call.size = 1..call.n
          /\ \A i \in 1..call.n : call.size[i] \in Nat
          /\ \A i, j \in 1..call.n : i <= j => call.size[i] <= call.size[j]
      BY <1>1, CallFacts, InputsAssumption
    <3> QED BY <1>3, <3>1, SortedStays
  <2> HIDE DEF order
  <2>2. Run(order, from, to) = from..to
    BY <1>2, <1>3, <2>1 DEF Run
  <2>3. order[top] = top
    BY <1>2, <2>1
  <2> QED BY <2>2, <2>3 DEF BatchOf, Positions
<1>9. Closed' = Closed \cup {Positions(batch)}
  BY <1>1 DEF Closed, Positions
<1> HIDE DEF top, from, to, order
<1>10. Closed' \cup Rest' = Closed \cup Rest
  BY <1>6, <1>7, <1>8, <1>9
<1> QED BY <1>1, <1>10 DEF MatchInv

LEMMA MatchInitNext == Init' => MatchInv'
BY MatchInit, PTL

LEMMA MatchStep == IInv /\ MatchInv /\ [TrainNext]_trainVars => MatchInv'
<1> SUFFICES ASSUME IInv, MatchInv, [TrainNext]_trainVars PROVE MatchInv'
  OBVIOUS
<1>1. CASE UNCHANGED vars
  BY <1>1 DEF vars, MatchInv, Rest, Closed, Positions
<1>2. CASE Pack
  BY <1>2, MatchPop, MatchClose DEF Pack, Next
<1>3. ASSUME NEW c \in Configs, Launch(c) PROVE MatchInv'
  BY <1>3, LaunchInit, MatchInitNext
<1>4. ASSUME TrainNext, ~Pack, \A c \in Configs : ~Launch(c) PROVE UNCHANGED vars
  BY <1>4 DEF TrainNext, StorePlan, ReusePlan, Unnamed, Fit, Save, Evict, Adapt, Kill,
              Step, Validate
<1> QED
  BY <1>1, <1>2, <1>3, <1>4 DEF trainVars

LEMMA MatchFollows == IInv /\ MatchInv => MatchesPlan
<1> SUFFICES ASSUME IInv, MatchInv, Finished
             PROVE  Closed = BuildBatchPlan(call.size, call.budget)
  BY DEF MatchesPlan, Closed
<1>1. /\ call \in Inputs /\ call.n \in Nat /\ hi \in 0..call.n /\ lo \in 1..(call.n + 1)
      /\ lo > hi /\ ~open
  BY CallFacts DEF IInv, TypeOK, EndsInv, Finished
<1>2. Rest = Table(call)[hi][lo]
  BY <1>1 DEF Rest
<1>3. Table(call)[hi] = RowFrom(call.size, SortedIndices(call.size), call.n, call.budget,
                                Table(call)[hi - 1], hi)
  BY <1>1, TableStands DEF IsTable
<1>4. Rest = {}
  BY <1>1, <1>2, <1>3 DEF RowFrom
<1> QED BY <1>4 DEF MatchInv

(* When the loop ends, its batches are the plan that BuildBatchPlan        *)
(* defines for the same node counts and the same budget: the deque, popped *)
(* at both ends, packs what the recursion over the sorted order packs.     *)
THEOREM PackingIsThePlan == TrainSpec => []MatchesPlan
<1>1. TrainInit => MatchInv
  BY MatchInit DEF TrainInit
<1>2. TrainSpec => []MatchInv
  BY <1>1, Inductive, MatchStep, PTL DEF TrainSpec
<1> QED
  BY <1>2, Inductive, MatchFollows, PTL

-----------------------------------------------------------------------------
(* The learning rate *)

LEMMA MaxOfTwo ==
  ASSUME NEW a \in Nat, NEW b \in Nat
  PROVE  Max({a, b}) \in Nat /\ Max({a, b}) >= b /\ (Max({a, b}) = a \/ Max({a, b}) = b)
<1> DEFINE m == IF a >= b THEN a ELSE b
<1>1. \E x \in {a, b} : \A y \in {a, b} : x >= y
  <2>1. m \in {a, b} /\ \A y \in {a, b} : m >= y
    OBVIOUS
  <2> QED BY <2>1
<1>2. Max({a, b}) \in {a, b} /\ \A y \in {a, b} : Max({a, b}) >= y
  BY <1>1 DEF Max
<1> QED
  BY <1>2

\* The ramp ends at the peak: d * (s + 1) is at most d * Warmup.
LEMMA RampBounded ==
  ASSUME NEW s \in Nat, s < Warmup
  PROVE  WarmupRate(s) \in Nat /\ WarmupRate(s) <= Peak
<1> DEFINE d == Peak - Start
           q == ((s + 1) * d) \div Warmup
<1>1. Warmup \in Nat \ {0} /\ d \in Nat /\ Start \in Nat /\ Peak \in Nat /\ s + 1 <= Warmup
  BY ConfigAssumption
<1>2. (s + 1) * d \in Nat /\ (s + 1) * d <= Warmup * d
  <2> HIDE DEF d
  <2>1. \A x, y, z \in Nat : x <= y => x * z \in Nat /\ x * z <= y * z
    BY SMT
  <2> QED BY <1>1, <2>1
<1>3. q \in Nat /\ q <= d
  <2> HIDE DEF d
  <2>1. \A x, w, z \in Nat : w > 0 /\ x <= w * z => x \div w \in Nat /\ x \div w <= z
    BY SMT
  <2> QED BY <1>1, <1>2, <2>1
<1> QED
  BY <1>1, <1>3 DEF WarmupRate

LEMMA HalvedBounded ==
  ASSUME rate \in Nat
  PROVE  Halved \in Nat /\ Halved >= MinRate
<1>1. rate \div 2 \in Nat /\ MinRate \in Nat
  BY ConfigAssumption
<1> QED
  BY <1>1, MaxOfTwo DEF Halved

RateInv == steps \in Nat /\ rate \in Nat /\ lastRate \in Nat /\ launches \in Nat

LEMMA RateInvInductive == TrainSpec => []RateInv
<1>1. TrainInit => RateInv
  BY ConfigAssumption DEF TrainInit, Fresh, RateInv, FirstRate
<1>2. RateInv /\ [TrainNext]_trainVars => RateInv'
  <2> SUFFICES ASSUME RateInv, [TrainNext]_trainVars PROVE RateInv'
    OBVIOUS
  <2> USE DEF RateInv
  <2>1. CASE UNCHANGED <<steps, rate, lastRate, launches>>
    BY <2>1
  <2>2. ASSUME NEW b \in left, Step(b) PROVE RateInv'
    BY <2>2, RampBounded DEF Step, Warming, bounds
  <2>3. CASE Adapt
    BY <2>3, HalvedBounded DEF Adapt, bounds
  <2>4. ASSUME NEW c \in Configs, Launch(c) PROVE RateInv'
    BY <2>4, ConfigAssumption DEF Launch, FirstRate
  <2>5. ASSUME TrainNext, ~Adapt, \A b \in left : ~Step(b), \A c \in Configs : ~Launch(c)
        PROVE  UNCHANGED <<steps, rate, lastRate, launches>>
    BY <2>5 DEF TrainNext, Pack, StorePlan, ReusePlan, Unnamed, Fit, Save, Evict, Kill,
                Validate, optimizer, bounds
  <2> QED
    BY <2>1, <2>2, <2>3, <2>4, <2>5 DEF trainVars, optimizer, bounds
<1> QED
  BY <1>1, <1>2, PTL DEF TrainSpec

(* Within a run the rate rises only in the warm-up and never over the      *)
(* peak; whatever else changes it lowers it, to the floor at most: for all *)
(* rates, warm-ups, patiences and losses.                                  *)
THEOREM RateObeysLaw == TrainSpec => RateLaw
<1> DEFINE Law == launches' = launches /\ rate' # rate =>
                    \/ steps < Warmup /\ rate' <= Peak
                    \/ rate' < rate /\ rate' >= MinRate
<1>1. RateInv /\ [TrainNext]_trainVars => [Law]_trainVars
  <2> SUFFICES ASSUME RateInv, TrainNext, launches' = launches, rate' # rate
               PROVE  \/ steps < Warmup /\ rate' <= Peak
                      \/ rate' < rate /\ rate' >= MinRate
    OBVIOUS
  <2> USE DEF RateInv
  <2>1. ASSUME NEW b \in left, Step(b) PROVE steps < Warmup /\ rate' <= Peak
    BY <2>1, RampBounded DEF Step, Warming
  <2>2. CASE Adapt
    BY <2>2, HalvedBounded DEF Adapt
  <2>3. ASSUME NEW c \in Configs, Launch(c) PROVE FALSE
    BY <2>3 DEF Launch
  <2>4. ASSUME ~Adapt, \A b \in left : ~Step(b), \A c \in Configs : ~Launch(c)
        PROVE  FALSE
    BY <2>4 DEF TrainNext, Pack, StorePlan, ReusePlan, Unnamed, Fit, Save, Evict, Kill,
                Validate, optimizer
  <2> QED
    BY <2>1, <2>2, <2>3, <2>4
<1> QED
  BY <1>1, RateInvInductive, PTL DEF TrainSpec, RateLaw
-----------------------------------------------------------------------------
(* Early stopping *)

\* The rate has fallen since the best epoch, or can fall no further.
Low(r) == r < atBest.rate \/ r <= MinRate
\* The best epoch ended after the warm-up.
Past == atBest.steps >= Warmup
Starting  == stage \in {"pack", "setup", "built"}
Judging == stage \in {"save", "evict", "adapt"}

ScoreTypes ==
  /\ RateInv
  /\ best \in Losses \cup {Infinity} /\ least \in Losses \cup {Infinity}
  /\ loss \in Losses \cup {Infinity}
  /\ wait \in Nat /\ bad \in Nat /\ bad <= SchedPatience
  /\ atBest \in [rate : Nat, steps : Nat] /\ atBest.steps <= steps

\* A rate is the one last trained at, as soon as anything is trained.
TrainedRate ==
  /\ Starting => lastRate = 0 /\ best = Infinity /\ wait = 0
  /\ plan = {} => lastRate = 0
  /\ stage = "epoch" => left \subseteq plan /\ (left # plan => lastRate = rate)
  /\ Judging => plan = {} \/ lastRate = rate

\* The scheduler counts an epoch as bad at the latest when early stopping has
\* counted one: its best value is at most a margin above the best score.
CountersInv ==
  /\ best = Infinity => wait = 0
  /\ Judging => best # Infinity /\ loss # Infinity
  /\ Judging /\ wait = 0 => loss = best
  /\ Judging /\ wait > 0 => loss >= best
  /\ (stage = "epoch" /\ best # Infinity) \/ (Judging /\ wait > 0) =>
       least # Infinity /\ least <= best + 1

\* Until the rate has fallen, no bad epoch has been forgotten.
FallInv ==
  plan # {} /\ best # Infinity /\ Past =>
    /\ stage = "epoch" \/ Judging => rate <= atBest.rate
    /\ stage = "epoch" => Low(rate) \/ bad >= wait
    /\ Judging /\ wait > 0 => Low(rate) \/ bad >= wait - 1

StopInv == ScoreTypes /\ TrainedRate /\ CountersInv /\ FallInv /\ StopsAfterReduction

LEMMA InfinityAbove == Infinity \in Nat /\ \A l \in Losses : l \in Nat /\ l < Infinity
<1>1. PICK m \in Losses : \A l \in Losses : m >= l
  BY ConfigAssumption
<1>2. Max(Losses) \in Losses /\ \A l \in Losses : Max(Losses) >= l
  BY <1>1 DEF Max
<1>3. PICK top \in Losses : Max(Losses) = top
  BY <1>2
<1>4. top \in Nat /\ Infinity = 1 + top
  BY <1>3, ConfigAssumption DEF Infinity
<1>5. \A l \in Losses : l \in Nat /\ l <= top
  BY <1>2, <1>3, <1>4, ConfigAssumption
<1> QED
  BY <1>4, <1>5

LEMMA StopInit == TrainInit => StopInv
<1> SUFFICES ASSUME TrainInit PROVE StopInv
  OBVIOUS
<1>1. RateInv
  BY ConfigAssumption DEF TrainInit, Fresh, RateInv, FirstRate
<1> QED
  BY <1>1, ConfigAssumption, InfinityAbove
     DEF TrainInit, Fresh, StopInv, ScoreTypes, TrainedRate, CountersInv, FallInv,
         StopsAfterReduction, Starting, Judging, Past

LEMMA StopLaunch == \A c \in Configs : StopInv /\ RateInv' /\ Launch(c) => StopInv'
BY ConfigAssumption, InfinityAbove
   DEF Launch, StopInv, ScoreTypes, TrainedRate, CountersInv, FallInv,
       StopsAfterReduction, Starting, Judging, Past

LEMMA StopBefore ==
  StopInv /\ RateInv' /\ (Pack \/ StorePlan \/ ReusePlan \/ Unnamed \/ Fit) => StopInv'
<1> SUFFICES ASSUME StopInv, RateInv', Pack \/ StorePlan \/ ReusePlan \/ Unnamed \/ Fit
             PROVE  StopInv'
  OBVIOUS
<1>1. /\ stage \in {"pack", "setup", "built"}
      /\ stage' \in {stage, "built", "raised", "epoch"}
      /\ stage' = "epoch" => left' = plan'
      /\ UNCHANGED <<optimizer, monitors>>
  BY DEF Pack, StorePlan, ReusePlan, Unnamed, Fit, process
<1> QED
  BY <1>1, InfinityAbove, ConfigAssumption
     DEF StopInv, ScoreTypes, TrainedRate, CountersInv, FallInv,
         StopsAfterReduction, Starting, Judging, Past, Low, optimizer, monitors

LEMMA StopStep == \A b \in left : StopInv /\ RateInv' /\ Step(b) => StopInv'
<1> SUFFICES ASSUME NEW b \in left, StopInv, RateInv', Step(b) PROVE StopInv'
  OBVIOUS
<1>1. /\ stage = "epoch" /\ stage' = "epoch" /\ plan' = plan
      /\ left' = left \ {b} /\ lastRate' = rate' /\ steps' = steps + 1
      /\ steps >= Warmup => rate' = rate
      /\ UNCHANGED monitors
  BY ConfigAssumption DEF Step, Warming, StopInv, ScoreTypes, RateInv
<1>2. b \in plan /\ left' # plan
  BY <1>1 DEF StopInv, TrainedRate
<1>3. Past => steps >= Warmup
  BY ConfigAssumption DEF StopInv, ScoreTypes, RateInv, Past
<1>4. ScoreTypes' /\ CountersInv'
  BY <1>1 DEF StopInv, ScoreTypes, CountersInv, monitors, RateInv, Judging
<1>5. TrainedRate'
  BY <1>1, <1>2 DEF StopInv, TrainedRate, monitors, Starting, Judging
<1>6. FallInv'
  BY <1>1, <1>3 DEF StopInv, FallInv, monitors, Past, Low, Judging
<1> QED
  BY <1>1, <1>4, <1>5, <1>6 DEF StopInv, StopsAfterReduction

LEMMA StopValidate == \A l \in Losses : StopInv /\ RateInv' /\ Validate(l) => StopInv'
<1> SUFFICES ASSUME NEW l \in Losses, StopInv, RateInv', Validate(l) PROVE StopInv'
  OBVIOUS
<1>1. /\ stage = "epoch" /\ stage' = "save" /\ left = {} /\ loss' = l
      /\ UNCHANGED <<plan, least, bad, steps, rate, lastRate>>
  BY DEF Validate, optimizer
<1>2. plan = {} \/ lastRate = rate
  BY <1>1 DEF StopInv, TrainedRate
<1>3. TrainedRate'
  BY <1>1, <1>2 DEF StopInv, TrainedRate, Starting, Judging
<1>4. CASE l < best
  <2>1. best' = l /\ wait' = 0 /\ atBest' = [rate |-> lastRate, steps |-> steps]
    BY <1>4 DEF Validate
  <2>2. ScoreTypes'
    BY <1>1, <2>1 DEF StopInv, ScoreTypes, RateInv
  <2>3. CountersInv' /\ FallInv'
    BY <1>1, <1>2, <2>1, InfinityAbove
       DEF StopInv, ScoreTypes, RateInv, CountersInv, FallInv, Judging, Past, Low
  <2> QED
    BY <1>1, <1>3, <2>2, <2>3 DEF StopInv, StopsAfterReduction
<1>5. CASE ~(l < best)
  <2>1. best' = best /\ wait' = wait + 1 /\ atBest' = atBest
    BY <1>5 DEF Validate
  <2>2. best # Infinity /\ l >= best
    BY <1>5, InfinityAbove DEF StopInv, ScoreTypes
  <2>3. ScoreTypes'
    BY <1>1, <2>1 DEF StopInv, ScoreTypes, RateInv
  <2>4. CountersInv'
    BY <1>1, <2>1, <2>2, InfinityAbove DEF StopInv, ScoreTypes, CountersInv, Judging
  <2>5. FallInv'
    BY <1>1, <2>1, <2>2 DEF StopInv, ScoreTypes, FallInv, Judging, Past, Low
  <2> QED
    BY <1>1, <1>3, <2>3, <2>4, <2>5 DEF StopInv, StopsAfterReduction
<1> QED
  BY <1>4, <1>5

LEMMA StopSave == StopInv /\ RateInv' /\ (Save \/ Evict) => StopInv'
<1> SUFFICES ASSUME StopInv, RateInv', Save \/ Evict PROVE StopInv'
  OBVIOUS
<1>1. /\ Judging /\ stage' \in {"evict", "adapt"}
      /\ UNCHANGED <<plan, left, optimizer, monitors>>
  BY DEF Save, Evict, Judging
<1> QED
  BY <1>1 DEF StopInv, ScoreTypes, TrainedRate, CountersInv, FallInv, StopsAfterReduction,
              Starting, Judging, Past, Low, optimizer, monitors

LEMMA StopKill == StopInv /\ RateInv' /\ Kill => StopInv'
<1> SUFFICES ASSUME StopInv, RateInv', Kill PROVE StopInv'
  OBVIOUS
<1>1. stage' = "killed" /\ UNCHANGED <<plan, left, optimizer, monitors>>
  BY DEF Kill
<1> QED
  BY <1>1 DEF StopInv, ScoreTypes, TrainedRate, CountersInv, FallInv, StopsAfterReduction,
              Starting, Judging, Past, Low, optimizer, monitors

\* What the scheduler does to the rate and to its count.
LEMMA SchedulerStep ==
  ASSUME StopInv, Adapt
  PROVE  /\ rate' <= rate /\ rate' \in Nat
         /\ bad' \in Nat /\ bad' <= SchedPatience
         /\ ~Better(loss) /\ bad + 1 > SchedPatience => rate' < rate \/ rate <= MinRate
         /\ ~Better(loss) /\ bad + 1 <= SchedPatience => bad' = bad + 1 /\ rate' = rate
         /\ Better(loss) => least' = loss
         /\ ~Better(loss) => least' = least
<1>1. /\ rate \in Nat /\ bad \in Nat /\ bad <= SchedPatience
      /\ SchedPatience \in Nat /\ MinRate \in Nat
  BY ConfigAssumption DEF StopInv, ScoreTypes, RateInv
<1>2. Halved \in Nat /\ (Halved < rate \/ rate <= MinRate)
  <2>1. rate \div 2 \in Nat /\ (rate \div 2 < rate \/ rate = 0)
    BY <1>1
  <2> QED BY <1>1, <2>1, MaxOfTwo DEF Halved
<1>3. CASE Better(loss)
  BY <1>1, <1>3 DEF Adapt
<1>4. CASE ~Better(loss) /\ bad + 1 > SchedPatience
  BY <1>1, <1>2, <1>4 DEF Adapt, PatienceSpent
<1>5. CASE ~Better(loss) /\ bad + 1 <= SchedPatience
  BY <1>1, <1>5 DEF Adapt, PatienceSpent
<1> QED
  BY <1>1, <1>3, <1>4, <1>5

LEMMA StopAdapt ==
  ASSUME StopPatience >= SchedPatience + 2, StopInv, RateInv', Adapt
  PROVE  StopInv'
<1>0. /\ StopPatience \in Nat /\ SchedPatience \in Nat /\ MinRate \in Nat
      /\ ScoreTypes /\ TrainedRate /\ CountersInv /\ FallInv
  BY ConfigAssumption DEF StopInv
<1>1. /\ stage = "adapt" /\ Judging /\ stage' \in {"done", "epoch"}
      /\ stage' = "epoch" => left' = plan
      /\ stage' = "done" => left' = left
      /\ UNCHANGED <<plan, steps, lastRate, best, wait, loss, atBest>>
  BY DEF Adapt, Judging
<1>2. /\ best \in Nat /\ loss \in Losses /\ loss \in Nat /\ best # Infinity
      /\ least \in Nat /\ wait \in Nat /\ bad \in Nat /\ rate \in Nat
      /\ atBest.rate \in Nat
  BY <1>0, <1>1, InfinityAbove DEF ScoreTypes, CountersInv, RateInv
<1>3. wait > 0 => ~Better(loss)
  BY <1>0, <1>1, <1>2 DEF CountersInv, Better
<1>4. least' \in Losses /\ least' # Infinity /\ least' <= best + 1
  <2>1. CASE wait = 0
    <3>1. loss = best
      BY <2>1, <1>0, <1>1 DEF CountersInv
    <3>2. CASE Better(loss)
      BY <3>1, <3>2, <1>2, SchedulerStep, InfinityAbove
    <3>3. CASE ~Better(loss)
      <4>1. least # Infinity /\ least <= loss + 1
        BY <3>3, <1>2 DEF Better
      <4> QED BY <3>1, <3>3, <4>1, <1>0, SchedulerStep DEF ScoreTypes
    <3> QED BY <3>2, <3>3
  <2>2. CASE wait > 0
    <3>1. least # Infinity /\ least <= best + 1
      BY <2>2, <1>0, <1>1 DEF CountersInv
    <3> QED BY <2>2, <3>1, <1>3, <1>0, SchedulerStep DEF ScoreTypes
  <2> QED BY <2>1, <2>2, <1>2
<1>5. ScoreTypes'
  BY <1>0, <1>1, <1>4, SchedulerStep DEF ScoreTypes
<1>6. TrainedRate'
  BY <1>0, <1>1 DEF TrainedRate, Starting, Judging
<1>7. CountersInv'
  BY <1>0, <1>1, <1>4 DEF CountersInv, Judging
<1>8. ASSUME plan # {}, Past
      PROVE  /\ lastRate = rate /\ rate' <= atBest.rate
             /\ Low(rate') \/ bad' >= wait
             /\ wait >= StopPatience => Low(rate)
  <2>1. lastRate = rate /\ rate <= atBest.rate
    BY <1>8, <1>0, <1>1, <1>2 DEF TrainedRate, FallInv
  <2>2. rate' <= rate /\ rate' \in Nat /\ bad' \in Nat
    BY SchedulerStep
  <2>3. CASE wait = 0
    BY <2>1, <2>2, <2>3, <1>0, <1>2
  <2>4. CASE wait > 0
    <3>1. Low(rate) \/ bad >= wait - 1
      BY <2>4, <1>8, <1>0, <1>1, <1>2 DEF FallInv
    <3>2. CASE Low(rate)
      BY <3>2, <2>1, <2>2, <1>0, <1>2 DEF Low
    <3>3. CASE bad >= wait - 1 /\ bad + 1 > SchedPatience
      <4>1. rate' < rate \/ rate <= MinRate
        BY <2>4, <3>3, <1>3, SchedulerStep
      <4>2. Low(rate')
        BY <4>1, <2>1, <2>2, <1>0, <1>2 DEF Low
      <4>3. wait < StopPatience
        BY <3>3, <1>0, <1>2 DEF ScoreTypes
      <4> QED BY <4>2, <4>3, <2>1, <2>2, <1>0, <1>2
    <3>4. CASE bad >= wait - 1 /\ bad + 1 <= SchedPatience
      BY <3>4, <2>1, <2>2, <2>4, <1>3, <1>0, <1>2, SchedulerStep
    <3> QED BY <3>1, <3>2, <3>3, <3>4, <1>0, <1>2
  <2> QED BY <2>3, <2>4, <1>2
<1>9. FallInv'
  BY <1>1, <1>8 DEF FallInv, Past, Judging, Low
<1>10. StopsAfterReduction'
  <2> SUFFICES ASSUME wait >= StopPatience, Past
               PROVE  lastRate < atBest.rate \/ lastRate <= MinRate
    BY <1>1 DEF StopsAfterReduction, Past
  <2>1. CASE plan = {}
    BY <2>1, <1>0 DEF TrainedRate
  <2>2. CASE plan # {}
    BY <2>2, <1>8 DEF Low
  <2> QED BY <2>1, <2>2
<1> QED
  BY <1>5, <1>6, <1>7, <1>9, <1>10 DEF StopInv

(* If its patience exceeds the scheduler's by two, early stopping never    *)
(* ends a run that has not tried a lower rate since its best epoch, or is  *)
(* at the floor: for all losses, plans, rates and warm-ups.                *)
THEOREM StopsOnlyAfterReduction ==
  ASSUME StopPatience >= SchedPatience + 2
  PROVE  TrainSpec => []StopsAfterReduction
<1>1. StopInv /\ RateInv' /\ [TrainNext]_trainVars => StopInv'
  <2> SUFFICES ASSUME StopInv, RateInv', [TrainNext]_trainVars PROVE StopInv'
    OBVIOUS
  <2>1. CASE UNCHANGED trainVars
    BY <2>1 DEF trainVars, StopInv, ScoreTypes, RateInv, TrainedRate, CountersInv, FallInv,
                StopsAfterReduction, Starting, Judging, Past, Low, process, optimizer,
                monitors, bounds
  <2> QED
    BY <2>1, StopLaunch, StopBefore, StopStep, StopValidate, StopSave, StopAdapt, StopKill
       DEF TrainNext
<1>2. StopInv => StopsAfterReduction
  BY DEF StopInv
<1> QED
  BY <1>1, <1>2, StopInit, RateInvInductive, PTL DEF TrainSpec
-----------------------------------------------------------------------------
(* Epochs *)

\* The batches of a whole plan share the samples out.
GoodPlan(p, n) ==
  /\ UNION p = 1..n
  /\ \A b, c \in p : b # c => b \cap c = {}

\* e epochs are summed up, and the batches of `done' on top.
SumsAre(e, n, done) ==
  /\ graphs = e * n + Cardinality(UNION done)
  /\ batchCount = e * Cardinality(plan) + Cardinality(done)

EpochInv ==
  /\ epoch \in Nat
  /\ \A k \in DOMAIN planFile : GoodPlan(planFile[k], k.n)
  /\ stage \in {"setup", "built"} =>
       epoch = 0 /\ graphs = 0 /\ batchCount = 0 /\ trained = {}
  /\ stage \in {"built", "epoch", "done"} \/ Judging => GoodPlan(plan, call.n)
  /\ stage = "epoch" =>
       left \subseteq plan /\ trained = UNION (plan \ left) /\ SumsAre(epoch, call.n, plan \ left)
  /\ Judging => trained = 1..call.n /\ SumsAre(epoch, call.n, plan)
  /\ stage = "done" => trained = 1..call.n /\ SumsAre(epoch, call.n, {})

\* A plan is a finite set of finite batches.
LEMMA PlanFinite ==
  ASSUME NEW n \in Nat, NEW p, GoodPlan(p, n)
  PROVE  /\ IsFiniteSet(p) /\ IsFiniteSet(1..n) /\ Cardinality(1..n) = n
         /\ \A d \in SUBSET p : /\ IsFiniteSet(d) /\ Cardinality(d) \in Nat
                                /\ IsFiniteSet(UNION d) /\ Cardinality(UNION d) \in Nat
<1>1. IsFiniteSet(1..n) /\ Cardinality(1..n) = n
  BY FS_Interval
<1>2. IsFiniteSet(SUBSET (1..n))
  BY <1>1, FS_SUBSET
<1>3. p \subseteq SUBSET (1..n)
  BY DEF GoodPlan
<1>4. IsFiniteSet(p)
  BY <1>2, <1>3, FS_Subset
<1>5. ASSUME NEW d \in SUBSET p
      PROVE  /\ IsFiniteSet(d) /\ Cardinality(d) \in Nat
             /\ IsFiniteSet(UNION d) /\ Cardinality(UNION d) \in Nat
  <2>1. UNION d \in SUBSET (1..n)
    BY DEF GoodPlan
  <2>2. IsFiniteSet(d) /\ IsFiniteSet(UNION d)
    BY <1>1, <1>4, <2>1, FS_Subset
  <2> QED BY <2>2, FS_CardinalityType
<1> QED
  BY <1>1, <1>4, <1>5

\* The batch b counts beside those of d.
Adds(d, b) ==
  /\ Cardinality(d \cup {b}) = Cardinality(d) + 1
  /\ UNION (d \cup {b}) = (UNION d) \cup b
  /\ Cardinality(UNION (d \cup {b})) = Cardinality(UNION d) + Cardinality(b)

\* One batch more: it is disjoint from those before.
LEMMA OneBatchMore ==
  ASSUME NEW n \in Nat, NEW p, GoodPlan(p, n), NEW d \in SUBSET p, NEW b \in p \ d
  PROVE  Adds(d, b)
<1>1. IsFiniteSet(d) /\ IsFiniteSet(UNION d)
  BY PlanFinite
<1>2. IsFiniteSet(UNION {b})
  BY PlanFinite
<1>3. UNION {b} = b /\ UNION (d \cup {b}) = (UNION d) \cup b
  OBVIOUS
<1>4. (UNION d) \cap b = {}
  BY DEF GoodPlan
<1>5. Cardinality((UNION d) \cap b) = 0
  BY <1>4, FS_EmptySet
<1>6. Cardinality((UNION d) \cup b) = Cardinality(UNION d) + Cardinality(b) - 0
  BY <1>1, <1>2, <1>3, <1>5, FS_Union
<1>7. Cardinality(UNION d) \in Nat /\ Cardinality(b) \in Nat
  BY <1>1, <1>2, <1>3, FS_CardinalityType
<1>8. Cardinality(d \cup {b}) = Cardinality(d) + 1
  BY <1>1, FS_AddElement
<1>9. Cardinality((UNION d) \cup b) = Cardinality(UNION d) + Cardinality(b)
  BY <1>6, <1>7
<1> QED
  BY <1>3, <1>8, <1>9, Zenon DEF Adds

LEMMA StoredPlanGood ==
  ASSUME Partition, Finished, lo \in Int, hi \in Int
  PROVE  GoodPlan({Positions(b) : b \in batches}, call.n)
BY DEF Partition, Finished, Held, Pool, GoodPlan

LEMMA EpochInit == TrainInit => EpochInv
BY DEF TrainInit, Fresh, EpochInv, Judging

LEMMA EpochStore ==
  ASSUME IInv, EpochInv, StorePlan \/ ReusePlan \/ Fit
  PROVE  EpochInv'
<1>0. call \in Inputs /\ call.n \in Nat /\ call' = call
  BY CallFacts DEF IInv, StorePlan, ReusePlan, Fit, vars
<1>1. CASE StorePlan
  <2>1. GoodPlan({Positions(b) : b \in batches}, call.n)
    BY <1>1, PartitionFollows, StoredPlanGood DEF IInv, TypeOK, StorePlan
  <2>a. /\ DOMAIN planFile' = {call} \cup DOMAIN planFile
        /\ planFile'[call] = {Positions(b) : b \in batches}
        /\ \A k \in DOMAIN planFile \ {call} : planFile'[k] = planFile[k]
    BY <1>1 DEF StorePlan
  <2>2. \A k \in DOMAIN planFile' : GoodPlan(planFile'[k], k.n)
    BY <2>1, <2>a, Zenon DEF EpochInv
  <2>3. GoodPlan(plan', call.n)
    BY <1>1, <2>1, <2>a, Zenon DEF StorePlan
  <2> QED BY <1>0, <1>1, <2>2, <2>3 DEF StorePlan, EpochInv, Judging, optimizer
<1>2. CASE ReusePlan
  BY <1>0, <1>2 DEF ReusePlan, Reusable, EpochInv, Judging, optimizer, storage
<1>3. CASE Fit
  <2>1. plan' \ left' = {} /\ UNION {} = {} /\ Cardinality({}) = 0
    BY <1>3, FS_EmptySet DEF Fit
  <2>2. GoodPlan(plan, call.n) /\ epoch = 0 /\ graphs = 0 /\ batchCount = 0 /\ trained = {}
    BY <1>3 DEF Fit, EpochInv
  <2>3. Cardinality(plan) \in Nat
    BY <1>0, <2>2, PlanFinite
  <2>a. UNCHANGED <<plan, epoch, graphs, batchCount>>
    BY <1>3 DEF Fit, optimizer
  <2>b. graphs' = epoch' * call'.n + 0 /\ batchCount' = epoch' * Cardinality(plan') + 0
    BY <1>0, <2>a, <2>2, <2>3
  <2>4. SumsAre(epoch, call.n, {})'
    BY <2>b, <2>1, Zenon DEF SumsAre
  <2>5. SumsAre(epoch, call.n, plan \ left)'
    BY <2>1, <2>4, Zenon DEF SumsAre
  <2> QED BY <1>0, <1>3, <2>1, <2>2, <2>5 DEF Fit, EpochInv, Judging, optimizer
<1> QED
  BY <1>1, <1>2, <1>3

LEMMA EpochStep ==
  ASSUME IInv, EpochInv, NEW b \in left, Step(b)
  PROVE  EpochInv'
<1> DEFINE before == plan \ left
<1>0. call \in Inputs /\ call.n \in Nat /\ UNCHANGED <<call, plan, epoch, planFile>>
  BY CallFacts DEF IInv, Step, vars, storage
<1>1. stage = "epoch" /\ stage' = "epoch" /\ left \subseteq plan /\ GoodPlan(plan, call.n)
        /\ trained = UNION before /\ SumsAre(epoch, call.n, before) /\ epoch \in Nat
  BY DEF Step, EpochInv
<1>2. plan' \ left' = before \cup {b} /\ left' \subseteq plan' /\ b \in plan \ before
  BY <1>0, <1>1 DEF Step
<1>3. Adds(before, b)
  <2> HIDE DEF before
  <2>1. before \in SUBSET plan
    BY DEF before
  <2>2. call.n \in Nat /\ GoodPlan(plan, call.n) /\ b \in plan \ before
    BY <1>0, <1>1, <1>2
  <2> QED BY <2>1, <2>2, OneBatchMore
<1>4. /\ Cardinality(before) \in Nat /\ Cardinality(plan) \in Nat
      /\ Cardinality(UNION before) \in Nat /\ Cardinality(UNION {b}) \in Nat
  BY <1>0, <1>1, <1>2, PlanFinite
<1>5. epoch * call.n \in Nat /\ epoch * Cardinality(plan) \in Nat /\ UNION {b} = b
  BY <1>0, <1>1, <1>4
<1>6. SumsAre(epoch, call.n, plan \ left)'
  <2>1. Cardinality(b) \in Nat
    BY <1>4, <1>5, Zenon
  <2>2. SumsAre(epoch, call.n, before) /\ graphs' = graphs + Cardinality(b)
          /\ batchCount' = batchCount + 1
    BY <1>1 DEF Step
  <2>3. /\ graphs' = epoch * call.n + Cardinality(UNION (before \cup {b}))
        /\ batchCount' = epoch * Cardinality(plan) + Cardinality(before \cup {b})
    <3> HIDE DEF before
    <3> QED BY <1>3, <1>4, <1>5, <2>1, <2>2 DEF SumsAre, Adds
  <2> QED BY <1>0, <1>2, <2>3, Zenon DEF SumsAre
<1>7. trained' = UNION (plan' \ left')
  BY <1>1, <1>2, <1>3 DEF Step, Adds
<1> QED
  BY <1>0, <1>1, <1>2, <1>6, <1>7 DEF EpochInv, Judging

LEMMA EpochEnds ==
  ASSUME IInv, EpochInv, (\E l \in Losses : Validate(l)) \/ Adapt
  PROVE  EpochInv'
<1>0. call \in Inputs /\ call.n \in Nat /\ epoch \in Nat
  BY CallFacts DEF IInv, EpochInv
<1>a. UNCHANGED <<call, plan, graphs, batchCount, planFile>>
  BY DEF Validate, Adapt, vars, storage, optimizer
<1>1. ASSUME NEW l \in Losses, Validate(l) PROVE EpochInv'
  <2>1. stage = "epoch" /\ stage' = "save" /\ plan \ left = plan
    BY <1>1 DEF Validate
  <2>2. GoodPlan(plan, call.n) /\ trained = 1..call.n /\ SumsAre(epoch, call.n, plan)
    BY <2>1 DEF EpochInv, GoodPlan
  <2>3. SumsAre(epoch, call.n, plan)' /\ trained' = 1..call'.n /\ epoch' = epoch
    BY <1>1, <1>a, <2>2 DEF Validate, SumsAre, optimizer
  <2> QED BY <1>a, <2>1, <2>2, <2>3 DEF EpochInv, Judging
<1>2. CASE Adapt
  <2>1. GoodPlan(plan, call.n) /\ trained = 1..call.n /\ SumsAre(epoch, call.n, plan)
    BY <1>2 DEF Adapt, EpochInv, Judging
  <2>2. Cardinality(UNION plan) = call.n /\ Cardinality(plan) \in Nat
    BY <1>0, <2>1, PlanFinite DEF GoodPlan
  <2>3. \A e, m \in Nat : e * m + m = (e + 1) * m + 0
    BY SMT
  <2>4. UNION {} = {} /\ Cardinality({}) = 0
    BY FS_EmptySet
  <2>5. SumsAre(epoch + 1, call.n, {})
    BY <1>0, <2>1, <2>2, <2>3, <2>4 DEF SumsAre
  <2>6. epoch' = epoch + 1
    BY <1>2 DEF Adapt
  <2>7. SumsAre(epoch, call.n, {})'
    BY <1>a, <2>5, <2>6 DEF SumsAre
  <2>8. CASE stage' = "done"
    BY <1>0, <1>2, <1>a, <2>1, <2>6, <2>7, <2>8 DEF Adapt, EpochInv, Judging
  <2>9. CASE stage' = "epoch"
    <3>1. left' = plan /\ trained' = {} /\ plan' \ left' = {}
      BY <1>2, <1>a, <2>9 DEF Adapt
    <3>2. SumsAre(epoch, call.n, plan \ left)'
      BY <2>7, <3>1, Zenon DEF SumsAre
    <3>3. trained' = UNION (plan' \ left')
      BY <2>4, <3>1, Zenon
    <3> QED BY <1>0, <1>a, <1>2, <2>1, <2>6, <2>9, <3>1, <3>2, <3>3
            DEF Adapt, EpochInv, Judging, storage
  <2> QED BY <1>2, <2>8, <2>9 DEF Adapt
<1> QED
  BY <1>1, <1>2

LEMMA EpochOther ==
  ASSUME EpochInv, Unnamed \/ Save \/ Evict \/ Kill \/ Pack \/ \E c \in Configs : Launch(c)
  PROVE  EpochInv'
<1>1. CASE Unnamed \/ Save \/ Evict \/ Kill
  BY <1>1 DEF Unnamed, Save, Evict, Kill, EpochInv, Judging, SumsAre, optimizer, vars, storage
<1>2. CASE Pack
  BY <1>2 DEF Pack, EpochInv, Judging, process, optimizer, storage
<1>3. ASSUME NEW c \in Configs, Launch(c) PROVE EpochInv'
  BY <1>3 DEF Launch, EpochInv, Judging, storage
<1> QED
  BY <1>1, <1>2, <1>3

LEMMA EpochFollows == IInv /\ EpochInv => EpochCovers
<1> SUFFICES ASSUME IInv, EpochInv, stage \in {"save", "evict", "adapt", "done"}
             PROVE  EpochCovers
  BY DEF EpochCovers
<1> DEFINE e == IF stage = "done" THEN epoch ELSE epoch + 1
<1>0. call.n \in Nat /\ epoch \in Nat /\ e \in Nat /\ GoodPlan(plan, call.n)
  BY CallFacts DEF IInv, EpochInv, Judging
<1>1. Cardinality(UNION plan) = call.n /\ Cardinality(plan) \in Nat
  BY <1>0, PlanFinite DEF GoodPlan
<1>2. UNION {} = {} /\ Cardinality({}) = 0
  BY FS_EmptySet
<1>3. \A i, m \in Nat : i * m + m = (i + 1) * m /\ i * m + 0 = i * m
  BY SMT
<1>4. graphs = e * call.n /\ batchCount = e * Cardinality(plan) /\ trained = 1..call.n
  <2>1. CASE stage = "done"
    <3>1. trained = 1..call.n /\ SumsAre(epoch, call.n, {}) /\ e = epoch
      BY <2>1 DEF EpochInv
    <3>2. graphs = e * call.n + 0 /\ batchCount = e * Cardinality(plan) + 0
      BY <1>2, <3>1, Zenon DEF SumsAre
    <3> HIDE DEF e
    <3> QED BY <1>0, <1>1, <1>3, <3>1, <3>2
  <2>2. CASE stage # "done"
    <3>1. trained = 1..call.n /\ SumsAre(epoch, call.n, plan) /\ e = epoch + 1
      BY <2>2 DEF EpochInv, Judging
    <3> HIDE DEF e
    <3> QED BY <1>0, <1>1, <1>3, <3>1 DEF SumsAre
  <2> QED BY <2>1, <2>2
<1>5. \A i, m, k \in Nat : (i * k) * m = (i * m) * k
  BY SMT
<1>6. batchCount * call.n = graphs * Cardinality(plan)
  <2> HIDE DEF e
  <2> QED BY <1>0, <1>1, <1>4, <1>5
<1> QED
  BY <1>4, <1>6 DEF EpochCovers

(* Every epoch trains every sample once and the sums are those of whole    *)
(* epochs: for all calls, plans stored by any earlier run, orders of the   *)
(* batches, numbers of epochs and kills.                                   *)
THEOREM EpochsCover == TrainSpec => []EpochCovers
<1>1. IInv /\ EpochInv /\ [TrainNext]_trainVars => EpochInv'
  <2> SUFFICES ASSUME IInv, EpochInv, [TrainNext]_trainVars PROVE EpochInv'
    OBVIOUS
  <2>1. CASE UNCHANGED trainVars
    BY <2>1 DEF trainVars, vars, process, optimizer, storage, EpochInv, Judging, SumsAre
  <2> QED
    BY <2>1, EpochStore, EpochStep, EpochEnds, EpochOther DEF TrainNext
<1> QED
  BY <1>1, EpochInit, Inductive, EpochFollows, PTL DEF TrainSpec
-----------------------------------------------------------------------------
(* The checkpoint selected *)

Named == {c \in Configs : HasLabel(c)}
FilesOf(c) == dirs[RunLabel(c)]

\* A file of c's directory is what its name says, and no better than the best.
Genuine(f, c) ==
  /\ f.config = c
  /\ f.loss \in Losses /\ f.loss >= earned[c]
  /\ f.printed = Printed(f.loss)

\* The best of c is there, and is not the file about to be deleted.
BestThere(c) ==
  \E f \in FilesOf(c) : f.loss = earned[c] /\ (stage = "evict" /\ config = c => f # evicted)

Fitting == stage \in {"epoch", "save", "evict", "adapt"}

FileInv ==
  /\ earned \in [Configs -> Losses \cup {Infinity}]
  /\ stage # "pack" => config \in Configs
  /\ Judging => loss \in Losses
  /\ stage \in {"setup", "built"} => kept = {}
  /\ stage \in {"setup", "built", "epoch", "save", "adapt"} => evicted = NoFile
  /\ stage = "evict" => evicted \notin kept
  /\ Fitting => /\ HasLabel(config) /\ RunLabel(config) \in DOMAIN dirs
                /\ kept \subseteq FilesOf(config)
  /\ \A c \in Named : RunLabel(c) \in DOMAIN dirs => \A f \in FilesOf(c) : Genuine(f, c)
  /\ \A c \in Named : earned[c] # Infinity => RunLabel(c) \in DOMAIN dirs /\ BestThere(c)

LEMMA MinOfTwo ==
  ASSUME NEW a \in Nat, NEW b \in Nat
  PROVE  /\ Min({a, b}) \in {a, b}
         /\ Min({a, b}) <= a /\ Min({a, b}) <= b
<1> DEFINE m == IF a <= b THEN a ELSE b
<1>1. \E x \in {a, b} : \A y \in {a, b} : x <= y
  <2>1. m \in {a, b} /\ \A y \in {a, b} : m <= y
    OBVIOUS
  <2> QED BY <2>1
<1>2. Min({a, b}) \in {a, b} /\ \A y \in {a, b} : Min({a, b}) <= y
  BY <1>1 DEF Min
<1> QED
  BY <1>2

\* A word between two names is found where it was put, and no other word is.
LEMMA LabelSplits ==
  ASSUME NEW S, NEW a \in Seq(S), NEW w \in S, NEW m \in Seq(S),
         a # <<>>, m # <<>>, w \notin Range(a), w \notin Range(m)
  PROVE  LET label == a \o <<w>> \o m
         IN  /\ Inside(label, w) # {} /\ HeadOf(label, w) = a /\ TailOf(label, w) = m
             /\ \A v : v # w /\ v \notin Range(a) /\ v \notin Range(m) => Inside(label, v) = {}
<1> DEFINE label == a \o <<w>> \o m
           head == a \o <<w>>
           at == Len(a) + 1
<1>1. Len(a) \in Nat /\ Len(m) \in Nat /\ Len(a) >= 1 /\ Len(m) >= 1
  OBVIOUS
<1>2. <<w>> \in Seq(S) /\ Len(<<w>>) = 1 /\ <<w>>[1] = w
  OBVIOUS
<1>3. /\ head \in Seq(S) /\ Len(head) = at /\ head[at] = w
       /\ \A i \in 1..Len(a) : head[i] = a[i]
  <2>1. \A i \in 1..at : head[i] = IF i <= Len(a) THEN a[i] ELSE <<w>>[i - Len(a)]
    BY <1>1, <1>2, ConcatProperties
  <2>2. head \in Seq(S) /\ Len(head) = at
    BY <1>2, ConcatProperties
  <2> HIDE DEF head
  <2> QED
    BY <1>1, <1>2, <2>1, <2>2
<1>4. /\ label \in Seq(S) /\ Len(label) = at + Len(m)
      /\ at \in Nat /\ at >= 2
  BY <1>1, <1>3, ConcatProperties
<1>5. /\ label[at] = w
      /\ \A i \in 1..Len(a) : label[i] = a[i] /\ a[i] \in Range(a)
      /\ \A i \in at + 1..at + Len(m) : label[i] = m[i - at] /\ m[i - at] \in Range(m)
  <2>1. \A i \in 1..at + Len(m) : label[i] = IF i <= at THEN head[i] ELSE m[i - at]
    BY <1>3, ConcatProperties
  <2>2. \A i \in 1..Len(a) : a[i] \in Range(a)
    BY DEF Range
  <2>3. \A i \in 1..Len(m) : m[i] \in Range(m)
    BY DEF Range
  <2>4. \A i \in at + 1..at + Len(m) : i - at \in 1..Len(m)
    BY <1>4
  <2> HIDE DEF head, label
  <2> QED
    BY <1>1, <1>4, <1>3, <2>1, <2>2, <2>3, <2>4
<1>6. \A i \in 1..Len(label) : i = at \/ i \in 1..Len(a) \/ i \in at + 1..at + Len(m)
  BY <1>4
<1>7. Inside(label, w) = {at}
  BY <1>1, <1>4, <1>5, <1>6 DEF Inside
<1>8. FirstInside(label, w) = at
  BY <1>4, <1>7 DEF FirstInside
<1>9. HeadOf(label, w) = a
  <2>1. HeadOf(label, w) = SubSeq(label, 1, Len(a))
    BY <1>4, <1>8 DEF HeadOf
  <2>2. SubSeq(label, 1, Len(a)) = SubSeq(head, 1, Len(a))
    BY <1>1, <1>3, SubSeqOfConcat1
  <2>3. SubSeq(head, 1, Len(a)) = SubSeq(a, 1, Len(a))
    BY <1>1, <1>2, SubSeqOfConcat1
  <2>4. SubSeq(a, 1, Len(a)) = a
    BY SubSeqFull
  <2> QED
    BY <2>1, <2>2, <2>3, <2>4
<1>10. TailOf(label, w) = m
  <2>1. TailOf(label, w) = SubSeq(label, at + 1, at + Len(m))
    BY <1>4, <1>8 DEF TailOf
  <2>2. SubSeq(label, at + 1, at + Len(m)) = SubSeq(m, 1, Len(m))
    <3> HIDE DEF head, at
    <3>1. SubSeq(head \o m, at + 1, at + Len(m)) = SubSeq(m, at + 1 - at, at + Len(m) - at)
      BY <1>1, <1>3, <1>4, SubSeqOfConcat2
    <3>2. at + 1 - at = 1 /\ at + Len(m) - at = Len(m)
      BY <1>4
    <3> QED
      BY <3>1, <3>2 DEF head
  <2>3. SubSeq(m, 1, Len(m)) = m
    BY SubSeqFull
  <2> QED
    BY <2>1, <2>2, <2>3
<1>11. ASSUME NEW v, v # w, v \notin Range(a), v \notin Range(m) PROVE Inside(label, v) = {}
  BY <1>1, <1>4, <1>5, <1>6, <1>11 DEF Inside
<1> QED
  BY <1>7, <1>9, <1>10, <1>11

\* The label read back is the configuration's name.
LEMMA LabelParses ==
  ASSUME NEW c \in Named
  PROVE  ParseRunLabel(RunLabel(c)) =
           [algorithm |-> c.algorithm, type |-> c.type, method |-> c.method, split |-> c.split]
<1> DEFINE types == {"sparsification", "partition", "summarization"}
<1>0. Range(Reductions) = types
  BY DEF Range, Reductions
<1>1. PICK W : /\ c.algorithm \in Seq(W) /\ c.algorithm # <<>> /\ c.method \in Seq(W)
               /\ types \cup {"none"} \cup ValidSplitBy \subseteq W
               /\ c.split \in ValidSplitBy
               /\ \/ c.type = "none" /\ c.method = <<>>
                  \/ c.type \in types /\ c.method # <<>>
               /\ c.type = "none" \/ c.split = SplitBy
  <2>1. c \in Configs /\ (c.type = "none" \/ c.split = SplitBy)
    BY DEF Named, HasLabel
  <2>2. PICK W : W = STRING \cup types \cup {"none"} \cup ValidSplitBy
    OBVIOUS
  <2>3. Seq(STRING) \subseteq Seq(W)
    <3>1. STRING \subseteq W
      BY <2>2
    <3> QED
      BY <3>1, SeqMonotonic
  <2>4. types \cup {"none"} \cup ValidSplitBy \subseteq W
    BY <2>2
  <2>5. /\ c.algorithm \in Seq(W) /\ c.algorithm # <<>> /\ c.method \in Seq(W)
        /\ c.split \in ValidSplitBy
        /\ \/ c.type = "none" /\ c.method = <<>>
           \/ c.type \in types /\ c.method # <<>>
    <3> HIDE DEF types
    <3> QED
      BY <1>0, <2>1, <2>3, NameAssumption, Zenon
  <2> HIDE DEF types
  <2> QED
    BY <2>1, <2>4, <2>5, Zenon
<1>2. \A w \in types \cup {"none"} : w \notin Range(c.algorithm) /\ w \notin Range(c.method)
  <2>1. Range(c.algorithm \o c.method) \cap (types \cup {"none"}) = {}
    BY <1>0, NameAssumption, Zenon DEF Named
  <2>2. Range(c.algorithm \o c.method) = Range(c.algorithm) \cup Range(c.method)
    BY <1>1, RangeConcatenation
  <2> HIDE DEF types
  <2> QED
    BY <2>1, <2>2
<1>3. DOMAIN Reductions = 1..3 /\ \A r \in 1..3 : Reductions[r] \in types
  BY DEF Reductions
<1>4. CASE c.type # "none"
  <2> DEFINE l == RunLabel(c)
             found == {r \in DOMAIN Reductions : Inside(l, Reductions[r]) # {}}
  <2>1. l = c.algorithm \o <<c.type>> \o c.method /\ c.split = SplitBy
    BY <1>1, <1>4 DEF RunLabel, SplitBy
  <2>2. /\ Inside(l, c.type) # {} /\ HeadOf(l, c.type) = c.algorithm /\ TailOf(l, c.type) = c.method
        /\ \A v \in types \ {c.type} : Inside(l, v) = {}
    BY <1>1, <1>2, <1>4, <2>1, LabelSplits
  <2>3. PICK r \in 1..3 : Reductions[r] = c.type /\ \A q \in 1..3 : Reductions[q] = c.type => q = r
    BY <1>1, <1>4 DEF Reductions
  <2>4. found = {r}
    BY <1>3, <2>2, <2>3
  <2>5. Reductions[CHOOSE x \in found : \A q \in found : x <= q] = c.type
    <3>1. (CHOOSE x \in found : \A q \in found : x <= q) = r
      BY <2>4
    <3> QED
      BY <2>3, <3>1
  <2> HIDE DEF l
  <2> QED
    BY <2>1, <2>2, <2>4, <2>5 DEF ParseRunLabel, l
<1>5. CASE c.type = "none" /\ c.split # SplitBy
  <2> DEFINE l == RunLabel(c)
  <2>1. l = c.algorithm \o <<"none">> \o <<c.split>>
    BY <1>1, <1>5 DEF RunLabel
  <2>2. \A w \in types \cup {"none"} : w \notin Range(<<c.split>>)
    <3>1. Range(<<c.split>>) = {c.split}
      BY DEF Range
    <3>2. c.split \notin types \cup {"none"}
      BY <1>1 DEF ValidSplitBy
    <3> QED
      BY <3>1, <3>2
  <2>3. /\ Inside(l, "none") # {} /\ HeadOf(l, "none") = c.algorithm /\ TailOf(l, "none") = <<c.split>>
        /\ \A v \in types : Inside(l, v) = {}
    <3>1. "none" \in W /\ <<c.split>> \in Seq(W) /\ <<c.split>> # <<>>
      BY <1>1
    <3>2. \A v \in types : v # "none"
      OBVIOUS
    <3>3. "none" \notin Range(c.algorithm) /\ "none" \notin Range(<<c.split>>)
      BY <1>2, <2>2
    <3>4. /\ Inside(l, "none") # {} /\ HeadOf(l, "none") = c.algorithm /\ TailOf(l, "none") = <<c.split>>
          /\ \A v : v # "none" /\ v \notin Range(c.algorithm) /\ v \notin Range(<<c.split>>)
                  => Inside(l, v) = {}
      <4>1. PICK n, m : n = "none" /\ m = <<c.split>>
        OBVIOUS
      <4>2. /\ n \in W /\ m \in Seq(W) /\ m # <<>> /\ l = c.algorithm \o <<n>> \o m
            /\ n \notin Range(c.algorithm) /\ n \notin Range(m)
        BY <2>1, <3>1, <3>3, <4>1, Zenon
      <4>3. c.algorithm \in Seq(W) /\ c.algorithm # <<>>
        BY <1>1
      <4> HIDE DEF types, l
      <4>4. /\ Inside(l, n) # {} /\ HeadOf(l, n) = c.algorithm /\ TailOf(l, n) = m
            /\ \A v : v # n /\ v \notin Range(c.algorithm) /\ v \notin Range(m)
                    => Inside(l, v) = {}
        BY <4>2, <4>3, LabelSplits
      <4> QED
        BY <4>1, <4>4, Zenon
    <3>5. \A v \in types : v \notin Range(c.algorithm) /\ v \notin Range(<<c.split>>)
      BY <1>2, <2>2
    <3> HIDE DEF types, l
    <3> QED
      BY <3>2, <3>4, <3>5
  <2>4. {r \in DOMAIN Reductions : Inside(l, Reductions[r]) # {}} = {}
    BY <1>3, <2>3
  <2>5. <<c.split>> \in {<<s>> : s \in ValidSplitBy} /\ <<c.split>>[1] = c.split
    BY <1>1 DEF ValidSplitBy
  <2> HIDE DEF l
  <2> QED
    BY <1>1, <1>5, <2>3, <2>4, <2>5 DEF ParseRunLabel, l
<1>6. CASE c.type = "none" /\ c.split = SplitBy
  <2> DEFINE l == RunLabel(c)
  <2>1. l = c.algorithm
    BY <1>6 DEF RunLabel
  <2>2. \A w \in types \cup {"none"} : Inside(l, w) = {}
    BY <1>1, <1>2, <2>1 DEF Inside, Range
  <2>3. {r \in DOMAIN Reductions : Inside(l, Reductions[r]) # {}} = {}
    BY <1>3, <2>2
  <2> HIDE DEF l
  <2> QED
    BY <1>1, <1>6, <2>1, <2>2, <2>3 DEF ParseRunLabel, l
<1> QED
  BY <1>4, <1>5, <1>6

LEMMA LabelsApart ==
  ASSUME NEW c \in Named, NEW d \in Named, RunLabel(c) = RunLabel(d)
  PROVE  c = d
<1> DEFINE name(x) == [algorithm |-> x.algorithm, type |-> x.type,
                       method |-> x.method, split |-> x.split]
<1>1. name(c) = name(d)
  BY LabelParses
<1>2. name(c).algorithm = name(d).algorithm /\ name(c).type = name(d).type
        /\ name(c).method = name(d).method /\ name(c).split = name(d).split
  BY <1>1, Zenon
<1> QED
  BY <1>2, NameAssumption DEF Named

\* The top k has a worst file as soon as it has one.
LEMMA HasWorst ==
  ASSUME kept # {}, \A f \in kept : f.loss \in Losses
  PROVE  \E f \in Worst : f \in kept
<1>1. PICK m \in Losses : \A l \in Losses : m >= l
  BY ConfigAssumption
<1>2. m \in Nat /\ \A f \in kept : f.loss \in Nat /\ f.loss <= m
  BY <1>1, ConfigAssumption
<1> DEFINE T == {m - f.loss : f \in kept}
<1>3. T \in SUBSET Nat /\ T # {}
  BY <1>2
<1>4. PICK x \in T : \A y \in T : x <= y
  <2> HIDE DEF T
  <2> QED BY <1>3, LeastNat
<1>5. PICK f \in kept : x = m - f.loss
  BY <1>4
<1>6. ASSUME NEW g \in kept PROVE g.loss <= f.loss
  <2>1. m - f.loss <= m - g.loss
    BY <1>4, <1>5
  <2> QED BY <2>1, <1>2
<1> QED
  BY <1>5, <1>6 DEF Worst

LEMMA FileInit == TrainInit => FileInv
BY DEF TrainInit, Fresh, FileInv, Judging, Fitting, Named

LEMMA FileFit == FileInv /\ Fit => FileInv'
<1> SUFFICES ASSUME FileInv, Fit PROVE FileInv'
  OBVIOUS
<1> DEFINE l == RunLabel(config)
<1>0. /\ stage = "built" /\ stage' = "epoch" /\ HasLabel(config) /\ kept = {}
      /\ config \in Named /\ evicted = NoFile
      /\ UNCHANGED <<config, loss, kept, evicted, earned>>
  BY DEF Fit, FileInv, Named, saving, monitors
<1>1. /\ DOMAIN dirs' = DOMAIN dirs \cup {l}
      /\ \A k \in DOMAIN dirs' : dirs'[k] = IF k \in DOMAIN dirs THEN dirs[k] ELSE {}
  BY DEF Fit
<1>2. ASSUME NEW c \in Named, RunLabel(c) \in DOMAIN dirs', NEW f \in FilesOf(c)'
      PROVE  Genuine(f, c)'
  <2>1. RunLabel(c) \in DOMAIN dirs /\ f \in FilesOf(c)
    BY <1>1, <1>2 DEF FilesOf
  <2> QED BY <1>0, <2>1 DEF FileInv, Genuine
<1>3. ASSUME NEW c \in Named, earned[c] # Infinity
      PROVE  RunLabel(c) \in DOMAIN dirs' /\ BestThere(c)'
  <2>1. RunLabel(c) \in DOMAIN dirs /\ BestThere(c)
    BY <1>3 DEF FileInv
  <2> QED BY <1>0, <1>1, <2>1 DEF BestThere, FilesOf
<1> QED
  BY <1>0, <1>1, <1>2, <1>3 DEF FileInv, Judging, Fitting, FilesOf, Named

\* The file written for this epoch.
LEMMA FileWritten ==
  /\ FileName.loss = loss /\ FileName.config = config /\ FileName.printed = Printed(loss)
BY DEF FileName

LEMMA FileSave == FileInv /\ Save => FileInv'
<1> SUFFICES ASSUME FileInv, Save PROVE FileInv'
  OBVIOUS
<1> DEFINE l == RunLabel(config)
           m == earned'[config]
           new == FileName
<1>0. /\ stage = "save" /\ stage' = "evict" /\ HasLabel(config) /\ config \in Named
      /\ evicted = NoFile /\ l \in DOMAIN dirs /\ kept \subseteq FilesOf(config)
      /\ loss \in Losses /\ config \in Configs
      /\ UNCHANGED <<config, loss>>
  BY DEF Save, FileInv, Named, monitors, Judging, Fitting
<1>1. /\ new.loss = loss /\ new.config = config /\ new.printed = Printed(loss)
  BY FileWritten
<1> HIDE DEF new
<1>2. \A f \in FilesOf(config) : Genuine(f, config)
  BY <1>0 DEF FileInv
<1>3. /\ earned' \in [Configs -> Losses \cup {Infinity}]
      /\ m \in Losses /\ m <= earned[config] /\ m <= loss /\ (m = earned[config] \/ m = loss)
      /\ \A c \in Configs \ {config} : earned'[c] = earned[c]
  <2>1. earned \in [Configs -> Losses \cup {Infinity}] /\ earned[config] \in Nat
          /\ loss \in Nat /\ loss < Infinity /\ Infinity \in Nat
    BY <1>0, InfinityAbove DEF FileInv
  <2>2. earned' = [earned EXCEPT ![config] = Min({@, loss})]
    BY DEF Save
  <2>3. m = Min({earned[config], loss})
    BY <1>0, <2>1, <2>2
  <2>4. m \in {earned[config], loss} /\ m <= earned[config] /\ m <= loss
    BY <2>1, <2>3, MinOfTwo
  <2>5. m \in Losses
    BY <1>0, <2>1, <2>4 DEF FileInv
  <2>6. \A c \in Configs \ {config} : earned'[c] = earned[c]
    BY <2>1, <2>2
  <2>7. earned' \in [Configs -> Losses \cup {Infinity}]
    BY <1>0, <2>1, <2>2, <2>3, <2>5
  <2> QED BY <2>4, <2>5, <2>6, <2>7
<1> HIDE DEF m
<1>4. ASSUME NEW c \in Named, c # config
      PROVE  /\ RunLabel(c) \in DOMAIN dirs' <=> RunLabel(c) \in DOMAIN dirs
             /\ RunLabel(c) \in DOMAIN dirs => FilesOf(c)' = FilesOf(c)
             /\ earned'[c] = earned[c]
  <2>1. RunLabel(c) # l
    BY <1>0, <1>4, LabelsApart
  <2>2. earned'[c] = earned[c]
    BY <1>3, <1>4 DEF Named
  <2> QED BY <2>1, <2>2 DEF Save, FilesOf
<1>5. \* what was written and what may be deleted
      /\ DOMAIN dirs' = DOMAIN dirs
      /\ \/ /\ FilesOf(config)' = FilesOf(config) \cup {new}
            /\ \/ evicted' = NoFile /\ kept' = kept \cup {new}
               \/ /\ evicted' \in kept /\ loss < evicted'.loss
                  /\ kept' = (kept \ {evicted'}) \cup {new}
         \/ /\ FilesOf(config)' = FilesOf(config) /\ evicted' = NoFile /\ kept' = kept
            /\ earned[config] <= loss
  <2>1. CASE Cardinality(kept) < TopK
    BY <2>1, <1>0 DEF Save, FilesOf, new
  <2>2. CASE ~(Cardinality(kept) < TopK) /\ \E f \in Worst : loss < f.loss
    <3>1. PICK f \in Worst : /\ dirs' = [dirs EXCEPT ![l] = @ \cup {new}]
                            /\ evicted' = f /\ kept' = (kept \ {f}) \cup {new}
      BY <2>2 DEF Save, new
    <3>2. f \in kept /\ loss < f.loss
      <4>1. PICK g \in Worst : loss < g.loss
        BY <2>2
      <4>2. f \in kept /\ g \in kept /\ g.loss <= f.loss
        BY DEF Worst
      <4>3. loss \in Nat /\ f.loss \in Nat /\ g.loss \in Nat
        BY <4>2, <1>0, <1>2, InfinityAbove DEF Genuine
      <4> QED BY <4>1, <4>2, <4>3
    <3>3. FilesOf(config)' = FilesOf(config) \cup {new} /\ DOMAIN dirs' = DOMAIN dirs
      BY <3>1, <1>0 DEF FilesOf
    <3> QED BY <3>1, <3>2, <3>3
  <2>3. CASE ~(Cardinality(kept) < TopK) /\ ~\E f \in Worst : loss < f.loss
    <3>1. dirs' = dirs /\ kept' = kept /\ evicted' = NoFile
      BY <2>3, <1>0 DEF Save
    <3>2. kept # {}
      BY <2>3, FS_EmptySet, ConfigAssumption
    <3>3. PICK f \in Worst : f \in kept
      BY <3>2, <1>0, <1>2, HasWorst DEF Genuine
    <3>4. f.loss <= loss /\ f.loss >= earned[config] /\ f.loss \in Nat /\ loss \in Nat
            /\ earned[config] \in Nat
      BY <2>3, <3>3, <1>0, <1>2, InfinityAbove DEF Genuine, FileInv
    <3>5. earned[config] <= loss
      BY <3>4
    <3> QED BY <3>1, <3>5, <1>0 DEF FilesOf
  <2> QED BY <2>1, <2>2, <2>3
<1>6. ASSUME NEW c \in Named, RunLabel(c) \in DOMAIN dirs', NEW f \in FilesOf(c)'
      PROVE  Genuine(f, c)'
  <2>1. CASE c # config
    <3>1. Genuine(f, c)
      BY <2>1, <1>4, <1>6 DEF FileInv
    <3> QED BY <2>1, <3>1, <1>4 DEF Genuine
  <2>2. CASE c = config /\ f \in FilesOf(config)
    <3>1. Genuine(f, config)
      BY <2>2, <1>2
    <3>2. f.loss \in Nat /\ earned[config] \in Nat /\ m \in Nat
      BY <3>1, <1>0, <1>3, InfinityAbove DEF Genuine, FileInv
    <3> QED BY <2>2, <3>1, <3>2, <1>3 DEF Genuine, m
  <2>3. CASE c = config /\ f = new
    <3>1. loss \in Nat /\ m \in Nat
      BY <1>0, <1>3, InfinityAbove
    <3> QED BY <2>3, <3>1, <1>0, <1>1, <1>3 DEF Genuine, m
  <2> QED BY <1>0, <1>5, <1>6, <2>1, <2>2, <2>3 DEF FilesOf
<1>7. ASSUME NEW c \in Named, earned'[c] # Infinity
      PROVE  RunLabel(c) \in DOMAIN dirs' /\ BestThere(c)'
  <2>1. CASE c # config
    <3>1. RunLabel(c) \in DOMAIN dirs /\ BestThere(c)
      BY <2>1, <1>4, <1>7 DEF FileInv
    <3> QED BY <2>1, <3>1, <1>0, <1>4 DEF BestThere
  <2>2. CASE c = config
    <3>0. earned[config] \in Nat /\ loss \in Nat /\ Infinity \in Nat /\ loss < Infinity /\ m \in Nat
      BY <1>0, <1>3, InfinityAbove DEF FileInv
    <3>1. \A f \in FilesOf(config) : f # NoFile
      BY <1>0, <1>2, NameAssumption DEF Genuine, NoFile
    <3>2. new # NoFile
      BY <1>0, <1>1, NameAssumption DEF NoFile
    <3>3. CASE m = loss /\ new \in FilesOf(config)' 
      <4>1. new # evicted'
        BY <3>0, <3>2, <1>1, <1>5
      <4> QED BY <2>2, <3>3, <4>1, <1>0, <1>1, <1>5 DEF BestThere, m
    <3>4. CASE m = earned[config] /\ m <= loss
      <4>1. earned[config] # Infinity
        BY <3>0, <3>4
      <4>2. PICK f \in FilesOf(config) : f.loss = earned[config]
        BY <4>1, <1>0 DEF FileInv, BestThere
      <4>3. f # evicted' /\ f \in FilesOf(config)'
        BY <3>0, <3>1, <3>4, <4>2, <1>5
      <4> QED BY <2>2, <3>4, <4>2, <4>3, <1>0, <1>5 DEF BestThere, m
    <3> QED BY <3>0, <3>3, <3>4, <1>3, <1>5
  <2> QED BY <2>1, <2>2
<1>8. evicted' \notin kept' /\ kept' \subseteq FilesOf(config)'
  <2>1. \A f \in kept : f # NoFile
    BY <1>0, <1>2, NameAssumption DEF Genuine, NoFile
  <2>2. new # NoFile
    BY <1>0, <1>1, NameAssumption DEF NoFile
  <2>3. evicted' \in kept /\ loss < evicted'.loss => evicted' # new
    BY <1>0, <1>1, InfinityAbove
  <2> QED BY <1>0, <1>5, <2>1, <2>2, <2>3
<1> QED
  BY <1>0, <1>3, <1>5, <1>6, <1>7, <1>8 DEF FileInv, Judging, Fitting, Named

LEMMA FileEvict == FileInv /\ Evict => FileInv'
<1> SUFFICES ASSUME FileInv, Evict PROVE FileInv'
  OBVIOUS
<1>0. /\ stage = "evict" /\ stage' = "adapt" /\ HasLabel(config) /\ config \in Named
      /\ evicted' = NoFile /\ RunLabel(config) \in DOMAIN dirs
      /\ kept \subseteq FilesOf(config) /\ evicted \notin kept /\ loss \in Losses
      /\ UNCHANGED <<config, loss, kept, earned>>
  BY DEF Evict, FileInv, Named, monitors, Judging, Fitting
<1>1. DOMAIN dirs' = DOMAIN dirs /\ FilesOf(config)' = FilesOf(config) \ {evicted}
  BY <1>0 DEF Evict, FilesOf
<1>2. ASSUME NEW c \in Named, c # config, RunLabel(c) \in DOMAIN dirs
      PROVE  FilesOf(c)' = FilesOf(c)
  <2>1. RunLabel(c) # RunLabel(config)
    BY <1>0, <1>2, LabelsApart
  <2> QED BY <1>2, <2>1 DEF Evict, FilesOf
<1>3. ASSUME NEW c \in Named, RunLabel(c) \in DOMAIN dirs', NEW f \in FilesOf(c)'
      PROVE  Genuine(f, c)'
  <2>1. f \in FilesOf(c) /\ RunLabel(c) \in DOMAIN dirs
    BY <1>0, <1>1, <1>2, <1>3 DEF FilesOf
  <2>2. Genuine(f, c)
    BY <2>1 DEF FileInv
  <2> QED BY <2>2, <1>0 DEF Genuine
<1>4. ASSUME NEW c \in Named, earned[c] # Infinity
      PROVE  RunLabel(c) \in DOMAIN dirs' /\ BestThere(c)'
  <2>1. RunLabel(c) \in DOMAIN dirs /\ BestThere(c)
    BY <1>4 DEF FileInv
  <2>2. CASE c = config
    BY <2>1, <2>2, <1>0, <1>1 DEF BestThere
  <2>3. CASE c # config
    BY <2>1, <2>3, <1>0, <1>1, <1>2 DEF BestThere
  <2> QED BY <2>2, <2>3
<1> QED
  BY <1>0, <1>1, <1>3, <1>4 DEF FileInv, Judging, Fitting, Named

\* All other steps leave the files alone.
LEMMA FileOther ==
  ASSUME FileInv, [TrainNext]_trainVars, ~Fit, ~Save, ~Evict
  PROVE  FileInv'
<1>1. dirs' = dirs /\ earned' = earned
  BY DEF TrainNext, Pack, StorePlan, ReusePlan, Unnamed, Adapt, Kill, Step, Validate, Launch,
         trainVars, storage
<1>2. (\A c \in Named : RunLabel(c) \in DOMAIN dirs => \A f \in FilesOf(c) : Genuine(f, c))'
  BY <1>1 DEF FileInv, FilesOf, Genuine
<1>3. ASSUME stage' # "evict" \/ (stage = "evict" /\ UNCHANGED <<config, evicted>>)
      PROVE  (\A c \in Named : earned[c] # Infinity =>
                                 RunLabel(c) \in DOMAIN dirs /\ BestThere(c))'
  BY <1>1, <1>3 DEF FileInv, FilesOf, BestThere
<1>4. CASE UNCHANGED trainVars
  BY <1>1, <1>2, <1>3, <1>4 DEF trainVars, process, monitors, saving, FileInv, Judging, Fitting,
                                FilesOf
<1>5. ASSUME NEW c \in Configs, Launch(c) PROVE FileInv'
  BY <1>1, <1>2, <1>3, <1>5 DEF Launch, FileInv, Judging, Fitting, FilesOf
<1>6. ASSUME NEW x \in Losses, Validate(x) PROVE FileInv'
  BY <1>1, <1>2, <1>3, <1>6 DEF Validate, saving, FileInv, Judging, Fitting, FilesOf
<1>7. CASE Pack
  BY <1>1, <1>2, <1>3, <1>7 DEF Pack, process, monitors, saving, FileInv, Judging, Fitting,
                                FilesOf
<1>8. ASSUME StorePlan \/ ReusePlan \/ Unnamed \/ Adapt \/ Kill \/ \E b \in left : Step(b)
      PROVE  FileInv'
  <2>1. UNCHANGED <<config, loss, kept, evicted>>
    BY <1>8 DEF StorePlan, ReusePlan, Unnamed, Adapt, Kill, Step, monitors, saving
  <2>2. \/ stage = "setup" /\ stage' = "built"
        \/ stage = "epoch" /\ stage' = "epoch"
        \/ stage = "adapt" /\ stage' \in {"epoch", "done"}
        \/ stage # "pack" /\ stage' \in {"raised", "killed"}
    BY <1>8 DEF StorePlan, ReusePlan, Unnamed, Adapt, Kill, Step
  <2> QED BY <1>1, <1>2, <1>3, <2>1, <2>2 DEF FileInv, Judging, Fitting, FilesOf
<1> QED
  BY <1>4, <1>5, <1>6, <1>7, <1>8 DEF TrainNext

LEMMA BestFollows == FileInv => SelectedIsBest
<1> SUFFICES ASSUME FileInv, NEW c \in Configs, HasLabel(c), earned[c] # Infinity
             PROVE  /\ Selected(c) # {}
                    /\ \A f \in Selected(c) : f.config = c /\ f.printed = Printed(earned[c])
                    /\ \A k \in DOMAIN ParseRunLabel(RunLabel(c)) :
                         ParseRunLabel(RunLabel(c))[k] = c[k]
  BY DEF SelectedIsBest
<1>0. c \in Named /\ earned[c] \in Nat
  BY InfinityAbove DEF Named, FileInv
<1>1. \A f \in FilesOf(c) : Genuine(f, c)
  BY <1>0 DEF FileInv
<1>2. PICK w \in FilesOf(c) : w.loss = earned[c]
  BY <1>0 DEF FileInv, BestThere
<1>3. \A a, b \in Nat : a <= b => a \div 2 <= b \div 2 /\ a \div 2 \in Nat
  BY SMT
<1>4. w.printed = Printed(earned[c])
  BY <1>1, <1>2 DEF Genuine
<1>5. ASSUME NEW g \in FilesOf(c)
      PROVE  w.printed <= g.printed /\ g.printed \in Int /\ g.config = c
  BY <1>0, <1>1, <1>3, <1>4, InfinityAbove DEF Genuine, Printed
<1>6. w \in Selected(c)
  BY <1>5 DEF Selected, FilesOf
<1>7. ASSUME NEW f \in Selected(c)
      PROVE  f.config = c /\ f.printed = w.printed
  <2>1. f \in FilesOf(c) /\ f.printed <= w.printed
    BY <1>2, <1>7 DEF Selected, FilesOf
  <2> QED BY <2>1, <1>2, <1>5
<1>8. \A k \in DOMAIN ParseRunLabel(RunLabel(c)) : ParseRunLabel(RunLabel(c))[k] = c[k]
  BY <1>0, LabelParses
<1> QED
  BY <1>4, <1>6, <1>7, <1>8

(* The checkpoint taken for the best of a configuration is one of its own  *)
(* runs' and prints the least loss any of them saw: for all losses, top k, *)
(* interleavings of the runs of one directory, kills and ties.             *)
THEOREM BestIsSelected == TrainSpec => []SelectedIsBest
<1>1. FileInv /\ [TrainNext]_trainVars => FileInv'
  BY FileFit, FileSave, FileEvict, FileOther
<1> QED
  BY <1>1, FileInit, BestFollows, PTL DEF TrainSpec
=============================================================================
