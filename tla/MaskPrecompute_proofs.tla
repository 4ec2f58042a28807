------------------------ MODULE MaskPrecompute_proofs ------------------------
(***************************************************************************)
(* Proofs about MaskPrecompute: what a skipped graph, a completed run and  *)
(* a published mask guarantee, for any number of graphs, algorithms, jobs  *)
(* and readers and any checkpoint cadence.                                 *)
(***************************************************************************)
EXTENDS MaskPrecompute, FiniteSetTheorems, TLAPS

(***************************************************************************)
(* The inductive invariant.  Every graph a live job came across is in one  *)
(* of four places: still a task, gone, in memory, or in a chunk file.      *)
(***************************************************************************)
Accounted(j) ==
  \A g \in scanned[j] \ (tasks[j] \cup missing[j]), a \in algos[j] :
    g \in Stored(a) \cup held[j][a]

Progress(j) ==
  /\ pc[j] \in {"final", "done"} => tasks[j] = {}
  /\ pc[j] = "done" => held[j] = Empty
  /\ \A g \in done[j], a \in algos[j] : g \in Stored(a)

IInv == TypeOK /\ \A j \in Job : Accounted(j) /\ Progress(j)

-----------------------------------------------------------------------------
\* Publishing chunks only ever adds to what an index holds.
Grows == \A a \in Algo : Stored(a) \subseteq Stored(a)'

LEMMA SameChunksGrow == chunks' = chunks => Grows
  BY DEF Grows, Stored

LEMMA FlushGrows ==
  ASSUME TypeOK, NEW j \in Job, NEW b \in Algo, Flush(j, b)
  PROVE  /\ Grows
         /\ \A g \in held[j][b] : g \in Stored(b)'
<1>1. /\ chunks \in [Algo -> SUBSET SUBSET Graph]
      /\ chunks' = [chunks EXCEPT ![b] = @ \cup {held[j][b]}]
  BY DEF TypeOK, Flush
<1>2. chunks'[b] = chunks[b] \cup {held[j][b]}
  BY <1>1
<1>3. \A a \in Algo : chunks[a] \subseteq chunks'[a]
  BY <1>1
<1>4. Grows
  BY <1>3 DEF Grows, Stored
<1>5. \A g \in held[j][b] : g \in Stored(b)'
  BY <1>2 DEF Stored
<1> QED
  BY <1>4, <1>5

\* A job whose own variables are untouched keeps its account.
LEMMA OthersKeep ==
  ASSUME NEW j \in Job, Accounted(j), Progress(j), Grows, TypeOK,
         algos'[j] = algos[j], done'[j] = done[j], scanned'[j] = scanned[j],
         tasks'[j] = tasks[j], missing'[j] = missing[j], held'[j] = held[j],
         pc'[j] = pc[j]
  PROVE  Accounted(j)' /\ Progress(j)'
<1>1. algos[j] \subseteq Algo
  BY DEF TypeOK
<1>2. Accounted(j)'
  BY <1>1 DEF Accounted, Grows
<1>3. Progress(j)'
  BY <1>1 DEF Progress, Grows, Empty
<1> QED
  BY <1>2, <1>3

-----------------------------------------------------------------------------
(***************************************************************************)
(* Type correctness, one action at a time.                                 *)
(***************************************************************************)
LEMMA TypeInit == Init => TypeOK
<1> SUFFICES ASSUME Init PROVE TypeOK
  OBVIOUS
<1>1. 0 \in 0..(CheckpointEvery - 1) /\ 0 \in 0..MaxCrash
  BY ConstantsAssumption
<1>2. [a \in Algo |-> Unloaded] \in [Algo -> [loaded : BOOLEAN, masks : SUBSET Graph]]
  BY DEF Unloaded
<1> QED
  BY <1>1, <1>2 DEF Init, TypeOK, Empty

\* The counter stays below the cadence.
LEMMA CountStep ==
  ASSUME NEW c \in 0..(CheckpointEvery - 1)
  PROVE  (c + 1) % CheckpointEvery = IF c + 1 = CheckpointEvery THEN 0 ELSE c + 1
<1>1. CheckpointEvery \in Nat \ {0} /\ c \in Nat
  BY ConstantsAssumption
<1>2. CASE c + 1 = CheckpointEvery
  BY <1>1, <1>2
<1>3. CASE c + 1 < CheckpointEvery
  BY <1>1, <1>3
<1> QED
  BY <1>1, <1>2, <1>3

LEMMA TypeStart ==
  ASSUME TypeOK, NEW j \in Job, NEW wanted \in AlgoSets, Start(j, wanted)
  PROVE  TypeOK'
<1>1. wanted \subseteq Algo /\ Done(wanted) \subseteq Graph
  BY ConstantsAssumption DEF Done
<1> QED
  BY <1>1 DEF TypeOK, Start

LEMMA TypeScan ==
  ASSUME TypeOK, NEW j \in Job, NEW g \in Graph, ScanMore(j, g)
  PROVE  TypeOK'
  BY DEF TypeOK, ScanMore

LEMMA TypeCollect ==
  ASSUME TypeOK, NEW j \in Job, NEW g \in Graph, Collect(j, g)
  PROVE  TypeOK'
<1>1. (count[j] + 1) % CheckpointEvery \in 0..(CheckpointEvery - 1)
  <2>1. count[j] \in 0..(CheckpointEvery - 1)
    BY DEF TypeOK
  <2> QED
    BY <2>1, CountStep, ConstantsAssumption
<1>2. [a \in Algo |-> IF a \in algos[j] THEN held[j][a] \cup {g} ELSE held[j][a]]
        \in [Algo -> SUBSET Graph]
  BY DEF TypeOK
<1> QED
  BY <1>1, <1>2 DEF TypeOK, Collect

LEMMA TypeNone ==
  ASSUME TypeOK, NEW j \in Job, NEW g \in Graph, CollectNone(j, g)
  PROVE  TypeOK'
  BY DEF TypeOK, CollectNone

LEMMA TypeFlush ==
  ASSUME TypeOK, NEW j \in Job, NEW a \in Algo, Flush(j, a)
  PROVE  TypeOK'
<1>1. held[j][a] \in SUBSET Graph
  BY DEF TypeOK
<1>2. chunks' \in [Algo -> SUBSET SUBSET Graph]
  BY <1>1 DEF TypeOK, Flush
<1>3. held' \in [Job -> [Algo -> SUBSET Graph]]
  BY DEF TypeOK, Flush
<1> QED
  BY <1>2, <1>3 DEF TypeOK, Flush

LEMMA TypeTurn ==
  ASSUME TypeOK, NEW j \in Job, PoolEmpty(j) \/ Flushed(j)
  PROVE  TypeOK'
  BY DEF TypeOK, PoolEmpty, Flushed

LEMMA TypeGone ==
  ASSUME TypeOK, NEW j \in Job, Exit(j) \/ Crash(j)
  PROVE  TypeOK'
<1>1. 0 \in 0..(CheckpointEvery - 1) /\ Empty \in [Algo -> SUBSET Graph]
  BY ConstantsAssumption DEF Empty
<1>2. CASE Exit(j)
  BY <1>1, <1>2 DEF TypeOK, Exit, Gone
<1>3. CASE Crash(j)
  <2>1. crashes' \in 0..MaxCrash
    BY <1>3, ConstantsAssumption DEF TypeOK, Crash
  <2> QED
    BY <1>1, <1>3, <2>1 DEF TypeOK, Crash, Gone
<1> QED
  BY <1>2, <1>3

LEMMA TypeReader ==
  ASSUME TypeOK, NEW r \in Reader,
         Unload(r) \/ \E a \in Algo : Load(r, a)
  PROVE  TypeOK'
<1> DEFINE Entry == [loaded : BOOLEAN, masks : SUBSET Graph]
<1>1. CASE Unload(r)
  <2>1. [a \in Algo |-> Unloaded] \in [Algo -> Entry]
    BY DEF Unloaded
  <2> QED
    BY <1>1, <2>1 DEF TypeOK, Unload, jobvars
<1>2. CASE \E a \in Algo : Load(r, a)
  <2>1. PICK a \in Algo : Load(r, a)
    BY <1>2
  <2>2. Stored(a) \in SUBSET Graph
    BY DEF TypeOK, Stored
  <2>3. Loaded(Stored(a)) \in Entry
    BY <2>2 DEF Loaded
  <2>4. index' \in [Reader -> [Algo -> Entry]]
    BY <2>1, <2>3 DEF TypeOK, Load
  <2> QED
    BY <2>1, <2>4 DEF TypeOK, Load, jobvars
<1> QED
  BY <1>1, <1>2

LEMMA TypeCache ==
  ASSUME TypeOK, NEW g \in Graph, CacheGains(g) \/ CacheLoses(g)
  PROVE  TypeOK'
<1>1. CASE CacheGains(g)
  BY <1>1 DEF TypeOK, CacheGains, jobvars
<1>2. CASE CacheLoses(g)
  <2>1. crashes' \in 0..MaxCrash
    BY <1>2, ConstantsAssumption DEF TypeOK, CacheLoses
  <2> QED
    BY <1>2, <2>1 DEF TypeOK, CacheLoses, jobvars
<1> QED
  BY <1>1, <1>2

LEMMA TypeNext == TypeOK /\ [Next]_vars => TypeOK'
<1> SUFFICES ASSUME TypeOK, [Next]_vars PROVE TypeOK'
  OBVIOUS
<1>1. CASE UNCHANGED vars
  BY <1>1 DEF TypeOK, vars, jobvars
<1>2. CASE Next
  BY <1>2, TypeStart, TypeScan, TypeCollect, TypeNone, TypeFlush, TypeTurn,
     TypeGone, TypeReader, TypeCache DEF Next, Step
<1> QED
  BY <1>1, <1>2

-----------------------------------------------------------------------------
(***************************************************************************)
(* Accounting.  One lemma per action of a job, about the job itself; every *)
(* other job is covered by OthersKeep.                                     *)
(***************************************************************************)
Own(j) == Accounted(j) /\ Progress(j)

LEMMA OwnStart ==
  ASSUME TypeOK, NEW j \in Job, NEW wanted \in AlgoSets, Start(j, wanted)
  PROVE  Own(j)'
<1>1. /\ algos'[j] = wanted /\ done'[j] = Done(wanted) /\ pc'[j] = "pool"
      /\ scanned'[j] = cached /\ tasks'[j] = cached \ Done(wanted)
  BY DEF TypeOK, Start
<1>2. \A a \in Algo : Stored(a)' = Stored(a)
  BY DEF Start, Stored
<1>3. wanted \subseteq Algo
  BY ConstantsAssumption
<1>4. \A g \in Done(wanted), a \in wanted : g \in Stored(a)'
  BY <1>2, <1>3 DEF Done
<1>5. Accounted(j)'
  BY <1>1, <1>4 DEF Accounted
<1>6. Progress(j)'
  BY <1>1, <1>4 DEF Progress
<1> QED
  BY <1>5, <1>6 DEF Own

LEMMA OwnScan ==
  ASSUME TypeOK, NEW j \in Job, Own(j), NEW g \in Graph, ScanMore(j, g)
  PROVE  Own(j)'
<1>1. /\ scanned'[j] = scanned[j] \cup {g}
      /\ tasks'[j] = tasks[j] \cup ({g} \ done[j])
      /\ pc'[j] = "pool" /\ algos' = algos /\ done' = done
      /\ missing' = missing /\ held' = held
  BY DEF TypeOK, ScanMore
<1>2. algos[j] \subseteq Algo
  BY DEF TypeOK
<1>3. \A a \in Algo : Stored(a)' = Stored(a)
  BY DEF ScanMore, Stored
<1>4. Accounted(j)'
  BY <1>1, <1>2, <1>3 DEF Accounted, Progress, Own
<1>5. Progress(j)'
  BY <1>1, <1>2, <1>3 DEF Progress, Own
<1> QED
  BY <1>4, <1>5 DEF Own

LEMMA OwnCollect ==
  ASSUME TypeOK, NEW j \in Job, Own(j), NEW g \in Graph, Collect(j, g)
  PROVE  Own(j)'
<1>1. /\ tasks'[j] = tasks[j] \ {g} /\ pc'[j] \in {"pool", "flush"}
      /\ algos' = algos /\ done' = done /\ missing' = missing
      /\ scanned' = scanned
  BY DEF TypeOK, Collect
<1>2. algos[j] \subseteq Algo
  BY DEF TypeOK
<1>3. \A a \in algos[j] : held'[j][a] = held[j][a] \cup {g}
  BY <1>2 DEF TypeOK, Collect
<1>4. \A a \in Algo : Stored(a)' = Stored(a)
  BY DEF Collect, Stored
<1>5. Accounted(j)'
  BY <1>1, <1>2, <1>3, <1>4 DEF Accounted, Own
<1>6. Progress(j)'
  BY <1>1, <1>2, <1>4 DEF Progress, Own
<1> QED
  BY <1>5, <1>6 DEF Own

LEMMA OwnNone ==
  ASSUME TypeOK, NEW j \in Job, Own(j), NEW g \in Graph, CollectNone(j, g)
  PROVE  Own(j)'
<1>1. /\ tasks'[j] = tasks[j] \ {g} /\ pc'[j] \in {"pool", "flush"}
      /\ missing'[j] = missing[j] \cup {g}
      /\ algos' = algos /\ done' = done /\ held' = held
      /\ scanned' = scanned
  BY DEF TypeOK, CollectNone
<1>2. algos[j] \subseteq Algo
  BY DEF TypeOK
<1>3. \A a \in Algo : Stored(a)' = Stored(a)
  BY DEF CollectNone, Stored
<1>4. Accounted(j)'
  BY <1>1, <1>2, <1>3 DEF Accounted, Own
<1>5. Progress(j)'
  BY <1>1, <1>2, <1>3 DEF Progress, Own
<1> QED
  BY <1>4, <1>5 DEF Own

LEMMA OwnFlush ==
  ASSUME TypeOK, NEW j \in Job, Own(j), NEW b \in Algo, Flush(j, b)
  PROVE  Own(j)'
<1>1. /\ algos' = algos /\ done' = done /\ missing' = missing
      /\ scanned' = scanned /\ tasks' = tasks /\ pc' = pc
      /\ pc[j] \in {"flush", "final"}
  BY DEF Flush
<1>2. \A a \in Algo : a # b => held'[j][a] = held[j][a]
  BY DEF TypeOK, Flush
<1>3. Grows /\ \A g \in held[j][b] : g \in Stored(b)'
  BY FlushGrows
<1>4. \A a \in Algo, g \in Graph :
        g \in Stored(a) \cup held[j][a] => g \in Stored(a)' \cup held'[j][a]
  BY <1>2, <1>3 DEF Grows
<1>5. algos[j] \subseteq Algo /\ scanned[j] \subseteq Graph
  BY DEF TypeOK
<1>6. Accounted(j)'
  BY <1>1, <1>4, <1>5 DEF Accounted, Own
<1>7. Progress(j)'
  BY <1>1, <1>3, <1>5 DEF Progress, Own, Grows
<1> QED
  BY <1>6, <1>7 DEF Own

LEMMA OwnTurn ==
  ASSUME TypeOK, NEW j \in Job, Own(j), PoolEmpty(j) \/ Flushed(j)
  PROVE  Own(j)'
<1>1. /\ algos' = algos /\ done' = done /\ missing' = missing
      /\ scanned' = scanned /\ tasks' = tasks /\ held' = held
  BY DEF PoolEmpty, Flushed
<1>2. algos[j] \subseteq Algo
  BY DEF TypeOK
<1>3. \A a \in Algo : Stored(a)' = Stored(a)
  BY DEF PoolEmpty, Flushed, Stored
<1>4. Accounted(j)'
  BY <1>1, <1>2, <1>3 DEF Accounted, Own
<1>5. pc'[j] \in {"final", "done"} => tasks[j] = {}
  BY DEF TypeOK, PoolEmpty, Flushed, Own, Progress
<1>6. pc'[j] = "done" => held[j] = Empty
  BY DEF TypeOK, PoolEmpty, Flushed
<1>7. Progress(j)'
  BY <1>1, <1>2, <1>3, <1>5, <1>6 DEF Progress, Own, Empty
<1> QED
  BY <1>4, <1>7 DEF Own

LEMMA OwnGone ==
  ASSUME TypeOK, NEW j \in Job, Gone(j)
  PROVE  Own(j)'
<1>1. /\ algos'[j] = {} /\ scanned'[j] = {} /\ pc'[j] = "idle"
      /\ done'[j] = {}
  BY DEF TypeOK, Gone
<1> QED
  BY <1>1 DEF Own, Accounted, Progress

-----------------------------------------------------------------------------
\* What a step of job j leaves alone, for every other job k.
Untouched(k) ==
  /\ algos'[k] = algos[k] /\ done'[k] = done[k] /\ scanned'[k] = scanned[k]
  /\ tasks'[k] = tasks[k] /\ missing'[k] = missing[k] /\ held'[k] = held[k]
  /\ pc'[k] = pc[k] /\ count'[k] = count[k]

JobAction(j) == (\E wanted \in AlgoSets : Start(j, wanted)) \/ Step(j)
                \/ Exit(j) \/ Crash(j)

LEMMA JobActionOthers ==
  ASSUME TypeOK, NEW j \in Job, JobAction(j), NEW k \in Job, k # j
  PROVE  Untouched(k)
<1>1. CASE \E wanted \in AlgoSets : Start(j, wanted)
  BY <1>1 DEF TypeOK, Start, Untouched
<1>2. CASE \E g \in Graph : ScanMore(j, g) \/ Collect(j, g) \/ CollectNone(j, g)
  BY <1>2 DEF TypeOK, ScanMore, Collect, CollectNone, Untouched
<1>3. CASE \E a \in Algo : Flush(j, a)
  BY <1>3 DEF TypeOK, Flush, Untouched
<1>4. CASE PoolEmpty(j) \/ Flushed(j)
  BY <1>4 DEF TypeOK, PoolEmpty, Flushed, Untouched
<1>5. CASE Exit(j) \/ Crash(j)
  BY <1>5 DEF TypeOK, Exit, Crash, Gone, Untouched
<1> QED
  BY <1>1, <1>2, <1>3, <1>4, <1>5 DEF JobAction, Step

LEMMA JobActionGrows ==
  ASSUME TypeOK, NEW j \in Job, JobAction(j)
  PROVE  Grows
<1>1. CASE \E a \in Algo : Flush(j, a)
  BY <1>1, FlushGrows
<1>2. CASE chunks' = chunks
  BY <1>2, SameChunksGrow
<1> QED
  BY <1>1, <1>2 DEF JobAction, Step, Start, ScanMore, Collect, CollectNone,
     PoolEmpty, Flushed, Exit, Crash

LEMMA JobActionOwn ==
  ASSUME TypeOK, NEW j \in Job, Own(j), JobAction(j)
  PROVE  Own(j)'
<1>1. CASE Exit(j) \/ Crash(j)
  BY <1>1, OwnGone DEF Exit, Crash
<1> QED
  BY <1>1, OwnStart, OwnScan, OwnCollect, OwnNone, OwnFlush, OwnTurn
     DEF JobAction, Step

LEMMA IInvInit == Init => IInv
<1> SUFFICES ASSUME Init PROVE IInv
  OBVIOUS
<1>1. \A j \in Job : Accounted(j) /\ Progress(j)
  BY DEF Init, Accounted, Progress
<1> QED
  BY <1>1, TypeInit DEF IInv

LEMMA IInvNext == IInv /\ [Next]_vars => IInv'
<1> SUFFICES ASSUME IInv, [Next]_vars PROVE IInv'
  OBVIOUS
<1>1. TypeOK /\ TypeOK' /\ \A j \in Job : Own(j)
  BY TypeNext DEF IInv, Own
<1>2. CASE \E j \in Job : JobAction(j)
  <2>1. PICK j \in Job : JobAction(j)
    BY <1>2
  <2>2. ASSUME NEW k \in Job, k # j PROVE Own(k)'
    BY <1>1, <2>1, <2>2, JobActionOthers, JobActionGrows, OthersKeep
       DEF Own, Untouched
  <2>3. Own(j)'
    BY <1>1, <2>1, JobActionOwn
  <2> QED
    BY <1>1, <2>2, <2>3 DEF IInv, Own
<1>3. CASE chunks' = chunks /\ UNCHANGED jobvars
  <2>1. ASSUME NEW k \in Job PROVE Own(k)'
    BY <1>1, <1>3, SameChunksGrow, OthersKeep DEF Own, jobvars
  <2> QED
    BY <1>1, <2>1 DEF IInv, Own
<1> QED
  BY <1>2, <1>3 DEF Next, JobAction, vars, Load, Unload, CacheGains, CacheLoses

(***************************************************************************)
(* IInv holds in every reachable state.                                    *)
(***************************************************************************)
THEOREM Inductive == Spec => []IInv
<1>1. Init => IInv
  BY IInvInit
<1>2. IInv /\ [Next]_vars => IInv'
  BY IInvNext
<1> QED
  BY <1>1, <1>2, PTL DEF Spec

(***************************************************************************)
(* Every variable keeps its type, for every choice of the constants.       *)
(***************************************************************************)
THEOREM TypeCorrect == Spec => []TypeOK
<1>1. IInv => TypeOK
  BY DEF IInv
<1> QED
  BY <1>1, Inductive, PTL

(***************************************************************************)
(* A graph that a job skips has, or is about to have, every mask the job   *)
(* was asked for: done_by_dir, the intersection over the algorithms, never *)
(* skips a graph that a kill left half done.                               *)
(***************************************************************************)
THEOREM SkipsAreJustified == Spec => []SkipJustified
<1>1. IInv => SkipJustified
  BY DEF IInv, Accounted, SkipJustified
<1> QED
  BY <1>1, Inductive, PTL

(***************************************************************************)
(* A completed job has published every mask it was asked for, for every    *)
(* graph of its scan that existed.                                         *)
(***************************************************************************)
THEOREM RunsAreComplete == Spec => []CompleteRun
<1>1. ASSUME IInv PROVE CompleteRun
  <2>1. SUFFICES ASSUME NEW j \in Job, pc[j] = "done",
                        NEW g \in scanned[j] \ missing[j], NEW a \in algos[j]
                 PROVE  g \in Stored(a)
    BY DEF CompleteRun
  <2>2. tasks[j] = {} /\ held[j] = Empty
    BY <1>1, <2>1 DEF IInv, Progress
  <2>3. a \in Algo /\ held[j][a] = {}
    BY <1>1, <2>1, <2>2 DEF IInv, TypeOK, Empty
  <2> QED
    BY <1>1, <2>1, <2>2, <2>3 DEF IInv, Accounted
<1> QED
  BY <1>1, Inductive, PTL

(***************************************************************************)
(* No step takes a published mask away.                                    *)
(***************************************************************************)
THEOREM MasksStay == Spec => MasksNeverLost
<1>1. ASSUME IInv, [Next]_vars PROVE [\A a \in Algo : Stored(a) \subseteq Stored(a)']_vars
  <2>1. CASE \E j \in Job : JobAction(j)
    BY <1>1, <2>1, JobActionGrows DEF IInv, Grows
  <2>2. CASE chunks' = chunks
    BY <2>2, SameChunksGrow DEF Grows
  <2> QED
    BY <1>1, <2>1, <2>2 DEF Next, JobAction, vars, Load, Unload, CacheGains,
       CacheLoses
<1> QED
  BY <1>1, Inductive, PTL DEF Spec, MasksNeverLost

(***************************************************************************)
(* A process that loads its index after a completed run sees every mask    *)
(* that run promised.                                                      *)
(***************************************************************************)
THEOREM LoadsSeeCompletedRuns == Spec => LoadAfterRunSeesAll
<1> DEFINE Sees == \A r \in Reader, a \in Algo, j \in Job :
              /\ ~index[r][a].loaded /\ index'[r][a].loaded
              /\ pc[j] = "done" /\ a \in algos[j]
              => scanned[j] \ missing[j] \subseteq index'[r][a].masks
<1>1. TypeOK /\ CompleteRun /\ [Next]_vars => [Sees]_vars
  <2> SUFFICES ASSUME TypeOK, CompleteRun, [Next]_vars,
                      NEW r \in Reader, NEW a \in Algo, NEW j \in Job,
                      ~index[r][a].loaded, index'[r][a].loaded,
                      pc[j] = "done", a \in algos[j]
               PROVE  scanned[j] \ missing[j] \subseteq index'[r][a].masks
    OBVIOUS
  <2>1. PICK q \in Reader : Unload(q) \/ \E b \in Algo : Load(q, b)
    BY DEF Next, vars, Step, Start, ScanMore, Collect, CollectNone, PoolEmpty, Flush,
       Flushed, Exit, Crash, CacheGains, CacheLoses
  <2>2. ~Unload(q)
    <3> SUFFICES ASSUME Unload(q) PROVE FALSE
      OBVIOUS
    <3>1. CASE q = r
      <4>1. index'[r] = [b \in Algo |-> Unloaded] /\ a \in Algo
        BY <3>1 DEF TypeOK, Unload
      <4>2. index'[r][a] = Unloaded
        BY <4>1
      <4> QED
        BY <4>2 DEF Unloaded
    <3>2. CASE q # r
      BY <3>2 DEF TypeOK, Unload
    <3> QED
      BY <3>1, <3>2
  <2>3. PICK b \in Algo : Load(q, b)
    BY <2>1, <2>2
  <2>4. q = r /\ b = a
    BY <2>3 DEF TypeOK, Load
  <2>5. index'[r][a].masks = Stored(a)
    BY <2>3, <2>4 DEF TypeOK, Load, Loaded
  <2> QED
    BY <2>5 DEF CompleteRun
<1> QED
  BY <1>1, TypeCorrect, RunsAreComplete, PTL DEF Spec, LoadAfterRunSeesAll

-----------------------------------------------------------------------------
(***************************************************************************)
(* The loss bound.  What a job holds is counted: at most count[j] graphs   *)
(* in the pool, at most CHECKPOINT_EVERY while a flush is running.         *)
(***************************************************************************)
Held(j) == UNION {held[j][a] : a \in Algo}

Cap(j) == IF pc[j] = "flush" THEN CheckpointEvery ELSE count[j]

Counted(j) == IsFiniteSet(Held(j)) /\ Cardinality(Held(j)) <= Cap(j)

LInv == TypeOK /\ \A j \in Job : Counted(j)

LEMMA HeldSmaller ==
  ASSUME NEW S, NEW T, T \subseteq S, IsFiniteSet(S), NEW n \in Nat, NEW m \in Nat,
         Cardinality(S) <= n, n <= m
  PROVE  IsFiniteSet(T) /\ Cardinality(T) <= m
<1>1. IsFiniteSet(T) /\ Cardinality(T) <= Cardinality(S)
  BY FS_Subset
<1>2. Cardinality(S) \in Nat /\ Cardinality(T) \in Nat
  BY <1>1, FS_CardinalityType
<1> QED
  BY <1>1, <1>2

LEMMA HeldOneMore ==
  ASSUME NEW S, NEW g, NEW T, T \subseteq S \cup {g}, IsFiniteSet(S),
         NEW n \in Nat, Cardinality(S) <= n
  PROVE  IsFiniteSet(T) /\ Cardinality(T) <= n + 1
<1>1. /\ IsFiniteSet(S \cup {g})
      /\ Cardinality(S \cup {g}) =
           IF g \in S THEN Cardinality(S) ELSE Cardinality(S) + 1
  BY FS_AddElement
<1>2. Cardinality(S) \in Nat
  BY FS_CardinalityType
<1>3. Cardinality(S \cup {g}) <= n + 1
  BY <1>1, <1>2
<1> QED
  BY <1>1, <1>3, HeldSmaller

LEMMA NothingHeld ==
  ASSUME NEW j \in Job, TypeOK, held[j] = Empty
  PROVE  Counted(j)
<1>1. Held(j) = {}
  BY DEF Held, Empty
<1>2. IsFiniteSet({}) /\ Cardinality({}) = 0
  BY FS_EmptySet
<1>3. Cap(j) \in Nat
  BY ConstantsAssumption DEF Cap, TypeOK
<1> QED
  BY <1>1, <1>2, <1>3 DEF Counted

LEMMA CollectCounts ==
  ASSUME TypeOK, TypeOK', NEW j \in Job, Counted(j), NEW g \in Graph, Collect(j, g)
  PROVE  Counted(j)'
<1> DEFINE n == count[j]
<1>1. n \in 0..(CheckpointEvery - 1) /\ n \in Nat /\ CheckpointEvery \in Nat
  BY ConstantsAssumption DEF TypeOK
<1>2. /\ pc[j] = "pool" /\ count'[j] = (n + 1) % CheckpointEvery
      /\ pc'[j] = IF CheckpointDue(n + 1) THEN "flush" ELSE "pool"
  BY DEF TypeOK, Collect
<1>3. Held(j)' \subseteq Held(j) \cup {g}
  BY DEF TypeOK, Collect, Held
<1>4. Cap(j) = n
  BY <1>2 DEF Cap
<1>5. IsFiniteSet(Held(j)') /\ Cardinality(Held(j)') <= n + 1
  BY <1>1, <1>3, <1>4, HeldOneMore DEF Counted
<1>6. (n + 1) % CheckpointEvery = IF n + 1 = CheckpointEvery THEN 0 ELSE n + 1
  BY <1>1, CountStep
<1>7. Cap(j)' = n + 1
  BY <1>1, <1>2, <1>6, ConstantsAssumption DEF Cap, CheckpointDue
<1> QED
  BY <1>5, <1>7 DEF Counted

\* Any other step of the job: it holds no more, and its cap is no lower
\* unless it holds nothing.
LEMMA OtherCounts ==
  ASSUME TypeOK, TypeOK', NEW j \in Job, Counted(j),
         \/ held'[j] = Empty
         \/ Held(j)' \subseteq Held(j) /\ Cap(j) <= Cap(j)'
  PROVE  Counted(j)'
<1>1. CASE held'[j] = Empty
  <2>1. Held(j)' = {}
    BY <1>1 DEF Held, Empty
  <2>2. IsFiniteSet({}) /\ Cardinality({}) = 0
    BY FS_EmptySet
  <2>3. Cap(j)' \in Nat
    BY ConstantsAssumption DEF Cap, TypeOK
  <2> QED
    BY <2>1, <2>2, <2>3 DEF Counted
<1>2. CASE Held(j)' \subseteq Held(j) /\ Cap(j) <= Cap(j)'
  <2>1. Cap(j) \in Nat /\ Cap(j)' \in Nat
    BY ConstantsAssumption DEF Cap, TypeOK
  <2> QED
    BY <1>2, <2>1, HeldSmaller DEF Counted
<1> QED
  BY <1>1, <1>2

LEMMA JobActionCounts ==
  ASSUME TypeOK, TypeOK', NEW j \in Job, Counted(j), JobAction(j)
  PROVE  Counted(j)'
<1>0. count[j] \in 0..(CheckpointEvery - 1) /\ CheckpointEvery \in Nat
  BY ConstantsAssumption DEF TypeOK
<1>1. CASE \E g \in Graph : Collect(j, g)
  BY <1>1, CollectCounts
<1>2. CASE \E wanted \in AlgoSets : Start(j, wanted)
  <2>1. held' = held /\ count' = count /\ pc[j] = "idle" /\ pc'[j] = "pool"
    BY <1>2 DEF TypeOK, Start
  <2> QED
    BY <1>0, <2>1, OtherCounts DEF Held, Cap
<1>3. CASE \E g \in Graph : ScanMore(j, g) \/ CollectNone(j, g)
  <2>1. /\ held' = held /\ count' = count /\ pc[j] = "pool"
        /\ pc'[j] \in {"pool", "flush"}
    BY <1>3 DEF TypeOK, ScanMore, CollectNone
  <2> QED
    BY <1>0, <2>1, OtherCounts DEF Held, Cap
<1>4. CASE \E a \in Algo : Flush(j, a)
  <2>1. \A b \in Algo : held'[j][b] \subseteq held[j][b]
    BY <1>4 DEF TypeOK, Flush
  <2>2. count' = count /\ pc' = pc
    BY <1>4 DEF Flush
  <2>3. Held(j)' \subseteq Held(j)
    BY <2>1 DEF Held
  <2> QED
    BY <1>0, <2>2, <2>3, OtherCounts DEF Cap
<1>5. CASE PoolEmpty(j)
  <2>1. held' = held /\ count' = count /\ pc[j] = "pool" /\ pc'[j] = "final"
    BY <1>5 DEF TypeOK, PoolEmpty
  <2> QED
    BY <1>0, <2>1, OtherCounts DEF Held, Cap
<1>6. CASE Flushed(j)
  BY <1>6, OtherCounts DEF Flushed
<1>7. CASE Exit(j) \/ Crash(j)
  <2>1. held'[j] = Empty
    BY <1>7 DEF TypeOK, Exit, Crash, Gone
  <2> QED
    BY <2>1, OtherCounts
<1> QED
  BY <1>1, <1>2, <1>3, <1>4, <1>5, <1>6, <1>7 DEF JobAction, Step

LEMMA LInvNext == LInv /\ [Next]_vars => LInv'
<1> SUFFICES ASSUME LInv, [Next]_vars PROVE LInv'
  OBVIOUS
<1>1. TypeOK /\ TypeOK' /\ \A j \in Job : Counted(j)
  BY TypeNext DEF LInv
<1>2. CASE \E j \in Job : JobAction(j)
  <2>1. PICK j \in Job : JobAction(j)
    BY <1>2
  <2>2. ASSUME NEW k \in Job, k # j PROVE Counted(k)'
    <3>1. held'[k] = held[k] /\ count'[k] = count[k] /\ pc'[k] = pc[k]
      BY <1>1, <2>1, <2>2, JobActionOthers DEF Untouched
    <3> QED
      BY <1>1, <3>1 DEF Counted, Held, Cap
  <2> QED
    BY <1>1, <2>1, <2>2, JobActionCounts DEF LInv
<1>3. CASE UNCHANGED jobvars
  BY <1>1, <1>3 DEF LInv, Counted, Held, Cap, jobvars
<1> QED
  BY <1>2, <1>3 DEF Next, JobAction, vars, Load, Unload, CacheGains, CacheLoses

(***************************************************************************)
(* A kill costs at most CHECKPOINT_EVERY graphs, whatever the cadence.     *)
(***************************************************************************)
THEOREM LossIsBounded == Spec => []LossBounded
<1>1. Init => LInv
  BY TypeInit, NothingHeld DEF Init, LInv
<1>2. LInv /\ [Next]_vars => LInv'
  BY LInvNext
<1>3. ASSUME LInv PROVE LossBounded
  <2> SUFFICES ASSUME NEW j \in Job PROVE Cardinality(Held(j)) <= CheckpointEvery
    BY DEF LossBounded, Held
  <2>1. Cardinality(Held(j)) <= Cap(j) /\ Cardinality(Held(j)) \in Nat
    BY <1>3, FS_CardinalityType DEF LInv, Counted
  <2>2. Cap(j) \in Nat /\ Cap(j) <= CheckpointEvery /\ CheckpointEvery \in Nat
    BY <1>3, ConstantsAssumption DEF LInv, TypeOK, Cap
  <2> QED
    BY <2>1, <2>2
<1> QED
  BY <1>1, <1>2, <1>3, PTL DEF Spec

-----------------------------------------------------------------------------
(***************************************************************************)
(* The refinement.  What a job holds in memory it owes: the graphs it took *)
(* up are apart from its tasks and from the graphs it found gone.          *)
(***************************************************************************)
Holds(j) ==
  /\ tasks[j] \cup missing[j] \subseteq scanned[j]
  /\ tasks[j] \cap missing[j] = {}
  /\ \A a \in Algo : held[j][a] \subseteq scanned[j] \ (tasks[j] \cup missing[j])
  /\ \A a \in Algo \ algos[j] : held[j][a] = {}
  /\ pc[j] = "idle" => algos[j] = {} /\ scanned[j] = {} /\ missing[j] = {} /\ held[j] = Empty

HInv == IInv /\ \A j \in Job : Holds(j)

LEMMA HoldsStart ==
  ASSUME TypeOK, NEW j \in Job, Holds(j), NEW wanted \in AlgoSets, Start(j, wanted)
  PROVE  Holds(j)'
<1>1. /\ algos'[j] = wanted /\ pc'[j] = "pool" /\ scanned'[j] = cached
      /\ tasks'[j] = cached \ Done(wanted) /\ missing' = missing /\ held' = held
      /\ missing[j] = {} /\ held[j] = Empty
  BY DEF TypeOK, Start, Holds
<1> QED
  BY <1>1 DEF Holds, Empty

LEMMA HoldsWork ==
  ASSUME TypeOK, NEW j \in Job, Holds(j), NEW g \in Graph,
         ScanMore(j, g) \/ Collect(j, g) \/ CollectNone(j, g)
  PROVE  Holds(j)'
<1>1. CASE ScanMore(j, g)
  <2>1. /\ scanned'[j] = scanned[j] \cup {g} /\ g \notin scanned[j]
        /\ tasks'[j] = tasks[j] \cup ({g} \ done[j]) /\ pc' = pc /\ pc[j] = "pool"
        /\ algos' = algos /\ missing' = missing /\ held' = held
    BY <1>1 DEF TypeOK, ScanMore
  <2> QED
    BY <2>1 DEF Holds
<1>2. CASE Collect(j, g)
  <2>1. /\ tasks'[j] = tasks[j] \ {g} /\ g \in tasks[j] /\ pc'[j] # "idle"
        /\ algos' = algos /\ missing' = missing /\ scanned' = scanned
        /\ \A a \in Algo : held'[j][a] =
             IF a \in algos[j] THEN held[j][a] \cup {g} ELSE held[j][a]
    BY <1>2 DEF TypeOK, Collect
  <2> QED
    BY <2>1 DEF Holds
<1>3. CASE CollectNone(j, g)
  <2>1. /\ tasks'[j] = tasks[j] \ {g} /\ g \in tasks[j] /\ pc'[j] # "idle"
        /\ missing'[j] = missing[j] \cup {g}
        /\ algos' = algos /\ scanned' = scanned /\ held' = held
    BY <1>3 DEF TypeOK, CollectNone
  <2> QED
    BY <2>1 DEF Holds
<1> QED
  BY <1>1, <1>2, <1>3

LEMMA HoldsTurn ==
  ASSUME TypeOK, NEW j \in Job, Holds(j),
         (\E a \in Algo : Flush(j, a)) \/ PoolEmpty(j) \/ Flushed(j)
  PROVE  Holds(j)'
<1>1. /\ algos' = algos /\ missing' = missing /\ scanned' = scanned /\ tasks' = tasks
      /\ pc'[j] # "idle"
  BY DEF TypeOK, Flush, PoolEmpty, Flushed
<1>2. \A a \in Algo : held'[j][a] \subseteq held[j][a]
  BY DEF TypeOK, Flush, PoolEmpty, Flushed
<1> QED
  BY <1>1, <1>2 DEF Holds

LEMMA HoldsGone ==
  ASSUME TypeOK, NEW j \in Job, Gone(j)
  PROVE  Holds(j)'
<1>1. /\ algos'[j] = {} /\ scanned'[j] = {} /\ tasks'[j] = {} /\ missing'[j] = {}
      /\ held'[j] = Empty
  BY DEF TypeOK, Gone
<1> QED
  BY <1>1 DEF Holds, Empty

LEMMA HInvNext == HInv /\ [Next]_vars => HInv'
<1> SUFFICES ASSUME HInv, [Next]_vars PROVE HInv'
  OBVIOUS
<1>1. IInv' /\ TypeOK /\ \A j \in Job : Holds(j)
  BY IInvNext DEF HInv, IInv
<1>2. CASE \E j \in Job : JobAction(j)
  <2>1. PICK j \in Job : JobAction(j)
    BY <1>2
  <2>2. ASSUME NEW k \in Job, k # j PROVE Holds(k)'
    <3>1. Untouched(k)
      BY <1>1, <2>1, <2>2, JobActionOthers
    <3> QED
      BY <1>1, <3>1 DEF Holds, Untouched, Empty
  <2>3. Holds(j)'
    BY <1>1, <2>1, HoldsStart, HoldsWork, HoldsTurn, HoldsGone
       DEF JobAction, Step, Exit, Crash
  <2> QED
    BY <1>1, <2>2, <2>3 DEF HInv
<1>3. CASE UNCHANGED jobvars
  BY <1>1, <1>3 DEF HInv, Holds, jobvars, Empty
<1> QED
  BY <1>2, <1>3 DEF Next, JobAction, vars, Load, Unload, CacheGains, CacheLoses

\* What the client sees of the other jobs does not change.
LEMMA PhaseOwedStep ==
  ASSUME TypeOK, NEW j \in Job, \A k \in Job \ {j} : Untouched(k),
         NEW p, NEW o,
         p = Phase'[j], o = Owed'[j]
  PROVE  Phase' = [Phase EXCEPT ![j] = p] /\ Owed' = [Owed EXCEPT ![j] = o]
  BY DEF Phase, Owed, Untouched

LEMMA SamePublished ==
  ASSUME chunks' = chunks
  PROVE  Published' = Published
  BY DEF Published, Stored

LEMMA WorkServes ==
  ASSUME HInv, NEW j \in Job, JobAction(j)
  PROVE  Service!Next \/ UNCHANGED Service!served
<1>1. TypeOK /\ Holds(j) /\ Own(j)
  BY DEF HInv, IInv, Own
<1>2. \A k \in Job \ {j} : Untouched(k)
  BY <1>1, JobActionOthers
<1>3. \A p, o : p = Phase'[j] /\ o = Owed'[j] =>
        Phase' = [Phase EXCEPT ![j] = p] /\ Owed' = [Owed EXCEPT ![j] = o]
  BY <1>1, <1>2, PhaseOwedStep
<1>4. /\ Phase[j] = IF pc[j] = "idle" THEN "off" ELSE IF pc[j] = "done" THEN "success" ELSE "on"
      /\ Phase'[j] = IF pc'[j] = "idle" THEN "off" ELSE IF pc'[j] = "done" THEN "success" ELSE "on"
      /\ Owed[j] = algos[j] \X (scanned[j] \ missing[j])
      /\ Owed'[j] = algos'[j] \X (scanned'[j] \ missing'[j])
  BY DEF Phase, Owed
<1>5. /\ Phase = [Phase EXCEPT ![j] = Phase[j]] /\ Owed = [Owed EXCEPT ![j] = Owed[j]]
  BY DEF Phase, Owed
<1>6. CASE \E wanted \in AlgoSets : Start(j, wanted)
  <2>1. PICK wanted \in AlgoSets : Start(j, wanted)
    BY <1>6
  <2>2. /\ pc[j] = "idle" /\ pc'[j] = "pool" /\ chunks' = chunks
        /\ algos'[j] = wanted /\ scanned'[j] = cached /\ missing'[j] = missing[j]
    BY <1>1, <2>1 DEF TypeOK, Start
  <2>3. Owed'[j] \in SUBSET (Algo \X Graph)
    BY <1>1, <1>4, <2>2, ConstantsAssumption DEF TypeOK
  <2>4. Phase' = [Phase EXCEPT ![j] = "on"] /\ Phase[j] = "off"
    BY <1>3, <1>4, <2>2
  <2>5. Owed' = [Owed EXCEPT ![j] = Owed'[j]]
    BY <1>3
  <2> QED
    BY <2>2, <2>3, <2>4, <2>5, SamePublished DEF Service!Next, Service!Submit
<1>7. CASE \E g \in Graph : ScanMore(j, g)
  <2>1. PICK g \in Graph : ScanMore(j, g)
    BY <1>7
  <2>2. /\ pc[j] = "pool" /\ pc'[j] = "pool" /\ chunks' = chunks /\ algos' = algos
        /\ scanned'[j] = scanned[j] \cup {g} /\ missing' = missing /\ g \notin scanned[j]
    BY <1>1, <2>1 DEF TypeOK, ScanMore
  <2>3. g \notin missing[j]
    BY <1>1, <2>2 DEF Holds
  <2>4. Owed'[j] = Owed[j] \cup (algos[j] \X {g})
    BY <1>4, <2>2, <2>3
  <2>5. algos[j] \in SUBSET Algo
    BY <1>1 DEF TypeOK
  <2>6. Phase' = Phase /\ Phase[j] = "on"
    BY <1>3, <1>4, <1>5, <2>2
  <2>7. Owed' = [Owed EXCEPT ![j] = @ \cup (algos[j] \X {g})]
    BY <1>3, <2>4
  <2>8. Service!Rescan(j)
    BY <2>2, <2>5, <2>6, <2>7, SamePublished DEF Service!Rescan
  <2> QED
    BY <2>8 DEF Service!Next
<1>8. CASE \E g \in Graph : CollectNone(j, g)
  <2>1. PICK g \in Graph : CollectNone(j, g)
    BY <1>8
  <2>2. /\ pc[j] = "pool" /\ pc'[j] \in {"pool", "flush"} /\ chunks' = chunks
        /\ algos' = algos /\ scanned' = scanned /\ missing'[j] = missing[j] \cup {g}
    BY <1>1, <2>1 DEF TypeOK, CollectNone
  <2>3. Owed'[j] = Owed[j] \ (algos[j] \X {g})
    BY <1>4, <2>2
  <2>4. algos[j] \in SUBSET Algo
    BY <1>1 DEF TypeOK
  <2>5. Phase' = Phase /\ Phase[j] = "on"
    BY <1>3, <1>4, <1>5, <2>2
  <2>6. Owed' = [Owed EXCEPT ![j] = @ \ (algos[j] \X {g})]
    BY <1>3, <2>3
  <2>7. Service!Rescan(j)
    BY <2>2, <2>4, <2>5, <2>6, SamePublished DEF Service!Rescan
  <2> QED
    BY <2>7 DEF Service!Next
<1>9. CASE \E b \in Algo : Flush(j, b)
  <2>1. PICK b \in Algo : Flush(j, b)
    BY <1>9
  <2>2. /\ pc' = pc /\ pc[j] \in {"flush", "final"} /\ held[j][b] # {}
        /\ algos' = algos /\ scanned' = scanned /\ missing' = missing
        /\ chunks[b] \cup {held[j][b]} = chunks'[b]
        /\ \A a \in Algo \ {b} : chunks'[a] = chunks[a]
    BY <1>1, <2>1 DEF TypeOK, Flush
  <2>3. b \in algos[j] /\ held[j][b] \subseteq scanned[j] \ missing[j]
    BY <1>1, <2>2 DEF Holds
  <2>4. \A a \in Algo : Stored(a) \subseteq Stored(a)'
    BY <1>1, <2>1, FlushGrows DEF Grows
  <2>5. \A a \in Algo, g \in Graph :
          g \in Stored(a)' => g \in Stored(a) \/ (a = b /\ g \in held[j][b])
    BY <2>2 DEF Stored
  <2>6. Published \subseteq Published'
    BY <2>4 DEF Published
  <2>7. Published' \subseteq Published \cup Owed[j]
    BY <1>4, <2>3, <2>5 DEF Published
  <2>8. Phase' = Phase /\ Phase[j] = "on" /\ Owed' = Owed
    BY <1>4, <2>2 DEF Phase, Owed
  <2>9. Service!Publish(j)
    BY <2>6, <2>7, <2>8 DEF Service!Publish
  <2> QED
    BY <2>9 DEF Service!Next
<1>10. CASE Flushed(j) /\ pc[j] = "final"
  <2>1. /\ pc'[j] = "done" /\ held[j] = Empty /\ chunks' = chunks
        /\ algos' = algos /\ scanned' = scanned /\ missing' = missing
    BY <1>1, <1>10 DEF TypeOK, Flushed
  <2>2. \A g \in scanned[j] \ missing[j], a \in algos[j] : g \in Stored(a)
    BY <1>1, <1>10, <2>1 DEF Own, Accounted, Progress, Empty, TypeOK
  <2>3. Owed[j] \subseteq Published
    BY <1>1, <1>4, <2>2 DEF Published, TypeOK
  <2>4. Phase' = [Phase EXCEPT ![j] = "success"] /\ Phase[j] = "on"
    BY <1>3, <1>4, <1>10, <2>1
  <2>5. Owed' = Owed
    BY <2>1 DEF Owed
  <2> QED
    BY <2>1, <2>3, <2>4, <2>5, SamePublished DEF Service!Next, Service!Succeed
<1>11. CASE Exit(j) \/ Crash(j)
  <2>1. pc'[j] = "idle" /\ algos'[j] = {} /\ chunks' = chunks
    BY <1>1, <1>11 DEF TypeOK, Exit, Crash, Gone
  <2>2. Phase' = [Phase EXCEPT ![j] = "off"] /\ Owed' = [Owed EXCEPT ![j] = {}]
    BY <1>3, <1>4, <2>1
  <2> QED
    BY <2>1, <2>2, SamePublished DEF Service!Next, Service!Leave
<1>12. CASE (\E g \in Graph : Collect(j, g)) \/ PoolEmpty(j) \/ (Flushed(j) /\ pc[j] # "final")
  <2>1. /\ pc[j] \in {"pool", "flush"} /\ pc'[j] \in {"pool", "flush", "final"}
        /\ chunks' = chunks /\ algos' = algos /\ scanned' = scanned /\ missing' = missing
    BY <1>1, <1>12 DEF TypeOK, Collect, PoolEmpty, Flushed
  <2>2. Phase' = Phase /\ Owed' = Owed
    BY <1>3, <1>4, <1>5, <2>1
  <2> QED
    BY <2>1, <2>2, SamePublished DEF Service!served
<1> QED
  BY <1>6, <1>7, <1>8, <1>9, <1>10, <1>11, <1>12 DEF JobAction, Step

(***************************************************************************)
(* MaskPrecompute implements MaskService: pools, checkpoints, chunk files, *)
(* kills and resubmissions publish only what is owed, withdraw nothing,    *)
(* and report success only over masks that are all on disk.                *)
(***************************************************************************)
THEOREM Implements == Spec => ServiceKept
<1>1. Init => HInv
  BY IInvInit DEF Init, HInv, Holds, Empty
<1>2. HInv /\ [Next]_vars => HInv'
  BY HInvNext
<1>3. Init => Service!Init
  <2> SUFFICES ASSUME Init PROVE Service!Init
    OBVIOUS
  <2>1. Published = {}
    BY DEF Init, Published, Stored
  <2>2. Phase = [j \in Job |-> "off"]
    BY DEF Init, Phase
  <2>3. Owed = [j \in Job |-> {}]
    BY DEF Init, Owed
  <2> QED
    BY <2>1, <2>2, <2>3 DEF Service!Init
<1>4. HInv /\ [Next]_vars => [Service!Next]_(Service!served)
  <2> SUFFICES ASSUME HInv, [Next]_vars PROVE [Service!Next]_(Service!served)
    OBVIOUS
  <2>1. CASE \E j \in Job : JobAction(j)
    BY <2>1, WorkServes
  <2>2. CASE chunks' = chunks /\ UNCHANGED jobvars
    <3>1. Phase' = Phase /\ Owed' = Owed
      BY <2>2 DEF Phase, Owed, jobvars
    <3> QED
      BY <2>2, <3>1, SamePublished DEF Service!served
  <2> QED
    BY <2>1, <2>2 DEF Next, JobAction, vars, Load, Unload, CacheGains, CacheLoses
<1> QED
  BY <1>1, <1>2, <1>3, <1>4, PTL DEF Spec, Service!Spec, ServiceKept
=============================================================================
