---------------------------- MODULE MaskService ----------------------------
(***************************************************************************)
(* What mask precomputation promises, without pools, memory, checkpoints   *)
(* or chunk files: a job owes masks, masks are published at any time while *)
(* a job that owes them runs and are there from then on, and a job reports *)
(* success only when all it owes is there.  It may vanish instead.         *)
(***************************************************************************)
EXTENDS FiniteSets

CONSTANTS Graph, Algo, Job

VARIABLES
  made,   \* the masks that are published: pairs <<algorithm, graph>>
  phase,  \* phase[j]: "off", "on" or "success"
  owed    \* owed[j]: the masks job j is to see published

served == <<made, phase, owed>>

Init ==
  /\ made = {}
  /\ phase = [j \in Job |-> "off"]
  /\ owed = [j \in Job |-> {}]

\* A job is submitted, for the graphs that are there.
Submit(j) ==
  /\ phase[j] = "off"
  /\ phase' = [phase EXCEPT ![j] = "on"]
  /\ \E masks \in SUBSET (Algo \X Graph) : owed' = [owed EXCEPT ![j] = masks]
  /\ UNCHANGED made

\* A graph appears in the scan, or turns out to be gone.
Rescan(j) ==
  /\ phase[j] = "on"
  /\ \E g \in Graph, algos \in SUBSET Algo :
       \/ owed' = [owed EXCEPT ![j] = @ \cup (algos \X {g})]
       \/ owed' = [owed EXCEPT ![j] = @ \ (algos \X {g})]
  /\ UNCHANGED <<made, phase>>

\* Only what a running job owes is published, and nothing is withdrawn.
Publish(j) ==
  /\ phase[j] = "on"
  /\ made \subseteq made' /\ made' \subseteq made \cup owed[j]
  /\ UNCHANGED <<phase, owed>>

Succeed(j) ==
  /\ phase[j] = "on" /\ owed[j] \subseteq made
  /\ phase' = [phase EXCEPT ![j] = "success"]
  /\ UNCHANGED <<made, owed>>

\* The job exits, or is killed.
Leave(j) ==
  /\ phase' = [phase EXCEPT ![j] = "off"]
  /\ owed' = [owed EXCEPT ![j] = {}]
  /\ UNCHANGED made

Next == \E j \in Job : Submit(j) \/ Rescan(j) \/ Publish(j) \/ Succeed(j) \/ Leave(j)

Spec == Init /\ [][Next]_served
=============================================================================
