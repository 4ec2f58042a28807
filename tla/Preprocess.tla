------------------------------ MODULE Preprocess ------------------------------
(***************************************************************************)
(* Graph preprocessing: the job stages the archives whose graphs are not   *)
(* all there, finds the AIGs, and a pool of processes builds a .pt file    *)
(* from each (src/src/data/preprocess_data.py, and the staging of          *)
(* src/data/creation/shell/9_preprocess_graphs.sh).  The parent keeps a    *)
(* bounded number of tasks in flight and counts what comes back.           *)
(*                                                                         *)
(* A file of the pool is written in place: it is Torn from the time it is  *)
(* opened until all of it is written.                                      *)
(***************************************************************************)
EXTENDS Artifacts

CONSTANTS
  Options,  \* the command lines in use
  Workers,  \* --workers
  InFlight  \* --max-in-flight

ASSUME PreprocessAssumption ==
  /\ Options \subseteq [staged : BOOLEAN, overwrite : BOOLEAN,
                        failFast : BOOLEAN, allowUnmatched : BOOLEAN]
  /\ Workers \in Nat \ {0} /\ InFlight \in Nat /\ InFlight >= Workers

VARIABLES
  phase,   \* of the job
  options, \* its command line
  staged,  \* staged[a]: what became of archive a, and the members extracted
  from,    \* from[n]: where the task for name n finds its AIG
  task,    \* task[n]: how far it is
  graph,   \* graph[n]: the graph in the memory of its process
  drained  \* the tasks whose result the parent has counted

jobVars == <<phase, options, staged, from, task, graph, drained>>

NotStaged(s) == [state |-> s, members |-> <<>>]
AtRest   == {"idle", "success", "failed"}
Finished == {"saved", "skipped", "error"}
NoJob    == [staged |-> FALSE, overwrite |-> FALSE,
             failFast |-> FALSE, allowUnmatched |-> FALSE]

\* The archives that preprocessing looks at.
Inputs == {a \in Archives : Len(a.algos) <= 1}

JobInit ==
  /\ phase = "idle" /\ options = NoJob
  /\ staged = [a \in Inputs |-> NotStaged("todo")]
  /\ from = <<>> /\ task = <<>> /\ graph = <<>> /\ drained = {}

JobTypeOK ==
  /\ phase \in AtRest \cup {"staging", "discover", "running", "stopping"}
  /\ options \in Options \cup {NoJob}
  /\ staged \in [Inputs -> [state : {"todo", "skipped", "error", "staged"},
                           members : Seq(Member)]]
  /\ DOMAIN task \subseteq Name
  /\ from \in [DOMAIN task -> Inputs] /\ graph \in [DOMAIN task -> Name \cup {None}]
  /\ \A n \in DOMAIN task :
       task[n] \in Finished \cup {"todo", "queued", "building", "saving"}
  /\ drained \subseteq {n \in DOMAIN task : task[n] \in Finished}

----------------------------------------------------------------------------
(* Staging *)

\* The job script stages and overwrites; by hand it is run on the archives.
Submit ==
  /\ phase \in AtRest /\ runs < MaxRuns
  /\ \E o \in Options :
       /\ options' = o /\ phase' = IF o.staged THEN "staging" ELSE "discover"
  /\ staged' = [a \in Inputs |-> NotStaged("todo")]
  /\ from' = <<>> /\ task' = <<>> /\ graph' = <<>> /\ drained' = {}
  /\ runs' = runs + 1
  /\ UNCHANGED <<stores, harm>>

\* should_stage_zip: a graph that exists is not missing, whatever it holds.
Missing(a) ==
  \E n \in MemberNames(zips[a]) : AigAccepted(n) /\ OutputPath(n) \notin DOMAIN pts

Stage(a) ==
  /\ phase = "staging" /\ staged[a].state = "todo"
  /\ staged' = [staged EXCEPT ![a] =
                   IF zips[a] = Torn THEN NotStaged("error")
                   ELSE IF Missing(a) THEN [state |-> "staged", members |-> zips[a]]
                   ELSE NotStaged("skipped")]
  /\ UNCHANGED <<stores, phase, options, from, task, graph, drained, counters>>

Staged ==
  /\ phase = "staging" /\ \A a \in Inputs : staged[a].state # "todo"
  /\ phase' = IF \E a \in Inputs : staged[a].state = "error" THEN "failed" ELSE "discover"
  /\ UNCHANGED <<stores, options, staged, from, task, graph, drained, counters>>

----------------------------------------------------------------------------
(* Discovery *)

\* What discovery walks over: the staged files, or the archives themselves.
Walked(a) == IF options.staged THEN staged[a].members ELSE zips[a]

\* Only the path of an archive tells the design; a staged file is taken at
\* its word.
DesignAgrees(n, a) == options.staged \/ (n.form = "clean" /\ n.design = a.design)

Unreadable == \E a \in Inputs : Walked(a) = Torn
Found(a)   == {n \in MemberNames(Walked(a)) : AigAccepted(n) /\ DesignAgrees(n, a)}
Unmatched  == \E a \in Inputs : \E n \in MemberNames(Walked(a)) : ~AigAccepted(n)
Tasks      == UNION {Found(a) : a \in Inputs}

\* Of several files of one name the first path gets the task.
Discover ==
  /\ phase = "discover"
  /\ IF Unreadable \/ (Unmatched /\ ~options.allowUnmatched) \/ Tasks = {}
     THEN phase' = "failed" /\ UNCHANGED <<from, task, graph>>
     ELSE /\ \E w \in [Tasks -> Inputs] :
               (\A n \in Tasks : n \in Found(w[n])) /\ from' = w
          /\ task' = [n \in Tasks |-> "todo"]
          /\ graph' = [n \in Tasks |-> None]
          /\ phase' = "running"
  /\ UNCHANGED <<stores, options, staged, drained, counters>>

----------------------------------------------------------------------------
(* The pool *)

With(states) == {n \in DOMAIN task : task[n] \in states}
Pending      == With({"queued", "building", "saving"} \cup Finished) \ drained

Enqueue(n) ==
  /\ phase = "running" /\ task[n] = "todo" /\ Cardinality(Pending) < InFlight
  /\ task' = [task EXCEPT ![n] = "queued"]
  /\ UNCHANGED <<stores, phase, options, staged, from, graph, drained, counters>>

\* Mutant: an existing graph is kept even when told to overwrite.
TakeKeeping(n) ==
  /\ phase \in {"running", "stopping"} /\ task[n] = "queued"
  /\ Cardinality(With({"building", "saving"})) < Workers
  /\ task' = [task EXCEPT ![n] = IF OutputPath(n) \in DOMAIN pts THEN "skipped"
                                 ELSE "building"]
  /\ UNCHANGED <<stores, phase, options, staged, from, graph, drained, counters>>

\* process_task up to its check for an existing graph.
Take(n) ==
  /\ phase \in {"running", "stopping"} /\ task[n] = "queued"
  /\ Cardinality(With({"building", "saving"})) < Workers
  /\ task' = [task EXCEPT ![n] = IF OutputPath(n) \in DOMAIN pts /\ ~options.overwrite
                                 THEN "skipped" ELSE "building"]
  /\ UNCHANGED <<stores, phase, options, staged, from, graph, drained, counters>>

\* The AIG is read now, from an archive that may have changed since discovery.
Readable(n) == Walked(from[n]) # Torn /\ n \in MemberNames(Walked(from[n]))

\* The graph is built and its file opened.
Build(n) ==
  /\ phase \in {"running", "stopping"} /\ task[n] = "building" /\ Readable(n)
  /\ task' = [task EXCEPT ![n] = "saving"]
  /\ graph' = [graph EXCEPT ![n] = LastContent(Walked(from[n]), n)]
  /\ pts' = [p \in DOMAIN pts \cup {OutputPath(n)} |->
               IF p = OutputPath(n) THEN Torn ELSE pts[p]]
  /\ UNCHANGED <<zips, csvs, phase, options, staged, from, drained, counters>>

\* torch.save ends.  If a rename has replaced the file meanwhile, it has
\* written to a file without a name.
Save(n) ==
  /\ phase \in {"running", "stopping"} /\ task[n] = "saving"
  /\ task' = [task EXCEPT ![n] = "saved"]
  /\ pts' = IF pts[OutputPath(n)] = Torn
            THEN [pts EXCEPT ![OutputPath(n)] = graph[n]] ELSE pts
  /\ UNCHANGED <<zips, csvs, phase, options, staged, from, graph, drained, counters>>

\* A task that raises: its AIG cannot be read, or of itself (a broken AIG, a
\* full disk); it leaves what it has written.
Raise(n) ==
  /\ phase \in {"running", "stopping"}
  /\ \/ task[n] = "building" /\ ~Readable(n) /\ UNCHANGED harm
     \/ /\ task[n] \in {"building", "saving"}
        /\ harm < MaxHarm /\ harm' = harm + 1
  /\ task' = [task EXCEPT ![n] = "error"]
  /\ UNCHANGED <<stores, phase, options, staged, from, graph, drained, runs>>

\* Mutant: waits only when the window is exceeded.
MustDrainLate == Cardinality(Pending) > InFlight \/ With({"todo"}) = {}

\* drain_completed waits only when no more may be enqueued, and then counts
\* all that is done; with fail fast the first error ends the loop.
MustDrain == Cardinality(Pending) >= InFlight \/ With({"todo"}) = {}

Drain ==
  LET done == Pending \cap With(Finished)
  IN  /\ phase = "running" /\ MustDrain /\ done # {}
      /\ IF options.failFast /\ done \cap With({"error"}) # {}
         THEN phase' = "stopping" /\ UNCHANGED drained
         ELSE drained' = drained \cup done /\ UNCHANGED phase
      /\ UNCHANGED <<stores, options, staged, from, task, graph, counters>>

\* The equivalence checks of run_pipeline; the later one on errors is never
\* reached with one.
Complete ==
  /\ phase = "running" /\ drained = DOMAIN task
  /\ phase' = IF With({"error"}) = {} THEN "success" ELSE "failed"
  /\ UNCHANGED <<stores, options, staged, from, task, graph, drained, counters>>

\* Fail fast is not fast: leaving the executor waits for all that is queued.
Shutdown ==
  /\ phase = "stopping" /\ Pending \subseteq With(Finished)
  /\ phase' = "failed"
  /\ UNCHANGED <<stores, options, staged, from, task, graph, drained, counters>>

\* The time limit, the node, or a worker out of memory, which breaks the pool.
KillJob ==
  /\ phase \notin AtRest /\ harm < MaxHarm
  /\ phase' = "failed" /\ harm' = harm + 1
  /\ UNCHANGED <<stores, options, staged, from, task, graph, drained, runs>>

JobWork ==
  \/ \E a \in Inputs : Stage(a)
  \/ Staged \/ Discover \/ Drain \/ Complete \/ Shutdown
  \/ \E n \in DOMAIN task :
       Enqueue(n) \/ Take(n) \/ Build(n) \/ Save(n) \/ Raise(n)

JobNext == Submit \/ JobWork \/ KillJob
=============================================================================
