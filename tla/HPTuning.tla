------------------------------ MODULE HPTuning ------------------------------
(***************************************************************************)
(* Hyper-parameter tuning: the batch script that waits for the warm cache, *)
(* starts and restarts a worker process and saves its Optuna study; the    *)
(* trials the process runs, whose outcome is written attribute by          *)
(* attribute; and the second stage, whose studies are seeded from what the *)
(* first one saved (src/src/hp_tuning.py, hp_tuning_utils.py,              *)
(* src/src/shell/big_hp_tuning.sh).                                        *)
(*                                                                         *)
(* A study is the sequence of its trials.  A hyper-parameter configuration *)
(* is a model value, a validation loss a number.  Of a trial's attributes  *)
(* the one is kept that is read again, selection_eligible; the others      *)
(* (trial_outcome, oom_kind, score and so on) are only printed.            *)
(***************************************************************************)
EXTENDS Integers, Sequences, FiniteSets

CONSTANTS
  Job,          \* submissions of the script, each with a workspace
  Seeder,       \* the stage-1 job that the stage-2 jobs, all others, read
  Params,       \* hyper-parameter configurations
  Risky,        \* those above --hard_prune_risk
  Value,        \* validation losses
  InMemory,     \* USE_IN_MEMORY_STORAGE
  Trials,       \* Trials[j]: --n_trials, by stage
  TopN,         \* SEED_TOP_N
  Startup,      \* MedianPruner: n_startup_trials
  MaxRestarts,  \* MAX_RESTARTS_ON_OOM
  MaxWait,      \* MAX_WAIT, in sleeps
  Nodes,        \* bound: jobs that have a node at once
  MaxSubmit,    \* bound: submissions of a job
  MaxSync,      \* bound: rounds of the sync loops
  MaxFault,     \* bound: kills, lost writes, failed copies and resubmissions
  None          \* attribute not set, no file

ASSUME ConstantsAssumption ==
  /\ Seeder \in Job /\ Risky \subseteq Params /\ Value \subseteq Nat
  /\ InMemory \in BOOLEAN
  /\ Trials \in [Job -> Nat \ {0}]
  /\ TopN \in Nat /\ Startup \in Nat /\ MaxRestarts \in Nat /\ MaxWait \in Nat \ {0}
  /\ Nodes \in Nat /\ MaxSubmit \in Nat /\ MaxSync \in Nat /\ MaxFault \in Nat
  /\ None \notin Nat /\ None \notin Params /\ None \notin {"True", "False"}

Trial ==
  [params   : Params,
   state    : {"WAITING", "RUNNING", "COMPLETE", "PRUNED", "FAIL"},
   value    : Value \cup {None},
   eligible : {"True", "False", None},
   source   : Nat \cup {None}]   \* seed_source_trial_number

Study   == Seq(Trial)
Source  == [number : Nat, trial : Trial]
Result  == Params \X Value
Verdict == [state : {"COMPLETE", "PRUNED", "FAIL"}, value : Value \cup {None}]

ASSUME NoneAssumption == None \notin Study /\ None \notin Verdict

VARIABLES
  ready,    \* the sentinel of warmup_cache.sh is there
  copy,     \* copy[j]: optuna_study.db in j's workspace, None if absent
  pc,       \* pc[j]: what job j does next, "out" if it is not on a node
  waited,   \* waited[j]: sleeps before the sentinel
  mode,     \* mode[j]: --seed_mode, "none" without --seed_from_db_url
  attempt,  \* attempt[j]: worker processes launched
  code,     \* code[j]: exit code of the last one
  study,    \* study[j]: the study in the process or on the node's scratch disk
  seeds,    \* seeds[j]: stage-1 trials still to be taken over
  done,     \* done[j]: trials that this process has run
  now,      \* now[j]: number of the running trial
  mark,     \* mark[j]: selection_eligible, as it is to be written
  verdict,  \* verdict[j]: the result that Optuna is to be told
  tmp,      \* tmp[j]: the sync loop's backup before it is moved in place
  submits,  \* submits[j]: submissions so far
  syncs,    \* rounds of the sync loops so far
  faults,   \* kills, lost writes, failed copies and resubmissions so far
  dropped,  \* history: an attribute write was given up
  told,     \* history, told[j]: trials finished since j was submitted
  saved,    \* history: jobs whose current or last submission wrote copy[j]
  trained   \* history: <<params, value>> of all trainings that completed

node    == <<waited, mode, attempt, code, study, seeds, done, now, mark, verdict, tmp>>
history == <<dropped, told, saved, trained>>
vars    == <<ready, copy, pc, node, submits, syncs, faults, history>>

\* The script and its counters.
ScriptOK ==
  /\ pc \in [Job -> {"out", "wait", "launch", "load", "seed", "ask", "mark", "exited"}]
  /\ waited \in [Job -> 0..MaxWait]
  /\ mode \in [Job -> {"none", "enqueue", "import"}]
  /\ attempt \in [Job -> 0..MaxRestarts + 1]
  /\ code \in [Job -> {0, 1, 137}]
  /\ done \in [Job -> Nat] /\ \A j \in Job : done[j] <= Trials[j]

\* Studies, and what is to be added to them.
StudyOK ==
  /\ copy \in [Job -> Study \cup {None}]
  /\ study \in [Job -> Study]
  /\ seeds \in [Job -> SUBSET Source]
  /\ now \in [Job -> Nat]
  /\ mark \in [Job -> {"True", "False", None}]
  /\ verdict \in [Job -> Verdict \cup {None}]
  /\ tmp \in [Job -> Study \cup {None}]

BoundsOK ==
  /\ ready \in BOOLEAN
  /\ submits \in [Job -> 0..MaxSubmit]
  /\ syncs \in 0..MaxSync /\ faults \in 0..MaxFault
  /\ dropped \in BOOLEAN
  /\ told \in [Job -> Nat]
  /\ saved \subseteq Job
  /\ trained \subseteq Result

TypeOK == ScriptOK /\ StudyOK /\ BoundsOK

Init ==
  /\ ready = FALSE
  /\ copy = [j \in Job |-> None]
  /\ pc = [j \in Job |-> "out"]
  /\ waited = [j \in Job |-> 0]
  /\ mode = [j \in Job |-> "none"]
  /\ attempt = [j \in Job |-> 0]
  /\ code = [j \in Job |-> 0]
  /\ study = [j \in Job |-> <<>>]
  /\ seeds = [j \in Job |-> {}]
  /\ done = [j \in Job |-> 0]
  /\ now = [j \in Job |-> 0]
  /\ mark = [j \in Job |-> None]
  /\ verdict = [j \in Job |-> None]
  /\ tmp = [j \in Job |-> None]
  /\ submits = [j \in Job |-> 0]
  /\ syncs = 0 /\ faults = 0
  /\ dropped = FALSE
  /\ told = [j \in Job |-> 0]
  /\ saved = {}
  /\ trained = {}

Goto(j, where) == pc' = [pc EXCEPT ![j] = where]

\* Trial n of j's study becomes t.
Update(j, n, t) == study' = [study EXCEPT ![j] = [@ EXCEPT ![n] = t]]

Fault == faults < MaxFault /\ faults' = faults + 1

-----------------------------------------------------------------------------
(***************************************************************************)
(* The script, up to the worker.                                           *)
(***************************************************************************)
\* sbatch: LOCAL_SCRATCH is named after the job id, so the study is empty;
\* the copy in WORKSPACE, which is named after the task, stays.
Submit(j) ==
  /\ pc[j] = "out" /\ submits[j] < MaxSubmit
  /\ Cardinality({k \in Job : pc[k] # "out"}) < Nodes
  /\ submits' = [submits EXCEPT ![j] = @ + 1]
  /\ IF submits[j] = 0 THEN UNCHANGED faults ELSE Fault
  /\ saved' = saved \ {j}
  /\ Goto(j, "wait")
  /\ UNCHANGED <<ready, copy, node, syncs, dropped, told, trained>>

\* The process is gone, with what only it knew.
NoProcess(j) ==
  /\ seeds' = [seeds EXCEPT ![j] = {}]
  /\ done' = [done EXCEPT ![j] = 0]
  /\ now' = [now EXCEPT ![j] = 0]
  /\ mark' = [mark EXCEPT ![j] = None]
  /\ verdict' = [verdict EXCEPT ![j] = None]

\* Mutant: the sync loop survives the script.
LeaveSyncing(j) ==
  /\ Goto(j, "out")
  /\ NoProcess(j)
  /\ waited' = [waited EXCEPT ![j] = 0]
  /\ mode' = [mode EXCEPT ![j] = "none"]
  /\ attempt' = [attempt EXCEPT ![j] = 0]
  /\ code' = [code EXCEPT ![j] = 0]
  /\ study' = [study EXCEPT ![j] = <<>>]
  /\ tmp' = tmp
  /\ told' = [told EXCEPT ![j] = 0]

\* The job has left its node.
Leave(j) ==
  /\ Goto(j, "out")
  /\ NoProcess(j)
  /\ waited' = [waited EXCEPT ![j] = 0]
  /\ mode' = [mode EXCEPT ![j] = "none"]
  /\ attempt' = [attempt EXCEPT ![j] = 0]
  /\ code' = [code EXCEPT ![j] = 0]
  /\ study' = [study EXCEPT ![j] = <<>>]
  /\ tmp' = [tmp EXCEPT ![j] = None]
  /\ told' = [told EXCEPT ![j] = 0]

\* Mutant: the wait has no end.
SleepOn(j) ==
  /\ pc[j] = "wait" /\ ~ready
  /\ waited' = [waited EXCEPT ![j] = IF @ + 1 < MaxWait THEN @ + 1 ELSE @]
  /\ UNCHANGED <<ready, copy, pc, mode, attempt, code, study, seeds, done, now, mark,
                 verdict, tmp, submits, syncs, faults, history>>

\* No sentinel: sleep 30 seconds, give up after MAX_WAIT.
Sleep(j) ==
  /\ pc[j] = "wait" /\ ~ready
  /\ IF waited[j] + 1 >= MaxWait
     THEN Leave(j)
     ELSE /\ waited' = [waited EXCEPT ![j] = @ + 1]
          /\ UNCHANGED <<pc, mode, attempt, code, study, seeds, done, now, mark, verdict, tmp, told>>
  /\ UNCHANGED <<ready, copy, submits, syncs, faults, dropped, saved, trained>>

\* The sentinel is there.  A stage-2 job that finds the stage-1 study is
\* given SEED_MODE: enqueue or import.
Proceed(j) ==
  /\ pc[j] = "wait" /\ ready
  /\ \E m \in IF j # Seeder /\ copy[Seeder] # None THEN {"enqueue", "import"} ELSE {"none"} :
       mode' = [mode EXCEPT ![j] = m]
  /\ Goto(j, "launch")
  /\ UNCHANGED <<ready, copy, waited, attempt, code, study, seeds, done, now, mark, verdict,
                 tmp, submits, syncs, faults, history>>

\* Mutant: create_study without load_if_exists, after a clean-up.
LaunchAfresh(j) ==
  /\ pc[j] = "launch"
  /\ attempt' = [attempt EXCEPT ![j] = @ + 1]
  /\ study' = [study EXCEPT ![j] = <<>>]
  /\ Goto(j, IF mode[j] = "none" THEN "ask" ELSE "load")
  /\ UNCHANGED <<ready, copy, waited, mode, code, seeds, done, now, mark, verdict, tmp,
                 submits, syncs, faults, history>>

\* python -m hp_tuning, create_study(load_if_exists=True).
Launch(j) ==
  /\ pc[j] = "launch"
  /\ attempt' = [attempt EXCEPT ![j] = @ + 1]
  /\ study' = [study EXCEPT ![j] = IF InMemory THEN <<>> ELSE @]
  /\ Goto(j, IF mode[j] = "none" THEN "ask" ELSE "load")
  /\ UNCHANGED <<ready, copy, waited, mode, code, seeds, done, now, mark, verdict, tmp,
                 submits, syncs, faults, history>>

-----------------------------------------------------------------------------
(***************************************************************************)
(* Seeding: _seed_study_from_best.                                         *)
(***************************************************************************)
Numbers(trials) == DOMAIN trials

\* Mutant: every trial that was given a value.
EligibleByValue(trials) == {n \in Numbers(trials) : trials[n].value # None}

\* Completed, selection_eligible and with a value.
Eligible(trials) ==
  {n \in Numbers(trials) : /\ trials[n].state = "COMPLETE"
                           /\ trials[n].eligible = "True"
                           /\ trials[n].value # None}

\* list.sort by value is stable.
Better(a, b) == \/ a.trial.value < b.trial.value
                \/ a.trial.value = b.trial.value /\ a.number < b.number

Top(trials) ==
  LET all == {[number |-> n, trial |-> trials[n]] : n \in Eligible(trials)}
  IN  {s \in all : Cardinality({t \in all : Better(t, s)}) < TopN}

LoadSeeds(j) ==
  /\ pc[j] = "load"
  /\ seeds' = [seeds EXCEPT ![j] = Top(copy[Seeder])]
  /\ Goto(j, "seed")
  /\ UNCHANGED <<ready, copy, waited, mode, attempt, code, study, done, now, mark, verdict,
                 tmp, submits, syncs, faults, history>>

\* create_trial: a finished observation with the attributes of its source.
Imported(s) == [s.trial EXCEPT !.source = s.number, !.state = "COMPLETE"]

\* enqueue_trial: a WAITING trial with these parameters and attributes.
Enqueued(s) == [s.trial EXCEPT !.source = s.number, !.state = "WAITING", !.value = None]

\* Mutant: skip_if_exists left out.
TakeOverAgain(j, s) ==
  study' = [study EXCEPT ![j] =
              Append(@, IF mode[j] = "import" THEN Imported(s) ELSE Enqueued(s))]

\* add_trial, or enqueue_trial with skip_if_exists.
TakeOver(j, s) ==
  study' = [study EXCEPT ![j] =
              IF mode[j] = "import" THEN Append(@, Imported(s))
              ELSE IF \E n \in Numbers(@) : @[n].params = s.trial.params THEN @
              ELSE Append(@, Enqueued(s))]

\* The best of the seeds that are left, or none is left.
Seed(j) ==
  /\ pc[j] = "seed"
  /\ \/ \E s \in seeds[j] :
          /\ \A t \in seeds[j] \ {s} : Better(s, t)
          /\ TakeOver(j, s)
          /\ seeds' = [seeds EXCEPT ![j] = @ \ {s}]
          /\ UNCHANGED pc
     \/ /\ seeds[j] = {}
        /\ Goto(j, "ask")
        /\ UNCHANGED <<study, seeds>>
  /\ UNCHANGED <<ready, copy, waited, mode, attempt, code, done, now, mark, verdict, tmp,
                 submits, syncs, faults, history>>

-----------------------------------------------------------------------------
(***************************************************************************)
(* A trial: study.optimize and objective.                                  *)
(***************************************************************************)
\* Mutant: selection_eligible is only written when it is true.
MarkWhenTrue(outcome) == IF outcome = "completed" THEN "True" ELSE None

\* _mark_trial_outcome: selection_eligible is written, whatever it was.
Mark(outcome) == IF outcome = "completed" THEN "True" ELSE "False"

Waiting(j) == {n \in Numbers(study[j]) : study[j][n].state = "WAITING"}

\* study.ask: the first WAITING trial, else a new one.  Its first marks are
\* objective's "running".
Ask(j) ==
  /\ pc[j] = "ask"
  /\ IF Waiting(j) # {}
     THEN \E n \in Waiting(j) :
            /\ \A m \in Waiting(j) : n <= m
            /\ Update(j, n, [study[j][n] EXCEPT !.state = "RUNNING"])
            /\ now' = [now EXCEPT ![j] = n]
     ELSE \E p \in Params :
            /\ study' = [study EXCEPT ![j] = Append(@,
                 [params |-> p, state |-> "RUNNING", value |-> None, eligible |-> None,
                  source |-> None])]
            /\ now' = [now EXCEPT ![j] = Len(study[j]) + 1]
  /\ mark' = [mark EXCEPT ![j] = Mark("running")]
  /\ Goto(j, "mark")
  /\ UNCHANGED <<ready, copy, waited, mode, attempt, code, seeds, done, verdict, tmp, submits, syncs,
                 faults, history>>

\* _set_trial_user_attr.  SQLite may refuse: after three attempts the
\* attribute stays as it was, with a warning.
SetAttr(j) ==
  /\ pc[j] = "mark" /\ mark[j] # None
  /\ \/ /\ Update(j, now[j], [study[j][now[j]] EXCEPT !.eligible = mark[j]])
        /\ UNCHANGED <<faults, dropped>>
     \/ /\ ~InMemory /\ Fault
        /\ dropped' = TRUE
        /\ UNCHANGED study
  /\ mark' = [mark EXCEPT ![j] = None]
  /\ UNCHANGED <<ready, copy, pc, waited, mode, attempt, code, seeds, done, now, verdict, tmp,
                 submits, syncs, told, saved, trained>>

\* The objective ends: what it marks before it returns or raises.
Ends(j, marked, state, value) ==
  /\ mark' = [mark EXCEPT ![j] = marked]
  /\ verdict' = [verdict EXCEPT ![j] = [state |-> state, value |-> value]]
  /\ Goto(j, "mark")
  /\ UNCHANGED <<ready, copy, waited, mode, attempt, code, study, seeds, done, now, tmp,
                 submits, syncs, faults, dropped, told, saved>>

Marked(j) == pc[j] = "mark" /\ mark[j] = None

\* --hard_prune: an oversized configuration is given up before training.
HardPrune(j) ==
  /\ Marked(j) /\ verdict[j] = None
  /\ study[j][now[j]].params \in Risky
  /\ Ends(j, Mark("pruned"), "PRUNED", None)
  /\ UNCHANGED trained

\* trainer.fit: from here on one of four ends.
Fitting(j) ==
  /\ Marked(j) /\ verdict[j] = None
  /\ study[j][now[j]].params \notin Risky

FitCompletes(j) ==
  /\ Fitting(j)
  /\ \E v \in Value :
       /\ Ends(j, Mark("completed"), "COMPLETE", v)
       /\ trained' = trained \cup {<<study[j][now[j]].params, v>>}

\* The memory guard, a lost loader worker or an out-of-memory error.  Optuna
\* gives a pruned trial the value it last reported, if any.
FitRunsOutOfMemory(j) ==
  /\ Fitting(j)
  /\ \E v \in Value \cup {None} : Ends(j, Mark("pruned"), "PRUNED", v)
  /\ UNCHANGED trained

\* MedianPruner compares with trials that reported: imported ones did not.
FitIsPruned(j) ==
  LET complete == {n \in Numbers(study[j]) : study[j][n].state = "COMPLETE"}
  IN  /\ Fitting(j)
      /\ Cardinality(complete) >= Startup
      /\ \E n \in complete : study[j][n].source = None \/ mode[j] = "enqueue"
      /\ \E v \in Value : Ends(j, None, "PRUNED", v)
      /\ UNCHANGED trained

\* Any other error: it leaves objective as it came.
FitRaises(j) ==
  /\ Fitting(j)
  /\ Ends(j, None, "FAIL", None)
  /\ UNCHANGED trained

\* study.tell; optimize raises what objective raised, or runs on to n_trials.
Tell(j) ==
  /\ Marked(j) /\ verdict[j] # None
  /\ Update(j, now[j], [study[j][now[j]] EXCEPT !.state = verdict[j].state,
                                                !.value = verdict[j].value])
  /\ told' = [told EXCEPT ![j] = @ + 1]
  /\ now' = [now EXCEPT ![j] = 0]
  /\ verdict' = [verdict EXCEPT ![j] = None]
  /\ done' = [done EXCEPT ![j] = @ + 1]
  /\ code' = [code EXCEPT ![j] = IF verdict[j].state = "FAIL" THEN 1 ELSE 0]
  /\ Goto(j, IF verdict[j].state = "FAIL" \/ done[j] + 1 = Trials[j] THEN "exited" ELSE "ask")
  /\ UNCHANGED <<ready, copy, waited, mode, attempt, seeds, mark, tmp, submits, syncs, faults,
                 dropped, saved, trained>>

\* The process is killed, at any point: by the kernel for memory (137) or,
\* at the time limit, by SLURM.
Working(j) == pc[j] \in {"load", "seed", "ask", "mark"}

Die(j) ==
  /\ Working(j) /\ Fault
  /\ \E c \in {1, 137} : code' = [code EXCEPT ![j] = c]
  /\ NoProcess(j)
  /\ Goto(j, "exited")
  /\ UNCHANGED <<ready, copy, waited, mode, attempt, study, tmp, submits, syncs, history>>

-----------------------------------------------------------------------------
(***************************************************************************)
(* The script, around and after the worker.                                *)
(***************************************************************************)
\* MAX_RESTARTS_ON_OOM restarts, after a SIGKILL only.
MayRestart(j) == code[j] = 137 /\ attempt[j] <= MaxRestarts

Restart(j) ==
  /\ pc[j] = "exited" /\ MayRestart(j)
  /\ NoProcess(j)
  /\ Goto(j, "launch")
  /\ UNCHANGED <<ready, copy, waited, mode, attempt, code, study, tmp, submits, syncs, faults, history>>

Install(j, db) ==
  /\ copy' = [copy EXCEPT ![j] = db]
  /\ saved' = saved \cup {j}

\* The sync loop: sqlite3 backup to a temporary file ...
Backup(j) ==
  /\ ~InMemory /\ tmp[j] = None
  /\ attempt[j] > 0
  /\ syncs < MaxSync /\ syncs' = syncs + 1
  /\ tmp' = [tmp EXCEPT ![j] = study[j]]
  /\ UNCHANGED <<ready, copy, pc, waited, mode, attempt, code, study, seeds, done, now, mark,
                 verdict, submits, faults, history>>

\* ... which is moved in place.
Move(j) ==
  /\ tmp[j] # None
  /\ Install(j, tmp[j])
  /\ tmp' = [tmp EXCEPT ![j] = None]
  /\ UNCHANGED <<ready, pc, waited, mode, attempt, code, study, seeds, done, now, mark,
                 verdict, submits, syncs, faults, dropped, told, trained>>

\* cleanup_sync_loop, final sync, exit.  A failed sync is a warning.
Finish(j) ==
  /\ pc[j] = "exited" /\ ~MayRestart(j)
  /\ \/ /\ ~InMemory
        /\ Install(j, study[j])
        /\ UNCHANGED faults
     \/ /\ IF InMemory THEN UNCHANGED faults ELSE Fault
        /\ UNCHANGED <<copy, saved>>
  /\ Leave(j)
  /\ UNCHANGED <<ready, submits, syncs, dropped, trained>>

\* The node fails, or the time SLURM grants after SIGTERM is over.
HardKill(j) ==
  /\ pc[j] # "out" /\ Fault
  /\ Leave(j)
  /\ UNCHANGED <<ready, copy, submits, syncs, dropped, saved, trained>>

\* warmup_cache.sh has run.
Warm ==
  /\ ~ready
  /\ ready' = TRUE
  /\ UNCHANGED <<copy, pc, node, submits, syncs, faults, history>>

Step(j) ==
  \/ Sleep(j) \/ Proceed(j) \/ Launch(j) \/ LoadSeeds(j) \/ Seed(j)
  \/ Ask(j) \/ SetAttr(j) \/ HardPrune(j) \/ FitCompletes(j)
  \/ FitRunsOutOfMemory(j) \/ FitIsPruned(j) \/ FitRaises(j) \/ Tell(j)
  \/ Restart(j) \/ Finish(j)

Next ==
  \/ \E j \in Job : Submit(j) \/ Step(j) \/ Die(j) \/ HardKill(j) \/ Backup(j) \/ Move(j)
  \/ Warm

Spec == Init /\ [][Next]_vars

\* A submitted job runs; a fit ends at --max_trial_hours.
FairSpec == Spec /\ \A j \in Job : WF_vars(Step(j))
-----------------------------------------------------------------------------
Finished(trials) == {n \in Numbers(trials) : trials[n].state \in {"COMPLETE", "PRUNED", "FAIL"}}

\* Every study there is: in a process, on a scratch disk, in a workspace.
Studies == {study[j] : j \in Job} \cup ({copy[j] : j \in Job} \ {None})

(***************************************************************************)
(* A finished trial is selection_eligible exactly if it completed, also in *)
(* a copy taken while its attributes were being written, and although an   *)
(* enqueued trial begins with the attributes of its stage-1 source         *)
(* (_mark_trial_outcome, _seed_study_from_best).  An attribute write that  *)
(* was given up can break this.                                            *)
(***************************************************************************)
EligibleMeansCompleted ==
  ~dropped =>
    \A s \in Studies : \A n \in Finished(s) :
      (s[n].eligible = "True") <=> (s[n].state = "COMPLETE")

(***************************************************************************)
(* The value of a completed trial, run or imported, is one that a training *)
(* to the end gave these parameters: no value of a pruned trial, which     *)
(* Optuna keeps too, becomes an observation of stage 2, even if attribute  *)
(* writes are lost (_seed_study_from_best).                                *)
(***************************************************************************)
ValuesEarned ==
  \A s \in Studies : \A n \in Numbers(s) :
    s[n].state = "COMPLETE" => <<s[n].params, s[n].value>> \in trained

(***************************************************************************)
(* Worker 1 re-runs each stage-1 configuration once, although each restart *)
(* of the process enqueues them again, from a study that may have grown    *)
(* (enqueue_trial with skip_if_exists).                                    *)
(***************************************************************************)
SeedsOnce ==
  \A j \in Job : mode[j] = "enqueue" =>
    \A m, n \in Numbers(study[j]) :
      /\ study[j][m].source # None /\ study[j][n].source # None
      /\ study[j][m].params = study[j][n].params
      => m = n

\* The finished trials of s are in t, as they were.
Kept(s, t) == \A n \in Finished(s) : n \in Numbers(t) /\ t[n] = s[n]

(***************************************************************************)
(* The sync loop, which moves in place what may be an old backup, and the  *)
(* final sync write the same file; a trial finished in the workspace copy  *)
(* is lost in one way only: a later submission of the job, whose study     *)
(* began empty, saves for the first time and replaces the copy of the      *)
(* earlier one, although the copy is made "so results are preserved"       *)
(* (big_hp_tuning.sh:142, 152-154).                                        *)
(***************************************************************************)
CopyAdvances ==
  [][\A j \in Job : copy[j] # None =>
       \/ Kept(copy[j], copy'[j])
       \/ submits[j] > 1 /\ j \notin saved /\ j \in saved']_vars

(***************************************************************************)
(* big_hp_tuning.sh, on a restart after exit 137: "restart the worker      *)
(* process and continue from the same Optuna DB/study": the study of a     *)
(* running worker has every trial that finished since the job began.       *)
(***************************************************************************)
RestartContinues ==
  \A j \in Job : Working(j) => Cardinality({n \in Finished(study[j]) :
                                   study[j][n].source = None \/ mode[j] # "import"}) >= told[j]

(***************************************************************************)
(* A submitted job ends: it waits for the sentinel for a limited time, and *)
(* restarts and trials are limited (big_hp_tuning.sh).                     *)
(***************************************************************************)
WorkerEnds == \A j \in Job : pc[j] # "out" ~> pc[j] = "out"
=============================================================================
