--------------------------- MODULE HPTuning_proofs ---------------------------
(* What studies and their copies hold, for any number of jobs, trials,      *)
(* restarts, kills, lost writes and failed copies.                          *)
EXTENDS HPTuning, FiniteSetTheorems, TLAPS

\* A job off its node holds nothing; the running trial is in the study, and
\* marks and verdicts are only pending while it runs.
PhaseOf(j) ==
  /\ pc[j] \in {"out", "wait"} => attempt[j] = 0 /\ study[j] = <<>> /\ tmp[j] = None
  /\ pc[j] = "launch" => attempt[j] <= MaxRestarts
  /\ pc[j] # "exited" => done[j] < Trials[j]
  /\ mode[j] # "none" => copy[Seeder] # None
  /\ pc[j] = "load" => mode[j] # "none"
  /\ pc[j] = "mark" => now[j] \in DOMAIN study[j] /\ study[j][now[j]].state = "RUNNING"
  /\ verdict[j] # None \/ mark[j] # None => pc[j] = "mark"

TypeInv == TypeOK /\ \A j \in Job : PhaseOf(j)

-----------------------------------------------------------------------------
LEMMA Appended ==
  ASSUME NEW s \in Study, NEW t \in Trial
  PROVE  /\ Append(s, t) \in Study
         /\ DOMAIN Append(s, t) = (DOMAIN s) \cup {Len(s) + 1}
         /\ Append(s, t)[Len(s) + 1] = t
         /\ \A n \in DOMAIN s : Append(s, t)[n] = s[n]
BY DEF Study

LEMMA Replaced ==
  ASSUME NEW s \in Study, NEW n \in DOMAIN s, NEW t \in Trial
  PROVE  /\ [s EXCEPT ![n] = t] \in Study
         /\ DOMAIN [s EXCEPT ![n] = t] = DOMAIN s
         /\ [s EXCEPT ![n] = t][n] = t
         /\ \A m \in (DOMAIN s) \ {n} : [s EXCEPT ![n] = t][m] = s[m]
BY DEF Study

LEMMA Entries ==
  ASSUME NEW s \in Study, NEW n \in DOMAIN s
  PROVE  s[n] \in Trial /\ n \in Nat
BY DEF Study

LEMMA SeedsTyped ==
  ASSUME NEW s \in Study, NEW x \in Top(s)
  PROVE  /\ x \in Source
         /\ x.trial.state = "COMPLETE" /\ x.trial.eligible = "True" /\ x.trial.value # None
         /\ x.number \in DOMAIN s /\ x.trial = s[x.number]
BY Entries DEF Top, Eligible, Numbers, Source

LEMMA EmptyStudy == <<>> \in Study /\ DOMAIN <<>> = {}
BY DEF Study

LEMMA TakenOver ==
  ASSUME NEW x \in Source
  PROVE  Imported(x) \in Trial /\ Enqueued(x) \in Trial
BY DEF Imported, Enqueued, Trial, Source

-----------------------------------------------------------------------------
LEMMA TrialsPositive == \A j \in Job : Trials[j] \in Nat /\ Trials[j] > 0
BY ConstantsAssumption

THEOREM TypeInit == Init => TypeInv
<1> SUFFICES ASSUME Init PROVE TypeInv
  OBVIOUS
<1>1. ScriptOK
  BY ConstantsAssumption, TrialsPositive DEF Init, ScriptOK
<1>2. StudyOK
  BY EmptyStudy DEF Init, StudyOK
<1>3. BoundsOK
  <2>1. 0 \in 0..MaxSubmit /\ 0 \in 0..MaxSync /\ 0 \in 0..MaxFault
    BY ConstantsAssumption
  <2> QED
    BY <2>1 DEF Init, BoundsOK
<1>4. \A j \in Job : PhaseOf(j)
  BY ConstantsAssumption, TrialsPositive DEF Init, PhaseOf
<1> QED
  BY <1>1, <1>2, <1>3, <1>4 DEF TypeInv, TypeOK

LEMMA NoProcessTyped ==
  ASSUME TypeInv, NEW j \in Job, NoProcess(j)
  PROVE  /\ done' \in [Job -> Nat] /\ \A k \in Job : done'[k] <= Trials[k]
         /\ seeds' \in [Job -> SUBSET Source] /\ now' \in [Job -> Nat]
         /\ mark' \in [Job -> {"True", "False", None}]
         /\ verdict' \in [Job -> Verdict \cup {None}]
<1>1. done \in [Job -> Nat] /\ \A k \in Job : done[k] <= Trials[k]
  BY DEF TypeInv, TypeOK, ScriptOK
<1>2. done' \in [Job -> Nat] /\ \A k \in Job : done'[k] <= Trials[k]
  BY <1>1, TrialsPositive DEF NoProcess
<1> QED
  BY <1>2 DEF TypeInv, TypeOK, StudyOK, NoProcess

\* A job that leaves: what remains is the copy.
LEMMA LeaveTyped ==
  ASSUME TypeInv, NEW j \in Job, Leave(j),
         copy' \in [Job -> Study \cup {None}], copy[Seeder] # None => copy'[Seeder] # None
  PROVE  /\ ScriptOK' /\ StudyOK' /\ told' \in [Job -> Nat]
         /\ \A k \in Job : PhaseOf(k)'
<1>1. ScriptOK'
  BY NoProcessTyped, ConstantsAssumption DEF TypeInv, TypeOK, ScriptOK, Leave, Goto
<1>2. StudyOK'
  BY NoProcessTyped, EmptyStudy DEF TypeInv, TypeOK, StudyOK, Leave
<1>3. told' \in [Job -> Nat]
  BY DEF TypeInv, TypeOK, BoundsOK, Leave
<1>4. ASSUME NEW k \in Job PROVE PhaseOf(k)'
  <2>1. CASE k = j
    BY <2>1, TrialsPositive DEF TypeInv, TypeOK, ScriptOK, StudyOK, PhaseOf, Leave, NoProcess, Goto
  <2>2. CASE k # j
    BY <2>2 DEF TypeInv, TypeOK, ScriptOK, StudyOK, PhaseOf, Leave, NoProcess, Goto
  <2> QED
    BY <2>1, <2>2
<1> QED
  BY <1>1, <1>2, <1>3, <1>4

LEMMA SubmitTyped ==
  ASSUME TypeInv, NEW j \in Job, Submit(j)
  PROVE  TypeInv'
<1>1. ScriptOK'
  BY ConstantsAssumption, TrialsPositive DEF TypeInv, TypeOK, ScriptOK, PhaseOf, Submit, Goto, node
<1>2. StudyOK'
  BY EmptyStudy DEF TypeInv, TypeOK, StudyOK, Submit, node
<1>3. BoundsOK'
  <2>1. faults' \in 0..MaxFault /\ submits' \in [Job -> 0..MaxSubmit]
    BY ConstantsAssumption DEF TypeInv, TypeOK, BoundsOK, Submit, Fault
  <2> QED
    BY <2>1 DEF TypeInv, TypeOK, BoundsOK, Submit
<1>4. ASSUME NEW k \in Job PROVE PhaseOf(k)'
  <2>1. CASE k = j
    BY <2>1, EmptyStudy, TrialsPositive, ConstantsAssumption DEF TypeInv, TypeOK, ScriptOK, StudyOK, PhaseOf, Submit, Goto, node
  <2>2. CASE k # j
    BY <2>2 DEF TypeInv, TypeOK, ScriptOK, StudyOK, PhaseOf, Submit, Goto, node
  <2> QED
    BY <2>1, <2>2
<1> QED
  BY <1>1, <1>2, <1>3, <1>4 DEF TypeInv, TypeOK

LEMMA ProceedTyped ==
  ASSUME TypeInv, NEW j \in Job, Proceed(j)
  PROVE  TypeInv'
<1>1. ScriptOK'
  BY ConstantsAssumption, TrialsPositive DEF TypeInv, TypeOK, ScriptOK, PhaseOf, Proceed, Goto, history
<1>2. StudyOK'
  BY EmptyStudy DEF TypeInv, TypeOK, StudyOK, Proceed, history
<1>3. BoundsOK'
  BY ConstantsAssumption DEF TypeInv, TypeOK, BoundsOK, Proceed, history
<1>4. ASSUME NEW k \in Job PROVE PhaseOf(k)'
  <2>1. CASE k = j
    BY <2>1, EmptyStudy, TrialsPositive, ConstantsAssumption DEF TypeInv, TypeOK, ScriptOK, StudyOK, PhaseOf, Proceed, Goto, history
  <2>2. CASE k # j
    BY <2>2 DEF TypeInv, TypeOK, ScriptOK, StudyOK, PhaseOf, Proceed, Goto, history
  <2> QED
    BY <2>1, <2>2
<1> QED
  BY <1>1, <1>2, <1>3, <1>4 DEF TypeInv, TypeOK

LEMMA LaunchTyped ==
  ASSUME TypeInv, NEW j \in Job, Launch(j)
  PROVE  TypeInv'
<1>1. ScriptOK'
  BY ConstantsAssumption, TrialsPositive DEF TypeInv, TypeOK, ScriptOK, PhaseOf, Launch, Goto, history
<1>2. StudyOK'
  BY EmptyStudy DEF TypeInv, TypeOK, StudyOK, Launch, history
<1>3. BoundsOK'
  BY ConstantsAssumption DEF TypeInv, TypeOK, BoundsOK, Launch, history
<1>4. ASSUME NEW k \in Job PROVE PhaseOf(k)'
  <2>1. CASE k = j
    BY <2>1, EmptyStudy, TrialsPositive, ConstantsAssumption DEF TypeInv, TypeOK, ScriptOK, StudyOK, PhaseOf, Launch, Goto, history
  <2>2. CASE k # j
    BY <2>2 DEF TypeInv, TypeOK, ScriptOK, StudyOK, PhaseOf, Launch, Goto, history
  <2> QED
    BY <2>1, <2>2
<1> QED
  BY <1>1, <1>2, <1>3, <1>4 DEF TypeInv, TypeOK

LEMMA SleepTyped ==
  ASSUME TypeInv, NEW j \in Job, Sleep(j)
  PROVE  TypeInv'
<1>0. /\ UNCHANGED <<ready, copy, submits, syncs, faults, dropped, saved, trained>>
      /\ pc[j] = "wait"
  BY DEF Sleep
<1>1. CASE waited[j] + 1 >= MaxWait
  <2>1. Leave(j)
    BY <1>1 DEF Sleep
  <2> QED
    BY <1>0, <2>1, LeaveTyped DEF TypeInv, TypeOK, BoundsOK, StudyOK
<1>2. CASE ~(waited[j] + 1 >= MaxWait)
  <2>1. /\ waited' = [waited EXCEPT ![j] = @ + 1]
        /\ UNCHANGED <<pc, mode, attempt, code, study, seeds, done, now, mark, verdict, tmp, told>>
    BY <1>2 DEF Sleep
  <2>2. waited' \in [Job -> 0..MaxWait]
    BY <1>2, <2>1, ConstantsAssumption DEF TypeInv, TypeOK, ScriptOK
  <2> QED
    BY <1>0, <2>1, <2>2 DEF TypeInv, TypeOK, ScriptOK, StudyOK, BoundsOK, PhaseOf
<1> QED
  BY <1>1, <1>2

\* What Top returns for a study in a workspace.
LEMMA TopTyped ==
  ASSUME TypeInv, copy[Seeder] # None
  PROVE  Top(copy[Seeder]) \in SUBSET Source
BY SeedsTyped, ConstantsAssumption DEF TypeInv, TypeOK, StudyOK

LEMMA LoadSeedsTyped ==
  ASSUME TypeInv, NEW j \in Job, LoadSeeds(j)
  PROVE  TypeInv'
<1>0. copy[Seeder] # None /\ Top(copy[Seeder]) \in SUBSET Source
  BY TopTyped DEF TypeInv, PhaseOf, LoadSeeds
<1>1. ScriptOK'
  BY DEF TypeInv, TypeOK, ScriptOK, LoadSeeds, Goto
<1>2. StudyOK'
  BY <1>0 DEF TypeInv, TypeOK, StudyOK, LoadSeeds
<1>3. BoundsOK'
  BY DEF TypeInv, TypeOK, BoundsOK, LoadSeeds, history
<1>4. \A k \in Job : PhaseOf(k)'
  BY DEF TypeInv, TypeOK, ScriptOK, PhaseOf, LoadSeeds, Goto
<1> QED
  BY <1>1, <1>2, <1>3, <1>4 DEF TypeInv, TypeOK

\* Seeding keeps the study's type; only what was there stays as it was.
LEMMA TakeOverTyped ==
  ASSUME TypeInv, NEW j \in Job, NEW x \in Source, TakeOver(j, x)
  PROVE  study' \in [Job -> Study] /\ \A k \in Job : k # j => study'[k] = study[k]
<1>1. study \in [Job -> Study]
  BY DEF TypeInv, TypeOK, StudyOK
<1>2. Append(study[j], Imported(x)) \in Study /\ Append(study[j], Enqueued(x)) \in Study
  BY <1>1, TakenOver, Appended
<1> QED
  BY <1>1, <1>2 DEF TakeOver

LEMMA SeedTyped ==
  ASSUME TypeInv, NEW j \in Job, Seed(j)
  PROVE  TypeInv'
<1>0. /\ UNCHANGED <<ready, copy, waited, mode, attempt, code, done, now, mark, verdict, tmp,
                     submits, syncs, faults, history>>
      /\ pc[j] = "seed"
  BY DEF Seed
<1>1. CASE seeds[j] = {} /\ Goto(j, "ask") /\ UNCHANGED <<study, seeds>>
  BY <1>0, <1>1 DEF TypeInv, TypeOK, ScriptOK, StudyOK, BoundsOK, PhaseOf, Goto, history
<1>2. CASE \E x \in seeds[j] : /\ TakeOver(j, x)
                               /\ seeds' = [seeds EXCEPT ![j] = @ \ {x}]
                               /\ UNCHANGED pc
  <2> PICK x \in seeds[j] : /\ TakeOver(j, x)
                            /\ seeds' = [seeds EXCEPT ![j] = @ \ {x}]
                            /\ UNCHANGED pc
    BY <1>2
  <2>1. x \in Source
    BY DEF TypeInv, TypeOK, StudyOK
  <2>2. study' \in [Job -> Study] /\ \A k \in Job : k # j => study'[k] = study[k]
    BY <2>1, TakeOverTyped
  <2>3. StudyOK'
    BY <1>0, <2>2 DEF TypeInv, TypeOK, StudyOK
  <2>4. \A k \in Job : PhaseOf(k)'
    BY <1>0, <2>2 DEF TypeInv, TypeOK, ScriptOK, PhaseOf
  <2> QED
    BY <1>0, <2>3, <2>4 DEF TypeInv, TypeOK, ScriptOK, BoundsOK, history
<1> QED
  BY <1>1, <1>2 DEF Seed

LEMMA AskTyped ==
  ASSUME TypeInv, NEW j \in Job, Ask(j)
  PROVE  TypeInv'
<1>0. /\ pc[j] = "ask" /\ Goto(j, "mark") /\ mark' = [mark EXCEPT ![j] = Mark("running")]
      /\ UNCHANGED <<ready, copy, waited, mode, attempt, code, seeds, done, verdict, tmp,
                     submits, syncs, faults, history>>
      /\ study \in [Job -> Study]
  BY DEF Ask, TypeInv, TypeOK, StudyOK
<1>1. \E n \in Nat : /\ study' \in [Job -> Study] /\ now' = [now EXCEPT ![j] = n]
                     /\ n \in DOMAIN study'[j] /\ study'[j][n].state = "RUNNING"
                     /\ \A k \in Job : k # j => study'[k] = study[k]
  <2>1. CASE Waiting(j) # {}
    <3> PICK n \in Waiting(j) : /\ Update(j, n, [study[j][n] EXCEPT !.state = "RUNNING"])
                                /\ now' = [now EXCEPT ![j] = n]
      BY <2>1 DEF Ask
    <3> DEFINE t == [study[j][n] EXCEPT !.state = "RUNNING"]
    <3>1. n \in DOMAIN study[j] /\ study[j][n] \in Trial /\ n \in Nat
      BY <1>0, Entries DEF Waiting, Numbers
    <3>2. t \in Trial /\ t.state = "RUNNING"
      BY <3>1 DEF Trial
    <3>3. /\ [study[j] EXCEPT ![n] = t] \in Study /\ [study[j] EXCEPT ![n] = t][n] = t
          /\ n \in DOMAIN [study[j] EXCEPT ![n] = t]
      BY <1>0, <3>1, <3>2, Replaced
    <3> QED
      BY <1>0, <3>1, <3>2, <3>3 DEF Update
  <2>2. CASE ~(Waiting(j) # {})
    <3> PICK p \in Params :
          /\ study' = [study EXCEPT ![j] = Append(@,
               [params |-> p, state |-> "RUNNING", value |-> None, eligible |-> None,
                source |-> None])]
          /\ now' = [now EXCEPT ![j] = Len(study[j]) + 1]
      BY <2>2 DEF Ask
    <3> DEFINE t == [params |-> p, state |-> "RUNNING", value |-> None, eligible |-> None,
                     source |-> None]
    <3>1. t \in Trial /\ t.state = "RUNNING"
      BY DEF Trial
    <3>2. /\ Append(study[j], t) \in Study /\ Append(study[j], t)[Len(study[j]) + 1] = t
          /\ Len(study[j]) + 1 \in DOMAIN Append(study[j], t)
      BY <1>0, <3>1, Appended
    <3>3. Len(study[j]) + 1 \in Nat
      BY <1>0 DEF Study
    <3> QED
      BY <1>0, <3>1, <3>2, <3>3
  <2> QED
    BY <2>1, <2>2
<1>2. Mark("running") = "False"
  BY DEF Mark
<1>3. StudyOK'
  BY <1>0, <1>1, <1>2 DEF TypeInv, TypeOK, StudyOK
<1>4. \A k \in Job : PhaseOf(k)'
  BY <1>0, <1>1, <1>2 DEF TypeInv, TypeOK, ScriptOK, StudyOK, PhaseOf, Goto
<1>5. ScriptOK' /\ BoundsOK'
  BY <1>0 DEF TypeInv, TypeOK, ScriptOK, BoundsOK, Goto, history
<1> QED
  BY <1>3, <1>4, <1>5 DEF TypeInv, TypeOK

LEMMA FaultTyped ==
  ASSUME TypeInv, Fault
  PROVE  faults' \in 0..MaxFault
<1>1. MaxFault \in Nat /\ faults \in 0..MaxFault /\ faults < MaxFault /\ faults' = faults + 1
  BY ConstantsAssumption DEF Fault, TypeInv, TypeOK, BoundsOK
<1> QED
  BY <1>1

LEMMA SetAttrTyped ==
  ASSUME TypeInv, NEW j \in Job, SetAttr(j)
  PROVE  TypeInv'
<1>0. /\ pc[j] = "mark" /\ mark[j] # None /\ mark' = [mark EXCEPT ![j] = None]
      /\ UNCHANGED <<ready, copy, pc, waited, mode, attempt, code, seeds, done, now, verdict, tmp,
                     submits, syncs, told, saved, trained>>
      /\ study \in [Job -> Study] /\ mark[j] \in {"True", "False"}
      /\ now[j] \in DOMAIN study[j] /\ study[j][now[j]].state = "RUNNING"
  BY DEF SetAttr, TypeInv, TypeOK, StudyOK, PhaseOf
<1>1. faults' \in 0..MaxFault /\ dropped' \in BOOLEAN
  <2>1. faults \in 0..MaxFault /\ dropped \in BOOLEAN
    BY DEF TypeInv, TypeOK, BoundsOK
  <2>2. CASE Fault /\ dropped' = TRUE
    BY <2>2, FaultTyped
  <2>3. CASE UNCHANGED <<faults, dropped>>
    BY <2>1, <2>3
  <2> QED
    BY <2>2, <2>3 DEF SetAttr
<1>2. /\ study' \in [Job -> Study] /\ now[j] \in DOMAIN study'[j]
      /\ study'[j][now[j]].state = "RUNNING" /\ \A k \in Job : k # j => study'[k] = study[k]
  <2>1. CASE Update(j, now[j], [study[j][now[j]] EXCEPT !.eligible = mark[j]])
    <3> DEFINE t == [study[j][now[j]] EXCEPT !.eligible = mark[j]]
    <3>1. study[j][now[j]] \in Trial
      BY <1>0, Entries
    <3>2. t \in Trial /\ t.state = "RUNNING"
      BY <1>0, <3>1 DEF Trial
    <3>3. /\ [study[j] EXCEPT ![now[j]] = t] \in Study
          /\ [study[j] EXCEPT ![now[j]] = t][now[j]] = t
          /\ now[j] \in DOMAIN [study[j] EXCEPT ![now[j]] = t]
      BY <1>0, <3>2, Replaced
    <3> QED
      BY <1>0, <2>1, <3>2, <3>3 DEF Update
  <2>2. CASE UNCHANGED study
    BY <1>0, <2>2
  <2> QED
    BY <2>1, <2>2 DEF SetAttr
<1>3. StudyOK'
  BY <1>0, <1>2 DEF TypeInv, TypeOK, StudyOK
<1>4. \A k \in Job : PhaseOf(k)'
  BY <1>0, <1>2 DEF TypeInv, TypeOK, ScriptOK, StudyOK, PhaseOf
<1> QED
  BY <1>0, <1>1, <1>3, <1>4 DEF TypeInv, TypeOK, ScriptOK, BoundsOK

\* However the objective ends, what it leaves for Optuna is typed.
LEMMA EndsTyped ==
  ASSUME TypeInv, NEW j \in Job, NEW m \in {"True", "False", None},
         NEW state \in {"COMPLETE", "PRUNED", "FAIL"}, NEW v \in Value \cup {None},
         Marked(j), Ends(j, m, state, v), trained' \subseteq Result
  PROVE  TypeInv'
<1>0. /\ pc[j] = "mark" /\ Goto(j, "mark") /\ pc' = pc
      /\ UNCHANGED <<ready, copy, waited, mode, attempt, code, study, seeds, done, now, tmp,
                     submits, syncs, faults, dropped, told, saved>>
  BY DEF Ends, Marked, Goto, TypeInv, TypeOK, ScriptOK
<1>1. [state |-> state, value |-> v] \in Verdict
  BY DEF Verdict
<1>2. StudyOK'
  BY <1>0, <1>1 DEF TypeInv, TypeOK, StudyOK, Ends
<1>3. \A k \in Job : PhaseOf(k)'
  BY <1>0 DEF TypeInv, TypeOK, StudyOK, PhaseOf, Ends
<1> QED
  BY <1>0, <1>2, <1>3 DEF TypeInv, TypeOK, ScriptOK, BoundsOK

LEMMA TrialTyped ==
  ASSUME TypeInv, NEW j \in Job,
         HardPrune(j) \/ FitCompletes(j) \/ FitRunsOutOfMemory(j) \/ FitIsPruned(j) \/ FitRaises(j)
  PROVE  TypeInv'
<1>0. trained \subseteq Result
  BY DEF TypeInv, TypeOK, BoundsOK
<1>1. CASE HardPrune(j)
  BY <1>0, <1>1, EndsTyped DEF HardPrune, Mark
<1>2. CASE FitCompletes(j)
  <2> PICK v \in Value : /\ Ends(j, Mark("completed"), "COMPLETE", v)
                         /\ trained' = trained \cup {<<study[j][now[j]].params, v>>}
    BY <1>2 DEF FitCompletes
  <2>1. Marked(j) /\ now[j] \in DOMAIN study[j] /\ study[j] \in Study
    BY <1>2 DEF FitCompletes, Fitting, Marked, TypeInv, TypeOK, StudyOK, PhaseOf
  <2>2. study[j][now[j]].params \in Params
    BY <2>1, Entries DEF Trial
  <2>3. trained' \subseteq Result
    BY <1>0, <2>2 DEF Result
  <2> QED
    BY <2>1, <2>3, EndsTyped DEF Mark
<1>3. CASE FitRunsOutOfMemory(j)
  BY <1>0, <1>3, EndsTyped DEF FitRunsOutOfMemory, Fitting, Mark
<1>4. CASE FitIsPruned(j)
  BY <1>0, <1>4, EndsTyped DEF FitIsPruned, Fitting
<1>5. CASE FitRaises(j)
  BY <1>0, <1>5, EndsTyped DEF FitRaises, Fitting
<1> QED
  BY <1>1, <1>2, <1>3, <1>4, <1>5

LEMMA TellTyped ==
  ASSUME TypeInv, NEW j \in Job, Tell(j)
  PROVE  TypeInv'
<1> DEFINE t == [study[j][now[j]] EXCEPT !.state = verdict[j].state, !.value = verdict[j].value]
<1>0. /\ pc[j] = "mark" /\ mark[j] = None /\ verdict[j] \in Verdict
      /\ study \in [Job -> Study] /\ now[j] \in DOMAIN study[j]
      /\ done[j] < Trials[j] /\ Trials[j] \in Nat /\ done[j] \in Nat
  BY TrialsPositive DEF Tell, Marked, TypeInv, TypeOK, ScriptOK, StudyOK, PhaseOf
<1>1. t \in Trial
  <2>1. study[j] \in Study /\ study[j][now[j]] \in Trial
    BY <1>0, Entries
  <2>2. /\ verdict[j].state \in {"COMPLETE", "PRUNED", "FAIL"}
        /\ verdict[j].value \in Value \cup {None}
    BY <1>0 DEF Verdict
  <2> QED
    BY <2>1, <2>2 DEF Trial
<1>2. study' \in [Job -> Study] /\ \A k \in Job : k # j => study'[k] = study[k]
  <2>1. [study[j] EXCEPT ![now[j]] = t] \in Study
    BY <1>0, <1>1, Replaced
  <2> QED
    BY <1>0, <2>1 DEF Tell, Update
<1>3. \/ pc' = [pc EXCEPT ![j] = "exited"]
      \/ done[j] + 1 < Trials[j] /\ pc' = [pc EXCEPT ![j] = "ask"]
  <2>1. Goto(j, IF verdict[j].state = "FAIL" \/ done[j] + 1 = Trials[j] THEN "exited" ELSE "ask")
    BY DEF Tell
  <2>2. done[j] + 1 = Trials[j] \/ done[j] + 1 < Trials[j]
    BY <1>0
  <2> QED
    BY <2>1, <2>2 DEF Goto
<1>4. ScriptOK'
  <2>1. done' \in [Job -> Nat] /\ \A k \in Job : done'[k] <= Trials[k]
    BY <1>0 DEF Tell, TypeInv, TypeOK, ScriptOK
  <2> QED
    BY <1>3, <2>1 DEF Tell, TypeInv, TypeOK, ScriptOK
<1>5. StudyOK'
  BY <1>2 DEF Tell, TypeInv, TypeOK, StudyOK
<1>6. BoundsOK'
  BY DEF Tell, TypeInv, TypeOK, BoundsOK
<1>7. ASSUME NEW k \in Job PROVE PhaseOf(k)'
  <2>1. CASE k = j
    BY <1>0, <1>3, <2>1 DEF Tell, TypeInv, TypeOK, ScriptOK, StudyOK, PhaseOf
  <2>2. CASE k # j
    BY <1>2, <1>3, <2>2 DEF Tell, TypeInv, TypeOK, ScriptOK, StudyOK, PhaseOf
  <2> QED
    BY <2>1, <2>2
<1> QED
  BY <1>4, <1>5, <1>6, <1>7 DEF TypeInv, TypeOK

LEMMA EndOfProcessTyped ==
  ASSUME TypeInv, NEW j \in Job, Die(j) \/ Restart(j)
  PROVE  TypeInv'
<1>0. /\ NoProcess(j)
      /\ UNCHANGED <<ready, copy, waited, mode, attempt, study, tmp, submits, syncs, history>>
      /\ pc[j] \notin {"out", "wait"}
  BY DEF Die, Restart, Working
<1>1. code' \in [Job -> {0, 1, 137}] /\ faults' \in 0..MaxFault
  BY ConstantsAssumption DEF Die, Restart, Fault, TypeInv, TypeOK, ScriptOK, BoundsOK
<1>2. \/ pc' = [pc EXCEPT ![j] = "exited"]
      \/ pc' = [pc EXCEPT ![j] = "launch"] /\ attempt[j] <= MaxRestarts
  BY DEF Die, Restart, MayRestart, Goto
<1>3. ScriptOK'
  BY <1>0, <1>1, <1>2, NoProcessTyped DEF TypeInv, TypeOK, ScriptOK
<1>4. StudyOK'
  BY <1>0, NoProcessTyped DEF TypeInv, TypeOK, StudyOK
<1>5. BoundsOK'
  BY <1>0, <1>1 DEF TypeInv, TypeOK, BoundsOK, history
<1>6. ASSUME NEW k \in Job PROVE PhaseOf(k)'
  <2>1. CASE k = j
    BY <1>0, <1>2, <2>1, TrialsPositive
    DEF NoProcess, TypeInv, TypeOK, ScriptOK, StudyOK, PhaseOf
  <2>2. CASE k # j
    BY <1>0, <1>2, <2>2 DEF NoProcess, TypeInv, TypeOK, ScriptOK, StudyOK, PhaseOf
  <2> QED
    BY <2>1, <2>2
<1> QED
  BY <1>3, <1>4, <1>5, <1>6 DEF TypeInv, TypeOK

LEMMA SyncTyped ==
  ASSUME TypeInv, NEW j \in Job, Backup(j) \/ Move(j)
  PROVE  TypeInv'
<1>0. /\ UNCHANGED <<ready, pc, waited, mode, attempt, code, study, seeds, done, now, mark,
                     verdict, submits, faults, dropped, told, trained>>
      /\ study \in [Job -> Study] /\ tmp \in [Job -> Study \cup {None}]
      /\ copy \in [Job -> Study \cup {None}]
  BY DEF Backup, Move, history, TypeInv, TypeOK, StudyOK
<1>1. /\ tmp' \in [Job -> Study \cup {None}] /\ copy' \in [Job -> Study \cup {None}]
      /\ copy[Seeder] # None => copy'[Seeder] # None
  <2>1. CASE Backup(j)
    <3>1. copy' = copy /\ tmp' = [tmp EXCEPT ![j] = study[j]]
      BY <2>1 DEF Backup
    <3> QED
      BY <1>0, <3>1
  <2>2. CASE Move(j)
    <3>1. /\ tmp[j] # None /\ copy' = [copy EXCEPT ![j] = tmp[j]]
          /\ tmp' = [tmp EXCEPT ![j] = None]
      BY <2>2 DEF Move, Install
    <3> QED
      BY <1>0, <3>1, ConstantsAssumption
  <2> QED
    BY <2>1, <2>2
<1>2. saved' \subseteq Job /\ syncs' \in 0..MaxSync
  <2>1. MaxSync \in Nat /\ syncs \in 0..MaxSync /\ saved \subseteq Job
    BY ConstantsAssumption DEF TypeInv, TypeOK, BoundsOK
  <2>2. (syncs < MaxSync /\ syncs' = syncs + 1) \/ syncs' = syncs
    BY DEF Backup, Move
  <2>3. saved' = saved \/ saved' = saved \cup {j}
    BY DEF Backup, Move, Install, history
  <2>4. syncs' \in 0..MaxSync
    BY <2>1, <2>2
  <2> QED
    BY <2>1, <2>3, <2>4
<1>3. ASSUME NEW k \in Job PROVE PhaseOf(k)'
  <2>1. pc[k] \in {"out", "wait"} => tmp'[k] = None
    BY <1>0 DEF Backup, Move, PhaseOf, TypeInv
  <2> QED
    BY <1>0, <1>1, <2>1 DEF TypeInv, PhaseOf
<1> QED
  BY <1>0, <1>1, <1>2, <1>3 DEF TypeInv, TypeOK, ScriptOK, StudyOK, BoundsOK

LEMMA DepartureTyped ==
  ASSUME TypeInv, NEW j \in Job, Finish(j) \/ HardKill(j)
  PROVE  TypeInv'
<1>0. Leave(j) /\ UNCHANGED <<ready, submits, syncs, dropped, trained>>
  BY DEF Finish, HardKill
<1>1. /\ copy' \in [Job -> Study \cup {None}]
      /\ copy[Seeder] # None => copy'[Seeder] # None
  <2>1. copy \in [Job -> Study \cup {None}] /\ study[j] \in Study
    BY DEF TypeInv, TypeOK, StudyOK
  <2>2. study[j] # None
    BY <2>1, NoneAssumption
  <2>3. copy' = copy \/ copy' = [copy EXCEPT ![j] = study[j]]
    BY DEF Finish, HardKill, Install
  <2> QED
    BY <2>1, <2>2, <2>3, ConstantsAssumption
<1>2. saved' \subseteq Job /\ faults' \in 0..MaxFault
  <2>1. faults \in 0..MaxFault /\ saved \subseteq Job
    BY DEF TypeInv, TypeOK, BoundsOK
  <2>2. Fault \/ faults' = faults
    BY DEF Finish, HardKill
  <2>3. saved' = saved \/ saved' = saved \cup {j}
    BY DEF Finish, HardKill, Install
  <2>4. faults' \in 0..MaxFault
    BY <2>1, <2>2, FaultTyped
  <2> QED
    BY <2>1, <2>3, <2>4
<1>3. StudyOK' /\ ScriptOK' /\ told' \in [Job -> Nat] /\ \A k \in Job : PhaseOf(k)'
  BY <1>0, <1>1, LeaveTyped
<1>4. BoundsOK'
  BY <1>0, <1>2, <1>3 DEF TypeInv, TypeOK, BoundsOK
<1> QED
  BY <1>3, <1>4 DEF TypeInv, TypeOK

(***************************************************************************)
(* Every step, of a script, a worker process or a sync loop, keeps the     *)
(* type invariant.                                                         *)
(***************************************************************************)
THEOREM TypeStep == TypeInv /\ [Next]_vars => TypeInv'
<1> SUFFICES ASSUME TypeInv, [Next]_vars PROVE TypeInv'
  OBVIOUS
<1>1. CASE UNCHANGED vars
  BY <1>1 DEF vars, node, history, TypeInv, TypeOK, ScriptOK, StudyOK, BoundsOK, PhaseOf
<1>2. CASE Warm
  BY <1>2 DEF Warm, node, history, TypeInv, TypeOK, ScriptOK, StudyOK, BoundsOK, PhaseOf
<1>3. ASSUME NEW j \in Job, Step(j) PROVE TypeInv'
  BY <1>3, SleepTyped, ProceedTyped, LaunchTyped, LoadSeedsTyped, SeedTyped, AskTyped,
     SetAttrTyped, TrialTyped, TellTyped, EndOfProcessTyped, DepartureTyped DEF Step
<1>4. ASSUME NEW j \in Job,
             Submit(j) \/ Die(j) \/ HardKill(j) \/ Backup(j) \/ Move(j) PROVE TypeInv'
  BY <1>4, SubmitTyped, EndOfProcessTyped, DepartureTyped, SyncTyped
<1> QED
  BY <1>1, <1>2, <1>3, <1>4 DEF Next

LEMMA Typed == Spec => []TypeInv
BY TypeInit, TypeStep, PTL DEF Spec

(***************************************************************************)
(* The state of the scripts, processes, studies and copies is typed; a     *)
(* worker process is launched at most MAX_RESTARTS_ON_OOM + 1 times and    *)
(* runs at most n_trials trials (big_hp_tuning.sh, hp_tuning.py).          *)
(***************************************************************************)
THEOREM TypeCorrect == Spec => []TypeOK
<1>1. TypeInv => TypeOK
  BY DEF TypeInv
<1> QED
  BY <1>1, Typed, PTL

-----------------------------------------------------------------------------
\* What a trial may say, wherever its study is; T: trainings that completed,
\* d: whether an attribute write was given up.
SoundTrial(t, T, d) ==
  /\ t.state = "COMPLETE" => <<t.params, t.value>> \in T
  /\ (d = FALSE /\ t.state \in {"COMPLETE", "PRUNED", "FAIL"}) =>
       ((t.eligible = "True") <=> (t.state = "COMPLETE"))

Sound(s, T, d) == \A n \in DOMAIN s : SoundTrial(s[n], T, d)

StudiesSound ==
  \A j \in Job : /\ Sound(study[j], trained, dropped)
                 /\ copy[j] # None => Sound(copy[j], trained, dropped)
                 /\ tmp[j] # None => Sound(tmp[j], trained, dropped)

SeedsSound ==
  \A j \in Job : \A x \in seeds[j] :
    /\ x.trial.eligible = "True"
    /\ <<x.trial.params, x.trial.value>> \in trained

\* What the running trial's pending marks and verdict will make of it.
Pending(j) ==
  pc[j] = "mark" =>
    /\ (verdict[j] # None /\ verdict[j].state = "COMPLETE") =>
         <<study[j][now[j]].params, verdict[j].value>> \in trained
    /\ (mark[j] # None /\ verdict[j] = None) => mark[j] = "False"
    /\ (mark[j] # None /\ verdict[j] # None) =>
         ((mark[j] = "True") <=> (verdict[j].state = "COMPLETE"))
    /\ (dropped = FALSE /\ mark[j] = None /\ verdict[j] = None) =>
         study[j][now[j]].eligible # "True"
    /\ (dropped = FALSE /\ mark[j] = None /\ verdict[j] # None) =>
         ((study[j][now[j]].eligible = "True") <=> (verdict[j].state = "COMPLETE"))

SoundInv == StudiesSound /\ SeedsSound /\ \A j \in Job : Pending(j)

\* The history only grows.
Grows == trained \subseteq trained' /\ (dropped' = FALSE => dropped = FALSE)

\* Steps that move whole studies, drop one, or end a process.
Moves ==
  /\ trained' = trained /\ dropped' = dropped
  /\ \A k \in Job :
       /\ study'[k] = study[k] \/ study'[k] = <<>>
       /\ \/ copy'[k] = copy[k]
          \/ copy'[k] = study[k]
          \/ copy'[k] = tmp[k] /\ tmp[k] # None
       /\ tmp'[k] = tmp[k] \/ tmp'[k] = study[k] \/ tmp'[k] = None
       /\ seeds'[k] \subseteq seeds[k]
       /\ pc'[k] = "mark" => /\ pc[k] = "mark" /\ study'[k] = study[k] /\ now'[k] = now[k]
                             /\ mark'[k] = mark[k] /\ verdict'[k] = verdict[k]

LEMMA SoundGrows ==
  ASSUME Grows, NEW s, Sound(s, trained, dropped)
  PROVE  Sound(s, trained', dropped')
BY DEF Grows, Sound, SoundTrial

LEMMA SoundEmpty == Sound(<<>>, trained, dropped)
BY EmptyStudy DEF Sound

LEMMA MovesSound ==
  ASSUME SoundInv, Moves
  PROVE  SoundInv'
<1>1. StudiesSound'
  BY SoundEmpty DEF SoundInv, StudiesSound, Moves
<1>2. SeedsSound'
  BY DEF SoundInv, SeedsSound, Moves
<1>3. \A j \in Job : Pending(j)'
  BY DEF SoundInv, Pending, Moves
<1> QED
  BY <1>1, <1>2, <1>3 DEF SoundInv

LEMMA LeaveMoves ==
  ASSUME TypeInv, NEW j \in Job, Leave(j)
  PROVE  \A k \in Job :
           /\ study'[k] = study[k] \/ study'[k] = <<>>
           /\ tmp'[k] = tmp[k] \/ tmp'[k] = study[k] \/ tmp'[k] = None
           /\ seeds'[k] \subseteq seeds[k]
           /\ pc'[k] = "mark" => /\ pc[k] = "mark" /\ study'[k] = study[k] /\ now'[k] = now[k]
                                 /\ mark'[k] = mark[k] /\ verdict'[k] = verdict[k]
BY DEF Leave, NoProcess, Goto, TypeInv, TypeOK, ScriptOK, StudyOK

LEMMA ScriptMoves ==
  ASSUME TypeInv, NEW j \in Job,
         \/ Submit(j) \/ Sleep(j) \/ Proceed(j) \/ Launch(j) \/ Die(j) \/ Restart(j)
         \/ Backup(j) \/ Move(j) \/ Finish(j) \/ HardKill(j)
  PROVE  Moves
<1> USE DEF TypeInv, TypeOK, ScriptOK, StudyOK
<1>1. CASE Submit(j)
  BY <1>1 DEF Submit, Goto, node, Moves
<1>2. CASE Sleep(j)
  <2>1. CASE waited[j] + 1 >= MaxWait
    BY <1>2, <2>1, LeaveMoves DEF Sleep, Moves
  <2>2. CASE ~(waited[j] + 1 >= MaxWait)
    BY <1>2, <2>2 DEF Sleep, Moves
  <2> QED
    BY <2>1, <2>2
<1>3. CASE Proceed(j)
  BY <1>3 DEF Proceed, Goto, history, Moves
<1>4. CASE Launch(j)
  BY <1>4 DEF Launch, Goto, history, Moves
<1>5. CASE Die(j) \/ Restart(j)
  BY <1>5 DEF Die, Restart, Goto, NoProcess, history, Moves
<1>6. CASE Backup(j)
  BY <1>6 DEF Backup, history, Moves
<1>7. CASE Move(j)
  BY <1>7 DEF Move, Install, Moves
<1>8. CASE Finish(j)
  <2>1. copy' = copy \/ copy' = [copy EXCEPT ![j] = study[j]]
    BY <1>8 DEF Finish, Install
  <2>2. Leave(j) /\ trained' = trained /\ dropped' = dropped
    BY <1>8 DEF Finish
  <2> QED
    BY <2>1, <2>2, LeaveMoves DEF Moves
<1>9. CASE HardKill(j)
  BY <1>9, LeaveMoves DEF HardKill, Moves
<1> QED
  BY <1>1, <1>2, <1>3, <1>4, <1>5, <1>6, <1>7, <1>8, <1>9

-----------------------------------------------------------------------------
\* Steps of one process, which leave copies and the other jobs alone.
Local(j) ==
  /\ UNCHANGED <<copy, tmp>>
  /\ \A k \in Job : k # j =>
       /\ study'[k] = study[k] /\ seeds'[k] \subseteq seeds[k] /\ pc'[k] = pc[k]
       /\ now'[k] = now[k] /\ mark'[k] = mark[k] /\ verdict'[k] = verdict[k]

LEMMA LocalSound ==
  ASSUME TypeInv, SoundInv, Grows, NEW j \in Job, Local(j),
         Sound(study'[j], trained', dropped'), Pending(j)',
         \A x \in seeds'[j] : /\ x.trial.eligible = "True"
                              /\ <<x.trial.params, x.trial.value>> \in trained'
  PROVE  SoundInv'
<1>1. StudiesSound'
  BY SoundGrows DEF SoundInv, StudiesSound, Local
<1>2. SeedsSound'
  BY DEF SoundInv, SeedsSound, Local, Grows
<1>3. ASSUME NEW k \in Job PROVE Pending(k)'
  <2>1. CASE k = j
    BY <2>1
  <2>2. CASE k # j
    BY <2>2 DEF SoundInv, Pending, Local, Grows
  <2> QED
    BY <2>1, <2>2
<1> QED
  BY <1>1, <1>2, <1>3 DEF SoundInv

\* A sound trial more, or a sound trial instead of another.
LEMMA SoundAppend ==
  ASSUME NEW s \in Study, NEW t \in Trial, NEW T, NEW d, Sound(s, T, d), SoundTrial(t, T, d)
  PROVE  Sound(Append(s, t), T, d)
BY Appended DEF Sound

LEMMA SoundReplace ==
  ASSUME NEW s \in Study, NEW n \in DOMAIN s, NEW t \in Trial, NEW T, NEW d,
         Sound(s, T, d), SoundTrial(t, T, d)
  PROVE  Sound([s EXCEPT ![n] = t], T, d)
BY Replaced DEF Sound

\* Typed and sound, as every local step finds its study.
LEMMA Here ==
  ASSUME TypeInv, SoundInv, NEW j \in Job
  PROVE  /\ study \in [Job -> Study] /\ study[j] \in Study
         /\ Sound(study[j], trained, dropped)
         /\ mark \in [Job -> {"True", "False", None}] /\ now \in [Job -> Nat]
         /\ verdict \in [Job -> Verdict \cup {None}] /\ pc = [k \in Job |-> pc[k]]
         /\ seeds \in [Job -> SUBSET Source]
         /\ pc[j] = "mark" => /\ now[j] \in DOMAIN study[j] /\ study[j][now[j]] \in Trial
                              /\ study[j][now[j]].state = "RUNNING"
<1>1. /\ study \in [Job -> Study] /\ study[j] \in Study
      /\ mark \in [Job -> {"True", "False", None}] /\ now \in [Job -> Nat]
      /\ verdict \in [Job -> Verdict \cup {None}] /\ seeds \in [Job -> SUBSET Source]
  BY DEF TypeInv, TypeOK, StudyOK
<1>2. pc = [k \in Job |-> pc[k]]
  BY DEF TypeInv, TypeOK, ScriptOK
<1>3. Sound(study[j], trained, dropped)
  BY DEF SoundInv, StudiesSound
<1>4. pc[j] = "mark" => now[j] \in DOMAIN study[j] /\ study[j][now[j]].state = "RUNNING"
  BY DEF TypeInv, PhaseOf
<1> QED
  BY <1>1, <1>2, <1>3, <1>4, Entries

LEMMA LoadSeedsSound ==
  ASSUME TypeInv, SoundInv, NEW j \in Job, LoadSeeds(j)
  PROVE  SoundInv'
<1>1. copy[Seeder] \in Study /\ Sound(copy[Seeder], trained, dropped)
  <2>1. Seeder \in Job /\ copy[Seeder] # None
    BY ConstantsAssumption DEF LoadSeeds, TypeInv, PhaseOf
  <2>2. copy[Seeder] \in Study
    BY <2>1 DEF TypeInv, TypeOK, StudyOK
  <2> QED
    BY <2>1, <2>2 DEF SoundInv, StudiesSound
<1>2. /\ pc[j] = "load" /\ seeds' = [seeds EXCEPT ![j] = Top(copy[Seeder])] /\ Goto(j, "seed")
      /\ UNCHANGED <<copy, study, now, mark, verdict, tmp, trained, dropped>>
  BY DEF LoadSeeds, history
<1>3. \A x \in seeds'[j] : /\ x.trial.eligible = "True"
                           /\ <<x.trial.params, x.trial.value>> \in trained'
  <2> SUFFICES ASSUME NEW x \in Top(copy[Seeder])
               PROVE  x.trial.eligible = "True" /\ <<x.trial.params, x.trial.value>> \in trained
    BY <1>2, Here
  <2>1. /\ x.trial.state = "COMPLETE" /\ x.trial.eligible = "True"
        /\ x.number \in DOMAIN copy[Seeder] /\ x.trial = copy[Seeder][x.number]
    BY <1>1, SeedsTyped
  <2>2. SoundTrial(x.trial, trained, dropped)
    BY <1>1, <2>1 DEF Sound
  <2> QED
    BY <2>1, <2>2 DEF SoundTrial
<1>4. Local(j) /\ Grows /\ Pending(j)'
  BY <1>2, Here DEF Local, Grows, Goto, Pending
<1>5. Sound(study'[j], trained', dropped')
  BY <1>2, Here
<1> QED
  BY <1>3, <1>4, <1>5, LocalSound

\* What is taken over from a sound source is sound.
LEMMA TakenOverSound ==
  ASSUME NEW x \in Source, x.trial.eligible = "True",
         <<x.trial.params, x.trial.value>> \in trained
  PROVE  SoundTrial(Imported(x), trained, dropped) /\ SoundTrial(Enqueued(x), trained, dropped)
BY DEF Source, Trial, Imported, Enqueued, SoundTrial

LEMMA SeedSound ==
  ASSUME TypeInv, SoundInv, NEW j \in Job, Seed(j)
  PROVE  SoundInv'
<1>0. /\ UNCHANGED <<copy, now, mark, verdict, tmp, trained, dropped>> /\ pc[j] = "seed"
      /\ \A x \in seeds[j] : /\ x.trial.eligible = "True"
                             /\ <<x.trial.params, x.trial.value>> \in trained
  BY DEF Seed, history, SoundInv, SeedsSound
<1>1. Grows
  BY <1>0 DEF Grows
<1>2. CASE seeds[j] = {} /\ Goto(j, "ask") /\ UNCHANGED <<study, seeds>>
  <2>1. Local(j) /\ Pending(j)' /\ Sound(study'[j], trained', dropped')
    BY <1>0, <1>2, Here DEF Local, Goto, Pending
  <2> QED
    BY <1>0, <1>1, <1>2, <2>1, LocalSound
<1>3. CASE \E x \in seeds[j] : /\ TakeOver(j, x)
                               /\ seeds' = [seeds EXCEPT ![j] = @ \ {x}]
                               /\ UNCHANGED pc
  <2> PICK x \in seeds[j] : /\ TakeOver(j, x)
                            /\ seeds' = [seeds EXCEPT ![j] = @ \ {x}]
                            /\ UNCHANGED pc
    BY <1>3
  <2>1. x \in Source
    BY Here
  <2>2. study'[j] \in {study[j], Append(study[j], Imported(x)), Append(study[j], Enqueued(x))}
    BY Here DEF TakeOver
  <2>3. Sound(study'[j], trained', dropped')
    BY <1>0, <2>1, <2>2, Here, TakenOver, TakenOverSound, SoundAppend
  <2>4. \A k \in Job : k # j => study'[k] = study[k]
    BY <2>1, TakeOverTyped
  <2>5. Local(j) /\ Pending(j)'
    BY <1>0, <2>4, Here DEF Local, Pending
  <2>6. \A y \in seeds'[j] : /\ y.trial.eligible = "True"
                             /\ <<y.trial.params, y.trial.value>> \in trained'
    BY <1>0, Here
  <2> QED
    BY <1>1, <2>3, <2>5, <2>6, LocalSound
<1> QED
  BY <1>2, <1>3 DEF Seed

LEMMA AskSound ==
  ASSUME TypeInv, SoundInv, NEW j \in Job, Ask(j)
  PROVE  SoundInv'
<1>0. /\ pc[j] = "ask" /\ Goto(j, "mark") /\ mark' = [mark EXCEPT ![j] = Mark("running")]
      /\ UNCHANGED <<copy, seeds, verdict, tmp, trained, dropped>>
      /\ verdict[j] = None
  BY DEF Ask, history, TypeInv, PhaseOf
<1>1. Grows
  BY <1>0 DEF Grows
<1>2. /\ Sound(study'[j], trained', dropped')
      /\ \A k \in Job : k # j => study'[k] = study[k] /\ now'[k] = now[k]
  <2>1. CASE Waiting(j) # {}
    <3> PICK n \in Waiting(j) : /\ Update(j, n, [study[j][n] EXCEPT !.state = "RUNNING"])
                                /\ now' = [now EXCEPT ![j] = n]
      BY <2>1 DEF Ask
    <3> DEFINE t == [study[j][n] EXCEPT !.state = "RUNNING"]
    <3>1. n \in DOMAIN study[j] /\ study[j][n] \in Trial
      BY Here, Entries DEF Waiting, Numbers
    <3>2. t \in Trial /\ SoundTrial(t, trained, dropped)
      BY <3>1 DEF Trial, SoundTrial
    <3>3. Sound([study[j] EXCEPT ![n] = t], trained, dropped)
      BY <3>1, <3>2, Here, SoundReplace
    <3> QED
      BY <1>0, <3>3, Here DEF Update
  <2>2. CASE ~(Waiting(j) # {})
    <3> PICK p \in Params :
          /\ study' = [study EXCEPT ![j] = Append(@,
               [params |-> p, state |-> "RUNNING", value |-> None, eligible |-> None,
                source |-> None])]
          /\ now' = [now EXCEPT ![j] = Len(study[j]) + 1]
      BY <2>2 DEF Ask
    <3> DEFINE t == [params |-> p, state |-> "RUNNING", value |-> None, eligible |-> None,
                     source |-> None]
    <3>1. t \in Trial /\ SoundTrial(t, trained, dropped)
      BY DEF Trial, SoundTrial
    <3>2. Sound(Append(study[j], t), trained, dropped)
      BY <3>1, Here, SoundAppend
    <3> QED
      BY <1>0, <3>2, Here
  <2> QED
    BY <2>1, <2>2
<1>3. mark'[j] = "False" /\ verdict'[j] = None
  BY <1>0, Here DEF Mark
<1>4. Local(j)
  BY <1>0, <1>2, Here DEF Local, Goto
<1>5. Pending(j)'
  BY <1>3, ConstantsAssumption DEF Pending
<1> QED
  BY <1>0, <1>1, <1>2, <1>4, <1>5, LocalSound DEF SoundInv, SeedsSound

LEMMA SetAttrSound ==
  ASSUME TypeInv, SoundInv, NEW j \in Job, SetAttr(j)
  PROVE  SoundInv'
<1>0. /\ pc[j] = "mark" /\ mark[j] # None /\ mark' = [mark EXCEPT ![j] = None]
      /\ UNCHANGED <<copy, pc, seeds, now, verdict, tmp, trained>>
      /\ Pending(j)
  BY DEF SetAttr, SoundInv
<1> DEFINE t == [study[j][now[j]] EXCEPT !.eligible = mark[j]]
<1>1. CASE Update(j, now[j], t) /\ UNCHANGED dropped
  <2>1. t \in Trial /\ t.eligible = mark[j] /\ t.params = study[j][now[j]].params
        /\ SoundTrial(t, trained, dropped)
    BY <1>0, Here DEF Trial, SoundTrial
  <2>2. study' = [study EXCEPT ![j] = [study[j] EXCEPT ![now[j]] = t]]
    BY <1>1 DEF Update
  <2>3. Sound(study'[j], trained', dropped') /\ study'[j][now[j]] = t
    BY <1>0, <1>1, <2>1, <2>2, Here, SoundReplace, Replaced
  <2>4. Local(j) /\ Grows
    BY <1>0, <1>1, <2>2, Here DEF Local, Grows
  <2>5. Pending(j)'
    BY <1>0, <1>1, <2>1, <2>3, Here, ConstantsAssumption DEF Pending
  <2> QED
    BY <1>0, <2>3, <2>4, <2>5, LocalSound DEF SoundInv, SeedsSound
<1>2. CASE dropped' = TRUE /\ UNCHANGED study
  <2>1. Local(j) /\ Grows /\ Pending(j)'
    BY <1>0, <1>2, Here DEF Local, Grows, Pending
  <2>2. Sound(study'[j], trained', dropped')
    BY <1>2, <2>1, SoundGrows, Here
  <2> QED
    BY <1>0, <2>1, <2>2, LocalSound DEF SoundInv, SeedsSound
<1> QED
  BY <1>1, <1>2 DEF SetAttr

\* An objective that marks what its result will be keeps the invariant.
LEMMA EndsSound ==
  ASSUME TypeInv, SoundInv, NEW j \in Job, NEW m \in {"True", "False", None},
         NEW state \in {"COMPLETE", "PRUNED", "FAIL"}, NEW v \in Value \cup {None},
         Marked(j), verdict[j] = None, Ends(j, m, state, v), trained \subseteq trained',
         m = "True" <=> state = "COMPLETE",
         state = "COMPLETE" => <<study[j][now[j]].params, v>> \in trained'
  PROVE  SoundInv'
<1>0. /\ pc[j] = "mark" /\ mark[j] = None /\ Pending(j)
      /\ UNCHANGED <<copy, study, seeds, now, tmp, dropped>> /\ Goto(j, "mark")
      /\ mark' = [mark EXCEPT ![j] = m]
      /\ verdict' = [verdict EXCEPT ![j] = [state |-> state, value |-> v]]
  BY DEF Ends, Marked, SoundInv
<1>1. Grows /\ Local(j)
  BY <1>0, Here DEF Grows, Local, Goto
<1>2. mark'[j] = m /\ verdict'[j].state = state /\ verdict'[j].value = v
  BY <1>0, Here
<1>3. Pending(j)'
  <2>1. verdict'[j] # None
    BY <1>0, Here, NoneAssumption DEF Verdict
  <2>2. (study'[j] = study[j]) /\ (now'[j] = now[j]) /\ (dropped' = dropped)
    BY <1>0
  <2>3. (mark'[j] = "True") <=> (verdict'[j].state = "COMPLETE")
    BY <1>2
  <2>5. (dropped' = FALSE /\ m = None) =>
          ((study'[j][now'[j]].eligible = "True") <=> (verdict'[j].state = "COMPLETE"))
    BY <1>0, <1>2, <2>2, <2>3, ConstantsAssumption DEF Pending
  <2> QED
    BY <1>2, <2>1, <2>2, <2>3, <2>5 DEF Pending
<1>4. Sound(study'[j], trained', dropped')
  BY <1>0, <1>1, SoundGrows, Here
<1> QED
  BY <1>0, <1>1, <1>3, <1>4, LocalSound DEF SoundInv, SeedsSound, Grows

LEMMA TrialSound ==
  ASSUME TypeInv, SoundInv, NEW j \in Job,
         HardPrune(j) \/ FitCompletes(j) \/ FitRunsOutOfMemory(j) \/ FitIsPruned(j) \/ FitRaises(j)
  PROVE  SoundInv'
<1>0. None \notin {"True", "False"}
  BY ConstantsAssumption
<1>1. CASE HardPrune(j)
  BY <1>1, EndsSound DEF HardPrune, Mark
<1>2. CASE FitCompletes(j)
  <2> PICK v \in Value : /\ Ends(j, Mark("completed"), "COMPLETE", v)
                         /\ trained' = trained \cup {<<study[j][now[j]].params, v>>}
    BY <1>2 DEF FitCompletes
  <2> QED
    BY <1>2, EndsSound DEF FitCompletes, Fitting, Mark
<1>3. CASE FitRunsOutOfMemory(j)
  BY <1>3, EndsSound DEF FitRunsOutOfMemory, Fitting, Mark
<1>4. CASE FitIsPruned(j)
  BY <1>0, <1>4, EndsSound DEF FitIsPruned, Fitting
<1>5. CASE FitRaises(j)
  BY <1>0, <1>5, EndsSound DEF FitRaises, Fitting
<1> QED
  BY <1>1, <1>2, <1>3, <1>4, <1>5

LEMMA TellSound ==
  ASSUME TypeInv, SoundInv, NEW j \in Job, Tell(j)
  PROVE  SoundInv'
<1> DEFINE t == [study[j][now[j]] EXCEPT !.state = verdict[j].state, !.value = verdict[j].value]
<1>0. /\ pc[j] = "mark" /\ mark[j] = None /\ verdict[j] # None /\ Pending(j)
      /\ UNCHANGED <<copy, seeds, mark, tmp, dropped, trained>>
      /\ Update(j, now[j], t) /\ now' = [now EXCEPT ![j] = 0]
      /\ verdict' = [verdict EXCEPT ![j] = None]
      /\ pc' = [pc EXCEPT ![j] = "exited"] \/ pc' = [pc EXCEPT ![j] = "ask"]
  BY DEF Tell, Marked, Goto, SoundInv
<1>1. verdict[j] \in Verdict
  BY <1>0, Here
<1>2. t \in Trial
  <2>1. study[j][now[j]] \in Trial
    BY <1>0, Here
  <2>2. /\ verdict[j].state \in {"COMPLETE", "PRUNED", "FAIL"}
        /\ verdict[j].value \in Value \cup {None}
    BY <1>1 DEF Verdict
  <2> QED
    BY <2>1, <2>2 DEF Trial
<1>3. SoundTrial(t, trained, dropped)
  <2>1. /\ t.state = verdict[j].state /\ t.value = verdict[j].value
        /\ t.params = study[j][now[j]].params /\ t.eligible = study[j][now[j]].eligible
    BY <1>0, <1>1, Here DEF Trial, Verdict
  <2> QED
    BY <1>0, <2>1 DEF Pending, SoundTrial
<1>4. Sound(study'[j], trained', dropped')
  BY <1>0, <1>2, <1>3, Here, SoundReplace DEF Update
<1>5. Local(j) /\ Grows /\ Pending(j)'
  BY <1>0, Here DEF Local, Grows, Update, Pending
<1> QED
  BY <1>0, <1>4, <1>5, LocalSound DEF SoundInv, SeedsSound

-----------------------------------------------------------------------------
LEMMA SoundInit == Init => SoundInv
BY SoundEmpty DEF Init, SoundInv, StudiesSound, SeedsSound, Pending

LEMMA SoundStep == TypeInv /\ SoundInv /\ [Next]_vars => SoundInv'
<1> SUFFICES ASSUME TypeInv, SoundInv, [Next]_vars PROVE SoundInv'
  OBVIOUS
<1>1. CASE UNCHANGED vars \/ Warm
  <2>1. Moves
    BY <1>1 DEF Warm, vars, node, history, Moves
  <2> QED
    BY <2>1, MovesSound
<1>2. ASSUME NEW j \in Job, Step(j) PROVE SoundInv'
  BY <1>2, ScriptMoves, MovesSound, LoadSeedsSound, SeedSound, AskSound, SetAttrSound,
     TrialSound, TellSound DEF Step
<1>3. ASSUME NEW j \in Job,
             Submit(j) \/ Die(j) \/ HardKill(j) \/ Backup(j) \/ Move(j) PROVE SoundInv'
  BY <1>3, ScriptMoves, MovesSound
<1> QED
  BY <1>1, <1>2, <1>3 DEF Next

LEMMA AlwaysSound == Spec => [](TypeInv /\ SoundInv)
BY TypeInit, TypeStep, SoundInit, SoundStep, PTL DEF Spec

\* What holds of each study holds of all the studies there are.
LEMMA StudiesAre ==
  ASSUME SoundInv, NEW s \in Studies
  PROVE  Sound(s, trained, dropped)
BY DEF Studies, SoundInv, StudiesSound

(***************************************************************************)
(* The value of a completed trial, run, enqueued or imported, in any study *)
(* or copy, is one that a training to the end gave its parameters          *)
(* (hp_tuning.py, _seed_study_from_best).                                  *)
(***************************************************************************)
THEOREM CompletedValuesEarned == Spec => []ValuesEarned
<1>1. SoundInv => ValuesEarned
  BY StudiesAre DEF ValuesEarned, Sound, SoundTrial, Numbers
<1> QED
  BY <1>1, AlwaysSound, PTL

(***************************************************************************)
(* Unless an attribute write was given up, a finished trial is             *)
(* selection_eligible exactly if it completed, in every study and copy,    *)
(* whatever was killed or copied when (_mark_trial_outcome).               *)
(***************************************************************************)
THEOREM EligibilityIsCompletion == Spec => []EligibleMeansCompleted
<1>1. TypeInv /\ SoundInv => EligibleMeansCompleted
  <2> SUFFICES ASSUME TypeInv, SoundInv, ~dropped, NEW s \in Studies, NEW n \in Finished(s)
               PROVE  (s[n].eligible = "True") <=> (s[n].state = "COMPLETE")
    BY DEF EligibleMeansCompleted
  <2>1. dropped = FALSE
    BY DEF TypeInv, TypeOK, BoundsOK
  <2> QED
    BY <2>1, StudiesAre DEF Sound, SoundTrial, Finished, Numbers
<1> QED
  BY <1>1, AlwaysSound, PTL
-----------------------------------------------------------------------------
\* No two trials of s come from a seed and have the same parameters.
Once(s) ==
  \A m, n \in DOMAIN s :
    s[m].source # None /\ s[n].source # None /\ s[m].params = s[n].params => m = n

\* What s took over are observations, which are never run.
Observed(s) == \A n \in DOMAIN s : s[n].source # None => s[n].state = "COMPLETE"

\* t is s after steps of a worker that was seeded in mode m.
Extends(s, t, m) ==
  /\ Kept(s, t)
  /\ m = "enqueue" /\ Once(s) => Once(t)
  /\ m = "import" /\ Observed(s) => Observed(t)

\* The finished trials that are not observations of stage 1.
Run(s, m) == {n \in Finished(s) : s[n].source = None \/ m # "import"}

LEMMA ExtendsSame == ASSUME NEW s, NEW m PROVE Extends(s, s, m)
BY DEF Extends, Kept, Finished, Numbers

LEMMA ExtendsAppend ==
  ASSUME NEW s \in Study, NEW t \in Trial, NEW m,
         \/ t.source = None
         \/ m = "import" /\ t.state = "COMPLETE"
         \/ m # "import" /\ \A n \in DOMAIN s : s[n].params # t.params
  PROVE  Extends(s, Append(s, t), m)
<1>1. /\ DOMAIN Append(s, t) = (DOMAIN s) \cup {Len(s) + 1} /\ Append(s, t)[Len(s) + 1] = t
      /\ \A n \in DOMAIN s : Append(s, t)[n] = s[n]
  BY Appended
<1>2. Kept(s, Append(s, t))
  BY <1>1 DEF Kept, Finished, Numbers
<1>3. m = "enqueue" /\ Once(s) => Once(Append(s, t))
  BY <1>1 DEF Once
<1>4. m = "import" /\ Observed(s) => Observed(Append(s, t))
  BY <1>1 DEF Observed
<1> QED
  BY <1>2, <1>3, <1>4 DEF Extends

LEMMA ExtendsReplace ==
  ASSUME NEW s \in Study, NEW n \in DOMAIN s, NEW t \in Trial, NEW m,
         s[n].state \in {"WAITING", "RUNNING"},
         t.source = s[n].source, t.params = s[n].params
  PROVE  Extends(s, [s EXCEPT ![n] = t], m)
<1> DEFINE r == [s EXCEPT ![n] = t]
<1>1. DOMAIN r = DOMAIN s /\ r[n] = t /\ \A i \in (DOMAIN s) \ {n} : r[i] = s[i]
  BY Replaced
<1> HIDE DEF r
<1>2. Kept(s, r)
  BY <1>1 DEF Kept, Finished, Numbers
<1>3. m = "enqueue" /\ Once(s) => Once(r)
  <2>1. \A i \in DOMAIN s : r[i].source = s[i].source /\ r[i].params = s[i].params
    BY <1>1
  <2> QED
    BY <1>1, <2>1 DEF Once
<1>4. m = "import" /\ Observed(s) => Observed(r)
  BY <1>1 DEF Observed
<1> QED
  BY <1>2, <1>3, <1>4 DEF Extends, r

\* What was run stays run, and a trial that finishes is one more.
LEMMA RunFinite ==
  ASSUME NEW s \in Study, NEW m
  PROVE  IsFiniteSet(Run(s, m)) /\ Cardinality(Run(s, m)) \in Nat
<1>1. Len(s) \in Nat /\ DOMAIN s = 1..Len(s)
  BY DEF Study
<1>2. IsFiniteSet(1..Len(s))
  BY <1>1, FS_Interval
<1>3. Run(s, m) \subseteq 1..Len(s)
  BY <1>1 DEF Run, Finished, Numbers
<1> QED
  BY <1>2, <1>3, FS_Subset, FS_CardinalityType

LEMMA RunGrows ==
  ASSUME NEW s \in Study, NEW t \in Study, NEW m, Kept(s, t)
  PROVE  /\ Cardinality(Run(s, m)) <= Cardinality(Run(t, m))
         /\ \A n \in Run(t, m) \ Run(s, m) : Cardinality(Run(s, m)) + 1 <= Cardinality(Run(t, m))
<1>1. Run(s, m) \subseteq Run(t, m)
  BY DEF Run, Kept, Finished, Numbers
<1>2. IsFiniteSet(Run(s, m)) /\ IsFiniteSet(Run(t, m))
  BY RunFinite
<1>3. Cardinality(Run(s, m)) <= Cardinality(Run(t, m))
  BY <1>1, <1>2, FS_Subset
<1>4. ASSUME NEW n \in Run(t, m) \ Run(s, m)
      PROVE  Cardinality(Run(s, m)) + 1 <= Cardinality(Run(t, m))
  <2>1. Cardinality(Run(s, m) \cup {n}) = Cardinality(Run(s, m)) + 1
    BY <1>2, FS_AddElement
  <2>2. Run(s, m) \cup {n} \subseteq Run(t, m)
    BY <1>1
  <2>3. Cardinality(Run(s, m) \cup {n}) <= Cardinality(Run(t, m))
    BY <1>2, <2>2, FS_Subset
  <2> QED
    BY <2>1, <2>3
<1> QED
  BY <1>3, <1>4

-----------------------------------------------------------------------------
\* A study fits the mode in which its worker is seeded.
ModeInv ==
  \A j \in Job : /\ mode[j] = "enqueue" => Once(study[j])
                 /\ mode[j] = "import" => Observed(study[j])

\* What was told since the job began is in the study, unless the study is
\* in the memory of a process.
ToldInv ==
  \A j \in Job : /\ pc[j] \in {"out", "wait"} => told[j] = 0
                 /\ ~InMemory => told[j] <= Cardinality(Run(study[j], mode[j]))

\* A backup is behind its study, and so is what the submission saved, which
\* is behind the backup too.
CopyInv ==
  /\ InMemory => saved = {} /\ \A j \in Job : tmp[j] = None
  /\ \A j \in Job :
       /\ tmp[j] # None => Kept(tmp[j], study[j])
       /\ (j \in saved /\ pc[j] # "out") =>
            /\ copy[j] # None
            /\ Kept(copy[j], study[j])
            /\ tmp[j] # None => Kept(copy[j], tmp[j])

StudyInv == ModeInv /\ ToldInv /\ CopyInv

LEMMA EmptyFits ==
  Once(<<>>) /\ Observed(<<>>) /\ \A m : Cardinality(Run(<<>>, m)) \in Nat
BY EmptyStudy, RunFinite DEF Once, Observed

LEMMA KeptTrans ==
  ASSUME NEW s, NEW t, NEW u, Kept(s, t), Kept(t, u) PROVE Kept(s, u)
BY DEF Kept, Finished, Numbers

LEMMA KeptSame == ASSUME NEW s PROVE Kept(s, s)
BY DEF Kept, Finished, Numbers

LEMMA StudyInit == Init => StudyInv
<1> SUFFICES ASSUME Init PROVE StudyInv
  OBVIOUS
<1>1. \A j \in Job : study[j] = <<>> /\ mode[j] = "none" /\ told[j] = 0 /\ tmp[j] = None
  BY DEF Init
<1>2. ModeInv
  BY <1>1 DEF ModeInv
<1>3. ToldInv
  BY <1>1, EmptyFits DEF ToldInv
<1>4. CopyInv
  BY <1>1 DEF Init, CopyInv
<1> QED
  BY <1>2, <1>3, <1>4 DEF StudyInv

\* The steps of a worker that change its study.
Writes(j) == Seed(j) \/ Ask(j) \/ SetAttr(j) \/ Tell(j)

LEMMA SeedExtends ==
  ASSUME TypeInv, NEW j \in Job, Seed(j)
  PROVE  Extends(study[j], study'[j], mode[j])
<1>1. CASE UNCHANGED study
  BY <1>1, ExtendsSame
<1>2. CASE \E x \in seeds[j] : TakeOver(j, x)
  <2> PICK x \in seeds[j] : TakeOver(j, x)
    BY <1>2
  <2>1. x \in Source /\ study \in [Job -> Study]
    BY DEF TypeInv, TypeOK, StudyOK
  <2>2. /\ Imported(x) \in Trial /\ Enqueued(x) \in Trial /\ Imported(x).state = "COMPLETE"
        /\ Enqueued(x).params = x.trial.params
    BY <2>1, TakenOver DEF Imported, Enqueued, Source, Trial
  <2>3. CASE mode[j] = "import"
    <3>1. study'[j] = Append(study[j], Imported(x))
      BY <2>1, <2>3 DEF TakeOver
    <3> QED
      BY <2>1, <2>2, <2>3, <3>1, ExtendsAppend
  <2>4. CASE mode[j] # "import"
    <3>1. \/ study'[j] = study[j]
          \/ /\ study'[j] = Append(study[j], Enqueued(x))
             /\ \A n \in DOMAIN study[j] : study[j][n].params # x.trial.params
      BY <2>1, <2>4 DEF TakeOver, Numbers
    <3> QED
      BY <2>1, <2>2, <2>4, <3>1, ExtendsAppend, ExtendsSame
  <2> QED
    BY <2>3, <2>4
<1> QED
  BY <1>1, <1>2 DEF Seed

LEMMA AskExtends ==
  ASSUME TypeInv, NEW j \in Job, Ask(j)
  PROVE  Extends(study[j], study'[j], mode[j])
<1>0. study \in [Job -> Study]
  BY DEF TypeInv, TypeOK, StudyOK
<1>1. CASE Waiting(j) # {}
  <2> PICK n \in Waiting(j) : Update(j, n, [study[j][n] EXCEPT !.state = "RUNNING"])
    BY <1>1 DEF Ask
  <2> DEFINE t == [study[j][n] EXCEPT !.state = "RUNNING"]
  <2>1. n \in DOMAIN study[j] /\ study[j][n] \in Trial /\ study[j][n].state = "WAITING"
    BY <1>0, Entries DEF Waiting, Numbers
  <2>2. t \in Trial /\ t.source = study[j][n].source /\ t.params = study[j][n].params
    BY <2>1 DEF Trial
  <2>3. study'[j] = [study[j] EXCEPT ![n] = t]
    BY <1>0 DEF Update
  <2> HIDE DEF t
  <2> QED
    BY <1>0, <2>1, <2>2, <2>3, ExtendsReplace
<1>2. CASE ~(Waiting(j) # {})
  <2> PICK p \in Params : study' = [study EXCEPT ![j] = Append(@,
               [params |-> p, state |-> "RUNNING", value |-> None, eligible |-> None,
                source |-> None])]
    BY <1>2 DEF Ask
  <2> DEFINE t == [params |-> p, state |-> "RUNNING", value |-> None, eligible |-> None,
                   source |-> None]
  <2>1. t \in Trial /\ t.source = None
    BY DEF Trial
  <2>2. study'[j] = Append(study[j], t)
    BY <1>0
  <2> HIDE DEF t
  <2> QED
    BY <1>0, <2>1, <2>2, ExtendsAppend
<1> QED
  BY <1>1, <1>2

\* The running trial, whatever of it is changed but where it comes from.
LEMMA RunningExtends ==
  ASSUME TypeInv, NEW j \in Job, pc[j] = "mark", NEW t \in Trial,
         Update(j, now[j], t),
         t.source = study[j][now[j]].source, t.params = study[j][now[j]].params
  PROVE  /\ Extends(study[j], study'[j], mode[j])
         /\ study'[j][now[j]] = t /\ now[j] \in DOMAIN study'[j]
<1>1. /\ study \in [Job -> Study] /\ now[j] \in DOMAIN study[j]
      /\ study[j][now[j]].state = "RUNNING"
  BY DEF TypeInv, TypeOK, StudyOK, PhaseOf
<1>2. study'[j] = [study[j] EXCEPT ![now[j]] = t]
  BY <1>1 DEF Update
<1> QED
  BY <1>1, <1>2, ExtendsReplace, Replaced

LEMMA SetAttrExtends ==
  ASSUME TypeInv, NEW j \in Job, SetAttr(j)
  PROVE  Extends(study[j], study'[j], mode[j])
<1> DEFINE t == [study[j][now[j]] EXCEPT !.eligible = mark[j]]
<1>1. /\ pc[j] = "mark" /\ mark[j] \in {"True", "False"}
      /\ study \in [Job -> Study] /\ now[j] \in DOMAIN study[j]
  BY DEF SetAttr, TypeInv, TypeOK, StudyOK, PhaseOf
<1>2. study[j][now[j]] \in Trial
  BY <1>1, Entries
<1>3. t \in Trial /\ t.source = study[j][now[j]].source /\ t.params = study[j][now[j]].params
  BY <1>1, <1>2 DEF Trial
<1>4. Update(j, now[j], t) \/ UNCHANGED study
  BY DEF SetAttr
<1> HIDE DEF t
<1> QED
  BY <1>1, <1>3, <1>4, RunningExtends, ExtendsSame

LEMMA TellExtends ==
  ASSUME TypeInv, NEW j \in Job, Tell(j)
  PROVE  /\ Extends(study[j], study'[j], mode[j])
         /\ (mode[j] = "import" /\ Observed(study[j])) \/ mode[j] # "import" =>
              \E n \in Run(study'[j], mode[j]) : n \notin Run(study[j], mode[j])
<1> DEFINE t == [study[j][now[j]] EXCEPT !.state = verdict[j].state, !.value = verdict[j].value]
<1>1. /\ pc[j] = "mark" /\ verdict[j] \in Verdict /\ Update(j, now[j], t)
      /\ study \in [Job -> Study] /\ now[j] \in DOMAIN study[j]
      /\ study[j][now[j]].state = "RUNNING"
  BY DEF Tell, Marked, TypeInv, TypeOK, StudyOK, PhaseOf
<1>2. study[j][now[j]] \in Trial
  BY <1>1, Entries
<1>3. /\ t \in Trial /\ t.source = study[j][now[j]].source /\ t.params = study[j][now[j]].params
      /\ t.state \in {"COMPLETE", "PRUNED", "FAIL"}
  <2>1. /\ verdict[j].state \in {"COMPLETE", "PRUNED", "FAIL"}
        /\ verdict[j].value \in Value \cup {None}
    BY <1>1 DEF Verdict
  <2> QED
    BY <1>2, <2>1 DEF Trial
<1> HIDE DEF t
<1>4. Extends(study[j], study'[j], mode[j]) /\ study'[j][now[j]] = t /\ now[j] \in DOMAIN study'[j]
  BY <1>1, <1>3, RunningExtends
<1>5. now[j] \notin Run(study[j], mode[j])
  BY <1>1 DEF Run, Finished
<1>6. (mode[j] = "import" /\ Observed(study[j])) \/ mode[j] # "import" =>
        now[j] \in Run(study'[j], mode[j])
  BY <1>1, <1>3, <1>4 DEF Run, Finished, Numbers, Observed
<1> QED
  BY <1>4, <1>5, <1>6

\* What the others see of such a step.
LEMMA WritesOwn ==
  ASSUME TypeInv, NEW j \in Job, Writes(j)
  PROVE  /\ Extends(study[j], study'[j], mode[j])
         /\ study' \in [Job -> Study] /\ \A k \in Job : k # j => study'[k] = study[k]
         /\ UNCHANGED <<copy, mode, tmp, saved>>
         /\ \A k \in Job : \/ pc'[k] = pc[k]
                           \/ pc[k] \notin {"out", "wait"} /\ pc'[k] \notin {"out", "wait"}
         /\ Tell(j) \/ told' = told
<1>1. Extends(study[j], study'[j], mode[j])
  BY SeedExtends, AskExtends, SetAttrExtends, TellExtends DEF Writes
<1>2. TypeInv'
  BY SeedTyped, AskTyped, SetAttrTyped, TellTyped DEF Writes
<1>3. study \in [Job -> Study] /\ study' \in [Job -> Study] /\ pc = [k \in Job |-> pc[k]]
  BY <1>2 DEF TypeInv, TypeOK, ScriptOK, StudyOK
<1>4. /\ \A k \in Job : k # j => study'[k] = study[k]
      /\ UNCHANGED <<copy, mode, tmp, saved>>
      /\ Tell(j) \/ told' = told
  <2>1. CASE Seed(j)
    BY <1>3, <2>1 DEF Seed, TakeOver, history
  <2>2. CASE Ask(j)
    BY <1>3, <2>2 DEF Ask, Update, history
  <2>3. CASE SetAttr(j)
    BY <1>3, <2>3 DEF SetAttr, Update
  <2>4. CASE Tell(j)
    BY <1>3, <2>4 DEF Tell, Update
  <2> QED
    BY <2>1, <2>2, <2>3, <2>4 DEF Writes
<1>5. pc[j] \in {"seed", "ask", "mark"} /\
      \E where \in {"seed", "ask", "mark", "exited"} : pc' = [pc EXCEPT ![j] = where]
  <2>1. CASE Seed(j)
    BY <1>3, <2>1 DEF Seed, Goto
  <2>2. CASE Ask(j)
    BY <1>3, <2>2 DEF Ask, Goto
  <2>3. CASE SetAttr(j)
    BY <1>3, <2>3 DEF SetAttr
  <2>4. CASE Tell(j)
    BY <1>3, <2>4 DEF Tell, Goto, Marked
  <2> QED
    BY <2>1, <2>2, <2>3, <2>4 DEF Writes
<1>6. ASSUME NEW k \in Job
      PROVE  pc'[k] = pc[k] \/ (pc[k] \notin {"out", "wait"} /\ pc'[k] \notin {"out", "wait"})
  BY <1>3, <1>5
<1> QED
  BY <1>1, <1>3, <1>4, <1>6

-----------------------------------------------------------------------------
\* All other steps leave a study as it is, or drop it with what was told.
Rests(k) ==
  /\ \/ study'[k] = study[k] /\ mode'[k] = mode[k]
     \/ study'[k] = <<>> /\ (InMemory \/ told'[k] = 0)
  /\ told'[k] = told[k] \/ told'[k] = 0
  /\ pc'[k] \in {"out", "wait"} => pc[k] \in {"out", "wait"} \/ told'[k] = 0

LEMMA LeaveRests ==
  ASSUME TypeInv, NEW j \in Job, Leave(j)
  PROVE  \A k \in Job : Rests(k)
BY DEF Leave, NoProcess, Goto, Rests, TypeInv, TypeOK, ScriptOK, StudyOK, BoundsOK

LEMMA OthersRest ==
  ASSUME TypeInv, ToldInv, [Next]_vars, ~ \E j \in Job : Writes(j)
  PROVE  \A k \in Job : Rests(k)
<1> USE DEF TypeInv, TypeOK, ScriptOK, StudyOK, BoundsOK
<1>1. CASE UNCHANGED vars \/ Warm
  BY <1>1 DEF Warm, vars, node, history, Rests
<1>2. ASSUME NEW j \in Job, Step(j) \/ Submit(j) \/ Die(j) \/ HardKill(j) \/ Backup(j) \/ Move(j)
      PROVE  \A k \in Job : Rests(k)
  <2>1. CASE Submit(j)
    BY <2>1 DEF Submit, Goto, node, Rests, ToldInv
  <2>2. CASE Sleep(j)
    <3>1. CASE waited[j] + 1 >= MaxWait
      BY <2>2, <3>1, LeaveRests DEF Sleep
    <3>2. CASE ~(waited[j] + 1 >= MaxWait)
      BY <2>2, <3>2 DEF Sleep, Rests
    <3> QED
      BY <3>1, <3>2
  <2>3. CASE Proceed(j)
    <3>1. study[j] = <<>> /\ told[j] = 0 /\ UNCHANGED <<study, told>>
      BY <2>3 DEF Proceed, history, PhaseOf, ToldInv
    <3>2. \A k \in Job : k # j => mode'[k] = mode[k]
      BY <2>3 DEF Proceed
    <3>3. \A k \in Job : pc'[k] \in {"out", "wait"} => pc[k] \in {"out", "wait"}
      BY <2>3 DEF Proceed, Goto
    <3> QED
      BY <3>1, <3>2, <3>3 DEF Rests
  <2>4. CASE Launch(j)
    BY <2>4 DEF Launch, Goto, history, Rests
  <2>5. CASE LoadSeeds(j)
    BY <2>5 DEF LoadSeeds, Goto, history, Rests
  <2>6. CASE HardPrune(j) \/ FitCompletes(j) \/ FitRunsOutOfMemory(j) \/ FitIsPruned(j) \/ FitRaises(j)
    <3>1. UNCHANGED <<study, mode, told>> /\ Goto(j, "mark") /\ pc[j] = "mark"
      BY <2>6 DEF HardPrune, FitCompletes, FitRunsOutOfMemory, FitIsPruned, FitRaises, Fitting,
         Ends, Marked
    <3> QED
      BY <3>1 DEF Rests, Goto
  <2>7. CASE Die(j) \/ Restart(j)
    BY <2>7 DEF Die, Restart, Goto, history, Rests
  <2>8. CASE Backup(j)
    BY <2>8 DEF Backup, history, Rests
  <2>9. CASE Move(j)
    BY <2>9 DEF Move, Rests
  <2>10. CASE Finish(j) \/ HardKill(j)
    BY <2>10, LeaveRests DEF Finish, HardKill
  <2> QED
    BY <1>2, <2>1, <2>2, <2>3, <2>4, <2>5, <2>6, <2>7, <2>8, <2>9, <2>10 DEF Step, Writes
<1> QED
  BY <1>1, <1>2 DEF Next

LEMMA ModeStep ==
  ASSUME TypeInv, ModeInv, ToldInv, [Next]_vars
  PROVE  ModeInv'
<1>1. ASSUME NEW j \in Job, Writes(j) PROVE ModeInv'
  BY <1>1, WritesOwn DEF ModeInv, Extends
<1>2. CASE ~ \E j \in Job : Writes(j)
  BY <1>2, OthersRest, EmptyFits DEF Rests, ModeInv
<1> QED
  BY <1>1, <1>2

LEMMA ToldStep ==
  ASSUME TypeInv, ModeInv, ToldInv, [Next]_vars
  PROVE  ToldInv'
<1>0. \A k \in Job : told[k] \in Nat /\ study[k] \in Study
  BY DEF TypeInv, TypeOK, StudyOK, BoundsOK
<1>1. ASSUME NEW j \in Job, Writes(j), NEW k \in Job
      PROVE  /\ pc'[k] \in {"out", "wait"} => told'[k] = 0
             /\ ~InMemory => told'[k] <= Cardinality(Run(study'[k], mode'[k]))
  <2>1. CASE k # j \/ ~Tell(j)
    <3>1. Kept(study[k], study'[k]) /\ study'[k] \in Study /\ mode'[k] = mode[k]
      BY <1>0, <1>1, WritesOwn, KeptSame DEF Extends
    <3>2. told'[k] = told[k]
      BY <1>1, <2>1, WritesOwn DEF Tell, TypeInv, TypeOK, BoundsOK
    <3>3. /\ Cardinality(Run(study[k], mode[k])) <= Cardinality(Run(study'[k], mode[k]))
          /\ Cardinality(Run(study[k], mode[k])) \in Nat
          /\ Cardinality(Run(study'[k], mode[k])) \in Nat
      BY <1>0, <3>1, RunGrows, RunFinite
    <3>4. pc'[k] \in {"out", "wait"} => pc[k] \in {"out", "wait"}
      BY <1>1, WritesOwn
    <3>5. ~InMemory => told'[k] <= Cardinality(Run(study'[k], mode[k]))
      BY <1>0, <3>2, <3>3 DEF ToldInv
    <3> QED
      BY <3>1, <3>2, <3>4, <3>5 DEF ToldInv
  <2>2. CASE k = j /\ Tell(j)
    <3>1. /\ Kept(study[j], study'[j]) /\ study'[j] \in Study /\ mode'[j] = mode[j]
          /\ pc[j] = "mark" /\ pc'[j] \notin {"out", "wait"}
      BY <1>1, <2>2, WritesOwn DEF Extends, Tell, Marked
    <3>2. told'[j] = told[j] + 1
      BY <2>2 DEF Tell, TypeInv, TypeOK, BoundsOK
    <3>3. \E n \in Run(study'[j], mode[j]) : n \notin Run(study[j], mode[j])
      BY <2>2, TellExtends DEF ModeInv
    <3>4. /\ Cardinality(Run(study[j], mode[j])) + 1 <= Cardinality(Run(study'[j], mode[j]))
          /\ Cardinality(Run(study[j], mode[j])) \in Nat
          /\ Cardinality(Run(study'[j], mode[j])) \in Nat
      BY <1>0, <3>1, <3>3, RunGrows, RunFinite
    <3>5. ~InMemory => told'[j] <= Cardinality(Run(study'[j], mode[j]))
      BY <1>0, <3>2, <3>4 DEF ToldInv
    <3> QED
      BY <2>2, <3>1, <3>5
  <2> QED
    BY <2>1, <2>2
<1>2. ASSUME ~ \E j \in Job : Writes(j), NEW k \in Job
      PROVE  /\ pc'[k] \in {"out", "wait"} => told'[k] = 0
             /\ ~InMemory => told'[k] <= Cardinality(Run(study'[k], mode'[k]))
  <2>1. Rests(k)
    BY <1>2, OthersRest
  <2>2. pc'[k] \in {"out", "wait"} => told'[k] = 0
    BY <2>1 DEF Rests, ToldInv
  <2>3. CASE study'[k] = study[k] /\ mode'[k] = mode[k]
    <3>1. Cardinality(Run(study[k], mode[k])) \in Nat
      BY <1>0, RunFinite
    <3>2. ~InMemory => told'[k] <= Cardinality(Run(study[k], mode[k]))
      BY <2>1, <3>1 DEF Rests, ToldInv
    <3> QED
      BY <2>2, <2>3, <3>2
  <2>4. CASE study'[k] = <<>> /\ (InMemory \/ told'[k] = 0)
    <3>1. Cardinality(Run(<<>>, mode'[k])) \in Nat
      BY EmptyFits
    <3>2. ~InMemory => told'[k] <= Cardinality(Run(<<>>, mode'[k]))
      BY <2>4, <3>1
    <3> QED
      BY <2>2, <2>4, <3>2
  <2> QED
    BY <2>1, <2>3, <2>4 DEF Rests
<1> QED
  BY <1>1, <1>2 DEF ToldInv

\* Where a step leaves the copies of job k alone.
SameCopies(k) ==
  /\ study'[k] = study[k] /\ tmp'[k] = tmp[k] /\ copy'[k] = copy[k]
  /\ k \in saved' => k \in saved
  /\ pc'[k] # "out" => pc[k] # "out"

\* What CopyInv says of job k.
Behind(k) ==
  /\ InMemory => k \notin saved /\ tmp[k] = None
  /\ tmp[k] # None => Kept(tmp[k], study[k])
  /\ (k \in saved /\ pc[k] # "out") =>
       /\ copy[k] # None
       /\ Kept(copy[k], study[k])
       /\ tmp[k] # None => Kept(copy[k], tmp[k])

LEMMA BehindAll ==
  ASSUME saved \subseteq Job
  PROVE  CopyInv <=> \A k \in Job : Behind(k)
BY DEF CopyInv, Behind

LEMMA SameBehind ==
  ASSUME NEW k \in Job, Behind(k), SameCopies(k)
  PROVE  Behind(k)'
BY DEF Behind, SameCopies

LEMMA CopyStep ==
  ASSUME TypeInv, CopyInv, [Next]_vars
  PROVE  CopyInv'
<1>0. /\ study \in [Job -> Study] /\ copy \in [Job -> Study \cup {None}]
      /\ tmp \in [Job -> Study \cup {None}] /\ pc = [i \in Job |-> pc[i]]
      /\ None \notin Study /\ saved \subseteq Job /\ saved' \subseteq Job
  BY NoneAssumption, TypeStep DEF TypeInv, TypeOK, ScriptOK, StudyOK, BoundsOK
<1>1. \A i \in Job : Behind(i)
  BY <1>0, BehindAll
<1>2. SUFFICES ASSUME NEW k \in Job PROVE Behind(k)'
  <2>1. (saved \subseteq Job)' => (CopyInv' <=> (\A i \in Job : Behind(i))')
    BY DEF CopyInv, Behind
  <2> QED
    BY <1>0, <2>1
<1>3. ASSUME NEW j \in Job, Writes(j) PROVE Behind(k)'
  <2>1. Kept(study[k], study'[k])
    BY <1>3, WritesOwn, KeptSame DEF Extends
  <2>2. /\ copy'[k] = copy[k] /\ tmp'[k] = tmp[k] /\ saved' = saved
        /\ pc'[k] # "out" => pc[k] # "out"
    BY <1>3, WritesOwn
  <2> QED
    BY <1>1, <2>1, <2>2, KeptTrans DEF Behind
<1>4. CASE UNCHANGED vars \/ Warm
  <2>1. SameCopies(k)
    BY <1>4 DEF Warm, vars, node, history, SameCopies
  <2> QED
    BY <1>1, <2>1, SameBehind
\* A job that leaves has no backup.
<1>5. ASSUME NEW j \in Job, Leave(j), saved' \subseteq saved \cup {j},
             InMemory => saved' = saved, copy' = copy \/ copy' = [copy EXCEPT ![j] = study[j]]
      PROVE  Behind(k)'
  <2>1. CASE k = j
    <3>1. pc'[k] = "out" /\ tmp'[k] = None
      BY <1>0, <1>5, <2>1 DEF Leave, Goto
    <3> QED
      BY <1>1, <1>5, <3>1 DEF Behind
  <2>2. CASE k # j
    <3>1. SameCopies(k)
      BY <1>0, <1>5, <2>2 DEF Leave, Goto, SameCopies
    <3> QED
      BY <1>1, <3>1, SameBehind
  <2> QED
    BY <2>1, <2>2
<1>6. ASSUME NEW j \in Job, Step(j) \/ Submit(j) \/ Die(j) \/ HardKill(j) \/ Backup(j) \/ Move(j),
             ~Writes(j)
      PROVE  Behind(k)'
  <2>1. CASE Submit(j)
    <3>1. CASE k = j
      <4>1. tmp'[k] = None /\ k \notin saved'
        BY <2>1, <3>1 DEF Submit, node, TypeInv, PhaseOf
      <4> QED
        BY <4>1 DEF Behind
    <3>2. CASE k # j
      <4>1. SameCopies(k)
        BY <1>0, <2>1, <3>2 DEF Submit, node, Goto, SameCopies
      <4> QED
        BY <1>1, <4>1, SameBehind
    <3> QED
      BY <3>1, <3>2
  <2>2. CASE Sleep(j)
    <3>1. CASE waited[j] + 1 >= MaxWait
      BY <1>5, <2>2, <3>1 DEF Sleep
    <3>2. CASE ~(waited[j] + 1 >= MaxWait)
      <4>1. SameCopies(k)
        BY <2>2, <3>2 DEF Sleep, SameCopies
      <4> QED
        BY <1>1, <4>1, SameBehind
    <3> QED
      BY <3>1, <3>2
  <2>3. CASE Launch(j)
    <3>1. CASE InMemory
      <4>1. saved' = saved /\ tmp' = tmp
        BY <2>3 DEF Launch, history
      <4> QED
        BY <1>1, <3>1, <4>1 DEF Behind
    <3>2. CASE ~InMemory
      <4>1. SameCopies(k)
        BY <1>0, <2>3, <3>2 DEF Launch, history, Goto, SameCopies
      <4> QED
        BY <1>1, <4>1, SameBehind
    <3> QED
      BY <3>1, <3>2
  <2>4. CASE Proceed(j) \/ LoadSeeds(j) \/ Die(j) \/ Restart(j)
    <3>1. SameCopies(k)
      BY <1>0, <2>4 DEF Proceed, LoadSeeds, Die, Restart, Working, history, Goto, SameCopies
    <3> QED
      BY <1>1, <3>1, SameBehind
  <2>5. CASE HardPrune(j) \/ FitCompletes(j) \/ FitRunsOutOfMemory(j) \/ FitIsPruned(j) \/ FitRaises(j)
    <3>1. UNCHANGED <<study, tmp, copy, saved>> /\ Goto(j, "mark") /\ pc[j] = "mark"
      BY <2>5 DEF HardPrune, FitCompletes, FitRunsOutOfMemory, FitIsPruned, FitRaises, Fitting,
         Ends, Marked
    <3>2. SameCopies(k)
      BY <1>0, <3>1 DEF Goto, SameCopies
    <3> QED
      BY <1>1, <3>2, SameBehind
  <2>6. CASE Backup(j)
    <3>1. /\ ~InMemory /\ tmp' = [tmp EXCEPT ![j] = study[j]]
          /\ UNCHANGED <<study, copy, saved, pc>>
      BY <2>6 DEF Backup, history
    <3>2. CASE k = j
      BY <1>0, <1>1, <3>1, <3>2, KeptSame DEF Behind
    <3>3. CASE k # j
      <4>1. SameCopies(k)
        BY <1>0, <3>1, <3>3 DEF SameCopies
      <4> QED
        BY <1>1, <4>1, SameBehind
    <3> QED
      BY <3>2, <3>3
  <2>7. CASE Move(j)
    <3>1. /\ tmp[j] # None /\ copy' = [copy EXCEPT ![j] = tmp[j]] /\ saved' = saved \cup {j}
          /\ tmp' = [tmp EXCEPT ![j] = None] /\ UNCHANGED <<study, pc>>
      BY <2>7 DEF Move, Install
    <3>2. CASE k = j
      BY <1>0, <1>1, <3>1, <3>2 DEF Behind
    <3>3. CASE k # j
      <4>1. SameCopies(k)
        BY <1>0, <3>1, <3>3 DEF SameCopies
      <4> QED
        BY <1>1, <4>1, SameBehind
    <3> QED
      BY <3>2, <3>3
  <2>8. CASE Finish(j) \/ HardKill(j)
    <3>1. Leave(j) /\ saved' \subseteq saved \cup {j} /\ (InMemory => saved' = saved)
      BY <2>8 DEF Finish, HardKill, Install
    <3>2. copy' = copy \/ copy' = [copy EXCEPT ![j] = study[j]]
      BY <2>8 DEF Finish, HardKill, Install
    <3> QED
      BY <1>5, <3>1, <3>2
  <2> QED
    BY <1>6, <2>1, <2>2, <2>3, <2>4, <2>5, <2>6, <2>7, <2>8 DEF Step, Writes
<1> QED
  BY <1>3, <1>4, <1>6 DEF Next

LEMMA AlwaysKept == Spec => [](TypeInv /\ StudyInv)
<1>1. TypeInv /\ StudyInv /\ [Next]_vars => StudyInv'
  BY ModeStep, ToldStep, CopyStep DEF StudyInv
<1> QED
  BY <1>1, TypeInit, TypeStep, StudyInit, PTL DEF Spec

(***************************************************************************)
(* Worker 1 has each stage-1 configuration once in its study, however      *)
(* often its process was restarted and enqueued them again                 *)
(* (_seed_study_from_best, skip_if_exists).                                *)
(***************************************************************************)
THEOREM ReRunsEachSeedOnce == Spec => []SeedsOnce
<1>1. StudyInv => SeedsOnce
  BY DEF StudyInv, ModeInv, Once, SeedsOnce, Numbers
<1> QED
  BY <1>1, AlwaysKept, PTL

(***************************************************************************)
(* A study on the node's scratch disk has every trial that finished since  *)
(* the job began, whatever killed its worker processes.  The study of a    *)
(* job that keeps it in memory is gone with the process                    *)
(* (big_hp_tuning.sh, USE_IN_MEMORY_STORAGE).                              *)
(***************************************************************************)
THEOREM RestartsContinue == ~InMemory => (Spec => []RestartContinues)
<1> SUFFICES ASSUME ~InMemory PROVE Spec => []RestartContinues
  OBVIOUS
<1>1. TypeInv /\ StudyInv => RestartContinues
  <2> SUFFICES ASSUME TypeInv, StudyInv, NEW j \in Job
               PROVE  Cardinality(Run(study[j], mode[j])) >= told[j]
    BY DEF RestartContinues, Run
  <2>1. Cardinality(Run(study[j], mode[j])) \in Nat /\ told[j] \in Nat
    BY RunFinite DEF TypeInv, TypeOK, StudyOK, BoundsOK
  <2> QED
    BY <2>1 DEF StudyInv, ToldInv
<1> QED
  BY <1>1, AlwaysKept, PTL

\* What is on a node, or in a workspace, was submitted; a copy that the
\* current or last submission did not write is of an earlier one.
CountInv ==
  \A j \in Job :
    /\ pc[j] # "out" \/ copy[j] # None => submits[j] >= 1
    /\ copy[j] # None /\ j \notin saved => submits[j] >= 2

\* Only the two ends of a sync write a workspace copy.
LEMMA CopyWriters ==
  ASSUME TypeInv, NEW j \in Job, NEW k \in Job, copy'[k] # copy[k],
         Submit(j) \/ Step(j) \/ Die(j) \/ HardKill(j) \/ Backup(j) \/ Move(j)
  PROVE  /\ k = j /\ (Move(k) \/ Finish(k))
         /\ pc[k] # "out" /\ saved' = saved \cup {k}
         /\ submits' = submits /\ (pc'[k] = pc[k] \/ pc'[k] = "out")
<1>1. Move(j) \/ Finish(j)
  BY DEF Submit, Step, Die, HardKill, Backup, Sleep, Proceed, Launch, LoadSeeds, Seed, Ask,
     SetAttr, HardPrune, FitCompletes, FitRunsOutOfMemory, FitIsPruned, FitRaises, Ends, Tell,
     Restart
<1>2. /\ copy \in [Job -> Study \cup {None}]
      /\ pc \in [Job -> {"out", "wait", "launch", "load", "seed", "ask", "mark", "exited"}]
  BY DEF TypeInv, TypeOK, StudyOK, ScriptOK
<1>3. CASE Move(j)
  <2>1. k = j /\ tmp[k] # None /\ saved' = saved \cup {k} /\ UNCHANGED <<submits, pc>>
    BY <1>2, <1>3 DEF Move, Install
  <2>2. pc[k] # "out"
    BY <2>1 DEF TypeInv, PhaseOf
  <2> QED
    BY <1>3, <2>1, <2>2
<1>4. CASE Finish(j)
  <2>1. k = j /\ pc[k] = "exited" /\ saved' = saved \cup {k} /\ submits' = submits
    BY <1>2, <1>4 DEF Finish, Install
  <2>2. pc'[k] = "out"
    BY <1>2, <1>4, <2>1 DEF Finish, Leave, Goto
  <2> QED
    BY <1>4, <2>1, <2>2
<1> QED
  BY <1>1, <1>3, <1>4

LEMMA CountStep == ASSUME TypeInv, CountInv, [Next]_vars PROVE CountInv'
<1>0. /\ submits \in [Job -> 0..MaxSubmit]
      /\ pc \in [Job -> {"out", "wait", "launch", "load", "seed", "ask", "mark", "exited"}]
      /\ copy \in [Job -> Study \cup {None}] /\ MaxSubmit \in Nat
  BY ConstantsAssumption DEF TypeInv, TypeOK, BoundsOK, ScriptOK, StudyOK
<1>1. CASE Warm \/ UNCHANGED vars
  BY <1>1 DEF Warm, vars, node, history, CountInv
<1>2. ASSUME NEW j \in Job, Submit(j) PROVE CountInv'
  <2>1. /\ submits' = [submits EXCEPT ![j] = @ + 1] /\ saved' = saved \ {j}
        /\ pc' = [pc EXCEPT ![j] = "wait"] /\ copy' = copy
    BY <1>2 DEF Submit, Goto
  <2> SUFFICES ASSUME NEW k \in Job
               PROVE  /\ pc'[k] # "out" \/ copy'[k] # None => submits'[k] >= 1
                      /\ copy'[k] # None /\ k \notin saved' => submits'[k] >= 2
    BY DEF CountInv
  <2> QED
    BY <1>0, <2>1 DEF CountInv
<1>3. ASSUME NEW j \in Job,
             Step(j) \/ Die(j) \/ HardKill(j) \/ Backup(j) \/ Move(j)
      PROVE  CountInv'
  <2>1. submits' = submits /\ saved \subseteq saved'
    BY <1>3 DEF Step, Die, HardKill, Backup, Move, Install, Sleep, Proceed, Launch, LoadSeeds,
       Seed, Ask, SetAttr, HardPrune, FitCompletes, FitRunsOutOfMemory, FitIsPruned, FitRaises,
       Ends, Tell, Restart, Finish, history
  <2>2. \A k \in Job : pc[k] = "out" => pc'[k] = "out"
    BY <1>0, <1>3 DEF Step, Die, Working, HardKill, Leave, Goto, Backup, Move, Sleep, Proceed,
       Launch, LoadSeeds, Seed, Ask, SetAttr, HardPrune, FitCompletes, FitRunsOutOfMemory,
       FitIsPruned, FitRaises, Fitting, Marked, Ends, Tell, Restart, Finish
  <2>3. \A k \in Job : copy'[k] # copy[k] => k \in saved' /\ pc[k] # "out"
    BY <1>3, CopyWriters
  <2> QED
    BY <1>0, <2>1, <2>2, <2>3 DEF CountInv
<1> QED
  BY <1>1, <1>2, <1>3 DEF Next

(***************************************************************************)
(* The workspace copy loses a finished trial only when a later submission  *)
(* of the job saves for the first time, whatever the sync loop and the     *)
(* final sync move in place and whatever is killed (big_hp_tuning.sh).     *)
(***************************************************************************)
THEOREM CopiesAdvance == Spec => CopyAdvances
<1> DEFINE Advance ==
      \A j \in Job : copy[j] # None =>
        \/ Kept(copy[j], copy'[j])
        \/ submits[j] > 1 /\ j \notin saved /\ j \in saved'
<1>1. TypeInv /\ StudyInv /\ CountInv /\ [Next]_vars => Advance
  <2> SUFFICES ASSUME TypeInv, StudyInv, CountInv, [Next]_vars, NEW j \in Job, copy[j] # None
               PROVE  \/ Kept(copy[j], copy'[j])
                      \/ submits[j] > 1 /\ j \notin saved /\ j \in saved'
    OBVIOUS
  <2>0. copy \in [Job -> Study \cup {None}] /\ submits[j] \in Nat
    BY DEF TypeInv, TypeOK, StudyOK, BoundsOK
  <2>1. CASE copy'[j] = copy[j]
    BY <2>1, KeptSame
  <2>2. CASE copy'[j] # copy[j]
    <3>1. (Move(j) \/ Finish(j)) /\ pc[j] # "out" /\ j \in saved'
      BY <2>2, CopyWriters DEF Next, Warm, vars
    <3>2. CASE j \notin saved
      BY <2>0, <3>1, <3>2 DEF CountInv
    <3>3. CASE j \in saved /\ Move(j)
      <4>1. tmp[j] # None /\ copy'[j] = tmp[j]
        BY <2>0, <3>3 DEF Move, Install
      <4> QED
        BY <3>1, <3>3, <4>1 DEF StudyInv, CopyInv
    <3>4. CASE j \in saved /\ Finish(j)
      <4>1. copy'[j] = study[j]
        BY <2>0, <2>2, <3>4 DEF Finish, Install
      <4> QED
        BY <3>1, <3>4, <4>1 DEF StudyInv, CopyInv
    <3> QED
      BY <3>1, <3>2, <3>3, <3>4
  <2> QED
    BY <2>1, <2>2
<1>2. Init => CountInv
  BY DEF Init, CountInv
<1>3. TypeInv /\ CountInv /\ [Next]_vars => CountInv'
  BY CountStep
<1> QED
  BY <1>1, <1>2, <1>3, AlwaysKept, PTL DEF Spec, CopyAdvances

=============================================================================
