--------------------------- MODULE DataPreparation ---------------------------
(***************************************************************************)
(* The curator's audits and cleanups beside preprocessing jobs, over the   *)
(* same archives, graphs and CSV files.  Nothing keeps them apart: the     *)
(* cleanup renames graphs while a job writes them, and rewrites archives   *)
(* while a job reads them.                                                 *)
(***************************************************************************)
EXTENDS NamingCleanup, Preprocess

CONSTANT Initial  \* the initial data sets: [zips, pts, csvs]

\* The data sets to begin with are whole, and name what the code can name; an
\* archive of AIGs that nothing was applied to holds no others.
ASSUME InitialAssumption ==
  /\ Torn \notin Name \cup Seq(Member) /\ Absent \notin Seq(Member)
  /\ None \notin Name \cup Path
  /\ Archives \subseteq [design : Designs, algos : AlgoLists]
  /\ \A d \in Initial :
       /\ d.zips \in [Archives -> Seq(Member)]
       /\ \A a \in Archives :
            a.algos = <<>> => \A n \in MemberNames(d.zips[a]) : n.algos = <<>>
       /\ DOMAIN d.pts \subseteq Path /\ \A p \in DOMAIN d.pts : d.pts[p] \in Name
       /\ d.csvs \in [Csvs -> Seq(Row)]

VARIABLES
  before,  \* the stores when the last audit began
  quiet,   \* since then only the cleanup has changed them
  calm     \* since the last job was submitted, only the job has changed them

prepVars == <<stores, counters, curatorVars, jobVars, before, quiet, calm>>

Stores == [zips |-> zips, pts |-> pts, csvs |-> csvs]

Init ==
  /\ \E d \in Initial : zips = d.zips /\ pts = d.pts /\ csvs = d.csvs
  /\ runs = 0 /\ harm = 0 /\ CuratorInit /\ JobInit
  /\ before = Stores /\ quiet = FALSE /\ calm = FALSE

CuratorStep ==
  /\ CuratorNext /\ UNCHANGED jobVars
  /\ IF StartAudit THEN before' = Stores /\ quiet' = TRUE
     ELSE UNCHANGED <<before, quiet>>
  /\ calm' = (calm /\ UNCHANGED stores)

JobStep ==
  /\ JobNext /\ UNCHANGED curatorVars
  /\ quiet' = (quiet /\ UNCHANGED stores)
  /\ calm' = (Submit \/ calm)
  /\ UNCHANGED before

Next == CuratorStep \/ JobStep

Fairness == WF_prepVars(CuratorWork /\ CuratorStep) /\ WF_prepVars(JobWork /\ JobStep)

Spec == Init /\ [][Next]_prepVars /\ Fairness

TypeOK == StoresOK /\ CuratorTypeOK /\ JobTypeOK

----------------------------------------------------------------------------
(* The cleanup *)

\* An audit that was not killed.
Audited == issues.csv # Absent /\ issues.zip # Absent /\ issues.pt # Absent

\* Two graphs that would get one name.
SharedTarget(p) == \E q \in DOMAIN pair \ {p} : q.dst = p.dst

\* A rename looks before it leaps (cleanup_naming.py:97-113), so it replaces
\* a graph only when two candidates have one target and their threads meet
\* between the look and the rename, or when a preprocessing job has written
\* the target since the audit.
ReplacesOnlyShared ==
  [][\A p \in DOMAIN pair :
       (RenamePair(p) /\ pts' # pts /\ p.dst \in DOMAIN pts) => (SharedTarget(p) \/ ~quiet)]_prepVars

\* A cleanup that passes its verification leaves every CSV row pointing to
\* what it pointed to: rows and files are renamed in different phases, from
\* candidates found in different scans (cleanup_naming.py:97-245).  A tier-0
\* name that is not clean is out of this promise: a CSV, whose directory gives
\* the design, is cleaned of it, and an archive, which gives none, is not.
NamesMember(row, z) == \E a \in Archives : z[a] # Torn /\ row.artifact \in MemberNames(z[a])
SameKeyAnywhere(n)  == KeyOf(n, "clean") = KeyOf(n, NoHint)

RowsStayResolved ==
  curator = "passed" /\ quiet /\ Audited =>
    \A f \in Csvs : \A i \in DOMAIN csvs[f] :
      LET row == before.csvs[f][i]
      IN  /\ row.input \in DOMAIN before.pts => csvs[f][i].input \in DOMAIN pts
          /\ NamesMember(row, before.zips) /\ SameKeyAnywhere(row.artifact) =>
               \/ NamesMember(csvs[f][i], zips)
               \/ \E a \in Archives : zips[a] = Torn

\* Rewriting an archive loses, swaps or merges no member: every entry keeps
\* its content and the key of its name, though all tier0.zip share one
\* temporary name (cleanup_naming.py:333-337).  An archive is broken only
\* while it is moved into place, or after that was cut short.
ArchivesKeepMembers ==
  \A a \in Archives :
    IF zips[a] = Torn
    THEN before.zips[a] = Torn \/ harm > 0 \/ file[a] = "moving"
    ELSE /\ before.zips[a] # Torn /\ Len(zips[a]) = Len(before.zips[a])
         /\ \A i \in DOMAIN zips[a] :
              /\ zips[a][i].content = before.zips[a][i].content
              /\ KeyOf(zips[a][i].name, NoHint) = KeyOf(before.zips[a][i].name, NoHint)

\* The preview printed by the audit (inspect_data.py:801-895) comes true: a
\* passed cleanup makes the metrics of clean names what the audit computed
\* with every name cleaned, and the graphs reported missing, one by one, are
\* those still missing.
PreviewComesTrue ==
  curator = "passed" /\ quiet /\ Audited /\ (\A a \in Archives : zips[a] # Torn) =>
    Report(KeySets(CleanKeys)) = Report(issues.keys)

\* A cleanup of names changes names only: what rows point to, what archives
\* hold and what the audit announced all come out as they went in.
CleanupKeepsData == RowsStayResolved /\ ArchivesKeepMembers /\ PreviewComesTrue

----------------------------------------------------------------------------
(* Preprocessing *)

\* The graphs the archives call for, under the options of the job.
Wanted == {n \in UNION {MemberNames(zips[a]) : a \in {b \in Inputs : zips[b] # Torn}} :
             /\ AigAccepted(n)
             /\ \E a \in Inputs : /\ zips[a] # Torn /\ n \in MemberNames(zips[a])
                                  /\ DesignAgrees(n, a)}

\* A job that succeeds has covered the archives: staging by what is missing
\* and the count checks (preprocess_data.py:465-477) leave no gap, whatever
\* was there before and whatever was killed before.
SuccessCovers ==
  phase = "success" /\ calm => \A n \in Wanted : OutputPath(n) \in DOMAIN pts

\* What an overwriting job that succeeds has processed holds the graph of the
\* member that its name opens, even if an earlier job left it torn.
SuccessIsWhole ==
  phase = "success" /\ calm /\ options.overwrite =>
    \A n \in DOMAIN task : /\ pts[OutputPath(n)] # Torn
                           /\ pts[OutputPath(n)] = LastContent(zips[from[n]], n)

\* A graph is torn only while it is written, or if its writer failed.
TornByFaultOnly ==
  \A p \in DOMAIN pts : pts[p] = Torn =>
    harm > 0 \/ \E n \in DOMAIN task : task[n] = "saving" /\ OutputPath(n) = p

\* What a job reports is what it left on disk, through resubmissions, kills
\* and half-written files.
JobsDeliver == SuccessCovers /\ SuccessIsWhole /\ TornByFaultOnly

\* Cleanups and jobs come to an end: the bounded window of tasks, the drain
\* loop and the shutdown of the pool (preprocess_data.py:346-372) never wait
\* for each other, nor do the threads of the cleanup.
EverythingEnds ==
  /\ phase \notin AtRest ~> phase \in AtRest
  /\ curator \notin Resting ~> curator \in Resting
=============================================================================
