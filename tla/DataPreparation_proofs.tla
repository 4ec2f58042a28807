------------------------ MODULE DataPreparation_proofs ------------------------
(***************************************************************************)
(* For any data set, any options, any number of threads and workers, and   *)
(* any kills: the renames of the cleanup replace no graph that is not      *)
(* another rename's target, what a preprocessing job reports is what it    *)
(* left on disk, and a cleanup of names changes names only.                *)
(***************************************************************************)
EXTENDS DataPreparation, FiniteSetTheorems, WellFoundedInduction, TLAPS

\* Only the first phase has renames to make, and a rename that has been
\* decided on and whose target is there by now shares that target.
RenameInv ==
  /\ curator # "pt" => \A p \in DOMAIN pair : pair[p] \notin {"todo", "renaming"}
  /\ curator = "pt" /\ issues.pt = Absent => DOMAIN pair = {}
  /\ \A p \in DOMAIN pair :
       pair[p] = "renaming" /\ quiet /\ p.dst \in DOMAIN pts => SharedTarget(p)

LEMMA InitRenameInv == Init => RenameInv
BY DEF Init, CuratorInit, RenameInv

LEMMA JobRenameInv == RenameInv /\ JobStep => RenameInv'
<1> SUFFICES ASSUME RenameInv, JobStep PROVE RenameInv'
  OBVIOUS
<1>1. /\ UNCHANGED <<curator, issues, pair>>
      /\ quiet' = (quiet /\ UNCHANGED stores)
  BY DEF JobStep, curatorVars
<1>2. quiet' => pts' = pts
  BY <1>1 DEF stores
<1> QED
  BY <1>1, <1>2 DEF RenameInv, SharedTarget

\* A look decides on a rename only if the target is not there.
LEMMA CheckRenameInv ==
  ASSUME RenameInv, NEW q \in DOMAIN pair, CheckPair(q), quiet' = quiet
  PROVE  RenameInv'
<1>1. /\ curator = "pt" /\ pair' = [pair EXCEPT ![q] = LookAt(q)]
      /\ UNCHANGED <<curator, issues, pts>>
  BY DEF CheckPair, stores
<1>2. DOMAIN pair' = DOMAIN pair
  BY <1>1
<1>3. ASSUME NEW p \in DOMAIN pair', pair'[p] = "renaming", quiet', p.dst \in DOMAIN pts'
      PROVE  SharedTarget(p)'
  <2>1. CASE p = q
    <3>1. LookAt(q) = "renaming"
      BY <1>1, <1>3, <2>1
    <3>2. q.dst \notin DOMAIN pts
      BY <3>1 DEF LookAt
    <3> QED BY <1>1, <1>3, <2>1, <3>2
  <2>2. CASE p # q
    BY <1>1, <1>2, <1>3, <2>2 DEF RenameInv, SharedTarget
  <2> QED BY <2>1, <2>2
<1> QED
  BY <1>1, <1>2, <1>3 DEF RenameInv

\* A rename brings only its own target into being.
LEMMA MoveRenameInv ==
  ASSUME RenameInv, NEW q \in DOMAIN pair, RenamePair(q), quiet' = quiet
  PROVE  RenameInv'
<1>1. /\ curator = "pt" /\ UNCHANGED <<curator, issues>>
      /\ pair' = [pair EXCEPT ![q] = "renamed"] \/ pair' = [pair EXCEPT ![q] = "errors"]
      /\ pts' = Moved(q) \/ pts' = pts
  BY DEF RenamePair
<1>2. DOMAIN pair' = DOMAIN pair /\ pair'[q] # "renaming"
        /\ \A p \in DOMAIN pair : p # q => pair'[p] = pair[p]
  BY <1>1
<1>3. DOMAIN pts' \subseteq DOMAIN pts \cup {q.dst}
  BY <1>1 DEF Moved
<1>4. ASSUME NEW p \in DOMAIN pair', pair'[p] = "renaming", quiet', p.dst \in DOMAIN pts'
      PROVE  SharedTarget(p)'
  <2>1. p # q /\ p \in DOMAIN pair /\ pair[p] = "renaming" /\ quiet
    BY <1>2, <1>4
  <2>2. CASE p.dst = q.dst
    BY <2>1, <2>2, <1>2 DEF SharedTarget
  <2>3. CASE p.dst \in DOMAIN pts
    BY <2>1, <2>3, <1>2 DEF SharedTarget, RenameInv
  <2> QED BY <1>3, <1>4, <2>2, <2>3
<1> QED
  BY <1>1, <1>2, <1>4 DEF RenameInv

LEMMA CuratorRenameInv == RenameInv /\ CuratorStep => RenameInv'
<1> SUFFICES ASSUME RenameInv, CuratorStep PROVE RenameInv'
  OBVIOUS
<1>1. CASE StartAudit
  <2>1. /\ curator \in Resting /\ curator' = "scan csv"
        /\ pair' = pair
    BY <1>1 DEF StartAudit
  <2> QED BY <2>1 DEF RenameInv, Resting
<1>2. ASSUME ~StartAudit PROVE quiet' = quiet
  BY <1>2 DEF CuratorStep
<1>3. CASE StartCleanup
  <2>1. /\ curator' = "pt" /\ UNCHANGED issues
        /\ pair' = [p \in (IF issues.pt = Absent THEN {} ELSE issues.pt) |-> "todo"]
    BY <1>3 DEF StartCleanup
  <2> QED BY <2>1 DEF RenameInv
<1>4. CASE ScanCsvs \/ ScanZips \/ ScanPts
  <2>1. /\ curator \in Scanning /\ curator' \in {"scan zip", "scan pt", "audited"}
        /\ pair' = pair
    BY <1>4 DEF ScanCsvs, ScanZips, ScanPts, Scanning
  <2> QED BY <2>1 DEF RenameInv, Scanning
<1>5. CASE SkipPhase
  <2>1. /\ curator' \in {"csv", "zip", "failed", "passed"} /\ pair' = pair
        /\ curator = "pt" => issues.pt = Absent
    BY <1>5 DEF SkipPhase
  <2> QED BY <2>1 DEF RenameInv
<1>6. CASE VerifyPts
  <2>1. /\ curator' = "csv" /\ pair' = pair
        /\ \A p \in DOMAIN pair : pair[p] \notin {"todo", "renaming"}
    BY <1>6 DEF VerifyPts
  <2> QED BY <2>1 DEF RenameInv
<1>7. CASE KillCurator
  BY <1>7 DEF KillCurator, RenameInv
<1>8. ASSUME \/ VerifyCsvs \/ VerifyZips \/ \E f \in Csvs : RewriteCsv(f)
             \/ \E a \in Archives : WriteTmp(a) \/ CheckParity(a) \/ BeginMove(a) \/ EndMove(a)
      PROVE  RenameInv'
  <2>1. /\ curator \in {"csv", "zip"} /\ curator' \in {"csv", "zip", "failed", "passed"}
        /\ pair' = pair
    BY <1>8 DEF VerifyCsvs, VerifyZips, RewriteCsv, WriteTmp, CheckParity, BeginMove,
                EndMove, AtWork
  <2> QED BY <2>1 DEF RenameInv
<1>9. ASSUME ~StartAudit, NEW p \in DOMAIN pair, CheckPair(p) \/ RenamePair(p)
      PROVE  RenameInv'
  BY <1>2, <1>9, CheckRenameInv, MoveRenameInv
<1> QED
  BY <1>1, <1>3, <1>4, <1>5, <1>6, <1>7, <1>8, <1>9 DEF CuratorStep, CuratorNext, CuratorWork

LEMMA RenameInvInductive == Spec => []RenameInv
<1>1. RenameInv /\ UNCHANGED prepVars => RenameInv'
  BY DEF prepVars, stores, curatorVars, RenameInv, SharedTarget
<1> QED
  BY <1>1, InitRenameInv, JobRenameInv, CuratorRenameInv, PTL DEF Spec, Next

(* A rename replaces a graph only if two candidates have one target, or if *)
(* a job has written since the audit.                                      *)
THEOREM RenamesReplaceOnlyShared == Spec => ReplacesOnlyShared
<1>1. RenameInv =>
        \A p \in DOMAIN pair :
          (RenamePair(p) /\ pts' # pts /\ p.dst \in DOMAIN pts) => (SharedTarget(p) \/ ~quiet)
  BY DEF RenameInv, RenamePair
<1> QED
  BY <1>1, RenameInvInductive, PTL DEF ReplacesOnlyShared
-----------------------------------------------------------------------------
(* Types.  The tasks of a job are names whose graphs have a place; the      *)
(* renames of the cleanup have sources that are no such place.              *)

\* What an audit may propose for a .pt file.
RenameOf(p) == [src |-> p, dst |-> [p EXCEPT !.name = KeyOf(p.name, p.dir)]]
Renames     == {RenameOf(p) : p \in {q \in Path : ~IsClean(q.name, q.dir)}}

IssuesOK ==
  /\ DOMAIN issues = {"csv", "zip", "pt", "keys"}
  /\ issues.pt = Absent \/ issues.pt \subseteq Renames
  /\ \/ issues.csv = Absent
     \/ \A f \in Csvs : /\ issues.csv[f].artifact \subseteq Name
                        /\ issues.csv[f].input \subseteq Path

\* The source of a rename under way is there: no other has it.
PairsOK ==
  /\ DOMAIN pair \subseteq Renames
  /\ \A p \in DOMAIN pair : pair[p] = "renaming" => p.src \in DOMAIN pts

\* Tasks come from discovery; a graph that is written is in memory.
TasksOK ==
  /\ \A n \in DOMAIN task : AigAccepted(n) /\ (task[n] = "saving" => graph[n] \in Name)
  /\ phase \in {"staging", "discover"} => DOMAIN task = {}

KindsInv == TypeOK /\ IssuesOK /\ PairsOK /\ TasksOK


LEMMA KeyOfTyped ==
  ASSUME NEW n \in Name, NEW h \in {"clean", NoHint} \cup Tokens
  PROVE  KeyOf(n, h) \in Name
<1>1. CASE Tier(n) >= 1
  BY <1>1 DEF KeyOf, Cleaned, Name
<1>2. CASE ~(Tier(n) >= 1) /\ h = NoHint
  BY <1>2 DEF KeyOf
<1>3. CASE ~(Tier(n) >= 1) /\ h # NoHint
  <2>1. KeyOf(n, h) = [n EXCEPT !.form = h]
    BY <1>3 DEF KeyOf
  <2>2. h # "bare"
    BY <1>3, NamesAssumption
  <2> QED BY <1>3, <2>1, <2>2 DEF Name
<1> QED BY <1>1, <1>2, <1>3

\* A graph that a job builds has a place, which no audit proposes to clear.
LEMMA TaskPath ==
  ASSUME NEW n \in Name, AigAccepted(n)
  PROVE  OutputPath(n) \in Path /\ IsClean(OutputPath(n).name, OutputPath(n).dir)
<1>1. n.form \in {"clean"} \cup Tokens
  BY DEF AigAccepted, Name
<1>2. OutputPath(n).name = n /\ OutputPath(n).dir = n.form /\ OutputPath(n) \in Path
  BY <1>1 DEF OutputPath, Path
<1>3. [n EXCEPT !.form = n.form] = n
  BY DEF Name
<1>4. KeyOf(n, n.form) = n
  <2>1. CASE Tier(n) = 0
    BY <1>3, <2>1 DEF KeyOf
  <2>2. CASE Tier(n) = 1 /\ n.form = "clean"
    BY <1>3, <2>2 DEF KeyOf, Cleaned
  <2> QED BY <2>1, <2>2 DEF AigAccepted
<1> QED BY <1>2, <1>4 DEF IsClean

LEMMA RenamesTyped ==
  ASSUME NEW r \in Renames
  PROVE  /\ r.src \in Path /\ r.dst \in Path /\ r = RenameOf(r.src)
         /\ \A n \in Name : AigAccepted(n) => r.src # OutputPath(n)
<1>1. PICK p \in Path : ~IsClean(p.name, p.dir) /\ r = RenameOf(p)
  BY DEF Renames
<1>2. r.src = p /\ r.dst = [p EXCEPT !.name = KeyOf(p.name, p.dir)]
  BY <1>1 DEF RenameOf
<1>3. p.name \in Name /\ p.dir \in {"clean", NoHint} \cup Tokens
  BY DEF Path
<1>4. KeyOf(p.name, p.dir) \in Name
  BY <1>3, KeyOfTyped
<1>5. r.dst \in Path
  BY <1>2, <1>4 DEF Path
<1>6. \A n \in Name : AigAccepted(n) => r.src # OutputPath(n)
  BY <1>1, <1>2, TaskPath
<1> QED BY <1>1, <1>2, <1>5, <1>6

\* A nonempty set of naturals has a least member.
LEMMA LeastNat ==
  ASSUME NEW T \in SUBSET Nat, T # {}
  PROVE  \E x \in T : \A y \in T : x <= y
<1> DEFINE R == OpToRel(<, Nat)
<1>1. IsWellFoundedOn(R, Nat)
  BY NatLessThanWellFounded
<1>2. \A x, y \in Nat : y < x => <<y, x>> \in R
  BY DEF OpToRel
<1> HIDE DEF R
<1>3. PICK x \in T : \A y \in T : ~(<<y, x>> \in R)
  BY <1>1, WFMin
<1>4. ASSUME NEW y \in T PROVE x <= y
  <2>1. x \in Nat /\ y \in Nat /\ ~(y < x)
    BY <1>2, <1>3, Zenon
  <2> QED BY <2>1
<1> QED BY <1>4

\* A nonempty set of numbers up to n has a greatest member.
LEMMA GreatestUpTo ==
  ASSUME NEW n \in Nat, NEW T \in SUBSET (1..n), T # {}
  PROVE  \E x \in T : \A y \in T : y <= x
<1> DEFINE D == {n - y : y \in T}
<1>1. D \in SUBSET Nat
  OBVIOUS
<1>2. D # {}
  OBVIOUS
<1>3. PICK d \in D : \A e \in D : d <= e
  <2> HIDE DEF D
  <2> QED BY <1>1, <1>2, LeastNat
<1>4. PICK x \in T : d = n - x
  BY <1>3
<1>5. ASSUME NEW y \in T PROVE y <= x
  <2>1. n - x <= n - y
    BY <1>3, <1>4
  <2> QED BY <2>1
<1> QED BY <1>5

LEMMA MembersTyped ==
  ASSUME NEW ms \in Seq(Member)
  PROVE  MemberNames(ms) \subseteq Name
<1>1. \A i \in DOMAIN ms : ms[i] \in Member
  OBVIOUS
<1> QED BY <1>1 DEF MemberNames, Member

\* A member can be opened by its name.
LEMMA LastContentTyped ==
  ASSUME NEW ms \in Seq(Member), NEW n \in MemberNames(ms)
  PROVE  LastContent(ms, n) \in Name
<1> DEFINE T == {i \in DOMAIN ms : ms[i].name = n}
           At(i) == /\ ms[i].name = n
                    /\ \A j \in DOMAIN ms : ms[j].name = n => j <= i
<1>1. DOMAIN ms = 1..Len(ms) /\ Len(ms) \in Nat
  OBVIOUS
<1>2. T \in SUBSET (1..Len(ms))
  BY <1>1
<1>3. T # {}
  BY DEF MemberNames
<1>4. PICK i \in T : \A j \in T : j <= i
  <2> HIDE DEF T
  <2> QED BY <1>1, <1>2, <1>3, GreatestUpTo
<1>5. i \in DOMAIN ms /\ At(i)
  BY <1>4
<1> DEFINE c == CHOOSE k \in DOMAIN ms : At(k)
<1>6. c \in DOMAIN ms
  <2> HIDE DEF At
  <2> QED BY <1>5
<1>7. LastContent(ms, n) = ms[c].content
  BY DEF LastContent
<1>8. ms[c] \in Member
  <2> HIDE DEF c
  <2> QED BY <1>1, <1>6
<1> QED BY <1>7, <1>8 DEF Member

LEMMA InitKindsInv == Init => KindsInv
<1> SUFFICES ASSUME Init PROVE KindsInv
  OBVIOUS
<1>1. PICK d \in Initial : zips = d.zips /\ pts = d.pts /\ csvs = d.csvs
  BY DEF Init
<1>2. d.zips \in [Archives -> Seq(Member)]
  BY InitialAssumption
<1>3. StoresOK
  BY <1>1, <1>2, InitialAssumption, NamesAssumption DEF Init, StoresOK
<1>4. CuratorTypeOK /\ PairsOK
  <2>1. DOMAIN pair = {} /\ DOMAIN file = {} /\ curator = "idle" /\ failed = FALSE
    BY DEF Init, CuratorInit
  <2>2. tmp \in [Stems -> Seq(Member) \cup {Absent}]
    BY DEF Init, CuratorInit
  <2> QED BY <2>1, <2>2 DEF CuratorTypeOK, PairsOK, Resting
<1>5. IssuesOK
  BY DEF Init, CuratorInit, IssuesOK, NoIssues
<1>6. JobTypeOK /\ TasksOK
  <2>1. /\ DOMAIN task = {} /\ DOMAIN from = {} /\ DOMAIN graph = {} /\ drained = {}
        /\ phase = "idle" /\ options = NoJob
        /\ from = <<>> /\ graph = <<>>
        /\ staged = [a \in Inputs |-> NotStaged("todo")]
    BY DEF Init, JobInit
  <2>2. from \in [DOMAIN task -> Inputs] /\ graph \in [DOMAIN task -> Name \cup {None}]
    BY <2>1
  <2> QED BY <2>1, <2>2 DEF JobTypeOK, TasksOK, AtRest, NotStaged
<1> QED BY <1>3, <1>4, <1>5, <1>6 DEF KindsInv, TypeOK

\* The curator leaves the job's state alone.
LEMMA JobKeptKinds ==
  ASSUME KindsInv, UNCHANGED jobVars PROVE JobTypeOK' /\ TasksOK'
BY DEF KindsInv, TypeOK, JobTypeOK, TasksOK, jobVars

LEMMA AuditKinds ==
  ASSUME KindsInv, StartAudit \/ ScanCsvs \/ ScanZips \/ ScanPts
  PROVE  StoresOK' /\ CuratorTypeOK' /\ IssuesOK' /\ PairsOK'
<1> USE DEF KindsInv, TypeOK
<1>1. UNCHANGED <<stores, pair, file, tmp, failed, harm>>
  BY DEF StartAudit, ScanCsvs, ScanZips, ScanPts, counters
<1>2. runs' \in 0..MaxRuns
  <2>1. runs' = runs \/ (runs < MaxRuns /\ runs' = runs + 1)
    <3>1. CASE StartAudit
      BY <3>1 DEF StartAudit
    <3>2. ASSUME ScanCsvs \/ ScanZips \/ ScanPts PROVE runs' = runs
      <4>1. UNCHANGED counters
        BY <3>2 DEF ScanCsvs, ScanZips, ScanPts
      <4> QED BY <4>1 DEF counters
    <3> QED BY <3>1, <3>2
  <2> QED BY <2>1, NamesAssumption DEF StoresOK
<1>3. StoresOK'
  BY <1>1, <1>2 DEF StoresOK, stores
<1>4. curator' \in Resting \cup Scanning
  BY DEF StartAudit, ScanCsvs, ScanZips, ScanPts, Scanning, Resting
<1>5. CuratorTypeOK' /\ PairsOK'
  BY <1>1, <1>4 DEF CuratorTypeOK, PairsOK, stores
<1>6. IssuesOK'
  <2>1. CASE StartAudit
    BY <2>1 DEF StartAudit, NoIssues, IssuesOK
  <2>2. CASE ScanCsvs
    <3>1. /\ DOMAIN issues' = DOMAIN issues /\ issues'.pt = issues.pt
          /\ issues'.csv = CsvCandidates
      BY <2>2 DEF ScanCsvs, IssuesOK
    <3>2. ASSUME NEW f \in Csvs
          PROVE  /\ CsvCandidates[f].artifact \subseteq Name
                 /\ CsvCandidates[f].input \subseteq Path
      <4>1. csvs[f] \in Seq(Row)
        BY DEF StoresOK
      <4>2. \A i \in DOMAIN csvs[f] : csvs[f][i] \in Row
        BY <4>1
      <4>3. /\ CsvCandidates[f].artifact \subseteq {csvs[f][i].artifact : i \in DOMAIN csvs[f]} \ {None}
            /\ CsvCandidates[f].input \subseteq {csvs[f][i].input : i \in DOMAIN csvs[f]} \ {None}
        BY DEF CsvCandidates
      <4> QED BY <4>2, <4>3 DEF Row
    <3> QED BY <3>1, <3>2 DEF IssuesOK
  <2>3. CASE ScanZips
    <3>1. /\ DOMAIN issues' = DOMAIN issues /\ issues'.pt = issues.pt
          /\ issues'.csv = issues.csv
      BY <2>3 DEF ScanZips, IssuesOK
    <3> QED BY <3>1 DEF IssuesOK
  <2>4. CASE ScanPts
    <3>1. /\ DOMAIN issues' = DOMAIN issues /\ issues'.pt = PtCandidates
          /\ issues'.csv = issues.csv
      BY <2>4 DEF ScanPts, IssuesOK
    <3>2. PtCandidates \subseteq Renames
      BY DEF PtCandidates, Renames, RenameOf, StoresOK
    <3> QED BY <3>1, <3>2 DEF IssuesOK
  <2> QED BY <2>1, <2>2, <2>3, <2>4
<1> QED BY <1>3, <1>5, <1>6

\* Steps of the cleanup that change no store.
LEMMA PhaseKinds ==
  ASSUME KindsInv,
         StartCleanup \/ SkipPhase \/ VerifyPts \/ VerifyCsvs \/ VerifyZips \/ KillCurator
  PROVE  StoresOK' /\ CuratorTypeOK' /\ IssuesOK' /\ PairsOK'
<1> USE DEF KindsInv, TypeOK
<1>1. UNCHANGED <<stores, issues>> /\ runs' \in 0..MaxRuns /\ harm' \in 0..MaxHarm
  <2>1. UNCHANGED <<stores, issues>>
    BY DEF StartCleanup, SkipPhase, VerifyPts, VerifyCsvs, VerifyZips, KillCurator
  <2>2. /\ runs' = runs \/ (runs < MaxRuns /\ runs' = runs + 1)
        /\ harm' = harm \/ (harm < MaxHarm /\ harm' = harm + 1)
    <3>1. CASE StartCleanup
      BY <3>1 DEF StartCleanup
    <3>2. CASE KillCurator
      BY <3>2 DEF KillCurator
    <3>3. ASSUME SkipPhase \/ VerifyPts \/ VerifyCsvs \/ VerifyZips
          PROVE  runs' = runs /\ harm' = harm
      <4>1. UNCHANGED counters
        BY <3>3 DEF SkipPhase, VerifyPts, VerifyCsvs, VerifyZips
      <4> QED BY <4>1 DEF counters
    <3> QED BY <3>1, <3>2, <3>3
  <2> QED BY <2>1, <2>2, NamesAssumption DEF StoresOK
<1>2. StoresOK' /\ IssuesOK'
  BY <1>1 DEF StoresOK, stores, IssuesOK
<1>3. curator' \in Resting \cup Cleaning
  BY DEF StartCleanup, SkipPhase, VerifyPts, VerifyCsvs, VerifyZips, KillCurator, Resting, Cleaning
<1>4. failed' \in BOOLEAN /\ tmp' \in [Stems -> Seq(Member) \cup {Absent}]
  <2>1. failed \in BOOLEAN /\ tmp \in [Stems -> Seq(Member) \cup {Absent}]
    BY DEF CuratorTypeOK
  <2>2. failed' \in BOOLEAN
    BY <2>1, Zenon DEF StartCleanup, SkipPhase, VerifyPts, VerifyCsvs, VerifyZips, KillCurator
  <2>3. tmp' = tmp \/ tmp' = [s \in Stems |-> Absent]
    BY DEF StartCleanup, SkipPhase, VerifyPts, VerifyCsvs, VerifyZips, KillCurator
  <2> QED BY <2>1, <2>2, <2>3
<1>5. /\ DOMAIN pair' \subseteq Renames
      /\ pair' = pair \/ \A p \in DOMAIN pair' : pair'[p] = "todo"
  <2>1. CASE StartCleanup
    BY <2>1 DEF StartCleanup, IssuesOK
  <2>2. CASE SkipPhase \/ VerifyPts \/ VerifyCsvs \/ VerifyZips
    BY <2>2 DEF SkipPhase, VerifyPts, VerifyCsvs, VerifyZips, PairsOK
  <2>3. CASE KillCurator
    <3>1. DOMAIN pair' = {}
      BY <2>3 DEF KillCurator
    <3> QED BY <3>1
  <2> QED BY <2>1, <2>2, <2>3
<1>6. file' = file \/ \A x \in DOMAIN file' : file'[x] = "todo"
  <2>1. CASE StartCleanup
    BY <2>1 DEF StartCleanup
  <2>2. CASE SkipPhase \/ VerifyPts \/ VerifyCsvs \/ VerifyZips
    BY <2>2 DEF SkipPhase, VerifyPts, VerifyCsvs, VerifyZips
  <2>3. CASE KillCurator
    <3>1. DOMAIN file' = {}
      BY <2>3 DEF KillCurator
    <3> QED BY <3>1
  <2> QED BY <2>1, <2>2, <2>3
<1>7. PairsOK'
  BY <1>1, <1>5 DEF PairsOK, stores
<1>8. CuratorTypeOK'
  BY <1>3, <1>4, <1>5, <1>6 DEF CuratorTypeOK
<1> QED BY <1>2, <1>7, <1>8

LEMMA CheckKinds ==
  ASSUME KindsInv, NEW q \in DOMAIN pair, CheckPair(q)
  PROVE  StoresOK' /\ CuratorTypeOK' /\ IssuesOK' /\ PairsOK'
<1> USE DEF KindsInv, TypeOK
<1>1. UNCHANGED <<stores, curator, issues, file, tmp, failed, counters>>
  BY DEF CheckPair
<1>2. StoresOK' /\ IssuesOK'
  BY <1>1 DEF StoresOK, stores, counters, IssuesOK
<1>3. DOMAIN pair' = DOMAIN pair /\ pair'[q] = LookAt(q)
      /\ \A p \in DOMAIN pair : p # q => pair'[p] = pair[p]
  BY DEF CheckPair
<1>4. /\ LookAt(q) \in {"renaming", "already_renamed", "skipped_dst_exists", "skipped_missing_src"}
      /\ LookAt(q) = "renaming" => q.src \in DOMAIN pts
  BY DEF LookAt
<1>5. CuratorTypeOK'
  BY <1>1, <1>3, <1>4 DEF CuratorTypeOK
<1>6. PairsOK'
  BY <1>1, <1>3, <1>4 DEF PairsOK, stores
<1> QED BY <1>2, <1>5, <1>6

\* A rename takes its own source only.
LEMMA RenameKinds ==
  ASSUME KindsInv, NEW q \in DOMAIN pair, RenamePair(q)
  PROVE  StoresOK' /\ CuratorTypeOK' /\ IssuesOK' /\ PairsOK'
<1> USE DEF KindsInv, TypeOK
<1>1. UNCHANGED <<zips, csvs, curator, issues, file, tmp, failed, runs>>
  BY DEF RenamePair
<1>2. /\ DOMAIN pair' = DOMAIN pair /\ pair'[q] \in {"renamed", "errors"}
      /\ \A p \in DOMAIN pair : p # q => pair'[p] = pair[p]
      /\ pair[q] = "renaming" /\ harm' \in 0..MaxHarm
      /\ pts' = Moved(q) \/ pts' = pts
  BY NamesAssumption DEF RenamePair, StoresOK
<1>3. q \in Renames /\ q.src \in DOMAIN pts
  BY <1>2 DEF PairsOK
<1>4. q.dst \in Path
  BY <1>3, RenamesTyped
<1>5. DOMAIN pts' \subseteq Path /\ \A p \in DOMAIN pts' : pts'[p] \in Name \cup {Torn}
  BY <1>2, <1>3, <1>4 DEF Moved, StoresOK
<1>6. StoresOK'
  BY <1>1, <1>2, <1>5 DEF StoresOK
<1>7. CuratorTypeOK'
  BY <1>1, <1>2 DEF CuratorTypeOK
<1>8. ASSUME NEW p \in DOMAIN pair', pair'[p] = "renaming" PROVE p.src \in DOMAIN pts'
  <2>1. p # q /\ p \in DOMAIN pair /\ pair[p] = "renaming"
    BY <1>2, <1>8
  <2>2. p \in Renames /\ p.src \in DOMAIN pts
    BY <2>1 DEF PairsOK
  <2>3. p.src # q.src
    BY <1>3, <2>1, <2>2, RenamesTyped
  <2> QED BY <1>2, <2>2, <2>3 DEF Moved
<1>9. PairsOK' /\ IssuesOK'
  BY <1>1, <1>2, <1>8 DEF PairsOK, IssuesOK
<1> QED BY <1>6, <1>7, <1>9

LEMMA CsvKinds ==
  ASSUME KindsInv, NEW f \in Csvs, RewriteCsv(f)
  PROVE  StoresOK' /\ CuratorTypeOK' /\ IssuesOK' /\ PairsOK'
<1> USE DEF KindsInv, TypeOK
<1>1. UNCHANGED <<zips, pts, curator, issues, pair, tmp, failed, runs>>
  BY DEF RewriteCsv
<1>2. harm' \in 0..MaxHarm
  BY NamesAssumption DEF RewriteCsv, StoresOK
<1>3. file' = [file EXCEPT ![f] = "done"] \/ file' = [file EXCEPT ![f] = "error"]
  BY DEF RewriteCsv
<1>4. CuratorTypeOK' /\ IssuesOK' /\ PairsOK'
  BY <1>1, <1>3 DEF CuratorTypeOK, IssuesOK, PairsOK
<1> DEFINE New == [i \in DOMAIN csvs[f] |-> RowRewritten(csvs[f][i], issues.csv[f])]
<1>5. csvs' = csvs \/ csvs' = [csvs EXCEPT ![f] = New]
  BY DEF RewriteCsv
<1>6. csvs[f] \in Seq(Row)
  BY DEF StoresOK
<1>7. ASSUME NEW r \in Row PROVE RowRewritten(r, issues.csv[f]) \in Row
  <2>1. /\ issues.csv[f].artifact \subseteq Name /\ issues.csv[f].input \subseteq Path
    BY DEF RewriteCsv, IssuesOK
  <2>2. r.artifact \in Name => KeyOf(r.artifact, "clean") \in Name
    BY KeyOfTyped
  <2>3. r.input \in Path => [r.input EXCEPT !.name = KeyOf(r.input.name, r.input.dir)] \in Path
    <3>1. r.input \in Path => KeyOf(r.input.name, r.input.dir) \in Name
      BY KeyOfTyped DEF Path
    <3> QED BY <3>1 DEF Path
  <2> QED BY <2>1, <2>2, <2>3 DEF RowRewritten, Row
<1>8. New \in Seq(Row)
  <2>1. DOMAIN csvs[f] = 1..Len(csvs[f]) /\ Len(csvs[f]) \in Nat
        /\ \A i \in DOMAIN csvs[f] : csvs[f][i] \in Row
    BY <1>6
  <2> QED BY <1>7, <2>1
<1>9. csvs' \in [Csvs -> Seq(Row)]
  <2> HIDE DEF New
  <2> QED BY <1>5, <1>8 DEF StoresOK
<1> QED BY <1>1, <1>2, <1>4, <1>9 DEF StoresOK

LEMMA ZipKinds ==
  ASSUME KindsInv, NEW a \in Archives,
         WriteTmp(a) \/ CheckParity(a) \/ BeginMove(a) \/ EndMove(a)
  PROVE  StoresOK' /\ CuratorTypeOK' /\ IssuesOK' /\ PairsOK'
<1> USE DEF KindsInv, TypeOK
<1>1. UNCHANGED <<pts, csvs, issues, pair, failed, counters>>
  BY DEF WriteTmp, CheckParity, BeginMove, EndMove, stores
<1>2. curator' = curator \/ curator' = "failed"
  BY DEF WriteTmp, CheckParity, BeginMove, EndMove
<1>3. \/ file' = file
      \/ \E v \in {"error", "written", "checked", "moving", "done"} :
           file' = [file EXCEPT ![a] = v]
  BY DEF WriteTmp, CheckParity, BeginMove, EndMove
<1> DEFINE New == [i \in DOMAIN zips[a] |-> IF zips[a][i].name \in issues.zip[a]
                                            THEN [zips[a][i] EXCEPT !.name = KeyOf(@, NoHint)]
                                            ELSE zips[a][i]]
<1>4. /\ Stem(a) \in Stems /\ tmp \in [Stems -> Seq(Member) \cup {Absent}]
      /\ zips \in [Archives -> Seq(Member) \cup {Torn}]
  BY DEF Stems, CuratorTypeOK, StoresOK
<1>5. ASSUME zips[a] # Torn PROVE New \in Seq(Member)
  <2>1. zips[a] \in Seq(Member)
    BY <1>4, <1>5
  <2>2. DOMAIN zips[a] = 1..Len(zips[a]) /\ Len(zips[a]) \in Nat
        /\ \A i \in DOMAIN zips[a] : zips[a][i] \in Member
    BY <2>1
  <2>3. \A m \in Member : [m EXCEPT !.name = KeyOf(@, NoHint)] \in Member
    <3>1. \A m \in Member : KeyOf(m.name, NoHint) \in Name
      BY KeyOfTyped DEF Member
    <3> QED BY <3>1 DEF Member
  <2> QED BY <2>2, <2>3
<1>6. tmp' \in [Stems -> Seq(Member) \cup {Absent}]
  <2>1. \/ tmp' = tmp \/ tmp' = [tmp EXCEPT ![Stem(a)] = Absent]
        \/ zips[a] # Torn /\ tmp' = [tmp EXCEPT ![Stem(a)] = New]
    BY DEF WriteTmp, CheckParity, BeginMove, EndMove
  <2> HIDE DEF New
  <2> QED BY <1>4, <1>5, <2>1
<1>7. zips' \in [Archives -> Seq(Member) \cup {Torn}]
  <2>1. \/ zips' = zips \/ zips' = [zips EXCEPT ![a] = Torn]
        \/ tmp[Stem(a)] # Absent /\ zips' = [zips EXCEPT ![a] = tmp[Stem(a)]]
    BY DEF WriteTmp, CheckParity, BeginMove, EndMove, stores
  <2>2. tmp[Stem(a)] # Absent => tmp[Stem(a)] \in Seq(Member)
    BY <1>4
  <2> QED BY <1>4, <2>1, <2>2
<1>8. StoresOK'
  BY <1>1, <1>7 DEF StoresOK, counters
<1>9. CuratorTypeOK'
  BY <1>1, <1>2, <1>3, <1>6 DEF CuratorTypeOK, Resting
<1> QED BY <1>1, <1>8, <1>9 DEF IssuesOK, PairsOK

LEMMA CuratorKinds ==
  ASSUME KindsInv, CuratorStep PROVE KindsInv'
<1>1. JobTypeOK' /\ TasksOK'
  BY JobKeptKinds DEF CuratorStep
<1>2. StoresOK' /\ CuratorTypeOK' /\ IssuesOK' /\ PairsOK'
  <2>1. ASSUME NEW p \in DOMAIN pair, CheckPair(p) \/ RenamePair(p)
        PROVE  StoresOK' /\ CuratorTypeOK' /\ IssuesOK' /\ PairsOK'
    BY <2>1, CheckKinds, RenameKinds
  <2>2. ASSUME NEW f \in Csvs, RewriteCsv(f)
        PROVE  StoresOK' /\ CuratorTypeOK' /\ IssuesOK' /\ PairsOK'
    BY <2>2, CsvKinds
  <2>3. ASSUME NEW a \in Archives, WriteTmp(a) \/ CheckParity(a) \/ BeginMove(a) \/ EndMove(a)
        PROVE  StoresOK' /\ CuratorTypeOK' /\ IssuesOK' /\ PairsOK'
    BY <2>3, ZipKinds
  <2> QED
    BY <2>1, <2>2, <2>3, AuditKinds, PhaseKinds DEF CuratorStep, CuratorNext, CuratorWork
<1> QED BY <1>1, <1>2 DEF KindsInv, TypeOK

\* The job leaves the curator's state alone, and removes no graph.
LEMMA CuratorKeptKinds ==
  ASSUME KindsInv, UNCHANGED curatorVars, DOMAIN pts \subseteq DOMAIN pts'
  PROVE  CuratorTypeOK' /\ IssuesOK' /\ PairsOK'
BY DEF KindsInv, TypeOK, CuratorTypeOK, IssuesOK, PairsOK, curatorVars

\* Where a task's AIG is looked for.
LEMMA WalkedTyped ==
  ASSUME KindsInv, NEW a \in Inputs
  PROVE  Walked(a) \in Seq(Member) \cup {Torn}
BY DEF KindsInv, TypeOK, JobTypeOK, StoresOK, Walked, Inputs

LEMMA SubmitKinds ==
  ASSUME KindsInv, Submit
  PROVE  StoresOK' /\ JobTypeOK' /\ TasksOK' /\ DOMAIN pts \subseteq DOMAIN pts'
<1> USE DEF KindsInv, TypeOK
<1>1. UNCHANGED <<stores, harm>> /\ runs' = runs + 1 /\ runs < MaxRuns
  BY DEF Submit
<1>2. StoresOK' /\ DOMAIN pts \subseteq DOMAIN pts'
  BY <1>1, NamesAssumption DEF StoresOK, stores
<1>3. DOMAIN task' = {} /\ from' = <<>> /\ graph' = <<>> /\ drained' = {}
      /\ staged' = [a \in Inputs |-> NotStaged("todo")]
      /\ phase' \in {"staging", "discover"} /\ options' \in Options
  BY DEF Submit
<1>4. staged' \in [Inputs -> [state : {"todo", "skipped", "error", "staged"},
                             members : Seq(Member)]]
  BY <1>3 DEF NotStaged
<1>5. DOMAIN from' = {} /\ DOMAIN graph' = {}
  BY <1>3
<1>6. from' \in [DOMAIN task' -> Inputs] /\ graph' \in [DOMAIN task' -> Name \cup {None}]
  BY <1>3, <1>5
<1>7. JobTypeOK' /\ TasksOK'
  BY <1>3, <1>4, <1>6 DEF JobTypeOK, TasksOK
<1> QED BY <1>2, <1>7

LEMMA StageKinds ==
  ASSUME KindsInv, Staged \/ \E a \in Inputs : Stage(a)
  PROVE  StoresOK' /\ JobTypeOK' /\ TasksOK' /\ DOMAIN pts \subseteq DOMAIN pts'
<1> USE DEF KindsInv, TypeOK
<1>1. UNCHANGED <<stores, options, from, task, graph, drained, counters>>
      /\ phase = "staging" /\ phase' \in {phase, "failed", "discover"}
  BY DEF Staged, Stage
<1>2. StoresOK' /\ DOMAIN pts \subseteq DOMAIN pts'
  BY <1>1 DEF StoresOK, stores, counters
<1>3. staged' \in [Inputs -> [state : {"todo", "skipped", "error", "staged"},
                             members : Seq(Member)]]
  <2>1. CASE Staged
    BY <2>1 DEF Staged, JobTypeOK
  <2>2. ASSUME NEW a \in Inputs, Stage(a)
        PROVE  staged' \in [Inputs -> [state : {"todo", "skipped", "error", "staged"},
                                       members : Seq(Member)]]
    <3>1. zips[a] = Torn \/ zips[a] \in Seq(Member)
      BY DEF StoresOK, Inputs
    <3> DEFINE New == IF zips[a] = Torn THEN NotStaged("error")
                      ELSE IF Missing(a) THEN [state |-> "staged", members |-> zips[a]]
                      ELSE NotStaged("skipped")
    <3>2. New \in [state : {"todo", "skipped", "error", "staged"}, members : Seq(Member)]
      BY <3>1 DEF NotStaged
    <3>3. staged' = [staged EXCEPT ![a] = New]
      BY <2>2 DEF Stage
    <3> HIDE DEF New
    <3> QED BY <3>2, <3>3 DEF JobTypeOK
  <2> QED BY <2>1, <2>2
<1>4. JobTypeOK'
  BY <1>1, <1>3 DEF JobTypeOK, AtRest
<1>5. TasksOK'
  BY <1>1 DEF TasksOK
<1> QED BY <1>2, <1>4, <1>5

LEMMA FoundTyped ==
  ASSUME KindsInv, ~Unreadable
  PROVE  Tasks \subseteq {n \in Name : AigAccepted(n)}
<1>1. ASSUME NEW a \in Inputs PROVE Found(a) \subseteq {n \in Name : AigAccepted(n)}
  <2>1. Walked(a) \in Seq(Member)
    BY WalkedTyped DEF Unreadable
  <2> QED BY <2>1, MembersTyped DEF Found
<1> QED BY <1>1 DEF Tasks

LEMMA DiscoverKinds ==
  ASSUME KindsInv, Discover
  PROVE  StoresOK' /\ JobTypeOK' /\ TasksOK' /\ DOMAIN pts \subseteq DOMAIN pts'
<1> USE DEF KindsInv, TypeOK
<1>1. UNCHANGED <<stores, options, staged, drained, counters>>
      /\ phase' \in {"running", "failed"}
  BY DEF Discover
<1>2. StoresOK' /\ DOMAIN pts \subseteq DOMAIN pts'
  BY <1>1 DEF StoresOK, stores, counters
<1>3. CASE UNCHANGED <<from, task, graph>>
  <2>1. JobTypeOK'
    BY <1>1, <1>3 DEF JobTypeOK, AtRest
  <2>2. TasksOK'
    BY <1>1, <1>3 DEF TasksOK
  <2> QED BY <1>2, <2>1, <2>2
<1>4. CASE ~UNCHANGED <<from, task, graph>>
  <2>1. /\ ~Unreadable /\ from' \in [Tasks -> Inputs]
        /\ task' = [n \in Tasks |-> "todo"] /\ graph' = [n \in Tasks |-> None]
    BY <1>4 DEF Discover
  <2>2. drained = {}
    BY DEF Discover, TasksOK, JobTypeOK
  <2>3. phase' = "running"
    BY <1>4 DEF Discover
  <2> QED BY <1>1, <1>2, <2>1, <2>2, <2>3, FoundTyped DEF JobTypeOK, TasksOK
<1> QED BY <1>3, <1>4

\* A step of one task that keeps what the others are and takes no result back.
LEMMA TaskStepKinds ==
  ASSUME KindsInv, NEW n \in DOMAIN task,
         task[n] \notin Finished, phase \notin {"staging", "discover"},
         NEW v \in Finished \cup {"todo", "queued", "building", "saving"},
         task' = [task EXCEPT ![n] = v],
         UNCHANGED <<phase, options, staged, from, drained>>,
         graph' \in [DOMAIN task -> Name \cup {None}],
         \A m \in DOMAIN task : m # n => graph'[m] = graph[m],
         v = "saving" => graph'[n] \in Name
  PROVE  JobTypeOK' /\ TasksOK'
<1> USE DEF KindsInv, TypeOK
<1>1. DOMAIN task' = DOMAIN task /\ task'[n] = v
      /\ \A m \in DOMAIN task : m # n => task'[m] = task[m]
  OBVIOUS
<1>2. drained' \subseteq {m \in DOMAIN task' : task'[m] \in Finished}
  BY <1>1 DEF JobTypeOK
<1>3. JobTypeOK'
  BY <1>1, <1>2 DEF JobTypeOK
<1>4. TasksOK'
  BY <1>1 DEF TasksOK
<1> QED BY <1>3, <1>4

LEMMA PoolKinds ==
  ASSUME KindsInv, NEW n \in DOMAIN task, Enqueue(n) \/ Take(n) \/ Raise(n)
  PROVE  StoresOK' /\ JobTypeOK' /\ TasksOK' /\ DOMAIN pts \subseteq DOMAIN pts'
<1>1. UNCHANGED <<stores, phase, options, staged, from, graph, drained, runs>>
      /\ phase \in {"running", "stopping"}
  BY DEF Enqueue, Take, Raise, counters
<1>2. harm' = harm \/ (harm < MaxHarm /\ harm' = harm + 1)
  <2>1. CASE Enqueue(n) \/ Take(n)
    <3>1. UNCHANGED counters
      BY <2>1 DEF Enqueue, Take
    <3> QED BY <3>1 DEF counters
  <2>2. CASE Raise(n)
    BY <2>2 DEF Raise
  <2> QED BY <2>1, <2>2
<1>3. StoresOK' /\ DOMAIN pts \subseteq DOMAIN pts'
  BY <1>1, <1>2, NamesAssumption DEF KindsInv, TypeOK, StoresOK, stores
<1>4. /\ task[n] \in {"todo", "queued", "building", "saving"}
      /\ \E v \in Finished \cup {"todo", "queued", "building"} :
           task' = [task EXCEPT ![n] = v]
  BY DEF Enqueue, Take, Raise, Finished
<1>5. graph' \in [DOMAIN task -> Name \cup {None}]
  BY <1>1 DEF KindsInv, TypeOK, JobTypeOK
<1> QED BY <1>1, <1>3, <1>4, <1>5, TaskStepKinds DEF Finished

\* What a task that reads its AIG finds.
LEMMA ReadTyped ==
  ASSUME KindsInv, NEW n \in DOMAIN task, Readable(n)
  PROVE  LastContent(Walked(from[n]), n) \in Name
<1>1. from[n] \in Inputs
  BY DEF KindsInv, TypeOK, JobTypeOK
<1>2. Walked(from[n]) \in Seq(Member)
  BY <1>1, WalkedTyped DEF Readable
<1> QED BY <1>2, LastContentTyped DEF Readable

LEMMA WriteKinds ==
  ASSUME KindsInv, NEW n \in DOMAIN task, Build(n) \/ Save(n)
  PROVE  StoresOK' /\ JobTypeOK' /\ TasksOK' /\ DOMAIN pts \subseteq DOMAIN pts'
<1>1. UNCHANGED <<zips, csvs, phase, options, staged, from, drained, counters>>
      /\ phase \in {"running", "stopping"} /\ task[n] \in {"building", "saving"}
  BY DEF Build, Save
<1>2. n \in Name /\ AigAccepted(n) /\ OutputPath(n) \in Path
  BY TaskPath DEF KindsInv, TypeOK, JobTypeOK, TasksOK
<1>3. /\ graph' \in [DOMAIN task -> Name \cup {None}]
      /\ \A m \in DOMAIN task : m # n => graph'[m] = graph[m]
      /\ \E v \in Finished \cup {"todo", "queued", "building", "saving"} :
           task' = [task EXCEPT ![n] = v] /\ (v = "saving" => graph'[n] \in Name)
  <2>1. graph \in [DOMAIN task -> Name \cup {None}]
    BY DEF KindsInv, TypeOK, JobTypeOK
  <2>2. CASE Build(n)
    BY <2>1, <2>2, ReadTyped DEF Build
  <2>3. CASE Save(n)
    BY <2>1, <2>3 DEF Save, Finished
  <2> QED BY <2>2, <2>3
<1>4. /\ DOMAIN pts \subseteq DOMAIN pts' /\ DOMAIN pts' \subseteq Path
      /\ \A p \in DOMAIN pts' : pts'[p] \in Name \cup {Torn}
  <2>1. /\ DOMAIN pts \subseteq Path /\ \A p \in DOMAIN pts : pts[p] \in Name \cup {Torn}
    BY DEF KindsInv, TypeOK, StoresOK
  <2>2. CASE Build(n)
    BY <1>2, <2>1, <2>2 DEF Build
  <2>3. CASE Save(n) /\ pts' = pts
    BY <2>1, <2>3
  <2>4. CASE Save(n) /\ pts' # pts
    <3>1. pts' = [pts EXCEPT ![OutputPath(n)] = graph[n]]
      BY <2>4 DEF Save
    <3>2. task[n] = "saving"
      BY <2>4 DEF Save
    <3>3. graph[n] \in Name
      BY <2>4, <3>2 DEF KindsInv, TasksOK
    <3> QED BY <2>1, <3>1, <3>3
  <2> QED BY <2>2, <2>3, <2>4
<1>5. StoresOK'
  BY <1>1, <1>4 DEF KindsInv, TypeOK, StoresOK, counters
<1> QED BY <1>1, <1>3, <1>4, <1>5, TaskStepKinds DEF Finished

\* Steps of the parent, and the kill.
LEMMA ParentKinds ==
  ASSUME KindsInv, Drain \/ Complete \/ Shutdown \/ KillJob
  PROVE  StoresOK' /\ JobTypeOK' /\ TasksOK' /\ DOMAIN pts \subseteq DOMAIN pts'
<1>1. UNCHANGED <<stores, options, staged, from, task, graph, runs>>
      /\ phase' \in {phase, "stopping", "success", "failed"}
  BY DEF Drain, Complete, Shutdown, KillJob, counters
<1>2. harm' = harm \/ (harm < MaxHarm /\ harm' = harm + 1)
  <2>1. CASE Drain \/ Complete \/ Shutdown
    <3>1. UNCHANGED counters
      BY <2>1 DEF Drain, Complete, Shutdown
    <3> QED BY <3>1 DEF counters
  <2>2. CASE KillJob
    BY <2>2 DEF KillJob
  <2> QED BY <2>1, <2>2
<1>3. StoresOK' /\ DOMAIN pts \subseteq DOMAIN pts'
  BY <1>1, <1>2, NamesAssumption DEF KindsInv, TypeOK, StoresOK, stores
<1>4. drained' \subseteq With(Finished)
  <2>1. drained \subseteq With(Finished)
    BY DEF KindsInv, TypeOK, JobTypeOK, With
  <2>2. drained' = drained \/ drained' = drained \cup (Pending \cap With(Finished))
    BY DEF Drain, Complete, Shutdown, KillJob
  <2> QED BY <2>1, <2>2
<1>5. JobTypeOK'
  BY <1>1, <1>4 DEF KindsInv, TypeOK, JobTypeOK, AtRest, With
<1>6. TasksOK'
  BY <1>1 DEF KindsInv, TasksOK
<1> QED BY <1>3, <1>5, <1>6

LEMMA JobKinds ==
  ASSUME KindsInv, JobStep PROVE KindsInv'
<1>1. StoresOK' /\ JobTypeOK' /\ TasksOK' /\ DOMAIN pts \subseteq DOMAIN pts'
  <2>1. ASSUME NEW n \in DOMAIN task,
               Enqueue(n) \/ Take(n) \/ Build(n) \/ Save(n) \/ Raise(n)
        PROVE  StoresOK' /\ JobTypeOK' /\ TasksOK' /\ DOMAIN pts \subseteq DOMAIN pts'
    BY <2>1, PoolKinds, WriteKinds
  <2> QED
    BY <2>1, SubmitKinds, StageKinds, DiscoverKinds, ParentKinds DEF JobStep, JobNext, JobWork
<1>2. CuratorTypeOK' /\ IssuesOK' /\ PairsOK'
  BY <1>1, CuratorKeptKinds DEF JobStep
<1> QED BY <1>1, <1>2 DEF KindsInv, TypeOK

LEMMA KindsInductive == Spec => []KindsInv
<1>1. KindsInv /\ UNCHANGED prepVars => KindsInv'
  BY DEF prepVars, stores, counters, curatorVars, jobVars, KindsInv, TypeOK, StoresOK,
         CuratorTypeOK, JobTypeOK, IssuesOK, PairsOK, TasksOK
<1> QED BY <1>1, InitKindsInv, JobKinds, CuratorKinds, PTL DEF Spec, Next

(***************************************************************************)
(* Stores, audits, cleanups and jobs keep their types, for any names, data *)
(* sets, threads and kills.                                                *)
(***************************************************************************)
THEOREM TypeCorrect == Spec => []TypeOK
<1>1. KindsInv => TypeOK
  BY DEF KindsInv
<1> QED BY <1>1, KindsInductive, PTL


-----------------------------------------------------------------------------
(* Torn graphs *)

\* While no call has failed and nothing was killed, a torn graph has its
\* writer; a graph in memory is whole; tasks are being saved only by a job
\* that runs.
TornInv ==
  /\ TornByFaultOnly
  /\ phase \notin {"running", "stopping"} =>
       harm > 0 \/ \A n \in DOMAIN task : task[n] # "saving"

-----------------------------------------------------------------------------
(* What a job that nothing disturbs has done *)

\* Staging keeps whole archives, and leaves out only what has its graphs.
StagedRight(a) ==
  CASE staged[a].state = "staged"  -> zips[a] # Torn /\ staged[a].members = zips[a]
    [] staged[a].state = "skipped" ->
         /\ staged[a].members = <<>> /\ zips[a] # Torn
         /\ \A n \in MemberNames(zips[a]) :
              AigAccepted(n) => OutputPath(n) \in DOMAIN pts
    [] OTHER -> staged[a].members = <<>>

\* A task has its AIG in a whole archive; what it has saved is that AIG's graph.
TaskRight(n) ==
  /\ zips[from[n]] # Torn /\ n \in MemberNames(zips[from[n]])
  /\ Walked(from[n]) = zips[from[n]]
  /\ task[n] \in {"saving", "saved", "skipped"} => OutputPath(n) \in DOMAIN pts
  /\ task[n] = "saving" => /\ pts[OutputPath(n)] = Torn
                           /\ graph[n] = LastContent(zips[from[n]], n)
  /\ task[n] = "saved" => pts[OutputPath(n)] = LastContent(zips[from[n]], n)
  /\ task[n] = "skipped" => ~options.overwrite

\* Whatever the archives call for has its graph or its task.
Covered == \A n \in Wanted : n \in DOMAIN task \/ OutputPath(n) \in DOMAIN pts

CalmInv ==
  calm =>
    /\ \A a \in Inputs : StagedRight(a)
    /\ phase = "discover" /\ options.staged =>
         \A a \in Inputs : staged[a].state \in {"staged", "skipped"}
    /\ \A n \in DOMAIN task : TaskRight(n)
    /\ phase \in {"running", "success"} => Covered
    /\ phase = "success" => \A n \in DOMAIN task : task[n] \in {"saved", "skipped"}

JobsInv == KindsInv /\ TornInv /\ CalmInv

LEMMA InitTornInv == Init => TornInv
<1> SUFFICES ASSUME Init PROVE TornInv
  OBVIOUS
<1>1. PICK d \in Initial : pts = d.pts
  BY DEF Init
<1>2. \A p \in DOMAIN pts : pts[p] # Torn
  BY <1>1, InitialAssumption
<1>3. DOMAIN task = {}
  BY DEF Init, JobInit
<1> QED BY <1>2, <1>3 DEF TornInv, TornByFaultOnly

\* Harm is never undone.
LEMMA HarmStays == KindsInv /\ Next => (harm > 0 => harm' > 0)
<1> SUFFICES ASSUME KindsInv, Next, harm > 0 PROVE harm' > 0
  OBVIOUS
<1>1. harm \in Nat
  BY NamesAssumption DEF KindsInv, TypeOK, StoresOK
<1>2. harm' = harm \/ harm' = harm + 1
  <2>1. CASE CuratorStep
    <3>1. CASE StartAudit \/ StartCleanup \/ KillCurator \/ \E p \in DOMAIN pair : RenamePair(p)
      BY <3>1 DEF StartAudit, StartCleanup, KillCurator, RenamePair
    <3>2. CASE \E f \in Csvs : RewriteCsv(f)
      BY <3>2 DEF RewriteCsv
    <3>3. ASSUME \/ ScanCsvs \/ ScanZips \/ ScanPts
                 \/ SkipPhase \/ VerifyPts \/ VerifyCsvs \/ VerifyZips
                 \/ \E p \in DOMAIN pair : CheckPair(p)
                 \/ \E a \in Archives : WriteTmp(a) \/ CheckParity(a) \/ BeginMove(a) \/ EndMove(a)
          PROVE  harm' = harm
      <4>1. UNCHANGED counters
        BY <3>3 DEF ScanCsvs, ScanZips, ScanPts, SkipPhase, VerifyPts, VerifyCsvs, VerifyZips,
                    CheckPair, WriteTmp, CheckParity, BeginMove, EndMove
      <4> QED BY <4>1 DEF counters
    <3> QED BY <2>1, <3>1, <3>2, <3>3 DEF CuratorStep, CuratorNext, CuratorWork
  <2>2. CASE JobStep
    <3>1. CASE Submit \/ KillJob \/ \E n \in DOMAIN task : Raise(n)
      BY <3>1 DEF Submit, KillJob, Raise
    <3>2. ASSUME \/ Staged \/ Discover \/ Drain \/ Complete \/ Shutdown
                 \/ \E a \in Inputs : Stage(a)
                 \/ \E n \in DOMAIN task : Enqueue(n) \/ Take(n) \/ Build(n) \/ Save(n)
          PROVE  harm' = harm
      <4>1. UNCHANGED counters
        BY <3>2 DEF Staged, Discover, Drain, Complete, Shutdown, Stage, Enqueue, Take, Build, Save
      <4> QED BY <4>1 DEF counters
    <3> QED BY <2>2, <3>1, <3>2 DEF JobStep, JobNext, JobWork
  <2> QED BY <2>1, <2>2 DEF Next
<1> QED BY <1>1, <1>2

\* The cleanup changes graphs by renames only.
LEMMA CuratorMoves ==
  ASSUME KindsInv, CuratorStep
  PROVE  pts' = pts \/ \E q \in DOMAIN pair : pair[q] = "renaming" /\ pts' = Moved(q)
<1>1. CASE \E q \in DOMAIN pair : RenamePair(q)
  BY <1>1 DEF RenamePair
<1>2. CASE ~\E q \in DOMAIN pair : RenamePair(q)
  BY <1>2 DEF CuratorStep, CuratorNext, CuratorWork, StartAudit, StartCleanup, KillCurator,
              ScanCsvs, ScanZips, ScanPts, SkipPhase, VerifyPts, VerifyCsvs, VerifyZips,
              CheckPair, RewriteCsv, WriteTmp, CheckParity, BeginMove, EndMove, stores
<1> QED BY <1>1, <1>2

LEMMA CuratorTorn ==
  ASSUME KindsInv, TornInv, CuratorStep PROVE TornInv'
<1>1. UNCHANGED jobVars /\ (harm > 0 => harm' > 0)
  BY HarmStays DEF CuratorStep, Next
<1>2. ASSUME NEW p \in DOMAIN pts', pts'[p] = Torn
      PROVE  harm' > 0 \/ \E n \in DOMAIN task : task[n] = "saving" /\ OutputPath(n) = p
  <2>1. CASE pts' = pts
    BY <1>1, <1>2, <2>1 DEF TornInv, TornByFaultOnly
  <2>2. ASSUME NEW q \in DOMAIN pair, pair[q] = "renaming", pts' = Moved(q)
        PROVE  harm' > 0 \/ \E n \in DOMAIN task : task[n] = "saving" /\ OutputPath(n) = p
    <3>1. q \in Renames /\ q.src \in DOMAIN pts
      BY <2>2 DEF KindsInv, PairsOK
    <3>2. CASE p = q.dst
      <4>1. pts[q.src] = Torn
        BY <1>2, <2>2, <3>2 DEF Moved
      <4>2. ASSUME NEW n \in DOMAIN task PROVE OutputPath(n) # q.src
        <5>1. n \in Name /\ AigAccepted(n)
          BY DEF KindsInv, TypeOK, JobTypeOK, TasksOK
        <5> QED BY <3>1, <5>1, RenamesTyped
      <4> QED BY <1>1, <3>1, <4>1, <4>2 DEF TornInv, TornByFaultOnly
    <3>3. CASE p # q.dst
      <4>1. p \in DOMAIN pts /\ pts[p] = Torn
        BY <1>2, <2>2, <3>3 DEF Moved
      <4> QED BY <1>1, <4>1 DEF TornInv, TornByFaultOnly
    <3> QED BY <3>2, <3>3
  <2> QED BY <2>1, <2>2, CuratorMoves
<1>3. UNCHANGED <<task, phase>>
  BY <1>1 DEF jobVars
<1>4. TornByFaultOnly'
  BY <1>2, <1>3 DEF TornByFaultOnly
<1> QED BY <1>1, <1>3, <1>4 DEF TornInv

LEMMA OutputPathInjective == \A m, n : OutputPath(m) = OutputPath(n) => m = n
BY DEF OutputPath

\* A task that starts or ends writing.
LEMMA WriteTorn ==
  ASSUME KindsInv, TornInv, NEW n \in DOMAIN task, Build(n) \/ Save(n), harm' = harm
  PROVE  TornInv'
<1>1. phase' = phase /\ phase \in {"running", "stopping"}
  BY DEF Build, Save
<1>2. DOMAIN task' = DOMAIN task /\ \A m \in DOMAIN task : m # n => task'[m] = task[m]
  BY DEF Build, Save
<1>3. ASSUME NEW p \in DOMAIN pts', pts'[p] = Torn
      PROVE  harm > 0 \/ \E m \in DOMAIN task : task'[m] = "saving" /\ OutputPath(m) = p
  <2>1. CASE Build(n)
    <3>1. task'[n] = "saving"
      BY <2>1 DEF Build
    <3>2. CASE p = OutputPath(n)
      BY <3>1, <3>2
    <3>3. CASE p # OutputPath(n)
      <4>1. p \in DOMAIN pts /\ pts[p] = Torn
        BY <1>3, <2>1, <3>3 DEF Build
      <4> QED BY <1>2, <3>1, <4>1 DEF TornInv, TornByFaultOnly
    <3> QED BY <3>2, <3>3
  <2>2. CASE Save(n)
    <3>1. graph[n] \in Name /\ task[n] = "saving"
      BY <2>2 DEF Save, KindsInv, TasksOK
    <3>2. p \in DOMAIN pts /\ pts[p] = Torn /\ p # OutputPath(n)
      <4>1. CASE pts[OutputPath(n)] = Torn
        <5>1. pts' = [pts EXCEPT ![OutputPath(n)] = graph[n]]
          BY <2>2, <4>1 DEF Save
        <5> QED BY <1>3, <3>1, <5>1, InitialAssumption
      <4>2. CASE pts[OutputPath(n)] # Torn
        <5>1. pts' = pts
          BY <2>2, <4>2 DEF Save
        <5> QED BY <1>3, <4>2, <5>1
      <4> QED BY <4>1, <4>2
    <3> QED BY <1>2, <3>2 DEF TornInv, TornByFaultOnly
  <2> QED BY <2>1, <2>2
<1>4. TornByFaultOnly'
  BY <1>2, <1>3 DEF TornByFaultOnly
<1> QED BY <1>1, <1>4 DEF TornInv

LEMMA JobTorn ==
  ASSUME KindsInv, TornInv, JobStep PROVE TornInv'
<1>1. harm > 0 => harm' > 0
  BY HarmStays DEF Next
<1>2. ASSUME NEW n \in DOMAIN task, Build(n) \/ Save(n) PROVE TornInv'
  <2>1. UNCHANGED counters
    BY <1>2 DEF Build, Save
  <2> QED BY <1>2, <2>1, WriteTorn DEF counters
<1>3. ASSUME NEW n \in DOMAIN task, Enqueue(n) \/ Take(n) PROVE TornInv'
  <2>1. pts' = pts /\ phase' = phase /\ phase \in {"running", "stopping"}
    BY <1>3 DEF Enqueue, Take, stores
  <2>2. DOMAIN task' = DOMAIN task
        /\ \A m \in DOMAIN task : task[m] = "saving" => task'[m] = "saving"
    BY <1>3 DEF Enqueue, Take
  <2> QED BY <1>1, <2>1, <2>2 DEF TornInv, TornByFaultOnly
<1>4. ASSUME NEW n \in DOMAIN task, Raise(n) PROVE TornInv'
  <2>1. /\ pts' = pts /\ phase' = phase /\ phase \in {"running", "stopping"}
        /\ task' = [task EXCEPT ![n] = "error"]
        /\ task[n] = "building" \/ (harm < MaxHarm /\ harm' = harm + 1)
    BY <1>4 DEF Raise, stores
  <2>2. harm \in Nat
    BY NamesAssumption DEF KindsInv, TypeOK, StoresOK
  <2>3. CASE harm' > 0
    BY <2>1, <2>3 DEF TornInv, TornByFaultOnly
  <2>4. CASE task[n] = "building"
    <3>1. DOMAIN task' = DOMAIN task
          /\ \A m \in DOMAIN task : task[m] = "saving" => task'[m] = "saving"
      BY <2>1, <2>4
    <3> QED BY <1>1, <2>1, <3>1 DEF TornInv, TornByFaultOnly
  <2> QED BY <2>1, <2>2, <2>3, <2>4
<1>5. CASE Submit
  <2>1. DOMAIN task' = {} /\ pts' = pts /\ phase \in AtRest
    BY <1>5 DEF Submit, stores
  <2>2. harm > 0 \/ \A n \in DOMAIN task : task[n] # "saving"
    BY <2>1 DEF TornInv, AtRest
  <2> QED BY <1>1, <2>1, <2>2 DEF TornInv, TornByFaultOnly
<1>6. CASE Discover
  <2>1. pts' = pts /\ phase = "discover" /\ \A n \in DOMAIN task : FALSE
    BY <1>6 DEF Discover, stores, KindsInv, TasksOK
  <2>2. \A n \in DOMAIN task' : task'[n] # "saving"
    BY <1>6, <2>1 DEF Discover
  <2> QED BY <1>1, <2>1, <2>2 DEF TornInv, TornByFaultOnly
<1>7. ASSUME Drain \/ Staged \/ \E a \in Inputs : Stage(a) PROVE TornInv'
  <2>1. /\ UNCHANGED <<pts, task>>
        /\ phase' \in {"running", "stopping"} \/ phase \notin {"running", "stopping"}
    BY <1>7 DEF Drain, Staged, Stage, stores
  <2> QED BY <1>1, <2>1 DEF TornInv, TornByFaultOnly
<1>8. CASE Complete \/ Shutdown
  <2>1. UNCHANGED <<pts, task>>
    BY <1>8 DEF Complete, Shutdown, stores
  <2>2. \A n \in DOMAIN task : task[n] # "saving"
    <3>1. drained \subseteq {n \in DOMAIN task : task[n] \in Finished}
      BY DEF KindsInv, TypeOK, JobTypeOK
    <3>2. CASE Complete
      BY <3>1, <3>2 DEF Complete, Finished
    <3>3. CASE Shutdown
      BY <3>1, <3>3 DEF Shutdown, Pending, With, Finished
    <3> QED BY <1>8, <3>2, <3>3
  <2> QED BY <1>1, <2>1, <2>2 DEF TornInv, TornByFaultOnly
<1>9. CASE KillJob
  <2>1. UNCHANGED <<pts, task>> /\ harm' = harm + 1
    BY <1>9 DEF KillJob, stores
  <2>2. harm' > 0
    BY <2>1, NamesAssumption DEF KindsInv, TypeOK, StoresOK
  <2> QED BY <2>1, <2>2 DEF TornInv, TornByFaultOnly
<1> QED
  BY <1>2, <1>3, <1>4, <1>5, <1>6, <1>7, <1>8, <1>9 DEF JobStep, JobNext, JobWork


LEMMA InitCalmInv == Init => CalmInv
BY DEF Init, CalmInv

\* What a job has done stands while nobody changes the stores.
LEMMA CuratorCalm ==
  ASSUME CalmInv, CuratorStep PROVE CalmInv'
<1> SUFFICES ASSUME calm' PROVE CalmInv'
  BY DEF CalmInv
<1>1. calm /\ UNCHANGED <<zips, pts>> /\ UNCHANGED jobVars
  BY DEF CuratorStep, stores
<1>2. UNCHANGED <<phase, options, staged, from, task, graph>>
  BY <1>1 DEF jobVars
<1>3. Wanted' = Wanted
  BY <1>1, <1>2 DEF Wanted, DesignAgrees
<1>4. \A n \in DOMAIN task : TaskRight(n) => TaskRight(n)'
  BY <1>1, <1>2 DEF TaskRight, Walked
<1>5. \A a \in Inputs : StagedRight(a) => StagedRight(a)'
  BY <1>1, <1>2 DEF StagedRight
<1> QED BY <1>1, <1>2, <1>3, <1>4, <1>5 DEF CalmInv, Covered

\* A job changes no archive and removes no graph.
LEMMA JobGrows ==
  ASSUME KindsInv, JobStep PROVE zips' = zips /\ DOMAIN pts \subseteq DOMAIN pts'
<1>1. zips' = zips
  BY DEF JobStep, JobNext, JobWork, Submit, Stage, Staged, Discover, Drain, Complete, Shutdown,
         KillJob, Enqueue, Take, Build, Save, Raise, stores
<1>2. DOMAIN pts \subseteq DOMAIN pts'
  <2>1. ASSUME NEW n \in DOMAIN task,
               Enqueue(n) \/ Take(n) \/ Build(n) \/ Save(n) \/ Raise(n)
        PROVE  DOMAIN pts \subseteq DOMAIN pts'
    BY <2>1, PoolKinds, WriteKinds
  <2> QED
    BY <2>1, SubmitKinds, StageKinds, DiscoverKinds, ParentKinds DEF JobStep, JobNext, JobWork
<1> QED BY <1>1, <1>2

LEMMA StagedKept ==
  ASSUME NEW a \in Inputs, StagedRight(a), staged'[a] = staged[a], zips' = zips,
         DOMAIN pts \subseteq DOMAIN pts'
  PROVE  StagedRight(a)'
BY DEF StagedRight

LEMMA SubmitCalm ==
  ASSUME Submit PROVE CalmInv'
<1>1. /\ DOMAIN task' = {} /\ staged' = [a \in Inputs |-> NotStaged("todo")]
      /\ phase' = "staging" \/ (phase' = "discover" /\ ~options'.staged)
  BY DEF Submit
<1>2. \A a \in Inputs : StagedRight(a)'
  BY <1>1 DEF StagedRight, NotStaged
<1> QED BY <1>1, <1>2 DEF CalmInv

LEMMA StageCalm ==
  ASSUME KindsInv, CalmInv, calm, NEW a \in Inputs, Stage(a) PROVE CalmInv'
<1>1. UNCHANGED <<zips, pts, phase, options, from, task, graph>> /\ phase = "staging"
  BY DEF Stage, stores
<1>2. DOMAIN task = {}
  BY <1>1 DEF KindsInv, TasksOK
<1>3. staged \in [Inputs -> [state : {"todo", "skipped", "error", "staged"}, members : Seq(Member)]]
  BY DEF KindsInv, TypeOK, JobTypeOK
<1>4. StagedRight(a)'
  <2>1. CASE zips[a] = Torn
    <3>1. staged'[a] = NotStaged("error")
      BY <1>3, <2>1 DEF Stage
    <3> QED BY <3>1 DEF StagedRight, NotStaged
  <2>2. CASE zips[a] # Torn /\ Missing(a)
    <3>1. staged'[a] = [state |-> "staged", members |-> zips[a]]
      BY <1>3, <2>2 DEF Stage
    <3> QED BY <1>1, <2>2, <3>1 DEF StagedRight
  <2>3. CASE zips[a] # Torn /\ ~Missing(a)
    <3>1. staged'[a] = NotStaged("skipped")
      BY <1>3, <2>3 DEF Stage
    <3> QED BY <1>1, <2>3, <3>1 DEF StagedRight, NotStaged, Missing
  <2> QED BY <2>1, <2>2, <2>3
<1>5. ASSUME NEW b \in Inputs, b # a PROVE StagedRight(b)'
  <2>1. staged'[b] = staged[b]
    BY <1>3, <1>5 DEF Stage
  <2>2. StagedRight(b)
    BY DEF CalmInv
  <2> QED BY <1>1, <2>1, <2>2, StagedKept
<1> QED BY <1>1, <1>2, <1>4, <1>5 DEF CalmInv

\* Discovery gives every graph called for a task, unless staging found it made.
LEMMA DiscoverCalm ==
  ASSUME KindsInv, CalmInv, calm, Discover PROVE CalmInv'
<1>1. UNCHANGED <<zips, pts, options, staged>> /\ phase = "discover"
      /\ phase' \in {"running", "failed"}
  BY DEF Discover, stores
<1>2. DOMAIN task = {}
  BY <1>1 DEF KindsInv, TasksOK
<1>3. \A a \in Inputs : StagedRight(a)'
  <2>1. \A a \in Inputs : StagedRight(a)
    BY DEF CalmInv
  <2> QED BY <1>1, <2>1, StagedKept
<1>4. CASE phase' = "failed"
  <2>1. DOMAIN task' = {}
    BY <1>2, <1>4 DEF Discover
  <2> QED BY <1>3, <1>4, <2>1 DEF CalmInv
<1>5. CASE phase' = "running"
  <2>1. /\ ~Unreadable /\ from' \in [Tasks -> Inputs]
        /\ \A n \in Tasks : n \in Found(from'[n])
        /\ task' = [n \in Tasks |-> "todo"]
    BY <1>5 DEF Discover
  <2>2. ASSUME NEW a \in Inputs, NEW n \in MemberNames(Walked(a))
        PROVE  zips[a] # Torn /\ Walked(a) = zips[a]
    <3>1. CASE options.staged
      <4>1. staged[a].state \in {"staged", "skipped"} /\ StagedRight(a)
        BY <1>1, <3>1 DEF CalmInv
      <4>2. staged[a].members # <<>>
        BY <2>2, <3>1 DEF Walked, MemberNames
      <4> QED BY <3>1, <4>1, <4>2 DEF StagedRight, Walked
    <3>2. CASE ~options.staged
      BY <2>1, <3>2 DEF Walked, Unreadable
    <3> QED BY <3>1, <3>2
  <2>3. ASSUME NEW n \in DOMAIN task' PROVE TaskRight(n)'
    <3>1. n \in Tasks /\ from'[n] \in Inputs /\ n \in Found(from'[n]) /\ task'[n] = "todo"
      BY <2>1, <2>3
    <3>2. n \in MemberNames(Walked(from'[n]))
      BY <3>1 DEF Found
    <3>3. zips[from'[n]] # Torn /\ Walked(from'[n]) = zips[from'[n]]
      BY <2>2, <3>1, <3>2
    <3>4. Walked(from[n])' = Walked(from'[n])
      BY <1>1 DEF Walked
    <3> QED BY <1>1, <3>1, <3>2, <3>3, <3>4 DEF TaskRight
  <2>4. ASSUME NEW n \in Wanted PROVE n \in DOMAIN task' \/ OutputPath(n) \in DOMAIN pts
    <3>1. AigAccepted(n)
      BY DEF Wanted
    <3>2. PICK a \in Inputs : zips[a] # Torn /\ n \in MemberNames(zips[a]) /\ DesignAgrees(n, a)
      BY DEF Wanted
    <3>3. CASE options.staged /\ staged[a].state = "skipped"
      BY <3>1, <3>2, <3>3 DEF CalmInv, StagedRight
    <3>4. CASE ~(options.staged /\ staged[a].state = "skipped")
      <4>1. Walked(a) = zips[a]
        BY <1>1, <3>4 DEF CalmInv, StagedRight, Walked
      <4>2. n \in Found(a)
        BY <3>1, <3>2, <4>1 DEF Found
      <4>3. n \in Tasks
        BY <4>2 DEF Tasks
      <4> QED BY <2>1, <4>3
    <3> QED BY <3>3, <3>4
  <2>5. Wanted' = Wanted
    BY <1>1 DEF Wanted, DesignAgrees
  <2>6. Covered'
    BY <1>1, <2>4, <2>5 DEF Covered
  <2> QED BY <1>3, <1>5, <2>3, <2>6 DEF CalmInv
<1> QED BY <1>1, <1>4, <1>5

\* A step of one task, if the task is right after it and no other is touched.
LEMMA OneTaskCalm ==
  ASSUME KindsInv, CalmInv, calm, NEW n \in DOMAIN task,
         UNCHANGED <<zips, phase, options, staged, from>>, phase \in {"running", "stopping"},
         DOMAIN pts \subseteq DOMAIN pts',
         \A p \in DOMAIN pts : p # OutputPath(n) => pts'[p] = pts[p],
         DOMAIN task' = DOMAIN task,
         \A m \in DOMAIN task : m # n => task'[m] = task[m] /\ graph'[m] = graph[m],
         TaskRight(n)'
  PROVE  CalmInv'
<1>1. \A a \in Inputs : StagedRight(a)'
  <2>1. \A a \in Inputs : StagedRight(a)
    BY DEF CalmInv
  <2> QED BY <2>1, StagedKept
<1>2. ASSUME NEW m \in DOMAIN task, m # n PROVE TaskRight(m)'
  <2>1. TaskRight(m) /\ task'[m] = task[m] /\ graph'[m] = graph[m]
    BY <1>2 DEF CalmInv
  <2>2. OutputPath(m) # OutputPath(n)
    BY <1>2, OutputPathInjective
  <2>3. OutputPath(m) \in DOMAIN pts =>
          OutputPath(m) \in DOMAIN pts' /\ pts'[OutputPath(m)] = pts[OutputPath(m)]
    BY <2>2
  <2>4. Walked(from[m])' = Walked(from[m])
    BY DEF Walked
  <2>5. from'[m] = from[m] /\ zips' = zips /\ options' = options
    OBVIOUS
  <2> QED BY <2>1, <2>3, <2>4, <2>5 DEF TaskRight
<1>3. Wanted' = Wanted
  BY DEF Wanted, DesignAgrees
<1>4. phase = "running" => Covered'
  BY <1>3 DEF CalmInv, Covered
<1> QED BY <1>1, <1>2, <1>4 DEF CalmInv

LEMMA TaskCalm ==
  ASSUME KindsInv, CalmInv, calm, NEW n \in DOMAIN task, DOMAIN pts \subseteq DOMAIN pts',
         Enqueue(n) \/ Take(n) \/ Build(n) \/ Save(n) \/ Raise(n)
  PROVE  CalmInv'
<1>1. /\ UNCHANGED <<zips, phase, options, staged, from>> /\ phase \in {"running", "stopping"}
      /\ DOMAIN task' = DOMAIN task
      /\ \A m \in DOMAIN task : m # n => task'[m] = task[m]
  BY DEF Enqueue, Take, Build, Save, Raise, stores
<1>2. \A m \in DOMAIN task : m # n => graph'[m] = graph[m]
  <2>1. DOMAIN graph = DOMAIN task
    BY DEF KindsInv, TypeOK, JobTypeOK
  <2> QED BY <2>1 DEF Enqueue, Take, Build, Save, Raise
<1>3. \A p \in DOMAIN pts : p # OutputPath(n) => pts'[p] = pts[p]
  BY DEF Enqueue, Take, Build, Save, Raise, stores
<1>4. TaskRight(n) /\ Walked(from[n])' = Walked(from[n])
  BY <1>1 DEF CalmInv, Walked
<1>5. graph \in [DOMAIN task -> Name \cup {None}]
  BY DEF KindsInv, TypeOK, JobTypeOK
<1>6. TaskRight(n)'
  <2>1. CASE Enqueue(n) \/ Raise(n)
    <3>1. task'[n] \in {"queued", "error"}
      BY <2>1 DEF Enqueue, Raise
    <3> QED BY <1>1, <1>4, <3>1 DEF TaskRight
  <2>2. CASE Take(n)
    <3>1. task'[n] = "building"
            \/ (task'[n] = "skipped" /\ OutputPath(n) \in DOMAIN pts /\ ~options.overwrite)
      BY <2>2 DEF Take
    <3> QED BY <1>1, <1>4, <3>1 DEF TaskRight
  <2>3. CASE Build(n)
    <3>1. /\ task'[n] = "saving" /\ graph'[n] = LastContent(zips[from[n]], n)
          /\ OutputPath(n) \in DOMAIN pts' /\ pts'[OutputPath(n)] = Torn
      BY <1>4, <1>5, <2>3 DEF Build, TaskRight
    <3> QED BY <1>1, <1>4, <3>1 DEF TaskRight
  <2>4. CASE Save(n)
    <3>1. /\ task[n] = "saving" /\ task'[n] = "saved"
      BY <2>4 DEF Save
    <3>2. /\ OutputPath(n) \in DOMAIN pts /\ pts[OutputPath(n)] = Torn
          /\ graph[n] = LastContent(zips[from[n]], n)
      BY <1>4, <3>1 DEF TaskRight
    <3>3. OutputPath(n) \in DOMAIN pts' /\ pts'[OutputPath(n)] = LastContent(zips[from[n]], n)
      BY <2>4, <3>2 DEF Save
    <3> QED BY <1>1, <1>4, <3>1, <3>3 DEF TaskRight
  <2> QED BY <2>1, <2>2, <2>3, <2>4
<1> QED BY <1>1, <1>2, <1>3, <1>6, OneTaskCalm

LEMMA ParentCalm ==
  ASSUME KindsInv, CalmInv, calm, Staged \/ Drain \/ Complete \/ Shutdown \/ KillJob
  PROVE  CalmInv'
<1>1. UNCHANGED <<zips, pts, options, staged, from, task, graph>>
  BY DEF Staged, Drain, Complete, Shutdown, KillJob, stores
<1>2. Wanted' = Wanted
  BY <1>1 DEF Wanted, DesignAgrees
<1>3. \A n \in DOMAIN task : TaskRight(n) => TaskRight(n)'
  BY <1>1 DEF TaskRight, Walked
<1>4. \A a \in Inputs : StagedRight(a) => StagedRight(a)'
  BY <1>1 DEF StagedRight
<1>5. phase' = "discover" => \A a \in Inputs : staged[a].state \in {"staged", "skipped"}
  <2>1. staged \in [Inputs -> [state : {"todo", "skipped", "error", "staged"},
                               members : Seq(Member)]]
    BY DEF KindsInv, TypeOK, JobTypeOK
  <2>2. phase' = "discover" => Staged
    BY DEF Drain, Complete, Shutdown, KillJob
  <2> QED BY <2>1, <2>2 DEF Staged
<1>6. phase' \in {"running", "success"} => phase = "running"
  BY DEF Staged, Drain, Complete, Shutdown, KillJob
<1>7. phase' = "success" => \A n \in DOMAIN task : task[n] \in {"saved", "skipped"}
  <2> SUFFICES ASSUME phase' = "success", NEW n \in DOMAIN task
               PROVE  task[n] \in {"saved", "skipped"}
    OBVIOUS
  <2>1. Complete
    BY DEF Staged, Drain, Shutdown, KillJob
  <2>2. task[n] \in Finished
    BY <2>1 DEF Complete, KindsInv, TypeOK, JobTypeOK
  <2>3. task[n] # "error"
    BY <2>1 DEF Complete, With
  <2> QED BY <2>2, <2>3 DEF Finished
<1> QED BY <1>1, <1>2, <1>3, <1>4, <1>5, <1>6, <1>7 DEF CalmInv, Covered

LEMMA JobCalm ==
  ASSUME KindsInv, CalmInv, JobStep PROVE CalmInv'
<1>1. CASE Submit
  BY <1>1, SubmitCalm
<1>2. CASE ~Submit /\ ~calm
  BY <1>2 DEF JobStep, CalmInv
<1>3. CASE ~Submit /\ calm
  <2>1. ASSUME NEW a \in Inputs, Stage(a) PROVE CalmInv'
    BY <1>3, <2>1, StageCalm
  <2>2. ASSUME NEW n \in DOMAIN task,
               Enqueue(n) \/ Take(n) \/ Build(n) \/ Save(n) \/ Raise(n)
        PROVE  CalmInv'
    BY <1>3, <2>2, JobGrows, TaskCalm
  <2> QED BY <1>3, <2>1, <2>2, DiscoverCalm, ParentCalm DEF JobStep, JobNext, JobWork
<1> QED BY <1>1, <1>2, <1>3

LEMMA JobsInductive == Spec => []JobsInv
<1>1. JobsInv /\ [Next]_prepVars => JobsInv'
  <2> SUFFICES ASSUME JobsInv, [Next]_prepVars PROVE JobsInv'
    OBVIOUS
  <2>1. CASE CuratorStep
    BY <2>1, CuratorKinds, CuratorTorn, CuratorCalm DEF JobsInv
  <2>2. CASE JobStep
    BY <2>2, JobKinds, JobTorn, JobCalm DEF JobsInv
  <2>3. CASE UNCHANGED prepVars
    <3>1. UNCHANGED <<zips, pts, csvs, runs, harm, curator, issues, pair, file, tmp, failed, phase,
                      options, staged, from, task, graph, drained, calm>>
      BY <2>3 DEF prepVars, stores, counters, curatorVars, jobVars
    <3>2. KindsInv'
      BY <3>1 DEF JobsInv, KindsInv, TypeOK, StoresOK, CuratorTypeOK, JobTypeOK, IssuesOK,
                  PairsOK, TasksOK
    <3>3. TornInv'
      BY <3>1 DEF JobsInv, TornInv, TornByFaultOnly
    <3>4. /\ Wanted' = Wanted
          /\ \A n \in DOMAIN task : TaskRight(n) => TaskRight(n)'
          /\ \A a \in Inputs : StagedRight(a) => StagedRight(a)'
      BY <3>1 DEF Wanted, DesignAgrees, TaskRight, Walked, StagedRight
    <3>5. CalmInv'
      BY <3>1, <3>4 DEF JobsInv, CalmInv, Covered
    <3> QED BY <3>2, <3>3, <3>5 DEF JobsInv
  <2> QED BY <2>1, <2>2, <2>3 DEF Next
<1> QED BY <1>1, InitKindsInv, InitTornInv, InitCalmInv, PTL DEF Spec, JobsInv

(***************************************************************************)
(* What a job reports is what it left on disk, for any archives, options,  *)
(* pool and window, and through any kills: a success covers the archives;  *)
(* with overwriting, every file holds the graph of its member; and a graph *)
(* is torn only by a fault.                                                *)
(***************************************************************************)
THEOREM ReportsAreTrue == Spec => []JobsDeliver
<1>1. JobsInv => JobsDeliver
  <2> SUFFICES ASSUME JobsInv PROVE JobsDeliver
    OBVIOUS
  <2>1. SuccessCovers
    BY DEF JobsInv, CalmInv, Covered, TaskRight, SuccessCovers
  <2>2. ASSUME phase = "success", calm, options.overwrite, NEW n \in DOMAIN task
        PROVE  /\ pts[OutputPath(n)] # Torn
               /\ pts[OutputPath(n)] = LastContent(zips[from[n]], n)
    <3>1. TaskRight(n) /\ task[n] = "saved"
      BY <2>2 DEF JobsInv, CalmInv, TaskRight
    <3>2. zips[from[n]] \in Seq(Member)
      BY <3>1 DEF JobsInv, KindsInv, TypeOK, StoresOK, JobTypeOK, Inputs, TaskRight
    <3>3. LastContent(zips[from[n]], n) \in Name
      BY <3>1, <3>2, LastContentTyped DEF TaskRight
    <3> QED BY <3>1, <3>3, InitialAssumption DEF TaskRight
  <2>3. SuccessIsWhole
    BY <2>2 DEF SuccessIsWhole
  <2> QED BY <2>1, <2>3 DEF JobsInv, TornInv, JobsDeliver
<1> QED BY <1>1, JobsInductive, PTL

-----------------------------------------------------------------------------
(* What a cleanup may make of names, rows and archives *)

\* Where the graph p belongs.
CleanPath(p) == [p EXCEPT !.name = KeyOf(p.name, p.dir)]

\* Rows and members as they were, or with a name cleaned.
RowFollows(r, old) ==
  /\ r.artifact = old.artifact \/ (old.artifact # None /\ r.artifact = KeyOf(old.artifact, "clean"))
  /\ r.input = old.input \/ (old.input # None /\ r.input = CleanPath(old.input))
MemberFollows(m, old) ==
  /\ m.content = old.content
  /\ m.name = old.name \/ m.name = KeyOf(old.name, NoHint)
ZipFollows(ms, old) ==
  Len(ms) = Len(old) /\ \A i \in DOMAIN old : MemberFollows(ms[i], old[i])

Hints == {"clean", NoHint} \cup Tokens

\* Cleaning is idempotent, keeps the algorithms, and makes clean.
LEMMA KeyOfKey ==
  ASSUME NEW n \in Name, NEW h \in Hints
  PROVE  /\ KeyOf(n, h) \in Name /\ KeyOf(n, h).algos = n.algos
         /\ KeyOf(KeyOf(n, h), h) = KeyOf(n, h) /\ IsClean(KeyOf(n, h), h)
         /\ Recognized(KeyOf(n, h), h) <=> Recognized(n, h)
<1>1. CASE Tier(n) >= 1
  <2>1. KeyOf(n, h) = Cleaned(n) /\ Cleaned(n).algos = n.algos
    BY <1>1 DEF KeyOf, Cleaned, Name
  <2>2. Tier(Cleaned(n)) >= 1 /\ Cleaned(Cleaned(n)) = Cleaned(n)
    BY <1>1, <2>1 DEF Tier, Cleaned, Name
  <2>3. KeyOf(Cleaned(n), h) = Cleaned(n)
    BY <2>2 DEF KeyOf
  <2> QED BY <1>1, <2>1, <2>2, <2>3, KeyOfTyped DEF Hints, IsClean, Recognized
<1>2. CASE ~(Tier(n) >= 1) /\ h = NoHint
  BY <1>2, KeyOfTyped DEF KeyOf, IsClean
<1>3. CASE ~(Tier(n) >= 1) /\ h # NoHint
  <2>1. KeyOf(n, h) = [n EXCEPT !.form = h] /\ KeyOf(n, h).algos = n.algos
    BY <1>3 DEF KeyOf, Name
  <2>2. ~(Tier(KeyOf(n, h)) >= 1)
    BY <1>3, <2>1 DEF Tier
  <2>3. KeyOf(KeyOf(n, h), h) = KeyOf(n, h)
    BY <1>3, <2>1, <2>2 DEF KeyOf, Name
  <2> QED BY <1>3, <2>1, <2>3, KeyOfTyped DEF Hints, IsClean, Recognized
<1> QED BY <1>1, <1>2, <1>3

LEMMA CleanPathClean ==
  ASSUME NEW p \in Path
  PROVE  /\ CleanPath(p) \in Path /\ CleanPath(p).dir = p.dir /\ p.dir \in Hints
         /\ CleanPath(p).name = KeyOf(p.name, p.dir) /\ p.name \in Name
         /\ IsClean(CleanPath(p).name, CleanPath(p).dir)
         /\ CleanPath(CleanPath(p)) = CleanPath(p)
         /\ RenameOf(p) = [src |-> p, dst |-> CleanPath(p)]
         /\ Recognized(p.name, p.dir)
<1>1. p.name \in Name /\ p.dir \in Hints /\ p.dir # NoHint
  BY NamesAssumption DEF Path, Hints
<1>2. /\ CleanPath(p).name = KeyOf(p.name, p.dir) /\ CleanPath(p).dir = p.dir
      /\ DOMAIN CleanPath(p) = {"dir", "name"}
  BY DEF CleanPath, Path
<1>3. KeyOf(p.name, p.dir) \in Name
      /\ KeyOf(KeyOf(p.name, p.dir), p.dir) = KeyOf(p.name, p.dir)
      /\ IsClean(KeyOf(p.name, p.dir), p.dir)
  BY <1>1, KeyOfKey
<1>4. CleanPath(p) \in Path
  BY <1>3 DEF CleanPath, Path
<1>5. CleanPath(CleanPath(p)) = CleanPath(p)
  BY <1>2, <1>3, <1>4 DEF CleanPath, Path
<1> QED BY <1>1, <1>2, <1>3, <1>4, <1>5 DEF RenameOf, CleanPath, Recognized

\* Rewriting a row or a member once more makes nothing else of it.
LEMMA RowStaysFollowing ==
  ASSUME NEW old \in Row, NEW r, RowFollows(r, old), NEW map,
         None \notin map.artifact, None \notin map.input
  PROVE  RowFollows(RowRewritten(r, map), old)
<1> DEFINE new == RowRewritten(r, map)
<1>1. new.artifact = old.artifact
        \/ (old.artifact # None /\ new.artifact = KeyOf(old.artifact, "clean"))
  <2>1. new.artifact = r.artifact \/ (r.artifact # None /\ new.artifact = KeyOf(r.artifact, "clean"))
    BY DEF RowRewritten
  <2>2. old.artifact # None => old.artifact \in Name
    BY DEF Row
  <2>3. old.artifact # None =>
          KeyOf(KeyOf(old.artifact, "clean"), "clean") = KeyOf(old.artifact, "clean")
    BY <2>2, KeyOfKey DEF Hints
  <2> QED BY <2>1, <2>3 DEF RowFollows
<1>2. new.input = old.input \/ (old.input # None /\ new.input = CleanPath(old.input))
  <2>1. new.input = r.input \/ (r.input # None /\ new.input = CleanPath(r.input))
    BY DEF RowRewritten, CleanPath
  <2>2. old.input # None => CleanPath(CleanPath(old.input)) = CleanPath(old.input)
    BY CleanPathClean DEF Row
  <2> QED BY <2>1, <2>2 DEF RowFollows
<1> QED BY <1>1, <1>2 DEF RowFollows

LEMMA ZipStaysFollowing ==
  ASSUME NEW old \in Seq(Member), NEW ms \in Seq(Member), ZipFollows(ms, old), NEW messy
  PROVE  ZipFollows([i \in DOMAIN ms |-> IF ms[i].name \in messy
                                         THEN [ms[i] EXCEPT !.name = KeyOf(@, NoHint)]
                                         ELSE ms[i]], old)
<1> DEFINE new == [i \in DOMAIN ms |-> IF ms[i].name \in messy
                                       THEN [ms[i] EXCEPT !.name = KeyOf(@, NoHint)]
                                       ELSE ms[i]]
<1>1. /\ DOMAIN ms = DOMAIN old /\ DOMAIN old = 1..Len(old) /\ Len(old) \in Nat
      /\ \A i \in DOMAIN old : ms[i] \in Member /\ old[i] \in Member /\ MemberFollows(ms[i], old[i])
  BY DEF ZipFollows
<1>2. Len(new) = Len(old)
  BY <1>1
<1>3. ASSUME NEW i \in DOMAIN old PROVE MemberFollows(new[i], old[i])
  <2>1. new[i] = ms[i] \/ (new[i].content = ms[i].content /\ new[i].name = KeyOf(ms[i].name, NoHint))
    BY <1>1 DEF Member
  <2>2. KeyOf(KeyOf(old[i].name, NoHint), NoHint) = KeyOf(old[i].name, NoHint)
    BY <1>1, KeyOfKey DEF Hints, Member
  <2> QED BY <1>1, <2>1, <2>2 DEF MemberFollows
<1> QED BY <1>2, <1>3 DEF ZipFollows

LEMMA ZipFollowsItself == ASSUME NEW ms \in Seq(Member) PROVE ZipFollows(ms, ms)
BY DEF ZipFollows, MemberFollows

\* What follows keeps content, key and algorithms.
LEMMA MemberKept ==
  ASSUME NEW old \in Member, NEW m, MemberFollows(m, old)
  PROVE  /\ m.content = old.content /\ KeyOf(m.name, NoHint) = KeyOf(old.name, NoHint)
         /\ m.name.algos = old.name.algos /\ m.name \in Name
         /\ Recognized(m.name, NoHint) <=> Recognized(old.name, NoHint)
<1>1. old.name \in Name
  BY DEF Member
<1> QED BY <1>1, KeyOfKey DEF MemberFollows, Hints

\* Two scans with the same keys, the second of clean names as far as the first
\* recognised them, have the same keys to report.
SameKeys(S, T) ==
  /\ \A s \in S : Recognized(s.name, s.hint) =>
       \E u \in T : /\ IsClean(u.name, u.hint) /\ Recognized(u.name, u.hint)
                    /\ KeyOf(u.name, u.hint) = KeyOf(s.name, s.hint)
  /\ \A u \in T : Recognized(u.name, u.hint) =>
       \E s \in S : Recognized(s.name, s.hint) /\ KeyOf(u.name, u.hint) = KeyOf(s.name, s.hint)

LEMMA KeysOfSame ==
  ASSUME NEW S, NEW T, SameKeys(S, T) PROVE \A t : CleanKeys(T, t) = Keys(S, t)
<1> TAKE t
<1>1. ASSUME NEW k \in CleanKeys(T, t) PROVE k \in Keys(S, t)
  <2>1. PICK u \in T : Recognized(u.name, u.hint) /\ k = KeyOf(u.name, u.hint) /\ Tier(k) = t
    BY <1>1 DEF CleanKeys, Keys
  <2> QED BY <2>1 DEF Keys, SameKeys
<1>2. ASSUME NEW k \in Keys(S, t) PROVE k \in CleanKeys(T, t)
  <2>1. PICK s \in S : Recognized(s.name, s.hint) /\ k = KeyOf(s.name, s.hint) /\ Tier(k) = t
    BY <1>2 DEF Keys
  <2> QED BY <2>1 DEF CleanKeys, Keys, SameKeys
<1> QED BY <1>1, <1>2

-----------------------------------------------------------------------------
(* The data set of the last audit, and what has become of it *)

BeforeOK ==
  /\ before.zips \in [Archives -> Seq(Member) \cup {Torn}]
  /\ DOMAIN before.pts \subseteq Path
  /\ before.csvs \in [Csvs -> Seq(Row)]
  /\ \A a \in Archives : a.algos = <<>> /\ before.zips[a] # Torn =>
       \A i \in DOMAIN before.zips[a] : before.zips[a][i].name.algos = <<>>

\* Nobody but a job touches the stores while an audit scans them.
ScanInv ==
  curator \in Scanning =>
    zips = before.zips /\ csvs = before.csvs /\ (quiet => pts = before.pts)

\* The scans, as of that data set.
OldZips ==
  UNION {{Seen(n, NoHint) : n \in MemberNames(before.zips[a])} :
           a \in {b \in Archives : before.zips[b] # Torn}}
OldDisk == {Seen(p.name, p.dir) : p \in DOMAIN before.pts}
OldRows == UNION {{before.csvs[f][i] : i \in DOMAIN before.csvs[f]} : f \in Csvs}
OldArtifacts == {Seen(r.artifact, "clean") : r \in {q \in OldRows : q.artifact # None}}
OldInputs    == {Seen(r.input.name, r.input.dir) : r \in {q \in OldRows : q.input # None}}

\* The keys of a scan, tier by tier.
Tiered(S) == [t \in 0..2 |-> Keys(S, t)]

\* What the audit has found there; .pt files only if no job was at work.
FoundCsv ==
  /\ \A f \in Csvs : \A i \in DOMAIN before.csvs[f] :
       LET r == before.csvs[f][i]
       IN  /\ r.artifact # None /\ ~IsClean(r.artifact, "clean") =>
                r.artifact \in issues.csv[f].artifact
           /\ r.input # None /\ ~IsClean(r.input.name, r.input.dir) =>
                r.input \in issues.csv[f].input
  /\ issues.keys.csv = Tiered(OldArtifacts)
  /\ issues.keys.input = Tiered(OldInputs)
FoundZip ==
  /\ \A a \in Archives :
       issues.zip[a] = IF before.zips[a] = Torn THEN {}
                       ELSE {n \in MemberNames(before.zips[a]) :
                               Recognized(n, NoHint) /\ ~IsClean(n, NoHint)}
  /\ issues.keys.aig = Tiered(OldZips)
FoundPt ==
  /\ issues.pt = {RenameOf(p) : p \in {q \in DOMAIN before.pts : ~IsClean(q.name, q.dir)}}
  /\ issues.keys.pt = Tiered(OldDisk)

FoundInv ==
  /\ DOMAIN issues = {"csv", "zip", "pt", "keys"}
  /\ issues.keys = [aig |-> issues.keys.aig, pt |-> issues.keys.pt,
                    csv |-> issues.keys.csv, input |-> issues.keys.input]
  /\ issues.csv # Absent => FoundCsv
  /\ issues.zip # Absent => FoundZip
  /\ issues.pt # Absent /\ quiet => FoundPt

Started == BeforeOK /\ ScanInv /\ FoundInv

\* Rows follow theirs; once the CSVs have been verified they are clean.
RowsInv ==
  /\ \A f \in Csvs :
       /\ DOMAIN csvs[f] = DOMAIN before.csvs[f]
       /\ \A i \in DOMAIN csvs[f] : RowFollows(csvs[f][i], before.csvs[f][i])
  /\ curator \in {"zip", "passed"} /\ ~failed /\ issues.csv # Absent =>
       \A f \in Csvs : ~StillMessy(f)
  /\ curator = "passed" => ~failed

\* Clean graphs stay; others go where they belong, all of them once verified.
GraphsInv ==
  quiet =>
    /\ \A p \in DOMAIN before.pts : IsClean(p.name, p.dir) => p \in DOMAIN pts
    /\ \A q \in DOMAIN pts :
         q \in DOMAIN before.pts \/ \E p \in DOMAIN before.pts : q = CleanPath(p)
    /\ curator \in {"csv", "zip", "passed"} /\ ~failed /\ issues.pt # Absent =>
         \A p \in issues.pt : p.src \notin DOMAIN pts /\ p.dst \in DOMAIN pts

\* An archive follows its own, and so does its temporary copy; only a move
\* under way, or cut short, leaves it torn.
UnderWay(a) == file[a] \in {"written", "checked", "moving"}
ArchiveRight(a) ==
  /\ zips[a] = Torn =>
       before.zips[a] = Torn \/ harm > 0 \/ (curator = "zip" /\ file[a] = "moving")
  /\ zips[a] # Torn => before.zips[a] # Torn /\ ZipFollows(zips[a], before.zips[a])
  /\ curator \in Cleaning /\ UnderWay(a) =>
       /\ AtWork(a)
       /\ before.zips[a] # Torn /\ tmp[Stem(a)] \in Seq(Member)
       /\ ZipFollows(tmp[Stem(a)], before.zips[a])
       /\ file[a] # "moving" => zips[a] # Torn
  /\ curator = "passed" /\ issues.zip # Absent /\ zips[a] # Torn =>
       MemberNames(zips[a]) \cap issues.zip[a] = {}
ZipsInv ==
  /\ \A a \in Archives : ArchiveRight(a)
  /\ curator \in Cleaning => DOMAIN file = Csvs \cup Archives

CleanInv == KindsInv /\ Started /\ RowsInv /\ GraphsInv /\ ZipsInv

LEMMA InitCleanInv == Init => Started /\ RowsInv /\ GraphsInv /\ ZipsInv
<1> SUFFICES ASSUME Init PROVE Started /\ RowsInv /\ GraphsInv /\ ZipsInv
  OBVIOUS
<1>1. PICK d \in Initial : zips = d.zips /\ pts = d.pts /\ csvs = d.csvs
  BY DEF Init
<1>2. /\ before.zips = zips /\ before.pts = pts /\ before.csvs = csvs
      /\ curator = "idle" /\ issues = NoIssues /\ quiet = FALSE
  BY DEF Init, Stores, CuratorInit
<1>3. /\ zips \in [Archives -> Seq(Member)] /\ DOMAIN pts \subseteq Path
      /\ csvs \in [Csvs -> Seq(Row)]
      /\ \A a \in Archives : a.algos = <<>> => \A n \in MemberNames(zips[a]) : n.algos = <<>>
  BY <1>1, InitialAssumption
<1>4. \A a \in Archives : zips[a] \in Seq(Member) /\ zips[a] # Torn
  BY <1>3, InitialAssumption
<1>5. BeforeOK
  BY <1>2, <1>3 DEF BeforeOK, MemberNames
<1>6. ScanInv /\ FoundInv
  BY <1>2 DEF ScanInv, FoundInv, NoIssues, NoKeys, Scanning
<1>7. RowsInv
  BY <1>2 DEF RowsInv, RowFollows
<1>8. ZipsInv
  BY <1>2, <1>4, ZipFollowsItself DEF ZipsInv, ArchiveRight, Cleaning
<1> QED BY <1>2, <1>5, <1>6, <1>7, <1>8 DEF Started, GraphsInv

-----------------------------------------------------------------------------
(* An audit writes down what is there *)

\* The archives' names keep their algorithms.
LEMMA TiersApart ==
  ASSUME CleanInv, NEW a \in Archives, zips[a] # Torn
  PROVE  /\ zips[a] \in Seq(Member) /\ before.zips[a] \in Seq(Member)
         /\ ZipFollows(zips[a], before.zips[a])
         /\ a.algos = <<>> => \A i \in DOMAIN zips[a] : zips[a][i].name.algos = <<>>
<1>1. /\ zips[a] \in Seq(Member) /\ before.zips[a] # Torn
      /\ ZipFollows(zips[a], before.zips[a]) /\ before.zips[a] \in Seq(Member)
  BY DEF CleanInv, KindsInv, TypeOK, StoresOK, ZipsInv, ArchiveRight, Started, BeforeOK
<1>2. ASSUME a.algos = <<>>, NEW i \in DOMAIN zips[a] PROVE zips[a][i].name.algos = <<>>
  <2>1. i \in DOMAIN before.zips[a]
    BY <1>1, <1>2 DEF ZipFollows
  <2>2. before.zips[a][i] \in Member /\ before.zips[a][i].name.algos = <<>>
        /\ MemberFollows(zips[a][i], before.zips[a][i])
    BY <1>1, <1>2, <2>1 DEF ZipFollows, CleanInv, Started, BeforeOK
  <2> QED BY <2>2, MemberKept
<1> QED BY <1>1, <1>2

LEMMA StartStarted ==
  ASSUME CleanInv, StartAudit, before' = Stores
  PROVE  Started' /\ RowsInv' /\ GraphsInv' /\ ZipsInv'
<1>1. /\ before'.zips = zips /\ before'.pts = pts /\ before'.csvs = csvs
      /\ curator' = "scan csv" /\ issues' = NoIssues
      /\ zips' = zips /\ pts' = pts /\ csvs' = csvs
  BY DEF Stores, StartAudit, stores
<1>2. /\ zips \in [Archives -> Seq(Member) \cup {Torn}] /\ DOMAIN pts \subseteq Path
      /\ csvs \in [Csvs -> Seq(Row)]
  BY DEF CleanInv, KindsInv, TypeOK, StoresOK
<1>3. BeforeOK'
  BY <1>1, <1>2, TiersApart DEF BeforeOK
<1>4. ScanInv' /\ FoundInv'
  BY <1>1 DEF ScanInv, FoundInv, NoIssues, NoKeys
<1>5. RowsInv' /\ GraphsInv'
  BY <1>1 DEF RowsInv, RowFollows, GraphsInv
<1>6. ZipsInv'
  BY <1>1, <1>2, ZipFollowsItself DEF ZipsInv, ArchiveRight, Cleaning
<1> QED BY <1>3, <1>4, <1>5, <1>6 DEF Started

\* The scans, when before is what is there.
LEMMA ScansStarted ==
  ASSUME CleanInv, ScanCsvs \/ ScanZips \/ ScanPts, UNCHANGED <<before, quiet>>
  PROVE  Started'
<1> USE DEF CleanInv, Started
<1>1. /\ zips = before.zips /\ csvs = before.csvs /\ (quiet => pts = before.pts)
      /\ UNCHANGED <<zips, pts, csvs>> /\ DOMAIN issues = {"csv", "zip", "pt", "keys"}
      /\ DOMAIN issues.keys = {"aig", "pt", "csv", "input"}
  BY DEF ScanCsvs, ScanZips, ScanPts, ScanInv, Scanning, FoundInv, stores
<1>2. BeforeOK' /\ ScanInv'
  BY <1>1 DEF BeforeOK, ScanInv
<1>3. CASE ScanCsvs
  <2>1. /\ issues'.csv = CsvCandidates /\ issues'.zip = issues.zip /\ issues'.pt = issues.pt
        /\ issues'.keys.csv = Tiered(InArtifactColumn)
        /\ issues'.keys.input = Tiered(InInputColumn)
        /\ issues'.keys.aig = issues.keys.aig /\ issues'.keys.pt = issues.keys.pt
        /\ DOMAIN issues' = DOMAIN issues /\ DOMAIN issues'.keys = DOMAIN issues.keys
    BY <1>1, <1>3 DEF ScanCsvs, ByTier, Tiered
  <2>2. InArtifactColumn = OldArtifacts /\ InInputColumn = OldInputs
    BY <1>1 DEF InArtifactColumn, InInputColumn, OldArtifacts, OldInputs, AllRows, OldRows
  <2>3. OldArtifacts' = OldArtifacts /\ OldInputs' = OldInputs /\ OldZips' = OldZips
        /\ OldDisk' = OldDisk
    BY DEF OldArtifacts, OldInputs, OldRows, OldZips, OldDisk
  <2>4. FoundCsv'
    BY <1>1, <2>1, <2>2, <2>3 DEF FoundCsv, CsvCandidates
  <2>5. issues'.keys = [aig |-> issues'.keys.aig, pt |-> issues'.keys.pt,
                       csv |-> issues'.keys.csv, input |-> issues'.keys.input]
    BY <1>1, <1>3 DEF ScanCsvs, FoundInv
  <2>6. FoundInv'
    BY <1>1, <2>1, <2>3, <2>4, <2>5 DEF FoundInv, FoundZip, FoundPt
  <2> QED BY <1>2, <2>6
<1>4. CASE ScanZips
  <2>1. /\ issues'.zip = ZipCandidates /\ issues'.csv = issues.csv /\ issues'.pt = issues.pt
        /\ issues'.keys.aig = Tiered(InZips)
        /\ issues'.keys.csv = issues.keys.csv /\ issues'.keys.input = issues.keys.input
        /\ issues'.keys.pt = issues.keys.pt
        /\ DOMAIN issues' = DOMAIN issues /\ DOMAIN issues'.keys = DOMAIN issues.keys
    BY <1>1, <1>4 DEF ScanZips, ByTier, Tiered
  <2>2. InZips = OldZips
    BY <1>1 DEF InZips, OldZips
  <2>3. OldArtifacts' = OldArtifacts /\ OldInputs' = OldInputs /\ OldZips' = OldZips
        /\ OldDisk' = OldDisk
    BY DEF OldArtifacts, OldInputs, OldRows, OldZips, OldDisk
  <2>4. FoundZip'
    BY <1>1, <2>1, <2>2, <2>3 DEF FoundZip, ZipCandidates
  <2>5. issues'.keys = [aig |-> issues'.keys.aig, pt |-> issues'.keys.pt,
                       csv |-> issues'.keys.csv, input |-> issues'.keys.input]
    BY <1>1, <1>4 DEF ScanZips, FoundInv
  <2>6. FoundInv'
    BY <1>1, <2>1, <2>3, <2>4, <2>5 DEF FoundInv, FoundCsv, FoundPt
  <2> QED BY <1>2, <2>6
<1>5. CASE ScanPts
  <2>1. /\ issues'.pt = PtCandidates /\ issues'.csv = issues.csv /\ issues'.zip = issues.zip
        /\ issues'.keys.pt = Tiered(OnDisk)
        /\ issues'.keys.csv = issues.keys.csv /\ issues'.keys.input = issues.keys.input
        /\ issues'.keys.aig = issues.keys.aig
        /\ DOMAIN issues' = DOMAIN issues /\ DOMAIN issues'.keys = DOMAIN issues.keys
    BY <1>1, <1>5 DEF ScanPts, ByTier, Tiered
  <2>2. quiet => OnDisk = OldDisk
    BY <1>1 DEF OnDisk, OldDisk
  <2>3. OldArtifacts' = OldArtifacts /\ OldInputs' = OldInputs /\ OldZips' = OldZips
        /\ OldDisk' = OldDisk
    BY DEF OldArtifacts, OldInputs, OldRows, OldZips, OldDisk
  <2>4. quiet => PtCandidates = {RenameOf(p) : p \in {q \in DOMAIN before.pts : ~IsClean(q.name, q.dir)}}
    <3>1. \A q \in DOMAIN pts : Recognized(q.name, q.dir)
      BY CleanPathClean DEF KindsInv, TypeOK, StoresOK
    <3> QED BY <1>1, <3>1 DEF PtCandidates, RenameOf
  <2>5. quiet => FoundPt'
    BY <2>1, <2>2, <2>3, <2>4 DEF FoundPt
  <2>6. issues'.keys = [aig |-> issues'.keys.aig, pt |-> issues'.keys.pt,
                       csv |-> issues'.keys.csv, input |-> issues'.keys.input]
    BY <1>1, <1>5 DEF ScanPts, FoundInv
  <2>7. FoundInv'
    BY <1>1, <2>1, <2>3, <2>5, <2>6 DEF FoundInv, FoundCsv, FoundZip
  <2> QED BY <1>2, <2>7
<1> QED BY <1>3, <1>4, <1>5

\* What the audit knows stands until the next one.
LEMMA StartedStands ==
  ASSUME Started, UNCHANGED <<before, issues>>, quiet' => quiet, curator' \notin Scanning
  PROVE  Started'
<1>1. BeforeOK' /\ ScanInv'
  BY DEF Started, BeforeOK, ScanInv
<1>2. /\ OldArtifacts' = OldArtifacts /\ OldInputs' = OldInputs /\ OldZips' = OldZips
      /\ OldDisk' = OldDisk
  BY DEF OldArtifacts, OldInputs, OldRows, OldZips, OldDisk
<1>3. FoundCsv' = FoundCsv /\ FoundZip' = FoundZip /\ FoundPt' = FoundPt
  <2>1. FoundCsv' = FoundCsv
    BY <1>2 DEF FoundCsv
  <2>2. FoundZip' = FoundZip
    BY <1>2 DEF FoundZip
  <2>3. FoundPt' = FoundPt
    BY <1>2 DEF FoundPt
  <2> QED BY <2>1, <2>2, <2>3
<1>4. FoundInv'
  BY <1>3 DEF Started, FoundInv
<1> QED BY <1>1, <1>4 DEF Started

-----------------------------------------------------------------------------
(* Rows *)

LEMMA RewriteRows ==
  ASSUME CleanInv, NEW f \in Csvs, RewriteCsv(f), before' = before
  PROVE  RowsInv'
<1>1. /\ curator = "csv" /\ UNCHANGED <<curator, issues>>
      /\ \/ csvs' = csvs
         \/ csvs' = [csvs EXCEPT ![f] = [i \in DOMAIN @ |-> RowRewritten(@[i], issues.csv[f])]]
  BY DEF RewriteCsv
<1>2. None \notin issues.csv[f].artifact /\ None \notin issues.csv[f].input
  BY InitialAssumption DEF RewriteCsv, CleanInv, KindsInv, IssuesOK
<1>3. csvs \in [Csvs -> Seq(Row)] /\ before.csvs \in [Csvs -> Seq(Row)]
  BY DEF CleanInv, KindsInv, TypeOK, StoresOK, Started, BeforeOK
<1>4. ASSUME NEW g \in Csvs
      PROVE  /\ DOMAIN csvs'[g] = DOMAIN before.csvs[g]
             /\ \A i \in DOMAIN csvs'[g] : RowFollows(csvs'[g][i], before.csvs[g][i])
  <2>1. /\ DOMAIN csvs[g] = DOMAIN before.csvs[g]
        /\ \A i \in DOMAIN csvs[g] : RowFollows(csvs[g][i], before.csvs[g][i])
    BY DEF CleanInv, RowsInv
  <2>2. CASE csvs'[g] = csvs[g]
    BY <2>1, <2>2
  <2>3. CASE g = f /\ csvs'[g] = [i \in DOMAIN csvs[g] |-> RowRewritten(csvs[g][i], issues.csv[f])]
    <3>1. \A i \in DOMAIN csvs[g] : before.csvs[g][i] \in Row
      BY <1>3, <2>1
    <3>2. \A i \in DOMAIN csvs[g] :
            RowFollows(RowRewritten(csvs[g][i], issues.csv[f]), before.csvs[g][i])
      BY <1>2, <2>1, <3>1, RowStaysFollowing
    <3> QED BY <2>1, <2>3, <3>2
  <2> QED BY <1>1, <1>3, <2>2, <2>3
<1> QED BY <1>1, <1>4 DEF RowsInv

LEMMA OtherRows ==
  ASSUME CleanInv, csvs' = csvs, before' = before,
         curator' \in {"zip", "passed"} /\ ~failed' /\ issues'.csv # Absent =>
           \A f \in Csvs : ~StillMessy(f)',
         curator' = "passed" => ~failed'
  PROVE  RowsInv'
BY DEF CleanInv, RowsInv

LEMMA CuratorRows ==
  ASSUME CleanInv, CuratorStep, ~StartAudit PROVE RowsInv'
<1>1. before' = before
  BY DEF CuratorStep
<1>2. CASE \E f \in Csvs : RewriteCsv(f)
  BY <1>1, <1>2, RewriteRows
<1>3. CASE VerifyCsvs
  <2>1. /\ csvs' = csvs /\ issues' = issues /\ curator' = "zip"
        /\ failed' = (failed \/ \E f \in Csvs : StillMessy(f))
    BY <1>3 DEF VerifyCsvs, stores
  <2>2. \A f \in Csvs : StillMessy(f)' = StillMessy(f)
    BY <2>1 DEF StillMessy
  <2> QED BY <1>1, <2>1, <2>2, OtherRows
<1>4. CASE \/ ScanCsvs \/ ScanZips \/ ScanPts \/ StartCleanup \/ KillCurator
           \/ VerifyPts \/ \E p \in DOMAIN pair : CheckPair(p) \/ RenamePair(p)
  <2>1. csvs' = csvs /\ curator' \notin {"zip", "passed"}
    BY <1>4 DEF ScanCsvs, ScanZips, ScanPts, StartCleanup, KillCurator, VerifyPts, CheckPair,
                RenamePair, stores
  <2> QED BY <1>1, <2>1, OtherRows
<1>5. CASE \/ SkipPhase \/ VerifyZips
           \/ \E a \in Archives : WriteTmp(a) \/ CheckParity(a) \/ BeginMove(a) \/ EndMove(a)
  <2>1. /\ csvs' = csvs /\ issues' = issues /\ failed \in BOOLEAN
        /\ curator' \in {"zip", "passed"} /\ ~failed' /\ issues.csv # Absent =>
             curator = "zip" /\ ~failed
        /\ curator' = "passed" => ~failed'
    <3>1. CASE SkipPhase
      BY <3>1 DEF SkipPhase, stores, CleanInv, KindsInv, TypeOK, CuratorTypeOK
    <3>2. CASE VerifyZips
      BY <3>2 DEF VerifyZips, stores, CleanInv, KindsInv, TypeOK, CuratorTypeOK
    <3>3. CASE \E a \in Archives : WriteTmp(a) \/ CheckParity(a) \/ BeginMove(a) \/ EndMove(a)
      BY <3>3 DEF WriteTmp, CheckParity, BeginMove, EndMove, AtWork, stores, CleanInv, KindsInv,
                  TypeOK, CuratorTypeOK
    <3> QED BY <1>5, <3>1, <3>2, <3>3
  <2>2. \A f \in Csvs : StillMessy(f)' = StillMessy(f)
    BY <2>1 DEF StillMessy
  <2>3. curator = "zip" /\ ~failed /\ issues.csv # Absent => \A f \in Csvs : ~StillMessy(f)
    BY DEF CleanInv, RowsInv
  <2> QED BY <1>1, <2>1, <2>2, <2>3, OtherRows
<1> QED BY <1>2, <1>3, <1>4, <1>5 DEF CuratorStep, CuratorNext, CuratorWork

-----------------------------------------------------------------------------
(* Graphs *)

\* A rename takes a graph where it belongs.
LEMMA RenameGraphs ==
  ASSUME CleanInv, NEW p \in DOMAIN pair, RenamePair(p), UNCHANGED <<before, quiet>>
  PROVE  GraphsInv'
<1> SUFFICES ASSUME quiet PROVE GraphsInv'
  BY DEF GraphsInv
<1>1. curator' = "pt" /\ (pts' = pts \/ pts' = Moved(p)) /\ pair[p] = "renaming"
  BY DEF RenamePair
<1>2. p \in Renames /\ p.src \in DOMAIN pts /\ DOMAIN pts \subseteq Path
      /\ DOMAIN before.pts \subseteq Path
  BY <1>1 DEF CleanInv, KindsInv, PairsOK, TypeOK, StoresOK, Started, BeforeOK
<1>3. /\ p.dst = CleanPath(p.src) /\ ~IsClean(p.src.name, p.src.dir)
      /\ DOMAIN pts' \subseteq DOMAIN pts \cup {p.dst} /\ DOMAIN pts \ {p.src} \subseteq DOMAIN pts'
  BY <1>1, <1>2 DEF Renames, RenameOf, CleanPath, Moved
<1>4. p.src \in DOMAIN before.pts
  <2>1. \A q \in DOMAIN before.pts : p.src # CleanPath(q)
    BY <1>2, <1>3, CleanPathClean
  <2> QED BY <1>2, <2>1 DEF CleanInv, GraphsInv
<1> QED BY <1>1, <1>3, <1>4 DEF CleanInv, GraphsInv

LEMMA CuratorGraphs ==
  ASSUME CleanInv, CuratorStep, ~StartAudit PROVE GraphsInv'
<1>1. UNCHANGED <<before, quiet>>
  BY DEF CuratorStep
<1>2. CASE \E p \in DOMAIN pair : RenamePair(p)
  BY <1>1, <1>2, RenameGraphs
<1>3. CASE VerifyPts
  <2>1. /\ pts' = pts /\ issues' = issues
        /\ ~failed' => \A p \in issues.pt : p.src \notin DOMAIN pts /\ p.dst \in DOMAIN pts
    BY <1>3 DEF VerifyPts, stores
  <2> QED BY <1>1, <2>1 DEF CleanInv, GraphsInv
<1>4. CASE \/ ScanCsvs \/ ScanZips \/ ScanPts \/ StartCleanup \/ KillCurator
           \/ \E p \in DOMAIN pair : CheckPair(p)
  <2>1. pts' = pts /\ curator' \notin {"csv", "zip", "passed"}
    BY <1>4 DEF ScanCsvs, ScanZips, ScanPts, StartCleanup, KillCurator, CheckPair, stores
  <2> QED BY <1>1, <2>1 DEF CleanInv, GraphsInv
<1>5. CASE \/ SkipPhase \/ VerifyCsvs \/ VerifyZips \/ \E f \in Csvs : RewriteCsv(f)
           \/ \E a \in Archives : WriteTmp(a) \/ CheckParity(a) \/ BeginMove(a) \/ EndMove(a)
  <2>1. /\ pts' = pts /\ issues' = issues
        /\ curator' \in {"csv", "zip", "passed"} /\ ~failed' /\ issues.pt # Absent =>
             curator \in {"csv", "zip"} /\ ~failed
    <3>1. CASE SkipPhase
      BY <3>1 DEF SkipPhase, stores
    <3>2. CASE VerifyCsvs
      BY <3>2 DEF VerifyCsvs, stores
    <3>3. CASE VerifyZips
      BY <3>3 DEF VerifyZips, stores
    <3>4. CASE \E f \in Csvs : RewriteCsv(f)
      BY <3>4 DEF RewriteCsv
    <3>5. CASE \E a \in Archives : WriteTmp(a) \/ CheckParity(a) \/ BeginMove(a) \/ EndMove(a)
      BY <3>5 DEF WriteTmp, CheckParity, BeginMove, EndMove, AtWork, stores
    <3> QED BY <1>5, <3>1, <3>2, <3>3, <3>4, <3>5
  <2> QED BY <1>1, <2>1 DEF CleanInv, GraphsInv
<1> QED BY <1>2, <1>3, <1>4, <1>5 DEF CuratorStep, CuratorNext, CuratorWork

-----------------------------------------------------------------------------
(* Archives *)

\* Steps outside the rewriting of archives find none under way and leave none.
LEMMA RestingZips ==
  ASSUME CleanInv, zips' = zips, before' = before, harm > 0 => harm' > 0,
         curator' \in Cleaning =>
           DOMAIN file' = Csvs \cup Archives /\ \A a \in Archives : ~UnderWay(a)',
         harm' > 0 \/ curator # "zip" \/ \A a \in Archives : ~UnderWay(a),
         curator' = "passed" /\ issues'.zip # Absent =>
           \A a \in Archives : zips[a] # Torn => MemberNames(zips[a]) \cap issues'.zip[a] = {}
  PROVE  ZipsInv'
<1>1. ASSUME NEW a \in Archives PROVE ArchiveRight(a)'
  <2>1. ArchiveRight(a)
    BY DEF CleanInv, ZipsInv
  <2>2. (zips[a] = Torn => before.zips[a] = Torn \/ harm > 0 \/ (curator = "zip" /\ file[a] = "moving"))'
    BY <2>1 DEF ArchiveRight, UnderWay
  <2>3. (zips[a] # Torn => before.zips[a] # Torn /\ ZipFollows(zips[a], before.zips[a]))'
    BY <2>1 DEF ArchiveRight
  <2> QED BY <2>2, <2>3 DEF ArchiveRight
<1> QED BY <1>1 DEF ZipsInv

\* Only what is at work is under way.
LEMMA WorkOnly ==
  ASSUME CleanInv, NEW a \in Archives, curator \in Cleaning, UnderWay(a) PROVE AtWork(a)
BY DEF CleanInv, ZipsInv, ArchiveRight

LEMMA OtherZips ==
  ASSUME CleanInv, CuratorStep, ~StartAudit,
         ~\E a \in Archives : WriteTmp(a) \/ CheckParity(a) \/ BeginMove(a) \/ EndMove(a)
  PROVE  ZipsInv'
<1>1. before' = before /\ (harm > 0 => harm' > 0)
  BY HarmStays DEF CuratorStep, CleanInv, Next
<1>2. CASE ScanCsvs \/ ScanZips \/ ScanPts
  <2>1. zips' = zips /\ curator # "zip" /\ curator' \notin Cleaning \cup {"passed"}
    BY <1>2 DEF ScanCsvs, ScanZips, ScanPts, stores, Cleaning
  <2> QED BY <1>1, <2>1, RestingZips
<1>3. CASE StartCleanup
  <2>1. /\ zips' = zips /\ curator # "zip" /\ curator' = "pt"
        /\ file' = [x \in Csvs \cup Archives |-> "todo"]
    BY <1>3 DEF StartCleanup, stores, Resting
  <2> QED BY <1>1, <2>1, RestingZips DEF UnderWay
<1>4. CASE KillCurator
  <2>1. zips' = zips /\ harm' = harm + 1 /\ harm \in Nat /\ curator' = "idle"
    BY <1>4, NamesAssumption DEF KillCurator, stores, CleanInv, KindsInv, TypeOK, StoresOK
  <2> QED BY <1>1, <2>1, RestingZips DEF Cleaning
<1>5. CASE \/ VerifyPts \/ VerifyCsvs \/ \E f \in Csvs : RewriteCsv(f)
           \/ \E p \in DOMAIN pair : CheckPair(p) \/ RenamePair(p)
           \/ SkipPhase /\ curator # "zip"
  <2>1. /\ zips' = zips /\ curator \in {"pt", "csv"} /\ curator' # "passed"
        /\ file' = file \/ \E f \in Csvs : \E v \in {"done", "error"} : file' = [file EXCEPT ![f] = v]
    <3>1. CASE VerifyPts \/ VerifyCsvs
      BY <3>1 DEF VerifyPts, VerifyCsvs, stores
    <3>2. CASE \E f \in Csvs : RewriteCsv(f)
      BY <3>2 DEF RewriteCsv
    <3>3. CASE \E p \in DOMAIN pair : CheckPair(p) \/ RenamePair(p)
      BY <3>3 DEF CheckPair, RenamePair, stores
    <3>4. CASE SkipPhase /\ curator # "zip"
      BY <3>4 DEF SkipPhase, stores
    <3> QED BY <1>5, <3>1, <3>2, <3>3, <3>4
  <2>2. DOMAIN file = Csvs \cup Archives /\ \A a \in Archives : ~UnderWay(a)
    BY <2>1, WorkOnly DEF Cleaning, AtWork, CleanInv, ZipsInv
  <2>3. DOMAIN file' = Csvs \cup Archives /\ \A a \in Archives : ~UnderWay(a)'
    BY <2>1, <2>2 DEF UnderWay
  <2> QED BY <1>1, <2>1, <2>3, RestingZips
<1>6. CASE SkipPhase /\ curator = "zip"
  <2>1. zips' = zips /\ curator' \notin Cleaning /\ issues' = issues /\ issues.zip = Absent
    BY <1>6 DEF SkipPhase, stores, Cleaning
  <2>2. \A a \in Archives : ~UnderWay(a)
    BY <1>6, <2>1, WorkOnly DEF Cleaning, AtWork
  <2> QED BY <1>1, <2>1, <2>2, RestingZips
<1>7. CASE VerifyZips
  <2>1. /\ zips' = zips /\ curator = "zip" /\ curator' \notin Cleaning /\ issues' = issues
        /\ \A a \in Messy : file[a] \in {"done", "error"}
        /\ curator' = "passed" =>
             \A a \in Messy : zips[a] # Torn => MemberNames(zips[a]) \cap issues.zip[a] = {}
    BY <1>7 DEF VerifyZips, stores, Cleaning, CleanInv, KindsInv, TypeOK, CuratorTypeOK
  <2>2. \A a \in Archives : ~UnderWay(a)
    BY <2>1, WorkOnly DEF Cleaning, AtWork, UnderWay
  <2>3. \A a \in Archives : a \notin Messy => issues.zip[a] = {}
    BY DEF Messy
  <2> QED BY <1>1, <2>1, <2>2, <2>3, RestingZips
<1> QED BY <1>2, <1>3, <1>4, <1>5, <1>6, <1>7 DEF CuratorStep, CuratorNext, CuratorWork

\* Archives with something to clean have temporary names of their own.
LEMMA StemsApart ==
  ASSUME CleanInv, NEW a \in Archives, AtWork(a), NEW b \in Archives, AtWork(b), a # b
  PROVE  Stem(a) # Stem(b)
<1>1. ASSUME NEW c \in Archives, AtWork(c) PROVE c.algos # <<>>
  <2>1. PICK n : n \in issues.zip[c]
    BY <1>1 DEF AtWork, Messy
  <2>2. before.zips[c] # Torn /\ n \in MemberNames(before.zips[c]) /\ ~IsClean(n, NoHint)
    BY <1>1, <2>1 DEF AtWork, CleanInv, Started, FoundInv, FoundZip
  <2>3. PICK i \in DOMAIN before.zips[c] : n = before.zips[c][i].name
    BY <2>2 DEF MemberNames
  <2>4. n.algos # <<>>
    BY <2>2 DEF IsClean, KeyOf, Tier
  <2> QED BY <2>2, <2>3, <2>4 DEF CleanInv, Started, BeforeOK
<1> QED BY <1>1 DEF Stem

\* A copy, its check and its move keep what the archive holds; the others are
\* not touched.
LEMMA OtherArchives ==
  ASSUME CleanInv, NEW a \in Archives, AtWork(a), NEW b \in Archives, b # a,
         zips'[b] = zips[b], before' = before, issues' = issues, harm' = harm,
         curator = "zip", curator' = "zip", file'[b] = file[b],
         \A s \in Stems : s # Stem(a) => tmp'[s] = tmp[s]
  PROVE  ArchiveRight(b)'
<1>1. ArchiveRight(b) /\ curator \in Cleaning
  BY DEF CleanInv, ZipsInv, Cleaning
<1>2. /\ (zips[b] = Torn => before.zips[b] = Torn \/ harm > 0 \/ (curator = "zip" /\ file[b] = "moving"))'
      /\ (zips[b] # Torn => before.zips[b] # Torn /\ ZipFollows(zips[b], before.zips[b]))'
  BY <1>1 DEF ArchiveRight
<1>3. ASSUME UnderWay(b)'
      PROVE  /\ AtWork(b)'
             /\ (before.zips[b] # Torn /\ tmp[Stem(b)] \in Seq(Member))'
             /\ ZipFollows(tmp[Stem(b)], before.zips[b])'
             /\ (file[b] # "moving" => zips[b] # Torn)'
  <2>1. UnderWay(b)
    BY <1>3 DEF UnderWay
  <2>2. AtWork(b)
    BY <1>1, <2>1, WorkOnly
  <2>3. AtWork(b)'
    BY <2>2 DEF AtWork, Messy
  <2>4. Stem(b) # Stem(a) /\ Stem(b) \in Stems
    BY <2>2, StemsApart DEF Stems
  <2>5. tmp'[Stem(b)] = tmp[Stem(b)]
    BY <2>4
  <2> QED BY <1>1, <2>1, <2>3, <2>5 DEF ArchiveRight
<1> QED BY <1>2, <1>3 DEF ArchiveRight

\* What the step of a on its own archive has to show.
LEMMA OneArchive ==
  ASSUME CleanInv, NEW a \in Archives, AtWork(a), before' = before, issues' = issues,
         harm' = harm, curator' = curator,
         \A b \in Archives \ {a} : zips'[b] = zips[b],
         \E v : file' = [file EXCEPT ![a] = v],
         \A s \in Stems : s # Stem(a) => tmp'[s] = tmp[s],
         ArchiveRight(a)'
  PROVE  ZipsInv'
<1>1. curator = "zip" /\ DOMAIN file = Csvs \cup Archives
  BY DEF AtWork, CleanInv, ZipsInv, Cleaning
<1>2. DOMAIN file' = DOMAIN file /\ \A b \in Archives \ {a} : file'[b] = file[b]
  OBVIOUS
<1>3. ASSUME NEW b \in Archives PROVE ArchiveRight(b)'
  <2>1. CASE b = a
    BY <2>1
  <2>2. CASE b # a
    <3>1. zips'[b] = zips[b] /\ file'[b] = file[b]
      BY <1>2, <2>2
    <3> QED BY <1>1, <2>2, <3>1, OtherArchives
  <2> QED BY <2>1, <2>2
<1> QED BY <1>1, <1>2, <1>3 DEF ZipsInv

\* The facts about the archive at work.
LEMMA AtWorkFacts ==
  ASSUME CleanInv, NEW a \in Archives, AtWork(a)
  PROVE  /\ curator = "zip" /\ curator \in Cleaning /\ a \in DOMAIN file /\ Stem(a) \in DOMAIN tmp
         /\ tmp \in [Stems -> Seq(Member) \cup {Absent}]
         /\ zips \in [Archives -> Seq(Member) \cup {Torn}] /\ Torn \notin Seq(Member)
         /\ Absent \notin Seq(Member)
         /\ before.zips \in [Archives -> Seq(Member) \cup {Torn}]
BY InitialAssumption
   DEF AtWork, CleanInv, KindsInv, TypeOK, StoresOK, CuratorTypeOK, ZipsInv, Cleaning, Stems,
       Started, BeforeOK

LEMMA WriteTmpZips ==
  ASSUME CleanInv, NEW a \in Archives, WriteTmp(a), before' = before
  PROVE  ZipsInv'
<1> DEFINE New == [i \in DOMAIN zips[a] |-> IF zips[a][i].name \in issues.zip[a]
                                            THEN [zips[a][i] EXCEPT !.name = KeyOf(@, NoHint)]
                                            ELSE zips[a][i]]
<1>1. /\ AtWork(a) /\ file[a] = "todo" /\ UNCHANGED <<zips, curator, issues, harm>>
      /\ IF zips[a] = Torn
         THEN file' = [file EXCEPT ![a] = "error"] /\ tmp' = tmp
         ELSE tmp' = [tmp EXCEPT ![Stem(a)] = New] /\ file' = [file EXCEPT ![a] = "written"]
  BY DEF WriteTmp, stores, counters
<1> HIDE DEF New
<1>2. /\ a \in DOMAIN file /\ Stem(a) \in DOMAIN tmp /\ AtWork(a)' /\ ArchiveRight(a)
      /\ tmp \in [Stems -> Seq(Member) \cup {Absent}]
  BY <1>1, AtWorkFacts DEF AtWork, Messy, CleanInv, ZipsInv
<1>3. ASSUME zips[a] # Torn PROVE New \in Seq(Member) /\ ZipFollows(New, before.zips[a])
  <2>1. /\ zips[a] \in Seq(Member) /\ before.zips[a] \in Seq(Member)
        /\ ZipFollows(zips[a], before.zips[a])
    BY <1>3, TiersApart
  <2>2. ZipFollows(New, before.zips[a])
    BY <2>1, ZipStaysFollowing DEF New
  <2>3. /\ DOMAIN zips[a] = 1..Len(zips[a]) /\ Len(zips[a]) \in Nat
        /\ \A i \in DOMAIN zips[a] : zips[a][i] \in Member
    BY <2>1
  <2>4. \A m \in Member : [m EXCEPT !.name = KeyOf(@, NoHint)] \in Member
    <3>1. \A m \in Member : KeyOf(m.name, NoHint) \in Name
      BY KeyOfTyped DEF Member
    <3> QED BY <3>1 DEF Member
  <2>5. New \in Seq(Member)
    BY <2>3, <2>4 DEF New
  <2> QED BY <2>2, <2>5
<1>4. ArchiveRight(a)'
  <2>1. CASE zips[a] = Torn
    <3>1. ~UnderWay(a)' /\ curator = "zip" /\ file[a] = "todo" /\ curator' = "zip"
      BY <1>1, <1>2, <2>1 DEF UnderWay, AtWork
    <3> QED BY <1>1, <1>2, <2>1, <3>1 DEF ArchiveRight
  <2>2. CASE zips[a] # Torn
    <3>1. tmp'[Stem(a)] = New /\ file'[a] = "written" /\ curator' = "zip"
      BY <1>1, <1>2, <2>2 DEF AtWork
    <3> QED BY <1>1, <1>2, <1>3, <2>2, <3>1 DEF ArchiveRight, UnderWay
  <2> QED BY <2>1, <2>2
<1> QED BY <1>1, <1>2, <1>4, OneArchive

LEMMA CheckParityZips ==
  ASSUME CleanInv, NEW a \in Archives, CheckParity(a), before' = before
  PROVE  ZipsInv'
<1>1. AtWork(a) /\ file[a] = "written" /\ UNCHANGED <<zips, curator, issues, harm>>
  BY DEF CheckParity, stores, counters
<1>2. /\ curator \in Cleaning /\ curator = "zip" /\ a \in DOMAIN file /\ UnderWay(a)
      /\ ArchiveRight(a) /\ Absent \notin Seq(Member) /\ AtWork(a)'
  BY <1>1, AtWorkFacts DEF AtWork, Messy, UnderWay, CleanInv, ZipsInv
<1>3. tmp[Stem(a)] \in Seq(Member) /\ zips[a] # Torn /\ Len(tmp[Stem(a)]) = Len(zips[a])
  BY <1>1, <1>2 DEF ArchiveRight, ZipFollows
<1>4. file' = [file EXCEPT ![a] = "checked"] /\ tmp' = tmp
  BY <1>2, <1>3 DEF CheckParity
<1>5. ArchiveRight(a)'
  BY <1>1, <1>2, <1>3, <1>4 DEF ArchiveRight, UnderWay
<1> QED BY <1>1, <1>4, <1>5, OneArchive

\* The temporary copy is there, so that a move never fails.
LEMMA BeginMoveZips ==
  ASSUME CleanInv, NEW a \in Archives, BeginMove(a), before' = before
  PROVE  ZipsInv'
<1>1. AtWork(a) /\ file[a] = "checked" /\ UNCHANGED <<tmp, issues, harm>>
  BY DEF BeginMove, counters
<1>2. /\ curator \in Cleaning /\ curator = "zip" /\ a \in DOMAIN file /\ UnderWay(a)
      /\ ArchiveRight(a) /\ Absent \notin Seq(Member)
      /\ zips \in [Archives -> Seq(Member) \cup {Torn}]
  BY <1>1, AtWorkFacts DEF AtWork, UnderWay, CleanInv, ZipsInv
<1>3. tmp[Stem(a)] \in Seq(Member) /\ tmp[Stem(a)] # Absent
  BY <1>1, <1>2 DEF ArchiveRight
<1>4. /\ curator' = curator /\ file' = [file EXCEPT ![a] = "moving"]
      /\ zips' = zips \/ zips' = [zips EXCEPT ![a] = Torn]
  BY <1>3 DEF BeginMove
<1>5. AtWork(a)' /\ file'[a] = "moving" /\ curator' = "zip"
  BY <1>1, <1>2, <1>4 DEF AtWork, Messy
<1>6. ArchiveRight(a)'
  <2>1. zips'[a] = zips[a] \/ zips'[a] = Torn
    BY <1>2, <1>4
  <2> QED BY <1>1, <1>2, <1>3, <1>5, <2>1 DEF ArchiveRight, UnderWay
<1>7. \A b \in Archives \ {a} : zips'[b] = zips[b]
  BY <1>2, <1>4
<1> QED BY <1>1, <1>4, <1>6, <1>7, OneArchive

LEMMA EndMoveZips ==
  ASSUME CleanInv, NEW a \in Archives, EndMove(a), before' = before
  PROVE  ZipsInv'
<1>1. /\ AtWork(a) /\ file[a] = "moving" /\ UNCHANGED <<curator, issues, harm>>
      /\ zips' = [zips EXCEPT ![a] = tmp[Stem(a)]]
      /\ tmp' = [tmp EXCEPT ![Stem(a)] = Absent]
      /\ file' = [file EXCEPT ![a] = "done"]
  BY DEF EndMove, counters
<1>2. /\ curator \in Cleaning /\ curator = "zip" /\ a \in DOMAIN file /\ UnderWay(a)
      /\ ArchiveRight(a) /\ Torn \notin Seq(Member)
      /\ zips \in [Archives -> Seq(Member) \cup {Torn}]
      /\ tmp \in [Stems -> Seq(Member) \cup {Absent}]
  BY <1>1, AtWorkFacts DEF UnderWay, CleanInv, ZipsInv
<1>3. /\ tmp[Stem(a)] \in Seq(Member) /\ before.zips[a] # Torn
      /\ ZipFollows(tmp[Stem(a)], before.zips[a])
  BY <1>2 DEF ArchiveRight
<1>4. ArchiveRight(a)'
  <2>1. zips'[a] = tmp[Stem(a)] /\ file'[a] = "done" /\ curator' = "zip"
    BY <1>1, <1>2
  <2> QED BY <1>2, <1>3, <2>1 DEF ArchiveRight, UnderWay
<1>5. /\ \A b \in Archives \ {a} : zips'[b] = zips[b]
      /\ \A s \in Stems : s # Stem(a) => tmp'[s] = tmp[s]
  BY <1>1, <1>2
<1> QED BY <1>1, <1>4, <1>5, OneArchive

LEMMA CuratorZips ==
  ASSUME CleanInv, CuratorStep, ~StartAudit PROVE ZipsInv'
<1>1. before' = before
  BY DEF CuratorStep
<1> QED BY <1>1, OtherZips, WriteTmpZips, CheckParityZips, BeginMoveZips, EndMoveZips

-----------------------------------------------------------------------------
(* Every step *)

LEMMA CuratorClean == CleanInv /\ CuratorStep => CleanInv'
<1> SUFFICES ASSUME CleanInv, CuratorStep PROVE CleanInv'
  OBVIOUS
<1>1. KindsInv'
  BY CuratorKinds DEF CleanInv
<1>2. CASE StartAudit
  <2>1. before' = Stores
    BY <1>2 DEF CuratorStep
  <2> QED BY <1>1, <1>2, <2>1, StartStarted DEF CleanInv
<1>3. CASE ~StartAudit
  <2>1. UNCHANGED <<before, quiet>>
    BY <1>3 DEF CuratorStep
  <2>2. Started'
    <3>1. CASE ScanCsvs \/ ScanZips \/ ScanPts
      BY <2>1, <3>1, ScansStarted
    <3>2. CASE ~(ScanCsvs \/ ScanZips \/ ScanPts)
      <4>1. issues' = issues /\ curator' \notin Scanning
        <5>1. CASE StartCleanup \/ KillCurator \/ SkipPhase \/ VerifyPts \/ VerifyCsvs \/ VerifyZips
          BY <5>1 DEF StartCleanup, KillCurator, SkipPhase, VerifyPts, VerifyCsvs, VerifyZips,
                      Scanning
        <5>2. CASE \E p \in DOMAIN pair : CheckPair(p) \/ RenamePair(p)
          BY <5>2 DEF CheckPair, RenamePair, Scanning
        <5>3. CASE \E f \in Csvs : RewriteCsv(f)
          BY <5>3 DEF RewriteCsv, Scanning
        <5>4. CASE \E a \in Archives : WriteTmp(a) \/ CheckParity(a) \/ BeginMove(a) \/ EndMove(a)
          BY <5>4 DEF WriteTmp, CheckParity, BeginMove, EndMove, AtWork, Scanning
        <5> QED BY <1>3, <3>2, <5>1, <5>2, <5>3, <5>4 DEF CuratorStep, CuratorNext, CuratorWork
      <4> QED BY <2>1, <4>1, StartedStands DEF CleanInv
    <3> QED BY <3>1, <3>2
  <2> QED BY <1>1, <1>3, <2>2, CuratorRows, CuratorGraphs, CuratorZips DEF CleanInv
<1> QED BY <1>2, <1>3

\* A job writes graphs only, and the audit does not vouch for them then.
LEMMA JobClean == CleanInv /\ JobStep => CleanInv'
<1> SUFFICES ASSUME CleanInv, JobStep PROVE CleanInv'
  OBVIOUS
<1>1. KindsInv'
  BY JobKinds DEF CleanInv
<1>2. /\ UNCHANGED <<curator, issues, file, tmp, failed, before>>
      /\ (quiet' => quiet /\ pts' = pts) /\ (harm > 0 => harm' > 0)
  BY HarmStays DEF JobStep, curatorVars, stores, CleanInv, Next
<1>3. zips' = zips /\ csvs' = csvs
  BY DEF JobStep, JobNext, JobWork, Submit, Stage, Staged, Discover, Drain, Complete, Shutdown,
         KillJob, Enqueue, Take, Build, Save, Raise, stores
<1>4. Started'
  <2>1. BeforeOK' /\ ScanInv'
    BY <1>2, <1>3 DEF CleanInv, Started, BeforeOK, ScanInv
  <2>2. FoundInv'
    <3>1. /\ OldArtifacts' = OldArtifacts /\ OldInputs' = OldInputs /\ OldZips' = OldZips
          /\ OldDisk' = OldDisk
      BY <1>2 DEF OldArtifacts, OldInputs, OldRows, OldZips, OldDisk
    <3>2. FoundCsv' = FoundCsv
      BY <1>2, <3>1 DEF FoundCsv
    <3>3. FoundZip' = FoundZip
      BY <1>2, <3>1 DEF FoundZip
    <3>4. FoundPt' = FoundPt
      BY <1>2, <3>1 DEF FoundPt
    <3> QED BY <1>2, <3>2, <3>3, <3>4 DEF CleanInv, Started, FoundInv
  <2> QED BY <2>1, <2>2 DEF Started
<1>5. RowsInv'
  BY <1>2, <1>3 DEF CleanInv, RowsInv, StillMessy
<1>6. GraphsInv'
  BY <1>2 DEF CleanInv, GraphsInv
<1>7. ZipsInv'
  <2>1. ASSUME NEW a \in Archives PROVE ArchiveRight(a)'
    <3>1. ArchiveRight(a)
      BY DEF CleanInv, ZipsInv
    <3>2. UnderWay(a)' = UnderWay(a) /\ AtWork(a)' = AtWork(a)
      BY <1>2 DEF UnderWay, AtWork, Messy
    <3> QED BY <1>2, <1>3, <3>1, <3>2 DEF ArchiveRight
  <2> QED BY <1>2, <2>1 DEF CleanInv, ZipsInv
<1> QED BY <1>1, <1>4, <1>5, <1>6, <1>7 DEF CleanInv

LEMMA CleanInductive == Spec => []CleanInv
<1>1. Init => CleanInv
  BY InitKindsInv, InitCleanInv DEF CleanInv
<1>2. CleanInv /\ UNCHANGED prepVars => CleanInv'
  <2> SUFFICES ASSUME CleanInv, UNCHANGED prepVars PROVE CleanInv'
    OBVIOUS
  <2>1. /\ UNCHANGED <<zips, pts, csvs, runs, harm>> /\ UNCHANGED jobVars
        /\ UNCHANGED <<curator, issues, pair, file, tmp, failed, before, quiet>>
    BY DEF prepVars, stores, counters, curatorVars
  <2>2. KindsInv'
    BY <2>1 DEF CleanInv, jobVars, KindsInv, TypeOK, StoresOK, CuratorTypeOK, JobTypeOK, IssuesOK,
                PairsOK, TasksOK
  <2>3. Started'
    <3>1. /\ OldArtifacts' = OldArtifacts /\ OldInputs' = OldInputs /\ OldZips' = OldZips
          /\ OldDisk' = OldDisk
      BY <2>1 DEF OldArtifacts, OldInputs, OldRows, OldZips, OldDisk
    <3>2. FoundCsv' = FoundCsv
      BY <2>1, <3>1 DEF FoundCsv
    <3>3. FoundZip' = FoundZip
      BY <2>1, <3>1 DEF FoundZip
    <3>4. FoundPt' = FoundPt
      BY <2>1, <3>1 DEF FoundPt
    <3> QED BY <2>1, <3>2, <3>3, <3>4 DEF CleanInv, Started, BeforeOK, ScanInv, FoundInv
  <2>4. RowsInv' /\ GraphsInv'
    BY <2>1 DEF CleanInv, RowsInv, StillMessy, GraphsInv
  <2>5. ZipsInv'
    <3>1. ASSUME NEW a \in Archives PROVE ArchiveRight(a)'
      <4>1. ArchiveRight(a)
        BY DEF CleanInv, ZipsInv
      <4>2. UnderWay(a)' = UnderWay(a) /\ AtWork(a)' = AtWork(a)
        BY <2>1 DEF UnderWay, AtWork, Messy
      <4> QED BY <2>1, <4>1, <4>2 DEF ArchiveRight
    <3> QED BY <2>1, <3>1 DEF CleanInv, ZipsInv
  <2> QED BY <2>2, <2>3, <2>4, <2>5 DEF CleanInv
<1> QED BY <1>1, <1>2, CuratorClean, JobClean, PTL DEF Spec, Next

-----------------------------------------------------------------------------
(* What the promises of the cleanup rest on *)

\* After the verification of the archives, a member is what its name's key is.
LEMMA ArchivesCleaned ==
  ASSUME CleanInv, curator = "passed", issues.zip # Absent, NEW a \in Archives, zips[a] # Torn
  PROVE  /\ before.zips[a] # Torn /\ DOMAIN zips[a] = DOMAIN before.zips[a]
         /\ \A i \in DOMAIN zips[a] :
              /\ before.zips[a][i] \in Member /\ MemberFollows(zips[a][i], before.zips[a][i])
              /\ Recognized(before.zips[a][i].name, NoHint) =>
                   zips[a][i].name = KeyOf(before.zips[a][i].name, NoHint)
<1>1. /\ zips[a] \in Seq(Member) /\ before.zips[a] \in Seq(Member)
      /\ ZipFollows(zips[a], before.zips[a]) /\ before.zips[a] # Torn
  BY TiersApart DEF CleanInv, ZipsInv, ArchiveRight
<1>2. DOMAIN zips[a] = DOMAIN before.zips[a]
  BY <1>1 DEF ZipFollows
<1>3. ASSUME NEW i \in DOMAIN zips[a]
      PROVE  /\ before.zips[a][i] \in Member /\ MemberFollows(zips[a][i], before.zips[a][i])
             /\ Recognized(before.zips[a][i].name, NoHint) =>
                  zips[a][i].name = KeyOf(before.zips[a][i].name, NoHint)
  <2>1. before.zips[a][i] \in Member /\ MemberFollows(zips[a][i], before.zips[a][i])
    BY <1>1, <1>2 DEF ZipFollows
  <2>2. zips[a][i].name \notin issues.zip[a]
    BY DEF CleanInv, ZipsInv, ArchiveRight, MemberNames
  <2>3. issues.zip[a] = {n \in MemberNames(before.zips[a]) : Recognized(n, NoHint) /\ ~IsClean(n, NoHint)}
    BY <1>1 DEF CleanInv, Started, FoundInv, FoundZip
  <2>4. before.zips[a][i].name \in MemberNames(before.zips[a])
    BY <1>2 DEF MemberNames
  <2> QED BY <2>1, <2>2, <2>3, <2>4 DEF MemberFollows, IsClean
<1> QED BY <1>1, <1>2, <1>3

\* After the verification of the CSVs, a row is clean.
LEMMA RowsCleaned ==
  ASSUME CleanInv, curator = "passed", issues.csv # Absent, NEW f \in Csvs
  PROVE  /\ DOMAIN csvs[f] = DOMAIN before.csvs[f]
         /\ \A i \in DOMAIN csvs[f] :
              LET old == before.csvs[f][i]
              IN  /\ old \in Row
                  /\ csvs[f][i].artifact = IF old.artifact = None THEN None
                                           ELSE KeyOf(old.artifact, "clean")
                  /\ csvs[f][i].input = IF old.input = None THEN None ELSE CleanPath(old.input)
<1>1. DOMAIN csvs[f] = DOMAIN before.csvs[f] /\ ~StillMessy(f)
  BY DEF CleanInv, RowsInv
<1>2. ASSUME NEW i \in DOMAIN csvs[f]
      PROVE  /\ before.csvs[f][i] \in Row
             /\ csvs[f][i].artifact = IF before.csvs[f][i].artifact = None THEN None
                                      ELSE KeyOf(before.csvs[f][i].artifact, "clean")
             /\ csvs[f][i].input = IF before.csvs[f][i].input = None THEN None
                                   ELSE CleanPath(before.csvs[f][i].input)
  <2> DEFINE old == before.csvs[f][i]
             new == csvs[f][i]
  <2>1. old \in Row
    BY <1>1 DEF CleanInv, Started, BeforeOK
  <2>2. RowFollows(new, old)
    BY DEF CleanInv, RowsInv
  <2>3. new.artifact \notin issues.csv[f].artifact /\ new.input \notin issues.csv[f].input
    BY <1>1 DEF StillMessy
  <2>4. /\ old.artifact # None /\ ~IsClean(old.artifact, "clean") => old.artifact \in issues.csv[f].artifact
        /\ old.input # None /\ ~IsClean(old.input.name, old.input.dir) => old.input \in issues.csv[f].input
    BY <1>1 DEF CleanInv, Started, FoundInv, FoundCsv
  <2>5. old.input # None /\ IsClean(old.input.name, old.input.dir) => old.input = CleanPath(old.input)
    BY <2>1 DEF IsClean, CleanPath, Row, Path
  <2> QED BY <2>1, <2>2, <2>3, <2>4, <2>5 DEF RowFollows, IsClean
<1> QED BY <1>1, <1>2

\* After the verification of the graphs, each is where it belongs.
LEMMA GraphsCleaned ==
  ASSUME CleanInv, curator = "passed", issues.pt # Absent, quiet
  PROVE  /\ \A p \in DOMAIN before.pts : p \in Path /\ CleanPath(p) \in DOMAIN pts
         /\ \A q \in DOMAIN pts : \E p \in DOMAIN before.pts : q = CleanPath(p)
<1>1. DOMAIN before.pts \subseteq Path
  BY DEF CleanInv, Started, BeforeOK
<1>2. /\ issues.pt = {RenameOf(p) : p \in {q \in DOMAIN before.pts : ~IsClean(q.name, q.dir)}}
      /\ \A p \in issues.pt : p.src \notin DOMAIN pts /\ p.dst \in DOMAIN pts
      /\ \A p \in DOMAIN before.pts : IsClean(p.name, p.dir) => p \in DOMAIN pts
      /\ \A q \in DOMAIN pts : q \in DOMAIN before.pts \/ \E p \in DOMAIN before.pts : q = CleanPath(p)
  BY DEF CleanInv, Started, FoundInv, FoundPt, GraphsInv, RowsInv
<1>3. \A p \in DOMAIN before.pts : IsClean(p.name, p.dir) => CleanPath(p) = p
  BY <1>1 DEF IsClean, CleanPath, Path
<1>4. \A p \in DOMAIN before.pts : ~IsClean(p.name, p.dir) =>
        p \notin DOMAIN pts /\ CleanPath(p) \in DOMAIN pts
  <2> SUFFICES ASSUME NEW p \in DOMAIN before.pts, ~IsClean(p.name, p.dir)
               PROVE  p \notin DOMAIN pts /\ CleanPath(p) \in DOMAIN pts
    OBVIOUS
  <2>1. RenameOf(p) = [src |-> p, dst |-> CleanPath(p)]
    BY <1>1, CleanPathClean
  <2>2. RenameOf(p) \in issues.pt
    BY <1>2
  <2>3. RenameOf(p).src \notin DOMAIN pts /\ RenameOf(p).dst \in DOMAIN pts
    BY <1>2, <2>2
  <2> QED BY <2>1, <2>3
<1> QED BY <1>1, <1>2, <1>3, <1>4

LEMMA ArchivesKept == CleanInv => ArchivesKeepMembers
<1> SUFFICES ASSUME CleanInv, NEW a \in Archives
             PROVE  IF zips[a] = Torn
                    THEN before.zips[a] = Torn \/ harm > 0 \/ file[a] = "moving"
                    ELSE /\ before.zips[a] # Torn /\ Len(zips[a]) = Len(before.zips[a])
                         /\ \A i \in DOMAIN zips[a] :
                              /\ zips[a][i].content = before.zips[a][i].content
                              /\ KeyOf(zips[a][i].name, NoHint) = KeyOf(before.zips[a][i].name, NoHint)
  BY DEF ArchivesKeepMembers
<1>1. CASE zips[a] = Torn
  BY <1>1 DEF CleanInv, ZipsInv, ArchiveRight
<1>2. CASE zips[a] # Torn
  <2>1. /\ zips[a] \in Seq(Member) /\ before.zips[a] \in Seq(Member)
        /\ ZipFollows(zips[a], before.zips[a]) /\ before.zips[a] # Torn
    BY <1>2, TiersApart DEF CleanInv, ZipsInv, ArchiveRight
  <2>2. ASSUME NEW i \in DOMAIN zips[a]
        PROVE  before.zips[a][i] \in Member /\ MemberFollows(zips[a][i], before.zips[a][i])
    BY <2>1 DEF ZipFollows
  <2>3. Len(zips[a]) = Len(before.zips[a])
    BY <2>1 DEF ZipFollows
  <2> QED BY <1>2, <2>1, <2>2, <2>3, MemberKept
<1> QED BY <1>1, <1>2

LEMMA RowsKept == CleanInv => RowsStayResolved
<1> SUFFICES ASSUME CleanInv, curator = "passed", quiet, Audited,
                    NEW f \in Csvs, NEW i \in DOMAIN csvs[f]
             PROVE  LET row == before.csvs[f][i]
                    IN  /\ row.input \in DOMAIN before.pts => csvs[f][i].input \in DOMAIN pts
                        /\ NamesMember(row, before.zips) /\ SameKeyAnywhere(row.artifact) =>
                             \/ NamesMember(csvs[f][i], zips)
                             \/ \E a \in Archives : zips[a] = Torn
  BY DEF RowsStayResolved
<1> DEFINE row == before.csvs[f][i]
<1>1. /\ row \in Row
      /\ csvs[f][i].artifact = IF row.artifact = None THEN None ELSE KeyOf(row.artifact, "clean")
      /\ csvs[f][i].input = IF row.input = None THEN None ELSE CleanPath(row.input)
  BY RowsCleaned DEF Audited
<1>2. row.input \in DOMAIN before.pts => csvs[f][i].input \in DOMAIN pts
  <2>1. \A p \in DOMAIN before.pts : p # None /\ CleanPath(p) \in DOMAIN pts
    BY GraphsCleaned, InitialAssumption DEF Audited
  <2> QED BY <1>1, <2>1
<1>3. ASSUME NamesMember(row, before.zips), SameKeyAnywhere(row.artifact),
             \A a \in Archives : zips[a] # Torn
      PROVE  NamesMember(csvs[f][i], zips)
  <2>1. PICK a \in Archives : before.zips[a] # Torn /\ row.artifact \in MemberNames(before.zips[a])
    BY <1>3 DEF NamesMember
  <2>2. PICK j \in DOMAIN before.zips[a] : row.artifact = before.zips[a][j].name
    BY <2>1 DEF MemberNames
  <2>3. /\ zips[a] # Torn /\ j \in DOMAIN zips[a] /\ before.zips[a][j] \in Member
        /\ MemberFollows(zips[a][j], before.zips[a][j])
        /\ Recognized(row.artifact, NoHint) => zips[a][j].name = KeyOf(row.artifact, NoHint)
    BY <1>3, <2>2, ArchivesCleaned DEF Audited
  <2>4. row.artifact \in Name /\ row.artifact # None
    BY <2>2, <2>3, InitialAssumption DEF Member
  <2>5. zips[a][j].name = KeyOf(row.artifact, NoHint)
    <3>1. CASE Recognized(row.artifact, NoHint)
      BY <2>3, <3>1
    <3>2. CASE ~Recognized(row.artifact, NoHint)
      <4>1. KeyOf(row.artifact, NoHint) = row.artifact
        BY <3>2 DEF Recognized, KeyOf
      <4> QED BY <2>2, <2>3, <4>1 DEF MemberFollows
    <3> QED BY <3>1, <3>2
  <2>6. csvs[f][i].artifact = zips[a][j].name
    BY <1>1, <1>3, <2>4, <2>5 DEF SameKeyAnywhere
  <2> QED BY <2>3, <2>6 DEF NamesMember, MemberNames
<1> QED BY <1>2, <1>3

\* The preview computed the keys that the audit after the cleanup would find.
LEMMA PreviewKept == CleanInv => PreviewComesTrue
<1> SUFFICES ASSUME CleanInv, curator = "passed", quiet, Audited,
                    \A a \in Archives : zips[a] # Torn
             PROVE  Report(KeySets(CleanKeys)) = Report(issues.keys)
  BY DEF PreviewComesTrue
<1> DEFINE Now(S) == [t \in 0..2 |-> CleanKeys(S, t)]
<1>1. /\ issues.keys = [aig |-> issues.keys.aig, pt |-> issues.keys.pt,
                        csv |-> issues.keys.csv, input |-> issues.keys.input]
      /\ issues.keys.aig = Tiered(OldZips) /\ issues.keys.pt = Tiered(OldDisk)
      /\ issues.keys.csv = Tiered(OldArtifacts) /\ issues.keys.input = Tiered(OldInputs)
  BY DEF Audited, CleanInv, Started, FoundInv, FoundCsv, FoundZip, FoundPt
<1>2. ASSUME NEW S, NEW T, SameKeys(S, T) PROVE Now(T) = Tiered(S)
  BY <1>2, KeysOfSame DEF Tiered
<1>3. SameKeys(OldDisk, OnDisk)
  <2>1. /\ \A p \in DOMAIN before.pts : p \in Path /\ CleanPath(p) \in DOMAIN pts
        /\ \A q \in DOMAIN pts : \E p \in DOMAIN before.pts : q = CleanPath(p)
    BY GraphsCleaned DEF Audited
  <2>2. ASSUME NEW p \in Path
        PROVE  LET s == Seen(p.name, p.dir)  u == Seen(CleanPath(p).name, CleanPath(p).dir)
               IN  /\ Recognized(s.name, s.hint) /\ Recognized(u.name, u.hint)
                   /\ IsClean(u.name, u.hint) /\ KeyOf(u.name, u.hint) = KeyOf(s.name, s.hint)
    BY CleanPathClean, KeyOfKey DEF Seen
  <2>3. ASSUME NEW s \in OldDisk
        PROVE  \E u \in OnDisk : /\ IsClean(u.name, u.hint) /\ Recognized(u.name, u.hint)
                                 /\ KeyOf(u.name, u.hint) = KeyOf(s.name, s.hint)
    <3>1. PICK p \in DOMAIN before.pts : s = Seen(p.name, p.dir)
      BY DEF OldDisk
    <3>2. Seen(CleanPath(p).name, CleanPath(p).dir) \in OnDisk
      BY <2>1 DEF OnDisk
    <3> QED BY <2>1, <2>2, <3>1, <3>2
  <2>4. ASSUME NEW u \in OnDisk
        PROVE  \E s \in OldDisk : /\ Recognized(s.name, s.hint)
                                  /\ KeyOf(u.name, u.hint) = KeyOf(s.name, s.hint)
    <3>1. PICK q \in DOMAIN pts : u = Seen(q.name, q.dir)
      BY DEF OnDisk
    <3>2. PICK p \in DOMAIN before.pts : q = CleanPath(p)
      BY <2>1
    <3>3. Seen(p.name, p.dir) \in OldDisk
      BY DEF OldDisk
    <3> QED BY <2>1, <2>2, <3>1, <3>2, <3>3
  <2> QED BY <2>3, <2>4 DEF SameKeys
<1>4. SameKeys(OldZips, InZips)
  <2>1. ASSUME NEW a \in Archives
        PROVE  /\ before.zips[a] # Torn /\ zips[a] # Torn /\ DOMAIN zips[a] = DOMAIN before.zips[a]
               /\ \A i \in DOMAIN zips[a] :
                    LET n == before.zips[a][i].name  m == zips[a][i].name
                    IN  /\ n \in Name /\ KeyOf(m, NoHint) = KeyOf(n, NoHint)
                        /\ Recognized(m, NoHint) <=> Recognized(n, NoHint)
                        /\ Recognized(n, NoHint) => IsClean(m, NoHint)
    <3>1. /\ before.zips[a] # Torn /\ zips[a] # Torn /\ DOMAIN zips[a] = DOMAIN before.zips[a]
          /\ \A i \in DOMAIN zips[a] :
               /\ before.zips[a][i] \in Member /\ MemberFollows(zips[a][i], before.zips[a][i])
               /\ Recognized(before.zips[a][i].name, NoHint) =>
                    zips[a][i].name = KeyOf(before.zips[a][i].name, NoHint)
      BY ArchivesCleaned DEF Audited
    <3>2. ASSUME NEW i \in DOMAIN zips[a]
          PROVE  LET n == before.zips[a][i].name  m == zips[a][i].name
                 IN  /\ n \in Name /\ KeyOf(m, NoHint) = KeyOf(n, NoHint)
                     /\ Recognized(m, NoHint) <=> Recognized(n, NoHint)
                     /\ Recognized(n, NoHint) => IsClean(m, NoHint)
      <4>1. before.zips[a][i] \in Member /\ MemberFollows(zips[a][i], before.zips[a][i])
        BY <3>1, <3>2
      <4>2. before.zips[a][i].name \in Name /\ NoHint \in Hints
        BY <4>1 DEF Member, Hints
      <4>3. IsClean(KeyOf(before.zips[a][i].name, NoHint), NoHint)
        BY <4>2, KeyOfKey
      <4> QED BY <3>1, <4>1, <4>2, <4>3, MemberKept
    <3> QED BY <3>1, <3>2
  <2>2. ASSUME NEW s \in OldZips, Recognized(s.name, s.hint)
        PROVE  \E u \in InZips : /\ IsClean(u.name, u.hint) /\ Recognized(u.name, u.hint)
                                 /\ KeyOf(u.name, u.hint) = KeyOf(s.name, s.hint)
    <3>1. PICK a \in Archives : \E i \in DOMAIN before.zips[a] :
                  s = Seen(before.zips[a][i].name, NoHint)
      BY DEF OldZips, MemberNames
    <3>2. PICK i \in DOMAIN before.zips[a] : s = Seen(before.zips[a][i].name, NoHint)
      BY <3>1
    <3>3. Seen(zips[a][i].name, NoHint) \in InZips
      BY <2>1 DEF InZips, MemberNames
    <3> QED BY <2>1, <2>2, <3>2, <3>3 DEF Seen
  <2>3. ASSUME NEW u \in InZips, Recognized(u.name, u.hint)
        PROVE  \E s \in OldZips : /\ Recognized(s.name, s.hint)
                                  /\ KeyOf(u.name, u.hint) = KeyOf(s.name, s.hint)
    <3>1. PICK a \in Archives : \E i \in DOMAIN zips[a] : u = Seen(zips[a][i].name, NoHint)
      BY DEF InZips, MemberNames
    <3>2. PICK i \in DOMAIN zips[a] : u = Seen(zips[a][i].name, NoHint)
      BY <3>1
    <3>3. Seen(before.zips[a][i].name, NoHint) \in OldZips
      BY <2>1 DEF OldZips, MemberNames
    <3> QED BY <2>1, <2>3, <3>2, <3>3 DEF Seen
  <2> QED BY <2>2, <2>3 DEF SameKeys
<1>5. /\ \A r \in AllRows : \E old \in OldRows :
             /\ old \in Row
             /\ r.artifact = IF old.artifact = None THEN None ELSE KeyOf(old.artifact, "clean")
             /\ r.input = IF old.input = None THEN None ELSE CleanPath(old.input)
      /\ \A old \in OldRows : old \in Row /\ \E r \in AllRows :
             /\ r.artifact = IF old.artifact = None THEN None ELSE KeyOf(old.artifact, "clean")
             /\ r.input = IF old.input = None THEN None ELSE CleanPath(old.input)
  <2>1. ASSUME NEW f \in Csvs
        PROVE  /\ DOMAIN csvs[f] = DOMAIN before.csvs[f]
               /\ \A i \in DOMAIN csvs[f] :
                    LET old == before.csvs[f][i]
                    IN  /\ old \in Row /\ old \in OldRows /\ csvs[f][i] \in AllRows
                        /\ csvs[f][i].artifact = IF old.artifact = None THEN None
                                                 ELSE KeyOf(old.artifact, "clean")
                        /\ csvs[f][i].input = IF old.input = None THEN None ELSE CleanPath(old.input)
    BY RowsCleaned DEF Audited, OldRows, AllRows
  <2>2. ASSUME NEW r \in AllRows
        PROVE  \E f \in Csvs : \E i \in DOMAIN csvs[f] : r = csvs[f][i]
    BY DEF AllRows
  <2>3. ASSUME NEW old \in OldRows
        PROVE  \E f \in Csvs : \E i \in DOMAIN before.csvs[f] : old = before.csvs[f][i]
    BY DEF OldRows
  <2> QED BY <2>1, <2>2, <2>3
<1>6. SameKeys(OldArtifacts, InArtifactColumn)
  <2>1. ASSUME NEW n \in Name
        PROVE  LET s == Seen(n, "clean")  u == Seen(KeyOf(n, "clean"), "clean")
               IN  /\ Recognized(s.name, s.hint) /\ Recognized(u.name, u.hint)
                   /\ IsClean(u.name, u.hint) /\ KeyOf(u.name, u.hint) = KeyOf(s.name, s.hint)
    BY KeyOfKey, NamesAssumption DEF Seen, Hints, Recognized
  <2>2. ASSUME NEW s \in OldArtifacts
        PROVE  \E u \in InArtifactColumn : /\ IsClean(u.name, u.hint) /\ Recognized(u.name, u.hint)
                                           /\ KeyOf(u.name, u.hint) = KeyOf(s.name, s.hint)
    <3>1. PICK old \in OldRows : old.artifact # None /\ s = Seen(old.artifact, "clean")
      BY DEF OldArtifacts
    <3>2. PICK r \in AllRows : r.artifact = KeyOf(old.artifact, "clean")
      BY <1>5, <3>1
    <3>3. old.artifact \in Name /\ KeyOf(old.artifact, "clean") # None
      BY <1>5, <3>1, KeyOfKey, InitialAssumption DEF Row, Hints
    <3>4. Seen(KeyOf(old.artifact, "clean"), "clean") \in InArtifactColumn
      BY <3>2, <3>3 DEF InArtifactColumn
    <3> QED BY <2>1, <3>1, <3>3, <3>4
  <2>3. ASSUME NEW u \in InArtifactColumn
        PROVE  \E s \in OldArtifacts : /\ Recognized(s.name, s.hint)
                                       /\ KeyOf(u.name, u.hint) = KeyOf(s.name, s.hint)
    <3>1. PICK r \in AllRows : r.artifact # None /\ u = Seen(r.artifact, "clean")
      BY DEF InArtifactColumn
    <3>2. PICK old \in OldRows : /\ old \in Row /\ old.artifact # None
                                 /\ r.artifact = KeyOf(old.artifact, "clean")
      BY <1>5, <3>1
    <3>3. Seen(old.artifact, "clean") \in OldArtifacts /\ old.artifact \in Name
      BY <3>2 DEF OldArtifacts, Row
    <3> QED BY <2>1, <3>1, <3>2, <3>3
  <2> QED BY <2>2, <2>3 DEF SameKeys
<1>7. SameKeys(OldInputs, InInputColumn)
  <2>1. ASSUME NEW p \in Path
        PROVE  LET s == Seen(p.name, p.dir)  u == Seen(CleanPath(p).name, CleanPath(p).dir)
               IN  /\ Recognized(s.name, s.hint) /\ Recognized(u.name, u.hint)
                   /\ IsClean(u.name, u.hint) /\ KeyOf(u.name, u.hint) = KeyOf(s.name, s.hint)
    BY CleanPathClean, KeyOfKey DEF Seen
  <2>2. ASSUME NEW s \in OldInputs
        PROVE  \E u \in InInputColumn : /\ IsClean(u.name, u.hint) /\ Recognized(u.name, u.hint)
                                        /\ KeyOf(u.name, u.hint) = KeyOf(s.name, s.hint)
    <3>1. PICK old \in OldRows : old.input # None /\ s = Seen(old.input.name, old.input.dir)
      BY DEF OldInputs
    <3>2. PICK r \in AllRows : r.input = CleanPath(old.input)
      BY <1>5, <3>1
    <3>3. old.input \in Path /\ CleanPath(old.input) # None
      BY <1>5, <3>1, CleanPathClean, InitialAssumption DEF Row
    <3>4. Seen(CleanPath(old.input).name, CleanPath(old.input).dir) \in InInputColumn
      BY <3>2, <3>3 DEF InInputColumn
    <3> QED BY <2>1, <3>1, <3>3, <3>4
  <2>3. ASSUME NEW u \in InInputColumn
        PROVE  \E s \in OldInputs : /\ Recognized(s.name, s.hint)
                                    /\ KeyOf(u.name, u.hint) = KeyOf(s.name, s.hint)
    <3>1. PICK r \in AllRows : r.input # None /\ u = Seen(r.input.name, r.input.dir)
      BY DEF InInputColumn
    <3>2. PICK old \in OldRows : /\ old \in Row /\ old.input # None
                                 /\ r.input = CleanPath(old.input)
      BY <1>5, <3>1
    <3>3. Seen(old.input.name, old.input.dir) \in OldInputs /\ old.input \in Path
      BY <3>2 DEF OldInputs, Row
    <3> QED BY <2>1, <3>1, <3>2, <3>3
  <2> QED BY <2>2, <2>3 DEF SameKeys
<1>8. KeySets(CleanKeys) = [aig |-> Now(InZips), pt |-> Now(OnDisk),
                            csv |-> Now(InArtifactColumn), input |-> Now(InInputColumn)]
  BY DEF KeySets
<1> HIDE DEF Now
<1>9. KeySets(CleanKeys) = issues.keys
  BY <1>1, <1>2, <1>3, <1>4, <1>6, <1>7, <1>8
<1> QED BY <1>9

(***************************************************************************)
(* For any data set, any number of threads, kills and jobs beside it: a    *)
(* cleanup that passes leaves the rows resolved, a cleanup that passes or  *)
(* not leaves the archives' members as they were but for their names, and  *)
(* what the audit announced is what an audit would find.                   *)
(***************************************************************************)
THEOREM CleanupChangesNamesOnly == Spec => []CleanupKeepsData
<1>1. CleanInv => CleanupKeepsData
  BY ArchivesKept, RowsKept, PreviewKept DEF CleanupKeepsData
<1> QED BY <1>1, CleanInductive, PTL
=============================================================================
