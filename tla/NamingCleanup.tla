---------------------------- MODULE NamingCleanup ----------------------------
(***************************************************************************)
(* The audit and the cleanup of names: inspect_data.py scans CSVs,         *)
(* archives and .pt files, in this order, and writes candidate files;      *)
(* cleanup_naming.py takes the candidates of some audit and renames .pt    *)
(* files, rewrites CSVs and rewrites archives, in this order, each phase   *)
(* followed by its verification (src/src/data/inspect_data.py,             *)
(* cleanup_naming.py, src/src/shell/cleanup_naming.sh).                    *)
(*                                                                         *)
(* One person runs them, so there is one curator; what is concurrent are   *)
(* the threads and processes inside a phase.                               *)
(***************************************************************************)
EXTENDS NamingAudit

CONSTANTS
  Threads,      \* --workers
  CrossFs,      \* --zip-tmp-dir: a directory on another file system
  Absent        \* a candidate file, or a temporary archive, that is not there

ASSUME CleanupAssumption ==
  /\ Threads \in Nat \ {0} /\ CrossFs \in BOOLEAN
  /\ Absent # Torn

VARIABLES
  curator,   \* what the curator does
  issues,    \* the issues directory: candidates, and the keys of the preview
  pair,      \* pair[p]: how far the rename p is
  file,      \* file[x]: how far the rewrite of the CSV or archive x is
  tmp,       \* tmp[s]: the temporary archive s.zip.rewriting
  failed     \* verify_failed

curatorVars == <<curator, issues, pair, file, tmp, failed>>

Resting  == {"idle", "audited", "passed", "failed"}
Scanning == {"scan csv", "scan zip", "scan pt"}
Cleaning == {"pt", "csv", "zip"}

\* Mutant: one temporary name for all archives.
StemOfAll(a) == IF CrossFs THEN [design |-> NoHint, algos |-> <<>>] ELSE a

\* In a temporary directory the temporary file is named by the stem of its
\* archive, which every tier0.zip has; otherwise it lies beside the archive.
Stem(a) == IF CrossFs /\ a.algos = <<>> THEN [a EXCEPT !.design = NoHint] ELSE a
Stems   == {Stem(a) : a \in Archives}

NoKeys   == [aig |-> <<>>, pt |-> <<>>, csv |-> <<>>, input |-> <<>>]
NoIssues == [csv |-> Absent, zip |-> Absent, pt |-> Absent, keys |-> NoKeys]

CuratorInit ==
  /\ curator = "idle" /\ issues = NoIssues
  /\ pair = <<>> /\ file = <<>>
  /\ tmp = [s \in Stems |-> Absent]
  /\ failed = FALSE

CuratorTypeOK ==
  /\ curator \in Resting \cup Scanning \cup Cleaning
  /\ \A p \in DOMAIN pair :
       pair[p] \in {"todo", "renaming", "renamed", "already_renamed", "errors",
                    "skipped_dst_exists", "skipped_missing_src"}
  /\ \A x \in DOMAIN file :
       file[x] \in {"todo", "written", "checked", "moving", "done", "error"}
  /\ tmp \in [Stems -> Seq(Member) \cup {Absent}]
  /\ failed \in BOOLEAN

----------------------------------------------------------------------------
(* The audit; each run has an issues directory of its own *)

ByTier(seen, Of(_, _)) == [t \in 0..2 |-> Of(seen, t)]

StartAudit ==
  /\ curator \in Resting /\ runs < MaxRuns
  /\ curator' = "scan csv" /\ issues' = NoIssues /\ runs' = runs + 1
  /\ UNCHANGED <<stores, pair, file, tmp, failed, harm>>

ScanCsvs ==
  /\ curator = "scan csv" /\ curator' = "scan zip"
  /\ issues' = [issues EXCEPT !.csv = CsvCandidates,
                              !.keys.csv = ByTier(InArtifactColumn, Keys),
                              !.keys.input = ByTier(InInputColumn, Keys)]
  /\ UNCHANGED <<stores, pair, file, tmp, failed, counters>>

ScanZips ==
  /\ curator = "scan zip" /\ curator' = "scan pt"
  /\ issues' = [issues EXCEPT !.zip = ZipCandidates,
                              !.keys.aig = ByTier(InZips, Keys)]
  /\ UNCHANGED <<stores, pair, file, tmp, failed, counters>>

ScanPts ==
  /\ curator = "scan pt" /\ curator' = "audited"
  /\ issues' = [issues EXCEPT !.pt = PtCandidates,
                              !.keys.pt = ByTier(OnDisk, Keys)]
  /\ UNCHANGED <<stores, pair, file, tmp, failed, counters>>

----------------------------------------------------------------------------
(* The cleanup *)

\* Any issues directory will do, that of an audit killed half-way too.
StartCleanup ==
  /\ curator \in Resting /\ runs < MaxRuns
  /\ issues.csv # Absent
  /\ curator' = "pt" /\ failed' = FALSE /\ runs' = runs + 1
  /\ pair' = [p \in (IF issues.pt = Absent THEN {} ELSE issues.pt) |-> "todo"]
  /\ file' = [x \in Csvs \cup Archives |-> "todo"]
  /\ UNCHANGED <<stores, issues, tmp, harm>>

\* A phase without a candidate file is skipped with a warning.
SkipPhase ==
  /\ \/ curator = "pt" /\ issues.pt = Absent /\ curator' = "csv"
     \/ curator = "csv" /\ issues.csv = Absent /\ curator' = "zip"
     \/ /\ curator = "zip" /\ issues.zip = Absent
        /\ curator' = IF failed THEN "failed" ELSE "passed"
  /\ UNCHANGED <<stores, issues, pair, file, tmp, failed, counters>>

\* Mutant: the look at the target is left out.
LookAtSourceOnly(p) ==
  IF p.src \in DOMAIN pts THEN "renaming"
  ELSE IF p.dst \in DOMAIN pts THEN "already_renamed" ELSE "skipped_missing_src"

\* _do_pt_rename up to the rename: two looks, and what they amount to.
LookAt(p) ==
  LET src == p.src \in DOMAIN pts
      dst == p.dst \in DOMAIN pts
  IN  IF ~src THEN IF dst THEN "already_renamed" ELSE "skipped_missing_src"
      ELSE IF dst THEN "skipped_dst_exists" ELSE "renaming"

CheckPair(p) ==
  /\ curator = "pt" /\ pair[p] = "todo"
  /\ Cardinality({q \in DOMAIN pair : pair[q] = "renaming"}) < Threads
  /\ pair' = [pair EXCEPT ![p] = LookAt(p)]
  /\ UNCHANGED <<stores, curator, issues, file, tmp, failed, counters>>

\* rename(2) replaces what is there.
Moved(p) ==
  [q \in (DOMAIN pts \ {p.src}) \cup {p.dst} |-> IF q = p.dst THEN pts[p.src] ELSE pts[q]]

RenamePair(p) ==
  /\ curator = "pt" /\ pair[p] = "renaming"
  /\ \/ /\ pts' = Moved(p) /\ pair' = [pair EXCEPT ![p] = "renamed"]
        /\ UNCHANGED harm
     \/ /\ harm < MaxHarm /\ harm' = harm + 1
        /\ pair' = [pair EXCEPT ![p] = "errors"] /\ UNCHANGED pts
  /\ UNCHANGED <<zips, csvs, curator, issues, file, tmp, failed, runs>>

VerifyPts ==
  /\ curator = "pt" /\ issues.pt # Absent
  /\ \A p \in DOMAIN pair : pair[p] \notin {"todo", "renaming"}
  /\ failed' = \E p \in issues.pt : p.src \in DOMAIN pts \/ p.dst \notin DOMAIN pts
  /\ curator' = "csv"
  /\ UNCHANGED <<stores, issues, pair, file, tmp, counters>>

\* One row with the replacements of its file.
RowRewritten(r, map) ==
  [artifact |-> IF r.artifact \in map.artifact THEN KeyOf(r.artifact, "clean")
                ELSE r.artifact,
   input    |-> IF r.input \in map.input
                THEN [r.input EXCEPT !.name = KeyOf(r.input.name, r.input.dir)]
                ELSE r.input]

\* rewrite_csv_file replaces the file only when all of it is written.
RewriteCsv(f) ==
  /\ curator = "csv" /\ issues.csv # Absent /\ file[f] = "todo"
  /\ \/ /\ csvs' = [csvs EXCEPT ![f] =
                      [i \in DOMAIN @ |-> RowRewritten(@[i], issues.csv[f])]]
        /\ file' = [file EXCEPT ![f] = "done"] /\ UNCHANGED harm
     \/ /\ harm < MaxHarm /\ harm' = harm + 1
        /\ file' = [file EXCEPT ![f] = "error"] /\ UNCHANGED csvs
  /\ UNCHANGED <<zips, pts, curator, issues, pair, tmp, failed, runs>>

StillMessy(f) ==
  \E i \in DOMAIN csvs[f] : \/ csvs[f][i].artifact \in issues.csv[f].artifact
                            \/ csvs[f][i].input \in issues.csv[f].input

VerifyCsvs ==
  /\ curator = "csv" /\ issues.csv # Absent
  /\ \A f \in Csvs : file[f] # "todo"
  /\ failed' = (failed \/ \E f \in Csvs : StillMessy(f))
  /\ curator' = "zip"
  /\ UNCHANGED <<stores, issues, pair, file, tmp, counters>>

\* The archives that have a candidate.
Messy == {a \in Archives : issues.zip[a] # {}}
AtWork(a) == curator = "zip" /\ issues.zip # Absent /\ a \in Messy

\* The first half of _rewrite_single_zip: the renamed copy.
WriteTmp(a) ==
  /\ AtWork(a) /\ file[a] = "todo"
  /\ Cardinality({b \in Archives : file[b] \in {"written", "checked", "moving"}}) < Threads
  /\ IF zips[a] = Torn
     THEN file' = [file EXCEPT ![a] = "error"] /\ UNCHANGED tmp
     ELSE /\ tmp' = [tmp EXCEPT ![Stem(a)] =
                       [i \in DOMAIN zips[a] |->
                          IF zips[a][i].name \in issues.zip[a]
                          THEN [zips[a][i] EXCEPT !.name = KeyOf(@, NoHint)]
                          ELSE zips[a][i]]]
          /\ file' = [file EXCEPT ![a] = "written"]
  /\ UNCHANGED <<stores, curator, issues, pair, failed, counters>>

\* Its parity check: as many members as before.
CheckParity(a) ==
  /\ AtWork(a) /\ file[a] = "written"
  /\ IF tmp[Stem(a)] # Absent /\ zips[a] # Torn /\ Len(tmp[Stem(a)]) = Len(zips[a])
     THEN file' = [file EXCEPT ![a] = "checked"] /\ UNCHANGED tmp
     ELSE /\ file' = [file EXCEPT ![a] = "error"]
          /\ tmp' = [tmp EXCEPT ![Stem(a)] = Absent]
  /\ UNCHANGED <<stores, curator, issues, pair, failed, counters>>

\* shutil.move: a rename, or a copy in place that is complete at the end.  If
\* the temporary file is gone the exception ends the cleanup.
BeginMove(a) ==
  /\ AtWork(a) /\ file[a] = "checked"
  /\ IF tmp[Stem(a)] = Absent
     THEN curator' = "failed" /\ UNCHANGED <<zips, file>>
     ELSE /\ file' = [file EXCEPT ![a] = "moving"]
          /\ zips' = IF CrossFs THEN [zips EXCEPT ![a] = Torn] ELSE zips
          /\ UNCHANGED curator
  /\ UNCHANGED <<pts, csvs, issues, pair, tmp, failed, counters>>

EndMove(a) ==
  /\ AtWork(a) /\ file[a] = "moving" /\ tmp[Stem(a)] # Absent
  /\ zips' = [zips EXCEPT ![a] = tmp[Stem(a)]]
  /\ tmp' = [tmp EXCEPT ![Stem(a)] = Absent]
  /\ file' = [file EXCEPT ![a] = "done"]
  /\ UNCHANGED <<pts, csvs, curator, issues, pair, failed, counters>>

\* verify_zip_rewrites: an archive that cannot be read is an error, which is
\* printed, but only messy names make the verification fail.
VerifyZips ==
  /\ curator = "zip" /\ issues.zip # Absent
  /\ \A a \in Messy : file[a] \in {"done", "error"}
  /\ failed' = (failed \/ \E a \in Messy : /\ zips[a] # Torn
                                           /\ MemberNames(zips[a]) \cap issues.zip[a] # {})
  /\ curator' = IF failed' THEN "failed" ELSE "passed"
  /\ UNCHANGED <<stores, issues, pair, file, tmp, counters>>

\* The time limit or the node; node-local temporary files go with the job.
KillCurator ==
  /\ curator \in Scanning \cup Cleaning /\ harm < MaxHarm
  /\ curator' = "idle" /\ harm' = harm + 1
  /\ pair' = <<>> /\ file' = <<>> /\ tmp' = [s \in Stems |-> Absent]
  /\ UNCHANGED <<stores, issues, failed, runs>>

CuratorWork ==
  \/ ScanCsvs \/ ScanZips \/ ScanPts
  \/ SkipPhase \/ VerifyPts \/ VerifyCsvs \/ VerifyZips
  \/ \E p \in DOMAIN pair : CheckPair(p) \/ RenamePair(p)
  \/ \E f \in Csvs : RewriteCsv(f)
  \/ \E a \in Archives : WriteTmp(a) \/ CheckParity(a) \/ BeginMove(a) \/ EndMove(a)

CuratorNext == StartAudit \/ StartCleanup \/ CuratorWork \/ KillCurator
=============================================================================
