------------------------------ MODULE Artifacts ------------------------------
(***************************************************************************)
(* The artifacts of the data set and how their names are read: AIG members *)
(* of zip archives, .pt graphs on disk, and the CSV rows that point to     *)
(* both.  The state they form is shared by the name cleanup and by the     *)
(* graph preprocessing (src/src/data/inspect_data.py, cleanup_naming.py,   *)
(* preprocess_data.py, data_utils.py).                                     *)
(*                                                                         *)
(* A name is what its parts are: the design, the algorithms applied (none, *)
(* one or two: the tier), recipe and step as an id, and its form.  A form  *)
(* is "clean", the junk token that a temporary directory left in the name, *)
(* or "bare": a tier-0 name without its design.                            *)
(***************************************************************************)
EXTENDS Integers, Sequences, FiniteSets

CONSTANTS
  Designs,   \* design names
  Algos,     \* optimisation algorithms (KNOWN_ALGORITHMS)
  Ids,       \* recipe and step
  Tokens,    \* mktemp tokens
  Archives,  \* zip archives: [design, algos], tier0.zip has no algorithm
  Csvs,      \* CSV files
  NoHint,    \* no directory to take the design from
  None,      \* an empty CSV cell
  Torn,      \* content of a file whose writer was killed
  MaxRuns,   \* bound: audits, cleanups and jobs
  MaxHarm    \* bound: kills and failed system calls

ASSUME NamesAssumption ==
  /\ Tokens \cap {"clean", "bare"} = {}
  /\ NoHint \notin Tokens \cup {"clean", "bare"}
  /\ MaxRuns \in Nat /\ MaxHarm \in Nat

AlgoLists == {<<>>} \cup {<<a>> : a \in Algos} \cup {<<a, b>> : a, b \in Algos}

Name == {n \in [design : Designs, algos : AlgoLists, id : Ids,
                form : {"clean", "bare"} \cup Tokens] :
           n.form = "bare" => n.algos = <<>>}

\* A .pt file or a CSV entry: its name, and the design its directory names,
\* which for tier 0 may carry a token as well.
Path   == [dir : {"clean"} \cup Tokens, name : Name]
Member == [name : Name, content : Name]
Row    == [artifact : Name \cup {None}, input : Path \cup {None}]

VARIABLES
  zips,  \* zips[a]: the members of archive a in order, or Torn
  pts,   \* pts[p]: what graph the .pt file p holds, or Torn
  csvs,  \* csvs[f]: the rows of CSV file f
  runs,  \* audits, cleanups and jobs so far
  harm   \* kills and failed system calls so far

stores   == <<zips, pts, csvs>>
counters == <<runs, harm>>

StoresOK ==
  /\ zips \in [Archives -> Seq(Member) \cup {Torn}]
  /\ DOMAIN pts \subseteq Path
  /\ \A p \in DOMAIN pts : pts[p] \in Name \cup {Torn}
  /\ csvs \in [Csvs -> Seq(Row)]
  /\ runs \in 0..MaxRuns /\ harm \in 0..MaxHarm

----------------------------------------------------------------------------
(* Names *)

Tier(n)     == Len(n.algos)
Cleaned(n)  == [n EXCEPT !.form = "clean"]

\* parse_artifact_name: the canonical key of a name.  From tier 1 on the
\* token has a place of its own in the pattern and is dropped; in tier 0 the
\* design is what the directory says or, without a directory, everything in
\* front, token included.
KeyOf(n, hint) ==
  IF Tier(n) >= 1 THEN Cleaned(n)
  ELSE IF hint = NoHint THEN n ELSE [n EXCEPT !.form = hint]

Recognized(n, hint) == Tier(n) >= 1 \/ hint # NoHint \/ n.form # "bare"

\* naming_state: clean iff the name is already the one of its key.
IsClean(n, hint) == KeyOf(n, hint) = n

\* parse_aig_name accepts tier 0 and clean tier 1; in tier 0 a token becomes
\* part of the design.
AigAccepted(n) == \/ Tier(n) = 0 /\ n.form # "bare"
                  \/ Tier(n) = 1 /\ n.form = "clean"

\* artifact_output_base_path: the directory is the design as parsed.
OutputPath(n) == [dir |-> n.form, name |-> n]

\* The last member of a name is the one a zip file opens under it.
LastContent(ms, n) ==
  LET i == CHOOSE i \in DOMAIN ms : /\ ms[i].name = n
                                    /\ \A j \in DOMAIN ms : ms[j].name = n => j <= i
  IN  ms[i].content

MemberNames(ms) == {ms[i].name : i \in DOMAIN ms}
=============================================================================
