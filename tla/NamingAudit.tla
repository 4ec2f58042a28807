----------------------------- MODULE NamingAudit -----------------------------
(***************************************************************************)
(* What the audit (src/src/data/inspect_data.py) computes from the         *)
(* artifacts: which keys exist in archives, on disk and in the CSVs, how   *)
(* the three agree, what is missing, what renaming would do, and the       *)
(* candidates for it.  The audit only reads; all of this is a function of  *)
(* the stores at the time they are scanned.                                *)
(*                                                                         *)
(* A scan yields names with the hint their place gives.                    *)
(***************************************************************************)
EXTENDS Artifacts, TLC

Seen(n, h) == [name |-> n, hint |-> h]

\* scan_single_zip: members are read without a hint; a broken archive is
\* reported and passed over.
InZips ==
  UNION {{Seen(n, NoHint) : n \in MemberNames(zips[a])} :
           a \in {b \in Archives : zips[b] # Torn}}

\* The .pt scan takes names only, so a torn file counts.
OnDisk == {Seen(p.name, p.dir) : p \in DOMAIN pts}

\* The rows of all CSV files, by column.
AllRows == UNION {{csvs[f][i] : i \in DOMAIN csvs[f]} : f \in Csvs}
InArtifactColumn ==
  {Seen(r.artifact, "clean") : r \in {q \in AllRows : q.artifact # None}}
InInputColumn ==
  {Seen(r.input.name, r.input.dir) : r \in {q \in AllRows : q.input # None}}

\* The keys of a scan, and those whose name is already clean, by tier.
Keys(seen, t) ==
  {k \in {KeyOf(s.name, s.hint) : s \in {x \in seen : Recognized(x.name, x.hint)}} :
     Tier(k) = t}
CleanKeys(seen, t) ==
  Keys({s \in seen : IsClean(s.name, s.hint)}, t)

\* What one audit sees, with every name (virtually) cleaned, or clean ones only.
KeySets(Of(_, _)) ==
  [aig   |-> [t \in 0..2 |-> Of(InZips, t)],
   pt    |-> [t \in 0..2 |-> Of(OnDisk, t)],
   csv   |-> [t \in 0..2 |-> Of(InArtifactColumn, t)],
   input |-> [t \in 0..2 |-> Of(InInputColumn, t)]]

----------------------------------------------------------------------------
(* Metrics, all of them sizes of sets of keys *)

\* compute_artifact_metrics_for_tier
ArtifactMetrics(k, t) ==
  LET aig == k.aig[t]  pt == k.pt[t]  csv == k.csv[t]
  IN  [total           |-> <<Cardinality(aig), Cardinality(pt), Cardinality(csv)>>,
       csv_without_aig |-> Cardinality(csv \ aig)]
      @@ IF t < 2
         THEN [perfect        |-> Cardinality(aig \cap pt \cap csv),
               missing_pt     |-> Cardinality((aig \cap csv) \ pt),
               pt_without_aig |-> Cardinality(pt \ aig)]
         ELSE [aig_and_csv     |-> Cardinality(aig \cap csv),
               aig_without_csv |-> Cardinality(aig \ csv)]

\* The tier-1 graph a tier-2 result was made from, and training reads.
SourceOf(k) == [k EXCEPT !.algos = <<k.algos[1]>>]
InputsOf(tier2) == {SourceOf(x) : x \in tier2}

\* compute_linkage_metrics
LinkageMetrics(k) ==
  LET expected == InputsOf(k.csv[2])
  IN  [expected             |-> Cardinality(expected),
       missing_tier1_pt     |-> Cardinality(expected \ k.pt[1]),
       missing_in_csv_input |-> Cardinality(expected \ k.input[1])]

\* What the next tier should hold: every algorithm on every tier-0 graph,
\* every other algorithm on every tier-1 graph.
ExpectedTier1(t0) == {[k EXCEPT !.algos = <<a>>] : k \in t0, a \in Algos}
ExpectedTier2(t1) ==
  {[p[1] EXCEPT !.algos = Append(@, p[2])] :
     p \in {q \in t1 \X Algos : q[2] # q[1].algos[1]}}

Lack(expected, observed) == IF expected > observed THEN expected - observed ELSE 0

\* compute_generation_totals: differences of sizes, not sizes of differences.
GenerationTotals(k) ==
  [tier1_missing |-> Lack(Cardinality(k.aig[0]) * Cardinality(Algos),
                          Cardinality(k.aig[1])),
   tier2_missing |-> Lack(Cardinality(k.aig[1]) * Lack(Cardinality(Algos), 1),
                          Cardinality(k.aig[2]))]

\* export_generation_missing_key_sets: the rows written.
ExportedMissing(k) ==
  [tier1 |-> ExpectedTier1(k.aig[0]) \ k.aig[1],
   tier2 |-> ExpectedTier2(k.aig[1]) \ k.aig[2]]

\* A Counter of the keys by some part of them.
Tally(keys, Part(_)) ==
  [v \in {Part(x) : x \in keys} |-> Cardinality({x \in keys : Part(x) = v})]

\* print_generation_coverage_diagnostics: tier 1 by differences of sizes, the
\* breakdowns and tier 2 key by key.
GenerationCoverage(k) ==
  LET lacking == ExportedMissing(k)
  IN  [tier1_total |-> GenerationTotals(k).tier1_missing,
       tier1_algo  |-> [a \in Algos |-> Lack(Cardinality(k.aig[0]),
                                             Cardinality({x \in k.aig[1] : x.algos[1] = a}))],
       tier1_where |-> Tally(lacking.tier1, LAMBDA x : <<x.design, x.algos[1]>>),
       tier2_total |-> Cardinality(lacking.tier2),
       tier2_from  |-> Tally(lacking.tier2, LAMBDA x : x.algos[1]),
       tier2_where |-> Tally(lacking.tier2, LAMBDA x : <<x.design, x.algos[2]>>)]

\* The linkage section of the report, from the archives and from the CSVs.
Linkage(k) ==
  [s \in {"aig", "csv"} |->
     LET expected == InputsOf(k[s][2])
     IN  <<Cardinality(expected \cap k.input[1]), Cardinality(expected \ k.input[1]),
           Tally(expected \cap k.pt[1], LAMBDA x : x.algos),
           Tally(expected \ k.pt[1], LAMBDA x : x.algos)>>]

\* expected_pt_path_for_key
ExpectedPath(x) == [dir |-> x.form, name |-> x]
ToBuild(keys)   == {<<x, ExpectedPath(x)>> : x \in keys}

\* export_issue_sets: what is to be repaired.
IssueSets(k) ==
  [tier0_missing_pt      |-> ToBuild((k.aig[0] \cap k.csv[0]) \ k.pt[0]),
   tier1_missing_pt      |-> ToBuild((k.aig[1] \cap k.csv[1]) \ k.pt[1]),
   tier2_csv_without_aig |-> k.csv[2] \ k.aig[2],
   tier2_missing_input   |-> ToBuild(InputsOf(k.csv[2]) \ k.pt[1])]

\* The counters of a set of keys: by design, by algorithms, by both, and by
\* recipe and step.
Breakdown(keys) ==
  <<Tally(keys, LAMBDA x : x.design), Tally(keys, LAMBDA x : x.algos),
    Tally(keys, LAMBDA x : <<x.design, x.algos>>), Tally(keys, LAMBDA x : x.id)>>

\* print_tier0_missing_details, print_tier1_missing_details: what is missing,
\* and how much of what is expected each design or algorithm has.
MissingDetails(k, t) ==
  LET expected == k.aig[t] \cap k.csv[t]
      Part(x)  == IF t = 0 THEN <<x.design>> ELSE x.algos
  IN  [missing  |-> Breakdown(expected \ k.pt[t]),
       expected |-> Tally(expected, Part),
       found    |-> Tally(k.pt[t], Part)]

\* print_tier2_csv_without_aig_details, print_tier2_linkage_missing_details
Tier2Details(k) ==
  <<Breakdown(k.csv[2] \ k.aig[2]), Breakdown(InputsOf(k.csv[2]) \ k.pt[1])>>

\* The summaries of the issue sets: tier 0 by design, all others by design
\* and last algorithm.
IssueSummaries(k) ==
  LET Last(x) == <<x.design, x.algos[Tier(x)]>>
  IN  <<Tally((k.aig[0] \cap k.csv[0]) \ k.pt[0], LAMBDA x : x.design),
        Tally((k.aig[1] \cap k.csv[1]) \ k.pt[1], Last),
        Tally(k.csv[2] \ k.aig[2], Last),
        Tally(InputsOf(k.csv[2]) \ k.pt[1], Last)>>

\* The summaries of generation: expected, observed and missing by algorithm.
GenerationSummaries(k) ==
  LET With(keys, a) == {x \in keys : x.algos[Tier(x)] = a}
      Row3(expected, keys) == <<expected, Cardinality(keys), Lack(expected, Cardinality(keys))>>
  IN  [a \in Algos |->
         <<Row3(Cardinality(k.aig[0]), With(k.aig[1], a)),
           Row3(Cardinality(With(ExpectedTier2(k.aig[1]), a)),
                With(ExpectedTier2(k.aig[1]) \cap k.aig[2], a))>>]

\* print_artifact_tier_summary prints what the preview compares.
TierSummaries(k) == [t \in 0..2 |-> ArtifactMetrics(k, t)]

\* build_cleanup_preview_rows, one side of the comparison.
Preview(k) ==
  [artifact   |-> TierSummaries(k),
   linkage    |-> LinkageMetrics(k),
   generation |-> GenerationTotals(k)]

\* All that an audit writes about the keys.
Report(k) ==
  [preview   |-> Preview(k), linkage |-> Linkage(k),
   coverage  |-> GenerationCoverage(k), missing |-> ExportedMissing(k),
   issues    |-> IssueSets(k),
   details   |-> <<MissingDetails(k, 0), MissingDetails(k, 1), Tier2Details(k)>>,
   summaries |-> <<IssueSummaries(k), GenerationSummaries(k)>>]

----------------------------------------------------------------------------
(* Candidates: whatever is not named as its key says *)

PtCandidates ==
  {[src |-> p, dst |-> [p EXCEPT !.name = KeyOf(p.name, p.dir)]] :
     p \in {q \in DOMAIN pts : /\ Recognized(q.name, q.dir)
                               /\ ~IsClean(q.name, q.dir)}}

\* For each file the paths to replace, whichever column they come from.
CsvCandidates ==
  [f \in Csvs |->
     LET rows == {csvs[f][i] : i \in DOMAIN csvs[f]}
     IN  [artifact |-> {r.artifact : r \in {q \in rows :
                          q.artifact # None /\ ~IsClean(q.artifact, "clean")}},
          input    |-> {r.input : r \in {q \in rows :
                          q.input # None /\ ~IsClean(q.input.name, q.input.dir)}}]]

\* export_zip_naming_candidates reads the archives a second time.
ZipCandidates ==
  [a \in Archives |->
     IF zips[a] = Torn THEN {}
     ELSE {n \in MemberNames(zips[a]) : Recognized(n, NoHint) /\ ~IsClean(n, NoHint)}]
=============================================================================
