----------------------------- MODULE MCHPTuning -----------------------------
(* A stage-1 job and a stage-2 job that it seeds.                           *)
EXTENDS HPTuning

CONSTANTS s1, s2, a, b

MCTrials == [j \in Job |-> IF j = Seeder THEN 2 ELSE 1]
=============================================================================
