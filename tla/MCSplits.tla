------------------------------ MODULE MCSplits ------------------------------
(* Two designs with two and one graphs; the second CSV adds a third design  *)
(* and, as several algorithms' CSVs do, lists a path twice.                 *)
EXTENDS Splits, TLC

CONSTANTS a1, a2, b1, c1

MCPath   == {a1, a2, b1, c1}
MCDesign == (a1 :> "a") @@ (a2 :> "a") @@ (b1 :> "b") @@ (c1 :> "c")
MCCsv    == <<<<a1, b1, a2>>, <<a1, b1, a2, a1, c1>>>>

MCShuffle == [s \in {42}, n \in 0..5 |-> [i \in 1..n |-> (i % n) + 1]]
MCDraw    == [s \in {42}, n \in 0..5, k \in 0..5 |-> {i \in 1..n : i > n - k}]

MCStages == <<1, 2>>

Fit(n)   == <<[split |-> "train", num |-> n], [split |-> "val", num |-> n]>>
All(n)   == Fit(n) \o <<[split |-> "test", num |-> n]>>
Of(t, v, e, x, reqs) ==
  [seed |-> 42, ratios |-> [train |-> t, val |-> v, test |-> e],
   exclude |-> x, requests |-> reqs]

\* A tuning worker, a final training with test, and another ratio's.
MCSetups   == {Of(4, 1, 0, FALSE, Fit(2)), Of(1, 1, 1, TRUE, All(None)),
               Of(3, 1, 2, FALSE, All(None))}
StageSetups == {Of(4, 1, 0, FALSE, Fit(n)) : n \in {1, 2}}
=============================================================================
