-------------------------- MODULE MCDatasetStartup --------------------------
(* Three graphs of different sizes; the table grows in the middle, or is    *)
(* fixed while raw graphs appear.                                           *)
EXTENDS DatasetStartup

CONSTANTS small, middle, large

MCGraph   == {small, middle, large}
MCSize    == (small :> 1) @@ (middle :> 2) @@ (large :> 3)
Fixed     == {<<small, middle, large>>}
Growing   == {<<small, large>>, <<small, middle, large>>}
=============================================================================
