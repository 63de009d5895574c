----------------------------- MODULE MCConsole ------------------------------
(***************************************************************************)
(* Console for TLC: the sets of launches its clients ask for.              *)
(***************************************************************************)
EXTENDS Console

CONSTANTS run1, run2, shell1

Chunks == [j \in Launches |-> IF j = run1 THEN 2 ELSE 1]

TwoRuns == {{run1, run2}}

Mixed == {{run1, run2}, {run1, shell1}}

=============================================================================
