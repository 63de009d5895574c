----------------------------- MODULE MCSessions -----------------------------
(***************************************************************************)
(* Sessions for TLC: the sessions of one user, and symmetry in the         *)
(* launches and the sessions, which no definition tells apart. TLC's check *)
(* of liveness takes no symmetry set, so that run is told by a constraint  *)
(* that its one run message may as well come on a session chosen for it.   *)
(***************************************************************************)
EXTENDS Sessions, TLC

CONSTANT Owner  (* the one user *)

OneUser == [s \in Sessions |-> Owner]

Interchangeable == Permutations(Runs) \union Permutations(Sessions)

First == CHOOSE s \in Sessions : TRUE
RunsInFirst == \A j \in Runs : sess[j] \in {None, First}

=============================================================================
