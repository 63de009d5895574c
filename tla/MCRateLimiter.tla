--------------------------- MODULE MCRateLimiter ----------------------------
(***************************************************************************)
(* RateLimiter for TLC: all requests but one are of one key, the other is  *)
(* of a second key that must not feel the first.                           *)
(***************************************************************************)
EXTENDS RateLimiter, TLC

CONSTANTS
  Busy, Quiet,  (* the two keys                *)
  Single        (* the one request of Quiet    *)

OneOfQuiet == [r \in Requests |-> IF r = Single THEN Quiet ELSE Busy]

Interchangeable == Permutations(Requests \ {Single})

=============================================================================
