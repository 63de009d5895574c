------------------------------- MODULE MCLab --------------------------------
(***************************************************************************)
(* Lab with two labs, two runs and one crash: a lab can replace another    *)
(* whose expiry is under way, a run can replace another on the same        *)
(* network, and the session after the restart still has a lab or a run to  *)
(* start. Of what Docker is asked to remove it refuses one thing at a      *)
(* time.                                                                   *)
(***************************************************************************)
EXTENDS Lab

=============================================================================
