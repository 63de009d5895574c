------------------------------- MODULE Quota --------------------------------
(***************************************************************************)
(* What ratelimit.Limiter promises, with no clock, no dates and no table   *)
(* of keys that is swept: each key has a number of grants used today and   *)
(* a number used in its current window. Grants stop at the limits, the     *)
(* former number starts over with the day, the latter with a new window.   *)
(* RateLimiter.tla implements this module.                                 *)
(***************************************************************************)
EXTENDS Naturals

CONSTANTS
  Keys,   (* users, or addresses                     *)
  Rps,    (* grants per window, 0: no limit          *)
  Daily   (* grants per day, 0: no limit             *)

VARIABLES
  usedToday,    (* [Keys] grants of this day         *)
  usedInWindow  (* [Keys] grants of the open window  *)

vars == <<usedToday, usedInWindow>>

Init ==
  /\ usedToday = [k \in Keys |-> 0]
  /\ usedInWindow = [k \in Keys |-> 0]

(* Another grant to a key that has reached neither limit.                  *)
Grant(k) ==
  /\ Daily > 0 => usedToday[k] < Daily
  /\ Rps > 0 => usedInWindow[k] < Rps
  /\ usedToday' = [usedToday EXCEPT ![k] = @ + 1]
  /\ usedInWindow' = [usedInWindow EXCEPT ![k] = @ + 1]

(* The windows of some keys come to their end.                             *)
WindowsEnd(ended) ==
  /\ usedInWindow' =
       [k \in Keys |-> IF k \in ended THEN 0 ELSE usedInWindow[k]]
  /\ UNCHANGED usedToday

(* Only the end of the day gives its grants back.                          *)
DayEnds ==
  /\ usedToday' = [k \in Keys |-> 0]
  /\ UNCHANGED usedInWindow

Next ==
  \/ \E k \in Keys : Grant(k)
  \/ \E ended \in SUBSET Keys : WindowsEnd(ended)
  \/ DayEnds

Spec == Init /\ [][Next]_vars

=============================================================================
