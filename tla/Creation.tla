------------------------------ MODULE Creation ------------------------------
(***************************************************************************)
(* What the handlers rely on when they ask for a container, and what       *)
(* Sessions takes for one step: the request ends with a live container or  *)
(* with an error, and an error leaves nothing alive but what Docker kept   *)
(* although it was told to remove it, or created without saying so. In     *)
(* return they let go of what they got before they end.                    *)
(*                                                                         *)
(* Containers.tla implements this module call by call; Sessions.tla, which *)
(* takes a creation for one step, is shown to keep to it as well.          *)
(***************************************************************************)
CONSTANTS
  Launches,  (* requests for a container                                   *)
  Requests   (* those of the REST endpoint, which end with an answer       *)

VARIABLES
  phase,  (* [Launches] asked, live, or over                               *)
  ctr     (* [Launches] none, live, gone or stray                          *)

vars == <<phase, ctr>>

Init ==
  /\ phase = [j \in Launches |-> "asked"]
  /\ ctr = [j \in Launches |-> "none"]

Succeed(j) ==
  /\ phase[j] = "asked"
  /\ phase' = [phase EXCEPT ![j] = "live"]
  /\ ctr' = [ctr EXCEPT ![j] = "live"]

Fail(j) ==
  /\ phase[j] = "asked"
  /\ phase' = [phase EXCEPT ![j] = "over"]
  /\ \E left \in {"none", "gone", "stray"} : ctr' = [ctr EXCEPT ![j] = left]

(* The answer to a REST request: its container is removed, or refused to.  *)
Answer(j) ==
  /\ j \in Requests
  /\ phase[j] = "live"
  /\ phase' = [phase EXCEPT ![j] = "over"]
  /\ \E left \in {"gone", "stray"} : ctr' = [ctr EXCEPT ![j] = left]

(* The goroutines of a run or a shell have nothing more to do: none of     *)
(* them leaves its container alive, but what Docker refused to remove.     *)
Finish(j) ==
  /\ j \notin Requests
  /\ phase[j] = "live"
  /\ phase' = [phase EXCEPT ![j] = "over"]
  /\ \E left \in {"gone", "stray"} :
       /\ ctr[j] = "gone" => left = "gone"
       /\ ctr' = [ctr EXCEPT ![j] = left]

(* A live container is let go of by whoever got it.                        *)
LetGo(j) ==
  /\ phase[j] = "live"
  /\ ctr[j] = "live"
  /\ \E left \in {"gone", "stray"} : ctr' = [ctr EXCEPT ![j] = left]
  /\ UNCHANGED phase

(* The process ends: what it was about to get, or had, is nobody's.        *)
Crash ==
  /\ phase' \in [Launches -> {"asked", "over"}]
  /\ \A j \in Launches :
       \/ phase'[j] = "asked" /\ phase[j] = "asked" /\ ctr'[j] = ctr[j]
       \/ phase'[j] = "over" /\ phase[j] = "over" /\ ctr'[j] = ctr[j]
       \/ phase'[j] = "over" /\ phase[j] = "asked" /\ ctr'[j] \in {"none", "stray"}
       \/ phase'[j] = "over" /\ phase[j] = "live"
            /\ ctr'[j] = IF ctr[j] = "live" THEN "stray" ELSE ctr[j]

(* A sweep for old containers takes strays, and live ones as well.         *)
Sweep ==
  /\ ctr' \in [Launches -> {"none", "live", "gone", "stray"}]
  /\ \A j \in Launches :
       ctr'[j] # ctr[j] => ctr[j] \in {"live", "stray"} /\ ctr'[j] = "gone"
  /\ UNCHANGED phase

Next ==
  \/ \E j \in Launches :
       Succeed(j) \/ Fail(j) \/ Answer(j) \/ Finish(j) \/ LetGo(j)
  \/ Crash \/ Sweep

Spec == Init /\ [][Next]_vars

=============================================================================
