------------------------------ MODULE SlotPool ------------------------------
(***************************************************************************)
(* What executor.Semaphore promises to its callers, with no mutex, no      *)
(* condition variable and no counters: a set of goroutines holding a slot, *)
(* never more than Max of them, and a set of goroutines queued for one.    *)
(* Semaphore.tla implements this module.                                   *)
(***************************************************************************)
EXTENDS Naturals, FiniteSets

CONSTANTS
  Threads,  (* goroutines that may ask for a slot         *)
  Max       (* number of slots                            *)

VARIABLES
  holders,  (* the goroutines that own a slot             *)
  queued    (* the goroutines blocked waiting for a slot  *)

vars == <<holders, queued>>

Full == Cardinality(holders) >= Max

Init == holders = {} /\ queued = {}

(* A goroutine gets a slot, from the queue or straight away. A free slot   *)
(* may be taken ahead of a queued goroutine: the pool promises no order.   *)
Take(t) ==
  /\ t \notin holders
  /\ ~Full
  /\ holders' = holders \union {t}
  /\ queued' = queued \ {t}

(* Only a full pool makes a goroutine wait.                                *)
Queue(t) ==
  /\ t \notin holders \union queued
  /\ Full
  /\ queued' = queued \union {t}
  /\ UNCHANGED holders

(* Only a full pool turns a waiting goroutine away.                        *)
GiveUp(t) ==
  /\ t \in queued
  /\ Full
  /\ queued' = queued \ {t}
  /\ UNCHANGED holders

Return(t) ==
  /\ t \in holders
  /\ holders' = holders \ {t}
  /\ UNCHANGED queued

Next == \E t \in Threads : Take(t) \/ Queue(t) \/ GiveUp(t) \/ Return(t)

Spec == Init /\ [][Next]_vars

=============================================================================
