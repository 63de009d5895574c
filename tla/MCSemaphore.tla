---------------------------- MODULE MCSemaphore -----------------------------
(***************************************************************************)
(* Semaphore with four goroutines and two slots: enough for two slots to   *)
(* be free at once with sleepers in the queue and a newcomer barging in.   *)
(***************************************************************************)
EXTENDS Semaphore

=============================================================================
