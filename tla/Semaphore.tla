----------------------------- MODULE Semaphore ------------------------------
(***************************************************************************)
(* executor/semaphore.go: the concurrency limiter every container start    *)
(* goes through. A mutex protects two counters; goroutines that find no    *)
(* free slot sleep on a condition variable. Release signals one sleeper.   *)
(* sync.Cond knows nothing of contexts, so each bounded wait runs a ticker *)
(* goroutine that broadcasts twice a second, for the sleeper to see that   *)
(* its context ended.                                                      *)
(*                                                                         *)
(* Everything done between taking the mutex and giving it up (at the end   *)
(* of the call, or inside Cond.Wait) is one step. A goroutine that was     *)
(* woken has to win the mutex again before it looks at the counter, and    *)
(* others may get in first: hence "woken" beside "parked".                 *)
(***************************************************************************)
EXTENDS Naturals, FiniteSets

CONSTANTS
  Threads,  (* goroutines that ask for slots                              *)
  Max       (* the limit NewSemaphore was given (MAX_CONCURRENT)          *)

ASSUME SemaphoreAssumption == IsFiniteSet(Threads) /\ Max \in Nat

VARIABLES
  current,   (* slots in use                                              *)
  queueLen,  (* waiting calls, as /health and /stats report them          *)
  state,     (* where each goroutine is in its call                       *)
  ctx,       (* the context of a call that waits: "none" for Acquire,     *)
             (* "open" or "ended" (ctx.Err() # nil) for AcquireContext    *)
  tickers    (* the calls whose ticker goroutine is still running         *)

vars == <<current, queueLen, state, ctx, tickers>>

In(where) == {t \in Threads : state[t] = where}
Parked    == In("parked")
Woken     == In("woken")
Holding   == In("holding")
Waiting   == Parked \union Woken

TypeOK ==
  /\ current \in Nat
  /\ queueLen \in Nat
  /\ state \in [Threads -> {"idle", "parked", "woken", "holding"}]
  /\ ctx \in [Threads -> {"none", "open", "ended"}]
  /\ tickers \in SUBSET Threads

Init ==
  /\ current = 0
  /\ queueLen = 0
  /\ state = [t \in Threads |-> "idle"]
  /\ ctx = [t \in Threads |-> "none"]
  /\ tickers = {}

Free == current < Max

-----------------------------------------------------------------------------
(* A goroutine may call when it is in no other call and owns no slot.      *)
CanCall(t) == state[t] = "idle"

(* Both calls return with a slot at once when there is one.                *)
TakeFree(t) ==
  /\ CanCall(t)
  /\ Free
  /\ current' = current + 1
  /\ state' = [state EXCEPT ![t] = "holding"]
  /\ UNCHANGED <<queueLen, ctx, tickers>>

(* Acquire: join the queue and sleep, for as long as it takes.             *)
AcquirePark(t) ==
  /\ CanCall(t)
  /\ ~Free
  /\ queueLen' = queueLen + 1
  /\ state' = [state EXCEPT ![t] = "parked"]
  /\ UNCHANGED <<current, ctx, tickers>>

(* AcquireContext: start the ticker, join the queue and sleep.             *)
AcquireContextPark(t) ==
  /\ CanCall(t)
  /\ ~Free
  /\ queueLen' = queueLen + 1
  /\ state' = [state EXCEPT ![t] = "parked"]
  /\ ctx' = [ctx EXCEPT ![t] = "open"]
  /\ tickers' = tickers \union {t}
  /\ UNCHANGED current

(* A context that has already ended (a REST client gone) is refused before *)
(* it sleeps; its ticker was started all the same.                         *)
AcquireContextRefused(t) ==
  /\ CanCall(t)
  /\ ~Free
  /\ tickers' = tickers \union {t}
  /\ UNCHANGED <<current, queueLen, state, ctx>>

(* The deadline passes, or the caller cancels, while the call waits. No    *)
(* lock is needed for that and nothing wakes up by it.                     *)
ContextEnds(t) ==
  /\ t \in Waiting
  /\ ctx[t] = "open"
  /\ ctx' = [ctx EXCEPT ![t] = "ended"]
  /\ UNCHANGED <<current, queueLen, state, tickers>>

(* Mutant: "if" for "for", the counter is not tested after the wake-up.    *)
RecheckTakesUnchecked(t) ==
  /\ t \in Woken
  /\ current' = current + 1
  /\ queueLen' = queueLen - 1
  /\ state' = [state EXCEPT ![t] = "holding"]
  /\ ctx' = [ctx EXCEPT ![t] = "none"]
  /\ UNCHANGED tickers

(* A woken goroutine got the mutex: the loop condition is tested first,    *)
(* the context only if there is still no slot.                             *)
RecheckTakes(t) ==
  /\ t \in Woken
  /\ Free
  /\ current' = current + 1
  /\ queueLen' = queueLen - 1
  /\ state' = [state EXCEPT ![t] = "holding"]
  /\ ctx' = [ctx EXCEPT ![t] = "none"]
  /\ UNCHANGED tickers

(* Mutant: no deferred queueLen-- on the way out.                          *)
RecheckGivesUpQueued(t) ==
  /\ t \in Woken
  /\ ~Free
  /\ ctx[t] = "ended"
  /\ state' = [state EXCEPT ![t] = "idle"]
  /\ ctx' = [ctx EXCEPT ![t] = "none"]
  /\ UNCHANGED <<current, queueLen, tickers>>

(* Mutant: the context is tested before the counter.                       *)
RecheckGivesUpEarly(t) ==
  /\ t \in Woken
  /\ ctx[t] = "ended"
  /\ queueLen' = queueLen - 1
  /\ state' = [state EXCEPT ![t] = "idle"]
  /\ ctx' = [ctx EXCEPT ![t] = "none"]
  /\ UNCHANGED <<current, tickers>>

RecheckGivesUp(t) ==
  /\ t \in Woken
  /\ ~Free
  /\ ctx[t] = "ended"
  /\ queueLen' = queueLen - 1
  /\ state' = [state EXCEPT ![t] = "idle"]
  /\ ctx' = [ctx EXCEPT ![t] = "none"]
  /\ UNCHANGED <<current, tickers>>

RecheckParks(t) ==
  /\ t \in Woken
  /\ ~Free
  /\ ctx[t] # "ended"
  /\ state' = [state EXCEPT ![t] = "parked"]
  /\ UNCHANGED <<current, queueLen, ctx, tickers>>

Recheck(t) == RecheckTakes(t) \/ RecheckGivesUp(t) \/ RecheckParks(t)

(* Mutant: no Signal.                                                      *)
ReleaseSilently(t) ==
  /\ t \in Holding
  /\ current' = current - 1
  /\ state' = [state EXCEPT ![t] = "idle"]
  /\ UNCHANGED <<queueLen, ctx, tickers>>

(* Mutant: Release takes the sleeper it wakes off the queue length too.    *)
ReleaseDequeues(t) ==
  /\ t \in Holding
  /\ current' = current - 1
  /\ \/ /\ Parked = {}
        /\ state' = [state EXCEPT ![t] = "idle"]
        /\ UNCHANGED queueLen
     \/ \E w \in Parked :
           /\ state' = [state EXCEPT ![t] = "idle", ![w] = "woken"]
           /\ queueLen' = queueLen - 1
  /\ UNCHANGED <<ctx, tickers>>

(* Release: one slot back, and one sleeper woken if there is any.          *)
Release(t) ==
  /\ t \in Holding
  /\ current' = current - 1
  /\ \/ /\ Parked = {}
        /\ state' = [state EXCEPT ![t] = "idle"]
     \/ \E w \in Parked :
           state' = [state EXCEPT ![t] = "idle", ![w] = "woken"]
  /\ UNCHANGED <<queueLen, ctx, tickers>>

(* Mutant: Signal for Broadcast.                                           *)
TickSignals(t) ==
  /\ t \in tickers
  /\ \/ Parked = {} /\ UNCHANGED state
     \/ \E w \in Parked : state' = [state EXCEPT ![w] = "woken"]
  /\ UNCHANGED <<current, queueLen, ctx, tickers>>

(* A ticker goroutine broadcasts. One whose call has returned may still do *)
(* so once: both channels of its select can be ready.                      *)
Tick(t) ==
  /\ t \in tickers
  /\ state' = [u \in Threads |-> IF u \in Parked THEN "woken" ELSE state[u]]
  /\ UNCHANGED <<current, queueLen, ctx, tickers>>

(* The ticker goroutine of a call that returned sees its channel closed.   *)
TickerStops(t) ==
  /\ t \in tickers
  /\ ctx[t] = "none"
  /\ tickers' = tickers \ {t}
  /\ UNCHANGED <<current, queueLen, state, ctx>>

Next ==
  \E t \in Threads :
    \/ TakeFree(t)
    \/ AcquirePark(t)
    \/ AcquireContextPark(t)
    \/ AcquireContextRefused(t)
    \/ ContextEnds(t)
    \/ Recheck(t)
    \/ Release(t)
    \/ Tick(t)
    \/ TickerStops(t)

(* The Go scheduler runs every runnable goroutine and sync.Mutex starves   *)
(* none of them; tickers tick; every context given to AcquireContext has a *)
(* deadline. Nothing obliges a holder to release, or a caller to call.     *)
Fairness ==
  \A t \in Threads :
    /\ WF_vars(Recheck(t))
    /\ WF_vars(ctx[t] # "none" /\ Tick(t))
    /\ WF_vars(ContextEnds(t))

Spec == Init /\ [][Next]_vars

FairSpec == Spec /\ Fairness

-----------------------------------------------------------------------------
(* The counter is the number of goroutines that own a slot, and within the *)
(* limit: no path through the two calls and Release loses or doubles one.  *)
SlotAccounting ==
  /\ current = Cardinality(Holding)
  /\ current <= Max

(* queueLen, the number /health shows as containers_queue, is the number   *)
(* of calls still waiting: neither an abort nor a spurious wake-up leaves  *)
(* it off by one.                                                          *)
QueueLenExact == queueLen = Cardinality(Waiting)

(* No lost wake-up: while somebody sleeps, at least as many goroutines are *)
(* already awake as there are free slots. A slot is never left free with   *)
(* everyone asleep, even when newcomers take slots ahead of the queue and  *)
(* signalled goroutines find nothing and sleep again.                      *)
NoLostWakeup == Parked # {} => Cardinality(Woken) + current >= Max

(* AcquireContext always returns: a bounded call ends up with a slot or    *)
(* refused, even if no slot is ever released.                              *)
BoundedWait ==
  \A t \in Threads : (ctx[t] # "none") ~> (ctx[t] = "none")

Pool == INSTANCE SlotPool WITH holders <- Holding, queued <- Waiting

(* The semaphore implements the slot pool: every step is a step of the     *)
(* pool or invisible to it. In particular nobody is made to wait, and no   *)
(* expired call is refused, while a slot is free.                          *)
ImplementsPool == Pool!Spec

=============================================================================
