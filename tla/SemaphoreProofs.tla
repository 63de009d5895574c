-------------------------- MODULE SemaphoreProofs ---------------------------
(***************************************************************************)
(* Theorems about Semaphore for any finite set of goroutines and any       *)
(* limit: its counters are exact, no wake-up is lost, and it implements    *)
(* SlotPool.                                                               *)
(*                                                                         *)
(* The counters are compared with the sizes of the sets Holding, Parked    *)
(* and Woken, so each action is first described by what it does to those   *)
(* three sets (the lemmas Moves...), and the sizes then follow from        *)
(* FS_AddElement and FS_RemoveElement.                                     *)
(***************************************************************************)
EXTENDS Semaphore, TLAPS, FiniteSetTheorems

(* Only a call that waits has a context of its own. Without it the ticker  *)
(* of TickerStops could be that of a sleeper.                              *)
CtxWaits == \A t \in Threads : ctx[t] # "none" => t \in Waiting

IInv ==
  /\ TypeOK
  /\ SlotAccounting
  /\ QueueLenExact
  /\ NoLostWakeup
  /\ CtxWaits

-----------------------------------------------------------------------------
LEMMA SetsFinite ==
  ASSUME TypeOK
  PROVE  /\ IsFiniteSet(Holding) /\ Cardinality(Holding) \in Nat
         /\ IsFiniteSet(Parked)  /\ Cardinality(Parked) \in Nat
         /\ IsFiniteSet(Woken)   /\ Cardinality(Woken) \in Nat
         /\ IsFiniteSet(Waiting) /\ Cardinality(Waiting) \in Nat
<1>1. Holding \in SUBSET Threads /\ Parked \in SUBSET Threads
      /\ Woken \in SUBSET Threads /\ Waiting \in SUBSET Threads
  BY DEF Holding, Parked, Woken, Waiting, In
<1>2. IsFiniteSet(Threads)
  BY SemaphoreAssumption
<1> QED
  BY <1>1, <1>2, FS_Subset, FS_CardinalityType

(* A goroutine that leaves the idle state is in none of the sets before.   *)
LEMMA IdleJoins ==
  ASSUME TypeOK, NEW t \in Threads, state[t] = "idle"
  PROVE  /\ state' = [state EXCEPT ![t] = "holding"]
              => /\ Holding' = Holding \union {t} /\ t \notin Holding
                 /\ Parked' = Parked /\ Woken' = Woken
         /\ state' = [state EXCEPT ![t] = "parked"]
              => /\ Parked' = Parked \union {t} /\ t \notin Parked
                 /\ Holding' = Holding /\ Woken' = Woken
BY DEF TypeOK, Holding, Parked, Woken, In

(* Where a goroutine that was woken may go.                                *)
LEMMA WokenLeaves ==
  ASSUME TypeOK, NEW t \in Woken
  PROVE  /\ state' = [state EXCEPT ![t] = "holding"]
              => /\ Holding' = Holding \union {t} /\ t \notin Holding
                 /\ Woken' = Woken \ {t} /\ Parked' = Parked
         /\ state' = [state EXCEPT ![t] = "idle"]
              => /\ Holding' = Holding
                 /\ Woken' = Woken \ {t} /\ Parked' = Parked
         /\ state' = [state EXCEPT ![t] = "parked"]
              => /\ Holding' = Holding
                 /\ Woken' = Woken \ {t} /\ Parked' = Parked \union {t}
                 /\ t \notin Parked
BY DEF TypeOK, Holding, Parked, Woken, In

(* What Release does to the holders and to the sleeper it signals.         *)
LEMMA ReleaseMoves ==
  ASSUME TypeOK, NEW t \in Holding
  PROVE  /\ state' = [state EXCEPT ![t] = "idle"]
              => /\ Holding' = Holding \ {t}
                 /\ Woken' = Woken /\ Parked' = Parked
         /\ \A w \in Parked :
              state' = [state EXCEPT ![t] = "idle", ![w] = "woken"]
                => /\ Holding' = Holding \ {t}
                   /\ Woken' = Woken \union {w} /\ w \notin Woken
                   /\ Parked' = Parked \ {w}
BY DEF TypeOK, Holding, Parked, Woken, In

LEMMA TickMoves ==
  ASSUME TypeOK, NEW t \in Threads, Tick(t)
  PROVE  /\ Holding' = Holding /\ Parked' = {}
         /\ Woken' = Woken \union Parked
BY DEF TypeOK, Tick, Holding, Parked, Woken, In

-----------------------------------------------------------------------------
LEMMA InvInit == Init => IInv
<1> SUFFICES ASSUME Init PROVE IInv
  OBVIOUS
<1>1. Holding = {} /\ Parked = {} /\ Woken = {} /\ Waiting = {}
  BY DEF Init, Holding, Parked, Woken, Waiting, In
<1>2. TypeOK /\ CtxWaits
  BY SemaphoreAssumption DEF Init, TypeOK, CtxWaits
<1> QED
  BY <1>1, <1>2, FS_EmptySet, SemaphoreAssumption
     DEF Init, IInv, SlotAccounting, QueueLenExact, NoLostWakeup

LEMMA TypeStep == IInv /\ [Next]_vars => TypeOK'
<1> SUFFICES ASSUME IInv, [Next]_vars PROVE TypeOK'
  OBVIOUS
<1> USE DEF IInv, TypeOK
<1>1. ASSUME NEW t \in Threads, TakeFree(t) PROVE TypeOK'
  BY <1>1 DEF TakeFree
<1>2. ASSUME NEW t \in Threads, AcquirePark(t) PROVE TypeOK'
  BY <1>2 DEF AcquirePark
<1>3. ASSUME NEW t \in Threads, AcquireContextPark(t) PROVE TypeOK'
  BY <1>3 DEF AcquireContextPark
<1>4. ASSUME NEW t \in Threads, AcquireContextRefused(t) PROVE TypeOK'
  BY <1>4 DEF AcquireContextRefused
<1>5. ASSUME NEW t \in Threads, ContextEnds(t) PROVE TypeOK'
  BY <1>5 DEF ContextEnds
<1>6. ASSUME NEW t \in Threads, Recheck(t) PROVE TypeOK'
  <2>1. t \in Woken => queueLen - 1 \in Nat
    <3> SUFFICES ASSUME t \in Woken PROVE queueLen # 0
      OBVIOUS
    <3>1. t \in Waiting /\ IsFiniteSet(Waiting)
      BY SetsFinite DEF Waiting
    <3> QED
      BY <3>1, FS_EmptySet DEF QueueLenExact
  <2> QED
    BY <1>6, <2>1 DEF Recheck, RecheckTakes, RecheckGivesUp, RecheckParks
<1>7. ASSUME NEW t \in Threads, Release(t) PROVE TypeOK'
  <2>1. t \in Holding /\ IsFiniteSet(Holding)
    BY <1>7, SetsFinite DEF Release
  <2>2. current - 1 \in Nat
    BY <2>1, FS_EmptySet DEF SlotAccounting
  <2> QED
    BY <1>7, <2>2 DEF Release, Parked, In
<1>8. ASSUME NEW t \in Threads, Tick(t) PROVE TypeOK'
  BY <1>8 DEF Tick
<1>9. ASSUME NEW t \in Threads, TickerStops(t) PROVE TypeOK'
  BY <1>9 DEF TickerStops
<1>10. CASE UNCHANGED vars
  BY <1>10 DEF vars
<1> QED
  BY <1>1, <1>2, <1>3, <1>4, <1>5, <1>6, <1>7, <1>8, <1>9, <1>10 DEF Next

-----------------------------------------------------------------------------
(* The three counting invariants, one action at a time.                    *)
Counts == SlotAccounting /\ QueueLenExact /\ NoLostWakeup

LEMMA CountsTakeFree ==
  ASSUME IInv, NEW t \in Threads, TakeFree(t)
  PROVE  Counts'
<1>1. /\ Holding' = Holding \union {t} /\ t \notin Holding
      /\ Parked' = Parked /\ Woken' = Woken
  BY IdleJoins DEF IInv, TakeFree, CanCall
<1>2. Cardinality(Holding') = Cardinality(Holding) + 1
  BY <1>1, SetsFinite, FS_AddElement DEF IInv
<1>3. Waiting' = Waiting
  BY <1>1 DEF Waiting
<1> QED
  BY <1>1, <1>2, <1>3, SetsFinite, SemaphoreAssumption
     DEF Counts, IInv, TypeOK, SlotAccounting, QueueLenExact, NoLostWakeup,
         TakeFree, Free

LEMMA CountsPark ==
  ASSUME IInv, NEW t \in Threads, AcquirePark(t) \/ AcquireContextPark(t)
  PROVE  Counts'
<1>1. /\ Parked' = Parked \union {t} /\ t \notin Parked
      /\ Holding' = Holding /\ Woken' = Woken
  BY IdleJoins DEF IInv, AcquirePark, AcquireContextPark, CanCall
<1>2. Waiting' = Waiting \union {t} /\ t \notin Waiting
  BY <1>1 DEF Waiting, Woken, In, AcquirePark, AcquireContextPark, CanCall
<1>3. Cardinality(Waiting') = Cardinality(Waiting) + 1
  BY <1>2, SetsFinite, FS_AddElement DEF IInv
<1> QED
  BY <1>1, <1>3, SetsFinite, SemaphoreAssumption
     DEF Counts, IInv, TypeOK, SlotAccounting, QueueLenExact, NoLostWakeup,
         AcquirePark, AcquireContextPark, Free

LEMMA CountsRecheck ==
  ASSUME IInv, NEW t \in Threads, Recheck(t)
  PROVE  Counts'
<1>1. t \in Woken /\ t \in Waiting /\ t \notin Parked
  BY DEF Recheck, RecheckTakes, RecheckGivesUp, RecheckParks, Waiting,
         Woken, Parked, In
<1>2. /\ Cardinality(Woken \ {t}) = Cardinality(Woken) - 1
      /\ Cardinality(Waiting \ {t}) = Cardinality(Waiting) - 1
      /\ Cardinality(Woken \ {t}) \in Nat
  BY <1>1, SetsFinite, FS_RemoveElement, FS_CardinalityType DEF IInv
<1>3. CASE RecheckTakes(t)
  <2>1. /\ Holding' = Holding \union {t} /\ t \notin Holding
        /\ Woken' = Woken \ {t} /\ Parked' = Parked
    BY <1>1, <1>3, WokenLeaves DEF IInv, RecheckTakes
  <2>2. Cardinality(Holding') = Cardinality(Holding) + 1
    BY <2>1, SetsFinite, FS_AddElement DEF IInv
  <2>3. Waiting' = Waiting \ {t}
    BY <1>1, <2>1 DEF Waiting
  <2> QED
    BY <1>2, <1>3, <2>1, <2>2, <2>3, SetsFinite, SemaphoreAssumption
       DEF Counts, IInv, TypeOK, SlotAccounting, QueueLenExact,
           NoLostWakeup, RecheckTakes, Free
<1>4. CASE RecheckGivesUp(t)
  <2>1. Holding' = Holding /\ Woken' = Woken \ {t} /\ Parked' = Parked
    BY <1>1, <1>4, WokenLeaves DEF IInv, RecheckGivesUp
  <2>2. Waiting' = Waiting \ {t}
    BY <1>1, <2>1 DEF Waiting
  <2> QED
    BY <1>2, <1>4, <2>1, <2>2, SetsFinite, SemaphoreAssumption
       DEF Counts, IInv, TypeOK, SlotAccounting, QueueLenExact,
           NoLostWakeup, RecheckGivesUp, Free
<1>5. CASE RecheckParks(t)
  <2>1. Holding' = Holding /\ Woken' = Woken \ {t}
        /\ Parked' = Parked \union {t}
    BY <1>1, <1>5, WokenLeaves DEF IInv, RecheckParks
  <2>2. Waiting' = Waiting
    BY <1>1, <2>1 DEF Waiting
  <2> QED
    BY <1>2, <1>5, <2>1, <2>2, SetsFinite, SemaphoreAssumption
       DEF Counts, IInv, TypeOK, SlotAccounting, QueueLenExact,
           NoLostWakeup, RecheckParks, Free
<1> QED
  BY <1>3, <1>4, <1>5 DEF Recheck

(* The slot given back is matched by the sleeper that was signalled.       *)
LEMMA CountsRelease ==
  ASSUME IInv, NEW t \in Threads, Release(t)
  PROVE  Counts'
<1>1. t \in Holding /\ Cardinality(Holding \ {t}) = Cardinality(Holding) - 1
  BY SetsFinite, FS_RemoveElement DEF IInv, Release
<1>2. CASE Parked = {} /\ state' = [state EXCEPT ![t] = "idle"]
  <2>1. Holding' = Holding \ {t} /\ Woken' = Woken /\ Parked' = Parked
    BY <1>1, <1>2, ReleaseMoves DEF IInv
  <2>2. Waiting' = Waiting
    BY <2>1 DEF Waiting
  <2> QED
    BY <1>1, <1>2, <2>1, <2>2, SetsFinite, SemaphoreAssumption
       DEF Counts, IInv, TypeOK, SlotAccounting, QueueLenExact,
           NoLostWakeup, Release
<1>3. ASSUME NEW w \in Parked,
             state' = [state EXCEPT ![t] = "idle", ![w] = "woken"]
      PROVE  Counts'
  <2>1. /\ Holding' = Holding \ {t} /\ Parked' = Parked \ {w}
        /\ Woken' = Woken \union {w} /\ w \notin Woken
    BY <1>1, <1>3, ReleaseMoves DEF IInv
  <2>2. Waiting' = Waiting
    BY <2>1 DEF Waiting
  <2>3. Cardinality(Woken') = Cardinality(Woken) + 1
    BY <2>1, SetsFinite, FS_AddElement DEF IInv
  <2> QED
    BY <1>1, <2>1, <2>2, <2>3, SetsFinite, SemaphoreAssumption
       DEF Counts, IInv, TypeOK, SlotAccounting, QueueLenExact,
           NoLostWakeup, Release
<1> QED
  BY <1>2, <1>3 DEF Release

LEMMA CountsTick ==
  ASSUME IInv, NEW t \in Threads, Tick(t)
  PROVE  Counts'
<1>1. Holding' = Holding /\ Parked' = {} /\ Woken' = Woken \union Parked
  BY TickMoves DEF IInv
<1>2. Waiting' = Waiting
  BY <1>1 DEF Waiting
<1> QED
  BY <1>1, <1>2 DEF Counts, IInv, SlotAccounting, QueueLenExact,
                    NoLostWakeup, Tick

(* Every other step leaves the counters and the three sets alone.          *)
LEMMA CountsUnmoved ==
  ASSUME IInv, UNCHANGED <<current, queueLen, state>>
  PROVE  Counts'
BY DEF Counts, IInv, SlotAccounting, QueueLenExact, NoLostWakeup,
       Holding, Parked, Woken, Waiting, In

LEMMA CtxStep == IInv /\ [Next]_vars => CtxWaits'
<1> SUFFICES ASSUME IInv, [Next]_vars PROVE CtxWaits'
  OBVIOUS
<1> USE DEF IInv, TypeOK, CtxWaits, Waiting, Parked, Woken, In
<1>1. ASSUME NEW t \in Threads, TakeFree(t) PROVE CtxWaits'
  BY <1>1 DEF TakeFree, CanCall
<1>2. ASSUME NEW t \in Threads,
             AcquirePark(t) \/ AcquireContextPark(t)
             \/ AcquireContextRefused(t)
      PROVE  CtxWaits'
  BY <1>2 DEF AcquirePark, AcquireContextPark, AcquireContextRefused, CanCall
<1>3. ASSUME NEW t \in Threads, ContextEnds(t) PROVE CtxWaits'
  BY <1>3 DEF ContextEnds
<1>4. ASSUME NEW t \in Threads, Recheck(t) PROVE CtxWaits'
  BY <1>4 DEF Recheck, RecheckTakes, RecheckGivesUp, RecheckParks
<1>5. ASSUME NEW t \in Threads, Release(t) PROVE CtxWaits'
  BY <1>5 DEF Release, Holding
<1>6. ASSUME NEW t \in Threads, Tick(t) PROVE CtxWaits'
  BY <1>6 DEF Tick
<1>7. ASSUME NEW t \in Threads, TickerStops(t) PROVE CtxWaits'
  BY <1>7 DEF TickerStops
<1>8. CASE UNCHANGED vars
  BY <1>8 DEF vars
<1> QED
  BY <1>1, <1>2, <1>3, <1>4, <1>5, <1>6, <1>7, <1>8 DEF Next

LEMMA InvStep == IInv /\ [Next]_vars => IInv'
<1> SUFFICES ASSUME IInv, [Next]_vars PROVE IInv'
  OBVIOUS
<1>1. TypeOK' /\ CtxWaits'
  BY TypeStep, CtxStep
<1>2. Counts'
  <2>1. ASSUME NEW t \in Threads,
               AcquireContextRefused(t) \/ ContextEnds(t) \/ TickerStops(t)
        PROVE  Counts'
    BY <2>1, CountsUnmoved
       DEF AcquireContextRefused, ContextEnds, TickerStops
  <2>2. CASE UNCHANGED vars
    BY <2>2, CountsUnmoved DEF vars
  <2> QED
    BY <2>1, <2>2, CountsTakeFree, CountsPark, CountsRecheck, CountsRelease,
       CountsTick DEF Next
<1> QED
  BY <1>1, <1>2 DEF IInv, Counts

-----------------------------------------------------------------------------
THEOREM SemaphoreInvariant == Spec => []IInv
BY InvInit, InvStep, PTL DEF Spec

(* Types: each goroutine is in one state, and no counter goes below zero.  *)
THEOREM SemaphoreTypeCorrect == Spec => []TypeOK
<1>1. IInv => TypeOK
  BY DEF IInv
<1> QED
  BY <1>1, SemaphoreInvariant, PTL

(* current is the number of owners of a slot and never exceeds the limit,  *)
(* however calls, aborts, broadcasts and releases interleave.              *)
THEOREM SlotsAreExact == Spec => []SlotAccounting
<1>1. IInv => SlotAccounting
  BY DEF IInv
<1> QED
  BY <1>1, SemaphoreInvariant, PTL

(* The queue length /health reports is the number of calls that wait.      *)
THEOREM QueueLenIsExact == Spec => []QueueLenExact
<1>1. IInv => QueueLenExact
  BY DEF IInv
<1> QED
  BY <1>1, SemaphoreInvariant, PTL

(* No slot is left free with everybody asleep.                             *)
THEOREM NoWakeupIsLost == Spec => []NoLostWakeup
<1>1. IInv => NoLostWakeup
  BY DEF IInv
<1> QED
  BY <1>1, SemaphoreInvariant, PTL

(* If somebody sleeps and nobody is on the way to the mutex, every slot    *)
(* has an owner, who will signal when it releases: the sleepers can be     *)
(* forgotten by nobody.                                                    *)
THEOREM SleepersMeanFull ==
  Spec => [](Parked # {} /\ Woken = {} => Cardinality(Holding) = Max)
<1>1. IInv => (Parked # {} /\ Woken = {} => Cardinality(Holding) = Max)
  <2> SUFFICES ASSUME IInv, Parked # {}, Woken = {}
               PROVE  Cardinality(Holding) = Max
    OBVIOUS
  <2>1. Cardinality(Woken) = 0
    BY FS_EmptySet
  <2>2. current >= Max /\ current <= Max /\ current = Cardinality(Holding)
    BY <2>1 DEF IInv, TypeOK, NoLostWakeup, SlotAccounting
  <2> QED
    BY <2>2, SemaphoreAssumption DEF IInv, TypeOK
<1> QED
  BY <1>1, SemaphoreInvariant, PTL

(* A bounded wait is never without its ticker: the goroutine that          *)
(* broadcasts for AcquireContext lives as long as the call waits, which is *)
(* what the end of its context needs to be noticed (the safety half of     *)
(* BoundedWait).                                                           *)
THEOREM WaitersHaveTickers ==
  Spec => [](\A t \in Threads :
               ctx[t] # "none" => t \in Waiting /\ t \in tickers)
<1> DEFINE Ticked == \A t \in Threads : ctx[t] # "none" => t \in tickers
<1>1. Init => Ticked
  BY DEF Init
<1>2. IInv /\ Ticked /\ [Next]_vars => Ticked'
  <2> SUFFICES ASSUME IInv, Ticked, [Next]_vars PROVE Ticked'
    OBVIOUS
  <2> USE DEF IInv, TypeOK
  <2>1. ASSUME NEW t \in Threads,
               \/ TakeFree(t) \/ AcquirePark(t) \/ AcquireContextRefused(t)
               \/ Release(t) \/ Tick(t)
        PROVE  Ticked'
    BY <2>1 DEF TakeFree, AcquirePark, AcquireContextRefused, Release, Tick
  <2>2. ASSUME NEW t \in Threads, AcquireContextPark(t) \/ ContextEnds(t)
        PROVE  Ticked'
    BY <2>2 DEF AcquireContextPark, ContextEnds
  <2>3. ASSUME NEW t \in Threads, Recheck(t) \/ TickerStops(t)
        PROVE  Ticked'
    BY <2>3 DEF Recheck, RecheckTakes, RecheckGivesUp, RecheckParks, TickerStops
  <2>4. CASE UNCHANGED vars
    BY <2>4 DEF vars
  <2> QED
    BY <2>1, <2>2, <2>3, <2>4 DEF Next
<1>3. IInv /\ Ticked
        => \A t \in Threads :
             ctx[t] # "none" => t \in Waiting /\ t \in tickers
  BY DEF IInv, CtxWaits
<1> QED
  BY <1>1, <1>2, <1>3, SemaphoreInvariant, PTL DEF Spec

-----------------------------------------------------------------------------
LEMMA RefinesInit == Init => Pool!Init
BY DEF Init, Pool!Init, Holding, Waiting, Parked, Woken, In

(* Each action of the semaphore is an action of the pool or invisible.     *)
LEMMA RefinesStep == IInv /\ [Next]_vars => [Pool!Next]_(Pool!vars)
<1> SUFFICES ASSUME IInv, [Next]_vars PROVE [Pool!Next]_(Pool!vars)
  OBVIOUS
<1> USE DEF IInv, Pool!vars
<1>0. Pool!Full <=> ~Free
  <2>1. Pool!Cardinality(Holding) = Cardinality(Holding)
    BY DEF Pool!Cardinality, Cardinality
  <2> QED
    BY <2>1, SemaphoreAssumption DEF Pool!Full, Free, SlotAccounting, TypeOK
<1>1. ASSUME NEW t \in Threads, TakeFree(t) PROVE Pool!Take(t)
  <2>1. t \notin Waiting
    BY <1>1 DEF TakeFree, CanCall, Waiting, Parked, Woken, In
  <2>2. /\ Holding' = Holding \union {t} /\ t \notin Holding
        /\ Parked' = Parked /\ Woken' = Woken
    BY <1>1, IdleJoins DEF TakeFree, CanCall
  <2>3. Waiting' = Waiting \ {t}
    BY <2>1, <2>2 DEF Waiting
  <2>4. ~Pool!Full
    BY <1>0, <1>1 DEF TakeFree
  <2> QED
    BY <2>2, <2>3, <2>4 DEF Pool!Take
<1>2. ASSUME NEW t \in Threads, AcquirePark(t) \/ AcquireContextPark(t)
      PROVE  Pool!Queue(t)
  <2>1. t \notin Holding /\ t \notin Waiting
    BY <1>2 DEF AcquirePark, AcquireContextPark, CanCall, Holding, Waiting,
                Parked, Woken, In
  <2> QED
    BY <1>0, <1>2, <2>1, IdleJoins
       DEF AcquirePark, AcquireContextPark, CanCall, Pool!Queue, Waiting
<1>3. ASSUME NEW t \in Threads, RecheckTakes(t) PROVE Pool!Take(t)
  <2>1. t \notin Parked
    BY <1>3 DEF RecheckTakes, Woken, Parked, In
  <2>2. /\ Holding' = Holding \union {t} /\ t \notin Holding
        /\ Woken' = Woken \ {t} /\ Parked' = Parked
    BY <1>3, WokenLeaves DEF RecheckTakes
  <2>3. Waiting' = Waiting \ {t}
    BY <2>1, <2>2 DEF Waiting
  <2>4. ~Pool!Full
    BY <1>0, <1>3 DEF RecheckTakes
  <2> QED
    BY <2>2, <2>3, <2>4 DEF Pool!Take
<1>4. ASSUME NEW t \in Threads, RecheckGivesUp(t) PROVE Pool!GiveUp(t)
  <2>1. t \notin Parked
    BY <1>4 DEF RecheckGivesUp, Woken, Parked, In
  <2> QED
    BY <1>0, <1>4, <2>1, WokenLeaves DEF RecheckGivesUp, Pool!GiveUp, Waiting
<1>5. ASSUME NEW t \in Threads, RecheckParks(t)
      PROVE  UNCHANGED <<Holding, Waiting>>
  BY <1>5, WokenLeaves DEF RecheckParks, Waiting
<1>6. ASSUME NEW t \in Threads, Release(t) PROVE Pool!Return(t)
  BY <1>6, ReleaseMoves DEF Release, Pool!Return, Waiting
<1>7. ASSUME NEW t \in Threads, Tick(t) PROVE UNCHANGED <<Holding, Waiting>>
  BY <1>7, TickMoves DEF Waiting
<1>8. ASSUME UNCHANGED state PROVE UNCHANGED <<Holding, Waiting>>
  BY <1>8 DEF Holding, Waiting, Parked, Woken, In
<1> QED
  BY <1>1, <1>2, <1>3, <1>4, <1>5, <1>6, <1>7, <1>8
     DEF Next, Recheck, AcquireContextRefused, ContextEnds, TickerStops,
         Pool!Next, vars

(* The semaphore, with its mutex, condition variable and tickers, does     *)
(* what SlotPool says: nobody waits, and nobody is turned away after       *)
(* waiting, while a slot is free, and no slot is given out twice.          *)
THEOREM ImplementsSlotPool == Spec => ImplementsPool
BY RefinesInit, RefinesStep, SemaphoreInvariant, PTL
   DEF Spec, ImplementsPool, Pool!Spec

=============================================================================
