--------------------------- MODULE SessionsProofs ---------------------------
(***************************************************************************)
(* Theorems about Sessions for any finite numbers of messages and requests *)
(* and any number of sessions, users and slots: the slot counter is exact, *)
(* no container outlives the goroutine that must remove it, so no more     *)
(* containers live than there are slots, and a launch that was replaced    *)
(* neither kills its successor nor leaves it a verdict.                    *)
(*                                                                         *)
(* IInv is about slots, generations and containers. What the later         *)
(* sections say of the users' counts, of timers and streams, of closed     *)
(* connections, of evictions and of Creation is each inductive relative to *)
(* it, by a small invariant of its own.                                    *)
(***************************************************************************)
EXTENDS Sessions, TLAPS, FiniteSetTheorems

(* The stages at which the main loop of the launch's session is busy with  *)
(* it, and those of them that come after Replace.                          *)
HandlerStages  == EntryStages \union CreateStages \union {"sendError"}
ReplacedStages == {"acquire", "queued", "refund"} \union CreateStages
EmptyStages    == {"acquire", "queued", "refund", "create", "giveBack",
                   "store"}
StoredStages   == {"track", "spawn"} \union ExitStages

(* A session handles one message at a time.                                *)
OneHandler ==
  /\ \A j \in Launches :
       at[j] \in HandlerStages
         => sess[j] \in Sessions /\ pc[sess[j]] = "launching"
  /\ \A j, k \in Launches :
       at[j] \in HandlerStages /\ at[k] \in HandlerStages
         /\ sess[j] = sess[k] => j = k

(* A handler past Replace is that of the latest launch, and st.session is  *)
(* nil until it stores its own.                                            *)
HandlerIsLatest ==
  \A j \in Launches :
    /\ at[j] \in ReplacedStages => latest[sess[j]] = j
    /\ at[j] \in EmptyStages => cur[sess[j]] = None

(* Requests belong to no session; whatever reached its exit goroutine      *)
(* without being one does.                                                 *)
Kinds ==
  \A j \in Launches :
    /\ at[j] \in HandlerStages \union (ExitStages \ {"release"})
         => j \notin Requests
    /\ at[j] \in RestStages \union {"restQueued"} => j \in Requests
    /\ at[j] \in ExitStages \union {"done"} /\ j \notin Requests
         => sess[j] \in Sessions

(* What st.session points to was stored by the launch itself.              *)
CurIsStored ==
  \A s \in Sessions :
    cur[s] # None => at[cur[s]] \in StoredStages \union {"done"}

(* A live container is about to be stored, or is st.session, or serves a   *)
(* request.                                                                *)
LiveIsKept ==
  \A j \in Launches :
    ctr[j] = "live" =>
      \/ at[j] \in {"store", "restServe"}
      \/ at[j] \in KeptStages /\ cur[sess[j]] = j

(* st.timedOut is the doing of the latest launch; timers start unused, and *)
(* only a shell's is armed before its handler is at its end.               *)
TimedOutIsOwn ==
  /\ \A j \in Runs : \A s \in Sessions :
       latest[s] = j /\ timedOut[s] => timer[j] = "hit"
  /\ \A j \in Launches :
       at[j] \in HandlerStages \union {"unused"}
         => /\ timer[j] = "off" \/ (j \in Shells /\ at[j] = "spawn")
            /\ ~verdict[j]

IInv ==
  /\ TypeOK
  /\ SlotAccounting
  /\ OneHandler
  /\ HandlerIsLatest
  /\ Kinds
  /\ CurIsStored
  /\ SessionIsLatest
  /\ LiveIsKept
  /\ TimedOutIsOwn
  /\ TimeoutIsOwn

-----------------------------------------------------------------------------
(* The slot counter. Each step moves at most one launch, into the holders, *)
(* out of them, or among those on the same side.                           *)
LEMMA HoldersFinite ==
  ASSUME TypeOK
  PROVE  /\ IsFiniteSet(SlotHolders)
         /\ Cardinality(SlotHolders) \in Nat
<1>1. IsFiniteSet(Launches)
  BY SessionsAssumption, FS_Union DEF Launches
<1> QED
  BY <1>1, FS_Subset, FS_CardinalityType DEF SlotHolders

LEMMA SlotTaken ==
  ASSUME TypeOK, SlotAccounting, NEW j \in Launches, NEW stage, Goto(j, stage),
         at[j] \notin HoldingStages, stage \in HoldingStages,
         Free, current' = current + 1
  PROVE  SlotAccounting'
<1>1. SlotHolders' = SlotHolders \union {j} /\ j \notin SlotHolders
  BY DEF SlotHolders, Goto, TypeOK
<1>2. Cardinality(SlotHolders') = Cardinality(SlotHolders) + 1
  BY <1>1, HoldersFinite, FS_AddElement
<1> QED
  BY <1>2, HoldersFinite, SessionsAssumption DEF SlotAccounting, Free, TypeOK

LEMMA SlotGivenBack ==
  ASSUME TypeOK, SlotAccounting, NEW j \in Launches, NEW stage, Goto(j, stage),
         at[j] \in HoldingStages, stage \notin HoldingStages,
         current' = current - 1
  PROVE  SlotAccounting' /\ current' \in Nat
<1>1. SlotHolders' = SlotHolders \ {j} /\ j \in SlotHolders
  BY DEF SlotHolders, Goto, TypeOK
<1>2. /\ Cardinality(SlotHolders') = Cardinality(SlotHolders) - 1
      /\ Cardinality(SlotHolders') \in Nat
  BY <1>1, HoldersFinite, FS_RemoveElement, FS_CardinalityType
<1> QED
  BY <1>2, HoldersFinite, SessionsAssumption DEF SlotAccounting, TypeOK

LEMMA SlotKept ==
  ASSUME TypeOK, SlotAccounting, NEW j \in Launches, NEW stage, Goto(j, stage),
         at[j] \in HoldingStages <=> stage \in HoldingStages,
         UNCHANGED current
  PROVE  SlotAccounting'
<1>1. SlotHolders' = SlotHolders
  BY DEF SlotHolders, Goto, TypeOK
<1> QED
  BY <1>1 DEF SlotAccounting

LEMMA SlotUntouched ==
  ASSUME SlotAccounting, UNCHANGED <<at, current>>
  PROVE  SlotAccounting'
BY DEF SlotAccounting, SlotHolders

LEMMA SlotStep == IInv /\ [Next]_vars => SlotAccounting' /\ current' \in Nat
<1> SUFFICES ASSUME IInv, [Next]_vars
             PROVE  SlotAccounting' /\ current' \in Nat
  OBVIOUS
<1> USE DEF IInv, HoldingStages, CreateStages, ExitStages, RestStages
<1>0. current \in Nat
  BY DEF TypeOK
<1>1. ASSUME NEW s \in Sessions, NEW j \in Launches,
             HandleRun(s, j) \/ HandleShell(s, j)
      PROVE  SlotAccounting' /\ UNCHANGED current
  BY <1>1, SlotKept DEF HandleRun, HandleShell
<1>2. ASSUME NEW s \in Sessions, Untrack(s) \/ Close(s)
      PROVE  SlotAccounting' /\ UNCHANGED current
  BY <1>2, SlotUntouched DEF Untrack, Close
<1>3. ASSUME NEW j \in Launches, Evict(j)
      PROVE  SlotAccounting' /\ UNCHANGED current
  BY <1>3, SlotKept
     DEF Evict, EvictCheck, EvictPick, EvictRemove, EvictForget, EvictDec,
         Retry, Return
<1>4. ASSUME NEW j \in Launches, LaunchStep(j)
      PROVE  SlotAccounting' /\ current' \in Nat
  <2>1. CASE Acquire(j) \/ QueueTakes(j)
    BY <2>1, <1>0, SlotTaken, SlotKept DEF Acquire, QueueTakes
  <2>2. CASE GiveBack(j)
    BY <2>2, SlotGivenBack DEF GiveBack, Return
  <2>3. CASE Replace(j) \/ QueueTimesOut(j) \/ Refund(j) \/ SendError(j)
    BY <2>3, <1>0, SlotKept
       DEF Replace, QueueTimesOut, Refund, SendError, Return
  <2>4. CASE \/ CreateSucceeds(j) \/ CreateFails(j) \/ Store(j)
             \/ Track(j) \/ Spawn(j)
    BY <2>4, <1>0, SlotKept
       DEF CreateSucceeds, CreateFails, Store, Track, Spawn
  <2> QED
    BY <1>4, <2>1, <2>2, <2>3, <2>4 DEF LaunchStep
<1>5. ASSUME NEW j \in Launches, ExitStep(j)
      PROVE  SlotAccounting' /\ current' \in Nat
  <2>1. CASE ReleaseSlot(j)
    BY <2>1, SlotGivenBack DEF ReleaseSlot
  <2>2. CASE OutputDone(j) \/ Recheck(j) \/ SendExit(j) \/ Clean(j)
             \/ DecCount(j)
    BY <2>2, <1>0, SlotKept DEF OutputDone, Recheck, SendExit, Clean, DecCount
  <2> QED
    BY <1>5, <2>1, <2>2 DEF ExitStep
<1>6. ASSUME NEW j \in Launches, RestArrives(j) \/ RestStep(j)
      PROVE  SlotAccounting' /\ current' \in Nat
  BY <1>6, <1>0, SlotTaken, SlotKept
     DEF RestStep, RestArrives, RestQueueEnds, RestCreates, RestRemoves
<1>7. ASSUME NEW j \in Launches,
             StreamEnds(j) \/ TimerFires(j) \/ TimerBody(j) \/ Reap(j)
      PROVE  SlotAccounting' /\ UNCHANGED current
  BY <1>7, SlotUntouched
     DEF StreamEnds, TimerFires, TimerBody, KillRun, KillShell, CancelShell,
         Reap
<1>8. CASE Stall \/ Resume \/ UNCHANGED vars
  BY <1>8, <1>0, SlotUntouched DEF Stall, Resume, vars
<1> QED
  BY <1>0, <1>1, <1>2, <1>3, <1>4, <1>5, <1>6, <1>7, <1>8 DEF Next

-----------------------------------------------------------------------------
(* Types.                                                                  *)
LEMMA RemoveType ==
  ASSUME TypeOK, NEW j, Remove(j)
  PROVE  ctr' \in [Launches -> {"none", "live", "stray", "gone"}]
<1>1. PICK outcome \in {"gone", "stray"} :
        ctr' = [ctr EXCEPT ![j] =
                  IF ctr[j] \in {"live", "stray"} THEN outcome ELSE ctr[j]]
  BY DEF Remove
<1>2. CASE ctr[j] \in {"live", "stray"}
  BY <1>1, <1>2 DEF TypeOK
<1>3. CASE ctr[j] \notin {"live", "stray"}
  BY <1>1, <1>3 DEF TypeOK
<1> QED
  BY <1>2, <1>3

LEMMA LetGoType ==
  ASSUME TypeOK, NEW s \in Sessions, LetGo(s)
  PROVE  /\ cur' \in [Sessions -> Launches \union {None}]
         /\ ctr' \in [Launches -> {"none", "live", "stray", "gone"}]
         /\ stream' \in [Launches -> BOOLEAN]
<1>1. CASE cur[s] = None
  BY <1>1 DEF TypeOK, LetGo, dockerVars
<1>2. CASE cur[s] # None
  <2>1. Remove(cur[s]) /\ stream' = [stream EXCEPT ![cur[s]] = FALSE]
    BY <1>2 DEF LetGo
  <2> QED
    BY <2>1, RemoveType DEF TypeOK, LetGo
<1> QED
  BY <1>1, <1>2

LEMMA GotoType ==
  ASSUME TypeOK, NEW j, NEW stage \in Stages, Goto(j, stage)
  PROVE  at' \in [Launches -> Stages]
BY DEF TypeOK, Goto

LEMMA CountType ==
  ASSUME TypeOK, NEW u, Inc(u) \/ Dec(u)
  PROVE  count' \in [Users -> Nat]
BY DEF TypeOK, Inc, Dec

LEMMA TypeStep == IInv /\ [Next]_vars => TypeOK'
<1> SUFFICES ASSUME IInv, [Next]_vars PROVE TypeOK'
  OBVIOUS
<1>0. TypeOK /\ current' \in Nat
  BY SlotStep DEF IInv
<1>st. /\ EntryStages \subseteq Stages /\ HoldingStages \subseteq Stages
       /\ {"replace", "retry", "acquire", "queued", "refund",
           "sendError", "done", "restQueued"} \subseteq Stages
       /\ {"evictCheck", "evictPick", "evictRemove", "evictForget",
           "evictDec"} \subseteq Stages
       /\ {"create", "giveBack", "store", "track", "spawn"} \subseteq Stages
       /\ {"wait", "recheck", "send", "clean", "dec", "release",
           "restCreate", "restServe"} \subseteq Stages
  BY DEF Stages, EntryStages, EvictStages, HoldingStages, CreateStages,
         ExitStages, RestStages
<1> USE <1>0 DEF sessionVars, dockerVars, timerVars, userVars, TypeOK
<1>1. ASSUME NEW s \in Sessions, NEW j \in Launches,
             HandleRun(s, j) \/ HandleShell(s, j)
      PROVE  TypeOK'
  <2>1. at' \in [Launches -> Stages]
    BY <1>1, <1>st, GotoType DEF HandleRun, HandleShell
  <2>2. count' \in [Users -> Nat]
    BY <1>1, CountType DEF HandleRun, HandleShell
  <2> QED
    BY <1>1, <2>1, <2>2 DEF HandleRun, HandleShell
<1>2. ASSUME NEW s \in Sessions, Untrack(s) PROVE TypeOK'
  BY <1>2 DEF Untrack
<1>3. ASSUME NEW s \in Sessions, Close(s) PROVE TypeOK'
  BY <1>3, LetGoType DEF Close
<1>4. ASSUME NEW j \in Launches, Evict(j) PROVE TypeOK'
  <2>1. at' \in [Launches -> Stages]
    BY <1>4, <1>st, GotoType
       DEF Evict, EvictCheck, EvictPick, EvictRemove, EvictForget, EvictDec,
           Retry, Return
  <2>2. CASE EvictCheck(j)
    BY <2>1, <2>2 DEF EvictCheck
  <2>3. CASE EvictPick(j)
    BY <2>1, <2>3 DEF EvictPick, Tracked
  <2>4. CASE EvictRemove(j)
    BY <2>1, <2>4, RemoveType DEF EvictRemove
  <2>5. CASE EvictForget(j)
    BY <2>1, <2>5 DEF EvictForget
  <2>6. CASE EvictDec(j)
    <3>1. count' \in [Users -> Nat]
      BY <2>6, CountType DEF EvictDec
    <3> QED
      BY <2>1, <2>6, <3>1 DEF EvictDec
  <2>7. CASE Retry(j)
    <3>1. count' \in [Users -> Nat]
      BY <2>7, CountType DEF Retry
    <3> QED
      BY <2>1, <2>7, <3>1 DEF Retry, Return
  <2> QED
    BY <1>4, <2>2, <2>3, <2>4, <2>5, <2>6, <2>7 DEF Evict
<1>5. ASSUME NEW j \in Launches, LaunchStep(j) PROVE TypeOK'
  <2>1. at' \in [Launches -> Stages]
    BY <1>5, <1>st, GotoType
       DEF LaunchStep, Replace, Acquire, QueueTakes, QueueTimesOut, Refund,
           SendError, CreateSucceeds, CreateFails, GiveBack, Store, Track,
           Spawn, Return
  <2>2. CASE Replace(j)
    <3>1. sess[j] \in Sessions
      BY <2>2 DEF Replace, IInv, OneHandler, HandlerStages, EntryStages
    <3>2. timedOut' \in [Sessions -> BOOLEAN]
      BY <2>2, <3>1 DEF Replace
    <3> QED
      BY <2>1, <2>2, <3>1, <3>2, LetGoType DEF Replace
  <2>3. CASE Acquire(j) \/ QueueTakes(j) \/ QueueTimesOut(j) \/ GiveBack(j)
             \/ SendError(j)
    BY <2>1, <2>3
       DEF Acquire, QueueTakes, QueueTimesOut, GiveBack, SendError, Return
  <2>4. CASE Refund(j)
    <3>1. count' \in [Users -> Nat]
      BY <2>4, CountType DEF Refund
    <3> QED
      BY <2>1, <2>4, <3>1 DEF Refund, SendError, Return
  <2>5. CASE CreateSucceeds(j) \/ CreateFails(j)
    <3>1. \E state \in {"none", "live", "stray"} :
            ctr' = [ctr EXCEPT ![j] = state]
      BY <2>5 DEF CreateSucceeds, CreateFails
    <3>2. ctr' \in [Launches -> {"none", "live", "stray", "gone"}]
      BY <3>1
    <3>3. stream' \in [Launches -> BOOLEAN]
      BY <2>5 DEF CreateSucceeds, CreateFails
    <3> QED
      BY <2>1, <2>5, <3>2, <3>3 DEF CreateSucceeds, CreateFails
  <2>6. CASE Store(j) \/ Track(j) \/ Spawn(j)
    BY <2>1, <2>6 DEF Store, Track, Spawn
  <2> QED
    BY <1>5, <2>2, <2>3, <2>4, <2>5, <2>6 DEF LaunchStep
<1>6. ASSUME NEW j \in Launches, ExitStep(j) PROVE TypeOK'
  <2>1. at' \in [Launches -> Stages]
    BY <1>6, <1>st, GotoType
       DEF ExitStep, OutputDone, Recheck, SendExit, Clean, DecCount,
           ReleaseSlot
  <2>2. j \notin Requests \/ at[j] = "release"
    BY <1>6 DEF IInv, Kinds, ExitStages, ExitStep, OutputDone, Recheck,
                SendExit, Clean, DecCount, ReleaseSlot
  <2>3. CASE OutputDone(j)
    <3>1. sess[j] \in Sessions
      BY <2>2, <2>3 DEF OutputDone, IInv, Kinds, ExitStages
    <3>2. timedOut[sess[j]] \in BOOLEAN
      BY <3>1
    <3> QED
      BY <2>1, <2>3, <3>2 DEF OutputDone
  <2>4. CASE Recheck(j) \/ SendExit(j) \/ ReleaseSlot(j)
    BY <2>1, <2>4 DEF Recheck, SendExit, ReleaseSlot
  <2>5. CASE Clean(j)
    <3>1. sess[j] \in Sessions
      BY <2>2, <2>5 DEF Clean, IInv, Kinds, ExitStages
    <3> QED
      BY <2>1, <2>5, <3>1, LetGoType DEF Clean
  <2>6. CASE DecCount(j)
    <3>1. count' \in [Users -> Nat]
      BY <2>6, CountType DEF DecCount
    <3> QED
      BY <2>1, <2>6, <3>1 DEF DecCount
  <2> QED
    BY <1>6, <2>3, <2>4, <2>5, <2>6 DEF ExitStep
<1>7. ASSUME NEW j \in Launches, RestArrives(j) \/ RestStep(j) PROVE TypeOK'
  <2>1. at' \in [Launches -> Stages]
    BY <1>7, <1>st, GotoType
       DEF RestStep, RestArrives, RestQueueEnds, RestCreates, RestRemoves
  <2> QED
    BY <1>7, <2>1
       DEF RestStep, RestArrives, RestQueueEnds, RestCreates, RestRemoves,
           Remove
<1>8. ASSUME NEW j \in Launches,
             StreamEnds(j) \/ TimerFires(j) \/ TimerBody(j) \/ Reap(j)
      PROVE  TypeOK'
  BY <1>8 DEF StreamEnds, TimerFires, TimerBody, KillRun, KillShell,
              CancelShell, Reap
<1>9. CASE Stall \/ Resume \/ UNCHANGED vars
  BY <1>9 DEF Stall, Resume, vars
<1> QED
  BY <1>1, <1>2, <1>3, <1>4, <1>5, <1>6, <1>7, <1>8, <1>9 DEF Next

-----------------------------------------------------------------------------
(* A session handles one message at a time: the main loop takes the next   *)
(* one only when the handler has returned.                                 *)
LEMMA OneHandlerStep == IInv /\ [Next]_vars => OneHandler'
<1> SUFFICES ASSUME IInv, [Next]_vars PROVE OneHandler'
  OBVIOUS
<1> USE DEF IInv, TypeOK, OneHandler, HandlerStages, EntryStages,
            EvictStages, CreateStages, Goto
<1>1. ASSUME NEW s \in Sessions, NEW j \in Launches,
             HandleRun(s, j) \/ HandleShell(s, j)
      PROVE  OneHandler'
  BY <1>1 DEF HandleRun, HandleShell
<1>2. ASSUME NEW s \in Sessions, Untrack(s) \/ Close(s)
      PROVE  OneHandler'
  BY <1>2 DEF Untrack, Close
<1>3. ASSUME NEW j \in Launches, Evict(j) PROVE OneHandler'
  BY <1>3 DEF Evict, EvictCheck, EvictPick, EvictRemove, EvictForget,
              EvictDec, Retry, Return, sessionVars
<1>4. ASSUME NEW j \in Launches, LaunchStep(j) PROVE OneHandler'
  <2>1. CASE Replace(j) \/ Acquire(j) \/ QueueTakes(j)
             \/ CreateSucceeds(j) \/ CreateFails(j) \/ Store(j) \/ Track(j)
    BY <2>1 DEF Replace, Acquire, QueueTakes, CreateSucceeds, CreateFails,
                Store, Track, sessionVars
  <2>2. CASE QueueTimesOut(j) \/ Refund(j) \/ SendError(j) \/ GiveBack(j)
    BY <2>2 DEF QueueTimesOut, Refund, SendError, GiveBack, Return,
                sessionVars
  <2>3. CASE Spawn(j)
    BY <2>3 DEF Spawn
  <2> QED
    BY <1>4, <2>1, <2>2, <2>3 DEF LaunchStep
<1>5. ASSUME NEW j \in Launches, ExitStep(j) PROVE OneHandler'
  BY <1>5 DEF ExitStep, OutputDone, Recheck, SendExit, Clean, DecCount,
              ReleaseSlot, sessionVars
<1>6. ASSUME NEW j \in Launches, RestArrives(j) \/ RestStep(j)
      PROVE  OneHandler'
  BY <1>6 DEF RestStep, RestArrives, RestQueueEnds, RestCreates,
              RestRemoves, sessionVars
<1>7. ASSUME NEW j \in Launches,
             StreamEnds(j) \/ TimerFires(j) \/ TimerBody(j) \/ Reap(j)
      PROVE  OneHandler'
  BY <1>7 DEF StreamEnds, TimerFires, TimerBody, KillRun, KillShell,
              CancelShell, Reap, sessionVars
<1>8. CASE Stall \/ Resume \/ UNCHANGED vars
  BY <1>8 DEF Stall, Resume, vars, sessionVars
<1> QED
  BY <1>1, <1>2, <1>3, <1>4, <1>5, <1>6, <1>7, <1>8 DEF Next

(* Which messages reach which stages.                                      *)
LEMMA KindsStep == IInv /\ [Next]_vars => Kinds'
<1> SUFFICES ASSUME IInv, [Next]_vars PROVE Kinds'
  OBVIOUS
<1> USE SessionsAssumption
    DEF IInv, TypeOK, OneHandler, Kinds, HandlerStages, EntryStages,
        EvictStages, CreateStages, ExitStages, RestStages, Goto
<1>1. ASSUME NEW s \in Sessions, NEW j \in Launches,
             HandleRun(s, j) \/ HandleShell(s, j)
      PROVE  Kinds'
  BY <1>1 DEF HandleRun, HandleShell
<1>2. ASSUME NEW s \in Sessions, Untrack(s) \/ Close(s)
      PROVE  Kinds'
  BY <1>2 DEF Untrack, Close
<1>3. ASSUME NEW j \in Launches, Evict(j) PROVE Kinds'
  BY <1>3 DEF Evict, EvictCheck, EvictPick, EvictRemove, EvictForget,
              EvictDec, Retry, Return
<1>4. ASSUME NEW j \in Launches, LaunchStep(j) PROVE Kinds'
  <2>1. CASE Replace(j) \/ Acquire(j) \/ QueueTakes(j)
             \/ CreateSucceeds(j) \/ CreateFails(j) \/ Store(j) \/ Track(j)
    BY <2>1 DEF Replace, Acquire, QueueTakes, CreateSucceeds, CreateFails,
                Store, Track
  <2>2. CASE QueueTimesOut(j) \/ Refund(j) \/ SendError(j) \/ GiveBack(j)
             \/ Spawn(j)
    BY <2>2 DEF QueueTimesOut, Refund, SendError, GiveBack, Spawn, Return
  <2> QED
    BY <1>4, <2>1, <2>2 DEF LaunchStep
<1>5. ASSUME NEW j \in Launches, ExitStep(j) PROVE Kinds'
  BY <1>5 DEF ExitStep, OutputDone, Recheck, SendExit, Clean, DecCount,
              ReleaseSlot
<1>6. ASSUME NEW j \in Launches, RestArrives(j) \/ RestStep(j)
      PROVE  Kinds'
  <2>1. j \in Requests
    BY <1>6 DEF RestStep, RestArrives, RestQueueEnds, RestCreates, RestRemoves
  <2> QED
    BY <1>6, <2>1 DEF RestStep, RestArrives, RestQueueEnds, RestCreates,
                      RestRemoves
<1>7. ASSUME NEW j \in Launches,
             StreamEnds(j) \/ TimerFires(j) \/ TimerBody(j) \/ Reap(j)
      PROVE  Kinds'
  BY <1>7 DEF StreamEnds, TimerFires, TimerBody, KillRun, KillShell,
              CancelShell, Reap
<1>8. CASE Stall \/ Resume \/ UNCHANGED vars
  BY <1>8 DEF Stall, Resume, vars
<1> QED
  BY <1>1, <1>2, <1>3, <1>4, <1>5, <1>6, <1>7, <1>8 DEF Next

-----------------------------------------------------------------------------
(* st.session and st.generation.                                           *)
SessionLinks == HandlerIsLatest /\ CurIsStored /\ SessionIsLatest

LEMMA SessionLinksStep == IInv /\ [Next]_vars => SessionLinks'
<1> SUFFICES ASSUME IInv, [Next]_vars PROVE SessionLinks'
  OBVIOUS
<1> USE SessionsAssumption
    DEF IInv, TypeOK, OneHandler, HandlerIsLatest, CurIsStored,
        SessionIsLatest, SessionLinks, HandlerStages, ReplacedStages,
        EmptyStages, StoredStages, EntryStages, EvictStages, CreateStages,
        ExitStages, Goto
<1>1. ASSUME NEW s \in Sessions, NEW j \in Launches,
             HandleRun(s, j) \/ HandleShell(s, j)
      PROVE  SessionLinks'
  <2>1. /\ at[j] = "unused" /\ UNCHANGED <<cur, latest>>
        /\ at' = [at EXCEPT ![j] = "replace"]
             \/ at' = [at EXCEPT ![j] = "evictCheck"]
        /\ sess' = [sess EXCEPT ![j] = s]
    BY <1>1 DEF HandleRun, HandleShell
  <2>2. \A r \in Sessions : cur[r] # j
    BY <2>1
  <2>3. HandlerIsLatest'
    BY <2>1
  <2>4. CurIsStored'
    BY <2>1, <2>2
  <2>5. SessionIsLatest'
    BY <2>1, <2>2
  <2> QED
    BY <2>3, <2>4, <2>5
<1>2. ASSUME NEW s \in Sessions, Untrack(s) PROVE SessionLinks'
  BY <1>2 DEF Untrack
<1>3. ASSUME NEW s \in Sessions, Close(s) PROVE SessionLinks'
  BY <1>3 DEF Close, LetGo
<1>4. ASSUME NEW j \in Launches, Evict(j) PROVE SessionLinks'
  <2>1. /\ at[j] \in EvictStages /\ UNCHANGED <<cur, latest, sess>>
        /\ \E stage \in EvictStages \union {"replace", "sendError"} :
              at' = [at EXCEPT ![j] = stage]
    BY <1>4 DEF Evict, EvictCheck, EvictPick, EvictRemove, EvictForget,
                EvictDec, Retry, Return, sessionVars
  <2> QED
    BY <2>1
<1>5. ASSUME NEW j \in Launches, LaunchStep(j) PROVE SessionLinks'
  <2>1. CASE Replace(j)
    BY <2>1 DEF Replace, LetGo
  <2>2. CASE Acquire(j) \/ QueueTakes(j) \/ CreateSucceeds(j)
             \/ CreateFails(j) \/ Track(j)
    <3>1. UNCHANGED <<cur, latest, sess>>
      BY <2>2 DEF Acquire, QueueTakes, CreateSucceeds, CreateFails, Track,
                  sessionVars
    <3>2. /\ at[j] \in ReplacedStages
          /\ \E stage \in ReplacedStages :
               /\ at' = [at EXCEPT ![j] = stage]
               /\ stage \in EmptyStages => at[j] \in EmptyStages
               /\ at[j] \in StoredStages => stage \in StoredStages
      BY <2>2 DEF Acquire, QueueTakes, CreateSucceeds, CreateFails, Track
    <3>3. HandlerIsLatest'
      BY <3>1, <3>2
    <3>4. CurIsStored'
      BY <3>1, <3>2
    <3> QED
      BY <3>1, <3>3, <3>4
  <2>3. CASE QueueTimesOut(j) \/ Refund(j) \/ SendError(j) \/ GiveBack(j)
             \/ Spawn(j)
    <3>1. UNCHANGED <<cur, latest, sess>>
      BY <2>3 DEF QueueTimesOut, Refund, SendError, GiveBack, Spawn, Return,
                  sessionVars
    <3>2. \E stage \in {"refund", "sendError", "done", "wait"} :
            /\ at' = [at EXCEPT ![j] = stage]
            /\ stage = "refund" => at[j] \in EmptyStages
      BY <2>3 DEF QueueTimesOut, Refund, SendError, GiveBack, Spawn, Return
    <3>3. HandlerIsLatest'
      BY <3>1, <3>2
    <3>4. at[j] \in StoredStages \union {"done"}
            => at'[j] \in StoredStages \union {"done"}
      BY <2>3 DEF QueueTimesOut, Refund, SendError, GiveBack, Spawn, Return
    <3>5. CurIsStored'
      BY <3>1, <3>2, <3>4
    <3> QED
      BY <3>1, <3>3, <3>5
  <2>4. CASE Store(j)
    BY <2>4 DEF Store
  <2> QED
    BY <1>5, <2>1, <2>2, <2>3, <2>4 DEF LaunchStep
<1>6. ASSUME NEW j \in Launches, ExitStep(j) PROVE SessionLinks'
  <2>1. /\ at[j] \in ExitStages
        /\ \E stage \in ExitStages \union {"done"} :
             at' = [at EXCEPT ![j] = stage]
    BY <1>6 DEF ExitStep, OutputDone, Recheck, SendExit, Clean, DecCount,
                ReleaseSlot
  <2>2. /\ \A s \in Sessions : cur'[s] = cur[s] \/ cur'[s] = None
        /\ UNCHANGED <<latest, sess>>
    BY <1>6 DEF ExitStep, OutputDone, Recheck, SendExit, Clean, LetGo,
                DecCount, ReleaseSlot, sessionVars
  <2>3. \A k \in Launches : at'[k] \in ReplacedStages => at'[k] = at[k]
    BY <2>1
  <2>4. HandlerIsLatest'
    <3> SUFFICES ASSUME NEW k \in Launches
                 PROVE  /\ at'[k] \in ReplacedStages => latest[sess[k]] = k
                        /\ at'[k] \in EmptyStages => cur'[sess[k]] = None
      BY <2>2
    <3> QED
      BY <2>2, <2>3
  <2>5. CurIsStored'
    <3>1. \A k \in Launches :
            at[k] \in StoredStages \union {"done"}
              => at'[k] \in StoredStages \union {"done"}
      BY <2>1
    <3> QED
      BY <2>2, <3>1
  <2>6. SessionIsLatest'
    BY <2>2
  <2> QED
    BY <2>4, <2>5, <2>6
<1>7. ASSUME NEW j \in Launches, RestArrives(j) \/ RestStep(j)
      PROVE  SessionLinks'
  <2>1. UNCHANGED <<cur, latest, sess>>
    BY <1>7 DEF RestStep, RestArrives, RestQueueEnds, RestCreates,
                RestRemoves, sessionVars
  <2>2. /\ at[j] \in {"unused", "restQueued"} \union RestStages
        /\ \E stage \in {"restQueued", "done", "release"} \union RestStages :
             at' = [at EXCEPT ![j] = stage]
    BY <1>7 DEF RestStep, RestArrives, RestQueueEnds, RestCreates,
                RestRemoves, RestStages
  <2>3. /\ \A k \in Launches :
             at'[k] \in ReplacedStages => at[k] = at'[k]
        /\ \A k \in Launches :
             at[k] \in StoredStages \union {"done"}
               => at'[k] \in StoredStages \union {"done"}
    BY <2>2 DEF RestStages
  <2>4. HandlerIsLatest'
    BY <2>1, <2>3
  <2>5. CurIsStored'
    BY <2>1, <2>3
  <2>6. SessionIsLatest'
    BY <2>1
  <2> QED
    BY <2>4, <2>5, <2>6
<1>8. ASSUME NEW j \in Launches,
             StreamEnds(j) \/ TimerFires(j) \/ TimerBody(j) \/ Reap(j)
      PROVE  SessionLinks'
  <2>1. UNCHANGED <<at, sess, cur, latest>>
    BY <1>8 DEF StreamEnds, TimerFires, TimerBody, KillRun, KillShell,
                CancelShell, Reap, sessionVars
  <2> QED
    BY <2>1
<1>9. CASE Stall \/ Resume \/ UNCHANGED vars
  BY <1>9 DEF Stall, Resume, vars, sessionVars
<1> QED
  BY <1>1, <1>2, <1>3, <1>4, <1>5, <1>6, <1>7, <1>8, <1>9 DEF Next

-----------------------------------------------------------------------------
(* Removal never brings a container to life, and the container that is     *)
(* removed is not live afterwards, Docker willing or not.                  *)
LEMMA RemoveKills ==
  ASSUME TypeOK, NEW j, Remove(j)
  PROVE  \A k \in Launches : ctr'[k] = "live" => ctr[k] = "live" /\ k # j
<1>1. PICK outcome \in {"gone", "stray"} :
        ctr' = [ctr EXCEPT ![j] =
                  IF ctr[j] \in {"live", "stray"} THEN outcome ELSE ctr[j]]
  BY DEF Remove
<1> SUFFICES ASSUME NEW k \in Launches, ctr'[k] = "live"
             PROVE  ctr[k] = "live" /\ k # j
  OBVIOUS
<1>2. CASE k = j
  BY <1>1, <1>2 DEF TypeOK
<1>3. CASE k # j
  BY <1>1, <1>3 DEF TypeOK
<1> QED
  BY <1>2, <1>3

LEMMA LetGoKills ==
  ASSUME TypeOK, SessionIsLatest, NEW s \in Sessions, LetGo(s)
  PROVE  \A k \in Launches :
           ctr'[k] = "live" /\ cur[sess[k]] = k
             => ctr[k] = "live" /\ cur'[sess[k]] = k
<1>1. CASE cur[s] = None
  BY <1>1 DEF LetGo, dockerVars, TypeOK
<1>2. CASE cur[s] # None
  <2>1. \A k \in Launches : ctr'[k] = "live" => ctr[k] = "live" /\ k # cur[s]
    BY <1>2, RemoveKills DEF LetGo
  <2> QED
    BY <2>1 DEF LetGo, TypeOK
<1> QED
  BY <1>1, <1>2

LEMMA LiveStep == IInv /\ [Next]_vars => LiveIsKept'
<1> SUFFICES ASSUME IInv, [Next]_vars PROVE LiveIsKept'
  OBVIOUS
<1> USE SessionsAssumption
    DEF IInv, TypeOK, LiveIsKept, KeptStages, Goto
<1>1. ASSUME NEW s \in Sessions, NEW j \in Launches,
             HandleRun(s, j) \/ HandleShell(s, j)
      PROVE  LiveIsKept'
  BY <1>1 DEF HandleRun, HandleShell, dockerVars
<1>2. ASSUME NEW s \in Sessions, Untrack(s) PROVE LiveIsKept'
  BY <1>2 DEF Untrack, dockerVars
<1>3. ASSUME NEW s \in Sessions, Close(s) PROVE LiveIsKept'
  <2>1. LetGo(s) /\ UNCHANGED <<at, sess>>
    BY <1>3 DEF Close
  <2>2. \A k \in Launches : ctr'[k] = "live" => ctr[k] = "live"
    BY <2>1, RemoveKills DEF LetGo, dockerVars
  <2> QED
    BY <2>1, <2>2, LetGoKills
<1>4. ASSUME NEW j \in Launches, Evict(j) PROVE LiveIsKept'
  <2>1. CASE EvictRemove(j)
    BY <2>1, RemoveKills DEF EvictRemove, sessionVars
  <2>2. CASE EvictCheck(j) \/ EvictPick(j) \/ EvictForget(j) \/ EvictDec(j)
             \/ Retry(j)
    BY <2>2 DEF EvictCheck, EvictPick, EvictForget, EvictDec, Retry, Return,
                sessionVars, dockerVars
  <2> QED
    BY <1>4, <2>1, <2>2 DEF Evict
<1>5. ASSUME NEW j \in Launches, LaunchStep(j) PROVE LiveIsKept'
  <2>1. CASE Replace(j)
    <3>1. LetGo(sess[j]) /\ sess[j] \in Sessions /\ UNCHANGED sess
      BY <2>1 DEF Replace, OneHandler, HandlerStages, EntryStages
    <3>2. \A k \in Launches : ctr'[k] = "live" => ctr[k] = "live"
      BY <3>1, RemoveKills DEF LetGo, dockerVars
    <3> QED
      BY <2>1, <3>1, <3>2, LetGoKills DEF Replace
  <2>2. CASE Acquire(j) \/ QueueTakes(j) \/ QueueTimesOut(j) \/ Refund(j)
             \/ SendError(j) \/ GiveBack(j)
    BY <2>2 DEF Acquire, QueueTakes, QueueTimesOut, Refund, SendError,
                GiveBack, Return, sessionVars, dockerVars
  <2>3. CASE CreateSucceeds(j) \/ CreateFails(j)
    BY <2>3 DEF CreateSucceeds, CreateFails, sessionVars
  <2>4. CASE Store(j)
    <3>1. sess[j] \in Sessions /\ cur[sess[j]] = None
      BY <2>4 DEF Store, OneHandler, HandlerIsLatest, HandlerStages,
                  CreateStages, EmptyStages
    <3> QED
      BY <2>4, <3>1 DEF Store, dockerVars
  <2>5. CASE Track(j) \/ Spawn(j)
    BY <2>5 DEF Track, Spawn, sessionVars, dockerVars
  <2> QED
    BY <1>5, <2>1, <2>2, <2>3, <2>4, <2>5 DEF LaunchStep
<1>6. ASSUME NEW j \in Launches, ExitStep(j) PROVE LiveIsKept'
  <2>0. at[j] \in ExitStages \ {"release"} => sess[j] \in Sessions
    BY DEF Kinds
  <2>1. CASE OutputDone(j)
    BY <2>0, <2>1 DEF OutputDone, IsCurrent, SessionIsLatest, ExitStages,
                      sessionVars, dockerVars
  <2>2. CASE Recheck(j)
    BY <2>0, <2>2 DEF Recheck, SessionIsLatest, ExitStages, sessionVars,
                      dockerVars
  <2>3. CASE SendExit(j) \/ DecCount(j) \/ ReleaseSlot(j)
    BY <2>3 DEF SendExit, DecCount, ReleaseSlot, sessionVars, dockerVars
  <2>4. CASE Clean(j)
    <3>1. sess[j] \in Sessions /\ at[j] = "clean" /\ UNCHANGED sess
      BY <2>0, <2>4 DEF Clean, ExitStages
    <3>2. CASE IsCurrent(j)
      <4>1. LetGo(sess[j]) /\ cur[sess[j]] = j
        BY <2>4, <3>1, <3>2 DEF Clean, IsCurrent, SessionIsLatest
      <4>2. \A k \in Launches : ctr'[k] = "live" => ctr[k] = "live" /\ k # j
        BY <4>1, <3>1, RemoveKills DEF LetGo
      <4> QED
        BY <2>4, <3>1, <4>1, <4>2, LetGoKills DEF Clean
    <3>3. CASE ~IsCurrent(j)
      <4>1. ctr[j] # "live"
        BY <3>1, <3>3 DEF IsCurrent, SessionIsLatest
      <4> QED
        BY <2>4, <3>1, <3>3, <4>1 DEF Clean, dockerVars
    <3> QED
      BY <3>2, <3>3
  <2> QED
    BY <1>6, <2>1, <2>2, <2>3, <2>4 DEF ExitStep
<1>7. ASSUME NEW j \in Launches, RestArrives(j) \/ RestStep(j)
      PROVE  LiveIsKept'
  <2>1. CASE RestRemoves(j)
    BY <2>1, RemoveKills DEF RestRemoves, sessionVars
  <2>2. CASE RestArrives(j) \/ RestQueueEnds(j) \/ RestCreates(j)
    BY <2>2 DEF RestArrives, RestQueueEnds, RestCreates, sessionVars,
                dockerVars
  <2> QED
    BY <1>7, <2>1, <2>2 DEF RestStep
<1>8. ASSUME NEW j \in Launches,
             StreamEnds(j) \/ TimerFires(j) \/ TimerBody(j) \/ Reap(j)
      PROVE  LiveIsKept'
  BY <1>8 DEF StreamEnds, TimerFires, TimerBody, KillRun, KillShell,
              CancelShell, Reap, sessionVars, dockerVars
<1>9. CASE Stall \/ Resume \/ UNCHANGED vars
  BY <1>9 DEF Stall, Resume, vars, sessionVars, dockerVars
<1> QED
  BY <1>1, <1>2, <1>3, <1>4, <1>5, <1>6, <1>7, <1>8, <1>9 DEF Next

-----------------------------------------------------------------------------
(* st.timedOut and the verdicts drawn from it.                             *)
Verdicts == TimedOutIsOwn /\ TimeoutIsOwn

LEMMA VerdictsStep == IInv /\ [Next]_vars => Verdicts'
<1> SUFFICES ASSUME IInv, [Next]_vars PROVE Verdicts'
  OBVIOUS
<1> USE SessionsAssumption
    DEF IInv, TypeOK, Verdicts, TimedOutIsOwn, TimeoutIsOwn, HandlerStages,
        EntryStages, EvictStages, CreateStages, Goto, Launches
<1>1. ASSUME NEW s \in Sessions, NEW j \in Launches,
             HandleRun(s, j) \/ HandleShell(s, j)
      PROVE  Verdicts'
  BY <1>1 DEF HandleRun, HandleShell, timerVars
<1>2. ASSUME NEW s \in Sessions, Untrack(s) \/ Close(s) PROVE Verdicts'
  BY <1>2 DEF Untrack, Close, timerVars
<1>3. ASSUME NEW j \in Launches, Evict(j) PROVE Verdicts'
  <2>1. /\ at[j] \in EvictStages /\ UNCHANGED <<latest, timedOut, timerVars>>
        /\ \E stage \in EvictStages \union {"replace", "sendError"} :
              at' = [at EXCEPT ![j] = stage]
    BY <1>3 DEF Evict, EvictCheck, EvictPick, EvictRemove, EvictForget,
                EvictDec, Retry, Return, sessionVars
  <2> QED
    BY <2>1 DEF timerVars
<1>4. ASSUME NEW j \in Launches, LaunchStep(j) PROVE Verdicts'
  <2>1. CASE Replace(j)
    <3>1. sess[j] \in Sessions
      BY <2>1 DEF Replace, OneHandler
    <3>2. /\ latest' = [latest EXCEPT ![sess[j]] = j]
          /\ timedOut' = [timedOut EXCEPT ![sess[j]] =
                            timedOut[sess[j]] /\ j \notin Runs]
          /\ at' = [at EXCEPT ![j] = "acquire"] /\ at[j] = "replace"
          /\ UNCHANGED timerVars
      BY <2>1 DEF Replace
    <3> QED
      BY <3>1, <3>2 DEF timerVars
  <2>2. CASE Spawn(j)
    <3>1. /\ at[j] = "spawn"
          /\ timer' = [timer EXCEPT ![j] =
                         IF j \in Runs THEN "armed" ELSE timer[j]]
          /\ at' = [at EXCEPT ![j] = "wait"]
          /\ UNCHANGED <<latest, timedOut, verdict>>
      BY <2>2 DEF Spawn
    <3>2. (j \in Runs => timer[j] = "off") /\ ~verdict[j]
      BY <3>1
    <3> QED
      BY <3>1, <3>2
  <2>3. CASE \/ Acquire(j) \/ QueueTakes(j) \/ QueueTimesOut(j) \/ Refund(j)
             \/ SendError(j) \/ CreateSucceeds(j) \/ CreateFails(j)
             \/ GiveBack(j) \/ Track(j)
    <3>1. /\ at[j] \in HandlerStages \ {"spawn"}
          /\ UNCHANGED <<latest, timedOut, timerVars>>
          /\ \E stage \in HandlerStages \union {"done"} :
                at' = [at EXCEPT ![j] = stage]
      BY <2>3 DEF Acquire, QueueTakes, QueueTimesOut, Refund, SendError,
                  CreateSucceeds, CreateFails, GiveBack, Track, Return,
                  sessionVars
    <3> QED
      BY <3>1 DEF timerVars
  <2>4. CASE Store(j)
    <3>1. /\ at[j] = "store" /\ UNCHANGED <<latest, timedOut, verdict>>
          /\ timer' = [timer EXCEPT ![j] =
                         IF j \in Shells THEN "armed" ELSE timer[j]]
          /\ at' = [at EXCEPT ![j] =
                      IF j \in Runs THEN "track" ELSE "spawn"]
          /\ j \notin Requests
      BY <2>4 DEF Store, Kinds
    <3> QED
      BY <3>1
  <2> QED
    BY <1>4, <2>1, <2>2, <2>3, <2>4 DEF LaunchStep
<1>5. ASSUME NEW j \in Launches, ExitStep(j) PROVE Verdicts'
  <2>1. CASE OutputDone(j)
    <3>1. UNCHANGED <<latest, timedOut>>
          /\ \E stage \in ExitStages : at' = [at EXCEPT ![j] = stage]
      BY <2>1 DEF OutputDone, ExitStages, sessionVars
    <3>2. \A k \in Launches : timer'[k] = "hit" <=> timer[k] = "hit"
      BY <2>1 DEF OutputDone
    <3>3. CASE IsCurrent(j) /\ j \in Runs
      <4>1. sess[j] \in Sessions /\ latest[sess[j]] = j
        BY <2>1, <3>3 DEF OutputDone, IsCurrent, Kinds, ExitStages
      <4>2. /\ verdict' = [verdict EXCEPT ![j] = timedOut[sess[j]]]
            /\ timer' = [timer EXCEPT ![j] =
                           IF timer[j] = "armed" THEN "off" ELSE timer[j]]
        BY <2>1, <3>3 DEF OutputDone
      <4>3. TimeoutIsOwn'
        BY <3>2, <3>3, <4>1, <4>2
      <4>4. TimedOutIsOwn'
        BY <2>1, <3>1, <3>2, <4>2 DEF OutputDone, ExitStages
      <4> QED
        BY <4>3, <4>4
    <3>4. CASE ~(IsCurrent(j) /\ j \in Runs)
      <4>1. /\ UNCHANGED verdict
            /\ timer' = [timer EXCEPT ![j] =
                           IF timer[j] = "armed" THEN "off" ELSE timer[j]]
        BY <2>1, <3>4 DEF OutputDone
      <4> QED
        BY <2>1, <3>1, <3>2, <4>1 DEF OutputDone, ExitStages
    <3> QED
      BY <3>3, <3>4
  <2>2. CASE \/ Recheck(j) \/ SendExit(j) \/ Clean(j) \/ DecCount(j)
             \/ ReleaseSlot(j)
    <3>1. UNCHANGED <<latest, timedOut, timerVars>>
          /\ \E stage \in ExitStages \union {"done"} :
                at' = [at EXCEPT ![j] = stage]
      BY <2>2 DEF Recheck, SendExit, Clean, DecCount, ReleaseSlot,
                  ExitStages, sessionVars
    <3> QED
      BY <3>1 DEF timerVars, ExitStages
  <2> QED
    BY <1>5, <2>1, <2>2 DEF ExitStep
<1>6. ASSUME NEW j \in Launches, RestArrives(j) \/ RestStep(j)
      PROVE  Verdicts'
  <2>1. UNCHANGED <<latest, timedOut, timerVars>>
        /\ \E stage \in {"restQueued", "restCreate", "restServe", "release",
                         "done"} :
              at' = [at EXCEPT ![j] = stage]
    BY <1>6 DEF RestStep, RestArrives, RestQueueEnds, RestCreates,
                RestRemoves, sessionVars
  <2> QED
    BY <2>1 DEF timerVars
<1>7. ASSUME NEW j \in Launches, KillRun(j) PROVE Verdicts'
  <2>1. at[j] \notin HandlerStages \union {"unused"} /\ UNCHANGED at
    BY <1>7 DEF KillRun
  <2>2. CASE IsCurrent(j)
    <3>1. /\ timedOut' = [timedOut EXCEPT ![sess[j]] = TRUE]
          /\ timer' = [timer EXCEPT ![j] = "hit"]
          /\ UNCHANGED <<latest, verdict>>
      BY <1>7, <2>2 DEF KillRun
    <3> QED
      BY <2>1, <2>2, <3>1 DEF IsCurrent
  <2>3. CASE ~IsCurrent(j)
    <3>1. /\ timer[j] = "fired" /\ timer' = [timer EXCEPT ![j] = "off"]
          /\ UNCHANGED <<timedOut, latest, verdict>>
      BY <1>7, <2>3 DEF KillRun
    <3> QED
      BY <2>1, <3>1
  <2> QED
    BY <2>2, <2>3
<1>8. ASSUME NEW j \in Launches,
             \/ StreamEnds(j) \/ TimerFires(j) \/ KillShell(j)
             \/ CancelShell(j) \/ Reap(j)
      PROVE  Verdicts'
  BY <1>8 DEF StreamEnds, TimerFires, KillShell, CancelShell, Reap,
              sessionVars, timerVars
<1>9. CASE Stall \/ Resume \/ UNCHANGED vars
  BY <1>9 DEF Stall, Resume, vars, sessionVars, timerVars
<1> QED
  BY <1>1, <1>2, <1>3, <1>4, <1>5, <1>6, <1>7, <1>8, <1>9
     DEF Next, TimerBody

-----------------------------------------------------------------------------
LEMMA InvInit == Init => IInv
<1> SUFFICES ASSUME Init PROVE IInv
  OBVIOUS
<1>1. SlotHolders = {}
  BY DEF Init, SlotHolders, HoldingStages, CreateStages, ExitStages,
         RestStages
<1>2. SlotAccounting
  BY <1>1, FS_EmptySet, SessionsAssumption DEF Init, SlotAccounting
<1>3. TypeOK
  BY DEF Init, TypeOK, Stages
<1>4. /\ OneHandler /\ HandlerIsLatest /\ Kinds /\ CurIsStored
      /\ SessionIsLatest /\ LiveIsKept
  BY DEF Init, OneHandler, HandlerIsLatest, Kinds, CurIsStored,
         SessionIsLatest, LiveIsKept, HandlerStages, ReplacedStages,
         EmptyStages, EntryStages, EvictStages, CreateStages, ExitStages,
         RestStages
<1>5. TimedOutIsOwn /\ TimeoutIsOwn
  BY DEF Init, TimedOutIsOwn, TimeoutIsOwn, Launches
<1> QED
  BY <1>2, <1>3, <1>4, <1>5 DEF IInv

LEMMA InvStep == IInv /\ [Next]_vars => IInv'
BY TypeStep, SlotStep, OneHandlerStep, KindsStep, SessionLinksStep, LiveStep,
   VerdictsStep
   DEF IInv, SessionLinks, Verdicts

(* The invariant everything below follows from.                            *)
THEOREM SessionsInvariant == Spec => []IInv
BY InvInit, InvStep, PTL DEF Spec

(* Types: no counter or user count goes below zero, although evictions and *)
(* exit goroutines both subtract the same run.                             *)
THEOREM SessionsTypeCorrect == Spec => []TypeOK
<1>1. IInv => TypeOK
  BY DEF IInv
<1> QED
  BY <1>1, SessionsInvariant, PTL

(* Whatever the interleaving of sessions, requests, timers, evictions and  *)
(* failures, the semaphore's counter is the number of goroutines that      *)
(* still owe a Release.                                                    *)
THEOREM SlotsAreAccounted == Spec => []SlotAccounting
<1>1. IInv => SlotAccounting
  BY DEF IInv
<1> QED
  BY <1>1, SessionsInvariant, PTL

(* No container is left behind by the goroutines in charge of it.          *)
THEOREM ContainersAreKept == Spec => []NoContainerLeak
<1>1. IInv => NoContainerLeak
  BY DEF IInv, LiveIsKept, NoContainerLeak, KeptStages
<1> QED
  BY <1>1, SessionsInvariant, PTL

(* Never more containers than slots: each live container has a goroutine   *)
(* of its own that holds one.                                              *)
THEOREM ContainersAreLimited == Spec => []ContainersWithinMax
<1>1. IInv => ContainersWithinMax
  <2> SUFFICES ASSUME IInv PROVE ContainersWithinMax
    OBVIOUS
  <2> DEFINE Live == {j \in Launches : ctr[j] = "live"}
  <2>1. Live \subseteq SlotHolders
    BY DEF IInv, LiveIsKept, KeptStages, SlotHolders, HoldingStages,
           CreateStages, ExitStages, RestStages
  <2>2. /\ IsFiniteSet(SlotHolders) /\ Cardinality(SlotHolders) \in Nat
        /\ current = Cardinality(SlotHolders) /\ current <= MaxConcurrent
    BY HoldersFinite DEF IInv, SlotAccounting
  <2>3. IsFiniteSet(Live) /\ Cardinality(Live) <= Cardinality(SlotHolders)
    BY <2>1, <2>2, FS_Subset
  <2>4. Cardinality(Live) \in Nat
    BY <2>3, FS_CardinalityType
  <2> QED
    BY <2>2, <2>3, <2>4, SessionsAssumption DEF ContainersWithinMax
<1> QED
  BY <1>1, SessionsInvariant, PTL

(* st.session and st.generation never disagree about which launch is the   *)
(* session's.                                                              *)
THEOREM SessionsPointToLatest == Spec => []SessionIsLatest
<1>1. IInv => SessionIsLatest
  BY DEF IInv
<1> QED
  BY <1>1, SessionsInvariant, PTL

(* A run is never reported as timed out for an earlier run's timer.        *)
THEOREM TimeoutsAreOwn == Spec => []TimeoutIsOwn
<1>1. IInv => TimeoutIsOwn
  BY DEF IInv
<1> QED
  BY <1>1, SessionsInvariant, PTL

-----------------------------------------------------------------------------
(* A step of a launch's timer or of the last part of its exit goroutine    *)
(* leaves every other launch's container alone.                            *)
KillsOnlyOwn ==
  \A j, k \in Launches :
    (j # k /\ (timer'[j] # timer[j] \/ (at[j] = "clean" /\ at'[j] # "clean")))
      => ctr'[k] = ctr[k] /\ stream'[k] = stream[k]

LEMMA RemoveOne ==
  ASSUME TypeOK, NEW j, Remove(j)
  PROVE  \A k \in Launches : k # j => ctr'[k] = ctr[k]
BY DEF Remove, TypeOK

LEMMA KillsOnlyOwnStep == IInv /\ [Next]_vars => KillsOnlyOwn
<1> SUFFICES ASSUME IInv, [Next]_vars PROVE KillsOnlyOwn
  OBVIOUS
<1> USE DEF IInv, TypeOK, KillsOnlyOwn, Goto
<1>0. UNCHANGED dockerVars => KillsOnlyOwn
  BY DEF dockerVars
<1>1. ASSUME NEW i \in Launches, UNCHANGED timerVars,
             at[i] # "clean", NEW stage, at' = [at EXCEPT ![i] = stage]
      PROVE  KillsOnlyOwn
  BY <1>1 DEF timerVars
<1>2. ASSUME UNCHANGED <<at, timerVars>> PROVE KillsOnlyOwn
  BY <1>2 DEF timerVars
<1>3. ASSUME NEW i \in Launches, Clean(i) PROVE KillsOnlyOwn
  <2>1. CASE IsCurrent(i)
    <3>1. sess[i] \in Sessions
      BY <1>3 DEF Clean, Kinds, ExitStages
    <3>2. LetGo(sess[i]) /\ cur[sess[i]] = i /\ cur[sess[i]] # None
      BY <1>3, <2>1, <3>1 DEF Clean, IsCurrent, SessionIsLatest
    <3>3. Remove(i) /\ stream' = [stream EXCEPT ![i] = FALSE]
      BY <3>2 DEF LetGo
    <3>4. \A k \in Launches :
            k # i => ctr'[k] = ctr[k] /\ stream'[k] = stream[k]
      BY <3>3, RemoveOne
    <3>5. \A j \in Launches : j # i => at'[j] = at[j] /\ timer'[j] = timer[j]
      BY <1>3 DEF Clean, timerVars
    <3> QED
      BY <3>4, <3>5
  <2>2. CASE ~IsCurrent(i)
    BY <1>0, <1>3, <2>2 DEF Clean
  <2> QED
    BY <2>1, <2>2
<1>4. ASSUME NEW i \in Launches, TimerBody(i) PROVE KillsOnlyOwn
  <2>1. /\ UNCHANGED <<at, ctr>>
        /\ \A j \in Launches : j # i => timer'[j] = timer[j]
    <3>1. CASE KillRun(i)
      BY <3>1 DEF KillRun
    <3>2. CASE KillShell(i)
      BY <3>2 DEF KillShell, dockerVars
    <3>3. CASE CancelShell(i)
      BY <3>3 DEF CancelShell
    <3> QED
      BY <1>4, <3>1, <3>2, <3>3 DEF TimerBody
  <2>2. IsCurrent(i) => cur[sess[i]] = i
    <3>1. timer[i] # "off"
      BY <1>4 DEF TimerBody, KillRun, KillShell, CancelShell
    <3>2. at[i] \notin RestStages \union {"restQueued", "unused"}
          => sess[i] \in Sessions \/ at[i] \in {"release", "done"}
      BY DEF Kinds, OneHandler, HandlerStages, Stages, HoldingStages
    <3>3. i \in Runs \/ i \in Shells
      BY <1>4 DEF TimerBody, KillRun, KillShell, CancelShell
    <3>4. i \notin Requests
      BY <3>3, SessionsAssumption
    <3>5. sess[i] \in Sessions
      BY <3>1, <3>2, <3>4 DEF Kinds, TimedOutIsOwn, ExitStages
    <3> QED
      BY <3>5 DEF IsCurrent, SessionIsLatest
  <2>3. \A k \in Launches : k # i => stream'[k] = stream[k]
    <3>1. CASE KillRun(i)
      BY <3>1, <2>2 DEF KillRun
    <3>2. CASE KillShell(i)
      BY <3>2 DEF KillShell, dockerVars
    <3>3. CASE CancelShell(i)
      BY <3>3 DEF CancelShell
    <3> QED
      BY <1>4, <3>1, <3>2, <3>3 DEF TimerBody
  <2> QED
    BY <2>1, <2>3
<1>5. ASSUME NEW s \in Sessions, NEW j \in Launches,
             HandleRun(s, j) \/ HandleShell(s, j)
      PROVE  KillsOnlyOwn
  BY <1>0, <1>5 DEF HandleRun, HandleShell
<1>6. ASSUME NEW s \in Sessions, Untrack(s) \/ Close(s) PROVE KillsOnlyOwn
  BY <1>2, <1>6 DEF Untrack, Close
<1>7. ASSUME NEW j \in Launches, Evict(j) PROVE KillsOnlyOwn
  BY <1>1, <1>7 DEF Evict, EvictCheck, EvictPick, EvictRemove, EvictForget,
                    EvictDec, Retry, Return
<1>8. ASSUME NEW j \in Launches, LaunchStep(j) PROVE KillsOnlyOwn
  <2>1. CASE Replace(j) \/ CreateSucceeds(j) \/ CreateFails(j)
    BY <1>1, <2>1 DEF Replace, CreateSucceeds, CreateFails
  <2>2. CASE \/ Acquire(j) \/ QueueTakes(j) \/ QueueTimesOut(j) \/ Refund(j)
             \/ SendError(j) \/ GiveBack(j) \/ Store(j) \/ Track(j) \/ Spawn(j)
    BY <1>0, <2>2 DEF Acquire, QueueTakes, QueueTimesOut, Refund, SendError,
                      GiveBack, Store, Track, Spawn
  <2> QED
    BY <1>8, <2>1, <2>2 DEF LaunchStep
<1>9. ASSUME NEW j \in Launches, ExitStep(j) PROVE KillsOnlyOwn
  BY <1>0, <1>3, <1>9 DEF ExitStep, OutputDone, Recheck, SendExit, DecCount,
                          ReleaseSlot
<1>10. ASSUME NEW j \in Launches, RestArrives(j) \/ RestStep(j)
       PROVE  KillsOnlyOwn
  BY <1>1, <1>10 DEF RestStep, RestArrives, RestQueueEnds, RestCreates,
                     RestRemoves
<1>11. ASSUME NEW j \in Launches, StreamEnds(j) \/ TimerFires(j) \/ Reap(j)
       PROVE  KillsOnlyOwn
  BY <1>0, <1>2, <1>11 DEF StreamEnds, TimerFires, Reap
<1>12. CASE Stall \/ Resume \/ UNCHANGED vars
  BY <1>0, <1>12 DEF Stall, Resume, vars
<1> QED
  BY <1>4, <1>5, <1>6, <1>7, <1>8, <1>9, <1>10, <1>11, <1>12 DEF Next

(* "prevents stale goroutines from killing new sessions": for every number *)
(* of launches and every order of their timers and exits.                  *)
THEOREM StaleGoroutinesKillNothing == Spec => StaleKillsNothing
<1>1. IInv /\ [Next]_vars => [KillsOnlyOwn]_vars
  BY KillsOnlyOwnStep
<1>2. Spec => [][KillsOnlyOwn]_vars
  BY <1>1, SessionsInvariant, PTL DEF Spec
<1> QED
  BY <1>2 DEF KillsOnlyOwn, StaleKillsNothing

-----------------------------------------------------------------------------
(* Sessions uses its slots as SlotPool prescribes.                         *)
LEMMA SlotsInit == Init => Slots!Init
BY DEF Init, Slots!Init, SlotHolders, Queued, HoldingStages, CreateStages,
       ExitStages, RestStages

(* A launch that moves from one side of the pool to the other, and what    *)
(* the pool calls it.                                                      *)
LEMMA SlotMoves ==
  ASSUME IInv, NEW j \in Launches, NEW stage, Goto(j, stage)
  PROVE
    /\ /\ at[j] \notin HoldingStages /\ stage \in HoldingStages /\ Free
       => Slots!Take(j)
    /\ /\ at[j] \notin HoldingStages /\ stage \in {"queued", "restQueued"}
       /\ at[j] \notin {"queued", "restQueued"} /\ ~Free
       => Slots!Queue(j)
    /\ /\ at[j] \in {"queued", "restQueued"} /\ ~Free
       /\ stage \notin HoldingStages \union {"queued", "restQueued"}
       => Slots!GiveUp(j)
    /\ /\ at[j] \in HoldingStages
       /\ stage \notin HoldingStages \union {"queued", "restQueued"}
       => Slots!Return(j)
    /\ /\ at[j] \in HoldingStages <=> stage \in HoldingStages
       /\ at[j] \notin {"queued", "restQueued"}
       /\ stage \notin {"queued", "restQueued"}
       => UNCHANGED Slots!vars
<1>0. Slots!Full <=> ~Free
  <2>1. Slots!Cardinality(SlotHolders) = Cardinality(SlotHolders)
    BY DEF Slots!Cardinality, Cardinality
  <2> QED
    BY <2>1, SessionsAssumption
       DEF Slots!Full, Free, IInv, SlotAccounting, TypeOK
<1>1. at' = [at EXCEPT ![j] = stage] /\ at \in [Launches -> Stages]
  BY DEF Goto, IInv, TypeOK
<1> QED
  BY <1>0, <1>1
     DEF SlotHolders, Queued, HoldingStages, CreateStages, ExitStages,
         RestStages, Slots!Take, Slots!Queue, Slots!GiveUp, Slots!Return,
         Slots!vars

LEMMA SlotsStep == IInv /\ [Next]_vars => [Slots!Next]_(Slots!vars)
<1> SUFFICES ASSUME IInv, [Next]_vars PROVE [Slots!Next]_(Slots!vars)
  OBVIOUS
<1> DEFINE PoolStep(j) == \/ Slots!Take(j) \/ Slots!Queue(j)
                          \/ Slots!GiveUp(j) \/ Slots!Return(j)
                          \/ UNCHANGED Slots!vars
<1>0. \A j \in Launches : PoolStep(j) => [Slots!Next]_(Slots!vars)
  BY DEF Slots!Next
<1>1. UNCHANGED at => UNCHANGED Slots!vars
  BY DEF Slots!vars, SlotHolders, Queued
<1> USE DEF HoldingStages, CreateStages, ExitStages, RestStages
<1>2. ASSUME NEW s \in Sessions, NEW j \in Launches,
             HandleRun(s, j) \/ HandleShell(s, j)
      PROVE  PoolStep(j)
  BY <1>2, SlotMoves DEF HandleRun, HandleShell
<1>3. ASSUME NEW s \in Sessions, Untrack(s) \/ Close(s)
      PROVE  UNCHANGED Slots!vars
  BY <1>1, <1>3 DEF Untrack, Close
<1>4. ASSUME NEW j \in Launches, Evict(j) PROVE PoolStep(j)
  BY <1>4, SlotMoves
     DEF Evict, EvictCheck, EvictPick, EvictRemove, EvictForget, EvictDec,
         Retry, Return
<1>5. ASSUME NEW j \in Launches, LaunchStep(j) PROVE PoolStep(j)
  <2>1. CASE \/ Acquire(j) \/ QueueTakes(j) \/ QueueTimesOut(j)
             \/ Refund(j) \/ SendError(j) \/ GiveBack(j)
    BY <2>1, SlotMoves
       DEF Acquire, QueueTakes, QueueTimesOut, Refund, SendError, GiveBack,
           Return
  <2>2. CASE \/ Replace(j) \/ CreateSucceeds(j) \/ CreateFails(j)
             \/ Store(j) \/ Track(j) \/ Spawn(j)
    BY <2>2, SlotMoves
       DEF Replace, CreateSucceeds, CreateFails, Store, Track, Spawn
  <2> QED
    BY <1>5, <2>1, <2>2 DEF LaunchStep
<1>6. ASSUME NEW j \in Launches, ExitStep(j) PROVE PoolStep(j)
  BY <1>6, SlotMoves
     DEF ExitStep, OutputDone, Recheck, SendExit, Clean, DecCount,
         ReleaseSlot
<1>7. ASSUME NEW j \in Launches, RestArrives(j) \/ RestStep(j)
      PROVE  PoolStep(j)
  BY <1>7, SlotMoves
     DEF RestStep, RestArrives, RestQueueEnds, RestCreates, RestRemoves
<1>8. ASSUME NEW j \in Launches,
             StreamEnds(j) \/ TimerFires(j) \/ TimerBody(j) \/ Reap(j)
      PROVE  UNCHANGED Slots!vars
  BY <1>1, <1>8
     DEF StreamEnds, TimerFires, TimerBody, KillRun, KillShell, CancelShell,
         Reap
<1>9. CASE Stall \/ Resume \/ UNCHANGED vars
  BY <1>1, <1>9 DEF Stall, Resume, vars
<1> QED
  BY <1>0, <1>2, <1>3, <1>4, <1>5, <1>6, <1>7, <1>8, <1>9 DEF Next

(* The handlers and the REST requests are clients of the abstract pool     *)
(* that Semaphore implements: no slot is used unowned, returned twice or   *)
(* asked for twice, and only a full pool makes a launch wait or turns it   *)
(* away.                                                                   *)
THEOREM SessionsUseSlotPool == Spec => UsesSlotPool
BY SlotsInit, SlotsStep, SessionsInvariant, PTL
   DEF Spec, UsesSlotPool, Slots!Spec

-----------------------------------------------------------------------------
(* The user's count against the runs that still owe it a subtraction. A    *)
(* step moves at most one run into or out of CountedStages.                *)
RunsOf(u) ==
  {j \in Launches : j \in Runs /\ at[j] \in CountedStages /\ User(j) = u}

(* Only runs are counted and tracked, so only they try to evict and give a *)
(* count back.                                                             *)
OnlyRunsCount ==
  \A j \in Launches :
    at[j] \in EvictStages \union {"track", "refund", "recheck", "dec"}
      => j \in Runs

LEMMA OnlyRunsCountStep == IInv /\ OnlyRunsCount /\ [Next]_vars => OnlyRunsCount'
<1> SUFFICES ASSUME IInv, OnlyRunsCount, [Next]_vars PROVE OnlyRunsCount'
  OBVIOUS
<1>0. TypeOK
  BY DEF IInv
<1> DEFINE Special == EvictStages \union {"track", "refund", "recheck", "dec"}
<1>1. ASSUME NEW j \in Launches, NEW stage, Goto(j, stage),
             stage \in Special => j \in Runs \/ at[j] \in Special
      PROVE  OnlyRunsCount'
  BY <1>0, <1>1 DEF OnlyRunsCount, Goto, TypeOK
<1>2. UNCHANGED at => OnlyRunsCount'
  BY DEF OnlyRunsCount
<1> USE DEF EvictStages
<1>3. ASSUME NEW s \in Sessions, NEW j \in Launches,
             HandleRun(s, j) \/ HandleShell(s, j)
      PROVE  OnlyRunsCount'
  BY <1>1, <1>3 DEF HandleRun, HandleShell
<1>4. ASSUME NEW s \in Sessions, Untrack(s) \/ Close(s) PROVE OnlyRunsCount'
  BY <1>2, <1>4 DEF Untrack, Close
<1>5. ASSUME NEW j \in Launches, Evict(j) PROVE OnlyRunsCount'
  BY <1>1, <1>5
     DEF Evict, EvictCheck, EvictPick, EvictRemove, EvictForget, EvictDec,
         Retry, Return
<1>6. ASSUME NEW j \in Launches, LaunchStep(j) PROVE OnlyRunsCount'
  BY <1>1, <1>6
     DEF LaunchStep, Replace, Acquire, QueueTakes, QueueTimesOut, Refund,
         SendError, CreateSucceeds, CreateFails, GiveBack, Store, Track,
         Spawn, Return
<1>7. ASSUME NEW j \in Launches, ExitStep(j) PROVE OnlyRunsCount'
  BY <1>1, <1>7
     DEF ExitStep, OutputDone, Recheck, SendExit, Clean, DecCount, ReleaseSlot
<1>8. ASSUME NEW j \in Launches, RestArrives(j) \/ RestStep(j)
      PROVE  OnlyRunsCount'
  BY <1>1, <1>8
     DEF RestArrives, RestStep, RestQueueEnds, RestCreates, RestRemoves
<1>9. ASSUME NEW j \in Launches,
             StreamEnds(j) \/ TimerFires(j) \/ TimerBody(j) \/ Reap(j)
      PROVE  OnlyRunsCount'
  BY <1>2, <1>9
     DEF StreamEnds, TimerFires, TimerBody, KillRun, KillShell, CancelShell,
         Reap
<1>10. CASE Stall \/ Resume \/ UNCHANGED vars
  BY <1>2, <1>10 DEF Stall, Resume, vars
<1> QED
  BY <1>3, <1>4, <1>5, <1>6, <1>7, <1>8, <1>9, <1>10 DEF Next

LEMMA RunsOfFinite ==
  ASSUME NEW u
  PROVE  IsFiniteSet(RunsOf(u)) /\ IsFiniteSet(RunsOf(u)')
<1>1. IsFiniteSet(Launches)
  BY SessionsAssumption, FS_Union DEF Launches
<1>2. RunsOf(u) \in SUBSET Launches /\ RunsOf(u)' \in SUBSET Launches
  BY DEF RunsOf
<1> QED
  BY <1>1, <1>2, FS_Subset

LEMMA NobodyLeaves ==
  ASSUME TypeOK, NoLockout, count' \in [Users -> Nat],
         \A u \in Users : count'[u] <= count[u] /\ RunsOf(u) \subseteq RunsOf(u)'
  PROVE  NoLockout'
<1> SUFFICES ASSUME NEW u \in Users
             PROVE  count'[u] <= Cardinality(RunsOf(u)')
  BY DEF NoLockout, RunsOf
<1>1. /\ Cardinality(RunsOf(u)) <= Cardinality(RunsOf(u)')
      /\ Cardinality(RunsOf(u)) \in Nat /\ Cardinality(RunsOf(u)') \in Nat
  BY RunsOfFinite, FS_Subset, FS_CardinalityType
<1>2. count[u] <= Cardinality(RunsOf(u)) /\ count[u] \in Nat /\ count'[u] \in Nat
  BY DEF NoLockout, RunsOf, TypeOK
<1> QED
  BY <1>1, <1>2

LEMMA OneJoins ==
  ASSUME TypeOK, NoLockout, NEW j \in Launches, NEW u \in Users, Inc(u),
         RunsOf(u)' = RunsOf(u) \union {j}, j \notin RunsOf(u),
         \A v \in Users : RunsOf(v) \subseteq RunsOf(v)'
  PROVE  NoLockout'
<1> SUFFICES ASSUME NEW v \in Users
             PROVE  count'[v] <= Cardinality(RunsOf(v)')
  BY DEF NoLockout, RunsOf
<1>1. /\ Cardinality(RunsOf(v)) <= Cardinality(RunsOf(v)')
      /\ Cardinality(RunsOf(v)) \in Nat /\ Cardinality(RunsOf(v)') \in Nat
  BY RunsOfFinite, FS_Subset, FS_CardinalityType
<1>2. count[v] <= Cardinality(RunsOf(v)) /\ count[v] \in Nat
  BY DEF NoLockout, RunsOf, TypeOK
<1>3. v = u => Cardinality(RunsOf(v)') = Cardinality(RunsOf(v)) + 1
  <2>1. ASSUME NEW S, NEW T, IsFiniteSet(S), T = S \union {j}, j \notin S
        PROVE  Cardinality(T) = Cardinality(S) + 1
    BY <2>1, FS_AddElement
  <2> QED
    BY <2>1, RunsOfFinite
<1>4. count'[v] = IF v = u THEN count[v] + 1 ELSE count[v]
  BY DEF Inc, TypeOK
<1> QED
  BY <1>1, <1>2, <1>3, <1>4

LEMMA OneLeaves ==
  ASSUME TypeOK, NoLockout, NEW j \in Launches, NEW u \in Users, Dec(u),
         RunsOf(u)' = RunsOf(u) \ {j}, j \in RunsOf(u),
         \A v \in Users : v # u => RunsOf(v) \subseteq RunsOf(v)'
  PROVE  NoLockout'
<1> SUFFICES ASSUME NEW v \in Users
             PROVE  count'[v] <= Cardinality(RunsOf(v)')
  BY DEF NoLockout, RunsOf
<1>1. /\ v # u => Cardinality(RunsOf(v)) <= Cardinality(RunsOf(v)')
      /\ Cardinality(RunsOf(v)) \in Nat /\ Cardinality(RunsOf(v)') \in Nat
  BY RunsOfFinite, FS_Subset, FS_CardinalityType
<1>2. count[v] <= Cardinality(RunsOf(v)) /\ count[v] \in Nat
  BY DEF NoLockout, RunsOf, TypeOK
<1>3. v = u => Cardinality(RunsOf(v)') = Cardinality(RunsOf(v)) - 1
  <2>1. ASSUME NEW S, NEW T, IsFiniteSet(S), T = S \ {j}, j \in S
        PROVE  Cardinality(T) = Cardinality(S) - 1
    BY <2>1, FS_RemoveElement
  <2> QED
    BY <2>1, RunsOfFinite
<1>4. count'[v] = IF v = u /\ count[v] > 0 THEN count[v] - 1 ELSE count[v]
  BY DEF Dec, TypeOK
<1> QED
  BY <1>1, <1>2, <1>3, <1>4


(* What Goto does to the sets, by the side of CountedStages it moves to.   *)
LEMMA RunsMove ==
  ASSUME TypeOK, NEW j \in Launches, NEW stage, Goto(j, stage),
         UNCHANGED sess, NEW u
  PROVE
    /\ \/ j \notin Runs \/ at[j] \notin CountedStages
       \/ stage \in CountedStages \/ u # User(j)
       => RunsOf(u) \subseteq RunsOf(u)'
    /\ /\ j \in Runs /\ u = User(j)
       /\ at[j] \notin CountedStages /\ stage \in CountedStages
       => RunsOf(u)' = RunsOf(u) \union {j} /\ j \notin RunsOf(u)
    /\ /\ j \in Runs /\ u = User(j)
       /\ at[j] \in CountedStages /\ stage \notin CountedStages
       => RunsOf(u)' = RunsOf(u) \ {j} /\ j \in RunsOf(u)
<1>1. /\ at'[j] = stage
      /\ \A k \in Launches : k # j => at'[k] = at[k]
      /\ \A k \in Launches : User(k)' = User(k)
  BY DEF Goto, TypeOK, User
<1>2. \A k \in Launches :
        /\ k \in RunsOf(u)
             <=> k \in Runs /\ at[k] \in CountedStages /\ User(k) = u
        /\ k \in RunsOf(u)'
             <=> k \in Runs /\ at'[k] \in CountedStages /\ User(k) = u
  BY <1>1 DEF RunsOf
<1>3. RunsOf(u) \subseteq Launches /\ RunsOf(u)' \subseteq Launches
  BY DEF RunsOf
<1> HIDE DEF Goto
<1> QED
  BY <1>1, <1>2, <1>3

LEMMA NoLockoutStep ==
  IInv /\ OnlyRunsCount /\ NoLockout /\ [Next]_vars => NoLockout'
<1> SUFFICES ASSUME IInv, OnlyRunsCount, NoLockout, [Next]_vars
             PROVE  NoLockout'
  OBVIOUS
<1>t. TypeOK
  BY DEF IInv
<1>u. \A j \in Launches : at[j] \in HandlerStages \union (ExitStages \ {"release"})
        => sess[j] \in Sessions /\ User(j) \in Users
  BY SessionsAssumption
     DEF IInv, OneHandler, Kinds, HandlerStages, User, ExitStages, Launches
<1>c. UNCHANGED count =>
        count' \in [Users -> Nat] /\ \A u \in Users : count'[u] <= count[u]
  BY <1>t DEF TypeOK
<1> USE DEF CountedStages, EntryStages, EvictStages, CreateStages, ExitStages,
            RestStages, HandlerStages
<1>1. ASSUME NEW s \in Sessions, NEW j \in Launches,
             HandleRun(s, j) \/ HandleShell(s, j)
      PROVE  NoLockout'
  <2>1. /\ at[j] = "unused" /\ sess' = [sess EXCEPT ![j] = s]
        /\ at' \in [Launches -> Stages]
        /\ \A k \in Launches : k # j => at'[k] = at[k] /\ User(k)' = User(k)
        /\ User(j)' = UserOf[s]
        /\ UserOf[s] \in Users
    BY <1>1, <1>t, SessionsAssumption
       DEF HandleRun, HandleShell, Goto, TypeOK, User, Stages
  <2>2. \A u : RunsOf(u) \subseteq RunsOf(u)'
    BY <2>1 DEF RunsOf
  <2>3. CASE UNCHANGED count
    BY <2>2, <2>3, <1>c, <1>t, NobodyLeaves
  <2>4. CASE j \in Runs /\ Inc(UserOf[s]) /\ Goto(j, "replace")
    <3>1. /\ RunsOf(UserOf[s])' = RunsOf(UserOf[s]) \union {j}
          /\ j \notin RunsOf(UserOf[s])
      BY <2>1, <2>4, <1>t DEF RunsOf, Goto, TypeOK
    <3> QED
      BY <3>1, <2>1, <2>2, <2>4, <1>t, OneJoins
  <2> QED
    BY <1>1, <2>3, <2>4 DEF HandleRun, HandleShell, userVars
<1>2. ASSUME UNCHANGED <<at, sess, count>> PROVE NoLockout'
  BY <1>2 DEF NoLockout, User
<1>3. ASSUME NEW j \in Launches, NEW stage, Goto(j, stage), UNCHANGED sess,
             UNCHANGED count,
             \/ j \notin Runs \/ at[j] \notin CountedStages
             \/ stage \in CountedStages
      PROVE  NoLockout'
  BY <1>3, <1>t, <1>c, RunsMove, NobodyLeaves
<1>4. ASSUME NEW j \in Launches, NEW stage, Goto(j, stage), UNCHANGED sess,
             j \in Runs, at[j] \in CountedStages, stage \notin CountedStages,
             NEW u, u = User(j), Dec(u)
      PROVE  NoLockout'
  <2>1. u \in Users
    BY <1>4, <1>u
  <2>2. /\ RunsOf(u)' = RunsOf(u) \ {j} /\ j \in RunsOf(u)
        /\ \A v \in Users : v # u => RunsOf(v) \subseteq RunsOf(v)'
    BY <1>4, <1>t, RunsMove
  <2> QED
    BY <1>4, <2>1, <2>2, <1>t, OneLeaves
<1>5. ASSUME NEW j \in Launches, Evict(j) PROVE NoLockout'
  <2>1. CASE EvictDec(j)
    <3>1. PICK u \in Users :
            count' = [count EXCEPT ![u] = IF @ > 0 THEN @ - 1 ELSE 0]
      BY <2>1, <1>u DEF EvictDec, Dec
    <3>2. count \in [Users -> Nat]
      BY <1>t DEF TypeOK
    <3>3. count' \in [Users -> Nat]
      BY <3>1, <3>2
    <3>4. \A v \in Users : count'[v] <= count[v]
      BY <3>1, <3>2
    <3>5. \A v \in Users : RunsOf(v) \subseteq RunsOf(v)'
      BY <2>1, <1>t, RunsMove DEF EvictDec
    <3> QED
      BY <3>3, <3>4, <3>5, <1>t, NobodyLeaves
  <2>2. CASE Retry(j) /\ Inc(User(j)) /\ Goto(j, "replace")
    <3>1. User(j) \in Users /\ j \in Runs
      BY <2>2, <1>u DEF Retry, OnlyRunsCount
    <3>2. PICK u \in Users : u = User(j) /\ Inc(u)
      BY <2>2, <3>1
    <3>3. /\ RunsOf(u)' = RunsOf(u) \union {j} /\ j \notin RunsOf(u)
          /\ \A v \in Users : RunsOf(v) \subseteq RunsOf(v)'
      BY <2>2, <3>1, <3>2, <1>t, RunsMove DEF Retry
    <3> QED
      BY <3>2, <3>3, <1>t, OneJoins
  <2> QED
    BY <1>5, <2>1, <2>2, <1>3
       DEF Evict, EvictCheck, EvictPick, EvictRemove, EvictForget, Retry,
           Return, userVars
<1>6. ASSUME NEW j \in Launches, LaunchStep(j) PROVE NoLockout'
  <2>1. CASE Refund(j)
    <3>1. j \in Runs
      BY <2>1 DEF Refund, OnlyRunsCount
    <3> QED
      BY <2>1, <3>1, <1>4 DEF Refund
  <2>2. CASE QueueTimesOut(j) \/ GiveBack(j) \/ SendError(j)
    BY <2>2, <1>3, SessionsAssumption
       DEF QueueTimesOut, GiveBack, SendError, Return, userVars
  <2> QED
    BY <1>6, <2>1, <2>2, <1>3
       DEF LaunchStep, Replace, Acquire, QueueTakes, CreateSucceeds,
           CreateFails, Store, Track, Spawn, userVars
<1>7. ASSUME NEW j \in Launches, ExitStep(j) PROVE NoLockout'
  <2>1. CASE DecCount(j)
    <3>1. j \in Runs
      BY <2>1 DEF DecCount, OnlyRunsCount
    <3> QED
      BY <2>1, <3>1, <1>4 DEF DecCount
  <2> QED
    BY <1>7, <2>1, <1>3
       DEF ExitStep, OutputDone, Recheck, SendExit, Clean, ReleaseSlot,
           userVars
<1>8. ASSUME NEW j \in Launches, RestArrives(j) \/ RestStep(j)
      PROVE  NoLockout'
  BY <1>8, <1>3
     DEF RestStep, RestArrives, RestQueueEnds, RestCreates, RestRemoves,
         userVars
<1>9. ASSUME NEW j \in Launches,
             StreamEnds(j) \/ TimerFires(j) \/ TimerBody(j) \/ Reap(j)
      PROVE  NoLockout'
  BY <1>9, <1>2
     DEF StreamEnds, TimerFires, TimerBody, KillRun, KillShell, CancelShell,
         Reap, userVars
<1>10. ASSUME NEW s \in Sessions, Untrack(s) \/ Close(s) PROVE NoLockout'
  BY <1>10, <1>2 DEF Untrack, Close, userVars
<1>11. CASE Stall \/ Resume \/ UNCHANGED vars
  BY <1>11, <1>2 DEF Stall, Resume, vars, userVars
<1> QED
  BY <1>1, <1>5, <1>6, <1>7, <1>8, <1>9, <1>10, <1>11 DEF Next

(* For any users and any interleaving, refusals, failed creations and      *)
(* evictions included, no count is left behind that could lock a user out. *)
THEOREM NobodyIsLockedOut == Spec => []NoLockout
<1>1. Init => NoLockout
  <2> SUFFICES ASSUME Init, NEW u \in Users
               PROVE  count[u] <= Cardinality(RunsOf(u))
    BY DEF NoLockout, RunsOf
  <2>1. Cardinality(RunsOf(u)) \in Nat
    BY RunsOfFinite, FS_CardinalityType
  <2> QED
    BY <2>1 DEF Init
<1>2. Init => OnlyRunsCount
  BY DEF Init, OnlyRunsCount, EvictStages
<1> QED
  BY <1>1, <1>2, OnlyRunsCountStep, NoLockoutStep, SessionsInvariant, PTL
     DEF Spec

-----------------------------------------------------------------------------
(* The output of a program. A stream that is open belongs to a launch that *)
(* is about to be stored, or is st.session of its connection, where a      *)
(* replacement, a timer or the end of the connection finds it.             *)
StreamsAreHeld ==
  \A j \in Launches :
    stream[j] =>
      \/ at[j] = "store"
      \/ /\ at[j] \in {"track", "spawn", "wait"}
         /\ sess[j] \in Sessions
         /\ cur[sess[j]] = j

(* A run whose output somebody waits for has a timer that will end it.     *)
RunsAreTimed ==
  \A j \in Runs :
    at[j] = "wait" /\ stream[j] => timer[j] \in {"armed", "fired"}

Outputs == StreamsAreHeld /\ RunsAreTimed

(* A step that opens no stream and leaves the launches of the open ones    *)
(* where they are.                                                         *)
LEMMA OutputsKept ==
  ASSUME Outputs,
         \A k \in Launches :
           stream'[k] =>
             /\ stream[k] /\ at'[k] = at[k] /\ sess'[k] = sess[k]
             /\ timer'[k] = timer[k]
             /\ cur[sess[k]] = k => cur'[sess[k]] = k
  PROVE  Outputs'
BY DEF Outputs, StreamsAreHeld, RunsAreTimed, Launches

LEMMA LetGoCloses ==
  ASSUME TypeOK, NEW s \in Sessions, LetGo(s)
  PROVE  \A k \in Launches :
           stream'[k] =>
             stream[k] /\ (sess[k] \in Sessions /\ cur[sess[k]] = k
                             => cur'[sess[k]] = k)
<1>1. CASE cur[s] = None
  BY <1>1, SessionsAssumption DEF LetGo, dockerVars, TypeOK
<1>2. CASE cur[s] # None
  BY <1>2 DEF LetGo, TypeOK
<1> QED
  BY <1>1, <1>2

LEMMA OutputsStep == IInv /\ Outputs /\ [Next]_vars => Outputs'
<1> SUFFICES ASSUME IInv, Outputs, [Next]_vars PROVE Outputs'
  OBVIOUS
<1>t. TypeOK
  BY DEF IInv
<1>h. \A j \in Launches :
        stream[j] => /\ at[j] \in {"store", "track", "spawn", "wait"}
                     /\ at[j] # "store" => sess[j] \in Sessions
  BY DEF Outputs, StreamsAreHeld
<1>1. ASSUME NEW j \in Launches, NEW stage, at' = [at EXCEPT ![j] = stage],
             UNCHANGED <<cur, dockerVars, timer>>,
             at[j] \notin {"store", "track", "spawn", "wait"},
             \A k \in Launches : k # j => sess'[k] = sess[k]
      PROVE  Outputs'
  BY <1>1, <1>t, <1>h, OutputsKept DEF dockerVars, TypeOK
<1>2. ASSUME UNCHANGED <<at, sess, timer>>, UNCHANGED <<cur, dockerVars>>
      PROVE  Outputs'
  BY <1>2, OutputsKept DEF dockerVars
<1>3. ASSUME NEW s \in Sessions, NEW j \in Launches,
             HandleRun(s, j) \/ HandleShell(s, j)
      PROVE  Outputs'
  BY <1>1, <1>3, <1>t DEF HandleRun, HandleShell, Goto, timerVars, TypeOK
<1>4. ASSUME NEW s \in Sessions, Untrack(s) PROVE Outputs'
  BY <1>2, <1>4 DEF Untrack, timerVars
<1>5. ASSUME NEW s \in Sessions, LetGo(s), UNCHANGED <<sess, timer>>,
             \A k \in Launches : stream[k] => at'[k] = at[k]
      PROVE  Outputs'
  <2>1. \A k \in Launches :
          stream'[k] =>
            stream[k] /\ (sess[k] \in Sessions /\ cur[sess[k]] = k
                            => cur'[sess[k]] = k)
    BY <1>5, <1>t, LetGoCloses
  <2> QED
    BY <1>5, <2>1 DEF Outputs, StreamsAreHeld, RunsAreTimed, Launches
<1>6. ASSUME NEW s \in Sessions, Close(s) PROVE Outputs'
  BY <1>5, <1>6 DEF Close, timerVars
<1>7. ASSUME NEW j \in Launches, Evict(j) PROVE Outputs'
  <2>1. /\ at[j] \notin {"store", "track", "spawn", "wait"}
        /\ UNCHANGED <<sess, cur, stream, timer>>
        /\ \E stage : at' = [at EXCEPT ![j] = stage]
    BY <1>7 DEF Evict, EvictCheck, EvictPick, EvictRemove, EvictForget,
                EvictDec, Retry, Return, Goto, sessionVars, dockerVars,
                timerVars
  <2> QED
    BY <2>1, <1>t, <1>h, OutputsKept DEF TypeOK
<1>8. ASSUME NEW j \in Launches, LaunchStep(j) PROVE Outputs'
  <2>1. CASE Replace(j)
    <3>1. sess[j] \in Sessions
      BY <2>1 DEF Replace, IInv, OneHandler, HandlerStages, EntryStages
    <3>2. \A k \in Launches : stream[k] => at'[k] = at[k]
      BY <2>1, <1>t, <1>h DEF Replace, Goto, TypeOK
    <3> QED
      BY <2>1, <3>1, <3>2, <1>5 DEF Replace, timerVars
  <2>2. CASE \/ Acquire(j) \/ QueueTakes(j) \/ QueueTimesOut(j) \/ Refund(j)
             \/ SendError(j) \/ GiveBack(j)
    BY <2>2, <1>1 DEF Acquire, QueueTakes, QueueTimesOut, Refund, SendError,
                      GiveBack, Return, Goto, sessionVars, timerVars
  <2>3. CASE CreateSucceeds(j) \/ CreateFails(j)
    <3>1. /\ at[j] = "create" /\ UNCHANGED <<sess, cur, timer>>
          /\ \/ at'[j] = "store"
             \/ UNCHANGED stream
          /\ \A k \in Launches :
               k # j => at'[k] = at[k] /\ stream'[k] = stream[k]
      BY <2>3, <1>t DEF CreateSucceeds, CreateFails, Goto, sessionVars,
                        timerVars, TypeOK
    <3> QED
      BY <3>1, <1>h, SessionsAssumption
         DEF Outputs, StreamsAreHeld, RunsAreTimed, Launches
  <2>4. CASE Store(j)
    <3>1. sess[j] \in Sessions /\ cur[sess[j]] = None
      BY <2>4 DEF Store, IInv, OneHandler, HandlerIsLatest, HandlerStages,
                  CreateStages, EmptyStages
    <3>2. /\ at'[j] \in {"track", "spawn"} /\ cur'[sess[j]] = j
          /\ \A k \in Launches : k # j => at'[k] = at[k]
          /\ \A s \in Sessions : s # sess[j] => cur'[s] = cur[s]
          /\ \A k \in Launches : k # j => timer'[k] = timer[k]
          /\ UNCHANGED <<sess, stream>>
      BY <2>4, <3>1, <1>t DEF Store, Goto, dockerVars, TypeOK
    <3> QED
      BY <3>1, <3>2, SessionsAssumption
         DEF Outputs, StreamsAreHeld, RunsAreTimed, Launches
  <2>5. CASE Track(j)
    <3>1. /\ at[j] = "track" /\ at'[j] = "spawn"
          /\ \A k \in Launches : k # j => at'[k] = at[k]
          /\ UNCHANGED <<sess, cur, stream, timer>>
      BY <2>5, <1>t DEF Track, Goto, sessionVars, dockerVars, timerVars,
                        TypeOK
    <3> QED
      BY <3>1 DEF Outputs, StreamsAreHeld, RunsAreTimed, Launches
  <2>6. CASE Spawn(j)
    <3>1. /\ at[j] = "spawn" /\ at'[j] = "wait"
          /\ j \in Runs => timer'[j] = "armed"
          /\ \A k \in Launches :
               k # j => at'[k] = at[k] /\ timer'[k] = timer[k]
          /\ UNCHANGED <<sess, cur, stream>>
      BY <2>6, <1>t DEF Spawn, Goto, dockerVars, TypeOK
    <3> QED
      BY <3>1 DEF Outputs, StreamsAreHeld, RunsAreTimed, Launches
  <2> QED
    BY <1>8, <2>1, <2>2, <2>3, <2>4, <2>5, <2>6 DEF LaunchStep
<1>9. ASSUME NEW j \in Launches, ExitStep(j) PROVE Outputs'
  <2>1. CASE OutputDone(j)
    <3>1. /\ ~stream[j] /\ UNCHANGED <<sess, cur, stream>>
          /\ \A k \in Launches :
               k # j => at'[k] = at[k] /\ timer'[k] = timer[k]
      BY <2>1, <1>t DEF OutputDone, Goto, sessionVars, dockerVars, TypeOK
    <3> QED
      BY <3>1, OutputsKept
  <2>2. CASE Recheck(j) \/ SendExit(j) \/ DecCount(j) \/ ReleaseSlot(j)
    BY <2>2, <1>1 DEF Recheck, SendExit, DecCount, ReleaseSlot, Goto,
                      sessionVars, timerVars
  <2>3. CASE Clean(j)
    <3>1. \A k \in Launches : stream[k] => at'[k] = at[k]
      BY <2>3, <1>t, <1>h DEF Clean, Goto, TypeOK
    <3>2. CASE IsCurrent(j)
      <4>1. sess[j] \in Sessions
        BY <2>3 DEF Clean, IInv, Kinds, ExitStages
      <4> QED
        BY <2>3, <3>1, <3>2, <4>1, <1>5 DEF Clean, timerVars
    <3>3. CASE ~IsCurrent(j)
      BY <2>3, <3>1, <3>3, OutputsKept DEF Clean, dockerVars, timerVars
    <3> QED
      BY <3>2, <3>3
  <2> QED
    BY <1>9, <2>1, <2>2, <2>3 DEF ExitStep
<1>10. ASSUME NEW j \in Launches, RestArrives(j) \/ RestStep(j)
       PROVE  Outputs'
  <2>1. /\ at[j] \notin {"store", "track", "spawn", "wait"}
        /\ UNCHANGED <<sess, cur, stream, timer>>
        /\ \E stage : at' = [at EXCEPT ![j] = stage]
    BY <1>10 DEF RestArrives, RestStep, RestQueueEnds, RestCreates,
                 RestRemoves, Goto, sessionVars, dockerVars, timerVars
  <2> QED
    BY <2>1, <1>t, <1>h, OutputsKept DEF TypeOK
<1>11. ASSUME NEW j \in Launches, StreamEnds(j) \/ Reap(j) PROVE Outputs'
  BY <1>11, <1>t, OutputsKept DEF StreamEnds, Reap, sessionVars, timerVars,
                                  TypeOK
<1>12. ASSUME NEW j \in Launches, TimerFires(j) PROVE Outputs'
  <2>1. /\ timer[j] = "armed" /\ timer'[j] = "fired"
        /\ \A k \in Launches : k # j => timer'[k] = timer[k]
        /\ UNCHANGED <<sess, cur, at, stream>>
    BY <1>12, <1>t DEF TimerFires, sessionVars, dockerVars, TypeOK
  <2> QED
    BY <2>1 DEF Outputs, StreamsAreHeld, RunsAreTimed, Launches
<1>13. ASSUME NEW j \in Launches, TimerBody(j) PROVE Outputs'
  <2>1. /\ UNCHANGED <<sess, cur, at>>
        /\ \A k \in Launches : stream'[k] => stream[k]
        /\ \A k \in Launches : k # j => timer'[k] = timer[k]
    BY <1>13, <1>t DEF TimerBody, KillRun, KillShell, CancelShell,
                       sessionVars, dockerVars, TypeOK
  <2>2. j \in Runs /\ at[j] = "wait" => ~stream'[j]
    <3> SUFFICES ASSUME j \in Runs, at[j] = "wait", stream'[j] PROVE FALSE
      OBVIOUS
    <3>1. cur[sess[j]] = j /\ sess[j] \in Sessions
      BY <2>1 DEF Outputs, StreamsAreHeld
    <3>2. IsCurrent(j)
      BY <3>1, SessionsAssumption DEF IsCurrent, IInv, SessionIsLatest
    <3>3. KillRun(j)
      BY <1>13, SessionsAssumption DEF TimerBody, KillShell, CancelShell
    <3> QED
      BY <3>1, <3>2, <3>3, <1>t DEF KillRun, TypeOK
  <2>3. \A k \in Runs : at[k] = "wait" /\ stream'[k] => k # j
    BY <2>2
  <2>4. RunsAreTimed'
    BY <2>1, <2>3 DEF Outputs, RunsAreTimed, Launches
  <2> QED
    BY <2>1, <2>4 DEF Outputs, StreamsAreHeld
<1>14. CASE Stall \/ Resume \/ UNCHANGED vars
  BY <1>14, <1>2 DEF Stall, Resume, vars, sessionVars, timerVars
<1> QED
  BY <1>3, <1>4, <1>6, <1>7, <1>8, <1>9, <1>10, <1>11, <1>12, <1>13, <1>14
     DEF Next

LEMMA OutputsInvariant == Spec => [](IInv /\ Outputs)
<1>1. Init => Outputs
  BY DEF Init, Outputs, StreamsAreHeld, RunsAreTimed, Launches
<1> QED
  BY <1>1, InvInit, InvStep, OutputsStep, PTL DEF Spec

(* What the end of every run rests on (SlotReturned, which TLC checks):    *)
(* once its handler has told the client, and as long as its output is      *)
(* open, whatever replacements, evictions and other timers do, its own     *)
(* kill timer is still to come and will find it to be the session's. (In   *)
(* the send of "started" a run has no timer yet.)                          *)
THEOREM RunsEnd ==
  Spec => [](\A j \in Runs :
               at[j] = "wait" /\ stream[j]
                 => IsCurrent(j) /\ timer[j] \in {"armed", "fired"})
<1>1. IInv /\ Outputs =>
        \A j \in Runs :
          at[j] = "wait" /\ stream[j]
            => IsCurrent(j) /\ timer[j] \in {"armed", "fired"}
  BY SessionsAssumption
     DEF Outputs, StreamsAreHeld, RunsAreTimed, IInv, SessionIsLatest,
         IsCurrent, Launches
<1> QED
  BY <1>1, OutputsInvariant, PTL

-----------------------------------------------------------------------------
(* The end of a connection.                                                *)
ClosedForgets == \A s \in Sessions : pc[s] = "closed" => cur[s] = None

LEMMA ClosedStep == IInv /\ ClosedForgets /\ [Next]_vars => ClosedForgets'
<1> SUFFICES ASSUME IInv, ClosedForgets, [Next]_vars PROVE ClosedForgets'
  OBVIOUS
<1> USE DEF IInv, TypeOK, ClosedForgets
<1>1. ASSUME \A s \in Sessions : cur'[s] = cur[s] \/ cur'[s] = None,
             \A s \in Sessions : pc'[s] = "closed" => pc[s] = "closed"
      PROVE  ClosedForgets'
  BY <1>1
<1>2. ASSUME NEW s \in Sessions, NEW j \in Launches,
             HandleRun(s, j) \/ HandleShell(s, j)
      PROVE  ClosedForgets'
  BY <1>2 DEF HandleRun, HandleShell
<1>3. ASSUME NEW s \in Sessions, Untrack(s) \/ Close(s) PROVE ClosedForgets'
  BY <1>3 DEF Untrack, Close, LetGo
<1>4. ASSUME NEW j \in Launches, Evict(j) PROVE ClosedForgets'
  BY <1>1, <1>4 DEF Evict, EvictCheck, EvictPick, EvictRemove, EvictForget,
                    EvictDec, Retry, Return, sessionVars
<1>5. ASSUME NEW j \in Launches, LaunchStep(j) PROVE ClosedForgets'
  <2>1. CASE Store(j)
    <3>1. pc[sess[j]] = "launching" /\ UNCHANGED pc
          /\ cur' = [cur EXCEPT ![sess[j]] = j]
      BY <2>1 DEF Store, OneHandler, HandlerStages, CreateStages
    <3> QED
      BY <3>1
  <2>2. CASE Replace(j)
    BY <1>1, <2>2 DEF Replace, LetGo
  <2> QED
    BY <1>1, <1>5, <2>1, <2>2
       DEF LaunchStep, Acquire, QueueTakes, QueueTimesOut, Refund, SendError,
           Return, CreateSucceeds, CreateFails, GiveBack, Track, Spawn,
           sessionVars
<1>6. ASSUME NEW j \in Launches, ExitStep(j) PROVE ClosedForgets'
  BY <1>1, <1>6 DEF ExitStep, OutputDone, Recheck, SendExit, Clean, LetGo,
                    DecCount, ReleaseSlot, sessionVars
<1>7. ASSUME NEW j \in Launches, RestArrives(j) \/ RestStep(j)
      PROVE  ClosedForgets'
  BY <1>7 DEF RestArrives, RestStep, RestQueueEnds, RestCreates, RestRemoves,
              sessionVars
<1>8. ASSUME NEW j \in Launches,
             StreamEnds(j) \/ TimerFires(j) \/ TimerBody(j) \/ Reap(j)
      PROVE  ClosedForgets'
  BY <1>8 DEF StreamEnds, TimerFires, TimerBody, KillRun, KillShell,
              CancelShell, Reap, sessionVars
<1>9. CASE Stall \/ Resume \/ UNCHANGED vars
  BY <1>9 DEF Stall, Resume, vars, sessionVars
<1> QED
  BY <1>2, <1>3, <1>4, <1>5, <1>6, <1>7, <1>8, <1>9 DEF Next

(* Nothing of a closed connection runs on: whatever it started has lost    *)
(* its container and its stream, and only the exit goroutines are left,    *)
(* which have nothing to wait for (the safety half of ClosedSessionDrains).*)
ClosedIsLetGo ==
  \A s \in Sessions : pc[s] = "closed" =>
    /\ cur[s] = None
    /\ \A j \in Runs \union Shells :
         sess[j] = s /\ at[j] # "unused" =>
           /\ at[j] \in ExitStages \union {"done"}
           /\ ~stream[j]
           /\ ctr[j] # "live"

THEOREM ClosedConnectionsLetGo == Spec => []ClosedIsLetGo
<1>1. Init => ClosedForgets
  BY DEF Init, ClosedForgets
<1>2. IInv /\ Outputs /\ ClosedForgets => ClosedIsLetGo
  <2> SUFFICES ASSUME IInv, Outputs, ClosedForgets,
                      NEW s \in Sessions, pc[s] = "closed",
                      NEW j \in Runs \union Shells,
                      sess[j] = s, at[j] # "unused"
               PROVE  /\ at[j] \in ExitStages \union {"done"}
                      /\ ~stream[j]
                      /\ ctr[j] # "live"
    BY DEF ClosedIsLetGo, ClosedForgets
  <2>1. j \in Launches /\ j \notin Requests /\ cur[s] # j
    BY SessionsAssumption DEF Launches, ClosedForgets
  <2>2. at[j] \notin HandlerStages
    BY <2>1 DEF IInv, OneHandler
  <2>3. at[j] \notin RestStages \union {"restQueued"}
    BY <2>1 DEF IInv, Kinds
  <2>4. at[j] \in ExitStages \union {"done"}
    BY <2>1, <2>2, <2>3 DEF IInv, TypeOK, Stages, HandlerStages, HoldingStages
  <2>5. ~stream[j]
    BY <2>1, <2>2
       DEF Outputs, StreamsAreHeld, HandlerStages, CreateStages
  <2>6. ctr[j] # "live"
    BY <2>1, <2>2, <2>3
       DEF IInv, LiveIsKept, HandlerStages, CreateStages, RestStages
  <2> QED
    BY <2>4, <2>5, <2>6
<1> QED
  BY <1>1, <1>2, OutputsInvariant, ClosedStep, PTL DEF Spec

-----------------------------------------------------------------------------
(* Eviction. userRuns holds a run only from its tracking to the return of  *)
(* its own handler, by when it has been launched: the deferred             *)
(* deleteUserRun takes it out at once.                                     *)
TrackedInHandler ==
  \A k \in Launches :
    stamp[k] > 0 =>
      /\ k \in Runs
      /\ sess[k] \in Sessions
      /\ \/ at[k] = "spawn"
         \/ /\ at[k] \in ExitStages \union {"done"}
            /\ pc[sess[k]] = "untrack"
            /\ latest[sess[k]] = k

(* Whom a handler is about to evict.                                       *)
EvicteesAreOwn ==
  \A s \in Sessions :
    evictee[s] # None =>
      /\ evictee[s] \in Runs
      /\ at[evictee[s]] # "unused"
      /\ sess[evictee[s]] \in Sessions \ {s}
      /\ UserOf[sess[evictee[s]]] = UserOf[s]

Evictions == TrackedInHandler /\ EvicteesAreOwn

(* A step that tracks nothing, picks no one, and takes no handler back.    *)
LEMMA EvictionsKept ==
  ASSUME Evictions,
         UNCHANGED <<sess, evictee>>,
         \A k \in Launches : stamp'[k] > 0 => stamp[k] > 0,
         \A k \in Launches : at[k] # "unused" => at'[k] # "unused",
         \A k \in Launches :
           at[k] \in ExitStages \union {"done"}
             => at'[k] \in ExitStages \union {"done"},
         \A k \in Launches :
           at[k] = "spawn" => at'[k] = "spawn",
         \A s \in Sessions :
           pc[s] = "untrack" => pc'[s] = "untrack" /\ latest'[s] = latest[s]
  PROVE  Evictions'
BY DEF Evictions, TrackedInHandler, EvicteesAreOwn, Launches

LEMMA EvictionsStep ==
  IInv /\ OnlyRunsCount /\ Evictions /\ [Next]_vars => Evictions'
<1> SUFFICES ASSUME IInv, OnlyRunsCount, Evictions, [Next]_vars
             PROVE  Evictions'
  OBVIOUS
<1>t. TypeOK
  BY DEF IInv
<1>h. \A j \in Launches :
        at[j] \in HandlerStages
          => sess[j] \in Sessions /\ pc[sess[j]] = "launching"
  BY DEF IInv, OneHandler
<1>1. ASSUME NEW j \in Launches, NEW stage, at' = [at EXCEPT ![j] = stage],
             at[j] \in HandlerStages \ {"spawn"}, stage # "unused",
             UNCHANGED <<sess, evictee>>,
             \A k \in Launches : stamp'[k] > 0 => stamp[k] > 0,
             \A s \in Sessions :
               s # sess[j] => pc'[s] = pc[s] /\ latest'[s] = latest[s]
      PROVE  Evictions'
  <2>1. \A s \in Sessions :
          pc[s] = "untrack" => pc'[s] = "untrack" /\ latest'[s] = latest[s]
    BY <1>1, <1>h
  <2>2. at[j] \notin ExitStages \union {"done", "spawn"}
    BY <1>1 DEF HandlerStages, EntryStages, EvictStages, CreateStages,
                ExitStages
  <2> QED
    BY <1>1, <1>t, <2>1, <2>2, EvictionsKept DEF TypeOK
<1>2. ASSUME UNCHANGED <<at, sess, pc, latest, evictee, stamp>>
      PROVE  Evictions'
  BY <1>2, EvictionsKept
<1>3. ASSUME NEW s \in Sessions, NEW j \in Launches,
             HandleRun(s, j) \/ HandleShell(s, j)
      PROVE  Evictions'
  <2>1. /\ at[j] = "unused" /\ at'[j] \in {"replace", "evictCheck"}
        /\ \A k \in Launches : k # j => at'[k] = at[k] /\ sess'[k] = sess[k]
        /\ pc[s] = "idle"
        /\ \A r \in Sessions : r # s => pc'[r] = pc[r]
        /\ UNCHANGED <<latest, evictee, stamp>>
    BY <1>3, <1>t DEF HandleRun, HandleShell, Goto, userVars, TypeOK
  <2>2. TrackedInHandler'
    BY <2>1 DEF Evictions, TrackedInHandler, ExitStages
  <2>3. EvicteesAreOwn'
    BY <2>1 DEF Evictions, EvicteesAreOwn, Launches
  <2> QED
    BY <2>2, <2>3 DEF Evictions
<1>4. ASSUME NEW s \in Sessions, Untrack(s) PROVE Evictions'
  <2>1. /\ pc[s] = "untrack" /\ UNCHANGED <<at, sess, latest, evictee>>
        /\ \A r \in Sessions : r # s => pc'[r] = pc[r]
        /\ \A k \in Launches : k # latest[s] => stamp'[k] = stamp[k]
        /\ latest[s] \in Launches => stamp'[latest[s]] = 0
    BY <1>4, <1>t DEF Untrack, TypeOK
  <2> QED
    BY <2>1 DEF Evictions, TrackedInHandler, EvicteesAreOwn
<1>5. ASSUME NEW s \in Sessions, Close(s) PROVE Evictions'
  <2>1. /\ UNCHANGED <<at, sess, latest, evictee, stamp>> /\ pc[s] = "idle"
        /\ \A r \in Sessions : r # s => pc'[r] = pc[r]
    BY <1>5, <1>t DEF Close, userVars, TypeOK
  <2> QED
    BY <2>1, EvictionsKept
<1>6. ASSUME NEW j \in Launches, Evict(j) PROVE Evictions'
  <2>1. CASE EvictCheck(j) \/ EvictRemove(j) \/ EvictForget(j) \/ Retry(j)
    <3>1. \A k \in Launches : stamp'[k] > 0 => stamp[k] > 0
      BY <2>1, <1>t DEF EvictCheck, EvictRemove, EvictForget, Retry,
                        userVars, TypeOK
    <3>2. /\ UNCHANGED <<sess, evictee, latest>>
          /\ \A r \in Sessions : r # sess[j] => pc'[r] = pc[r]
      BY <2>1, <1>t DEF EvictCheck, EvictRemove, EvictForget, Retry, Return,
                        sessionVars, TypeOK
    <3>3. /\ at[j] \in HandlerStages \ {"spawn"}
          /\ \E stage \in {"evictPick", "retry", "evictForget", "evictDec",
                           "replace", "sendError"} :
               at' = [at EXCEPT ![j] = stage]
      BY <2>1 DEF EvictCheck, EvictRemove, EvictForget, Retry, Return, Goto,
                  HandlerStages, EntryStages, EvictStages
    <3> QED
      BY <3>1, <3>2, <3>3, <1>1
  <2>2. ASSUME EvictPick(j) \/ EvictDec(j),
               \/ evictee'[sess[j]] = None
               \/ /\ evictee'[sess[j]] \in Runs
                  /\ at[evictee'[sess[j]]] # "unused"
                  /\ sess[evictee'[sess[j]]] \in Sessions \ {sess[j]}
                  /\ UserOf[sess[evictee'[sess[j]]]] = UserOf[sess[j]]
        PROVE  Evictions'
    <3>1. /\ UNCHANGED <<sess, latest, stamp, pc>>
          /\ \A r \in Sessions : r # sess[j] => evictee'[r] = evictee[r]
      BY <2>2, <1>t DEF EvictPick, EvictDec, userVars, TypeOK
    <3>2. /\ at[j] \in {"evictPick", "evictDec"}
          /\ at'[j] \in {"retry", "evictRemove"}
          /\ \A k \in Launches : k # j => at'[k] = at[k]
      BY <2>2, <1>t DEF EvictPick, EvictDec, Goto, TypeOK
    <3>3. TrackedInHandler'
      BY <3>1, <3>2 DEF Evictions, TrackedInHandler, ExitStages
    <3>4. EvicteesAreOwn'
      BY <2>2, <3>1, <3>2 DEF Evictions, EvicteesAreOwn, Launches
    <3> QED
      BY <3>3, <3>4 DEF Evictions
  <2>3. CASE EvictDec(j)
    <3>1. sess[j] \in Sessions
      BY <2>3, <1>h DEF EvictDec, HandlerStages, EntryStages, EvictStages
    <3> QED
      BY <2>2, <2>3, <3>1, <1>t DEF EvictDec, TypeOK
  <2>4. CASE EvictPick(j)
    <3>1. /\ at[j] = "evictPick" /\ sess[j] \in Sessions
          /\ pc[sess[j]] = "launching"
      BY <2>4, <1>h DEF EvictPick, HandlerStages, EntryStages, EvictStages
    <3>2. CASE UNCHANGED evictee
      <4>1. evictee[sess[j]] = None \/
              /\ evictee[sess[j]] \in Runs
              /\ at[evictee[sess[j]]] # "unused"
              /\ sess[evictee[sess[j]]] \in Sessions \ {sess[j]}
              /\ UserOf[sess[evictee[sess[j]]]] = UserOf[sess[j]]
        BY <3>1 DEF Evictions, EvicteesAreOwn
      <4> QED
        BY <2>2, <2>4, <3>2, <4>1
    <3>3. ASSUME NEW oldest \in Tracked(User(j)),
                 evictee' = [evictee EXCEPT ![sess[j]] = oldest]
          PROVE  Evictions'
      <4>1. oldest \in Launches /\ stamp[oldest] > 0
            /\ UserOf[sess[oldest]] = UserOf[sess[j]]
        BY <3>3 DEF Tracked, User
      <4>2. oldest \in Runs /\ sess[oldest] \in Sessions
            /\ at[oldest] \in {"spawn", "done"} \union ExitStages
        BY <4>1 DEF Evictions, TrackedInHandler
      <4>3. sess[oldest] # sess[j]
        BY <4>1, <3>1
           DEF Evictions, TrackedInHandler, IInv, OneHandler, HandlerStages,
               EntryStages, EvictStages, CreateStages
      <4>4. evictee'[sess[j]] = oldest
        BY <3>1, <3>3, <1>t DEF TypeOK
      <4> QED
        BY <2>2, <2>4, <4>1, <4>2, <4>3, <4>4 DEF ExitStages
    <3> QED
      BY <2>4, <3>2, <3>3 DEF EvictPick
  <2> QED
    BY <1>6, <2>1, <2>3, <2>4 DEF Evict
<1>7. ASSUME NEW j \in Launches, LaunchStep(j) PROVE Evictions'
  <2>1. CASE \/ Replace(j) \/ Acquire(j) \/ QueueTakes(j) \/ QueueTimesOut(j)
             \/ Refund(j) \/ SendError(j) \/ CreateSucceeds(j)
             \/ CreateFails(j)
             \/ GiveBack(j) \/ Store(j)
    <3>1. /\ at[j] \in HandlerStages \ {"spawn"}
          /\ \E stage \in {"acquire", "create", "queued", "refund", "store",
                           "giveBack", "track", "spawn", "sendError",
                           "done"} :
               at' = [at EXCEPT ![j] = stage]
      BY <2>1 DEF Replace, Acquire, QueueTakes, QueueTimesOut, Refund,
                  SendError, CreateSucceeds, CreateFails, GiveBack, Store,
                  Return, Goto, HandlerStages, EntryStages, CreateStages
    <3>2. /\ UNCHANGED <<sess, evictee, stamp>>
          /\ \A r \in Sessions :
               r # sess[j] => pc'[r] = pc[r] /\ latest'[r] = latest[r]
      BY <2>1, <1>t
         DEF Replace, Acquire, QueueTakes, QueueTimesOut, Refund, SendError,
             CreateSucceeds, CreateFails, GiveBack, Store, Return,
             sessionVars, userVars, TypeOK
    <3> QED
      BY <3>1, <3>2, <1>1
  <2>2. CASE Track(j)
    <3>1. /\ j \in Runs /\ sess[j] \in Sessions
      BY <2>2, <1>h DEF Track, HandlerStages, CreateStages, OnlyRunsCount
    <3>2. /\ at[j] = "track" /\ at'[j] = "spawn"
          /\ \A k \in Launches :
               k # j => at'[k] = at[k] /\ stamp'[k] = stamp[k]
          /\ UNCHANGED <<sess, evictee, latest, pc>>
      BY <2>2, <1>t DEF Track, Goto, sessionVars, TypeOK
    <3>3. TrackedInHandler'
      BY <3>1, <3>2 DEF Evictions, TrackedInHandler, ExitStages
    <3>4. EvicteesAreOwn'
      BY <3>2 DEF Evictions, EvicteesAreOwn, Launches
    <3> QED
      BY <3>3, <3>4 DEF Evictions
  <2>3. CASE Spawn(j)
    <3>1. /\ at[j] = "spawn" /\ sess[j] \in Sessions
          /\ pc[sess[j]] = "launching" /\ latest[sess[j]] = j
      BY <2>3, <1>h
         DEF Spawn, HandlerStages, CreateStages, IInv, HandlerIsLatest,
             ReplacedStages
    <3>2. /\ at'[j] = "wait"
          /\ \A k \in Launches : k # j => at'[k] = at[k]
          /\ UNCHANGED <<sess, evictee, latest, stamp>>
          /\ \A r \in Sessions : r # sess[j] => pc'[r] = pc[r]
          /\ j \in Runs => pc'[sess[j]] = "untrack"
      BY <2>3, <3>1, <1>t DEF Spawn, Goto, userVars, TypeOK
    <3>3. TrackedInHandler'
      BY <3>1, <3>2 DEF Evictions, TrackedInHandler, ExitStages
    <3>4. EvicteesAreOwn'
      BY <3>2 DEF Evictions, EvicteesAreOwn, Launches
    <3> QED
      BY <3>3, <3>4 DEF Evictions
  <2> QED
    BY <1>7, <2>1, <2>2, <2>3 DEF LaunchStep
<1>8. ASSUME NEW j \in Launches, ExitStep(j) PROVE Evictions'
  <2>1. /\ at[j] \in ExitStages
        /\ \E stage \in ExitStages \union {"done"} :
             at' = [at EXCEPT ![j] = stage]
    BY <1>8 DEF ExitStep, OutputDone, Recheck, SendExit, Clean, DecCount,
                ReleaseSlot, ExitStages, Goto
  <2>2. UNCHANGED <<sess, evictee, pc, latest, stamp>>
    BY <1>8 DEF ExitStep, OutputDone, Recheck, SendExit, Clean, DecCount,
                ReleaseSlot, sessionVars, userVars
  <2> QED
    BY <2>1, <2>2, <1>t, EvictionsKept DEF TypeOK, ExitStages
<1>9. ASSUME NEW j \in Launches, RestArrives(j) \/ RestStep(j)
      PROVE  Evictions'
  <2>1. /\ at[j] \in {"unused", "restQueued"} \union RestStages
        /\ \E stage \in {"restQueued", "done", "release"} \union RestStages :
             at' = [at EXCEPT ![j] = stage]
    BY <1>9 DEF RestStep, RestArrives, RestQueueEnds, RestCreates,
                RestRemoves, RestStages, Goto
  <2>2. UNCHANGED <<sess, evictee, pc, latest, stamp>>
    BY <1>9 DEF RestStep, RestArrives, RestQueueEnds, RestCreates,
                RestRemoves, sessionVars, userVars
  <2> QED
    BY <2>1, <2>2, <1>t, EvictionsKept DEF TypeOK, ExitStages, RestStages
<1>10. ASSUME NEW j \in Launches,
              StreamEnds(j) \/ TimerFires(j) \/ TimerBody(j) \/ Reap(j)
       PROVE  Evictions'
  BY <1>10, <1>2 DEF StreamEnds, TimerFires, TimerBody, KillRun, KillShell,
                     CancelShell, Reap, sessionVars, userVars
<1>11. CASE Stall \/ Resume \/ UNCHANGED vars
  BY <1>11, <1>2 DEF Stall, Resume, vars, sessionVars, userVars
<1> QED
  BY <1>3, <1>4, <1>5, <1>6, <1>7, <1>8, <1>9, <1>10, <1>11 DEF Next

LEMMA EvictionsInvariant == Spec => [](IInv /\ Evictions)
<1>1. Init => Evictions /\ OnlyRunsCount
  BY DEF Init, Evictions, TrackedInHandler, EvicteesAreOwn, OnlyRunsCount,
         EvictStages
<1> QED
  BY <1>1, InvInit, InvStep, OnlyRunsCountStep, EvictionsStep, PTL DEF Spec

(* Why "your newest action always wins" fails (NewestActionWins): a run    *)
(* can be evicted only while its own handler is about to return, for any   *)
(* number of users, sessions and runs. One that has been running for a     *)
(* while is in no table.                                                   *)
THEOREM OnlyLaunchingRunsAreEvictable == Spec => []TrackedInHandler
<1>1. IInv /\ Evictions => TrackedInHandler
  BY DEF Evictions
<1> QED
  BY <1>1, EvictionsInvariant, PTL

(* The container an eviction removes is a run of the same user, on another *)
(* of the user's connections: between the choice and the removal, which    *)
(* take userRunsMu apart, it cannot become someone else's.                 *)
EvictsOwn ==
  \A j, k \in Launches :
    at[j] = "evictRemove" /\ at'[j] # "evictRemove" /\ ctr'[k] # ctr[k]
      => k \in Runs /\ User(k) = User(j) /\ sess[k] # sess[j]

THEOREM EvictionsHitOwnRuns == Spec => [][EvictsOwn]_vars
<1>1. IInv /\ Evictions /\ [Next]_vars => EvictsOwn
  <2> SUFFICES ASSUME IInv, Evictions, [Next]_vars,
                      NEW j \in Launches, NEW k \in Launches,
                      at[j] = "evictRemove", at'[j] # "evictRemove",
                      ctr'[k] # ctr[k]
               PROVE  k \in Runs /\ User(k) = User(j) /\ sess[k] # sess[j]
    BY DEF EvictsOwn
  <2>t. TypeOK
    BY DEF IInv
  <2>1. sess[j] \in Sessions
    BY DEF IInv, OneHandler, HandlerStages, EntryStages, EvictStages
  <2>2. ASSUME EvictRemove(j)
        PROVE  k \in Runs /\ User(k) = User(j) /\ sess[k] # sess[j]
    <3>1. k = evictee[sess[j]]
      BY <2>2, <2>t, RemoveOne DEF EvictRemove
    <3> QED
      BY <2>1, <3>1, SessionsAssumption
         DEF Evictions, EvicteesAreOwn, User, Launches
  <2>3. ASSUME NEW i \in Launches, i # j,
               NEW stage, at' = [at EXCEPT ![i] = stage]
        PROVE  FALSE
    BY <2>3
  <2>4. at' # at
    OBVIOUS
  <2>5. ASSUME NEW s \in Sessions, NEW i \in Launches,
               HandleRun(s, i) \/ HandleShell(s, i)
        PROVE  FALSE
    BY <2>5, <2>3 DEF HandleRun, HandleShell, Goto
  <2>6. ASSUME NEW s \in Sessions, Untrack(s) \/ Close(s) PROVE FALSE
    BY <2>4, <2>6 DEF Untrack, Close
  <2>7. ASSUME NEW i \in Launches, Evict(i) PROVE EvictRemove(j)
    <3>1. i = j
      BY <2>3, <2>7 DEF Evict, EvictCheck, EvictPick, EvictRemove,
                        EvictForget, EvictDec, Retry, Return, Goto
    <3> QED
      BY <2>7, <3>1 DEF Evict, EvictCheck, EvictPick, EvictForget, EvictDec,
                        Retry
  <2>8. ASSUME NEW i \in Launches, LaunchStep(i) PROVE FALSE
    <3>1. i = j
      BY <2>3, <2>8 DEF LaunchStep, Replace, Acquire, QueueTakes,
                        QueueTimesOut, Refund, SendError, CreateSucceeds,
                        CreateFails, GiveBack, Store, Track, Spawn, Return,
                        Goto
    <3> QED
      BY <2>8, <3>1 DEF LaunchStep, Replace, Acquire, QueueTakes,
                        QueueTimesOut, Refund, SendError, CreateSucceeds,
                        CreateFails, GiveBack, Store, Track, Spawn
  <2>9. ASSUME NEW i \in Launches, ExitStep(i) PROVE FALSE
    <3>1. i = j
      BY <2>3, <2>9 DEF ExitStep, OutputDone, Recheck, SendExit, Clean,
                        DecCount, ReleaseSlot, Goto
    <3> QED
      BY <2>9, <3>1 DEF ExitStep, OutputDone, Recheck, SendExit, Clean,
                        DecCount, ReleaseSlot
  <2>10. ASSUME NEW i \in Launches, RestArrives(i) \/ RestStep(i)
         PROVE  FALSE
    <3>1. i = j
      BY <2>3, <2>10 DEF RestArrives, RestStep, RestQueueEnds, RestCreates,
                         RestRemoves, Goto
    <3> QED
      BY <2>10, <3>1 DEF RestArrives, RestStep, RestQueueEnds, RestCreates,
                         RestRemoves
  <2>11. ASSUME NEW i \in Launches,
                StreamEnds(i) \/ TimerFires(i) \/ TimerBody(i) \/ Reap(i)
         PROVE  FALSE
    BY <2>4, <2>11 DEF StreamEnds, TimerFires, TimerBody, KillRun, KillShell,
                       CancelShell, Reap
  <2>12. ~(Stall \/ Resume \/ UNCHANGED vars)
    BY <2>4 DEF Stall, Resume, vars
  <2> QED
    BY <2>2, <2>5, <2>6, <2>7, <2>8, <2>9, <2>10, <2>11, <2>12 DEF Next
<1> QED
  BY <1>1, EvictionsInvariant, PTL DEF Spec

-----------------------------------------------------------------------------
(* Every goroutine has come to its end, whatever way each of them took.    *)
AtRest ==
  /\ \A j \in Launches : at[j] \in {"unused", "done"}
  /\ \A s \in Sessions : pc[s] # "untrack"

NothingIsOwed ==
  AtRest =>
    /\ current = 0
    /\ \A u \in Users : count[u] = 0
    /\ \A j \in Launches : ctr[j] # "live" /\ ~stream[j] /\ stamp[j] = 0

(* A server that has come to rest is as it was at the start: all slots are *)
(* free, no user is counted or tracked, and no container is alive, unless  *)
(* Docker refused to remove it.                                            *)
THEOREM RestLeavesNothing == Spec => []NothingIsOwed
<1>1. IInv /\ Outputs /\ Evictions /\ NoLockout => NothingIsOwed
  <2> SUFFICES ASSUME IInv, Outputs, Evictions, NoLockout, AtRest
               PROVE  /\ current = 0
                      /\ \A u \in Users : count[u] = 0
                      /\ \A j \in Launches :
                           ctr[j] # "live" /\ ~stream[j] /\ stamp[j] = 0
    BY DEF NothingIsOwed
  <2>t. TypeOK
    BY DEF IInv
  <2>1. SlotHolders = {}
    BY DEF AtRest, SlotHolders, HoldingStages, CreateStages, ExitStages,
           RestStages
  <2>2. current = 0
    BY <2>1, FS_EmptySet DEF IInv, SlotAccounting
  <2>3. ASSUME NEW u \in Users PROVE count[u] = 0
    <3>1. RunsOf(u) = {}
      BY DEF RunsOf, AtRest, CountedStages, EntryStages, EvictStages,
             CreateStages, ExitStages
    <3>2. count[u] <= Cardinality(RunsOf(u))
      BY DEF NoLockout, RunsOf
    <3>3. Cardinality(RunsOf(u)) = 0
      BY <3>1, FS_EmptySet
    <3>4. count[u] \in Nat
      BY <2>t DEF TypeOK
    <3> QED
      BY <3>2, <3>3, <3>4
  <2>4. ASSUME NEW j \in Launches
        PROVE  ctr[j] # "live" /\ ~stream[j] /\ stamp[j] = 0
    <3>1. ctr[j] # "live"
      BY DEF AtRest, IInv, LiveIsKept, KeptStages
    <3>2. ~stream[j]
      BY DEF AtRest, Outputs, StreamsAreHeld
    <3>3. ~(stamp[j] > 0)
      BY DEF AtRest, Evictions, TrackedInHandler
    <3>4. stamp[j] \in Nat
      BY <2>t DEF TypeOK
    <3> QED
      BY <3>1, <3>2, <3>3, <3>4
  <2> QED
    BY <2>2, <2>3, <2>4
<1> QED
  BY <1>1, OutputsInvariant, EvictionsInvariant, NobodyIsLockedOut, PTL

-----------------------------------------------------------------------------
(* Sessions keeps to Creation, which Containers implements call by call.   *)
AskingStages ==
  (EntryStages \ {"refund"}) \union {"unused", "create", "restQueued",
                                     "restCreate"}

Phase(j) ==
  IF at[j] \in KeptStages THEN "live"
  ELSE IF at[j] \in AskingStages THEN "asked" ELSE "over"

Atomic == INSTANCE Creation WITH phase <- [j \in Launches |-> Phase(j)]

ImplementsCreation == Atomic!Spec

(* There is no container before the call that creates it, and there is, or *)
(* was, one afterwards.                                                    *)
MadeOnce ==
  \A j \in Launches :
    /\ at[j] \in AskingStages => ctr[j] = "none"
    /\ at[j] \in KeptStages => ctr[j] # "none"

LEMMA StagesApart ==
  /\ AskingStages \intersect KeptStages = {}
  /\ {"giveBack", "refund", "sendError", "dec", "release", "done"}
       \intersect (AskingStages \union KeptStages) = {}
BY DEF AskingStages, KeptStages, EntryStages, EvictStages

(* One launch moves, and containers stay as they are but for its own.      *)
LEMMA MadeOnceKept ==
  ASSUME TypeOK, MadeOnce, NEW j \in Launches, NEW stage,
         at' = [at EXCEPT ![j] = stage],
         \A k \in Launches : k # j => (ctr'[k] = "none" <=> ctr[k] = "none"),
         stage \in AskingStages => ctr'[j] = "none",
         stage \in KeptStages => ctr'[j] # "none"
  PROVE  MadeOnce'
BY DEF MadeOnce, TypeOK

LEMMA MadeOnceUnmoved ==
  ASSUME MadeOnce, UNCHANGED at,
         \A k \in Launches : ctr'[k] = "none" <=> ctr[k] = "none"
  PROVE  MadeOnce'
BY DEF MadeOnce

(* A removal makes no container and unmakes none.                          *)
LEMMA RemoveKeeps ==
  ASSUME TypeOK, NEW j \in Launches, Remove(j)
  PROVE  /\ \A k \in Launches : ctr'[k] = "none" <=> ctr[k] = "none"
         /\ ctr[j] # "live" => ctr'[j] # "live"
         /\ ctr[j] \in {"none", "gone"} => ctr'[j] = ctr[j]
         /\ ctr[j] \in {"live", "stray"} => ctr'[j] \in {"gone", "stray"}
         /\ ctr' \in [Launches -> {"none", "live", "gone", "stray"}]
BY DEF Remove, TypeOK

LEMMA LetGoKeeps ==
  ASSUME TypeOK, NEW s \in Sessions, LetGo(s)
  PROVE  \A k \in Launches : ctr'[k] = "none" <=> ctr[k] = "none"
<1>1. CASE cur[s] = None
  BY <1>1 DEF LetGo, dockerVars
<1>2. CASE cur[s] # None
  <2>1. cur[s] \in Launches /\ Remove(cur[s])
    BY <1>2 DEF LetGo, TypeOK
  <2> QED
    BY <2>1, RemoveKeeps
<1> QED
  BY <1>1, <1>2

LEMMA MadeOnceStep == IInv /\ MadeOnce /\ [Next]_vars => MadeOnce'
<1> SUFFICES ASSUME IInv, MadeOnce, [Next]_vars PROVE MadeOnce'
  OBVIOUS
<1>t. TypeOK
  BY DEF IInv
<1> USE DEF Goto, Return
<1>1. ASSUME NEW j \in Launches, NEW stage,
             at' = [at EXCEPT ![j] = stage], UNCHANGED ctr,
             stage \in AskingStages => at[j] \in AskingStages,
             stage \in KeptStages => at[j] \in KeptStages
      PROVE  MadeOnce'
  <2>1. /\ at[j] \in AskingStages => ctr[j] = "none"
        /\ at[j] \in KeptStages => ctr[j] # "none"
    BY DEF MadeOnce
  <2> QED
    BY <1>1, <1>t, <2>1, MadeOnceKept
<1>2. ASSUME NEW s \in Sessions, NEW j \in Launches,
             HandleRun(s, j) \/ HandleShell(s, j)
      PROVE  MadeOnce'
  BY <1>1, <1>2
     DEF HandleRun, HandleShell, dockerVars, AskingStages, KeptStages,
         EntryStages, EvictStages
<1>3. ASSUME NEW s \in Sessions, Untrack(s) PROVE MadeOnce'
  BY <1>3, MadeOnceUnmoved DEF Untrack, dockerVars
<1>4. ASSUME NEW s \in Sessions, Close(s) PROVE MadeOnce'
  BY <1>4, <1>t, LetGoKeeps, MadeOnceUnmoved DEF Close
<1>5. ASSUME NEW j \in Launches, Evict(j) PROVE MadeOnce'
  <2>1. CASE EvictRemove(j)
    <3>1. sess[j] \in Sessions
      BY <2>1 DEF EvictRemove, IInv, OneHandler, HandlerStages, EntryStages,
                  EvictStages
    <3>2. \A k \in Launches : ctr'[k] = "none" <=> ctr[k] = "none"
      BY <2>1, <1>t DEF EvictRemove, Remove, TypeOK
    <3>3. at[j] \in AskingStages /\ "evictForget" \notin KeptStages
      BY <2>1 DEF EvictRemove, AskingStages, KeptStages, EntryStages,
                  EvictStages
    <3> QED
      BY <2>1, <3>2, <3>3, <1>t, MadeOnceKept DEF EvictRemove, MadeOnce
  <2>2. CASE \/ EvictCheck(j) \/ EvictPick(j) \/ EvictForget(j)
             \/ EvictDec(j) \/ Retry(j)
    BY <1>1, <2>2
       DEF EvictCheck, EvictPick, EvictForget, EvictDec, Retry, dockerVars,
           AskingStages, KeptStages, EntryStages, EvictStages
  <2> QED
    BY <1>5, <2>1, <2>2 DEF Evict
<1>6. ASSUME NEW j \in Launches, LaunchStep(j) PROVE MadeOnce'
  <2>1. CASE Replace(j)
    <3>1. sess[j] \in Sessions
      BY <2>1 DEF Replace, IInv, OneHandler, HandlerStages, EntryStages
    <3>2. \A k \in Launches : ctr'[k] = "none" <=> ctr[k] = "none"
      BY <2>1, <3>1, <1>t, LetGoKeeps DEF Replace
    <3>3. at[j] \in AskingStages /\ "acquire" \notin KeptStages
      BY <2>1 DEF Replace, AskingStages, KeptStages, EntryStages
    <3> QED
      BY <2>1, <3>2, <3>3, <1>t, MadeOnceKept DEF Replace, MadeOnce
  <2>2. CASE CreateSucceeds(j)
    <3>1. "store" \notin AskingStages /\ ctr'[j] = "live"
          /\ \A k \in Launches : k # j => ctr'[k] = ctr[k]
      BY <2>2, <1>t, StagesApart DEF CreateSucceeds, KeptStages, TypeOK
    <3> QED
      BY <2>2, <3>1, <1>t, MadeOnceKept DEF CreateSucceeds
  <2>3. CASE CreateFails(j)
    <3>1. "giveBack" \notin AskingStages \union KeptStages
          /\ \A k \in Launches : k # j => ctr'[k] = ctr[k]
      BY <2>3, <1>t, StagesApart DEF CreateFails, TypeOK
    <3> QED
      BY <2>3, <3>1, <1>t, MadeOnceKept DEF CreateFails
  <2>4. CASE \/ Acquire(j) \/ QueueTakes(j) \/ QueueTimesOut(j)
             \/ Refund(j) \/ SendError(j) \/ GiveBack(j) \/ Store(j)
             \/ Track(j) \/ Spawn(j)
    BY <1>1, <2>4
       DEF Acquire, QueueTakes, QueueTimesOut, Refund, SendError, GiveBack,
           Store, Track, Spawn, dockerVars, AskingStages, KeptStages,
           EntryStages, EvictStages
  <2> QED
    BY <1>6, <2>1, <2>2, <2>3, <2>4 DEF LaunchStep
<1>7. ASSUME NEW j \in Launches, ExitStep(j) PROVE MadeOnce'
  <2>1. CASE Clean(j)
    <3>1. sess[j] \in Sessions
      BY <2>1 DEF Clean, IInv, Kinds, ExitStages
    <3>2. \A k \in Launches : ctr'[k] = "none" <=> ctr[k] = "none"
      BY <2>1, <3>1, <1>t, LetGoKeeps DEF Clean, dockerVars
    <3> QED
      BY <2>1, <3>2, <1>t, StagesApart, MadeOnceKept DEF Clean
  <2>2. CASE \/ OutputDone(j) \/ Recheck(j) \/ SendExit(j)
             \/ DecCount(j) \/ ReleaseSlot(j)
    BY <1>1, <2>2
       DEF OutputDone, Recheck, SendExit, DecCount, ReleaseSlot, dockerVars,
           AskingStages, KeptStages, EntryStages, EvictStages
  <2> QED
    BY <1>7, <2>1, <2>2 DEF ExitStep
<1>8. ASSUME NEW j \in Launches, RestArrives(j) \/ RestStep(j)
      PROVE  MadeOnce'
  <2>1. CASE RestCreates(j)
    <3>1. /\ \A k \in Launches : k # j => ctr'[k] = ctr[k]
          /\ \/ ctr'[j] = "live" /\ at' = [at EXCEPT ![j] = "restServe"]
             \/ at' = [at EXCEPT ![j] = "release"]
      BY <2>1, <1>t DEF RestCreates, TypeOK
    <3>2. "restServe" \notin AskingStages
      BY StagesApart DEF KeptStages
    <3> QED
      BY <3>1, <3>2, <1>t, StagesApart, MadeOnceKept
  <2>2. CASE RestRemoves(j)
    <3>1. \A k \in Launches : ctr'[k] = "none" <=> ctr[k] = "none"
      BY <2>2, <1>t, RemoveKeeps DEF RestRemoves
    <3> QED
      BY <2>2, <3>1, <1>t, StagesApart, MadeOnceKept DEF RestRemoves
  <2>3. CASE RestArrives(j) \/ RestQueueEnds(j)
    BY <1>1, <2>3
       DEF RestArrives, RestQueueEnds, dockerVars, AskingStages, KeptStages,
           EntryStages, EvictStages
  <2> QED
    BY <1>8, <2>1, <2>2, <2>3 DEF RestStep
<1>9. ASSUME NEW j \in Launches,
             StreamEnds(j) \/ TimerFires(j) \/ TimerBody(j) \/ Reap(j)
      PROVE  MadeOnce'
  <2>1. UNCHANGED at /\ \A k \in Launches : ctr'[k] = "none" <=> ctr[k] = "none"
    BY <1>9, <1>t DEF StreamEnds, TimerFires, TimerBody, KillRun, KillShell,
                      CancelShell, Reap, dockerVars, TypeOK
  <2> QED
    BY <2>1, MadeOnceUnmoved
<1>10. CASE Stall \/ Resume \/ UNCHANGED vars
  BY <1>10, MadeOnceUnmoved DEF Stall, Resume, vars, dockerVars
<1> QED
  BY <1>2, <1>3, <1>4, <1>5, <1>6, <1>7, <1>8, <1>9, <1>10 DEF Next

(* What a step that moves one launch, and changes no container but its     *)
(* own, is to Creation.                                                    *)
LEMMA LaunchRefines ==
  ASSUME TypeOK, NEW j \in Launches, NEW stage,
         at' = [at EXCEPT ![j] = stage], NEW left,
         ctr' = [ctr EXCEPT ![j] = left],
         \/ /\ at[j] \in KeptStages <=> stage \in KeptStages
            /\ at[j] \in AskingStages <=> stage \in AskingStages
            /\ left = ctr[j]
         \/ /\ at[j] \in AskingStages
            /\ \/ stage \in KeptStages /\ left = "live"
               \/ /\ stage \notin AskingStages \union KeptStages
                  /\ left \in {"none", "gone", "stray"}
         \/ /\ at[j] \in KeptStages
            /\ stage \notin AskingStages \union KeptStages
            /\ left \in {"gone", "stray"} /\ (ctr[j] = "gone" => left = "gone")
  PROVE  [Atomic!Next]_(Atomic!vars)
<1> DEFINE P == [k \in Launches |-> Phase(k)]
<1>1. \A k \in Launches : k # j => at'[k] = at[k]
  OBVIOUS
<1>2. at'[j] = stage
  BY DEF TypeOK
<1>3. P' = [P EXCEPT ![j] = Phase(j)']
  BY <1>1 DEF Phase
<1>4. ctr \in [Launches -> {"none", "live", "gone", "stray"}]
  BY DEF TypeOK
<1>5. CASE /\ at[j] \in KeptStages <=> stage \in KeptStages
           /\ at[j] \in AskingStages <=> stage \in AskingStages
           /\ left = ctr[j]
  <2>1. Phase(j)' = Phase(j) /\ ctr' = ctr
    BY <1>2, <1>4, <1>5 DEF Phase
  <2>2. P' = P
    BY <1>3, <2>1
  <2> QED
    BY <2>1, <2>2 DEF Atomic!vars
<1>6. CASE at[j] \in AskingStages /\ stage \in KeptStages /\ left = "live"
  <2>1. P[j] = "asked" /\ Phase(j)' = "live"
    BY <1>2, <1>6, StagesApart DEF Phase
  <2>2. Atomic!Succeed(j)
    BY <1>3, <1>6, <2>1 DEF Atomic!Succeed
  <2> QED
    BY <2>2 DEF Atomic!Next
<1>7. CASE /\ at[j] \in AskingStages
           /\ stage \notin AskingStages \union KeptStages
           /\ left \in {"none", "gone", "stray"}
  <2>1. P[j] = "asked" /\ Phase(j)' = "over"
    BY <1>2, <1>7, StagesApart DEF Phase
  <2>2. Atomic!Fail(j)
    BY <1>3, <1>7, <2>1 DEF Atomic!Fail
  <2> QED
    BY <2>2 DEF Atomic!Next
<1>8. CASE /\ at[j] \in KeptStages
           /\ stage \notin AskingStages \union KeptStages
           /\ left \in {"gone", "stray"} /\ (ctr[j] = "gone" => left = "gone")
  <2>1. P[j] = "live" /\ Phase(j)' = "over"
    BY <1>2, <1>8 DEF Phase
  <2>2. Atomic!Answer(j) \/ Atomic!Finish(j)
    BY <1>3, <1>8, <2>1 DEF Atomic!Answer, Atomic!Finish
  <2> QED
    BY <2>2 DEF Atomic!Next
<1> QED
  BY <1>5, <1>6, <1>7, <1>8

(* A removal on behalf of another launch, or by the reaper.                *)
LEMMA RemovalRefines ==
  ASSUME IInv, NEW k \in Launches, \A i \in Launches : Phase(i)' = Phase(i),
         \/ UNCHANGED ctr
         \/ /\ ctr[k] \in {"live", "stray"}
            /\ \E left \in {"gone", "stray"} : ctr' = [ctr EXCEPT ![k] = left]
  PROVE  [Atomic!Next]_(Atomic!vars)
<1> DEFINE P == [i \in Launches |-> Phase(i)]
<1>1. P' = P
  OBVIOUS
<1>2. ctr \in [Launches -> {"none", "live", "gone", "stray"}]
  BY DEF IInv, TypeOK
<1>3. CASE UNCHANGED ctr
  BY <1>1, <1>3 DEF Atomic!vars
<1>4. ASSUME ctr[k] = "live", NEW left \in {"gone", "stray"},
             ctr' = [ctr EXCEPT ![k] = left]
      PROVE  [Atomic!Next]_(Atomic!vars)
  <2>1. P[k] = "live"
    BY <1>4 DEF IInv, LiveIsKept, KeptStages, Phase
  <2>2. Atomic!LetGo(k)
    BY <1>1, <1>4, <2>1 DEF Atomic!LetGo
  <2> QED
    BY <2>2 DEF Atomic!Next
<1>5. ASSUME ctr[k] = "stray", ctr' = [ctr EXCEPT ![k] = "gone"]
      PROVE  [Atomic!Next]_(Atomic!vars)
  <2>1. Atomic!Sweep
    BY <1>1, <1>2, <1>5 DEF Atomic!Sweep
  <2> QED
    BY <2>1 DEF Atomic!Next
<1>6. CASE ctr[k] = "stray" /\ ctr' = [ctr EXCEPT ![k] = "stray"]
  BY <1>2, <1>3, <1>6
<1> QED
  BY <1>3, <1>4, <1>5, <1>6

LEMMA LetGoRefines ==
  ASSUME IInv, NEW s \in Sessions, LetGo(s),
         \A i \in Launches : Phase(i)' = Phase(i)
  PROVE  [Atomic!Next]_(Atomic!vars)
<1>1. CASE cur[s] = None
  <2>1. UNCHANGED ctr
    BY <1>1 DEF LetGo, dockerVars
  <2>2. UNCHANGED [i \in Launches |-> Phase(i)]
    OBVIOUS
  <2> QED
    BY <2>1, <2>2 DEF Atomic!vars
<1>2. CASE cur[s] # None
  <2>1. cur[s] \in Launches /\ Remove(cur[s])
    BY <1>2 DEF LetGo, IInv, TypeOK
  <2>2. \/ UNCHANGED ctr
        \/ /\ ctr[cur[s]] \in {"live", "stray"}
           /\ \E left \in {"gone", "stray"} : ctr' = [ctr EXCEPT ![cur[s]] = left]
    BY <2>1 DEF Remove, IInv, TypeOK
  <2> QED
    BY <2>1, <2>2, RemovalRefines
<1> QED
  BY <1>1, <1>2

LEMMA CreationStep ==
  IInv /\ MadeOnce /\ [Next]_vars => [Atomic!Next]_(Atomic!vars)
<1> SUFFICES ASSUME IInv, MadeOnce, [Next]_vars
             PROVE  [Atomic!Next]_(Atomic!vars)
  OBVIOUS
<1>t. TypeOK
  BY DEF IInv
<1> USE DEF Goto, Return
<1>1. ASSUME NEW j \in Launches, NEW stage,
             at' = [at EXCEPT ![j] = stage], UNCHANGED ctr,
             \/ /\ at[j] \in KeptStages <=> stage \in KeptStages
                /\ at[j] \in AskingStages <=> stage \in AskingStages
             \/ /\ at[j] \in AskingStages
                /\ stage \notin AskingStages \union KeptStages
             \/ /\ at[j] \in KeptStages /\ ctr[j] # "live"
                /\ stage \notin AskingStages \union KeptStages
      PROVE  [Atomic!Next]_(Atomic!vars)
  <2>1. /\ ctr' = [ctr EXCEPT ![j] = ctr[j]]
        /\ at[j] \in AskingStages => ctr[j] = "none"
        /\ at[j] \in KeptStages /\ ctr[j] # "live" => ctr[j] \in {"gone", "stray"}
    BY <1>1, <1>t DEF MadeOnce, TypeOK
  <2> QED
    BY <1>1, <1>t, <2>1, LaunchRefines
<1>2. ASSUME UNCHANGED <<at, ctr>> PROVE UNCHANGED Atomic!vars
  BY <1>2 DEF Atomic!vars, Phase
<1>3. ASSUME NEW j \in Launches, NEW stage, at' = [at EXCEPT ![j] = stage],
             at[j] \in AskingStages, stage \in AskingStages
      PROVE  \A i \in Launches : Phase(i)' = Phase(i)
  BY <1>3, <1>t, StagesApart DEF Phase, TypeOK
<1>4. ASSUME NEW s \in Sessions, NEW j \in Launches,
             HandleRun(s, j) \/ HandleShell(s, j)
      PROVE  [Atomic!Next]_(Atomic!vars)
  BY <1>1, <1>4
     DEF HandleRun, HandleShell, dockerVars, AskingStages, KeptStages,
         EntryStages, EvictStages
<1>5. ASSUME NEW s \in Sessions, Untrack(s) PROVE UNCHANGED Atomic!vars
  BY <1>2, <1>5 DEF Untrack, dockerVars
<1>6. ASSUME NEW s \in Sessions, Close(s) PROVE [Atomic!Next]_(Atomic!vars)
  <2>1. \A i \in Launches : Phase(i)' = Phase(i)
    BY <1>6 DEF Close, Phase
  <2> QED
    BY <1>6, <2>1, LetGoRefines DEF Close
<1>7. ASSUME NEW j \in Launches, Evict(j) PROVE [Atomic!Next]_(Atomic!vars)
  <2>1. CASE EvictRemove(j)
    <3>1. at[j] \in AskingStages /\ "evictForget" \in AskingStages
      BY <2>1 DEF EvictRemove, AskingStages, EntryStages, EvictStages
    <3>2. \A i \in Launches : Phase(i)' = Phase(i)
      BY <2>1, <3>1, <1>3 DEF EvictRemove
    <3>3. PICK k : k = evictee[sess[j]]
      OBVIOUS
    <3>4. CASE k \in Launches
      <4>1. \/ UNCHANGED ctr
            \/ /\ ctr[k] \in {"live", "stray"}
               /\ \E left \in {"gone", "stray"} : ctr' = [ctr EXCEPT ![k] = left]
        BY <2>1, <3>3, <3>4, <1>t DEF EvictRemove, Remove, TypeOK
      <4> QED
        BY <3>2, <3>4, <4>1, RemovalRefines
    <3>5. CASE k \notin Launches
      <4>1. UNCHANGED ctr
        BY <2>1, <3>3, <3>5, <1>t DEF EvictRemove, Remove, TypeOK
      <4> QED
        BY <3>2, <4>1, j \in Launches, RemovalRefines
    <3> QED
      BY <3>4, <3>5
  <2>2. CASE \/ EvictCheck(j) \/ EvictPick(j) \/ EvictForget(j)
             \/ EvictDec(j) \/ Retry(j)
    BY <1>1, <2>2
       DEF EvictCheck, EvictPick, EvictForget, EvictDec, Retry, dockerVars,
           AskingStages, KeptStages, EntryStages, EvictStages
  <2> QED
    BY <1>7, <2>1, <2>2 DEF Evict
<1>8. ASSUME NEW j \in Launches, LaunchStep(j)
      PROVE  [Atomic!Next]_(Atomic!vars)
  <2>1. CASE Replace(j)
    <3>1. sess[j] \in Sessions
      BY <2>1 DEF Replace, IInv, OneHandler, HandlerStages, EntryStages
    <3>2. at[j] \in AskingStages /\ "acquire" \in AskingStages
      BY <2>1 DEF Replace, AskingStages, EntryStages
    <3>3. \A i \in Launches : Phase(i)' = Phase(i)
      BY <2>1, <3>2, <1>3 DEF Replace
    <3> QED
      BY <2>1, <3>1, <3>3, LetGoRefines DEF Replace
  <2>2. CASE CreateSucceeds(j)
    <3>1. at[j] \in AskingStages /\ "store" \in KeptStages
      BY <2>2 DEF CreateSucceeds, AskingStages, KeptStages
    <3> QED
      BY <2>2, <3>1, <1>t, LaunchRefines DEF CreateSucceeds
  <2>3. CASE CreateFails(j)
    <3>1. /\ at[j] \in AskingStages
          /\ "giveBack" \notin AskingStages \union KeptStages
      BY <2>3, StagesApart DEF CreateFails, AskingStages
    <3> QED
      BY <2>3, <3>1, <1>t, LaunchRefines DEF CreateFails
  <2>4. CASE \/ Acquire(j) \/ QueueTakes(j) \/ QueueTimesOut(j)
             \/ Refund(j) \/ SendError(j) \/ GiveBack(j) \/ Store(j)
             \/ Track(j) \/ Spawn(j)
    BY <1>1, <2>4
       DEF Acquire, QueueTakes, QueueTimesOut, Refund, SendError, GiveBack,
           Store, Track, Spawn, dockerVars, AskingStages, KeptStages,
           EntryStages, EvictStages
  <2> QED
    BY <1>8, <2>1, <2>2, <2>3, <2>4 DEF LaunchStep
<1>9. ASSUME NEW j \in Launches, ExitStep(j)
      PROVE  [Atomic!Next]_(Atomic!vars)
  <2>1. at[j] \in {"wait", "recheck", "clean"} =>
          /\ at[j] \in KeptStages /\ sess[j] \in Sessions
          /\ ctr[j] \in {"live", "gone", "stray"}
          /\ ~IsCurrent(j) => ctr[j] # "live"
          /\ latest[sess[j]] # j => ctr[j] # "live"
    <3>1. at[j] \in {"wait", "recheck", "clean"} =>
            /\ at[j] \in KeptStages /\ sess[j] \in Sessions
            /\ ctr[j] = "live" => cur[sess[j]] = j
      BY DEF IInv, Kinds, ExitStages, KeptStages, LiveIsKept
    <3>2. None # j
      BY SessionsAssumption
    <3> QED
      BY <1>t, <3>1, <3>2
         DEF MadeOnce, IInv, SessionIsLatest, IsCurrent, TypeOK
  <2>2. CASE OutputDone(j)
    <3>1. UNCHANGED ctr /\ at[j] = "wait"
      BY <2>2 DEF OutputDone, dockerVars
    <3> QED
      BY <1>1, <2>1, <2>2, <3>1, StagesApart
         DEF OutputDone, KeptStages
  <2>3. CASE Recheck(j)
    BY <1>1, <2>1, <2>3, StagesApart DEF Recheck, KeptStages, dockerVars
  <2>4. CASE SendExit(j) \/ DecCount(j) \/ ReleaseSlot(j)
    BY <1>1, <2>4, StagesApart
       DEF SendExit, DecCount, ReleaseSlot, KeptStages, dockerVars
  <2>5. CASE Clean(j) /\ ~IsCurrent(j)
    BY <1>1, <2>1, <2>5, StagesApart DEF Clean, dockerVars
  <2>6. CASE Clean(j) /\ IsCurrent(j)
    <3>1. /\ at[j] \in KeptStages /\ sess[j] \in Sessions
          /\ ctr[j] \in {"live", "gone", "stray"}
          /\ cur[sess[j]] = j /\ j # None
      BY <2>1, <2>6, SessionsAssumption
         DEF Clean, IsCurrent, IInv, SessionIsLatest
    <3>2. Remove(j)
      BY <2>6, <3>1 DEF Clean, LetGo
    <3>3. PICK left \in {"gone", "stray"} :
            /\ ctr' = [ctr EXCEPT ![j] = left]
            /\ ctr[j] = "gone" => left = "gone"
      BY <3>1, <3>2, <1>t DEF Remove, TypeOK
    <3> QED
      BY <2>6, <3>1, <3>3, <1>t, StagesApart, LaunchRefines DEF Clean
  <2> QED
    BY <1>9, <2>2, <2>3, <2>4, <2>5, <2>6 DEF ExitStep, Clean
<1>10. ASSUME NEW j \in Launches, RestArrives(j) \/ RestStep(j)
       PROVE  [Atomic!Next]_(Atomic!vars)
  <2>1. CASE RestCreates(j)
    <3>1. at[j] \in AskingStages /\ "restServe" \in KeptStages
      BY <2>1 DEF RestCreates, AskingStages, KeptStages
    <3> QED
      BY <2>1, <3>1, <1>t, StagesApart, LaunchRefines DEF RestCreates
  <2>2. CASE RestRemoves(j)
    <3>1. /\ at[j] \in KeptStages
          /\ ctr[j] \in {"live", "gone", "stray"}
      BY <2>2, <1>t DEF RestRemoves, KeptStages, MadeOnce, TypeOK
    <3>2. PICK left \in {"gone", "stray"} :
            /\ ctr' = [ctr EXCEPT ![j] = left]
            /\ ctr[j] = "gone" => left = "gone"
      BY <2>2, <3>1, <1>t DEF RestRemoves, Remove, TypeOK
    <3> QED
      BY <2>2, <3>1, <3>2, <1>t, StagesApart, LaunchRefines DEF RestRemoves
  <2>3. CASE RestArrives(j) \/ RestQueueEnds(j)
    BY <1>1, <2>3
       DEF RestArrives, RestQueueEnds, dockerVars, AskingStages, KeptStages,
           EntryStages, EvictStages
  <2> QED
    BY <1>10, <2>1, <2>2, <2>3 DEF RestStep
<1>11. ASSUME NEW j \in Launches,
              StreamEnds(j) \/ TimerFires(j) \/ TimerBody(j)
       PROVE  UNCHANGED Atomic!vars
  BY <1>2, <1>11 DEF StreamEnds, TimerFires, TimerBody, KillRun, KillShell,
                     CancelShell, dockerVars
<1>12. ASSUME NEW j \in Launches, Reap(j) PROVE [Atomic!Next]_(Atomic!vars)
  <2>1. \A i \in Launches : Phase(i)' = Phase(i)
    BY <1>12 DEF Reap, Phase
  <2> QED
    BY <1>12, <2>1, RemovalRefines DEF Reap
<1>13. CASE Stall \/ Resume \/ UNCHANGED vars
  BY <1>2, <1>13 DEF Stall, Resume, vars, dockerVars
<1> QED
  BY <1>4, <1>5, <1>6, <1>7, <1>8, <1>9, <1>10, <1>11, <1>12, <1>13 DEF Next

(* The handlers keep to their side of Creation: they touch a container     *)
(* only between its creation and its end, and none of them ends while the  *)
(* container it got is alive. What Sessions takes for one step is what     *)
(* CallsImplementCreation and LifetimesImplementCreation show the calls    *)
(* to Docker to amount to.                                                 *)
THEOREM SessionsImplementCreation == Spec => ImplementsCreation
<1>1. Init => MadeOnce /\ Atomic!Init
  BY DEF Init, MadeOnce, Atomic!Init, Phase, KeptStages, AskingStages
<1> QED
  BY <1>1, MadeOnceStep, CreationStep, SessionsInvariant, PTL
     DEF Spec, ImplementsCreation, Atomic!Spec

=============================================================================
