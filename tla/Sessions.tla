------------------------------ MODULE Sessions ------------------------------
(***************************************************************************)
(* handler/websocket.go and handler/execute.go: the life of the containers *)
(* users start. A WebSocket session has one main-loop goroutine that       *)
(* handles its messages in order, and one st.session at a time, replaced   *)
(* by each "run" or "shell" message. The handler of such a message evicts, *)
(* replaces, takes a slot, creates the container and returns; what it      *)
(* leaves behind is a timer and an exit goroutine that owes the slot, the  *)
(* user's count and the removal of the container. A REST request does the  *)
(* same in one goroutine.                                                  *)
(*                                                                         *)
(* A launch is one message (or REST request) with the container, timer and *)
(* goroutines it gives rise to; it is never reused, as a container ID is   *)
(* not. st.generation is the launch that bumped it last: latest[s] = j     *)
(* stands for st.generation == currentGen in the goroutines of launch j.   *)
(*                                                                         *)
(* One step is what a goroutine does under one lock, or between two locks. *)
(* The slots are those of SlotPool, which Semaphore implements. A message  *)
(* to a client is sent under connWriteMu, one lock for all connections,    *)
(* and the write it covers has no deadline: while a client does not read,  *)
(* every goroutine that comes to a send waits there.                       *)
(***************************************************************************)
EXTENDS Naturals, FiniteSets

CONSTANTS
  Runs,                 (* "run" messages                                  *)
  Shells,               (* "shell" messages                                *)
  Requests,             (* REST requests                                   *)
  Sessions,             (* WebSocket connections                           *)
  Users,
  UserOf,               (* the user a session authenticated as             *)
  MaxConcurrent,        (* slots of the semaphore                          *)
  MaxContainersPerUser, (* runs a user may have at once                    *)
  MayStall,             (* bound: whether clients may stop reading         *)
  None                  (* nil                                             *)

Launches == Runs \union Shells \union Requests

ASSUME SessionsAssumption ==
  /\ IsFiniteSet(Runs) /\ IsFiniteSet(Shells) /\ IsFiniteSet(Requests)
  /\ Runs \intersect Shells = {}
  /\ (Runs \union Shells) \intersect Requests = {}
  /\ None \notin Launches
  /\ UserOf \in [Sessions -> Users]
  /\ MaxConcurrent \in Nat
  /\ MaxContainersPerUser \in Nat
  /\ MayStall \in BOOLEAN

VARIABLES
  pc,        (* [Sessions] the main loop: idle (reading), launching,       *)
             (* untrack (the deferred call of a run), closed               *)
  cur,       (* [Sessions] st.session: the launch whose container it is    *)
  latest,    (* [Sessions] st.generation                                   *)
  timedOut,  (* [Sessions] st.timedOut                                     *)
  evictee,   (* [Sessions] the local variable oldest                       *)
  sess,      (* [Launches] the session it belongs to                       *)
  at,        (* [Launches] what the goroutine in charge of it does next    *)
  ctr,       (* [Launches] its container: none yet, live, gone, or stray:  *)
             (* live although Docker was told to remove it                 *)
  stream,    (* [Launches] its PTY stream is open                          *)
  timer,     (* [Launches] kill or idle timer: off, armed, fired (its      *)
             (* function is about to run), notice (that of a shell is at   *)
             (* its message to the client), hit (it killed the run)        *)
  verdict,   (* [Launches] the local variable wasTimedOut                  *)
  current,   (* slots in use                                               *)
  count,     (* [Users] userContainers                                     *)
  stamp,     (* [Launches] its time in userRuns, 0 when not in there       *)
  now,       (* the clock userRuns is stamped with                         *)
  stalled    (* connWriteMu is held by a write to a client that does not   *)
             (* read                                                       *)

sessionVars == <<pc, cur, latest, timedOut, evictee>>
dockerVars  == <<ctr, stream>>
timerVars   == <<timer, verdict>>
userVars    == <<count, stamp, now>>
vars == <<sessionVars, sess, at, dockerVars, timerVars, current,
          userVars, stalled>>

(* Stages of a handler before it owns a slot, while it owns one, of the    *)
(* exit goroutine (which owns one), and of a REST request that owns one. A *)
(* handler that failed, or was refused, ends at sendError.                 *)
EvictStages   == {"evictCheck", "evictPick", "evictRemove", "evictForget",
                  "evictDec", "retry"}
EntryStages   == EvictStages \union {"replace", "acquire", "queued",
                                     "refund"}
CreateStages  == {"create", "giveBack", "store", "track", "spawn"}
ExitStages    == {"wait", "recheck", "send", "clean", "dec", "release"}
RestStages    == {"restCreate", "restServe"}
HoldingStages == CreateStages \union ExitStages \union RestStages
Stages == EntryStages \union HoldingStages \union
          {"unused", "restQueued", "sendError", "done"}

TypeOK ==
  /\ pc \in [Sessions -> {"idle", "launching", "untrack", "closed"}]
  /\ cur \in [Sessions -> Launches \union {None}]
  /\ latest \in [Sessions -> Launches \union {None}]
  /\ timedOut \in [Sessions -> BOOLEAN]
  /\ evictee \in [Sessions -> Launches \union {None}]
  /\ sess \in [Launches -> Sessions \union {None}]
  /\ at \in [Launches -> Stages]
  /\ ctr \in [Launches -> {"none", "live", "stray", "gone"}]
  /\ stream \in [Launches -> BOOLEAN]
  /\ timer \in [Launches -> {"off", "armed", "fired", "notice", "hit"}]
  /\ verdict \in [Launches -> BOOLEAN]
  /\ current \in Nat
  /\ count \in [Users -> Nat]
  /\ stamp \in [Launches -> Nat]
  /\ now \in Nat
  /\ stalled \in BOOLEAN

Init ==
  /\ pc = [s \in Sessions |-> "idle"]
  /\ cur = [s \in Sessions |-> None]
  /\ latest = [s \in Sessions |-> None]
  /\ timedOut = [s \in Sessions |-> FALSE]
  /\ evictee = [s \in Sessions |-> None]
  /\ sess = [j \in Launches |-> None]
  /\ at = [j \in Launches |-> "unused"]
  /\ ctr = [j \in Launches |-> "none"]
  /\ stream = [j \in Launches |-> FALSE]
  /\ timer = [j \in Launches |-> "off"]
  /\ verdict = [j \in Launches |-> FALSE]
  /\ current = 0
  /\ count = [u \in Users |-> 0]
  /\ stamp = [j \in Launches |-> 0]
  /\ now = 0
  /\ stalled = FALSE

User(j) == UserOf[sess[j]]
Free == current < MaxConcurrent

(* Launch j moves on to its next stage.                                    *)
Goto(j, stage) == at' = [at EXCEPT ![j] = stage]

(* The handler of launch j returns: the main loop reads the next message.  *)
Return(j, stage) ==
  /\ Goto(j, stage)
  /\ pc' = [pc EXCEPT ![sess[j]] = "idle"]

(* docker.Remove ignores Docker's error: the container may survive it.     *)
Remove(j) ==
  \E outcome \in {"gone", "stray"} :
    ctr' = [ctr EXCEPT ![j] =
              IF @ \in {"live", "stray"} THEN outcome ELSE @]

(* What the handlers, the exit goroutine and the end of the session do to  *)
(* st.session under st.mu: cancel, close, remove and forget it.            *)
LetGo(s) ==
  /\ cur' = [cur EXCEPT ![s] = None]
  /\ IF cur[s] = None
     THEN UNCHANGED dockerVars
     ELSE /\ Remove(cur[s])
          /\ stream' = [stream EXCEPT ![cur[s]] = FALSE]

(* incUserContainers and decUserContainers.                                *)
AtCap(u) == count[u] >= MaxContainersPerUser
Inc(u) == count' = [count EXCEPT ![u] = @ + 1]
(* Mutant of Dec: no "if <= 0 delete".                                     *)
DecUnclamped(u) == count' = [count EXCEPT ![u] = @ - 1]

Dec(u) == count' = [count EXCEPT ![u] = IF @ > 0 THEN @ - 1 ELSE 0]

(* st.session != nil && st.generation == currentGen                        *)
IsCurrent(j) == cur[sess[j]] # None /\ latest[sess[j]] = j

-----------------------------------------------------------------------------
(* The main loop reads a "run" message: count it against the user, or try  *)
(* to evict.                                                               *)
HandleRun(s, j) ==
  /\ j \in Runs
  /\ pc[s] = "idle"
  /\ at[j] = "unused"
  /\ pc' = [pc EXCEPT ![s] = "launching"]
  /\ sess' = [sess EXCEPT ![j] = s]
  /\ \/ ~AtCap(UserOf[s]) /\ Inc(UserOf[s]) /\ Goto(j, "replace")
     \/ AtCap(UserOf[s]) /\ UNCHANGED count /\ Goto(j, "evictCheck")
  /\ UNCHANGED <<cur, latest, timedOut, evictee, dockerVars, timerVars,
                 current, stamp, now, stalled>>

(* A "shell" message is not counted; its handler starts by replacing.      *)
HandleShell(s, j) ==
  /\ j \in Shells
  /\ pc[s] = "idle"
  /\ at[j] = "unused"
  /\ pc' = [pc EXCEPT ![s] = "launching"]
  /\ sess' = [sess EXCEPT ![j] = s]
  /\ Goto(j, "replace")
  /\ UNCHANGED <<cur, latest, timedOut, evictee, dockerVars, timerVars,
                 current, userVars, stalled>>

-----------------------------------------------------------------------------
(* evictOldestUserContainer, lock by lock.                                 *)
EvictCheck(j) ==
  /\ at[j] = "evictCheck"
  /\ Goto(j, IF AtCap(User(j)) THEN "evictPick" ELSE "retry")
  /\ UNCHANGED <<sessionVars, sess, dockerVars, timerVars, current, userVars,
                 stalled>>

Tracked(u) == {k \in Launches : stamp[k] > 0 /\ User(k) = u}

EvictPick(j) ==
  /\ at[j] = "evictPick"
  /\ \/ Tracked(User(j)) = {} /\ Goto(j, "retry") /\ UNCHANGED evictee
     \/ \E oldest \in Tracked(User(j)) :
          /\ \A k \in Tracked(User(j)) : stamp[oldest] <= stamp[k]
          /\ evictee' = [evictee EXCEPT ![sess[j]] = oldest]
          /\ Goto(j, "evictRemove")
  /\ UNCHANGED <<pc, cur, latest, timedOut, sess, dockerVars, timerVars,
                 current, userVars, stalled>>

EvictRemove(j) ==
  /\ at[j] = "evictRemove"
  /\ Remove(evictee[sess[j]])
  /\ Goto(j, "evictForget")
  /\ UNCHANGED <<sessionVars, sess, stream, timerVars, current, userVars,
                 stalled>>

EvictForget(j) ==
  /\ at[j] = "evictForget"
  /\ stamp' = [stamp EXCEPT ![evictee[sess[j]]] = 0]
  /\ Goto(j, "evictDec")
  /\ UNCHANGED <<sessionVars, sess, dockerVars, timerVars, current, count,
                 now, stalled>>

EvictDec(j) ==
  /\ at[j] = "evictDec"
  /\ Dec(User(j))
  /\ evictee' = [evictee EXCEPT ![sess[j]] = None]
  /\ Goto(j, "retry")
  /\ UNCHANGED <<pc, cur, latest, timedOut, sess, dockerVars, timerVars,
                 current, stamp, now, stalled>>

(* The second incUserContainers; "Too many concurrent programs" if it      *)
(* fails as well.                                                          *)
Retry(j) ==
  /\ at[j] = "retry"
  /\ \/ ~AtCap(User(j)) /\ Inc(User(j)) /\ Goto(j, "replace")
     \/ AtCap(User(j)) /\ UNCHANGED count /\ Goto(j, "sendError")
  /\ UNCHANGED <<sessionVars, sess, dockerVars, timerVars, current, stamp,
                 now, stalled>>

-----------------------------------------------------------------------------
(* Mutants of Replace: the old container is forgotten, not removed; no     *)
(* new generation; st.timedOut is not reset.                               *)
ReplaceForgets(j) ==
  /\ at[j] = "replace"
  /\ cur' = [cur EXCEPT ![sess[j]] = None]
  /\ latest' = [latest EXCEPT ![sess[j]] = j]
  /\ timedOut' = [timedOut EXCEPT ![sess[j]] = @ /\ j \notin Runs]
  /\ Goto(j, "acquire")
  /\ UNCHANGED <<pc, evictee, sess, dockerVars, timerVars, current, userVars,
                 stalled>>

ReplaceSameGeneration(j) ==
  /\ at[j] = "replace"
  /\ LetGo(sess[j])
  /\ latest' = [latest EXCEPT ![sess[j]] = IF @ = None THEN j ELSE @]
  /\ timedOut' = [timedOut EXCEPT ![sess[j]] = @ /\ j \notin Runs]
  /\ Goto(j, "acquire")
  /\ UNCHANGED <<pc, evictee, sess, timerVars, current, userVars, stalled>>

ReplaceKeepsTimedOut(j) ==
  /\ at[j] = "replace"
  /\ LetGo(sess[j])
  /\ latest' = [latest EXCEPT ![sess[j]] = j]
  /\ Goto(j, "acquire")
  /\ UNCHANGED <<pc, timedOut, evictee, sess, timerVars, current, userVars,
                 stalled>>

(* Let go of the session's container, if any, and start a new generation.  *)
Replace(j) ==
  /\ at[j] = "replace"
  /\ LetGo(sess[j])
  /\ latest' = [latest EXCEPT ![sess[j]] = j]
  /\ timedOut' = [timedOut EXCEPT ![sess[j]] = @ /\ j \notin Runs]
  /\ Goto(j, "acquire")
  /\ UNCHANGED <<pc, evictee, sess, timerVars, current, userVars, stalled>>

(* AcquireContext: a slot at once, or into the queue.                      *)
Acquire(j) ==
  /\ at[j] = "acquire"
  /\ \/ Free /\ current' = current + 1 /\ Goto(j, "create")
     \/ ~Free /\ UNCHANGED current /\ Goto(j, "queued")
  /\ UNCHANGED <<sessionVars, sess, dockerVars, timerVars, userVars, stalled>>

QueueTakes(j) ==
  /\ at[j] = "queued"
  /\ Free
  /\ current' = current + 1
  /\ Goto(j, "create")
  /\ UNCHANGED <<sessionVars, sess, dockerVars, timerVars, userVars, stalled>>

(* Mutants of QueueTimesOut: the answer of AcquireContext is ignored; the  *)
(* wait has no bound (Acquire for AcquireContext).                         *)
QueueTimesOutIgnored(j) ==
  /\ at[j] = "queued"
  /\ ~Free
  /\ Goto(j, "create")
  /\ UNCHANGED <<sessionVars, sess, dockerVars, timerVars, current, userVars,
                 stalled>>

QueueForever(j) == at[j] = "queued" /\ ~Free /\ UNCHANGED vars

(* 45 seconds in the queue: "Service is at capacity". A run has a count to *)
(* give back first.                                                        *)
QueueTimesOut(j) ==
  /\ at[j] = "queued"
  /\ ~Free
  /\ Goto(j, IF j \in Runs THEN "refund" ELSE "sendError")
  /\ UNCHANGED <<sessionVars, sess, dockerVars, timerVars, current, userVars,
                 stalled>>

(* Mutant: the count is not given back after "at capacity".                *)
RefundForgotten(j) ==
  /\ at[j] = "refund"
  /\ Goto(j, "sendError")
  /\ UNCHANGED <<sessionVars, sess, dockerVars, timerVars, current, userVars,
                 stalled>>

Refund(j) ==
  /\ at[j] = "refund"
  /\ Dec(User(j))
  /\ Goto(j, "sendError")
  /\ UNCHANGED <<sessionVars, sess, dockerVars, timerVars, current, stamp,
                 now, stalled>>

(* The client is told why it gets no container.                            *)
SendError(j) ==
  /\ at[j] = "sendError"
  /\ ~stalled
  /\ Return(j, "done")
  /\ UNCHANGED <<cur, latest, timedOut, evictee, sess, dockerVars, timerVars,
                 current, userVars, stalled>>

(* CreateInteractive or CreateShell: a container with an open PTY stream,  *)
(* or an error, by when whatever was created has been told to go.          *)
CreateSucceeds(j) ==
  /\ at[j] = "create"
  /\ ctr' = [ctr EXCEPT ![j] = "live"]
  /\ stream' = [stream EXCEPT ![j] = TRUE]
  /\ Goto(j, "store")
  /\ UNCHANGED <<sessionVars, sess, timerVars, current, userVars, stalled>>

CreateFails(j) ==
  /\ at[j] = "create"
  /\ \E left \in {"none", "stray"} : ctr' = [ctr EXCEPT ![j] = left]
  /\ Goto(j, "giveBack")
  /\ UNCHANGED <<sessionVars, sess, stream, timerVars, current, userVars,
                 stalled>>

(* Mutant: no sem.Release when the creation failed.                        *)
GiveBackNothing(j) ==
  /\ at[j] = "giveBack"
  /\ Goto(j, IF j \in Runs THEN "refund" ELSE "sendError")
  /\ UNCHANGED <<sessionVars, sess, dockerVars, timerVars, current, userVars,
                 stalled>>

GiveBack(j) ==
  /\ at[j] = "giveBack"
  /\ current' = current - 1
  /\ Goto(j, IF j \in Runs THEN "refund" ELSE "sendError")
  /\ UNCHANGED <<sessionVars, sess, dockerVars, timerVars, userVars, stalled>>

(* st.session is set. The idle timer of a shell is armed before its client *)
(* is told, the kill timer of a run after (Spawn).                         *)
Store(j) ==
  /\ at[j] = "store"
  /\ cur' = [cur EXCEPT ![sess[j]] = j]
  /\ timer' = [timer EXCEPT ![j] = IF j \in Shells THEN "armed" ELSE @]
  /\ Goto(j, IF j \in Runs THEN "track" ELSE "spawn")
  /\ UNCHANGED <<pc, latest, timedOut, evictee, sess, dockerVars, verdict,
                 current, userVars, stalled>>

(* trackUserRun: runs only.                                                *)
Track(j) ==
  /\ at[j] = "track"
  /\ now' = now + 1
  /\ stamp' = [stamp EXCEPT ![j] = now + 1]
  /\ Goto(j, "spawn")
  /\ UNCHANGED <<sessionVars, sess, dockerVars, timerVars, current, count,
                 stalled>>

(* Send "started"; only then start the goroutines that bridge the output   *)
(* and wait for its end, arm the kill timer of a run, and return. Whatever *)
(* is deferred comes last.                                                 *)
Spawn(j) ==
  /\ at[j] = "spawn"
  /\ ~stalled
  /\ timer' = [timer EXCEPT ![j] = IF j \in Runs THEN "armed" ELSE @]
  /\ Goto(j, "wait")
  /\ pc' = [pc EXCEPT ![sess[j]] =
              IF j \in Runs THEN "untrack" ELSE "idle"]
  /\ UNCHANGED <<cur, latest, timedOut, evictee, sess, dockerVars, verdict,
                 current, userVars, stalled>>

(* The deferred deleteUserRun of a run that was launched.                  *)
Untrack(s) ==
  /\ pc[s] = "untrack"
  /\ stamp' = [stamp EXCEPT ![latest[s]] = 0]
  /\ pc' = [pc EXCEPT ![s] = "idle"]
  /\ UNCHANGED <<cur, latest, timedOut, evictee, sess, at, dockerVars,
                 timerVars, current, count, now, stalled>>

(* Mutant of Close: the container is left to its goroutine.                *)
CloseForgets(s) ==
  /\ pc[s] = "idle"
  /\ pc' = [pc EXCEPT ![s] = "closed"]
  /\ cur' = [cur EXCEPT ![s] = None]
  /\ UNCHANGED <<latest, timedOut, evictee, sess, at, dockerVars, timerVars,
                 current, userVars, stalled>>

(* The connection ends: closed by the client, or nothing read for 90       *)
(* seconds. A message being handled is handled to its end first.           *)
Close(s) ==
  /\ pc[s] = "idle"
  /\ pc' = [pc EXCEPT ![s] = "closed"]
  /\ LetGo(s)
  /\ UNCHANGED <<latest, timedOut, evictee, sess, at, timerVars, current,
                 userVars, stalled>>

-----------------------------------------------------------------------------
(* The program ends, or its container was removed: the PTY stream ends.    *)
StreamEnds(j) ==
  /\ stream[j]
  /\ stream' = [stream EXCEPT ![j] = FALSE]
  /\ UNCHANGED <<sessionVars, sess, at, ctr, timerVars, current, userVars,
                 stalled>>

(* The goroutine that waits for outputDone: stop the timer, and go on only *)
(* if the launch is still the session's current one. The bridge may be in  *)
(* a send when the stream ends: this step comes after that send.           *)
OutputDone(j) ==
  /\ at[j] = "wait"
  /\ ~stream[j]
  /\ timer' = [timer EXCEPT ![j] = IF @ = "armed" THEN "off" ELSE @]
  /\ \/ /\ IsCurrent(j) /\ j \in Runs
        /\ verdict' = [verdict EXCEPT ![j] = timedOut[sess[j]]]
        /\ Goto(j, "recheck")
     \/ /\ IsCurrent(j) /\ j \in Shells
        /\ Goto(j, "clean")
        /\ UNCHANGED verdict
     \/ /\ ~IsCurrent(j)
        /\ Goto(j, IF j \in Runs THEN "dec" ELSE "release")
        /\ UNCHANGED verdict
  /\ UNCHANGED <<sessionVars, sess, dockerVars, current, userVars, stalled>>

(* After waiting for and inspecting the container, without the lock, the   *)
(* generation is tested again.                                             *)
Recheck(j) ==
  /\ at[j] = "recheck"
  /\ Goto(j, IF latest[sess[j]] = j THEN "send" ELSE "dec")
  /\ UNCHANGED <<sessionVars, sess, dockerVars, timerVars, current, userVars,
                 stalled>>

(* Read the files, send them and the exit message: no st.mu, no test.      *)
SendExit(j) ==
  /\ at[j] = "send"
  /\ ~stalled
  /\ Goto(j, "clean")
  /\ UNCHANGED <<sessionVars, sess, dockerVars, timerVars, current, userVars,
                 stalled>>

Clean(j) ==
  /\ at[j] = "clean"
  /\ IF IsCurrent(j) THEN LetGo(sess[j]) ELSE UNCHANGED <<cur, dockerVars>>
  /\ Goto(j, IF j \in Runs THEN "dec" ELSE "release")
  /\ UNCHANGED <<pc, latest, timedOut, evictee, sess, timerVars, current,
                 userVars, stalled>>

(* The deferred calls: the user's count, then the slot.                    *)
DecCount(j) ==
  /\ at[j] = "dec"
  /\ Dec(User(j))
  /\ Goto(j, "release")
  /\ UNCHANGED <<sessionVars, sess, dockerVars, timerVars, current, stamp,
                 now, stalled>>

ReleaseSlot(j) ==
  /\ at[j] = "release"
  /\ current' = current - 1
  /\ Goto(j, "done")
  /\ UNCHANGED <<sessionVars, sess, dockerVars, timerVars, userVars, stalled>>

-----------------------------------------------------------------------------
TimerFires(j) ==
  /\ timer[j] = "armed"
  /\ timer' = [timer EXCEPT ![j] = "fired"]
  /\ UNCHANGED <<sessionVars, sess, at, dockerVars, verdict, current,
                 userVars, stalled>>

(* Mutants of KillRun: the generation is not tested; nothing is cancelled. *)
KillRunAnyGeneration(j) ==
  /\ timer[j] = "fired"
  /\ j \in Runs
  /\ \/ /\ cur[sess[j]] # None
        /\ timedOut' = [timedOut EXCEPT ![sess[j]] = TRUE]
        /\ stream' = [stream EXCEPT ![cur[sess[j]]] = FALSE]
        /\ timer' = [timer EXCEPT ![j] = "hit"]
     \/ /\ cur[sess[j]] = None
        /\ timer' = [timer EXCEPT ![j] = "off"]
        /\ UNCHANGED <<timedOut, stream>>
  /\ UNCHANGED <<pc, cur, latest, evictee, sess, at, ctr, verdict, current,
                 userVars, stalled>>

KillRunMarksOnly(j) ==
  /\ timer[j] = "fired"
  /\ j \in Runs
  /\ IF IsCurrent(j)
     THEN /\ timedOut' = [timedOut EXCEPT ![sess[j]] = TRUE]
          /\ timer' = [timer EXCEPT ![j] = "hit"]
     ELSE /\ timer' = [timer EXCEPT ![j] = "off"]
          /\ UNCHANGED timedOut
  /\ UNCHANGED <<pc, cur, latest, evictee, sess, at, dockerVars, verdict,
                 current, userVars, stalled>>

(* The function of a run's kill timer. Cancel ends the PTY stream.         *)
KillRun(j) ==
  /\ timer[j] = "fired"
  /\ j \in Runs
  /\ \/ /\ IsCurrent(j)
        /\ timedOut' = [timedOut EXCEPT ![sess[j]] = TRUE]
        /\ stream' = [stream EXCEPT ![cur[sess[j]]] = FALSE]
        /\ timer' = [timer EXCEPT ![j] = "hit"]
     \/ /\ ~IsCurrent(j)
        /\ timer' = [timer EXCEPT ![j] = "off"]
        /\ UNCHANGED <<timedOut, stream>>
  /\ UNCHANGED <<pc, cur, latest, evictee, sess, at, ctr, verdict, current,
                 userVars, stalled>>

(* The function of a shell's idle timer: it also does nothing when there   *)
(* was input in the last ten minutes, and is not armed again.              *)
KillShell(j) ==
  /\ timer[j] = "fired"
  /\ j \in Shells
  /\ \/ IsCurrent(j) /\ timer' = [timer EXCEPT ![j] = "notice"]
     \/ timer' = [timer EXCEPT ![j] = "off"]
  /\ UNCHANGED <<sessionVars, sess, at, dockerVars, verdict, current,
                 userVars, stalled>>

(* It has told the client, and cancels the session it found under the lock,*)
(* which was its own, whatever is current by now.                          *)
CancelShell(j) ==
  /\ timer[j] = "notice"
  /\ j \in Shells
  /\ ~stalled
  /\ timer' = [timer EXCEPT ![j] = "off"]
  /\ stream' = [stream EXCEPT ![j] = FALSE]
  /\ UNCHANGED <<sessionVars, sess, at, ctr, verdict, current, userVars,
                 stalled>>

-----------------------------------------------------------------------------
(* POST /api/v1/run. A request that is refused a slot leaves no trace.     *)
RestArrives(j) ==
  /\ j \in Requests
  /\ at[j] = "unused"
  /\ \/ Free /\ current' = current + 1 /\ Goto(j, "restCreate")
     \/ ~Free /\ UNCHANGED current /\ Goto(j, "restQueued")
  /\ UNCHANGED <<sessionVars, sess, dockerVars, timerVars, userVars, stalled>>

(* Mutant: a request served although it was refused a slot.                *)
RestQueueIgnored(j) ==
  /\ at[j] = "restQueued"
  /\ \/ Free /\ current' = current + 1
     \/ ~Free /\ UNCHANGED current
  /\ Goto(j, "restCreate")
  /\ UNCHANGED <<sessionVars, sess, dockerVars, timerVars, userVars, stalled>>

RestQueueEnds(j) ==
  /\ at[j] = "restQueued"
  /\ \/ Free /\ current' = current + 1 /\ Goto(j, "restCreate")
     \/ ~Free /\ UNCHANGED current /\ Goto(j, "done")
  /\ UNCHANGED <<sessionVars, sess, dockerVars, timerVars, userVars, stalled>>

(* RunNonInteractive: from ContainerCreate on the removal is deferred.     *)
RestCreates(j) ==
  /\ at[j] = "restCreate"
  /\ \/ ctr' = [ctr EXCEPT ![j] = "live"] /\ Goto(j, "restServe")
     \/ /\ \E left \in {"none", "stray"} : ctr' = [ctr EXCEPT ![j] = left]
        /\ Goto(j, "release")
  /\ UNCHANGED <<sessionVars, sess, stream, timerVars, current, userVars,
                 stalled>>

(* The program ended, timed out or failed, or the client went away.        *)
RestRemoves(j) ==
  /\ at[j] = "restServe"
  /\ Remove(j)
  /\ Goto(j, "release")
  /\ UNCHANGED <<sessionVars, sess, stream, timerVars, current, userVars,
                 stalled>>

-----------------------------------------------------------------------------
(* The zombie reaper removes what is older than twenty minutes: strays,    *)
(* shells that live that long, and runs that sends which waited held up so *)
(* long. Ages are not kept here: Lifetimes has them.                       *)
Reap(j) ==
  /\ \/ ctr[j] = "stray"
     \/ /\ ctr[j] = "live"
        /\ j \notin Requests
        /\ at[j] \in {"spawn"} \union ExitStages
  /\ ctr' = [ctr EXCEPT ![j] = "gone"]
  /\ UNCHANGED <<sessionVars, sess, at, stream, timerVars, current, userVars,
                 stalled>>

-----------------------------------------------------------------------------
(* Who has something to send, and waits when it cannot.                    *)
Sending(j) == at[j] \in {"sendError", "spawn", "send"} \/ timer[j] = "notice"

(* A client, of one of these sessions or of another connection, does not   *)
(* read what is being written to it. Nobody notices who does not send.     *)
Stall ==
  /\ MayStall
  /\ ~stalled
  /\ \E j \in Launches : Sending(j)
  /\ stalled' = TRUE
  /\ UNCHANGED <<sessionVars, sess, at, dockerVars, timerVars, current,
                 userVars>>

(* It reads again, or its connection is given up.                          *)
Resume ==
  /\ stalled
  /\ stalled' = FALSE
  /\ UNCHANGED <<sessionVars, sess, at, dockerVars, timerVars, current,
                 userVars>>

-----------------------------------------------------------------------------
Evict(j) ==
  \/ EvictCheck(j) \/ EvictPick(j) \/ EvictRemove(j)
  \/ EvictForget(j) \/ EvictDec(j) \/ Retry(j)

LaunchStep(j) ==
  \/ Replace(j) \/ Acquire(j) \/ QueueTakes(j) \/ QueueTimesOut(j)
  \/ Refund(j) \/ CreateSucceeds(j) \/ CreateFails(j) \/ GiveBack(j)
  \/ SendError(j) \/ Store(j) \/ Track(j) \/ Spawn(j)

ExitStep(j) ==
  \/ OutputDone(j) \/ Recheck(j) \/ SendExit(j) \/ Clean(j)
  \/ DecCount(j) \/ ReleaseSlot(j)

RestStep(j) == RestQueueEnds(j) \/ RestCreates(j) \/ RestRemoves(j)

TimerBody(j) == KillRun(j) \/ KillShell(j) \/ CancelShell(j)

Next ==
  \/ \E s \in Sessions, j \in Launches : HandleRun(s, j) \/ HandleShell(s, j)
  \/ \E s \in Sessions : Untrack(s) \/ Close(s)
  \/ \E j \in Launches :
       \/ Evict(j) \/ LaunchStep(j) \/ ExitStep(j) \/ RestStep(j)
       \/ StreamEnds(j) \/ TimerFires(j) \/ TimerBody(j)
       \/ RestArrives(j) \/ Reap(j)
  \/ Stall \/ Resume

Spec == Init /\ [][Next]_vars

(* The steps of a launch that wait for a client that does not read.        *)
SendStep(j) == SendError(j) \/ Spawn(j) \/ SendExit(j) \/ CancelShell(j)

(* Goroutines that can run do, Docker answers every call, time passes (so  *)
(* armed timers fire and REST requests end), the stream of a container     *)
(* that is gone ends, and strays grow old. Nothing obliges clients to send *)
(* messages or to disconnect, or a program to end by itself.               *)
(*                                                                         *)
(* Of clients that do not read it is ASSUMED, and the code does not see to *)
(* it, that each reads again or loses its connection in the end. A send    *)
(* that waits is then made, however many stall before it: a sync.Mutex     *)
(* that is free again and again is had by those that wait for it.          *)
Fairness ==
  /\ WF_vars(Resume)
  /\ SF_vars(\E j \in Launches : SendStep(j))
  /\ WF_vars(\E s \in Sessions : Untrack(s))
  /\ \A j \in Launches :
       WF_vars(\/ Evict(j) \/ LaunchStep(j) \/ ExitStep(j) \/ RestStep(j)
               \/ ctr[j] = "gone" /\ StreamEnds(j)
               \/ TimerFires(j) \/ TimerBody(j))

FairSpec == Spec /\ Fairness

-----------------------------------------------------------------------------
SlotHolders == {j \in Launches : at[j] \in HoldingStages}
Queued == {j \in Launches : at[j] \in {"queued", "restQueued"}}

(* The counter of the semaphore is the number of goroutines that owe it a  *)
(* Release: each path through the handlers, errors included, gives back    *)
(* the slot it took, once.                                                 *)
SlotAccounting ==
  /\ current = Cardinality(SlotHolders)
  /\ current <= MaxConcurrent

Slots == INSTANCE SlotPool WITH
  Threads <- Launches, Max <- MaxConcurrent,
  holders <- SlotHolders, queued <- Queued

(* The handlers use the slots as SlotPool has it: nothing returns a slot   *)
(* it does not own, or asks for one while it owns or awaits one.           *)
UsesSlotPool == Slots!Spec

(* A container is never left to itself: while it lives there is a handler  *)
(* or an exit goroutine that will let go of it, unless Docker refused to   *)
(* remove it when that was done.                                           *)
KeptStages == {"store", "track", "spawn", "wait", "recheck", "send", "clean",
               "restServe"}
NoContainerLeak ==
  \A j \in Launches : ctr[j] = "live" => at[j] \in KeptStages

(* What MAX_CONCURRENT is for: however sessions, requests, evictions and   *)
(* timers interleave, no more containers are alive than there are slots,   *)
(* but for those Docker would not remove.                                  *)
ContainersWithinMax ==
  Cardinality({j \in Launches : ctr[j] = "live"}) <= MaxConcurrent

(* What st.session points to is the container of the latest run or shell   *)
(* of this session, so that the generation test in an exit goroutine or a  *)
(* timer vouches for the container it goes on to kill.                     *)
SessionIsLatest ==
  \A s \in Sessions :
    cur[s] # None => latest[s] = cur[s] /\ sess[cur[s]] = s

(* The count that limits a user's runs never exceeds the runs that are     *)
(* under way: no failure path leaves a count behind that would lock the    *)
(* user out.                                                               *)
CountedStages ==
  (EntryStages \ EvictStages) \union CreateStages \union
  (ExitStages \ {"release"})
NoLockout ==
  \A u \in Users :
    count[u] <= Cardinality({j \in Launches :
                  j \in Runs /\ at[j] \in CountedStages /\ User(j) = u})

(* A run is reported as timed out only if it was its own kill timer that   *)
(* stopped it, although st.timedOut is shared by all runs of a session.    *)
TimeoutIsOwn == \A j \in Launches : verdict[j] => timer[j] = "hit"

(* The exit goroutine and the timer of a launch never stop or remove the   *)
(* container of another: "prevents stale goroutines from killing new       *)
(* sessions".                                                              *)
StaleKillsNothing ==
  [][\A j, k \in Launches :
       (j # k /\ (timer'[j] # timer[j] \/ (at[j] = "clean" /\ at'[j] # "clean")))
         => ctr'[k] = ctr[k] /\ stream'[k] = stream[k]]_vars

-----------------------------------------------------------------------------
(* Every handler returns to the main loop: no message is handled forever,  *)
(* even while the server stays at capacity, unless a client stalls         *)
(* forever, be it that of another connection.                              *)
HandlerReturns ==
  \A s \in Sessions :
    pc[s] \in {"launching", "untrack"} ~> pc[s] \notin {"launching", "untrack"}

(* Every run and every request gives its slot back, whatever its program   *)
(* does: by itself, by its kill timer, or because it was replaced, evicted *)
(* or abandoned; for a run, unless a client stalls forever.                *)
SlotReturned ==
  \A j \in Launches :
    (j \notin Shells /\ at[j] \in HoldingStages)
      ~> at[j] \notin HoldingStages

(* Once a connection is closed everything it started comes to an end,      *)
(* shells included, unless some client stalls forever.                     *)
ClosedSessionDrains ==
  \A s \in Sessions :
    pc[s] = "closed"
      ~> \A j \in Launches :
           sess[j] = s => at[j] = "done" /\ ctr[j] # "live"

-----------------------------------------------------------------------------
(* As the comments have it (violated, see the README):                     *)

(* "your newest action always wins": a run that finds its user at the      *)
(* limit evicts, unless there is no started run of the user to evict.      *)
NewestActionWins ==
  [][\A j \in Launches :
       (at[j] = "evictPick" /\ at'[j] = "retry")
         => ~\E k \in Runs :
               at[k] = "wait" /\ ctr[k] = "live" /\ User(k) = User(j)]_vars

=============================================================================
