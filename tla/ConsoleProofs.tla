--------------------------- MODULE ConsoleProofs ----------------------------
(***************************************************************************)
(* Theorems about Console for any connections, launches and numbers of     *)
(* chunks: a client reads the output of its program in order and complete, *)
(* the exit message is the last it reads of a run, and at most one chunk   *)
(* of a launch comes after the start of its successor.                     *)
(*                                                                         *)
(* What a client has read is tied to what the bridge has done (Outputs),   *)
(* the bridge to the stream (Goroutines, Counted), and the stream to       *)
(* st.session: a launch that is not the session's any more is cancelled.   *)
(*                                                                         *)
(* Then, each by an invariant of its own relative to that one: no two      *)
(* goroutines write at a time, every launch is answered once, and the exit *)
(* of the latest run is not lost.                                          *)
(***************************************************************************)
EXTENDS Console, Integers, TLAPS

(* Launch j is being handled by the main loop of its connection, which is  *)
(* at one of the given stages.                                             *)
Handled(j, stages) ==
  conn[j] # None /\ latest[conn[j]] = j /\ pc[conn[j]] \in stages

StartStages == {"creating", "attach", "sendStarted", "writeStarted"}
ErrorStages == {"sendError", "writeError"}
BusyStages  == StartStages \union ErrorStages \union {"spawn"}

(* What a connection points to is of that connection, and a client that    *)
(* left has a main loop that ended.                                        *)
Pointers(c) ==
  /\ latest[c] # None => conn[latest[c]] = c
  /\ cur[c] # None => latest[c] = cur[c]
  /\ refused[c] # None => conn[refused[c]] = c
  /\ client[c] = "gone" <=> pc[c] = "closed"

(* Messages go to the connection their launch belongs to.                  *)
Addressed(c) == \A i \in DOMAIN inbox[c] : conn[inbox[c][i].of] = c

(* The goroutines of a launch start when its handler returns, unless it is *)
(* refused; its stream is closed if it is not that of st.session any more. *)
Goroutines(j) ==
  /\ conn[j] = None => stream[j] = "none" /\ bridge[j] = "off"
  /\ conn[j] # None /\ refused[conn[j]] = j
       => latest[conn[j]] # j /\ bridge[j] = "off"
  /\ Handled(j, BusyStages) => bridge[j] = "off"
  /\ Handled(j, {"creating", "attach"} \union ErrorStages)
       => cur[conn[j]] = None /\ stream[j] = "none"
  /\ Handled(j, {"sendStarted", "writeStarted", "spawn"})
       => cur[conn[j]] = j /\ stream[j] # "none"
  /\ bridge[j] = "off" => exit[j] = "off" /\ timer[j] = "off"
  /\ bridge[j] # "off" =>
       /\ exit[j] # "off"
       /\ stream[j] # "none"
       /\ cur[conn[j]] = j \/ stream[j] = "closed"
  /\ exit[j] \notin {"off", "wait"} => bridge[j] = "done"
  /\ exit[j] \in {"recheck", "send", "write"} => j \in Runs
  /\ timer[j] \in {"send", "write", "cancel"} => j \in Shells

(* The output that is not in a message that is still to be sent.           *)
Sent(j) ==
  IF bridge[j] \in {"check", "send", "write"} THEN taken[j] - 1 ELSE taken[j]

Counted(j) ==
  /\ lost[j] <= taken[j] /\ taken[j] <= wrote[j]
  /\ stream[j] = "none" => lost[j] = wrote[j]
  /\ bridge[j] = "off" => lost[j] = taken[j]
  /\ lost[j] <= Sent(j)
  /\ bridge[j] = "done" =>
       \/ box[j] = "gone"
       \/ stream[j] = "closed"
       \/ box[j] = "exited" /\ taken[j] = wrote[j]

(* Its client is there, and its bridge did not stop for being replaced.    *)
Listened(j) ==
  /\ conn[j] # None /\ client[conn[j]] # "gone"
  /\ bridge[j] = "done" => stream[j] # "closed"

Outputs(j) ==
  /\ \A i \in Received("output", j) :
       /\ Chunk(j, i) > lost[j] /\ Chunk(j, i) <= Sent(j)
       /\ HasRead(j, Chunk(j, i))
       /\ \A h \in Received("output", j) : h < i => Chunk(j, h) < Chunk(j, i)
       /\ \E h \in Received("started", j) : h < i
  /\ Listened(j) => HasRead(j, Sent(j))

Started(j) ==
  /\ \A h, i \in Received("started", j) : h = i
  /\ conn[j] = None \/ Handled(j, StartStages) => Received("started", j) = {}
  /\ bridge[j] # "off" \/ Handled(j, {"spawn"}) => Received("started", j) # {}

Exited(j) ==
  \A i \in Received("exit", j) :
    /\ j \in Runs /\ exit[j] \in {"clean", "done"}
    /\ \A kind \in Kinds : \A h \in Received(kind, j) : h <= i
    /\ box[j] = "exited" /\ stream[j] = "open" => HasRead(j, wrote[j])

Late(j, k) ==
  conn[j] = conn[k] =>
    \A s \in Received("started", j), t \in Received("started", k) :
      s < t =>
        /\ latest[conn[j]] # j
        /\ \A i \in Received("output", j) :
             i > t => bridge[j] \notin {"send", "write"}
        /\ \A h, i \in Received("output", j) : h > t /\ i > t => h = i

IInv ==
  /\ TypeOK
  /\ \A c \in Connections : Pointers(c) /\ Addressed(c)
  /\ \A j \in Launches :
       Goroutines(j) /\ Counted(j) /\ Outputs(j) /\ Started(j) /\ Exited(j)
  /\ \A j, k \in Launches : Late(j, k)

-----------------------------------------------------------------------------
(* Messages and who they are about.                                        *)
LEMMA DeliverType ==
  ASSUME TypeOK, NEW c \in Connections, NEW kind \in Kinds,
         NEW j \in Launches, NEW n \in Nat, Deliver(c, kind, j, n)
  PROVE  inbox' \in [Connections -> Seq(Messages)]
<1> DEFINE m == [kind |-> kind, of |-> j, n |-> n]
<1>1. m \in Messages
  BY DEF Messages
<1>2. inbox[c] \in Seq(Messages)
  BY DEF TypeOK
<1>3. Append(inbox[c], m) \in Seq(Messages)
  BY <1>1, <1>2
<1>4. inbox' = inbox \/ inbox' = [inbox EXCEPT ![c] = Append(inbox[c], m)]
  BY DEF Deliver
<1> HIDE DEF m
<1> QED
  BY <1>3, <1>4 DEF TypeOK

LEMMA ConnOfLaunch ==
  ASSUME IInv, NEW j \in Launches, bridge[j] # "off"
  PROVE  conn[j] \in Connections
BY DEF IInv, Goroutines, TypeOK, Types

LEMMA LetGoType ==
  ASSUME Types, NEW c \in Connections, LetGo(c)
  PROVE  /\ cur' = [cur EXCEPT ![c] = None]
         /\ cur' \in [Connections -> Launches \union {None}]
         /\ box' \in [Launches -> {"none", "running", "exited", "gone"}]
         /\ stream' \in [Launches -> {"none", "open", "closed"}]
         /\ \A j \in Launches :
              /\ cur[c] = j => box'[j] = "gone" /\ stream'[j] = "closed"
              /\ cur[c] # j => box'[j] = box[j] /\ stream'[j] = stream[j]
<1>1. CASE cur[c] = None
  BY <1>1, ConsoleAssumption DEF Types, LetGo, dockerVars
<1>2. CASE cur[c] # None
  <2>1. PICK k \in Launches : cur[c] = k
    BY <1>2 DEF Types
  <2>2. /\ cur' = [cur EXCEPT ![c] = None]
        /\ stream' = [stream EXCEPT ![k] = "closed"]
        /\ box' = [box EXCEPT ![k] = "gone"]
    BY <1>2, <2>1 DEF LetGo, Cancel
  <2> QED
    BY <2>1, <2>2 DEF Types
<1> QED
  BY <1>1, <1>2

LEMMA StopTimerType ==
  ASSUME Types, NEW j \in Launches
  PROVE  /\ StopTimer(j) =>
              /\ timer' \in [Launches -> {"off", "armed", "send", "write", "cancel"}]
              /\ timer'[j] \in {"off", timer[j]}
              /\ \A k \in Launches : k # j => timer'[k] = timer[k]
         /\ Cancel(j) =>
              /\ stream' \in [Launches -> {"none", "open", "closed"}]
              /\ stream'[j] = "closed"
              /\ \A k \in Launches : k # j => stream'[k] = stream[k]
BY DEF Types, StopTimer, Cancel

LEMMA LatestType ==
  ASSUME TypeOK, NEW c \in Connections,
         pc[c] \notin {"reading", "closed"} \union RefusalStages
  PROVE  latest[c] \in Launches
BY DEF TypeOK, Types

LEMMA RefusedType ==
  ASSUME IInv, NEW c \in Connections, pc[c] \in RefusalStages
  PROVE  \E j \in Launches :
           /\ refused[c] = j /\ conn[j] = c /\ c # None
           /\ latest[c] # j /\ bridge[j] = "off"
           /\ client[c] # "gone"
<1>1. PICK j \in Launches : refused[c] = j
  BY DEF IInv, TypeOK, Types, Launches
<1>2. /\ c # None /\ j # None /\ Pointers(c) /\ Goroutines(j)
  BY ConsoleAssumption DEF IInv
<1>3. pc[c] # "closed"
  BY DEF RefusalStages
<1>4. client[c] # "gone"
  BY <1>2, <1>3 DEF Pointers
<1>5. conn[j] = c
  BY <1>1, <1>2 DEF Pointers
<1> QED
  BY <1>1, <1>2, <1>4, <1>5 DEF Goroutines

LEMMA TypesStep == IInv /\ [Next]_vars => Types'
<1> SUFFICES ASSUME IInv, [Next]_vars PROVE Types'
  OBVIOUS
<1>0. Types
  BY DEF IInv, TypeOK
<1> USE DEF vars, loopVars, dockerVars, clientVars, programVars
<1>1. ASSUME NEW c \in Connections, NEW j \in Launches, HandleLaunch(c, j)
      PROVE  Types'
  BY <1>0, <1>1, LetGoType DEF HandleLaunch, Types
<1>2. ASSUME NEW c \in Connections, Close(c) PROVE Types'
  BY <1>0, <1>2, LetGoType DEF Close, Types
<1>9. ASSUME NEW c \in Connections, NEW j \in Launches, RefuseRun(c, j)
      PROVE  Types'
  BY <1>0, <1>9 DEF RefuseRun, Types
<1>10. ASSUME NEW c \in Connections, Refusal(c) PROVE Types'
  BY <1>0, <1>10 DEF Refusal, RefusalLocks, RefusalWrites, Deliver, Types
<1>3. ASSUME NEW c \in Connections, Loop(c) PROVE Types'
  <2>1. CASE Start(c)
    BY <1>0, <2>1 DEF Start, Types
  <2>2. CASE AttachStore(c)
    <3>1. PICK j \in Launches : latest[c] = j
      BY <2>2, LatestType DEF AttachStore, IInv, RefusalStages
    <3> QED
      BY <1>0, <2>2, <3>1 DEF AttachStore, Types
  <2>3. CASE LoopLocks(c)
    BY <1>0, <2>3 DEF LoopLocks, Types
  <2>4. CASE LoopWrites(c)
    BY <1>0, <2>4 DEF LoopWrites, Deliver, Types
  <2>5. CASE Spawn(c)
    BY <1>0, <2>5 DEF Spawn, Types
  <2> QED
    BY <1>3, <2>1, <2>2, <2>3, <2>4, <2>5 DEF Loop
<1>4. ASSUME NEW j \in Launches, ProgramPrints(j) \/ End(j) PROVE Types'
  <2>1. CASE ProgramPrints(j) /\ stream[j] # "none"
    BY <1>0, <2>1 DEF ProgramPrints, Types
  <2>2. CASE ProgramPrints(j) /\ stream[j] = "none"
    BY <1>0, <2>2 DEF ProgramPrints, Types
  <2>3. CASE End(j)
    BY <1>0, <2>3 DEF End, Types
  <2> QED
    BY <1>4, <2>1, <2>2, <2>3
<1>5. ASSUME NEW j \in Launches, Bridge(j) PROVE Types'
  <2>1. CASE BridgeWrites(j)
    BY <1>0, <2>1 DEF BridgeWrites, Deliver, Types
  <2>2. CASE BridgeReads(j) \/ BridgeLocks(j)
    BY <1>0, <2>2 DEF BridgeReads, BridgeLocks, Types
  <2>3. CASE BridgeEnds(j)
    <3>1. timer' \in [Launches -> {"off", "armed", "send", "write", "cancel"}]
      BY <1>0, <2>3, StopTimerType DEF BridgeEnds, Types
    <3> QED
      BY <1>0, <2>3, <3>1 DEF BridgeEnds, Types
  <2>4. CASE BridgeChecks(j)
    <3>1. timer' \in [Launches -> {"off", "armed", "send", "write", "cancel"}]
      BY <1>0, <2>4, StopTimerType DEF BridgeChecks, Types
    <3>2. bridge' \in [Launches -> {"off", "read", "check", "send", "write", "done"}]
      BY <1>0, <2>4 DEF BridgeChecks, Types
    <3> QED
      BY <1>0, <2>4, <3>1, <3>2 DEF BridgeChecks, Types
  <2> QED
    BY <1>5, <2>1, <2>2, <2>3, <2>4 DEF Bridge
<1>6. ASSUME NEW j \in Launches, Exit(j) PROVE Types'
  <2>0. exit[j] # "off" => conn[j] \in Connections
    BY ConnOfLaunch DEF IInv, Goroutines
  <2>1. CASE ExitWrites(j)
    BY <1>0, <2>1 DEF ExitWrites, Deliver, Types
  <2>2. CASE CleanUp(j)
    BY <1>0, <2>0, <2>2, LetGoType DEF CleanUp, Types
  <2>3. CASE OutputDone(j)
    <3>1. timer' \in [Launches -> {"off", "armed", "send", "write", "cancel"}]
      BY <1>0, <2>3, StopTimerType DEF OutputDone, Types
    <3> QED
      BY <1>0, <2>3, <3>1 DEF OutputDone, Types
  <2>4. CASE Recheck(j) \/ ExitLocks(j)
    BY <1>0, <2>4 DEF Recheck, ExitLocks, Types
  <2> QED
    BY <1>6, <2>1, <2>2, <2>3, <2>4 DEF Exit
<1>7. ASSUME NEW j \in Launches, Timer(j) PROVE Types'
  <2>1. CASE TimerWrites(j)
    BY <1>0, <2>1 DEF TimerWrites, Deliver, Types
  <2>2. CASE TimerFires(j)
    <3>1. timer' \in [Launches -> {"off", "armed", "send", "write", "cancel"}]
      BY <1>0, <2>2 DEF TimerFires, Types
    <3>2. stream' \in [Launches -> {"none", "open", "closed"}]
      BY <1>0, <2>2, StopTimerType DEF TimerFires, Types
    <3> QED
      BY <1>0, <2>2, <3>1, <3>2 DEF TimerFires, Types
  <2>3. CASE TimerLocks(j) \/ TimerCancels(j)
    BY <1>0, <2>3 DEF TimerLocks, TimerCancels, Cancel, Types
  <2> QED
    BY <1>7, <2>1, <2>2, <2>3 DEF Timer
<1>8. CASE UNCHANGED vars
  BY <1>0, <1>8 DEF Types
<1> QED
  BY <1>1, <1>2, <1>3, <1>4, <1>5, <1>6, <1>7, <1>8, <1>9, <1>10 DEF Next


-----------------------------------------------------------------------------
(* The main loop, the goroutines and st.session. What a step leaves alone  *)
(* of a connection or a launch need not be looked at again.                *)
HandlesLatest(c) ==
  /\ pc[c] \notin {"reading", "closed"} \union RefusalStages =>
       latest[c] # None /\ cur[c] \in {None, latest[c]}
  /\ pc[c] \in RefusalStages => refused[c] # None

Control ==
  /\ \A c \in Connections : Pointers(c) /\ HandlesLatest(c)
  /\ \A j \in Launches : Goroutines(j)

LEMMA PointersKept ==
  ASSUME NEW c, Pointers(c), HandlesLatest(c),
         UNCHANGED <<latest[c], pc[c], client[c], refused[c]>>,
         cur'[c] \in {cur[c], None}, UNCHANGED conn
  PROVE  Pointers(c)' /\ HandlesLatest(c)'
BY DEF Pointers, HandlesLatest

LEMMA GoroutinesKept ==
  ASSUME NEW j, Goroutines(j),
         UNCHANGED <<conn[j], stream[j], bridge[j], exit[j], timer[j]>>,
         conn[j] # None => UNCHANGED <<cur[conn[j]], latest[conn[j]],
                                       pc[conn[j]], refused[conn[j]]>>
  PROVE  Goroutines(j)'
BY DEF Goroutines, Handled

LEMMA ControlStep == IInv /\ [Next]_vars => Control'
<1> SUFFICES ASSUME IInv, [Next]_vars PROVE Control'
  OBVIOUS
<1>0. Types /\ Types'
  BY TypesStep DEF IInv, TypeOK
<1>1. /\ \A c \in Connections : Pointers(c) /\ HandlesLatest(c)
      /\ \A j \in Launches : Goroutines(j)
  BY DEF IInv, TypeOK, HandlesLatest
<1> USE DEF vars, loopVars, dockerVars, clientVars, programVars
<1>2. ASSUME NEW c \in Connections, NEW j \in Launches, HandleLaunch(c, j)
      PROVE  Control'
  <2>1. ASSUME NEW d \in Connections PROVE Pointers(d)' /\ HandlesLatest(d)'
    BY <1>0, <1>1, <1>2, <2>1, LetGoType, ConsoleAssumption
       DEF HandleLaunch, Pointers, HandlesLatest, Types, RefusalStages
  <2>2. ASSUME NEW k \in Launches PROVE Goroutines(k)'
    BY <1>0, <1>1, <1>2, <2>2, LetGoType, ConsoleAssumption
       DEF HandleLaunch, Goroutines, Handled, Pointers, Types, BusyStages,
           StartStages, ErrorStages
  <2> QED
    BY <2>1, <2>2 DEF Control
<1>3. ASSUME NEW c \in Connections, Close(c) PROVE Control'
  <2>1. ASSUME NEW d \in Connections PROVE Pointers(d)' /\ HandlesLatest(d)'
    BY <1>0, <1>1, <1>3, <2>1, LetGoType, ConsoleAssumption
       DEF Close, Pointers, HandlesLatest, Types, RefusalStages
  <2>2. ASSUME NEW k \in Launches PROVE Goroutines(k)'
    BY <1>0, <1>1, <1>3, <2>2, LetGoType, ConsoleAssumption
       DEF Close, Goroutines, Handled, Pointers, Types, BusyStages,
           StartStages, ErrorStages
  <2> QED
    BY <2>1, <2>2 DEF Control

<1>4. ASSUME NEW c \in Connections, Loop(c) PROVE Control'
  <2>1. PICK j \in Launches : latest[c] = j
    BY <1>4, LatestType
       DEF Loop, Start, AttachStore, LoopLocks, LoopWrites, Spawn, IInv,
           RefusalStages
  <2>2. conn[j] = c /\ UNCHANGED <<latest, refused, conn, client>>
    BY <1>1, <1>4, <2>1, ConsoleAssumption
       DEF Loop, Start, AttachStore, LoopLocks, LoopWrites, Spawn, Pointers,
           Deliver
  <2>3. ASSUME NEW d \in Connections, d # c
        PROVE  Pointers(d)' /\ HandlesLatest(d)'
    <3>1. UNCHANGED <<latest[d], pc[d], client[d], cur[d], refused[d]>>
      BY <1>0, <1>4, <2>2, <2>3
         DEF Loop, Start, AttachStore, LoopLocks, LoopWrites, Spawn, Types
    <3> QED
      BY <1>1, <2>2, <3>1, PointersKept
  <2>4. ASSUME NEW k \in Launches, k # j PROVE Goroutines(k)'
    <3>1. UNCHANGED <<conn[k], stream[k], bridge[k], exit[k], timer[k]>>
      BY <1>0, <1>4, <2>1, <2>2, <2>4
         DEF Loop, Start, AttachStore, LoopLocks, LoopWrites, Spawn, Types
    <3>2. CASE conn[k] # c
      <4>1. conn[k] # None =>
              UNCHANGED <<cur[conn[k]], latest[conn[k]], pc[conn[k]],
                          refused[conn[k]]>>
        BY <1>0, <1>4, <2>2, <3>2
           DEF Loop, Start, AttachStore, LoopLocks, LoopWrites, Spawn, Types
      <4> QED
        BY <1>1, <2>4, <3>1, <4>1, GoroutinesKept
    <3>3. CASE conn[k] = c
      <4>1. cur[c] # k
        BY <1>1, <2>1, <2>4, ConsoleAssumption DEF Pointers
      <4>2. Goroutines(k)
        BY <1>1
      <4>3. latest'[c] # k /\ conn'[k] = c /\ UNCHANGED <<latest, refused>>
        BY <2>1, <2>2, <2>4, <3>3
      <4> QED
        BY <3>1, <3>3, <4>1, <4>2, <4>3 DEF Goroutines, Handled
    <3> QED
      BY <3>2, <3>3
  <2>5. Pointers(c)' /\ HandlesLatest(c)' /\ Goroutines(j)'
    <3> USE DEF Pointers, HandlesLatest, Goroutines, Handled, BusyStages,
                StartStages, ErrorStages, RefusalStages, Types
    <3>0. Pointers(c) /\ HandlesLatest(c) /\ Goroutines(j)
      BY <1>1
    <3>1. CASE Start(c)
      BY <1>0, <2>1, <2>2, <3>0, <3>1, ConsoleAssumption DEF Start
    <3>2. CASE AttachStore(c)
      BY <1>0, <2>1, <2>2, <3>0, <3>2, ConsoleAssumption DEF AttachStore
    <3>3. CASE LoopLocks(c)
      BY <1>0, <2>1, <2>2, <3>0, <3>3, ConsoleAssumption DEF LoopLocks
    <3>4. CASE LoopWrites(c)
      BY <1>0, <2>1, <2>2, <3>0, <3>4, ConsoleAssumption DEF LoopWrites
    <3>5. CASE Spawn(c)
      BY <1>0, <2>1, <2>2, <3>0, <3>5, ConsoleAssumption DEF Spawn
    <3> QED
      BY <1>4, <3>1, <3>2, <3>3, <3>4, <3>5 DEF Loop
  <2> QED
    BY <2>3, <2>4, <2>5 DEF Control
(* A goroutine of launch j: only CleanUp touches st.session.               *)
<1>5. ASSUME NEW j \in Launches,
             UNCHANGED <<pc, latest, refused, conn, client, cur>>,
             \A k \in Launches : k # j =>
               UNCHANGED <<stream[k], bridge[k], exit[k], timer[k]>>,
             Goroutines(j)'
      PROVE  Control'
  <2>1. ASSUME NEW d \in Connections PROVE Pointers(d)' /\ HandlesLatest(d)'
    BY <1>1, <1>5, <2>1, PointersKept
  <2>2. ASSUME NEW k \in Launches, k # j PROVE Goroutines(k)'
    BY <1>1, <1>5, <2>2, GoroutinesKept
  <2> QED
    BY <1>5, <2>1, <2>2 DEF Control
<1>6. ASSUME NEW j \in Launches, ProgramPrints(j) \/ End(j) PROVE Control'
  <2>1. Goroutines(j)'
    BY <1>1, <1>6, GoroutinesKept DEF ProgramPrints, End
  <2> QED
    BY <1>5, <1>6, <2>1 DEF ProgramPrints, End
<1>7. ASSUME NEW j \in Launches, Bridge(j) PROVE Control'
  <2>1. UNCHANGED <<pc, latest, refused, conn, client, cur, stream, exit>>
    BY <1>7 DEF Bridge, BridgeReads, BridgeEnds, BridgeChecks, BridgeLocks,
                BridgeWrites, Deliver
  <2>2. /\ bridge[j] \notin {"off", "done"} /\ bridge'[j] # "off"
        /\ timer'[j] \in {"off", timer[j]}
        /\ \A k \in Launches : k # j => UNCHANGED <<bridge[k], timer[k]>>
    BY <1>0, <1>7, StopTimerType
       DEF Bridge, BridgeReads, BridgeEnds, BridgeChecks, BridgeLocks,
           BridgeWrites, Types
  <2>3. Goroutines(j)'
    BY <1>1, <2>1, <2>2 DEF Goroutines, Handled
  <2> QED
    BY <1>5, <2>1, <2>2, <2>3
<1>8. ASSUME NEW j \in Launches, Exit(j) PROVE Control'
  <2>0. Goroutines(j) /\ bridge[j] # "off" /\ conn[j] \in Connections
    BY <1>1, <1>8, ConnOfLaunch
       DEF Exit, OutputDone, Recheck, ExitLocks, ExitWrites, CleanUp,
           Goroutines
  <2>1. CASE OutputDone(j)
    <3>1. /\ exit'[j] \in {"done", "recheck", "clean"}
          /\ exit'[j] = "recheck" => j \in Runs
          /\ timer'[j] \in {"off", timer[j]}
          /\ \A k \in Launches : k # j => UNCHANGED <<exit[k], timer[k]>>
      BY <1>0, <2>1, StopTimerType DEF OutputDone, Types
    <3>2. Goroutines(j)'
      BY <2>0, <2>1, <3>1 DEF Goroutines, Handled, OutputDone
    <3> QED
      BY <1>5, <2>1, <3>1, <3>2 DEF OutputDone
  <2>2. CASE Recheck(j) \/ ExitLocks(j) \/ ExitWrites(j)
    <3>1. /\ exit[j] \in {"recheck", "send", "write"}
          /\ exit'[j] \in {"send", "done", "write", "clean"}
          /\ \A k \in Launches : k # j => UNCHANGED exit[k]
          /\ UNCHANGED <<pc, latest, refused, conn, client, cur, stream,
                         bridge, timer>>
      BY <1>0, <2>2 DEF Recheck, ExitLocks, ExitWrites, Deliver, Types
    <3>2. Goroutines(j)'
      BY <2>0, <3>1 DEF Goroutines, Handled
    <3> QED
      BY <1>5, <3>1, <3>2
  <2>3. CASE CleanUp(j)
    <3>1. /\ UNCHANGED <<pc, latest, refused, conn, client, bridge, timer>>
          /\ exit[j] = "clean" /\ exit'[j] = "done"
          /\ \A k \in Launches : k # j => UNCHANGED exit[k]
      BY <1>0, <2>3 DEF CleanUp, Types
    <3>2. CASE IsCurrent(j)
      <4>1. LetGo(conn[j]) /\ cur[conn[j]] = j /\ latest[conn[j]] = j
        BY <1>1, <2>0, <2>3, <3>2 DEF CleanUp, IsCurrent, Pointers
      <4>2. /\ cur' = [cur EXCEPT ![conn[j]] = None]
            /\ stream'[j] = "closed"
            /\ \A k \in Launches : k # j => stream'[k] = stream[k]
        BY <1>0, <2>0, <4>1, LetGoType
      <4>3. ASSUME NEW d \in Connections PROVE Pointers(d)' /\ HandlesLatest(d)'
        <5>1. cur'[d] \in {cur[d], None}
          BY <1>0, <4>2 DEF Types
        <5> QED
          BY <1>1, <3>1, <5>1, PointersKept
      <4>4. pc[conn[j]] \in {"reading", "closed"} \union RefusalStages
        <5>1. PICK d \in Connections : conn[j] = d
          BY <2>0
        <5>2. pc[d] \notin BusyStages
          BY <2>0, <4>1, <5>1, ConsoleAssumption DEF Goroutines, Handled
        <5>3. pc[d] \in {"reading", "closed"} \union RefusalStages
                         \union BusyStages
          BY <1>0 DEF BusyStages, StartStages, ErrorStages, RefusalStages, Types
        <5> QED
          BY <5>1, <5>2, <5>3
      <4>5. ASSUME NEW k \in Launches, k # j PROVE Goroutines(k)'
        <5>1. CASE conn[k] # conn[j]
          <6>1. conn[k] # None => UNCHANGED cur[conn[k]]
            <7>1. PICK d \in Connections : conn[j] = d
              BY <2>0
            <7>2. cur \in [Connections -> Launches \union {None}]
              BY <1>0 DEF Types
            <7>3. conn[k] # None => conn[k] \in Connections
              BY <1>0 DEF Types
            <7> QED
              BY <3>1, <4>2, <5>1, <7>1, <7>2, <7>3
          <6> QED
            BY <1>1, <3>1, <4>2, <4>5, <6>1, GoroutinesKept
        <5>2. CASE conn[k] = conn[j]
          <6>1. latest[conn[k]] # k /\ cur[conn[k]] # k
            BY <4>1, <4>5, <5>2
          <6>2. Goroutines(k)
            BY <1>1
          <6> QED
            BY <3>1, <4>2, <4>5, <6>1, <6>2 DEF Goroutines, Handled
        <5> QED
          BY <5>1, <5>2
      <4>6. Goroutines(j)'
        BY <1>0, <2>0, <3>1, <4>1, <4>2, <4>4
           DEF Goroutines, Handled, BusyStages, StartStages, ErrorStages,
               RefusalStages
      <4> QED
        BY <4>3, <4>5, <4>6 DEF Control
    <3>3. CASE ~IsCurrent(j)
      <4>1. UNCHANGED <<cur, stream>>
        BY <2>3, <3>3 DEF CleanUp
      <4>2. Goroutines(j)'
        BY <2>0, <3>1, <4>1 DEF Goroutines, Handled
      <4> QED
        BY <1>5, <3>1, <4>1, <4>2
    <3> QED
      BY <3>2, <3>3
  <2> QED
    BY <1>8, <2>1, <2>2, <2>3 DEF Exit
<1>9. ASSUME NEW j \in Launches, Timer(j) PROVE Control'
  <2>0. Goroutines(j) /\ timer[j] # "off"
    BY <1>1, <1>9 DEF Timer, TimerFires, TimerLocks, TimerWrites, TimerCancels
  <2>1. UNCHANGED <<pc, latest, refused, conn, client, cur, bridge, exit>>
    BY <1>9 DEF Timer, TimerFires, TimerLocks, TimerWrites, TimerCancels,
                Deliver
  <2>2. /\ timer'[j] \in {"send", "write", "cancel"} => j \in Shells
        /\ \A k \in Launches : k # j => UNCHANGED timer[k]
    BY <1>0, <1>9, <2>0
       DEF Timer, TimerFires, TimerLocks, TimerWrites, TimerCancels, Types,
           Goroutines
  <2>3. /\ stream'[j] \in {stream[j], "closed"}
        /\ \A k \in Launches : k # j => UNCHANGED stream[k]
    BY <1>0, <1>9, StopTimerType
       DEF Timer, TimerFires, TimerLocks, TimerWrites, TimerCancels, Types
  <2>4. Goroutines(j)'
    BY <2>0, <2>1, <2>2, <2>3 DEF Goroutines, Handled
  <2> QED
    BY <1>5, <2>1, <2>2, <2>3, <2>4
<1>11. ASSUME NEW c \in Connections, NEW j \in Launches, RefuseRun(c, j)
       PROVE  Control'
  <2>1. ASSUME NEW d \in Connections PROVE Pointers(d)' /\ HandlesLatest(d)'
    BY <1>0, <1>1, <1>11, <2>1, ConsoleAssumption
       DEF RefuseRun, Pointers, HandlesLatest, Types, RefusalStages
  <2>2. ASSUME NEW k \in Launches PROVE Goroutines(k)'
    BY <1>0, <1>1, <1>11, <2>2, ConsoleAssumption
       DEF RefuseRun, Goroutines, Handled, Pointers, Types, BusyStages,
           StartStages, ErrorStages
  <2> QED
    BY <2>1, <2>2 DEF Control
<1>12. ASSUME NEW c \in Connections, Refusal(c) PROVE Control'
  <2>1. /\ UNCHANGED <<cur, latest, refused, conn, client, stream, bridge, exit,
                       timer>>
        /\ pc[c] \in RefusalStages /\ pc'[c] \in RefusalStages \union {"reading"}
        /\ \A d \in Connections : d # c => pc'[d] = pc[d]
    BY <1>0, <1>12 DEF Refusal, RefusalLocks, RefusalWrites, Deliver, Types,
                       RefusalStages
  <2>2. ASSUME NEW d \in Connections PROVE Pointers(d)' /\ HandlesLatest(d)'
    BY <1>1, <2>1, <2>2 DEF Pointers, HandlesLatest, RefusalStages
  <2>3. ASSUME NEW k \in Launches PROVE Goroutines(k)'
    <3>1. CASE conn[k] = c
      BY <1>1, <2>1, <3>1 DEF Goroutines, Handled, BusyStages, StartStages,
                              ErrorStages, RefusalStages
    <3>2. CASE conn[k] # c
      <4>1. conn[k] # None => UNCHANGED pc[conn[k]]
        BY <1>0, <2>1, <3>2 DEF Types
      <4> QED
        BY <1>1, <2>1, <4>1, GoroutinesKept
    <3> QED
      BY <3>1, <3>2
  <2> QED
    BY <2>2, <2>3 DEF Control
<1>10. CASE UNCHANGED vars
  <2>1. ASSUME NEW d \in Connections PROVE Pointers(d)' /\ HandlesLatest(d)'
    BY <1>1, <1>10, <2>1, PointersKept
  <2>2. ASSUME NEW k \in Launches PROVE Goroutines(k)'
    BY <1>1, <1>10, <2>2, GoroutinesKept
  <2> QED
    BY <2>1, <2>2 DEF Control
<1> QED
  BY <1>2, <1>3, <1>4, <1>6, <1>7, <1>8, <1>9, <1>10, <1>11, <1>12 DEF Next

-----------------------------------------------------------------------------
(* What a step does to the messages about a launch: nothing when nobody    *)
(* writes, and one message is added when somebody does.                    *)
SameOf(kind, j) ==
  /\ Received(kind, j)' = Received(kind, j)
  /\ \A i \in Received(kind, j) : Chunk(j, i)' = Chunk(j, i)

LEMMA ReceivedType ==
  ASSUME TypeOK, NEW j \in Launches, NEW kind
  PROVE  /\ conn[j] = None => Received(kind, j) = {}
         /\ Received(kind, j) \subseteq Nat
         /\ \A i \in Received(kind, j) : Chunk(j, i) \in Nat
<1>1. CASE conn[j] = None
  BY <1>1 DEF Received
<1>2. CASE conn[j] # None
  <2>1. PICK c \in Connections : conn[j] = c
    BY <1>2 DEF TypeOK, Types
  <2>2. inbox[c] \in Seq(Messages)
    BY DEF TypeOK
  <2>3. DOMAIN inbox[c] \subseteq Nat /\ \A i \in DOMAIN inbox[c] : inbox[c][i] \in Messages
    BY <2>2
  <2> QED
    BY <1>2, <2>1, <2>3 DEF Received, Chunk, Messages
<1> QED
  BY <1>1, <1>2

LEMMA InboxKept ==
  ASSUME NEW j \in Launches, NEW kind, NEW c \in Connections, Addressed(c),
         conn'[j] = conn[j] \/ (conn[j] = None /\ conn'[j] = c),
         UNCHANGED inbox
  PROVE  SameOf(kind, j)
<1>1. CASE conn'[j] = conn[j]
  BY <1>1 DEF SameOf, Received, Chunk
<1>2. CASE conn[j] = None /\ conn'[j] = c
  BY <1>2, ConsoleAssumption DEF SameOf, Received, Chunk, Addressed
<1> QED
  BY <1>1, <1>2

LEMMA InboxGrows ==
  ASSUME TypeOK, UNCHANGED conn, NEW c \in Connections, NEW kind \in Kinds,
         NEW k \in Launches, NEW n \in Nat, Deliver(c, kind, k, n),
         client[c] = "reads", conn[k] = c
  PROVE  \E m \in Nat :
           /\ Received(kind, k)' = Received(kind, k) \union {m}
           /\ Chunk(k, m)' = n
           /\ \A i \in Received(kind, k) : Chunk(k, i)' = Chunk(k, i)
           /\ \A j \in Launches, kd \in Kinds :
                j # k \/ kd # kind => SameOf(kd, j)
           /\ \A j \in Launches, kd \in Kinds :
                conn[j] = c => \A i \in Received(kd, j) : i < m
<1> DEFINE msg == [kind |-> kind, of |-> k, n |-> n]
<1>0. PICK m : m = Len(inbox[c]) + 1
  OBVIOUS
<1>1. inbox[c] \in Seq(Messages) /\ msg \in Messages
  BY DEF TypeOK, Messages
<1>2. /\ inbox' = [inbox EXCEPT ![c] = Append(inbox[c], msg)]
      /\ inbox'[c] = Append(inbox[c], msg)
      /\ \A d \in Connections : d # c => inbox'[d] = inbox[d]
  BY DEF Deliver, TypeOK
<1>3. /\ DOMAIN inbox[c] \subseteq Nat
      /\ DOMAIN inbox'[c] = DOMAIN inbox[c] \union {m}
      /\ m \in Nat /\ \A i \in DOMAIN inbox[c] : i < m
      /\ inbox'[c][m] = msg
      /\ \A i \in DOMAIN inbox[c] : inbox'[c][i] = inbox[c][i]
  BY <1>0, <1>1, <1>2
<1>4. /\ msg.kind = kind /\ msg.of = k /\ msg.n = n
  OBVIOUS
<1> HIDE DEF msg
<1>5. conn[k] # None /\ conn'[k] = c
  BY ConsoleAssumption
<1>6. /\ Received(kind, k)' = Received(kind, k) \union {m}
      /\ Chunk(k, m)' = n
      /\ \A i \in Received(kind, k) : Chunk(k, i)' = Chunk(k, i)
  <2>1. /\ Received(kind, k) = {i \in DOMAIN inbox[c] :
                                inbox[c][i].kind = kind /\ inbox[c][i].of = k}
        /\ Received(kind, k)' = {i \in DOMAIN inbox'[c] :
                                 inbox'[c][i].kind = kind /\ inbox'[c][i].of = k}
    BY <1>5 DEF Received
  <2>2. Chunk(k, m)' = n
    BY <1>3, <1>4, <1>5 DEF Chunk
  <2>3. \A i \in Received(kind, k) : Chunk(k, i)' = Chunk(k, i)
    BY <1>3, <1>5, <2>1 DEF Chunk
  <2>4. Received(kind, k)' = Received(kind, k) \union {m}
    BY <1>3, <1>4, <2>1
  <2> QED
    BY <2>2, <2>3, <2>4
<1>7. ASSUME NEW j \in Launches, NEW kd \in Kinds, j # k \/ kd # kind
      PROVE  SameOf(kd, j)
  <2>1. CASE conn[j] = c
    BY <1>3, <1>4, <1>5, <1>7, <2>1 DEF Received, Chunk, SameOf
  <2>2. CASE conn[j] # c
    <3>1. conn[j] # None => inbox'[conn[j]] = inbox[conn[j]]
      BY <1>2, <2>2 DEF TypeOK, Types
    <3> QED
      BY <3>1 DEF Received, Chunk, SameOf
  <2> QED
    BY <2>1, <2>2
<1>8. ASSUME NEW j \in Launches, NEW kd \in Kinds, conn[j] = c
      PROVE  \A i \in Received(kd, j) : i < m
  BY <1>3, <1>8, ConsoleAssumption DEF Received
<1> QED
  BY <1>3, <1>6, <1>7, <1>8


LEMMA AddressedKept ==
  ASSUME TypeOK, UNCHANGED conn, NEW c \in Connections, NEW kind, NEW n,
         NEW k \in Launches, Deliver(c, kind, k, n), conn[k] = c,
         NEW d \in Connections, Addressed(d)
  PROVE  Addressed(d)'
<1> DEFINE msg == [kind |-> kind, of |-> k, n |-> n]
<1>1. CASE inbox'[d] = inbox[d]
  BY <1>1 DEF Addressed
<1>2. CASE inbox'[d] # inbox[d]
  <2>1. c = d /\ inbox'[d] = Append(inbox[d], msg)
    BY <1>2 DEF Deliver, TypeOK
  <2>2. inbox[d] \in Seq(Messages)
    BY DEF TypeOK
  <2>3. msg.of = k
    OBVIOUS
  <2> HIDE DEF msg
  <2>4. \A i \in DOMAIN inbox'[d] :
          inbox'[d][i] = msg \/ (i \in DOMAIN inbox[d] /\ inbox'[d][i] = inbox[d][i])
    BY <2>1, <2>2
  <2> QED
    BY <2>1, <2>3, <2>4 DEF Addressed
<1> QED
  BY <1>1, <1>2

-----------------------------------------------------------------------------
(* What a step may do to a launch for what was sent about it to stay true. *)

(* Nothing is read that its client does not get.                           *)
Flow(j) ==
  /\ \/ lost'[j] = lost[j] /\ Sent(j)' >= Sent(j)
     \/ lost[j] = Sent(j)
  /\ \/ Listened(j)' =>
          Listened(j) /\ Sent(j)' = Sent(j) /\ lost'[j] = lost[j]
     \/ Sent(j)' = lost'[j]

(* Its handler does not go past "started".                                 *)
Stages(j) ==
  /\ conn'[j] = None \/ Handled(j, StartStages)'
       => conn[j] = None \/ Handled(j, StartStages)
  /\ bridge'[j] # "off" \/ Handled(j, {"spawn"})'
       => bridge[j] # "off" \/ Handled(j, {"spawn"})

(* Once its exit was reported, it does not come to have exited otherwise.  *)
Ending(j) ==
  exit[j] \in {"clean", "done"} =>
    /\ exit'[j] \in {"clean", "done"}
    /\ box'[j] = "exited" /\ stream'[j] = "open" =>
         /\ box[j] = "exited" /\ stream[j] = "open"
         /\ wrote'[j] = wrote[j] /\ lost'[j] = lost[j]

(* Once it was replaced, it has nothing more to send.                      *)
Passing(j) ==
  conn[j] # None =>
    /\ conn'[j] = conn[j]
    /\ latest[conn[j]] # j =>
         /\ latest'[conn[j]] # j
         /\ bridge'[j] \in {"send", "write"} => bridge[j] \in {"send", "write"}

LEMMA OutputsKept ==
  ASSUME TypeOK, Types', NEW j \in Launches, Outputs(j), Flow(j),
         SameOf("output", j), Received("started", j) \subseteq Received("started", j)'
  PROVE  Outputs(j)'
<1> DEFINE O == Received("output", j)
<1>1. /\ O \subseteq Nat /\ \A i \in O : Chunk(j, i) \in Nat
      /\ lost[j] \in Nat /\ lost'[j] \in Nat /\ Sent(j) \in Int /\ Sent(j)' \in Int
  <2>1. O \subseteq Nat /\ \A i \in O : Chunk(j, i) \in Nat
    BY ReceivedType
  <2>2. /\ lost[j] \in Nat /\ lost'[j] \in Nat
        /\ taken[j] \in Nat /\ taken'[j] \in Nat
    BY DEF TypeOK, Types
  <2> QED
    BY <2>1, <2>2 DEF Sent
<1>2. O' = O /\ \A i \in O : Chunk(j, i)' = Chunk(j, i)
  BY DEF SameOf
<1>3. ASSUME lost'[j] = lost[j], Sent(j)' >= Sent(j),
             Listened(j)' =>
               (Listened(j) /\ Sent(j)' = Sent(j)) \/ Sent(j)' = lost'[j]
      PROVE  Outputs(j)'
  <2>1. ASSUME NEW n PROVE HasRead(j, n) => HasRead(j, n)'
    BY <1>2, <1>3 DEF HasRead
  <2>2. ASSUME NEW i \in O'
        PROVE  /\ Chunk(j, i)' > lost'[j] /\ Chunk(j, i)' <= Sent(j)'
               /\ HasRead(j, Chunk(j, i))'
               /\ \A h \in O' : h < i => Chunk(j, h)' < Chunk(j, i)'
               /\ \E h \in Received("started", j)' : h < i
    <3>1. PICK n : n = Chunk(j, i)
      OBVIOUS
    <3>2. i \in O /\ Chunk(j, i)' = n
      BY <1>2, <2>2, <3>1
    <3>3. n > lost[j] /\ n <= Sent(j) /\ HasRead(j, n) /\ n \in Nat
      BY <1>1, <3>1, <3>2 DEF Outputs
    <3>4. HasRead(j, n)'
      BY <2>1, <3>3
    <3>5. HasRead(j, Chunk(j, i))'
      BY <3>2, <3>4 DEF HasRead
    <3>6. \A h \in O' : h < i => Chunk(j, h)' < Chunk(j, i)'
      BY <1>2, <3>2 DEF Outputs
    <3>7. \E h \in Received("started", j)' : h < i
      BY <3>2 DEF Outputs
    <3> QED
      BY <1>1, <1>3, <3>2, <3>3, <3>5, <3>6, <3>7
  <2>3. Listened(j)' => HasRead(j, Sent(j))'
    <3>1. CASE Sent(j)' = lost'[j]
      BY <1>1, <3>1 DEF HasRead
    <3>2. CASE Listened(j) /\ Sent(j)' = Sent(j)
      <4>1. PICK n : n = Sent(j)
        OBVIOUS
      <4>2. HasRead(j, n)
        BY <3>2, <4>1 DEF Outputs
      <4>3. HasRead(j, n)' /\ Sent(j)' = n
        BY <2>1, <3>2, <4>1, <4>2
      <4> QED
        BY <4>3 DEF HasRead
    <3> QED
      BY <1>3, <3>1, <3>2
  <2> QED
    BY <2>2, <2>3 DEF Outputs
<1>4. CASE lost[j] = Sent(j) /\ Sent(j)' = lost'[j]
  <2>1. O = {}
    BY <1>1, <1>4 DEF Outputs
  <2>2. HasRead(j, Sent(j))'
    BY <1>1, <1>4 DEF HasRead
  <2> QED
    BY <1>2, <2>1, <2>2 DEF Outputs
<1>5. CASE lost[j] = Sent(j) /\ ~Listened(j)'
  <2>1. O = {}
    BY <1>1, <1>5 DEF Outputs
  <2> QED
    BY <1>2, <1>5, <2>1 DEF Outputs
<1> QED
  BY <1>1, <1>3, <1>4, <1>5 DEF Flow

LEMMA StartedKept ==
  ASSUME NEW j \in Launches, Started(j), Stages(j), SameOf("started", j)
  PROVE  Started(j)'
BY DEF Started, Stages, SameOf

LEMMA ExitedKept ==
  ASSUME NEW j \in Launches, Exited(j), Ending(j),
         \A kind \in Kinds : SameOf(kind, j)
  PROVE  Exited(j)'
<1>1. /\ SameOf("exit", j) /\ SameOf("output", j)
  BY DEF Kinds
<1>2. ASSUME NEW i \in Received("exit", j)'
      PROVE  /\ j \in Runs /\ exit'[j] \in {"clean", "done"}
             /\ \A kind \in Kinds : \A h \in Received(kind, j)' : h <= i
  BY <1>1, <1>2 DEF Exited, Ending, SameOf
<1>3. ASSUME NEW i \in Received("exit", j)',
             box'[j] = "exited", stream'[j] = "open"
      PROVE  HasRead(j, wrote[j])'
  <2>1. /\ wrote'[j] = wrote[j] /\ lost'[j] = lost[j]
        /\ HasRead(j, wrote[j])
    BY <1>1, <1>3 DEF Exited, Ending, SameOf
  <2> QED
    BY <1>1, <2>1 DEF HasRead, SameOf
<1> QED
  BY <1>2, <1>3 DEF Exited

LEMMA LateKept ==
  ASSUME TypeOK, NEW j \in Launches, NEW k \in Launches, Late(j, k),
         Passing(j), Passing(k), SameOf("started", j), SameOf("started", k),
         SameOf("output", j)
  PROVE  Late(j, k)'
<1>1. CASE Received("started", j) = {} \/ Received("started", k) = {}
  BY <1>1 DEF Late, SameOf
<1>2. CASE Received("started", j) # {} /\ Received("started", k) # {}
  <2>1. conn[j] # None /\ conn[k] # None
    BY <1>2 DEF Received
  <2> QED
    BY <2>1 DEF Late, Passing, SameOf
<1> QED
  BY <1>1, <1>2


(* A step in which the bridge and the program of a launch do nothing.      *)
LEMMA Idle ==
  ASSUME NEW j \in Launches,
         UNCHANGED <<conn[j], wrote[j], lost[j], taken[j], bridge[j]>>,
         box'[j] \in {box[j], "gone"}, stream'[j] \in {stream[j], "closed"},
         exit[j] \in {"clean", "done"} => exit'[j] \in {"clean", "done"},
         conn[j] # None =>
           /\ client'[conn[j]] \in {client[conn[j]], "gone"}
           /\ latest[conn[j]] # j => latest'[conn[j]] # j
           /\ latest'[conn[j]] = j =>
                \/ pc'[conn[j]] = pc[conn[j]]
                \/ pc'[conn[j]] \in {"reading", "closed"} \union RefusalStages,
         lost[j] \in Nat, taken[j] \in Nat, Counted(j)
  PROVE  Counted(j)' /\ Flow(j) /\ Stages(j) /\ Ending(j) /\ Passing(j)
<1>1. Sent(j)' = Sent(j) /\ Sent(j) \in Int
  BY DEF Sent
<1>2. Listened(j)' => Listened(j)
  BY DEF Listened
<1>3. Flow(j)
  BY <1>1, <1>2 DEF Flow
<1>4. Stages(j)
  BY DEF Stages, Handled, StartStages, RefusalStages
<1>5. Ending(j)
  BY DEF Ending
<1>6. Passing(j)
  BY DEF Passing
<1>7. Counted(j)'
  BY <1>1 DEF Counted
<1> QED
  BY <1>3, <1>4, <1>5, <1>6, <1>7

(* A step in which a program prints, or the bridge of a launch that had    *)
(* none is spawned.                                                        *)
LEMMA Unbridged ==
  ASSUME NEW j \in Launches, Goroutines(j), bridge[j] = "off", lost[j] = taken[j],
         lost'[j] = taken'[j], bridge'[j] \in {"off", "read"}, lost'[j] \in Nat,
         wrote'[j] \in Nat, lost'[j] <= wrote'[j],
         stream'[j] = "none" => lost'[j] = wrote'[j]
  PROVE  Counted(j)' /\ Flow(j) /\ Ending(j)
<1>1. Sent(j)' = lost'[j] /\ Sent(j) = lost[j]
  BY DEF Sent
<1> QED
  BY <1>1 DEF Counted, Flow, Ending, Goroutines

(* The refusal of a run.                                                   *)
LEMMA RefusalFrames ==
  ASSUME IInv, NEW c \in Connections, NEW k \in Launches, Refusal(c)
  PROVE  Counted(k)' /\ Flow(k) /\ Stages(k) /\ Ending(k) /\ Passing(k)
<1>1. Types /\ Counted(k) /\ lost[k] \in Nat /\ taken[k] \in Nat
  BY DEF IInv, TypeOK, Types
<1>2. UNCHANGED <<latest, conn, client, box, stream, wrote, lost, taken, bridge,
                  exit>>
  BY DEF Refusal, RefusalLocks, RefusalWrites, Deliver, dockerVars, clientVars,
         programVars
<1>3. conn[k] # None => \/ pc'[conn[k]] = pc[conn[k]]
                        \/ pc'[conn[k]] \in {"reading", "writeRefusal"}
  BY <1>1 DEF Refusal, RefusalLocks, RefusalWrites, Types
<1> QED
  BY <1>1, <1>2, <1>3, Idle DEF RefusalStages

(* The main loop, except where it writes to the client.                    *)
LEMMA LoopFrames ==
  ASSUME IInv, Types', NEW c \in Connections, NEW k \in Launches,
         \/ Close(c) \/ \E j \in Launches : HandleLaunch(c, j)
         \/ \E j \in Launches : RefuseRun(c, j)
         \/ Start(c) \/ AttachStore(c) \/ LoopLocks(c) \/ Spawn(c)
         \/ Refusal(c)
  PROVE  Counted(k)' /\ Flow(k) /\ Stages(k) /\ Ending(k) /\ Passing(k)
<1>0. /\ Types /\ Types' /\ Pointers(c) /\ Goroutines(k) /\ Counted(k)
      /\ lost[k] \in Nat /\ taken[k] \in Nat /\ wrote[k] \in Nat
  BY DEF IInv, TypeOK, Types
<1> USE DEF vars, loopVars, dockerVars, clientVars, programVars
<1>1. ASSUME NEW j \in Launches, HandleLaunch(c, j)
      PROVE  Counted(k)' /\ Flow(k) /\ Stages(k) /\ Ending(k) /\ Passing(k)
  <2>1. /\ box'[k] \in {box[k], "gone"} /\ stream'[k] \in {stream[k], "closed"}
        /\ UNCHANGED <<wrote, lost, taken, bridge, exit, client>>
    BY <1>0, <1>1, LetGoType DEF HandleLaunch
  <2>2. CASE k = j
    <3>1. conn[k] = None /\ bridge[k] = "off"
      BY <1>0, <1>1, <2>2 DEF HandleLaunch, Goroutines
    <3>2. stream'[k] = "none" => stream[k] = "none"
      BY <2>1
    <3>3. /\ bridge'[k] = "off" /\ lost[k] = taken[k]
          /\ lost'[k] = lost[k] /\ taken'[k] = taken[k] /\ wrote'[k] = wrote[k]
      BY <1>0, <2>1, <3>1 DEF Counted
    <3>4. Counted(k)' /\ Flow(k) /\ Ending(k)
      BY <1>0, <3>1, <3>2, <3>3, Unbridged DEF Counted
    <3>5. latest'[c] = k /\ pc'[c] = "creating" /\ conn'[k] = c
      BY <1>0, <1>1, <2>2 DEF HandleLaunch, Types
    <3> QED
      BY <3>1, <3>3, <3>4, <3>5 DEF Stages, Passing, Handled
  <2>3. CASE k # j
    <3>1. conn'[k] = conn[k]
      BY <1>0, <1>1, <2>3 DEF HandleLaunch, Types
    <3>2. CASE conn[k] = c
      <4>1. latest'[c] # k
        BY <1>0, <1>1, <2>3 DEF HandleLaunch, Types
      <4> QED
        BY <1>0, <2>1, <3>1, <3>2, <4>1, Idle
    <3>3. CASE conn[k] # c
      <4>1. conn[k] # None => /\ latest'[conn[k]] = latest[conn[k]]
                              /\ pc'[conn[k]] = pc[conn[k]]
        BY <1>0, <1>1, <3>3 DEF HandleLaunch, Types
      <4> QED
        BY <1>0, <2>1, <3>1, <4>1, Idle
    <3> QED
      BY <3>2, <3>3
  <2> QED
    BY <2>2, <2>3
<1>2. CASE Close(c)
  <2>1. /\ box'[k] \in {box[k], "gone"} /\ stream'[k] \in {stream[k], "closed"}
        /\ UNCHANGED <<wrote, lost, taken, bridge, exit, conn, latest>>
    BY <1>0, <1>2, LetGoType DEF Close
  <2>2. conn[k] # None =>
          /\ client'[conn[k]] \in {client[conn[k]], "gone"}
          /\ pc'[conn[k]] = pc[conn[k]] \/ pc'[conn[k]] = "closed"
    BY <1>0, <1>2 DEF Close, Types
  <2> QED
    BY <1>0, <2>1, <2>2, Idle
<1>3. ASSUME Start(c) \/ AttachStore(c) \/ LoopLocks(c) \/ Spawn(c)
      PROVE  Counted(k)' /\ Flow(k) /\ Stages(k) /\ Ending(k) /\ Passing(k)
  <2>1. PICK j \in Launches : latest[c] = j
    BY <1>3, LatestType
       DEF Start, AttachStore, LoopLocks, Spawn, IInv, RefusalStages
  <2>2. /\ conn[j] = c /\ c # None
        /\ UNCHANGED <<latest, conn, client, wrote, lost, taken>>
    BY <1>0, <1>3, <2>1, ConsoleAssumption
       DEF Start, AttachStore, LoopLocks, Spawn, Pointers
  <2>3. CASE k # j
    <3>1. UNCHANGED <<box[k], stream[k], bridge[k], exit[k]>>
      BY <1>0, <1>3, <2>1, <2>3
         DEF Start, AttachStore, LoopLocks, Spawn, Types
    <3>2. conn[k] # None =>
            \/ latest[conn[k]] # k
            \/ pc'[conn[k]] = pc[conn[k]]
      <4>1. CASE conn[k] = c
        BY <2>1, <2>3, <4>1
      <4>2. CASE conn[k] # c
        BY <1>0, <1>3, <4>2
           DEF Start, AttachStore, LoopLocks, Spawn, Types
      <4> QED
        BY <4>1, <4>2
    <3> QED
      BY <1>0, <2>2, <3>1, <3>2, Idle
  <2>4. CASE k = j
    <3>1. /\ pc[c] \in BusyStages
          /\ pc[c] \in StartStages \union ErrorStages \/ pc[c] = "spawn"
      BY <1>3
         DEF Start, AttachStore, LoopLocks, Spawn, BusyStages, StartStages,
             ErrorStages
    <3>2. Handled(k, BusyStages) /\ bridge[k] = "off" /\ lost[k] = taken[k]
      BY <1>0, <2>1, <2>2, <2>4, <3>1 DEF Handled, Goroutines, Counted
    <3>3. bridge'[k] \in {"off", "read"} /\ (stream'[k] = "none" => stream[k] = "none")
      BY <1>0, <1>3, <2>1, <2>4, <3>2
         DEF Start, AttachStore, LoopLocks, Spawn, Types
    <3>4. Counted(k)' /\ Flow(k) /\ Ending(k)
      BY <1>0, <2>2, <3>2, <3>3, Unbridged DEF Counted
    <3>5. Passing(k)
      BY <2>1, <2>2, <2>4 DEF Passing
    <3>6. pc'[c] \in StartStages => pc[c] \in StartStages
      BY <1>0, <1>3
         DEF Start, AttachStore, LoopLocks, Spawn, Types, StartStages
    <3>7. /\ pc'[c] # "spawn"
          /\ bridge'[k] # "off" => pc[c] = "spawn"
      BY <1>0, <1>3, <3>2
         DEF Start, AttachStore, LoopLocks, Spawn, Types
    <3>8. Stages(k)
      BY <2>1, <2>2, <2>4, <3>6, <3>7 DEF Stages, Handled
    <3> QED
      BY <3>4, <3>5, <3>8
  <2> QED
    BY <2>3, <2>4
<1>4. ASSUME NEW j \in Launches, RefuseRun(c, j)
      PROVE  Counted(k)' /\ Flow(k) /\ Stages(k) /\ Ending(k) /\ Passing(k)
  <2>1. /\ UNCHANGED <<box, stream, wrote, lost, taken, bridge, exit, client,
                       latest>>
        /\ conn' = [conn EXCEPT ![j] = c] /\ conn[j] = None
        /\ pc' = [pc EXCEPT ![c] = "sendRefusal"]
    BY <1>4 DEF RefuseRun
  <2>2. CASE k = j
    <3>1. bridge[k] = "off" /\ lost[k] = taken[k]
      BY <1>0, <2>1, <2>2 DEF Goroutines, Counted
    <3>2. Counted(k)' /\ Flow(k) /\ Ending(k)
      BY <1>0, <2>1, <3>1, Unbridged DEF Counted
    <3> QED
      BY <2>1, <2>2, <3>1, <3>2 DEF Stages, Passing, Handled, StartStages, Types
  <2>3. CASE k # j
    <3>1. /\ conn'[k] = conn[k]
          /\ conn[k] # None => \/ pc'[conn[k]] = pc[conn[k]]
                               \/ pc'[conn[k]] = "sendRefusal"
      BY <1>0, <2>1, <2>3 DEF Types
    <3> QED
      BY <1>0, <2>1, <3>1, Idle DEF RefusalStages
  <2> QED
    BY <2>2, <2>3
<1>5. CASE Refusal(c)
  BY <1>5, RefusalFrames
<1> QED
  BY <1>1, <1>2, <1>3, <1>4, <1>5

(* The program of a launch.                                                *)
LEMMA ProgramFrames ==
  ASSUME IInv, Types', NEW j \in Launches, ProgramPrints(j) \/ End(j),
         NEW k \in Launches
  PROVE  Counted(k)' /\ Flow(k) /\ Stages(k) /\ Ending(k) /\ Passing(k)
<1>0. /\ Types /\ Types' /\ Goroutines(k) /\ Counted(k)
      /\ lost[k] \in Nat /\ taken[k] \in Nat /\ wrote[k] \in Nat
  BY DEF IInv, TypeOK, Types
<1> USE DEF vars, loopVars, dockerVars, clientVars, programVars
<1>1. UNCHANGED <<pc, cur, latest, conn, stream, client, bridge, exit, timer>>
  BY DEF ProgramPrints, End
<1>2. CASE k # j
  <2>1. UNCHANGED <<box[k], wrote[k], lost[k], taken[k]>>
    BY <1>0, <1>2 DEF ProgramPrints, End, Types
  <2> QED
    BY <1>0, <1>1, <2>1, Idle
<1>3. CASE k = j
  <2>1. Stages(k) /\ Passing(k)
    BY <1>1 DEF Stages, Passing, Handled
  <2>2. CASE End(j)
    <3>1. /\ box[k] = "running" /\ box'[k] = "exited"
          /\ UNCHANGED <<wrote, lost, taken>>
      BY <1>0, <1>3, <2>2 DEF End, Types
    <3>2. Sent(k)' = Sent(k) /\ Sent(k) \in Int /\ (Listened(k)' <=> Listened(k))
      BY <1>0, <1>1, <3>1 DEF Sent, Listened
    <3>3. Counted(k)' /\ Flow(k)
      BY <1>0, <1>1, <3>1, <3>2 DEF Counted, Flow
    <3>4. Ending(k)
      BY <1>0, <1>1, <3>1 DEF Ending, Goroutines, Counted
    <3> QED
      BY <2>1, <3>3, <3>4
  <2>3. CASE ProgramPrints(j) /\ stream[j] # "none"
    <3>1. /\ box[k] = "running" /\ box'[k] = "running"
          /\ lost'[k] = lost[k] /\ taken'[k] = taken[k]
          /\ wrote'[k] = wrote[k] + 1
      BY <1>0, <1>3, <2>3 DEF ProgramPrints, Types
    <3>2. Sent(k)' = Sent(k) /\ Sent(k) \in Int /\ (Listened(k)' <=> Listened(k))
      BY <1>0, <1>1, <3>1 DEF Sent, Listened
    <3>3. Counted(k)' /\ Flow(k)
      BY <1>0, <1>1, <1>3, <2>3, <3>1, <3>2 DEF Counted, Flow
    <3>4. Ending(k)
      BY <1>1, <3>1 DEF Ending
    <3> QED
      BY <2>1, <3>3, <3>4
  <2>4. CASE ProgramPrints(j) /\ stream[j] = "none"
    <3>1. /\ lost'[k] = lost[k] + 1 /\ taken'[k] = taken[k] + 1
          /\ wrote'[k] = wrote[k] + 1
      BY <1>0, <1>3, <2>4 DEF ProgramPrints, Types
    <3>2. bridge[k] = "off" /\ lost[k] = taken[k] /\ lost[k] = wrote[k]
      BY <1>0, <1>3, <2>4 DEF Goroutines, Counted
    <3>3. /\ lost'[k] \in Nat /\ lost'[k] = taken'[k] /\ lost'[k] = wrote'[k]
          /\ wrote'[k] \in Nat /\ lost'[k] <= wrote'[k] /\ bridge'[k] = "off"
      BY <1>0, <1>1, <3>1, <3>2
    <3>4. Counted(k)' /\ Flow(k) /\ Ending(k)
      BY <1>0, <3>2, <3>3, Unbridged
    <3> QED
      BY <2>1, <3>4
  <2> QED
    BY <2>2, <2>3, <2>4
<1> QED
  BY <1>2, <1>3

(* The bridge of a launch, except where it writes to the client.           *)
LEMMA BridgeFrames ==
  ASSUME IInv, Types', NEW j \in Launches, NEW k \in Launches,
         BridgeReads(j) \/ BridgeEnds(j) \/ BridgeChecks(j) \/ BridgeLocks(j)
  PROVE  Counted(k)' /\ Flow(k) /\ Stages(k) /\ Ending(k) /\ Passing(k)
<1>0. /\ Types /\ Types' /\ Goroutines(k) /\ Counted(k)
      /\ lost[k] \in Nat /\ taken[k] \in Nat /\ wrote[k] \in Nat
  BY DEF IInv, TypeOK, Types
<1> USE DEF vars, loopVars, dockerVars, clientVars, programVars
<1>1. UNCHANGED <<pc, cur, latest, conn, box, stream, client, wrote, lost, exit>>
  BY DEF BridgeReads, BridgeEnds, BridgeChecks, BridgeLocks
<1>2. CASE k # j
  <2>1. UNCHANGED <<bridge[k], taken[k]>>
    BY <1>0, <1>2
       DEF BridgeReads, BridgeEnds, BridgeChecks, BridgeLocks, Types
  <2> QED
    BY <1>0, <1>1, <2>1, Idle
<1>3. CASE k = j
  <2>0. conn[k] \in Connections /\ bridge[k] \notin {"off", "done"}
    BY <1>3, ConnOfLaunch
       DEF BridgeReads, BridgeEnds, BridgeChecks, BridgeLocks
  <2>1. Stages(k) /\ Ending(k)
    BY <1>0, <1>1, <2>0 DEF Stages, Ending, Handled, Goroutines
  <2>2. CASE BridgeReads(j)
    <3>1. /\ bridge[k] = "read" /\ bridge'[k] = "check"
          /\ taken[k] < wrote[k] /\ taken'[k] = taken[k] + 1
      BY <1>0, <1>3, <2>2 DEF BridgeReads, Types
    <3>2. Sent(k)' = Sent(k) /\ Sent(k) = taken[k] /\ (Listened(k)' <=> Listened(k))
      BY <1>0, <1>1, <3>1 DEF Sent, Listened
    <3>3. Counted(k)' /\ Flow(k) /\ Passing(k)
      BY <1>0, <1>1, <3>1, <3>2 DEF Counted, Flow, Passing
    <3> QED
      BY <2>1, <3>3
  <2>3. CASE BridgeEnds(j)
    <3>1. /\ bridge[k] = "read" /\ bridge'[k] = "done"
          /\ taken'[k] = taken[k]
          /\ \/ box[j] = "exited" /\ taken[j] = wrote[j]
             \/ box[j] = "gone" \/ stream[j] = "closed"
      BY <1>0, <1>3, <2>3 DEF BridgeEnds, Types
    <3>2. Sent(k)' = Sent(k) /\ Sent(k) = taken[k] /\ (Listened(k)' => Listened(k))
      BY <1>0, <1>1, <3>1 DEF Sent, Listened
    <3>3. Counted(k)' /\ Flow(k) /\ Passing(k)
      BY <1>0, <1>1, <1>3, <3>1, <3>2 DEF Counted, Flow, Passing
    <3> QED
      BY <2>1, <3>3
  <2>4. CASE BridgeChecks(j) /\ IsCurrent(j)
    <3>1. /\ bridge[k] = "check" /\ bridge'[k] = "send"
          /\ taken'[k] = taken[k] /\ latest[conn[k]] = k
      BY <1>0, <1>3, <2>4 DEF BridgeChecks, IsCurrent, Types
    <3>2. Sent(k)' = Sent(k) /\ Sent(k) \in Int /\ (Listened(k)' <=> Listened(k))
      BY <1>0, <1>1, <3>1 DEF Sent, Listened
    <3>3. Counted(k)' /\ Flow(k) /\ Passing(k)
      BY <1>0, <1>1, <3>1, <3>2 DEF Counted, Flow, Passing
    <3> QED
      BY <2>1, <3>3
  <2>5. CASE BridgeChecks(j) /\ ~IsCurrent(j)
    <3>1. /\ bridge[k] = "check" /\ bridge'[k] = "done"
          /\ taken'[k] = taken[k]
      BY <1>0, <1>3, <2>5 DEF BridgeChecks, Types
    <3>2. stream[k] = "closed"
      <4>1. Pointers(conn[k])
        BY <2>0 DEF IInv
      <4> QED
        BY <1>0, <1>3, <2>0, <2>5, <4>1, ConsoleAssumption
           DEF IsCurrent, Goroutines, Pointers
    <3>3. Sent(k)' = taken[k] /\ Sent(k) = taken[k] - 1 /\ ~Listened(k)'
      BY <1>0, <1>1, <3>1, <3>2 DEF Sent, Listened
    <3>4. Counted(k)' /\ Flow(k) /\ Passing(k)
      BY <1>0, <1>1, <3>1, <3>2, <3>3 DEF Counted, Flow, Passing
    <3> QED
      BY <2>1, <3>4
  <2>6. CASE BridgeLocks(j)
    <3>1. /\ bridge[k] = "send" /\ bridge'[k] = "write"
          /\ taken'[k] = taken[k]
      BY <1>0, <1>3, <2>6 DEF BridgeLocks, Types
    <3>2. Sent(k)' = Sent(k) /\ Sent(k) \in Int /\ (Listened(k)' <=> Listened(k))
      BY <1>0, <1>1, <3>1 DEF Sent, Listened
    <3>3. Counted(k)' /\ Flow(k) /\ Passing(k)
      BY <1>0, <1>1, <3>1, <3>2 DEF Counted, Flow, Passing
    <3> QED
      BY <2>1, <3>3
  <2> QED
    BY <2>2, <2>3, <2>4, <2>5, <2>6
<1> QED
  BY <1>2, <1>3

(* The other goroutines of a launch.                                       *)
LEMMA GoroutineFrames ==
  ASSUME IInv, Types', NEW j \in Launches, Exit(j) \/ Timer(j), NEW k \in Launches
  PROVE  Counted(k)' /\ Flow(k) /\ Stages(k) /\ Ending(k) /\ Passing(k)
<1>0. /\ Types /\ Types' /\ Goroutines(k) /\ Goroutines(j) /\ Counted(k)
      /\ lost[k] \in Nat /\ taken[k] \in Nat
  BY DEF IInv, TypeOK, Types
<1> USE DEF vars, loopVars, dockerVars, clientVars, programVars
<1>1. UNCHANGED <<pc, latest, conn, client, wrote, lost, taken, bridge>>
  BY DEF Exit, OutputDone, Recheck, ExitLocks, ExitWrites, CleanUp, Timer,
         TimerFires, TimerLocks, TimerWrites, TimerCancels, Deliver
<1>2. CASE Timer(j)
  <2>1. UNCHANGED <<box, exit>>
    BY <1>2 DEF Timer, TimerFires, TimerLocks, TimerWrites, TimerCancels
  <2>2. stream'[k] \in {stream[k], "closed"}
    BY <1>0, <1>2, StopTimerType
       DEF Timer, TimerFires, TimerLocks, TimerWrites, TimerCancels
  <2> QED
    BY <1>0, <1>1, <2>1, <2>2, Idle
<1>3. CASE Exit(j)
  <2>1. exit[k] \in {"clean", "done"} => exit'[k] \in {"clean", "done"}
    BY <1>0, <1>3
       DEF Exit, OutputDone, Recheck, ExitLocks, ExitWrites, CleanUp, Types
  <2>2. box'[k] \in {box[k], "gone"} /\ stream'[k] \in {stream[k], "closed"}
    <3>1. CASE CleanUp(j)
      <4>1. conn[j] \in Connections
        BY <1>0, <3>1, ConnOfLaunch DEF CleanUp, Goroutines
      <4> QED
        BY <1>0, <3>1, <4>1, LetGoType DEF CleanUp
    <3>2. CASE ~CleanUp(j)
      BY <1>3, <3>2
         DEF Exit, OutputDone, Recheck, ExitLocks, ExitWrites
    <3> QED
      BY <3>1, <3>2
  <2> QED
    BY <1>0, <1>1, <2>1, <2>2, Idle
<1> QED
  BY <1>2, <1>3


(* What was sent about a launch stays true where nothing is sent.          *)
Told ==
  /\ \A c \in Connections : Addressed(c)
  /\ \A j \in Launches : Outputs(j) /\ Started(j) /\ Exited(j)
  /\ \A j, k \in Launches : Late(j, k)

LEMMA QuietStep ==
  ASSUME IInv, Types', UNCHANGED inbox,
         \A j \in Launches :
           \/ conn'[j] = conn[j]
           \/ conn[j] = None /\ conn'[j] \in Connections,
         \A j \in Launches : Flow(j) /\ Stages(j) /\ Ending(j) /\ Passing(j)
  PROVE  Told'
<1>0. TypeOK
  BY DEF IInv
<1>1. ASSUME NEW j \in Launches, NEW kind PROVE SameOf(kind, j)
  <2>1. CASE conn'[j] \in Connections
    BY <2>1, InboxKept DEF IInv
  <2>2. CASE conn'[j] \notin Connections
    BY <2>2 DEF SameOf, Received, Chunk
  <2> QED
    BY <2>1, <2>2
<1>2. ASSUME NEW c \in Connections PROVE Addressed(c)'
  <2>1. Addressed(c) /\ inbox'[c] = inbox[c] /\ c # None
    BY ConsoleAssumption DEF IInv
  <2>2. ASSUME NEW i \in DOMAIN inbox[c] PROVE conn'[inbox[c][i].of] = c
    <3>1. inbox[c] \in Seq(Messages)
      BY <1>0 DEF TypeOK
    <3>2. inbox[c][i] \in Messages
      BY <3>1
    <3>3. inbox[c][i].of \in Launches
      BY <3>2 DEF Messages
    <3> QED
      BY <2>1, <3>3 DEF Addressed
  <2> QED
    BY <2>1, <2>2 DEF Addressed
<1>3. ASSUME NEW j \in Launches PROVE Outputs(j)' /\ Started(j)' /\ Exited(j)'
  <2>1. /\ Outputs(j) /\ Started(j) /\ Exited(j)
        /\ Flow(j) /\ Stages(j) /\ Ending(j)
    BY DEF IInv
  <2>2. /\ SameOf("output", j) /\ SameOf("started", j)
        /\ \A kind \in Kinds : SameOf(kind, j)
        /\ Received("started", j) \subseteq Received("started", j)'
    BY <1>1 DEF SameOf
  <2> QED
    BY <1>0, <2>1, <2>2, OutputsKept, StartedKept, ExitedKept
<1>4. ASSUME NEW j \in Launches, NEW k \in Launches PROVE Late(j, k)'
  BY <1>0, <1>1, LateKept DEF IInv
<1> QED
  BY <1>2, <1>3, <1>4 DEF Told

(* An error or a notice about a launch whose exit was not reported.        *)
LEMMA RemarkStep ==
  ASSUME IInv, Types', UNCHANGED conn,
         NEW c \in Connections, NEW kind \in {"error", "notice"},
         NEW k \in Launches, NEW n \in Nat, Deliver(c, kind, k, n),
         client[c] = "reads", conn[k] = c, Received("exit", k) = {},
         \A j \in Launches : Flow(j) /\ Stages(j) /\ Ending(j) /\ Passing(j)
  PROVE  Told'
<1>0. TypeOK /\ kind \in Kinds /\ {"exit", "started", "output"} \subseteq Kinds
  BY DEF IInv, Kinds
<1>1. PICK m \in Nat :
        \A j \in Launches, kd \in Kinds : j # k \/ kd # kind => SameOf(kd, j)
  BY <1>0, InboxGrows
<1>2. ASSUME NEW d \in Connections PROVE Addressed(d)'
  BY <1>0, <1>2, AddressedKept DEF IInv
<1>3. ASSUME NEW j \in Launches PROVE Outputs(j)' /\ Started(j)' /\ Exited(j)'
  <2>1. /\ Outputs(j) /\ Started(j) /\ Exited(j)
        /\ Flow(j) /\ Stages(j) /\ Ending(j)
    BY DEF IInv
  <2>2. SameOf("output", j) /\ SameOf("started", j) /\ SameOf("exit", j)
    BY <1>0, <1>1
  <2>3. Received("started", j) \subseteq Received("started", j)'
    BY <2>2 DEF SameOf
  <2>4. Exited(j)'
    <3>1. CASE j = k
      BY <2>2, <3>1 DEF Exited, SameOf
    <3>2. CASE j # k
      BY <1>1, <2>1, <3>2, ExitedKept
    <3> QED
      BY <3>1, <3>2
  <2> QED
    BY <1>0, <2>1, <2>2, <2>3, <2>4, OutputsKept, StartedKept
<1>4. ASSUME NEW j \in Launches, NEW i \in Launches PROVE Late(j, i)'
  BY <1>0, <1>1, LateKept DEF IInv
<1> QED
  BY <1>2, <1>3, <1>4 DEF Told


-----------------------------------------------------------------------------
(* The steps that write to a client.                                       *)
InboxType == inbox \in [Connections -> Seq(Messages)]

LEMMA LoopWritesStep ==
  ASSUME IInv, Types', NEW c \in Connections, LoopWrites(c)
  PROVE  InboxType' /\ (\A k \in Launches : Counted(k)') /\ Told'
<1>0. TypeOK /\ Types /\ 0 \in Nat /\ {"started", "error"} \subseteq Kinds
  BY DEF IInv, TypeOK, Kinds
<1> USE DEF vars, loopVars, dockerVars, clientVars, programVars
<1>1. PICK j \in Launches : latest[c] = j
  BY LatestType DEF LoopWrites, IInv, RefusalStages
<1>2. /\ conn[j] = c /\ c # None /\ client[c] = "reads"
      /\ UNCHANGED <<cur, latest, conn, client, box, stream, wrote, lost,
                     taken, bridge, exit, timer>>
  <2>1. Pointers(c) /\ client[c] # "stalled" /\ pc[c] # "closed"
    BY DEF IInv, LoopWrites, Deliver
  <2> QED
    BY <1>0, <1>1, <2>1, ConsoleAssumption
       DEF Pointers, LoopWrites, Deliver, Types
<1>3. bridge[j] = "off" /\ Received("exit", j) = {}
  <2>1. Goroutines(j) /\ Exited(j) /\ Handled(j, BusyStages)
    BY <1>1, <1>2
       DEF IInv, LoopWrites, Handled, BusyStages, StartStages, ErrorStages
  <2> QED
    BY <2>1 DEF Goroutines, Exited
<1>4. ASSUME NEW k \in Launches
      PROVE  /\ Counted(k)' /\ Flow(k) /\ Ending(k) /\ Passing(k)
             /\ pc[c] = "writeError" \/ k # j => Stages(k)
  <2>1. Counted(k) /\ lost[k] \in Nat /\ taken[k] \in Nat
    BY <1>0 DEF IInv, Types
  <2>2. CASE k # j \/ pc[c] = "writeError"
    <3>1. conn[k] # None =>
            \/ latest[conn[k]] # k
            \/ pc'[conn[k]] = pc[conn[k]] \/ pc'[conn[k]] = "reading"
      <4>1. CASE conn[k] = c
        BY <1>0, <1>1, <2>2, <4>1 DEF LoopWrites, Types
      <4>2. CASE conn[k] # c
        BY <1>0, <4>2 DEF LoopWrites, Types
      <4> QED
        BY <4>1, <4>2
    <3> QED
      BY <1>2, <2>1, <3>1, Idle
  <2>3. CASE k = j /\ pc[c] # "writeError"
    <3>1. Sent(k)' = Sent(k) /\ Sent(k) \in Int /\ (Listened(k)' <=> Listened(k))
      BY <1>2, <2>1 DEF Sent, Listened
    <3>2. Counted(k)' /\ Flow(k)
      BY <1>2, <2>1, <3>1 DEF Counted, Flow
    <3>3. Ending(k) /\ Passing(k)
      BY <1>2 DEF Ending, Passing
    <3> QED
      BY <2>3, <3>2, <3>3
  <2> QED
    BY <2>2, <2>3
<1>5. CASE pc[c] = "writeError"
  <2>1. Deliver(c, "error", j, 0)
    BY <1>1, <1>5 DEF LoopWrites
  <2>2. InboxType'
    BY <1>0, <2>1, DeliverType DEF InboxType
  <2>3. Told'
    BY <1>0, <1>2, <1>3, <1>4, <1>5, <2>1, RemarkStep
  <2> QED
    BY <1>4, <2>2, <2>3
<1>6. CASE pc[c] = "writeStarted"
  <2>1. Deliver(c, "started", j, 0) /\ pc'[c] = "spawn"
    BY <1>0, <1>1, <1>6 DEF LoopWrites, Types
  <2>2. InboxType'
    BY <1>0, <2>1, DeliverType DEF InboxType
  <2>3. PICK m \in Nat :
          /\ Received("started", j)' = Received("started", j) \union {m}
          /\ \A i \in Launches, kd \in Kinds :
               i # j \/ kd # "started" => SameOf(kd, i)
          /\ \A i \in Launches, kd \in Kinds :
               conn[i] = c => \A h \in Received(kd, i) : h < m
    BY <1>0, <1>2, <2>1, InboxGrows
  <2>4. {"started", "output", "exit"} \subseteq Kinds
    BY DEF Kinds
  <2>5. Received("started", j) = {} /\ Received("started", j)' = {m}
    <3>1. Started(j) /\ Handled(j, StartStages)
      BY <1>1, <1>2, <1>6 DEF IInv, Handled, StartStages
    <3> QED
      BY <2>3, <3>1 DEF Started
  <2>6. ASSUME NEW d \in Connections PROVE Addressed(d)'
    BY <1>0, <1>2, <2>1, <2>6, AddressedKept DEF IInv
  <2>7. ASSUME NEW k \in Launches PROVE Outputs(k)' /\ Started(k)' /\ Exited(k)'
    <3>1. Outputs(k) /\ Started(k) /\ Exited(k)
      BY DEF IInv
    <3>2. SameOf("output", k) /\ SameOf("exit", k)
      BY <2>3, <2>4
    <3>3. CASE k = j
      <4>1. Received("started", k) \subseteq Received("started", k)'
        BY <2>3, <3>3
      <4>2. Outputs(k)'
        BY <1>0, <1>4, <3>1, <3>2, <4>1, OutputsKept
      <4>3. Exited(k)'
        BY <1>3, <3>2, <3>3 DEF Exited, SameOf
      <4>4. ~Handled(k, StartStages)' /\ conn'[k] # None
        BY <1>2, <2>1, <3>3 DEF Handled, StartStages
      <4>5. Started(k)'
        BY <2>5, <3>3, <4>4 DEF Started
      <4> QED
        BY <4>2, <4>3, <4>5
    <3>4. CASE k # j
      <4>1. /\ \A kind \in Kinds : SameOf(kind, k)
            /\ SameOf("started", k)
            /\ Received("started", k) \subseteq Received("started", k)'
        BY <2>3, <2>4, <3>4 DEF SameOf
      <4> QED
        BY <1>0, <1>4, <3>1, <3>2, <3>4, <4>1, OutputsKept, StartedKept,
           ExitedKept
    <3> QED
      BY <3>3, <3>4
  <2>8. ASSUME NEW i \in Launches, NEW k \in Launches PROVE Late(i, k)'
    <3>1. CASE i # j /\ k # j
      <4>1. /\ SameOf("started", i) /\ SameOf("started", k)
            /\ SameOf("output", i) /\ Late(i, k)
        BY <2>3, <2>4, <3>1 DEF IInv
      <4> QED
        BY <1>0, <1>4, <4>1, LateKept
    <3>2. CASE i = j /\ k = j
      <4>1. \A s, t \in Received("started", j)' : ~(s < t)
        BY <2>5
      <4> QED
        BY <3>2, <4>1 DEF Late
    <3>3. CASE i = j /\ k # j
      <4>1. conn'[k] = c => \A t \in Received("started", k)' : t < m /\ t \in Nat
        BY <1>0, <1>2, <2>3, <2>4, <3>3, ReceivedType DEF SameOf
      <4>2. conn'[k] = c => \A s \in Received("started", j)',
                              t \in Received("started", k)' : ~(s < t)
        BY <2>5, <4>1
      <4> QED
        BY <1>2, <3>3, <4>2 DEF Late
    <3>4. CASE i # j /\ k = j
      <4>1. /\ conn'[i] = c => latest'[c] # i
            /\ conn'[i] = c => \A h \in Received("output", i)' : h < m /\ h \in Nat
        BY <1>0, <1>1, <1>2, <2>3, <2>4, <3>4, ReceivedType DEF SameOf
      <4>2. conn'[i] = c => \A h \in Received("output", i)',
                              t \in Received("started", k)' : ~(h > t)
        BY <2>5, <3>4, <4>1
      <4> QED
        BY <1>2, <3>4, <4>1, <4>2 DEF Late
    <3> QED
      BY <3>1, <3>2, <3>3, <3>4
  <2> QED
    BY <1>4, <2>2, <2>6, <2>7, <2>8 DEF Told
<1> QED
  BY <1>5, <1>6 DEF LoopWrites


LEMMA RefusalWritesStep ==
  ASSUME IInv, Types', NEW c \in Connections, RefusalWrites(c)
  PROVE  InboxType' /\ (\A k \in Launches : Counted(k)') /\ Told'
<1>0. TypeOK /\ Types /\ 0 \in Nat /\ "error" \in Kinds
  BY DEF IInv, TypeOK, Kinds
<1>1. PICK j \in Launches :
        /\ refused[c] = j /\ conn[j] = c /\ c # None
        /\ latest[c] # j /\ bridge[j] = "off"
        /\ client[c] # "gone"
  BY RefusedType DEF RefusalWrites, RefusalStages
<1>2. Deliver(c, "error", j, 0) /\ UNCHANGED conn
  BY <1>1 DEF RefusalWrites
<1>3. client[c] = "reads"
  BY <1>0, <1>1, <1>2 DEF Deliver, Types
<1>4. Received("exit", j) = {}
  BY <1>1 DEF IInv, Goroutines, Exited
<1>5. ASSUME NEW k \in Launches
      PROVE  Counted(k)' /\ Flow(k) /\ Stages(k) /\ Ending(k) /\ Passing(k)
  BY <1>5, RefusalFrames DEF Refusal
<1>6. InboxType'
  BY <1>0, <1>2, DeliverType DEF InboxType
<1>7. Told'
  BY <1>0, <1>1, <1>2, <1>3, <1>4, <1>5, RemarkStep
<1> QED
  BY <1>5, <1>6, <1>7

LEMMA BridgeWritesStep ==
  ASSUME IInv, Types', NEW j \in Launches, BridgeWrites(j)
  PROVE  InboxType' /\ (\A k \in Launches : Counted(k)') /\ Told'
<1>0. TypeOK /\ Types /\ {"output", "started", "exit"} \subseteq Kinds
  BY DEF IInv, TypeOK, Kinds
<1> USE DEF vars, loopVars, dockerVars, clientVars, programVars
<1>1. PICK c \in Connections, n \in Nat : conn[j] = c /\ taken[j] = n
  BY <1>0, ConnOfLaunch DEF BridgeWrites, Types
<1>2. /\ Deliver(c, "output", j, n) /\ c # None
      /\ UNCHANGED <<pc, cur, latest, conn, client, box, stream, wrote, lost,
                     taken, exit, timer>>
      /\ bridge[j] = "write" /\ bridge'[j] = "read"
  BY <1>0, <1>1, ConsoleAssumption DEF BridgeWrites, Deliver, Types
<1>3. InboxType'
  BY <1>0, <1>2, DeliverType DEF InboxType
<1>4. ASSUME NEW k \in Launches, k # j
      PROVE  Counted(k)' /\ Flow(k) /\ Stages(k) /\ Ending(k) /\ Passing(k)
  <2>1. bridge'[k] = bridge[k] /\ Counted(k) /\ lost[k] \in Nat /\ taken[k] \in Nat
    BY <1>0, <1>4 DEF BridgeWrites, Types, IInv
  <2> QED
    BY <1>2, <2>1, Idle
<1>5. Sent(j)' = n /\ Sent(j) = n - 1 /\ lost[j] \in Nat
  BY <1>0, <1>1, <1>2 DEF Sent, Types
<1>6. Counted(j)' /\ Stages(j) /\ Ending(j) /\ Passing(j)
  <2>1. Counted(j) /\ Goroutines(j)
    BY DEF IInv
  <2>2. Counted(j)'
    BY <1>1, <1>2, <1>5, <2>1 DEF Counted
  <2> QED
    BY <1>2, <2>1, <2>2 DEF Goroutines, Stages, Ending, Passing, Handled
<1>7. CASE client[c] # "reads"
  <2>1. UNCHANGED inbox /\ client[c] = "gone"
    BY <1>0, <1>2, <1>7 DEF Deliver, Types
  <2>2. Flow(j)
    BY <1>1, <1>2, <1>5, <2>1 DEF Flow, Listened
  <2> QED
    BY <1>2, <1>3, <1>4, <1>6, <2>1, <2>2, QuietStep
<1>8. CASE client[c] = "reads"
  <2>1. PICK m \in Nat :
          /\ Received("output", j)' = Received("output", j) \union {m}
          /\ Chunk(j, m)' = n
          /\ \A i \in Received("output", j) : Chunk(j, i)' = Chunk(j, i)
          /\ \A i \in Launches, kd \in Kinds :
               i # j \/ kd # "output" => SameOf(kd, i)
          /\ \A i \in Launches, kd \in Kinds :
               conn[i] = c => \A h \in Received(kd, i) : h < m
    BY <1>0, <1>1, <1>2, <1>8, InboxGrows
  <2>2. /\ SameOf("started", j) /\ SameOf("exit", j)
        /\ \A h \in Received("started", j) \union Received("output", j) : h < m
        /\ Received("output", j) \subseteq Nat
        /\ \A h \in Received("output", j) : Chunk(j, h) \in Nat
    BY <1>0, <1>1, <2>1, ReceivedType
  <2>3. Outputs(j) /\ Started(j) /\ Exited(j) /\ Goroutines(j) /\ Counted(j)
    BY DEF IInv
  <2>4. Outputs(j)'
    <3>1. HasRead(j, n - 1)
      BY <1>1, <1>2, <1>5, <1>8, <2>3 DEF Outputs, Listened
    <3>2. lost'[j] = lost[j] /\ lost[j] < n
      BY <1>2, <1>5, <2>3 DEF Counted
    <3>3. ASSUME NEW x, HasRead(j, x) PROVE HasRead(j, x)'
      BY <2>1, <3>2, <3>3 DEF HasRead
    <3>4. HasRead(j, n)'
      BY <1>5, <2>1, <3>1, <3>2, <3>3 DEF HasRead
    <3>5. \E s \in Received("started", j)' : s < m
      BY <1>2, <2>2, <2>3 DEF Started, SameOf
    <3>6. ASSUME NEW i \in Received("output", j)
          PROVE  /\ Chunk(j, i)' = Chunk(j, i) /\ Chunk(j, i)' > lost'[j]
                 /\ Chunk(j, i)' < n
                 /\ HasRead(j, Chunk(j, i))'
                 /\ \A h \in Received("output", j)' : h < i => Chunk(j, h)' < Chunk(j, i)'
                 /\ \E s \in Received("started", j)' : s < i
      <4>1. PICK x : x = Chunk(j, i)
        OBVIOUS
      <4>2. Chunk(j, i)' = x /\ x \in Nat
        BY <2>1, <2>2, <4>1
      <4>3. /\ x > lost[j] /\ x <= n - 1 /\ HasRead(j, x)
            /\ \A h \in Received("output", j) : h < i => Chunk(j, h) < x
            /\ \E s \in Received("started", j) : s < i
        BY <1>5, <2>3, <4>1 DEF Outputs
      <4>4. HasRead(j, x)'
        BY <3>3, <4>3
      <4>5. HasRead(j, Chunk(j, i))'
        BY <4>2, <4>4 DEF HasRead
      <4>6. \A h \in Received("output", j)' : h < i => Chunk(j, h)' < x
        BY <2>1, <2>2, <4>3
      <4>7. \E s \in Received("started", j)' : s < i
        BY <2>2, <4>3 DEF SameOf
      <4> QED
        BY <1>5, <3>2, <4>1, <4>2, <4>3, <4>5, <4>6, <4>7
    <3>7. /\ Chunk(j, m)' > lost'[j]
          /\ HasRead(j, Chunk(j, m))'
          /\ \A h \in Received("output", j)' : h < m => Chunk(j, h)' < Chunk(j, m)'
      <4>1. HasRead(j, Chunk(j, m))'
        BY <2>1, <3>4 DEF HasRead
      <4>2. \A h \in Received("output", j)' : h < m => Chunk(j, h)' < n
        BY <2>1, <3>6
      <4> QED
        BY <1>5, <2>1, <3>2, <4>1, <4>2
    <3>8. ASSUME NEW i \in Received("output", j)'
          PROVE  /\ Chunk(j, i)' > lost'[j] /\ Chunk(j, i)' <= Sent(j)'
                 /\ HasRead(j, Chunk(j, i))'
                 /\ \A h \in Received("output", j)' : h < i => Chunk(j, h)' < Chunk(j, i)'
                 /\ \E s \in Received("started", j)' : s < i
      <4>1. CASE i \in Received("output", j)
        <5>1. Chunk(j, i)' <= Sent(j)'
          BY <1>5, <2>2, <3>6, <4>1
        <5> QED
          BY <3>6, <4>1, <5>1
      <4>2. CASE i = m
        BY <1>5, <2>1, <3>5, <3>7, <4>2
      <4> QED
        BY <2>1, <4>1, <4>2
    <3>9. HasRead(j, Sent(j))'
      BY <1>5, <3>4 DEF HasRead
    <3> QED
      BY <3>8, <3>9 DEF Outputs
  <2>5. Started(j)'
    BY <1>6, <2>2, <2>3, StartedKept
  <2>6. Exited(j)'
    BY <1>2, <2>2, <2>3 DEF Exited, Goroutines, SameOf
  <2>7. ASSUME NEW d \in Connections PROVE Addressed(d)'
    BY <1>0, <1>1, <1>2, <2>7, AddressedKept DEF IInv
  <2>8. ASSUME NEW k \in Launches, k # j
        PROVE  Outputs(k)' /\ Started(k)' /\ Exited(k)'
    <3>1. Outputs(k) /\ Started(k) /\ Exited(k)
      BY DEF IInv
    <3>2. /\ \A kind \in Kinds : SameOf(kind, k)
          /\ SameOf("started", k) /\ SameOf("output", k)
          /\ Received("started", k) \subseteq Received("started", k)'
      BY <1>0, <2>1, <2>8 DEF SameOf
    <3> QED
      BY <1>0, <1>4, <2>8, <3>1, <3>2, OutputsKept, StartedKept, ExitedKept
  <2>9. ASSUME NEW i \in Launches, NEW k \in Launches PROVE Late(i, k)'
    <3>1. /\ SameOf("started", i) /\ SameOf("started", k) /\ Late(i, k)
          /\ Passing(i) /\ Passing(k)
      BY <1>0, <1>4, <1>6, <2>1 DEF IInv
    <3>2. CASE i # j
      BY <1>0, <2>1, <3>1, <3>2, LateKept
    <3>3. CASE i = j
      <4>1. ASSUME conn'[j] = conn'[k],
                   NEW s \in Received("started", j), NEW t \in Received("started", k),
                   s < t
            PROVE  /\ latest'[conn'[j]] # j
                   /\ \A h \in Received("output", j)' : h > t => h = m
        <5>1. /\ latest[conn[j]] # j
              /\ \A h \in Received("output", j) : ~(h > t)
          BY <1>2, <3>1, <3>3, <4>1 DEF Late
        <5> QED
          BY <1>2, <2>1, <5>1
      <4>2. /\ Received("started", i)' = Received("started", j)
            /\ Received("started", k)' = Received("started", k)
        BY <3>1, <3>3 DEF SameOf
      <4> QED
        BY <1>2, <3>3, <4>1, <4>2 DEF Late
    <3> QED
      BY <3>2, <3>3
  <2> QED
    BY <1>3, <1>4, <1>6, <2>4, <2>5, <2>6, <2>7, <2>8, <2>9 DEF Told
<1> QED
  BY <1>7, <1>8


LEMMA ExitWritesStep ==
  ASSUME IInv, Types', NEW j \in Launches, ExitWrites(j)
  PROVE  InboxType' /\ Told'
<1>0. TypeOK /\ Types /\ 0 \in Nat /\ {"output", "started", "exit"} \subseteq Kinds
  BY DEF IInv, TypeOK, Kinds
<1> USE DEF vars, loopVars, dockerVars, clientVars, programVars
<1>1. Goroutines(j) /\ exit[j] = "write" /\ bridge[j] = "done" /\ j \in Runs
  BY DEF IInv, ExitWrites, Goroutines
<1>2. PICK c \in Connections : conn[j] = c
  BY <1>1, ConnOfLaunch
<1>3. /\ Deliver(c, "exit", j, 0) /\ c # None
      /\ UNCHANGED <<pc, cur, latest, conn, client, box, stream, wrote, lost,
                     taken, bridge, timer>>
      /\ exit'[j] = "clean"
  BY <1>0, <1>2, ConsoleAssumption DEF ExitWrites, Deliver, Types
<1>4. InboxType'
  BY <1>0, <1>3, DeliverType DEF InboxType
<1>5. ASSUME NEW k \in Launches
      PROVE  Flow(k) /\ Stages(k) /\ Ending(k) /\ Passing(k)
  BY <1>5, GoroutineFrames DEF Exit
<1>6. CASE client[c] # "reads"
  <2>1. UNCHANGED inbox
    BY <1>0, <1>3, <1>6 DEF Deliver, Types
  <2> QED
    BY <1>3, <1>4, <1>5, <2>1, QuietStep
<1>7. CASE client[c] = "reads"
  <2>1. PICK m \in Nat :
          /\ Received("exit", j)' = Received("exit", j) \union {m}
          /\ \A i \in Launches, kd \in Kinds :
               i # j \/ kd # "exit" => SameOf(kd, i)
          /\ \A i \in Launches, kd \in Kinds :
               conn[i] = c => \A h \in Received(kd, i) : h < m
    BY <1>0, <1>2, <1>3, <1>7, InboxGrows
  <2>2. Outputs(j) /\ Exited(j) /\ Counted(j)
    BY DEF IInv
  <2>3. Received("exit", j)' = {m}
    BY <1>1, <2>1, <2>2 DEF Exited
  <2>4. ASSUME NEW kind \in Kinds, NEW h \in Received(kind, j)' PROVE h <= m
    <3>1. CASE kind = "exit"
      BY <2>3, <2>4, <3>1
    <3>2. CASE kind # "exit"
      <4>1. Received(kind, j)' = Received(kind, j)
        BY <2>1, <2>4, <3>2 DEF SameOf
      <4>2. h \in Nat /\ h < m
        BY <1>0, <1>2, <2>1, <2>4, <4>1, ReceivedType
      <4> QED
        BY <4>2
    <3> QED
      BY <3>1, <3>2
  <2>5. ASSUME box'[j] = "exited", stream'[j] = "open" PROVE HasRead(j, wrote[j])'
    <3>1. Listened(j) /\ Sent(j) = taken[j] /\ taken[j] = wrote[j]
      BY <1>1, <1>2, <1>3, <1>7, <2>2, <2>5 DEF Listened, Sent, Counted
    <3>2. HasRead(j, wrote[j])
      BY <2>2, <3>1 DEF Outputs
    <3> QED
      BY <1>0, <1>3, <2>1, <3>2 DEF HasRead, SameOf
  <2>6. Exited(j)'
    BY <1>1, <1>3, <2>3, <2>4, <2>5 DEF Exited
  <2>7. ASSUME NEW k \in Launches PROVE Outputs(k)' /\ Started(k)' /\ Exited(k)'
    <3>1. Outputs(k) /\ Started(k) /\ Exited(k)
      BY DEF IInv
    <3>2. /\ SameOf("started", k) /\ SameOf("output", k)
          /\ Received("started", k) \subseteq Received("started", k)'
      BY <1>0, <2>1 DEF SameOf
    <3>3. Exited(k)'
      <4>1. CASE k = j
        BY <2>6, <4>1
      <4>2. CASE k # j
        BY <1>5, <2>1, <3>1, <4>2, ExitedKept
      <4> QED
        BY <4>1, <4>2
    <3> QED
      BY <1>0, <1>5, <3>1, <3>2, <3>3, OutputsKept, StartedKept
  <2>8. ASSUME NEW d \in Connections PROVE Addressed(d)'
    BY <1>0, <1>2, <1>3, <2>8, AddressedKept DEF IInv
  <2>9. ASSUME NEW i \in Launches, NEW k \in Launches PROVE Late(i, k)'
    BY <1>0, <1>5, <2>1, LateKept DEF IInv
  <2> QED
    BY <1>4, <2>7, <2>8, <2>9 DEF Told
<1> QED
  BY <1>6, <1>7

LEMMA TimerWritesStep ==
  ASSUME IInv, Types', NEW j \in Launches, TimerWrites(j)
  PROVE  InboxType' /\ Told'
<1>0. TypeOK /\ Types /\ 0 \in Nat /\ "notice" \in Kinds
  BY DEF IInv, TypeOK, Kinds
<1> USE DEF vars, loopVars, dockerVars, clientVars, programVars
<1>1. /\ Goroutines(j) /\ bridge[j] # "off" /\ j \in Shells
  BY DEF IInv, TimerWrites, Goroutines
<1>2. PICK c \in Connections : conn[j] = c
  BY <1>1, ConnOfLaunch
<1>3. Deliver(c, "notice", j, 0) /\ UNCHANGED conn
  BY <1>2 DEF TimerWrites
<1>4. InboxType'
  BY <1>0, <1>3, DeliverType DEF InboxType
<1>5. ASSUME NEW k \in Launches
      PROVE  Flow(k) /\ Stages(k) /\ Ending(k) /\ Passing(k)
  BY <1>5, GoroutineFrames DEF Timer
<1>6. CASE client[c] # "reads"
  <2>1. UNCHANGED inbox
    BY <1>0, <1>3, <1>6 DEF Deliver, Types
  <2> QED
    BY <1>3, <1>4, <1>5, <2>1, QuietStep
<1>7. CASE client[c] = "reads"
  <2>1. Received("exit", j) = {}
    BY <1>1, ConsoleAssumption DEF IInv, Exited
  <2> QED
    BY <1>0, <1>2, <1>3, <1>4, <1>5, <1>7, <2>1, RemarkStep
<1> QED
  BY <1>6, <1>7

-----------------------------------------------------------------------------
LEMMA ToldStep ==
  IInv /\ [Next]_vars =>
    InboxType' /\ (\A k \in Launches : Counted(k)') /\ Told'
<1> SUFFICES ASSUME IInv, [Next]_vars
             PROVE  InboxType' /\ (\A k \in Launches : Counted(k)') /\ Told'
  OBVIOUS
<1>0. Types /\ Types' /\ InboxType
  BY TypesStep DEF IInv, TypeOK, InboxType
<1> USE DEF vars, loopVars, dockerVars, clientVars, programVars
<1>1. ASSUME UNCHANGED inbox,
             \A j \in Launches :
               \/ conn'[j] = conn[j]
               \/ conn[j] = None /\ conn'[j] \in Connections,
             \A k \in Launches :
               Counted(k)' /\ Flow(k) /\ Stages(k) /\ Ending(k) /\ Passing(k)
      PROVE  InboxType' /\ (\A k \in Launches : Counted(k)') /\ Told'
  BY <1>0, <1>1, QuietStep DEF InboxType
<1>2. ASSUME NEW c \in Connections,
             \/ Close(c) \/ \E j \in Launches : HandleLaunch(c, j)
             \/ \E j \in Launches : RefuseRun(c, j)
             \/ Start(c) \/ AttachStore(c) \/ LoopLocks(c) \/ Spawn(c)
             \/ RefusalLocks(c)
      PROVE  InboxType' /\ (\A k \in Launches : Counted(k)') /\ Told'
  <2>1. UNCHANGED inbox
    BY <1>2 DEF Close, HandleLaunch, RefuseRun, Start, AttachStore, LoopLocks,
                Spawn, RefusalLocks
  <2>2. \A j \in Launches :
          \/ conn'[j] = conn[j]
          \/ conn[j] = None /\ conn'[j] \in Connections
    BY <1>0, <1>2
       DEF Close, HandleLaunch, RefuseRun, Start, AttachStore, LoopLocks, Spawn,
           RefusalLocks, Types
  <2>3. \A k \in Launches :
          Counted(k)' /\ Flow(k) /\ Stages(k) /\ Ending(k) /\ Passing(k)
    BY <1>0, <1>2, LoopFrames DEF Refusal
  <2> QED
    BY <1>1, <2>1, <2>2, <2>3
<1>3. ASSUME NEW c \in Connections, LoopWrites(c)
      PROVE  InboxType' /\ (\A k \in Launches : Counted(k)') /\ Told'
  BY <1>0, <1>3, LoopWritesStep
<1>9. ASSUME NEW c \in Connections, RefusalWrites(c)
      PROVE  InboxType' /\ (\A k \in Launches : Counted(k)') /\ Told'
  BY <1>0, <1>9, RefusalWritesStep
<1>4. ASSUME NEW j \in Launches, ProgramPrints(j) \/ End(j)
      PROVE  InboxType' /\ (\A k \in Launches : Counted(k)') /\ Told'
  <2>1. UNCHANGED <<inbox, conn>>
    BY <1>4 DEF ProgramPrints, End
  <2> QED
    BY <1>0, <1>1, <1>4, <2>1, ProgramFrames
<1>5. ASSUME NEW j \in Launches, Bridge(j)
      PROVE  InboxType' /\ (\A k \in Launches : Counted(k)') /\ Told'
  <2>1. CASE BridgeWrites(j)
    BY <1>0, <2>1, BridgeWritesStep
  <2>2. CASE BridgeReads(j) \/ BridgeEnds(j) \/ BridgeChecks(j) \/ BridgeLocks(j)
    <3>1. UNCHANGED <<inbox, conn>>
      BY <2>2 DEF BridgeReads, BridgeEnds, BridgeChecks, BridgeLocks
    <3> QED
      BY <1>0, <1>1, <2>2, <3>1, BridgeFrames
  <2> QED
    BY <1>5, <2>1, <2>2 DEF Bridge
<1>6. ASSUME NEW j \in Launches, Exit(j) \/ Timer(j)
      PROVE  InboxType' /\ (\A k \in Launches : Counted(k)') /\ Told'
  <2>1. \A k \in Launches :
          Counted(k)' /\ Flow(k) /\ Stages(k) /\ Ending(k) /\ Passing(k)
    BY <1>0, <1>6, GoroutineFrames
  <2>2. CASE ExitWrites(j)
    BY <1>0, <2>1, <2>2, ExitWritesStep
  <2>3. CASE TimerWrites(j)
    BY <1>0, <2>1, <2>3, TimerWritesStep
  <2>4. CASE ~ExitWrites(j) /\ ~TimerWrites(j)
    <3>1. UNCHANGED <<inbox, conn>>
      BY <1>6, <2>4
         DEF Exit, OutputDone, Recheck, ExitLocks, CleanUp, Timer, TimerFires,
             TimerLocks, TimerCancels
    <3> QED
      BY <1>1, <2>1, <3>1
  <2> QED
    BY <2>2, <2>3, <2>4
<1>7. CASE UNCHANGED vars
  <2>1. ASSUME NEW k \in Launches
        PROVE  Counted(k)' /\ Flow(k) /\ Stages(k) /\ Ending(k) /\ Passing(k)
    <3>1. Counted(k) /\ lost[k] \in Nat /\ taken[k] \in Nat
      BY <1>0 DEF IInv, Types
    <3> QED
      BY <1>7, <3>1, Idle
  <2> QED
    BY <1>1, <1>7, <2>1
<1>8. CASE Next
  BY <1>2, <1>3, <1>4, <1>5, <1>6, <1>8, <1>9 DEF Next, Loop, Refusal
<1> QED
  BY <1>7, <1>8

LEMMA InvStep == IInv /\ [Next]_vars => IInv'
<1> SUFFICES ASSUME IInv, [Next]_vars PROVE IInv'
  OBVIOUS
<1>1. Types' /\ Control' /\ InboxType' /\ Told' /\ \A k \in Launches : Counted(k)'
  BY TypesStep, ControlStep, ToldStep
<1>2. TypeOK'
  BY <1>1 DEF TypeOK, InboxType, Control, HandlesLatest
<1> QED
  BY <1>1, <1>2 DEF IInv, Control, Told

LEMMA InvInit == Init => IInv
<1> SUFFICES ASSUME Init PROVE IInv
  OBVIOUS
<1>1. TypeOK
  BY DEF Init, TypeOK, Types, RefusalStages
<1>2. ASSUME NEW c \in Connections PROVE Pointers(c) /\ Addressed(c)
  BY <1>2 DEF Init, Pointers, Addressed
<1>3. ASSUME NEW j \in Launches, NEW kind PROVE Received(kind, j) = {}
  BY <1>3 DEF Init, Received
<1>4. ASSUME NEW j \in Launches PROVE Goroutines(j) /\ Counted(j)
  BY <1>4 DEF Init, Goroutines, Handled, Counted, Sent
<1>5. ASSUME NEW j \in Launches PROVE Outputs(j) /\ Started(j) /\ Exited(j)
  BY <1>3, <1>5 DEF Init, Outputs, Started, Exited, Listened, Handled
<1>6. ASSUME NEW j \in Launches, NEW k \in Launches PROVE Late(j, k)
  BY <1>3 DEF Late
<1> QED
  BY <1>1, <1>2, <1>4, <1>5, <1>6 DEF IInv

(* What clients have read is tied to the goroutines that send it.          *)
THEOREM ConsoleInvariant == Spec => []IInv
<1> QED
  BY InvInit, InvStep, PTL DEF Spec

(* The variables of Console stay in their sets, and a handler is about the *)
(* newest generation of its connection.                                    *)
THEOREM ConsoleTypeCorrect == Spec => []TypeOK
<1>1. IInv => TypeOK
  BY DEF IInv
<1> QED
  BY <1>1, ConsoleInvariant, PTL

(* Every client reads the output of its program in order, without a gap    *)
(* and without a repetition, and after "started".                          *)
THEOREM OutputArrivesInOrder == Spec => []OutputInOrder
<1>1. IInv => OutputInOrder
  BY DEF IInv, Outputs, OutputInOrder
<1> QED
  BY <1>1, ConsoleInvariant, PTL

(* The exit message of a run is the last its client reads of it, and all   *)
(* of the output of a program that was not stopped comes before.           *)
THEOREM ExitComesLast == Spec => []ExitIsLast
<1>1. IInv => ExitIsLast
  BY DEF IInv, Exited, ExitIsLast, Launches
<1> QED
  BY <1>1, ConsoleInvariant, PTL

(* At most one chunk of a replaced launch comes after the "started" of its *)
(* successor.                                                              *)
THEOREM LateOutputIsBounded == Spec => []LateIsBounded
<1>1. IInv => LateIsBounded
  <2> SUFFICES ASSUME IInv, NEW j \in Launches, NEW k \in Launches,
                      conn[j] = conn[k],
                      NEW s \in Received("started", j),
                      NEW t \in Received("started", k), s < t,
                      NEW h \in LateOutput(j, k), NEW i \in LateOutput(j, k)
               PROVE  h = i
    BY DEF LateIsBounded
  <2>1. \A u, v \in Received("started", k) : u = v
    BY DEF IInv, Started
  <2>2. /\ h \in Received("output", j) /\ i \in Received("output", j)
        /\ t < h /\ t < i
    BY <2>1 DEF LateOutput
  <2>3. /\ t \in Nat /\ h \in Nat /\ i \in Nat
    BY <2>2, ReceivedType DEF IInv
  <2>4. h > t /\ i > t
    BY <2>2, <2>3
  <2> QED
    BY <2>2, <2>4 DEF IInv, Late
<1> QED
  BY <1>1, ConsoleInvariant, PTL

-----------------------------------------------------------------------------
(* connWriteMu.                                                            *)
OneWriter == \A v, w \in Writers : v = w

LEMMA WritersKept ==
  ASSUME OneWriter, Writers' \subseteq Writers
  PROVE  OneWriter'
BY DEF OneWriter

LEMMA WriterEnters ==
  ASSUME Unlocked, NEW w, Writers' \subseteq {w}
  PROVE  OneWriter'
BY DEF OneWriter

LEMMA OneWriterStep == Types /\ OneWriter /\ [Next]_vars => OneWriter'
<1> SUFFICES ASSUME Types, OneWriter, [Next]_vars PROVE OneWriter'
  OBVIOUS
<1> USE DEF vars, loopVars, dockerVars, clientVars, programVars
<1>1. ASSUME \A c \in Connections :
               pc'[c] \in {"writeStarted", "writeError", "writeRefusal"}
                 => pc[c] \in {"writeStarted", "writeError", "writeRefusal"},
             \A j \in Launches : bridge'[j] = "write" => bridge[j] = "write",
             \A j \in Launches : exit'[j] = "write" => exit[j] = "write",
             \A j \in Launches : timer'[j] = "write" => timer[j] = "write"
      PROVE  OneWriter'
  <2>1. Writers' \subseteq Writers
    BY <1>1 DEF Writers
  <2> QED
    BY <2>1, WritersKept
<1>2. ASSUME NEW c \in Connections,
             \/ Close(c) \/ RefusalWrites(c)
             \/ \E j \in Launches : HandleLaunch(c, j) \/ RefuseRun(c, j)
      PROVE  OneWriter'
  BY <1>1, <1>2 DEF Close, RefusalWrites, HandleLaunch, RefuseRun, Types
<1>3. ASSUME NEW c \in Connections, LoopLocks(c) \/ RefusalLocks(c)
      PROVE  OneWriter'
  <2>1. /\ Unlocked
        /\ \A d \in Connections : d # c => pc'[d] = pc[d]
        /\ UNCHANGED <<bridge, exit, timer>>
    BY <1>3 DEF LoopLocks, RefusalLocks, Types
  <2>2. Writers' \subseteq {<<"loop", c>>}
    BY <2>1 DEF Unlocked, Writers
  <2> QED
    BY <2>1, <2>2, WriterEnters
<1>4. ASSUME NEW c \in Connections,
             Start(c) \/ AttachStore(c) \/ LoopWrites(c) \/ Spawn(c)
      PROVE  OneWriter'
  <2>1. CASE Start(c) \/ AttachStore(c)
    BY <1>1, <2>1 DEF Start, AttachStore, Types
  <2>2. CASE LoopWrites(c)
    BY <1>1, <2>2 DEF LoopWrites, Types
  <2>3. CASE Spawn(c)
    BY <1>1, <2>3 DEF Spawn, Types
  <2> QED
    BY <1>4, <2>1, <2>2, <2>3
<1>5. ASSUME NEW j \in Launches, ProgramPrints(j) \/ End(j) PROVE OneWriter'
  BY <1>1, <1>5 DEF ProgramPrints, End
<1>6. ASSUME NEW j \in Launches, BridgeLocks(j) PROVE OneWriter'
  <2>1. /\ Unlocked
        /\ \A k \in Launches : k # j => bridge'[k] = bridge[k]
        /\ UNCHANGED <<pc, exit, timer>>
    BY <1>6 DEF BridgeLocks, Types
  <2>2. Writers' \subseteq {<<"bridge", j>>}
    BY <2>1 DEF Unlocked, Writers
  <2> QED
    BY <2>1, <2>2, WriterEnters
<1>7. ASSUME NEW j \in Launches, BridgeEnds(j) \/ BridgeChecks(j)
      PROVE  OneWriter'
  <2>1. /\ UNCHANGED <<pc, exit>>
        /\ bridge'[j] # "write"
        /\ \A k \in Launches : k # j => bridge'[k] = bridge[k]
        /\ \A k \in Launches : timer'[k] = "write" => timer[k] = "write"
    BY <1>7, StopTimerType DEF BridgeEnds, BridgeChecks, Types
  <2> QED
    BY <1>1, <2>1
<1>8. ASSUME NEW j \in Launches, BridgeReads(j) \/ BridgeWrites(j)
      PROVE  OneWriter'
  BY <1>1, <1>8 DEF BridgeReads, BridgeWrites, Types
<1>9. ASSUME NEW j \in Launches, ExitLocks(j) PROVE OneWriter'
  <2>1. /\ Unlocked
        /\ \A k \in Launches : k # j => exit'[k] = exit[k]
        /\ UNCHANGED <<pc, bridge, timer>>
    BY <1>9 DEF ExitLocks, Types
  <2>2. Writers' \subseteq {<<"exit", j>>}
    BY <2>1 DEF Unlocked, Writers
  <2> QED
    BY <2>1, <2>2, WriterEnters
<1>10. ASSUME NEW j \in Launches, OutputDone(j) PROVE OneWriter'
  <2>1. /\ UNCHANGED <<pc, bridge>>
        /\ exit'[j] # "write"
        /\ \A k \in Launches : k # j => exit'[k] = exit[k]
        /\ \A k \in Launches : timer'[k] = "write" => timer[k] = "write"
    BY <1>10, StopTimerType DEF OutputDone, Types
  <2> QED
    BY <1>1, <2>1
<1>11. ASSUME NEW j \in Launches, Recheck(j) \/ ExitWrites(j) \/ CleanUp(j)
       PROVE  OneWriter'
  BY <1>1, <1>11 DEF Recheck, ExitWrites, CleanUp, Types
<1>12. ASSUME NEW j \in Launches, TimerLocks(j) PROVE OneWriter'
  <2>1. /\ Unlocked
        /\ \A k \in Launches : k # j => timer'[k] = timer[k]
        /\ UNCHANGED <<pc, bridge, exit>>
    BY <1>12 DEF TimerLocks, Types
  <2>2. Writers' \subseteq {<<"timer", j>>}
    BY <2>1 DEF Unlocked, Writers
  <2> QED
    BY <2>1, <2>2, WriterEnters
<1>13. ASSUME NEW j \in Launches,
              TimerFires(j) \/ TimerWrites(j) \/ TimerCancels(j)
       PROVE  OneWriter'
  BY <1>1, <1>13 DEF TimerFires, TimerWrites, TimerCancels, Types
<1>14. CASE UNCHANGED vars
  BY <1>1, <1>14
<1> QED
  BY <1>2, <1>3, <1>4, <1>5, <1>6, <1>7, <1>8, <1>9, <1>10, <1>11, <1>12,
     <1>13, <1>14
     DEF Next, Loop, Refusal, Bridge, Exit, Timer

(* What holds of "serializes ALL writes to a WebSocket connection": no two *)
(* goroutines are in WriteJSON at a time, whatever connections they write  *)
(* to. ReadersAreServed is the price of that.                              *)
THEOREM WritesAreSerialized == Spec => []OneWriter
<1>1. Init => OneWriter
  BY DEF Init, OneWriter, Writers
<1>2. IInv => Types
  BY DEF IInv, TypeOK
<1> QED
  BY <1>1, <1>2, OneWriterStep, ConsoleInvariant, PTL DEF Spec

-----------------------------------------------------------------------------
(* The answer to a "run" or "shell" message, and until when it is awaited. *)
Answers(j) == Received("started", j) \union Received("error", j)
Refusing(j) ==
  conn[j] # None /\ refused[conn[j]] = j /\ pc[conn[j]] \in RefusalStages
Awaited(j) ==
  \/ conn[j] = None
  \/ Handled(j, StartStages \union ErrorStages)
  \/ Refusing(j)

AnsweredOnce ==
  \A j \in Launches :
    /\ Awaited(j) => Answers(j) = {}
    /\ ~Awaited(j) => \E i \in Nat : Answers(j) = {i}

LEMMA AnswersKept ==
  ASSUME AnsweredOnce,
         \A j \in Launches :
           SameOf("started", j) /\ SameOf("error", j)
             /\ (Awaited(j)' <=> Awaited(j))
  PROVE  AnsweredOnce'
BY DEF AnsweredOnce, Answers, SameOf

(* A step in which no main loop writes.                                    *)
LEMMA NoAnswer ==
  ASSUME IInv, [Next]_vars,
         \A c \in Connections : ~LoopWrites(c) /\ ~RefusalWrites(c)
  PROVE  \A j \in Launches : SameOf("started", j) /\ SameOf("error", j)
<1>0. TypeOK /\ Types /\ Types' /\ 0 \in Nat
        /\ {"started", "error", "output", "exit", "notice"} \subseteq Kinds
  BY TypesStep DEF IInv, TypeOK, Kinds
<1> USE DEF vars, loopVars, dockerVars, clientVars, programVars
<1>1. ASSUME UNCHANGED inbox,
             \A j \in Launches :
               \/ conn'[j] = conn[j]
               \/ conn[j] = None /\ conn'[j] \in Connections
      PROVE  \A j \in Launches : SameOf("started", j) /\ SameOf("error", j)
  <2>1. ASSUME NEW j \in Launches, NEW kind PROVE SameOf(kind, j)
    <3>1. CASE conn'[j] \in Connections
      BY <1>1, <3>1, InboxKept DEF IInv
    <3>2. CASE conn'[j] \notin Connections
      BY <1>1, <3>2 DEF SameOf, Received, Chunk
    <3> QED
      BY <3>1, <3>2
  <2> QED
    BY <2>1
<1>2. ASSUME NEW c \in Connections, NEW kind \in {"output", "exit", "notice"},
             NEW k \in Launches, NEW n \in Nat, Deliver(c, kind, k, n),
             conn[k] = c, UNCHANGED conn
      PROVE  \A j \in Launches : SameOf("started", j) /\ SameOf("error", j)
  <2>1. CASE client[c] = "reads"
    <3>1. kind \in Kinds /\ kind \notin {"started", "error"}
      BY <1>0
    <3>2. \A j \in Launches, kd \in Kinds : j # k \/ kd # kind => SameOf(kd, j)
      BY <1>0, <1>2, <2>1, <3>1, InboxGrows
    <3> QED
      BY <1>0, <3>1, <3>2
  <2>2. CASE client[c] # "reads"
    BY <1>1, <1>2, <2>2 DEF Deliver
  <2> QED
    BY <2>1, <2>2
<1>3. ASSUME NEW j \in Launches, BridgeWrites(j) \/ ExitWrites(j) \/ TimerWrites(j)
      PROVE  \A k \in Launches : SameOf("started", k) /\ SameOf("error", k)
  <2>1. bridge[j] # "off"
    BY <1>3 DEF IInv, Goroutines, BridgeWrites, ExitWrites, TimerWrites
  <2>2. PICK c \in Connections : conn[j] = c
    BY <2>1, ConnOfLaunch
  <2>3. taken[j] \in Nat
    BY <1>0 DEF Types
  <2> QED
    BY <1>0, <1>2, <1>3, <2>2, <2>3 DEF BridgeWrites, ExitWrites, TimerWrites
<1>4. ASSUME \A j \in Launches :
               ~BridgeWrites(j) /\ ~ExitWrites(j) /\ ~TimerWrites(j)
      PROVE  /\ UNCHANGED inbox
             /\ \A j \in Launches :
                  \/ conn'[j] = conn[j]
                  \/ conn[j] = None /\ conn'[j] \in Connections
  <2>1. CASE UNCHANGED vars
    BY <2>1
  <2>2. ASSUME NEW c \in Connections,
               \/ Loop(c) \/ Refusal(c) \/ Close(c)
               \/ \E j \in Launches : HandleLaunch(c, j) \/ RefuseRun(c, j)
        PROVE  /\ UNCHANGED inbox
               /\ \A j \in Launches :
                    \/ conn'[j] = conn[j]
                    \/ conn[j] = None /\ conn'[j] \in Connections
    <3>1. UNCHANGED inbox
      BY <2>2 DEF Loop, Start, AttachStore, LoopLocks, Spawn, Refusal,
                  RefusalLocks, Close, HandleLaunch, RefuseRun
    <3>2. CASE \E j \in Launches : HandleLaunch(c, j) \/ RefuseRun(c, j)
      BY <1>0, <3>1, <3>2 DEF HandleLaunch, RefuseRun, Types
    <3>3. CASE Loop(c) \/ Refusal(c) \/ Close(c)
      BY <3>1, <3>3 DEF Loop, Start, AttachStore, LoopLocks, Spawn, Refusal,
                        RefusalLocks, Close
    <3> QED
      BY <2>2, <3>2, <3>3
  <2>3. ASSUME NEW j \in Launches,
               ProgramPrints(j) \/ End(j) \/ Bridge(j) \/ Exit(j) \/ Timer(j)
        PROVE  UNCHANGED <<inbox, conn>>
    <3>1. CASE ProgramPrints(j) \/ End(j) \/ Bridge(j)
      BY <1>4, <3>1 DEF ProgramPrints, End, Bridge, BridgeReads, BridgeEnds,
                        BridgeChecks, BridgeLocks
    <3>2. CASE Exit(j) \/ Timer(j)
      BY <1>4, <3>2 DEF Exit, OutputDone, Recheck, ExitLocks, CleanUp, Timer,
                        TimerFires, TimerLocks, TimerCancels
    <3> QED
      BY <2>3, <3>1, <3>2
  <2> QED
    BY <2>1, <2>2, <2>3 DEF Next
<1> QED
  BY <1>1, <1>3, <1>4

(* A main loop goes on being about its launch until it has answered.       *)
LEMMA AwaitedKept ==
  ASSUME Types, [Next]_vars,
         \A c \in Connections : ~LoopWrites(c) /\ ~RefusalWrites(c)
  PROVE  \A j \in Launches : Awaited(j)' <=> Awaited(j)
<1> DEFINE Waiting == StartStages \union ErrorStages
<1> USE DEF vars, loopVars, dockerVars, clientVars, programVars
<1>1. ASSUME UNCHANGED <<conn, latest, refused>>,
             \A c \in Connections :
               /\ pc'[c] \in Waiting <=> pc[c] \in Waiting
               /\ pc'[c] \in RefusalStages <=> pc[c] \in RefusalStages
      PROVE  \A j \in Launches : Awaited(j)' <=> Awaited(j)
  BY <1>1 DEF Awaited, Refusing, Handled, Types
<1>2. ASSUME NEW c \in Connections, NEW k \in Launches, HandleLaunch(c, k)
      PROVE  \A j \in Launches : Awaited(j)' <=> Awaited(j)
  <2>1. /\ conn[k] = None /\ conn'[k] = c /\ latest'[c] = k
        /\ pc[c] = "reading" /\ pc'[c] = "creating" /\ UNCHANGED refused
        /\ \A d \in Connections : d # c => pc'[d] = pc[d] /\ latest'[d] = latest[d]
        /\ \A j \in Launches : j # k => conn'[j] = conn[j]
    BY <1>2 DEF HandleLaunch, Types
  <2>2. /\ "creating" \in Waiting /\ "reading" \notin Waiting
        /\ {"creating", "reading"} \intersect RefusalStages = {}
    BY DEF StartStages, ErrorStages, RefusalStages
  <2>3. ASSUME NEW j \in Launches, j # k PROVE Awaited(j)' <=> Awaited(j)
    <3>1. CASE conn[j] = c
      BY <2>1, <2>2, <2>3, <3>1, ConsoleAssumption
         DEF Awaited, Refusing, Handled
    <3>2. CASE conn[j] # c
      BY <2>1, <2>3, <3>2 DEF Awaited, Refusing, Handled, Types
    <3> QED
      BY <3>1, <3>2
  <2>4. Awaited(k)' /\ Awaited(k)
    BY <2>1, <2>2 DEF Awaited, Handled
  <2> QED
    BY <2>3, <2>4
<1>6. ASSUME NEW c \in Connections, NEW k \in Launches, RefuseRun(c, k)
      PROVE  \A j \in Launches : Awaited(j)' <=> Awaited(j)
  <2>1. /\ conn[k] = None /\ conn'[k] = c /\ refused'[c] = k /\ c # None
        /\ pc[c] = "reading" /\ pc'[c] = "sendRefusal" /\ UNCHANGED latest
        /\ \A d \in Connections :
             d # c => pc'[d] = pc[d] /\ refused'[d] = refused[d]
        /\ \A j \in Launches : j # k => conn'[j] = conn[j]
    BY <1>6, ConsoleAssumption DEF RefuseRun, Types
  <2>2. /\ {"sendRefusal", "reading"} \intersect Waiting = {}
        /\ "sendRefusal" \in RefusalStages /\ "reading" \notin RefusalStages
    BY DEF StartStages, ErrorStages, RefusalStages
  <2>3. ASSUME NEW j \in Launches, j # k PROVE Awaited(j)' <=> Awaited(j)
    <3>1. CASE conn[j] = c
      BY <2>1, <2>2, <2>3, <3>1 DEF Awaited, Refusing, Handled
    <3>2. CASE conn[j] # c
      BY <2>1, <2>3, <3>2 DEF Awaited, Refusing, Handled, Types
    <3> QED
      BY <3>1, <3>2
  <2>4. Awaited(k)' /\ Awaited(k)
    BY <2>1, <2>2 DEF Awaited, Refusing
  <2> QED
    BY <2>3, <2>4
<1>3. ASSUME NEW c \in Connections, Loop(c) \/ Refusal(c) \/ Close(c)
      PROVE  \A j \in Launches : Awaited(j)' <=> Awaited(j)
  <2>1. /\ UNCHANGED <<conn, latest, refused>>
        /\ \A d \in Connections : d # c => pc'[d] = pc[d]
        /\ pc'[c] \in Waiting <=> pc[c] \in Waiting
        /\ pc'[c] \in RefusalStages <=> pc[c] \in RefusalStages
    <3>1. CASE Loop(c)
      BY <1>3, <3>1 DEF Loop, Start, AttachStore, LoopLocks, Spawn, Types,
                        StartStages, ErrorStages, RefusalStages
    <3>2. CASE Refusal(c) \/ Close(c)
      BY <1>3, <3>2 DEF Refusal, RefusalLocks, Close, Types, StartStages,
                        ErrorStages, RefusalStages
    <3> QED
      BY <1>3, <3>1, <3>2
  <2> QED
    BY <1>1, <2>1
<1>4. ASSUME NEW j \in Launches,
             ProgramPrints(j) \/ End(j) \/ Bridge(j) \/ Exit(j) \/ Timer(j)
      PROVE  UNCHANGED <<pc, conn, latest, refused>>
  <2>1. CASE ProgramPrints(j) \/ End(j) \/ Bridge(j)
    BY <2>1 DEF ProgramPrints, End, Bridge, BridgeReads, BridgeEnds,
                BridgeChecks, BridgeLocks, BridgeWrites
  <2>2. CASE Exit(j) \/ Timer(j)
    BY <2>2 DEF Exit, OutputDone, Recheck, ExitLocks, ExitWrites, CleanUp,
                Timer, TimerFires, TimerLocks, TimerWrites, TimerCancels
  <2> QED
    BY <1>4, <2>1, <2>2
<1>5. CASE UNCHANGED vars
  BY <1>1, <1>5
<1> QED
  BY <1>1, <1>2, <1>3, <1>4, <1>5, <1>6 DEF Next

(* A main loop answers the launch it is about.                             *)
LEMMA AnswerStep ==
  ASSUME IInv, AnsweredOnce, NEW c \in Connections, NEW j \in Launches,
         conn[j] = c, client[c] = "reads", NEW kind \in {"started", "error"},
         Deliver(c, kind, j, 0), UNCHANGED conn, Awaited(j), ~Awaited(j)',
         \A k \in Launches : k # j => (Awaited(k)' <=> Awaited(k))
  PROVE  AnsweredOnce'
<1>0. TypeOK /\ 0 \in Nat /\ {"started", "error"} \subseteq Kinds
  BY DEF IInv, Kinds
<1>1. PICK m \in Nat :
        /\ Received(kind, j)' = Received(kind, j) \union {m}
        /\ \A k \in Launches, kd \in Kinds :
             k # j \/ kd # kind => SameOf(kd, k)
  BY <1>0, InboxGrows
<1>2. Answers(j)' = {m}
  <2>1. Received("started", j) = {} /\ Received("error", j) = {}
    BY DEF AnsweredOnce, Answers
  <2>2. \A kd \in {"started", "error"} :
          kd # kind => Received(kd, j)' = Received(kd, j)
    BY <1>0, <1>1 DEF SameOf
  <2>3. \/ Received("started", j)' = {m} /\ Received("error", j)' = {}
        \/ Received("started", j)' = {} /\ Received("error", j)' = {m}
    BY <1>1, <2>1, <2>2
  <2> QED
    BY <2>3 DEF Answers
<1>3. ASSUME NEW k \in Launches, k # j PROVE Answers(k)' = Answers(k)
  BY <1>0, <1>1, <1>3 DEF SameOf, Answers
<1> QED
  BY <1>2, <1>3 DEF AnsweredOnce

LEMMA AnswersStep == IInv /\ AnsweredOnce /\ [Next]_vars => AnsweredOnce'
<1> SUFFICES ASSUME IInv, AnsweredOnce, [Next]_vars PROVE AnsweredOnce'
  OBVIOUS
<1>0. TypeOK /\ Types
  BY DEF IInv, TypeOK
<1> USE DEF vars, loopVars, dockerVars, clientVars, programVars
<1>1. CASE \A c \in Connections : ~LoopWrites(c) /\ ~RefusalWrites(c)
  BY <1>0, <1>1, NoAnswer, AwaitedKept, AnswersKept
<1>2. ASSUME NEW c \in Connections, LoopWrites(c) PROVE AnsweredOnce'
  <2>1. PICK j \in Launches : latest[c] = j
    BY <1>2, LatestType DEF LoopWrites, IInv, RefusalStages
  <2>2. PICK kind \in {"started", "error"} : Deliver(c, kind, j, 0)
    BY <1>2, <2>1 DEF LoopWrites
  <2>3. /\ conn[j] = c /\ c # None /\ client[c] = "reads" /\ refused[c] # j
        /\ UNCHANGED <<conn, latest, refused>>
        /\ pc[c] \in StartStages \union ErrorStages
        /\ pc'[c] \notin StartStages \union ErrorStages
        /\ {pc[c], pc'[c]} \intersect RefusalStages = {}
        /\ \A d \in Connections : d # c => pc'[d] = pc[d]
    <3>1. /\ Pointers(c) /\ Goroutines(j) /\ client[c] # "stalled"
          /\ pc[c] # "closed" /\ c # None /\ j # None
      BY <1>2, ConsoleAssumption DEF IInv, LoopWrites, Deliver
    <3>2. conn[j] = c /\ refused[c] # j
      BY <2>1, <3>1 DEF Pointers, Goroutines
    <3> QED
      BY <1>0, <1>2, <2>1, <3>1, <3>2
         DEF Pointers, LoopWrites, Deliver, Types, StartStages, ErrorStages,
             RefusalStages
  <2>4. Awaited(j) /\ ~Awaited(j)'
    BY <2>1, <2>3 DEF Awaited, Refusing, Handled
  <2>5. ASSUME NEW k \in Launches, k # j PROVE Awaited(k)' <=> Awaited(k)
    <3>1. CASE conn[k] = c
      BY <2>1, <2>3, <2>5, <3>1 DEF Awaited, Refusing, Handled
    <3>2. CASE conn[k] # c
      BY <1>0, <2>3, <3>2 DEF Awaited, Refusing, Handled, Types
    <3> QED
      BY <3>1, <3>2
  <2> QED
    BY <2>2, <2>3, <2>4, <2>5, AnswerStep
<1>3. ASSUME NEW c \in Connections, RefusalWrites(c) PROVE AnsweredOnce'
  <2>1. PICK j \in Launches :
          /\ refused[c] = j /\ conn[j] = c /\ c # None
          /\ latest[c] # j /\ client[c] # "gone"
    BY <1>3, RefusedType DEF RefusalWrites, RefusalStages
  <2>2. /\ Deliver(c, "error", j, 0) /\ client[c] = "reads"
        /\ UNCHANGED <<conn, latest, refused>>
        /\ pc[c] \in RefusalStages /\ pc'[c] \notin RefusalStages
        /\ {pc[c], pc'[c]} \intersect (StartStages \union ErrorStages) = {}
        /\ \A d \in Connections : d # c => pc'[d] = pc[d]
    BY <1>0, <1>3, <2>1
       DEF RefusalWrites, Deliver, Types, StartStages, ErrorStages,
           RefusalStages
  <2>3. Awaited(j) /\ ~Awaited(j)'
    BY <2>1, <2>2 DEF Awaited, Refusing, Handled
  <2>4. ASSUME NEW k \in Launches, k # j PROVE Awaited(k)' <=> Awaited(k)
    <3>1. CASE conn[k] = c
      BY <2>1, <2>2, <2>4, <3>1 DEF Awaited, Refusing, Handled
    <3>2. CASE conn[k] # c
      BY <1>0, <2>2, <3>2 DEF Awaited, Refusing, Handled, Types
    <3> QED
      BY <3>1, <3>2
  <2> QED
    BY <2>1, <2>2, <2>3, <2>4, AnswerStep
<1> QED
  BY <1>1, <1>2, <1>3

(* Every "run" and "shell" message gets one answer, "started" or "error",  *)
(* and its handler does not return before: not both, and not two of one.   *)
THEOREM LaunchesAreAnsweredOnce == Spec => []AnsweredOnce
<1>1. Init => AnsweredOnce
  BY DEF Init, AnsweredOnce, Answers, Awaited, Received
<1> QED
  BY <1>1, AnswersStep, ConsoleInvariant, PTL DEF Spec

(* What comes of a run once its exit is reported: it was said to be        *)
(* started before, never to have failed, and its exit is reported once.    *)
OneExit ==
  \A j \in Launches : \A i \in Received("exit", j) :
    /\ j \in Runs
    /\ \A h \in Received("exit", j) : h = i
    /\ \E s \in Received("started", j) : s < i
    /\ Received("error", j) = {}

(* What the exit goroutine and the main loop send of a run agrees.         *)
THEOREM ExitsFollowStarts == Spec => []OneExit
<1>1. IInv /\ AnsweredOnce => OneExit
  <2> SUFFICES ASSUME IInv, AnsweredOnce, NEW j \in Launches,
                      NEW i \in Received("exit", j)
               PROVE  /\ j \in Runs
                      /\ \A h \in Received("exit", j) : h = i
                      /\ \E s \in Received("started", j) : s < i
                      /\ Received("error", j) = {}
    BY DEF OneExit
  <2>1. /\ {"started", "exit", "error"} \subseteq Kinds
        /\ i \in Nat /\ Received("exit", j) \subseteq Nat
        /\ Received("started", j) \subseteq Nat
    BY ReceivedType DEF IInv, Kinds
  <2>2. /\ j \in Runs /\ exit[j] \in {"clean", "done"}
        /\ \A kind \in Kinds : \A h \in Received(kind, j) : h <= i
    BY DEF IInv, Exited
  <2>3. \A h \in Received("exit", j) : h = i
    <3>1. \A h \in Received("exit", j) : h <= i /\ i <= h
      BY <2>1 DEF IInv, Exited
    <3> QED
      BY <2>1, <3>1
  <2>4. bridge[j] = "done" /\ conn[j] # None
    BY <2>2 DEF IInv, Goroutines
  <2>5. PICK s \in Received("started", j) : TRUE
    BY <2>4 DEF IInv, Started
  <2>6. s < i
    <3>1. s <= i
      BY <2>1, <2>2, <2>5
    <3>2. s # i
      BY <2>4, <2>5 DEF Received
    <3> QED
      BY <2>1, <2>5, <3>1, <3>2
  <2>7. Received("error", j) = {}
    <3>1. ~Awaited(j)
      BY <2>5 DEF AnsweredOnce, Answers
    <3>2. PICK n \in Nat : Received("started", j) \union Received("error", j) = {n}
      BY <3>1 DEF AnsweredOnce, Answers
    <3>3. Received("error", j) \subseteq {s}
      BY <2>5, <3>2
    <3>4. s \notin Received("error", j)
      BY <2>4, <2>5 DEF Received
    <3> QED
      BY <3>3, <3>4
  <2> QED
    BY <2>2, <2>3, <2>5, <2>6, <2>7
<1> QED
  BY <1>1, LaunchesAreAnsweredOnce, ConsoleInvariant, PTL

-----------------------------------------------------------------------------
(* What a client has received it keeps.                                    *)
LEMMA DeliverGrows ==
  ASSUME TypeOK, NEW c \in Connections, NEW kind, NEW k, NEW n,
         Deliver(c, kind, k, n), NEW d \in Connections, NEW i \in DOMAIN inbox[d]
  PROVE  i \in DOMAIN inbox'[d] /\ inbox'[d][i] = inbox[d][i]
<1> DEFINE msg == [kind |-> kind, of |-> k, n |-> n]
<1>1. inbox[d] \in Seq(Messages)
  BY DEF TypeOK
<1>2. inbox'[d] = inbox[d] \/ inbox'[d] = Append(inbox[d], msg)
  BY DEF Deliver, TypeOK
<1> HIDE DEF msg
<1> QED
  BY <1>1, <1>2

LEMMA InboxesGrow ==
  ASSUME IInv, [Next]_vars, NEW d \in Connections, NEW i \in DOMAIN inbox[d]
  PROVE  i \in DOMAIN inbox'[d] /\ inbox'[d][i] = inbox[d][i]
<1>0. TypeOK
  BY DEF IInv
<1> USE DEF vars, loopVars, dockerVars, clientVars, programVars
<1>1. ASSUME NEW c \in Connections, LoopWrites(c)
      PROVE  i \in DOMAIN inbox'[d] /\ inbox'[d][i] = inbox[d][i]
  BY <1>0, <1>1, DeliverGrows DEF LoopWrites
<1>7. ASSUME NEW c \in Connections, RefusalWrites(c)
      PROVE  i \in DOMAIN inbox'[d] /\ inbox'[d][i] = inbox[d][i]
  BY <1>0, <1>7, DeliverGrows DEF RefusalWrites
<1>2. ASSUME NEW j \in Launches,
             BridgeWrites(j) \/ ExitWrites(j) \/ TimerWrites(j)
      PROVE  i \in DOMAIN inbox'[d] /\ inbox'[d][i] = inbox[d][i]
  <2>1. bridge[j] # "off"
    BY <1>2 DEF IInv, Goroutines, BridgeWrites, ExitWrites, TimerWrites
  <2>2. conn[j] \in Connections
    BY <2>1, ConnOfLaunch
  <2> QED
    BY <1>0, <1>2, <2>2, DeliverGrows
       DEF BridgeWrites, ExitWrites, TimerWrites
<1>3. CASE UNCHANGED inbox
  BY <1>3
<1>4. ASSUME NEW c \in Connections,
             \/ Loop(c) \/ Refusal(c) \/ Close(c)
             \/ \E j \in Launches : HandleLaunch(c, j) \/ RefuseRun(c, j)
      PROVE  UNCHANGED inbox \/ LoopWrites(c) \/ RefusalWrites(c)
  BY <1>4 DEF Loop, Start, AttachStore, LoopLocks, Spawn, Refusal,
              RefusalLocks, Close, HandleLaunch, RefuseRun
<1>5. ASSUME NEW j \in Launches,
             ProgramPrints(j) \/ End(j) \/ Bridge(j) \/ Exit(j) \/ Timer(j)
      PROVE  \/ UNCHANGED inbox
             \/ BridgeWrites(j) \/ ExitWrites(j) \/ TimerWrites(j)
  <2>1. CASE ProgramPrints(j) \/ End(j) \/ Bridge(j)
    BY <2>1 DEF ProgramPrints, End, Bridge, BridgeReads, BridgeEnds,
                BridgeChecks, BridgeLocks
  <2>2. CASE Exit(j) \/ Timer(j)
    BY <2>2 DEF Exit, OutputDone, Recheck, ExitLocks, CleanUp, Timer,
                TimerFires, TimerLocks, TimerCancels
  <2> QED
    BY <1>5, <2>1, <2>2
<1>6. CASE UNCHANGED vars
  BY <1>3, <1>6
<1> QED
  BY <1>1, <1>2, <1>3, <1>4, <1>5, <1>6, <1>7 DEF Next

LEMMA ReceivedKept ==
  ASSUME IInv, [Next]_vars, NEW j \in Launches, conn'[j] = conn[j], NEW kind
  PROVE  Received(kind, j) \subseteq Received(kind, j)'
<1>1. CASE conn[j] = None
  BY <1>1 DEF Received
<1>2. CASE conn[j] # None
  <2>1. conn[j] \in Connections
    BY <1>2 DEF IInv, TypeOK, Types
  <2> QED
    BY <1>2, <2>1, InboxesGrow DEF Received
<1> QED
  BY <1>1, <1>2

(* The latest run of a connection that is still there.                     *)
Expected(j) ==
  /\ j \in Runs /\ conn[j] # None
  /\ latest[conn[j]] = j /\ client[conn[j]] # "gone"

(* Its exit goroutine, until it has reported the exit, finds both of its   *)
(* generation tests fulfilled.                                             *)
ExitKept(j) ==
  Expected(j) =>
    /\ exit[j] \in {"wait", "recheck", "send", "write"} => cur[conn[j]] = j
    /\ exit[j] \in {"clean", "done"} => Received("exit", j) # {}

(* A launch that a step does not make expected, whose exit goroutine does  *)
(* not move, and that stays st.session if it was.                          *)
LEMMA ExitUnmoved ==
  ASSUME IInv, [Next]_vars, NEW j \in Launches, ExitKept(j),
         Expected(j)' => /\ Expected(j) /\ conn'[j] = conn[j]
                         /\ exit'[j] = exit[j]
                         /\ cur[conn[j]] = j => cur'[conn[j]] = j
  PROVE  ExitKept(j)'
BY ReceivedKept DEF ExitKept

ExitsKept == \A j \in Launches : ExitKept(j)

LEMMA ExitsKeptStep == IInv /\ ExitsKept /\ [Next]_vars => ExitsKept'
<1> SUFFICES ASSUME IInv, \A j \in Launches : ExitKept(j), [Next]_vars,
                    NEW j \in Launches
             PROVE  ExitKept(j)'
  BY DEF ExitsKept
<1>0. TypeOK /\ Types /\ Goroutines(j) /\ None # j
  BY ConsoleAssumption DEF IInv, TypeOK
<1> USE DEF vars, loopVars, dockerVars, clientVars, programVars
<1>1. ASSUME UNCHANGED <<conn, latest, client, cur>>, exit'[j] = exit[j]
      PROVE  ExitKept(j)'
  BY <1>1, ExitUnmoved DEF Expected
<1>2. ASSUME NEW c \in Connections, NEW k \in Launches, HandleLaunch(c, k)
      PROVE  ExitKept(j)'
  <2>1. /\ conn[k] = None /\ conn' = [conn EXCEPT ![k] = c]
        /\ latest' = [latest EXCEPT ![c] = k]
        /\ cur' = [cur EXCEPT ![c] = None]
        /\ UNCHANGED <<client, exit>>
    BY <1>2 DEF HandleLaunch, LetGo
  <2>2. CASE j = k
    <3>1. exit'[j] = "off"
      BY <1>0, <2>1, <2>2 DEF Goroutines
    <3> QED
      BY <3>1 DEF ExitKept
  <2>3. CASE j # k
    <3>1. conn'[j] = conn[j] /\ (Expected(j)' => conn[j] # c)
      BY <1>0, <2>1, <2>3 DEF Expected, Types
    <3>2. Expected(j)' => Expected(j) /\ cur'[conn[j]] = cur[conn[j]]
      BY <1>0, <2>1, <3>1 DEF Expected, Types
    <3> QED
      BY <2>1, <3>1, <3>2, ExitUnmoved
  <2> QED
    BY <2>2, <2>3
<1>3. ASSUME NEW c \in Connections, Close(c) PROVE ExitKept(j)'
  <2>1. /\ client' = [client EXCEPT ![c] = "gone"]
        /\ cur' = [cur EXCEPT ![c] = None]
        /\ UNCHANGED <<conn, latest, exit>>
    BY <1>3 DEF Close, LetGo
  <2>2. Expected(j)' => Expected(j) /\ conn[j] # c
    BY <1>0, <2>1 DEF Expected, Types
  <2>3. Expected(j)' => cur'[conn[j]] = cur[conn[j]]
    BY <1>0, <2>1, <2>2 DEF Types
  <2> QED
    BY <2>1, <2>2, <2>3, ExitUnmoved
<1>4. ASSUME NEW c \in Connections, AttachStore(c) PROVE ExitKept(j)'
  <2>1. /\ \/ cur' = cur \/ cur' = [cur EXCEPT ![c] = latest[c]]
        /\ UNCHANGED <<conn, latest, client, exit>>
    BY <1>4 DEF AttachStore
  <2>2. Expected(j)' => Expected(j)
    BY <2>1 DEF Expected
  <2>3. Expected(j) /\ cur[conn[j]] = j => cur'[conn[j]] = j
    BY <1>0, <2>1 DEF Expected, Types
  <2> QED
    BY <2>1, <2>2, <2>3, ExitUnmoved
<1>5. ASSUME NEW c \in Connections, Spawn(c) PROVE ExitKept(j)'
  <2>1. /\ pc[c] = "spawn" /\ exit' = [exit EXCEPT ![latest[c]] = "wait"]
        /\ UNCHANGED <<conn, latest, client, cur>>
    BY <1>5 DEF Spawn
  <2>2. CASE latest[c] # j
    <3>1. exit'[j] = exit[j]
      BY <1>0, <2>1, <2>2 DEF Types
    <3> QED
      BY <1>1, <2>1, <3>1
  <2>3. CASE latest[c] = j
    <3>1. conn[j] = c /\ c # None
      BY <1>0, <2>3, ConsoleAssumption DEF IInv, Pointers
    <3>2. cur[c] = j
      BY <1>0, <2>1, <2>3, <3>1 DEF Goroutines, Handled
    <3>3. exit'[j] = "wait"
      BY <1>0, <2>1, <2>3 DEF Types
    <3> QED
      BY <2>1, <3>1, <3>2, <3>3 DEF ExitKept
  <2> QED
    BY <2>2, <2>3
<1>6. ASSUME NEW c \in Connections,
             Start(c) \/ LoopLocks(c) \/ LoopWrites(c) \/ Refusal(c)
      PROVE  ExitKept(j)'
  BY <1>1, <1>6 DEF Start, LoopLocks, LoopWrites, Refusal, RefusalLocks,
                    RefusalWrites, Deliver
<1>14. ASSUME NEW c \in Connections, NEW k \in Launches, RefuseRun(c, k)
       PROVE  ExitKept(j)'
  <2>1. /\ conn[k] = None /\ conn' = [conn EXCEPT ![k] = c]
        /\ UNCHANGED <<latest, cur, client, exit>>
    BY <1>14 DEF RefuseRun
  <2>2. CASE j = k
    <3>1. exit'[j] = "off"
      BY <1>0, <2>1, <2>2 DEF Goroutines
    <3> QED
      BY <3>1 DEF ExitKept
  <2>3. CASE j # k
    <3>1. conn'[j] = conn[j]
      BY <1>0, <2>1, <2>3 DEF Types
    <3> QED
      BY <2>1, <3>1, ExitUnmoved DEF Expected
  <2> QED
    BY <2>2, <2>3
<1>7. ASSUME NEW k \in Launches,
             ProgramPrints(k) \/ End(k) \/ Bridge(k) \/ Timer(k)
      PROVE  ExitKept(j)'
  <2>1. CASE ProgramPrints(k) \/ End(k) \/ Bridge(k)
    BY <1>1, <2>1 DEF ProgramPrints, End, Bridge, BridgeReads, BridgeEnds,
                      BridgeChecks, BridgeLocks, BridgeWrites, Deliver
  <2>2. CASE Timer(k)
    BY <1>1, <2>2 DEF Timer, TimerFires, TimerLocks, TimerWrites,
                      TimerCancels, Deliver
  <2> QED
    BY <1>7, <2>1, <2>2
<1>8. ASSUME NEW k \in Launches, k # j, Exit(k), ~CleanUp(k)
      PROVE  ExitKept(j)'
  <2>1. UNCHANGED <<conn, latest, client, cur>> /\ exit'[j] = exit[j]
    BY <1>0, <1>8 DEF Exit, OutputDone, Recheck, ExitLocks, ExitWrites,
                      Deliver, Types
  <2> QED
    BY <1>1, <2>1
<1>9. ASSUME NEW k \in Launches, CleanUp(k) PROVE ExitKept(j)'
  <2>1. /\ exit[k] = "clean" /\ exit' = [exit EXCEPT ![k] = "done"]
        /\ UNCHANGED <<conn, latest, client>>
        /\ \/ UNCHANGED cur
           \/ IsCurrent(k) /\ cur' = [cur EXCEPT ![conn[k]] = None]
    BY <1>9 DEF CleanUp, LetGo
  <2>2. Expected(j)' <=> Expected(j)
    BY <2>1 DEF Expected
  <2>3. Received("exit", j) \subseteq Received("exit", j)'
    BY <2>1, ReceivedKept
  <2>4. CASE k = j
    <3>1. exit[j] = "clean" /\ exit'[j] = "done"
      BY <1>0, <2>1, <2>4 DEF Types
    <3> QED
      BY <2>2, <2>3, <3>1 DEF ExitKept
  <2>5. CASE k # j
    <3>1. exit'[j] = exit[j]
      BY <1>0, <2>1, <2>5 DEF Types
    <3>2. Expected(j) /\ cur[conn[j]] = j => cur'[conn[j]] = j
      <4>1. Expected(j) /\ IsCurrent(k) => conn[j] # conn[k]
        BY <2>5 DEF Expected, IsCurrent
      <4> QED
        BY <1>0, <2>1, <4>1 DEF Expected, Types
    <3> QED
      BY <2>1, <2>2, <3>1, <3>2, ExitUnmoved
  <2> QED
    BY <2>4, <2>5
<1>10. CASE OutputDone(j) \/ Recheck(j) \/ ExitLocks(j)
  <2>1. /\ UNCHANGED <<conn, latest, client, cur>>
        /\ exit[j] \in {"wait", "recheck", "send"}
    BY <1>10 DEF OutputDone, Recheck, ExitLocks
  <2>2. ASSUME Expected(j)'
        PROVE  cur'[conn'[j]] = j /\ exit'[j] \in {"recheck", "send", "write"}
    <3>1. Expected(j) /\ cur[conn[j]] = j /\ IsCurrent(j) /\ j \in Runs
      BY <1>0, <2>1, <2>2 DEF Expected, ExitKept, IsCurrent
    <3> QED
      BY <1>0, <1>10, <2>1, <3>1
         DEF OutputDone, Recheck, ExitLocks, Types, IsCurrent
  <2> QED
    BY <2>2 DEF ExitKept
<1>11. CASE ExitWrites(j)
  <2>1. /\ exit[j] = "write" /\ exit'[j] = "clean"
        /\ UNCHANGED <<conn, latest, client, cur>>
        /\ Deliver(conn[j], "exit", j, 0)
    BY <1>0, <1>11 DEF ExitWrites, Deliver, Types
  <2>2. ASSUME Expected(j)' PROVE Received("exit", j)' # {}
    <3>1. PICK c \in Connections : conn[j] = c
      BY <1>0, <2>1, <2>2 DEF Expected, Types
    <3>2. client[c] = "reads"
      BY <1>0, <2>1, <2>2, <3>1 DEF Expected, Deliver, Types
    <3>3. "exit" \in Kinds /\ 0 \in Nat
      BY DEF Kinds
    <3>4. PICK m \in Nat : Received("exit", j)' = Received("exit", j) \union {m}
      BY <1>0, <2>1, <3>1, <3>2, <3>3, InboxGrows
    <3> QED
      BY <3>4
  <2> QED
    BY <2>1, <2>2 DEF ExitKept
<1>12. CASE UNCHANGED vars
  BY <1>1, <1>12
<1>13. ASSUME NEW k \in Launches, Exit(k) PROVE ExitKept(j)'
  BY <1>8, <1>9, <1>10, <1>11, <1>13 DEF Exit
<1> QED
  BY <1>2, <1>3, <1>4, <1>5, <1>6, <1>7, <1>12, <1>13, <1>14 DEF Next, Loop

(* The latest run of a connection does not end unreported: its exit        *)
(* goroutine gives up only if the client left or asked for something else. *)
NoExitLost ==
  \A j \in Runs :
    /\ conn[j] # None /\ exit[j] = "done"
    /\ latest[conn[j]] = j /\ client[conn[j]] # "gone"
    => Received("exit", j) # {}

(* What ExitReported, which TLC checks, rests on: neither of the two tests *)
(* before the exit is sent can drop it by mistake.                         *)
THEOREM NoExitIsLost == Spec => []NoExitLost
<1>1. Init => ExitsKept
  BY DEF Init, ExitsKept, ExitKept
<1>2. ExitsKept => NoExitLost
  BY DEF ExitsKept, ExitKept, Expected, NoExitLost, Launches
<1> QED
  BY <1>1, <1>2, ExitsKeptStep, ConsoleInvariant, PTL DEF Spec

=============================================================================
