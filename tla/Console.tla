------------------------------ MODULE Console -------------------------------
(***************************************************************************)
(* handler/websocket.go: what a client gets to read. The main loop of a    *)
(* connection answers "started" or "error"; the bridge goroutine of each   *)
(* run or shell copies what its container prints; the exit goroutine sends *)
(* the files and the exit of a run; the idle timer of a shell sends a      *)
(* notice. All of them write to the connection under connWriteMu, one      *)
(* mutex for all connections, and WriteJSON returns when the client makes  *)
(* room for the message: there is no write deadline.                       *)
(*                                                                         *)
(* Of the creation of a container only its last call is apart, so that a   *)
(* program may print before its stream is attached; the others are in      *)
(* Containers. Slots, user limits, evictions and removals that Docker      *)
(* refuses are left to Sessions: here a run may be refused for its user,   *)
(* and a launch may be refused a slot or a container.                      *)
(***************************************************************************)
EXTENDS Naturals, Sequences, FiniteSets

CONSTANTS
  Runs,         (* "run" messages                                          *)
  Shells,       (* "shell" messages                                        *)
  Connections,  (* WebSocket connections                                   *)
  Workloads,    (* bound: the sets of launches clients may ask for         *)
  MaxChunks,    (* bound: [Launches] how often its program prints          *)
  MayStall,     (* connections whose client may have stopped reading       *)
  None          (* nil                                                     *)

Launches == Runs \union Shells

ASSUME ConsoleAssumption ==
  /\ Runs \intersect Shells = {}
  /\ None \notin Launches \union Connections
  /\ Workloads \subseteq SUBSET Launches
  /\ MaxChunks \in [Launches -> Nat]
  /\ MayStall \subseteq Connections

VARIABLES
  offered,  (* the launches clients ask for in this behaviour              *)
  pc,       (* [Connections] the main loop                                 *)
  cur,      (* [Connections] st.session                                    *)
  latest,   (* [Connections] st.generation: the launch that bumped it last,*)
            (* which is the one a handler is about                         *)
  refused,  (* [Connections] the run it refused last                       *)
  conn,     (* [Launches] the connection it belongs to                     *)
  box,      (* [Launches] its container: none, running, exited or gone     *)
  stream,   (* [Launches] its PTY stream: none, open or closed             *)
  client,   (* [Connections] the client: reads, stalled, or gone           *)
  inbox,    (* [Connections] the messages it has received                  *)
  wrote,    (* [Launches] chunks its program has printed                   *)
  lost,     (* [Launches] how many of them before the stream was attached  *)
  taken,    (* [Launches] the last chunk that was lost or read             *)
  bridge,   (* [Launches] the goroutine that bridges the output            *)
  exit,     (* [Launches] the goroutine that waits for outputDone          *)
  timer     (* [Launches] its kill or idle timer                           *)

loopVars    == <<pc, cur, latest, refused, conn>>
dockerVars  == <<box, stream>>
clientVars  == <<client, inbox>>
programVars == <<wrote, lost, taken>>
vars == <<offered, loopVars, dockerVars, clientVars, programVars, bridge, exit,
          timer>>

(* What clients are told of a launch, with the number of a chunk.          *)
Kinds == {"started", "error", "output", "exit", "notice"}
Messages == [kind : Kinds, of : Launches, n : Nat]

Types ==
  /\ offered \in Workloads
  /\ pc \in [Connections -> {"reading", "creating", "attach", "sendStarted",
                             "writeStarted", "sendError", "writeError",
                             "sendRefusal", "writeRefusal", "spawn",
                             "closed"}]
  /\ cur \in [Connections -> Launches \union {None}]
  /\ latest \in [Connections -> Launches \union {None}]
  /\ refused \in [Connections -> Runs \union {None}]
  /\ conn \in [Launches -> Connections \union {None}]
  /\ client \in [Connections -> {"reads", "stalled", "gone"}]
  /\ box \in [Launches -> {"none", "running", "exited", "gone"}]
  /\ stream \in [Launches -> {"none", "open", "closed"}]
  /\ wrote \in [Launches -> Nat]
  /\ lost \in [Launches -> Nat]
  /\ taken \in [Launches -> Nat]
  /\ bridge \in [Launches -> {"off", "read", "check", "send", "write", "done"}]
  /\ exit \in [Launches -> {"off", "wait", "recheck", "send", "write",
                            "clean", "done"}]
  /\ timer \in [Launches -> {"off", "armed", "send", "write", "cancel"}]

(* What a handler that refuses a run does: it sends an error and returns.  *)
RefusalStages == {"sendRefusal", "writeRefusal"}

(* Types, and which launch a handler is about.                             *)
TypeOK ==
  /\ Types
  /\ inbox \in [Connections -> Seq(Messages)]
  /\ \A c \in Connections :
       /\ pc[c] \notin {"reading", "closed"} \union RefusalStages =>
            latest[c] # None /\ cur[c] \in {None, latest[c]}
       /\ pc[c] \in RefusalStages => refused[c] # None

Init ==
  /\ offered \in Workloads
  /\ pc = [c \in Connections |-> "reading"]
  /\ cur = [c \in Connections |-> None]
  /\ latest = [c \in Connections |-> None]
  /\ refused = [c \in Connections |-> None]
  /\ conn = [j \in Launches |-> None]
  /\ client \in [Connections -> {"reads", "stalled"}]
  /\ \A c \in Connections : client[c] = "stalled" => c \in MayStall
  /\ inbox = [c \in Connections |-> <<>>]
  /\ box = [j \in Launches |-> "none"]
  /\ stream = [j \in Launches |-> "none"]
  /\ wrote = [j \in Launches |-> 0]
  /\ lost = [j \in Launches |-> 0]
  /\ taken = [j \in Launches |-> 0]
  /\ bridge = [j \in Launches |-> "off"]
  /\ exit = [j \in Launches |-> "off"]
  /\ timer = [j \in Launches |-> "off"]

IsCurrent(j) == cur[conn[j]] # None /\ latest[conn[j]] = j

Cancel(j) == stream' = [stream EXCEPT ![j] = "closed"]

(* Mutant of LetGo: st.session is not forgotten.                           *)
LetGoKeeps(c) ==
  /\ UNCHANGED cur
  /\ IF cur[c] = None
     THEN UNCHANGED dockerVars
     ELSE Cancel(cur[c]) /\ box' = [box EXCEPT ![cur[c]] = "gone"]

(* Cancel, close, remove and forget st.session.                            *)
LetGo(c) ==
  /\ cur' = [cur EXCEPT ![c] = None]
  /\ IF cur[c] = None
     THEN UNCHANGED dockerVars
     ELSE Cancel(cur[c]) /\ box' = [box EXCEPT ![cur[c]] = "gone"]

-----------------------------------------------------------------------------
(* Who is in WriteJSON, and so owns connWriteMu.                           *)
Writers ==
  {<<"loop", c>> : c \in {d \in Connections :
                            pc[d] \in {"writeStarted", "writeError",
                                       "writeRefusal"}}}
  \union {<<"bridge", j>> : j \in {k \in Launches : bridge[k] = "write"}}
  \union {<<"exit", j>> : j \in {k \in Launches :
                                   exit[k] = "write"}}
  \union {<<"timer", j>> : j \in {k \in Launches : timer[k] = "write"}}

Unlocked == Writers = {}

(* WriteJSON returns: the message reaches a client that reads, and fails   *)
(* without notice when the connection is gone. With a client that does not *)
(* read, and whose buffers are full, it does not return.                   *)
Deliver(c, kind, j, n) ==
  /\ client[c] # "stalled"
  /\ inbox' = IF client[c] = "reads"
              THEN [inbox EXCEPT ![c] =
                      Append(@, [kind |-> kind, of |-> j, n |-> n])]
              ELSE inbox
  /\ UNCHANGED client

-----------------------------------------------------------------------------
(* The main loop reads a "run" or "shell" message: replace st.session and  *)
(* start a new generation.                                                 *)
HandleLaunch(c, j) ==
  /\ j \in offered
  /\ pc[c] = "reading"
  /\ client[c] # "gone"
  /\ conn[j] = None
  /\ LetGo(c)
  /\ latest' = [latest EXCEPT ![c] = j]
  /\ conn' = [conn EXCEPT ![j] = c]
  /\ pc' = [pc EXCEPT ![c] = "creating"]
  /\ UNCHANGED <<offered, refused, clientVars, programVars, bridge, exit, timer>>

(* A run whose user is at the limit (see Sessions) is refused before it    *)
(* replaces anything.                                                      *)
RefuseRun(c, j) ==
  /\ j \in offered \intersect Runs
  /\ pc[c] = "reading"
  /\ client[c] # "gone"
  /\ conn[j] = None
  /\ refused' = [refused EXCEPT ![c] = j]
  /\ conn' = [conn EXCEPT ![j] = c]
  /\ pc' = [pc EXCEPT ![c] = "sendRefusal"]
  /\ UNCHANGED <<offered, cur, latest, dockerVars, clientVars, programVars,
                 bridge, exit, timer>>

RefusalLocks(c) ==
  /\ Unlocked
  /\ pc[c] = "sendRefusal"
  /\ pc' = [pc EXCEPT ![c] = "writeRefusal"]
  /\ UNCHANGED <<offered, cur, latest, refused, conn, dockerVars, clientVars,
                 programVars, bridge, exit, timer>>

RefusalWrites(c) ==
  /\ pc[c] = "writeRefusal"
  /\ Deliver(c, "error", refused[c], 0)
  /\ pc' = [pc EXCEPT ![c] = "reading"]
  /\ UNCHANGED <<offered, cur, latest, refused, conn, dockerVars, programVars,
                 bridge, exit, timer>>

(* A slot and a container that was started; or an error, at any point.     *)
Start(c) ==
  /\ pc[c] = "creating"
  /\ \/ /\ box' = [box EXCEPT ![latest[c]] = "running"]
        /\ pc' = [pc EXCEPT ![c] = "attach"]
     \/ UNCHANGED box /\ pc' = [pc EXCEPT ![c] = "sendError"]
  /\ UNCHANGED <<offered, cur, latest, refused, conn, stream, clientVars,
                 programVars, bridge, exit, timer>>

(* Mutant of AttachStore: the output is bridged before "started" is sent.  *)
AttachStoreBridges(c) ==
  /\ pc[c] = "attach"
  /\ \/ /\ stream' = [stream EXCEPT ![latest[c]] = "open"]
        /\ cur' = [cur EXCEPT ![c] = latest[c]]
        /\ pc' = [pc EXCEPT ![c] = "sendStarted"]
        /\ bridge' = [bridge EXCEPT ![latest[c]] = "read"]
        /\ UNCHANGED box
     \/ /\ box' = [box EXCEPT ![latest[c]] = "gone"]
        /\ pc' = [pc EXCEPT ![c] = "sendError"]
        /\ UNCHANGED <<stream, cur, bridge>>
  /\ UNCHANGED <<offered, latest, refused, conn, clientVars, programVars, exit,
                 timer>>

(* ContainerAttach, the last call, and st.session = sess; or it fails and  *)
(* the container is removed.                                               *)
AttachStore(c) ==
  /\ pc[c] = "attach"
  /\ \/ /\ stream' = [stream EXCEPT ![latest[c]] = "open"]
        /\ cur' = [cur EXCEPT ![c] = latest[c]]
        /\ pc' = [pc EXCEPT ![c] = "sendStarted"]
        /\ UNCHANGED box
     \/ /\ box' = [box EXCEPT ![latest[c]] = "gone"]
        /\ pc' = [pc EXCEPT ![c] = "sendError"]
        /\ UNCHANGED <<stream, cur>>
  /\ UNCHANGED <<offered, latest, refused, conn, clientVars, programVars,
                 bridge, exit, timer>>

LoopLocks(c) ==
  /\ Unlocked
  /\ \/ pc[c] = "sendStarted" /\ pc' = [pc EXCEPT ![c] = "writeStarted"]
     \/ pc[c] = "sendError" /\ pc' = [pc EXCEPT ![c] = "writeError"]
  /\ UNCHANGED <<offered, cur, latest, refused, conn, dockerVars, clientVars,
                 programVars, bridge, exit, timer>>

LoopWrites(c) ==
  /\ \/ /\ pc[c] = "writeStarted"
        /\ Deliver(c, "started", latest[c], 0)
        /\ pc' = [pc EXCEPT ![c] = "spawn"]
     \/ /\ pc[c] = "writeError"
        /\ Deliver(c, "error", latest[c], 0)
        /\ pc' = [pc EXCEPT ![c] = "reading"]
  /\ UNCHANGED <<offered, cur, latest, refused, conn, dockerVars, programVars,
                 bridge, exit, timer>>

Spawn(c) ==
  /\ pc[c] = "spawn"
  /\ pc' = [pc EXCEPT ![c] = "reading"]
  /\ bridge' = [bridge EXCEPT ![latest[c]] = "read"]
  /\ exit' = [exit EXCEPT ![latest[c]] = "wait"]
  /\ timer' = [timer EXCEPT ![latest[c]] = "armed"]
  /\ UNCHANGED <<offered, cur, latest, refused, conn, dockerVars, clientVars,
                 programVars>>

(* The connection is gone, or its read deadline is over; nothing notices   *)
(* while a message is being handled.                                       *)
Close(c) ==
  /\ pc[c] = "reading"
  /\ LetGo(c)
  /\ pc' = [pc EXCEPT ![c] = "closed"]
  /\ client' = [client EXCEPT ![c] = "gone"]
  /\ UNCHANGED <<offered, latest, refused, conn, inbox, programVars, bridge,
                 exit, timer>>

-----------------------------------------------------------------------------
(* The program prints. Docker keeps the output for an attached stream, but *)
(* attaches it without the logs: what was printed before is not sent.      *)
ProgramPrints(j) ==
  /\ box[j] = "running"
  /\ wrote[j] < MaxChunks[j]
  /\ wrote' = [wrote EXCEPT ![j] = @ + 1]
  /\ IF stream[j] # "none"
     THEN UNCHANGED <<lost, taken>>
     ELSE /\ lost' = [lost EXCEPT ![j] = @ + 1]
          /\ taken' = [taken EXCEPT ![j] = @ + 1]
  /\ UNCHANGED <<offered, loopVars, dockerVars, clientVars, bridge, exit,
                 timer>>

End(j) ==
  /\ box[j] = "running"
  /\ box' = [box EXCEPT ![j] = "exited"]
  /\ UNCHANGED <<offered, loopVars, stream, clientVars, programVars, bridge,
                 exit, timer>>

(* Reader.Read returns a chunk, or the end of the stream: its program      *)
(* ended and all was read, its container is gone, or it was cancelled.     *)
BridgeReads(j) ==
  /\ bridge[j] = "read"
  /\ taken[j] < wrote[j]
  /\ taken' = [taken EXCEPT ![j] = @ + 1]
  /\ bridge' = [bridge EXCEPT ![j] = "check"]
  /\ UNCHANGED <<offered, loopVars, dockerVars, clientVars, wrote, lost,
                 exit, timer>>

(* A shell's bridge stops the idle timer on its way out.                   *)
StopTimer(j) == timer' = [timer EXCEPT ![j] = IF @ = "armed" THEN "off" ELSE @]

BridgeEnds(j) ==
  /\ bridge[j] = "read"
  /\ \/ box[j] = "exited" /\ taken[j] = wrote[j]
     \/ box[j] = "gone"
     \/ stream[j] = "closed"
  /\ bridge' = [bridge EXCEPT ![j] = "done"]
  /\ IF j \in Shells THEN StopTimer(j) ELSE UNCHANGED timer
  /\ UNCHANGED <<offered, loopVars, dockerVars, clientVars, programVars,
                 exit>>

(* Mutant of BridgeChecks: the output is sent whoever is current.          *)
BridgeChecksNothing(j) ==
  /\ bridge[j] = "check"
  /\ bridge' = [bridge EXCEPT ![j] = "send"]
  /\ UNCHANGED <<offered, loopVars, dockerVars, clientVars, programVars,
                 exit, timer>>

(* Under st.mu; the message is sent after it is released.                  *)
BridgeChecks(j) ==
  /\ bridge[j] = "check"
  /\ \/ /\ IsCurrent(j)
        /\ bridge' = [bridge EXCEPT ![j] = "send"]
        /\ UNCHANGED timer
     \/ /\ ~IsCurrent(j)
        /\ bridge' = [bridge EXCEPT ![j] = "done"]
        /\ IF j \in Shells THEN StopTimer(j) ELSE UNCHANGED timer
  /\ UNCHANGED <<offered, loopVars, dockerVars, clientVars, programVars,
                 exit>>

BridgeLocks(j) ==
  /\ Unlocked
  /\ bridge[j] = "send"
  /\ bridge' = [bridge EXCEPT ![j] = "write"]
  /\ UNCHANGED <<offered, loopVars, dockerVars, clientVars, programVars,
                 exit, timer>>

BridgeWrites(j) ==
  /\ bridge[j] = "write"
  /\ Deliver(conn[j], "output", j, taken[j])
  /\ bridge' = [bridge EXCEPT ![j] = "read"]
  /\ UNCHANGED <<offered, loopVars, dockerVars, programVars, exit, timer>>

-----------------------------------------------------------------------------
(* Mutant of OutputDone: the exit goroutine does not wait for the bridge,  *)
(* only for the end of the program.                                        *)
OutputNotAwaited(j) ==
  /\ exit[j] = "wait"
  /\ box[j] # "running"
  /\ exit' = [exit EXCEPT ![j] = IF ~IsCurrent(j) THEN "done"
                                 ELSE IF j \in Runs THEN "recheck"
                                 ELSE "clean"]
  /\ IF j \in Runs THEN StopTimer(j) ELSE UNCHANGED timer
  /\ UNCHANGED <<offered, loopVars, dockerVars, clientVars, programVars,
                 bridge>>

(* Mutant of OutputDone: a run is cleaned up like a shell.                 *)
OutputDoneSilently(j) ==
  /\ exit[j] = "wait"
  /\ bridge[j] = "done"
  /\ exit' = [exit EXCEPT ![j] = IF IsCurrent(j) THEN "clean" ELSE "done"]
  /\ IF j \in Runs THEN StopTimer(j) ELSE UNCHANGED timer
  /\ UNCHANGED <<offered, loopVars, dockerVars, clientVars, programVars,
                 bridge>>

OutputDone(j) ==
  /\ exit[j] = "wait"
  /\ bridge[j] = "done"
  /\ exit' = [exit EXCEPT ![j] = IF ~IsCurrent(j) THEN "done"
                                 ELSE IF j \in Runs THEN "recheck"
                                 ELSE "clean"]
  /\ IF j \in Runs THEN StopTimer(j) ELSE UNCHANGED timer
  /\ UNCHANGED <<offered, loopVars, dockerVars, clientVars, programVars,
                 bridge>>

(* The second generation test. The files of the container, if there are    *)
(* any, go out just before the exit message and are left out here.         *)
Recheck(j) ==
  /\ exit[j] = "recheck"
  /\ exit' = [exit EXCEPT ![j] = IF latest[conn[j]] = j THEN "send" ELSE "done"]
  /\ UNCHANGED <<offered, loopVars, dockerVars, clientVars, programVars,
                 bridge, timer>>

ExitLocks(j) ==
  /\ Unlocked
  /\ exit[j] = "send"
  /\ exit' = [exit EXCEPT ![j] = "write"]
  /\ UNCHANGED <<offered, loopVars, dockerVars, clientVars, programVars,
                 bridge, timer>>

ExitWrites(j) ==
  /\ exit[j] = "write"
  /\ Deliver(conn[j], "exit", j, 0)
  /\ exit' = [exit EXCEPT ![j] = "clean"]
  /\ UNCHANGED <<offered, loopVars, dockerVars, programVars, bridge, timer>>

CleanUp(j) ==
  /\ exit[j] = "clean"
  /\ exit' = [exit EXCEPT ![j] = "done"]
  /\ IF IsCurrent(j) THEN LetGo(conn[j]) ELSE UNCHANGED <<dockerVars, cur>>
  /\ UNCHANGED <<offered, pc, latest, refused, conn, clientVars, programVars,
                 bridge, timer>>

-----------------------------------------------------------------------------
(* The kill timer of a run cancels it under st.mu. The idle timer of a     *)
(* shell may find that there was input, or sends a notice and cancels.     *)
TimerFires(j) ==
  /\ timer[j] = "armed"
  /\ \/ /\ j \in Runs
        /\ IF IsCurrent(j)
           THEN Cancel(j)
           ELSE UNCHANGED stream
        /\ timer' = [timer EXCEPT ![j] = "off"]
     \/ /\ j \in Shells
        /\ \/ IsCurrent(j) /\ timer' = [timer EXCEPT ![j] = "send"]
           \/ timer' = [timer EXCEPT ![j] = "off"]
        /\ UNCHANGED stream
  /\ UNCHANGED <<offered, loopVars, box, clientVars, programVars, bridge, exit>>

TimerLocks(j) ==
  /\ Unlocked
  /\ timer[j] = "send"
  /\ timer' = [timer EXCEPT ![j] = "write"]
  /\ UNCHANGED <<offered, loopVars, dockerVars, clientVars, programVars,
                 bridge, exit>>

TimerWrites(j) ==
  /\ timer[j] = "write"
  /\ Deliver(conn[j], "notice", j, 0)
  /\ timer' = [timer EXCEPT ![j] = "cancel"]
  /\ UNCHANGED <<offered, loopVars, dockerVars, programVars, bridge, exit>>

TimerCancels(j) ==
  /\ timer[j] = "cancel"
  /\ Cancel(j)
  /\ timer' = [timer EXCEPT ![j] = "off"]
  /\ UNCHANGED <<offered, loopVars, box, clientVars, programVars, bridge, exit>>

-----------------------------------------------------------------------------
Loop(c) ==
  Start(c) \/ AttachStore(c) \/ LoopLocks(c) \/ LoopWrites(c) \/ Spawn(c)

Refusal(c) == RefusalLocks(c) \/ RefusalWrites(c)

Bridge(j) ==
  \/ BridgeReads(j) \/ BridgeEnds(j) \/ BridgeChecks(j)
  \/ BridgeLocks(j) \/ BridgeWrites(j)

Exit(j) ==
  OutputDone(j) \/ Recheck(j) \/ ExitLocks(j) \/ ExitWrites(j) \/ CleanUp(j)

Timer(j) ==
  TimerFires(j) \/ TimerLocks(j) \/ TimerWrites(j) \/ TimerCancels(j)

Next ==
  \/ \E c \in Connections :
       \/ Loop(c) \/ Refusal(c) \/ Close(c)
       \/ \E j \in Launches : HandleLaunch(c, j) \/ RefuseRun(c, j)
  \/ \E j \in Launches :
       ProgramPrints(j) \/ End(j) \/ Bridge(j) \/ Exit(j) \/ Timer(j)

Spec == Init /\ [][Next]_vars

(* Goroutines run, Docker answers and timers fire. Programs and clients do *)
(* as they like. Messages are bounded here, so that no goroutine waits for *)
(* the mutex for ever because others keep taking it.                       *)
Fairness ==
  /\ \A c \in Connections : WF_vars(Loop(c)) /\ WF_vars(Refusal(c))
  /\ \A j \in Launches :
       WF_vars(Bridge(j)) /\ WF_vars(Exit(j)) /\ WF_vars(Timer(j))

FairSpec == Spec /\ Fairness

-----------------------------------------------------------------------------
(* Where in the inbox of its client the messages of one kind about launch  *)
(* j are, and the chunk such a message carries.                            *)
Received(kind, j) ==
  IF conn[j] = None THEN {}
  ELSE {i \in DOMAIN inbox[conn[j]] :
          inbox[conn[j]][i].kind = kind /\ inbox[conn[j]][i].of = j}

Chunk(j, i) == inbox[conn[j]][i].n

(* The client has read the chunks of j up to the given one, from the first *)
(* that was printed into its stream.                                       *)
HasRead(j, upTo) ==
  \A n \in lost[j] + 1 .. upTo :
    \E i \in Received("output", j) : Chunk(j, i) = n

(* A client reads the output of its program from the moment the stream was *)
(* attached, in order, without a gap and without a repetition, after       *)
(* "started".                                                              *)
OutputInOrder ==
  \A j \in Launches : \A i \in Received("output", j) :
    /\ Chunk(j, i) > lost[j]
    /\ HasRead(j, Chunk(j, i))
    /\ \A h \in Received("output", j) : h < i => Chunk(j, h) < Chunk(j, i)
    /\ \E h \in Received("started", j) : h < i

(* When the client reads that a program exited, it has read all of its     *)
(* output, unless the program was stopped; and it reads nothing of it      *)
(* afterwards.                                                             *)
ExitIsLast ==
  \A j \in Runs : \A i \in Received("exit", j) :
    /\ \A kind \in Kinds : \A h \in Received(kind, j) : h <= i
    /\ box[j] = "exited" /\ stream[j] = "open" => HasRead(j, wrote[j])

(* The output of launch j that its client read after "started" of k.       *)
LateOutput(j, k) ==
  {i \in Received("output", j) : \E t \in Received("started", k) : t < i}

(* st.mu is not held while a message is sent, so output of a launch that   *)
(* was replaced can come after the "started" of its successor: one chunk,  *)
(* the one its bridge had read, and no more, although its program may have *)
(* printed more.                                                           *)
LateIsBounded ==
  \A j, k \in Launches :
    /\ conn[j] = conn[k]
    /\ \E s \in Received("started", j), t \in Received("started", k) : s < t
    => \A h, i \in LateOutput(j, k) : h = i

-----------------------------------------------------------------------------
(* As long as the clients read, a program that ends is reported: its exit  *)
(* is delivered, unless it was replaced or the client left.                *)
Superseded(j) == \A c \in Connections : conn[j] = c => latest[c] # j
ClientLeft(j) == \A c \in Connections : conn[j] = c => client[c] = "gone"
ExitReported ==
  \A j \in Runs :
    (\E c \in Connections : cur[c] = j) /\ box[j] = "exited" ~>
      Received("exit", j) # {} \/ Superseded(j) \/ ClientLeft(j)

-----------------------------------------------------------------------------
(* As the comments have it (violated, see the README).                     *)

(* "serializes ALL writes to a WebSocket connection": a connection whose   *)
(* client reads gets its message out, whatever other clients do.           *)
ReadersAreServed ==
  \A c \in Connections :
    pc[c] \in {"sendStarted", "sendError", "sendRefusal"} /\ client[c] = "reads"
      ~> \/ pc[c] \notin {"sendStarted", "sendError", "sendRefusal"}
         \/ client[c] # "reads"

=============================================================================
