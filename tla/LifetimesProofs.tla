-------------------------- MODULE LifetimesProofs ---------------------------
(***************************************************************************)
(* Proofs about Lifetimes, for any launches, connections and durations: no *)
(* container outlives the reaper, no sweep takes a run or request that is  *)
(* still served, and what ContainersProofs shows of the calls survives     *)
(* timers, sweeps and the end of the process.                              *)
(*                                                                         *)
(* IInv also gives what the process owes to those it serves: a timeout is  *)
(* kept but for the time that sends wait (TimeoutsAreKept), and every      *)
(* container has an owner (NoOrphans).                                     *)
(***************************************************************************)
EXTENDS Lifetimes, ContainersProofs

Asked == BeforeCreate \union AfterCreate

(* Who a container belongs to: its handler until it is stored, and then    *)
(* the session. The process that is down owns nothing.                     *)
Owned(j) ==
  /\ (j \notin Requests /\ step[j] \in Asked) =>
       conn[j] # None /\ job[conn[j]] = j /\ loop[conn[j]] = "busy"
  /\ step[j] = "made" /\ Exists(j) =>
       conn[j] # None /\ job[conn[j]] = j
         /\ (loop[conn[j]] = "busy" \/ cur[conn[j]] = j)
  /\ process = "down" => step[j] \in {"unused"} \union Over
  /\ j \in closing => step[j] = "made"

Jobs ==
  \A c \in Connections :
    /\ job[c] # None => job[c] \notin Requests /\ conn[job[c]] = c
    /\ loop[c] = "busy" => job[c] # None
    /\ process = "down" => loop[c] = "closed"

(* How old the container of a launch in progress can be: its deadline was  *)
(* set when it was made, or before, and time waits for it. That of a run   *)
(* is set when "started" is sent, which was at once unless sends waited.   *)
Timely(j) ==
  /\ step[j] \in AfterCreate => born[j] = now
  /\ step[j] = "made" /\ Exists(j) /\ loop[conn[j]] = "busy" => born[j] = now
  /\ j \in Runs /\ step[j] = "made" /\ Exists(j) /\ cur[conn[j]] = j =>
       /\ now <= born[j] + KillAfter + held[j]
       /\ \/ StreamOver(j)
          \/ loop[conn[j]] = "sending" /\ now <= born[j] + held[j]
          \/ /\ loop[conn[j]] = "reading"
             /\ due[j] # None /\ due[j] <= born[j] + KillAfter + held[j]
  /\ j \in Requests /\ step[j] \in Asked \union Serving =>
       due[j] # None /\ now <= due[j]
  /\ j \in Requests /\ step[j] \in BeforeCreate => due[j] <= now + KillAfter
  /\ j \in Requests /\ step[j] \in AfterCreate \union Serving =>
       due[j] <= born[j] + KillAfter

(* The reaper is never late, and what it left was too young, or it was let *)
(* down.                                                                   *)
Clock == process # "down" => now <= nextReap /\ nextReap <= now + ReapEvery
Reaped(j) ==
  process # "down" /\ InDocker(j) =>
    nextReap <= Later(born[j], bootedAt) + ReapAge + ReapEvery + grace

IInv ==
  /\ TypeOK
  /\ ContainersInv
  /\ Jobs /\ Clock
  /\ \A j \in Launches : Owned(j) /\ Timely(j) /\ Reaped(j)

-----------------------------------------------------------------------------
LEMMA InitHolds == Init => IInv
<1> SUFFICES ASSUME Init PROVE IInv
  OBVIOUS
<1>1. ContainersInv
  BY ContainersInitHolds DEF Init
<1>2. TypeOK
  BY <1>1, LifetimesAssumption DEF Init, TypeOK, ContainersInv
<1>3. Jobs /\ Clock
  BY LifetimesAssumption DEF Init, Jobs, Clock
<1>4. ASSUME NEW j \in Launches PROVE Owned(j) /\ Timely(j) /\ Reaped(j)
  BY DEF Init, ContainersInit, Owned, Timely, Reaped, InDocker, Exists, Asked,
         BeforeCreate, AfterCreate, Serving, Over, Ended
<1> QED
  BY <1>1, <1>2, <1>3, <1>4 DEF IInv

(* Steps of a connection that leave containers alone.                      *)
LEMMA LoopKeeps ==
  ASSUME IInv, NEW c \in Connections, Connect(c) \/ Receive(c) \/ GiveUp(c)
  PROVE  IInv'
<1> USE DEF sendVars, containerVars, processVars
<1>1. ContainersInv'
  BY ContainersStuttersKeep DEF IInv, Connect, Receive, GiveUp
<1>2. TypeOK'
  BY <1>1 DEF IInv, TypeOK, ContainersInv, Connect, Receive, GiveUp
<1>3. Jobs' /\ Clock'
  BY DEF IInv, TypeOK, Jobs, Clock, Connect, Receive, GiveUp
<1>4. ASSUME NEW j \in Launches PROVE Owned(j)' /\ Timely(j)' /\ Reaped(j)'
  <2> USE DEF IInv, TypeOK, Owned, Timely, Reaped, InDocker, Exists, StreamOver,
              Asked, BeforeCreate, AfterCreate, Over, Ended
  <2>1. CASE Connect(c)
    BY <2>1 DEF Connect
  <2>2. CASE Receive(c)
    BY <2>2 DEF Receive
  <2>3. CASE GiveUp(c)
    BY <2>3 DEF GiveUp
  <2> QED
    BY <2>1, <2>2, <2>3
<1> QED
  BY <1>1, <1>2, <1>3, <1>4 DEF IInv

(* The session is stored: until then it was younger than a tick.           *)
LEMMA StoreKeeps ==
  ASSUME IInv, NEW c \in Connections, Store(c)
  PROVE  IInv'
<1> USE DEF sendVars, containerVars, processVars
<1>1. ContainersInv'
  BY ContainersStuttersKeep DEF IInv, Store
<1>2. TypeOK'
  BY <1>1, LifetimesAssumption DEF IInv, TypeOK, ContainersInv, Store
<1>3. Jobs' /\ Clock'
  BY DEF IInv, Jobs, Clock, Store
<1>4. ASSUME NEW j \in Launches PROVE Owned(j)' /\ Timely(j)' /\ Reaped(j)'
  <2> USE DEF IInv, TypeOK, Owned, Timely, Reaped, InDocker, Exists, StreamOver,
              Asked, BeforeCreate, AfterCreate, Serving, Over, Ended, Jobs, Store
  <2>1. CASE j = job[c]
    BY <2>1, KindsAssumption, LifetimesAssumption
  <2>2. CASE j # job[c]
    BY <2>2
  <2> QED
    BY <2>1, <2>2
<1> QED
  BY <1>1, <1>2, <1>3, <1>4 DEF IInv

(* "started" is sent: the kill timer is armed, as late as sends waited.    *)
LEMMA SentKeeps ==
  ASSUME IInv, NEW c \in Connections, Sent(c)
  PROVE  IInv'
<1> USE DEF sendVars, containerVars, processVars
<1>1. ContainersInv'
  BY ContainersStuttersKeep DEF IInv, Sent
<1>2. TypeOK'
  BY <1>1, LifetimesAssumption DEF IInv, TypeOK, ContainersInv, Sent
<1>3. Jobs' /\ Clock'
  BY DEF IInv, TypeOK, Jobs, Clock, Sent
<1>4. ASSUME NEW j \in Launches PROVE Owned(j)' /\ Timely(j)' /\ Reaped(j)'
  <2> USE DEF IInv, TypeOK, Owned, Timely, Reaped, InDocker, Exists, StreamOver,
              Asked, BeforeCreate, AfterCreate, Serving, Over, Ended, Jobs, Sent
  <2>1. CASE j = cur[c] /\ j \in Runs
    <3>1. /\ step[j] = "made" /\ due'[j] = now + KillAfter /\ due'[j] # None
          /\ UNCHANGED <<cur, job, conn, born, held, now, box, ctx>>
          /\ now \in Nat /\ born[j] \in Nat /\ held[j] \in Nat
      BY <2>1, LifetimesAssumption
    <3>2. j \notin Requests
      BY <2>1, KindsAssumption
    <3>3. conn[j] = c /\ job[c] = j /\ loop'[c] = "reading"
      BY <2>1, LifetimesAssumption
    <3>4. Owned(j)' /\ Reaped(j)'
      BY <2>1, <3>1, <3>3
    <3>5. CASE StreamOver(j) \/ ~Exists(j)
      BY <2>1, <3>1, <3>2, <3>3, <3>4, <3>5
    <3>6. CASE now <= born[j] + held[j]
      BY <2>1, <3>1, <3>2, <3>3, <3>4, <3>6, LifetimesAssumption
    <3> QED
      BY <2>1, <3>1, <3>3, <3>5, <3>6
  <2>2. CASE ~(j = cur[c] /\ j \in Runs)
    BY <2>2
  <2> QED
    BY <2>1, <2>2
<1> QED
  BY <1>1, <1>2, <1>3, <1>4 DEF IInv

(* A client that stops reading changes nothing by itself, nor does one     *)
(* that reads again, or SIGTERM.                                           *)
LEMMA OutsideKeeps ==
  ASSUME IInv, Signal \/ Resume \/ \E c \in Connections : Stall(c)
  PROVE  IInv'
<1> USE DEF containerVars, processVars, loopVars, sendVars, Signal, Resume, Stall
<1>1. ContainersInv'
  BY ContainersStuttersKeep DEF IInv
<1>2. TypeOK'
  BY <1>1 DEF IInv, TypeOK, ContainersInv
<1>3. Jobs' /\ Clock'
  BY DEF IInv, Jobs, Clock
<1>4. ASSUME NEW j \in Launches PROVE Owned(j)' /\ Timely(j)' /\ Reaped(j)'
  BY DEF IInv, Owned, Timely, Reaped, InDocker, Exists, StreamOver, Asked
<1> QED
  BY <1>1, <1>2, <1>3, <1>4 DEF IInv

(* Time waits for whatever has a deadline, or else is counted as held.     *)
LEMMA TickKeeps ==
  ASSUME IInv, Tick
  PROVE  IInv'
<1>1. ContainersInv'
  BY ContainersStuttersKeep DEF IInv, Tick
<1>2. TypeOK'
  <2>1. held' \in [Runs -> Nat]
    BY DEF IInv, TypeOK, Tick
  <2> QED
    BY <1>1, <2>1
       DEF IInv, TypeOK, ContainersInv, containerVars, processVars, loopVars, Tick
<1>3. Jobs' /\ Clock'
  BY LifetimesAssumption
     DEF IInv, TypeOK, Jobs, Clock, containerVars, processVars, loopVars, Tick, Idle
<1>4. ASSUME NEW j \in Launches PROVE Owned(j)' /\ Timely(j)' /\ Reaped(j)'
  <2> USE DEF IInv, containerVars, processVars, loopVars, Tick
  <2>1. Owned(j)' /\ Reaped(j)'
    BY DEF Owned, Reaped, InDocker, Exists, Asked
  <2>2. CASE process = "down"
    <3>1. step[j] \in {"unused"} \union Over
      BY <2>2 DEF Owned
    <3>2. step'[j] \notin Asked \union AfterCreate \union BeforeCreate
                         \union Serving \union {"made"}
      BY <3>1 DEF BeforeCreate, AfterCreate, Serving, Over, Ended, Asked
    <3> QED
      BY <2>1, <3>2 DEF Timely
  <2>3. CASE Idle
    <3> USE <2>3, LifetimesAssumption
        DEF TypeOK, Idle, BeforeCreate, AfterCreate, Serving, Over, Ended, Asked
    <3>1. step[j] \notin AfterCreate
      OBVIOUS
    <3>2. step[j] = "made" /\ Exists(j) => loop[conn[j]] # "busy"
      BY DEF Owned, Jobs
    <3>3. ASSUME j \in Runs, step[j] = "made", Exists(j), cur[conn[j]] = j
          PROVE  /\ now + 1 <= born[j] + KillAfter + held'[j]
                 /\ \/ StreamOver(j)
                    \/ loop[conn[j]] = "sending" /\ now + 1 <= born[j] + held'[j]
                    \/ /\ loop[conn[j]] = "reading"
                       /\ due[j] # None /\ due[j] <= born[j] + KillAfter + held'[j]
      <4>1. conn[j] \in Connections /\ cur[conn[j]] # None
        BY <3>3 DEF Owned
      <4>2. now \in Nat /\ born[j] \in Nat /\ held[j] \in Nat
        BY <3>3
      <4>3. CASE Stalled
        <5>1. held'[j] = held[j] + 1
          BY <3>3, <4>3
        <5> QED
          BY <3>3, <4>1, <4>2, <5>1 DEF Timely
      <4>4. CASE ~Stalled
        <5>1. held'[j] = held[j] /\ ~StreamOver(j) /\ loop[conn[j]] # "sending"
          BY <3>3, <4>1, <4>4
        <5>2. now < due[j] /\ due[j] <= born[j] + KillAfter + held[j]
                /\ due[j] # None /\ due[j] \in Nat /\ loop[conn[j]] = "reading"
          BY <3>3, <4>1, <5>1 DEF Timely
        <5> QED
          BY <4>2, <5>1, <5>2
      <4> QED
        BY <4>3, <4>4
    <3>4. ASSUME j \in Requests, step[j] \in Asked \union Serving
          PROVE  now + 1 <= due[j] /\ due[j] # None
      BY <3>4 DEF Timely
    <3>5. ASSUME j \in Requests, step[j] \in BeforeCreate
          PROVE  due[j] <= now + 1 + KillAfter
      <4>1. due[j] \in Nat /\ due[j] <= now + KillAfter
        BY <3>4, <3>5 DEF Timely
      <4> QED
        BY <4>1
    <3> QED
      BY <2>1, <3>1, <3>2, <3>3, <3>4, <3>5 DEF Timely, Exists, StreamOver
  <2> QED
    BY <2>1, <2>2, <2>3
<1> QED
  BY <1>1, <1>2, <1>3, <1>4 DEF IInv

-----------------------------------------------------------------------------
(* Where a call leads, and what it can leave in Docker.                    *)
LEMMA CallLeads ==
  ASSUME IInv, NEW j \in Launches, Create(j)
  PROVE  /\ step[j] \in Asked \union Serving
         /\ \/ step'[j] \in Ended
            \/ step[j] \in BeforeCreate /\ step'[j] \in BeforeCreate
            \/ step[j] = "create" /\ step'[j] \in AfterCreate
            \/ step[j] \in AfterCreate /\ step'[j] \in AfterCreate
            \/ step[j] = "attach" /\ step'[j] = "made" /\ j \notin Requests
            \/ step[j] = "attach" /\ step'[j] = "await" /\ j \in Requests
            \/ step[j] = "await" /\ step'[j] = "logs"
         /\ step[j] = "create" \/ (InDocker(j)' => InDocker(j))
         /\ Only(j)
<1> USE DEF IInv, TypeOK, ContainersTypeOK, Exists, InDocker, Goto, Asked,
            BeforeCreate, AfterCreate, Serving, Ended
<1>1. ContainerStep(j) /\ Only(j)
  BY CallLocal, EndLocal DEF Create, CreationStep, ContainerStep
<1>2. CASE EnsureImage(j) \/ MakeDir(j) \/ WriteFiles(j)
  BY <1>1, <1>2 DEF EnsureImage, MakeDir, WriteFiles
<1>3. CASE CreateContainer(j)
  BY <1>1, <1>3 DEF CreateContainer
<1>4. CASE CopyFiles(j) \/ StartContainer(j)
  BY <1>1, <1>4 DEF CopyFiles, StartContainer, ContainersInv, Local, Stages
<1>5. CASE Attach(j) \/ AwaitExit(j)
  BY <1>1, <1>5 DEF Attach, AwaitExit
<1>6. CASE FailsBefore(j)
  BY <1>1, <1>6 DEF FailsBefore
<1>7. CASE FailsAfter(j) \/ Answer(j)
  <2>1. Remove(j) /\ step[j] \in AfterCreate \union Serving /\ step'[j] \in Ended
    BY <1>7 DEF FailsAfter, Answer
  <2>2. InDocker(j)' => InDocker(j)
    BY <2>1, RemoveLeaves
  <2> QED
    BY <1>1, <2>1, <2>2
<1> QED
  BY <1>2, <1>3, <1>4, <1>5, <1>6, <1>7 DEF Create, CreationStep

LEMMA CreateKeeps ==
  ASSUME IInv, NEW j \in Launches, Create(j)
  PROVE  IInv'
<1>0. Only(j) /\ step[j] \in Asked \union Serving
  BY CallLeads
<1>1. ContainersInv'
  BY ContainerStepKeeps DEF IInv, Create, CreationStep, ContainerStep
<1>2. TypeOK'
  <2>1. \A c \in Connections : cur[c] # None => cur[c] # j
    BY <1>0 DEF IInv, TypeOK, Asked, BeforeCreate, AfterCreate, Serving
  <2>2. \A k \in Launches \ {j} : step'[k] = step[k]
    BY <1>0 DEF Only
  <2>3. born' \in [Launches -> Nat]
    BY DEF IInv, TypeOK, Create
  <2> QED
    BY <1>1, <2>1, <2>2, <2>3
       DEF IInv, TypeOK, ContainersInv, processVars, loopVars, sendVars, Create
<1>3. Jobs' /\ Clock'
  BY DEF IInv, Jobs, Clock, processVars, loopVars, Create
<1>4. ASSUME NEW k \in Launches \ {j} PROVE Owned(k)' /\ Timely(k)' /\ Reaped(k)'
  BY <1>0 DEF IInv, TypeOK, Owned, Timely, Reaped, InDocker, Exists, StreamOver,
              Only, processVars, loopVars, sendVars, Create
<1>5. Owned(j)'
  BY CallLeads
     DEF IInv, TypeOK, Owned, processVars, loopVars, sendVars, Create, Asked,
         BeforeCreate, AfterCreate, Serving, Over, Ended
<1>6. /\ born'[j] = IF step[j] = "create" THEN now ELSE born[j]
      /\ born[j] \in Nat /\ now \in Nat /\ due[j] \in Nat \union {None}
      /\ UNCHANGED <<now, due, loop, cur, conn, process, bootedAt, nextReap, grace>>
  BY DEF IInv, TypeOK, processVars, loopVars, Create
<1>7. Timely(j)'
  <2> USE <1>6, LifetimesAssumption
      DEF Asked, BeforeCreate, AfterCreate, Serving, Over, Ended
  <2>1. step'[j] \in AfterCreate => born'[j] = now
    BY CallLeads DEF IInv, Timely
  <2>2. step'[j] = "made" =>
          born'[j] = now /\ conn[j] # None /\ loop[conn[j]] = "busy" /\ cur[conn[j]] # j
    BY CallLeads DEF IInv, TypeOK, Timely, Owned
  <2>3. ASSUME j \in Requests
        PROVE  /\ step'[j] \in Asked \union Serving => due[j] # None /\ now <= due[j]
               /\ step'[j] \in BeforeCreate => due[j] <= now + KillAfter
               /\ step'[j] \in AfterCreate \union Serving =>
                    due[j] <= born'[j] + KillAfter
    BY <2>3, CallLeads DEF IInv, Timely
  <2>4. j \in Runs => j \notin Requests
    BY KindsAssumption
  <2> QED
    BY <2>1, <2>2, <2>3, <2>4 DEF Timely
<1>8. Reaped(j)'
  <2>1. CASE step[j] = "create"
    BY <1>6, <2>1, LifetimesAssumption DEF IInv, TypeOK, Reaped, Clock, Later
  <2>2. CASE step[j] # "create"
    BY <1>6, <2>2, CallLeads DEF IInv, Reaped
  <2> QED
    BY <2>1, <2>2
<1> QED
  BY <1>1, <1>2, <1>3, <1>4, <1>5, <1>7, <1>8 DEF IInv

(* A container is asked for; a request gets its deadline.                  *)
LEMMA AskKeeps ==
  ASSUME IInv, NEW j \in Launches, Ask(j),
         UNCHANGED <<offered, now, processVars, born, conn, loopVars, sendVars>>,
         \/ /\ j \notin Requests
            /\ conn[j] # None /\ job[conn[j]] = j /\ loop[conn[j]] = "busy"
            /\ UNCHANGED due
         \/ j \in Requests /\ due' = [due EXCEPT ![j] = now + KillAfter],
         process # "down"
  PROVE  IInv'
<1>1. ContainersInv' /\ Only(j) /\ step[j] = "unused" /\ step'[j] = "image"
        /\ ~InDocker(j)' /\ box'[j] = "none"
  BY ContainerStepKeeps, CallLocal
     DEF IInv, ContainerStep, Ask, Goto, ContainersInv, ContainersTypeOK, Local,
         Stages, InDocker, Exists
<1>2. TypeOK'
  <2>1. \A c \in Connections : cur[c] # None => cur[c] # j
    BY <1>1 DEF IInv, TypeOK
  <2>2. \A k \in Launches \ {j} : step'[k] = step[k]
    BY <1>1 DEF Only
  <2>3. due' \in [Launches -> Nat \union {None}]
    BY LifetimesAssumption DEF IInv, TypeOK
  <2> QED
    BY <1>1, <2>1, <2>2, <2>3
       DEF IInv, TypeOK, ContainersInv, processVars, loopVars, sendVars
<1>3. Jobs' /\ Clock'
  BY DEF IInv, Jobs, Clock, processVars, loopVars
<1>4. ASSUME NEW k \in Launches \ {j} PROVE Owned(k)' /\ Timely(k)' /\ Reaped(k)'
  BY <1>1 DEF IInv, TypeOK, Owned, Timely, Reaped, InDocker, Exists, StreamOver,
              Only, processVars, loopVars, sendVars
<1>5. Owned(j)' /\ Reaped(j)'
  BY <1>1 DEF IInv, Owned, Reaped, processVars, loopVars, sendVars
<1>6. Timely(j)'
  BY <1>1, LifetimesAssumption
     DEF IInv, TypeOK, Timely, AfterCreate, Serving, processVars
<1> QED
  BY <1>1, <1>2, <1>3, <1>4, <1>5, <1>6 DEF IInv

LEMMA AskContainerKeeps ==
  ASSUME IInv, NEW c \in Connections, AskContainer(c)
  PROVE  IInv'
<1>1. job[c] \in Launches /\ job[c] \notin Requests /\ conn[job[c]] = c
        /\ process # "down" /\ c # None
  BY LifetimesAssumption DEF IInv, TypeOK, Jobs, AskContainer
<1>2. CASE Ask(job[c]) /\ UNCHANGED loop
  BY <1>1, <1>2, AskKeeps DEF AskContainer, loopVars
<1>3. CASE step[job[c]] = "unused" /\ UNCHANGED containerVars
             /\ loop' = [loop EXCEPT ![c] = "sending"]
  <2> USE <1>3 DEF IInv, containerVars, processVars, sendVars, AskContainer
  <2>1. ContainersInv'
    BY ContainersStuttersKeep
  <2>2. TypeOK'
    BY <2>1 DEF TypeOK, ContainersInv
  <2>3. Jobs' /\ Clock'
    BY DEF TypeOK, Jobs, Clock
  <2>4. ASSUME NEW j \in Launches PROVE Owned(j)' /\ Timely(j)' /\ Reaped(j)'
    BY <1>1 DEF TypeOK, Owned, Timely, Reaped, InDocker, Exists, StreamOver,
       Asked, BeforeCreate, AfterCreate
  <2> QED
    BY <2>1, <2>2, <2>3, <2>4
<1> QED
  BY <1>2, <1>3 DEF AskContainer

(* The program of a container ends: it stays in Docker.                    *)
LEMMA ExitKeeps ==
  ASSUME IInv, NEW j \in Launches, Exit(j)
  PROVE  IInv'
<1>1. ContainersInv' /\ Only(j) /\ UNCHANGED <<step, ctx>>
  BY ContainerStepKeeps, CallLocal DEF IInv, ContainerStep, Exit, ProgramEnds
<1>2. box[j] = "running" /\ box'[j] = "exited"
  BY DEF IInv, TypeOK, ContainersTypeOK, Exit, ProgramEnds
<1>3. TypeOK'
  BY <1>1 DEF IInv, TypeOK, ContainersInv, processVars, loopVars, sendVars, Exit
<1>4. Jobs' /\ Clock'
  BY DEF IInv, Jobs, Clock, processVars, loopVars, Exit
<1>5. ASSUME NEW k \in Launches PROVE Owned(k)' /\ Timely(k)' /\ Reaped(k)'
  <2>1. InDocker(k)' = InDocker(k) /\ Exists(k)' = Exists(k)
          /\ (StreamOver(k) => StreamOver(k)')
    BY <1>1, <1>2 DEF Only, InDocker, Exists, StreamOver
  <2> QED
    BY <1>1, <2>1
       DEF IInv, Owned, Timely, Reaped, processVars, loopVars, sendVars, Exit
<1> QED
  BY <1>1, <1>3, <1>4, <1>5 DEF IInv

LEMMA RestAsksKeeps ==
  ASSUME IInv, NEW j \in Launches, RestAsks(j)
  PROVE  IInv'
BY AskKeeps DEF RestAsks

-----------------------------------------------------------------------------
(* A session is let go of: its container goes, or stays as a stray.        *)
LEMMA LetGoLocal ==
  ASSUME IInv, NEW c \in Connections, LetGo(c)
  PROVE  /\ ContainersInv'
         /\ UNCHANGED step
         /\ cur' = [cur EXCEPT ![c] = None]
         /\ due' \in [Launches -> Nat \union {None}]
         /\ \A j \in Launches \ {cur[c]} : due'[j] = due[j] /\ ctx'[j] = ctx[j]
                                            /\ box'[j] = box[j]
         /\ \A j \in Launches : j = cur[c] => ~Exists(j)'
         /\ \A j \in Launches : InDocker(j)' => InDocker(j)
<1>1. CASE cur[c] = None
  <2>1. UNCHANGED containerVars /\ UNCHANGED due
    BY <1>1 DEF LetGo, containerVars
  <2> QED
    BY <1>1, <2>1, ContainersStuttersKeep, LifetimesAssumption
       DEF LetGo, IInv, TypeOK, containerVars, InDocker, Exists
<1>2. CASE cur[c] # None
  <2>0. PICK j \in Launches : j = cur[c]
    BY <1>2 DEF IInv, TypeOK
  <2>1. /\ step[j] = "made"
        /\ Remove(j) /\ ctx' = [ctx EXCEPT ![j] = "cancelled"]
        /\ due' = [due EXCEPT ![j] = None]
        /\ UNCHANGED <<step, dir, code>>
    BY <1>2, <2>0 DEF LetGo, Cancel, IInv, TypeOK
  <2>2. ContainersTypeOK
    BY DEF IInv, ContainersInv
  <2>3. PICK left \in {"none", "gone", "stray"} :
          /\ box' = [box EXCEPT ![j] = left]
          /\ Exists(j) => left # "none"
          /\ ~Exists(j) => left = box[j]
    BY <2>1, <2>2, RemoveLeaves
  <2>4. ContainersTypeOK' /\ Only(j)
    BY <2>1, <2>2, <2>3 DEF ContainersTypeOK, Only
  <2>5. Local(j)'
    BY <2>1, <2>2, <2>3
       DEF IInv, ContainersInv, ContainersTypeOK, Local, Stages, Clean, Staged,
           Exists, BeforeCreate, AfterCreate, Serving, Ended
  <2>6. ContainersInv'
    BY <2>1, <2>4, <2>5, OthersKeep DEF IInv
  <2>7. ~Exists(j)' /\ (InDocker(j)' => InDocker(j))
    BY <2>1, <2>2, <2>3 DEF Exists, InDocker, ContainersTypeOK
  <2>8. \A k \in Launches \ {j} : InDocker(k)' => InDocker(k)
    BY <2>4 DEF Only, InDocker, Exists
  <2>9. due' \in [Launches -> Nat \union {None}]
    BY <2>1 DEF IInv, TypeOK
  <2> QED
    BY <1>2, <2>0, <2>1, <2>4, <2>6, <2>7, <2>8, <2>9 DEF LetGo, IInv, TypeOK, Only
<1> QED
  BY <1>1, <1>2

(* Who lets go of a session: a new message, its exit goroutine, the end of *)
(* the connection.                                                         *)
LEMMA HandleLaunchKeeps ==
  ASSUME IInv, NEW c \in Connections, NEW m \in Launches, HandleLaunch(c, m)
  PROVE  IInv'
<1> USE DEF processVars, sendVars, HandleLaunch
<1>1. cur[c] # m
  BY LifetimesAssumption DEF IInv, TypeOK, Jobs
<1>2. TypeOK'
  BY LetGoLocal, LifetimesAssumption DEF IInv, TypeOK, ContainersInv
<1>3. Jobs' /\ Clock'
  BY LetGoLocal, LifetimesAssumption DEF IInv, TypeOK, Jobs, Clock
<1>4. ASSUME NEW j \in Launches PROVE Owned(j)' /\ Timely(j)' /\ Reaped(j)'
  <2>1. CASE j = cur[c]
    BY <1>1, <2>1, LetGoLocal, LifetimesAssumption
       DEF IInv, TypeOK, Owned, Timely, Reaped, Asked, BeforeCreate, AfterCreate,
           Serving, Over, Ended, Jobs
  <2>2. CASE j = m
    <3>1. /\ j \notin Requests
          /\ step'[j] \notin Asked /\ (step'[j] = "made" => ~Exists(j)')
          /\ process' # "down" /\ (InDocker(j)' => InDocker(j))
      BY <1>1, <2>2, LetGoLocal DEF IInv, Owned, Jobs, Exists
    <3> QED
      BY <2>2, <3>1, LetGoLocal DEF IInv, Owned, Timely, Reaped, Asked
  <2>3. CASE j \notin {cur[c], m}
    BY <2>3, LetGoLocal, LifetimesAssumption
       DEF IInv, TypeOK, Owned, Timely, Reaped, InDocker, Exists, StreamOver, Jobs
  <2> QED
    BY <2>1, <2>2, <2>3
<1> QED
  BY <1>2, <1>3, <1>4, LetGoLocal DEF IInv

LEMMA EndsKeep ==
  ASSUME IInv, NEW c \in Connections, CleanUp(c) \/ Close(c)
  PROVE  IInv'
<1> USE DEF processVars, sendVars
<1>1. LetGo(c) /\ loop[c] = "reading" /\ loop'[c] # "busy"
  BY DEF IInv, TypeOK, CleanUp, Close
<1>2. TypeOK'
  BY <1>1, LetGoLocal, LifetimesAssumption
     DEF IInv, TypeOK, ContainersInv, CleanUp, Close
<1>3. Jobs' /\ Clock'
  BY <1>1, LetGoLocal, LifetimesAssumption
     DEF IInv, TypeOK, Jobs, Clock, CleanUp, Close
<1>4. ASSUME NEW j \in Launches PROVE Owned(j)' /\ Timely(j)' /\ Reaped(j)'
  <2>1. UNCHANGED <<now, process, bootedAt, nextReap, grace, born, conn, held, closing>>
          /\ \A d \in Connections \ {c} : job'[d] = job[d] /\ loop'[d] = loop[d]
                                          /\ cur'[d] = cur[d]
    BY <1>1, LetGoLocal DEF IInv, TypeOK, CleanUp, Close
  <2>2. CASE j = cur[c]
    BY <1>1, <2>1, <2>2, LetGoLocal, LifetimesAssumption
       DEF IInv, TypeOK, Owned, Timely, Reaped, Asked, BeforeCreate, AfterCreate,
           Serving, Over, Ended, Jobs
  <2>3. CASE j # cur[c]
    BY <1>1, <2>1, <2>3, LetGoLocal, LifetimesAssumption
       DEF IInv, TypeOK, Owned, Timely, Reaped, InDocker, Exists, StreamOver, Jobs
  <2> QED
    BY <2>2, <2>3
<1> QED
  BY <1>1, <1>2, <1>3, <1>4, LetGoLocal DEF IInv

-----------------------------------------------------------------------------
(* A timer that fires cancels a context, which ends the session's stream,  *)
(* or does nothing.                                                        *)
LEMMA TimerFiresKeeps ==
  ASSUME IInv, NEW c \in Connections, TimerFires(c)
  PROVE  IInv'
<1> USE DEF processVars, loopVars, TimerFires
<1>1. PICK m \in Launches : m = cur[c] /\ step[m] = "made"
  BY DEF IInv, TypeOK
<1>2. /\ \A j \in Launches \ {m} : ctx'[j] = ctx[j] /\ due'[j] = due[j]
      /\ ctx' \in [Launches -> {"none", "open", "cancelled"}]
      /\ due' \in [Launches -> Nat \union {None}]
      /\ ctx'[m] = ctx[m] \/ ctx'[m] = "cancelled"
      /\ m \in Runs => ctx'[m] = "cancelled"
      /\ closing \subseteq closing' /\ closing' \subseteq closing \union ({m} \intersect Shells)
  BY <1>1 DEF IInv, TypeOK, ContainersTypeOK, Cancel
<1>3. ContainersInv'
  <2>1. ContainersTypeOK'
    BY <1>2 DEF IInv, ContainersInv, ContainersTypeOK
  <2>2. ASSUME NEW j \in Launches PROVE Local(j)'
    BY <1>1, <1>2 DEF IInv, ContainersInv, Local, Stages, Clean, Staged, Exists, Ended
  <2> QED
    BY <2>1, <2>2 DEF ContainersInv
<1>4. TypeOK'
  BY <1>2, <1>3 DEF IInv, TypeOK, ContainersInv
<1>5. Jobs' /\ Clock'
  BY DEF IInv, Jobs, Clock
<1>6. ASSUME NEW j \in Launches PROVE Owned(j)' /\ Timely(j)' /\ Reaped(j)'
  <2>1. Owned(j)' /\ Reaped(j)'
    BY <1>1, <1>2 DEF IInv, Owned, Reaped, InDocker, Exists
  <2>2. CASE j = m
    BY <1>1, <1>2, <2>1, <2>2
       DEF IInv, ContainersInv, Local, Stages, Timely, Exists, StreamOver, Asked,
           BeforeCreate, AfterCreate, Serving
  <2>3. CASE j # m
    BY <1>2, <2>1, <2>3 DEF IInv, Timely, Exists, StreamOver
  <2> QED
    BY <2>1, <2>2, <2>3
<1> QED
  BY <1>3, <1>4, <1>5, <1>6 DEF IInv

(* The idle timer is at the end of its notice.                             *)
LEMMA CancelIdleKeeps ==
  ASSUME IInv, NEW m \in Launches, CancelIdle(m)
  PROVE  IInv'
<1> USE DEF processVars, loopVars, CancelIdle
<1>1. step[m] = "made" /\ closing' \subseteq closing
        /\ ctx' = [ctx EXCEPT ![m] = "cancelled"]
  BY DEF IInv, Owned, Cancel
<1>2. ContainersInv'
  <2>1. ContainersTypeOK'
    BY <1>1 DEF IInv, ContainersInv, ContainersTypeOK
  <2>2. ASSUME NEW j \in Launches PROVE Local(j)'
    BY <1>1
       DEF IInv, TypeOK, ContainersTypeOK, ContainersInv, Local, Stages, Clean,
           Staged, Exists, Ended
  <2> QED
    BY <2>1, <2>2 DEF ContainersInv
<1>3. TypeOK'
  BY <1>1, <1>2 DEF IInv, TypeOK, ContainersInv
<1>4. Jobs' /\ Clock'
  BY DEF IInv, Jobs, Clock
<1>5. ASSUME NEW j \in Launches PROVE Owned(j)' /\ Timely(j)' /\ Reaped(j)'
  <2>1. StreamOver(j) => StreamOver(j)'
    BY <1>1 DEF IInv, TypeOK, ContainersTypeOK, StreamOver
  <2> QED
    BY <1>1, <2>1 DEF IInv, Owned, Timely, Reaped, InDocker, Exists
<1> QED
  BY <1>2, <1>3, <1>4, <1>5 DEF IInv

(* A sweep takes containers that exist, and none of a launch that is being *)
(* made: those are younger than a tick.                                    *)
LEMMA SweepLocal ==
  ASSUME IInv, NEW age \in Nat \ {0}, Sweep(age), UNCHANGED <<step, dir, code, ctx>>
  PROVE  /\ ContainersInv'
         /\ faults' \in Nat /\ grace' \in Nat /\ grace <= grace'
         /\ \A j \in Launches :
              /\ box'[j] = box[j] \/ (box'[j] = "gone" /\ InDocker(j) /\ now - born[j] >= age)
              /\ InDocker(j)' /\ now - born[j] >= age => grace' = grace + ReapEvery
<1>1. PICK left \in SUBSET Old(age) :
        /\ box' = [j \in Launches |-> IF j \in Old(age) \ left THEN "gone" ELSE box[j]]
        /\ IF left = {} THEN UNCHANGED <<faults, grace>>
           ELSE faults' = faults + 1 /\ grace' = grace + ReapEvery
  BY DEF Sweep
<1>2. faults' \in Nat /\ grace' \in Nat /\ grace <= grace'
  BY <1>1, LifetimesAssumption DEF IInv, TypeOK
<1>3. ASSUME NEW j \in Launches
      PROVE  /\ box'[j] = box[j] \/ (box'[j] = "gone" /\ InDocker(j) /\ now - born[j] >= age)
             /\ InDocker(j)' /\ now - born[j] >= age => grace' = grace + ReapEvery
  BY <1>1 DEF Old, InDocker, Exists
<1>4. ContainersTypeOK'
  BY <1>1 DEF IInv, ContainersInv, ContainersTypeOK
<1>5. ASSUME NEW j \in Launches PROVE Local(j)'
  <2>1. CASE box'[j] = box[j]
    BY <2>1 DEF IInv, ContainersInv, Local, Stages, Clean, Staged, Exists
  <2>2. CASE box'[j] = "gone" /\ InDocker(j) /\ now - born[j] >= age
    <3>1. step[j] \notin AfterCreate
      BY <2>2 DEF IInv, TypeOK, Timely
    <3> QED
      BY <2>2, <3>1
         DEF IInv, ContainersInv, Local, Stages, Clean, Staged, Exists, InDocker,
             BeforeCreate, AfterCreate
  <2> QED
    BY <1>3, <2>1, <2>2
<1> QED
  BY <1>2, <1>3, <1>4, <1>5 DEF ContainersInv

(* The reaper is on time, and what it leaves is too young or was refused.  *)
LEMMA SweepsKeep ==
  ASSUME IInv, Reap \/ Boot
  PROVE  IInv'
<1> USE LifetimesAssumption DEF loopVars, sendVars
<1>1. PICK age \in {StartupAge, ReapAge} :
        /\ Sweep(age)
        /\ UNCHANGED <<step, dir, code, ctx, offered, now, born, conn, due,
                       loopVars, sendVars>>
        /\ process' # "down"
        /\ \/ age = ReapAge /\ nextReap <= now /\ nextReap' = nextReap + ReapEvery
                /\ UNCHANGED <<process, bootedAt>>
           \/ process = "down" /\ bootedAt' = now /\ nextReap' = now + ReapEvery
                /\ process' = "up"
  BY DEF Reap, Boot
<1>2. age \in Nat \ {0}
  BY <1>1
<1>3. ContainersInv'
  BY <1>1, <1>2, SweepLocal
<1>4. TypeOK'
  BY <1>1, <1>2, SweepLocal DEF IInv, TypeOK, ContainersInv
<1>5. Jobs' /\ Clock'
  BY <1>1 DEF IInv, TypeOK, Jobs, Clock
<1>6. ASSUME NEW j \in Launches PROVE Owned(j)' /\ Timely(j)' /\ Reaped(j)'
  <2>1. Exists(j)' => Exists(j)
    BY <1>1, <1>2, SweepLocal DEF Exists
  <2>2. StreamOver(j) => StreamOver(j)'
    BY <1>1, <1>2, SweepLocal DEF StreamOver
  <2>3. Owned(j)' /\ Timely(j)'
    BY <1>1, <2>1, <2>2 DEF IInv, Owned, Timely
  <2>4. Reaped(j)'
    BY <1>1, <1>2, SweepLocal
       DEF IInv, TypeOK, Reaped, Later, Clock, InDocker, Exists
  <2> QED
    BY <2>3, <2>4
<1> QED
  BY <1>3, <1>4, <1>5, <1>6 DEF IInv

(* The process ends, and its containers are nobody's: they keep their age. *)
LEMMA ProcessEndsKeeps ==
  ASSUME IInv, ProcessEnds
  PROVE  IInv'
<1> USE DEF ProcessEnds
<1>1. ContainersTypeOK'
  BY DEF IInv, ContainersInv, ContainersTypeOK, Over, Ended
<1>2. ASSUME NEW j \in Launches
      PROVE  /\ step'[j] \in {"unused"} \union Over
             /\ step'[j] \in {"unused"} \union Ended =>
                  step'[j] = step[j] /\ (step'[j] \in Ended => ctx'[j] = ctx[j])
             /\ ~Exists(j)' /\ (InDocker(j)' => InDocker(j))
             /\ box'[j] = box[j] \/ box'[j] = "stray"
             /\ ~Exists(j) => box'[j] = box[j]
  <2>1. step'[j] \in {"unused"} \union Over /\ ~Exists(j)'
          /\ (InDocker(j)' => InDocker(j)) /\ (~Exists(j) => box'[j] = box[j])
          /\ box'[j] \in {box[j], "stray"}
    BY DEF Exists, InDocker, Over
  <2>2. step'[j] \in {"unused"} \union Ended => step'[j] = step[j]
    BY DEF Over, Ended
  <2>3. step[j] \in Ended => ctx'[j] = ctx[j]
    BY DEF IInv, ContainersInv, Local, Clean
  <2> QED
    BY <2>1, <2>2, <2>3
<1>3. ASSUME NEW j \in Launches PROVE Local(j)'
  BY <1>2 DEF IInv, ContainersInv, Local, Stages, Clean, Staged, Exists,
     BeforeCreate, AfterCreate, Serving, Over, Ended
<1>4. TypeOK'
  BY <1>1, LifetimesAssumption DEF IInv, TypeOK
<1>5. Jobs' /\ Clock'
  BY DEF IInv, TypeOK, Jobs, Clock
<1>6. ASSUME NEW j \in Launches PROVE Owned(j)' /\ Timely(j)' /\ Reaped(j)'
  <2>1. step'[j] \notin Asked \union AfterCreate \union BeforeCreate
                       \union Serving \union {"made"}
    BY <1>2 DEF BeforeCreate, AfterCreate, Serving, Over, Ended, Asked
  <2> QED
    BY <1>2, <2>1 DEF Owned, Timely, Reaped
<1> QED
  BY <1>1, <1>3, <1>4, <1>5, <1>6 DEF IInv, ContainersInv

-----------------------------------------------------------------------------
(* The inductive invariant: what the code promises of a launch stays true  *)
(* only because time cannot pass a deadline, an owner or the reaper, but   *)
(* for what waits in a send.                                               *)
THEOREM LifetimesInvariant == Spec => []IInv
<1>1. IInv /\ [Next]_vars => IInv'
  <2> SUFFICES ASSUME IInv, [Next]_vars PROVE IInv'
    OBVIOUS
  <2>1. CASE UNCHANGED vars
    <3>1. ContainersInv'
      BY <2>1, ContainersStuttersKeep DEF vars, IInv
    <3> QED
      BY <2>1, <3>1
         DEF vars, containerVars, processVars, loopVars, sendVars, IInv, TypeOK,
             ContainersInv, Jobs, Clock, Owned, Timely, Reaped, InDocker, Exists,
             StreamOver
  <2>2. ASSUME NEW c \in Connections,
               \/ Connect(c) \/ Receive(c) \/ AskContainer(c) \/ Store(c)
               \/ GiveUp(c) \/ Sent(c) \/ TimerFires(c) \/ CleanUp(c) \/ Close(c)
               \/ \E j \in Launches : HandleLaunch(c, j)
        PROVE  IInv'
    BY <2>2, LoopKeeps, AskContainerKeeps, StoreKeeps, SentKeeps,
       TimerFiresKeeps, EndsKeep, HandleLaunchKeeps
  <2>3. ASSUME NEW j \in Launches,
               RestAsks(j) \/ Create(j) \/ Exit(j) \/ CancelIdle(j)
        PROVE  IInv'
    BY <2>3, RestAsksKeeps, CreateKeeps, ExitKeeps, CancelIdleKeeps
  <2>4. CASE \/ Reap \/ Boot \/ ProcessEnds \/ Tick
             \/ Signal \/ Resume \/ \E c \in Connections : Stall(c)
    BY <2>4, SweepsKeep, OutsideKeeps, ProcessEndsKeeps, TickKeeps
  <2> QED
    BY <2>1, <2>2, <2>3, <2>4 DEF Next
<1> QED
  BY <1>1, InitHolds, PTL DEF Spec

(* Types, and what every goroutine takes for granted: an open connection   *)
(* belongs to a running process, and st.session was made.                  *)
THEOREM LifetimesTypeCorrect == Spec => []TypeOK
BY LifetimesInvariant, PTL DEF IInv

(* Timers, sweeps and crashes leave nothing either: no directory, context  *)
(* or container of a launch that failed or was answered.                   *)
THEOREM NothingLeftInTime == Spec => []NothingLeft
BY LifetimesInvariant, InvGivesProperties, PTL DEF IInv

(* Nor do they let a program start before its files are there.             *)
THEOREM FilesFirstInTime == Spec => []FilesBeforeStart
BY LifetimesInvariant, InvGivesProperties, PTL DEF IInv

(* No container outlives the age of the reaper and one interval, counted   *)
(* from the last start, and one interval for each sweep Docker let down.   *)
THEOREM LifetimesBounded == Spec => []LifetimeBounded
<1>1. IInv => LifetimeBounded
  <2> SUFFICES ASSUME IInv, NEW j \in Launches, process # "down", InDocker(j)
               PROVE  now - Later(born[j], bootedAt) <= ReapAge + ReapEvery + grace
    BY DEF LifetimeBounded
  <2>1. now <= nextReap
          /\ nextReap <= Later(born[j], bootedAt) + ReapAge + ReapEvery + grace
    BY DEF IInv, Clock, Reaped
  <2>2. now \in Nat /\ nextReap \in Nat /\ grace \in Nat
          /\ Later(born[j], bootedAt) \in Nat
    BY DEF IInv, TypeOK, Later
  <2> QED
    BY <2>1, <2>2, LifetimesAssumption
<1> QED
  BY <1>1, LifetimesInvariant, PTL

(* How old a run or request that still exists can be. Its deadline was set *)
(* when it was made, or before, or when the sends that waited let it, and  *)
(* while there is a process time waits for what is due.                    *)
LEMMA ServedIsYoung ==
  ASSUME IInv, NEW j \in Runs \union Requests, Exists(j)
  PROVE  /\ j \in Launches /\ process # "down"
         /\ j \in Requests => now <= born[j] + KillAfter
         /\ j \in Runs => now <= born[j] + KillAfter + held[j]
<1>1. j \in Launches
  BY DEF Launches
<1>2. process # "down" /\ step[j] \in AfterCreate \union Serving \union {"made"}
  BY <1>1
     DEF IInv, ContainersInv, ContainersTypeOK, Local, Stages, Clean, Owned,
         Exists, Over, Ended
<1>3. now \in Nat /\ born[j] \in Nat /\ KillAfter \in Nat
        /\ (j \in Runs => held[j] \in Nat)
  BY <1>1, LifetimesAssumption DEF IInv, TypeOK
<1>4. ASSUME j \in Requests PROVE now <= born[j] + KillAfter
  <2>1. step[j] \in AfterCreate \union Serving
    BY <1>1, <1>2, <1>4 DEF IInv, ContainersInv, Local, Stages
  <2>2. now <= due[j] /\ due[j] <= born[j] + KillAfter /\ due[j] # None
    BY <1>1, <1>4, <2>1 DEF IInv, Timely, Asked
  <2>3. due[j] \in Nat
    BY <1>1, <2>2 DEF IInv, TypeOK
  <2> QED
    BY <1>3, <2>2, <2>3
<1>5. ASSUME j \in Runs PROVE now <= born[j] + KillAfter + held[j]
  <2>1. step[j] \in AfterCreate \union {"made"}
    BY <1>1, <1>2, <1>5, KindsAssumption DEF IInv, ContainersInv, Local, Stages
  <2>2. born[j] = now \/ now <= born[j] + KillAfter + held[j]
    BY <1>1, <1>5, <2>1 DEF IInv, Owned, Timely
  <2> QED
    BY <1>3, <1>5, <2>2
<1> QED
  BY <1>1, <1>2, <1>4, <1>5

(* The timeout of a run or request is kept, whatever its program and       *)
(* connection do: its container is gone by then, or told to go, or the     *)
(* process ended before and left it to the sweeps. What puts it off, for a *)
(* run, is the time that sends waited for a client that did not read, be   *)
(* it another: before "started" its kill timer is not armed.               *)
RunsEndInTime ==
  /\ \A j \in Requests : Exists(j) => now <= born[j] + KillAfter
  /\ \A j \in Runs : Exists(j) => now <= born[j] + KillAfter + held[j]

THEOREM TimeoutsAreKept == Spec => []RunsEndInTime
<1>1. IInv => RunsEndInTime
  BY ServedIsYoung DEF RunsEndInTime
<1> QED
  BY <1>1, LifetimesInvariant, PTL

(* No container is an orphan while the process runs: it serves a request,  *)
(* or its connection is open, and busy making it or has it as st.session,  *)
(* where its timers and the end of the connection find it, once "started"  *)
(* is sent.                                                                *)
ContainersHaveOwners ==
  \A j \in Launches :
    Exists(j) =>
      /\ process # "down"
      /\ j \notin Requests =>
           /\ conn[j] # None /\ job[conn[j]] = j
           /\ \/ loop[conn[j]] = "busy"
              \/ loop[conn[j]] \in {"reading", "sending"} /\ cur[conn[j]] = j

THEOREM NoOrphans == Spec => []ContainersHaveOwners
<1>1. IInv => ContainersHaveOwners
  <2> SUFFICES ASSUME IInv, NEW j \in Launches, Exists(j)
               PROVE  /\ process # "down"
                      /\ j \notin Requests =>
                           /\ conn[j] # None /\ job[conn[j]] = j
                           /\ \/ loop[conn[j]] = "busy"
                              \/ loop[conn[j]] \in {"reading", "sending"} /\ cur[conn[j]] = j
    BY DEF ContainersHaveOwners
  <2>1. step[j] \in Asked \union Serving \union {"made"}
    BY DEF IInv, ContainersInv, ContainersTypeOK, Local, Stages, Clean, Exists,
           Over, Ended, Asked
  <2>2. process # "down"
    BY <2>1 DEF IInv, Owned, Asked, BeforeCreate, AfterCreate, Serving, Over,
                Ended
  <2>3. step[j] \in Serving => j \in Requests
    BY DEF IInv, ContainersInv, Local, Stages
  <2>4. ASSUME j \notin Requests
        PROVE  /\ conn[j] # None /\ job[conn[j]] = j
               /\ \/ loop[conn[j]] = "busy"
                  \/ loop[conn[j]] \in {"reading", "sending"} /\ cur[conn[j]] = j
    <3>1. /\ conn[j] # None /\ job[conn[j]] = j
          /\ loop[conn[j]] = "busy" \/ cur[conn[j]] = j
      BY <2>1, <2>3, <2>4 DEF IInv, Owned
    <3>2. conn[j] \in Connections
      BY <3>1 DEF IInv, TypeOK
    <3>3. cur[conn[j]] # None => loop[conn[j]] \in {"reading", "sending"}
      BY <3>2 DEF IInv, TypeOK
    <3>4. j # None
      BY LifetimesAssumption
    <3> QED
      BY <3>1, <3>3, <3>4
  <2> QED
    BY <2>2, <2>4
<1> QED
  BY <1>1, LifetimesInvariant, PTL

(* No sweep takes the container of a run or request that is still served:  *)
(* its timeout comes before the age of the reaper, as long as sends did    *)
(* not put it off by the difference, and at startup there is none.         *)
THEOREM SweepsTakeNoRun == Spec => SweepsSpareRuns
<1>1. ASSUME IInv, Next, nextReap' # nextReap,
             NEW j \in Runs \union Requests, Exists(j),
             j \in Runs => held[j] + KillAfter < ReapAge
      PROVE  box'[j] = box[j]
  <2>1. /\ j \in Launches /\ process # "down"
        /\ j \in Requests => now <= born[j] + KillAfter
        /\ j \in Runs => now <= born[j] + KillAfter + held[j]
    BY <1>1, ServedIsYoung
  <2>2. Reap
    BY <1>1, <2>1
       DEF Next, Connect, Receive, AskContainer, Store, GiveUp, Sent, TimerFires,
           CancelIdle, CleanUp, Close, HandleLaunch, RestAsks, Create, Exit,
           Boot, Signal, Stall, Resume, ProcessEnds, Tick, processVars
  <2>3. now - born[j] < ReapAge
    <3>1. now \in Nat /\ born[j] \in Nat /\ (j \in Runs => held[j] \in Nat)
      BY <1>1, <2>1 DEF IInv, TypeOK
    <3> QED
      BY <1>1, <2>1, <3>1, LifetimesAssumption
  <2>4. j \notin Old(ReapAge)
    BY <1>1, <2>1, <2>3, LifetimesAssumption DEF IInv, TypeOK, Old
  <2> QED
    BY <2>1, <2>2, <2>4 DEF Reap, Sweep
<1>2. IInv /\ [Next]_vars
        => [nextReap' # nextReap =>
              \A j \in Runs \union Requests :
                Exists(j) /\ (j \in Runs => held[j] + KillAfter < ReapAge) =>
                  box'[j] = box[j]]_vars
  BY <1>1
<1> QED
  BY <1>2, LifetimesInvariant, PTL DEF Spec, SweepsSpareRuns

-----------------------------------------------------------------------------
(* Letting go is a step of Creation for a container that still exists, and *)
(* none for one that is gone.                                              *)
LEMMA LetGoRefines ==
  ASSUME IInv, NEW c \in Connections, LetGo(c)
  PROVE  [Atomic!Next]_(Atomic!vars)
<1> DEFINE P == [k \in Launches |-> Phase(k)]
           L == [k \in Launches |-> Live(k)]
<1>1. UNCHANGED step /\ P' = P
  BY DEF LetGo, Phase
<1>2. CASE cur[c] = None \/ ~Exists(cur[c])
  <2>1. UNCHANGED box
    BY <1>2 DEF LetGo, Remove
  <2> QED
    BY <1>1, <2>1 DEF Phase, Live, Exists, Atomic!vars
<1>3. CASE cur[c] # None /\ Exists(cur[c])
  <2>1. PICK j \in Launches : j = cur[c] /\ step[j] = "made"
    BY <1>3 DEF IInv, TypeOK
  <2>2. PICK left \in {"gone", "stray"} : box' = [box EXCEPT ![j] = left]
    BY <1>3, <2>1 DEF LetGo, Remove
  <2>3. Phase(j) = "live" /\ Live(j) = "live" /\ Live(j)' = left
    BY <1>1, <1>3, <2>1, <2>2
       DEF IInv, TypeOK, ContainersTypeOK, Phase, Live, Exists, Over, Ended
  <2>4. \A k \in Launches \ {j} : Live(k)' = Live(k)
    BY <1>1, <2>2 DEF IInv, TypeOK, ContainersTypeOK, Live, Phase, Exists
  <2>5. L' = [L EXCEPT ![j] = left]
    BY <2>3, <2>4
  <2>6. Atomic!LetGo(j)
    BY <1>1, <2>3, <2>5 DEF Atomic!LetGo
  <2> QED
    BY <2>6 DEF Atomic!Next
<1> QED
  BY <1>2, <1>3

LEMMA SweepRefines ==
  ASSUME IInv, Reap \/ Boot
  PROVE  [Atomic!Next]_(Atomic!vars)
<1>1. PICK age \in {StartupAge, ReapAge} :
        Sweep(age) /\ UNCHANGED <<step, dir, code, ctx>>
  BY DEF Reap, Boot
<1>2. age \in Nat \ {0}
  BY <1>1, LifetimesAssumption
<1>3. \A j \in Launches : Phase(j)' = Phase(j)
  BY <1>1 DEF Phase
<1>4. ASSUME NEW j \in Launches
      PROVE  /\ Live(j)' \in {"none", "live", "gone", "stray"}
             /\ Live(j)' # Live(j) => Live(j) \in {"live", "stray"} /\ Live(j)' = "gone"
  <2>1. box'[j] = box[j] \/ (box'[j] = "gone" /\ InDocker(j))
    BY <1>1, <1>2, SweepLocal
  <2>2. box[j] \in {"none", "created", "running", "exited", "gone", "stray"}
    BY DEF IInv, TypeOK, ContainersTypeOK
  <2> QED
    BY <1>3, <2>1, <2>2 DEF Live, Exists, InDocker
<1>5. Atomic!Sweep
  BY <1>3, <1>4 DEF Atomic!Sweep
<1> QED
  BY <1>5 DEF Atomic!Next

LEMMA CrashRefines ==
  ASSUME IInv, ProcessEnds
  PROVE  [Atomic!Next]_(Atomic!vars)
<1> DEFINE P == [k \in Launches |-> Phase(k)]
           L == [k \in Launches |-> Live(k)]
<1>1. ASSUME NEW j \in Launches
      PROVE  /\ P'[j] \in {"asked", "over"}
             /\ \/ P'[j] = "asked" /\ P[j] = "asked" /\ L'[j] = L[j]
                \/ P'[j] = "over" /\ P[j] = "over" /\ L'[j] = L[j]
                \/ P'[j] = "over" /\ P[j] = "asked" /\ L'[j] \in {"none", "stray"}
                \/ P'[j] = "over" /\ P[j] = "live"
                     /\ L'[j] = IF L[j] = "live" THEN "stray" ELSE L[j]
  <2>1. /\ step'[j] = IF step[j] \in Over \union {"unused"} THEN step[j] ELSE "crashed"
        /\ box'[j] = IF Exists(j) THEN "stray" ELSE box[j]
    BY DEF ProcessEnds
  <2>2. CASE step[j] = "unused"
    BY <2>1, <2>2 DEF Phase, Live, Over, Ended, Serving
  <2>3. CASE step[j] \in Over
    <3>1. ~Exists(j)
      BY <2>3 DEF IInv, ContainersInv, Local, Stages, Clean, Over
    <3>2. step'[j] = step[j] /\ box'[j] = box[j]
      BY <2>1, <2>3, <3>1
    <3> QED
      BY <2>3, <3>2 DEF Phase, Live, Exists
  <2>4. CASE step[j] \in BeforeCreate \union AfterCreate
    <3>1. step'[j] = "crashed" /\ box'[j] \in {"none", "stray"}
      BY <2>1, <2>4
         DEF Exists, IInv, ContainersInv, Local, Stages, BeforeCreate, AfterCreate,
             Over, Ended
    <3>2. Phase(j) = "asked"
      BY <2>4 DEF Phase, BeforeCreate, AfterCreate, Serving, Over, Ended
    <3>3. Phase(j)' = "over" /\ Live(j)' = box'[j]
      BY <3>1 DEF Phase, Live, Exists, Over
    <3> QED
      BY <3>1, <3>2, <3>3
  <2>5. CASE step[j] \in Serving \union {"made"}
    BY <2>1, <2>5
       DEF Phase, Live, Exists, IInv, TypeOK, ContainersTypeOK, Serving, Over, Ended
  <2> QED
    BY <2>2, <2>3, <2>4, <2>5 DEF IInv, TypeOK, ContainersTypeOK
<1>2. Atomic!Crash
  BY <1>1 DEF Atomic!Crash
<1> QED
  BY <1>2 DEF Atomic!Next

(* With timers, sweeps and crashes as well, a container is made at once or *)
(* not at all, and is then let go of, swept, or left to the sweeps.        *)
THEOREM LifetimesImplementCreation == Spec => ImplementsCreation
<1>1. Init => Atomic!Init
  BY ContainersInitRefines DEF Init
<1>2. IInv /\ [Next]_vars => [Atomic!Next]_(Atomic!vars)
  <2> SUFFICES ASSUME IInv, [Next]_vars PROVE [Atomic!Next]_(Atomic!vars)
    OBVIOUS
  <2>1. CASE UNCHANGED <<step, box>>
    BY <2>1 DEF Atomic!vars, Phase, Live, Exists
  <2>2. ASSUME NEW c \in Connections,
               \/ Connect(c) \/ Receive(c) \/ Store(c) \/ GiveUp(c) \/ Sent(c)
               \/ TimerFires(c) \/ Stall(c)
        PROVE  [Atomic!Next]_(Atomic!vars)
    BY <2>1, <2>2
       DEF containerVars, Connect, Receive, Store, GiveUp, Sent, TimerFires, Stall
  <2>3. ASSUME NEW c \in Connections, AskContainer(c)
        PROVE  [Atomic!Next]_(Atomic!vars)
    <3>1. job[c] \in Launches
      BY <2>3 DEF IInv, TypeOK, Jobs, AskContainer
    <3> QED
      BY <2>1, <2>3, <3>1, ContainerStepRefines
         DEF IInv, AskContainer, ContainerStep, containerVars
  <2>4. ASSUME NEW c \in Connections,
               CleanUp(c) \/ Close(c) \/ \E j \in Launches : HandleLaunch(c, j)
        PROVE  [Atomic!Next]_(Atomic!vars)
    BY <2>4, LetGoRefines DEF CleanUp, Close, HandleLaunch
  <2>5. ASSUME NEW j \in Launches, RestAsks(j) \/ Create(j) \/ Exit(j)
        PROVE  [Atomic!Next]_(Atomic!vars)
    BY <2>5, ContainerStepRefines
       DEF IInv, RestAsks, Create, Exit, ContainerStep, CreationStep
  <2>6. CASE Signal \/ Resume \/ Tick \/ \E j \in Launches : CancelIdle(j)
    BY <2>1, <2>6 DEF Signal, Resume, Tick, CancelIdle, containerVars
  <2> QED
    BY <2>1, <2>2, <2>3, <2>4, <2>5, <2>6, SweepRefines, CrashRefines
       DEF Next, vars, containerVars
<1> QED
  BY <1>1, <1>2, LifetimesInvariant, PTL DEF Spec, ImplementsCreation, Atomic!Spec

=============================================================================
