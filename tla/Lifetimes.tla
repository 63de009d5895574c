----------------------------- MODULE Lifetimes ------------------------------
(***************************************************************************)
(* Time: how long a container can live. Containers are made call by call   *)
(* (Containers) for the messages of WebSocket connections and for REST     *)
(* requests, and end by a kill timer, the idle timer of a shell, the read  *)
(* deadline of a connection, the timeout of a request, the sweep of        *)
(* startup or the zombie reaper (handler/websocket.go, executor/cleanup.go,*)
(* executor/reaper.go). The process may crash between any two calls, or    *)
(* end by a signal (main.go), and is started again.                        *)
(*                                                                         *)
(* Time passes in ticks, and only when nothing is due: timers fire and     *)
(* goroutines run within a tick, and Docker answers within one, but for    *)
(* the pull of an image, and a send within one, but for those that wait    *)
(* for a client that does not read: it holds connWriteMu, which every send *)
(* of the process takes (websocket.go:1006). Slots are in Sessions: here a *)
(* message is granted one or refused.                                      *)
(***************************************************************************)
EXTENDS Containers, FiniteSets

CONSTANTS
  Connections,  (* WebSocket connections                                   *)
  Workloads,    (* bound: the sets of launches clients may ask for         *)
  KillAfter,    (* timeout of a run or a request                           *)
  ShellIdle,    (* shellIdleTimeout                                        *)
  ReadTimeout,  (* wsReadTimeout                                           *)
  StartupAge,   (* age from which the startup sweep removes                *)
  ReapAge,      (* zombieMaxAge                                            *)
  ReapEvery,    (* zombieReapInterval                                      *)
  MaxTime,      (* bound: the clock stops there                            *)
  MaxFaults,    (* bound: sweeps that Docker lets down, crashes, and       *)
                (* clients that do not read for a while                    *)
  None          (* nil                                                     *)

ASSUME LifetimesAssumption ==
  /\ None \notin Launches \union Connections \union Nat
  /\ Workloads \subseteq SUBSET Launches
  /\ {KillAfter, ShellIdle, ReadTimeout, StartupAge, ReapAge, ReapEvery}
       \subseteq Nat \ {0}
  /\ KillAfter < ReapAge
  /\ MaxTime \in Nat /\ MaxFaults \in Nat

VARIABLES
  offered,   (* the launches clients ask for in this behaviour             *)
  now,       (* the clock                                                  *)
  process,   (* up, draining (between the signal and the end) or down      *)
  bootedAt,  (* when it was started                                        *)
  nextReap,  (* when the reaper's ticker ticks                             *)
  faults,    (* faulty sweeps, crashes and such clients so far             *)
  grace,     (* ReapEvery for each sweep that Docker let down              *)
  born,      (* [Launches] when its container was created                  *)
  conn,      (* [Launches] the connection it belongs to                    *)
  due,       (* [Launches] when its timer fires or its request times out,  *)
             (* None when that is not armed                                *)
  loop,      (* [Connections] closed, reading, busy with a launch, or      *)
             (* sending its outcome: "started", or an error                *)
  job,       (* [Connections] the launch it was busy with last: the one    *)
             (* that bumped st.generation                                  *)
  cur,       (* [Connections] st.session                                   *)
  lastRead,  (* [Connections] when it last read a message                  *)
  lastInput, (* [Connections] st.shellLastActivity                         *)
  stalled,   (* the connection whose client holds connWriteMu by not       *)
             (* reading what is written to it, None when no send waits     *)
  held,      (* [Runs] the ticks that its container existed and sends      *)
             (* waited                                                     *)
  closing    (* shells whose idle timer is at its notice to the client     *)

processVars == <<process, bootedAt, nextReap, faults, grace>>
loopVars    == <<loop, job, cur, lastRead, lastInput>>
sendVars    == <<stalled, held, closing>>
vars == <<containerVars, offered, now, processVars, born, conn, due, loopVars,
          sendVars>>

(* Types, and what every goroutine takes for granted: a connection that is *)
(* open belongs to a running process, and st.session was made.             *)
TypeOK ==
  /\ ContainersTypeOK
  /\ offered \in Workloads
  /\ now \in Nat /\ bootedAt \in Nat /\ nextReap \in Nat
  /\ process \in {"up", "draining", "down"}
  /\ faults \in Nat /\ grace \in Nat
  /\ born \in [Launches -> Nat]
  /\ conn \in [Launches -> Connections \union {None}]
  /\ due \in [Launches -> Nat \union {None}]
  /\ loop \in [Connections -> {"closed", "reading", "busy", "sending"}]
  /\ job \in [Connections -> Launches \union {None}]
  /\ cur \in [Connections -> Launches \union {None}]
  /\ lastRead \in [Connections -> Nat]
  /\ lastInput \in [Connections -> Nat]
  /\ stalled \in Connections \union {None}
  /\ held \in [Runs -> Nat]
  /\ closing \subseteq Shells
  /\ \A c \in Connections :
       /\ cur[c] \in {None, job[c]}
       /\ cur[c] # None =>
            loop[c] \in {"reading", "sending"} /\ step[cur[c]] = "made"

Init ==
  /\ ContainersInit
  /\ offered \in Workloads
  /\ now = 0 /\ bootedAt = 0 /\ nextReap = ReapEvery
  /\ process = "up"
  /\ faults = 0 /\ grace = 0
  /\ born = [j \in Launches |-> 0]
  /\ conn = [j \in Launches |-> None]
  /\ due = [j \in Launches |-> None]
  /\ loop = [c \in Connections |-> "closed"]
  /\ job = [c \in Connections |-> None]
  /\ cur = [c \in Connections |-> None]
  /\ lastRead = [c \in Connections |-> 0]
  /\ lastInput = [c \in Connections |-> 0]
  /\ stalled = None
  /\ held = [j \in Runs |-> 0]
  /\ closing = {}

-----------------------------------------------------------------------------
(* Sends wait: a write to the client of c lasts, and has connWriteMu.      *)
Stalled == stalled # None

Stall(c) ==
  /\ ~Stalled
  /\ loop[c] # "closed"
  /\ stalled' = c
  /\ faults < MaxFaults
  /\ faults' = faults + 1
  /\ UNCHANGED <<containerVars, offered, now, process, bootedAt, nextReap, grace,
                 born, conn, due, loopVars, held, closing>>

(* The client reads again, or its connection is given up.                  *)
Resume ==
  /\ Stalled
  /\ stalled' = None
  /\ UNCHANGED <<containerVars, offered, now, processVars, born, conn, due,
                 loopVars, held, closing>>

-----------------------------------------------------------------------------
(* Cancel, close, remove and forget st.session. Its stream ends, and with  *)
(* it the timer.                                                           *)
LetGo(c) ==
  /\ cur' = [cur EXCEPT ![c] = None]
  /\ UNCHANGED <<step, dir, code>>
  /\ IF cur[c] = None
     THEN UNCHANGED <<box, ctx, due>>
     ELSE /\ Remove(cur[c])
          /\ Cancel(cur[c])
          /\ due' = [due EXCEPT ![cur[c]] = None]

(* During shutdown only new connections and requests are refused. The      *)
(* state of a session (st) comes and goes with its connection.             *)
Connect(c) ==
  /\ process = "up"
  /\ loop[c] = "closed"
  /\ loop' = [loop EXCEPT ![c] = "reading"]
  /\ lastRead' = [lastRead EXCEPT ![c] = now]
  /\ UNCHANGED <<containerVars, offered, now, processVars, born, conn, due, job,
                 cur, lastInput, sendVars>>

(* Any message puts the read deadline off; input keeps a shell alive.      *)
Receive(c) ==
  /\ loop[c] = "reading"
  /\ lastRead' = [lastRead EXCEPT ![c] = now]
  /\ \/ UNCHANGED lastInput
     \/ cur[c] \in Shells /\ lastInput' = [lastInput EXCEPT ![c] = now]
  /\ UNCHANGED <<containerVars, offered, now, processVars, born, conn, due,
                 loop, job, cur, sendVars>>

(* "run" or "shell": let go of the session, and wait for a slot.           *)
HandleLaunch(c, j) ==
  /\ loop[c] = "reading"
  /\ j \in offered \ Requests
  /\ conn[j] = None
  /\ LetGo(c)
  /\ conn' = [conn EXCEPT ![j] = c]
  /\ loop' = [loop EXCEPT ![c] = "busy"]
  /\ job' = [job EXCEPT ![c] = j]
  /\ lastRead' = [lastRead EXCEPT ![c] = now]
  /\ UNCHANGED <<offered, now, processVars, born, lastInput, sendVars>>

(* The slot was granted; or refused, with an error to the client.          *)
AskContainer(c) ==
  /\ loop[c] = "busy"
  /\ \/ Ask(job[c]) /\ UNCHANGED loop
     \/ /\ step[job[c]] = "unused"
        /\ loop' = [loop EXCEPT ![c] = "sending"]
        /\ UNCHANGED containerVars
  /\ UNCHANGED <<offered, now, processVars, born, conn, due, job, cur, lastRead,
                 lastInput, sendVars>>

(* The context of a REST request ends with its timeout.                    *)
RestAsks(j) ==
  /\ process = "up"
  /\ j \in offered \intersect Requests
  /\ Ask(j)
  /\ due' = [due EXCEPT ![j] = now + KillAfter]
  /\ UNCHANGED <<offered, now, processVars, born, conn, loopVars, sendVars>>

(* Nothing but a failure is left to a request that timed out.              *)
InTime(j) == j \in Requests => now < due[j]

Create(j) ==
  /\ \/ CreationStep(j) /\ InTime(j)
     \/ FailsBefore(j) \/ FailsAfter(j)
  /\ born' = [born EXCEPT ![j] = IF step[j] = "create" THEN now ELSE @]
  /\ UNCHANGED <<offered, now, processVars, conn, due, loopVars, sendVars>>

(* The session is stored, and the idle timer of a shell armed.             *)
Store(c) ==
  /\ loop[c] = "busy"
  /\ step[job[c]] = "made"
  /\ loop' = [loop EXCEPT ![c] = "sending"]
  /\ cur' = [cur EXCEPT ![c] = job[c]]
  /\ IF job[c] \in Shells
     THEN /\ due' = [due EXCEPT ![job[c]] = now + ShellIdle]
          /\ lastInput' = [lastInput EXCEPT ![c] = now]
     ELSE UNCHANGED <<due, lastInput>>
  /\ UNCHANGED <<containerVars, offered, now, processVars, born, conn, job,
                 lastRead, sendVars>>

(* No container.                                                           *)
GiveUp(c) ==
  /\ loop[c] = "busy"
  /\ step[job[c]] = "failed"
  /\ loop' = [loop EXCEPT ![c] = "sending"]
  /\ UNCHANGED <<containerVars, offered, now, processVars, born, conn, due, job,
                 cur, lastRead, lastInput, sendVars>>

(* Mutant of Sent: the kill timer of a run is not armed.                   *)
SentUntimed(c) ==
  /\ loop[c] = "sending"
  /\ ~Stalled
  /\ loop' = [loop EXCEPT ![c] = "reading"]
  /\ UNCHANGED <<containerVars, offered, now, processVars, born, conn, due, job,
                 cur, lastRead, lastInput, sendVars>>

(* "started", or the error, is sent. Only then is the kill timer of a run  *)
(* armed, and do its bridge and its exit goroutine begin.                  *)
Sent(c) ==
  /\ loop[c] = "sending"
  /\ ~Stalled
  /\ loop' = [loop EXCEPT ![c] = "reading"]
  /\ IF cur[c] \in Runs
     THEN due' = [due EXCEPT ![cur[c]] = now + KillAfter]
     ELSE UNCHANGED due
  /\ UNCHANGED <<containerVars, offered, now, processVars, born, conn, job, cur,
                 lastRead, lastInput, sendVars>>

-----------------------------------------------------------------------------
Exit(j) ==
  /\ ProgramEnds(j)
  /\ UNCHANGED <<offered, now, processVars, born, conn, due, loopVars, sendVars>>

(* The kill timer cancels the context of a run; the idle timer decides to, *)
(* unless there was input since it was armed. Both fire once.              *)
TimerFires(c) ==
  /\ cur[c] # None
  /\ due[cur[c]] # None
  /\ due[cur[c]] <= now
  /\ due' = [due EXCEPT ![cur[c]] = None]
  /\ IF cur[c] \in Runs THEN Cancel(cur[c]) ELSE UNCHANGED ctx
  /\ IF cur[c] \in Shells /\ now - lastInput[c] >= ShellIdle
     THEN closing' = closing \union {cur[c]}
     ELSE UNCHANGED closing
  /\ UNCHANGED <<step, dir, box, code, offered, now, processVars, born, conn,
                 loopVars, stalled, held>>

(* The client is told that its shell is closed, whichever session is       *)
(* current by now; then the context of the shell is cancelled.             *)
CancelIdle(j) ==
  /\ j \in closing
  /\ ~Stalled
  /\ Cancel(j)
  /\ closing' = closing \ {j}
  /\ UNCHANGED <<step, dir, box, code, offered, now, processVars, born, conn,
                 due, loopVars, stalled, held>>

StreamOver(j) == ctx[j] = "cancelled" \/ box[j] # "running"

(* The exit goroutine of the current launch lets go of it: that of a run   *)
(* when it has sent "exit". Sends of the bridge may delay either.          *)
CleanUp(c) ==
  /\ cur[c] # None
  /\ loop[c] # "sending"
  /\ StreamOver(cur[c])
  /\ cur[c] \in Runs => ~Stalled
  /\ LetGo(c)
  /\ UNCHANGED <<offered, now, processVars, born, conn, loop, job, lastRead,
                 lastInput, sendVars>>

(* Mutant of Close: the session is removed and not forgotten.              *)
CloseForgets(c) ==
  /\ loop[c] = "reading"
  /\ loop' = [loop EXCEPT ![c] = "closed"]
  /\ UNCHANGED <<step, dir, code, due, cur>>
  /\ IF cur[c] = None
     THEN UNCHANGED <<box, ctx>>
     ELSE Remove(cur[c]) /\ Cancel(cur[c])
  /\ job' = [job EXCEPT ![c] = None]
  /\ lastRead' = [lastRead EXCEPT ![c] = 0]
  /\ lastInput' = [lastInput EXCEPT ![c] = 0]
  /\ stalled' = IF stalled = c THEN None ELSE stalled
  /\ UNCHANGED <<offered, now, processVars, born, conn, held, closing>>

(* The client leaves, or its read deadline passes; a handler that is busy, *)
(* or in a send, does not notice. What is still written to it fails.       *)
Close(c) ==
  /\ loop[c] = "reading"
  /\ LetGo(c)
  /\ loop' = [loop EXCEPT ![c] = "closed"]
  /\ job' = [job EXCEPT ![c] = None]
  /\ lastRead' = [lastRead EXCEPT ![c] = 0]
  /\ lastInput' = [lastInput EXCEPT ![c] = 0]
  /\ stalled' = IF stalled = c THEN None ELSE stalled
  /\ UNCHANGED <<offered, now, processVars, born, conn, held, closing>>

-----------------------------------------------------------------------------
InDocker(j) == Exists(j) \/ box[j] = "stray"

(* Student containers, by label or image, of at least that age. The sweep  *)
(* spares images of lab targets, which no language is taken to name.       *)
Old(age) == {j \in Launches : InDocker(j) /\ now - born[j] >= age}

(* cleanupAged: all of them, unless Docker fails to list or remove some.   *)
Sweep(age) ==
  \E left \in SUBSET Old(age) :
    /\ box' = [j \in Launches |-> IF j \in Old(age) \ left THEN "gone" ELSE box[j]]
    /\ IF left = {}
       THEN UNCHANGED <<faults, grace>>
       ELSE /\ faults < MaxFaults
            /\ faults' = faults + 1
            /\ grace' = grace + ReapEvery

Reap ==
  /\ process # "down"
  /\ nextReap <= now
  /\ Sweep(ReapAge)
  /\ nextReap' = nextReap + ReapEvery
  /\ UNCHANGED <<step, dir, code, ctx, offered, now, process, bootedAt, born,
                 conn, due, loopVars, sendVars>>

(* Mutant of Boot: the sweep of startup only, as before the reaper.        *)
BootSweepsOnly ==
  /\ process = "down"
  /\ process' = "up"
  /\ bootedAt' = now
  /\ Sweep(StartupAge)
  /\ nextReap' = MaxTime + 1
  /\ UNCHANGED <<step, dir, code, ctx, offered, now, born, conn, due, loopVars,
                 sendVars>>

(* main: the sweep of startup, and then the reaper.                        *)
Boot ==
  /\ process = "down"
  /\ process' = "up"
  /\ bootedAt' = now
  /\ Sweep(StartupAge)
  /\ nextReap' = now + ReapEvery
  /\ UNCHANGED <<step, dir, code, ctx, offered, now, born, conn, due, loopVars,
                 sendVars>>

(* SIGTERM: main waits for requests in flight, for 15 seconds, and for two *)
(* more; nobody tells the sessions, which go on meanwhile.                 *)
Signal ==
  /\ process = "up"
  /\ process' = "draining"
  /\ UNCHANGED <<containerVars, offered, now, bootedAt, nextReap, faults, grace,
                 born, conn, due, loopVars, sendVars>>

(* The process ends, by itself or not; containers and staging directories  *)
(* stay.                                                                   *)
ProcessEnds ==
  /\ \/ process = "draining" /\ UNCHANGED faults
     \/ process = "up" /\ faults < MaxFaults /\ faults' = faults + 1
  /\ process' = "down"
  /\ step' = [j \in Launches |-> IF step[j] \in Over \union {"unused"}
                                 THEN step[j] ELSE "crashed"]
  /\ box' = [j \in Launches |-> IF Exists(j) THEN "stray" ELSE box[j]]
  /\ ctx' = [j \in Launches |-> IF ctx[j] = "open" THEN "cancelled" ELSE ctx[j]]
  /\ due' = [j \in Launches |-> None]
  /\ loop' = [c \in Connections |-> "closed"]
  /\ job' = [c \in Connections |-> None]
  /\ cur' = [c \in Connections |-> None]
  /\ lastRead' = [c \in Connections |-> 0]
  /\ lastInput' = [c \in Connections |-> 0]
  /\ stalled' = None /\ closing' = {}
  /\ UNCHANGED <<dir, code, offered, now, bootedAt, nextReap, grace, born, conn,
                 held>>

(* What happens before time passes: a pull may last, and a program, a      *)
(* session and a request until its deadline. While sends wait, so may      *)
(* whatever is in one: any handler, any exit goroutine, an idle timer.     *)
Idle ==
  /\ process = "up"
  /\ now < nextReap
  /\ \A j \in Launches :
       step[j] \in {"unused", "image", "await", "made"} \union Over
  /\ \A j \in Requests : step[j] \in {"image", "await"} => now < due[j]
  /\ \A c \in Connections :
       /\ loop[c] = "busy" => step[job[c]] = "image"
       /\ cur[c] # None /\ due[cur[c]] # None => now < due[cur[c]]
  /\ \/ Stalled
     \/ /\ closing = {}
        /\ \A c \in Connections :
             /\ loop[c] # "sending"
             /\ loop[c] = "reading" => now < lastRead[c] + ReadTimeout
             /\ cur[c] # None => ~StreamOver(cur[c])

Tick ==
  /\ now < MaxTime
  /\ process = "down" \/ Idle
  /\ now' = now + 1
  /\ held' = [j \in Runs |-> IF Stalled /\ Exists(j) THEN held[j] + 1 ELSE held[j]]
  /\ UNCHANGED <<containerVars, offered, processVars, born, conn, due, loopVars,
                 stalled, closing>>

Next ==
  \/ \E c \in Connections :
       \/ Connect(c) \/ Receive(c) \/ AskContainer(c) \/ Store(c) \/ GiveUp(c)
       \/ Sent(c) \/ TimerFires(c) \/ CleanUp(c) \/ Close(c) \/ Stall(c)
       \/ \E j \in Launches : HandleLaunch(c, j)
  \/ \E j \in Launches : RestAsks(j) \/ Create(j) \/ Exit(j) \/ CancelIdle(j)
  \/ Resume \/ Reap \/ Boot \/ Signal \/ ProcessEnds \/ Tick

Spec == Init /\ [][Next]_vars

-----------------------------------------------------------------------------
(* "so it never touches in-flight sessions": a sweep, whose ages know      *)
(* nothing of sessions, removes no container of a run or request that is   *)
(* still being served, because their timeouts come first. That of a run is *)
(* put off while sends wait, and a run they hold up for longer than the    *)
(* two ages differ may be taken: of that the code makes no exception.      *)
SweepsSpareRuns ==
  [][nextReap' # nextReap =>
       \A j \in Runs \union Requests :
         Exists(j) /\ (j \in Runs => held[j] + KillAfter < ReapAge) =>
           box'[j] = box[j]]_vars

Later(m, n) == IF m > n THEN m ELSE n

(* A leak ends: whatever crashed, was cut short or was refused by Docker,  *)
(* no container gets older than the age of the reaper and one interval,    *)
(* counted from the last start of the process if that is later, and one    *)
(* interval more for each sweep that Docker let down.                      *)
LifetimeBounded ==
  \A j \in Launches :
    process # "down" /\ InDocker(j) =>
      now - Later(born[j], bootedAt) <= ReapAge + ReapEvery + grace

-----------------------------------------------------------------------------
(* As the comments have it (violated, see the README).                     *)

(* "If the user sends no input for shellIdleTimeout, kill the shell and    *)
(* free the slot."                                                         *)
ShellIdleKilled ==
  \A c \in Connections :
    cur[c] \in Shells => now - lastInput[c] <= ShellIdle

=============================================================================
