-------------------------------- MODULE Lab ---------------------------------
(***************************************************************************)
(* executor/lab.go with its callers in handler/websocket.go: labs, each an *)
(* isolated Docker network with a target container on it, which the next   *)
(* run of the session joins. A lab is stopped by its session's main loop   *)
(* (lab_stop, another lab_start, the end of the connection) and by its own *)
(* expiry goroutine, each with the same three Docker calls, in no order    *)
(* relative to each other or to a run being created on the network.        *)
(*                                                                         *)
(* Labs of different sessions share nothing, so one session is modelled,   *)
(* and the process it lives in: a crash loses everything but what Docker   *)
(* holds, and the next process sweeps that before it serves the session    *)
(* that comes next.                                                        *)
(*                                                                         *)
(* Of Docker: a network with a running container on it is not removed, and *)
(* no container is created on a network that is gone. Of two removals of a *)
(* container at the same time it refuses the second, and until the first   *)
(* is done the container may still be on its network. Any call may fail.   *)
(* The code logs a refused removal and goes on; what Docker refused to     *)
(* remove, other than because another removal of it was in progress, is    *)
(* "stray" from then on, and nobody has to come back for it.               *)
(***************************************************************************)
EXTENDS Naturals, FiniteSets

CONSTANTS
  Labs,        (* "lab_start" messages, each with the lab it starts        *)
  Students,    (* containers of "run" messages                             *)
  MaxCrashes,  (* bound: crashes of the process that lose a lab            *)
  MaxStrays,   (* bound: what Docker refuses to remove, at any one time    *)
  None         (* nil, or no ID                                            *)

ASSUME LabAssumption ==
  /\ None \notin Labs /\ None \notin Students
  /\ Labs \cap Students = {}
  /\ MaxCrashes \in Nat /\ MaxStrays \in Nat

VARIABLES
  pc,         (* the main loop, or the start of the process                *)
  then,       (* where it goes when its LetGo or StopLab returns           *)
  starting,   (* the lab a "lab_start" is about                            *)
  running,    (* the container a "run" is about                            *)
  network,    (* the local variable labNetworkID                           *)
  lab,        (* st.lab                                                    *)
  cur,        (* st.session                                                *)
  studentId,  (* [Labs] lab.StudentID                                      *)
  expiry,     (* [Labs] the expiry goroutine: off, waiting, cancelled, the *)
              (* step of StopLab it is at, or done                         *)
  fate,       (* [Labs] what became of StartLab: unused, starting, started,*)
              (* failed, or crashed with its process                       *)
  loopRemoves, (* the removal the main loop waits for: of a student, or of *)
              (* the target of a lab, which goes by the lab's name         *)
  removes,    (* [Labs] the removal the expiry goroutine waits for         *)
  exiting,    (* the student an exit goroutine is removing, under st.mu    *)
  net,        (* [Labs] the network: none, up, stray or gone               *)
  target,     (* [Labs] the target: none, created, running, stray or gone  *)
  ctr,        (* [Students] the container: none, running, exited, stray or *)
              (* gone                                                      *)
  on,         (* [Students] the lab whose network it is on                 *)
  crashes     (* how often the process crashed                             *)

loopVars    == <<pc, then, starting, running, network, loopRemoves>>
sessionVars == <<lab, cur, exiting>>
labVars     == <<studentId, expiry, removes, fate>>
dockerVars  == <<net, target, ctr, on>>
vars == <<loopVars, sessionVars, labVars, dockerVars, crashes>>

StopStages  == {"stopStudent", "stopTarget", "stopNet"}
StartStages == {"createNet", "createTarget", "connect", "startTarget",
                "storeLab"}
RunStages   == {"runCreate", "runStudent", "runStore"}

(* Types, and what the handlers dereference: st.lab is not nil while it is *)
(* stopped, and st.lab, lab.StudentID and labNetworkID are what StartLab   *)
(* and CreateInteractive returned.                                         *)
TypeOK ==
  /\ pc \in {"idle", "letGo", "closed", "boot", "bootLabs"}
            \union StopStages \union StartStages \union RunStages
  /\ then \in {"idle", "createNet", "runCreate", "closed"}
  /\ starting \in Labs \union {None}
  /\ running \in Students \union {None}
  /\ network \in Labs \union {None}
  /\ lab \in Labs \union {None}
  /\ cur \in Students \union {None}
  /\ studentId \in [Labs -> Students \union {None}]
  /\ expiry \in [Labs -> {"off", "waiting", "cancelled", "student", "target",
                          "net", "done"}]
  /\ fate \in [Labs -> {"unused", "starting", "started", "failed", "crashed"}]
  /\ loopRemoves \in Labs \union Students \union {None}
  /\ removes \in [Labs -> Labs \union Students \union {None}]
  /\ exiting \in Students \union {None}
  /\ net \in [Labs -> {"none", "up", "stray", "gone"}]
  /\ target \in [Labs -> {"none", "created", "running", "stray", "gone"}]
  /\ ctr \in [Students -> {"none", "running", "exited", "stray", "gone"}]
  /\ on \in [Students -> Labs \union {None}]
  /\ crashes \in 0 .. MaxCrashes
  /\ pc \in StopStages => lab # None
  /\ pc \in StartStages => starting # None /\ lab = None
  /\ pc \in RunStages => running # None
  /\ \A l \in {lab, network} \ {None} : fate[l] = "started"
  /\ \A l \in Labs : studentId[l] # None => ctr[studentId[l]] # "none"

Init ==
  /\ pc = "idle"
  /\ then = "idle"
  /\ starting = None
  /\ running = None
  /\ network = None
  /\ lab = None
  /\ cur = None
  /\ studentId = [l \in Labs |-> None]
  /\ expiry = [l \in Labs |-> "off"]
  /\ fate = [l \in Labs |-> "unused"]
  /\ loopRemoves = None
  /\ removes = [l \in Labs |-> None]
  /\ exiting = None
  /\ net = [l \in Labs |-> "none"]
  /\ target = [l \in Labs |-> "none"]
  /\ ctr = [s \in Students |-> "none"]
  /\ on = [s \in Students |-> None]
  /\ crashes = 0

-----------------------------------------------------------------------------
(* What becomes of what Docker is asked to remove.                         *)
Strays ==
  {l \in Labs : net[l] = "stray"} \union {l \in Labs : target[l] = "stray"}
    \union {s \in Students : ctr[s] = "stray"}

Outcomes ==
  IF Cardinality(Strays) < MaxStrays THEN {"gone", "stray"} ELSE {"gone"}

(* A forced removal, of a student or of a target: who asks waits until     *)
(* Docker has done it or refuses.                                          *)
Exists(c) ==
  \/ c \in Labs /\ target[c] \in {"created", "running", "stray"}
  \/ c \in Students /\ ctr[c] \in {"running", "exited", "stray"}

InProgress(c) ==
  c \in {loopRemoves, exiting} \/ \E l \in Labs : removes[l] = c

CanRemove(c) == Exists(c) /\ ~InProgress(c)

Ends(c) ==
  \E state \in Outcomes :
    /\ target' = IF c \in Labs THEN [target EXCEPT ![c] = state] ELSE target
    /\ ctr' = IF c \in Students THEN [ctr EXCEPT ![c] = state] ELSE ctr

(* The main loop removes c: it asks, it has its answer, or Docker has no   *)
(* such container or is removing it already, and it goes on at once.       *)
LoopRemoval(c, next) ==
  \/ /\ loopRemoves = None /\ CanRemove(c)
     /\ loopRemoves' = c
     /\ UNCHANGED <<pc, target, ctr>>
  \/ /\ loopRemoves # None
     /\ Ends(loopRemoves)
     /\ loopRemoves' = None
     /\ pc' = next
  \/ /\ loopRemoves = None /\ ~CanRemove(c)
     /\ pc' = next
     /\ UNCHANGED <<loopRemoves, target, ctr>>

(* The same, by the expiry goroutine of l.                                 *)
ExpiryRemoval(l, c, next) ==
  \/ /\ removes[l] = None /\ CanRemove(c)
     /\ removes' = [removes EXCEPT ![l] = c]
     /\ UNCHANGED <<expiry, target, ctr>>
  \/ /\ removes[l] # None
     /\ Ends(removes[l])
     /\ removes' = [removes EXCEPT ![l] = None]
     /\ expiry' = [expiry EXCEPT ![l] = next]
  \/ /\ removes[l] = None /\ ~CanRemove(c)
     /\ expiry' = [expiry EXCEPT ![l] = next]
     /\ UNCHANGED <<removes, target, ctr>>

(* What keeps network l in use; what is being removed from it by the exit  *)
(* goroutine may let go of it in time, or Docker refuses for good.         *)
Using(l) ==
  {t \in {l} : target[t] = "running"}
    \union {s \in Students : ctr[s] = "running" /\ on[s] = l}

(* destroyNetwork                                                          *)
DestroyNetwork(l) ==
  \/ /\ \A c \in Using(l) : InProgress(c)
     /\ \E state \in Outcomes :
          net' = [net EXCEPT ![l] = IF @ \in {"up", "stray"} THEN state ELSE @]
  \/ /\ \E c \in Using(l) : c # exiting
     /\ UNCHANGED net

(* st.mu is held across the calls of LetGo and those of a StopLab that is  *)
(* not a lab_stop's; the exit goroutine holds it while it removes.         *)
LoopHoldsMu == pc \in StopStages \union {"letGo"} /\ then # "idle"

MuIsFree == exiting = None

(* Every message is about a lab or a container that was not there before;  *)
(* which ID it is given makes no difference.                               *)
Fresh(l) ==
  fate[l] = "unused" /\ l = CHOOSE m \in Labs : fate[m] = "unused"

FreshRun(s) ==
  ctr[s] = "none" /\ s = CHOOSE r \in Students : ctr[r] = "none"

(* Leave the message handler: what its local variables held is gone.       *)
Return ==
  /\ pc' = "idle"
  /\ then' = "idle"
  /\ starting' = None
  /\ running' = None
  /\ network' = None
  /\ UNCHANGED loopRemoves

-----------------------------------------------------------------------------
(* Mutant: the lab there is is stopped without asking whether there is one.*)
LabStartUnchecked(l) ==
  /\ pc = "idle" /\ MuIsFree
  /\ Fresh(l)
  /\ fate' = [fate EXCEPT ![l] = "starting"]
  /\ starting' = l
  /\ then' = "createNet"
  /\ pc' = "stopStudent"
  /\ UNCHANGED <<running, network, loopRemoves, sessionVars, studentId, expiry,
                 removes, dockerVars, crashes>>

(* lab_start: stop the lab there is, then start the new one.               *)
LabStart(l) ==
  /\ pc = "idle" /\ MuIsFree
  /\ Fresh(l)
  /\ fate' = [fate EXCEPT ![l] = "starting"]
  /\ starting' = l
  /\ then' = "createNet"
  /\ pc' = IF lab = None THEN "createNet" ELSE "stopStudent"
  /\ UNCHANGED <<running, network, loopRemoves, sessionVars, studentId, expiry,
                 removes, dockerVars, crashes>>

(* lab_stop, or lab_start without a configuration. lab_stop sets st.lab to *)
(* nil first and stops what it was; nobody reads st.lab meanwhile.         *)
LabStop ==
  /\ pc = "idle" /\ MuIsFree
  /\ lab # None
  /\ then' = "idle"
  /\ pc' = "stopStudent"
  /\ UNCHANGED <<starting, running, network, loopRemoves, sessionVars, labVars,
                 dockerVars, crashes>>

(* StartLab, call by call. Every failure destroys the network, and none    *)
(* removes the target.                                                     *)
FailStart(l) ==
  /\ fate' = [fate EXCEPT ![l] = "failed"]
  /\ Return

CreateNetwork ==
  /\ pc = "createNet"
  /\ \/ /\ net' = [net EXCEPT ![starting] = "up"]
        /\ pc' = "createTarget"
        /\ UNCHANGED <<then, starting, running, network, loopRemoves, fate>>
     \/ UNCHANGED net /\ FailStart(starting)
  /\ UNCHANGED <<sessionVars, studentId, expiry, removes, target, ctr, on,
                 crashes>>

CreateTarget ==
  /\ pc = "createTarget"
  /\ \/ /\ target' = [target EXCEPT ![starting] = "created"]
        /\ pc' = "connect"
        /\ UNCHANGED <<then, starting, running, network, loopRemoves, fate, net>>
     \/ /\ DestroyNetwork(starting)
        /\ FailStart(starting)
        /\ UNCHANGED target
  /\ UNCHANGED <<sessionVars, studentId, expiry, removes, ctr, on, crashes>>

(* Mutant of Connect: its error branch returns without destroyNetwork.     *)
ConnectKeepsNetwork ==
  /\ pc = "connect"
  /\ \/ /\ pc' = "startTarget"
        /\ UNCHANGED <<then, starting, running, network, loopRemoves, fate, net>>
     \/ UNCHANGED net /\ FailStart(starting)
  /\ UNCHANGED <<sessionVars, studentId, expiry, removes, target, ctr, on,
                 crashes>>

Connect ==
  /\ pc = "connect"
  /\ \/ /\ pc' = "startTarget"
        /\ UNCHANGED <<then, starting, running, network, loopRemoves, fate, net>>
     \/ /\ DestroyNetwork(starting)
        /\ FailStart(starting)
  /\ UNCHANGED <<sessionVars, studentId, expiry, removes, target, ctr, on,
                 crashes>>

(* Mutant: an error of ContainerStart is logged and not returned.          *)
StartTargetIgnored ==
  /\ pc = "startTarget"
  /\ \E state \in {"created", "running"} :
       target' = [target EXCEPT ![starting] = state]
  /\ expiry' = [expiry EXCEPT ![starting] = "waiting"]
  /\ fate' = [fate EXCEPT ![starting] = "started"]
  /\ pc' = "storeLab"
  /\ UNCHANGED <<then, starting, running, network, loopRemoves, net,
                 sessionVars, studentId, removes, ctr, on, crashes>>

(* ... and the expiry goroutine is started with it.                        *)
StartTarget ==
  /\ pc = "startTarget"
  /\ \/ /\ target' = [target EXCEPT ![starting] = "running"]
        /\ expiry' = [expiry EXCEPT ![starting] = "waiting"]
        /\ fate' = [fate EXCEPT ![starting] = "started"]
        /\ pc' = "storeLab"
        /\ UNCHANGED <<then, starting, running, network, loopRemoves, net>>
     \/ /\ DestroyNetwork(starting)
        /\ FailStart(starting)
        /\ UNCHANGED <<target, expiry>>
  /\ UNCHANGED <<sessionVars, studentId, removes, ctr, on, crashes>>

StoreLab ==
  /\ pc = "storeLab" /\ MuIsFree
  /\ lab' = starting
  /\ Return
  /\ UNCHANGED <<cur, exiting, labVars, dockerVars, crashes>>

-----------------------------------------------------------------------------
(* Mutant: nothing to stop when no student joined the lab.                 *)
StopStudentOrReturn ==
  /\ pc = "stopStudent"
  /\ expiry' = [expiry EXCEPT ![lab] = IF @ = "waiting" THEN "cancelled" ELSE @]
  /\ IF studentId[lab] = None
     THEN pc' = then /\ lab' = None /\ UNCHANGED <<loopRemoves, target, ctr>>
     ELSE LoopRemoval(studentId[lab], "stopTarget") /\ UNCHANGED lab
  /\ UNCHANGED <<then, starting, running, network, cur, exiting, studentId,
                 removes, fate, net, on, crashes>>

(* StopLab in the main loop: cancel the expiry goroutine, remove the       *)
(* student, the target, the network. st.lab is nil in the end.             *)
StopStudent ==
  /\ pc = "stopStudent"
  /\ expiry' = [expiry EXCEPT ![lab] = IF @ = "waiting" THEN "cancelled" ELSE @]
  /\ LoopRemoval(studentId[lab], "stopTarget")
  /\ UNCHANGED <<then, starting, running, network, sessionVars, studentId,
                 removes, fate, net, on, crashes>>

StopTarget ==
  /\ pc = "stopTarget"
  /\ LoopRemoval(lab, "stopNet")
  /\ UNCHANGED <<then, starting, running, network, sessionVars, labVars, net,
                 on, crashes>>

StopNet ==
  /\ pc = "stopNet"
  /\ DestroyNetwork(lab)
  /\ lab' = None
  /\ pc' = then
  /\ UNCHANGED <<then, starting, running, network, loopRemoves, cur, exiting,
                 labVars, target, ctr, on, crashes>>

-----------------------------------------------------------------------------
(* Where the end of the connection goes once st.session is let go of.      *)
Leave == IF lab = None THEN "closed" ELSE "stopStudent"

(* Let go of st.session, under st.mu.                                      *)
LetGo ==
  /\ pc = "letGo"
  /\ LoopRemoval(cur, IF then = "closed" THEN Leave ELSE then)
  /\ cur' = IF pc' = "letGo" THEN cur ELSE None
  /\ UNCHANGED <<then, starting, running, network, lab, exiting, labVars, net,
                 on, crashes>>

(* A "run" message: replace the session and read the lab's network ...     *)
Run(s) ==
  /\ pc = "idle" /\ MuIsFree
  /\ FreshRun(s)
  /\ running' = s
  /\ network' = lab
  /\ then' = "runCreate"
  /\ pc' = IF cur = None THEN "runCreate" ELSE "letGo"
  /\ UNCHANGED <<starting, loopRemoves, sessionVars, labVars, dockerVars,
                 crashes>>

(* ... create and start the container, on the network if there is one (a   *)
(* failure undoes what it did: see Containers) ...                         *)
RunCreate ==
  /\ pc = "runCreate"
  /\ \/ /\ network # None => net[network] \in {"up", "stray"}
        /\ ctr' = [ctr EXCEPT ![running] = "running"]
        /\ on' = [on EXCEPT ![running] = network]
        /\ pc' = "runStudent"
        /\ UNCHANGED <<then, starting, running, network, loopRemoves>>
     \/ Return /\ UNCHANGED <<ctr, on>>
  /\ UNCHANGED <<sessionVars, labVars, net, target, crashes>>

(* Mutant: only the first student of a lab is noted.                       *)
RunStudentOnce ==
  /\ pc = "runStudent"
  /\ studentId' = IF lab = None THEN studentId
                  ELSE [studentId EXCEPT ![lab] = IF @ = None THEN running
                                                  ELSE @]
  /\ pc' = "runStore"
  /\ UNCHANGED <<then, starting, running, network, loopRemoves, sessionVars,
                 expiry, removes, fate, dockerVars, crashes>>

(* ... note it in the lab, without a lock: the expiry goroutine, which     *)
(* reads the field, may see it before or after, or half of it and crash    *)
(* the process (which Crash covers) ...                                    *)
RunStudent ==
  /\ pc = "runStudent"
  /\ studentId' = IF lab = None THEN studentId
                  ELSE [studentId EXCEPT ![lab] = running]
  /\ pc' = "runStore"
  /\ UNCHANGED <<then, starting, running, network, loopRemoves, sessionVars,
                 expiry, removes, fate, dockerVars, crashes>>

(* ... and store the session.                                              *)
RunStore ==
  /\ pc = "runStore"
  /\ cur' = running
  /\ Return
  /\ UNCHANGED <<lab, exiting, labVars, dockerVars, crashes>>

(* The program ends; one whose container is being removed ends with it.    *)
StudentEnds(s) ==
  /\ ctr[s] = "running" /\ ~InProgress(s)
  /\ ctr' = [ctr EXCEPT ![s] = "exited"]
  /\ UNCHANGED <<loopVars, sessionVars, labVars, net, target, on, crashes>>

(* The exit goroutine of the current run removes it, when its program has  *)
(* ended, when somebody else has removed it, or, with the program still    *)
(* running, when the kill timer has cut its output off.                    *)
ExitCleans(s) ==
  /\ \/ /\ MuIsFree /\ ~LoopHoldsMu
        /\ cur = s /\ CanRemove(s)
        /\ exiting' = s
        /\ UNCHANGED <<cur, target, ctr>>
     \/ /\ exiting = s
        /\ Ends(s)
        /\ exiting' = None
        /\ cur' = None
     \/ /\ MuIsFree /\ ~LoopHoldsMu
        /\ cur = s /\ ~CanRemove(s)
        /\ cur' = None
        /\ UNCHANGED <<exiting, target, ctr>>
  /\ UNCHANGED <<loopVars, lab, labVars, net, on, crashes>>

(* Mutant of Close: the lab is left to its expiry goroutine.               *)
CloseLeavesLab ==
  /\ pc = "idle" /\ MuIsFree
  /\ then' = "closed"
  /\ pc' = IF cur = None THEN "closed" ELSE "letGo"
  /\ lab' = None
  /\ UNCHANGED <<starting, running, network, loopRemoves, cur, exiting, labVars,
                 dockerVars, crashes>>

(* The connection ends.                                                    *)
Close ==
  /\ pc = "idle" /\ MuIsFree
  /\ then' = "closed"
  /\ pc' = IF cur = None THEN Leave ELSE "letGo"
  /\ UNCHANGED <<starting, running, network, loopRemoves, sessionVars, labVars,
                 dockerVars, crashes>>

-----------------------------------------------------------------------------
(* The expiry goroutine. When the timeout and the cancellation are both    *)
(* there its select may take either. It leaves st.lab as it is.            *)
ExpiryFires(l) ==
  /\ expiry[l] \in {"waiting", "cancelled"}
  /\ expiry' = [expiry EXCEPT ![l] = "student"]
  /\ UNCHANGED <<loopVars, sessionVars, studentId, removes, fate, dockerVars,
                 crashes>>

ExpiryCancelled(l) ==
  /\ expiry[l] = "cancelled"
  /\ expiry' = [expiry EXCEPT ![l] = "done"]
  /\ UNCHANGED <<loopVars, sessionVars, studentId, removes, fate, dockerVars,
                 crashes>>

ExpiryStudent(l) ==
  /\ expiry[l] = "student"
  /\ ExpiryRemoval(l, studentId[l], "target")
  /\ UNCHANGED <<loopVars, sessionVars, studentId, fate, net, on, crashes>>

ExpiryTarget(l) ==
  /\ expiry[l] = "target"
  /\ ExpiryRemoval(l, l, "net")
  /\ UNCHANGED <<loopVars, sessionVars, studentId, fate, net, on, crashes>>

ExpiryNet(l) ==
  /\ expiry[l] = "net"
  /\ DestroyNetwork(l)
  /\ expiry' = [expiry EXCEPT ![l] = "done"]
  /\ UNCHANGED <<loopVars, sessionVars, studentId, removes, fate, target, ctr,
                 on, crashes>>

Expiry(l) ==
  \/ ExpiryFires(l) \/ ExpiryCancelled(l) \/ ExpiryStudent(l)
  \/ ExpiryTarget(l) \/ ExpiryNet(l)

-----------------------------------------------------------------------------
(* The process dies, and with it every goroutine and the table of labs. A  *)
(* removal Docker was asked for it finishes or drops. (With no lab to lose *)
(* that is but another beginning, and left out.)                           *)
Crash ==
  /\ crashes < MaxCrashes
  /\ \E l \in Labs : fate[l] \in {"starting", "started"}
  /\ pc \notin {"boot", "bootLabs"}
  /\ crashes' = crashes + 1
  /\ pc' = "boot"
  /\ then' = "idle"
  /\ starting' = None
  /\ running' = None
  /\ network' = None
  /\ loopRemoves' = None
  /\ lab' = None
  /\ cur' = None
  /\ exiting' = None
  /\ studentId' = [l \in Labs |-> None]
  /\ expiry' = [l \in Labs |-> "done"]
  /\ removes' = [l \in Labs |-> None]
  /\ fate' = [l \in Labs |->
                IF fate[l] \in {"starting", "started"} THEN "crashed"
                ELSE fate[l]]
  /\ \E finished \in SUBSET {c \in Labs \union Students : InProgress(c)} :
       /\ target' = [l \in Labs |-> IF l \in finished THEN "gone" ELSE target[l]]
       /\ ctr' = [s \in Students |-> IF s \in finished THEN "gone" ELSE ctr[s]]
  /\ UNCHANGED <<net, on>>

(* CleanupOrphanedContainers: the student containers old enough. Targets   *)
(* are left to the lab manager.                                            *)
Boot ==
  /\ pc = "boot"
  /\ \E old \in SUBSET {s \in Students : Exists(s)} :
       \E state \in [old -> Outcomes] :
         ctr' = [s \in Students |-> IF s \in old THEN state[s] ELSE ctr[s]]
  /\ pc' = "bootLabs"
  /\ UNCHANGED <<then, starting, running, network, loopRemoves, sessionVars,
                 labVars, net, target, on, crashes>>

(* CleanupOrphanedLabs: every network of a lab.                            *)
BootLabs ==
  /\ pc = "bootLabs"
  /\ \E state \in [Labs -> Outcomes] :
       net' = [l \in Labs |->
                 IF net[l] \in {"up", "stray"} /\ Using(l) = {} THEN state[l]
                 ELSE net[l]]
  /\ pc' = "idle"
  /\ UNCHANGED <<then, starting, running, network, loopRemoves, sessionVars,
                 labVars, target, ctr, on, crashes>>

-----------------------------------------------------------------------------
MainStep ==
  \/ CreateNetwork \/ CreateTarget \/ Connect \/ StartTarget \/ StoreLab
  \/ LetGo \/ StopStudent \/ StopTarget \/ StopNet
  \/ RunCreate \/ RunStudent \/ RunStore
  \/ Boot \/ BootLabs

Next ==
  \/ \E l \in Labs : LabStart(l) \/ Expiry(l)
  \/ \E s \in Students : Run(s) \/ StudentEnds(s) \/ ExitCleans(s)
  \/ LabStop
  \/ Close
  \/ MainStep
  \/ Crash

Spec == Init /\ [][Next]_vars

(* Goroutines that can run do, Docker answers, timeouts elapse. Nothing    *)
(* obliges the client to send messages or to leave, or the process to      *)
(* crash.                                                                  *)
Fairness ==
  /\ WF_vars(MainStep)
  /\ \A l \in Labs : WF_vars(Expiry(l))

FairSpec == Spec /\ Fairness

-----------------------------------------------------------------------------
(* A lab that was not stopped and has not expired can be used: its network *)
(* is up and its target runs. No other lab's end, no failed start, and no  *)
(* late expiry goroutine takes it away.                                    *)
LabUsable ==
  (lab # None /\ expiry[lab] = "waiting" /\ pc \notin StopStages)
    => net[lab] = "up" /\ target[lab] = "running"

(* "StopLab destroys all containers and the network for a lab session":    *)
(* when the main loop has stopped a lab, what is left of it is what Docker *)
(* refused to remove, or what another goroutine is removing that moment:   *)
(* the target and the network only the lab's expiry goroutine, which goes  *)
(* on to the network itself, the run that joined also its exit goroutine.  *)
StopDestroys ==
  [][(pc = "stopNet" /\ crashes' = crashes)
       => \A l \in Labs :
            (lab = l /\ lab' = None)
              => /\ net'[l] \in {"gone", "stray"} \/ removes'[l] # None
                 /\ target'[l] \in {"gone", "stray"} \/ removes'[l] = l
                 /\ \A s \in Students :
                      ctr'[s] = "running" /\ on'[s] = l
                        => s \in {removes'[l], exiting'}]_vars

(* No lab is left to itself: as long as a process lives, a network that is *)
(* up, or a target that runs, is that of the session's lab, or of the lab  *)
(* being started, or its expiry goroutine will still remove it. A start    *)
(* that fails at any call, a stop, an expiry, the end of the connection,   *)
(* and the refusal one of two of them gets for asking at the same time,    *)
(* leave neither, unless Docker itself refuses; what a failed start leaves *)
(* is a target that was never started, on no network.                      *)
NoLabLeak ==
  \A l \in Labs :
    fate[l] # "crashed" /\ l \notin {lab, starting}
      => /\ net[l] = "up"
              => removes[l] # None \/ expiry[l] \in {"target", "net"}
         /\ target[l] = "running" => removes[l] = l

(* A target never outlives the timeout of its lab by more than the time it *)
(* takes to stop it, if the process survives and Docker does not refuse to *)
(* remove it: of two that ask at the same time, one is heard.              *)
TargetExpires ==
  \A l \in Labs :
    (fate[l] = "started")
      ~> (target[l] \in {"gone", "stray"} \/ fate[l] = "crashed")

(* A connection that is closed leaves no network behind, unless Docker     *)
(* refuses to remove it: not even that of a lab whose expiry could not     *)
(* because a run had just joined, or is at work on it as the connection    *)
(* ends.                                                                   *)
ClosedLeavesNoLab ==
  (pc = "closed")
    ~> \A l \in Labs : fate[l] = "started" => net[l] \in {"gone", "stray"}

-----------------------------------------------------------------------------
(* As the comment has it (violated, see the README): CleanupOrphanedLabs   *)
(* "removes Docker networks and containers from crashed lab sessions".     *)
CrashedLabsRemoved ==
  [][pc = "bootLabs"
       => \A l \in Labs :
            fate[l] = "crashed"
              => net'[l] # "up" /\ target'[l] \notin {"created", "running"}]_vars

=============================================================================
