----------------------------- MODULE LabProofs ------------------------------
(***************************************************************************)
(* Proofs about Lab, for any number of labs, runs, crashes and refusals: a *)
(* lab that was neither stopped nor has expired can be used, and unless    *)
(* Docker itself refuses, a lab the main loop has stopped leaves nothing   *)
(* but what another goroutine is just removing, no network or running      *)
(* target is left to itself, and no target is without somebody who will    *)
(* remove it.                                                              *)
(***************************************************************************)
EXTENDS Lab, TLAPS

Starting == {"createNet", "createTarget", "connect", "startTarget"}

(* What the main loop knows of the lab it starts and the run it creates.   *)
(* Nobody else writes st.lab, so the network it read is that of st.lab.    *)
Handling ==
  /\ pc \in Starting \/ (pc \in StopStages /\ then = "createNet")
       => starting # None /\ fate[starting] = "starting"
  /\ pc = "storeLab" => fate[starting] = "started"
  /\ pc \in Starting \ {"createNet"} => net[starting] = "up"
  /\ pc \in Starting => target[starting] # "running"
  /\ pc = "createNet" \/ (pc \in StopStages /\ then = "createNet")
       => net[starting] = "none" /\ target[starting] = "none"
  /\ starting # None
       => pc \in StartStages \/ (pc \in StopStages /\ then = "createNet")
  /\ pc \in StopStages => then # "runCreate"
  /\ pc = "stopNet" => target[lab] \in {"gone", "stray"} \/ removes[lab] = lab
  /\ pc \in RunStages => cur = None
  /\ pc = "letGo" => then \in {"runCreate", "closed"}
  /\ pc = "runCreate" \/ (pc = "letGo" /\ then = "runCreate")
       => running # None /\ network = lab /\ ctr[running] = "none"
  /\ pc \in {"runStudent", "runStore"} => ctr[running] # "none"
  /\ pc = "runStudent" => on[running] = lab
  /\ pc \in {"boot", "bootLabs"} => lab = None

(* What is being removed: by the main loop the session's run or what       *)
(* belongs to st.lab, by an expiry goroutine what belongs to its lab, by   *)
(* the exit goroutine the session's run, which nobody replaces meanwhile.  *)
Removing ==
  /\ loopRemoves \in Labs => pc = "stopTarget" /\ lab = loopRemoves
  /\ loopRemoves \in Students
       => \/ pc = "letGo" /\ cur = loopRemoves
          \/ pc = "stopStudent" /\ studentId[lab] = loopRemoves
  /\ exiting # None => cur = exiting /\ ~LoopHoldsMu
  /\ cur # None => ctr[cur] # "none"
  /\ \A l \in Labs :
       /\ removes[l] \in Labs => removes[l] = l /\ expiry[l] = "target"
       /\ removes[l] \in Students
            => /\ expiry[l] = "student"
               /\ on[removes[l]] = l /\ ctr[removes[l]] # "none"
       /\ studentId[l] # None => on[studentId[l]] = l

(* What there is of a lab, and when it is whole.                           *)
Whole(l) ==
  /\ fate[l] \in {"unused", "starting", "failed"} => expiry[l] \in {"off", "done"}
  /\ fate[l] = "unused" => net[l] = "none" /\ target[l] = "none"
  /\ fate[l] = "started"
       => net[l] # "none" /\ target[l] \in {"running", "gone", "stray"}
  /\ /\ l = lab \/ (pc = "storeLab" /\ l = starting)
     /\ expiry[l] = "waiting"
     /\ pc \notin StopStages
     => net[l] = "up" /\ target[l] = "running"

(* A run on the network of a lab that was started is being removed by the  *)
(* expiry goroutine of that lab or by the exit goroutine; or the lab is    *)
(* st.lab, which knows it as its student, or is about to, and it is the    *)
(* run of the session, or is about to be: there is no second one.          *)
Joined(s) ==
  \A l \in Labs :
    ctr[s] = "running" /\ on[s] = l =>
      /\ fate[l] \in {"started", "crashed"}
      /\ fate[l] = "started" =>
           \/ s \in {removes[l], exiting}
           \/ /\ lab = l
              /\ \/ pc = "runStudent" /\ running = s
                 \/ pc \notin {"stopTarget", "stopNet"} /\ studentId[l] = s
              /\ \/ s \in {cur, loopRemoves}
                 \/ pc \in {"runStudent", "runStore"} /\ running = s

IInv ==
  /\ TypeOK
  /\ Handling
  /\ Removing
  /\ \A l \in Labs : Whole(l)
  /\ \A s \in Students : Joined(s)
  /\ NoLabLeak

-----------------------------------------------------------------------------
LEMMA InitHolds == Init => IInv
BY LabAssumption
   DEF Init, IInv, TypeOK, Handling, Removing, Whole, Joined, NoLabLeak,
       StopStages, StartStages, RunStages, Starting

LEMMA OutcomesAre == Outcomes \subseteq {"gone", "stray"}
BY DEF Outcomes

(* A message is taken up: nothing changes in Docker.                       *)
LEMMA MessagesKeep ==
  ASSUME IInv,
         \/ \E l \in Labs : LabStart(l)
         \/ \E s \in Students : Run(s)
         \/ LabStop
         \/ Close
  PROVE  IInv'
<1> USE LabAssumption
    DEF IInv, loopVars, sessionVars, labVars, dockerVars, StopStages,
        StartStages, RunStages, Starting, MuIsFree, LoopHoldsMu
<1>1. ASSUME NEW m \in Labs, LabStart(m) PROVE IInv'
  <2> USE <1>1 DEF LabStart, Fresh
  <2>1. TypeOK'
    BY DEF TypeOK
  <2>2. Handling'
    BY DEF TypeOK, Handling, Whole
  <2>3. Removing'
    BY DEF TypeOK, Removing
  <2>4. ASSUME NEW l \in Labs PROVE Whole(l)'
    BY DEF TypeOK, Whole
  <2>5. ASSUME NEW s \in Students PROVE Joined(s)'
    BY DEF TypeOK, Joined
  <2>6. NoLabLeak'
    BY DEF TypeOK, Handling, NoLabLeak
  <2> QED
    BY <2>1, <2>2, <2>3, <2>4, <2>5, <2>6
<1>2. CASE LabStop \/ Close \/ \E s \in Students : Run(s)
  <2> USE <1>2 DEF LabStop, Close, Run, FreshRun, Leave
  <2>1. TypeOK'
    BY DEF TypeOK
  <2>2. Handling'
    BY DEF TypeOK, Handling
  <2>3. Removing'
    BY DEF TypeOK, Removing
  <2>4. ASSUME NEW l \in Labs PROVE Whole(l)'
    BY DEF TypeOK, Whole
  <2>5. ASSUME NEW s \in Students PROVE Joined(s)'
    BY DEF TypeOK, Joined
  <2>6. NoLabLeak'
    BY DEF TypeOK, Handling, NoLabLeak
  <2> QED
    BY <2>1, <2>2, <2>3, <2>4, <2>5, <2>6
<1> QED
  BY <1>1, <1>2

(* What destroyNetwork leaves: the network goes, or is in use by somebody  *)
(* other than a container that the exit goroutine is removing.             *)
LEMMA NetworksGo ==
  ASSUME TypeOK, NEW l \in Labs, DestroyNetwork(l)
  PROVE  /\ net' \in [Labs -> {"none", "up", "stray", "gone"}]
         /\ \A m \in Labs : m # l => net'[m] = net[m]
         /\ net[l] = "none" <=> net'[l] = "none"
         /\ net'[l] = "up" => net[l] = "up" /\ \E c \in Using(l) : c # exiting
BY OutcomesAre DEF TypeOK, DestroyNetwork, InProgress

(* What a removal leaves.                                                  *)
LEMMA RemovalsEnd ==
  ASSUME TypeOK, NEW c \in Labs \union Students, Ends(c)
  PROVE  /\ target' \in [Labs -> {"none", "created", "running", "stray", "gone"}]
         /\ ctr' \in [Students -> {"none", "running", "exited", "stray", "gone"}]
         /\ c \in Labs => /\ target'[c] \in {"gone", "stray"}
                          /\ UNCHANGED ctr
                          /\ \A m \in Labs : m # c => target'[m] = target[m]
         /\ c \in Students => /\ ctr'[c] \in {"gone", "stray"}
                              /\ UNCHANGED target
                              /\ \A s \in Students : s # c => ctr'[s] = ctr[s]
BY OutcomesAre, LabAssumption DEF TypeOK, Ends

(* A start that fails leaves no network: nothing runs on it yet.           *)
LEMMA FailedStartLeavesNone ==
  ASSUME IInv, pc \in Starting \ {"createNet"}, DestroyNetwork(starting)
  PROVE  /\ net' \in [Labs -> {"none", "up", "stray", "gone"}]
         /\ \A m \in Labs : m # starting => net'[m] = net[m]
         /\ net'[starting] \in {"gone", "stray"}
<1>1. starting \in Labs /\ net[starting] = "up" /\ TypeOK
  BY DEF IInv, TypeOK, Handling, Starting
<1>2. Using(starting) = {}
  BY DEF IInv, TypeOK, Handling, Joined, Using, Starting
<1> QED
  BY <1>1, <1>2, NetworksGo DEF TypeOK

(* StartLab: until it returns the lab is not st.lab, and nobody else       *)
(* touches its network and target.                                         *)
LEMMA StartsKeep ==
  ASSUME IInv, CreateNetwork \/ CreateTarget \/ Connect \/ StartTarget \/ StoreLab
  PROVE  IInv'
<1> USE LabAssumption
    DEF IInv, loopVars, sessionVars, labVars, dockerVars, StopStages,
        StartStages, RunStages, Starting, MuIsFree, LoopHoldsMu, FailStart,
        Return
<1>0. /\ net' \in [Labs -> {"none", "up", "stray", "gone"}]
      /\ \A m \in Labs : m # starting => net'[m] = net[m]
      /\ pc = "createNet" => net'[starting] = IF pc' = "idle" THEN "none" ELSE "up"
      /\ pc # "createNet"
           => IF pc' = "idle" /\ pc # "storeLab"
              THEN net'[starting] \in {"gone", "stray"}
              ELSE net' = net
  BY FailedStartLeavesNone
     DEF TypeOK, Handling, CreateNetwork, CreateTarget, Connect, StartTarget,
         StoreLab
<1>1. TypeOK'
  <2>1. CASE CreateNetwork
    BY <1>0, <2>1 DEF TypeOK, CreateNetwork
  <2>2. CASE CreateTarget
    BY <1>0, <2>2 DEF TypeOK, CreateTarget
  <2>3. CASE Connect
    BY <1>0, <2>3 DEF TypeOK, Connect
  <2>4. CASE StartTarget
    BY <1>0, <2>4 DEF TypeOK, StartTarget
  <2>5. CASE StoreLab
    BY <2>5 DEF TypeOK, Handling, StoreLab
  <2> QED
    BY <2>1, <2>2, <2>3, <2>4, <2>5
<1>2. Handling'
  BY <1>0 DEF TypeOK, Handling, CreateNetwork, CreateTarget, Connect,
              StartTarget, StoreLab
<1>3. Removing'
  BY DEF TypeOK, Handling, Whole, Removing, CreateNetwork, CreateTarget,
         Connect, StartTarget, StoreLab
<1>4. ASSUME NEW l \in Labs PROVE Whole(l)'
  BY <1>0 DEF TypeOK, Handling, Whole, CreateNetwork, CreateTarget, Connect,
              StartTarget, StoreLab
<1>5. ASSUME NEW s \in Students PROVE Joined(s)'
  BY DEF TypeOK, Handling, Joined, CreateNetwork, CreateTarget, Connect,
         StartTarget, StoreLab
<1>6. NoLabLeak'
  BY <1>0 DEF TypeOK, Handling, Whole, NoLabLeak, CreateNetwork, CreateTarget,
              Connect, StartTarget, StoreLab
<1> QED
  BY <1>1, <1>2, <1>3, <1>4, <1>5, <1>6

(* StopLab in the main loop: what it has removed when it goes on is gone,  *)
(* refused by Docker, or being removed by another goroutine.               *)
LEMMA StopStudentKeeps ==
  ASSUME IInv, StopStudent
  PROVE  IInv'
<1> USE LabAssumption
    DEF IInv, loopVars, sessionVars, labVars, dockerVars, StopStages,
        StartStages, RunStages, Starting, MuIsFree, LoopHoldsMu
<1>1. /\ pc = "stopStudent" /\ lab \in Labs /\ UNCHANGED target
      /\ ctr' \in [Students -> {"none", "running", "exited", "stray", "gone"}]
      /\ \A s \in Students : ctr'[s] = ctr[s] \/ ctr'[s] \in {"gone", "stray"}
      /\ \A s \in Students : ctr[s] # "none" => ctr'[s] # "none"
      /\ \A s \in Students :
           ctr[s] = "none" /\ ctr'[s] # "none" => s = studentId[lab]
      /\ loopRemoves' \in {None, studentId[lab]}
      /\ \/ pc' = "stopStudent" /\ loopRemoves' \in Students
         \/ /\ pc' = "stopTarget" /\ loopRemoves' = None
            /\ studentId[lab] # None /\ ctr'[studentId[lab]] = "running"
                 => InProgress(studentId[lab]) /\ loopRemoves = None
  BY RemovalsEnd DEF StopStudent, LoopRemoval, CanRemove, Exists, TypeOK, Removing
<1>2. TypeOK'
  BY <1>1 DEF TypeOK, StopStudent
<1>3. Handling'
  BY <1>1 DEF TypeOK, Handling, StopStudent
<1>4. Removing'
  BY <1>1 DEF TypeOK, Handling, Removing, StopStudent
<1>5. ASSUME NEW l \in Labs PROVE Whole(l)'
  BY <1>1 DEF TypeOK, Whole, StopStudent
<1>6. ASSUME NEW s \in Students PROVE Joined(s)'
  BY <1>1 DEF TypeOK, Joined, Removing, InProgress, StopStudent
<1>7. NoLabLeak'
  BY <1>1 DEF TypeOK, NoLabLeak, StopStudent
<1> QED
  BY <1>2, <1>3, <1>4, <1>5, <1>6, <1>7

LEMMA StopTargetKeeps ==
  ASSUME IInv, StopTarget
  PROVE  IInv'
<1> USE LabAssumption
    DEF IInv, loopVars, sessionVars, labVars, dockerVars, StopStages,
        StartStages, RunStages, Starting, MuIsFree, LoopHoldsMu
<1>1. /\ pc = "stopTarget" /\ lab \in Labs /\ UNCHANGED ctr
      /\ target' \in [Labs -> {"none", "created", "running", "stray", "gone"}]
      /\ \A l \in Labs : l # lab => target'[l] = target[l]
      /\ target'[lab] = target[lab] \/ target'[lab] \in {"gone", "stray"}
      /\ \/ pc' = "stopTarget" /\ loopRemoves' = lab
         \/ /\ pc' = "stopNet" /\ loopRemoves' = None
            /\ target'[lab] = "running" => InProgress(lab) /\ loopRemoves = None
  BY RemovalsEnd DEF StopTarget, LoopRemoval, CanRemove, Exists, TypeOK, Removing
<1>2. TypeOK'
  BY <1>1 DEF TypeOK, StopTarget
<1>3. Handling'
  BY <1>1 DEF TypeOK, Handling, Removing, Whole, InProgress, StopTarget
<1>4. Removing'
  BY <1>1 DEF TypeOK, Handling, Removing, StopTarget
<1>5. ASSUME NEW l \in Labs PROVE Whole(l)'
  BY <1>1 DEF TypeOK, Whole, StopTarget
<1>6. ASSUME NEW s \in Students PROVE Joined(s)'
  BY <1>1 DEF TypeOK, Joined, Removing, StopTarget
<1>7. NoLabLeak'
  BY <1>1 DEF TypeOK, NoLabLeak, StopTarget
<1> QED
  BY <1>2, <1>3, <1>4, <1>5, <1>6, <1>7

(* What is on the network of a lab the main loop is about to let go of.    *)
LEMMA StopLeaves ==
  ASSUME IInv, pc = "stopNet"
  PROVE  /\ lab \in Labs /\ fate[lab] = "started" /\ net[lab] # "none"
         /\ target[lab] \in {"gone", "stray"} \/ removes[lab] = lab
         /\ \A s \in Students : ctr[s] = "running" /\ on[s] = lab
                                  => s \in {removes[lab], exiting}
         /\ \A c \in Using(lab) : c \in {removes[lab], exiting}
<1>1. /\ lab \in Labs /\ fate[lab] = "started" /\ net[lab] # "none"
      /\ target[lab] \in {"gone", "stray"} \/ removes[lab] = lab
  BY LabAssumption DEF IInv, TypeOK, Handling, Whole, StopStages
<1>2. ASSUME NEW s \in Students, ctr[s] = "running", on[s] = lab
      PROVE  s \in {removes[lab], exiting}
  BY <1>1, <1>2 DEF IInv, Joined
<1> QED
  BY <1>1, <1>2 DEF Using

LEMMA StopNetKeeps ==
  ASSUME IInv, StopNet
  PROVE  IInv'
<1> USE LabAssumption
    DEF IInv, loopVars, sessionVars, labVars, dockerVars, StopStages,
        StartStages, RunStages, Starting, MuIsFree, LoopHoldsMu
<1>1. /\ lab \in Labs /\ fate[lab] = "started"
      /\ target[lab] = "running" => removes[lab] = lab
      /\ \A s \in Students : ctr[s] = "running" /\ on[s] = lab
                               => s \in {removes[lab], exiting}
      /\ net'[lab] = "up" => removes[lab] # None
      /\ net' \in [Labs -> {"none", "up", "stray", "gone"}]
      /\ \A m \in Labs : m # lab => net'[m] = net[m]
      /\ net'[lab] # "none"
  BY StopLeaves, NetworksGo DEF StopNet, TypeOK, Using
<1>2. TypeOK'
  BY <1>1 DEF TypeOK, Handling, StopNet
<1>3. Handling'
  BY <1>1 DEF TypeOK, Handling, StopNet
<1>4. Removing'
  BY <1>1 DEF TypeOK, Handling, Removing, StopNet
<1>5. ASSUME NEW l \in Labs PROVE Whole(l)'
  BY <1>1 DEF TypeOK, Handling, Whole, StopNet
<1>6. ASSUME NEW s \in Students PROVE Joined(s)'
  BY <1>1 DEF TypeOK, Joined, StopNet
<1>7. NoLabLeak'
  BY <1>1 DEF TypeOK, NoLabLeak, StopNet
<1> QED
  BY <1>2, <1>3, <1>4, <1>5, <1>6, <1>7

(* The session's run is let go of, by the next "run" message or at the end *)
(* of the connection.                                                      *)
LEMMA LetGoKeeps ==
  ASSUME IInv, LetGo
  PROVE  IInv'
<1> USE LabAssumption
    DEF IInv, loopVars, sessionVars, labVars, dockerVars, StopStages,
        StartStages, RunStages, Starting, MuIsFree, LoopHoldsMu
<1>1. /\ pc = "letGo" /\ UNCHANGED target /\ exiting = None
      /\ ctr' \in [Students -> {"none", "running", "exited", "stray", "gone"}]
      /\ \A s \in Students : ctr'[s] = ctr[s] \/ ctr'[s] \in {"gone", "stray"}
      /\ \A s \in Students : ctr[s] = "none" <=> ctr'[s] = "none"
      /\ \/ pc' = "letGo" /\ loopRemoves' = cur /\ cur \in Students /\ cur' = cur
         \/ /\ pc' = IF then = "closed" THEN Leave ELSE then
            /\ loopRemoves' = None /\ cur' = None
            /\ cur # None /\ ctr'[cur] = "running"
                 => InProgress(cur) /\ loopRemoves = None
  <2>1. exiting = None /\ (cur # None => ctr[cur] # "none")
    BY DEF LetGo, Removing, Handling
  <2> QED
    BY <2>1, RemovalsEnd
       DEF LetGo, LoopRemoval, CanRemove, Exists, TypeOK, Removing, Leave, Handling
<1>2. TypeOK'
  BY <1>1 DEF TypeOK, Handling, Leave, LetGo
<1>3. Handling'
  BY <1>1 DEF TypeOK, Handling, Leave, LetGo
<1>4. Removing'
  BY <1>1 DEF TypeOK, Handling, Removing, LetGo
<1>5. ASSUME NEW l \in Labs PROVE Whole(l)'
  BY <1>1 DEF TypeOK, Handling, Whole, Leave, LetGo
<1>6. ASSUME NEW s \in Students PROVE Joined(s)'
  BY <1>1 DEF TypeOK, Handling, Joined, Removing, InProgress, Leave, LetGo
<1>7. NoLabLeak'
  BY <1>1 DEF TypeOK, NoLabLeak, LetGo
<1> QED
  BY <1>2, <1>3, <1>4, <1>5, <1>6, <1>7

(* A run joins the network of st.lab.                                      *)
LEMMA RunsKeep ==
  ASSUME IInv, RunCreate \/ RunStudent \/ RunStore
  PROVE  IInv'
<1> USE LabAssumption
    DEF IInv, loopVars, sessionVars, labVars, dockerVars, StopStages,
        StartStages, RunStages, Starting, MuIsFree, LoopHoldsMu, Return
<1>1. TypeOK'
  <2>1. CASE RunCreate
    BY <2>1 DEF TypeOK, RunCreate
  <2>2. CASE RunStudent
    BY <2>2 DEF TypeOK, Handling, RunStudent
  <2>3. CASE RunStore
    BY <2>3 DEF TypeOK, RunStore
  <2> QED
    BY <2>1, <2>2, <2>3
<1>2. Handling'
  BY DEF TypeOK, Handling, RunCreate, RunStudent, RunStore
<1>3. Removing'
  BY DEF TypeOK, Handling, Removing, RunCreate, RunStudent, RunStore
<1>4. ASSUME NEW l \in Labs PROVE Whole(l)'
  BY DEF TypeOK, Whole, RunCreate, RunStudent, RunStore
<1>5. ASSUME NEW s \in Students PROVE Joined(s)'
  <2>1. CASE RunCreate
    BY <2>1 DEF TypeOK, Handling, Joined, RunCreate
  <2>2. CASE RunStudent
    BY <2>2 DEF TypeOK, Handling, Removing, Joined, RunStudent
  <2>3. CASE RunStore
    BY <2>3 DEF TypeOK, Handling, Removing, Joined, RunStore
  <2> QED
    BY <2>1, <2>2, <2>3
<1>6. NoLabLeak'
  BY DEF TypeOK, Handling, NoLabLeak, RunCreate, RunStudent, RunStore
<1> QED
  BY <1>1, <1>2, <1>3, <1>4, <1>5, <1>6

(* A run ends, or its exit goroutine removes it.                           *)
LEMMA EndsKeep ==
  ASSUME IInv, NEW r \in Students, StudentEnds(r) \/ ExitCleans(r)
  PROVE  IInv'
<1> USE LabAssumption
    DEF IInv, loopVars, sessionVars, labVars, dockerVars, StopStages,
        StartStages, RunStages, Starting, MuIsFree, LoopHoldsMu
<1>1. /\ UNCHANGED <<loopVars, lab, labVars, net, on, crashes, target>>
      /\ ctr' \in [Students -> {"none", "running", "exited", "stray", "gone"}]
      /\ \A s \in Students : ctr'[s] = ctr[s] \/ ctr'[s] # "running"
      /\ \A s \in Students : ctr[s] = "none" <=> ctr'[s] = "none"
      /\ \/ UNCHANGED <<cur, exiting>>
         \/ UNCHANGED <<cur, ctr>> /\ exiting' = r /\ cur = r /\ ~LoopHoldsMu
         \/ /\ exiting' = None /\ cur' = None /\ cur = r /\ ~LoopHoldsMu
            /\ ctr'[r] = "running" => InProgress(r) /\ exiting = None
  <2>1. exiting = r => cur = r /\ ~LoopHoldsMu
    BY DEF Removing
  <2>2. cur = r => ctr[r] # "none"
    BY DEF Removing
  <2> QED
    BY <2>1, <2>2, RemovalsEnd
       DEF StudentEnds, ExitCleans, CanRemove, Exists, TypeOK
<1>2. TypeOK'
  BY <1>1 DEF TypeOK
<1>3. Handling'
  BY <1>1 DEF TypeOK, Handling
<1>4. Removing'
  BY <1>1 DEF TypeOK, Handling, Removing
<1>5. ASSUME NEW l \in Labs PROVE Whole(l)'
  BY <1>1 DEF TypeOK, Whole
<1>6. ASSUME NEW s \in Students PROVE Joined(s)'
  BY <1>1 DEF TypeOK, Joined, Removing, InProgress
<1>7. NoLabLeak'
  BY <1>1 DEF TypeOK, NoLabLeak
<1> QED
  BY <1>2, <1>3, <1>4, <1>5, <1>6, <1>7

(* The expiry goroutine only removes, and only what is of a lab that is    *)
(* not waiting any more.                                                   *)
LEMMA ExpiryKeeps ==
  ASSUME IInv, NEW m \in Labs, Expiry(m)
  PROVE  IInv'
<1> USE LabAssumption
    DEF IInv, loopVars, sessionVars, labVars, dockerVars, StopStages,
        StartStages, RunStages, Starting, MuIsFree, LoopHoldsMu
<1>1. CASE ExpiryFires(m) \/ ExpiryCancelled(m)
  <2> USE <1>1 DEF ExpiryFires, ExpiryCancelled
  <2>1. TypeOK' /\ Handling' /\ Removing'
    BY DEF TypeOK, Handling, Removing
  <2>2. ASSUME NEW l \in Labs PROVE Whole(l)'
    BY DEF TypeOK, Whole
  <2>3. ASSUME NEW s \in Students PROVE Joined(s)'
    BY DEF TypeOK, Joined
  <2>4. NoLabLeak'
    BY DEF TypeOK, NoLabLeak
  <2> QED
    BY <2>1, <2>2, <2>3, <2>4
<1>2. CASE ExpiryStudent(m)
  <2>1. /\ expiry[m] = "student" /\ UNCHANGED target
        /\ UNCHANGED <<loopVars, sessionVars, studentId, fate, net, on, crashes>>
        /\ ctr' \in [Students -> {"none", "running", "exited", "stray", "gone"}]
        /\ \A s \in Students : ctr'[s] = ctr[s] \/ ctr'[s] \in {"gone", "stray"}
        /\ \A s \in Students : ctr[s] = "none" <=> ctr'[s] = "none"
        /\ \A l \in Labs : l # m => expiry'[l] = expiry[l] /\ removes'[l] = removes[l]
        /\ \/ /\ expiry' = expiry /\ removes' \in [Labs -> Students \union Labs \union {None}]
              /\ removes[m] = None /\ removes'[m] = studentId[m]
              /\ studentId[m] \in Students /\ UNCHANGED ctr
           \/ /\ expiry' = [expiry EXCEPT ![m] = "target"]
              /\ removes' = [removes EXCEPT ![m] = None]
              /\ removes[m] # None => ctr'[removes[m]] # "running"
    <3>1. /\ removes[m] \in Students \union {None}
          /\ removes[m] # None => ctr[removes[m]] # "none"
          /\ studentId[m] # None => ctr[studentId[m]] # "none"
      BY <1>2 DEF Removing, TypeOK, ExpiryStudent
    <3> QED
      BY <1>2, <3>1, RemovalsEnd
         DEF ExpiryStudent, ExpiryRemoval, CanRemove, Exists, TypeOK
  <2>2. TypeOK'
    BY <2>1 DEF TypeOK
  <2>3. Handling'
    BY <2>1 DEF TypeOK, Handling, Removing
  <2>4. Removing'
    BY <2>1 DEF TypeOK, Removing
  <2>5. ASSUME NEW l \in Labs PROVE Whole(l)'
    BY <2>1 DEF TypeOK, Whole
  <2>6. ASSUME NEW s \in Students PROVE Joined(s)'
    BY <2>1 DEF TypeOK, Joined
  <2>7. NoLabLeak'
    BY <2>1 DEF TypeOK, Removing, NoLabLeak
  <2> QED
    BY <2>2, <2>3, <2>4, <2>5, <2>6, <2>7
<1>3. CASE ExpiryTarget(m)
  <2>1. /\ expiry[m] = "target" /\ UNCHANGED ctr
        /\ UNCHANGED <<loopVars, sessionVars, studentId, fate, net, on, crashes>>
        /\ target' \in [Labs -> {"none", "created", "running", "stray", "gone"}]
        /\ target'[m] = target[m] \/ target'[m] \in {"gone", "stray"}
        /\ \A l \in Labs : l # m => /\ target'[l] = target[l]
                                    /\ expiry'[l] = expiry[l]
                                    /\ removes'[l] = removes[l]
        /\ \/ /\ expiry' = expiry /\ removes' = [removes EXCEPT ![m] = m]
              /\ UNCHANGED target
           \/ /\ expiry' = [expiry EXCEPT ![m] = "net"]
              /\ removes' = [removes EXCEPT ![m] = None]
              /\ target'[m] = "running" => loopRemoves = m
    <3>1. /\ removes[m] \in {m, None} /\ exiting # m
          /\ \A l \in Labs : removes[l] = m => l = m
      BY <1>3 DEF Removing, TypeOK, ExpiryTarget
    <3> QED
      BY <1>3, <3>1, RemovalsEnd
         DEF ExpiryTarget, ExpiryRemoval, CanRemove, Exists, InProgress, TypeOK
  <2>2. TypeOK'
    BY <2>1 DEF TypeOK
  <2>3. Handling'
    BY <2>1 DEF TypeOK, Handling, Whole, Removing
  <2>4. Removing'
    BY <2>1 DEF TypeOK, Removing
  <2>5. ASSUME NEW l \in Labs PROVE Whole(l)'
    BY <2>1 DEF TypeOK, Whole
  <2>6. ASSUME NEW s \in Students PROVE Joined(s)'
    BY <2>1 DEF TypeOK, Joined, Removing
  <2>7. NoLabLeak'
    BY <2>1 DEF TypeOK, Removing, NoLabLeak
  <2> QED
    BY <2>2, <2>3, <2>4, <2>5, <2>6, <2>7
<1>4. CASE ExpiryNet(m)
  <2>1. /\ expiry[m] = "net" /\ expiry' = [expiry EXCEPT ![m] = "done"]
        /\ UNCHANGED <<loopVars, sessionVars, studentId, removes, fate, target,
                       ctr, on, crashes>>
        /\ net' \in [Labs -> {"none", "up", "stray", "gone"}]
        /\ \A l \in Labs : l # m => net'[l] = net[l]
        /\ net[m] = "none" <=> net'[m] = "none"
        /\ net'[m] = "up" => net[m] = "up" /\ \E c \in Using(m) : c # exiting
        /\ removes[m] = None
    BY <1>4, NetworksGo DEF ExpiryNet, TypeOK, Removing
  <2>2. TypeOK'
    BY <2>1 DEF TypeOK
  <2>3. Handling'
    BY <2>1 DEF TypeOK, Handling, Whole
  <2>4. Removing'
    BY <2>1 DEF TypeOK, Removing
  <2>5. ASSUME NEW l \in Labs PROVE Whole(l)'
    BY <2>1 DEF TypeOK, Whole
  <2>6. ASSUME NEW s \in Students PROVE Joined(s)'
    BY <2>1 DEF TypeOK, Joined
  <2>7. NoLabLeak'
    <3>1. fate[m] # "crashed" /\ m \notin {lab, starting} => net'[m] # "up"
      BY <2>1 DEF NoLabLeak, Joined, Using
    <3> QED
      BY <2>1, <3>1 DEF NoLabLeak, TypeOK
  <2> QED
    BY <2>2, <2>3, <2>4, <2>5, <2>6, <2>7
<1> QED
  BY <1>1, <1>2, <1>3, <1>4 DEF Expiry

(* After a crash no lab counts as started, and the sweeps only remove.     *)
LEMMA CrashKeeps ==
  ASSUME IInv, Crash \/ Boot \/ BootLabs
  PROVE  IInv'
<1> USE LabAssumption, OutcomesAre
    DEF IInv, loopVars, sessionVars, labVars, dockerVars, StopStages,
        StartStages, RunStages, Starting, MuIsFree, LoopHoldsMu
<1>1. CASE Crash
  <2> USE <1>1 DEF Crash
  <2>1. TypeOK'
    BY DEF TypeOK
  <2>2. Handling' /\ Removing'
    BY DEF TypeOK, Handling, Removing
  <2>3. ASSUME NEW l \in Labs PROVE Whole(l)'
    <3>1. fate[l] = "unused" => ~InProgress(l)
      BY DEF InProgress, Removing, Whole, TypeOK
    <3> QED
      BY <3>1 DEF TypeOK, Whole
  <2>4. ASSUME NEW s \in Students PROVE Joined(s)'
    BY DEF TypeOK, Joined
  <2>5. NoLabLeak'
    BY DEF TypeOK, Handling, Whole, Removing, NoLabLeak
  <2> QED
    BY <2>1, <2>2, <2>3, <2>4, <2>5
<1>2. CASE Boot
  <2>1. /\ UNCHANGED <<then, starting, running, network, loopRemoves, sessionVars,
                       labVars, net, target, on, crashes>>
        /\ pc = "boot" /\ pc' = "bootLabs"
        /\ ctr' \in [Students -> {"none", "running", "exited", "stray", "gone"}]
        /\ \A s \in Students : ctr'[s] = ctr[s] \/ ctr'[s] \in {"gone", "stray"}
        /\ \A s \in Students : ctr[s] = "none" <=> ctr'[s] = "none"
    <3>1. PICK old \in SUBSET {s \in Students : Exists(s)} :
                 \E state \in [old -> Outcomes] :
                   ctr' = [s \in Students |-> IF s \in old THEN state[s] ELSE ctr[s]]
      BY <1>2 DEF Boot
    <3>2. PICK state \in [old -> Outcomes] :
                 ctr' = [s \in Students |-> IF s \in old THEN state[s] ELSE ctr[s]]
      BY <3>1
    <3>3. \A s \in old : state[s] \in {"gone", "stray"} /\ ctr[s] # "none"
      BY <3>1, LabAssumption DEF Exists
    <3> QED
      BY <1>2, <3>2, <3>3 DEF Boot, TypeOK
  <2>2. TypeOK'
    BY <2>1 DEF TypeOK
  <2>3. Handling' /\ Removing'
    BY <2>1 DEF TypeOK, Handling, Removing
  <2>4. ASSUME NEW l \in Labs PROVE Whole(l)'
    BY <2>1 DEF TypeOK, Whole
  <2>5. ASSUME NEW s \in Students PROVE Joined(s)'
    BY <2>1 DEF TypeOK, Joined
  <2>6. NoLabLeak'
    BY <2>1 DEF TypeOK, NoLabLeak
  <2> QED
    BY <2>2, <2>3, <2>4, <2>5, <2>6
<1>3. CASE BootLabs
  <2>1. /\ UNCHANGED <<then, starting, running, network, loopRemoves, sessionVars,
                       labVars, target, ctr, on, crashes>>
        /\ pc = "bootLabs" /\ pc' = "idle"
        /\ net' \in [Labs -> {"none", "up", "stray", "gone"}]
        /\ \A l \in Labs : net'[l] = net[l] \/ net'[l] \in {"gone", "stray"}
        /\ \A l \in Labs : net[l] = "none" <=> net'[l] = "none"
    <3>1. PICK state \in [Labs -> Outcomes] :
                 net' = [l \in Labs |->
                           IF net[l] \in {"up", "stray"} /\ Using(l) = {}
                           THEN state[l] ELSE net[l]]
      BY <1>3 DEF BootLabs
    <3>2. \A l \in Labs : state[l] \in {"gone", "stray"}
      BY <3>1
    <3> QED
      BY <1>3, <3>1, <3>2 DEF BootLabs, TypeOK
  <2>2. TypeOK'
    BY <2>1 DEF TypeOK
  <2>3. Handling' /\ Removing'
    BY <2>1 DEF TypeOK, Handling, Removing
  <2>4. ASSUME NEW l \in Labs PROVE Whole(l)'
    BY <2>1 DEF TypeOK, Whole, Handling
  <2>5. ASSUME NEW s \in Students PROVE Joined(s)'
    BY <2>1 DEF TypeOK, Joined
  <2>6. NoLabLeak'
    BY <2>1 DEF TypeOK, NoLabLeak
  <2> QED
    BY <2>2, <2>3, <2>4, <2>5, <2>6
<1> QED
  BY <1>1, <1>2, <1>3

-----------------------------------------------------------------------------
(* The inductive invariant: st.lab is written by one goroutine only, and a *)
(* session has one run at a time.                                          *)
THEOREM LabInvariant == Spec => []IInv
<1>1. IInv /\ [Next]_vars => IInv'
  <2> SUFFICES ASSUME IInv, [Next]_vars PROVE IInv'
    OBVIOUS
  <2>1. CASE UNCHANGED vars
    BY <2>1 DEF vars, loopVars, sessionVars, labVars, dockerVars, IInv, TypeOK,
       Handling, Removing, LoopHoldsMu, Whole, Joined, NoLabLeak
  <2>2. ASSUME NEW l \in Labs, LabStart(l) \/ Expiry(l) PROVE IInv'
    BY <2>2, MessagesKeep, ExpiryKeeps
  <2>3. ASSUME NEW s \in Students, Run(s) \/ StudentEnds(s) \/ ExitCleans(s)
        PROVE  IInv'
    BY <2>3, MessagesKeep, EndsKeep
  <2>4. CASE LabStop \/ Close
    BY <2>4, MessagesKeep
  <2>5. CASE MainStep \/ Crash
    BY <2>5, StartsKeep, LetGoKeeps, StopStudentKeeps, StopTargetKeeps,
       StopNetKeeps, RunsKeep, CrashKeeps DEF MainStep
  <2> QED
    BY <2>1, <2>2, <2>3, <2>4, <2>5 DEF Next
<1> QED
  BY <1>1, InitHolds, PTL DEF Spec

(* Types, and what the handlers dereference: st.lab is not nil while it is *)
(* stopped, and the IDs it holds are those of what was created.            *)
THEOREM LabTypeCorrect == Spec => []TypeOK
BY LabInvariant, PTL DEF IInv

(* No other lab's end, no failed start and no late expiry goroutine takes  *)
(* away a lab that was neither stopped nor has expired.                    *)
THEOREM LabStaysUsable == Spec => []LabUsable
<1>1. IInv => LabUsable
  BY DEF IInv, TypeOK, Whole, LabUsable
<1> QED
  BY <1>1, LabInvariant, PTL

(* A network that is up, or a target that runs, is that of the session's   *)
(* lab or of the one being started, or its expiry goroutine is still at    *)
(* work on it, unless the process that made it crashed or Docker refused:  *)
(* no error branch of StartLab, no stop, no expiry, no end of the          *)
(* connection, and no two of them asking at the same time lets one slip.   *)
THEOREM NoLabIsLeft == Spec => []NoLabLeak
BY LabInvariant, PTL DEF IInv

(* While a session replaces a lab it has two networks up only if the old   *)
(* lab's expiry goroutine is at that moment removing what is on it, or     *)
(* about to remove the network.                                            *)
OneNetwork ==
  \A l, m \in Labs :
    /\ fate[l] # "crashed" /\ net[l] = "up" /\ m # l
    /\ fate[m] # "crashed" /\ net[m] = "up"
    => \E k \in {l, m} : removes[k] # None \/ expiry[k] \in {"target", "net"}

THEOREM OneLabAtATime == Spec => []OneNetwork
<1>1. IInv => OneNetwork
  BY LabAssumption DEF IInv, TypeOK, Handling, NoLabLeak, OneNetwork
<1> QED
  BY <1>1, LabInvariant, PTL

(* A run that executes on a lab's network is on that of the session's      *)
(* present lab, or is just being removed by that lab's expiry goroutine or *)
(* by its own exit goroutine, unless a crash parted them: a lab that was   *)
(* replaced leaves no run behind that nobody removes, and none can join it *)
(* any more.                                                               *)
InItsLab ==
  \A s \in Students : \A l \in Labs :
    ctr[s] = "running" /\ on[s] = l /\ fate[l] # "crashed"
      => lab = l \/ s \in {removes[l], exiting}

THEOREM RunsAreInTheirLab == Spec => []InItsLab
<1>1. IInv => InItsLab
  BY DEF IInv, Joined, InItsLab
<1> QED
  BY <1>1, LabInvariant, PTL

(* When the main loop has stopped a lab, its target, its network and every *)
(* run that joined it are gone, refused by Docker, or just being removed   *)
(* by another goroutine that had asked before, and that will come to the   *)
(* network.                                                                *)
THEOREM StopLeavesNothing == Spec => StopDestroys
<1>1. ASSUME IInv, [Next]_vars, pc = "stopNet", crashes' = crashes,
             NEW l \in Labs, lab = l, lab' = None
      PROVE  /\ net'[l] \in {"gone", "stray"} \/ removes'[l] # None
             /\ target'[l] \in {"gone", "stray"} \/ removes'[l] = l
             /\ \A s \in Students :
                  ctr'[s] = "running" /\ on'[s] = l => s \in {removes'[l], exiting'}
  <2>1. StopNet
    BY <1>1, LabAssumption
       DEF IInv, TypeOK, Next, vars, loopVars, sessionVars, LabStart, LabStop,
           MainStep, CreateNetwork, CreateTarget, Connect, StartTarget, StoreLab,
           LetGo, StopStudent, StopTarget, RunCreate, RunStudent, RunStore, Boot,
           BootLabs, Run, StudentEnds, ExitCleans, Close, Expiry, ExpiryFires,
           ExpiryCancelled, ExpiryStudent, ExpiryTarget, ExpiryNet, Crash
  <2>2. /\ UNCHANGED <<target, ctr, on, removes, exiting>>
        /\ net'[l] = "up" => \E c \in Using(l) : c # exiting
        /\ net'[l] # "none" /\ net' \in [Labs -> {"none", "up", "stray", "gone"}]
    BY <1>1, <2>1, StopLeaves, NetworksGo
       DEF IInv, StopNet, sessionVars, labVars
  <2>3. /\ target[l] \in {"gone", "stray"} \/ removes[l] = l
        /\ \A s \in Students : ctr[s] = "running" /\ on[s] = l
                                 => s \in {removes[l], exiting}
        /\ \A c \in Using(l) : c \in {removes[l], exiting}
    BY <1>1, StopLeaves
  <2>4. net'[l] \in {"gone", "stray"} \/ removes[l] # None
    <3>1. ASSUME NEW c \in Using(l), c # exiting PROVE removes[l] # None
      BY <2>3, <3>1, LabAssumption DEF Using
    <3> QED
      BY <1>1, <2>2, <3>1
  <2> QED
    BY <1>1, <2>2, <2>3, <2>4
<1>2. IInv /\ [Next]_vars
        => [(pc = "stopNet" /\ crashes' = crashes)
             => \A l \in Labs :
                  (lab = l /\ lab' = None)
                    => /\ net'[l] \in {"gone", "stray"} \/ removes'[l] # None
                       /\ target'[l] \in {"gone", "stray"} \/ removes'[l] = l
                       /\ \A s \in Students :
                            ctr'[s] = "running" /\ on'[s] = l
                              => s \in {removes'[l], exiting'}]_vars
  BY <1>1
<1> QED
  BY <1>2, LabInvariant, PTL DEF Spec, StopDestroys

-----------------------------------------------------------------------------
(* What becomes of a lab without its user: unless Docker refuses, somebody *)
(* is always about to remove a target that was started, the expiry         *)
(* goroutine or, once it has cancelled that, the main loop; and a closed   *)
(* connection has no st.lab.                                               *)
Watched(l) ==
  fate[l] = "started" /\ target[l] \notin {"gone", "stray"} =>
    \/ expiry[l] \in {"waiting", "student", "target"}
    \/ pc \in {"stopStudent", "stopTarget"} /\ lab = l

TargetsWatched == \A l \in Labs : Watched(l)

ClosedKeepsNoLab == pc = "closed" => lab = None

LEMMA WatchedStep ==
  IInv /\ TargetsWatched /\ ClosedKeepsNoLab /\ [Next]_vars
    => TargetsWatched' /\ ClosedKeepsNoLab'
<1> SUFFICES ASSUME IInv, TargetsWatched, ClosedKeepsNoLab, [Next]_vars
             PROVE  TargetsWatched' /\ ClosedKeepsNoLab'
  OBVIOUS
<1>0. TypeOK /\ Handling /\ Removing
  BY DEF IInv
<1> USE DEF vars, loopVars, sessionVars, labVars, dockerVars
<1>1. ASSUME UNCHANGED <<fate, target, expiry>>,
             pc \notin {"stopStudent", "stopTarget"},
             pc' = "closed" => lab' = None
      PROVE  TargetsWatched' /\ ClosedKeepsNoLab'
  BY <1>1 DEF TargetsWatched, Watched, ClosedKeepsNoLab
<1>2. ASSUME UNCHANGED <<fate, target, expiry, pc, lab>>
      PROVE  TargetsWatched' /\ ClosedKeepsNoLab'
  BY <1>2 DEF TargetsWatched, Watched, ClosedKeepsNoLab
<1>3. ASSUME (\E l \in Labs : LabStart(l)) \/ LabStop
      PROVE  TargetsWatched' /\ ClosedKeepsNoLab'
  <2>1. \A l \in Labs : fate'[l] = "started" => fate[l] = "started"
    BY <1>0, <1>3 DEF LabStart, LabStop, TypeOK
  <2>2. UNCHANGED <<target, expiry>> /\ pc = "idle" /\ pc' # "closed"
    BY <1>3 DEF LabStart, LabStop
  <2> QED
    BY <2>1, <2>2 DEF TargetsWatched, Watched, ClosedKeepsNoLab
<1>4. ASSUME CreateNetwork \/ CreateTarget \/ Connect \/ StartTarget \/ StoreLab
      PROVE  TargetsWatched' /\ ClosedKeepsNoLab'
  <2>1. /\ starting \in Labs /\ pc' # "closed"
        /\ pc \notin {"stopStudent", "stopTarget"}
        /\ \A l \in Labs :
             l # starting => /\ fate'[l] = fate[l] /\ target'[l] = target[l]
                             /\ expiry'[l] = expiry[l]
    BY <1>0, <1>4
       DEF CreateNetwork, CreateTarget, Connect, StartTarget, StoreLab,
           FailStart, Return, StartStages, TypeOK
  <2>2. CASE CreateNetwork \/ CreateTarget \/ Connect
    <3>1. fate'[starting] # "started"
      BY <1>0, <2>1, <2>2
         DEF CreateNetwork, CreateTarget, Connect, FailStart, Handling,
             Starting, TypeOK
    <3> QED
      BY <2>1, <3>1 DEF TargetsWatched, Watched, ClosedKeepsNoLab
  <2>3. CASE StartTarget
    <3>1. fate'[starting] # "started" \/ expiry'[starting] = "waiting"
      BY <1>0, <2>1, <2>3 DEF StartTarget, FailStart, TypeOK
    <3> QED
      BY <2>1, <3>1 DEF TargetsWatched, Watched, ClosedKeepsNoLab
  <2>4. CASE StoreLab
    BY <1>1, <2>1, <2>4 DEF StoreLab
  <2> QED
    BY <1>4, <2>2, <2>3, <2>4
<1>5. CASE StopStudent
  <2>1. /\ pc' \in {"stopStudent", "stopTarget"} /\ pc = "stopStudent"
        /\ UNCHANGED <<fate, lab>>
        /\ \A l \in Labs : l # lab => expiry'[l] = expiry[l]
    BY <1>0, <1>5 DEF StopStudent, LoopRemoval, TypeOK
  <2>2. UNCHANGED target
    BY <1>0, <1>5, RemovalsEnd, LabAssumption
       DEF StopStudent, LoopRemoval, TypeOK, Removing
  <2> QED
    BY <2>1, <2>2 DEF TargetsWatched, Watched, ClosedKeepsNoLab
<1>6. CASE StopTarget
  <2>1. /\ lab \in Labs /\ UNCHANGED <<fate, expiry, lab>>
        /\ pc = "stopTarget" /\ pc' \in {"stopTarget", "stopNet"}
        /\ loopRemoves \in {lab, None} /\ exiting # lab
    BY <1>0, <1>6, LabAssumption
       DEF StopTarget, LoopRemoval, TypeOK, StopStages, Removing
  <2>2. /\ target'[lab] = target[lab] \/ target'[lab] \in {"gone", "stray"}
        /\ \A l \in Labs : l # lab => target'[l] = target[l]
        /\ \/ pc' = "stopTarget"
           \/ target'[lab] \in {"gone", "stray"}
           \/ ~Exists(lab)
           \/ \E l \in Labs : removes[l] = lab
    BY <1>0, <1>6, <2>1, RemovalsEnd, LabAssumption
       DEF StopTarget, LoopRemoval, CanRemove, InProgress
  <2>3. fate[lab] = "started" /\ ~Exists(lab) => target[lab] = "gone"
    BY <1>0, <2>1 DEF IInv, Whole, Exists, TypeOK
  <2>4. \A l \in Labs : removes[l] = lab => expiry[lab] = "target"
    BY <1>0, <2>1 DEF Removing
  <2> QED
    BY <2>1, <2>2, <2>3, <2>4 DEF TargetsWatched, Watched, ClosedKeepsNoLab
<1>7. CASE StopNet \/ RunCreate \/ RunStudent \/ RunStore
  <2>1. /\ UNCHANGED <<fate, target, expiry>>
        /\ pc \notin {"stopStudent", "stopTarget"}
        /\ pc' = "closed" => lab' = None
    BY <1>7 DEF StopNet, RunCreate, RunStudent, RunStore, Return
  <2> QED
    BY <1>1, <2>1
<1>8. CASE Boot \/ BootLabs \/ Close \/ LetGo \/ \E s \in Students : Run(s)
  <2>1. /\ UNCHANGED <<fate, expiry>> /\ pc \notin {"stopStudent", "stopTarget"}
        /\ pc' = "closed" => lab' = None
    BY <1>0, <1>8
       DEF Boot, BootLabs, Close, LetGo, LoopRemoval, Leave, Run, Handling
  <2>2. UNCHANGED target
    BY <1>0, <1>8, RemovalsEnd, LabAssumption
       DEF Boot, BootLabs, Close, LetGo, LoopRemoval, Run, Removing, TypeOK
  <2> QED
    BY <1>1, <2>1, <2>2
<1>9. ASSUME NEW s \in Students, StudentEnds(s) \/ ExitCleans(s)
      PROVE  TargetsWatched' /\ ClosedKeepsNoLab'
  <2>1. UNCHANGED <<fate, expiry, pc, lab>>
    BY <1>9 DEF StudentEnds, ExitCleans
  <2>2. UNCHANGED target
    BY <1>0, <1>9, RemovalsEnd, LabAssumption DEF StudentEnds, ExitCleans
  <2> QED
    BY <1>2, <2>1, <2>2
<1>10. CASE Crash
  <2>1. pc' = "boot" /\ \A l \in Labs : fate'[l] # "started"
    BY <1>10 DEF Crash
  <2> QED
    BY <2>1 DEF TargetsWatched, Watched, ClosedKeepsNoLab
<1>11. ASSUME NEW m \in Labs, Expiry(m)
       PROVE  TargetsWatched' /\ ClosedKeepsNoLab'
  <2>1. /\ UNCHANGED <<fate, pc, lab>>
        /\ \A l \in Labs : l # m => expiry'[l] = expiry[l]
    BY <1>0, <1>11
       DEF Expiry, ExpiryFires, ExpiryCancelled, ExpiryStudent, ExpiryTarget,
           ExpiryNet, ExpiryRemoval, TypeOK
  <2>2. /\ \A l \in Labs : l # m => target'[l] = target[l]
        /\ target'[m] = target[m] \/ target'[m] \in {"gone", "stray"}
        /\ expiry'[m] \in {"student", "target"}
             \/ expiry[m] \in {"cancelled", "target", "net"}
        /\ expiry[m] = "target" =>
             \/ expiry'[m] = "target"
             \/ target'[m] \in {"gone", "stray"}
             \/ ~Exists(m) \/ loopRemoves = m
    <3>1. CASE ExpiryFires(m) \/ ExpiryCancelled(m) \/ ExpiryNet(m)
      BY <1>0, <3>1 DEF ExpiryFires, ExpiryCancelled, ExpiryNet, TypeOK
    <3>2. CASE ExpiryStudent(m)
      <4>1. removes[m] \in Students \union {None} /\ expiry[m] = "student"
        BY <1>0, <3>2 DEF ExpiryStudent, Removing, TypeOK
      <4>2. UNCHANGED target
        BY <1>0, <3>2, <4>1, RemovalsEnd, LabAssumption
           DEF ExpiryStudent, ExpiryRemoval
      <4> QED
        BY <1>0, <3>2, <4>1, <4>2 DEF ExpiryStudent, ExpiryRemoval, TypeOK
    <3>3. CASE ExpiryTarget(m)
      <4>1. /\ removes[m] \in {m, None} /\ exiting # m /\ expiry[m] = "target"
            /\ \A l \in Labs : removes[l] = m => l = m
        BY <1>0, <3>3, LabAssumption DEF Removing, TypeOK, ExpiryTarget
      <4> QED
        BY <1>0, <3>3, <4>1, RemovalsEnd, LabAssumption
           DEF ExpiryTarget, ExpiryRemoval, CanRemove, InProgress, TypeOK
    <3> QED
      BY <1>11, <3>1, <3>2, <3>3 DEF Expiry
  <2>3. Watched(m)'
    <3>1. Watched(m) /\ (fate[m] = "started" /\ ~Exists(m) => target[m] = "gone")
      BY <1>0 DEF TargetsWatched, IInv, Whole, Exists, TypeOK
    <3>2. loopRemoves = m => pc = "stopTarget" /\ lab = m
      BY <1>0 DEF Removing
    <3> QED
      BY <2>1, <2>2, <3>1, <3>2 DEF Watched
  <2> QED
    BY <2>1, <2>2, <2>3 DEF TargetsWatched, Watched, ClosedKeepsNoLab
<1>12. CASE UNCHANGED vars
  BY <1>2, <1>12
<1> QED
  BY <1>3, <1>4, <1>5, <1>6, <1>7, <1>8, <1>9, <1>10, <1>11, <1>12
     DEF Next, MainStep

(* The safety half of TargetExpires: a target that was started and that    *)
(* Docker did not refuse to remove is never without someone who will       *)
(* remove it, also when its lab is stopped while its expiry goroutine is   *)
(* at the select, and takes either branch, or while it is removing it.     *)
THEOREM TargetsAreWatched == Spec => []TargetsWatched
<1>1. Init => TargetsWatched /\ ClosedKeepsNoLab
  BY DEF Init, TargetsWatched, Watched, ClosedKeepsNoLab
<1> QED
  BY <1>1, WatchedStep, LabInvariant, PTL DEF Spec

(* The safety half of ClosedLeavesNoLab: once the main loop has returned,  *)
(* a network or a running target there still is is one that its lab's      *)
(* expiry goroutine is just at work on.                                    *)
ClosedIsClean ==
  pc = "closed" =>
    \A l \in Labs :
      fate[l] # "crashed" =>
        /\ net[l] = "up" => removes[l] # None \/ expiry[l] \in {"target", "net"}
        /\ target[l] = "running" => removes[l] = l

THEOREM ClosedHasNoLab == Spec => []ClosedIsClean
<1>1. Init => TargetsWatched /\ ClosedKeepsNoLab
  BY DEF Init, TargetsWatched, Watched, ClosedKeepsNoLab
<1>2. IInv /\ ClosedKeepsNoLab => ClosedIsClean
  BY LabAssumption
     DEF IInv, Handling, NoLabLeak, ClosedKeepsNoLab, ClosedIsClean,
         StartStages, StopStages
<1> QED
  BY <1>1, <1>2, WatchedStep, LabInvariant, PTL DEF Spec

=============================================================================
