-------------------------- MODULE ContainersProofs --------------------------
(***************************************************************************)
(* Proofs about Containers, for any number of runs, shells and requests:   *)
(* whichever call fails, nothing is left behind; files reach a container   *)
(* before it is started; and the calls implement Creation. The lemmas are  *)
(* about single steps, so that LifetimesProofs can use them as well.       *)
(***************************************************************************)
EXTENDS Containers, TLAPS

(* At which stage a launch is with what it has made so far. A sweep, or    *)
(* whoever it belongs to, may remove the container of a launch that is     *)
(* made or serving, and a crash leaves the staging directory.              *)
Stages(j) ==
  /\ step[j] \in {"unused"} \union BeforeCreate => box[j] = "none"
  /\ step[j] \in {"copy", "start"} => box[j] = "created"
  /\ step[j] = "attach" => box[j] \in {"running", "exited"}
  /\ step[j] \in Serving \union {"made"} => box[j] # "none"
  /\ step[j] \in Serving => j \in Requests
  /\ step[j] = "made" => j \notin Requests
  /\ step[j] = "crashed" => ~Exists(j)
  /\ j \in Shells => step[j] \notin {"dir", "files", "copy"} /\ ~dir[j]
  /\ step[j] = "start" => code[j] \/ j \in Shells
  /\ dir[j] => \/ step[j] \in {"files", "create", "copy", "crashed"}
               \/ j \in Requests /\ step[j] \in {"start", "attach"} \union Serving

Clean(j) ==
  /\ step[j] \in Ended => ~Exists(j) /\ ~dir[j] /\ ctx[j] = "cancelled"
  /\ step[j] = "made" => ~dir[j]

Staged(j) ==
  j \in Runs \union Requests /\ box[j] \in {"running", "exited"} => code[j]

Local(j) == Stages(j) /\ Clean(j) /\ Staged(j)

ContainersInv == ContainersTypeOK /\ \A j \in Launches : Local(j)

ContainerStep(j) == Ask(j) \/ CreationStep(j) \/ ProgramEnds(j)

(* Nothing of another launch changes.                                      *)
Only(j) ==
  \A k \in Launches \ {j} :
    /\ step'[k] = step[k] /\ dir'[k] = dir[k] /\ box'[k] = box[k]
    /\ code'[k] = code[k] /\ ctx'[k] = ctx[k]

-----------------------------------------------------------------------------
(* A removal leaves a container that existed gone or stray, and others as  *)
(* they were.                                                              *)
LEMMA RemoveLeaves ==
  ASSUME ContainersTypeOK, NEW j \in Launches, Remove(j)
  PROVE  \E left \in {"none", "gone", "stray"} :
           /\ box' = [box EXCEPT ![j] = left]
           /\ Exists(j) => left # "none"
           /\ ~Exists(j) => left = box[j]
<1>1. CASE Exists(j)
  BY <1>1 DEF Remove
<1>2. CASE ~Exists(j)
  BY <1>2 DEF Remove, Exists, ContainersTypeOK
<1> QED
  BY <1>1, <1>2

(* One call of one launch.                                                 *)
LEMMA CallLocal ==
  ASSUME ContainersInv, NEW j \in Launches,
         \/ Ask(j) \/ EnsureImage(j) \/ MakeDir(j) \/ WriteFiles(j)
         \/ CreateContainer(j) \/ CopyFiles(j) \/ StartContainer(j)
         \/ Attach(j) \/ AwaitExit(j) \/ ProgramEnds(j)
  PROVE  ContainersTypeOK' /\ Local(j)' /\ Only(j)
<1> USE KindsAssumption
    DEF ContainersInv, ContainersTypeOK, Local, Stages, Clean, Staged, Only,
        Exists, Goto, Launches, BeforeCreate, AfterCreate, Serving, Ended, Over
<1>1. CASE Ask(j)
  BY <1>1 DEF Ask
<1>2. CASE EnsureImage(j)
  BY <1>2 DEF EnsureImage
<1>3. CASE MakeDir(j)
  BY <1>3 DEF MakeDir
<1>4. CASE WriteFiles(j)
  BY <1>4 DEF WriteFiles
<1>5. CASE CreateContainer(j)
  BY <1>5 DEF CreateContainer
<1>6. CASE CopyFiles(j)
  BY <1>6 DEF CopyFiles
<1>7. CASE StartContainer(j)
  BY <1>7 DEF StartContainer
<1>8. CASE Attach(j)
  BY <1>8 DEF Attach
<1>9. CASE AwaitExit(j)
  BY <1>9 DEF AwaitExit
<1>10. CASE ProgramEnds(j)
  BY <1>10 DEF ProgramEnds
<1> QED
  BY <1>1, <1>2, <1>3, <1>4, <1>5, <1>6, <1>7, <1>8, <1>9, <1>10

(* A call that fails, or the answer, with what it undoes.                  *)
LEMMA EndLocal ==
  ASSUME ContainersInv, NEW j \in Launches,
         FailsBefore(j) \/ FailsAfter(j) \/ Answer(j)
  PROVE  ContainersTypeOK' /\ Local(j)' /\ Only(j)
<1> USE KindsAssumption
    DEF ContainersInv, ContainersTypeOK, Local, Stages, Clean, Staged, Only,
        Exists, Goto, Cancel, DropsDir, Launches, BeforeCreate, AfterCreate,
        Serving, Ended, Over
<1>1. CASE FailsBefore(j)
  BY <1>1 DEF FailsBefore
<1>2. CASE FailsAfter(j)
  <2>1. PICK left \in {"none", "gone", "stray"} :
          /\ box' = [box EXCEPT ![j] = left]
          /\ Exists(j) => left # "none"
          /\ ~Exists(j) => left = box[j]
    BY <1>2, RemoveLeaves DEF FailsAfter
  <2> QED
    BY <1>2, <2>1 DEF FailsAfter
<1>3. CASE Answer(j)
  <2>1. PICK left \in {"none", "gone", "stray"} :
          /\ box' = [box EXCEPT ![j] = left]
          /\ Exists(j) => left # "none"
          /\ ~Exists(j) => left = box[j]
    BY <1>3, RemoveLeaves DEF Answer
  <2> QED
    BY <1>3, <2>1 DEF Answer
<1> QED
  BY <1>1, <1>2, <1>3

LEMMA OthersKeep ==
  ASSUME ContainersInv, NEW j \in Launches,
         ContainersTypeOK', Local(j)', Only(j)
  PROVE  ContainersInv'
<1> SUFFICES ASSUME NEW k \in Launches \ {j} PROVE Local(k)'
  BY DEF ContainersInv, Launches
<1> QED
  BY DEF ContainersInv, Local, Stages, Clean, Staged, Only, Exists

LEMMA ContainerStepKeeps ==
  ASSUME ContainersInv, NEW j \in Launches, ContainerStep(j)
  PROVE  ContainersInv'
BY CallLocal, EndLocal, OthersKeep DEF ContainerStep, CreationStep

LEMMA ContainersInitHolds == ContainersInit => ContainersInv
<1> SUFFICES ASSUME ContainersInit PROVE ContainersInv
  OBVIOUS
<1>1. ContainersTypeOK
  BY DEF ContainersInit, ContainersTypeOK
<1>2. ASSUME NEW j \in Launches PROVE Local(j)
  BY DEF ContainersInit, Local, Stages, Clean, Staged, Exists, BeforeCreate,
         Serving, Ended
<1> QED
  BY <1>1, <1>2 DEF ContainersInv

LEMMA ContainersStuttersKeep ==
  ASSUME ContainersInv, UNCHANGED containerVars
  PROVE  ContainersInv'
BY DEF containerVars, ContainersInv, ContainersTypeOK, Local, Stages, Clean,
       Staged, Exists

(* The inductive invariant of the calls that make a container.             *)
THEOREM ContainersInvariant == ContainersSpec => []ContainersInv
<1>1. ContainersInv /\ [ContainersNext]_containerVars => ContainersInv'
  BY ContainerStepKeeps, ContainersStuttersKeep DEF ContainersNext, ContainerStep
<1> QED
  BY <1>1, ContainersInitHolds, PTL DEF ContainersSpec

LEMMA InvGivesProperties == ContainersInv => NothingLeft /\ FilesBeforeStart
BY DEF ContainersInv, Local, Clean, Staged, NothingLeft, FilesBeforeStart, Launches

-----------------------------------------------------------------------------
(* How Creation sees one launch.                                           *)
Stays(j) == Phase(j)' = Phase(j) /\ Live(j)' = Live(j)
Succeeds(j) ==
  Phase(j) = "asked" /\ Phase(j)' = "live" /\ Live(j)' = "live"
Fails(j) ==
  Phase(j) = "asked" /\ Phase(j)' = "over"
    /\ Live(j)' \in {"none", "gone", "stray"}
Answers(j) ==
  j \in Requests /\ Phase(j) = "live" /\ Phase(j)' = "over"
    /\ Live(j)' \in {"gone", "stray"}

LEMMA CallView ==
  ASSUME ContainersInv, NEW j \in Launches,
         \/ Ask(j) \/ EnsureImage(j) \/ MakeDir(j) \/ WriteFiles(j)
         \/ CreateContainer(j) \/ CopyFiles(j) \/ StartContainer(j)
         \/ Attach(j) \/ AwaitExit(j) \/ ProgramEnds(j)
  PROVE  Stays(j) \/ Succeeds(j)
<1> USE DEF ContainersInv, ContainersTypeOK, Local, Stages, Exists, Goto, Phase,
            Live, Stays, Succeeds, Launches, BeforeCreate, AfterCreate, Serving,
            Ended, Over
<1>1. CASE Attach(j)
  <2>1. Phase(j) = "asked" /\ Phase(j)' = "live" /\ Exists(j)'
    BY <1>1 DEF Attach
  <2> QED
    BY <2>1
<1>2. CASE Ask(j) \/ EnsureImage(j) \/ MakeDir(j) \/ WriteFiles(j)
  BY <1>2 DEF Ask, EnsureImage, MakeDir, WriteFiles
<1>3. CASE CreateContainer(j) \/ CopyFiles(j) \/ StartContainer(j)
  BY <1>3 DEF CreateContainer, CopyFiles, StartContainer
<1>4. CASE AwaitExit(j)
  BY <1>4 DEF AwaitExit
<1>5. CASE ProgramEnds(j)
  BY <1>5 DEF ProgramEnds
<1> QED
  BY <1>1, <1>2, <1>3, <1>4, <1>5

LEMMA EndView ==
  ASSUME ContainersInv, NEW j \in Launches,
         FailsBefore(j) \/ FailsAfter(j) \/ Answer(j)
  PROVE  Fails(j) \/ Answers(j)
<1> USE DEF ContainersInv, ContainersTypeOK, Local, Stages, Exists, Goto, Phase,
            Live, Fails, Answers, Launches, BeforeCreate, AfterCreate, Serving,
            Ended, Over
<1>1. CASE FailsBefore(j)
  BY <1>1 DEF FailsBefore
<1>2. ASSUME FailsAfter(j) \/ Answer(j) PROVE Fails(j) \/ Answers(j)
  <2>1. PICK left \in {"none", "gone", "stray"} :
          /\ box' = [box EXCEPT ![j] = left]
          /\ Exists(j) => left # "none"
          /\ ~Exists(j) => left = box[j]
    BY <1>2, RemoveLeaves DEF FailsAfter, Answer
  <2>2. step[j] \in AfterCreate \union Serving /\ Phase(j)' = "over"
    BY <1>2 DEF FailsAfter, Answer
  <2>3. Live(j)' = left
    BY <2>1, <2>2
  <2>4. CASE step[j] \in AfterCreate
    BY <2>2, <2>3, <2>4
  <2>5. CASE step[j] \in Serving
    BY <2>1, <2>2, <2>3, <2>5
  <2> QED
    BY <2>2, <2>4, <2>5
<1> QED
  BY <1>1, <1>2

(* What happens to one launch is a step of Creation, or none.              *)
LEMMA ViewIsStep ==
  ASSUME ContainersTypeOK, NEW j \in Launches, Only(j),
         Stays(j) \/ Succeeds(j) \/ Fails(j) \/ Answers(j)
  PROVE  [Atomic!Next]_(Atomic!vars)
<1> DEFINE P == [k \in Launches |-> Phase(k)]
           L == [k \in Launches |-> Live(k)]
<1>1. \A k \in Launches \ {j} : Phase(k)' = Phase(k) /\ Live(k)' = Live(k)
  BY DEF Only, Phase, Live, Exists
<1>2. P' = [P EXCEPT ![j] = Phase(j)'] /\ L' = [L EXCEPT ![j] = Live(j)']
  BY <1>1
<1>3. CASE Stays(j)
  BY <1>2, <1>3 DEF Stays, Atomic!vars
<1>4. CASE Succeeds(j)
  <2>1. Atomic!Succeed(j)
    BY <1>2, <1>4 DEF Succeeds, Atomic!Succeed
  <2> QED
    BY <2>1 DEF Atomic!Next
<1>5. CASE Fails(j)
  <2>1. Atomic!Fail(j)
    BY <1>2, <1>5 DEF Fails, Atomic!Fail
  <2> QED
    BY <2>1 DEF Atomic!Next
<1>6. CASE Answers(j)
  <2>1. Atomic!Answer(j)
    BY <1>2, <1>6 DEF Answers, Atomic!Answer
  <2> QED
    BY <2>1 DEF Atomic!Next
<1> QED
  BY <1>3, <1>4, <1>5, <1>6

LEMMA ContainerStepRefines ==
  ASSUME ContainersInv, NEW j \in Launches, ContainerStep(j)
  PROVE  [Atomic!Next]_(Atomic!vars)
<1>1. ContainersTypeOK
  BY DEF ContainersInv
<1> QED
  BY <1>1, CallLocal, EndLocal, CallView, EndView, ViewIsStep
     DEF ContainerStep, CreationStep

LEMMA ContainersInitRefines == ContainersInit => Atomic!Init
BY DEF ContainersInit, Atomic!Init, Phase, Live, Over, Ended, Serving

-----------------------------------------------------------------------------
(* Whichever call fails, neither a directory, nor a context, nor a         *)
(* container that Docker was able to remove is left behind.                *)
THEOREM FailuresLeaveNothing == ContainersSpec => []NothingLeft
BY ContainersInvariant, InvGivesProperties, PTL

(* No program runs in a container that its files have not reached.         *)
THEOREM FilesComeFirst == ContainersSpec => []FilesBeforeStart
BY ContainersInvariant, InvGivesProperties, PTL

(* Every call is a step of Creation, or one it does not see: for whoever   *)
(* asks, a container is made at once or not at all.                        *)
THEOREM CallsImplementCreation == ContainersSpec => ImplementsCreation
<1>1. ContainersInv /\ [ContainersNext]_containerVars
        => [Atomic!Next]_(Atomic!vars)
  <2> SUFFICES ASSUME ContainersInv, [ContainersNext]_containerVars
               PROVE  [Atomic!Next]_(Atomic!vars)
    OBVIOUS
  <2>1. CASE UNCHANGED containerVars
    BY <2>1 DEF containerVars, Atomic!vars, Phase, Live, Exists
  <2>2. ASSUME NEW j \in Launches, ContainerStep(j)
        PROVE  [Atomic!Next]_(Atomic!vars)
    BY <2>2, ContainerStepRefines
  <2> QED
    BY <2>1, <2>2 DEF ContainersNext, ContainerStep
<1> QED
  BY <1>1, ContainersInitRefines, ContainersInvariant, PTL
     DEF ContainersSpec, ImplementsCreation, Atomic!Spec

=============================================================================
