----------------------------- MODULE Containers -----------------------------
(***************************************************************************)
(* executor/container.go: the calls by which CreateInteractive ("run"),    *)
(* CreateShell ("shell") and RunNonInteractive (REST) get a container,     *)
(* each of which may fail, and what each failure undoes: the host          *)
(* directory the code is staged in, the container, and the context.        *)
(* CreateInteractive and CreateShell undo by hand in every error branch;   *)
(* RunNonInteractive defers it. Launches share nothing here: Console has   *)
(* what happens to a container once it is made.                            *)
(*                                                                         *)
(* Of Docker: a container it was told to remove may stay, and one may be   *)
(* created although the call returned an error (the answer was lost).      *)
(***************************************************************************)
EXTENDS Naturals

CONSTANTS
  Runs,      (* "run" messages                                             *)
  Shells,    (* "shell" messages                                           *)
  Requests   (* REST requests                                              *)

Launches == Runs \union Shells \union Requests

ASSUME KindsAssumption ==
  /\ Runs \intersect Shells = {}
  /\ (Runs \union Shells) \intersect Requests = {}

VARIABLES
  step,      (* [Launches] the call it is at; made, answered, failed, or   *)
             (* crashed with its process (Lifetimes)                       *)
  dir,       (* [Launches] its staging directory exists on the host        *)
  box,       (* [Launches] its container: none, created, running, exited,  *)
             (* gone, or stray (it exists and nobody will remove it)       *)
  code,      (* [Launches] the container has the staged files              *)
  ctx        (* [Launches] its context: none, open or cancelled            *)

containerVars == <<step, dir, box, code, ctx>>

BeforeCreate == {"image", "dir", "files", "create"}
AfterCreate  == {"copy", "start", "attach"}
Serving      == {"await", "logs"}
Ended        == {"failed", "answered"}
Over         == Ended \union {"crashed"}

ContainersTypeOK ==
  /\ step \in [Launches -> {"unused", "made"} \union BeforeCreate
                             \union AfterCreate \union Serving \union Over]
  /\ dir \in [Launches -> BOOLEAN]
  /\ box \in [Launches -> {"none", "created", "running", "exited", "gone",
                           "stray"}]
  /\ code \in [Launches -> BOOLEAN]
  /\ ctx \in [Launches -> {"none", "open", "cancelled"}]

ContainersInit ==
  /\ step = [j \in Launches |-> "unused"]
  /\ dir = [j \in Launches |-> FALSE]
  /\ box = [j \in Launches |-> "none"]
  /\ code = [j \in Launches |-> FALSE]
  /\ ctx = [j \in Launches |-> "none"]

Goto(j, call) == step' = [step EXCEPT ![j] = call]

Exists(j) == box[j] \in {"created", "running", "exited"}

(* docker.Remove with force: it ignores Docker's error.                    *)
Remove(j) ==
  IF Exists(j)
  THEN \E left \in {"gone", "stray"} : box' = [box EXCEPT ![j] = left]
  ELSE UNCHANGED box

-----------------------------------------------------------------------------
Ask(j) ==
  /\ step[j] = "unused"
  /\ ctx' = [ctx EXCEPT ![j] = "open"]
  /\ Goto(j, "image")
  /\ UNCHANGED <<dir, box, code>>

(* ensureImage: the image is there, or one of two pulls brings it.         *)
EnsureImage(j) ==
  /\ step[j] = "image"
  /\ Goto(j, IF j \in Shells THEN "create" ELSE "dir")
  /\ UNCHANGED <<dir, box, code, ctx>>

MakeDir(j) ==
  /\ step[j] = "dir"
  /\ dir' = [dir EXCEPT ![j] = TRUE]
  /\ Goto(j, "files")
  /\ UNCHANGED <<box, code, ctx>>

(* The code, the extra files (which may be skipped), go.mod, the wrapper.  *)
WriteFiles(j) ==
  /\ step[j] = "files"
  /\ Goto(j, "create")
  /\ UNCHANGED <<dir, box, code, ctx>>

(* Mutant of CreateContainer: it is started before the files are copied.   *)
CreateContainerUncopied(j) ==
  /\ step[j] = "create"
  /\ box' = [box EXCEPT ![j] = "created"]
  /\ Goto(j, "start")
  /\ UNCHANGED <<dir, code, ctx>>

CreateContainer(j) ==
  /\ step[j] = "create"
  /\ box' = [box EXCEPT ![j] = "created"]
  /\ Goto(j, IF j \in Shells THEN "start" ELSE "copy")
  /\ UNCHANGED <<dir, code, ctx>>

(* Mutant of CopyFiles: the staging directory is left for the caller, whose*)
(* TempDir field is empty.                                                 *)
CopyFilesKeepsDir(j) ==
  /\ step[j] = "copy"
  /\ code' = [code EXCEPT ![j] = TRUE]
  /\ Goto(j, "start")
  /\ UNCHANGED <<dir, box, ctx>>

(* copyFilesToContainer. A run has no more use for the directory; a REST   *)
(* request keeps it to its end.                                            *)
CopyFiles(j) ==
  /\ step[j] = "copy"
  /\ code' = [code EXCEPT ![j] = TRUE]
  /\ dir' = [dir EXCEPT ![j] = @ /\ j \notin Runs]
  /\ Goto(j, "start")
  /\ UNCHANGED <<box, ctx>>

StartContainer(j) ==
  /\ step[j] = "start"
  /\ box' = [box EXCEPT ![j] = "running"]
  /\ Goto(j, "attach")
  /\ UNCHANGED <<dir, code, ctx>>

(* The program has been running since ContainerStart, and may be over.     *)
Attach(j) ==
  /\ step[j] = "attach"
  /\ Goto(j, IF j \in Requests THEN "await" ELSE "made")
  /\ UNCHANGED <<dir, box, code, ctx>>

(* ContainerWait of a REST request.                                        *)
AwaitExit(j) ==
  /\ step[j] = "await"
  /\ box[j] = "exited"
  /\ Goto(j, "logs")
  /\ UNCHANGED <<dir, box, code, ctx>>

-----------------------------------------------------------------------------
Cancel(j) == ctx' = [ctx EXCEPT ![j] = "cancelled"]

(* In which error branches of a run os.RemoveAll is called; the directory  *)
(* of a REST request is deferred as soon as it is made.                    *)
DropsDir(j) ==
  \/ step[j] \in {"files", "create", "copy"}
  \/ j \in Requests /\ step[j] \notin {"image", "dir"}

(* A call up to ContainerCreate fails. There is no ID to remove, even if   *)
(* the container was created.                                              *)
FailsBefore(j) ==
  /\ step[j] \in BeforeCreate
  /\ dir' = [dir EXCEPT ![j] = @ /\ ~DropsDir(j)]
  /\ \/ UNCHANGED box
     \/ step[j] = "create" /\ box' = [box EXCEPT ![j] = "stray"]
  /\ Cancel(j)
  /\ Goto(j, "failed")
  /\ UNCHANGED code

(* Mutant of FailsAfter: no Remove in the branch of ContainerAttach.       *)
FailsAfterForgets(j) ==
  /\ step[j] \in AfterCreate \union Serving
  /\ dir' = [dir EXCEPT ![j] = @ /\ ~DropsDir(j)]
  /\ IF step[j] = "attach" THEN UNCHANGED box ELSE Remove(j)
  /\ Cancel(j)
  /\ Goto(j, "failed")
  /\ UNCHANGED code

(* A later call fails, or the 30 seconds of a REST request are over.       *)
FailsAfter(j) ==
  /\ step[j] \in AfterCreate \union Serving
  /\ dir' = [dir EXCEPT ![j] = @ /\ ~DropsDir(j)]
  /\ Remove(j)
  /\ Cancel(j)
  /\ Goto(j, "failed")
  /\ UNCHANGED code

(* ContainerLogs and the answer to a REST request, with all it deferred.   *)
Answer(j) ==
  /\ step[j] = "logs"
  /\ dir' = [dir EXCEPT ![j] = FALSE]
  /\ Remove(j)
  /\ Cancel(j)
  /\ Goto(j, "answered")
  /\ UNCHANGED code

ProgramEnds(j) ==
  /\ box[j] = "running"
  /\ box' = [box EXCEPT ![j] = "exited"]
  /\ UNCHANGED <<step, dir, code, ctx>>

CreationStep(j) ==
  \/ EnsureImage(j) \/ MakeDir(j) \/ WriteFiles(j) \/ CreateContainer(j)
  \/ CopyFiles(j) \/ StartContainer(j) \/ Attach(j)
  \/ AwaitExit(j) \/ Answer(j) \/ FailsBefore(j) \/ FailsAfter(j)

ContainersNext ==
  \E j \in Launches : Ask(j) \/ CreationStep(j) \/ ProgramEnds(j)

ContainersSpec == ContainersInit /\ [][ContainersNext]_containerVars

-----------------------------------------------------------------------------
(* Whichever call fails, nothing is left behind: no directory on the host, *)
(* no open context, and no container but one Docker kept or created        *)
(* without an answer. The same holds of a REST request that was answered,  *)
(* and a made container leaves nothing on the host.                        *)
NothingLeft ==
  \A j \in Launches :
    /\ step[j] \in Ended => ~Exists(j) /\ ~dir[j] /\ ctx[j] = "cancelled"
    /\ step[j] = "made" => ~dir[j]

(* "Create -> copy -> start has no race": no program of a user ever runs   *)
(* in a container that its files have not reached.                         *)
FilesBeforeStart ==
  \A j \in Runs \union Requests : box[j] \in {"running", "exited"} => code[j]

Phase(j) ==
  IF step[j] \in Over THEN "over"
  ELSE IF step[j] \in Serving \union {"made"} THEN "live" ELSE "asked"

(* The container of a launch as Sessions knows it: one step makes it, and  *)
(* it is live until it is removed, whether or not its program is running.  *)
Live(j) ==
  IF Phase(j) = "asked" THEN "none"
  ELSE IF Exists(j) THEN "live" ELSE box[j]

Atomic == INSTANCE Creation WITH
  phase <- [j \in Launches |-> Phase(j)],
  ctr <- [j \in Launches |-> Live(j)]

(* Seen from the handlers, the seven or eight calls are one: a container   *)
(* or an error that leaves none.                                           *)
ImplementsCreation == Atomic!Spec

=============================================================================
