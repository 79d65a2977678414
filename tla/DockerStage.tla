----------------------------- MODULE DockerStage -----------------------------
(***************************************************************************)
(* One stage of a twin run: DockerRunner.run_stage (swap/docker_runner.py) *)
(* over DockerLifecycle (swap/docker_lifecycle.py), against a daemon that  *)
(* is not under the host's control.  Every docker command is a client      *)
(* process with a timeout.  When it is cut off, the command may have taken *)
(* effect, may never do so, or may still do so later; and the wait for the *)
(* killed client (process_io._collect) may itself time out, an exception   *)
(* that none of the handlers names.                                        *)
(***************************************************************************)
EXTENDS Naturals, Sequences, FiniteSets, SequencesExt

(* The keeper of the workspace volume, the initializer and the subject. *)
Containers == {"keeper", "initializer", "subject"}

VARIABLES
    pc,          \* the command the stage is at
    containers,  \* DockerLifecycle.containers
    volumes,     \* DockerLifecycle.volumes: whether it holds the volume
    todo,        \* the containers cleanup has yet to remove
    terminated, tree, blocked,  \* the StageResult: its process, tree, blockers
    raised,      \* the exception in flight: "none", "stage" or "escaped"
    daemon,      \* external: the state of each container
    volume,      \* external: whether the workspace volume exists
    pending,     \* external: commands that may still take effect
    late         \* external: whether one has done so after its client

resultVars == <<terminated, tree, blocked>>
daemonVars == <<daemon, volume, pending, late>>
stageVars  == <<pc, containers, volumes, todo, resultVars, raised, daemonVars>>

StageInit ==
    /\ pc = "inputs" /\ containers = <<>> /\ volumes = FALSE /\ todo = <<>>
    /\ terminated = FALSE /\ tree = FALSE /\ blocked = FALSE /\ raised = "none"
    /\ daemon = [n \in Containers |-> "absent"] /\ volume = FALSE
    /\ pending = {} /\ late = FALSE

-----------------------------------------------------------------------------
(* External: the daemon *)

Legal(cmd, n) ==
    CASE cmd = "create"   -> daemon[n] = "absent"
      [] cmd = "start"    -> daemon[n] \in {"created", "exited"}
      [] cmd = "kill"     -> daemon[n] = "running"
      [] cmd = "rm"       -> TRUE
      [] cmd = "mkvolume" -> TRUE
      [] cmd = "rmvolume" -> volume /\ \A m \in Containers : daemon[m] = "absent"

(* A container that mounts a volume which does not exist creates it. *)
Effect(cmd, n) ==
    /\ daemon' = CASE cmd = "create" -> [daemon EXCEPT ![n] = "created"]
                   [] cmd = "start"  -> [daemon EXCEPT ![n] = "running"]
                   [] cmd = "kill"   -> [daemon EXCEPT ![n] = "exited"]
                   [] cmd = "rm"     -> [daemon EXCEPT ![n] = "absent"]
                   [] OTHER          -> daemon
    /\ volume' = (cmd # "rmvolume" /\ (volume \/ cmd \in {"create", "mkvolume"}))

(* The client reports success; or it fails, whatever the daemon did. *)
Acknowledged(cmd, n) ==
    /\ Legal(cmd, n) /\ Effect(cmd, n)
    /\ UNCHANGED <<pending, late>>

CutOff(cmd, n) ==
    \/ Acknowledged(cmd, n)
    \/ UNCHANGED daemonVars
    \/ pending' = pending \cup {<<cmd, n>>} /\ UNCHANGED <<daemon, volume, late>>

(* A command of a client that is gone. *)
LateEffect ==
    /\ \E c \in pending :
         /\ pending' = pending \ {c}
         /\ \/ Legal(c[1], c[2]) /\ Effect(c[1], c[2])
            \/ ~Legal(c[1], c[2]) /\ UNCHANGED <<daemon, volume>>
    /\ late' = TRUE
    /\ UNCHANGED <<pc, containers, volumes, todo, resultVars, raised>>

(* The process of the subject or of the initializer ends. *)
ProcessExits(n) ==
    /\ n # "keeper" /\ daemon[n] = "running"
    /\ daemon' = [daemon EXCEPT ![n] = "exited"]
    /\ UNCHANGED <<pc, containers, volumes, todo, resultVars, raised, volume, pending, late>>

-----------------------------------------------------------------------------
(* Control flow of run_stage *)

(* finally: lifecycle.cleanup(), over the containers listed by then. *)
ToCleanup(listed, exception) ==
    /\ pc' = "cleanup"
    /\ containers' = listed
    /\ todo' = Reverse(listed)
    /\ raised' = exception

(* An OSError or RunnerError, or the TimeoutExpired of the second wait. *)
Exceptions == {"stage", "escaped"}

(* prepare_stage and preflight: nothing is owned yet. *)
StageInputs ==
    /\ pc = "inputs"
    /\ \/ pc' = "mkvolume" /\ UNCHANGED <<containers, todo, raised>>
       \/ \E e \in Exceptions : ToCleanup(containers, e)
    /\ UNCHANGED <<volumes, resultVars, daemonVars>>

(* DockerLifecycle.prepare, command by command. *)
AfterPrepare ==
    [mkvolume |-> "createKeeper", createKeeper |-> "startKeeper",
     startKeeper |-> "createInitializer", createInitializer |-> "startInitializer",
     startInitializer |-> "inspectInitializer", createSubject |-> "startSubject"]

PrepareCommand(at, cmd, n) ==
    LET listed == IF cmd = "create" THEN Append(containers, n) ELSE containers IN
    /\ pc = at
    /\ volumes' = (volumes \/ cmd = "mkvolume")
    /\ \/ Acknowledged(cmd, n) /\ pc' = AfterPrepare[at] /\ containers' = listed
          /\ UNCHANGED <<todo, raised>>
       \/ CutOff(cmd, n) /\ \E e \in Exceptions : ToCleanup(listed, e)
    /\ UNCHANGED resultVars

(* Mutant: a container is listed once its creation is acknowledged. *)
CreateListsLate(at, n) ==
    /\ pc = at
    /\ \/ Acknowledged("create", n) /\ pc' = AfterPrepare[at]
          /\ containers' = Append(containers, n) /\ UNCHANGED <<todo, raised>>
       \/ CutOff("create", n) /\ \E e \in Exceptions : ToCleanup(containers, e)
    /\ UNCHANGED <<volumes, resultVars>>

(* create: the name is listed before the command is issued. *)
CreateContainer(at, n) == PrepareCommand(at, "create", n)

InspectInitializer ==
    /\ pc = "inspectInitializer"
    /\ \/ daemon["initializer"] = "exited" /\ pc' = "createSubject"
          /\ UNCHANGED <<containers, todo, raised>>
       \/ \E e \in Exceptions : ToCleanup(containers, e)
    /\ UNCHANGED <<volumes, resultVars, daemonVars>>

Prepare ==
    \/ PrepareCommand("mkvolume", "mkvolume", "keeper")
    \/ CreateContainer("createKeeper", "keeper")
    \/ PrepareCommand("startKeeper", "start", "keeper")
    \/ CreateContainer("createInitializer", "initializer")
    \/ PrepareCommand("startInitializer", "start", "initializer")
    \/ InspectInitializer
    \/ CreateContainer("createSubject", "subject")

(* The subject's container: docker start -a, without a check of the exit   *)
(* code.  A timeout or too much output leads to a kill.                    *)
StartSubject ==
    /\ pc = "startSubject"
    /\ \/ Acknowledged("start", "subject") /\ pc' \in {"killSubject", "inspectSubject"}
          /\ blocked' = (pc' = "killSubject") /\ UNCHANGED <<containers, todo, raised>>
       \/ CutOff("start", "subject") /\ pc' \in {"killSubject", "inspectSubject", "report"}
          /\ blocked' = (pc' # "inspectSubject") /\ UNCHANGED <<containers, todo, raised>>
       \/ CutOff("start", "subject") /\ ToCleanup(containers, "escaped")
          /\ UNCHANGED blocked
    /\ UNCHANGED <<volumes, terminated, tree>>

KillSubject ==
    /\ pc = "killSubject"
    /\ \/ Acknowledged("kill", "subject") /\ pc' = "inspectSubject"
          /\ UNCHANGED <<containers, todo, raised>>
       \/ CutOff("kill", "subject") /\ pc' = "report" /\ UNCHANGED <<containers, todo, raised>>
       \/ CutOff("kill", "subject") /\ ToCleanup(containers, "escaped")
    /\ UNCHANGED <<volumes, resultVars>>

(* Mutant: a container that is not running is taken for one that exited. *)
InspectSubjectNotRunning ==
    /\ pc = "inspectSubject"
    /\ \/ /\ terminated' = (daemon["subject"] # "running")
          /\ blocked' \in {TRUE, blocked \/ ~terminated'}
          /\ pc' = "report" /\ UNCHANGED <<containers, todo, raised>>
       \/ pc' = "report" /\ blocked' = TRUE /\ UNCHANGED <<terminated, containers, todo, raised>>
       \/ ToCleanup(containers, "escaped") /\ UNCHANGED <<terminated, blocked>>
    /\ UNCHANGED <<volumes, tree, daemonVars>>

(* Mutant: the subject is waited for. *)
InspectSubjectWaits ==
    /\ pc = "inspectSubject"
    /\ daemon["subject"] = "exited"
    /\ terminated' = TRUE /\ pc' = "report"
    /\ UNCHANGED <<containers, volumes, todo, tree, blocked, raised, daemonVars>>

(* state: the container must be seen exited; out of memory is a blocker. *)
InspectSubject ==
    /\ pc = "inspectSubject"
    /\ \/ /\ terminated' = (daemon["subject"] = "exited")
          /\ blocked' \in {TRUE, blocked \/ ~terminated'}
          /\ pc' = "report" /\ UNCHANGED <<containers, todo, raised>>
       \/ pc' = "report" /\ blocked' = TRUE /\ UNCHANGED <<terminated, containers, todo, raised>>
       \/ ToCleanup(containers, "escaped") /\ UNCHANGED <<terminated, blocked>>
    /\ UNCHANGED <<volumes, tree, daemonVars>>

(* _snapshot: quota and copy, only of a workspace nobody writes any more. *)
Snapshot ==
    /\ pc = "report"
    /\ \/ ~terminated /\ ToCleanup(containers, raised) /\ UNCHANGED <<tree, blocked>>
       \/ /\ terminated /\ daemon["keeper"] = "running"
          /\ tree' = TRUE /\ ToCleanup(containers, raised) /\ UNCHANGED blocked
       \/ /\ terminated
          /\ blocked' = TRUE /\ ToCleanup(containers, raised) /\ UNCHANGED tree
       \/ terminated /\ ToCleanup(containers, "escaped") /\ UNCHANGED <<tree, blocked>>
    /\ UNCHANGED <<volumes, terminated, daemonVars>>

(* Mutant: a failed removal is forgotten. *)
RemoveForgets ==
    LET n == Head(todo) IN
    /\ pc = "cleanup" /\ todo # <<>>
    /\ Acknowledged("rm", n) \/ CutOff("rm", n)
    /\ containers' = RemoveFirst(containers, n) /\ todo' = Tail(todo)
    /\ UNCHANGED <<pc, volumes, resultVars, raised>>

(* cleanup: a container leaves the list only when its removal is           *)
(* acknowledged.                                                           *)
RemoveContainer ==
    LET n == Head(todo) IN
    /\ pc = "cleanup" /\ todo # <<>>
    /\ \/ Acknowledged("rm", n) /\ containers' = RemoveFirst(containers, n)
          /\ todo' = Tail(todo) /\ UNCHANGED <<pc, blocked, raised>>
       \/ CutOff("rm", n) /\ todo' = Tail(todo) /\ blocked' = TRUE
          /\ UNCHANGED <<pc, containers, raised>>
       \/ CutOff("rm", n) /\ pc' = "done" /\ raised' = "escaped"
          /\ UNCHANGED <<containers, todo, blocked>>
    /\ UNCHANGED <<volumes, terminated, tree>>

(* What run_stage hands on: a tree only if cleanup reported nothing. *)
Return(errors) ==
    /\ pc' = "done"
    /\ tree' = (tree /\ ~errors)
    /\ blocked' = (blocked \/ errors)

RemoveVolume ==
    /\ pc = "cleanup" /\ todo = <<>>
    /\ \/ containers # <<>> /\ Return(TRUE) /\ UNCHANGED <<volumes, raised, daemonVars>>
       \/ containers = <<>> /\ ~volumes /\ Return(FALSE)
          /\ UNCHANGED <<volumes, raised, daemonVars>>
       \/ /\ containers = <<>> /\ volumes
          /\ \/ Acknowledged("rmvolume", "keeper") /\ volumes' = FALSE /\ Return(FALSE)
                /\ UNCHANGED raised
             \/ CutOff("rmvolume", "keeper") /\ Return(TRUE) /\ UNCHANGED <<volumes, raised>>
             \/ CutOff("rmvolume", "keeper") /\ pc' = "done" /\ raised' = "escaped"
                /\ UNCHANGED <<volumes, tree, blocked>>
    /\ UNCHANGED <<containers, todo, terminated>>

StageStep ==
    \/ StageInputs \/ Prepare \/ StartSubject \/ KillSubject \/ InspectSubject
    \/ Snapshot \/ RemoveContainer \/ RemoveVolume

StageNext ==
    \/ StageStep \/ LateEffect
    \/ \E n \in Containers : ProcessExits(n)

(***************************************************************************)
(* The host is one sequential thread and every command has a timeout, so   *)
(* the stage goes on; nothing is assumed of the daemon or of the subject.  *)
(***************************************************************************)
StageSpec == StageInit /\ [][StageNext]_stageVars /\ WF_stageVars(StageStep)

-----------------------------------------------------------------------------
(* What the caller learns *)

Done == pc = "done"

Escaped == raised = "escaped"

(* StageError: run_stage has no result. *)
StageFails == Done /\ raised = "stage"

Reports == Done /\ raised = "none"

(* PairRunner.stage: self.uncertain after the stage. *)
Uncertain ==
    \/ StageFails /\ containers # <<>>
    \/ Reports /\ (~terminated \/ containers # <<>>)

NothingRuns == \A n \in Containers : daemon[n] # "running"

(***************************************************************************)
(* A stage that is not reported uncertain has left nothing running, and    *)
(* nothing will run: not after a lost answer to create, start, kill or rm, *)
(* nor when such a command takes effect after the stage has ended.         *)
(***************************************************************************)
CertainMeansNothingRuns == Done /\ ~Escaped /\ ~Uncertain => NothingRuns

(***************************************************************************)
(* Unknown live processes leave an uncertain state, however the stage      *)
(* ended (docs/adr/0005-m5-executable-contracts-and-swap.md).              *)
(***************************************************************************)
LiveProcessesAreUncertain == Done /\ ~NothingRuns => Uncertain

(***************************************************************************)
(* What inspect saw stays true: a subject that was reported terminated     *)
(* never runs again, so the captured workspace is final, and a tree is     *)
(* handed on only from a stage that removed all it owned.                  *)
(***************************************************************************)
CaptureIsFinal ==
    /\ terminated => daemon["subject"] # "running"
    /\ tree => terminated
    /\ Reports /\ tree => containers = <<>> /\ ~volumes

(***************************************************************************)
(* What the twin runner relies on.  Unless the daemon acts on a command    *)
(* after its client is gone, a container or a volume that outlives the     *)
(* stage is one the stage reports, also when create succeeded and its      *)
(* answer was lost; and a missing tree, a process that may be alive and a  *)
(* container that was kept are never reported without a blocker.           *)
(***************************************************************************)
RetainedIsComplete ==
    /\ Done /\ ~Escaped /\ ~late =>
         /\ \A n \in Containers : daemon[n] # "absent" => Contains(containers, n)
         /\ volume => volumes
    /\ Reports /\ (~tree \/ ~terminated \/ containers # <<>> \/ volumes) => blocked

(* However the daemon behaves, run_stage returns or raises. *)
StageEnds == <>Done
=============================================================================
