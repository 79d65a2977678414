------------------------------ MODULE TwinPair ------------------------------
(***************************************************************************)
(* The repetitions of one twin attempt: PairRunner (swap/twin_stages.py)   *)
(* driven by TwinRunner._execute, judged by BehaviorService                *)
(* (validate/behavior.py) and summed up by TwinRunner._finish              *)
(* (swap/twin_run.py).                                                     *)
(*                                                                         *)
(* The program is sequential; what each container does, and whether the    *)
(* authority is still current before each stage, is up to the environment. *)
(* A stage runs in a container of its own (DockerStage).  An exception     *)
(* inside a pair is swallowed where it happens and leaves a blocker, so    *)
(* that later stages may well run after an earlier one has failed.         *)
(***************************************************************************)
EXTENDS Naturals, Sequences, FiniteSets

CONSTANT Profiles   \* the profiles an attempt may be bound to

(* A CheckBinding: its phase, its number of subject probes and what it is  *)
(* expected to observe in the old and in the new run.                      *)
CheckBindings ==
    [id : STRING, phase : {"pre", "post", "pair"}, probes : Nat, old : BOOLEAN, new : BOOLEAN]

ASSUME ProfilesAreProfiles ==
    \A f \in Profiles :
      /\ f.checks \in Seq(CheckBindings) /\ f.repetitions \in Nat \ {0}
      /\ \A j, k \in DOMAIN f.checks : f.checks[j].id = f.checks[k].id => j = k

VARIABLES
    profile,    \* bound.profile: its checks, in order, and its repetitions
    rep,        \* the index of the repetition
    part, i, p, \* the part of the pair, the next check to look at, the probe of the check
    execute,    \* the local variable of pair
    captures,   \* what each check observed, per role
    executor,   \* the executor's process, per role
    tree,       \* whether the executor's tree was captured, per role
    blockers,   \* whether self.blockers or the report's blockers are non-empty
    uncertain,  \* self.uncertain
    verdicts,   \* the validity of the DifferentialReports
    state,      \* AttemptManifest.state
    faulty      \* history: some stage was denied, failed or blocked

pairVars == <<profile, rep, part, i, p, execute, captures, executor, tree, blockers,
              uncertain, verdicts, state, faulty>>

Checks == profile.checks
Repetitions == profile.repetitions

Roles == {"old", "new"}

(* The parts of a pair, in order: the phase and the role of the stages. *)
Parts == [preOld  |-> [phase |-> "pre",  role |-> "old"],
          preNew  |-> [phase |-> "pre",  role |-> "new"],
          postOld |-> [phase |-> "post", role |-> "old"],
          postNew |-> [phase |-> "post", role |-> "new"],
          pair    |-> [phase |-> "pair", role |-> "pair"]]

StageParts == DOMAIN Parts \cup {"execOld", "execNew"}

(* What is left of the loop over the checks. *)
Remaining == { j \in DOMAIN Checks : j >= i /\ Checks[j].phase = Parts[part].phase }

IdsOf(phases) == { Checks[j].id : j \in { n \in DOMAIN Checks : Checks[n].phase \in phases } }

(***************************************************************************)
(* A StageResult: what the process printed as its observation ("none" when *)
(* it failed, was cut off or printed something else), whether it was seen  *)
(* to terminate, whether a container was retained, the captured tree and   *)
(* the blockers.  DockerStage checks that faults come with blockers.       *)
(***************************************************************************)
StageResults ==
    { r \in [seen : {"true", "false", "none"}, terminated : BOOLEAN, retained : BOOLEAN,
             tree : BOOLEAN, blocked : BOOLEAN] :
        /\ ~r.terminated => r.seen = "none" /\ ~r.tree
        /\ r.retained => ~r.tree
        /\ ~r.tree => r.blocked }

NoCaptures == [r \in Roles \cup {"pair"} |-> [c \in {} |-> "none"]]

PairInit ==
    /\ profile \in Profiles
    /\ rep = 0 /\ part = "start" /\ i = 1 /\ p = 0
    /\ execute = FALSE /\ captures = NoCaptures
    /\ executor = [r \in Roles |-> "missing"] /\ tree = [r \in Roles |-> FALSE]
    /\ blockers = FALSE /\ uncertain = FALSE /\ verdicts = <<>>
    /\ state = "RUNNING" /\ faulty = FALSE

Captured(role, id) ==
    IF id \in DOMAIN captures[role] THEN captures[role][id] ELSE "missing"

Capture(role, id, seen) ==
    captures' = [captures EXCEPT ![role] =
                   [c \in DOMAIN captures[role] \cup {id} |->
                      IF c = id THEN seen ELSE captures[role][c]]]

-----------------------------------------------------------------------------
(* Stages *)

(* PairRunner.stage, when run_stage returns. *)
StageRuns(r) ==
    /\ uncertain' = (uncertain \/ ~r.terminated \/ r.retained)
    /\ blockers' = (blockers \/ r.blocked)
    /\ faulty' = (faulty \/ r.blocked)

(* Mutant: what a StageError retained is recorded and not looked at. *)
StageRaisesUnseen(retained) ==
    blockers' = TRUE /\ faulty' = TRUE /\ UNCHANGED uncertain

(***************************************************************************)
(* PairRunner.stage, when an exception leaves it: the refusal of fresh(), a *)
(* StageError, or whatever else comes out of run_stage.  Only a StageError  *)
(* names the containers it retained.  The handler adds a blocker.          *)
(***************************************************************************)
StageRaises(retained) ==
    /\ uncertain' = (uncertain \/ retained)
    /\ blockers' = TRUE
    /\ faulty' = TRUE

(* Where the list of checks of a part ends, or an exception in it. *)
AfterPart == [preOld |-> "preNew", preNew |-> "decide", postOld |-> "endOld",
              postNew |-> "endNew", pair |-> "compare"]

HandlerOf == [preOld |-> "decide", preNew |-> "decide", postOld |-> "endOld",
              postNew |-> "endNew", pair |-> "compare"]

GotoPart(next) == part' = next /\ i' = 1 /\ p' = 0

CheckStage(j, role) ==
    \E r \in StageResults :
      /\ StageRuns(r)
      /\ IF p < Checks[j].probes
         THEN /\ IF r.blocked \/ ~r.terminated
                 THEN GotoPart(HandlerOf[part])        \* PROBE_FAILED
                 ELSE p' = p + 1 /\ UNCHANGED <<part, i>>
              /\ UNCHANGED captures
         ELSE Capture(role, Checks[j].id, r.seen) /\ i' = j + 1 /\ p' = 0 /\ UNCHANGED part

(***************************************************************************)
(* checks and check: the next probe or check of the part.  A probe that    *)
(* failed raises; a check that failed is captured and the list goes on.    *)
(***************************************************************************)
RunCheck ==
    /\ part \in DOMAIN Parts
    /\ \/ /\ Remaining = {} /\ GotoPart(AfterPart[part])
          /\ UNCHANGED <<captures, uncertain, blockers, faulty>>
       \/ \E j \in Remaining :
            (\A k \in Remaining : j <= k) /\ CheckStage(j, Parts[part].role)
       \/ /\ Remaining # {}
          /\ \E retained \in BOOLEAN : StageRaises(retained)
          /\ GotoPart(HandlerOf[part])
          /\ UNCHANGED captures
    /\ UNCHANGED <<rep, execute, executor, tree, verdicts, state>>

(* Every precondition of both roles was observed to hold. *)
PreHeld == \A role \in Roles, id \in IdsOf({"pre"}) : Captured(role, id) = "true"

(* Mutant: only the new role's preconditions are looked at. *)
DecideNewOnly ==
    /\ part = "decide"
    /\ execute' = (~blockers /\ \A id \in IdsOf({"pre"}) : Captured("new", id) = "true")
    /\ blockers' = (blockers \/ ~execute')
    /\ GotoPart(IF execute' THEN "execOld" ELSE "endOld")
    /\ UNCHANGED <<rep, captures, executor, tree, uncertain, verdicts, state,
                   faulty>>

(* pair: blockers of earlier repetitions count as well. *)
Decide ==
    /\ part = "decide"
    /\ execute' = (PreHeld /\ ~blockers)
    /\ blockers' = (blockers \/ ~execute')
    /\ GotoPart(IF execute' THEN "execOld" ELSE "endOld")
    /\ UNCHANGED <<rep, captures, executor, tree, uncertain, verdicts, state,
                   faulty>>

(* role: the executor; its checks follow when there is a tree and nothing   *)
(* is uncertain.                                                            *)
RunExecutor(role, at, post, end) ==
    /\ part = at
    /\ \/ \E r \in StageResults :
            /\ StageRuns(r)
            /\ executor' = [executor EXCEPT ![role] = IF r.seen = "none" THEN "bad" ELSE "ok"]
            /\ tree' = [tree EXCEPT ![role] = r.tree]
            /\ GotoPart(IF r.tree /\ ~uncertain' THEN post ELSE end)
       \/ \E retained \in BOOLEAN :
            StageRaises(retained) /\ GotoPart(end) /\ UNCHANGED <<executor, tree>>
    /\ UNCHANGED <<rep, execute, captures, verdicts, state>>

(* An exception in _execute: it goes straight to _finish. *)
Abort ==
    /\ GotoPart("finish")
    /\ blockers' = TRUE
    /\ UNCHANGED <<rep, execute, captures, executor, tree, uncertain, verdicts,
                   state, faulty>>

(* _execute up to its first pair: the views, fresh() and the source tree. *)
Start ==
    /\ part = "start"
    /\ \/ Abort
       \/ /\ GotoPart("preOld")
          /\ UNCHANGED <<rep, execute, captures, executor, tree, blockers, uncertain,
                         verdicts, state, faulty>>

(* Mutant: the new role runs although the old one's process may be alive. *)
EndOldGoesOn ==
    /\ part = "endOld"
    /\ \/ Abort
       \/ /\ GotoPart(IF execute THEN "execNew" ELSE "endNew")
          /\ UNCHANGED <<rep, execute, captures, executor, tree, blockers, uncertain,
                         verdicts, state, faulty>>

(* record_run of the old role, and the condition of the new one.  The       *)
(* recorder fails when the record cannot be written.                        *)
EndOld ==
    /\ part = "endOld"
    /\ \/ Abort
       \/ /\ GotoPart(IF execute /\ ~uncertain THEN "execNew" ELSE "endNew")
          /\ UNCHANGED <<rep, execute, captures, executor, tree, blockers, uncertain,
                         verdicts, state, faulty>>

(* _post_complete: every check but the paired ones was observed. *)
PostComplete ==
    \A role \in Roles :
      /\ DOMAIN captures[role] = IdsOf({"pre", "post"})
      /\ \A id \in DOMAIN captures[role] : captures[role][id] # "none"

(* Mutant: the pair is waited for until both roles are complete. *)
EndNewWaits ==
    /\ part = "endNew"
    /\ tree["old"] /\ tree["new"] /\ PostComplete /\ ~uncertain
    /\ GotoPart("pair")
    /\ UNCHANGED <<rep, execute, captures, executor, tree, blockers, uncertain,
                   verdicts, state, faulty>>

(* record_run of the new role, and the condition of the paired checks. *)
EndNew ==
    /\ part = "endNew"
    /\ \/ Abort
       \/ /\ GotoPart(IF tree["old"] /\ tree["new"] /\ PostComplete /\ ~uncertain
                      THEN "pair" ELSE "compare")
          /\ UNCHANGED <<rep, execute, captures, executor, tree, blockers, uncertain,
                         verdicts, state, faulty>>

-----------------------------------------------------------------------------
(* Judgement *)

Expected(c, role) == IF role = "old" THEN c.old ELSE c.new

(* evaluate_contract: the evidence is complete and as expected. *)
ContractHolds(role) ==
    /\ executor[role] = "ok" /\ tree[role]
    /\ DOMAIN captures[role] = IdsOf({"pre", "post"})
    /\ \A j \in DOMAIN Checks : Checks[j].phase # "pair" =>
         Captured(role, Checks[j].id) = IF Expected(Checks[j], role) THEN "true" ELSE "false"

(* _pair_traces: there are paired checks and all of them observed true. *)
PairHolds ==
    /\ IdsOf({"pair"}) # {}
    /\ \A id \in IdsOf({"pair"}) : Captured("pair", id) = "true"

(***************************************************************************)
(* record_pair and compare_runs.  genuine stands for what is decided on    *)
(* bytes: the scope of the changes, identities, times and snapshots, and   *)
(* whether the report could be persisted.                                  *)
(***************************************************************************)
Compare ==
    /\ part = "compare"
    /\ \/ Abort
       \/ \E genuine \in BOOLEAN :
            /\ verdicts' = Append(verdicts, genuine /\ PairHolds
                                            /\ \A role \in Roles : ContractHolds(role))
            /\ IF rep + 1 < Repetitions /\ ~uncertain
               THEN GotoPart("preOld") /\ rep' = rep + 1
               ELSE GotoPart("evaluate") /\ UNCHANGED rep
            /\ captures' = NoCaptures /\ execute' = FALSE
            /\ executor' = [r \in Roles |-> "missing"] /\ tree' = [r \in Roles |-> FALSE]
            /\ UNCHANGED <<blockers, uncertain, state, faulty>>

AllValid ==
    Len(verdicts) = Repetitions /\ \A n \in 1..Len(verdicts) : verdicts[n]

(***************************************************************************)
(* evaluate_repetitions, and the last fresh().  stable stands for what is  *)
(* decided on bytes: the reports verify again, their outcomes are the same *)
(* and the report of the group could be persisted.                         *)
(***************************************************************************)
Evaluate ==
    /\ part = "evaluate"
    /\ \E stable, denied \in BOOLEAN :
         /\ blockers' = (blockers \/ ~AllValid \/ ~stable \/ denied)
         /\ faulty' = (faulty \/ denied)
    /\ GotoPart("finish")
    /\ UNCHANGED <<rep, execute, captures, executor, tree, uncertain, verdicts,
                   state>>

(* Mutant: a valid report is enough. *)
FinishOnReport ==
    /\ part = "finish"
    /\ state' = IF uncertain THEN "UNCERTAIN" ELSE IF AllValid THEN "COMPLETE" ELSE "FAILED"
    /\ GotoPart("done")
    /\ UNCHANGED <<rep, execute, captures, executor, tree, blockers, uncertain,
                   verdicts, faulty>>

(* _finish: the state of the manifest. *)
Finish ==
    /\ part = "finish"
    /\ state' = IF uncertain THEN "UNCERTAIN"
                ELSE IF AllValid /\ ~blockers THEN "COMPLETE" ELSE "FAILED"
    /\ GotoPart("done")
    /\ UNCHANGED <<rep, execute, captures, executor, tree, blockers, uncertain,
                   verdicts, faulty>>

PairStep ==
    /\ \/ Start \/ RunCheck \/ Decide
       \/ RunExecutor("old", "execOld", "postOld", "endOld") \/ EndOld
       \/ RunExecutor("new", "execNew", "postNew", "endNew") \/ EndNew
       \/ Compare \/ Evaluate \/ Finish
    /\ UNCHANGED profile

(* One sequential thread, every stage of which ends (DockerStage). *)
PairSpec == PairInit /\ [][PairStep]_pairVars /\ WF_pairVars(PairStep)

-----------------------------------------------------------------------------
(* Properties *)

(***************************************************************************)
(* COMPLETE is earned: every repetition was judged valid, and no stage of  *)
(* any repetition was denied, failed or blocked, though the exceptions of  *)
(* the stages were swallowed and the run went on.                          *)
(***************************************************************************)
CompleteIsEarned ==
    state = "COMPLETE" => AllValid /\ ~faulty /\ ~uncertain

(***************************************************************************)
(* An executor starts only when every precondition of both roles has been  *)
(* observed to hold in the same repetition; the old one only when nothing  *)
(* has failed in any repetition so far, and the new one only when no stage *)
(* was reported uncertain.                                                 *)
(***************************************************************************)
ExecutorsNeedPreconditions ==
    /\ part \in {"execOld", "execNew"} => PreHeld
    /\ part = "execOld" => ~faulty
    /\ part = "execNew" => ~uncertain

(***************************************************************************)
(* Once a stage was reported uncertain (a process not known to have ended, *)
(* or a container retained), nothing starts any more but the remaining     *)
(* checks of the same phase: no executor, no check of another phase and no *)
(* further repetition.  This is about what is reported: a TimeoutExpired   *)
(* that escapes from a stage is a StageRaises(FALSE) here, which blocks the *)
(* pair without any word on what the stage has left running.               *)
(***************************************************************************)
UncertaintyStopsTheRun ==
    [][uncertain' /\ part' # part =>
         part' \notin StageParts \/ (part = "preOld" /\ part' = "preNew")]_pairVars

(***************************************************************************)
(* The attempt always gets to a manifest, and once a stage was reported    *)
(* uncertain to an UNCERTAIN one, whatever fails or is raised afterwards.  *)
(***************************************************************************)
AttemptEnds == <>(state # "RUNNING") /\ (uncertain ~> state = "UNCERTAIN")
=============================================================================
