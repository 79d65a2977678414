----------------------------- MODULE TwinProofs -----------------------------
(***************************************************************************)
(* Theorems about the twins.  TwinAttempt, for any number of calls,        *)
(* approvals, configurations and stages: an attempt is executed at most    *)
(* once, its row is completed only with an outcome that is in the journal, *)
(* and a call is answered only with the outcome its own binding has earned. *)
(* TwinPair, for any profile: COMPLETE is earned, executors are guarded by *)
(* their preconditions, and a stage reported uncertain stops the run.      *)
(***************************************************************************)
EXTENDS TwinAttempt, TwinPair, TLAPS

-----------------------------------------------------------------------------
(* The attempts *)

(* What holds of one call, by where it is. *)
CallInv(r) ==
    /\ pc[r] \in {"execute", "append", "complete"} =>
         r \in executed /\ row # NoRow /\ row.binding = binding[r]
    /\ pc[r] \in {"append", "complete"} =>
         outcome[r].by = r /\ outcome[r].binding = binding[r]
    /\ pc[r] = "complete" => outcome[r] \in journal
    /\ pc[r] \in {"verify", "durable", "fresh", "returned"} =>
         outcome[r].binding = binding[r]
    /\ pc[r] \in {"fresh", "returned"} =>
         row.state = "COMPLETE" /\ row.outcome = outcome[r]

(***************************************************************************)
(* The inductive invariant: a call that has executed has left a row, and   *)
(* the row never goes away, so that no other call finds the key free.      *)
(***************************************************************************)
AttemptInv ==
    /\ AtMostOneExecution
    /\ executed # {} => row # NoRow
    /\ CompletedRowsHaveRecords
    /\ \A r \in Runners : CallInv(r)

(* The states of the type invariant are kept by every step of a call: *)
(* run and verify_outcome.                                            *)
LEMMA StepTypes ==
    ASSUME AttemptTypeOK, NEW r \in Runners, RunStep(r)
    PROVE  AttemptTypeOK'
<1> USE DEF AttemptTypeOK, Goto, Fail, Ended
<1>1. CASE Bind(r)
  BY <1>1 DEF Bind, Bindings
<1>2. CASE Reserve(r)
  <2>1. binding[r] \in Bindings /\ pc[r] = "reserve"
    BY <1>2 DEF Reserve
  <2>2. CASE ReserveNew(r)
    BY <1>2, <2>1, <2>2 DEF Reserve, ReserveNew
  <2>3. CASE ReserveCompleted(r)
    <3>1. row.outcome \in Outcomes
      BY <2>3 DEF ReserveCompleted, NoRow
    <3> QED BY <1>2, <2>1, <2>3, <3>1 DEF Reserve, ReserveCompleted
  <2>4. CASE Fail(r)
    BY <1>2, <2>4 DEF Reserve
  <2> QED BY <1>2, <2>2, <2>3, <2>4 DEF Reserve
<1>3. CASE ExecuteStage(r)
  <2>1. stages' \in [Runners -> 0..StageCount]
    BY <1>3, StageCountAssumption DEF ExecuteStage
  <2>2. blocked' \in [Runners -> BOOLEAN]
    BY <1>3 DEF ExecuteStage
  <2> QED BY <1>3, <2>1, <2>2 DEF ExecuteStage
<1>4. CASE EndExecution(r)
  <2>1. binding[r] \in Bindings
    BY <1>4 DEF EndExecution
  <2> QED BY <1>4, <2>1 DEF EndExecution, Outcomes
<1>5. CASE AppendRecord(r)
  BY <1>5 DEF AppendRecord
<1>6. CASE CompleteRow(r)
  <2>1. row.state = "RUNNING" => row.binding \in Bindings
    BY DEF NoRow
  <2> QED BY <1>6, <2>1 DEF CompleteRow
<1>7. CASE VerifyBind(r)
  BY <1>7 DEF VerifyBind, Bindings, Outcomes
<1>8. CASE VerifyDurable(r)
  BY <1>8 DEF VerifyDurable
<1>9. CASE VerifyFresh(r)
  BY <1>9 DEF VerifyFresh
<1> QED BY <1>1, <1>2, <1>3, <1>4, <1>5, <1>6, <1>7, <1>8, <1>9 DEF RunStep

(* Crashes and changes of the authority keep the types as well. *)
LEMMA TypesKept ==
    ASSUME AttemptTypeOK, [AttemptNext]_attemptVars
    PROVE  AttemptTypeOK'
<1>1. CASE \E r \in Runners : RunStep(r)
  BY <1>1, StepTypes
<1>2. CASE \E r \in Runners : Crash(r)
  BY <1>2 DEF Crash, Goto, Ended, AttemptTypeOK
<1>3. CASE AuthorityChanges
  BY <1>3 DEF AuthorityChanges, AttemptTypeOK
<1>4. CASE UNCHANGED attemptVars
  BY <1>4 DEF attemptVars, AttemptTypeOK
<1> QED BY <1>1, <1>2, <1>3, <1>4 DEF AttemptNext

(***************************************************************************)
(* Type correctness of the attempt: the row, the records and the locals of *)
(* TwinRunner.run keep their shapes, and a call that is past _bind holds a *)
(* binding.                                                                *)
(***************************************************************************)
THEOREM AttemptTypeCorrect == AttemptSpec => []AttemptTypeOK
<1>1. AttemptInit => AttemptTypeOK
  BY StageCountAssumption DEF AttemptInit, AttemptTypeOK, Ended
<1>2. AttemptTypeOK /\ [AttemptNext]_attemptVars => AttemptTypeOK'
  BY TypesKept
<1> QED BY <1>1, <1>2, PTL DEF AttemptSpec

-----------------------------------------------------------------------------
(***************************************************************************)
(* A step of TwinRunner.run or verify_outcome by one call keeps the        *)
(* invariant: a step that touches neither the row, nor the journal, nor    *)
(* the calls that have executed, concerns that call only.                  *)
(***************************************************************************)
LEMMA StepKeepsInv ==
    ASSUME AttemptTypeOK, AttemptInv, NEW r \in Runners, RunStep(r)
    PROVE  AttemptInv'
<1> USE DEF AttemptTypeOK, AttemptInv, Goto, Ended, AtMostOneExecution,
            CompletedRowsHaveRecords, CallInv
<1>0. CASE Fail(r)
  BY <1>0 DEF Fail
<1>1. CASE Bind(r) /\ ~Fail(r)
  BY <1>1 DEF Bind
<1>2. CASE Reserve(r) /\ ~Fail(r)
  <2>1. CASE ReserveNew(r)
    <3>1. executed = {}
      BY <2>1 DEF ReserveNew
    <3>2. \A s \in Runners : pc[s] \notin {"execute", "append", "complete", "fresh", "returned"}
      BY <2>1, <3>1 DEF ReserveNew, NoRow
    <3> QED BY <1>2, <2>1, <3>1, <3>2 DEF Reserve, ReserveNew, NoRow
  <2>2. CASE row # NoRow /\ row.binding = binding[r] /\ ReserveCompleted(r)
    BY <1>2, <2>2 DEF Reserve, ReserveCompleted
  <2> QED BY <1>2, <2>1, <2>2 DEF Reserve
<1>3. CASE ExecuteStage(r)
  BY <1>3 DEF ExecuteStage
<1>4. CASE EndExecution(r)
  BY <1>4 DEF EndExecution
<1>5. CASE AppendRecord(r) /\ ~Fail(r)
  BY <1>5 DEF AppendRecord
<1>6. CASE CompleteRow(r) /\ ~Fail(r)
  <2>1. pc[r] = "complete" /\ row.state = "RUNNING" /\ row # NoRow
    BY <1>6 DEF CompleteRow, NoRow
  <2>2. \A s \in Runners : pc[s] \notin {"fresh", "returned"}
    BY <2>1
  <2> QED BY <1>6, <2>1, <2>2 DEF CompleteRow, NoRow
<1>7. CASE VerifyBind(r) /\ ~Fail(r)
  BY <1>7 DEF VerifyBind
<1>8. CASE VerifyDurable(r) /\ ~Fail(r)
  BY <1>8 DEF VerifyDurable
<1>9. CASE VerifyFresh(r) /\ ~Fail(r)
  BY <1>9 DEF VerifyFresh
<1> QED BY <1>0, <1>1, <1>2, <1>3, <1>4, <1>5, <1>6, <1>7, <1>8, <1>9 DEF RunStep

(* So do crashes and changes of the authority. *)
LEMMA InvKept ==
    ASSUME AttemptTypeOK, AttemptInv, [AttemptNext]_attemptVars
    PROVE  AttemptInv'
<1> USE DEF AttemptTypeOK, AttemptInv, AtMostOneExecution, CompletedRowsHaveRecords, CallInv
<1>1. CASE \E r \in Runners : RunStep(r)
  BY <1>1, StepKeepsInv
<1>2. CASE \E r \in Runners : Crash(r)
  BY <1>2 DEF Crash, Goto
<1>3. CASE AuthorityChanges
  BY <1>3 DEF AuthorityChanges
<1>4. CASE UNCHANGED attemptVars
  BY <1>4 DEF attemptVars
<1> QED BY <1>1, <1>2, <1>3, <1>4 DEF AttemptNext

(* The invariant of TwinRunner.run's row, journal and calls always holds. *)
THEOREM AttemptInvariant == AttemptSpec => []AttemptInv
<1>1. AttemptInit => AttemptInv
  BY DEF AttemptInit, AttemptInv, AtMostOneExecution, CompletedRowsHaveRecords, CallInv, NoRow
<1>2. AttemptTypeOK /\ AttemptInv /\ [AttemptNext]_attemptVars => AttemptInv'
  BY InvKept
<1> QED BY <1>1, <1>2, AttemptTypeCorrect, PTL DEF AttemptSpec

(***************************************************************************)
(* However many calls there are, and whatever crashes, fails or is         *)
(* revoked, TwinRunner.run executes an attempt at most once.               *)
(***************************************************************************)
THEOREM ExecutedOnce == AttemptSpec => []AtMostOneExecution
<1>1. AttemptInv => AtMostOneExecution
  BY DEF AttemptInv
<1> QED BY <1>1, AttemptInvariant, PTL

(* A completed row of m5_twin_attempts is backed by its journal record. *)
THEOREM RecordsComeFirst == AttemptSpec => []CompletedRowsHaveRecords
<1>1. AttemptInv => CompletedRowsHaveRecords
  BY DEF AttemptInv
<1> QED BY <1>1, AttemptInvariant, PTL

(* What TwinRunner.run returns belongs to the caller's own binding. *)
THEOREM AnswersBelong == AttemptSpec => []AnswersAreBound
<1>1. AttemptInv => AnswersAreBound
  BY DEF AttemptInv, AnswersAreBound, CallInv
<1> QED BY <1>1, AttemptInvariant, PTL

-----------------------------------------------------------------------------
(* The pairs *)

(* The parts of the runner's program. *)
PartNames ==
    {"start", "preOld", "preNew", "decide", "execOld", "postOld", "endOld", "execNew",
     "postNew", "endNew", "pair", "compare", "evaluate", "finish", "done"}

AllRoles == {"old", "new", "pair"}

(* Captures are kept per role. *)
PairShape ==
    /\ profile \in Profiles /\ part \in PartNames
    /\ captures = [r \in AllRoles |-> captures[r]]

(* The handlers and the stages report all that goes wrong. *)
FaultsAreBlockers == (faulty \/ uncertain => blockers) /\ (part = "start" => ~uncertain)

(* What the preconditions allow is decided once and kept by the checks. *)
DecidedOnce ==
    /\ execute /\ part \in {"execOld", "postOld", "endOld", "execNew"} => PreHeld
    /\ part = "execOld" => execute /\ ~blockers
    /\ part = "postOld" => execute
    /\ part = "execNew" => execute /\ ~uncertain

(* The state of the manifest is written last. *)
Judged ==
    /\ part # "done" => state = "RUNNING"
    /\ state = "COMPLETE" => AllValid /\ ~blockers

PairInv == PairShape /\ FaultsAreBlockers /\ DecidedOnce /\ Judged

(* A record of five parts has these five fields. *)
LEMMA PartFacts ==
    /\ DOMAIN Parts = {"preOld", "preNew", "postOld", "postNew", "pair"}
    /\ Parts["preOld"] = [phase |-> "pre", role |-> "old"]
    /\ Parts["preNew"] = [phase |-> "pre", role |-> "new"]
    /\ Parts["postOld"] = [phase |-> "post", role |-> "old"]
    /\ Parts["postNew"] = [phase |-> "post", role |-> "new"]
    /\ Parts["pair"] = [phase |-> "pair", role |-> "pair"]
  BY DEF Parts

(* Where a part ends, and where its handler goes on. *)
LEMMA AfterFacts ==
    /\ AfterPart["preOld"] = "preNew" /\ AfterPart["preNew"] = "decide"
    /\ AfterPart["postOld"] = "endOld" /\ AfterPart["postNew"] = "endNew"
    /\ AfterPart["pair"] = "compare"
    /\ HandlerOf["preOld"] = "decide" /\ HandlerOf["preNew"] = "decide"
    /\ HandlerOf["postOld"] = "endOld" /\ HandlerOf["postNew"] = "endNew"
    /\ HandlerOf["pair"] = "compare"
  BY DEF AfterPart, HandlerOf

(* What makes a stage uncertain comes with a blocker. *)
LEMMA UncertainIsBlocked ==
    ASSUME NEW r \in StageResults
    PROVE  /\ ~r.terminated \/ r.retained => r.blocked
           /\ r.terminated \in BOOLEAN /\ r.retained \in BOOLEAN /\ r.blocked \in BOOLEAN
  BY DEF StageResults

(* However a stage ends, what it reports is kept. *)
LEMMA StageReports ==
    ASSUME FaultsAreBlockers,
           \/ \E r \in StageResults : StageRuns(r)
           \/ \E retained \in BOOLEAN : StageRaises(retained)
    PROVE  /\ faulty' \/ uncertain' => blockers'
           /\ uncertain => uncertain'
<1>1. CASE \E r \in StageResults : StageRuns(r)
  BY <1>1, UncertainIsBlocked DEF StageRuns, FaultsAreBlockers
<1>2. CASE \E retained \in BOOLEAN : StageRaises(retained)
  BY <1>2 DEF StageRaises, FaultsAreBlockers
<1> QED BY <1>1, <1>2

(* The IDs of a profile tell its checks apart, so that a check of another   *)
(* phase does not overwrite what a precondition observed.                   *)
LEMMA CapturesKeepPreconditions ==
    ASSUME PairShape, PreHeld, NEW j \in DOMAIN Checks, Checks[j].phase # "pre",
           NEW role \in AllRoles, NEW seen, Capture(role, Checks[j].id, seen),
           UNCHANGED profile
    PROVE  PreHeld'
<1>1. ASSUME NEW s \in Roles, NEW id \in IdsOf({"pre"}) PROVE Captured(s, id)' = "true"
  <2>1. Captured(s, id) = "true"
    BY <1>1 DEF PreHeld
  <2>2. Checks[j].id # id
    BY <1>1, ProfilesAreProfiles DEF IdsOf, Checks, PairShape
  <2>3. id \in DOMAIN captures[s] /\ captures[s][id] = "true"
    BY <2>1 DEF Captured
  <2>4. s \in AllRoles
    BY DEF Roles, AllRoles
  <2>5. CASE s = role
    <3>1. captures'[s] = [c \in DOMAIN captures[s] \cup {Checks[j].id} |->
                            IF c = Checks[j].id THEN seen ELSE captures[s][c]]
      BY <2>4, <2>5 DEF Capture, PairShape
    <3> QED BY <2>2, <2>3, <3>1 DEF Captured
  <2>6. CASE s # role
    <3>1. captures'[s] = captures[s]
      BY <2>4, <2>6 DEF Capture, PairShape
    <3> QED BY <2>3, <3>1 DEF Captured
  <2> QED BY <2>5, <2>6
<1>2. IdsOf({"pre"})' = IdsOf({"pre"})
  BY DEF IdsOf, Checks
<1> QED BY <1>1, <1>2 DEF PreHeld

(* What was observed and what is bound decide what holds. *)
LEMMA HeldStays ==
    ASSUME UNCHANGED <<captures, profile>>
    PROVE  PreHeld' = PreHeld
  BY DEF PreHeld, IdsOf, Checks, Captured

(* An attempt begins with nothing decided and nothing wrong. *)
LEMMA PairInitial == PairInit => PairInv
  BY DEF PairInit, PairInv, PairShape, FaultsAreBlockers, DecidedOnce, Judged, NoCaptures,
         PartNames, AllRoles, Roles

(* The next probe or check of a part, or its end. *)
LEMMA ChecksKeep ==
    ASSUME PairInv, RunCheck, UNCHANGED profile
    PROVE  PairInv'
<1> USE DEF PairInv
<1>1. /\ part \in {"preOld", "preNew", "postOld", "postNew", "pair"}
      /\ UNCHANGED <<rep, execute, executor, tree, verdicts, state>>
  BY PartFacts DEF RunCheck
<1>2. \/ UNCHANGED <<captures, uncertain, blockers, faulty>> /\ part' = AfterPart[part]
      \/ /\ \/ \E r \in StageResults : StageRuns(r)
            \/ \E retained \in BOOLEAN : StageRaises(retained)
         /\ \/ UNCHANGED captures /\ part' \in {part, HandlerOf[part]}
            \/ /\ part' = part
               /\ \E j \in Remaining, r \in StageResults :
                    Capture(Parts[part].role, Checks[j].id, r.seen)
  BY DEF RunCheck, CheckStage, GotoPart
<1>3. /\ part' \in PartNames
      /\ part' \in {part, AfterPart[part], HandlerOf[part]}
      /\ part' \notin {"start", "execOld", "execNew", "done"}
      /\ part' \in {"postOld", "endOld"} => part = "postOld"
  BY <1>1, <1>2, AfterFacts DEF PartNames
<1>4. captures' = [r \in AllRoles |-> captures'[r]]
  BY <1>2 DEF PairShape, Capture
<1>5. FaultsAreBlockers'
  BY <1>2, <1>3, StageReports DEF FaultsAreBlockers
<1>6. ASSUME PreHeld, part = "postOld" PROVE PreHeld'
  <2>1. CASE UNCHANGED captures
    BY <1>6, <2>1, HeldStays
  <2>2. ASSUME NEW j \in Remaining, NEW r \in StageResults,
               Capture(Parts[part].role, Checks[j].id, r.seen)
        PROVE  PreHeld'
    <3>1. Checks[j].phase = "post" /\ j \in DOMAIN Checks /\ Parts[part].role = "old"
      BY <1>6, <2>2, PartFacts DEF Remaining
    <3> QED BY <1>6, <2>2, <3>1, CapturesKeepPreconditions DEF AllRoles
  <2> QED BY <1>2, <2>1, <2>2
<1>7. DecidedOnce'
  BY <1>1, <1>3, <1>6 DEF DecidedOnce
<1>8. Judged'
  BY <1>1, <1>3 DEF Judged
<1> QED BY <1>3, <1>4, <1>5, <1>7, <1>8 DEF PairShape

(* An executor ends, or an exception in it. *)
LEMMA ExecutorKeeps ==
    ASSUME PairInv, UNCHANGED profile,
           \/ RunExecutor("old", "execOld", "postOld", "endOld")
           \/ RunExecutor("new", "execNew", "postNew", "endNew")
    PROVE  PairInv'
<1> USE DEF PairInv
<1>1. /\ \/ part = "execOld" /\ part' \in {"postOld", "endOld"}
         \/ part = "execNew" /\ part' \in {"postNew", "endNew"}
      /\ UNCHANGED <<rep, execute, captures, verdicts, state>>
  BY DEF RunExecutor, GotoPart
<1>2. \/ \E r \in StageResults : StageRuns(r)
      \/ \E retained \in BOOLEAN : StageRaises(retained)
  BY DEF RunExecutor
<1>3. FaultsAreBlockers'
  BY <1>1, <1>2, StageReports DEF FaultsAreBlockers
<1>4. PairShape' /\ DecidedOnce' /\ Judged'
  BY <1>1, HeldStays DEF PairShape, DecidedOnce, Judged, PartNames
<1> QED BY <1>3, <1>4

(* The decision, the ends of the roles and the judgement. *)
LEMMA RunnerKeeps ==
    ASSUME PairInv, UNCHANGED profile,
           Start \/ Decide \/ EndOld \/ EndNew \/ Compare \/ Evaluate \/ Finish
    PROVE  PairInv'
<1> USE DEF PairInv, GotoPart
<1>1. CASE Start \/ EndOld \/ EndNew
  <2>1. /\ UNCHANGED <<execute, captures, uncertain, verdicts, state, faulty>>
        /\ blockers => blockers'
        /\ part # "done" /\ part' \in PartNames \ {"start", "execOld", "postOld", "endOld", "done"}
        /\ part' = "execNew" => part = "endOld" /\ execute /\ ~uncertain
    BY <1>1 DEF Start, EndOld, EndNew, Abort, PartNames, FaultsAreBlockers
  <2>2. PreHeld' = PreHeld
    BY <2>1, HeldStays
  <2> QED BY <2>1, <2>2 DEF PairShape, FaultsAreBlockers, DecidedOnce, Judged
<1>2. CASE Decide
  <2>1. PreHeld' = PreHeld
    BY <1>2, HeldStays DEF Decide
  <2> QED BY <1>2, <2>1 DEF Decide, PairShape, FaultsAreBlockers, DecidedOnce, Judged, PartNames
<1>3. CASE Compare
  <2>1. /\ part = "compare" /\ UNCHANGED <<uncertain, state, faulty>> /\ (blockers => blockers')
        /\ part' \in {"preOld", "evaluate", "finish"} /\ captures' \in {captures, NoCaptures}
    BY <1>3 DEF Compare, Abort
  <2> QED BY <2>1 DEF PairShape, FaultsAreBlockers, DecidedOnce, Judged, PartNames, NoCaptures,
                      AllRoles, Roles
<1>4. CASE Evaluate
  <2>1. /\ part = "evaluate" /\ part' = "finish" /\ UNCHANGED <<captures, uncertain, state>>
        /\ (blockers => blockers') /\ (faulty' => faulty \/ blockers')
    BY <1>4 DEF Evaluate
  <2> QED BY <2>1 DEF PairShape, FaultsAreBlockers, DecidedOnce, Judged, PartNames
<1>5. CASE Finish
  BY <1>5 DEF Finish, PairShape, FaultsAreBlockers, DecidedOnce, Judged, PartNames, AllValid,
              Repetitions
<1> QED BY <1>1, <1>2, <1>3, <1>4, <1>5

(* The invariant holds throughout an attempt. *)
LEMMA PairInvariant == PairSpec => []PairInv
<1>1. PairInv /\ [PairStep]_pairVars => PairInv'
  <2> SUFFICES ASSUME PairInv, [PairStep]_pairVars PROVE PairInv'
    OBVIOUS
  <2>1. CASE UNCHANGED pairVars
    <3>1. PreHeld' = PreHeld
      BY <2>1, HeldStays DEF pairVars
    <3> QED BY <2>1, <3>1 DEF pairVars, PairInv, PairShape, FaultsAreBlockers, DecidedOnce, Judged,
                              AllValid, Repetitions
  <2> QED BY <2>1, ChecksKeep, ExecutorKeeps, RunnerKeeps DEF PairStep
<1> QED BY <1>1, PairInitial, PTL DEF PairSpec

(***************************************************************************)
(* A COMPLETE manifest had all its repetitions judged valid, and no stage of *)
(* any of them was denied, failed, blocked or reported uncertain, for any  *)
(* profile, though pair and role swallow the exceptions of their stages    *)
(* (PairRunner.stage, TwinRunner._finish).                                 *)
(***************************************************************************)
THEOREM CompletionIsEarned == PairSpec => []CompleteIsEarned
<1>1. PairInv => CompleteIsEarned
  BY DEF PairInv, Judged, FaultsAreBlockers, CompleteIsEarned
<1> QED BY <1>1, PairInvariant, PTL

(***************************************************************************)
(* An executor starts only when the preconditions of both roles were       *)
(* observed in this repetition, the old one when nothing had failed and the *)
(* new one when nothing was uncertain (PairRunner.pair, role).  It rests   *)
(* on the check that a profile has no duplicate check ID.                  *)
(***************************************************************************)
THEOREM ExecutorsAreGuarded == PairSpec => []ExecutorsNeedPreconditions
<1>1. PairInv => ExecutorsNeedPreconditions
  BY DEF PairInv, DecidedOnce, FaultsAreBlockers, ExecutorsNeedPreconditions
<1> QED BY <1>1, PairInvariant, PTL

(***************************************************************************)
(* Once a stage was reported uncertain, only the rest of                   *)
(* its phase, and the preconditions of the new role, still run (PairRunner, *)
(* TwinRunner._execute).                                                   *)
(***************************************************************************)
THEOREM UncertainStagesStopTheRun == PairSpec => UncertaintyStopsTheRun
<1> DEFINE Stops ==
      uncertain' /\ part' # part =>
        part' \notin StageParts \/ (part = "preOld" /\ part' = "preNew")
<1>1. PairInv /\ [PairStep]_pairVars => [Stops]_pairVars
  <2> SUFFICES ASSUME PairInv, PairStep, uncertain', part' # part, part' \in StageParts
               PROVE  part = "preOld" /\ part' = "preNew"
    OBVIOUS
  <2>1. part' \in {"preOld", "preNew", "postOld", "postNew", "pair", "execOld", "execNew"}
    BY PartFacts DEF StageParts
  <2>2. CASE RunCheck
    <3>1. part \in {"preOld", "preNew", "postOld", "postNew", "pair"}
          /\ part' \in {part, AfterPart[part], HandlerOf[part]}
      BY <2>2, PartFacts DEF RunCheck, CheckStage, GotoPart
    <3> QED BY <2>1, <3>1, AfterFacts
  <2>3. CASE Start \/ EndOld \/ EndNew \/ Compare \/ Evaluate \/ Finish
    BY <2>1, <2>3 DEF Start, EndOld, EndNew, Compare, Evaluate, Finish, Abort, GotoPart, PairInv,
                      FaultsAreBlockers
  <2>4. CASE Decide
    BY <2>1, <2>4 DEF Decide, GotoPart, PairInv, FaultsAreBlockers
  <2>5. CASE \/ RunExecutor("old", "execOld", "postOld", "endOld")
             \/ RunExecutor("new", "execNew", "postNew", "endNew")
    BY <2>1, <2>5 DEF RunExecutor, GotoPart
  <2> QED BY <2>2, <2>3, <2>4, <2>5 DEF PairStep
<1> QED BY <1>1, PairInvariant, PTL DEF PairSpec, UncertaintyStopsTheRun

-----------------------------------------------------------------------------
(* The stages of a repetition, and those after the last one, from the end. *)
PartNo ==
    [ start |-> 15, preOld |-> 14, preNew |-> 13, decide |-> 12, execOld |-> 11, postOld |-> 10,
      endOld |-> 9, execNew |-> 8, postNew |-> 7, endNew |-> 6, pair |-> 5, compare |-> 4,
      evaluate |-> 3, finish |-> 2, done |-> 1 ]

(***************************************************************************)
(* A step of the attempt begins a further repetition that the profile      *)
(* asks for, goes to a later part, to a later check of its part, or to a   *)
(* further probe of that check.                                            *)
(***************************************************************************)
PairAdvances ==
    \/ rep' = rep + 1 /\ rep' < Repetitions
    \/ rep' = rep /\ PartNo[part'] < PartNo[part]
    \/ UNCHANGED <<rep, part>> /\ i' > i /\ i' <= Len(Checks) + 1
    \/ /\ UNCHANGED <<rep, part, i>> /\ p' = p + 1
       /\ \E j \in Remaining : (\A k \in Remaining : j <= k) /\ p' <= Checks[j].probes

(* What the attempt counts. *)
Counters == rep \in Nat /\ i \in Nat /\ p \in Nat

(* Each part has its number. *)
LEMMA PartNumbers ==
    /\ PartNo["start"] = 15 /\ PartNo["preOld"] = 14 /\ PartNo["preNew"] = 13
    /\ PartNo["decide"] = 12 /\ PartNo["execOld"] = 11 /\ PartNo["postOld"] = 10
    /\ PartNo["endOld"] = 9 /\ PartNo["execNew"] = 8 /\ PartNo["postNew"] = 7
    /\ PartNo["endNew"] = 6 /\ PartNo["pair"] = 5 /\ PartNo["compare"] = 4
    /\ PartNo["evaluate"] = 3 /\ PartNo["finish"] = 2 /\ PartNo["done"] = 1
  BY DEF PartNo

(* The next probe or check of a part, or its end, or its handler. *)
LEMMA ChecksAdvance ==
    ASSUME PairInv, Counters, RunCheck, UNCHANGED profile
    PROVE  PairAdvances /\ Counters'
<1>1. /\ part \in {"preOld", "preNew", "postOld", "postNew", "pair"} /\ rep' = rep
  BY PartFacts DEF RunCheck
<1>2. CASE GotoPart(AfterPart[part]) \/ GotoPart(HandlerOf[part])
  <2>1. PartNo[part'] < PartNo[part]
    BY <1>1, <1>2, AfterFacts, PartNumbers DEF GotoPart
  <2> QED BY <1>1, <1>2, <2>1 DEF PairAdvances, GotoPart, Counters
<1>3. ASSUME NEW j \in Remaining, \A k \in Remaining : j <= k, CheckStage(j, Parts[part].role)
      PROVE  PairAdvances /\ Counters'
  <2>1. j \in 1 .. Len(Checks) /\ j >= i /\ Checks[j].probes \in Nat
    <3>1. Checks \in Seq(CheckBindings)
      BY ProfilesAreProfiles DEF Checks, PairInv, PairShape
    <3>2. j \in 1 .. Len(Checks) /\ j >= i /\ Checks[j] \in CheckBindings
      BY <1>3, <3>1 DEF Remaining
    <3> QED BY <3>2 DEF CheckBindings
  <2>2. CASE p < Checks[j].probes /\ p' = p + 1 /\ UNCHANGED <<part, i>>
    BY <1>1, <1>3, <2>1, <2>2 DEF PairAdvances, Counters
  <2>3. CASE i' = j + 1 /\ p' = 0 /\ UNCHANGED part
    <3>1. Len(Checks) \in Nat
      BY ProfilesAreProfiles DEF Checks, PairInv, PairShape
    <3> QED BY <1>1, <2>1, <2>3, <3>1 DEF PairAdvances, Counters
  <2> QED BY <1>2, <1>3, <2>2, <2>3 DEF CheckStage
<1> QED BY <1>2, <1>3 DEF RunCheck

(* The other parts lead to later ones, or to a further repetition. *)
LEMMA RunnerAdvances ==
    ASSUME PairInv, Counters, UNCHANGED profile,
           \/ Start \/ Decide \/ EndOld \/ EndNew \/ Compare \/ Evaluate \/ Finish
           \/ RunExecutor("old", "execOld", "postOld", "endOld")
           \/ RunExecutor("new", "execNew", "postNew", "endNew")
    PROVE  PairAdvances /\ Counters'
<1>1. i' = 1 /\ p' = 0
  BY DEF Start, Decide, EndOld, EndNew, Compare, Evaluate, Finish, RunExecutor, Abort, GotoPart
<1>2. CASE Compare
  BY <1>1, <1>2, PartNumbers DEF Compare, Abort, GotoPart, PairAdvances, Counters, Repetitions
<1>3. CASE Start \/ Decide \/ EndOld \/ EndNew
  BY <1>1, <1>3, PartNumbers
     DEF Start, Decide, EndOld, EndNew, Abort, GotoPart, PairAdvances, Counters
<1>4. CASE Evaluate \/ Finish
  BY <1>1, <1>4, PartNumbers DEF Evaluate, Finish, GotoPart, PairAdvances, Counters
<1>5. CASE \/ RunExecutor("old", "execOld", "postOld", "endOld")
           \/ RunExecutor("new", "execNew", "postNew", "endNew")
  BY <1>1, <1>5, PartNumbers DEF RunExecutor, GotoPart, PairAdvances, Counters
<1> QED BY <1>2, <1>3, <1>4, <1>5

(***************************************************************************)
(* Whatever its stages do, an attempt only goes forward: it runs no more   *)
(* repetitions, checks and probes than its profile has (TwinRunner._execute, *)
(* PairRunner.pair and checks).                                            *)
(***************************************************************************)
THEOREM AttemptsGoForward == PairSpec => [][PairAdvances]_pairVars
<1>1. PairInit => Counters
  BY DEF PairInit, Counters
<1>2. PairInv /\ Counters /\ [PairStep]_pairVars => Counters' /\ [PairAdvances]_pairVars
  <2>1. Counters /\ UNCHANGED pairVars => Counters'
    BY DEF Counters, pairVars
  <2> QED BY <2>1, ChecksAdvance, RunnerAdvances DEF PairStep
<1> QED BY <1>1, <1>2, PairInvariant, PTL DEF PairSpec

(* What the manifest may say once a stage was reported uncertain. *)
UncertainIsTold ==
    /\ state # "RUNNING" => part = "done"
    /\ uncertain /\ state # "RUNNING" => state = "UNCERTAIN"

(***************************************************************************)
(* That a stage was reported uncertain is never forgotten, and the         *)
(* manifest of such an attempt can be UNCERTAIN only (PairRunner.stage,    *)
(* TwinRunner._finish).                                                    *)
(***************************************************************************)
THEOREM UncertaintyIsReported ==
    PairSpec => []UncertainIsTold /\ [][uncertain => uncertain']_pairVars
<1>1. PairInit => UncertainIsTold
  BY DEF PairInit, UncertainIsTold
<1>2. ASSUME PairInv, UncertainIsTold, [PairStep]_pairVars
      PROVE  UncertainIsTold' /\ [uncertain => uncertain']_pairVars
  <2>1. CASE UNCHANGED pairVars
    BY <1>2, <2>1 DEF UncertainIsTold, pairVars
  <2>2. CASE RunCheck
    <3>1. part # "done" /\ UNCHANGED state
      BY <2>2, PartFacts DEF RunCheck
    <3>2. uncertain => uncertain'
      BY <1>2, <2>2, StageReports DEF RunCheck, CheckStage, PairInv
    <3> QED BY <1>2, <3>1, <3>2 DEF UncertainIsTold
  <2>3. CASE \/ RunExecutor("old", "execOld", "postOld", "endOld")
             \/ RunExecutor("new", "execNew", "postNew", "endNew")
    <3>1. part # "done" /\ UNCHANGED state
      BY <2>3 DEF RunExecutor
    <3>2. uncertain => uncertain'
      BY <1>2, <2>3, StageReports DEF RunExecutor, PairInv
    <3> QED BY <1>2, <3>1, <3>2 DEF UncertainIsTold
  <2>4. CASE Finish
    BY <2>4 DEF Finish, GotoPart, UncertainIsTold
  <2>5. CASE Start \/ Decide \/ EndOld \/ EndNew \/ Compare \/ Evaluate
    BY <1>2, <2>5 DEF Start, Decide, EndOld, EndNew, Compare, Evaluate, Abort, UncertainIsTold
  <2> QED BY <1>2, <2>1, <2>2, <2>3, <2>4, <2>5 DEF PairStep
<1> QED BY <1>1, <1>2, PairInvariant, PTL DEF PairSpec
=============================================================================
