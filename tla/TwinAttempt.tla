---------------------------- MODULE TwinAttempt ----------------------------
(***************************************************************************)
(* The life of one twin attempt: TwinRunner.run and verify_outcome         *)
(* (swap/twin_run.py) over the attempts table (swap/attempts.py) and the   *)
(* record journal (validate/journal.py), called by several hosts at once.  *)
(* The table has one row per operation, so one attempt key is enough.      *)
(*                                                                         *)
(* A host may crash between any two of its transactions.  Approvals may    *)
(* expire, be revoked or be granted again and the composition may be       *)
(* reconfigured at any moment; a host learns of it when it next calls      *)
(* _bind.  What happens inside the pairs is TwinPair's.                    *)
(***************************************************************************)
EXTENDS Naturals, FiniteSets

CONSTANTS
    Runners,     \* calls of TwinRunner.run for the same attempt key
    Approvals,   \* the approvals the calls may present
    Configs,     \* what else enters the binding: profile, policy, packages
    StageCount   \* bound: the stages of an undisturbed execution

ASSUME StageCountAssumption == StageCount \in Nat

Bindings == [approval : Approvals, config : Configs]

(* A TwinOutcome: its manifest's state and binding, and whose run it tells of. *)
Outcomes == [by : Runners, binding : Bindings, state : {"COMPLETE", "FAILED", "UNCERTAIN"}]

NoOutcome == [by |-> "nobody"]
NoBinding == [approval |-> "none"]
NoRow     == [state |-> "ABSENT"]

VARIABLES
    row,      \* the row of m5_twin_attempts
    journal,  \* the "twin" records of m5_records
    allowed,  \* external: the approvals that verify now
    config,   \* external: the configuration in force
    pc, binding, outcome,  \* per call: where it is, its binding, the outcome it holds
    current,               \* per call: the binding of verify_outcome
    stages, blocked,       \* per call: _execute's stages and blockers
    executed  \* history: the calls that have entered _execute

attemptVars == <<row, journal, allowed, config, pc, binding, outcome, current,
                 stages, blocked, executed>>

Ended == {"returned", "failed", "crashed"}

AttemptTypeOK ==
    /\ row \in {NoRow} \cup [state : {"RUNNING"}, binding : Bindings]
               \cup [state : {"COMPLETE"}, binding : Bindings, outcome : Outcomes]
    /\ journal \subseteq Outcomes
    /\ allowed \subseteq Approvals /\ config \in Configs
    /\ pc \in [Runners -> {"bind", "reserve", "execute", "append", "complete", "verify",
                           "durable", "fresh"} \cup Ended]
    /\ binding \in [Runners -> Bindings \cup {NoBinding}]
    /\ outcome \in [Runners -> Outcomes \cup {NoOutcome}]
    /\ current \in [Runners -> Bindings \cup {NoBinding}]
    /\ \A r \in Runners :
         /\ pc[r] \notin {"bind"} \cup Ended => binding[r] \in Bindings
         /\ pc[r] \in {"append", "complete", "verify", "durable", "fresh"} =>
              outcome[r] \in Outcomes
    /\ stages \in [Runners -> 0..StageCount] /\ blocked \in [Runners -> BOOLEAN]
    /\ executed \subseteq Runners

AttemptInit ==
    /\ row = NoRow /\ journal = {}
    /\ allowed = Approvals /\ config \in Configs
    /\ pc = [r \in Runners |-> "bind"]
    /\ binding = [r \in Runners |-> NoBinding] /\ outcome = [r \in Runners |-> NoOutcome]
    /\ current = [r \in Runners |-> NoBinding]
    /\ stages = [r \in Runners |-> 0] /\ blocked = [r \in Runners |-> FALSE]
    /\ executed = {}

Goto(r, where) == pc' = [pc EXCEPT ![r] = where]

(* run: any exception becomes a TwinFailure. *)
Fail(r) ==
    /\ Goto(r, "failed")
    /\ UNCHANGED <<row, journal, binding, outcome, current, stages, blocked, executed>>

(* _fresh: the approval still verifies and the composition is the same. *)
Fresh(b) == b.approval \in allowed /\ b.config = config

-----------------------------------------------------------------------------
(* run *)

(* _bind: the approval is verified and the binding is computed. *)
Bind(r) ==
    /\ pc[r] = "bind"
    /\ \/ \E a \in allowed :
            /\ binding' = [binding EXCEPT ![r] = [approval |-> a, config |-> config]]
            /\ Goto(r, "reserve")
            /\ UNCHANGED <<row, journal, outcome, current, stages, blocked, executed>>
       \/ Fail(r)
    /\ UNCHANGED <<allowed, config>>

(* The two ways AttemptStore.reserve succeeds. *)
ReserveNew(r) ==
    /\ row = NoRow
    /\ row' = [state |-> "RUNNING", binding |-> binding[r]]
    /\ executed' = executed \cup {r}
    /\ Goto(r, "execute")
    /\ UNCHANGED <<journal, binding, outcome, current, stages, blocked>>

ReserveCompleted(r) ==
    /\ row.state = "COMPLETE"
    /\ outcome' = [outcome EXCEPT ![r] = row.outcome]
    /\ Goto(r, "verify")
    /\ UNCHANGED <<row, journal, binding, current, stages, blocked, executed>>

(* Mutant: a reservation of the same binding is taken over. *)
ReserveReclaims(r) ==
    /\ pc[r] = "reserve"
    /\ \/ ReserveNew(r)
       \/ /\ row.state = "RUNNING" /\ row.binding = binding[r]
          /\ executed' = executed \cup {r} /\ Goto(r, "execute")
          /\ UNCHANGED <<row, journal, binding, outcome, current, stages, blocked>>
       \/ row # NoRow /\ row.binding = binding[r] /\ ReserveCompleted(r)
       \/ Fail(r)
    /\ UNCHANGED <<allowed, config>>

(* Mutant: the binding of the row is not compared. *)
ReserveAnyBinding(r) ==
    /\ pc[r] = "reserve"
    /\ ReserveNew(r) \/ ReserveCompleted(r) \/ Fail(r)
    /\ UNCHANGED <<allowed, config>>

(* Mutant: a call waits until the running attempt is complete. *)
ReserveWaits(r) ==
    /\ pc[r] = "reserve"
    /\ \/ ReserveNew(r)
       \/ row # NoRow /\ row.binding = binding[r] /\ ReserveCompleted(r)
    /\ UNCHANGED <<allowed, config>>

(***************************************************************************)
(* AttemptStore.reserve, one transaction: a new row, or the completed row  *)
(* of the same binding.  A row of another binding, one that is RUNNING and *)
(* a locked database are failures.                                         *)
(***************************************************************************)
Reserve(r) ==
    /\ pc[r] = "reserve"
    /\ \/ ReserveNew(r)
       \/ row # NoRow /\ row.binding = binding[r] /\ ReserveCompleted(r)
       \/ Fail(r)
    /\ UNCHANGED <<allowed, config>>

(* _execute: the next stage runs, or is denied and leaves a blocker. *)
ExecuteStage(r) ==
    /\ pc[r] = "execute" /\ stages[r] < StageCount
    /\ stages' = [stages EXCEPT ![r] = @ + 1]
    /\ \E fault \in BOOLEAN :
         blocked' = [blocked EXCEPT ![r] = @ \/ fault \/ ~Fresh(binding[r])]
    /\ UNCHANGED <<row, journal, allowed, config, pc, binding, outcome, current, executed>>

(* The end of _execute, after or before the last stage, and the manifest of *)
(* _finish.                                                                 *)
EndExecution(r) ==
    /\ pc[r] = "execute"
    /\ \E state \in {"COMPLETE", "FAILED", "UNCERTAIN"} :
         /\ state = "COMPLETE" => /\ ~blocked[r] /\ stages[r] = StageCount
                                  /\ Fresh(binding[r])
         /\ outcome' = [outcome EXCEPT ![r] = [by |-> r, binding |-> binding[r],
                                               state |-> state]]
    /\ Goto(r, "append")
    /\ UNCHANGED <<row, journal, allowed, config, binding, current, stages, blocked,
                   executed>>

(* Mutant: _finish completes the row first and appends the record after it. *)
AppendRecordLast(r) ==
    \/ /\ pc[r] = "append" /\ row.state = "RUNNING"
       /\ row' = [state |-> "COMPLETE", binding |-> row.binding, outcome |-> outcome[r]]
       /\ Goto(r, "append")
       /\ UNCHANGED <<journal, allowed, config, binding, outcome, current, stages,
                      blocked, executed>>
    \/ /\ pc[r] = "append" /\ row.state = "COMPLETE"
       /\ journal' = journal \cup {outcome[r]}
       /\ Goto(r, "verify")
       /\ UNCHANGED <<row, allowed, config, binding, outcome, current, stages, blocked,
                      executed>>
    \/ pc[r] = "append" /\ Fail(r) /\ UNCHANGED <<allowed, config>>

(* _finish: RecordJournal.append. *)
AppendRecord(r) ==
    /\ pc[r] = "append"
    /\ \/ /\ journal' = journal \cup {outcome[r]}
          /\ Goto(r, "complete")
          /\ UNCHANGED <<row, binding, outcome, current, stages, blocked, executed>>
       \/ Fail(r)
    /\ UNCHANGED <<allowed, config>>

(* _finish: AttemptStore.complete. *)
CompleteRow(r) ==
    /\ pc[r] = "complete"
    /\ \/ /\ row.state = "RUNNING"
          /\ row' = [state |-> "COMPLETE", binding |-> row.binding, outcome |-> outcome[r]]
          /\ Goto(r, "verify")
          /\ UNCHANGED <<journal, binding, outcome, current, stages, blocked, executed>>
       \/ Fail(r)
    /\ UNCHANGED <<allowed, config>>

-----------------------------------------------------------------------------
(* verify_outcome, of the own outcome or of the stored one *)

(* _bind, with the approval of the outcome. *)
VerifyBind(r) ==
    /\ pc[r] = "verify"
    /\ \/ /\ outcome[r].binding.approval \in allowed
          /\ current' = [current EXCEPT ![r] = [approval |-> outcome[r].binding.approval,
                                                config |-> config]]
          /\ Goto(r, "durable")
          /\ UNCHANGED <<row, journal, binding, outcome, stages, blocked, executed>>
       \/ Fail(r)
    /\ UNCHANGED <<allowed, config>>

(* The row, the binding of the manifest and the record. *)
VerifyDurable(r) ==
    /\ pc[r] = "durable"
    /\ \/ /\ row.state = "COMPLETE" /\ row.outcome = outcome[r] /\ row.binding = current[r]
          /\ outcome[r].binding = current[r]
          /\ outcome[r] \in journal
          /\ Goto(r, "fresh")
          /\ UNCHANGED <<row, journal, binding, outcome, current, stages, blocked,
                         executed>>
       \/ Fail(r)
    /\ UNCHANGED <<allowed, config>>

(* _fresh again, the context and verify_records. *)
VerifyFresh(r) ==
    /\ pc[r] = "fresh"
    /\ \/ /\ Fresh(current[r]) /\ Goto(r, "returned")
          /\ UNCHANGED <<row, journal, binding, outcome, current, stages, blocked,
                         executed>>
       \/ Fail(r)
    /\ UNCHANGED <<allowed, config>>

-----------------------------------------------------------------------------
(* The environment *)

Crash(r) ==
    /\ pc[r] \notin Ended
    /\ Goto(r, "crashed")
    /\ UNCHANGED <<row, journal, allowed, config, binding, outcome, current, stages,
                   blocked, executed>>

(* Expiry, revocation, a changed policy or a new composition. *)
AuthorityChanges ==
    /\ allowed' \in SUBSET Approvals
    /\ config' \in Configs
    /\ UNCHANGED <<row, journal, pc, binding, outcome, current, stages, blocked, executed>>

RunStep(r) ==
    \/ Bind(r) \/ Reserve(r) \/ ExecuteStage(r) \/ EndExecution(r) \/ AppendRecord(r)
    \/ CompleteRow(r) \/ VerifyBind(r) \/ VerifyDurable(r) \/ VerifyFresh(r)

AttemptNext ==
    \/ \E r \in Runners : RunStep(r) \/ Crash(r)
    \/ AuthorityChanges

(* Each call is a thread of its own that goes on until it ends or crashes. *)
AttemptSpec ==
    AttemptInit /\ [][AttemptNext]_attemptVars
    /\ \A r \in Runners : WF_attemptVars(RunStep(r))

-----------------------------------------------------------------------------
(* Properties *)

(***************************************************************************)
(* An attempt is executed at most once, ever: not again by a concurrent    *)
(* call, after a crash in the middle, after a failure, nor under another   *)
(* approval or configuration.                                              *)
(***************************************************************************)
AtMostOneExecution == \A r, s \in executed : r = s

(***************************************************************************)
(* Evidence before completion: whatever crashed, a completed row tells of  *)
(* an outcome whose record is in the journal, and which was earned by the  *)
(* execution of the binding the row was reserved for.                      *)
(***************************************************************************)
CompletedRowsHaveRecords ==
    row.state = "COMPLETE" =>
      /\ row.outcome \in journal
      /\ row.outcome.by \in executed /\ row.outcome.binding = row.binding

(***************************************************************************)
(* A call is only ever answered with the outcome of the attempt that its   *)
(* own approval and configuration are bound to, whoever has executed it.   *)
(***************************************************************************)
AnswersAreBound ==
    \A r \in Runners : pc[r] = "returned" =>
      /\ row.state = "COMPLETE" /\ outcome[r] = row.outcome
      /\ outcome[r].binding = binding[r]

(* Every call is answered or crashes, also after the executing one crashed. *)
EveryRunEnds == \A r \in Runners : <>(pc[r] \in Ended)
=============================================================================
