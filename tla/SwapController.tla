--------------------------- MODULE SwapController ---------------------------
(***************************************************************************)
(* Class SwapController of swap/controller.py, run by concurrent clients   *)
(* on one RuntimeStore.  A call is a short sequential program of separate  *)
(* store calls and policy checks; only its last step is a transaction.     *)
(* Between two steps of a call anything may happen: another client's call, *)
(* a session's action, the clock, a change of policy, or the client's own  *)
(* crash, after which the caller may simply issue the call again.          *)
(***************************************************************************)
EXTENDS RuntimeStore

CONSTANTS
    Clients,    \* processes that hold a SwapController of the store
    Approvals   \* the activation approvals ever issued

(***************************************************************************)
(* An Approval as _approval_digest and ApprovalVerifier.verify look at it: *)
(* its subject (the digest of the prepared id and record), whether its     *)
(* issuer differs from the scope's principal, and its lifetime.            *)
(***************************************************************************)
ASSUME ApprovalsAreRecords ==
    Approvals \subseteq [id : PreparedIds, record : Candidates, distinct : BOOLEAN,
                         issued : Nat, expires : Nat]

VARIABLES
    call,     \* the call each client is executing
    accepts,  \* external: prepared ids the replacement validator accepts
    permits   \* external: whether the rollback validator accepts

controlVars == <<call, accepts, permits>>
allVars     == <<vars, controlVars>>

NoCall == [pc |-> "idle", kind |-> None, arg |-> 0, ticket |-> 0, approval |-> None,
           record |-> None, started |-> 0, receipt |-> 0]

ControlInit ==
    /\ Init
    /\ call = [k \in Clients |-> NoCall]
    /\ accepts = PreparedIds
    /\ permits = TRUE

-----------------------------------------------------------------------------
(* The checks *)

(* _check_record; an exception in the validator is a denial. *)
RecordAccepted(p) == p \in accepts

(* _approval_digest and ApprovalVerifier.verify: an approval is optional   *)
(* only for a low risk, and one that is presented must verify in any case. *)
ApprovalAccepted(p, c, approval) ==
    IF approval = None
    THEN ~c.needs
    ELSE /\ approval.distinct
         /\ approval.id = p /\ approval.record = c
         /\ approval.issued <= clock /\ clock < approval.expires

(* Mutant: the gate trusts the checks made before the transaction. *)
ActivationGateStale(k, p) == prepared[p] = call[k].record

(* transaction_gate of activate: both checks again, on the stored record   *)
(* and for the approval that was verified before the transaction.          *)
ActivationGate(k, p) ==
    /\ prepared[p] = call[k].record
    /\ RecordAccepted(p)
    /\ ApprovalAccepted(p, prepared[p], call[k].approval)

(* find_activation and find_rollback: receipts are only ever appended, so  *)
(* their unlocked reads see what the table held at the first of them.      *)
ActivationsOf(p) ==
    { i \in DOMAIN receipts : receipts[i].kind = "ACTIVATE" /\ receipts[i].prepared = p }

RollbacksOf(j) ==
    { i \in DOMAIN receipts : receipts[i].kind = "ROLLBACK" /\ receipts[i].source = j }

FoundFor(kind, arg) ==
    IF kind = "activate" THEN ActivationsOf(arg)
    ELSE IF kind = "rollback" THEN RollbacksOf(arg) ELSE {}

-----------------------------------------------------------------------------
(* Steps of a call *)

Returns(k, i) == call' = [call EXCEPT ![k].pc = "returned", ![k].receipt = i]
Raises(k)     == call' = [call EXCEPT ![k].pc = "raised"]
GoTo(k, pc)   == call' = [call EXCEPT ![k].pc = pc]

InCall(k, kind, pc) == call[k].kind = kind /\ call[k].pc = pc

StartCall(k, kind, pc, arg, t, approval, c) ==
    /\ call[k].pc = "idle"
    /\ call' = [call EXCEPT ![k] = [pc |-> pc, kind |-> kind, arg |-> arg, ticket |-> t,
                  approval |-> approval, record |-> c, started |-> Len(receipts),
                  receipt |-> 0]]
    /\ UNCHANGED <<vars, accepts, permits>>

StartPrepare(k, p, c) == StartCall(k, "prepare", "check", p, 0, None, c)

StartActivate(k, p, t, approval) ==
    StartCall(k, "activate", "find", p, t, approval, None)

StartRollback(k, i, t) == StartCall(k, "rollback", "find", i, t, None, None)

(* Mutant: the call goes straight to its checks. *)
FindReceiptSkipped(k) ==
    /\ call[k].pc = "find"
    /\ GoTo(k, IF call[k].kind = "activate" THEN "load" ELSE "check")
    /\ UNCHANGED <<vars, accepts, permits>>

(* The replay lookup both calls begin with. *)
FindReceipt(k) ==
    /\ call[k].pc = "find"
    /\ LET found == FoundFor(call[k].kind, call[k].arg) IN
         \/ \E i \in found : Returns(k, i)
         \/ found = {} /\ GoTo(k, IF call[k].kind = "activate" THEN "load" ELSE "check")
    /\ UNCHANGED <<vars, accepts, permits>>

(* get_prepared with allow_expired. *)
LoadPrepared(k) ==
    LET c == prepared[call[k].arg] IN
    /\ InCall(k, "activate", "load")
    /\ \/ c = None /\ Raises(k)
       \/ c # None /\ call' = [call EXCEPT ![k].pc = "check", ![k].record = c]
    /\ UNCHANGED <<vars, accepts, permits>>

(* _check_record, in prepare and in activate. *)
CheckRecord(k) ==
    /\ InCall(k, "activate", "check") \/ InCall(k, "prepare", "check")
    /\ \/ ~RecordAccepted(call[k].arg) /\ Raises(k)
       \/ /\ RecordAccepted(call[k].arg)
          /\ GoTo(k, IF call[k].kind = "activate" THEN "approve" ELSE "commit")
    /\ UNCHANGED <<vars, accepts, permits>>

CheckApproval(k) ==
    LET ok == ApprovalAccepted(call[k].arg, call[k].record, call[k].approval) IN
    /\ InCall(k, "activate", "approve")
    /\ \/ ~ok /\ Raises(k)
       \/ ok /\ GoTo(k, "commit")
    /\ UNCHANGED <<vars, accepts, permits>>

(* save_prepared, the last step of prepare. *)
CommitPrepare(k) ==
    LET p == call[k].arg
        c == call[k].record IN
    /\ InCall(k, "prepare", "commit")
    /\ \/ SavePrepared(p, c) /\ Returns(k, 0)
       \/ /\ ~ReadableRow(c.scope) \/ prepared[p] # None
          /\ Raises(k) /\ UNCHANGED vars
    /\ UNCHANGED <<accepts, permits>>

(* What activate_prepared does given the receipts it takes for a replay of *)
(* this call and for a ReplayConflict.                                     *)
ActivateGiven(k, replay, conflict) ==
    LET p == call[k].arg
        c == call[k].record
        t == call[k].ticket
        admitted == ActivationAdmitted(c.scope, p, t) /\ ActivationGate(k, p) IN
    /\ InCall(k, "activate", "commit")
    /\ \/ \E i \in replay : Returns(k, i) /\ UNCHANGED vars
       \/ conflict # {} /\ Raises(k) /\ UNCHANGED vars
       \/ replay \cup conflict = {} /\ admitted /\ CommitActivation(c.scope, p, t)
          /\ Returns(k, Len(receipts) + 1)
       \/ replay \cup conflict = {} /\ ~admitted /\ Raises(k) /\ UNCHANGED vars
    /\ UNCHANGED <<accepts, permits>>

EarlierOf(k) == ReceiptsFor(call[k].record.scope, call[k].record.op, "ACTIVATE")

SameCall(k) ==
    { i \in EarlierOf(k) : receipts[i].request = call[k].record.request
                           /\ receipts[i].prepared = call[k].arg }

(* Mutant: any receipt of the operation is taken for this call's. *)
CommitActivateAnyReceipt(k) ==
    InCall(k, "activate", "commit") /\ ActivateGiven(k, EarlierOf(k), {})

(* Mutant: a conflicting receipt is waited for instead of refused. *)
CommitActivateWaits(k) ==
    /\ InCall(k, "activate", "commit")
    /\ EarlierOf(k) \subseteq SameCall(k)
    /\ ActivateGiven(k, SameCall(k), {})

(***************************************************************************)
(* activate_prepared: a committed receipt of the operation is replayed     *)
(* when it names this request and preparation and is a ReplayConflict      *)
(* otherwise; then the tables and the gate decide under the write lock.    *)
(***************************************************************************)
CommitActivate(k) ==
    /\ InCall(k, "activate", "commit")
    /\ ActivateGiven(k, SameCall(k), EarlierOf(k) \ SameCall(k))

(* get_receipt and the rollback validator, before the transaction. *)
CheckRollback(k) ==
    LET ok == receipts[call[k].arg].kind = "ACTIVATE" /\ permits IN
    /\ InCall(k, "rollback", "check")
    /\ \/ ~ok /\ Raises(k)
       \/ ok /\ GoTo(k, "commit")
    /\ UNCHANGED <<vars, accepts, permits>>

(* rollback_receipt: the replay is looked up by the source's operation. *)
CommitRollbackCall(k) ==
    LET i == call[k].arg
        s == receipts[i].scope
        t == call[k].ticket
        replay == ReceiptsFor(s, receipts[i].op, "ROLLBACK")
        admitted == RollbackAdmitted(s, i, t) /\ permits IN
    /\ InCall(k, "rollback", "commit")
    /\ \/ \E j \in replay : Returns(k, j) /\ UNCHANGED vars
       \/ replay = {} /\ admitted /\ CommitRollback(s, i, t)
          /\ Returns(k, Len(receipts) + 1)
       \/ replay = {} /\ ~admitted /\ Raises(k) /\ UNCHANGED vars
    /\ UNCHANGED <<accepts, permits>>

(* The caller has the answer, or the exception. *)
Deliver(k) ==
    /\ call[k].pc \in {"returned", "raised"}
    /\ call' = [call EXCEPT ![k] = NoCall]
    /\ UNCHANGED <<vars, accepts, permits>>

(* External: the client dies, its answer is lost, and it starts again. *)
ClientCrash(k) ==
    /\ call[k].pc # "idle"
    /\ call' = [call EXCEPT ![k] = NoCall]
    /\ UNCHANGED <<vars, accepts, permits>>

(* External: what the policies accept changes. *)
PolicyChange ==
    /\ \/ \E p \in PreparedIds :
            /\ accepts' = (accepts \ {p}) \cup ({p} \ accepts)
            /\ UNCHANGED permits
       \/ permits' = ~permits /\ UNCHANGED accepts
    /\ UNCHANGED <<vars, call>>

ClientStep(k) ==
    \/ FindReceipt(k) \/ LoadPrepared(k) \/ CheckRecord(k) \/ CheckApproval(k)
    \/ CommitPrepare(k) \/ CommitActivate(k) \/ CheckRollback(k)
    \/ CommitRollbackCall(k) \/ Deliver(k)

ClientStart(k) ==
    \/ \E p \in PreparedIds, c \in Candidates : StartPrepare(k, p, c)
    \/ \E p \in PreparedIds, t \in DOMAIN tickets, a \in Approvals \cup {None} :
         StartActivate(k, p, t, a)
    \/ \E i \in DOMAIN receipts, t \in DOMAIN tickets : StartRollback(k, i, t)

ControlNext ==
    \/ \E k \in Clients : ClientStep(k) \/ ClientStart(k) \/ ClientCrash(k)
    \/ (\E s \in Scopes : SessionStep(s)) /\ UNCHANGED controlVars
    \/ Tick /\ UNCHANGED controlVars
    \/ PolicyChange

(***************************************************************************)
(* A client runs sequential code, no step of which waits for another       *)
(* client: the store answers or raises.  So a call that is not cut short   *)
(* by a crash goes on.  Nothing else is assumed to happen.                 *)
(***************************************************************************)
ControlSpec ==
    /\ ControlInit /\ [][ControlNext]_allVars
    /\ \A k \in Clients : WF_allVars(ClientStep(k))

-----------------------------------------------------------------------------
(* Properties *)

(***************************************************************************)
(* Crash-safe replay: once a receipt is durable, every later call for it   *)
(* returns, whatever has happened since: the preparation or its approval   *)
(* expired, the policy was revoked, the ticket is spent, the activation    *)
(* was rolled back or the next action is running.                          *)
(***************************************************************************)
CommittedCallsReplay ==
    \A k \in Clients :
      (\E i \in FoundFor(call[k].kind, call[k].arg) : i <= call[k].started)
        => call[k].pc \in {"find", "returned"}

(***************************************************************************)
(* Two calls that race for the same preparation, or for the same receipt,  *)
(* are given the same answer, though activate looks the replay up by       *)
(* preparation or source receipt and the store by operation; and what a    *)
(* call returns is a receipt for what it asked.                            *)
(***************************************************************************)
AnswersAgree ==
    \A k, l \in Clients :
      /\ call[k].pc = "returned" /\ call[k].kind # "prepare"
           => call[k].receipt \in FoundFor(call[k].kind, call[k].arg)
      /\ /\ call[k].pc = "returned" /\ call[l].pc = "returned"
         /\ call[k].kind = call[l].kind /\ call[k].arg = call[l].arg
         => call[k].receipt = call[l].receipt

(***************************************************************************)
(* No stale authority: whatever was checked when the call began, at the    *)
(* commit itself the policy accepts the replacement and, where its risk    *)
(* demands one, a distinct approval of exactly this preparation is within  *)
(* its lifetime; a rollback is permitted when it commits.                  *)
(***************************************************************************)
AuthorizedWhenCommitted ==
    [][\A i \in (DOMAIN receipts') \ DOMAIN receipts :
         LET r == receipts'[i] IN
         IF r.kind = "ROLLBACK" THEN permits
         ELSE /\ r.prepared \in accepts
              /\ prepared[r.prepared].needs =>
                   \E a \in Approvals :
                     /\ a.distinct /\ a.id = r.prepared
                     /\ a.record = prepared[r.prepared]
                     /\ a.issued <= clock /\ clock < a.expires]_allVars

(***************************************************************************)
(* Every call ends: no client waits for another one, whatever the others,  *)
(* the sessions and the policy do, and however often they interfere.       *)
(***************************************************************************)
EveryCallEnds == \A k \in Clients : call[k].pc # "idle" ~> call[k].pc = "idle"
=============================================================================
