------------------------ MODULE SwapControllerProofs ------------------------
(***************************************************************************)
(* Theorems about SwapController for every number of clients, sessions,    *)
(* preparations and approvals: what the controllers do to the store the    *)
(* store's own specification allows, so that its theorems hold of them;    *)
(* committed calls replay; racing calls are given one answer; and nothing  *)
(* is committed on stale authority.                                        *)
(***************************************************************************)
EXTENDS SwapController, RuntimeStoreProofs

PCs == {"idle", "find", "load", "check", "approve", "commit", "returned", "raised"}

CallRecord == [pc : PCs, kind : {None, "prepare", "activate", "rollback"},
               arg : PreparedIds \cup Nat, ticket : Nat, approval : Approvals \cup {None},
               record : Candidates \cup {None}, started : Nat, receipt : Nat]

CallType == call \in [Clients -> CallRecord]

(***************************************************************************)
(* What the tables say of a call c.  An activation past its lookup works   *)
(* on the stored preparation it names, a rollback past its check on an     *)
(* activation; what was durable when the call began has been found; and an *)
(* answer is a receipt for what was asked.                                 *)
(***************************************************************************)
Asks(c) ==
    /\ c.pc = "idle" => c.started = 0
    /\ c.pc # "idle" => c.kind \in {"prepare", "activate", "rollback"}
    /\ c.started <= Len(receipts)

PrepareOK(c) ==
    c.pc # "idle" /\ c.kind = "prepare" =>
      /\ c.arg \in PreparedIds /\ c.record \in Candidates /\ c.receipt = 0
      /\ c.pc \in {"check", "commit", "returned", "raised"}

ActivateOK(c) ==
    c.pc # "idle" /\ c.kind = "activate" =>
      /\ c.arg \in PreparedIds /\ c.ticket \in DOMAIN tickets
      /\ c.pc \in {"check", "approve", "commit"} =>
           prepared[c.arg] # None /\ c.record = prepared[c.arg]

RollbackOK(c) ==
    c.pc # "idle" /\ c.kind = "rollback" =>
      /\ c.arg \in DOMAIN receipts /\ c.ticket \in DOMAIN tickets
      /\ c.pc = "commit" => receipts[c.arg].kind = "ACTIVATE"

AnswerOK(c) ==
    /\ c.pc = "returned" /\ c.kind # "prepare" => c.receipt \in FoundFor(c.kind, c.arg)
    /\ c.pc \notin {"idle", "find", "returned"} =>
         \A i \in FoundFor(c.kind, c.arg) : i > c.started

CallOK(c) == Asks(c) /\ PrepareOK(c) /\ ActivateOK(c) /\ RollbackOK(c) /\ AnswerOK(c)

CallsOK == \A k \in Clients : CallOK(call[k])

-----------------------------------------------------------------------------
(* What a step writes in a call *)

(* d is the call c further on. *)
SameRequest(c, d) ==
    /\ d.kind = c.kind /\ d.arg = c.arg /\ d.ticket = c.ticket
    /\ d.approval = c.approval /\ d.started = c.started

OthersKept(k) == \A l \in Clients : l # k => call'[l] = call[l]

(* A call is replaced. *)
LEMMA CallUpdate ==
    ASSUME CallType, NEW k \in Clients, NEW c \in CallRecord,
           call' = [call EXCEPT ![k] = c]
    PROVE  CallType' /\ call'[k] = c /\ OthersKept(k)
BY DEF CallType, OthersKept

(* A call goes on to another program point. *)
LEMMA GoToEffect ==
    ASSUME CallType, NEW k \in Clients, NEW pc \in PCs, GoTo(k, pc)
    PROVE  /\ CallType' /\ OthersKept(k) /\ SameRequest(call[k], call'[k])
           /\ call'[k].pc = pc /\ call'[k].record = call[k].record
           /\ call'[k].receipt = call[k].receipt
<1> DEFINE c == [call[k] EXCEPT !.pc = pc]
<1>1. call[k] \in CallRecord
  BY DEF CallType
<1>2. /\ c \in CallRecord /\ SameRequest(call[k], c) /\ c.pc = pc
      /\ c.record = call[k].record /\ c.receipt = call[k].receipt
  BY <1>1 DEF CallRecord, SameRequest
<1>3. call' = [call EXCEPT ![k] = c]
  BY DEF GoTo
<1> HIDE DEF c
<1> QED
  BY <1>2, <1>3, CallUpdate

(* A call raises. *)
LEMMA RaisesEffect ==
    ASSUME CallType, NEW k \in Clients, Raises(k)
    PROVE  /\ CallType' /\ OthersKept(k) /\ SameRequest(call[k], call'[k])
           /\ call'[k].pc = "raised" /\ call'[k].record = call[k].record
           /\ call'[k].receipt = call[k].receipt
<1>1. GoTo(k, "raised") /\ "raised" \in PCs
  BY DEF GoTo, Raises, PCs
<1> QED
  BY <1>1, GoToEffect

(* A call returns a receipt. *)
LEMMA ReturnsEffect ==
    ASSUME CallType, NEW k \in Clients, NEW i \in Nat, Returns(k, i)
    PROVE  /\ CallType' /\ OthersKept(k) /\ SameRequest(call[k], call'[k])
           /\ call'[k].pc = "returned" /\ call'[k].record = call[k].record
           /\ call'[k].receipt = i
<1> DEFINE c == [call[k] EXCEPT !.pc = "returned", !.receipt = i]
<1>1. call[k] \in CallRecord
  BY DEF CallType
<1>2. /\ c \in CallRecord /\ SameRequest(call[k], c) /\ c.pc = "returned"
      /\ c.record = call[k].record /\ c.receipt = i
  BY <1>1 DEF CallRecord, SameRequest, PCs
<1>3. call' = [call EXCEPT ![k] = c]
  BY DEF Returns, CallType
<1> HIDE DEF c
<1> QED
  BY <1>2, <1>3, CallUpdate

(* An activation loads its preparation. *)
LEMMA LoadEffect ==
    ASSUME CallType, NEW k \in Clients, NEW r \in Candidates,
           call' = [call EXCEPT ![k].pc = "check", ![k].record = r]
    PROVE  /\ CallType' /\ OthersKept(k) /\ SameRequest(call[k], call'[k])
           /\ call'[k].pc = "check" /\ call'[k].record = r
           /\ call'[k].receipt = call[k].receipt
<1> DEFINE c == [call[k] EXCEPT !.pc = "check", !.record = r]
<1>1. call[k] \in CallRecord
  BY DEF CallType
<1>2. /\ c \in CallRecord /\ SameRequest(call[k], c) /\ c.pc = "check"
      /\ c.record = r /\ c.receipt = call[k].receipt
  BY <1>1 DEF CallRecord, SameRequest, PCs
<1>3. call' = [call EXCEPT ![k] = c]
  BY DEF CallType
<1> HIDE DEF c
<1> QED
  BY <1>2, <1>3, CallUpdate

-----------------------------------------------------------------------------
(* The controllers use the store as its specification allows *)

(* A client's step is a call of the store, or leaves the store alone. *)
LEMMA ClientIsNext ==
    ASSUME TypeOK, CallsOK, NEW k \in Clients, ClientStep(k)
    PROVE  [Next]_vars
<1>1. CallOK(call[k])
  BY DEF CallsOK
<1>2. CASE UNCHANGED vars
  BY <1>2
<1>3. CASE CommitPrepare(k)
  <2>1. CASE SavePrepared(call[k].arg, call[k].record)
    <3>1. call[k].arg \in PreparedIds /\ call[k].record \in Candidates
      BY <1>1, <1>3 DEF CommitPrepare, InCall, CallOK, PrepareOK
    <3> QED
      BY <2>1, <3>1 DEF Next
  <2> QED
    BY <1>2, <1>3, <2>1 DEF CommitPrepare
<1>4. CASE CommitActivate(k)
  <2> DEFINE p == call[k].arg
             s == call[k].record.scope
             t == call[k].ticket
  <2>1. CASE ActivationAdmitted(s, p, t) /\ CommitActivation(s, p, t)
    <3>1. p \in PreparedIds /\ t \in DOMAIN tickets /\ prepared[p] # None
          /\ call[k].record = prepared[p]
      BY <1>1, <1>4 DEF CommitActivate, InCall, CallOK, ActivateOK
    <3>2. s \in Scopes
      BY <3>1, CandidatesAreRecords DEF TypeOK, PreparedRecord
    <3>3. ActivatePrepared(s, p, t)
      BY <2>1 DEF ActivatePrepared
    <3> HIDE DEF p, s, t
    <3> QED
      BY <3>1, <3>2, <3>3 DEF Next, PointerStep
  <2> QED
    BY <1>2, <1>4, <2>1 DEF CommitActivate, ActivateGiven
<1>5. CASE CommitRollbackCall(k)
  <2> DEFINE i == call[k].arg
             s == receipts[i].scope
             t == call[k].ticket
  <2>1. CASE RollbackAdmitted(s, i, t) /\ CommitRollback(s, i, t)
    <3>1. i \in DOMAIN receipts /\ t \in DOMAIN tickets
      BY <1>1, <1>5 DEF CommitRollbackCall, InCall, CallOK, RollbackOK
    <3>2. receipts[i] \in Receipt
      BY <3>1, ElementOfSeq, LenProperties DEF TypeOK
    <3>3. s \in Scopes
      BY <3>2 DEF Receipt
    <3>4. RollbackReceipt(s, i, t)
      BY <2>1 DEF RollbackReceipt
    <3> HIDE DEF i, s, t
    <3> QED
      BY <3>1, <3>3, <3>4 DEF Next, PointerStep
  <2> QED
    BY <1>2, <1>5, <2>1 DEF CommitRollbackCall
<1> QED
  BY <1>2, <1>3, <1>4, <1>5
     DEF ClientStep, FindReceipt, LoadPrepared, CheckRecord, CheckApproval, CheckRollback,
         Deliver

(* So is every step of the composition. *)
LEMMA ControlIsNext ==
    ASSUME TypeOK, CallsOK, [ControlNext]_allVars
    PROVE  [Next]_vars
<1>1. ASSUME NEW k \in Clients, ClientStart(k) PROVE UNCHANGED vars
  BY <1>1 DEF ClientStart, StartPrepare, StartActivate, StartRollback, StartCall
<1>2. ASSUME NEW k \in Clients, ClientCrash(k) PROVE UNCHANGED vars
  BY <1>2 DEF ClientCrash
<1>3. PolicyChange \/ UNCHANGED allVars => UNCHANGED vars
  BY DEF PolicyChange, allVars
<1>4. (\E s \in Scopes : SessionStep(s)) \/ Tick => Next
  BY DEF Next
<1> QED
  BY <1>1, <1>2, <1>3, <1>4, ClientIsNext DEF ControlNext

-----------------------------------------------------------------------------
(* Calls and the tables they read *)

(* The tables only grow, and receipts only at the end. *)
ReceiptsKept ==
    /\ Len(receipts) <= Len(receipts')
    /\ \A i \in DOMAIN receipts : i \in DOMAIN receipts' /\ receipts'[i] = receipts[i]
    /\ \A i \in DOMAIN receipts' : i \in DOMAIN receipts \/ i > Len(receipts)

(* Every step of the store keeps its receipts. *)
LEMMA NextKeepsReceipts ==
    ASSUME TypeOK, [Next]_vars
    PROVE  ReceiptsKept
<1>0. Len(receipts) \in Nat
  BY LenProperties DEF TypeOK
<1>1. CASE receipts' = receipts
  BY <1>0, <1>1 DEF ReceiptsKept
<1>2. ASSUME NEW s \in Scopes, PointerStep(s) PROVE ReceiptsKept
  <2>1. PICK r \in Receipt : receipts' = Append(receipts, r)
    BY <1>2, MoveAppends
  <2>2. Len(receipts') = Len(receipts) + 1
    BY <2>1, AppendProperties DEF TypeOK
  <2>3. /\ DOMAIN receipts' = DOMAIN receipts \cup {Len(receipts) + 1}
        /\ \A i \in DOMAIN receipts : receipts'[i] = receipts[i]
    BY <2>1, ReceiptAppended
  <2> QED
    BY <1>0, <2>2, <2>3 DEF ReceiptsKept
<1> QED
  BY <1>1, <1>2, ReceiptsWritten

(* What a call has found it still finds, and nothing older turns up. *)
LEMMA FoundKept ==
    ASSUME ReceiptsKept, NEW kind, NEW arg
    PROVE  /\ FoundFor(kind, arg) \subseteq FoundFor(kind, arg)'
           /\ \A i \in FoundFor(kind, arg)' : i \in FoundFor(kind, arg) \/ i > Len(receipts)
BY DEF ReceiptsKept, FoundFor, ActivationsOf, RollbacksOf

(* Nothing another actor does to the tables disturbs a call. *)
LEMMA CallStays ==
    ASSUME TypeOK, TypeOK', TicketsKept, PreparedKept, ReceiptsKept,
           NEW c \in CallRecord, CallOK(c)
    PROVE  CallOK(c)'
<1>1. Len(receipts) \in Nat /\ Len(receipts') \in Nat /\ c.started \in Nat
  BY LenProperties DEF TypeOK, CallRecord
<1>2. Asks(c)'
  BY <1>1 DEF CallOK, Asks, ReceiptsKept
<1>3. PrepareOK(c)'
  BY DEF CallOK, PrepareOK
<1>4. ActivateOK(c)'
  BY DEF CallOK, ActivateOK, TicketsKept, PreparedKept
<1>5. RollbackOK(c)'
  BY DEF CallOK, RollbackOK, TicketsKept, ReceiptsKept
<1>6. AnswerOK(c)'
  <2>1. \A i \in FoundFor(c.kind, c.arg)' : i \in FoundFor(c.kind, c.arg) \/ i > Len(receipts)
    BY FoundKept
  <2>2. \A i \in FoundFor(c.kind, c.arg)' : i \in DOMAIN receipts'
    BY DEF FoundFor, ActivationsOf, RollbacksOf
  <2>3. \A i \in FoundFor(c.kind, c.arg)' : i \in Nat
    BY <2>2, LenProperties DEF TypeOK
  <2>4. c.started <= Len(receipts)
    BY DEF CallOK, Asks
  <2> QED
    BY <1>1, <2>1, <2>3, <2>4, FoundKept DEF CallOK, AnswerOK
<1> QED
  BY <1>2, <1>3, <1>4, <1>5, <1>6 DEF CallOK

(* The calls of the other clients. *)
LEMMA OthersStay ==
    ASSUME TypeOK, TypeOK', CallType, CallsOK, [Next]_vars, NEW l \in Clients,
           call'[l] = call[l]
    PROVE  CallOK(call[l])'
<1>1. PICK c \in CallRecord : c = call[l]
  BY DEF CallType
<1>2. CallOK(c)
  BY <1>1 DEF CallsOK
<1>3. CallOK(c)'
  BY <1>2, CallStays, NextKeeps, NextKeepsReceipts
<1> QED
  BY <1>1, <1>3

-----------------------------------------------------------------------------
(* The steps of a call *)

(* A call past its lookup goes on, or raises. *)
LEMMA GoesOn ==
    ASSUME NEW c \in CallRecord, NEW d \in CallRecord, CallOK(c)', SameRequest(c, d),
           d.record = c.record, d.receipt = c.receipt,
           c.pc \in {"check", "approve", "commit"}, d.pc \in {"approve", "commit", "raised"},
           c.kind = "prepare" => d.pc # "approve",
           c.kind = "rollback" /\ d.pc = "commit" => receipts'[c.arg].kind = "ACTIVATE"
    PROVE  CallOK(d)'
<1>1. Asks(d)' /\ PrepareOK(d)'
  BY DEF CallOK, SameRequest, Asks, PrepareOK
<1>2. ActivateOK(d)' /\ RollbackOK(d)'
  BY DEF CallOK, SameRequest, ActivateOK, RollbackOK
<1>3. AnswerOK(d)'
  BY DEF CallOK, SameRequest, AnswerOK
<1> QED
  BY <1>1, <1>2, <1>3 DEF CallOK

(* A call that is not a preparation returns a receipt for what it asked. *)
LEMMA ReturnsFound ==
    ASSUME NEW c \in CallRecord, NEW d \in CallRecord, CallOK(c)', SameRequest(c, d),
           c.pc # "idle", c.kind # "prepare", d.pc = "returned",
           d.receipt \in FoundFor(c.kind, c.arg)'
    PROVE  CallOK(d)'
<1>1. Asks(d)' /\ PrepareOK(d)'
  BY DEF CallOK, SameRequest, Asks, PrepareOK
<1>2. ActivateOK(d)' /\ RollbackOK(d)'
  BY DEF CallOK, SameRequest, ActivateOK, RollbackOK
<1>3. AnswerOK(d)'
  BY DEF CallOK, SameRequest, AnswerOK
<1> QED
  BY <1>1, <1>2, <1>3 DEF CallOK

(* What is to be shown of a step of client k. *)
StepOK(k) == CallType' /\ OthersKept(k) /\ CallOK(call[k])'

(* The replay lookup. *)
LEMMA FindStep ==
    ASSUME TypeOK, TypeOK', CallType, CallsOK, NEW k \in Clients, FindReceipt(k)
    PROVE  StepOK(k)
<1>1. PICK c \in CallRecord : c = call[k]
  BY DEF CallType
<1>2. CallOK(c) /\ c.pc = "find" /\ UNCHANGED vars
  BY <1>1 DEF CallsOK, FindReceipt
<1>3. CallOK(c)' /\ FoundFor(c.kind, c.arg)' = FoundFor(c.kind, c.arg)
  BY <1>2 DEF CallOK, Asks, PrepareOK, ActivateOK, RollbackOK, AnswerOK, FoundFor,
              ActivationsOf, RollbacksOf, vars, dbVars
<1>4. c.kind \in {"activate", "rollback"}
  BY <1>2 DEF CallOK, Asks, PrepareOK
<1>5. ASSUME NEW i \in FoundFor(c.kind, c.arg), Returns(k, i) PROVE StepOK(k)
  <2>1. i \in Nat
    BY LenProperties DEF FoundFor, ActivationsOf, RollbacksOf, TypeOK
  <2>2. /\ CallType' /\ OthersKept(k) /\ SameRequest(call[k], call'[k])
        /\ call'[k].pc = "returned" /\ call'[k].receipt = i
    BY <1>5, <2>1, ReturnsEffect
  <2>3. PICK d \in CallRecord : d = call'[k]
    BY <2>2 DEF CallType
  <2>4. CallOK(d)'
    BY <1>1, <1>2, <1>3, <1>4, <1>5, <2>2, <2>3, ReturnsFound
  <2> QED
    BY <2>2, <2>3, <2>4 DEF StepOK
<1>6. ASSUME FoundFor(c.kind, c.arg) = {},
             GoTo(k, IF c.kind = "activate" THEN "load" ELSE "check")
      PROVE  StepOK(k)
  <2>1. /\ CallType' /\ OthersKept(k) /\ SameRequest(call[k], call'[k])
        /\ call'[k].pc = IF c.kind = "activate" THEN "load" ELSE "check"
    BY <1>6, GoToEffect DEF PCs
  <2>2. PICK d \in CallRecord : d = call'[k]
    BY <2>1 DEF CallType
  <2>3. SameRequest(c, d) /\ d.pc = IF c.kind = "activate" THEN "load" ELSE "check"
    BY <1>1, <2>1, <2>2
  <2>4. Asks(d)' /\ PrepareOK(d)'
    BY <1>2, <1>3, <1>4, <2>3 DEF CallOK, SameRequest, Asks, PrepareOK
  <2>5. ActivateOK(d)' /\ RollbackOK(d)'
    BY <1>2, <1>3, <1>4, <2>3 DEF CallOK, SameRequest, ActivateOK, RollbackOK
  <2>6. AnswerOK(d)'
    BY <1>3, <1>6, <2>3 DEF SameRequest, AnswerOK
  <2> QED
    BY <2>1, <2>2, <2>4, <2>5, <2>6 DEF StepOK, CallOK
<1> QED
  BY <1>1, <1>5, <1>6 DEF FindReceipt

(* get_prepared. *)
LEMMA LoadStep ==
    ASSUME TypeOK, TypeOK', CallType, CallsOK, NEW k \in Clients, LoadPrepared(k)
    PROVE  StepOK(k)
<1>1. PICK c \in CallRecord : c = call[k]
  BY DEF CallType
<1>2. CallOK(c) /\ c.pc = "load" /\ c.kind = "activate" /\ UNCHANGED vars
  BY <1>1 DEF CallsOK, LoadPrepared, InCall
<1>3. CallOK(c)'
  BY <1>2 DEF CallOK, Asks, PrepareOK, ActivateOK, RollbackOK, AnswerOK, FoundFor,
              ActivationsOf, RollbacksOf, vars, dbVars
<1>4. c.arg \in PreparedIds /\ prepared' = prepared /\ prepared[c.arg] \in Candidates \cup {None}
  BY <1>2 DEF CallOK, ActivateOK, vars, dbVars, TypeOK
<1>5. ASSUME \/ Raises(k)
             \/ /\ prepared[c.arg] # None
                /\ call' = [call EXCEPT ![k].pc = "check", ![k].record = prepared[c.arg]]
      PROVE  StepOK(k)
  <2>1. /\ CallType' /\ OthersKept(k) /\ SameRequest(call[k], call'[k])
        /\ \/ call'[k].pc = "raised"
           \/ call'[k].pc = "check" /\ prepared[c.arg] # None /\ call'[k].record = prepared[c.arg]
    BY <1>4, <1>5, RaisesEffect, LoadEffect
  <2>2. PICK d \in CallRecord : d = call'[k]
    BY <2>1 DEF CallType
  <2>3. /\ SameRequest(c, d)
        /\ d.pc = "raised" \/ (d.pc = "check" /\ prepared[c.arg] # None
                               /\ d.record = prepared[c.arg])
    BY <1>1, <2>1, <2>2
  <2>4. Asks(d)' /\ PrepareOK(d)'
    BY <1>2, <1>3, <2>3 DEF CallOK, SameRequest, Asks, PrepareOK
  <2>5. ActivateOK(d)' /\ RollbackOK(d)'
    BY <1>2, <1>3, <1>4, <2>3 DEF CallOK, SameRequest, ActivateOK, RollbackOK
  <2>6. AnswerOK(d)'
    BY <1>2, <1>3, <2>3 DEF CallOK, SameRequest, AnswerOK
  <2> QED
    BY <2>1, <2>2, <2>4, <2>5, <2>6 DEF StepOK, CallOK
<1> QED
  BY <1>1, <1>5 DEF LoadPrepared

(* The policy checks before the transaction. *)
LEMMA CheckStep ==
    ASSUME TypeOK, TypeOK', CallType, CallsOK, NEW k \in Clients,
           CheckRecord(k) \/ CheckApproval(k) \/ CheckRollback(k)
    PROVE  StepOK(k)
<1>1. PICK c \in CallRecord : c = call[k]
  BY DEF CallType
<1>2. CallOK(c) /\ UNCHANGED vars
  BY <1>1 DEF CallsOK, CheckRecord, CheckApproval, CheckRollback
<1>3. CallOK(c)'
  BY <1>2 DEF CallOK, Asks, PrepareOK, ActivateOK, RollbackOK, AnswerOK, FoundFor,
              ActivationsOf, RollbacksOf, vars, dbVars
<1>4. c.pc \in {"check", "approve"}
  BY <1>1 DEF CheckRecord, CheckApproval, CheckRollback, InCall
<1>5. PICK pc \in {"approve", "commit", "raised"} :
        /\ GoTo(k, pc) /\ (c.kind = "prepare" => pc # "approve")
        /\ c.kind = "rollback" /\ pc = "commit" => receipts[c.arg].kind = "ACTIVATE"
  <2>1. CASE CheckRecord(k)
    BY <1>1, <2>1 DEF CheckRecord, InCall, Raises, GoTo
  <2>2. CASE CheckApproval(k)
    BY <1>1, <2>2 DEF CheckApproval, InCall, Raises, GoTo
  <2>3. CASE CheckRollback(k)
    BY <1>1, <2>3 DEF CheckRollback, InCall, Raises, GoTo
  <2> QED
    BY <2>1, <2>2, <2>3
<1>6. /\ CallType' /\ OthersKept(k) /\ SameRequest(call[k], call'[k])
      /\ call'[k].pc = pc /\ call'[k].record = call[k].record
      /\ call'[k].receipt = call[k].receipt
  BY <1>5, GoToEffect DEF PCs
<1>7. PICK d \in CallRecord : d = call'[k]
  BY <1>6 DEF CallType
<1>8. receipts' = receipts
  BY <1>2 DEF vars, dbVars
<1>9. CallOK(d)'
  BY <1>1, <1>3, <1>4, <1>5, <1>6, <1>7, <1>8, GoesOn
<1> QED
  BY <1>6, <1>7, <1>9 DEF StepOK

(* A call raises at its commit. *)
LEMMA RaiseStep ==
    ASSUME CallType, NEW k \in Clients, Raises(k), NEW c \in CallRecord, c = call[k],
           CallOK(c)', c.pc = "commit"
    PROVE  StepOK(k)
<1>1. /\ CallType' /\ OthersKept(k) /\ SameRequest(call[k], call'[k])
      /\ call'[k].pc = "raised" /\ call'[k].record = call[k].record
      /\ call'[k].receipt = call[k].receipt
  BY RaisesEffect
<1>2. PICK d \in CallRecord : d = call'[k]
  BY <1>1 DEF CallType
<1>3. CallOK(d)'
  BY <1>1, <1>2, GoesOn
<1> QED
  BY <1>1, <1>2, <1>3 DEF StepOK

(* A call returns, at its commit, a receipt for what it asked. *)
LEMMA AnswerStep ==
    ASSUME CallType, NEW k \in Clients, NEW i \in Nat, Returns(k, i),
           NEW c \in CallRecord, c = call[k], CallOK(c)', c.pc = "commit",
           c.kind # "prepare", i \in FoundFor(c.kind, c.arg)'
    PROVE  StepOK(k)
<1>1. /\ CallType' /\ OthersKept(k) /\ SameRequest(call[k], call'[k])
      /\ call'[k].pc = "returned" /\ call'[k].receipt = i
  BY ReturnsEffect
<1>2. PICK d \in CallRecord : d = call'[k]
  BY <1>1 DEF CallType
<1>3. CallOK(d)'
  BY <1>1, <1>2, ReturnsFound
<1> QED
  BY <1>1, <1>2, <1>3 DEF StepOK

(* save_prepared. *)
LEMMA PrepareStep ==
    ASSUME TypeOK, TypeOK', CallType, CallsOK, NEW k \in Clients, CommitPrepare(k)
    PROVE  StepOK(k)
<1>1. PICK c \in CallRecord : c = call[k]
  BY DEF CallType
<1>2. CallOK(c) /\ c.pc = "commit" /\ c.kind = "prepare"
  BY <1>1 DEF CallsOK, CommitPrepare, InCall
<1>3. [Next]_vars
  BY ClientIsNext DEF ClientStep
<1>4. CallOK(c)'
  BY <1>2, <1>3, CallStays, NextKeeps, NextKeepsReceipts
<1>5. CASE Raises(k)
  BY <1>1, <1>2, <1>4, <1>5, RaiseStep
<1>6. CASE Returns(k, 0)
  <2>1. /\ CallType' /\ OthersKept(k) /\ SameRequest(call[k], call'[k])
        /\ call'[k].pc = "returned" /\ call'[k].receipt = 0 /\ call'[k].record = call[k].record
    BY <1>6, ReturnsEffect
  <2>2. PICK d \in CallRecord : d = call'[k]
    BY <2>1 DEF CallType
  <2>3. /\ SameRequest(c, d) /\ d.pc = "returned" /\ d.receipt = 0 /\ d.record = c.record
    BY <1>1, <2>1, <2>2
  <2>4. Asks(d)' /\ PrepareOK(d)'
    BY <1>2, <1>4, <2>3 DEF CallOK, SameRequest, Asks, PrepareOK
  <2>5. ActivateOK(d)' /\ RollbackOK(d)' /\ AnswerOK(d)'
    BY <1>2, <2>3 DEF SameRequest, ActivateOK, RollbackOK, AnswerOK
  <2> QED
    BY <2>1, <2>2, <2>4, <2>5 DEF StepOK, CallOK
<1> QED
  BY <1>5, <1>6 DEF CommitPrepare

(* activate_prepared. *)
LEMMA ActivateStep ==
    ASSUME TypeOK, TypeOK', CallType, CallsOK, NEW k \in Clients, CommitActivate(k)
    PROVE  StepOK(k)
<1>1. PICK c \in CallRecord : c = call[k]
  BY DEF CallType
<1>2. CallOK(c) /\ c.pc = "commit" /\ c.kind = "activate"
  BY <1>1 DEF CallsOK, CommitActivate, InCall
<1>3. [Next]_vars
  BY ClientIsNext DEF ClientStep
<1>4. ReceiptsKept /\ CallOK(c)'
  BY <1>2, <1>3, CallStays, NextKeeps, NextKeepsReceipts
<1>5. CASE Raises(k)
  BY <1>1, <1>2, <1>4, <1>5, RaiseStep
<1>6. ASSUME NEW i \in SameCall(k), Returns(k, i) PROVE StepOK(k)
  <2>1. i \in FoundFor(c.kind, c.arg) /\ i \in DOMAIN receipts
    BY <1>1, <1>2, <1>6 DEF SameCall, EarlierOf, ReceiptsFor, FoundFor, ActivationsOf
  <2>2. i \in Nat
    BY <2>1, LenProperties DEF TypeOK
  <2>3. i \in FoundFor(c.kind, c.arg)'
    BY <1>4, <2>1, FoundKept
  <2> QED
    BY <1>1, <1>2, <1>4, <1>6, <2>2, <2>3, AnswerStep
<1>7. ASSUME CommitActivation(c.record.scope, c.arg, c.ticket), Returns(k, Len(receipts) + 1)
      PROVE  StepOK(k)
  <2>1. c.arg \in PreparedIds /\ c.ticket \in DOMAIN tickets
    BY <1>2 DEF CallOK, ActivateOK
  <2>2. PICK n : n = Len(receipts) + 1
    OBVIOUS
  <2>3. n \in Nat
    BY <2>2, LenProperties DEF TypeOK
  <2> DEFINE r == [kind |-> "ACTIVATE", scope |-> c.record.scope, op |-> prepared[c.arg].op,
                   request |-> prepared[c.arg].request, prepared |-> c.arg, source |-> 0,
                   ticket |-> c.ticket, old |-> row[c.record.scope].active,
                   new |-> prepared[c.arg].new, before |-> row[c.record.scope].generation,
                   after |-> prepared[c.arg].new.generation]
  <2>4. receipts' = Append(receipts, r)
    BY <1>7 DEF CommitActivation
  <2>5. r.kind = "ACTIVATE" /\ r.prepared = c.arg
    OBVIOUS
  <2> HIDE DEF r
  <2>6. n \in DOMAIN receipts' /\ receipts'[n] = r
    <3>1. receipts \in Seq(Receipt \cup {r})
      BY LenProperties, SeqDef DEF TypeOK
    <3> QED
      BY <2>2, <2>3, <2>4, <3>1, AppendProperties
  <2>7. n \in FoundFor(c.kind, c.arg)'
    BY <1>2, <2>5, <2>6 DEF FoundFor, ActivationsOf
  <2> QED
    BY <1>1, <1>2, <1>4, <1>7, <2>2, <2>3, <2>7, AnswerStep
<1> QED
  BY <1>1, <1>5, <1>6, <1>7 DEF CommitActivate, ActivateGiven

(* The rollback of an operation is the rollback of its activation. *)
LEMMA RollbackIsOf ==
    ASSUME BoundInv, OnceInv, NEW i \in DOMAIN receipts, receipts[i].kind = "ACTIVATE",
           NEW j \in ReceiptsFor(receipts[i].scope, receipts[i].op, "ROLLBACK")
    PROVE  j \in RollbacksOf(i)
<1>1. /\ j \in DOMAIN receipts /\ receipts[j].kind = "ROLLBACK"
      /\ receipts[j].scope = receipts[i].scope /\ receipts[j].op = receipts[i].op
  BY DEF ReceiptsFor
<1> DEFINE h == receipts[j].source
<1>2. h \in DOMAIN receipts /\ receipts[h].op = receipts[j].op
      /\ receipts[h].scope = receipts[j].scope
  BY <1>1 DEF OnceInv, UndoesItsOwn
<1>3. receipts[h].kind = "ACTIVATE"
  BY <1>1, BoundUnfold DEF AllBound, BoundAt
<1>4. h = i
  <2> HIDE DEF h
  <2> QED
    BY <1>1, <1>2, <1>3 DEF OnceInv, OncePerOperation
<1> QED
  BY <1>1, <1>4 DEF RollbacksOf

(* rollback_receipt. *)
LEMMA RollbackStep ==
    ASSUME TypeOK, TypeOK', BoundInv, OnceInv, CallType, CallsOK, NEW k \in Clients,
           CommitRollbackCall(k)
    PROVE  StepOK(k)
<1>1. PICK c \in CallRecord : c = call[k]
  BY DEF CallType
<1>2. CallOK(c) /\ c.pc = "commit" /\ c.kind = "rollback"
  BY <1>1 DEF CallsOK, CommitRollbackCall, InCall
<1>3. [Next]_vars
  BY ClientIsNext DEF ClientStep
<1>4. ReceiptsKept /\ CallOK(c)'
  BY <1>2, <1>3, CallStays, NextKeeps, NextKeepsReceipts
<1> DEFINE i == c.arg
           s == receipts[i].scope
<1>5. i \in DOMAIN receipts /\ receipts[i].kind = "ACTIVATE" /\ c.ticket \in DOMAIN tickets
  BY <1>2 DEF CallOK, RollbackOK
<1>6. CASE Raises(k)
  BY <1>1, <1>2, <1>4, <1>6, RaiseStep
<1>7. ASSUME NEW j \in ReceiptsFor(s, receipts[i].op, "ROLLBACK"), Returns(k, j)
      PROVE  StepOK(k)
  <2>1. j \in FoundFor(c.kind, c.arg) /\ j \in DOMAIN receipts
    BY <1>2, <1>5, <1>7, RollbackIsOf DEF FoundFor, ReceiptsFor
  <2>2. j \in Nat
    BY <2>1, LenProperties DEF TypeOK
  <2>3. j \in FoundFor(c.kind, c.arg)'
    BY <1>4, <2>1, FoundKept
  <2> QED
    BY <1>1, <1>2, <1>4, <1>7, <2>2, <2>3, AnswerStep
<1>8. ASSUME RollbackAdmitted(s, i, c.ticket), CommitRollback(s, i, c.ticket),
             Returns(k, Len(receipts) + 1)
      PROVE  StepOK(k)
  <2>1. PICK n : n = Len(receipts) + 1
    OBVIOUS
  <2>2. n \in Nat
    BY <2>1, LenProperties DEF TypeOK
  <2>3. receipts[i] \in Receipt
    BY <1>5, ElementOfSeq, LenProperties DEF TypeOK
  <2>4. s \in Scopes
    BY <2>3 DEF Receipt
  <2>5. RollbackReceipt(s, i, c.ticket)
    BY <1>8 DEF RollbackReceipt
  <2> HIDE DEF i, s
  <2>6. PICK r \in Receipt : /\ receipts' = Append(receipts, r) /\ r.kind = "ROLLBACK"
                             /\ r.source = i
    BY <1>5, <2>4, <2>5, RollbackEffect
  <2>7. n \in DOMAIN receipts' /\ receipts'[n] = r
    BY <2>1, <2>6, ReceiptAppended
  <2>8. n \in FoundFor(c.kind, c.arg)'
    BY <1>2, <2>6, <2>7 DEF FoundFor, RollbacksOf, i
  <2> QED
    BY <1>1, <1>2, <1>4, <1>8, <2>1, <2>2, <2>8, AnswerStep
<1> QED
  BY <1>1, <1>6, <1>7, <1>8 DEF CommitRollbackCall

(* A call begins. *)
LEMMA StartStep ==
    ASSUME TypeOK, CallType, NEW k \in Clients, ClientStart(k)
    PROVE  StepOK(k)
<1>0. Len(receipts) \in Nat /\ \A t \in DOMAIN tickets : t \in Nat
  BY LenProperties DEF TypeOK
<1>1. PICK kind \in {"prepare", "activate", "rollback"}, pc \in {"check", "find"},
           arg \in PreparedIds \cup Nat, t \in Nat, a \in Approvals \cup {None},
           r \in Candidates \cup {None} :
        /\ StartCall(k, kind, pc, arg, t, a, r)
        /\ pc = IF kind = "prepare" THEN "check" ELSE "find"
        /\ kind = "prepare" => arg \in PreparedIds /\ r \in Candidates
        /\ kind = "activate" => arg \in PreparedIds /\ t \in DOMAIN tickets
        /\ kind = "rollback" => arg \in DOMAIN receipts /\ t \in DOMAIN tickets
  <2>1. \A i \in DOMAIN receipts : i \in Nat
    BY LenProperties DEF TypeOK
  <2>2. CASE \E p \in PreparedIds, r \in Candidates : StartPrepare(k, p, r)
    BY <2>2 DEF StartPrepare
  <2>3. CASE \E p \in PreparedIds, t \in DOMAIN tickets, a \in Approvals \cup {None} :
               StartActivate(k, p, t, a)
    BY <1>0, <2>3 DEF StartActivate
  <2>4. CASE \E i \in DOMAIN receipts, t \in DOMAIN tickets : StartRollback(k, i, t)
    BY <1>0, <2>1, <2>4 DEF StartRollback
  <2> QED
    BY <2>2, <2>3, <2>4 DEF ClientStart
<1>2. PICK d \in CallRecord :
        /\ call' = [call EXCEPT ![k] = d] /\ d.pc = pc /\ d.kind = kind /\ d.arg = arg
        /\ d.ticket = t /\ d.record = r /\ d.started = Len(receipts) /\ d.receipt = 0
  <2> DEFINE d == [pc |-> pc, kind |-> kind, arg |-> arg, ticket |-> t, approval |-> a,
                   record |-> r, started |-> Len(receipts), receipt |-> 0]
  <2>1. d \in CallRecord
    BY <1>0 DEF CallRecord, PCs
  <2> QED
    BY <1>1, <2>1 DEF StartCall
<1>3. receipts' = receipts /\ tickets' = tickets /\ prepared' = prepared
  BY <1>1 DEF StartCall, vars, dbVars
<1>4. CallType' /\ call'[k] = d /\ OthersKept(k)
  BY <1>2, CallUpdate
<1>5. Asks(d)' /\ PrepareOK(d)'
  BY <1>0, <1>1, <1>2, <1>3 DEF Asks, PrepareOK
<1>6. ActivateOK(d)' /\ RollbackOK(d)'
  BY <1>1, <1>2, <1>3 DEF ActivateOK, RollbackOK
<1>7. AnswerOK(d)'
  BY <1>1, <1>2 DEF AnswerOK, FoundFor
<1> QED
  BY <1>4, <1>5, <1>6, <1>7 DEF StepOK, CallOK

(* A call is delivered, or lost with its client. *)
LEMMA EndStep ==
    ASSUME TypeOK', CallType, NEW k \in Clients, Deliver(k) \/ ClientCrash(k)
    PROVE  StepOK(k)
<1>1. call' = [call EXCEPT ![k] = NoCall]
  BY DEF Deliver, ClientCrash
<1>2. NoCall \in CallRecord
  BY DEF NoCall, CallRecord, PCs
<1>3. CallType' /\ call'[k] = NoCall /\ OthersKept(k)
  BY <1>1, <1>2, CallUpdate
<1>4. Len(receipts') \in Nat
  BY LenProperties DEF TypeOK
<1>5. PICK d : d = NoCall
  OBVIOUS
<1>6. CallOK(d)'
  BY <1>4, <1>5 DEF NoCall, CallOK, Asks, PrepareOK, ActivateOK, RollbackOK, AnswerOK
<1> QED
  BY <1>3, <1>5, <1>6 DEF StepOK

(* Every step of the composition keeps the calls and the tables in step. *)
LEMMA NextCalls ==
    ASSUME TypeOK, TypeOK', BoundInv, OnceInv, CallType, CallsOK, [ControlNext]_allVars
    PROVE  CallType' /\ CallsOK'
<1>0. [Next]_vars
  BY ControlIsNext
<1>1. ASSUME NEW k \in Clients, StepOK(k) PROVE CallType' /\ CallsOK'
  BY <1>0, <1>1, OthersStay DEF StepOK, OthersKept, CallsOK
<1>2. ASSUME NEW k \in Clients, ClientStep(k) PROVE StepOK(k)
  BY <1>2, FindStep, LoadStep, CheckStep, PrepareStep, ActivateStep, RollbackStep, EndStep
     DEF ClientStep
<1>3. CASE call' = call
  BY <1>0, <1>3, OthersStay DEF CallsOK, CallType
<1>4. PolicyChange \/ UNCHANGED controlVars \/ UNCHANGED allVars => call' = call
  BY DEF PolicyChange, controlVars, allVars
<1> QED
  BY <1>1, <1>2, <1>3, <1>4, StartStep, EndStep DEF ControlNext

-----------------------------------------------------------------------------
(* The theorems *)

ControlInv == TypeOK /\ BoundInv /\ OnceInv /\ CallType /\ CallsOK

ControlSafety == ControlInit /\ [][ControlNext]_allVars

(* No call has begun and the tables are empty. *)
LEMMA InitControl == ControlInit => ControlInv
<1> SUFFICES ASSUME ControlInit PROVE ControlInv
  OBVIOUS
<1>1. TypeOK /\ receipts = <<>>
  BY InitType DEF ControlInit, Init
<1>2. BoundInv /\ OnceInv
  BY <1>1 DEF BoundInv, ReceiptsAreBound, ReceiptsAreAnchored, OnceInv, OncePerOperation,
              UndoesItsOwn
<1>3. CallType
  BY DEF ControlInit, CallType, CallRecord, NoCall, PCs
<1>4. Len(receipts) \in Nat
  BY <1>1, LenProperties DEF TypeOK
<1>5. CallsOK
  BY <1>4 DEF ControlInit, CallsOK, NoCall, CallOK, Asks, PrepareOK, ActivateOK, RollbackOK,
              AnswerOK
<1> QED
  BY <1>1, <1>2, <1>3, <1>5 DEF ControlInv

(* The invariant is inductive. *)
LEMMA NextControl == ControlInv /\ [ControlNext]_allVars => ControlInv'
<1> SUFFICES ASSUME ControlInv, [ControlNext]_allVars PROVE ControlInv'
  OBVIOUS
<1>1. TypeOK /\ BoundInv /\ OnceInv /\ CallType /\ CallsOK
  BY DEF ControlInv
<1>2. [Next]_vars
  BY <1>1, ControlIsNext
<1>3. TypeOK' /\ BoundInv' /\ OnceInv'
  BY <1>1, <1>2, NextType, NextBound, NextOnce
<1>4. CallType' /\ CallsOK'
  BY <1>1, <1>3, NextCalls
<1> QED
  BY <1>3, <1>4 DEF ControlInv

(* Fairness plays no part in what follows. *)
LEMMA ControlIsSafe == ControlSpec => ControlSafety /\ []ControlInv
<1>1. ControlSpec => ControlSafety
  BY PTL DEF ControlSpec, ControlSafety
<1>2. ControlSafety => []ControlInv
  BY InitControl, NextControl, PTL DEF ControlSafety
<1> QED
  BY <1>1, <1>2

(***************************************************************************)
(* Whatever the controllers of any number of clients do, with their        *)
(* crashes and retries, is a behaviour of the store alone: every theorem   *)
(* about RuntimeStore holds of the composition.                            *)
(***************************************************************************)
THEOREM ControllersUseTheStore == ControlSpec => Spec
<1>1. ControlInit => Init
  BY DEF ControlInit
<1>2. ControlInv /\ [ControlNext]_allVars => [Next]_vars
  BY ControlIsNext DEF ControlInv
<1>3. ControlSafety /\ []ControlInv => Spec
  BY <1>1, <1>2, PTL DEF ControlSafety, Spec
<1> QED
  BY <1>3, ControlIsSafe

(***************************************************************************)
(* However the controllers interleave, the pointer of a scope is placed    *)
(* once, replaced once per operation and restored only from the            *)
(* replacement in force.                                                   *)
(***************************************************************************)
COROLLARY ControllersImplementPointer == ControlSpec => ImplementsPointer
  BY ControllersUseTheStore, StoreImplementsPointer

(***************************************************************************)
(* Crash-safe replay: a call for a receipt that was durable when the call  *)
(* began never gets past the lookup except to return.                      *)
(***************************************************************************)
THEOREM ReplayIsCrashSafe == ControlSpec => []CommittedCallsReplay
<1>1. ControlInv => CommittedCallsReplay
  <2> SUFFICES ASSUME ControlInv, NEW k \in Clients,
                      NEW i \in FoundFor(call[k].kind, call[k].arg), i <= call[k].started
               PROVE  call[k].pc \in {"find", "returned"}
    BY DEF CommittedCallsReplay
  <2>1. CallOK(call[k]) /\ call[k] \in CallRecord
    BY DEF ControlInv, CallsOK, CallType
  <2>2. i \in Nat /\ i > 0
    BY LenProperties DEF FoundFor, ActivationsOf, RollbacksOf, ControlInv, TypeOK
  <2>3. call[k].started \in Nat
    BY <2>1 DEF CallRecord
  <2> QED
    BY <2>1, <2>2, <2>3 DEF CallOK, Asks, AnswerOK
<1>2. ControlSafety /\ []ControlInv => []CommittedCallsReplay
  BY <1>1, PTL
<1> QED
  BY <1>2, ControlIsSafe

(* A preparation is activated once, and an activation rolled back once. *)
LEMMA OneFound ==
    ASSUME BoundInv, OnceInv, NEW kind, NEW arg,
           NEW i \in FoundFor(kind, arg), NEW j \in FoundFor(kind, arg)
    PROVE  i = j
<1>1. CASE kind = "activate"
  <2>1. /\ i \in DOMAIN receipts /\ receipts[i].kind = "ACTIVATE" /\ receipts[i].prepared = arg
        /\ j \in DOMAIN receipts /\ receipts[j].kind = "ACTIVATE" /\ receipts[j].prepared = arg
    BY <1>1 DEF FoundFor, ActivationsOf
  <2>2. BoundAt(i) /\ BoundAt(j)
    BY <2>1, BoundUnfold DEF AllBound
  <2>3. receipts[i].scope = receipts[j].scope /\ receipts[i].op = receipts[j].op
    BY <2>1, <2>2 DEF BoundAt
  <2> QED
    BY <2>1, <2>3 DEF OnceInv, OncePerOperation
<1>2. CASE kind = "rollback"
  <2>1. /\ i \in DOMAIN receipts /\ receipts[i].kind = "ROLLBACK" /\ receipts[i].source = arg
        /\ j \in DOMAIN receipts /\ receipts[j].kind = "ROLLBACK" /\ receipts[j].source = arg
    BY <1>2 DEF FoundFor, RollbacksOf
  <2>2. receipts[i].scope = receipts[j].scope /\ receipts[i].op = receipts[j].op
    BY <2>1 DEF OnceInv, UndoesItsOwn
  <2> QED
    BY <2>1, <2>2 DEF OnceInv, OncePerOperation
<1> QED
  BY <1>1, <1>2 DEF FoundFor

(***************************************************************************)
(* Calls that race for one preparation or for one receipt are given the    *)
(* same answer, and it is a receipt for what they asked.                   *)
(***************************************************************************)
THEOREM RacersAgree == ControlSpec => []AnswersAgree
<1>1. ControlInv => AnswersAgree
  <2> SUFFICES ASSUME ControlInv, NEW k \in Clients, NEW l \in Clients
               PROVE  /\ call[k].pc = "returned" /\ call[k].kind # "prepare"
                           => call[k].receipt \in FoundFor(call[k].kind, call[k].arg)
                      /\ /\ call[k].pc = "returned" /\ call[l].pc = "returned"
                         /\ call[k].kind = call[l].kind /\ call[k].arg = call[l].arg
                         => call[k].receipt = call[l].receipt
    BY DEF AnswersAgree
  <2>1. CallOK(call[k]) /\ CallOK(call[l]) /\ BoundInv /\ OnceInv
    BY DEF ControlInv, CallsOK
  <2>2. ASSUME NEW c, CallOK(c), c.pc = "returned"
        PROVE  /\ c.kind = "prepare" => c.receipt = 0
               /\ c.kind # "prepare" => c.receipt \in FoundFor(c.kind, c.arg)
    BY <2>2 DEF CallOK, PrepareOK, AnswerOK
  <2> QED
    BY <2>1, <2>2, OneFound
<1>2. ControlSafety /\ []ControlInv => []AnswersAgree
  BY <1>1, PTL
<1> QED
  BY <1>2, ControlIsSafe

(* What a step must have checked for every receipt i it writes. *)
Authorized(i) ==
    LET r == receipts'[i] IN
    IF r.kind = "ROLLBACK" THEN permits
    ELSE /\ r.prepared \in accepts
         /\ prepared[r.prepared].needs =>
              \E a \in Approvals :
                /\ a.distinct /\ a.id = r.prepared
                /\ a.record = prepared[r.prepared]
                /\ a.issued <= clock /\ clock < a.expires

(* The gate of activate speaks for the preparation the receipt names. *)
LEMMA GateAuthorizes ==
    ASSUME TypeOK, CallType, CallsOK, NEW k \in Clients, CommitActivate(k),
           NEW i \in (DOMAIN receipts') \ DOMAIN receipts
    PROVE  Authorized(i)
<1>1. PICK c \in CallRecord : c = call[k]
  BY DEF CallType
<1>2. CallOK(c) /\ c.pc = "commit" /\ c.kind = "activate"
  BY <1>1 DEF CallsOK, CommitActivate, InCall
<1> DEFINE p == c.arg
           s == c.record.scope
<1>3. p \in PreparedIds /\ c.ticket \in DOMAIN tickets /\ prepared[p] # None
      /\ c.record = prepared[p]
  BY <1>2 DEF CallOK, ActivateOK
<1>4. s \in Scopes
  BY <1>3, CandidatesAreRecords DEF TypeOK, PreparedRecord
<1>5. ~UNCHANGED vars
  BY DEF vars, dbVars
<1>6. /\ ActivationAdmitted(s, p, c.ticket) /\ ActivationGate(k, p)
      /\ CommitActivation(s, p, c.ticket)
  BY <1>1, <1>5 DEF CommitActivate, ActivateGiven
<1>7. ActivatePrepared(s, p, c.ticket)
  BY <1>6 DEF ActivatePrepared
<1>8. p \in accepts /\ ApprovalAccepted(p, prepared[p], c.approval)
  BY <1>1, <1>6 DEF ActivationGate, RecordAccepted
<1>9. c.approval \in Approvals \cup {None}
  BY DEF CallRecord
<1> HIDE DEF p, s
<1>10. PICK r \in Receipt : /\ receipts' = Append(receipts, r) /\ r.kind = "ACTIVATE"
                            /\ r.prepared = p
  BY <1>3, <1>4, <1>7, ActivateEffect
<1>11. receipts'[i] = r
  BY <1>10, ReceiptAppended
<1> QED
  BY <1>8, <1>9, <1>10, <1>11 DEF Authorized, ApprovalAccepted

(* A rollback commits only while it is permitted. *)
LEMMA PermitAuthorizes ==
    ASSUME TypeOK, CallType, CallsOK, NEW k \in Clients, CommitRollbackCall(k),
           NEW i \in (DOMAIN receipts') \ DOMAIN receipts
    PROVE  Authorized(i)
<1>1. PICK c \in CallRecord : c = call[k]
  BY DEF CallType
<1>2. CallOK(c) /\ c.pc = "commit" /\ c.kind = "rollback"
  BY <1>1 DEF CallsOK, CommitRollbackCall, InCall
<1> DEFINE j == c.arg
           s == receipts[j].scope
<1>3. j \in DOMAIN receipts /\ c.ticket \in DOMAIN tickets
  BY <1>2 DEF CallOK, RollbackOK
<1>4. receipts[j] \in Receipt
  BY <1>3, ElementOfSeq, LenProperties DEF TypeOK
<1>5. s \in Scopes
  BY <1>4 DEF Receipt
<1>6. ~UNCHANGED vars
  BY DEF vars, dbVars
<1>7. RollbackAdmitted(s, j, c.ticket) /\ permits /\ CommitRollback(s, j, c.ticket)
  BY <1>1, <1>6 DEF CommitRollbackCall
<1>8. RollbackReceipt(s, j, c.ticket)
  BY <1>7 DEF RollbackReceipt
<1> HIDE DEF j, s
<1>9. PICK r \in Receipt : receipts' = Append(receipts, r) /\ r.kind = "ROLLBACK"
  BY <1>3, <1>5, <1>8, RollbackEffect
<1>10. receipts'[i] = r
  BY <1>9, ReceiptAppended
<1> QED
  BY <1>7, <1>9, <1>10 DEF Authorized

(***************************************************************************)
(* No stale authority: the policy, the approval and its lifetime are those *)
(* of the instant of the commit, however long ago the call checked them.   *)
(***************************************************************************)
THEOREM NoStaleAuthority == ControlSpec => AuthorizedWhenCommitted
<1> DEFINE Granted == \A i \in (DOMAIN receipts') \ DOMAIN receipts :
              LET r == receipts'[i] IN
              IF r.kind = "ROLLBACK" THEN permits
              ELSE /\ r.prepared \in accepts
                   /\ prepared[r.prepared].needs =>
                        \E a \in Approvals :
                          /\ a.distinct /\ a.id = r.prepared
                          /\ a.record = prepared[r.prepared]
                          /\ a.issued <= clock /\ clock < a.expires
<1>1. ControlInv /\ [ControlNext]_allVars => [Granted]_allVars
  <2> SUFFICES ASSUME ControlInv, [ControlNext]_allVars,
                      NEW i \in (DOMAIN receipts') \ DOMAIN receipts
               PROVE  Authorized(i)
    BY DEF Authorized
  <2>1. receipts' # receipts /\ TypeOK /\ CallType /\ CallsOK
    BY DEF ControlInv
  <2>2. ASSUME NEW s \in Scopes, SessionStep(s) PROVE receipts' = receipts
    BY <2>2 DEF SessionStep, Initialize, BeginAction, EndAction, IssueReconciliation,
                Reconcile, ReserveBoundary, ConsumeBoundary, ProcessEnds, dbVars
  <2>3. Tick \/ PolicyChange \/ UNCHANGED allVars => receipts' = receipts
    BY DEF Tick, PolicyChange, allVars, vars, dbVars
  <2>4. ASSUME NEW k \in Clients, ClientStart(k) \/ ClientCrash(k) PROVE receipts' = receipts
    BY <2>4 DEF ClientStart, StartPrepare, StartActivate, StartRollback, StartCall,
                ClientCrash, vars, dbVars
  <2>5. PICK k \in Clients : ClientStep(k)
    BY <2>1, <2>2, <2>3, <2>4 DEF ControlNext
  <2>6. CASE CommitActivate(k)
    BY <2>1, <2>6, GateAuthorizes
  <2>7. CASE CommitRollbackCall(k)
    BY <2>1, <2>7, PermitAuthorizes
  <2>8. ASSUME \/ FindReceipt(k) \/ LoadPrepared(k) \/ CheckRecord(k) \/ CheckApproval(k)
               \/ CommitPrepare(k) \/ CheckRollback(k) \/ Deliver(k)
        PROVE  receipts' = receipts
    BY <2>8 DEF FindReceipt, LoadPrepared, CheckRecord, CheckApproval, CommitPrepare,
                SavePrepared, CheckRollback, Deliver, vars, dbVars
  <2> QED
    BY <2>1, <2>5, <2>6, <2>7, <2>8 DEF ClientStep
<1>2. ControlSafety /\ []ControlInv => AuthorizedWhenCommitted
  BY <1>1, PTL DEF ControlSafety, AuthorizedWhenCommitted
<1> QED
  BY <1>2, ControlIsSafe
=============================================================================
