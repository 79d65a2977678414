------------------------- MODULE RuntimeStoreProofs -------------------------
(***************************************************************************)
(* Theorems about RuntimeStore for every number of scopes, operations,     *)
(* preparations and tickets: type correctness; the self-check of _row      *)
(* never fails on a state the store itself has committed; the receipts are *)
(* the history of the pointer and agree with what authorised them; the     *)
(* pointer does not move under a live process; and the store implements    *)
(* SwapPointer.                                                            *)
(***************************************************************************)
EXTENDS RuntimeStorePointer, SequenceTheorems, TLAPS

-----------------------------------------------------------------------------
(* Type correctness *)

(* Marking a stored ticket consumed yields a table of tickets. *)
LEMMA SpentTicketType ==
    ASSUME tickets \in Seq(Ticket), NEW t \in DOMAIN tickets
    PROVE  [tickets EXCEPT ![t].consumed = TRUE] \in Seq(Ticket)
<1> DEFINE k == [tickets[t] EXCEPT !.consumed = TRUE]
<1>1. t \in 1..Len(tickets) /\ tickets[t] \in Ticket
  BY ElementOfSeq, LenProperties
<1>2. k \in Ticket
  BY <1>1 DEF Ticket
<1>3. [tickets EXCEPT ![t] = k] \in Seq(Ticket)
  BY <1>1, <1>2, ExceptSeq
<1>4. [tickets EXCEPT ![t].consumed = TRUE] = [tickets EXCEPT ![t] = k]
  OBVIOUS
<1> QED
  BY <1>3, <1>4

(* Counting one more event keeps the audit counters natural. *)
LEMMA AuditedType ==
    ASSUME audit \in [Scopes -> [AuditKinds -> Nat]],
           NEW s \in Scopes, NEW kind \in AuditKinds
    PROVE  Audited(s, kind) \in [Scopes -> [AuditKinds -> Nat]]
BY DEF Audited

(* Replacing one row by a well-typed one. *)
LEMMA RowUpdate ==
    ASSUME row \in [Scopes -> Row], NEW s \in Scopes, NEW r \in Row,
           row' = [row EXCEPT ![s] = r]
    PROVE  /\ row' \in [Scopes -> Row]
           /\ row'[s] = r
           /\ \A x \in Scopes : x # s => row'[x] = row[x]
OBVIOUS

(* Replacing one action by a well-typed one. *)
LEMMA ActionUpdate ==
    ASSUME actions \in [Scopes -> [Ops -> ActionRecord]], NEW s \in Scopes, NEW o \in Ops,
           NEW r \in ActionRecord, actions' = [actions EXCEPT ![s][o] = r]
    PROVE  /\ actions' \in [Scopes -> [Ops -> ActionRecord]]
           /\ actions'[s][o] = r
           /\ \A x \in Scopes, p \in Ops :
                x # s \/ p # o => actions'[x][p] = actions[x][p]
OBVIOUS

(* A binding under another generation is a binding of the same capsule. *)
LEMMA Rebound ==
    ASSUME NEW b \in Binding, NEW g \in Nat
    PROVE  LET n == [b EXCEPT !.generation = g] IN
           n \in Binding /\ n.generation = g /\ n.cap = b.cap
BY DEF Binding

(* Moving the pointer changes the active binding and the generation. *)
LEMMA RowPointer ==
    ASSUME NEW r \in Row, NEW b \in Binding
    PROVE  LET n == [r EXCEPT !.active = b, !.generation = b.generation] IN
           /\ n \in Row
           /\ n.active = b /\ n.generation = b.generation
           /\ n.state = r.state /\ n.epoch = r.epoch /\ n.current = r.current
<1>1. b \in [cap : Caps \cup {None}, generation : Nat] /\ b.generation \in Nat
  BY DEF Binding
<1> QED
  BY <1>1 DEF Row

-----------------------------------------------------------------------------
(* What the actions write, field by field *)

(* begin_action. *)
LEMMA BeginEffect ==
    ASSUME TypeOK, NEW s \in Scopes, NEW o \in Ops, NEW q \in Requests, BeginAction(s, o, q)
    PROVE  /\ row' \in [Scopes -> Row]
           /\ actions' \in [Scopes -> [Ops -> ActionRecord]]
           /\ row'[s].state = "RUNNING" /\ row'[s].current = o
           /\ row'[s].epoch = row[s].epoch + 1
           /\ row'[s].active = row[s].active /\ row'[s].generation = row[s].generation
           /\ actions'[s][o].state = "RUNNING"
           /\ actions'[s][o].epoch = row[s].epoch + 1
           /\ actions'[s][o].request = q
           /\ \A x \in Scopes : x # s => row'[x] = row[x]
           /\ \A x \in Scopes, p \in Ops : x # s \/ p # o => actions'[x][p] = actions[x][p]
<1> DEFINE r == [row[s] EXCEPT !.state = "RUNNING", !.current = o, !.epoch = row[s].epoch + 1]
           n == [state |-> "RUNNING", request |-> q, epoch |-> row[s].epoch + 1,
                 outcome |-> None]
<1>1. row[s] \in Row /\ row[s].epoch + 1 \in Nat
  BY DEF TypeOK, Row
<1>2. /\ r \in Row /\ r.state = "RUNNING" /\ r.current = o /\ r.epoch = row[s].epoch + 1
      /\ r.active = row[s].active /\ r.generation = row[s].generation
  BY <1>1 DEF Row, ActionStates
<1>3. n \in ActionRecord
  BY <1>1 DEF ActionRecord, ActionStates
<1>4. row' = [row EXCEPT ![s] = r]
  BY DEF BeginAction
<1>8. actions' = [actions EXCEPT ![s][o] = n]
  BY DEF BeginAction
<1>5. n.state = "RUNNING" /\ n.epoch = row[s].epoch + 1 /\ n.request = q
  OBVIOUS
<1> HIDE DEF r, n
<1>6. /\ row' \in [Scopes -> Row] /\ row'[s] = r
      /\ \A x \in Scopes : x # s => row'[x] = row[x]
  BY <1>2, <1>4, RowUpdate DEF TypeOK
<1>7. /\ actions' \in [Scopes -> [Ops -> ActionRecord]] /\ actions'[s][o] = n
      /\ \A x \in Scopes, p \in Ops : x # s \/ p # o => actions'[x][p] = actions[x][p]
  BY <1>3, <1>8, ActionUpdate DEF TypeOK
<1> QED
  BY <1>2, <1>5, <1>6, <1>7

(* end_action. *)
LEMMA EndEffect ==
    ASSUME TypeOK, NEW s \in Scopes, NEW o \in Ops, NEW q \in Requests,
           NEW uncertain \in BOOLEAN, NEW outcome \in Outcomes,
           EndAction(s, o, q, row[s].epoch, uncertain, outcome)
    PROVE  /\ row' \in [Scopes -> Row]
           /\ actions' \in [Scopes -> [Ops -> ActionRecord]]
           /\ row'[s].state = IF uncertain THEN "UNCERTAIN" ELSE "IDLE"
           /\ row'[s].current = None /\ row'[s].epoch = row[s].epoch
           /\ row'[s].active = row[s].active /\ row'[s].generation = row[s].generation
           /\ actions'[s][o].state = row'[s].state
           /\ actions'[s][o].epoch = actions[s][o].epoch
           /\ actions'[s][o].request = actions[s][o].request
           /\ \A x \in Scopes : x # s => row'[x] = row[x]
           /\ \A x \in Scopes, p \in Ops : x # s \/ p # o => actions'[x][p] = actions[x][p]
<1> DEFINE target == IF uncertain THEN "UNCERTAIN" ELSE "IDLE"
           r == [row[s] EXCEPT !.state = target, !.current = None]
           n == [actions[s][o] EXCEPT !.state = target, !.outcome = outcome]
<1>1. row[s] \in Row /\ actions[s][o] \in ActionRecord /\ target \in ActionStates
  BY DEF TypeOK, ActionStates
<1>2. row' = [row EXCEPT ![s] = r] /\ actions' = [actions EXCEPT ![s][o] = n]
  BY DEF EndAction
<1> HIDE DEF target
<1>3. /\ r \in Row /\ r.state = target /\ r.current = None /\ r.epoch = row[s].epoch
      /\ r.active = row[s].active /\ r.generation = row[s].generation
  BY <1>1 DEF Row
<1>4. /\ n \in ActionRecord /\ n.state = target
      /\ n.epoch = actions[s][o].epoch /\ n.request = actions[s][o].request
  BY <1>1 DEF ActionRecord
<1> HIDE DEF r, n
<1>5. /\ row' \in [Scopes -> Row] /\ row'[s] = r
      /\ \A x \in Scopes : x # s => row'[x] = row[x]
  BY <1>2, <1>3, RowUpdate DEF TypeOK
<1>6. /\ actions' \in [Scopes -> [Ops -> ActionRecord]] /\ actions'[s][o] = n
      /\ \A x \in Scopes, p \in Ops : x # s \/ p # o => actions'[x][p] = actions[x][p]
  BY <1>2, <1>4, ActionUpdate DEF TypeOK
<1> QED
  BY <1>3, <1>4, <1>5, <1>6 DEF target

(* reconcile. *)
LEMMA ReconcileEffect ==
    ASSUME TypeOK, NEW s \in Scopes, NEW proof \in proofs, Reconcile(s, proof)
    PROVE  /\ proof.op \in Ops
           /\ row' \in [Scopes -> Row]
           /\ actions' \in [Scopes -> [Ops -> ActionRecord]]
           /\ row'[s].state = "IDLE" /\ row'[s].current = None
           /\ row'[s].epoch = row[s].epoch
           /\ row'[s].active = row[s].active /\ row'[s].generation = row[s].generation
           /\ actions'[s][proof.op].state = "IDLE"
           /\ actions'[s][proof.op].epoch = actions[s][proof.op].epoch
           /\ actions'[s][proof.op].request = actions[s][proof.op].request
           /\ \A x \in Scopes : x # s => row'[x] = row[x]
           /\ \A x \in Scopes, p \in Ops :
                x # s \/ p # proof.op => actions'[x][p] = actions[x][p]
<1> DEFINE o == proof.op
           r == [row[s] EXCEPT !.state = "IDLE", !.current = None]
           n == [actions[s][o] EXCEPT !.state = "IDLE"]
<1>1. /\ o \in Ops /\ row[s] \in Row /\ actions[s][o] \in ActionRecord
      /\ actions[s][o].outcome \in Outcomes \cup {None}
  BY DEF TypeOK, Proof, ActionRecord
<1>2. row' = [row EXCEPT ![s] = r] /\ actions' = [actions EXCEPT ![s][o] = n]
  BY DEF Reconcile
<1>3. /\ r \in Row /\ r.state = "IDLE" /\ r.current = None /\ r.epoch = row[s].epoch
      /\ r.active = row[s].active /\ r.generation = row[s].generation
  BY <1>1 DEF Row, ActionStates
<1>4. /\ n \in ActionRecord /\ n.state = "IDLE"
      /\ n.epoch = actions[s][o].epoch /\ n.request = actions[s][o].request
  BY <1>1 DEF ActionRecord, ActionStates
<1> HIDE DEF r, n
<1>5. /\ row' \in [Scopes -> Row] /\ row'[s] = r
      /\ \A x \in Scopes : x # s => row'[x] = row[x]
  BY <1>1, <1>2, <1>3, RowUpdate DEF TypeOK
<1>6. /\ actions' \in [Scopes -> [Ops -> ActionRecord]] /\ actions'[s][o] = n
      /\ \A x \in Scopes, p \in Ops : x # s \/ p # o => actions'[x][p] = actions[x][p]
  <2> HIDE DEF o
  <2> QED
    BY <1>1, <1>2, <1>4, ActionUpdate DEF TypeOK
<1> QED
  BY <1>1, <1>3, <1>4, <1>5, <1>6

(* Either pointer commit: the row moves to a binding b, the action table   *)
(* stays.                                                                  *)
LEMMA MoveEffect ==
    ASSUME TypeOK, NEW s \in Scopes, NEW b \in Binding,
           row' = [row EXCEPT ![s] = [@ EXCEPT !.active = b, !.generation = b.generation]]
    PROVE  /\ row' \in [Scopes -> Row]
           /\ row'[s].active = b /\ row'[s].generation = b.generation
           /\ row'[s].state = row[s].state /\ row'[s].epoch = row[s].epoch
           /\ row'[s].current = row[s].current
           /\ \A x \in Scopes : x # s => row'[x] = row[x]
<1> DEFINE r == [row[s] EXCEPT !.active = b, !.generation = b.generation]
<1>1. row[s] \in Row
  BY DEF TypeOK
<1>2. /\ r \in Row /\ r.active = b /\ r.generation = b.generation
      /\ r.state = row[s].state /\ r.epoch = row[s].epoch /\ r.current = row[s].current
  BY <1>1, RowPointer
<1>3. row' = [row EXCEPT ![s] = r]
  OBVIOUS
<1> HIDE DEF r
<1>4. /\ row' \in [Scopes -> Row] /\ row'[s] = r
      /\ \A x \in Scopes : x # s => row'[x] = row[x]
  BY <1>2, <1>3, RowUpdate DEF TypeOK
<1> QED
  BY <1>2, <1>4

-----------------------------------------------------------------------------
(* Type correctness *)

(* The initial tables are well typed. *)
LEMMA InitType == Init => TypeOK
<1> SUFFICES ASSUME Init PROVE TypeOK
  OBVIOUS
<1>1. AbsentRow \in Row
  BY DEF AbsentRow, Row
<1>2. NoAction \in ActionRecord
  BY DEF NoAction, ActionRecord
<1> QED
  BY <1>1, <1>2 DEF Init, TypeOK, Ticket, Receipt, Proof

(* begin_action, end_action and reconcile keep the tables well typed. *)
LEMMA SessionType ==
    ASSUME TypeOK, NEW s \in Scopes, SessionStep(s)
    PROVE  TypeOK'
<1> USE DEF TypeOK
<1>1. CASE \E c \in Caps : Initialize(s, c)
  <2>1. PICK c \in Caps : Initialize(s, c)
    BY <1>1
  <2>2. row' \in [Scopes -> Row]
    BY <2>1 DEF Initialize, Row, ActionStates
  <2>3. audit' \in [Scopes -> [AuditKinds -> Nat]]
    BY <2>1, AuditedType DEF Initialize, AuditKinds
  <2> QED
    BY <2>1, <2>2, <2>3 DEF Initialize
<1>2. CASE \E o \in Ops, q \in Requests : BeginAction(s, o, q)
  <2>1. PICK o \in Ops, q \in Requests : BeginAction(s, o, q)
    BY <1>2
  <2>2. row' \in [Scopes -> Row] /\ actions' \in [Scopes -> [Ops -> ActionRecord]]
    BY <2>1, BeginEffect
  <2>4. audit' \in [Scopes -> [AuditKinds -> Nat]]
    BY <2>1, AuditedType DEF BeginAction, AuditKinds
  <2> QED
    BY <2>1, <2>2, <2>4 DEF BeginAction
<1>3. CASE \E o \in Ops, q \in Requests, uncertain \in BOOLEAN, outcome \in Outcomes :
             EndAction(s, o, q, row[s].epoch, uncertain, outcome)
  <2>1. PICK o \in Ops, q \in Requests, uncertain \in BOOLEAN, outcome \in Outcomes :
               EndAction(s, o, q, row[s].epoch, uncertain, outcome)
    BY <1>3
  <2>2. row' \in [Scopes -> Row] /\ actions' \in [Scopes -> [Ops -> ActionRecord]]
    BY <2>1, EndEffect
  <2>4. audit' \in [Scopes -> [AuditKinds -> Nat]]
    BY <2>1, AuditedType DEF EndAction, AuditKinds
  <2> QED
    BY <2>1, <2>2, <2>4 DEF EndAction
<1>4. CASE \E o \in Ops : IssueReconciliation(s, o)
  BY <1>4 DEF IssueReconciliation, Proof, ActionRecord, dbVars
<1>5. CASE \E proof \in proofs : Reconcile(s, proof)
  <2>1. PICK proof \in proofs : Reconcile(s, proof)
    BY <1>5
  <2>2. row' \in [Scopes -> Row] /\ actions' \in [Scopes -> [Ops -> ActionRecord]]
    BY <2>1, ReconcileEffect
  <2>5. audit' \in [Scopes -> [AuditKinds -> Nat]]
    BY <2>1, AuditedType DEF Reconcile, AuditKinds
  <2> QED
    BY <2>1, <2>2, <2>5 DEF Reconcile
<1>6. CASE \E o \in Ops, ttl \in 1..MaxTTL : ReserveBoundary(s, o, row[s].generation, ttl)
  <2>1. PICK o \in Ops, ttl \in 1..MaxTTL : ReserveBoundary(s, o, row[s].generation, ttl)
    BY <1>6
  <2>2. [scope |-> s, generation |-> row[s].generation, epoch |-> row[s].epoch, op |-> o,
         expires |-> clock + ttl, consumed |-> FALSE] \in Ticket
    BY BoundsAreNat DEF Ticket, Row
  <2>3. tickets' \in Seq(Ticket)
    BY <2>1, <2>2, AppendProperties DEF ReserveBoundary
  <2>4. audit' \in [Scopes -> [AuditKinds -> Nat]]
    BY <2>1, AuditedType DEF ReserveBoundary, AuditKinds
  <2> QED
    BY <2>1, <2>3, <2>4 DEF ReserveBoundary
<1>7. CASE \E t \in DOMAIN tickets : ConsumeBoundary(s, t)
  <2>1. PICK t \in DOMAIN tickets : ConsumeBoundary(s, t)
    BY <1>7
  <2>2. tickets' \in Seq(Ticket)
    BY <2>1, SpentTicketType DEF ConsumeBoundary
  <2>3. audit' \in [Scopes -> [AuditKinds -> Nat]]
    BY <2>1, AuditedType DEF ConsumeBoundary, AuditKinds
  <2> QED
    BY <2>1, <2>2, <2>3 DEF ConsumeBoundary
<1>8. CASE \E o \in Ops : ProcessEnds(s, o)
  BY <1>8 DEF ProcessEnds, dbVars
<1> QED
  BY <1>1, <1>2, <1>3, <1>4, <1>5, <1>6, <1>7, <1>8 DEF SessionStep

(* activate_prepared and rollback_receipt keep the tables well typed. *)
LEMMA PointerType ==
    ASSUME TypeOK, NEW s \in Scopes, PointerStep(s)
    PROVE  TypeOK'
<1> USE DEF TypeOK
<1>1. CASE \E p \in PreparedIds, t \in DOMAIN tickets : ActivatePrepared(s, p, t)
  <2>1. PICK p \in PreparedIds, t \in DOMAIN tickets : ActivatePrepared(s, p, t)
    BY <1>1
  <2> DEFINE c == prepared[p]
  <2>2. /\ c \in PreparedRecord /\ c.old = row[s].active
        /\ c.new.generation = row[s].generation + 1
    BY <2>1, CandidatesAreRecords DEF ActivatePrepared, ActivationAdmitted
  <2>3. c.old \in Binding /\ c.new \in Binding /\ c.op \in Ops /\ c.request \in Requests
    BY <2>2 DEF PreparedRecord
  <2>4. row' \in [Scopes -> Row]
    <3>1. row' = [row EXCEPT ![s] = [@ EXCEPT !.active = c.new,
                                              !.generation = c.new.generation]]
      BY <2>1 DEF ActivatePrepared, CommitActivation
    <3> HIDE DEF c
    <3> QED
      BY <2>3, <3>1, MoveEffect
  <2>5. tickets' \in Seq(Ticket)
    BY <2>1, SpentTicketType DEF ActivatePrepared, CommitActivation
  <2>6. receipts' \in Seq(Receipt)
    <3>1. t \in Nat
      BY <2>1, LenProperties
    <3>2. [kind |-> "ACTIVATE", scope |-> s, op |-> c.op, request |-> c.request,
           prepared |-> p, source |-> 0, ticket |-> t, old |-> row[s].active,
           new |-> c.new, before |-> row[s].generation,
           after |-> c.new.generation] \in Receipt
      BY <2>2, <2>3, <3>1 DEF Receipt, Binding, Row
    <3> QED
      BY <2>1, <3>2, AppendProperties DEF ActivatePrepared, CommitActivation
  <2>7. audit' \in [Scopes -> [AuditKinds -> Nat]]
    BY <2>1, AuditedType DEF ActivatePrepared, CommitActivation, AuditKinds
  <2> QED
    BY <2>1, <2>4, <2>5, <2>6, <2>7 DEF ActivatePrepared, CommitActivation
<1>2. CASE \E i \in DOMAIN receipts, t \in DOMAIN tickets : RollbackReceipt(s, i, t)
  <2>1. PICK i \in DOMAIN receipts, t \in DOMAIN tickets : RollbackReceipt(s, i, t)
    BY <1>2
  <2> DEFINE src == receipts[i]
             restored == [src.old EXCEPT !.generation = row[s].generation + 1]
  <2>2. src \in Receipt /\ row[s].active = src.new /\ row[s].generation \in Nat
    BY <2>1, ElementOfSeq, LenProperties DEF RollbackReceipt, RollbackAdmitted, Row
  <2>3. restored \in Binding /\ restored.generation = row[s].generation + 1
    <3>1. src.old \in Binding
      BY <2>2 DEF Receipt
    <3>2. row[s].generation + 1 \in Nat
      BY <2>2
    <3> HIDE DEF src
    <3> QED
      BY <3>1, <3>2, Rebound
  <2>4. row' \in [Scopes -> Row]
    <3>1. row' = [row EXCEPT ![s] = [@ EXCEPT !.active = restored,
                                              !.generation = restored.generation]]
      BY <2>1 DEF RollbackReceipt, CommitRollback, RestoreTo
    <3> HIDE DEF restored
    <3> QED
      BY <2>3, <3>1, MoveEffect
  <2>5. tickets' \in Seq(Ticket)
    BY <2>1, SpentTicketType DEF RollbackReceipt, CommitRollback, RestoreTo
  <2>6. receipts' \in Seq(Receipt)
    <3>1. t \in Nat /\ i \in Nat
      BY <2>1, LenProperties
    <3> DEFINE r == [kind |-> "ROLLBACK", scope |-> s, op |-> src.op,
           request |-> src.request, prepared |-> None, source |-> i, ticket |-> t,
           old |-> row[s].active, new |-> restored, before |-> row[s].generation,
           after |-> restored.generation]
    <3>2. receipts' = Append(receipts, r)
      BY <2>1 DEF RollbackReceipt, CommitRollback, RestoreTo
    <3>3. restored.generation \in Nat
      BY <2>3 DEF Binding
    <3>4. src.op \in Ops /\ src.request \in Requests /\ src.new \in Binding
      BY <2>2 DEF Receipt
    <3> HIDE DEF restored, src
    <3>5. r \in Receipt
      BY <2>2, <2>3, <3>1, <3>3, <3>4 DEF Receipt
    <3> QED
      BY <3>2, <3>5, AppendProperties
  <2>7. audit' \in [Scopes -> [AuditKinds -> Nat]]
    BY <2>1, AuditedType DEF RollbackReceipt, CommitRollback, RestoreTo, AuditKinds
  <2> QED
    BY <2>1, <2>4, <2>5, <2>6, <2>7 DEF RollbackReceipt, CommitRollback, RestoreTo
<1> QED
  BY <1>1, <1>2 DEF PointerStep

(* Every step of the store keeps the tables well typed. *)
LEMMA NextType == TypeOK /\ [Next]_vars => TypeOK'
<1> SUFFICES ASSUME TypeOK, [Next]_vars PROVE TypeOK'
  OBVIOUS
<1>1. CASE \E s \in Scopes : SessionStep(s)
  BY <1>1, SessionType
<1>2. CASE \E s \in Scopes : PointerStep(s)
  BY <1>2, PointerType
<1>3. CASE \E p \in PreparedIds, c \in Candidates : SavePrepared(p, c)
  BY <1>3 DEF SavePrepared, TypeOK
<1>4. CASE Tick
  BY <1>4 DEF Tick, TypeOK, dbVars
<1>5. CASE UNCHANGED vars
  BY <1>5 DEF vars, dbVars, TypeOK
<1> QED
  BY <1>1, <1>2, <1>3, <1>4, <1>5 DEF Next

(* Every table of the runtime database keeps its type, whatever sequence   *)
(* of calls the sessions and controllers make.                             *)
THEOREM TypeCorrect == Spec => []TypeOK
  BY InitType, NextType, PTL DEF Spec

-----------------------------------------------------------------------------
(* The row and the action table agree *)

(***************************************************************************)
(* RowAlwaysVerifies is not inductive: it says nothing of an UNCERTAIN     *)
(* action that is not the latest, which reconcile could then release in    *)
(* place of the latest, nor of an action with an epoch beyond the row's.   *)
(* What makes it inductive is that the epoch of the row numbers the        *)
(* actions: no action lies beyond it, no two share an epoch, and only the  *)
(* action at the row's epoch can be anything but IDLE.                     *)
(***************************************************************************)
EpochsNumberActions(s) ==
    \A o \in Recorded(s) :
      /\ actions[s][o].epoch <= row[s].epoch
      /\ \A p \in Recorded(s) : actions[s][p].epoch = actions[s][o].epoch => p = o

LatestCarriesState(s) ==
    \A o \in Recorded(s) :
      /\ actions[s][o].epoch = row[s].epoch => actions[s][o].state = row[s].state
      /\ actions[s][o].state # "IDLE" => actions[s][o].epoch = row[s].epoch

CurrentIsRunning(s) ==
    /\ row[s].state = "RUNNING" <=> row[s].current # None
    /\ row[s].state = "RUNNING" =>
         /\ row[s].current \in RunningActions(s)
         /\ actions[s][row[s].current].epoch = row[s].epoch

AbsentIsEmpty(s) == ~Initialized(s) => Recorded(s) = {}

SessionAt(s) ==
    /\ row[s].generation = row[s].active.generation
    /\ EpochsNumberActions(s)
    /\ LatestCarriesState(s)
    /\ CurrentIsRunning(s)
    /\ AbsentIsEmpty(s)

SessionInv == \A s \in Scopes : SessionAt(s)

(* The invariant of one scope, spelt out over the two tables. *)
LEMMA SessionUnfold ==
    ASSUME NEW s
    PROVE  SessionAt(s) <=>
      /\ row[s].generation = row[s].active.generation
      /\ \A o \in Ops : actions[s][o].state # "NONE" =>
           /\ actions[s][o].epoch <= row[s].epoch
           /\ \A p \in Ops : /\ actions[s][p].state # "NONE"
                             /\ actions[s][p].epoch = actions[s][o].epoch
                             => p = o
           /\ actions[s][o].epoch = row[s].epoch => actions[s][o].state = row[s].state
           /\ actions[s][o].state # "IDLE" => actions[s][o].epoch = row[s].epoch
      /\ row[s].state = "RUNNING" <=> row[s].current # None
      /\ row[s].state = "RUNNING" =>
           /\ row[s].current \in Ops /\ actions[s][row[s].current].state = "RUNNING"
           /\ actions[s][row[s].current].epoch = row[s].epoch
      /\ row[s].state = "ABSENT" => \A o \in Ops : actions[s][o].state = "NONE"
BY DEF SessionAt, EpochsNumberActions, LatestCarriesState, CurrentIsRunning,
       AbsentIsEmpty, Recorded, RunningActions, Initialized

(* A step that leaves a scope's row and actions alone keeps its invariant. *)
LEMMA SessionUntouched ==
    ASSUME NEW s, SessionAt(s), row'[s] = row[s],
           \A o \in Ops : actions'[s][o] = actions[s][o]
    PROVE  SessionAt(s)'
BY DEF SessionAt, EpochsNumberActions, LatestCarriesState, CurrentIsRunning,
       AbsentIsEmpty, Recorded, RunningActions, Initialized

(* The invariant holds of an empty database. *)
LEMMA InitSession == Init => SessionInv
BY SessionUnfold DEF Init, SessionInv, AbsentRow, NoAction

(* begin_action appends the next epoch and makes it the running one. *)
LEMMA BeginSession ==
    ASSUME TypeOK, SessionInv, NEW s \in Scopes, NEW o \in Ops, NEW q \in Requests,
           BeginAction(s, o, q)
    PROVE  SessionInv'
<1> SUFFICES ASSUME NEW x \in Scopes PROVE SessionAt(x)'
  BY DEF SessionInv
<1>1. SessionAt(x)
  BY DEF SessionInv
<1>2. CASE x # s
  BY <1>1, <1>2, BeginEffect, SessionUntouched
<1>3. CASE x = s
  <2>1. /\ actions[s][o].state = "NONE" /\ row[s].state = "IDLE"
        /\ row[s].epoch \in Nat /\ \A p \in Ops : actions[s][p].epoch \in Nat
        /\ o # None
    BY NoneIsNoValue DEF BeginAction, TypeOK, Row, ActionRecord
  <2> QED
    BY <1>1, <1>3, <2>1, BeginEffect
       DEF SessionAt, EpochsNumberActions, LatestCarriesState, CurrentIsRunning,
           AbsentIsEmpty, Recorded, RunningActions, Initialized
<1> QED
  BY <1>2, <1>3

(* end_action moves the row and the running action to the same state. *)
LEMMA EndSession ==
    ASSUME TypeOK, SessionInv, NEW s \in Scopes, NEW o \in Ops, NEW q \in Requests,
           NEW uncertain \in BOOLEAN, NEW outcome \in Outcomes,
           EndAction(s, o, q, row[s].epoch, uncertain, outcome)
    PROVE  SessionInv'
<1> SUFFICES ASSUME NEW x \in Scopes PROVE SessionAt(x)'
  BY DEF SessionInv
<1>1. SessionAt(x)
  BY DEF SessionInv
<1>2. CASE x # s
  BY <1>1, <1>2, EndEffect, SessionUntouched
<1>3. CASE x = s
  <2>1. /\ actions[s][o].state = "RUNNING" /\ row[s].state = "RUNNING"
        /\ row[s].current = o /\ actions[s][o].epoch = row[s].epoch
    BY DEF EndAction
  <2>2. /\ row'[s].state \in {"IDLE", "UNCERTAIN"}
        /\ row'[s].current = None /\ row'[s].epoch = row[s].epoch
        /\ row'[s].active = row[s].active /\ row'[s].generation = row[s].generation
        /\ actions'[s][o].state = row'[s].state
        /\ actions'[s][o].epoch = actions[s][o].epoch
        /\ \A p \in Ops : p # o => actions'[s][p] = actions[s][p]
    BY EndEffect
  <2> QED
    BY <1>1, <1>3, <2>1, <2>2
       DEF SessionAt, EpochsNumberActions, LatestCarriesState, CurrentIsRunning,
           AbsentIsEmpty, Recorded, RunningActions, Initialized
<1> QED
  BY <1>2, <1>3

(* reconcile can only meet the action at the row's epoch. *)
LEMMA ReconcileSession ==
    ASSUME TypeOK, SessionInv, NEW s \in Scopes, NEW proof \in proofs, Reconcile(s, proof)
    PROVE  SessionInv'
<1> SUFFICES ASSUME NEW x \in Scopes PROVE SessionAt(x)'
  BY DEF SessionInv
<1>1. SessionAt(x)
  BY DEF SessionInv
<1>2. CASE x # s
  BY <1>1, <1>2, ReconcileEffect, SessionUntouched
<1>3. CASE x = s
  <2> DEFINE o == proof.op
  <2>1. actions[s][o].state = "UNCERTAIN" /\ row[s].state = "UNCERTAIN"
    BY DEF Reconcile
  <2>2. /\ o \in Ops /\ row'[s].state = "IDLE" /\ row'[s].current = None
        /\ row'[s].epoch = row[s].epoch /\ row'[s].active = row[s].active
        /\ row'[s].generation = row[s].generation
        /\ actions'[s][o].state = "IDLE" /\ actions'[s][o].epoch = actions[s][o].epoch
        /\ \A p \in Ops : p # o => actions'[s][p] = actions[s][p]
    BY ReconcileEffect
  <2> HIDE DEF o
  <2> QED
    BY <1>1, <1>3, <2>1, <2>2
       DEF SessionAt, EpochsNumberActions, LatestCarriesState, CurrentIsRunning,
           AbsentIsEmpty, Recorded, RunningActions, Initialized
<1> QED
  BY <1>2, <1>3

(* A pointer move keeps the row's action state and its action table. *)
LEMMA MoveSession ==
    ASSUME TypeOK, SessionInv, NEW s \in Scopes, NEW b \in Binding,
           row' = [row EXCEPT ![s] = [@ EXCEPT !.active = b, !.generation = b.generation]],
           actions' = actions
    PROVE  SessionInv'
<1> SUFFICES ASSUME NEW x \in Scopes PROVE SessionAt(x)'
  BY DEF SessionInv
<1>1. SessionAt(x)
  BY DEF SessionInv
<1>2. CASE x # s
  BY <1>1, <1>2, MoveEffect, SessionUntouched
<1>3. CASE x = s
  <2>1. /\ row'[s].active = b /\ row'[s].generation = b.generation
        /\ row'[s].state = row[s].state /\ row'[s].epoch = row[s].epoch
        /\ row'[s].current = row[s].current
    BY MoveEffect
  <2>2. \A p \in Ops : actions'[s][p] = actions[s][p]
    OBVIOUS
  <2> QED
    BY <1>1, <1>3, <2>1, <2>2
       DEF SessionAt, EpochsNumberActions, LatestCarriesState, CurrentIsRunning,
           AbsentIsEmpty, Recorded, RunningActions, Initialized
<1> QED
  BY <1>2, <1>3

(* Every step of the store keeps the row and the action table in step. *)
LEMMA NextSession == TypeOK /\ SessionInv /\ [Next]_vars => SessionInv'
<1> SUFFICES ASSUME TypeOK, SessionInv, [Next]_vars PROVE SessionInv'
  OBVIOUS
<1>1. ASSUME NEW s \in Scopes, SessionStep(s) PROVE SessionInv'
  <2>1. CASE \E c \in Caps : Initialize(s, c)
    <3>1. PICK c \in Caps : Initialize(s, c)
      BY <2>1
    <3> DEFINE r == [state |-> "IDLE", active |-> [cap |-> c, generation |-> 0],
                     generation |-> 0, epoch |-> 0, current |-> None]
    <3>2. /\ row' = [row EXCEPT ![s] = r] /\ actions' = actions
          /\ row[s].state = "ABSENT" /\ row \in [Scopes -> Row]
      BY <3>1 DEF Initialize, Initialized, TypeOK
    <3> SUFFICES ASSUME NEW x \in Scopes PROVE SessionAt(x)'
      BY DEF SessionInv
    <3>3. SessionAt(x)
      BY DEF SessionInv
    <3>4. CASE x # s
      BY <3>2, <3>3, <3>4, SessionUntouched
    <3>5. CASE x = s
      BY <3>2, <3>3, <3>5
       DEF SessionAt, EpochsNumberActions, LatestCarriesState, CurrentIsRunning,
           AbsentIsEmpty, Recorded, RunningActions, Initialized
    <3> QED
      BY <3>4, <3>5
  <2>2. CASE \E o \in Ops, q \in Requests : BeginAction(s, o, q)
    BY <2>2, BeginSession
  <2>3. CASE \E o \in Ops, q \in Requests, uncertain \in BOOLEAN, outcome \in Outcomes :
               EndAction(s, o, q, row[s].epoch, uncertain, outcome)
    BY <2>3, EndSession
  <2>4. CASE \E proof \in proofs : Reconcile(s, proof)
    BY <2>4, ReconcileSession
  <2>5. CASE UNCHANGED <<row, actions>>
    BY <2>5, SessionUntouched DEF SessionInv
  <2>6. CASE \E o \in Ops : IssueReconciliation(s, o)
    BY <2>5, <2>6 DEF IssueReconciliation, dbVars
  <2>7. CASE \E o \in Ops, ttl \in 1..MaxTTL :
               ReserveBoundary(s, o, row[s].generation, ttl)
    BY <2>5, <2>7 DEF ReserveBoundary
  <2>8. CASE \E t \in DOMAIN tickets : ConsumeBoundary(s, t)
    BY <2>5, <2>8 DEF ConsumeBoundary
  <2>9. CASE \E o \in Ops : ProcessEnds(s, o)
    BY <2>5, <2>9 DEF ProcessEnds, dbVars
  <2> QED
    BY <1>1, <2>1, <2>2, <2>3, <2>4, <2>6, <2>7, <2>8, <2>9 DEF SessionStep
<1>2. ASSUME NEW s \in Scopes, PointerStep(s) PROVE SessionInv'
  <2>1. CASE \E p \in PreparedIds, t \in DOMAIN tickets : ActivatePrepared(s, p, t)
    <3>1. PICK p \in PreparedIds, t \in DOMAIN tickets : ActivatePrepared(s, p, t)
      BY <2>1
    <3>2. /\ prepared[p].new \in Binding /\ actions' = actions
          /\ row' = [row EXCEPT ![s] = [@ EXCEPT !.active = prepared[p].new,
                                        !.generation = prepared[p].new.generation]]
      BY <3>1, CandidatesAreRecords
         DEF ActivatePrepared, ActivationAdmitted, CommitActivation, TypeOK, PreparedRecord
    <3> QED
      BY <3>2, MoveSession
  <2>2. CASE \E i \in DOMAIN receipts, t \in DOMAIN tickets : RollbackReceipt(s, i, t)
    <3>1. PICK i \in DOMAIN receipts, t \in DOMAIN tickets : RollbackReceipt(s, i, t)
      BY <2>2
    <3> DEFINE b == [receipts[i].old EXCEPT !.generation = row[s].generation + 1]
    <3>2. b \in Binding
      <4>1. receipts[i] \in Receipt /\ row[s].generation + 1 \in Nat
        BY ElementOfSeq, LenProperties DEF TypeOK, Row
      <4>2. receipts[i].old \in Binding
        BY <4>1 DEF Receipt
      <4> QED
        BY <4>1, <4>2, Rebound
    <3>3. /\ row' = [row EXCEPT ![s] = [@ EXCEPT !.active = b, !.generation = b.generation]]
          /\ actions' = actions
      BY <3>1 DEF RollbackReceipt, CommitRollback, RestoreTo
    <3> HIDE DEF b
    <3> QED
      BY <3>2, <3>3, MoveSession
  <2> QED
    BY <1>2, <2>1, <2>2 DEF PointerStep
<1>3. CASE UNCHANGED <<row, actions>>
  BY <1>3, SessionUntouched DEF SessionInv
<1>4. CASE \E p \in PreparedIds, c \in Candidates : SavePrepared(p, c)
  BY <1>3, <1>4 DEF SavePrepared
<1>5. CASE Tick \/ UNCHANGED vars
  BY <1>3, <1>5 DEF Tick, vars, dbVars
<1> QED
  BY <1>1, <1>2, <1>4, <1>5 DEF Next

(* The invariant is what _row checks of an initialised scope. *)
LEMMA SessionVerifies == TypeOK /\ SessionInv => RowAlwaysVerifies
<1> SUFFICES ASSUME TypeOK, SessionInv, NEW s \in Scopes, Initialized(s)
             PROVE  RowVerifies(s)
  BY DEF RowAlwaysVerifies
<1>1. SessionAt(s)
  BY DEF SessionInv
<1>2. \A o \in Ops : actions[s][o].state = "RUNNING" => row[s].state = "RUNNING"
  BY <1>1, SessionUnfold
<1>3. \A o, p \in RunningActions(s) : o = p
  BY <1>1, SessionUnfold DEF RunningActions
<1>4. row[s].state = "RUNNING" => RunningActions(s) = {row[s].current}
  BY <1>1, <1>3 DEF SessionAt, CurrentIsRunning
<1>5. row[s].state # "RUNNING" => RunningActions(s) = {}
  BY <1>2 DEF RunningActions
<1> QED
  BY <1>1, <1>4, <1>5
     DEF RowVerifies, IsLatest, SessionAt, CurrentIsRunning, LatestCarriesState

(***************************************************************************)
(* No sequence of calls locks a scope: the self-check that every method of *)
(* the store begins with succeeds in every reachable state, so a method    *)
(* never raises "runtime action state rejected" over the store's own work. *)
(***************************************************************************)
THEOREM RowsNeverLock == Spec => []RowAlwaysVerifies
  BY InitType, NextType, InitSession, NextSession, SessionVerifies, PTL DEF Spec

-----------------------------------------------------------------------------
(* The receipts are the pointer's history *)

(* A scope without a row has moved nothing. *)
AbsentAtZero == \A s \in Scopes : ~Initialized(s) => row[s].generation = 0

(* A step that leaves a scope's binding and all receipts alone. *)
LEMMA ChainUntouched ==
    ASSUME NEW s, ChainAt(s), receipts' = receipts,
           row'[s].generation = row[s].generation, row'[s].active = row[s].active
    PROVE  ChainAt(s)'
BY DEF ChainAt, Moves

(* A receipt that starts from the active binding and generation extends    *)
(* the history of its own scope and leaves the others alone.               *)
LEMMA ChainAppend ==
    ASSUME TypeOK, ReceiptsChain, NEW s \in Scopes, NEW r \in Receipt,
           r.scope = s, r.old = row[s].active,
           r.before = row[s].generation, r.after = row[s].generation + 1,
           receipts' = Append(receipts, r),
           row'[s].generation = r.after, row'[s].active = r.new,
           \A x \in Scopes : x # s => row'[x] = row[x]
    PROVE  ReceiptsChain'
<1> DEFINE n == Len(receipts) + 1
<1>1. /\ DOMAIN receipts = 1..Len(receipts) /\ Len(receipts) \in Nat
      /\ DOMAIN receipts' = 1..n /\ receipts'[n] = r
      /\ \A i \in DOMAIN receipts : receipts'[i] = receipts[i] /\ receipts[i] \in Receipt
  <2>1. receipts \in Seq(Receipt) /\ receipts' \in Seq(Receipt) /\ Len(receipts') = n
    BY AppendProperties DEF TypeOK
  <2> QED
    BY <2>1, AppendProperties, LenProperties, ElementOfSeq
<1>2. /\ row[s].generation \in Nat
      /\ \A i \in DOMAIN receipts : receipts[i].before \in Nat /\ receipts[i].after \in Nat
  BY <1>1 DEF TypeOK, Row, Receipt
<1>3. DOMAIN receipts' = DOMAIN receipts \cup {n} /\ n \notin DOMAIN receipts
  BY <1>1
<1> HIDE DEF n
<1> SUFFICES ASSUME NEW x \in Scopes PROVE ChainAt(x)'
  BY DEF ReceiptsChain
<1>4. ChainAt(x)
  BY DEF ReceiptsChain
<1>5. CASE x # s
  BY <1>1, <1>3, <1>4, <1>5 DEF ChainAt, Moves
<1>6. CASE x = s
  <2>1. \A i \in Moves(s)' : i # n => /\ i \in Moves(s) /\ receipts'[i] = receipts[i]
                                      /\ receipts'[i].after <= row[s].generation
    BY <1>1, <1>3, <1>4, <1>6 DEF ChainAt, Moves
  <2>2. \A i \in Moves(s)' : /\ receipts'[i].after = receipts'[i].before + 1
                             /\ receipts'[i].after <= row'[s].generation
                             /\ receipts'[i].after = row'[s].generation => i = n
    BY <1>1, <1>2, <1>3, <1>4, <1>6, <2>1 DEF ChainAt, Moves
  <2>3. \A i, j \in Moves(s)' : receipts'[i].after = receipts'[j].after => i = j
    BY <1>1, <1>2, <1>3, <1>4, <1>6, <2>1 DEF ChainAt, Moves
  <2>4. \A i, j \in Moves(s)' :
          receipts'[i].before = receipts'[j].after => receipts'[i].old = receipts'[j].new
    BY <1>1, <1>2, <1>3, <1>4, <1>6, <2>1, <2>2 DEF ChainAt, Moves
  <2>5. \A g \in 1..row'[s].generation : \E i \in Moves(s)' : receipts'[i].after = g
    <3> SUFFICES ASSUME NEW g \in 1..row'[s].generation
                 PROVE  \E i \in Moves(s)' : receipts'[i].after = g
      OBVIOUS
    <3>1. CASE g = row[s].generation + 1
      <4>1. n \in Moves(s)' /\ receipts'[n].after = g
        BY <1>1, <1>3, <3>1 DEF Moves
      <4> QED
        BY <4>1
    <3>2. CASE g \in 1..row[s].generation
      <4>1. PICK i \in Moves(s) : receipts[i].after = g
        BY <1>4, <1>6, <3>2 DEF ChainAt
      <4>2. i \in Moves(s)' /\ receipts'[i].after = g
        BY <1>1, <1>3, <4>1 DEF Moves
      <4> QED
        BY <4>2
    <3>3. g = row[s].generation + 1 \/ g \in 1..row[s].generation
      BY <1>2
    <3> QED
      BY <3>1, <3>2, <3>3
  <2>6. \A i \in Moves(s)' :
          receipts'[i].after = row'[s].generation => receipts'[i].new = row'[s].active
    BY <1>1, <2>2
  <2> QED
    BY <1>6, <2>2, <2>3, <2>4, <2>5, <2>6 DEF ChainAt
<1> QED
  BY <1>5, <1>6

(* The two commits, as ChainAppend needs them. *)
LEMMA PointerChain ==
    ASSUME TypeOK, ReceiptsChain, NEW s \in Scopes, PointerStep(s)
    PROVE  /\ ReceiptsChain'
           /\ row'[s].state = row[s].state /\ Initialized(s)
           /\ \A x \in Scopes : x # s => row'[x] = row[x]
<1>1. CASE \E p \in PreparedIds, t \in DOMAIN tickets : ActivatePrepared(s, p, t)
  <2>1. PICK p \in PreparedIds, t \in DOMAIN tickets : ActivatePrepared(s, p, t)
    BY <1>1
  <2> DEFINE c == prepared[p]
             r == [kind |-> "ACTIVATE", scope |-> s, op |-> c.op, request |-> c.request,
                   prepared |-> p, source |-> 0, ticket |-> t, old |-> row[s].active,
                   new |-> c.new, before |-> row[s].generation,
                   after |-> c.new.generation]
  <2>2. /\ c \in PreparedRecord /\ c.old = row[s].active
        /\ c.new.generation = row[s].generation + 1
        /\ receipts' = Append(receipts, r)
        /\ row' = [row EXCEPT ![s] = [@ EXCEPT !.active = c.new,
                                               !.generation = c.new.generation]]
    BY <2>1, CandidatesAreRecords
       DEF ActivatePrepared, ActivationAdmitted, CommitActivation, TypeOK
  <2>3. /\ c.new \in Binding /\ c.old \in Binding /\ c.op \in Ops /\ c.request \in Requests
        /\ row[s].generation \in Nat /\ t \in Nat
    BY <2>2, LenProperties DEF PreparedRecord, TypeOK, Row
  <2> HIDE DEF c
  <2>4. /\ row'[s].generation = c.new.generation /\ row'[s].active = c.new
        /\ row'[s].state = row[s].state
        /\ \A x \in Scopes : x # s => row'[x] = row[x]
    BY <2>2, <2>3, MoveEffect
  <2>5. r \in Receipt
    BY <2>2, <2>3 DEF Receipt
  <2>6. /\ r.scope = s /\ r.old = row[s].active /\ r.before = row[s].generation
        /\ r.after = row[s].generation + 1 /\ row'[s].generation = r.after
        /\ row'[s].active = r.new
    BY <2>2, <2>4
  <2> HIDE DEF r
  <2>7. Initialized(s)
    BY <2>1 DEF ActivatePrepared, ActivationAdmitted, ReadableRow
  <2> QED
    BY <2>2, <2>4, <2>5, <2>6, <2>7, ChainAppend
<1>2. CASE \E i \in DOMAIN receipts, t \in DOMAIN tickets : RollbackReceipt(s, i, t)
  <2>1. PICK i \in DOMAIN receipts, t \in DOMAIN tickets : RollbackReceipt(s, i, t)
    BY <1>2
  <2> DEFINE src == receipts[i]
             b == [src.old EXCEPT !.generation = row[s].generation + 1]
             r == [kind |-> "ROLLBACK", scope |-> s, op |-> src.op,
                   request |-> src.request, prepared |-> None, source |-> i, ticket |-> t,
                   old |-> row[s].active, new |-> b, before |-> row[s].generation,
                   after |-> b.generation]
  <2>2. /\ receipts' = Append(receipts, r) /\ row[s].active = src.new
        /\ row' = [row EXCEPT ![s] = [@ EXCEPT !.active = b, !.generation = b.generation]]
    BY <2>1 DEF RollbackReceipt, RollbackAdmitted, CommitRollback, RestoreTo
  <2>3. /\ src \in Receipt /\ row[s].generation \in Nat /\ t \in Nat /\ i \in Nat
        /\ row[s].generation + 1 \in Nat
    BY ElementOfSeq, LenProperties DEF TypeOK, Row
  <2>4. /\ src.old \in Binding /\ src.new \in Binding /\ src.op \in Ops
        /\ src.request \in Requests
    BY <2>3 DEF Receipt
  <2> HIDE DEF src
  <2>5. b \in Binding /\ b.generation = row[s].generation + 1
    BY <2>3, <2>4, Rebound
  <2> HIDE DEF b
  <2>6. /\ row'[s].generation = b.generation /\ row'[s].active = b
        /\ row'[s].state = row[s].state
        /\ \A x \in Scopes : x # s => row'[x] = row[x]
    BY <2>2, <2>5, MoveEffect
  <2>7. r \in Receipt
    BY <2>2, <2>3, <2>4, <2>5 DEF Receipt
  <2>8. /\ r.scope = s /\ r.old = row[s].active /\ r.before = row[s].generation
        /\ r.after = row[s].generation + 1 /\ row'[s].generation = r.after
        /\ row'[s].active = r.new
    BY <2>5, <2>6
  <2> HIDE DEF r
  <2>9. Initialized(s)
    BY <2>1 DEF RollbackReceipt, RollbackAdmitted, ReadableRow
  <2> QED
    BY <2>2, <2>6, <2>7, <2>8, <2>9, ChainAppend
<1> QED
  BY <1>1, <1>2 DEF PointerStep

(* A session step writes no receipt and moves no binding, but for          *)
(* initialize, which places the first binding of a scope without history.  *)
LEMMA SessionChain ==
    ASSUME TypeOK, ReceiptsChain, AbsentAtZero, NEW s \in Scopes, SessionStep(s)
    PROVE  ReceiptsChain' /\ AbsentAtZero'
<1>1. CASE \E c \in Caps : Initialize(s, c)
  <2>1. PICK c \in Caps : Initialize(s, c)
    BY <1>1
  <2>2. /\ receipts' = receipts /\ row[s].generation = 0
        /\ row'[s].generation = 0 /\ row'[s].state = "IDLE"
        /\ \A x \in Scopes : x # s => row'[x] = row[x]
    BY <2>1 DEF Initialize, TypeOK, AbsentAtZero
  <2>3. Moves(s) = {}
    <3>1. \A i \in Moves(s) : receipts[i].before \in Nat
      <4>1. \A i \in DOMAIN receipts : receipts[i] \in Receipt
        BY ElementOfSeq, LenProperties DEF TypeOK
      <4> QED
        BY <4>1 DEF Moves, Receipt
    <3>2. \A i \in Moves(s) : receipts[i].before + 1 <= 0
      BY <2>2 DEF ReceiptsChain, ChainAt
    <3>3. \A i \in Moves(s) : FALSE
      BY <3>1, <3>2
    <3> QED
      BY <3>3
  <2>4. ChainAt(s)'
    BY <2>2, <2>3 DEF ChainAt, Moves
  <2>5. \A x \in Scopes : x # s => ChainAt(x)'
    BY <2>2, ChainUntouched DEF ReceiptsChain
  <2> QED
    BY <2>2, <2>4, <2>5 DEF ReceiptsChain, AbsentAtZero, Initialized
<1>2. ASSUME receipts' = receipts,
             \A x \in Scopes : /\ row'[x].generation = row[x].generation
                               /\ row'[x].active = row[x].active
                               /\ row'[x].state = "ABSENT" => row[x].state = "ABSENT"
      PROVE  ReceiptsChain' /\ AbsentAtZero'
  BY <1>2, ChainUntouched DEF ReceiptsChain, AbsentAtZero, Initialized
<1>3. CASE \E o \in Ops, q \in Requests : BeginAction(s, o, q)
  <2>1. receipts' = receipts
    BY <1>3 DEF BeginAction
  <2> QED
    BY <1>2, <1>3, <2>1, BeginEffect
<1>4. CASE \E o \in Ops, q \in Requests, uncertain \in BOOLEAN, outcome \in Outcomes :
             EndAction(s, o, q, row[s].epoch, uncertain, outcome)
  <2>1. receipts' = receipts
    BY <1>4 DEF EndAction
  <2> QED
    BY <1>2, <1>4, <2>1, EndEffect
<1>5. CASE \E proof \in proofs : Reconcile(s, proof)
  <2>1. receipts' = receipts
    BY <1>5 DEF Reconcile
  <2> QED
    BY <1>2, <1>5, <2>1, ReconcileEffect
<1>6. CASE UNCHANGED <<row, receipts>>
  BY <1>2, <1>6
<1>7. CASE \E o \in Ops : IssueReconciliation(s, o)
  BY <1>6, <1>7 DEF IssueReconciliation, dbVars
<1>8. CASE \E o \in Ops, ttl \in 1..MaxTTL : ReserveBoundary(s, o, row[s].generation, ttl)
  BY <1>6, <1>8 DEF ReserveBoundary
<1>9. CASE \E t \in DOMAIN tickets : ConsumeBoundary(s, t)
  BY <1>6, <1>9 DEF ConsumeBoundary
<1>10. CASE \E o \in Ops : ProcessEnds(s, o)
  BY <1>6, <1>10 DEF ProcessEnds, dbVars
<1> QED
  BY <1>1, <1>3, <1>4, <1>5, <1>7, <1>8, <1>9, <1>10 DEF SessionStep

(* The history is complete in the empty database, and stays so. *)
LEMMA InitChain == Init => ReceiptsChain /\ AbsentAtZero
BY DEF Init, ReceiptsChain, ChainAt, Moves, AbsentAtZero, AbsentRow

(* Every step of the store keeps the history complete. *)
LEMMA NextChain ==
    TypeOK /\ ReceiptsChain /\ AbsentAtZero /\ [Next]_vars => ReceiptsChain' /\ AbsentAtZero'
<1> SUFFICES ASSUME TypeOK, ReceiptsChain, AbsentAtZero, [Next]_vars
             PROVE  ReceiptsChain' /\ AbsentAtZero'
  OBVIOUS
<1>1. CASE \E s \in Scopes : SessionStep(s)
  BY <1>1, SessionChain
<1>2. ASSUME NEW s \in Scopes, PointerStep(s) PROVE ReceiptsChain' /\ AbsentAtZero'
  BY <1>2, PointerChain DEF AbsentAtZero, Initialized
<1>3. CASE UNCHANGED <<row, receipts>>
  BY <1>3, ChainUntouched DEF ReceiptsChain, AbsentAtZero, Initialized
<1>4. CASE \E p \in PreparedIds, c \in Candidates : SavePrepared(p, c)
  BY <1>3, <1>4 DEF SavePrepared
<1>5. CASE Tick \/ UNCHANGED vars
  BY <1>3, <1>5 DEF Tick, vars, dbVars
<1> QED
  BY <1>1, <1>2, <1>4, <1>5 DEF Next

(***************************************************************************)
(* For any number of scopes, operations, retries and rollbacks, the        *)
(* receipts of a scope number its generations without a gap or a repeat    *)
(* and link each binding to the next, up to the active one.                *)
(***************************************************************************)
THEOREM ReceiptsAreHistory == Spec => []ReceiptsChain
  BY InitType, NextType, InitChain, NextChain, PTL DEF Spec
-----------------------------------------------------------------------------
(* What is written stays *)

(***************************************************************************)
(* Tickets and preparations are written once, but for the mark that spends *)
(* a ticket, and an action keeps its request and epoch for good.           *)
(***************************************************************************)
TicketsKept ==
    \A t \in DOMAIN tickets :
      /\ t \in DOMAIN tickets'
      /\ tickets'[t].scope = tickets[t].scope /\ tickets'[t].op = tickets[t].op
      /\ tickets'[t].generation = tickets[t].generation
      /\ tickets'[t].epoch = tickets[t].epoch
      /\ tickets[t].consumed => tickets'[t].consumed

ActionsKept ==
    \A s \in Scopes, o \in Ops : actions[s][o].state # "NONE" =>
      /\ actions'[s][o].state # "NONE"
      /\ actions'[s][o].request = actions[s][o].request
      /\ actions'[s][o].epoch = actions[s][o].epoch

PreparedKept ==
    \A p \in PreparedIds : prepared[p] # None => prepared'[p] = prepared[p]

(* Spending a ticket keeps all the others, and all else of it. *)
LEMMA SpendKeeps ==
    ASSUME tickets \in Seq(Ticket), NEW t \in DOMAIN tickets,
           tickets' = [tickets EXCEPT ![t].consumed = TRUE]
    PROVE  TicketsKept /\ tickets'[t].consumed
<1>1. \A k \in DOMAIN tickets : tickets[k] \in Ticket
  BY ElementOfSeq, LenProperties
<1>2. tickets' = [tickets EXCEPT ![t] = [tickets[t] EXCEPT !.consumed = TRUE]]
  OBVIOUS
<1>3. /\ DOMAIN tickets' = DOMAIN tickets
      /\ tickets'[t] = [tickets[t] EXCEPT !.consumed = TRUE]
      /\ \A k \in DOMAIN tickets : k # t => tickets'[k] = tickets[k]
  BY <1>2
<1> QED
  BY <1>1, <1>3 DEF TicketsKept, Ticket

(* Issuing a ticket keeps the earlier ones. *)
LEMMA IssueKeeps ==
    ASSUME tickets \in Seq(Ticket), NEW k \in Ticket, tickets' = Append(tickets, k)
    PROVE  TicketsKept
<1>1. /\ DOMAIN tickets = 1..Len(tickets) /\ DOMAIN tickets' = 1..(Len(tickets) + 1)
      /\ \A t \in 1..Len(tickets) : tickets'[t] = tickets[t]
      /\ Len(tickets) \in Nat
  BY AppendProperties, LenProperties
<1> QED
  BY <1>1 DEF TicketsKept

(* No call takes back what another has written. *)
LEMMA NextKeeps ==
    ASSUME TypeOK, [Next]_vars
    PROVE  TicketsKept /\ ActionsKept /\ PreparedKept
<1>0. /\ tickets' = tickets => TicketsKept
      /\ actions' = actions => ActionsKept
      /\ prepared' = prepared => PreparedKept
  BY DEF TicketsKept, ActionsKept, PreparedKept
<1>1. ASSUME NEW s \in Scopes, SessionStep(s) PROVE TicketsKept /\ ActionsKept /\ PreparedKept
  <2>1. CASE \E c \in Caps : Initialize(s, c)
    BY <1>0, <2>1 DEF Initialize
  <2>2. CASE \E o \in Ops, q \in Requests : BeginAction(s, o, q)
    <3>1. PICK o \in Ops, q \in Requests : BeginAction(s, o, q)
      BY <2>2
    <3>2. actions[s][o].state = "NONE"
      BY <3>1 DEF BeginAction
    <3>3. \A x \in Scopes, p \in Ops : x # s \/ p # o => actions'[x][p] = actions[x][p]
      BY <3>1, BeginEffect
    <3>4. ActionsKept
      BY <3>2, <3>3 DEF ActionsKept
    <3> QED
      BY <1>0, <3>1, <3>4 DEF BeginAction
  <2>3. CASE \E o \in Ops, q \in Requests, uncertain \in BOOLEAN, outcome \in Outcomes :
               EndAction(s, o, q, row[s].epoch, uncertain, outcome)
    <3>1. PICK o \in Ops, q \in Requests, uncertain \in BOOLEAN, outcome \in Outcomes :
               EndAction(s, o, q, row[s].epoch, uncertain, outcome)
      BY <2>3
    <3>2. ActionsKept
      BY <3>1, EndEffect DEF ActionsKept
    <3> QED
      BY <1>0, <3>1, <3>2 DEF EndAction
  <2>4. CASE \E o \in Ops : IssueReconciliation(s, o)
    BY <1>0, <2>4 DEF IssueReconciliation, dbVars
  <2>5. CASE \E proof \in proofs : Reconcile(s, proof)
    <3>1. PICK proof \in proofs : Reconcile(s, proof)
      BY <2>5
    <3>2. ActionsKept
      BY <3>1, ReconcileEffect DEF ActionsKept
    <3> QED
      BY <1>0, <3>1, <3>2 DEF Reconcile
  <2>6. CASE \E o \in Ops, ttl \in 1..MaxTTL : ReserveBoundary(s, o, row[s].generation, ttl)
    <3>1. PICK o \in Ops, ttl \in 1..MaxTTL : ReserveBoundary(s, o, row[s].generation, ttl)
      BY <2>6
    <3>2. [scope |-> s, generation |-> row[s].generation, epoch |-> row[s].epoch, op |-> o,
           expires |-> clock + ttl, consumed |-> FALSE] \in Ticket
      BY BoundsAreNat DEF Ticket, Row, TypeOK
    <3>3. TicketsKept
      BY <3>1, <3>2, IssueKeeps DEF ReserveBoundary, TypeOK
    <3> QED
      BY <1>0, <3>1, <3>3 DEF ReserveBoundary
  <2>7. CASE \E t \in DOMAIN tickets : ConsumeBoundary(s, t)
    BY <1>0, <2>7, SpendKeeps DEF ConsumeBoundary, TypeOK
  <2>8. CASE \E o \in Ops : ProcessEnds(s, o)
    BY <1>0, <2>8 DEF ProcessEnds, dbVars
  <2> QED
    BY <1>1, <2>1, <2>2, <2>3, <2>4, <2>5, <2>6, <2>7, <2>8 DEF SessionStep
<1>2. ASSUME NEW s \in Scopes, PointerStep(s) PROVE TicketsKept /\ ActionsKept /\ PreparedKept
  <2>1. /\ actions' = actions /\ prepared' = prepared
        /\ \E t \in DOMAIN tickets : tickets' = [tickets EXCEPT ![t].consumed = TRUE]
    BY <1>2 DEF PointerStep, ActivatePrepared, CommitActivation, RollbackReceipt,
                CommitRollback, RestoreTo
  <2> QED
    BY <1>0, <2>1, SpendKeeps DEF TypeOK
<1>3. CASE \E p \in PreparedIds, c \in Candidates : SavePrepared(p, c)
  BY <1>0, <1>3 DEF SavePrepared, PreparedKept, TypeOK
<1>4. CASE Tick \/ UNCHANGED vars
  BY <1>0, <1>4 DEF Tick, vars, dbVars
<1> QED
  BY <1>1, <1>2, <1>3, <1>4 DEF Next

-----------------------------------------------------------------------------
(* A receipt agrees with what authorised it *)

(***************************************************************************)
(* ReceiptsAreBound is not inductive: begin_action could still give the    *)
(* operation of a receipt another request if its action were not recorded. *)
(***************************************************************************)
ReceiptsAreAnchored ==
    \A i \in DOMAIN receipts :
      /\ actions[receipts[i].scope][receipts[i].op].state # "NONE"
      /\ receipts[i].kind = "ACTIVATE" => receipts[i].prepared \in PreparedIds

BoundInv == ReceiptsAreBound /\ ReceiptsAreAnchored

(* What ReceiptsAreBound says of one receipt. *)
BoundAt(i) ==
    LET r == receipts[i]
        k == tickets[r.ticket] IN
    /\ r.ticket \in DOMAIN tickets
    /\ k.consumed /\ k.scope = r.scope /\ k.op = r.op /\ k.generation = r.before
    /\ actions[r.scope][r.op].request = r.request
    /\ actions[r.scope][r.op].epoch = k.epoch
    /\ actions[r.scope][r.op].state # "NONE"
    /\ r.kind = "ACTIVATE" =>
         LET c == prepared[r.prepared] IN
         /\ r.prepared \in PreparedIds
         /\ c # None /\ c.scope = r.scope /\ c.op = r.op /\ c.request = r.request
         /\ c.old = r.old /\ c.new = r.new
    /\ r.kind = "ROLLBACK" =>
         LET src == receipts[r.source] IN
         /\ r.source \in 1 .. (i - 1)
         /\ src.kind = "ACTIVATE" /\ src.scope = r.scope
         /\ r.before = src.after /\ r.new.cap = src.old.cap
         /\ k.epoch = tickets[src.ticket].epoch

TicketsSpentOnce ==
    \A i, j \in DOMAIN receipts : receipts[j].ticket = receipts[i].ticket => i = j

AllBound == \A i \in DOMAIN receipts : BoundAt(i)

(* The invariant, receipt by receipt. *)
LEMMA BoundUnfold == BoundInv <=> TicketsSpentOnce /\ AllBound
BY DEF BoundInv, ReceiptsAreBound, ReceiptsAreAnchored, BoundAt, TicketsSpentOnce, AllBound

(* A receipt stays bound while the tables only grow. *)
LEMMA BoundStays ==
    ASSUME TypeOK, TicketsKept, ActionsKept, PreparedKept,
           \A j \in DOMAIN receipts : BoundAt(j),
           \A j \in DOMAIN receipts : receipts'[j] = receipts[j],
           NEW i \in DOMAIN receipts
    PROVE  BoundAt(i)'
<1>1. /\ receipts[i] \in Receipt /\ receipts'[i] = receipts[i]
      /\ DOMAIN receipts = 1..Len(receipts) /\ Len(receipts) \in Nat
  BY ElementOfSeq, LenProperties DEF TypeOK
<1>2. BoundAt(i)
  OBVIOUS
<1> DEFINE r == receipts[i]
           k == tickets[r.ticket]
<1>3. r.scope \in Scopes /\ r.op \in Ops /\ r.kind \in {"ACTIVATE", "ROLLBACK"}
  BY <1>1 DEF Receipt
<1>4. /\ r.ticket \in DOMAIN tickets' /\ tickets'[r.ticket].consumed
      /\ tickets'[r.ticket].scope = r.scope /\ tickets'[r.ticket].op = r.op
      /\ tickets'[r.ticket].generation = r.before /\ tickets'[r.ticket].epoch = k.epoch
  BY <1>2 DEF BoundAt, TicketsKept
<1>5. /\ actions'[r.scope][r.op].state # "NONE"
      /\ actions'[r.scope][r.op].request = r.request
      /\ actions'[r.scope][r.op].epoch = tickets'[r.ticket].epoch
  BY <1>2, <1>3, <1>4 DEF BoundAt, ActionsKept
<1>6. ASSUME r.kind = "ACTIVATE"
      PROVE  LET c == prepared'[r.prepared] IN
             /\ r.prepared \in PreparedIds
             /\ c # None /\ c.scope = r.scope /\ c.op = r.op /\ c.request = r.request
             /\ c.old = r.old /\ c.new = r.new
  <2>1. r.prepared \in PreparedIds /\ prepared[r.prepared] # None
    BY <1>2, <1>6 DEF BoundAt
  <2>2. prepared'[r.prepared] = prepared[r.prepared]
    BY <2>1 DEF PreparedKept
  <2> QED
    BY <1>2, <1>6, <2>1, <2>2 DEF BoundAt
<1>7. ASSUME r.kind = "ROLLBACK"
      PROVE  LET src == receipts'[r.source] IN
             /\ r.source \in 1 .. (i - 1)
             /\ src.kind = "ACTIVATE" /\ src.scope = r.scope
             /\ r.before = src.after /\ r.new.cap = src.old.cap
             /\ tickets'[r.ticket].epoch = tickets'[src.ticket].epoch
  <2> DEFINE src == receipts[r.source]
  <2>1. /\ r.source \in 1 .. (i - 1) /\ src.kind = "ACTIVATE" /\ src.scope = r.scope
        /\ r.before = src.after /\ r.new.cap = src.old.cap
        /\ k.epoch = tickets[src.ticket].epoch
    BY <1>2, <1>7 DEF BoundAt
  <2>2. \A j \in 1 .. (i - 1) : j \in DOMAIN receipts
    BY <1>1
  <2>3. r.source \in DOMAIN receipts
    BY <2>1, <2>2
  <2>4. BoundAt(r.source) /\ receipts'[r.source] = src
    BY <2>3
  <2>5. tickets'[src.ticket].epoch = tickets[src.ticket].epoch
    BY <2>4 DEF BoundAt, TicketsKept
  <2> HIDE DEF r, k, src
  <2> QED
    BY <1>4, <2>1, <2>4, <2>5
<1> HIDE DEF k
<1>8. receipts'[i] = r
  BY <1>1
<1> HIDE DEF r
<1> QED
  BY <1>4, <1>5, <1>6, <1>7, <1>8 DEF BoundAt
(* A receipt is appended and the earlier ones stay. *)
LEMMA ReceiptAppended ==
    ASSUME TypeOK, NEW r \in Receipt, receipts' = Append(receipts, r),
           NEW n, n = Len(receipts) + 1
    PROVE  /\ n \in Nat /\ DOMAIN receipts = 1 .. (n - 1)
           /\ DOMAIN receipts' = DOMAIN receipts \cup {n} /\ n \notin DOMAIN receipts
           /\ receipts'[n] = r /\ \A i \in DOMAIN receipts : receipts'[i] = receipts[i]
<1>1. /\ DOMAIN receipts = 1..Len(receipts) /\ Len(receipts) \in Nat
      /\ DOMAIN receipts' = 1..(Len(receipts) + 1) /\ receipts'[Len(receipts) + 1] = r
      /\ \A i \in 1..Len(receipts) : receipts'[i] = receipts[i]
  BY AppendProperties, LenProperties DEF TypeOK
<1> QED
  BY <1>1

(* activate_prepared. *)
LEMMA ActivateEffect ==
    ASSUME TypeOK, NEW s \in Scopes, NEW p \in PreparedIds, NEW t \in DOMAIN tickets,
           ActivatePrepared(s, p, t)
    PROVE  LET c == prepared[p] IN
           /\ c \in PreparedRecord /\ c.scope = s /\ c.old = row[s].active
           /\ c.new \in Binding /\ c.op \in Ops /\ c.request \in Requests
           /\ row'[s].active = c.new /\ c.new.generation = row[s].generation + 1
           /\ row'[s].generation = row[s].generation + 1
           /\ \A x \in Scopes : x # s => row'[x] = row[x]
           /\ tickets' = [tickets EXCEPT ![t].consumed = TRUE]
           /\ actions' = actions /\ prepared' = prepared
           /\ \E r \in Receipt :
                /\ receipts' = Append(receipts, r)
                /\ r.kind = "ACTIVATE" /\ r.scope = s /\ r.op = c.op
                /\ r.request = c.request /\ r.prepared = p /\ r.ticket = t
                /\ r.old = row[s].active /\ r.new = c.new
                /\ r.before = row[s].generation /\ r.after = row[s].generation + 1
<1> DEFINE c == prepared[p]
           r == [kind |-> "ACTIVATE", scope |-> s, op |-> c.op, request |-> c.request,
                 prepared |-> p, source |-> 0, ticket |-> t, old |-> row[s].active,
                 new |-> c.new, before |-> row[s].generation, after |-> c.new.generation]
<1>1. /\ c \in PreparedRecord /\ c.scope = s /\ c.old = row[s].active
      /\ c.new.generation = row[s].generation + 1
      /\ receipts' = Append(receipts, r)
      /\ row' = [row EXCEPT ![s] = [@ EXCEPT !.active = c.new,
                                             !.generation = c.new.generation]]
      /\ tickets' = [tickets EXCEPT ![t].consumed = TRUE]
      /\ actions' = actions /\ prepared' = prepared
  BY CandidatesAreRecords DEF ActivatePrepared, ActivationAdmitted, CommitActivation, TypeOK
<1>2. /\ c.new \in Binding /\ c.old \in Binding /\ c.op \in Ops /\ c.request \in Requests
      /\ row[s].generation \in Nat /\ t \in Nat
  BY <1>1, LenProperties DEF PreparedRecord, TypeOK, Row
<1> HIDE DEF c
<1>3. /\ row'[s].generation = c.new.generation /\ row'[s].active = c.new
      /\ \A x \in Scopes : x # s => row'[x] = row[x]
  BY <1>1, <1>2, MoveEffect
<1>4. r \in Receipt
  BY <1>1, <1>2 DEF Receipt
<1>5. /\ r.kind = "ACTIVATE" /\ r.scope = s /\ r.op = c.op
      /\ r.request = c.request /\ r.prepared = p /\ r.ticket = t
      /\ r.old = row[s].active /\ r.new = c.new
      /\ r.before = row[s].generation /\ r.after = row[s].generation + 1
  BY <1>1
<1> HIDE DEF r
<1>6. \E x \in Receipt :
        /\ receipts' = Append(receipts, x)
        /\ x.kind = "ACTIVATE" /\ x.scope = s /\ x.op = c.op
        /\ x.request = c.request /\ x.prepared = p /\ x.ticket = t
        /\ x.old = row[s].active /\ x.new = c.new
        /\ x.before = row[s].generation /\ x.after = row[s].generation + 1
  BY <1>1, <1>4, <1>5
<1> QED
  BY <1>1, <1>2, <1>3, <1>6 DEF c

(* rollback_receipt. *)
LEMMA RollbackEffect ==
    ASSUME TypeOK, NEW s \in Scopes, NEW i \in DOMAIN receipts, NEW t \in DOMAIN tickets,
           RollbackReceipt(s, i, t)
    PROVE  LET src == receipts[i] IN
           /\ src \in Receipt /\ src.kind = "ACTIVATE" /\ src.scope = s
           /\ src.after = row[s].generation /\ src.new = row[s].active
           /\ row'[s].active.cap = src.old.cap
           /\ row'[s].active.generation = row[s].generation + 1
           /\ row'[s].active \in Binding
           /\ row'[s].generation = row[s].generation + 1
           /\ \A x \in Scopes : x # s => row'[x] = row[x]
           /\ tickets' = [tickets EXCEPT ![t].consumed = TRUE]
           /\ actions' = actions /\ prepared' = prepared
           /\ \E r \in Receipt :
                /\ receipts' = Append(receipts, r)
                /\ r.kind = "ROLLBACK" /\ r.scope = s /\ r.op = src.op
                /\ r.request = src.request /\ r.source = i /\ r.ticket = t
                /\ r.old = row[s].active /\ r.new = row'[s].active
                /\ r.before = row[s].generation /\ r.after = row[s].generation + 1
<1> DEFINE src == receipts[i]
           b == [src.old EXCEPT !.generation = row[s].generation + 1]
           r == [kind |-> "ROLLBACK", scope |-> s, op |-> src.op,
                 request |-> src.request, prepared |-> None, source |-> i, ticket |-> t,
                 old |-> row[s].active, new |-> b, before |-> row[s].generation,
                 after |-> b.generation]
<1>1. /\ receipts' = Append(receipts, r) /\ row[s].active = src.new
      /\ src.kind = "ACTIVATE" /\ src.scope = s /\ src.after = row[s].generation
      /\ row' = [row EXCEPT ![s] = [@ EXCEPT !.active = b, !.generation = b.generation]]
      /\ tickets' = [tickets EXCEPT ![t].consumed = TRUE]
      /\ actions' = actions /\ prepared' = prepared
  BY DEF RollbackReceipt, RollbackAdmitted, CommitRollback, RestoreTo
<1>2. /\ src \in Receipt /\ row[s].generation \in Nat /\ t \in Nat /\ i \in Nat
      /\ row[s].generation + 1 \in Nat
  BY ElementOfSeq, LenProperties DEF TypeOK, Row
<1>3. /\ src.old \in Binding /\ src.new \in Binding /\ src.op \in Ops
      /\ src.request \in Requests
  BY <1>2 DEF Receipt
<1> HIDE DEF src
<1>4. b \in Binding /\ b.generation = row[s].generation + 1 /\ b.cap = src.old.cap
  BY <1>2, <1>3, Rebound
<1> HIDE DEF b
<1>5. /\ row'[s].generation = b.generation /\ row'[s].active = b
      /\ \A x \in Scopes : x # s => row'[x] = row[x]
  BY <1>1, <1>4, MoveEffect
<1>6. r \in Receipt
  BY <1>1, <1>2, <1>3, <1>4 DEF Receipt
<1>7. /\ r.kind = "ROLLBACK" /\ r.scope = s /\ r.op = src.op
      /\ r.request = src.request /\ r.source = i /\ r.ticket = t
      /\ r.old = row[s].active /\ r.new = row'[s].active
      /\ r.before = row[s].generation /\ r.after = row[s].generation + 1
  BY <1>1, <1>4, <1>5
<1> HIDE DEF r
<1>8. \E x \in Receipt :
        /\ receipts' = Append(receipts, x)
        /\ x.kind = "ROLLBACK" /\ x.scope = s /\ x.op = src.op
        /\ x.request = src.request /\ x.source = i /\ x.ticket = t
        /\ x.old = row[s].active /\ x.new = row'[s].active
        /\ x.before = row[s].generation /\ x.after = row[s].generation + 1
  BY <1>1, <1>6, <1>7
<1> QED
  BY <1>1, <1>2, <1>4, <1>5, <1>8 DEF src

(* A bound receipt is appended for a ticket that no other receipt has. *)
LEMMA BoundAppend ==
    ASSUME TypeOK, BoundInv, TicketsKept, ActionsKept, PreparedKept,
           NEW r \in Receipt, receipts' = Append(receipts, r),
           r.ticket \in DOMAIN tickets, ~tickets[r.ticket].consumed,
           NEW n, n = Len(receipts) + 1, BoundAt(n)'
    PROVE  BoundInv'
<1>1. /\ n \in Nat /\ DOMAIN receipts' = DOMAIN receipts \cup {n} /\ n \notin DOMAIN receipts
      /\ receipts'[n] = r /\ \A i \in DOMAIN receipts : receipts'[i] = receipts[i]
  BY ReceiptAppended
<1>2. TicketsSpentOnce /\ \A i \in DOMAIN receipts : BoundAt(i)
  BY BoundUnfold DEF AllBound
<1>3. \A i \in DOMAIN receipts : BoundAt(i)'
  BY <1>1, <1>2, BoundStays
<1>4. \A i \in DOMAIN receipts : receipts[i].ticket # r.ticket
  BY <1>2 DEF BoundAt
<1>5. TicketsSpentOnce'
  BY <1>1, <1>2, <1>4 DEF TicketsSpentOnce
<1>6. AllBound'
  BY <1>1, <1>3 DEF AllBound
<1>7. BoundInv' <=> TicketsSpentOnce' /\ AllBound'
  BY BoundUnfold, PTL
<1> QED
  BY <1>5, <1>6, <1>7

(* activate_prepared binds the receipt it writes. *)
LEMMA ActivateBound ==
    ASSUME TypeOK, BoundInv, TicketsKept, ActionsKept, PreparedKept,
           NEW s \in Scopes, NEW p \in PreparedIds, NEW t \in DOMAIN tickets,
           ActivatePrepared(s, p, t)
    PROVE  BoundInv'
<1> DEFINE c == prepared[p]
<1>1. PICK r \in Receipt :
        /\ receipts' = Append(receipts, r)
        /\ r.kind = "ACTIVATE" /\ r.scope = s /\ r.op = c.op
        /\ r.request = c.request /\ r.prepared = p /\ r.ticket = t
        /\ r.old = row[s].active /\ r.new = c.new
        /\ r.before = row[s].generation /\ r.after = row[s].generation + 1
  BY ActivateEffect
<1>2. /\ c.scope = s /\ c.old = row[s].active /\ actions' = actions /\ prepared' = prepared
      /\ tickets' = [tickets EXCEPT ![t].consumed = TRUE]
  BY ActivateEffect
<1>3. /\ c # None /\ tickets[t].op = c.op /\ tickets[t].scope = s /\ ~tickets[t].consumed
      /\ tickets[t].generation = row[s].generation
      /\ actions[s][c.op].state # "NONE" /\ actions[s][c.op].request = c.request
      /\ actions[s][c.op].epoch = tickets[t].epoch
  BY DEF ActivatePrepared, ActivationAdmitted, TicketAdmitsFor, TicketAdmits
<1>4. tickets'[t].consumed
  BY <1>2, SpendKeeps DEF TypeOK
<1>5. PICK n : n = Len(receipts) + 1
  OBVIOUS
<1>6. receipts'[n] = r
  BY <1>1, <1>5, ReceiptAppended
<1> HIDE DEF c
<1>7. BoundAt(n)'
  <2>1. /\ t \in DOMAIN tickets' /\ tickets'[t].scope = s /\ tickets'[t].op = c.op
        /\ tickets'[t].generation = row[s].generation /\ tickets'[t].epoch = tickets[t].epoch
    BY <1>3 DEF TicketsKept
  <2>2. prepared'[p] = c
    BY <1>2 DEF c
  <2> QED
    BY <1>1, <1>2, <1>3, <1>4, <1>6, <2>1, <2>2 DEF BoundAt
<1> QED
  BY <1>1, <1>3, <1>5, <1>7, BoundAppend

(* rollback_receipt binds the receipt it writes to the one it undoes. *)
LEMMA RollbackBound ==
    ASSUME TypeOK, BoundInv, TicketsKept, ActionsKept, PreparedKept,
           NEW s \in Scopes, NEW i \in DOMAIN receipts, NEW t \in DOMAIN tickets,
           RollbackReceipt(s, i, t)
    PROVE  BoundInv'
<1> DEFINE src == receipts[i]
<1>1. PICK r \in Receipt :
        /\ receipts' = Append(receipts, r)
        /\ r.kind = "ROLLBACK" /\ r.scope = s /\ r.op = src.op
        /\ r.request = src.request /\ r.source = i /\ r.ticket = t
        /\ r.old = row[s].active /\ r.new = row'[s].active
        /\ r.before = row[s].generation /\ r.after = row[s].generation + 1
  BY RollbackEffect
<1>2. /\ src.kind = "ACTIVATE" /\ src.scope = s /\ src.after = row[s].generation
      /\ row'[s].active.cap = src.old.cap /\ actions' = actions
      /\ tickets' = [tickets EXCEPT ![t].consumed = TRUE]
  BY RollbackEffect
<1>3. /\ tickets[t].op = src.op /\ tickets[t].scope = s /\ ~tickets[t].consumed
      /\ tickets[t].generation = row[s].generation
      /\ actions[s][src.op].state # "NONE" /\ actions[s][src.op].request = src.request
      /\ actions[s][src.op].epoch = tickets[t].epoch
  BY DEF RollbackReceipt, RollbackAdmitted, TicketAdmitsFor, TicketAdmits
<1>4. tickets'[t].consumed
  BY <1>2, SpendKeeps DEF TypeOK
<1>5. PICK n : n = Len(receipts) + 1
  OBVIOUS
<1>6. receipts'[n] = r /\ receipts'[i] = src /\ i \in 1 .. (n - 1)
  BY <1>1, <1>5, ReceiptAppended
<1>7. BoundAt(i)
  BY BoundUnfold DEF AllBound
<1>8. BoundAt(n)'
  <2>1. /\ t \in DOMAIN tickets' /\ tickets'[t].scope = s /\ tickets'[t].op = src.op
        /\ tickets'[t].generation = row[s].generation /\ tickets'[t].epoch = tickets[t].epoch
    BY <1>3 DEF TicketsKept
  <2>2. /\ src.ticket \in DOMAIN tickets
        /\ actions[s][src.op].epoch = tickets[src.ticket].epoch
    BY <1>2, <1>7 DEF BoundAt
  <2>3. tickets'[src.ticket].epoch = tickets[t].epoch
    BY <1>3, <2>2 DEF TicketsKept
  <2> HIDE DEF src
  <2> QED
    BY <1>1, <1>2, <1>3, <1>4, <1>6, <2>1, <2>3 DEF BoundAt
<1> QED
  BY <1>1, <1>3, <1>5, <1>8, BoundAppend

(* No receipt is written, and the receipts stay bound. *)
LEMMA BoundUntouched ==
    ASSUME TypeOK, BoundInv, TicketsKept, ActionsKept, PreparedKept, receipts' = receipts
    PROVE  BoundInv'
<1>1. TicketsSpentOnce /\ \A i \in DOMAIN receipts : BoundAt(i)
  BY BoundUnfold DEF AllBound
<1>2. \A i \in DOMAIN receipts : BoundAt(i)'
  BY <1>1, BoundStays
<1>3. TicketsSpentOnce' /\ AllBound'
  BY <1>1, <1>2 DEF TicketsSpentOnce, AllBound
<1>4. BoundInv' <=> TicketsSpentOnce' /\ AllBound'
  BY BoundUnfold, PTL
<1> QED
  BY <1>3, <1>4

(* Only the two commits write a receipt. *)
LEMMA ReceiptsWritten ==
    ASSUME [Next]_vars
    PROVE  \/ receipts' = receipts
           \/ \E s \in Scopes : PointerStep(s)
<1>1. ASSUME NEW s \in Scopes, SessionStep(s) PROVE receipts' = receipts
  BY <1>1 DEF SessionStep, Initialize, BeginAction, EndAction, IssueReconciliation,
              Reconcile, ReserveBoundary, ConsumeBoundary, ProcessEnds, dbVars
<1>2. Tick \/ UNCHANGED vars => receipts' = receipts
  BY DEF Tick, vars, dbVars
<1>3. (\E p \in PreparedIds, c \in Candidates : SavePrepared(p, c)) => receipts' = receipts
  BY DEF SavePrepared
<1> QED
  BY <1>1, <1>2, <1>3 DEF Next

(* Every step of the store keeps its receipts bound. *)
LEMMA NextBound == TypeOK /\ BoundInv /\ [Next]_vars => BoundInv'
<1> SUFFICES ASSUME TypeOK, BoundInv, [Next]_vars PROVE BoundInv'
  OBVIOUS
<1>1. TicketsKept /\ ActionsKept /\ PreparedKept
  BY NextKeeps
<1>2. CASE receipts' = receipts
  BY <1>1, <1>2, BoundUntouched
<1>3. CASE \E s \in Scopes : PointerStep(s)
  <2>1. PICK s \in Scopes : PointerStep(s)
    BY <1>3
  <2> QED
    BY <1>1, <2>1, ActivateBound, RollbackBound DEF PointerStep
<1> QED
  BY <1>2, <1>3, ReceiptsWritten

(***************************************************************************)
(* Every receipt of the store agrees with the ticket, the action record,   *)
(* the preparation or the earlier receipt that authorised it.              *)
(***************************************************************************)
THEOREM ReceiptsStayBound == Spec => []ReceiptsAreBound
<1>1. Init => BoundInv
  BY DEF Init, BoundInv, ReceiptsAreBound, ReceiptsAreAnchored
<1>2. BoundInv => ReceiptsAreBound
  BY DEF BoundInv
<1> QED
  BY <1>1, <1>2, NextBound, TypeCorrect, PTL DEF Spec

(***************************************************************************)
(* An operation is activated at most once and rolled back at most once,    *)
(* and the rollback is of its own activation.                              *)
(***************************************************************************)
OncePerOperation ==
    \A i, j \in DOMAIN receipts :
      /\ receipts[i].scope = receipts[j].scope /\ receipts[i].op = receipts[j].op
      /\ receipts[i].kind = receipts[j].kind
      => i = j

UndoesItsOwn ==
    \A i \in DOMAIN receipts : receipts[i].kind = "ROLLBACK" =>
      /\ receipts[i].source \in DOMAIN receipts
      /\ receipts[receipts[i].source].op = receipts[i].op
      /\ receipts[receipts[i].source].scope = receipts[i].scope

OnceInv == OncePerOperation /\ UndoesItsOwn

(* What either commit has found in the tables about the receipt it writes. *)
LEMMA MoveAppends ==
    ASSUME TypeOK, NEW s \in Scopes, PointerStep(s)
    PROVE  \E r \in Receipt :
             /\ receipts' = Append(receipts, r) /\ r.scope = s
             /\ ReceiptsFor(s, r.op, r.kind) = {}
             /\ r.kind = "ROLLBACK" => /\ r.source \in DOMAIN receipts
                                       /\ receipts[r.source].op = r.op
                                       /\ receipts[r.source].scope = r.scope
<1>1. ASSUME NEW p \in PreparedIds, NEW t \in DOMAIN tickets, ActivatePrepared(s, p, t)
      PROVE  \E r \in Receipt : /\ receipts' = Append(receipts, r) /\ r.scope = s
                                /\ ReceiptsFor(s, r.op, r.kind) = {} /\ r.kind = "ACTIVATE"
  <2>1. ReceiptsFor(s, prepared[p].op, "ACTIVATE") = {}
    BY <1>1 DEF ActivatePrepared, ActivationAdmitted
  <2>2. PICK r \in Receipt : /\ receipts' = Append(receipts, r) /\ r.kind = "ACTIVATE"
                             /\ r.scope = s /\ r.op = prepared[p].op
    BY <1>1, ActivateEffect
  <2> QED
    BY <2>1, <2>2
<1>2. ASSUME NEW i \in DOMAIN receipts, NEW t \in DOMAIN tickets, RollbackReceipt(s, i, t)
      PROVE  \E r \in Receipt : /\ receipts' = Append(receipts, r) /\ r.scope = s
                                /\ ReceiptsFor(s, r.op, r.kind) = {} /\ r.source = i
                                /\ receipts[i].op = r.op /\ receipts[i].scope = s
  <2>1. ReceiptsFor(s, receipts[i].op, "ROLLBACK") = {} /\ receipts[i].scope = s
    BY <1>2 DEF RollbackReceipt, RollbackAdmitted
  <2>2. PICK r \in Receipt : /\ receipts' = Append(receipts, r) /\ r.kind = "ROLLBACK"
                             /\ r.scope = s /\ r.op = receipts[i].op /\ r.source = i
    BY <1>2, RollbackEffect
  <2> QED
    BY <2>1, <2>2
<1> QED
  BY <1>1, <1>2 DEF PointerStep

(* Every step keeps it. *)
LEMMA NextOnce == TypeOK /\ OnceInv /\ [Next]_vars => OnceInv'
<1> SUFFICES ASSUME TypeOK, OnceInv, [Next]_vars PROVE OnceInv'
  OBVIOUS
<1>1. CASE receipts' = receipts
  BY <1>1 DEF OnceInv, OncePerOperation, UndoesItsOwn
<1>2. ASSUME NEW s \in Scopes, PointerStep(s) PROVE OnceInv'
  <2>1. PICK r \in Receipt :
          /\ receipts' = Append(receipts, r) /\ r.scope = s
          /\ ReceiptsFor(s, r.op, r.kind) = {}
          /\ r.kind = "ROLLBACK" => /\ r.source \in DOMAIN receipts
                                    /\ receipts[r.source].op = r.op
                                    /\ receipts[r.source].scope = r.scope
    BY <1>2, MoveAppends
  <2>2. PICK n : n = Len(receipts) + 1
    OBVIOUS
  <2>3. /\ DOMAIN receipts' = DOMAIN receipts \cup {n} /\ n \notin DOMAIN receipts
        /\ receipts'[n] = r /\ \A i \in DOMAIN receipts : receipts'[i] = receipts[i]
    BY <2>1, <2>2, ReceiptAppended
  <2>4. \A i \in DOMAIN receipts :
          ~(receipts[i].scope = s /\ receipts[i].op = r.op /\ receipts[i].kind = r.kind)
    BY <2>1 DEF ReceiptsFor
  <2>5. OncePerOperation'
    BY <2>1, <2>3, <2>4 DEF OnceInv, OncePerOperation
  <2>6. UndoesItsOwn'
    BY <2>1, <2>3 DEF OnceInv, UndoesItsOwn
  <2> QED
    BY <2>5, <2>6 DEF OnceInv
<1> QED
  BY <1>1, <1>2, ReceiptsWritten

-----------------------------------------------------------------------------
(* What the pointer moves under *)

(* Between two moves of a pointer every scope keeps its binding. *)
PointersKept ==
    /\ receipts' = receipts
    /\ \A x \in Scopes : /\ row'[x].active = row[x].active
                         /\ row'[x].generation = row[x].generation
                         /\ row'[x].state = "ABSENT" <=> row[x].state = "ABSENT"

(* Only initialize and the two commits write a binding. *)
LEMMA PointerWritten ==
    ASSUME TypeOK, [Next]_vars
    PROVE  \/ PointersKept
           \/ \E s \in Scopes, c \in Caps : Initialize(s, c)
           \/ \E s \in Scopes : PointerStep(s)
<1>1. ASSUME NEW s \in Scopes, SessionStep(s)
      PROVE  PointersKept \/ \E c \in Caps : Initialize(s, c)
  <2>1. ASSUME NEW o \in Ops, NEW q \in Requests, BeginAction(s, o, q) PROVE PointersKept
    <3>1. receipts' = receipts /\ row[s].state # "ABSENT"
      BY <2>1 DEF BeginAction
    <3> QED
      BY <2>1, <3>1, BeginEffect DEF PointersKept
  <2>2. ASSUME NEW o \in Ops, NEW q \in Requests, NEW uncertain \in BOOLEAN,
               NEW outcome \in Outcomes, EndAction(s, o, q, row[s].epoch, uncertain, outcome)
        PROVE  PointersKept
    <3>1. receipts' = receipts /\ row[s].state # "ABSENT"
      BY <2>2 DEF EndAction
    <3> QED
      BY <2>2, <3>1, EndEffect DEF PointersKept
  <2>3. ASSUME NEW proof \in proofs, Reconcile(s, proof) PROVE PointersKept
    <3>1. receipts' = receipts /\ row[s].state # "ABSENT"
      BY <2>3 DEF Reconcile
    <3> QED
      BY <2>3, <3>1, ReconcileEffect DEF PointersKept
  <2>4. ASSUME \/ \E o \in Ops : IssueReconciliation(s, o)
               \/ \E o \in Ops, ttl \in 1..MaxTTL :
                    ReserveBoundary(s, o, row[s].generation, ttl)
               \/ \E t \in DOMAIN tickets : ConsumeBoundary(s, t)
               \/ \E o \in Ops : ProcessEnds(s, o)
        PROVE  PointersKept
    BY <2>4 DEF IssueReconciliation, ReserveBoundary, ConsumeBoundary, ProcessEnds, dbVars,
                PointersKept
  <2> QED
    BY <1>1, <2>1, <2>2, <2>3, <2>4 DEF SessionStep
<1>2. Tick \/ UNCHANGED vars => PointersKept
  BY DEF Tick, vars, dbVars, PointersKept
<1>3. (\E p \in PreparedIds, c \in Candidates : SavePrepared(p, c)) => PointersKept
  BY DEF SavePrepared, PointersKept
<1> QED
  BY <1>1, <1>2, <1>3 DEF Next

(***************************************************************************)
(* An operation whose process may be running is RUNNING or UNCERTAIN, and  *)
(* a signed termination proof is of a process that has ended for good.     *)
(***************************************************************************)
LiveIsOpen ==
    \A s \in Scopes, o \in Ops :
      <<s, o>> \in alive => actions[s][o].state \in {"RUNNING", "UNCERTAIN"}

ProvedIsDead ==
    \A proof \in proofs :
      /\ actions[proof.scope][proof.op].state # "NONE"
      /\ <<proof.scope, proof.op>> \notin alive

ProcessInv == LiveIsOpen /\ ProvedIsDead

(* A step on the session of a scope keeps it. *)
LEMMA SessionProcess ==
    ASSUME TypeOK, ProcessInv, NEW s \in Scopes, SessionStep(s)
    PROVE  ProcessInv'
<1>0. \A proof \in proofs : proof.scope \in Scopes /\ proof.op \in Ops
  BY DEF TypeOK, Proof
<1>1. ASSUME NEW o \in Ops, NEW q \in Requests, BeginAction(s, o, q) PROVE ProcessInv'
  <2>1. /\ proofs' = proofs /\ alive' = alive \cup {<<s, o>>} /\ actions[s][o].state = "NONE"
    BY <1>1 DEF BeginAction
  <2>2. /\ actions'[s][o].state = "RUNNING"
        /\ \A x \in Scopes, p \in Ops : x # s \/ p # o => actions'[x][p] = actions[x][p]
    BY <1>1, BeginEffect
  <2> QED
    BY <1>0, <2>1, <2>2 DEF ProcessInv, LiveIsOpen, ProvedIsDead
<1>2. ASSUME NEW o \in Ops, NEW q \in Requests, NEW uncertain \in BOOLEAN,
             NEW outcome \in Outcomes, EndAction(s, o, q, row[s].epoch, uncertain, outcome)
      PROVE  ProcessInv'
  <2>1. proofs' = proofs /\ alive' = alive /\ (uncertain \/ <<s, o>> \notin alive)
    BY <1>2 DEF EndAction
  <2>2. /\ actions'[s][o].state = IF uncertain THEN "UNCERTAIN" ELSE "IDLE"
        /\ \A x \in Scopes, p \in Ops : x # s \/ p # o => actions'[x][p] = actions[x][p]
    BY <1>2, EndEffect
  <2> QED
    BY <1>0, <2>1, <2>2 DEF ProcessInv, LiveIsOpen, ProvedIsDead
<1>3. ASSUME NEW proof \in proofs, Reconcile(s, proof) PROVE ProcessInv'
  <2>1. proofs' = proofs /\ alive' = alive /\ proof.scope = s
    BY <1>3 DEF Reconcile
  <2>2. /\ actions'[s][proof.op].state = "IDLE"
        /\ \A x \in Scopes, p \in Ops : x # s \/ p # proof.op => actions'[x][p] = actions[x][p]
    BY <1>3, ReconcileEffect
  <2>3. <<s, proof.op>> \notin alive
    BY <2>1 DEF ProcessInv, ProvedIsDead
  <2> QED
    BY <1>0, <2>1, <2>2, <2>3 DEF ProcessInv, LiveIsOpen, ProvedIsDead
<1>4. ASSUME NEW o \in Ops, IssueReconciliation(s, o) PROVE ProcessInv'
  <2> DEFINE new == [scope |-> s, op |-> o, epoch |-> actions[s][o].epoch]
  <2>1. /\ <<s, o>> \notin alive /\ actions[s][o].state = "UNCERTAIN" /\ alive' = alive
        /\ proofs' = proofs \cup {new} /\ actions' = actions
    BY <1>4 DEF IssueReconciliation, dbVars
  <2>2. new.scope = s /\ new.op = o
    OBVIOUS
  <2> HIDE DEF new
  <2> QED
    BY <2>1, <2>2 DEF ProcessInv, LiveIsOpen, ProvedIsDead
<1>5. ASSUME \/ \E c \in Caps : Initialize(s, c)
             \/ \E o \in Ops, ttl \in 1..MaxTTL : ReserveBoundary(s, o, row[s].generation, ttl)
             \/ \E t \in DOMAIN tickets : ConsumeBoundary(s, t)
             \/ \E o \in Ops : ProcessEnds(s, o)
      PROVE  ProcessInv'
  <2>1. actions' = actions /\ proofs' = proofs /\ alive' \subseteq alive
    BY <1>5 DEF Initialize, ReserveBoundary, ConsumeBoundary, ProcessEnds, dbVars
  <2> QED
    BY <2>1 DEF ProcessInv, LiveIsOpen, ProvedIsDead
<1> QED
  BY <1>1, <1>2, <1>3, <1>4, <1>5 DEF SessionStep

(* Every step of the store keeps it. *)
LEMMA NextProcess == TypeOK /\ ProcessInv /\ [Next]_vars => ProcessInv'
<1> SUFFICES ASSUME TypeOK, ProcessInv, [Next]_vars PROVE ProcessInv'
  OBVIOUS
<1>1. ASSUME NEW s \in Scopes, PointerStep(s)
      PROVE  UNCHANGED <<actions, proofs, alive>>
  BY <1>1 DEF PointerStep, ActivatePrepared, CommitActivation, RollbackReceipt,
              CommitRollback, RestoreTo
<1>2. (\E p \in PreparedIds, c \in Candidates : SavePrepared(p, c))
        => UNCHANGED <<actions, proofs, alive>>
  BY DEF SavePrepared
<1>3. Tick \/ UNCHANGED vars => UNCHANGED <<actions, proofs, alive>>
  BY DEF Tick, vars, dbVars
<1>4. UNCHANGED <<actions, proofs, alive>> => ProcessInv'
  BY DEF ProcessInv, LiveIsOpen, ProvedIsDead
<1> QED
  BY <1>1, <1>2, <1>3, <1>4, SessionProcess DEF Next

(* At a boundary that admits a commit no process of the scope is alive. *)
LEMMA BoundaryIsQuiet ==
    ASSUME TypeOK, SessionInv, ProcessInv, NEW s \in Scopes, PointerStep(s), NEW o \in Ops
    PROVE  <<s, o>> \notin alive
<1>1. row[s].state = "IDLE"
  BY DEF PointerStep, ActivatePrepared, ActivationAdmitted, RollbackReceipt,
         RollbackAdmitted, TicketAdmitsFor, TicketAdmits
<1>2. SessionAt(s)
  BY DEF SessionInv
<1>3. actions[s][o].state \notin {"RUNNING", "UNCERTAIN"}
  BY <1>1, <1>2, SessionUnfold
<1> QED
  BY <1>3 DEF ProcessInv, LiveIsOpen

(***************************************************************************)
(* No sequence of lost processes, termination proofs, late or repeated     *)
(* ends and reconciliations lets a commit move the pointer of a scope      *)
(* under a process of that scope that may still be running.                *)
(***************************************************************************)
THEOREM SwapsAreQuiet == Spec => NoSwapUnderLiveProcess
<1> DEFINE Quiet == \A s \in Scopes :
              Initialized(s) /\ row'[s].active # row[s].active
                => \A o \in Ops : <<s, o>> \notin alive
<1>1. TypeOK /\ SessionInv /\ ProcessInv /\ [Next]_vars => [Quiet]_vars
  <2> SUFFICES ASSUME TypeOK, SessionInv, ProcessInv, [Next]_vars, NEW s \in Scopes,
                      Initialized(s), row'[s].active # row[s].active, NEW o \in Ops
               PROVE  <<s, o>> \notin alive
    OBVIOUS
  <2>1. ~PointersKept
    BY DEF PointersKept
  <2>2. ASSUME NEW x \in Scopes, NEW c \in Caps, Initialize(x, c) PROVE FALSE
    <3>1. x # s
      BY <2>2 DEF Initialize
    <3>2. row'[s] = row[s]
      BY <2>2, <3>1 DEF Initialize, TypeOK
    <3> QED
      BY <3>2
  <2>3. PICK x \in Scopes : PointerStep(x)
    BY <2>1, <2>2, PointerWritten
  <2>4. x = s
    BY <2>3, ActivateEffect, RollbackEffect DEF PointerStep
  <2> QED
    BY <2>3, <2>4, BoundaryIsQuiet
<1>2. Init => ProcessInv
  BY DEF Init, ProcessInv, LiveIsOpen, ProvedIsDead
<1> QED
  BY <1>1, <1>2, NextProcess, InitSession, NextSession, TypeCorrect, PTL
     DEF Spec, NoSwapUnderLiveProcess

-----------------------------------------------------------------------------
(* The store implements the pointer *)

(***************************************************************************)
(* A scope that was never initialised has the pointer SwapPointer begins   *)
(* with; an initialised one always points to a capsule.                    *)
(***************************************************************************)
PlacedInv ==
    \A s \in Scopes :
      /\ row[s].state = "ABSENT" => row[s].active = [cap |-> None, generation |-> 0]
      /\ row[s].state # "ABSENT" => row[s].active.cap \in Caps

(* Either commit works on an initialised scope and leaves it so. *)
LEMMA MovesArePlaced ==
    ASSUME TypeOK, NEW s \in Scopes, PointerStep(s)
    PROVE  /\ row[s].state # "ABSENT" /\ row'[s].state # "ABSENT"
           /\ row'[s].active \in Binding
           /\ \A x \in Scopes : x # s => row'[x] = row[x]
<1>1. row[s].state # "ABSENT"
  BY DEF PointerStep, ActivatePrepared, ActivationAdmitted, RollbackReceipt,
         RollbackAdmitted, ReadableRow, Initialized
<1>2. PICK b \in Binding :
        row' = [row EXCEPT ![s] = [@ EXCEPT !.active = b, !.generation = b.generation]]
  <2>1. ASSUME NEW p \in PreparedIds, NEW t \in DOMAIN tickets, ActivatePrepared(s, p, t)
        PROVE  \E b \in Binding :
          row' = [row EXCEPT ![s] = [@ EXCEPT !.active = b, !.generation = b.generation]]
    BY <2>1, ActivateEffect DEF ActivatePrepared, CommitActivation
  <2>2. ASSUME NEW i \in DOMAIN receipts, NEW t \in DOMAIN tickets, RollbackReceipt(s, i, t)
        PROVE  \E b \in Binding :
          row' = [row EXCEPT ![s] = [@ EXCEPT !.active = b, !.generation = b.generation]]
    <3> DEFINE b == [receipts[i].old EXCEPT !.generation = row[s].generation + 1]
    <3>0. receipts[i] \in Receipt /\ row[s].generation \in Nat
      BY ElementOfSeq, LenProperties DEF TypeOK, Row
    <3>1. receipts[i].old \in Binding /\ row[s].generation + 1 \in Nat
      BY <3>0 DEF Receipt
    <3>2. b \in Binding
      BY <3>1, Rebound
    <3>3. row' = [row EXCEPT ![s] = [@ EXCEPT !.active = b, !.generation = b.generation]]
      BY <2>2 DEF RollbackReceipt, CommitRollback, RestoreTo
    <3> QED
      BY <3>2, <3>3
  <2> QED
    BY <2>1, <2>2 DEF PointerStep
<1> QED
  BY <1>1, <1>2, MoveEffect

(* Every step keeps it. *)
LEMMA NextPlaced == TypeOK /\ PlacedInv /\ [Next]_vars => PlacedInv'
<1> SUFFICES ASSUME TypeOK, PlacedInv, [Next]_vars PROVE PlacedInv'
  OBVIOUS
<1>1. CASE PointersKept
  BY <1>1 DEF PointersKept, PlacedInv
<1>2. ASSUME NEW s \in Scopes, NEW c \in Caps, Initialize(s, c) PROVE PlacedInv'
  <2>1. /\ row'[s].state = "IDLE" /\ row'[s].active.cap = c
        /\ \A x \in Scopes : x # s => row'[x] = row[x]
    BY <1>2 DEF Initialize, TypeOK
  <2> QED
    BY <2>1 DEF PlacedInv
<1>3. ASSUME NEW s \in Scopes, PointerStep(s) PROVE PlacedInv'
  BY <1>3, MovesArePlaced DEF PlacedInv, Binding
<1> QED
  BY <1>1, <1>2, <1>3, PointerWritten

(* What the mapping makes of the activation in force, before and after. *)
LEMMA UndoIs ==
    ASSUME NEW s \in Scopes
    PROVE  /\ InForce(s) = {} => undoBar[s] = None
           /\ \A i : InForce(s) = {i} => undoBar[s] = receipts[i].old.cap
           /\ InForce(s)' = {} => undoBar'[s] = None
           /\ \A i : InForce(s)' = {i} => undoBar'[s] = receipts'[i].old.cap
<1>1. /\ undoBar[s] = IF InForce(s) = {} THEN None
                      ELSE receipts[CHOOSE i \in InForce(s) : TRUE].old.cap
      /\ undoBar'[s] = IF InForce(s)' = {} THEN None
                       ELSE receipts'[CHOOSE i \in InForce(s)' : TRUE].old.cap
  BY DEF undoBar
<1>2. \A i : (CHOOSE x \in {i} : TRUE) = i
  OBVIOUS
<1> QED
  BY <1>1, <1>2

(* At most one activation is in force. *)
LEMMA OneInForce ==
    ASSUME ReceiptsChain, NEW s \in Scopes
    PROVE  InForce(s) = {} \/ \E i \in DOMAIN receipts : InForce(s) = {i}
BY DEF ReceiptsChain, ChainAt, Moves, InForce

(* A scope none of whose receipts and whose generation change. *)
LEMMA UndoUntouched ==
    ASSUME ReceiptsChain, NEW s \in Scopes, row'[s].generation = row[s].generation,
           \A i \in DOMAIN receipts : i \in DOMAIN receipts' /\ receipts'[i] = receipts[i],
           \A i \in DOMAIN receipts' : i \in DOMAIN receipts \/ receipts'[i].scope # s
    PROVE  undoBar'[s] = undoBar[s] /\ appliedBar'[s] = appliedBar[s]
<1>1. InForce(s)' = InForce(s)
  BY DEF InForce
<1>2. undoBar'[s] = undoBar[s]
  <2>1. CASE InForce(s) = {}
    BY <1>1, <2>1, UndoIs
  <2>2. ASSUME NEW i \in DOMAIN receipts, InForce(s) = {i} PROVE undoBar'[s] = undoBar[s]
    BY <1>1, <2>2, UndoIs
  <2> QED
    BY <2>1, <2>2, OneInForce
<1>3. \A o \in Ops : (ReceiptsFor(s, o, "ACTIVATE") # {})' <=> ReceiptsFor(s, o, "ACTIVATE") # {}
  BY DEF ReceiptsFor
<1> QED
  BY <1>2, <1>3 DEF appliedBar

(* Nothing the mapping reads changes. *)
LEMMA KeptStutters ==
    ASSUME TypeOK, ReceiptsChain, PointersKept
    PROVE  UNCHANGED Pointer!pointerVars
<1>1. \A s \in Scopes : undoBar'[s] = undoBar[s] /\ appliedBar'[s] = appliedBar[s]
  BY UndoUntouched DEF PointersKept
<1>2. pointerBar' = pointerBar
  BY DEF pointerBar, PointersKept
<1>3. appliedBar' = appliedBar
  BY <1>1 DEF appliedBar
<1>4. undoBar' = undoBar
  BY <1>1 DEF undoBar
<1> QED
  BY <1>2, <1>3, <1>4 DEF Pointer!pointerVars

(* initialize places the pointer. *)
LEMMA InitializePlaces ==
    ASSUME TypeOK, ReceiptsChain, AbsentAtZero, PlacedInv,
           NEW s \in Scopes, NEW c \in Caps, Initialize(s, c)
    PROVE  Pointer!PointerNext
<1>1. /\ row[s].state = "ABSENT" /\ receipts' = receipts
      /\ row'[s].active = [cap |-> c, generation |-> 0] /\ row'[s].generation = 0
      /\ \A x \in Scopes : x # s => row'[x] = row[x]
  BY DEF Initialize, Initialized, TypeOK
<1>2. row[s].active = [cap |-> None, generation |-> 0] /\ row[s].generation = 0
  BY <1>1 DEF PlacedInv, AbsentAtZero, Initialized
<1>3. \A x \in Scopes : undoBar'[x] = undoBar[x] /\ appliedBar'[x] = appliedBar[x]
  BY <1>1, <1>2, UndoUntouched
<1>4. appliedBar' = appliedBar /\ undoBar' = undoBar
  BY <1>3 DEF appliedBar, undoBar
<1>5. pointerBar[s].cap = None
  BY <1>2 DEF pointerBar
<1>6. pointerBar' = [pointerBar EXCEPT ![s].cap = c]
  <2>1. row'[s].active = [row[s].active EXCEPT !.cap = c]
    BY <1>1, <1>2
  <2>2. pointerBar' = [pointerBar EXCEPT ![s] = [row[s].active EXCEPT !.cap = c]]
    BY <1>1, <2>1 DEF pointerBar
  <2>3. pointerBar[s] = row[s].active
    BY DEF pointerBar
  <2> QED
    BY <2>2, <2>3
<1>7. Pointer!Place(s, c)
  BY <1>4, <1>5, <1>6 DEF Pointer!Place
<1> QED
  BY <1>7 DEF Pointer!PointerNext

(* Either commit moves the mapped pointer to the next generation. *)
LEMMA CommitMoves ==
    ASSUME TypeOK, SessionInv, PlacedInv, NEW s \in Scopes, NEW c, row[s].state # "ABSENT",
           row'[s].active \in Binding, row'[s].active.cap = c,
           row'[s].active.generation = row[s].generation + 1,
           \A x \in Scopes : x # s => row'[x] = row[x]
    PROVE  Pointer!MoveTo(s, c)
<1>1. row[s].generation = row[s].active.generation
  BY SessionUnfold DEF SessionInv
<1>2. pointerBar[s].cap # None
  BY NoneIsNoValue DEF pointerBar, PlacedInv
<1>3. row'[s].active = [cap |-> c, generation |-> row[s].active.generation + 1]
  BY <1>1 DEF Binding
<1>4. pointerBar' = [pointerBar EXCEPT ![s] = [cap |-> c, generation |-> @.generation + 1]]
  BY <1>3 DEF pointerBar
<1> QED
  BY <1>2, <1>4 DEF Pointer!MoveTo

(* The receipts of the other scopes, and those before the new one. *)
LEMMA AppendMapped ==
    ASSUME TypeOK, ReceiptsChain, NEW s \in Scopes, NEW r \in Receipt, r.scope = s,
           receipts' = Append(receipts, r), NEW n, n = Len(receipts) + 1,
           row'[s].generation = row[s].generation + 1,
           r.after = row[s].generation + 1,
           \A x \in Scopes : x # s => row'[x] = row[x]
    PROVE  /\ \A x \in Scopes : x # s => /\ undoBar'[x] = undoBar[x]
                                         /\ appliedBar'[x] = appliedBar[x]
           /\ InForce(s)' = IF r.kind = "ACTIVATE" THEN {n} ELSE {}
           /\ appliedBar'[s] = IF r.kind = "ACTIVATE" THEN appliedBar[s] \cup {r.op}
                                                      ELSE appliedBar[s]
<1>1. /\ DOMAIN receipts' = DOMAIN receipts \cup {n} /\ n \notin DOMAIN receipts
      /\ receipts'[n] = r /\ \A i \in DOMAIN receipts : receipts'[i] = receipts[i]
  BY ReceiptAppended
<1>2. \A i \in DOMAIN receipts :
        receipts[i].scope = s => receipts[i].after # row[s].generation + 1
  <2>1. ChainAt(s)
    BY DEF ReceiptsChain
  <2>2. ASSUME NEW i \in DOMAIN receipts, receipts[i].scope = s
        PROVE  receipts[i].after # row[s].generation + 1
    <3>1. receipts[i] \in Receipt /\ row[s].generation \in Nat
      BY ElementOfSeq, LenProperties DEF TypeOK, Row
    <3>2. receipts[i].after \in Nat
      BY <3>1 DEF Receipt
    <3>3. receipts[i].after <= row[s].generation
      BY <2>1, <2>2 DEF ChainAt, Moves
    <3> QED
      BY <3>1, <3>2, <3>3
  <2> QED
    BY <2>2
<1>3. \A x \in Scopes : x # s => undoBar'[x] = undoBar[x] /\ appliedBar'[x] = appliedBar[x]
  BY <1>1, UndoUntouched
<1>4. InForce(s)' = IF r.kind = "ACTIVATE" THEN {n} ELSE {}
  BY <1>1, <1>2 DEF InForce
<1>5. r.op \in Ops
  BY DEF Receipt
<1>6. \A o \in Ops : (ReceiptsFor(s, o, "ACTIVATE") # {})' <=>
        ReceiptsFor(s, o, "ACTIVATE") # {} \/ (r.kind = "ACTIVATE" /\ o = r.op)
  BY <1>1 DEF ReceiptsFor
<1>7. appliedBar'[s] = IF r.kind = "ACTIVATE" THEN appliedBar[s] \cup {r.op}
                                             ELSE appliedBar[s]
  BY <1>5, <1>6 DEF appliedBar
<1> QED
  BY <1>3, <1>4, <1>7

(* activate_prepared replaces. *)
LEMMA ActivateReplaces ==
    ASSUME TypeOK, SessionInv, ReceiptsChain, PlacedInv, NEW s \in Scopes,
           NEW p \in PreparedIds, NEW t \in DOMAIN tickets, ActivatePrepared(s, p, t)
    PROVE  Pointer!PointerNext
<1> DEFINE c == prepared[p]
<1>1. /\ c.new \in Binding /\ c.op \in Ops /\ row'[s].active = c.new
      /\ c.new.generation = row[s].generation + 1
      /\ row'[s].generation = row[s].generation + 1
      /\ \A x \in Scopes : x # s => row'[x] = row[x]
  BY ActivateEffect
<1>2. PICK r \in Receipt :
        /\ receipts' = Append(receipts, r) /\ r.kind = "ACTIVATE" /\ r.scope = s
        /\ r.op = c.op /\ r.old = row[s].active /\ r.after = row[s].generation + 1
  BY ActivateEffect
<1>3. ReceiptsFor(s, c.op, "ACTIVATE") = {} /\ row[s].state # "ABSENT"
  BY DEF ActivatePrepared, ActivationAdmitted, ReadableRow, Initialized
<1>4. PICK n : n = Len(receipts) + 1
  OBVIOUS
<1> HIDE DEF c
<1>5. /\ \A x \in Scopes : x # s => undoBar'[x] = undoBar[x] /\ appliedBar'[x] = appliedBar[x]
      /\ InForce(s)' = {n} /\ appliedBar'[s] = appliedBar[s] \cup {c.op}
  <2>1. /\ \A x \in Scopes : x # s => /\ undoBar'[x] = undoBar[x]
                                      /\ appliedBar'[x] = appliedBar[x]
        /\ InForce(s)' = IF r.kind = "ACTIVATE" THEN {n} ELSE {}
        /\ appliedBar'[s] = IF r.kind = "ACTIVATE" THEN appliedBar[s] \cup {r.op}
                                                   ELSE appliedBar[s]
    BY <1>1, <1>2, <1>4, AppendMapped
  <2> QED
    BY <1>2, <2>1
<1>6. receipts'[n] = r
  BY <1>2, <1>4, ReceiptAppended
<1>7. undoBar'[s] = pointerBar[s].cap
  <2>1. undoBar'[s] = receipts'[n].old.cap
    BY <1>5, UndoIs
  <2> QED
    BY <1>2, <1>6, <2>1 DEF pointerBar
<1>8. Pointer!MoveTo(s, c.new.cap)
  BY <1>1, <1>3, CommitMoves
<1>9. c.op \notin appliedBar[s]
  BY <1>3 DEF appliedBar
<1>10. appliedBar' = [appliedBar EXCEPT ![s] = @ \cup {c.op}]
  BY <1>5 DEF appliedBar
<1>11. undoBar' = [undoBar EXCEPT ![s] = pointerBar[s].cap]
  BY <1>5, <1>7 DEF undoBar
<1>12. Pointer!Replace(s, c.op, c.new.cap)
  BY <1>8, <1>9, <1>10, <1>11 DEF Pointer!Replace
<1>13. c.new.cap \in Caps
  BY <1>1 DEF Binding
<1> QED
  BY <1>1, <1>12, <1>13 DEF Pointer!PointerNext

(* rollback_receipt restores. *)
LEMMA RollbackRestores ==
    ASSUME TypeOK, SessionInv, ReceiptsChain, PlacedInv, NEW s \in Scopes,
           NEW i \in DOMAIN receipts, NEW t \in DOMAIN tickets, RollbackReceipt(s, i, t)
    PROVE  Pointer!PointerNext
<1> DEFINE src == receipts[i]
<1>1. /\ src \in Receipt /\ src.kind = "ACTIVATE" /\ src.scope = s
      /\ src.after = row[s].generation
      /\ row'[s].active \in Binding /\ row'[s].active.cap = src.old.cap
      /\ row'[s].active.generation = row[s].generation + 1
      /\ row'[s].generation = row[s].generation + 1
      /\ \A x \in Scopes : x # s => row'[x] = row[x]
  BY RollbackEffect
<1>2. PICK r \in Receipt :
        /\ receipts' = Append(receipts, r) /\ r.kind = "ROLLBACK" /\ r.scope = s
        /\ r.after = row[s].generation + 1
  BY RollbackEffect
<1>3. row[s].state # "ABSENT"
  BY DEF RollbackReceipt, RollbackAdmitted, ReadableRow, Initialized
<1>4. PICK n : n = Len(receipts) + 1
  OBVIOUS
<1>5. i \in InForce(s)
  BY <1>1 DEF InForce
<1>6. undoBar[s] = src.old.cap
  BY <1>5, OneInForce, UndoIs
<1>7. src.old.cap \in Caps
  BY <1>1 DEF Receipt, Binding
<1> HIDE DEF src
<1>8. /\ \A x \in Scopes : x # s => undoBar'[x] = undoBar[x] /\ appliedBar'[x] = appliedBar[x]
      /\ InForce(s)' = {} /\ appliedBar'[s] = appliedBar[s]
  BY <1>1, <1>2, <1>4, AppendMapped
<1>9. undoBar'[s] = None
  BY <1>8, UndoIs
<1>10. Pointer!MoveTo(s, undoBar[s])
  BY <1>1, <1>3, <1>6, CommitMoves
<1>11. appliedBar' = appliedBar
  BY <1>8 DEF appliedBar
<1>12. undoBar' = [undoBar EXCEPT ![s] = None]
  BY <1>8, <1>9 DEF undoBar
<1>13. Pointer!Restore(s)
  BY <1>6, <1>7, <1>10, <1>11, <1>12, NoneIsNoValue DEF Pointer!Restore
<1> QED
  BY <1>13 DEF Pointer!PointerNext

(***************************************************************************)
(* Seen through its receipts, the store is the pointer of SwapPointer:     *)
(* initialize places it, activate_prepared replaces the capsule once per   *)
(* operation, rollback_receipt undoes the replacement in force, and every  *)
(* other call leaves what the mapping reads alone.                         *)
(***************************************************************************)
THEOREM StoreImplementsPointer == Spec => ImplementsPointer
<1>1. Init => Pointer!PointerInit
  BY DEF Init, AbsentRow, Pointer!PointerInit, pointerBar, appliedBar, undoBar, InForce,
         ReceiptsFor
<1>2. /\ TypeOK /\ SessionInv /\ ReceiptsChain /\ AbsentAtZero /\ PlacedInv
      /\ [Next]_vars
      => [Pointer!PointerNext]_(Pointer!pointerVars)
  BY PointerWritten, KeptStutters, InitializePlaces, ActivateReplaces, RollbackRestores
     DEF PointerStep
<1>3. Init => PlacedInv
  BY DEF Init, AbsentRow, PlacedInv
<1> QED
  BY <1>1, <1>2, <1>3, NextPlaced, InitSession, NextSession, InitChain, NextChain,
     TypeCorrect, PTL
     DEF Spec, ImplementsPointer, Pointer!PointerSpec
=============================================================================
