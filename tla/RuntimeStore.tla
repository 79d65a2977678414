---------------------------- MODULE RuntimeStore ----------------------------
(***************************************************************************)
(* The transactional owner of the mutable runtime state: class             *)
(* RuntimeStore of swap/store.py.  Every public method that writes opens   *)
(* one BEGIN IMMEDIATE transaction, so each of them is one atomic action;  *)
(* a method that raises rolls its transaction back and changes nothing, so *)
(* an error path is a disabled action.                                     *)
(*                                                                         *)
(* Each SQL table is a variable: m5_runtime_scopes is row,                 *)
(* m5_runtime_actions is actions, m5_runtime_tickets is tickets,           *)
(* m5_runtime_prepared is prepared, m5_runtime_receipts is receipts and    *)
(* m5_runtime_audit is audit (how many events of each kind a scope has).   *)
(* A fresh uuid4 is the next position of the sequence it indexes.  HMAC    *)
(* signatures are abstract: a record is authentic when the store wrote it. *)
(***************************************************************************)
EXTENDS Naturals, Sequences, FiniteSets

CONSTANTS
    Scopes,       \* digests of RuntimeScope values
    Ops,          \* operation ids
    Requests,     \* request digests
    Caps,         \* a binding's capsule ref, view digest and input digest
    Outcomes,     \* outcome bytes handed to end_action
    PreparedIds,  \* ids of prepared replacements
    Candidates,   \* the PreparedReplacement records callers may save
    None,         \* SQL NULL, and the absence of a row
    MaxTickets,   \* bound: boundary tickets ever issued
    MaxClock,     \* bound: the clock's last tick
    MaxTTL        \* longest ticket lifetime in ticks (10 minutes in the code)

Binding == [cap : Caps, generation : Nat]

(***************************************************************************)
(* A PreparedReplacement; its validator makes the new generation the       *)
(* successor of the old one.  needs abstracts effective_risk and           *)
(* approval_required to "an activation approval is mandatory".             *)
(***************************************************************************)
PreparedRecord ==
    { c \in [scope : Scopes, op : Ops, request : Requests, old : Binding,
             new : Binding, expires : Nat, needs : BOOLEAN] :
        c.new.generation = c.old.generation + 1 }

ASSUME NoneIsNoValue ==
    /\ None \notin Ops /\ None \notin Requests /\ None \notin Caps
    /\ None \notin Outcomes /\ None \notin Candidates

ASSUME BoundsAreNat ==
    /\ MaxTickets \in Nat /\ MaxClock \in Nat /\ MaxTTL \in Nat

ASSUME CandidatesAreRecords == Candidates \subseteq PreparedRecord

VARIABLES row, actions, tickets, prepared, receipts, audit, clock,
          proofs,  \* reconciliation proofs the store has signed
          alive    \* external: operations whose process may still be running

dbVars == <<row, actions, tickets, prepared, receipts, audit>>
vars   == <<dbVars, clock, proofs, alive>>

ActionStates == {"RUNNING", "IDLE", "UNCERTAIN"}

Row == [state : ActionStates \cup {"ABSENT"}, active : [cap : Caps \cup {None},
        generation : Nat], generation : Nat, epoch : Nat, current : Ops \cup {None}]

ActionRecord == [state : ActionStates \cup {"NONE"}, request : Requests \cup {None},
                 epoch : Nat, outcome : Outcomes \cup {None}]

Ticket == [scope : Scopes, generation : Nat, epoch : Nat, op : Ops,
           expires : Nat, consumed : BOOLEAN]

(***************************************************************************)
(* ActivationReceipt and RollbackReceipt.  A rollback has no prepared id;  *)
(* its source is the receipt it undoes, its new binding is the restored    *)
(* one, and its old binding, which the code does not store, is the one the *)
(* rollback replaces.                                                      *)
(***************************************************************************)
Receipt == [kind : {"ACTIVATE", "ROLLBACK"}, scope : Scopes, op : Ops,
            request : Requests, prepared : PreparedIds \cup {None}, source : Nat,
            ticket : Nat, old : Binding, new : Binding, before : Nat, after : Nat]

AuditKinds == {"INITIALIZE", "BEGIN_ACTION", "END_ACTION", "RECONCILE",
               "RESERVE_BOUNDARY", "CONSUME_BOUNDARY", "ACTIVATE", "ROLLBACK"}

Proof == [scope : Scopes, op : Ops, epoch : Nat]

AbsentRow == [state |-> "ABSENT", active |-> [cap |-> None, generation |-> 0],
              generation |-> 0, epoch |-> 0, current |-> None]

NoAction == [state |-> "NONE", request |-> None, epoch |-> 0, outcome |-> None]

Init ==
    /\ row = [s \in Scopes |-> AbsentRow]
    /\ actions = [s \in Scopes |-> [o \in Ops |-> NoAction]]
    /\ tickets = <<>>
    /\ prepared = [p \in PreparedIds |-> None]
    /\ receipts = <<>>
    /\ audit = [s \in Scopes |-> [k \in AuditKinds |-> 0]]
    /\ clock = 0
    /\ proofs = {}
    /\ alive = {}

-----------------------------------------------------------------------------
(* Reading *)

Initialized(s) == row[s].state # "ABSENT"

Recorded(s) == { o \in Ops : actions[s][o].state # "NONE" }

RunningActions(s) == { o \in Ops : actions[s][o].state = "RUNNING" }

IsLatest(s, o) ==
    /\ o \in Recorded(s)
    /\ \A p \in Recorded(s) : actions[s][p].epoch <= actions[s][o].epoch

(***************************************************************************)
(* _row and _verify_row: what every method checks of the scope's row       *)
(* against itself and against the action table before it does anything.    *)
(***************************************************************************)
RowVerifies(s) ==
    LET r == row[s] IN
    /\ r.generation = r.active.generation
    /\ r.state = "RUNNING" <=> r.current # None
    /\ IF r.state = "RUNNING"
       THEN /\ RunningActions(s) = {r.current}
            /\ actions[s][r.current].epoch = r.epoch
       ELSE RunningActions(s) = {}
    /\ \A o \in Ops :
         IsLatest(s, o) /\ actions[s][o].epoch = r.epoch => actions[s][o].state = r.state

ReadableRow(s) == Initialized(s) /\ RowVerifies(s)

Expired(expires) == clock >= expires

Audited(s, kind) == [audit EXCEPT ![s][kind] = @ + 1]

(***************************************************************************)
(* _check_ticket_db: a stored, unconsumed, unexpired ticket that was       *)
(* reserved at the scope's present generation and action epoch, for an     *)
(* operation that is complete and still the latest.                        *)
(***************************************************************************)
TicketAdmits(s, t) ==
    LET k == tickets[t] IN
    /\ k.scope = s
    /\ ~k.consumed
    /\ ~Expired(k.expires)
    /\ row[s].state = "IDLE"
    /\ row[s].generation = k.generation
    /\ row[s].epoch = k.epoch
    /\ actions[s][k.op].state = "IDLE"
    /\ actions[s][k.op].epoch = k.epoch

(* Mutant: the request the operation began with is not compared. *)
TicketAdmitsAnyRequest(s, t, o, q) ==
    /\ tickets[t].op = o
    /\ TicketAdmits(s, t)

TicketAdmitsFor(s, t, o, q) ==
    /\ tickets[t].op = o
    /\ TicketAdmits(s, t)
    /\ actions[s][o].request = q

(* Rows of m5_runtime_receipts that match scope, operation and kind. *)
ReceiptsFor(s, o, kind) ==
    { i \in DOMAIN receipts :
        receipts[i].scope = s /\ receipts[i].op = o /\ receipts[i].kind = kind }

-----------------------------------------------------------------------------
(* Actions *)

(* issue_bootstrap and initialize: the validated old binding of an empty    *)
(* session.  The proof never expires, but a scope is initialised only once. *)
Initialize(s, c) ==
    /\ ~Initialized(s)
    /\ row' = [row EXCEPT ![s] = [state |-> "IDLE",
                 active |-> [cap |-> c, generation |-> 0],
                 generation |-> 0, epoch |-> 0, current |-> None]]
    /\ audit' = Audited(s, "INITIALIZE")
    /\ UNCHANGED <<actions, tickets, prepared, receipts, clock, proofs, alive>>

(* begin_action, first use of the operation id.  A second use replays the   *)
(* recorded outcome or raises, and changes nothing.                         *)
BeginAction(s, o, q) ==
    /\ ReadableRow(s)
    /\ actions[s][o].state = "NONE"
    /\ row[s].state = "IDLE"
    /\ row' = [row EXCEPT ![s] = [@ EXCEPT !.state = "RUNNING", !.current = o,
                                           !.epoch = row[s].epoch + 1]]
    /\ actions' = [actions EXCEPT ![s][o] = [state |-> "RUNNING", request |-> q,
                                             epoch |-> row[s].epoch + 1, outcome |-> None]]
    /\ audit' = Audited(s, "BEGIN_ACTION")
    /\ alive' = alive \cup {<<s, o>>}
    /\ UNCHANGED <<tickets, prepared, receipts, clock, proofs>>

(* Mutant: an action whose process was lost is ended as if it had finished. *)
EndActionCertain(s, o, q, e, uncertain, outcome) ==
    /\ ReadableRow(s)
    /\ row[s].state = "RUNNING" /\ row[s].current = o /\ row[s].epoch = e
    /\ actions[s][o].state = "RUNNING"
    /\ actions[s][o].epoch = e /\ actions[s][o].request = q
    /\ uncertain \/ <<s, o>> \notin alive
    /\ row' = [row EXCEPT ![s] = [@ EXCEPT !.state = "IDLE", !.current = None]]
    /\ actions' = [actions EXCEPT ![s][o] = [@ EXCEPT !.state = "IDLE", !.outcome = outcome]]
    /\ audit' = Audited(s, "END_ACTION")
    /\ UNCHANGED <<tickets, prepared, receipts, clock, proofs, alive>>

(***************************************************************************)
(* end_action.  A lease carries no signature: it admits whoever presents   *)
(* the operation, request and epoch of the running action.  The caller     *)
(* reports uncertain = FALSE only for a process it has seen end.           *)
(***************************************************************************)
EndAction(s, o, q, e, uncertain, outcome) ==
    LET target == IF uncertain THEN "UNCERTAIN" ELSE "IDLE" IN
    /\ ReadableRow(s)
    /\ row[s].state = "RUNNING" /\ row[s].current = o /\ row[s].epoch = e
    /\ actions[s][o].state = "RUNNING"
    /\ actions[s][o].epoch = e /\ actions[s][o].request = q
    /\ uncertain \/ <<s, o>> \notin alive
    /\ row' = [row EXCEPT ![s] = [@ EXCEPT !.state = target, !.current = None]]
    /\ actions' = [actions EXCEPT ![s][o] = [@ EXCEPT !.state = target, !.outcome = outcome]]
    /\ audit' = Audited(s, "END_ACTION")
    /\ UNCHANGED <<tickets, prepared, receipts, clock, proofs, alive>>

(* issue_reconciliation: the configured termination validator accepts       *)
(* evidence only of a process that has ended.                               *)
IssueReconciliation(s, o) ==
    /\ <<s, o>> \notin alive
    /\ ReadableRow(s)
    /\ row[s].state = "UNCERTAIN"
    /\ actions[s][o].state = "UNCERTAIN"
    /\ proofs' = proofs \cup {[scope |-> s, op |-> o, epoch |-> actions[s][o].epoch]}
    /\ UNCHANGED <<dbVars, clock, alive>>

(* Mutant: the row is reopened and the action row forgotten. *)
ReconcileRowOnly(s, proof) ==
    /\ proof.scope = s
    /\ ReadableRow(s)
    /\ row[s].state = "UNCERTAIN"
    /\ actions[s][proof.op].state = "UNCERTAIN"
    /\ actions[s][proof.op].epoch = proof.epoch
    /\ row' = [row EXCEPT ![s] = [@ EXCEPT !.state = "IDLE", !.current = None]]
    /\ audit' = Audited(s, "RECONCILE")
    /\ UNCHANGED <<actions, tickets, prepared, receipts, clock, proofs, alive>>

(* reconcile, with any proof the store ever signed for the scope. *)
Reconcile(s, proof) ==
    /\ proof.scope = s
    /\ ReadableRow(s)
    /\ row[s].state = "UNCERTAIN"
    /\ actions[s][proof.op].state = "UNCERTAIN"
    /\ actions[s][proof.op].epoch = proof.epoch
    /\ row' = [row EXCEPT ![s] = [@ EXCEPT !.state = "IDLE", !.current = None]]
    /\ actions' = [actions EXCEPT ![s][proof.op] = [@ EXCEPT !.state = "IDLE"]]
    /\ audit' = Audited(s, "RECONCILE")
    /\ UNCHANGED <<tickets, prepared, receipts, clock, proofs, alive>>

(* reserve_boundary: a ticket for the latest, completed operation. *)
ReserveBoundary(s, o, expected, ttl) ==
    /\ Len(tickets) < MaxTickets
    /\ ReadableRow(s)
    /\ row[s].state = "IDLE"
    /\ row[s].generation = expected
    /\ actions[s][o].state = "IDLE" /\ actions[s][o].epoch = row[s].epoch
    /\ tickets' = Append(tickets, [scope |-> s, generation |-> expected,
                    epoch |-> row[s].epoch, op |-> o, expires |-> clock + ttl,
                    consumed |-> FALSE])
    /\ audit' = Audited(s, "RESERVE_BOUNDARY")
    /\ UNCHANGED <<row, actions, prepared, receipts, clock, proofs, alive>>

(* consume_boundary: a boundary spent without moving the pointer. *)
ConsumeBoundary(s, t) ==
    /\ ReadableRow(s)
    /\ TicketAdmits(s, t)
    /\ tickets' = [tickets EXCEPT ![t].consumed = TRUE]
    /\ audit' = Audited(s, "CONSUME_BOUNDARY")
    /\ UNCHANGED <<row, actions, prepared, receipts, clock, proofs, alive>>

(* save_prepared: the id is a primary key, so a record is written once. *)
SavePrepared(p, c) ==
    /\ ReadableRow(c.scope)
    /\ prepared[p] = None
    /\ prepared' = [prepared EXCEPT ![p] = c]
    /\ UNCHANGED <<row, actions, tickets, receipts, audit, clock, proofs, alive>>

(***************************************************************************)
(* What activate_prepared requires of the tables once it has found no      *)
(* earlier receipt of the operation (a receipt is replayed, or is a        *)
(* ReplayConflict, and either way nothing is written).                     *)
(***************************************************************************)
ActivationAdmitted(s, p, t) ==
    LET c == prepared[p] IN
    /\ ReadableRow(s)
    /\ c # None /\ c.scope = s
    /\ ReceiptsFor(s, c.op, "ACTIVATE") = {}
    /\ ~Expired(c.expires)
    /\ c.old = row[s].active
    /\ TicketAdmitsFor(s, t, c.op, c.request)
    /\ c.new.generation = row[s].generation + 1

(* _commit_activation: pointer, ticket, receipt and audit in one commit. *)
CommitActivation(s, p, t) ==
    LET c == prepared[p] IN
    /\ row' = [row EXCEPT ![s] = [@ EXCEPT !.active = c.new, !.generation = c.new.generation]]
    /\ tickets' = [tickets EXCEPT ![t].consumed = TRUE]
    /\ receipts' = Append(receipts, [kind |-> "ACTIVATE", scope |-> s, op |-> c.op,
                     request |-> c.request, prepared |-> p, source |-> 0, ticket |-> t,
                     old |-> row[s].active, new |-> c.new,
                     before |-> row[s].generation, after |-> c.new.generation])
    /\ audit' = Audited(s, "ACTIVATE")
    /\ UNCHANGED <<actions, prepared, clock, proofs, alive>>

(* activate_prepared; whether the activation validator agrees is the        *)
(* caller's choice here and is modelled in SwapController.                  *)
ActivatePrepared(s, p, t) ==
    /\ ActivationAdmitted(s, p, t)
    /\ CommitActivation(s, p, t)

(* What rollback_receipt requires, when the operation was not rolled back. *)
RollbackAdmitted(s, i, t) ==
    LET src == receipts[i] IN
    /\ ReadableRow(s)
    /\ src.scope = s /\ src.kind = "ACTIVATE"
    /\ ReceiptsFor(s, src.op, "ROLLBACK") = {}
    /\ row[s].generation = src.after
    /\ row[s].active = src.new
    /\ TicketAdmitsFor(s, t, src.op, src.request)

(* The restored binding and what every rollback writes with it. *)
RestoreTo(s, i, t, restored) ==
    LET src == receipts[i] IN
    /\ row' = [row EXCEPT ![s] = [@ EXCEPT !.active = restored,
                                           !.generation = restored.generation]]
    /\ tickets' = [tickets EXCEPT ![t].consumed = TRUE]
    /\ receipts' = Append(receipts, [kind |-> "ROLLBACK", scope |-> s, op |-> src.op,
                     request |-> src.request, prepared |-> None, source |-> i, ticket |-> t,
                     old |-> row[s].active, new |-> restored,
                     before |-> row[s].generation, after |-> restored.generation])
    /\ audit' = Audited(s, "ROLLBACK")
    /\ UNCHANGED <<actions, prepared, clock, proofs, alive>>

(* Mutant: the old binding returns under its old generation. *)
CommitRollbackReusesGeneration(s, i, t) == RestoreTo(s, i, t, receipts[i].old)

(* Mutant: the binding that is already active is restored. *)
CommitRollbackKeepsNew(s, i, t) ==
    RestoreTo(s, i, t, [receipts[i].new EXCEPT !.generation = row[s].generation + 1])

CommitRollback(s, i, t) ==
    RestoreTo(s, i, t, [receipts[i].old EXCEPT !.generation = row[s].generation + 1])

(* rollback_receipt: the old binding under a new generation. *)
RollbackReceipt(s, i, t) ==
    /\ RollbackAdmitted(s, i, t)
    /\ CommitRollback(s, i, t)

(* External: a process ends, and time passes. *)
ProcessEnds(s, o) ==
    /\ <<s, o>> \in alive
    /\ alive' = alive \ {<<s, o>>}
    /\ UNCHANGED <<dbVars, clock, proofs>>

Tick ==
    /\ clock < MaxClock
    /\ clock' = clock + 1
    /\ UNCHANGED <<dbVars, proofs, alive>>

SessionStep(s) ==
    \/ \E c \in Caps : Initialize(s, c)
    \/ \E o \in Ops, q \in Requests : BeginAction(s, o, q)
    \/ \E o \in Ops, q \in Requests, uncertain \in BOOLEAN, outcome \in Outcomes :
         EndAction(s, o, q, row[s].epoch, uncertain, outcome)
    \/ \E o \in Ops : IssueReconciliation(s, o)
    \/ \E proof \in proofs : Reconcile(s, proof)
    \/ \E o \in Ops, ttl \in 1..MaxTTL : ReserveBoundary(s, o, row[s].generation, ttl)
    \/ \E t \in DOMAIN tickets : ConsumeBoundary(s, t)
    \/ \E o \in Ops : ProcessEnds(s, o)

PointerStep(s) ==
    \/ \E p \in PreparedIds, t \in DOMAIN tickets : ActivatePrepared(s, p, t)
    \/ \E i \in DOMAIN receipts, t \in DOMAIN tickets : RollbackReceipt(s, i, t)

Next ==
    \/ \E s \in Scopes : SessionStep(s) \/ PointerStep(s)
    \/ \E p \in PreparedIds, c \in Candidates : SavePrepared(p, c)
    \/ Tick

Spec == Init /\ [][Next]_vars

-----------------------------------------------------------------------------
(* Properties *)

(* Every table holds what its schema and its pydantic model allow. *)
TypeOK ==
    /\ row \in [Scopes -> Row]
    /\ actions \in [Scopes -> [Ops -> ActionRecord]]
    /\ tickets \in Seq(Ticket)
    /\ prepared \in [PreparedIds -> Candidates \cup {None}]
    /\ receipts \in Seq(Receipt)
    /\ audit \in [Scopes -> [AuditKinds -> Nat]]
    /\ clock \in Nat
    /\ proofs \subseteq Proof
    /\ alive \subseteq Scopes \X Ops

(***************************************************************************)
(* _row refuses a scope whose row disagrees with itself or with the action *)
(* table, and every method starts with _row: one inconsistent commit would *)
(* lock the scope for ever.  No sequence of begin, end, reconcile,         *)
(* activate and rollback leaves such a state behind.                       *)
(***************************************************************************)
RowAlwaysVerifies == \A s \in Scopes : Initialized(s) => RowVerifies(s)

Moves(s) == { i \in DOMAIN receipts : receipts[i].scope = s }

ChainAt(s) ==
    /\ \A i \in Moves(s) :
         /\ receipts[i].after = receipts[i].before + 1
         /\ receipts[i].after <= row[s].generation
         /\ receipts[i].after = row[s].generation => receipts[i].new = row[s].active
    /\ \A i, j \in Moves(s) : receipts[i].after = receipts[j].after => i = j
    /\ \A i, j \in Moves(s) :
         receipts[i].before = receipts[j].after => receipts[i].old = receipts[j].new
    /\ \A g \in 1..row[s].generation : \E i \in Moves(s) : receipts[i].after = g

(***************************************************************************)
(* The receipts of a scope are its complete pointer history: one receipt   *)
(* for every generation ever reached, each starting from the binding the   *)
(* one before it installed, and the last one's binding is the active one.  *)
(* _commit_activation and rollback_receipt can neither skip a generation,  *)
(* reuse one after a rollback, nor move the pointer from a binding that is *)
(* no longer active.                                                       *)
(***************************************************************************)
ReceiptsChain == \A s \in Scopes : ChainAt(s)

(***************************************************************************)
(* A receipt agrees with everything it was authorised by, whichever scope, *)
(* operation or request the caller mixed up: a ticket of the same scope    *)
(* and operation, spent on this receipt only and reserved at the           *)
(* generation it moved, the request the operation began with, and for an   *)
(* activation the stored preparation it names.  A rollback undoes the      *)
(* activation in force: it starts where its source ended, restores what    *)
(* its source replaced, and no action began on the new binding in between  *)
(* (both boundaries were reserved in one action epoch).                    *)
(***************************************************************************)
ReceiptsAreBound ==
    \A i \in DOMAIN receipts :
      LET r == receipts[i]
          k == tickets[r.ticket] IN
      /\ r.ticket \in DOMAIN tickets
      /\ \A j \in DOMAIN receipts : receipts[j].ticket = r.ticket => i = j
      /\ k.consumed /\ k.scope = r.scope /\ k.op = r.op /\ k.generation = r.before
      /\ actions[r.scope][r.op].request = r.request
      /\ actions[r.scope][r.op].epoch = k.epoch
      /\ r.kind = "ACTIVATE" =>
           LET c == prepared[r.prepared] IN
           /\ c # None /\ c.scope = r.scope /\ c.op = r.op /\ c.request = r.request
           /\ c.old = r.old /\ c.new = r.new
      /\ r.kind = "ROLLBACK" =>
           LET src == receipts[r.source] IN
           /\ r.source \in 1 .. (i - 1)
           /\ src.kind = "ACTIVATE" /\ src.scope = r.scope
           /\ r.before = src.after /\ r.new.cap = src.old.cap
           /\ k.epoch = tickets[src.ticket].epoch

(***************************************************************************)
(* The pointer of an initialised scope never moves while a process started *)
(* by one of its actions may still be running: a lost process leaves the   *)
(* session UNCERTAIN, and only termination evidence reopens the boundary.  *)
(***************************************************************************)
NoSwapUnderLiveProcess ==
    [][\A s \in Scopes :
         Initialized(s) /\ row'[s].active # row[s].active
           => \A o \in Ops : <<s, o>> \notin alive]_vars

=============================================================================
