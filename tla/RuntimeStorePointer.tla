------------------------ MODULE RuntimeStorePointer ------------------------
(***************************************************************************)
(* RuntimeStore implements SwapPointer.  The pointer is the scope's active *)
(* binding, the operations applied are those with an activation receipt,   *)
(* and the replacement in force is the activation receipt that ends at the *)
(* present generation, if the last move was an activation.                 *)
(***************************************************************************)
EXTENDS RuntimeStore

InForce(s) ==
    { i \in DOMAIN receipts :
        /\ receipts[i].scope = s
        /\ receipts[i].kind = "ACTIVATE"
        /\ receipts[i].after = row[s].generation }

pointerBar == [s \in Scopes |-> row[s].active]

appliedBar == [s \in Scopes |-> { o \in Ops : ReceiptsFor(s, o, "ACTIVATE") # {} }]

undoBar ==
    [s \in Scopes |->
       IF InForce(s) = {} THEN None
       ELSE receipts[CHOOSE i \in InForce(s) : TRUE].old.cap]

Pointer == INSTANCE SwapPointer
             WITH pointer <- pointerBar, applied <- appliedBar, undo <- undoBar

(***************************************************************************)
(* Seen through its receipts, the store with its tickets, epochs, replays  *)
(* and expiry only ever places, replaces once per operation, or undoes the *)
(* replacement in force: activate_prepared and rollback_receipt keep the   *)
(* promise whatever the interleaving of the sessions' calls.               *)
(***************************************************************************)
ImplementsPointer == Pointer!PointerSpec
=============================================================================
