---------------------------- MODULE SwapPointer ----------------------------
(***************************************************************************)
(* What the runtime store promises of the active pointer, and nothing of   *)
(* how: no tickets, epochs, action states or expiry.  A scope is placed    *)
(* once; after that an operation may replace the capsule once, and the     *)
(* only way back is to undo the replacement that is still in force.  Every *)
(* move takes the next generation, so a generation names one binding.      *)
(***************************************************************************)
EXTENDS Naturals

CONSTANTS Scopes, Ops, Caps, None

VARIABLES
    pointer,  \* per scope: the active capsule and its generation
    applied,  \* per scope: the operations that have replaced the capsule
    undo      \* per scope: what the replacement in force can be undone to

pointerVars == <<pointer, applied, undo>>

PointerInit ==
    /\ pointer = [s \in Scopes |-> [cap |-> None, generation |-> 0]]
    /\ applied = [s \in Scopes |-> {}]
    /\ undo = [s \in Scopes |-> None]

Place(s, c) ==
    /\ pointer[s].cap = None
    /\ pointer' = [pointer EXCEPT ![s].cap = c]
    /\ UNCHANGED <<applied, undo>>

MoveTo(s, c) ==
    /\ pointer[s].cap # None
    /\ pointer' = [pointer EXCEPT ![s] = [cap |-> c, generation |-> @.generation + 1]]

Replace(s, o, c) ==
    /\ o \notin applied[s]
    /\ MoveTo(s, c)
    /\ applied' = [applied EXCEPT ![s] = @ \cup {o}]
    /\ undo' = [undo EXCEPT ![s] = pointer[s].cap]

Restore(s) ==
    /\ undo[s] # None
    /\ MoveTo(s, undo[s])
    /\ undo' = [undo EXCEPT ![s] = None]
    /\ UNCHANGED applied

PointerNext ==
    \E s \in Scopes :
      \/ \E c \in Caps : Place(s, c)
      \/ \E o \in Ops, c \in Caps : Replace(s, o, c)
      \/ Restore(s)

PointerSpec == PointerInit /\ [][PointerNext]_pointerVars
=============================================================================
