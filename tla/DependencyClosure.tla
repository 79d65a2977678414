------------------------- MODULE DependencyClosure -------------------------
(***************************************************************************)
(* dependency_closure (resolve/closure.py): the worklist that closes a     *)
(* selection under mandatory dependencies.  One step takes a node from     *)
(* pending and adds the targets of its edges that are not yet closed.      *)
(***************************************************************************)
CONSTANT Nodes

VARIABLES
    edges,     \* the mandatory requires edges of the graph
    seeds,     \* the argument of the call
    closed,
    pending

closureVars == <<edges, seeds, closed, pending>>

ClosureInit ==
    /\ edges \in SUBSET (Nodes \X Nodes)
    /\ seeds \in SUBSET Nodes
    /\ closed = seeds
    /\ pending = seeds

Targets(n) == { t \in Nodes : <<n, t>> \in edges }

(* Mutant: the targets are added and not followed. *)
PopOnce(n) ==
    /\ n \in pending
    /\ closed' = closed \cup Targets(n)
    /\ pending' = pending \ {n}
    /\ UNCHANGED <<edges, seeds>>

(* Mutant: a target that is closed already is followed again. *)
PopAgain(n) ==
    /\ n \in pending
    /\ closed' = closed \cup Targets(n)
    /\ pending' = (pending \ {n}) \cup Targets(n)
    /\ UNCHANGED <<edges, seeds>>

(* One turn of the loop.  The list has no order that matters. *)
Pop(n) ==
    /\ n \in pending
    /\ closed' = closed \cup Targets(n)
    /\ pending' = (pending \ {n}) \cup (Targets(n) \ closed)
    /\ UNCHANGED <<edges, seeds>>

ClosureNext == \E n \in Nodes : Pop(n)

ClosureSpec == ClosureInit /\ [][ClosureNext]_closureVars

-----------------------------------------------------------------------------
ClosureTypeOK ==
    /\ edges \subseteq Nodes \X Nodes
    /\ seeds \subseteq Nodes /\ closed \subseteq Nodes /\ pending \subseteq Nodes

IsClosed(S) == \A e \in edges : e[1] \in S => e[2] \in S

(***************************************************************************)
(* When the list is empty, closed is the least set that contains the seeds *)
(* and every mandatory dependency of its members: nothing that is required *)
(* is missing from a view, and nothing comes into it that no one requires. *)
(***************************************************************************)
ClosureIsLeast ==
    pending = {} =>
        /\ seeds \subseteq closed
        /\ IsClosed(closed)
        /\ \A S \in SUBSET closed : seeds \subseteq S /\ IsClosed(S) => S = closed
=============================================================================
