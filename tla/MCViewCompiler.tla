--------------------------- MODULE MCViewCompiler ---------------------------
(* A capsule, and two versions of another that it may depend on.           *)
EXTENDS ViewCompiler, TLC

CONSTANTS A, B1, B2, idA, idB, idC, a1, a2, b1, b2

MCNodes == GraphNodes

(* All pass, B2 is not authorized, and b1 is not authorized or not fresh. *)
Everything   == Capsules \X (Atoms \cup {None}) \X {Authorized, Fresh}
WithoutB2    == { q \in Everything : q[1] = B2 => q[3] = Fresh }
WithoutB     == { q \in Everything : q[2] = b1 => q[3] = Fresh }
StaleB       == { q \in Everything : q[2] = b1 => q[3] = Authorized }

MCPolicies == { Everything, WithoutB2, WithoutB, StaleB }

Nothing == [ c \in Capsules |-> {} ]
FromA(x) == [Nothing EXCEPT ![A] = x]
Edge(from, to, type, versions) ==
    [from |-> from, to |-> to, type |-> type, versions |-> versions]

Order(w, x, y, z) == (w :> 1 @@ x :> 2 @@ y :> 3 @@ z :> 4)

Base ==
    [ content |-> (A :> {a1, a2} @@ B1 :> {b1} @@ B2 :> {b2}),
      id |-> (A :> idA @@ B1 :> idB @@ B2 :> idB),
      requires |-> Nothing, conflicts |-> Nothing, locks |-> FromA({B1}), edges |-> Nothing,
      needs |-> [a \in Atoms |-> {}], clashes |-> [a \in Atoms |-> {}], variants |-> {},
      interfaces |-> {}, required |-> {}, expand |-> {}, budget |-> 3,
      class |-> [a \in Atoms |-> 2], matched |-> {a1, a2}, ranking |-> Order(a1, a2, b1, b2) ]

(* What the capsules declare about each other. *)
Graphs ==
    { [Base EXCEPT !.requires = FromA(r), !.locks = FromA(l), !.interfaces = i] :
        r \in {{}, {{B1}}, {{B1, B2}}}, l \in {{}, {B1}, {B1, B2}}, i \in {{}, {{A}}, {{B1, B2}}} }
      \cup
    { [Base EXCEPT !.edges = FromA({Edge(f, t, y, v)}), !.locks = FromA(l), !.required = q] :
        f \in {A, a1}, t \in {idA, idB, idC, b1}, y \in {"requires", "conflicts"},
        v \in {{B1}, Capsules}, l \in {{B1}, {B2}}, q \in {{}, {b1}} }
      \cup
    { [Base EXCEPT !.needs[a1] = n, !.clashes[a2] = k, !.conflicts = FromA(c), !.variants = w] :
        n \in {{}, {b1}}, k \in {{}, {b1}}, c \in {{}, {B1}}, w \in {{}, {b1}} }
      \cup
    { [Base EXCEPT !.content[B2] = {b1}, !.variants = w, !.required = {b1}] : w \in {{}, {b1}} }

(* What is selected, and what fits. *)
Selections ==
    { [Base EXCEPT !.needs[a1] = {b1}, !.class[a2] = x, !.class[b2] = y, !.budget = n,
                   !.ranking = r, !.matched = m, !.expand = e] :
        x \in 0 .. 2, y \in {1, 3}, n \in 1 .. 4,
        r \in {Order(a1, a2, b1, b2), Order(b2, a2, a1, b1)}, m \in {Atoms, {a1, b2}},
        e \in {{}, {A}} }

(* The environment changes under a few libraries; all of them run          *)
(* undisturbed.  Under a small one the policy, and only that, can change   *)
(* and change back during both resolutions.  What is replayed is a         *)
(* selection, or an expansion with changes between.                        *)
Sparse == [Base EXCEPT !.content = (A :> {a1} @@ B1 :> {b1} @@ B2 :> {}), !.matched = {a1}]

Expanding == [Base EXCEPT !.needs[a1] = {b1}, !.expand = {A}]

Replayed == [Expanding EXCEPT !.budget = 4, !.matched = Atoms]

Disturbed ==
    { Expanding, [Base EXCEPT !.requires = FromA({{B1}})],
      [Base EXCEPT !.clashes[a2] = {b1}, !.required = {a2, b1}] }

Replays == Selections \cup {Replayed}

MCLibraries == Graphs \cup Selections \cup Disturbed \cup {Sparse, Replayed}

(* The answers of the providers that a call under a library may begin with. *)
Starts(l) ==
    CASE l = Sparse                -> { [policy |-> WithoutB, verified |-> {A, B1}] }
      [] l \in Graphs \ Disturbed  -> { [policy |-> p, verified |-> Capsules] :
                                            p \in {Everything, WithoutB} }
                                       \cup { [policy |-> Everything, verified |-> {A, B1}] }
      [] OTHER                     -> { [policy |-> Everything, verified |-> Capsules] }

MCInit ==
    /\ lib \in MCLibraries
    /\ \E w \in Starts(lib) : policy = w.policy /\ verified = w.verified
    /\ readable \in IF lib = Sparse THEN {Capsules, Capsules \ {A}} ELSE {Capsules}
    /\ changes = CASE lib = Sparse                        -> 0
                   [] lib \in Disturbed \cup {Replayed} -> MaxChanges - 2
                   [] OTHER                               -> MaxChanges
    /\ Init

(* A change commutes with the questions that it does not bear upon. *)
ChangesAnswer ==
    s.pc = "admit" /\ s.todo # {} => Passes(World, Question) # Passes(World', Question)

ManyChange ==
    \/ PolicyChanges /\ ChangesAnswer
    \/ RegistryChanges /\ ChangesAnswer
    \/ SourceChanges \/ ServiceChanges \/ WriterLocks

MCNext ==
    \/ views = <<>> /\ Call(None)
    \/ /\ lib \in Replays
       /\ \E i \in 1 .. Len(views) : views[i].valid /\ Call(views[i].manifest)
    \/ Steps
    \/ lib = Sparse /\ PolicyChanges /\ ChangesAnswer /\ policy' \in {WithoutB, StaleB}
    \/ lib # Sparse /\ ManyChange
    \/ WriterUnlocks
    \/ Rest
    \/ lib \notin Replays /\ s.pc = "idle" /\ views # <<>> /\ UNCHANGED vars

MCSpec == MCInit /\ [][MCNext]_vars /\ WF_vars(Steps) /\ WF_vars(WriterUnlocks)
=============================================================================
