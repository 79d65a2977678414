---------------------------- MODULE CapsuleGraph ----------------------------
(***************************************************************************)
(* The graph of resolve/graph.py, assembled from the admitted capsules.    *)
(*                                                                         *)
(* items maps an admitted capsule to its admitted atoms.  lib is what the  *)
(* capsules publish: the atoms of each capsule, its id, what it requires   *)
(* and conflicts with, its lock, the requirements of atoms and the edges   *)
(* of its dependency graph.  A version constraint or an interface family   *)
(* is the set of the capsules that satisfy it.                             *)
(***************************************************************************)
EXTENDS Naturals, FiniteSets

CONSTANTS
    Capsules,
    Atoms,
    Ids       \* the ids of capsules, and names that no capsule has

AtomNode(a) == <<"atom", a>>
Presence(c) == <<"presence", c>>
Unit(c)     == <<"unit", c>>

(* A name that no admitted capsule has is a node like that of an atom: the *)
(* closure reaches it, and finds it missing.                               *)
GraphNodes == { AtomNode(a) : a \in Atoms \cup Ids } \cup { Presence(c) : c \in Capsules }
                \cup { Unit(c) : c \in Capsules }

AdmittedAtoms(items) == UNION { items[c] : c \in DOMAIN items }
Owners(items, a)  == { c \in DOMAIN items : a \in items[c] }

(* A capsule provides for others only when every atom of it is admitted. *)
Complete(lib, items) ==
    { c \in DOMAIN items : lib.content[c] # {} /\ lib.content[c] \subseteq items[c] }

(* Two owners publish one atom with different bytes. *)
InventoryErrors(lib, items) ==
    { "DUPLICATE_ATOM" : a \in { b \in lib.variants : Cardinality(Owners(items, b)) > 1 } }

UniqueErrors(candidates, missing) ==
    CASE candidates = {}              -> {missing}
      [] Cardinality(candidates) > 1  -> {"AMBIGUOUS_PROVIDER"}
      [] OTHER                        -> {}

-----------------------------------------------------------------------------
(* What the task asks for: interfaces, each the set of capsules that       *)
(* provide it, and atoms.                                                  *)
RootProviders(lib, items, interface) == interface \cap Complete(lib, items)

Roots(lib, items) ==
    UNION { lib.content[c] :
              c \in UNION { RootProviders(lib, items, i) : i \in lib.interfaces } }

RootErrors(lib, items) ==
    LET unprovided == UNION { UniqueErrors(RootProviders(lib, items, i), "MISSING_INTERFACE")
                                : i \in lib.interfaces }
    IN  IF unprovided # {} THEN unprovided
        ELSE { "MISSING_ATOM" : a \in lib.required \ AdmittedAtoms(items) }

-----------------------------------------------------------------------------
(* Between capsules: the unique complete and locked provider of each       *)
(* requirement, declared conflicts, and two versions of one capsule.       *)
Locked(lib, consumer, provider) == provider \in lib.locks[consumer]

Providers(lib, items, consumer, declaration) ==
    { c \in declaration \cap Complete(lib, items) : Locked(lib, consumer, c) }

ManifestErrors(lib, items) ==
    UNION { UNION { UniqueErrors(Providers(lib, items, c, d), "MISSING_DEPENDENCY")
                      : d \in lib.requires[c] } : c \in DOMAIN items }

ManifestEdges(lib, items) ==
    UNION { { <<Presence(c), Unit(p)>> : p \in UNION { Providers(lib, items, c, d)
                                                         : d \in lib.requires[c] } }
              : c \in DOMAIN items }

ManifestConflicts(lib, items) ==
    UNION { { <<Presence(c), Presence(p)>> : p \in
                { q \in DOMAIN items :
                    q \in lib.conflicts[c] \/ (q # c /\ lib.id[q] = lib.id[c]) } }
              : c \in DOMAIN items }

-----------------------------------------------------------------------------
(* Between atoms: requires_atoms and conflicts_with.  A requirement on     *)
(* another capsule's atom needs that capsule in the lock of every owner.   *)
NeedErrors(lib, items) ==
    { "MISSING_DEPENDENCY" : a \in
        { b \in AdmittedAtoms(items) :
            \E t \in lib.needs[b] : \E c \in Owners(items, b), p \in Owners(items, t) :
                c # p /\ ~Locked(lib, c, p) } }

NeedEdges(lib, items) ==
    UNION { { <<AtomNode(a), AtomNode(t)>> : t \in lib.needs[a] }
              : a \in AdmittedAtoms(items) }

ClashConflicts(lib, items) ==
    UNION { { <<AtomNode(a), AtomNode(t)>> : t \in lib.clashes[a] }
              : a \in AdmittedAtoms(items) }

-----------------------------------------------------------------------------
(* The edges a capsule declares in its dependency graph: from itself or    *)
(* one of its atoms, to an atom or to a capsule id, with the capsules that *)
(* satisfy the version constraint.  A mandatory requirement on a capsule   *)
(* takes its unique complete, matching and locked version as a unit.       *)
Sources(items, c, e) ==
    CASE e.from = c          -> {Presence(c)}
      [] e.from \in items[c] -> {AtomNode(e.from)}
      [] OTHER               -> {}

TargetCapsules(lib, items, e) == { c \in DOMAIN items : lib.id[c] = e.to }

UnitProviders(lib, items, c, e) ==
    { p \in TargetCapsules(lib, items, e) \cap Complete(lib, items) \cap e.versions :
        p = c \/ Locked(lib, c, p) }

EdgeErrors(lib, items, c, e) ==
    IF Sources(items, c, e) = {} \/ e.type # "requires" THEN {}
    ELSE IF TargetCapsules(lib, items, e) # {}
         THEN UniqueErrors(UnitProviders(lib, items, c, e), "MISSING_DEPENDENCY")
         ELSE { "MISSING_DEPENDENCY" : p \in
                  { q \in Owners(items, e.to) :
                      q \notin e.versions \/ (q # c /\ ~Locked(lib, c, q)) } }

EdgeTargets(lib, items, c, e) ==
    IF TargetCapsules(lib, items, e) = {} THEN {AtomNode(e.to)}
    ELSE { Unit(p) : p \in UnitProviders(lib, items, c, e) }

(* A conflict holds between any version the constraint names. *)
EdgeOpponents(lib, items, e) ==
    IF TargetCapsules(lib, items, e) # {}
    THEN { Presence(p) : p \in TargetCapsules(lib, items, e) \cap e.versions }
    ELSE { AtomNode(e.to) : p \in Owners(items, e.to) \cap e.versions }

Declared(lib, items, type) ==
    { q \in (DOMAIN items) \X (UNION { lib.edges[c] : c \in DOMAIN items }) :
        q[2] \in lib.edges[q[1]] /\ q[2].type = type }

ExplicitErrors(lib, items) ==
    UNION { EdgeErrors(lib, items, q[1], q[2]) : q \in Declared(lib, items, "requires") }

ExplicitEdges(lib, items) ==
    UNION { Sources(items, q[1], q[2]) \X EdgeTargets(lib, items, q[1], q[2])
              : q \in Declared(lib, items, "requires") }

ExplicitConflicts(lib, items) ==
    UNION { Sources(items, q[1], q[2]) \X EdgeOpponents(lib, items, q[2])
              : q \in Declared(lib, items, "conflicts") }

-----------------------------------------------------------------------------
(* An atom brings the presence of its owners, the unit of a capsule all of *)
(* its admitted atoms.                                                     *)
OwnerEdges(items) ==
    UNION { { <<AtomNode(a), Presence(c)>> : a \in items[c] }
              \cup { <<Unit(c), AtomNode(a)>> : a \in items[c] } : c \in DOMAIN items }

RequiresEdges(lib, items) ==
    OwnerEdges(items) \cup ManifestEdges(lib, items) \cup NeedEdges(lib, items)
      \cup ExplicitEdges(lib, items)

ConflictEdges(lib, items) ==
    ManifestConflicts(lib, items) \cup ClashConflicts(lib, items)
      \cup ExplicitConflicts(lib, items)

(* The errors of the first part of the assembly that has one. *)
GraphErrors(lib, items) ==
    CASE InventoryErrors(lib, items) # {} -> InventoryErrors(lib, items)
      [] RootErrors(lib, items) # {}      -> RootErrors(lib, items)
      [] ManifestErrors(lib, items) # {}  -> ManifestErrors(lib, items)
      [] NeedErrors(lib, items) # {}      -> NeedErrors(lib, items)
      [] OTHER                            -> ExplicitErrors(lib, items)

Conflicts(lib, items, nodes) ==
    { e \in ConflictEdges(lib, items) : e[1] \in nodes /\ e[2] \in nodes }
=============================================================================
