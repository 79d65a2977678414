---------------------------- MODULE ViewCompiler ----------------------------
(***************************************************************************)
(* compile_view (compile/session.py) and what it calls: the admission of   *)
(* resolve/eligibility.py, the graph of resolve/graph.py, the sources of   *)
(* compile/evidence.py, the closure of resolve/closure.py and the manifest *)
(* of compile/manifest.py.                                                 *)
(*                                                                         *)
(* Policy, registry, source bytes and services belong to others and change *)
(* while a compilation runs; it sees a change only where it looks, and     *)
(* waits where a put_blob holds the lock of the evidence.  An atom and an  *)
(* expanded source count one token each, and one evidence record supports  *)
(* all the atoms of a capsule.                                             *)
(***************************************************************************)
EXTENDS CapsuleGraph, DependencyClosure, Sequences

CONSTANTS
    Libraries,   \* what may be published and asked for, see CapsuleGraph
    Policies,    \* each the questions (below) that authorizer and freshness checker pass
    None,
    MaxChanges,  \* bound: changes of the environment
    MaxCalls     \* bound: calls of compile_view

ASSUME NodesAssumption ==
    /\ Nodes = GraphNodes
    /\ IsFiniteSet(Atoms) /\ IsFiniteSet(Ids) /\ IsFiniteSet(Capsules)

(* Names in a library are of things that exist or may exist.               *)
ASSUME LibrariesAreLibraries ==
    \A l \in Libraries :
        /\ l.content \in [Capsules -> SUBSET Atoms]
        /\ l.needs \in [Atoms -> SUBSET Atoms]
        /\ \A c \in Capsules : \A e \in l.edges[c] : e.to \in Atoms \cup Ids
        /\ l.required \subseteq Atoms /\ l.matched \subseteq Atoms
        /\ IsFiniteSet(l.expand) /\ l.budget \in Nat

(* A class is a number, and so is a place in the ranker's order, which has *)
(* one atom.                                                               *)
ASSUME RanksAreNumbers ==
    \A l \in Libraries :
        /\ l.class \in [Atoms -> Nat] /\ l.ranking \in [Atoms -> Nat]
        /\ \A a, b \in Atoms : l.ranking[a] = l.ranking[b] => a = b

ASSUME PoliciesArePolicies ==
    None \notin Policies \cup Atoms

VARIABLES
    lib,
    policy,      \* a member of Policies, or None when the providers fail
    verified,    \* the capsules that registry.get returns: its own policy lets the
                 \* principal read them, and row and CAS evidence are intact
    busy,        \* a put_blob holds the lock of a digest that registry.get reads
    readable,    \* the capsules whose source has the recorded bytes
    services,    \* the version of the ranker, tokenizer, renderer and resolver
    changes,
    s,           \* the session (Compilation), where it stands and, for the properties
                 \* only, the worlds during its last resolution
    views        \* what the calls returned

environment == <<lib, policy, verified, busy, readable, services, changes>>
vars == <<environment, s, views, closureVars>>

EmptyMap == [ c \in {} |-> {} ]

Idle ==
    [ pc |-> "idle", phase |-> "admission", before |-> None, todo |-> {}, passed |-> {},
      during |-> {}, admission |-> None, stamp |-> None, expected |-> None,
      round |-> "none", selected |-> {}, reasons |-> EmptyMap, item |-> None, code |-> "" ]

Init ==
    /\ lib \in Libraries
    /\ policy \in Policies
    /\ verified \in SUBSET Capsules
    /\ busy = FALSE
    /\ readable \in SUBSET Capsules
    /\ services = 0
    /\ changes \in 0 .. MaxChanges
    /\ s = Idle
    /\ views = <<>>
    /\ edges = {} /\ seeds = {} /\ closed = {} /\ pending = {}

Go(next) == s' = next /\ UNCHANGED <<environment, views, closureVars>>

-----------------------------------------------------------------------------
(* The graph of the admission, and the part of a closure that is atoms.    *)
Items      == s.admission.items
Available  == AdmittedAtoms(Items)
RootAtoms  == Roots(lib, Items)
AtomsIn(nodes)   == { a \in Atoms : AtomNode(a) \in nodes }
NodesOf(atoms)   == { AtomNode(a) : a \in atoms }
MarkersOf(items) == { Presence(c) : c \in DOMAIN items } \cup { Unit(c) : c \in DOMAIN items }
Missing(nodes)   == nodes \ (NodesOf(Available) \cup MarkersOf(Items))
Tokens(atoms, expanded) == Cardinality(atoms) + Cardinality(expanded)
Pairs == { p \in Atoms \X Capsules : p[2] \in DOMAIN Items /\ p[1] \in Items[p[2]] }

Redacting == { "INVALID_POLICY_SNAPSHOT", "POLICY_SNAPSHOT_CHANGED", "EVIDENCE_UNAUTHORIZED" }

(* What a caller learns: the atoms and their owners, unless withheld.  The  *)
(* admission, the services and the policies seen are for the properties.   *)
Result(valid, code, redact, graph, session) ==
    [ valid |-> valid, code |-> code, expected |-> session.expected,
      admission |-> session.admission, services |-> session.stamp,
      during |-> session.during,
      disclosed |-> IF redact \/ ~graph THEN {} ELSE Pairs,
      manifest |-> IF redact \/ ~graph THEN None
                   ELSE [ selected |-> session.selected, reasons |-> session.reasons,
                          permission |-> session.admission.policy,
                          rejected |-> session.admission.rejected,
                          services |-> session.stamp,
                          expanded |-> IF valid THEN lib.expand ELSE {} ] ]

Return(view) ==
    /\ views' = Append(views, view)
    /\ s' = Idle
    /\ UNCHANGED <<environment, closureVars>>

HasGraph(session) == session.round # "none"

(* failure: some codes withhold the manifest, the others resolve the       *)
(* admission again before they export it.                                  *)
Fail(session, code) ==
    IF code \in Redacting \/ session.admission = None
    THEN Return(Result(FALSE, code, code \in Redacting, FALSE, session))
    ELSE Go([session EXCEPT !.pc = "snapshot", !.phase = "recheck", !.code = code])

-----------------------------------------------------------------------------
(* resolve: a snapshot of the policy, the questions about each capsule and *)
(* its atoms, and the snapshot again.  A question is <<capsule, atom or    *)
(* None, check>>: _verified asks the registry for the capsule, the gates   *)
(* ask the authorizer and the freshness checker for the capsule and then   *)
(* for each of its atoms.                                                  *)
Verified   == 1
Authorized == 2
Fresh      == 3

AboutCapsule(c) == { <<c, None, k>> : k \in {Verified, Authorized, Fresh} }
AboutAtom(c, a) == { <<c, a, k>> : k \in {Authorized, Fresh} }

Questions ==
    UNION { AboutCapsule(c) \cup UNION { AboutAtom(c, a) : a \in lib.content[c] } :
              c \in Capsules }

Earlier(r, q) == r[1] = q[1] /\ IF r[2] = q[2] THEN r[3] < q[3] ELSE r[2] = None

World == [policy |-> policy, verified |-> verified]

(* The checks that do not depend on the world have been passed before. *)
Passes(w, q) ==
    IF q[3] = Verified THEN q[1] \in w.verified ELSE w.policy # None /\ q \in w.policy

(* What resolve returns: the items, and for each check the rejections. *)
Admitted(passed) ==
    [ c \in { x \in Capsules : AboutCapsule(x) \subseteq passed } |->
        { a \in lib.content[c] : AboutAtom(c, a) \subseteq passed } ]

Rejected(passed) ==
    [ k \in {Verified, Authorized, Fresh} |->
        Cardinality({ q \in Questions \ passed :
            q[3] = k /\ \A r \in Questions : Earlier(r, q) => r \in passed }) ]

Resolution ==
    [items |-> Admitted(s.passed), rejected |-> Rejected(s.passed), policy |-> s.before]

Snapshot ==
    /\ s.pc = "snapshot"
    /\ IF policy # None
       THEN Go([s EXCEPT !.pc = "admit", !.before = policy, !.during = {World},
                         !.todo = Questions, !.passed = {}])
       ELSE IF s.phase = "recheck"
            THEN Return(Result(FALSE, s.code, TRUE, HasGraph(s), s))
            ELSE Fail(s, "INVALID_POLICY_SNAPSHOT")

(* One capsule after the other; which comes first makes no difference. *)
Question ==
    LET c == CHOOSE x \in { q[1] : q \in s.todo } : TRUE
    IN  CHOOSE q \in s.todo : q[1] = c /\ \A r \in s.todo : ~Earlier(r, q)

(* The next question; after a no, those that depend on it are not asked.   *)
Admit ==
    /\ s.pc = "admit" /\ s.todo # {}
    /\ Question[3] = Verified => ~busy
    /\ IF Passes(World, Question)
       THEN Go([s EXCEPT !.todo = @ \ {Question}, !.passed = @ \cup {Question}])
       ELSE Go([s EXCEPT !.todo = { r \in @ : r # Question /\ ~Earlier(Question, r) }])

(* _result of a valid view, and the comparison with the expected manifest. *)
Deliver ==
    LET view == Result(TRUE, "", FALSE, TRUE, s)
    IN  IF s.expected # None /\ view.manifest # s.expected
        THEN Fail(s, "REPLAY_MISMATCH")
        ELSE Return(view)

(* Mutant: before a failure is exported, only the snapshots are compared. *)
ResolvedLoosely ==
    /\ s.pc = "admit" /\ s.todo = {}
    /\ CASE s.phase = "recheck" ->
              Return(Result(FALSE, s.code, policy # s.before, HasGraph(s), s))
         [] s.phase # "recheck" /\ policy # s.before -> Fail(s, "POLICY_SNAPSHOT_CHANGED")
         [] s.phase = "admission" /\ policy = s.before ->
              Go([s EXCEPT !.pc = "graph", !.admission = Resolution, !.round = "none"])
         [] s.phase = "final" /\ policy = s.before ->
              IF Resolution = s.admission THEN Deliver
              ELSE Fail(s, "POLICY_SNAPSHOT_CHANGED")

(* The end of a resolution.  The result is made of local state, so the     *)
(* last snapshot and the return are one step.                              *)
Resolved ==
    /\ s.pc = "admit" /\ s.todo = {}
    /\ CASE s.phase = "recheck" ->
              Return(Result(FALSE, s.code, policy # s.before \/ Resolution # s.admission,
                            HasGraph(s), s))
         [] s.phase # "recheck" /\ policy # s.before -> Fail(s, "POLICY_SNAPSHOT_CHANGED")
         [] s.phase = "admission" /\ policy = s.before ->
              Go([s EXCEPT !.pc = "graph", !.admission = Resolution, !.round = "none"])
         [] s.phase = "final" /\ policy = s.before ->
              IF Resolution = s.admission THEN Deliver
              ELSE Fail(s, "POLICY_SNAPSHOT_CHANGED")

-----------------------------------------------------------------------------
(* The call up to the ranking.                                             *)
Call(expected) ==
    /\ s.pc = "idle" /\ Len(views) < MaxCalls
    /\ Go([Idle EXCEPT !.pc = "snapshot", !.stamp = services, !.expected = expected])

Assemble ==
    /\ s.pc = "graph"
    /\ IF GraphErrors(lib, Items) # {}
       THEN \E code \in GraphErrors(lib, Items) : Fail(s, code)
       ELSE /\ s' = [s EXCEPT !.pc = "sources", !.todo = Pairs, !.round = "first"]
            /\ edges' = RequiresEdges(lib, Items)
            /\ seeds' = {} /\ closed' = {} /\ pending' = {}
            /\ UNCHANGED <<environment, views>>

(* What the providers of a world admit, if nothing changes. *)
Under(w) == Admitted({ q \in Questions : Passes(w, q) })

(* resolve of compile/evidence.py for one atom and one owner: the capsule  *)
(* is admitted again, the bytes have the recorded digest, and the record   *)
(* names the atoms that the graph has.                                     *)
SourceErrors(a, c) ==
    LET now == Under(World)
    IN  CASE policy = None -> {"EVIDENCE_UNAVAILABLE", "INVALID_POLICY_SNAPSHOT"}
          [] policy # None /\ ~(c \in DOMAIN now /\ a \in now[c]) -> {"EVIDENCE_UNAUTHORIZED"}
          [] policy # None /\ c \in DOMAIN now /\ a \in now[c] ->
                CASE c \notin readable  -> {"EVIDENCE_INTEGRITY", "EVIDENCE_UNAVAILABLE"}
                  [] now[c] # Items[c] -> {"EVIDENCE_INTEGRITY"}
                  [] OTHER -> {}

(* Policy and registry may change, and change back, during such a read:    *)
(* each question of it has then the answer of a moment of its own.         *)
Wavers == changes < MaxChanges

WaveringErrors ==
    { "POLICY_SNAPSHOT_CHANGED", "INVALID_POLICY_SNAPSHOT", "EVIDENCE_UNAUTHORIZED",
      "EVIDENCE_INTEGRITY", "EVIDENCE_UNAVAILABLE" }

ReadSource ==
    /\ s.pc = "sources" /\ s.todo # {} /\ ~busy
    /\ LET p == CHOOSE x \in s.todo : TRUE
       IN  \/ /\ SourceErrors(p[1], p[2]) = {} \/ (Wavers /\ p[2] \in readable)
              /\ Go([s EXCEPT !.todo = @ \ {p}])
           \/ \E code \in SourceErrors(p[1], p[2]) : Fail(s, code)
           \/ Wavers /\ \E code \in WaveringErrors : Fail(s, code)

(* close_atoms starts the worklist; what follows is in Closed. *)
Close(session, atoms) ==
    /\ s' = [session EXCEPT !.pc = "close"]
    /\ seeds' = NodesOf(atoms) /\ closed' = NodesOf(atoms) /\ pending' = NodesOf(atoms)
    /\ UNCHANGED <<environment, views, edges>>

SourcesRead ==
    /\ s.pc = "sources" /\ s.todo = {}
    /\ \/ s.round = "first"
          /\ Close([s EXCEPT !.round = "check"], RootAtoms \cup lib.required)
       \/ s.round = "last" /\ services # s.stamp /\ Fail(s, "SERVICE_SNAPSHOT_CHANGED")
       \/ s.round = "last" /\ services = s.stamp
          /\ Go([s EXCEPT !.pc = "snapshot", !.phase = "final"])

Work ==
    /\ s.pc = "close"
    /\ ClosureNext
    /\ UNCHANGED <<environment, s, views>>

-----------------------------------------------------------------------------
(* _select: mandatory classes first, then the rest in the ranker's order.  *)
P0 == { a \in Available : lib.class[a] = 0 }
P1 == { a \in Available : lib.class[a] = 1 /\ a \in lib.matched }

(* Stable sorting: the classes in order, the ranker's order within each. *)
Precedes(a, b) ==
    \/ lib.class[a] < lib.class[b]
    \/ lib.class[a] = lib.class[b] /\ lib.ranking[a] < lib.ranking[b]

TaskRequired == P1 \cup lib.required \cup RootAtoms

Reasons(session, seedAtoms, reason, atoms) ==
    [ a \in DOMAIN session.reasons |->
        IF a \in atoms \ session.selected
        THEN IF a \in seedAtoms THEN reason ELSE "DEPENDENCY_REQUIRED"
        ELSE session.reasons[a] ]

(* What the loop has not passed: every atom before it is selected, does    *)
(* not match, or is marked.                                                *)
Candidates(session) ==
    { a \in (Available \cap lib.matched) \ session.selected :
        session.reasons[a] # "BUDGET_EXCLUDED" }

TryCandidate(session, a) ==
    Close([session EXCEPT !.item = a, !.round = "rest"], session.selected \cup {a})

(* Mutant: the candidates are taken as a set, in any order. *)
NextCandidateAny(session) ==
    IF Candidates(session) = {} THEN Go([session EXCEPT !.pc = "expand"])
    ELSE \E a \in Candidates(session) : TryCandidate(session, a)

NextCandidate(session) ==
    IF Candidates(session) = {} THEN Go([session EXCEPT !.pc = "expand"])
    ELSE \E a \in Candidates(session) :
            /\ \A b \in Candidates(session) \ {a} : Precedes(a, b)
            /\ TryCandidate(session, a)

Rank ==
    /\ s.round = "check"
    /\ \/ Close([s EXCEPT !.round = "P0", !.reasons = [a \in Available |-> "NOT_RELEVANT"]], P0)
       \/ changes < MaxChanges /\ Fail(s, "RANKING_FAILED")

(* _mandatory, for the class P0 and for what the task requires: the         *)
(* closure is taken whole, or the compilation fails.                        *)
Chosen(seedAtoms, reason) ==
    [s EXCEPT !.selected = AtomsIn(closed),
              !.reasons = Reasons(s, seedAtoms, reason, AtomsIn(closed))]

MandatoryFails(seedAtoms, reason, overflow) ==
    \/ Conflicts(lib, Items, closed) # {} /\ Fail(s, "CONFLICT")
    \/ /\ Conflicts(lib, Items, closed) = {}
       /\ Tokens(AtomsIn(closed), {}) > lib.budget
       /\ Fail(Chosen(seedAtoms, reason), overflow)

MandatoryFits == Conflicts(lib, Items, closed) = {} /\ Tokens(AtomsIn(closed), {}) <= lib.budget

(* Mutant: the second mandatory closure starts from its own seeds. *)
CloseTaskAlone(session) == Close([session EXCEPT !.round = "P1"], TaskRequired)

CloseTask(session) == Close([session EXCEPT !.round = "P1"], session.selected \cup TaskRequired)

(* Mutant: the first candidate that does not fit ends the selection. *)
RelevantStops ==
    LET atoms == AtomsIn(closed)
        a     == s.item
    IN  CASE Conflicts(lib, Items, closed) # {} -> Fail(s, "CONFLICT")
          [] Conflicts(lib, Items, closed) = {} /\ Tokens(atoms, {}) > lib.budget ->
                Go([s EXCEPT !.reasons[a] = "BUDGET_EXCLUDED", !.pc = "expand"])
          [] OTHER ->
                NextCandidate([s EXCEPT !.selected = atoms,
                                        !.reasons = Reasons(s, {a}, "RELEVANT", atoms)])

(* One candidate of the rest: it and what it requires, if they fit. *)
Relevant ==
    LET atoms == AtomsIn(closed)
        a     == s.item
    IN  CASE Conflicts(lib, Items, closed) # {} -> Fail(s, "CONFLICT")
          [] Conflicts(lib, Items, closed) = {} /\ Tokens(atoms, {}) > lib.budget ->
                NextCandidate([s EXCEPT !.reasons[a] = "BUDGET_EXCLUDED"])
          [] OTHER ->
                NextCandidate([s EXCEPT !.selected = atoms,
                                        !.reasons = Reasons(s, {a}, "RELEVANT", atoms)])

(* The closure, the roots, the required atoms and the conflicts once more. *)
Preserved ==
    /\ AtomsIn(closed) = s.selected
    /\ RootAtoms \subseteq s.selected
    /\ lib.required \subseteq s.selected
    /\ Conflicts(lib, Items, closed) = {}

Closed ==
    /\ s.pc = "close" /\ pending = {}
    /\ IF Missing(closed) # {} THEN Fail(s, "MISSING_DEPENDENCY")
       ELSE \/ Rank
            \/ s.round = "P0" /\ MandatoryFails(P0, "P0_REQUIRED", "P0_OVERFLOW")
            \/ s.round = "P0" /\ MandatoryFits /\ CloseTask(Chosen(P0, "P0_REQUIRED"))
            \/ s.round = "P1" /\ MandatoryFails(TaskRequired, "TASK_REQUIRED", "P1_OVERFLOW")
            \/ s.round = "P1" /\ MandatoryFits
               /\ NextCandidate(Chosen(TaskRequired, "TASK_REQUIRED"))
            \/ s.round = "rest" /\ Relevant
            \/ /\ s.round = "final"
               /\ IF Preserved
                  THEN Go([s EXCEPT !.pc = "sources", !.todo = Pairs, !.round = "last"])
                  ELSE Fail(s, "FINAL_PRESERVATION_FAILED")

-----------------------------------------------------------------------------
(* The expanded sources are resolved again and counted.                    *)
Expandable == { c \in DOMAIN Items : s.selected \cap Items[c] # {} }

(* expand asks the registry once more, before it admits and reads again.   *)
ExpandErrors ==
    UNION { IF c \in verified THEN UNION { SourceErrors(a, c) : a \in Items[c] }
            ELSE {"EVIDENCE_UNAVAILABLE"} : c \in lib.expand }

Expand ==
    /\ s.pc = "expand"
    /\ lib.expand # {} => ~busy
    /\ IF ~(lib.expand \subseteq Expandable) THEN Fail(s, "EVIDENCE_UNAVAILABLE")
       ELSE \/ \E code \in ExpandErrors : Fail(s, code)
            \/ lib.expand # {} /\ Wavers /\ \E code \in WaveringErrors : Fail(s, code)
            \/ /\ ExpandErrors = {} \/ (Wavers /\ lib.expand \subseteq readable)
               /\ IF lib.expand # {} /\ Tokens(s.selected, lib.expand) > lib.budget
                  THEN Fail(s, "EXPANSION_OVERFLOW")
                  ELSE Close([s EXCEPT !.round = "final"], s.selected)

-----------------------------------------------------------------------------
(* A change happens where the session looks for it next: elsewhere it      *)
(* commutes with the session's steps.                                      *)
Change(looks) ==
    /\ looks /\ changes < MaxChanges
    /\ changes' = changes + 1
    /\ UNCHANGED <<lib, views, closureVars>>

LooksAtSources  == (s.pc = "sources" /\ s.todo # {}) \/ (s.pc = "expand" /\ lib.expand # {})
AsksRegistry    == s.pc = "admit" /\ s.todo # {} /\ Question[3] = Verified
LooksAtRegistry == AsksRegistry \/ LooksAtSources
LooksAtPolicy   == (s.pc \in {"snapshot", "admit"} /\ ~AsksRegistry) \/ LooksAtSources
LooksAtServices == \/ s.pc = "idle" /\ Len(views) < MaxCalls
                   \/ s.pc = "sources" /\ s.todo = {} /\ s.round = "last"

Seen == s' = [s EXCEPT !.during = IF s.pc = "admit" THEN @ \cup {World'} ELSE @]

PolicyChanges ==
    /\ Change(LooksAtPolicy)
    /\ policy' \in (Policies \cup {None}) \ {policy}
    /\ UNCHANGED <<verified, busy, readable, services>>
    /\ Seen

(* A row or its evidence is damaged or restored, or the registry's policy  *)
(* changes.                                                                *)
RegistryChanges ==
    /\ Change(LooksAtRegistry)
    /\ \E c \in Capsules : verified' = IF c \in verified THEN verified \ {c} ELSE verified \cup {c}
    /\ UNCHANGED <<policy, busy, readable, services>>
    /\ Seen

SourceChanges ==
    /\ Change(LooksAtSources)
    /\ \E c \in readable : readable' = readable \ {c}
    /\ UNCHANGED <<policy, verified, busy, services, s>>

ServiceChanges ==
    /\ Change(LooksAtServices)
    /\ services' = services + 1
    /\ UNCHANGED <<policy, verified, busy, readable, s>>

(* put_blob of another process takes the lock, and has done or dies.       *)
WriterLocks ==
    /\ Change(LooksAtRegistry)
    /\ ~busy /\ busy' = TRUE
    /\ UNCHANGED <<policy, verified, readable, services, s>>

WriterUnlocks ==
    /\ busy /\ busy' = FALSE
    /\ UNCHANGED <<lib, policy, verified, readable, services, changes, s, views, closureVars>>

Steps ==
    \/ Snapshot \/ Admit \/ Resolved \/ Assemble \/ ReadSource \/ SourcesRead
    \/ Work \/ Closed \/ Expand

(* Nothing to replay, or nothing left to call. *)
Rest ==
    /\ s.pc = "idle" /\ views # <<>>
    /\ Len(views) = MaxCalls \/ ~views[1].valid
    /\ UNCHANGED vars

(* Nothing is kept between calls: a later one differs as a replay only. *)
Next ==
    \/ views = <<>> /\ Call(None)
    \/ \E i \in 1 .. Len(views) : views[i].valid /\ Call(views[i].manifest)
    \/ Steps
    \/ PolicyChanges \/ RegistryChanges \/ SourceChanges \/ ServiceChanges
    \/ WriterLocks \/ WriterUnlocks
    \/ Rest

Spec == Init /\ [][Next]_vars /\ WF_vars(Steps) /\ WF_vars(WriterUnlocks)

-----------------------------------------------------------------------------
(* Properties                                                              *)
Valid == { views[i] : i \in { j \in 1 .. Len(views) : views[j].valid } }

(* The closed and conflict-free sets of nodes with these atoms. *)
Supports(items, atoms) ==
    { N \in { NodesOf(atoms) \cup M : M \in SUBSET MarkersOf(items) } :
        /\ \A e \in RequiresEdges(lib, items) : e[1] \in N => e[2] \in N
        /\ Conflicts(lib, items, N) = {} }

(***************************************************************************)
(* A valid view holds every admitted P0 atom, the P1 atoms that match, the *)
(* providers of the interfaces and the atoms that the task requires,       *)
(* everything these require and no conflict, within the budget: _select    *)
(* reached it in four phases, of which the final check repeats a part.  If *)
(* policy and registry stood still during the last resolution, what was    *)
(* admitted is what the policy of the manifest admits of the capsules that *)
(* the registry verified, and the manifest counts the others.              *)
(***************************************************************************)
Preserves(v) ==
    LET m == v.manifest
        items == v.admission.items
        admitted == AdmittedAtoms(items)
    IN  /\ \A w \in v.during :
              v.during = {w} =>
                  /\ w.policy = m.permission /\ items = Under(w)
                  /\ m.rejected[Verified] = Cardinality(Capsules \ w.verified)
        /\ { a \in admitted : lib.class[a] = 0 } \subseteq m.selected
        /\ { a \in admitted \cap lib.matched : lib.class[a] = 1 } \subseteq m.selected
        /\ lib.required \cup Roots(lib, items) \subseteq m.selected
        /\ m.selected \subseteq admitted
        /\ Supports(items, m.selected) # {}
        /\ Tokens(m.selected, m.expanded) <= lib.budget

ViewsPreserve == \A v \in Valid : Preserves(v)

(***************************************************************************)
(* The reasons of a valid view are true of the view as a whole, though     *)
(* each was given while it grew: an atom said to be over budget would      *)
(* still not fit with what it requires, and what is not relevant neither   *)
(* matches nor is required.                                                *)
(***************************************************************************)
OverBudget(items, selected, a) ==
    \A T \in SUBSET AdmittedAtoms(items) :
        selected \cup {a} \subseteq T /\ Supports(items, T) # {} => Tokens(T, {}) > lib.budget

ReasonsAreTrue(v) ==
    LET m == v.manifest
        items == v.admission.items
    IN  \A a \in AdmittedAtoms(items) \ m.selected :
            IF a \in lib.matched
            THEN m.reasons[a] = "BUDGET_EXCLUDED" /\ OverBudget(items, m.selected, a)
            ELSE m.reasons[a] = "NOT_RELEVANT"

ReasonsHold == \A v \in Valid : ReasonsAreTrue(v)

(***************************************************************************)
(* A replay is refused only when the admission or the services differ from *)
(* those of the view that is expected: the selection does not depend on    *)
(* the order in which sets are iterated.                                   *)
(***************************************************************************)
ReplayIsExact ==
    \A i \in 1 .. Len(views) :
        views[i].code = "REPLAY_MISMATCH" =>
            \A v \in Valid :
                v.manifest = views[i].expected =>
                    <<v.admission, v.services>> # <<views[i].admission, views[i].services>>

(***************************************************************************)
(* Whatever a call returns, a view or the decisions of a failure, names    *)
(* only atoms and capsules for which every question of _admit, that to the *)
(* registry too, had a yes during the last resolution, and the policy at   *)
(* the return was in force during it.  The questions are asked one by one: *)
(* if the policy changes and changes back between them, no single policy   *)
(* need admit what is named.                                               *)
(***************************************************************************)
Discloses(view) ==
    view.disclosed # {} =>
        /\ \E w \in view.during : w.policy = policy
        /\ \A p \in view.disclosed :
              \A q \in AboutCapsule(p[2]) \cup AboutAtom(p[2], p[1]) :
                  \E w \in view.during : Passes(w, q)

DisclosureIsAdmitted ==
    [][Len(views') > Len(views) => Discloses(views'[Len(views')])]_vars

(* Every call of compile_view returns. *)
CallsReturn == s.pc # "idle" ~> s.pc = "idle"
=============================================================================
