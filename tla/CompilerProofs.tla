--------------------------- MODULE CompilerProofs ---------------------------
(***************************************************************************)
(* dependency_closure computes the least closed set, for every graph; a    *)
(* compilation discloses only what was admitted, and its view holds what   *)
(* it must, however policy, sources and services change.  A replay is      *)
(* refused only when the admission or the services differ: the selection   *)
(* is a function of them.  Every call comes nearer to its return.          *)
(***************************************************************************)
EXTENDS ViewCompiler, FiniteSetTheorems, WellFoundedInduction, TLAPS

(***************************************************************************)
(* The loop invariant of dependency_closure: the edges of every node that  *)
(* has left the list lead into closed, and every closed set around the     *)
(* seeds contains closed.                                                  *)
(***************************************************************************)
LoopInv ==
    /\ ClosureTypeOK
    /\ seeds \subseteq closed /\ pending \subseteq closed
    /\ \A e \in edges : e[1] \in closed \ pending => e[2] \in closed
    /\ \A S \in SUBSET Nodes : seeds \subseteq S /\ IsClosed(S) => closed \subseteq S

(* The loop starts with the seeds, all of them pending. *)
LEMMA LoopStarts == ClosureInit => LoopInv
  BY DEF ClosureInit, LoopInv, ClosureTypeOK, IsClosed

(* One turn of the loop keeps the invariant. *)
LEMMA LoopTurns == LoopInv /\ [ClosureNext]_closureVars => LoopInv'
<1> SUFFICES ASSUME LoopInv, [ClosureNext]_closureVars PROVE LoopInv'
  OBVIOUS
<1>1. CASE UNCHANGED closureVars
  BY <1>1 DEF LoopInv, ClosureTypeOK, IsClosed, closureVars
<1>2. ASSUME NEW n \in Nodes, Pop(n) PROVE LoopInv'
  <2>1. ClosureTypeOK'
    BY <1>2 DEF Pop, LoopInv, ClosureTypeOK, Targets
  <2>2. (seeds \subseteq closed /\ pending \subseteq closed)'
    BY <1>2 DEF Pop, LoopInv, ClosureTypeOK, Targets
  <2>3. (\A e \in edges : e[1] \in closed \ pending => e[2] \in closed)'
    <3> SUFFICES ASSUME NEW e \in edges, e[1] \in closed', e[1] \notin pending'
                 PROVE  e[2] \in closed'
      BY <1>2 DEF Pop
    <3>1. e \in Nodes \X Nodes /\ e = <<e[1], e[2]>>
      BY DEF LoopInv, ClosureTypeOK
    <3>2. CASE e[1] = n
      BY <1>2, <3>1, <3>2 DEF Pop, Targets
    <3>3. CASE e[1] # n
      <4>1. e[1] \in closed /\ e[1] \notin pending
        BY <1>2, <3>3 DEF Pop
      <4> QED BY <1>2, <4>1 DEF Pop, LoopInv
    <3> QED BY <3>2, <3>3
  <2>4. (\A S \in SUBSET Nodes : seeds \subseteq S /\ IsClosed(S) => closed \subseteq S)'
    <3> SUFFICES ASSUME NEW S \in SUBSET Nodes, seeds \subseteq S, IsClosed(S),
                        NEW t \in Targets(n)
                 PROVE  t \in S
      BY <1>2 DEF Pop, LoopInv, IsClosed
    <3>1. n \in S
      BY <1>2 DEF Pop, LoopInv
    <3>2. <<n, t>> \in edges
      BY DEF Targets
    <3> QED BY <3>1, <3>2 DEF IsClosed
  <2> QED BY <2>1, <2>2, <2>3, <2>4 DEF LoopInv
<1> QED BY <1>1, <1>2 DEF ClosureNext

(* An empty list leaves the least closed set. *)
LEMMA LoopEnds == LoopInv => ClosureIsLeast
  BY DEF LoopInv, ClosureTypeOK, ClosureIsLeast, IsClosed

(***************************************************************************)
(* For every graph and every selection, dependency_closure returns the     *)
(* least set around the selection that is closed under mandatory           *)
(* dependencies.                                                           *)
(***************************************************************************)
THEOREM ClosureCorrect == ClosureSpec => []ClosureIsLeast
<1>1. ClosureSpec => []LoopInv
  BY LoopStarts, LoopTurns, PTL DEF ClosureSpec
<1> QED BY <1>1, LoopEnds, PTL

(* The nodes whose edges have been followed. *)
Settled == closed \ pending

SettlesMore == Settled' \subseteq Nodes /\ Settled \subseteq Settled' /\ Settled # Settled'

(* A turn of dependency_closure settles a node, and none is taken up again. *)
LEMMA TurnSettles ==
    ASSUME LoopInv, ClosureNext
    PROVE  SettlesMore
<1>1. PICK n \in Nodes : Pop(n)
  BY DEF ClosureNext
<1>2. n \in closed /\ n \in pending /\ n \notin pending' /\ n \in closed'
  BY <1>1 DEF LoopInv, Pop
<1>3. Settled \subseteq Settled'
  BY <1>1 DEF Settled, Pop
<1>4. Settled' \subseteq Nodes
  BY <1>1 DEF Settled, Pop, LoopInv, ClosureTypeOK, Targets
<1> QED BY <1>2, <1>3, <1>4 DEF Settled, SettlesMore

(***************************************************************************)
(* Each turn of dependency_closure settles a node for good, so the loop    *)
(* ends after as many turns as the graph has nodes, on cyclic graphs too.  *)
(***************************************************************************)
THEOREM ClosureTurnsAreBounded == ClosureSpec => [][SettlesMore]_closureVars
<1>1. ClosureSpec => []LoopInv
  BY LoopStarts, LoopTurns, PTL DEF ClosureSpec
<1>2. LoopInv /\ [ClosureNext]_closureVars => [SettlesMore]_closureVars
  BY TurnSettles
<1> QED BY <1>1, <1>2, PTL DEF ClosureSpec

-----------------------------------------------------------------------------
(***************************************************************************)
(* The admission.  Every question that a resolution has had a yes to is    *)
(* passed by a world since its snapshot; if there was one only, a question *)
(* that it has dropped is failed by that world, itself or an earlier one.  *)
(***************************************************************************)
IsItems(items) ==
    /\ items = [ c \in DOMAIN items |-> items[c] ]
    /\ DOMAIN items \subseteq Capsules
    /\ \A c \in DOMAIN items : items[c] \subseteq lib.content[c]

Dropped(w, q) == \E r \in Questions : (r = q \/ Earlier(r, q)) /\ ~Passes(w, r)

Collected ==
    /\ World \in s.during /\ s.before # None
    /\ \E w \in s.during : w.policy = s.before
    /\ s.todo \subseteq Questions /\ s.passed \subseteq Questions
    /\ \A q \in s.passed : \E w \in s.during : Passes(w, q)
    /\ \A w : s.during = {w} =>
            \A q \in Questions : q \in s.passed \cup s.todo \/ Dropped(w, q)

(* Only before the first resolution is there no admission. *)
AdmissionInv ==
    /\ s.pc = "admit" => Collected
    /\ IF s.phase = "admission" /\ s.pc \in {"idle", "snapshot", "admit"}
       THEN s.admission = None /\ s.round = "none"
       ELSE IsItems(Items)

(***************************************************************************)
(* The selection, as it grows, of a session that has not failed.           *)
(***************************************************************************)
SeedAtoms ==
    CASE s.round = "check" -> RootAtoms \cup lib.required
      [] s.round = "P0"    -> P0
      [] s.round = "P1"    -> s.selected \cup TaskRequired
      [] s.round = "rest"  -> s.selected \cup {s.item}
      [] s.round = "final" -> s.selected

(* Which steps belong to which round. *)
Stage ==
    CASE s.round = "none"                  -> s.pc \in {"idle", "snapshot", "admit", "graph"}
      [] s.round = "first"                 -> s.pc = "sources"
      [] s.round \in {"check", "P0", "final"} -> s.pc = "close"
      [] s.round \in {"P1", "rest"}        -> s.pc \in {"close", "expand"}
      [] s.round = "last"                  -> \/ s.pc = "sources"
                                              \/ s.phase = "final" /\ s.pc \in {"snapshot", "admit"}
      [] OTHER                             -> FALSE

(* Which atoms the rounds that are over have brought, and at what cost. *)
Mandatory ==
    /\ s.round \in {"P1", "rest", "final", "last"} =>
          /\ P0 \subseteq s.selected /\ s.selected \subseteq Available
          /\ Tokens(s.selected, {}) <= lib.budget
    /\ s.round \in {"rest", "final", "last"} \/ s.pc = "expand" => TaskRequired \subseteq s.selected
    /\ s.round \in {"final", "last"} => Tokens(s.selected, lib.expand) <= lib.budget

(* The selection that was preserved is the closure that still stands. *)
Final ==
    s.round = "last" =>
        /\ pending = {} /\ Missing(closed) = {}
        /\ AtomsIn(closed) = s.selected
        /\ Conflicts(lib, Items, closed) = {}

(* An atom that is not selected is not relevant so far, or it was tried    *)
(* and would be over budget in any selection that is as large.             *)
ReasonsFor(reasons, selected) ==
    /\ DOMAIN reasons = Available
    /\ \A a \in Available \ selected :
          \/ reasons[a] = "NOT_RELEVANT"
          \/ reasons[a] = "BUDGET_EXCLUDED" /\ a \in lib.matched /\ OverBudget(Items, selected, a)

ReasonsSoFar ==
    /\ s.round \in {"none", "first", "check", "P0"} => s.selected = {}
    /\ s.round \in {"P0", "P1", "rest", "final", "last"} => ReasonsFor(s.reasons, s.selected)
    /\ s.round \in {"final", "last"} \/ s.pc = "expand" => Candidates(s) = {}

SelectionInv ==
    IF s.phase = "recheck" THEN s.pc \in {"snapshot", "admit"}
    ELSE
        /\ Stage
        /\ s.phase = "final" => s.round = "last" /\ s.pc \in {"snapshot", "admit"}
        /\ s.round # "none" => edges = RequiresEdges(lib, Items)
        /\ s.pc = "close" => seeds = NodesOf(SeedAtoms)
        /\ s.round = "rest" /\ s.pc = "close" => s.item \in Candidates(s)
        /\ Mandatory
        /\ Final
        /\ ReasonsSoFar

Typed ==
    /\ lib \in Libraries
    /\ policy \in Policies \cup {None}
    /\ DOMAIN s = DOMAIN Idle /\ s.phase \in {"admission", "final", "recheck"}
    /\ views \in Seq({ views[i] : i \in DOMAIN views })

Inv == Typed /\ LoopInv /\ AdmissionInv /\ SelectionInv /\ ViewsPreserve /\ ReasonsHold

(* What a step must do: keep all this, and disclose nothing else. *)
Kept == Inv' /\ (Len(views') > Len(views) => Discloses(views'[Len(views')]))

-----------------------------------------------------------------------------
(* The edges of every graph that resolve_graph assembles are between nodes. *)
LEMMA GraphIsTyped ==
    ASSUME lib \in Libraries, NEW items, IsItems(items)
    PROVE  RequiresEdges(lib, items) \subseteq Nodes \X Nodes
<1> DEFINE N == Nodes
<1>0. /\ \A a \in Atoms \cup Ids : AtomNode(a) \in N
      /\ \A c \in Capsules : Presence(c) \in N /\ Unit(c) \in N
  BY NodesAssumption DEF GraphNodes
<1>1. /\ \A c \in DOMAIN items : c \in Capsules /\ items[c] \subseteq Atoms
      /\ \A a \in AdmittedAtoms(items) : a \in Atoms /\ lib.needs[a] \subseteq Atoms
      /\ \A c \in Complete(lib, items) : c \in Capsules
  BY LibrariesAreLibraries DEF IsItems, AdmittedAtoms, Complete
<1>2. OwnerEdges(items) \subseteq N \X N
  BY <1>0, <1>1 DEF OwnerEdges
<1>3. ManifestEdges(lib, items) \subseteq N \X N
  BY <1>0, <1>1 DEF ManifestEdges, Providers
<1>4. NeedEdges(lib, items) \subseteq N \X N
  BY <1>0, <1>1 DEF NeedEdges
<1>5. ExplicitEdges(lib, items) \subseteq N \X N
  <2> SUFFICES ASSUME NEW q \in Declared(lib, items, "requires")
               PROVE  /\ Sources(items, q[1], q[2]) \subseteq N
                      /\ EdgeTargets(lib, items, q[1], q[2]) \subseteq N
    BY DEF ExplicitEdges
  <2>1. q[1] \in DOMAIN items /\ q[2] \in lib.edges[q[1]]
    BY DEF Declared
  <2>2. q[2].to \in Atoms \cup Ids
    BY <1>1, <2>1, LibrariesAreLibraries
  <2>3. Sources(items, q[1], q[2]) \subseteq N
    BY <1>0, <1>1, <2>1 DEF Sources
  <2>4. EdgeTargets(lib, items, q[1], q[2]) \subseteq N
    BY <1>0, <1>1, <2>2 DEF EdgeTargets, UnitProviders
  <2> QED BY <2>3, <2>4
<1> HIDE DEF N
<1> QED BY <1>2, <1>3, <1>4, <1>5 DEF RequiresEdges, N

(* Appending to a sequence of anything. *)
LEMMA AppendToViews ==
    ASSUME views \in Seq({ views[i] : i \in DOMAIN views }), NEW v
    PROVE  LET w == Append(views, v)
           IN  /\ w \in Seq({ w[i] : i \in DOMAIN w })
               /\ Len(w) = Len(views) + 1 /\ Len(views) \in Nat
               /\ w[Len(w)] = v
               /\ \A i \in 1 .. Len(views) : w[i] = views[i]
<1> DEFINE S == { views[i] : i \in DOMAIN views } \cup {v}
           w == Append(views, v)
<1>1. views \in Seq(S) /\ v \in S
  OBVIOUS
<1> HIDE DEF S
<1>2. /\ w \in Seq(S) /\ Len(w) = Len(views) + 1 /\ Len(views) \in Nat /\ w[Len(w)] = v
      /\ \A i \in 1 .. Len(views) : w[i] = views[i]
  BY <1>1
<1>3. w \in Seq({ w[i] : i \in DOMAIN w })
  BY <1>2
<1> QED BY <1>2, <1>3

(* What the graph of a session brings depends on its admission only. *)
LEMMA SameGraph ==
    ASSUME lib' = lib, s'.admission = s.admission
    PROVE  /\ Items' = Items /\ Available' = Available
           /\ RootAtoms' = RootAtoms /\ P0' = P0 /\ TaskRequired' = TaskRequired
           /\ RequiresEdges(lib, Items)' = RequiresEdges(lib, Items)
           /\ \A items : IsItems(items)' <=> IsItems(items)
           /\ \A items, selected, a :
                 OverBudget(items, selected, a)' <=> OverBudget(items, selected, a)
<1>1. \A items, selected, a : OverBudget(items, selected, a)' <=> OverBudget(items, selected, a)
  BY DEF OverBudget, Supports, Tokens
<1> QED BY <1>1 DEF Items, Available, RootAtoms, P0, P1, TaskRequired, IsItems

(* A valid view stays as good as it was. *)
LEMMA SamePromises ==
    ASSUME lib' = lib, NEW v
    PROVE  /\ Preserves(v)' = Preserves(v) /\ ReasonsAreTrue(v)' = ReasonsAreTrue(v)
  BY DEF Preserves, ReasonsAreTrue, Under, Admitted, Questions, Supports, Tokens, OverBudget

(* A step that returns nothing keeps what was returned. *)
LEMMA QuietKeeps ==
    ASSUME Inv, lib' = lib, views' = views, policy' \in Policies \cup {None},
           DOMAIN s' = DOMAIN Idle, s'.phase \in {"admission", "final", "recheck"},
           LoopInv', AdmissionInv', SelectionInv'
    PROVE  Kept
<1>1. Typed'
  BY DEF Inv, Typed
<1>2. ViewsPreserve' /\ ReasonsHold'
  BY SamePromises DEF Inv, ViewsPreserve, ReasonsHold, Valid
<1>3. ~(Len(views') > Len(views))
  BY DEF Inv, Typed
<1> QED BY <1>1, <1>2, <1>3 DEF Inv, Kept

(* The closure is left alone. *)
LEMMA SameLoop ==
    ASSUME LoopInv, UNCHANGED closureVars
    PROVE  LoopInv'
  BY DEF LoopInv, ClosureTypeOK, IsClosed, closureVars

(* A call that returns leaves no session, and its view is the last. *)
LEMMA ReturnKeeps ==
    ASSUME Inv, NEW v, Return(v), Discloses(v),
           v.valid => Preserves(v) /\ ReasonsAreTrue(v)
    PROVE  Kept
<1>1. /\ views' = Append(views, v) /\ s' = Idle
      /\ lib' = lib /\ policy' = policy /\ UNCHANGED closureVars
  BY DEF Return, environment
<1>2. /\ views' \in Seq({ views'[i] : i \in DOMAIN views' })
      /\ Len(views') = Len(views) + 1 /\ Len(views) \in Nat
      /\ views'[Len(views')] = v
      /\ \A i \in 1 .. Len(views) : views'[i] = views[i]
  BY <1>1, AppendToViews DEF Inv, Typed
<1>3. Typed'
  BY <1>1, <1>2 DEF Inv, Typed, Idle
<1>4. AdmissionInv' /\ SelectionInv'
  BY <1>1 DEF AdmissionInv, SelectionInv, Idle, Stage, Mandatory, Final, ReasonsSoFar
<1>5. \A w \in Valid' : w \in Valid \/ (w = v /\ v.valid)
  <2> SUFFICES ASSUME NEW j \in 1 .. Len(views'), views'[j].valid
               PROVE  views'[j] \in Valid \/ (views'[j] = v /\ v.valid)
    BY DEF Valid
  <2> QED BY <1>2 DEF Valid
<1>6. ViewsPreserve' /\ ReasonsHold'
  BY <1>1, <1>5, SamePromises DEF Inv, ViewsPreserve, ReasonsHold
<1>7. LoopInv'
  BY <1>1, SameLoop DEF Inv
<1> QED BY <1>2, <1>3, <1>4, <1>6, <1>7 DEF Inv, Kept

(* A failure returns an invalid view, or resolves the admission again. *)
LEMMA FailKeeps ==
    ASSUME Inv, NEW X, NEW code, DOMAIN X = DOMAIN Idle, X.admission = s.admission,
           X.admission = None \/ IsItems(X.admission.items), Fail(X, code)
    PROVE  Kept
<1>1. CASE code \in Redacting \/ X.admission = None
  <2> DEFINE v == Result(FALSE, code, code \in Redacting, FALSE, X)
  <2>1. Return(v)
    BY <1>1 DEF Fail
  <2>2. v.valid = FALSE /\ v.disclosed = {}
    BY DEF Result
  <2> HIDE DEF v
  <2> QED BY <2>1, <2>2, ReturnKeeps DEF Discloses
<1>2. CASE ~(code \in Redacting \/ X.admission = None)
  <2>1. /\ s' = [X EXCEPT !.pc = "snapshot", !.phase = "recheck", !.code = code]
        /\ lib' = lib /\ policy' = policy /\ views' = views /\ UNCHANGED closureVars
    BY <1>2 DEF Fail, Go, environment
  <2>2. /\ DOMAIN s' = DOMAIN Idle /\ s'.pc = "snapshot" /\ s'.phase = "recheck"
        /\ s'.admission = s.admission
    BY <2>1 DEF Idle
  <2>3. AdmissionInv' /\ SelectionInv'
    BY <1>2, <2>1, <2>2, SameGraph DEF AdmissionInv, SelectionInv, Items
  <2>4. LoopInv' /\ policy' \in Policies \cup {None}
    BY <2>1, SameLoop DEF Inv, Typed
  <2> QED BY <2>1, <2>2, <2>3, <2>4, QuietKeeps
<1> QED BY <1>1, <1>2

(* What Go leaves alone. *)
LEMMA GoFrame ==
    ASSUME NEW X, Go(X)
    PROVE  /\ s' = X /\ lib' = lib /\ policy' = policy /\ verified' = verified /\ views' = views
           /\ UNCHANGED closureVars
  BY DEF Go, environment

-----------------------------------------------------------------------------
(* No call has run: nothing is selected, admitted or returned.             *)
LEMMA Starts == Init => Inv
<1> SUFFICES ASSUME Init PROVE Inv
  OBVIOUS
<1>1. Typed
  <2>1. views \in Seq({ views[i] : i \in DOMAIN views })
    BY DEF Init
  <2> QED BY <2>1 DEF Init, Typed, Idle
<1>2. LoopInv
  BY DEF Init, LoopInv, ClosureTypeOK, IsClosed
<1>3. AdmissionInv /\ SelectionInv
  BY DEF Init, Idle, AdmissionInv, SelectionInv, Stage, Mandatory, Final, ReasonsSoFar
<1>4. ViewsPreserve /\ ReasonsHold
  BY DEF Init, ViewsPreserve, ReasonsHold, Valid
<1> QED BY <1>1, <1>2, <1>3, <1>4 DEF Inv

(* compile_view starts with a session of its own.                          *)
LEMMA CallKeeps == ASSUME Inv, NEW expected, Call(expected) PROVE Kept
<1>1. /\ s' = [Idle EXCEPT !.pc = "snapshot", !.stamp = services, !.expected = expected]
      /\ lib' = lib /\ policy' = policy /\ views' = views /\ UNCHANGED closureVars
  BY GoFrame DEF Call
<1>2. /\ DOMAIN s' = DOMAIN Idle /\ s'.pc = "snapshot" /\ s'.phase = "admission"
      /\ s'.admission = None /\ s'.round = "none" /\ s'.selected = {}
  BY <1>1 DEF Idle
<1>3. AdmissionInv' /\ SelectionInv'
  BY <1>2 DEF AdmissionInv, SelectionInv, Stage, Mandatory, Final, ReasonsSoFar
<1> QED BY <1>1, <1>2, <1>3, SameLoop, QuietKeeps DEF Inv, Typed

(* While capsules are admitted, the selection stands. *)
LEMMA SameSelection ==
    ASSUME SelectionInv, lib' = lib, UNCHANGED closureVars, NEW X, s' = X, DOMAIN X = DOMAIN Idle,
           X.pc \in {"snapshot", "admit"}, s.pc \in {"snapshot", "admit"}, X.item = s.item,
           X.phase = s.phase, X.admission = s.admission, X.round = s.round,
           X.selected = s.selected, X.reasons = s.reasons
    PROVE  SelectionInv'
<1>1. CASE s.phase = "recheck"
  BY <1>1 DEF SelectionInv
<1>2. CASE s.phase # "recheck"
  <2>1. Stage /\ Stage'
    BY <1>2 DEF SelectionInv, Stage
  <2>2. s.round \in {"none", "last"}
    BY <2>1 DEF Stage
  <2>3. Candidates(s)' = Candidates(s)
    BY SameGraph DEF Candidates
  <2>4. Mandatory'
    BY <1>2, <2>2, SameGraph DEF SelectionInv, Mandatory, Tokens
  <2>5. Final'
    BY <1>2, <2>2, SameGraph DEF SelectionInv, Final, Missing, MarkersOf, closureVars
  <2>6. ReasonsSoFar'
    BY <1>2, <2>2, <2>3, SameGraph DEF SelectionInv, ReasonsSoFar, ReasonsFor
  <2>7. (s.round # "none" => edges = RequiresEdges(lib, Items))'
    BY <1>2, SameGraph DEF SelectionInv, closureVars
  <2> QED BY <1>2, <2>1, <2>4, <2>5, <2>6, <2>7 DEF SelectionInv
<1> QED BY <1>1, <1>2

(* A resolution starts with the policy in force and nothing collected.     *)
LEMMA SnapshotKeeps == ASSUME Inv, Snapshot PROVE Kept
<1>1. CASE policy # None
  <2> DEFINE X == [s EXCEPT !.pc = "admit", !.before = policy, !.during = {World},
                            !.todo = Questions, !.passed = {}]
  <2>1. Go(X)
    BY <1>1 DEF Snapshot
  <2>2. /\ s' = X /\ lib' = lib /\ policy' = policy /\ verified' = verified /\ views' = views
        /\ UNCHANGED closureVars
    BY <2>1, GoFrame
  <2>3. /\ DOMAIN X = DOMAIN Idle /\ X.pc = "admit" /\ X.before = policy /\ X.during = {World}
        /\ X.todo = Questions /\ X.passed = {} /\ X.admission = s.admission
        /\ X.phase = s.phase /\ X.round = s.round /\ X.selected = s.selected
        /\ X.reasons = s.reasons /\ X.item = s.item /\ s.pc = "snapshot"
    BY DEF Inv, Typed, Idle, Snapshot
  <2> HIDE DEF X
  <2>4. Collected'
    <3>1. Questions' = Questions /\ World' = World
      BY <2>2 DEF Questions, World
    <3>2. World.policy = policy
      BY DEF World
    <3> QED BY <1>1, <2>2, <2>3, <3>1, <3>2 DEF Collected
  <2>5. AdmissionInv'
    BY <2>2, <2>3, <2>4, SameGraph DEF Inv, AdmissionInv
  <2>6. SelectionInv'
    BY <2>2, <2>3, SameSelection DEF Inv
  <2> QED BY <2>2, <2>3, <2>5, <2>6, SameLoop, QuietKeeps DEF Inv, Typed
<1>2. CASE policy = None /\ s.phase = "recheck"
  <2> DEFINE v == Result(FALSE, s.code, TRUE, HasGraph(s), s)
  <2>1. Return(v) /\ v.valid = FALSE /\ v.disclosed = {}
    BY <1>2 DEF Snapshot, Result
  <2> HIDE DEF v
  <2> QED BY <2>1, ReturnKeeps DEF Discloses
<1>3. CASE policy = None /\ s.phase # "recheck"
  <2>1. s.admission = None \/ IsItems(s.admission.items)
    BY DEF Inv, AdmissionInv, Items
  <2> QED BY <1>3, <2>1, FailKeeps DEF Snapshot, Inv, Typed
<1> QED BY <1>1, <1>2, <1>3

(* A question is about a capsule, or about an atom of its content. *)
LEMMA QuestionsAre ==
    ASSUME lib \in Libraries, NEW q
    PROVE  q \in Questions <=>
             \E c \in Capsules :
                \/ \E k \in {1, 2, 3} : q = <<c, None, k>>
                \/ \E a \in lib.content[c], k \in {2, 3} :
                      q = <<c, a, k>> /\ a \in Atoms /\ a # None
<1>1. \A c \in Capsules : lib.content[c] \subseteq Atoms
  BY LibrariesAreLibraries
<1>2. \A c \in Capsules : \A a \in lib.content[c] : a \in Atoms /\ a # None
  BY <1>1, PoliciesArePolicies
<1> QED BY <1>2 DEF Questions, AboutCapsule, AboutAtom, Verified, Authorized, Fresh

(* The next question is one of those that are left: some question of its   *)
(* capsule has none before it.                                             *)
LEMMA QuestionIsLeft ==
    ASSUME lib \in Libraries, s.todo \subseteq Questions, s.todo # {}
    PROVE  Question \in s.todo
<1> DEFINE c == CHOOSE x \in { q[1] : q \in s.todo } : TRUE
           Good(q) == q[1] = c /\ \A r \in s.todo : ~Earlier(r, q)
<1>1. c \in { q[1] : q \in s.todo }
  OBVIOUS
<1>2. PICK q0 \in s.todo : q0[1] = c
  BY <1>1
<1> HIDE DEF c
<1>3. ASSUME NEW q \in s.todo
      PROVE  \E x \in Capsules :
                \/ \E k \in {1, 2, 3} : q = <<x, None, k>>
                \/ \E a \in lib.content[x], k \in {2, 3} : q = <<x, a, k>> /\ a # None
  BY QuestionsAre
<1>4. CASE \E k \in {1, 2, 3} : <<c, None, k>> \in s.todo
  <2>1. PICK k \in {1, 2, 3} : /\ <<c, None, k>> \in s.todo
                               /\ \A j \in {1, 2, 3} : <<c, None, j>> \in s.todo => k <= j
    BY <1>4
  <2>2. Good(<<c, None, k>>)
    BY <1>3, <2>1 DEF Earlier
  <2> QED BY <2>1, <2>2 DEF Question, c
<1>5. CASE ~\E k \in {1, 2, 3} : <<c, None, k>> \in s.todo
  <2>1. PICK a, k0 : q0 = <<c, a, k0>> /\ a # None /\ k0 \in {2, 3}
    BY <1>2, <1>3, <1>5
  <2>2. PICK k \in {2, 3} : /\ <<c, a, k>> \in s.todo
                            /\ \A j \in {2, 3} : <<c, a, j>> \in s.todo => k <= j
    BY <2>1
  <2>3. Good(<<c, a, k>>)
    BY <1>3, <1>5, <2>1, <2>2 DEF Earlier
  <2> QED BY <2>2, <2>3 DEF Question, c
<1> QED BY <1>4, <1>5

(* What the next question leads to. *)
LEMMA AdmitFrame ==
    ASSUME Inv, Admit
    PROVE  /\ s.pc = "admit" /\ Collected /\ Question \in s.todo
           /\ lib' = lib /\ policy' = policy /\ verified' = verified /\ views' = views
           /\ UNCHANGED closureVars
           /\ \E todo, passed :
                 /\ s' = [s EXCEPT !.todo = todo, !.passed = passed]
                 /\ \/ /\ Passes(World, Question)
                       /\ todo = s.todo \ {Question} /\ passed = s.passed \cup {Question}
                    \/ /\ ~Passes(World, Question)
                       /\ todo = { r \in s.todo : r # Question /\ ~Earlier(Question, r) }
                       /\ passed = s.passed
<1>1. s.pc = "admit" /\ s.todo # {} /\ DOMAIN s = DOMAIN Idle
  BY DEF Admit, Inv, Typed
<1>2. Collected
  BY <1>1 DEF Inv, AdmissionInv
<1>3. Question \in s.todo
  BY <1>1, <1>2, QuestionIsLeft DEF Collected, Inv, Typed
<1>4. CASE Passes(World, Question)
  <2> DEFINE X == [s EXCEPT !.todo = s.todo \ {Question}, !.passed = s.passed \cup {Question}]
  <2>1. Go(X)
    BY <1>1, <1>4 DEF Admit, Idle
  <2> QED BY <1>1, <1>2, <1>3, <1>4, <2>1, GoFrame
<1>5. CASE ~Passes(World, Question)
  <2> DEFINE X == [s EXCEPT !.todo = { r \in s.todo : r # Question /\ ~Earlier(Question, r) }]
             Y == [s EXCEPT !.todo = { r \in s.todo : r # Question /\ ~Earlier(Question, r) },
                            !.passed = s.passed]
  <2>1. Go(X)
    BY <1>1, <1>5 DEF Admit, Idle
  <2>2. X = Y
    BY <1>1 DEF Idle
  <2> HIDE DEF X
  <2> QED BY <1>1, <1>2, <1>3, <1>5, <2>1, <2>2, GoFrame
<1> QED BY <1>4, <1>5

(* One question less. *)
LEMMA AdmitKeeps == ASSUME Inv, Admit PROVE Kept
<1>1. /\ s.pc = "admit" /\ Collected /\ Question \in s.todo
      /\ lib' = lib /\ policy' = policy /\ verified' = verified /\ views' = views
      /\ UNCHANGED closureVars
  BY AdmitFrame
<1>2. PICK todo, passed :
         /\ s' = [s EXCEPT !.todo = todo, !.passed = passed]
         /\ \/ /\ Passes(World, Question)
               /\ todo = s.todo \ {Question} /\ passed = s.passed \cup {Question}
            \/ /\ ~Passes(World, Question)
               /\ todo = { r \in s.todo : r # Question /\ ~Earlier(Question, r) }
               /\ passed = s.passed
  BY AdmitFrame
<1>3. /\ DOMAIN s' = DOMAIN Idle /\ s'.pc = "admit" /\ s'.before = s.before
      /\ s'.during = s.during /\ s'.todo = todo /\ s'.passed = passed
      /\ s'.admission = s.admission /\ s'.phase = s.phase /\ s'.round = s.round
      /\ s'.selected = s.selected /\ s'.reasons = s.reasons /\ s'.item = s.item
  BY <1>1, <1>2 DEF Inv, Typed, Idle
<1>4. Questions' = Questions /\ World' = World
  BY <1>1 DEF Questions, World
<1>5. todo \subseteq Questions /\ passed \subseteq Questions
  BY <1>1, <1>2 DEF Collected
<1>6. \A q \in passed : \E w \in s.during : Passes(w, q)
  BY <1>1, <1>2 DEF Collected
<1>7. ASSUME NEW w, s.during = {w}, NEW q \in Questions, q \notin passed \cup todo
      PROVE  Dropped(w, q)
  <2>1. World = w
    BY <1>1, <1>7 DEF Collected
  <2>2. CASE q \notin s.passed \cup s.todo
    BY <1>1, <1>7, <2>2 DEF Collected
  <2>3. CASE q \in s.passed \cup s.todo
    <3>1. ~Passes(w, Question) /\ (Question = q \/ Earlier(Question, q))
      BY <1>2, <1>7, <2>1, <2>3
    <3> QED BY <1>1, <3>1 DEF Dropped, Collected
  <2> QED BY <2>2, <2>3
<1>8. Collected'
  <2>1. \A w, q : Dropped(w, q)' <=> Dropped(w, q)
    BY <1>4 DEF Dropped
  <2>2. (\A w : s.during = {w} =>
            \A q \in Questions : q \in s.passed \cup s.todo \/ Dropped(w, q))'
    BY <1>3, <1>4, <1>7, <2>1
  <2> QED BY <1>1, <1>3, <1>4, <1>5, <1>6, <2>2 DEF Collected
<1>9. AdmissionInv'
  BY <1>1, <1>3, <1>8, SameGraph DEF Inv, AdmissionInv
<1>10. SelectionInv'
  BY <1>1, <1>3, SameSelection DEF Inv
<1> QED BY <1>1, <1>3, <1>9, <1>10, SameLoop, QuietKeeps DEF Inv, Typed

(* What is admitted are atoms of capsules. *)
LEMMA AdmittedIsItems == ASSUME NEW passed PROVE IsItems(Admitted(passed))
  BY DEF IsItems, Admitted

(* What one world admits and rejects, if it was the only one. *)
LEMMA OneWorld ==
    ASSUME lib \in Libraries, Collected, s.todo = {}, NEW w, s.during = {w}
    PROVE  /\ w.policy = s.before /\ Admitted(s.passed) = Under(w)
           /\ Rejected(s.passed)[Verified] = Cardinality(Capsules \ w.verified)
<1> DEFINE Y == { q \in Questions : Passes(w, q) }
<1>1. s.passed \subseteq Y /\ w.policy = s.before
  BY DEF Collected
<1>2. ASSUME NEW q \in Questions, \A r \in Questions : r = q \/ Earlier(r, q) => r \in Y
      PROVE  q \in s.passed
  BY <1>2 DEF Collected, Dropped
<1>3. ASSUME NEW c \in Capsules, AboutCapsule(c) \subseteq Y PROVE AboutCapsule(c) \subseteq s.passed
  <2> SUFFICES ASSUME NEW k \in {1, 2, 3} PROVE <<c, None, k>> \in s.passed
    BY DEF AboutCapsule, Verified, Authorized, Fresh
  <2>1. \A j \in {1, 2, 3} : <<c, None, j>> \in Y
    BY <1>3 DEF AboutCapsule, Verified, Authorized, Fresh
  <2>2. ASSUME NEW r \in Questions, Earlier(r, <<c, None, k>>) PROVE r \in Y
    <3>1. r[1] = c /\ r[2] = None
      BY <2>2 DEF Earlier
    <3>2. \E j \in {1, 2, 3} : r = <<c, None, j>>
      BY <3>1, QuestionsAre
    <3> QED BY <2>1, <3>2
  <2> QED BY <1>2, <2>1, <2>2
<1>4. ASSUME NEW c \in Capsules, AboutCapsule(c) \subseteq Y,
             NEW a \in lib.content[c], AboutAtom(c, a) \subseteq Y
      PROVE  AboutAtom(c, a) \subseteq s.passed
  <2> SUFFICES ASSUME NEW k \in {2, 3} PROVE <<c, a, k>> \in s.passed
    BY DEF AboutAtom, Authorized, Fresh
  <2>1. \A j \in {2, 3} : <<c, a, j>> \in Y
    BY <1>4 DEF AboutAtom, Authorized, Fresh
  <2>2. \A j \in {1, 2, 3} : <<c, None, j>> \in Y
    BY <1>4 DEF AboutCapsule, Verified, Authorized, Fresh
  <2>3. a # None
    BY LibrariesAreLibraries, PoliciesArePolicies
  <2>4. ASSUME NEW r \in Questions, Earlier(r, <<c, a, k>>) PROVE r \in Y
    <3>1. r[1] = c /\ (r[2] = a \/ r[2] = None)
      BY <2>4 DEF Earlier
    <3>2. \/ \E j \in {1, 2, 3} : r = <<c, None, j>>
          \/ \E j \in {2, 3} : r = <<c, a, j>>
      BY <2>3, <3>1, QuestionsAre
    <3> QED BY <2>1, <2>2, <3>2
  <2> QED BY <1>2, <2>1, <2>4
<1>5. Admitted(s.passed) = Admitted(Y)
  <2>1. \A c \in Capsules : AboutCapsule(c) \subseteq s.passed <=> AboutCapsule(c) \subseteq Y
    BY <1>1, <1>3
  <2>2. \A c \in Capsules : AboutCapsule(c) \subseteq Y =>
           \A a \in lib.content[c] : AboutAtom(c, a) \subseteq s.passed <=> AboutAtom(c, a) \subseteq Y
    BY <1>1, <1>4
  <2> HIDE DEF Y
  <2> QED BY <2>1, <2>2 DEF Admitted
<1>6. Rejected(s.passed)[Verified] = Cardinality(Capsules \ w.verified)
  <2> DEFINE R == { q \in Questions \ s.passed :
                     q[3] = Verified /\ \A r \in Questions : Earlier(r, q) => r \in s.passed }
             F == Capsules \ w.verified
             f == [ c \in F |-> <<c, None, Verified>> ]
  <2>1. ASSUME NEW c \in Capsules
        PROVE  <<c, None, Verified>> \in Questions /\ (<<c, None, Verified>> \in s.passed <=> c \in w.verified)
    <3>1. <<c, None, Verified>> \in Questions
      BY QuestionsAre DEF Verified
    <3>2. \A r \in Questions : ~Earlier(r, <<c, None, Verified>>)
      BY QuestionsAre DEF Earlier, Verified
    <3>3. Passes(w, <<c, None, Verified>>) <=> c \in w.verified
      BY DEF Passes
    <3> QED BY <1>1, <1>2, <3>1, <3>2, <3>3
  <2>2. ASSUME NEW q \in Questions, q[3] = Verified
        PROVE  /\ \E c \in Capsules : q = <<c, None, Verified>>
               /\ \A r \in Questions : ~Earlier(r, q)
    BY <2>2, QuestionsAre DEF Earlier, Verified
  <2>3. R = { <<c, None, Verified>> : c \in F }
    BY <2>1, <2>2
  <2> HIDE DEF R
  <2>4. f \in Bijection(F, R)
    BY <2>3 DEF Bijection, Injection, IsInjective, Surjection
  <2> HIDE DEF f
  <2>5. IsFiniteSet(F)
    BY NodesAssumption, FS_Subset
  <2>6. Cardinality(R) = Cardinality(F)
    BY <2>4, <2>5, FS_Bijection DEF ExistsBijection
  <2> QED BY <2>6 DEF Rejected, R
<1> QED BY <1>1, <1>5, <1>6 DEF Under

(* The resolution is that of the admission: what a view names was admitted. *)
LEMMA AdmittedIsVouched ==
    ASSUME Inv, s.pc = "admit", Resolution = s.admission, NEW v,
           v.during = s.during, v.disclosed \subseteq Pairs
    PROVE  Discloses(v)
<1>1. Collected
  BY DEF Inv, AdmissionInv
<1>2. Items = Admitted(s.passed)
  BY DEF Items, Resolution
<1>3. ASSUME NEW p \in v.disclosed, NEW q \in AboutCapsule(p[2]) \cup AboutAtom(p[2], p[1])
      PROVE  \E w \in v.during : Passes(w, q)
  <2>1. p[2] \in DOMAIN Items /\ p[1] \in Items[p[2]]
    BY DEF Pairs
  <2>2. q \in s.passed
    BY <1>2, <2>1 DEF Admitted
  <2> QED BY <1>1, <2>2 DEF Collected
<1>4. World.policy = policy
  BY DEF World
<1> QED BY <1>1, <1>3, <1>4 DEF Collected, Discloses

(* The view that is delivered: what the rounds have brought is still so. *)
LEMMA DeliveredPreserves ==
    ASSUME Inv, s.pc = "admit", s.todo = {}, s.phase = "final", Resolution = s.admission
    PROVE  Preserves(Result(TRUE, "", FALSE, TRUE, s))
<1> DEFINE v == Result(TRUE, "", FALSE, TRUE, s)
<1>1. Collected
  BY DEF Inv, AdmissionInv
<1>2. SelectionInv /\ s.round = "last"
  BY DEF Inv, SelectionInv
<1>3. /\ Items = Admitted(s.passed) /\ s.admission.policy = s.before
      /\ s.admission.rejected = Rejected(s.passed)
  BY DEF Items, Resolution
<1>4. /\ v.admission = s.admission /\ v.during = s.during
      /\ v.manifest.selected = s.selected /\ v.manifest.permission = s.before
      /\ v.manifest.rejected = Rejected(s.passed) /\ v.manifest.expanded = lib.expand
  BY <1>3 DEF Result
<1>5. \A w \in v.during :
          v.during = {w} =>
              /\ w.policy = v.manifest.permission /\ Items = Under(w)
              /\ v.manifest.rejected[Verified] = Cardinality(Capsules \ w.verified)
  BY <1>1, <1>3, <1>4, OneWorld DEF Inv, Typed
<1>6. P0 \subseteq s.selected /\ s.selected \subseteq Available
      /\ TaskRequired \subseteq s.selected /\ Tokens(s.selected, lib.expand) <= lib.budget
  BY <1>2 DEF SelectionInv, Mandatory
<1>7. Supports(Items, s.selected) # {}
  <2> DEFINE M == closed \cap MarkersOf(Items)
  <2>1. /\ pending = {} /\ Missing(closed) = {} /\ AtomsIn(closed) = s.selected
        /\ Conflicts(lib, Items, closed) = {} /\ edges = RequiresEdges(lib, Items)
    BY <1>2 DEF SelectionInv, Final
  <2>2. IsClosed(closed)
    BY <2>1, LoopEnds DEF Inv, ClosureIsLeast
  <2>3. Available \subseteq Atoms
    BY LibrariesAreLibraries, <1>3, AdmittedIsItems DEF Available, AdmittedAtoms, IsItems, Inv, Typed
  <2>4. closed = NodesOf(s.selected) \cup M
    BY <2>1, <2>3 DEF Missing, AtomsIn, NodesOf
  <2> HIDE DEF M
  <2>5. closed \in Supports(Items, s.selected)
    BY <2>1, <2>2, <2>4 DEF Supports, IsClosed, M
  <2> QED BY <2>5
<1> HIDE DEF v
<1>8. Items = s.admission.items /\ Available = AdmittedAtoms(Items)
      /\ RootAtoms = Roots(lib, Items)
  BY DEF Items, Available, RootAtoms
<1>9. /\ { a \in Available : lib.class[a] = 0 } \subseteq s.selected
      /\ { a \in Available \cap lib.matched : lib.class[a] = 1 } \subseteq s.selected
      /\ lib.required \cup RootAtoms \subseteq s.selected
  BY <1>6 DEF P0, P1, TaskRequired
<1>10. Preserves(v)
  BY <1>3, <1>4, <1>5, <1>6, <1>7, <1>8, <1>9 DEF Preserves
<1> QED BY <1>10 DEF v

(* Nothing that matches is left to try, and what was tried does not fit. *)
LEMMA DeliveredReasons ==
    ASSUME Inv, s.pc = "admit", s.phase = "final"
    PROVE  ReasonsAreTrue(Result(TRUE, "", FALSE, TRUE, s))
<1>1. SelectionInv /\ s.round = "last"
  BY DEF Inv, SelectionInv
<1>2. ReasonsSoFar
  BY <1>1 DEF SelectionInv
<1> DEFINE v == Result(TRUE, "", FALSE, TRUE, s)
<1>3. /\ v.admission = s.admission /\ v.manifest.selected = s.selected
      /\ v.manifest.reasons = s.reasons
  BY DEF Result
<1> HIDE DEF v
<1>4. ASSUME NEW a \in Available \ s.selected
      PROVE  IF a \in lib.matched
             THEN s.reasons[a] = "BUDGET_EXCLUDED" /\ OverBudget(Items, s.selected, a)
             ELSE s.reasons[a] = "NOT_RELEVANT"
  BY <1>1, <1>2 DEF ReasonsSoFar, ReasonsFor, Candidates
<1> QED BY <1>3, <1>4 DEF ReasonsAreTrue, Items, Available, v

(* Wherever a session stands, it may fail. *)
LEMMA MayFail == ASSUME Inv, NEW code, Fail(s, code) PROVE Kept
  BY FailKeeps DEF Inv, Typed, AdmissionInv, Items

(* _result returns the view, unless the replay differs.                    *)
LEMMA DeliverKeeps ==
    ASSUME Inv, s.pc = "admit", s.todo = {}, s.phase = "final", Resolution = s.admission, Deliver
    PROVE  Kept
<1> DEFINE v == Result(TRUE, "", FALSE, TRUE, s)
<1>1. Fail(s, "REPLAY_MISMATCH") \/ Return(v)
  BY DEF Deliver
<1>2. ASSUME Return(v) PROVE Kept
  <2>1. Preserves(v) /\ ReasonsAreTrue(v)
    BY DeliveredPreserves, DeliveredReasons
  <2>2. v.during = s.during /\ v.disclosed \subseteq Pairs
    BY DEF Result
  <2> HIDE DEF v
  <2>3. Discloses(v)
    BY <2>2, AdmittedIsVouched
  <2> QED BY <1>2, <2>1, <2>3, ReturnKeeps
<1> QED BY <1>1, <1>2, MayFail

(* The admission is that of the resolution that ends. *)
LEMMA AdmissionEnds ==
    ASSUME Inv, s.pc = "admit", s.phase = "admission",
           Go([s EXCEPT !.pc = "graph", !.admission = Resolution, !.round = "none"])
    PROVE  Kept
<1> DEFINE X == [s EXCEPT !.pc = "graph", !.admission = Resolution, !.round = "none"]
<1>1. /\ s' = X /\ lib' = lib /\ policy' = policy /\ views' = views /\ UNCHANGED closureVars
  BY GoFrame
<1>2. /\ DOMAIN X = DOMAIN Idle /\ X.pc = "graph" /\ X.phase = "admission"
      /\ X.admission.items = Admitted(s.passed) /\ X.round = "none" /\ X.selected = s.selected
  BY DEF Inv, Typed, Idle, Resolution
<1> HIDE DEF X
<1>3. IsItems(Admitted(s.passed)) /\ s.selected = {}
  BY AdmittedIsItems DEF Inv, AdmissionInv, SelectionInv, ReasonsSoFar
<1>4. AdmissionInv'
  BY <1>1, <1>2, <1>3 DEF AdmissionInv, Items, IsItems
<1>5. SelectionInv'
  BY <1>1, <1>2, <1>3 DEF SelectionInv, Stage, Mandatory, Final, ReasonsSoFar
<1> QED BY <1>1, <1>2, <1>4, <1>5, SameLoop, QuietKeeps DEF Inv, Typed

(* The end of a resolution, in each phase of the call.                     *)
LEMMA ResolvedKeeps == ASSUME Inv, Resolved PROVE Kept
<1>0. s.pc = "admit" /\ s.todo = {} /\ s.phase \in {"admission", "final", "recheck"}
  BY DEF Resolved, Inv, Typed
<1>1. CASE s.phase = "recheck"
  <2> DEFINE v == Result(FALSE, s.code, policy # s.before \/ Resolution # s.admission,
                         HasGraph(s), s)
  <2>1. Return(v)
    BY <1>1 DEF Resolved
  <2>2. v.valid = FALSE /\ v.during = s.during /\ v.disclosed \subseteq Pairs
    BY DEF Result
  <2>3. v.disclosed # {} => Resolution = s.admission
    BY DEF Result
  <2> HIDE DEF v
  <2>4. Discloses(v)
    BY <1>0, <2>2, <2>3, AdmittedIsVouched DEF Discloses
  <2> QED BY <2>1, <2>2, <2>4, ReturnKeeps
<1>2. CASE s.phase # "recheck" /\ policy # s.before
  BY <1>0, <1>2, MayFail DEF Resolved
<1>3. CASE s.phase = "admission" /\ policy = s.before
  BY <1>0, <1>3, AdmissionEnds DEF Resolved
<1>4. CASE s.phase = "final" /\ policy = s.before
  <2>1. IF Resolution = s.admission THEN Deliver ELSE Fail(s, "POLICY_SNAPSHOT_CHANGED")
    BY <1>0, <1>4 DEF Resolved
  <2> QED BY <1>0, <1>4, <2>1, DeliverKeeps, MayFail
<1> QED BY <1>0, <1>1, <1>2, <1>3, <1>4

-----------------------------------------------------------------------------
(* Only a session that has not failed goes on from here, and its admission *)
(* is complete.                                                            *)
LEMMA Working ==
    ASSUME Inv, s.pc \in {"graph", "sources", "close", "expand"}
    PROVE  /\ s.phase = "admission" /\ IsItems(Items) /\ Stage /\ Mandatory /\ Final
           /\ ReasonsSoFar
           /\ s.round # "none" => edges = RequiresEdges(lib, Items)
           /\ s.pc = "close" => seeds = NodesOf(SeedAtoms)
           /\ s.round = "rest" /\ s.pc = "close" => s.item \in Candidates(s)
<1>1. s.phase # "recheck"
  BY DEF Inv, SelectionInv
<1>2. Stage
  BY <1>1 DEF Inv, SelectionInv
<1>3. s.phase = "admission"
  BY <1>1, <1>2 DEF Inv, Typed, SelectionInv, Stage
<1> QED BY <1>1, <1>3 DEF Inv, SelectionInv, AdmissionInv

(* A step of such a session that leaves the closure alone. *)
LEMMA WorkingGoes ==
    ASSUME Inv, s.pc \in {"graph", "sources", "close", "expand"}, NEW X, Go(X),
           DOMAIN X = DOMAIN Idle, X.admission = s.admission, X.phase \in {"admission", "final"},
           X.round # "none", X.pc # "admit", SelectionInv'
    PROVE  Kept
<1>1. /\ s' = X /\ lib' = lib /\ policy' = policy /\ views' = views /\ UNCHANGED closureVars
  BY GoFrame
<1>2. AdmissionInv'
  <2>1. IsItems(Items)
    BY Working
  <2>2. ~(X.phase = "admission" /\ X.pc \in {"idle", "snapshot"})
    BY <1>1 DEF SelectionInv, Stage
  <2> QED BY <1>1, <2>1, <2>2, SameGraph DEF AdmissionInv
<1> QED BY <1>1, <1>2, SameLoop, QuietKeeps DEF Inv, Typed

(* The start of close_atoms, for the session of a round. *)
LEMMA CloseFrame ==
    ASSUME Inv, s.pc \in {"sources", "close", "expand"},
           NEW X, NEW atoms \in SUBSET Atoms, Close(X, atoms), DOMAIN X = DOMAIN Idle,
           X.phase = "admission", X.admission = s.admission
    PROVE  /\ s' = [X EXCEPT !.pc = "close"] /\ lib' = lib /\ seeds' = NodesOf(atoms)
           /\ edges' = edges
           /\ SelectionInv' => Kept
<1>1. /\ s' = [X EXCEPT !.pc = "close"] /\ lib' = lib /\ policy' = policy /\ views' = views
      /\ seeds' = NodesOf(atoms) /\ closed' = NodesOf(atoms) /\ pending' = NodesOf(atoms)
      /\ edges' = edges
  BY DEF Close, environment
<1>2. DOMAIN s' = DOMAIN Idle /\ s'.pc = "close" /\ s'.phase = "admission"
      /\ s'.admission = s.admission
  BY <1>1 DEF Idle
<1>3. NodesOf(atoms) \subseteq Nodes
  BY NodesAssumption DEF NodesOf, GraphNodes
<1>4. LoopInv'
  BY <1>1, <1>3 DEF Inv, LoopInv, ClosureTypeOK, IsClosed
<1>5. AdmissionInv'
  <2>1. IsItems(Items)
    BY Working
  <2> QED BY <1>1, <1>2, <2>1, SameGraph DEF AdmissionInv
<1> QED BY <1>1, <1>2, <1>4, <1>5, QuietKeeps DEF Inv, Typed

(* resolve_graph: the edges are those of the admission.                    *)
LEMMA AssembleKeeps == ASSUME Inv, Assemble PROVE Kept
<1>1. CASE GraphErrors(lib, Items) # {}
  BY <1>1, MayFail DEF Assemble
<1>2. CASE GraphErrors(lib, Items) = {}
  <2> DEFINE X == [s EXCEPT !.pc = "sources", !.todo = Pairs, !.round = "first"]
  <2>1. /\ s' = X /\ lib' = lib /\ policy' = policy /\ views' = views /\ s.pc = "graph"
        /\ edges' = RequiresEdges(lib, Items)
        /\ seeds' = {} /\ closed' = {} /\ pending' = {}
    BY <1>2 DEF Assemble, environment
  <2>2. /\ DOMAIN X = DOMAIN Idle /\ X.pc = "sources" /\ X.round = "first"
        /\ X.phase = s.phase /\ X.admission = s.admission /\ X.selected = s.selected
    BY DEF Inv, Typed, Idle
  <2> HIDE DEF X
  <2>3. /\ s.phase = "admission" /\ IsItems(Items) /\ s.round = "none" /\ s.selected = {}
    BY <2>1, Working DEF Stage, ReasonsSoFar
  <2>4. LoopInv'
    BY <2>1, <2>3, GraphIsTyped DEF Inv, Typed, LoopInv, ClosureTypeOK, IsClosed
  <2>5. AdmissionInv'
    BY <2>1, <2>2, <2>3, SameGraph DEF AdmissionInv
  <2>6. SelectionInv'
    BY <2>1, <2>2, <2>3, SameGraph
       DEF SelectionInv, Stage, Mandatory, Final, ReasonsSoFar
  <2> QED BY <2>1, <2>2, <2>3, <2>4, <2>5, <2>6, QuietKeeps DEF Inv, Typed
<1> QED BY <1>1, <1>2

(* Reading a source changes what is left to read only.                     *)
LEMMA ReadSourceKeeps == ASSUME Inv, ReadSource PROVE Kept
<1> DEFINE p == CHOOSE x \in s.todo : TRUE
           X == [s EXCEPT !.todo = s.todo \ {p}]
<1>1. s.pc = "sources" /\ (Go(X) \/ \E code : Fail(s, code))
  BY DEF ReadSource, Inv, Typed, Idle
<1>2. ASSUME Go(X) PROVE Kept
  <2>1. s' = X /\ lib' = lib /\ UNCHANGED closureVars
    BY <1>2, GoFrame
  <2>2. /\ DOMAIN X = DOMAIN Idle /\ X.pc = s.pc /\ X.round = s.round /\ X.phase = s.phase
        /\ X.admission = s.admission /\ X.selected = s.selected /\ X.reasons = s.reasons
    BY DEF Inv, Typed, Idle
  <2> HIDE DEF X
  <2>3. s.phase = "admission" /\ s.round \in {"first", "last"}
    BY <1>1, Working DEF Stage
  <2>4. Candidates(s)' = Candidates(s)
    BY <2>1, <2>2, SameGraph DEF Candidates
  <2>5. Stage' /\ Mandatory'
    BY <1>1, <2>1, <2>2, <2>3, SameGraph, Working DEF Stage, Mandatory, Tokens
  <2>6. Final'
    BY <1>1, <2>1, <2>2, SameGraph, Working DEF Final, Missing, MarkersOf, closureVars
  <2>7. ReasonsSoFar'
    BY <1>1, <2>1, <2>2, <2>4, SameGraph, Working
       DEF ReasonsSoFar, ReasonsFor
  <2>8. SelectionInv'
    BY <1>1, <2>1, <2>2, <2>3, <2>5, <2>6, <2>7, SameGraph, Working
       DEF SelectionInv, closureVars
  <2> QED BY <1>1, <1>2, <2>1, <2>2, <2>3, <2>8, WorkingGoes
<1> QED BY <1>1, <1>2, MayFail

(* What a graph brings are atoms. *)
LEMMA GraphAtoms ==
    ASSUME lib \in Libraries, IsItems(Items)
    PROVE  /\ Available \subseteq Atoms /\ RootAtoms \subseteq Atoms
           /\ P0 \subseteq Available /\ TaskRequired \subseteq Atoms
<1>1. Available \subseteq Atoms
  BY LibrariesAreLibraries DEF IsItems, Available, AdmittedAtoms
<1>2. RootAtoms \subseteq Atoms
  BY LibrariesAreLibraries DEF IsItems, RootAtoms, Roots, RootProviders, Complete
<1> QED BY <1>1, <1>2, LibrariesAreLibraries DEF P0, P1, TaskRequired

(* The sources are read: the first closure, or the last resolution.        *)
LEMMA SourcesReadKeeps == ASSUME Inv, SourcesRead PROVE Kept
<1>0. s.pc = "sources"
  BY DEF SourcesRead
<1>1. CASE s.round = "first" /\ Close([s EXCEPT !.round = "check"], RootAtoms \cup lib.required)
  <2> DEFINE X == [s EXCEPT !.round = "check"]
             A == RootAtoms \cup lib.required
  <2>1. /\ DOMAIN X = DOMAIN Idle /\ X.phase = "admission" /\ X.admission = s.admission
        /\ X.round = "check" /\ X.selected = s.selected
    BY <1>0, Working DEF Inv, Typed, Idle
  <2> HIDE DEF X
  <2>2. A \in SUBSET Atoms
    BY <1>0, Working, GraphAtoms, LibrariesAreLibraries DEF Inv, Typed
  <2>3. /\ s' = [X EXCEPT !.pc = "close"] /\ lib' = lib /\ seeds' = NodesOf(A)
        /\ edges' = edges /\ (SelectionInv' => Kept)
    BY <1>0, <1>1, <2>1, <2>2, CloseFrame DEF X
  <2>4. /\ s'.pc = "close" /\ s'.phase = "admission" /\ s'.round = "check"
        /\ s'.admission = s.admission /\ s'.selected = s.selected
    BY <2>1, <2>3 DEF Idle
  <2>5. SelectionInv'
    BY <1>0, <1>1, <2>3, <2>4, Working, SameGraph
       DEF SelectionInv, Stage, Mandatory, Final, ReasonsSoFar, SeedAtoms
  <2> QED BY <2>3, <2>5
<1>2. CASE \E code : Fail(s, code)
  BY <1>2, MayFail
<1>3. CASE s.round = "last" /\ s.todo = {} /\ Go([s EXCEPT !.pc = "snapshot", !.phase = "final"])
  <2> DEFINE X == [s EXCEPT !.pc = "snapshot", !.phase = "final"]
  <2>1. s' = X /\ lib' = lib /\ UNCHANGED closureVars
    BY <1>3, GoFrame
  <2>2. /\ DOMAIN X = DOMAIN Idle /\ X.pc = "snapshot" /\ X.round = "last" /\ X.phase = "final"
        /\ X.admission = s.admission /\ X.selected = s.selected /\ X.reasons = s.reasons
    BY <1>3 DEF Inv, Typed, Idle
  <2> HIDE DEF X
  <2>4. Candidates(s)' = Candidates(s)
    BY <2>1, <2>2, SameGraph DEF Candidates
  <2>5. Stage' /\ Mandatory'
    BY <1>0, <1>3, <2>1, <2>2, SameGraph, Working DEF Stage, Mandatory, Tokens
  <2>6. Final'
    BY <1>0, <1>3, <2>1, <2>2, SameGraph, Working DEF Final, Missing, MarkersOf, closureVars
  <2>7. ReasonsSoFar'
    BY <1>0, <1>3, <2>1, <2>2, <2>4, SameGraph, Working
       DEF ReasonsSoFar, ReasonsFor
  <2>8. SelectionInv'
    BY <1>0, <1>3, <2>1, <2>2, <2>5, <2>6, <2>7, SameGraph, Working DEF SelectionInv, closureVars
  <2> QED BY <1>0, <1>3, <2>1, <2>2, <2>8, WorkingGoes DEF X
<1> QED BY <1>1, <1>2, <1>3 DEF SourcesRead

(* One turn of the loop. *)
LEMMA WorkKeeps == ASSUME Inv, Work PROVE Kept
<1>1. /\ s.pc = "close" /\ ClosureNext /\ s' = s /\ lib' = lib /\ policy' = policy
      /\ views' = views /\ edges' = edges /\ seeds' = seeds
  BY DEF Work, environment, ClosureNext, Pop
<1>2. LoopInv'
  BY <1>1, LoopTurns DEF Inv
<1>3. AdmissionInv'
  BY <1>1, Working, SameGraph DEF AdmissionInv
<1>4. s.round # "last" /\ s.phase = "admission"
  BY <1>1, Working DEF Stage
<1>5. /\ Candidates(s)' = Candidates(s) /\ SeedAtoms' = SeedAtoms
  BY <1>1, SameGraph DEF Candidates, SeedAtoms
<1>6. ReasonsSoFar'
  BY <1>1, <1>5, SameGraph, Working
     DEF ReasonsSoFar, ReasonsFor
<1>7. Stage' /\ Mandatory' /\ Final'
  BY <1>1, <1>4, SameGraph, Working DEF Stage, Mandatory, Final, Tokens
<1>8. SelectionInv'
  BY <1>1, <1>4, <1>5, <1>6, <1>7, SameGraph, Working DEF SelectionInv
<1> QED BY <1>1, <1>2, <1>3, <1>8, QuietKeeps DEF Inv, Typed

-----------------------------------------------------------------------------
(* When close_atoms has ended: it holds what it began with, and atoms of   *)
(* the graph only.                                                         *)
LEMMA Reached ==
    ASSUME Inv, s.pc = "close", pending = {}, Missing(closed) = {}, SeedAtoms \subseteq Atoms
    PROVE  SeedAtoms \subseteq AtomsIn(closed) /\ AtomsIn(closed) \subseteq Available
<1>1. NodesOf(SeedAtoms) \subseteq closed
  BY Working, LoopEnds DEF Inv, ClosureIsLeast
<1>2. SeedAtoms \subseteq AtomsIn(closed)
  BY <1>1 DEF NodesOf, AtomsIn
<1>3. ASSUME NEW a \in AtomsIn(closed) PROVE a \in Available
  BY DEF Missing, AtomsIn, NodesOf, MarkersOf, AtomNode, Presence, Unit
<1> QED BY <1>2, <1>3

(* No selection that contains the seeds of a closure is smaller. *)
LEMMA NoSmaller ==
    ASSUME Inv, s.pc = "close", pending = {}, NEW T \in SUBSET Available,
           SeedAtoms \subseteq T, Supports(Items, T) # {}
    PROVE  AtomsIn(closed) \subseteq T
<1>1. PICK N \in Supports(Items, T) : TRUE
  OBVIOUS
<1>2. PICK M \in SUBSET MarkersOf(Items) : N = NodesOf(T) \cup M
  BY <1>1 DEF Supports
<1>3. Available \subseteq Atoms /\ IsItems(Items)
  BY Working, GraphAtoms DEF Inv, Typed
<1>4. N \in SUBSET Nodes
  BY <1>2, <1>3, NodesAssumption DEF NodesOf, MarkersOf, IsItems, GraphNodes
<1>5. edges = RequiresEdges(lib, Items) /\ seeds = NodesOf(SeedAtoms)
  BY Working DEF Stage
<1>6. IsClosed(N) /\ seeds \subseteq N
  BY <1>1, <1>2, <1>5 DEF Supports, IsClosed, NodesOf
<1>7. closed \subseteq N
  BY <1>4, <1>6 DEF Inv, LoopInv
<1> QED BY <1>2, <1>7 DEF AtomsIn, NodesOf, MarkersOf, AtomNode, Presence, Unit

(* So a candidate whose closure is over budget is over budget for good. *)
LEMMA DoesNotFit ==
    ASSUME Inv, s.pc = "close", s.round = "rest", pending = {},
           Tokens(AtomsIn(closed), {}) > lib.budget
    PROVE  OverBudget(Items, s.selected, s.item)
<1> SUFFICES ASSUME NEW T \in SUBSET AdmittedAtoms(Items), s.selected \cup {s.item} \subseteq T,
                    Supports(Items, T) # {}
             PROVE  Tokens(T, {}) > lib.budget
  BY DEF OverBudget
<1>1. T \in SUBSET Available /\ SeedAtoms \subseteq T
  BY DEF Available, SeedAtoms
<1>2. AtomsIn(closed) \subseteq T
  BY <1>1, NoSmaller
<1>3. IsFiniteSet(T)
  BY <1>1, Working, GraphAtoms, NodesAssumption, FS_Subset DEF Inv, Typed
<1>4. /\ Cardinality(AtomsIn(closed)) <= Cardinality(T)
      /\ Cardinality(AtomsIn(closed)) \in Nat /\ Cardinality(T) \in Nat
      /\ Cardinality({}) = 0
  BY <1>2, <1>3, FS_Subset, FS_CardinalityType, FS_EmptySet
<1>5. lib.budget \in Nat
  BY LibrariesAreLibraries DEF Inv, Typed
<1> QED BY <1>4, <1>5 DEF Tokens

(* A closure counts its tokens: it fits or it does not. *)
LEMMA FitsOrNot ==
    ASSUME Inv, ~(Tokens(AtomsIn(closed), {}) > lib.budget)
    PROVE  Tokens(AtomsIn(closed), {}) <= lib.budget
<1>1. IsFiniteSet(AtomsIn(closed)) /\ lib.budget \in Nat
  BY NodesAssumption, FS_Subset, LibrariesAreLibraries DEF AtomsIn, Inv, Typed
<1> QED BY <1>1, FS_CardinalityType, FS_EmptySet DEF Tokens

(* Reasons stay true when the selection grows. *)
LEMMA GrownReasons ==
    ASSUME ReasonsFor(s.reasons, s.selected), NEW seedAtoms, NEW reason, NEW atoms,
           s.selected \subseteq atoms
    PROVE  ReasonsFor(Reasons(s, seedAtoms, reason, atoms), atoms)
  BY DEF ReasonsFor, Reasons, OverBudget

(* A session that has made its mandatory selection goes to the next        *)
(* candidate, or to the expansion.                                         *)
LEMMA NextKeeps ==
    ASSUME Inv, s.pc = "close", s.round # "none", NEW X, DOMAIN X = DOMAIN Idle,
           X.phase = "admission", X.admission = s.admission, X.round \in {"P1", "rest"},
           P0 \cup TaskRequired \subseteq X.selected, X.selected \subseteq Available,
           Tokens(X.selected, {}) <= lib.budget, ReasonsFor(X.reasons, X.selected),
           NextCandidate(X)
    PROVE  Kept
<1>1. edges = RequiresEdges(lib, Items) /\ Available \subseteq Atoms
  BY Working, GraphAtoms DEF Inv, Typed
<1>2. CASE Candidates(X) = {}
  <2> DEFINE Y == [X EXCEPT !.pc = "expand"]
  <2>1. Go(Y)
    BY <1>2 DEF NextCandidate
  <2>2. /\ s' = Y /\ lib' = lib /\ UNCHANGED closureVars
    BY <2>1, GoFrame
  <2>3. /\ DOMAIN Y = DOMAIN Idle /\ Y.pc = "expand" /\ Y.round = X.round
        /\ Y.phase = "admission" /\ Y.admission = s.admission /\ Y.selected = X.selected
        /\ Y.reasons = X.reasons
    BY DEF Idle
  <2> HIDE DEF Y
  <2>4. Candidates(s)' = {}
    BY <1>2, <2>2, <2>3, SameGraph DEF Candidates
  <2>5. ReasonsSoFar'
    BY <2>2, <2>3, <2>4, SameGraph DEF ReasonsSoFar, ReasonsFor
  <2>6. Stage' /\ Mandatory' /\ Final'
    BY <2>2, <2>3, SameGraph DEF Stage, Mandatory, Final, Tokens
  <2>7. SelectionInv'
    BY <1>1, <2>2, <2>3, <2>5, <2>6, SameGraph DEF SelectionInv, closureVars
  <2> QED BY <2>1, <2>2, <2>3, <2>7, WorkingGoes
<1>3. ASSUME NEW a \in Candidates(X), TryCandidate(X, a) PROVE Kept
  <2> DEFINE Y == [X EXCEPT !.item = a, !.round = "rest"]
             A == X.selected \cup {a}
  <2>1. Close(Y, A)
    BY <1>3 DEF TryCandidate
  <2>2. /\ DOMAIN Y = DOMAIN Idle /\ Y.item = a /\ Y.round = "rest"
        /\ Y.phase = "admission" /\ Y.admission = s.admission /\ Y.selected = X.selected
        /\ Y.reasons = X.reasons
    BY DEF Idle
  <2> HIDE DEF Y
  <2>3. a \in Available /\ A \in SUBSET Atoms
    BY <1>1, <1>3 DEF Candidates
  <2>4. /\ s' = [Y EXCEPT !.pc = "close"] /\ lib' = lib /\ seeds' = NodesOf(A)
        /\ edges' = edges /\ (SelectionInv' => Kept)
    BY <2>1, <2>2, <2>3, CloseFrame
  <2>5. /\ s'.pc = "close" /\ s'.phase = "admission" /\ s'.round = "rest" /\ s'.item = a
        /\ s'.admission = s.admission /\ s'.selected = X.selected /\ s'.reasons = X.reasons
    BY <2>2, <2>4 DEF Idle
  <2>6. s'.item \in Candidates(s)'
    BY <1>3, <2>4, <2>5, SameGraph DEF Candidates
  <2>7. ReasonsSoFar'
    BY <2>4, <2>5, SameGraph DEF ReasonsSoFar, ReasonsFor
  <2>8. Stage' /\ Mandatory' /\ Final' /\ SeedAtoms' = A
    BY <2>4, <2>5, SameGraph DEF Stage, Mandatory, Final, Tokens, SeedAtoms
  <2>9. (edges = RequiresEdges(lib, Items))' /\ (seeds = NodesOf(SeedAtoms))'
    BY <1>1, <2>4, <2>5, <2>8, SameGraph
  <2>10. SelectionInv'
    BY <2>5, <2>6, <2>7, <2>8, <2>9 DEF SelectionInv
  <2> QED BY <2>4, <2>10
<1> QED BY <1>2, <1>3 DEF NextCandidate

(* The ranked atoms start as not relevant, and the P0 closure starts.      *)
LEMMA RankKeeps == ASSUME Inv, s.pc = "close", Rank PROVE Kept
<1>1. CASE Close([s EXCEPT !.round = "P0", !.reasons = [a \in Available |-> "NOT_RELEVANT"]], P0)
  <2> DEFINE X == [s EXCEPT !.round = "P0", !.reasons = [a \in Available |-> "NOT_RELEVANT"]]
  <2>1. /\ DOMAIN X = DOMAIN Idle /\ X.phase = "admission" /\ X.admission = s.admission
        /\ X.round = "P0" /\ X.selected = s.selected
        /\ X.reasons = [a \in Available |-> "NOT_RELEVANT"]
    BY Working DEF Inv, Typed, Idle
  <2>2. s.selected = {} /\ edges = RequiresEdges(lib, Items) /\ P0 \in SUBSET Atoms
    BY Working, GraphAtoms DEF Rank, ReasonsSoFar, Inv, Typed
  <2>3. /\ s' = [X EXCEPT !.pc = "close"] /\ lib' = lib /\ seeds' = NodesOf(P0)
        /\ edges' = edges /\ (SelectionInv' => Kept)
    BY <1>1, <2>1, <2>2, CloseFrame
  <2> HIDE DEF X
  <2>4. /\ s'.pc = "close" /\ s'.phase = "admission" /\ s'.round = "P0"
        /\ s'.admission = s.admission /\ s'.selected = {}
        /\ s'.reasons = [a \in Available |-> "NOT_RELEVANT"]
    BY <2>1, <2>2, <2>3 DEF Idle
  <2>5. ReasonsSoFar'
    BY <2>3, <2>4, SameGraph DEF ReasonsSoFar, ReasonsFor
  <2>6. SelectionInv'
    BY <2>2, <2>3, <2>4, <2>5, SameGraph DEF SelectionInv, Stage, Mandatory, Final, SeedAtoms
  <2> QED BY <2>3, <2>6
<1> QED BY <1>1, MayFail DEF Rank

(* A failing mandatory closure is kept for the decisions of the failure. *)
LEMMA MandatoryFailsKeeps ==
    ASSUME Inv, s.pc = "close", NEW seedAtoms, NEW reason, NEW overflow,
           MandatoryFails(seedAtoms, reason, overflow)
    PROVE  Kept
<1> DEFINE X == Chosen(seedAtoms, reason)
<1>1. DOMAIN X = DOMAIN Idle /\ X.admission = s.admission /\ IsItems(s.admission.items)
  BY Working DEF Chosen, Inv, Typed, Idle, Items
<1> HIDE DEF X
<1> QED BY <1>1, FailKeeps, MayFail DEF MandatoryFails, X

(* A mandatory closure that fits: it has grown from the selection.         *)
LEMMA ChosenIsGood ==
    ASSUME Inv, s.pc = "close", pending = {}, Missing(closed) = {}, s.round \in {"P0", "P1"},
           MandatoryFits, NEW seedAtoms, NEW reason
    PROVE  LET X == Chosen(seedAtoms, reason)
           IN  /\ DOMAIN X = DOMAIN Idle /\ X.phase = "admission" /\ X.admission = s.admission
               /\ X.round = s.round /\ X.selected = AtomsIn(closed)
               /\ SeedAtoms \subseteq X.selected /\ X.selected \subseteq Available
               /\ Tokens(X.selected, {}) <= lib.budget /\ ReasonsFor(X.reasons, X.selected)
<1> DEFINE X == Chosen(seedAtoms, reason)
<1>1. /\ DOMAIN X = DOMAIN Idle /\ X.phase = "admission" /\ X.admission = s.admission
      /\ X.round = s.round /\ X.selected = AtomsIn(closed)
      /\ X.reasons = Reasons(s, seedAtoms, reason, AtomsIn(closed))
  BY Working DEF Chosen, Inv, Typed, Idle
<1>2. s.selected \subseteq SeedAtoms /\ SeedAtoms \subseteq Atoms
  BY Working, GraphAtoms DEF SeedAtoms, ReasonsSoFar, Mandatory, Inv, Typed
<1>3. SeedAtoms \subseteq AtomsIn(closed) /\ AtomsIn(closed) \subseteq Available
  BY <1>2, Reached
<1>4. ReasonsFor(X.reasons, AtomsIn(closed))
  BY <1>1, <1>2, <1>3, Working, GrownReasons DEF ReasonsSoFar
<1> HIDE DEF X
<1> QED BY <1>1, <1>3, <1>4 DEF MandatoryFits, X

(* The P0 closure is taken, and what the task requires is closed.          *)
LEMMA CloseTaskKeeps ==
    ASSUME Inv, s.pc = "close", pending = {}, Missing(closed) = {}, s.round = "P0",
           MandatoryFits, CloseTask(Chosen(P0, "P0_REQUIRED"))
    PROVE  Kept
<1> DEFINE C == Chosen(P0, "P0_REQUIRED")
           X == [C EXCEPT !.round = "P1"]
           A == C.selected \cup TaskRequired
<1>1. /\ DOMAIN C = DOMAIN Idle /\ C.phase = "admission" /\ C.admission = s.admission
      /\ P0 \subseteq C.selected /\ C.selected \subseteq Available
      /\ Tokens(C.selected, {}) <= lib.budget /\ ReasonsFor(C.reasons, C.selected)
  BY ChosenIsGood DEF SeedAtoms
<1>2. Close(X, A)
  BY DEF CloseTask
<1> HIDE DEF C
<1>3. /\ DOMAIN X = DOMAIN Idle /\ X.phase = "admission" /\ X.admission = s.admission
      /\ X.round = "P1" /\ X.selected = C.selected /\ X.reasons = C.reasons
  BY <1>1 DEF Idle
<1> HIDE DEF X
<1>4. A \in SUBSET Atoms /\ edges = RequiresEdges(lib, Items)
  BY <1>1, Working, GraphAtoms DEF Inv, Typed
<1>5. /\ s' = [X EXCEPT !.pc = "close"] /\ lib' = lib /\ seeds' = NodesOf(A)
      /\ edges' = edges /\ (SelectionInv' => Kept)
  BY <1>2, <1>3, <1>4, CloseFrame
<1>6. /\ s'.pc = "close" /\ s'.phase = "admission" /\ s'.round = "P1"
      /\ s'.admission = s.admission /\ s'.selected = C.selected /\ s'.reasons = C.reasons
  BY <1>3, <1>5 DEF Idle
<1>7. ReasonsSoFar'
  BY <1>1, <1>5, <1>6, SameGraph DEF ReasonsSoFar, ReasonsFor
<1>8. Stage' /\ Mandatory' /\ Final' /\ SeedAtoms' = A
  BY <1>1, <1>5, <1>6, SameGraph DEF Stage, Mandatory, Final, Tokens, SeedAtoms
<1>9. (edges = RequiresEdges(lib, Items))' /\ (seeds = NodesOf(SeedAtoms))'
  BY <1>4, <1>5, <1>6, <1>8, SameGraph
<1>10. SelectionInv'
  BY <1>6, <1>7, <1>8, <1>9 DEF SelectionInv
<1> QED BY <1>5, <1>10

(* What the task requires is taken, and the loop starts.                   *)
LEMMA TaskClosedKeeps ==
    ASSUME Inv, s.pc = "close", pending = {}, Missing(closed) = {}, s.round = "P1",
           MandatoryFits, NextCandidate(Chosen(TaskRequired, "TASK_REQUIRED"))
    PROVE  Kept
<1> DEFINE C == Chosen(TaskRequired, "TASK_REQUIRED")
<1>1. /\ DOMAIN C = DOMAIN Idle /\ C.phase = "admission" /\ C.admission = s.admission
      /\ C.round = "P1" /\ SeedAtoms \subseteq C.selected /\ C.selected \subseteq Available
      /\ Tokens(C.selected, {}) <= lib.budget /\ ReasonsFor(C.reasons, C.selected)
  BY ChosenIsGood
<1>2. P0 \cup TaskRequired \subseteq C.selected
  BY <1>1, Working DEF Mandatory, SeedAtoms
<1> HIDE DEF C
<1> QED BY <1>1, <1>2, NextKeeps DEF C

(* A candidate comes in with what it requires, or is marked. *)
LEMMA RelevantKeeps ==
    ASSUME Inv, s.pc = "close", pending = {}, Missing(closed) = {}, s.round = "rest", Relevant
    PROVE  Kept
<1> DEFINE atoms == AtomsIn(closed)
<1>1. /\ P0 \cup TaskRequired \subseteq s.selected /\ s.selected \subseteq Available
      /\ Tokens(s.selected, {}) <= lib.budget /\ ReasonsFor(s.reasons, s.selected)
      /\ s.item \in Candidates(s) /\ s.phase = "admission"
  BY Working DEF Mandatory, ReasonsSoFar
<1>2. s.item \in Available /\ s.item \in lib.matched /\ Available \subseteq Atoms
  BY <1>1, Working, GraphAtoms DEF Candidates, Inv, Typed
<1>3. SeedAtoms = s.selected \cup {s.item} /\ SeedAtoms \subseteq Atoms
  BY <1>1, <1>2 DEF SeedAtoms
<1>4. SeedAtoms \subseteq atoms /\ atoms \subseteq Available
  BY <1>3, Reached
<1>5. CASE Conflicts(lib, Items, closed) # {}
  BY <1>5, MayFail DEF Relevant
<1>6. CASE Conflicts(lib, Items, closed) = {} /\ Tokens(atoms, {}) > lib.budget
  <2> DEFINE X == [s EXCEPT !.reasons[s.item] = "BUDGET_EXCLUDED"]
  <2>1. NextCandidate(X)
    BY <1>6 DEF Relevant
  <2>2. OverBudget(Items, s.selected, s.item)
    BY <1>6, DoesNotFit
  <2>3. /\ DOMAIN X = DOMAIN Idle /\ X.phase = "admission" /\ X.admission = s.admission
        /\ X.round = "rest" /\ X.selected = s.selected
        /\ X.reasons = [s.reasons EXCEPT ![s.item] = "BUDGET_EXCLUDED"]
    BY <1>1 DEF Inv, Typed, Idle
  <2> HIDE DEF X
  <2>4. ReasonsFor(X.reasons, X.selected)
    BY <1>1, <1>2, <2>2, <2>3 DEF ReasonsFor
  <2> QED BY <1>1, <2>1, <2>3, <2>4, NextKeeps
<1>7. CASE ~(Conflicts(lib, Items, closed) # {})
           /\ ~(Conflicts(lib, Items, closed) = {} /\ Tokens(atoms, {}) > lib.budget)
  <2> DEFINE X == [s EXCEPT !.selected = atoms, !.reasons = Reasons(s, {s.item}, "RELEVANT", atoms)]
  <2>1. NextCandidate(X)
    BY <1>7 DEF Relevant
  <2>2. /\ DOMAIN X = DOMAIN Idle /\ X.phase = "admission" /\ X.admission = s.admission
        /\ X.round = "rest" /\ X.selected = atoms
        /\ X.reasons = Reasons(s, {s.item}, "RELEVANT", atoms)
    BY <1>1 DEF Inv, Typed, Idle
  <2> HIDE DEF X
  <2>3. ReasonsFor(X.reasons, atoms)
    BY <1>1, <1>3, <1>4, <2>2, GrownReasons
  <2>4. Tokens(atoms, {}) <= lib.budget
    BY <1>7, FitsOrNot
  <2> QED BY <1>1, <1>3, <1>4, <2>1, <2>2, <2>3, <2>4, NextKeeps
<1> QED BY <1>5, <1>6, <1>7

(* The final check: the closure of the selection is the selection. *)
LEMMA PreservedKeeps ==
    ASSUME Inv, s.pc = "close", pending = {}, Missing(closed) = {}, s.round = "final", Preserved,
           Go([s EXCEPT !.pc = "sources", !.todo = Pairs, !.round = "last"])
    PROVE  Kept
<1> DEFINE X == [s EXCEPT !.pc = "sources", !.todo = Pairs, !.round = "last"]
<1>1. s' = X /\ lib' = lib /\ UNCHANGED closureVars
  BY GoFrame
<1>2. /\ DOMAIN X = DOMAIN Idle /\ X.pc = "sources" /\ X.round = "last" /\ X.phase = "admission"
      /\ X.admission = s.admission /\ X.selected = s.selected /\ X.reasons = s.reasons
  BY Working DEF Inv, Typed, Idle
<1>3. Go(X)
  OBVIOUS
<1> HIDE DEF X
<1>4. Candidates(s)' = Candidates(s)
  BY <1>1, <1>2, SameGraph DEF Candidates
<1>5. Stage' /\ Mandatory'
  BY <1>1, <1>2, SameGraph, Working DEF Stage, Mandatory, Tokens
<1>6. Final'
  BY <1>1, <1>2, SameGraph DEF Final, Preserved, Missing, MarkersOf, closureVars
<1>7. ReasonsSoFar'
  BY <1>1, <1>2, <1>4, SameGraph, Working
     DEF ReasonsSoFar, ReasonsFor
<1>8. SelectionInv'
  BY <1>1, <1>2, <1>5, <1>6, <1>7, SameGraph, Working DEF SelectionInv, closureVars
<1> QED BY <1>1, <1>2, <1>3, <1>8, WorkingGoes

(* The end of a closure, in each round.                                    *)
LEMMA ClosedKeeps == ASSUME Inv, Closed PROVE Kept
<1>0. s.pc = "close" /\ pending = {}
  BY DEF Closed
<1>1. CASE Missing(closed) # {}
  BY <1>1, MayFail DEF Closed
<1>2. CASE Missing(closed) = {}
  <2>1. CASE Rank
    BY <1>0, <2>1, RankKeeps
  <2>2. CASE s.round = "P0" /\ MandatoryFails(P0, "P0_REQUIRED", "P0_OVERFLOW")
    BY <1>0, <2>2, MandatoryFailsKeeps
  <2>3. CASE s.round = "P0" /\ MandatoryFits /\ CloseTask(Chosen(P0, "P0_REQUIRED"))
    BY <1>0, <1>2, <2>3, CloseTaskKeeps
  <2>4. CASE s.round = "P1" /\ MandatoryFails(TaskRequired, "TASK_REQUIRED", "P1_OVERFLOW")
    BY <1>0, <2>4, MandatoryFailsKeeps
  <2>5. CASE s.round = "P1" /\ MandatoryFits
             /\ NextCandidate(Chosen(TaskRequired, "TASK_REQUIRED"))
    BY <1>0, <1>2, <2>5, TaskClosedKeeps
  <2>6. CASE s.round = "rest" /\ Relevant
    BY <1>0, <1>2, <2>6, RelevantKeeps
  <2>7. CASE s.round = "final" /\ Preserved
             /\ Go([s EXCEPT !.pc = "sources", !.todo = Pairs, !.round = "last"])
    BY <1>0, <1>2, <2>7, PreservedKeeps
  <2>8. CASE Fail(s, "FINAL_PRESERVATION_FAILED")
    BY <2>8, MayFail
  <2> QED BY <1>2, <2>1, <2>2, <2>3, <2>4, <2>5, <2>6, <2>7, <2>8 DEF Closed
<1> QED BY <1>1, <1>2

(* The expanded sources are counted, and the final check starts.           *)
LEMMA ExpandKeeps == ASSUME Inv, Expand PROVE Kept
<1>0. s.pc = "expand"
  BY DEF Expand
<1>1. CASE \E code : Fail(s, code)
  BY <1>1, MayFail
<1>2. CASE /\ ~(lib.expand # {} /\ Tokens(s.selected, lib.expand) > lib.budget)
           /\ Close([s EXCEPT !.round = "final"], s.selected)
  <2> DEFINE X == [s EXCEPT !.round = "final"]
  <2>1. /\ DOMAIN X = DOMAIN Idle /\ X.phase = "admission" /\ X.admission = s.admission
        /\ X.round = "final" /\ X.selected = s.selected /\ X.reasons = s.reasons
    BY <1>0, Working DEF Inv, Typed, Idle
  <2>2. Close(X, s.selected)
    BY <1>2
  <2> HIDE DEF X
  <2>3. /\ s.round \in {"P1", "rest"} /\ edges = RequiresEdges(lib, Items)
        /\ P0 \cup TaskRequired \subseteq s.selected /\ s.selected \subseteq Available
        /\ Tokens(s.selected, {}) <= lib.budget /\ ReasonsFor(s.reasons, s.selected)
        /\ Candidates(s) = {} /\ Available \subseteq Atoms
    BY <1>0, Working, GraphAtoms DEF Stage, Mandatory, ReasonsSoFar, Inv, Typed
  <2>4. Tokens(s.selected, lib.expand) <= lib.budget
    <3>1. lib.budget \in Nat /\ IsFiniteSet(lib.expand) /\ IsFiniteSet(s.selected)
      BY <2>3, LibrariesAreLibraries, NodesAssumption, FS_Subset DEF Inv, Typed
    <3>2. Tokens(s.selected, lib.expand) \in Nat
      BY <3>1, FS_CardinalityType DEF Tokens
    <3> QED BY <1>2, <2>3, <3>1, <3>2
  <2>5. /\ s' = [X EXCEPT !.pc = "close"] /\ lib' = lib /\ seeds' = NodesOf(s.selected)
        /\ edges' = edges /\ (SelectionInv' => Kept)
    BY <1>0, <2>1, <2>2, <2>3, CloseFrame
  <2>6. /\ s'.pc = "close" /\ s'.phase = "admission" /\ s'.round = "final"
        /\ s'.admission = s.admission /\ s'.selected = s.selected /\ s'.reasons = s.reasons
    BY <2>1, <2>5 DEF Idle
  <2>7. Candidates(s)' = {}
    BY <2>3, <2>5, <2>6, SameGraph DEF Candidates
  <2>8. ReasonsSoFar'
    BY <2>3, <2>5, <2>6, <2>7, SameGraph
       DEF ReasonsSoFar, ReasonsFor
  <2>9. Stage' /\ Mandatory' /\ Final' /\ SeedAtoms' = s.selected
    BY <2>3, <2>4, <2>5, <2>6, SameGraph DEF Stage, Mandatory, Final, Tokens, SeedAtoms
  <2>10. (edges = RequiresEdges(lib, Items))' /\ (seeds = NodesOf(SeedAtoms))'
    BY <2>3, <2>5, <2>6, <2>9, SameGraph
  <2>11. SelectionInv'
    BY <2>6, <2>8, <2>9, <2>10 DEF SelectionInv
  <2> QED BY <2>5, <2>11
<1> QED BY <1>1, <1>2 DEF Expand

-----------------------------------------------------------------------------
(* Others change the policy or the registry: a resolution that sees it has *)
(* seen two worlds.                                                        *)
LEMMA ProvidersChangeKeeps == ASSUME Inv, PolicyChanges \/ RegistryChanges PROVE Kept
<1> DEFINE X == [s EXCEPT !.during = IF s.pc = "admit" THEN s.during \cup {World'} ELSE s.during]
<1>1. /\ s' = X /\ lib' = lib /\ views' = views /\ UNCHANGED closureVars
      /\ policy' \in Policies \cup {None} /\ World' # World
  <2>1. /\ s' = X /\ lib' = lib /\ views' = views /\ UNCHANGED closureVars
        /\ policy' \in Policies \cup {None} /\ (policy' # policy \/ verified' # verified)
    BY DEF PolicyChanges, RegistryChanges, Seen, Change, Inv, Typed, Idle
  <2> QED BY <2>1 DEF World
<1>2. /\ DOMAIN X = DOMAIN Idle /\ X.pc = s.pc /\ X.phase = s.phase /\ X.round = s.round
      /\ X.admission = s.admission /\ X.selected = s.selected /\ X.reasons = s.reasons
      /\ X.item = s.item /\ X.before = s.before /\ X.todo = s.todo /\ X.passed = s.passed
      /\ s.pc = "admit" => X.during = s.during \cup {World'}
  BY DEF Inv, Typed, Idle
<1> HIDE DEF X
<1>3. s.pc = "admit" => Collected'
  <2> SUFFICES ASSUME s.pc = "admit" PROVE Collected'
    OBVIOUS
  <2>1. Collected
    BY DEF Inv, AdmissionInv
  <2>2. \A w : s'.during # {w}
    BY <1>1, <1>2, <2>1 DEF Collected
  <2>3. Questions' = Questions
    BY <1>1 DEF Questions
  <2>4. /\ s'.during = s.during \cup {World'} /\ s'.before = s.before
        /\ s'.todo = s.todo /\ s'.passed = s.passed
    BY <1>1, <1>2
  <2> QED BY <2>1, <2>2, <2>3, <2>4 DEF Collected
<1>4. AdmissionInv'
  BY <1>1, <1>2, <1>3, SameGraph DEF Inv, AdmissionInv
<1>5. Candidates(s)' = Candidates(s) /\ SeedAtoms' = SeedAtoms
  BY <1>1, <1>2, SameGraph DEF Candidates, SeedAtoms
<1>6. ReasonsSoFar' <=> ReasonsSoFar
  BY <1>1, <1>2, <1>5, SameGraph DEF ReasonsSoFar, ReasonsFor
<1>7. (Stage' <=> Stage) /\ (Mandatory' <=> Mandatory) /\ (Final' <=> Final)
  BY <1>1, <1>2, SameGraph DEF Stage, Mandatory, Final, Tokens, Missing, MarkersOf, closureVars
<1>8. SelectionInv'
  BY <1>1, <1>2, <1>5, <1>6, <1>7, SameGraph DEF Inv, SelectionInv, closureVars
<1> QED BY <1>1, <1>2, <1>4, <1>8, SameLoop, QuietKeeps DEF Inv, Typed

(* A step that changes neither session nor providers nor closure. *)
LEMMA ElsewhereKeeps ==
    ASSUME Inv, UNCHANGED <<lib, policy, verified, s, views, closureVars>>
    PROVE  Kept
<1>1. Typed' /\ LoopInv' /\ ViewsPreserve' /\ ReasonsHold'
  BY SameLoop, SamePromises DEF Inv, Typed, ViewsPreserve, ReasonsHold, Valid
<1>2. AdmissionInv'
  BY SameGraph DEF Inv, AdmissionInv, Collected, Dropped, Questions, World, IsItems
<1>3. SelectionInv'
  <2>1. Candidates(s)' = Candidates(s) /\ SeedAtoms' = SeedAtoms
    BY SameGraph DEF Candidates, SeedAtoms
  <2>2. ReasonsSoFar' <=> ReasonsSoFar
    BY <2>1, SameGraph DEF ReasonsSoFar, ReasonsFor
  <2>3. (Stage' <=> Stage) /\ (Mandatory' <=> Mandatory) /\ (Final' <=> Final)
    BY SameGraph DEF Stage, Mandatory, Final, Tokens, Missing, MarkersOf, closureVars
  <2> QED BY <2>1, <2>2, <2>3, SameGraph DEF Inv, SelectionInv, closureVars
<1> QED BY <1>1, <1>2, <1>3 DEF Inv, Kept, Typed

(* Every step of the compiler and of its environment.                      *)
LEMMA EveryStepKeeps == ASSUME Inv, [Next]_vars PROVE Kept
<1>1. CASE \E expected : Call(expected)
  BY <1>1, CallKeeps
<1>2. CASE Steps
  BY <1>2, SnapshotKeeps, AdmitKeeps, ResolvedKeeps, AssembleKeeps, ReadSourceKeeps,
     SourcesReadKeeps, WorkKeeps, ClosedKeeps, ExpandKeeps DEF Steps
<1>3. CASE PolicyChanges \/ RegistryChanges
  BY <1>3, ProvidersChangeKeeps
<1>4. CASE \/ SourceChanges \/ ServiceChanges \/ WriterLocks \/ WriterUnlocks
           \/ Rest \/ UNCHANGED vars
  BY <1>4, ElsewhereKeeps
     DEF SourceChanges, ServiceChanges, WriterLocks, WriterUnlocks, Change, Rest, vars, environment
<1> QED BY <1>1, <1>2, <1>3, <1>4 DEF Next

(* The invariant of the compiler.                                          *)
LEMMA InvHolds == Spec => []Inv
  BY Starts, EveryStepKeeps, PTL DEF Spec, Kept

(***************************************************************************)
(* Every closure that a compilation runs is the least closed one, over     *)
(* whatever graph resolve_graph has made of the capsules.                  *)
(***************************************************************************)
THEOREM ClosuresAreLeast == Spec => []ClosureIsLeast
  BY InvHolds, LoopEnds, PTL DEF Inv

(***************************************************************************)
(* Every valid view of compile_view holds what it must and fits.           *)
(***************************************************************************)
THEOREM EveryViewPreserves == Spec => []ViewsPreserve
  BY InvHolds, PTL DEF Inv

(***************************************************************************)
(* Every reason that a valid view gives for leaving an atom out is true of *)
(* the whole view.                                                         *)
(***************************************************************************)
THEOREM EveryReasonHolds == Spec => []ReasonsHold
  BY InvHolds, PTL DEF Inv

(***************************************************************************)
(* No call names anything that no policy admitted during its last          *)
(* resolution, in a view or in the decisions of a failure.                 *)
(***************************************************************************)
THEOREM NothingElseIsDisclosed == Spec => DisclosureIsAdmitted
<1>1. Inv /\ [Next]_vars => [Len(views') > Len(views) => Discloses(views'[Len(views')])]_vars
  BY EveryStepKeeps DEF Kept
<1> QED BY <1>1, InvHolds, PTL DEF Spec, DisclosureIsAdmitted

-----------------------------------------------------------------------------
(***************************************************************************)
(* The selection as a relation between its states, apart from the session  *)
(* that makes it: from nothing, through the closures of the classes P0 and *)
(* of what the task requires, to the candidates in the order of the ranker.*)
(***************************************************************************)
ReasonCodes ==
    { "NOT_RELEVANT", "P0_REQUIRED", "TASK_REQUIRED", "DEPENDENCY_REQUIRED", "RELEVANT",
      "BUDGET_EXCLUDED" }

SelectionStates ==
    [ round : {"P0", "P1", "rest"}, selected : SUBSET Atoms,
      reasons : UNION { [A -> ReasonCodes] : A \in SUBSET Atoms } ]

P0Of(items)   == { a \in AdmittedAtoms(items) : lib.class[a] = 0 }
TaskOf(items) ==
    { a \in AdmittedAtoms(items) : lib.class[a] = 1 /\ a \in lib.matched }
        \cup lib.required \cup Roots(lib, items)

CandidatesOf(items, x) ==
    { a \in (AdmittedAtoms(items) \cap lib.matched) \ x.selected :
        x.reasons[a] # "BUDGET_EXCLUDED" }

First(C, a) == a \in C /\ \A b \in C \ {a} : Precedes(a, b)

ClosedIn(items, S) == \A e \in RequiresEdges(lib, items) : e[1] \in S => e[2] \in S

Least(items, atoms, N) ==
    /\ N \in SUBSET Nodes /\ NodesOf(atoms) \subseteq N /\ ClosedIn(items, N)
    /\ \A S \in SUBSET Nodes : NodesOf(atoms) \subseteq S /\ ClosedIn(items, S) => N \subseteq S

Grown(x, round, seedAtoms, reason, N) ==
    [ round |-> round, selected |-> AtomsIn(N),
      reasons |-> Reasons(x, seedAtoms, reason, AtomsIn(N)) ]

Excluded(x, a) ==
    [ round |-> "rest", selected |-> x.selected,
      reasons |-> [x.reasons EXCEPT ![a] = "BUDGET_EXCLUDED"] ]

TriedOf(x, a, N) ==
    IF Tokens(AtomsIn(N), {}) > lib.budget THEN Excluded(x, a)
    ELSE Grown(x, "rest", {a}, "RELEVANT", N)

SelectP0(items, x, y) ==
    x.round = "P0" /\ \E N : Least(items, P0Of(items), N)
                             /\ y = Grown(x, "P1", P0Of(items), "P0_REQUIRED", N)

SelectTask(items, x, y) ==
    x.round = "P1" /\ \E N : Least(items, x.selected \cup TaskOf(items), N)
                             /\ y = Grown(x, "rest", TaskOf(items), "TASK_REQUIRED", N)

SelectNext(items, x, y) ==
    x.round = "rest" /\ \E a : First(CandidatesOf(items, x), a)
                               /\ \E N : Least(items, x.selected \cup {a}, N)
                                         /\ y = TriedOf(x, a, N)

SelectStep(items, x, y) ==
    SelectP0(items, x, y) \/ SelectTask(items, x, y) \/ SelectNext(items, x, y)

NothingYet(items) ==
    [ round |-> "P0", selected |-> {}, reasons |-> [a \in AdmittedAtoms(items) |-> "NOT_RELEVANT"] ]

Done(items, x) == x.round = "rest" /\ CandidatesOf(items, x) = {}

(* y is in every set that contains x and what follows its members. *)
Follows(items, W) == \A x \in W, y \in SelectionStates : SelectStep(items, x, y) => y \in W

Leads(items, x, y) == \A W \in SUBSET SelectionStates : x \in W /\ Follows(items, W) => y \in W

Selects(items, selected, reasons) ==
    LET x == [round |-> "rest", selected |-> selected, reasons |-> reasons]
    IN  x \in SelectionStates /\ Leads(items, NothingYet(items), x) /\ Done(items, x)

(* Two least closed sets are the same, and so are two first candidates. *)
LEMMA LeastIsOne ==
    ASSUME NEW items, NEW atoms, NEW M, NEW N, Least(items, atoms, M), Least(items, atoms, N)
    PROVE  M = N
<1>1. M \subseteq N /\ N \subseteq M
  BY DEF Least
<1> QED BY <1>1

(* Of candidates with numbered ranks, one is first. *)
LEMMA FirstIsOne ==
    ASSUME lib \in Libraries, NEW C \in SUBSET Atoms, NEW a, NEW b, First(C, a), First(C, b)
    PROVE  a = b
<1> SUFFICES ASSUME a # b PROVE FALSE
  OBVIOUS
<1>1. a \in Atoms /\ b \in Atoms /\ Precedes(a, b) /\ Precedes(b, a)
  BY DEF First
<1>2. /\ lib.class[a] \in Nat /\ lib.class[b] \in Nat
      /\ lib.ranking[a] \in Nat /\ lib.ranking[b] \in Nat
  BY <1>1, RanksAreNumbers
<1> QED BY <1>1, <1>2 DEF Precedes

(* A set of numbers has a least one. *)
LEMMA LeastNumber ==
    ASSUME NEW T \in SUBSET Nat, T # {}
    PROVE  \E n \in T : \A m \in T : n <= m
<1>1. \E R : IsWellFoundedOn(R, Nat) /\ \A m, n \in Nat : m < n => <<m, n>> \in R
  <2>1. \A m, n \in Nat : m < n => <<m, n>> \in OpToRel(<, Nat)
    BY DEF OpToRel
  <2> QED BY <2>1, NatLessThanWellFounded, Zenon
<1>2. PICK R : IsWellFoundedOn(R, Nat) /\ \A m, n \in Nat : m < n => <<m, n>> \in R
  BY <1>1
<1>3. \E n \in T : \A m \in T : ~(<<m, n>> \in R)
  <2>1. T \subseteq Nat
    OBVIOUS
  <2>2. IsWellFoundedOn(R, Nat)
    BY <1>2
  <2>3. T # {} => \E n \in T : \A m \in T : ~(<<m, n>> \in R)
    BY ONLY <2>1, <2>2, WFMin
  <2> QED BY <2>3
<1>4. PICK n \in T : \A m \in T : ~(<<m, n>> \in R)
  BY <1>3
<1>5. \A m \in T : n <= m
  <2> SUFFICES ASSUME NEW m \in T PROVE ~(m < n)
    OBVIOUS
  <2>1. m \in Nat /\ n \in Nat /\ ~(<<m, n>> \in R)
    BY <1>4
  <2> QED BY <1>2, <2>1
<1> QED BY <1>5

(* The least class among the candidates, and the first place within it. *)
LEMMA FirstExists ==
    ASSUME lib \in Libraries, NEW C \in SUBSET Atoms, C # {}
    PROVE  \E a : First(C, a)
<1>1. /\ \A a \in C : lib.class[a] \in Nat /\ lib.ranking[a] \in Nat
      /\ \A a, b \in C : lib.ranking[a] = lib.ranking[b] => a = b
  BY RanksAreNumbers
<1> DEFINE classes == { lib.class[a] : a \in C }
<1>0. classes \in SUBSET Nat /\ classes # {}
  BY <1>1
<1>2. PICK k \in classes : \A m \in classes : k <= m
  BY <1>0, LeastNumber
<1> DEFINE D == { a \in C : lib.class[a] = k }
           places == { lib.ranking[a] : a \in D }
<1>6. places \in SUBSET Nat /\ places # {}
  BY <1>1, <1>2
<1>3. PICK p \in places : \A m \in places : p <= m
  BY <1>6, LeastNumber
<1>4. PICK a \in D : lib.ranking[a] = p
  BY <1>3
<1>5. ASSUME NEW b \in C \ {a} PROVE Precedes(a, b)
  <2>1. lib.class[a] = k /\ k <= lib.class[b] /\ a \in C
    BY <1>2, <1>4
  <2>2. CASE b \in D
    <3>1. lib.class[b] = k /\ p <= lib.ranking[b] /\ lib.ranking[a] # lib.ranking[b]
      BY <1>1, <1>3, <2>1, <2>2
    <3>2. lib.ranking[a] \in Nat /\ lib.ranking[b] \in Nat
      BY <1>1, <2>1
    <3> QED BY <1>4, <2>1, <3>1, <3>2 DEF Precedes
  <2>3. CASE b \notin D
    BY <1>1, <2>1, <2>3 DEF Precedes
  <2> QED BY <2>2, <2>3
<1> QED BY <1>4, <1>5 DEF First

(* The selection has one way to go on. *)
LEMMA OneStep ==
    ASSUME lib \in Libraries, NEW items, IsItems(items), NEW x, NEW y, NEW z,
           SelectStep(items, x, y), SelectStep(items, x, z)
    PROVE  y = z
<1>1. CASE x.round = "P0"
  BY <1>1, LeastIsOne DEF SelectStep, SelectP0, SelectTask, SelectNext
<1>2. CASE x.round = "P1"
  BY <1>2, LeastIsOne DEF SelectStep, SelectP0, SelectTask, SelectNext
<1>3. CASE x.round = "rest"
  <2>1. SelectNext(items, x, y) /\ SelectNext(items, x, z)
    BY <1>3 DEF SelectStep, SelectP0, SelectTask
  <2>2. PICK a : First(CandidatesOf(items, x), a)
                 /\ \E N : Least(items, x.selected \cup {a}, N) /\ y = TriedOf(x, a, N)
    BY <2>1 DEF SelectNext
  <2>3. PICK b : First(CandidatesOf(items, x), b)
                 /\ \E N : Least(items, x.selected \cup {b}, N) /\ z = TriedOf(x, b, N)
    BY <2>1 DEF SelectNext
  <2>4. CandidatesOf(items, x) \in SUBSET Atoms
    BY LibrariesAreLibraries DEF CandidatesOf, AdmittedAtoms, IsItems
  <2>5. a = b
    BY <2>2, <2>3, <2>4, FirstIsOne
  <2> QED BY <2>2, <2>3, <2>5, LeastIsOne
<1> QED BY <1>1, <1>2, <1>3 DEF SelectStep, SelectP0, SelectTask, SelectNext

(* It stops where no candidate is left. *)
LEMMA DoneStops ==
    ASSUME NEW items, NEW x, NEW y, Done(items, x), SelectStep(items, x, y)
    PROVE  FALSE
  BY DEF Done, SelectStep, SelectP0, SelectTask, SelectNext, First

(***************************************************************************)
(* So there is one selection: what leads to the one leads through the      *)
(* other, which stops.                                                     *)
(***************************************************************************)
LEMMA OneEnd ==
    ASSUME lib \in Libraries, NEW items, IsItems(items), NEW x, NEW y \in SelectionStates,
           NEW z \in SelectionStates, x \in SelectionStates, Leads(items, x, y), Done(items, y),
           Leads(items, x, z), Done(items, z)
    PROVE  y = z
<1> DEFINE Z == { w \in SelectionStates : Leads(items, w, y) }
<1>1. ASSUME NEW w \in Z, NEW u \in SelectionStates, SelectStep(items, w, u) PROVE u \in Z
  <2> SUFFICES ASSUME NEW W \in SUBSET SelectionStates, u \in W, Follows(items, W) PROVE y \in W
    BY DEF Leads
  <2> DEFINE V == W \cup {w}
  <2>1. ASSUME NEW p \in V, NEW q \in SelectionStates, SelectStep(items, p, q) PROVE q \in V
    <3>1. CASE p \in W
      BY <2>1, <3>1 DEF Follows
    <3>2. CASE p = w
      BY <1>1, <2>1, <3>2, OneStep
    <3> QED BY <3>1, <3>2
  <2>2. V \in SUBSET SelectionStates /\ w \in V /\ Follows(items, V)
    BY <2>1 DEF Follows
  <2>3. y \in V
    BY <2>2 DEF Leads
  <2>4. y # w
    BY <1>1, DoneStops
  <2> QED BY <2>3, <2>4
<1>2. Z \in SUBSET SelectionStates /\ x \in Z /\ Follows(items, Z)
  BY <1>1 DEF Follows
<1>3. Leads(items, z, y)
  BY <1>2 DEF Leads
<1>4. {z} \in SUBSET SelectionStates /\ Follows(items, {z})
  BY DoneStops DEF Follows
<1> QED BY <1>3, <1>4 DEF Leads

(* A selection leads to itself and to what follows. *)
LEMMA LeadsOn ==
    ASSUME NEW items, NEW x, NEW y, NEW z \in SelectionStates
    PROVE  /\ Leads(items, x, x)
           /\ Leads(items, x, y) /\ SelectStep(items, y, z) => Leads(items, x, z)
  BY DEF Leads, Follows

(***************************************************************************)
(* The manifest that an admission and the services determine, and a replay *)
(* of another one.                                                         *)
(***************************************************************************)
ManifestOf(admission, stamp, m) ==
    /\ Selects(admission.items, m.selected, m.reasons) /\ IsItems(admission.items)
    /\ m = [ selected |-> m.selected, reasons |-> m.reasons, permission |-> admission.policy,
             rejected |-> admission.rejected, services |-> stamp, expanded |-> lib.expand ]

Differs(admission, stamp, expected) == \E m : ManifestOf(admission, stamp, m) /\ m # expected

(* Reasons for the atoms of a graph make a state of the selection. *)
LEMMA StateOf ==
    ASSUME NEW round \in {"P0", "P1", "rest"}, NEW selected \in SUBSET Atoms,
           NEW A \in SUBSET Atoms, NEW reasons \in [A -> ReasonCodes]
    PROVE  [round |-> round, selected |-> selected, reasons |-> reasons] \in SelectionStates
<1>1. reasons \in UNION { [B -> ReasonCodes] : B \in SUBSET Atoms }
  OBVIOUS
<1> QED BY <1>1 DEF SelectionStates

(* The selection starts as a state of the selection. *)
LEMMA NothingIsAState ==
    ASSUME lib \in Libraries, NEW items, IsItems(items)
    PROVE  NothingYet(items) \in SelectionStates
<1> DEFINE A == AdmittedAtoms(items)
           r == [a \in A |-> "NOT_RELEVANT"]
<1>1. A \in SUBSET Atoms
  BY LibrariesAreLibraries DEF IsItems, AdmittedAtoms
<1> HIDE DEF A
<1>2. r \in [A -> ReasonCodes]
  BY DEF ReasonCodes
<1> QED BY <1>1, <1>2, StateOf DEF NothingYet, A

(* There is one such manifest. *)
LEMMA OneManifest ==
    ASSUME lib \in Libraries, NEW admission, NEW stamp, NEW m, NEW n,
           ManifestOf(admission, stamp, m), ManifestOf(admission, stamp, n)
    PROVE  m = n
<1> DEFINE I == admission.items
           x == [round |-> "rest", selected |-> m.selected, reasons |-> m.reasons]
           y == [round |-> "rest", selected |-> n.selected, reasons |-> n.reasons]
<1>1. /\ x \in SelectionStates /\ Leads(I, NothingYet(I), x) /\ Done(I, x) /\ IsItems(I)
      /\ y \in SelectionStates /\ Leads(I, NothingYet(I), y) /\ Done(I, y)
  BY DEF ManifestOf, Selects
<1>2. NothingYet(I) \in SelectionStates
  BY <1>1, NothingIsAState
<1>3. x = y
  BY <1>1, <1>2, OneEnd
<1>4. m.selected = n.selected /\ m.reasons = n.reasons
  BY <1>3
<1> QED BY <1>4 DEF ManifestOf

-----------------------------------------------------------------------------
(***************************************************************************)
(* The session makes this selection.                                       *)
(***************************************************************************)
Selecting == s.phase # "recheck" /\ s.round \in {"P0", "P1", "rest", "final", "last"}

RoundOf ==
    CASE s.round = "P0"                   -> "P0"
      [] s.round = "P1" /\ s.pc = "close" -> "P1"
      [] OTHER                            -> "rest"

SoFar == [ round |-> RoundOf, selected |-> s.selected, reasons |-> s.reasons ]

SelectedSoFar == SoFar \in SelectionStates /\ Leads(Items, NothingYet(Items), SoFar)

ReplayInv ==
    /\ Selecting => SelectedSoFar
    /\ Selecting /\ s.round = "rest" /\ s.pc = "close" => First(Candidates(s), s.item)
    /\ s.phase = "recheck" /\ s.code = "REPLAY_MISMATCH" => Differs(s.admission, s.stamp, s.expected)
    /\ \A v \in Valid : ManifestOf(v.admission, v.services, v.manifest)
    /\ \A i \in 1 .. Len(views) :
          views[i].code = "REPLAY_MISMATCH" =>
              Differs(views[i].admission, views[i].services, views[i].expected)

(* A replay that differs from the only manifest is refused with reason. *)
LEMMA ReplayEnds == ASSUME lib \in Libraries, ReplayInv PROVE ReplayIsExact
<1> SUFFICES ASSUME NEW i \in 1 .. Len(views), views[i].code = "REPLAY_MISMATCH",
                    NEW v \in Valid, v.manifest = views[i].expected,
                    v.admission = views[i].admission, v.services = views[i].services
             PROVE  FALSE
  BY DEF ReplayIsExact
<1>1. PICK m : /\ ManifestOf(views[i].admission, views[i].services, m)
               /\ m # views[i].expected
  BY DEF ReplayInv, Differs
<1>2. ManifestOf(v.admission, v.services, v.manifest)
  BY DEF ReplayInv
<1> QED BY <1>1, <1>2, OneManifest

(* What the selection is does not change while a library stands. *)
LEMMA SameSteps ==
    ASSUME lib' = lib
    PROVE  /\ \A items, x, y : SelectStep(items, x, y)' <=> SelectStep(items, x, y)
           /\ \A items : NothingYet(items)' = NothingYet(items)
           /\ \A items, x, y : Leads(items, x, y)' <=> Leads(items, x, y)
           /\ \A admission, stamp, m :
                 ManifestOf(admission, stamp, m)' <=> ManifestOf(admission, stamp, m)
           /\ \A admission, stamp, m :
                 Differs(admission, stamp, m)' <=> Differs(admission, stamp, m)
           /\ \A C, a : First(C, a)' <=> First(C, a)
<1>1. \A items, x, y : SelectStep(items, x, y)' <=> SelectStep(items, x, y)
  BY DEF SelectStep, SelectP0, SelectTask, SelectNext, P0Of, TaskOf, CandidatesOf, First,
         Precedes, Least, ClosedIn, TriedOf, Tokens
<1>2. \A items : NothingYet(items)' = NothingYet(items)
  BY DEF NothingYet
<1>3. \A items, x, y : Leads(items, x, y)' <=> Leads(items, x, y)
  BY <1>1 DEF Leads, Follows
<1>4. \A items, x : Done(items, x)' <=> Done(items, x)
  BY DEF Done, CandidatesOf
<1>5. \A admission, stamp, m :
          ManifestOf(admission, stamp, m)' <=> ManifestOf(admission, stamp, m)
  BY <1>2, <1>3, <1>4 DEF ManifestOf, Selects, IsItems
<1>6. \A C, a : First(C, a)' <=> First(C, a)
  BY DEF First, Precedes
<1> QED BY <1>1, <1>2, <1>3, <1>5, <1>6 DEF Differs

(* A step that returns nothing. *)
LEMMA QuietReplays ==
    ASSUME ReplayInv, lib' = lib, views' = views, (Selecting => SelectedSoFar)',
           (Selecting /\ s.round = "rest" /\ s.pc = "close" => First(Candidates(s), s.item))',
           s'.phase = "recheck" /\ s'.code = "REPLAY_MISMATCH" =>
               Differs(s'.admission, s'.stamp, s'.expected)
    PROVE  ReplayInv'
<1>1. (s.phase = "recheck" /\ s.code = "REPLAY_MISMATCH" => Differs(s.admission, s.stamp, s.expected))'
  BY SameSteps
<1>2. (\A v \in Valid : ManifestOf(v.admission, v.services, v.manifest))'
  BY SameSteps DEF ReplayInv, Valid
<1>3. (\A i \in 1 .. Len(views) :
          views[i].code = "REPLAY_MISMATCH" =>
              Differs(views[i].admission, views[i].services, views[i].expected))'
  BY SameSteps DEF ReplayInv
<1> QED BY <1>1, <1>2, <1>3 DEF ReplayInv

(* A call that returns. *)
LEMMA ReturnReplays ==
    ASSUME Inv, ReplayInv, NEW v, Return(v),
           v.valid => ManifestOf(v.admission, v.services, v.manifest),
           v.code = "REPLAY_MISMATCH" => Differs(v.admission, v.services, v.expected)
    PROVE  ReplayInv'
<1>1. views' = Append(views, v) /\ s' = Idle /\ lib' = lib
  BY DEF Return, environment
<1>2. /\ Len(views') = Len(views) + 1 /\ Len(views) \in Nat
      /\ views'[Len(views')] = v
      /\ \A i \in 1 .. Len(views) : views'[i] = views[i]
  BY <1>1, AppendToViews DEF Inv, Typed
<1>3. ~Selecting' /\ s'.phase # "recheck"
  BY <1>1 DEF Idle, Selecting
<1>4. \A i \in 1 .. Len(views') : i \in 1 .. Len(views) \/ views'[i] = v
  BY <1>2
<1>5. (\A w \in Valid : ManifestOf(w.admission, w.services, w.manifest))'
  <2> SUFFICES ASSUME NEW i \in 1 .. Len(views'), views'[i].valid
               PROVE  ManifestOf(views'[i].admission, views'[i].services, views'[i].manifest)
    BY <1>1, SameSteps DEF Valid
  <2>1. CASE i \in 1 .. Len(views)
    BY <1>2, <2>1 DEF ReplayInv, Valid
  <2>2. CASE views'[i] = v
    BY <2>2
  <2> QED BY <1>4, <2>1, <2>2
<1>6. (\A i \in 1 .. Len(views) :
          views[i].code = "REPLAY_MISMATCH" =>
              Differs(views[i].admission, views[i].services, views[i].expected))'
  <2> SUFFICES ASSUME NEW i \in 1 .. Len(views'), views'[i].code = "REPLAY_MISMATCH"
               PROVE  Differs(views'[i].admission, views'[i].services, views'[i].expected)
    BY <1>1, SameSteps
  <2>1. CASE i \in 1 .. Len(views)
    BY <1>2, <2>1 DEF ReplayInv
  <2>2. CASE views'[i] = v
    BY <2>2
  <2> QED BY <1>4, <2>1, <2>2
<1> QED BY <1>3, <1>5, <1>6 DEF ReplayInv

(* A failure, at once or after another resolution. *)
LEMMA FailReplays ==
    ASSUME Inv, ReplayInv, NEW X, NEW code, DOMAIN X = DOMAIN Idle, Fail(X, code),
           code = "REPLAY_MISMATCH" => Differs(X.admission, X.stamp, X.expected)
    PROVE  ReplayInv'
<1>1. CASE code \in Redacting \/ X.admission = None
  <2> DEFINE v == Result(FALSE, code, code \in Redacting, FALSE, X)
  <2>1. Return(v)
    BY <1>1 DEF Fail
  <2>2. /\ v.valid = FALSE /\ v.code = code /\ v.admission = X.admission
        /\ v.services = X.stamp /\ v.expected = X.expected
    BY DEF Result
  <2> HIDE DEF v
  <2> QED BY <2>1, <2>2, ReturnReplays
<1>2. CASE ~(code \in Redacting \/ X.admission = None)
  <2>1. /\ s' = [X EXCEPT !.pc = "snapshot", !.phase = "recheck", !.code = code]
        /\ lib' = lib /\ views' = views
    BY <1>2 DEF Fail, Go, environment
  <2>2. /\ s'.phase = "recheck" /\ s'.code = code /\ s'.admission = X.admission
        /\ s'.stamp = X.stamp /\ s'.expected = X.expected
    BY <2>1 DEF Idle
  <2> QED BY <2>1, <2>2, QuietReplays DEF Selecting
<1> QED BY <1>1, <1>2

(* A step of a session that leaves its selection alone. *)
LEMMA RestingReplays ==
    ASSUME Inv, ReplayInv, NEW X, s' = X, lib' = lib, views' = views, DOMAIN X = DOMAIN Idle,
           X.admission = s.admission, X.selected = s.selected, X.reasons = s.reasons,
           X.stamp = s.stamp, X.expected = s.expected, X.code = s.code,
           X.phase = "recheck" <=> s.phase = "recheck",
           Selecting' => Selecting /\ RoundOf' = RoundOf,
           X.round = "rest" /\ X.pc = "close" => s.round = "rest" /\ s.pc = "close" /\ X.item = s.item
    PROVE  ReplayInv'
<1>1. Candidates(s)' = Candidates(s)
  BY SameGraph DEF Candidates
<1>2. (Selecting => SelectedSoFar)'
  BY SameGraph, SameSteps DEF ReplayInv, SelectedSoFar, SoFar
<1>3. (Selecting /\ s.round = "rest" /\ s.pc = "close" => First(Candidates(s), s.item))'
  BY <1>1, SameSteps DEF ReplayInv
<1> QED BY <1>2, <1>3, QuietReplays DEF ReplayInv

(* A failure that is not a mismatch of the replay. *)
LEMMA MayFailReplay ==
    ASSUME Inv, ReplayInv, NEW code, code # "REPLAY_MISMATCH", Fail(s, code)
    PROVE  ReplayInv'
  BY FailReplays DEF Inv, Typed

-----------------------------------------------------------------------------
(* A call, and the resolutions: they select nothing. *)
LEMMA CallReplays == ASSUME Inv, ReplayInv, NEW expected, Call(expected) PROVE ReplayInv'
<1>1. /\ s' = [Idle EXCEPT !.pc = "snapshot", !.stamp = services, !.expected = expected]
      /\ lib' = lib /\ views' = views
  BY GoFrame DEF Call
<1>2. s'.round = "none" /\ s'.phase = "admission"
  BY <1>1 DEF Idle
<1> QED BY <1>1, <1>2, QuietReplays DEF Selecting

(* The snapshot of a resolution. *)
LEMMA SnapshotReplays == ASSUME Inv, ReplayInv, Snapshot PROVE ReplayInv'
<1>1. CASE policy # None
  <2> DEFINE X == [s EXCEPT !.pc = "admit", !.before = policy, !.during = {World},
                            !.todo = Questions, !.passed = {}]
  <2>1. s' = X /\ lib' = lib /\ views' = views /\ s.pc = "snapshot"
    BY <1>1, GoFrame DEF Snapshot
  <2>2. /\ DOMAIN X = DOMAIN Idle /\ X.pc = "admit" /\ X.admission = s.admission
        /\ X.phase = s.phase /\ X.round = s.round /\ X.selected = s.selected
        /\ X.reasons = s.reasons /\ X.stamp = s.stamp /\ X.expected = s.expected
        /\ X.code = s.code
    BY DEF Inv, Typed, Idle
  <2> HIDE DEF X
  <2> QED BY <2>1, <2>2, RestingReplays DEF Selecting, RoundOf
<1>2. CASE policy = None /\ s.phase = "recheck"
  <2> DEFINE v == Result(FALSE, s.code, TRUE, HasGraph(s), s)
  <2>1. /\ Return(v) /\ v.valid = FALSE /\ v.code = s.code /\ v.admission = s.admission
        /\ v.services = s.stamp /\ v.expected = s.expected
    BY <1>2 DEF Snapshot, Result
  <2> HIDE DEF v
  <2> QED BY <1>2, <2>1, ReturnReplays DEF ReplayInv
<1>3. CASE policy = None /\ s.phase # "recheck"
  BY <1>3, MayFailReplay DEF Snapshot
<1> QED BY <1>1, <1>2, <1>3

(* One question less. *)
LEMMA AdmitReplays == ASSUME Inv, ReplayInv, Admit PROVE ReplayInv'
<1>1. /\ s.pc = "admit" /\ lib' = lib /\ views' = views
      /\ \E todo, passed : s' = [s EXCEPT !.todo = todo, !.passed = passed]
  BY AdmitFrame
<1>2. PICK todo, passed : s' = [s EXCEPT !.todo = todo, !.passed = passed]
  BY <1>1
<1>3. /\ DOMAIN s' = DOMAIN Idle /\ s'.pc = s.pc /\ s'.admission = s.admission
      /\ s'.phase = s.phase /\ s'.round = s.round /\ s'.selected = s.selected
      /\ s'.reasons = s.reasons /\ s'.stamp = s.stamp /\ s'.expected = s.expected
      /\ s'.code = s.code
  BY <1>2 DEF Inv, Typed, Idle
<1> QED BY <1>1, <1>3, RestingReplays DEF Selecting, RoundOf

(* _result: the manifest of the view is the one that the admission and the *)
(* services determine, so a replay that differs from it differs from them. *)
LEMMA DeliverReplays ==
    ASSUME Inv, ReplayInv, s.phase = "final", Deliver
    PROVE  ReplayInv'
<1> DEFINE v == Result(TRUE, "", FALSE, TRUE, s)
           m == v.manifest
<1>1. /\ v.valid = TRUE /\ v.code = "" /\ v.admission = s.admission /\ v.services = s.stamp
      /\ m = [ selected |-> s.selected, reasons |-> s.reasons,
               permission |-> s.admission.policy, rejected |-> s.admission.rejected,
               services |-> s.stamp, expanded |-> lib.expand ]
  BY DEF Result
<1>2. s.round = "last" /\ Candidates(s) = {} /\ IsItems(Items)
  BY DEF Inv, SelectionInv, ReasonsSoFar, AdmissionInv
<1>3. SelectedSoFar /\ RoundOf = "rest"
  BY <1>2 DEF ReplayInv, Selecting, RoundOf
<1>4. Selects(Items, s.selected, s.reasons)
  <2>1. Done(Items, SoFar)
    BY <1>2, <1>3 DEF Done, CandidatesOf, Candidates, Available, SoFar
  <2> QED BY <1>3, <2>1 DEF Selects, SelectedSoFar, SoFar
<1>5. ManifestOf(s.admission, s.stamp, m)
  <2> HIDE DEF m
  <2>1. m.selected = s.selected /\ m.reasons = s.reasons
    BY <1>1
  <2>2. Selects(s.admission.items, m.selected, m.reasons) /\ IsItems(s.admission.items)
    BY <1>2, <1>4, <2>1 DEF Items
  <2> QED BY <1>1, <2>1, <2>2 DEF ManifestOf
<1>6. CASE s.expected # None /\ m # s.expected
  <2>1. Differs(s.admission, s.stamp, s.expected)
    BY <1>5, <1>6 DEF Differs
  <2> QED BY <1>6, <2>1, FailReplays DEF Deliver, Inv, Typed
<1>7. CASE ~(s.expected # None /\ m # s.expected)
  <2>1. Return(v)
    BY <1>7 DEF Deliver
  <2> HIDE DEF v
  <2> QED BY <1>1, <1>5, <2>1, ReturnReplays
<1> QED BY <1>6, <1>7

(* The end of a resolution, in each phase of the call. *)
LEMMA ResolvedReplays == ASSUME Inv, ReplayInv, Resolved PROVE ReplayInv'
<1>0. s.pc = "admit" /\ s.phase \in {"admission", "final", "recheck"}
  BY DEF Resolved, Inv, Typed
<1>1. CASE s.phase = "recheck"
  <2> DEFINE v == Result(FALSE, s.code, policy # s.before \/ Resolution # s.admission,
                         HasGraph(s), s)
  <2>1. /\ Return(v) /\ v.valid = FALSE /\ v.code = s.code /\ v.admission = s.admission
        /\ v.services = s.stamp /\ v.expected = s.expected
    BY <1>1 DEF Resolved, Result
  <2> HIDE DEF v
  <2> QED BY <1>1, <2>1, ReturnReplays DEF ReplayInv
<1>2. CASE s.phase # "recheck" /\ policy # s.before
  BY <1>0, <1>2, MayFailReplay DEF Resolved
<1>3. CASE s.phase = "admission" /\ policy = s.before
  <2>1. Go([s EXCEPT !.pc = "graph", !.admission = Resolution, !.round = "none"])
    BY <1>3 DEF Resolved
  <2>2. /\ s' = [s EXCEPT !.pc = "graph", !.admission = Resolution, !.round = "none"]
        /\ lib' = lib /\ views' = views
    BY <2>1 DEF Go, environment
  <2>3. s'.round = "none" /\ s'.phase = "admission"
    BY <1>3, <2>2 DEF Inv, Typed, Idle
  <2> QED BY <2>2, <2>3, QuietReplays DEF Selecting
<1>4. CASE s.phase = "final" /\ policy = s.before
  <2>1. IF Resolution = s.admission THEN Deliver ELSE Fail(s, "POLICY_SNAPSHOT_CHANGED")
    BY <1>0, <1>4 DEF Resolved
  <2> QED BY <1>4, <2>1, DeliverReplays, MayFailReplay
<1> QED BY <1>0, <1>1, <1>2, <1>3, <1>4

-----------------------------------------------------------------------------
(* No error of the graph or of a source is a mismatch of the replay. *)
LEMMA OtherErrors ==
    /\ "REPLAY_MISMATCH" \notin GraphErrors(lib, Items)
    /\ \A a, c : "REPLAY_MISMATCH" \notin SourceErrors(a, c)
    /\ "REPLAY_MISMATCH" \notin WaveringErrors
<1> DEFINE M == "REPLAY_MISMATCH"
<1>1. \A S, e : M \in UniqueErrors(S, e) => e = M
  BY DEF UniqueErrors
<1>2. M \notin InventoryErrors(lib, Items)
  BY DEF InventoryErrors
<1>3. M \notin RootErrors(lib, Items)
  BY <1>1 DEF RootErrors
<1>4. M \notin ManifestErrors(lib, Items)
  BY <1>1 DEF ManifestErrors
<1>5. M \notin NeedErrors(lib, Items)
  BY DEF NeedErrors
<1>6. M \notin ExplicitErrors(lib, Items)
  BY <1>1 DEF ExplicitErrors, EdgeErrors
<1>7. M \notin GraphErrors(lib, Items)
  BY <1>2, <1>3, <1>4, <1>5, <1>6 DEF GraphErrors
<1>8. \A a, c : M \notin SourceErrors(a, c)
  BY DEF SourceErrors
<1>9. M \notin WaveringErrors
  BY DEF WaveringErrors
<1> QED BY <1>7, <1>8, <1>9

(* The graph is assembled before anything is selected. *)
LEMMA AssembleReplays == ASSUME Inv, ReplayInv, Assemble PROVE ReplayInv'
<1>1. CASE GraphErrors(lib, Items) # {}
  BY <1>1, OtherErrors, MayFailReplay DEF Assemble
<1>2. CASE GraphErrors(lib, Items) = {}
  <2>1. /\ s' = [s EXCEPT !.pc = "sources", !.todo = Pairs, !.round = "first"]
        /\ lib' = lib /\ views' = views /\ s.pc = "graph"
    BY <1>2 DEF Assemble, environment
  <2>2. s.phase = "admission"
    BY <2>1, Working
  <2>3. s'.round = "first" /\ s'.phase = "admission"
    BY <2>1, <2>2 DEF Inv, Typed, Idle
  <2> QED BY <2>1, <2>3, QuietReplays DEF Selecting
<1> QED BY <1>1, <1>2

(* A source is read. *)
LEMMA ReadSourceReplays == ASSUME Inv, ReplayInv, ReadSource PROVE ReplayInv'
<1> DEFINE p == CHOOSE x \in s.todo : TRUE
           X == [s EXCEPT !.todo = s.todo \ {p}]
<1>1. /\ s.pc = "sources"
      /\ Go(X) \/ \E code : code # "REPLAY_MISMATCH" /\ Fail(s, code)
  BY OtherErrors DEF ReadSource, Inv, Typed, Idle
<1>2. ASSUME Go(X) PROVE ReplayInv'
  <2>1. s' = X /\ lib' = lib /\ views' = views
    BY <1>2, GoFrame
  <2>2. /\ DOMAIN X = DOMAIN Idle /\ X.pc = s.pc /\ X.round = s.round /\ X.phase = s.phase
        /\ X.admission = s.admission /\ X.selected = s.selected /\ X.reasons = s.reasons
        /\ X.stamp = s.stamp /\ X.expected = s.expected /\ X.code = s.code
    BY DEF Inv, Typed, Idle
  <2> HIDE DEF X
  <2> QED BY <1>1, <2>1, <2>2, RestingReplays DEF Selecting, RoundOf
<1> QED BY <1>1, <1>2, MayFailReplay

(* The sources are read: the selection has not begun, or it is over. *)
LEMMA SourcesReadReplays == ASSUME Inv, ReplayInv, SourcesRead PROVE ReplayInv'
<1>0. s.pc = "sources" /\ s.phase = "admission" /\ DOMAIN s = DOMAIN Idle
  BY Working DEF SourcesRead, Inv, Typed
<1>1. CASE s.round = "first" /\ Close([s EXCEPT !.round = "check"], RootAtoms \cup lib.required)
  <2>1. s' = [[s EXCEPT !.round = "check"] EXCEPT !.pc = "close"] /\ lib' = lib /\ views' = views
    BY <1>1 DEF Close, environment
  <2>2. s'.round = "check" /\ s'.phase = "admission"
    BY <1>0, <2>1 DEF Idle
  <2> QED BY <2>1, <2>2, QuietReplays DEF Selecting
<1>2. CASE Fail(s, "SERVICE_SNAPSHOT_CHANGED")
  BY <1>2, MayFailReplay
<1>3. CASE s.round = "last" /\ Go([s EXCEPT !.pc = "snapshot", !.phase = "final"])
  <2> DEFINE X == [s EXCEPT !.pc = "snapshot", !.phase = "final"]
  <2>1. s' = X /\ lib' = lib /\ views' = views
    BY <1>3, GoFrame
  <2>2. /\ DOMAIN X = DOMAIN Idle /\ X.pc = "snapshot" /\ X.round = "last" /\ X.phase = "final"
        /\ X.admission = s.admission /\ X.selected = s.selected /\ X.reasons = s.reasons
        /\ X.stamp = s.stamp /\ X.expected = s.expected /\ X.code = s.code
    BY <1>0, <1>3 DEF Idle
  <2> HIDE DEF X
  <2> QED BY <1>0, <1>3, <2>1, <2>2, RestingReplays DEF Selecting, RoundOf
<1> QED BY <1>1, <1>2, <1>3 DEF SourcesRead

-----------------------------------------------------------------------------
(* What grows from a state of the selection is one. *)
LEMMA GrownState ==
    ASSUME NEW x \in SelectionStates, NEW round \in {"P0", "P1", "rest"}, NEW seedAtoms,
           NEW reason \in ReasonCodes, NEW N, NEW a
    PROVE  /\ Grown(x, round, seedAtoms, reason, N) \in SelectionStates
           /\ Excluded(x, a) \in SelectionStates
<1>1. PICK A \in SUBSET Atoms : x.reasons \in [A -> ReasonCodes]
  BY DEF SelectionStates
<1>2. AtomsIn(N) \in SUBSET Atoms /\ x.selected \in SUBSET Atoms
  BY DEF AtomsIn, SelectionStates
<1>3. Reasons(x, seedAtoms, reason, AtomsIn(N)) \in [A -> ReasonCodes]
  <2>1. "DEPENDENCY_REQUIRED" \in ReasonCodes
    BY DEF ReasonCodes
  <2> QED BY <1>1, <2>1 DEF Reasons
<1>4. [x.reasons EXCEPT ![a] = "BUDGET_EXCLUDED"] \in [A -> ReasonCodes]
  <2>1. "BUDGET_EXCLUDED" \in ReasonCodes
    BY DEF ReasonCodes
  <2> QED BY <1>1, <2>1
<1> QED BY <1>2, <1>3, <1>4, StateOf DEF Grown, Excluded

(* The closure of a round is the least one around its seeds. *)
LEMMA RoundClosed ==
    ASSUME Inv, s.pc = "close", pending = {}
    PROVE  Least(Items, SeedAtoms, closed)
<1>1. edges = RequiresEdges(lib, Items) /\ seeds = NodesOf(SeedAtoms)
  BY Working DEF Stage
<1> QED BY <1>1 DEF Inv, LoopInv, ClosureTypeOK, IsClosed, Least, ClosedIn

(* One step of the session's selection. *)
LEMMA SelectionGoesOn ==
    ASSUME ReplayInv, Selecting, NEW y \in SelectionStates, SelectStep(Items, SoFar, y)
    PROVE  Leads(Items, NothingYet(Items), y)
  BY LeadsOn DEF ReplayInv, SelectedSoFar

(* The next candidate is the first. *)
LEMMA NextReplays ==
    ASSUME Inv, ReplayInv, NEW X, DOMAIN X = DOMAIN Idle, X.phase = "admission",
           X.admission = s.admission, X.round \in {"P1", "rest"}, NextCandidate(X),
           NEW y \in SelectionStates, Leads(Items, NothingYet(Items), y),
           y = [round |-> "rest", selected |-> X.selected, reasons |-> X.reasons]
    PROVE  ReplayInv'
<1>1. CASE Candidates(X) = {}
  <2>1. s' = [X EXCEPT !.pc = "expand"] /\ lib' = lib /\ views' = views
    BY <1>1 DEF NextCandidate, Go, environment
  <2>2. /\ s'.pc = "expand" /\ s'.phase = "admission" /\ s'.admission = s.admission
        /\ s'.round \in {"P1", "rest"} /\ s'.selected = X.selected /\ s'.reasons = X.reasons
    BY <2>1 DEF Idle
  <2>3. SoFar' = y
    BY <2>2 DEF SoFar, RoundOf
  <2>4. SelectedSoFar'
    BY <2>1, <2>2, <2>3, SameGraph, SameSteps DEF SelectedSoFar
  <2> QED BY <2>1, <2>2, <2>4, QuietReplays
<1>2. ASSUME NEW a \in Candidates(X), \A b \in Candidates(X) \ {a} : Precedes(a, b),
             TryCandidate(X, a)
      PROVE  ReplayInv'
  <2>1. /\ s' = [[X EXCEPT !.item = a, !.round = "rest"] EXCEPT !.pc = "close"]
        /\ lib' = lib /\ views' = views
    BY <1>2 DEF TryCandidate, Close, environment
  <2>2. /\ s'.pc = "close" /\ s'.phase = "admission" /\ s'.admission = s.admission
        /\ s'.round = "rest" /\ s'.selected = X.selected /\ s'.reasons = X.reasons
        /\ s'.item = a
    BY <2>1 DEF Idle
  <2>3. SoFar' = y
    BY <2>2 DEF SoFar, RoundOf
  <2>4. SelectedSoFar'
    BY <2>1, <2>2, <2>3, SameGraph, SameSteps DEF SelectedSoFar
  <2>5. Candidates(s)' = Candidates(X)
    BY <2>1, <2>2, SameGraph DEF Candidates
  <2>6. First(Candidates(s), s.item)'
    BY <1>2, <2>1, <2>2, <2>5, SameSteps DEF First
  <2> QED BY <2>1, <2>2, <2>4, <2>6, QuietReplays
<1> QED BY <1>1, <1>2 DEF NextCandidate

(* The selection starts where the ranking ends. *)
LEMMA RankReplays == ASSUME Inv, ReplayInv, s.pc = "close", Rank PROVE ReplayInv'
<1> DEFINE X == [s EXCEPT !.round = "P0", !.reasons = [a \in Available |-> "NOT_RELEVANT"]]
<1>1. CASE Close(X, P0)
  <2>1. s' = [X EXCEPT !.pc = "close"] /\ lib' = lib /\ views' = views
    BY <1>1 DEF Close, environment
  <2>2. /\ s.phase = "admission" /\ s.selected = {} /\ IsItems(Items)
    BY Working DEF Rank, ReasonsSoFar
  <2>3. /\ s'.phase = "admission" /\ s'.round = "P0" /\ s'.admission = s.admission
        /\ s'.selected = {} /\ s'.reasons = [a \in Available |-> "NOT_RELEVANT"]
    BY <2>1, <2>2 DEF Inv, Typed, Idle
  <2>4. SoFar' = NothingYet(Items)
    BY <2>3 DEF SoFar, RoundOf, NothingYet, Available
  <2>5. NothingYet(Items) \in SelectionStates
    BY <2>2, NothingIsAState DEF Inv, Typed
  <2>6. SelectedSoFar'
    BY <2>1, <2>3, <2>4, <2>5, SameGraph, SameSteps, LeadsOn DEF SelectedSoFar
  <2> QED BY <2>1, <2>3, <2>6, QuietReplays
<1> QED BY <1>1, MayFailReplay DEF Rank

(* A mandatory closure that fails. *)
LEMMA MandatoryFailsReplays ==
    ASSUME Inv, ReplayInv, s.pc = "close", NEW seedAtoms, NEW reason, NEW overflow,
           overflow # "REPLAY_MISMATCH", MandatoryFails(seedAtoms, reason, overflow)
    PROVE  ReplayInv'
<1> DEFINE X == Chosen(seedAtoms, reason)
<1>1. DOMAIN X = DOMAIN Idle
  BY DEF Chosen, Inv, Typed, Idle
<1> HIDE DEF X
<1> QED BY <1>1, FailReplays, MayFailReplay DEF MandatoryFails, X

(* The mandatory rounds are the first two steps of the selection. *)
LEMMA ChosenFollows ==
    ASSUME Inv, ReplayInv, s.pc = "close", pending = {}, NEW seedAtoms, NEW reason, NEW round,
           \/ s.round = "P0" /\ seedAtoms = P0 /\ reason = "P0_REQUIRED" /\ round = "P1"
           \/ s.round = "P1" /\ seedAtoms = TaskRequired /\ reason = "TASK_REQUIRED" /\ round = "rest"
    PROVE  LET X == Chosen(seedAtoms, reason)
               y == [round |-> round, selected |-> X.selected, reasons |-> X.reasons]
           IN  /\ DOMAIN X = DOMAIN Idle /\ X.phase = "admission" /\ X.admission = s.admission
               /\ X.round = s.round
               /\ y \in SelectionStates /\ Leads(Items, NothingYet(Items), y)
<1> DEFINE X == Chosen(seedAtoms, reason)
           y == [round |-> round, selected |-> X.selected, reasons |-> X.reasons]
           x == SoFar
<1>1. /\ DOMAIN X = DOMAIN Idle /\ X.phase = "admission" /\ X.admission = s.admission
      /\ X.round = s.round /\ X.selected = AtomsIn(closed)
      /\ X.reasons = Reasons(s, seedAtoms, reason, AtomsIn(closed))
  BY Working DEF Chosen, Inv, Typed, Idle
<1>2. /\ Selecting /\ x \in SelectionStates /\ x.round = s.round
      /\ x.selected = s.selected /\ x.reasons = s.reasons
  BY <1>1, Working DEF ReplayInv, Selecting, SelectedSoFar, SoFar, RoundOf
<1> HIDE DEF X, x
<1>3. y = Grown(x, round, seedAtoms, reason, closed)
  BY <1>1, <1>2 DEF Grown, Reasons
<1>4. y \in SelectionStates
  <2>1. round \in {"P0", "P1", "rest"} /\ reason \in ReasonCodes
    BY DEF ReasonCodes
  <2> QED BY <1>2, <1>3, <2>1, GrownState
<1>5. Least(Items, SeedAtoms, closed)
  BY RoundClosed
<1> HIDE DEF y
<1>6. ASSUME s.round = "P0", seedAtoms = P0, reason = "P0_REQUIRED", round = "P1"
      PROVE  Leads(Items, NothingYet(Items), y)
  <2>1. SeedAtoms = P0Of(Items) /\ P0 = P0Of(Items)
    BY <1>6 DEF SeedAtoms, P0, P0Of, Available
  <2>2. SelectP0(Items, x, y)
    BY <1>2, <1>3, <1>5, <1>6, <2>1 DEF SelectP0
  <2> QED BY <1>2, <1>4, <2>2, SelectionGoesOn DEF SelectStep, x
<1>7. ASSUME s.round = "P1", seedAtoms = TaskRequired, reason = "TASK_REQUIRED", round = "rest"
      PROVE  Leads(Items, NothingYet(Items), y)
  <2>1. SeedAtoms = x.selected \cup TaskOf(Items) /\ TaskRequired = TaskOf(Items)
    BY <1>2, <1>7 DEF SeedAtoms, TaskRequired, P1, TaskOf, Available, RootAtoms
  <2>2. SelectTask(Items, x, y)
    BY <1>2, <1>3, <1>5, <1>7, <2>1 DEF SelectTask
  <2> QED BY <1>2, <1>4, <2>2, SelectionGoesOn DEF SelectStep, x
<1>8. Leads(Items, NothingYet(Items), y)
  BY <1>6, <1>7
<1> QED BY <1>1, <1>4, <1>8 DEF X, y

(* The first mandatory closure is taken. *)
LEMMA CloseTaskReplays ==
    ASSUME Inv, ReplayInv, s.pc = "close", pending = {}, s.round = "P0",
           CloseTask(Chosen(P0, "P0_REQUIRED"))
    PROVE  ReplayInv'
<1> DEFINE X == Chosen(P0, "P0_REQUIRED")
           y == [round |-> "P1", selected |-> X.selected, reasons |-> X.reasons]
<1>1. /\ DOMAIN X = DOMAIN Idle /\ X.phase = "admission" /\ X.admission = s.admission
      /\ y \in SelectionStates /\ Leads(Items, NothingYet(Items), y)
  BY ChosenFollows
<1> HIDE DEF X
<1>2. /\ s' = [[X EXCEPT !.round = "P1"] EXCEPT !.pc = "close"] /\ lib' = lib /\ views' = views
  BY DEF CloseTask, Close, environment, X
<1>3. /\ s'.pc = "close" /\ s'.phase = "admission" /\ s'.admission = s.admission
      /\ s'.round = "P1" /\ s'.selected = X.selected /\ s'.reasons = X.reasons
  BY <1>1, <1>2 DEF Idle
<1>4. SoFar' = y
  BY <1>3 DEF SoFar, RoundOf
<1> HIDE DEF y
<1>5. SelectedSoFar'
  BY <1>1, <1>2, <1>3, <1>4, SameGraph, SameSteps DEF SelectedSoFar
<1> QED BY <1>2, <1>3, <1>5, QuietReplays

(* The second mandatory closure is taken. *)
LEMMA TaskClosedReplays ==
    ASSUME Inv, ReplayInv, s.pc = "close", pending = {}, s.round = "P1",
           NextCandidate(Chosen(TaskRequired, "TASK_REQUIRED"))
    PROVE  ReplayInv'
<1> DEFINE X == Chosen(TaskRequired, "TASK_REQUIRED")
           y == [round |-> "rest", selected |-> X.selected, reasons |-> X.reasons]
<1>1. /\ DOMAIN X = DOMAIN Idle /\ X.phase = "admission" /\ X.admission = s.admission
      /\ X.round = "P1" /\ y \in SelectionStates /\ Leads(Items, NothingYet(Items), y)
  BY ChosenFollows
<1> HIDE DEF X
<1> QED BY <1>1, NextReplays DEF X

(* A candidate that was tried is in, or marked. *)
LEMMA RelevantReplays ==
    ASSUME Inv, ReplayInv, s.pc = "close", pending = {}, s.round = "rest", Relevant
    PROVE  ReplayInv'
<1> DEFINE atoms == AtomsIn(closed)
           x == SoFar
           y == TriedOf(x, s.item, closed)
<1>1. s.phase = "admission" /\ Selecting
  BY Working DEF Selecting
<1>2. /\ x \in SelectionStates /\ x.round = "rest" /\ x.selected = s.selected
      /\ x.reasons = s.reasons
  BY <1>1 DEF ReplayInv, SelectedSoFar, SoFar, RoundOf
<1>3. First(CandidatesOf(Items, x), s.item)
  BY <1>1, <1>2 DEF ReplayInv, Candidates, CandidatesOf, Available
<1>4. Least(Items, x.selected \cup {s.item}, closed)
  BY <1>2, RoundClosed DEF SeedAtoms
<1>5. SelectStep(Items, x, y)
  BY <1>2, <1>3, <1>4 DEF SelectStep, SelectNext
<1>6. y \in SelectionStates
  <2>1. "RELEVANT" \in ReasonCodes
    BY DEF ReasonCodes
  <2> QED BY <1>2, <2>1, GrownState DEF TriedOf
<1>7. Leads(Items, NothingYet(Items), y)
  BY <1>1, <1>5, <1>6, SelectionGoesOn
<1>8. CASE Conflicts(lib, Items, closed) # {}
  BY <1>8, MayFailReplay DEF Relevant
<1>9. CASE Conflicts(lib, Items, closed) = {} /\ Tokens(atoms, {}) > lib.budget
  <2> DEFINE X == [s EXCEPT !.reasons[s.item] = "BUDGET_EXCLUDED"]
  <2>1. NextCandidate(X)
    BY <1>9 DEF Relevant
  <2>2. /\ DOMAIN X = DOMAIN Idle /\ X.phase = "admission" /\ X.admission = s.admission
        /\ X.round = "rest" /\ X.selected = s.selected
        /\ X.reasons = [s.reasons EXCEPT ![s.item] = "BUDGET_EXCLUDED"]
    BY <1>1 DEF Inv, Typed, Idle
  <2> HIDE DEF X, x
  <2>3. y = [round |-> "rest", selected |-> X.selected, reasons |-> X.reasons]
    BY <1>2, <1>9, <2>2 DEF TriedOf, Excluded
  <2> HIDE DEF y
  <2> QED BY <1>6, <1>7, <2>1, <2>2, <2>3, NextReplays
<1>10. CASE ~(Conflicts(lib, Items, closed) # {})
            /\ ~(Conflicts(lib, Items, closed) = {} /\ Tokens(atoms, {}) > lib.budget)
  <2> DEFINE X == [s EXCEPT !.selected = atoms, !.reasons = Reasons(s, {s.item}, "RELEVANT", atoms)]
  <2>1. NextCandidate(X)
    BY <1>10 DEF Relevant
  <2>2. /\ DOMAIN X = DOMAIN Idle /\ X.phase = "admission" /\ X.admission = s.admission
        /\ X.round = "rest" /\ X.selected = atoms
        /\ X.reasons = Reasons(s, {s.item}, "RELEVANT", atoms)
    BY <1>1 DEF Inv, Typed, Idle
  <2> HIDE DEF X, x
  <2>3. y = [round |-> "rest", selected |-> X.selected, reasons |-> X.reasons]
    BY <1>2, <1>10, <2>2 DEF TriedOf, Grown, Reasons
  <2> HIDE DEF y
  <2> QED BY <1>6, <1>7, <2>1, <2>2, <2>3, NextReplays
<1> QED BY <1>8, <1>9, <1>10

(* The final check changes nothing. *)
LEMMA PreservedReplays ==
    ASSUME Inv, ReplayInv, s.pc = "close", s.round = "final",
           Go([s EXCEPT !.pc = "sources", !.todo = Pairs, !.round = "last"])
    PROVE  ReplayInv'
<1> DEFINE X == [s EXCEPT !.pc = "sources", !.todo = Pairs, !.round = "last"]
<1>1. s' = X /\ lib' = lib /\ views' = views
  BY DEF Go, environment
<1>2. /\ DOMAIN X = DOMAIN Idle /\ X.pc = "sources" /\ X.round = "last" /\ X.phase = s.phase
      /\ X.admission = s.admission /\ X.selected = s.selected /\ X.reasons = s.reasons
      /\ X.stamp = s.stamp /\ X.expected = s.expected /\ X.code = s.code
  BY DEF Inv, Typed, Idle
<1> HIDE DEF X
<1> QED BY <1>1, <1>2, RestingReplays DEF Selecting, RoundOf

(* The end of a closure, in each round. *)
LEMMA ClosedReplays == ASSUME Inv, ReplayInv, Closed PROVE ReplayInv'
<1>0. s.pc = "close" /\ pending = {}
  BY DEF Closed
<1>1. CASE Missing(closed) # {}
  BY <1>1, MayFailReplay DEF Closed
<1>2. CASE Missing(closed) = {}
  <2>1. CASE Rank
    BY <1>0, <2>1, RankReplays
  <2>2. CASE s.round = "P0" /\ MandatoryFails(P0, "P0_REQUIRED", "P0_OVERFLOW")
    BY <1>0, <2>2, MandatoryFailsReplays
  <2>3. CASE s.round = "P0" /\ CloseTask(Chosen(P0, "P0_REQUIRED"))
    BY <1>0, <2>3, CloseTaskReplays
  <2>4. CASE s.round = "P1" /\ MandatoryFails(TaskRequired, "TASK_REQUIRED", "P1_OVERFLOW")
    BY <1>0, <2>4, MandatoryFailsReplays
  <2>5. CASE s.round = "P1" /\ NextCandidate(Chosen(TaskRequired, "TASK_REQUIRED"))
    BY <1>0, <2>5, TaskClosedReplays
  <2>6. CASE s.round = "rest" /\ Relevant
    BY <1>0, <2>6, RelevantReplays
  <2>7. CASE s.round = "final" /\ Go([s EXCEPT !.pc = "sources", !.todo = Pairs, !.round = "last"])
    BY <1>0, <2>7, PreservedReplays
  <2>8. CASE Fail(s, "FINAL_PRESERVATION_FAILED")
    BY <2>8, MayFailReplay
  <2> QED BY <1>2, <2>1, <2>2, <2>3, <2>4, <2>5, <2>6, <2>7, <2>8 DEF Closed
<1> QED BY <1>1, <1>2

(* The expansion changes nothing that is selected. *)
LEMMA ExpandReplays == ASSUME Inv, ReplayInv, Expand PROVE ReplayInv'
<1>1. CASE \E code : code # "REPLAY_MISMATCH" /\ Fail(s, code)
  BY <1>1, MayFailReplay
<1>2. CASE Close([s EXCEPT !.round = "final"], s.selected)
  <2>1. /\ s' = [[s EXCEPT !.round = "final"] EXCEPT !.pc = "close"] /\ lib' = lib
        /\ views' = views /\ s.pc = "expand"
    BY <1>2 DEF Close, environment, Expand
  <2>2. s.phase = "admission" /\ s.round \in {"P1", "rest"}
    BY <2>1, Working DEF Stage
  <2>3. /\ DOMAIN s' = DOMAIN Idle /\ s'.pc = "close" /\ s'.round = "final"
        /\ s'.phase = s.phase /\ s'.admission = s.admission /\ s'.selected = s.selected
        /\ s'.reasons = s.reasons /\ s'.stamp = s.stamp /\ s'.expected = s.expected
        /\ s'.code = s.code
    BY <2>1 DEF Inv, Typed, Idle
  <2> QED BY <2>1, <2>2, <2>3, RestingReplays DEF Selecting, RoundOf
<1>3. \A code \in ExpandErrors \cup WaveringErrors : code # "REPLAY_MISMATCH"
  BY OtherErrors DEF ExpandErrors
<1> QED BY <1>1, <1>2, <1>3 DEF Expand

(* The environment touches no selection. *)
LEMMA ElsewhereReplays ==
    ASSUME Inv, ReplayInv,
           \/ PolicyChanges \/ RegistryChanges \/ SourceChanges \/ ServiceChanges
           \/ WriterLocks \/ WriterUnlocks \/ Work \/ Rest \/ UNCHANGED vars
    PROVE  ReplayInv'
<1>1. /\ lib' = lib /\ views' = views
      /\ s' = s \/ \E seen : s' = [s EXCEPT !.during = seen]
  <2>1. CASE PolicyChanges \/ RegistryChanges
    <3> DEFINE d == IF s.pc = "admit" THEN s.during \cup {World'} ELSE s.during
    <3>1. s' = [s EXCEPT !.during = d]
      BY <2>1 DEF PolicyChanges, RegistryChanges, Seen, Inv, Typed, Idle
    <3> HIDE DEF d
    <3> QED BY <2>1, <3>1 DEF PolicyChanges, RegistryChanges, Change
  <2>2. CASE \/ SourceChanges \/ ServiceChanges \/ WriterLocks \/ WriterUnlocks
             \/ Work \/ Rest \/ UNCHANGED vars
    BY <2>2 DEF SourceChanges, ServiceChanges, WriterLocks, WriterUnlocks, Work, Rest, Change,
                vars, environment
  <2> QED BY <2>1, <2>2
<1>2. /\ DOMAIN s' = DOMAIN Idle /\ s'.pc = s.pc /\ s'.round = s.round /\ s'.phase = s.phase
      /\ s'.admission = s.admission /\ s'.selected = s.selected /\ s'.reasons = s.reasons
      /\ s'.stamp = s.stamp /\ s'.expected = s.expected /\ s'.code = s.code
      /\ s'.item = s.item
  BY <1>1 DEF Inv, Typed, Idle
<1> QED BY <1>1, <1>2, RestingReplays DEF Selecting, RoundOf

(* Every step of the compiler and of its environment. *)
LEMMA EveryStepReplays == ASSUME Inv, ReplayInv, [Next]_vars PROVE ReplayInv'
<1>1. CASE \E expected : Call(expected)
  BY <1>1, CallReplays
<1>2. CASE Steps /\ ~Work
  BY <1>2, SnapshotReplays, AdmitReplays, ResolvedReplays, AssembleReplays, ReadSourceReplays,
     SourcesReadReplays, ClosedReplays, ExpandReplays DEF Steps
<1>3. CASE \/ PolicyChanges \/ RegistryChanges \/ SourceChanges \/ ServiceChanges
           \/ WriterLocks \/ WriterUnlocks \/ Work \/ Rest \/ UNCHANGED vars
  BY <1>3, ElsewhereReplays
<1> QED BY <1>1, <1>2, <1>3 DEF Next

(***************************************************************************)
(* compile_view refuses a replay only if the admission or the services are *)
(* not those of the expected view, whatever the order of its sets.         *)
(***************************************************************************)
THEOREM ReplaysAreExact == Spec => []ReplayIsExact
<1>1. Init => ReplayInv
  <2> SUFFICES ASSUME Init PROVE ReplayInv
    OBVIOUS
  <2>1. ~Selecting /\ s.phase # "recheck"
    BY DEF Init, Idle, Selecting
  <2>2. Valid = {} /\ 1 .. Len(views) = {}
    BY DEF Init, Valid
  <2> QED BY <2>1, <2>2 DEF ReplayInv
<1>2. Inv /\ ReplayInv => ReplayIsExact
  BY ReplayEnds DEF Inv, Typed
<1>3. Inv /\ ReplayInv /\ [Next]_vars => ReplayInv'
  BY EveryStepReplays
<1> QED BY <1>1, <1>2, <1>3, InvHolds, PTL DEF Spec

-----------------------------------------------------------------------------
(* Finite sets: the nodes of a graph, and what is left of a set.           *)
LEMMA NodesAreFinite == IsFiniteSet(Nodes)
<1> DEFINE A == { AtomNode(a) : a \in Atoms \cup Ids }
           P == { Presence(c) : c \in Capsules }
           U == { Unit(c) : c \in Capsules }
           f == [ a \in Atoms \cup Ids |-> AtomNode(a) ]
           g == [ c \in Capsules |-> Presence(c) ]
           h == [ c \in Capsules |-> Unit(c) ]
<1>1. IsFiniteSet(Atoms \cup Ids)
  BY NodesAssumption, FS_Union
<1>2. f \in Surjection(Atoms \cup Ids, A) /\ g \in Surjection(Capsules, P)
      /\ h \in Surjection(Capsules, U)
  BY DEF Surjection
<1> HIDE DEF A, P, U, f, g, h
<1>3. IsFiniteSet(A) /\ IsFiniteSet(P) /\ IsFiniteSet(U)
  BY <1>1, <1>2, NodesAssumption, FS_Surjection
<1>4. IsFiniteSet((A \cup P) \cup U)
  BY <1>3, FS_Union
<1> QED BY <1>4, NodesAssumption DEF GraphNodes, A, P, U

(* The questions of a resolution are finitely many. *)
LEMMA QuestionsAreFinite == ASSUME lib \in Libraries PROVE IsFiniteSet(Questions)
<1> DEFINE N == Atoms \cup {None}
           P == (Capsules \X N) \X {1, 2, 3}
           f == [ x \in P |-> <<x[1][1], x[1][2], x[2]>> ]
           T == { f[x] : x \in P }
<1>1. IsFiniteSet({None}) /\ IsFiniteSet({1, 2, 3})
  <2>1. IsFiniteSet({1}) /\ IsFiniteSet({2}) /\ IsFiniteSet({3}) /\ IsFiniteSet({None})
    BY FS_Singleton
  <2>2. IsFiniteSet({1} \cup {2})
    BY <2>1, FS_Union
  <2>3. IsFiniteSet(({1} \cup {2}) \cup {3}) /\ {1, 2, 3} = ({1} \cup {2}) \cup {3}
    BY <2>1, <2>2, FS_Union
  <2> QED BY <2>1, <2>3
<1>2. IsFiniteSet(N)
  BY <1>1, NodesAssumption, FS_Union
<1>3. IsFiniteSet(Capsules \X N)
  BY <1>2, NodesAssumption, FS_Product
<1>4. IsFiniteSet(P)
  BY <1>1, <1>3, FS_Product
<1>5. Questions \subseteq T
  <2> SUFFICES ASSUME NEW q \in Questions PROVE q \in T
    OBVIOUS
  <2>1. PICK c \in Capsules, a \in N, k \in {1, 2, 3} : q = <<c, a, k>>
    BY QuestionsAre
  <2>2. << <<c, a>>, k >> \in P /\ f[<< <<c, a>>, k >>] = q
    BY <2>1
  <2> QED BY <2>2
<1>6. f \in Surjection(P, T)
  BY DEF Surjection
<1> HIDE DEF f, T, P
<1>7. IsFiniteSet(T)
  BY <1>4, <1>6, FS_Surjection
<1> QED BY <1>5, <1>7, FS_Subset

(* A part that is not the whole of a finite set is smaller. *)
LEMMA FewerLeft ==
    ASSUME NEW S, IsFiniteSet(S), NEW T \in SUBSET S, T # S
    PROVE  /\ IsFiniteSet(T) /\ Cardinality(T) \in Nat /\ Cardinality(S) \in Nat
           /\ Cardinality(T) < Cardinality(S)
<1>1. IsFiniteSet(T) /\ Cardinality(T) <= Cardinality(S) /\ Cardinality(T) # Cardinality(S)
  BY FS_Subset
<1>2. Cardinality(T) \in Nat /\ Cardinality(S) \in Nat
  BY <1>1, FS_CardinalityType
<1> QED BY <1>1, <1>2

-----------------------------------------------------------------------------
(***************************************************************************)
(* How far a call has to go: the stages before it, the candidates that are *)
(* not settled, and what the loop of the stage has left.                   *)
(***************************************************************************)
Distance ==
    CASE s.pc = "idle"                               -> 0
      [] s.phase = "recheck" /\ s.pc # "idle"        -> IF s.pc = "snapshot" THEN 2 ELSE 1
      [] s.phase = "final" /\ s.pc # "idle"          -> IF s.pc = "snapshot" THEN 4 ELSE 3
      [] s.phase = "admission" /\ s.pc = "snapshot"  -> 15
      [] s.phase = "admission" /\ s.pc = "admit"     -> 14
      [] s.phase = "admission" /\ s.pc = "graph"     -> 13
      [] s.phase = "admission" /\ s.pc = "sources"   -> IF s.round = "first" THEN 12 ELSE 5
      [] s.phase = "admission" /\ s.pc = "expand"    -> 7
      [] s.phase = "admission" /\ s.pc = "close"     ->
            CASE s.round = "check" -> 11
              [] s.round = "P0"    -> 10
              [] s.round = "P1"    -> 9
              [] s.round = "rest"  -> 8
              [] OTHER             -> 6

Untried == IF s.pc = "close" /\ s.round = "rest" THEN Candidates(s) ELSE {}

Left == IF s.pc = "close" THEN Nodes \ Settled ELSE s.todo

Advances ==
    \/ Distance' < Distance
    \/ /\ Distance' = Distance
       /\ Cardinality(Untried') < Cardinality(Untried)
    \/ /\ Distance' = Distance /\ Untried' = Untried
       /\ Cardinality(Left') < Cardinality(Left)

(* A session that may fail is at 3 or further, a running one at 1 or further. *)
LEMMA StagesAreNumbered ==
    ASSUME Inv, s.pc # "idle"
    PROVE  /\ Distance \in 1 .. 15
           /\ s.phase # "recheck" => Distance \in 3 .. 15
<1>1. CASE s.phase = "recheck"
  BY <1>1 DEF Inv, SelectionInv, Distance
<1>2. CASE s.phase = "final"
  BY <1>2 DEF Inv, SelectionInv, Distance
<1>3. CASE s.phase = "admission"
  <2>1. s.pc \in {"snapshot", "admit", "graph", "sources", "close", "expand"}
    BY <1>3 DEF Inv, SelectionInv, Stage
  <2>2. CASE s.pc = "close"
    BY <1>3, <2>2 DEF Distance
  <2>3. CASE s.pc # "close"
    BY <1>3, <2>1, <2>3 DEF Distance
  <2> QED BY <2>2, <2>3
<1> QED BY <1>1, <1>2, <1>3 DEF Inv, Typed

(* A return ends the call. *)
LEMMA ReturnAdvances ==
    ASSUME Inv, s.pc # "idle", NEW v, Return(v)
    PROVE  Advances
<1>1. s'.pc = "idle"
  BY DEF Return, Idle
<1>2. Distance' = 0
  BY <1>1 DEF Distance
<1> QED BY <1>2, StagesAreNumbered DEF Advances

(* A failure returns, or goes to the last resolution, which cannot fail again. *)
LEMMA FailAdvances ==
    ASSUME Inv, s.pc # "idle", s.phase # "recheck", NEW X, NEW code,
           DOMAIN X = DOMAIN Idle, Fail(X, code)
    PROVE  Advances
<1>1. CASE code \in Redacting \/ X.admission = None
  BY <1>1, ReturnAdvances DEF Fail
<1>2. CASE ~(code \in Redacting \/ X.admission = None)
  <2>1. s' = [X EXCEPT !.pc = "snapshot", !.phase = "recheck", !.code = code]
    BY <1>2 DEF Fail, Go
  <2>2. s'.pc = "snapshot" /\ s'.phase = "recheck"
    BY <2>1 DEF Idle
  <2>3. Distance' = 2
    BY <2>2 DEF Distance
  <2> QED BY <2>3, StagesAreNumbered DEF Advances
<1> QED BY <1>1, <1>2

(* What a call has left to read is finite. *)
LEMMA TodoIsFinite ==
    ASSUME Inv, IsFiniteSet(s.todo), [Next]_vars
    PROVE  IsFiniteSet(s.todo)'
<1>1. IsFiniteSet(Questions) /\ IsFiniteSet(Pairs) /\ IsFiniteSet({})
  <2>1. IsFiniteSet(Atoms \X Capsules)
    BY NodesAssumption, FS_Product
  <2>2. Pairs \in SUBSET (Atoms \X Capsules)
    BY DEF Pairs
  <2> QED BY <2>1, <2>2, FS_Subset, FS_EmptySet, QuestionsAreFinite DEF Inv, Typed
<1>2. \A x : IsFiniteSet(s.todo \ {x})
  BY FS_RemoveElement
<1>3. Idle.todo = {}
  BY DEF Idle
<1>4. DOMAIN s = DOMAIN Idle
  BY DEF Inv, Typed
<1>5. ASSUME NEW v, Return(v) PROVE IsFiniteSet(s'.todo)
  BY <1>1, <1>3, <1>5 DEF Return
<1>6. ASSUME NEW X, NEW code, DOMAIN X = DOMAIN Idle, IsFiniteSet(X.todo), Fail(X, code)
      PROVE  IsFiniteSet(s'.todo)
  <2>1. CASE code \in Redacting \/ X.admission = None
    BY <1>5, <1>6, <2>1 DEF Fail
  <2>2. CASE ~(code \in Redacting \/ X.admission = None)
    <3>1. s' = [X EXCEPT !.pc = "snapshot", !.phase = "recheck", !.code = code]
      BY <1>6, <2>2 DEF Fail, Go
    <3> QED BY <1>6, <3>1 DEF Idle
  <2> QED BY <2>1, <2>2
<1>7. \A code : Fail(s, code) => IsFiniteSet(s'.todo)
  BY <1>4, <1>6
<1>8. ASSUME NEW expected, Call(expected) PROVE IsFiniteSet(s'.todo)
  BY <1>1, <1>8 DEF Call, Go, Idle
<1>9. CASE Snapshot
  BY <1>1, <1>4, <1>5, <1>7, <1>9 DEF Snapshot, Go, Idle
<1>10. CASE Admit
  <2>1. PICK todo, passed : /\ s' = [s EXCEPT !.todo = todo, !.passed = passed]
                            /\ todo \subseteq s.todo
    BY <1>10, AdmitFrame
  <2>2. s'.todo = todo
    BY <1>4, <2>1 DEF Idle
  <2> QED BY <2>1, <2>2, FS_Subset
<1>11. CASE Resolved
  <2>1. CASE s.phase = "recheck"
    BY <1>5, <1>11, <2>1 DEF Resolved
  <2>2. CASE s.phase # "recheck" /\ policy # s.before
    BY <1>7, <1>11, <2>2 DEF Resolved
  <2>3. CASE s.phase = "admission" /\ policy = s.before
    <3>1. s' = [s EXCEPT !.pc = "graph", !.admission = Resolution, !.round = "none"]
      BY <1>11, <2>3 DEF Resolved, Go
    <3> QED BY <1>4, <3>1 DEF Idle
  <2>4. CASE s.phase = "final" /\ policy = s.before
    <3>1. Deliver \/ Fail(s, "POLICY_SNAPSHOT_CHANGED")
      BY <1>11, <2>4 DEF Resolved
    <3> QED BY <1>5, <1>7, <3>1 DEF Deliver
  <2> QED BY <2>1, <2>2, <2>3, <2>4 DEF Inv, Typed
<1>12. CASE Assemble
  BY <1>1, <1>4, <1>7, <1>12 DEF Assemble, Idle
<1>13. CASE ReadSource
  <2> DEFINE p == CHOOSE x \in s.todo : TRUE
  <2>1. Go([s EXCEPT !.todo = s.todo \ {p}]) \/ \E code : Fail(s, code)
    BY <1>4, <1>13 DEF ReadSource, Idle
  <2> HIDE DEF p
  <2>2. CASE Go([s EXCEPT !.todo = s.todo \ {p}])
    BY <1>2, <1>4, <2>2 DEF Go, Idle
  <2> QED BY <1>7, <2>1, <2>2
<1>14. ASSUME NEW X, DOMAIN X = DOMAIN Idle, X.todo = s.todo, NEW A, Close(X, A)
       PROVE  IsFiniteSet(s'.todo)
  BY <1>14 DEF Close, Idle
<1>15. CASE SourcesRead
  BY <1>4, <1>7, <1>14, <1>15 DEF SourcesRead, Go, Idle
<1>16. CASE Expand
  BY <1>4, <1>7, <1>14, <1>16 DEF Expand, Idle
<1>17. CASE Closed
  <2>1. ASSUME NEW X, DOMAIN X = DOMAIN Idle, X.todo = s.todo, NextCandidate(X)
        PROVE  IsFiniteSet(s'.todo)
    <3>1. CASE Go([X EXCEPT !.pc = "expand"])
      BY <2>1, <3>1 DEF Go, Idle
    <3>2. ASSUME NEW a, TryCandidate(X, a) PROVE IsFiniteSet(s'.todo)
      <4> DEFINE Y == [X EXCEPT !.item = a, !.round = "rest"]
      <4>1. DOMAIN Y = DOMAIN Idle /\ Y.todo = s.todo
        BY <2>1 DEF Idle
      <4> HIDE DEF Y
      <4> QED BY <1>14, <3>2, <4>1 DEF TryCandidate, Y
    <3> QED BY <2>1, <3>1, <3>2 DEF NextCandidate
  <2>2. ASSUME NEW S, NEW r
        PROVE  DOMAIN Chosen(S, r) = DOMAIN Idle /\ Chosen(S, r).todo = s.todo
    BY <1>4 DEF Chosen, Idle
  <2>3. ASSUME NEW S, NEW r, NEW o, MandatoryFails(S, r, o) PROVE IsFiniteSet(s'.todo)
    BY <1>6, <1>7, <2>2, <2>3 DEF MandatoryFails
  <2>4. CASE Rank
    BY <1>4, <1>7, <1>14, <2>4 DEF Rank, Idle
  <2>5. CASE CloseTask(Chosen(P0, "P0_REQUIRED"))
    <3> DEFINE C == Chosen(P0, "P0_REQUIRED")
               Y == [C EXCEPT !.round = "P1"]
    <3>1. DOMAIN C = DOMAIN Idle /\ C.todo = s.todo
      BY <2>2
    <3> HIDE DEF C
    <3>2. DOMAIN Y = DOMAIN Idle /\ Y.todo = s.todo
      BY <3>1 DEF Idle
    <3> HIDE DEF Y
    <3> QED BY <1>14, <2>5, <3>2 DEF CloseTask, Y, C
  <2>6. CASE Relevant
    <3> DEFINE X == [s EXCEPT !.reasons[s.item] = "BUDGET_EXCLUDED"]
               Y == [s EXCEPT !.selected = AtomsIn(closed),
                              !.reasons = Reasons(s, {s.item}, "RELEVANT", AtomsIn(closed))]
    <3>1. DOMAIN X = DOMAIN Idle /\ X.todo = s.todo /\ DOMAIN Y = DOMAIN Idle /\ Y.todo = s.todo
      BY <1>4 DEF Idle
    <3>2. Fail(s, "CONFLICT") \/ NextCandidate(X) \/ NextCandidate(Y)
      BY <2>6 DEF Relevant
    <3> HIDE DEF X, Y
    <3> QED BY <1>7, <2>1, <3>1, <3>2
  <2>7. CASE Go([s EXCEPT !.pc = "sources", !.todo = Pairs, !.round = "last"])
    BY <1>1, <1>4, <2>7 DEF Go, Idle
  <2> QED BY <1>7, <1>17, <2>1, <2>2, <2>3, <2>4, <2>5, <2>6, <2>7 DEF Closed
<1>18. CASE PolicyChanges \/ RegistryChanges
  BY <1>4, <1>18 DEF PolicyChanges, RegistryChanges, Seen, Idle
<1>19. CASE \/ Work \/ SourceChanges \/ ServiceChanges \/ WriterLocks \/ WriterUnlocks
            \/ Rest \/ UNCHANGED vars
  BY <1>19 DEF Work, SourceChanges, ServiceChanges, WriterLocks, WriterUnlocks, Rest, vars
<1> QED BY <1>8, <1>9, <1>10, <1>11, <1>12, <1>13, <1>15, <1>16, <1>17, <1>18, <1>19
        DEF Next, Steps

-----------------------------------------------------------------------------
(* The snapshot is taken, or the call returns or fails. *)
LEMMA SnapshotAdvances == ASSUME Inv, Snapshot PROVE Advances
<1>0. s.pc = "snapshot" /\ DOMAIN s = DOMAIN Idle
  BY DEF Snapshot, Inv, Typed
<1>1. CASE policy # None
  <2>1. s'.pc = "admit" /\ s'.phase = s.phase
    BY <1>0, <1>1 DEF Snapshot, Go, Idle
  <2>2. Distance' < Distance
    BY <1>0, <2>1 DEF Distance, Inv, Typed
  <2> QED BY <2>2 DEF Advances
<1>2. CASE policy = None
  BY <1>0, <1>2, ReturnAdvances, FailAdvances DEF Snapshot
<1> QED BY <1>1, <1>2

(* One question less. *)
LEMMA AdmitAdvances == ASSUME Inv, IsFiniteSet(s.todo), Admit PROVE Advances
<1>1. s.pc = "admit" /\ Question \in s.todo
  BY AdmitFrame
<1>2. PICK todo, passed : /\ s' = [s EXCEPT !.todo = todo, !.passed = passed]
                          /\ todo \subseteq s.todo /\ Question \notin todo
  BY AdmitFrame
<1>3. s'.todo = todo /\ s'.pc = s.pc /\ s'.phase = s.phase /\ s'.round = s.round
  BY <1>2 DEF Inv, Typed, Idle
<1>4. Distance' = Distance /\ Untried' = Untried
  BY <1>1, <1>3 DEF Distance, Untried
<1>5. Cardinality(Left') < Cardinality(Left)
  BY <1>1, <1>2, <1>3, FewerLeft DEF Left
<1> QED BY <1>4, <1>5 DEF Advances

(* The end of a resolution. *)
LEMMA ResolvedAdvances == ASSUME Inv, Resolved PROVE Advances
<1>0. s.pc = "admit" /\ DOMAIN s = DOMAIN Idle
  BY DEF Resolved, Inv, Typed
<1>1. CASE s.phase = "recheck"
  BY <1>0, <1>1, ReturnAdvances DEF Resolved
<1>2. CASE s.phase # "recheck" /\ policy # s.before
  BY <1>0, <1>2, FailAdvances DEF Resolved
<1>3. CASE s.phase = "admission" /\ policy = s.before
  <2>1. s' = [s EXCEPT !.pc = "graph", !.admission = Resolution, !.round = "none"]
    BY <1>3 DEF Resolved, Go
  <2>2. s'.pc = "graph" /\ s'.phase = "admission"
    BY <1>0, <1>3, <2>1 DEF Idle
  <2>3. Distance' < Distance
    BY <1>0, <1>3, <2>2 DEF Distance
  <2> QED BY <2>3 DEF Advances
<1>4. CASE s.phase = "final" /\ policy = s.before
  <2>1. Deliver \/ Fail(s, "POLICY_SNAPSHOT_CHANGED")
    BY <1>4 DEF Resolved
  <2>2. (\E v : Return(v)) \/ (\E code : Fail(s, code))
    BY <2>1 DEF Deliver
  <2> QED BY <1>0, <1>4, <2>2, ReturnAdvances, FailAdvances
<1> QED BY <1>1, <1>2, <1>3, <1>4 DEF Inv, Typed

(* A session at work that fails. *)
LEMMA WorkingFails ==
    ASSUME Inv, s.pc \in {"graph", "sources", "close", "expand"}, NEW code, Fail(s, code)
    PROVE  Advances
<1>1. s.phase = "admission" /\ DOMAIN s = DOMAIN Idle
  BY Working DEF Inv, Typed
<1> QED BY <1>1, FailAdvances

(* The graph is assembled once. *)
LEMMA AssembleAdvances == ASSUME Inv, Assemble PROVE Advances
<1>0. s.pc = "graph" /\ s.phase = "admission" /\ DOMAIN s = DOMAIN Idle
  BY Working DEF Assemble, Inv, Typed
<1>1. CASE s' = [s EXCEPT !.pc = "sources", !.todo = Pairs, !.round = "first"]
  <2>1. s'.pc = "sources" /\ s'.phase = "admission" /\ s'.round = "first"
    BY <1>0, <1>1 DEF Idle
  <2>2. Distance' < Distance
    BY <1>0, <2>1 DEF Distance
  <2> QED BY <2>2 DEF Advances
<1> QED BY <1>0, <1>1, WorkingFails DEF Assemble

(* One source less to read. *)
LEMMA ReadSourceAdvances == ASSUME Inv, IsFiniteSet(s.todo), ReadSource PROVE Advances
<1> DEFINE p == CHOOSE x \in s.todo : TRUE
<1>0. /\ s.pc = "sources" /\ s.todo # {} /\ DOMAIN s = DOMAIN Idle
      /\ Go([s EXCEPT !.todo = s.todo \ {p}]) \/ \E code : Fail(s, code)
  BY DEF ReadSource, Inv, Typed, Idle
<1>1. CASE Go([s EXCEPT !.todo = s.todo \ {p}])
  <2>1. p \in s.todo
    BY <1>0
  <2> HIDE DEF p
  <2>2. /\ s'.todo = s.todo \ {p} /\ s'.pc = s.pc /\ s'.phase = s.phase /\ s'.round = s.round
    BY <1>0, <1>1 DEF Go, Idle
  <2>3. Distance' = Distance /\ Untried' = Untried
    BY <1>0, <2>2 DEF Distance, Untried
  <2>4. Cardinality(Left') < Cardinality(Left)
    BY <1>0, <2>1, <2>2, FewerLeft DEF Left
  <2> QED BY <2>3, <2>4 DEF Advances
<1> QED BY <1>0, <1>1, WorkingFails

(* The start of a closure of a later round. *)
LEMMA CloseAdvances ==
    ASSUME Inv, s.pc \in {"sources", "close", "expand"}, NEW X, NEW atoms, Close(X, atoms),
           DOMAIN X = DOMAIN Idle, X.phase = "admission",
           \/ s.pc = "sources" /\ s.round = "first" /\ X.round = "check"
           \/ s.pc = "close" /\ s.round = "check" /\ X.round = "P0"
           \/ s.pc = "close" /\ s.round = "P0" /\ X.round = "P1"
           \/ s.pc = "close" /\ s.round = "P1" /\ X.round = "rest"
           \/ s.pc = "expand" /\ X.round = "final"
    PROVE  Advances
<1>1. s'.pc = "close" /\ s'.phase = "admission" /\ s'.round = X.round
  BY DEF Close, Idle
<1>2. s.phase = "admission"
  BY Working
<1>3. Distance' < Distance
  BY <1>1, <1>2 DEF Distance
<1> QED BY <1>3 DEF Advances

(* After the sources, the first closure or the last resolution. *)
LEMMA SourcesReadAdvances == ASSUME Inv, SourcesRead PROVE Advances
<1>0. s.pc = "sources" /\ s.phase = "admission" /\ DOMAIN s = DOMAIN Idle
  BY Working DEF SourcesRead, Inv, Typed
<1>1. CASE s.round = "first" /\ Close([s EXCEPT !.round = "check"], RootAtoms \cup lib.required)
  BY <1>0, <1>1, CloseAdvances DEF Idle
<1>2. CASE s.round = "last" /\ Go([s EXCEPT !.pc = "snapshot", !.phase = "final"])
  <2>1. s'.pc = "snapshot" /\ s'.phase = "final"
    BY <1>0, <1>2 DEF Go, Idle
  <2>2. Distance' < Distance
    BY <1>0, <1>2, <2>1 DEF Distance
  <2> QED BY <2>2 DEF Advances
<1> QED BY <1>0, <1>1, <1>2, WorkingFails DEF SourcesRead

(* One node less to settle. *)
LEMMA WorkAdvances == ASSUME Inv, Work PROVE Advances
<1>1. s.pc = "close" /\ ClosureNext /\ s' = s /\ lib' = lib
  BY DEF Work, environment
<1>2. Distance' = Distance /\ Untried' = Untried
  BY <1>1, SameGraph DEF Distance, Untried, Candidates
<1>3. Settled' \subseteq Nodes /\ Settled \subseteq Settled' /\ Settled # Settled'
  BY <1>1, TurnSettles DEF Inv, SettlesMore
<1>4. IsFiniteSet(Nodes \ Settled)
  BY NodesAreFinite, FS_Subset
<1>5. Nodes \ Settled' \in SUBSET (Nodes \ Settled) /\ Nodes \ Settled' # Nodes \ Settled
  BY <1>3
<1>6. Cardinality(Nodes \ Settled') < Cardinality(Nodes \ Settled)
  BY <1>4, <1>5, FewerLeft
<1> QED BY <1>1, <1>2, <1>6 DEF Advances, Left

(* The next candidate, or the expansion, from a smaller set of candidates. *)
LEMMA NextAdvances ==
    ASSUME Inv, s.pc = "close", NEW X, DOMAIN X = DOMAIN Idle, X.phase = "admission",
           X.admission = s.admission, NextCandidate(X),
           \/ s.round = "P1"
           \/ s.round = "rest" /\ Candidates(X) \subseteq Candidates(s) \ {s.item}
    PROVE  Advances
<1>0. s.phase = "admission"
  BY Working
<1>1. CASE Go([X EXCEPT !.pc = "expand"])
  <2>1. s'.pc = "expand" /\ s'.phase = "admission"
    BY <1>1 DEF Go, Idle
  <2>2. Distance' < Distance
    BY <1>0, <2>1 DEF Distance
  <2> QED BY <2>2 DEF Advances
<1>2. ASSUME NEW a, TryCandidate(X, a) PROVE Advances
  <2> DEFINE Y == [X EXCEPT !.item = a, !.round = "rest"]
  <2>1. Close(Y, X.selected \cup {a})
    BY <1>2 DEF TryCandidate
  <2>2. /\ DOMAIN Y = DOMAIN Idle /\ Y.phase = "admission" /\ Y.round = "rest"
        /\ Y.admission = s.admission /\ Y.selected = X.selected /\ Y.reasons = X.reasons
    BY DEF Idle
  <2> HIDE DEF Y
  <2>3. CASE s.round = "P1"
    BY <2>1, <2>2, <2>3, CloseAdvances
  <2>4. CASE s.round = "rest" /\ Candidates(X) \subseteq Candidates(s) \ {s.item}
    <3>1. /\ s'.pc = "close" /\ s'.phase = "admission" /\ s'.round = "rest" /\ lib' = lib
          /\ s'.admission = s.admission /\ s'.selected = X.selected /\ s'.reasons = X.reasons
      BY <2>1, <2>2 DEF Close, Idle, environment
    <3>2. Distance' = Distance
      BY <1>0, <2>4, <3>1 DEF Distance
    <3>3. Untried' = Candidates(X) /\ Untried = Candidates(s)
      BY <2>4, <3>1, SameGraph DEF Untried, Candidates
    <3>4. s.item \in Candidates(s)
      BY <2>4, Working
    <3>5. Candidates(s) \subseteq Atoms
      BY Working, GraphAtoms DEF Candidates, Inv, Typed
    <3>6. IsFiniteSet(Candidates(s))
      BY <3>5, NodesAssumption, FS_Subset
    <3>7. Cardinality(Candidates(X)) < Cardinality(Candidates(s))
      BY <2>4, <3>4, <3>6, FewerLeft
    <3> QED BY <3>2, <3>3, <3>7 DEF Advances
  <2> QED BY <2>3, <2>4
<1> QED BY <1>1, <1>2 DEF NextCandidate

(* A candidate that was tried is selected or marked, so it is tried once. *)
LEMMA RelevantAdvances ==
    ASSUME Inv, s.pc = "close", pending = {}, Missing(closed) = {}, s.round = "rest", Relevant
    PROVE  Advances
<1> DEFINE atoms == AtomsIn(closed)
<1>1. /\ s.selected \subseteq Available /\ ReasonsFor(s.reasons, s.selected)
      /\ s.item \in Candidates(s) /\ s.phase = "admission" /\ Available \subseteq Atoms
  BY Working, GraphAtoms DEF Mandatory, ReasonsSoFar, Inv, Typed
<1>2. SeedAtoms = s.selected \cup {s.item} /\ SeedAtoms \subseteq Atoms
  BY <1>1 DEF SeedAtoms, Candidates
<1>3. SeedAtoms \subseteq atoms
  BY <1>2, Reached
<1>4. CASE Conflicts(lib, Items, closed) # {}
  BY <1>4, WorkingFails DEF Relevant
<1>5. CASE Conflicts(lib, Items, closed) = {} /\ Tokens(atoms, {}) > lib.budget
  <2> DEFINE X == [s EXCEPT !.reasons[s.item] = "BUDGET_EXCLUDED"]
  <2>1. NextCandidate(X)
    BY <1>5 DEF Relevant
  <2>2. /\ DOMAIN X = DOMAIN Idle /\ X.phase = "admission" /\ X.admission = s.admission
        /\ X.selected = s.selected
        /\ X.reasons = [s.reasons EXCEPT ![s.item] = "BUDGET_EXCLUDED"]
    BY <1>1 DEF Inv, Typed, Idle
  <2> HIDE DEF X
  <2>3. Candidates(X) \subseteq Candidates(s) \ {s.item}
    BY <1>1, <2>2 DEF Candidates, ReasonsFor
  <2> QED BY <2>1, <2>2, <2>3, NextAdvances
<1>6. CASE ~(Conflicts(lib, Items, closed) # {})
           /\ ~(Conflicts(lib, Items, closed) = {} /\ Tokens(atoms, {}) > lib.budget)
  <2> DEFINE X == [s EXCEPT !.selected = atoms, !.reasons = Reasons(s, {s.item}, "RELEVANT", atoms)]
  <2>1. NextCandidate(X)
    BY <1>6 DEF Relevant
  <2>2. /\ DOMAIN X = DOMAIN Idle /\ X.phase = "admission" /\ X.admission = s.admission
        /\ X.selected = atoms
        /\ X.reasons = Reasons(s, {s.item}, "RELEVANT", atoms)
    BY <1>1 DEF Inv, Typed, Idle
  <2> HIDE DEF X
  <2>3. Candidates(X) \subseteq Candidates(s) \ {s.item}
    BY <1>1, <1>2, <1>3, <2>2 DEF Candidates, ReasonsFor, Reasons
  <2> QED BY <2>1, <2>2, <2>3, NextAdvances
<1> QED BY <1>4, <1>5, <1>6

(* The end of a closure, in each round. *)
LEMMA ClosedAdvances == ASSUME Inv, Closed PROVE Advances
<1>0. s.pc = "close" /\ pending = {} /\ s.phase = "admission" /\ DOMAIN s = DOMAIN Idle
  BY Working DEF Closed, Inv, Typed
<1>1. CASE Missing(closed) # {}
  BY <1>0, <1>1, WorkingFails DEF Closed
<1>2. CASE Missing(closed) = {}
  <2>1. ASSUME NEW S, NEW r
        PROVE  LET X == Chosen(S, r)
               IN  /\ DOMAIN X = DOMAIN Idle /\ X.phase = "admission"
                   /\ X.admission = s.admission
    BY <1>0 DEF Chosen, Idle
  <2>2. ASSUME NEW S, NEW r, NEW o, MandatoryFails(S, r, o) PROVE Advances
    BY <1>0, <2>1, <2>2, WorkingFails, FailAdvances DEF MandatoryFails
  <2>3. CASE Rank
    <3> DEFINE X == [s EXCEPT !.round = "P0", !.reasons = [a \in Available |-> "NOT_RELEVANT"]]
    <3>1. DOMAIN X = DOMAIN Idle /\ X.phase = "admission" /\ X.round = "P0"
      BY <1>0 DEF Idle
    <3>2. s.round = "check" /\ (Close(X, P0) \/ Fail(s, "RANKING_FAILED"))
      BY <2>3 DEF Rank
    <3> HIDE DEF X
    <3> QED BY <1>0, <3>1, <3>2, CloseAdvances, WorkingFails
  <2>4. CASE s.round = "P0" /\ CloseTask(Chosen(P0, "P0_REQUIRED"))
    <3> DEFINE C == Chosen(P0, "P0_REQUIRED")
               X == [C EXCEPT !.round = "P1"]
    <3>1. DOMAIN C = DOMAIN Idle /\ C.phase = "admission"
      BY <2>1
    <3> HIDE DEF C
    <3>2. DOMAIN X = DOMAIN Idle /\ X.phase = "admission" /\ X.round = "P1"
      BY <3>1 DEF Idle
    <3>3. Close(X, C.selected \cup TaskRequired)
      BY <2>4 DEF CloseTask, C
    <3> HIDE DEF X
    <3> QED BY <1>0, <2>4, <3>2, <3>3, CloseAdvances
  <2>5. CASE s.round = "P1" /\ NextCandidate(Chosen(TaskRequired, "TASK_REQUIRED"))
    BY <1>0, <2>1, <2>5, NextAdvances
  <2>6. CASE s.round = "rest" /\ Relevant
    BY <1>0, <1>2, <2>6, RelevantAdvances
  <2>7. CASE s.round = "final" /\ Go([s EXCEPT !.pc = "sources", !.todo = Pairs, !.round = "last"])
    <3>1. s'.pc = "sources" /\ s'.phase = "admission" /\ s'.round = "last"
      BY <1>0, <2>7 DEF Go, Idle
    <3>2. Distance' < Distance
      BY <1>0, <2>7, <3>1 DEF Distance
    <3> QED BY <3>2 DEF Advances
  <2>8. CASE Fail(s, "FINAL_PRESERVATION_FAILED")
    BY <1>0, <2>8, WorkingFails
  <2> QED BY <1>2, <2>2, <2>3, <2>4, <2>5, <2>6, <2>7, <2>8 DEF Closed
<1> QED BY <1>1, <1>2

(* The expansion, and the closure of the last check. *)
LEMMA ExpandAdvances == ASSUME Inv, Expand PROVE Advances
<1>0. s.pc = "expand" /\ s.phase = "admission" /\ DOMAIN s = DOMAIN Idle
  BY Working DEF Expand, Inv, Typed
<1>1. CASE Close([s EXCEPT !.round = "final"], s.selected)
  <2> DEFINE X == [s EXCEPT !.round = "final"]
  <2>1. DOMAIN X = DOMAIN Idle /\ X.phase = "admission" /\ X.round = "final"
    BY <1>0 DEF Idle
  <2> HIDE DEF X
  <2> QED BY <1>0, <1>1, <2>1, CloseAdvances DEF X
<1> QED BY <1>0, <1>1, WorkingFails DEF Expand

(* A change of others leaves a call where it is. *)
LEMMA ChangesDoNotDelay ==
    ASSUME Inv, \/ PolicyChanges \/ RegistryChanges \/ SourceChanges \/ ServiceChanges
                \/ WriterLocks \/ WriterUnlocks
    PROVE  Distance' = Distance /\ Untried' = Untried /\ Left' = Left
<1>1. lib' = lib /\ UNCHANGED closureVars
  BY DEF PolicyChanges, RegistryChanges, SourceChanges, ServiceChanges, WriterLocks,
         WriterUnlocks, Change
<1>2. /\ s'.pc = s.pc /\ s'.phase = s.phase /\ s'.round = s.round /\ s'.todo = s.todo
      /\ s'.admission = s.admission /\ s'.selected = s.selected /\ s'.reasons = s.reasons
  BY DEF PolicyChanges, RegistryChanges, Seen, SourceChanges, ServiceChanges, WriterLocks,
         WriterUnlocks, Inv, Typed, Idle
<1>3. Candidates(s)' = Candidates(s)
  BY <1>1, <1>2, SameGraph DEF Candidates
<1> QED BY <1>1, <1>2, <1>3 DEF Distance, Untried, Left, Settled, closureVars

Nearer ==
    s.pc # "idle" =>
        \/ Advances
        \/ /\ changes' = changes + 1 \/ (busy /\ ~busy')
           /\ UNCHANGED <<Distance, Untried, Left>>

(***************************************************************************)
(* Every step of compile_view brings its return nearer, and no change of   *)
(* policy, registry, sources or services and no writer of evidence takes   *)
(* it back: a call can only wait, for a lock that a put_blob holds.        *)
(***************************************************************************)
THEOREM CallsComeNearer == Spec => [][Nearer]_vars
<1> DEFINE J == Inv /\ IsFiniteSet(s.todo)
<1>1. Init => IsFiniteSet(s.todo)
  <2>1. IsFiniteSet({})
    BY FS_EmptySet
  <2>2. Idle.todo = {}
    BY DEF Idle
  <2>3. Init => s = Idle
    BY DEF Init
  <2> QED BY <2>1, <2>2, <2>3
<1>2. J /\ [Next]_vars => J'
  BY EveryStepKeeps, TodoIsFinite DEF Kept
<1>3. J /\ [Next]_vars => [Nearer]_vars
  <2> SUFFICES ASSUME J, Next, s.pc # "idle" PROVE Nearer
    BY DEF Nearer
  <2>1. CASE Steps
    BY <2>1, SnapshotAdvances, AdmitAdvances, ResolvedAdvances, AssembleAdvances,
       ReadSourceAdvances, SourcesReadAdvances, WorkAdvances, ClosedAdvances, ExpandAdvances
       DEF Steps, Nearer
  <2>2. CASE \/ PolicyChanges \/ RegistryChanges \/ SourceChanges \/ ServiceChanges
             \/ WriterLocks \/ WriterUnlocks
    <3>1. changes' = changes + 1 \/ (busy /\ ~busy')
      BY <2>2 DEF PolicyChanges, RegistryChanges, SourceChanges, ServiceChanges, WriterLocks,
                  WriterUnlocks, Change
    <3> QED BY <2>2, <3>1, ChangesDoNotDelay DEF Nearer
  <2> QED BY <2>1, <2>2 DEF Next, Call, Rest
<1> QED BY <1>1, <1>2, <1>3, Starts, PTL DEF Spec
=============================================================================
