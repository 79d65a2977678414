----------------------------- MODULE Quarantine -----------------------------
(***************************************************************************)
(* QuarantineStore and the approvals it trusts (audit/quarantine.py), with *)
(* the ingestion of sources that feeds it (build/ingest.py, atomize.py).   *)
(*                                                                         *)
(* A source is the metadata that snapshot_id hashes: digest, media type    *)
(* and mode.  It yields one candidate (one span), so candidates, bindings  *)
(* and promotions are functions of the source.  Two snapshots of a source  *)
(* differ in what the identity leaves out: the capture time, the principal *)
(* and the collector's proof.  A binding is its capture time, the one      *)
(* field in which the bindings of a candidate can differ; its digest is    *)
(* compared by comparing it.  Secrets, spans and parsers are left out:     *)
(* they are functions of bytes that never change behind one digest.        *)
(*                                                                         *)
(* Every method of the store holds its lock throughout, and is one action; *)
(* a call that raises changes nothing.                                     *)
(***************************************************************************)
EXTENDS ContentStore, Integers, Sequences

CONSTANTS
    Sources,      \* records [digest, media, mode]
    Authors,      \* principals who ingest
    Approvers,    \* approvers whose keys the trust root holds
    MaxClock,     \* bound of the clock
    Lifetimes     \* an approval expires so long after its time

ASSUME SourcesAreMetadata ==
    Sources \subseteq [digest : Digests, media : MediaTypes,
                       mode : {"CAS", "GIT_IMMUTABLE", "EXTERNAL_IMMUTABLE"}]

ASSUME TimesAreNaturals == MaxClock \in Nat /\ Lifetimes \subseteq Nat \ {0}

VARIABLES
    clock,        \* datetime.now
    drifted,      \* sources whose file no longer holds the captured bytes
    unresolved,   \* sources whose Git object no longer resolves
    held,         \* snapshots that callers hold
    snapshots,    \* _snapshots, by source
    candidates,   \* _candidates: the trust level, by source
    bindings,     \* _bindings: the captures bound, in order, by source
    promoted,     \* _promoted: the validated atom, by source
    approvals     \* approvals that reviewers have signed

storeVars == <<held, snapshots, candidates, bindings, promoted>>

Times == 0 .. MaxClock

(* An approval is [source, trust, bindings, at, expires, approver]; a       *)
(* validated atom is [source, trust, bindings, approval]; a snapshot is a   *)
(* capture of a source.                                                     *)
Snapshot == [source : Sources, captured : Times, author : Authors, proof : BOOLEAN]

ASSUME NoneIsNoSnapshot == None \notin Snapshot /\ None \notin {"T2", "T3"}

QuarantineInit ==
    /\ clock = 0 /\ drifted \in SUBSET Sources /\ unresolved = {}
    /\ held = {}
    /\ snapshots = [s \in Sources |-> None]
    /\ candidates = [s \in Sources |-> None]
    /\ bindings = [s \in Sources |-> << >>]
    /\ promoted = [s \in Sources |-> None]
    /\ approvals = {}

(* _git_show of the committed object. *)
Resolves(s) == s.mode = "GIT_IMMUTABLE" => s \notin unresolved

(* SourceSnapshot.assert_current.  External content has no file to drift. *)
AssertCurrent(s) == s.mode = "EXTERNAL_IMMUTABLE" \/ (s \notin drifted /\ Resolves(s))

-----------------------------------------------------------------------------
(* Ingestion *)

(* Only the collector's capability asks for a proof, and only a Git source  *)
(* gets one.                                                                *)
Attests(s, collector) == collector /\ s.mode = "GIT_IMMUTABLE"

(* _snapshot_source after the content store: the capture is stamped, and    *)
(* the proof is issued while the source is current.                         *)
Capture(s, author, attest) ==
    [source |-> s, captured |-> clock, author |-> author, proof |-> attest]

CaptureFails(s, attest) == attest /\ ~AssertCurrent(s)

(* Mutant: a bound snapshot may be replaced like any other. *)
MayReplaceBound(snap) ==
    LET old == snapshots[snap.source]
    IN  old # None => old.author = snap.author

(* register_snapshot: an identity may not change hands, and once candidates *)
(* hang on it, it may not be replaced by a new capture.  The proof is       *)
(* neither a trust field nor part of the capture.                           *)
MayReplace(snap) ==
    LET old == snapshots[snap.source]
    IN  old # None =>
            /\ old.author = snap.author
            /\ candidates[snap.source] # None => old.captured = snap.captured

RegisterSnapshot(snap) ==
    /\ MayReplace(snap)
    /\ snapshots' = [snapshots EXCEPT ![snap.source] = snap]
    /\ held' = held \cup {snap}
    /\ UNCHANGED <<candidates, bindings, promoted>>

TrustOf(snap) == IF snap.proof THEN "T2" ELSE "T3"

(* extract_candidate_atoms with the snapshot the caller holds, and          *)
(* register_candidate, which classifies by the snapshot the store holds.    *)
ExtractCandidate(snap) ==
    LET s == snap.source IN
    /\ snap \in held
    /\ snapshots[s] # None /\ AssertCurrent(s)
    /\ TrustOf(snap) = TrustOf(snapshots[s])
    /\ candidates[s] \in {None, TrustOf(snap)}
    /\ candidates' = [candidates EXCEPT ![s] = TrustOf(snap)]
    /\ UNCHANGED <<held, snapshots, bindings, promoted, approvals>>

(* bind_evidence and register_binding: the capture is the caller's. *)
BindEvidence(snap) ==
    LET s == snap.source IN
    /\ snap \in held
    /\ candidates[s] # None /\ AssertCurrent(s)
    /\ \A i \in DOMAIN bindings[s] : bindings[s][i] # snap.captured
    /\ bindings' = [bindings EXCEPT ![s] = Append(@, snap.captured)]
    /\ UNCHANGED <<held, snapshots, candidates, promoted, approvals>>

-----------------------------------------------------------------------------
(* Approval and promotion *)

(* HumanApprovalAuthority.issue signs what the reviewer was shown, with the *)
(* time the reviewer states.                                                *)
IssueApproval(s, approver, at, lifetime) ==
    /\ candidates[s] # None /\ bindings[s] # << >>
    /\ approvals' = approvals \cup
         {[source |-> s, trust |-> candidates[s], bindings |-> bindings[s],
           at |-> at, expires |-> at + lifetime, approver |-> approver]}
    /\ UNCHANGED storeVars

(* _verify_approval_time and the time check of the registry. *)
InForce(a) == a.at <= clock /\ clock < a.expires

(* _verify_approval_trust and the source check of the registry: signed by   *)
(* an approver of the trust root other than the author, no earlier than     *)
(* the capture.                                                             *)
Independent(a, author, captured) ==
    /\ a \in approvals
    /\ a.approver # author
    /\ a.at >= captured

(* Mutant: an approval of an earlier set of bindings is enough. *)
CoversSource(a, s) == a.source = s /\ a.trust = candidates[s]

(* _verify_approval_identity. *)
Covers(a, s) ==
    /\ a.source = s
    /\ a.trust = candidates[s]
    /\ a.bindings = bindings[s]

(* promote.  The bindings verify: they carry the digest of the snapshot. *)
Promote(s, a) ==
    /\ candidates[s] # None /\ promoted[s] = None /\ bindings[s] # << >>
    /\ AssertCurrent(s)
    /\ Covers(a, s)
    /\ InForce(a)
    /\ Independent(a, snapshots[s].author, snapshots[s].captured)
    /\ promoted' = [promoted EXCEPT ![s] =
         [source |-> s, trust |-> candidates[s], bindings |-> bindings[s], approval |-> a]]
    /\ UNCHANGED <<held, snapshots, candidates, bindings, approvals>>

(* verify_validated. *)
VerifyValidated(atom) ==
    LET s == atom.source IN
    /\ promoted[s] = atom
    /\ AssertCurrent(s)
    /\ candidates[s] = "T2" => snapshots[s].proof
    /\ clock < atom.approval.expires
    /\ atom.approval \in approvals

(* _permit_atom_entry: what the permit says of an atom is read from the     *)
(* snapshot the store holds now.                                            *)
PermitAtomEntry(atom) == [atom |-> atom, snapshot |-> snapshots[atom.source]]

(* The store lives in its process and dies with it. *)
QuarantineLost ==
    /\ held' = {}
    /\ snapshots' = [s \in Sources |-> None]
    /\ candidates' = [s \in Sources |-> None]
    /\ bindings' = [s \in Sources |-> << >>]
    /\ promoted' = [s \in Sources |-> None]
    /\ UNCHANGED approvals
=============================================================================
