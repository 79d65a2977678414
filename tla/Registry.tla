------------------------------ MODULE Registry ------------------------------
(***************************************************************************)
(* Registry (storage/registry.py): immutable publications in SQLite, and   *)
(* the gate that every capsule with exact or structured atoms must pass.   *)
(*                                                                         *)
(* A capsule is its version, its validated atoms and the plain CAS         *)
(* evidence of its other atoms; equal digests are equal capsules, and the  *)
(* rows of a publication (evidence, grants, attestation) are functions of  *)
(* the capsule and the permit that one transaction inserts together.       *)
(* Signatures are abstracted to what they bind: a permit is the record     *)
(* that was signed.                                                        *)
(*                                                                         *)
(* publish is a preflight check and a transaction that holds the one write *)
(* lock of the database and checks one thing after another: the policy,    *)
(* each object, the package, each Git source, each approval.  The world    *)
(* goes on in between, and during remembers it.                            *)
(***************************************************************************)
EXTENDS Quarantine

CONSTANTS
    Versions,     \* (capsule ID, version) pairs
    Packages      \* package directories

VARIABLES
    policy,       \* the actions the policy resolver grants
    packages,     \* the capsule that load_capsule reads in each directory
    process,      \* number of the process that hosts the quarantine
    during,       \* history: the world since the open transaction began
    rows,         \* the publications, with their attestation, by version
    returned      \* history: every PublishedCapsule that was returned

registryVars == <<rows, returned>>

RegistryInit ==
    /\ policy = {"publish", "read"}
    /\ packages = [k \in Packages |-> None]
    /\ process = 0
    /\ during = {}
    /\ rows = << >>
    /\ returned = {}

(* What the transaction reads of the world besides the content store. *)
World == [policy |-> policy, packages |-> packages, unresolved |-> unresolved, clock |-> clock]

(* The CAS records of the evidence plane. *)
CasEvidence(c) ==
    c.extra \cup { <<a.source.digest, a.source.media>> :
                     a \in { b \in c.atoms : b.source.mode = "CAS" } }

(* _requires_m3_gate. *)
RequiresGate(c) == c.atoms # {}

(* _authorize_publish: the policy resolver. *)
AuthorizePublish == "publish" \in policy

(* _validate_candidate reads a record of the evidence, and waits for the    *)
(* writer of its object.                                                    *)
ReadVerified(e) == Readable(e[1]) /\ object[e[1]] = e[2]

(* _verify_permit_signature: the issuer is the quarantine of this process. *)
VerifyPermitSignature(permit) == permit.process = process

(* _validate_loader_attestation loads the package again. *)
LoaderAttests(c, permit) == packages[permit.package] = c

(* _validate_m3_header.  _permit_atom_map comes later in the code, and      *)
(* compares what cannot change.                                             *)
ValidateHeader(c, permit) ==
    /\ permit # None
    /\ VerifyPermitSignature(permit)
    /\ permit.capsule = c
    /\ { e.atom : e \in permit.entries } = c.atoms
    /\ LoaderAttests(c, permit)

(* _resolve_source_subject: Git evidence is resolved again through the      *)
(* proof; the bytes of other evidence are those the permit retained.        *)
ResolveSubject(e) ==
    e.atom.source.mode = "GIT_IMMUTABLE" => e.snapshot.proof /\ Resolves(e.atom.source)

(* _source_classification. *)
SourceClassification(e) == e.atom.trust = TrustOf(e.snapshot)

(* Mutant: the approval was checked when the permit was issued. *)
ValidateApprovalUntimed(e) ==
    Independent(e.atom.approval, e.snapshot.author, e.snapshot.captured)

(* _validate_approval and _validate_approval_source. *)
ValidateApproval(e) ==
    /\ InForce(e.atom.approval)
    /\ Independent(e.atom.approval, e.snapshot.author, e.snapshot.captured)

(* _validate_bindings.  The objects of CAS bindings are read once more; the *)
(* transaction has read them, and while the process lives nothing can take  *)
(* or lock an object that could be read.                                    *)
ValidateBindings(e) == e.atom.bindings = e.atom.approval.bindings

(* _validate_m3_atom. *)
ValidateAtom(e) == SourceClassification(e) /\ ValidateApproval(e) /\ ValidateBindings(e)

Published(v, row) == [version |-> v, capsule |-> row.capsule, at |-> row.at]

(* The inserts of one transaction. *)
Insert(v, row) ==
    /\ rows' = [x \in DOMAIN rows \cup {v} |-> IF x = v THEN row ELSE rows[x]]
    /\ returned' = returned \cup {Published(v, row)}

(* Mutant: an INSERT OR REPLACE. *)
ReplacePublication(c, permit) ==
    Insert(c.version, [capsule |-> c, permit |-> permit, at |-> clock])

(* A version that is not stored is inserted, verified and committed. *)
InsertPublication(c, permit) ==
    /\ c.version \notin DOMAIN rows
    /\ Insert(c.version, [capsule |-> c, permit |-> permit, at |-> clock])

(* _verify_existing and _verify_m3_replay: the stored publication is the    *)
(* answer to the same capsule under the same permit.                        *)
IsReplay(c, permit) == rows[c.version].capsule = c /\ rows[c.version].permit = permit

ReplayPublication(c, permit) ==
    /\ c.version \in DOMAIN rows
    /\ IsReplay(c, permit)
    /\ returned' = returned \cup {Published(c.version, rows[c.version])}
    /\ UNCHANGED rows

(* VersionConflict and PublicationConflict: rolled back. *)
RefusePublication(c, permit) ==
    /\ c.version \in DOMAIN rows
    /\ ~IsReplay(c, permit)
    /\ UNCHANGED registryVars

(* get.  The row, its references and grants and the objects are read one    *)
(* after another; nothing can change the row, which is the answer.          *)
Get(v) ==
    /\ "read" \in policy
    /\ \A e \in CasEvidence(rows[v].capsule) : ReadVerified(e)
    /\ returned' = returned \cup {Published(v, rows[v])}
    /\ UNCHANGED rows
=============================================================================
