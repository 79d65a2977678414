---------------------------- MODULE Publication -----------------------------
(***************************************************************************)
(* The way of a source into the registry: ingestion (build/ingest.py), the *)
(* build of a package (build/publish.py) and its publication, by threads   *)
(* of one process over the content store, the quarantine and the registry. *)
(* The files drift, Git objects and packages vanish, the policy changes,   *)
(* approvals expire, the process dies and the power is lost; the content   *)
(* store, the registry, the packages and the signed approvals survive.     *)
(***************************************************************************)
EXTENDS Registry, FiniteSets

CONSTANTS
    Plain,          \* CAS evidence <<digest, media>> of capsules without the gate
    MaxCaptures,    \* bound on the snapshots that callers hold or are taking
    MaxApprovals,   \* bound on the approvals signed
    MaxFaults       \* bound on the faults of the environment

ASSUME PlainIsEvidence == Plain \subseteq Digests \X MediaTypes

VARIABLES
    job,            \* what each thread is doing
    drafts,         \* drafts that build_capsule returned
    budget          \* faults still to come

vars == <<object, shard, synced, put, acked, torn, uprooted, clock, drifted, unresolved, held,
          snapshots, candidates, bindings, promoted, approvals, policy, packages, process, during,
          rows, returned, job, drafts, budget>>

casUnchanged == UNCHANGED casVars
quarantineUnchanged == UNCHANGED <<held, snapshots, candidates, bindings, promoted, approvals>>
registryUnchanged == UNCHANGED registryVars
worldStays == UNCHANGED <<clock, drifted, unresolved, policy, packages, process, budget>>
worldUnchanged == worldStays /\ UNCHANGED during

Idle == [pc |-> "idle"]

Init ==
    /\ CasInit /\ QuarantineInit /\ RegistryInit
    /\ job = [w \in Writers |-> Idle]
    /\ drafts = {}
    /\ budget \in 0 .. MaxFaults

Ingesting == { w \in Writers : job[w].pc \in {"putting", "read", "captured"} }

Becomes(w, j) == job' = [job EXCEPT ![w] = j]

(* The world that a step leaves joins what an open transaction has seen. *)
Passes == during' = IF during = {} THEN {} ELSE during \cup {World'}

-----------------------------------------------------------------------------
(* _snapshot_source *)

Ingestion(pc, s, author, attest) ==
    [pc |-> pc, source |-> s, author |-> author, attest |-> attest]

(* The source is read and found equal to what is committed; its bytes are   *)
(* put into the content store when the caller gave one.                     *)
IngestReads(w, s, author, collector, cas) ==
    LET j == Ingestion(IF cas THEN "putting" ELSE "read", s, author, Attests(s, collector))
    IN  /\ job[w] = Idle
        /\ Cardinality(held) + Cardinality(Ingesting) < MaxCaptures
        /\ AssertCurrent(s)
        /\ IF cas THEN PutBegins(w, s.digest, s.media) ELSE casUnchanged
        /\ Becomes(w, j)
        /\ UNCHANGED drafts
        /\ quarantineUnchanged /\ registryUnchanged /\ worldUnchanged

(* A caller stores evidence that no atom of the gate refers to. *)
PutBlob(w, d, m) ==
    /\ job[w] = Idle
    /\ PutBegins(w, d, m)
    /\ Becomes(w, [pc |-> "storing"])
    /\ UNCHANGED drafts
    /\ quarantineUnchanged /\ registryUnchanged /\ worldUnchanged

(* One step of put_blob, or its return: an error ends the ingestion. *)
Putting(w) ==
    /\ job[w].pc \in {"putting", "storing"}
    /\ \/ PutStep(w) /\ UNCHANGED job
       \/ /\ PutReturns(w)
          /\ Becomes(w, IF job[w].pc = "putting" /\ put[w].pc = "acked"
                        THEN Ingestion("read", job[w].source, job[w].author, job[w].attest)
                        ELSE Idle)
    /\ UNCHANGED drafts
    /\ quarantineUnchanged /\ registryUnchanged /\ worldUnchanged

IngestCaptures(w) ==
    /\ job[w].pc = "read"
    /\ \/ /\ CaptureFails(job[w].source, job[w].attest)
          /\ Becomes(w, Idle)
       \/ /\ ~CaptureFails(job[w].source, job[w].attest)
          /\ Becomes(w, [pc |-> "captured",
                         snapshot |-> Capture(job[w].source, job[w].author, job[w].attest)])
    /\ UNCHANGED drafts
    /\ casUnchanged /\ quarantineUnchanged /\ registryUnchanged /\ worldUnchanged

IngestRegisters(w) ==
    /\ job[w].pc = "captured"
    /\ \/ RegisterSnapshot(job[w].snapshot) /\ UNCHANGED approvals
       \/ ~MayReplace(job[w].snapshot) /\ quarantineUnchanged
    /\ Becomes(w, Idle)
    /\ UNCHANGED drafts
    /\ casUnchanged /\ registryUnchanged /\ worldUnchanged

(* Calls that hold the lock of the quarantine throughout. *)
QuarantineCall ==
    /\ \/ \E snap \in held : ExtractCandidate(snap) \/ BindEvidence(snap)
       \/ /\ Cardinality(approvals) < MaxApprovals
          /\ \E s \in Sources, by \in Approvers, at \in Times, lifetime \in Lifetimes :
               IssueApproval(s, by, at, lifetime)
       \/ \E a \in approvals : Promote(a.source, a)
    /\ UNCHANGED <<job, drafts>>
    /\ casUnchanged /\ registryUnchanged /\ worldUnchanged

-----------------------------------------------------------------------------
(* build_capsule and publish_draft *)

(* _collect_evidence: every atom verifies, and no two evidence records have *)
(* one ID.  The ID of a binding leaves out its capture, so an atom with two *)
(* bindings cannot be assembled.                                            *)
Assembles(atoms) ==
    /\ atoms # {}
    /\ \A a \in atoms : VerifyValidated(a) /\ Len(a.bindings) = 1

(* _assemble, and _validate_through_loader up to the temporary package. *)
BuildBegins(w, v, k, atoms) ==
    /\ job[w] = Idle
    /\ Assembles(atoms)
    /\ packages[k] = None
    /\ Becomes(w, [pc |-> "building", package |-> k,
                   capsule |-> [version |-> v, atoms |-> atoms, extra |-> {}]])
    /\ UNCHANGED drafts
    /\ casUnchanged /\ quarantineUnchanged /\ registryUnchanged /\ worldUnchanged

(* os.rename does not replace a directory that is not empty. *)
RenameSucceeds(k) == packages[k] = None

BuildEnds(w) ==
    LET c == job[w].capsule  k == job[w].package IN
    /\ job[w].pc = "building"
    /\ \/ /\ RenameSucceeds(k)
          /\ packages' = [packages EXCEPT ![k] = c]
          /\ drafts' = drafts \cup {[capsule |-> c, package |-> k]}
       \/ ~RenameSucceeds(k) /\ UNCHANGED <<packages, drafts>>
    /\ Becomes(w, Idle)
    /\ casUnchanged /\ quarantineUnchanged /\ registryUnchanged
    /\ UNCHANGED <<clock, drifted, unresolved, policy, process, budget>>
    /\ Passes

(* issue_publication_permit. *)
PermitFor(draft) ==
    [capsule |-> draft.capsule, package |-> draft.package, process |-> process,
     entries |-> { PermitAtomEntry(a) : a \in draft.capsule.atoms }]

(* publish_draft up to the preflight check of Registry.publish. *)
PublishDraft(w, draft) ==
    /\ job[w] = Idle
    /\ \A a \in draft.capsule.atoms : VerifyValidated(a)
    /\ AuthorizePublish
    /\ Becomes(w, [pc |-> "publishing", capsule |-> draft.capsule, permit |-> PermitFor(draft)])
    /\ UNCHANGED drafts
    /\ casUnchanged /\ quarantineUnchanged /\ registryUnchanged /\ worldUnchanged

(* Registry.publish of a capsule without atoms of the gate. *)
PublishPlain(w, v, extra) ==
    /\ job[w] = Idle
    /\ AuthorizePublish
    /\ Becomes(w, [pc |-> "publishing", permit |-> None,
                   capsule |-> [version |-> v, atoms |-> {}, extra |-> extra]])
    /\ UNCHANGED drafts
    /\ casUnchanged /\ quarantineUnchanged /\ registryUnchanged /\ worldUnchanged

(* The transaction of Registry.publish so far: the evidence it has read,    *)
(* the header, the subjects it has resolved and the atoms it has validated. *)
Proceeds(w, read, header, resolved, validated) ==
    Becomes(w, [pc |-> "transaction", capsule |-> job[w].capsule, permit |-> job[w].permit,
                read |-> read, header |-> header, resolved |-> resolved,
                validated |-> validated])

Open == { w \in Writers : job[w].pc = "transaction" }

(* BEGIN IMMEDIATE waits for the write lock of the database, and gives up   *)
(* when SQLite has waited long enough; the policy is asked again.           *)
PublishBegins(w) ==
    /\ job[w].pc = "publishing"
    /\ \/ /\ Open = {} /\ AuthorizePublish
          /\ Proceeds(w, {}, FALSE, {}, {})
          /\ during' = {World}
       \/ Becomes(w, Idle) /\ UNCHANGED during
    /\ UNCHANGED drafts
    /\ casUnchanged /\ quarantineUnchanged /\ registryUnchanged /\ worldStays

(* _validate_candidate and _validate_m3_publication check one thing after   *)
(* another.                                                                 *)
PublishChecks(w) ==
    LET j == job[w]  c == j.capsule  entries == j.permit.entries IN
    /\ j.pc = "transaction"
    /\ \/ \E e \in CasEvidence(c) \ j.read :
            ReadVerified(e) /\ Proceeds(w, j.read \cup {e}, FALSE, {}, {})
       \/ /\ j.read = CasEvidence(c) /\ RequiresGate(c) /\ ~j.header
          /\ ValidateHeader(c, j.permit)
          /\ Proceeds(w, j.read, TRUE, {}, {})
       \/ /\ j.header
          /\ \E e \in entries \ j.resolved :
               ResolveSubject(e) /\ Proceeds(w, j.read, TRUE, j.resolved \cup {e}, {})
       \/ /\ j.header /\ j.resolved = entries
          /\ \E e \in entries \ j.validated :
               ValidateAtom(e) /\ Proceeds(w, j.read, TRUE, j.resolved, j.validated \cup {e})
    /\ UNCHANGED drafts
    /\ casUnchanged /\ quarantineUnchanged /\ registryUnchanged /\ worldUnchanged

(* Every check has passed. *)
Checked(j) ==
    /\ j.read = CasEvidence(j.capsule)
    /\ RequiresGate(j.capsule) => j.header /\ j.validated = j.permit.entries

PublishCommits(w) ==
    LET c == job[w].capsule  permit == job[w].permit IN
    /\ job[w].pc = "transaction" /\ Checked(job[w])
    /\ InsertPublication(c, permit) \/ ReplayPublication(c, permit) \/ RefusePublication(c, permit)
    /\ Becomes(w, Idle) /\ during' = {}
    /\ UNCHANGED drafts
    /\ casUnchanged /\ quarantineUnchanged /\ worldStays

(* A check fails, or an object, the package, Git or the database cannot be  *)
(* read or written: rolled back.                                            *)
PublishRaises(w) ==
    /\ job[w].pc = "transaction"
    /\ Becomes(w, Idle) /\ during' = {}
    /\ UNCHANGED drafts
    /\ casUnchanged /\ quarantineUnchanged /\ registryUnchanged /\ worldStays

GetPublished ==
    /\ \E v \in DOMAIN rows : Get(v)
    /\ UNCHANGED <<job, drafts>>
    /\ casUnchanged /\ quarantineUnchanged /\ worldUnchanged

-----------------------------------------------------------------------------
(* The environment *)

Tick ==
    /\ clock < MaxClock
    /\ clock' = clock + 1
    /\ UNCHANGED <<drifted, unresolved, policy, packages, process, budget, job, drafts>>
    /\ Passes
    /\ casUnchanged /\ quarantineUnchanged /\ registryUnchanged

(* A file is edited, a repository or a package is removed, or the policy    *)
(* is changed.                                                              *)
Change ==
    /\ budget > 0 /\ budget' = budget - 1
    /\ \/ /\ \E s \in Sources \ drifted : drifted' = drifted \cup {s}
          /\ UNCHANGED <<unresolved, packages, policy>>
       \/ /\ \E s \in Sources \ unresolved :
               s.mode = "GIT_IMMUTABLE" /\ unresolved' = unresolved \cup {s}
          /\ UNCHANGED <<drifted, packages, policy>>
       \/ /\ \E k \in Packages : packages[k] # None /\ packages' = [packages EXCEPT ![k] = None]
          /\ UNCHANGED <<drifted, unresolved, policy>>
       \/ /\ \E p \in SUBSET {"publish", "read"} : p # policy /\ policy' = p
          /\ UNCHANGED <<drifted, unresolved, packages>>
    /\ UNCHANGED <<clock, process, job, drafts>>
    /\ Passes
    /\ casUnchanged /\ quarantineUnchanged /\ registryUnchanged

(* The process dies, alone or with the machine. *)
Crash ==
    /\ budget > 0 /\ budget' = budget - 1
    /\ \/ WritersDie(Writers)
       \/ \E gone \in SUBSET Shards, lost \in SUBSET Digests : PowerLoss(gone, lost)
    /\ QuarantineLost
    /\ job' = [w \in Writers |-> Idle]
    /\ drafts' = {} /\ during' = {}
    /\ process' = process + 1
    /\ UNCHANGED <<clock, drifted, unresolved, policy, packages>>
    /\ registryUnchanged

ThreadStep(w) ==
    \/ Putting(w) \/ IngestCaptures(w) \/ IngestRegisters(w) \/ BuildEnds(w)
    \/ PublishBegins(w) \/ PublishChecks(w) \/ PublishCommits(w) \/ PublishRaises(w)

ThreadBegins(w) ==
    \/ \E s \in Sources, a \in Authors, collector \in BOOLEAN, cas \in BOOLEAN :
         IngestReads(w, s, a, collector, cas)
    \/ \E e \in Plain : PutBlob(w, e[1], e[2])
    \/ \E v \in Versions, k \in Packages : \E atoms \in SUBSET
         ({ promoted[s] : s \in Sources } \ {None}) : BuildBegins(w, v, k, atoms)
    \/ \E draft \in drafts : PublishDraft(w, draft)
    \/ \E v \in Versions, e \in Plain : PublishPlain(w, v, {e})

Next ==
    \/ \E w \in Writers : ThreadBegins(w) \/ ThreadStep(w)
    \/ QuarantineCall \/ GetPublished \/ Tick \/ Change \/ Crash

Spec == Init /\ [][Next]_vars

-----------------------------------------------------------------------------
(* Properties *)

(***************************************************************************)
(* Evidence outlives every race: the objects of a committed publication    *)
(* are in the content store with the media type of its records, though     *)
(* another put_blob of the digest was cut short, failed to sync and took   *)
(* its link back, or the power was lost (Registry._validate_candidate      *)
(* reads them inside the transaction).  The exceptions are those of        *)
(* AcknowledgedStays: an entry that was left without a sync, and an object *)
(* that was lost with its shard directory.                                 *)
(***************************************************************************)
EvidenceStays ==
    \A v \in DOMAIN rows : \A e \in CasEvidence(rows[v].capsule) :
        object[e[1]] = e[2] \/ e[1] \in torn \cup uprooted

(***************************************************************************)
(* A version is one publication: whatever publish and get ever return for  *)
(* it, to any thread, in any process, before and after crashes, is the     *)
(* same capsule with the same publication time (Registry.publish, get).    *)
(***************************************************************************)
PublicationsAgree ==
    \A p, q \in returned : p.version = q.version => p = q

(***************************************************************************)
(* A retry is a replay: the permit that a process issues again for a draft *)
(* it has published is the permit the registry has stored, so the retry    *)
(* is not a PublicationConflict (Registry._verify_m3_replay).  The permit  *)
(* quotes the snapshot the quarantine holds when it is issued, which       *)
(* further ingestions of the same source must not replace.                 *)
(***************************************************************************)
PermitsAreStable ==
    \A w \in Writers : job[w].pc \in {"publishing", "transaction"} /\ job[w].permit # None =>
        LET new == job[w].permit
        IN  \A v \in DOMAIN rows \cap {new.capsule.version} :
              /\ rows[v].capsule = new.capsule
              /\ rows[v].permit.process = new.process
              /\ rows[v].permit.package = new.package
              => rows[v].permit = new

(***************************************************************************)
(* Nothing is published on checks that were stale when the transaction     *)
(* began: the policy granted it, every approval in it was in force, every  *)
(* Git source resolved and the package held the capsule at some moment     *)
(* since then, however long the call had waited after its permit, its      *)
(* preflight check and for the write lock (Registry.publish,               *)
(* _validate_m3_publication).  They need not hold together, nor still at   *)
(* the commit: the transaction waits for objects, Git and the loader after *)
(* it has asked the policy.                                                *)
(***************************************************************************)
FreshAtCommit ==
    [][\A v \in DOMAIN rows' : v \notin DOMAIN rows \/ rows'[v] # rows[v] =>
         /\ \E x \in during : "publish" \in x.policy
         /\ \A a \in rows'[v].capsule.atoms :
               /\ \E x \in during : a.approval.at <= x.clock /\ x.clock < a.approval.expires
               /\ a.source.mode = "GIT_IMMUTABLE" => \E x \in during : a.source \notin x.unresolved
         /\ rows'[v].permit # None =>
               \E x \in during : x.packages[rows'[v].permit.package] = rows'[v].capsule
      ]_vars

(***************************************************************************)
(* What is promoted is what was reviewed: an atom, promoted or published,  *)
(* carries exactly the evidence its approver was shown, at the trust level *)
(* the approver was shown, though captures are bound and approvals signed  *)
(* in any order, and old approvals survive the process                     *)
(* (QuarantineStore.promote).                                              *)
(***************************************************************************)
AtomsAsReviewed ==
    \A a \in ({ promoted[s] : s \in Sources } \ {None})
             \cup UNION { rows[v].capsule.atoms : v \in DOMAIN rows } :
        /\ a.approval \in approvals
        /\ a.approval.source = a.source /\ a.approval.trust = a.trust
        /\ a.approval.bindings = a.bindings
=============================================================================
