------------------------- MODULE PublicationProofs --------------------------
(***************************************************************************)
(* Six promises of the way to the registry, for any number of threads,     *)
(* digests, versions and crashes: what the content store has acknowledged  *)
(* stays, a version is one publication, what is published is what was      *)
(* reviewed, a commit relies on nothing that was stale when its            *)
(* transaction began, the evidence of a publication stays, and a retry     *)
(* with a new permit is a replay.                                          *)
(***************************************************************************)
EXTENDS Publication, TLAPS

-----------------------------------------------------------------------------
(* The content store *)

Holds(w) == put[w].pc \in {"writing", "linked"}

(* One writer at a time holds the lock of a digest. *)
Exclusive ==
    \A w, x \in Writers : Holds(w) /\ Holds(x) /\ put[w].digest = put[x].digest => w = x

(* An entry that is not on disk is one whose writer is about to sync it, or *)
(* was left without a sync.                                                 *)
Durable ==
    \A d \in Digests : object[d] # None =>
        d \in synced \/ d \in torn \/ \E w \in Writers : put[w].pc = "linked" /\ put[w].digest = d

(* What a writer writes or may take back was never acknowledged. *)
Unacknowledged ==
    \A w \in Writers : Holds(w) =>
        \A a \in acked : a[1] = put[w].digest => a[1] \in torn \cup uprooted

(* What a writer has linked is its own. *)
LinkedIsOwn ==
    \A w \in Writers : put[w].pc = "linked" => object[put[w].digest] = put[w].media

CasInv ==
    CasTypeOK /\ Exclusive /\ Durable /\ Unacknowledged /\ LinkedIsOwn /\ AcknowledgedStays

(* An empty content store is sound. *)
LEMMA CasInitial == CasInit => CasInv
  BY DEF CasInit, CasInv, CasTypeOK, Put, NoPut, Holds, Exclusive, Durable, Unacknowledged,
         LinkedIsOwn, AcknowledgedStays

(* A put that finds an entry, or takes the lock. *)
LEMMA BeginKeeps ==
    ASSUME CasInv, NEW w \in Writers, NEW d \in Digests, NEW m \in MediaTypes, PutBegins(w, d, m)
    PROVE  CasInv'
<1>1. CasTypeOK'
  <2>1. shard' \in [Shards -> {"none", "made", "disk"}]
    BY DigestsHaveShards DEF CasInv, CasTypeOK, PutBegins, MakeShard
  <2> QED BY <2>1 DEF CasInv, CasTypeOK, PutBegins, Answer, Put
<1>2. Exclusive'
  BY DEF CasInv, CasTypeOK, PutBegins, Answer, Put, Exclusive, Holds, Locked
<1>3. Durable'
  BY DEF CasInv, CasTypeOK, PutBegins, Answer, Put, Durable, Locked
<1>4. Unacknowledged'
  BY NoneIsNoMedia DEF CasInv, CasTypeOK, PutBegins, Answer, Put, Unacknowledged, Holds, Locked,
                       AcknowledgedStays
<1>5. LinkedIsOwn'
  BY DEF CasInv, CasTypeOK, PutBegins, Answer, Put, LinkedIsOwn
<1>6. AcknowledgedStays'
  BY DEF CasInv, CasTypeOK, PutBegins, Answer, AcknowledgedStays
<1> QED BY <1>1, <1>2, <1>3, <1>4, <1>5, <1>6 DEF CasInv

(* The steps of a put under its lock, and its answer. *)
LEMMA PutStepKeeps ==
    ASSUME CasInv, NEW w \in Writers, PutStep(w) \/ PutReturns(w)
    PROVE  CasInv'
<1> USE NoneIsNoMedia DEF CasInv, CasTypeOK
<1>1. CASE WriteFails(w)
  BY <1>1 DEF WriteFails, Put, Exclusive, Durable, Unacknowledged, LinkedIsOwn, Holds,
              AcknowledgedStays
<1>2. CASE LinkNoReplace(w)
  <2>1. CasTypeOK' /\ Exclusive' /\ Durable' /\ Unacknowledged'
    BY <1>2 DEF LinkNoReplace, Put, Exclusive, Durable, Unacknowledged, Holds
  <2>2. LinkedIsOwn' /\ AcknowledgedStays'
    BY <1>2 DEF LinkNoReplace, Put, Exclusive, Unacknowledged, LinkedIsOwn, Holds,
                AcknowledgedStays
  <2> QED BY <2>1, <2>2
<1>3. CASE FsyncDirectory(w)
  <2>1. CasTypeOK' /\ Exclusive' /\ Durable' /\ LinkedIsOwn'
    BY <1>3 DEF FsyncDirectory, Put, Exclusive, Durable, LinkedIsOwn, Holds
  <2>2. Unacknowledged' /\ AcknowledgedStays'
    BY <1>3 DEF FsyncDirectory, Put, Exclusive, Unacknowledged, LinkedIsOwn, Holds,
                AcknowledgedStays
  <2> QED BY <2>1, <2>2
<1>4. CASE FsyncFails(w)
  <2>1. CasTypeOK' /\ Exclusive' /\ Unacknowledged'
    BY <1>4 DEF FsyncFails, Put, Exclusive, Unacknowledged, Holds
  <2>3. Durable'
    BY <1>4 DEF FsyncFails, Put, Exclusive, Durable, Holds
  <2>2. LinkedIsOwn' /\ AcknowledgedStays'
    BY <1>4 DEF FsyncFails, Put, Exclusive, Unacknowledged, LinkedIsOwn, Holds,
                AcknowledgedStays
  <2> QED BY <2>1, <2>2, <2>3
<1>5. CASE PutReturns(w)
  BY <1>5 DEF PutReturns, NoPut, Put, Exclusive, Durable, Unacknowledged, LinkedIsOwn, Holds,
              AcknowledgedStays
<1> QED BY <1>1, <1>2, <1>3, <1>4, <1>5 DEF PutStep

(* Writers that die leave what they linked as torn. *)
LEMMA DeathKeeps ==
    ASSUME CasInv, NEW dead \in SUBSET Writers, WritersDie(dead)
    PROVE  CasInv'
<1> USE NoneIsNoMedia DEF CasInv, CasTypeOK, WritersDie, LinkedBy, NoPut
<1>1. CasTypeOK' /\ Exclusive'
  BY DEF Put, Exclusive, Holds
<1>2. Durable'
  BY DEF Durable
<1>3. Unacknowledged' /\ LinkedIsOwn' /\ AcknowledgedStays'
  BY DEF Unacknowledged, LinkedIsOwn, AcknowledgedStays, Holds
<1> QED BY <1>1, <1>2, <1>3

(* A power loss drops only what was not on disk, by itself or with its shard. *)
LEMMA PowerLossKeeps ==
    ASSUME CasInv, NEW gone \in SUBSET Shards, NEW lost \in SUBSET Digests, PowerLoss(gone, lost)
    PROVE  CasInv'
<1> USE NoneIsNoMedia DEF CasInv, CasTypeOK, PowerLoss, LinkedBy, NoPut
<1>1. CasTypeOK' /\ Exclusive' /\ Unacknowledged' /\ LinkedIsOwn'
  BY DEF Put, Exclusive, Holds, Unacknowledged, LinkedIsOwn
<1>2. Durable'
  BY DEF Durable
<1>3. AcknowledgedStays'
  BY DEF AcknowledgedStays, Durable
<1> QED BY <1>1, <1>2, <1>3

(* Every step of the content store keeps the invariant. *)
LEMMA CasInductive == CasInv /\ [CasNext]_casVars => CasInv'
<1> SUFFICES ASSUME CasInv, [CasNext]_casVars PROVE CasInv'
  OBVIOUS
<1>1. CASE UNCHANGED casVars
  BY <1>1 DEF casVars, CasInv, CasTypeOK, Holds, Exclusive, Durable, Unacknowledged, LinkedIsOwn,
              AcknowledgedStays
<1>2. CASE CasNext
  BY <1>2, BeginKeeps, PutStepKeeps, DeathKeeps, PowerLossKeeps DEF CasNext
<1> QED BY <1>1, <1>2

(***************************************************************************)
(* The content store on its own keeps what put_blob has returned, for any  *)
(* number of writers, digests, shards, crashes and power losses, but for   *)
(* an entry that was left without a sync and a shard directory whose own   *)
(* entry nobody has synced (FilesystemCAS.put_blob).                       *)
(***************************************************************************)
THEOREM ContentStoreKeeps == CasSpec => []AcknowledgedStays
<1>1. CasInv => AcknowledgedStays
  BY DEF CasInv
<1> QED BY <1>1, CasInitial, CasInductive, PTL DEF CasSpec

-----------------------------------------------------------------------------
(* The composition *)

USE DEF casUnchanged, quarantineUnchanged, registryUnchanged, worldStays, worldUnchanged

(* To the content store, a step of the process is a step of its own or none. *)
LEMMA StepsAreCasSteps == Next => [CasNext]_casVars
<1> SUFFICES ASSUME Next PROVE [CasNext]_casVars
  OBVIOUS
<1>1. ASSUME NEW w \in Writers, ThreadBegins(w) PROVE [CasNext]_casVars
  <2>1. ASSUME NEW s \in Sources, NEW a \in Authors, NEW collector \in BOOLEAN,
               NEW cas \in BOOLEAN, IngestReads(w, s, a, collector, cas)
        PROVE  [CasNext]_casVars
    BY <2>1, SourcesAreMetadata DEF IngestReads, CasNext
  <2>2. ASSUME NEW e \in Plain, PutBlob(w, e[1], e[2]) PROVE [CasNext]_casVars
    BY <2>2, PlainIsEvidence DEF PutBlob, CasNext
  <2> QED BY <1>1, <2>1, <2>2 DEF ThreadBegins, BuildBegins, PublishDraft, PublishPlain
<1>2. ASSUME NEW w \in Writers, ThreadStep(w) PROVE [CasNext]_casVars
  <2>1. CASE Putting(w)
    BY <2>1 DEF Putting, CasNext
  <2> QED BY <1>2, <2>1 DEF ThreadStep, IngestCaptures, IngestRegisters, BuildEnds, PublishBegins,
                            PublishChecks, PublishCommits, PublishRaises
<1>3. CASE Crash
  BY <1>3 DEF Crash, CasNext
<1>4. CASE QuarantineCall \/ GetPublished \/ Tick \/ Change
  BY <1>4 DEF QuarantineCall, GetPublished, Tick, Change
<1> QED BY <1>1, <1>2, <1>3, <1>4 DEF Next

(***************************************************************************)
(* The same with the whole process around the store: ingestions, builds    *)
(* and publications that race, fail and die never lose an object that      *)
(* put_blob has returned, with the same two exceptions                     *)
(* (FilesystemCAS.put_blob, _snapshot_source).                             *)
(***************************************************************************)
THEOREM AcknowledgedIsKept == Spec => []AcknowledgedStays
<1>1. Init => CasInv
  BY CasInitial DEF Init
<1>2. CasInv /\ [Next]_vars => CasInv'
  <2>1. UNCHANGED vars => UNCHANGED casVars
    BY DEF vars, casVars
  <2> QED BY <2>1, StepsAreCasSteps, CasInductive
<1>3. CasInv => AcknowledgedStays
  BY DEF CasInv
<1> QED BY <1>1, <1>2, <1>3, PTL DEF Spec

-----------------------------------------------------------------------------
(* The registry *)

(* What was ever returned is what the registry holds. *)
ReturnedIsStored ==
    \A p \in returned : p.version \in DOMAIN rows /\ p = Published(p.version, rows[p.version])

(* Rows are inserted and never replaced, and only rows are returned. *)
LEMMA RegistrySteps ==
    ASSUME ReturnedIsStored, Next
    PROVE  ReturnedIsStored'
<1>1. ASSUME NEW w \in Writers, PublishCommits(w) PROVE ReturnedIsStored'
  <2> DEFINE c == job[w].capsule
             permit == job[w].permit
  <2>1. CASE InsertPublication(c, permit)
    <3> DEFINE row == [capsule |-> c, permit |-> permit, at |-> clock]
    <3> HIDE DEF row, c
    <3>1. /\ c.version \notin DOMAIN rows
          /\ rows' = [x \in DOMAIN rows \cup {c.version} |-> IF x = c.version THEN row ELSE rows[x]]
          /\ returned' = returned \cup {Published(c.version, row)}
      BY <2>1 DEF InsertPublication, Insert, row
    <3> QED BY <3>1 DEF ReturnedIsStored, Published
  <2>2. CASE ReplayPublication(c, permit)
    BY <2>2 DEF ReplayPublication, ReturnedIsStored, Published
  <2>3. CASE UNCHANGED registryVars
    BY <2>3 DEF registryVars, ReturnedIsStored, Published
  <2> QED BY <1>1, <2>1, <2>2, <2>3 DEF PublishCommits, RefusePublication
<1>2. CASE GetPublished
  BY <1>2 DEF GetPublished, Get, ReturnedIsStored, Published
<1>3. CASE UNCHANGED registryVars
  BY <1>3 DEF registryVars, ReturnedIsStored, Published
<1>4. ASSUME NEW w \in Writers, ThreadBegins(w) \/ ThreadStep(w), ~PublishCommits(w)
      PROVE  UNCHANGED registryVars
  BY <1>4 DEF ThreadBegins, ThreadStep, IngestReads, PutBlob, BuildBegins, PublishDraft,
              PublishPlain, Putting, IngestCaptures, IngestRegisters, BuildEnds, PublishBegins,
              PublishChecks, PublishRaises
<1>5. QuarantineCall \/ Tick \/ Change \/ Crash => UNCHANGED registryVars
  BY DEF QuarantineCall, Tick, Change, Crash
<1> QED BY <1>1, <1>2, <1>3, <1>4, <1>5 DEF Next

(* Only a commit changes the rows. *)
LEMMA OnlyCommitsInsert ==
    ASSUME [Next]_vars, \A w \in Writers : ~PublishCommits(w)
    PROVE  UNCHANGED rows
<1>1. ASSUME NEW w \in Writers, ThreadBegins(w) \/ ThreadStep(w) PROVE UNCHANGED rows
  BY <1>1 DEF ThreadBegins, ThreadStep, IngestReads, PutBlob, BuildBegins, PublishDraft,
              PublishPlain, Putting, IngestCaptures, IngestRegisters, BuildEnds, PublishBegins,
              PublishChecks, PublishRaises, registryVars
<1>2. QuarantineCall \/ GetPublished \/ Tick \/ Change \/ Crash \/ UNCHANGED vars => UNCHANGED rows
  BY DEF QuarantineCall, GetPublished, Get, Tick, Change, Crash, registryVars, vars
<1> QED BY <1>1, <1>2 DEF Next

(***************************************************************************)
(* A version is one publication, for any number of threads, versions,      *)
(* retries and restarts (Registry.publish, get).  The invariant is that    *)
(* what was ever returned is the stored row: a row is inserted only for a  *)
(* version without one, and no step changes or removes it.                 *)
(***************************************************************************)
THEOREM OnePublicationPerVersion == Spec => []PublicationsAgree
<1>1. Init => ReturnedIsStored
  BY DEF Init, RegistryInit, ReturnedIsStored
<1>2. ReturnedIsStored /\ [Next]_vars => ReturnedIsStored'
  <2>1. ReturnedIsStored /\ UNCHANGED vars => ReturnedIsStored'
    BY DEF vars, ReturnedIsStored, Published
  <2> QED BY <2>1, RegistrySteps
<1>3. ReturnedIsStored => PublicationsAgree
  BY DEF ReturnedIsStored, PublicationsAgree
<1> QED BY <1>1, <1>2, <1>3, PTL DEF Spec

-----------------------------------------------------------------------------
(* What is published *)

Reviewed(a) ==
    /\ a.approval \in approvals
    /\ a.approval.source = a.source /\ a.approval.trust = a.trust
    /\ a.approval.bindings = a.bindings

(* A thread that publishes: before its transaction, or in it. *)
Publishing(j) == j.pc \in {"publishing", "transaction"}

(* Reviewed is kept on the whole way from the promotion to the row, and a   *)
(* draft has atoms of the gate.                                             *)
WayInv ==
    /\ DOMAIN promoted = Sources /\ DOMAIN job = Writers
    /\ \A s \in Sources : promoted[s] # None => Reviewed(promoted[s])
    /\ \A w \in Writers : job[w].pc = "building" \/ Publishing(job[w]) =>
          \A a \in job[w].capsule.atoms : Reviewed(a)
    /\ \A w \in Writers : job[w].pc = "building" => job[w].capsule.atoms # {}
    /\ \A w \in Writers : Publishing(job[w]) /\ job[w].permit # None =>
          job[w].capsule.atoms # {}
    /\ \A d \in drafts : d.capsule.atoms # {} /\ \A a \in d.capsule.atoms : Reviewed(a)
    /\ \A v \in DOMAIN rows : \A a \in rows[v].capsule.atoms : Reviewed(a)

(* A publication on its way hands on its capsule and its permit. *)
LEMMA PublishHandsOn ==
    ASSUME NEW w \in Writers, PublishBegins(w) \/ PublishChecks(w) \/ PublishRaises(w)
    PROVE  /\ Publishing(job[w])
           /\ UNCHANGED <<held, snapshots, candidates, bindings, promoted, approvals, drafts, rows,
                          clock, process>>
           /\ \E j : /\ job' = [job EXCEPT ![w] = j]
                    /\ \/ j.pc = "idle"
                       \/ /\ j.pc = "transaction" /\ j.capsule = job[w].capsule
                          /\ j.permit = job[w].permit
<1>1. ASSUME NEW read, NEW header, NEW resolved, NEW validated,
             Proceeds(w, read, header, resolved, validated)
      PROVE  \E j : /\ job' = [job EXCEPT ![w] = j]
                   /\ j.pc = "transaction" /\ j.capsule = job[w].capsule
                   /\ j.permit = job[w].permit
  <2> DEFINE k == [pc |-> "transaction", capsule |-> job[w].capsule, permit |-> job[w].permit,
                   read |-> read, header |-> header, resolved |-> resolved,
                   validated |-> validated]
  <2>1. k.pc = "transaction" /\ k.capsule = job[w].capsule /\ k.permit = job[w].permit
    OBVIOUS
  <2>2. job' = [job EXCEPT ![w] = k]
    BY <1>1 DEF Proceeds, Becomes
  <2> HIDE DEF k
  <2> QED BY <2>1, <2>2
<1>2. Becomes(w, Idle) => \E j : job' = [job EXCEPT ![w] = j] /\ j.pc = "idle"
  <2>1. Idle.pc = "idle"
    BY DEF Idle
  <2> QED BY <2>1 DEF Becomes
<1> HIDE DEF Proceeds, Becomes
<1> QED BY <1>1, <1>2 DEF PublishBegins, PublishChecks, PublishRaises, Publishing, registryVars

(* At the beginning nothing is on the way. *)
LEMMA WayInitial == Init => WayInv
  BY DEF Init, QuarantineInit, RegistryInit, WayInv, Publishing, Idle

(* A job begins with atoms that were reviewed. *)
LEMMA BeginsOnTheWay ==
    ASSUME WayInv, NEW w \in Writers, ThreadBegins(w)
    PROVE  WayInv'
<1>1. ASSUME NEW s \in Sources, NEW a \in Authors, NEW collector \in BOOLEAN,
             NEW cas \in BOOLEAN, IngestReads(w, s, a, collector, cas)
      PROVE  WayInv'
  BY <1>1 DEF IngestReads, Ingestion, Becomes, registryVars, WayInv, Publishing, Reviewed
<1>2. ASSUME NEW e \in Plain, PutBlob(w, e[1], e[2]) PROVE WayInv'
  BY <1>2 DEF PutBlob, Becomes, registryVars, WayInv, Publishing, Reviewed
<1>3. ASSUME NEW v \in Versions, NEW k \in Packages,
             NEW atoms \in SUBSET ({ promoted[s] : s \in Sources } \ {None}),
             BuildBegins(w, v, k, atoms)
      PROVE  WayInv'
  BY <1>3 DEF BuildBegins, Assembles, Becomes, registryVars, WayInv, Publishing, Reviewed
<1>4. ASSUME NEW draft \in drafts, PublishDraft(w, draft) PROVE WayInv'
  BY <1>4 DEF PublishDraft, Becomes, registryVars, WayInv, Publishing, Reviewed
<1>5. ASSUME NEW v \in Versions, NEW e \in Plain, PublishPlain(w, v, {e}) PROVE WayInv'
  BY <1>5 DEF PublishPlain, Becomes, registryVars, WayInv, Publishing, Reviewed
<1> QED BY <1>1, <1>2, <1>3, <1>4, <1>5 DEF ThreadBegins

(* A job hands on what it was given. *)
LEMMA StepsOnTheWay ==
    ASSUME WayInv, NEW w \in Writers, ThreadStep(w)
    PROVE  WayInv'
<1>1. CASE Putting(w)
  BY <1>1 DEF Putting, Ingestion, Becomes, Idle, registryVars, WayInv, Publishing, Reviewed
<1>2. CASE IngestCaptures(w)
  BY <1>2 DEF IngestCaptures, Becomes, Idle, registryVars, WayInv, Publishing, Reviewed
<1>3. CASE IngestRegisters(w)
  BY <1>3 DEF IngestRegisters, RegisterSnapshot, Becomes, Idle, registryVars, WayInv, Publishing,
              Reviewed
<1>4. CASE BuildEnds(w)
  BY <1>4 DEF BuildEnds, Becomes, Idle, registryVars, WayInv, Publishing, Reviewed
<1>5. CASE PublishBegins(w) \/ PublishChecks(w) \/ PublishRaises(w)
  BY <1>5, PublishHandsOn DEF WayInv, Publishing, Reviewed
<1>6. CASE PublishCommits(w)
  <2>1. /\ Publishing(job[w]) /\ job' = [job EXCEPT ![w] = Idle]
        /\ UNCHANGED <<promoted, approvals, drafts>>
    BY <1>6 DEF PublishCommits, Becomes, Publishing
  <2>2. \A v \in DOMAIN rows' : \/ v \in DOMAIN rows /\ rows'[v] = rows[v]
                                \/ rows'[v].capsule = job[w].capsule
    BY <1>6 DEF PublishCommits, InsertPublication, Insert, ReplayPublication, RefusePublication,
                registryVars
  <2> QED BY <2>1, <2>2 DEF WayInv, Publishing, Reviewed, Idle
<1> QED BY <1>1, <1>2, <1>3, <1>4, <1>5, <1>6 DEF ThreadStep

(* Every step keeps what is on the way reviewed. *)
LEMMA WayInductive == WayInv /\ [Next]_vars => WayInv'
<1> SUFFICES ASSUME WayInv, [Next]_vars PROVE WayInv'
  OBVIOUS
<1>1. CASE UNCHANGED vars
  BY <1>1 DEF vars, WayInv, Publishing, Reviewed
<1>2. CASE QuarantineCall
  <2>0. UNCHANGED <<job, drafts, rows>>
    BY <1>2 DEF QuarantineCall, registryVars
  <2>1. CASE UNCHANGED promoted /\ approvals \subseteq approvals'
    BY <2>0, <2>1 DEF WayInv, Publishing, Reviewed
  <2>2. ASSUME NEW a \in approvals, Promote(a.source, a) PROVE WayInv'
    BY <2>0, <2>2 DEF Promote, Covers, WayInv, Publishing, Reviewed
  <2> QED BY <1>2, <2>1, <2>2 DEF QuarantineCall, ExtractCandidate, BindEvidence, IssueApproval,
                                   storeVars
<1>3. CASE GetPublished \/ Tick \/ Change
  BY <1>3 DEF GetPublished, Get, Tick, Change, registryVars, WayInv, Publishing, Reviewed
<1>4. CASE Crash
  BY <1>4 DEF Crash, QuarantineLost, Idle, registryVars, WayInv, Publishing, Reviewed
<1> QED BY <1>1, <1>2, <1>3, <1>4, BeginsOnTheWay, StepsOnTheWay DEF Next

(***************************************************************************)
(* What is promoted or published carries exactly the evidence and the      *)
(* trust level that its approver was shown, for any sources, approvers and *)
(* orders of capture, binding and review (QuarantineStore.promote).        *)
(***************************************************************************)
THEOREM PublishedAsReviewed == Spec => []AtomsAsReviewed
<1>1. WayInv => AtomsAsReviewed
  BY DEF WayInv, Reviewed, AtomsAsReviewed
<1> QED BY <1>1, WayInitial, WayInductive, PTL DEF Spec

(* What the checks of a transaction have found in the worlds it has seen. *)
Found(j, seen) ==
    /\ \E x \in seen : "publish" \in x.policy
    /\ j.header =>
         /\ j.permit # None /\ j.permit.capsule = j.capsule
         /\ { e.atom : e \in j.permit.entries } = j.capsule.atoms
         /\ \E x \in seen : x.packages[j.permit.package] = j.capsule
    /\ \A e \in j.resolved : e.atom.source.mode = "GIT_IMMUTABLE" =>
         e.snapshot.proof /\ \E x \in seen : e.atom.source \notin x.unresolved
    /\ \A e \in j.validated :
         /\ e \in j.resolved /\ e.atom.trust = TrustOf(e.snapshot)
         /\ \E x \in seen : e.atom.approval.at <= x.clock /\ x.clock < e.atom.approval.expires

(* One transaction is open at a time, and during is what it has seen. *)
CheckedInv ==
    /\ \A w, x \in Writers : job[w].pc = "transaction" /\ job[x].pc = "transaction" => w = x
    /\ \A w \in Writers : job[w].pc = "transaction" => World \in during /\ Found(job[w], during)

(* What was found stays found. *)
LEMMA FoundStays ==
    ASSUME NEW j, NEW seen, NEW more, seen \subseteq more, Found(j, seen)
    PROVE  Found(j, more)
  BY DEF Found

(* A step that no open transaction takes leaves it what it has seen. *)
LEMMA CheckedStays ==
    ASSUME CheckedInv,
           \A w \in Writers : job'[w].pc = "transaction" =>
             job'[w] = job[w] /\ during \subseteq during' /\ World' \in during'
    PROVE  CheckedInv'
<1>1. ASSUME NEW w \in Writers, job'[w].pc = "transaction" PROVE Found(job'[w], during')
  <2>1. PICK j, seen, more : j = job[w] /\ seen = during /\ more = during'
    OBVIOUS
  <2>2. Found(j, seen) /\ seen \subseteq more
    BY <1>1, <2>1 DEF CheckedInv
  <2>3. Found(j, more)
    BY <2>2, FoundStays
  <2> QED BY <1>1, <2>1, <2>3
<1>2. ASSUME NEW w \in Writers, job'[w].pc = "transaction"
      PROVE  World' \in during' /\ Found(job[w], during)'
  BY <1>1, <1>2 DEF Found
<1>3. \A w, x \in Writers : job'[w].pc = "transaction" /\ job'[x].pc = "transaction" => w = x
  BY DEF CheckedInv
<1> QED BY <1>2, <1>3 DEF CheckedInv

(* The steps of the transaction. *)
LEMMA TransactionChecks ==
    ASSUME WayInv, CheckedInv, NEW w \in Writers, PublishBegins(w) \/ PublishChecks(w)
    PROVE  CheckedInv'
<1>1. ASSUME NEW read, NEW header, NEW resolved, NEW validated,
             Proceeds(w, read, header, resolved, validated),
             \A x \in Writers : x # w => job[x].pc # "transaction",
             World' \in during',
             NEW j, j = [pc |-> "transaction", capsule |-> job[w].capsule, permit |-> job[w].permit,
                         read |-> read, header |-> header, resolved |-> resolved,
                         validated |-> validated],
             Found(j, during')
      PROVE  CheckedInv'
  <2>1. job' = [job EXCEPT ![w] = j]
    BY <1>1 DEF Proceeds, Becomes
  <2>2. job'[w] = j /\ \A x \in Writers : x # w => job'[x].pc # "transaction"
    BY <1>1, <2>1 DEF WayInv
  <2>3. Found(job[w], during)'
    BY <1>1, <2>2 DEF Found
  <2> QED BY <1>1, <2>2, <2>3 DEF CheckedInv
<1>2. CASE Becomes(w, Idle) /\ UNCHANGED <<during, policy, packages, unresolved, clock>>
  <2>1. \A x \in Writers : job'[x].pc = "transaction" => job'[x] = job[x]
    BY <1>2 DEF Becomes, Idle, WayInv
  <2> QED BY <1>2, <2>1, CheckedStays DEF CheckedInv, World
<1>3. CASE PublishBegins(w) /\ Open = {} /\ AuthorizePublish /\ during' = {World}
             /\ Proceeds(w, {}, FALSE, {}, {})
  <2>1. PICK j : j = [pc |-> "transaction", capsule |-> job[w].capsule, permit |-> job[w].permit,
                      read |-> {}, header |-> FALSE, resolved |-> {}, validated |-> {}]
    OBVIOUS
  <2>2. World.policy = policy /\ World' = World
    BY <1>3 DEF PublishBegins, World
  <2>3. j.header = FALSE /\ j.resolved = {} /\ j.validated = {}
    BY <2>1
  <2>4. Found(j, during')
    BY <1>3, <2>2, <2>3 DEF Found, AuthorizePublish
  <2>5. \A x \in Writers : job[x].pc # "transaction"
    BY <1>3 DEF Open
  <2> QED BY <1>1, <1>3, <2>1, <2>2, <2>4, <2>5
<1>4. CASE PublishChecks(w)
  <2> DEFINE c == job[w].capsule
             permit == job[w].permit
             entries == job[w].permit.entries
             J(read, header, resolved, validated) ==
               [pc |-> "transaction", capsule |-> job[w].capsule, permit |-> job[w].permit,
                read |-> read, header |-> header, resolved |-> resolved, validated |-> validated]
  <2>0. /\ job[w].pc = "transaction" /\ during' = during /\ World' = World
        /\ World \in during /\ Found(job[w], during)
        /\ \A x \in Writers : x # w => job[x].pc # "transaction"
    BY <1>4 DEF PublishChecks, CheckedInv, World
  <2>1. /\ World.packages = packages /\ World.unresolved = unresolved /\ World.clock = clock
    BY DEF World
  <2>2. ASSUME NEW e \in CasEvidence(c), Proceeds(w, job[w].read \cup {e}, FALSE, {}, {})
        PROVE  CheckedInv'
    <3>1. PICK j : j = J(job[w].read \cup {e}, FALSE, {}, {})
      OBVIOUS
    <3>2. Found(j, during)
      BY <2>0, <3>1 DEF Found
    <3> QED BY <1>1, <2>0, <2>2, <3>1, <3>2
  <2>3. CASE ValidateHeader(c, permit) /\ Proceeds(w, job[w].read, TRUE, {}, {})
    <3>1. PICK j : j = J(job[w].read, TRUE, {}, {})
      OBVIOUS
    <3>2. j.capsule = c /\ j.permit = permit /\ j.resolved = {} /\ j.validated = {}
      BY <3>1
    <3>3. Found(j, during)
      BY <2>0, <2>1, <2>3, <3>2 DEF Found, ValidateHeader, LoaderAttests
    <3> QED BY <1>1, <2>0, <2>3, <3>1, <3>3
  <2>4. ASSUME NEW e \in entries, job[w].header, ResolveSubject(e),
               Proceeds(w, job[w].read, TRUE, job[w].resolved \cup {e}, {})
        PROVE  CheckedInv'
    <3>1. PICK j : j = J(job[w].read, TRUE, job[w].resolved \cup {e}, {})
      OBVIOUS
    <3>2. /\ j.capsule = c /\ j.permit = permit /\ j.resolved = job[w].resolved \cup {e}
          /\ j.validated = {}
      BY <3>1
    <3>3. e.atom.source.mode = "GIT_IMMUTABLE" =>
            e.snapshot.proof /\ \E x \in during : e.atom.source \notin x.unresolved
      BY <2>0, <2>1, <2>4 DEF ResolveSubject, Resolves
    <3>4. Found(j, during)
      BY <2>0, <2>4, <3>2, <3>3 DEF Found
    <3> QED BY <1>1, <2>0, <2>4, <3>1, <3>4
  <2>5. ASSUME NEW e \in entries, job[w].header, job[w].resolved = entries, ValidateAtom(e),
               Proceeds(w, job[w].read, TRUE, job[w].resolved, job[w].validated \cup {e})
        PROVE  CheckedInv'
    <3>1. PICK j : j = J(job[w].read, TRUE, job[w].resolved, job[w].validated \cup {e})
      OBVIOUS
    <3>2. /\ j.capsule = c /\ j.permit = permit /\ j.resolved = job[w].resolved
          /\ j.validated = job[w].validated \cup {e}
      BY <3>1
    <3>3. /\ e.atom.trust = TrustOf(e.snapshot)
          /\ \E x \in during : e.atom.approval.at <= x.clock /\ x.clock < e.atom.approval.expires
      BY <2>0, <2>1, <2>5 DEF ValidateAtom, SourceClassification, ValidateApproval, InForce
    <3>4. Found(j, during)
      BY <2>0, <2>5, <3>2, <3>3 DEF Found
    <3> QED BY <1>1, <2>0, <2>5, <3>1, <3>4
  <2> QED BY <1>4, <2>2, <2>3, <2>4, <2>5 DEF PublishChecks
<1> QED BY <1>2, <1>3, <1>4 DEF PublishBegins

(* Nobody else touches a transaction. *)
LEMMA OnlyOwnStepsMove ==
    ASSUME DOMAIN job = Writers, [Next]_vars, NEW w \in Writers,
           ~PublishBegins(w), ~PublishChecks(w)
    PROVE  job'[w].pc = "transaction" => job'[w] = job[w]
<1> DEFINE Stays == job'[w].pc = "transaction" => job'[w] = job[w]
<1>1. ASSUME NEW x \in Writers, ThreadBegins(x) PROVE Stays
  <2> USE DEF Becomes
  <2>1. ASSUME NEW s \in Sources, NEW a \in Authors, NEW collector \in BOOLEAN,
               NEW cas \in BOOLEAN, IngestReads(x, s, a, collector, cas)
        PROVE  Stays
    BY <2>1 DEF IngestReads, Ingestion
  <2>2. ASSUME NEW e \in Plain, PutBlob(x, e[1], e[2]) PROVE Stays
    BY <2>2 DEF PutBlob
  <2>3. ASSUME NEW v \in Versions, NEW k \in Packages, NEW atoms, BuildBegins(x, v, k, atoms)
        PROVE  Stays
    BY <2>3 DEF BuildBegins
  <2>4. ASSUME NEW draft \in drafts, PublishDraft(x, draft) PROVE Stays
    BY <2>4 DEF PublishDraft
  <2>5. ASSUME NEW v \in Versions, NEW e \in Plain, PublishPlain(x, v, {e}) PROVE Stays
    BY <2>5 DEF PublishPlain
  <2> HIDE DEF Stays
  <2> QED BY <1>1, <2>1, <2>2, <2>3, <2>4, <2>5 DEF ThreadBegins
<1>2. ASSUME NEW x \in Writers, Putting(x) \/ IngestCaptures(x) \/ IngestRegisters(x) \/ BuildEnds(x)
      PROVE  Stays
  BY <1>2 DEF Putting, IngestCaptures, IngestRegisters, BuildEnds, Ingestion, Becomes, Idle
<1>3. ASSUME NEW x \in Writers, x # w, PublishBegins(x) \/ PublishChecks(x) PROVE Stays
  BY <1>3, PublishHandsOn
<1>4. ASSUME NEW x \in Writers, PublishCommits(x) \/ PublishRaises(x) PROVE Stays
  BY <1>4 DEF PublishCommits, PublishRaises, Becomes, Idle
<1>5. QuarantineCall \/ GetPublished \/ Tick \/ Change \/ UNCHANGED vars => Stays
  BY DEF QuarantineCall, GetPublished, Tick, Change, vars
<1>6. Crash => Stays
  BY DEF Crash, Idle
<1> HIDE DEF Stays
<1>7. Stays
  BY <1>1, <1>2, <1>3, <1>4, <1>5, <1>6 DEF Next, ThreadStep
<1> QED BY <1>7 DEF Stays

(* The other steps: the world that passes is remembered. *)
LEMMA OtherStepsKeepChecks ==
    ASSUME WayInv, CheckedInv, [Next]_vars,
           \A w \in Writers : ~PublishBegins(w) /\ ~PublishChecks(w)
    PROVE  CheckedInv'
<1>0. \A w \in Writers : job'[w].pc = "transaction" => job'[w] = job[w]
  BY OnlyOwnStepsMove DEF WayInv
<1>1. CASE UNCHANGED <<during, policy, packages, unresolved, clock>>
  BY <1>0, <1>1, CheckedStays DEF CheckedInv, World
<1>2. CASE Passes
  BY <1>0, <1>2, CheckedStays DEF CheckedInv, Passes
<1>3. ASSUME NEW w \in Writers, PublishCommits(w) \/ PublishRaises(w) PROVE CheckedInv'
  BY <1>3 DEF PublishCommits, PublishRaises, Becomes, Idle, WayInv, CheckedInv
<1>4. CASE Crash
  BY <1>4 DEF Crash, Idle, CheckedInv, World, Found
<1>5. ASSUME NEW w \in Writers,
             \/ ThreadBegins(w) \/ Putting(w) \/ IngestCaptures(w) \/ IngestRegisters(w)
      PROVE  UNCHANGED <<during, policy, packages, unresolved, clock>>
  BY <1>5 DEF ThreadBegins, IngestReads, PutBlob, BuildBegins, PublishDraft, PublishPlain,
              Putting, IngestCaptures, IngestRegisters
<1>6. ASSUME NEW w \in Writers, BuildEnds(w) PROVE Passes
  BY <1>6 DEF BuildEnds
<1>7. QuarantineCall \/ GetPublished \/ UNCHANGED vars =>
        UNCHANGED <<during, policy, packages, unresolved, clock>>
  BY DEF QuarantineCall, GetPublished, vars
<1>8. Tick \/ Change => Passes
  BY DEF Tick, Change
<1> QED BY <1>1, <1>2, <1>3, <1>4, <1>5, <1>6, <1>7, <1>8 DEF Next, ThreadStep

(* Every step keeps what the open transaction has found. *)
LEMMA CheckedInductive == WayInv /\ CheckedInv /\ [Next]_vars => CheckedInv'
  BY TransactionChecks, OtherStepsKeepChecks

(* At the beginning no transaction is open. *)
LEMMA CheckedInitial == Init => CheckedInv
  BY DEF Init, Idle, CheckedInv

(***************************************************************************)
(* Nothing is published on checks that were stale when the transaction     *)
(* began, whatever changes between the permit, the preflight check, the    *)
(* wait for the write lock and the commit (Registry.publish,               *)
(* _validate_m3_publication).  The invariant says of every check that has  *)
(* passed at which moments since the beginning its condition held.         *)
(***************************************************************************)
THEOREM PublishedFresh == Spec => FreshAtCommit
<1> DEFINE Fresh == \A v \in DOMAIN rows' : v \notin DOMAIN rows \/ rows'[v] # rows[v] =>
         /\ \E x \in during : "publish" \in x.policy
         /\ \A a \in rows'[v].capsule.atoms :
               /\ \E x \in during : a.approval.at <= x.clock /\ x.clock < a.approval.expires
               /\ a.source.mode = "GIT_IMMUTABLE" => \E x \in during : a.source \notin x.unresolved
         /\ rows'[v].permit # None =>
               \E x \in during : x.packages[rows'[v].permit.package] = rows'[v].capsule
<1>1. ASSUME CheckedInv, WayInv, NEW w \in Writers, PublishCommits(w),
             InsertPublication(job[w].capsule, job[w].permit)
      PROVE  Fresh
  <2>1. PICK c, permit : c = job[w].capsule /\ permit = job[w].permit
    OBVIOUS
  <2>2. \A v \in DOMAIN rows' : v \notin DOMAIN rows \/ rows'[v] # rows[v] =>
            rows'[v] = [capsule |-> c, permit |-> permit, at |-> clock]
    BY <1>1, <2>1 DEF InsertPublication, Insert
  <2>3. \E x \in during : "publish" \in x.policy
    BY <1>1 DEF PublishCommits, CheckedInv, Found
  <2>4. c.atoms # {} =>
          /\ job[w].header /\ job[w].validated = permit.entries
          /\ { e.atom : e \in permit.entries } = c.atoms
          /\ \E x \in during : x.packages[permit.package] = c
    BY <1>1, <2>1 DEF PublishCommits, Checked, RequiresGate, CheckedInv, Found
  <2>5. \A a \in c.atoms :
          /\ \E x \in during : a.approval.at <= x.clock /\ x.clock < a.approval.expires
          /\ a.source.mode = "GIT_IMMUTABLE" => \E x \in during : a.source \notin x.unresolved
    BY <1>1, <2>1, <2>4 DEF PublishCommits, CheckedInv, Found
  <2>6. permit # None => \E x \in during : x.packages[permit.package] = c
    BY <1>1, <2>1, <2>4 DEF PublishCommits, WayInv, Publishing
  <2> QED BY <2>2, <2>3, <2>5, <2>6
<1>2. ASSUME UNCHANGED rows PROVE Fresh
  BY <1>2
<1>3. CheckedInv /\ WayInv /\ [Next]_vars => Fresh
  <2> SUFFICES ASSUME CheckedInv, WayInv, [Next]_vars PROVE Fresh
    OBVIOUS
  <2> HIDE DEF Fresh
  <2>1. ASSUME NEW w \in Writers, PublishCommits(w) PROVE Fresh
    BY <1>1, <1>2, <2>1 DEF PublishCommits, ReplayPublication, RefusePublication, registryVars
  <2>2. (\A w \in Writers : ~PublishCommits(w)) => UNCHANGED rows
    BY OnlyCommitsInsert
  <2> QED BY <1>2, <2>1, <2>2
<1>4. CheckedInv /\ WayInv /\ [Next]_vars => [Fresh]_vars
  BY <1>3
<1> QED BY <1>4, WayInitial, WayInductive, CheckedInitial, CheckedInductive, PTL
        DEF Spec, FreshAtCommit

-----------------------------------------------------------------------------
(* The evidence of what is published *)

(* Capsules refer to sources and to objects. *)
Evidential(c) ==
    c.extra \subseteq Digests \X MediaTypes /\ \A a \in c.atoms : a.source \in Sources

SourcedInv ==
    /\ DOMAIN promoted = Sources /\ DOMAIN job = Writers
    /\ \A s \in Sources : promoted[s] # None => promoted[s].source \in Sources
    /\ \A w \in Writers : job[w].pc = "building" \/ Publishing(job[w]) => Evidential(job[w].capsule)
    /\ \A d \in drafts : Evidential(d.capsule)
    /\ \A v \in DOMAIN rows : Evidential(rows[v].capsule)

(* An object no step can lose: it is on disk and nobody may take it back. *)
Safe(d, m) == d \in torn \cup uprooted \/ (object[d] = m /\ d \in synced /\ ~Locked(d))

ReadSafe(w) ==
    job[w].pc = "transaction" =>
        /\ job[w].read \subseteq CasEvidence(job[w].capsule)
        /\ \A e \in job[w].read : Safe(e[1], e[2])

EvidenceSafe ==
    /\ \A w \in Writers : ReadSafe(w)
    /\ \A v \in DOMAIN rows : \A e \in CasEvidence(rows[v].capsule) : Safe(e[1], e[2])

(* At the beginning nothing is promoted, drafted or published. *)
LEMMA SourcedInitial == Init => SourcedInv
  BY DEF Init, QuarantineInit, RegistryInit, SourcedInv, Publishing, Idle

(* Every step keeps the evidence that of the sources. *)
LEMMA SourcedInductive == SourcedInv /\ [Next]_vars => SourcedInv'
<1> SUFFICES ASSUME SourcedInv, [Next]_vars PROVE SourcedInv'
  OBVIOUS
<1> USE DEF Publishing
<1>1. CASE UNCHANGED vars
  BY <1>1 DEF vars, SourcedInv
<1>2. ASSUME NEW w \in Writers, ThreadBegins(w) PROVE SourcedInv'
  <2>1. ASSUME NEW s \in Sources, NEW a \in Authors, NEW collector \in BOOLEAN,
               NEW cas \in BOOLEAN, IngestReads(w, s, a, collector, cas)
        PROVE  SourcedInv'
    BY <2>1 DEF IngestReads, Ingestion, Becomes, registryVars, SourcedInv
  <2>2. ASSUME NEW e \in Plain, PutBlob(w, e[1], e[2]) PROVE SourcedInv'
    BY <2>2 DEF PutBlob, Becomes, registryVars, SourcedInv
  <2>3. ASSUME NEW v \in Versions, NEW k \in Packages,
               NEW atoms \in SUBSET ({ promoted[s] : s \in Sources } \ {None}),
               BuildBegins(w, v, k, atoms)
        PROVE  SourcedInv'
    <3>1. Evidential([version |-> v, atoms |-> atoms, extra |-> {}])
      BY DEF Evidential, SourcedInv
    <3> QED BY <2>3, <3>1 DEF BuildBegins, Becomes, registryVars, SourcedInv
  <2>4. ASSUME NEW draft \in drafts, PublishDraft(w, draft) PROVE SourcedInv'
    BY <2>4 DEF PublishDraft, Becomes, registryVars, SourcedInv
  <2>5. ASSUME NEW v \in Versions, NEW e \in Plain, PublishPlain(w, v, {e}) PROVE SourcedInv'
    <3>1. Evidential([version |-> v, atoms |-> {}, extra |-> {e}])
      BY PlainIsEvidence DEF Evidential
    <3> QED BY <2>5, <3>1 DEF PublishPlain, Becomes, registryVars, SourcedInv
  <2> QED BY <1>2, <2>1, <2>2, <2>3, <2>4, <2>5 DEF ThreadBegins
<1>3. ASSUME NEW w \in Writers, ThreadStep(w) PROVE SourcedInv'
  <2>1. CASE Putting(w)
    BY <2>1 DEF Putting, Ingestion, Becomes, Idle, registryVars, SourcedInv
  <2>2. CASE IngestCaptures(w)
    BY <2>2 DEF IngestCaptures, Becomes, Idle, registryVars, SourcedInv
  <2>3. CASE IngestRegisters(w)
    BY <2>3 DEF IngestRegisters, RegisterSnapshot, Becomes, Idle, registryVars, SourcedInv
  <2>4. CASE BuildEnds(w)
    BY <2>4 DEF BuildEnds, Becomes, Idle, registryVars, SourcedInv
  <2>5. CASE PublishBegins(w) \/ PublishChecks(w) \/ PublishRaises(w)
    BY <2>5, PublishHandsOn DEF SourcedInv
  <2>6. CASE PublishCommits(w)
    <3>1. /\ Publishing(job[w]) /\ job' = [job EXCEPT ![w] = Idle]
          /\ UNCHANGED <<promoted, drafts>>
      BY <2>6 DEF PublishCommits, Becomes
    <3>2. \A v \in DOMAIN rows' : \/ v \in DOMAIN rows /\ rows'[v] = rows[v]
                                  \/ rows'[v].capsule = job[w].capsule
      BY <2>6 DEF PublishCommits, InsertPublication, Insert, ReplayPublication, RefusePublication,
                  registryVars
    <3> QED BY <3>1, <3>2 DEF SourcedInv, Idle
  <2> QED BY <1>3, <2>1, <2>2, <2>3, <2>4, <2>5, <2>6 DEF ThreadStep
<1>4. CASE QuarantineCall
  <2>0. UNCHANGED <<job, drafts, rows>>
    BY <1>4 DEF QuarantineCall, registryVars
  <2>1. CASE UNCHANGED promoted
    BY <2>0, <2>1 DEF SourcedInv
  <2>2. ASSUME NEW a \in approvals, Promote(a.source, a) PROVE SourcedInv'
    BY <2>0, <2>2 DEF Promote, SourcedInv
  <2> QED BY <1>4, <2>1, <2>2 DEF QuarantineCall, ExtractCandidate, BindEvidence, IssueApproval,
                                   storeVars
<1>5. CASE GetPublished \/ Tick \/ Change
  BY <1>5 DEF GetPublished, Get, Tick, Change, registryVars, SourcedInv
<1>6. CASE Crash
  BY <1>6 DEF Crash, QuarantineLost, Idle, registryVars, SourcedInv
<1> QED BY <1>1, <1>2, <1>3, <1>4, <1>5, <1>6 DEF Next

(* The evidence of a capsule is objects. *)
LEMMA EvidenceIsObjects ==
    ASSUME NEW c, Evidential(c)
    PROVE  CasEvidence(c) \subseteq Digests \X MediaTypes
  BY SourcesAreMetadata DEF Evidential, CasEvidence

(* A safe object stays safe. *)
LEMMA SafeStays ==
    ASSUME CasInv, [CasNext]_casVars, NEW d \in Digests, NEW m \in MediaTypes, Safe(d, m)
    PROVE  Safe(d, m)'
<1> USE NoneIsNoMedia DEF CasInv, CasTypeOK, Safe, Locked, Holds
<1>1. CASE UNCHANGED casVars
  BY <1>1 DEF casVars
<1>2. ASSUME NEW w \in Writers, NEW e \in Digests, NEW n \in MediaTypes, PutBegins(w, e, n)
      PROVE  Safe(d, m)'
  BY <1>2 DEF PutBegins, Answer, Put
<1>3. ASSUME NEW w \in Writers, PutStep(w) \/ PutReturns(w) PROVE Safe(d, m)'
  BY <1>3 DEF PutStep, WriteFails, LinkNoReplace, FsyncDirectory, FsyncFails, PutReturns, NoPut, Put
<1>4. ASSUME NEW dead \in SUBSET Writers, WritersDie(dead) PROVE Safe(d, m)'
  BY <1>4 DEF WritersDie, NoPut, Put
<1>5. ASSUME NEW gone \in SUBSET Shards, NEW lost \in SUBSET Digests, PowerLoss(gone, lost)
      PROVE  Safe(d, m)'
  BY <1>5 DEF PowerLoss, NoPut, Put
<1> QED BY <1>1, <1>2, <1>3, <1>4, <1>5 DEF CasNext

(* What a transaction has read under the shared lock is safe. *)
LEMMA ReadIsSafe ==
    ASSUME CasInv, NEW d \in Digests, NEW m \in MediaTypes, Readable(d), object[d] = m
    PROVE  Safe(d, m)
  BY NoneIsNoMedia DEF CasInv, Durable, Readable, Locked, Safe

(* What was read stays safe, and the rows keep the evidence they were       *)
(* committed with.                                                          *)
LEMMA EvidenceInductive ==
    ASSUME CasInv, SourcedInv, EvidenceSafe, [Next]_vars
    PROVE  EvidenceSafe'
<1>1. [CasNext]_casVars
  BY StepsAreCasSteps DEF vars, casVars
<1>2. ASSUME NEW c, Evidential(c), NEW read \in SUBSET CasEvidence(c),
             \A e \in read : Safe(e[1], e[2])
      PROVE  \A e \in read : Safe(e[1], e[2])'
  <2>1. ASSUME NEW d \in Digests, NEW m \in MediaTypes, Safe(d, m) PROVE Safe(d, m)'
    BY <1>1, <2>1, SafeStays
  <2>2. ASSUME NEW e \in CasEvidence(c)
        PROVE  \E d \in Digests, m \in MediaTypes : e = <<d, m>>
    BY <1>2, EvidenceIsObjects
  <2> QED BY <1>2, <2>1, <2>2 DEF Safe
<1>3. ASSUME NEW w \in Writers, job'[w] = job[w] PROVE ReadSafe(w)'
  <2>1. CASE job[w].pc = "transaction"
    <3>1. \A e \in job[w].read : Safe(e[1], e[2])'
      BY <1>2, <2>1 DEF EvidenceSafe, ReadSafe, SourcedInv, Publishing
    <3> QED BY <1>3, <2>1, <3>1 DEF EvidenceSafe, ReadSafe, CasEvidence
  <2>2. CASE job[w].pc # "transaction"
    BY <1>3, <2>2 DEF ReadSafe
  <2> QED BY <2>1, <2>2
<1>4. ASSUME NEW w \in Writers PROVE ReadSafe(w)'
  <2>1. CASE ~PublishBegins(w) /\ ~PublishChecks(w)
    BY <1>3, <2>1, OnlyOwnStepsMove DEF SourcedInv, ReadSafe
  <2>2. CASE PublishBegins(w)
    <3>1. job'[w].pc # "transaction" \/ job'[w].read = {}
      BY <2>2 DEF PublishBegins, Proceeds, Becomes, Idle, SourcedInv
    <3> QED BY <3>1 DEF ReadSafe
  <2>3. CASE PublishChecks(w)
    <3> DEFINE c == job[w].capsule
    <3>1. /\ job[w].pc = "transaction" /\ job'[w].pc = "transaction" /\ job'[w].capsule = c
          /\ \/ job'[w].read = job[w].read
             \/ \E e \in CasEvidence(c) : ReadVerified(e) /\ job'[w].read = job[w].read \cup {e}
      BY <2>3 DEF PublishChecks, Proceeds, Becomes, SourcedInv
    <3>2. Evidential(c) /\ job[w].read \subseteq CasEvidence(c)
      BY <3>1 DEF SourcedInv, Publishing, EvidenceSafe, ReadSafe
    <3>3. ASSUME NEW e \in CasEvidence(c), ReadVerified(e) PROVE Safe(e[1], e[2])
      BY <3>2, <3>3, EvidenceIsObjects, ReadIsSafe DEF ReadVerified
    <3>4. /\ job'[w].read \subseteq CasEvidence(c)
          /\ \A e \in job'[w].read : Safe(e[1], e[2])
      BY <3>1, <3>2, <3>3 DEF EvidenceSafe, ReadSafe
    <3> HIDE DEF c
    <3>5. \A e \in job'[w].read : Safe(e[1], e[2])'
      BY <1>2, <3>2, <3>4
    <3> QED BY <3>1, <3>4, <3>5 DEF ReadSafe, CasEvidence
  <2> QED BY <2>1, <2>2, <2>3
<1>5. ASSUME NEW c, Evidential(c), \A e \in CasEvidence(c) : Safe(e[1], e[2])
      PROVE  \A e \in CasEvidence(c) : Safe(e[1], e[2])'
  BY <1>2, <1>5
<1>6. CASE UNCHANGED rows
  BY <1>4, <1>5, <1>6 DEF EvidenceSafe, SourcedInv, CasEvidence
<1>7. ASSUME NEW w \in Writers, PublishCommits(w), InsertPublication(job[w].capsule, job[w].permit)
      PROVE  EvidenceSafe'
  <2>1. PICK c : c = job[w].capsule
    OBVIOUS
  <2>2. Evidential(c) /\ \A e \in CasEvidence(c) : Safe(e[1], e[2])
    BY <1>7, <2>1 DEF PublishCommits, Checked, SourcedInv, Publishing, EvidenceSafe, ReadSafe
  <2>3. \A e \in CasEvidence(c) : Safe(e[1], e[2])'
    BY <1>5, <2>2
  <2>4. \A v \in DOMAIN rows' : \/ v \in DOMAIN rows /\ rows'[v] = rows[v]
                                \/ rows'[v].capsule = c
    BY <1>7, <2>1 DEF InsertPublication, Insert
  <2>5. ASSUME NEW v \in DOMAIN rows'
        PROVE  \A e \in CasEvidence(rows'[v].capsule) : Safe(e[1], e[2])'
    <3>1. CASE rows'[v].capsule = c
      BY <2>3, <3>1
    <3>2. CASE v \in DOMAIN rows /\ rows'[v] = rows[v]
      BY <1>5, <3>2 DEF EvidenceSafe, SourcedInv
    <3> QED BY <2>4, <3>1, <3>2
  <2> QED BY <1>4, <2>5 DEF EvidenceSafe, CasEvidence
<1>8. ASSUME NEW w \in Writers, PublishCommits(w) PROVE EvidenceSafe'
  BY <1>6, <1>7, <1>8 DEF PublishCommits, ReplayPublication, RefusePublication, registryVars
<1> QED BY <1>6, <1>8, OnlyCommitsInsert

(***************************************************************************)
(* The evidence of a committed publication outlives every race, failed     *)
(* sync, crash and power loss, for any number of threads, digests and      *)
(* faults, with the exceptions of AcknowledgedStays                        *)
(* (Registry._validate_candidate, FilesystemCAS).  The invariant is        *)
(* that it is on disk and its digest is locked by no one: the object a     *)
(* transaction may read has no writer left that could take it back, and    *)
(* no writer takes a lock to write where an object is.                     *)
(***************************************************************************)
THEOREM PublishedEvidenceStays == Spec => []EvidenceStays
<1> DEFINE Inv == CasInv /\ SourcedInv /\ EvidenceSafe
<1>1. Init => Inv
  BY CasInitial, SourcedInitial DEF Init, RegistryInit, EvidenceSafe, ReadSafe, Idle
<1>2. Inv /\ [Next]_vars => Inv'
  <2>1. UNCHANGED vars => UNCHANGED casVars
    BY DEF vars, casVars
  <2> QED BY <2>1, StepsAreCasSteps, CasInductive, SourcedInductive, EvidenceInductive
<1>3. Inv => EvidenceStays
  BY DEF EvidenceSafe, EvidenceStays, Safe
<1> QED BY <1>1, <1>2, <1>3, PTL DEF Spec

-----------------------------------------------------------------------------
(* Permits *)

(* Only a Git source has a proof. *)
Proper(snap) == snap \in Snapshot /\ (snap.proof => snap.source.mode = "GIT_IMMUTABLE")

(* What the quarantine and the ingestions hold. *)
StoreInv ==
    /\ clock \in Times /\ process \in Nat
    /\ DOMAIN promoted = Sources /\ DOMAIN job = Writers
    /\ snapshots \in [Sources -> Snapshot \cup {None}]
    /\ candidates \in [Sources -> {"T2", "T3", None}]
    /\ \A s \in Sources : snapshots[s] # None => Proper(snapshots[s]) /\ snapshots[s].source = s
    /\ \A s \in Sources : candidates[s] # None => snapshots[s] # None
    /\ \A s \in Sources : promoted[s] # None =>
          promoted[s].source = s /\ promoted[s].trust = candidates[s] /\ candidates[s] # None
    /\ \A w \in Writers : job[w].pc \in {"putting", "read"} =>
          /\ job[w].source \in Sources /\ job[w].author \in Authors /\ job[w].attest \in BOOLEAN
          /\ job[w].attest => job[w].source.mode = "GIT_IMMUTABLE"
    /\ \A w \in Writers : job[w].pc = "captured" => Proper(job[w].snapshot)
    /\ \A w \in Writers : job[w].pc = "building" => None \notin job[w].capsule.atoms
    /\ \A d \in drafts : None \notin d.capsule.atoms

(* An entry that quotes the snapshot of a candidate: its capture and its    *)
(* author are still those of the snapshot the store holds, and a candidate  *)
(* of a proved source has its proof.                                        *)
Current(e) ==
    \E s \in Sources :
        /\ e.atom.source = s /\ candidates[s] # None /\ e.atom.trust = candidates[s]
        /\ Proper(e.snapshot) /\ e.snapshot.source = s
        /\ e.snapshot.author = snapshots[s].author
        /\ e.snapshot.captured = snapshots[s].captured
        /\ candidates[s] = "T2" => e.snapshot.proof

(* A permit as issue_publication_permit makes it: one entry for each atom. *)
Shaped(p) ==
    /\ p = [capsule |-> p.capsule, package |-> p.package, process |-> p.process,
            entries |-> p.entries]
    /\ { e.atom : e \in p.entries } = p.capsule.atoms
    /\ \A e \in p.entries : e = [atom |-> e.atom, snapshot |-> e.snapshot]

(* What _validate_m3_publication demands of an entry. *)
Attested(e) ==
    /\ e.atom.source.mode = "GIT_IMMUTABLE" => e.snapshot.proof
    /\ e.atom.trust = TrustOf(e.snapshot)

JobPermitOK(w) ==
    Publishing(job[w]) /\ job[w].permit # None =>
        /\ Shaped(job[w].permit) /\ \A e \in job[w].permit.entries : Current(e)
        /\ job[w].permit.process = process /\ job[w].permit.capsule = job[w].capsule

RowPermitOK(row) ==
    /\ row.permit = None => row.capsule.atoms = {}
    /\ row.permit # None =>
         /\ row.permit.process \in Nat /\ row.permit.process <= process
         /\ row.permit.process = process =>
              /\ Shaped(row.permit) /\ row.permit.capsule = row.capsule
              /\ \A e \in row.permit.entries : Current(e) /\ Attested(e)

PermitInv ==
    /\ \A w \in Writers : JobPermitOK(w)
    /\ \A v \in DOMAIN rows : RowPermitOK(rows[v])

(* A candidate keeps its trust level, and its snapshot its capture and its  *)
(* author, for as long as the process lives.                                *)
CandidatesKept ==
    \A s \in Sources : candidates[s] # None =>
        /\ candidates'[s] = candidates[s]
        /\ snapshots'[s].author = snapshots[s].author
        /\ snapshots'[s].captured = snapshots[s].captured

(* An empty quarantine is sound and there are no permits. *)
LEMMA StoreInitial == Init => StoreInv /\ PermitInv
  BY TimesAreNaturals, NoneIsNoSnapshot
     DEF Init, QuarantineInit, RegistryInit, StoreInv, PermitInv, JobPermitOK, Publishing, Idle,
         Times

(* What an ingestion takes and registers has a proof for Git sources only. *)
LEMMA IngestionKeeps ==
    ASSUME StoreInv, NEW w \in Writers,
           \/ \E s \in Sources, a \in Authors, collector \in BOOLEAN, cas \in BOOLEAN :
                IngestReads(w, s, a, collector, cas)
           \/ Putting(w) \/ IngestCaptures(w) \/ IngestRegisters(w)
    PROVE  StoreInv' /\ CandidatesKept
<1>1. ASSUME NEW s \in Sources, NEW a \in Authors, NEW collector \in BOOLEAN,
             NEW cas \in BOOLEAN, IngestReads(w, s, a, collector, cas)
      PROVE  StoreInv' /\ CandidatesKept
  <2>1. Attests(s, collector) \in BOOLEAN /\ (Attests(s, collector) => s.mode = "GIT_IMMUTABLE")
    BY DEF Attests
  <2> QED BY <1>1, <2>1 DEF IngestReads, Ingestion, Becomes, StoreInv, CandidatesKept
<1>2. CASE Putting(w)
  BY <1>2 DEF Putting, Ingestion, Idle, Becomes, StoreInv, CandidatesKept
<1>3. CASE IngestCaptures(w)
  <2>1. CASE Becomes(w, Idle)
    BY <1>3, <2>1 DEF IngestCaptures, Idle, Becomes, StoreInv, CandidatesKept
  <2>2. CASE Becomes(w, [pc |-> "captured",
                         snapshot |-> Capture(job[w].source, job[w].author, job[w].attest)])
    <3>1. Proper(Capture(job[w].source, job[w].author, job[w].attest))
      BY <1>3 DEF IngestCaptures, StoreInv, Capture, Proper, Snapshot
    <3> QED BY <1>3, <2>2, <3>1 DEF IngestCaptures, Becomes, StoreInv, CandidatesKept
  <2> QED BY <1>3, <2>1, <2>2 DEF IngestCaptures
<1>4. CASE IngestRegisters(w)
  <2>1. PICK snap : snap = job[w].snapshot
    OBVIOUS
  <2>2. Proper(snap) /\ snap \in Snapshot /\ snap.source \in Sources
    BY <1>4, <2>1 DEF IngestRegisters, StoreInv, Proper, Snapshot
  <2>3. /\ job' = [job EXCEPT ![w] = Idle]
        /\ UNCHANGED <<candidates, promoted, drafts, clock, process>>
    BY <1>4 DEF IngestRegisters, RegisterSnapshot, Becomes
  <2>4. CASE UNCHANGED snapshots
    BY <2>3, <2>4 DEF StoreInv, CandidatesKept, Idle
  <2>5. CASE MayReplace(snap) /\ snapshots' = [snapshots EXCEPT ![snap.source] = snap]
    <3>1. CandidatesKept
      BY <2>2, <2>3, <2>5 DEF StoreInv, CandidatesKept, MayReplace
    <3>2. StoreInv'
      BY <2>2, <2>3, <2>5, NoneIsNoSnapshot DEF StoreInv, Idle
    <3> QED BY <3>1, <3>2
  <2> QED BY <1>4, <2>1, <2>4, <2>5 DEF IngestRegisters, RegisterSnapshot
<1> QED BY <1>1, <1>2, <1>3, <1>4

(* The calls that hold the lock of the quarantine. *)
LEMMA QuarantineKeeps ==
    ASSUME StoreInv, QuarantineCall
    PROVE  StoreInv' /\ CandidatesKept
<1>1. UNCHANGED <<job, drafts, clock, process, snapshots>>
  BY DEF QuarantineCall, ExtractCandidate, BindEvidence, IssueApproval, Promote, storeVars
<1>2. CASE UNCHANGED <<candidates, promoted>>
  BY <1>1, <1>2 DEF StoreInv, CandidatesKept
<1>3. ASSUME NEW snap \in held, ExtractCandidate(snap) PROVE StoreInv' /\ CandidatesKept
  <2>1. TrustOf(snap) \in {"T2", "T3"}
    BY DEF TrustOf
  <2>2. PICK t \in {"T2", "T3"} : \E s :
          /\ snapshots[s] # None /\ candidates[s] \in {None, t}
          /\ candidates' = [candidates EXCEPT ![s] = t] /\ UNCHANGED promoted
    BY <1>3, <2>1 DEF ExtractCandidate
  <2>3. PICK s : /\ snapshots[s] # None /\ candidates[s] \in {None, t}
                 /\ candidates' = [candidates EXCEPT ![s] = t] /\ UNCHANGED promoted
    BY <2>2
  <2> QED BY <1>1, <2>3, NoneIsNoSnapshot DEF StoreInv, CandidatesKept
<1>4. ASSUME NEW a \in approvals, Promote(a.source, a) PROVE StoreInv' /\ CandidatesKept
  <2>1. PICK s : s = a.source
    OBVIOUS
  <2>2. /\ candidates[s] # None /\ UNCHANGED candidates
        /\ promoted' = [promoted EXCEPT ![s] =
             [source |-> s, trust |-> candidates[s], bindings |-> bindings[s], approval |-> a]]
    BY <1>4, <2>1 DEF Promote
  <2> QED BY <1>1, <2>2 DEF StoreInv, CandidatesKept
<1> QED BY <1>2, <1>3, <1>4 DEF QuarantineCall, BindEvidence, IssueApproval, storeVars

(* Every step but the death of the process. *)
LEMMA StoreSteps ==
    ASSUME StoreInv, Next \/ UNCHANGED vars, ~Crash
    PROVE  StoreInv' /\ CandidatesKept
<1>1. CASE UNCHANGED vars
  BY <1>1 DEF vars, StoreInv, CandidatesKept
<1>2. ASSUME NEW w \in Writers, NEW e \in Plain, PutBlob(w, e[1], e[2])
      PROVE  StoreInv' /\ CandidatesKept
  BY <1>2 DEF PutBlob, Becomes, StoreInv, CandidatesKept
<1>3. ASSUME NEW w \in Writers, NEW v \in Versions, NEW k \in Packages,
             NEW atoms \in SUBSET ({ promoted[s] : s \in Sources } \ {None}),
             BuildBegins(w, v, k, atoms)
      PROVE  StoreInv' /\ CandidatesKept
  BY <1>3 DEF BuildBegins, Becomes, StoreInv, CandidatesKept
<1>4. ASSUME NEW w \in Writers, NEW draft \in drafts, PublishDraft(w, draft)
      PROVE  StoreInv' /\ CandidatesKept
  BY <1>4 DEF PublishDraft, Becomes, StoreInv, CandidatesKept
<1>5. ASSUME NEW w \in Writers, NEW v \in Versions, NEW e \in Plain, PublishPlain(w, v, {e})
      PROVE  StoreInv' /\ CandidatesKept
  BY <1>5 DEF PublishPlain, Becomes, StoreInv, CandidatesKept
<1>6. ASSUME NEW w \in Writers, BuildEnds(w) PROVE StoreInv' /\ CandidatesKept
  BY <1>6 DEF BuildEnds, Becomes, Idle, StoreInv, CandidatesKept
<1>7. ASSUME NEW w \in Writers,
             PublishBegins(w) \/ PublishChecks(w) \/ PublishRaises(w) \/ PublishCommits(w)
      PROVE  StoreInv' /\ CandidatesKept
  <2>1. CASE PublishCommits(w)
    BY <2>1 DEF PublishCommits, Becomes, Idle, StoreInv, CandidatesKept
  <2>2. CASE PublishBegins(w) \/ PublishChecks(w) \/ PublishRaises(w)
    BY <2>2, PublishHandsOn DEF Publishing, StoreInv, CandidatesKept
  <2> QED BY <1>7, <2>1, <2>2
<1>8. CASE GetPublished \/ Change
  BY <1>8 DEF GetPublished, Change, StoreInv, CandidatesKept
<1>9. CASE Tick
  BY <1>9, TimesAreNaturals DEF Tick, Times, StoreInv, CandidatesKept
<1> QED BY <1>1, <1>2, <1>3, <1>4, <1>5, <1>6, <1>7, <1>8, <1>9, IngestionKeeps, QuarantineKeeps
        DEF Next, ThreadBegins, ThreadStep

(* An entry stays current. *)
LEMMA CurrentStays ==
    ASSUME CandidatesKept, NEW e, Current(e)
    PROVE  Current(e)'
  BY DEF CandidatesKept, Current

(* The permit that is issued is current. *)
LEMMA IssuedIsCurrent ==
    ASSUME StoreInv, NEW draft \in drafts, \A a \in draft.capsule.atoms : VerifyValidated(a),
           \A a \in draft.capsule.atoms : a.source \in Sources
    PROVE  /\ Shaped(PermitFor(draft)) /\ PermitFor(draft).process = process
           /\ PermitFor(draft).capsule = draft.capsule
           /\ \A e \in PermitFor(draft).entries : Current(e)
<1>1. Shaped(PermitFor(draft))
  <2>1. ASSUME NEW a \in draft.capsule.atoms
        PROVE  /\ PermitAtomEntry(a).atom = a
               /\ PermitAtomEntry(a) = [atom |-> PermitAtomEntry(a).atom,
                                        snapshot |-> PermitAtomEntry(a).snapshot]
    BY DEF PermitAtomEntry
  <2>2. /\ PermitFor(draft).entries = { PermitAtomEntry(a) : a \in draft.capsule.atoms }
        /\ PermitFor(draft).capsule = draft.capsule
    BY DEF PermitFor
  <2>3. { e.atom : e \in PermitFor(draft).entries } = draft.capsule.atoms
    BY <2>1, <2>2
  <2>4. \A e \in PermitFor(draft).entries : e = [atom |-> e.atom, snapshot |-> e.snapshot]
    BY <2>1, <2>2
  <2>5. PermitFor(draft) = [capsule |-> PermitFor(draft).capsule,
                            package |-> PermitFor(draft).package,
                            process |-> PermitFor(draft).process,
                            entries |-> PermitFor(draft).entries]
    BY DEF PermitFor
  <2> QED BY <2>2, <2>3, <2>4, <2>5 DEF Shaped
<1>2. ASSUME NEW a \in draft.capsule.atoms PROVE Current(PermitAtomEntry(a))
  <2>1. a # None /\ a.source \in Sources /\ promoted[a.source] = a
    BY DEF StoreInv, VerifyValidated
  <2>2. PICK s \in Sources : s = a.source
    BY <2>1
  <2>3. a.trust = candidates[s] /\ candidates[s] # None
    BY <2>1, <2>2 DEF StoreInv
  <2>4. Proper(snapshots[s]) /\ snapshots[s].source = s
    BY <2>3 DEF StoreInv
  <2>5. candidates[s] = "T2" => snapshots[s].proof
    BY <2>2 DEF VerifyValidated
  <2> QED BY <2>2, <2>3, <2>4, <2>5 DEF Current, PermitAtomEntry
<1> QED BY <1>1, <1>2 DEF PermitFor

(* What the transaction commits is attested. *)
LEMMA CommittedIsAttested ==
    ASSUME CheckedInv, NEW w \in Writers, PublishCommits(w), job[w].capsule.atoms # {}
    PROVE  /\ job[w].permit # None /\ job[w].permit.capsule = job[w].capsule
           /\ \A e \in job[w].permit.entries : Attested(e)
  BY DEF PublishCommits, Checked, RequiresGate, CheckedInv, Found, Attested

(* Every step keeps the permits, in jobs and in rows, attested and current. *)
LEMMA PermitInductive ==
    ASSUME WayInv, SourcedInv, StoreInv, CheckedInv, PermitInv, [Next]_vars
    PROVE  PermitInv'
<1>1. CASE Crash
  <2>1. process' = process + 1 /\ process \in Nat /\ UNCHANGED rows
        /\ job' = [w \in Writers |-> Idle]
    BY <1>1 DEF Crash, StoreInv, registryVars
  <2>2. ASSUME NEW v \in DOMAIN rows PROVE RowPermitOK(rows[v])'
    BY <2>1, <2>2 DEF PermitInv, RowPermitOK
  <2> QED BY <2>1, <2>2 DEF PermitInv, JobPermitOK, Publishing, Idle
<1>2. CASE ~Crash
  <2>1. CandidatesKept /\ process' = process
    <3>1. CandidatesKept
      BY <1>2, StoreSteps
    <3>2. ASSUME NEW w \in Writers, ThreadBegins(w) PROVE process' = process
      BY <3>2 DEF ThreadBegins, IngestReads, PutBlob, BuildBegins, PublishDraft, PublishPlain
    <3>3. ASSUME NEW w \in Writers, ThreadStep(w) PROVE process' = process
      BY <3>3 DEF ThreadStep, Putting, IngestCaptures, IngestRegisters, BuildEnds, PublishBegins,
                  PublishChecks, PublishCommits, PublishRaises
    <3>4. QuarantineCall \/ GetPublished \/ Tick \/ Change \/ UNCHANGED vars => process' = process
      BY DEF QuarantineCall, GetPublished, Tick, Change, vars
    <3> QED BY <1>2, <3>1, <3>2, <3>3, <3>4 DEF Next
  <2>2. ASSUME NEW e, Current(e) PROVE Current(e)'
    BY <2>1, <2>2, CurrentStays
  <2>3. ASSUME NEW w \in Writers,
               \/ job'[w] = job[w] \/ ~Publishing(job'[w])
               \/ /\ Publishing(job[w]) /\ job'[w].capsule = job[w].capsule
                  /\ job'[w].permit = job[w].permit
        PROVE  JobPermitOK(w)'
    BY <2>1, <2>2, <2>3 DEF PermitInv, JobPermitOK, Publishing
  <2>4. ASSUME NEW row, RowPermitOK(row) PROVE RowPermitOK(row)'
    BY <2>1, <2>2, <2>4 DEF RowPermitOK
  <2>5. ASSUME UNCHANGED rows,
               \A w \in Writers :
                 \/ job'[w] = job[w] \/ ~Publishing(job'[w])
                 \/ /\ Publishing(job[w]) /\ job'[w].capsule = job[w].capsule
                    /\ job'[w].permit = job[w].permit
        PROVE  PermitInv'
    <3>1. ASSUME NEW v \in DOMAIN rows PROVE RowPermitOK(rows[v])'
      <4>1. PICK row : row = rows[v]
        OBVIOUS
      <4>2. RowPermitOK(row)'
        BY <2>4, <4>1 DEF PermitInv
      <4> QED BY <2>5, <4>1, <4>2 DEF RowPermitOK
    <3> QED BY <2>3, <2>5, <3>1 DEF PermitInv
  <2>6. ASSUME NEW w \in Writers, NEW draft \in drafts, PublishDraft(w, draft) PROVE PermitInv'
    <3>1. PICK permit : permit = PermitFor(draft)
      OBVIOUS
    <3>2. /\ Shaped(permit) /\ permit.process = process /\ permit.capsule = draft.capsule
          /\ \A e \in permit.entries : Current(e)
      BY <2>6, <3>1, IssuedIsCurrent DEF PublishDraft, SourcedInv, Evidential
    <3>3. /\ job' = [job EXCEPT ![w] = [pc |-> "publishing", capsule |-> draft.capsule,
                                        permit |-> permit]]
          /\ UNCHANGED rows
      BY <2>6, <3>1 DEF PublishDraft, Becomes, registryVars
    <3>4. JobPermitOK(w)'
      <4>1. job'[w].permit = permit /\ job'[w].capsule = draft.capsule
        BY <3>3 DEF StoreInv
      <4> QED BY <2>1, <2>2, <3>2, <4>1 DEF JobPermitOK
    <3>5. ASSUME NEW x \in Writers, x # w PROVE JobPermitOK(x)'
      BY <2>3, <3>3, <3>5 DEF StoreInv
    <3>6. ASSUME NEW v \in DOMAIN rows PROVE RowPermitOK(rows[v])'
      <4>1. PICK row : row = rows[v]
        OBVIOUS
      <4>2. RowPermitOK(row)'
        BY <2>4, <4>1 DEF PermitInv
      <4> QED BY <3>3, <4>1, <4>2 DEF RowPermitOK
    <3> QED BY <3>3, <3>4, <3>5, <3>6 DEF PermitInv
  <2>7. ASSUME NEW w \in Writers, PublishCommits(w),
               InsertPublication(job[w].capsule, job[w].permit)
        PROVE  PermitInv'
    <3>1. PICK c, permit : c = job[w].capsule /\ permit = job[w].permit
      OBVIOUS
    <3>2. PICK row : row = [capsule |-> c, permit |-> permit, at |-> clock]
      OBVIOUS
    <3>3. RowPermitOK(row)
      <4>1. permit # None => c.atoms # {}
        BY <2>7, <3>1 DEF PublishCommits, Publishing, WayInv
      <4>2. c.atoms # {} =>
              permit # None /\ permit.capsule = c /\ \A e \in permit.entries : Attested(e)
        BY <2>7, <3>1, CommittedIsAttested
      <4>3. permit # None =>
              /\ Shaped(permit) /\ permit.process = process /\ permit.capsule = c
              /\ \A e \in permit.entries : Current(e)
        BY <2>7, <3>1 DEF PublishCommits, Publishing, PermitInv, JobPermitOK
      <4> QED BY <3>2, <4>1, <4>2, <4>3 DEF RowPermitOK, StoreInv
    <3>4. \A v \in DOMAIN rows' : (v \in DOMAIN rows /\ rows'[v] = rows[v]) \/ rows'[v] = row
      BY <2>7, <3>1, <3>2 DEF InsertPublication, Insert
    <3>5. ASSUME NEW v \in DOMAIN rows' PROVE RowPermitOK(rows[v])'
      <4>1. PICK r : r = rows'[v]
        OBVIOUS
      <4>2. RowPermitOK(r)
        BY <3>3, <3>4, <4>1 DEF PermitInv
      <4>3. RowPermitOK(r)'
        BY <2>4, <4>2
      <4> QED BY <4>1, <4>3 DEF RowPermitOK
    <3>6. \A x \in Writers : job'[x] = job[x] \/ ~Publishing(job'[x])
      BY <2>7 DEF PublishCommits, Becomes, Publishing, Idle, StoreInv
    <3> QED BY <2>3, <3>5, <3>6 DEF PermitInv
  <2>8. ASSUME NEW w \in Writers, NEW v \in Versions, NEW e \in Plain, PublishPlain(w, v, {e})
        PROVE  PermitInv'
    <3>1. /\ job' = [job EXCEPT ![w] = [pc |-> "publishing", permit |-> None,
                       capsule |-> [version |-> v, atoms |-> {}, extra |-> {e}]]]
          /\ UNCHANGED rows
      BY <2>8 DEF PublishPlain, Becomes, registryVars
    <3>2. \A x \in Writers : JobPermitOK(x)'
      BY <2>3, <3>1 DEF JobPermitOK, StoreInv
    <3>3. ASSUME NEW u \in DOMAIN rows PROVE RowPermitOK(rows[u])'
      <4>1. PICK row : row = rows[u]
        OBVIOUS
      <4>2. RowPermitOK(row)'
        BY <2>4, <4>1 DEF PermitInv
      <4> QED BY <3>1, <4>1, <4>2 DEF RowPermitOK
    <3> QED BY <3>1, <3>2, <3>3 DEF PermitInv
  <2>9. ASSUME NEW w \in Writers, ThreadBegins(w) \/ ThreadStep(w) PROVE PermitInv'
    <3> USE DEF StoreInv, Publishing
    <3>1. CASE \E s \in Sources, a \in Authors, collector \in BOOLEAN, cas \in BOOLEAN :
                 IngestReads(w, s, a, collector, cas)
      BY <2>5, <3>1 DEF IngestReads, Ingestion, Becomes, registryVars
    <3>2. CASE \E e \in Plain : PutBlob(w, e[1], e[2])
      BY <2>5, <3>2 DEF PutBlob, Becomes, registryVars
    <3>3. CASE \E v \in Versions, k \in Packages : \E atoms \in SUBSET
                 ({ promoted[s] : s \in Sources } \ {None}) : BuildBegins(w, v, k, atoms)
      BY <2>5, <3>3 DEF BuildBegins, Becomes, registryVars
    <3>4. CASE Putting(w) \/ IngestCaptures(w) \/ IngestRegisters(w) \/ BuildEnds(w)
      BY <2>5, <3>4 DEF Putting, Ingestion, IngestCaptures, IngestRegisters, BuildEnds, Idle,
                        Becomes, registryVars
    <3>5. CASE PublishCommits(w) /\ UNCHANGED rows
      BY <2>5, <3>5 DEF PublishCommits, Becomes, Idle
    <3>6. CASE PublishCommits(w)
      BY <2>7, <3>5, <3>6 DEF PublishCommits, ReplayPublication, RefusePublication, registryVars
    <3>7. CASE PublishBegins(w) \/ PublishChecks(w) \/ PublishRaises(w)
      BY <2>5, <3>7, PublishHandsOn
    <3> QED BY <2>6, <2>8, <2>9, <3>1, <3>2, <3>3, <3>4, <3>6, <3>7 DEF ThreadBegins, ThreadStep
  <2>10. CASE QuarantineCall \/ GetPublished \/ Tick \/ Change \/ UNCHANGED vars
    BY <2>5, <2>10 DEF QuarantineCall, GetPublished, Get, Tick, Change, vars, registryVars
  <2> QED BY <1>2, <2>9, <2>10 DEF Next
<1> QED BY <1>1, <1>2

(* The quarantine of a new process is empty. *)
LEMMA StoreCrash == StoreInv /\ Crash => StoreInv'
  BY DEF StoreInv, Crash, QuarantineLost, Idle

(* Two permits of one process for one capsule and package, of which one was *)
(* admitted, quote the same snapshots.                                      *)
LEMMA EntriesAgree ==
    ASSUME NEW e, NEW f, Current(e), Attested(e), Current(f), e.atom = f.atom,
           e = [atom |-> e.atom, snapshot |-> e.snapshot],
           f = [atom |-> f.atom, snapshot |-> f.snapshot]
    PROVE  e = f
<1>1. /\ e.snapshot \in Snapshot /\ f.snapshot \in Snapshot
      /\ e.snapshot.source = f.snapshot.source /\ e.snapshot.author = f.snapshot.author
      /\ e.snapshot.captured = f.snapshot.captured
  BY DEF Current, Proper
<1>2. e.snapshot.proof = f.snapshot.proof
  <2>1. CASE e.atom.source.mode = "GIT_IMMUTABLE"
    <3>1. e.snapshot.proof /\ e.atom.trust = "T2"
      BY <2>1 DEF Attested, TrustOf
    <3>2. f.snapshot.proof
      BY <3>1 DEF Current
    <3> QED BY <1>1, <3>1, <3>2 DEF Snapshot
  <2>2. CASE e.atom.source.mode # "GIT_IMMUTABLE"
    <3>1. ~e.snapshot.proof /\ ~f.snapshot.proof
      BY <2>2 DEF Current, Proper
    <3> QED BY <1>1, <3>1 DEF Snapshot
  <2> QED BY <2>1, <2>2
<1>3. e.snapshot = f.snapshot
  BY <1>1, <1>2 DEF Snapshot
<1> QED BY <1>3

(***************************************************************************)
(* A permit that is issued again for a published draft is the permit that  *)
(* the registry has stored, so a retry is a replay, for any number of      *)
(* threads, sources, re-ingestions and restarts                            *)
(* (Registry._verify_m3_replay, QuarantineStore.register_snapshot).  The   *)
(* invariant follows the snapshots from the ingestion to the row: a        *)
(* candidate fixes the capture and the author of its snapshot, and though  *)
(* the proof may be replaced, what was admitted has the proof its trust    *)
(* level says, and so has every permit that verifies.                      *)
(***************************************************************************)
THEOREM RetriesAreReplays == Spec => []PermitsAreStable
<1> DEFINE Inv == WayInv /\ SourcedInv /\ StoreInv /\ CheckedInv /\ PermitInv
<1>1. Init => Inv
  BY WayInitial, SourcedInitial, StoreInitial, CheckedInitial
<1>2. Inv /\ [Next]_vars => Inv'
  BY WayInductive, SourcedInductive, StoreSteps, StoreCrash, CheckedInductive, PermitInductive
<1>3. Inv => PermitsAreStable
  <2> SUFFICES ASSUME Inv, NEW w \in Writers, Publishing(job[w]), job[w].permit # None,
                      NEW v \in DOMAIN rows, v = job[w].permit.capsule.version,
                      rows[v].capsule = job[w].permit.capsule,
                      rows[v].permit.process = job[w].permit.process,
                      rows[v].permit.package = job[w].permit.package
               PROVE  rows[v].permit = job[w].permit
    BY DEF PermitsAreStable, Publishing
  <2>1. PICK new, old : new = job[w].permit /\ old = rows[v].permit
    OBVIOUS
  <2>2. /\ Shaped(new) /\ \A e \in new.entries : Current(e)
        /\ new.process = process /\ new.capsule.atoms # {}
    BY <2>1 DEF PermitInv, JobPermitOK, WayInv
  <2>3. old # None
    BY <2>1, <2>2 DEF PermitInv, RowPermitOK
  <2>4. /\ Shaped(old) /\ old.capsule = new.capsule
        /\ \A e \in old.entries : Current(e) /\ Attested(e)
    BY <2>1, <2>2, <2>3 DEF PermitInv, RowPermitOK
  <2>5. \A e \in old.entries : e \in new.entries
    <3> SUFFICES ASSUME NEW e \in old.entries PROVE e \in new.entries
      OBVIOUS
    <3>1. PICK f \in new.entries : f.atom = e.atom
      BY <2>2, <2>4 DEF Shaped
    <3>2. e = f
      BY <2>2, <2>4, <3>1, EntriesAgree DEF Shaped
    <3> QED BY <3>2
  <2>6. \A f \in new.entries : f \in old.entries
    <3> SUFFICES ASSUME NEW f \in new.entries PROVE f \in old.entries
      OBVIOUS
    <3>1. PICK e \in old.entries : f.atom = e.atom
      BY <2>2, <2>4 DEF Shaped
    <3>2. e = f
      BY <2>2, <2>4, <3>1, EntriesAgree DEF Shaped
    <3> QED BY <3>2
  <2>7. old.entries = new.entries
    BY <2>5, <2>6
  <2> QED BY <2>1, <2>2, <2>4, <2>7 DEF Shaped
<1> QED BY <1>1, <1>2, <1>3, PTL DEF Spec
=============================================================================
