---------------------------- MODULE ContentStore ----------------------------
(***************************************************************************)
(* FilesystemCAS (storage/cas.py): immutable objects named by their        *)
(* digest, written by put_blob under an exclusive lock of the digest and   *)
(* read under a shared one.                                                *)
(*                                                                         *)
(* object is what the directories show: the media type of the envelope of  *)
(* each digest.  An object is on disk when its entry in the shard          *)
(* directory (objects/sha256/<2 digits>) is, and the entry of the shard in *)
(* its parent.  put_blob syncs the first and no code syncs the second; a   *)
(* shard that is lost stands for lost directories above it too.  After a   *)
(* power loss what was not synced may be there or not.  The flock of a     *)
(* dead process is free (external: the operating system).  Envelopes are   *)
(* abstract: the temporary file is complete and synced before it is        *)
(* linked, so an object is never seen in part.                             *)
(***************************************************************************)
CONSTANTS
    Writers,      \* threads that put and read objects
    Digests,      \* digests of the data
    MediaTypes,   \* canonical media types
    Shards,       \* shard directories
    ShardOf,      \* the shard of a digest: its first two digits
    None          \* no object

ASSUME NoneIsNoMedia == None \notin MediaTypes

ASSUME DigestsHaveShards == ShardOf \in [Digests -> Shards]

VARIABLES
    object,   \* the media type in the envelope at object_path(digest)
    shard,    \* "none", "made" and never synced, or on "disk"
    synced,   \* digests whose entry in the shard is on disk
    put,      \* the put_blob call of each writer
    acked,    \* history: what put_blob ever returned
    torn,     \* history: digests whose entry was left without a sync
    uprooted  \* history: digests lost with a shard that nobody has synced

casVars == <<object, shard, synced, put, acked, torn, uprooted>>

Put == [pc : {"idle", "writing", "linked", "acked", "raised"},
        digest : Digests \cup {None}, media : MediaTypes \cup {None}]

NoPut == [pc |-> "idle", digest |-> None, media |-> None]

CasInit ==
    /\ object = [d \in Digests |-> None]
    /\ shard \in [Shards -> {"none", "disk"}]
    /\ synced = {}
    /\ put = [w \in Writers |-> NoPut]
    /\ acked = {}
    /\ torn = {}
    /\ uprooted = {}

(* The exclusive lock of a digest is held from the look at the final path  *)
(* to the end of _put_locked.                                              *)
Locked(d) == \E w \in Writers : put[w].digest = d /\ put[w].pc \in {"writing", "linked"}

(* Mutant: the object is read without its lock. *)
ReadableUnlocked(d) == TRUE

(* _read_verified: the shared lock waits for a writer; what is missing or  *)
(* malformed is a BlobIntegrityError, here None.                           *)
Readable(d) == ~Locked(d)

Answer(w, d, m, answer) ==
    put' = [put EXCEPT ![w] = [pc |-> answer, digest |-> d, media |-> m]]

(* _validate_object_directory makes the shard directory. *)
MakeShard(d) ==
    shard' = [shard EXCEPT ![ShardOf[d]] = IF @ = "none" THEN "made" ELSE @]

(* put_blob up to the temporary file: an object that exists is verified and *)
(* is the answer when its media type agrees, a BlobMetadataConflict when    *)
(* not.  It is not synced again.  The call may also fail before it has made *)
(* the directory.                                                           *)
PutBegins(w, d, m) ==
    /\ put[w].pc = "idle"
    /\ ~Locked(d)
    /\ \/ /\ MakeShard(d)
          /\ \/ object[d] = None /\ Answer(w, d, m, "writing") /\ UNCHANGED acked
             \/ object[d] = m /\ Answer(w, d, m, "acked") /\ acked' = acked \cup {<<d, m>>}
             \/ object[d] \notin {None, m} /\ Answer(w, d, m, "raised") /\ UNCHANGED acked
       \/ Answer(w, d, m, "raised") /\ UNCHANGED <<acked, shard>>
    /\ UNCHANGED <<object, synced, torn, uprooted>>

(* The temporary file cannot be created, written, synced, chmodded or       *)
(* linked.                                                                  *)
WriteFails(w) ==
    /\ put[w].pc = "writing"
    /\ put' = [put EXCEPT ![w].pc = "raised"]
    /\ UNCHANGED <<object, shard, synced, acked, torn, uprooted>>

(* Mutant: the link is the answer, and the directory is not waited for. *)
LinkAcknowledges(w) ==
    /\ put[w].pc = "writing"
    /\ object' = [object EXCEPT ![put[w].digest] = put[w].media]
    /\ put' = [put EXCEPT ![w].pc = "acked"]
    /\ acked' = acked \cup {<<put[w].digest, put[w].media>>}
    /\ UNCHANGED <<shard, synced, torn, uprooted>>

(* _link_no_replace.  The lock leaves no one to link first. *)
LinkNoReplace(w) ==
    /\ put[w].pc = "writing"
    /\ object' = [object EXCEPT ![put[w].digest] = put[w].media]
    /\ put' = [put EXCEPT ![w].pc = "linked"]
    /\ UNCHANGED <<shard, synced, acked, torn, uprooted>>

(* _fsync_directory of the shard succeeds, and put_blob returns unless the  *)
(* temporary file cannot be removed.                                        *)
FsyncDirectory(w) ==
    /\ put[w].pc = "linked"
    /\ synced' = synced \cup {put[w].digest}
    /\ \/ /\ put' = [put EXCEPT ![w].pc = "acked"]
          /\ acked' = acked \cup {<<put[w].digest, put[w].media>>}
       \/ put' = [put EXCEPT ![w].pc = "raised"] /\ UNCHANGED acked
    /\ UNCHANGED <<object, shard, torn, uprooted>>

(* It fails: the entry this call linked is removed and the error raised;    *)
(* when the entry cannot be compared or removed, it stays without a sync.   *)
FsyncFails(w) ==
    /\ put[w].pc = "linked"
    /\ \/ object' = [object EXCEPT ![put[w].digest] = None] /\ UNCHANGED torn
       \/ torn' = torn \cup {put[w].digest} /\ UNCHANGED object
    /\ synced' = synced \ {put[w].digest}
    /\ put' = [put EXCEPT ![w].pc = "raised"]
    /\ UNCHANGED <<shard, acked, uprooted>>

PutStep(w) ==
    WriteFails(w) \/ LinkNoReplace(w) \/ FsyncDirectory(w) \/ FsyncFails(w)

(* The caller takes the answer. *)
PutReturns(w) ==
    /\ put[w].pc \in {"acked", "raised"}
    /\ put' = [put EXCEPT ![w] = NoPut]
    /\ UNCHANGED <<object, shard, synced, acked, torn, uprooted>>

LinkedBy(dead) == { put[w].digest : w \in { x \in dead : put[x].pc = "linked" } }

(* External: the threads of a process die with it.  A temporary file may    *)
(* stay behind; an entry that was linked stays.                             *)
WritersDie(dead) ==
    /\ put' = [w \in Writers |-> IF w \in dead THEN NoPut ELSE put[w]]
    /\ torn' = torn \cup LinkedBy(dead)
    /\ UNCHANGED <<object, shard, synced, acked, uprooted>>

(* External: power is lost.  gone names the shards that were not on disk    *)
(* and are gone with all they hold, lost the entries of other shards that   *)
(* were not on disk and are gone.                                           *)
PowerLoss(gone, lost) ==
    LET fallen == { d \in Digests : object[d] # None /\ ShardOf[d] \in gone } IN
    /\ gone \subseteq { h \in Shards : shard[h] = "made" }
    /\ lost \subseteq { d \in Digests \ fallen : object[d] # None /\ d \notin synced }
    /\ object' = [d \in Digests |-> IF d \in lost \cup fallen THEN None ELSE object[d]]
    /\ shard' = [h \in Shards |-> IF h \in gone \/ shard[h] = "none" THEN "none" ELSE "disk"]
    /\ put' = [w \in Writers |-> NoPut]
    /\ synced' = { d \in Digests : object'[d] # None }
    /\ torn' = torn \cup LinkedBy(Writers)
    /\ uprooted' = uprooted \cup fallen
    /\ UNCHANGED acked

CasNext ==
    \/ \E w \in Writers :
         \/ \E d \in Digests, m \in MediaTypes : PutBegins(w, d, m)
         \/ PutStep(w) \/ PutReturns(w)
    \/ \E dead \in SUBSET Writers : WritersDie(dead)
    \/ \E gone \in SUBSET Shards, lost \in SUBSET Digests : PowerLoss(gone, lost)

CasSpec == CasInit /\ [][CasNext]_casVars

-----------------------------------------------------------------------------
(* Properties *)

CasTypeOK ==
    /\ object \in [Digests -> MediaTypes \cup {None}]
    /\ shard \in [Shards -> {"none", "made", "disk"}]
    /\ synced \subseteq Digests
    /\ put \in [Writers -> Put]
    /\ \A w \in Writers : put[w].pc # "idle" => put[w].digest \in Digests
                                                /\ put[w].media \in MediaTypes
    /\ acked \subseteq Digests \X MediaTypes
    /\ torn \subseteq Digests /\ uprooted \subseteq Digests

(***************************************************************************)
(* What put_blob has returned stays: whoever races for the digest, dies,   *)
(* or fails to sync and unlinks, an acknowledged object is still there     *)
(* with the media type it was acknowledged with, and after a power loss    *)
(* too.  There are two exceptions.  A digest whose entry was linked and    *)
(* left without a sync, by a writer that died or could not take it back:   *)
(* a later put_blob finds the entry, returns it and does not sync it       *)
(* either.  And a digest that was lost with its shard directory, which is  *)
(* made on demand and whose own entry is never synced.                     *)
(***************************************************************************)
AcknowledgedStays ==
    \A a \in acked : object[a[1]] = a[2] \/ a[1] \in torn \cup uprooted
=============================================================================
