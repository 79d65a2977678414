--------------------------- MODULE MCPublication ---------------------------
(* One content as a CAS source and as a Git source of another media type;  *)
(* one of the two can be ingested in each behaviour.                       *)
EXTENDS Publication, TLC

CONSTANTS c1, md, txt, sh

MCSources == { [digest |-> c1, media |-> md, mode |-> "CAS"],
               [digest |-> c1, media |-> txt, mode |-> "GIT_IMMUTABLE"] }

MCShardOf == [d \in Digests |-> sh]

MCPlain == { <<c1, txt>> }

(* Nothing to ingest and three faults, or one source, one fault and a shard *)
(* that is there.                                                           *)
MCInit ==
    /\ Init
    /\ \/ drifted = Sources /\ budget = MaxFaults
       \/ Cardinality(Sources \ drifted) = 1 /\ budget = 1 /\ shard[sh] = "disk"

(* While a source can be ingested, a plain capsule is not published. *)
MCNext ==
    /\ Next
    /\ drifted # Sources =>
         \A w \in Writers : job'[w].pc = "publishing" => job'[w].permit # None

MCSpec == MCInit /\ [][MCNext]_vars

Symmetry == Permutations(Writers)
=============================================================================
