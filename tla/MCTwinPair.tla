----------------------------- MODULE MCTwinPair -----------------------------
(***************************************************************************)
(* The two profiles the contracts allow (validate/contracts.py): three     *)
(* repetitions when the stakes are high, else one.  Target, invariant and  *)
(* spillover checks are never missing; preconditions may be.               *)
(***************************************************************************)
EXTENDS TwinPair

Check(id, phase, probes, old, new) ==
    [id |-> id, phase |-> phase, probes |-> probes, old |-> old, new |-> new]

PostChecks ==
    << Check("target", "post", 0, FALSE, TRUE), Check("invariant", "post", 0, TRUE, TRUE),
       Check("spillover", "post", 0, FALSE, FALSE) >>

HighChecks ==
    << Check("precondition", "pre", 1, TRUE, TRUE) >> \o PostChecks
    \o << Check("differential", "pair", 0, TRUE, TRUE) >>

LowChecks ==
    PostChecks \o << Check("differential", "pair", 1, TRUE, TRUE) >>

MCProfiles ==
    { [checks |-> HighChecks, repetitions |-> 3], [checks |-> LowChecks, repetitions |-> 1] }
=============================================================================
