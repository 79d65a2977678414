-------------------------- MODULE MCSwapController --------------------------
(***************************************************************************)
(* Two clients on one session.  Preparation 1 needs an approval, which is  *)
(* valid for the first tick only; preparation 2 is a second preparation of *)
(* the same operation and needs none.                                      *)
(***************************************************************************)
EXTENDS SwapController, TLC

CONSTANTS s1, o1, q1, ca, cb, k1, k2

PrepFor(needs, expires) ==
    [scope |-> s1, op |-> o1, request |-> q1, old |-> [cap |-> ca, generation |-> 0],
     new |-> [cap |-> cb, generation |-> 1], expires |-> expires, needs |-> needs]

MCCandidates == { PrepFor(TRUE, 2) }

MCCandidatesRace == { PrepFor(FALSE, 1) }

ApprovalFor(distinct) ==
    [id |-> 1, record |-> PrepFor(TRUE, 2), distinct |-> distinct,
     issued |-> 0, expires |-> 1]

MCApprovals == { ApprovalFor(TRUE) }

MCNoApprovals == {}

(* The race has one ticket, so that no rollback follows an activation: the *)
(* policy about rollbacks stays as it is.                                  *)
RaceSpec ==
    /\ ControlInit /\ [][ControlNext /\ permits']_allVars
    /\ \A k \in Clients : WF_allVars(ClientStep(k))

ClientSymmetry == Permutations({k1, k2})
=============================================================================
