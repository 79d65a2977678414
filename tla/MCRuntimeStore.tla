--------------------------- MODULE MCRuntimeStore ---------------------------
(***************************************************************************)
(* RuntimeStore on a small instance.  The candidates chain: a first and a  *)
(* second activation, a second preparation of the first operation, and one *)
(* for the generation that a rollback leaves behind; all for one request,  *)
(* while operations may be begun with another.                             *)
(***************************************************************************)
EXTENDS RuntimeStorePointer, TLC

CONSTANTS s1, o1, o2, q1, q2, a, b, p1, p2

Bound(c, g) == [cap |-> c, generation |-> g]

Prep(s, o, q, from, to, g, expires) ==
    [scope |-> s, op |-> o, request |-> q, old |-> Bound(from, g),
     new |-> Bound(to, g + 1), expires |-> expires, needs |-> FALSE]

MCCandidates ==
    { Prep(s1, o1, q1, a, b, 0, 2), Prep(s1, o1, q1, b, a, 1, 2),
      Prep(s1, o2, q1, b, a, 1, 1), Prep(s1, o2, q1, a, b, 2, 2) }

(* The store only compares the ids of preparations for equality. *)
IdSymmetry == Permutations(PreparedIds)
=============================================================================
