-------------------------- MODULE MCStoreMigration --------------------------
(* Two processes open one legacy database; one open may be cut short. *)
EXTENDS StoreMigration

CONSTANTS k1, k2
=============================================================================
