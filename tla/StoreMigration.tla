--------------------------- MODULE StoreMigration ---------------------------
(***************************************************************************)
(* RuntimeStore.__init__ on a database that an earlier release wrote:      *)
(* _initialize and the three _migrate_* methods of swap/store.py, run by   *)
(* several processes that open the same file.                              *)
(*                                                                         *)
(* The sqlite3 module opens a transaction before an UPDATE and not before  *)
(* an ALTER TABLE.  So a column is added in a transaction of its own,      *)
(* unless an earlier UPDATE of the same open already holds one, and what   *)
(* the UPDATEs sign is committed at the end of the with block only.        *)
(***************************************************************************)
EXTENDS Naturals, Sequences

CONSTANTS
    Openers,       \* processes that construct a RuntimeStore
    NoOne,         \* no process holds the write lock
    MaxInterrupts  \* bound: opens cut short by a crash or an SQLite error

ASSUME NoOneIsNoOpener == NoOne \notin Openers

(* The added columns, in the order in which they are migrated; each name   *)
(* but "outcome" stands for the signature column of its table.             *)
Columns == <<"outcome", "actions", "scopes", "tickets">>

ColumnNames == { Columns[i] : i \in DOMAIN Columns }

Signatures == ColumnNames \ {"outcome"}

VARIABLES
    present,     \* columns that exist, as committed
    signed,      \* signature columns whose every row is filled, as committed
    rows,        \* tables that hold rows
    authentic,   \* whether every legacy ticket carries its signature
    writer,      \* the opener that holds the write transaction
    added, filled,  \* what that transaction has added and signed
    at,          \* each opener's column and place in its migration
    interrupts

migrationVars ==
    <<present, signed, rows, authentic, writer, added, filled, at, interrupts>>

Place(i, pc) == [column |-> i, pc |-> pc]

(* Any mixture of migrated and legacy tables; the foreign keys leave no    *)
(* action and no ticket without a scope.                                   *)
MigrationInit ==
    /\ present \in SUBSET ColumnNames
    /\ signed = present \cap Signatures
    /\ rows \in SUBSET Signatures
    /\ rows # {} => "scopes" \in rows
    /\ authentic \in BOOLEAN
    /\ writer = NoOne /\ added = {} /\ filled = {}
    /\ at = [k \in Openers |-> Place(1, "closed")]
    /\ interrupts = 0

-----------------------------------------------------------------------------
(* What an opener sees: the committed database and its own transaction. *)

Column(k) == Columns[at[k].column]

PresentTo(k) == IF writer = k THEN present \cup added ELSE present

SignedTo(k) == IF writer = k THEN signed \cup filled ELSE signed

At(k, pc) == at[k].pc = pc

Goto(k, pc) == at' = [at EXCEPT ![k].pc = pc]

NextColumn(k) ==
    at' = [at EXCEPT ![k] = IF @.column = Len(Columns) THEN Place(@.column, "commit")
                            ELSE Place(@.column + 1, "look")]

(* The with block ends in an exception: its transaction is rolled back. *)
Abandon(k) ==
    /\ Goto(k, "raised")
    /\ IF writer = k THEN writer' = NoOne /\ added' = {} /\ filled' = {}
                     ELSE UNCHANGED <<writer, added, filled>>
    /\ UNCHANGED <<present, signed>>

-----------------------------------------------------------------------------
(* Steps of one open *)

(* executescript: CREATE TABLE IF NOT EXISTS leaves existing tables alone. *)
Open(k) ==
    /\ at[k].pc \in {"closed", "raised"}
    /\ at' = [at EXCEPT ![k] = Place(1, "look")]
    /\ UNCHANGED <<present, signed, rows, authentic, writer, added, filled, interrupts>>

(* PRAGMA table_info. *)
Look(k) ==
    /\ At(k, "look")
    /\ \/ Column(k) \notin PresentTo(k) /\ Goto(k, "alter")
       \/ Column(k) \in PresentTo(k) /\ Column(k) = "outcome" /\ NextColumn(k)
       \/ Column(k) \in PresentTo(k) /\ Column(k) # "outcome" /\ Goto(k, "scan")
    /\ UNCHANGED <<present, signed, rows, authentic, writer, added, filled, interrupts>>

(* ALTER TABLE: waits for another writer, and fails on a column that some  *)
(* other opener has added meanwhile.                                       *)
Alter(k) ==
    /\ At(k, "alter")
    /\ writer \in {k, NoOne}
    /\ \/ Column(k) \in PresentTo(k) /\ Abandon(k)
       \/ /\ Column(k) \notin PresentTo(k)
          /\ IF writer = k
             THEN added' = added \cup {Column(k)} /\ UNCHANGED present
             ELSE present' = present \cup {Column(k)} /\ UNCHANGED added
          /\ IF Column(k) = "outcome" THEN NextColumn(k) ELSE Goto(k, "sign")
          /\ UNCHANGED <<signed, writer, filled>>
    /\ UNCHANGED <<rows, authentic, interrupts>>

(* The loop over the legacy rows: its first UPDATE takes the write lock. *)
Sign(k) ==
    /\ At(k, "sign")
    /\ \/ /\ Column(k) \notin rows
          /\ Goto(k, "scan")
          /\ UNCHANGED <<present, signed, writer, added, filled>>
       \/ Column(k) \in rows /\ Column(k) = "tickets" /\ ~authentic /\ Abandon(k)
       \/ /\ Column(k) \in rows
          /\ Column(k) = "tickets" => authentic
          /\ writer \in {k, NoOne}
          /\ writer' = k
          /\ filled' = filled \cup {Column(k)}
          /\ Goto(k, "scan")
          /\ UNCHANGED <<present, signed, added>>
    /\ UNCHANGED <<rows, authentic, interrupts>>

Unsigned(k) == Column(k) \in rows \ SignedTo(k)

(* Mutant: the search for rows without a signature is dropped. *)
ScanSkipped(k) ==
    /\ At(k, "scan")
    /\ NextColumn(k)
    /\ UNCHANGED <<present, signed, rows, authentic, writer, added, filled, interrupts>>

(* SELECT ... WHERE the signature IS NULL, with which each method ends. *)
Scan(k) ==
    /\ At(k, "scan")
    /\ \/ Unsigned(k) /\ Abandon(k)
       \/ ~Unsigned(k) /\ NextColumn(k) /\ UNCHANGED <<present, signed, writer, added, filled>>
    /\ UNCHANGED <<rows, authentic, interrupts>>

(* Mutant: the end of the block does not commit what was signed. *)
CommitLosesSignatures(k) ==
    /\ At(k, "commit")
    /\ Goto(k, "open")
    /\ present' = PresentTo(k)
    /\ writer' = IF writer = k THEN NoOne ELSE writer
    /\ added' = IF writer = k THEN {} ELSE added
    /\ filled' = IF writer = k THEN {} ELSE filled
    /\ UNCHANGED <<signed, rows, authentic, interrupts>>

(* The end of the with block. *)
Commit(k) ==
    /\ At(k, "commit")
    /\ Goto(k, "open")
    /\ present' = PresentTo(k) /\ signed' = SignedTo(k)
    /\ IF writer = k THEN writer' = NoOne /\ added' = {} /\ filled' = {}
                     ELSE UNCHANGED <<writer, added, filled>>
    /\ UNCHANGED <<rows, authentic, interrupts>>

(* The process dies, or a statement fails (the disk, the 30 s lock wait). *)
Interrupt(k) ==
    /\ interrupts < MaxInterrupts
    /\ at[k].pc \in {"look", "alter", "sign", "scan", "commit"}
    /\ Abandon(k)
    /\ interrupts' = interrupts + 1
    /\ UNCHANGED <<rows, authentic>>

MigrationNext ==
    \E k \in Openers : \/ Open(k) \/ Look(k) \/ Alter(k) \/ Sign(k) \/ Scan(k)
                       \/ Commit(k) \/ Interrupt(k)

MigrationSpec == MigrationInit /\ [][MigrationNext]_migrationVars

-----------------------------------------------------------------------------
(* Properties *)

(***************************************************************************)
(* Whoever holds an open RuntimeStore works on authenticated tables: every *)
(* column is there and every row is signed in the committed database,      *)
(* whoever migrated it, however the opens interleaved or were cut short.   *)
(***************************************************************************)
OpenIsAuthenticated ==
    (\E k \in Openers : At(k, "open"))
      => present = ColumnNames /\ rows \subseteq signed

(* A column that is present and unsigned is one that no open signs again:  *)
(* some opener must still be on its way to sign it.                        *)
Migrating(k, c) ==
    /\ at[k].pc \in {"look", "alter", "sign", "scan", "commit"}
    /\ \/ writer = k /\ c \in filled
       \/ Column(k) = c /\ At(k, "sign")

Usable ==
    \A c \in rows \cap present : c \notin signed => \E k \in Openers : Migrating(k, c)

(***************************************************************************)
(* Opens that race for the migration of an authentic legacy database, one  *)
(* adding a column that the other had found missing, and raise, never      *)
(* leave it in a state in which all later opens raise.                     *)
(***************************************************************************)
RacesLeaveStoreUsable == authentic /\ interrupts = 0 => Usable

(***************************************************************************)
(* The migration leaves an authentic legacy database usable, also when an  *)
(* open is cut short: what _migrate_actions, _migrate_scopes or            *)
(* _migrate_tickets left undone is done by the next open.                  *)
(***************************************************************************)
InterruptedStoreUsable == authentic => Usable
=============================================================================
