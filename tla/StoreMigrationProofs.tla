------------------------ MODULE StoreMigrationProofs ------------------------
(***************************************************************************)
(* Theorems about StoreMigration for every number of processes that open   *)
(* one database: an open store is authenticated, and opens that only race  *)
(* each other leave the store usable.                                      *)
(***************************************************************************)
EXTENDS StoreMigration, TLAPS

Busy == {"look", "alter", "sign", "scan", "commit"}

MigrationType ==
    /\ present \subseteq ColumnNames /\ signed \subseteq Signatures
    /\ rows \subseteq Signatures
    /\ writer \in Openers \cup {NoOne}
    /\ added \subseteq ColumnNames /\ filled \subseteq Signatures
    /\ at \in [Openers -> [column : 1..4, pc : Busy \cup {"closed", "open", "raised"}]]
    /\ interrupts \in Nat

(***************************************************************************)
(* What is signed is there, and nothing is signed twice; the write lock is *)
(* held by an opener at work, and its transaction is empty without one.    *)
(***************************************************************************)
SignedInOrder ==
    /\ signed \subseteq present /\ filled \subseteq rows
    /\ filled \subseteq present \cup added /\ filled \cap signed = {}

WriterWorks ==
    IF writer = NoOne THEN added = {} /\ filled = {} ELSE at[writer].pc \in Busy

(* The columns an opener is through with, it sees present and signed. *)
Passed(k) ==
    IF at[k].pc \in {"commit", "open"} THEN 1..4 ELSE 1 .. (at[k].column - 1)

PassedIsDone ==
    \A k \in Openers : at[k].pc \in Busy \cup {"open"} =>
      \A i \in Passed(k) :
        /\ Columns[i] \in PresentTo(k)
        /\ Columns[i] \in rows => Columns[i] \in SignedTo(k)

(* Where an opener stands with its present column. *)
AtColumn ==
    \A k \in Openers :
      /\ at[k].pc \in {"sign", "scan"} => Column(k) \in PresentTo(k)
      /\ at[k].pc = "sign" => Column(k) \notin signed \cup filled
      /\ at[k].pc = "alter" /\ writer = k => Column(k) \notin present \cup added

(* The opener that added a column is the only one that will sign it. *)
OneSigner ==
    \A k, l \in Openers :
      at[k].pc = "sign" /\ at[l].pc = "sign" /\ Column(k) = Column(l) => k = l

(* The transaction holds columns its owner is through with, and it signs   *)
(* what it adds.                                                           *)
WriterAhead ==
    writer # NoOne =>
      /\ \A i \in 1..4 : Columns[i] \in filled =>
           \/ i < at[writer].column
           \/ i = at[writer].column /\ at[writer].pc \in {"scan", "commit"}
      /\ \A c \in added \cap rows :
           c \in filled \/ (Column(writer) = c /\ at[writer].pc = "sign")

MigrationInv ==
    /\ MigrationType /\ SignedInOrder /\ WriterWorks /\ PassedIsDone /\ AtColumn
    /\ OneSigner /\ WriterAhead

-----------------------------------------------------------------------------
(* The columns and the places *)

(* The columns are four, distinct, and all but the first hold signatures. *)
LEMMA ColumnFacts ==
    /\ Len(Columns) = 4 /\ DOMAIN Columns = 1..4
    /\ \A i, j \in 1..4 : Columns[i] = Columns[j] => i = j
    /\ \A i \in 1..4 : Columns[i] \in ColumnNames
    /\ Columns[1] = "outcome"
    /\ \A c \in ColumnNames : \E i \in 1..4 : c = Columns[i]
    /\ "outcome" \notin Signatures /\ Signatures \subseteq ColumnNames
BY DEF Columns, ColumnNames, Signatures

OthersStay(k) == \A l \in Openers : l # k => at'[l] = at[l]

PlaceType == at' \in [Openers -> [column : 1..4, pc : Busy \cup {"closed", "open", "raised"}]]

(* An opener goes on with its column. *)
LEMMA GotoEffect ==
    ASSUME MigrationType, NEW k \in Openers,
           NEW pc \in Busy \cup {"closed", "open", "raised"}, Goto(k, pc)
    PROVE  /\ PlaceType /\ OthersStay(k)
           /\ at'[k].pc = pc /\ at'[k].column = at[k].column
<1> DEFINE p == [at[k] EXCEPT !.pc = pc]
<1>1. at[k] \in [column : 1..4, pc : Busy \cup {"closed", "open", "raised"}]
  BY DEF MigrationType
<1>2. /\ p \in [column : 1..4, pc : Busy \cup {"closed", "open", "raised"}]
      /\ p.pc = pc /\ p.column = at[k].column
  BY <1>1
<1>3. at' = [at EXCEPT ![k] = p]
  BY DEF Goto
<1> HIDE DEF p
<1> QED
  BY <1>2, <1>3 DEF MigrationType, PlaceType, OthersStay

(* An opener is through with its column. *)
LEMMA NextColumnEffect ==
    ASSUME MigrationType, NEW k \in Openers, NextColumn(k)
    PROVE  /\ PlaceType /\ OthersStay(k)
           /\ \/ at[k].column = 4 /\ at'[k].column = 4 /\ at'[k].pc = "commit"
              \/ /\ at[k].column \in 1..3 /\ at'[k].column = at[k].column + 1
                 /\ at'[k].pc = "look"
<1> DEFINE p == IF at[k].column = 4 THEN Place(at[k].column, "commit")
                ELSE Place(at[k].column + 1, "look")
<1>1. at[k].column \in 1..4
  BY DEF MigrationType
<1>2. /\ p \in [column : 1..4, pc : Busy \cup {"closed", "open", "raised"}]
      /\ \/ at[k].column = 4 /\ p.column = 4 /\ p.pc = "commit"
         \/ at[k].column \in 1..3 /\ p.column = at[k].column + 1 /\ p.pc = "look"
  BY <1>1 DEF Place, Busy
<1>3. at' = [at EXCEPT ![k] = p]
  BY ColumnFacts DEF NextColumn
<1> HIDE DEF p
<1> QED
  BY <1>2, <1>3 DEF MigrationType, PlaceType, OthersStay

-----------------------------------------------------------------------------
(* The steps *)

TablesKept == UNCHANGED <<present, signed, rows, authentic, writer, added, filled>>

(* A step that writes no table keeps the invariant if it keeps what the    *)
(* invariant says of its opener.                                           *)
LEMMA PlaceKeeps ==
    ASSUME MigrationInv, NEW k \in Openers, PlaceType, OthersStay(k), TablesKept,
           interrupts' \in Nat,
           writer = k => at'[k].pc \in Busy /\ at'[k].column >= at[k].column,
           at'[k].pc \in Busy \cup {"open"} =>
             \A i \in Passed(k)' : /\ Columns[i] \in PresentTo(k)
                                   /\ Columns[i] \in rows => Columns[i] \in SignedTo(k),
           at'[k].pc # "sign",
           at'[k].pc = "scan" => Columns[at'[k].column] \in PresentTo(k),
           at'[k].pc = "alter" /\ writer = k => Columns[at'[k].column] \notin present \cup added,
           writer = k /\ at[k].pc \in {"scan", "commit"} =>
             at'[k].pc = "commit" \/ at'[k].column > at[k].column,
           writer = k /\ at[k].pc = "sign" => Column(k) \notin rows
    PROVE  MigrationInv'
<1> USE DEF MigrationInv
<1>1. MigrationType'
  BY DEF MigrationType, PlaceType, TablesKept
<1>2. SignedInOrder' /\ WriterWorks'
  BY DEF SignedInOrder, WriterWorks, TablesKept, OthersStay, MigrationType
<1>3. \A l \in Openers : PresentTo(l)' = PresentTo(l) /\ SignedTo(l)' = SignedTo(l)
  BY DEF PresentTo, SignedTo, TablesKept
<1>4. PassedIsDone'
  <2> SUFFICES ASSUME NEW l \in Openers, at'[l].pc \in Busy \cup {"open"}, NEW i \in Passed(l)'
               PROVE  /\ Columns[i] \in PresentTo(l)'
                      /\ Columns[i] \in rows' => Columns[i] \in SignedTo(l)'
    BY DEF PassedIsDone
  <2>1. CASE l = k
    BY <2>1 DEF TablesKept, Passed, PresentTo, SignedTo
  <2>2. CASE l # k
    BY <1>3, <2>2 DEF PassedIsDone, OthersStay, Passed, TablesKept
  <2> QED
    BY <2>1, <2>2
<1>5. AtColumn'
  BY <1>3 DEF AtColumn, Column, OthersStay, TablesKept
<1>6. OneSigner'
  BY DEF OneSigner, Column, OthersStay
<1>7. WriterAhead'
  <2>1. at[k].column \in 1..4 /\ at'[k].column \in 1..4
    BY DEF MigrationType, PlaceType
  <2>2. CASE writer = k
    BY <2>1, <2>2 DEF WriterAhead, Column, TablesKept
  <2>3. CASE writer # k /\ writer # NoOne
    BY <2>3 DEF WriterAhead, Column, OthersStay, TablesKept, MigrationType
  <2> QED
    BY <2>2, <2>3 DEF WriterAhead, TablesKept
<1> QED
  BY <1>1, <1>2, <1>4, <1>5, <1>6, <1>7

(* An open that raises takes its transaction with it. *)
LEMMA AbandonKeeps ==
    ASSUME MigrationInv, NEW k \in Openers, Abandon(k), at[k].pc \in Busy,
           UNCHANGED <<rows, authentic>>, interrupts' \in Nat
    PROVE  MigrationInv'
<1>0. PlaceType /\ OthersStay(k) /\ at'[k].pc = "raised" /\ at'[k].column = at[k].column
  BY GotoEffect DEF Abandon, MigrationInv
<1>1. present' = present /\ signed' = signed
  BY DEF Abandon
<1>2. \/ writer' = NoOne /\ added' = {} /\ filled' = {} /\ writer \in {k, NoOne}
      \/ UNCHANGED <<writer, added, filled>> /\ writer # k /\ writer # NoOne
  BY NoOneIsNoOpener DEF Abandon, MigrationInv, WriterWorks
<1> USE DEF MigrationInv
<1>3. MigrationType'
  BY <1>0, <1>1, <1>2 DEF MigrationType, PlaceType
<1>4. SignedInOrder' /\ WriterWorks'
  BY <1>0, <1>1, <1>2 DEF SignedInOrder, WriterWorks, OthersStay, MigrationType
<1>5. \A l \in Openers : l # k => PresentTo(l)' = PresentTo(l) /\ SignedTo(l)' = SignedTo(l)
  BY <1>1, <1>2, NoOneIsNoOpener DEF PresentTo, SignedTo
<1>6. PassedIsDone'
  BY <1>0, <1>5 DEF PassedIsDone, OthersStay, Passed, Busy
<1>7. AtColumn'
  BY <1>0, <1>1, <1>2, <1>5, NoOneIsNoOpener DEF AtColumn, Column, OthersStay
<1>8. OneSigner'
  BY <1>0 DEF OneSigner, Column, OthersStay
<1>9. WriterAhead'
  BY <1>0, <1>2 DEF WriterAhead, Column, OthersStay, MigrationType
<1> QED
  BY <1>3, <1>4, <1>6, <1>7, <1>8, <1>9

(* The database is opened. *)
LEMMA OpenKeeps ==
    ASSUME MigrationInv, NEW k \in Openers, Open(k)
    PROVE  MigrationInv'
<1>1. /\ at[k].pc \in {"closed", "raised"} /\ TablesKept /\ interrupts' = interrupts
      /\ at' = [at EXCEPT ![k] = Place(1, "look")]
  BY DEF Open, TablesKept
<1>2. Place(1, "look") \in [column : 1..4, pc : Busy \cup {"closed", "open", "raised"}]
  BY DEF Place, Busy
<1>3. PlaceType /\ OthersStay(k) /\ at'[k].pc = "look" /\ at'[k].column = 1
  BY <1>1, <1>2 DEF MigrationInv, MigrationType, PlaceType, OthersStay, Place
<1>4. writer # k
  BY <1>1, NoOneIsNoOpener DEF MigrationInv, WriterWorks, Busy
<1>5. Passed(k)' = {}
  BY <1>3 DEF Passed
<1>6. interrupts' \in Nat
  BY <1>1 DEF MigrationInv, MigrationType
<1> QED
  BY <1>1, <1>3, <1>4, <1>5, <1>6, PlaceKeeps

(* An opener is through with a column that is present and, if it has rows, *)
(* signed.                                                                 *)
LEMMA ThroughKeeps ==
    ASSUME MigrationInv, NEW k \in Openers, NextColumn(k), TablesKept,
           interrupts' = interrupts, at[k].pc \in {"look", "scan"},
           Column(k) \in PresentTo(k), Column(k) \in rows => Column(k) \in SignedTo(k)
    PROVE  MigrationInv'
<1>1. /\ PlaceType /\ OthersStay(k)
      /\ \/ at[k].column = 4 /\ at'[k].column = 4 /\ at'[k].pc = "commit"
         \/ /\ at[k].column \in 1..3 /\ at'[k].column = at[k].column + 1
            /\ at'[k].pc = "look"
  BY NextColumnEffect DEF MigrationInv
<1>2. \A i \in Passed(k)' : i \in Passed(k) \/ i = at[k].column
  BY <1>1 DEF Passed
<1>3. \A i \in Passed(k)' : /\ Columns[i] \in PresentTo(k)
                            /\ Columns[i] \in rows => Columns[i] \in SignedTo(k)
  BY <1>2 DEF MigrationInv, PassedIsDone, Column, Busy
<1>4. interrupts' \in Nat
  BY DEF MigrationInv, MigrationType
<1> QED
  BY <1>1, <1>3, <1>4, PlaceKeeps DEF Busy

(* PRAGMA table_info. *)
LEMMA LookKeeps ==
    ASSUME MigrationInv, NEW k \in Openers, Look(k)
    PROVE  MigrationInv'
<1>1. at[k].pc = "look" /\ TablesKept /\ interrupts' = interrupts
  BY DEF Look, At, TablesKept
<1>2. CASE Column(k) \in PresentTo(k) /\ Column(k) = "outcome" /\ NextColumn(k)
  <2>1. Column(k) \notin rows
    BY <1>2, ColumnFacts DEF MigrationInv, MigrationType
  <2> QED
    BY <1>1, <1>2, <2>1, ThroughKeeps
<1>3. ASSUME NEW pc \in {"alter", "scan"}, Goto(k, pc),
             pc = "alter" => Column(k) \notin PresentTo(k),
             pc = "scan" => Column(k) \in PresentTo(k)
      PROVE  MigrationInv'
  <2>1. PlaceType /\ OthersStay(k) /\ at'[k].pc = pc /\ at'[k].column = at[k].column
    BY <1>3, GotoEffect DEF MigrationInv, Busy
  <2>2. \A i \in Passed(k)' : i \in Passed(k)
    BY <1>1, <2>1 DEF Passed
  <2>3. \A i \in Passed(k)' : /\ Columns[i] \in PresentTo(k)
                              /\ Columns[i] \in rows => Columns[i] \in SignedTo(k)
    BY <1>1, <2>2 DEF MigrationInv, PassedIsDone, Busy
  <2>4. interrupts' \in Nat /\ at[k].column \in 1..4
    BY <1>1 DEF MigrationInv, MigrationType
  <2>5. pc = "alter" /\ writer = k => Columns[at'[k].column] \notin present \cup added
    BY <1>3, <2>1 DEF PresentTo, Column
  <2>6. pc = "scan" => Columns[at'[k].column] \in PresentTo(k)
    BY <1>3, <2>1 DEF Column
  <2> QED
    BY <1>1, <2>1, <2>3, <2>4, <2>5, <2>6, PlaceKeeps DEF Busy
<1> QED
  BY <1>2, <1>3 DEF Look

(* The search for rows without a signature. *)
LEMMA ScanKeeps ==
    ASSUME MigrationInv, NEW k \in Openers, Scan(k)
    PROVE  MigrationInv'
<1>1. at[k].pc = "scan" /\ UNCHANGED <<rows, authentic, interrupts>>
  BY DEF Scan, At
<1>2. interrupts' \in Nat
  BY <1>1 DEF MigrationInv, MigrationType
<1>3. CASE Abandon(k)
  BY <1>1, <1>2, <1>3, AbandonKeeps DEF Busy
<1>4. CASE ~Unsigned(k) /\ NextColumn(k) /\ UNCHANGED <<present, signed, writer, added, filled>>
  <2>1. Column(k) \in rows => Column(k) \in SignedTo(k)
    BY <1>4 DEF Unsigned
  <2>2. Column(k) \in PresentTo(k)
    BY <1>1 DEF MigrationInv, AtColumn
  <2>3. TablesKept
    BY <1>1, <1>4 DEF TablesKept
  <2> QED
    BY <1>1, <1>4, <2>1, <2>2, <2>3, ThroughKeeps
<1> QED
  BY <1>3, <1>4 DEF Scan

(* The legacy rows are signed. *)
LEMMA SignKeeps ==
    ASSUME MigrationInv, NEW k \in Openers, Sign(k)
    PROVE  MigrationInv'
<1>1. at[k].pc = "sign" /\ UNCHANGED <<rows, authentic, interrupts>>
  BY DEF Sign, At
<1>2. interrupts' \in Nat /\ at[k].column \in 1..4 /\ Column(k) \in ColumnNames
  BY <1>1, ColumnFacts DEF MigrationInv, MigrationType, Column
<1>3. CASE Abandon(k)
  BY <1>1, <1>2, <1>3, AbandonKeeps DEF Busy
<1>4. ASSUME Goto(k, "scan") PROVE
        PlaceType /\ OthersStay(k) /\ at'[k].pc = "scan" /\ at'[k].column = at[k].column
  BY <1>4, GotoEffect DEF MigrationInv, Busy
<1>5. /\ Column(k) \in PresentTo(k) /\ Column(k) \notin signed \cup filled
      /\ \A i \in Passed(k) : /\ Columns[i] \in PresentTo(k)
                              /\ Columns[i] \in rows => Columns[i] \in SignedTo(k)
  BY <1>1 DEF MigrationInv, AtColumn, PassedIsDone, Busy
<1>6. CASE /\ Column(k) \notin rows /\ Goto(k, "scan")
           /\ UNCHANGED <<present, signed, writer, added, filled>>
  <2>1. \A i \in Passed(k)' : i \in Passed(k)
    BY <1>1, <1>4, <1>6 DEF Passed
  <2>2. TablesKept
    BY <1>1, <1>6 DEF TablesKept
  <2>3. Columns[at'[k].column] \in PresentTo(k)
    BY <1>4, <1>5, <1>6 DEF Column
  <2> QED
    BY <1>1, <1>2, <1>4, <1>5, <1>6, <2>1, <2>2, <2>3, PlaceKeeps DEF Busy
<1>7. CASE /\ Column(k) \in rows /\ writer \in {k, NoOne} /\ writer' = k
           /\ filled' = filled \cup {Column(k)} /\ Goto(k, "scan")
           /\ UNCHANGED <<present, signed, added>>
  <2>0. PlaceType /\ OthersStay(k) /\ at'[k].pc = "scan" /\ at'[k].column = at[k].column
    BY <1>4, <1>7
  <2>1. writer = NoOne => added = {} /\ filled = {}
    BY DEF MigrationInv, WriterWorks
  <2>2. Column(k) \in Signatures /\ Column(k) \in present \cup added
    BY <1>5, <1>7 DEF MigrationInv, MigrationType, PresentTo
  <2> USE DEF MigrationInv
  <2>3. MigrationType'
    BY <1>1, <1>2, <1>7, <2>0, <2>2 DEF MigrationType, PlaceType
  <2>4. SignedInOrder' /\ WriterWorks'
    BY <1>1, <1>5, <1>7, <2>0, <2>2, NoOneIsNoOpener DEF SignedInOrder, WriterWorks, Busy
  <2>5. /\ \A l \in Openers : l # k => PresentTo(l)' = PresentTo(l) /\ SignedTo(l)' = SignedTo(l)
        /\ PresentTo(k)' = PresentTo(k) /\ SignedTo(k) \subseteq SignedTo(k)'
    BY <1>7, <2>1, NoOneIsNoOpener DEF PresentTo, SignedTo
  <2>6. PassedIsDone'
    <3> SUFFICES ASSUME NEW l \in Openers, at'[l].pc \in Busy \cup {"open"},
                        NEW i \in Passed(l)'
                 PROVE  /\ Columns[i] \in PresentTo(l)'
                        /\ Columns[i] \in rows' => Columns[i] \in SignedTo(l)'
      BY DEF PassedIsDone
    <3>1. CASE l = k
      <4>1. i \in Passed(k)
        BY <1>1, <2>0, <3>1 DEF Passed
      <4> QED
        BY <1>1, <1>5, <2>5, <3>1, <4>1 DEF PresentTo, SignedTo
    <3>2. CASE l # k
      BY <1>1, <2>0, <2>5, <3>2 DEF PassedIsDone, OthersStay, Passed
    <3> QED
      BY <3>1, <3>2
  <2>7. \A l \in Openers : l # k /\ at[l].pc = "sign" => Column(l) # Column(k)
    BY <1>1 DEF OneSigner
  <2>8. AtColumn'
    <3> SUFFICES ASSUME NEW l \in Openers
                 PROVE  /\ at'[l].pc \in {"sign", "scan"} => Column(l)' \in PresentTo(l)'
                        /\ at'[l].pc = "sign" => Column(l)' \notin signed' \cup filled'
                        /\ at'[l].pc = "alter" /\ writer' = l
                             => Column(l)' \notin present' \cup added'
      BY DEF AtColumn
    <3>1. CASE l = k
      BY <1>5, <2>0, <2>5, <3>1 DEF Column
    <3>2. CASE l # k
      BY <1>7, <2>0, <2>5, <2>7, <3>2 DEF AtColumn, Column, OthersStay
    <3> QED
      BY <3>1, <3>2
  <2>9. OneSigner'
    BY <2>0 DEF OneSigner, Column, OthersStay
  <2>10. WriterAhead'
    <3>1. \A i \in 1..4 : Columns[i] \in filled' =>
            i < at[k].column \/ i = at[k].column
      BY <1>1, <1>2, <1>7, <2>1, ColumnFacts, NoOneIsNoOpener DEF WriterAhead, Column
    <3>2. \A c \in added \cap rows : c \in filled'
      BY <1>7, <2>1, NoOneIsNoOpener DEF WriterAhead
    <3> QED
      BY <1>1, <1>7, <2>0, <3>1, <3>2 DEF WriterAhead
  <2> QED
    BY <2>3, <2>4, <2>6, <2>8, <2>9, <2>10
<1> QED
  BY <1>3, <1>6, <1>7 DEF Sign

(* A column is added, in the opener's transaction or at once. *)
LEMMA AddKeeps ==
    ASSUME MigrationInv, NEW k \in Openers, at[k].pc = "alter", writer \in {k, NoOne},
           Column(k) \notin PresentTo(k),
           \/ writer = k /\ added' = added \cup {Column(k)} /\ present' = present
           \/ writer # k /\ present' = present \cup {Column(k)} /\ added' = added,
           PlaceType, OthersStay(k),
           \/ at'[k].pc = "sign" /\ at'[k].column = at[k].column
           \/ at[k].column = 1 /\ at'[k].pc = "look" /\ at'[k].column = 2,
           UNCHANGED <<signed, writer, filled, rows, authentic, interrupts>>
    PROVE  MigrationInv'
<1> USE DEF MigrationInv
<1>1. at[k].column \in 1..4 /\ Column(k) \in ColumnNames
  BY ColumnFacts DEF MigrationType, Column
<1>2. writer = NoOne => added = {} /\ filled = {}
  BY DEF WriterWorks
<1>3. Column(k) \notin present \cup added
  BY <1>2, NoOneIsNoOpener DEF PresentTo
<1>4. MigrationType'
  BY <1>1 DEF MigrationType, PlaceType
<1>5. SignedInOrder'
  BY DEF SignedInOrder
<1>6. WriterWorks'
  BY <1>2, NoOneIsNoOpener DEF WriterWorks, Busy
<1>7. /\ PresentTo(k)' = PresentTo(k) \cup {Column(k)}
      /\ \A l \in Openers : PresentTo(l) \subseteq PresentTo(l)' /\ SignedTo(l)' = SignedTo(l)
  BY NoOneIsNoOpener DEF PresentTo, SignedTo
<1>8. PassedIsDone'
  <2>1. \A i \in Passed(k)' : i \in Passed(k) \/ (i = 1 /\ at[k].column = 1)
    BY <1>1 DEF Passed
  <2>2. \A i \in Passed(k)' : /\ Columns[i] \in PresentTo(k)'
                              /\ Columns[i] \in rows => Columns[i] \in SignedTo(k)'
    BY <1>7, <2>1, ColumnFacts DEF PassedIsDone, Busy, Column, MigrationType
  <2> SUFFICES ASSUME NEW l \in Openers, at'[l].pc \in Busy \cup {"open"}, NEW i \in Passed(l)'
               PROVE  /\ Columns[i] \in PresentTo(l)'
                      /\ Columns[i] \in rows => Columns[i] \in SignedTo(l)'
    BY DEF PassedIsDone
  <2>3. CASE l = k
    BY <2>2, <2>3 DEF Passed, PresentTo, SignedTo
  <2>4. CASE l # k
    BY <1>7, <2>4 DEF PassedIsDone, OthersStay, Passed
  <2> QED
    BY <2>3, <2>4
<1>9. AtColumn'
  <2>1. Column(k) \notin signed \cup filled
    BY <1>3 DEF SignedInOrder
  <2> SUFFICES ASSUME NEW l \in Openers
               PROVE  /\ at'[l].pc \in {"sign", "scan"} => Column(l)' \in PresentTo(l)'
                      /\ at'[l].pc = "sign" => Column(l)' \notin signed' \cup filled'
                      /\ at'[l].pc = "alter" /\ writer' = l
                           => Column(l)' \notin present' \cup added'
    BY DEF AtColumn
  <2>2. CASE l = k
    BY <1>7, <2>1, <2>2 DEF Column
  <2>3. CASE l # k
    BY <1>7, <2>3, NoOneIsNoOpener DEF AtColumn, Column, OthersStay
  <2> QED
    BY <2>2, <2>3
<1>10. OneSigner'
  <2>1. \A l \in Openers : l # k /\ at[l].pc = "sign" => Column(l) # Column(k)
    BY <1>3, NoOneIsNoOpener DEF AtColumn, PresentTo
  <2> QED
    BY <2>1 DEF OneSigner, Column, OthersStay
<1>11. WriterAhead'
  <2>1. CASE writer = k
    <3>1. \A i \in 1..4 : Columns[i] \in filled => i < at[k].column
      BY <2>1, NoOneIsNoOpener DEF WriterAhead
    <3>2. \A i \in 1..4 : Columns[i] \in filled => i < at'[k].column
      BY <1>1, <3>1
    <3>3. \A c \in added \cap rows : c \in filled
      BY <2>1, NoOneIsNoOpener DEF WriterAhead
    <3>4. at'[k].pc # "sign" => Column(k) \notin rows
      BY ColumnFacts DEF Column, MigrationType
    <3> QED
      BY <2>1, <3>2, <3>3, <3>4 DEF WriterAhead, Column
  <2> QED
    BY <2>1 DEF WriterAhead
<1> QED
  BY <1>4, <1>5, <1>6, <1>8, <1>9, <1>10, <1>11

(* ALTER TABLE. *)
LEMMA AlterKeeps ==
    ASSUME MigrationInv, NEW k \in Openers, Alter(k)
    PROVE  MigrationInv'
<1>1. /\ at[k].pc = "alter" /\ writer \in {k, NoOne}
      /\ UNCHANGED <<rows, authentic, interrupts>> /\ interrupts' \in Nat
  BY DEF Alter, At, MigrationInv, MigrationType
<1>2. CASE Abandon(k)
  BY <1>1, <1>2, AbandonKeeps DEF Busy
<1>3. CASE /\ Column(k) \notin PresentTo(k)
           /\ IF writer = k
              THEN added' = added \cup {Column(k)} /\ UNCHANGED present
              ELSE present' = present \cup {Column(k)} /\ UNCHANGED added
           /\ IF Column(k) = "outcome" THEN NextColumn(k) ELSE Goto(k, "sign")
           /\ UNCHANGED <<signed, writer, filled>>
  <2>1. CASE Column(k) = "outcome"
    <3>1. at[k].column = 1
      BY <2>1, ColumnFacts DEF Column, MigrationInv, MigrationType
    <3>2. PlaceType /\ OthersStay(k) /\ at'[k].pc = "look" /\ at'[k].column = 2
      BY <1>3, <2>1, <3>1, NextColumnEffect DEF MigrationInv
    <3> QED
      BY <1>1, <1>3, <3>1, <3>2, AddKeeps
  <2>2. CASE Column(k) # "outcome"
    <3>1. PlaceType /\ OthersStay(k) /\ at'[k].pc = "sign" /\ at'[k].column = at[k].column
      BY <1>3, <2>2, GotoEffect DEF MigrationInv, Busy
    <3> QED
      BY <1>1, <1>3, <3>1, AddKeeps
  <2> QED
    BY <2>1, <2>2
<1> QED
  BY <1>2, <1>3 DEF Alter

(* The end of the with block. *)
LEMMA CommitKeeps ==
    ASSUME MigrationInv, NEW k \in Openers, Commit(k)
    PROVE  MigrationInv'
<1>1. /\ at[k].pc = "commit" /\ UNCHANGED <<rows, authentic, interrupts>>
      /\ present' = PresentTo(k) /\ signed' = SignedTo(k)
  BY DEF Commit, At
<1>2. PlaceType /\ OthersStay(k) /\ at'[k].pc = "open" /\ at'[k].column = at[k].column
  BY GotoEffect DEF Commit, MigrationInv
<1>3. \/ /\ writer = k /\ writer' = NoOne /\ added' = {} /\ filled' = {}
         /\ present' = present \cup added /\ signed' = signed \cup filled
      \/ /\ writer # k /\ UNCHANGED <<writer, added, filled>>
         /\ present' = present /\ signed' = signed
  BY DEF Commit, PresentTo, SignedTo
<1> USE DEF MigrationInv
<1>4. MigrationType'
  BY <1>1, <1>2, <1>3, ColumnFacts DEF MigrationType, PlaceType
<1>5. SignedInOrder' /\ WriterWorks'
  BY <1>1, <1>2, <1>3, NoOneIsNoOpener
     DEF SignedInOrder, WriterWorks, OthersStay, MigrationType
<1>6. \A l \in Openers : PresentTo(l) \subseteq PresentTo(l)' /\ SignedTo(l) \subseteq SignedTo(l)'
  BY <1>3, NoOneIsNoOpener DEF PresentTo, SignedTo
<1>7. PassedIsDone'
  <2>1. \A i \in Passed(k)' : i \in Passed(k)
    BY <1>1, <1>2 DEF Passed
  <2>2. \A i \in Passed(k)' : /\ Columns[i] \in PresentTo(k)'
                              /\ Columns[i] \in rows => Columns[i] \in SignedTo(k)'
    BY <1>1, <1>6, <2>1 DEF PassedIsDone, Busy
  <2> SUFFICES ASSUME NEW l \in Openers, at'[l].pc \in Busy \cup {"open"}, NEW i \in Passed(l)'
               PROVE  /\ Columns[i] \in PresentTo(l)'
                      /\ Columns[i] \in rows => Columns[i] \in SignedTo(l)'
    BY <1>1 DEF PassedIsDone
  <2>3. CASE l = k
    BY <2>2, <2>3 DEF Passed, PresentTo, SignedTo
  <2>4. CASE l # k
    BY <1>2, <1>6, <2>4 DEF PassedIsDone, OthersStay, Passed
  <2> QED
    BY <2>3, <2>4
<1>8. AtColumn'
  BY <1>2, <1>3, <1>6, NoOneIsNoOpener DEF AtColumn, Column, OthersStay
<1>9. OneSigner'
  BY <1>2 DEF OneSigner, Column, OthersStay
<1>10. WriterAhead'
  BY <1>1, <1>2, <1>3 DEF WriterAhead, Column, OthersStay, MigrationType
<1> QED
  BY <1>4, <1>5, <1>7, <1>8, <1>9, <1>10

(* Every step keeps the invariant. *)
LEMMA NextMigration == MigrationInv /\ [MigrationNext]_migrationVars => MigrationInv'
<1> SUFFICES ASSUME MigrationInv, [MigrationNext]_migrationVars PROVE MigrationInv'
  OBVIOUS
<1>1. ASSUME NEW k \in Openers, Interrupt(k) PROVE MigrationInv'
  <2>1. interrupts' \in Nat
    BY <1>1 DEF Interrupt, MigrationInv, MigrationType
  <2> QED
    BY <1>1, <2>1, AbandonKeeps DEF Interrupt, Busy
<1>2. CASE UNCHANGED migrationVars
  BY <1>2 DEF migrationVars, MigrationInv, MigrationType, SignedInOrder, WriterWorks,
              PassedIsDone, AtColumn, OneSigner, WriterAhead, Passed, PresentTo, SignedTo,
              Column
<1> QED
  BY <1>1, <1>2, OpenKeeps, LookKeeps, AlterKeeps, SignKeeps, ScanKeeps, CommitKeeps
     DEF MigrationNext

(* It holds of every database an earlier release can have left. *)
LEMMA InitMigration == MigrationInit => MigrationInv
<1> SUFFICES ASSUME MigrationInit PROVE MigrationInv
  OBVIOUS
<1>1. \A k \in Openers : at[k].column = 1 /\ at[k].pc = "closed"
  BY DEF MigrationInit, Place
<1>2. at \in [Openers -> [column : 1..4, pc : Busy \cup {"closed", "open", "raised"}]]
  BY DEF MigrationInit, Place
<1>3. MigrationType
  BY <1>2 DEF MigrationInit, MigrationType
<1>4. SignedInOrder /\ WriterWorks /\ WriterAhead
  BY DEF MigrationInit, SignedInOrder, WriterWorks, WriterAhead
<1>5. PassedIsDone /\ AtColumn /\ OneSigner
  BY <1>1 DEF PassedIsDone, AtColumn, OneSigner, Busy
<1> QED
  BY <1>3, <1>4, <1>5 DEF MigrationInv

(***************************************************************************)
(* However many processes open a legacy database, in whatever order their  *)
(* statements interleave and wherever they are cut short, whoever has an   *)
(* open store has every column and no unsigned row.                        *)
(***************************************************************************)
THEOREM OpenStoreIsAuthenticated == MigrationSpec => []OpenIsAuthenticated
<1>1. MigrationInv => OpenIsAuthenticated
  <2> SUFFICES ASSUME MigrationInv, NEW k \in Openers, at[k].pc = "open"
               PROVE  present = ColumnNames /\ rows \subseteq signed
    BY DEF OpenIsAuthenticated, At
  <2>1. writer # k
    BY NoOneIsNoOpener DEF MigrationInv, WriterWorks, Busy
  <2>2. \A i \in 1..4 : /\ Columns[i] \in present
                        /\ Columns[i] \in rows => Columns[i] \in signed
    BY <2>1 DEF MigrationInv, PassedIsDone, Passed, PresentTo, SignedTo
  <2> QED
    BY <2>2, ColumnFacts DEF MigrationInv, MigrationType
<1> QED
  BY <1>1, InitMigration, NextMigration, PTL DEF MigrationSpec

-----------------------------------------------------------------------------
(* Races *)

(* Opener k will sign column c, or has done so in its transaction. *)
Holds(k, c) ==
    \/ writer = k /\ c \in filled /\ at[k].pc \in Busy
    \/ Column(k) = c /\ at[k].pc = "sign"

Held == \A c \in rows \cap present : c \notin signed => \E k \in Openers : Holds(k, c)

(* Usable, in the terms of the invariant. *)
LEMMA UsableIsHeld == Usable <=> Held
BY DEF Usable, Migrating, At, Busy, Holds, Held

(* A step that writes no table and leaves neither a transaction nor a      *)
(* column it has to sign.                                                  *)
LEMMA PlaceHolds ==
    ASSUME MigrationInv, Held, NEW k \in Openers, OthersStay(k), TablesKept,
           writer = k => at'[k].pc \in Busy,
           at[k].pc = "sign" => Column(k) \notin rows
    PROVE  Held'
<1> SUFFICES ASSUME NEW c \in rows \cap present, c \notin signed
             PROVE  \E l \in Openers : Holds(l, c)'
  BY DEF Held, TablesKept
<1>1. PICK l \in Openers : Holds(l, c)
  BY DEF Held
<1> QED
  BY <1>1 DEF Holds, OthersStay, TablesKept, Column

(* An open that raises, not being the holder of an unsigned column. *)
LEMMA AbandonHolds ==
    ASSUME MigrationInv, Held, NEW k \in Openers, Abandon(k), rows' = rows,
           at[k].pc # "sign", writer = k => filled = {}
    PROVE  Held'
<1>1. OthersStay(k)
  BY GotoEffect DEF Abandon, MigrationInv
<1>2. present' = present /\ signed' = signed
  BY DEF Abandon
<1> SUFFICES ASSUME NEW c \in rows \cap present, c \notin signed
             PROVE  \E l \in Openers : Holds(l, c)'
  BY <1>2 DEF Held
<1>3. PICK l \in Openers : Holds(l, c)
  BY DEF Held
<1>4. l # k
  BY <1>3 DEF Holds
<1>5. writer = l => UNCHANGED <<writer, filled>>
  BY <1>4 DEF Abandon
<1> QED
  BY <1>1, <1>3, <1>4, <1>5 DEF Holds, OthersStay, Column

(***************************************************************************)
(* The search finds an unsigned row of a column that another opener is     *)
(* about to sign.  Then the searcher has signed nothing: what it had       *)
(* signed before, the other would have had to pass first.                  *)
(***************************************************************************)
LEMMA FinderHasSignedNothing ==
    ASSUME MigrationInv, Held, NEW k \in Openers, at[k].pc = "scan", Unsigned(k),
           writer = k
    PROVE  filled = {}
<1> SUFFICES ASSUME NEW c \in filled PROVE FALSE
  OBVIOUS
<1> USE DEF MigrationInv
<1> DEFINE d == Column(k)
<1>1. d \in rows /\ d \notin signed /\ d \notin filled /\ d \in present \cup added
  BY DEF Unsigned, SignedTo, AtColumn, PresentTo
<1>2. d \in present
  BY <1>1, NoOneIsNoOpener DEF WriterAhead
<1>3. PICK l \in Openers : Holds(l, d)
  BY <1>1, <1>2 DEF Held
<1>4. at[l].pc = "sign" /\ Column(l) = d /\ l # k
  BY <1>1, <1>3 DEF Holds
<1>5. at[l].column = at[k].column /\ at[k].column \in 1..4
  BY <1>4, ColumnFacts DEF Column, MigrationType
<1>6. PICK i \in 1..4 : c = Columns[i]
  BY ColumnFacts DEF MigrationType
<1>7. i < at[k].column
  BY <1>1, <1>6, NoOneIsNoOpener DEF WriterAhead, Column
<1>8. i \in Passed(l)
  BY <1>4, <1>5, <1>6, <1>7 DEF Passed
<1>9. c \in rows => c \in signed
  BY <1>4, <1>6, <1>8 DEF PassedIsDone, SignedTo, Busy
<1> QED
  BY <1>9 DEF SignedInOrder

(* Every step of a race keeps the store usable. *)
LEMMA NextHolds ==
    ASSUME MigrationInv, Held, authentic, interrupts' = interrupts,
           [MigrationNext]_migrationVars
    PROVE  Held'
<1>1. CASE UNCHANGED migrationVars
  BY <1>1 DEF migrationVars, Held, Holds, Column
<1>2. ASSUME NEW k \in Openers, Open(k) PROVE Held'
  <2>1. OthersStay(k) /\ TablesKept /\ at[k].pc \in {"closed", "raised"}
    BY <1>2 DEF Open, OthersStay, TablesKept, MigrationInv, MigrationType
  <2>2. writer # k
    BY <2>1, NoOneIsNoOpener DEF MigrationInv, WriterWorks, Busy
  <2> QED
    BY <2>1, <2>2, PlaceHolds
<1>3. ASSUME NEW k \in Openers, Look(k) PROVE Held'
  <2>1. TablesKept /\ at[k].pc = "look"
    BY <1>3 DEF Look, At, TablesKept
  <2>2. OthersStay(k) /\ at'[k].pc \in Busy
    BY <1>3, GotoEffect, NextColumnEffect DEF Look, MigrationInv, Busy
  <2> QED
    BY <2>1, <2>2, PlaceHolds
<1>4. ASSUME NEW k \in Openers, Scan(k) PROVE Held'
  <2>1. at[k].pc = "scan" /\ rows' = rows /\ authentic' = authentic
    BY <1>4 DEF Scan, At
  <2>2. CASE Unsigned(k) /\ Abandon(k)
    BY <2>1, <2>2, FinderHasSignedNothing, AbandonHolds
  <2>3. CASE NextColumn(k) /\ UNCHANGED <<present, signed, writer, added, filled>>
    <3>1. OthersStay(k) /\ at'[k].pc \in Busy
      BY <2>3, NextColumnEffect DEF MigrationInv, Busy
    <3>2. TablesKept
      BY <2>1, <2>3 DEF TablesKept
    <3> QED
      BY <2>1, <3>1, <3>2, PlaceHolds
  <2> QED
    BY <1>4, <2>2, <2>3 DEF Scan
<1>5. ASSUME NEW k \in Openers, Alter(k) PROVE Held'
  <2>1. at[k].pc = "alter" /\ rows' = rows /\ authentic' = authentic
    BY <1>5 DEF Alter, At
  <2>2. CASE Column(k) \in PresentTo(k) /\ Abandon(k)
    <3>1. writer # k
      BY <2>1, <2>2 DEF MigrationInv, AtColumn, PresentTo
    <3> QED
      BY <2>1, <2>2, <3>1, AbandonHolds
  <2>3. CASE /\ IF writer = k
                THEN added' = added \cup {Column(k)} /\ UNCHANGED present
                ELSE present' = present \cup {Column(k)} /\ UNCHANGED added
             /\ IF Column(k) = "outcome" THEN NextColumn(k) ELSE Goto(k, "sign")
             /\ UNCHANGED <<signed, writer, filled>>
    <3>1. OthersStay(k) /\ at'[k].pc \in Busy
      BY <2>3, GotoEffect, NextColumnEffect DEF MigrationInv, Busy
    <3>2. Column(k) \in rows => at'[k].pc = "sign" /\ Column(k)' = Column(k)
      <4>1. Column(k) \in rows => Column(k) # "outcome"
        BY ColumnFacts DEF MigrationInv, MigrationType
      <4> QED
        BY <2>3, <4>1, GotoEffect DEF MigrationInv, Busy, Column
    <3> SUFFICES ASSUME NEW c \in rows \cap present', c \notin signed
                 PROVE  \E l \in Openers : Holds(l, c)'
      BY <2>1, <2>3 DEF Held
    <3>3. CASE c = Column(k)
      BY <3>2, <3>3 DEF Holds
    <3>4. CASE c \in present
      <4>1. PICK l \in Openers : Holds(l, c)
        BY <3>4 DEF Held
      <4> QED
        BY <2>1, <2>3, <3>1, <4>1 DEF Holds, OthersStay, Column
    <3> QED
      BY <2>3, <3>3, <3>4
  <2> QED
    BY <1>5, <2>2, <2>3 DEF Alter
<1>6. ASSUME NEW k \in Openers, Sign(k) PROVE Held'
  <2>1. at[k].pc = "sign" /\ rows' = rows /\ authentic' = authentic
    BY <1>6 DEF Sign, At
  <2>2. CASE /\ Column(k) \notin rows /\ Goto(k, "scan")
             /\ UNCHANGED <<present, signed, writer, added, filled>>
    <3>1. OthersStay(k) /\ at'[k].pc \in Busy
      BY <2>2, GotoEffect DEF MigrationInv, Busy
    <3>2. TablesKept
      BY <2>1, <2>2 DEF TablesKept
    <3> QED
      BY <2>2, <3>1, <3>2, PlaceHolds
  <2>3. CASE /\ writer \in {k, NoOne} /\ writer' = k
             /\ filled' = filled \cup {Column(k)} /\ Goto(k, "scan")
             /\ UNCHANGED <<present, signed, added>>
    <3>1. OthersStay(k) /\ at'[k].pc \in Busy
      BY <2>3, GotoEffect DEF MigrationInv, Busy
    <3> SUFFICES ASSUME NEW c \in rows \cap present, c \notin signed
                 PROVE  \E l \in Openers : Holds(l, c)'
      BY <2>1, <2>3 DEF Held
    <3>2. PICK l \in Openers : Holds(l, c)
      BY DEF Held
    <3>3. CASE l = k
      <4>1. c \in filled'
        BY <2>3, <3>2, <3>3 DEF Holds
      <4> QED
        BY <2>3, <3>1, <4>1 DEF Holds
    <3>4. CASE l # k
      BY <2>3, <3>1, <3>2, <3>4, NoOneIsNoOpener DEF Holds, OthersStay, Column
    <3> QED
      BY <3>3, <3>4
  <2> QED
    BY <1>6, <2>2, <2>3 DEF Sign
<1>7. ASSUME NEW k \in Openers, Commit(k) PROVE Held'
  <2>1. at[k].pc = "commit" /\ rows' = rows /\ signed' = SignedTo(k)
    BY <1>7 DEF Commit, At
  <2>2. \A i \in 1..4 : Columns[i] \in rows => Columns[i] \in signed'
    BY <2>1 DEF MigrationInv, PassedIsDone, Passed, Busy
  <2> QED
    BY <2>1, <2>2, ColumnFacts DEF Held, MigrationInv, MigrationType
<1>8. ASSUME NEW k \in Openers, Interrupt(k) PROVE FALSE
  BY <1>8 DEF Interrupt, MigrationInv, MigrationType
<1> QED
  BY <1>1, <1>2, <1>3, <1>4, <1>5, <1>6, <1>7, <1>8 DEF MigrationNext

(* The bound on interrupts is one-way, and authenticity is fixed. *)
LEMMA RaceIsOld ==
    ASSUME MigrationInv, [MigrationNext]_migrationVars, authentic', interrupts' = 0
    PROVE  authentic /\ interrupts = 0 /\ interrupts' = interrupts
<1>1. interrupts \in Nat
  BY DEF MigrationInv, MigrationType
<1>2. authentic' = authentic /\ interrupts' \in {interrupts, interrupts + 1}
  BY DEF MigrationNext, Open, Look, Alter, Sign, Scan, Commit, Interrupt, migrationVars
<1> QED
  BY <1>1, <1>2

(***************************************************************************)
(* Any number of opens that race for the migration of an authentic legacy  *)
(* database leave no column present, unsigned and unclaimed, which every   *)
(* later open would raise on: who has lost a race raises before it has     *)
(* signed anything of its own.                                             *)
(***************************************************************************)
THEOREM RacingOpensLeaveStoreUsable == MigrationSpec => []RacesLeaveStoreUsable
<1>1. MigrationInit => RacesLeaveStoreUsable
  BY DEF MigrationInit, RacesLeaveStoreUsable, Usable
<1>2. /\ MigrationInv /\ RacesLeaveStoreUsable /\ [MigrationNext]_migrationVars
      => RacesLeaveStoreUsable'
  <2> SUFFICES ASSUME MigrationInv, RacesLeaveStoreUsable, [MigrationNext]_migrationVars,
                      authentic', interrupts' = 0
               PROVE  Usable'
    BY DEF RacesLeaveStoreUsable
  <2>1. Held'
    BY RaceIsOld, NextHolds, UsableIsHeld DEF RacesLeaveStoreUsable
  <2>2. Usable' <=> Held'
    BY UsableIsHeld, PTL
  <2> QED
    BY <2>1, <2>2
<1> QED
  BY <1>1, <1>2, InitMigration, NextMigration, PTL DEF MigrationSpec
=============================================================================
