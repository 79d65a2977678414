----------------------------- MODULE RunLedger -----------------------------
(***************************************************************************)
(* run_once (experiments/run.py) and the append-only RunStore              *)
(* (experiments/models.py), called by several worker processes for one     *)
(* run id.  The adapter that run_once is given delegates to                *)
(* ProcessAgentAdapter.run, the module AgentProcess.                       *)
(***************************************************************************)
EXTENDS AgentProcess, Sequences, FiniteSets

CONSTANTS
    None,
    MaxCalls,    \* bound: calls of run_once
    MaxFaults    \* bound: writes that fail and workers that die

VARIABLES
    call,        \* what each worker keeps of its run_once
    raw,         \* None, or what the raw event file holds
    ledger,      \* the lines of the run store; a torn line is None
    unsettled,   \* history: bytes compared with a file that was still growing
    answers,     \* what calls of run_once returned
    calls,
    faults

ledgerVars == <<call, raw, unsettled, ledger, answers, calls, faults>>
vars == <<proc, ledgerVars>>

(* What a raw file holds, and what a record says of it. *)
Bytes == (Variants \cup {"none"}) \X Nat
Record == [stdout : Bytes, counts : BOOLEAN, failure : BOOLEAN]

ASSUME NoneIsNoRecord == None \notin Bytes /\ None \notin Record

Nothing == <<"none", 0>>
NoCall == [pc |-> "idle", record |-> None]

Init ==
    /\ ProcInit
    /\ call = [ w \in Workers |-> NoCall ]
    /\ raw = None /\ unsettled = {} /\ ledger = <<>> /\ answers = {}
    /\ calls = 0 /\ faults = 0

At(w, pc) == call[w].pc = pc
Goes(w, pc) == call' = [call EXCEPT ![w].pc = pc]
Ends(w) == call' = [call EXCEPT ![w].pc = "idle", ![w].record = None]
Fault == faults < MaxFaults /\ faults' = faults + 1

-----------------------------------------------------------------------------
(* _load refuses a torn line and a second line of one run.                 *)
Lines == { i \in 1 .. Len(ledger) : ledger[i] # None }
Loads == Lines = 1 .. Len(ledger) /\ Cardinality(Lines) <= 1
Existing == IF Lines = {} THEN None ELSE ledger[CHOOSE i \in Lines : TRUE]

(* RunStore is opened and asked; a known run is answered without a child. *)
Begin(w) ==
    /\ At(w, "idle") /\ calls < MaxCalls
    /\ calls' = calls + 1
    /\ \/ Loads /\ Existing = None /\ Goes(w, "adapter") /\ UNCHANGED answers
       \/ Loads /\ Existing # None /\ answers' = answers \cup {Existing} /\ UNCHANGED call
       \/ ~Loads /\ UNCHANGED <<call, answers>>
    /\ UNCHANGED <<proc, raw, unsettled, ledger, faults>>

(* The steps of the adapter. *)
AdapterRuns(w) ==
    /\ At(w, "adapter")
    /\ MainStep(w)
    /\ UNCHANGED ledgerVars

AdapterFails(w) ==
    /\ At(w, "adapter")
    /\ LaunchFails(w) \/ StartReadersFails(w) \/ DeadlineSeen(w)
    /\ UNCHANGED ledgerVars

(* The observation: counts must be of the bytes that will be kept, which   *)
(* is not so once stdout was cut; an adapter that fails leaves no bytes.   *)
Observe(w) ==
    LET out == Output(proc[w])
    IN  /\ At(w, "adapter") /\ proc[w].main = "done"
        /\ IF out.counts /\ out.digest # out.stdout
           THEN Ends(w)
           ELSE call' = [call EXCEPT ![w].pc = "raw",
                                     ![w].record = [ stdout |-> out.stdout, counts |-> out.counts,
                                                     failure |-> ~out.ok ]]
        /\ Set(w, NoChild)
        /\ UNCHANGED <<raw, unsettled, ledger, answers, calls, faults>>

-----------------------------------------------------------------------------
(* _write_raw: an existing file must hold the same bytes; a new one is     *)
(* created exclusively, then written, and read by others while it grows.   *)
Data(w) == call[w].record.stdout
Size(bytes) == bytes[2]

(* Bytes of one variant begin alike, and nothing begins them all. *)
Begins(part, bytes) == part = Nothing \/ (part[1] = bytes[1] /\ Size(part) <= Size(bytes))

Growing == \E u \in Workers : At(u, "write") /\ raw # Data(u)

(* Mutant: a file that exists is taken to be the one of this run. *)
FindRawAny(w) ==
    /\ At(w, "raw")
    /\ Goes(w, IF raw = None THEN "create" ELSE "append")
    /\ UNCHANGED <<proc, raw, unsettled, ledger, answers, calls, faults>>

FindRaw(w) ==
    /\ At(w, "raw")
    /\ IF raw # None /\ raw # Data(w) THEN Ends(w)
       ELSE Goes(w, IF raw = None THEN "create" ELSE "append")
    /\ unsettled' = IF raw = Data(w) /\ Growing THEN unsettled \cup {raw} ELSE unsettled
    /\ UNCHANGED <<proc, raw, ledger, answers, calls, faults>>

CreateRaw(w) ==
    /\ At(w, "create")
    /\ IF raw # None THEN Ends(w) /\ UNCHANGED raw
       ELSE Goes(w, "write") /\ raw' = Nothing
    /\ UNCHANGED <<proc, unsettled, ledger, answers, calls, faults>>

WriteRaw(w) ==
    /\ At(w, "write")
    /\ IF Size(raw) < Size(Data(w))
       THEN raw' = <<Data(w)[1], Size(raw) + 1>> /\ UNCHANGED call
       ELSE Goes(w, "append") /\ UNCHANGED raw
    /\ UNCHANGED <<proc, unsettled, ledger, answers, calls, faults>>

WriteRawFails(w) ==
    /\ At(w, "write") /\ Fault
    /\ Ends(w)
    /\ UNCHANGED <<proc, raw, unsettled, ledger, answers, calls>>

-----------------------------------------------------------------------------
(* append: under the lock the store is read again.  Two records of one run *)
(* are equal when they also carry the same seconds.                        *)
AppendLine(w, line) ==
    /\ ledger' = Append(ledger, line)
    /\ IF line = None THEN UNCHANGED answers ELSE answers' = answers \cup {line}
    /\ Ends(w)

(* Mutant: what was loaded when the store was opened is still believed. *)
AppendStale(w) ==
    /\ At(w, "append")
    /\ AppendLine(w, call[w].record)
    /\ UNCHANGED <<proc, raw, unsettled, calls, faults>>

AppendRecord(w) ==
    /\ At(w, "append")
    /\ \/ Loads /\ Existing = None /\ AppendLine(w, call[w].record)
       \/ /\ Loads /\ Existing = call[w].record
          /\ answers' = answers \cup {Existing}
          /\ Ends(w) /\ UNCHANGED ledger
       \/ (~Loads \/ Existing # None) /\ Ends(w) /\ UNCHANGED <<ledger, answers>>
    /\ UNCHANGED <<proc, raw, unsettled, calls, faults>>

(* The line is written in part, by a full disk or a worker that dies. *)
AppendTears(w) ==
    /\ At(w, "append") /\ Loads /\ Existing = None /\ Fault
    /\ AppendLine(w, None)
    /\ UNCHANGED <<proc, raw, unsettled, calls>>

(* A worker dies; its child goes with it or runs on unseen. *)
Dies(w) ==
    /\ ~At(w, "idle") /\ Fault
    /\ Ends(w)
    /\ Set(w, NoChild)
    /\ UNCHANGED <<raw, unsettled, ledger, answers, calls>>

-----------------------------------------------------------------------------
ChildStep(w) ==
    /\ ChildWrites(w) \/ ChildExits(w) \/ HolderLeaves(w)
    /\ UNCHANGED ledgerVars

ReaderStep(w) == Drain(w) /\ UNCHANGED ledgerVars
ReaderFails(w) == DrainFails(w) /\ UNCHANGED ledgerVars

Finished == calls = MaxCalls /\ \A w \in Workers : At(w, "idle")

CallStep(w) ==
    \/ AdapterRuns(w) \/ Observe(w) \/ FindRaw(w) \/ CreateRaw(w) \/ WriteRaw(w)
    \/ AppendRecord(w)

Next ==
    \/ \E w \in Workers :
         \/ Begin(w) \/ CallStep(w) \/ AdapterFails(w)
         \/ WriteRawFails(w) \/ AppendTears(w) \/ Dies(w)
         \/ ChildStep(w) \/ ReaderStep(w) \/ ReaderFails(w)
    \/ Finished /\ UNCHANGED vars

(* The deadline passes, whatever the child does. *)
Fairness ==
    \A w \in Workers : WF_vars(CallStep(w)) /\ WF_vars(At(w, "adapter") /\ DeadlineSeen(w)
                                                       /\ UNCHANGED ledgerVars)

Spec == Init /\ [][Next]_vars /\ Fairness

-----------------------------------------------------------------------------
(* Properties                                                              *)

(***************************************************************************)
(* The token counts of a recorded run were counted from the bytes that its *)
(* raw event file holds, though workers race for that file, find it half   *)
(* written, and die in the middle of writing it or before the record.  The *)
(* one exception is a worker whose bytes were all that another had written *)
(* so far: _write_raw lets it pass, and the file then outgrows its counts. *)
(* Also then the file begins with the bytes that were counted.             *)
(***************************************************************************)
CountsAreOfKeptBytes ==
    \A i \in Lines : ledger[i].counts =>
        /\ raw # None /\ Begins(ledger[i].stdout, raw)
        /\ raw = ledger[i].stdout \/ ledger[i].stdout \in unsettled

(***************************************************************************)
(* What any call of run_once returned is the one record of its run: two    *)
(* workers that both found no record do not both add one.                  *)
(***************************************************************************)
OneRecordPerRun ==
    /\ Cardinality(Lines) <= 1
    /\ \A a \in answers : Existing = a

(* Every call of run_once ends, with a record, a refusal or an error. *)
CallsEnd == \A w \in Workers : ~At(w, "idle") ~> At(w, "idle")
=============================================================================
