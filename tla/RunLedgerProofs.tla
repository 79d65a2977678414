-------------------------- MODULE RunLedgerProofs ---------------------------
(***************************************************************************)
(* run_once and the child process it waits for, for any number of workers, *)
(* calls, faults and limits: what is accepted is whole, nothing is left    *)
(* running, a run has one record, and its counts are of the bytes kept.    *)
(***************************************************************************)
EXTENDS RunLedger, FiniteSetTheorems, TLAPS

-----------------------------------------------------------------------------
(* The child process *)

Mains ==
    {"none", "starting", "waiting", "terminate", "terminated", "killed", "closing", "joining", "done"}

Errors ==
    { "", "ADAPTER_BINARY_NOT_FOUND", "ADAPTER_TIMEOUT", "ADAPTER_OUTPUT_LIMIT",
      "ADAPTER_EXIT_NONZERO", "ADAPTER_OUTPUT_INVALID", "RuntimeError" }

Child ==
    [ main : Mains, child : {"none", "running", "exited", "failed"}, written : Nat,
      held : BOOLEAN, reader : {"unborn", "reading", "ended"}, buffer : Nat, overflow : BOOLEAN,
      signal : {"none", "term", "kill"}, error : Errors, variant : Variants \cup {"none"},
      counts : BOOLEAN, closing : BOOLEAN, whole : BOOLEAN, taken : Nat ]

(* The reader has taken some of what was written, within the limit; when it *)
(* ended without a complaint there is no more, and nobody to write more.    *)
ReaderOK(p) ==
    Watched(p) =>
        /\ p.buffer <= p.written /\ p.buffer <= EventLimit
        /\ p.reader = "ended" /\ ~p.overflow => p.buffer = p.written /\ ~Open(p)

(* Past the kill, a child that runs has been killed; only the readers that *)
(* could not be started leave one that was never signalled.                *)
KilledOK(p) ==
    /\ p.main = "killed" => p.signal = "kill"
    /\ p.main = "joining" /\ p.child = "running" => p.signal = "kill"
    /\ p.main = "done" /\ p.child = "running" =>
           IF p.error = "RuntimeError" THEN p.signal = "none" ELSE p.signal = "kill"
    /\ p.main # "done" => p.error # "RuntimeError"

(* What a call returns: all of the output, and counts of a part that is not *)
(* empty.                                                                   *)
ReturnedOK(p) ==
    p.main = "done" =>
        /\ p.error = "" /\ p.whole => p.taken = p.written /\ p.written <= EventLimit
        /\ p.counts => p.taken # 0 /\ p.error = ""

Sound(p) == p \in Child /\ ReaderOK(p) /\ KilledOK(p) /\ ReturnedOK(p)

ProcInv == proc \in [Workers -> Child] /\ \A w \in Workers : Sound(proc[w])

(* A worker's new state is sound when it is. *)
LEMMA SetKeeps ==
    ASSUME ProcInv, NEW w \in Workers, NEW q, Sound(q), Set(w, q)
    PROVE  ProcInv'
  BY DEF ProcInv, Set, Sound

(* A worker without a child. *)
LEMMA NoChildIsSound == Sound(NoChild)
<1>1. NoChild \in Child
  BY DEF Child, NoChild, Mains, Errors
<1>2. ReaderOK(NoChild) /\ KilledOK(NoChild) /\ ReturnedOK(NoChild)
  BY DEF NoChild, ReaderOK, Watched, KilledOK, ReturnedOK
<1> QED BY <1>1, <1>2 DEF Sound

(* The child writes, exits and leaves its end of the pipe to others. *)
LEMMA ChildKeeps ==
    ASSUME ProcInv, NEW w \in Workers, ChildWrites(w) \/ ChildExits(w) \/ HolderLeaves(w)
    PROVE  ProcInv'
<1>1. PICK p : p = proc[w]
  OBVIOUS
<1>2. Sound(p)
  BY <1>1 DEF ProcInv
<1>3. CASE ChildWrites(w)
  <2>1. Watched(p) /\ Open(p) /\ Set(w, [p EXCEPT !.written = @ + 1])
    BY <1>1, <1>3 DEF ChildWrites
  <2>2. Sound([p EXCEPT !.written = @ + 1])
    <3>1. [p EXCEPT !.written = @ + 1] \in Child
      BY <1>2, <2>1 DEF Sound, Child
    <3>2. ReaderOK([p EXCEPT !.written = @ + 1])
      BY <1>2, <2>1 DEF Sound, Child, ReaderOK, Watched, Open
    <3>3. KilledOK([p EXCEPT !.written = @ + 1]) /\ ReturnedOK([p EXCEPT !.written = @ + 1])
      BY <1>2, <2>1 DEF Sound, Child, KilledOK, ReturnedOK, Watched
    <3> QED BY <3>1, <3>2, <3>3 DEF Sound
  <2> QED BY <2>1, <2>2, SetKeeps
<1>4. CASE ChildExits(w)
  <2>1. PICK status \in {"exited", "failed"}, held \in BOOLEAN :
          /\ Watched(p) /\ p.child = "running"
          /\ Set(w, [p EXCEPT !.child = IF p.signal = "none" THEN status ELSE "failed",
                              !.held = held])
    BY <1>1, <1>4 DEF ChildExits
  <2>2. Sound([p EXCEPT !.child = IF p.signal = "none" THEN status ELSE "failed",
                        !.held = held])
    BY <1>2, <2>1 DEF Sound, Child, ReaderOK, KilledOK, ReturnedOK, Watched, Open
  <2> QED BY <2>1, <2>2, SetKeeps
<1>5. CASE HolderLeaves(w)
  <2>1. Watched(p) /\ Set(w, [p EXCEPT !.held = FALSE])
    BY <1>1, <1>5 DEF HolderLeaves
  <2>2. Sound([p EXCEPT !.held = FALSE])
    BY <1>2, <2>1 DEF Sound, Child, ReaderOK, KilledOK, ReturnedOK, Watched, Open
  <2> QED BY <2>1, <2>2, SetKeeps
<1> QED BY <1>3, <1>4, <1>5

(* A chunk that was read is kept within the limit, or is too much. *)
LEMMA ReceivedIsSound ==
    ASSUME NEW p, Sound(p), Watched(p), p.reader = "reading",
           NEW chunk \in Nat, chunk <= Unread(p)
    PROVE  Sound(Received(p, chunk))
<1> USE LimitsAssumption
<1>1. CASE chunk > EventLimit - p.buffer
  <2>1. Received(p, chunk) = [p EXCEPT !.buffer = EventLimit, !.overflow = TRUE, !.reader = "ended"]
    BY <1>1 DEF Received
  <2>2. Received(p, chunk) \in Child
    BY <2>1 DEF Sound, Child
  <2>3. ReaderOK(Received(p, chunk))
    BY <1>1, <2>1 DEF Unread, Sound, Child, ReaderOK, Watched
  <2>4. KilledOK(Received(p, chunk)) /\ ReturnedOK(Received(p, chunk))
    BY <2>1 DEF Sound, Child, KilledOK, ReturnedOK, Watched
  <2> QED BY <2>2, <2>3, <2>4 DEF Sound
<1>2. CASE ~(chunk > EventLimit - p.buffer)
  <2>1. Received(p, chunk) = [p EXCEPT !.buffer = @ + chunk]
    BY <1>2 DEF Received
  <2>2. Received(p, chunk) \in Child
    BY <2>1 DEF Sound, Child
  <2>3. ReaderOK(Received(p, chunk))
    BY <1>2, <2>1 DEF Unread, Sound, Child, ReaderOK, Watched
  <2>4. KilledOK(Received(p, chunk)) /\ ReturnedOK(Received(p, chunk))
    BY <2>1 DEF Sound, Child, KilledOK, ReturnedOK, Watched
  <2> QED BY <2>2, <2>3, <2>4 DEF Sound
<1> QED BY <1>1, <1>2

(* The reader reads on, ends, and fails. *)
LEMMA DrainKeeps ==
    ASSUME ProcInv, NEW w \in Workers, Drain(w) \/ DrainFails(w)
    PROVE  ProcInv'
<1> USE LimitsAssumption
<1>1. PICK p : p = proc[w]
  OBVIOUS
<1>2. Sound(p)
  BY <1>1 DEF ProcInv
<1>3. CASE Watched(p) /\ p.reader = "reading" /\ Unread(p) >= Wanted(p)
           /\ Set(w, Received(p, Wanted(p)))
  <2>1. Wanted(p) \in Nat /\ Wanted(p) <= Unread(p)
    BY <1>2, <1>3 DEF Wanted, Least, Unread, Sound, Child, ReaderOK
  <2> QED BY <1>2, <1>3, <2>1, ReceivedIsSound, SetKeeps
<1>4. CASE Watched(p) /\ p.reader = "reading" /\ ~Open(p) /\ Unread(p) = 0
           /\ Set(w, [p EXCEPT !.reader = "ended"])
  <2>1. Sound([p EXCEPT !.reader = "ended"])
    <3>1. [p EXCEPT !.reader = "ended"] \in Child
      BY <1>2, <1>4 DEF Sound, Child
    <3>2. ReaderOK([p EXCEPT !.reader = "ended"])
      BY <1>2, <1>4 DEF Sound, Child, ReaderOK, Watched, Open, Unread
    <3>3. KilledOK([p EXCEPT !.reader = "ended"]) /\ ReturnedOK([p EXCEPT !.reader = "ended"])
      BY <1>2, <1>4 DEF Sound, Child, KilledOK, ReturnedOK, Watched
    <3> QED BY <3>1, <3>2, <3>3 DEF Sound
  <2> QED BY <1>4, <2>1, SetKeeps
<1>5. CASE Watched(p) /\ p.reader = "reading" /\ Set(w, Received(p, Unread(p)))
  <2>1. Unread(p) \in Nat /\ Unread(p) <= Unread(p)
    BY <1>2, <1>5 DEF Unread, Sound, Child, ReaderOK
  <2> QED BY <1>2, <1>5, <2>1, ReceivedIsSound, SetKeeps
<1>6. CASE DrainFails(w)
  <2>1. Watched(p) /\ Set(w, [p EXCEPT !.overflow = TRUE, !.reader = "ended"])
    BY <1>1, <1>6 DEF DrainFails
  <2>2. Sound([p EXCEPT !.overflow = TRUE, !.reader = "ended"])
    BY <1>2, <2>1 DEF Sound, Child, ReaderOK, KilledOK, ReturnedOK, Watched, Open
  <2> QED BY <2>1, <2>2, SetKeeps
<1> QED BY <1>1, <1>3, <1>4, <1>5, <1>6 DEF Drain

(* A step of the calling thread that starts or ends nothing. *)
LEMMA ThreadKeeps ==
    ASSUME ProcInv, NEW w \in Workers,
           WaitEnds(w) \/ OverflowSeen(w) \/ DeadlineSeen(w) \/ Terminate(w) \/ CloseReaders(w)
    PROVE  ProcInv'
<1>1. PICK p : p = proc[w]
  OBVIOUS
<1>2. Sound(p)
  BY <1>1 DEF ProcInv
<1> USE <1>2
<1>3. CASE WaitEnds(w)
  <2> DEFINE q == [p EXCEPT !.main = "closing",
                            !.error = IF p.overflow THEN "ADAPTER_OUTPUT_LIMIT" ELSE @]
  <2>1. p.main = "waiting" /\ Set(w, q)
    BY <1>1, <1>3 DEF WaitEnds
  <2>2. q \in Child
    <3>1. CASE p.overflow
      BY <3>1 DEF Sound, Child, Mains, Errors
    <3>2. CASE ~p.overflow
      BY <3>2 DEF Sound, Child, Mains, Errors
    <3> QED BY <3>1, <3>2
  <2>3. ReaderOK(q) /\ KilledOK(q) /\ ReturnedOK(q)
    <3>1. /\ q.main = "closing" /\ q.error # "RuntimeError" /\ q.buffer = p.buffer
          /\ q.written = p.written /\ q.reader = p.reader /\ q.child = p.child
      BY <2>1 DEF Sound, Child, KilledOK
    <3>2. q.overflow = p.overflow /\ q.held = p.held
      BY DEF Sound, Child
    <3>3. ReaderOK(q)
      BY <2>1, <3>1, <3>2 DEF Sound, ReaderOK, Watched, Open
    <3> HIDE DEF q
    <3> QED BY <3>1, <3>3 DEF KilledOK, ReturnedOK
  <2>4. Sound(q)
    BY <2>2, <2>3 DEF Sound
  <2> QED BY <2>1, <2>4, SetKeeps
<1>4. CASE OverflowSeen(w)
  <2> DEFINE q == [p EXCEPT !.main = "terminate", !.error = "ADAPTER_OUTPUT_LIMIT"]
  <2>1. p.main = "waiting" /\ Set(w, q)
    BY <1>1, <1>4 DEF OverflowSeen
  <2>2. q \in Child
    BY DEF Sound, Child, Mains, Errors
  <2>3. ReaderOK(q) /\ KilledOK(q) /\ ReturnedOK(q)
    BY <2>1 DEF Sound, Child, ReaderOK, KilledOK, ReturnedOK, Watched, Open
  <2>4. Sound(q)
    BY <2>2, <2>3 DEF Sound
  <2> QED BY <2>1, <2>4, SetKeeps
<1>5. CASE DeadlineSeen(w)
  <2> DEFINE q == [p EXCEPT !.main = "terminate", !.error = "ADAPTER_TIMEOUT"]
  <2>1. p.main = "waiting" /\ Set(w, q)
    BY <1>1, <1>5 DEF DeadlineSeen
  <2>2. q \in Child
    BY DEF Sound, Child, Mains, Errors
  <2>3. ReaderOK(q) /\ KilledOK(q) /\ ReturnedOK(q)
    BY <2>1 DEF Sound, Child, ReaderOK, KilledOK, ReturnedOK, Watched, Open
  <2>4. Sound(q)
    BY <2>2, <2>3 DEF Sound
  <2> QED BY <2>1, <2>4, SetKeeps
<1>6. CASE Terminate(w)
  <2>1. CASE p.main = "terminate"
    <3> DEFINE q == [p EXCEPT !.main = "terminated",
                              !.signal = IF @ = "kill" THEN @ ELSE "term"]
    <3>1. Set(w, q)
      BY <1>1, <1>6, <2>1 DEF Terminate
    <3>2. q \in Child
      BY DEF Sound, Child, Mains, Errors
    <3>3. ReaderOK(q) /\ KilledOK(q) /\ ReturnedOK(q)
      BY <2>1 DEF Sound, Child, ReaderOK, KilledOK, ReturnedOK, Watched, Open
    <3>4. Sound(q)
      BY <3>2, <3>3 DEF Sound
    <3> QED BY <3>1, <3>4, SetKeeps
  <2>2. CASE (p.main = "terminated" /\ p.child # "running") \/ p.main = "killed"
    <3> DEFINE q == [p EXCEPT !.main = Ended(p)]
    <3>1. Set(w, q)
      BY <1>1, <1>6, <2>2 DEF Terminate
    <3>2. q \in Child
      BY DEF Sound, Child, Mains, Ended
    <3>3. ReaderOK(q) /\ KilledOK(q) /\ ReturnedOK(q)
      BY <2>2 DEF Sound, Child, ReaderOK, KilledOK, ReturnedOK, Watched, Open, Ended
    <3>4. Sound(q)
      BY <3>2, <3>3 DEF Sound
    <3> QED BY <3>1, <3>4, SetKeeps
  <2>3. CASE p.main = "terminated" /\ p.child = "running"
    <3> DEFINE q == [p EXCEPT !.main = "killed", !.signal = "kill"]
    <3>1. Set(w, q)
      BY <1>1, <1>6, <2>3 DEF Terminate
    <3>2. q \in Child
      BY DEF Sound, Child, Mains, Errors
    <3>3. ReaderOK(q) /\ KilledOK(q) /\ ReturnedOK(q)
      BY <2>3 DEF Sound, Child, ReaderOK, KilledOK, ReturnedOK, Watched, Open
    <3>4. Sound(q)
      BY <3>2, <3>3 DEF Sound
    <3> QED BY <3>1, <3>4, SetKeeps
  <2> QED BY <1>1, <1>6, <2>1, <2>2, <2>3 DEF Terminate
<1>7. CASE CloseReaders(w)
  <2> DEFINE q == [p EXCEPT !.main = IF p.child = "running" THEN "terminate" ELSE "joining",
                            !.closing = TRUE]
  <2>1. p.main = "closing" /\ Set(w, q)
    BY <1>1, <1>7 DEF CloseReaders
  <2>2. q \in Child
    BY DEF Sound, Child, Mains, Errors
  <2>3. ReaderOK(q) /\ KilledOK(q) /\ ReturnedOK(q)
    BY <2>1 DEF Sound, Child, ReaderOK, KilledOK, ReturnedOK, Watched, Open
  <2>4. Sound(q)
    BY <2>2, <2>3 DEF Sound
  <2> QED BY <2>1, <2>4, SetKeeps
<1> QED BY <1>3, <1>4, <1>5, <1>6, <1>7

(* A child is launched and its readers are started, or cannot be. *)
LEMMA LaunchKeeps ==
    ASSUME ProcInv, NEW w \in Workers,
           Launch(w) \/ LaunchFails(w) \/ StartReaders(w) \/ StartReadersFails(w)
    PROVE  ProcInv'
<1> USE LimitsAssumption
<1>1. CASE Launch(w)
  <2> DEFINE q == [NoChild EXCEPT !.main = "starting", !.child = "running", !.reader = "unborn"]
  <2>1. Set(w, q)
    BY <1>1 DEF Launch
  <2>2. q \in Child
    BY DEF NoChild, Child, Mains, Errors
  <2>3. ReaderOK(q) /\ KilledOK(q) /\ ReturnedOK(q)
    BY DEF NoChild, ReaderOK, KilledOK, ReturnedOK, Watched, Open
  <2>4. Sound(q)
    BY <2>2, <2>3 DEF Sound
  <2> QED BY <2>1, <2>4, SetKeeps
<1>2. CASE LaunchFails(w)
  <2> DEFINE q == [NoChild EXCEPT !.main = "done", !.error = "ADAPTER_BINARY_NOT_FOUND"]
  <2>1. Set(w, q)
    BY <1>2 DEF LaunchFails
  <2>2. q \in Child
    BY DEF NoChild, Child, Mains, Errors
  <2>3. ReaderOK(q) /\ KilledOK(q) /\ ReturnedOK(q)
    BY DEF NoChild, ReaderOK, KilledOK, ReturnedOK, Watched, Open
  <2>4. Sound(q)
    BY <2>2, <2>3 DEF Sound
  <2> QED BY <2>1, <2>4, SetKeeps
<1>3. CASE StartReaders(w)
  <2>0. PICK p : p = proc[w]
    OBVIOUS
  <2> DEFINE q == [p EXCEPT !.main = "waiting", !.reader = "reading"]
  <2>1. p.main = "starting" /\ Set(w, q) /\ Sound(p)
    BY <1>3, <2>0 DEF StartReaders, ProcInv
  <2>2. q \in Child
    BY <2>1 DEF Sound, Child, Mains
  <2>3. ReaderOK(q) /\ KilledOK(q) /\ ReturnedOK(q)
    BY <2>1 DEF Sound, Child, ReaderOK, KilledOK, ReturnedOK, Watched, Open
  <2>4. Sound(q)
    BY <2>2, <2>3 DEF Sound
  <2> QED BY <2>1, <2>4, SetKeeps
<1>4. CASE StartReadersFails(w)
  <2>0. PICK p : p = proc[w]
    OBVIOUS
  <2> DEFINE q == [NoChild EXCEPT !.main = "done", !.child = p.child, !.error = "RuntimeError"]
  <2>1. Set(w, q) /\ Sound(p)
    BY <1>4, <2>0 DEF StartReadersFails, ProcInv
  <2>2. q \in Child
    BY <2>1 DEF Sound, NoChild, Child, Mains, Errors
  <2>3. ReaderOK(q) /\ KilledOK(q) /\ ReturnedOK(q)
    BY DEF NoChild, ReaderOK, KilledOK, ReturnedOK, Watched, Open
  <2>4. Sound(q)
    BY <2>2, <2>3 DEF Sound
  <2> QED BY <2>1, <2>4, SetKeeps
<1> QED BY <1>1, <1>2, <1>3, <1>4

(* An output that passes was not refused by the reader and is not empty. *)
LEMMA Verdicts ==
    ASSUME NEW p, Sound(p)
    PROVE  /\ Verdict(p) \in Errors /\ (p.error # "RuntimeError" => Verdict(p) # "RuntimeError")
           /\ Verdict(p) = "" => p.error = "" /\ ~p.overflow /\ p.child = "exited" /\ p.buffer # 0
<1> USE DEF Verdict, Errors, Sound, Child
<1>1. CASE p.error # ""
  BY <1>1
<1>2. CASE p.error = "" /\ p.overflow
  BY <1>2
<1>3. CASE p.error = "" /\ ~p.overflow /\ p.child # "exited"
  BY <1>3
<1>4. CASE p.error = "" /\ ~p.overflow /\ p.child = "exited"
  BY <1>4
<1> QED BY <1>1, <1>2, <1>3, <1>4

(* The call ends. *)
LEMMA JoinKeeps ==
    ASSUME ProcInv, NEW w \in Workers, Join(w)
    PROVE  ProcInv'
<1>1. PICK p : p = proc[w]
  OBVIOUS
<1>2. Sound(p)
  BY <1>1 DEF ProcInv
<1> DEFINE end == [NoChild EXCEPT !.main = "done", !.child = p.child, !.signal = p.signal,
                                  !.error = Verdict(p)]
<1>3. p.main = "joining"
  BY <1>1 DEF Join
<1>4. end \in Child
  BY <1>2, Verdicts DEF Sound, NoChild, Child, Mains
<1>5. CASE Verdict(p) # ""
  <2>1. Set(w, end)
    BY <1>1, <1>5 DEF Join
  <2>2. ReaderOK(end) /\ KilledOK(end) /\ ReturnedOK(end)
    BY <1>2, <1>3, Verdicts DEF Sound, Child, NoChild, ReaderOK, KilledOK, ReturnedOK, Watched
  <2>3. Sound(end)
    BY <1>4, <2>2 DEF Sound
  <2> QED BY <2>1, <2>3, SetKeeps
<1>6. CASE Verdict(p) = ""
  <2>1. PICK v \in Variants, counts \in BOOLEAN :
          Set(w, [end EXCEPT !.variant = v, !.counts = counts, !.taken = p.buffer,
                             !.written = p.written, !.whole = p.reader = "ended"])
    BY <1>1, <1>6 DEF Join
  <2> DEFINE q == [end EXCEPT !.variant = v, !.counts = counts, !.taken = p.buffer,
                              !.written = p.written, !.whole = p.reader = "ended"]
  <2>2. q \in Child
    <3>1. (p.reader = "ended") \in BOOLEAN /\ p.buffer \in Nat /\ p.written \in Nat
      BY <1>2 DEF Sound, Child
    <3> HIDE DEF end
    <3> QED BY <1>4, <3>1 DEF Child
  <2>3. p.error = "" /\ ~p.overflow /\ p.child = "exited" /\ p.buffer # 0
    BY <1>2, <1>6, Verdicts
  <2>4. p.reader = "ended" => p.buffer = p.written /\ p.buffer <= EventLimit
    BY <1>2, <1>3, <2>3 DEF Sound, ReaderOK, Watched
  <2>5. ReaderOK(q) /\ KilledOK(q)
    BY <1>2, <1>3, <2>3 DEF Sound, Child, NoChild, ReaderOK, KilledOK, Watched
  <2>6. ReturnedOK(q)
    BY <1>2, <1>6, <2>3, <2>4 DEF Sound, Child, NoChild, ReturnedOK
  <2>7. Sound(q)
    BY <2>2, <2>5, <2>6 DEF Sound
  <2> QED BY <2>1, <2>7, SetKeeps
<1> QED BY <1>5, <1>6

-----------------------------------------------------------------------------
(* The run store *)

Pcs == {"idle", "adapter", "raw", "create", "write", "append"}

CallType ==
    /\ call \in [Workers -> [pc : Pcs, record : Record \cup {None}]]
    /\ raw \in Bytes \cup {None}

(* Counts are of a part of the output that is not empty. *)
Counted(r) == r \in Record /\ (r.counts => Size(r.stdout) # 0)

(* A worker that has observed its run has a record of it. *)
ObservedOK ==
    \A w \in Workers : call[w].pc \notin {"idle", "adapter"} => Counted(call[w].record)

(* Who has created the raw file is the only one to write it, and what is   *)
(* there so far is the beginning of its data.                              *)
WriterOK ==
    \A w, x \in Workers :
        At(w, "write") => /\ raw \in Bytes /\ Begins(raw, Data(w))
                          /\ At(x, "write") => w = x

(* The raw file begins with these bytes, and holds nothing else unless it  *)
(* was still growing when they were compared with it.                      *)
Backed(bytes) ==
    /\ raw # None /\ Begins(bytes, raw)
    /\ bytes \in unsettled \/ (raw = bytes /\ ~Growing)

(* A record that waits to be appended has counts of what the raw file holds. *)
AppendOK ==
    \A w \in Workers : At(w, "append") /\ call[w].record.counts => Backed(Data(w))

(* The store is empty, torn, or has the one record that every answer is. *)
EmptyStore == ledger = <<>> /\ answers = {}
TornStore == ledger = <<None>> /\ answers = {}
Holding(r) ==
    /\ ledger = <<r>> /\ Counted(r) /\ answers \subseteq {r}
    /\ r.counts => Backed(r.stdout)
StoreOK == EmptyStore \/ TornStore \/ \E r \in Record : Holding(r)

LedgerInv == CallType /\ ObservedOK /\ WriterOK /\ AppendOK /\ StoreOK

(* What _load makes of an empty, a torn and a whole store. *)
LEMMA EmptyLoads ==
    ASSUME ledger = <<>>
    PROVE  Lines = {} /\ Loads /\ Existing = None
<1>1. Lines = {} /\ 1 .. Len(ledger) = {}
  BY DEF Lines
<1> QED BY <1>1, FS_EmptySet DEF Loads, Existing

(* A ledger of one torn line is refused. *)
LEMMA TornDoesNotLoad ==
    ASSUME ledger = <<None>>
    PROVE  Lines = {} /\ ~Loads /\ Existing = None
<1>1. Len(ledger) = 1 /\ ledger[1] = None
  OBVIOUS
<1>2. Lines = {}
  BY <1>1 DEF Lines
<1>3. 1 \in 1 .. Len(ledger)
  BY <1>1
<1> QED BY <1>2, <1>3 DEF Loads, Existing

(* A ledger of one record is found and loaded. *)
LEMMA RecordLoads ==
    ASSUME NEW r, r # None, ledger = <<r>>
    PROVE  Lines = {1} /\ Cardinality(Lines) = 1 /\ Loads /\ Existing = r
<1>1. Len(ledger) = 1 /\ ledger[1] = r
  OBVIOUS
<1>2. Lines = {1} /\ 1 .. Len(ledger) = {1}
  BY <1>1 DEF Lines
<1>3. Cardinality({1}) = 1
  BY FS_Singleton
<1>4. (CHOOSE i \in {1} : TRUE) = 1
  OBVIOUS
<1> QED BY <1>1, <1>2, <1>3, <1>4 DEF Loads, Existing

(* At the beginning no one runs and nothing is recorded. *)
LEMMA LedgerInitial == Init => ProcInv /\ LedgerInv
<1> SUFFICES ASSUME Init PROVE ProcInv /\ LedgerInv
  OBVIOUS
<1>1. ProcInv
  BY NoChildIsSound DEF Init, ProcInit, ProcInv, Sound
<1>2. LedgerInv
  BY DEF Init, NoCall, LedgerInv, CallType, Pcs, ObservedOK, WriterOK, AppendOK, At, StoreOK,
         EmptyStore
<1> QED BY <1>1, <1>2

(* What is backed stays so while the file and its writer stay as they are. *)
LEMMA BackedStays ==
    ASSUME NEW b, Backed(b), UNCHANGED raw, unsettled \subseteq unsettled', Growing' => Growing
    PROVE  Backed(b)'
  BY DEF Backed, Begins, Size

(* No writer comes in by moving one worker to another place. *)
LEMMA NoOtherWriter ==
    ASSUME CallType, NEW w \in Workers, UNCHANGED raw,
           \A u \in Workers \ {w} : call'[u] = call[u], call'[w].pc # "write"
    PROVE  Growing' => Growing
  BY DEF Growing, At, Data

(* A step that leaves the store alone and moves one worker to a place where *)
(* nothing is claimed of it.                                                *)
LEMMA QuietKeeps ==
    ASSUME LedgerInv, NEW w \in Workers, Ends(w) \/ UNCHANGED call \/ Goes(w, "adapter"),
           UNCHANGED <<raw, unsettled, ledger>>,
           answers' = answers \/ \E r \in Record : ledger = <<r>> /\ answers' = answers \cup {r}
    PROVE  LedgerInv'
<1> USE DEF LedgerInv, CallType
<1>1. CallType' /\ ObservedOK'
  BY DEF Ends, Goes, Pcs, ObservedOK, Counted
<1>0. Growing' => Growing
  BY DEF Ends, Goes, Growing, At, Data
<1>2. WriterOK' /\ AppendOK'
  <2>1. WriterOK'
    BY DEF Ends, Goes, WriterOK, At, Data
  <2>2. ASSUME NEW x \in Workers, At(x, "append")', call'[x].record.counts PROVE Backed(Data(x))'
    <3>1. call'[x] = call[x]
      BY <2>2 DEF Ends, Goes, At
    <3>2. Backed(Data(x)) /\ Data(x)' = Data(x)
      BY <2>2, <3>1 DEF AppendOK, At, Data
    <3> QED BY <1>0, <3>2, BackedStays
  <2> QED BY <2>1, <2>2 DEF AppendOK
<1>3. StoreOK'
  <2>1. CASE EmptyStore
    BY <2>1 DEF StoreOK, EmptyStore
  <2>2. CASE TornStore
    BY <2>2, NoneIsNoRecord DEF StoreOK, TornStore
  <2>3. ASSUME NEW r \in Record, Holding(r) PROVE Holding(r)'
    BY <1>0, <2>3, BackedStays DEF Holding
  <2> QED BY <2>1, <2>2, <2>3 DEF StoreOK
<1> QED BY <1>1, <1>2, <1>3

(* RunStore is opened and asked. *)
LEMMA BeginKeeps ==
    ASSUME LedgerInv, NEW w \in Workers, Begin(w)
    PROVE  LedgerInv'
<1>1. CASE EmptyStore
  BY <1>1, QuietKeeps, EmptyLoads DEF Begin, EmptyStore
<1>2. CASE TornStore
  BY <1>2, QuietKeeps, TornDoesNotLoad DEF Begin, TornStore
<1>3. ASSUME NEW r \in Record, Holding(r) PROVE LedgerInv'
  <2>1. ledger = <<r>> /\ r # None
    BY <1>3, NoneIsNoRecord DEF Holding
  <2>2. Loads /\ Existing = r
    BY <2>1, RecordLoads
  <2> QED BY <2>1, <2>2, QuietKeeps DEF Begin
<1> QED BY <1>1, <1>2, <1>3 DEF LedgerInv, StoreOK

(* The observation of a child that is done. *)
LEMMA ObserveKeeps ==
    ASSUME ProcInv, LedgerInv, NEW w \in Workers, Observe(w)
    PROVE  ProcInv' /\ LedgerInv'
<1> USE LimitsAssumption
<1>1. PICK p : p = proc[w]
  OBVIOUS
<1>2. Sound(p) /\ p.main = "done"
  BY <1>1 DEF ProcInv, Observe
<1>3. ProcInv'
  BY NoChildIsSound, SetKeeps DEF Observe
<1>4. PICK out : out = Output(p)
  OBVIOUS
<1>5. CASE Ends(w)
  BY <1>3, <1>5, QuietKeeps DEF Observe
<1>6. CASE ~(out.counts /\ out.digest # out.stdout)
  <2> DEFINE r == [ stdout |-> out.stdout, counts |-> out.counts, failure |-> ~out.ok ]
  <2>1. call' = [call EXCEPT ![w].pc = "raw", ![w].record = r]
    BY <1>1, <1>4, <1>6 DEF Observe
  <2>2. r \in Record
    <3>1. Least(p.taken, StdoutLimit) \in Nat
      BY <1>2 DEF Least, Sound, Child
    <3>2. out.stdout \in Bytes
      BY <1>2, <1>4, <3>1 DEF Output, Bytes, Sound, Child
    <3>3. out.counts \in BOOLEAN /\ (~out.ok) \in BOOLEAN
      BY <1>2, <1>4 DEF Output, Sound, Child
    <3> QED BY <3>2, <3>3 DEF Record
  <2>3. Counted(r)
    <3> SUFFICES ASSUME out.counts PROVE Size(out.stdout) # 0
      BY <2>2 DEF Counted
    <3>1. p.counts /\ p.taken # 0 /\ p.taken \in Nat /\ out.digest = <<p.variant, p.taken>>
      BY <1>2, <1>4 DEF Output, Sound, Child, ReturnedOK
    <3> QED BY <1>6, <3>1 DEF Size
  <2> HIDE DEF r
  <2>4. CallType' /\ ObservedOK'
    BY <2>1, <2>2, <2>3 DEF LedgerInv, CallType, Pcs, ObservedOK, Observe
  <2>0. Growing' => Growing
    BY <2>1, NoOtherWriter DEF LedgerInv, CallType, Observe
  <2>5. WriterOK' /\ AppendOK'
    <3>1. WriterOK'
      BY <2>1 DEF LedgerInv, CallType, WriterOK, At, Data, Observe
    <3>2. ASSUME NEW x \in Workers, At(x, "append")', call'[x].record.counts PROVE Backed(Data(x))'
      <4>1. call'[x] = call[x]
        BY <2>1, <3>2 DEF LedgerInv, CallType, At
      <4>2. Backed(Data(x)) /\ Data(x)' = Data(x)
        BY <3>2, <4>1 DEF LedgerInv, AppendOK, At, Data
      <4> QED BY <2>0, <4>2, BackedStays DEF Observe
    <3> QED BY <3>1, <3>2 DEF AppendOK
  <2>6. StoreOK'
    <3>1. ASSUME NEW s \in Record, Holding(s) PROVE Holding(s)'
      BY <2>0, <3>1, BackedStays DEF Holding, Observe
    <3> QED BY <3>1 DEF LedgerInv, StoreOK, EmptyStore, TornStore, Observe
  <2> QED BY <1>3, <2>4, <2>5, <2>6 DEF LedgerInv
<1> QED BY <1>1, <1>4, <1>5, <1>6 DEF Observe

(* _write_raw: the file is found, created and written. *)
LEMMA RawKeeps ==
    ASSUME LedgerInv, NEW w \in Workers, FindRaw(w) \/ CreateRaw(w) \/ WriteRaw(w)
    PROVE  LedgerInv'
<1> USE DEF LedgerInv, CallType
<1>1. CASE Ends(w) /\ UNCHANGED <<raw, unsettled, ledger, answers>>
  BY <1>1, QuietKeeps
<1>2. CASE FindRaw(w) /\ (raw = None \/ raw = Data(w))
  <2>1. /\ At(w, "raw") /\ UNCHANGED <<raw, ledger, answers>>
        /\ unsettled' = IF raw = Data(w) /\ Growing THEN unsettled \cup {raw} ELSE unsettled
        /\ \/ raw = None /\ Goes(w, "create")
           \/ raw # None /\ raw = Data(w) /\ Goes(w, "append")
    BY <1>2 DEF FindRaw
  <2>2. CallType' /\ ObservedOK'
    BY <2>1 DEF Goes, Pcs, ObservedOK, At
  <2>0. (Growing' => Growing) /\ unsettled \subseteq unsettled'
    BY <2>1, NoOtherWriter DEF Goes
  <2>3. WriterOK' /\ AppendOK'
    <3>1. WriterOK'
      BY <2>1 DEF Goes, WriterOK, At, Data
    <3>2. ASSUME NEW x \in Workers, At(x, "append")', call'[x].record.counts PROVE Backed(Data(x))'
      <4>1. CASE x = w
        <5>1. raw # None /\ raw = Data(w) /\ Data(w)' = Data(w) /\ Data(w) \in Bytes
          BY <2>1, <3>2, <4>1 DEF Goes, At, Data
        <5>2. Begins(Data(w), raw)
          BY <5>1 DEF Begins, Size, Bytes
        <5> QED BY <2>0, <2>1, <4>1, <5>1, <5>2 DEF Backed, Begins, Size
      <4>2. CASE x # w
        <5>1. call'[x] = call[x]
          BY <2>1, <4>2 DEF Goes
        <5>2. Backed(Data(x)) /\ Data(x)' = Data(x)
          BY <3>2, <5>1 DEF AppendOK, At, Data
        <5> QED BY <2>0, <2>1, <5>2, BackedStays
      <4> QED BY <4>1, <4>2
    <3> QED BY <3>1, <3>2 DEF AppendOK
  <2>4. StoreOK'
    <3>1. ASSUME NEW r \in Record, Holding(r) PROVE Holding(r)'
      BY <2>0, <2>1, <3>1, BackedStays DEF Holding
    <3> QED BY <2>1, <3>1 DEF StoreOK, EmptyStore, TornStore
  <2> QED BY <2>2, <2>3, <2>4
<1>3. CASE CreateRaw(w) /\ raw = None
  <2>1. /\ At(w, "create") /\ raw = None /\ Goes(w, "write") /\ raw' = Nothing
        /\ UNCHANGED <<ledger, answers>>
    BY <1>3 DEF CreateRaw
  <2>2. Nothing \in Bytes /\ Nothing # None
    BY NoneIsNoRecord DEF Nothing, Bytes
  <2>3. CallType' /\ ObservedOK'
    BY <2>1, <2>2 DEF Goes, Pcs, ObservedOK, At
  <2>4. ASSUME NEW x \in Workers
        PROVE  ~At(x, "write") /\ ~(At(x, "append") /\ call[x].record.counts)
    BY <2>1, NoneIsNoRecord DEF WriterOK, AppendOK, Backed
  <2>5. WriterOK' /\ AppendOK'
    BY <2>1, <2>2, <2>4 DEF Goes, WriterOK, AppendOK, At, Data, Begins
  <2>6. StoreOK'
    <3>1. ASSUME NEW r \in Record, Holding(r) PROVE Holding(r)'
      BY <2>1, <3>1 DEF Holding, Backed
    <3> QED BY <2>1, <3>1 DEF StoreOK, EmptyStore, TornStore
  <2> QED BY <2>3, <2>5, <2>6
<1>4. CASE WriteRaw(w) /\ Size(raw) < Size(Data(w))
  <2>1. /\ At(w, "write") /\ raw' = <<Data(w)[1], Size(raw) + 1>>
        /\ UNCHANGED <<call, unsettled, ledger, answers>>
    BY <1>4 DEF WriteRaw
  <2>2. raw \in Bytes /\ Data(w) \in Bytes /\ Begins(raw, Data(w))
    BY <2>1 DEF WriterOK, ObservedOK, At, Counted, Record, Data
  <2>3. raw' \in Bytes /\ raw' # None /\ Begins(raw', Data(w))
    <3>1. raw[2] \in Nat /\ Data(w)[2] \in Nat /\ Data(w)[1] \in Variants \cup {"none"}
      BY <2>2 DEF Bytes
    <3>2. raw' \in Bytes
      BY <2>1, <3>1 DEF Bytes, Size
    <3>3. Size(raw') <= Size(Data(w)) /\ raw'[1] = Data(w)[1]
      BY <1>4, <2>1, <3>1 DEF Size
    <3> QED BY <3>2, <3>3, NoneIsNoRecord DEF Begins
  <2>4. Growing
    <3>1. Size(raw) \in Nat /\ Size(Data(w)) \in Nat
      BY <2>2 DEF Bytes, Size
    <3>2. raw # Data(w)
      BY <1>4, <3>1
    <3> QED BY <2>1, <3>2 DEF Growing
  <2>5. ASSUME NEW b \in Bytes, Backed(b) PROVE Backed(b)'
    <3>1. b \in unsettled \/ b = raw
      BY <2>5 DEF Backed
    <3>2. b \in unsettled /\ Begins(b, raw)
      BY <2>4, <2>5 DEF Backed
    <3>3. Begins(b, raw')
      BY <2>1, <2>2, <3>2 DEF Begins, Size, Bytes, Nothing
    <3> QED BY <2>1, <2>3, <3>2, <3>3 DEF Backed, Begins, Size
  <2>6. CallType' /\ ObservedOK'
    BY <2>1, <2>3 DEF ObservedOK
  <2>7. WriterOK' /\ AppendOK'
    <3>1. WriterOK'
      BY <2>1, <2>3 DEF WriterOK, At, Data, Begins, Size
    <3>2. ASSUME NEW x \in Workers, At(x, "append"), call[x].record.counts PROVE Backed(Data(x))'
      <4>1. Backed(Data(x)) /\ Data(x) \in Bytes /\ Data(x)' = Data(x)
        BY <2>1, <3>2 DEF AppendOK, ObservedOK, At, Counted, Record, Data
      <4> QED BY <2>5, <4>1
    <3> QED BY <2>1, <3>1, <3>2 DEF AppendOK, At
  <2>8. StoreOK'
    <3>1. ASSUME NEW r \in Record, Holding(r) PROVE Holding(r)'
      BY <2>1, <2>5, <3>1 DEF Holding, Record
    <3> QED BY <2>1, <3>1 DEF StoreOK, EmptyStore, TornStore
  <2> QED BY <2>6, <2>7, <2>8
<1>5. CASE WriteRaw(w) /\ ~(Size(raw) < Size(Data(w)))
  <2>1. At(w, "write") /\ Goes(w, "append") /\ UNCHANGED <<raw, unsettled, ledger, answers>>
    BY <1>5 DEF WriteRaw
  <2>2. /\ raw \in Bytes /\ Data(w) \in Bytes /\ Begins(raw, Data(w)) /\ Counted(call[w].record)
        /\ raw # None
    BY <2>1, NoneIsNoRecord DEF WriterOK, ObservedOK, At, Counted, Record, Data
  <2>3. ASSUME NEW x \in Workers, x # w PROVE ~At(x, "write") /\ call'[x] = call[x]
    BY <2>1, <2>3 DEF WriterOK, Goes
  <2>4. ~Growing' /\ call'[w].pc = "append" /\ call'[w].record = call[w].record
    BY <2>1, <2>3 DEF Growing, At, Goes
  <2>5. CallType' /\ ObservedOK'
    BY <2>1, <2>2 DEF Goes, Pcs, ObservedOK, At
  <2>6. WriterOK' /\ AppendOK'
    <3>1. WriterOK'
      BY <2>3, <2>4 DEF WriterOK, At
    <3>2. ASSUME NEW x \in Workers, At(x, "append")', call'[x].record.counts PROVE Backed(Data(x))'
      <4>1. CASE x = w
        <5>1. Size(Data(w)) # 0 /\ Data(w)' = Data(w)
          BY <2>2, <2>4, <3>2, <4>1 DEF Counted, Data
        <5>2. raw = Data(w)
          BY <1>5, <2>2, <5>1 DEF Begins, Size, Bytes, Nothing
        <5>3. Begins(Data(w), raw)
          BY <2>2, <5>2 DEF Begins, Size, Bytes
        <5> QED BY <2>1, <2>2, <2>4, <4>1, <5>1, <5>2, <5>3 DEF Backed, Begins, Size
      <4>2. CASE x # w
        <5>1. Backed(Data(x)) /\ Data(x)' = Data(x)
          BY <2>3, <3>2, <4>2 DEF AppendOK, At, Data
        <5> QED BY <2>1, <2>4, <5>1, BackedStays
      <4> QED BY <4>1, <4>2
    <3> QED BY <3>1, <3>2 DEF AppendOK
  <2>7. StoreOK'
    <3>1. ASSUME NEW r \in Record, Holding(r) PROVE Holding(r)'
      BY <2>1, <2>4, <3>1, BackedStays DEF Holding
    <3> QED BY <2>1, <3>1 DEF StoreOK, EmptyStore, TornStore
  <2> QED BY <2>5, <2>6, <2>7
<1> QED BY <1>1, <1>2, <1>3, <1>4, <1>5 DEF FindRaw, CreateRaw

(* A line is added to an empty store only, and it is the first answer. *)
LEMMA LineKeeps ==
    ASSUME LedgerInv, EmptyStore, NEW w \in Workers, At(w, "append"), UNCHANGED <<raw, unsettled>>,
           NEW line, line = None \/ line = call[w].record, AppendLine(w, line)
    PROVE  LedgerInv'
<1> USE DEF LedgerInv, CallType
<1>1. Counted(call[w].record) /\ call[w].record # None
  BY NoneIsNoRecord DEF ObservedOK, At, Counted
<1>2. ledger' = <<line>> /\ Ends(w)
  BY DEF AppendLine, EmptyStore
<1>3. CallType' /\ ObservedOK'
  BY <1>2 DEF Ends, Pcs, ObservedOK
<1>0. Growing' => Growing
  BY <1>2, NoOtherWriter DEF Ends
<1>4. WriterOK' /\ AppendOK'
  <2>1. WriterOK'
    BY <1>2 DEF Ends, WriterOK, At, Data
  <2>2. ASSUME NEW x \in Workers, At(x, "append")', call'[x].record.counts PROVE Backed(Data(x))'
    <3>1. call'[x] = call[x]
      BY <1>2, <2>2 DEF Ends, At
    <3>2. Backed(Data(x)) /\ Data(x)' = Data(x)
      BY <2>2, <3>1 DEF AppendOK, At, Data
    <3> QED BY <1>0, <3>2, BackedStays
  <2> QED BY <2>1, <2>2 DEF AppendOK
<1>5. CASE line = None
  <2>1. TornStore'
    BY <1>2, <1>5 DEF AppendLine, EmptyStore, TornStore
  <2> QED BY <1>3, <1>4, <2>1 DEF StoreOK
<1>6. CASE line = call[w].record
  <2>1. line \in Record /\ line # None /\ Counted(line) /\ answers' = {line}
    BY <1>1, <1>6 DEF AppendLine, EmptyStore, Counted
  <2>2. line.counts => Backed(line.stdout)
    BY <1>6 DEF AppendOK, Data
  <2>3. Holding(line)'
    BY <1>0, <1>2, <2>1, <2>2, BackedStays DEF Holding
  <2> QED BY <1>3, <1>4, <2>1, <2>3 DEF StoreOK
<1> QED BY <1>5, <1>6

(* append, and a line that is torn. *)
LEMMA AppendKeeps ==
    ASSUME LedgerInv, NEW w \in Workers, AppendRecord(w) \/ AppendTears(w)
    PROVE  LedgerInv'
<1>1. At(w, "append") /\ UNCHANGED <<raw, unsettled>> /\ call[w].record # None
  BY NoneIsNoRecord DEF AppendRecord, AppendTears, LedgerInv, ObservedOK, At, Counted
<1>2. CASE EmptyStore
  <2>1. Loads /\ Existing = None
    BY <1>2, EmptyLoads DEF EmptyStore
  <2>2. PICK line : (line = None \/ line = call[w].record) /\ AppendLine(w, line)
    BY <1>1, <2>1 DEF AppendRecord, AppendTears
  <2> QED BY <1>1, <1>2, <2>2, LineKeeps
<1>3. CASE TornStore
  <2>1. ~Loads
    BY <1>3, TornDoesNotLoad DEF TornStore
  <2> QED BY <2>1, QuietKeeps DEF AppendRecord, AppendTears
<1>4. ASSUME NEW r \in Record, Holding(r) PROVE LedgerInv'
  <2>1. ledger = <<r>> /\ r # None
    BY <1>4, NoneIsNoRecord DEF Holding
  <2>2. Loads /\ Existing = r
    BY <2>1, RecordLoads
  <2>3. Ends(w) /\ UNCHANGED <<raw, unsettled, ledger>> /\ (answers' = answers \/ answers' = answers \cup {r})
    BY <2>1, <2>2 DEF AppendRecord, AppendTears
  <2> QED BY <2>1, <2>3, QuietKeeps
<1> QED BY <1>2, <1>3, <1>4 DEF LedgerInv, StoreOK

(* Every step keeps the children sound and the store in order. *)
LEMMA StepKeeps == ProcInv /\ LedgerInv /\ [Next]_vars => ProcInv' /\ LedgerInv'
<1> SUFFICES ASSUME ProcInv, LedgerInv, [Next]_vars PROVE ProcInv' /\ LedgerInv'
  OBVIOUS
<1>1. ASSUME UNCHANGED proc PROVE ProcInv'
  BY <1>1 DEF ProcInv
<1>2. ASSUME UNCHANGED <<call, raw, unsettled, ledger, answers>> PROVE LedgerInv'
  BY <1>2 DEF LedgerInv, CallType, ObservedOK, WriterOK, AppendOK, StoreOK, EmptyStore, TornStore,
              Holding, Backed, Growing, At, Data
<1>3. CASE UNCHANGED vars
  BY <1>1, <1>2, <1>3 DEF vars, ledgerVars
<1>4. ASSUME NEW w \in Workers, Begin(w) \/ FindRaw(w) \/ CreateRaw(w) \/ WriteRaw(w)
                                \/ AppendRecord(w) \/ AppendTears(w)
      PROVE  ProcInv' /\ LedgerInv'
  <2>1. UNCHANGED proc
    BY <1>4 DEF Begin, FindRaw, CreateRaw, WriteRaw, AppendRecord, AppendTears
  <2> QED BY <1>1, <1>4, <2>1, BeginKeeps, RawKeeps, AppendKeeps
<1>5. ASSUME NEW w \in Workers, AdapterRuns(w) \/ AdapterFails(w) PROVE ProcInv' /\ LedgerInv'
  BY <1>2, <1>5, LaunchKeeps, ThreadKeeps, JoinKeeps
     DEF AdapterRuns, AdapterFails, MainStep, ledgerVars
<1>6. ASSUME NEW w \in Workers, ChildStep(w) \/ ReaderStep(w) \/ ReaderFails(w)
      PROVE  ProcInv' /\ LedgerInv'
  BY <1>2, <1>6, ChildKeeps, DrainKeeps DEF ChildStep, ReaderStep, ReaderFails, ledgerVars
<1>7. ASSUME NEW w \in Workers, WriteRawFails(w) \/ Dies(w) PROVE ProcInv' /\ LedgerInv'
  <2>1. LedgerInv'
    BY <1>7, QuietKeeps DEF WriteRawFails, Dies
  <2> QED BY <1>1, <1>7, <2>1, NoChildIsSound, SetKeeps DEF WriteRawFails, Dies
<1> QED BY <1>3, <1>4, <1>5, <1>6, <1>7, ObserveKeeps DEF Next, CallStep

(* The invariants hold of every behaviour. *)
LEMMA LedgerInvariant == Spec => [](ProcInv /\ LedgerInv)
  BY LedgerInitial, StepKeeps, PTL DEF Spec

(***************************************************************************)
(* _run_bounded: output that is accepted after its reader ended is all     *)
(* that the child wrote and within the limit, for any chunk size and       *)
(* limit, however the exit of the child, its heirs, the overflow and the   *)
(* last read interleave.                                                   *)
(***************************************************************************)
THEOREM AcceptedOutputIsWhole == Spec => []AcceptedIsWhole
<1>1. ProcInv => AcceptedIsWhole
  BY DEF ProcInv, Sound, ReturnedOK, AcceptedIsWhole
<1> QED BY <1>1, LedgerInvariant, PTL

(***************************************************************************)
(* _terminate_process and _close_readers: no call that came to wait comes  *)
(* back with a child that runs and was not killed, on any path through     *)
(* deadline, overflow and the second termination; only the RuntimeError of *)
(* _start_readers leaves a child without a signal.                         *)
(***************************************************************************)
THEOREM CallsLeaveNothingRunning == Spec => []NothingLeftRunning
<1>1. ProcInv => NothingLeftRunning
  BY DEF ProcInv, Sound, KilledOK, NothingLeftRunning
<1> QED BY <1>1, LedgerInvariant, PTL

(***************************************************************************)
(* run_once: for any number of workers that race, fail and die, and a file *)
(* that grows by parts of any number, the token counts of a record were    *)
(* counted from bytes with which its raw event file begins, and which are  *)
(* all of it unless the file still grew when _write_raw compared them.     *)
(***************************************************************************)
THEOREM RecordsCountKeptBytes == Spec => []CountsAreOfKeptBytes
<1>1. LedgerInv => CountsAreOfKeptBytes
  <2> SUFFICES ASSUME LedgerInv, NEW i \in Lines, ledger[i].counts
               PROVE  Backed(ledger[i].stdout)
    BY DEF CountsAreOfKeptBytes, Backed
  <2>1. CASE Lines = {}
    BY <2>1
  <2>2. ASSUME NEW r \in Record, Holding(r) PROVE Backed(ledger[i].stdout)
    <3>1. ledger = <<r>> /\ r # None
      BY <2>2, NoneIsNoRecord DEF Holding
    <3>2. i = 1
      BY <3>1, RecordLoads
    <3> QED BY <2>2, <3>1, <3>2 DEF Holding
  <2> QED BY <2>1, <2>2, EmptyLoads, TornDoesNotLoad
          DEF LedgerInv, StoreOK, EmptyStore, TornStore
<1> QED BY <1>1, LedgerInvariant, PTL

(***************************************************************************)
(* RunStore.append: a run has at most one record, and every call of        *)
(* run_once that returned one returned that one, though any number of      *)
(* workers have found none.                                                *)
(***************************************************************************)
THEOREM RunsHaveOneRecord == Spec => []OneRecordPerRun
<1>1. LedgerInv => OneRecordPerRun
  <2> SUFFICES ASSUME LedgerInv PROVE OneRecordPerRun
    OBVIOUS
  <2>1. CASE Lines = {} /\ answers = {}
    BY <2>1, FS_EmptySet DEF OneRecordPerRun
  <2>2. ASSUME NEW r \in Record, Holding(r) PROVE OneRecordPerRun
    <3>1. ledger = <<r>> /\ r # None /\ answers \subseteq {r}
      BY <2>2, NoneIsNoRecord DEF Holding
    <3>2. Cardinality(Lines) = 1 /\ Existing = r
      BY <3>1, RecordLoads
    <3> QED BY <3>1, <3>2 DEF OneRecordPerRun
  <2> QED BY <2>1, <2>2, EmptyLoads, TornDoesNotLoad
          DEF LedgerInv, StoreOK, EmptyStore, TornStore
<1> QED BY <1>1, LedgerInvariant, PTL

-----------------------------------------------------------------------------
(* How far a call is from its end *)

(* The places of the calling thread, from the last to the first; until the *)
(* readers are closed all of them are still ahead once more.               *)
PlaceNo ==
    [ m \in Mains |-> CASE m = "none" -> 8 [] m = "starting" -> 7 [] m = "waiting" -> 6 [] m = "terminate" -> 5
                        [] m = "terminated" -> 4 [] m = "killed" -> 3 [] m = "closing" -> 2
                        [] m = "joining" -> 1 [] OTHER -> 0 ]

ThreadNo(p) == IF p.closing \/ p.main = "done" THEN PlaceNo[p.main] ELSE 9 + PlaceNo[p.main]

(* The places of run_once; within the adapter the thread counts. *)
CallNo(c, p) ==
    CASE c.pc = "adapter" -> 5 + ThreadNo(p)
      [] c.pc = "raw"     -> 4
      [] c.pc = "create"  -> 3
      [] c.pc = "write"   -> 2
      [] c.pc = "append"  -> 1
      [] OTHER            -> 0

(* Closing is the last part: the thread neither waits nor closes again. *)
ClosedOnce ==
    \A w \in Workers : proc[w].main \in {"none", "starting", "waiting", "closing"} => ~proc[w].closing

(* What the writer of the raw file has not yet written. *)
Unwritten(w) == Size(Data(w)) - Size(raw)

(* A further part of the raw file. *)
PartWritten(w) ==
    /\ At(w, "write") /\ call'[w] = call[w]
    /\ Unwritten(w) \in Nat /\ Unwritten(w)' \in Nat /\ Unwritten(w)' < Unwritten(w)

(* A step of its own, or its deadline, brings a call nearer to its end, or  *)
(* leaves less to write; no step of anybody takes it back or makes it more. *)
CallForward(w) ==
    /\ CallStep(w) \/ AdapterFails(w) \/ Dies(w)
         => CallNo(call'[w], proc'[w]) < CallNo(call[w], proc[w]) \/ PartWritten(w)
    /\ ~At(w, "idle") => CallNo(call'[w], proc'[w]) <= CallNo(call[w], proc[w])
    /\ At(w, "write") /\ At(w, "write")' => Unwritten(w)' <= Unwritten(w)

(* The numbers of the places. *)
LEMMA PlaceNumbers ==
    /\ PlaceNo["none"] = 8 /\ PlaceNo["starting"] = 7 /\ PlaceNo["waiting"] = 6
    /\ PlaceNo["terminate"] = 5 /\ PlaceNo["terminated"] = 4 /\ PlaceNo["killed"] = 3 /\ PlaceNo["closing"] = 2
    /\ PlaceNo["joining"] = 1 /\ PlaceNo["done"] = 0
  BY DEF PlaceNo, Mains

(* They are numbers. *)
LEMMA NumbersAreNumbers ==
    ASSUME NEW p \in Child, NEW c
    PROVE  ThreadNo(p) \in Nat /\ CallNo(c, p) \in Nat
           /\ (c.pc = "adapter" => CallNo(c, p) >= 5) /\ (c.pc # "adapter" => CallNo(c, p) <= 4)
<1>1. p.main \in Mains
  BY DEF Child
<1>2. ThreadNo(p) \in Nat
  BY <1>1, PlaceNumbers DEF ThreadNo, Mains
<1> QED BY <1>2 DEF CallNo

(* What a worker's step leaves of the others. *)
LEMMA SetOthers ==
    ASSUME ProcInv, NEW w \in Workers, NEW q, Set(w, q)
    PROVE  proc'[w] = q /\ \A u \in Workers \ {w} : proc'[u] = proc[u]
  BY DEF ProcInv, Set

(* A worker without a child is at the first place. *)
LEMMA NoChildPlace == NoChild.main = "none" /\ ~NoChild.closing
  BY DEF NoChild

(* A step of one calling thread leaves the other workers alone. *)
LEMMA ThreadIsOne ==
    ASSUME ProcInv, NEW w \in Workers,
           MainStep(w) \/ LaunchFails(w) \/ StartReadersFails(w) \/ DeadlineSeen(w)
    PROVE  \A u \in Workers \ {w} : proc'[u] = proc[u]
<1>1. CASE Join(w)
  BY <1>1, SetOthers DEF Join
<1>2. CASE Terminate(w)
  BY <1>2, SetOthers DEF Terminate
<1> QED BY <1>1, <1>2, SetOthers
        DEF MainStep, Launch, LaunchFails, StartReaders, StartReadersFails, WaitEnds, OverflowSeen, DeadlineSeen, CloseReaders

(* The child, its heirs and the reader do not move the calling thread. *)
LEMMA ChildLeavesThread ==
    ASSUME ProcInv, NEW w \in Workers,
           ChildWrites(w) \/ ChildExits(w) \/ HolderLeaves(w) \/ Drain(w) \/ DrainFails(w)
    PROVE  \A u \in Workers : proc'[u].main = proc[u].main /\ proc'[u].closing = proc[u].closing
<1>1. PICK p : p = proc[w]
  OBVIOUS
<1>2. p \in Child
  BY <1>1 DEF ProcInv, Sound
<1>3. proc \in [Workers -> Child] /\ w \in Workers
  BY DEF ProcInv
<1>4. CASE ChildWrites(w)
  BY <1>1, <1>2, <1>3, <1>4 DEF ChildWrites, Set, Child
<1>5. CASE ChildExits(w)
  <2>1. PICK status, held :
          Set(w, [p EXCEPT !.child = IF p.signal = "none" THEN status ELSE "failed", !.held = held])
    BY <1>1, <1>5 DEF ChildExits
  <2> QED BY <1>1, <1>2, <1>3, <2>1 DEF Set, Child
<1>6. CASE HolderLeaves(w)
  <2>1. Set(w, [p EXCEPT !.held = FALSE])
    BY <1>1, <1>6 DEF HolderLeaves
  <2> QED BY <1>1, <1>2, <1>3, <2>1 DEF Set, Child
<1>7. CASE DrainFails(w)
  <2>1. Set(w, [p EXCEPT !.overflow = TRUE, !.reader = "ended"])
    BY <1>1, <1>7 DEF DrainFails
  <2> QED BY <1>1, <1>2, <1>3, <2>1 DEF Set, Child
<1>8. CASE Drain(w)
  <2>1. ASSUME NEW n PROVE Received(p, n).main = p.main /\ Received(p, n).closing = p.closing
    BY <1>2 DEF Received, Child
  <2>2. [p EXCEPT !.reader = "ended"].main = p.main /\ [p EXCEPT !.reader = "ended"].closing = p.closing
    BY <1>2 DEF Child
  <2>3. PICK q : Set(w, q) /\ q.main = p.main /\ q.closing = p.closing
    <3>1. CASE Set(w, Received(p, Wanted(p)))
      BY <2>1, <3>1
    <3>2. CASE Set(w, Received(p, Unread(p)))
      BY <2>1, <3>2
    <3>3. CASE Set(w, [p EXCEPT !.reader = "ended"])
      BY <2>2, <3>3
    <3> QED BY <1>1, <1>8, <3>1, <3>2, <3>3 DEF Drain
  <2> QED BY <1>1, <2>3, SetOthers
<1> QED BY <1>4, <1>5, <1>6, <1>7, <1>8

(* A step of the calling thread brings it forward, and closes once. *)
LEMMA ThreadForward ==
    ASSUME ProcInv, ClosedOnce, NEW w \in Workers,
           MainStep(w) \/ LaunchFails(w) \/ StartReadersFails(w) \/ DeadlineSeen(w)
    PROVE  ThreadNo(proc'[w]) < ThreadNo(proc[w]) /\ ClosedOnce'
<1>1. PICK p : p = proc[w]
  OBVIOUS
<1>2. p \in Child /\ (p.main \in {"none", "starting", "waiting", "closing"} => ~p.closing)
  BY <1>1 DEF ProcInv, Sound, ClosedOnce
<1>3. proc \in [Workers -> Child]
  BY DEF ProcInv
<1>4. /\ ThreadNo(proc'[w]) < ThreadNo(p)
      /\ proc'[w].main \in {"none", "starting", "waiting", "closing"} => ~proc'[w].closing
  <2>0. ASSUME NEW q, Set(w, q) PROVE proc'[w] = q
    BY <2>0, SetOthers
  <2>1. CASE Launch(w) \/ LaunchFails(w)
    <3>1. p.main = "none" /\ proc'[w].main \in {"starting", "done"} /\ ~proc'[w].closing
      BY <1>1, <1>3, <2>1 DEF Launch, LaunchFails, NoChild, Set
    <3> QED BY <1>2, <3>1, PlaceNumbers DEF ThreadNo
  <2>7. CASE StartReaders(w)
    <3>1. proc'[w].main = "waiting" /\ proc'[w].closing = p.closing /\ p.main = "starting"
      BY <1>1, <1>2, <1>3, <2>7 DEF StartReaders, Set, Child
    <3> QED BY <1>2, <3>1, PlaceNumbers DEF ThreadNo
  <2>8. CASE StartReadersFails(w)
    <3>1. p.main = "starting" /\ proc'[w].main = "done"
      BY <1>1, <1>3, <2>8 DEF StartReadersFails, NoChild, Set
    <3> QED BY <1>2, <3>1, PlaceNumbers DEF ThreadNo
  <2>2. CASE WaitEnds(w)
    BY <1>1, <1>2, <1>3, <2>2, PlaceNumbers DEF WaitEnds, Set, ThreadNo, Child
  <2>3. CASE OverflowSeen(w) \/ DeadlineSeen(w)
    <3>1. PICK e : p.main = "waiting" /\ Set(w, [p EXCEPT !.main = "terminate", !.error = e])
      BY <1>1, <2>3 DEF OverflowSeen, DeadlineSeen
    <3>2. proc'[w].main = "terminate" /\ proc'[w].closing = p.closing
      BY <1>2, <2>0, <3>1 DEF Child
    <3> QED BY <1>2, <3>1, <3>2, PlaceNumbers DEF ThreadNo
  <2>4. CASE Terminate(w)
    <3>1. ASSUME NEW m \in Mains, NEW s, Set(w, [p EXCEPT !.main = m, !.signal = s])
          PROVE  proc'[w].main = m /\ proc'[w].closing = p.closing
      BY <1>2, <2>0, <3>1 DEF Child
    <3>2. ASSUME NEW m \in Mains, Set(w, [p EXCEPT !.main = m])
          PROVE  proc'[w].main = m /\ proc'[w].closing = p.closing
      BY <1>2, <2>0, <3>2 DEF Child
    <3>3. CASE p.main = "terminate"
      <4>1. Set(w, [p EXCEPT !.main = "terminated", !.signal = IF @ = "kill" THEN @ ELSE "term"])
        BY <1>1, <2>4, <3>3 DEF Terminate
      <4>2. proc'[w].main = "terminated" /\ proc'[w].closing = p.closing
        BY <1>2, <2>0, <4>1 DEF Child
      <4> QED BY <3>3, <4>2, PlaceNumbers DEF ThreadNo
    <3>4. CASE p.main # "terminate"
      <4>1. \/ p.main \in {"terminated", "killed"} /\ Set(w, [p EXCEPT !.main = Ended(p)])
            \/ p.main = "terminated" /\ Set(w, [p EXCEPT !.main = "killed", !.signal = "kill"])
        BY <1>1, <2>4, <3>4 DEF Terminate
      <4>2. CASE p.main \in {"terminated", "killed"} /\ Set(w, [p EXCEPT !.main = Ended(p)])
        <5>1. proc'[w].main = Ended(p) /\ proc'[w].closing = p.closing
          BY <3>2, <4>2 DEF Ended, Mains
        <5>2. CASE p.closing
          BY <4>2, <5>1, <5>2, PlaceNumbers DEF Ended, ThreadNo
        <5>3. CASE ~p.closing
          BY <4>2, <5>1, <5>3, PlaceNumbers DEF Ended, ThreadNo
        <5> QED BY <5>2, <5>3
      <4>3. CASE p.main = "terminated" /\ Set(w, [p EXCEPT !.main = "killed", !.signal = "kill"])
        <5>1. proc'[w].main = "killed" /\ proc'[w].closing = p.closing
          BY <3>1, <4>3 DEF Mains
        <5> QED BY <4>3, <5>1, PlaceNumbers DEF ThreadNo
      <4> QED BY <4>1, <4>2, <4>3
    <3> QED BY <3>3, <3>4
  <2>5. CASE CloseReaders(w)
    BY <1>1, <1>2, <1>3, <2>5, PlaceNumbers DEF CloseReaders, Set, ThreadNo, Child
  <2>6. CASE Join(w)
    <3>1. proc'[w].main = "done" /\ p.main = "joining"
      BY <1>1, <1>3, <2>6 DEF Join, NoChild, Set
    <3> QED BY <3>1, PlaceNumbers DEF ThreadNo
  <2> QED BY <2>1, <2>2, <2>3, <2>4, <2>5, <2>6, <2>7, <2>8 DEF MainStep
<1>5. \A u \in Workers \ {w} : proc'[u] = proc[u]
  BY ThreadIsOne
<1> QED BY <1>1, <1>4, <1>5 DEF ClosedOnce

(* Every step keeps this: a child that is given up leaves the first place. *)
LEMMA ClosedOnceKept == ASSUME ProcInv, ClosedOnce, [Next]_vars PROVE ClosedOnce'
<1>1. CASE UNCHANGED proc
  BY <1>1 DEF ClosedOnce
<1>2. ASSUME NEW w \in Workers, AdapterRuns(w) \/ AdapterFails(w) PROVE ClosedOnce'
  BY <1>2, ThreadForward DEF AdapterRuns, AdapterFails
<1>3. ASSUME NEW w \in Workers, ChildStep(w) \/ ReaderStep(w) \/ ReaderFails(w) PROVE ClosedOnce'
  BY <1>3, ChildLeavesThread DEF ChildStep, ReaderStep, ReaderFails, ClosedOnce
<1>4. ASSUME NEW w \in Workers, Observe(w) \/ Dies(w) PROVE ClosedOnce'
  <2>1. Set(w, NoChild)
    BY <1>4 DEF Observe, Dies
  <2> QED BY <2>1, SetOthers, NoChildPlace DEF ClosedOnce
<1>5. ASSUME NEW w \in Workers,
             Begin(w) \/ FindRaw(w) \/ CreateRaw(w) \/ WriteRaw(w) \/ AppendRecord(w)
             \/ WriteRawFails(w) \/ AppendTears(w)
      PROVE  UNCHANGED proc
  BY <1>5 DEF Begin, FindRaw, CreateRaw, WriteRaw, AppendRecord, WriteRawFails, AppendTears
<1> QED BY <1>1, <1>2, <1>3, <1>4, <1>5 DEF Next, CallStep, vars

(* A part that is written is one less to write. *)
LEMMA PartIsWritten ==
    ASSUME LedgerInv, NEW w \in Workers, WriteRaw(w), Size(raw) < Size(Data(w))
    PROVE  PartWritten(w)
<1>1. At(w, "write") /\ raw' = <<Data(w)[1], Size(raw) + 1>> /\ UNCHANGED call
  BY DEF WriteRaw
<1>2. raw \in Bytes /\ Data(w) \in Bytes
  BY <1>1 DEF LedgerInv, WriterOK, ObservedOK, At, Counted, Record, Data
<1>3. Size(raw) \in Nat /\ Size(Data(w)) \in Nat
  BY <1>2 DEF Bytes, Size
<1>4. Size(raw)' = Size(raw) + 1 /\ Size(Data(w))' = Size(Data(w))
  BY <1>1 DEF Size, Data
<1> QED BY <1>1, <1>3, <1>4 DEF PartWritten, Unwritten

(* Nobody but the writer changes the file. *)
LEMMA OneWrites ==
    ASSUME LedgerInv, NEW w \in Workers, At(w, "write"), At(w, "write")', Next
    PROVE  Unwritten(w)' <= Unwritten(w)
<1>0. /\ call \in [Workers -> [pc : Pcs, record : Record \cup {None}]]
      /\ raw \in Bytes /\ Data(w) \in Bytes /\ raw # None
  BY NoneIsNoRecord DEF LedgerInv, CallType, WriterOK, ObservedOK, At, Counted, Record, Data
<1>1. Unwritten(w) \in Int
  BY <1>0 DEF Unwritten, Size, Bytes
<1>2. CASE WriteRaw(w) /\ Size(raw) < Size(Data(w))
  BY <1>1, <1>2, PartIsWritten DEF PartWritten
<1>3. CASE UNCHANGED raw /\ call'[w] = call[w]
  BY <1>1, <1>3 DEF Unwritten, Data
<1>4. ASSUME NEW u \in Workers, CreateRaw(u) \/ WriteRaw(u), u # w
      PROVE  UNCHANGED raw /\ call'[w] = call[w]
  <2>1. ~At(u, "write")
    BY <1>4 DEF LedgerInv, WriterOK
  <2> QED BY <1>0, <1>4, <2>1 DEF CreateRaw, WriteRaw, Goes, Ends
<1>5. ASSUME NEW u \in Workers,
             Begin(u) \/ AdapterRuns(u) \/ AdapterFails(u) \/ Observe(u) \/ FindRaw(u)
             \/ AppendRecord(u) \/ AppendTears(u) \/ WriteRawFails(u) \/ Dies(u)
             \/ ChildStep(u) \/ ReaderStep(u) \/ ReaderFails(u)
      PROVE  UNCHANGED raw
  BY <1>5 DEF Begin, AdapterRuns, AdapterFails, Observe, FindRaw, AppendRecord, AppendTears,
              WriteRawFails, Dies, ChildStep, ReaderStep, ReaderFails, ledgerVars
<1>6. ASSUME NEW u \in Workers, u # w,
             Begin(u) \/ AdapterRuns(u) \/ AdapterFails(u) \/ Observe(u) \/ FindRaw(u)
             \/ AppendRecord(u) \/ AppendTears(u) \/ WriteRawFails(u) \/ Dies(u)
             \/ ChildStep(u) \/ ReaderStep(u) \/ ReaderFails(u)
      PROVE  call'[w] = call[w]
  BY <1>0, <1>6 DEF Begin, AdapterRuns, AdapterFails, Observe, FindRaw, AppendRecord, AppendTears,
              AppendLine, WriteRawFails, Dies, ChildStep, ReaderStep, ReaderFails, ledgerVars, Goes, Ends
<1>7. ASSUME Begin(w) \/ AdapterRuns(w) \/ AdapterFails(w) \/ Observe(w) \/ FindRaw(w)
             \/ AppendRecord(w) \/ AppendTears(w) \/ WriteRawFails(w) \/ Dies(w)
             \/ ChildStep(w) \/ ReaderStep(w) \/ ReaderFails(w) \/ CreateRaw(w)
      PROVE  UNCHANGED raw /\ call'[w] = call[w]
  <2>1. CASE Begin(w) \/ AdapterRuns(w) \/ AdapterFails(w) \/ Observe(w) \/ FindRaw(w)
             \/ AppendRecord(w) \/ AppendTears(w) \/ CreateRaw(w)
    BY <2>1 DEF Begin, AdapterRuns, AdapterFails, Observe, FindRaw, AppendRecord, AppendTears,
                CreateRaw, At
  <2>2. CASE WriteRawFails(w) \/ Dies(w)
    BY <1>0, <2>2 DEF WriteRawFails, Dies, Ends, At
  <2>3. CASE ChildStep(w) \/ ReaderStep(w) \/ ReaderFails(w)
    BY <2>3 DEF ChildStep, ReaderStep, ReaderFails, ledgerVars
  <2> QED BY <1>7, <2>1, <2>2, <2>3
<1>8. CASE WriteRaw(w) /\ ~(Size(raw) < Size(Data(w)))
  BY <1>0, <1>8 DEF WriteRaw, Goes, At
<1>9. CASE UNCHANGED vars
  BY <1>3, <1>9 DEF vars, ledgerVars
<1> QED BY <1>2, <1>3, <1>4, <1>5, <1>6, <1>7, <1>8, <1>9 DEF Next, CallStep

(* A step of its own brings a call nearer to its end. *)
LEMMA OwnForward ==
    ASSUME ProcInv, LedgerInv, ClosedOnce, ProcInv', NEW w \in Workers,
           CallStep(w) \/ AdapterFails(w) \/ WriteRawFails(w) \/ AppendTears(w) \/ Dies(w)
    PROVE  CallNo(call'[w], proc'[w]) < CallNo(call[w], proc[w]) \/ PartWritten(w)
<1>0. call \in [Workers -> [pc : Pcs, record : Record \cup {None}]]
      /\ proc[w] \in Child /\ proc'[w] \in Child
  BY DEF LedgerInv, CallType, ProcInv, Sound
<1>1. CASE AdapterRuns(w) \/ AdapterFails(w)
  <2>1. ThreadNo(proc'[w]) < ThreadNo(proc[w]) /\ call' = call /\ At(w, "adapter")
    BY <1>1, ThreadForward DEF AdapterRuns, AdapterFails, ledgerVars
  <2>2. ThreadNo(proc'[w]) \in Nat /\ ThreadNo(proc[w]) \in Nat
    BY <1>0, NumbersAreNumbers
  <2> QED BY <2>1, <2>2 DEF CallNo, At
<1>2. CASE Observe(w)
  <2>1. call[w].pc = "adapter" /\ call'[w].pc \in {"raw", "idle"}
    BY <1>0, <1>2 DEF Observe, Ends, At
  <2> QED BY <1>0, <2>1, NumbersAreNumbers
<1>3. CASE FindRaw(w)
  <2>1. call[w].pc = "raw" /\ call'[w].pc \in {"create", "append", "idle"}
    BY <1>0, <1>3 DEF FindRaw, Ends, Goes, At
  <2> QED BY <2>1 DEF CallNo
<1>4. CASE CreateRaw(w)
  <2>1. call[w].pc = "create" /\ call'[w].pc \in {"write", "idle"}
    BY <1>0, <1>4 DEF CreateRaw, Ends, Goes, At
  <2> QED BY <2>1 DEF CallNo
<1>5. CASE WriteRaw(w) /\ Size(raw) < Size(Data(w))
  BY <1>5, PartIsWritten
<1>8. CASE (WriteRaw(w) /\ ~(Size(raw) < Size(Data(w)))) \/ WriteRawFails(w)
  <2>1. call[w].pc = "write" /\ call'[w].pc \in {"append", "idle"}
    BY <1>0, <1>8 DEF WriteRaw, WriteRawFails, Ends, Goes, At
  <2> QED BY <2>1 DEF CallNo
<1>6. CASE AppendRecord(w) \/ AppendTears(w)
  <2>1. call[w].pc = "append" /\ call'[w].pc = "idle"
    BY <1>0, <1>6 DEF AppendRecord, AppendTears, AppendLine, Ends, At
  <2> QED BY <2>1 DEF CallNo
<1>7. CASE Dies(w)
  <2>1. call[w].pc \in Pcs \ {"idle"} /\ call'[w].pc = "idle"
    BY <1>0, <1>7 DEF Dies, Ends, At
  <2>2. CASE call[w].pc = "adapter"
    BY <1>0, <2>1, <2>2, NumbersAreNumbers
  <2>3. CASE call[w].pc # "adapter"
    BY <2>1, <2>3 DEF CallNo, Pcs
  <2> QED BY <2>2, <2>3
<1> QED BY <1>1, <1>2, <1>3, <1>4, <1>5, <1>6, <1>7, <1>8 DEF CallStep

(* A worker leaves the calls of the others alone. *)
LEMMA OthersUnmoved ==
    ASSUME ProcInv, LedgerInv, NEW u \in Workers, NEW w \in Workers \ {u},
           Begin(u) \/ CallStep(u) \/ AdapterFails(u) \/ WriteRawFails(u) \/ AppendTears(u) \/ Dies(u)
    PROVE  call'[w] = call[w] /\ proc'[w] = proc[w]
<1>1. call'[w] = call[w]
  <2>1. call \in [Workers -> [pc : Pcs, record : Record \cup {None}]]
    BY DEF LedgerInv, CallType
  <2> QED BY <2>1 DEF Begin, CallStep, AdapterRuns, AdapterFails, Observe, FindRaw, CreateRaw, WriteRaw,
                      AppendRecord, AppendTears, AppendLine, WriteRawFails, Dies, Ends, Goes, ledgerVars
<1>2. proc'[w] = proc[w]
  <2>1. CASE AdapterRuns(u) \/ AdapterFails(u)
    BY <2>1, ThreadIsOne DEF AdapterRuns, AdapterFails
  <2>2. CASE Observe(u) \/ Dies(u)
    BY <2>2, SetOthers DEF Observe, Dies
  <2>3. CASE UNCHANGED proc
    BY <2>3
  <2> QED BY <2>1, <2>2, <2>3
          DEF Begin, CallStep, FindRaw, CreateRaw, WriteRaw, AppendRecord, AppendTears, WriteRawFails
<1> QED BY <1>1, <1>2

(***************************************************************************)
(* run_once goes only forward, for any number of workers: every step of a  *)
(* call, its deadline included, lowers the number of its place, or writes  *)
(* a further part of the raw file, and no step of a child, of a reader or  *)
(* of another worker raises it or what is left to write.  So               *)
(* _terminate_process and _close_readers, which terminates a second time,  *)
(* never go round in a circle over a child that ignores its signals.       *)
(***************************************************************************)
THEOREM CallsGoForward == Spec => [][\A w \in Workers : CallForward(w)]_vars
<1>1. Init => ClosedOnce
  BY NoChildPlace DEF Init, ProcInit, ClosedOnce
<1>2. ProcInv /\ LedgerInv /\ ClosedOnce /\ [Next]_vars => ClosedOnce'
  BY ClosedOnceKept
<1>3. ProcInv /\ LedgerInv /\ ProcInv' /\ ClosedOnce /\ [Next]_vars
        => [\A w \in Workers : CallForward(w)]_vars
  <2> SUFFICES ASSUME ProcInv, LedgerInv, ProcInv', ClosedOnce, Next, NEW w \in Workers
               PROVE  CallForward(w)
    OBVIOUS
  <2>0. CallNo(call'[w], proc'[w]) \in Nat /\ CallNo(call[w], proc[w]) \in Nat
    BY NumbersAreNumbers DEF ProcInv, Sound
  <2>8. At(w, "write") /\ At(w, "write")' => Unwritten(w)' <= Unwritten(w)
    BY OneWrites
  <2>1. CASE CallStep(w) \/ AdapterFails(w) \/ WriteRawFails(w) \/ AppendTears(w) \/ Dies(w)
    <3>1. CASE PartWritten(w)
      <4>1. CallNo(call'[w], proc'[w]) = CallNo(call[w], proc[w])
        BY <3>1 DEF PartWritten, CallNo, At
      <4> QED BY <2>0, <2>8, <3>1, <4>1 DEF CallForward
    <3>2. CASE CallNo(call'[w], proc'[w]) < CallNo(call[w], proc[w])
      BY <2>0, <2>8, <3>2 DEF CallForward
    <3> QED BY <2>1, <3>1, <3>2, OwnForward
  <2>2. CASE ~(CallStep(w) \/ AdapterFails(w) \/ Dies(w)) /\ call'[w] = call[w]
             /\ proc'[w].main = proc[w].main /\ proc'[w].closing = proc[w].closing
    BY <2>0, <2>2, <2>8 DEF CallForward, CallNo, ThreadNo
  <2>3. CASE ~(CallStep(w) \/ AdapterFails(w) \/ Dies(w)) /\ At(w, "idle")
    BY <2>3 DEF CallForward, At
  <2>4. ASSUME NEW u \in Workers, ChildStep(u) \/ ReaderStep(u) \/ ReaderFails(u)
        PROVE  call'[w] = call[w]
               /\ proc'[w].main = proc[w].main /\ proc'[w].closing = proc[w].closing
    BY <2>4, ChildLeavesThread DEF ChildStep, ReaderStep, ReaderFails, ledgerVars
  <2>5. ASSUME NEW u \in Workers, u # w,
               Begin(u) \/ CallStep(u) \/ AdapterFails(u) \/ WriteRawFails(u) \/ AppendTears(u)
               \/ Dies(u)
        PROVE  call'[w] = call[w] /\ proc'[w] = proc[w]
    BY <2>5, OthersUnmoved
  <2>6. CASE Begin(w) \/ UNCHANGED vars
    BY <2>1, <2>2, <2>3, <2>6 DEF Begin, vars, ledgerVars
  <2>7. CASE ~(Begin(w) \/ UNCHANGED vars) /\ ~(CallStep(w) \/ AdapterFails(w) \/ WriteRawFails(w)
             \/ AppendTears(w) \/ Dies(w))
    <3>1. PICK u \in Workers : \/ Begin(u) \/ CallStep(u) \/ AdapterFails(u)
                               \/ WriteRawFails(u) \/ AppendTears(u) \/ Dies(u)
                               \/ ChildStep(u) \/ ReaderStep(u) \/ ReaderFails(u)
      BY <2>7 DEF Next
    <3>2. CASE ChildStep(u) \/ ReaderStep(u) \/ ReaderFails(u)
      BY <2>2, <2>4, <2>7, <3>2
    <3>3. CASE ~(ChildStep(u) \/ ReaderStep(u) \/ ReaderFails(u))
      BY <2>2, <2>5, <2>7, <3>1, <3>3
    <3> QED BY <3>2, <3>3
  <2> QED BY <2>1, <2>6, <2>7
<1> QED BY <1>1, <1>2, <1>3, LedgerInvariant, PTL DEF Spec
=============================================================================
