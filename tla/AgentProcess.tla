---------------------------- MODULE AgentProcess ----------------------------
(***************************************************************************)
(* The bounded child process of adapters/base.py: _run_bounded with its    *)
(* reader thread, _wait_bounded, _terminate_process and _close_readers, as *)
(* ProcessAgentAdapter.run uses it.                                        *)
(*                                                                         *)
(* Workers are the calling processes, each with at most one child.  The    *)
(* pipes of the child behave alike and share one overflow event: one is    *)
(* modelled.  Its bytes are counted; what is written is told apart by the  *)
(* variant of the child that writes it.                                    *)
(***************************************************************************)
EXTENDS Naturals

CONSTANTS
    Workers,
    Variants,      \* what a child may write
    Chunk,         \* _READ_CHUNK_BYTES: a read returns so much, or less at the end
    EventLimit,    \* MAX_EVENT_BYTES
    StdoutLimit,   \* MAX_STDOUT_BYTES
    MaxWritten     \* bound: what a child writes

ASSUME LimitsAssumption ==
    /\ Chunk \in Nat \ {0} /\ StdoutLimit \in Nat \ {0}
    /\ EventLimit \in Nat /\ MaxWritten \in Nat

VARIABLE proc      \* what each worker keeps about its child, and the child

NoChild ==
    [ main |-> "none", child |-> "none", written |-> 0, held |-> FALSE, reader |-> "ended",
      buffer |-> 0, overflow |-> FALSE, signal |-> "none", error |-> "", variant |-> "none",
      counts |-> FALSE, closing |-> FALSE, whole |-> FALSE, taken |-> 0 ]

ProcInit == proc = [ w \in Workers |-> NoChild ]

Least(m, n) == IF m < n THEN m ELSE n

Set(w, p) == proc' = [proc EXCEPT ![w] = p]

-----------------------------------------------------------------------------
(* The child, and whoever it leaves behind with its end of the pipe.  What *)
(* they do once the call has returned is seen by nobody.                   *)
Watched(p) == p.main \notin {"none", "done"}

Open(p) == p.child = "running" \/ p.held

ChildWrites(w) ==
    LET p == proc[w]
    IN  /\ Watched(p) /\ Open(p) /\ p.written < MaxWritten
        /\ Set(w, [p EXCEPT !.written = @ + 1])

ChildExits(w) ==
    LET p == proc[w]
    IN  /\ Watched(p) /\ p.child = "running"
        /\ \E status \in {"exited", "failed"}, held \in BOOLEAN :
             Set(w, [p EXCEPT !.child = IF p.signal = "none" THEN status ELSE "failed",
                              !.held = held])

HolderLeaves(w) ==
    Watched(proc[w]) /\ proc[w].held /\ Set(w, [proc[w] EXCEPT !.held = FALSE])

-----------------------------------------------------------------------------
(* _drain_limited.  A read waits for all it asked for, or for the end.     *)
Wanted(p) == Least(Chunk, EventLimit - p.buffer + 1)
Unread(p) == p.written - p.buffer

Received(p, chunk) ==
    IF chunk > EventLimit - p.buffer
    THEN [p EXCEPT !.buffer = EventLimit, !.overflow = TRUE, !.reader = "ended"]
    ELSE [p EXCEPT !.buffer = @ + chunk]

Drain(w) ==
    LET p == proc[w]
    IN  /\ Watched(p) /\ p.reader = "reading"
        /\ \/ Unread(p) >= Wanted(p) /\ Set(w, Received(p, Wanted(p)))
           \/ /\ Unread(p) < Wanted(p) /\ ~Open(p)
              /\ Set(w, IF Unread(p) = 0 THEN [p EXCEPT !.reader = "ended"]
                        ELSE Received(p, Unread(p)))

DrainFails(w) ==
    /\ Watched(proc[w]) /\ proc[w].reader = "reading"
    /\ Set(w, [proc[w] EXCEPT !.overflow = TRUE, !.reader = "ended"])

-----------------------------------------------------------------------------
(* The calling thread.                                                     *)
(* Children of different workers do not interact: one runs at a time.      *)
(* The child runs before anyone reads its pipe.                            *)
Launch(w) ==
    /\ proc[w].main = "none"
    /\ \A u \in Workers : ~Watched(proc[u])
    /\ Set(w, [NoChild EXCEPT !.main = "starting", !.child = "running", !.reader = "unborn"])

LaunchFails(w) ==
    /\ proc[w].main = "none"
    /\ Set(w, [NoChild EXCEPT !.main = "done", !.error = "ADAPTER_BINARY_NOT_FOUND"])

StartReaders(w) ==
    /\ proc[w].main = "starting"
    /\ Set(w, [proc[w] EXCEPT !.main = "waiting", !.reader = "reading"])

(* Thread.start raises.  _run_bounded is not yet in its try: nobody signals *)
(* the child or waits for it.                                              *)
StartReadersFails(w) ==
    /\ proc[w].main = "starting"
    /\ Set(w, [NoChild EXCEPT !.main = "done", !.child = proc[w].child, !.error = "RuntimeError"])

(* _wait_bounded polls the child, then the event, then the clock. *)
WaitEnds(w) ==
    LET p == proc[w]
    IN  /\ p.main = "waiting" /\ p.child # "running"
        /\ Set(w, [p EXCEPT !.main = "closing",
                            !.error = IF p.overflow THEN "ADAPTER_OUTPUT_LIMIT" ELSE @])

OverflowSeen(w) ==
    LET p == proc[w]
    IN  /\ p.main = "waiting" /\ p.child = "running" /\ p.overflow
        /\ Set(w, [p EXCEPT !.main = "terminate", !.error = "ADAPTER_OUTPUT_LIMIT"])

DeadlineSeen(w) ==
    LET p == proc[w]
    IN  /\ p.main = "waiting" /\ p.child = "running"
        /\ Set(w, [p EXCEPT !.main = "terminate", !.error = "ADAPTER_TIMEOUT"])

(* After _terminate_process: _close_readers, or back in it, the join. *)
Ended(p) == IF p.closing THEN "joining" ELSE "closing"

(* Mutant: a child that outlives the first wait is not killed. *)
TerminateOnly(w) ==
    LET p == proc[w]
    IN  \/ /\ p.main = "terminate"
           /\ Set(w, [p EXCEPT !.main = "terminated", !.signal = "term"])
        \/ /\ p.main = "terminated"
           /\ Set(w, [p EXCEPT !.main = Ended(p)])

(* Mutant: the last wait has no timeout. *)
TerminateWaits(w) ==
    LET p == proc[w]
    IN  \/ /\ p.main = "terminate"
           /\ Set(w, [p EXCEPT !.main = "terminated", !.signal = "term"])
        \/ /\ p.main = "terminated" /\ p.child = "running"
           /\ Set(w, [p EXCEPT !.main = "killed", !.signal = "kill"])
        \/ /\ p.main \in {"terminated", "killed"} /\ p.child # "running"
           /\ Set(w, [p EXCEPT !.main = Ended(p)])

(* _terminate_process: terminate, wait, kill, wait, and give up. *)
Terminate(w) ==
    LET p == proc[w]
    IN  \/ /\ p.main = "terminate"
           /\ Set(w, [p EXCEPT !.main = "terminated",
                               !.signal = IF @ = "kill" THEN @ ELSE "term"])
        \/ /\ p.main = "terminated" /\ p.child # "running"
           /\ Set(w, [p EXCEPT !.main = Ended(p)])
        \/ /\ p.main = "terminated" /\ p.child = "running"
           /\ Set(w, [p EXCEPT !.main = "killed", !.signal = "kill"])
        \/ /\ p.main = "killed"
           /\ Set(w, [p EXCEPT !.main = Ended(p)])

(* _close_readers: a child that still runs is terminated once more. *)
CloseReaders(w) ==
    LET p == proc[w]
    IN  /\ p.main = "closing"
        /\ Set(w, [p EXCEPT !.main = IF p.child = "running" THEN "terminate" ELSE "joining",
                            !.closing = TRUE])

(* Mutant: overflow is looked at while waiting only. *)
VerdictUnchecked(p) ==
    CASE p.error # ""         -> p.error
      [] p.child # "exited"   -> "ADAPTER_EXIT_NONZERO"
      [] p.buffer = 0         -> "ADAPTER_OUTPUT_INVALID"
      [] OTHER                -> ""

(* What _run_bounded, _execute and run make of the child.  An empty output *)
(* has no metadata.                                                        *)
Verdict(p) ==
    CASE p.error # ""         -> p.error
      [] p.overflow           -> "ADAPTER_OUTPUT_LIMIT"
      [] p.child # "exited"   -> "ADAPTER_EXIT_NONZERO"
      [] p.buffer = 0         -> "ADAPTER_OUTPUT_INVALID"
      [] OTHER                -> ""

(* The reader has a second to end; the call goes on in any case.  Which    *)
(* bytes these were, and whether they hold usage, matters from here on.    *)
Join(w) ==
    LET p == proc[w]
        end == [NoChild EXCEPT !.main = "done", !.child = p.child, !.signal = p.signal,
                               !.error = Verdict(p)]
    IN  /\ p.main = "joining"
        /\ IF Verdict(p) # "" THEN Set(w, end)
           ELSE \E v \in Variants, counts \in BOOLEAN :
                  Set(w, [end EXCEPT !.variant = v, !.counts = counts, !.taken = p.buffer,
                                     !.written = p.written, !.whole = p.reader = "ended"])

Output(p) ==
    [ ok |-> p.error = "", counts |-> p.counts,
      digest |-> <<p.variant, p.taken>>,
      stdout |-> IF p.error = "" THEN <<p.variant, Least(p.taken, StdoutLimit)>>
                 ELSE <<"none", 0>> ]

MainStep(w) ==
    \/ Launch(w) \/ StartReaders(w) \/ WaitEnds(w) \/ OverflowSeen(w) \/ Terminate(w)
    \/ CloseReaders(w) \/ Join(w)

-----------------------------------------------------------------------------
(***************************************************************************)
(* An output that was accepted after its reader ended is all that the      *)
(* child wrote, however exit, overflow and the last read interleave: no    *)
(* truncated events are taken for a whole run.                             *)
(***************************************************************************)
AcceptedIsWhole ==
    \A w \in Workers :
        LET p == proc[w]
        IN  p.main = "done" /\ p.error = "" /\ p.whole =>
                p.taken = p.written /\ p.written <= EventLimit

(***************************************************************************)
(* A call that waits for its child never comes back with the child running *)
(* unless it was killed and the operating system has not ended it.  The    *)
(* one other way to leave a child is the RuntimeError of _start_readers,   *)
(* which passes by the finally of _run_bounded: that child is never        *)
(* signalled, and the call always says so by this error.                   *)
(***************************************************************************)
NothingLeftRunning ==
    \A w \in Workers :
        proc[w].main = "done" /\ proc[w].child = "running" =>
            IF proc[w].error = "RuntimeError" THEN proc[w].signal = "none"
            ELSE proc[w].signal = "kill"
=============================================================================
