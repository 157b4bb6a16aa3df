----------------------------- MODULE CgroupRead -----------------------------
(***************************************************************************)
(* ReadBudget and read_bounded of Code/Tools/Linux_Cgroup_Native.py: the   *)
(* chunked reads of one collection. Chunks have any length the system call *)
(* may return, and the deadline may pass between any two of the clock      *)
(* readings. Bytes are counted, their content is not kept.                 *)
(***************************************************************************)
EXTENDS Naturals

CONSTANTS Kinds, FileLimit, ByteLimit, Sizes, NoOutcome, MaxCalls

\* The limits are those of the module, a file has some length.
ASSUME ReadAssumption ==
    /\ FileLimit \in [Kinds -> Nat \ {0}]
    /\ ByteLimit \in Nat /\ MaxCalls \in Nat
    /\ Sizes \subseteq Nat

VARIABLES
    late,      \* the monotonic clock has reached the deadline
    bytesRead, \* ReadBudget.bytes_read
    pc,        \* where read_bounded is: "idle" between two calls
    kind, size, count, amount,  \* locals of the call
    outcome,   \* the last ReadObservation
    served,    \* history: read() calls made after the deadline
    calls      \* history: calls of read_bounded

vars == <<late, bytesRead, pc, kind, size, count, amount, outcome, served, calls>>

\* The bytes of the calls that have ended: those of the running call are not
\* yet spent for the abstract budget.
Used == IF pc = "idle" THEN bytesRead ELSE bytesRead - count

Abstract == INSTANCE CgroupReadSpec WITH used <- Used

Remaining == ByteLimit - bytesRead

Return(state) ==
    /\ outcome' = Abstract!Observation(kind, size, state, count)
    /\ pc' = "idle"
    /\ UNCHANGED <<late, bytesRead, kind, size, count, amount, served, calls>>

Goto(from, to) ==
    /\ pc = from /\ pc' = to
    /\ UNCHANGED <<late, bytesRead, kind, size, count, outcome, served, calls>>

Call ==
    /\ pc = "idle" /\ calls < MaxCalls
    /\ kind' \in Kinds /\ size' \in Sizes
    /\ count' = 0 /\ amount' = 0 /\ calls' = calls + 1
    /\ pc' = "admit"
    /\ UNCHANGED <<late, bytesRead, outcome, served>>

(* Mutant: the deadline is only judged before the first chunk. *)
OverdueAtFirst == late /\ count = 0

Overdue == late

\* admission_state: the deadline is judged before the bytes.
Admit ==
    \/ pc = "admit" /\ Overdue /\ Return("DEADLINE_REACHED")
    \/ pc = "admit" /\ ~Overdue /\ Remaining <= 0 /\ Return("LIMIT_REACHED")
    \/ ~Overdue /\ Remaining > 0 /\ Goto("admit", "measure") /\ UNCHANGED amount

(* Mutant: only the limit of the file bounds a chunk. *)
RoomOfFile == FileLimit[kind] - count

NextAmount == Abstract!Least(FileLimit[kind] - count, Remaining)

\* The clock again, then the room for the next chunk. There always is room in the
\* file: a full one has ended the call, so the code's own test for it never fails.
Measure ==
    \/ pc = "measure" /\ Overdue /\ Return("DEADLINE_REACHED")
    \/ /\ ~Overdue /\ FileLimit[kind] - count > 0
       /\ Goto("measure", "confirm")
       /\ amount' = NextAmount

\* The clock a last time before the read() call.
Confirm ==
    \/ pc = "confirm" /\ Overdue /\ Return("DEADLINE_REACHED")
    \/ ~Overdue /\ Goto("confirm", "read") /\ UNCHANGED amount

Serve == served' = IF late THEN served + 1 ELSE served

ReadFails ==
    /\ pc = "read"
    /\ outcome' = Abstract!Observation(kind, size, "READ_ERROR", count)
    /\ pc' = "idle" /\ Serve
    /\ UNCHANGED <<late, bytesRead, kind, size, count, amount, calls>>

(* Mutant: a chunk shorter than asked for is taken for the last one. *)
ReadToShort ==
    /\ pc = "read"
    /\ \E n \in 0..Abstract!Least(amount - 1, size - count) :
        /\ bytesRead' = bytesRead + n
        /\ count' = count + n
        /\ outcome' = Abstract!Observation(kind, size, "AVAILABLE", count + n)
    /\ pc' = "idle" /\ Serve
    /\ UNCHANGED <<late, kind, size, amount, calls>>

\* Only an empty chunk is the end of the file.
ReadToEnd ==
    /\ pc = "read" /\ count = size
    /\ outcome' = Abstract!Observation(kind, size, "AVAILABLE", count)
    /\ pc' = "idle" /\ Serve
    /\ UNCHANGED <<late, bytesRead, kind, size, count, amount, calls>>

\* A full file or budget ends the call without asking for the end of the file;
\* account raises when a chunk is longer than what remains.
ReadChunk(n) ==
    LET full == count + n = FileLimit[kind] \/ bytesRead + n = ByteLimit IN
    /\ pc = "read"
    /\ Serve
    /\ IF n > Remaining
       THEN /\ outcome' = Abstract!Observation(kind, size, "BYTE_BUDGET_INVARIANT", count)
            /\ pc' = "idle" /\ UNCHANGED <<bytesRead, count>>
       ELSE /\ bytesRead' = bytesRead + n
            /\ count' = count + n
            /\ pc' = IF full THEN "idle" ELSE "admit"
            /\ outcome' = IF full
                          THEN Abstract!Observation(kind, size, "LIMIT_REACHED", count + n)
                          ELSE outcome
    /\ UNCHANGED <<late, kind, size, amount, calls>>

Read == ReadFails \/ ReadToEnd
        \/ \E n \in 1..Abstract!Least(amount, size - count) : ReadChunk(n)

DeadlinePasses ==
    /\ ~late /\ late' = TRUE
    /\ UNCHANGED <<bytesRead, pc, kind, size, count, amount, outcome, served, calls>>

Init ==
    /\ late = FALSE /\ bytesRead = 0 /\ pc = "idle"
    /\ kind \in Kinds /\ size \in Sizes /\ count = 0 /\ amount = 0
    /\ outcome = NoOutcome /\ served = 0 /\ calls = 0

Loop == Admit \/ Measure \/ Confirm \/ Read

Finished == pc = "idle" /\ calls = MaxCalls /\ UNCHANGED vars

Next == Call \/ Loop \/ DeadlinePasses \/ Finished

Spec == Init /\ [][Next]_vars /\ WF_vars(Loop)

(***************************************************************************)
(* Properties                                                              *)
(***************************************************************************)
\* The limits of a file and of all files hold at every moment, not only at the
\* ends of calls, and the accounting never finds more bytes than remained.
BudgetHolds ==
    /\ bytesRead <= ByteLimit
    /\ pc # "idle" => count < FileLimit[kind] \/ count = 0
    /\ outcome # NoOutcome => outcome.state # "BYTE_BUDGET_INVARIANT"

\* Of all files of a collection, at most one read() is made after the deadline:
\* the one whose last clock reading came just before it.  (Files whose turn comes
\* later are still opened and checked: the deadline admits reads only.)
OneReadAfterDeadline == served <= 1

\* A chunked read is one read of the abstract budget: whole, cut at the exact
\* limit, or given up, whatever the chunks and clock readings were.
ReadsAreAtomic == Abstract!Spec
=============================================================================
