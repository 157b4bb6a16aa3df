--------------------------- MODULE CgroupReadSpec ---------------------------
(***************************************************************************)
(* What the reader of control files relies on: every bounded read is one   *)
(* step that either has the whole file, or stops exactly where the room    *)
(* for it ends, or gives up after the deadline or on an error; and all     *)
(* reads share one budget of bytes.                                        *)
(***************************************************************************)
EXTENDS Naturals

CONSTANTS
    Kinds,      \* source kinds
    FileLimit,  \* bytes allowed for one file of a kind
    ByteLimit,  \* bytes allowed for all files together
    Sizes,      \* sizes of the files there are
    NoOutcome   \* before the first read

VARIABLES used, late, outcome

Least(a, b) == IF a <= b THEN a ELSE b

Room(kind, spent) == Least(FileLimit[kind], ByteLimit - spent)

Observation(kind, size, state, count) ==
    [kind |-> kind, size |-> size, state |-> state, count |-> count]

Init == used = 0 /\ late = FALSE /\ outcome = NoOutcome

\* One read of a file, and the bytes it took from the budget.
Ended(kind, size, state, n) ==
    /\ used' = used + n
    /\ outcome' = Observation(kind, size, state, n)
    /\ UNCHANGED late

Whole(kind, size) == size < Room(kind, used) /\ Ended(kind, size, "AVAILABLE", size)

Cut(kind, size) ==
    Room(kind, used) <= size /\ Ended(kind, size, "LIMIT_REACHED", Room(kind, used))

GivenUp(kind, size) ==
    \E n \in 0..Least(size, Room(kind, used)) :
        \/ late /\ Ended(kind, size, "DEADLINE_REACHED", n)
        \/ Ended(kind, size, "READ_ERROR", n)

DeadlinePasses == late' = TRUE /\ UNCHANGED <<used, outcome>>

Next ==
    \/ \E kind \in Kinds, size \in Sizes : Whole(kind, size) \/ Cut(kind, size) \/ GivenUp(kind, size)
    \/ DeadlinePasses

Spec == Init /\ [][Next]_<<used, late, outcome>>
=============================================================================
