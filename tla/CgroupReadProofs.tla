-------------------------- MODULE CgroupReadProofs --------------------------
(***************************************************************************)
(* Proofs about CgroupRead, for every number of calls, every limit and     *)
(* every file: the budget holds, at most one read() is late, and each      *)
(* bounded read is one read of CgroupReadSpec.                             *)
(***************************************************************************)
EXTENDS CgroupRead, TLAPS

States == {"AVAILABLE", "LIMIT_REACHED", "DEADLINE_REACHED", "READ_ERROR"}

InCall == pc \in {"admit", "measure", "confirm", "read"}

\* The locals of a call, and what each step of the loop may rely on.
Locals ==
    /\ late \in BOOLEAN
    /\ bytesRead \in Nat /\ bytesRead <= ByteLimit
    /\ pc = "idle" \/ InCall
    /\ kind \in Kinds /\ size \in Sizes
    /\ count \in Nat /\ amount \in Nat /\ served \in Nat

Progress ==
    /\ InCall => count <= size /\ count <= bytesRead /\ count < FileLimit[kind]
    /\ pc \in {"measure", "confirm", "read"} => bytesRead < ByteLimit
    /\ pc \in {"confirm", "read"} => /\ amount <= FileLimit[kind] - count
                                     /\ amount <= ByteLimit - bytesRead

\* Once a late read() has been made the loop cannot reach another one.
Lateness == served <= 1 /\ (served = 1 => late /\ pc # "read")

Outcomes == outcome = NoOutcome \/ outcome.state \in States

IInv == Locals /\ Progress /\ Lateness /\ Outcomes

LEMMA LeastBounds ==
    ASSUME NEW a \in Nat, NEW b \in Nat
    PROVE  Abstract!Least(a, b) \in Nat /\ Abstract!Least(a, b) <= a /\ Abstract!Least(a, b) <= b
BY DEF Abstract!Least

LEMMA InitInvariant == Init => IInv
<1> SUFFICES ASSUME Init PROVE IInv
    OBVIOUS
<1>1. Locals
    <2>1. late \in BOOLEAN
        BY Zenon DEF Init
    <2>2. 0 <= ByteLimit
        BY ReadAssumption
    <2> QED
        BY <2>1, <2>2 DEF Init, Locals
<1>2. Progress
    BY DEF Init, Progress, InCall
<1>3. Lateness
    BY DEF Init, Lateness
<1>4. Outcomes
    BY DEF Init, Outcomes
<1> QED
    BY <1>1, <1>2, <1>3, <1>4 DEF IInv

LEMMA ReturnKeeps ==
    ASSUME IInv, NEW state \in States, Return(state)
    PROVE  IInv'
<1>1. Locals'
    BY DEF IInv, Locals, InCall, Return
<1>2. Progress'
    BY DEF IInv, Progress, InCall, Return
<1>3. Lateness'
    BY DEF IInv, Lateness, Return
<1>4. outcome'.state = state
    BY DEF Return, Abstract!Observation
<1> QED
    BY <1>1, <1>2, <1>3, <1>4 DEF IInv, Outcomes

LEMMA CallKeeps == IInv /\ Call => IInv'
BY ReadAssumption DEF IInv, Locals, Progress, Lateness, Outcomes, InCall, Call

LEMMA AdmitKeeps == IInv /\ Admit => IInv'
<1> SUFFICES ASSUME IInv, Admit PROVE IInv'
    OBVIOUS
<1>1. CASE Return("DEADLINE_REACHED")
    BY <1>1, ReturnKeeps DEF States
<1>2. CASE Return("LIMIT_REACHED")
    BY <1>2, ReturnKeeps DEF States
<1>3. CASE Remaining > 0 /\ Goto("admit", "measure") /\ UNCHANGED amount
    BY <1>3, ReadAssumption
    DEF IInv, Locals, Progress, Lateness, Outcomes, InCall, Goto, Remaining
<1> QED
    BY <1>1, <1>2, <1>3 DEF Admit

LEMMA MeasureKeeps == IInv /\ Measure => IInv'
<1> SUFFICES ASSUME IInv, Measure PROVE IInv'
    OBVIOUS
<1>1. CASE Return("DEADLINE_REACHED")
    BY <1>1, ReturnKeeps DEF States
<1>2. CASE Goto("measure", "confirm") /\ amount' = NextAmount
    <2>1. FileLimit[kind] - count \in Nat /\ ByteLimit - bytesRead \in Nat
        BY <1>2, ReadAssumption DEF IInv, Locals, Progress, InCall, Goto
    <2>2. amount' \in Nat /\ amount' <= FileLimit[kind] - count /\ amount' <= ByteLimit - bytesRead
        BY <1>2, <2>1, LeastBounds DEF NextAmount, Remaining
    <2> QED
        BY <1>2, <2>2 DEF IInv, Locals, Progress, Lateness, Outcomes, InCall, Goto
<1> QED
    BY <1>1, <1>2 DEF Measure

LEMMA ConfirmKeeps == IInv /\ Confirm => IInv'
<1> SUFFICES ASSUME IInv, Confirm PROVE IInv'
    OBVIOUS
<1>1. CASE Return("DEADLINE_REACHED")
    BY <1>1, ReturnKeeps DEF States
<1>2. CASE ~Overdue /\ Goto("confirm", "read") /\ UNCHANGED amount
    BY <1>2 DEF IInv, Locals, Progress, Lateness, Outcomes, InCall, Goto, Overdue
<1> QED
    BY <1>1, <1>2 DEF Confirm

\* The chunk the system call may return fits the file and the budget.
LEMMA ChunkFits ==
    ASSUME IInv, pc = "read", NEW n \in 1..Abstract!Least(amount, size - count)
    PROVE  /\ n \in Nat /\ n > 0 /\ n <= Remaining
           /\ count + n <= size /\ count + n <= FileLimit[kind]
<1>1. amount \in Nat /\ size - count \in Nat
    BY ReadAssumption DEF IInv, Locals, Progress, InCall
<1>2. n \in Nat /\ n > 0 /\ n <= amount /\ n <= size - count
    BY <1>1, LeastBounds
<1> QED
    BY <1>2, ReadAssumption DEF IInv, Locals, Progress, InCall, Remaining

LEMMA ReadKeeps == IInv /\ Read => IInv'
<1> SUFFICES ASSUME IInv, Read PROVE IInv'
    OBVIOUS
<1>1. CASE ReadFails \/ ReadToEnd
    BY <1>1 DEF IInv, Locals, Progress, Lateness, Outcomes, InCall, States,
                ReadFails, ReadToEnd, Serve, Abstract!Observation
<1>2. ASSUME NEW n \in 1..Abstract!Least(amount, size - count), ReadChunk(n)
      PROVE  IInv'
    <2>1. /\ n \in Nat /\ n > 0 /\ n <= Remaining
          /\ count + n <= size /\ count + n <= FileLimit[kind]
        BY <1>2, ChunkFits DEF ReadChunk
    <2>2. FileLimit[kind] \in Nat
        BY ReadAssumption DEF IInv, Locals
    <2>3. Locals'
        BY <1>2, <2>1, ReadAssumption DEF IInv, Locals, InCall, ReadChunk, Serve, Remaining
    <2>4. Progress'
        BY <1>2, <2>1, <2>2, ReadAssumption DEF IInv, Locals, Progress, InCall, ReadChunk, Remaining
    <2>5. Lateness'
        BY <1>2, <2>1 DEF IInv, Locals, Lateness, ReadChunk, Serve, Remaining
    <2>6. Outcomes'
        BY <1>2, <2>1, ReadAssumption
        DEF IInv, Locals, Outcomes, States, ReadChunk, Remaining, Abstract!Observation
    <2> QED
        BY <2>3, <2>4, <2>5, <2>6 DEF IInv
<1> QED
    BY <1>1, <1>2 DEF Read

LEMMA InvariantStep == IInv /\ [Next]_vars => IInv'
<1> SUFFICES ASSUME IInv, [Next]_vars PROVE IInv'
    OBVIOUS
<1>1. CASE DeadlinePasses
    BY <1>1 DEF IInv, Locals, Progress, Lateness, Outcomes, InCall, DeadlinePasses
<1>2. CASE UNCHANGED vars
    BY <1>2 DEF IInv, Locals, Progress, Lateness, Outcomes, InCall, vars
<1> QED
    BY <1>1, <1>2, CallKeeps, AdmitKeeps, MeasureKeeps, ConfirmKeeps, ReadKeeps
    DEF Next, Loop, Finished

LEMMA Invariance == Spec => []IInv
<1> QED BY InitInvariant, InvariantStep, PTL DEF Spec

\* The limits of each file and of all files hold at every moment (read_bounded 680-718).
THEOREM BudgetTheorem == Spec => []BudgetHolds
<1>1. IInv => BudgetHolds
    BY ReadAssumption DEF IInv, Locals, Progress, Outcomes, InCall, States, BudgetHolds
<1> QED BY <1>1, Invariance, PTL

\* All files of a collection together, one read() at most is made after the
\* deadline: the one whose last clock reading (694) came before it.  Files that
\* are still opened and checked later (_observe) end without a read().
THEOREM DeadlineTheorem == Spec => []OneReadAfterDeadline
<1>1. IInv => OneReadAfterDeadline
    BY DEF IInv, Lateness, OneReadAfterDeadline
<1> QED BY <1>1, Invariance, PTL

(***************************************************************************)
(* The refinement: every step of the loop is one read of CgroupReadSpec or *)
(* leaves its variables alone.                                             *)
(***************************************************************************)
AbstractVars == <<Used, late, outcome>>

LEMMA InitRefines == Init => Abstract!Init
BY DEF Init, Abstract!Init, Used

\* In a call the bytes of this call are all that separates bytesRead from Used.
LEMMA UsedInCall ==
    ASSUME IInv, pc # "idle"
    PROVE  /\ Used \in Nat /\ bytesRead = Used + count
           /\ count \in Nat /\ count <= size /\ size \in Nat
           /\ count < FileLimit[kind] /\ FileLimit[kind] \in Nat
           /\ bytesRead <= ByteLimit /\ ByteLimit \in Nat
BY ReadAssumption DEF IInv, Locals, Progress, InCall, Used

LEMMA RoomInCall ==
    ASSUME IInv, pc # "idle"
    PROVE  count <= Abstract!Least(size, Abstract!Room(kind, Used))
BY UsedInCall DEF Abstract!Least, Abstract!Room

\* Giving up keeps the bytes read so far.
LEMMA GivingUpRefines ==
    ASSUME IInv, pc # "idle", pc' = "idle", bytesRead' = bytesRead, late' = late,
           NEW state \in {"DEADLINE_REACHED", "READ_ERROR"},
           state = "DEADLINE_REACHED" => late,
           outcome' = Abstract!Observation(kind, size, state, count)
    PROVE  Abstract!Next
<1>1. Used' = Used + count
    BY UsedInCall DEF Used
<1>2. count \in 0..Abstract!Least(size, Abstract!Room(kind, Used))
    BY UsedInCall, RoomInCall DEF Abstract!Least, Abstract!Room
<1>3. Abstract!Ended(kind, size, state, count)
    BY <1>1 DEF Abstract!Ended
<1>4. Abstract!GivenUp(kind, size)
    BY <1>2, <1>3 DEF Abstract!GivenUp
<1>5. kind \in Kinds /\ size \in Sizes
    BY DEF IInv, Locals
<1> QED
    BY <1>4, <1>5 DEF Abstract!Next

\* A call that ends for want of room has taken all of it.
LEMMA CutRefines ==
    ASSUME IInv, pc # "idle", pc' = "idle", late' = late, NEW n \in Nat,
           n <= size, n <= FileLimit[kind], bytesRead' = Used + n, bytesRead' <= ByteLimit,
           n = FileLimit[kind] \/ bytesRead' = ByteLimit,
           outcome' = Abstract!Observation(kind, size, "LIMIT_REACHED", n)
    PROVE  Abstract!Next
<1>1. Used' = Used + n
    BY DEF Used
<1>2. Abstract!Room(kind, Used) = n
    BY UsedInCall DEF Abstract!Least, Abstract!Room
<1>3. Abstract!Cut(kind, size)
    BY <1>1, <1>2 DEF Abstract!Cut, Abstract!Ended
<1>4. kind \in Kinds /\ size \in Sizes
    BY DEF IInv, Locals
<1> QED
    BY <1>3, <1>4 DEF Abstract!Next

LEMMA DeadlineReturnRefines ==
    ASSUME IInv, pc # "idle", Overdue, Return("DEADLINE_REACHED")
    PROVE  Abstract!Next
<1>1. late
    BY DEF Overdue
<1> QED
    BY <1>1, GivingUpRefines DEF Return

LEMMA AdmitRefines == IInv /\ Admit => [Abstract!Next]_AbstractVars
<1> SUFFICES ASSUME IInv, Admit PROVE [Abstract!Next]_AbstractVars
    OBVIOUS
<1>1. CASE pc = "admit" /\ Overdue /\ Return("DEADLINE_REACHED")
    BY <1>1, DeadlineReturnRefines
<1>2. CASE pc = "admit" /\ Remaining <= 0 /\ Return("LIMIT_REACHED")
    <2>1. bytesRead = ByteLimit
        BY <1>2, UsedInCall DEF Remaining
    <2> QED
        BY <1>2, <2>1, UsedInCall, CutRefines DEF Return
<1>3. CASE Goto("admit", "measure")
    BY <1>3 DEF Goto, AbstractVars, Used
<1> QED
    BY <1>1, <1>2, <1>3 DEF Admit

LEMMA MeasureRefines == IInv /\ Measure => [Abstract!Next]_AbstractVars
<1> SUFFICES ASSUME IInv, Measure PROVE [Abstract!Next]_AbstractVars
    OBVIOUS
<1>1. CASE pc = "measure" /\ Overdue /\ Return("DEADLINE_REACHED")
    BY <1>1, DeadlineReturnRefines
<1>2. CASE Goto("measure", "confirm")
    BY <1>2 DEF Goto, AbstractVars, Used
<1> QED
    BY <1>1, <1>2 DEF Measure

LEMMA ConfirmRefines == IInv /\ Confirm => [Abstract!Next]_AbstractVars
<1> SUFFICES ASSUME IInv, Confirm PROVE [Abstract!Next]_AbstractVars
    OBVIOUS
<1>1. CASE pc = "confirm" /\ Overdue /\ Return("DEADLINE_REACHED")
    BY <1>1, DeadlineReturnRefines
<1>2. CASE Goto("confirm", "read")
    BY <1>2 DEF Goto, AbstractVars, Used
<1> QED
    BY <1>1, <1>2 DEF Confirm

LEMMA ReadToEndRefines == IInv /\ ReadToEnd => Abstract!Next
<1> SUFFICES ASSUME IInv, ReadToEnd PROVE Abstract!Next
    OBVIOUS
<1>1. pc # "idle"
    BY DEF ReadToEnd
<1>2. count < Abstract!Room(kind, Used)
    BY <1>1, UsedInCall DEF ReadToEnd, IInv, Progress, Abstract!Least, Abstract!Room
<1>3. Used' = Used + count
    BY <1>1, UsedInCall DEF ReadToEnd, Used
<1>4. Abstract!Whole(kind, size)
    BY <1>2, <1>3 DEF ReadToEnd, Abstract!Whole, Abstract!Ended
<1>5. kind \in Kinds /\ size \in Sizes
    BY DEF IInv, Locals
<1> QED
    BY <1>4, <1>5 DEF Abstract!Next

LEMMA ReadChunkRefines ==
    ASSUME IInv, NEW n \in 1..Abstract!Least(amount, size - count), ReadChunk(n)
    PROVE  [Abstract!Next]_AbstractVars
<1>1. pc = "read" /\ pc # "idle"
    BY DEF ReadChunk
<1>2. /\ n \in Nat /\ n > 0 /\ n <= Remaining
      /\ count + n <= size /\ count + n <= FileLimit[kind]
    BY <1>1, ChunkFits
<1>3. /\ bytesRead' = bytesRead + n /\ count' = count + n /\ late' = late
      /\ bytesRead \in Nat /\ count \in Nat /\ ByteLimit \in Nat
    BY <1>1, <1>2, UsedInCall DEF ReadChunk, Remaining, IInv, Locals
<1>4. CASE count + n = FileLimit[kind] \/ bytesRead + n = ByteLimit
    <2>1. pc' = "idle" /\ outcome' = Abstract!Observation(kind, size, "LIMIT_REACHED", count + n)
        BY <1>2, <1>3, <1>4 DEF ReadChunk, Remaining
    <2>2. bytesRead' = Used + (count + n) /\ bytesRead' <= ByteLimit /\ count + n \in Nat
        BY <1>1, <1>2, <1>3, UsedInCall DEF Remaining
    <2> QED
        BY <1>1, <1>2, <1>3, <1>4, <2>1, <2>2, CutRefines
<1>5. CASE ~(count + n = FileLimit[kind] \/ bytesRead + n = ByteLimit)
    <2>1. pc' = "admit" /\ outcome' = outcome
        BY <1>2, <1>3, <1>5 DEF ReadChunk, Remaining
    <2>2. Used' = Used
        BY <1>1, <1>2, <1>3, <2>1 DEF Used
    <2> QED
        BY <1>3, <2>1, <2>2 DEF AbstractVars
<1> QED
    BY <1>4, <1>5

LEMMA StepRefines == IInv /\ [Next]_vars => [Abstract!Next]_AbstractVars
<1> SUFFICES ASSUME IInv, [Next]_vars PROVE [Abstract!Next]_AbstractVars
    OBVIOUS
<1>1. CASE Call
    <2>1. Used' = Used /\ late' = late /\ outcome' = outcome
        BY <1>1 DEF Call, Used, IInv, Locals
    <2> QED
        BY <2>1 DEF AbstractVars
<1>2. CASE ReadFails
    BY <1>2, GivingUpRefines DEF ReadFails
<1>3. CASE ReadToEnd
    BY <1>3, ReadToEndRefines
<1>4. CASE \E n \in 1..Abstract!Least(amount, size - count) : ReadChunk(n)
    BY <1>4, ReadChunkRefines
<1>5. CASE DeadlinePasses
    <2>1. Used' = Used
        BY <1>5 DEF DeadlinePasses, Used
    <2> QED
        BY <1>5, <2>1 DEF DeadlinePasses, Abstract!DeadlinePasses, Abstract!Next
<1>6. CASE UNCHANGED vars
    BY <1>6 DEF vars, AbstractVars, Used
<1> QED
    BY <1>1, <1>2, <1>3, <1>4, <1>5, <1>6, AdmitRefines, MeasureRefines, ConfirmRefines
    DEF Next, Loop, Read, Finished

\* A chunked read, with all its clock readings between the chunks, is one
\* atomic read of the abstract budget (read_bounded 659-718).
THEOREM RefinementTheorem == Spec => ReadsAreAtomic
<1>1. IInv /\ [Next]_vars => [Abstract!Next]_<<Used, late, outcome>>
    BY StepRefines DEF AbstractVars
<1> QED
    BY <1>1, InitRefines, Invariance, PTL DEF Spec, ReadsAreAtomic, Abstract!Spec
=============================================================================
