--------------------------- MODULE SnapshotCycle ---------------------------
(***************************************************************************)
(* Collection cycles and purges of the snapshot package, called by several *)
(* sessions of one framework database on one target database.              *)
(*                                                                         *)
(* A call is one of the three collectors of USP_RunSnapshotCollectionCycle *)
(* or USP_PurgeSnapshotData.  It takes the exclusive session-owned applock *)
(* without waiting, purges, prepares a run, reads its source, writes the   *)
(* evidence, finalizes the run and releases the lock.  A step is one       *)
(* statement that writes, or one transaction; a statement may fail and     *)
(* control goes to the CATCH block that covers it.  The performance        *)
(* counter path commits statement by statement; waits and files write in   *)
(* one transaction.                                                        *)
(*                                                                         *)
(* What a call reads of the configuration, the policies, the size of the   *)
(* target files and the reachability of the target is chosen anew at each  *)
(* read: USP_ConfigureSnapshotTarget and administrators change them at any *)
(* time, without the applock.                                              *)
(***************************************************************************)
EXTENDS SnapshotStore, Sequences

CONSTANTS
  Session, NoSession,
  Operations,   \* subset of Collectors \union {"PURGE"}: the calls made
  Counter,      \* performance counters of the source
  MaxBatches,   \* @MaxBatches of the purge
  MaxTime, MaxRuns, MaxPurges,
  MaxFaults     \* bound on failed statements, broken calls and restarts

ASSUME CycleAssumption ==
  /\ NoSession \notin Session
  /\ Operations \subseteq Collectors \union {"PURGE"}
  /\ MaxBatches \in Nat \ {0}
  /\ IsFiniteSet(Counter)

VARIABLES
  now,        \* SYSUTCDATETIME()
  start,      \* start of the SQL Server instance
  lock,       \* the applock: owner and how often it holds it
  db,         \* the snapshot store
  lastRun,    \* last CaptureRun identity
  purges,     \* PurgeRun receipts; removed is history: rows whose deletion committed
  pc, call,   \* control state and variables of each session's call
  faults,
  abandoned   \* history: acquisitions of the owner that a cancelled call left behind

vars == <<now, start, lock, db, lastRun, purges, pc, call, faults, abandoned>>

NoSource == [rows |-> {}, start |-> None, epoch |-> None, at |-> None]
NoPurge == [id |-> 0, now |-> None, batch |-> 0, rows |-> 0, deleted |-> 0, status |-> "AVAILABLE"]
NoCall == [op |-> "PURGE", force |-> FALSE, run |-> 0, status |-> "AVAILABLE",
           src |-> NoSource, purge |-> NoPurge]
Free == [owner |-> NoSession, depth |-> 0]

(* Statements of the call under the applock, and outside it. *)
Completion == {"scopes", "raw", "interpreted", "payload", "update", "module"}
Inside == {"admit", "purge", "batch", "close", "purgecatch", "purged", "prepare", "refused",
           "read", "complete", "completecatch", "finalize", "project", "catch", "release"}
            \union Completion \union {"modulecatch"}
Outside == {"idle", "lock"}

Init ==
  /\ now = 0 /\ start = 0
  /\ lock = Free
  /\ db = EmptyStore /\ lastRun = 0
  /\ purges = <<>>
  /\ pc = [s \in Session |-> "idle"]
  /\ call = [s \in Session |-> NoCall]
  /\ faults = 0 /\ abandoned = 0

Goto(s, from, to) == pc[s] = from /\ pc' = [pc EXCEPT ![s] = to]
Set(s, c) == call' = [call EXCEPT ![s] = c]
Finish(s, from, status) ==
  Goto(s, from, "release") /\ Set(s, [call[s] EXCEPT !.status = status])
Return(s, from) == Goto(s, from, "idle") /\ Set(s, NoCall)
NoWrites == UNCHANGED <<now, start, lock, faults, abandoned>>
StoreKept == UNCHANGED <<db, lastRun, purges>>
Quiet == NoWrites /\ StoreKept

-----------------------------------------------------------------------------
(* A call that got past its parameters, the configuration and, where no identity *)
(* of the target is bound, its reachability; the others return before the       *)
(* applock and touch nothing (INVALID_PARAMETER, DISABLED, TARGET_UNAVAILABLE). *)
Decline(s) == pc[s] = "idle" /\ UNCHANGED vars

InFlight == {s \in Session : pc[s] # "idle"}

Call(s, op, force) ==
  /\ op # "PURGE" => lastRun + Cardinality(InFlight) < MaxRuns
  /\ Cardinality(DOMAIN purges) + Cardinality(InFlight) < MaxPurges
  /\ Goto(s, "idle", "lock")
  /\ Set(s, [NoCall EXCEPT !.op = op, !.force = force])
  /\ Quiet

(* The lock taken shared. *)
AvailableShared(s) == TRUE

(* sp_getapplock Exclusive, LockOwner Session, LockTimeout 0. *)
Available(s) == lock.owner \in {s, NoSession}

First(op) == IF op \in Native THEN "admit" ELSE "purge"

(* The lock is waited for. *)
AcquireWaiting(s) ==
  /\ Available(s)
  /\ lock' = [owner |-> s, depth |-> lock.depth + 1]
  /\ Goto(s, "lock", First(call[s].op)) /\ UNCHANGED call
  /\ StoreKept /\ UNCHANGED <<now, start, faults, abandoned>>

Acquire(s) ==
  \/ /\ Available(s)
     /\ lock' = [owner |-> s, depth |-> lock.depth + 1]
     /\ Goto(s, "lock", First(call[s].op)) /\ UNCHANGED call
     /\ StoreKept /\ UNCHANGED <<now, start, faults, abandoned>>
  \/ /\ ~Available(s)
     /\ Return(s, "lock")  \* SKIPPED_CONCURRENT
     /\ Quiet

(* Waits and files: target validation, the policy check that writes nothing,    *)
(* and for files the candidate databases.                                       *)
Admit(s) ==
  /\ call[s].op \in Native
  /\ \/ Finish(s, "admit", "TARGET_UNAVAILABLE")
     \/ \E enabled \in BOOLEAN :
          LET a == Admission(db, call[s].op, call[s].force, now, enabled, FALSE)
          IN IF a = "AVAILABLE" THEN Goto(s, "admit", "purge") /\ UNCHANGED call
             ELSE Finish(s, "admit", a)
     \/ call[s].op = "FILE_IO" /\ Finish(s, "admit", "INVALID_PARAMETER")
  /\ Quiet

-----------------------------------------------------------------------------
(* InternalPurgeExpiredData.  The cycles never force it. *)
PurgeStart(s) ==
  LET force == call[s].op = "PURGE" /\ call[s].force
      id == Cardinality(DOMAIN purges) + 1
      Ended(status) == /\ Goto(s, "purge", "purged")
                       /\ Set(s, [call[s] EXCEPT !.purge.status = status])
                       /\ StoreKept
  IN /\ \/ call[s].op \in Native /\ Ended("TARGET_UNAVAILABLE")
        \/ \E over \in BOOLEAN :
             IF PurgeNotDue(purges, force, now, over) THEN Ended("SKIPPED_NOT_DUE")
             ELSE /\ Goto(s, "purge", "batch")
                  /\ Set(s, [call[s] EXCEPT !.purge = [NoPurge EXCEPT !.id = id, !.now = now]])
                  /\ purges' = Append(purges, [status |-> "RUNNING", ended |-> None,
                                               rows |-> 0, removed |-> 0])
                  /\ UNCHANGED <<db, lastRun>>
     /\ NoWrites

(* One iteration: five deletes in a transaction.  A statement that fails leaves *)
(* the counters of the statements before it, though the batch is rolled back.   *)
Batch(s) ==
  LET p == call[s].purge IN
  /\ p.batch < MaxBatches
  /\ \E d1 \in PurgeSamples(db, p.now) : \E d2 \in PurgePayloads(d1, p.now) :
     \E d3 \in PurgeModules(d2, p.now) : \E d4 \in PurgeRuns(d3, p.now) :
     \E d5 \in PurgeScopes(d4) :
       \/ LET n == Rows(db) - Rows(d5)
              more == n # 0 /\ p.batch + 1 < MaxBatches
          IN /\ db' = d5
             /\ Goto(s, "batch", IF more THEN "batch" ELSE "close")
             /\ Set(s, [call[s] EXCEPT !.purge.batch = @ + 1, !.purge.rows = @ + n,
                                       !.purge.deleted = n])
             /\ purges' = [purges EXCEPT ![p.id].removed = @ + n]
             /\ UNCHANGED <<lastRun, faults>>
       \/ \E d \in {db, d1, d2, d3, d4, d5} :
            /\ faults < MaxFaults /\ faults' = faults + 1
            /\ Goto(s, "batch", "purgecatch")
            /\ Set(s, [call[s] EXCEPT !.purge.rows = @ + (Rows(db) - Rows(d))])
            /\ StoreKept
  /\ UNCHANGED <<now, start, lock, abandoned>>

(* The receipt counts the last batch only. *)
ReceiptLastBatch(s, status) ==
  purges' = [purges EXCEPT ![call[s].purge.id] =
               [@ EXCEPT !.status = status, !.ended = now, !.rows = call[s].purge.deleted]]

(* The end of the purge and its counters. *)
Receipt(s, status) ==
  purges' = [purges EXCEPT ![call[s].purge.id] =
               [@ EXCEPT !.status = status, !.ended = now, !.rows = call[s].purge.rows]]

ClosingStatus(p) ==
  IF p.batch >= MaxBatches /\ p.deleted > 0 THEN "AVAILABLE_LIMITED" ELSE "AVAILABLE"

ClosePurge(s) ==
  LET status == ClosingStatus(call[s].purge) IN
  /\ Goto(s, "close", "purged")
  /\ Set(s, [call[s] EXCEPT !.purge.status = status])
  /\ Receipt(s, status)
  /\ UNCHANGED <<db, lastRun>> /\ NoWrites

CatchPurge(s) ==
  /\ Goto(s, "purgecatch", "purged")
  /\ Set(s, [call[s] EXCEPT !.purge.status = "ERROR_HANDLED"])
  /\ Receipt(s, "ERROR_HANDLED")
  /\ UNCHANGED <<db, lastRun>> /\ NoWrites

(* What the caller makes of the purge, of which it keeps the outcome. *)
AfterPurge(s) ==
  LET status == call[s].purge.status
      After(to, outcome) ==
        /\ Goto(s, "purged", to)
        /\ Set(s, [call[s] EXCEPT !.status = outcome, !.purge = [NoPurge EXCEPT !.status = status]])
      purged == status \in {"AVAILABLE", "AVAILABLE_LIMITED", "SKIPPED_NOT_DUE"}
  IN
  /\ \/ call[s].op = "PURGE" /\ After("project", status)
     \/ call[s].op = "PERFORMANCE_COUNTERS" /\ After("prepare", "AVAILABLE")
     \/ call[s].op \in Native /\ ~purged /\ After("release", status)
     \/ /\ call[s].op \in Native /\ purged
        /\ After("prepare", "AVAILABLE") \/ After("release", "TARGET_UNAVAILABLE")
  /\ Quiet

-----------------------------------------------------------------------------
(* InternalPrepareCollectionCycle *)
Prepare(s) ==
  LET op == call[s].op
      r == lastRun + 1
  IN /\ \/ op \in Native /\ Finish(s, "prepare", "TARGET_UNAVAILABLE") /\ UNCHANGED <<db, lastRun>>
        \/ \E enabled, over \in BOOLEAN :
             LET a == Admission(db, op, call[s].force, now, enabled, over) IN
             IF a # "AVAILABLE" /\ op \in Native
             THEN Finish(s, "prepare", a) /\ UNCHANGED <<db, lastRun>>
             ELSE /\ db' = AddRun(db, r, OpenedRun(op, a, call[s].force, now))
                  /\ lastRun' = r
                  /\ Goto(s, "prepare", IF a = "AVAILABLE" THEN "read" ELSE "refused")
                  /\ Set(s, IF a = "AVAILABLE" THEN [call[s] EXCEPT !.run = r]
                            ELSE [call[s] EXCEPT !.status = a])
     /\ UNCHANGED purges /\ NoWrites

(* The module status of a refused counter run; only then does the caller learn  *)
(* the run's identity.                                                          *)
RefusedModule(s) ==
  /\ db' = AddModules(db, lastRun, 1)
  /\ Goto(s, "refused", "project")
  /\ Set(s, [call[s] EXCEPT !.run = lastRun])
  /\ UNCHANGED <<lastRun, purges>> /\ NoWrites

(* USP_PerformanceCounters: a projection of some counters, or no valid JSON. *)
ReadCounters(s) ==
  LET r == call[s].run IN
  /\ call[s].op = "PERFORMANCE_COUNTERS"
  /\ \/ \E rows \in SUBSET Counter, status \in {"AVAILABLE", "PARTIAL"} :
          /\ Goto(s, "read", "scopes")
          /\ Set(s, [call[s] EXCEPT !.status = status,
                                    !.src = [NoSource EXCEPT !.rows = rows, !.start = start]])
          /\ db' = [db EXCEPT !.runs[r].expected = 2 * Cardinality(rows)]
     \/ /\ Goto(s, "read", "module")
        /\ Set(s, [call[s] EXCEPT !.status = "ERROR_HANDLED"])
        /\ UNCHANGED db
  /\ UNCHANGED <<lastRun, purges>> /\ NoWrites

(* The target is validated once more and the native cache read between two      *)
(* readings of the engine context.                                              *)
ReadNative(s) ==
  /\ call[s].op \in Native
  /\ \/ Finish(s, "read", "TARGET_UNAVAILABLE")
     \/ \E status \in {"PARTIAL", "ERROR_HANDLED"} :
          Goto(s, "read", "complete") /\ Set(s, [call[s] EXCEPT !.status = status])
  /\ Quiet

-----------------------------------------------------------------------------
(* InternalCompletePerformanceCounterCycle, a statement at a time. *)
Written(s, from, to, new) ==
  /\ Goto(s, from, to) /\ db' = new
  /\ UNCHANGED <<lastRun, purges, call>> /\ NoWrites

CounterScopes(s) ==
  LET c == call[s] IN
  /\ Goto(s, "scopes", "raw")
  /\ Set(s, [c EXCEPT !.src.epoch = EpochFor(db, c.run, c.src.start), !.src.at = now])
  /\ db' = [db EXCEPT !.scopes = @ \union c.src.rows]
  /\ UNCHANGED <<lastRun, purges>> /\ NoWrites

CounterSamples(s, metric) ==
  LET c == call[s]
  IN AddSamples(db, c.run, {[run |-> c.run, scope |-> k, metric |-> metric, at |-> c.src.at,
                             epoch |-> c.src.epoch] : k \in c.src.rows})

CounterRaw(s) == Written(s, "raw", "interpreted", CounterSamples(s, "RAW"))
CounterInterpreted(s) == Written(s, "interpreted", "payload", CounterSamples(s, "INTERPRETED"))
CounterPayload(s) ==
  \E enabled \in BOOLEAN :
    Written(s, "payload", "update",
            IF enabled THEN AddPayload(db, call[s].run, call[s].src.at) ELSE db)
CounterRun(s) ==
  LET r == call[s].run IN
  Written(s, "update", "module",
          [db EXCEPT !.runs[r].start = call[s].src.start, !.runs[r].epoch = call[s].src.epoch])
CounterModule(s) ==
  /\ Goto(s, "module", "finalize")
  /\ Set(s, [call[s] EXCEPT !.src = NoSource])
  /\ db' = AddModules(db, call[s].run, 1)
  /\ UNCHANGED <<lastRun, purges>> /\ NoWrites

(* The failure of a write is recorded but does not change the outcome. *)
CatchCompletionSilently(s) ==
  /\ Goto(s, "modulecatch", "finalize")
  /\ Set(s, [call[s] EXCEPT !.src = NoSource])
  /\ db' = AddModules(db, call[s].run, 1)
  /\ UNCHANGED <<lastRun, purges>> /\ NoWrites

CatchCompletion(s) ==
  /\ Goto(s, "modulecatch", "finalize")
  /\ Set(s, [call[s] EXCEPT !.status = "ERROR_HANDLED", !.src = NoSource])
  /\ db' = AddModules(db, call[s].run, 1)
  /\ UNCHANGED <<lastRun, purges>> /\ NoWrites

(* A failed purge makes the measurement partial. *)
FinalStatus(c) ==
  IF c.purge.status = "ERROR_HANDLED" /\ c.status = "AVAILABLE" THEN "PARTIAL" ELSE c.status

Finalize(s) ==
  LET status == FinalStatus(call[s]) IN
  /\ Goto(s, "finalize", "project")
  /\ Set(s, [call[s] EXCEPT !.status = status])
  /\ db' = Finalized(db, call[s].run, status, now)
  /\ UNCHANGED <<lastRun, purges>> /\ NoWrites

-----------------------------------------------------------------------------
(* InternalCompleteWaitStatsCycle and InternalCompleteFileIOCycle: evidence and *)
(* finalization in one transaction.                                             *)
NativeEvidence(d, r, op) ==
  AddModules(AddSamples([d EXCEPT !.scopes = @ \union {op}], r,
                        {[run |-> r, scope |-> op, metric |-> m, at |-> now, epoch |-> r]
                           : m \in {"RAW", "CONTEXT"}}), r, 2)

NativeComplete(s) ==
  LET c == call[s]
      r == c.run
      Ready == db.runs[r].status = "RUNNING" /\ db.runs[r].ended = None
  IN \/ /\ pc[s] = "complete" /\ Ready
        /\ \E payload \in BOOLEAN :
             LET d == IF payload THEN AddPayload(db, r, now) ELSE db
             IN db' = Finalized(IF c.status = "PARTIAL" THEN NativeEvidence(d, r, c.op)
                                ELSE AddModules(d, r, 1), r, c.status, now)
        /\ Goto(s, "complete", "project") /\ UNCHANGED call
        /\ UNCHANGED <<lastRun, purges>> /\ NoWrites
     \/ /\ Goto(s, "complete", "completecatch") /\ UNCHANGED call  \* the policy is gone
        /\ Quiet
     \/ /\ Goto(s, "complete", "project")                          \* another target
        /\ Set(s, [c EXCEPT !.status = "TARGET_UNAVAILABLE"]) /\ Quiet

(* After the rollback a second transaction records the failure; for files it    *)
(* leaves the end open when the clock reads earlier than the start.             *)
CatchNative(s) ==
  LET c == call[s] IN
  /\ Goto(s, "completecatch", "project")
  /\ \/ /\ db' = Finalized(AddModules(db, c.run, 1), c.run, "ERROR_HANDLED", now)
        /\ Set(s, [c EXCEPT !.status = "ERROR_HANDLED"])
     \/ /\ c.op = "FILE_IO"
        /\ db' = AddModules([db EXCEPT !.runs[c.run].status = "ERROR_HANDLED"], c.run, 2)
        /\ Set(s, [c EXCEPT !.status = "FINALIZATION_UNCONFIRMED"])
  /\ UNCHANGED <<lastRun, purges>> /\ NoWrites

-----------------------------------------------------------------------------
(* The result projection reads the target. *)
Project(s) == Goto(s, "project", "release") /\ UNCHANGED call /\ Quiet

(* The status of the completion is kept. *)
CaughtStatusKept(c) == c.status

(* The CATCH block of the caller: the counter path finalizes a known run as     *)
(* failed, the others write nothing.                                            *)
CaughtStatus(c) ==
  IF c.status = "FINALIZATION_UNCONFIRMED" THEN c.status ELSE "ERROR_HANDLED"

(* The lock is released only on the way out of a call that opened a run. *)
ReleaseWithRun(s) ==
  /\ Return(s, "release")
  /\ lock' = IF call[s].run = 0 /\ call[s].op # "PURGE" THEN lock
             ELSE IF lock.depth = 1 THEN Free ELSE [lock EXCEPT !.depth = @ - 1]
  /\ StoreKept /\ UNCHANGED <<now, start, faults, abandoned>>

Catch(s) ==
  LET c == call[s] IN
  /\ Finish(s, "catch", CaughtStatus(c))
  /\ db' = IF c.op = "PERFORMANCE_COUNTERS" THEN Finalized(db, c.run, "ERROR_HANDLED", now) ELSE db
  /\ UNCHANGED <<lastRun, purges>> /\ NoWrites

Release(s) ==
  /\ Return(s, "release")
  /\ lock' = IF lock.depth = 1 THEN Free ELSE [lock EXCEPT !.depth = @ - 1]
  /\ StoreKept /\ UNCHANGED <<now, start, faults, abandoned>>

-----------------------------------------------------------------------------
(* A statement fails: the CATCH block that covers it.  The native completions    *)
(* record a failure only once they have confirmed that the run is theirs.       *)
Handlers(at) ==
  CASE at \in Completion -> {"modulecatch"}
    [] at = "close" -> {"purgecatch"}
    [] at = "complete" -> {"completecatch", "project"}
    [] at = "completecatch" -> {"project"}
    [] at = "catch" -> {"release"}
    [] OTHER -> {"catch"}

FailedStatus(c, at, handler) ==
  CASE at = "catch" -> CaughtStatus(c)
    [] at = "completecatch" /\ c.op = "FILE_IO" -> "FINALIZATION_UNCONFIRMED"
    [] handler = "project" /\ ~(at = "completecatch" /\ c.op = "FILE_IO") -> "ERROR_HANDLED"
    [] OTHER -> c.status

Raise(s) ==
  /\ faults < MaxFaults /\ faults' = faults + 1
  /\ pc[s] \in Inside \ {"batch", "purged", "release"}
  /\ \E handler \in Handlers(pc[s]) :
       /\ Goto(s, pc[s], handler)
       /\ Set(s, [call[s] EXCEPT !.status = FailedStatus(call[s], pc[s], handler)])
  /\ StoreKept /\ UNCHANGED <<now, start, lock, abandoned>>

(* The client cancels the batch: no CATCH block runs, an open transaction is    *)
(* rolled back (XACT_ABORT), and the session keeps its applock.                 *)
Cancel(s) ==
  /\ faults < MaxFaults /\ faults' = faults + 1
  /\ pc[s] # "idle"
  /\ pc' = [pc EXCEPT ![s] = "idle"] /\ Set(s, NoCall)
  /\ abandoned' = IF pc[s] \in Inside THEN abandoned + 1 ELSE abandoned
  /\ StoreKept /\ UNCHANGED <<now, start, lock>>

(* The session ends, killed or disconnected; its locks go with it. *)
Unowned(s) ==
  IF lock.owner = s THEN lock' = Free /\ abandoned' = 0 ELSE UNCHANGED <<lock, abandoned>>

Disconnect(s) ==
  /\ \/ pc[s] # "idle" /\ faults < MaxFaults /\ faults' = faults + 1
     \/ pc[s] = "idle" /\ lock.owner = s /\ UNCHANGED faults
  /\ pc' = [pc EXCEPT ![s] = "idle"] /\ Set(s, NoCall)
  /\ Unowned(s)
  /\ StoreKept /\ UNCHANGED <<now, start>>

(* SQL Server restarts: every session ends. *)
Restart ==
  /\ faults < MaxFaults /\ faults' = faults + 1
  /\ now > start /\ start' = now
  /\ pc' = [s \in Session |-> "idle"] /\ call' = [s \in Session |-> NoCall]
  /\ lock' = Free /\ abandoned' = 0
  /\ StoreKept /\ UNCHANGED now

Tick ==
  /\ now < MaxTime /\ now' = now + 1
  /\ StoreKept /\ UNCHANGED <<start, lock, pc, call, faults, abandoned>>

-----------------------------------------------------------------------------
CounterStep(s) ==
  \/ ReadCounters(s) \/ CounterScopes(s) \/ CounterRaw(s) \/ CounterInterpreted(s)
  \/ CounterPayload(s) \/ CounterRun(s) \/ CounterModule(s) \/ CatchCompletion(s) \/ Finalize(s)
NativeStep(s) == Admit(s) \/ ReadNative(s) \/ NativeComplete(s) \/ CatchNative(s)
PurgeStep(s) == PurgeStart(s) \/ Batch(s) \/ ClosePurge(s) \/ CatchPurge(s) \/ AfterPurge(s)
Step(s) ==
  \/ Acquire(s) \/ PurgeStep(s) \/ Prepare(s) \/ RefusedModule(s)
  \/ CounterStep(s) \/ NativeStep(s)
  \/ Project(s) \/ Catch(s) \/ Release(s) \/ Raise(s)

Start(s) ==
  \/ Decline(s)
  \/ \E op \in Operations, force \in BOOLEAN : Call(s, op, force)

Next ==
  \/ \E s \in Session : Start(s) \/ Step(s) \/ Cancel(s) \/ Disconnect(s)
  \/ Restart \/ Tick

Spec == Init /\ [][Next]_vars

(* A session that has entered the procedure runs on: nothing in it waits. *)
FairSpec == Spec /\ \A s \in Session : WF_vars(Step(s))

-----------------------------------------------------------------------------
(* Every variable has values the procedures can give it; identities lie below   *)
(* the last one assigned, and a run whose end is open is RUNNING or a file run  *)
(* whose finalization could not be confirmed.                                   *)
CycleTypeOK ==
  /\ now \in Nat /\ start \in 0..now
  /\ lock \in [owner : Session \union {NoSession}, depth : Nat]
  /\ lastRun \in Nat /\ faults \in Nat /\ abandoned \in Nat
  /\ DOMAIN db.runs \subseteq 1..lastRun
  /\ \A r \in DOMAIN db.runs :
       db.runs[r].ended = None => \/ db.runs[r].status = "RUNNING"
                                 \/ db.runs[r].collector = "FILE_IO"
  /\ purges \in Seq([status : {"RUNNING", "AVAILABLE", "AVAILABLE_LIMITED", "ERROR_HANDLED"},
                     ended : Nat \union {None}, rows : Nat, removed : Nat])
  /\ pc \in [Session -> Inside \union Outside]
  /\ \A s \in Session : call[s].run \in 0..lastRun

(* Snapshot_Baseline_Operations.md: the applock without waiting prevents        *)
(* parallel cycles and purges.  Only its owner is between acquisition and       *)
(* release, whatever failed, was cancelled or was restarted before.             *)
OneWriter == \A s \in Session : pc[s] \in Inside => lock.owner = s /\ lock.depth > 0

(* Success and failure give the applock back: what a session holds is its call  *)
(* in progress and the acquisitions of calls it cancelled, no more and no less. *)
LockBalanced ==
  /\ lock.depth = abandoned + Cardinality({s \in Session : pc[s] \in Inside})
  /\ (lock.owner = NoSession) = (lock.depth = 0)

(* No delete of a purge batch, in its child-first order, takes a row that       *)
(* another row still refers to.                                                 *)
References ==
  /\ \A x \in db.samples : x.run \in DOMAIN db.runs /\ x.scope \in db.scopes
  /\ \A x \in db.payloads \union db.modules : x.run \in DOMAIN db.runs

(* The sample count of a finalized run is the number of samples ever written    *)
(* for it: nothing is written after the run has ended, and nothing is purged    *)
(* before.  A counter run that says AVAILABLE has, besides, every sample its    *)
(* source read called for, in the epoch of the run.                             *)
EvidenceIsExact ==
  \A r \in DOMAIN db.runs :
    /\ db.runs[r].ended # None => db.runs[r].count = db.runs[r].rows
    /\ db.runs[r].status = "AVAILABLE" =>
         /\ db.runs[r].rows = db.runs[r].expected
         /\ \A x \in SamplesOf(db, r) : x.epoch = db.runs[r].epoch

(* Runs that saw the same server start are in the same epoch, whatever crashed  *)
(* or was purged between them.                                                  *)
EpochAgrees ==
  \A q, r \in DOMAIN db.runs :
    /\ db.runs[q].start # None /\ db.runs[q].start = db.runs[r].start
    => db.runs[q].epoch = db.runs[r].epoch

(* A collection nobody forced begins no earlier than the interval after the end *)
(* of the runs of its collector that count.                                     *)
NeverEarly ==
  \A r \in DOMAIN db.runs :
    /\ ~db.runs[r].forced
    /\ db.runs[r].ended = None \/ db.runs[r].rows > 0
    => \A q \in Counted(db, db.runs[r].collector) :
         q < r => db.runs[q].ended + Interval <= db.runs[r].started

(* What a call reports is true.  A collection said to be AVAILABLE or PARTIAL   *)
(* has a finalized run that says the same; a purge said to be AVAILABLE, not    *)
(* AVAILABLE_LIMITED, has left nothing that was expired when it began, and the  *)
(* receipt of a purge that did not fail counts the rows it removed.             *)
ReportsAreTrue ==
  /\ \A s \in Session :
       pc[s] = "release" /\ call[s].op # "PURGE" /\ call[s].status \in {"AVAILABLE", "PARTIAL"}
       => /\ call[s].run \in DOMAIN db.runs
          /\ db.runs[call[s].run].ended # None
          /\ db.runs[call[s].run].status = call[s].status
  /\ \A s \in Session :
       pc[s] = "purged" /\ call[s].purge.status = "AVAILABLE"
       => NothingExpired(db, call[s].purge.now)
  /\ \A i \in DOMAIN purges :
       purges[i].status \in {"AVAILABLE", "AVAILABLE_LIMITED"} => purges[i].rows = purges[i].removed

(* USP_PurgeSnapshotData: evidence that has not expired is never deleted. *)
FreshEvidenceKept ==
  [][/\ \A x \in db.samples \ db'.samples : x.at < now - RawRetention
     /\ \A x \in db.payloads \ db'.payloads : x.at < now - PayloadRetention
     /\ \A r \in DOMAIN db.runs \ DOMAIN db'.runs :
          db.runs[r].started < now - RawRetention /\ SamplesOf(db', r) = {}]_vars

(* Snapshot_Baseline_Package_Contract.md:50: the purge keeps the newest         *)
(* finalized wait run and the newest file run, finalized or not, however old.   *)
Newest(d, r) ==
  \/ /\ d.runs[r].collector = "WAIT_STATS" /\ d.runs[r].ended # None
     /\ \A q \in DOMAIN d.runs :
          d.runs[q].collector = "WAIT_STATS" /\ d.runs[q].ended # None => q <= r
  \/ /\ d.runs[r].collector = "FILE_IO"
     /\ \A q \in DOMAIN d.runs : d.runs[q].collector = "FILE_IO" => q <= r
NewestKept == [][\A r \in DOMAIN db.runs : Newest(db, r) => r \in DOMAIN db'.runs]_vars

(* Every call comes back, since nothing in it waits and a purge is bounded. *)
CallReturns == \A s \in Session : []<>(pc[s] = "idle")
=============================================================================
