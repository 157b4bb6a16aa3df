------------------------ MODULE SnapshotCycleProofs ------------------------
(***************************************************************************)
(* The applock of SnapshotCycle and its evidence: who is inside, how often *)
(* the lock is held, the references of the evidence, what the purge must   *)
(* not delete, its types, what the evidence says of its runs and what a    *)
(* call and a purge report of it, for any number of sessions, counters,    *)
(* batches, any policy and any failures, cancelled calls and restarts.     *)
(*                                                                         *)
(* OneWriter is not inductive: that a release by the only writer cannot    *)
(* take the lock away from another one needs the balance of acquisitions   *)
(* and releases, which in turn needs that at most one session is inside.   *)
(*                                                                         *)
(* The invariant DataInv relates each call to the store.  That a call may  *)
(* rely on its own run and scopes being there rests on the lock: the call  *)
(* of every other session is outside and has no run.                       *)
(*                                                                         *)
(* The applock makes the holder of a run the only writer of evidence, and  *)
(* its run the last one: EvidenceInv says how far that run has come, for   *)
(* the statement its call is at, and what the finished runs keep.          *)
(***************************************************************************)
EXTENDS SnapshotCycle, FiniteSetTheorems, WellFoundedInduction, TLAPS

-----------------------------------------------------------------------------
(* The applock *)
Busy == \E s \in Session : pc[s] \in Inside

(* The owner, how often it holds the lock, and who may be inside. *)
LockInv ==
  /\ pc \in [Session -> Inside \union Outside]
  /\ lock \in [owner : Session \union {NoSession}, depth : Nat]
  /\ abandoned \in Nat
  /\ (lock.owner = NoSession) <=> (lock.depth = 0)
  /\ \A s \in Session : pc[s] \in Inside => lock.owner = s
  /\ lock.depth = abandoned + (IF Busy THEN 1 ELSE 0)

USE CycleAssumption

LEMMA InitLock == Init => LockInv
  BY DEF Init, LockInv, Busy, Inside, Outside, Completion, Free

(* A step within the call, or outside it, changes nobody's claim. *)
LEMMA StaysInside ==
  ASSUME LockInv, NEW s \in Session, NEW from \in Inside, NEW to \in Inside,
         Goto(s, from, to), UNCHANGED <<lock, abandoned>>
  PROVE  LockInv'
  BY DEF LockInv, Busy, Goto

LEMMA StaysOutside ==
  ASSUME LockInv, NEW s \in Session, NEW from \in Outside, NEW to \in Outside,
         Goto(s, from, to), UNCHANGED <<lock, abandoned>>
  PROVE  LockInv'
  BY DEF LockInv, Busy, Goto, Inside, Outside, Completion

LEMMA AcquireLock ==
  ASSUME LockInv, NEW s \in Session, Acquire(s)
  PROVE  LockInv'
<1>1. CASE Available(s)
  <2>1. /\ lock' = [owner |-> s, depth |-> lock.depth + 1]
        /\ UNCHANGED abandoned
        /\ \E to \in Inside : Goto(s, "lock", to)
    BY <1>1 DEF Acquire, First, Inside
  <2>2. "lock" \notin Inside
    BY DEF Inside, Completion
  <2>3. ~Busy
    BY <1>1, <2>1, <2>2 DEF LockInv, Busy, Available, Goto
  <2>4. Busy'
    BY <2>1 DEF LockInv, Busy, Goto
  <2>5. \A t \in Session : pc'[t] \in Inside => t = s
    BY <2>1, <2>3 DEF LockInv, Busy, Goto
  <2>6. pc' \in [Session -> Inside \union Outside]
    BY <2>1 DEF LockInv, Goto
  <2> QED BY <2>1, <2>3, <2>4, <2>5, <2>6 DEF LockInv
<1>2. CASE ~Available(s)
  BY <1>2, StaysOutside DEF Acquire, Return, Quiet, NoWrites, Outside
<1> QED BY <1>1, <1>2

(* The session that leaves is the only one inside. *)
LEMMA ReleaseLock ==
  ASSUME LockInv, NEW s \in Session, Release(s)
  PROVE  LockInv'
<1>1. /\ Goto(s, "release", "idle") /\ UNCHANGED abandoned
      /\ lock' = IF lock.depth = 1 THEN Free ELSE [lock EXCEPT !.depth = @ - 1]
  BY DEF Release, Return
<1>2. "release" \in Inside /\ "idle" \in Outside /\ "idle" \notin Inside
  BY DEF Inside, Outside, Completion
<1>3. Busy /\ lock.owner = s
  BY <1>1, <1>2 DEF LockInv, Busy, Goto
<1>4. ~Busy'
  BY <1>1, <1>2, <1>3 DEF LockInv, Busy, Goto
<1>5. pc' \in [Session -> Inside \union Outside]
  BY <1>1, <1>2 DEF LockInv, Goto
<1>6. lock.depth = abandoned + 1
  BY <1>3 DEF LockInv
<1>7. \A t \in Session : pc'[t] \notin Inside
  BY <1>4 DEF Busy
<1>8. lock.depth \in Nat /\ lock.owner = s /\ abandoned \in Nat
  BY <1>3 DEF LockInv
<1>9. CASE lock.depth = 1
  BY <1>1, <1>4, <1>5, <1>6, <1>7, <1>8, <1>9 DEF LockInv, Free
<1>10. CASE lock.depth # 1
  <2>1. lock' = [owner |-> s, depth |-> lock.depth - 1]
    BY <1>1, <1>8, <1>10 DEF LockInv
  <2> QED BY <2>1, <1>1, <1>4, <1>5, <1>6, <1>7, <1>8, <1>10 DEF LockInv
<1> QED BY <1>9, <1>10

(* A cancelled call leaves its acquisition with the session. *)
LEMMA CancelLock ==
  ASSUME LockInv, NEW s \in Session, Cancel(s)
  PROVE  LockInv'
<1>1. "idle" \in Outside /\ "idle" \notin Inside
  BY DEF Inside, Outside, Completion
<1>2. /\ pc' = [pc EXCEPT ![s] = "idle"] /\ UNCHANGED lock
      /\ abandoned' = IF pc[s] \in Inside THEN abandoned + 1 ELSE abandoned
  BY DEF Cancel
<1>3. pc' \in [Session -> Inside \union Outside]
  BY <1>1, <1>2 DEF LockInv
<1>4. CASE pc[s] \in Inside
  <2>1. Busy /\ ~Busy'
    BY <1>1, <1>2, <1>4 DEF LockInv, Busy
  <2> QED BY <1>2, <1>3, <1>4, <2>1 DEF LockInv, Busy
<1>5. CASE pc[s] \notin Inside
  <2>1. Busy <=> Busy'
    BY <1>1, <1>2, <1>5 DEF LockInv, Busy
  <2> QED BY <1>1, <1>2, <1>3, <1>5, <2>1 DEF LockInv
<1> QED BY <1>4, <1>5

(* The locks of a session end with it. *)
LEMMA DisconnectLock ==
  ASSUME LockInv, NEW s \in Session, Disconnect(s)
  PROVE  LockInv'
<1>1. "idle" \in Outside /\ "idle" \notin Inside
  BY DEF Inside, Outside, Completion
<1>2. pc' = [pc EXCEPT ![s] = "idle"] /\ Unowned(s)
  BY DEF Disconnect
<1>3. pc' \in [Session -> Inside \union Outside]
  BY <1>1, <1>2 DEF LockInv
<1>4. CASE lock.owner = s
  <2>1. ~Busy'
    BY <1>1, <1>2, <1>4 DEF LockInv, Busy
  <2> QED BY <1>2, <1>3, <1>4, <2>1 DEF LockInv, Busy, Unowned, Free
<1>5. CASE lock.owner # s
  <2>1. Busy <=> Busy'
    BY <1>1, <1>2, <1>5 DEF LockInv, Busy
  <2> QED BY <1>1, <1>2, <1>3, <1>5, <2>1 DEF LockInv, Unowned
<1> QED BY <1>4, <1>5

-----------------------------------------------------------------------------
(* Every other step of a call goes from one statement under the lock to another. *)
Moves(s) == \E from, to \in Inside : Goto(s, from, to)

LEMMA StepMoves ==
  ASSUME NEW s \in Session, Step(s), ~Acquire(s), ~Release(s)
  PROVE  Moves(s) /\ UNCHANGED <<lock, abandoned>>
<1> USE DEF Moves, Inside, Completion, NoWrites, Quiet, Finish
<1>1. CASE PurgeStep(s)
  <2>1. CASE PurgeStart(s)
    BY <2>1 DEF PurgeStart
  <2>2. CASE Batch(s)
    BY <2>2 DEF Batch
  <2>3. CASE ClosePurge(s) \/ CatchPurge(s)
    BY <2>3 DEF ClosePurge, CatchPurge
  <2>4. CASE AfterPurge(s)
    BY <2>4 DEF AfterPurge
  <2> QED BY <1>1, <2>1, <2>2, <2>3, <2>4 DEF PurgeStep
<1>2. CASE Prepare(s)
  BY <1>2 DEF Prepare
<1>3. CASE RefusedModule(s)
  BY <1>3 DEF RefusedModule
<1>4. CASE CounterStep(s)
  <2>1. CASE ReadCounters(s)
    BY <2>1 DEF ReadCounters
  <2>2. CASE CounterScopes(s) \/ CounterModule(s) \/ CatchCompletion(s) \/ Finalize(s)
    BY <2>2 DEF CounterScopes, CounterModule, CatchCompletion, Finalize
  <2>3. CASE CounterRaw(s) \/ CounterInterpreted(s) \/ CounterPayload(s) \/ CounterRun(s)
    BY <2>3 DEF CounterRaw, CounterInterpreted, CounterPayload, CounterRun, Written
  <2> QED BY <1>4, <2>1, <2>2, <2>3 DEF CounterStep
<1>5. CASE NativeStep(s)
  <2>1. CASE Admit(s)
    BY <2>1 DEF Admit
  <2>2. CASE ReadNative(s)
    BY <2>2 DEF ReadNative
  <2>3. CASE NativeComplete(s)
    BY <2>3 DEF NativeComplete
  <2>4. CASE CatchNative(s)
    BY <2>4 DEF CatchNative
  <2> QED BY <1>5, <2>1, <2>2, <2>3, <2>4 DEF NativeStep
<1>6. CASE Project(s)
  BY <1>6 DEF Project
<1>7. CASE Catch(s)
  BY <1>7 DEF Catch
<1>8. CASE Raise(s)
  <2>1. \A at \in Inside : Handlers(at) \subseteq Inside
    BY DEF Handlers
  <2>2. pc[s] \in Inside /\ \E handler \in Handlers(pc[s]) : Goto(s, pc[s], handler)
    BY <1>8 DEF Raise
  <2>3. UNCHANGED <<lock, abandoned>>
    BY <1>8 DEF Raise
  <2>4. Moves(s)
    BY <2>1, <2>2
  <2> QED BY <2>3, <2>4
<1> QED BY <1>1, <1>2, <1>3, <1>4, <1>5, <1>6, <1>7, <1>8 DEF Step

LEMMA NextLock == LockInv /\ [Next]_vars => LockInv'
<1> SUFFICES ASSUME LockInv, [Next]_vars PROVE LockInv'
  OBVIOUS
<1>1. CASE UNCHANGED vars
  BY <1>1 DEF vars, LockInv, Busy
<1>2. ASSUME NEW s \in Session, Start(s) PROVE LockInv'
  <2>1. CASE Decline(s)
    BY <2>1 DEF Decline, vars, LockInv, Busy
  <2>2. ASSUME NEW op \in Operations, NEW force \in BOOLEAN, Call(s, op, force) PROVE LockInv'
    BY <2>2, StaysOutside DEF Call, Quiet, NoWrites, Outside
  <2> QED BY <1>2, <2>1, <2>2 DEF Start
<1>3. ASSUME NEW s \in Session, Step(s) PROVE LockInv'
  <2>1. CASE Acquire(s)
    BY <2>1, AcquireLock
  <2>2. CASE Release(s)
    BY <2>2, ReleaseLock
  <2>3. CASE ~Acquire(s) /\ ~Release(s)
    <3>1. Moves(s) /\ UNCHANGED <<lock, abandoned>>
      BY <1>3, <2>3, StepMoves
    <3> QED BY <3>1, StaysInside DEF Moves
  <2> QED BY <2>1, <2>2, <2>3
<1>4. ASSUME NEW s \in Session, Cancel(s) PROVE LockInv'
  BY <1>4, CancelLock
<1>5. ASSUME NEW s \in Session, Disconnect(s) PROVE LockInv'
  BY <1>5, DisconnectLock
<1>6. CASE Restart
  BY <1>6 DEF Restart, LockInv, Busy, Inside, Outside, Completion, Free
<1>7. CASE Tick
  BY <1>7 DEF Tick, LockInv, Busy
<1> QED BY <1>1, <1>2, <1>3, <1>4, <1>5, <1>6, <1>7 DEF Next

LEMMA AlwaysLock == Spec => []LockInv
<1>1. LockInv /\ [Next]_vars => LockInv'
  BY NextLock
<1> QED BY InitLock, <1>1, PTL DEF Spec

(* Only the owner of the applock is between acquisition and release of a cycle *)
(* or a purge, in every interleaving of any number of sessions.                *)
THEOREM ExclusiveWriter == Spec => []OneWriter
<1>1. LockInv => OneWriter
  BY DEF LockInv, OneWriter
<1> QED BY <1>1, AlwaysLock, PTL

(* A session holds the applock for its call in progress and for the calls it *)
(* cancelled, and for nothing else.                                          *)
THEOREM BalancedLock == Spec => []LockBalanced
<1>1. LockInv => LockBalanced
  <2> SUFFICES ASSUME LockInv PROVE LockBalanced
    OBVIOUS
  <2> DEFINE In == {s \in Session : pc[s] \in Inside}
  <2>1. CASE Busy
    <3>1. PICK s \in Session : pc[s] \in Inside
      BY <2>1 DEF Busy
    <3>2. In = {s}
      BY <3>1 DEF LockInv
    <3>3. Cardinality(In) = 1
      BY <3>2, FS_Singleton
    <3> QED BY <2>1, <3>3 DEF LockInv, LockBalanced
  <2>2. CASE ~Busy
    <3>1. In = {}
      BY <2>2 DEF Busy
    <3>2. Cardinality(In) = 0
      BY <3>1, FS_EmptySet
    <3> QED BY <2>2, <3>2 DEF LockInv, LockBalanced
  <2> QED BY <2>1, <2>2
<1> QED BY <1>1, AlwaysLock, PTL

HIDE CycleAssumption
-----------------------------------------------------------------------------
(* The evidence *)
(* A run whose end is open is RUNNING, or a file run. *)
RowOK(row) ==
  /\ row = [collector |-> row.collector, started |-> row.started, ended |-> row.ended,
            status |-> row.status, count |-> row.count, start |-> row.start,
            epoch |-> row.epoch, forced |-> row.forced, rows |-> row.rows,
            expected |-> row.expected]
  /\ row.started \in Nat
  /\ row.ended = None => row.status = "RUNNING" \/ row.collector = "FILE_IO"

StoreOK(d, last) ==
  /\ d = [runs |-> d.runs, samples |-> d.samples, payloads |-> d.payloads,
          modules |-> d.modules, scopes |-> d.scopes]
  /\ DOMAIN d.runs \subseteq 1..last
  /\ \A r \in DOMAIN d.runs : RowOK(d.runs[r])
  /\ IsFiniteSet(d.samples) /\ IsFiniteSet(d.payloads)
  /\ IsFiniteSet(d.modules) /\ IsFiniteSet(d.scopes)
  /\ \A x \in d.samples : x.at \in Int /\ x.run \in DOMAIN d.runs /\ x.scope \in d.scopes
  /\ \A x \in d.payloads : x.at \in Int /\ x.run \in DOMAIN d.runs
  /\ \A x \in d.modules : x.run \in DOMAIN d.runs

(* The statements before the run of a call is known, and those that use it. *)
BeforeRun == {"idle", "lock", "admit", "purge", "batch", "close", "purgecatch", "purged",
              "prepare", "refused"}
OfRun == {"read", "complete", "completecatch", "finalize", "modulecatch"} \union Completion

(* The parts of a call, whatever it is doing. *)
CallShape(c) ==
  /\ c = [op |-> c.op, force |-> c.force, run |-> c.run, status |-> c.status,
          src |-> c.src, purge |-> c.purge]
  /\ c.src = [rows |-> c.src.rows, start |-> c.src.start, epoch |-> c.src.epoch, at |-> c.src.at]
  /\ c.purge = [id |-> c.purge.id, now |-> c.purge.now, batch |-> c.purge.batch,
                rows |-> c.purge.rows, deleted |-> c.purge.deleted, status |-> c.purge.status]
  /\ c.src.rows \subseteq Counter /\ c.src.at \in Int
  /\ c.purge.now \in Int /\ c.purge.rows \in Nat

(* Its run, with the statement it is at. *)
CallRun(c, at, d, last) ==
  /\ c.run # 0 => c.run \in DOMAIN d.runs /\ d.runs[c.run].collector = c.op
  /\ at \in BeforeRun => c.run = 0
  /\ at \in OfRun => c.run # 0
  /\ at = "refused" => last \in DOMAIN d.runs /\ d.runs[last].collector = c.op
  /\ at \in {"raw", "interpreted"} => c.src.rows \subseteq d.scopes

CallOK(c, at, d, last, time) == CallShape(c) /\ c.purge.now <= time /\ CallRun(c, at, d, last)

Receipts == Seq([status : {"RUNNING", "AVAILABLE", "AVAILABLE_LIMITED", "ERROR_HANDLED"},
                 ended : Nat \union {None}, rows : Nat, removed : Nat])

DataInv ==
  /\ LockInv
  /\ now \in Nat /\ lastRun \in Nat
  /\ StoreOK(db, lastRun)
  /\ call = [s \in Session |-> call[s]]
  /\ \A s \in Session : CallOK(call[s], pc[s], db, lastRun, now)
  /\ purges \in Receipts

-----------------------------------------------------------------------------
(* What a writing statement does to the store, other than the purge. *)
Extends(d, e) ==
  /\ DOMAIN d.runs \subseteq DOMAIN e.runs
  /\ \A r \in DOMAIN d.runs : e.runs[r].collector = d.runs[r].collector
  /\ d.samples \subseteq e.samples /\ d.payloads \subseteq e.payloads /\ d.scopes \subseteq e.scopes

(* Nothing written is an extension, and extensions compose. *)
LEMMA ExtendsSelf == ASSUME NEW d PROVE Extends(d, d)
  BY DEF Extends

LEMMA ExtendsTrans ==
  ASSUME NEW d, NEW e, NEW f, Extends(d, e), Extends(e, f) PROVE Extends(d, f)
  BY DEF Extends

LEMMA AddRunOK ==
  ASSUME NEW d, NEW last \in Nat, StoreOK(d, last), NEW row, RowOK(row)
  PROVE  LET e == AddRun(d, last + 1, row)
         IN /\ StoreOK(e, last + 1) /\ Extends(d, e)
            /\ last + 1 \in DOMAIN e.runs /\ e.runs[last + 1] = row
<1> DEFINE e == AddRun(d, last + 1, row)
<1>1. e = [runs |-> [q \in DOMAIN d.runs \union {last + 1} |-> IF q = last + 1 THEN row ELSE d.runs[q]],
           samples |-> d.samples, payloads |-> d.payloads, modules |-> d.modules, scopes |-> d.scopes]
  BY DEF AddRun, StoreOK
<1>2. last + 1 \notin DOMAIN d.runs
  BY DEF StoreOK
<1> HIDE DEF e
<1>3. StoreOK(e, last + 1)
  BY <1>1, <1>2 DEF StoreOK
<1>4. Extends(d, e)
  BY <1>1, <1>2 DEF Extends
<1> QED BY <1>1, <1>3, <1>4 DEF e

LEMMA AddModulesOK ==
  ASSUME NEW d, NEW last, StoreOK(d, last), NEW r \in DOMAIN d.runs, NEW n \in Nat
  PROVE  StoreOK(AddModules(d, r, n), last) /\ Extends(d, AddModules(d, r, n))
<1> DEFINE M == {[run |-> r, row |-> i] : i \in 1..n}
           e == AddModules(d, r, n)
<1>1. IsFiniteSet(1..n)
  BY FS_Interval
<1>2. IsFiniteSet(M)
  <2> DEFINE f == [i \in 1..n |-> [run |-> r, row |-> i]]
  <2>1. f \in Surjection(1..n, M)
    BY DEF Surjection
  <2> QED BY <1>1, <2>1, FS_Surjection
<1>3. e = [d EXCEPT !.modules = @ \union M]
  BY DEF AddModules
<1>4. \A x \in M : x.run = r
  OBVIOUS
<1> HIDE DEF M, e
<1>5. e = [runs |-> d.runs, samples |-> d.samples, payloads |-> d.payloads,
           modules |-> d.modules \union M, scopes |-> d.scopes]
  BY <1>3 DEF StoreOK
<1>6. IsFiniteSet(d.modules \union M)
  BY <1>2, FS_Union DEF StoreOK
<1>7. StoreOK(e, last)
  BY <1>4, <1>5, <1>6 DEF StoreOK
<1>8. Extends(d, e)
  BY <1>5 DEF Extends
<1> QED BY <1>7, <1>8 DEF e

LEMMA AddPayloadOK ==
  ASSUME NEW d, NEW last, StoreOK(d, last), NEW r \in DOMAIN d.runs, NEW t \in Int
  PROVE  StoreOK(AddPayload(d, r, t), last) /\ Extends(d, AddPayload(d, r, t))
<1> DEFINE P == {[run |-> r, at |-> t]}
           e == AddPayload(d, r, t)
<1>1. IsFiniteSet(P)
  BY FS_Singleton
<1>2. \A x \in P : x.run = r /\ x.at = t
  OBVIOUS
<1>7. e = [d EXCEPT !.payloads = @ \union P]
  BY DEF AddPayload
<1> HIDE DEF P, e
<1>3. e = [runs |-> d.runs, samples |-> d.samples, payloads |-> d.payloads \union P,
           modules |-> d.modules, scopes |-> d.scopes]
  BY <1>7 DEF StoreOK
<1>4. IsFiniteSet(d.payloads \union P)
  BY <1>1, FS_Union DEF StoreOK
<1>5. StoreOK(e, last)
  BY <1>2, <1>3, <1>4 DEF StoreOK
<1>6. Extends(d, e)
  BY <1>3 DEF Extends
<1> QED BY <1>5, <1>6 DEF e

(* A row of an existing run is rewritten without touching its collector. *)
LEMMA RewriteOK ==
  ASSUME NEW d, NEW last, StoreOK(d, last), NEW r \in DOMAIN d.runs, NEW row, RowOK(row),
         row.collector = d.runs[r].collector
  PROVE  LET e == [d EXCEPT !.runs = [@ EXCEPT ![r] = row]]
         IN StoreOK(e, last) /\ Extends(d, e) /\ e.scopes = d.scopes
<1> DEFINE e == [d EXCEPT !.runs = [@ EXCEPT ![r] = row]]
<1>1. e = [runs |-> [d.runs EXCEPT ![r] = row], samples |-> d.samples, payloads |-> d.payloads,
           modules |-> d.modules, scopes |-> d.scopes]
  BY DEF StoreOK
<1> HIDE DEF e
<1>2. /\ DOMAIN e.runs = DOMAIN d.runs
      /\ \A q \in DOMAIN d.runs : e.runs[q] = IF q = r THEN row ELSE d.runs[q]
  BY <1>1
<1>3. StoreOK(e, last)
  BY <1>1, <1>2 DEF StoreOK
<1>4. Extends(d, e)
  BY <1>1, <1>2 DEF Extends
<1> QED BY <1>1, <1>3, <1>4 DEF e

(* The row of a run that gains samples. *)
LEMMA AddSamplesRow ==
  ASSUME NEW d, NEW last, StoreOK(d, last), NEW r \in DOMAIN d.runs, NEW S
  PROVE  LET old == d.runs[r]
             row == [collector |-> old.collector, started |-> old.started, ended |-> old.ended,
                     status |-> old.status, count |-> old.count, start |-> old.start,
                     epoch |-> old.epoch, forced |-> old.forced,
                     rows |-> old.rows + Cardinality(S), expected |-> old.expected]
         IN AddSamples(d, r, S) =
              [runs |-> [d.runs EXCEPT ![r] = row], samples |-> d.samples \union S,
               payloads |-> d.payloads, modules |-> d.modules, scopes |-> d.scopes]
<1> DEFINE old == d.runs[r]
           n == old.rows + Cardinality(S)
           row == [old EXCEPT !.rows = n]
           e == AddSamples(d, r, S)
<1>1. RowOK(old)
  BY DEF StoreOK
<1>2. e = [d EXCEPT !.samples = @ \union S, !.runs = [@ EXCEPT ![r] = row]]
  BY DEF AddSamples
<1>3. row = [collector |-> old.collector, started |-> old.started, ended |-> old.ended,
             status |-> old.status, count |-> old.count, start |-> old.start,
             epoch |-> old.epoch, forced |-> old.forced, rows |-> n, expected |-> old.expected]
  <2> HIDE DEF n
  <2> QED BY <1>1 DEF RowOK
<1> HIDE DEF row, e
<1>4. e = [runs |-> [d.runs EXCEPT ![r] = row], samples |-> d.samples \union S,
           payloads |-> d.payloads, modules |-> d.modules, scopes |-> d.scopes]
  BY <1>2 DEF StoreOK
<1> QED BY <1>3, <1>4 DEF e

(* Samples of an existing run in existing scopes. *)
LEMMA AddSamplesOK ==
  ASSUME NEW d, NEW last, StoreOK(d, last), NEW r \in DOMAIN d.runs, NEW S, IsFiniteSet(S),
         \A x \in S : x.run = r /\ x.at \in Int /\ x.scope \in d.scopes
  PROVE  StoreOK(AddSamples(d, r, S), last) /\ Extends(d, AddSamples(d, r, S))
<1> DEFINE old == d.runs[r]
           row == [collector |-> old.collector, started |-> old.started, ended |-> old.ended,
                   status |-> old.status, count |-> old.count, start |-> old.start,
                   epoch |-> old.epoch, forced |-> old.forced,
                   rows |-> old.rows + Cardinality(S), expected |-> old.expected]
           f == [d EXCEPT !.runs = [@ EXCEPT ![r] = row]]
           e == AddSamples(d, r, S)
<1>1. RowOK(old)
  BY DEF StoreOK
<1>2. RowOK(row) /\ row.collector = d.runs[r].collector
  BY <1>1 DEF RowOK
<1>3. StoreOK(f, last) /\ Extends(d, f) /\ f.scopes = d.scopes
  <2> HIDE DEF row
  <2> QED BY <1>2, RewriteOK
<1>4. e = [runs |-> [d.runs EXCEPT ![r] = row], samples |-> d.samples \union S,
           payloads |-> d.payloads, modules |-> d.modules, scopes |-> d.scopes]
  BY AddSamplesRow
<1> HIDE DEF row, e
<1>5. f = [runs |-> [d.runs EXCEPT ![r] = row], samples |-> d.samples, payloads |-> d.payloads,
           modules |-> d.modules, scopes |-> d.scopes]
  BY DEF StoreOK
<1>6. e = [runs |-> f.runs, samples |-> f.samples \union S, payloads |-> f.payloads,
           modules |-> f.modules, scopes |-> f.scopes]
  BY <1>4, <1>5
<1>7. r \in DOMAIN f.runs
  BY <1>5
<1> HIDE DEF f
<1>8. IsFiniteSet(f.samples \union S)
  BY <1>3, FS_Union DEF StoreOK
<1>9. StoreOK(e, last)
  BY <1>3, <1>6, <1>7, <1>8 DEF StoreOK
<1>10. Extends(d, e)
  BY <1>3, <1>6 DEF Extends
<1> QED BY <1>9, <1>10 DEF e

LEMMA AddScopesOK ==
  ASSUME NEW d, NEW last, StoreOK(d, last), NEW K, IsFiniteSet(K)
  PROVE  LET e == [d EXCEPT !.scopes = @ \union K]
         IN StoreOK(e, last) /\ Extends(d, e) /\ e.scopes = d.scopes \union K /\ e.runs = d.runs
<1> DEFINE e == [d EXCEPT !.scopes = @ \union K]
<1>5. e = [d EXCEPT !.scopes = @ \union K]
  OBVIOUS
<1> HIDE DEF e
<1>1. e = [runs |-> d.runs, samples |-> d.samples, payloads |-> d.payloads,
           modules |-> d.modules, scopes |-> d.scopes \union K]
  BY <1>5 DEF StoreOK
<1>2. IsFiniteSet(d.scopes \union K)
  BY FS_Union DEF StoreOK
<1>3. StoreOK(e, last)
  BY <1>1, <1>2 DEF StoreOK
<1>4. Extends(d, e)
  BY <1>1 DEF Extends
<1> QED BY <1>1, <1>3, <1>4 DEF e

(* The row of a run that ends. *)
LEMMA FinalizedRow ==
  ASSUME NEW d, NEW last, StoreOK(d, last), NEW r \in DOMAIN d.runs, NEW status, NEW t
  PROVE  LET old == d.runs[r]
             row == [collector |-> old.collector, started |-> old.started, ended |-> t,
                     status |-> status, count |-> Cardinality(SamplesOf(d, r)),
                     start |-> old.start, epoch |-> old.epoch,
                     forced |-> old.forced, rows |-> old.rows, expected |-> old.expected]
         IN Finalized(d, r, status, t) = [d EXCEPT !.runs = [@ EXCEPT ![r] = row]]
<1> DEFINE old == d.runs[r]
           n == Cardinality(SamplesOf(d, r))
           row == [collector |-> old.collector, started |-> old.started, ended |-> t,
                   status |-> status, count |-> n, start |-> old.start, epoch |-> old.epoch,
                   forced |-> old.forced, rows |-> old.rows, expected |-> old.expected]
           e == Finalized(d, r, status, t)
           f == [d EXCEPT !.runs = [@ EXCEPT ![r] = row]]
<1>1. RowOK(old)
  BY DEF StoreOK
<1>2. row = [[[old EXCEPT !.ended = t] EXCEPT !.status = status] EXCEPT !.count = n]
  <2> DEFINE a == [old EXCEPT !.ended = t]
             b == [a EXCEPT !.status = status]
             c == [b EXCEPT !.count = n]
  <2>0. a = [old EXCEPT !.ended = t] /\ b = [a EXCEPT !.status = status]
        /\ c = [b EXCEPT !.count = n]
    OBVIOUS
  <2>1. row = [collector |-> old.collector, started |-> old.started, ended |-> t,
               status |-> status, count |-> n, start |-> old.start, epoch |-> old.epoch,
               forced |-> old.forced, rows |-> old.rows, expected |-> old.expected]
    OBVIOUS
  <2> HIDE DEF old, n, a, b, c, row
  <2>2. a = [collector |-> old.collector, started |-> old.started, ended |-> t,
             status |-> old.status, count |-> old.count, start |-> old.start, epoch |-> old.epoch,
             forced |-> old.forced, rows |-> old.rows, expected |-> old.expected]
    BY <1>1, <2>0 DEF RowOK
  <2>3. b = [collector |-> old.collector, started |-> old.started, ended |-> t,
             status |-> status, count |-> old.count, start |-> old.start, epoch |-> old.epoch,
             forced |-> old.forced, rows |-> old.rows, expected |-> old.expected]
    BY <2>0, <2>2
  <2>4. c = [b EXCEPT !.count = n]
    BY <2>0
  <2>5. c = [collector |-> old.collector, started |-> old.started, ended |-> t,
             status |-> status, count |-> n, start |-> old.start, epoch |-> old.epoch,
             forced |-> old.forced, rows |-> old.rows, expected |-> old.expected]
    BY <2>3, <2>4
  <2>6. c = row
    BY <2>1, <2>5
  <2> QED BY <2>6 DEF a, b, c
<1>3. e = [d EXCEPT !.runs[r].ended = t, !.runs[r].status = status, !.runs[r].count = n]
  BY DEF Finalized
<1>4. e = f
  <2> HIDE DEF n, row, e
  <2> QED BY <1>2, <1>3 DEF StoreOK
<1> QED BY <1>4

(* Finalization ends a row; a run that is not there changes nothing. *)
LEMMA FinalizedOK ==
  ASSUME NEW d, NEW last, StoreOK(d, last), NEW r, NEW status, NEW t \in Nat
  PROVE  LET e == Finalized(d, r, status, t)
         IN StoreOK(e, last) /\ Extends(d, e)
<1>1. CASE r \notin DOMAIN d.runs
  BY <1>1, ExtendsSelf DEF Finalized
<1>2. CASE r \in DOMAIN d.runs
  <2> DEFINE old == d.runs[r]
             n == Cardinality(SamplesOf(d, r))
             row == [collector |-> old.collector, started |-> old.started, ended |-> t,
                     status |-> status, count |-> n, start |-> old.start, epoch |-> old.epoch,
                     forced |-> old.forced, rows |-> old.rows, expected |-> old.expected]
             e == Finalized(d, r, status, t)
             f == [d EXCEPT !.runs = [@ EXCEPT ![r] = row]]
  <2>1. RowOK(old)
    BY <1>2 DEF StoreOK
  <2>2. e = f
    BY <1>2, FinalizedRow
  <2>3. RowOK(row) /\ row.collector = d.runs[r].collector
    <3> HIDE DEF n
    <3> QED BY <2>1 DEF RowOK, None
  <2>4. StoreOK(f, last) /\ Extends(d, f)
    <3> HIDE DEF row
    <3> QED BY <1>2, <2>3, RewriteOK
  <2> QED BY <2>2, <2>4
<1> QED BY <1>1, <1>2

-----------------------------------------------------------------------------
(* What the purge does to the store. *)
Shrinks(d, e) ==
  /\ DOMAIN e.runs \subseteq DOMAIN d.runs
  /\ \A r \in DOMAIN e.runs : e.runs[r] = d.runs[r]
  /\ e.samples \subseteq d.samples /\ e.payloads \subseteq d.payloads
  /\ e.modules \subseteq d.modules /\ e.scopes \subseteq d.scopes

LEMMA TopSubset == ASSUME NEW S, NEW D \in Top(S) PROVE D \subseteq S
  BY DEF Top, kSubset

LEMMA PurgeSamplesOK ==
  ASSUME NEW d, NEW last, StoreOK(d, last), NEW t, NEW e \in PurgeSamples(d, t)
  PROVE  /\ StoreOK(e, last) /\ Shrinks(d, e)
         /\ e.runs = d.runs /\ e.payloads = d.payloads
         /\ \A x \in d.samples \ e.samples : x.at < t - RawRetention
<1>1. PICK D \in Top(ExpiredSamples(d, t)) : e = [d EXCEPT !.samples = @ \ D]
  BY DEF PurgeSamples
<1>2. D \subseteq ExpiredSamples(d, t)
  BY TopSubset
<1>3. e = [runs |-> d.runs, samples |-> d.samples \ D, payloads |-> d.payloads,
           modules |-> d.modules, scopes |-> d.scopes]
  BY <1>1 DEF StoreOK
<1>4. IsFiniteSet(d.samples \ D)
  BY FS_Difference DEF StoreOK
<1>5. StoreOK(e, last)
  BY <1>3, <1>4 DEF StoreOK
<1>6. Shrinks(d, e)
  BY <1>3 DEF Shrinks
<1>7. \A x \in d.samples \ e.samples : x.at < t - RawRetention
  BY <1>2, <1>3 DEF ExpiredSamples
<1> QED BY <1>3, <1>5, <1>6, <1>7

LEMMA PurgePayloadsOK ==
  ASSUME NEW d, NEW last, StoreOK(d, last), NEW t, NEW e \in PurgePayloads(d, t)
  PROVE  /\ StoreOK(e, last) /\ Shrinks(d, e)
         /\ e.runs = d.runs /\ e.samples = d.samples
         /\ \A x \in d.payloads \ e.payloads : x.at < t - PayloadRetention
<1>1. PICK D \in Top(ExpiredPayloads(d, t)) : e = [d EXCEPT !.payloads = @ \ D]
  BY DEF PurgePayloads
<1>2. D \subseteq ExpiredPayloads(d, t)
  BY TopSubset
<1>3. e = [runs |-> d.runs, samples |-> d.samples, payloads |-> d.payloads \ D,
           modules |-> d.modules, scopes |-> d.scopes]
  BY <1>1 DEF StoreOK
<1>4. IsFiniteSet(d.payloads \ D)
  BY FS_Difference DEF StoreOK
<1>5. StoreOK(e, last)
  BY <1>3, <1>4 DEF StoreOK
<1>6. Shrinks(d, e)
  BY <1>3 DEF Shrinks
<1>7. \A x \in d.payloads \ e.payloads : x.at < t - PayloadRetention
  BY <1>2, <1>3 DEF ExpiredPayloads
<1> QED BY <1>3, <1>5, <1>6, <1>7

LEMMA PurgeModulesOK ==
  ASSUME NEW d, NEW last, StoreOK(d, last), NEW t, NEW e \in PurgeModules(d, t)
  PROVE  /\ StoreOK(e, last) /\ Shrinks(d, e)
         /\ e.runs = d.runs /\ e.samples = d.samples /\ e.payloads = d.payloads
<1>1. PICK D \in Top(ExpiredModules(d, t)) : e = [d EXCEPT !.modules = @ \ D]
  BY DEF PurgeModules
<1>3. e = [runs |-> d.runs, samples |-> d.samples, payloads |-> d.payloads,
           modules |-> d.modules \ D, scopes |-> d.scopes]
  BY <1>1 DEF StoreOK
<1>4. IsFiniteSet(d.modules \ D)
  BY FS_Difference DEF StoreOK
<1>5. StoreOK(e, last)
  BY <1>3, <1>4 DEF StoreOK
<1>6. Shrinks(d, e)
  BY <1>3 DEF Shrinks
<1> QED BY <1>3, <1>5, <1>6

(* No row refers to a run that is deleted. *)
LEMMA PurgeRunsOK ==
  ASSUME NEW d, NEW last, StoreOK(d, last), NEW t, NEW e \in PurgeRuns(d, t)
  PROVE  /\ StoreOK(e, last) /\ Shrinks(d, e)
         /\ e.samples = d.samples /\ e.payloads = d.payloads
         /\ \A r \in DOMAIN d.runs \ DOMAIN e.runs : r \in ExpiredRuns(d, t)
<1>1. PICK D \in Top(ExpiredRuns(d, t)) : e = [d EXCEPT !.runs = [r \in DOMAIN @ \ D |-> @[r]]]
  BY DEF PurgeRuns
<1>2. D \subseteq ExpiredRuns(d, t)
  BY TopSubset
<1>3. e = [runs |-> [r \in DOMAIN d.runs \ D |-> d.runs[r]], samples |-> d.samples,
           payloads |-> d.payloads, modules |-> d.modules, scopes |-> d.scopes]
  BY <1>1 DEF StoreOK
<1>4. \A r \in D : /\ \A x \in d.samples : x.run # r
                   /\ \A x \in d.payloads : x.run # r
                   /\ \A x \in d.modules : x.run # r
  BY <1>2 DEF ExpiredRuns, Emptied, SamplesOf, PayloadsOf, ModulesOf
<1>5. StoreOK(e, last)
  BY <1>3, <1>4 DEF StoreOK
<1>6. Shrinks(d, e)
  BY <1>3 DEF Shrinks
<1> QED BY <1>2, <1>3, <1>5, <1>6

LEMMA PurgeScopesOK ==
  ASSUME NEW d, NEW last, StoreOK(d, last), NEW e \in PurgeScopes(d)
  PROVE  /\ StoreOK(e, last) /\ Shrinks(d, e)
         /\ e.runs = d.runs /\ e.samples = d.samples /\ e.payloads = d.payloads
<1>1. PICK D \in Top(UnusedScopes(d)) : e = [d EXCEPT !.scopes = @ \ D]
  BY DEF PurgeScopes
<1>2. D \subseteq UnusedScopes(d)
  BY TopSubset
<1>3. e = [runs |-> d.runs, samples |-> d.samples, payloads |-> d.payloads,
           modules |-> d.modules, scopes |-> d.scopes \ D]
  BY <1>1 DEF StoreOK
<1>4. IsFiniteSet(d.scopes \ D)
  BY FS_Difference DEF StoreOK
<1>7. \A x \in d.samples : x.scope \notin D
  BY <1>2 DEF UnusedScopes
<1>5. StoreOK(e, last)
  BY <1>3, <1>4, <1>7 DEF StoreOK
<1>6. Shrinks(d, e)
  BY <1>3 DEF Shrinks
<1> QED BY <1>3, <1>5, <1>6

LEMMA ShrinksTrans ==
  ASSUME NEW d, NEW e, NEW f, Shrinks(d, e), Shrinks(e, f) PROVE Shrinks(d, f)
  BY DEF Shrinks

(* The rows a batch removes are a natural number. *)
LEMMA RowsShrink ==
  ASSUME NEW d, NEW last, StoreOK(d, last), last \in Nat, NEW e, Shrinks(d, e)
  PROVE  Rows(d) - Rows(e) \in Nat
<1>0. IsFiniteSet(1..last)
  BY FS_Interval
<1>1. IsFiniteSet(DOMAIN d.runs)
  <2>1. DOMAIN d.runs \in SUBSET (1..last)
    BY DEF StoreOK
  <2> QED BY <1>0, <2>1, FS_Subset
<1>2. \A S, T : IsFiniteSet(S) /\ T \subseteq S
                  => /\ Cardinality(S) \in Nat /\ Cardinality(T) \in Nat
                     /\ Cardinality(T) <= Cardinality(S)
  BY FS_Subset, FS_CardinalityType
<1>3. /\ Cardinality(DOMAIN d.runs) \in Nat /\ Cardinality(DOMAIN e.runs) \in Nat
      /\ Cardinality(DOMAIN e.runs) <= Cardinality(DOMAIN d.runs)
  BY <1>1, <1>2 DEF Shrinks
<1>4. /\ Cardinality(d.samples) \in Nat /\ Cardinality(e.samples) \in Nat
      /\ Cardinality(e.samples) <= Cardinality(d.samples)
  BY <1>2 DEF Shrinks, StoreOK
<1>5. /\ Cardinality(d.payloads) \in Nat /\ Cardinality(e.payloads) \in Nat
      /\ Cardinality(e.payloads) <= Cardinality(d.payloads)
  BY <1>2 DEF Shrinks, StoreOK
<1>6. /\ Cardinality(d.modules) \in Nat /\ Cardinality(e.modules) \in Nat
      /\ Cardinality(e.modules) <= Cardinality(d.modules)
  BY <1>2 DEF Shrinks, StoreOK
<1>7. /\ Cardinality(d.scopes) \in Nat /\ Cardinality(e.scopes) \in Nat
      /\ Cardinality(e.scopes) <= Cardinality(d.scopes)
  BY <1>2 DEF Shrinks, StoreOK
<1> QED BY <1>3, <1>4, <1>5, <1>6, <1>7 DEF Rows

(* A whole batch, seen from its beginning: what is missing at its end was expired, *)
(* and a missing run has no samples left and was superseded.                       *)
LEMMA BatchOK ==
  ASSUME NEW d, NEW last \in Nat, StoreOK(d, last), NEW t,
         NEW d1 \in PurgeSamples(d, t), NEW d2 \in PurgePayloads(d1, t),
         NEW d3 \in PurgeModules(d2, t), NEW d4 \in PurgeRuns(d3, t), NEW d5 \in PurgeScopes(d4)
  PROVE  /\ StoreOK(d5, last)
         /\ \A e \in {d, d1, d2, d3, d4, d5} : Shrinks(d, e) /\ Rows(d) - Rows(e) \in Nat
         /\ \A x \in d.samples \ d5.samples : x.at < t - RawRetention
         /\ \A x \in d.payloads \ d5.payloads : x.at < t - PayloadRetention
         /\ \A r \in DOMAIN d.runs \ DOMAIN d5.runs :
              /\ d.runs[r].started < t - RawRetention
              /\ SamplesOf(d5, r) = {}
              /\ Superseded(d, r)
<1>1. /\ StoreOK(d1, last) /\ Shrinks(d, d1)
      /\ d1.runs = d.runs /\ d1.payloads = d.payloads
      /\ \A x \in d.samples \ d1.samples : x.at < t - RawRetention
  BY PurgeSamplesOK
<1>2. /\ StoreOK(d2, last) /\ Shrinks(d1, d2)
      /\ d2.runs = d.runs /\ d2.samples = d1.samples
      /\ \A x \in d1.payloads \ d2.payloads : x.at < t - PayloadRetention
  BY <1>1, PurgePayloadsOK
<1>3. /\ StoreOK(d3, last) /\ Shrinks(d2, d3)
      /\ d3.runs = d.runs /\ d3.samples = d1.samples /\ d3.payloads = d2.payloads
  BY <1>2, PurgeModulesOK
<1>4. /\ StoreOK(d4, last) /\ Shrinks(d3, d4)
      /\ d4.samples = d1.samples /\ d4.payloads = d2.payloads
      /\ \A r \in DOMAIN d3.runs \ DOMAIN d4.runs : r \in ExpiredRuns(d3, t)
  BY <1>3, PurgeRunsOK
<1>5. /\ StoreOK(d5, last) /\ Shrinks(d4, d5)
      /\ d5.runs = d4.runs /\ d5.samples = d1.samples /\ d5.payloads = d2.payloads
  BY <1>4, PurgeScopesOK
<1>6. \A e \in {d, d1, d2, d3, d4, d5} : Shrinks(d, e)
  <2>1. Shrinks(d, d)
    BY DEF Shrinks
  <2>2. Shrinks(d, d2)
    BY <1>1, <1>2, ShrinksTrans
  <2>3. Shrinks(d, d3)
    BY <1>3, <2>2, ShrinksTrans
  <2>4. Shrinks(d, d4)
    BY <1>4, <2>3, ShrinksTrans
  <2>5. Shrinks(d, d5)
    BY <1>5, <2>4, ShrinksTrans
  <2> QED BY <1>1, <2>1, <2>2, <2>3, <2>4, <2>5
<1>7. \A e \in {d, d1, d2, d3, d4, d5} : Rows(d) - Rows(e) \in Nat
  BY <1>6, RowsShrink
<1>8. ASSUME NEW r \in DOMAIN d.runs \ DOMAIN d5.runs
      PROVE  d.runs[r].started < t - RawRetention /\ SamplesOf(d5, r) = {} /\ Superseded(d, r)
  <2>1. r \in ExpiredRuns(d3, t)
    BY <1>3, <1>4, <1>5, <1>8
  <2>2. d.runs[r].started < t - RawRetention /\ SamplesOf(d5, r) = {}
    BY <2>1, <1>3, <1>5 DEF ExpiredRuns, Emptied, SamplesOf
  <2>3. Superseded(d, r)
    BY <2>1, <1>3 DEF ExpiredRuns, Superseded
  <2> QED BY <2>2, <2>3
<1> QED BY <1>1, <1>2, <1>5, <1>6, <1>7, <1>8

-----------------------------------------------------------------------------
(* The invariant. *)

LEMMA InitData == Init => DataInv
<1> SUFFICES ASSUME Init PROVE DataInv
  OBVIOUS
<1>1. LockInv
  BY InitLock
<1>2. StoreOK(db, lastRun)
  <2>1. /\ db = [runs |-> <<>>, samples |-> {}, payloads |-> {}, modules |-> {}, scopes |-> {}]
        /\ DOMAIN db.runs = {}
    BY DEF Init, EmptyStore
  <2> QED BY <2>1, FS_EmptySet DEF StoreOK
<1>3. \A s \in Session : CallOK(call[s], pc[s], db, lastRun, now)
  <2>1. CallOK(NoCall, "idle", db, 0, 0)
    <3>1. CallShape(NoCall)
      BY DEF CallShape, NoCall, NoSource, NoPurge, None
    <3>2. NoCall.purge.now <= 0
      BY DEF NoCall, NoPurge, None
    <3>3. CallRun(NoCall, "idle", db, 0)
      BY DEF CallRun, NoCall, OfRun, Completion
    <3> QED BY <3>1, <3>2, <3>3 DEF CallOK
  <2> QED BY <2>1 DEF Init
<1>4. purges \in Receipts
  BY DEF Init, Receipts
<1> QED BY <1>1, <1>2, <1>3, <1>4 DEF Init, DataInv

(* Where a session is outside, its call depends on nothing that others change. *)
LEMMA OutsideCall ==
  ASSUME NEW c, NEW at \in Outside, NEW d, NEW last, NEW time \in Int, CallOK(c, at, d, last, time),
         NEW e, NEW last2, NEW time2 \in Int, time <= time2
  PROVE  CallOK(c, at, e, last2, time2)
<1>1. at \in BeforeRun /\ at \notin OfRun /\ at \notin {"refused", "raw", "interpreted"}
  BY DEF Outside, BeforeRun, OfRun, Completion
<1>2. c.purge.now <= time2
  BY DEF CallOK, CallShape
<1>3. CallRun(c, at, e, last2)
  BY <1>1 DEF CallOK, CallRun
<1> QED BY <1>2, <1>3 DEF CallOK

(* A step of the session inside: only its own call has to be looked at. *)
LEMMA OwnStep ==
  ASSUME DataInv, LockInv', NEW s \in Session, pc[s] \in Inside, NEW to, NEW c,
         pc' = [pc EXCEPT ![s] = to], call' = [call EXCEPT ![s] = c], UNCHANGED now,
         lastRun' \in Nat, StoreOK(db', lastRun'), CallOK(c, to, db', lastRun', now),
         purges' \in Receipts
  PROVE  DataInv'
<1>1. ASSUME NEW q \in Session, q # s PROVE CallOK(call[q], pc[q], db', lastRun', now)
  <2>1. pc[q] \in Outside
    BY <1>1 DEF DataInv, LockInv
  <2>2. now \in Int /\ now <= now /\ CallOK(call[q], pc[q], db, lastRun, now)
    BY DEF DataInv
  <2> QED BY <2>1, <2>2, OutsideCall
<1>2. \A q \in Session : call'[q] = (IF q = s THEN c ELSE call[q]) /\ pc'[q] = (IF q = s THEN to ELSE pc[q])
  BY DEF DataInv, LockInv
<1>3. \A q \in Session : CallOK(call'[q], pc'[q], db', lastRun', now')
  BY <1>1, <1>2
<1>4. call' = [q \in Session |-> call'[q]]
  BY DEF DataInv
<1> QED BY <1>3, <1>4 DEF DataInv

-----------------------------------------------------------------------------
(* Parts of a call that are replaced. *)
LEMMA StatusSet ==
  ASSUME NEW c, CallShape(c), NEW status
  PROVE  LET e == [c EXCEPT !.status = status]
         IN CallShape(e) /\ e.op = c.op /\ e.run = c.run /\ e.src = c.src /\ e.purge = c.purge
<1> DEFINE e == [c EXCEPT !.status = status]
<1>1. e = [op |-> c.op, force |-> c.force, run |-> c.run, status |-> status,
           src |-> c.src, purge |-> c.purge]
  BY DEF CallShape
<1> HIDE DEF e
<1> QED BY <1>1 DEF CallShape, e

LEMMA RunSet ==
  ASSUME NEW c, CallShape(c), NEW r
  PROVE  LET e == [c EXCEPT !.run = r]
         IN CallShape(e) /\ e.op = c.op /\ e.run = r /\ e.src = c.src /\ e.purge = c.purge
<1> DEFINE e == [c EXCEPT !.run = r]
<1>1. e = [op |-> c.op, force |-> c.force, run |-> r, status |-> c.status,
           src |-> c.src, purge |-> c.purge]
  BY DEF CallShape
<1> HIDE DEF e
<1> QED BY <1>1 DEF CallShape, e

LEMMA SourceSet ==
  ASSUME NEW c, CallShape(c), NEW x,
         x = [rows |-> x.rows, start |-> x.start, epoch |-> x.epoch, at |-> x.at],
         x.rows \subseteq Counter, x.at \in Int
  PROVE  LET e == [c EXCEPT !.src = x]
         IN CallShape(e) /\ e.op = c.op /\ e.run = c.run /\ e.src = x /\ e.purge = c.purge
<1> DEFINE e == [c EXCEPT !.src = x]
<1>1. e = [op |-> c.op, force |-> c.force, run |-> c.run, status |-> c.status,
           src |-> x, purge |-> c.purge]
  BY DEF CallShape
<1> HIDE DEF e
<1> QED BY <1>1 DEF CallShape, e

LEMMA PurgeSet ==
  ASSUME NEW c, CallShape(c), NEW x,
         x = [id |-> x.id, now |-> x.now, batch |-> x.batch,
              rows |-> x.rows, deleted |-> x.deleted, status |-> x.status],
         x.now \in Int, x.rows \in Nat
  PROVE  LET e == [c EXCEPT !.purge = x]
         IN CallShape(e) /\ e.op = c.op /\ e.run = c.run /\ e.src = c.src /\ e.purge = x
<1> DEFINE e == [c EXCEPT !.purge = x]
<1>1. e = [op |-> c.op, force |-> c.force, run |-> c.run, status |-> c.status,
           src |-> c.src, purge |-> x]
  BY DEF CallShape
<1> HIDE DEF e
<1> QED BY <1>1 DEF CallShape, e

LEMMA Constants ==
  /\ NoSource = [rows |-> NoSource.rows, start |-> NoSource.start,
                 epoch |-> NoSource.epoch, at |-> NoSource.at]
  /\ NoSource.rows \subseteq Counter /\ NoSource.at \in Int
  /\ NoPurge = [id |-> NoPurge.id, now |-> NoPurge.now, batch |-> NoPurge.batch,
                rows |-> NoPurge.rows, deleted |-> NoPurge.deleted, status |-> NoPurge.status]
  /\ NoPurge.now = -1 /\ NoPurge.rows = 0
  BY DEF NoSource, NoPurge, None

(* A step of the session inside that keeps its run and adds to the store. *)
LEMMA Onward ==
  ASSUME DataInv, LockInv', NEW s \in Session, NEW from \in Inside, NEW to, NEW c,
         Goto(s, from, to), Set(s, c), UNCHANGED <<now, lastRun>>,
         CallShape(c), c.op = call[s].op, c.run = call[s].run, c.purge.now <= now,
         StoreOK(db', lastRun), Extends(db, db'), purges' \in Receipts,
         to # "refused", to \in BeforeRun => from \in BeforeRun, to \in OfRun => from \in OfRun,
         to \in {"raw", "interpreted"} => c.src.rows \subseteq db'.scopes
  PROVE  DataInv'
<1>1. CallRun(call[s], from, db, lastRun)
  BY DEF DataInv, CallOK, Goto
<1>2. CallRun(c, to, db', lastRun)
  BY <1>1 DEF CallRun, Extends
<1>3. CallOK(c, to, db', lastRun', now)
  BY <1>2 DEF CallOK
<1>4. pc[s] \in Inside /\ pc' = [pc EXCEPT ![s] = to] /\ call' = [call EXCEPT ![s] = c]
  BY DEF Goto, Set
<1>5. lastRun' \in Nat /\ StoreOK(db', lastRun') /\ UNCHANGED now
  BY DEF DataInv
<1> QED BY <1>3, <1>4, <1>5, OwnStep

(* The facts about the session's own call that every step starts from. *)
LEMMA OwnCall ==
  ASSUME DataInv, NEW s \in Session
  PROVE  /\ CallShape(call[s]) /\ call[s].purge.now <= now /\ CallRun(call[s], pc[s], db, lastRun)
         /\ now \in Nat /\ now \in Int /\ lastRun \in Nat /\ purges \in Receipts
         /\ StoreOK(db, lastRun) /\ Extends(db, db)
         /\ call[s] = [call[s] EXCEPT !.status = call[s].status]
  BY ExtendsSelf DEF DataInv, CallOK, CallShape

(* Only the status of the call changes. *)
LEMMA QuietStep ==
  ASSUME DataInv, LockInv', NEW s \in Session, NEW from \in Inside, NEW to, NEW status,
         Goto(s, from, to), Set(s, [call[s] EXCEPT !.status = status]),
         UNCHANGED <<now, lastRun, db>>, purges' \in Receipts,
         to \notin {"refused", "raw", "interpreted"},
         to \in BeforeRun => from \in BeforeRun, to \in OfRun => from \in OfRun
  PROVE  DataInv' /\ Extends(db, db')
<1> DEFINE c == [call[s] EXCEPT !.status = status]
<1>1. /\ CallShape(c) /\ c.op = call[s].op /\ c.run = call[s].run /\ c.purge = call[s].purge
      /\ call[s].purge.now <= now
  BY OwnCall, StatusSet
<1>2. StoreOK(db', lastRun) /\ Extends(db, db')
  BY OwnCall
<1> HIDE DEF c
<1>3. Set(s, c)
  BY DEF c
<1> QED BY <1>1, <1>2, <1>3, Onward

LEMMA UnchangedCall ==
  ASSUME DataInv, NEW s \in Session, UNCHANGED call
  PROVE  Set(s, [call[s] EXCEPT !.status = call[s].status])
<1>1. call[s] = [call[s] EXCEPT !.status = call[s].status]
  BY OwnCall
<1>2. call = [q \in Session |-> call[q]]
  BY DEF DataInv
<1>3. call = [call EXCEPT ![s] = call[s]]
  BY <1>2
<1> QED BY <1>1, <1>3 DEF Set

-----------------------------------------------------------------------------
(* The statements that write nothing of a run. *)
LEMMA AdmitData ==
  ASSUME DataInv, LockInv', NEW s \in Session, Admit(s) PROVE DataInv' /\ Extends(db, db')
<1>1. UNCHANGED <<now, lastRun, db>> /\ purges' \in Receipts
  BY OwnCall DEF Admit, Quiet, NoWrites, StoreKept
<1>2. ASSUME NEW status, Finish(s, "admit", status) PROVE DataInv' /\ Extends(db, db')
  <2> DEFINE to == "release"
  <2>1. "admit" \in Inside /\ to \notin BeforeRun /\ to \notin OfRun
    BY DEF Inside, BeforeRun, OfRun, Completion
  <2> QED BY <1>1, <1>2, <2>1, QuietStep DEF Finish
<1>3. CASE Goto(s, "admit", "purge") /\ UNCHANGED call
  <2>1. "admit" \in Inside /\ "admit" \in BeforeRun /\ "purge" \notin OfRun
    BY DEF Inside, BeforeRun, OfRun, Completion
  <2> QED BY <1>1, <1>3, <2>1, UnchangedCall, QuietStep
<1> QED BY <1>2, <1>3 DEF Admit

LEMMA ReadNativeData ==
  ASSUME DataInv, LockInv', NEW s \in Session, ReadNative(s) PROVE DataInv' /\ Extends(db, db')
<1>1. UNCHANGED <<now, lastRun, db>> /\ purges' \in Receipts
  BY OwnCall DEF ReadNative, Quiet, NoWrites, StoreKept
<1>2. PICK to \in {"release", "complete"}, status \in {"TARGET_UNAVAILABLE", "PARTIAL", "ERROR_HANDLED"} :
        Goto(s, "read", to) /\ Set(s, [call[s] EXCEPT !.status = status])
  BY DEF ReadNative, Finish
<1>3. "read" \in Inside /\ to \notin BeforeRun /\ "read" \in OfRun /\ to \notin {"refused", "raw", "interpreted"}
  BY <1>2 DEF Inside, BeforeRun, OfRun
<1> QED BY <1>1, <1>2, <1>3, QuietStep

LEMMA ProjectData ==
  ASSUME DataInv, LockInv', NEW s \in Session, Project(s) PROVE DataInv' /\ Extends(db, db')
<1>1. UNCHANGED <<now, lastRun, db>> /\ purges' \in Receipts
  BY OwnCall DEF Project, Quiet, NoWrites, StoreKept
<1>2. "project" \in Inside /\ "release" \notin BeforeRun \union OfRun
  BY DEF Inside, BeforeRun, OfRun, Completion
<1> QED BY <1>1, <1>2, UnchangedCall, QuietStep DEF Project

(* A failed statement leads to a CATCH block that does not need a run its call has not. *)
LEMMA RaiseData ==
  ASSUME DataInv, LockInv', NEW s \in Session, Raise(s) PROVE DataInv' /\ Extends(db, db')
<1>1. UNCHANGED <<now, lastRun, db>> /\ purges' \in Receipts
  BY OwnCall DEF Raise, StoreKept
<1>2. PICK handler \in Handlers(pc[s]) :
        /\ Goto(s, pc[s], handler)
        /\ Set(s, [call[s] EXCEPT !.status = FailedStatus(call[s], pc[s], handler)])
  BY DEF Raise
<1>3. pc[s] \in Inside
  BY DEF Raise
<1>4. /\ handler \in {"modulecatch", "purgecatch", "completecatch", "project", "catch", "release"}
      /\ handler = "modulecatch" => pc[s] \in Completion
      /\ handler = "purgecatch" => pc[s] = "close"
      /\ handler = "completecatch" => pc[s] = "complete"
  BY DEF Handlers
<1>5. /\ handler \notin {"refused", "raw", "interpreted"}
      /\ handler \in BeforeRun => pc[s] \in BeforeRun
      /\ handler \in OfRun => pc[s] \in OfRun
  BY <1>4 DEF BeforeRun, OfRun, Completion
<1> QED BY <1>1, <1>2, <1>3, <1>5, QuietStep

-----------------------------------------------------------------------------
(* The purge. *)

(* The receipt keeps its form. *)
LEMMA ReceiptOK ==
  ASSUME DataInv, NEW s \in Session,
         NEW status \in {"RUNNING", "AVAILABLE", "AVAILABLE_LIMITED", "ERROR_HANDLED"},
         Receipt(s, status)
  PROVE  purges' \in Receipts
<1> DEFINE R == [status : {"RUNNING", "AVAILABLE", "AVAILABLE_LIMITED", "ERROR_HANDLED"},
                 ended : Nat \union {None}, rows : Nat, removed : Nat]
           i == call[s].purge.id
           n == call[s].purge.rows
<1>1. purges \in Seq(R) /\ n \in Nat /\ now \in Nat
  BY OwnCall DEF Receipts, CallShape
<1>2. purges' = [purges EXCEPT ![i] = [@ EXCEPT !.status = status, !.ended = now, !.rows = n]]
  BY DEF Receipt
<1>3. CASE i \notin DOMAIN purges
  <2>1. purges' = purges
    <3> HIDE DEF R, i, n
    <3> QED BY <1>1, <1>2, <1>3
  <2> QED BY <1>1, <2>1 DEF Receipts
<1>4. CASE i \in DOMAIN purges
  <2> DEFINE row == [purges[i] EXCEPT !.status = status, !.ended = now, !.rows = n]
  <2>1. purges[i] \in R
    <3> HIDE DEF R, i, n
    <3> QED BY <1>1, <1>4
  <2>2. row \in R
    <3> HIDE DEF i, n
    <3> QED BY <1>1, <2>1
  <2>3. purges' = [purges EXCEPT ![i] = row]
    BY <1>2
  <2>4. purges' \in Seq(R)
    <3> HIDE DEF R, i, n, row
    <3> QED BY <1>1, <1>4, <2>2, <2>3
  <2> QED BY <2>4 DEF Receipts
<1> QED BY <1>3, <1>4

(* Only the purge part of the call changes, and the receipts. *)
LEMMA PurgeCallStep ==
  ASSUME DataInv, LockInv', NEW s \in Session, NEW from \in Inside, NEW to, NEW x,
         Goto(s, from, to), Set(s, [call[s] EXCEPT !.purge = x]),
         UNCHANGED <<now, lastRun, db>>, purges' \in Receipts,
         x = [id |-> x.id, now |-> x.now, batch |-> x.batch,
              rows |-> x.rows, deleted |-> x.deleted, status |-> x.status],
         x.now \in Int, x.now <= now, x.rows \in Nat,
         from \in BeforeRun, to \in BeforeRun \ {"refused"}
  PROVE  DataInv' /\ Extends(db, db')
<1> DEFINE c == [call[s] EXCEPT !.purge = x]
<1>1. CallShape(c) /\ c.op = call[s].op /\ c.run = call[s].run /\ c.purge = x
  BY OwnCall, PurgeSet
<1>2. StoreOK(db', lastRun) /\ Extends(db, db')
  BY OwnCall
<1> HIDE DEF c
<1>3. Set(s, c)
  BY DEF c
<1>4. to \notin OfRun /\ to \notin {"raw", "interpreted"}
  BY DEF BeforeRun, OfRun, Completion
<1> QED BY <1>1, <1>2, <1>3, <1>4, Onward

LEMMA PurgeStatusStep ==
  ASSUME DataInv, LockInv', NEW s \in Session, NEW from \in Inside \intersect BeforeRun, NEW status,
         Goto(s, from, "purged"), Set(s, [call[s] EXCEPT !.purge.status = status]),
         UNCHANGED <<now, lastRun, db>>, purges' \in Receipts
  PROVE  DataInv' /\ Extends(db, db')
<1> DEFINE p == call[s].purge
           x == [p EXCEPT !.status = status]
<1>1. CallShape(call[s]) /\ p.now <= now
  BY OwnCall
<1>2. Set(s, [call[s] EXCEPT !.purge = x])
  OBVIOUS
<1>3. /\ x = [id |-> p.id, now |-> p.now, batch |-> p.batch,
              rows |-> p.rows, deleted |-> p.deleted, status |-> status]
      /\ p.now \in Int /\ p.rows \in Nat
  BY <1>1 DEF CallShape
<1> HIDE DEF x
<1>4. /\ x = [id |-> x.id, now |-> x.now, batch |-> x.batch,
              rows |-> x.rows, deleted |-> x.deleted, status |-> x.status]
      /\ x.now \in Int /\ x.now <= now /\ x.rows \in Nat
  BY <1>1, <1>3
<1>5. "purged" \in BeforeRun \ {"refused"}
  BY DEF BeforeRun
<1> QED BY <1>2, <1>4, <1>5, PurgeCallStep

LEMMA ClosePurgeData ==
  ASSUME DataInv, LockInv', NEW s \in Session, ClosePurge(s) PROVE DataInv' /\ Extends(db, db')
<1> DEFINE status == ClosingStatus(call[s].purge)
<1>1. status \in {"RUNNING", "AVAILABLE", "AVAILABLE_LIMITED", "ERROR_HANDLED"}
  BY DEF ClosingStatus
<1>2. /\ Goto(s, "close", "purged") /\ Set(s, [call[s] EXCEPT !.purge.status = status])
      /\ Receipt(s, status) /\ UNCHANGED <<now, lastRun, db>>
  BY DEF ClosePurge, NoWrites
<1> HIDE DEF status
<1>3. purges' \in Receipts
  BY <1>1, <1>2, ReceiptOK
<1>4. "close" \in Inside \intersect BeforeRun
  BY DEF Inside, BeforeRun
<1> QED BY <1>2, <1>3, <1>4, PurgeStatusStep

LEMMA CatchPurgeData ==
  ASSUME DataInv, LockInv', NEW s \in Session, CatchPurge(s) PROVE DataInv' /\ Extends(db, db')
<1>1. /\ Goto(s, "purgecatch", "purged")
      /\ Set(s, [call[s] EXCEPT !.purge.status = "ERROR_HANDLED"])
      /\ Receipt(s, "ERROR_HANDLED") /\ UNCHANGED <<now, lastRun, db>>
  BY DEF CatchPurge, NoWrites
<1>2. purges' \in Receipts
  BY <1>1, ReceiptOK
<1>3. "purgecatch" \in Inside \intersect BeforeRun
  BY DEF Inside, BeforeRun
<1> QED BY <1>1, <1>2, <1>3, PurgeStatusStep

LEMMA PurgeStartData ==
  ASSUME DataInv, LockInv', NEW s \in Session, PurgeStart(s) PROVE DataInv' /\ Extends(db, db')
<1>1. UNCHANGED <<now, lastRun, db>> /\ purges \in Receipts /\ now \in Nat
  BY OwnCall DEF PurgeStart, NoWrites, StoreKept
<1>2. "purge" \in Inside \intersect BeforeRun /\ "batch" \in BeforeRun \ {"refused"}
  BY DEF Inside, BeforeRun
<1>3. ASSUME NEW status, Goto(s, "purge", "purged"),
             Set(s, [call[s] EXCEPT !.purge.status = status]), UNCHANGED purges
      PROVE  DataInv' /\ Extends(db, db')
  BY <1>1, <1>2, <1>3, PurgeStatusStep
<1>4. ASSUME NEW id, Goto(s, "purge", "batch"),
             Set(s, [call[s] EXCEPT !.purge = [NoPurge EXCEPT !.id = id, !.now = now]]),
             purges' = Append(purges, [status |-> "RUNNING", ended |-> None, rows |-> 0, removed |-> 0])
      PROVE  DataInv' /\ Extends(db, db')
  <2> DEFINE x == [NoPurge EXCEPT !.id = id, !.now = now]
  <2>2. purges' \in Receipts
    BY <1>1, <1>4 DEF Receipts
  <2>0. x = [id |-> id, now |-> now, batch |-> 0, rows |-> 0, deleted |-> 0, status |-> "AVAILABLE"]
    <3> DEFINE y == [NoPurge EXCEPT !.id = id]
    <3>1. y = [id |-> id, now |-> -1, batch |-> 0, rows |-> 0, deleted |-> 0, status |-> "AVAILABLE"]
      BY DEF NoPurge, None
    <3>2. x = [y EXCEPT !.now = now]
      OBVIOUS
    <3> HIDE DEF x, y
    <3> QED BY <3>1, <3>2
  <2> HIDE DEF x
  <2>1. /\ x = [id |-> x.id, now |-> x.now, batch |-> x.batch,
                rows |-> x.rows, deleted |-> x.deleted, status |-> x.status]
        /\ x.now \in Int /\ x.now <= now /\ x.rows \in Nat
    BY <1>1, <2>0
  <2>3. Set(s, [call[s] EXCEPT !.purge = x])
    BY <1>4 DEF x
  <2> QED BY <1>1, <1>2, <1>4, <2>1, <2>2, <2>3, PurgeCallStep
<1> QED BY <1>3, <1>4 DEF PurgeStart, StoreKept

LEMMA AfterPurgeData ==
  ASSUME DataInv, LockInv', NEW s \in Session, AfterPurge(s) PROVE DataInv' /\ Extends(db, db')
<1>1. UNCHANGED <<now, lastRun, db>> /\ purges' \in Receipts
  BY OwnCall DEF AfterPurge, Quiet, NoWrites, StoreKept
<1> DEFINE old == call[s]
           x == [NoPurge EXCEPT !.status = old.purge.status]
<1>2. PICK to \in {"project", "prepare", "release"},
          outcome \in {call[s].purge.status, "AVAILABLE", "TARGET_UNAVAILABLE"} :
        Goto(s, "purged", to) /\ Set(s, [old EXCEPT !.status = outcome, !.purge = x])
  BY DEF AfterPurge
<1> DEFINE c == [old EXCEPT !.status = outcome]
           e == [c EXCEPT !.purge = x]
<1>3. CallShape(c) /\ c.op = old.op /\ c.run = old.run
  BY OwnCall, StatusSet
<1>4. /\ x = [id |-> x.id, now |-> x.now, batch |-> x.batch,
              rows |-> x.rows, deleted |-> x.deleted, status |-> x.status]
      /\ x.now = -1 /\ x.rows = 0
  <2>1. x = [id |-> 0, now |-> -1, batch |-> 0, rows |-> 0, deleted |-> 0, status |-> old.purge.status]
    BY DEF NoPurge, None
  <2> HIDE DEF x
  <2> QED BY <2>1
<1>5. CallShape(e) /\ e.op = old.op /\ e.run = old.run /\ e.purge = x
  <2> HIDE DEF c, x, old
  <2> QED BY <1>3, <1>4, PurgeSet
<1>6. Set(s, e)
  <2>1. [old EXCEPT !.status = outcome, !.purge = x] = e
    <3> HIDE DEF x
    <3> QED OBVIOUS
  <2> QED BY <1>2, <2>1
<1>7. StoreOK(db', lastRun) /\ Extends(db, db') /\ now \in Nat
  BY <1>1, OwnCall
<1>8. "purged" \in Inside /\ "purged" \in BeforeRun /\ to \notin OfRun \union {"refused", "raw", "interpreted"}
  BY <1>2 DEF Inside, BeforeRun, OfRun, Completion
<1>9. e.purge.now <= now
  BY <1>4, <1>5, <1>7
<1> HIDE DEF x, c, e
<1> QED BY <1>1, <1>2, <1>5, <1>6, <1>7, <1>8, <1>9, Onward DEF old

(* What a step that is not an extension keeps: what it deletes was expired at time t. *)
Spared(d, e, t) ==
  /\ \A x \in d.samples \ e.samples : x.at < t - RawRetention
  /\ \A x \in d.payloads \ e.payloads : x.at < t - PayloadRetention
  /\ \A r \in DOMAIN d.runs \ DOMAIN e.runs :
       /\ d.runs[r].started < t - RawRetention
       /\ SamplesOf(e, r) = {}
       /\ Superseded(d, r)

LEMMA ExtendsSpares == ASSUME NEW d, NEW e, NEW t, Extends(d, e) PROVE Spared(d, e, t)
  BY DEF Extends, Spared

(* A purge that began earlier deletes no more than one that begins now. *)
LEMMA SparedLater ==
  ASSUME NEW d, NEW last, StoreOK(d, last), NEW e, NEW p \in Int, NEW t \in Int, p <= t, Spared(d, e, p)
  PROVE  Spared(d, e, t)
<1>1. RawRetention \in Int /\ PayloadRetention \in Int
  BY PolicyAssumption
<1>2. \A x \in d.samples \union d.payloads : x.at \in Int
  BY DEF StoreOK
<1>3. \A r \in DOMAIN d.runs : d.runs[r].started \in Int
  BY DEF StoreOK, RowOK
<1> QED BY <1>1, <1>2, <1>3 DEF Spared

LEMMA BatchData ==
  ASSUME DataInv, LockInv', NEW s \in Session, Batch(s) PROVE DataInv' /\ Spared(db, db', now)
<1> DEFINE p == call[s].purge
<1>0. /\ CallShape(call[s]) /\ p.now \in Int /\ p.now <= now /\ p.rows \in Nat /\ p.now \in Int
      /\ now \in Int /\ lastRun \in Nat /\ StoreOK(db, lastRun) /\ purges \in Receipts
      /\ UNCHANGED <<now, lastRun>> /\ Extends(db, db)
  BY OwnCall DEF CallShape, Batch, StoreKept
<1>1. "batch" \in Inside /\ {"batch", "close", "purgecatch"} \subseteq BeforeRun \ {"refused"}
  BY DEF Inside, BeforeRun
<1> DEFINE
      Done(d5) ==
        LET n == Rows(db) - Rows(d5)
            more == n # 0 /\ p.batch + 1 < MaxBatches
        IN /\ db' = d5
           /\ Goto(s, "batch", IF more THEN "batch" ELSE "close")
           /\ Set(s, [call[s] EXCEPT !.purge.batch = @ + 1, !.purge.rows = @ + n, !.purge.deleted = n])
           /\ purges' = [purges EXCEPT ![p.id].removed = @ + n]
           /\ UNCHANGED <<lastRun, faults>>
      Failed(d) ==
        /\ faults < MaxFaults /\ faults' = faults + 1
        /\ Goto(s, "batch", "purgecatch")
        /\ Set(s, [call[s] EXCEPT !.purge.rows = @ + (Rows(db) - Rows(d))])
        /\ StoreKept
      Ends(d1, d2, d3, d4, d5) == Done(d5) \/ \E d \in {db, d1, d2, d3, d4, d5} : Failed(d)
<1>2. PICK d1 \in PurgeSamples(db, p.now) :
        \E d2 \in PurgePayloads(d1, p.now) : \E d3 \in PurgeModules(d2, p.now) :
        \E d4 \in PurgeRuns(d3, p.now) : \E d5 \in PurgeScopes(d4) : Ends(d1, d2, d3, d4, d5)
  BY Zenon DEF Batch
<1>3. PICK d2 \in PurgePayloads(d1, p.now) :
        \E d3 \in PurgeModules(d2, p.now) : \E d4 \in PurgeRuns(d3, p.now) :
        \E d5 \in PurgeScopes(d4) : Ends(d1, d2, d3, d4, d5)
  BY <1>2
<1>13. PICK d3 \in PurgeModules(d2, p.now) : \E d4 \in PurgeRuns(d3, p.now) :
        \E d5 \in PurgeScopes(d4) : Ends(d1, d2, d3, d4, d5)
  BY <1>3
<1>14. PICK d4 \in PurgeRuns(d3, p.now) : \E d5 \in PurgeScopes(d4) : Ends(d1, d2, d3, d4, d5)
  BY <1>13
<1>15. PICK d5 \in PurgeScopes(d4) : Ends(d1, d2, d3, d4, d5)
  BY <1>14
<1>4. /\ StoreOK(d5, lastRun)
      /\ \A e \in {db, d1, d2, d3, d4, d5} : Shrinks(db, e) /\ Rows(db) - Rows(e) \in Nat
      /\ Spared(db, d5, p.now)
  <2> HIDE DEF p
  <2> QED BY <1>0, BatchOK DEF Spared
<1>5. ASSUME db' = d5, NEW to \in {"batch", "close"}, Goto(s, "batch", to), NEW n \in Nat,
             Set(s, [call[s] EXCEPT !.purge.batch = @ + 1, !.purge.rows = @ + n, !.purge.deleted = n]),
             purges' = [purges EXCEPT ![p.id].removed = @ + n]
      PROVE  DataInv' /\ Spared(db, db', now)
  <2> DEFINE x == [id |-> p.id, now |-> p.now, batch |-> p.batch + 1, rows |-> p.rows + n,
                   deleted |-> n, status |-> p.status]
             c == [call[s] EXCEPT !.purge = x]
  <2>1. [call[s] EXCEPT !.purge.batch = @ + 1, !.purge.rows = @ + n, !.purge.deleted = n] = c
    <3>1. [[[p EXCEPT !.batch = p.batch + 1] EXCEPT !.rows = p.rows + n] EXCEPT !.deleted = n] = x
      <4> HIDE DEF p
      <4>1. p = [id |-> p.id, now |-> p.now, batch |-> p.batch, rows |-> p.rows,
                 deleted |-> p.deleted, status |-> p.status]
        BY <1>0 DEF p, CallShape
      <4> DEFINE a == [p EXCEPT !.batch = p.batch + 1]
                 b == [a EXCEPT !.rows = p.rows + n]
      <4>2. a = [id |-> p.id, now |-> p.now, batch |-> p.batch + 1, rows |-> p.rows,
                 deleted |-> p.deleted, status |-> p.status]
        BY <4>1
      <4>3. b = [a EXCEPT !.rows = p.rows + n]
        OBVIOUS
      <4> HIDE DEF a, b
      <4>4. b = [id |-> p.id, now |-> p.now, batch |-> p.batch + 1, rows |-> p.rows + n,
                 deleted |-> p.deleted, status |-> p.status]
        BY <4>2, <4>3
      <4>5. [b EXCEPT !.deleted = n] = x
        BY <4>4
      <4> QED BY <4>5 DEF a, b
    <3> HIDE DEF x
    <3> QED BY <1>0, <3>1 DEF CallShape
  <2>2. /\ x = [id |-> x.id, now |-> x.now, batch |-> x.batch,
                rows |-> x.rows, deleted |-> x.deleted, status |-> x.status]
        /\ x.now = p.now /\ x.rows \in Nat
    BY <1>0, <1>5
  <2> HIDE DEF x
  <2>3. CallShape(c) /\ c.op = call[s].op /\ c.run = call[s].run /\ c.purge = x
    BY <1>0, <2>2, PurgeSet
  <2>4. Set(s, c)
    BY <1>5, <2>1
  <2>5. CallRun(call[s], "batch", db, lastRun)
    BY <1>5, OwnCall DEF Goto
  <2>6. c.run = 0
    BY <1>1, <2>3, <2>5 DEF CallRun
  <2>7. to \in BeforeRun \ {"refused"} /\ to \notin OfRun \union {"raw", "interpreted"}
    BY <1>1 DEF OfRun, Completion
  <2> HIDE DEF c
  <2>8. CallOK(c, to, db', lastRun', now)
    BY <1>0, <2>2, <2>3, <2>6, <2>7 DEF CallOK, CallRun
  <2>9. purges' \in Receipts
    <3> DEFINE R == [status : {"RUNNING", "AVAILABLE", "AVAILABLE_LIMITED", "ERROR_HANDLED"},
                     ended : Nat \union {None}, rows : Nat, removed : Nat]
               i == p.id
    <3>1. purges \in Seq(R)
      BY <1>0 DEF Receipts
    <3>2. purges' = [purges EXCEPT ![i].removed = @ + n]
      BY <1>5
    <3>3. CASE i \notin DOMAIN purges
      <4>1. purges' = purges
        <5> HIDE DEF R, i
        <5> QED BY <3>1, <3>2, <3>3
      <4> QED BY <3>1, <4>1 DEF Receipts
    <3>4. CASE i \in DOMAIN purges
      <4> DEFINE row == [purges[i] EXCEPT !.removed = @ + n]
      <4>1. purges[i] \in R
        <5> HIDE DEF R, i
        <5> QED BY <3>1, <3>4
      <4>2. row \in R
        <5> HIDE DEF i
        <5> QED BY <4>1, <1>5
      <4>3. purges' = [purges EXCEPT ![i] = row]
        BY <3>2
      <4>4. purges' \in Seq(R)
        <5> HIDE DEF R, i, row
        <5> QED BY <3>1, <3>4, <4>2, <4>3
      <4> QED BY <4>4 DEF Receipts
    <3> QED BY <3>3, <3>4
  <2>10. pc[s] \in Inside /\ pc' = [pc EXCEPT ![s] = to] /\ call' = [call EXCEPT ![s] = c]
    BY <1>1, <1>5, <2>4 DEF Goto, Set
  <2>11. DataInv'
    BY <1>0, <1>4, <1>5, <2>8, <2>9, <2>10, OwnStep
  <2>12. Spared(db, db', now)
    BY <1>0, <1>4, <1>5, SparedLater
  <2> QED BY <2>11, <2>12
<1>6. ASSUME NEW m \in Nat, Goto(s, "batch", "purgecatch"),
             Set(s, [call[s] EXCEPT !.purge.rows = @ + m]), StoreKept
      PROVE  DataInv' /\ Spared(db, db', now)
  <2> DEFINE x == [p EXCEPT !.rows = p.rows + m]
  <2>1. Set(s, [call[s] EXCEPT !.purge = x])
    BY <1>6
  <2>2. x = [id |-> p.id, now |-> p.now, batch |-> p.batch, rows |-> p.rows + m,
             deleted |-> p.deleted, status |-> p.status]
    BY <1>0 DEF CallShape
  <2> HIDE DEF x
  <2>3. /\ x = [id |-> x.id, now |-> x.now, batch |-> x.batch,
                rows |-> x.rows, deleted |-> x.deleted, status |-> x.status]
        /\ x.now \in Int /\ x.now <= now /\ x.rows \in Nat
    BY <1>0, <1>6, <2>2
  <2>4. DataInv' /\ Extends(db, db')
    BY <1>0, <1>1, <1>6, <2>1, <2>3, PurgeCallStep DEF StoreKept
  <2> QED BY <2>4, ExtendsSpares
<1> QED
  <2>1. CASE Done(d5)
    <3>1. Rows(db) - Rows(d5) \in Nat
      BY <1>4
    <3>2. PICK to \in {"batch", "close"} : Goto(s, "batch", to)
      BY <2>1
    <3> QED BY <1>5, <2>1, <3>1, <3>2
  <2>2. ASSUME NEW d \in {db, d1, d2, d3, d4, d5}, Failed(d) PROVE DataInv' /\ Spared(db, db', now)
    <3>1. Rows(db) - Rows(d) \in Nat
      BY <1>4
    <3> QED BY <1>6, <2>2, <3>1
  <2> QED BY <1>15, <2>1, <2>2

-----------------------------------------------------------------------------
(* Preparation. *)
LEMMA OpenedRunOK ==
  ASSUME NEW c, NEW status, NEW force, NEW t \in Nat
  PROVE  RowOK(OpenedRun(c, status, force, t)) /\ OpenedRun(c, status, force, t).collector = c
<1> DEFINE ended == IF status = "AVAILABLE" THEN None ELSE t
           state == IF status = "AVAILABLE" THEN "RUNNING" ELSE status
           row == OpenedRun(c, status, force, t)
<1>1. row = [collector |-> c, started |-> t, ended |-> ended, status |-> state,
             count |-> 0, start |-> None, epoch |-> None, forced |-> force, rows |-> 0, expected |-> 0]
  BY DEF OpenedRun
<1>2. ended = None => state = "RUNNING"
  BY DEF None
<1> HIDE DEF ended, state, row
<1>3. RowOK(row) /\ row.collector = c
  BY <1>1, <1>2 DEF RowOK
<1> QED BY <1>3 DEF row

LEMMA PrepareData ==
  ASSUME DataInv, LockInv', NEW s \in Session, Prepare(s) PROVE DataInv' /\ Extends(db, db')
<1> DEFINE r == lastRun + 1
<1>1. /\ UNCHANGED now /\ purges' \in Receipts /\ now \in Nat /\ lastRun \in Nat /\ StoreOK(db, lastRun)
      /\ CallShape(call[s]) /\ call[s].purge.now <= now /\ CallRun(call[s], pc[s], db, lastRun)
  BY OwnCall DEF Prepare, NoWrites
<1>2. "prepare" \in Inside /\ "prepare" \in BeforeRun
  BY DEF Inside, BeforeRun
<1>3. ASSUME NEW status, Finish(s, "prepare", status), UNCHANGED <<db, lastRun>>
      PROVE  DataInv' /\ Extends(db, db')
  <2>1. "release" \notin BeforeRun \union OfRun
    BY DEF BeforeRun, OfRun, Completion
  <2> QED BY <1>1, <1>2, <1>3, <2>1, QuietStep DEF Finish
<1>4. ASSUME NEW a, db' = AddRun(db, r, OpenedRun(call[s].op, a, call[s].force, now)), lastRun' = r,
             Goto(s, "prepare", IF a = "AVAILABLE" THEN "read" ELSE "refused"),
             Set(s, IF a = "AVAILABLE" THEN [call[s] EXCEPT !.run = r] ELSE [call[s] EXCEPT !.status = a])
      PROVE  DataInv' /\ Extends(db, db')
  <2> DEFINE row == OpenedRun(call[s].op, a, call[s].force, now)
  <2>1. RowOK(row) /\ row.collector = call[s].op
    BY <1>1, OpenedRunOK
  <2> HIDE DEF row
  <2>2. /\ StoreOK(db', lastRun') /\ Extends(db, db')
        /\ r \in DOMAIN db'.runs /\ db'.runs[r].collector = call[s].op
    <3>1. db' = AddRun(db, lastRun + 1, row)
      BY <1>4 DEF row
    <3> QED BY <1>1, <1>4, <2>1, <3>1, AddRunOK
  <2>3. pc[s] = "prepare" /\ call[s].run = 0
    BY <1>1, <1>2, <1>4 DEF Goto, CallRun
  <2>6. lastRun' \in Nat /\ pc[s] \in Inside
    BY <1>1, <1>2, <1>4, <2>3
  <2>4. CASE a = "AVAILABLE"
    <3> DEFINE c == [call[s] EXCEPT !.run = r]
    <3>1. CallShape(c) /\ c.op = call[s].op /\ c.run = r /\ c.purge = call[s].purge
      BY <1>1, RunSet
    <3>2. pc' = [pc EXCEPT ![s] = "read"] /\ call' = [call EXCEPT ![s] = c]
      BY <1>4, <2>4 DEF Goto, Set
    <3> HIDE DEF c
    <3>3. CallRun(c, "read", db', lastRun')
      BY <1>1, <2>2, <3>1 DEF CallRun, BeforeRun
    <3>4. CallOK(c, "read", db', lastRun', now)
      BY <1>1, <3>1, <3>3 DEF CallOK
    <3> QED BY <1>1, <2>2, <2>6, <3>2, <3>4, OwnStep
  <2>5. CASE a # "AVAILABLE"
    <3> DEFINE c == [call[s] EXCEPT !.status = a]
    <3>1. CallShape(c) /\ c.op = call[s].op /\ c.run = call[s].run /\ c.purge = call[s].purge
      BY <1>1, StatusSet
    <3>2. pc' = [pc EXCEPT ![s] = "refused"] /\ call' = [call EXCEPT ![s] = c]
      BY <1>4, <2>5 DEF Goto, Set
    <3> HIDE DEF c
    <3>3. CallRun(c, "refused", db', lastRun')
      BY <1>4, <2>2, <2>3, <3>1 DEF CallRun, OfRun, Completion
    <3>4. CallOK(c, "refused", db', lastRun', now)
      BY <1>1, <3>1, <3>3 DEF CallOK
    <3> QED BY <1>1, <2>2, <2>6, <3>2, <3>4, OwnStep
  <2> QED BY <2>4, <2>5
<1> QED BY <1>3, <1>4 DEF Prepare

LEMMA RefusedData ==
  ASSUME DataInv, LockInv', NEW s \in Session, RefusedModule(s) PROVE DataInv' /\ Extends(db, db')
<1> DEFINE c == [call[s] EXCEPT !.run = lastRun]
<1>1. /\ UNCHANGED <<now, lastRun>> /\ purges' \in Receipts /\ now \in Nat /\ lastRun \in Nat
      /\ StoreOK(db, lastRun) /\ CallShape(call[s]) /\ call[s].purge.now <= now
      /\ CallRun(call[s], "refused", db, lastRun)
  BY OwnCall DEF RefusedModule, NoWrites, Goto
<1>2. lastRun \in DOMAIN db.runs /\ db.runs[lastRun].collector = call[s].op
  BY <1>1 DEF CallRun
<1>3. StoreOK(db', lastRun) /\ Extends(db, db')
  BY <1>1, <1>2, AddModulesOK DEF RefusedModule
<1>4. CallShape(c) /\ c.op = call[s].op /\ c.run = lastRun /\ c.purge = call[s].purge
  BY <1>1, RunSet
<1>5. pc[s] = "refused" /\ pc' = [pc EXCEPT ![s] = "project"] /\ call' = [call EXCEPT ![s] = c]
  BY DEF RefusedModule, Goto, Set
<1> HIDE DEF c
<1>6. CallRun(c, "project", db', lastRun')
  BY <1>1, <1>2, <1>3, <1>4 DEF CallRun, BeforeRun, OfRun, Completion, Extends
<1>7. CallOK(c, "project", db', lastRun', now)
  BY <1>1, <1>4, <1>6 DEF CallOK
<1>8. pc[s] \in Inside
  BY <1>5 DEF Inside
<1> QED BY <1>1, <1>3, <1>5, <1>7, <1>8, OwnStep

-----------------------------------------------------------------------------
(* Steps that come from outside, or end there. *)
LEMMA IdleCall ==
  ASSUME NEW c, CallShape(c), c.run = 0, c.purge.now = -1,
         NEW at \in BeforeRun \ {"refused"}, NEW d, NEW last, NEW time \in Nat
  PROVE  CallOK(c, at, d, last, time)
  BY DEF CallOK, CallRun, BeforeRun, OfRun, Completion

LEMMA NoCallShape ==
  /\ CallShape(NoCall) /\ NoCall.run = 0 /\ NoCall.purge.now = -1 /\ "idle" \in BeforeRun \ {"refused"}
  BY DEF CallShape, NoCall, NoSource, NoPurge, None, BeforeRun

(* The store is left alone and the session has no run at its new statement. *)
LEMMA IdleStep ==
  ASSUME DataInv, LockInv', NEW s \in Session, NEW to \in BeforeRun \ {"refused"}, NEW c,
         pc' = [pc EXCEPT ![s] = to], call' = [call EXCEPT ![s] = c],
         CallShape(c), c.run = 0, c.purge.now = -1,
         UNCHANGED <<now, db, lastRun, purges>>
  PROVE  DataInv' /\ Extends(db, db')
<1>1. call' = [q \in Session |-> call'[q]]
  BY DEF DataInv
<1>2. ASSUME NEW q \in Session PROVE CallOK(call'[q], pc'[q], db', lastRun', now')
  <2>1. CASE q = s
    <3>1. call'[q] = c /\ pc'[q] = to
      BY <2>1 DEF DataInv, LockInv
    <3>2. now' \in Nat
      BY DEF DataInv
    <3> QED BY <3>1, <3>2, IdleCall
  <2>2. CASE q # s
    <3>1. call'[q] = call[q] /\ pc'[q] = pc[q]
      BY <2>2 DEF DataInv, LockInv
    <3> QED BY <3>1 DEF DataInv
  <2> QED BY <2>1, <2>2
<1>3. Extends(db, db')
  BY ExtendsSelf
<1> QED BY <1>1, <1>2, <1>3 DEF DataInv

LEMMA CallData ==
  ASSUME DataInv, LockInv', NEW s \in Session, NEW op, NEW force, Call(s, op, force)
  PROVE  DataInv' /\ Extends(db, db')
<1> DEFINE a == [NoCall EXCEPT !.op = op]
           c == [NoCall EXCEPT !.op = op, !.force = force]
<1>1. CallShape(a) /\ a.run = 0 /\ a.purge.now = -1
  <2>1. a = [op |-> op, force |-> NoCall.force, run |-> NoCall.run, status |-> NoCall.status,
             src |-> NoCall.src, purge |-> NoCall.purge]
    BY NoCallShape DEF CallShape
  <2> HIDE DEF a
  <2> QED BY <2>1, NoCallShape DEF CallShape
<1>2. pc' = [pc EXCEPT ![s] = "lock"] /\ call' = [call EXCEPT ![s] = c]
  BY DEF Call, Goto, Set
<1>3. CallShape(c) /\ c.run = 0 /\ c.purge.now = -1
  <2>1. c = [a EXCEPT !.force = force]
    OBVIOUS
  <2> HIDE DEF a, c
  <2>2. c = [op |-> a.op, force |-> force, run |-> a.run, status |-> a.status,
             src |-> a.src, purge |-> a.purge]
    BY <1>1, <2>1 DEF CallShape
  <2> QED BY <1>1, <2>2 DEF CallShape
<1> HIDE DEF c
<1>4. UNCHANGED <<now, db, lastRun, purges>>
  BY DEF Call, Quiet, NoWrites, StoreKept
<1>5. "lock" \in BeforeRun \ {"refused"}
  BY DEF BeforeRun
<1> QED BY <1>2, <1>3, <1>4, <1>5, IdleStep

(* A session that is outside has a call that has not begun. *)
LEMMA ReturnData ==
  ASSUME DataInv, LockInv', NEW s \in Session,
         pc' = [pc EXCEPT ![s] = "idle"], Set(s, NoCall), UNCHANGED <<now, db, lastRun, purges>>
  PROVE  DataInv' /\ Extends(db, db')
  BY NoCallShape, IdleStep DEF Set

LEMMA AcquireData ==
  ASSUME DataInv, LockInv', NEW s \in Session, Acquire(s) PROVE DataInv' /\ Extends(db, db')
<1>1. UNCHANGED <<now, db, lastRun, purges>>
  BY DEF Acquire, StoreKept, Quiet, NoWrites
<1>2. CASE pc' = [pc EXCEPT ![s] = "idle"] /\ Set(s, NoCall)
  BY <1>1, <1>2, ReturnData
<1>3. CASE Goto(s, "lock", First(call[s].op)) /\ UNCHANGED call
  <2> DEFINE to == First(call[s].op)
  <2>1. to \in {"admit", "purge"}
    BY DEF First
  <2> HIDE DEF to
  <2>2. Goto(s, "lock", to)
    BY <1>3 DEF to
  <2>3. ASSUME NEW q \in Session PROVE CallOK(call'[q], pc'[q], db', lastRun', now')
    <3>1. CASE q = s
      <4>1. pc[s] = "lock" /\ pc'[s] = to
        BY <2>2 DEF Goto, DataInv, LockInv
      <4>2. CallShape(call[s]) /\ call[s].purge.now <= now /\ CallRun(call[s], "lock", db, lastRun)
        BY <4>1, OwnCall
      <4>3. CallRun(call[s], to, db, lastRun)
        BY <2>1, <4>2 DEF CallRun, BeforeRun, OfRun, Completion
      <4> QED BY <1>1, <1>3, <3>1, <4>1, <4>2, <4>3 DEF CallOK
    <3>2. CASE q # s
      <4>1. pc'[q] = pc[q]
        BY <2>2, <3>2 DEF Goto, DataInv, LockInv
      <4> QED BY <1>1, <1>3, <4>1 DEF DataInv
    <3> QED BY <3>1, <3>2
  <2>4. Extends(db, db')
    BY <1>1, ExtendsSelf
  <2> QED BY <1>1, <1>3, <2>3, <2>4 DEF DataInv
<1> QED BY <1>2, <1>3 DEF Acquire, Return, Goto

LEMMA ReleaseData ==
  ASSUME DataInv, LockInv', NEW s \in Session, Release(s) \/ Cancel(s) \/ Disconnect(s)
  PROVE  DataInv' /\ Extends(db, db')
  BY ReturnData DEF Release, Cancel, Disconnect, Return, Goto, StoreKept

LEMMA RestartData ==
  ASSUME DataInv, LockInv', Restart PROVE DataInv' /\ Extends(db, db')
<1>1. UNCHANGED <<now, db, lastRun, purges>>
  BY DEF Restart, StoreKept
<1>2. pc' = [s \in Session |-> "idle"] /\ call' = [s \in Session |-> NoCall]
  BY DEF Restart
<1>3. now' \in Nat
  BY <1>1 DEF DataInv
<1>4. \A s \in Session : CallOK(call'[s], pc'[s], db', lastRun', now')
  BY <1>2, <1>3, IdleCall, NoCallShape
<1>5. call' = [s \in Session |-> call'[s]]
  BY <1>2
<1>6. Extends(db, db')
  BY <1>1, ExtendsSelf
<1> QED BY <1>1, <1>4, <1>5, <1>6 DEF DataInv

LEMMA TickData ==
  ASSUME DataInv, LockInv', Tick PROVE DataInv' /\ Extends(db, db')
<1>1. UNCHANGED <<db, lastRun, purges, pc, call>> /\ now' = now + 1 /\ now \in Nat
  BY DEF Tick, StoreKept, DataInv
<1>2. \A s \in Session : CallOK(call'[s], pc'[s], db', lastRun', now')
  BY <1>1 DEF DataInv, CallOK, CallShape
<1>3. Extends(db, db')
  BY <1>1, ExtendsSelf
<1> QED BY <1>1, <1>2, <1>3 DEF DataInv

-----------------------------------------------------------------------------
(* The counter path. *)
LEMMA OwnRun ==
  ASSUME DataInv, NEW s \in Session, pc[s] \in OfRun
  PROVE  /\ call[s].run \in DOMAIN db.runs /\ db.runs[call[s].run].collector = call[s].op
         /\ RowOK(db.runs[call[s].run])
         /\ IsFiniteSet(call[s].src.rows) /\ call[s].src.at \in Int
         /\ pc[s] \in {"raw", "interpreted"} => call[s].src.rows \subseteq db.scopes
<1>1. CallRun(call[s], pc[s], db, lastRun) /\ CallShape(call[s]) /\ StoreOK(db, lastRun)
  BY OwnCall
<1>2. call[s].src.rows \in SUBSET Counter
  BY <1>1 DEF CallShape
<1>3. IsFiniteSet(call[s].src.rows)
  BY <1>2, FS_Subset, CycleAssumption
<1> QED BY <1>1, <1>3 DEF CallRun, CallShape, StoreOK

(* A step of a call that has a run, to another one. *)
LEMMA RunStep ==
  ASSUME DataInv, LockInv', NEW s \in Session, NEW from \in OfRun, NEW to, NEW c,
         Goto(s, from, to), Set(s, c), UNCHANGED <<now, lastRun, purges>>,
         CallShape(c), c.op = call[s].op, c.run = call[s].run, c.purge = call[s].purge,
         StoreOK(db', lastRun), Extends(db, db'),
         to \notin BeforeRun, to \in {"raw", "interpreted"} => c.src.rows \subseteq db'.scopes
  PROVE  DataInv'
<1>1. from \in Inside /\ to # "refused"
  BY DEF OfRun, Inside, Completion, BeforeRun
<1>2. call[s].purge.now <= now /\ purges' \in Receipts
  BY OwnCall
<1> QED BY <1>1, <1>2, Onward

LEMMA SameCallStep ==
  ASSUME DataInv, LockInv', NEW s \in Session, NEW from \in OfRun, NEW to,
         Goto(s, from, to), UNCHANGED <<now, lastRun, purges, call>>,
         StoreOK(db', lastRun), Extends(db, db'),
         to \notin BeforeRun, to \in {"raw", "interpreted"} => call[s].src.rows \subseteq db'.scopes
  PROVE  DataInv'
<1>1. CallShape(call[s]) /\ call[s] = [call[s] EXCEPT !.status = call[s].status]
  BY OwnCall
<1>2. Set(s, call[s])
  BY <1>1, UnchangedCall
<1> QED BY <1>1, <1>2, RunStep

(* Columns of a run that are replaced. *)
LEMMA ExpectedSet ==
  ASSUME NEW row, RowOK(row), NEW n
  PROVE  LET e == [row EXCEPT !.expected = n] IN RowOK(e) /\ e.collector = row.collector
<1> DEFINE e == [row EXCEPT !.expected = n]
<1>1. e = [collector |-> row.collector, started |-> row.started, ended |-> row.ended,
           status |-> row.status, count |-> row.count, start |-> row.start,
           epoch |-> row.epoch, forced |-> row.forced, rows |-> row.rows, expected |-> n]
  BY DEF RowOK
<1> HIDE DEF e
<1> QED BY <1>1 DEF RowOK, e

LEMMA StartSet ==
  ASSUME NEW row, RowOK(row), NEW n
  PROVE  LET e == [row EXCEPT !.start = n] IN RowOK(e) /\ e.collector = row.collector
<1> DEFINE e == [row EXCEPT !.start = n]
<1>1. e = [collector |-> row.collector, started |-> row.started, ended |-> row.ended,
           status |-> row.status, count |-> row.count, start |-> n,
           epoch |-> row.epoch, forced |-> row.forced, rows |-> row.rows, expected |-> row.expected]
  BY DEF RowOK
<1> HIDE DEF e
<1> QED BY <1>1 DEF RowOK, e

LEMMA EpochSet ==
  ASSUME NEW row, RowOK(row), NEW n
  PROVE  LET e == [row EXCEPT !.epoch = n] IN RowOK(e) /\ e.collector = row.collector
<1> DEFINE e == [row EXCEPT !.epoch = n]
<1>1. e = [collector |-> row.collector, started |-> row.started, ended |-> row.ended,
           status |-> row.status, count |-> row.count, start |-> row.start,
           epoch |-> n, forced |-> row.forced, rows |-> row.rows, expected |-> row.expected]
  BY DEF RowOK
<1> HIDE DEF e
<1> QED BY <1>1 DEF RowOK, e

(* The status of a file run: its end may stay open. *)
LEMMA RowStatusSet ==
  ASSUME NEW row, RowOK(row), row.collector = "FILE_IO", NEW n
  PROVE  LET e == [row EXCEPT !.status = n] IN RowOK(e) /\ e.collector = row.collector
<1> DEFINE e == [row EXCEPT !.status = n]
<1>1. e = [collector |-> row.collector, started |-> row.started, ended |-> row.ended,
           status |-> n, count |-> row.count, start |-> row.start,
           epoch |-> row.epoch, forced |-> row.forced, rows |-> row.rows, expected |-> row.expected]
  BY DEF RowOK
<1> HIDE DEF e
<1> QED BY <1>1 DEF RowOK, e

LEMMA ReadCountersData ==
  ASSUME DataInv, LockInv', NEW s \in Session, ReadCounters(s) PROVE DataInv' /\ Extends(db, db')
<1> DEFINE r == call[s].run
<1>1. /\ UNCHANGED <<now, lastRun, purges>> /\ pc[s] = "read"
      /\ StoreOK(db, lastRun) /\ Extends(db, db) /\ CallShape(call[s])
  BY OwnCall DEF ReadCounters, NoWrites, Goto
<1>2. "read" \in OfRun /\ {"scopes", "module"} \intersect BeforeRun = {}
  BY DEF BeforeRun, OfRun
<1>3. r \in DOMAIN db.runs /\ RowOK(db.runs[r])
  BY <1>1, <1>2, OwnRun
<1>4. ASSUME NEW rows \in SUBSET Counter, NEW status, Goto(s, "read", "scopes"),
             Set(s, [call[s] EXCEPT !.status = status,
                                    !.src = [NoSource EXCEPT !.rows = rows, !.start = start]]),
             db' = [db EXCEPT !.runs[r].expected = 2 * Cardinality(rows)]
      PROVE  DataInv' /\ Extends(db, db')
  <2> DEFINE x == [NoSource EXCEPT !.rows = rows, !.start = start]
             b == [call[s] EXCEPT !.status = status]
             c == [b EXCEPT !.src = x]
             n == 2 * Cardinality(rows)
             row == [db.runs[r] EXCEPT !.expected = n]
  <2>1. CallShape(b) /\ b.op = call[s].op /\ b.run = r /\ b.purge = call[s].purge
    BY <1>1, StatusSet
  <2>2. x = [rows |-> rows, start |-> start, epoch |-> None, at |-> None]
    <3> DEFINE y == [NoSource EXCEPT !.rows = rows]
    <3>1. y = [rows |-> rows, start |-> None, epoch |-> None, at |-> None]
      BY DEF NoSource
    <3>2. x = [y EXCEPT !.start = start]
      OBVIOUS
    <3> HIDE DEF x, y
    <3> QED BY <3>1, <3>2
  <2>3. CallShape(c) /\ c.op = b.op /\ c.run = b.run /\ c.purge = b.purge
    <3> HIDE DEF x, b
    <3>1. x = [rows |-> x.rows, start |-> x.start, epoch |-> x.epoch, at |-> x.at]
          /\ x.rows \subseteq Counter /\ x.at \in Int
      BY <2>2 DEF None
    <3> QED BY <2>1, <3>1, SourceSet
  <2>4. Set(s, c)
    <3>1. [call[s] EXCEPT !.status = status, !.src = x] = c
      <4> HIDE DEF x
      <4> QED OBVIOUS
    <3> QED BY <1>4, <3>1
  <2>5. RowOK(row) /\ row.collector = db.runs[r].collector
    <3> HIDE DEF n
    <3> QED BY <1>3, ExpectedSet
  <2>6. db' = [db EXCEPT !.runs = [@ EXCEPT ![r] = row]]
    <3> HIDE DEF n
    <3>1. db' = [db EXCEPT !.runs[r].expected = n]
      BY <1>4 DEF n
    <3> QED BY <1>3, <3>1
  <2> HIDE DEF b, c, row, n, x
  <2>7. StoreOK(db', lastRun) /\ Extends(db, db')
    BY <1>1, <1>3, <2>5, <2>6, RewriteOK
  <2>8. DataInv'
    BY <1>1, <1>2, <1>4, <2>1, <2>3, <2>4, <2>7, RunStep
  <2> QED BY <2>7, <2>8
<1>5. ASSUME Goto(s, "read", "module"), Set(s, [call[s] EXCEPT !.status = "ERROR_HANDLED"]), UNCHANGED db
      PROVE  DataInv' /\ Extends(db, db')
  <2> DEFINE c == [call[s] EXCEPT !.status = "ERROR_HANDLED"]
  <2>1. CallShape(c) /\ c.op = call[s].op /\ c.run = r /\ c.purge = call[s].purge
    BY <1>1, StatusSet
  <2> HIDE DEF c
  <2>2. Set(s, c)
    BY <1>5 DEF c
  <2>3. StoreOK(db', lastRun) /\ Extends(db, db')
    BY <1>1, <1>5
  <2> QED BY <1>1, <1>2, <1>5, <2>1, <2>2, <2>3, RunStep
<1> QED BY <1>4, <1>5 DEF ReadCounters

LEMMA CounterScopesData ==
  ASSUME DataInv, LockInv', NEW s \in Session, CounterScopes(s) PROVE DataInv' /\ Extends(db, db')
<1> DEFINE K == call[s].src.rows
           e == EpochFor(db, call[s].run, call[s].src.start)
           x == [call[s].src EXCEPT !.epoch = e, !.at = now]
           c == [call[s] EXCEPT !.src = x]
<1>1. /\ UNCHANGED <<now, lastRun, purges>> /\ Goto(s, "scopes", "raw")
      /\ db' = [db EXCEPT !.scopes = @ \union K]
      /\ StoreOK(db, lastRun) /\ CallShape(call[s]) /\ now \in Int
  BY OwnCall DEF CounterScopes, NoWrites
<1>2. "scopes" \in OfRun /\ "raw" \notin BeforeRun /\ pc[s] = "scopes"
  BY <1>1 DEF BeforeRun, OfRun, Completion, Goto
<1>3. IsFiniteSet(K)
  BY <1>2, OwnRun
<1>4. StoreOK(db', lastRun) /\ Extends(db, db') /\ db'.scopes = db.scopes \union K
  <2> HIDE DEF K
  <2> QED BY <1>1, <1>3, AddScopesOK
<1>5. Set(s, c)
  BY DEF CounterScopes
<1>6. x = [rows |-> K, start |-> call[s].src.start, epoch |-> e, at |-> now]
  <2> DEFINE old == call[s].src
             y == [old EXCEPT !.epoch = e]
  <2>1. old = [rows |-> old.rows, start |-> old.start, epoch |-> old.epoch, at |-> old.at]
    BY <1>1 DEF CallShape
  <2>2. x = [y EXCEPT !.at = now]
    OBVIOUS
  <2>3. y = [rows |-> old.rows, start |-> old.start, epoch |-> e, at |-> old.at]
    <3> HIDE DEF e, old
    <3> QED BY <2>1
  <2> HIDE DEF y, e, x
  <2> QED BY <2>2, <2>3
<1>7. CallShape(c) /\ c.op = call[s].op /\ c.run = call[s].run /\ c.src = x /\ c.purge = call[s].purge
  <2> HIDE DEF x, e
  <2>1. x = [rows |-> x.rows, start |-> x.start, epoch |-> x.epoch, at |-> x.at]
        /\ x.rows \subseteq Counter /\ x.at \in Int
    BY <1>1, <1>6 DEF CallShape
  <2> QED BY <1>1, <2>1, SourceSet
<1> HIDE DEF x, e, c
<1>8. c.src.rows \subseteq db'.scopes
  BY <1>4, <1>6, <1>7
<1>9. DataInv'
  BY <1>1, <1>2, <1>4, <1>5, <1>7, <1>8, RunStep
<1> QED BY <1>4, <1>9

(* One sample of the metric in each scope of the read. *)
LEMMA CounterSamplesOK ==
  ASSUME DataInv, NEW s \in Session, pc[s] \in {"raw", "interpreted"}, NEW metric
  PROVE  /\ StoreOK(CounterSamples(s, metric), lastRun) /\ Extends(db, CounterSamples(s, metric))
<1> DEFINE K == call[s].src.rows
           r == call[s].run
           f == [k \in K |-> [run |-> r, scope |-> k, metric |-> metric, at |-> call[s].src.at,
                              epoch |-> call[s].src.epoch]]
           S == {[run |-> r, scope |-> k, metric |-> metric, at |-> call[s].src.at,
                  epoch |-> call[s].src.epoch] : k \in K}
<1>1. pc[s] \in OfRun
  BY DEF OfRun, Completion
<1>2. /\ r \in DOMAIN db.runs /\ IsFiniteSet(K) /\ K \subseteq db.scopes /\ call[s].src.at \in Int
  BY <1>1, OwnRun
<1>3. IsFiniteSet(S)
  <2>1. f \in Surjection(K, S)
    BY DEF Surjection
  <2> QED BY <1>2, <2>1, FS_Surjection
<1>4. \A x \in S : x.run = r /\ x.at \in Int /\ x.scope \in db.scopes
  BY <1>2
<1>5. StoreOK(db, lastRun)
  BY OwnCall
<1>6. CounterSamples(s, metric) = AddSamples(db, r, S)
  BY DEF CounterSamples
<1> HIDE DEF S, r, K
<1> QED BY <1>2, <1>3, <1>4, <1>5, <1>6, AddSamplesOK

LEMMA CounterSamplesData ==
  ASSUME DataInv, LockInv', NEW s \in Session, CounterRaw(s) \/ CounterInterpreted(s)
  PROVE  DataInv' /\ Extends(db, db')
<1>1. PICK from, to, metric :
        /\ from \in {"raw", "interpreted"} /\ to \in {"interpreted", "payload"}
        /\ Goto(s, from, to) /\ db' = CounterSamples(s, metric)
        /\ UNCHANGED <<now, lastRun, purges, call>>
  BY DEF CounterRaw, CounterInterpreted, Written, NoWrites
<1>2. from \in OfRun /\ to \notin BeforeRun /\ pc[s] = from
  BY <1>1 DEF BeforeRun, OfRun, Completion, Goto
<1>3. StoreOK(db', lastRun) /\ Extends(db, db')
  BY <1>1, <1>2, CounterSamplesOK
<1>4. call[s].src.rows \subseteq db'.scopes
  BY <1>1, <1>2, <1>3, OwnRun DEF Extends
<1>5. DataInv'
  BY <1>1, <1>2, <1>3, <1>4, SameCallStep
<1> QED BY <1>3, <1>5

LEMMA CounterPayloadData ==
  ASSUME DataInv, LockInv', NEW s \in Session, CounterPayload(s) PROVE DataInv' /\ Extends(db, db')
<1>1. /\ Goto(s, "payload", "update") /\ UNCHANGED <<now, lastRun, purges, call>>
      /\ db' = AddPayload(db, call[s].run, call[s].src.at) \/ UNCHANGED db
  BY DEF CounterPayload, Written, NoWrites
<1>2. /\ "payload" \in OfRun /\ pc[s] = "payload"
      /\ "update" \notin BeforeRun /\ "update" \notin {"raw", "interpreted"}
  BY <1>1 DEF BeforeRun, OfRun, Completion, Goto
<1>3. call[s].run \in DOMAIN db.runs /\ call[s].src.at \in Int /\ StoreOK(db, lastRun) /\ Extends(db, db)
  BY <1>2, OwnRun, OwnCall
<1>4. StoreOK(db', lastRun) /\ Extends(db, db')
  BY <1>1, <1>3, AddPayloadOK
<1>5. DataInv'
  BY <1>1, <1>2, <1>4, SameCallStep
<1> QED BY <1>4, <1>5

LEMMA CounterRunData ==
  ASSUME DataInv, LockInv', NEW s \in Session, CounterRun(s) PROVE DataInv' /\ Extends(db, db')
<1> DEFINE r == call[s].run
           m == call[s].src.start
           n == call[s].src.epoch
           a == [db.runs[r] EXCEPT !.start = m]
           row == [a EXCEPT !.epoch = n]
<1>1. /\ Goto(s, "update", "module") /\ UNCHANGED <<now, lastRun, purges, call>>
      /\ db' = [db EXCEPT !.runs[r].start = m, !.runs[r].epoch = n]
  BY DEF CounterRun, Written, NoWrites
<1>2. /\ "update" \in OfRun /\ pc[s] = "update"
      /\ "module" \notin BeforeRun /\ "module" \notin {"raw", "interpreted"}
  BY <1>1 DEF BeforeRun, OfRun, Completion, Goto
<1>3. r \in DOMAIN db.runs /\ RowOK(db.runs[r]) /\ StoreOK(db, lastRun)
  BY <1>2, OwnRun, OwnCall
<1>4. RowOK(row) /\ row.collector = db.runs[r].collector
  <2>1. RowOK(a) /\ a.collector = db.runs[r].collector
    <3> HIDE DEF m
    <3> QED BY <1>3, StartSet
  <2> HIDE DEF a, n
  <2> QED BY <2>1, EpochSet
<1>5. db' = [db EXCEPT !.runs = [@ EXCEPT ![r] = row]]
  <2> HIDE DEF m, n
  <2> QED BY <1>1, <1>3 DEF StoreOK
<1> HIDE DEF row
<1>6. StoreOK(db', lastRun) /\ Extends(db, db')
  BY <1>3, <1>4, <1>5, RewriteOK
<1>7. DataInv'
  BY <1>1, <1>2, <1>6, SameCallStep
<1> QED BY <1>6, <1>7

(* The module status, of a completed read or of its failure. *)
LEMMA SourceDropped ==
  ASSUME NEW c, CallShape(c), NEW status
  PROVE  LET e == [c EXCEPT !.status = status, !.src = NoSource]
         IN CallShape(e) /\ e.op = c.op /\ e.run = c.run /\ e.purge = c.purge
<1> DEFINE b == [c EXCEPT !.status = status]
           e == [b EXCEPT !.src = NoSource]
<1>1. CallShape(b) /\ b.op = c.op /\ b.run = c.run /\ b.purge = c.purge
  BY StatusSet
<1>2. CallShape(e) /\ e.op = b.op /\ e.run = b.run /\ e.purge = b.purge
  <2> HIDE DEF b
  <2> QED BY <1>1, Constants, SourceSet
<1>3. [c EXCEPT !.status = status, !.src = NoSource] = e
  OBVIOUS
<1> QED BY <1>1, <1>2, <1>3

LEMMA CounterModuleData ==
  ASSUME DataInv, LockInv', NEW s \in Session, CounterModule(s) \/ CatchCompletion(s)
  PROVE  DataInv' /\ Extends(db, db')
<1>1. PICK from, c :
        /\ from \in {"module", "modulecatch"}
        /\ Goto(s, from, "finalize") /\ Set(s, c) /\ UNCHANGED <<now, lastRun, purges>>
        /\ db' = AddModules(db, call[s].run, 1)
        /\ c \in {[call[s] EXCEPT !.src = NoSource],
                  [call[s] EXCEPT !.status = "ERROR_HANDLED", !.src = NoSource]}
  BY DEF CounterModule, CatchCompletion, NoWrites
<1>2. from \in OfRun /\ pc[s] = from /\ "finalize" \notin BeforeRun \union {"raw", "interpreted"}
  BY <1>1 DEF BeforeRun, OfRun, Completion, Goto
<1>3. call[s].run \in DOMAIN db.runs /\ StoreOK(db, lastRun) /\ CallShape(call[s])
  BY <1>2, OwnRun, OwnCall
<1>4. CallShape(c) /\ c.op = call[s].op /\ c.run = call[s].run /\ c.purge = call[s].purge
  <2> DEFINE a == [call[s] EXCEPT !.src = NoSource]
             b == [call[s] EXCEPT !.status = "ERROR_HANDLED", !.src = NoSource]
  <2>1. CallShape(a) /\ a.op = call[s].op /\ a.run = call[s].run /\ a.purge = call[s].purge
    BY <1>3, SourceSet, Constants
  <2>2. CallShape(b) /\ b.op = call[s].op /\ b.run = call[s].run /\ b.purge = call[s].purge
    BY <1>3, SourceDropped
  <2>3. c = a \/ c = b
    BY <1>1
  <2> HIDE DEF a, b
  <2> QED BY <2>1, <2>2, <2>3
<1>5. StoreOK(db', lastRun) /\ Extends(db, db')
  BY <1>1, <1>3, AddModulesOK
<1>6. DataInv'
  BY <1>1, <1>2, <1>4, <1>5, RunStep
<1> QED BY <1>5, <1>6

LEMMA FinalizeData ==
  ASSUME DataInv, LockInv', NEW s \in Session, Finalize(s) PROVE DataInv' /\ Extends(db, db')
<1> DEFINE status == FinalStatus(call[s])
           c == [call[s] EXCEPT !.status = status]
<1>1. /\ Goto(s, "finalize", "project") /\ Set(s, c) /\ UNCHANGED <<now, lastRun, purges>>
      /\ db' = Finalized(db, call[s].run, status, now)
  BY DEF Finalize, NoWrites
<1>2. "finalize" \in OfRun /\ "project" \notin BeforeRun \union {"raw", "interpreted"}
  BY DEF BeforeRun, OfRun
<1>3. StoreOK(db, lastRun) /\ CallShape(call[s]) /\ now \in Nat
  BY OwnCall
<1> HIDE DEF status
<1>4. CallShape(c) /\ c.op = call[s].op /\ c.run = call[s].run /\ c.purge = call[s].purge
  BY <1>3, StatusSet
<1>5. StoreOK(db', lastRun) /\ Extends(db, db')
  BY <1>1, <1>3, FinalizedOK
<1> HIDE DEF c
<1>6. DataInv'
  BY <1>1, <1>2, <1>4, <1>5, RunStep
<1> QED BY <1>5, <1>6

-----------------------------------------------------------------------------
(* Waits and files. *)
LEMMA NativeEvidenceOK ==
  ASSUME now \in Nat, NEW d, NEW last, StoreOK(d, last), NEW r \in DOMAIN d.runs, NEW op
  PROVE  StoreOK(NativeEvidence(d, r, op), last) /\ Extends(d, NativeEvidence(d, r, op))
<1> DEFINE S == {[run |-> r, scope |-> op, metric |-> m, at |-> now, epoch |-> r]
                  : m \in {"RAW", "CONTEXT"}}
           e == [d EXCEPT !.scopes = @ \union {op}]
           f == AddSamples(e, r, S)
           g == AddModules(f, r, 2)
<1>1. StoreOK(e, last) /\ Extends(d, e) /\ op \in e.scopes /\ r \in DOMAIN e.runs
  <2>1. IsFiniteSet({op})
    BY FS_Singleton
  <2> HIDE DEF e
  <2>2. e = [d EXCEPT !.scopes = @ \union {op}]
    BY DEF e
  <2> QED BY <2>1, <2>2, AddScopesOK
<1>2. IsFiniteSet(S) /\ \A x \in S : x.run = r /\ x.at \in Int /\ x.scope = op
  <2> DEFINE row(m) == [run |-> r, scope |-> op, metric |-> m, at |-> now, epoch |-> r]
  <2>1. S = {row("RAW")} \union {row("CONTEXT")}
    OBVIOUS
  <2> HIDE DEF S
  <2>2. \A m : row(m).run = r /\ row(m).at \in Int /\ row(m).scope = op
    OBVIOUS
  <2> HIDE DEF row
  <2>3. IsFiniteSet({row("RAW")}) /\ IsFiniteSet({row("CONTEXT")})
    BY FS_Singleton
  <2> QED BY <2>1, <2>2, <2>3, FS_Union
<1>3. NativeEvidence(d, r, op) = g
  BY DEF NativeEvidence
<1> HIDE DEF S, e
<1>4. StoreOK(f, last) /\ Extends(e, f) /\ r \in DOMAIN f.runs
  BY <1>1, <1>2, AddSamplesOK DEF Extends
<1> HIDE DEF f
<1>5. StoreOK(g, last) /\ Extends(f, g)
  BY <1>4, AddModulesOK
<1> HIDE DEF g
<1> QED BY <1>1, <1>3, <1>4, <1>5, ExtendsTrans

(* A final module status and the end of the run, after other evidence. *)
LEMMA FinalModuleOK ==
  ASSUME NEW d, NEW last, StoreOK(d, last), NEW r \in DOMAIN d.runs, NEW n \in Nat,
         NEW status, NEW t \in Nat
  PROVE  LET e == Finalized(AddModules(d, r, n), r, status, t)
         IN StoreOK(e, last) /\ Extends(d, e)
<1> DEFINE m == AddModules(d, r, n)
<1>1. StoreOK(m, last) /\ Extends(d, m)
  BY AddModulesOK
<1> HIDE DEF m
<1>2. StoreOK(Finalized(m, r, status, t), last) /\ Extends(m, Finalized(m, r, status, t))
  BY <1>1, FinalizedOK
<1>3. Extends(d, Finalized(m, r, status, t))
  BY <1>1, <1>2, ExtendsTrans
<1> QED BY <1>2, <1>3 DEF m

LEMMA NativeCompleteData ==
  ASSUME DataInv, LockInv', NEW s \in Session, NativeComplete(s) PROVE DataInv' /\ Extends(db, db')
<1> DEFINE r == call[s].run
           status == call[s].status
<1>1. /\ UNCHANGED <<now, lastRun, purges>> /\ pc[s] = "complete" /\ now \in Nat
      /\ StoreOK(db, lastRun) /\ Extends(db, db) /\ CallShape(call[s])
  BY OwnCall DEF NativeComplete, NoWrites, Quiet, StoreKept, Goto
<1>2. "complete" \in OfRun /\ "project" \notin BeforeRun \union {"raw", "interpreted"}
      /\ "completecatch" \notin BeforeRun \union {"raw", "interpreted"}
  BY DEF BeforeRun, OfRun
<1>3. r \in DOMAIN db.runs
  BY <1>1, <1>2, OwnRun
<1>4. ASSUME NEW payload \in BOOLEAN,
             LET d == IF payload THEN AddPayload(db, r, now) ELSE db
             IN db' = Finalized(IF status = "PARTIAL" THEN NativeEvidence(d, r, call[s].op)
                                ELSE AddModules(d, r, 1), r, status, now),
             Goto(s, "complete", "project"), UNCHANGED call
      PROVE  DataInv' /\ Extends(db, db')
  <2> DEFINE d == IF payload THEN AddPayload(db, r, now) ELSE db
             e == IF status = "PARTIAL" THEN NativeEvidence(d, r, call[s].op) ELSE AddModules(d, r, 1)
             f == Finalized(e, r, status, now)
  <2>1. StoreOK(d, lastRun) /\ Extends(db, d)
    <3>1. CASE payload
      <4>1. d = AddPayload(db, r, now)
        BY <3>1
      <4> HIDE DEF d, r
      <4> QED BY <1>1, <1>3, <4>1, AddPayloadOK
    <3>2. CASE ~payload
      BY <1>1, <3>2
    <3> QED BY <3>1, <3>2
  <2>2. db' = f
    BY <1>4
  <2> HIDE DEF d, r, status
  <2>3. r \in DOMAIN d.runs
    BY <1>3, <2>1 DEF Extends
  <2>4. StoreOK(e, lastRun) /\ Extends(d, e)
    BY <1>1, <2>1, <2>3, NativeEvidenceOK, AddModulesOK
  <2> HIDE DEF e
  <2>5. StoreOK(f, lastRun) /\ Extends(e, f)
    BY <1>1, <2>4, FinalizedOK
  <2> HIDE DEF f
  <2>6. StoreOK(db', lastRun) /\ Extends(db, db')
    BY <2>1, <2>2, <2>4, <2>5, ExtendsTrans
  <2>7. DataInv'
    BY <1>1, <1>2, <1>4, <2>6, SameCallStep
  <2> QED BY <2>6, <2>7
<1>5. CASE Goto(s, "complete", "completecatch") /\ UNCHANGED call /\ Quiet
  <2>1. StoreOK(db', lastRun) /\ Extends(db, db')
    BY <1>1, <1>5 DEF Quiet, StoreKept
  <2> QED BY <1>1, <1>2, <1>5, <2>1, SameCallStep
<1>6. CASE /\ Goto(s, "complete", "project")
           /\ Set(s, [call[s] EXCEPT !.status = "TARGET_UNAVAILABLE"]) /\ Quiet
  <2> DEFINE c == [call[s] EXCEPT !.status = "TARGET_UNAVAILABLE"]
  <2>1. CallShape(c) /\ c.op = call[s].op /\ c.run = r /\ c.purge = call[s].purge
    BY <1>1, StatusSet
  <2>2. StoreOK(db', lastRun) /\ Extends(db, db')
    BY <1>1, <1>6 DEF Quiet, StoreKept
  <2> HIDE DEF c
  <2>3. Set(s, c)
    BY <1>6 DEF c
  <2> QED BY <1>1, <1>2, <1>6, <2>1, <2>2, <2>3, RunStep
<1> QED BY <1>4, <1>5, <1>6 DEF NativeComplete

LEMMA CatchNativeData ==
  ASSUME DataInv, LockInv', NEW s \in Session, CatchNative(s) PROVE DataInv' /\ Extends(db, db')
<1> DEFINE r == call[s].run
           row == [db.runs[r] EXCEPT !.status = "ERROR_HANDLED"]
           d == [db EXCEPT !.runs = [@ EXCEPT ![r] = row]]
<1>1. /\ UNCHANGED <<now, lastRun, purges>> /\ Goto(s, "completecatch", "project") /\ now \in Nat
      /\ pc[s] = "completecatch" /\ StoreOK(db, lastRun) /\ CallShape(call[s])
  BY OwnCall DEF CatchNative, NoWrites, Goto
<1>2. "completecatch" \in OfRun /\ "project" \notin BeforeRun \union {"raw", "interpreted"}
  BY DEF BeforeRun, OfRun
<1>3. r \in DOMAIN db.runs /\ RowOK(db.runs[r]) /\ db.runs[r].collector = call[s].op
  BY <1>1, <1>2, OwnRun
<1>4. PICK status :
        /\ Set(s, [call[s] EXCEPT !.status = status])
        /\ \/ db' = Finalized(AddModules(db, r, 1), r, "ERROR_HANDLED", now)
           \/ /\ call[s].op = "FILE_IO"
              /\ db' = AddModules([db EXCEPT !.runs[r].status = "ERROR_HANDLED"], r, 2)
  BY DEF CatchNative
<1>5. StoreOK(db', lastRun) /\ Extends(db, db')
  <2>1. CASE db' = Finalized(AddModules(db, r, 1), r, "ERROR_HANDLED", now)
    BY <1>1, <1>3, <2>1, FinalModuleOK
  <2>2. CASE /\ call[s].op = "FILE_IO"
             /\ db' = AddModules([db EXCEPT !.runs[r].status = "ERROR_HANDLED"], r, 2)
    <3>1. RowOK(row) /\ row.collector = db.runs[r].collector
      BY <1>3, <2>2, RowStatusSet
    <3>2. db' = AddModules(d, r, 2)
      BY <1>3, <2>2
    <3>3. StoreOK(d, lastRun) /\ Extends(db, d)
      <4> HIDE DEF row
      <4> QED BY <1>1, <1>3, <3>1, RewriteOK
    <3> HIDE DEF d
    <3>4. r \in DOMAIN d.runs
      BY <1>3, <3>3 DEF Extends
    <3>5. StoreOK(db', lastRun) /\ Extends(d, db')
      BY <3>2, <3>3, <3>4, AddModulesOK
    <3> QED BY <3>3, <3>5, ExtendsTrans
  <2> QED BY <1>4, <2>1, <2>2
<1> DEFINE c == [call[s] EXCEPT !.status = status]
<1>6. CallShape(c) /\ c.op = call[s].op /\ c.run = call[s].run /\ c.purge = call[s].purge
  BY <1>1, StatusSet
<1> HIDE DEF c
<1>7. Set(s, c)
  BY <1>4 DEF c
<1>8. DataInv'
  BY <1>1, <1>2, <1>5, <1>6, <1>7, RunStep
<1> QED BY <1>5, <1>8

LEMMA CatchData ==
  ASSUME DataInv, LockInv', NEW s \in Session, Catch(s) PROVE DataInv' /\ Extends(db, db')
<1> DEFINE status == CaughtStatus(call[s])
           c == [call[s] EXCEPT !.status = status]
<1>1. /\ Goto(s, "catch", "release") /\ Set(s, c) /\ UNCHANGED <<now, lastRun>>
      /\ purges' \in Receipts /\ StoreOK(db, lastRun) /\ Extends(db, db) /\ now \in Nat
      /\ CallShape(call[s]) /\ call[s].purge.now <= now
  BY OwnCall DEF Catch, NoWrites, Finish
<1>2. db' = Finalized(db, call[s].run, "ERROR_HANDLED", now) \/ db' = db
  BY DEF Catch
<1>3. StoreOK(db', lastRun) /\ Extends(db, db')
  BY <1>1, <1>2, FinalizedOK
<1> HIDE DEF status
<1>4. CallShape(c) /\ c.op = call[s].op /\ c.run = call[s].run /\ c.purge = call[s].purge
  BY <1>1, StatusSet
<1> HIDE DEF c
<1>5. "catch" \in Inside /\ "release" \notin BeforeRun \union OfRun \union {"refused", "raw", "interpreted"}
  BY DEF Inside, BeforeRun, OfRun, Completion
<1>6. DataInv'
  BY <1>1, <1>3, <1>4, <1>5, Onward
<1> QED BY <1>3, <1>6

-----------------------------------------------------------------------------
(* Every step preserves the invariant and deletes nothing that has not expired. *)
LEMMA StepData ==
  ASSUME DataInv, LockInv', NEW s \in Session, Step(s) PROVE DataInv' /\ Spared(db, db', now)
<1>1. CASE Batch(s)
  BY <1>1, BatchData
<1>2. CASE PurgeStart(s) \/ ClosePurge(s) \/ CatchPurge(s) \/ AfterPurge(s)
  BY <1>2, PurgeStartData, ClosePurgeData, CatchPurgeData, AfterPurgeData, ExtendsSpares
<1>3. CASE Acquire(s) \/ Release(s) \/ Prepare(s) \/ RefusedModule(s)
  BY <1>3, AcquireData, ReleaseData, PrepareData, RefusedData, ExtendsSpares
<1>4. CASE CounterStep(s)
  <2>1. DataInv' /\ Extends(db, db')
    BY <1>4, ReadCountersData, CounterScopesData, CounterSamplesData, CounterPayloadData,
       CounterRunData, CounterModuleData, FinalizeData DEF CounterStep
  <2> QED BY <2>1, ExtendsSpares
<1>5. CASE NativeStep(s)
  <2>1. DataInv' /\ Extends(db, db')
    BY <1>5, AdmitData, ReadNativeData, NativeCompleteData, CatchNativeData DEF NativeStep
  <2> QED BY <2>1, ExtendsSpares
<1>6. CASE Project(s) \/ Catch(s) \/ Raise(s)
  BY <1>6, ProjectData, CatchData, RaiseData, ExtendsSpares
<1> QED BY <1>1, <1>2, <1>3, <1>4, <1>5, <1>6 DEF Step, PurgeStep

LEMMA NextData == DataInv /\ [Next]_vars => DataInv' /\ Spared(db, db', now)
<1> SUFFICES ASSUME DataInv, [Next]_vars PROVE DataInv' /\ Spared(db, db', now)
  OBVIOUS
<1>0. LockInv'
  BY NextLock DEF DataInv
<1>1. ASSUME UNCHANGED vars PROVE DataInv' /\ Spared(db, db', now)
  <2>1. UNCHANGED <<now, db, lastRun, purges, pc, call>>
    BY <1>1 DEF vars
  <2>2. Spared(db, db', now)
    BY <2>1, ExtendsSelf, ExtendsSpares
  <2> QED BY <1>0, <2>1, <2>2 DEF DataInv
<1>2. ASSUME NEW s \in Session, Start(s) PROVE DataInv' /\ Spared(db, db', now)
  <2>1. CASE Decline(s)
    BY <1>1, <2>1 DEF Decline
  <2>2. ASSUME NEW op \in Operations, NEW force \in BOOLEAN, Call(s, op, force)
        PROVE  DataInv' /\ Spared(db, db', now)
    BY <1>0, <2>2, CallData, ExtendsSpares
  <2> QED BY <1>2, <2>1, <2>2 DEF Start
<1>3. ASSUME NEW s \in Session, Step(s) PROVE DataInv' /\ Spared(db, db', now)
  BY <1>0, <1>3, StepData
<1>4. ASSUME NEW s \in Session, Cancel(s) \/ Disconnect(s) PROVE DataInv' /\ Spared(db, db', now)
  BY <1>0, <1>4, ReleaseData, ExtendsSpares
<1>5. CASE Restart \/ Tick
  BY <1>0, <1>5, RestartData, TickData, ExtendsSpares
<1> QED BY <1>1, <1>2, <1>3, <1>4, <1>5 DEF Next

LEMMA AlwaysData == Spec => []DataInv
<1>1. DataInv /\ [Next]_vars => DataInv'
  BY NextData
<1> QED BY InitData, <1>1, PTL DEF Spec

-----------------------------------------------------------------------------
(* The clock never precedes the start of the server. *)
ClockInv == now \in Nat /\ start \in 0..now /\ faults \in Nat

LEMMA StepClock ==
  ASSUME NEW s \in Session, Step(s)
  PROVE  UNCHANGED <<now, start>> /\ (UNCHANGED faults \/ faults' = faults + 1)
<1> USE DEF NoWrites, Quiet
<1>1. CASE PurgeStep(s)
  BY <1>1 DEF PurgeStep, PurgeStart, Batch, ClosePurge, CatchPurge, AfterPurge
<1>2. CASE Acquire(s) \/ Release(s) \/ Prepare(s) \/ RefusedModule(s)
  BY <1>2 DEF Acquire, Release, Prepare, RefusedModule
<1>3. CASE CounterStep(s)
  BY <1>3 DEF CounterStep, ReadCounters, CounterScopes, CounterRaw, CounterInterpreted,
              CounterPayload, CounterRun, CounterModule, CatchCompletion, Finalize, Written
<1>4. CASE NativeStep(s)
  BY <1>4 DEF NativeStep, Admit, ReadNative, NativeComplete, CatchNative
<1>5. CASE Project(s) \/ Catch(s) \/ Raise(s)
  BY <1>5 DEF Project, Catch, Raise
<1> QED BY <1>1, <1>2, <1>3, <1>4, <1>5 DEF Step

LEMMA NextClock == ClockInv /\ [Next]_vars => ClockInv'
<1> SUFFICES ASSUME ClockInv, [Next]_vars PROVE ClockInv'
  OBVIOUS
<1>1. CASE UNCHANGED vars
  BY <1>1 DEF vars, ClockInv
<1>2. ASSUME NEW s \in Session, Start(s) PROVE ClockInv'
  BY <1>2 DEF Start, Decline, Call, Quiet, NoWrites, vars, ClockInv
<1>3. ASSUME NEW s \in Session, Step(s) PROVE ClockInv'
  BY <1>3, StepClock DEF ClockInv
<1>4. ASSUME NEW s \in Session, Cancel(s) \/ Disconnect(s) PROVE ClockInv'
  BY <1>4 DEF Cancel, Disconnect, ClockInv
<1>5. CASE Restart \/ Tick
  BY <1>5 DEF Restart, Tick, ClockInv
<1> QED BY <1>1, <1>2, <1>3, <1>4, <1>5 DEF Next

LEMMA AlwaysClock == Spec => []ClockInv
<1>1. Init => ClockInv
  BY DEF Init, ClockInv
<1>2. ClockInv /\ [Next]_vars => ClockInv'
  BY NextClock
<1> QED BY <1>1, <1>2, PTL DEF Spec

-----------------------------------------------------------------------------
(* The variables have values of their columns, whatever happens. *)
THEOREM TypeCorrect == Spec => []CycleTypeOK
<1>1. DataInv /\ ClockInv => CycleTypeOK
  <2> SUFFICES ASSUME DataInv, ClockInv PROVE CycleTypeOK
    OBVIOUS
  <2>1. DOMAIN db.runs \subseteq 1..lastRun
    BY DEF DataInv, StoreOK
  <2>2. \A r \in DOMAIN db.runs :
          db.runs[r].ended = None => db.runs[r].status = "RUNNING" \/ db.runs[r].collector = "FILE_IO"
    BY DEF DataInv, StoreOK, RowOK
  <2>3. \A s \in Session : call[s].run \in 0..lastRun
    BY <2>1 DEF DataInv, CallOK, CallRun
  <2> QED BY <2>1, <2>2, <2>3 DEF DataInv, ClockInv, LockInv, Receipts, CycleTypeOK
<1> QED BY <1>1, AlwaysData, AlwaysClock, PTL

(* No sample, payload or module status is left without its run or its scope by *)
(* a purge, a failed statement, a cancelled call or a restart.                 *)
THEOREM ReferencesHold == Spec => []References
<1>1. DataInv => References
  BY DEF DataInv, StoreOK, References
<1> QED BY <1>1, AlwaysData, PTL

(* No step deletes evidence that has not expired: a purge whose moment lies in *)
(* the past deletes no more than one that began now would.                     *)
THEOREM FreshNeverPurged == Spec => FreshEvidenceKept
<1>1. DataInv /\ [Next]_vars =>
        [/\ \A x \in db.samples \ db'.samples : x.at < now - RawRetention
         /\ \A x \in db.payloads \ db'.payloads : x.at < now - PayloadRetention
         /\ \A r \in DOMAIN db.runs \ DOMAIN db'.runs :
              db.runs[r].started < now - RawRetention /\ SamplesOf(db', r) = {}]_vars
  BY NextData DEF Spared
<1> QED BY <1>1, AlwaysData, PTL DEF Spec, FreshEvidenceKept

(* No step deletes the newest finalized wait run or the newest file run. *)
THEOREM NewestNeverPurged == Spec => NewestKept
<1>1. ASSUME DataInv, [Next]_vars
      PROVE  \A r \in DOMAIN db.runs : Newest(db, r) => r \in DOMAIN db'.runs
  <2> SUFFICES ASSUME NEW r \in DOMAIN db.runs, Newest(db, r), r \notin DOMAIN db'.runs PROVE FALSE
    OBVIOUS
  <2>1. Superseded(db, r)
    BY <1>1, NextData DEF Spared
  <2>2. DOMAIN db.runs \subseteq Int
    BY <1>1 DEF DataInv, StoreOK
  <2>3. CASE db.runs[r].collector = "WAIT_STATS"
    <3>1. PICK later \in DOMAIN db.runs :
            db.runs[later].collector = "WAIT_STATS" /\ db.runs[later].ended # None /\ later > r
      BY <2>1, <2>3 DEF Superseded, Newest, Native
    <3> QED BY <2>2, <2>3, <3>1 DEF Newest
  <2>4. CASE db.runs[r].collector = "FILE_IO"
    <3>1. PICK later \in DOMAIN db.runs : db.runs[later].collector = "FILE_IO" /\ later > r
      BY <2>1, <2>4 DEF Superseded, Native
    <3> QED BY <2>2, <2>4, <3>1 DEF Newest
  <2> QED BY <2>3, <2>4 DEF Newest
<1>2. DataInv /\ [Next]_vars =>
        [\A r \in DOMAIN db.runs : Newest(db, r) => r \in DOMAIN db'.runs]_vars
  BY <1>1
<1> QED BY <1>2, AlwaysData, PTL DEF Spec, NewestKept

-----------------------------------------------------------------------------
(* The runs. *)

(* The times and the counters of one run. *)
RunHistory(row, time) ==
  /\ row.rows \in Nat /\ row.started <= time
  /\ row.ended # None => /\ row.ended \in Nat /\ row.started <= row.ended /\ row.ended <= time
                         /\ row.count = row.rows
  /\ row.start # None => row.epoch # None

(* Every sample the source read called for, in the epoch of the run. *)
Measured(d, r) ==
  d.runs[r].rows = d.runs[r].expected /\ \A x \in SamplesOf(d, r) : x.epoch = d.runs[r].epoch

(* The runs that saw this server start are in this epoch. *)
SameEpoch(d, from, epoch) ==
  from # None => \A q \in DOMAIN d.runs : d.runs[q].start = from => d.runs[q].epoch = epoch

(* The runs that had ended before a collection that was not forced. *)
Collects(row) == row.ended = None \/ row.rows > 0
Due(d, r) ==
  \A q \in Counted(d, d.runs[r].collector) :
    q < r => d.runs[q].ended + Interval <= d.runs[r].started

History(d, time) ==
  /\ \A r \in DOMAIN d.runs : RunHistory(d.runs[r], time)
  /\ \A r \in DOMAIN d.runs : d.runs[r].status = "AVAILABLE" => Measured(d, r)
  /\ \A r \in DOMAIN d.runs : SameEpoch(d, d.runs[r].start, d.runs[r].epoch)
  /\ \A q, r \in DOMAIN d.runs :
       q < r /\ d.runs[q].ended # None => d.runs[q].ended <= d.runs[r].started
  /\ \A r \in DOMAIN d.runs : ~d.runs[r].forced /\ Collects(d.runs[r]) => Due(d, r)

-----------------------------------------------------------------------------
(* The call of a session, with the statement it is at. *)

(* Nothing of the run has been purged since it was opened. *)
Counts(d, r) == d.runs[r].rows = Cardinality(SamplesOf(d, r))

RunPart(c, at, d, last) ==
  /\ c.run # 0 => c.run = last
  /\ c.run # 0 \/ at = "refused" => Counts(d, last)
  /\ at \in OfRun => d.runs[last].ended = None /\ d.runs[last].status = "RUNNING"
  /\ at \in {"read", "complete", "scopes", "raw"} => d.runs[last].rows = 0

(* How far the counter path has come. *)
SourcePart(c, at, d, last) ==
  /\ at \in {"scopes", "raw", "interpreted"} =>
       d.runs[last].expected = 2 * Cardinality(c.src.rows)
  /\ at \in {"raw", "interpreted", "payload", "update"} =>
       c.src.epoch # None /\ SameEpoch(d, c.src.start, c.src.epoch)
  /\ at = "interpreted" => /\ d.runs[last].rows = Cardinality(c.src.rows)
                           /\ \A x \in SamplesOf(d, last) : x.metric = "RAW"
  /\ at \in {"interpreted", "payload", "update"} =>
       \A x \in SamplesOf(d, last) : x.epoch = c.src.epoch
  /\ at \in {"payload", "update"} => d.runs[last].rows = d.runs[last].expected
  /\ at \in {"module", "finalize"} /\ c.status = "AVAILABLE" => Measured(d, last)

Collected == {"AVAILABLE", "PARTIAL"}

ReportPart(c, at, d) ==
  /\ at = "complete" => c.status \in {"PARTIAL", "ERROR_HANDLED"}
  /\ at = "refused" => c.status \notin Collected
  /\ at \in {"project", "release"} /\ c.op # "PURGE" /\ c.status \in Collected =>
       /\ c.run \in DOMAIN d.runs
       /\ d.runs[c.run].ended # None /\ d.runs[c.run].status = c.status

(* The receipt of the purge in progress, and what its last batch left. *)
PurgePart(c, at, d, P) ==
  /\ c.purge.status \in {"AVAILABLE", "AVAILABLE_LIMITED", "SKIPPED_NOT_DUE",
                         "TARGET_UNAVAILABLE", "ERROR_HANDLED"}
  /\ at \in {"batch", "close"} => /\ c.purge.id \in DOMAIN P
                                  /\ P[c.purge.id].status = "RUNNING"
                                  /\ c.purge.batch \in Nat
                                  /\ P[c.purge.id].removed = c.purge.rows
  /\ at = "close" => /\ c.purge.deleted \in Nat
                     /\ c.purge.deleted = 0 => NothingExpired(d, c.purge.now)
                     /\ c.purge.deleted # 0 => c.purge.batch >= MaxBatches
  /\ at = "purged" /\ c.purge.status = "AVAILABLE" => NothingExpired(d, c.purge.now)

CallEvidence(c, at, d, last, P) ==
  /\ RunPart(c, at, d, last) /\ SourcePart(c, at, d, last)
  /\ ReportPart(c, at, d) /\ PurgePart(c, at, d, P)

ReceiptsExact(P) ==
  \A i \in DOMAIN P : P[i].status \in {"AVAILABLE", "AVAILABLE_LIMITED"} => P[i].rows = P[i].removed

EvidenceInv ==
  /\ DataInv
  /\ History(db, now)
  /\ \A s \in Session : CallEvidence(call[s], pc[s], db, lastRun, purges)
  /\ ReceiptsExact(purges)

-----------------------------------------------------------------------------
(* The newest run of a set: identities are bounded, so there is one. *)
LEMMA NewestOf ==
  ASSUME NEW last \in Nat, NEW S \in SUBSET (1..last), S # {}
  PROVE  Max(S) \in S /\ \A q \in S : q <= Max(S)
<1> DEFINE T == {last - q : q \in S}
<1>1. T \subseteq Nat /\ T # {}
  <2>1. \A q \in S : last - q \in Nat
    OBVIOUS
  <2>2. PICK q \in S : TRUE
    OBVIOUS
  <2>3. last - q \in T
    OBVIOUS
  <2> QED BY <2>1, <2>3
<1>2. PICK y \in T : \A z \in T : ~(<<z, y>> \in OpToRel(<, Nat))
  BY <1>1, NatLessThanWellFounded, WFMin
<1>3. \A z \in T : ~(z < y)
  BY <1>1, <1>2 DEF OpToRel
<1>4. PICK m \in S : y = last - m
  OBVIOUS
<1>5. \A q \in S : m >= q
  <2> SUFFICES ASSUME NEW q \in S PROVE m >= q
    OBVIOUS
  <2>1. last - q \in T
    OBVIOUS
  <2> HIDE DEF T
  <2>2. ~(last - q < last - m)
    BY <1>3, <1>4, <2>1
  <2> QED BY <2>2
<1>6. \A q \in S : Max(S) >= q /\ Max(S) \in S
  BY <1>5 DEF Max
<1> QED BY <1>6

(* The run that is the newest of those that count ended before now. *)
LEMMA NotDueMeans ==
  ASSUME NEW d, NEW last \in Nat, StoreOK(d, last), NEW time \in Nat, History(d, time),
         NEW c, ~NotDue(d, c, time)
  PROVE  \A q \in Counted(d, c) : d.runs[q].ended + Interval <= time
<1> SUFFICES ASSUME NEW q \in Counted(d, c) PROVE d.runs[q].ended + Interval <= time
  OBVIOUS
<1> DEFINE S == Counted(d, c)
           m == Max(S)
<1>1. S \in SUBSET (1..last) /\ S # {} /\ q \in S /\ S \subseteq DOMAIN d.runs
  BY DEF Counted, StoreOK
<1>2. m \in S /\ q <= m
  <2> HIDE DEF S
  <2> QED BY <1>1, NewestOf
<1>3. Interval \in Nat
  BY PolicyAssumption
<1>4. /\ d.runs[q].ended # None /\ d.runs[m].ended # None
      /\ d.runs[q].ended \in Nat /\ d.runs[m].ended \in Nat
      /\ d.runs[m].started <= d.runs[m].ended /\ d.runs[m].started \in Nat
      /\ q \in DOMAIN d.runs /\ m \in DOMAIN d.runs
  <2>1. q \in DOMAIN d.runs /\ m \in DOMAIN d.runs /\ d.runs[q].ended # None /\ d.runs[m].ended # None
    BY <1>2 DEF Counted
  <2> HIDE DEF m
  <2> QED BY <2>1 DEF History, RunHistory, StoreOK, RowOK
<1>5. d.runs[m].ended + Interval <= time
  <2>1. ~(d.runs[m].ended + Interval > time)
    BY <1>1 DEF NotDue
  <2> QED BY <1>3, <1>4, <2>1
<1>6. CASE q = m
  BY <1>5, <1>6
<1>7. CASE q # m
  <2>1. q < m
    BY <1>1, <1>2, <1>7
  <2>2. d.runs[q].ended <= d.runs[m].started
    BY <1>4, <2>1 DEF History
  <2> HIDE DEF m
  <2> QED BY <1>3, <1>4, <1>5, <2>2
<1> QED BY <1>6, <1>7

(* The epoch of a counter run agrees with the runs that saw the same start. *)
LEMMA EpochForOK ==
  ASSUME NEW d, NEW last \in Nat, StoreOK(d, last), NEW time, History(d, time),
         NEW r \in 1..last, NEW from
  PROVE  EpochFor(d, r, from) # None /\ SameEpoch(d, from, EpochFor(d, r, from))
<1> DEFINE S == {q \in DOMAIN d.runs : d.runs[q].start = from /\ d.runs[q].epoch # None}
           m == Max(S)
<1>1. EpochFor(d, r, from) = IF S = {} THEN r ELSE d.runs[m].epoch
  BY DEF EpochFor
<1>2. S \in SUBSET (1..last)
  BY DEF StoreOK
<1>3. from # None => \A q \in DOMAIN d.runs : d.runs[q].start = from => q \in S
  BY DEF History, RunHistory
<1>4. CASE S = {}
  BY <1>1, <1>3, <1>4 DEF SameEpoch, None
<1>5. CASE S # {}
  <2>1. m \in S
    <3> HIDE DEF S
    <3> QED BY <1>2, <1>5, NewestOf
  <2>2. m \in DOMAIN d.runs /\ d.runs[m].start = from /\ d.runs[m].epoch # None
    BY <2>1
  <2> HIDE DEF m
  <2>3. SameEpoch(d, from, d.runs[m].epoch)
    BY <2>2 DEF History, SameEpoch
  <2> QED BY <1>1, <1>5, <2>2, <2>3
<1> QED BY <1>4, <1>5

-----------------------------------------------------------------------------
(* What a statement does to the runs, and what keeps their history. *)

(* Time passes. *)
LEMMA HistoryLater ==
  ASSUME NEW d, NEW last, StoreOK(d, last), NEW t \in Nat, NEW u \in Nat, t <= u, History(d, t)
  PROVE  History(d, u)
<1>1. \A r \in DOMAIN d.runs : RunHistory(d.runs[r], u)
  <2> SUFFICES ASSUME NEW r \in DOMAIN d.runs PROVE RunHistory(d.runs[r], u)
    OBVIOUS
  <2>1. RunHistory(d.runs[r], t) /\ d.runs[r].started \in Nat
    BY DEF History, StoreOK, RowOK
  <2> QED BY <2>1 DEF RunHistory
<1> QED BY <1>1 DEF History

(* The purge takes rows away and rewrites none. *)
LEMMA HistoryShrinks ==
  ASSUME NEW d, NEW e, NEW t, Shrinks(d, e), History(d, t)
  PROVE  History(e, t)
<1>1. \A r \in DOMAIN e.runs : r \in DOMAIN d.runs /\ e.runs[r] = d.runs[r]
  BY DEF Shrinks
<1>2. \A r \in DOMAIN e.runs : RunHistory(e.runs[r], t)
  BY <1>1 DEF History
<1>3. ASSUME NEW r \in DOMAIN e.runs, e.runs[r].status = "AVAILABLE" PROVE Measured(e, r)
  <2>1. Measured(d, r)
    BY <1>1, <1>3 DEF History
  <2>2. SamplesOf(e, r) \subseteq SamplesOf(d, r)
    BY DEF Shrinks, SamplesOf
  <2> QED BY <1>1, <2>1, <2>2 DEF Measured
<1>4. \A r \in DOMAIN e.runs : SameEpoch(e, e.runs[r].start, e.runs[r].epoch)
  BY <1>1 DEF History, SameEpoch
<1>5. \A q, r \in DOMAIN e.runs :
        q < r /\ e.runs[q].ended # None => e.runs[q].ended <= e.runs[r].started
  BY <1>1 DEF History
<1>6. ASSUME NEW r \in DOMAIN e.runs, ~e.runs[r].forced, Collects(e.runs[r]) PROVE Due(e, r)
  <2>1. Due(d, r)
    BY <1>1, <1>6 DEF History
  <2> QED BY <1>1, <2>1 DEF Due, Counted
<1> QED BY <1>2, <1>3, <1>4, <1>5, <1>6 DEF History

(* The last run is rewritten, and the samples it gains are its own. *)
Touches(d, e, last) ==
  /\ DOMAIN e.runs = DOMAIN d.runs /\ last \in DOMAIN d.runs
  /\ \A q \in DOMAIN d.runs : q # last => e.runs[q] = d.runs[q]
  /\ \A q : q # last => SamplesOf(e, q) = SamplesOf(d, q)
  /\ e.runs[last].collector = d.runs[last].collector
  /\ e.runs[last].started = d.runs[last].started
  /\ e.runs[last].forced = d.runs[last].forced

LEMMA HistoryTouched ==
  ASSUME NEW d, NEW last \in Nat, StoreOK(d, last), NEW t, History(d, t), NEW e, Touches(d, e, last),
         RunHistory(e.runs[last], t),
         e.runs[last].status = "AVAILABLE" => Measured(e, last),
         SameEpoch(d, e.runs[last].start, e.runs[last].epoch)
           \/ (e.runs[last].start = d.runs[last].start /\ e.runs[last].epoch = d.runs[last].epoch),
         Collects(e.runs[last]) => Collects(d.runs[last])
  PROVE  History(e, t)
<1>0. \A q \in DOMAIN e.runs : q \in DOMAIN d.runs /\ (q = last \/ e.runs[q] = d.runs[q]) /\ q \in Nat /\ q <= last
  BY DEF Touches, StoreOK
<1>2. \A r \in DOMAIN e.runs : RunHistory(e.runs[r], t)
  BY <1>0 DEF History
<1>3. ASSUME NEW r \in DOMAIN e.runs, e.runs[r].status = "AVAILABLE" PROVE Measured(e, r)
  <2>1. CASE r = last
    BY <1>3, <2>1
  <2>2. CASE r # last
    <3>1. Measured(d, r) /\ SamplesOf(e, r) = SamplesOf(d, r) /\ e.runs[r] = d.runs[r]
      BY <1>0, <1>3, <2>2 DEF History, Touches
    <3> QED BY <3>1 DEF Measured
  <2> QED BY <2>1, <2>2
<1>4. ASSUME NEW r \in DOMAIN e.runs PROVE SameEpoch(e, e.runs[r].start, e.runs[r].epoch)
  <2> SUFFICES ASSUME NEW q \in DOMAIN e.runs, e.runs[r].start # None, e.runs[q].start = e.runs[r].start
               PROVE  e.runs[q].epoch = e.runs[r].epoch
    BY DEF SameEpoch
  <2>1. \A a, b \in DOMAIN d.runs : d.runs[a].start # None /\ d.runs[b].start = d.runs[a].start
          => d.runs[b].epoch = d.runs[a].epoch
    BY DEF History, SameEpoch
  <2>2. ASSUME NEW a \in DOMAIN d.runs, a # last, e.runs[last].start # None,
               d.runs[a].start = e.runs[last].start
        PROVE  d.runs[a].epoch = e.runs[last].epoch
    BY <2>1, <2>2 DEF SameEpoch, Touches
  <2> QED BY <1>0, <2>1, <2>2
<1>5. ASSUME NEW q \in DOMAIN e.runs, NEW r \in DOMAIN e.runs, q < r, e.runs[q].ended # None
      PROVE  e.runs[q].ended <= e.runs[r].started
  <2>1. q # last
    BY <1>0, <1>5
  <2>2. e.runs[r].started = d.runs[r].started /\ e.runs[q] = d.runs[q]
    BY <1>0, <2>1 DEF Touches
  <2> QED BY <1>0, <1>5, <2>2 DEF History
<1>6. ASSUME NEW r \in DOMAIN e.runs, ~e.runs[r].forced, Collects(e.runs[r]) PROVE Due(e, r)
  <2>1. /\ e.runs[r].started = d.runs[r].started /\ e.runs[r].collector = d.runs[r].collector
        /\ ~d.runs[r].forced /\ Collects(d.runs[r])
    BY <1>0, <1>6 DEF Touches
  <2>2. Due(d, r)
    BY <1>0, <2>1 DEF History
  <2>3. ASSUME NEW q \in Counted(e, e.runs[r].collector), q < r
        PROVE  q \in Counted(d, d.runs[r].collector) /\ e.runs[q] = d.runs[q]
    BY <1>0, <2>1, <2>3 DEF Counted
  <2> QED BY <2>1, <2>2, <2>3 DEF Due
<1> QED BY <1>2, <1>3, <1>4, <1>5, <1>6 DEF History

(* A run that is opened begins when every other one has ended or was left open. *)
LEMMA HistoryOpened ==
  ASSUME NEW d, NEW last \in Nat, StoreOK(d, last), NEW t \in Nat, History(d, t),
         NEW c, NEW a, NEW force, a = "AVAILABLE" => force \/ ~NotDue(d, c, t)
  PROVE  LET e == AddRun(d, last + 1, OpenedRun(c, a, force, t))
         IN /\ History(e, t) /\ Counts(e, last + 1) /\ e.runs[last + 1].rows = 0
            /\ e.runs[last + 1].ended = (IF a = "AVAILABLE" THEN None ELSE t)
            /\ e.runs[last + 1].status = (IF a = "AVAILABLE" THEN "RUNNING" ELSE a)
<1> DEFINE r == last + 1
           row == OpenedRun(c, a, force, t)
           e == AddRun(d, r, row)
<1>1. row = [collector |-> c, started |-> t, ended |-> IF a = "AVAILABLE" THEN None ELSE t,
             status |-> IF a = "AVAILABLE" THEN "RUNNING" ELSE a,
             count |-> 0, start |-> None, epoch |-> None,
             forced |-> force, rows |-> 0, expected |-> 0]
  BY DEF OpenedRun
<1>2. r \notin DOMAIN d.runs /\ r \in Nat /\ \A q \in DOMAIN d.runs : q < r /\ q \in Nat
  BY DEF StoreOK
<1> HIDE DEF row
<1>3. e = [runs |-> [q \in DOMAIN d.runs \union {r} |-> IF q = r THEN row ELSE d.runs[q]],
           samples |-> d.samples, payloads |-> d.payloads, modules |-> d.modules, scopes |-> d.scopes]
  BY DEF AddRun, StoreOK
<1> HIDE DEF e, r
<1>4. /\ DOMAIN e.runs = DOMAIN d.runs \union {r} /\ e.runs[r] = row /\ e.samples = d.samples
      /\ \A q \in DOMAIN d.runs : e.runs[q] = d.runs[q]
  BY <1>2, <1>3
<1>5. SamplesOf(e, r) = {}
  BY <1>2, <1>4 DEF SamplesOf, StoreOK
<1>6. Counts(e, r)
  BY <1>1, <1>4, <1>5, FS_EmptySet DEF Counts
<1>7. RunHistory(row, t)
  BY <1>1 DEF RunHistory, None
<1>8. \A q \in DOMAIN e.runs : RunHistory(e.runs[q], t)
  BY <1>4, <1>7 DEF History
<1>9. ASSUME NEW q \in DOMAIN e.runs, e.runs[q].status = "AVAILABLE" PROVE Measured(e, q)
  <2>1. q # r
    BY <1>1, <1>4, <1>9
  <2>2. Measured(d, q) /\ e.runs[q] = d.runs[q] /\ SamplesOf(e, q) = SamplesOf(d, q)
    BY <1>4, <1>9, <2>1 DEF History, SamplesOf
  <2> QED BY <2>2 DEF Measured
<1>10. \A q \in DOMAIN e.runs : SameEpoch(e, e.runs[q].start, e.runs[q].epoch)
  <2>1. row.start = None
    BY <1>1
  <2> QED BY <1>4, <2>1 DEF History, SameEpoch
<1>11. ASSUME NEW p \in DOMAIN e.runs, NEW q \in DOMAIN e.runs, p < q, e.runs[p].ended # None
       PROVE  e.runs[p].ended <= e.runs[q].started
  <2>1. p \in DOMAIN d.runs /\ e.runs[p] = d.runs[p]
    BY <1>2, <1>4, <1>11
  <2>2. CASE q = r
    <3>1. RunHistory(d.runs[p], t)
      BY <2>1 DEF History
    <3> QED BY <1>1, <1>4, <1>11, <2>1, <2>2, <3>1 DEF RunHistory
  <2>3. CASE q # r
    BY <1>4, <1>11, <2>1, <2>3 DEF History
  <2> QED BY <2>2, <2>3
<1>12. ASSUME NEW q \in DOMAIN e.runs, ~e.runs[q].forced, Collects(e.runs[q]) PROVE Due(e, q)
  <2>1. CASE q = r
    <3>1. a = "AVAILABLE" /\ ~force /\ e.runs[r].started = t /\ e.runs[r].collector = c
      BY <1>1, <1>4, <1>12, <2>1 DEF Collects, None
    <3>2. \A p \in Counted(d, c) : d.runs[p].ended + Interval <= t
      BY <3>1, NotDueMeans
    <3>3. ASSUME NEW p \in Counted(e, c), p < r PROVE p \in Counted(d, c) /\ e.runs[p] = d.runs[p]
      BY <1>2, <1>4, <3>3 DEF Counted
    <3> QED BY <2>1, <3>1, <3>2, <3>3 DEF Due
  <2>2. CASE q # r
    <3>1. q \in DOMAIN d.runs /\ e.runs[q] = d.runs[q]
      BY <1>4, <2>2
    <3>2. Due(d, q)
      BY <1>12, <3>1 DEF History
    <3>3. ASSUME NEW p \in Counted(e, d.runs[q].collector), p < q
          PROVE  p \in Counted(d, d.runs[q].collector) /\ e.runs[p] = d.runs[p]
      BY <1>2, <1>4, <3>1, <3>3 DEF Counted
    <3> QED BY <3>1, <3>2, <3>3 DEF Due
  <2> QED BY <2>1, <2>2
<1>13. History(e, t)
  BY <1>8, <1>9, <1>10, <1>11, <1>12 DEF History
<1>14. /\ e.runs[r].rows = 0 /\ e.runs[r].ended = (IF a = "AVAILABLE" THEN None ELSE t)
       /\ e.runs[r].status = (IF a = "AVAILABLE" THEN "RUNNING" ELSE a)
  BY <1>1, <1>4
<1> QED BY <1>6, <1>13, <1>14 DEF e, r, row

-----------------------------------------------------------------------------
(* Which call a step has to look at. *)
LEMMA OutsideEvidence ==
  ASSUME NEW c, NEW at \in Outside, c.run = 0, NEW d, NEW last, NEW P, CallEvidence(c, at, d, last, P),
         NEW e, NEW last2, NEW P2
  PROVE  CallEvidence(c, at, e, last2, P2)
<1>1. at \in {"idle", "lock"} /\ at \notin OfRun
  BY DEF Outside, OfRun, Completion
<1>2. RunPart(c, at, e, last2)
  BY <1>1 DEF CallEvidence, RunPart
<1>3. SourcePart(c, at, e, last2)
  BY <1>1 DEF SourcePart
<1>4. ReportPart(c, at, e) /\ PurgePart(c, at, e, P2)
  BY <1>1 DEF CallEvidence, ReportPart, PurgePart
<1> QED BY <1>2, <1>3, <1>4 DEF CallEvidence

LEMMA OutsideRun ==
  ASSUME DataInv, NEW s \in Session, pc[s] \in BeforeRun PROVE call[s].run = 0
  BY DEF DataInv, CallOK, CallRun

(* A step of the holder of the lock. *)
LEMMA OwnEvidence ==
  ASSUME EvidenceInv, DataInv', NEW s \in Session, pc[s] \in Inside, NEW to, NEW c,
         pc' = [pc EXCEPT ![s] = to], call' = [call EXCEPT ![s] = c], UNCHANGED now,
         History(db', now), CallEvidence(c, to, db', lastRun', purges'), ReceiptsExact(purges')
  PROVE  EvidenceInv'
<1>1. ASSUME NEW q \in Session, q # s PROVE CallEvidence(call[q], pc[q], db', lastRun', purges')
  <2>1. pc[q] \in Outside
    BY <1>1 DEF EvidenceInv, DataInv, LockInv
  <2>2. call[q].run = 0
    BY <2>1, OutsideRun DEF EvidenceInv, Outside, BeforeRun
  <2> QED BY <2>1, <2>2, OutsideEvidence DEF EvidenceInv
<1>2. \A q \in Session : call'[q] = (IF q = s THEN c ELSE call[q]) /\ pc'[q] = (IF q = s THEN to ELSE pc[q])
  BY DEF EvidenceInv, DataInv, LockInv
<1>3. \A q \in Session : CallEvidence(call'[q], pc'[q], db', lastRun', purges')
  BY <1>1, <1>2
<1> QED BY <1>3 DEF EvidenceInv

(* A step that ends a call, begins one or lets time pass. *)
LEMMA ApartEvidence ==
  ASSUME EvidenceInv, DataInv', UNCHANGED <<db, lastRun, purges>>, now <= now',
         \A q \in Session : \/ CallEvidence(call'[q], pc'[q], db, lastRun, purges)
                            \/ call'[q] = call[q] /\ pc'[q] = pc[q]
  PROVE  EvidenceInv'
<1>1. now \in Nat /\ now' \in Nat /\ StoreOK(db, lastRun)
  BY DEF EvidenceInv, DataInv
<1>2. History(db, now')
  BY <1>1, HistoryLater DEF EvidenceInv
<1>3. ASSUME NEW q \in Session PROVE CallEvidence(call'[q], pc'[q], db, lastRun, purges)
  BY DEF EvidenceInv
<1> QED BY <1>2, <1>3 DEF EvidenceInv

(* The statements at which a call owes nothing yet. *)
LEMMA NewEvidence ==
  ASSUME NEW c, c.run = 0, NEW at \in {"idle", "lock", "admit", "purge"}, NEW d, NEW last, NEW P,
         c.purge.status = "AVAILABLE"
  PROVE  CallEvidence(c, at, d, last, P)
<1>1. at \notin OfRun
  BY DEF OfRun, Completion
<1>2. RunPart(c, at, d, last) /\ SourcePart(c, at, d, last)
  BY <1>1 DEF RunPart, SourcePart
<1>3. ReportPart(c, at, d) /\ PurgePart(c, at, d, P)
  BY DEF ReportPart, PurgePart
<1> QED BY <1>2, <1>3 DEF CallEvidence

LEMMA NoCallEvidence ==
  ASSUME NEW d, NEW last, NEW P PROVE CallEvidence(NoCall, "idle", d, last, P)
<1>1. NoCall.run = 0 /\ NoCall.purge.status = "AVAILABLE"
  BY DEF NoCall, NoPurge
<1> QED BY <1>1, NewEvidence

LEMMA InitEvidence == Init => EvidenceInv
<1> SUFFICES ASSUME Init PROVE EvidenceInv
  OBVIOUS
<1>1. DOMAIN db.runs = {} /\ DOMAIN purges = {}
  BY DEF Init, EmptyStore
<1>2. History(db, now) /\ ReceiptsExact(purges)
  BY <1>1 DEF History, ReceiptsExact
<1>3. \A s \in Session : CallEvidence(call[s], pc[s], db, lastRun, purges)
  BY NoCallEvidence DEF Init
<1> QED BY <1>2, <1>3, InitData DEF EvidenceInv

(* The session leaves, whichever way. *)
LEMMA ReturnEvidence ==
  ASSUME EvidenceInv, DataInv', NEW s \in Session, Release(s) \/ Cancel(s) \/ Disconnect(s)
  PROVE  EvidenceInv'
<1>1. /\ UNCHANGED <<now, db, lastRun, purges>>
      /\ pc' = [pc EXCEPT ![s] = "idle"] /\ call' = [call EXCEPT ![s] = NoCall]
  BY DEF Release, Cancel, Disconnect, Return, Goto, Set, StoreKept
<1>2. \A q \in Session : IF q = s THEN call'[q] = NoCall /\ pc'[q] = "idle"
                         ELSE call'[q] = call[q] /\ pc'[q] = pc[q]
  BY <1>1 DEF EvidenceInv, DataInv, LockInv
<1>3. now \in Nat
  BY DEF EvidenceInv, DataInv
<1>4. now <= now'
  BY <1>1, <1>3
<1> QED BY <1>1, <1>2, <1>4, NoCallEvidence, ApartEvidence

LEMMA CallStarts ==
  ASSUME EvidenceInv, DataInv', NEW s \in Session, NEW op, NEW force, Call(s, op, force)
  PROVE  EvidenceInv'
<1> DEFINE c == [NoCall EXCEPT !.op = op, !.force = force]
<1>1. /\ UNCHANGED <<now, db, lastRun, purges>>
      /\ pc' = [pc EXCEPT ![s] = "lock"] /\ call' = [call EXCEPT ![s] = c]
  BY DEF Call, Goto, Set, Quiet, NoWrites, StoreKept
<1>2. c.run = 0 /\ c.purge.status = "AVAILABLE"
  <2>1. NoCall = [op |-> "PURGE", force |-> FALSE, run |-> 0, status |-> "AVAILABLE",
                  src |-> NoSource, purge |-> NoPurge]
    BY DEF NoCall
  <2>2. c.run = 0 /\ c.purge = NoPurge
    BY <2>1
  <2> HIDE DEF c
  <2> QED BY <2>2 DEF NoPurge
<1> HIDE DEF c
<1>3. \A q \in Session : IF q = s THEN call'[q] = c /\ pc'[q] = "lock"
                         ELSE call'[q] = call[q] /\ pc'[q] = pc[q]
  BY <1>1 DEF EvidenceInv, DataInv, LockInv
<1>4. now <= now'
  BY <1>1 DEF EvidenceInv, DataInv
<1>5. CallEvidence(c, "lock", db, lastRun, purges)
  BY <1>2, NewEvidence
<1> QED BY <1>1, <1>3, <1>4, <1>5, ApartEvidence

LEMMA AcquireEvidence ==
  ASSUME EvidenceInv, DataInv', NEW s \in Session, Acquire(s) PROVE EvidenceInv'
<1>1. UNCHANGED <<now, db, lastRun, purges>> /\ now <= now'
  BY DEF Acquire, StoreKept, Quiet, NoWrites, EvidenceInv, DataInv
<1>2. CASE pc' = [pc EXCEPT ![s] = "idle"] /\ call' = [call EXCEPT ![s] = NoCall]
  <2>1. \A q \in Session : IF q = s THEN call'[q] = NoCall /\ pc'[q] = "idle"
                           ELSE call'[q] = call[q] /\ pc'[q] = pc[q]
    BY <1>2 DEF EvidenceInv, DataInv, LockInv
  <2> QED BY <1>1, <2>1, NoCallEvidence, ApartEvidence
<1>3. CASE Goto(s, "lock", First(call[s].op)) /\ UNCHANGED call
  <2>1. PICK to \in {"admit", "purge"} : Goto(s, "lock", to)
    BY <1>3 DEF First
  <2>2. call[s].run = 0
    BY <2>1, OutsideRun DEF Goto, EvidenceInv, BeforeRun
  <2>3. PurgePart(call[s], pc[s], db, purges)
    BY DEF EvidenceInv, CallEvidence
  <2>4. to \notin OfRun
    BY <2>1 DEF OfRun, Completion
  <2>5. CallEvidence(call[s], to, db, lastRun, purges)
    <3>1. RunPart(call[s], to, db, lastRun) /\ SourcePart(call[s], to, db, lastRun)
      BY <2>2, <2>4 DEF RunPart, SourcePart
    <3>2. ReportPart(call[s], to, db)
      BY <2>1 DEF ReportPart
    <3>3. PurgePart(call[s], to, db, purges)
      BY <2>1, <2>3 DEF PurgePart
    <3> QED BY <3>1, <3>2, <3>3 DEF CallEvidence
  <2>6. \A q \in Session : IF q = s THEN call'[q] = call[s] /\ pc'[q] = to
                           ELSE call'[q] = call[q] /\ pc'[q] = pc[q]
    BY <1>3, <2>1 DEF Goto, EvidenceInv, DataInv, LockInv
  <2> QED BY <1>1, <2>5, <2>6, ApartEvidence
<1> QED BY <1>2, <1>3 DEF Acquire, Return, Goto, Set

LEMMA RestartEvidence ==
  ASSUME EvidenceInv, DataInv', Restart \/ Tick PROVE EvidenceInv'
<1>1. now \in Nat
  BY DEF EvidenceInv, DataInv
<1>2. CASE Restart
  <2>1. /\ UNCHANGED <<now, db, lastRun, purges>>
        /\ \A q \in Session : call'[q] = NoCall /\ pc'[q] = "idle"
    BY <1>2 DEF Restart, StoreKept
  <2>2. now <= now'
    BY <1>1, <2>1
  <2> QED BY <2>1, <2>2, NoCallEvidence, ApartEvidence
<1>3. CASE Tick
  <2>1. UNCHANGED <<db, lastRun, purges, pc, call>> /\ now <= now'
    BY <1>1, <1>3 DEF Tick, StoreKept
  <2> QED BY <2>1, ApartEvidence
<1> QED BY <1>2, <1>3
-----------------------------------------------------------------------------
(* The statements that write nothing of the store. *)

(* Only the status of the call changes, and a call that reports a collection *)
(* reported it before.                                                       *)
LEMMA QuietEvidence ==
  ASSUME EvidenceInv, DataInv', NEW s \in Session, NEW from \in Inside, NEW status,
         NEW to \in {"release", "project", "catch", "modulecatch", "purgecatch",
                     "completecatch", "complete", "purge"},
         Goto(s, from, to), Set(s, [call[s] EXCEPT !.status = status]),
         UNCHANGED <<now, db, lastRun, purges>>,
         to \in OfRun => from \in OfRun,
         to = "complete" => from = "read" /\ status \in {"PARTIAL", "ERROR_HANDLED"},
         to \in {"release", "project"} =>
           status \notin Collected \/ (from = "project" /\ status = call[s].status)
  PROVE  EvidenceInv'
<1> DEFINE c == [call[s] EXCEPT !.status = status]
<1>1. /\ CallShape(call[s]) /\ pc[s] = from
      /\ CallEvidence(call[s], from, db, lastRun, purges)
  BY OwnCall DEF EvidenceInv, Goto
<1>2. /\ c.op = call[s].op /\ c.run = call[s].run /\ c.src = call[s].src
      /\ c.purge = call[s].purge /\ c.status = status
  BY <1>1 DEF CallShape
<1>3. pc' = [pc EXCEPT ![s] = to] /\ call' = [call EXCEPT ![s] = c]
  BY DEF Goto, Set
<1> HIDE DEF c
<1>4. CallEvidence(c, to, db, lastRun, purges)
  <2>1. RunPart(c, to, db, lastRun)
    BY <1>1, <1>2 DEF CallEvidence, RunPart
  <2>2. SourcePart(c, to, db, lastRun)
    BY DEF SourcePart
  <2>3. ReportPart(c, to, db)
    BY <1>1, <1>2 DEF CallEvidence, ReportPart
  <2>4. PurgePart(c, to, db, purges)
    BY <1>1, <1>2 DEF CallEvidence, PurgePart
  <2> QED BY <2>1, <2>2, <2>3, <2>4 DEF CallEvidence
<1>5. History(db', now) /\ ReceiptsExact(purges') /\ CallEvidence(c, to, db', lastRun', purges')
  BY <1>4 DEF EvidenceInv
<1> QED BY <1>1, <1>3, <1>5, OwnEvidence

LEMMA Admissions ==
  ASSUME NEW d, NEW c, NEW force, NEW t, NEW enabled, NEW over
  PROVE  /\ Admission(d, c, force, t, enabled, over)
              \in {"DISABLED", "STOPPED_SIZE_BUDGET", "SKIPPED_NOT_DUE", "AVAILABLE"}
         /\ Admission(d, c, force, t, enabled, over) = "AVAILABLE" => force \/ ~NotDue(d, c, t)
  BY DEF Admission

LEMMA AdmitEvidence ==
  ASSUME EvidenceInv, DataInv', NEW s \in Session, Admit(s) PROVE EvidenceInv'
<1>1. UNCHANGED <<now, db, lastRun, purges>> /\ "admit" \in Inside /\ DataInv
  BY DEF Admit, Quiet, NoWrites, StoreKept, Inside, EvidenceInv
<1>2. ASSUME NEW status, status \notin Collected, Finish(s, "admit", status) PROVE EvidenceInv'
  <2>1. "release" \notin OfRun
    BY DEF OfRun, Completion
  <2> QED BY <1>1, <1>2, <2>1, QuietEvidence DEF Finish
<1>3. CASE Goto(s, "admit", "purge") /\ UNCHANGED call
  <2>1. "purge" \notin OfRun
    BY DEF OfRun, Completion
  <2> QED BY <1>1, <1>3, <2>1, UnchangedCall, QuietEvidence
<1>4. {"TARGET_UNAVAILABLE", "INVALID_PARAMETER", "DISABLED", "STOPPED_SIZE_BUDGET",
       "SKIPPED_NOT_DUE"} \intersect Collected = {}
  BY DEF Collected
<1> QED
  <2>1. CASE Finish(s, "admit", "TARGET_UNAVAILABLE") \/ Finish(s, "admit", "INVALID_PARAMETER")
    BY <1>2, <1>4, <2>1
  <2>2. ASSUME NEW enabled \in BOOLEAN,
               LET a == Admission(db, call[s].op, call[s].force, now, enabled, FALSE)
               IN IF a = "AVAILABLE" THEN Goto(s, "admit", "purge") /\ UNCHANGED call
                  ELSE Finish(s, "admit", a)
        PROVE EvidenceInv'
    <3> DEFINE a == Admission(db, call[s].op, call[s].force, now, enabled, FALSE)
    <3>1. a \in {"DISABLED", "STOPPED_SIZE_BUDGET", "SKIPPED_NOT_DUE", "AVAILABLE"}
      BY Admissions
    <3>2. IF a = "AVAILABLE" THEN Goto(s, "admit", "purge") /\ UNCHANGED call ELSE Finish(s, "admit", a)
      BY <2>2
    <3> HIDE DEF a
    <3> QED BY <1>2, <1>3, <1>4, <3>1, <3>2
  <2> QED BY <2>1, <2>2 DEF Admit

LEMMA ReadNativeEvidence ==
  ASSUME EvidenceInv, DataInv', NEW s \in Session, ReadNative(s) PROVE EvidenceInv'
<1>1. UNCHANGED <<now, db, lastRun, purges>> /\ "read" \in Inside /\ "read" \in OfRun
  BY DEF ReadNative, Quiet, NoWrites, StoreKept, Inside, OfRun
<1>2. CASE Finish(s, "read", "TARGET_UNAVAILABLE")
  <2>1. "release" \notin OfRun /\ "TARGET_UNAVAILABLE" \notin Collected
    BY DEF OfRun, Completion, Collected
  <2> QED BY <1>1, <1>2, <2>1, QuietEvidence DEF Finish
<1>3. ASSUME NEW status \in {"PARTIAL", "ERROR_HANDLED"},
             Goto(s, "read", "complete") /\ Set(s, [call[s] EXCEPT !.status = status])
      PROVE  EvidenceInv'
  BY <1>1, <1>3, QuietEvidence
<1> QED BY <1>2, <1>3 DEF ReadNative

LEMMA ProjectEvidence ==
  ASSUME EvidenceInv, DataInv', NEW s \in Session, Project(s) PROVE EvidenceInv'
<1>1. UNCHANGED <<now, db, lastRun, purges>> /\ "project" \in Inside /\ DataInv
  BY DEF Project, Quiet, NoWrites, StoreKept, Inside, EvidenceInv
<1>2. "release" \notin OfRun
  BY DEF OfRun, Completion
<1> QED BY <1>1, <1>2, UnchangedCall, QuietEvidence DEF Project

(* No handler reports what was not collected. *)
LEMMA RaiseEvidence ==
  ASSUME EvidenceInv, DataInv', NEW s \in Session, Raise(s) PROVE EvidenceInv'
<1>1. UNCHANGED <<now, db, lastRun, purges>> /\ pc[s] \in Inside
  BY DEF Raise, StoreKept
<1>2. PICK handler \in Handlers(pc[s]) :
        /\ Goto(s, pc[s], handler)
        /\ Set(s, [call[s] EXCEPT !.status = FailedStatus(call[s], pc[s], handler)])
  BY DEF Raise
<1> DEFINE status == FailedStatus(call[s], pc[s], handler)
<1>3. /\ handler \in {"modulecatch", "purgecatch", "completecatch", "project", "catch", "release"}
      /\ handler = "modulecatch" => pc[s] \in Completion
      /\ handler = "completecatch" => pc[s] = "complete"
      /\ handler = "release" => pc[s] = "catch"
  BY DEF Handlers
<1>4. handler \in OfRun => pc[s] \in OfRun
  BY <1>3 DEF OfRun, Completion
<1>5. handler \in {"release", "project"} => status \notin Collected
  BY <1>3 DEF FailedStatus, CaughtStatus, Collected
<1> HIDE DEF status
<1>6. Set(s, [call[s] EXCEPT !.status = status])
  BY <1>2 DEF status
<1> QED BY <1>1, <1>2, <1>3, <1>4, <1>5, <1>6, QuietEvidence

-----------------------------------------------------------------------------
(* Preparation: a run is opened, or refused. *)
LEMMA PrepareEvidence ==
  ASSUME EvidenceInv, DataInv', NEW s \in Session, Prepare(s) PROVE EvidenceInv'
<1> DEFINE r == lastRun + 1
           op == call[s].op
<1>1. /\ UNCHANGED <<now, purges>> /\ now \in Nat /\ lastRun \in Nat /\ StoreOK(db, lastRun)
      /\ CallShape(call[s]) /\ History(db, now) /\ ReceiptsExact(purges)
      /\ PurgePart(call[s], pc[s], db, purges)
  BY OwnCall DEF Prepare, NoWrites, EvidenceInv, CallEvidence
<1>2. "prepare" \in Inside /\ "prepare" \in BeforeRun
  BY DEF Inside, BeforeRun
<1>3. ASSUME NEW status, status \notin Collected, Finish(s, "prepare", status), UNCHANGED <<db, lastRun>>
      PROVE  EvidenceInv'
  <2>1. "release" \notin OfRun
    BY DEF OfRun, Completion
  <2> QED BY <1>1, <1>2, <1>3, <2>1, QuietEvidence DEF Finish
<1>4. ASSUME NEW a, a \notin Collected \/ a = "AVAILABLE",
             a = "AVAILABLE" => call[s].force \/ ~NotDue(db, op, now),
             db' = AddRun(db, r, OpenedRun(op, a, call[s].force, now)), lastRun' = r,
             Goto(s, "prepare", IF a = "AVAILABLE" THEN "read" ELSE "refused"),
             Set(s, IF a = "AVAILABLE" THEN [call[s] EXCEPT !.run = r] ELSE [call[s] EXCEPT !.status = a])
      PROVE  EvidenceInv'
  <2> HIDE DEF op
  <2>1. /\ History(db', now) /\ Counts(db', r) /\ db'.runs[r].rows = 0
        /\ db'.runs[r].ended = (IF a = "AVAILABLE" THEN None ELSE now)
        /\ db'.runs[r].status = (IF a = "AVAILABLE" THEN "RUNNING" ELSE a)
    BY <1>1, <1>4, HistoryOpened
  <2>2. call[s].run = 0 /\ pc[s] = "prepare"
    BY <1>2, <1>4, OutsideRun DEF Goto, EvidenceInv
  <2>3. CASE a = "AVAILABLE"
    <3> DEFINE c == [call[s] EXCEPT !.run = r]
    <3>1. c.run = r /\ c.purge = call[s].purge
      BY <1>1 DEF CallShape
    <3>2. pc' = [pc EXCEPT ![s] = "read"] /\ call' = [call EXCEPT ![s] = c]
      BY <1>4, <2>3 DEF Goto, Set
    <3> HIDE DEF c
    <3>3. CallEvidence(c, "read", db', lastRun', purges')
      <4>1. RunPart(c, "read", db', lastRun')
        BY <1>4, <2>1, <2>3, <3>1 DEF RunPart
      <4>2. SourcePart(c, "read", db', lastRun') /\ ReportPart(c, "read", db')
        BY DEF SourcePart, ReportPart
      <4>3. PurgePart(c, "read", db', purges')
        BY <1>1, <3>1 DEF PurgePart
      <4> QED BY <4>1, <4>2, <4>3 DEF CallEvidence
    <3> QED BY <1>1, <1>2, <2>1, <2>2, <3>2, <3>3, OwnEvidence
  <2>4. CASE a # "AVAILABLE"
    <3> DEFINE c == [call[s] EXCEPT !.status = a]
    <3>1. c.run = 0 /\ c.purge = call[s].purge /\ c.status = a
      BY <1>1, <2>2 DEF CallShape
    <3>2. pc' = [pc EXCEPT ![s] = "refused"] /\ call' = [call EXCEPT ![s] = c]
      BY <1>4, <2>4 DEF Goto, Set
    <3> HIDE DEF c
    <3>3. CallEvidence(c, "refused", db', lastRun', purges')
      <4>1. RunPart(c, "refused", db', lastRun')
        BY <1>4, <2>1, <3>1 DEF RunPart, OfRun, Completion
      <4>2. SourcePart(c, "refused", db', lastRun') /\ ReportPart(c, "refused", db')
        BY <1>4, <2>4, <3>1 DEF SourcePart, ReportPart
      <4>3. PurgePart(c, "refused", db', purges')
        BY <1>1, <3>1 DEF PurgePart
      <4> QED BY <4>1, <4>2, <4>3 DEF CallEvidence
    <3> QED BY <1>1, <1>2, <2>1, <2>2, <3>2, <3>3, OwnEvidence
  <2> QED BY <2>3, <2>4
<1>5. {"TARGET_UNAVAILABLE", "DISABLED", "STOPPED_SIZE_BUDGET", "SKIPPED_NOT_DUE"} \intersect Collected = {}
  BY DEF Collected
<1> QED
  <2>1. CASE Finish(s, "prepare", "TARGET_UNAVAILABLE") /\ UNCHANGED <<db, lastRun>>
    BY <1>3, <1>5, <2>1
  <2>2. ASSUME NEW enabled \in BOOLEAN, NEW over \in BOOLEAN,
               LET a == Admission(db, op, call[s].force, now, enabled, over) IN
               IF a # "AVAILABLE" /\ op \in Native
               THEN Finish(s, "prepare", a) /\ UNCHANGED <<db, lastRun>>
               ELSE /\ db' = AddRun(db, r, OpenedRun(op, a, call[s].force, now))
                    /\ lastRun' = r
                    /\ Goto(s, "prepare", IF a = "AVAILABLE" THEN "read" ELSE "refused")
                    /\ Set(s, IF a = "AVAILABLE" THEN [call[s] EXCEPT !.run = r]
                              ELSE [call[s] EXCEPT !.status = a])
        PROVE  EvidenceInv'
    <3> DEFINE a == Admission(db, op, call[s].force, now, enabled, over)
    <3>1. /\ a \in {"DISABLED", "STOPPED_SIZE_BUDGET", "SKIPPED_NOT_DUE", "AVAILABLE"}
          /\ a = "AVAILABLE" => call[s].force \/ ~NotDue(db, op, now)
      BY Admissions
    <3>2. IF a # "AVAILABLE" /\ op \in Native
          THEN Finish(s, "prepare", a) /\ UNCHANGED <<db, lastRun>>
          ELSE /\ db' = AddRun(db, r, OpenedRun(op, a, call[s].force, now))
               /\ lastRun' = r
               /\ Goto(s, "prepare", IF a = "AVAILABLE" THEN "read" ELSE "refused")
               /\ Set(s, IF a = "AVAILABLE" THEN [call[s] EXCEPT !.run = r]
                         ELSE [call[s] EXCEPT !.status = a])
      BY <2>2
    <3> HIDE DEF a, op, r
    <3>3. a \notin Collected \/ a = "AVAILABLE"
      BY <1>5, <3>1
    <3>4. CASE a # "AVAILABLE" /\ op \in Native
      BY <1>3, <3>2, <3>3, <3>4
    <3>5. CASE ~(a # "AVAILABLE" /\ op \in Native)
      BY <1>4, <3>1, <3>2, <3>3, <3>5
    <3> QED BY <3>4, <3>5
  <2> QED BY <2>1, <2>2 DEF Prepare

(* A status of the module is no evidence of the run. *)
SameEvidence(d, e) == e.runs = d.runs /\ e.samples = d.samples

LEMMA SameHistory ==
  ASSUME NEW d, NEW e, SameEvidence(d, e), NEW t, History(d, t)
  PROVE  History(e, t) /\ \A r : SamplesOf(e, r) = SamplesOf(d, r)
<1>1. \A r : SamplesOf(e, r) = SamplesOf(d, r)
  BY DEF SameEvidence, SamplesOf
<1>2. \A r : Measured(d, r) => Measured(e, r)
  BY <1>1 DEF SameEvidence, Measured
<1>3. \A c : Counted(e, c) = Counted(d, c)
  BY DEF SameEvidence, Counted
<1> QED BY <1>1, <1>2, <1>3 DEF History, SameEvidence, SameEpoch, Due

LEMMA AddModulesSame ==
  ASSUME NEW d, NEW last, StoreOK(d, last), NEW r, NEW n PROVE SameEvidence(d, AddModules(d, r, n))
<1> DEFINE M == {[run |-> r, row |-> i] : i \in 1..n}
           e == AddModules(d, r, n)
<1>1. e = [d EXCEPT !.modules = @ \union M]
  BY DEF AddModules
<1> HIDE DEF M, e
<1>2. e = [runs |-> d.runs, samples |-> d.samples, payloads |-> d.payloads,
           modules |-> d.modules \union M, scopes |-> d.scopes]
  BY <1>1 DEF StoreOK
<1>3. SameEvidence(d, e)
  BY <1>2 DEF SameEvidence
<1> QED BY <1>3 DEF e

LEMMA AddPayloadSame ==
  ASSUME NEW d, NEW last, StoreOK(d, last), NEW r, NEW t PROVE SameEvidence(d, AddPayload(d, r, t))
<1> DEFINE M == {[run |-> r, at |-> t]}
           e == AddPayload(d, r, t)
<1>1. e = [d EXCEPT !.payloads = @ \union M]
  BY DEF AddPayload
<1> HIDE DEF M, e
<1>2. e = [runs |-> d.runs, samples |-> d.samples, payloads |-> d.payloads \union M,
           modules |-> d.modules, scopes |-> d.scopes]
  BY <1>1 DEF StoreOK
<1>3. SameEvidence(d, e)
  BY <1>2 DEF SameEvidence
<1> QED BY <1>3 DEF e

(* The caller learns of its refused run. *)
LEMMA RefusedEvidence ==
  ASSUME EvidenceInv, DataInv', NEW s \in Session, RefusedModule(s) PROVE EvidenceInv'
<1> DEFINE c == [call[s] EXCEPT !.run = lastRun]
<1>1. /\ UNCHANGED <<now, lastRun, purges>> /\ pc[s] = "refused" /\ CallShape(call[s])
      /\ StoreOK(db, lastRun) /\ db' = AddModules(db, lastRun, 1) /\ "refused" \in Inside
      /\ CallEvidence(call[s], "refused", db, lastRun, purges)
  BY OwnCall DEF RefusedModule, NoWrites, Goto, EvidenceInv, Inside
<1>2. c.run = lastRun /\ c.purge = call[s].purge /\ c.status = call[s].status
  BY <1>1 DEF CallShape
<1>3. pc' = [pc EXCEPT ![s] = "project"] /\ call' = [call EXCEPT ![s] = c]
  BY DEF RefusedModule, Goto, Set
<1> HIDE DEF c
<1>4. SameEvidence(db, db')
  BY <1>1, AddModulesSame
<1>5. History(db', now) /\ \A r : SamplesOf(db', r) = SamplesOf(db, r)
  BY <1>4, SameHistory DEF EvidenceInv
<1>6. CallEvidence(c, "project", db', lastRun', purges')
  <2>1. RunPart(c, "project", db', lastRun')
    BY <1>1, <1>2, <1>4, <1>5 DEF CallEvidence, RunPart, Counts, SameEvidence, OfRun, Completion
  <2>2. SourcePart(c, "project", db', lastRun') /\ ReportPart(c, "project", db')
    BY <1>1, <1>2 DEF CallEvidence, SourcePart, ReportPart
  <2>3. PurgePart(c, "project", db', purges')
    BY <1>1, <1>2 DEF CallEvidence, PurgePart
  <2> QED BY <2>1, <2>2, <2>3 DEF CallEvidence
<1>7. ReceiptsExact(purges')
  BY <1>1 DEF EvidenceInv
<1> QED BY <1>1, <1>3, <1>5, <1>6, <1>7, OwnEvidence
-----------------------------------------------------------------------------
(* The statements that write evidence of the last run. *)

(* What a call that has a run relies on. *)
LEMMA OwnHistory ==
  ASSUME EvidenceInv, NEW s \in Session, pc[s] \in OfRun
  PROVE  /\ call[s].run = lastRun /\ lastRun \in DOMAIN db.runs /\ lastRun \in 1..lastRun
         /\ RowOK(db.runs[lastRun]) /\ RunHistory(db.runs[lastRun], now)
         /\ Counts(db, lastRun) /\ IsFiniteSet(SamplesOf(db, lastRun))
         /\ db.runs[lastRun].ended = None /\ db.runs[lastRun].status = "RUNNING"
         /\ IsFiniteSet(call[s].src.rows) /\ StoreOK(db, lastRun) /\ now \in Nat /\ lastRun \in Nat
         /\ CallShape(call[s]) /\ CallEvidence(call[s], pc[s], db, lastRun, purges)
         /\ History(db, now)
<1>1. call[s].run \in DOMAIN db.runs /\ IsFiniteSet(call[s].src.rows) /\ RowOK(db.runs[call[s].run])
  BY OwnRun DEF EvidenceInv
<1>2. /\ StoreOK(db, lastRun) /\ now \in Nat /\ lastRun \in Nat /\ CallShape(call[s])
      /\ CallEvidence(call[s], pc[s], db, lastRun, purges) /\ History(db, now)
  BY OwnCall DEF EvidenceInv
<1>3. RunPart(call[s], pc[s], db, lastRun)
  BY <1>2 DEF CallEvidence
<1>4. call[s].run # 0
  BY <1>1, <1>2 DEF StoreOK
<1>5. call[s].run = lastRun /\ Counts(db, lastRun)
  BY <1>3, <1>4 DEF RunPart
<1>6. IsFiniteSet(SamplesOf(db, lastRun))
  <2>1. SamplesOf(db, lastRun) \in SUBSET db.samples
    BY DEF SamplesOf
  <2> QED BY <1>2, <2>1, FS_Subset DEF StoreOK
<1>7. db.runs[lastRun].ended = None /\ db.runs[lastRun].status = "RUNNING"
  BY <1>3 DEF RunPart
<1>8. RunHistory(db.runs[lastRun], now) /\ lastRun \in 1..lastRun
  BY <1>1, <1>2, <1>5 DEF History, StoreOK
<1> QED BY <1>1, <1>2, <1>5, <1>6, <1>7, <1>8

(* A step of a call that has a run. *)
LEMMA RunEvidence ==
  ASSUME EvidenceInv, DataInv', NEW s \in Session, NEW from \in OfRun \union {"catch"},
         NEW to \in OfRun \union {"project", "release"}, NEW c,
         Goto(s, from, to), Set(s, c), UNCHANGED <<now, lastRun, purges>>,
         c.purge = call[s].purge,
         History(db', now), RunPart(c, to, db', lastRun),
         SourcePart(c, to, db', lastRun), ReportPart(c, to, db')
  PROVE  EvidenceInv'
<1>1. /\ from \in Inside /\ pc[s] = from /\ pc' = [pc EXCEPT ![s] = to]
      /\ call' = [call EXCEPT ![s] = c]
  BY DEF Inside, OfRun, Goto, Set
<1>2. to \notin {"batch", "close", "purged"}
  BY DEF OfRun, Completion
<1>3. PurgePart(call[s], pc[s], db, purges)
  BY DEF EvidenceInv, CallEvidence
<1>4. PurgePart(c, to, db', purges')
  BY <1>2, <1>3 DEF PurgePart
<1>5. ReceiptsExact(purges') /\ CallEvidence(c, to, db', lastRun', purges')
  BY <1>4 DEF EvidenceInv, CallEvidence
<1> QED BY <1>1, <1>5, OwnEvidence

(* The row of the last run is replaced. *)
LEMMA RowTouched ==
  ASSUME NEW d, NEW last, StoreOK(d, last), last \in DOMAIN d.runs, NEW row, NEW e,
         e = [d EXCEPT !.runs = [@ EXCEPT ![last] = row]],
         row.collector = d.runs[last].collector, row.started = d.runs[last].started,
         row.forced = d.runs[last].forced
  PROVE  /\ Touches(d, e, last) /\ e.runs[last] = row
         /\ \A r : SamplesOf(e, r) = SamplesOf(d, r)
<1>1. e = [runs |-> [d.runs EXCEPT ![last] = row], samples |-> d.samples, payloads |-> d.payloads,
           modules |-> d.modules, scopes |-> d.scopes]
  BY DEF StoreOK
<1>2. \A r : SamplesOf(e, r) = SamplesOf(d, r)
  BY <1>1 DEF SamplesOf
<1> QED BY <1>1, <1>2 DEF Touches

(* The call after the read of the source. *)
LEMMA ReadCountersEvidence ==
  ASSUME EvidenceInv, DataInv', NEW s \in Session, ReadCounters(s) PROVE EvidenceInv'
<1> DEFINE r == call[s].run
           old == db.runs[lastRun]
<1>1. /\ UNCHANGED <<now, lastRun, purges>> /\ pc[s] = "read" /\ "read" \in OfRun
      /\ "scopes" \in OfRun /\ "module" \in OfRun
  BY DEF ReadCounters, NoWrites, Goto, OfRun, Completion
<1>2. /\ r = lastRun /\ lastRun \in DOMAIN db.runs /\ RowOK(old) /\ RunHistory(old, now)
      /\ Counts(db, lastRun) /\ old.ended = None /\ old.status = "RUNNING"
      /\ StoreOK(db, lastRun) /\ CallShape(call[s]) /\ lastRun \in Nat /\ History(db, now)
      /\ CallEvidence(call[s], "read", db, lastRun, purges)
  BY <1>1, OwnHistory
<1>3. old.rows = 0
  BY <1>2 DEF CallEvidence, RunPart
<1>4. ASSUME NEW rows \in SUBSET Counter, NEW status, Goto(s, "read", "scopes"),
             Set(s, [call[s] EXCEPT !.status = status,
                                    !.src = [NoSource EXCEPT !.rows = rows, !.start = start]]),
             db' = [db EXCEPT !.runs[r].expected = 2 * Cardinality(rows)]
      PROVE  EvidenceInv'
  <2> DEFINE x == [NoSource EXCEPT !.rows = rows, !.start = start]
             c == [call[s] EXCEPT !.status = status, !.src = x]
             n == 2 * Cardinality(rows)
             row == [old EXCEPT !.expected = n]
  <2>1. x.rows = rows
    <3> DEFINE y == [NoSource EXCEPT !.rows = rows]
    <3>1. y = [rows |-> rows, start |-> None, epoch |-> None, at |-> None]
      BY DEF NoSource
    <3>2. x = [y EXCEPT !.start = start]
      OBVIOUS
    <3> HIDE DEF x, y
    <3> QED BY <3>1, <3>2
  <2>2. c.run = lastRun /\ c.src = x /\ c.purge = call[s].purge
    <3> DEFINE b == [call[s] EXCEPT !.status = status]
    <3>1. b = [op |-> call[s].op, force |-> call[s].force, run |-> call[s].run, status |-> status,
               src |-> call[s].src, purge |-> call[s].purge]
      BY <1>2 DEF CallShape
    <3>2. c = [b EXCEPT !.src = x]
      <4> HIDE DEF x
      <4> QED OBVIOUS
    <3> HIDE DEF b, c, x
    <3> QED BY <1>2, <3>1, <3>2
  <2>3. Set(s, c)
    BY <1>4
  <2>4. row = [collector |-> old.collector, started |-> old.started, ended |-> old.ended,
               status |-> old.status, count |-> old.count, start |-> old.start,
               epoch |-> old.epoch, forced |-> old.forced, rows |-> old.rows, expected |-> n]
    <3> HIDE DEF n
    <3> QED BY <1>2 DEF RowOK
  <2>5. db' = [db EXCEPT !.runs = [@ EXCEPT ![lastRun] = row]]
    <3> HIDE DEF n
    <3>1. db' = [db EXCEPT !.runs[lastRun].expected = n]
      BY <1>2, <1>4 DEF n
    <3> QED BY <1>2, <3>1
  <2> HIDE DEF c, x, row, n
  <2>6. /\ Touches(db, db', lastRun) /\ db'.runs[lastRun] = row
        /\ \A q : SamplesOf(db', q) = SamplesOf(db, q)
    BY <1>2, <2>4, <2>5, RowTouched
  <2>7. RunHistory(row, now) /\ row.status # "AVAILABLE" /\ (Collects(row) => Collects(old))
    BY <1>2, <2>4 DEF RunHistory, Collects
  <2>8. History(db', now)
    BY <1>2, <2>4, <2>6, <2>7, HistoryTouched
  <2>9. RunPart(c, "scopes", db', lastRun)
    <3>1. SamplesOf(db', lastRun) = SamplesOf(db, lastRun)
      BY <2>6
    <3>2. /\ db'.runs[lastRun].rows = old.rows /\ db'.runs[lastRun].ended = None
          /\ db'.runs[lastRun].status = "RUNNING"
      BY <1>2, <2>4, <2>6
    <3>3. Counts(db', lastRun)
      BY <1>2, <3>1, <3>2 DEF Counts
    <3> QED BY <1>3, <2>2, <3>2, <3>3 DEF RunPart
  <2>10. SourcePart(c, "scopes", db', lastRun) /\ ReportPart(c, "scopes", db')
    BY <2>1, <2>2, <2>4, <2>6 DEF SourcePart, ReportPart, n
  <2> QED BY <1>1, <1>4, <2>2, <2>3, <2>8, <2>9, <2>10, RunEvidence
<1>5. ASSUME Goto(s, "read", "module"), Set(s, [call[s] EXCEPT !.status = "ERROR_HANDLED"]), UNCHANGED db
      PROVE  EvidenceInv'
  <2> DEFINE c == [call[s] EXCEPT !.status = "ERROR_HANDLED"]
  <2>1. c.run = lastRun /\ c.purge = call[s].purge /\ c.status = "ERROR_HANDLED"
    BY <1>2 DEF CallShape
  <2> HIDE DEF c
  <2>2. Set(s, c)
    BY <1>5 DEF c
  <2>3. RunPart(c, "module", db', lastRun)
    BY <1>2, <1>5, <2>1 DEF RunPart
  <2>4. SourcePart(c, "module", db', lastRun) /\ ReportPart(c, "module", db') /\ History(db', now)
    BY <1>2, <1>5, <2>1 DEF SourcePart, ReportPart
  <2> QED BY <1>1, <1>5, <2>1, <2>2, <2>3, <2>4, RunEvidence
<1> QED BY <1>4, <1>5 DEF ReadCounters

(* The scopes of the read, and the epoch the samples will be in. *)
LEMMA CounterScopesEvidence ==
  ASSUME EvidenceInv, DataInv', NEW s \in Session, CounterScopes(s) PROVE EvidenceInv'
<1> DEFINE K == call[s].src.rows
           e == EpochFor(db, call[s].run, call[s].src.start)
           x == [call[s].src EXCEPT !.epoch = e, !.at = now]
           c == [call[s] EXCEPT !.src = x]
<1>1. /\ UNCHANGED <<now, lastRun, purges>> /\ Goto(s, "scopes", "raw") /\ pc[s] = "scopes"
      /\ db' = [db EXCEPT !.scopes = @ \union K] /\ "scopes" \in OfRun /\ "raw" \in OfRun
  BY DEF CounterScopes, NoWrites, Goto, OfRun, Completion
<1>2. /\ call[s].run = lastRun /\ lastRun \in 1..lastRun /\ Counts(db, lastRun)
      /\ db.runs[lastRun].ended = None /\ db.runs[lastRun].status = "RUNNING"
      /\ StoreOK(db, lastRun) /\ CallShape(call[s]) /\ lastRun \in Nat /\ History(db, now)
      /\ CallEvidence(call[s], "scopes", db, lastRun, purges)
  BY <1>1, OwnHistory
<1>3. SameEvidence(db, db')
  <2> HIDE DEF K
  <2>1. db' = [runs |-> db.runs, samples |-> db.samples, payloads |-> db.payloads,
               modules |-> db.modules, scopes |-> db.scopes \union K]
    BY <1>1, <1>2 DEF StoreOK
  <2> QED BY <2>1 DEF SameEvidence
<1>4. History(db', now) /\ \A r : SamplesOf(db', r) = SamplesOf(db, r)
  BY <1>2, <1>3, SameHistory
<1>5. x = [rows |-> K, start |-> call[s].src.start, epoch |-> e, at |-> now]
  <2> DEFINE old == call[s].src
             y == [old EXCEPT !.epoch = e]
  <2>1. old = [rows |-> old.rows, start |-> old.start, epoch |-> old.epoch, at |-> old.at]
    BY <1>2 DEF CallShape
  <2>2. x = [y EXCEPT !.at = now]
    OBVIOUS
  <2>3. y = [rows |-> old.rows, start |-> old.start, epoch |-> e, at |-> old.at]
    <3> HIDE DEF e, old
    <3> QED BY <2>1
  <2> HIDE DEF y, e, x
  <2> QED BY <2>2, <2>3
<1>6. e # None /\ SameEpoch(db, call[s].src.start, e)
  BY <1>2, EpochForOK
<1>7. Set(s, c)
  BY DEF CounterScopes
<1>8. c.run = lastRun /\ c.purge = call[s].purge /\ c.src = x
  <2> HIDE DEF x
  <2> QED BY <1>2 DEF CallShape
<1> HIDE DEF x, e, c
<1>9. RunPart(c, "raw", db', lastRun)
  BY <1>2, <1>3, <1>4, <1>8 DEF CallEvidence, RunPart, Counts, SameEvidence
<1>10. SameEpoch(db', call[s].src.start, e)
  BY <1>3, <1>6 DEF SameEpoch, SameEvidence
<1>11. SourcePart(c, "raw", db', lastRun) /\ ReportPart(c, "raw", db')
  BY <1>2, <1>3, <1>5, <1>6, <1>8, <1>10 DEF CallEvidence, SourcePart, ReportPart, SameEvidence
<1> QED BY <1>1, <1>4, <1>7, <1>8, <1>9, <1>11, RunEvidence

(* New samples of the last run are counted. *)
LEMMA SamplesTouched ==
  ASSUME NEW d, NEW last \in Nat, StoreOK(d, last), last \in DOMAIN d.runs, NEW S, IsFiniteSet(S),
         \A x \in S : x.run = last, S \intersect SamplesOf(d, last) = {},
         Counts(d, last), NEW e, e = AddSamples(d, last, S)
  PROVE  /\ Touches(d, e, last) /\ Counts(e, last)
         /\ SamplesOf(e, last) = SamplesOf(d, last) \union S
         /\ e.runs[last].rows = d.runs[last].rows + Cardinality(S)
         /\ e.runs[last].ended = d.runs[last].ended /\ e.runs[last].status = d.runs[last].status
         /\ e.runs[last].count = d.runs[last].count
         /\ e.runs[last].start = d.runs[last].start /\ e.runs[last].epoch = d.runs[last].epoch
         /\ e.runs[last].expected = d.runs[last].expected
         /\ \A q \in DOMAIN d.runs : e.runs[q].start = d.runs[q].start /\ e.runs[q].epoch = d.runs[q].epoch
<1> DEFINE old == d.runs[last]
           row == [collector |-> old.collector, started |-> old.started, ended |-> old.ended,
                   status |-> old.status, count |-> old.count, start |-> old.start,
                   epoch |-> old.epoch, forced |-> old.forced,
                   rows |-> old.rows + Cardinality(S), expected |-> old.expected]
<1>1. e = [runs |-> [d.runs EXCEPT ![last] = row], samples |-> d.samples \union S,
           payloads |-> d.payloads, modules |-> d.modules, scopes |-> d.scopes]
  BY AddSamplesRow
<1>2. /\ row.collector = old.collector /\ row.started = old.started /\ row.ended = old.ended
      /\ row.status = old.status /\ row.count = old.count /\ row.start = old.start
      /\ row.epoch = old.epoch /\ row.forced = old.forced /\ row.expected = old.expected
      /\ row.rows = old.rows + Cardinality(S)
  OBVIOUS
<1> HIDE DEF row
<1>3. /\ DOMAIN e.runs = DOMAIN d.runs /\ e.runs[last] = row /\ e.samples = d.samples \union S
      /\ \A q \in DOMAIN d.runs : q # last => e.runs[q] = d.runs[q]
  BY <1>1
<1>4. SamplesOf(e, last) = SamplesOf(d, last) \union S
  BY <1>3 DEF SamplesOf
<1>5. \A q : q # last => SamplesOf(e, q) = SamplesOf(d, q)
  BY <1>3 DEF SamplesOf
<1>6. Touches(d, e, last)
  BY <1>2, <1>3, <1>5 DEF Touches
<1>7. Counts(e, last)
  <2>1. SamplesOf(d, last) \in SUBSET d.samples
    BY DEF SamplesOf
  <2>2. IsFiniteSet(SamplesOf(d, last))
    BY <2>1, FS_Subset DEF StoreOK
  <2>3. Cardinality(SamplesOf(d, last) \union S)
          = Cardinality(SamplesOf(d, last)) + Cardinality(S) - Cardinality({})
    <3>1. SamplesOf(d, last) \intersect S = {}
      OBVIOUS
    <3> QED BY <2>2, <3>1, FS_Union
  <2>4. Cardinality({}) = 0 /\ Cardinality(S) \in Nat /\ Cardinality(SamplesOf(d, last)) \in Nat
    BY <2>2, FS_EmptySet, FS_CardinalityType
  <2> QED BY <1>2, <1>3, <1>4, <2>3, <2>4 DEF Counts
<1> QED BY <1>2, <1>3, <1>4, <1>6, <1>7

LEMMA SamplesHistory ==
  ASSUME NEW d, NEW last \in Nat, StoreOK(d, last), NEW t, History(d, t), NEW e, Touches(d, e, last),
         e.runs[last].rows \in Nat, e.runs[last].ended = None, d.runs[last].ended = None,
         e.runs[last].status # "AVAILABLE",
         e.runs[last].start = d.runs[last].start, e.runs[last].epoch = d.runs[last].epoch
  PROVE  History(e, t)
<1>1. RunHistory(d.runs[last], t)
  BY DEF History, Touches
<1>2. RunHistory(e.runs[last], t)
  BY <1>1 DEF RunHistory, Touches
<1>3. Collects(d.runs[last])
  BY DEF Collects
<1> QED BY <1>2, <1>3, HistoryTouched

(* The samples of one metric, one for each counter of the read. *)
MetricSamples(c, metric) ==
  {[run |-> c.run, scope |-> k, metric |-> metric, at |-> c.src.at, epoch |-> c.src.epoch]
     : k \in c.src.rows}

LEMMA MetricSamplesOf ==
  ASSUME NEW c, IsFiniteSet(c.src.rows), NEW metric
  PROVE  LET S == MetricSamples(c, metric)
         IN /\ IsFiniteSet(S) /\ Cardinality(S) = Cardinality(c.src.rows)
            /\ \A x \in S : x.run = c.run /\ x.metric = metric /\ x.epoch = c.src.epoch
<1> DEFINE K == c.src.rows
           f == [k \in K |-> [run |-> c.run, scope |-> k, metric |-> metric, at |-> c.src.at,
                              epoch |-> c.src.epoch]]
           S == MetricSamples(c, metric)
<1>1. f \in Bijection(K, S)
  <2>1. f \in Surjection(K, S)
    BY DEF MetricSamples, Surjection
  <2>2. \A k \in K : f[k].scope = k
    OBVIOUS
  <2>3. f \in Injection(K, S)
    <3>1. \A k, l \in K : f[k] = f[l] => k = l
      BY <2>2
    <3>2. f \in [K -> S]
      BY DEF MetricSamples
    <3> HIDE DEF f, S, K
    <3> QED BY <3>1, <3>2 DEF Injection, IsInjective
  <2> HIDE DEF f, S, K
  <2> QED BY <2>1, <2>3 DEF Bijection
<1>2. ExistsBijection(K, S)
  BY <1>1 DEF ExistsBijection
<1>3. IsFiniteSet(S) /\ Cardinality(S) = Cardinality(K)
  <2> HIDE DEF S, K
  <2>1. IsFiniteSet(K)
    BY DEF K
  <2> QED BY <1>2, <2>1, FS_Bijection
<1>4. \A x \in S : x.run = c.run /\ x.metric = metric /\ x.epoch = c.src.epoch
  BY DEF MetricSamples
<1> QED BY <1>3, <1>4

LEMMA CounterRawEvidence ==
  ASSUME EvidenceInv, DataInv', NEW s \in Session, CounterRaw(s) PROVE EvidenceInv'
<1> DEFINE c == call[s]
           S == MetricSamples(c, "RAW")
           old == db.runs[lastRun]
<1>1. /\ UNCHANGED <<now, lastRun, purges, call>> /\ Goto(s, "raw", "interpreted") /\ pc[s] = "raw"
      /\ db' = AddSamples(db, c.run, S) /\ "raw" \in OfRun /\ "interpreted" \in OfRun
  BY DEF CounterRaw, Written, CounterSamples, MetricSamples, NoWrites, Goto, OfRun, Completion
<1>2. /\ c.run = lastRun /\ lastRun \in DOMAIN db.runs /\ Counts(db, lastRun) /\ RunHistory(old, now)
      /\ IsFiniteSet(SamplesOf(db, lastRun)) /\ IsFiniteSet(c.src.rows)
      /\ old.ended = None /\ old.status = "RUNNING"
      /\ StoreOK(db, lastRun) /\ lastRun \in Nat /\ History(db, now)
      /\ RunPart(c, "raw", db, lastRun) /\ SourcePart(c, "raw", db, lastRun)
  BY <1>1, OwnHistory DEF CallEvidence
<1>3. /\ IsFiniteSet(S) /\ Cardinality(S) = Cardinality(c.src.rows)
      /\ \A x \in S : x.run = c.run /\ x.metric = "RAW" /\ x.epoch = c.src.epoch
  BY <1>2, MetricSamplesOf
<1>4. old.rows = 0 /\ SamplesOf(db, lastRun) = {}
  <2>1. old.rows = 0
    BY <1>2 DEF RunPart
  <2> QED BY <1>2, <2>1, FS_EmptySet DEF Counts
<1>5. Set(s, c)
  BY <1>1, OwnCall, UnchangedCall DEF EvidenceInv
<1> HIDE DEF S, c
<1>6. /\ Touches(db, db', lastRun) /\ Counts(db', lastRun) /\ SamplesOf(db', lastRun) = S
      /\ db'.runs[lastRun].rows = old.rows + Cardinality(S)
      /\ db'.runs[lastRun].ended = old.ended /\ db'.runs[lastRun].status = old.status
      /\ db'.runs[lastRun].start = old.start /\ db'.runs[lastRun].epoch = old.epoch
      /\ db'.runs[lastRun].expected = old.expected
      /\ \A q \in DOMAIN db.runs : db'.runs[q].start = db.runs[q].start /\ db'.runs[q].epoch = db.runs[q].epoch
  <2>1. S \intersect SamplesOf(db, lastRun) = {}
    BY <1>4
  <2>2. db' = AddSamples(db, lastRun, S) /\ \A x \in S : x.run = lastRun
    BY <1>1, <1>2, <1>3
  <2>3. /\ Touches(db, db', lastRun) /\ Counts(db', lastRun)
        /\ SamplesOf(db', lastRun) = SamplesOf(db, lastRun) \union S
        /\ db'.runs[lastRun].rows = old.rows + Cardinality(S)
        /\ db'.runs[lastRun].ended = old.ended /\ db'.runs[lastRun].status = old.status
        /\ db'.runs[lastRun].start = old.start /\ db'.runs[lastRun].epoch = old.epoch
        /\ db'.runs[lastRun].expected = old.expected
        /\ \A q \in DOMAIN db.runs : db'.runs[q].start = db.runs[q].start /\ db'.runs[q].epoch = db.runs[q].epoch
    BY <1>2, <1>3, <2>1, <2>2, SamplesTouched
  <2>4. SamplesOf(db', lastRun) = S
    BY <1>4, <2>3
  <2> QED BY <2>3, <2>4
<1>7. Cardinality(S) \in Nat
  BY <1>3, FS_CardinalityType
<1>8. History(db', now)
  BY <1>2, <1>4, <1>6, <1>7, SamplesHistory
<1>9. RunPart(c, "interpreted", db', lastRun)
  BY <1>2, <1>6 DEF RunPart
<1>10. SameEpoch(db', c.src.start, c.src.epoch)
  BY <1>2, <1>6 DEF SourcePart, SameEpoch, Touches
<1>11. SourcePart(c, "interpreted", db', lastRun)
  <2>1. /\ old.expected = 2 * Cardinality(c.src.rows) /\ c.src.epoch # None
    BY <1>2 DEF SourcePart
  <2>2. db'.runs[lastRun].rows = Cardinality(c.src.rows)
    BY <1>3, <1>4, <1>6, <1>7
  <2> QED BY <1>3, <1>6, <1>10, <2>1, <2>2 DEF SourcePart
<1>12. ReportPart(c, "interpreted", db')
  BY DEF ReportPart
<1> QED BY <1>1, <1>5, <1>8, <1>9, <1>11, <1>12, RunEvidence DEF c

LEMMA CounterInterpretedEvidence ==
  ASSUME EvidenceInv, DataInv', NEW s \in Session, CounterInterpreted(s) PROVE EvidenceInv'
<1> DEFINE c == call[s]
           S == MetricSamples(c, "INTERPRETED")
           old == db.runs[lastRun]
<1>1. /\ UNCHANGED <<now, lastRun, purges, call>> /\ Goto(s, "interpreted", "payload")
      /\ pc[s] = "interpreted"
      /\ db' = AddSamples(db, c.run, S) /\ "interpreted" \in OfRun /\ "payload" \in OfRun
  BY DEF CounterInterpreted, Written, CounterSamples, MetricSamples, NoWrites, Goto, OfRun, Completion
<1>2. /\ c.run = lastRun /\ lastRun \in DOMAIN db.runs /\ Counts(db, lastRun) /\ RunHistory(old, now)
      /\ IsFiniteSet(SamplesOf(db, lastRun)) /\ IsFiniteSet(c.src.rows)
      /\ old.ended = None /\ old.status = "RUNNING"
      /\ StoreOK(db, lastRun) /\ lastRun \in Nat /\ History(db, now)
      /\ RunPart(c, "interpreted", db, lastRun) /\ SourcePart(c, "interpreted", db, lastRun)
  BY <1>1, OwnHistory DEF CallEvidence
<1>3. /\ IsFiniteSet(S) /\ Cardinality(S) = Cardinality(c.src.rows)
      /\ \A x \in S : x.run = c.run /\ x.metric = "INTERPRETED" /\ x.epoch = c.src.epoch
  BY <1>2, MetricSamplesOf
<1>4. /\ old.rows = Cardinality(c.src.rows) /\ old.expected = 2 * Cardinality(c.src.rows)
      /\ \A x \in SamplesOf(db, lastRun) : x.metric = "RAW" /\ x.epoch = c.src.epoch
      /\ c.src.epoch # None
  BY <1>2 DEF SourcePart
<1>5. Set(s, c)
  BY <1>1, OwnCall, UnchangedCall DEF EvidenceInv
<1>6. S \intersect SamplesOf(db, lastRun) = {}
  <2> HIDE DEF S
  <2> QED BY <1>3, <1>4
<1> HIDE DEF S, c
<1>7. /\ Touches(db, db', lastRun) /\ Counts(db', lastRun)
      /\ SamplesOf(db', lastRun) = SamplesOf(db, lastRun) \union S
      /\ db'.runs[lastRun].rows = old.rows + Cardinality(S)
      /\ db'.runs[lastRun].ended = old.ended /\ db'.runs[lastRun].status = old.status
      /\ db'.runs[lastRun].start = old.start /\ db'.runs[lastRun].epoch = old.epoch
      /\ db'.runs[lastRun].expected = old.expected
      /\ \A q \in DOMAIN db.runs : db'.runs[q].start = db.runs[q].start /\ db'.runs[q].epoch = db.runs[q].epoch
  BY <1>1, <1>2, <1>3, <1>6, SamplesTouched
<1>8. Cardinality(S) \in Nat
  BY <1>3, FS_CardinalityType
<1>9. old.rows \in Nat
  BY <1>2 DEF RunHistory
<1>10. History(db', now)
  BY <1>2, <1>7, <1>8, <1>9, SamplesHistory
<1>11. RunPart(c, "payload", db', lastRun)
  BY <1>2, <1>7 DEF RunPart
<1>12. SameEpoch(db', c.src.start, c.src.epoch)
  BY <1>2, <1>7 DEF SourcePart, SameEpoch, Touches
<1>13. SourcePart(c, "payload", db', lastRun)
  <2>1. db'.runs[lastRun].rows = db'.runs[lastRun].expected
    BY <1>3, <1>4, <1>7, <1>8
  <2>2. \A x \in SamplesOf(db', lastRun) : x.epoch = c.src.epoch
    BY <1>3, <1>4, <1>7
  <2> QED BY <1>4, <1>12, <2>1, <2>2 DEF SourcePart
<1>14. ReportPart(c, "payload", db')
  BY DEF ReportPart
<1> QED BY <1>1, <1>5, <1>10, <1>11, <1>13, <1>14, RunEvidence DEF c

LEMMA CounterPayloadEvidence ==
  ASSUME EvidenceInv, DataInv', NEW s \in Session, CounterPayload(s) PROVE EvidenceInv'
<1> DEFINE c == call[s]
<1>1. /\ UNCHANGED <<now, lastRun, purges, call>> /\ Goto(s, "payload", "update") /\ pc[s] = "payload"
      /\ db' = AddPayload(db, c.run, c.src.at) \/ db' = db
      /\ "payload" \in OfRun /\ "update" \in OfRun
  BY DEF CounterPayload, Written, NoWrites, Goto, OfRun, Completion
<1>2. /\ c.run = lastRun /\ StoreOK(db, lastRun) /\ History(db, now)
      /\ RunPart(c, "payload", db, lastRun) /\ SourcePart(c, "payload", db, lastRun)
      /\ db.runs[lastRun].ended = None /\ db.runs[lastRun].status = "RUNNING"
  BY <1>1, OwnHistory DEF CallEvidence
<1>3. Set(s, c)
  BY <1>1, OwnCall, UnchangedCall DEF EvidenceInv
<1>4. SameEvidence(db, db')
  BY <1>1, <1>2, AddPayloadSame DEF SameEvidence
<1>5. History(db', now) /\ \A r : SamplesOf(db', r) = SamplesOf(db, r)
  BY <1>2, <1>4, SameHistory
<1> HIDE DEF c
<1>6. RunPart(c, "update", db', lastRun)
  BY <1>2, <1>4, <1>5 DEF RunPart, Counts, SameEvidence
<1>7. SourcePart(c, "update", db', lastRun) /\ ReportPart(c, "update", db')
  BY <1>2, <1>4, <1>5 DEF SourcePart, SameEpoch, ReportPart, SameEvidence
<1> QED BY <1>1, <1>3, <1>5, <1>6, <1>7, RunEvidence DEF c

LEMMA CounterRunEvidence ==
  ASSUME EvidenceInv, DataInv', NEW s \in Session, CounterRun(s) PROVE EvidenceInv'
<1> DEFINE c == call[s]
           old == db.runs[lastRun]
           m == c.src.start
           n == c.src.epoch
           a == [old EXCEPT !.start = m]
           row == [a EXCEPT !.epoch = n]
<1>1. /\ UNCHANGED <<now, lastRun, purges, call>> /\ Goto(s, "update", "module") /\ pc[s] = "update"
      /\ db' = [db EXCEPT !.runs[c.run].start = m, !.runs[c.run].epoch = n]
      /\ "update" \in OfRun /\ "module" \in OfRun
  BY DEF CounterRun, Written, NoWrites, Goto, OfRun, Completion
<1>2. /\ c.run = lastRun /\ lastRun \in DOMAIN db.runs /\ Counts(db, lastRun) /\ RunHistory(old, now)
      /\ old.ended = None /\ old.status = "RUNNING" /\ RowOK(old)
      /\ StoreOK(db, lastRun) /\ lastRun \in Nat /\ History(db, now)
      /\ RunPart(c, "update", db, lastRun) /\ SourcePart(c, "update", db, lastRun)
  BY <1>1, OwnHistory DEF CallEvidence
<1>3. Set(s, c)
  BY <1>1, OwnCall, UnchangedCall DEF EvidenceInv
<1>4. row = [collector |-> old.collector, started |-> old.started, ended |-> old.ended,
             status |-> old.status, count |-> old.count, start |-> m,
             epoch |-> n, forced |-> old.forced, rows |-> old.rows, expected |-> old.expected]
  <2>1. a = [collector |-> old.collector, started |-> old.started, ended |-> old.ended,
             status |-> old.status, count |-> old.count, start |-> m,
             epoch |-> old.epoch, forced |-> old.forced, rows |-> old.rows, expected |-> old.expected]
    <3> HIDE DEF m, old
    <3> QED BY <1>2 DEF RowOK
  <2> HIDE DEF a, m, n, old
  <2> QED BY <2>1
<1>5. db' = [db EXCEPT !.runs = [@ EXCEPT ![lastRun] = row]]
  <2> HIDE DEF m, n
  <2> QED BY <1>1, <1>2 DEF StoreOK
<1> HIDE DEF row
<1>6. /\ Touches(db, db', lastRun) /\ db'.runs[lastRun] = row
      /\ \A r : SamplesOf(db', r) = SamplesOf(db, r)
  <2> HIDE DEF m, n
  <2> QED BY <1>2, <1>4, <1>5, RowTouched
<1>7. n # None /\ SameEpoch(db, m, n) /\ old.rows = old.expected
      /\ \A x \in SamplesOf(db, lastRun) : x.epoch = n
  BY <1>2 DEF SourcePart
<1> HIDE DEF c, m, n
<1>8. RunHistory(row, now) /\ row.status = "RUNNING" /\ Collects(old)
  BY <1>2, <1>4, <1>7 DEF RunHistory, Collects
<1>9. History(db', now)
  BY <1>2, <1>4, <1>6, <1>7, <1>8, HistoryTouched
<1>10. RunPart(c, "module", db', lastRun)
  <2>1. SamplesOf(db', lastRun) = SamplesOf(db, lastRun)
    BY <1>6
  <2>2. Counts(db', lastRun)
    BY <1>2, <1>4, <1>6, <2>1 DEF Counts
  <2> QED BY <1>2, <1>4, <1>6, <2>2 DEF RunPart
<1>11. Measured(db', lastRun)
  BY <1>4, <1>6, <1>7 DEF Measured
<1>12. SourcePart(c, "module", db', lastRun) /\ ReportPart(c, "module", db')
  BY <1>11 DEF SourcePart, ReportPart
<1> QED BY <1>1, <1>3, <1>9, <1>10, <1>12, RunEvidence DEF c

LEMMA CounterModuleEvidence ==
  ASSUME EvidenceInv, DataInv', NEW s \in Session, CounterModule(s) \/ CatchCompletion(s)
  PROVE  EvidenceInv'
<1> DEFINE a == [call[s] EXCEPT !.src = NoSource]
           b == [call[s] EXCEPT !.status = "ERROR_HANDLED", !.src = NoSource]
<1>1. PICK from, c :
        /\ \/ from = "module" /\ c = a
           \/ from = "modulecatch" /\ c = b
        /\ Goto(s, from, "finalize") /\ Set(s, c) /\ UNCHANGED <<now, lastRun, purges>>
        /\ db' = AddModules(db, call[s].run, 1)
  BY DEF CounterModule, CatchCompletion, NoWrites
<1>2. from \in OfRun /\ pc[s] = from /\ "finalize" \in OfRun
  BY <1>1 DEF OfRun, Completion, Goto
<1>3. /\ call[s].run = lastRun /\ StoreOK(db, lastRun) /\ History(db, now) /\ CallShape(call[s])
      /\ Counts(db, lastRun)
      /\ SourcePart(call[s], from, db, lastRun)
      /\ db.runs[lastRun].ended = None /\ db.runs[lastRun].status = "RUNNING"
  BY <1>2, OwnHistory DEF CallEvidence
<1>4. /\ c.run = lastRun /\ c.purge = call[s].purge
      /\ c.status = (IF from = "module" THEN call[s].status ELSE "ERROR_HANDLED")
  <2>1. a.run = lastRun /\ a.purge = call[s].purge /\ a.status = call[s].status
    BY <1>3 DEF CallShape
  <2>2. b.run = lastRun /\ b.purge = call[s].purge /\ b.status = "ERROR_HANDLED"
    BY <1>3 DEF CallShape
  <2> HIDE DEF a, b
  <2> QED BY <1>1, <2>1, <2>2
<1>5. SameEvidence(db, db')
  BY <1>1, <1>3, AddModulesSame
<1>6. History(db', now) /\ \A r : SamplesOf(db', r) = SamplesOf(db, r)
  BY <1>3, <1>5, SameHistory
<1>7. RunPart(c, "finalize", db', lastRun)
  BY <1>3, <1>4, <1>5, <1>6 DEF RunPart, Counts, SameEvidence
<1>8. SourcePart(c, "finalize", db', lastRun)
  <2>1. ASSUME c.status = "AVAILABLE" PROVE Measured(db', lastRun)
    <3>1. Measured(db, lastRun)
      BY <1>1, <1>3, <1>4, <2>1 DEF SourcePart
    <3> QED BY <1>5, <1>6, <3>1 DEF Measured, SameEvidence
  <2> QED BY <2>1 DEF SourcePart
<1>9. ReportPart(c, "finalize", db')
  BY DEF ReportPart
<1> QED BY <1>1, <1>2, <1>4, <1>6, <1>7, <1>8, <1>9, RunEvidence
-----------------------------------------------------------------------------
(* The end of a run: nothing of it was purged, so the count is what was written. *)
LEMMA FinalizedTouched ==
  ASSUME NEW d, NEW last \in Nat, StoreOK(d, last), last \in DOMAIN d.runs, NEW t \in Nat, History(d, t),
         Counts(d, last), NEW status, status = "AVAILABLE" => Measured(d, last),
         NEW e, e = Finalized(d, last, status, t)
  PROVE  /\ History(e, t) /\ Counts(e, last) /\ last \in DOMAIN e.runs
         /\ e.runs[last].ended = t /\ e.runs[last].status = status /\ t # None
<1> DEFINE old == d.runs[last]
           n == Cardinality(SamplesOf(d, last))
           row == [collector |-> old.collector, started |-> old.started, ended |-> t,
                   status |-> status, count |-> n, start |-> old.start, epoch |-> old.epoch,
                   forced |-> old.forced, rows |-> old.rows, expected |-> old.expected]
<1>1. e = [d EXCEPT !.runs = [@ EXCEPT ![last] = row]]
  BY FinalizedRow
<1>2. /\ row.collector = old.collector /\ row.started = old.started /\ row.ended = t
      /\ row.status = status /\ row.count = n /\ row.start = old.start /\ row.epoch = old.epoch
      /\ row.forced = old.forced /\ row.rows = old.rows /\ row.expected = old.expected
  OBVIOUS
<1> HIDE DEF row
<1>3. /\ Touches(d, e, last) /\ e.runs[last] = row
      /\ \A r : SamplesOf(e, r) = SamplesOf(d, r)
  BY <1>1, <1>2, RowTouched
<1>4. RunHistory(old, t) /\ old.started \in Nat /\ old.rows = n
  BY DEF History, StoreOK, RowOK, Counts
<1>5. RunHistory(row, t)
  BY <1>2, <1>4 DEF RunHistory
<1>6. row.status = "AVAILABLE" => Measured(e, last)
  BY <1>2, <1>3 DEF Measured
<1>7. Collects(row) => Collects(old)
  BY <1>2 DEF Collects, None
<1>8. History(e, t)
  BY <1>2, <1>3, <1>5, <1>6, <1>7, HistoryTouched
<1>9. Counts(e, last)
  BY <1>2, <1>3, <1>4 DEF Counts
<1>10. t # None
  BY DEF None
<1> QED BY <1>2, <1>3, <1>8, <1>9, <1>10 DEF Touches

LEMMA FinalizeEvidence ==
  ASSUME EvidenceInv, DataInv', NEW s \in Session, Finalize(s) PROVE EvidenceInv'
<1> DEFINE status == FinalStatus(call[s])
           c == [call[s] EXCEPT !.status = status]
<1>1. /\ Goto(s, "finalize", "project") /\ Set(s, c) /\ UNCHANGED <<now, lastRun, purges>>
      /\ db' = Finalized(db, call[s].run, status, now)
      /\ pc[s] = "finalize" /\ "finalize" \in OfRun /\ "project" \notin OfRun
  BY DEF Finalize, NoWrites, Goto, OfRun, Completion
<1>2. /\ call[s].run = lastRun /\ lastRun \in DOMAIN db.runs /\ Counts(db, lastRun)
      /\ StoreOK(db, lastRun) /\ lastRun \in Nat /\ now \in Nat /\ History(db, now) /\ CallShape(call[s])
      /\ SourcePart(call[s], "finalize", db, lastRun)
  BY <1>1, OwnHistory DEF CallEvidence
<1>3. status = "AVAILABLE" => Measured(db, lastRun)
  BY <1>2 DEF FinalStatus, SourcePart
<1> HIDE DEF status
<1>4. c.run = lastRun /\ c.purge = call[s].purge /\ c.status = status
  BY <1>2 DEF CallShape
<1> HIDE DEF c
<1>5. /\ History(db', now) /\ Counts(db', lastRun) /\ lastRun \in DOMAIN db'.runs
      /\ db'.runs[lastRun].ended = now /\ db'.runs[lastRun].status = status /\ now # None
  BY <1>1, <1>2, <1>3, FinalizedTouched
<1>6. RunPart(c, "project", db', lastRun)
  BY <1>1, <1>4, <1>5 DEF RunPart
<1>7. SourcePart(c, "project", db', lastRun)
  BY DEF SourcePart
<1>8. ReportPart(c, "project", db')
  BY <1>4, <1>5 DEF ReportPart
<1> QED BY <1>1, <1>4, <1>5, <1>6, <1>7, <1>8, RunEvidence

(* The CATCH block of the caller ends a known run, whatever it had come to. *)
LEMMA CatchEvidence ==
  ASSUME EvidenceInv, DataInv', NEW s \in Session, Catch(s) PROVE EvidenceInv'
<1> DEFINE r == call[s].run
           status == CaughtStatus(call[s])
           c == [call[s] EXCEPT !.status = status]
<1>1. /\ Goto(s, "catch", "release") /\ Set(s, c) /\ UNCHANGED <<now, lastRun, purges>>
      /\ db' = Finalized(db, r, "ERROR_HANDLED", now) \/ db' = db
      /\ pc[s] = "catch" /\ "release" \notin OfRun
  BY DEF Catch, Finish, NoWrites, Goto, OfRun, Completion
<1>2. /\ CallShape(call[s]) /\ now \in Nat /\ lastRun \in Nat /\ StoreOK(db, lastRun) /\ History(db, now)
      /\ RunPart(call[s], "catch", db, lastRun) /\ CallRun(call[s], "catch", db, lastRun)
  BY <1>1, OwnCall DEF EvidenceInv, CallEvidence
<1>3. status \notin Collected
  BY DEF CaughtStatus, Collected
<1> HIDE DEF status
<1>4. c.run = r /\ c.purge = call[s].purge /\ c.status = status
  BY <1>2 DEF CallShape
<1> HIDE DEF c
<1>5. History(db', now) /\ (c.run # 0 => c.run = lastRun /\ Counts(db', lastRun))
  <2>1. CASE db' = db
    BY <1>2, <1>4, <2>1 DEF RunPart
  <2>2. CASE r \notin DOMAIN db.runs /\ db' = Finalized(db, r, "ERROR_HANDLED", now)
    <3>1. db' = db
      BY <2>2 DEF Finalized
    <3> QED BY <2>1, <3>1
  <2>3. CASE r \in DOMAIN db.runs /\ db' = Finalized(db, r, "ERROR_HANDLED", now)
    <3>1. r # 0
      BY <1>2, <2>3 DEF StoreOK
    <3>2. r = lastRun /\ Counts(db, lastRun)
      BY <1>2, <3>1 DEF RunPart
    <3>3. "ERROR_HANDLED" = "AVAILABLE" => Measured(db, lastRun)
      OBVIOUS
    <3> QED BY <1>2, <1>4, <2>3, <3>2, <3>3, FinalizedTouched
  <2> QED BY <1>1, <2>1, <2>2, <2>3
<1>6. RunPart(c, "release", db', lastRun)
  BY <1>1, <1>5 DEF RunPart
<1>7. SourcePart(c, "release", db', lastRun) /\ ReportPart(c, "release", db')
  BY <1>3, <1>4 DEF SourcePart, ReportPart
<1> QED BY <1>1, <1>4, <1>5, <1>6, <1>7, RunEvidence

-----------------------------------------------------------------------------
(* Waits and files: evidence and end of the run in one transaction. *)
LEMMA NativeTouched ==
  ASSUME NEW d, NEW last \in Nat, StoreOK(d, last), last \in DOMAIN d.runs, NEW t, History(d, t),
         now \in Nat, Counts(d, last), d.runs[last].rows = 0, d.runs[last].ended = None,
         d.runs[last].status = "RUNNING", NEW op
  PROVE  LET e == NativeEvidence(d, last, op)
         IN History(e, t) /\ Counts(e, last) /\ StoreOK(e, last) /\ last \in DOMAIN e.runs
<1> DEFINE row(m) == [run |-> last, scope |-> op, metric |-> m, at |-> now, epoch |-> last]
           S == {row(m) : m \in {"RAW", "CONTEXT"}}
           e == [d EXCEPT !.scopes = @ \union {op}]
           f == AddSamples(e, last, S)
           g == AddModules(f, last, 2)
<1>1. StoreOK(e, last) /\ e.scopes = d.scopes \union {op} /\ SameEvidence(d, e)
  <2> DEFINE K == {op}
  <2>1. IsFiniteSet(K)
    BY FS_Singleton
  <2> HIDE DEF e, K
  <2>2. e = [d EXCEPT !.scopes = @ \union K]
    BY DEF e, K
  <2>3. StoreOK(e, last) /\ e.scopes = d.scopes \union K
    BY <2>1, <2>2, AddScopesOK
  <2>4. e = [runs |-> d.runs, samples |-> d.samples, payloads |-> d.payloads,
             modules |-> d.modules, scopes |-> d.scopes \union K]
    BY <2>2 DEF StoreOK
  <2>5. SameEvidence(d, e)
    BY <2>4 DEF SameEvidence
  <2> QED BY <2>3, <2>5 DEF K
<1>2. IsFiniteSet(S) /\ Cardinality(S) \in Nat
      /\ \A x \in S : x.run = last /\ x.at \in Int /\ x.scope \in e.scopes
  <2>1. S = {row("RAW")} \union {row("CONTEXT")}
    OBVIOUS
  <2> HIDE DEF S
  <2>2. \A m : row(m).run = last /\ row(m).at \in Int /\ row(m).scope = op
    OBVIOUS
  <2> HIDE DEF row, e
  <2>3. IsFiniteSet({row("RAW")}) /\ IsFiniteSet({row("CONTEXT")})
    BY FS_Singleton
  <2>4. IsFiniteSet(S)
    BY <2>1, <2>3, FS_Union
  <2> QED BY <1>1, <2>1, <2>2, <2>4, FS_CardinalityType
<1>3. NativeEvidence(d, last, op) = g
  BY DEF NativeEvidence
<1> HIDE DEF S, row, e
<1>4. History(e, t) /\ \A r : SamplesOf(e, r) = SamplesOf(d, r)
  BY <1>1, SameHistory
<1>5. /\ last \in DOMAIN e.runs /\ e.runs[last].rows = 0 /\ e.runs[last].ended = None
      /\ e.runs[last].status = "RUNNING"
  BY <1>1 DEF SameEvidence
<1>6. Counts(e, last) /\ SamplesOf(e, last) = {}
  <2>1. SamplesOf(d, last) \in SUBSET d.samples
    BY DEF SamplesOf
  <2>2. IsFiniteSet(SamplesOf(d, last))
    BY <2>1, FS_Subset DEF StoreOK
  <2>3. SamplesOf(d, last) = {}
    BY <2>2, FS_EmptySet DEF Counts
  <2>4. SamplesOf(e, last) = SamplesOf(d, last)
    BY <1>4
  <2> QED BY <1>5, <2>3, <2>4, FS_EmptySet DEF Counts
<1>7. /\ Touches(e, f, last) /\ Counts(f, last) /\ f.runs[last].rows = 0 + Cardinality(S)
      /\ f.runs[last].ended = None /\ f.runs[last].status = "RUNNING"
      /\ f.runs[last].start = e.runs[last].start /\ f.runs[last].epoch = e.runs[last].epoch
  <2>1. S \intersect SamplesOf(e, last) = {} /\ \A x \in S : x.run = last
    BY <1>2, <1>6
  <2> HIDE DEF f
  <2>2. f = AddSamples(e, last, S)
    BY DEF f
  <2> QED BY <1>1, <1>2, <1>5, <1>6, <2>1, <2>2, SamplesTouched
<1>8. StoreOK(f, last)
  BY <1>1, <1>2, <1>5, AddSamplesOK
<1> HIDE DEF f
<1>9. History(f, t)
  <2>1. f.runs[last].rows \in Nat
    BY <1>2, <1>7
  <2> QED BY <1>1, <1>4, <1>5, <1>7, <2>1, SamplesHistory
<1>10. last \in DOMAIN f.runs
  BY <1>7 DEF Touches
<1>11. StoreOK(g, last) /\ SameEvidence(f, g)
  BY <1>8, <1>10, AddModulesOK, AddModulesSame
<1> HIDE DEF g
<1>12. History(g, t) /\ \A r : SamplesOf(g, r) = SamplesOf(f, r)
  BY <1>9, <1>11, SameHistory
<1>13. Counts(g, last) /\ last \in DOMAIN g.runs
  BY <1>7, <1>10, <1>11, <1>12 DEF Counts, SameEvidence
<1> QED BY <1>3, <1>11, <1>12, <1>13

LEMMA NativeCompleteEvidence ==
  ASSUME EvidenceInv, DataInv', NEW s \in Session, NativeComplete(s) PROVE EvidenceInv'
<1> DEFINE c == call[s]
           status == c.status
<1>1. /\ UNCHANGED <<now, lastRun, purges>> /\ pc[s] = "complete" /\ "complete" \in OfRun
      /\ "complete" \in Inside /\ "project" \notin OfRun /\ DataInv
  BY DEF NativeComplete, NoWrites, Quiet, StoreKept, Goto, OfRun, Completion, Inside, EvidenceInv
<1>2. /\ c.run = lastRun /\ lastRun \in DOMAIN db.runs /\ Counts(db, lastRun)
      /\ StoreOK(db, lastRun) /\ lastRun \in Nat /\ now \in Nat /\ History(db, now) /\ CallShape(c)
      /\ db.runs[lastRun].ended = None /\ db.runs[lastRun].status = "RUNNING"
      /\ RunPart(c, "complete", db, lastRun) /\ ReportPart(c, "complete", db)
  BY <1>1, OwnHistory DEF CallEvidence
<1>3. db.runs[lastRun].rows = 0 /\ status \in {"PARTIAL", "ERROR_HANDLED"}
  BY <1>2 DEF RunPart, ReportPart
<1>4. ASSUME NEW payload \in BOOLEAN,
             LET d == IF payload THEN AddPayload(db, lastRun, now) ELSE db
             IN db' = Finalized(IF status = "PARTIAL" THEN NativeEvidence(d, lastRun, c.op)
                                ELSE AddModules(d, lastRun, 1), lastRun, status, now),
             Goto(s, "complete", "project"), UNCHANGED call
      PROVE  EvidenceInv'
  <2> DEFINE d == IF payload THEN AddPayload(db, lastRun, now) ELSE db
             e == IF status = "PARTIAL" THEN NativeEvidence(d, lastRun, c.op) ELSE AddModules(d, lastRun, 1)
  <2>1. SameEvidence(db, d) /\ StoreOK(d, lastRun)
    <3>1. CASE payload
      <4>1. d = AddPayload(db, lastRun, now)
        BY <3>1
      <4> HIDE DEF d
      <4> QED BY <1>2, <4>1, AddPayloadOK, AddPayloadSame
    <3>2. CASE ~payload
      BY <1>2, <3>2 DEF SameEvidence
    <3> QED BY <3>1, <3>2
  <2>2. db' = Finalized(e, lastRun, status, now)
    BY <1>4
  <2> HIDE DEF d
  <2>3. History(d, now) /\ \A r : SamplesOf(d, r) = SamplesOf(db, r)
    BY <1>2, <2>1, SameHistory
  <2>4. /\ Counts(d, lastRun) /\ d.runs[lastRun].rows = 0 /\ lastRun \in DOMAIN d.runs
        /\ d.runs[lastRun].ended = None /\ d.runs[lastRun].status = "RUNNING"
    BY <1>2, <1>3, <2>1, <2>3 DEF SameEvidence, Counts
  <2>5. History(e, now) /\ Counts(e, lastRun) /\ StoreOK(e, lastRun) /\ lastRun \in DOMAIN e.runs
    <3>1. CASE status = "PARTIAL"
      <4>1. e = NativeEvidence(d, lastRun, c.op)
        BY <3>1
      <4> HIDE DEF e
      <4> QED BY <1>2, <2>1, <2>3, <2>4, <4>1, NativeTouched
    <3>2. CASE status # "PARTIAL"
      <4>1. e = AddModules(d, lastRun, 1)
        BY <3>2
      <4> HIDE DEF e
      <4>2. StoreOK(e, lastRun) /\ SameEvidence(d, e)
        BY <2>1, <2>4, <4>1, AddModulesOK, AddModulesSame
      <4>3. History(e, now) /\ \A r : SamplesOf(e, r) = SamplesOf(d, r)
        BY <2>3, <4>2, SameHistory
      <4>4. Counts(e, lastRun) /\ lastRun \in DOMAIN e.runs
        BY <2>4, <4>2, <4>3 DEF Counts, SameEvidence
      <4> QED BY <4>2, <4>3, <4>4
    <3> QED BY <3>1, <3>2
  <2>6. Set(s, c)
    BY <1>1, <1>4, OwnCall, UnchangedCall
  <2> HIDE DEF e, c
  <2>7. /\ History(db', now) /\ Counts(db', lastRun) /\ lastRun \in DOMAIN db'.runs
        /\ db'.runs[lastRun].ended = now /\ db'.runs[lastRun].status = status /\ now # None
    BY <1>2, <1>3, <2>2, <2>5, FinalizedTouched
  <2>8. RunPart(c, "project", db', lastRun)
    BY <1>1, <1>2, <2>7 DEF RunPart
  <2>9. SourcePart(c, "project", db', lastRun) /\ ReportPart(c, "project", db')
    BY <1>2, <2>7 DEF SourcePart, ReportPart
  <2> QED BY <1>1, <1>4, <2>6, <2>7, <2>8, <2>9, RunEvidence DEF c
<1>5. CASE Goto(s, "complete", "completecatch") /\ UNCHANGED call /\ Quiet
  <2>1. UNCHANGED <<now, db, lastRun, purges>>
    BY <1>5 DEF Quiet, NoWrites, StoreKept
  <2> QED BY <1>1, <1>5, <2>1, UnchangedCall, QuietEvidence
<1>6. CASE /\ Goto(s, "complete", "project")
           /\ Set(s, [c EXCEPT !.status = "TARGET_UNAVAILABLE"]) /\ Quiet
  <2>1. UNCHANGED <<now, db, lastRun, purges>> /\ "TARGET_UNAVAILABLE" \notin Collected
    BY <1>6 DEF Quiet, NoWrites, StoreKept, Collected
  <2> QED BY <1>1, <1>6, <2>1, QuietEvidence
<1> QED
  <2>1. CASE \E payload \in BOOLEAN :
               /\ LET d == IF payload THEN AddPayload(db, lastRun, now) ELSE db
                  IN db' = Finalized(IF status = "PARTIAL" THEN NativeEvidence(d, lastRun, c.op)
                                     ELSE AddModules(d, lastRun, 1), lastRun, status, now)
               /\ Goto(s, "complete", "project") /\ UNCHANGED call
    BY <1>4, <2>1
  <2> QED BY <1>2, <1>5, <1>6, <2>1 DEF NativeComplete

LEMMA CatchNativeEvidence ==
  ASSUME EvidenceInv, DataInv', NEW s \in Session, CatchNative(s) PROVE EvidenceInv'
<1> DEFINE r == call[s].run
           old == db.runs[lastRun]
<1>1. /\ UNCHANGED <<now, lastRun, purges>> /\ Goto(s, "completecatch", "project")
      /\ pc[s] = "completecatch" /\ "completecatch" \in OfRun /\ "project" \notin OfRun
  BY DEF CatchNative, NoWrites, Goto, OfRun, Completion
<1>2. /\ r = lastRun /\ lastRun \in DOMAIN db.runs /\ Counts(db, lastRun) /\ RowOK(old)
      /\ StoreOK(db, lastRun) /\ lastRun \in Nat /\ now \in Nat /\ History(db, now) /\ CallShape(call[s])
      /\ old.ended = None /\ RunHistory(old, now)
  BY <1>1, OwnHistory
<1>3. PICK status :
        /\ status \notin Collected
        /\ Set(s, [call[s] EXCEPT !.status = status])
        /\ \/ db' = Finalized(AddModules(db, lastRun, 1), lastRun, "ERROR_HANDLED", now)
           \/ db' = AddModules([db EXCEPT !.runs[lastRun].status = "ERROR_HANDLED"], lastRun, 2)
  <2>1. "ERROR_HANDLED" \notin Collected /\ "FINALIZATION_UNCONFIRMED" \notin Collected
    BY DEF Collected
  <2> QED BY <1>2, <2>1 DEF CatchNative
<1>4. History(db', now) /\ Counts(db', lastRun)
  <2>1. CASE db' = Finalized(AddModules(db, lastRun, 1), lastRun, "ERROR_HANDLED", now)
    <3> DEFINE e == AddModules(db, lastRun, 1)
    <3>1. StoreOK(e, lastRun) /\ SameEvidence(db, e)
      BY <1>2, AddModulesOK, AddModulesSame
    <3>2. db' = Finalized(e, lastRun, "ERROR_HANDLED", now)
      BY <2>1
    <3> HIDE DEF e
    <3>3. History(e, now) /\ \A q : SamplesOf(e, q) = SamplesOf(db, q)
      BY <1>2, <3>1, SameHistory
    <3>4. Counts(e, lastRun) /\ lastRun \in DOMAIN e.runs
      BY <1>2, <3>1, <3>3 DEF Counts, SameEvidence
    <3>5. "ERROR_HANDLED" = "AVAILABLE" => Measured(e, lastRun)
      OBVIOUS
    <3> QED BY <1>2, <3>1, <3>2, <3>3, <3>4, <3>5, FinalizedTouched
  <2>2. CASE db' = AddModules([db EXCEPT !.runs[lastRun].status = "ERROR_HANDLED"], lastRun, 2)
    <3> DEFINE row == [old EXCEPT !.status = "ERROR_HANDLED"]
               e == [db EXCEPT !.runs = [@ EXCEPT ![lastRun] = row]]
    <3>1. row = [collector |-> old.collector, started |-> old.started, ended |-> old.ended,
                 status |-> "ERROR_HANDLED", count |-> old.count, start |-> old.start,
                 epoch |-> old.epoch, forced |-> old.forced, rows |-> old.rows,
                 expected |-> old.expected]
      BY <1>2 DEF RowOK
    <3>2. db' = AddModules(e, lastRun, 2)
      BY <2>2
    <3> HIDE DEF row, old
    <3>3. /\ row.collector = old.collector /\ row.started = old.started /\ row.ended = None
          /\ row.status = "ERROR_HANDLED" /\ row.start = old.start /\ row.epoch = old.epoch
          /\ row.forced = old.forced /\ row.rows = old.rows
      BY <1>2, <3>1
    <3>4. RunHistory(row, now) /\ Collects(old)
      BY <1>2, <3>3 DEF RunHistory, Collects
    <3> HIDE DEF e
    <3>5. e = [db EXCEPT !.runs = [@ EXCEPT ![lastRun] = row]]
      BY DEF e
    <3>6. /\ Touches(db, e, lastRun) /\ e.runs[lastRun] = row
          /\ \A q : SamplesOf(e, q) = SamplesOf(db, q)
      BY <1>2, <3>3, <3>5, RowTouched DEF old
    <3>7. History(e, now)
      BY <1>2, <3>3, <3>4, <3>6, HistoryTouched DEF old
    <3>8. e = [runs |-> [db.runs EXCEPT ![lastRun] = row], samples |-> db.samples,
               payloads |-> db.payloads, modules |-> db.modules, scopes |-> db.scopes]
      BY <1>2, <3>5 DEF StoreOK
    <3>9. SameEvidence(e, db')
      <4> DEFINE M == {[run |-> lastRun, row |-> i] : i \in 1..2}
      <4>1. db' = [e EXCEPT !.modules = @ \union M]
        BY <3>2 DEF AddModules
      <4> HIDE DEF M
      <4>2. db' = [runs |-> e.runs, samples |-> e.samples, payloads |-> e.payloads,
                   modules |-> e.modules \union M, scopes |-> e.scopes]
        BY <3>8, <4>1
      <4> QED BY <4>2 DEF SameEvidence
    <3>10. History(db', now) /\ \A q : SamplesOf(db', q) = SamplesOf(e, q)
      BY <3>7, <3>9, SameHistory
    <3>11. SamplesOf(db', lastRun) = SamplesOf(db, lastRun)
      BY <3>6, <3>10
    <3>12. Counts(db', lastRun)
      BY <1>2, <3>3, <3>6, <3>9, <3>11 DEF Counts, SameEvidence, old
    <3> QED BY <3>10, <3>12
  <2> QED BY <1>3, <2>1, <2>2
<1> DEFINE c == [call[s] EXCEPT !.status = status]
<1>5. c.run = lastRun /\ c.purge = call[s].purge /\ c.status = status
  BY <1>2 DEF CallShape
<1> HIDE DEF c
<1>6. Set(s, c)
  BY <1>3 DEF c
<1>7. RunPart(c, "project", db', lastRun)
  BY <1>1, <1>4, <1>5 DEF RunPart
<1>8. SourcePart(c, "project", db', lastRun) /\ ReportPart(c, "project", db')
  BY <1>3, <1>5 DEF SourcePart, ReportPart
<1> QED BY <1>1, <1>4, <1>5, <1>6, <1>7, <1>8, RunEvidence
-----------------------------------------------------------------------------
(* The purge.  A batch that removed no row found none that had expired. *)
LEMMA EmptyTop ==
  ASSUME NEW S, IsFiniteSet(S), {} \in Top(S) PROVE S = {}
<1>1. BatchRows \in Nat \ {0} /\ Cardinality({}) = 0
  BY PolicyAssumption, FS_EmptySet
<1>2. {} \notin kSubset(BatchRows, S)
  BY <1>1 DEF kSubset
<1> QED BY <1>2 DEF Top

LEMMA ShrinksEqual ==
  ASSUME NEW d, NEW last \in Nat, StoreOK(d, last), NEW e, Shrinks(d, e), Rows(d) - Rows(e) = 0
  PROVE  Shrinks(e, d)
<1>0. IsFiniteSet(1..last)
  BY FS_Interval
<1>1. IsFiniteSet(DOMAIN d.runs)
  <2>1. DOMAIN d.runs \in SUBSET (1..last)
    BY DEF StoreOK
  <2> QED BY <1>0, <2>1, FS_Subset
<1>2. \A S, T : IsFiniteSet(S) /\ T \subseteq S
                  => /\ Cardinality(S) \in Nat /\ Cardinality(T) \in Nat
                     /\ Cardinality(T) <= Cardinality(S)
                     /\ Cardinality(T) = Cardinality(S) => T = S
  BY FS_Subset, FS_CardinalityType
<1> DEFINE Fits(S, T) == /\ Cardinality(S) \in Nat /\ Cardinality(T) \in Nat
                         /\ Cardinality(T) <= Cardinality(S)
                         /\ Cardinality(T) = Cardinality(S) => T = S
<1>3. Fits(DOMAIN d.runs, DOMAIN e.runs)
  BY <1>1, <1>2 DEF Shrinks
<1>4. Fits(d.samples, e.samples) /\ Fits(d.payloads, e.payloads)
  BY <1>2 DEF Shrinks, StoreOK
<1>5. Fits(d.modules, e.modules) /\ Fits(d.scopes, e.scopes)
  BY <1>2 DEF Shrinks, StoreOK
<1>6. /\ DOMAIN e.runs = DOMAIN d.runs /\ e.samples = d.samples /\ e.payloads = d.payloads
      /\ e.modules = d.modules /\ e.scopes = d.scopes
  BY <1>3, <1>4, <1>5 DEF Rows
<1> QED BY <1>6 DEF Shrinks

(* What has expired depends on the rows alone. *)
LEMMA SameExpired ==
  ASSUME NEW d, NEW last, StoreOK(d, last), NEW e, NEW t, Shrinks(d, e), Shrinks(e, d)
  PROVE  /\ ExpiredSamples(e, t) = ExpiredSamples(d, t)
         /\ ExpiredPayloads(e, t) = ExpiredPayloads(d, t)
         /\ ExpiredModules(e, t) = ExpiredModules(d, t)
         /\ ExpiredRuns(e, t) = ExpiredRuns(d, t)
         /\ UnusedScopes(e) = UnusedScopes(d)
<1>1. /\ DOMAIN e.runs = DOMAIN d.runs /\ e.samples = d.samples /\ e.payloads = d.payloads
      /\ e.modules = d.modules /\ e.scopes = d.scopes
      /\ \A r \in DOMAIN d.runs : e.runs[r] = d.runs[r]
  BY DEF Shrinks
<1>2. \A r : /\ SamplesOf(e, r) = SamplesOf(d, r) /\ PayloadsOf(e, r) = PayloadsOf(d, r)
             /\ ModulesOf(e, r) = ModulesOf(d, r)
  BY <1>1 DEF SamplesOf, PayloadsOf, ModulesOf
<1>3. \A r \in DOMAIN d.runs : Emptied(e, r, t) <=> Emptied(d, r, t)
  BY <1>1, <1>2 DEF Emptied
<1>4. \A r \in DOMAIN d.runs : Superseded(e, r) <=> Superseded(d, r)
  <2> SUFFICES ASSUME NEW r \in DOMAIN d.runs PROVE Superseded(e, r) <=> Superseded(d, r)
    OBVIOUS
  <2> QED BY <1>1 DEF Superseded
<1>5. ExpiredModules(e, t) = ExpiredModules(d, t)
  BY <1>1, <1>3 DEF ExpiredModules, StoreOK
<1>6. ExpiredRuns(e, t) = ExpiredRuns(d, t)
  BY <1>1, <1>2, <1>3, <1>4 DEF ExpiredRuns
<1>7. /\ ExpiredSamples(e, t) = ExpiredSamples(d, t) /\ ExpiredPayloads(e, t) = ExpiredPayloads(d, t)
      /\ UnusedScopes(e) = UnusedScopes(d)
  BY <1>1 DEF ExpiredSamples, ExpiredPayloads, UnusedScopes
<1> QED BY <1>5, <1>6, <1>7

LEMMA BatchEmpty ==
  ASSUME NEW d, NEW last \in Nat, StoreOK(d, last), NEW t,
         NEW d1 \in PurgeSamples(d, t), NEW d2 \in PurgePayloads(d1, t),
         NEW d3 \in PurgeModules(d2, t), NEW d4 \in PurgeRuns(d3, t), NEW d5 \in PurgeScopes(d4),
         Rows(d) - Rows(d5) = 0
  PROVE  NothingExpired(d5, t)
<1>1. StoreOK(d1, last) /\ Shrinks(d, d1)
  BY PurgeSamplesOK
<1>2. StoreOK(d2, last) /\ Shrinks(d1, d2)
  BY <1>1, PurgePayloadsOK
<1>3. StoreOK(d3, last) /\ Shrinks(d2, d3)
  BY <1>2, PurgeModulesOK
<1>4. StoreOK(d4, last) /\ Shrinks(d3, d4)
  BY <1>3, PurgeRunsOK
<1>5. StoreOK(d5, last) /\ Shrinks(d4, d5)
  BY <1>4, PurgeScopesOK
<1>6. Shrinks(d, d5)
  BY <1>1, <1>2, <1>3, <1>4, <1>5, ShrinksTrans
<1>7. Shrinks(d5, d)
  BY <1>6, ShrinksEqual
<1>8. /\ Shrinks(d1, d) /\ Shrinks(d2, d) /\ Shrinks(d3, d) /\ Shrinks(d4, d)
      /\ Shrinks(d, d2) /\ Shrinks(d, d3) /\ Shrinks(d, d4)
  BY <1>1, <1>2, <1>3, <1>4, <1>5, <1>7, ShrinksTrans
<1>9. ExpiredSamples(d, t) = {}
  <2>1. PICK D \in Top(ExpiredSamples(d, t)) : d1 = [d EXCEPT !.samples = @ \ D]
    BY DEF PurgeSamples
  <2>2. D \subseteq d.samples
    BY TopSubset DEF ExpiredSamples
  <2>3. d1.samples = d.samples \ D /\ d.samples \subseteq d1.samples
    BY <1>8, <2>1 DEF StoreOK, Shrinks
  <2>4. D = {}
    BY <2>2, <2>3
  <2>5. IsFiniteSet(ExpiredSamples(d, t))
    BY FS_Subset DEF ExpiredSamples, StoreOK
  <2> QED BY <2>1, <2>4, <2>5, EmptyTop
<1>10. ExpiredPayloads(d1, t) = {}
  <2>1. PICK D \in Top(ExpiredPayloads(d1, t)) : d2 = [d1 EXCEPT !.payloads = @ \ D]
    BY DEF PurgePayloads
  <2>2. D \subseteq d1.payloads
    BY TopSubset DEF ExpiredPayloads
  <2>3. d2.payloads = d1.payloads \ D /\ d1.payloads \subseteq d2.payloads
    BY <1>1, <1>8, <2>1 DEF StoreOK, Shrinks
  <2>4. D = {}
    BY <2>2, <2>3
  <2>5. IsFiniteSet(ExpiredPayloads(d1, t))
    BY <1>1, FS_Subset DEF ExpiredPayloads, StoreOK
  <2> QED BY <2>1, <2>4, <2>5, EmptyTop
<1>11. ExpiredModules(d2, t) = {}
  <2>1. PICK D \in Top(ExpiredModules(d2, t)) : d3 = [d2 EXCEPT !.modules = @ \ D]
    BY DEF PurgeModules
  <2>2. D \subseteq d2.modules
    BY TopSubset DEF ExpiredModules
  <2>3. d3.modules = d2.modules \ D /\ d2.modules \subseteq d3.modules
    BY <1>2, <1>8, <2>1 DEF StoreOK, Shrinks
  <2>4. D = {}
    BY <2>2, <2>3
  <2>5. IsFiniteSet(ExpiredModules(d2, t))
    BY <1>2, FS_Subset DEF ExpiredModules, StoreOK
  <2> QED BY <2>1, <2>4, <2>5, EmptyTop
<1>12. ExpiredRuns(d3, t) = {}
  <2>1. PICK D \in Top(ExpiredRuns(d3, t)) : d4 = [d3 EXCEPT !.runs = [r \in DOMAIN @ \ D |-> @[r]]]
    BY DEF PurgeRuns
  <2>2. D \subseteq DOMAIN d3.runs
    BY TopSubset DEF ExpiredRuns
  <2>3. DOMAIN d4.runs = DOMAIN d3.runs \ D /\ DOMAIN d3.runs \subseteq DOMAIN d4.runs
    <3>1. d4.runs = [r \in DOMAIN d3.runs \ D |-> d3.runs[r]]
      BY <1>3, <2>1 DEF StoreOK
    <3>2. DOMAIN d3.runs \subseteq DOMAIN d4.runs
      BY <1>8 DEF Shrinks
    <3> QED BY <3>1, <3>2
  <2>4. D = {}
    BY <2>2, <2>3
  <2>5. IsFiniteSet(ExpiredRuns(d3, t))
    <3>1. IsFiniteSet(1..last)
      BY FS_Interval
    <3>2. ExpiredRuns(d3, t) \in SUBSET (1..last)
      BY <1>3 DEF ExpiredRuns, StoreOK
    <3> QED BY <3>1, <3>2, FS_Subset
  <2> QED BY <2>1, <2>4, <2>5, EmptyTop
<1>13. UnusedScopes(d4) = {}
  <2>1. PICK D \in Top(UnusedScopes(d4)) : d5 = [d4 EXCEPT !.scopes = @ \ D]
    BY DEF PurgeScopes
  <2>2. D \subseteq d4.scopes
    BY TopSubset DEF UnusedScopes
  <2>3. d5.scopes = d4.scopes \ D /\ d4.scopes \subseteq d5.scopes
    <3>1. d5.scopes = d4.scopes \ D
      BY <1>4, <2>1 DEF StoreOK
    <3>2. d4.scopes \subseteq d.scopes /\ d.scopes \subseteq d5.scopes
      BY <1>7, <1>8 DEF Shrinks
    <3> QED BY <3>1, <3>2
  <2>4. D = {}
    BY <2>2, <2>3
  <2>5. IsFiniteSet(UnusedScopes(d4))
    BY <1>4, FS_Subset DEF UnusedScopes, StoreOK
  <2> QED BY <2>1, <2>4, <2>5, EmptyTop
<1>14. /\ ExpiredPayloads(d, t) = {} /\ ExpiredModules(d, t) = {}
       /\ ExpiredRuns(d, t) = {} /\ UnusedScopes(d) = {}
  BY <1>1, <1>8, <1>10, <1>11, <1>12, <1>13, SameExpired
<1> QED BY <1>6, <1>7, <1>9, <1>14, SameExpired DEF NothingExpired

(* A step of the purge: the call has no run yet. *)
LEMMA PurgeEvidence ==
  ASSUME EvidenceInv, DataInv', NEW s \in Session, NEW from \in Inside \intersect BeforeRun,
         NEW to \in {"batch", "close", "purgecatch", "purged"}, NEW x,
         Goto(s, from, to), Set(s, [call[s] EXCEPT !.purge = x]), UNCHANGED now,
         History(db', now), ReceiptsExact(purges'),
         \A c : c.purge = x => PurgePart(c, to, db', purges')
  PROVE  EvidenceInv'
<1> DEFINE c == [call[s] EXCEPT !.purge = x]
<1>1. CallShape(call[s]) /\ pc[s] = from /\ call[s].run = 0
  BY OwnCall, OutsideRun DEF EvidenceInv, Goto
<1>2. c.run = 0 /\ c.purge = x
  BY <1>1 DEF CallShape
<1>3. pc' = [pc EXCEPT ![s] = to] /\ call' = [call EXCEPT ![s] = c]
  BY DEF Goto, Set
<1> HIDE DEF c
<1>4. to \notin OfRun
  BY DEF OfRun, Completion
<1>5. RunPart(c, to, db', lastRun') /\ SourcePart(c, to, db', lastRun')
  BY <1>2, <1>4 DEF RunPart, SourcePart
<1>6. ReportPart(c, to, db') /\ PurgePart(c, to, db', purges')
  BY <1>2 DEF ReportPart
<1>7. CallEvidence(c, to, db', lastRun', purges')
  BY <1>5, <1>6 DEF CallEvidence
<1> QED BY <1>1, <1>3, <1>7, OwnEvidence

(* The call when it is in the purge. *)
LEMMA OwnPurge ==
  ASSUME EvidenceInv, NEW s \in Session
  PROVE  /\ CallShape(call[s]) /\ StoreOK(db, lastRun) /\ lastRun \in Nat /\ now \in Nat
         /\ purges \in Receipts /\ History(db, now) /\ ReceiptsExact(purges)
         /\ PurgePart(call[s], pc[s], db, purges)
  BY OwnCall DEF EvidenceInv, CallEvidence

LEMMA PurgeStartEvidence ==
  ASSUME EvidenceInv, DataInv', NEW s \in Session, PurgeStart(s) PROVE EvidenceInv'
<1>1. UNCHANGED <<now, lastRun, db>>
  BY DEF PurgeStart, NoWrites, StoreKept
<1>2. "purge" \in Inside \intersect BeforeRun
  BY DEF Inside, BeforeRun
<1>3. ASSUME NEW status \in {"TARGET_UNAVAILABLE", "SKIPPED_NOT_DUE"}, Goto(s, "purge", "purged"),
             Set(s, [call[s] EXCEPT !.purge.status = status]), UNCHANGED purges
      PROVE  EvidenceInv'
  <2> DEFINE x == [call[s].purge EXCEPT !.status = status]
  <2>1. x.status = status
    BY OwnPurge DEF CallShape
  <2>2. Set(s, [call[s] EXCEPT !.purge = x])
    BY <1>3
  <2> HIDE DEF x
  <2>3. \A c : c.purge = x => PurgePart(c, "purged", db', purges')
    BY <2>1 DEF PurgePart
  <2>4. History(db', now) /\ ReceiptsExact(purges')
    BY <1>1, <1>3, OwnPurge
  <2> QED BY <1>1, <1>2, <1>3, <2>2, <2>3, <2>4, PurgeEvidence
<1>4. ASSUME NEW id, id = Cardinality(DOMAIN purges) + 1, Goto(s, "purge", "batch"),
             Set(s, [call[s] EXCEPT !.purge = [NoPurge EXCEPT !.id = id, !.now = now]]),
             purges' = Append(purges, [status |-> "RUNNING", ended |-> None, rows |-> 0, removed |-> 0])
      PROVE  EvidenceInv'
  <2> DEFINE x == [NoPurge EXCEPT !.id = id, !.now = now]
             row == [status |-> "RUNNING", ended |-> None, rows |-> 0, removed |-> 0]
  <2>1. x = [id |-> id, now |-> now, batch |-> 0, rows |-> 0, deleted |-> 0, status |-> "AVAILABLE"]
    <3> DEFINE y == [NoPurge EXCEPT !.id = id]
    <3>1. y = [id |-> id, now |-> -1, batch |-> 0, rows |-> 0, deleted |-> 0, status |-> "AVAILABLE"]
      BY DEF NoPurge, None
    <3>2. x = [y EXCEPT !.now = now]
      OBVIOUS
    <3> HIDE DEF x, y
    <3> QED BY <3>1, <3>2
  <2>2. Set(s, [call[s] EXCEPT !.purge = x])
    BY <1>4
  <2> HIDE DEF x
  <2>3. id = Len(purges) + 1 /\ Len(purges) \in Nat
    <3>1. Len(purges) \in Nat /\ DOMAIN purges = 1..Len(purges)
      BY OwnPurge DEF Receipts
    <3> DEFINE n == Len(purges)
    <3>2. Cardinality(1..n) = n
      <4> HIDE DEF n
      <4>1. n \in Nat
        BY <3>1 DEF n
      <4>2. Cardinality(1..n) = IF 1 > n THEN 0 ELSE n - 1 + 1
        BY <4>1, FS_Interval
      <4> QED BY <4>1, <4>2
    <3> QED BY <1>4, <3>1, <3>2
  <2>4. id \in DOMAIN purges' /\ purges'[id] = row
        /\ \A i \in DOMAIN purges' : i = id \/ (i \in DOMAIN purges /\ purges'[i] = purges[i])
    <3>1. purges \in Receipts
      BY OwnPurge
    <3> HIDE DEF row
    <3>2. purges' = Append(purges, row)
      BY <1>4 DEF row
    <3> QED BY <2>3, <3>1, <3>2 DEF Receipts
  <2>5. row.status = "RUNNING" /\ row.removed = 0
    OBVIOUS
  <2> HIDE DEF row
  <2>6. \A c : c.purge = x => PurgePart(c, "batch", db', purges')
    BY <2>1, <2>4, <2>5 DEF PurgePart
  <2>7. ReceiptsExact(purges')
    BY <2>4, <2>5, OwnPurge DEF ReceiptsExact
  <2>8. History(db', now)
    BY <1>1, OwnPurge
  <2> QED BY <1>1, <1>2, <1>4, <2>2, <2>6, <2>7, <2>8, PurgeEvidence
<1> QED BY <1>3, <1>4 DEF PurgeStart, StoreKept

(* The receipt in progress is the one that a closing statement completes. *)
ReceiptEnded(old, status, t, n) == [old EXCEPT !.status = status, !.ended = t, !.rows = n]

LEMMA ReceiptRow ==
  ASSUME NEW P \in Receipts, NEW i \in DOMAIN P, NEW status, NEW t, NEW n, NEW row,
         row = ReceiptEnded(P[i], status, t, n)
  PROVE  row.status = status /\ row.rows = n /\ row.removed = P[i].removed
<1> DEFINE old == P[i]
           a == [old EXCEPT !.status = status]
           b == [a EXCEPT !.ended = t]
           R == [status : {"RUNNING", "AVAILABLE", "AVAILABLE_LIMITED", "ERROR_HANDLED"},
                 ended : Nat \union {None}, rows : Nat, removed : Nat]
<1>1. old \in R
  <2>1. P \in Seq(R)
    BY DEF Receipts
  <2> HIDE DEF R
  <2> QED BY <2>1
<1>2. row = [b EXCEPT !.rows = n]
  BY DEF ReceiptEnded
<1> HIDE DEF old
<1>3. old = [status |-> old.status, ended |-> old.ended, rows |-> old.rows, removed |-> old.removed]
  BY <1>1
<1>4. a = [status |-> status, ended |-> old.ended, rows |-> old.rows, removed |-> old.removed]
  BY <1>3
<1>5. b = [a EXCEPT !.ended = t]
  OBVIOUS
<1> HIDE DEF a, b
<1>6. b = [status |-> status, ended |-> t, rows |-> old.rows, removed |-> old.removed]
  BY <1>4, <1>5
<1>7. row = [status |-> status, ended |-> t, rows |-> n, removed |-> old.removed]
  BY <1>2, <1>6
<1> QED BY <1>7 DEF old

LEMMA ReceiptSame ==
  ASSUME NEW P \in Receipts, NEW i, i \notin DOMAIN P, NEW row PROVE [P EXCEPT ![i] = row] = P
  BY DEF Receipts

LEMMA ClosePurgeEvidence ==
  ASSUME EvidenceInv, DataInv', NEW s \in Session, ClosePurge(s) PROVE EvidenceInv'
<1> DEFINE p == call[s].purge
           i == p.id
           status == ClosingStatus(p)
           x == [p EXCEPT !.status = status]
<1>1. /\ UNCHANGED <<now, lastRun, db>> /\ Goto(s, "close", "purged") /\ pc[s] = "close"
      /\ Set(s, [call[s] EXCEPT !.purge = x])
      /\ purges' = [purges EXCEPT ![i] = [@ EXCEPT !.status = status, !.ended = now, !.rows = p.rows]]
  BY DEF ClosePurge, NoWrites, Goto, Receipt
<1>2. "close" \in Inside \intersect BeforeRun
  BY DEF Inside, BeforeRun
<1>3. /\ CallShape(call[s]) /\ purges \in Receipts /\ PurgePart(call[s], "close", db, purges)
      /\ History(db, now) /\ ReceiptsExact(purges)
  BY <1>1, OwnPurge
<1>4. /\ i \in DOMAIN purges /\ purges[i].removed = p.rows /\ p.deleted \in Nat /\ p.batch \in Nat
      /\ p.deleted = 0 => NothingExpired(db, p.now)
      /\ p.deleted # 0 => p.batch >= MaxBatches
  BY <1>3 DEF PurgePart
<1>5. x.status = status /\ x.now = p.now
  BY <1>3 DEF CallShape
<1> HIDE DEF x
<1>6. /\ status \in {"AVAILABLE", "AVAILABLE_LIMITED"}
      /\ status = "AVAILABLE" => NothingExpired(db, p.now)
  BY <1>4 DEF ClosingStatus
<1> HIDE DEF status
<1>7. /\ DOMAIN purges' = DOMAIN purges /\ \A j \in DOMAIN purges : j # i => purges'[j] = purges[j]
      /\ purges'[i].rows = p.rows /\ purges'[i].removed = purges[i].removed
  <2> DEFINE n == p.rows
             row == ReceiptEnded(purges[i], status, now, n)
  <2>1. purges' = [purges EXCEPT ![i] = row]
    BY <1>1 DEF ReceiptEnded
  <2>2. row.rows = n /\ row.removed = purges[i].removed
    <3> HIDE DEF i, n, row
    <3>1. row = ReceiptEnded(purges[i], status, now, n)
      BY DEF row
    <3> QED BY <1>3, <1>4, <3>1, ReceiptRow
  <2> HIDE DEF row
  <2> QED BY <1>4, <2>1, <2>2
<1>8. ReceiptsExact(purges')
  BY <1>3, <1>4, <1>7 DEF ReceiptsExact
<1>9. \A c : c.purge = x => PurgePart(c, "purged", db', purges')
  BY <1>1, <1>5, <1>6 DEF PurgePart
<1> QED BY <1>1, <1>2, <1>3, <1>8, <1>9, PurgeEvidence

LEMMA CatchPurgeEvidence ==
  ASSUME EvidenceInv, DataInv', NEW s \in Session, CatchPurge(s) PROVE EvidenceInv'
<1> DEFINE p == call[s].purge
           i == p.id
           x == [p EXCEPT !.status = "ERROR_HANDLED"]
<1>1. /\ UNCHANGED <<now, lastRun, db>> /\ Goto(s, "purgecatch", "purged")
      /\ Set(s, [call[s] EXCEPT !.purge = x])
      /\ purges' = [purges EXCEPT ![i] = [@ EXCEPT !.status = "ERROR_HANDLED", !.ended = now,
                                                   !.rows = p.rows]]
  BY DEF CatchPurge, NoWrites, Goto, Receipt
<1>2. "purgecatch" \in Inside \intersect BeforeRun
  BY DEF Inside, BeforeRun
<1>3. CallShape(call[s]) /\ purges \in Receipts /\ History(db, now) /\ ReceiptsExact(purges)
  BY OwnPurge
<1>4. x.status = "ERROR_HANDLED"
  BY <1>3 DEF CallShape
<1> HIDE DEF x
<1>5. ReceiptsExact(purges')
  <2>1. CASE i \notin DOMAIN purges
    <3>1. purges' = purges
      <4> HIDE DEF i
      <4> QED BY <1>1, <1>3, <2>1, ReceiptSame
    <3> QED BY <1>3, <3>1
  <2>2. CASE i \in DOMAIN purges
    <3>1. /\ DOMAIN purges' = DOMAIN purges /\ \A j \in DOMAIN purges : j # i => purges'[j] = purges[j]
          /\ purges'[i].status = "ERROR_HANDLED"
      <4> DEFINE n == p.rows
                 row == ReceiptEnded(purges[i], "ERROR_HANDLED", now, n)
      <4>1. purges' = [purges EXCEPT ![i] = row]
        BY <1>1 DEF ReceiptEnded
      <4>2. row.status = "ERROR_HANDLED"
        <5> HIDE DEF i, n, row
        <5>1. row = ReceiptEnded(purges[i], "ERROR_HANDLED", now, n)
          BY DEF row
        <5> QED BY <1>3, <2>2, <5>1, ReceiptRow
      <4> HIDE DEF row
      <4> QED BY <2>2, <4>1, <4>2
    <3> QED BY <1>3, <3>1 DEF ReceiptsExact
  <2> QED BY <2>1, <2>2
<1>6. \A c : c.purge = x => PurgePart(c, "purged", db', purges')
  BY <1>4 DEF PurgePart
<1> QED BY <1>1, <1>2, <1>3, <1>5, <1>6, PurgeEvidence

LEMMA AfterPurgeEvidence ==
  ASSUME EvidenceInv, DataInv', NEW s \in Session, AfterPurge(s) PROVE EvidenceInv'
<1> DEFINE old == call[s]
           x == [NoPurge EXCEPT !.status = old.purge.status]
<1>1. /\ UNCHANGED <<now, lastRun, db, purges>> /\ pc[s] = "purged"
      /\ CallShape(old) /\ PurgePart(old, "purged", db, purges) /\ History(db, now) /\ ReceiptsExact(purges)
  BY OwnPurge DEF AfterPurge, Quiet, NoWrites, StoreKept, Goto
<1>2. PICK to \in {"project", "prepare", "release"},
          outcome \in {old.purge.status, "AVAILABLE", "TARGET_UNAVAILABLE"} :
        /\ Goto(s, "purged", to) /\ Set(s, [old EXCEPT !.status = outcome, !.purge = x])
        /\ to \in {"project", "release"} => old.op = "PURGE" \/ outcome \notin Collected
  <2>1. {"TARGET_UNAVAILABLE", "ERROR_HANDLED"} \intersect Collected = {}
    BY DEF Collected
  <2>2. old.purge.status \in {"AVAILABLE", "AVAILABLE_LIMITED", "SKIPPED_NOT_DUE",
                              "TARGET_UNAVAILABLE", "ERROR_HANDLED"}
    BY <1>1 DEF PurgePart
  <2> QED BY <2>1, <2>2 DEF AfterPurge
<1> DEFINE a == [old EXCEPT !.status = outcome]
           c == [a EXCEPT !.purge = x]
<1>3. c = [op |-> old.op, force |-> old.force, run |-> old.run, status |-> outcome,
           src |-> old.src, purge |-> x]
  <2> HIDE DEF x, old
  <2>1. old = [op |-> old.op, force |-> old.force, run |-> old.run, status |-> old.status,
               src |-> old.src, purge |-> old.purge]
    BY <1>1 DEF CallShape
  <2>2. a = [op |-> old.op, force |-> old.force, run |-> old.run, status |-> outcome,
             src |-> old.src, purge |-> old.purge]
    BY <2>1
  <2>3. c = [a EXCEPT !.purge = x]
    OBVIOUS
  <2> HIDE DEF a, c
  <2> QED BY <2>2, <2>3
<1>4. x.status = old.purge.status
  <2>1. x = [id |-> 0, now |-> -1, batch |-> 0, rows |-> 0, deleted |-> 0, status |-> old.purge.status]
    BY DEF NoPurge, None
  <2> HIDE DEF x
  <2> QED BY <2>1
<1>5. Set(s, c)
  <2>1. [old EXCEPT !.status = outcome, !.purge = x] = c
    <3> HIDE DEF x
    <3> QED OBVIOUS
  <2> QED BY <1>2, <2>1
<1> HIDE DEF x, a, c
<1>6. c.run = 0 /\ c.op = old.op /\ c.status = outcome /\ c.purge.status = old.purge.status
  <2>1. old.run = 0
    BY <1>1, OutsideRun DEF BeforeRun, EvidenceInv
  <2> QED BY <1>3, <1>4, <2>1
<1>7. pc[s] \in Inside /\ to \notin OfRun
  BY <1>1, <1>2 DEF Inside, OfRun, Completion
<1>8. CallEvidence(c, to, db', lastRun', purges')
  <2>1. RunPart(c, to, db', lastRun') /\ SourcePart(c, to, db', lastRun')
    BY <1>2, <1>6, <1>7 DEF RunPart, SourcePart
  <2>2. ReportPart(c, to, db')
    BY <1>2, <1>6 DEF ReportPart
  <2>3. PurgePart(c, to, db', purges')
    BY <1>1, <1>2, <1>6 DEF PurgePart
  <2> QED BY <2>1, <2>2, <2>3 DEF CallEvidence
<1>9. pc' = [pc EXCEPT ![s] = to] /\ call' = [call EXCEPT ![s] = c]
  BY <1>2, <1>5 DEF Goto, Set
<1>10. History(db', now) /\ ReceiptsExact(purges') /\ UNCHANGED now
  BY <1>1
<1> QED BY <1>7, <1>8, <1>9, <1>10, OwnEvidence

(* A batch: the receipt counts what it removed, the call what it may stop at. *)
LEMMA BatchEvidence ==
  ASSUME EvidenceInv, DataInv', NEW s \in Session, Batch(s) PROVE EvidenceInv'
<1> DEFINE p == call[s].purge
<1>0. /\ CallShape(call[s]) /\ StoreOK(db, lastRun) /\ lastRun \in Nat /\ purges \in Receipts
      /\ PurgePart(call[s], "batch", db, purges) /\ History(db, now) /\ ReceiptsExact(purges)
      /\ UNCHANGED <<now, lastRun>> /\ pc[s] = "batch" /\ p.batch < MaxBatches
  <2>1. pc[s] = "batch"
    <3>1. \E to : Goto(s, "batch", to)
      BY Zenon DEF Batch
    <3> QED BY <3>1 DEF Goto
  <2> QED BY <2>1, OwnPurge DEF Batch, StoreKept
<1>1. "batch" \in Inside \intersect BeforeRun /\ MaxBatches \in Nat
  BY CycleAssumption DEF Inside, BeforeRun
<1>2. /\ p.status \in {"AVAILABLE", "AVAILABLE_LIMITED", "SKIPPED_NOT_DUE",
                       "TARGET_UNAVAILABLE", "ERROR_HANDLED"}
      /\ p.id \in DOMAIN purges /\ purges[p.id].status = "RUNNING" /\ p.batch \in Nat
      /\ purges[p.id].removed = p.rows /\ p.rows \in Nat
  BY <1>0 DEF PurgePart, CallShape
<1> DEFINE
      Done(d5) ==
        LET n == Rows(db) - Rows(d5)
            more == n # 0 /\ p.batch + 1 < MaxBatches
        IN /\ db' = d5
           /\ Goto(s, "batch", IF more THEN "batch" ELSE "close")
           /\ Set(s, [call[s] EXCEPT !.purge.batch = @ + 1, !.purge.rows = @ + n, !.purge.deleted = n])
           /\ purges' = [purges EXCEPT ![p.id].removed = @ + n]
           /\ UNCHANGED <<lastRun, faults>>
      Failed(d) ==
        /\ faults < MaxFaults /\ faults' = faults + 1
        /\ Goto(s, "batch", "purgecatch")
        /\ Set(s, [call[s] EXCEPT !.purge.rows = @ + (Rows(db) - Rows(d))])
        /\ StoreKept
      Ends(d1, d2, d3, d4, d5) == Done(d5) \/ \E d \in {db, d1, d2, d3, d4, d5} : Failed(d)
<1>3. PICK d1 \in PurgeSamples(db, p.now) :
        \E d2 \in PurgePayloads(d1, p.now) : \E d3 \in PurgeModules(d2, p.now) :
        \E d4 \in PurgeRuns(d3, p.now) : \E d5 \in PurgeScopes(d4) : Ends(d1, d2, d3, d4, d5)
  BY Zenon DEF Batch
<1>4. PICK d2 \in PurgePayloads(d1, p.now) :
        \E d3 \in PurgeModules(d2, p.now) : \E d4 \in PurgeRuns(d3, p.now) :
        \E d5 \in PurgeScopes(d4) : Ends(d1, d2, d3, d4, d5)
  BY <1>3
<1>5. PICK d3 \in PurgeModules(d2, p.now) : \E d4 \in PurgeRuns(d3, p.now) :
        \E d5 \in PurgeScopes(d4) : Ends(d1, d2, d3, d4, d5)
  BY <1>4
<1>6. PICK d4 \in PurgeRuns(d3, p.now) : \E d5 \in PurgeScopes(d4) : Ends(d1, d2, d3, d4, d5)
  BY <1>5
<1>7. PICK d5 \in PurgeScopes(d4) : Ends(d1, d2, d3, d4, d5)
  BY <1>6
<1>8. /\ Shrinks(db, d5) /\ Rows(db) - Rows(d5) \in Nat
      /\ Rows(db) - Rows(d5) = 0 => NothingExpired(d5, p.now)
  <2> HIDE DEF p
  <2>1. \A e \in {db, d1, d2, d3, d4, d5} : Shrinks(db, e) /\ Rows(db) - Rows(e) \in Nat
    BY <1>0, BatchOK
  <2> QED BY <1>0, <2>1, BatchEmpty
<1>9. ASSUME Done(d5) PROVE EvidenceInv'
  <2> DEFINE n == Rows(db) - Rows(d5)
             to == IF n # 0 /\ p.batch + 1 < MaxBatches THEN "batch" ELSE "close"
             x == [id |-> p.id, now |-> p.now, batch |-> p.batch + 1, rows |-> p.rows + n,
                   deleted |-> n, status |-> p.status]
             row == [purges[p.id] EXCEPT !.removed = @ + n]
  <2>1. /\ db' = d5 /\ Goto(s, "batch", to) /\ n \in Nat
        /\ Set(s, [call[s] EXCEPT !.purge.batch = @ + 1, !.purge.rows = @ + n, !.purge.deleted = n])
        /\ purges' = [purges EXCEPT ![p.id] = row]
    BY <1>8, <1>9
  <2>2. /\ to \in {"batch", "close"}
        /\ to = "close" => n = 0 \/ p.batch + 1 >= MaxBatches
    BY <1>1, <1>2
  <2>3. n = 0 => NothingExpired(db', p.now)
    BY <1>8, <2>1
  <2> HIDE DEF n, to
  <2>4. [call[s] EXCEPT !.purge.batch = @ + 1, !.purge.rows = @ + n, !.purge.deleted = n]
          = [call[s] EXCEPT !.purge = x]
    <3>1. [[[p EXCEPT !.batch = p.batch + 1] EXCEPT !.rows = p.rows + n] EXCEPT !.deleted = n] = x
      <4> HIDE DEF p
      <4>1. p = [id |-> p.id, now |-> p.now, batch |-> p.batch, rows |-> p.rows,
                 deleted |-> p.deleted, status |-> p.status]
        BY <1>0 DEF p, CallShape
      <4> DEFINE a == [p EXCEPT !.batch = p.batch + 1]
                 b == [a EXCEPT !.rows = p.rows + n]
      <4>2. a = [id |-> p.id, now |-> p.now, batch |-> p.batch + 1, rows |-> p.rows,
                 deleted |-> p.deleted, status |-> p.status]
        BY <4>1
      <4>3. b = [a EXCEPT !.rows = p.rows + n]
        OBVIOUS
      <4> HIDE DEF a, b
      <4>4. b = [id |-> p.id, now |-> p.now, batch |-> p.batch + 1, rows |-> p.rows + n,
                 deleted |-> p.deleted, status |-> p.status]
        BY <4>2, <4>3
      <4>5. [b EXCEPT !.deleted = n] = x
        BY <4>4
      <4> QED BY <4>5 DEF a, b
    <3> HIDE DEF x
    <3> QED BY <1>0, <3>1 DEF CallShape
  <2>5. Set(s, [call[s] EXCEPT !.purge = x])
    BY <2>1, <2>4
  <2>6. /\ x.id = p.id /\ x.now = p.now /\ x.batch = p.batch + 1 /\ x.rows = p.rows + n
        /\ x.deleted = n /\ x.status = p.status
    OBVIOUS
  <2> HIDE DEF x
  <2>7. row.status = "RUNNING" /\ row.removed = p.rows + n
    <3> DEFINE R == [status : {"RUNNING", "AVAILABLE", "AVAILABLE_LIMITED", "ERROR_HANDLED"},
                     ended : Nat \union {None}, rows : Nat, removed : Nat]
               old == purges[p.id]
    <3>1. old \in R
      <4>1. purges \in Seq(R)
        BY <1>0 DEF Receipts
      <4> HIDE DEF R, p
      <4> QED BY <1>2, <4>1
    <3>2. old.status = "RUNNING" /\ old.removed = p.rows
      BY <1>2
    <3>3. row = [old EXCEPT !.removed = old.removed + n]
      OBVIOUS
    <3> HIDE DEF old, row, p
    <3> QED BY <3>1, <3>2, <3>3
  <2> HIDE DEF row
  <2>8. /\ DOMAIN purges' = DOMAIN purges /\ purges'[p.id] = row
        /\ \A i \in DOMAIN purges : i # p.id => purges'[i] = purges[i]
    BY <1>2, <2>1
  <2>9. ReceiptsExact(purges')
    BY <1>0, <2>7, <2>8 DEF ReceiptsExact
  <2>10. \A c : c.purge = x => PurgePart(c, to, db', purges')
    <3> HIDE DEF p
    <3> SUFFICES ASSUME NEW c, c.purge = x PROVE PurgePart(c, to, db', purges')
      OBVIOUS
    <3>1. /\ c.purge.id \in DOMAIN purges' /\ purges'[c.purge.id].status = "RUNNING"
          /\ c.purge.batch \in Nat /\ purges'[c.purge.id].removed = c.purge.rows
          /\ c.purge.status \in {"AVAILABLE", "AVAILABLE_LIMITED", "SKIPPED_NOT_DUE",
                                 "TARGET_UNAVAILABLE", "ERROR_HANDLED"}
      BY <1>2, <2>6, <2>7, <2>8
    <3>2. to = "close" => /\ c.purge.deleted \in Nat
                          /\ c.purge.deleted = 0 => NothingExpired(db', c.purge.now)
                          /\ c.purge.deleted # 0 => c.purge.batch >= MaxBatches
      BY <2>1, <2>2, <2>3, <2>6
    <3> QED BY <2>2, <3>1, <3>2 DEF PurgePart
  <2>11. History(db', now)
    BY <1>0, <1>8, <2>1, HistoryShrinks
  <2>12. UNCHANGED now /\ Goto(s, "batch", to) /\ to \in {"batch", "close", "purgecatch", "purged"}
    BY <1>0, <2>1, <2>2
  <2>13. "batch" \in Inside \intersect BeforeRun
    BY <1>1
  <2> HIDE DEF p
  <2> QED BY <2>5, <2>9, <2>10, <2>11, <2>12, <2>13, PurgeEvidence
<1>10. ASSUME NEW d \in {db, d1, d2, d3, d4, d5}, Failed(d) PROVE EvidenceInv'
  <2> DEFINE x == [p EXCEPT !.rows = p.rows + (Rows(db) - Rows(d))]
  <2>1. UNCHANGED <<db, purges>> /\ Goto(s, "batch", "purgecatch")
        /\ Set(s, [call[s] EXCEPT !.purge = x])
    BY <1>10 DEF StoreKept
  <2>2. x.status = p.status
    BY <1>0 DEF CallShape
  <2> HIDE DEF x
  <2>3. \A c : c.purge = x => PurgePart(c, "purgecatch", db', purges')
    BY <1>2, <2>2 DEF PurgePart
  <2>4. History(db', now) /\ ReceiptsExact(purges')
    BY <1>0, <2>1
  <2> QED BY <1>0, <1>1, <2>1, <2>3, <2>4, PurgeEvidence
<1> QED BY <1>7, <1>9, <1>10

-----------------------------------------------------------------------------
(* Every step, and every state. *)
LEMMA StepEvidence ==
  ASSUME EvidenceInv, DataInv', NEW s \in Session, Step(s) PROVE EvidenceInv'
<1>1. CASE PurgeStep(s)
  BY <1>1, PurgeStartEvidence, BatchEvidence, ClosePurgeEvidence, CatchPurgeEvidence,
     AfterPurgeEvidence DEF PurgeStep
<1>2. CASE Acquire(s) \/ Release(s) \/ Prepare(s) \/ RefusedModule(s)
  BY <1>2, AcquireEvidence, ReturnEvidence, PrepareEvidence, RefusedEvidence
<1>3. CASE CounterStep(s)
  BY <1>3, ReadCountersEvidence, CounterScopesEvidence, CounterRawEvidence,
     CounterInterpretedEvidence, CounterPayloadEvidence, CounterRunEvidence,
     CounterModuleEvidence, FinalizeEvidence DEF CounterStep
<1>4. CASE NativeStep(s)
  BY <1>4, AdmitEvidence, ReadNativeEvidence, NativeCompleteEvidence, CatchNativeEvidence
     DEF NativeStep
<1>5. CASE Project(s) \/ Catch(s) \/ Raise(s)
  BY <1>5, ProjectEvidence, CatchEvidence, RaiseEvidence
<1> QED BY <1>1, <1>2, <1>3, <1>4, <1>5 DEF Step

LEMMA NextEvidence == EvidenceInv /\ [Next]_vars => EvidenceInv'
<1> SUFFICES ASSUME EvidenceInv, [Next]_vars PROVE EvidenceInv'
  OBVIOUS
<1>1. DataInv'
  BY NextData DEF EvidenceInv
<1>2. ASSUME UNCHANGED vars PROVE EvidenceInv'
  <2>1. UNCHANGED <<now, db, lastRun, purges, pc, call>>
    BY <1>2 DEF vars
  <2> QED BY <1>1, <2>1 DEF EvidenceInv
<1>3. ASSUME NEW s \in Session, Start(s) PROVE EvidenceInv'
  <2>1. CASE Decline(s)
    BY <1>2, <2>1 DEF Decline
  <2>2. ASSUME NEW op \in Operations, NEW force \in BOOLEAN, Call(s, op, force) PROVE EvidenceInv'
    BY <1>1, <2>2, CallStarts
  <2> QED BY <1>3, <2>1, <2>2 DEF Start
<1>4. ASSUME NEW s \in Session, Step(s) PROVE EvidenceInv'
  BY <1>1, <1>4, StepEvidence
<1>5. ASSUME NEW s \in Session, Cancel(s) \/ Disconnect(s) PROVE EvidenceInv'
  BY <1>1, <1>5, ReturnEvidence
<1>6. CASE Restart \/ Tick
  BY <1>1, <1>6, RestartEvidence
<1> QED BY <1>2, <1>3, <1>4, <1>5, <1>6 DEF Next

LEMMA AlwaysEvidence == Spec => []EvidenceInv
<1> QED BY InitEvidence, NextEvidence, PTL DEF Spec

-----------------------------------------------------------------------------
(* A run that has ended counts every sample ever written for it, and one that is *)
(* AVAILABLE has every sample its source read called for, in its epoch.          *)
THEOREM EvidenceTheorem == Spec => []EvidenceIsExact
<1>1. EvidenceInv => EvidenceIsExact
  BY DEF EvidenceInv, History, RunHistory, Measured, EvidenceIsExact
<1> QED BY AlwaysEvidence, <1>1, PTL

(* Runs that saw the same start of the server are in the same epoch, though the *)
(* epoch is read in one statement and written to the run in a later one.        *)
THEOREM EpochTheorem == Spec => []EpochAgrees
<1>1. EvidenceInv => EpochAgrees
  BY DEF EvidenceInv, History, SameEpoch, EpochAgrees
<1> QED BY AlwaysEvidence, <1>1, PTL

(* A collection nobody forced begins no earlier than the interval after the end *)
(* of the earlier runs that count, whoever collected them.                      *)
THEOREM EarlyTheorem == Spec => []NeverEarly
<1>1. EvidenceInv => NeverEarly
  BY DEF EvidenceInv, History, Collects, Due, NeverEarly
<1> QED BY AlwaysEvidence, <1>1, PTL

(* A reported collection has the finalized run it speaks of, a purge reported as *)
(* complete left nothing expired, and receipts count what was removed.           *)
THEOREM ReportTheorem == Spec => []ReportsAreTrue
<1>1. EvidenceInv => ReportsAreTrue
  <2> SUFFICES ASSUME EvidenceInv PROVE ReportsAreTrue
    OBVIOUS
  <2>1. \A s \in Session : ReportPart(call[s], pc[s], db) /\ PurgePart(call[s], pc[s], db, purges)
    BY DEF EvidenceInv, CallEvidence
  <2>2. ASSUME NEW s \in Session, pc[s] = "release", call[s].op # "PURGE",
               call[s].status \in {"AVAILABLE", "PARTIAL"}
        PROVE  /\ call[s].run \in DOMAIN db.runs /\ db.runs[call[s].run].ended # None
               /\ db.runs[call[s].run].status = call[s].status
    BY <2>1, <2>2 DEF ReportPart, Collected
  <2>3. ASSUME NEW s \in Session, pc[s] = "purged", call[s].purge.status = "AVAILABLE"
        PROVE  NothingExpired(db, call[s].purge.now)
    BY <2>1, <2>3 DEF PurgePart
  <2>4. ReceiptsExact(purges)
    BY DEF EvidenceInv
  <2> QED BY <2>2, <2>3, <2>4 DEF ReportsAreTrue, ReceiptsExact
<1> QED BY AlwaysEvidence, <1>1, PTL
=============================================================================
