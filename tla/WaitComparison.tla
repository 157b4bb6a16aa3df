--------------------------- MODULE WaitComparison ---------------------------
(***************************************************************************)
(* How a WAIT_STATS capture is compared with the one before it             *)
(* (InternalRunSnapshotWaitStatsCycle, InternalCompleteWaitStatsCycle).    *)
(* The engine's wait counters only grow, until the engine restarts or      *)
(* somebody clears them unseen.  A capture reads them inside a time window *)
(* and writes raw rows and one context row.  The next capture re-validates *)
(* the stored context and rows of the newest finalized run, decides        *)
(* whether differences to it mean anything, and keeps or renews the reset  *)
(* epoch.  Between two captures the purge may delete any expired rows.     *)
(*                                                                         *)
(* One framework database writes to the target, as the package's documents *)
(* have it: its applock keeps captures and purges apart, so one cycle is   *)
(* under way at a time.  The four counters of a wait type, and their four  *)
(* raw rows, are one; the engine's name and start identity are a number;   *)
(* Scope rows are the types they stand for; the hash of the raw rows is    *)
(* the rows.  A run number is its identity; 0 is NULL for a run or version.*)
(***************************************************************************)
EXTENDS Integers, FiniteSets, FiniteSetsExt

CONSTANTS
  Types,      \* wait types, ordered as their names are
  MaxRows,    \* values CollectorPolicy.MaxRows is given, at any time
  Retention,  \* values RetentionPolicy.RawRetentionDays is given
  MaxRuns, MaxClock, MaxBack, MaxCount, MaxEngine \* bounds of the model

ASSUME WaitAssumption ==
  /\ Types \subseteq Nat /\ IsFiniteSet(Types)
  /\ MaxRows \subseteq Nat \ {0} /\ Retention \subseteq Nat \ {0}
  /\ {MaxRuns, MaxClock, MaxBack, MaxCount, MaxEngine} \subseteq Nat

VARIABLES
  clock, backs,  \* SYSUTCDATETIME, and how often it was set back
  engine,        \* the start identity of the running engine
  counters,      \* sys.dm_os_wait_stats: what a wait type has counted
  last,          \* the identity last given to a run
  runs,          \* CaptureRun rows of the collector
  store,         \* the MetricSample rows of each run
  cycle,         \* the capture under way
  taken          \* history: what every finalized run read and decided

vars == <<clock, backs, engine, counters, last, runs, store, cycle, taken>>

None == -1     \* NULL for a time or an epoch
Nothing == [t \in {} |-> 0]
Empty == [at |-> None, raw |-> Nothing, delta |-> Nothing, cand |-> Nothing, ctx |-> {}]
Idle == [pc |-> "idle", run |-> 0, start |-> None, end |-> None, engine |-> 0, seen |-> Nothing,
         limit |-> 0]

Put(f, x, y) == [z \in DOMAIN f \union {x} |-> IF z = x THEN y ELSE f[z]]
Without(f, x) == [z \in DOMAIN f \ {x} |-> f[z]]
On(f, S) == [z \in S |-> f[z]]

-----------------------------------------------------------------------------
(* The run a capture is compared with. *)

Finalized == {r \in DOMAIN runs : runs[r].ended # None}

(* Mutant: a failed run is passed over for an older green one. *)
PreviousGreen(r) ==
  LET older == {q \in Finalized : q < r /\ runs[q].status = "PARTIAL"}
  IN IF older = {} THEN 0 ELSE Max(older)

(* The newest finalized run of any outcome. *)
Previous(r) ==
  LET older == {q \in Finalized : q < r}
  IN IF older = {} THEN 0 ELSE Max(older)

NumberOfSamples(s) ==
  Cardinality(DOMAIN s.raw) + Cardinality(DOMAIN s.delta) + Cardinality(DOMAIN s.cand)
    + Cardinality(s.ctx)

Active(f) == {t \in DOMAIN f : f[t] > 0}
Hints(p) == IF p = 0 THEN {} ELSE DOMAIN store[p].raw \union DOMAIN store[p].delta \union DOMAIN store[p].cand

(* Mutant: every written type is thought to count now. *)
CountsAgreeActive(c, row) ==
  /\ c.comparable <= c.written /\ c.written <= c.active /\ c.active <= c.eligible
  /\ c.eligible <= c.native
  /\ c.limited <=> c.written < c.eligible
  /\ row.count = 2 * c.written + c.comparable + 1

(* A context's counts, as they must agree with each other and with the run. *)
CountsAgree(c, row) ==
  /\ c.comparable <= c.written /\ c.written <= c.eligible /\ c.eligible <= c.native
  /\ c.active <= c.eligible
  /\ c.eligible > 0 => c.written > 0
  /\ c.limited <=> c.written < c.eligible
  /\ row.count = 2 * c.written + c.comparable + 1

(* Its counts, its status and its epoch decision. *)
DecisionAgrees(c) ==
  LET compared == {"NO_COMPARABLE_TYPES", "MONOTONIC_CONTINUITY_UNPROVEN"}
  IN /\ c.native = 0 <=> c.status = "SOURCE_EMPTY_UNPROVEN"
     /\ c.limited <=> c.status = "WRITE_LIMITED"
     /\ c.comparable > 0 <=> c.status = "MONOTONIC_CONTINUITY_UNPROVEN"
     /\ c.status = "FIRST_OBSERVATION" => c.parent = 0
     /\ c.parent = 0 <=> c.decision = "NEW_FIRST"
     /\ c.parent = 0 => /\ c.version = 0
                        /\ c.status \in {"SOURCE_EMPTY_UNPROVEN", "WRITE_LIMITED", "FIRST_OBSERVATION"}
     /\ c.decision = "RETAIN_CONTEXT" <=> c.status \in compared
     /\ c.decision \in {"RETAIN_CONTEXT", "NEW_ENGINE_CONTEXT", "NEW_COUNTER_DECREASE"} => c.version = 1
     /\ c.native = 0 => c.decision # "NEW_COUNTER_DECREASE"
     /\ c.status = "ENGINE_CONTEXT_CHANGED" => c.decision = "NEW_ENGINE_CONTEXT"
     /\ c.status = "COUNTER_DECREASE" => c.decision = "NEW_COUNTER_DECREASE"

(* @ContextValid before the run's own status is looked at. *)
ContextSound(p) ==
  \E c \in store[p].ctx :
    /\ c.run = p /\ c.epoch = runs[p].epoch
    /\ runs[p].started <= c.start /\ c.start <= c.end /\ c.end <= runs[p].ended
    /\ store[p].at = c.end
    /\ c.parent < p
    /\ CountsAgree(c, runs[p])
    /\ DecisionAgrees(c)

(* @RawValid: every row the context speaks of is still there, and no other. *)
RawSound(p) ==
  LET s == store[p]
  IN \E c \in s.ctx :
       /\ NumberOfSamples(s) = runs[p].count
       /\ Cardinality(Hints(p)) = c.written
       /\ DOMAIN s.raw = Hints(p) /\ DOMAIN s.delta = Hints(p)
       /\ \A t \in DOMAIN s.delta :
            /\ t \in DOMAIN s.cand <=> s.delta[t] = "MONOTONIC_CONTINUITY_UNPROVEN"
            /\ IF c.status \in {"NO_COMPARABLE_TYPES", "MONOTONIC_CONTINUITY_UNPROVEN"}
               THEN s.delta[t] \in {"FIRST_OBSERVATION", "MONOTONIC_CONTINUITY_UNPROVEN"}
               ELSE s.delta[t] = c.status
       /\ Cardinality(DOMAIN s.cand) = c.comparable
       /\ Cardinality(Active(s.raw)) <= c.active
       /\ ~c.limited => Cardinality(Active(s.raw)) = c.active
       /\ s.raw = c.hash

ContextValid(p) == p # 0 /\ runs[p].status = "PARTIAL" /\ ContextSound(p)
RawValid(p) == ContextValid(p) /\ RawSound(p)

(* The schema version of the one context row found, valid or not. *)
ContextVersion(p) == IF p # 0 /\ store[p].ctx # {} THEN 1 ELSE 0

-----------------------------------------------------------------------------
(* What is written, and how it compares; k is the capture. *)

(* Zeros of the types the previous run wrote are kept. *)
Eligible(k) ==
  LET hints == Hints(Previous(k.run))
  IN {t \in DOMAIN k.seen : k.seen[t] > 0 \/ t \in hints}

Selected(k) ==
  LET eligible == Eligible(k)
  IN {t \in eligible : Cardinality({u \in eligible : u <= t}) <= k.limit}

Limited(k) == Cardinality(Selected(k)) < Cardinality(Eligible(k))

(* @PreviousTechnicalPartial *)
PreviousPartial(p) ==
  p # 0 /\ \/ runs[p].status # "PARTIAL"
           \/ ContextSound(p) /\ \E c \in store[p].ctx : c.limited \/ c.native = 0

EngineChanged(k, p) == ContextValid(p) /\ \E c \in store[p].ctx : c.engine # k.engine

(* Mutant: windows may overlap. *)
OverlapAllowed(k, p) == \E c \in store[p].ctx : k.end <= c.end

IntervalInvalid(k, p) == \E c \in store[p].ctx : k.start < c.end \/ k.end <= c.end

TypeMissing(k, p) == RawValid(p) /\ ~(DOMAIN store[p].raw \subseteq DOMAIN k.seen)
CounterDecrease(k, p) ==
  /\ RawValid(p) /\ ~EngineChanged(k, p)
  /\ \E t \in DOMAIN store[p].raw \intersect DOMAIN k.seen : k.seen[t] < store[p].raw[t]

Comparable(k, p) == Selected(k) \intersect Hints(p)

(* The global status: the first reason that applies. *)
ComparisonStatus(k) ==
  LET p == Previous(k.run)
  IN IF k.seen = Nothing THEN "SOURCE_EMPTY_UNPROVEN"
     ELSE IF Limited(k) THEN "WRITE_LIMITED"
     ELSE IF p = 0 THEN "FIRST_OBSERVATION"
     ELSE IF PreviousPartial(p) THEN "PREVIOUS_CAPTURE_PARTIAL"
     ELSE IF ~ContextValid(p) THEN "PREVIOUS_CONTEXT_INVALID"
     ELSE IF ~RawValid(p) THEN "PREVIOUS_RAW_INCOMPLETE"
     ELSE IF EngineChanged(k, p) THEN "ENGINE_CONTEXT_CHANGED"
     ELSE IF IntervalInvalid(k, p) THEN "INTERVAL_NOT_POSITIVE"
     ELSE IF TypeMissing(k, p) THEN "WAIT_TYPE_MISSING"
     ELSE IF CounterDecrease(k, p) THEN "COUNTER_DECREASE"
     ELSE IF Comparable(k, p) = {} THEN "NO_COMPARABLE_TYPES"
     ELSE "MONOTONIC_CONTINUITY_UNPROVEN"

EpochDecision(k) ==
  LET p == Previous(k.run)
  IN IF p = 0 THEN "NEW_FIRST"
     ELSE IF EngineChanged(k, p) THEN "NEW_ENGINE_CONTEXT"
     ELSE IF CounterDecrease(k, p) THEN "NEW_COUNTER_DECREASE"
     ELSE IF ComparisonStatus(k) \in
               {"SOURCE_EMPTY_UNPROVEN", "WRITE_LIMITED", "PREVIOUS_CAPTURE_PARTIAL",
                "PREVIOUS_CONTEXT_INVALID", "PREVIOUS_RAW_INCOMPLETE",
                "INTERVAL_NOT_POSITIVE", "WAIT_TYPE_MISSING"} THEN "NEW_COMPARISON_BREAK"
     ELSE "RETAIN_CONTEXT"

(* Types that get a difference to the previous run. *)
Compared(k) ==
  IF ComparisonStatus(k) = "MONOTONIC_CONTINUITY_UNPROVEN" THEN Comparable(k, Previous(k.run)) ELSE {}

(* NEWID gives an epoch no run ever had. *)
Epoch(k) == IF EpochDecision(k) = "RETAIN_CONTEXT" THEN runs[Previous(k.run)].epoch ELSE k.run

(* The rows a completed capture leaves. *)
Captured(k) ==
  LET p == Previous(k.run)
      status == ComparisonStatus(k)
      selected == Selected(k)
      compared == Compared(k)
  IN [at |-> k.end,
      raw |-> On(k.seen, selected),
      delta |-> [t \in selected |->
                   IF status \in {"NO_COMPARABLE_TYPES", "MONOTONIC_CONTINUITY_UNPROVEN"} /\ t \notin compared
                   THEN "FIRST_OBSERVATION" ELSE status],
      cand |-> [t \in compared |-> k.seen[t] - store[p].raw[t]],
      ctx |-> {[run |-> k.run, epoch |-> Epoch(k), engine |-> k.engine,
                start |-> k.start, end |-> k.end,
                native |-> Cardinality(DOMAIN k.seen), active |-> Cardinality(Active(k.seen)),
                eligible |-> Cardinality(Eligible(k)), written |-> Cardinality(selected),
                limited |-> Limited(k), hash |-> On(k.seen, selected),
                parent |-> p, version |-> ContextVersion(p), status |-> status,
                comparable |-> Cardinality(compared), decision |-> EpochDecision(k)]}]

-----------------------------------------------------------------------------
Init ==
  /\ clock = 0 /\ backs = 0 /\ engine = 1 /\ last = 0
  /\ counters = [t \in Types |-> 0]
  /\ runs = <<>> /\ store = <<>> /\ cycle = Idle /\ taken = <<>>

(* A reading of the clock: later than the one before, unless it was set back. *)
Reads(now) ==
  \/ now \in clock..MaxClock /\ clock' = now /\ UNCHANGED backs
  \/ now \in 0..(clock - 1) /\ backs < MaxBack /\ clock' = now /\ backs' = backs + 1

(* DBCC SQLPERF clears the counters; the start identity does not show it. *)
Clear ==
  /\ counters' = [t \in Types |-> 0]
  /\ UNCHANGED <<clock, backs, engine, last, runs, store, cycle, taken>>

(* The sessions die with the engine, and the run stays RUNNING. *)
Restart ==
  /\ engine < MaxEngine
  /\ engine' = engine + 1 /\ counters' = [t \in Types |-> 0] /\ cycle' = Idle
  /\ UNCHANGED <<clock, backs, last, runs, store, taken>>

-----------------------------------------------------------------------------
(* InternalPrepareCollectionCycle admits the capture and opens its run. *)
Open ==
  /\ cycle.pc = "idle" /\ last < MaxRuns
  /\ last' = last + 1
  /\ \E now \in 0..MaxClock :
       /\ Reads(now)
       /\ runs' = Put(runs, last', [started |-> now, ended |-> None, status |-> "RUNNING",
                                    epoch |-> None, count |-> 0])
  /\ store' = Put(store, last', Empty)
  /\ cycle' = [Idle EXCEPT !.pc = "opened", !.run = last']
  /\ UNCHANGED <<engine, counters, taken>>

(* The start time, then the engine's identity. *)
ReadStart ==
  /\ cycle.pc = "opened"
  /\ \E now \in 0..MaxClock :
       /\ Reads(now)
       /\ cycle' = [cycle EXCEPT !.pc = "reading", !.start = now, !.engine = engine]
  /\ UNCHANGED <<engine, counters, last, runs, store, taken>>

(* The enumeration is no atomic view: each type shows what it counts by then, *)
(* and a busy one has counted on since it was last looked at.                 *)
ReadType ==
  /\ cycle.pc = "reading"
  /\ \E t \in Types \ DOMAIN cycle.seen : \E n \in counters[t]..MaxCount :
       /\ counters' = [counters EXCEPT ![t] = n]
       /\ cycle' = [cycle EXCEPT !.seen = Put(@, t, n)]
  /\ UNCHANGED <<clock, backs, engine, last, runs, store, taken>>

(* The enumeration is over, whichever types it has shown. *)
ReadEnd ==
  /\ cycle.pc = "reading" /\ cycle.engine = engine
  /\ \E now \in cycle.start..MaxClock :
       /\ Reads(now)
       /\ cycle' = [cycle EXCEPT !.pc = "read", !.end = now]
  /\ UNCHANGED <<engine, counters, last, runs, store, taken>>

(* The read fails, or its window runs backwards: nothing read is kept. *)
ReadFails ==
  /\ cycle.pc = "reading"
  /\ cycle' = [Idle EXCEPT !.pc = "unread", !.run = cycle.run]
  /\ UNCHANGED <<clock, backs, engine, counters, last, runs, store, taken>>

-----------------------------------------------------------------------------
(* InternalCompleteWaitStatsCycle: one transaction, finalizing or rolled back. *)
Complete ==
  /\ cycle.pc = "read" /\ runs[cycle.run].started <= cycle.start
  /\ \E rows \in {Captured([cycle EXCEPT !.limit = limit]) : limit \in MaxRows} :
       \E c \in rows.ctx, now \in cycle.end..MaxClock :
         /\ Reads(now)
         /\ runs' = [runs EXCEPT ![c.run] = [@ EXCEPT !.ended = now, !.status = "PARTIAL",
                                             !.epoch = c.epoch, !.count = NumberOfSamples(rows)]]
         /\ store' = [store EXCEPT ![c.run] = rows]
         /\ taken' = Put(taken, c.run, [read |-> TRUE, cut |-> c.limited, thinned |-> FALSE,
                                        epoch |-> c.epoch, engine |-> c.engine,
                                        start |-> c.start, end |-> c.end, seen |-> cycle.seen,
                                        written |-> DOMAIN rows.raw, status |-> c.status])
  /\ cycle' = Idle
  /\ UNCHANGED <<engine, counters, last>>

(* A run without samples or an epoch; the next capture sees it all the same. *)
EndsEmpty(r) ==
  /\ \E now \in 0..MaxClock :
       /\ Reads(now)
       /\ runs' = [runs EXCEPT ![r] = [@ EXCEPT !.ended = now, !.status = "ERROR_HANDLED"]]
  /\ taken' = Put(taken, r, [read |-> FALSE, cut |-> FALSE, thinned |-> FALSE, epoch |-> None,
                             engine |-> 0, start |-> None, end |-> None, seen |-> Nothing,
                             written |-> {}, status |-> "ERROR_HANDLED"])

(* The source did not deliver (FinalizeWithoutMetrics). *)
FinalizeUnread ==
  /\ cycle.pc = "unread"
  /\ EndsEmpty(cycle.run) /\ cycle' = Idle
  /\ UNCHANGED <<engine, counters, last, store>>

(* A write fails, or the window does not fit the run and the clock. *)
CompleteFails ==
  /\ cycle.pc \in {"read", "unread"}
  /\ cycle' = [Idle EXCEPT !.pc = "failed", !.run = cycle.run]
  /\ UNCHANGED <<clock, backs, engine, counters, last, runs, store, taken>>

(* The failure is recorded in a second transaction ... *)
FinalizeFailure ==
  /\ cycle.pc = "failed"
  /\ EndsEmpty(cycle.run) /\ cycle' = Idle
  /\ UNCHANGED <<engine, counters, last, store>>

(* ... unless that fails too, or the session ends: the run stays RUNNING. *)
Abandon ==
  /\ cycle.pc # "idle"
  /\ cycle' = Idle
  /\ UNCHANGED <<clock, backs, engine, counters, last, runs, store, taken>>

-----------------------------------------------------------------------------
(* InternalPurgeExpiredData under the same applock: any expired samples, one by *)
(* one here, then runs without samples (modules and payloads have gone before). *)
PurgeSample ==
  /\ cycle.pc = "idle"
  /\ \E now \in 0..MaxClock, r \in DOMAIN store, days \in Retention :
       LET s == store[r]
           rest == {[s EXCEPT !.raw = Without(@, t)] : t \in DOMAIN s.raw}
                     \union {[s EXCEPT !.delta = Without(@, t)] : t \in DOMAIN s.delta}
                     \union {[s EXCEPT !.cand = Without(@, t)] : t \in DOMAIN s.cand}
                     \union {[s EXCEPT !.ctx = @ \ {c}] : c \in s.ctx}
       IN /\ Reads(now) /\ s.at < now - days
          /\ \E left \in rest : store' = [store EXCEPT ![r] = left]
          /\ taken' = [taken EXCEPT ![r].thinned = TRUE]
  /\ UNCHANGED <<engine, counters, last, runs, cycle>>

(* The newest finalized run is retained. *)
Superseded(r) == runs[r].ended = None \/ \E later \in Finalized : later > r

PurgeRun ==
  /\ cycle.pc = "idle"
  /\ \E now \in 0..MaxClock, r \in DOMAIN runs, days \in Retention :
       /\ Reads(now) /\ runs[r].started < now - days
       /\ NumberOfSamples(store[r]) = 0 /\ Superseded(r)
       /\ runs' = Without(runs, r) /\ store' = Without(store, r)
  /\ UNCHANGED <<engine, counters, last, cycle, taken>>

-----------------------------------------------------------------------------
Capture ==
  \/ Open \/ ReadStart \/ ReadType \/ ReadEnd \/ ReadFails
  \/ Complete \/ FinalizeUnread \/ CompleteFails \/ FinalizeFailure \/ Abandon

Next == Clear \/ Restart \/ Capture \/ PurgeSample \/ PurgeRun
Spec == Init /\ [][Next]_vars

-----------------------------------------------------------------------------
(* The captures that finalized, in the order of their runs. *)
Before(r) == {q \in DOMAIN taken : q < r}
LastBefore(r) == Max(Before(r))

(* A stored difference is what the counter gained, without a restart, between *)
(* two windows that do not overlap: this capture's and that of the run that   *)
(* finalized directly before it, whatever failed, crashed or was purged.      *)
CandidatesAreIncrements ==
  \A r \in DOMAIN store : \A t \in DOMAIN store[r].cand :
    /\ Before(r) # {}
    /\ LET now == taken[r]
           before == taken[LastBefore(r)]
       IN /\ before.read /\ before.engine = now.engine
          /\ before.end <= now.start /\ before.end < now.end
          /\ t \in DOMAIN before.seen \intersect DOMAIN now.seen
          /\ store[r].cand[t] = now.seen[t] - before.seen[t]
          /\ store[r].cand[t] >= 0

(* The captures of one epoch follow each other without another between them,   *)
(* from one engine start, in windows in order; none that follows lacks a type  *)
(* an earlier one wrote, or shows it counted down.                             *)
EpochIsOneHistory ==
  \A q, r \in DOMAIN taken :
    (q < r /\ taken[q].read /\ taken[q].epoch = taken[r].epoch) =>
      /\ taken[q].engine = taken[r].engine
      /\ taken[q].end <= taken[r].start /\ taken[q].end < taken[r].end
      /\ \A t \in taken[q].written : t \in taken[r].written /\ taken[q].seen[t] <= taken[r].seen[t]
      /\ \A between \in DOMAIN taken : q < between /\ between < r => taken[between].epoch = taken[r].epoch

(* A comparison is refused only for a cause: if two complete captures that kept *)
(* all their rows follow each other under one engine, in order, and every type  *)
(* the first wrote is in the second and no lower, the differences are written.  *)
ComparableIsCompared ==
  \A r \in DOMAIN taken :
    LET now == taken[r]
        before == taken[LastBefore(r)]
    IN (/\ Before(r) # {} /\ now.read /\ before.read
        /\ ~now.cut /\ ~before.cut /\ ~before.thinned
        /\ before.engine = now.engine /\ before.end <= now.start /\ before.end < now.end
        /\ before.written # {} /\ before.written \subseteq DOMAIN now.seen
        /\ \A t \in before.written : before.seen[t] <= now.seen[t])
       => now.status = "MONOTONIC_CONTINUITY_UNPROVEN"

=============================================================================
