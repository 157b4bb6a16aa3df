--------------------------- MODULE SnapshotStore ---------------------------
(***************************************************************************)
(* The tables of a snapshot target database and what the target procedures *)
(* read from and write to them, as operators without state.                *)
(*                                                                         *)
(* A store is a record                                                     *)
(*   runs     CaptureRun: id -> row (identities are never reused)          *)
(*   samples  MetricSample rows                                            *)
(*   payloads PayloadSnapshot rows                                         *)
(*   modules  ModuleStatus rows (row numbers the rows of one run)          *)
(*   scopes   the Scope rows below the SERVER scope, which is never purged *)
(* Times are ticks of one clock; DENIED_PERMISSION and the other handled   *)
(* errors are the one status ERROR_HANDLED, since nothing here tells them  *)
(* apart.                                                                  *)
(***************************************************************************)
EXTENDS Integers, FiniteSets, FiniteSetsExt

CONSTANTS
  Interval,          \* CollectorPolicy.CollectionIntervalSeconds
  RawRetention,      \* RetentionPolicy.RawRetentionDays
  PayloadRetention,  \* RetentionPolicy.PayloadRetentionDays
  PurgeInterval,     \* RetentionPolicy.PurgeIntervalMinutes
  BatchRows          \* RetentionPolicy.PurgeBatchRows

ASSUME PolicyAssumption ==
  {Interval, PurgeInterval, RawRetention, PayloadRetention, BatchRows} \subseteq Nat \ {0}

None == -1           \* SQL NULL for a time, an epoch or a start time

Native == {"WAIT_STATS", "FILE_IO"}
Collectors == Native \union {"PERFORMANCE_COUNTERS"}

EmptyStore == [runs |-> <<>>, samples |-> {}, payloads |-> {}, modules |-> {}, scopes |-> {}]

SamplesOf(db, r) == {x \in db.samples : x.run = r}
PayloadsOf(db, r) == {x \in db.payloads : x.run = r}
ModulesOf(db, r) == {x \in db.modules : x.run = r}
Rows(db) == Cardinality(DOMAIN db.runs) + Cardinality(db.samples) + Cardinality(db.payloads)
              + Cardinality(db.modules) + Cardinality(db.scopes)

-----------------------------------------------------------------------------
(* snapshot.InternalPrepareCollectionCycle: admission. *)

(* Runs that count for the collection interval. *)
Counted(db, c) ==
  {r \in DOMAIN db.runs : /\ db.runs[r].collector = c
                          /\ db.runs[r].ended # None
                          /\ c \in Native \/ db.runs[r].status \in {"AVAILABLE", "PARTIAL"}}

(* The interval counted from the start of the newest run. *)
NotDueSinceStart(db, c, now) ==
  LET last == Counted(db, c)
  IN last # {} /\ db.runs[Max(last)].started + Interval > now

NotDue(db, c, now) ==
  LET last == Counted(db, c)
  IN last # {} /\ db.runs[Max(last)].ended + Interval > now

Admission(db, c, force, now, enabled, overBudget) ==
  CASE ~enabled -> "DISABLED"
    [] enabled /\ overBudget -> "STOPPED_SIZE_BUDGET"
    [] enabled /\ ~overBudget /\ ~force /\ NotDue(db, c, now) -> "SKIPPED_NOT_DUE"
    [] OTHER -> "AVAILABLE"

(* The end of a refused run is left open. *)
OpenedRunUnended(c, status, force, now) ==
  [collector |-> c, started |-> now, ended |-> None,
   status |-> IF status = "AVAILABLE" THEN "RUNNING" ELSE status,
   count |-> 0, start |-> None, epoch |-> None,
   forced |-> force, rows |-> 0, expected |-> 0]

(* The new CaptureRun row: RUNNING, or ended at once with the refusal.  forced, *)
(* rows and expected are history: how the run was asked for, how many samples   *)
(* were ever written for it and how many its source read calls for.             *)
OpenedRun(c, status, force, now) ==
  [collector |-> c, started |-> now,
   ended |-> IF status = "AVAILABLE" THEN None ELSE now,
   status |-> IF status = "AVAILABLE" THEN "RUNNING" ELSE status,
   count |-> 0, start |-> None, epoch |-> None,
   forced |-> force, rows |-> 0, expected |-> 0]

AddRun(db, r, row) ==
  [db EXCEPT !.runs = [q \in DOMAIN @ \union {r} |-> IF q = r THEN row ELSE @[q]]]
AddModules(db, r, n) == [db EXCEPT !.modules = @ \union {[run |-> r, row |-> i] : i \in 1..n}]
AddPayload(db, r, now) == [db EXCEPT !.payloads = @ \union {[run |-> r, at |-> now]}]
AddSamples(db, r, S) ==
  [db EXCEPT !.samples = @ \union S,
             !.runs[r].rows = @ + Cardinality(S)]

(* Every run begins an epoch of its own. *)
EpochForNew(db, r, start) == r

(* snapshot.InternalCompletePerformanceCounterCycle: the epoch of the newest    *)
(* run that saw the same server start, or a new identifier (the run's own).     *)
EpochFor(db, r, start) ==
  LET same == {q \in DOMAIN db.runs : db.runs[q].start = start /\ db.runs[q].epoch # None}
  IN IF same = {} THEN r ELSE db.runs[Max(same)].epoch

(* snapshot.InternalFinalizeCollectionCycle *)
Finalized(db, r, status, now) ==
  IF r \notin DOMAIN db.runs THEN db
  ELSE [db EXCEPT !.runs[r].ended = now, !.runs[r].status = status,
                  !.runs[r].count = Cardinality(SamplesOf(db, r))]

-----------------------------------------------------------------------------
(* snapshot.InternalPurgeExpiredData: one batch of child-first deletes.  Each   *)
(* DELETE TOP (@BatchRows) takes any rows of its choice.                        *)
Top(S) == IF Cardinality(S) <= BatchRows THEN {S} ELSE kSubset(BatchRows, S)

(* The payload's own retention replaced by the raw one. *)
ExpiredPayloadsRaw(db, now) == {x \in db.payloads : x.at < now - RawRetention}

ExpiredSamples(db, now) == {x \in db.samples : x.at < now - RawRetention}
ExpiredPayloads(db, now) == {x \in db.payloads : x.at < now - PayloadRetention}

(* The payloads of a run are forgotten. *)
EmptiedOfSamples(db, r, now) ==
  db.runs[r].started < now - RawRetention /\ SamplesOf(db, r) = {}

(* Runs past their age that no longer have measured evidence. *)
Emptied(db, r, now) ==
  /\ db.runs[r].started < now - RawRetention
  /\ SamplesOf(db, r) = {}
  /\ PayloadsOf(db, r) = {}

ExpiredModules(db, now) == {x \in db.modules : Emptied(db, x.run, now)}

(* The later run is not asked to be finalized. *)
SupersededByAny(db, r) ==
  LET c == db.runs[r].collector
  IN \/ c \notin Native
     \/ c = "WAIT_STATS" /\ db.runs[r].ended = None
     \/ \E later \in DOMAIN db.runs : db.runs[later].collector = c /\ later > r

(* Waits retain their latest finalized run, File I/O its latest run. *)
Superseded(db, r) ==
  LET c == db.runs[r].collector
  IN \/ c \notin Native
     \/ c = "WAIT_STATS" /\ db.runs[r].ended = None
     \/ \E later \in DOMAIN db.runs :
          /\ db.runs[later].collector = c
          /\ c = "FILE_IO" \/ db.runs[later].ended # None
          /\ later > r

ExpiredRuns(db, now) ==
  {r \in DOMAIN db.runs : Emptied(db, r, now) /\ ModulesOf(db, r) = {} /\ Superseded(db, r)}
UnusedScopes(db) == {k \in db.scopes : \A x \in db.samples : x.scope # k}

PurgeSamples(db, now) == {[db EXCEPT !.samples = @ \ D] : D \in Top(ExpiredSamples(db, now))}
PurgePayloads(db, now) == {[db EXCEPT !.payloads = @ \ D] : D \in Top(ExpiredPayloads(db, now))}
PurgeModules(db, now) == {[db EXCEPT !.modules = @ \ D] : D \in Top(ExpiredModules(db, now))}
PurgeRuns(db, now) ==
  {[db EXCEPT !.runs = [r \in DOMAIN @ \ D |-> @[r]]] : D \in Top(ExpiredRuns(db, now))}
PurgeScopes(db) == {[db EXCEPT !.scopes = @ \ D] : D \in Top(UnusedScopes(db))}

(* Nothing is left that the purge of this moment would delete. *)
NothingExpired(db, now) ==
  {ExpiredSamples(db, now), ExpiredPayloads(db, now), ExpiredModules(db, now),
   ExpiredRuns(db, now), UnusedScopes(db)} = {{}}

(* InternalPurgeExpiredData: the newest successful receipt decides whether a    *)
(* purge is due; a size above the soft budget always makes it due.              *)
PurgeNotDue(purges, force, now, overBudget) ==
  LET done == {i \in DOMAIN purges : purges[i].ended # None
                                     /\ purges[i].status \in {"AVAILABLE", "AVAILABLE_LIMITED"}}
  IN ~force /\ ~overBudget /\ done # {} /\ purges[Max(done)].ended + PurgeInterval > now
=============================================================================
