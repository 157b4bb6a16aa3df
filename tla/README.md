# A formal model of SQL_Server_Analyze

TLA+ modules for the parts of the repository whose correctness depends on order,
interleaving and failure, TLC configurations that check them on small instances, and
TLAPS proofs of the results that matter most. Paths are relative to the repository
(`src/` is its root); SQL files are named by their number (`070` is
`Code/10_SnapshotBaseline/070_InternalPurgeExpiredData.sql`).

Contents: [the system](#1-the-system) · [the modules](#2-the-modules) ·
[snapshot collection and purge](#3-snapshot-collection-and-purge-sc-023) ·
[wait comparison](#4-the-comparison-of-wait-captures) ·
[installation of the snapshot target](#5-installing-and-upgrading-the-snapshot-target) ·
[deployment](#6-the-lossless-deployment) ·
[the rule-context cache](#7-the-rule-context-cache) ·
[the cgroup reader](#8-the-linux-cgroup-reader) ·
[the runs](#9-the-runs-and-their-bounds) · [the proofs](#10-the-proofs) ·
[observations](#11-observations) ·
[what is not modelled](#12-what-is-not-modelled-and-why) · [the plan](#13-plan)

## 1. The system

The repository is a T-SQL framework of read-only diagnostic procedures for SQL Server,
an optional package that stores snapshots of some of them in a target database, the
Python and PowerShell tools that build, check and deploy it, and a foundation of rules
for contributors with the tools that read those rules.

| part | where | state | operations | what makes it hard |
|---|---|---|---|---|
| Snapshot package SC-023 | `Code/10_SnapshotBaseline/010`–`100` | the target database: runs, samples, payloads, module statuses, scopes, purge receipts, policies; a session-owned applock | collection cycle (three collectors), purge, configuration | concurrent sessions, statement-by-statement commits, cancelled calls, killed sessions, restarts, batches, retention, reset epochs |
| Wait and file comparison | `055`, `057`, `085`, `087` | the runs of the collector | compare a capture with its predecessor, choose the epoch | what counts as comparable after failures, gaps and restarts |
| Snapshot configuration | `010`, `020`, `076`, `080` | the configuration row, the policies of the target | configure, validate | two databases, nested transactions, validation that is stale when used |
| Rule-context cache | `.ai/foundation/rule_context_cache/rule_context_cache.py`, `Code/Tools/Rule_Context_Cache.py` | one JSON record per key, a lock file, a temporary file; the working tree | check, record | files read one after the other while they change, concurrent recorders, crashes |
| Session rule reuse, processing budget | `.ai/foundation/runtime/processing_efficiency.py`, the adapter | what a session has read | reuse or read again, budget decision | reuse of something stale |
| Foundation state files | `.ai/foundation/runtime/state_io.py` | a JSON file | read, atomic write | crash between write and rename |
| Artifact registry | `registry_semantic.py` | none | validation of documents | – (a pure function) |
| Snapshot target schema | `030`, `075`, `076`, `078`, the SQLCMD installer | version, CHECK constraints, helper procedures, metric definitions, policies | install, upgrade, resume, admit a collector | statements that commit one by one, interrupted and concurrent installations, names that somebody else uses |
| Deployment generator | `Code/Install/deployment_generator.py` | the deployed databases, receipts, archives | generate a batch; the batch checks, locks, archives, replaces and verifies in one transaction | concurrent deployments and operators, lock order, lost answers |
| Linux cgroup reader | `Code/Tools/Linux_Cgroup_*.py` | one collection: the context it bound, what it read | fence, read, read again, fence, derive | nothing it reads is locked: processes move, exit and are replaced, files change, reads are late |
| SSIS exchange tools | `Code/Tools/*Ssis*.py` | generated files | build, validate | – |
| Lab orchestration, test laboratory | `Lab/Orchestration`, `TestLab` | a state file, containers | create, resume, remove | interrupted runs |
| Diagnostic procedures, helpers | `Code/01_Common` … `09_*`, `10_SSIS` | temporary tables of one call | read and project | – (no state between calls) |

How they interact: `USP_RunSnapshotCollectionCycle` (`090`) calls the collectors'
own cycles (`085`, `087`) or the counter path, which call the procedures in the target
database (`040`–`076`) with dynamic SQL; `USP_PurgeSnapshotData` (`100`) calls the same
purge (`070`). What keeps calls of different sessions apart is one applock
(`SQL_Server_Analyze.SC023.CollectionCycle`). `USP_ConfigureSnapshotTarget` (`080`)
changes what all of them read without taking it. The rule-context cache shares nothing
with SQL Server: its processes meet in the working tree, the record file and the lock
file; the project adapter passes the digest that a check returned to a later record. The
installers and the deployment batch change the target under the feet of the cycles; a
cycle asks before it uses a target (`076`), statement by statement, and section 5 says
what its answer is worth. The cgroup reader shares nothing with the rest.

What each modelled component must get right:

* **Snapshot package.** One writer at a time, and the lock given back on every way out;
  a run's status, count, epoch and samples agree whatever fails between two commits; a
  retry is admitted neither too early nor because of a run that never happened; a purge
  deletes only what has expired, never a row that is referred to, never the baseline of
  the next comparison, and says truthfully what it left behind; every call comes back.
* **Wait comparison.** A stored difference is what the engine really counted between two
  captures that follow each other; an epoch never spans a restart, a gap or a counter
  that went back; what can be compared is.
* **Installation.** A target that carries the version mark is complete, whatever was
  interrupted; an interrupted upgrade can be resumed; nobody else's object is replaced;
  no collector is let in on what an interrupted upgrade left, and what is let in while an
  upgrade goes on fits together.
* **Deployment.** A run happens in all its databases or in none; no edit of an operator
  is overwritten without a copy; sessions do not wait for each other in a circle; a
  client that lost its answer can find out what happened.
* **Cgroup reader.** What it publishes belongs to one process and one moment; what is
  missing is explained and costs nothing else; the limits on bytes and time hold.
* **Rule-context cache.** What is recorded or reported as a hit is a state the tree
  really had, references to files that came or went meanwhile apart; the record on disk is never an older analysis put over a newer one; a
  recorded analysis is the one that was made; a crash neither lets a second writer in
  nor makes anybody wait for ever.

`PROJECT.json` lists the hazards of this code line by line with the properties for each.

## 2. The modules

| module | what it is | models |
|---|---|---|
| `SnapshotStore` | the tables and what the target procedures do to them, operators without state | `040`, `050`, `060`, `070` |
| `SnapshotCycle` | sessions that run cycles and purges on one store: the state machine | `085`, `087`, `090`, `100`, with the completions of `050`, `055`, `057` |
| `MCSnapshotCycle` | a bound that keeps the data of two kinds of calls apart | – |
| `SnapshotCycleProofs` | who is inside, how often the lock is held, types, references, what a purge keeps; what runs count, epochs, intervals and reports | – |
| `WaitComparison` | wait captures one after the other: read, compare, write, purge | `055`, `085`, `070` for waits |
| `MCWaitComparison` | two wait types and one disturbance | – |
| `WaitComparisonProofs` | increments, epochs, comparability | – |
| `SnapshotInstallation` | sessions that install or upgrade the target | `030`, `070`–`078`, the installers, the target preflight of `deployment_generator.py` |
| `MCSnapshotInstallation` | all releases | – |
| `SnapshotInstallationProofs` | completeness, resumability, foreign objects, admission | – |
| `DeploymentSpec` | what a deployment promises: one step | the promise of `deployment_generator.py` |
| `Deployment` | sessions that run the generated batch beside operators | `deployment_generator.py` |
| `MCDeployment` | two databases in opposite roles | – |
| `DeploymentProofs` | no circle of waits, receipts, atomicity, edits | – |
| `RuleRecords` | discovery, record, validation and comparison as operators on a tree | `rule_context_cache.py` |
| `RuleContextCache` | processes that check and record while the tree is edited: the state machine | `rule_context_cache.py`, `Rule_Context_Cache.py` |
| `MCRuleContextCache` | small working trees for TLC | – |
| `RuleContextCacheProofs` | the lock file has one live owner; records and checks are of one tree | – |
| `CgroupReader` | one collection next to a changing host | `Linux_Cgroup_Reader.py` |
| `MCCgroupReader` | directories and five kinds of trouble | – |
| `CgroupReaderProofs` | a bound result is one process, a ceiling one moment; what is published or missing is what the reads support | – |
| `CgroupReadSpec`, `CgroupRead` | a bounded read as one step; as the loop that implements it | `Linux_Cgroup_Native.py` |
| `MCCgroupRead` | small limits | – |
| `CgroupReadProofs` | the limits, and that the loop implements the step | – |
| `CgroupValues`, `CgroupMetadata` | the parsers as operators | `Linux_Cgroup_Values.py`, `Linux_Cgroup_Metadata.py` |
| `CgroupText`, `MCCgroupText` | one text is parsed; every short text | `_parse_resource` |
| `CgroupTextProofs` | what the parsers return for texts of any length | – |

How they compose: `SnapshotCycle` extends `SnapshotStore`, `RuleContextCache` extends
`RuleRecords`, `CgroupText` extends both parser modules. `WaitComparison` looks inside
two actions of `SnapshotCycle` (`ReadNative`, `NativeComplete`) that are opaque there,
and relies on what `SnapshotCycle` shows of the applock: that captures and purges of one
target do not overlap. `CgroupReader` reads a file in one step because
`CgroupRead` implements `CgroupReadSpec`. `SnapshotInstallation` ends where
`SnapshotCycle` begins: with the admission of a collector.

Operators whose comment says `Mutant:` or what is wrong with them (`OpenedRunUnended`,
`ReleaseWithRun`, `OwnsStaged`, …) are mutated forms of the definition that follows
them. They are used by nothing; each shows that a property can be broken by a
plausible bug.

## 3. Snapshot collection and purge (SC-023)

### State

`db` is the store of the target database (record fields: `runs`, a function from
CaptureRun identities; `samples`, `payloads`, `modules`, `scopes`), `lastRun` the last
identity assigned, `purges` the receipts in table PurgeRun, `lock` the applock (owner
and how often it is held: `sp_getapplock` is re-entrant for its session), `now` and
`start` the clock and the start of the instance, and for every session `pc` and `call`:
the statement its call is about to execute and the variables of the procedures. Four
parts are history, which no guard reads: `forced`, `rows` and `expected` of a run,
`removed` of a receipt, and `abandoned`, the acquisitions of the lock's owner whose
calls were cancelled. `faults` only bounds failures.

### Actions and the code

| action | code | what is one step |
|---|---|---|
| `Decline` | early returns of `090`, `100` before the lock | the whole call; it touches nothing |
| `Call`, `Acquire` | `090:67`–`252`; `085:112`, `087`, `100:126` | up to the lock; the `sp_getapplock` call without waiting |
| `Admit` | `085:121`–`144` and its counterpart in `087` | target validation, policy check (`@PolicyOnly=1`), candidate databases |
| `PurgeStart` | `070:110`–`167` | the decision whether a purge is due and the receipt |
| `Batch` | `070:170`–`236` | one transaction of five deletes, committed or failed after any of them |
| `ClosePurge`, `CatchPurge` | `070:238`–`264` | the receipt's final UPDATE |
| `AfterPurge` | `085:145`–`168`, `090:283` | what the caller makes of the purge |
| `Prepare`, `RefusedModule` | `040` | the INSERT into CaptureRun; the INSERT of the refusal's module status |
| `ReadCounters`, `ReadNative` | `090:276`, `085:183`–`239` | the source read |
| `CounterScopes` … `CounterModule` | `050:215`–`332` | one INSERT or UPDATE each, committed on its own |
| `CatchCompletion` | `050:334`–`343` | the module status of a failure |
| `Finalize` | `090:295`–`305`, `060` | the final UPDATE |
| `NativeComplete`, `CatchNative` | `055`, `057` | the completion transaction; the failure transaction after its rollback |
| `Project`, `Catch`, `Release` | `090:307`–`343` | result projection; CATCH block with a second finalization; release |
| `Raise` | every CATCH block (`Handlers`) | a statement fails: control goes to the block that covers it |
| `Cancel`, `Disconnect`, `Restart`, `Tick` | SQL Server | attention, end of a session, restart, clock |

Every DELETE TOP takes *any* rows it may: `Top` gives all the choices. A read of the
policy, of the configuration, of the size of the files or of the target's availability
is chosen anew each time it happens (`\E enabled, over \in BOOLEAN`), because the
configuration procedure and administrators change them without the lock.

### What is abstracted

* A name, a value or a JSON document is not in the model. A counter of the source yields
  one RAW and one INTERPRETED sample in its scope; a wait or file read yields two samples
  in one scope, and two module rows stand for its issues.
* DENIED_PERMISSION, UNAVAILABLE_OBJECT and the like are the one status ERROR_HANDLED:
  no decision of the modelled code distinguishes them.
* The SERVER scope, which is never purged, is implicit. A NEWID() epoch is the identity
  of the run that asked for it. The counter read always knows the start of the server.
* OUTPUT parameters of a procedure that is aborted stay unset: the caller learns the
  identity of a run only when `040` returns.
* The wait and file completions check that the run is theirs (`Ready` in
  `NativeComplete`). It always is under the lock; the guard is in the model all the same.
* Time is in ticks, all intervals and retentions at least one
  (`PolicyAssumption`: the CHECK constraints of `030`). The clock does not go back,
  except that the failure transaction of a file cycle may find it earlier than the
  run's start (`FINALIZATION_UNCONFIRMED`), which is a nondeterministic choice.
* The sessions belong to one framework database. The applock is scoped to it.
* Callers with an open transaction, and a release of the lock that fails, are not modelled.

### Fairness

`FairSpec` adds weak fairness of `Step(s)` for each session: a session that has entered
the procedure runs on. The code justifies it because nothing in a call waits:
`sp_getapplock` has `@LockTimeout=0`, every procedure sets `LOCK_TIMEOUT 0`, and a
purge ends after `@MaxBatches` batches. Nobody is obliged to call, to cancel, to restart
or to let time pass. Only `CallReturns` uses fairness.

### Properties

| property | the question it answers |
|---|---|
| `CycleTypeOK` | types; identities below the last one; only RUNNING and file runs have an open end |
| `OneWriter` | is only the lock's owner between acquisition and release? |
| `LockBalanced` | is the lock held exactly as often as calls are in progress or were cancelled? |
| `References` | does a purge ever delete a run or a scope that a row still refers to? |
| `FreshEvidenceKept` | is every deleted row expired, at its own retention? |
| `NewestKept` | do the newest finalized wait run and the newest file run survive every purge? |
| `EvidenceIsExact` | does the count of an ended run equal the samples ever written for it, and has an AVAILABLE counter run all of them, in the epoch of the run? |
| `EpochAgrees` | do runs of one server start share one epoch in spite of crashes and purges? |
| `NeverEarly` | does an unforced collection begin no earlier than the interval after the end of the last one that counts? |
| `ReportsAreTrue` | has a call that reports AVAILABLE or PARTIAL a run that says the same, has a purge that says AVAILABLE left nothing that was expired when it began, and does the receipt of a purge that did not fail count what it removed? |
| `CallReturns` | does every call come back, also next to a lock somebody left behind? |

## 4. The comparison of wait captures

`WaitComparison` is one target with one framework database. `counters` and `engine` are
what SQL Server shows (a count per wait type, and which start of the engine this is),
`clock` is `SYSUTCDATETIME`, which may be set back; `runs` and `store` are the rows of
CaptureRun and MetricSample; `cycle` is the capture under way. `taken` is history: what
each finalized capture really read, which the properties compare with what is stored.

| action | code | what is one step |
|---|---|---|
| `Open` | `040:228`–`244` | the INSERT of the run |
| `ReadStart`, `ReadType`, `ReadEnd`, `ReadFails` | `085:194`–`232` | start time and engine identity; one wait type; end time; the failed read |
| `Complete` | `055:322`–`850` | the transaction: predecessor, validation of its context and rows, comparison, epoch, all rows and the run |
| `FinalizeUnread` | `055:878`–`896` | a capture whose source delivered nothing |
| `CompleteFails`, `FinalizeFailure`, `Abandon` | `055:898`–`937` | the rollback; the second transaction; the run that stays RUNNING |
| `PurgeSample`, `PurgeRun` | `070:175`–`223` | one expired sample; one expired run without samples |
| `Clear`, `Restart` | SQL Server | counters cleared unseen; a new engine start, which ends the session |

What the comparison decides is in operators named after the variables of `055`:
`Previous`, `ContextSound`, `RawSound`, `EngineChanged`, `IntervalInvalid`,
`TypeMissing`, `CounterDecrease`, `ComparisonStatus`, `EpochDecision`.

Abstracted: the four counters of a wait type and their four raw rows are one; the name
and start identity of the engine are one number; a scope is the type it stands for; the
hash of the raw rows is the rows; a NEWID() epoch is the run that asked for it. The field
checks of the source JSON are left out. The purge deletes one row at a time: every state
that a batch leaves is one of these, and more. The values of `MaxRows` and of the
retention are read anew each time they are used.

| property | the question it answers |
|---|---|
| `CandidatesAreIncrements` | is a stored difference what the counter gained since the run that finalized directly before, under one engine start, in windows that do not overlap? |
| `EpochIsOneHistory` | do the captures of one epoch follow each other without a gap, with no type lost and none counted down? |
| `ComparableIsCompared` | is a comparison refused only for a cause? |

## 5. Installing and upgrading the snapshot target

`SnapshotInstallation` has the version mark (`PackageVersion`), the stage of the CHECK
constraints, for each helper procedure the release its body comes from, the metric
definitions and policies of the native collectors, and for each installing session its
place in `Steps`, the statements in the order of `Install_SnapshotBaseline_Target.sql`.
Under `:ON ERROR EXIT` every statement commits on its own, except that `030` is one
transaction (`InstallSchema`). `Replace` is a `CREATE OR ALTER` of a helper;
`CheckClosure`, `AddSeeds`, `AddPolicy` are the statements of `075` and `078`; `Mark` is
the UPDATE that ends `078`. `Refuse` is a THROW, `Fail` a lock timeout, an error or a lost
session. `Standalone` is the generated installer, which runs the same sources in one
transaction.
`OccupyName` and `OccupyMetric` are operators who use a name or a metric code that the
package also uses.

*Admission.* `076` does not decide at one moment. It reads the version (`ReadVersion`,
line 89), reads it again for the retention contract it will require (`ReadRequired`, 95),
looks for the helpers, then for their parameters, then for metrics and policy, and asks the
purge helper for its contract (`AskOn`, 96–220), each in a statement of its own without a
transaction, and sessions may install between any two of them. A statement that looks at
several catalog rows, or with NOLOCK, is one step here: presence and signatures do not get
lost while a target is installed (CREATE OR ALTER keeps the procedure, and newer bodies
have the parameters), so a mixture of two moments answers no better than the later one.
A mixture of releases *can* be let in: a wait collector that has read 1.2.1 meets the
helpers of 1.3.1 that `030` and the next batches installed meanwhile, and the purge of 1.2.1
still reports the contract it requires. `AdmittedIsCoherent` therefore does not say that
this never happens. It says that what is let in fits, then and at every later moment:
every helper has the parameters that were asked for and is of the release that was read or
of 1.3.1, metrics and policy are there; and that it is no mixture unless version or helpers
have changed since the version was read (the history field `moved`), so what an
interrupted upgrade left behind is never let in.

A released helper is known by the digest of its body (`deployment_generator.py:713`–`727`);
here a body *is* the release it comes from. Which contract a purge helper reports for a
version other than its own is taken from `070:97`–`104` and, for 1.3.0, from
`Code/Tests/Integration/Deployment_Prepare_Runtime.py:3552`.

*Hypothesis.* `Quiet` says that operators put nothing in the way *while* an installation
is running (between installations they may). `MarkedIsComplete` and `ForeignKept` need it;
the code does not enforce it: each closure is checked before the statements
that rely on it, so with `Quiet = FALSE` a metric of another contract that appears
between the check and the INSERT stays as it is and the package is marked all the same
(`078:178`–`191`), and a procedure created between `030` and the batch of that helper is
replaced. `Resumable` and `AdmittedIsCoherent` hold, and are proved, without it.

*Fairness.* A session executes its next statement, and whoever stopped an
installation before its end starts it again: `CompletedAgain` needs both, and says what
starting again achieves. Failures are bounded by `MaxFailures`, so they end.

| property | the question it answers |
|---|---|
| `MarkedIsComplete` | is a target that says 1.3.1 a complete 1.3.1? |
| `AdmittedIsCoherent` | does what `076` lets in fit, although sessions install between its statements, and is it one release unless they did? |
| `Resumable` | does the preflight recognise what an interrupted installation left? |
| `ForeignKept` | is a procedure that somebody else made under a newer helper's name ever replaced? |
| `CompletedAgain` | does starting again complete the package? |

## 6. The lossless deployment

`deployment_generator.generate()` writes one batch. `Deployment` is several sessions that
execute it on one instance, with the databases each selected (`roles`), beside operators.
`Plan` is the batch as a sequence of statements: gates, the lock of the tempdb reference
tables, one application lock per database in the order of names, preflight and archive of
every database, the source batches, strict verification, commit. A session that waits at
a statement takes locks one at a time (`Acquire`) and times out (`Timeout`:
`LOCK_TIMEOUT 10000`, or a THROW on the result of `sp_getapplock`).

| action | code |
|---|---|
| `Start`, `Pass` | `1001`–`1033` admission, name and permission gates, locks |
| `Preflight` | `731`–`874`, called at `1034`–`1043` |
| `Archive` | `877`–`897`, called at `1044`–`1048`: the rows about to change, and a receipt |
| `CreateTable`, `SeedRows`, `CreateModule` | `1049`–`1067`: the sources of one database |
| `Verify` | `831`–`841` in strict form, called at `1068` |
| `Commit`, `Throw`, `Fault`, `Killed` | `1070`; errors and kills roll back |
| `OperatorLocks`, `OperatorEnds`, `Intrude`, `ChangeModule` | other sessions of SQL Server |

A database is reduced to one product table with one framework-owned row and one module,
each in the few states that preflight tells apart. Changes are made in place, and `undo`
remembers what a rollback restores; `Committed` is what another session reads. Locks are
exclusive: the shared catalog locks that two deployments could take together are modelled
stronger than they are, as one row each, so the search for circles covers more.

`DeploymentSpec` is the promise: a run replaces the objects of all its databases in one
step, only where every one of them is acceptable, and each keeps a receipt and the rows
that were replaced. `DeploymentsAreAtomic` says that the batch implements it under
`db <- Committed`.

*Hypothesis.* `Intrusions` says which tables appear from elsewhere under a product name
that is free. In the run, and in the theorems that assume `NoTwin`, these are somebody's
own tables (`foreign`). It is not something the batch enforces: it archives the rows it
finds before its sources run (`877`–`897`), and takes the lock of a table only where there
is one. With `Intrusions = {"canonical"}` and two statements of others TLC finds
`NoEditLost` violated: a table of the product's own shape is created after the archive
statement found none, an operator edits it, and the source batch overwrites the edit,
which is in no archive. Whatever creates the product's tables without the deployment's
locks, such as the installer for SQLCMD run at the same time, could do that.

*Fairness.* Weak fairness of each session's `Step`: a statement is executed or the wait
for its lock times out, because the batch sets a lock timeout before its first wait. An
operator need never release a lock.

| property | the question it answers |
|---|---|
| `DeploymentsAreAtomic` | do other sessions see a run whole or not at all, and only from contents it accepted? |
| `NoEditLost` | is an operator's value still in the table or in an archive? |
| `NoWaitCycle` | can deployments wait for each other in a circle? |
| `ReceiptsDecide` | can a client that lost its answer decide from the receipts what happened? |
| `EveryRunEnds` | does every run end, also when an operator never releases a lock? |

## 7. The rule-context cache

A capture runs discovery twice and compares the digests of the results. Discovery reads
the instruction chain directory by directory (`ReadDirectory`, `EndChain`), an index of
the repository's files by name (`IndexFile`), the extra rules (`ResolveExtra`), the text
of every source and each reference in it (`ReadText`, `ResolveReference`), and
fingerprints every source (`TakeFingerprint`). Each of these reads is a step of its
process, and `Edit` may change the tree between any two. `Check` ends a check. A record captures
(`InitialCapture`), takes the lock file (`Acquire`, `LockTimeout`), captures again under
it (`LockedCapture`), writes the temporary file and replaces the record
(`WriteTemporary`, `ReplaceRecord`), and removes the lock (`Unlock`). `Start` with
`"adapter"` is the project adapter, which records only what a check before it returned.
`Crash`, `Respawn` (with the same process id), `RemoveLock` (the operator's recovery)
and `Damage` of the record file are the environment.

What a reference means (`Found`, `rule_context_cache.py:386`–`416`) is the first of the
files it may name that is there (`Tries`: under the repository's root for some prefixes,
beside the source, under the root); for a bare name that finds none, the only file of
that name in the index, which was taken when the pass began and may be out of date. A
reference that means nothing makes the capture incomplete if it is a link to a rule path, a
path under `authority:` of a repository map or an extra rule (`firm`); a weak one, in inline
code, is passed over (`ReferenceReasons`). An index entry whose file has gone since is a
source that cannot be read, and the operation fails (`ReadText`).

`RuleRecords` has the pure part: `IsRecordOf(rec, k, tree, flux)` says what a record of a
*fixed* tree is. The state machine never uses it to compute its answer; the properties
compare the two. Chain, sources, contents, kinds, Git states and the texts that were
parsed are those of the tree, the sources are the least set that contains the chain and the
extra rules and is closed under dependencies, and every dependency is accounted for by a
reference and vice versa. In doing so a reference means what it means in the tree, except
that the files of `flux` count as there or not, at will. The properties use as `flux` the
files that came or went while the second pass discovered (history, kept by `Edit`): both
passes can resolve a name alike although no moment did (section 11). Apart from
these files nothing is left open: with no file in `flux` a tree has exactly one
record (`RecordUnique`). The tree meant is the one between the two passes (`mid`).

| property | the question it answers |
|---|---|
| `WriterOwnsLock` | does a live process inside the with-block own the lock file? |
| `StoredIsSnapshot` | is a published record that of the whole tree at one moment, up to references to files that came or went in the second pass, and does it pass the shape check when it is read back? |
| `CheckIsSnapshot` | does a complete check describe the tree at one moment, in the same sense? |
| `AdapterRecordsAnalysed` | does the adapter publish only the snapshot that was analysed? |
| `RecordNeverRegresses` | is a record ever replaced by one of an earlier moment? |
| `OperationEnds` | does every operation of a living process end? |

`Spec` has weak fairness of each process's `Step`: a running process is scheduled, and
the wait for the lock file has a deadline (`rule_context_cache.py:1165`), which a
process that keeps polling reaches. `StoredIsSnapshot` and `CheckIsSnapshot` are stated
for trees in which no path gets back an earlier content (`Restore = FALSE`) and no file is
blank; with `Restore = TRUE`, or with blank files, they are not true, see section 11.

Abstracted: a file is its text, its line ends and its Git state; a digest is the value
it is computed from (no collisions); the names of one directory, the places where one
reference is looked for, and the fingerprint and the Git status of one file are each
read in one step, so the model has fewer moments for an edit than the code there; which
files a name may mean is data (`Tries`, `Namesakes`); the identity of the repository, the
destination check (`_ensure_nonversioned_destination`), symbolic links and the command line
are left out.

## 8. The Linux cgroup reader

Three parts, each with its own module.

**A collection** (`CgroupReader`, `Linux_Cgroup_Reader.py`). The reader binds a context
(mountinfo, pidfd, process directory, membership, namespaces, mount, one directory after
the other), reads the configuration, the resources and the configuration again, repeats
the fence and only then derives. Every system call with its check is a step, and the host
may change between any two: the process moves, exits, is reaped and its PID given to
another (`Migrate`, `Exit`, `Reap`, `Reuse`), a directory is removed and made again, a
control file is written, a mount is put on top, namespaces are left, the deadline passes,
the wall clock goes back.

| action | code (`Linux_Cgroup_Reader.py`) |
|---|---|
| `ReadMountinfo` … `WalkLevel` | `484`–`592` for the opening, `617`–`692` for the closing fence |
| `FenceFault`, `NoBackend` | `811`–`818`, `834`–`849` |
| `ReadResource`, `ResourceFault` | `432`–`447` with `_observe` (`267`–`413`); their order is `Schedule` (`599`–`615`) |
| `CheckTypes`, `CompareConfiguration` | `800`–`805`, `694`–`706` |
| `DeriveMetrics` | `708`–`789` |

`Troubles` is a set of kinds of collections: which events may happen, how many, and in
which directories limits are set. It keeps the combinations apart that have nothing to do
with each other; `most` bounds the events of one collection.

A file's text is the value it holds. That a value that changes and changes back between
two reads is not noticed is stated by the code's own contract
(`Linux_Cgroup_Reader_Contract.md:19`); the history variable `aba` marks such
behaviours, and `CeilingIsSnapshot` is about the others. `BoundIsOneProcess` and
`ResultIsExact` are about all of them: what the latter says of a resource that nothing
disturbed is the limit in the directories that were walked, also when the process was
somewhere else for a while. Fairness is that of the reader (`WF_vars(Reader)`): no call of the backend
waits, and a collection has a fixed number of reads.

**One bounded read** (`CgroupRead`, `Linux_Cgroup_Native.py:659`–`718`). The loop of
`read_bounded` with its three readings of the clock, chunks of any length, the limit of the
file and the budget all files share. `CgroupReadSpec` is a read in one step:
whole, cut exactly where the room ends, or given up. `ReadsAreAtomic` says that the loop
implements it; `Used` counts the bytes of a call when it ends. Fairness is that of the
loop; nothing in `CgroupRead` needs it for safety. `OneReadAfterDeadline` is about `read()`
calls only, as is the contract (`Linux_Cgroup_Reader_Contract.md:49`, an admission budget
for reads): a file whose turn comes after the deadline is still opened and examined
(`Linux_Cgroup_Reader.py:312`–`325`) before its first `read()` is refused.

**The texts** (`CgroupText` over `CgroupValues` and `CgroupMetadata`). The parsers as
operators, run on every short text around their boundaries: number tokens whose width is
105 instead of 2^64 − 1, the quotas of two levels, CPU lists, counter files, membership
and mountinfo files, mount paths with all four characters the kernel escapes (`tab` and
`newline` stand for the two control characters), command names in `/proc/<pid>/stat`. The
loops over a text (`_parse_u64`'s digits, the merge and the count of intervals, the
substitution of escapes) are recursive functions over its positions; what a parser
collects from lines is named by line numbers. What the kernel writes (`Encode`,
`StatText`) is external.

| property | the question it answers |
|---|---|
| `BoundIsOneProcess` | does a bound result belong to the process the pidfd names, in the very directory it was in? |
| `CeilingIsSnapshot` | is a published ceiling the least limit above the process at one moment? |
| `ResultIsExact` | is nothing published from a lost context, is everything missing explained, and does one failing resource cost only its own metric? |
| `Terminates` | does every collection end? |
| `BudgetHolds`, `OneReadAfterDeadline` | do the limits hold at every moment, and is at most one `read()` of a collection late, over all its files? |
| `ReadsAreAtomic` | is a chunked read one read of the abstract budget? |
| `ValuesExact` | do the parsers of values return what the text denotes, or refuse it? |
| `MetadataUnambiguous` | has a membership, a mount, a path or a command name one reading? |

## 9. The runs and their bounds

| run | instance | checks |
|---|---|---|
| `snapshot_sessions` | 2 sessions, counters, waits and purge, 1 run, 2 purges, 1 failure, with fairness | `CycleTypeOK`, `OneWriter`, `LockBalanced`, `CallReturns` |
| `snapshot_counters` | 1 session, counter cycles, 2 runs, 2 purges, clock to 2, 1 failure | `EvidenceIsExact`, `EpochAgrees`, `NeverEarly`, `ReportsAreTrue` |
| `snapshot_purge` | 1 session, all operations, 2 runs, batches of one row, 2 batches, retentions 1 and 2, clock to 3 | `ReportsAreTrue`, `References`, `FreshEvidenceKept`, `NewestKept` |
| `wait_comparison` | 3 captures of 2 wait types, 1 or 2 rows, clock to 2, one disturbance | the three properties of section 4 |
| `snapshot_installation` | 2 installers, all eight starting points, 2 failures, with fairness | the five properties of section 5 |
| `deployment` | 2 sessions, 2 databases, fresh, older or conflicting, 1 statement of an operator, with fairness | the five properties of section 6 |
| `rule_cache_fresh` | 2 processes, 2 operations, 2 edits of an override, a rule and its dependency | `WriterOwnsLock`, `AdapterRecordsAnalysed`, `RecordNeverRegresses` |
| `rule_cache_names` | 1 process, 1 operation, 4 edits; a name that may mean the file beside the rule or one of two namesakes, a weak reference, an extra rule | `StoredIsSnapshot`, `CheckIsSnapshot` |
| `rule_cache_ends` | 2 processes, 1 edit, with fairness | `OperationEnds` |
| `cgroup_reader` | one process, a chain of two levels and a directory beside it, 5 kinds of trouble, with fairness | `BoundIsOneProcess`, `CeilingIsSnapshot`, `ResultIsExact`, `Terminates` |
| `cgroup_read` | 3 reads, files below, at and above the limits of two kinds, a budget that three files exceed | `BudgetHolds`, `OneReadAfterDeadline`, `ReadsAreAtomic` |
| `cgroup_text` | every short text of eight kinds | `ValuesExact`, `MetadataUnambiguous` |

Constants whose names begin with `Max` bound the counters of the specifications in the
guards of the actions that count; `most` does so in `CgroupReader`. Three constraints
narrow what TLC explores, and each keeps the cases that matter:

* `Apart` (`snapshot_purge`): counter runs, which have payloads, and wait and file
  runs are purged in separate behaviours. Deletes choose their rows by age and reference,
  never by the collector of another run. Wait and file runs stop at clock 2, where rows
  have just expired, are just not expired, and are one tick old.
* `Bounded` (`wait_comparison`): in a capture only the window takes time
  (`WindowsFill`), and a behaviour has one disturbance (`OneDisturbance`): the clock is
  set back, the engine restarts, or the purge deletes something. Failed reads and
  completions, dying sessions, cleared counters and changed row limits are not
  disturbances in this sense: they happen in all behaviours.
* `Overlaps` (`deployment`): the sessions have either the same two databases in opposite
  roles, where locks could cross, or unrelated ones, where only the tempdb catalog is
  shared. `NoWaitCycle` is proved for all selections.

Why the bounds are enough:

* *One session for the evidence.* That sessions do not interleave inside is what
  `OneWriter` says, checked with two sessions and proved for any number. Under it a
  second session adds no behaviour of the store that one session making calls one after
  the other does not have, so the runs about the evidence spend their states on data.
* *Two runs, three captures.* Epochs, intervals, supersession and baselines each relate a
  run to one earlier run. The wait comparison relates a run to its predecessor and the
  epoch it continues, so a third capture has a predecessor that is itself compared.
* *One failure* reaches every CATCH block. The purge that fails, the run that is left
  behind by a cancelled call and the restart before the next cycle are each one failure.
  A lock left behind by one session and asked for by another is in `snapshot_sessions`.
* *Batches of one row, two batches.* A purge that runs out of batches, one that does not
  and a run whose children go in different batches all happen.
* *Clock.* Rows expire strictly after their retention, so a clock to 2 (to 3 with a
  payload retention of 2) has rows just expired and rows just not expired.
* *Two installers, two failures.* An upgrade that was cut short twice, and one that
  is overtaken by another, both happen from every released package.
* *Two deployments.* A circle needs two sessions; a torn run two databases.
* *The cache's edits.* A torn capture needs one edit between the reads of two files;
  the second lets the tree change again between the captures of one recorder or between
  two recorders. Edits change a rule to drop its reference, remove a dependency, and add an
  override in front of the root instruction. What one capture may get wrong does not depend
  on other processes, so `rule_cache_names` has one and spends its states on four edits: a
  namesake vanishes and comes back with another text, the file beside the rule appears,
  contents change in between. Four are what the torn record of section 11 takes.
* *Two levels and the bound on levels.* A ceiling is a minimum over levels; the directory
  beside the chain is one level deeper than the reader accepts.

Deadlock is checked for the snapshot package, the installation, the wait comparison, the
reader and the bounded read. The cache and the deployment stop when their operations and
executions are used up and a text is parsed once, so these configurations say
`CHECK_DEADLOCK FALSE`.

For every property of a passing run, `PROJECT.json` names a mutant of the model with
which TLC finds that property violated under the same configuration.

## 10. The proofs

All constants are arbitrary: any number of sessions, databases, directories, paths,
counters and rows. The assumptions are those of the modules, named in them:
`PolicyAssumption` (intervals, retentions and batch size are positive),
`CycleAssumption` (`NoSession` is not a session, the operations are known ones, at least
one batch, finitely many counters), `WaitAssumption` (finitely many wait types, positive
row limits and retentions), `InstallationAssumption` (the known releases),
`DeploymentAssumption` (a session selects one database or two different ones) and
`ContentsAssumption` (a database begins in states that preflight tells apart, without
receipts), `ReadAssumption` (limits of files are positive, the budget is a number),
`ReaderAssumption` (a directory's chain of levels ends in it, the observed limits are in an
order and are neither the type nor the CPU list), `NoProcAssumption` (`NoProc` is not a process), `TreeAssumption` (the initial tree
and the edits give a path a file or nothing), `RecordsAssumption` (finitely many paths;
an instruction file is a candidate of one directory and not a global rule),
`ReferencesAssumption` (what a name may mean are paths, extra rules are firm, `Nowhere` is no
path), `ValuesAssumption` (the digits of the width are those of its largest number, a CPU number
is in range, `NoValue` is no value) and `TextAssumption` (the given texts are sequences of
what each parser tells apart, and `NoText` is none of it).

Three hypotheses on how the environment behaves are not assumptions of a module but
stand in the theorems that need them:

* `Quiet`: operators leave the target alone while it is installed (section 5).
* `NoTwin`: nobody else creates a table of the product's shape (section 6).
* `NeverBack`: no path of the working tree gets back a content it had, and no file is blank
  (sections 7 and 11).

Each theorem that keeps one needs it. TLC finds `MarkedIsComplete` and `ForeignKept`
violated without `Quiet`, `DeploymentsAreAtomic` and `NoEditLost` without `NoTwin`, and
`StoredIsSnapshot` and `CheckIsSnapshot` without `NeverBack`.

| theorem | module | says |
|---|---|---|
| `ExclusiveWriter` | `SnapshotCycleProofs` | `Spec => []OneWriter` |
| `BalancedLock` | `SnapshotCycleProofs` | `Spec => []LockBalanced` |
| `TypeCorrect` | `SnapshotCycleProofs` | `Spec => []CycleTypeOK` |
| `ReferencesHold` | `SnapshotCycleProofs` | `Spec => []References` |
| `FreshNeverPurged` | `SnapshotCycleProofs` | `Spec => FreshEvidenceKept` |
| `NewestNeverPurged` | `SnapshotCycleProofs` | `Spec => NewestKept` |
| `EvidenceTheorem` | `SnapshotCycleProofs` | `Spec => []EvidenceIsExact` |
| `EpochTheorem` | `SnapshotCycleProofs` | `Spec => []EpochAgrees` |
| `EarlyTheorem` | `SnapshotCycleProofs` | `Spec => []NeverEarly` |
| `ReportTheorem` | `SnapshotCycleProofs` | `Spec => []ReportsAreTrue` |
| `IncrementsTheorem` | `WaitComparisonProofs` | `Spec => []CandidatesAreIncrements` |
| `HistoryTheorem` | `WaitComparisonProofs` | `Spec => []EpochIsOneHistory` |
| `ComparedTheorem` | `WaitComparisonProofs` | `Spec => []ComparableIsCompared` |
| `MarkTheorem` | `SnapshotInstallationProofs` | `Quiet` gives `Spec => []MarkedIsComplete` |
| `ResumeTheorem` | `SnapshotInstallationProofs` | `Spec => []Resumable` |
| `ForeignTheorem` | `SnapshotInstallationProofs` | `Quiet` gives `Spec => ForeignKept` |
| `AdmissionTheorem` | `SnapshotInstallationProofs` | `Spec => []AdmittedIsCoherent` |
| `DeadlockFree` | `DeploymentProofs` | `Spec => []NoWaitCycle` |
| `ReceiptsTheorem` | `DeploymentProofs` | `Spec => []ReceiptsDecide` |
| `AtomicTheorem` | `DeploymentProofs` | `NoTwin` gives `Spec => DeploymentsAreAtomic`, the promise of `DeploymentSpec` |
| `EditTheorem` | `DeploymentProofs` | `NoTwin` gives `Spec => NoEditLost` |
| `BudgetTheorem` | `CgroupReadProofs` | `Spec => []BudgetHolds` |
| `DeadlineTheorem` | `CgroupReadProofs` | `Spec => []OneReadAfterDeadline` |
| `RefinementTheorem` | `CgroupReadProofs` | `Spec => ReadsAreAtomic`, which is `Abstract!Spec` |
| `ProcessTheorem` | `CgroupReaderProofs` | `Spec => []BoundIsOneProcess` |
| `CeilingTheorem` | `CgroupReaderProofs` | `Spec => []CeilingIsSnapshot` |
| `ResultTheorem` | `CgroupReaderProofs` | `Spec => []ResultIsExact` |
| `LockedWriters` | `RuleContextCacheProofs` | `Spec => []WriterOwnsLock` |
| `AdapterTheorem` | `RuleContextCacheProofs` | `Spec => AdapterRecordsAnalysed` |
| `RegressTheorem` | `RuleContextCacheProofs` | `Spec => RecordNeverRegresses` |
| `RecordUnique` | `RuleContextCacheProofs` | two records of one tree, with no file in flux, are equal in configuration, chain, sources, fingerprints and edges |
| `StoredTheorem` | `RuleContextCacheProofs` | `NeverBack` gives `Spec => []StoredIsSnapshot` |
| `CheckTheorem` | `RuleContextCacheProofs` | `NeverBack` gives `Spec => []CheckIsSnapshot` |
| `ValuesTheorem` | `CgroupTextProofs` | `Spec => []ValuesExact` |
| `MetadataTheorem` | `CgroupTextProofs` | `Spec => []MetadataUnambiguous` |

**The applock.** `OneWriter` is not inductive: a release by the session inside must not
take the lock from someone else, and a second acquisition by the owner must not be
undone by one release. `LockInv` adds that the lock is held as often as its owner
abandoned it, plus one if some session is inside. `StepMoves` shows that every step but
acquire and release goes from one statement under the lock to another; with it the
preservation proof has four cases that say something (acquire, release, cancel,
disconnect).

**The evidence.** `References` and the action properties need more than the store: that
an INSERT refers to a run that is there needs to know that the call's run has not been
purged since it was prepared, and that a purge of the same session cannot take it.
`DataInv` therefore relates every call to the store (`CallRun`): before `040` returns
the call has no run; from the source read on its run is in the table with the call's
collector; between the INSERT of the scopes and the last INSERT of samples its scopes
are there. A purge happens only where the call has no run. The step of another session
does not disturb this, because by `LockInv` a session that is not the one inside is
outside, where its call has no run (`OutsideCall`); this is where `ExclusiveWriter` is
used. What a step does to the store is one of two relations: `Extends` (rows are added
or rewritten, with the collector kept) or the five deletes of a batch, for which
`BatchOK` says, from its beginning to its end, that what is missing was expired, that a
missing run has no samples left, and that it was superseded. `Spared` combines the two;
`FreshNeverPurged` and `NewestNeverPurged` follow from it. `SparedLater` covers the
clock: the purge uses the time it began at, which is never later than the time of the
step.

**What a run counts, and what a call reports.** A statement of a counter cycle commits
alone, so between two of them a run is neither empty nor complete. `EvidenceInv` adds to
`DataInv` what the statement that comes next implies. Only the holder of the lock writes
evidence, and only for the run `lastRun` (`RunPart`); `History` is about the other runs,
which nobody writes any more: an ended run counts what was ever written for it (`count`
and the history variable `rows`), an AVAILABLE one wrote what its source read called for,
runs of one server start have one epoch, and a run that was not forced began when it was
due. `SourcePart` says how far the last run has come at each statement: before RAW no
sample, before INTERPRETED one per counter, all with the epoch of the call; and that the
epoch the call has read is that of every run still there with the same server start
(`SameEpoch`), although the runs it was read from may be purged in between. `PurgePart`
relates the receipt to the batch: a batch that deleted nothing found nothing that was
expired at the time the purge began, and what the receipt says it removed is what is gone.
The code takes the latest counted run and compares with
its end, `Due` compares with every earlier counted run; the two agree because runs begin
after the earlier ones ended (`History`), and because a bounded set of run identities has
a maximum (`NewestOf`).

**The comparison.** `WaitInv` has three parts. `RunInv`: what is stored of a run is a part
of what it wrote, and until the purge takes its first row its context and rows pass every
check that the next capture will make. `NewestInv`: the newest run that finalized is
never purged, whatever the retention; so the predecessor that a capture finds is the run
that finalized directly before it, and not an older one that survived it. `CycleInv`: the
capture under way has read what its state says. From these the decisions of `055`
follow case by case: a candidate is a difference of adjacent readings (`Increments`), a
run that continues an epoch extends its history by one capture without a gap
(`OneHistory`), and two complete captures in a row are compared (`Compares`).

**The installation.** That the mark is only set on a complete package is not inductive:
between two statements of a session, another session may have started over. `BInv` and
`MInv` say what a session's place implies about the target, whoever did it: past a helper's
batch the helper is the release's own (`HelpersPast`), past `030` the constraints are
(`ShapePast`), past the seeds and policies they are there (`SeedsPast`, `PoliciesPast`).
No step of anybody undoes the first two (`StepBodies`); that a metric found free of
conflict stays so until its INSERT needs `Quiet` (`StepMetrics`). `ResumeTheorem` adds
`KInv`: the constraints belong to the version, a newer helper's name has a recognised body,
a foreign one or none, a version that owns a helper has its body. For `ForeignTheorem`,
`Clear` says that past `030` no helper is foreign, with `Quiet` again. For
`AdmissionTheorem`, `AInv` says that while a session is between `030` and the mark the
version is a staged one or already 1.3.1 (`StagedPast`), and that a target that still says
an older release has that release's helpers, or a foreign one where the release had none
(`Untampered`). Both together tell the release of the helpers at the moment the version is
read and accepted (`VersionTells`). `RInv` follows the admission from there, statement by
statement, through everything that is installed meanwhile: helpers stay with the release
read or become 1.3.1 (`ReadKnown`), what has been asked of signatures, metrics and policy
keeps its answer (`SignaturesKnown`, `MetricsKnown`).

**The circle of waits.** `SerialInv` says that a session that holds any lock holds the
tempdb lock, too, which only one session can. Whoever waits for a session therefore waits
for the holder of the tempdb lock; in a circle d waits for e and e for f, both would be
that holder, and a session does not wait for itself (`SerialMeansNoCircle`). That the
tempdb lock comes first is read off the beginning of `Plan` (`PlanStarts`), for
every selection.

**A deployment is one step.** The same lock means that a session past it works alone
(`Alone`), so what is written and not committed is the work of one session, and `undo`
restores exactly what was there when it started (`UndoInv`, `CommittedIs`): under
`db <- Committed` every statement before COMMIT is a stutter, and a rollback is one.
`CheckedInv` is what the statements before COMMIT have established: the accepted row stays
under the table's lock, the receipt and the archived row are those of the accepted contents,
what was verified stays so. At COMMIT this is the guard and the effect of
`DeploymentSpec`. `ReceiptInv` says that receipts are of runs that have ended, which
decides for a client that lost its answer.

**The bounded read.** `IInv` relates the locals of the call to the budget (`Locals`,
`Progress`: a chunk never exceeds the room of the file and what remains), and the place of
the call to the clock (`Lateness`: once a late call was made, no other is about to be).
For the refinement, `UsedInCall` and `RoomInCall` say that the abstract budget at the
beginning of a call and the bytes the call has counted make up the concrete one; each
return of the loop is then exactly one of `Whole`, `Cut` and `GivenUp`, and every other
step a stutter (`StepRefines`).

**One process and one moment.** The reader never sees two files at the same time, so
neither property of its collection is about a state it observed. What the proof uses of the
host is that some things cannot come back unseen (`MemoryInv`): directory instances
only grow, a process number is given to a process that was never there before, and a
value or a home that was left and is there again has set `aba`. `ReaderInv` follows what
each phase has pinned by this. While it opens: `fdinfo` is readable only if the process
of the pidfd still has its number, so the process directory opened in between is its
own. Before the main reads begin, each limit that was read is there, or was left, or its
directory was replaced (`FileKnown`). When they begin, this is a statement about the moment
`atMain` (`MainKnown`), and a main read of the same value in the same instance says that
it was there at `atMain`, unless it came back (`LevelMeasured`). The closing membership
pins the home and says that the process runs, hence ran at `atMain`; the closing walk that
follows pins the instance of its directory. `ScheduleIs` is the lemma that the
schedule, for any number of levels and limits, reads each limit of each level before
and after that moment, and nothing in the wrong phase.

**Exactly what the reads support.** `ResultIsExact` is proved from `RunInv`, whose parts
are about different collections. As long as nothing happened, the host is as it was and the
run has reported no issue (`CalmInv`, through all steps of both fences). A run without an
issue is bound, has read every record and found every type a domain (`SilentInv`): each
failure on the way adds an issue, which `Follows` states once for all error paths. What
`ResultIsExact` says of a resource that nothing disturbed cannot use `aba`, because other
files may have come back unseen. It is proved per file name instead: two reads of a file
whose name was never written agree, for both read the instance that the opening walk found
(`Agree`), and its main
read is what was there when the main reads began (`MainMark`); `Survives` carries this through
the conditions of `Suppressed` to the value that is published. An
unreadable file costs its metric because the configuration is compared with its state
(`PublishedReads`); a deadline, because no fence that closes late keeps the context
(`DeadlineInv`). `ChangedIs` is the lemma that the set of signatures of a key counts what
it should, two reads of one level that differ.

**The lock file.** `LockedWriters` is proved from an invariant that relates each
process's control state to the creator of the lock file and to its temporary file; the
operator's recovery is safe because it only removes the lock of a dead process. `OrderInv`
numbers the edits and extends it for the processes inside the with-block: the capture that
is repeated under the lock comes after the capture of the record on disk (`Ordered`), and
what a writer is about to publish is the snapshot it was asked for (`Expected`).

**One whole tree.** A capture reads file by file while the tree changes, so its first pass
may have seen a tree that never existed. Let the middle be the tree when the second pass
begins. What the first pass read of a path and is still so when the second pass reads it
was so in the middle, because no path gets back what it had. That is easy for one path;
what was read depends on what was read before it, though: whether a later instruction name
is looked at, and which files are looked at at all. `ChainPart` and `GraphPart` say what a
pass in progress has established, relative to any tree that agrees with it on what it read;
`SecondChain`, `SecondGraph` and `SecondSources` say that the second pass is that of
the middle tree as long as it agrees with the first. A reference needs more, because whether a file is there
may change both ways: the index of the second pass (`ListedOK`) and the looks at the tree
differ from the middle only on files that came or went since, which `flux` collects
(`FluxOK`), so each reference is resolved within `MayMean`. `SecondFinds` says this of the
edges found so far, `SecondKnows` that no reference is left without its edge or its
excuse. The second is only true of a pass without a reason and only for texts that are
still those of the middle; that a text parsed and fingerprinted in the second pass was, is
seen when the digests turn out equal (`SecondSources`). Which files discovery reaches is
characterised as the least set that contains the chain and the extra rules and is closed
under references (`RootsOK`), so that the order of the queue does not matter. What the
fold of `RuleRecords` returns for a whole tree (`ChainOf`) is shown by minimal
counterexamples: a least index at which the claim fails has a predecessor at which it holds
(`WFMin`). When a pass ends with the digests equal, `PassInv` gives
`IsRecordOf(Captured(p), cfg[p], mid[p].tree, flux[p])`, which is the property.
`RecordUnique` says how much that is: two records of one tree and configuration with
no file in flux are the same in every part.

**The texts.** The state says little here (`TextInv`: the result is that of the parser the
text was given to); the proof is about the parsers. TLC reads a recursive function by
evaluating it; the proof first has to know that there is exactly one function that solves
the recursion. `FollowsExists` builds it position by position and `Agree` shows that two
solutions do not differ, both by counting up to the length of the text (`Upward`, from the
well-founded order of the numbers). What a loop has done after n positions is then proved
by counting up once more:

* *Numbers.* Stripping zeros keeps the number, a token of more digits than the width
  allows is at least `Smallest(U64Digits + 1)`, hence beyond the width: the check of the
  length before the conversion refuses nothing that is in range and lets nothing through.
* *Ratios.* Reduced quotas compare like the quotas, and the least one is in lowest terms.
* *CPU lists.* `SortedExact` finds the order by inserting one item after the other;
  `MergeExact` carries through each `Join` that the intervals so far have gaps, cover
  exactly the items so far, and that the next item begins no earlier than the last interval;
  `CountExact` adds sizes of intervals with nothing in common.
* *Mount paths.* `Written` says where in the text each character of the path stands, as
  itself or as a backslash and three digits (`NextIs`); at the end of each, the decoder has
  the path up to it and looks at the next position (`DecodeEncode`), and no backslash begins
  anything but an escape (`EscapesValid`).
* *Membership, mount and stat* follow from the positions alone: the only line that is not
  blank, the deepest of finitely many roots, the last parenthesis, which the command cannot
  follow.

Induction itself is not available as a rule (the library's theorems take the claim as a
parameter, which the provers cannot instantiate); a set of the positions for which the
claim holds takes its place.

**Only model-checked.** `CallReturns`, `OperationEnds`, `EveryRunEnds`, `CompletedAgain`
and `Terminates`: liveness under fairness is out of the prover's reach. Every other property of a run is a theorem.

## 11. Observations

Observations made while modelling. No run shows them: the modules state the hypothesis
instead, or the repository documents the behaviour.

* **The receipt of a failed purge.** Its row counts may include rows that the rollback
  brought back (`070:178`–`231`, `254`–`258`). The header of the procedure says so
  (`070:32`, `070:44`), and `Snapshot_Baseline_Package_Contract.md:180` speaks of the
  extent processed, not of rows that are gone. `ReportsAreTrue` is about the receipts of
  purges that did not fail, which are exact.
* **Changes during discovery.** `RULE_CONTEXT_CACHE_POLICY.md:40` says that when sources
  change during discovery the result is a miss. The two passes are compared by their
  digests (`rule_context_cache.py:661`), so an edit that is undone and repeated at the
  same points of both passes is not noticed, and a record of a tree that never existed
  can be published. An instruction name that is absent when the first pass looks, has a
  text in between and is blank when the second pass looks does the same without any content
  coming back, since a blank file is passed over like an absent one. Without either
  the claim holds and is proved (`StoredTheorem`, `CheckTheorem`).
* **A name that changes its meaning twice.** Under `NeverBack`, too, a complete capture
  can be that of no single tree (`RULE_CONTEXT_CACHE_POLICY.md:40` promises a miss for
  changes during discovery). A rule names a note in inline code, and two files have that
  name, so the name means nothing and is passed over. After the first pass has taken its
  index, one of the two is deleted, and then another rule, which the first pass has yet to
  read, gets a new text. The second pass reads the chain; an overriding instruction appears;
  the deleted file is created again with another text; the second pass takes its index. Both
  passes agree, without the dependency, on the new text and on the old chain. But while the
  new text and the old chain were there together, one note was there, and the rule depended
  on it. TLC finds this in the instance of `rule_cache_names` when `flux` is left out of the
  property. `StoredIsSnapshot` and `CheckIsSnapshot` bound the damage: it concerns references
  that files which came or went during the second pass can change, never contents, chain or
  other edges.
* **A table that appears during a deployment.** See `NoTwin` in section 6.
* **A metric that appears during an installation.** `078:184` adds only what is missing,
  so a definition of another contract that an operator inserts after the check of the
  same source stays, and the package is marked (`Quiet = FALSE` in `SnapshotInstallation`).
* **The clock of the cgroup reader.** When a read of the opening fence notices that the
  wall clock changed, `_failed` sets the context to CONTEXT_UNBOUND; the end of the
  opening sets it to BOUND again (`Linux_Cgroup_Reader.py:796`), and only the issue
  `CLOCK_CHANGED` remains. The model does the same.
* **A mixture during an upgrade.** `076` lets a wait collector in on helpers of two
  releases when an upgrade commits between its statements; they fit, see section 5.
* **Counters during an upgrade.** `Snapshot_Baseline_Operations.md:110` says that the
  stage 1.2.2 takes no new collection. `040:161` looks at the package version only for
  the native collectors, so counter cycles go on during an upgrade.

## 12. What is not modelled, and why

Statuses and reasons per component are in `PROJECT.json`. In short: the comparison logic
of files, the configuration transaction, session reuse and the remaining state files are
planned; the diagnostic procedures read views and keep nothing; the lexer and the source
inventory of the generator and the validators are single sequential passes over
files; the laboratory scripts drive external tools. Within the snapshot package, output
formatting, result tables, help texts and the DDL of the target (`030`) beyond keys,
references and versions are left out. Two framework databases on one
target are not modelled: the package's documents know one, and the applock, which is
scoped to its database (`090:244`), would not keep two apart.
A crash between the samples of a counter run and its epoch (`050:270`–`319`) is a step of
`SnapshotCycle` and leaves a RUNNING run, which no property counts as evidence.
Callers with an open transaction are not modelled.

## 13. Plan

1. **`FileIOComparison`** (`057`): the comparison per file, with scopes that appear and
   vanish, handles that are used again, and the unconfirmed finalization of the
   predecessor. Abstract specification: as for waits, per file.
2. **`SnapshotConfiguration`** (`020`, `080`): two databases and a nested transaction
   that the inner procedure may roll back as a whole; what the outer CATCH block
   reports. Composed with the reads that `SnapshotCycle` leaves open.
3. **`OneAtATime`**, an abstract specification of the package (a cycle or a purge is one
   step), with `SnapshotCycle` shown to implement it for completed calls.
4. **`SessionRuleReuse`** (`processing_efficiency.py` and the adapter): what a session
   may reuse, composed with the check of `RuleContextCache`.
5. **`LabState`**: orchestration that was interrupted.
6. **Proofs**: all safety properties that hold are proved (section 10); what is left to
   prove is about what the items above add.
