----------------------------- MODULE Deployment -----------------------------
(***************************************************************************)
(* The batch that deployment_generator.generate() writes, run by several   *)
(* sessions on one instance while operators work in the same databases.    *)
(* A run is one transaction over the framework database and, optionally,   *)
(* the snapshot database: application locks, structural preflight of every *)
(* database, archives of the rows the sources will change, the source      *)
(* batches, strict verification, COMMIT.  A database is reduced to one     *)
(* product table with one framework-owned row and one module.              *)
(***************************************************************************)
EXTENDS Naturals, Sequences, FiniteSets

CONSTANTS Deployments,  \* sessions that execute the batch
          Databases,    \* user databases of the instance
          NameOrder,    \* the databases in the order of their names
          Selections,   \* <<framework>> or <<framework, snapshot>> of a session
          Cells,        \* tempdb catalog rows the reference tables share
          Edits,        \* row values operators write (bounds their edits)
          Intrusions,   \* tables others create under a free product name
          Contents,     \* contents a database may start with
          MaxRuns,      \* bound: executions of the batch by one session
          MaxOutside,   \* bound: statements of other sessions
          Nobody,       \* holder of a free lock
          Operator      \* holder of an operator's lock
ASSUME DeploymentAssumption ==
  /\ IsFiniteSet(Databases) /\ IsFiniteSet(Deployments)
  /\ NameOrder \in Seq(Databases) /\ Len(NameOrder) > 0
  /\ MaxRuns \in Nat \ {0} /\ MaxOutside \in Nat
  /\ \A s \in Selections : s \in Seq(Databases) /\ Len(s) \in {1, 2} /\ (Len(s) = 2 => s[1] # s[2])
  /\ Nobody \notin Deployments /\ Operator \notin Deployments /\ Nobody # Operator
ASSUME ContentsAssumption ==
  /\ Intrusions \subseteq {"older", "canonical", "foreign"}
  /\ \A c \in Contents :
       /\ c = [table |-> c.table, row |-> c.row, module |-> c.module, receipts |-> {}, archive |-> {}]
       /\ c.table \in {"absent", "older", "canonical", "foreign"}
       /\ c.module \in {"absent", "older", "canonical", "alien"}
       /\ c.table = "absent" => c.row = "none"

VARIABLES roles,   \* databases selected by each session
          pc,      \* statement of the batch a session is at, 0 at rest
          runs,    \* executions begun by each session
          answer,  \* what the client last heard
          content, \* contents of each database, uncommitted changes included
          undo,    \* <<database, field, value>> a session's rollback restores
          holder,  \* holder of each lock
          latest,  \* row value last written by anybody but a deployment
          outside  \* statements of other sessions so far
vars == <<roles, pc, runs, answer, content, undo, holder, latest, outside>>

Run(d) == <<d, runs[d]>>
Targets(d) == {roles[d][i] : i \in 1..Len(roles[d])}
Running(d) == pc[d] # 0

TableOf(x) == <<"table", x>>
ModuleOf(x) == <<"module", x>>
Metadata == <<"tempdb lock", 0>>
DatabaseLock(x) == <<"application lock", x>>
CellOf(c) == <<"cell", c>>
Locks == {Metadata} \cup {CellOf(c) : c \in Cells}
           \cup UNION {{TableOf(x), ModuleOf(x), DatabaseLock(x)} : x \in Databases}

----------------------------------------------------------------------------
(* The statements of the batch.                                            *)

Once(op) == <<[op |-> op, on |-> NameOrder[1]]>>
Each(op, dbs) == [i \in 1..Len(dbs) |-> [op |-> op, on |-> dbs[i]]]
SourcesOf(x) == Each("table", <<x>>) \o Each("rows", <<x>>) \o Each("module", <<x>>)

Precedes(x, y) == \E i, j \in 1..Len(NameOrder) : i < j /\ NameOrder[i] = x /\ NameOrder[j] = y
(* Database names in their sort order, whatever role they have.            *)
Sorted(dbs) == IF Len(dbs) = 2 /\ Precedes(dbs[2], dbs[1]) THEN <<dbs[2], dbs[1]>> ELSE dbs

(* Mutant: the database locks only. *)
LockStepsOfDatabases(dbs) == Each("lock", Sorted(dbs))
(* The lock of the instance's reference tables first, then the databases   *)
(* by name.                                                                *)
LockSteps(dbs) == Once("metadata") \o Each("lock", Sorted(dbs))

(* Sources run in installer order: core, snapshot target, and the modules  *)
(* of the snapshot framework.                                              *)
Work(dbs) ==
  Each("preflight", dbs) \o Each("archive", dbs) \o SourcesOf(dbs[1])
  \o (IF Len(dbs) = 2 THEN SourcesOf(dbs[2]) \o Each("module", <<dbs[1]>>) ELSE <<>>)
  \o Each("verify", dbs) \o Once("commit")
Plan(dbs) == Once("gates") \o LockSteps(dbs) \o Work(dbs)

At(d, op) == Running(d) /\ Plan(roles[d])[pc[d]].op = op
On(d) == Plan(roles[d])[pc[d]].on

(* Mutant: preflight and archive read the table without TABLOCKX, HOLDLOCK. *)
TableLockNone(x) == {}
(* WITH (TABLOCKX, HOLDLOCK), of a table that exists.                      *)
TableLock(x) == IF content[x].table = "absent" THEN {} ELSE {TableOf(x)}

(* Locks the current statement of d needs; all are kept to the end of the  *)
(* transaction.                                                            *)
Needs(d) ==
  IF ~Running(d) THEN {} ELSE
  LET op == Plan(roles[d])[pc[d]].op  x == On(d) IN
  CASE op = "metadata" -> {Metadata}
    [] op = "lock" -> {DatabaseLock(x)}
    [] op \in {"preflight", "verify"} -> {CellOf(c) : c \in Cells} \cup TableLock(x)
    [] op = "archive" -> TableLock(x)
    [] op \in {"table", "rows"} -> {TableOf(x)}
    [] op = "module" -> {ModuleOf(x)}
    [] OTHER -> {}

Holds(d, r) == holder[r] = d
Ready(d) == \A r \in Needs(d) : Holds(d, r)
Waiting(d) == \E r \in Needs(d) : ~Holds(d, r) /\ holder[r] # Nobody
WaitsFor(d, e) == d # e /\ \E r \in Needs(d) : Holds(e, r)

(* The contents another session reads: changes of open transactions undone. *)
Before(d) == [x \in Databases |-> [f \in DOMAIN content[x] |->
  IF \E v \in undo[d] : v.on = x /\ v.field = f
    THEN (CHOOSE v \in undo[d] : v.on = x /\ v.field = f).value ELSE content[x][f]]]
Committed == [x \in Databases |-> [f \in DOMAIN content[x] |->
  LET writers == {d \in Deployments : \E v \in undo[d] : v.on = x /\ v.field = f}
  IN IF writers = {} THEN content[x][f] ELSE Before(CHOOSE d \in writers : TRUE)[x][f]]]

(* d writes fields of database x inside its transaction.                   *)
Write(d, x, new) ==
  /\ content' = [content EXCEPT ![x] = new]
  /\ undo' = [undo EXCEPT ![d] = @ \cup
       {[on |-> x, field |-> f, value |-> content[x][f]] :
          f \in {g \in DOMAIN new : /\ new[g] # content[x][g]
                                    /\ ~\E v \in undo[d] : v.on = x /\ v.field = g}}]

Advance(d) ==
  /\ pc' = [pc EXCEPT ![d] = @ + 1]
  /\ UNCHANGED <<roles, runs, answer, holder, latest, outside>>

----------------------------------------------------------------------------
(* The batch.                                                              *)

(* The admission gate lets only a session without a transaction in.        *)
Start(d) ==
  /\ ~Running(d) /\ runs[d] < MaxRuns
  /\ runs' = [runs EXCEPT ![d] = @ + 1]
  /\ pc' = [pc EXCEPT ![d] = 1]
  /\ answer' = [answer EXCEPT ![d] = "none"]
  /\ UNCHANGED <<roles, content, undo, holder, latest, outside>>

Acquire(d) ==
  /\ \E r \in Needs(d) : holder[r] = Nobody /\ holder' = [holder EXCEPT ![r] = d]
  /\ UNCHANGED <<roles, pc, runs, answer, content, undo, latest, outside>>

(* Mutant: a deployment stands still while another one runs. *)
PassAlone(d) ==
  /\ At(d, "gates") \/ At(d, "metadata") \/ At(d, "lock")
  /\ \A e \in Deployments \ {d} : ~Running(e)
  /\ Ready(d) /\ Advance(d) /\ UNCHANGED <<content, undo>>
(* Name, database and permission gates, BEGIN TRANSACTION; the locks.      *)
Pass(d) ==
  /\ At(d, "gates") \/ At(d, "metadata") \/ At(d, "lock")
  /\ Ready(d) /\ Advance(d) /\ UNCHANGED <<content, undo>>

(* The structural, type and seed checks of a database.                     *)
Acceptable(c) == /\ c.table \in {"absent", "older", "canonical"}
                 /\ c.module \in {"absent", "older", "canonical"}
                 /\ c.row # "conflict"

(* Structure, module types and seed conflicts, before any product write.   *)
Preflight(d) ==
  /\ At(d, "preflight") /\ Ready(d) /\ Acceptable(content[On(d)])
  /\ Advance(d) /\ UNCHANGED <<content, undo>>

(* Mutant: the receipt is written only with a table to archive. *)
ReceiptIfArchived(c, run) ==
  IF c.table = "absent" THEN c
  ELSE [c EXCEPT !.receipts = @ \cup {run}, !.archive = @ \cup {<<run, c.row>>}]
(* The rows of an existing table, and a receipt always.                    *)
Receipt(c, run) ==
  [c EXCEPT !.receipts = @ \cup {run},
            !.archive = IF c.table = "absent" THEN @ ELSE @ \cup {<<run, c.row>>}]

Archive(d) ==
  /\ At(d, "archive") /\ Ready(d)
  /\ Write(d, On(d), Receipt(content[On(d)], Run(d)))
  /\ Advance(d)

(* CREATE where the name is free, the additive ALTER of an older table;    *)
(* a table of another shape is left alone.                                 *)
CreateTable(d) ==
  /\ At(d, "table") /\ Ready(d)
  /\ Write(d, On(d), [content[On(d)] EXCEPT !.table = IF @ = "foreign" THEN @ ELSE "canonical"])
  /\ Advance(d)

(* Framework rows are updated or inserted; a custom row keeps its key.     *)
SeedRows(d) ==
  /\ At(d, "rows") /\ Ready(d)
  /\ Write(d, On(d), [content[On(d)] EXCEPT !.row = IF @ = "conflict" THEN @ ELSE "seed"])
  /\ Advance(d)

(* CREATE OR ALTER; an object of another type under the name is an error.  *)
CreateModule(d) ==
  /\ At(d, "module") /\ Ready(d) /\ content[On(d)].module # "alien"
  /\ Write(d, On(d), [content[On(d)] EXCEPT !.module = "canonical"])
  /\ Advance(d)

(* Mutant: the strict preflight forgets the table's shape. *)
ConformsByModule(c) == c.module = "canonical" /\ c.row = "seed"
(* The strict preflight: nothing older, nothing missing.                   *)
Conforms(c) == c.table = "canonical" /\ c.module = "canonical" /\ c.row = "seed"

Verify(d) ==
  /\ At(d, "verify") /\ Ready(d) /\ Conforms(content[On(d)])
  /\ Advance(d) /\ UNCHANGED <<content, undo>>

(* End of the transaction of d: its locks are free, its client hears `how`. *)
Ends(d, how) ==
  /\ pc' = [pc EXCEPT ![d] = 0]
  /\ answer' = [answer EXCEPT ![d] = how]
  /\ undo' = [undo EXCEPT ![d] = {}]
  /\ holder' = [r \in Locks |-> IF Holds(d, r) THEN Nobody ELSE holder[r]]
  /\ UNCHANGED <<roles, runs, latest, outside>>

(* The report may be lost with the connection after the commit.            *)
Commit(d) ==
  /\ At(d, "commit")
  /\ \E how \in {"COMMITTED", "LOST"} : Ends(d, how)
  /\ UNCHANGED content

Rollback(d, how) == Running(d) /\ content' = Before(d) /\ Ends(d, how)

(* LOCK_TIMEOUT 10000, and THROW when sp_getapplock times out.             *)
Timeout(d) == Waiting(d) /\ Rollback(d, "FAILED")

(* A check that fails, and an error of the statement itself.               *)
Throw(d) ==
  /\ \/ At(d, "preflight") /\ Ready(d) /\ ~Acceptable(content[On(d)])
     \/ At(d, "module") /\ Ready(d) /\ content[On(d)].module = "alien"
     \/ At(d, "verify") /\ Ready(d) /\ ~Conforms(content[On(d)])
  /\ Rollback(d, "FAILED")
Fault(d) == Rollback(d, "FAILED")
Killed(d) == Rollback(d, "LOST")

Step(d) == \/ Acquire(d) \/ Pass(d) \/ Preflight(d) \/ Archive(d) \/ CreateTable(d)
           \/ SeedRows(d) \/ CreateModule(d) \/ Verify(d) \/ Commit(d) \/ Throw(d) \/ Timeout(d)

----------------------------------------------------------------------------
(* Everybody else.  They take the same locks, for one transaction each.    *)

Acts == outside < MaxOutside /\ outside' = outside + 1

(* An operator opens a transaction that locks the table, and ends it with  *)
(* a new value in the framework row or without.                            *)
OperatorLocks(x) ==
  /\ Acts /\ holder[TableOf(x)] = Nobody /\ content[x].table \notin {"absent", "foreign"}
  /\ holder' = [holder EXCEPT ![TableOf(x)] = Operator]
  /\ UNCHANGED <<roles, pc, runs, answer, content, undo, latest>>

Fresh(e) == \A x \in Databases : /\ latest[x] # e /\ content[x].row # e
                                 /\ \A kept \in content[x].archive : kept[2] # e
OperatorEnds(x) ==
  /\ holder[TableOf(x)] = Operator
  /\ holder' = [holder EXCEPT ![TableOf(x)] = Nobody]
  /\ \/ \E e \in {v \in Edits : Fresh(v)} :
          /\ content' = [content EXCEPT ![x].row = e]
          /\ latest' = [latest EXCEPT ![x] = e]
     \/ UNCHANGED <<content, latest>>
  /\ UNCHANGED <<roles, pc, runs, answer, undo, outside>>

(* A table comes into being under a free product name: somebody's own, or  *)
(* the one of the SQLCMD installer, which takes no deployment lock.        *)
Intrude(x) ==
  /\ Acts /\ holder[TableOf(x)] = Nobody /\ content[x].table = "absent"
  /\ \E t \in Intrusions : content' = [content EXCEPT ![x].table = t]
  /\ UNCHANGED <<roles, pc, runs, answer, undo, holder, latest>>

ChangeModule(x) ==
  /\ Acts /\ holder[ModuleOf(x)] = Nobody
  /\ \E m \in {"absent", "older", "alien"} \ {content[x].module} :
       content' = [content EXCEPT ![x].module = m]
  /\ UNCHANGED <<roles, pc, runs, answer, undo, holder, latest>>

----------------------------------------------------------------------------
Init ==
  /\ roles \in [Deployments -> Selections]
  /\ pc = [d \in Deployments |-> 0]
  /\ runs = [d \in Deployments |-> 0]
  /\ answer = [d \in Deployments |-> "none"]
  /\ content \in [Databases -> Contents]
  /\ undo = [d \in Deployments |-> {}]
  /\ holder = [r \in Locks |-> Nobody]
  /\ latest = [x \in Databases |-> content[x].row]
  /\ outside = 0

Next == \/ \E d \in Deployments : Start(d) \/ Step(d) \/ Fault(d) \/ Killed(d)
        \/ \E x \in Databases : OperatorLocks(x) \/ OperatorEnds(x) \/ Intrude(x) \/ ChangeModule(x)

(* A session executes its next statement or hears that its wait timed out. *)
Spec == Init /\ [][Next]_vars /\ \A d \in Deployments : WF_vars(Step(d))

----------------------------------------------------------------------------
(* The value somebody else last gave a framework row is still in the table *)
(* or in the archive of a run: a deployment never overwrites an edit it    *)
(* has not kept (TABLOCKX, HOLDLOCK from preflight to commit).             *)
NoEditLost ==
  \A x \in Databases : latest[x] = "none" \/ Committed[x].row = latest[x]
                         \/ \E kept \in Committed[x].archive : kept[2] = latest[x]

(* Deployments never wait on each other in a circle, whatever databases    *)
(* they selected: the tempdb lock comes before every catalog lock.         *)
NoWaitCycle ==
  \A D \in (SUBSET Deployments) \ {{}} : \E d \in D : \A e \in D : ~WaitsFor(d, e)

(* What a client may conclude at rest from the receipts of its run id: a   *)
(* committed run has one in every database, a failed one in none, and one  *)
(* whose answer was lost is decided by looking, because it is all or none. *)
ReceiptsDecide ==
  \A d \in Deployments : ~Running(d) =>
    LET found == {x \in Targets(d) : Run(d) \in Committed[x].receipts} IN
    /\ answer[d] = "COMMITTED" => found = Targets(d)
    /\ answer[d] = "FAILED" => found = {}
    /\ answer[d] = "LOST" => found \in {{}, Targets(d)}

(* Other sessions see a run happen at once or not at all, from contents it *)
(* accepted, with the replaced rows archived.                              *)
Promise == INSTANCE DeploymentSpec WITH db <- Committed, Runs <- Deployments \X (1..MaxRuns)
DeploymentsAreAtomic == Promise!Spec

(* Every execution of the batch ends, even when an operator never releases *)
(* the table it waits for.                                                 *)
EveryRunEnds == \A d \in Deployments : []<>~Running(d)
=============================================================================
