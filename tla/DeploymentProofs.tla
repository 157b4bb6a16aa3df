-------------------------- MODULE DeploymentProofs --------------------------
(***************************************************************************)
(* Deployments of one instance: no circle of waits (DeadlockFree), what a  *)
(* client may conclude from the receipts (ReceiptsTheorem), a run happens  *)
(* at once or not at all (AtomicTheorem), no edit is lost (EditTheorem).   *)
(* In the order below: the plan of a batch as a sequence, the serialising  *)
(* tempdb lock, the place of every statement in the plan, what the undo    *)
(* records restore, the invariant, one lemma per action, the theorems.     *)
(***************************************************************************)
EXTENDS Deployment, SequenceTheorems, TLAPS

Ops == {"gates", "metadata", "lock", "preflight", "archive", "table", "rows", "module", "verify", "commit"}
Steps == [op : Ops, on : Databases]
USE DeploymentAssumption

LEMMA OnceIsSeq ==
  ASSUME NEW op \in Ops
  PROVE  Once(op) \in Seq(Steps) /\ Len(Once(op)) = 1 /\ Once(op)[1].op = op
BY DEF Once, Steps, DeploymentAssumption

LEMMA EachIsSeq ==
  ASSUME NEW op \in Ops, NEW dbs \in Seq(Databases)
  PROVE  Each(op, dbs) \in Seq(Steps) /\ Len(Each(op, dbs)) = Len(dbs)
BY DEF Each, Steps

LEMMA SourcesIsSeq ==
  ASSUME NEW x \in Databases
  PROVE  SourcesOf(x) \in Seq(Steps)
<1>1. <<x>> \in Seq(Databases)  OBVIOUS
<1>2. Each("table", <<x>>) \in Seq(Steps)  BY <1>1, EachIsSeq DEF Ops
<1>3. Each("rows", <<x>>) \in Seq(Steps)  BY <1>1, EachIsSeq DEF Ops
<1>4. Each("module", <<x>>) \in Seq(Steps)  BY <1>1, EachIsSeq DEF Ops
<1> QED BY <1>2, <1>3, <1>4 DEF SourcesOf

LEMMA WorkIsSeq ==
  ASSUME NEW dbs \in Selections
  PROVE  /\ Work(dbs) \in Seq(Steps) /\ Len(Work(dbs)) > 0
         /\ Work(dbs)[Len(Work(dbs))].op = "commit"
<1>1. dbs \in Seq(Databases) /\ dbs[1] \in Databases /\ (Len(dbs) = 2 => dbs[2] \in Databases)
  BY DEF DeploymentAssumption
<1> DEFINE snapshot == IF Len(dbs) = 2 THEN SourcesOf(dbs[2]) \o Each("module", <<dbs[1]>>) ELSE <<>>
<1>2. snapshot \in Seq(Steps)
  <2>1. CASE Len(dbs) = 2
    <3>1. SourcesOf(dbs[2]) \in Seq(Steps)  BY <1>1, <2>1, SourcesIsSeq
    <3>2. <<dbs[1]>> \in Seq(Databases)  BY <1>1
    <3>3. Each("module", <<dbs[1]>>) \in Seq(Steps)  BY <3>2, EachIsSeq DEF Ops
    <3> QED BY <2>1, <3>1, <3>3
  <2>2. CASE Len(dbs) # 2  BY <2>2
  <2> QED BY <2>1, <2>2
<1>3. Each("preflight", dbs) \in Seq(Steps)  BY <1>1, EachIsSeq DEF Ops
<1>4. Each("archive", dbs) \in Seq(Steps)  BY <1>1, EachIsSeq DEF Ops
<1>5. Each("verify", dbs) \in Seq(Steps)  BY <1>1, EachIsSeq DEF Ops
<1>6. SourcesOf(dbs[1]) \in Seq(Steps)  BY <1>1, SourcesIsSeq
<1>7. Once("commit") \in Seq(Steps) /\ Len(Once("commit")) = 1 /\ Once("commit")[1].op = "commit"
  BY OnceIsSeq DEF Ops
<1> DEFINE body == Each("preflight", dbs) \o Each("archive", dbs) \o SourcesOf(dbs[1])
                   \o snapshot \o Each("verify", dbs)
<1>8. Work(dbs) = body \o Once("commit")  BY DEF Work
<1> HIDE DEF snapshot
<1>9. body \in Seq(Steps)  BY <1>2, <1>3, <1>4, <1>5, <1>6
<1> HIDE DEF body
<1> QED BY <1>7, <1>8, <1>9

(* The plan starts with the gates and the tempdb lock.                     *)
LEMMA PlanStarts ==
  ASSUME NEW dbs \in Selections
  PROVE  /\ Plan(dbs)[1].op = "gates"
         /\ Plan(dbs)[2].op = "metadata"
<1>1. dbs \in Seq(Databases) /\ dbs[1] \in Databases /\ (Len(dbs) = 2 => dbs[2] \in Databases)
  BY DEF DeploymentAssumption
<1>2. Sorted(dbs) \in Seq(Databases)
  BY <1>1 DEF Sorted
<1>3. Each("lock", Sorted(dbs)) \in Seq(Steps)  BY <1>2, EachIsSeq DEF Ops
<1>4. Once("metadata") \in Seq(Steps) /\ Len(Once("metadata")) = 1 /\ Once("metadata")[1].op = "metadata"
  BY OnceIsSeq DEF Ops
<1>5. /\ LockSteps(dbs) \in Seq(Steps) /\ Len(LockSteps(dbs)) >= 1
      /\ LockSteps(dbs)[1] = Once("metadata")[1]
  BY <1>3, <1>4 DEF LockSteps
<1>6. Once("gates") \in Seq(Steps) /\ Len(Once("gates")) = 1 /\ Once("gates")[1].op = "gates"
  BY OnceIsSeq DEF Ops
<1>7. Work(dbs) \in Seq(Steps)  BY WorkIsSeq
<1> DEFINE start == Once("gates") \o LockSteps(dbs)
<1>8. /\ start \in Seq(Steps) /\ Len(start) >= 2
      /\ start[1] = Once("gates")[1] /\ start[2] = LockSteps(dbs)[1]
  BY <1>5, <1>6
<1>9. Plan(dbs) = start \o Work(dbs)  BY DEF Plan
<1> HIDE DEF start
<1>10. Plan(dbs)[1] = start[1] /\ Plan(dbs)[2] = start[2]
  BY <1>7, <1>8, <1>9
<1> QED BY <1>4, <1>5, <1>6, <1>8, <1>10

----------------------------------------------------------------------------
(* What the proof needs to know of the state: a lock of a session is only  *)
(* taken under the tempdb lock, and from the third statement on every      *)
(* session holds it.                                                       *)
TypeInv ==
  /\ roles \in [Deployments -> Selections]
  /\ pc \in [Deployments -> Nat]
  /\ \A d \in Deployments : pc[d] <= Len(Plan(roles[d]))
  /\ holder \in [Locks -> Deployments \cup {Nobody, Operator}]
SerialInv ==
  /\ TypeInv
  /\ \A d \in Deployments : pc[d] > 2 => holder[Metadata] = d
  /\ \A d \in Deployments, r \in Locks : holder[r] = d => holder[Metadata] = d

LEMMA NeedsFirst ==
  ASSUME TypeInv, NEW d \in Deployments, NEW r \in Needs(d)
  PROVE  pc[d] >= 2 /\ (pc[d] = 2 => r = Metadata)
<1>1. roles[d] \in Selections  BY DEF TypeInv
<1>2. Plan(roles[d])[1].op = "gates" /\ Plan(roles[d])[2].op = "metadata"
  BY <1>1, PlanStarts
<1>3. pc[d] # 0  BY DEF Needs, Running
<1>4. pc[d] # 1
  <2> SUFFICES ASSUME pc[d] = 1 PROVE FALSE  OBVIOUS
  <2> QED BY <1>2, <1>3 DEF Needs, Running
<1>5. ASSUME pc[d] = 2 PROVE r = Metadata
  BY <1>2, <1>5 DEF Needs, Running
<1> QED BY <1>3, <1>4, <1>5 DEF TypeInv

LEMMA PlanTyped ==
  ASSUME NEW dbs \in Selections
  PROVE  /\ Plan(dbs) \in Seq(Steps)
         /\ Len(Plan(dbs)) > 0 /\ Plan(dbs)[Len(Plan(dbs))].op = "commit"
<1>1. dbs \in Seq(Databases) /\ dbs[1] \in Databases /\ (Len(dbs) = 2 => dbs[2] \in Databases)
  BY DEF DeploymentAssumption
<1>2. Sorted(dbs) \in Seq(Databases)
  BY <1>1 DEF Sorted
<1>3. Each("lock", Sorted(dbs)) \in Seq(Steps)  BY <1>2, EachIsSeq DEF Ops
<1>4. Once("metadata") \in Seq(Steps)  BY OnceIsSeq DEF Ops
<1>5. LockSteps(dbs) \in Seq(Steps)  BY <1>3, <1>4 DEF LockSteps
<1>6. Once("gates") \in Seq(Steps)  BY OnceIsSeq DEF Ops
<1>7. /\ Work(dbs) \in Seq(Steps) /\ Len(Work(dbs)) > 0
      /\ Work(dbs)[Len(Work(dbs))].op = "commit"
  BY WorkIsSeq
<1> DEFINE start == Once("gates") \o LockSteps(dbs)
<1>8. start \in Seq(Steps)  BY <1>5, <1>6
<1>9. Plan(dbs) = start \o Work(dbs)  BY DEF Plan
<1> HIDE DEF start
<1> QED BY <1>7, <1>8, <1>9

LEMMA NeedsAreLocks ==
  ASSUME TypeInv, NEW d \in Deployments
  PROVE  Needs(d) \subseteq Locks
<1>1. CASE ~Running(d)  BY <1>1 DEF Needs
<1>2. CASE Running(d)
  <2>1. On(d) \in Databases
    <3>1. roles[d] \in Selections  BY DEF TypeInv
    <3>2. Plan(roles[d]) \in Seq(Steps)  BY <3>1, PlanTyped
    <3>3. pc[d] \in 1..Len(Plan(roles[d]))  BY <1>2, <3>2 DEF TypeInv, Running
    <3>4. Plan(roles[d])[pc[d]] \in Steps  BY <3>2, <3>3
    <3> QED BY <3>4 DEF Steps, On
  <2>2. {TableOf(On(d)), ModuleOf(On(d)), DatabaseLock(On(d)), Metadata} \cup {CellOf(c) : c \in Cells} \subseteq Locks
    BY <2>1 DEF Locks
  <2> QED BY <1>2, <2>2 DEF Needs, TableLock
<1> QED BY <1>1, <1>2

LEMMA SerialInit == Init => SerialInv
<1> SUFFICES ASSUME Init PROVE SerialInv  OBVIOUS
<1>1. \A d \in Deployments : roles[d] \in Selections /\ pc[d] = 0  BY DEF Init
<1>2. \A d \in Deployments : Len(Plan(roles[d])) \in Nat  BY <1>1, PlanTyped
<1> QED BY <1>1, <1>2 DEF Init, SerialInv, TypeInv, DeploymentAssumption

(* Past the gates every statement but the tempdb lock itself comes third   *)
(* or later.                                                               *)
LEMMA LaterThanLock ==
  ASSUME TypeInv, NEW d \in Deployments, Running(d), ~At(d, "gates"), ~At(d, "metadata")
  PROVE  pc[d] > 2
<1>1. roles[d] \in Selections  BY DEF TypeInv
<1>2. Plan(roles[d])[1].op = "gates" /\ Plan(roles[d])[2].op = "metadata"
  BY <1>1, PlanStarts
<1>3. pc[d] # 1  BY <1>2 DEF At
<1>4. pc[d] # 2  BY <1>2 DEF At
<1> QED BY <1>3, <1>4 DEF TypeInv, Running

LEMMA AdvanceKeepsSerial ==
  ASSUME SerialInv, NEW d \in Deployments, Advance(d), Running(d),
         At(d, "metadata") => holder[Metadata] = d, ~At(d, "commit")
  PROVE  SerialInv'
<1>1. roles[d] \in Selections  BY DEF SerialInv, TypeInv
<1>2. Plan(roles[d])[1].op = "gates" /\ Plan(roles[d])[2].op = "metadata"
  BY <1>1, PlanStarts
<1>3. TypeInv'
  <2>1. pc[d] # Len(Plan(roles[d]))
    BY <1>1, PlanTyped DEF At
  <2>2. Len(Plan(roles[d])) \in Nat  BY <1>1, PlanTyped
  <2>3. pc[d] + 1 <= Len(Plan(roles[d]))
    BY <2>1, <2>2 DEF SerialInv, TypeInv
  <2> QED BY <2>3 DEF SerialInv, TypeInv, Advance
<1>4. pc[d] > 1 => holder[Metadata] = d
  <2>1. CASE pc[d] = 2  BY <2>1, <1>2 DEF At, Running
  <2>2. CASE pc[d] # 2  BY <2>2 DEF SerialInv, TypeInv
  <2> QED BY <2>1, <2>2
<1>5. \A e \in Deployments : pc'[e] > 2 => holder'[Metadata] = e
  BY <1>4 DEF SerialInv, TypeInv, Advance
<1> QED BY <1>3, <1>5 DEF SerialInv, Advance

LEMMA EndsKeepsSerial ==
  ASSUME SerialInv, NEW d \in Deployments, NEW how, Ends(d, how)
  PROVE  SerialInv'
<1>1. TypeInv'
  <2>1. Len(Plan(roles[d])) >= 0  BY PlanTyped DEF SerialInv, TypeInv
  <2> QED BY <2>1 DEF SerialInv, TypeInv, Ends
<1>2. Metadata \in Locks  BY DEF Locks
<1>3. ASSUME NEW e \in Deployments, pc'[e] > 2 PROVE holder'[Metadata] = e
  <2>1. e # d  BY <1>3 DEF SerialInv, TypeInv, Ends
  <2>2. holder[Metadata] = e  BY <1>3, <2>1 DEF SerialInv, TypeInv, Ends
  <2> QED BY <1>2, <2>1, <2>2 DEF Ends, Holds
<1>4. ASSUME NEW e \in Deployments, NEW r \in Locks, holder'[r] = e PROVE holder'[Metadata] = e
  <2>1. holder[r] = e /\ e # d
    BY <1>4 DEF Ends, Holds, DeploymentAssumption
  <2>2. holder[Metadata] = e  BY <2>1 DEF SerialInv
  <2> QED BY <1>2, <2>1, <2>2 DEF Ends, Holds
<1> QED BY <1>1, <1>3, <1>4 DEF SerialInv

LEMMA AcquireKeepsSerial ==
  ASSUME SerialInv, NEW d \in Deployments, Acquire(d)
  PROVE  SerialInv'
<1>1. PICK r \in Needs(d) : holder[r] = Nobody /\ holder' = [holder EXCEPT ![r] = d]
  BY DEF Acquire
<1>2. pc[d] >= 2 /\ (pc[d] = 2 => r = Metadata)
  BY NeedsFirst DEF SerialInv
<1>3. TypeInv'
  BY <1>1 DEF SerialInv, TypeInv, Acquire
<1>4. Metadata \in Locks  BY DEF Locks
<1>5. CASE r = Metadata
  <2>1. \A e \in Deployments : e # holder[Metadata]
    BY <1>1, <1>5 DEF DeploymentAssumption
  <2>2. \A e \in Deployments : pc[e] <= 2
    <3>1. \A e \in Deployments : ~(pc[e] > 2)  BY <2>1 DEF SerialInv
    <3>2. \A e \in Deployments : pc[e] \in Nat  BY DEF SerialInv, TypeInv
    <3> QED BY <3>1, <3>2
  <2>3. \A e \in Deployments, q \in Locks : holder[q] # e
    BY <2>1 DEF SerialInv
  <2>4. holder'[Metadata] = d /\ \A q \in Locks \ {Metadata} : holder'[q] = holder[q]
    BY <1>1, <1>4, <1>5 DEF SerialInv, TypeInv
  <2>5. \A e \in Deployments : pc'[e] <= 2
    BY <2>2 DEF Acquire
  <2>6. \A e \in Deployments, q \in Locks : holder'[q] = e => holder'[Metadata] = e
    BY <2>3, <2>4
  <2> QED BY <1>3, <2>5, <2>6 DEF SerialInv, TypeInv
<1>6. CASE r # Metadata
  <2>1. holder[Metadata] = d /\ holder'[Metadata] = d
    BY <1>1, <1>2, <1>4, <1>6 DEF SerialInv, TypeInv
  <2>2. \A e \in Deployments, q \in Locks : holder'[q] = e => holder[q] = e \/ e = d
    BY <1>1 DEF SerialInv, TypeInv
  <2>3. \A e \in Deployments, q \in Locks : holder'[q] = e => holder'[Metadata] = e
    BY <2>1, <2>2 DEF SerialInv
  <2>4. \A e \in Deployments : pc'[e] > 2 => holder'[Metadata] = e
    BY <2>1 DEF SerialInv, Acquire
  <2> QED BY <1>3, <2>3, <2>4 DEF SerialInv
<1> QED BY <1>5, <1>6

(* Other sessions' statements move no lock of a deployment.                *)
LEMMA OutsideKeepsSerial ==
  ASSUME SerialInv, NEW x \in Databases,
         OperatorLocks(x) \/ OperatorEnds(x) \/ Intrude(x) \/ ChangeModule(x)
  PROVE  SerialInv'
<1>1. roles' = roles /\ pc' = pc
  BY DEF OperatorLocks, OperatorEnds, Intrude, ChangeModule
<1>2. \/ holder' = holder
      \/ holder[TableOf(x)] = Nobody /\ holder' = [holder EXCEPT ![TableOf(x)] = Operator]
      \/ holder[TableOf(x)] = Operator /\ holder' = [holder EXCEPT ![TableOf(x)] = Nobody]
  BY DEF OperatorLocks, OperatorEnds, Intrude, ChangeModule
<1>3. TableOf(x) # Metadata  BY DEF TableOf, Metadata
<1>4. holder' \in [Locks -> Deployments \cup {Nobody, Operator}]
  BY <1>2 DEF SerialInv, TypeInv
<1>5. Metadata \in Locks  BY DEF Locks
<1>6. holder'[Metadata] = holder[Metadata]
  BY <1>2, <1>3, <1>5 DEF SerialInv, TypeInv
<1>7. \A e \in Deployments, q \in Locks : holder'[q] = e => holder[q] = e
  BY <1>2 DEF SerialInv, TypeInv, DeploymentAssumption
<1>8. TypeInv'  BY <1>1, <1>4 DEF SerialInv, TypeInv
<1> QED BY <1>1, <1>6, <1>7, <1>8 DEF SerialInv

LEMMA SerialNext ==
  ASSUME SerialInv, [Next]_vars
  PROVE  SerialInv'
<1>1. ASSUME NEW d \in Deployments, Start(d) PROVE SerialInv'
  <2>1. TypeInv'
    <3>1. Len(Plan(roles[d])) >= 1
      BY PlanTyped DEF SerialInv, TypeInv
    <3> QED BY <1>1, <3>1 DEF SerialInv, TypeInv, Start
  <2>2. \A e \in Deployments : pc'[e] > 2 => pc[e] > 2
    BY <1>1 DEF Start, SerialInv, TypeInv
  <2> QED BY <1>1, <2>1, <2>2 DEF Start, SerialInv
<1>2. ASSUME NEW d \in Deployments, Acquire(d) PROVE SerialInv'
  BY <1>2, AcquireKeepsSerial
<1>3. ASSUME NEW d \in Deployments, Pass(d) PROVE SerialInv'
  <2>1. Running(d) /\ Advance(d) /\ Ready(d)  BY <1>3 DEF Pass, At
  <2>2. At(d, "metadata") => holder[Metadata] = d
    BY <2>1 DEF At, Ready, Needs, Holds
  <2>3. ~At(d, "commit")  BY <1>3 DEF Pass, At
  <2> QED BY <2>1, <2>2, <2>3, AdvanceKeepsSerial
<1>4. ASSUME NEW d \in Deployments,
             Preflight(d) \/ Archive(d) \/ CreateTable(d) \/ SeedRows(d) \/ CreateModule(d) \/ Verify(d)
      PROVE SerialInv'
  <2>1. Running(d) /\ Advance(d) /\ ~At(d, "metadata") /\ ~At(d, "commit")
    BY <1>4 DEF Preflight, Archive, CreateTable, SeedRows, CreateModule, Verify, At
  <2> QED BY <2>1, AdvanceKeepsSerial
<1>5. ASSUME NEW d \in Deployments, Commit(d) \/ Throw(d) \/ Timeout(d) \/ Fault(d) \/ Killed(d)
      PROVE SerialInv'
  <2>1. \E how : Ends(d, how)
    BY <1>5 DEF Commit, Throw, Timeout, Fault, Killed, Rollback
  <2> QED BY <2>1, EndsKeepsSerial
<1>6. ASSUME NEW x \in Databases,
             OperatorLocks(x) \/ OperatorEnds(x) \/ Intrude(x) \/ ChangeModule(x)
      PROVE SerialInv'
  BY <1>6, OutsideKeepsSerial
<1>7. CASE UNCHANGED vars
  BY <1>7 DEF vars, SerialInv, TypeInv
<1> QED BY <1>1, <1>2, <1>3, <1>4, <1>5, <1>6, <1>7 DEF Next, Step

LEMMA SerialTheorem == Spec => []SerialInv
<1>1. SerialInv /\ [Next]_vars => SerialInv'  BY SerialNext
<1> QED BY SerialInit, <1>1, PTL DEF Spec

(* Whoever waits for a session waits for the holder of the tempdb lock, so *)
(* that session waits for no deployment.                                   *)
LEMMA SerialMeansNoCircle ==
  ASSUME SerialInv
  PROVE  NoWaitCycle
<1>1. ASSUME NEW d \in Deployments, NEW e \in Deployments, WaitsFor(d, e)
      PROVE  holder[Metadata] = e
  <2>1. PICK r \in Needs(d) : holder[r] = e  BY <1>1 DEF WaitsFor, Holds
  <2>2. r \in Locks
    BY NeedsAreLocks DEF SerialInv
  <2> QED BY <2>1, <2>2 DEF SerialInv
<1>2. ASSUME NEW D \in (SUBSET Deployments) \ {{}}, \A d \in D : \E e \in D : WaitsFor(d, e)
      PROVE FALSE
  <2>1. PICK d : d \in D  BY <1>2
  <2>2. PICK e \in D : WaitsFor(d, e)  BY <1>2, <2>1
  <2>3. PICK f \in D : WaitsFor(e, f)  BY <1>2, <2>2
  <2>4. d \in Deployments /\ e \in Deployments /\ f \in Deployments  BY <1>2, <2>1
  <2>5. holder[Metadata] = e  BY <1>1, <2>2, <2>4
  <2>6. holder[Metadata] = f  BY <1>1, <2>3, <2>4
  <2>7. e # f  BY <2>3 DEF WaitsFor
  <2> QED BY <2>5, <2>6, <2>7
<1> QED BY <1>2 DEF NoWaitCycle

(* NoWaitCycle for every set of sessions, databases and selections: the    *)
(* order of the lock statements in generate() excludes deadlocks among     *)
(* deployments.                                                            *)
THEOREM DeadlockFree == Spec => []NoWaitCycle
<1>1. SerialInv => NoWaitCycle  BY SerialMeansNoCircle
<1> QED BY SerialTheorem, <1>1, PTL

(* The statements of a deployment, by position.                            *)

LEMMA CatAt ==
  ASSUME NEW s \in Seq(Steps), NEW t \in Seq(Steps)
  PROVE  /\ s \o t \in Seq(Steps) /\ Len(s \o t) = Len(s) + Len(t)
         /\ \A i \in 1 .. Len(s) + Len(t) : (s \o t)[i] = IF i <= Len(s) THEN s[i] ELSE t[i - Len(s)]
  BY ConcatProperties, Zenon

St(o, x) == [op |-> o, on |-> x]

LEMMA EachAt ==
  ASSUME NEW op \in Ops, NEW dbs \in Seq(Databases)
  PROVE  /\ Each(op, dbs) \in Seq(Steps) /\ Len(Each(op, dbs)) = Len(dbs)
         /\ \A i \in 1..Len(dbs) : Each(op, dbs)[i] = St(op, dbs[i])
<1>1. \A i \in 1..Len(dbs) : Each(op, dbs)[i] = St(op, dbs[i])
  BY DEF Each, St
<1> QED BY <1>1, EachIsSeq

LEMMA EachOne ==
  ASSUME NEW op \in Ops, NEW x \in Databases
  PROVE  /\ Each(op, <<x>>) \in Seq(Steps) /\ Len(Each(op, <<x>>)) = 1
         /\ Each(op, <<x>>)[1] = St(op, x)
<1>1. <<x>> \in Seq(Databases) /\ Len(<<x>>) = 1 /\ <<x>>[1] = x
  OBVIOUS
<1>2. Each(op, <<x>>) \in Seq(Steps) /\ Len(Each(op, <<x>>)) = 1
  BY <1>1, EachIsSeq
<1>3. Each(op, <<x>>)[1] = St(op, x)
  BY <1>1 DEF Each, St
<1> QED BY <1>2, <1>3

LEMMA SourcesAt ==
  ASSUME NEW x \in Databases
  PROVE  /\ SourcesOf(x) \in Seq(Steps) /\ Len(SourcesOf(x)) = 3
         /\ SourcesOf(x)[1] = St("table", x) /\ SourcesOf(x)[2] = St("rows", x)
         /\ SourcesOf(x)[3] = St("module", x)
<1>2. \A op \in Ops : /\ Each(op, <<x>>) \in Seq(Steps) /\ Len(Each(op, <<x>>)) = 1
                      /\ Each(op, <<x>>)[1] = St(op, x)
  BY EachOne, Zenon
<1>3. "table" \in Ops /\ "rows" \in Ops /\ "module" \in Ops
  BY DEF Ops
<1> DEFINE a == Each("table", <<x>>)
           b == Each("rows", <<x>>)
           c == Each("module", <<x>>)
<1>4. /\ a \in Seq(Steps) /\ Len(a) = 1 /\ a[1] = St("table", x)
      /\ b \in Seq(Steps) /\ Len(b) = 1 /\ b[1] = St("rows", x)
      /\ c \in Seq(Steps) /\ Len(c) = 1 /\ c[1] = St("module", x)
  BY <1>2, <1>3
<1>5. SourcesOf(x) = (a \o b) \o c
  BY DEF SourcesOf
<1> DEFINE s == a \o b
<1>6. s = a \o b /\ SourcesOf(x) = s \o c
  BY <1>5
<1> HIDE DEF a, b, c, s, St
<1>7. /\ s \in Seq(Steps) /\ Len(s) = Len(a) + Len(b)
      /\ \A i \in 1 .. Len(a) + Len(b) : s[i] = IF i <= Len(a) THEN a[i] ELSE b[i - Len(a)]
  BY <1>4, <1>6, CatAt, Zenon
<1>8. s \in Seq(Steps) /\ Len(s) = 2 /\ s[1] = St("table", x) /\ s[2] = St("rows", x)
  BY <1>4, <1>7
<1> DEFINE w == SourcesOf(x)
<1>9. w = s \o c
  BY <1>6
<1> HIDE DEF w
<1>10. /\ w \in Seq(Steps) /\ Len(w) = Len(s) + Len(c)
       /\ \A i \in 1 .. Len(s) + Len(c) : w[i] = IF i <= Len(s) THEN s[i] ELSE c[i - Len(s)]
  BY <1>4, <1>8, <1>9, CatAt, Zenon
<1>11. w \in Seq(Steps) /\ Len(w) = 3 /\ w[1] = St("table", x) /\ w[2] = St("rows", x) /\ w[3] = St("module", x)
  BY <1>4, <1>8, <1>10
<1> QED BY <1>11 DEF w

(* n databases and their sources; a snapshot database brings the modules   *)
(* of the framework after its own.                                         *)
LEMMA WorkAt ==
  ASSUME NEW dbs \in Selections
  PROVE  LET w == Work(dbs)
         IN  /\ Len(dbs) = 1 =>
                  /\ Len(w) = 7
                  /\ w[1] = St("preflight", dbs[1]) /\ w[2] = St("archive", dbs[1])
                  /\ w[3] = St("table", dbs[1]) /\ w[4] = St("rows", dbs[1])
                  /\ w[5] = St("module", dbs[1]) /\ w[6] = St("verify", dbs[1]) /\ w[7].op = "commit"
             /\ Len(dbs) = 2 =>
                  /\ Len(w) = 14
                  /\ w[1] = St("preflight", dbs[1]) /\ w[2] = St("preflight", dbs[2])
                  /\ w[3] = St("archive", dbs[1]) /\ w[4] = St("archive", dbs[2])
                  /\ w[5] = St("table", dbs[1]) /\ w[6] = St("rows", dbs[1])
                  /\ w[7] = St("module", dbs[1]) /\ w[8] = St("table", dbs[2])
                  /\ w[9] = St("rows", dbs[2]) /\ w[10] = St("module", dbs[2])
                  /\ w[11] = St("module", dbs[1])
                  /\ w[12] = St("verify", dbs[1]) /\ w[13] = St("verify", dbs[2])
                  /\ w[14].op = "commit"
<1> DEFINE n == Len(dbs)
           p == Each("preflight", dbs)
           q == Each("archive", dbs)
           v == Each("verify", dbs)
           r == SourcesOf(dbs[1])
           m == Each("module", <<dbs[1]>>)
           s == SourcesOf(dbs[2]) \o m
           f == Once("commit")
<1>1. dbs \in Seq(Databases) /\ n \in {1, 2}
  BY DEF DeploymentAssumption
<1>2. dbs[1] \in Databases /\ (n = 2 => dbs[2] \in Databases)
  BY <1>1
<1>3. "preflight" \in Ops /\ "archive" \in Ops /\ "verify" \in Ops /\ "module" \in Ops /\ "commit" \in Ops
  BY DEF Ops
<1>4. /\ p \in Seq(Steps) /\ Len(p) = n /\ \A i \in 1..n : p[i] = St("preflight", dbs[i])
      /\ q \in Seq(Steps) /\ Len(q) = n /\ \A i \in 1..n : q[i] = St("archive", dbs[i])
      /\ v \in Seq(Steps) /\ Len(v) = n /\ \A i \in 1..n : v[i] = St("verify", dbs[i])
  BY <1>1, <1>3, EachAt
<1>5. r \in Seq(Steps) /\ Len(r) = 3 /\ r[1] = St("table", dbs[1]) /\ r[2] = St("rows", dbs[1])
      /\ r[3] = St("module", dbs[1])
  BY <1>2, SourcesAt
<1>6. m \in Seq(Steps) /\ Len(m) = 1 /\ m[1] = St("module", dbs[1])
  BY <1>2, <1>3, EachOne
<1>7. f \in Seq(Steps) /\ Len(f) = 1 /\ f[1].op = "commit"
  BY <1>3, OnceIsSeq
<1>8. Work(dbs) = ((((p \o q) \o r) \o (IF n = 2 THEN s ELSE <<>>)) \o v) \o f
  BY DEF Work
<1>9. n = 2 => /\ s \in Seq(Steps) /\ Len(s) = 4
               /\ s[1] = St("table", dbs[2]) /\ s[2] = St("rows", dbs[2])
               /\ s[3] = St("module", dbs[2]) /\ s[4] = St("module", dbs[1])
  <2>1. SUFFICES ASSUME n = 2
                 PROVE  /\ s \in Seq(Steps) /\ Len(s) = 4
                        /\ s[1] = St("table", dbs[2]) /\ s[2] = St("rows", dbs[2])
                        /\ s[3] = St("module", dbs[2]) /\ s[4] = St("module", dbs[1])
    OBVIOUS
  <2> DEFINE u == SourcesOf(dbs[2])
  <2>2. u \in Seq(Steps) /\ Len(u) = 3 /\ u[1] = St("table", dbs[2]) /\ u[2] = St("rows", dbs[2])
        /\ u[3] = St("module", dbs[2])
    BY <1>2, <2>1, SourcesAt
  <2>3. s = u \o m
    OBVIOUS
  <2> HIDE DEF u, m, s, St
  <2>4. /\ s \in Seq(Steps) /\ Len(s) = Len(u) + Len(m)
        /\ \A i \in 1 .. Len(u) + Len(m) : s[i] = IF i <= Len(u) THEN u[i] ELSE m[i - Len(u)]
    BY <1>6, <2>2, <2>3, CatAt, Zenon
  <2> QED BY <1>6, <2>2, <2>4
<1> HIDE DEF n, p, q, v, r, m, s, f, St
<1> DEFINE w == Work(dbs)
           a == p \o q
           b == a \o r
           c == b \o s
<1>10. a = p \o q /\ b = a \o r /\ (n = 2 => c = b \o s)
       /\ w = (IF n = 2 THEN (c \o v) \o f ELSE ((b \o <<>>) \o v) \o f)
  BY <1>8
<1> HIDE DEF w, a, b, c
<1>11. a \in Seq(Steps) /\ Len(a) = 2 * n
       /\ \A i \in 1..n : a[i] = St("preflight", dbs[i]) /\ a[n + i] = St("archive", dbs[i])
  <2>1. /\ a \in Seq(Steps) /\ Len(a) = Len(p) + Len(q)
        /\ \A i \in 1 .. Len(p) + Len(q) : a[i] = IF i <= Len(p) THEN p[i] ELSE q[i - Len(p)]
    BY <1>4, <1>10, CatAt, Zenon
  <2> QED BY <1>1, <1>4, <2>1
<1>12. b \in Seq(Steps) /\ Len(b) = 2 * n + 3
       /\ (\A i \in 1..n : b[i] = St("preflight", dbs[i]) /\ b[n + i] = St("archive", dbs[i]))
       /\ b[2 * n + 1] = St("table", dbs[1]) /\ b[2 * n + 2] = St("rows", dbs[1])
       /\ b[2 * n + 3] = St("module", dbs[1])
  <2>1. /\ b \in Seq(Steps) /\ Len(b) = Len(a) + Len(r)
        /\ \A i \in 1 .. Len(a) + Len(r) : b[i] = IF i <= Len(a) THEN a[i] ELSE r[i - Len(a)]
    BY <1>5, <1>10, <1>11, CatAt, Zenon
  <2> QED BY <1>1, <1>5, <1>11, <2>1
<1>13. CASE n = 1
  <2> DEFINE e == b \o v
  <2>1. b \o <<>> = b
    BY <1>12, ConcatEmptySeq, Zenon
  <2>2. e = b \o v /\ w = e \o f
    BY <1>10, <1>13, <2>1
  <2> HIDE DEF e
  <2>3. /\ e \in Seq(Steps) /\ Len(e) = Len(b) + Len(v)
        /\ \A i \in 1 .. Len(b) + Len(v) : e[i] = IF i <= Len(b) THEN b[i] ELSE v[i - Len(b)]
    BY <1>4, <1>12, <2>2, CatAt, Zenon
  <2>4. /\ w \in Seq(Steps) /\ Len(w) = Len(e) + Len(f)
        /\ \A i \in 1 .. Len(e) + Len(f) : w[i] = IF i <= Len(e) THEN e[i] ELSE f[i - Len(e)]
    BY <1>7, <2>2, <2>3, CatAt, Zenon
  <2>5. Len(e) = 6 /\ (\A i \in 1..5 : e[i] = b[i]) /\ e[6] = v[1]
    BY <1>4, <1>12, <1>13, <2>3
  <2>6. Len(w) = 7 /\ (\A i \in 1..6 : w[i] = e[i]) /\ w[7] = f[1]
    BY <1>7, <2>4, <2>5
  <2>7. /\ b[1] = St("preflight", dbs[1]) /\ b[1 + 1] = St("archive", dbs[1])
        /\ b[2 * 1 + 1] = St("table", dbs[1]) /\ b[2 * 1 + 2] = St("rows", dbs[1])
        /\ b[2 * 1 + 3] = St("module", dbs[1]) /\ v[1] = St("verify", dbs[1])
    BY <1>4, <1>12, <1>13
  <2>8. /\ w[1] = b[1] /\ w[2] = b[2] /\ w[3] = b[3] /\ w[4] = b[4] /\ w[5] = b[5]
        /\ w[6] = v[1] /\ w[7] = f[1]
    BY <2>5, <2>6
  <2> HIDE DEF n
  <2> QED BY <1>7, <1>13, <2>6, <2>7, <2>8 DEF n, w
<1>14. CASE n = 2
  <2> DEFINE e == c \o v
  <2>1. c = b \o s /\ e = c \o v /\ w = e \o f
    BY <1>10, <1>14
  <2> HIDE DEF e
  <2>2. /\ c \in Seq(Steps) /\ Len(c) = Len(b) + Len(s)
        /\ \A i \in 1 .. Len(b) + Len(s) : c[i] = IF i <= Len(b) THEN b[i] ELSE s[i - Len(b)]
    BY <1>9, <1>12, <1>14, <2>1, CatAt, Zenon
  <2>3. /\ e \in Seq(Steps) /\ Len(e) = Len(c) + Len(v)
        /\ \A i \in 1 .. Len(c) + Len(v) : e[i] = IF i <= Len(c) THEN c[i] ELSE v[i - Len(c)]
    BY <1>4, <2>1, <2>2, CatAt, Zenon
  <2>4. /\ w \in Seq(Steps) /\ Len(w) = Len(e) + Len(f)
        /\ \A i \in 1 .. Len(e) + Len(f) : w[i] = IF i <= Len(e) THEN e[i] ELSE f[i - Len(e)]
    <3>1. e \in Seq(Steps) /\ f \in Seq(Steps) /\ w = e \o f
      BY <1>7, <2>1, <2>3
    <3> QED BY <3>1, CatAt, Zenon
  <2>5. Len(c) = 11 /\ (\A i \in 1..7 : c[i] = b[i]) /\ \A i \in 1..4 : c[7 + i] = s[i]
    <3>1. Len(b) = 7 /\ Len(s) = 4
      BY <1>9, <1>12, <1>14
    <3>2. \A i \in 1..11 : c[i] = IF i <= 7 THEN b[i] ELSE s[i - 7]
      BY <2>2, <3>1
    <3>3. Len(c) = 11
      BY <2>2, <3>1
    <3> QED BY <3>2, <3>3
  <2>6. Len(e) = 13 /\ (\A i \in 1..11 : e[i] = c[i]) /\ \A i \in 1..2 : e[11 + i] = v[i]
    BY <1>4, <1>14, <2>3, <2>5
  <2>7. Len(w) = 14 /\ (\A i \in 1..13 : w[i] = e[i]) /\ w[14] = f[1]
    BY <1>7, <2>4, <2>6
  <2>8. \A i \in 1..7 : w[i] = b[i]
    BY <2>5, <2>6, <2>7
  <2>9. w[8] = s[1] /\ w[9] = s[2] /\ w[10] = s[3] /\ w[11] = s[4] /\ w[12] = v[1] /\ w[13] = v[2]
    <3>1. w[8] = c[7 + 1] /\ w[9] = c[7 + 2] /\ w[10] = c[7 + 3] /\ w[11] = c[7 + 4]
      BY <2>6, <2>7
    <3>2. w[12] = e[11 + 1] /\ w[13] = e[11 + 2]
      BY <2>7
    <3> QED BY <2>5, <2>6, <3>1, <3>2
  <2>10. w \in Seq(Steps) /\ Len(w) = 14 /\ w[14].op = "commit"
    BY <1>7, <2>4, <2>7
  <2>11. w[12] = St("verify", dbs[1]) /\ w[13] = St("verify", dbs[2])
    BY <1>4, <1>14, <2>9
  <2>12. w[8] = St("table", dbs[2]) /\ w[9] = St("rows", dbs[2]) /\ w[10] = St("module", dbs[2])
         /\ w[11] = St("module", dbs[1])
    BY <1>9, <1>14, <2>9
  <2>13. /\ b[1] = St("preflight", dbs[1]) /\ b[2] = St("preflight", dbs[2])
         /\ b[2 + 1] = St("archive", dbs[1]) /\ b[2 + 2] = St("archive", dbs[2])
    BY <1>12, <1>14
  <2>14. b[5] = St("table", dbs[1]) /\ b[6] = St("rows", dbs[1]) /\ b[7] = St("module", dbs[1])
    BY <1>12, <1>14
  <2>15. /\ w[1] = b[1] /\ w[2] = b[2] /\ w[3] = b[3] /\ w[4] = b[4] /\ w[5] = b[5]
         /\ w[6] = b[6] /\ w[7] = b[7]
    BY <2>8
  <2>16. /\ w[1] = St("preflight", dbs[1]) /\ w[2] = St("preflight", dbs[2])
         /\ w[3] = St("archive", dbs[1]) /\ w[4] = St("archive", dbs[2])
    BY <2>13, <2>15
  <2>17. w[5] = St("table", dbs[1]) /\ w[6] = St("rows", dbs[1]) /\ w[7] = St("module", dbs[1])
    BY <2>14, <2>15
  <2> QED BY <1>14, <2>10, <2>11, <2>12, <2>16, <2>17 DEF n, w
<1> QED BY <1>1, <1>13, <1>14

(* The whole batch: the gates, the tempdb lock, the database locks, the    *)
(* work.                                                                   *)
LEMMA PlanAt ==
  ASSUME NEW dbs \in Selections
  PROVE  LET p == Plan(dbs)
         IN  /\ Len(dbs) \in {1, 2} /\ p \in Seq(Steps)
             /\ p[1].op = "gates" /\ p[2].op = "metadata" /\ p[3].op = "lock"
             /\ Len(dbs) = 1 =>
                  /\ Len(p) = 10
                  /\ p[4] = St("preflight", dbs[1]) /\ p[5] = St("archive", dbs[1])
                  /\ p[6] = St("table", dbs[1]) /\ p[7] = St("rows", dbs[1])
                  /\ p[8] = St("module", dbs[1]) /\ p[9] = St("verify", dbs[1])
                  /\ p[10].op = "commit"
             /\ Len(dbs) = 2 =>
                  /\ Len(p) = 18 /\ p[4].op = "lock"
                  /\ p[5] = St("preflight", dbs[1]) /\ p[6] = St("preflight", dbs[2])
                  /\ p[7] = St("archive", dbs[1]) /\ p[8] = St("archive", dbs[2])
                  /\ p[9] = St("table", dbs[1]) /\ p[10] = St("rows", dbs[1])
                  /\ p[11] = St("module", dbs[1]) /\ p[12] = St("table", dbs[2])
                  /\ p[13] = St("rows", dbs[2]) /\ p[14] = St("module", dbs[2])
                  /\ p[15] = St("module", dbs[1])
                  /\ p[16] = St("verify", dbs[1]) /\ p[17] = St("verify", dbs[2])
                  /\ p[18].op = "commit"
<1> DEFINE n == Len(dbs)
           g == Once("gates")
           m == Once("metadata")
           k == Each("lock", Sorted(dbs))
           w == Work(dbs)
           h == m \o k
           s == g \o h
           p == Plan(dbs)
<1>1. dbs \in Seq(Databases) /\ n \in {1, 2}
  BY DEF DeploymentAssumption
<1>2. Sorted(dbs) \in Seq(Databases) /\ Len(Sorted(dbs)) = n
  BY <1>1 DEF Sorted
<1>3. "gates" \in Ops /\ "metadata" \in Ops /\ "lock" \in Ops
  BY DEF Ops
<1>4. /\ g \in Seq(Steps) /\ Len(g) = 1 /\ g[1].op = "gates"
      /\ m \in Seq(Steps) /\ Len(m) = 1 /\ m[1].op = "metadata"
  BY <1>3, OnceIsSeq
<1>5. k \in Seq(Steps) /\ Len(k) = n /\ \A i \in 1..n : k[i].op = "lock"
  <2>1. k \in Seq(Steps) /\ Len(k) = Len(Sorted(dbs))
    BY <1>2, <1>3, EachIsSeq
  <2>2. \A i \in 1..Len(Sorted(dbs)) : k[i].op = "lock"
    BY DEF Each
  <2> QED BY <1>2, <2>1, <2>2
<1>6. s = g \o h /\ h = m \o k /\ p = s \o w
  BY DEF Plan, LockSteps
<1>7. w \in Seq(Steps)
  BY WorkIsSeq
<1>8. n = 1 => /\ Len(w) = 7
               /\ w[1] = St("preflight", dbs[1]) /\ w[2] = St("archive", dbs[1])
               /\ w[3] = St("table", dbs[1]) /\ w[4] = St("rows", dbs[1])
               /\ w[5] = St("module", dbs[1]) /\ w[6] = St("verify", dbs[1]) /\ w[7].op = "commit"
  BY WorkAt, Zenon
<1>9. n = 2 => /\ Len(w) = 14
               /\ w[1] = St("preflight", dbs[1]) /\ w[2] = St("preflight", dbs[2])
               /\ w[3] = St("archive", dbs[1]) /\ w[4] = St("archive", dbs[2])
               /\ w[5] = St("table", dbs[1]) /\ w[6] = St("rows", dbs[1])
               /\ w[7] = St("module", dbs[1]) /\ w[8] = St("table", dbs[2])
               /\ w[9] = St("rows", dbs[2]) /\ w[10] = St("module", dbs[2])
               /\ w[11] = St("module", dbs[1])
               /\ w[12] = St("verify", dbs[1]) /\ w[13] = St("verify", dbs[2])
               /\ w[14].op = "commit"
  BY WorkAt, Zenon
<1> HIDE DEF n, g, m, k, w, h, s, p, St
<1>10. /\ h \in Seq(Steps) /\ Len(h) = Len(m) + Len(k)
       /\ \A i \in 1 .. Len(m) + Len(k) : h[i] = IF i <= Len(m) THEN m[i] ELSE k[i - Len(m)]
  BY <1>4, <1>5, <1>6, CatAt, Zenon
<1>11. Len(h) = 1 + n /\ h[1].op = "metadata" /\ \A i \in 1..n : h[1 + i].op = "lock"
  BY <1>1, <1>4, <1>5, <1>10
<1>12. /\ s \in Seq(Steps) /\ Len(s) = Len(g) + Len(h)
       /\ \A i \in 1 .. Len(g) + Len(h) : s[i] = IF i <= Len(g) THEN g[i] ELSE h[i - Len(g)]
  BY <1>4, <1>6, <1>10, CatAt, Zenon
<1>13. /\ Len(s) = 2 + n /\ s[1].op = "gates" /\ s[2].op = "metadata"
       /\ \A i \in 1..n : s[2 + i].op = "lock"
  <2>1. \A i \in 1..2 + n : s[i] = IF i <= 1 THEN g[i] ELSE h[i - 1]
    BY <1>1, <1>4, <1>11, <1>12
  <2>2. \A i \in 1..n : s[2 + i] = h[1 + i]
    BY <1>1, <2>1
  <2> QED BY <1>1, <1>4, <1>11, <1>12, <2>1, <2>2
<1>14. /\ p \in Seq(Steps) /\ Len(p) = Len(s) + Len(w)
       /\ \A i \in 1 .. Len(s) + Len(w) : p[i] = IF i <= Len(s) THEN s[i] ELSE w[i - Len(s)]
  <2>1. s \in Seq(Steps) /\ w \in Seq(Steps) /\ p = s \o w
    BY <1>6, <1>7, <1>12
  <2> QED BY <2>1, CatAt, Zenon
<1>15. CASE n = 1
  <2>1. Len(p) = 10 /\ (\A i \in 1..3 : p[i] = s[i]) /\ \A i \in 1..7 : p[3 + i] = w[i]
    <3>1. Len(s) = 3 /\ Len(w) = 7
      BY <1>8, <1>13, <1>15
    <3>2. Len(p) = 10 /\ \A i \in 1..10 : p[i] = IF i <= 3 THEN s[i] ELSE w[i - 3]
      BY <1>14, <3>1
    <3> QED BY <3>2
  <2>2. p[1] = s[1] /\ p[2] = s[2] /\ p[3] = s[2 + 1]
    BY <2>1
  <2>3. /\ p[4] = w[1] /\ p[5] = w[2] /\ p[6] = w[3] /\ p[7] = w[4] /\ p[8] = w[5]
        /\ p[9] = w[6] /\ p[10] = w[7]
    BY <2>1
  <2>4. p[1].op = "gates" /\ p[2].op = "metadata" /\ p[3].op = "lock"
    <3>1. s[2 + 1].op = "lock"
      BY <1>13, <1>15
    <3> QED BY <1>13, <2>2, <3>1
  <2> HIDE DEF n
  <2>5. /\ p[4] = St("preflight", dbs[1]) /\ p[5] = St("archive", dbs[1])
        /\ p[6] = St("table", dbs[1]) /\ p[7] = St("rows", dbs[1])
        /\ p[8] = St("module", dbs[1]) /\ p[9] = St("verify", dbs[1]) /\ p[10].op = "commit"
    BY <1>8, <1>15, <2>3
  <2>6. p \in Seq(Steps) /\ Len(p) = 10 /\ n \in {1, 2} /\ n # 2
    BY <1>14, <1>15, <2>1
  <2> QED BY <2>4, <2>5, <2>6 DEF n, p
<1>16. CASE n = 2
  <2>1. Len(p) = 18 /\ (\A i \in 1..4 : p[i] = s[i]) /\ \A i \in 1..14 : p[4 + i] = w[i]
    <3>1. Len(s) = 4 /\ Len(w) = 14
      BY <1>9, <1>13, <1>16
    <3>2. Len(p) = 18 /\ \A i \in 1..18 : p[i] = IF i <= 4 THEN s[i] ELSE w[i - 4]
      BY <1>14, <3>1
    <3> QED BY <3>2
  <2>2. p[1] = s[1] /\ p[2] = s[2] /\ p[3] = s[2 + 1] /\ p[4] = s[2 + 2]
    BY <2>1
  <2>3. /\ p[5] = w[1] /\ p[6] = w[2] /\ p[7] = w[3] /\ p[8] = w[4] /\ p[9] = w[5] /\ p[10] = w[6]
        /\ p[11] = w[7] /\ p[12] = w[8] /\ p[13] = w[9] /\ p[14] = w[10] /\ p[15] = w[11]
        /\ p[16] = w[12] /\ p[17] = w[13] /\ p[18] = w[14]
    BY <2>1
  <2>4. p[1].op = "gates" /\ p[2].op = "metadata" /\ p[3].op = "lock" /\ p[4].op = "lock"
    <3>1. s[2 + 1].op = "lock" /\ s[2 + 2].op = "lock"
      BY <1>13, <1>16
    <3> QED BY <1>13, <2>2, <3>1
  <2>5. /\ p[5] = St("preflight", dbs[1]) /\ p[6] = St("preflight", dbs[2])
        /\ p[7] = St("archive", dbs[1]) /\ p[8] = St("archive", dbs[2])
        /\ p[9] = St("table", dbs[1]) /\ p[10] = St("rows", dbs[1])
    BY <1>9, <1>16, <2>3, Zenon
  <2>6. /\ p[11] = St("module", dbs[1]) /\ p[12] = St("table", dbs[2])
        /\ p[13] = St("rows", dbs[2]) /\ p[14] = St("module", dbs[2])
    BY <1>9, <1>16, <2>3, Zenon
  <2>7. /\ p[15] = St("module", dbs[1])
        /\ p[16] = St("verify", dbs[1]) /\ p[17] = St("verify", dbs[2]) /\ p[18].op = "commit"
    BY <1>9, <1>16, <2>3, Zenon
  <2>8. p \in Seq(Steps) /\ Len(p) = 18 /\ n \in {1, 2} /\ n # 1
    BY <1>14, <1>16, <2>1
  <2> QED BY <2>4, <2>5, <2>6, <2>7, <2>8 DEF n, p
<1> QED BY <1>1, <1>15, <1>16

WorkOps == {"preflight", "archive", "table", "rows", "module", "verify"}
(* Where the statement of a kind on the i-th of n databases first is.      *)
First(n, op, i) ==
  CASE op = "preflight" -> IF n = 1 THEN 4 ELSE 4 + i
    [] op = "archive" -> IF n = 1 THEN 5 ELSE 6 + i
    [] op = "table" -> IF n = 1 THEN 6 ELSE 6 + 3 * i
    [] op = "rows" -> IF n = 1 THEN 7 ELSE 7 + 3 * i
    [] op = "module" -> IF n = 1 THEN 8 ELSE 8 + 3 * i
    [] op = "verify" -> IF n = 1 THEN 9 ELSE 15 + i

LEMMA FirstValues ==
  ASSUME NEW n, NEW i
  PROVE  /\ First(n, "preflight", i) = IF n = 1 THEN 4 ELSE 4 + i
         /\ First(n, "archive", i) = IF n = 1 THEN 5 ELSE 6 + i
         /\ First(n, "table", i) = IF n = 1 THEN 6 ELSE 6 + 3 * i
         /\ First(n, "rows", i) = IF n = 1 THEN 7 ELSE 7 + 3 * i
         /\ First(n, "module", i) = IF n = 1 THEN 8 ELSE 8 + 3 * i
         /\ First(n, "verify", i) = IF n = 1 THEN 9 ELSE 15 + i
<1>1. First(n, "preflight", i) = IF n = 1 THEN 4 ELSE 4 + i  BY DEF First
<1>2. First(n, "archive", i) = IF n = 1 THEN 5 ELSE 6 + i  BY DEF First
<1>3. First(n, "table", i) = IF n = 1 THEN 6 ELSE 6 + 3 * i  BY DEF First
<1>4. First(n, "rows", i) = IF n = 1 THEN 7 ELSE 7 + 3 * i  BY DEF First
<1>5. First(n, "module", i) = IF n = 1 THEN 8 ELSE 8 + 3 * i  BY DEF First
<1>6. First(n, "verify", i) = IF n = 1 THEN 9 ELSE 15 + i  BY DEF First
<1> QED BY <1>1, <1>2, <1>3, <1>4, <1>5, <1>6

LEMMA Firsts ==
  ASSUME NEW dbs \in Selections, NEW op \in WorkOps, NEW i \in 1..Len(dbs)
  PROVE  /\ First(Len(dbs), op, i) \in 1..Len(Plan(dbs))
         /\ Plan(dbs)[First(Len(dbs), op, i)] = St(op, dbs[i])
<1> DEFINE p == Plan(dbs)
           n == Len(dbs)
<1>1. n \in {1, 2}
  BY PlanAt
<1>2. CASE n = 1
  <2>1. i = 1
    BY <1>2
  <2>2. /\ Len(p) = 10
        /\ p[4] = St("preflight", dbs[1]) /\ p[5] = St("archive", dbs[1])
        /\ p[6] = St("table", dbs[1]) /\ p[7] = St("rows", dbs[1])
        /\ p[8] = St("module", dbs[1]) /\ p[9] = St("verify", dbs[1])
    BY <1>2, PlanAt
  <2> HIDE DEF p, n
  <2> QED BY <1>2, <2>1, <2>2, FirstValues DEF p, n, WorkOps
<1>3. CASE n = 2
  <2>1. i = 1 \/ i = 2
    BY <1>3
  <2>2. /\ Len(p) = 18
        /\ p[5] = St("preflight", dbs[1]) /\ p[6] = St("preflight", dbs[2])
        /\ p[7] = St("archive", dbs[1]) /\ p[8] = St("archive", dbs[2])
        /\ p[9] = St("table", dbs[1]) /\ p[10] = St("rows", dbs[1])
        /\ p[11] = St("module", dbs[1]) /\ p[12] = St("table", dbs[2])
        /\ p[13] = St("rows", dbs[2]) /\ p[14] = St("module", dbs[2])
        /\ p[16] = St("verify", dbs[1]) /\ p[17] = St("verify", dbs[2])
    BY <1>3, PlanAt
  <2> HIDE DEF p, n
  <2>3. \/ op = "preflight" \/ op = "archive" \/ op = "table" \/ op = "rows" \/ op = "module" \/ op = "verify"
    BY DEF WorkOps
  <2>20. /\ First(2, "preflight", 1) = 5 /\ First(2, "archive", 1) = 7
         /\ First(2, "table", 1) = 9 /\ First(2, "rows", 1) = 10
         /\ First(2, "module", 1) = 11 /\ First(2, "verify", 1) = 16
         /\ First(2, "preflight", 2) = 6 /\ First(2, "archive", 2) = 8
         /\ First(2, "table", 2) = 12 /\ First(2, "rows", 2) = 13
         /\ First(2, "module", 2) = 14 /\ First(2, "verify", 2) = 17
    BY FirstValues
  <2>4. CASE op = "preflight"  BY <1>3, <2>1, <2>2, <2>20, <2>4 DEF p, n
  <2>5. CASE op = "archive"  BY <1>3, <2>1, <2>2, <2>20, <2>5 DEF p, n
  <2>6. CASE op = "table"  BY <1>3, <2>1, <2>2, <2>20, <2>6 DEF p, n
  <2>7. CASE op = "rows"  BY <1>3, <2>1, <2>2, <2>20, <2>7 DEF p, n
  <2>8. CASE op = "module"  BY <1>3, <2>1, <2>2, <2>20, <2>8 DEF p, n
  <2>9. CASE op = "verify"  BY <1>3, <2>1, <2>2, <2>20, <2>9 DEF p, n
  <2> QED BY <2>3, <2>4, <2>5, <2>6, <2>7, <2>8, <2>9
<1> QED BY <1>1, <1>2, <1>3

LEMMA Places ==
  ASSUME NEW dbs \in Selections, NEW k \in 1..Len(Plan(dbs)), NEW op \in WorkOps,
         Plan(dbs)[k].op = op
  PROVE  \E i \in 1..Len(dbs) :
           /\ Plan(dbs)[k].on = dbs[i] /\ k >= First(Len(dbs), op, i)
           /\ op # "module" => k = First(Len(dbs), op, i)
           /\ op = "module" => k < First(Len(dbs), "verify", 1)
<1> DEFINE p == Plan(dbs)
           n == Len(dbs)
<1>1. n \in {1, 2} /\ p[1].op = "gates" /\ p[2].op = "metadata" /\ p[3].op = "lock"
  BY PlanAt
<1>2. CASE n = 1
  <2>1. /\ Len(p) = 10
        /\ p[4] = St("preflight", dbs[1]) /\ p[5] = St("archive", dbs[1])
        /\ p[6] = St("table", dbs[1]) /\ p[7] = St("rows", dbs[1])
        /\ p[8] = St("module", dbs[1]) /\ p[9] = St("verify", dbs[1])
        /\ p[10].op = "commit"
    BY <1>2, PlanAt
  <2>2. k # 1 /\ k # 2 /\ k # 3 /\ k # 10
    BY <1>1, <2>1 DEF WorkOps
  <2>3. k \in 4..9
    BY <2>1, <2>2
  <2>4. CASE k = 4  BY <2>1, <2>4, <1>2, FirstValues DEF St
  <2>5. CASE k = 5  BY <2>1, <2>5, <1>2, FirstValues DEF St
  <2>6. CASE k = 6  BY <2>1, <2>6, <1>2, FirstValues DEF St
  <2>7. CASE k = 7  BY <2>1, <2>7, <1>2, FirstValues DEF St
  <2>8. CASE k = 8  BY <2>1, <2>8, <1>2, FirstValues DEF St
  <2>9. CASE k = 9  BY <2>1, <2>9, <1>2, FirstValues DEF St
  <2> QED BY <2>3, <2>4, <2>5, <2>6, <2>7, <2>8, <2>9
<1>3. CASE n = 2
  <2>1. /\ Len(p) = 18 /\ p[4].op = "lock"
        /\ p[5] = St("preflight", dbs[1]) /\ p[6] = St("preflight", dbs[2])
        /\ p[7] = St("archive", dbs[1]) /\ p[8] = St("archive", dbs[2])
        /\ p[9] = St("table", dbs[1]) /\ p[10] = St("rows", dbs[1])
        /\ p[11] = St("module", dbs[1]) /\ p[12] = St("table", dbs[2])
        /\ p[13] = St("rows", dbs[2]) /\ p[14] = St("module", dbs[2])
        /\ p[15] = St("module", dbs[1])
        /\ p[16] = St("verify", dbs[1]) /\ p[17] = St("verify", dbs[2])
        /\ p[18].op = "commit"
    BY <1>3, PlanAt
  <2>2. k # 1 /\ k # 2 /\ k # 3 /\ k # 4 /\ k # 18
    BY <1>1, <2>1 DEF WorkOps
  <2>3. k \in 5..17
    BY <2>1, <2>2
  <2>20. /\ First(2, "preflight", 1) = 5 /\ First(2, "archive", 1) = 7
         /\ First(2, "table", 1) = 9 /\ First(2, "rows", 1) = 10
         /\ First(2, "module", 1) = 11 /\ First(2, "verify", 1) = 16
         /\ First(2, "preflight", 2) = 6 /\ First(2, "archive", 2) = 8
         /\ First(2, "table", 2) = 12 /\ First(2, "rows", 2) = 13
         /\ First(2, "module", 2) = 14 /\ First(2, "verify", 2) = 17
    BY FirstValues
  <2>5. CASE k = 5  BY <2>1, <2>5, <1>3, <2>20 DEF St
  <2>6. CASE k = 6  BY <2>1, <2>6, <1>3, <2>20 DEF St
  <2>7. CASE k = 7  BY <2>1, <2>7, <1>3, <2>20 DEF St
  <2>8. CASE k = 8  BY <2>1, <2>8, <1>3, <2>20 DEF St
  <2>9. CASE k = 9  BY <2>1, <2>9, <1>3, <2>20 DEF St
  <2>10. CASE k = 10  BY <2>1, <2>10, <1>3, <2>20 DEF St
  <2>11. CASE k = 11  BY <2>1, <2>11, <1>3, <2>20 DEF St
  <2>12. CASE k = 12  BY <2>1, <2>12, <1>3, <2>20 DEF St
  <2>13. CASE k = 13  BY <2>1, <2>13, <1>3, <2>20 DEF St
  <2>14. CASE k = 14  BY <2>1, <2>14, <1>3, <2>20 DEF St
  <2>15. CASE k = 15  BY <2>1, <2>15, <1>3, <2>20 DEF St
  <2>16. CASE k = 16  BY <2>1, <2>16, <1>3, <2>20 DEF St
  <2>17. CASE k = 17  BY <2>1, <2>17, <1>3, <2>20 DEF St
  <2>18. \/ k = 5 \/ k = 6 \/ k = 7 \/ k = 8 \/ k = 9 \/ k = 10 \/ k = 11 \/ k = 12 \/ k = 13
         \/ k = 14 \/ k = 15 \/ k = 16 \/ k = 17
    BY <2>3
  <2> QED BY <2>18, <2>5, <2>6, <2>7, <2>8, <2>9, <2>10, <2>11, <2>12, <2>13, <2>14, <2>15, <2>16, <2>17
<1> QED BY <1>1, <1>2, <1>3

(* The statement has run in the current execution of d.                    *)
Passed(d, op, x) == \E k \in 1..pc[d] - 1 : Plan(roles[d])[k] = St(op, x)

LEMMA PassedPlaces ==
  ASSUME TypeInv, NEW d \in Deployments, NEW x, NEW op \in WorkOps
  PROVE  Passed(d, op, x) <=>
           \E i \in 1..Len(roles[d]) : x = roles[d][i] /\ pc[d] > First(Len(roles[d]), op, i)
<1> DEFINE r == roles[d]
           n == Len(r)
           p == Plan(r)
<1>1. r \in Selections /\ pc[d] \in Nat /\ pc[d] <= Len(p) /\ Len(p) \in Nat /\ n \in {1, 2}
  BY PlanAt DEF TypeInv
<1>2. ASSUME Passed(d, op, x) PROVE \E i \in 1..n : x = r[i] /\ pc[d] > First(n, op, i)
  <2>1. PICK k \in 1..pc[d] - 1 : p[k] = St(op, x)
    BY <1>2 DEF Passed
  <2>2. k \in 1..Len(p) /\ p[k].op = op /\ p[k].on = x
    BY <1>1, <2>1 DEF St
  <2>3. PICK i \in 1..n : p[k].on = r[i] /\ k >= First(n, op, i)
    BY <1>1, <2>2, Places
  <2>4. First(n, op, i) \in Int
    BY <1>1, <2>2, Firsts
  <2> QED BY <1>1, <2>1, <2>2, <2>3, <2>4
<1>3. ASSUME NEW i \in 1..n, x = r[i], pc[d] > First(n, op, i) PROVE Passed(d, op, x)
  <2>1. First(n, op, i) \in 1..Len(p) /\ p[First(n, op, i)] = St(op, x)
    BY <1>1, <1>3, Firsts
  <2> QED BY <1>1, <1>3, <2>1 DEF Passed
<1> QED BY <1>2, <1>3

(* One database: statements 4 to 9 in this order.                          *)
LEMMA OneDatabase ==
  ASSUME TypeInv, NEW d \in Deployments, Len(roles[d]) = 1
  PROVE  /\ \A op \in WorkOps : \A x : Passed(d, op, x) <=> x = roles[d][1] /\ pc[d] > First(1, op, 1)
         /\ \A op \in WorkOps : At(d, op) => On(d) = roles[d][1] /\ pc[d] = First(1, op, 1)
         /\ At(d, "commit") => pc[d] = 10
         /\ Targets(d) = {roles[d][1]}
<1>1. roles[d] \in Selections /\ pc[d] \in Nat /\ pc[d] <= Len(Plan(roles[d])) /\ Len(Plan(roles[d])) = 10
  BY PlanAt DEF TypeInv
<1>2. ASSUME NEW op \in WorkOps, NEW x
      PROVE  Passed(d, op, x) <=> x = roles[d][1] /\ pc[d] > First(1, op, 1)
  <2>1. Passed(d, op, x) <=>
           \E i \in 1..1 : x = roles[d][i] /\ pc[d] > First(1, op, i)
    BY PassedPlaces
  <2>2. \A i : i \in 1..1 <=> i = 1
    OBVIOUS
  <2> QED BY <2>1, <2>2
<1>3. ASSUME NEW op \in WorkOps, At(d, op)
      PROVE  On(d) = roles[d][1] /\ pc[d] = First(1, op, 1)
  <2>1. pc[d] \in 1..Len(Plan(roles[d])) /\ Plan(roles[d])[pc[d]].op = op
    BY <1>1, <1>3 DEF At, Running
  <2>2. PICK i \in 1..Len(roles[d]) :
          /\ Plan(roles[d])[pc[d]].on = roles[d][i] /\ pc[d] >= First(1, op, i)
          /\ op # "module" => pc[d] = First(1, op, i)
          /\ op = "module" => pc[d] < First(1, "verify", 1)
    BY <1>1, <2>1, Places
  <2>3. i = 1  BY <2>2
  <2>4. First(1, "module", 1) = 8 /\ First(1, "verify", 1) = 9
    BY FirstValues
  <2> QED BY <1>1, <2>2, <2>3, <2>4 DEF On
<1>4. At(d, "commit") => pc[d] = 10
  <2>1. SUFFICES ASSUME At(d, "commit"), pc[d] # 10 PROVE FALSE  OBVIOUS
  <2>2. pc[d] \in 1..9
    BY <1>1, <2>1 DEF At, Running
  <2>3. Plan(roles[d])[pc[d]].op = "commit"
    BY <2>1 DEF At
  <2> DEFINE p == Plan(roles[d]) k == pc[d]
  <2>4. /\ p[1].op = "gates" /\ p[2].op = "metadata" /\ p[3].op = "lock"
        /\ p[4] = St("preflight", roles[d][1]) /\ p[5] = St("archive", roles[d][1])
        /\ p[6] = St("table", roles[d][1]) /\ p[7] = St("rows", roles[d][1])
        /\ p[8] = St("module", roles[d][1]) /\ p[9] = St("verify", roles[d][1])
    BY <1>1, PlanAt
  <2>5. k = 1 \/ k = 2 \/ k = 3 \/ k = 4 \/ k = 5 \/ k = 6 \/ k = 7 \/ k = 8 \/ k = 9
    BY <2>2
  <2> HIDE DEF p, k
  <2>6. p[k].op = "commit"  BY <2>3 DEF p, k
  <2> QED BY <2>4, <2>5, <2>6 DEF St
<1>5. Targets(d) = {roles[d][1]}
  BY DEF Targets
<1> QED BY <1>2, <1>3, <1>4, <1>5

(* Two databases: the statements of the second follow those of the first,  *)
(* and the module of the first comes once more before the verification.    *)
LEMMA TwoDatabases ==
  ASSUME TypeInv, NEW d \in Deployments, Len(roles[d]) = 2
  PROVE  /\ \A op \in WorkOps : \A x :
              Passed(d, op, x) <=> \/ x = roles[d][1] /\ pc[d] > First(2, op, 1)
                                   \/ x = roles[d][2] /\ pc[d] > First(2, op, 2)
         /\ \A op \in WorkOps : At(d, op) => 
              \/ On(d) = roles[d][1] /\ pc[d] = First(2, op, 1)
              \/ On(d) = roles[d][2] /\ pc[d] = First(2, op, 2)
              \/ op = "module" /\ On(d) \in Targets(d) /\ pc[d] > First(2, "rows", 1) /\ pc[d] < First(2, "verify", 1)
         /\ At(d, "commit") => pc[d] = 18
         /\ Targets(d) = {roles[d][1], roles[d][2]} /\ roles[d][1] # roles[d][2]
<1>1. roles[d] \in Selections /\ pc[d] \in Nat /\ pc[d] <= Len(Plan(roles[d])) /\ Len(Plan(roles[d])) = 18
  BY PlanAt DEF TypeInv
<1> DEFINE k == pc[d]
<1>6. k \in Nat /\ k <= 18
  BY <1>1
<1>7. ASSUME NEW op, At(d, op)
      PROVE k # 0 /\ k \in 1..18 /\ Plan(roles[d])[k].op = op
  <2>1. k # 0 /\ Plan(roles[d])[k].op = op
    BY <1>7 DEF At, Running
  <2> HIDE DEF k
  <2> QED BY <2>1, <1>6
<1>2. ASSUME NEW op \in WorkOps, NEW x
      PROVE  Passed(d, op, x) <=> \/ x = roles[d][1] /\ pc[d] > First(2, op, 1)
                                  \/ x = roles[d][2] /\ pc[d] > First(2, op, 2)
  <2>1. Passed(d, op, x) <=>
           \E i \in 1..2 : x = roles[d][i] /\ pc[d] > First(2, op, i)
    BY PassedPlaces
  <2>2. \A i : i \in 1..2 <=> i = 1 \/ i = 2
    OBVIOUS
  <2> QED BY <2>1, <2>2
<1>3. Targets(d) = {roles[d][1], roles[d][2]} /\ roles[d][1] # roles[d][2]
  BY <1>1 DEF Targets, DeploymentAssumption
<1>4. ASSUME NEW op \in WorkOps, At(d, op)
      PROVE  \/ On(d) = roles[d][1] /\ pc[d] = First(2, op, 1)
             \/ On(d) = roles[d][2] /\ pc[d] = First(2, op, 2)
             \/ op = "module" /\ On(d) \in Targets(d) /\ pc[d] > First(2, "rows", 1) /\ pc[d] < First(2, "verify", 1)
  <2>1. pc[d] \in 1..Len(Plan(roles[d])) /\ Plan(roles[d])[pc[d]].op = op
    BY <1>1, <1>4, <1>7
  <2>2. PICK i \in 1..Len(roles[d]) :
          /\ Plan(roles[d])[pc[d]].on = roles[d][i] /\ pc[d] >= First(2, op, i)
          /\ op # "module" => pc[d] = First(2, op, i)
          /\ op = "module" => pc[d] < First(2, "verify", 1)
    BY <1>1, <2>1, Places
  <2>3. i = 1 \/ i = 2  BY <2>2
  <2>4. First(2, "module", 1) = 11 /\ First(2, "module", 2) = 14 /\ First(2, "rows", 1) = 10
    BY FirstValues
  <2>5. CASE op # "module"
    BY <2>2, <2>3, <2>5 DEF On
  <2>6. CASE op = "module"
    <3>1. On(d) \in Targets(d)
      BY <1>3, <2>2, <2>3 DEF On
    <3> QED BY <1>1, <2>2, <2>3, <2>4, <2>6, <3>1
  <2> QED BY <2>5, <2>6
<1>5. At(d, "commit") => pc[d] = 18
  <2>1. SUFFICES ASSUME At(d, "commit"), pc[d] # 18 PROVE FALSE  OBVIOUS
  <2>2. k \in 1..17
    <3>1. k \in 1..18 /\ k # 18
      BY <1>7, <2>1
    <3> HIDE DEF k
    <3> QED BY <3>1
  <2>3. Plan(roles[d])[pc[d]].op = "commit"
    BY <2>1 DEF At
  <2> DEFINE p == Plan(roles[d]) x == roles[d][1] y == roles[d][2]
  <2>4. /\ p[1].op = "gates" /\ p[2].op = "metadata" /\ p[3].op = "lock" /\ p[4].op = "lock"
        /\ p[5] = St("preflight", x) /\ p[6] = St("preflight", y)
        /\ p[7] = St("archive", x) /\ p[8] = St("archive", y)
        /\ p[9] = St("table", x) /\ p[10] = St("rows", x)
        /\ p[11] = St("module", x) /\ p[12] = St("table", y)
        /\ p[13] = St("rows", y) /\ p[14] = St("module", y)
        /\ p[15] = St("module", x)
        /\ p[16] = St("verify", x) /\ p[17] = St("verify", y)
    BY <1>1, PlanAt
  <2> HIDE DEF x, y, p, k
  <2>5. /\ p[5].op = "preflight" /\ p[6].op = "preflight" /\ p[7].op = "archive" /\ p[8].op = "archive"
        /\ p[9].op = "table" /\ p[10].op = "rows" /\ p[11].op = "module" /\ p[12].op = "table"
        /\ p[13].op = "rows" /\ p[14].op = "module" /\ p[15].op = "module"
        /\ p[16].op = "verify" /\ p[17].op = "verify"
    BY <2>4 DEF St
  <2>6. \/ k = 1 \/ k = 2 \/ k = 3 \/ k = 4 \/ k = 5 \/ k = 6 \/ k = 7 \/ k = 8 \/ k = 9
        \/ k = 10 \/ k = 11 \/ k = 12 \/ k = 13 \/ k = 14 \/ k = 15 \/ k = 16 \/ k = 17
    BY <2>2
  <2>7. p[k].op = "commit"  BY <2>3 DEF p, k
  <2> QED BY <2>4, <2>5, <2>6, <2>7
<1> QED BY <1>2, <1>3, <1>4, <1>5

(* The order the installer's statements have: every database is checked    *)
(* before any is written, archived before the sources touch it, and        *)
(* verified after all of them.                                             *)
LEMMA Order ==
  ASSUME TypeInv, NEW d \in Deployments
  PROVE  /\ At(d, "preflight") => \A x : ~Passed(d, "archive", x)
         /\ At(d, "archive") => /\ ~Passed(d, "archive", On(d))
                                /\ \A x : ~Passed(d, "table", x) /\ ~Passed(d, "rows", x)
                                          /\ ~Passed(d, "verify", x)
         /\ At(d, "archive") \/ At(d, "table") \/ At(d, "rows") \/ At(d, "module") =>
              \A x : ~Passed(d, "verify", x)
         /\ At(d, "verify") => \A x \in Targets(d) : Passed(d, "module", x)
         /\ At(d, "commit") => \A x \in Targets(d) : Passed(d, "archive", x) /\ Passed(d, "verify", x)
         /\ \A op \in WorkOps : At(d, op) => On(d) \in Targets(d) /\ pc[d] > 3
<1>1. Len(roles[d]) \in {1, 2}
  BY PlanAt DEF TypeInv
<1>2. "preflight" \in WorkOps /\ "archive" \in WorkOps /\ "table" \in WorkOps /\ "rows" \in WorkOps
      /\ "module" \in WorkOps /\ "verify" \in WorkOps
  BY DEF WorkOps
<1>3. pc[d] \in Nat
  BY DEF TypeInv
<1> DEFINE r == roles[d] k == pc[d]
<1>4. CASE Len(r) = 1
  <2>1. /\ First(1, "preflight", 1) = 4 /\ First(1, "archive", 1) = 5 /\ First(1, "table", 1) = 6
        /\ First(1, "rows", 1) = 7 /\ First(1, "module", 1) = 8 /\ First(1, "verify", 1) = 9
    BY FirstValues
  <2>2. /\ \A op \in WorkOps : \A x : Passed(d, op, x) <=> x = r[1] /\ k > First(1, op, 1)
        /\ \A op \in WorkOps : At(d, op) => On(d) = r[1] /\ k = First(1, op, 1)
        /\ At(d, "commit") => k = 10
        /\ Targets(d) = {r[1]}
    BY <1>4, OneDatabase
  <2> HIDE DEF r, k
  <2>3. /\ \A x : Passed(d, "preflight", x) <=> x = r[1] /\ k > 4
        /\ \A x : Passed(d, "archive", x) <=> x = r[1] /\ k > 5
        /\ \A x : Passed(d, "table", x) <=> x = r[1] /\ k > 6
        /\ \A x : Passed(d, "rows", x) <=> x = r[1] /\ k > 7
        /\ \A x : Passed(d, "module", x) <=> x = r[1] /\ k > 8
        /\ \A x : Passed(d, "verify", x) <=> x = r[1] /\ k > 9
    BY <1>2, <2>1, <2>2
  <2>4. /\ At(d, "preflight") => On(d) = r[1] /\ k = 4
        /\ At(d, "archive") => On(d) = r[1] /\ k = 5
        /\ At(d, "table") => On(d) = r[1] /\ k = 6
        /\ At(d, "rows") => On(d) = r[1] /\ k = 7
        /\ At(d, "module") => On(d) = r[1] /\ k = 8
        /\ At(d, "verify") => On(d) = r[1] /\ k = 9
    BY <1>2, <2>1, <2>2
  <2>5. \A op \in WorkOps : At(d, op) => On(d) \in Targets(d) /\ k > 3
    BY <2>2, <2>4 DEF WorkOps
  <2> HIDE <1>2
  <2> QED BY <2>2, <2>3, <2>4, <2>5 DEF k
<1>5. CASE Len(r) = 2
  <2>1. /\ First(2, "preflight", 1) = 5 /\ First(2, "archive", 1) = 7 /\ First(2, "table", 1) = 9
        /\ First(2, "rows", 1) = 10 /\ First(2, "module", 1) = 11 /\ First(2, "verify", 1) = 16
        /\ First(2, "preflight", 2) = 6 /\ First(2, "archive", 2) = 8 /\ First(2, "table", 2) = 12
        /\ First(2, "rows", 2) = 13 /\ First(2, "module", 2) = 14 /\ First(2, "verify", 2) = 17
    BY FirstValues
  <2>2. /\ \A op \in WorkOps : \A x :
             Passed(d, op, x) <=> \/ x = r[1] /\ k > First(2, op, 1)
                                  \/ x = r[2] /\ k > First(2, op, 2)
        /\ \A op \in WorkOps : At(d, op) =>
             \/ On(d) = r[1] /\ k = First(2, op, 1)
             \/ On(d) = r[2] /\ k = First(2, op, 2)
             \/ op = "module" /\ On(d) \in Targets(d) /\ k > First(2, "rows", 1) /\ k < First(2, "verify", 1)
        /\ At(d, "commit") => k = 18
        /\ Targets(d) = {r[1], r[2]} /\ r[1] # r[2]
    BY <1>5, TwoDatabases
  <2> HIDE DEF r, k
  <2>3. /\ \A x : Passed(d, "preflight", x) <=> (x = r[1] /\ k > 5) \/ (x = r[2] /\ k > 6)
        /\ \A x : Passed(d, "archive", x) <=> (x = r[1] /\ k > 7) \/ (x = r[2] /\ k > 8)
        /\ \A x : Passed(d, "table", x) <=> (x = r[1] /\ k > 9) \/ (x = r[2] /\ k > 12)
        /\ \A x : Passed(d, "rows", x) <=> (x = r[1] /\ k > 10) \/ (x = r[2] /\ k > 13)
        /\ \A x : Passed(d, "module", x) <=> (x = r[1] /\ k > 11) \/ (x = r[2] /\ k > 14)
        /\ \A x : Passed(d, "verify", x) <=> (x = r[1] /\ k > 16) \/ (x = r[2] /\ k > 17)
    BY <1>2, <2>1, <2>2
  <2>4. /\ At(d, "preflight") => (On(d) = r[1] /\ k = 5) \/ (On(d) = r[2] /\ k = 6)
        /\ At(d, "archive") => (On(d) = r[1] /\ k = 7) \/ (On(d) = r[2] /\ k = 8)
        /\ At(d, "table") => (On(d) = r[1] /\ k = 9) \/ (On(d) = r[2] /\ k = 12)
        /\ At(d, "rows") => (On(d) = r[1] /\ k = 10) \/ (On(d) = r[2] /\ k = 13)
        /\ At(d, "module") => On(d) \in {r[1], r[2]} /\ k \in 11..15
        /\ At(d, "verify") => (On(d) = r[1] /\ k = 16) \/ (On(d) = r[2] /\ k = 17)
    <3>1. k \in Nat  BY <1>3 DEF k
    <3> QED BY <1>2, <2>1, <2>2, <3>1
  <2>5. \A op \in WorkOps : At(d, op) => On(d) \in Targets(d) /\ k > 3
    BY <2>2, <2>4 DEF WorkOps
  <2>6. At(d, "preflight") => \A x : ~Passed(d, "archive", x)
    BY <2>3, <2>4
  <2>7. At(d, "archive") => /\ ~Passed(d, "archive", On(d))
                            /\ \A x : ~Passed(d, "table", x) /\ ~Passed(d, "rows", x)
                                      /\ ~Passed(d, "verify", x)
    BY <2>2, <2>3, <2>4
  <2>8. At(d, "archive") \/ At(d, "table") \/ At(d, "rows") \/ At(d, "module") =>
              \A x : ~Passed(d, "verify", x)
    <3>1. At(d, "archive") \/ At(d, "table") \/ At(d, "rows") \/ At(d, "module") => k \in Nat /\ k <= 15
      BY <2>4, <1>3 DEF k
    <3> QED BY <2>3, <3>1
  <2>9. At(d, "verify") => \A x \in Targets(d) : Passed(d, "module", x)
    BY <2>2, <2>3, <2>4
  <2>10. At(d, "commit") => \A x \in Targets(d) : Passed(d, "archive", x) /\ Passed(d, "verify", x)
    BY <2>2, <2>3
  <2> QED BY <2>5, <2>6, <2>7, <2>8, <2>9, <2>10 DEF k
<1> QED BY <1>1, <1>4, <1>5

(* What has passed is of a target, after the tempdb lock, in this order.   *)
LEMMA PassedOrder ==
  ASSUME TypeInv, NEW d \in Deployments, NEW x
  PROVE  /\ \A op \in WorkOps : Passed(d, op, x) => x \in Targets(d) /\ pc[d] > 4
         /\ Passed(d, "archive", x) => Passed(d, "preflight", x)
         /\ Passed(d, "table", x) \/ Passed(d, "rows", x) \/ Passed(d, "module", x) \/ Passed(d, "verify", x) =>
              Passed(d, "archive", x)
         /\ Passed(d, "verify", x) => Passed(d, "module", x)
<1>1. Len(roles[d]) \in {1, 2}
  BY PlanAt DEF TypeInv
<1>2. "preflight" \in WorkOps /\ "archive" \in WorkOps /\ "table" \in WorkOps /\ "rows" \in WorkOps
      /\ "module" \in WorkOps /\ "verify" \in WorkOps
  BY DEF WorkOps
<1>3. pc[d] \in Nat
  BY DEF TypeInv
<1> DEFINE r == roles[d] k == pc[d]
<1>4. CASE Len(r) = 1
  <2>1. /\ First(1, "preflight", 1) = 4 /\ First(1, "archive", 1) = 5 /\ First(1, "table", 1) = 6
        /\ First(1, "rows", 1) = 7 /\ First(1, "module", 1) = 8 /\ First(1, "verify", 1) = 9
    BY FirstValues
  <2>2. /\ \A op \in WorkOps : Passed(d, op, x) <=> x = r[1] /\ k > First(1, op, 1)
        /\ Targets(d) = {r[1]}
    BY <1>4, OneDatabase
  <2> HIDE DEF r, k
  <2>3. k \in Nat  BY <1>3 DEF k
  <2>4. \A op \in WorkOps : Passed(d, op, x) => x \in Targets(d) /\ k > 4
    BY <2>1, <2>2, <2>3 DEF WorkOps
  <2> QED BY <1>2, <2>1, <2>2, <2>3, <2>4 DEF k
<1>5. CASE Len(r) = 2
  <2>1. /\ First(2, "preflight", 1) = 5 /\ First(2, "archive", 1) = 7 /\ First(2, "table", 1) = 9
        /\ First(2, "rows", 1) = 10 /\ First(2, "module", 1) = 11 /\ First(2, "verify", 1) = 16
        /\ First(2, "preflight", 2) = 6 /\ First(2, "archive", 2) = 8 /\ First(2, "table", 2) = 12
        /\ First(2, "rows", 2) = 13 /\ First(2, "module", 2) = 14 /\ First(2, "verify", 2) = 17
    BY FirstValues
  <2>2. /\ \A op \in WorkOps : 
             Passed(d, op, x) <=> \/ x = r[1] /\ k > First(2, op, 1)
                                  \/ x = r[2] /\ k > First(2, op, 2)
        /\ Targets(d) = {r[1], r[2]} /\ r[1] # r[2]
    BY <1>5, TwoDatabases
  <2> HIDE DEF r, k
  <2>3. k \in Nat  BY <1>3 DEF k
  <2>4. \A op \in WorkOps : Passed(d, op, x) => x \in Targets(d) /\ k > 4
    BY <2>1, <2>2, <2>3 DEF WorkOps
  <2>5. /\ Passed(d, "preflight", x) <=> (x = r[1] /\ k > 5) \/ (x = r[2] /\ k > 6)
        /\ Passed(d, "archive", x) <=> (x = r[1] /\ k > 7) \/ (x = r[2] /\ k > 8)
        /\ Passed(d, "table", x) <=> (x = r[1] /\ k > 9) \/ (x = r[2] /\ k > 12)
        /\ Passed(d, "rows", x) <=> (x = r[1] /\ k > 10) \/ (x = r[2] /\ k > 13)
        /\ Passed(d, "module", x) <=> (x = r[1] /\ k > 11) \/ (x = r[2] /\ k > 14)
        /\ Passed(d, "verify", x) <=> (x = r[1] /\ k > 16) \/ (x = r[2] /\ k > 17)
    BY <1>2, <2>1, <2>2
  <2> QED BY <2>3, <2>4, <2>5 DEF k
<1> QED BY <1>1, <1>4, <1>5

(* A statement that completes adds itself to what has passed.              *)
LEMMA PassedNext ==
  ASSUME TypeInv, NEW d \in Deployments, Running(d), Advance(d), NEW e \in Deployments, NEW op, NEW x
  PROVE  Passed(e, op, x)' <=> Passed(e, op, x) \/ (e = d /\ At(d, op) /\ On(d) = x)
<1>1. roles' = roles /\ pc' = [pc EXCEPT ![d] = @ + 1] /\ pc[e] \in Nat
  BY DEF Advance, TypeInv
<1>2. CASE e # d
  BY <1>1, <1>2 DEF Passed, TypeInv
<1>3. CASE e = d
  <2> DEFINE p == Plan(roles[d])
  <2>1. pc'[d] = pc[d] + 1 /\ pc[d] \in Nat \ {0}
    BY <1>1, <1>3 DEF TypeInv, Running
  <2>2. p[pc[d]] \in Steps
    BY PlanAt, <2>1 DEF TypeInv
  <2>3. p[pc[d]] = St(op, x) <=> At(d, op) /\ On(d) = x
    BY <2>2, <2>1 DEF Steps, St, At, On, Running
  <2>4. Passed(d, op, x)' <=> \E k \in 1..pc[d] : p[k] = St(op, x)
    BY <1>1, <2>1 DEF Passed
  <2>5. Passed(d, op, x) <=> \E k \in 1..pc[d] - 1 : p[k] = St(op, x)
    BY DEF Passed
  <2> HIDE DEF p
  <2>6. \A k : k \in 1..pc[d] <=> k \in 1..pc[d] - 1 \/ k = pc[d]
    BY <2>1
  <2> QED BY <1>3, <2>3, <2>4, <2>5, <2>6
<1> QED BY <1>2, <1>3

----------------------------------------------------------------------------
(* Contents without the changes of open transactions, for any contents c   *)
(* and undo records u.                                                     *)
Fields == {"table", "row", "module", "receipts", "archive"}
Undone(c, u, d) == [x \in Databases |-> [f \in DOMAIN c[x] |->
  IF \E v \in u[d] : v.on = x /\ v.field = f
    THEN (CHOOSE v \in u[d] : v.on = x /\ v.field = f).value ELSE c[x][f]]]
Restored(c, u) == [x \in Databases |-> [f \in DOMAIN c[x] |->
  LET writers == {d \in Deployments : \E v \in u[d] : v.on = x /\ v.field = f}
  IN IF writers = {} THEN c[x][f] ELSE Undone(c, u, CHOOSE d \in writers : TRUE)[x][f]]]

LEMMA CommittedIs ==
  /\ Committed = Restored(content, undo)
  /\ Committed' = Restored(content', undo')
  /\ \A d : Before(d) = Undone(content, undo, d)
<1>1. Committed = Restored(content, undo)
  BY DEF Committed, Restored, Before, Undone
<1>2. Committed' = Restored(content', undo')
  BY DEF Committed, Restored, Before, Undone
<1>3. \A d : Before(d) = Undone(content, undo, d)
  BY DEF Before, Undone
<1> QED BY <1>1, <1>2, <1>3

(* Values are records with the five fields, in every database.             *)
Shaped(c) == c = [f \in Fields |-> c[f]]
Indexed(u) == u = [e \in Deployments |-> u[e]]
Formed(c) == c = [x \in Databases |-> [f \in Fields |-> c[x][f]]]
(* Only d has changes, and one record for each.                            *)
Sole(u, d) == /\ \A e \in Deployments \ {d} : u[e] = {}
              /\ \A v, w \in u[d] : v.on = w.on /\ v.field = w.field => v.value = w.value
KeptIn(u, d, x, f) == \E v \in u[d] : v.on = x /\ v.field = f

LEMMA FormedDomain ==
  ASSUME NEW c, Formed(c)
  PROVE  DOMAIN c = Databases /\ \A x \in Databases : DOMAIN c[x] = Fields
BY DEF Formed

LEMMA FormedEqual ==
  ASSUME NEW c, NEW b, Formed(c), Formed(b), \A x \in Databases, f \in Fields : c[x][f] = b[x][f]
  PROVE  c = b
BY DEF Formed

LEMMA UndoneShape ==
  ASSUME NEW c, Formed(c), NEW u, NEW d
  PROVE  Formed(Undone(c, u, d))
BY FormedDomain DEF Formed, Undone

LEMMA RestoredShape ==
  ASSUME NEW c, Formed(c), NEW u
  PROVE  Formed(Restored(c, u))
<1> DEFINE W(x, f) == {d \in Deployments : \E v \in u[d] : v.on = x /\ v.field = f}
           V(x, f) == IF W(x, f) = {} THEN c[x][f] ELSE Undone(c, u, CHOOSE d \in W(x, f) : TRUE)[x][f]
<1>1. Restored(c, u) = [x \in Databases |-> [f \in DOMAIN c[x] |-> V(x, f)]]
  BY DEF Restored
<1> HIDE DEF V
<1>2. Restored(c, u) = [x \in Databases |-> [f \in Fields |-> V(x, f)]]
  BY <1>1, FormedDomain
<1> QED BY <1>2 DEF Formed

LEMMA UndoneKept ==
  ASSUME NEW c, Formed(c), NEW u, NEW d \in Deployments, Sole(u, d), NEW v \in u[d],
         v.on \in Databases, v.field \in Fields
  PROVE  Undone(c, u, d)[v.on][v.field] = v.value
<1>1. v.field \in DOMAIN c[v.on]
  BY FormedDomain
<1> DEFINE w == CHOOSE w \in u[d] : w.on = v.on /\ w.field = v.field
<1>2. w \in u[d] /\ w.on = v.on /\ w.field = v.field
  OBVIOUS
<1>3. Undone(c, u, d)[v.on][v.field] = w.value
  BY <1>1 DEF Undone
<1> QED BY <1>2, <1>3 DEF Sole

LEMMA UndonePlain ==
  ASSUME NEW c, Formed(c), NEW u, NEW d, NEW x \in Databases, NEW f \in Fields, ~KeptIn(u, d, x, f)
  PROVE  Undone(c, u, d)[x][f] = c[x][f]
<1>1. f \in DOMAIN c[x]
  BY FormedDomain
<1> QED BY <1>1 DEF Undone, KeptIn

LEMMA RestoredKept ==
  ASSUME NEW c, Formed(c), NEW u, NEW d \in Deployments, Sole(u, d), NEW v \in u[d],
         v.on \in Databases, v.field \in Fields
  PROVE  Restored(c, u)[v.on][v.field] = v.value
<1>1. v.field \in DOMAIN c[v.on]
  BY FormedDomain
<1> DEFINE W == {e \in Deployments : \E w \in u[e] : w.on = v.on /\ w.field = v.field}
<1>2. W = {d}
  BY DEF Sole
<1>3. Restored(c, u)[v.on][v.field] =
        IF W = {} THEN c[v.on][v.field] ELSE Undone(c, u, CHOOSE e \in W : TRUE)[v.on][v.field]
  BY <1>1 DEF Restored
<1> HIDE DEF W
<1>4. W # {} /\ (CHOOSE e \in W : TRUE) = d
  BY <1>2
<1>5. Restored(c, u)[v.on][v.field] = Undone(c, u, CHOOSE e \in W : TRUE)[v.on][v.field]
  BY <1>3, <1>4
<1>6. Restored(c, u)[v.on][v.field] = Undone(c, u, d)[v.on][v.field]
  BY <1>4, <1>5
<1> QED BY <1>6, UndoneKept

LEMMA RestoredPlain ==
  ASSUME NEW c, Formed(c), NEW u, NEW x \in Databases, NEW f \in Fields,
         \A d \in Deployments : ~KeptIn(u, d, x, f)
  PROVE  Restored(c, u)[x][f] = c[x][f]
<1>1. f \in DOMAIN c[x]
  BY FormedDomain
<1> DEFINE W == {e \in Deployments : \E w \in u[e] : w.on = x /\ w.field = f}
<1>2. W = {}
  BY DEF KeptIn
<1>3. Restored(c, u)[x][f] =
        IF W = {} THEN c[x][f] ELSE Undone(c, u, CHOOSE e \in W : TRUE)[x][f]
  BY <1>1 DEF Restored
<1> QED BY <1>2, <1>3

(* Without changes of anybody else the committed contents are what a       *)
(* rollback restores.                                                      *)
LEMMA RestoredIsUndone ==
  ASSUME NEW c, Formed(c), NEW u, NEW d \in Deployments, Sole(u, d),
         \A v \in u[d] : v.on \in Databases /\ v.field \in Fields
  PROVE  Restored(c, u) = Undone(c, u, d)
<1>1. ASSUME NEW x \in Databases, NEW f \in Fields
      PROVE  Restored(c, u)[x][f] = Undone(c, u, d)[x][f]
  <2>1. CASE KeptIn(u, d, x, f)
    <3>1. PICK v \in u[d] : v.on = x /\ v.field = f
      BY <2>1 DEF KeptIn
    <3>2. Restored(c, u)[v.on][v.field] = v.value
      BY <3>1, RestoredKept
    <3>3. Undone(c, u, d)[v.on][v.field] = v.value
      BY <3>1, UndoneKept
    <3> QED BY <3>1, <3>2, <3>3
  <2>2. CASE ~KeptIn(u, d, x, f)
    <3>1. \A e \in Deployments : ~KeptIn(u, e, x, f)
      BY <2>2 DEF Sole, KeptIn
    <3> QED BY <2>2, <3>1, RestoredPlain, UndonePlain
  <2> QED BY <2>1, <2>2
<1> QED BY <1>1, RestoredShape, UndoneShape, FormedEqual

LEMMA RestoredEmpty ==
  ASSUME NEW c, Formed(c), NEW u, \A d \in Deployments : u[d] = {}
  PROVE  Restored(c, u) = c
<1>1. ASSUME NEW x \in Databases, NEW f \in Fields
      PROVE  Restored(c, u)[x][f] = c[x][f]
  BY RestoredPlain DEF KeptIn
<1> QED BY <1>1, RestoredShape, FormedEqual

(* A write inside a transaction is invisible to the others.                *)
Changed(c, x, new) == [c EXCEPT ![x] = new]
Extended(c, u, d, x, new) == [u EXCEPT ![d] = @ \cup
  {[on |-> x, field |-> f, value |-> c[x][f]] :
     f \in {g \in DOMAIN new : /\ new[g] # c[x][g]
                               /\ ~\E v \in u[d] : v.on = x /\ v.field = g}}]

LEMMA ChangedFormed ==
  ASSUME NEW c, Formed(c), NEW x \in Databases, NEW new, Shaped(new)
  PROVE  /\ Formed(Changed(c, x, new))
         /\ Changed(c, x, new)[x] = new
         /\ \A y \in Databases \ {x} : Changed(c, x, new)[y] = c[y]
<1> DEFINE d2 == Changed(c, x, new)
<1>4. new = [f \in Fields |-> new[f]]
  BY DEF Shaped
<1>1. d2[x] = new /\ \A y \in Databases \ {x} : d2[y] = c[y]
  BY DEF Formed, Changed
<1>2. d2 = [y \in Databases |-> IF y = x THEN new ELSE c[y]]
  BY DEF Formed, Changed
<1>3. \A y \in Databases : d2[y] = [f \in Fields |-> d2[y][f]]
  BY <1>1, <1>4 DEF Formed
<1> QED BY <1>1, <1>2, <1>3 DEF Formed

LEMMA WriteHidden ==
  ASSUME NEW c, Formed(c), NEW u, NEW d \in Deployments, Sole(u, d), Indexed(u),
         \A v \in u[d] : v.on \in Databases /\ v.field \in Fields,
         NEW x \in Databases, NEW new, Shaped(new)
  PROVE  LET d2 == Changed(c, x, new)
             u2 == Extended(c, u, d, x, new)
         IN
         /\ Formed(d2) /\ Sole(u2, d) /\ Restored(d2, u2) = Restored(c, u)
         /\ Indexed(u2) /\ \A e \in Deployments \ {d} : u2[e] = u[e]
         /\ \A v \in u2[d] : \/ v \in u[d]
                             \/ v.on = x /\ v.field \in Fields /\ new[v.field] # c[x][v.field]
<1> DEFINE F == {g \in DOMAIN new : /\ new[g] # c[x][g]
                                   /\ ~\E v \in u[d] : v.on = x /\ v.field = g}
           R(f) == [on |-> x, field |-> f, value |-> c[x][f]]
           d2 == Changed(c, x, new)
           u2 == Extended(c, u, d, x, new)
<1>1. Formed(d2) /\ d2[x] = new /\ \A y \in Databases \ {x} : d2[y] = c[y]
  BY ChangedFormed
<1>2. \A e \in Deployments \ {d} : u2[e] = u[e]
  BY DEF Extended, Indexed
<1>3. u2[d] = u[d] \cup {R(f) : f \in F}
  BY DEF Extended, Indexed
<1>12. Indexed(u2)
  BY DEF Extended, Indexed
<1> HIDE DEF d2, u2
<1>4. \A f : R(f).on = x /\ R(f).field = f /\ R(f).value = c[x][f]
  OBVIOUS
<1>5. DOMAIN new = Fields
  BY DEF Shaped
<1>6. \A f \in F : f \in Fields /\ new[f] # c[x][f] /\ ~KeptIn(u, d, x, f)
  BY <1>5 DEF KeptIn
<1>7. \A v \in u2[d] : \/ v \in u[d]
                       \/ v.on = x /\ v.field \in F /\ v.value = c[x][v.field]
  <2> HIDE DEF R, F
  <2> SUFFICES ASSUME NEW v \in u2[d], v \notin u[d]
               PROVE  v.on = x /\ v.field \in F /\ v.value = c[x][v.field]
    OBVIOUS
  <2>1. PICK f \in F : v = R(f)
    BY <1>3
  <2> QED BY <1>4, <2>1
<1>8. Sole(u2, d)
  <2>1. ASSUME NEW v \in u2[d], NEW w \in u2[d], v.on = w.on, v.field = w.field PROVE v.value = w.value
    <3>1. CASE v \in u[d] /\ w \in u[d]  BY <2>1, <3>1 DEF Sole
    <3>2. CASE v \notin u[d] /\ w \notin u[d]
      <4> HIDE DEF F
      <4> QED BY <1>7, <2>1, <3>2
    <3>3. CASE v \in u[d] /\ w \notin u[d]
      <4>1. w.on = x /\ w.field \in F  BY <1>7, <3>3
      <4>2. ~KeptIn(u, d, x, w.field)  BY <1>6, <4>1
      <4> QED BY <2>1, <3>3, <4>1, <4>2 DEF KeptIn
    <3>4. CASE v \notin u[d] /\ w \in u[d]
      <4>1. v.on = x /\ v.field \in F  BY <1>7, <3>4
      <4>2. ~KeptIn(u, d, x, v.field)  BY <1>6, <4>1
      <4> QED BY <2>1, <3>4, <4>1, <4>2 DEF KeptIn
    <3> QED BY <3>1, <3>2, <3>3, <3>4
  <2> QED BY <1>2, <2>1 DEF Sole
<1>9. \A v \in u2[d] : \/ v \in u[d]
                       \/ v.on = x /\ v.field \in Fields /\ new[v.field] # c[x][v.field]
  <2> HIDE DEF F
  <2> QED BY <1>6, <1>7
<1> HIDE DEF F, R
<1>10. ASSUME NEW y \in Databases, NEW f \in Fields
       PROVE  Restored(d2, u2)[y][f] = Restored(c, u)[y][f]
  <2>1. CASE KeptIn(u, d, y, f)
    <3>1. PICK v \in u[d] : v.on = y /\ v.field = f
      BY <2>1 DEF KeptIn
    <3>2. v \in u2[d]  BY <1>3
    <3>3. Restored(c, u)[v.on][v.field] = v.value
      BY <3>1, RestoredKept
    <3>4. Restored(d2, u2)[v.on][v.field] = v.value
      BY <1>1, <1>8, <3>1, <3>2, RestoredKept
    <3> QED BY <3>1, <3>3, <3>4
  <2>2. CASE ~KeptIn(u, d, y, f) /\ y = x /\ new[f] # c[x][f]
    <3>1. f \in F
      BY <1>5, <2>2 DEF F, KeptIn
    <3>2. R(f) \in u2[d] /\ R(f).on = x /\ R(f).field = f /\ R(f).value = c[x][f]
      BY <1>3, <1>4, <3>1
    <3>3. \A e \in Deployments : ~KeptIn(u, e, x, f)
      BY <2>2 DEF Sole, KeptIn
    <3>4. Restored(c, u)[x][f] = c[x][f]
      BY <3>3, RestoredPlain
    <3>5. Restored(d2, u2)[R(f).on][R(f).field] = R(f).value
      BY <1>1, <1>8, <3>2, RestoredKept
    <3> QED BY <2>2, <3>2, <3>4, <3>5
  <2>3. CASE ~KeptIn(u, d, y, f) /\ ~(y = x /\ new[f] # c[x][f])
    <3>1. \A e \in Deployments : ~KeptIn(u, e, y, f)
      BY <2>3 DEF Sole, KeptIn
    <3>2. ~KeptIn(u2, d, y, f)
      BY <1>9, <2>3 DEF KeptIn
    <3>3. \A e \in Deployments : ~KeptIn(u2, e, y, f)
      BY <1>8, <3>2 DEF Sole, KeptIn
    <3>4. Restored(c, u)[y][f] = c[y][f]
      BY <3>1, RestoredPlain
    <3>5. Restored(d2, u2)[y][f] = d2[y][f]
      BY <1>1, <3>3, RestoredPlain
    <3>6. d2[y][f] = c[y][f]
      BY <1>1, <2>3
    <3> QED BY <3>4, <3>5, <3>6
  <2> QED BY <2>1, <2>2, <2>3
<1>11. Restored(d2, u2) = Restored(c, u)
  BY <1>1, <1>10, RestoredShape, FormedEqual
<1> QED BY <1>1, <1>2, <1>8, <1>9, <1>11, <1>12 DEF d2, u2

(* A field that no open transaction has changed is committed as it is: a   *)
(* change of it by anybody else is seen at once, and nothing else changes. *)
Overwritten(c, x, f, t) == Changed(c, x, [c[x] EXCEPT ![f] = t])
OutsideSafe(c, u, x, f) ==
  /\ Formed(c)
  /\ \A d \in Deployments : ~KeptIn(u, d, x, f)
  /\ \A d \in Deployments : \A v \in u[d] : v.on \in Databases /\ v.field \in Fields
  /\ (\E d \in Deployments : Sole(u, d)) \/ (\A d \in Deployments : u[d] = {})
LEMMA OutsideElse ==
  ASSUME NEW c, NEW u, NEW x \in Databases, NEW f \in Fields, NEW t, OutsideSafe(c, u, x, f)
  PROVE  /\ Formed(Overwritten(c, x, f, t))
         /\ \A y \in Databases, g \in Fields :
              ~(y = x /\ g = f) => Restored(Overwritten(c, x, f, t), u)[y][g] = Restored(c, u)[y][g]
<1> USE DEF OutsideSafe
<1> DEFINE new == [c[x] EXCEPT ![f] = t]
           d2 == Changed(c, x, new)
<1>0. new = [g \in Fields |-> IF g = f THEN t ELSE c[x][g]]
  BY DEF Formed
<1>5. d2 = Overwritten(c, x, f, t)
  BY DEF Overwritten
<1>1. Formed(d2) /\ d2[x] = new /\ \A y \in Databases \ {x} : d2[y] = c[y]
  <2> HIDE DEF new
  <2>1. Shaped(new)
    BY <1>0 DEF Shaped
  <2> QED BY <2>1, ChangedFormed
<1> HIDE DEF new, d2
<1>2. d2[x][f] = t /\ \A y \in Databases, g \in Fields : ~(y = x /\ g = f) => d2[y][g] = c[y][g]
  BY <1>0, <1>1
<1>4. ASSUME NEW y \in Databases, NEW g \in Fields, ~(y = x /\ g = f)
      PROVE  Restored(d2, u)[y][g] = Restored(c, u)[y][g]
  <2>4. CASE \A d \in Deployments : u[d] = {}
    <3>1. \A e \in Deployments : ~KeptIn(u, e, y, g)
      BY <2>4 DEF KeptIn
    <3>2. Restored(c, u)[y][g] = c[y][g]
      BY <3>1, RestoredPlain
    <3>3. Restored(d2, u)[y][g] = d2[y][g]
      BY <1>1, <3>1, RestoredPlain
    <3> QED BY <1>2, <1>4, <3>2, <3>3
  <2>5. SUFFICES ASSUME \E d \in Deployments : Sole(u, d)
                 PROVE  Restored(d2, u)[y][g] = Restored(c, u)[y][g]
    BY <2>4
  <2>1. PICK d \in Deployments : Sole(u, d)
    BY <2>5
  <2>2. CASE KeptIn(u, d, y, g)
    <3>1. PICK v \in u[d] : v.on = y /\ v.field = g
      BY <2>2 DEF KeptIn
    <3>2. Restored(c, u)[v.on][v.field] = v.value
      BY <2>1, <3>1, RestoredKept
    <3>3. Restored(d2, u)[v.on][v.field] = v.value
      BY <1>1, <2>1, <3>1, RestoredKept
    <3> QED BY <3>1, <3>2, <3>3
  <2>3. CASE ~KeptIn(u, d, y, g)
    <3>1. \A e \in Deployments : ~KeptIn(u, e, y, g)
      BY <2>1, <2>3 DEF Sole, KeptIn
    <3>2. Restored(c, u)[y][g] = c[y][g]
      BY <3>1, RestoredPlain
    <3>3. Restored(d2, u)[y][g] = d2[y][g]
      BY <1>1, <3>1, RestoredPlain
    <3> QED BY <1>2, <1>4, <3>2, <3>3
  <2> QED BY <2>2, <2>3
<1> QED BY <1>5, <1>1, <1>4

LEMMA OutsideSeen ==
  ASSUME NEW c, NEW u, NEW x \in Databases, NEW f \in Fields, NEW t, OutsideSafe(c, u, x, f)
  PROVE  Restored(Overwritten(c, x, f, t), u)[x][f] = Overwritten(c, x, f, t)[x][f]
<1> DEFINE d2 == Overwritten(c, x, f, t)
<1>1. Formed(d2)
  BY OutsideElse
<1> HIDE DEF d2
<1>2. Restored(d2, u)[x][f] = d2[x][f]
  BY <1>1, RestoredPlain DEF OutsideSafe
<1> QED BY <1>2 DEF d2

----------------------------------------------------------------------------
(* What holds of every state.                                              *)
Tables == {"absent", "older", "canonical", "foreign"}
Modules == {"absent", "older", "canonical", "alien"}

FormInv ==
  /\ runs \in [Deployments -> Nat]
  /\ \A d \in Deployments : runs[d] <= MaxRuns /\ (Running(d) => runs[d] > 0)
  /\ undo = [d \in Deployments |-> undo[d]]
  /\ answer = [d \in Deployments |-> answer[d]]
  /\ latest = [x \in Databases |-> latest[x]]
  /\ Formed(content)
  /\ \A x \in Databases : /\ content[x].table \in Tables /\ Committed[x].table \in Tables
                          /\ content[x].module \in Modules /\ Committed[x].module \in Modules

(* The statement that writes a field, and the undo records: each of a      *)
(* statement that has passed, one for each field.                          *)
WriterOf(f) == IF f = "table" THEN "table" ELSE IF f = "row" THEN "rows"
               ELSE IF f = "module" THEN "module" ELSE "archive"
UndoInv ==
  \A d \in Deployments :
    /\ \A v \in undo[d] : v.on \in Databases /\ v.field \in Fields /\ Passed(d, WriterOf(v.field), v.on)
    /\ \A v, w \in undo[d] : v.on = w.on /\ v.field = w.field => v.value = w.value

(* Locks of what has been written; an operator locks only a table that is  *)
(* there.                                                                  *)
HeldInv ==
  /\ \A d \in Deployments, x \in Databases :
       /\ Passed(d, "table", x) \/ Passed(d, "rows", x) => holder[TableOf(x)] = d
       /\ Passed(d, "module", x) => holder[ModuleOf(x)] = d /\ Committed[x].module # "alien"
  /\ \A x \in Databases : holder[TableOf(x)] = Operator => content[x].table \notin {"absent", "foreign"}

(* Nobody else creates a product-shaped table: what appears under a free   *)
(* product name is somebody's own.  Without this a table may come into     *)
(* being, and be edited, after the archive found none to archive.          *)
NoTwin == Intrusions \subseteq {"foreign"}

(* What the statements of a running deployment have established: the       *)
(* accepted row stays under the table's lock, or the table is not there;   *)
(* the receipt and the archived row are those of the accepted contents;    *)
(* verified contents stay.                                                 *)
CheckedInv ==
  \A d \in Deployments, x \in Databases :
    /\ NoTwin /\ Passed(d, "preflight", x) =>
         /\ Committed[x].row # "conflict"
         /\ Committed[x].table \in {"absent", "foreign"} \/ holder[TableOf(x)] = d
    /\ Passed(d, "archive", x) =>
         /\ content[x].receipts = Committed[x].receipts \cup {Run(d)}
         /\ NoTwin /\ Committed[x].table # "foreign" =>
              content[x].archive = Committed[x].archive \cup
                (IF Committed[x].table = "absent" THEN {} ELSE {<<Run(d), Committed[x].row>>})
    /\ Passed(d, "verify", x) => Conforms(content[x]) /\ holder[TableOf(x)] = d

(* No source replaces a foreign table, receipts are of runs that have      *)
(* ended, and a table that is not there has no row.                        *)
ForeignInv == \A x \in Databases : Committed[x].table = "foreign" => content[x].table = "foreign"
ReceiptInv ==
  \A x \in Databases : \A r \in Committed[x].receipts :
    \E e \in Deployments : \E k \in 1..runs[e] : r = <<e, k>> /\ (Running(e) => k # runs[e])
AbsentInv == \A x \in Databases : Committed[x].table = "absent" => latest[x] = "none"

DeployInv == /\ SerialInv /\ FormInv /\ UndoInv /\ HeldInv
             /\ CheckedInv /\ ForeignInv /\ ReceiptInv /\ AbsentInv

LEMMA WorkOpsAre ==
  /\ "preflight" \in WorkOps /\ "archive" \in WorkOps /\ "table" \in WorkOps /\ "rows" \in WorkOps
  /\ "module" \in WorkOps /\ "verify" \in WorkOps
  /\ \A f \in Fields : WriterOf(f) \in WorkOps
BY DEF WorkOps, Fields, WriterOf

(* Past the tempdb lock a session works alone.                             *)
LEMMA Alone ==
  ASSUME SerialInv, UndoInv, NEW d \in Deployments, pc[d] > 2
  PROVE  /\ holder[Metadata] = d
         /\ \A e \in Deployments \ {d} : pc[e] <= 2 /\ undo[e] = {} /\ \A op \in WorkOps : \A x : ~Passed(e, op, x)
         /\ Sole(undo, d)
         /\ \A v \in undo[d] : v.on \in Databases /\ v.field \in Fields
<1>1. holder[Metadata] = d
  BY DEF SerialInv
<1>2. ASSUME NEW e \in Deployments \ {d} PROVE pc[e] <= 2
  BY <1>1 DEF SerialInv, TypeInv
<1>3. ASSUME NEW e \in Deployments \ {d}, NEW op \in WorkOps, NEW x PROVE ~Passed(e, op, x)
  <2>1. Passed(e, op, x) => pc[e] > 4
    BY PassedOrder DEF SerialInv
  <2>2. pc[e] \in Nat
    BY DEF SerialInv, TypeInv
  <2> QED BY <1>2, <2>1, <2>2
<1>4. ASSUME NEW e \in Deployments \ {d} PROVE undo[e] = {}
  <2>1. ASSUME NEW v \in undo[e] PROVE FALSE
    <3>1. Passed(e, WriterOf(v.field), v.on) /\ v.field \in Fields
      BY <2>1 DEF UndoInv
    <3> QED BY <1>3, <3>1, WorkOpsAre
  <2> QED BY <2>1
<1> QED BY <1>1, <1>2, <1>3, <1>4 DEF Sole, UndoInv

(* A session with changes is past the tempdb lock.                         *)
LEMMA WriterWorks ==
  ASSUME SerialInv, UndoInv, NEW d \in Deployments, undo[d] # {}
  PROVE  pc[d] > 2
<1>1. PICK v \in undo[d] : TRUE
  OBVIOUS
<1>2. Passed(d, WriterOf(v.field), v.on) /\ v.field \in Fields
  BY DEF UndoInv
<1>3. pc[d] > 4
  BY <1>2, WorkOpsAre, PassedOrder DEF SerialInv
<1> QED BY <1>3 DEF SerialInv, TypeInv

LEMMA WriterOrNone ==
  ASSUME SerialInv, UndoInv
  PROVE  (\E d \in Deployments : Sole(undo, d)) \/ (\A d \in Deployments : undo[d] = {})
BY Alone, WriterWorks

(* What is not kept is committed as it is.                                 *)
LEMMA Plain ==
  ASSUME FormInv, NEW x \in Databases, NEW f \in Fields,
         \A d \in Deployments : ~KeptIn(undo, d, x, f)
  PROVE  Committed[x][f] = content[x][f]
BY RestoredPlain, CommittedIs DEF FormInv

LEMMA PlainBefore ==
  ASSUME SerialInv, FormInv, UndoInv, NEW d \in Deployments, pc[d] > 2,
         NEW x \in Databases, NEW f \in Fields, ~Passed(d, WriterOf(f), x)
  PROVE  Committed[x][f] = content[x][f]
<1>1. ~KeptIn(undo, d, x, f)
  BY DEF KeptIn, UndoInv
<1>2. \A e \in Deployments : ~KeptIn(undo, e, x, f)
  BY <1>1, Alone DEF KeptIn
<1> QED BY <1>2, Plain

LEMMA CommittedForm ==
  ASSUME FormInv
  PROVE  Formed(Committed)
BY RestoredShape, CommittedIs DEF FormInv

LEMMA DeployInit == Init => DeployInv
<1> SUFFICES ASSUME Init PROVE DeployInv
  OBVIOUS
<1>1. SerialInv
  BY SerialInit
<1>2. \A x \in Databases : content[x] \in Contents
  BY DEF Init
<1>3. \A c \in Contents : c = [f \in Fields |-> c[f]]
  BY ContentsAssumption DEF Fields
<1>4. Formed(content)
  BY <1>2, <1>3 DEF Init, Formed
<1>5. \A d \in Deployments : undo[d] = {} /\ pc[d] = 0 /\ runs[d] = 0
  BY DEF Init
<1>6. Committed = content
  BY <1>4, <1>5, RestoredEmpty, CommittedIs
<1>7. FormInv
  BY <1>2, <1>4, <1>5, <1>6, ContentsAssumption DEF Init, FormInv, Tables, Modules, DeploymentAssumption, Running
<1>8. \A d \in Deployments : \A op, x : ~Passed(d, op, x)
  BY <1>5 DEF Passed
<1>9. UndoInv
  BY <1>5 DEF UndoInv
<1>10. HeldInv
  <2>1. \A x \in Databases : holder[TableOf(x)] = Nobody
    BY DEF Init, Locks
  <2> QED BY <1>8, <2>1 DEF HeldInv, DeploymentAssumption
<1>11. CheckedInv
  BY <1>8 DEF CheckedInv
<1>12. ForeignInv
  BY <1>6 DEF ForeignInv
<1>13. ReceiptInv
  BY <1>2, <1>6, ContentsAssumption DEF ReceiptInv
<1>14. AbsentInv
  BY <1>2, <1>6, ContentsAssumption DEF AbsentInv, Init
<1> QED BY <1>1, <1>7, <1>9, <1>10, <1>11, <1>12, <1>13, <1>14 DEF DeployInv

LEMMA StartKeeps ==
  ASSUME DeployInv, SerialInv', NEW d \in Deployments, Start(d)
  PROVE  DeployInv' /\ Committed' = Committed
<1>1. Committed' = Committed
  BY CommittedIs DEF Start
<1>2. ASSUME NEW e \in Deployments, NEW op, NEW x PROVE Passed(e, op, x)' <=> Passed(e, op, x)
  <2>1. CASE e = d
    <3>1. pc[d] = 0 /\ pc'[d] = 1
      BY DEF Start, Running, DeployInv, SerialInv, TypeInv
    <3> QED BY <2>1, <3>1 DEF Passed
  <2>2. CASE e # d
    BY <2>2 DEF Passed, Start, DeployInv, SerialInv, TypeInv
  <2> QED BY <2>1, <2>2
<1>3. runs[d] \in Nat /\ runs[d] < MaxRuns /\ runs'[d] = runs[d] + 1
      /\ runs' \in [Deployments -> Nat] /\ \A e \in Deployments \ {d} : runs'[e] = runs[e] /\ (Running(e)' <=> Running(e))
  BY DEF Start, DeployInv, FormInv, SerialInv, TypeInv, Running
<1>4. FormInv'
  <2>1. \A e \in Deployments : runs'[e] <= MaxRuns /\ (Running(e)' => runs'[e] > 0)
    <3>1. runs'[d] <= MaxRuns /\ runs'[d] > 0
      BY <1>3 DEF DeploymentAssumption
    <3> QED BY <1>3, <3>1 DEF DeployInv, FormInv
  <2>2. answer' = [e \in Deployments |-> answer'[e]]
    BY DEF Start, DeployInv, FormInv
  <2>3. UNCHANGED <<undo, latest, content>> /\ FormInv
    BY DEF Start, DeployInv
  <2> QED BY <1>1, <1>3, <2>1, <2>2, <2>3 DEF FormInv
<1>5. UndoInv'
  BY <1>2 DEF UndoInv, Start, DeployInv
<1>6. HeldInv'
  BY <1>1, <1>2 DEF HeldInv, Start, DeployInv
<1>7. CheckedInv'
  <2>1. \A e \in Deployments, op \in WorkOps : \A x : Passed(e, op, x) => Run(e)' = Run(e)
    <3>1. \A op \in WorkOps : \A x : ~Passed(d, op, x)
      BY DEF Passed, Start, Running
    <3> QED BY <1>3, <3>1 DEF Run
  <2>2. content' = content /\ holder' = holder
    BY DEF Start
  <2>3. CheckedInv
    BY DEF DeployInv
  <2> QED BY <1>1, <1>2, <2>1, <2>2, <2>3, WorkOpsAre DEF CheckedInv
<1>8. ForeignInv' /\ AbsentInv'
  BY <1>1 DEF ForeignInv, AbsentInv, Start, DeployInv
<1>9. ReceiptInv'
  <2>1. ASSUME NEW x \in Databases, NEW r \in Committed[x].receipts
        PROVE \E e \in Deployments : \E k \in 1..runs'[e] : r = <<e, k>> /\ (Running(e)' => k # runs'[e])
    <3>1. PICK e \in Deployments : \E k \in 1..runs[e] : r = <<e, k>> /\ (Running(e) => k # runs[e])
      BY <2>1 DEF DeployInv, ReceiptInv
    <3>2. PICK k \in 1..runs[e] : r = <<e, k>> /\ (Running(e) => k # runs[e])
      BY <3>1
    <3>3. CASE e = d
      <4>1. k \in 1..runs'[d] /\ k # runs'[d]
        BY <1>3, <3>2, <3>3
      <4> QED BY <3>2, <3>3, <4>1
    <3>4. CASE e # d
      BY <1>3, <3>2, <3>4
    <3> QED BY <3>3, <3>4
  <2> QED BY <1>1, <2>1 DEF ReceiptInv
<1> QED BY <1>1, <1>4, <1>5, <1>6, <1>7, <1>8, <1>9 DEF DeployInv

(* A lock that was free is taken.                                          *)
LEMMA AcquireKeeps ==
  ASSUME DeployInv, SerialInv', NEW d \in Deployments, Acquire(d)
  PROVE  DeployInv' /\ Committed' = Committed
<1>1. Committed' = Committed
  BY CommittedIs DEF Acquire
<1>2. \A e, op, x : Passed(e, op, x)' <=> Passed(e, op, x)
  BY DEF Passed, Acquire
<1>3. PICK r \in Needs(d) : holder[r] = Nobody /\ holder' = [holder EXCEPT ![r] = d]
  BY DEF Acquire
<1>4. \A q \in Locks : /\ \A e \in Deployments : holder[q] = e => holder'[q] = e
                       /\ holder'[q] = Operator => holder[q] = Operator
  BY <1>3 DEF DeployInv, SerialInv, TypeInv, DeploymentAssumption
<1>5. \A x \in Databases : TableOf(x) \in Locks /\ ModuleOf(x) \in Locks
  BY DEF Locks
<1>6. FormInv'
  BY <1>1 DEF FormInv, Acquire, DeployInv, Running
<1>7. UndoInv'
  BY <1>2 DEF UndoInv, Acquire, DeployInv
<1>8. HeldInv'
  BY <1>1, <1>2, <1>4, <1>5 DEF HeldInv, Acquire, DeployInv
<1>9. CheckedInv'
  <2>1. content' = content /\ runs' = runs /\ CheckedInv
    BY DEF Acquire, DeployInv
  <2> QED BY <1>1, <1>2, <1>4, <1>5, <2>1 DEF CheckedInv, Run
<1>10. ForeignInv' /\ AbsentInv' /\ ReceiptInv'
  BY <1>1 DEF ForeignInv, AbsentInv, ReceiptInv, Acquire, DeployInv, Running
<1> QED BY <1>1, <1>6, <1>7, <1>8, <1>9, <1>10 DEF DeployInv

(* The transaction is undone: nobody else sees a difference.               *)
LEMMA RollbackKeeps ==
  ASSUME DeployInv, SerialInv', NEW d \in Deployments, NEW how, Rollback(d, how)
  PROVE  DeployInv' /\ Committed' = Committed
<1>1. /\ content' = Before(d) /\ undo' = [undo EXCEPT ![d] = {}] /\ pc' = [pc EXCEPT ![d] = 0]
      /\ answer' = [answer EXCEPT ![d] = how]
      /\ holder' = [r \in Locks |-> IF Holds(d, r) THEN Nobody ELSE holder[r]]
      /\ roles' = roles /\ runs' = runs /\ latest' = latest
  BY DEF Rollback, Ends
<1>2. Formed(content) /\ FormInv /\ SerialInv /\ UndoInv
  BY DEF DeployInv, FormInv
<1>15. ASSUME undo[d] = {} PROVE content' = content
  <2>1. content' = Undone(content, undo, d)
    BY <1>1, CommittedIs
  <2>2. Formed(content')
    BY <1>2, <2>1, UndoneShape
  <2>3. \A x, f : ~KeptIn(undo, d, x, f)
    BY <1>15 DEF KeptIn
  <2>4. \A x \in Databases, f \in Fields : content'[x][f] = content[x][f]
    BY <1>2, <2>1, <2>3, UndonePlain
  <2> QED BY <1>2, <2>2, <2>4, FormedEqual
<1>3. Committed' = Committed /\ (content' = content \/ content' = Committed)
  <2>1. CASE undo[d] = {}
    <3>1. undo' = undo
      BY <1>1, <1>2, <2>1 DEF FormInv
    <3>2. content' = content
      BY <1>15, <2>1
    <3> QED BY <3>1, <3>2, CommittedIs
  <2>2. CASE undo[d] # {}
    <3>1. pc[d] > 2
      BY <1>2, <2>2, WriterWorks
    <3>2. /\ \A e \in Deployments \ {d} : undo[e] = {}
          /\ Sole(undo, d)
          /\ \A v \in undo[d] : v.on \in Databases /\ v.field \in Fields
      BY <1>2, <3>1, Alone
    <3>3. content' = Committed
      BY <1>1, <1>2, <3>2, RestoredIsUndone, CommittedIs
    <3>4. \A e \in Deployments : undo'[e] = {}
      BY <1>1, <1>2, <3>2 DEF FormInv
    <3>5. Formed(content')
      BY <1>2, <3>3, CommittedForm
    <3>6. Committed' = content'
      BY <3>4, <3>5, RestoredEmpty, CommittedIs
    <3> QED BY <3>3, <3>6
  <2> QED BY <2>1, <2>2
<1>4. ASSUME NEW e \in Deployments, NEW op, NEW x
      PROVE  Passed(e, op, x)' <=> e # d /\ Passed(e, op, x)
  <2>1. CASE e = d
    <3>1. pc'[d] = 0
      BY <1>1, <1>2 DEF SerialInv, TypeInv
    <3> QED BY <2>1, <3>1 DEF Passed
  <2>2. CASE e # d
    BY <1>1, <1>2, <2>2 DEF Passed, SerialInv, TypeInv
  <2> QED BY <2>1, <2>2
<1>5. \A q \in Locks : /\ \A e \in Deployments \ {d} : holder[q] = e => holder'[q] = e
                       /\ holder'[q] = Operator => holder[q] = Operator
  BY <1>1 DEF Holds, DeploymentAssumption
<1>6. \A x \in Databases : TableOf(x) \in Locks /\ ModuleOf(x) \in Locks
  BY DEF Locks
<1>7. \A e \in Deployments : (Running(e)' => Running(e)) /\ Run(e)' = Run(e)
  BY <1>1, <1>2 DEF Running, Run, SerialInv, TypeInv
<1>8. FormInv'
  <2>1. Formed(content')
    BY <1>2, <1>3, CommittedForm
  <2>2. undo' = [e \in Deployments |-> undo'[e]] /\ answer' = [e \in Deployments |-> answer'[e]]
    BY <1>1, <1>2 DEF FormInv
  <2>3. \A x \in Databases : /\ content'[x].table \in Tables /\ Committed'[x].table \in Tables
                             /\ content'[x].module \in Modules /\ Committed'[x].module \in Modules
    BY <1>2, <1>3 DEF FormInv
  <2> QED BY <1>1, <1>2, <1>7, <2>1, <2>2, <2>3 DEF FormInv
<1>9. UndoInv'
  BY <1>1, <1>2, <1>4 DEF UndoInv, FormInv
<1>10. \/ content' = content
       \/ /\ content' = Committed
          /\ \A e \in Deployments \ {d} : \A op \in WorkOps : \A x : ~Passed(e, op, x)
  <2>1. CASE undo[d] = {}
    BY <1>15, <2>1
  <2>2. CASE undo[d] # {}
    <3>1. pc[d] > 2
      BY <1>2, <2>2, WriterWorks
    <3> QED BY <1>2, <1>3, <3>1, Alone
  <2> QED BY <2>1, <2>2
<1>11. HeldInv'
  <2>1. HeldInv
    BY DEF DeployInv
  <2>2. ASSUME NEW x \in Databases, holder'[TableOf(x)] = Operator
        PROVE  content'[x].table \notin {"absent", "foreign"}
    <3>1. holder[TableOf(x)] = Operator
      BY <1>5, <1>6, <2>2
    <3>2. content[x].table \notin {"absent", "foreign"}
      BY <2>1, <3>1 DEF HeldInv
    <3>3. \A e \in Deployments : ~KeptIn(undo, e, x, "table")
      <4>1. \A e \in Deployments : ~Passed(e, "table", x)
        BY <2>1, <3>1 DEF HeldInv, DeploymentAssumption
      <4> QED BY <1>2, <4>1 DEF KeptIn, UndoInv, WriterOf
    <3>4. Committed[x].table = content[x].table
      BY <1>2, <3>3, Plain DEF Fields
    <3> QED BY <1>3, <3>2, <3>4
  <2> QED BY <1>3, <1>4, <1>5, <1>6, <2>1, <2>2 DEF HeldInv
<1>12. CheckedInv'
  <2>1. CheckedInv
    BY DEF DeployInv
  <2>2. CASE content' = content
    BY <1>3, <1>4, <1>5, <1>6, <1>7, <2>1, <2>2 DEF CheckedInv
  <2>3. CASE \A e \in Deployments \ {d} : \A op \in WorkOps : \A x : ~Passed(e, op, x)
    <3>1. \A e \in Deployments, op \in WorkOps : \A x : ~Passed(e, op, x)'
      BY <1>4, <2>3
    <3> QED BY <3>1, WorkOpsAre DEF CheckedInv
  <2> QED BY <1>10, <2>2, <2>3
<1>13. ForeignInv' /\ AbsentInv'
  BY <1>1, <1>3 DEF ForeignInv, AbsentInv, DeployInv
<1>14. ReceiptInv'
  <2>1. ReceiptInv
    BY DEF DeployInv
  <2> QED BY <1>1, <1>3, <1>7, <2>1 DEF ReceiptInv
<1> QED BY <1>3, <1>8, <1>9, <1>11, <1>12, <1>13, <1>14 DEF DeployInv

(* The locks a statement waits for.                                        *)
LEMMA ReadyHolds ==
  ASSUME NEW d \in Deployments, Running(d), Ready(d)
  PROVE  /\ At(d, "table") \/ At(d, "rows") => holder[TableOf(On(d))] = d
         /\ At(d, "module") => holder[ModuleOf(On(d))] = d
         /\ At(d, "preflight") \/ At(d, "verify") =>
              (content[On(d)].table # "absent" => holder[TableOf(On(d))] = d)
<1>1. CASE At(d, "table")
  BY <1>1 DEF Ready, Needs, Holds, At
<1>2. CASE At(d, "rows")
  BY <1>2 DEF Ready, Needs, Holds, At
<1>3. CASE At(d, "module")
  BY <1>3 DEF Ready, Needs, Holds, At
<1>4. CASE At(d, "preflight")
  BY <1>4 DEF Ready, Needs, Holds, At, TableLock
<1>5. CASE At(d, "verify")
  BY <1>5 DEF Ready, Needs, Holds, At, TableLock
<1>6. \A o, q : At(d, o) /\ At(d, q) => o = q
  BY DEF At
<1> QED BY <1>1, <1>2, <1>3, <1>4, <1>5, <1>6

(* A statement moves nothing but the counter, and contents in place.       *)
LEMMA AdvanceFrame ==
  ASSUME DeployInv, NEW d \in Deployments, Running(d), Advance(d), Committed' = Committed,
         Formed(content'), Indexed(undo'),
         \A x \in Databases : content'[x].table \in Tables /\ content'[x].module \in Modules
  PROVE  FormInv' /\ AbsentInv' /\ ReceiptInv'
<1>1. runs' = runs /\ answer' = answer /\ latest' = latest /\ FormInv /\ AbsentInv /\ ReceiptInv
  BY DEF Advance, DeployInv
<1>2. \A e \in Deployments : Running(e)' => Running(e)
  BY DEF Advance, Running, DeployInv, SerialInv, TypeInv
<1>3. \A e \in Deployments : Running(e) => Running(e)'
  BY DEF Advance, Running, DeployInv, SerialInv, TypeInv
<1>4. FormInv'
  BY <1>1, <1>2 DEF FormInv, Indexed
<1>5. AbsentInv'
  BY <1>1 DEF AbsentInv
<1>6. ReceiptInv'
  BY <1>1, <1>2 DEF ReceiptInv
<1> QED BY <1>4, <1>5, <1>6

LEMMA WriteFrame ==
  ASSUME DeployInv, NEW d \in Deployments, NEW op \in WorkOps, At(d, op), Advance(d),
         NEW x, x = On(d), NEW new, Write(d, x, new),
         Shaped(new), new.table \in Tables, new.module \in Modules,
         \A f \in Fields : new[f] # content[x][f] => WriterOf(f) = op
  PROVE  /\ x \in Databases /\ Committed' = Committed
         /\ content'[x] = new /\ \A y \in Databases \ {x} : content'[y] = content[y]
         /\ UndoInv' /\ FormInv' /\ AbsentInv' /\ ReceiptInv'
<1>1. SerialInv /\ FormInv /\ UndoInv /\ Formed(content) /\ Indexed(undo)
  BY DEF DeployInv, FormInv, Indexed
<1>2. x \in Targets(d) /\ pc[d] > 3 /\ Running(d)
  BY <1>1, Order DEF SerialInv, At
<1>3. pc[d] > 2
  BY <1>1, <1>2 DEF SerialInv, TypeInv
<1>4. x \in Databases
  <2>1. roles[d] \in Seq(Databases)
    BY <1>1 DEF SerialInv, TypeInv, DeploymentAssumption
  <2> QED BY <1>2, <2>1 DEF Targets
<1>5. /\ \A e \in Deployments \ {d} : undo[e] = {}
      /\ Sole(undo, d)
      /\ \A v \in undo[d] : v.on \in Databases /\ v.field \in Fields
  BY <1>1, <1>3, Alone
<1> DEFINE c2 == Changed(content, x, new)
           u2 == Extended(content, undo, d, x, new)
<1>6. content' = c2 /\ undo' = u2
  BY DEF Write, Changed, Extended
<1>7. /\ Formed(c2) /\ Sole(u2, d) /\ Restored(c2, u2) = Restored(content, undo)
      /\ Indexed(u2) /\ \A e \in Deployments \ {d} : u2[e] = undo[e]
      /\ \A v \in u2[d] : \/ v \in undo[d]
                          \/ v.on = x /\ v.field \in Fields /\ new[v.field] # content[x][v.field]
  BY <1>1, <1>4, <1>5, WriteHidden
<1>8. c2[x] = new /\ \A y \in Databases \ {x} : c2[y] = content[y]
  BY <1>1, <1>4, ChangedFormed
<1> HIDE DEF c2, u2
<1>9. Committed' = Committed
  BY <1>6, <1>7, CommittedIs
<1>10. \A y \in Databases : content'[y].table \in Tables /\ content'[y].module \in Modules
  BY <1>1, <1>6, <1>8 DEF FormInv
<1>11. FormInv' /\ AbsentInv' /\ ReceiptInv'
  BY <1>2, <1>6, <1>7, <1>9, <1>10, AdvanceFrame
<1>12. UndoInv'
  <2>1. ASSUME NEW e \in Deployments, NEW v \in undo'[e]
        PROVE  v.on \in Databases /\ v.field \in Fields /\ Passed(e, WriterOf(v.field), v.on)'
    <3>1. e = d
      BY <1>5, <1>6, <1>7, <2>1
    <3>2. CASE v \in undo[d]
      <4>1. v.on \in Databases /\ v.field \in Fields /\ Passed(d, WriterOf(v.field), v.on)
        BY <1>1, <3>2 DEF UndoInv
      <4> QED BY <1>1, <1>2, <3>1, <4>1, PassedNext DEF SerialInv
    <3>3. CASE v \notin undo[d]
      <4>1. v.on = x /\ v.field \in Fields /\ WriterOf(v.field) = op
        BY <1>6, <1>7, <2>1, <3>1, <3>3
      <4>2. Passed(d, op, x)'
        BY <1>1, <1>2, PassedNext DEF SerialInv
      <4> QED BY <1>4, <3>1, <4>1, <4>2
    <3> QED BY <3>2, <3>3
  <2>2. \A e \in Deployments : \A v, w \in undo'[e] : v.on = w.on /\ v.field = w.field => v.value = w.value
    BY <1>5, <1>6, <1>7 DEF Sole
  <2> QED BY <2>1, <2>2 DEF UndoInv
<1> QED BY <1>4, <1>6, <1>8, <1>9, <1>11, <1>12

(* A statement that reads: only what it has checked is added.              *)
LEMMA ReadFrame ==
  ASSUME DeployInv, NEW d \in Deployments, Running(d), Advance(d), UNCHANGED <<content, undo>>
  PROVE  /\ Committed' = Committed /\ UndoInv' /\ FormInv' /\ AbsentInv' /\ ReceiptInv' /\ ForeignInv'
         /\ holder' = holder /\ runs' = runs
<1>1. Committed' = Committed
  BY CommittedIs
<1>2. SerialInv /\ FormInv /\ UndoInv /\ ForeignInv
  BY DEF DeployInv
<1>3. FormInv' /\ AbsentInv' /\ ReceiptInv'
  BY <1>1, <1>2, AdvanceFrame DEF FormInv, Indexed
<1>4. UndoInv'
  <2>1. \A e \in Deployments : \A op, x : Passed(e, op, x) => Passed(e, op, x)'
    BY <1>2, PassedNext DEF SerialInv
  <2> QED BY <1>2, <2>1 DEF UndoInv
<1> QED BY <1>1, <1>2, <1>3, <1>4 DEF ForeignInv, Advance

LEMMA PassKeeps ==
  ASSUME DeployInv, SerialInv', NEW d \in Deployments, Pass(d)
  PROVE  DeployInv' /\ Committed' = Committed
<1>1. Running(d) /\ Advance(d) /\ UNCHANGED <<content, undo>> /\ \A op \in WorkOps : ~At(d, op)
  BY DEF Pass, At, WorkOps
<1>2. /\ Committed' = Committed /\ UndoInv' /\ FormInv' /\ AbsentInv' /\ ReceiptInv' /\ ForeignInv'
      /\ holder' = holder /\ runs' = runs
  BY <1>1, ReadFrame
<1>3. \A e \in Deployments, op \in WorkOps : \A x : Passed(e, op, x)' <=> Passed(e, op, x)
  BY <1>1, PassedNext DEF DeployInv, SerialInv
<1>4. HeldInv'
  BY <1>1, <1>2, <1>3, WorkOpsAre DEF HeldInv, DeployInv
<1>5. CheckedInv'
  BY <1>1, <1>2, <1>3, WorkOpsAre DEF CheckedInv, DeployInv, Run
<1> QED BY <1>2, <1>4, <1>5 DEF DeployInv

LEMMA PreflightKeeps ==
  ASSUME DeployInv, SerialInv', NEW d \in Deployments, Preflight(d)
  PROVE  DeployInv' /\ Committed' = Committed
<1> DEFINE z == On(d)
<1>1. At(d, "preflight") /\ Running(d) /\ Advance(d) /\ UNCHANGED <<content, undo>> /\ Ready(d) /\ Acceptable(content[z])
  BY DEF Preflight, At
<1>2. /\ Committed' = Committed /\ UndoInv' /\ FormInv' /\ AbsentInv' /\ ReceiptInv' /\ ForeignInv'
      /\ holder' = holder /\ runs' = runs
  BY <1>1, ReadFrame
<1>3. SerialInv /\ TypeInv /\ FormInv /\ UndoInv /\ HeldInv /\ CheckedInv
  BY DEF DeployInv, SerialInv
<1>4. \A o : At(d, o) => o = "preflight"
  BY <1>1 DEF At
<1>5. \A e \in Deployments : \A op, x : Passed(e, op, x)' <=> Passed(e, op, x) \/ (e = d /\ op = "preflight" /\ z = x)
  BY <1>1, <1>3, <1>4, PassedNext
<1>6. pc[d] > 2 /\ z \in Targets(d)
  BY <1>1, <1>3, Order, WorkOpsAre DEF TypeInv
<1>7. ASSUME z \in Databases
      PROVE  /\ Committed[z].row # "conflict"
             /\ Committed[z].table \in {"absent", "foreign"} \/ holder[TableOf(z)] = d
  <2>1. ~Passed(d, "table", z) /\ ~Passed(d, "rows", z)
    BY <1>1, <1>3, Order, PassedOrder
  <2>2. Committed[z].table = content[z].table
    BY <1>3, <1>6, <1>7, <2>1, PlainBefore DEF Fields, WriterOf
  <2>3. Committed[z].row = content[z].row
    BY <1>3, <1>6, <1>7, <2>1, PlainBefore DEF Fields, WriterOf
  <2> QED BY <1>1, <2>2, <2>3, ReadyHolds DEF Acceptable
<1> HIDE DEF z
<1>8. HeldInv'
  BY <1>1, <1>2, <1>3, <1>5 DEF HeldInv
<1>9. CheckedInv'
  BY <1>1, <1>2, <1>3, <1>5, <1>7 DEF CheckedInv, Run
<1> QED BY <1>2, <1>8, <1>9 DEF DeployInv

LEMMA VerifyKeeps ==
  ASSUME DeployInv, SerialInv', NEW d \in Deployments, Verify(d)
  PROVE  DeployInv' /\ Committed' = Committed
<1> DEFINE z == On(d)
<1>1. At(d, "verify") /\ Running(d) /\ Advance(d) /\ UNCHANGED <<content, undo>> /\ Ready(d) /\ Conforms(content[z])
  BY DEF Verify, At
<1>2. /\ Committed' = Committed /\ UndoInv' /\ FormInv' /\ AbsentInv' /\ ReceiptInv' /\ ForeignInv'
      /\ holder' = holder /\ runs' = runs
  BY <1>1, ReadFrame
<1>3. TypeInv /\ HeldInv /\ CheckedInv
  BY DEF DeployInv, SerialInv
<1>4. \A o : At(d, o) => o = "verify"
  BY <1>1 DEF At
<1>5. \A e \in Deployments : \A op, x : Passed(e, op, x)' <=> Passed(e, op, x) \/ (e = d /\ op = "verify" /\ z = x)
  BY <1>1, <1>3, <1>4, PassedNext
<1>6. holder[TableOf(z)] = d
  BY <1>1, ReadyHolds DEF Conforms
<1> HIDE DEF z
<1>7. HeldInv'
  BY <1>1, <1>2, <1>3, <1>5 DEF HeldInv
<1>8. CheckedInv'
  BY <1>1, <1>2, <1>3, <1>5, <1>6 DEF CheckedInv, Run
<1> QED BY <1>2, <1>7, <1>8 DEF DeployInv

LEMMA ArchiveKeeps ==
  ASSUME DeployInv, SerialInv', NEW d \in Deployments, Archive(d)
  PROVE  DeployInv' /\ Committed' = Committed
<1> DEFINE z == On(d) new == Receipt(content[z], Run(d))
<1>1. At(d, "archive") /\ Running(d) /\ Advance(d) /\ Write(d, z, new)
  BY DEF Archive, At
<1>2. SerialInv /\ TypeInv /\ FormInv /\ UndoInv /\ HeldInv /\ CheckedInv /\ ForeignInv
  BY DEF DeployInv, SerialInv
<1>3. z \in Databases /\ pc[d] > 2
  <2>1. z \in Targets(d) /\ pc[d] > 3
    BY <1>1, <1>2, Order, WorkOpsAre
  <2>2. roles[d] \in Seq(Databases)
    BY <1>2 DEF TypeInv, DeploymentAssumption
  <2> QED BY <1>2, <2>1, <2>2 DEF Targets, TypeInv
<1>4. /\ Shaped(new) /\ new.table = content[z].table /\ new.module = content[z].module
      /\ new.row = content[z].row /\ new.receipts = content[z].receipts \cup {Run(d)}
      /\ new.archive = IF content[z].table = "absent" THEN content[z].archive
                       ELSE content[z].archive \cup {<<Run(d), content[z].row>>}
  <2>1. content[z] = [f \in Fields |-> content[z][f]]
    BY <1>2, <1>3 DEF FormInv, Formed
  <2> HIDE DEF z
  <2> QED BY <2>1 DEF Receipt, Fields, Shaped
<1>5. \A f \in Fields : new[f] # content[z][f] => WriterOf(f) = "archive"
  BY <1>4 DEF Fields, WriterOf
<1>6. new.table \in Tables /\ new.module \in Modules
  BY <1>2, <1>3, <1>4 DEF FormInv
<1> HIDE DEF z, new
<1>7. /\ Committed' = Committed
      /\ content'[z] = new /\ \A y \in Databases \ {z} : content'[y] = content[y]
      /\ UndoInv' /\ FormInv' /\ AbsentInv' /\ ReceiptInv'
  BY <1>1, <1>4, <1>5, <1>6, WriteFrame, WorkOpsAre DEF z
<1>8. \A o : At(d, o) => o = "archive"
  BY <1>1 DEF At
<1>9. \A e \in Deployments : \A op, x : Passed(e, op, x)' <=> Passed(e, op, x) \/ (e = d /\ op = "archive" /\ z = x)
  BY <1>1, <1>2, <1>8, PassedNext DEF z
<1>10. holder' = holder /\ \A e \in Deployments : Run(e)' = Run(e)
  BY <1>1 DEF Advance, Run
<1>11. /\ ~Passed(d, "archive", z)
       /\ \A x : ~Passed(d, "table", x) /\ ~Passed(d, "rows", x) /\ ~Passed(d, "verify", x)
  BY <1>1, <1>2, Order DEF z
<1>12. /\ Committed[z].table = content[z].table /\ Committed[z].row = content[z].row
       /\ Committed[z].receipts = content[z].receipts /\ Committed[z].archive = content[z].archive
  BY <1>2, <1>3, <1>11, PlainBefore DEF Fields, WriterOf
<1>13. \A y \in Databases : content'[y].table = content[y].table
  BY <1>4, <1>7
<1>14. HeldInv'
  BY <1>2, <1>7, <1>9, <1>10, <1>13 DEF HeldInv
<1>15. ForeignInv'
  BY <1>2, <1>7, <1>13 DEF ForeignInv
<1>16. \A e \in Deployments \ {d}, op \in WorkOps : \A x : ~Passed(e, op, x)
  BY <1>2, <1>3, Alone
<1>17. CheckedInv'
  <2>1. ASSUME NoTwin, NEW e \in Deployments, NEW x \in Databases, Passed(e, "preflight", x)'
        PROVE  /\ Committed'[x].row # "conflict"
               /\ Committed'[x].table \in {"absent", "foreign"} \/ holder'[TableOf(x)] = e
    BY <1>2, <1>7, <1>9, <1>10, <2>1 DEF CheckedInv
  <2>2. ASSUME NEW e \in Deployments, NEW x \in Databases, Passed(e, "archive", x)'
        PROVE  /\ content'[x].receipts = Committed'[x].receipts \cup {Run(e)'}
               /\ NoTwin /\ Committed'[x].table # "foreign" =>
                    content'[x].archive = Committed'[x].archive \cup
                      (IF Committed'[x].table = "absent" THEN {} ELSE {<<Run(e)', Committed'[x].row>>})
    <3>1. e = d
      BY <1>9, <1>16, <2>2, WorkOpsAre
    <3>2. CASE x = z
      BY <1>4, <1>7, <1>10, <1>12, <3>1, <3>2
    <3>3. CASE x # z
      <4>1. Passed(d, "archive", x)
        BY <1>9, <2>2, <3>1, <3>3
      <4>2. content'[x] = content[x]
        BY <1>7, <3>3
      <4> QED BY <1>2, <1>7, <1>10, <3>1, <4>1, <4>2 DEF CheckedInv
    <3> QED BY <3>2, <3>3
  <2>3. ASSUME NEW e \in Deployments, NEW x \in Databases PROVE ~Passed(e, "verify", x)'
    BY <1>9, <1>11, <1>16, WorkOpsAre
  <2> QED BY <2>1, <2>2, <2>3 DEF CheckedInv
<1> QED BY <1>7, <1>14, <1>15, <1>17 DEF DeployInv

(* A source changes one field of one database, under its lock, and neither *)
(* the receipt nor the archive.                                            *)
LEMMA SourceKeeps ==
  ASSUME DeployInv, SerialInv', NEW d \in Deployments, CreateTable(d) \/ SeedRows(d) \/ CreateModule(d)
  PROVE  DeployInv' /\ Committed' = Committed
<1> DEFINE z == On(d) c == content[On(d)]
<1>1. PICK op, new :
        /\ op \in {"table", "rows", "module"}
        /\ At(d, op) /\ Ready(d) /\ Advance(d) /\ Write(d, z, new)
        /\ \/ op = "table" /\ new = [c EXCEPT !.table = IF c.table = "foreign" THEN c.table ELSE "canonical"]
           \/ op = "rows" /\ new = [c EXCEPT !.row = IF c.row = "conflict" THEN c.row ELSE "seed"]
           \/ op = "module" /\ c.module # "alien" /\ new = [c EXCEPT !.module = "canonical"]
  <2>1. CASE CreateTable(d)
    BY <2>1 DEF CreateTable
  <2>2. CASE SeedRows(d)
    BY <2>2 DEF SeedRows
  <2>3. CASE CreateModule(d)
    BY <2>3 DEF CreateModule
  <2> QED BY <2>1, <2>2, <2>3
<1>2. SerialInv /\ TypeInv /\ FormInv /\ UndoInv /\ HeldInv /\ CheckedInv /\ ForeignInv
  BY DEF DeployInv, SerialInv
<1>3. op \in WorkOps /\ Running(d)
  BY <1>1, WorkOpsAre DEF At
<1>4. z \in Databases /\ pc[d] > 2
  <2>1. z \in Targets(d) /\ pc[d] > 3
    BY <1>1, <1>2, <1>3, Order
  <2>2. roles[d] \in Seq(Databases)
    BY <1>2 DEF TypeInv, DeploymentAssumption
  <2> QED BY <1>2, <2>1, <2>2 DEF Targets, TypeInv
<1>5. c = [f \in Fields |-> c[f]] /\ c.table \in Tables /\ c.module \in Modules
  BY <1>2, <1>4 DEF FormInv, Formed
<1> HIDE DEF z, c
<1>6. /\ Shaped(new) /\ new.receipts = c.receipts /\ new.archive = c.archive
      /\ op # "table" => new.table = c.table
      /\ op # "module" => new.module = c.module
      /\ op # "rows" => new.row = c.row
      /\ op = "table" => new.table = IF c.table = "foreign" THEN c.table ELSE "canonical"
      /\ op = "module" => new.module = "canonical" /\ c.module # "alien"
  <2>1. CASE op = "table"
    BY <1>1, <1>5, <2>1 DEF Fields, Shaped
  <2>2. CASE op = "rows"
    BY <1>1, <1>5, <2>2 DEF Fields, Shaped
  <2>3. CASE op = "module"
    BY <1>1, <1>5, <2>3 DEF Fields, Shaped
  <2> QED BY <1>1, <2>1, <2>2, <2>3
<1>7. \A f \in Fields : new[f] # c[f] => WriterOf(f) = op
  BY <1>1, <1>6 DEF Fields, WriterOf
<1>8. new.table \in Tables /\ new.module \in Modules
  BY <1>5, <1>6 DEF Tables, Modules
<1>9. /\ Committed' = Committed
      /\ content'[z] = new /\ \A y \in Databases \ {z} : content'[y] = content[y]
      /\ UndoInv' /\ FormInv' /\ AbsentInv' /\ ReceiptInv'
  BY <1>1, <1>3, <1>6, <1>7, <1>8, WriteFrame DEF z, c
<1>10. \A o : At(d, o) => o = op
  BY <1>1 DEF At
<1>11. \A e \in Deployments : \A o, x : Passed(e, o, x)' <=> Passed(e, o, x) \/ (e = d /\ o = op /\ z = x)
  BY <1>1, <1>2, <1>3, <1>10, PassedNext DEF z
<1>12. holder' = holder /\ \A e \in Deployments : Run(e)' = Run(e)
  BY <1>1 DEF Advance, Run
<1>13. \A x : ~Passed(d, "verify", x)
  BY <1>1, <1>2, Order
<1>14. /\ op \in {"table", "rows"} => holder[TableOf(z)] = d
       /\ op = "module" => holder[ModuleOf(z)] = d
  BY <1>1, <1>3, ReadyHolds DEF z
<1>15. \A e \in Deployments \ {d}, o \in WorkOps : \A x : ~Passed(e, o, x)
  BY <1>2, <1>4, Alone
<1>16. content[z] = c
  BY DEF z, c
<1>17. HeldInv'
  <2>1. ASSUME NEW e \in Deployments, NEW x \in Databases, Passed(e, "table", x)' \/ Passed(e, "rows", x)'
        PROVE  holder'[TableOf(x)] = e
    BY <1>2, <1>11, <1>12, <1>14, <2>1 DEF HeldInv
  <2>2. ASSUME NEW e \in Deployments, NEW x \in Databases, Passed(e, "module", x)'
        PROVE  holder'[ModuleOf(x)] = e /\ Committed'[x].module # "alien"
    <3>1. CASE Passed(e, "module", x)
      BY <1>2, <1>9, <1>12, <3>1 DEF HeldInv
    <3>2. CASE ~Passed(e, "module", x)
      <4>1. e = d /\ op = "module" /\ x = z /\ ~Passed(d, "module", z)
        BY <1>11, <2>2, <3>2
      <4>2. Committed[z].module = c.module
        BY <1>2, <1>4, <1>16, <4>1, PlainBefore DEF Fields, WriterOf
      <4> QED BY <1>6, <1>9, <1>12, <1>14, <4>1, <4>2
    <3> QED BY <3>1, <3>2
  <2>3. ASSUME NEW x \in Databases, holder'[TableOf(x)] = Operator
        PROVE  content'[x].table \notin {"absent", "foreign"}
    <3>1. content[x].table \notin {"absent", "foreign"}
      BY <1>2, <1>12, <2>3 DEF HeldInv
    <3>2. CASE x = z
      BY <1>6, <1>9, <1>16, <3>1, <3>2
    <3>3. CASE x # z
      BY <1>9, <3>1, <3>3
    <3> QED BY <3>2, <3>3
  <2> QED BY <2>1, <2>2, <2>3 DEF HeldInv
<1>18. ForeignInv'
  BY <1>2, <1>6, <1>9, <1>16 DEF ForeignInv
<1>19. CheckedInv'
  <2>1. \A e \in Deployments, x \in Databases :
          (Passed(e, "preflight", x)' <=> Passed(e, "preflight", x)) /\ (Passed(e, "archive", x)' <=> Passed(e, "archive", x))
    BY <1>1, <1>11
  <2>2. \A x \in Databases : content'[x].receipts = content[x].receipts /\ content'[x].archive = content[x].archive
    BY <1>6, <1>9, <1>16
  <2>3. \A e \in Deployments, x \in Databases : ~Passed(e, "verify", x)'
    BY <1>1, <1>11, <1>13, <1>15, WorkOpsAre
  <2> QED BY <1>2, <1>9, <1>12, <2>1, <2>2, <2>3 DEF CheckedInv
<1> QED BY <1>9, <1>17, <1>18, <1>19 DEF DeployInv

(* At the commit every database holds what the run promises.               *)
LEMMA CommitInstalls ==
  ASSUME DeployInv, NEW d \in Deployments, At(d, "commit"), NEW x \in Targets(d)
  PROVE  /\ x \in Databases
         /\ content[x].table = "canonical"
         /\ content[x].receipts = Committed[x].receipts \cup {Run(d)}
         /\ NoTwin => /\ content[x] = Promise!Installed(Committed[x], Run(d))
                      /\ Promise!Acceptable(Committed[x])
         /\ Run(d) \notin Committed[x].receipts
<1>1. SerialInv /\ TypeInv /\ FormInv /\ UndoInv /\ HeldInv /\ CheckedInv /\ ForeignInv /\ ReceiptInv
  BY DEF DeployInv, SerialInv
<1>2. Passed(d, "archive", x) /\ Passed(d, "verify", x) /\ Running(d)
  BY <1>1, Order DEF At
<1>3. Passed(d, "preflight", x) /\ Passed(d, "module", x)
  BY <1>1, <1>2, PassedOrder
<1>4. x \in Databases
  <2>1. roles[d] \in Seq(Databases)
    BY <1>1 DEF TypeInv, DeploymentAssumption
  <2> QED BY <2>1 DEF Targets
<1>5. Conforms(content[x]) /\ Committed[x].module # "alien" /\ (NoTwin => Committed[x].row # "conflict")
  BY <1>1, <1>2, <1>3, <1>4 DEF CheckedInv, HeldInv
<1>6. Committed[x].table # "foreign"
  BY <1>1, <1>4, <1>5 DEF ForeignInv, Conforms
<1>7. /\ content[x].receipts = Committed[x].receipts \cup {Run(d)}
      /\ NoTwin => content[x].archive = Committed[x].archive \cup
           (IF Committed[x].table = "absent" THEN {} ELSE {<<Run(d), Committed[x].row>>})
  BY <1>1, <1>2, <1>4, <1>6 DEF CheckedInv
<1>8. ASSUME NoTwin PROVE content[x] = Promise!Installed(Committed[x], Run(d))
  <2>1. content[x] = [f \in Fields |-> content[x][f]]
    BY <1>1, <1>4 DEF FormInv, Formed
  <2>2. content[x].table = "canonical" /\ content[x].module = "canonical" /\ content[x].row = "seed"
    BY <1>5 DEF Conforms
  <2> DEFINE c == content[x] b == Committed[x]
  <2>3. c.archive = b.archive \cup (IF b.table = "absent" THEN {} ELSE {<<Run(d), b.row>>})
    BY <1>7, <1>8
  <2>4. c.receipts = b.receipts \cup {Run(d)}
    BY <1>7
  <2> HIDE DEF c, b
  <2>5. c = [table |-> "canonical", row |-> "seed", module |-> "canonical", receipts |-> c.receipts, archive |-> c.archive]
    BY <2>1, <2>2 DEF c, Fields
  <2> QED BY <2>3, <2>4, <2>5 DEF Promise!Installed, c, b
<1>9. ASSUME NoTwin PROVE Promise!Acceptable(Committed[x])
  <2>1. Committed[x].table \in Tables /\ Committed[x].module \in Modules
    BY <1>1, <1>4 DEF FormInv
  <2> QED BY <1>5, <1>6, <1>9, <2>1 DEF Promise!Acceptable, Tables, Modules
<1>10. ASSUME Run(d) \in Committed[x].receipts PROVE FALSE
  <2>1. PICK e \in Deployments : \E k \in 1..runs[e] : Run(d) = <<e, k>> /\ (Running(e) => k # runs[e])
    BY <1>1, <1>4, <1>10 DEF ReceiptInv
  <2>2. PICK k \in 1..runs[e] : Run(d) = <<e, k>> /\ (Running(e) => k # runs[e])
    BY <2>1
  <2>3. e = d /\ k = runs[d]
    BY <2>2 DEF Run
  <2> QED BY <1>2, <2>2, <2>3
<1> QED BY <1>4, <1>5, <1>7, <1>8, <1>9, <1>10 DEF Conforms

(* The commit shows everything at once.                                    *)
LEMMA CommitShows ==
  ASSUME DeployInv, NEW d \in Deployments, Commit(d)
  PROVE  /\ Committed' = content /\ content' = content
         /\ \A x \in Databases \ Targets(d) : content[x] = Committed[x]
         /\ \A e \in Deployments \ {d} : undo[e] = {} /\ \A op \in WorkOps : \A x : ~Passed(e, op, x)
<1>1. SerialInv /\ TypeInv /\ FormInv /\ UndoInv /\ Formed(content)
  BY DEF DeployInv, SerialInv, FormInv
<1>2. At(d, "commit") /\ content' = content /\ undo' = [undo EXCEPT ![d] = {}]
  BY DEF Commit, Ends
<1>3. pc[d] > 2
  <2>1. Len(roles[d]) \in {1, 2} /\ pc[d] \in Nat
    BY <1>1, PlanAt DEF TypeInv
  <2> QED BY <1>1, <1>2, <2>1, OneDatabase, TwoDatabases
<1>4. \A e \in Deployments \ {d} : undo[e] = {} /\ \A op \in WorkOps : \A x : ~Passed(e, op, x)
  BY <1>1, <1>3, Alone
<1>5. \A e \in Deployments : undo'[e] = {}
  BY <1>1, <1>2, <1>4 DEF FormInv
<1>6. Committed' = content
  <2>1. Restored(content, undo') = content
    BY <1>1, <1>5, RestoredEmpty
  <2> QED BY <1>2, <2>1, CommittedIs
<1>7. ASSUME NEW x \in Databases \ Targets(d) PROVE content[x] = Committed[x]
  <2>1. \A f \in Fields : ~Passed(d, WriterOf(f), x)
    BY <1>1, PassedOrder, WorkOpsAre
  <2>2. \A f \in Fields : Committed[x][f] = content[x][f]
    BY <1>1, <1>3, <2>1, PlainBefore
  <2>3. Formed(Committed)
    BY <1>1, CommittedForm
  <2> QED BY <1>1, <2>2, <2>3 DEF Formed
<1> QED BY <1>2, <1>4, <1>6, <1>7

LEMMA CommitKeeps ==
  ASSUME DeployInv, SerialInv', NEW d \in Deployments, Commit(d)
  PROVE  DeployInv'
<1>1. /\ Committed' = content /\ content' = content
      /\ \A x \in Databases \ Targets(d) : content[x] = Committed[x]
      /\ \A e \in Deployments \ {d} : undo[e] = {} /\ \A op \in WorkOps : \A x : ~Passed(e, op, x)
  BY CommitShows
<1>2. At(d, "commit") /\ Running(d)
  BY DEF Commit, At
<1>3. \A x \in Targets(d) : /\ x \in Databases
                            /\ content[x].table = "canonical"
                            /\ content[x].receipts = Committed[x].receipts \cup {Run(d)}
  BY <1>2, CommitInstalls
<1>4. PICK how : Ends(d, how)
  BY DEF Commit
<1>5. /\ undo' = [undo EXCEPT ![d] = {}] /\ pc' = [pc EXCEPT ![d] = 0]
      /\ answer' = [answer EXCEPT ![d] = how]
      /\ holder' = [r \in Locks |-> IF Holds(d, r) THEN Nobody ELSE holder[r]]
      /\ roles' = roles /\ runs' = runs /\ latest' = latest
  BY <1>4 DEF Ends
<1>6. FormInv /\ TypeInv /\ HeldInv /\ ReceiptInv /\ AbsentInv
  BY DEF DeployInv, SerialInv
<1>7. \A e \in Deployments, op \in WorkOps : \A x : ~Passed(e, op, x)'
  <2>1. \A op, x : ~Passed(d, op, x)'
    <3>1. pc'[d] = 0
      BY <1>5, <1>6 DEF TypeInv
    <3> QED BY <3>1 DEF Passed
  <2>2. ASSUME NEW e \in Deployments \ {d}, NEW op \in WorkOps, NEW x PROVE ~Passed(e, op, x)'
    <3>1. ~Passed(e, op, x)
      BY <1>1
    <3> QED BY <1>5, <1>6, <3>1 DEF Passed, TypeInv
  <2> QED BY <2>1, <2>2
<1>8. \A e \in Deployments : (Running(e)' => Running(e)) /\ ~Running(d)'
  BY <1>5, <1>6 DEF Running, TypeInv
<1>9. FormInv'
  <2>1. undo' = [e \in Deployments |-> undo'[e]] /\ answer' = [e \in Deployments |-> answer'[e]]
    BY <1>5, <1>6 DEF FormInv
  <2> QED BY <1>1, <1>5, <1>6, <1>8, <2>1 DEF FormInv
<1>10. UndoInv'
  BY <1>1, <1>5, <1>6 DEF UndoInv, FormInv
<1>11. HeldInv'
  <2>1. \A x \in Databases : holder'[TableOf(x)] = Operator => holder[TableOf(x)] = Operator
    <3>1. \A x \in Databases : TableOf(x) \in Locks
      BY DEF Locks
    <3> QED BY <1>5, <3>1 DEF DeploymentAssumption
  <2> QED BY <1>1, <1>6, <1>7, <2>1, WorkOpsAre DEF HeldInv
<1>12. CheckedInv'
  BY <1>7, WorkOpsAre DEF CheckedInv
<1>13. ForeignInv'
  BY <1>1 DEF ForeignInv
<1>14. ReceiptInv'
  <2>1. ASSUME NEW x \in Databases, NEW r \in content[x].receipts
        PROVE \E e \in Deployments : \E k \in 1..runs[e] : r = <<e, k>> /\ (Running(e)' => k # runs[e])
    <3>1. CASE r \in Committed[x].receipts
      BY <1>6, <1>8, <3>1 DEF ReceiptInv
    <3>2. CASE r \notin Committed[x].receipts
      <4>1. x \in Targets(d) /\ r = <<d, runs[d]>>
        BY <1>1, <1>3, <2>1, <3>2 DEF Run
      <4>2. runs[d] \in 1..runs[d]
        BY <1>2, <1>6 DEF FormInv
      <4> QED BY <1>8, <4>1, <4>2
    <3> QED BY <3>1, <3>2
  <2> QED BY <1>1, <1>5, <2>1 DEF ReceiptInv
<1>15. AbsentInv'
  BY <1>1, <1>3, <1>5, <1>6 DEF AbsentInv
<1> QED BY <1>9, <1>10, <1>11, <1>12, <1>13, <1>14, <1>15 DEF DeployInv

(* Another session changes a field that no deployment has changed.         *)
LEMMA OutsideFrame ==
  ASSUME DeployInv, NEW x \in Databases, NEW f \in Fields, NEW t,
         content' = Overwritten(content, x, f, t),
         \A d \in Deployments : ~Passed(d, WriterOf(f), x), UNCHANGED <<roles, pc, undo>>
  PROVE  /\ Formed(content') /\ Formed(Committed)
         /\ content'[x][f] = t /\ Committed'[x][f] = t /\ Committed[x][f] = content[x][f]
         /\ \A y \in Databases, g \in Fields :
              ~(y = x /\ g = f) => content'[y][g] = content[y][g] /\ Committed'[y][g] = Committed[y][g]
         /\ Formed(Committed') /\ UndoInv' /\ \A d, op, y : Passed(d, op, y)' <=> Passed(d, op, y)
<1>1. SerialInv /\ UndoInv /\ FormInv /\ Formed(content)
  BY DEF DeployInv, FormInv
<1>2. \A d \in Deployments : ~KeptIn(undo, d, x, f)
  BY <1>1 DEF KeptIn, UndoInv
<1>3. \A d \in Deployments : \A v \in undo[d] : v.on \in Databases /\ v.field \in Fields
  BY <1>1 DEF UndoInv
<1> DEFINE c2 == Overwritten(content, x, f, t)
<1>5. c2[x][f] = t /\ \A y \in Databases, g \in Fields : ~(y = x /\ g = f) => c2[y][g] = content[y][g]
  BY <1>1, FormedDomain DEF Changed, Overwritten
<1>4. /\ Formed(c2)
      /\ Restored(c2, undo)[x][f] = c2[x][f]
      /\ \A y \in Databases, g \in Fields :
              ~(y = x /\ g = f) => Restored(c2, undo)[y][g] = Restored(content, undo)[y][g]
  <2>1. Formed(content)
    BY <1>1
  <2>2. (\E d \in Deployments : Sole(undo, d)) \/ (\A d \in Deployments : undo[d] = {})
    BY <1>1, WriterOrNone
  <2>3. OutsideSafe(content, undo, x, f)
    BY <1>2, <1>3, <2>1, <2>2 DEF OutsideSafe
  <2>4. Restored(c2, undo)[x][f] = c2[x][f]
    BY <2>3, OutsideSeen
  <2> QED BY <2>3, <2>4, OutsideElse
<1> HIDE DEF c2
<1>6. content' = c2 /\ Committed' = Restored(c2, undo) /\ Committed = Restored(content, undo)
  BY CommittedIs DEF c2
<1>7. Formed(Committed) /\ Formed(Committed')
  BY <1>1, <1>4, <1>6, RestoredShape
<1>8. Committed[x][f] = content[x][f]
  BY <1>1, <1>2, Plain
<1>9. \A d, op, y : Passed(d, op, y)' <=> Passed(d, op, y)
  BY DEF Passed
<1>10. UndoInv'
  BY <1>1, <1>9 DEF UndoInv
<1> QED BY <1>4, <1>5, <1>6, <1>7, <1>8, <1>9, <1>10

LEMMA OperatorLocksKeeps ==
  ASSUME DeployInv, SerialInv', NEW x \in Databases, OperatorLocks(x)
  PROVE  DeployInv' /\ Committed' = Committed
<1>1. /\ holder[TableOf(x)] = Nobody /\ content[x].table \notin {"absent", "foreign"}
      /\ holder' = [holder EXCEPT ![TableOf(x)] = Operator]
      /\ UNCHANGED <<roles, pc, runs, answer, content, undo, latest>>
  BY DEF OperatorLocks
<1>2. Committed' = Committed
  BY <1>1, CommittedIs
<1>3. /\ DeployInv /\ FormInv /\ UndoInv /\ HeldInv /\ CheckedInv /\ ForeignInv /\ ReceiptInv /\ AbsentInv
      /\ holder \in [Locks -> Deployments \cup {Nobody, Operator}]
  BY DEF DeployInv, SerialInv, TypeInv
<1>4. \A e, op, y : Passed(e, op, y)' <=> Passed(e, op, y)
  BY <1>1 DEF Passed
<1>5. \A y \in Databases : TableOf(y) \in Locks /\ ModuleOf(y) \in Locks /\ ModuleOf(y) # TableOf(x)
                           /\ (TableOf(y) = TableOf(x) => y = x)
  BY DEF Locks, TableOf, ModuleOf
<1>6. \A q \in Locks : /\ \A e \in Deployments : holder[q] = e => holder'[q] = e
                       /\ holder'[q] = Operator => holder[q] = Operator \/ q = TableOf(x)
  BY <1>1, <1>3 DEF DeploymentAssumption
<1>7. FormInv'
  BY <1>1, <1>2, <1>3 DEF FormInv, Running
<1>8. UndoInv'
  BY <1>1, <1>3, <1>4 DEF UndoInv
<1>9. HeldInv'
  BY <1>1, <1>2, <1>3, <1>4, <1>5, <1>6 DEF HeldInv
<1>10. CheckedInv'
  BY <1>1, <1>2, <1>3, <1>4, <1>5, <1>6 DEF CheckedInv, Run
<1>11. ForeignInv' /\ AbsentInv' /\ ReceiptInv'
  BY <1>1, <1>2, <1>3 DEF ForeignInv, AbsentInv, ReceiptInv, Running
<1> QED BY <1>2, <1>7, <1>8, <1>9, <1>10, <1>11 DEF DeployInv

(* Where an operator holds the table, no deployment has accepted it.       *)
LEMMA OperatorAlone ==
  ASSUME DeployInv, NEW x \in Databases, holder[TableOf(x)] = Operator
  PROVE  /\ \A d \in Deployments : ~Passed(d, "table", x) /\ ~Passed(d, "rows", x) /\ ~Passed(d, "verify", x)
         /\ NoTwin => \A d \in Deployments, op \in WorkOps : ~Passed(d, op, x)
         /\ Committed[x].table # "absent"
<1>1. /\ FormInv /\ UndoInv /\ HeldInv /\ CheckedInv /\ TypeInv
  BY DEF DeployInv, SerialInv
<1>2. \A d \in Deployments : ~Passed(d, "table", x) /\ ~Passed(d, "rows", x)
  BY <1>1 DEF HeldInv, DeploymentAssumption
<1>3. \A d \in Deployments : ~KeptIn(undo, d, x, "table")
  BY <1>1, <1>2 DEF KeptIn, UndoInv, WriterOf
<1>4. Committed[x].table = content[x].table
  BY <1>1, <1>3, Plain DEF Fields
<1>5. Committed[x].table \notin {"absent", "foreign"}
  BY <1>1, <1>4 DEF HeldInv
<1>6. \A d \in Deployments : ~Passed(d, "verify", x)
  BY <1>1 DEF CheckedInv, DeploymentAssumption
<1>7. ASSUME NoTwin, NEW d \in Deployments, NEW op \in WorkOps PROVE ~Passed(d, op, x)
  <2>1. ~Passed(d, "preflight", x)
    BY <1>1, <1>5, <1>7 DEF CheckedInv, DeploymentAssumption
  <2>2. ~Passed(d, "archive", x)
    BY <1>1, <2>1, PassedOrder
  <2>3. ~Passed(d, "table", x) /\ ~Passed(d, "rows", x) /\ ~Passed(d, "module", x) /\ ~Passed(d, "verify", x)
    BY <1>1, <2>2, PassedOrder
  <2> QED BY <2>1, <2>2, <2>3 DEF WorkOps
<1> QED BY <1>2, <1>5, <1>6, <1>7

LEMMA OperatorEndsKeeps ==
  ASSUME DeployInv, SerialInv', NEW x \in Databases, OperatorEnds(x)
  PROVE  /\ DeployInv'
         /\ \/ Committed' = Committed /\ latest' = latest
            \/ /\ latest' = [latest EXCEPT ![x] = Committed'[x].row]
               /\ \A y \in Databases, g \in Fields :
                    ~(y = x /\ g = "row") => Committed'[y][g] = Committed[y][g]
         /\ Formed(Committed) /\ Formed(Committed')
<1>1. /\ holder[TableOf(x)] = Operator /\ holder' = [holder EXCEPT ![TableOf(x)] = Nobody]
      /\ UNCHANGED <<roles, pc, runs, answer, undo>>
  BY DEF OperatorEnds
<1>2. /\ FormInv /\ UndoInv /\ HeldInv /\ CheckedInv /\ ForeignInv /\ ReceiptInv /\ AbsentInv
      /\ holder \in [Locks -> Deployments \cup {Nobody, Operator}]
  BY DEF DeployInv, SerialInv, TypeInv
<1>3. /\ \A d \in Deployments : ~Passed(d, "table", x) /\ ~Passed(d, "rows", x) /\ ~Passed(d, "verify", x)
      /\ NoTwin => \A d \in Deployments, op \in WorkOps : ~Passed(d, op, x)
      /\ Committed[x].table # "absent"
  BY <1>1, OperatorAlone
<1>4. \A y \in Databases : TableOf(y) \in Locks /\ ModuleOf(y) \in Locks /\ ModuleOf(y) # TableOf(x)
                           /\ (TableOf(y) = TableOf(x) => y = x)
  BY DEF Locks, TableOf, ModuleOf
<1>5. \A q \in Locks : /\ \A e \in Deployments : holder[q] = e => holder'[q] = e
                       /\ holder'[q] = Operator => holder[q] = Operator
  BY <1>1, <1>2 DEF DeploymentAssumption
<1>6. \A e, op, y : Passed(e, op, y)' <=> Passed(e, op, y)
  BY <1>1 DEF Passed
<1>7. /\ Formed(content') /\ UndoInv' /\ latest' = [y \in Databases |-> latest'[y]]
      /\ \A y \in Databases, g \in Fields :
           g # "row" => content'[y][g] = content[y][g] /\ Committed'[y][g] = Committed[y][g]
      /\ \A y \in Databases \ {x} : Committed'[y].row = Committed[y].row /\ latest'[y] = latest[y]
                                    /\ content'[y] = content[y]
      /\ \/ Committed' = Committed /\ latest' = latest
         \/ /\ latest' = [latest EXCEPT ![x] = Committed'[x].row]
            /\ \A y \in Databases, g \in Fields :
                 ~(y = x /\ g = "row") => Committed'[y][g] = Committed[y][g]
      /\ Formed(Committed) /\ Formed(Committed')
  <2>1. CASE UNCHANGED <<content, latest>>
    <3>1. Committed' = Committed
      BY <1>1, <2>1, CommittedIs
    <3>2. UndoInv'
      BY <1>1, <1>2, <1>6 DEF UndoInv
    <3> QED BY <1>2, <2>1, <3>1, <3>2, CommittedForm DEF FormInv
  <2>2. ASSUME NEW e, content' = [content EXCEPT ![x].row = e], latest' = [latest EXCEPT ![x] = e]
        PROVE  <1>7!:
    <3>1. content' = Overwritten(content, x, "row", e)
      BY <2>2 DEF Overwritten, Changed
    <3>2. \A d \in Deployments : ~Passed(d, WriterOf("row"), x)
      BY <1>3 DEF WriterOf
    <3>3. "row" \in Fields
      BY DEF Fields
    <3>4. /\ Formed(content') /\ Formed(Committed)
          /\ content'[x].row = e /\ Committed'[x].row = e
          /\ \A y \in Databases, g \in Fields :
              ~(y = x /\ g = "row") => content'[y][g] = content[y][g] /\ Committed'[y][g] = Committed[y][g]
          /\ Formed(Committed') /\ UndoInv'
      BY <1>1, <3>1, <3>2, <3>3, OutsideFrame
    <3>5. \A y \in Databases \ {x} : content'[y] = content[y]
      BY <2>2, <1>2 DEF FormInv, Formed
    <3>6. latest' = [y \in Databases |-> latest'[y]] /\ \A y \in Databases \ {x} : latest'[y] = latest[y]
      BY <1>2, <2>2 DEF FormInv
    <3>7. latest' = [latest EXCEPT ![x] = Committed'[x].row]
      BY <2>2, <3>4
    <3> QED BY <3>3, <3>4, <3>5, <3>6, <3>7
  <2> QED BY <2>1, <2>2 DEF OperatorEnds
<1>8. \A y \in Databases : /\ content'[y].table = content[y].table /\ Committed'[y].table = Committed[y].table
                           /\ content'[y].module = content[y].module /\ Committed'[y].module = Committed[y].module
                           /\ content'[y].receipts = content[y].receipts /\ Committed'[y].receipts = Committed[y].receipts
                           /\ content'[y].archive = content[y].archive /\ Committed'[y].archive = Committed[y].archive
  BY <1>7 DEF Fields
<1>9. FormInv'
  BY <1>1, <1>2, <1>7, <1>8 DEF FormInv, Running
<1>10. HeldInv'
  BY <1>1, <1>2, <1>4, <1>5, <1>6, <1>8 DEF HeldInv
<1>11. CheckedInv'
  <2>1. ASSUME NEW d \in Deployments, NEW y \in Databases, y # x
        PROVE  /\ Committed'[y].row = Committed[y].row /\ content'[y] = content[y] /\ Run(d)' = Run(d)
               /\ (holder[TableOf(y)] = d => holder'[TableOf(y)] = d)
    BY <1>1, <1>4, <1>5, <1>7, <2>1 DEF Run
  <2>2. ASSUME NoTwin, NEW d \in Deployments, NEW op \in WorkOps, NEW y \in Databases, Passed(d, op, y)'
        PROVE  y # x /\ Passed(d, op, y)
    BY <1>3, <1>6, <2>2
  <2>3. ASSUME NoTwin, NEW d \in Deployments, NEW y \in Databases, Passed(d, "preflight", y)'
        PROVE  /\ Committed'[y].row # "conflict"
               /\ Committed'[y].table \in {"absent", "foreign"} \/ holder'[TableOf(y)] = d
    BY <1>2, <1>8, <2>1, <2>2, <2>3, WorkOpsAre DEF CheckedInv
  <2>4. ASSUME NEW d \in Deployments, NEW y \in Databases, Passed(d, "archive", y)'
        PROVE  content'[y].receipts = Committed'[y].receipts \cup {Run(d)'}
    BY <1>1, <1>2, <1>6, <1>8, <2>4 DEF CheckedInv, Run
  <2>5. ASSUME NoTwin, NEW d \in Deployments, NEW y \in Databases, Passed(d, "archive", y)', Committed'[y].table # "foreign"
        PROVE  content'[y].archive = Committed'[y].archive \cup
                 (IF Committed'[y].table = "absent" THEN {} ELSE {<<Run(d)', Committed'[y].row>>})
    BY <1>2, <1>8, <2>1, <2>2, <2>5, WorkOpsAre DEF CheckedInv
  <2>6. ASSUME NEW d \in Deployments, NEW y \in Databases, Passed(d, "verify", y)'
        PROVE  Conforms(content'[y]) /\ holder'[TableOf(y)] = d
    <3>1. y # x /\ Passed(d, "verify", y)
      BY <1>3, <1>6, <2>6
    <3> QED BY <1>2, <2>1, <3>1 DEF CheckedInv
  <2> QED BY <2>3, <2>4, <2>5, <2>6 DEF CheckedInv
<1>12. ForeignInv' /\ ReceiptInv'
  BY <1>1, <1>2, <1>8 DEF ForeignInv, ReceiptInv, Running
<1>13. AbsentInv'
  BY <1>2, <1>3, <1>7, <1>8 DEF AbsentInv
<1> QED BY <1>7, <1>9, <1>10, <1>11, <1>12, <1>13 DEF DeployInv

LEMMA IntrudeKeeps ==
  ASSUME DeployInv, SerialInv', NEW x \in Databases, Intrude(x)
  PROVE  /\ DeployInv' /\ Formed(Committed) /\ Formed(Committed') /\ latest' = latest
         /\ Committed[x].table = "absent"
         /\ \A y \in Databases, g \in Fields :
              ~(y = x /\ g = "table") => Committed'[y][g] = Committed[y][g]
<1>1. PICK t :
      /\ holder[TableOf(x)] = Nobody /\ content[x].table = "absent"
      /\ t \in Tables /\ (NoTwin => t = "foreign")
      /\ content' = [content EXCEPT ![x].table = t]
      /\ UNCHANGED <<roles, pc, runs, answer, undo, holder, latest>>
  BY ContentsAssumption DEF Intrude, NoTwin, Tables
<1>2. /\ FormInv /\ UndoInv /\ HeldInv /\ CheckedInv /\ ForeignInv /\ ReceiptInv /\ AbsentInv
  BY DEF DeployInv
<1>3. \A d \in Deployments : ~Passed(d, "table", x) /\ ~Passed(d, "rows", x) /\ ~Passed(d, "verify", x)
  BY <1>1, <1>2 DEF HeldInv, CheckedInv, DeploymentAssumption
<1>4. /\ Formed(content') /\ Formed(Committed)
      /\ content'[x].table = t /\ Committed'[x].table = t
      /\ Committed[x].table = content[x].table
      /\ \A y \in Databases, g \in Fields :
           ~(y = x /\ g = "table") => content'[y][g] = content[y][g] /\ Committed'[y][g] = Committed[y][g]
      /\ Formed(Committed') /\ UndoInv' /\ \A d, op, y : Passed(d, op, y)' <=> Passed(d, op, y)
  <2>1. content' = Overwritten(content, x, "table", t)
    BY <1>1 DEF Overwritten, Changed
  <2>2. WriterOf("table") = "table" /\ "table" \in Fields
    BY DEF WriterOf, Fields
  <2>3. UNCHANGED <<roles, pc, undo>>
    BY <1>1
  <2> QED BY <1>3, <2>1, <2>2, <2>3, OutsideFrame
<1>5. \A y \in Databases : /\ content'[y].module = content[y].module /\ Committed'[y].module = Committed[y].module
                           /\ content'[y].receipts = content[y].receipts /\ Committed'[y].receipts = Committed[y].receipts
                           /\ content'[y].archive = content[y].archive /\ Committed'[y].archive = Committed[y].archive
                           /\ content'[y].row = content[y].row /\ Committed'[y].row = Committed[y].row
  BY <1>4 DEF Fields
<1>6. \A y \in Databases \ {x} : content'[y].table = content[y].table /\ Committed'[y].table = Committed[y].table
  BY <1>4 DEF Fields
<1>7. FormInv'
  BY <1>1, <1>2, <1>4, <1>5, <1>6 DEF FormInv, Running, Tables
<1>8. HeldInv'
  BY <1>1, <1>2, <1>4, <1>5, <1>6 DEF HeldInv
<1>9. CheckedInv'
  <2>1. \A d : Run(d)' = Run(d)
    BY <1>1 DEF Run
  <2>2. ASSUME NoTwin, NEW d \in Deployments, NEW y \in Databases, Passed(d, "preflight", y)'
        PROVE  /\ Committed'[y].row # "conflict"
               /\ Committed'[y].table \in {"absent", "foreign"} \/ holder'[TableOf(y)] = d
    BY <1>1, <1>2, <1>4, <1>5, <1>6, <2>2 DEF CheckedInv
  <2>3. ASSUME NEW d \in Deployments, NEW y \in Databases, Passed(d, "archive", y)'
        PROVE  content'[y].receipts = Committed'[y].receipts \cup {Run(d)'}
    BY <1>1, <1>2, <1>4, <1>5, <1>6, <2>1, <2>3 DEF CheckedInv
  <2>4. ASSUME NoTwin, NEW d \in Deployments, NEW y \in Databases, Passed(d, "archive", y)', Committed'[y].table # "foreign"
        PROVE  content'[y].archive = Committed'[y].archive \cup
                 (IF Committed'[y].table = "absent" THEN {} ELSE {<<Run(d)', Committed'[y].row>>})
    BY <1>1, <1>2, <1>4, <1>5, <1>6, <2>1, <2>4 DEF CheckedInv
  <2>5. ASSUME NEW d \in Deployments, NEW y \in Databases, Passed(d, "verify", y)'
        PROVE  Conforms(content'[y]) /\ holder'[TableOf(y)] = d
    <3>1. y # x /\ Passed(d, "verify", y)
      BY <1>3, <1>4, <2>5
    <3> QED BY <1>1, <1>2, <1>5, <1>6, <3>1 DEF CheckedInv, Conforms
  <2> QED BY <2>2, <2>3, <2>4, <2>5 DEF CheckedInv
<1>10. ForeignInv' /\ ReceiptInv' /\ AbsentInv'
  <2>1. ForeignInv'
    BY <1>2, <1>4, <1>6 DEF ForeignInv
  <2>2. ReceiptInv'
    BY <1>1, <1>2, <1>5 DEF ReceiptInv, Running
  <2>3. AbsentInv'
    BY <1>1, <1>2, <1>4, <1>6 DEF AbsentInv
  <2> QED BY <2>1, <2>2, <2>3
<1> QED BY <1>1, <1>4, <1>7, <1>8, <1>9, <1>10 DEF DeployInv

LEMMA ChangeModuleKeeps ==
  ASSUME DeployInv, SerialInv', NEW x \in Databases, ChangeModule(x)
  PROVE  /\ DeployInv' /\ Formed(Committed) /\ Formed(Committed') /\ latest' = latest
         /\ \A y \in Databases, g \in Fields :
              ~(y = x /\ g = "module") => Committed'[y][g] = Committed[y][g]
<1>1. PICK m \in {"absent", "older", "alien"} :
      /\ holder[ModuleOf(x)] = Nobody
      /\ content' = [content EXCEPT ![x].module = m]
      /\ UNCHANGED <<roles, pc, runs, answer, undo, holder, latest>>
  BY DEF ChangeModule
<1>2. /\ FormInv /\ UndoInv /\ HeldInv /\ CheckedInv /\ ForeignInv /\ ReceiptInv /\ AbsentInv /\ SerialInv
  BY DEF DeployInv
<1>3. \A d \in Deployments : ~Passed(d, "module", x) /\ ~Passed(d, "verify", x)
  BY <1>1, <1>2, PassedOrder DEF HeldInv, SerialInv, DeploymentAssumption
<1>4. /\ Formed(content') /\ Formed(Committed)
      /\ content'[x].module = m /\ Committed'[x].module = m
      /\ \A y \in Databases, g \in Fields :
           ~(y = x /\ g = "module") => content'[y][g] = content[y][g] /\ Committed'[y][g] = Committed[y][g]
      /\ Formed(Committed') /\ UndoInv' /\ \A d, op, y : Passed(d, op, y)' <=> Passed(d, op, y)
  <2>1. content' = Overwritten(content, x, "module", m)
    BY <1>1 DEF Overwritten, Changed
  <2>2. WriterOf("module") = "module" /\ "module" \in Fields
    BY DEF WriterOf, Fields
  <2>3. UNCHANGED <<roles, pc, undo>>
    BY <1>1
  <2> QED BY <1>3, <2>1, <2>2, <2>3, OutsideFrame
<1>5. \A y \in Databases : /\ content'[y].table = content[y].table /\ Committed'[y].table = Committed[y].table
                           /\ content'[y].receipts = content[y].receipts /\ Committed'[y].receipts = Committed[y].receipts
                           /\ content'[y].archive = content[y].archive /\ Committed'[y].archive = Committed[y].archive
                           /\ content'[y].row = content[y].row /\ Committed'[y].row = Committed[y].row
  BY <1>4 DEF Fields
<1>6. \A y \in Databases \ {x} : content'[y].module = content[y].module /\ Committed'[y].module = Committed[y].module
  BY <1>4 DEF Fields
<1>7. FormInv'
  BY <1>1, <1>2, <1>4, <1>5, <1>6 DEF FormInv, Running, Modules
<1>8. HeldInv'
  BY <1>1, <1>2, <1>3, <1>4, <1>5, <1>6 DEF HeldInv
<1>9. CheckedInv'
  <2>1. \A d : Run(d)' = Run(d)
    BY <1>1 DEF Run
  <2>2. ASSUME NoTwin, NEW d \in Deployments, NEW y \in Databases, Passed(d, "preflight", y)'
        PROVE  /\ Committed'[y].row # "conflict"
               /\ Committed'[y].table \in {"absent", "foreign"} \/ holder'[TableOf(y)] = d
    BY <1>1, <1>2, <1>4, <1>5, <2>2 DEF CheckedInv
  <2>3. ASSUME NEW d \in Deployments, NEW y \in Databases, Passed(d, "archive", y)'
        PROVE  content'[y].receipts = Committed'[y].receipts \cup {Run(d)'}
    BY <1>1, <1>2, <1>4, <1>5, <2>1, <2>3 DEF CheckedInv
  <2>4. ASSUME NoTwin, NEW d \in Deployments, NEW y \in Databases, Passed(d, "archive", y)', Committed'[y].table # "foreign"
        PROVE  content'[y].archive = Committed'[y].archive \cup
                 (IF Committed'[y].table = "absent" THEN {} ELSE {<<Run(d)', Committed'[y].row>>})
    BY <1>1, <1>2, <1>4, <1>5, <2>1, <2>4 DEF CheckedInv
  <2>5. ASSUME NEW d \in Deployments, NEW y \in Databases, Passed(d, "verify", y)'
        PROVE  Conforms(content'[y]) /\ holder'[TableOf(y)] = d
    <3>1. y # x /\ Passed(d, "verify", y)
      BY <1>3, <1>4, <2>5
    <3> QED BY <1>1, <1>2, <1>5, <1>6, <3>1 DEF CheckedInv, Conforms
  <2> QED BY <2>2, <2>3, <2>4, <2>5 DEF CheckedInv
<1>10. ForeignInv' /\ ReceiptInv' /\ AbsentInv'
  BY <1>1, <1>2, <1>5 DEF ForeignInv, ReceiptInv, AbsentInv, Running
<1> QED BY <1>1, <1>4, <1>7, <1>8, <1>9, <1>10 DEF DeployInv

----------------------------------------------------------------------------
(* The theorems.                                                           *)

(* A step that shows nothing to anybody: nothing is committed, and no      *)
(* client hears anything.                                                  *)
Unseen ==
  /\ Committed' = Committed
  /\ UNCHANGED <<roles, latest>>
  /\ \A d \in Deployments : Running(d)' \/ (~Running(d) /\ runs'[d] = runs[d] /\ answer'[d] = answer[d])

(* Every step keeps the invariant, and is hidden, or one of the five that  *)
(* somebody can tell.                                                      *)
LEMMA DeployNext ==
  ASSUME DeployInv, [Next]_vars
  PROVE  /\ DeployInv'
         /\ \/ Unseen
            \/ \E d \in Deployments : Commit(d) \/ (\E how : Rollback(d, how) /\ how \in {"FAILED", "LOST"})
            \/ \E x \in Databases : OperatorEnds(x) \/ Intrude(x) \/ ChangeModule(x)
<1>1. SerialInv /\ SerialInv' /\ TypeInv /\ FormInv
  BY SerialNext DEF DeployInv, SerialInv
<1>2. ASSUME NEW d \in Deployments, Start(d) PROVE DeployInv' /\ Unseen
  BY <1>1, <1>2, StartKeeps DEF Unseen, Start, Running, TypeInv, FormInv
<1>3. ASSUME NEW d \in Deployments, Acquire(d) PROVE DeployInv' /\ Unseen
  BY <1>1, <1>3, AcquireKeeps DEF Unseen, Acquire, Running
<1>4. ASSUME NEW d \in Deployments, Running(d), Advance(d), Committed' = Committed PROVE Unseen
  BY <1>1, <1>4 DEF Unseen, Advance, Running, TypeInv
<1>5. ASSUME NEW d \in Deployments,
             Pass(d) \/ Preflight(d) \/ Archive(d) \/ CreateTable(d) \/ SeedRows(d) \/ CreateModule(d) \/ Verify(d)
      PROVE  DeployInv' /\ Unseen
  <2>1. DeployInv' /\ Committed' = Committed
    BY <1>1, <1>5, PassKeeps, PreflightKeeps, ArchiveKeeps, SourceKeeps, VerifyKeeps
  <2>2. Running(d) /\ Advance(d)
    BY <1>5 DEF Pass, Preflight, Archive, CreateTable, SeedRows, CreateModule, Verify, At
  <2> QED BY <1>4, <2>1, <2>2
<1>6. ASSUME NEW d \in Deployments, Commit(d) PROVE DeployInv'
  BY <1>1, <1>6, CommitKeeps
<1>7. ASSUME NEW d \in Deployments, Throw(d) \/ Timeout(d) \/ Fault(d) \/ Killed(d)
      PROVE  DeployInv' /\ \E how : Rollback(d, how) /\ how \in {"FAILED", "LOST"}
  <2>1. PICK how : Rollback(d, how) /\ how \in {"FAILED", "LOST"}
    BY <1>7 DEF Throw, Timeout, Fault, Killed
  <2> QED BY <1>1, <2>1, RollbackKeeps
<1>8. ASSUME NEW x \in Databases, OperatorLocks(x) PROVE DeployInv' /\ Unseen
  BY <1>1, <1>8, OperatorLocksKeeps DEF Unseen, OperatorLocks, Running
<1>9. ASSUME NEW x \in Databases, OperatorEnds(x) \/ Intrude(x) \/ ChangeModule(x) PROVE DeployInv'
  BY <1>1, <1>9, OperatorEndsKeeps, IntrudeKeeps, ChangeModuleKeeps
<1>10. CASE UNCHANGED vars
  <2>1. UNCHANGED <<roles, pc, runs, answer, content, undo, holder, latest>>
    BY <1>10 DEF vars
  <2>2. Committed' = Committed
    BY <2>1, CommittedIs
  <2>3. \A d, op, x : Passed(d, op, x)' <=> Passed(d, op, x)
    BY <2>1 DEF Passed
  <2>4. DeployInv'
    <3>1. FormInv' /\ UndoInv' /\ HeldInv'
      BY <2>1, <2>2, <2>3 DEF DeployInv, FormInv, UndoInv, HeldInv, Running
    <3>2. CheckedInv'
      BY <2>1, <2>2, <2>3 DEF DeployInv, CheckedInv, Run
    <3>3. ForeignInv' /\ ReceiptInv' /\ AbsentInv'
      BY <2>1, <2>2 DEF DeployInv, ForeignInv, ReceiptInv, AbsentInv, Running
    <3> QED BY <1>1, <3>1, <3>2, <3>3 DEF DeployInv
  <2> QED BY <2>1, <2>2, <2>4 DEF Unseen, Running
<1> QED BY <1>2, <1>3, <1>5, <1>6, <1>7, <1>8, <1>9, <1>10 DEF Next, Step

LEMMA DeployInvariance == Spec => []DeployInv
<1>1. DeployInv /\ [Next]_vars => DeployInv'
  BY DeployNext
<1> QED BY <1>1, DeployInit, PTL DEF Spec

(* A run that has not ended has left no receipt that anybody sees.         *)
LEMMA RunIsNew ==
  ASSUME DeployInv, NEW d \in Deployments, Running(d), NEW x \in Databases
  PROVE  Run(d) \notin Committed[x].receipts
<1> SUFFICES ASSUME Run(d) \in Committed[x].receipts PROVE FALSE
  OBVIOUS
<1>1. PICK e \in Deployments : \E k \in 1..runs[e] : Run(d) = <<e, k>> /\ (Running(e) => k # runs[e])
  BY DEF DeployInv, ReceiptInv
<1>2. PICK k \in 1..runs[e] : Run(d) = <<e, k>> /\ (Running(e) => k # runs[e])
  BY <1>1
<1>3. e = d /\ k = runs[d]
  BY <1>2 DEF Run
<1> QED BY <1>2, <1>3

LEMMA TargetsAre ==
  ASSUME TypeInv, NEW d \in Deployments
  PROVE  Targets(d) \subseteq Databases
<1>1. roles[d] \in Seq(Databases)
  BY DEF TypeInv, DeploymentAssumption
<1> QED BY <1>1 DEF Targets

(* What a step of somebody else leaves of the committed contents.          *)
LEMMA OutsideShows ==
  ASSUME DeployInv, SerialInv', NEW x \in Databases, OperatorEnds(x) \/ Intrude(x) \/ ChangeModule(x)
  PROVE  /\ Formed(Committed) /\ Formed(Committed')
         /\ \E f \in {"table", "module", "row"} :
              \A y \in Databases, g \in Fields : ~(y = x /\ g = f) => Committed'[y][g] = Committed[y][g]
         /\ UNCHANGED <<roles, pc, runs, answer>>
<1>1. UNCHANGED <<roles, pc, runs, answer>>
  BY DEF OperatorEnds, Intrude, ChangeModule
<1>2. CASE OperatorEnds(x)
  <2>1. /\ Formed(Committed) /\ Formed(Committed')
        /\ \A y \in Databases, g \in Fields : ~(y = x /\ g = "row") => Committed'[y][g] = Committed[y][g]
    BY <1>2, OperatorEndsKeeps
  <2> QED BY <1>1, <2>1
<1>3. CASE Intrude(x)
  BY <1>1, <1>3, IntrudeKeeps
<1>4. CASE ChangeModule(x)
  BY <1>1, <1>4, ChangeModuleKeeps
<1> QED BY <1>2, <1>3, <1>4

(* A session at rest whose answer, run and receipts stay, stays decided.   *)
Receipts(d) == {x \in Targets(d) : Run(d) \in Committed[x].receipts}
DecidedFor(d) ==
  /\ answer[d] = "COMMITTED" => Receipts(d) = Targets(d)
  /\ answer[d] = "FAILED" => Receipts(d) = {}
  /\ answer[d] = "LOST" => Receipts(d) \in {{}, Targets(d)}

LEMMA ReceiptsAre == ReceiptsDecide <=> \A d \in Deployments : ~Running(d) => DecidedFor(d)
BY DEF ReceiptsDecide, DecidedFor, Receipts

LEMMA DecidedStays ==
  ASSUME TypeInv, NEW d \in Deployments, DecidedFor(d), answer'[d] = answer[d], runs'[d] = runs[d], roles' = roles,
         \A x \in Databases : Run(d) \in Committed'[x].receipts <=> Run(d) \in Committed[x].receipts
  PROVE  DecidedFor(d)'
<1>1. Targets(d)' = Targets(d) /\ Run(d)' = Run(d)
  BY DEF Targets, Run
<1>2. Receipts(d)' = Receipts(d)
  BY <1>1, TargetsAre DEF Receipts
<1> QED BY <1>1, <1>2 DEF DecidedFor

LEMMA ReceiptsNext ==
  ASSUME DeployInv, ReceiptsDecide, [Next]_vars
  PROVE  ReceiptsDecide'
<1>1. TypeInv /\ FormInv /\ SerialInv'
  BY SerialNext DEF DeployInv, SerialInv
<1>2. \A d \in Deployments : ~Running(d) => DecidedFor(d)
  BY ReceiptsAre
<1>3. SUFFICES ASSUME NEW e \in Deployments, ~Running(e)' PROVE DecidedFor(e)'
  BY ReceiptsAre DEF ReceiptsDecide, DecidedFor, Receipts
<1>4. ASSUME Unseen PROVE DecidedFor(e)'
  BY <1>1, <1>2, <1>3, <1>4, DecidedStays DEF Unseen
<1>5. ASSUME NEW d \in Deployments, d # e, (\E how : Ends(d, how))
      PROVE  ~Running(e) /\ answer'[e] = answer[e] /\ runs' = runs /\ roles' = roles
  BY <1>1, <1>3, <1>5 DEF Ends, Running, TypeInv, FormInv
<1>6. ASSUME NEW d \in Deployments, NEW how \in {"FAILED", "LOST"}, Rollback(d, how)
      PROVE  DecidedFor(e)'
  <2>1. Committed' = Committed /\ Running(d) /\ Ends(d, how)
    BY <1>1, <1>6, RollbackKeeps DEF Rollback
  <2>2. CASE e = d
    <3>1. Targets(d)' = Targets(d) /\ Run(d)' = Run(d) /\ answer'[d] = how
      BY <1>1, <2>1 DEF Ends, Targets, Run, FormInv
    <3>2. Receipts(d)' = {}
      BY <1>1, <2>1, <3>1, TargetsAre, RunIsNew DEF Receipts
    <3> QED BY <1>6, <2>2, <3>1, <3>2 DEF DecidedFor
  <2>3. CASE e # d
    BY <1>1, <1>2, <1>5, <2>1, <2>3, DecidedStays
  <2> QED BY <2>2, <2>3
<1>7. ASSUME NEW d \in Deployments, Commit(d) PROVE DecidedFor(e)'
  <2>1. PICK how \in {"COMMITTED", "LOST"} : Ends(d, how)
    BY <1>7 DEF Commit
  <2>2. /\ Committed' = content
        /\ \A x \in Databases \ Targets(d) : content[x] = Committed[x]
    BY <1>7, CommitShows
  <2>3. At(d, "commit")
    BY <1>7 DEF Commit
  <2>4. \A x \in Targets(d) : content[x].receipts = Committed[x].receipts \cup {Run(d)}
    BY <2>3, CommitInstalls
  <2>5. CASE e = d
    <3>1. Targets(d)' = Targets(d) /\ Run(d)' = Run(d) /\ answer'[d] = how
      BY <1>1, <2>1 DEF Ends, Targets, Run, FormInv
    <3>2. \A x \in Targets(d) : Run(d) \in Committed'[x].receipts
      BY <2>2, <2>4
    <3>3. Receipts(d)' = Targets(d)'
      BY <3>1, <3>2 DEF Receipts
    <3> QED BY <2>1, <2>5, <3>1, <3>3 DEF DecidedFor
  <2>6. CASE e # d
    <3>1. Run(e) # Run(d)
      BY <2>6 DEF Run
    <3>2. \A x \in Databases : Run(e) \in Committed'[x].receipts <=> Run(e) \in Committed[x].receipts
      BY <2>2, <2>4, <3>1
    <3> QED BY <1>1, <1>2, <1>5, <2>1, <2>6, <3>2, DecidedStays
  <2> QED BY <2>5, <2>6
<1>8. ASSUME NEW x \in Databases, OperatorEnds(x) \/ Intrude(x) \/ ChangeModule(x) PROVE DecidedFor(e)'
  <2>1. /\ UNCHANGED <<roles, pc, runs, answer>>
        /\ \A y \in Databases : Committed'[y].receipts = Committed[y].receipts
    BY <1>1, <1>8, OutsideShows DEF Fields
  <2>2. ~Running(e)
    BY <1>3, <2>1 DEF Running
  <2> QED BY <1>1, <1>2, <2>1, <2>2, DecidedStays
<1> QED BY <1>4, <1>6, <1>7, <1>8, DeployNext

(* A committed run has a receipt in every one of its databases, a failed   *)
(* run in none, a run whose answer was lost in all or in none: whatever    *)
(* was locked, created or killed meanwhile (the receipt and the archive    *)
(* are statements of the one transaction).                                 *)
THEOREM ReceiptsTheorem == Spec => []ReceiptsDecide
<1>1. Init => ReceiptsDecide
  <2> SUFFICES ASSUME Init PROVE ReceiptsDecide
    OBVIOUS
  <2>1. \A d \in Deployments : answer[d] = "none"
    BY DEF Init
  <2> QED BY <2>1 DEF ReceiptsDecide
<1>2. DeployInv /\ ReceiptsDecide /\ [Next]_vars => ReceiptsDecide'
  BY ReceiptsNext
<1> QED BY <1>1, <1>2, DeployInvariance, PTL DEF Spec

(* A step of somebody else is one the promise allows.                      *)
LEMMA OutsideIsAllowed ==
  ASSUME NEW x \in Databases, NEW f \in {"table", "module", "row"}, Formed(Committed), Formed(Committed'),
         \A y \in Databases, g \in Fields : ~(y = x /\ g = f) => Committed'[y][g] = Committed[y][g]
  PROVE  Promise!Outside(x)
<1>1. /\ DOMAIN Committed' = Databases
      /\ DOMAIN Committed[x] = Fields /\ DOMAIN Committed'[x] = Fields
  BY DEF Formed
<1>2. ASSUME NEW y \in Databases \ {x} PROVE Committed'[y] = Committed[y]
  BY <1>2 DEF Formed
<1>3. \A g \in DOMAIN Committed[x] \ {f} : Committed'[x][g] = Committed[x][g]
  BY <1>1
<1> QED BY <1>1, <1>2, <1>3 DEF Promise!Outside

LEMMA CommitDeploys ==
  ASSUME NoTwin, DeployInv, NEW d \in Deployments, Commit(d)
  PROVE  Promise!Next
<1>1. TypeInv /\ FormInv /\ At(d, "commit") /\ Running(d)
  BY DEF DeployInv, SerialInv, Commit, At
<1>2. /\ Committed' = content
      /\ \A x \in Databases \ Targets(d) : content[x] = Committed[x]
  BY CommitShows
<1>3. \A x \in Targets(d) : /\ content[x] = Promise!Installed(Committed[x], Run(d))
                            /\ Promise!Acceptable(Committed[x]) /\ Run(d) \notin Committed[x].receipts
  BY <1>1, CommitInstalls
<1>4. content = [x \in Databases |-> content[x]]
  BY <1>1 DEF FormInv, Formed
<1>5. Committed' = [x \in Databases |-> IF x \in Targets(d) THEN Promise!Installed(Committed[x], Run(d)) ELSE Committed[x]]
  BY <1>2, <1>3, <1>4
<1>6. Promise!Deploy(Targets(d), Run(d))
  BY <1>3, <1>5 DEF Promise!Deploy
<1>7. Targets(d) \in SUBSET Databases
  BY <1>1, TargetsAre
<1>8. Run(d) \in Deployments \X (1..MaxRuns)
  <2>1. runs[d] \in Nat /\ runs[d] > 0 /\ runs[d] <= MaxRuns
    BY <1>1 DEF FormInv
  <2> QED BY <2>1 DEF Run, DeploymentAssumption
<1> QED BY <1>6, <1>7, <1>8 DEF Promise!Next

LEMMA StepKeepsPromise ==
  ASSUME NoTwin, DeployInv, [Next]_vars
  PROVE  [Promise!Next]_Committed
<1>1. SerialInv'
  BY SerialNext DEF DeployInv
<1>2. ASSUME NEW d \in Deployments, NEW how, Rollback(d, how) PROVE Committed' = Committed
  BY <1>1, <1>2, RollbackKeeps
<1>3. ASSUME NEW x \in Databases, OperatorEnds(x) \/ Intrude(x) \/ ChangeModule(x) PROVE Promise!Next
  <2>1. Promise!Outside(x)
    BY <1>1, <1>3, OutsideShows, OutsideIsAllowed
  <2> QED BY <2>1 DEF Promise!Next
<1> QED BY <1>2, <1>3, CommitDeploys, DeployNext DEF Unseen

LEMMA InitKeepsPromise == Init => Promise!Init
<1> SUFFICES ASSUME Init PROVE Promise!Init
  OBVIOUS
<1>1. \A x \in Databases : content[x] \in Contents /\ content[x].receipts = {} /\ content[x].archive = {}
  BY ContentsAssumption DEF Init
<1>2. Formed(content) /\ \A d \in Deployments : undo[d] = {}
  BY DeployInit DEF DeployInv, FormInv, Init
<1>3. Committed = content
  BY <1>2, RestoredEmpty, CommittedIs
<1> QED BY <1>1, <1>3 DEF Promise!Init

(* Everybody else sees a run on all its databases at once or on none, from *)
(* contents it accepted, with its receipt and the rows it replaced         *)
(* (generate(): one transaction over both databases), as long as nobody    *)
(* else creates the product's tables meanwhile.                            *)
THEOREM AtomicTheorem ==
  ASSUME NoTwin
  PROVE  Spec => DeploymentsAreAtomic
<1>1. DeployInv /\ [Next]_vars => [Promise!Next]_Committed
  BY StepKeepsPromise
<1> QED BY <1>1, InitKeepsPromise, DeployInvariance, PTL DEF Spec, DeploymentsAreAtomic, Promise!Spec

(* The committed row of a table that is there, or the run's archive, keeps *)
(* what somebody else last wrote.                                          *)
LEMMA EditNext ==
  ASSUME NoTwin, DeployInv, NoEditLost, [Next]_vars
  PROVE  NoEditLost'
<1>1. SerialInv' /\ AbsentInv /\ TypeInv /\ FormInv
  BY SerialNext DEF DeployInv, SerialInv
<1>2. SUFFICES ASSUME NEW x \in Databases
               PROVE  latest'[x] = "none" \/ Committed'[x].row = latest'[x]
                        \/ \E kept \in Committed'[x].archive : kept[2] = latest'[x]
  BY DEF NoEditLost
<1>3. ASSUME Committed' = Committed, latest' = latest
      PROVE  latest'[x] = "none" \/ Committed'[x].row = latest'[x]
               \/ \E kept \in Committed'[x].archive : kept[2] = latest'[x]
  BY <1>3 DEF NoEditLost
<1>4. ASSUME NEW d \in Deployments, NEW how, Rollback(d, how) PROVE Committed' = Committed /\ latest' = latest
  BY <1>1, <1>4, RollbackKeeps DEF Rollback, Ends
<1>5. ASSUME NEW d \in Deployments, Commit(d)
      PROVE  latest'[x] = "none" \/ Committed'[x].row = latest'[x]
               \/ \E kept \in Committed'[x].archive : kept[2] = latest'[x]
  <2>1. latest' = latest /\ At(d, "commit")
    BY <1>5 DEF Commit, Ends
  <2>2. Committed' = content
    BY <1>5, CommitShows
  <2>3. CASE x \notin Targets(d)
    <3>1. Committed'[x] = Committed[x]
      BY <1>5, <2>2, <2>3, CommitShows
    <3> QED BY <2>1, <3>1 DEF NoEditLost
  <2>4. CASE x \in Targets(d)
    <3> DEFINE b == Committed[x]
    <3>1. content[x] = Promise!Installed(b, Run(d))
      BY <2>1, <2>4, CommitInstalls
    <3>2. b.table = "absent" => latest[x] = "none"
      BY <1>1 DEF AbsentInv
    <3>3. latest[x] = "none" \/ b.row = latest[x] \/ \E kept \in b.archive : kept[2] = latest[x]
      BY DEF NoEditLost
    <3> HIDE DEF b
    <3>4. content[x].archive = b.archive \cup (IF b.table = "absent" THEN {} ELSE {<<Run(d), b.row>>})
      BY <3>1 DEF Promise!Installed
    <3>5. <<Run(d), b.row>>[2] = b.row
      OBVIOUS
    <3> QED BY <2>1, <2>2, <3>2, <3>3, <3>4, <3>5
  <2> QED BY <2>3, <2>4
<1>6. ASSUME NEW z \in Databases, OperatorEnds(z)
      PROVE  latest'[x] = "none" \/ Committed'[x].row = latest'[x]
               \/ \E kept \in Committed'[x].archive : kept[2] = latest'[x]
  <2>1. CASE Committed' = Committed /\ latest' = latest
    BY <1>3, <2>1
  <2>2. CASE /\ latest' = [latest EXCEPT ![z] = Committed'[z].row]
             /\ \A y \in Databases, g \in Fields :
                  ~(y = z /\ g = "row") => Committed'[y][g] = Committed[y][g]
    <3>1. CASE x = z
      BY <1>1, <2>2, <3>1 DEF FormInv
    <3>2. CASE x # z
      <4>1. latest'[x] = latest[x] /\ Committed'[x].row = Committed[x].row /\ Committed'[x].archive = Committed[x].archive
        BY <1>1, <2>2, <3>2 DEF FormInv, Fields
      <4> QED BY <4>1 DEF NoEditLost
    <3> QED BY <3>1, <3>2
  <2> QED BY <1>1, <1>6, <2>1, <2>2, OperatorEndsKeeps
<1>7. ASSUME NEW z \in Databases, Intrude(z) \/ ChangeModule(z)
      PROVE  latest'[x] = "none" \/ Committed'[x].row = latest'[x]
               \/ \E kept \in Committed'[x].archive : kept[2] = latest'[x]
  <2>1. latest' = latest /\ Committed'[x].row = Committed[x].row /\ Committed'[x].archive = Committed[x].archive
    BY <1>1, <1>7, IntrudeKeeps, ChangeModuleKeeps DEF Fields
  <2> QED BY <2>1 DEF NoEditLost
<1> QED BY <1>3, <1>4, <1>5, <1>6, <1>7, DeployNext DEF Unseen

(* No deployment overwrites an edit it has not archived (TABLOCKX,         *)
(* HOLDLOCK from preflight to commit), under the same hypothesis.          *)
THEOREM EditTheorem ==
  ASSUME NoTwin
  PROVE  Spec => []NoEditLost
<1>1. Init => NoEditLost
  <2> SUFFICES ASSUME Init PROVE NoEditLost
    OBVIOUS
  <2>1. Formed(content) /\ \A d \in Deployments : undo[d] = {}
    BY DeployInit DEF DeployInv, FormInv, Init
  <2>2. Committed = content
    BY <2>1, RestoredEmpty, CommittedIs
  <2> QED BY <2>2 DEF NoEditLost, Init
<1>2. DeployInv /\ NoEditLost /\ [Next]_vars => NoEditLost'
  BY EditNext
<1> QED BY <1>1, <1>2, DeployInvariance, PTL DEF Spec
=============================================================================
