------------------------ MODULE RuleContextCacheProofs ------------------------
(***************************************************************************)
(* What holds of RuleContextCache for every tree, every number of          *)
(* processes, edits and runs, and every order of their steps.              *)
(***************************************************************************)
EXTENDS RuleContextCache, TLAPS, WellFoundedInduction, FiniteSetTheorems

(* Function-valued variables stay functions on Proc. *)
Shape ==
  /\ expect = [p \in Proc |-> expect[p]] /\ seen = [p \in Proc |-> seen[p]]
  /\ mid = [p \in Proc |-> mid[p]]
  /\ chain = [p \in Proc |-> chain[p]] /\ src = [p \in Proc |-> src[p]]

Inv == CacheTypeOK /\ Shape /\ WriterOwnsLock

USE DEF PcValues, histVars

LEMMA InitInv == Init => Inv
  BY DEF Init, Inv, CacheTypeOK, Shape, WriterOwnsLock, Inside

(* Steps of a process that leave the lock file and the with-block alone. *)
LEMMA ConcludeInv ==
  ASSUME Inv, NEW p \in Proc, NEW outcome, Conclude(p, outcome),
         pc[p] \notin {"dead"}, UNCHANGED <<lock, tmp, stage, runs, edits, op, cfg, seen, mid>>
  PROVE  Inv'
<1>1. CacheTypeOK'
  BY DEF Inv, CacheTypeOK, Conclude, ForgetPass
<1>2. Shape'
  BY DEF Inv, Shape, Conclude, ForgetPass
<1>3. WriterOwnsLock'
  BY DEF Inv, CacheTypeOK, WriterOwnsLock, Inside, Conclude, ForgetPass
<1> QED BY <1>1, <1>2, <1>3 DEF Inv

LEMMA BeginPassShape ==
  ASSUME Shape, NEW p \in Proc, NEW n, BeginPass(p, n)
  PROVE  chain' = [q \in Proc |-> chain'[q]] /\ src' = [q \in Proc |-> src'[q]]
  BY DEF Shape, BeginPass

(* A step of a pass that reads no directory and takes no fingerprint.      *)
Passing == {"chain", "index", "discover", "resolve"}

Advances(p) ==
  /\ pc[p] \in Passing /\ \E to \in Passing : pc' = [pc EXCEPT ![p] = to]
  /\ UNCHANGED <<tree, trees, edits, lock, disk, tmp, runs, op, cfg, stage, pass, chain, dir,
                 src, first, expect, seen, plan, mid, flux, stored>>

Searches(p) ==
  \/ (EndChain(p) \/ ReadText(p)) /\ ~Fail(p)
  \/ IndexFile(p) \/ ResolveExtra(p) \/ EndExtra(p) \/ ResolveReference(p) \/ EndText(p)

LEMMA SearchAdvances ==
  ASSUME CacheTypeOK, NEW p \in Proc, Searches(p)
  PROVE  Advances(p)
<1> USE DEF Advances, Passing, treeVars, fileVars
<1>1. ASSUME UNCHANGED pc PROVE pc' = [pc EXCEPT ![p] = pc[p]]
  BY <1>1 DEF CacheTypeOK
<1>2. CASE EndChain(p) /\ ~Fail(p)
  BY <1>2 DEF EndChain
<1>3. CASE IndexFile(p)
  BY <1>1, <1>3 DEF IndexFile
<1>4. CASE ResolveExtra(p)
  BY <1>1, <1>4 DEF ResolveExtra
<1>5. CASE EndExtra(p)
  BY <1>5 DEF EndExtra, passVars
<1>6. CASE ReadText(p) /\ ~Fail(p)
  BY <1>6 DEF ReadText
<1>7. CASE ResolveReference(p)
  BY <1>1, <1>7 DEF ResolveReference
<1>8. CASE EndText(p)
  BY <1>8 DEF EndText
<1> QED BY <1>2, <1>3, <1>4, <1>5, <1>6, <1>7, <1>8 DEF Searches

LEMMA NextInv == Inv /\ [Next]_vars => Inv'
<1> SUFFICES ASSUME Inv, [Next]_vars PROVE Inv'
  OBVIOUS
<1> USE DEF Inv
<1>1. CASE UNCHANGED vars
  BY <1>1 DEF vars, CacheTypeOK, Shape, WriterOwnsLock, Inside
<1>2. ASSUME NEW e \in EditSet, Edit(e[1], e[2]) PROVE Inv'
  BY <1>2 DEF Edit, fileVars, passVars, CacheTypeOK, Shape, WriterOwnsLock, Inside
<1>3. ASSUME NEW p \in Proc, NEW o \in {"check", "record", "adapter"}, NEW k \in Configs,
             Start(p, o, k)
      PROVE  Inv'
  <2>1. CacheTypeOK'
    BY <1>3 DEF Start, BeginPass, treeVars, fileVars, CacheTypeOK
  <2>2. Shape'
    BY <1>3, BeginPassShape DEF Start, Shape
  <2>3. WriterOwnsLock'
    BY <1>3 DEF Start, BeginPass, treeVars, fileVars, CacheTypeOK, WriterOwnsLock, Inside
  <2> QED BY <2>1, <2>2, <2>3
<1>4. ASSUME NEW p \in Proc, ReadDirectory(p) PROVE Inv'
  BY <1>4 DEF ReadDirectory, treeVars, fileVars, CacheTypeOK, Shape, WriterOwnsLock, Inside
<1>21. ASSUME NEW p \in Proc, Searches(p) PROVE Inv'
  <2>1. Advances(p)
    BY <1>21, SearchAdvances
  <2> QED BY <2>1 DEF Advances, Passing, CacheTypeOK, Shape, WriterOwnsLock, Inside
<1>5. ASSUME NEW p \in Proc, EndChain(p) PROVE Inv'
  <2>1. CASE Fail(p)
    BY <1>5, <2>1, ConcludeInv DEF EndChain, Fail, treeVars, fileVars
  <2>2. CASE ~Fail(p)
    BY <1>5, <1>21, <2>2 DEF Searches
  <2> QED BY <2>1, <2>2
<1>6. ASSUME NEW p \in Proc, ReadText(p) PROVE Inv'
  <2>1. CASE Fail(p)
    BY <1>6, <2>1, ConcludeInv DEF ReadText, Fail, treeVars, fileVars
  <2>2. CASE ~Fail(p)
    BY <1>6, <1>21, <2>2 DEF Searches
  <2> QED BY <2>1, <2>2
<1>7. ASSUME NEW p \in Proc, TakeFingerprint(p) PROVE Inv'
  <2>1. CASE Fail(p)
    BY <1>7, <2>1, ConcludeInv DEF TakeFingerprint, Fail, treeVars, fileVars
  <2>2. CASE ~Fail(p)
    BY <1>7, <2>2
    DEF TakeFingerprint, treeVars, fileVars, CacheTypeOK, Shape, WriterOwnsLock, Inside
  <2> QED BY <2>1, <2>2
<1>8. ASSUME NEW p \in Proc, SecondPass(p) PROVE Inv'
  <2>1. CacheTypeOK'
    BY <1>8 DEF SecondPass, BeginPass, treeVars, fileVars, CacheTypeOK
  <2>2. Shape'
    BY <1>8, BeginPassShape DEF SecondPass, Shape
  <2>3. WriterOwnsLock'
    BY <1>8 DEF SecondPass, PassDone, BeginPass, treeVars, fileVars, CacheTypeOK,
                WriterOwnsLock, Inside
  <2> QED BY <2>1, <2>2, <2>3
<1>9. ASSUME NEW p \in Proc, Check(p) PROVE Inv'
  <2>1. CacheTypeOK'
    BY <1>9 DEF Check, Conclude, ForgetPass, treeVars, fileVars, CacheTypeOK
  <2>2. Shape'
    BY <1>9 DEF Check, Conclude, ForgetPass, Shape
  <2>3. WriterOwnsLock'
    BY <1>9 DEF Check, CaptureDone, PassDone, Conclude, ForgetPass, treeVars, fileVars,
                CacheTypeOK, WriterOwnsLock, Inside
  <2> QED BY <2>1, <2>2, <2>3
<1>10. ASSUME NEW p \in Proc, InitialCapture(p) PROVE Inv'
  <2>1. CASE Acceptable(p)
    BY <1>10, <2>1 DEF InitialCapture, CaptureDone, PassDone, treeVars, fileVars, passVars,
                       CacheTypeOK, Shape, WriterOwnsLock, Inside
  <2>2. CASE ~Acceptable(p)
    BY <1>10, <2>2, ConcludeInv DEF InitialCapture, CaptureDone, PassDone, treeVars, fileVars
  <2> QED BY <2>1, <2>2
<1>11. ASSUME NEW p \in Proc, Acquire(p) PROVE Inv'
  <2>1. CacheTypeOK'
    BY <1>11 DEF Acquire, BeginPass, treeVars, CacheTypeOK
  <2>2. Shape'
    BY <1>11, BeginPassShape DEF Acquire, Shape
  <2>3. WriterOwnsLock'
    BY <1>11, NoProcAssumption
    DEF Acquire, BeginPass, treeVars, CacheTypeOK, WriterOwnsLock, Inside
  <2> QED BY <2>1, <2>2, <2>3
<1>12. ASSUME NEW p \in Proc, LockTimeout(p) PROVE Inv'
  BY <1>12, ConcludeInv DEF LockTimeout, Fail, treeVars, fileVars
<1>13. ASSUME NEW p \in Proc, LockedCapture(p) PROVE Inv'
  <2>1. CASE Acceptable(p)
    BY <1>13, <2>1 DEF LockedCapture, CaptureDone, PassDone, treeVars, fileVars, passVars,
                       CacheTypeOK, Shape, WriterOwnsLock, Inside
  <2>2. CASE ~Acceptable(p)
    BY <1>13, <2>2, ConcludeInv DEF LockedCapture, CaptureDone, PassDone, treeVars, fileVars
  <2> QED BY <2>1, <2>2
<1>14. ASSUME NEW p \in Proc, WriteTemporary(p) PROVE Inv'
  <2>1. CacheTypeOK'
    BY <1>14 DEF WriteTemporary, Fail, Conclude, ForgetPass, treeVars, CacheTypeOK
  <2>2. Shape'
    BY <1>14 DEF WriteTemporary, Fail, Conclude, ForgetPass, passVars, Shape
  <2>3. WriterOwnsLock'
    BY <1>14 DEF WriteTemporary, Fail, Conclude, ForgetPass, treeVars, CacheTypeOK,
                 WriterOwnsLock, Inside
  <2> QED BY <2>1, <2>2, <2>3
<1>15. ASSUME NEW p \in Proc, ReplaceRecord(p) PROVE Inv'
  <2>1. CacheTypeOK'
    BY <1>15 DEF ReplaceRecord, Conclude, ForgetPass, treeVars, CacheTypeOK
  <2>2. Shape'
    BY <1>15 DEF ReplaceRecord, Conclude, ForgetPass, Shape
  <2>3. WriterOwnsLock'
    BY <1>15 DEF ReplaceRecord, Conclude, ForgetPass, treeVars, CacheTypeOK,
                 WriterOwnsLock, Inside
  <2> QED BY <2>1, <2>2, <2>3
<1>16. ASSUME NEW p \in Proc, Unlock(p) PROVE Inv'
  BY <1>16 DEF Unlock, treeVars, passVars, CacheTypeOK, Shape, WriterOwnsLock, Inside
<1>17. ASSUME NEW p \in Proc, Crash(p) PROVE Inv'
  <2>1. CacheTypeOK'
    BY <1>17 DEF Crash, ForgetPass, treeVars, fileVars, CacheTypeOK
  <2>2. Shape'
    BY <1>17 DEF Crash, ForgetPass, Shape
  <2>3. WriterOwnsLock'
    BY <1>17 DEF Crash, ForgetPass, treeVars, fileVars, CacheTypeOK, WriterOwnsLock, Inside
  <2> QED BY <2>1, <2>2, <2>3
<1>18. ASSUME NEW p \in Proc, Respawn(p) PROVE Inv'
  BY <1>18 DEF Respawn, treeVars, fileVars, passVars, CacheTypeOK, Shape, WriterOwnsLock, Inside
<1>19. CASE RemoveLock
  BY <1>19 DEF RemoveLock, treeVars, passVars, CacheTypeOK, Shape, WriterOwnsLock, Inside
<1>20. ASSUME NEW k \in Damages, Damage(k) PROVE Inv'
  BY <1>20 DEF Damage, treeVars, passVars, CacheTypeOK, Shape, WriterOwnsLock, Inside
<1> QED
  BY <1>1, <1>2, <1>3, <1>4, <1>5, <1>6, <1>7, <1>8, <1>9, <1>10, <1>11, <1>12, <1>13,
     <1>14, <1>15, <1>16, <1>17, <1>18, <1>19, <1>20, <1>21
  DEF Next, Step, Searches

LEMMA SpecInv == Spec => []Inv
  BY InitInv, NextInv, PTL DEF Spec

(***************************************************************************)
(* Whatever crashes and whoever removes the lock of a dead process, a live *)
(* process inside the with-block of _ExclusiveLock owns the lock file.     *)
(***************************************************************************)
THEOREM LockedWriters == Spec => []WriterOwnsLock
<1>1. Inv => WriterOwnsLock
  BY DEF Inv
<1> QED BY <1>1, SpecInv, PTL

-----------------------------------------------------------------------------

(* Until it has its outcome, an operation of the adapter expects what its  *)
(* caller analysed; a writer's snapshot is the expected one.               *)
Live == Passing \union {"lock", "write", "replace"}
Expected ==
  \A p \in Proc :
    /\ op[p] = "adapter" /\ pc[p] \in Live => expect[p] = seen[p]
    /\ pc[p] \in {"write", "replace"} => Captured(p) = expect[p]

(* A second pass, and what follows it. *)
Repeated(p) == pc[p] \in {"write", "replace"} \/ (pc[p] \in Passing /\ pass[p] = 2)

(* Edits are numbered; the capture under the lock is repeated after the    *)
(* record that is on disk was captured.                                    *)
Ordered ==
  /\ stored.at \in Int /\ stored.at <= edits
  /\ \A p \in Proc : mid[p].at \in Nat /\ mid[p].at <= edits
  /\ \A p \in Proc : Inside(p) /\ Repeated(p) => stored.at <= mid[p].at

OrderInv == Inv /\ Expected /\ Ordered

USE DEF Live, Repeated, Captured, Passing
LEMMA ConcludeExpected ==
  ASSUME OrderInv, NEW p \in Proc, NEW outcome, Conclude(p, outcome), UNCHANGED <<op, cfg>>,
         \A q \in Proc \ {p} : seen'[q] = seen[q]
  PROVE  Expected'
  BY DEF OrderInv, Inv, CacheTypeOK, Shape, Expected, Conclude, ForgetPass

LEMMA ConcludeOrdered ==
  ASSUME OrderInv, NEW p \in Proc, NEW outcome, Conclude(p, outcome),
         UNCHANGED <<stage, edits, mid, stored>>
  PROVE  Ordered'
  BY DEF OrderInv, Inv, CacheTypeOK, Ordered, Inside, Conclude, ForgetPass

LEMMA NextOrderInv == OrderInv /\ [Next]_vars => OrderInv'
<1> SUFFICES ASSUME OrderInv, [Next]_vars PROVE Expected' /\ Ordered'
  BY NextInv DEF OrderInv
<1> USE DEF OrderInv, Inv
<1>1. CASE UNCHANGED vars
  BY <1>1 DEF vars, Expected, Ordered, Inside
<1>2. ASSUME NEW e \in EditSet, Edit(e[1], e[2]) PROVE Expected' /\ Ordered'
  BY <1>2 DEF Edit, fileVars, passVars, CacheTypeOK, Expected, Ordered, Inside
<1>3. ASSUME NEW p \in Proc, NEW o \in {"check", "record", "adapter"}, NEW k \in Configs,
             Start(p, o, k)
      PROVE  Expected' /\ Ordered'
  BY <1>3 DEF Start, BeginPass, treeVars, fileVars, CacheTypeOK, Shape, Expected, Ordered, Inside
<1>4. ASSUME NEW p \in Proc, ReadDirectory(p) PROVE Expected' /\ Ordered'
  BY <1>4 DEF ReadDirectory, treeVars, fileVars, CacheTypeOK, Shape, Expected, Ordered, Inside
<1>21. ASSUME NEW p \in Proc, Searches(p) PROVE Expected' /\ Ordered'
  <2>1. Advances(p)
    BY <1>21, SearchAdvances
  <2>2. PICK to \in Passing : pc' = [pc EXCEPT ![p] = to]
    BY <2>1 DEF Advances
  <2> QED BY <2>1, <2>2 DEF Advances, CacheTypeOK, Shape, Expected, Ordered, Inside
<1>5. ASSUME NEW p \in Proc, EndChain(p) PROVE Expected' /\ Ordered'
  <2>1. CASE Fail(p)
    BY <1>5, <2>1, ConcludeExpected, ConcludeOrdered DEF EndChain, Fail, treeVars
  <2>2. CASE ~Fail(p)
    BY <1>5, <1>21, <2>2 DEF Searches
  <2> QED BY <2>1, <2>2
<1>6. ASSUME NEW p \in Proc, ReadText(p) PROVE Expected' /\ Ordered'
  <2>1. CASE Fail(p)
    BY <1>6, <2>1, ConcludeExpected, ConcludeOrdered DEF ReadText, Fail, treeVars
  <2>2. CASE ~Fail(p)
    BY <1>6, <1>21, <2>2 DEF Searches
  <2> QED BY <2>1, <2>2
<1>7. ASSUME NEW p \in Proc, TakeFingerprint(p) PROVE Expected' /\ Ordered'
  <2>1. CASE Fail(p)
    BY <1>7, <2>1, ConcludeExpected, ConcludeOrdered DEF TakeFingerprint, Fail, treeVars
  <2>2. CASE ~Fail(p)
    <3>1. /\ src' = [src EXCEPT ![p] = src'[p]] /\ pc[p] = "discover"
          /\ UNCHANGED <<pc, op, cfg, stage, pass, chain, expect, seen, mid, stored, edits>>
      BY <1>7, <2>2 DEF TakeFingerprint, treeVars, Shape
    <3> QED BY <3>1 DEF CacheTypeOK, Shape, Expected, Ordered, Inside
  <2> QED BY <2>1, <2>2
<1>8. ASSUME NEW p \in Proc, SecondPass(p) PROVE Expected' /\ Ordered'
  <2>1. Expected'
    BY <1>8 DEF SecondPass, PassDone, BeginPass, treeVars, CacheTypeOK, Shape, Expected
  <2>2. Ordered'
    BY <1>8 DEF SecondPass, BeginPass, treeVars, CacheTypeOK, Shape, Ordered, Inside
  <2> QED BY <2>1, <2>2
<1>9. ASSUME NEW p \in Proc, Check(p) PROVE Expected' /\ Ordered'
  <2>1. \E outcome : Conclude(p, outcome)
    BY <1>9 DEF Check
  <2> QED BY <1>9, <2>1, ConcludeExpected, ConcludeOrdered DEF Check, treeVars, Shape
<1>10. ASSUME NEW p \in Proc, InitialCapture(p) PROVE Expected' /\ Ordered'
  <2>1. CASE Acceptable(p)
    <3>1. op[p] = "adapter" => Captured(p) = expect[p]
      BY <2>1 DEF Acceptable
    <3>2. expect' = [expect EXCEPT ![p] = Captured(p)] /\ pc' = [pc EXCEPT ![p] = "lock"]
          /\ UNCHANGED <<op, cfg, chain, src, seen, stage, pass, mid, stored, edits>>
      BY <1>10, <2>1 DEF InitialCapture, treeVars, passVars
    <3>3. pc[p] \in Live
      BY <1>10 DEF InitialCapture, CaptureDone, PassDone
    <3>4. Expected'
      BY <3>1, <3>2, <3>3 DEF CacheTypeOK, Shape, Expected
    <3>5. Ordered'
      BY <3>2 DEF CacheTypeOK, Ordered, Inside
    <3> QED BY <3>4, <3>5
  <2>2. CASE ~Acceptable(p)
    BY <1>10, <2>2, ConcludeExpected, ConcludeOrdered DEF InitialCapture, treeVars
  <2> QED BY <2>1, <2>2
<1>11. ASSUME NEW p \in Proc, Acquire(p) PROVE Expected' /\ Ordered'
  BY <1>11 DEF Acquire, BeginPass, treeVars, CacheTypeOK, Shape, Expected, Ordered, Inside
<1>12. ASSUME NEW p \in Proc, LockTimeout(p) PROVE Expected' /\ Ordered'
  BY <1>12, ConcludeExpected, ConcludeOrdered DEF LockTimeout, Fail, treeVars
<1>13. ASSUME NEW p \in Proc, LockedCapture(p) PROVE Expected' /\ Ordered'
  <2>1. CASE Acceptable(p)
    <3>1. Captured(p) = expect[p] /\ pass[p] = 2
      BY <1>13, <2>1 DEF LockedCapture, Acceptable, CaptureDone, CaptureReasons, CacheTypeOK
    <3>2. pc' = [pc EXCEPT ![p] = "write"] /\ pc[p] = "discover"
          /\ UNCHANGED <<op, cfg, chain, src, seen, expect, stage, pass, mid, stored, edits>>
      BY <1>13, <2>1 DEF LockedCapture, CaptureDone, PassDone, treeVars, passVars
    <3>3. Expected'
      BY <3>1, <3>2 DEF CacheTypeOK, Shape, Expected
    <3>4. Ordered'
      BY <3>1, <3>2 DEF CacheTypeOK, Ordered, Inside
    <3> QED BY <3>3, <3>4
  <2>2. CASE ~Acceptable(p)
    BY <1>13, <2>2, ConcludeExpected, ConcludeOrdered DEF LockedCapture, treeVars
  <2> QED BY <2>1, <2>2
<1>14. ASSUME NEW p \in Proc, WriteTemporary(p) PROVE Expected' /\ Ordered'
  <2>1. CASE tmp[p]
    BY <1>14, <2>1, ConcludeExpected, ConcludeOrdered DEF WriteTemporary, Fail, treeVars
  <2>2. CASE ~tmp[p]
    BY <1>14, <2>2
    DEF WriteTemporary, treeVars, passVars, CacheTypeOK, Shape, Expected, Ordered, Inside
  <2> QED BY <2>1, <2>2
<1>15. ASSUME NEW p \in Proc, ReplaceRecord(p) PROVE Expected' /\ Ordered'
  <2>1. \E outcome : Conclude(p, outcome)
    BY <1>15 DEF ReplaceRecord
  <2>2. Expected'
    BY <1>15, <2>1, ConcludeExpected DEF ReplaceRecord
  <2>3. pc[p] = "replace" /\ stage[p] = "locked" /\ lock = p /\ stored'.at = mid[p].at
        /\ UNCHANGED <<lock, stage, mid, edits>>
    BY <1>15 DEF ReplaceRecord, treeVars, WriterOwnsLock, Inside
  <2>4. pc' = [pc EXCEPT ![p] = "unlock"] /\ pass' = [pass EXCEPT ![p] = 1]
    BY <1>15, <2>3 DEF ReplaceRecord, Conclude, ForgetPass
  <2>5. mid[p].at <= edits
    BY <2>3 DEF Ordered
  <2>6. \A q \in Proc : Inside(q) => q = p
    BY <2>3 DEF WriterOwnsLock
  <2> QED BY <2>2, <2>3, <2>4, <2>5, <2>6 DEF CacheTypeOK, Ordered, Inside
<1>16. ASSUME NEW p \in Proc, Unlock(p) PROVE Expected' /\ Ordered'
  BY <1>16 DEF Unlock, treeVars, passVars, CacheTypeOK, Shape, Expected, Ordered, Inside
<1>17. ASSUME NEW p \in Proc, Crash(p) PROVE Expected' /\ Ordered'
  BY <1>17 DEF Crash, ForgetPass, treeVars, CacheTypeOK, Shape, Expected, Ordered, Inside
<1>18. ASSUME NEW p \in Proc, Respawn(p) PROVE Expected' /\ Ordered'
  BY <1>18 DEF Respawn, treeVars, passVars, CacheTypeOK, Shape, Expected, Ordered, Inside
<1>19. CASE RemoveLock
  BY <1>19 DEF RemoveLock, treeVars, passVars, CacheTypeOK, Shape, Expected, Ordered, Inside
<1>20. ASSUME NEW k \in Damages, Damage(k) PROVE Expected' /\ Ordered'
  BY <1>20 DEF Damage, treeVars, passVars, CacheTypeOK, Shape, Expected, Ordered, Inside
<1> QED
  BY <1>1, <1>2, <1>3, <1>4, <1>5, <1>6, <1>7, <1>8, <1>9, <1>10, <1>11, <1>12, <1>13,
     <1>14, <1>15, <1>16, <1>17, <1>18, <1>19, <1>20, <1>21
  DEF Next, Step, Searches

LEMMA SpecOrderInv == Spec => []OrderInv
<1>1. Init => OrderInv
  BY InitInv DEF Init, OrderInv, Expected, Ordered, Inside
<1> QED BY <1>1, NextOrderInv, PTL DEF Spec

(***************************************************************************)
(* What the project adapter records is the snapshot its caller analysed.   *)
(***************************************************************************)
THEOREM AdapterTheorem == Spec => AdapterRecordsAnalysed
<1>1. ASSUME OrderInv, NEW p \in Proc, ReplaceRecord(p), op[p] = "adapter"
      PROVE  disk'.rec = seen[p]
  BY <1>1 DEF OrderInv, Expected, ReplaceRecord
<1>2. OrderInv =>
      [\A p \in Proc : ReplaceRecord(p) /\ op[p] = "adapter" => disk'.rec = seen[p]]_vars
  BY <1>1
<1> QED BY <1>2, SpecOrderInv, PTL DEF AdapterRecordsAnalysed

(***************************************************************************)
(* No record is replaced by one of an older tree.                          *)
(***************************************************************************)
THEOREM RegressTheorem == Spec => RecordNeverRegresses
<1>1. ASSUME NEW p \in Proc, OrderInv, ReplaceRecord(p) PROVE stored'.at >= stored.at
  <2>1. pc[p] = "replace" /\ stored'.at = mid[p].at /\ Inside(p)
    BY <1>1 DEF ReplaceRecord, OrderInv, Inv, WriterOwnsLock
  <2> QED BY <2>1, <1>1 DEF OrderInv, Ordered
<1>2. ASSUME NEW p \in Proc, Step(p) \/ Crash(p) \/ Respawn(p), ~ReplaceRecord(p)
      PROVE  stored' = stored
  <2>1. CASE \/ ReadDirectory(p) \/ EndChain(p) \/ IndexFile(p) \/ ResolveExtra(p) \/ EndExtra(p)
    BY <2>1 DEF ReadDirectory, EndChain, IndexFile, ResolveExtra, EndExtra
  <2>2. CASE \/ ReadText(p) \/ ResolveReference(p) \/ EndText(p) \/ TakeFingerprint(p)
             \/ SecondPass(p)
    BY <2>2 DEF ReadText, ResolveReference, EndText, TakeFingerprint, SecondPass
  <2>3. CASE \/ Check(p) \/ InitialCapture(p) \/ Acquire(p) \/ LockTimeout(p) \/ LockedCapture(p)
    BY <2>3 DEF Check, InitialCapture, Acquire, LockTimeout, LockedCapture
  <2>4. CASE WriteTemporary(p) \/ Unlock(p) \/ Crash(p) \/ Respawn(p)
    BY <2>4 DEF WriteTemporary, Unlock, Crash, Respawn
  <2> QED BY <1>2, <2>1, <2>2, <2>3, <2>4 DEF Step
<1>4. ASSUME [Next]_vars, stored' # stored PROVE \E p \in Proc : ReplaceRecord(p)
  BY <1>2, <1>4 DEF Next, vars, Edit, Start, RemoveLock, Damage
<1>3. OrderInv /\ [Next]_vars => [stored' # stored => stored'.at >= stored.at]_vars
  BY <1>1, <1>4
<1> QED BY <1>3, SpecOrderInv, PTL DEF RecordNeverRegresses, Spec

-----------------------------------------------------------------------------
(***************************************************************************)
(* From here on: the record on disk is the record of one whole tree.       *)
(*                                                                         *)
(* What the first pass read and is still so when the second pass begins    *)
(* was so all the time between, in the tree in the middle: no path gets    *)
(* back a content it had (NeverBack).  A second pass that finds the same   *)
(* chain, references and fingerprints has therefore read, file by file,    *)
(* the tree in the middle, whatever was edited around it.  The first       *)
(* lemmas say what the operators of RuleRecords return: the chain of an    *)
(* instruction directory, the files reached by references.                 *)
(***************************************************************************)
HIDE DEF PcValues, Live, Repeated, Captured, Passing

(* Counting up from 0: a set that holds 0 and the successor of what it     *)
(* holds below N reaches N.                                                *)
LEMMA Upward ==
  ASSUME NEW N \in Nat, NEW S, 0 \in S, \A n \in 0..N : n # N /\ n \in S => n + 1 \in S
  PROVE  0..N \subseteq S
<1> DEFINE W == (0..N) \ S
<1> SUFFICES ASSUME W # {} PROVE FALSE
  OBVIOUS
<1>1. W \subseteq Nat
  OBVIOUS
<1>2. PICK x \in W : \A y \in W : ~(<<y, x>> \in OpToRel(<, Nat))
  BY <1>1, NatLessThanWellFounded, WFMin
<1>3. \A y \in W : ~(y < x)
  BY <1>1, <1>2 DEF OpToRel
<1>4. x # 0 /\ x - 1 \in 0..N /\ x - 1 # N
  OBVIOUS
<1>5. x - 1 \in S
  BY <1>3, <1>4
<1> QED BY <1>4, <1>5

LEMMA SeqSetBasics ==
  ASSUME NEW P, NEW s \in Seq(P)
  PROVE  /\ SeqSet(s) \subseteq P /\ s \in Seq(SeqSet(s))
         /\ \A x : SeqSet(Append(s, x)) = SeqSet(s) \union {x}
         /\ s # <<>> => /\ SeqSet(s) = {Head(s)} \union SeqSet(Tail(s))
                        /\ Head(s) \in P /\ Tail(s) \in Seq(P)
<1>1. SeqSet(s) \subseteq P /\ s \in Seq(SeqSet(s))
  BY DEF SeqSet
<1>2. ASSUME NEW x PROVE SeqSet(Append(s, x)) = SeqSet(s) \union {x}
  <2>1. DOMAIN Append(s, x) = (DOMAIN s) \union {Len(s) + 1}
    OBVIOUS
  <2>2. \A i \in DOMAIN s : Append(s, x)[i] = s[i]
    OBVIOUS
  <2>3. Append(s, x)[Len(s) + 1] = x
    OBVIOUS
  <2> QED BY <2>1, <2>2, <2>3, Zenon DEF SeqSet
<1>3. ASSUME s # <<>> PROVE SeqSet(s) = {Head(s)} \union SeqSet(Tail(s))
  <2>1. \A i \in DOMAIN s : i # 1 => i - 1 \in DOMAIN Tail(s) /\ s[i] = Tail(s)[i - 1]
    OBVIOUS
  <2>2. \A i \in DOMAIN Tail(s) : i + 1 \in DOMAIN s /\ Tail(s)[i] = s[i + 1]
    OBVIOUS
  <2>3. 1 \in DOMAIN s /\ Head(s) = s[1]
    BY <1>3
  <2>4. \A y \in SeqSet(s) : y = Head(s) \/ y \in SeqSet(Tail(s))
    BY <2>1, <2>3, Zenon DEF SeqSet
  <2>5. \A y \in SeqSet(Tail(s)) : y \in SeqSet(s)
    BY <2>2, Zenon DEF SeqSet
  <2>6. Head(s) \in SeqSet(s)
    BY <2>3, Zenon DEF SeqSet
  <2> QED BY <2>4, <2>5, <2>6
<1> QED BY <1>1, <1>2, <1>3

LEMMA SeqSetConcat ==
  ASSUME NEW P, NEW s \in Seq(P), NEW t \in Seq(P)
  PROVE  SeqSet(s \o t) = SeqSet(s) \union SeqSet(t)
<1>1. \A i \in DOMAIN s : i \in DOMAIN (s \o t) /\ (s \o t)[i] = s[i]
  OBVIOUS
<1>2. \A i \in DOMAIN t : i + Len(s) \in DOMAIN (s \o t) /\ (s \o t)[i + Len(s)] = t[i]
  OBVIOUS
<1>3. \A i \in DOMAIN (s \o t) :
        i \in DOMAIN s \/ (i - Len(s) \in DOMAIN t /\ (s \o t)[i] = t[i - Len(s)])
  OBVIOUS
<1>4. \A y \in SeqSet(s \o t) : y \in SeqSet(s) \/ y \in SeqSet(t)
  BY <1>1, <1>3, Zenon DEF SeqSet
<1>5. \A y \in SeqSet(s) : y \in SeqSet(s \o t)
  BY <1>1, Zenon DEF SeqSet
<1>6. \A y \in SeqSet(t) : y \in SeqSet(s \o t)
  BY <1>2, Zenon DEF SeqSet
<1> QED BY <1>4, <1>5, <1>6

-----------------------------------------------------------------------------
LEMMA LeastOf ==
  ASSUME NEW S \in SUBSET Nat, S # {}
  PROVE  \E m \in S : \A j \in S : m <= j
<1>1. PICK x \in S : \A y \in S : ~(<<y, x>> \in OpToRel(<, Nat))
  BY NatLessThanWellFounded, WFMin
<1>2. \A y \in S : ~(y < x)
  BY <1>1 DEF OpToRel
<1>3. \A y \in S : x <= y
  BY <1>2
<1> QED BY <1>3

(* s is what a directory with these names contributes to the chain of M. *)
Picks(M, names, s) ==
  \/ /\ s = <<>>
     /\ \A i \in DOMAIN names : names[i] \in Outside \/ ~NonEmpty(M[names[i]])
  \/ \E i \in DOMAIN names :
       /\ s = <<names[i]>> /\ names[i] \notin Outside /\ NonEmpty(M[names[i]])
       /\ \A j \in DOMAIN names : j < i => names[j] \in Outside \/ ~NonEmpty(M[names[j]])

LEMMA FirstPicks ==
  ASSUME NEW M, NEW names \in Seq(Paths)
  PROVE  Picks(M, names, FirstInstruction(M, names))
<1> DEFINE usable == {i \in DOMAIN names : names[i] \notin Outside /\ NonEmpty(M[names[i]])}
           least == CHOOSE i \in usable : \A j \in usable : i <= j
<1>1. CASE usable = {}
  BY <1>1 DEF FirstInstruction, Picks
<1>2. CASE usable # {}
  <2>1. usable \in SUBSET Nat
    OBVIOUS
  <2>2. \E i \in usable : \A j \in usable : i <= j
    <3> HIDE DEF usable
    <3> QED BY <1>2, <2>1, LeastOf
  <2>3. least \in usable /\ \A j \in usable : least <= j
    <3> HIDE DEF usable
    <3> QED BY <2>2
  <2>4. FirstInstruction(M, names) = <<names[least]>>
    BY <1>2 DEF FirstInstruction
  <2> HIDE DEF least
  <2>5. \A j \in DOMAIN names : j < least => j \notin usable
    BY <2>1, <2>3
  <2> QED BY <2>3, <2>4, <2>5 DEF Picks
<1> QED BY <1>1, <1>2

LEMMA PicksUnique ==
  ASSUME NEW M, NEW names \in Seq(Paths), NEW s, NEW t, Picks(M, names, s), Picks(M, names, t)
  PROVE  s = t
<1>1. CASE s = <<>> /\ \A i \in DOMAIN names : names[i] \in Outside \/ ~NonEmpty(M[names[i]])
  BY <1>1 DEF Picks
<1>2. CASE \E i \in DOMAIN names :
       /\ s = <<names[i]>> /\ names[i] \notin Outside /\ NonEmpty(M[names[i]])
       /\ \A j \in DOMAIN names : j < i => names[j] \in Outside \/ ~NonEmpty(M[names[j]])
  <2>1. PICK i \in DOMAIN names :
       /\ s = <<names[i]>> /\ names[i] \notin Outside /\ NonEmpty(M[names[i]])
       /\ \A j \in DOMAIN names : j < i => names[j] \in Outside \/ ~NonEmpty(M[names[j]])
    BY <1>2
  <2>2. PICK j \in DOMAIN names :
       /\ t = <<names[j]>> /\ names[j] \notin Outside /\ NonEmpty(M[names[j]])
       /\ \A l \in DOMAIN names : l < j => names[l] \in Outside \/ ~NonEmpty(M[names[l]])
    BY <2>1 DEF Picks
  <2>3. ~(i < j) /\ ~(j < i)
    BY <2>1, <2>2
  <2>4. i = j
    BY <2>3
  <2> QED BY <2>1, <2>2, <2>4
<1> QED BY <1>1, <1>2 DEF Picks

(* Names of a directory that a chain passed over, finding no file. *)
Skipped(c, names) ==
  {q \in SeqSet(names) : \E i \in DOMAIN names :
     /\ names[i] = q /\ q \notin Outside
     /\ \A j \in 1..i : names[j] \notin SeqSet(c)}

(* What one directory contributes. *)
OneOf(s, names) ==
  s = <<>> \/ \E q \in SeqSet(names) : q \notin Outside /\ s = <<q>>

LEMMA PicksOne ==
  ASSUME NEW M, NEW names \in Seq(Paths), NEW s, Picks(M, names, s)
  PROVE  OneOf(s, names) /\ s \in Seq(Paths)
<1>1. \A i \in DOMAIN names : names[i] \in SeqSet(names) /\ <<names[i]>> \in Seq(Paths)
  BY DEF SeqSet
<1>2. CASE s = <<>>
  BY <1>2 DEF OneOf
<1>3. ASSUME NEW i \in DOMAIN names, s = <<names[i]>>, names[i] \notin Outside
      PROVE  OneOf(s, names) /\ s \in Seq(Paths)
  BY <1>1, <1>3 DEF OneOf
<1> QED BY <1>2, <1>3 DEF Picks

(* A name passed over has no text. *)
LEMMA SkippedEmpty ==
  ASSUME NEW M, NEW names \in Seq(Paths), NEW c \in Seq(Paths), NEW s, Picks(M, names, s),
         SeqSet(s) \subseteq SeqSet(c), NEW q \in Skipped(c, names)
  PROVE  ~NonEmpty(M[q])
<1>1. PICK i \in DOMAIN names :
        names[i] = q /\ q \notin Outside /\ \A j \in 1..i : names[j] \notin SeqSet(c)
  BY DEF Skipped
<1>2. CASE \A l \in DOMAIN names : names[l] \in Outside \/ ~NonEmpty(M[names[l]])
  BY <1>1, <1>2
<1>3. ASSUME NEW l \in DOMAIN names, s = <<names[l]>>, names[l] \notin Outside,
             \A j \in DOMAIN names : j < l => names[j] \in Outside \/ ~NonEmpty(M[names[j]])
      PROVE  ~NonEmpty(M[q])
  <2>1. names[l] \in SeqSet(s)
    BY <1>3 DEF SeqSet
  <2>2. ~(l \in 1..i)
    BY <1>1, <2>1
  <2>3. i < l
    BY <2>2
  <2> QED BY <1>1, <1>3, <2>3
<1> QED BY <1>2, <1>3 DEF Picks

(* The converse: who passed over nothing with text contributes what M has. *)
LEMMA SkippedPicks ==
  ASSUME NEW M, NEW names \in Seq(Paths), NEW c \in Seq(Paths), NEW s \in Seq(Paths),
         OneOf(s, names), SeqSet(c) \intersect SeqSet(names) = SeqSet(s),
         \A q \in SeqSet(s) : NonEmpty(M[q]),
         \A q \in Skipped(c, names) : ~NonEmpty(M[q])
  PROVE  Picks(M, names, s)
<1>1. \A i \in DOMAIN names : names[i] \in SeqSet(names)
  BY DEF SeqSet
<1>2. CASE s = <<>>
  <2>1. SeqSet(s) = {}
    BY <1>2 DEF SeqSet
  <2>2. \A j \in DOMAIN names : names[j] \notin SeqSet(c)
    BY <1>1, <2>1
  <2>3. \A i \in DOMAIN names : names[i] \notin Outside => names[i] \in Skipped(c, names)
    BY <1>1, <2>2 DEF Skipped
  <2> QED BY <1>2, <2>3 DEF Picks
<1>3. ASSUME NEW q \in SeqSet(names), q \notin Outside, s = <<q>> PROVE Picks(M, names, s)
  <2> DEFINE U == {i \in DOMAIN names : names[i] = q}
  <2>1. U \in SUBSET Nat /\ U # {}
    BY DEF SeqSet
  <2>2. PICK i \in U : \A j \in U : i <= j
    <3> HIDE DEF U
    <3> QED BY <2>1, LeastOf
  <2>3. SeqSet(s) = {q}
    BY <1>3 DEF SeqSet
  <2>4. \A j \in DOMAIN names : j < i => names[j] \notin SeqSet(c)
    BY <1>1, <2>2, <2>3
  <2>5. ASSUME NEW j \in DOMAIN names, j < i, names[j] \notin Outside
        PROVE  names[j] \in Skipped(c, names)
    <3>1. \A l \in 1..j : l \in DOMAIN names /\ l < i
      BY <2>5
    <3> QED BY <1>1, <2>4, <2>5, <3>1 DEF Skipped
  <2> QED BY <1>3, <2>2, <2>3, <2>5 DEF Picks
<1> QED BY <1>2, <1>3 DEF OneOf

LEMMA SkippedGrows ==
  ASSUME NEW names, NEW c, NEW e, SeqSet(c) \subseteq SeqSet(e)
  PROVE  Skipped(e, names) \subseteq Skipped(c, names)
  BY DEF Skipped

(* g[n] is the chain after n directories, h[d] what directory d added. *)
Chained(g, h, n) ==
  /\ g \in [0..n -> Seq(Paths)] /\ h \in [1..n -> Seq(Paths)]
  /\ g[0] = <<>>
  /\ \A d \in 1..n : g[d] = g[d - 1] \o h[d]

(* A chain of the first n directories of configuration k. *)
Formed(c, k, n) ==
  \E g, h : /\ Chained(g, h, n) /\ g[n] = c
            /\ \A d \in 1..n : OneOf(h[d], Candidates[k][d])

LEMMA FormedStart == ASSUME NEW k PROVE Formed(<<>>, k, 0)
<1> DEFINE g == [d \in 0..0 |-> <<>>]
           h == [d \in 1..0 |-> <<>>]
<1>1. Chained(g, h, 0) /\ g[0] = <<>>
  BY DEF Chained
<1> HIDE DEF g, h
<1>2. \A d \in 1..0 : OneOf(h[d], Candidates[k][d])
  OBVIOUS
<1> QED BY <1>1, <1>2 DEF Formed

LEMMA FormedNext ==
  ASSUME NEW k, NEW n \in Nat, NEW c, Formed(c, k, n),
         NEW s \in Seq(Paths), OneOf(s, Candidates[k][n + 1])
  PROVE  Formed(c \o s, k, n + 1)
<1>1. PICK g, h : /\ Chained(g, h, n) /\ g[n] = c
                  /\ \A d \in 1..n : OneOf(h[d], Candidates[k][d])
  BY DEF Formed
<1> DEFINE gg == [d \in 0..(n + 1) |-> IF d = n + 1 THEN c \o s ELSE g[d]]
           hh == [d \in 1..(n + 1) |-> IF d = n + 1 THEN s ELSE h[d]]
<1>2. c \in Seq(Paths)
  BY <1>1 DEF Chained
<1>3. \A d \in 0..n : gg[d] = g[d] /\ g[d] \in Seq(Paths)
  BY <1>1 DEF Chained
<1>4. ASSUME NEW d \in 1..n PROVE hh[d] = h[d] /\ h[d] \in Seq(Paths) /\ gg[d - 1] = g[d - 1]
  <2>1. d - 1 \in 0..n /\ d # n + 1 /\ d \in 1..(n + 1)
    OBVIOUS
  <2>2. gg[d - 1] = g[d - 1]
    BY <2>1, <1>3
  <2>3. hh[d] = h[d]
    BY <2>1
  <2>4. h[d] \in Seq(Paths)
    BY <1>1 DEF Chained
  <2> QED BY <2>2, <2>3, <2>4
<1>5. gg[n + 1] = c \o s /\ hh[n + 1] = s
  OBVIOUS
<1>6. gg \in [0..(n + 1) -> Seq(Paths)] /\ hh \in [1..(n + 1) -> Seq(Paths)]
  <2>1. \A d \in 0..(n + 1) : d = n + 1 \/ d \in 0..n
    OBVIOUS
  <2>2. \A d \in 1..(n + 1) : d = n + 1 \/ d \in 1..n
    OBVIOUS
  <2>3. c \o s \in Seq(Paths)
    BY <1>2
  <2>4. \A d \in 0..(n + 1) : gg[d] \in Seq(Paths)
    BY <2>1, <2>3, <1>3, <1>5
  <2>5. \A d \in 1..(n + 1) : hh[d] \in Seq(Paths)
    BY <2>2, <1>4, <1>5
  <2> QED BY <2>4, <2>5
<1>7. gg[0] = <<>>
  BY <1>1, <1>3 DEF Chained
<1>8. ASSUME NEW d \in 1..(n + 1)
      PROVE  gg[d] = gg[d - 1] \o hh[d] /\ OneOf(hh[d], Candidates[k][d])
  <2>1. CASE d = n + 1
    <3> HIDE DEF gg, hh
    <3>1. d - 1 = n /\ n \in 0..n
      BY <2>1
    <3>2. gg[n] = c
      BY <3>1, <1>1, <1>3
    <3> QED BY <3>1, <3>2, <2>1, <1>5
  <2>2. CASE d # n + 1
    <3>1. d \in 1..n /\ d \in 0..n
      BY <2>2
    <3>2. g[d] = g[d - 1] \o h[d]
      BY <3>1, <1>1 DEF Chained
    <3> HIDE DEF gg, hh
    <3> QED BY <3>1, <3>2, <1>1, <1>3, <1>4
  <2> QED BY <2>1, <2>2
<1> HIDE DEF gg, hh
<1>9. Chained(gg, hh, n + 1)
  BY <1>6, <1>7, <1>8 DEF Chained
<1> QED BY <1>5, <1>8, <1>9 DEF Formed

(* Directory names, as the configuration lists them. *)
LEMMA NamesOK ==
  ASSUME NEW k \in DOMAIN Candidates, NEW d \in 1..Len(Candidates[k])
  PROVE  /\ Len(Candidates[k]) \in Nat /\ d \in DOMAIN Candidates[k]
         /\ Candidates[k][d] \in Seq(Paths)
         /\ \A e \in 1..Len(Candidates[k]) : d < e =>
              SeqSet(Candidates[k][e]) \intersect (SeqSet(Candidates[k][d]) \union GlobalPaths) = {}
<1>1. Candidates[k] \in Seq(Seq(Paths))
  BY RecordsAssumption
<1>2. DOMAIN Candidates[k] = 1..Len(Candidates[k])
  BY <1>1
<1>3. ASSUME NEW e \in 1..Len(Candidates[k]), d < e
      PROVE  SeqSet(Candidates[k][e]) \intersect (SeqSet(Candidates[k][d]) \union GlobalPaths) = {}
  <2>1. d \in DOMAIN Candidates[k] /\ e \in DOMAIN Candidates[k]
    BY <1>2
  <2> QED BY <2>1, <1>3, RecordsAssumption
<1>4. Candidates[k][d] \in Seq(Paths) /\ Len(Candidates[k]) \in Nat
  BY <1>1
<1> QED BY <1>2, <1>3, <1>4

(* The chain holds what its directories added, and nothing else. *)
Gathered(g, h, n) ==
  \A m \in 0..n : \A x : x \in SeqSet(g[m]) <=> \E d \in 1..m : x \in SeqSet(h[d])

LEMMA ChainMembers ==
  ASSUME NEW g, NEW h, NEW n \in Nat, Chained(g, h, n)
  PROVE  Gathered(g, h, n)
<1> DEFINE E == {m \in 0..n : \A x : x \in SeqSet(g[m]) <=> \E d \in 1..m : x \in SeqSet(h[d])}
<1>1. 0 \in E
  <2>1. SeqSet(g[0]) = {}
    BY DEF Chained, SeqSet
  <2> QED BY <2>1
<1>2. \A m \in 0..n : m # n /\ m \in E => m + 1 \in E
  <2> SUFFICES ASSUME NEW m \in 0..n, m # n, m \in E PROVE m + 1 \in E
    OBVIOUS
  <2>1. m + 1 \in 1..n /\ (m + 1) - 1 = m /\ m + 1 \in 0..n
    OBVIOUS
  <2>2. g[m + 1] = g[m] \o h[m + 1] /\ g[m] \in Seq(Paths) /\ h[m + 1] \in Seq(Paths)
    BY <2>1 DEF Chained
  <2>3. SeqSet(g[m + 1]) = SeqSet(g[m]) \union SeqSet(h[m + 1])
    BY <2>2, SeqSetConcat
  <2>4. m + 1 \in 1..(m + 1) /\ \A d \in 1..(m + 1) : d \in 1..m \/ d = m + 1
    OBVIOUS
  <2>5. \A d \in 1..m : d \in 1..(m + 1)
    OBVIOUS
  <2>6. \A x : x \in SeqSet(g[m]) <=> \E d \in 1..m : x \in SeqSet(h[d])
    OBVIOUS
  <2>7. \A x : x \in SeqSet(g[m + 1]) <=> \E d \in 1..(m + 1) : x \in SeqSet(h[d])
    BY <2>3, <2>4, <2>5, <2>6
  <2> QED BY <2>1, <2>7
<1>3. 0..n \subseteq E
  <2> HIDE DEF E
  <2> QED BY <1>1, <1>2, Upward
<1> QED BY <1>3 DEF Gathered

(* Of one directory's names, the chain holds what that directory added. *)
LEMMA DirectoryShare ==
  ASSUME NEW k \in DOMAIN Candidates, NEW g, NEW h, NEW n \in 0..Len(Candidates[k]),
         Chained(g, h, n), \A d \in 1..n : OneOf(h[d], Candidates[k][d])
  PROVE  /\ \A d \in 1..n : SeqSet(h[d]) \subseteq SeqSet(Candidates[k][d])
         /\ \A d \in 1..n : SeqSet(g[n]) \intersect SeqSet(Candidates[k][d]) = SeqSet(h[d])
<1>1. ASSUME NEW d \in 1..n PROVE SeqSet(h[d]) \subseteq SeqSet(Candidates[k][d])
  <2>1. OneOf(h[d], Candidates[k][d])
    BY <1>1
  <2>2. CASE h[d] = <<>>
    BY <2>2 DEF SeqSet
  <2>3. CASE \E q \in SeqSet(Candidates[k][d]) : h[d] = <<q>>
    <3>1. PICK q \in SeqSet(Candidates[k][d]) : h[d] = <<q>>
      BY <2>3
    <3>2. SeqSet(<<q>>) = {q}
      BY DEF SeqSet
    <3> QED BY <3>1, <3>2
  <2> QED BY <2>1, <2>2, <2>3 DEF OneOf
<1>2. Len(Candidates[k]) \in Nat
  BY RecordsAssumption
<1>3. n \in Nat /\ n \in 0..n
  BY <1>2
<1>4. \A x : x \in SeqSet(g[n]) <=> \E d \in 1..n : x \in SeqSet(h[d])
  <2>1. Gathered(g, h, n)
    BY <1>3, ChainMembers
  <2> QED BY <1>3, <2>1 DEF Gathered
<1>5. ASSUME NEW d \in 1..n, NEW e \in 1..n, d # e
      PROVE  SeqSet(h[e]) \intersect SeqSet(Candidates[k][d]) = {}
  <2>1. d \in 1..Len(Candidates[k]) /\ e \in 1..Len(Candidates[k])
    BY <1>2
  <2>2. SeqSet(Candidates[k][e]) \intersect SeqSet(Candidates[k][d]) = {}
    <3>1. CASE d < e
      BY <2>1, <3>1, NamesOK
    <3>2. CASE e < d
      BY <2>1, <3>2, NamesOK
    <3> QED BY <1>5, <3>1, <3>2
  <2> QED BY <1>1, <2>2
<1>6. ASSUME NEW d \in 1..n PROVE SeqSet(g[n]) \intersect SeqSet(Candidates[k][d]) = SeqSet(h[d])
  <2>1. SeqSet(h[d]) \subseteq SeqSet(g[n])
    BY <1>4
  <2>2. ASSUME NEW x \in SeqSet(g[n]), x \in SeqSet(Candidates[k][d]) PROVE x \in SeqSet(h[d])
    <3>1. PICK e \in 1..n : x \in SeqSet(h[e])
      BY <1>4, <2>2
    <3> QED BY <3>1, <2>2, <1>5
  <2> QED BY <1>1, <2>1, <2>2
<1> QED BY <1>1, <1>6

LEMMA ChainOfIs ==
  ASSUME NEW M, NEW k \in DOMAIN Candidates, NEW g, NEW h,
         Chained(g, h, Len(Candidates[k])),
         \A d \in 1..Len(Candidates[k]) : h[d] = FirstInstruction(M, Candidates[k][d])
  PROVE  ChainOf(M, k) = g[Len(Candidates[k])]
<1> DEFINE N == Len(Candidates[k])
           Rec(f) == [n \in 0..N |->
             IF n = 0 THEN <<>> ELSE f[n - 1] \o FirstInstruction(M, Candidates[k][n])]
           upto == CHOOSE f : f = Rec(f)
<1>1. ChainOf(M, k) = upto[N]
  BY DEF ChainOf
<1>2. N \in Nat
  BY RecordsAssumption
<1>3. \A n \in 1..N : \A f : f[n - 1] = g[n - 1] => Rec(f)[n] = g[n]
  <2> SUFFICES ASSUME NEW n \in 1..N, NEW f, f[n - 1] = g[n - 1] PROVE Rec(f)[n] = g[n]
    BY Zenon
  <2>1. n \in 0..N /\ n # 0
    OBVIOUS
  <2>2. g[n] = g[n - 1] \o h[n] /\ h[n] = FirstInstruction(M, Candidates[k][n])
    BY DEF Chained
  <2> QED BY <2>1, <2>2
<1>4. \A f : Rec(f)[0] = g[0] /\ Rec(f) = [n \in 0..N |-> Rec(f)[n]]
  BY <1>2 DEF Chained
<1>5. g = [n \in 0..N |-> g[n]]
  BY DEF Chained
<1>6. ASSUME NEW f, f = Rec(f) PROVE f = g
  <2> DEFINE E == {n \in 0..N : f[n] = g[n]}
  <2>1. 0 \in E
    <3>1. f[0] = Rec(f)[0]
      BY <1>6, Zenon
    <3> HIDE DEF Rec
    <3> QED BY <1>2, <1>4, <3>1
  <2>2. \A n \in 0..N : n # N /\ n \in E => n + 1 \in E
    <3> SUFFICES ASSUME NEW n \in 0..N, n # N, n \in E PROVE n + 1 \in E
      OBVIOUS
    <3>1. n + 1 \in 1..N /\ (n + 1) - 1 = n
      BY <1>2
    <3>2. f[n] = g[n]
      OBVIOUS
    <3>3. Rec(f)[n + 1] = g[n + 1]
      <4> HIDE DEF Rec, N
      <4> QED BY <1>3, <3>1, <3>2
    <3>4. f[n + 1] = g[n + 1]
      <4> HIDE DEF Rec, N
      <4> QED BY <1>6, <3>3
    <3> QED BY <3>1, <3>4
  <2>3. 0..N \subseteq E
    <3> HIDE DEF E, N
    <3> QED BY <1>2, <2>1, <2>2, Upward
  <2>4. f = [n \in 0..N |-> f[n]]
    BY <1>6, <1>4, Zenon
  <2>5. \A n \in 0..N : f[n] = g[n]
    BY <2>3
  <2> HIDE DEF Rec, N
  <2> QED BY <1>5, <2>4, <2>5
<1>7. g = Rec(g)
  <2>1. \A n \in 0..N : Rec(g)[n] = g[n]
    <3> SUFFICES ASSUME NEW n \in 0..N PROVE Rec(g)[n] = g[n]
      OBVIOUS
    <3>1. n = 0 \/ n \in 1..N
      BY <1>2
    <3> HIDE DEF Rec, N
    <3> QED BY <1>3, <1>4, <3>1
  <2> HIDE DEF Rec, N
  <2> QED BY <1>4, <1>5, <2>1
<1>8. upto = g
  <2> HIDE DEF Rec
  <2> QED BY <1>6, <1>7
<1> QED BY <1>1, <1>8

(* A chain whose files have text in M, and which passed over nothing that  *)
(* has, is the chain of M.                                                 *)
LEMMA ChainIsOf ==
  ASSUME NEW M, NEW k \in DOMAIN Candidates, NEW c, Formed(c, k, Len(Candidates[k])),
         \A q \in SeqSet(c) : NonEmpty(M[q]),
         \A d \in 1..Len(Candidates[k]) : \A q \in Skipped(c, Candidates[k][d]) : ~NonEmpty(M[q])
  PROVE  ChainOf(M, k) = c
<1> DEFINE N == Len(Candidates[k])
<1>1. PICK g, h : /\ Chained(g, h, N) /\ g[N] = c
                  /\ \A d \in 1..N : OneOf(h[d], Candidates[k][d])
  BY DEF Formed
<1>2. N \in Nat /\ N \in 0..N
  BY RecordsAssumption
<1>3. c \in Seq(Paths)
  BY <1>1, <1>2 DEF Chained
<1>4. \A d \in 1..N : SeqSet(c) \intersect SeqSet(Candidates[k][d]) = SeqSet(h[d])
  <2>1. Chained(g, h, N) /\ \A d \in 1..N : OneOf(h[d], Candidates[k][d])
    BY <1>1
  <2>2. \A d \in 1..N : SeqSet(g[N]) \intersect SeqSet(Candidates[k][d]) = SeqSet(h[d])
    <3> HIDE DEF N
    <3>1. N \in 0..Len(Candidates[k])
      BY <1>2 DEF N
    <3> QED BY <2>1, <3>1, DirectoryShare
  <2> QED BY <2>2, <1>1
<1>5. ASSUME NEW d \in 1..N PROVE h[d] = FirstInstruction(M, Candidates[k][d])
  <2>1. Candidates[k][d] \in Seq(Paths)
    BY NamesOK
  <2>2. h[d] \in Seq(Paths) /\ OneOf(h[d], Candidates[k][d])
    BY <1>1 DEF Chained
  <2>3. SeqSet(c) \intersect SeqSet(Candidates[k][d]) = SeqSet(h[d])
    BY <1>4
  <2>4. \A q \in SeqSet(h[d]) : NonEmpty(M[q])
    BY <2>3
  <2>5. \A q \in Skipped(c, Candidates[k][d]) : ~NonEmpty(M[q])
    OBVIOUS
  <2>6. Picks(M, Candidates[k][d], h[d])
    BY <1>3, <2>1, <2>2, <2>3, <2>4, <2>5, SkippedPicks
  <2>7. Picks(M, Candidates[k][d], FirstInstruction(M, Candidates[k][d]))
    BY <2>1, FirstPicks
  <2> QED BY <2>1, <2>6, <2>7, PicksUnique
<1> QED BY <1>1, <1>5, ChainOfIs

(* The chain names every file once, and the agent's home first.            *)
ChainShape(c) ==
  /\ IsFiniteSet(SeqSet(c)) /\ Cardinality(SeqSet(c)) = Len(c)
  /\ Cardinality(SeqSet(c) \intersect GlobalPaths) <= 1
  /\ SeqSet(c) \intersect GlobalPaths # {} => c[1] \in SeqSet(c) \intersect GlobalPaths

LEMMA FormedShape ==
  ASSUME NEW k \in DOMAIN Candidates, NEW c, Formed(c, k, Len(Candidates[k]))
  PROVE  ChainShape(c) /\ c \in Seq(Paths)
<1> DEFINE N == Len(Candidates[k])
<1>1. PICK g, h : /\ Chained(g, h, N) /\ g[N] = c
                  /\ \A d \in 1..N : OneOf(h[d], Candidates[k][d])
  BY DEF Formed
<1>2. N \in Nat /\ N \in 0..N
  BY RecordsAssumption
<1>3. c \in Seq(Paths)
  BY <1>1, <1>2 DEF Chained
<1>4. \A m \in 0..N : \A x : x \in SeqSet(g[m]) <=> \E d \in 1..m : x \in SeqSet(h[d])
  <2>1. Gathered(g, h, N)
    BY <1>1, <1>2, ChainMembers
  <2> HIDE DEF N
  <2> QED BY <2>1 DEF Gathered
<1>5. \A d \in 1..N : SeqSet(h[d]) \subseteq SeqSet(Candidates[k][d])
  BY <1>1, <1>2, DirectoryShare
<1>6. ASSUME NEW d \in 1..N
      PROVE  h[d] = <<>> \/ \E q \in SeqSet(Candidates[k][d]) : h[d] = <<q>>
  BY <1>1 DEF OneOf
<1>7. IsFiniteSet(SeqSet(c)) /\ Cardinality(SeqSet(c)) = Len(c)
  <2> DEFINE E == {m \in 0..N : IsFiniteSet(SeqSet(g[m])) /\ Cardinality(SeqSet(g[m])) = Len(g[m])}
  <2>1. 0 \in E
    <3>1. g[0] = <<>> /\ SeqSet(g[0]) = {}
      BY <1>1 DEF Chained, SeqSet
    <3>2. IsFiniteSet({}) /\ Cardinality({}) = 0 /\ Len(<<>>) = 0
      BY FS_EmptySet
    <3>3. IsFiniteSet(SeqSet(g[0])) /\ Cardinality(SeqSet(g[0])) = Len(g[0])
      BY <3>1, <3>2
    <3> QED BY <3>3, <1>2
  <2>2. \A m \in 0..N : m # N /\ m \in E => m + 1 \in E
    <3> SUFFICES ASSUME NEW m \in 0..N, m # N, m \in E PROVE m + 1 \in E
      OBVIOUS
    <3>1. m + 1 \in 1..N /\ (m + 1) - 1 = m /\ m + 1 \in 0..N
      BY <1>2
    <3>2. g[m + 1] = g[m] \o h[m + 1] /\ g[m] \in Seq(Paths) /\ h[m + 1] \in Seq(Paths)
      BY <1>1, <3>1 DEF Chained
    <3>3. IsFiniteSet(SeqSet(g[m])) /\ Cardinality(SeqSet(g[m])) = Len(g[m])
      OBVIOUS
    <3>4. CASE h[m + 1] = <<>>
      <4>1. g[m + 1] = g[m]
        BY <3>2, <3>4
      <4> QED BY <3>1, <3>3, <4>1
    <3>5. ASSUME NEW q \in SeqSet(Candidates[k][m + 1]), h[m + 1] = <<q>> PROVE m + 1 \in E
      <4>1. SeqSet(<<q>>) = {q}
        BY DEF SeqSet
      <4>2. SeqSet(g[m + 1]) = SeqSet(g[m]) \union {q}
        <5>1. SeqSet(g[m + 1]) = SeqSet(g[m]) \union SeqSet(h[m + 1])
          BY <3>2, SeqSetConcat
        <5> QED BY <5>1, <3>5, <4>1
      <4>3. q \notin SeqSet(g[m])
        <5> SUFFICES ASSUME q \in SeqSet(g[m]) PROVE FALSE
          OBVIOUS
        <5>1. PICK d \in 1..m : q \in SeqSet(h[d])
          BY <1>4
        <5>2. d \in 1..N /\ d < m + 1
          BY <3>1
        <5>3. q \in SeqSet(Candidates[k][d])
          BY <1>5, <5>1, <5>2
        <5> QED BY <3>1, <3>5, <5>2, <5>3, NamesOK
      <4>4. Len(g[m + 1]) = Len(g[m]) + 1
        BY <3>2, <3>5
      <4>5. /\ IsFiniteSet(SeqSet(g[m]) \union {q})
            /\ Cardinality(SeqSet(g[m]) \union {q}) = Cardinality(SeqSet(g[m])) + 1
        BY <3>3, <4>3, FS_AddElement
      <4> QED BY <3>1, <3>3, <4>2, <4>4, <4>5
    <3> QED BY <1>6, <3>1, <3>4, <3>5
  <2>3. 0..N \subseteq E
    <3> HIDE DEF E, N
    <3> QED BY <1>2, <2>1, <2>2, Upward
  <2> QED BY <1>1, <1>2, <2>3
<1>8. ASSUME NEW q \in SeqSet(c), q \in GlobalPaths PROVE h[1] = <<q>> /\ 1 \in 1..N
  <2>1. PICK d \in 1..N : q \in SeqSet(h[d])
    BY <1>1, <1>2, <1>4
  <2>2. q \in SeqSet(Candidates[k][d])
    BY <1>5, <2>1
  <2>3. d = 1
    <3> SUFFICES ASSUME d # 1 PROVE FALSE
      OBVIOUS
    <3>1. 1 \in 1..N /\ 1 < d
      BY <1>2
    <3> QED BY <2>2, <1>8, <3>1, NamesOK
  <2>4. h[1] # <<>>
    BY <2>1, <2>3 DEF SeqSet
  <2>5. PICK r : h[1] = <<r>>
    BY <1>6, <2>3, <2>4
  <2>6. SeqSet(<<r>>) = {r}
    BY DEF SeqSet
  <2> QED BY <2>1, <2>3, <2>5, <2>6
<1>9. ASSUME NEW q, h[1] = <<q>>, 1 \in 1..N PROVE c[1] = q
  <2> DEFINE E == {m \in 0..N : m >= 1 => g[m] # <<>> /\ g[m][1] = q}
  <2>1. 0 \in E
    BY <1>2
  <2>2. \A m \in 0..N : m # N /\ m \in E => m + 1 \in E
    <3> SUFFICES ASSUME NEW m \in 0..N, m # N, m \in E PROVE m + 1 \in E
      OBVIOUS
    <3>1. m + 1 \in 1..N /\ (m + 1) - 1 = m /\ m + 1 \in 0..N
      BY <1>2
    <3>2. g[m + 1] = g[m] \o h[m + 1] /\ g[m] \in Seq(Paths) /\ h[m + 1] \in Seq(Paths)
      BY <1>1, <3>1 DEF Chained
    <3>3. CASE m = 0
      <4>1. g[m] = <<>> /\ m + 1 = 1
        BY <1>1, <3>3 DEF Chained
      <4>2. g[m + 1] = <<q>>
        BY <3>2, <4>1, <1>9
      <4>3. g[m + 1] # <<>> /\ g[m + 1][1] = q
        BY <4>2
      <4> QED BY <3>1, <4>3
    <3>4. CASE m >= 1
      <4>1. g[m] # <<>> /\ g[m][1] = q
        BY <3>4
      <4>2. g[m + 1] # <<>> /\ g[m + 1][1] = q
        <5> DEFINE u == g[m]
                   v == h[m + 1]
        <5>1. u \in Seq(Paths) /\ v \in Seq(Paths) /\ u # <<>> /\ u[1] = q /\ g[m + 1] = u \o v
          BY <3>2, <4>1
        <5> HIDE DEF u, v
        <5>2. Len(u) >= 1 /\ u \o v # <<>> /\ (u \o v)[1] = u[1]
          BY <5>1
        <5> QED BY <5>1, <5>2
      <4> QED BY <3>1, <4>2
    <3> QED BY <3>3, <3>4
  <2>3. 0..N \subseteq E
    <3> HIDE DEF E, N
    <3> QED BY <1>2, <2>1, <2>2, Upward
  <2>4. N >= 1
    BY <1>9, <1>2
  <2> QED BY <1>1, <1>2, <2>3, <2>4
<1>10. CASE SeqSet(c) \intersect GlobalPaths = {}
  <2> DEFINE K == SeqSet(c) \intersect GlobalPaths
  <2>1. Cardinality(K) = 0
    BY <1>10, FS_EmptySet
  <2>2. Cardinality(K) <= 1
    <3> HIDE DEF K
    <3> QED BY <2>1
  <2>3. K # {} => c[1] \in K
    BY <1>10
  <2> QED BY <1>3, <1>7, <2>2, <2>3 DEF ChainShape
<1>11. ASSUME NEW q \in SeqSet(c) \intersect GlobalPaths PROVE ChainShape(c)
  <2>1. h[1] = <<q>> /\ c[1] = q
    BY <1>8, <1>9
  <2>2. \A r \in SeqSet(c) \intersect GlobalPaths : r = q
    <3> SUFFICES ASSUME NEW r \in SeqSet(c) \intersect GlobalPaths PROVE r = q
      OBVIOUS
    <3>1. h[1] = <<r>>
      BY <1>8
    <3> QED BY <2>1, <3>1
  <2>3. SeqSet(c) \intersect GlobalPaths = {q}
    BY <2>2
  <2>4. Cardinality({q}) = 1
    BY FS_Singleton
  <2> DEFINE K == SeqSet(c) \intersect GlobalPaths
  <2>5. Cardinality(K) <= 1
    <3>1. K = {q}
      BY <2>3
    <3> HIDE DEF K
    <3> QED BY <3>1, <2>4
  <2>6. c[1] \in K
    BY <2>1
  <2> QED BY <1>7, <2>5, <2>6 DEF ChainShape
<1> QED BY <1>3, <1>10, <1>11

-----------------------------------------------------------------------------
(* Contents are contents, and none is blank. *)
TreeOK(t) == \A q \in Paths : ContentOK(t[q]) /\ (NonEmpty(t[q]) <=> Exists(t[q]))

RefSet == [name : Names, firm : BOOLEAN]

LEMMA ReferencesOK ==
  ASSUME NEW q, NEW c, ContentOK(c), Exists(c) \/ q \in GlobalPaths
  PROVE  References(q, c) \in Seq(RefSet)
<1>1. <<>> \in Seq(RefSet)
  OBVIOUS
<1>2. CASE q \in GlobalPaths
  BY <1>1, <1>2 DEF References
<1>3. CASE Exists(c)
  <2>1. c.text \in DOMAIN Refs
    BY <1>3 DEF ContentOK, Exists
  <2>2. Refs[c.text] \in Seq(RefSet)
    BY <2>1, ReferencesAssumption DEF RefSet
  <2> QED BY <1>1, <2>2 DEF References
<1> QED BY <1>2, <1>3

LEMMA ExtraOK ==
  ASSUME NEW k \in DOMAIN Candidates
  PROVE  Extra[k] \in Seq(RefSet) /\ \A r \in SeqSet(Extra[k]) : r.firm /\ r.name \in Names
<1>1. Extra[k] \in Seq([name : Names, firm : {TRUE}])
  BY ReferencesAssumption
<1>2. SeqSet(Extra[k]) \subseteq [name : Names, firm : {TRUE}]
  BY <1>1, SeqSetBasics
<1>3. [name : Names, firm : {TRUE}] \subseteq RefSet
  BY DEF RefSet
<1>4. Extra[k] \in Seq(RefSet)
  <2> DEFINE S == [name : Names, firm : {TRUE}]
             x == Extra[k]
  <2>1. x \in Seq(S) /\ S \subseteq RefSet
    BY <1>1, <1>3
  <2> HIDE DEF S, x
  <2>2. x \in Seq(RefSet)
    BY <2>1
  <2> QED BY <2>2 DEF x
<1> QED BY <1>2, <1>4

(* A reference means a path or nothing. *)
LEMMA FoundIs ==
  ASSUME NEW here, NEW listed_, NEW q \in Paths, NEW name \in Names
  PROVE  Found(here, listed_, q, name) \in Paths \union {Nowhere}
<1> DEFINE tries == Tries[q][name]
           hits == {i \in DOMAIN tries : tries[i] \in here}
           same == Namesakes[name] \intersect listed_
<1>1. tries \in Seq(Paths) /\ same \subseteq Paths
  BY ReferencesAssumption
<1>2. CASE hits # {}
  <2>1. DOMAIN tries = 1..Len(tries) /\ Len(tries) \in Nat
    BY <1>1
  <2>2. hits \in SUBSET Nat
    BY <2>1
  <2>3. \E i \in hits : \A j \in hits : i <= j
    <3> HIDE DEF hits
    <3> QED BY <1>2, <2>2, LeastOf
  <2>4. PICK i \in hits : i = CHOOSE h \in hits : \A j \in hits : h <= j
    <3> HIDE DEF hits
    <3> QED BY <2>3
  <2>5. Found(here, listed_, q, name) = tries[i]
    BY <1>2, <2>4 DEF Found
  <2>6. tries[i] \in Paths
    BY <1>1, <2>1
  <2> QED BY <2>5, <2>6
<1>3. CASE hits = {} /\ \E x \in same : same = {x}
  <2>1. Found(here, listed_, q, name) = CHOOSE x \in same : TRUE
    BY <1>3 DEF Found
  <2>2. (CHOOSE x \in same : TRUE) \in same
    BY <1>3
  <2> QED BY <2>1, <2>2, <1>1
<1>4. CASE hits = {} /\ ~(\E x \in same : same = {x})
  BY <1>4 DEF Found
<1> QED BY <1>2, <1>3, <1>4

-----------------------------------------------------------------------------
(* The files that exist now, and those of the index, are those of M but    *)
(* for the files of F.                                                     *)
FluxOK(M, now, F) == \A q \in Paths : q \notin F => (Exists(now[q]) <=> Exists(M[q]))

ListedOK(walk_, listed_, M, F) ==
  \A q \in Indexed : q \notin F /\ q \notin walk_ => (q \in listed_ <=> Exists(M[q]))

LEMMA FoundMay ==
  ASSUME NEW M, NEW now, NEW F, NEW listed_, FluxOK(M, now, F), ListedOK({}, listed_, M, F),
         NEW q, NEW name \in Names
  PROVE  Found(Present(now), listed_, q, name) \in MayMean(M, F, q, name)
<1> DEFINE here == Present(now)
           seen_ == (Present(M) \ F) \union (listed_ \intersect F)
<1>1. here \in Views(M, F)
  <2>1. here = (Present(M) \ F) \union (here \intersect F)
    BY DEF Present, FluxOK
  <2> HIDE DEF here
  <2> QED BY <2>1 DEF Views
<1>2. seen_ \in Views(M, F)
  BY DEF Views
<1>3. Namesakes[name] \intersect listed_ = Namesakes[name] \intersect seen_
  <2>1. Namesakes[name] \subseteq Paths
    BY ReferencesAssumption
  <2>2. \A x \in Namesakes[name] : x \in Indexed
    BY DEF Indexed
  <2>3. \A x \in Namesakes[name] : x \notin F => (x \in listed_ <=> x \in Present(M))
    BY <2>1, <2>2 DEF ListedOK, Present
  <2> QED BY <2>3
<1> HIDE DEF here, seen_
<1>4. Found(here, listed_, q, name) = Found(here, seen_, q, name)
  BY <1>3 DEF Found
<1>5. Found(here, seen_, q, name) \in MayMean(M, F, q, name)
  BY <1>1, <1>2 DEF MayMean
<1> QED BY <1>4, <1>5 DEF here

(* The more files come and go, the more a name may mean. *)
LEMMA MayGrows ==
  ASSUME NEW M, NEW F, NEW G, F \subseteq G, NEW q, NEW name
  PROVE  MayMean(M, F, q, name) \subseteq MayMean(M, G, q, name)
<1>1. Views(M, F) \subseteq Views(M, G)
  <2> SUFFICES ASSUME NEW B \in SUBSET F
               PROVE  (Present(M) \ F) \union B \in Views(M, G)
    BY DEF Views
  <2> DEFINE A == ((Present(M) \ F) \intersect G) \union B
  <2>1. A \in SUBSET G
    OBVIOUS
  <2>2. (Present(M) \ F) \union B = (Present(M) \ G) \union A
    OBVIOUS
  <2> HIDE DEF A
  <2> QED BY <2>1, <2>2 DEF Views
<1> QED BY <1>1 DEF MayMean

(* Every edge comes from one of the references; each of them that leaves   *)
(* none is weak.                                                           *)
Explained(deps, refs, M, F, q) ==
  \A d \in deps : \E r \in refs : d \in MayMean(M, F, q, r.name)

Settled(refs, deps, M, F, q) ==
  \A r \in refs : \/ MayMean(M, F, q, r.name) \intersect deps # {}
                  \/ (~r.firm /\ Nowhere \in MayMean(M, F, q, r.name))

LEMMA AccountedIs ==
  ASSUME NEW M, NEW F, NEW q, NEW deps,
         Explained(deps, SeqSet(References(q, M[q])), M, F, q),
         Settled(SeqSet(References(q, M[q])), deps, M, F, q)
  PROVE  Accounted(deps, M, F, q)
  BY DEF Explained, Settled, Accounted

(* With no file coming or going, a name means one thing. *)
LEMMA MeansOne ==
  ASSUME NEW M, NEW q, NEW name
  PROVE  MayMean(M, {}, q, name) = {Found(Present(M), Present(M), q, name)}
<1>1. Views(M, {}) = {Present(M)}
  <2>1. \A A \in SUBSET {} : (Present(M) \ {}) \union A = Present(M)
    OBVIOUS
  <2>2. {} \in SUBSET {}
    OBVIOUS
  <2> QED BY <2>1, <2>2 DEF Views
<1> QED BY <1>1 DEF MayMean

(***************************************************************************)
(* And then a tree has one record: the files, their fingerprints and their *)
(* edges are those that discovery finds in it.                             *)
(***************************************************************************)
THEOREM RecordUnique ==
  ASSUME NEW M, NEW k, NEW rec, NEW other, IsRecordOf(rec, k, M, {}), IsRecordOf(other, k, M, {})
  PROVE  /\ rec.cfg = other.cfg /\ rec.chain = other.chain
         /\ DOMAIN rec.src = DOMAIN other.src
         /\ \A q \in DOMAIN rec.src : rec.src[q] = other.src[q]
<1> DEFINE D == DOMAIN rec.src
           O == DOMAIN other.src
           c == ChainOf(M, k)
           E == ExtraMeans(M, {}, k)
           R(q) == SeqSet(References(q, M[q]))
           means(q, r) == Found(Present(M), Present(M), q, r.name)
<1>1. ASSUME NEW r_, IsRecordOf(r_, k, M, {})
      PROVE  /\ r_.cfg = Settings[k] /\ r_.chain = c
             /\ SeqSet(c) \subseteq DOMAIN r_.src /\ DOMAIN r_.src \subseteq Paths
             /\ \A r \in SeqSet(Extra[k]) : MayMean(M, {}, Root, r.name) \intersect DOMAIN r_.src # {}
             /\ \A q \in DOMAIN r_.src :
                  /\ r_.src[q].deps \subseteq DOMAIN r_.src
                  /\ r_.src[q] = Fingerprint(q, M[q], r_.src[q].deps, c)
                  /\ Accounted(r_.src[q].deps, M, {}, q)
             /\ \A S \in SUBSET DOMAIN r_.src :
                  /\ SeqSet(c) \union (DOMAIN r_.src \intersect E) \subseteq S
                  /\ \A q \in S : r_.src[q].deps \subseteq S
                  => S = DOMAIN r_.src
  BY <1>1 DEF IsRecordOf
<1>2. ASSUME NEW q, NEW deps, deps \subseteq Paths, Accounted(deps, M, {}, q)
      PROVE  deps = {means(q, r) : r \in R(q)} \ {Nowhere}
  <2>1. \A r : MayMean(M, {}, q, r.name) = {means(q, r)}
    BY MeansOne
  <2> HIDE DEF means, R
  <2>2. \A d \in deps : \E r \in R(q) : d = means(q, r)
    BY <1>2, <2>1 DEF Accounted, R
  <2>3. \A r \in R(q) : means(q, r) \in deps \/ means(q, r) = Nowhere
    BY <1>2, <2>1 DEF Accounted, R
  <2>4. Nowhere \notin deps
    BY <1>2, ReferencesAssumption
  <2> QED BY <2>2, <2>3, <2>4
<1> HIDE DEF c, R, means
<1>3. \A q \in D : rec.src[q].deps = {means(q, r) : r \in R(q)} \ {Nowhere}
  BY <1>1, <1>2
<1>4. \A q \in O : other.src[q].deps = {means(q, r) : r \in R(q)} \ {Nowhere}
  BY <1>1, <1>2
<1>5. \A q \in D \intersect O : rec.src[q].deps = other.src[q].deps
  BY <1>3, <1>4
<1>6. E \subseteq D /\ E \subseteq O
  <2> SUFFICES ASSUME NEW e \in E PROVE e \in D /\ e \in O
    OBVIOUS
  <2>1. PICK r \in SeqSet(Extra[k]) : e \in MayMean(M, {}, Root, r.name)
    BY DEF ExtraMeans
  <2>2. MayMean(M, {}, Root, r.name) = {e}
    BY <2>1, MeansOne
  <2> QED BY <1>1, <2>2
<1> HIDE DEF E
<1> DEFINE S == D \intersect O
<1>7. S = D
  <2>1. S \in SUBSET D /\ SeqSet(c) \union (D \intersect E) \subseteq S
    BY <1>1, <1>6
  <2>2. \A q \in S : rec.src[q].deps \subseteq S
    BY <1>1, <1>5
  <2> HIDE DEF S
  <2> QED BY <1>1, <2>1, <2>2
<1>8. S = O
  <2>1. S \in SUBSET O /\ SeqSet(c) \union (O \intersect E) \subseteq S
    BY <1>1, <1>6
  <2>2. \A q \in S : other.src[q].deps \subseteq S
    BY <1>1, <1>5
  <2> HIDE DEF S
  <2> QED BY <1>1, <2>1, <2>2
<1>9. \A q \in D : rec.src[q] = other.src[q]
  <2>1. D = O
    BY <1>7, <1>8
  <2> QED BY <2>1, <1>1, <1>5
<1> QED BY <1>1, <1>7, <1>8, <1>9

LEMMA ReasonsGrow ==
  ASSUME NEW M, NEW F, NEW G, F \subseteq G, NEW q, NEW refs, NEW deps
  PROVE  /\ Explained(deps, refs, M, F, q) => Explained(deps, refs, M, G, q)
         /\ Settled(refs, deps, M, F, q) => Settled(refs, deps, M, G, q)
<1>1. \A name : MayMean(M, F, q, name) \subseteq MayMean(M, G, q, name)
  BY MayGrows
<1>2. Explained(deps, refs, M, F, q) => Explained(deps, refs, M, G, q)
  <2> SUFFICES ASSUME Explained(deps, refs, M, F, q), NEW d \in deps
               PROVE  \E r \in refs : d \in MayMean(M, G, q, r.name)
    BY DEF Explained
  <2>1. PICK r \in refs : d \in MayMean(M, F, q, r.name)
    BY DEF Explained
  <2> QED BY <1>1, <2>1
<1>3. Settled(refs, deps, M, F, q) => Settled(refs, deps, M, G, q)
  <2> SUFFICES ASSUME Settled(refs, deps, M, F, q), NEW r \in refs
               PROVE  \/ MayMean(M, G, q, r.name) \intersect deps # {}
                      \/ (~r.firm /\ Nowhere \in MayMean(M, G, q, r.name))
    BY DEF Settled
  <2>1. MayMean(M, F, q, r.name) \subseteq MayMean(M, G, q, r.name)
    BY <1>1
  <2>2. \/ MayMean(M, F, q, r.name) \intersect deps # {}
        \/ (~r.firm /\ Nowhere \in MayMean(M, F, q, r.name))
    BY DEF Settled
  <2> QED BY <2>1, <2>2
<1> QED BY <1>2, <1>3

LEMMA AccountedGrows ==
  ASSUME NEW M, NEW F, NEW G, F \subseteq G, NEW q, NEW deps, Accounted(deps, M, F, q)
  PROVE  Accounted(deps, M, G, q)
<1> DEFINE refs == SeqSet(References(q, M[q]))
<1>1. Explained(deps, refs, M, F, q) /\ Settled(refs, deps, M, F, q)
  BY DEF Accounted, Explained, Settled
<1>2. Explained(deps, refs, M, G, q) /\ Settled(refs, deps, M, G, q)
  <2> HIDE DEF refs
  <2> QED BY <1>1, ReasonsGrow
<1> QED BY <1>2, AccountedIs

LEMMA ExtraGrows ==
  ASSUME NEW M, NEW F, NEW G, F \subseteq G, NEW k
  PROVE  ExtraMeans(M, F, k) \subseteq ExtraMeans(M, G, k)
<1>1. \A r \in SeqSet(Extra[k]) : MayMean(M, F, Root, r.name) \subseteq MayMean(M, G, Root, r.name)
  BY MayGrows
<1> QED BY <1>1 DEF ExtraMeans

-----------------------------------------------------------------------------
(* The graph has files, and what is queued is among them. *)
GraphOK(c, queue_, graph_) ==
  /\ DOMAIN graph_ \subseteq Paths /\ SeqSet(c) \subseteq DOMAIN graph_
  /\ SeqSet(queue_) \subseteq DOMAIN graph_
  /\ \A q \in DOMAIN graph_ : graph_[q] \subseteq DOMAIN graph_

(* The graph is what can be reached from the chain and the files of E. *)
RootsOK(c, graph_, E) ==
  \A X \in SUBSET Paths :
    (/\ SeqSet(c) \subseteq X /\ DOMAIN graph_ \intersect E \subseteq X
     /\ \A q \in X \intersect DOMAIN graph_ : graph_[q] \subseteq X)
      => DOMAIN graph_ \subseteq X

(* The fingerprints are those of M, and so are their references.           *)
SourcesOK(M, F, c, graph_, src_) ==
  \A q \in DOMAIN graph_ :
    /\ Exists(M[q]) /\ src_[q] = Fingerprint(q, M[q], graph_[q], c)
    /\ Accounted(graph_[q], M, F, q)

(* A chain, a graph and fingerprints that M has make a record of M, and    *)
(* that record has the shape a reader checks.                              *)
LEMMA RecordIs ==
  ASSUME NEW M, TreeOK(M), NEW F, NEW k \in DOMAIN Candidates, NEW c, NEW graph_, NEW src_,
         Formed(c, k, Len(Candidates[k])),
         \A d \in 1..Len(Candidates[k]) : \A q \in Skipped(c, Candidates[k][d]) : M[q] = Absent,
         GraphOK(c, <<>>, graph_), RootsOK(c, graph_, ExtraMeans(M, F, k)),
         Settled(SeqSet(Extra[k]), DOMAIN graph_, M, F, Root),
         src_ = [q \in DOMAIN graph_ |-> src_[q]],
         SourcesOK(M, F, c, graph_, src_), ~(SeqSet(c) \subseteq GlobalPaths)
  PROVE  LET rec == [cfg |-> Settings[k], chain |-> c, src |-> src_]
         IN  IsRecordOf(rec, k, M, F) /\ ValidRecord(rec)
<1> DEFINE D == DOMAIN graph_
           rec == [cfg |-> Settings[k], chain |-> c, src |-> src_]
           E == ExtraMeans(M, F, k)
<1>1. ChainShape(c) /\ c \in Seq(Paths)
  BY FormedShape
<1>2. D \subseteq Paths /\ SeqSet(c) \subseteq D /\ \A q \in D : graph_[q] \subseteq D
  BY DEF GraphOK
<1>3. ChainOf(M, k) = c
  <2>1. \A q \in SeqSet(c) : NonEmpty(M[q])
    BY <1>2 DEF TreeOK, SourcesOK
  <2>2. \A d \in 1..Len(Candidates[k]) : \A q \in Skipped(c, Candidates[k][d]) : ~NonEmpty(M[q])
    BY DEF NonEmpty, Exists
  <2> QED BY <2>1, <2>2, ChainIsOf
<1>4. DOMAIN src_ = D /\ rec.src = src_ /\ rec.chain = c /\ rec.cfg = Settings[k]
  OBVIOUS
<1>5. ASSUME NEW q \in D
      PROVE  /\ src_[q].deps = graph_[q]
             /\ src_[q].kind = "instruction" <=> q \in SeqSet(c)
  <2>1. src_[q] = Fingerprint(q, M[q], graph_[q], c)
    BY DEF SourcesOK
  <2>2. src_[q].deps = graph_[q] /\ src_[q].kind = SourceKind(q, c)
    BY <2>1 DEF Fingerprint
  <2>3. Kind[q] # "instruction"
    BY <1>2, RecordsAssumption
  <2> QED BY <2>2, <2>3 DEF SourceKind
<1>6. IsRecordOf(rec, k, M, F)
  <2>1. \A r \in SeqSet(Extra[k]) : MayMean(M, F, Root, r.name) \intersect D # {}
    BY ExtraOK DEF Settled
  <2>2. ASSUME NEW q \in D
        PROVE  /\ Exists(M[q]) /\ src_[q].deps \subseteq D
               /\ src_[q] = Fingerprint(q, M[q], src_[q].deps, c)
               /\ Accounted(src_[q].deps, M, F, q)
    BY <1>2, <1>5 DEF SourcesOK
  <2>3. ASSUME NEW S \in SUBSET D, SeqSet(c) \union (D \intersect E) \subseteq S,
               \A q \in S : src_[q].deps \subseteq S
        PROVE  S = D
    <3>1. S \in SUBSET Paths /\ \A q \in S \intersect D : graph_[q] \subseteq S
      BY <1>2, <1>5, <2>3
    <3> QED BY <3>1, <2>3 DEF RootsOK
  <2>4. SeqSet(c) \union (D \intersect E) \subseteq D
    BY <1>2
  <2>5. D \subseteq Paths
    BY <1>2
  <2> HIDE DEF rec, D, E
  <2> QED BY <1>3, <1>4, <2>1, <2>2, <2>3, <2>4, <2>5 DEF IsRecordOf, E
<1>7. SeqSet(c) # {} /\ c # <<>>
  BY DEF SeqSet
<1>8. ValidRecord(rec)
  <2>1. {p \in D : src_[p].kind = "instruction"} = SeqSet(c)
    BY <1>2, <1>5
  <2>2. \A p \in D : src_[p].deps \subseteq D
    BY <1>2, <1>5
  <2> HIDE DEF rec
  <2> QED BY <1>1, <1>2, <1>4, <1>7, <2>1, <2>2 DEF ValidRecord, ChainShape
<1> QED BY <1>6, <1>8

-----------------------------------------------------------------------------
(* A fingerprint of content c. *)
Same(f, c) == Exists(c) /\ f.raw = <<c.text, c.eol>> /\ f.git = c.git

(* What the first pass knows of the trees it read. *)
FirstChain(c, k, n, past) ==
  \A d \in 1..n : \A q \in Skipped(c, Candidates[k][d]) : \E w \in past : w[q] = Absent

FirstSources(src_, past) ==
  \A q \in DOMAIN src_ : q \in Paths /\ \E w \in past : Same(src_[q], w[q])

(* In the middle, M is the tree; whatever the first pass read and is still  *)
(* so later was so then.                                                    *)
StillChain(c, k, M, now) ==
  \A d \in 1..Len(Candidates[k]) : \A q \in Skipped(c, Candidates[k][d]) :
    now[q] = Absent => M[q] = Absent

StillSources(src_, M, now) ==
  \A q \in DOMAIN src_ : Same(src_[q], now[q]) => M[q] = now[q]

(* What the second pass knows of M. *)
SecondChain(c, k, n, old, M) ==
  \A d \in 1..n : \A q \in Skipped(c, Candidates[k][d]) :
    q \in Skipped(old, Candidates[k][d]) => M[q] = Absent

(* at is the file whose references are being resolved, or Nowhere. *)
SecondGraph(at, queue_, todo_, graph_, M, F, now) ==
  \A q \in DOMAIN graph_ : now[q] = M[q] =>
    /\ Explained(graph_[q], SeqSet(References(q, M[q])), M, F, q)
    /\ q = at => SeqSet(todo_) \subseteq SeqSet(References(q, M[q]))
    /\ \/ q \in SeqSet(queue_) /\ q # at
       \/ Settled(SeqSet(References(q, M[q])) \ (IF q = at THEN SeqSet(todo_) ELSE {}),
                  graph_[q], M, F, q)

SecondSources(src_, graph_, c, old, M, F) ==
  \A q \in DOMAIN src_ :
    (q \in DOMAIN old /\ old[q] = src_[q]) =>
      /\ Exists(M[q]) /\ src_[q] = Fingerprint(q, M[q], graph_[q], c)
      /\ Accounted(graph_[q], M, F, q)

-----------------------------------------------------------------------------
(* One directory: what is passed over is not there now. *)
ReadsOn(c, e, k, n, now) ==
  /\ Formed(e, k, n + 1) /\ e \in Seq(Paths)
  /\ \A d \in 1..n : Skipped(e, Candidates[k][d]) \subseteq Skipped(c, Candidates[k][d])
  /\ \A q \in Skipped(e, Candidates[k][n + 1]) : now[q] = Absent

LEMMA ReadOne ==
  ASSUME NEW now, TreeOK(now), NEW k \in DOMAIN Candidates, NEW n \in Nat, n < Len(Candidates[k]),
         NEW c, Formed(c, k, n), c \in Seq(Paths), NEW e,
         e = c \o FirstInstruction(now, Candidates[k][n + 1])
  PROVE  ReadsOn(c, e, k, n, now)
<1> DEFINE names == Candidates[k][n + 1]
           s == FirstInstruction(now, names)
<1>1. names \in Seq(Paths)
  <2>1. Len(Candidates[k]) \in Nat
    BY RecordsAssumption
  <2>2. n + 1 \in 1..Len(Candidates[k])
    BY <2>1
  <2> QED BY <2>2, NamesOK
<1>2. Picks(now, names, s)
  BY <1>1, FirstPicks
<1>3. OneOf(s, names) /\ s \in Seq(Paths)
  BY <1>1, <1>2, PicksOne
<1>4. Formed(e, k, n + 1) /\ e \in Seq(Paths)
  BY <1>3, FormedNext
<1>5. SeqSet(e) = SeqSet(c) \union SeqSet(s)
  BY <1>3, SeqSetConcat
<1>6. \A d \in 1..n : Skipped(e, Candidates[k][d]) \subseteq Skipped(c, Candidates[k][d])
  BY <1>5, SkippedGrows
<1>7. ASSUME NEW q \in Skipped(e, names) PROVE now[q] = Absent
  <2>1. ~NonEmpty(now[q])
    BY <1>1, <1>2, <1>4, <1>5, SkippedEmpty
  <2>2. q \in Paths
    BY <1>1, SeqSetBasics DEF Skipped
  <2> QED BY <2>1, <2>2 DEF TreeOK, Exists
<1> QED BY <1>4, <1>6, <1>7 DEF ReadsOn

LEMMA ReadFirst ==
  ASSUME NEW now, TreeOK(now), NEW k \in DOMAIN Candidates, NEW n \in Nat, n < Len(Candidates[k]),
         NEW c, Formed(c, k, n), c \in Seq(Paths), NEW e,
         e = c \o FirstInstruction(now, Candidates[k][n + 1]),
         NEW past, now \in past, FirstChain(c, k, n, past)
  PROVE  FirstChain(e, k, n + 1, past)
<1>1. /\ \A d \in 1..n : Skipped(e, Candidates[k][d]) \subseteq Skipped(c, Candidates[k][d])
      /\ \A q \in Skipped(e, Candidates[k][n + 1]) : now[q] = Absent
  <2>1. ReadsOn(c, e, k, n, now)
    BY ReadOne
  <2> QED BY <2>1 DEF ReadsOn
<1> SUFFICES ASSUME NEW d \in 1..(n + 1), NEW q \in Skipped(e, Candidates[k][d])
             PROVE  \E w \in past : w[q] = Absent
  BY DEF FirstChain
<1>2. CASE d = n + 1
  BY <1>1, <1>2
<1>3. CASE d # n + 1
  <2>1. d \in 1..n
    BY <1>3
  <2>2. q \in Skipped(c, Candidates[k][d])
    BY <2>1, <1>1
  <2> QED BY <2>1, <2>2 DEF FirstChain
<1> QED BY <1>2, <1>3

LEMMA ReadSecond ==
  ASSUME NEW now, TreeOK(now), NEW k \in DOMAIN Candidates, NEW n \in Nat, n < Len(Candidates[k]),
         NEW c, Formed(c, k, n), c \in Seq(Paths), NEW e,
         e = c \o FirstInstruction(now, Candidates[k][n + 1]),
         NEW M, NEW old, StillChain(old, k, M, now), SecondChain(c, k, n, old, M)
  PROVE  SecondChain(e, k, n + 1, old, M)
<1>1. /\ \A d \in 1..n : Skipped(e, Candidates[k][d]) \subseteq Skipped(c, Candidates[k][d])
      /\ \A q \in Skipped(e, Candidates[k][n + 1]) : now[q] = Absent
  <2>1. ReadsOn(c, e, k, n, now)
    BY ReadOne
  <2> QED BY <2>1 DEF ReadsOn
<1> SUFFICES ASSUME NEW d \in 1..(n + 1), NEW q \in Skipped(e, Candidates[k][d]),
                    q \in Skipped(old, Candidates[k][d])
             PROVE  M[q] = Absent
  BY DEF SecondChain
<1>2. CASE d = n + 1
  <2>1. now[q] = Absent /\ d \in 1..Len(Candidates[k])
    <3>1. Len(Candidates[k]) \in Nat
      BY RecordsAssumption
    <3> QED BY <1>1, <1>2, <3>1
  <2> QED BY <2>1 DEF StillChain
<1>3. CASE d # n + 1
  <2>1. d \in 1..n
    BY <1>3
  <2>2. q \in Skipped(c, Candidates[k][d])
    BY <2>1, <1>1
  <2> QED BY <2>1, <2>2 DEF SecondChain
<1> QED BY <1>2, <1>3

(* The graph before anything is read. *)
LEMMA GraphStart ==
  ASSUME NEW c \in Seq(Paths)
  PROVE  /\ GraphOK(c, c, [q \in SeqSet(c) |-> {}])
         /\ \A E : RootsOK(c, [q \in SeqSet(c) |-> {}], E)
         /\ \A todo_, M, F, now :
              SecondGraph(Nowhere, c, todo_, [q \in SeqSet(c) |-> {}], M, F, now)
<1>1. SeqSet(c) \subseteq Paths
  BY SeqSetBasics
<1> DEFINE g == [q \in SeqSet(c) |-> {}]
<1>2. DOMAIN g = SeqSet(c) /\ \A q \in SeqSet(c) : g[q] = {}
  OBVIOUS
<1> HIDE DEF g
<1>3. GraphOK(c, c, g)
  BY <1>1, <1>2 DEF GraphOK
<1>4. \A E : RootsOK(c, g, E)
  BY <1>2 DEF RootsOK
<1>5. \A todo_, M, F, now : SecondGraph(Nowhere, c, todo_, g, M, F, now)
  <2>1. Nowhere \notin SeqSet(c)
    BY <1>1, ReferencesAssumption
  <2> QED BY <1>2, <2>1 DEF SecondGraph, Explained
<1> QED BY <1>3, <1>4, <1>5 DEF g

(* A file t joins the graph, as a target of the files of Q. *)
Joined(graph_, t, Q, e) ==
  /\ DOMAIN e = DOMAIN graph_ \union {t}
  /\ \A x \in DOMAIN graph_ : e[x] = graph_[x] \union (IF x \in Q THEN {t} ELSE {})
  /\ t \notin DOMAIN graph_ => e[t] = {}

LEMMA LocatedIs ==
  ASSUME NEW graph_, NEW t
  PROVE  /\ Joined(graph_, t, {}, Located(graph_, t))
         /\ \A q \in DOMAIN graph_ :
              Joined(graph_, t, {q}, Linked(graph_, q, t))
<1> DEFINE g == Located(graph_, t)
<1>1. /\ DOMAIN g = DOMAIN graph_ \union {t}
      /\ \A x \in DOMAIN graph_ : g[x] = graph_[x]
      /\ t \notin DOMAIN graph_ => g[t] = {}
  BY DEF Located
<1> HIDE DEF g
<1>2. Joined(graph_, t, {}, g)
  BY <1>1 DEF Joined
<1>3. ASSUME NEW q \in DOMAIN graph_
      PROVE  Joined(graph_, t, {q}, [g EXCEPT ![q] = @ \union {t}])
  BY <1>1 DEF Joined
<1> QED BY <1>2, <1>3 DEF g, Linked

Queued(queue_, graph_, t) == IF t \in DOMAIN graph_ THEN queue_ ELSE Append(queue_, t)

LEMMA QueuedIs ==
  ASSUME NEW queue_ \in Seq(Paths), NEW graph_, NEW t \in Paths
  PROVE  /\ Queued(queue_, graph_, t) \in Seq(Paths)
         /\ SeqSet(Queued(queue_, graph_, t)) = SeqSet(queue_) \union ({t} \ DOMAIN graph_)
         /\ queue_ # <<>> => /\ Queued(queue_, graph_, t) # <<>>
                             /\ Head(Queued(queue_, graph_, t)) = Head(queue_)
<1>1. CASE t \in DOMAIN graph_
  BY <1>1 DEF Queued
<1>2. CASE t \notin DOMAIN graph_
  <2>1. Queued(queue_, graph_, t) = Append(queue_, t)
    BY <1>2 DEF Queued
  <2>2. SeqSet(Append(queue_, t)) = SeqSet(queue_) \union {t}
    BY SeqSetBasics
  <2>3. Append(queue_, t) \in Seq(Paths)
    OBVIOUS
  <2>4. queue_ # <<>> => Append(queue_, t) # <<>> /\ Head(Append(queue_, t)) = Head(queue_)
    OBVIOUS
  <2> QED BY <1>2, <2>1, <2>2, <2>3, <2>4
<1> QED BY <1>1, <1>2

LEMMA JoinGraph ==
  ASSUME NEW c, NEW queue_ \in Seq(Paths), NEW graph_, GraphOK(c, queue_, graph_),
         NEW t \in Paths, NEW Q, NEW e, Joined(graph_, t, Q, e)
  PROVE  GraphOK(c, Queued(queue_, graph_, t), e)
<1>1. SeqSet(Queued(queue_, graph_, t)) = SeqSet(queue_) \union ({t} \ DOMAIN graph_)
  BY QueuedIs
<1>2. ASSUME NEW x \in DOMAIN e PROVE e[x] \subseteq DOMAIN e
  BY <1>2 DEF GraphOK, Joined
<1> QED BY <1>1, <1>2 DEF GraphOK, Joined

LEMMA JoinRoots ==
  ASSUME NEW c, NEW graph_, NEW E, RootsOK(c, graph_, E),
         NEW t, NEW Q \in SUBSET DOMAIN graph_, NEW e, Joined(graph_, t, Q, e),
         Q # {} \/ t \in E
  PROVE  RootsOK(c, e, E)
<1> SUFFICES ASSUME NEW X \in SUBSET Paths, SeqSet(c) \subseteq X, DOMAIN e \intersect E \subseteq X,
                    \A q \in X \intersect DOMAIN e : e[q] \subseteq X
             PROVE  DOMAIN e \subseteq X
  BY DEF RootsOK
<1>1. \A q \in X \intersect DOMAIN graph_ : graph_[q] \subseteq X
  BY DEF Joined
<1>2. DOMAIN graph_ \subseteq X
  BY <1>1 DEF RootsOK, Joined
<1>3. t \in X
  <2>1. CASE t \in E
    BY <2>1 DEF Joined
  <2>2. CASE Q # {}
    <3>1. PICK q \in Q : TRUE
      BY <2>2
    <3>2. q \in X \intersect DOMAIN e /\ t \in e[q]
      BY <3>1, <1>2 DEF Joined
    <3> QED BY <3>2
  <2> QED BY <2>1, <2>2
<1> QED BY <1>2, <1>3 DEF Joined

(* One more file among the roots, or one more edge, leaves the others be.  *)
LEMMA SettledMore ==
  ASSUME NEW M, NEW F, NEW q, NEW refs, NEW less, less \subseteq refs,
         NEW deps, NEW more, deps \subseteq more, Settled(refs, deps, M, F, q)
  PROVE  Settled(less, more, M, F, q)
<1> SUFFICES ASSUME NEW r \in less
             PROVE  \/ MayMean(M, F, q, r.name) \intersect more # {}
                    \/ (~r.firm /\ Nowhere \in MayMean(M, F, q, r.name))
  BY DEF Settled
<1>1. \/ MayMean(M, F, q, r.name) \intersect deps # {}
      \/ (~r.firm /\ Nowhere \in MayMean(M, F, q, r.name))
  BY DEF Settled
<1> QED BY <1>1

(* One reference of refs, the first of those left, is resolved to t. *)
LEMMA SettledOne ==
  ASSUME NEW M, NEW F, NEW q, NEW refs, NEW left \in Seq(RefSet), left # <<>>,
         NEW deps, NEW more, deps \subseteq more,
         Settled(refs \ SeqSet(left), deps, M, F, q),
         NEW t \in MayMean(M, F, q, Head(left).name),
         \/ t \in more
         \/ t = Nowhere /\ ~Head(left).firm
  PROVE  Settled(refs \ SeqSet(Tail(left)), more, M, F, q)
<1> SUFFICES ASSUME NEW r \in refs, r \notin SeqSet(Tail(left))
             PROVE  \/ MayMean(M, F, q, r.name) \intersect more # {}
                    \/ (~r.firm /\ Nowhere \in MayMean(M, F, q, r.name))
  BY DEF Settled
<1>1. SeqSet(left) = {Head(left)} \union SeqSet(Tail(left))
  BY SeqSetBasics
<1>2. CASE r = Head(left)
  BY <1>2
<1>3. CASE r # Head(left)
  <2>1. r \in refs \ SeqSet(left)
    BY <1>1, <1>3
  <2>2. \/ MayMean(M, F, q, r.name) \intersect deps # {}
        \/ (~r.firm /\ Nowhere \in MayMean(M, F, q, r.name))
    BY <2>1 DEF Settled
  <2> QED BY <2>2
<1> QED BY <1>2, <1>3

(* The second pass: an extra rule joins the graph. *)
LEMMA ExtraSecond ==
  ASSUME NEW c, NEW queue_ \in Seq(Paths), NEW graph_, GraphOK(c, queue_, graph_),
         NEW t \in Paths, NEW e, Joined(graph_, t, {}, e), NEW todo_, NEW left,
         NEW M, NEW F, NEW now, SecondGraph(Nowhere, queue_, todo_, graph_, M, F, now)
  PROVE  SecondGraph(Nowhere, Queued(queue_, graph_, t), left, e, M, F, now)
<1>1. SeqSet(Queued(queue_, graph_, t)) = SeqSet(queue_) \union ({t} \ DOMAIN graph_)
  BY QueuedIs
<1>2. \A q \in DOMAIN e : q \in Paths /\ q # Nowhere
  BY ReferencesAssumption DEF GraphOK, Joined
<1> DEFINE u == Queued(queue_, graph_, t)
<1> SUFFICES ASSUME NEW q \in DOMAIN e, now[q] = M[q]
             PROVE  /\ Explained(e[q], SeqSet(References(q, M[q])), M, F, q)
                    /\ \/ q \in SeqSet(u)
                       \/ Settled(SeqSet(References(q, M[q])), e[q], M, F, q)
  <2> DEFINE R(q) == SeqSet(References(q, M[q]))
  <2>1. \A q \in DOMAIN e : R(q) \ {} = R(q)
    OBVIOUS
  <2> HIDE DEF R
  <2> QED BY <1>2, <2>1 DEF SecondGraph, R
<1>3. CASE q \in DOMAIN graph_
  <2>1. e[q] = graph_[q]
    BY <1>3 DEF Joined
  <2> DEFINE R == SeqSet(References(q, M[q]))
  <2>2. R \ {} = R
    OBVIOUS
  <2> HIDE DEF R
  <2> QED BY <1>1, <1>2, <1>3, <2>1, <2>2 DEF SecondGraph, R
<1>4. CASE q \notin DOMAIN graph_
  <2>1. q = t /\ e[q] = {} /\ q \in SeqSet(u)
    BY <1>1, <1>4 DEF Joined
  <2> QED BY <2>1 DEF Explained
<1> QED BY <1>3, <1>4

(* The second pass: one reference of the file at the head of the queue.    *)
LEMMA ResolveSecond ==
  ASSUME NEW c, NEW queue_ \in Seq(Paths), queue_ # <<>>, NEW graph_, GraphOK(c, queue_, graph_),
         NEW q0, q0 = Head(queue_), NEW todo_ \in Seq(RefSet), todo_ # <<>>,
         NEW M, NEW F, NEW now, SecondGraph(q0, queue_, todo_, graph_, M, F, now),
         NEW t \in MayMean(M, F, q0, Head(todo_).name), NEW e, NEW u,
         \/ t \in Paths /\ Joined(graph_, t, {q0}, e) /\ u = Queued(queue_, graph_, t)
         \/ t = Nowhere /\ ~Head(todo_).firm /\ e = graph_ /\ u = queue_
  PROVE  SecondGraph(q0, u, Tail(todo_), e, M, F, now)
<1>1. /\ q0 \in DOMAIN graph_ /\ DOMAIN graph_ \subseteq DOMAIN e
      /\ \A x \in DOMAIN graph_ : x # q0 => e[x] = graph_[x]
      /\ graph_[q0] \subseteq e[q0] /\ e[q0] \subseteq graph_[q0] \union {t}
      /\ e[q0] # graph_[q0] => t \in e[q0]
  <2>1. q0 \in SeqSet(queue_)
    BY SeqSetBasics
  <2> QED BY <2>1 DEF GraphOK, Joined
<1>2. t \in e[q0] \/ (t = Nowhere /\ ~Head(todo_).firm /\ e = graph_)
  BY <1>1 DEF Joined
<1>3. /\ SeqSet(queue_) \subseteq SeqSet(u)
      /\ \A x \in DOMAIN e : x \in DOMAIN graph_ \/ (x = t /\ e[x] = {} /\ x \in SeqSet(u))
  <2>1. ASSUME t \in Paths, u = Queued(queue_, graph_, t)
        PROVE  SeqSet(u) = SeqSet(queue_) \union ({t} \ DOMAIN graph_)
    BY <2>1, QueuedIs
  <2> QED BY <2>1 DEF Joined
<1>4. SeqSet(todo_) = {Head(todo_)} \union SeqSet(Tail(todo_))
  BY SeqSetBasics
<1> SUFFICES ASSUME NEW q \in DOMAIN e, now[q] = M[q]
             PROVE  /\ Explained(e[q], SeqSet(References(q, M[q])), M, F, q)
                    /\ q = q0 => SeqSet(Tail(todo_)) \subseteq SeqSet(References(q, M[q]))
                    /\ \/ q \in SeqSet(u) /\ q # q0
                       \/ Settled(SeqSet(References(q, M[q]))
                                    \ (IF q = q0 THEN SeqSet(Tail(todo_)) ELSE {}),
                                  e[q], M, F, q)
  BY DEF SecondGraph
<1> DEFINE R == SeqSet(References(q, M[q]))
<1>5. CASE q = q0
  <2>1. /\ Explained(graph_[q], R, M, F, q) /\ SeqSet(todo_) \subseteq R
        /\ Settled(R \ SeqSet(todo_), graph_[q], M, F, q)
    BY <1>1, <1>5 DEF SecondGraph
  <2>2. Explained(e[q], R, M, F, q)
    <3> SUFFICES ASSUME NEW d \in e[q] PROVE \E r \in R : d \in MayMean(M, F, q, r.name)
      BY DEF Explained
    <3>1. CASE d = t
      BY <1>4, <1>5, <2>1, <3>1
    <3>2. CASE d # t
      <4>1. d \in graph_[q]
        BY <1>1, <1>5, <3>2
      <4> HIDE DEF R
      <4> QED BY <2>1, <4>1 DEF Explained
    <3> QED BY <3>1, <3>2
  <2>3. Settled(R \ SeqSet(Tail(todo_)), e[q], M, F, q)
    <3>1. t \in e[q] \/ (t = Nowhere /\ ~Head(todo_).firm)
      BY <1>2, <1>5
    <3>2. graph_[q] \subseteq e[q] /\ t \in MayMean(M, F, q, Head(todo_).name)
      BY <1>1, <1>5
    <3> HIDE DEF R
    <3> QED BY <2>1, <3>1, <3>2, SettledOne
  <2> HIDE DEF R
  <2>4. SeqSet(Tail(todo_)) \subseteq R
    BY <1>4, <2>1
  <2> QED BY <1>5, <2>2, <2>3, <2>4 DEF R
<1>6. CASE q # q0 /\ q \in DOMAIN graph_
  <2>1. e[q] = graph_[q]
    BY <1>1, <1>6
  <2>2. /\ Explained(graph_[q], R, M, F, q)
        /\ q \in SeqSet(queue_) \/ Settled(R \ {}, graph_[q], M, F, q)
    BY <1>6 DEF SecondGraph
  <2> HIDE DEF R
  <2> QED BY <1>3, <1>6, <2>1, <2>2 DEF R
<1>7. CASE q \notin DOMAIN graph_
  <2>1. e[q] = {} /\ q \in SeqSet(u) /\ q # q0
    BY <1>1, <1>3, <1>7
  <2> QED BY <2>1 DEF Explained
<1> QED BY <1>5, <1>6, <1>7

(* The second pass: the text at the head of the queue is read, and done.   *)
LEMMA ReadSecondText ==
  ASSUME NEW queue_, NEW todo_, NEW graph_, DOMAIN graph_ \subseteq Paths, NEW M, NEW F, NEW now,
         SecondGraph(Nowhere, queue_, todo_, graph_, M, F, now), NEW q0
  PROVE  SecondGraph(q0, queue_, References(q0, now[q0]), graph_, M, F, now)
<1> SUFFICES ASSUME NEW q \in DOMAIN graph_, now[q] = M[q]
             PROVE  /\ Explained(graph_[q], SeqSet(References(q, M[q])), M, F, q)
                    /\ q = q0 => SeqSet(References(q0, now[q0])) \subseteq SeqSet(References(q, M[q]))
                    /\ \/ q \in SeqSet(queue_) /\ q # q0
                       \/ Settled(SeqSet(References(q, M[q]))
                                    \ (IF q = q0 THEN SeqSet(References(q0, now[q0])) ELSE {}),
                                  graph_[q], M, F, q)
  BY DEF SecondGraph
<1> DEFINE R == SeqSet(References(q, M[q]))
<1>1. q # Nowhere
  BY ReferencesAssumption
<1>2. /\ Explained(graph_[q], R, M, F, q)
      /\ q \in SeqSet(queue_) \/ Settled(R \ {}, graph_[q], M, F, q)
  BY <1>1 DEF SecondGraph
<1>3. CASE q = q0
  <2>1. SeqSet(References(q0, now[q0])) = R
    BY <1>3
  <2>2. Settled(R \ R, graph_[q], M, F, q)
    <3> HIDE DEF R
    <3> QED BY DEF Settled
  <2> HIDE DEF R
  <2> QED BY <1>2, <1>3, <2>1, <2>2 DEF R
<1>4. CASE q # q0
  <2> HIDE DEF R
  <2> QED BY <1>2, <1>4 DEF R
<1> QED BY <1>3, <1>4

LEMMA EndSecondText ==
  ASSUME NEW queue_ \in Seq(Paths), queue_ # <<>>, NEW graph_, DOMAIN graph_ \subseteq Paths,
         NEW M, NEW F, NEW now, NEW todo_,
         SecondGraph(Head(queue_), queue_, <<>>, graph_, M, F, now)
  PROVE  SecondGraph(Nowhere, Tail(queue_), todo_, graph_, M, F, now)
<1> SUFFICES ASSUME NEW q \in DOMAIN graph_, now[q] = M[q]
             PROVE  /\ Explained(graph_[q], SeqSet(References(q, M[q])), M, F, q)
                    /\ q # Nowhere
                    /\ \/ q \in SeqSet(Tail(queue_))
                       \/ Settled(SeqSet(References(q, M[q])) \ {}, graph_[q], M, F, q)
  BY DEF SecondGraph
<1> DEFINE R == SeqSet(References(q, M[q]))
<1>1. q # Nowhere
  BY ReferencesAssumption
<1>2. SeqSet(queue_) = {Head(queue_)} \union SeqSet(Tail(queue_))
  BY SeqSetBasics
<1>3. SeqSet(<<>>) = {}
  BY DEF SeqSet
<1>4. /\ Explained(graph_[q], R, M, F, q)
      /\ \/ q \in SeqSet(queue_) /\ q # Head(queue_)
         \/ Settled(R \ {}, graph_[q], M, F, q)
  BY <1>3 DEF SecondGraph
<1> HIDE DEF R
<1> QED BY <1>1, <1>2, <1>4 DEF R

-----------------------------------------------------------------------------
(* What an operation knows of the chain it has read; of the first pass,    *)
(* during the second; and of the sources.                                  *)
ReadingReasons ==
  {"INSTRUCTION_OUTSIDE_REPOSITORY", "DISCOVERY_SIZE_LIMIT_EXCEEDED",
   "REPOSITORY_INSTRUCTION_CHAIN_EMPTY", "RULE_SOURCE_ENCODING_UNSUPPORTED",
   "UNRESOLVED_REFERENCE"}

ChainPart(k, n, c, why) ==
  /\ n \in 0..Len(Candidates[k]) /\ c \in Seq(Paths) /\ Formed(c, k, n)
  /\ why \subseteq ReadingReasons

OldPart(k, rec, M, now, past) ==
  /\ FirstChain(rec.chain, k, Len(Candidates[k]), past) /\ FirstSources(rec.src, past)
  /\ StillChain(rec.chain, k, M, now) /\ StillSources(rec.src, M, now)

GraphPart(k, n, c, queue_, graph_, src_, why) ==
  /\ n = Len(Candidates[k])
  /\ GraphOK(c, queue_, graph_) /\ queue_ \in Seq(Paths)
  /\ DOMAIN src_ \subseteq DOMAIN graph_ /\ src_ = [q \in DOMAIN src_ |-> src_[q]]
  /\ queue_ # <<>> => DOMAIN src_ = {}
  /\ why = {} => ~(SeqSet(c) \subseteq GlobalPaths)

Reading(p) == pc[p] \in Passing
Searching(p) == pc[p] \in {"index", "discover", "resolve"}

(* The file whose references are being resolved, the extra rules that are  *)
(* still to be.                                                            *)
At(p) == IF pc[p] = "resolve" THEN Head(queue[p]) ELSE Nowhere
Left(p) == IF pc[p] = "index" THEN SeqSet(todo[p]) ELSE {}

WalkPart(p) ==
  /\ todo[p] \in Seq(RefSet) /\ walk[p] \intersect listed[p] = {}
  /\ pc[p] = "index" => src[p] = <<>> /\ SeqSet(todo[p]) \subseteq SeqSet(Extra[cfg[p]])
  /\ pc[p] # "index" => walk[p] = {}
  /\ pc[p] = "resolve" => queue[p] # <<>>

SecondFinds(p) ==
  /\ ListedOK(walk[p], listed[p], mid[p].tree, flux[p])
  /\ RootsOK(chain[p], graph[p], ExtraMeans(mid[p].tree, flux[p], cfg[p]))

SecondKnows(p) ==
  /\ Settled(SeqSet(Extra[cfg[p]]) \ Left(p), DOMAIN graph[p], mid[p].tree, flux[p], Root)
  /\ SecondGraph(At(p), queue[p], todo[p], graph[p], mid[p].tree, flux[p], tree)
  /\ SecondSources(src[p], graph[p], chain[p], first[p].src, mid[p].tree, flux[p])

IsSnapshot(p) ==
  IsRecordOf(Captured(p), cfg[p], mid[p].tree, flux[p]) /\ ValidRecord(Captured(p))

PassInv(p) ==
  /\ Reading(p) => ChainPart(cfg[p], dir[p], chain[p], reasons[p])
  /\ Reading(p) /\ pass[p] = 1 => FirstChain(chain[p], cfg[p], dir[p], trees)
  /\ Reading(p) /\ pass[p] = 2 =>
       /\ OldPart(cfg[p], first[p], mid[p].tree, tree, trees)
       /\ SecondChain(chain[p], cfg[p], dir[p], first[p].chain, mid[p].tree)
       /\ FluxOK(mid[p].tree, tree, flux[p])
  /\ pc[p] = "chain" => src[p] = <<>>
  /\ Searching(p) =>
       /\ GraphPart(cfg[p], dir[p], chain[p], queue[p], graph[p], src[p], reasons[p])
       /\ WalkPart(p)
  /\ Searching(p) /\ pass[p] = 1 => FirstSources(src[p], trees)
  /\ Searching(p) /\ pass[p] = 2 => SecondFinds(p)
  /\ Searching(p) /\ pass[p] = 2 /\ reasons[p] = {} => SecondKnows(p)
  /\ pc[p] \in {"write", "replace"} => IsSnapshot(p)
  /\ op[p] = "check" => pc[p] \notin {"lock", "write", "replace", "unlock"} /\ stage[p] = "initial"

CheckOK(p) ==
  op[p] = "check" /\ pc[p] = "done" /\ plan[p].reasons \subseteq StableReasons
  => IsRecordOf(seen[p], cfg[p], mid[p].tree, flux[p])

PassShape ==
  /\ dir = [p \in Proc |-> dir[p]] /\ queue = [p \in Proc |-> queue[p]]
  /\ walk = [p \in Proc |-> walk[p]] /\ listed = [p \in Proc |-> listed[p]]
  /\ graph = [p \in Proc |-> graph[p]] /\ todo = [p \in Proc |-> todo[p]]
  /\ reasons = [p \in Proc |-> reasons[p]] /\ flux = [p \in Proc |-> flux[p]]
  /\ first = [p \in Proc |-> first[p]] /\ plan = [p \in Proc |-> plan[p]]

TreesInv ==
  /\ tree \in trees
  /\ \A p \in Proc : mid[p].tree \in trees
  /\ \A t \in trees : t = [q \in Paths |-> t[q]] /\ TreeOK(t)

SnapshotInv ==
  /\ Inv /\ PassShape /\ TreesInv /\ StoredIsSnapshot
  /\ \A p \in Proc : PassInv(p) /\ CheckOK(p)

(* No path gets back what it had, and no file is blank: an instruction name *)
(* passes over a blank file as over none, so a name that is absent, has a   *)
(* text while the passes change, and is blank again is missed by both.      *)
NeverBack ==
  /\ ~Restore
  /\ \A q \in Paths : NonEmpty(InitTree[q]) <=> Exists(InitTree[q])
  /\ \A e \in EditSet : NonEmpty(e[2]) <=> Exists(e[2])

-----------------------------------------------------------------------------
(* An edit brings a path a content it never had. *)
Moved(r, c, now, after, past) ==
  /\ r \in Paths /\ ContentOK(c) /\ after[r] = c
  /\ \A q \in Paths : q # r => after[q] = now[q]
  /\ \A t \in past : t[r] # c /\ TreeOK(t)

LEMMA EditOld ==
  ASSUME NEW k \in DOMAIN Candidates, NEW rec, NEW M, NEW now, NEW past, NEW r, NEW c, NEW after,
         NEW more, past \subseteq more, Moved(r, c, now, after, past),
         OldPart(k, rec, M, now, past)
  PROVE  OldPart(k, rec, M, after, more)
<1>1. /\ FirstChain(rec.chain, k, Len(Candidates[k]), past) /\ FirstSources(rec.src, past)
      /\ StillChain(rec.chain, k, M, now) /\ StillSources(rec.src, M, now)
  BY DEF OldPart
<1>2. FirstChain(rec.chain, k, Len(Candidates[k]), more) /\ FirstSources(rec.src, more)
  BY <1>1 DEF FirstChain, FirstSources
<1>3. StillChain(rec.chain, k, M, after)
  <2> SUFFICES ASSUME NEW d \in 1..Len(Candidates[k]), NEW q \in Skipped(rec.chain, Candidates[k][d]),
                      after[q] = Absent
               PROVE  M[q] = Absent
    BY DEF StillChain
  <2>1. q \in Paths
    <3>1. Candidates[k][d] \in Seq(Paths)
      BY NamesOK
    <3> QED BY <3>1, SeqSetBasics DEF Skipped
  <2>2. PICK w \in past : w[q] = Absent
    BY <1>1 DEF FirstChain
  <2>3. q # r
    BY <2>2 DEF Moved
  <2>4. now[q] = Absent
    BY <2>1, <2>3 DEF Moved
  <2> QED BY <2>4, <1>1 DEF StillChain
<1>4. StillSources(rec.src, M, after)
  <2> SUFFICES ASSUME NEW q \in DOMAIN rec.src, Same(rec.src[q], after[q])
               PROVE  M[q] = after[q]
    BY DEF StillSources
  <2>1. q \in Paths
    BY <1>1 DEF FirstSources
  <2>2. PICK w \in past : Same(rec.src[q], w[q])
    BY <1>1 DEF FirstSources
  <2>3. q # r
    <3> SUFFICES ASSUME q = r PROVE FALSE
      OBVIOUS
    <3>1. ContentOK(c) /\ ContentOK(w[q]) /\ w[q] # c /\ after[q] = c
      BY <2>1, <2>2 DEF Moved, TreeOK
    <3>2. c = [text |-> c.text, eol |-> c.eol, git |-> c.git]
      BY <3>1 DEF ContentOK, Same, Exists
    <3>3. w[q] = [text |-> w[q].text, eol |-> w[q].eol, git |-> w[q].git]
      BY <3>1, <2>2 DEF ContentOK, Same, Exists
    <3>4. c.text = w[q].text /\ c.eol = w[q].eol /\ c.git = w[q].git
      BY <3>1, <2>2 DEF Same
    <3> QED BY <3>1, <3>2, <3>3, <3>4
  <2>4. Same(rec.src[q], now[q]) /\ after[q] = now[q]
    BY <2>1, <2>3 DEF Moved
  <2> QED BY <2>4, <1>1 DEF StillSources
<1> QED BY <1>2, <1>3, <1>4 DEF OldPart

LEMMA EditGraph ==
  ASSUME NEW at, NEW queue_, NEW todo_, NEW graph_, DOMAIN graph_ \subseteq Paths,
         NEW M, NEW F, NEW G, F \subseteq G, NEW now, NEW past, M \in past, NEW r, NEW x, NEW after,
         Moved(r, x, now, after, past), SecondGraph(at, queue_, todo_, graph_, M, F, now)
  PROVE  SecondGraph(at, queue_, todo_, graph_, M, G, after)
<1> DEFINE R(q) == SeqSet(References(q, M[q]))
           L(q) == R(q) \ (IF q = at THEN SeqSet(todo_) ELSE {})
<1>1. ASSUME NEW q \in DOMAIN graph_, after[q] = M[q]
      PROVE  /\ Explained(graph_[q], R(q), M, G, q)
             /\ q = at => SeqSet(todo_) \subseteq R(q)
             /\ \/ q \in SeqSet(queue_) /\ q # at
                \/ Settled(L(q), graph_[q], M, G, q)
  <2>1. q # r
    BY <1>1 DEF Moved
  <2>2. now[q] = M[q]
    BY <1>1, <2>1 DEF Moved
  <2>3. /\ Explained(graph_[q], R(q), M, F, q)
        /\ q = at => SeqSet(todo_) \subseteq R(q)
        /\ \/ q \in SeqSet(queue_) /\ q # at
           \/ Settled(L(q), graph_[q], M, F, q)
    BY <2>2 DEF SecondGraph
  <2> HIDE DEF R, L
  <2>4. /\ Explained(graph_[q], R(q), M, F, q) => Explained(graph_[q], R(q), M, G, q)
        /\ Settled(L(q), graph_[q], M, F, q) => Settled(L(q), graph_[q], M, G, q)
    BY ReasonsGrow
  <2> QED BY <2>3, <2>4
<1> QED BY <1>1 DEF SecondGraph

LEMMA EditFound ==
  ASSUME NEW M, NEW F, NEW G, F \subseteq G
  PROVE  /\ \A u, v : ListedOK(u, v, M, F) => ListedOK(u, v, M, G)
         /\ \A c, g, k : RootsOK(c, g, ExtraMeans(M, F, k)) => RootsOK(c, g, ExtraMeans(M, G, k))
         /\ \A refs, deps, q : Settled(refs, deps, M, F, q) => Settled(refs, deps, M, G, q)
         /\ \A s, g, c, old : SecondSources(s, g, c, old, M, F) => SecondSources(s, g, c, old, M, G)
<1>1. \A u, v : ListedOK(u, v, M, F) => ListedOK(u, v, M, G)
  BY DEF ListedOK
<1>2. ASSUME NEW c, NEW g, NEW k, RootsOK(c, g, ExtraMeans(M, F, k))
      PROVE  RootsOK(c, g, ExtraMeans(M, G, k))
  <2>1. ExtraMeans(M, F, k) \subseteq ExtraMeans(M, G, k)
    BY ExtraGrows
  <2> QED BY <1>2, <2>1 DEF RootsOK
<1>3. \A refs, deps, q : Settled(refs, deps, M, F, q) => Settled(refs, deps, M, G, q)
  BY ReasonsGrow
<1>4. \A s, g, c, old : SecondSources(s, g, c, old, M, F) => SecondSources(s, g, c, old, M, G)
  <2>1. \A g, q : Accounted(g[q], M, F, q) => Accounted(g[q], M, G, q)
    BY AccountedGrows
  <2> QED BY <2>1 DEF SecondSources
<1> QED BY <1>1, <1>2, <1>3, <1>4

(* One fingerprint of the second pass: s is u with a fingerprint f of q.  *)
Extends(s, u, q, f) ==
  /\ DOMAIN s = DOMAIN u \union {q} /\ s[q] = f
  /\ \A t \in DOMAIN u : t # q => s[t] = u[t]

LEMMA TakeSecond ==
  ASSUME NEW c, NEW todo_, NEW graph_, DOMAIN graph_ \subseteq Paths, NEW src_, NEW old,
         NEW M, NEW F, NEW now,
         SecondGraph(Nowhere, <<>>, todo_, graph_, M, F, now),
         SecondSources(src_, graph_, c, old, M, F), StillSources(old, M, now),
         NEW q \in DOMAIN graph_, Exists(now[q]), NEW s,
         Extends(s, src_, q, Fingerprint(q, now[q], graph_[q], c))
  PROVE  SecondSources(s, graph_, c, old, M, F)
<1> USE DEF Extends
<1> SUFFICES ASSUME NEW t \in DOMAIN s, t \in DOMAIN old, old[t] = s[t]
             PROVE  /\ Exists(M[t]) /\ s[t] = Fingerprint(t, M[t], graph_[t], c)
                    /\ Accounted(graph_[t], M, F, t)
  BY DEF SecondSources
<1>1. CASE t = q
  <2>1. old[q] = Fingerprint(q, now[q], graph_[q], c)
    BY <1>1
  <2>2. Same(old[q], now[q])
    BY <2>1 DEF Same, Fingerprint
  <2>3. M[q] = now[q]
    BY <2>2, <1>1 DEF StillSources
  <2>4. q \notin SeqSet(<<>>) /\ q # Nowhere
    BY ReferencesAssumption DEF SeqSet
  <2>5. Accounted(graph_[q], M, F, q)
    <3> DEFINE R == SeqSet(References(q, M[q]))
    <3>1. Explained(graph_[q], R, M, F, q) /\ Settled(R \ {}, graph_[q], M, F, q)
      BY <2>3, <2>4 DEF SecondGraph
    <3>2. R \ {} = R
      OBVIOUS
    <3> HIDE DEF R
    <3>3. Settled(R, graph_[q], M, F, q)
      BY <3>1, <3>2
    <3> QED BY <3>1, <3>3, AccountedIs DEF R
  <2> QED BY <1>1, <2>3, <2>5
<1>2. CASE t # q
  BY <1>2 DEF SecondSources
<1> QED BY <1>1, <1>2

(* The end of a second pass that found what the first one found.           *)
LEMMA SecondDone ==
  ASSUME NEW k \in DOMAIN Candidates, NEW n, NEW c, NEW graph_, NEW src_, NEW M, TreeOK(M), NEW F,
         NEW rec, ChainPart(k, n, c, {}), GraphPart(k, n, c, <<>>, graph_, src_, {}),
         SecondChain(c, k, n, rec.chain, M), SecondSources(src_, graph_, c, rec.src, M, F),
         RootsOK(c, graph_, ExtraMeans(M, F, k)),
         Settled(SeqSet(Extra[k]), DOMAIN graph_, M, F, Root),
         DOMAIN src_ = DOMAIN graph_, rec = [cfg |-> Settings[k], chain |-> c, src |-> src_]
  PROVE  IsRecordOf(rec, k, M, F) /\ ValidRecord(rec)
<1>1. rec.chain = c /\ rec.src = src_
  OBVIOUS
<1>2. Formed(c, k, Len(Candidates[k])) /\ GraphOK(c, <<>>, graph_) /\ ~(SeqSet(c) \subseteq GlobalPaths)
  BY DEF ChainPart, GraphPart
<1>3. \A d \in 1..Len(Candidates[k]) : \A q \in Skipped(c, Candidates[k][d]) : M[q] = Absent
  BY <1>1 DEF SecondChain, GraphPart
<1>4. SourcesOK(M, F, c, graph_, src_)
  BY <1>1 DEF SecondSources, SourcesOK
<1>5. src_ = [q \in DOMAIN graph_ |-> src_[q]]
  BY DEF GraphPart
<1> QED BY <1>2, <1>3, <1>4, <1>5, RecordIs

-----------------------------------------------------------------------------
(* A step of another process. *)
OwnKept(q) ==
  /\ pc'[q] = pc[q] /\ chain'[q] = chain[q] /\ dir'[q] = dir[q]
  /\ walk'[q] = walk[q] /\ listed'[q] = listed[q] /\ queue'[q] = queue[q]
  /\ graph'[q] = graph[q] /\ todo'[q] = todo[q] /\ src'[q] = src[q] /\ reasons'[q] = reasons[q]

Untouched(q) ==
  /\ OwnKept(q)
  /\ op'[q] = op[q] /\ cfg'[q] = cfg[q] /\ stage'[q] = stage[q] /\ pass'[q] = pass[q]
  /\ first'[q] = first[q] /\ seen'[q] = seen[q] /\ plan'[q] = plan[q]
  /\ mid'[q] = mid[q] /\ flux'[q] = flux[q]

LEMMA UntouchedKeeps ==
  ASSUME NEW q \in Proc, PassInv(q), CheckOK(q), Untouched(q), UNCHANGED <<tree, trees>>
  PROVE  PassInv(q)' /\ CheckOK(q)'
<1>1. /\ WalkPart(q)' <=> WalkPart(q)
      /\ SecondFinds(q)' <=> SecondFinds(q)
      /\ IsSnapshot(q)' <=> IsSnapshot(q)
  BY DEF WalkPart, SecondFinds, IsSnapshot, Captured, Untouched, OwnKept
<1>2. At(q)' = At(q) /\ Left(q)' = Left(q)
  BY DEF At, Left, Untouched, OwnKept
<1>3. SecondKnows(q)' <=> SecondKnows(q)
  BY <1>2 DEF SecondKnows, Untouched, OwnKept
<1>4. PassInv(q)'
  BY <1>1, <1>3 DEF PassInv, Reading, Searching, Untouched, OwnKept
<1>5. CheckOK(q)'
  BY DEF CheckOK, Untouched, OwnKept
<1> QED BY <1>4, <1>5

(* The operation of p has its outcome. *)
LEMMA ConcludePass ==
  ASSUME SnapshotInv, NEW p \in Proc, NEW outcome, Conclude(p, outcome),
         UNCHANGED <<tree, trees, op, cfg, stage, mid, flux>>,
         \A q \in Proc : q # p => seen'[q] = seen[q],
         op[p] = "check" /\ outcome.reasons \subseteq StableReasons
           => IsRecordOf(seen'[p], cfg[p], mid[p].tree, flux[p])
  PROVE  PassShape' /\ TreesInv' /\ \A q \in Proc : PassInv(q)' /\ CheckOK(q)'
<1> USE DEF SnapshotInv, Inv, CacheTypeOK
<1>1. PassShape'
  BY DEF PassShape, Conclude, ForgetPass
<1>2. TreesInv'
  BY DEF TreesInv
<1>3. ASSUME NEW q \in Proc, q # p PROVE PassInv(q)' /\ CheckOK(q)'
  <2>1. Untouched(q)
    BY <1>3 DEF Untouched, OwnKept, Conclude, ForgetPass, PassShape, Shape
  <2> QED BY <2>1, UntouchedKeeps
<1>4. pc'[p] = (IF stage[p] = "locked" THEN "unlock" ELSE "done") /\ plan'[p] = outcome
  BY DEF Conclude, PassShape
<1>5. PassInv(p)'
  <2>1. op[p] = "check" => stage[p] = "initial"
    BY DEF PassInv
  <2> QED BY <1>4, <2>1 DEF PassInv, Reading, Searching, Passing
<1>6. CheckOK(p)'
  BY <1>4 DEF CheckOK
<1> QED BY <1>1, <1>2, <1>3, <1>5, <1>6

LEMMA FailPass ==
  ASSUME SnapshotInv, NEW p \in Proc, Fail(p),
         UNCHANGED <<tree, trees, op, cfg, stage, mid, flux, seen>>
  PROVE  PassShape' /\ TreesInv' /\ \A q \in Proc : PassInv(q)' /\ CheckOK(q)'
<1>1. Conclude(p, Failed)
  BY DEF Fail
<1>2. ~(Failed.reasons \subseteq StableReasons)
  BY DEF Failed, Plan, StableReasons, Damages
<1>3. \A q \in Proc : q # p => seen'[q] = seen[q]
  OBVIOUS
<1> HIDE DEF Failed
<1> QED BY <1>1, <1>2, <1>3, ConcludePass

(* A pass begins. *)
LEMMA BeginPassKeeps ==
  ASSUME SnapshotInv, NEW p \in Proc, NEW n \in {1, 2}, BeginPass(p, n),
         UNCHANGED <<tree, trees>>,
         op' \in [Proc -> {"check", "record", "adapter"}], cfg' \in [Proc -> Configs],
         stage' \in [Proc -> {"initial", "locked"}],
         plan' = [q \in Proc |-> plan'[q]], first' = [q \in Proc |-> first'[q]],
         mid' = [q \in Proc |-> mid'[q]], flux' = [q \in Proc |-> flux'[q]], seen' = seen,
         \A q \in Proc : q # p =>
           /\ op'[q] = op[q] /\ cfg'[q] = cfg[q] /\ stage'[q] = stage[q]
           /\ plan'[q] = plan[q] /\ first'[q] = first[q]
           /\ mid'[q] = mid[q] /\ flux'[q] = flux[q],
         mid'[p].tree \in trees,
         op'[p] = "check" => stage'[p] = "initial",
         n = 2 => /\ OldPart(cfg'[p], first'[p], mid'[p].tree, tree, trees)
                  /\ FluxOK(mid'[p].tree, tree, flux'[p])
  PROVE  PassShape' /\ TreesInv' /\ \A q \in Proc : PassInv(q)' /\ CheckOK(q)'
<1> USE DEF SnapshotInv, Inv, CacheTypeOK
<1>1. PassShape'
  BY DEF PassShape, BeginPass
<1>2. TreesInv'
  BY DEF TreesInv
<1>3. ASSUME NEW q \in Proc, q # p PROVE PassInv(q)' /\ CheckOK(q)'
  <2>1. Untouched(q)
    BY <1>3 DEF Untouched, OwnKept, BeginPass, PassShape, Shape
  <2> QED BY <2>1, UntouchedKeeps
<1>4. /\ pc'[p] = "chain" /\ pass'[p] = n /\ chain'[p] = <<>> /\ dir'[p] = 0
      /\ src'[p] = <<>> /\ reasons'[p] = {}
  BY DEF BeginPass, PassShape, Shape
<1>5. cfg'[p] \in DOMAIN Candidates
  BY TreeAssumption
<1>6. ChainPart(cfg'[p], 0, <<>>, {})
  <2>1. Len(Candidates[cfg'[p]]) \in Nat
    BY <1>5, RecordsAssumption
  <2>2. Formed(<<>>, cfg'[p], 0)
    BY FormedStart
  <2>3. 0 \in 0..Len(Candidates[cfg'[p]]) /\ <<>> \in Seq(Paths) /\ {} \subseteq ReadingReasons
    BY <2>1
  <2> QED BY <2>2, <2>3 DEF ChainPart
<1>7. /\ \A past : FirstChain(<<>>, cfg'[p], 0, past)
      /\ \A old, M : SecondChain(<<>>, cfg'[p], 0, old, M)
  BY DEF FirstChain, SecondChain
<1>8. PassInv(p)'
  BY <1>4, <1>6, <1>7 DEF PassInv, Reading, Searching, Passing
<1>9. CheckOK(p)'
  BY <1>4 DEF CheckOK
<1> QED BY <1>1, <1>2, <1>3, <1>8, <1>9

-----------------------------------------------------------------------------
(* What the files of a step that replaces no record leave to show. *)
PassesKept == PassShape /\ TreesInv /\ \A q \in Proc : PassInv(q) /\ CheckOK(q)

LEMMA EditPass ==
  ASSUME SnapshotInv, NeverBack, NEW e \in EditSet, Edit(e[1], e[2])
  PROVE  PassesKept'
<1> USE DEF SnapshotInv, Inv, CacheTypeOK
<1> DEFINE r == e[1]
           c == e[2]
           more(q) == IF Rereading(q) /\ Exists(c) # Exists(tree[r])
                      THEN flux[q] \union {r} ELSE flux[q]
<1>1. r \in Paths /\ ContentOK(c) /\ (NonEmpty(c) <=> Exists(c))
  BY TreeAssumption DEF NeverBack
<1>2. /\ tree' = [tree EXCEPT ![r] = c] /\ trees' = trees \union {tree'}
      /\ \A t \in trees : t[r] # c
      /\ flux' = [q \in Proc |-> more(q)]
      /\ UNCHANGED <<pc, op, cfg, stage, pass, chain, dir, walk, listed, queue, graph, todo,
                     src, reasons, first, expect, seen, plan, mid>>
  BY DEF Edit, NeverBack, passVars
<1>3. /\ tree \in trees /\ \A p \in Proc : mid[p].tree \in trees
      /\ \A t \in trees : t = [q \in Paths |-> t[q]] /\ TreeOK(t)
  BY DEF TreesInv
<1>4. tree'[r] = c /\ \A q \in Paths : q # r => tree'[q] = tree[q]
  BY <1>1, <1>2, <1>3
<1>5. Moved(r, c, tree, tree', trees)
  BY <1>1, <1>2, <1>3, <1>4 DEF Moved
<1>6. TreesInv'
  <2>1. tree' = [q \in Paths |-> tree'[q]]
    BY <1>2, <1>3
  <2>2. TreeOK(tree')
    BY <1>1, <1>3, <1>4 DEF TreeOK
  <2> QED BY <1>2, <1>3, <2>1, <2>2 DEF TreesInv
<1>7. PassShape'
  <2>1. flux' = [q \in Proc |-> flux'[q]]
    <3> HIDE DEF more
    <3> QED BY <1>2
  <2> QED BY <1>2, <2>1 DEF PassShape
<1>8. ASSUME NEW q \in Proc
      PROVE  /\ flux'[q] = more(q) /\ flux[q] \subseteq flux'[q]
             /\ ~(Reading(q) /\ pass[q] = 2) => flux'[q] = flux[q]
  <2>1. flux'[q] = more(q)
    <3> HIDE DEF more
    <3> QED BY <1>2
  <2> QED BY <2>1 DEF Rereading, Reading, Passing
<1>9. ASSUME NEW q \in Proc, Reading(q), pass[q] = 2, FluxOK(mid[q].tree, tree, flux[q])
      PROVE  FluxOK(mid[q].tree, tree', flux'[q])
  <2>1. Rereading(q)
    BY <1>9 DEF Rereading, Reading, Passing
  <2> SUFFICES ASSUME NEW t \in Paths, t \notin flux'[q]
               PROVE  Exists(tree'[t]) <=> Exists(mid[q].tree[t])
    BY DEF FluxOK
  <2>2. t \notin flux[q] /\ (Exists(tree[t]) <=> Exists(mid[q].tree[t]))
    BY <1>8, <1>9 DEF FluxOK
  <2>3. CASE t = r
    <3>1. Exists(c) = Exists(tree[r])
      BY <1>8, <2>1, <2>3
    <3> QED BY <1>4, <2>2, <2>3, <3>1
  <2>4. CASE t # r
    BY <1>4, <2>2, <2>4
  <2> QED BY <2>3, <2>4
<1> HIDE DEF r, c, more
<1>10. ASSUME NEW q \in Proc PROVE PassInv(q)' /\ CheckOK(q)'
  <2>1. CheckOK(q)'
    <3>1. pc[q] = "done" => flux'[q] = flux[q]
      BY <1>8 DEF Reading, Passing
    <3> QED BY <1>2, <3>1 DEF CheckOK
  <2>2. cfg[q] \in DOMAIN Candidates /\ trees \subseteq trees'
    BY <1>2, TreeAssumption
  <2>3. \A k, n, d : FirstChain(d, k, n, trees) => FirstChain(d, k, n, trees')
    BY <2>2 DEF FirstChain
  <2>4. \A s : FirstSources(s, trees) => FirstSources(s, trees')
    BY <2>2 DEF FirstSources
  <2>5. ASSUME NEW rec, OldPart(cfg[q], rec, mid[q].tree, tree, trees)
        PROVE  OldPart(cfg[q], rec, mid[q].tree, tree', trees')
    BY <2>2, <2>5, <1>5, EditOld
  <2>6. SecondFinds(q) => SecondFinds(q)'
    <3>1. flux[q] \subseteq flux'[q]
      BY <1>8
    <3> QED BY <1>2, <3>1, EditFound DEF SecondFinds
  <2>7. ASSUME Searching(q), SecondKnows(q) PROVE SecondKnows(q)'
    <3>1. DOMAIN graph[q] \subseteq Paths
      BY <2>7 DEF PassInv, GraphPart, GraphOK
    <3>2. flux[q] \subseteq flux'[q]
      BY <1>8
    <3>3. SecondGraph(At(q), queue[q], todo[q], graph[q], mid[q].tree, flux'[q], tree')
      BY <3>1, <3>2, <2>7, <1>3, <1>5, EditGraph DEF SecondKnows
    <3>4. At(q)' = At(q) /\ Left(q)' = Left(q)
      BY <1>2 DEF At, Left
    <3>5. /\ Settled(SeqSet(Extra[cfg[q]]) \ Left(q), DOMAIN graph[q], mid[q].tree, flux'[q], Root)
          /\ SecondSources(src[q], graph[q], chain[q], first[q].src, mid[q].tree, flux'[q])
      BY <2>7, <3>2, EditFound DEF SecondKnows
    <3> QED BY <1>2, <3>3, <3>4, <3>5 DEF SecondKnows
  <2>8. pc[q] \in {"write", "replace"} /\ IsSnapshot(q) => IsSnapshot(q)'
    <3>1. pc[q] \in {"write", "replace"} => flux'[q] = flux[q]
      BY <1>8 DEF Reading, Passing
    <3> QED BY <1>2, <3>1 DEF IsSnapshot, Captured
  <2>9. WalkPart(q) => WalkPart(q)'
    BY <1>2 DEF WalkPart
  <2>10. PassInv(q)
    OBVIOUS
  <2>11. Reading(q)' = Reading(q) /\ Searching(q)' = Searching(q)
    BY <1>2 DEF Reading, Searching
  <2>12. PassInv(q)'
    BY <1>2, <1>9, <2>3, <2>4, <2>5, <2>6, <2>7, <2>8, <2>9, <2>10, <2>11 DEF PassInv
  <2> QED BY <2>1, <2>12
<1> QED BY <1>6, <1>7, <1>10 DEF PassesKept

(* A step of p that touches only what it has read. *)
LEMMA ReadKeeps ==
  ASSUME SnapshotInv, NEW p \in Proc, PassShape',
         UNCHANGED <<tree, trees, op, cfg, stage, pass, seen, plan, mid, flux, first>>,
         pc'[p] # "done", \A q \in Proc : q # p => OwnKept(q), PassInv(p)'
  PROVE  PassesKept'
<1> USE DEF SnapshotInv
<1>1. TreesInv'
  BY DEF TreesInv
<1>2. ASSUME NEW q \in Proc, q # p PROVE PassInv(q)' /\ CheckOK(q)'
  <2>1. Untouched(q)
    BY <1>2 DEF Untouched
  <2> QED BY <2>1, UntouchedKeeps
<1>3. CheckOK(p)'
  BY DEF CheckOK
<1> QED BY <1>1, <1>2, <1>3 DEF PassesKept

LEMMA ReadDirectoryPass ==
  ASSUME SnapshotInv, NEW p \in Proc, ReadDirectory(p)
  PROVE  PassesKept'
<1> USE DEF SnapshotInv, Inv, CacheTypeOK
<1> DEFINE k == cfg[p]
           n == dir[p]
           c == chain[p]
           e == c \o FirstInstruction(tree, Candidates[k][n + 1])
           why == IF OutsideSeen(tree, Candidates[k][n + 1])
                  THEN {"INSTRUCTION_OUTSIDE_REPOSITORY"} ELSE {}
<1>1. /\ pc[p] = "chain" /\ n < Len(Candidates[k])
      /\ chain' = [chain EXCEPT ![p] = e]
      /\ reasons' = [reasons EXCEPT ![p] = reasons[p] \union why]
      /\ dir' = [dir EXCEPT ![p] = n + 1]
      /\ UNCHANGED <<tree, trees, pc, op, cfg, stage, pass, seen, plan, mid, flux, first, walk,
                     listed, queue, graph, todo, src>>
  BY DEF ReadDirectory, treeVars
<1>2. chain'[p] = e /\ reasons'[p] = reasons[p] \union why /\ dir'[p] = n + 1
  BY <1>1 DEF PassShape, Shape
<1>3. k \in DOMAIN Candidates /\ TreeOK(tree) /\ tree \in trees
  BY TreeAssumption DEF TreesInv
<1>4. /\ n \in Nat /\ c \in Seq(Paths) /\ Formed(c, k, n) /\ reasons[p] \subseteq ReadingReasons
      /\ Len(Candidates[k]) \in Nat
  BY <1>1, <1>3, RecordsAssumption DEF PassInv, Reading, Passing, ChainPart
<1>5. why \subseteq ReadingReasons
  BY DEF ReadingReasons
<1> HIDE DEF why
<1>6. Formed(e, k, n + 1) /\ e \in Seq(Paths)
  <2>1. ReadsOn(c, e, k, n, tree)
    <3> HIDE DEF k, n, c
    <3> QED BY <1>1, <1>3, <1>4, ReadOne
  <2> QED BY <2>1 DEF ReadsOn
<1>7. ChainPart(k, n + 1, e, reasons[p] \union why)
  <2> HIDE DEF e, k, n
  <2> QED BY <1>1, <1>4, <1>5, <1>6 DEF ChainPart
<1>8. ASSUME pass[p] = 1 PROVE FirstChain(e, k, n + 1, trees)
  <2>1. FirstChain(c, k, n, trees)
    BY <1>8, <1>1 DEF PassInv, Reading, Passing
  <2> HIDE DEF k, n, c
  <2> QED BY <2>1, <1>1, <1>3, <1>4, ReadFirst
<1>9. ASSUME pass[p] = 2 PROVE SecondChain(e, k, n + 1, first[p].chain, mid[p].tree)
  <2>1. /\ StillChain(first[p].chain, k, mid[p].tree, tree)
        /\ SecondChain(c, k, n, first[p].chain, mid[p].tree)
    BY <1>9, <1>1 DEF PassInv, Reading, Passing, OldPart
  <2> HIDE DEF k, n, c
  <2> QED BY <2>1, <1>1, <1>3, <1>4, ReadSecond
<1>10. PassInv(p)
  OBVIOUS
<1>11. PassInv(p)'
  <2> HIDE DEF e
  <2> QED BY <1>1, <1>2, <1>7, <1>8, <1>9, <1>10 DEF PassInv, Reading, Searching
<1>12. PassShape'
  BY <1>1 DEF PassShape
<1>13. \A q \in Proc : q # p => OwnKept(q)
  BY <1>1 DEF PassShape, Shape, OwnKept
<1>14. pc'[p] # "done"
  BY <1>1
<1> HIDE DEF SnapshotInv
<1> QED BY <1>1, <1>11, <1>12, <1>13, <1>14, ReadKeeps

-----------------------------------------------------------------------------
(* A step of the search leaves the other processes be. *)
LEMMA SearchFrame ==
  ASSUME SnapshotInv, NEW p \in Proc, Searches(p)
  PROVE  PassShape' /\ \A q \in Proc : q # p => OwnKept(q)
<1> USE DEF SnapshotInv, Inv, CacheTypeOK, Shape, PassShape, OwnKept, Locate, Unlocated
<1>1. CASE EndChain(p) /\ ~Fail(p)
  BY <1>1 DEF EndChain
<1>2. CASE IndexFile(p)
  BY <1>2 DEF IndexFile
<1>3. CASE ResolveExtra(p)
  BY <1>3 DEF ResolveExtra
<1>4. CASE EndExtra(p)
  BY <1>4 DEF EndExtra, passVars
<1>5. CASE ReadText(p) /\ ~Fail(p)
  BY <1>5 DEF ReadText
<1>6. CASE ResolveReference(p)
  BY <1>6 DEF ResolveReference
<1>7. CASE EndText(p)
  BY <1>7 DEF EndText
<1> QED BY <1>1, <1>2, <1>3, <1>4, <1>5, <1>6, <1>7 DEF Searches

(* What has to be shown of p itself. *)
SearchPart(p) ==
  /\ ChainPart(cfg[p], dir[p], chain[p], reasons[p])
  /\ GraphPart(cfg[p], dir[p], chain[p], queue[p], graph[p], src[p], reasons[p])
  /\ WalkPart(p)
  /\ pass[p] = 2 => SecondFinds(p)
  /\ pass[p] = 2 /\ reasons[p] = {} => SecondKnows(p)

LEMMA SearchKeeps ==
  ASSUME SnapshotInv, NEW p \in Proc, Searches(p), Searching(p)', SearchPart(p)'
  PROVE  PassesKept'
<1> USE DEF SnapshotInv, Inv
<1>1. Advances(p)
  BY SearchAdvances
<1>2. PassShape' /\ \A q \in Proc : q # p => OwnKept(q)
  BY SearchFrame
<1>3. UNCHANGED <<tree, trees, op, cfg, stage, pass, seen, plan, mid, flux, first, chain, dir, src>>
  BY <1>1 DEF Advances
<1>4. PassInv(p) /\ pc[p] \in Passing /\ Reading(p) /\ Reading(p)'
  BY <1>1 DEF Advances, Reading, Searching, Passing
<1>5. pass[p] = 1 => FirstSources(src[p], trees)
  <2>1. CASE pc[p] = "chain"
    <3>1. src[p] = <<>>
      BY <1>4, <2>1 DEF PassInv
    <3>2. DOMAIN src[p] = {}
      BY <3>1
    <3> QED BY <3>2 DEF FirstSources
  <2>2. CASE Searching(p)
    BY <1>4, <2>2 DEF PassInv
  <2> QED BY <1>4, <2>1, <2>2 DEF Searching, Passing
<1>6. PassInv(p)'
  BY <1>3, <1>4, <1>5 DEF PassInv, SearchPart, Searching
<1>7. pc'[p] # "done"
  BY DEF Searching
<1> HIDE DEF SnapshotInv
<1> QED BY <1>2, <1>3, <1>6, <1>7, ReadKeeps

(* What p may use when it searches. *)
LEMMA SearchHas ==
  ASSUME SnapshotInv, NEW p \in Proc, Searching(p)
  PROVE  /\ cfg[p] \in DOMAIN Candidates /\ TreeOK(tree) /\ chain[p] \in Seq(Paths)
         /\ SearchPart(p) /\ DOMAIN graph[p] \subseteq Paths /\ queue[p] \in Seq(Paths)
         /\ pass[p] = 2 => FluxOK(mid[p].tree, tree, flux[p])
<1> USE DEF SnapshotInv, Inv, CacheTypeOK
<1>1. cfg[p] \in DOMAIN Candidates /\ TreeOK(tree)
  BY TreeAssumption DEF TreesInv
<1>2. PassInv(p) /\ Reading(p)
  BY DEF Searching, Reading, Passing
<1> QED BY <1>1, <1>2 DEF PassInv, SearchPart, ChainPart, GraphPart, GraphOK

LEMMA EndChainPass ==
  ASSUME SnapshotInv, NEW p \in Proc, EndChain(p)
  PROVE  PassesKept'
<1> DEFINE k == cfg[p]
           c == chain[p]
           why == reasons[p] \union ChainReasons(tree, c)
           g == [q \in SeqSet(c) |-> {}]
<1>1. CASE \E q \in SeqSet(c) \ GlobalPaths : ~Exists(tree[q])
  <2>1. Fail(p) /\ UNCHANGED <<tree, trees, op, cfg, stage, mid, flux, seen>>
    BY <1>1 DEF EndChain, treeVars
  <2> QED BY <2>1, FailPass DEF PassesKept
<1>2. CASE ~(\E q \in SeqSet(c) \ GlobalPaths : ~Exists(tree[q]))
  <2> USE DEF SnapshotInv, Inv, CacheTypeOK
  <2>1. /\ pc[p] = "chain" /\ dir[p] = Len(Candidates[k])
        /\ reasons' = [reasons EXCEPT ![p] = why]
        /\ walk' = [walk EXCEPT ![p] = Indexed] /\ listed' = [listed EXCEPT ![p] = {}]
        /\ queue' = [queue EXCEPT ![p] = c]
        /\ graph' = [graph EXCEPT ![p] = g]
        /\ todo' = [todo EXCEPT ![p] = Extra[k]]
        /\ pc' = [pc EXCEPT ![p] = "index"]
        /\ UNCHANGED <<tree, trees, op, cfg, stage, pass, seen, plan, mid, flux, first, chain, dir, src>>
    BY <1>2 DEF EndChain, treeVars
  <2>2. /\ reasons'[p] = why /\ walk'[p] = Indexed /\ listed'[p] = {} /\ queue'[p] = c
        /\ graph'[p] = g /\ todo'[p] = Extra[k] /\ pc'[p] = "index"
    BY <2>1 DEF PassShape
  <2>3. PassInv(p) /\ Reading(p)
    BY <2>1 DEF Reading, Passing
  <2>4. ChainPart(k, dir[p], c, reasons[p]) /\ c \in Seq(Paths) /\ src[p] = <<>>
    BY <2>1, <2>3 DEF PassInv, ChainPart
  <2>5. why \subseteq ReadingReasons
    BY <2>4 DEF ChainReasons, ReadingReasons, ChainPart
  <2>6. why = {} => ~(SeqSet(c) \subseteq GlobalPaths)
    BY DEF ChainReasons
  <2>7. /\ GraphOK(c, c, g) /\ \A E : RootsOK(c, g, E)
        /\ \A todo_, M, F, now : SecondGraph(Nowhere, c, todo_, g, M, F, now)
    BY <2>4, GraphStart
  <2>8. DOMAIN src[p] = {} /\ src[p] = [q \in DOMAIN src[p] |-> src[p][q]]
    BY <2>4
  <2>9. k \in DOMAIN Candidates /\ Extra[k] \in Seq(RefSet)
    BY TreeAssumption, ExtraOK
  <2> HIDE DEF why, g
  <2>10. GraphPart(k, dir[p], c, c, g, src[p], why)
    BY <2>1, <2>4, <2>6, <2>7, <2>8 DEF GraphPart
  <2>11. ChainPart(k, dir[p], c, why)
    BY <2>4, <2>5 DEF ChainPart
  <2>12. WalkPart(p)'
    BY <2>1, <2>2, <2>4, <2>9 DEF WalkPart
  <2>13. SecondFinds(p)'
    BY <2>1, <2>2, <2>7 DEF SecondFinds, ListedOK
  <2>14. SecondKnows(p)'
    <3>1. At(p)' = Nowhere /\ Left(p)' = SeqSet(Extra[k])
      BY <2>1, <2>2 DEF At, Left
    <3>2. \A d, M, F : Settled(SeqSet(Extra[k]) \ SeqSet(Extra[k]), d, M, F, Root)
      BY DEF Settled
    <3>3. \A old, M, F : SecondSources(src[p], g, c, old, M, F)
      BY <2>8 DEF SecondSources
    <3>4. /\ cfg'[p] = k /\ chain'[p] = c /\ src'[p] = src[p] /\ first'[p] = first[p]
          /\ mid'[p] = mid[p] /\ flux'[p] = flux[p] /\ tree' = tree
      BY <2>1
    <3> HIDE DEF k, c
    <3>5. Settled(SeqSet(Extra[k]) \ SeqSet(Extra[k]), DOMAIN g, mid[p].tree, flux[p], Root)
      BY <3>2
    <3>6. SecondGraph(Nowhere, c, todo'[p], g, mid[p].tree, flux[p], tree)
      BY <2>7
    <3>7. SecondSources(src[p], g, c, first[p].src, mid[p].tree, flux[p])
      BY <3>3
    <3> QED BY <2>2, <3>1, <3>4, <3>5, <3>6, <3>7 DEF SecondKnows
  <2>15. SearchPart(p)' /\ Searching(p)'
    BY <2>1, <2>2, <2>10, <2>11, <2>12, <2>13, <2>14 DEF SearchPart, Searching
  <2>16. Searches(p)
    <3>1. ~Fail(p)
      BY <2>1, <2>2 DEF Fail, Conclude
    <3> QED BY <3>1 DEF Searches
  <2> QED BY <2>15, <2>16, SearchKeeps
<1> QED BY <1>1, <1>2

LEMMA IndexFilePass ==
  ASSUME SnapshotInv, NEW p \in Proc, IndexFile(p)
  PROVE  PassesKept'
<1> USE DEF SnapshotInv, Inv, CacheTypeOK
<1>1. PICK q \in walk[p] :
        /\ walk' = [walk EXCEPT ![p] = walk[p] \ {q}]
        /\ listed' = [listed EXCEPT ![p] = IF Exists(tree[q]) THEN listed[p] \union {q} ELSE listed[p]]
  BY DEF IndexFile
<1>2. /\ pc[p] = "index"
      /\ UNCHANGED <<tree, pc, cfg, pass, mid, flux, first, chain, dir, src, queue, graph,
                     todo, reasons>>
  BY DEF IndexFile, treeVars
<1>3. /\ walk'[p] = walk[p] \ {q}
      /\ listed'[p] = IF Exists(tree[q]) THEN listed[p] \union {q} ELSE listed[p]
  BY <1>1 DEF PassShape
<1>4. Searching(p) /\ Searching(p)' /\ Searches(p)
  BY <1>2 DEF Searching, Searches
<1> HIDE DEF SnapshotInv
<1>5. SearchPart(p) /\ (pass[p] = 2 => FluxOK(mid[p].tree, tree, flux[p]))
  BY <1>4, SearchHas
<1>6. walk[p] \intersect listed[p] = {} /\ WalkPart(p)'
  BY <1>2, <1>3, <1>5 DEF SearchPart, WalkPart
<1>7. ASSUME pass[p] = 2 PROVE SecondFinds(p)'
  <2>1. ListedOK(walk[p], listed[p], mid[p].tree, flux[p])
    BY <1>5, <1>7 DEF SearchPart, SecondFinds
  <2>2. ListedOK(walk'[p], listed'[p], mid[p].tree, flux[p])
    <3> SUFFICES ASSUME NEW t \in Indexed, t \notin flux[p], t \notin walk'[p]
                 PROVE  t \in listed'[p] <=> Exists(mid[p].tree[t])
      BY DEF ListedOK
    <3>1. CASE t = q
      <4>1. t \in Paths
        BY ReferencesAssumption DEF Indexed
      <4>2. Exists(tree[t]) <=> Exists(mid[p].tree[t])
        BY <4>1, <1>5, <1>7 DEF FluxOK
      <4> QED BY <1>3, <1>6, <3>1, <4>2
    <3>2. CASE t # q
      <4>1. t \notin walk[p] /\ (t \in listed'[p] <=> t \in listed[p])
        BY <1>3, <3>2
      <4> QED BY <2>1, <4>1 DEF ListedOK
    <3> QED BY <3>1, <3>2
  <2> QED BY <1>2, <1>5, <1>7, <2>2 DEF SearchPart, SecondFinds
<1>8. SecondKnows(p) => SecondKnows(p)'
  <2>1. At(p)' = At(p) /\ Left(p)' = Left(p)
    BY <1>2 DEF At, Left
  <2> QED BY <1>2, <2>1 DEF SecondKnows
<1>9. SearchPart(p)'
  BY <1>2, <1>5, <1>6, <1>7, <1>8 DEF SearchPart
<1> QED BY <1>4, <1>9, SearchKeeps

(* What is queued, and what is to do, does not matter between two texts. *)
LEMMA SecondIdle ==
  ASSUME NEW queue_, NEW todo_, NEW left, NEW graph_, DOMAIN graph_ \subseteq Paths,
         NEW M, NEW F, NEW now, SecondGraph(Nowhere, queue_, todo_, graph_, M, F, now)
  PROVE  SecondGraph(Nowhere, queue_, left, graph_, M, F, now)
<1>1. \A q \in DOMAIN graph_ : q # Nowhere
  BY ReferencesAssumption
<1> QED BY <1>1 DEF SecondGraph

(* The first reference of those left, and what it means. *)
LEMMA HeadMeans ==
  ASSUME SnapshotInv, NEW p \in Proc, Searching(p), todo[p] # <<>>, walk[p] = {}, NEW q \in Paths
  PROVE  LET ref == Head(todo[p])
             t == Found(Present(tree), listed[p], q, ref.name)
         IN  /\ ref \in SeqSet(todo[p]) /\ t \in Paths \union {Nowhere}
             /\ Tail(todo[p]) \in Seq(RefSet) /\ SeqSet(Tail(todo[p])) \subseteq SeqSet(todo[p])
             /\ ReferenceReasons(ref, t) \subseteq ReadingReasons
             /\ t = Nowhere /\ ReferenceReasons(ref, t) = {} => ~ref.firm
             /\ pass[p] = 2 => t \in MayMean(mid[p].tree, flux[p], q, ref.name)
<1> DEFINE ref == Head(todo[p])
           t == Found(Present(tree), listed[p], q, ref.name)
<1>1. SearchPart(p) /\ (pass[p] = 2 => FluxOK(mid[p].tree, tree, flux[p]))
  BY SearchHas
<1>2. todo[p] \in Seq(RefSet)
  BY <1>1 DEF SearchPart, WalkPart
<1>3. /\ SeqSet(todo[p]) = {ref} \union SeqSet(Tail(todo[p]))
      /\ ref \in RefSet /\ Tail(todo[p]) \in Seq(RefSet)
  BY <1>2, SeqSetBasics
<1>4. ref.name \in Names
  BY <1>3 DEF RefSet
<1>5. t \in Paths \union {Nowhere}
  BY <1>4, FoundIs
<1>6. ASSUME pass[p] = 2 PROVE t \in MayMean(mid[p].tree, flux[p], q, ref.name)
  <2>1. ListedOK({}, listed[p], mid[p].tree, flux[p])
    BY <1>1, <1>6 DEF SearchPart, SecondFinds
  <2> HIDE DEF ref
  <2> QED BY <1>1, <1>4, <1>6, <2>1, FoundMay
<1> HIDE DEF ref, t
<1>7. /\ ReferenceReasons(ref, t) \subseteq ReadingReasons
      /\ t = Nowhere /\ ReferenceReasons(ref, t) = {} => ~ref.firm
  BY DEF ReferenceReasons, ReadingReasons
<1> QED BY <1>3, <1>5, <1>6, <1>7 DEF ref, t

LEMMA ResolveExtraPass ==
  ASSUME SnapshotInv, NEW p \in Proc, ResolveExtra(p)
  PROVE  PassesKept'
<1> DEFINE k == cfg[p]
           g == graph[p]
           ref == Head(todo[p])
           t == Found(Present(tree), listed[p], Root, ref.name)
           why == reasons[p] \union ReferenceReasons(ref, t)
           u == IF t = Nowhere THEN queue[p] ELSE Queued(queue[p], g, t)
           e == IF t = Nowhere THEN g ELSE Located(g, t)
           M == mid[p].tree
           F == flux[p]
<1>1. /\ pc[p] = "index" /\ walk[p] = {} /\ todo[p] # <<>>
      /\ reasons' = [reasons EXCEPT ![p] = why]
      /\ UNCHANGED <<tree, pc, cfg, pass, mid, flux, first, chain, dir, src, walk, listed>>
  BY DEF ResolveExtra, treeVars
<1>2. /\ todo' = [todo EXCEPT ![p] = Tail(todo[p])]
      /\ t = Nowhere => UNCHANGED <<queue, graph>>
      /\ t # Nowhere => /\ queue' = [queue EXCEPT ![p] = u]
                        /\ graph' = [graph EXCEPT ![p] = e]
  BY DEF ResolveExtra, Locate, Unlocated, Queued
<1>3. reasons'[p] = why /\ todo'[p] = Tail(todo[p]) /\ queue'[p] = u /\ graph'[p] = e
  BY <1>1, <1>2 DEF SnapshotInv, PassShape
<1>4. Searching(p) /\ Searching(p)' /\ Searches(p)
  BY <1>1 DEF Searching, Searches
<1>5. /\ SearchPart(p) /\ DOMAIN g \subseteq Paths /\ queue[p] \in Seq(Paths)
      /\ pass[p] = 2 => FluxOK(M, tree, F)
  BY <1>4, SearchHas
<1>6. Root \in Paths
  BY ReferencesAssumption
<1>7. /\ ref \in SeqSet(todo[p]) /\ t \in Paths \union {Nowhere}
      /\ Tail(todo[p]) \in Seq(RefSet) /\ SeqSet(Tail(todo[p])) \subseteq SeqSet(todo[p])
      /\ ReferenceReasons(ref, t) \subseteq ReadingReasons
      /\ t = Nowhere /\ ReferenceReasons(ref, t) = {} => ~ref.firm
      /\ pass[p] = 2 => t \in MayMean(M, F, Root, ref.name)
  BY <1>1, <1>4, <1>6, HeadMeans
<1>8. /\ ChainPart(k, dir[p], chain[p], reasons[p])
      /\ GraphPart(k, dir[p], chain[p], queue[p], g, src[p], reasons[p])
      /\ src[p] = <<>> /\ SeqSet(todo[p]) \subseteq SeqSet(Extra[k]) /\ todo[p] \in Seq(RefSet)
  BY <1>1, <1>5 DEF SearchPart, WalkPart
<1> HIDE DEF ref, t
<1>9. t # Nowhere => t \in Paths /\ Joined(g, t, {}, e) /\ u = Queued(queue[p], g, t)
  BY <1>7, LocatedIs
<1>10. t = Nowhere => e = g /\ u = queue[p]
  OBVIOUS
<1> HIDE DEF g, u, e, why
<1>11. GraphOK(chain[p], u, e) /\ u \in Seq(Paths)
  <2>1. GraphOK(chain[p], queue[p], g)
    BY <1>8 DEF GraphPart
  <2>2. ASSUME t # Nowhere PROVE GraphOK(chain[p], u, e) /\ u \in Seq(Paths)
    BY <2>1, <2>2, <1>5, <1>9, JoinGraph, QueuedIs
  <2> QED BY <2>1, <2>2, <1>5, <1>10
<1>12. ChainPart(k, dir[p], chain[p], why)
  BY <1>7, <1>8 DEF ChainPart, why
<1>13. GraphPart(k, dir[p], chain[p], u, e, src[p], why)
  <2>1. DOMAIN src[p] = {} /\ src[p] = [q \in DOMAIN src[p] |-> src[p][q]]
    BY <1>8
  <2>2. why = {} => reasons[p] = {}
    BY DEF why
  <2> QED BY <1>8, <1>11, <2>1, <2>2 DEF GraphPart
<1>14. WalkPart(p)'
  BY <1>1, <1>3, <1>5, <1>7 DEF SearchPart, WalkPart
<1>15. ASSUME pass[p] = 2 PROVE SecondFinds(p)'
  <2> DEFINE E == ExtraMeans(M, F, k)
  <2>1. ListedOK(walk[p], listed[p], M, F) /\ RootsOK(chain[p], g, E)
    BY <1>5, <1>15 DEF SearchPart, SecondFinds, g
  <2>2. RootsOK(chain[p], e, E)
    <3>1. CASE t # Nowhere
      <4>1. t \in E
        BY <1>7, <1>8, <1>15 DEF ExtraMeans
      <4> HIDE DEF E
      <4> QED BY <2>1, <4>1, <3>1, <1>9, JoinRoots
    <3>2. CASE t = Nowhere
      BY <2>1, <3>2, <1>10
    <3> QED BY <3>1, <3>2
  <2> QED BY <1>1, <1>3, <2>1, <2>2 DEF SecondFinds
<1>16. ASSUME pass[p] = 2, why = {} PROVE SecondKnows(p)'
  <2>1. reasons[p] = {} /\ (t = Nowhere => ~ref.firm)
    BY <1>7, <1>16 DEF why
  <2>2. At(p) = Nowhere /\ Left(p) = SeqSet(todo[p])
        /\ At(p)' = Nowhere /\ Left(p)' = SeqSet(Tail(todo[p]))
    BY <1>1, <1>3 DEF At, Left
  <2>3. /\ Settled(SeqSet(Extra[k]) \ SeqSet(todo[p]), DOMAIN g, M, F, Root)
        /\ SecondGraph(Nowhere, queue[p], todo[p], g, M, F, tree)
        /\ SecondSources(src[p], g, chain[p], first[p].src, M, F)
    BY <1>5, <1>16, <2>1, <2>2 DEF SearchPart, SecondKnows, g
  <2>4. Settled(SeqSet(Extra[k]) \ SeqSet(Tail(todo[p])), DOMAIN e, M, F, Root)
    <3>1. DOMAIN g \subseteq DOMAIN e /\ (t \in DOMAIN e \/ (t = Nowhere /\ ~ref.firm))
      BY <1>9, <1>10, <2>1 DEF Joined
    <3>2. t \in MayMean(M, F, Root, Head(todo[p]).name)
      BY <1>7, <1>16 DEF ref
    <3> QED BY <1>1, <1>8, <2>3, <3>1, <3>2, SettledOne DEF ref
  <2>5. SecondGraph(Nowhere, u, Tail(todo[p]), e, M, F, tree)
    <3>1. CASE t # Nowhere
      <4>1. GraphOK(chain[p], queue[p], g)
        BY <1>8 DEF GraphPart
      <4> QED BY <1>5, <1>9, <2>3, <3>1, <4>1, ExtraSecond
    <3>2. CASE t = Nowhere
      BY <1>5, <1>10, <2>3, <3>2, SecondIdle
    <3> QED BY <3>1, <3>2
  <2>6. SecondSources(src[p], e, chain[p], first[p].src, M, F)
    <3>1. DOMAIN src[p] = {}
      BY <1>8
    <3> QED BY <3>1 DEF SecondSources
  <2>7. /\ cfg'[p] = k /\ chain'[p] = chain[p] /\ src'[p] = src[p] /\ first'[p] = first[p]
        /\ mid'[p] = mid[p] /\ flux'[p] = flux[p] /\ tree' = tree
    BY <1>1
  <2> HIDE DEF k
  <2> QED BY <1>3, <2>2, <2>4, <2>5, <2>6, <2>7 DEF SecondKnows
<1>17. SearchPart(p)'
  BY <1>1, <1>3, <1>12, <1>13, <1>14, <1>15, <1>16 DEF SearchPart
<1> QED BY <1>4, <1>17, SearchKeeps

LEMMA EndExtraPass ==
  ASSUME SnapshotInv, NEW p \in Proc, EndExtra(p)
  PROVE  PassesKept'
<1>1. /\ pc[p] = "index" /\ walk[p] = {} /\ todo[p] = <<>> /\ pc' = [pc EXCEPT ![p] = "discover"]
      /\ UNCHANGED <<tree, cfg, pass, mid, flux, first, chain, dir, src, walk, listed, queue,
                     graph, todo, reasons>>
  BY DEF EndExtra, treeVars, passVars
<1>2. pc'[p] = "discover"
  BY <1>1 DEF SnapshotInv, Inv, CacheTypeOK
<1>3. Searching(p) /\ Searching(p)' /\ Searches(p)
  BY <1>1, <1>2 DEF Searching, Searches
<1>4. SearchPart(p)
  BY <1>3, SearchHas
<1>5. WalkPart(p)'
  BY <1>1, <1>2, <1>4 DEF SearchPart, WalkPart
<1>6. SecondFinds(p) => SecondFinds(p)'
  BY <1>1 DEF SecondFinds
<1>7. SecondKnows(p) => SecondKnows(p)'
  <2>1. SeqSet(todo[p]) = {}
    BY <1>1 DEF SeqSet
  <2>2. At(p)' = At(p) /\ Left(p)' = Left(p)
    BY <1>1, <1>2, <2>1 DEF At, Left
  <2> QED BY <1>1, <2>2 DEF SecondKnows
<1>8. SearchPart(p)'
  BY <1>1, <1>4, <1>5, <1>6, <1>7 DEF SearchPart
<1> QED BY <1>3, <1>8, SearchKeeps

LEMMA ReadTextPass ==
  ASSUME SnapshotInv, NEW p \in Proc, ReadText(p)
  PROVE  PassesKept'
<1> DEFINE q0 == Head(queue[p])
           why == reasons[p] \union TextReasons(q0, tree[q0], chain[p])
           left == References(q0, tree[q0])
<1>1. CASE q0 \notin GlobalPaths /\ ~Exists(tree[q0])
  <2>1. Fail(p) /\ UNCHANGED <<tree, trees, op, cfg, stage, mid, flux, seen>>
    BY <1>1 DEF ReadText, treeVars
  <2> QED BY <2>1, FailPass DEF PassesKept
<1>2. CASE q0 \in GlobalPaths \/ Exists(tree[q0])
  <2>1. /\ pc[p] = "discover" /\ queue[p] # <<>>
        /\ todo' = [todo EXCEPT ![p] = left]
        /\ reasons' = [reasons EXCEPT ![p] = why]
        /\ pc' = [pc EXCEPT ![p] = "resolve"]
        /\ UNCHANGED <<tree, cfg, pass, mid, flux, first, chain, dir, src, walk, listed, queue, graph>>
    BY <1>2 DEF ReadText, treeVars
  <2>2. todo'[p] = left /\ reasons'[p] = why /\ pc'[p] = "resolve"
    BY <2>1 DEF SnapshotInv, Inv, CacheTypeOK, PassShape
  <2>3. Searching(p) /\ Searching(p)' /\ Searches(p)
    <3>1. ~Fail(p)
      BY <2>1, <2>2 DEF Fail, Conclude, SnapshotInv, Inv, CacheTypeOK
    <3> QED BY <2>1, <2>2, <3>1 DEF Searching, Searches, ReadText
  <2>4. SearchPart(p) /\ TreeOK(tree) /\ queue[p] \in Seq(Paths) /\ DOMAIN graph[p] \subseteq Paths
    BY <2>3, SearchHas
  <2>5. left \in Seq(RefSet)
    <3>1. q0 \in Paths
      BY <2>1, <2>4, SeqSetBasics
    <3>2. ContentOK(tree[q0])
      BY <3>1, <2>4 DEF TreeOK
    <3> QED BY <1>2, <3>2, ReferencesOK
  <2>6. why \subseteq ReadingReasons /\ (why = {} => reasons[p] = {})
    BY <2>4 DEF SearchPart, ChainPart, TextReasons, ReadingReasons
  <2> HIDE DEF why
  <2>7. ChainPart(cfg[p], dir[p], chain[p], why)
    BY <2>4, <2>6 DEF SearchPart, ChainPart
  <2>8. GraphPart(cfg[p], dir[p], chain[p], queue[p], graph[p], src[p], why)
    BY <2>4, <2>6 DEF SearchPart, GraphPart
  <2>9. WalkPart(p)'
    BY <2>1, <2>2, <2>4, <2>5 DEF SearchPart, WalkPart
  <2>10. SecondFinds(p) => SecondFinds(p)'
    BY <2>1 DEF SecondFinds
  <2>11. SecondKnows(p) => SecondKnows(p)'
    <3>1. At(p) = Nowhere /\ Left(p) = {} /\ At(p)' = q0 /\ Left(p)' = {}
      BY <2>1, <2>2 DEF At, Left
    <3>2. SecondGraph(Nowhere, queue[p], todo[p], graph[p], mid[p].tree, flux[p], tree)
          => SecondGraph(q0, queue[p], left, graph[p], mid[p].tree, flux[p], tree)
      BY <2>4, ReadSecondText
    <3> HIDE DEF q0, left
    <3> QED BY <2>1, <2>2, <3>1, <3>2 DEF SecondKnows
  <2>12. SearchPart(p)'
    BY <2>1, <2>2, <2>4, <2>6, <2>7, <2>8, <2>9, <2>10, <2>11 DEF SearchPart
  <2> QED BY <2>3, <2>12, SearchKeeps
<1> QED BY <1>1, <1>2

LEMMA ResolveReferencePass ==
  ASSUME SnapshotInv, NEW p \in Proc, ResolveReference(p)
  PROVE  PassesKept'
<1> DEFINE k == cfg[p]
           g == graph[p]
           q0 == Head(queue[p])
           ref == Head(todo[p])
           t == Found(Present(tree), listed[p], q0, ref.name)
           why == reasons[p] \union ReferenceReasons(ref, t)
           u == IF t = Nowhere THEN queue[p] ELSE Queued(queue[p], g, t)
           e == IF t = Nowhere THEN g ELSE Linked(g, q0, t)
           M == mid[p].tree
           F == flux[p]
<1>1. /\ pc[p] = "resolve" /\ todo[p] # <<>>
      /\ reasons' = [reasons EXCEPT ![p] = why]
      /\ UNCHANGED <<tree, pc, cfg, pass, mid, flux, first, chain, dir, src, walk, listed>>
  BY DEF ResolveReference, treeVars
<1>2. /\ todo' = [todo EXCEPT ![p] = Tail(todo[p])]
      /\ t = Nowhere => UNCHANGED <<queue, graph>>
      /\ t # Nowhere => /\ queue' = [queue EXCEPT ![p] = u]
                        /\ graph' = [graph EXCEPT ![p] = e]
  <2>1. /\ todo' = [todo EXCEPT ![p] = Tail(todo[p])]
        /\ t = Nowhere => UNCHANGED <<queue, graph>>
    BY DEF ResolveReference, Locate, Unlocated
  <2>2. ASSUME t # Nowhere PROVE queue' = [queue EXCEPT ![p] = u]
    BY <2>2 DEF ResolveReference, Locate, Queued
  <2>3. ASSUME t # Nowhere PROVE graph' = [graph EXCEPT ![p] = e]
    BY <2>3 DEF ResolveReference
  <2> QED BY <2>1, <2>2, <2>3
<1>3. reasons'[p] = why /\ todo'[p] = Tail(todo[p]) /\ queue'[p] = u /\ graph'[p] = e
  BY <1>1, <1>2 DEF SnapshotInv, PassShape
<1>4. Searching(p) /\ Searching(p)' /\ Searches(p)
  BY <1>1 DEF Searching, Searches
<1>5. /\ SearchPart(p) /\ DOMAIN g \subseteq Paths /\ queue[p] \in Seq(Paths)
  BY <1>4, SearchHas
<1>6. /\ ChainPart(k, dir[p], chain[p], reasons[p])
      /\ GraphPart(k, dir[p], chain[p], queue[p], g, src[p], reasons[p])
      /\ walk[p] = {} /\ queue[p] # <<>> /\ todo[p] \in Seq(RefSet)
  BY <1>1, <1>5 DEF SearchPart, WalkPart
<1>7. q0 \in Paths /\ q0 \in DOMAIN g /\ DOMAIN src[p] = {} /\ GraphOK(chain[p], queue[p], g)
  <2>1. q0 \in SeqSet(queue[p]) /\ q0 \in Paths
    BY <1>5, <1>6, SeqSetBasics
  <2> QED BY <1>6, <2>1 DEF GraphPart, GraphOK
<1>8. /\ ref \in SeqSet(todo[p]) /\ t \in Paths \union {Nowhere}
      /\ Tail(todo[p]) \in Seq(RefSet) /\ SeqSet(Tail(todo[p])) \subseteq SeqSet(todo[p])
      /\ ReferenceReasons(ref, t) \subseteq ReadingReasons
      /\ t = Nowhere /\ ReferenceReasons(ref, t) = {} => ~ref.firm
      /\ pass[p] = 2 => t \in MayMean(M, F, q0, ref.name)
  <2> HIDE DEF q0
  <2> QED BY <1>1, <1>4, <1>6, <1>7, HeadMeans
<1> HIDE DEF ref, t
<1>9. t # Nowhere => t \in Paths /\ Joined(g, t, {q0}, e) /\ u = Queued(queue[p], g, t)
  BY <1>7, <1>8, LocatedIs
<1>10. t = Nowhere => e = g /\ u = queue[p]
  OBVIOUS
<1> HIDE DEF g, u, e, why
<1>11. /\ GraphOK(chain[p], u, e) /\ u \in Seq(Paths) /\ u # <<>> /\ Head(u) = q0
  <2>1. ASSUME t # Nowhere
        PROVE  GraphOK(chain[p], u, e) /\ u \in Seq(Paths) /\ u # <<>> /\ Head(u) = q0
    BY <2>1, <1>5, <1>6, <1>7, <1>9, JoinGraph, QueuedIs
  <2> QED BY <2>1, <1>5, <1>6, <1>7, <1>10
<1>12. ChainPart(k, dir[p], chain[p], why)
  BY <1>6, <1>8 DEF ChainPart, why
<1>13. GraphPart(k, dir[p], chain[p], u, e, src[p], why)
  <2>1. why = {} => reasons[p] = {}
    BY DEF why
  <2> QED BY <1>6, <1>7, <1>11, <2>1 DEF GraphPart
<1>14. WalkPart(p)'
  BY <1>1, <1>3, <1>5, <1>8, <1>11 DEF SearchPart, WalkPart
<1>15. ASSUME pass[p] = 2 PROVE SecondFinds(p)'
  <2> DEFINE E == ExtraMeans(M, F, k)
  <2>1. ListedOK(walk[p], listed[p], M, F) /\ RootsOK(chain[p], g, E)
    BY <1>5, <1>15 DEF SearchPart, SecondFinds, g
  <2>2. RootsOK(chain[p], e, E)
    <3>1. CASE t # Nowhere
      <4>1. {q0} \in SUBSET DOMAIN g /\ {q0} # {}
        BY <1>7
      <4> HIDE DEF E
      <4> QED BY <2>1, <4>1, <3>1, <1>9, JoinRoots
    <3>2. CASE t = Nowhere
      BY <2>1, <3>2, <1>10
    <3> QED BY <3>1, <3>2
  <2> QED BY <1>1, <1>3, <2>1, <2>2 DEF SecondFinds
<1>16. ASSUME pass[p] = 2, why = {} PROVE SecondKnows(p)'
  <2>1. reasons[p] = {} /\ (t = Nowhere => ~ref.firm)
    BY <1>8, <1>16 DEF why
  <2>2. At(p) = q0 /\ Left(p) = {} /\ At(p)' = q0 /\ Left(p)' = {}
    BY <1>1, <1>3, <1>11 DEF At, Left
  <2>3. /\ Settled(SeqSet(Extra[k]) \ {}, DOMAIN g, M, F, Root)
        /\ SecondGraph(q0, queue[p], todo[p], g, M, F, tree)
    BY <1>5, <1>16, <2>1, <2>2 DEF SearchPart, SecondKnows, g
  <2>4. Settled(SeqSet(Extra[k]) \ {}, DOMAIN e, M, F, Root)
    <3>1. DOMAIN g \subseteq DOMAIN e
      BY <1>9, <1>10 DEF Joined
    <3> QED BY <2>3, <3>1, SettledMore
  <2>5. SecondGraph(q0, u, Tail(todo[p]), e, M, F, tree)
    <3>1. t \in MayMean(M, F, q0, Head(todo[p]).name)
      BY <1>8, <1>16 DEF ref
    <3>2. \/ t \in Paths /\ Joined(g, t, {q0}, e) /\ u = Queued(queue[p], g, t)
          \/ t = Nowhere /\ ~Head(todo[p]).firm /\ e = g /\ u = queue[p]
      BY <1>9, <1>10, <2>1 DEF ref
    <3> QED BY <1>1, <1>5, <1>6, <1>7, <2>3, <3>1, <3>2, ResolveSecond DEF q0
  <2>6. SecondSources(src[p], e, chain[p], first[p].src, M, F)
    BY <1>7 DEF SecondSources
  <2>7. /\ cfg'[p] = k /\ chain'[p] = chain[p] /\ src'[p] = src[p] /\ first'[p] = first[p]
        /\ mid'[p] = mid[p] /\ flux'[p] = flux[p] /\ tree' = tree
    BY <1>1
  <2> HIDE DEF k, q0
  <2> QED BY <1>3, <2>2, <2>4, <2>5, <2>6, <2>7 DEF SecondKnows
<1>17. SearchPart(p)'
  BY <1>1, <1>3, <1>12, <1>13, <1>14, <1>15, <1>16 DEF SearchPart
<1> QED BY <1>4, <1>17, SearchKeeps

LEMMA EndTextPass ==
  ASSUME SnapshotInv, NEW p \in Proc, EndText(p)
  PROVE  PassesKept'
<1> DEFINE u == Tail(queue[p])
<1>1. /\ pc[p] = "resolve" /\ todo[p] = <<>> /\ pc' = [pc EXCEPT ![p] = "discover"]
      /\ queue' = [queue EXCEPT ![p] = u]
      /\ UNCHANGED <<tree, cfg, pass, mid, flux, first, chain, dir, src, walk, listed, graph,
                     todo, reasons>>
  BY DEF EndText, treeVars
<1>2. pc'[p] = "discover" /\ queue'[p] = u
  BY <1>1 DEF SnapshotInv, Inv, CacheTypeOK, PassShape
<1>3. Searching(p) /\ Searching(p)' /\ Searches(p)
  BY <1>1, <1>2 DEF Searching, Searches
<1>4. SearchPart(p) /\ queue[p] \in Seq(Paths) /\ DOMAIN graph[p] \subseteq Paths
  BY <1>3, SearchHas
<1>5. queue[p] # <<>>
  BY <1>1, <1>4 DEF SearchPart, WalkPart
<1>6. u \in Seq(Paths) /\ SeqSet(u) \subseteq SeqSet(queue[p])
  BY <1>4, <1>5, SeqSetBasics
<1>7. GraphPart(cfg[p], dir[p], chain[p], u, graph[p], src[p], reasons[p])
  <2> HIDE DEF u
  <2> QED BY <1>4, <1>5, <1>6 DEF SearchPart, GraphPart, GraphOK
<1>8. WalkPart(p)'
  BY <1>1, <1>2, <1>4 DEF SearchPart, WalkPart
<1>9. SecondFinds(p) => SecondFinds(p)'
  BY <1>1 DEF SecondFinds
<1>10. SecondKnows(p) => SecondKnows(p)'
  <2>1. At(p) = Head(queue[p]) /\ Left(p) = {} /\ At(p)' = Nowhere /\ Left(p)' = {}
    BY <1>1, <1>2 DEF At, Left
  <2>2. SecondGraph(Head(queue[p]), queue[p], <<>>, graph[p], mid[p].tree, flux[p], tree)
        => SecondGraph(Nowhere, u, todo[p], graph[p], mid[p].tree, flux[p], tree)
    BY <1>4, <1>5, EndSecondText
  <2> HIDE DEF u
  <2> QED BY <1>1, <1>2, <2>1, <2>2 DEF SecondKnows
<1>11. SearchPart(p)'
  BY <1>1, <1>2, <1>4, <1>7, <1>8, <1>9, <1>10 DEF SearchPart
<1> QED BY <1>3, <1>11, SearchKeeps

-----------------------------------------------------------------------------
LEMMA TakeFingerprintPass ==
  ASSUME SnapshotInv, NEW p \in Proc, TakeFingerprint(p)
  PROVE  PassesKept'
<1> DEFINE c == chain[p]
           q0 == CHOOSE t \in DOMAIN graph[p] : t \notin DOMAIN src[p]
           f == Fingerprint(q0, tree[q0], graph[p][q0], c)
           s == [t \in DOMAIN src[p] \union {q0} |-> IF t = q0 THEN f ELSE src[p][t]]
<1>1. CASE ~Exists(tree[q0])
  <2>1. Fail(p) /\ UNCHANGED <<tree, trees, op, cfg, stage, mid, flux, seen>>
    BY <1>1 DEF TakeFingerprint, treeVars
  <2> QED BY <2>1, FailPass DEF PassesKept
<1>2. CASE Exists(tree[q0])
  <2> USE DEF SnapshotInv, Inv, CacheTypeOK
  <2>1. /\ pc[p] = "discover" /\ queue[p] = <<>> /\ DOMAIN src[p] # DOMAIN graph[p]
        /\ src' = [src EXCEPT ![p] = s]
        /\ UNCHANGED <<tree, trees, pc, op, cfg, stage, pass, seen, plan, mid, flux, first, chain,
                       dir, walk, listed, queue, graph, todo, reasons>>
    BY <1>2 DEF TakeFingerprint, treeVars
  <2>2. src'[p] = s
    BY <2>1 DEF Shape
  <2>3. PassInv(p) /\ TreeOK(tree) /\ tree \in trees
    BY DEF TreesInv
  <2>4. GraphPart(cfg[p], dir[p], c, queue[p], graph[p], src[p], reasons[p]) /\ WalkPart(p)
    BY <2>1, <2>3 DEF PassInv, Searching
  <2>5. q0 \in DOMAIN graph[p] /\ q0 \notin DOMAIN src[p]
    BY <2>1, <2>4 DEF GraphPart
  <2>6. q0 \in Paths
    BY <2>4, <2>5 DEF GraphPart, GraphOK
  <2> HIDE DEF q0
  <2>7. /\ DOMAIN s = DOMAIN src[p] \union {q0} /\ s[q0] = f
        /\ \A t \in DOMAIN src[p] : t # q0 => s[t] = src[p][t]
        /\ s = [t \in DOMAIN s |-> s[t]]
    OBVIOUS
  <2> HIDE DEF s
  <2>8. GraphPart(cfg[p], dir[p], c, queue[p], graph[p], s, reasons[p])
    BY <2>1, <2>4, <2>5, <2>7 DEF GraphPart
  <2>9. Same(f, tree[q0])
    BY <1>2 DEF Same, Fingerprint
  <2>10. FirstSources(src[p], trees) => FirstSources(s, trees)
    <3> HIDE DEF f
    <3> QED BY <2>3, <2>5, <2>6, <2>7, <2>9 DEF FirstSources
  <2>11. ASSUME pass[p] = 2, reasons[p] = {}, SecondKnows(p) PROVE SecondKnows(p)'
    <3>1. At(p) = Nowhere /\ At(p)' = Nowhere /\ Left(p)' = Left(p)
      BY <2>1 DEF At, Left
    <3>2. /\ SecondGraph(Nowhere, <<>>, todo[p], graph[p], mid[p].tree, flux[p], tree)
          /\ SecondSources(src[p], graph[p], c, first[p].src, mid[p].tree, flux[p])
      BY <2>1, <2>11, <3>1 DEF SecondKnows
    <3>3. StillSources(first[p].src, mid[p].tree, tree)
      BY <2>1, <2>3, <2>11 DEF PassInv, Reading, Passing, OldPart
    <3>4. DOMAIN graph[p] \subseteq Paths
      BY <2>4 DEF GraphPart, GraphOK
    <3>5. SecondSources(s, graph[p], c, first[p].src, mid[p].tree, flux[p])
      <4> DEFINE g == graph[p]
                 u == src[p]
                 old == first[p].src
                 M == mid[p].tree
                 F == flux[p]
      <4>1. q0 \in DOMAIN g /\ Extends(s, u, q0, Fingerprint(q0, tree[q0], g[q0], c))
        BY <2>5, <2>7 DEF Extends
      <4> HIDE DEF f, c, g, u, old, M, F
      <4>3. /\ DOMAIN g \subseteq Paths /\ StillSources(old, M, tree) /\ Exists(tree[q0])
            /\ SecondGraph(Nowhere, <<>>, todo[p], g, M, F, tree) /\ SecondSources(u, g, c, old, M, F)
        BY <3>2, <3>3, <3>4, <1>2 DEF c, g, u, old, M, F
      <4>4. SecondSources(s, g, c, old, M, F)
        BY <4>1, <4>3, TakeSecond
      <4> QED BY <4>4 DEF g, old, M, F
    <3>6. /\ Settled(SeqSet(Extra[cfg[p]]) \ Left(p), DOMAIN graph[p], mid[p].tree, flux[p], Root)
          /\ SecondGraph(Nowhere, queue[p], todo[p], graph[p], mid[p].tree, flux[p], tree)
      BY <2>11, <3>1 DEF SecondKnows
    <3>7. /\ cfg'[p] = cfg[p] /\ graph'[p] = graph[p] /\ mid'[p] = mid[p] /\ flux'[p] = flux[p]
          /\ tree' = tree /\ queue'[p] = queue[p] /\ todo'[p] = todo[p] /\ first'[p] = first[p]
          /\ chain'[p] = c
      BY <2>1
    <3> HIDE DEF f, c
    <3> QED BY <2>2, <3>1, <3>5, <3>6, <3>7 DEF SecondKnows
  <2>12. WalkPart(p)' /\ (SecondFinds(p) => SecondFinds(p)')
    BY <2>1, <2>4 DEF WalkPart, SecondFinds
  <2>16. PassInv(p)'
    <3> HIDE DEF f
    <3> QED BY <2>1, <2>2, <2>3, <2>8, <2>10, <2>11, <2>12 DEF PassInv, Reading, Searching
  <2>13. PassShape'
    BY <2>1 DEF PassShape
  <2>14. \A q \in Proc : q # p => OwnKept(q)
    BY <2>1 DEF Shape, OwnKept
  <2>15. pc'[p] # "done"
    BY <2>1
  <2> HIDE DEF SnapshotInv
  <2> QED BY <2>1, <2>13, <2>14, <2>15, <2>16, ReadKeeps
<1> QED BY <1>1, <1>2

-----------------------------------------------------------------------------
(* The steps that begin a pass, compare, take the lock, write and end. *)
USE DEF Captured, PcValues

LEMMA StartPass ==
  ASSUME SnapshotInv, NEW p \in Proc, NEW o \in {"check", "record", "adapter"}, NEW k \in Configs,
         Start(p, o, k)
  PROVE  PassesKept'
<1>1. /\ BeginPass(p, 1) /\ UNCHANGED <<tree, trees, mid, flux, seen>>
      /\ op' = [op EXCEPT ![p] = o] /\ cfg' = [cfg EXCEPT ![p] = k]
      /\ stage' = [stage EXCEPT ![p] = "initial"]
      /\ first' = [first EXCEPT ![p] = NoRecord] /\ plan' = [plan EXCEPT ![p] = NoPlan]
  BY DEF Start, treeVars
<1>2. /\ op' \in [Proc -> {"check", "record", "adapter"}] /\ cfg' \in [Proc -> Configs]
      /\ stage' \in [Proc -> {"initial", "locked"}] /\ stage'[p] = "initial"
      /\ plan' = [q \in Proc |-> plan'[q]] /\ first' = [q \in Proc |-> first'[q]]
      /\ mid' = [q \in Proc |-> mid'[q]] /\ flux' = [q \in Proc |-> flux'[q]]
  BY <1>1 DEF SnapshotInv, Inv, CacheTypeOK, Shape, PassShape
<1>3. \A q \in Proc : q # p =>
           /\ op'[q] = op[q] /\ cfg'[q] = cfg[q] /\ stage'[q] = stage[q]
           /\ plan'[q] = plan[q] /\ first'[q] = first[q]
           /\ mid'[q] = mid[q] /\ flux'[q] = flux[q]
  BY <1>1 DEF SnapshotInv, Inv, CacheTypeOK, Shape, PassShape
<1>4. mid'[p].tree \in trees
  BY <1>1 DEF SnapshotInv, TreesInv
<1>5. 1 \in {1, 2} /\ (1 = 2 => /\ OldPart(cfg'[p], first'[p], mid'[p].tree, tree, trees)
                             /\ FluxOK(mid'[p].tree, tree, flux'[p]))
      /\ (op'[p] = "check" => stage'[p] = "initial")
  BY <1>2, <1>4
<1> QED BY <1>1, <1>2, <1>3, <1>4, <1>5, BeginPassKeeps DEF PassesKept

LEMMA AcquirePass ==
  ASSUME SnapshotInv, NEW p \in Proc, Acquire(p)
  PROVE  PassesKept'
<1>1. /\ pc[p] = "lock" /\ BeginPass(p, 1) /\ UNCHANGED <<tree, trees, op, cfg, mid, flux, seen, plan>>
      /\ stage' = [stage EXCEPT ![p] = "locked"] /\ first' = [first EXCEPT ![p] = NoRecord]
  BY DEF Acquire, treeVars
<1>2. /\ op' \in [Proc -> {"check", "record", "adapter"}] /\ cfg' \in [Proc -> Configs]
      /\ stage' \in [Proc -> {"initial", "locked"}]
      /\ plan' = [q \in Proc |-> plan'[q]] /\ first' = [q \in Proc |-> first'[q]]
      /\ mid' = [q \in Proc |-> mid'[q]] /\ flux' = [q \in Proc |-> flux'[q]]
  BY <1>1 DEF SnapshotInv, Inv, CacheTypeOK, Shape, PassShape
<1>3. \A q \in Proc : q # p =>
           /\ op'[q] = op[q] /\ cfg'[q] = cfg[q] /\ stage'[q] = stage[q]
           /\ plan'[q] = plan[q] /\ first'[q] = first[q]
           /\ mid'[q] = mid[q] /\ flux'[q] = flux[q]
  BY <1>1 DEF SnapshotInv, Inv, CacheTypeOK, Shape, PassShape
<1>4. mid'[p].tree \in trees /\ op'[p] # "check"
  BY <1>1 DEF SnapshotInv, TreesInv, PassInv
<1>5. 1 \in {1, 2} /\ (1 = 2 => /\ OldPart(cfg'[p], first'[p], mid'[p].tree, tree, trees)
                             /\ FluxOK(mid'[p].tree, tree, flux'[p]))
      /\ (op'[p] = "check" => stage'[p] = "initial")
  BY <1>2, <1>4
<1> QED BY <1>1, <1>2, <1>3, <1>4, <1>5, BeginPassKeeps DEF PassesKept

LEMMA SecondPassPass ==
  ASSUME SnapshotInv, NEW p \in Proc, SecondPass(p)
  PROVE  PassesKept'
<1> DEFINE rec == Captured(p)
           here == [tree |-> tree, at |-> edits]
           k == cfg[p]
<1>1. /\ PassDone(p) /\ pass[p] = 1 /\ BeginPass(p, 2)
      /\ UNCHANGED <<tree, trees, op, cfg, stage, seen, plan>>
      /\ first' = [first EXCEPT ![p] = rec] /\ mid' = [mid EXCEPT ![p] = here]
      /\ flux' = [flux EXCEPT ![p] = {}]
  BY DEF SecondPass, treeVars
<1> HIDE DEF here
<1>2. /\ op' \in [Proc -> {"check", "record", "adapter"}] /\ cfg' \in [Proc -> Configs]
      /\ stage' \in [Proc -> {"initial", "locked"}]
      /\ plan' = [q \in Proc |-> plan'[q]] /\ first' = [q \in Proc |-> first'[q]]
      /\ mid' = [q \in Proc |-> mid'[q]] /\ first'[p] = rec /\ mid'[p] = here
      /\ flux' = [q \in Proc |-> flux'[q]]
  BY <1>1 DEF SnapshotInv, Inv, CacheTypeOK, Shape, PassShape
<1>3. \A q \in Proc : q # p =>
           /\ op'[q] = op[q] /\ cfg'[q] = cfg[q] /\ stage'[q] = stage[q]
           /\ plan'[q] = plan[q] /\ first'[q] = first[q]
           /\ mid'[q] = mid[q] /\ flux'[q] = flux[q]
  BY <1>1 DEF SnapshotInv, Inv, CacheTypeOK, Shape, PassShape
<1>4. mid'[p].tree = tree /\ tree \in trees
  BY <1>2 DEF SnapshotInv, TreesInv, here
<1>5. op'[p] = "check" => stage'[p] = "initial"
  BY <1>1 DEF SnapshotInv, PassInv
<1>6. rec.chain = chain[p] /\ rec.src = src[p]
  OBVIOUS
<1>7. OldPart(k, rec, tree, tree, trees)
  <2>1. /\ FirstChain(chain[p], k, dir[p], trees) /\ dir[p] = Len(Candidates[k])
        /\ FirstSources(src[p], trees)
    BY <1>1 DEF SnapshotInv, PassInv, PassDone, Reading, Passing, Searching, GraphPart
  <2>2. StillChain(chain[p], k, tree, tree) /\ StillSources(src[p], tree, tree)
    BY DEF StillChain, StillSources
  <2> QED BY <1>6, <2>1, <2>2 DEF OldPart
<1>8. OldPart(cfg'[p], first'[p], mid'[p].tree, tree, trees) /\ FluxOK(mid'[p].tree, tree, flux'[p])
  BY <1>1, <1>2, <1>4, <1>7 DEF FluxOK
<1> QED BY <1>1, <1>2, <1>3, <1>4, <1>5, <1>8, BeginPassKeeps DEF PassesKept

(* A capture without reasons is a record of the tree in its middle. *)
LEMMA CaptureIs ==
  ASSUME SnapshotInv, NEW p \in Proc, CaptureDone(p), CaptureReasons(p) = {}
  PROVE  IsSnapshot(p)
<1> USE DEF SnapshotInv, Inv, CacheTypeOK
<1>1. /\ pc[p] = "discover" /\ queue[p] = <<>> /\ DOMAIN src[p] = DOMAIN graph[p]
      /\ pass[p] = 2 /\ reasons[p] = {} /\ Captured(p) = first[p]
  BY DEF CaptureDone, PassDone, CaptureReasons
<1>2. cfg[p] \in DOMAIN Candidates /\ TreeOK(mid[p].tree)
  BY TreeAssumption DEF TreesInv
<1>3. PassInv(p) /\ Searching(p) /\ Reading(p)
  BY <1>1 DEF Searching, Reading, Passing
<1>4. /\ ChainPart(cfg[p], dir[p], chain[p], {})
      /\ GraphPart(cfg[p], dir[p], chain[p], <<>>, graph[p], src[p], {})
      /\ SecondChain(chain[p], cfg[p], dir[p], first[p].chain, mid[p].tree)
      /\ SecondFinds(p) /\ SecondKnows(p)
  BY <1>1, <1>3 DEF PassInv
<1>5. /\ RootsOK(chain[p], graph[p], ExtraMeans(mid[p].tree, flux[p], cfg[p]))
      /\ SecondSources(src[p], graph[p], chain[p], first[p].src, mid[p].tree, flux[p])
  BY <1>4 DEF SecondFinds, SecondKnows
<1>6. Settled(SeqSet(Extra[cfg[p]]), DOMAIN graph[p], mid[p].tree, flux[p], Root)
  <2> DEFINE R == SeqSet(Extra[cfg[p]])
  <2>1. Left(p) = {} /\ R \ {} = R
    BY <1>1 DEF Left
  <2> HIDE DEF R
  <2> QED BY <1>4, <2>1 DEF SecondKnows, R
<1>7. first[p] = [cfg |-> Settings[cfg[p]], chain |-> chain[p], src |-> src[p]]
  BY <1>1
<1>8. IsRecordOf(first[p], cfg[p], mid[p].tree, flux[p]) /\ ValidRecord(first[p])
  BY <1>1, <1>2, <1>4, <1>5, <1>6, <1>7, SecondDone
<1> QED BY <1>1, <1>8 DEF IsSnapshot

(* A capture with reasons says so. *)
LEMMA CaptureSays ==
  ASSUME SnapshotInv, NEW p \in Proc, CaptureDone(p), CaptureReasons(p) # {}
  PROVE  ~(CaptureReasons(p) \subseteq StableReasons)
<1>1. reasons[p] \subseteq ReadingReasons
  BY DEF SnapshotInv, PassInv, Reading, Passing, CaptureDone, PassDone, ChainPart
<1>2. CASE pass[p] = 2 /\ Captured(p) # first[p]
  BY <1>2 DEF CaptureReasons, StableReasons, Damages
<1>3. CASE ~(pass[p] = 2 /\ Captured(p) # first[p])
  BY <1>1, <1>3 DEF CaptureReasons, StableReasons, Damages, ReadingReasons
<1> QED BY <1>2, <1>3

LEMMA CheckPass ==
  ASSUME SnapshotInv, NEW p \in Proc, Check(p)
  PROVE  PassesKept'
<1>1. /\ CaptureDone(p) /\ UNCHANGED <<tree, trees, op, cfg, stage, mid, flux>>
      /\ seen' = [seen EXCEPT ![p] = IF CaptureReasons(p) = {} THEN Captured(p) ELSE seen[p]]
  BY DEF Check, treeVars
<1>2. \A q \in Proc : q # p => seen'[q] = seen[q]
  BY <1>1 DEF SnapshotInv, Inv, Shape
<1>3. CASE CaptureReasons(p) = {}
  <2>1. IsRecordOf(seen'[p], cfg[p], mid[p].tree, flux[p])
    BY <1>1, <1>3, CaptureIs DEF SnapshotInv, Inv, Shape, IsSnapshot
  <2>2. PICK outcome : Conclude(p, outcome)
    BY DEF Check
  <2> QED BY <1>1, <1>2, <2>1, <2>2, ConcludePass DEF PassesKept
<1>4. CASE CaptureReasons(p) # {}
  <2> DEFINE outcome == Miss(CaptureReasons(p), Captured(p))
  <2>1. Conclude(p, outcome)
    BY <1>4 DEF Check
  <2>2. outcome.reasons = CaptureReasons(p)
    BY DEF Miss, Plan
  <2>3. ~(outcome.reasons \subseteq StableReasons)
    BY <1>1, <1>4, <2>2, CaptureSays
  <2> HIDE DEF outcome
  <2> QED BY <1>1, <1>2, <2>1, <2>3, ConcludePass DEF PassesKept
<1> QED BY <1>3, <1>4

(* An operation other than check has its outcome. *)
LEMMA OtherConclude ==
  ASSUME SnapshotInv, NEW p \in Proc, NEW outcome, Conclude(p, outcome), op[p] # "check",
         UNCHANGED <<tree, trees, op, cfg, stage, mid, flux, seen>>
  PROVE  PassesKept'
<1>1. \A q \in Proc : q # p => seen'[q] = seen[q]
  OBVIOUS
<1> QED BY <1>1, ConcludePass DEF PassesKept

(* A step of p from one control state to another, what it has read kept.   *)
LEMMA MoveKeeps ==
  ASSUME SnapshotInv, NEW p \in Proc,
         UNCHANGED <<tree, trees, op, cfg, pass, chain, dir, walk, listed, queue, graph, todo,
                     src, reasons, first, seen, plan, mid, flux>>,
         pc' \in [Proc -> PcValues], stage' \in [Proc -> {"initial", "locked"}],
         \A q \in Proc : q # p => pc'[q] = pc[q] /\ stage'[q] = stage[q],
         pc'[p] \in {"idle", "lock", "write", "replace", "done", "dead"},
         pc'[p] \in {"write", "replace"} => IsSnapshot(p),
         op[p] = "check" => pc'[p] \in {"idle", "dead"} /\ stage'[p] = "initial"
  PROVE  PassesKept'
<1> USE DEF SnapshotInv, Inv, CacheTypeOK
<1>1. PassShape' /\ TreesInv'
  BY DEF PassShape, TreesInv
<1>2. ASSUME NEW q \in Proc, q # p PROVE PassInv(q)' /\ CheckOK(q)'
  <2>1. Untouched(q)
    BY <1>2 DEF Untouched, OwnKept
  <2> QED BY <2>1, UntouchedKeeps
<1>3. PassInv(p)'
  <2>1. IsSnapshot(p) => IsSnapshot(p)'
    BY DEF IsSnapshot
  <2> QED BY <2>1 DEF PassInv, Reading, Searching, Passing
<1>4. CheckOK(p)'
  BY DEF CheckOK
<1> QED BY <1>1, <1>2, <1>3, <1>4 DEF PassesKept

LEMMA InitialCapturePass ==
  ASSUME SnapshotInv, NEW p \in Proc, InitialCapture(p)
  PROVE  PassesKept'
<1>1. op[p] # "check" /\ UNCHANGED <<tree, trees, op, cfg, stage, seen, mid, flux>>
  BY DEF InitialCapture, treeVars
<1>2. CASE Acceptable(p)
  <2>1. pc' = [pc EXCEPT ![p] = "lock"]
        /\ UNCHANGED <<pass, chain, dir, walk, listed, queue, graph, todo, src, reasons, first, plan>>
    BY <1>2 DEF InitialCapture, passVars
  <2>2. /\ pc' \in [Proc -> PcValues] /\ stage' \in [Proc -> {"initial", "locked"}]
        /\ \A q \in Proc : q # p => pc'[q] = pc[q] /\ stage'[q] = stage[q]
        /\ pc'[p] = "lock"
    BY <1>1, <2>1 DEF SnapshotInv, Inv, CacheTypeOK
  <2> QED BY <1>1, <2>1, <2>2, MoveKeeps
<1>3. CASE ~Acceptable(p)
  <2>1. Conclude(p, Declined(p))
    BY <1>3 DEF InitialCapture
  <2> QED BY <1>1, <2>1, OtherConclude
<1> QED BY <1>2, <1>3

LEMMA LockedCapturePass ==
  ASSUME SnapshotInv, NEW p \in Proc, LockedCapture(p)
  PROVE  PassesKept'
<1>1. op[p] # "check" /\ CaptureDone(p) /\ UNCHANGED <<tree, trees, op, cfg, stage, seen, mid, flux>>
  BY DEF LockedCapture, treeVars
<1>2. CASE Acceptable(p)
  <2>1. pc' = [pc EXCEPT ![p] = "write"]
        /\ UNCHANGED <<pass, chain, dir, walk, listed, queue, graph, todo, src, reasons, first, plan>>
    BY <1>2 DEF LockedCapture, passVars
  <2>2. /\ pc' \in [Proc -> PcValues] /\ stage' \in [Proc -> {"initial", "locked"}]
        /\ \A q \in Proc : q # p => pc'[q] = pc[q] /\ stage'[q] = stage[q]
        /\ pc'[p] = "write"
    BY <1>1, <2>1 DEF SnapshotInv, Inv, CacheTypeOK
  <2>3. IsSnapshot(p)
    <3>1. CaptureReasons(p) = {}
      BY <1>2 DEF Acceptable
    <3> QED BY <1>1, <3>1, CaptureIs
  <2> QED BY <1>1, <2>1, <2>2, <2>3, MoveKeeps
<1>3. CASE ~Acceptable(p)
  <2>1. Conclude(p, Declined(p))
    BY <1>3 DEF LockedCapture
  <2> QED BY <1>1, <2>1, OtherConclude
<1> QED BY <1>2, <1>3

LEMMA LockTimeoutPass ==
  ASSUME SnapshotInv, NEW p \in Proc, LockTimeout(p)
  PROVE  PassesKept'
<1>1. Fail(p) /\ UNCHANGED <<tree, trees, op, cfg, stage, mid, flux, seen>>
  BY DEF LockTimeout, treeVars
<1> QED BY <1>1, FailPass DEF PassesKept

LEMMA WriteTemporaryPass ==
  ASSUME SnapshotInv, NEW p \in Proc, WriteTemporary(p)
  PROVE  PassesKept'
<1>1. pc[p] = "write" /\ UNCHANGED <<tree, trees, op, cfg, stage, seen, mid, flux>>
  BY DEF WriteTemporary, treeVars
<1>2. CASE tmp[p]
  <2>1. Fail(p)
    BY <1>2 DEF WriteTemporary
  <2> QED BY <1>1, <2>1, FailPass DEF PassesKept
<1>3. CASE ~tmp[p]
  <2>1. pc' = [pc EXCEPT ![p] = "replace"]
        /\ UNCHANGED <<pass, chain, dir, walk, listed, queue, graph, todo, src, reasons, first, plan>>
    BY <1>3 DEF WriteTemporary, passVars
  <2>2. /\ pc' \in [Proc -> PcValues] /\ stage' \in [Proc -> {"initial", "locked"}]
        /\ \A q \in Proc : q # p => pc'[q] = pc[q] /\ stage'[q] = stage[q]
        /\ pc'[p] = "replace"
    BY <1>1, <2>1 DEF SnapshotInv, Inv, CacheTypeOK
  <2>3. op[p] # "check" /\ IsSnapshot(p)
    BY <1>1 DEF SnapshotInv, PassInv
  <2> QED BY <1>1, <2>1, <2>2, <2>3, MoveKeeps
<1> QED BY <1>2, <1>3

LEMMA ReplaceRecordPass ==
  ASSUME SnapshotInv, NEW p \in Proc, ReplaceRecord(p)
  PROVE  PassesKept' /\ StoredIsSnapshot'
<1>1. /\ pc[p] = "replace" /\ disk' = [kind |-> "OK", rec |-> Captured(p)]
      /\ stored' = [tree |-> mid[p].tree, at |-> mid[p].at, cfg |-> cfg[p], flux |-> flux[p]]
      /\ UNCHANGED <<tree, trees, op, cfg, stage, seen, mid, flux>>
  BY DEF ReplaceRecord, treeVars
<1>2. op[p] # "check" /\ IsSnapshot(p)
  BY <1>1 DEF SnapshotInv, PassInv
<1>3. PICK outcome : Conclude(p, outcome)
  BY DEF ReplaceRecord
<1>4. /\ disk'.rec = Captured(p) /\ stored'.cfg = cfg[p]
      /\ stored'.tree = mid[p].tree /\ stored'.flux = flux[p]
  BY <1>1
<1>5. StoredIsSnapshot'
  BY <1>2, <1>4 DEF StoredIsSnapshot, IsSnapshot
<1> QED BY <1>1, <1>2, <1>3, <1>5, OtherConclude

LEMMA UnlockPass ==
  ASSUME SnapshotInv, NEW p \in Proc, Unlock(p)
  PROVE  PassesKept'
<1>1. /\ pc[p] = "unlock" /\ pc' = [pc EXCEPT ![p] = "done"]
      /\ stage' = [stage EXCEPT ![p] = "initial"]
      /\ UNCHANGED <<tree, trees, op, cfg, pass, chain, dir, walk, listed, queue, graph, todo,
                     src, reasons, first, seen, plan, mid, flux>>
  BY DEF Unlock, treeVars, passVars
<1>2. op[p] # "check"
  BY <1>1 DEF SnapshotInv, PassInv
<1>3. /\ pc' \in [Proc -> PcValues] /\ stage' \in [Proc -> {"initial", "locked"}]
      /\ \A q \in Proc : q # p => pc'[q] = pc[q] /\ stage'[q] = stage[q]
      /\ pc'[p] = "done"
  BY <1>1 DEF SnapshotInv, Inv, CacheTypeOK
<1> QED BY <1>1, <1>2, <1>3, MoveKeeps

LEMMA RespawnPass ==
  ASSUME SnapshotInv, NEW p \in Proc, Respawn(p)
  PROVE  PassesKept'
<1>1. /\ pc' = [pc EXCEPT ![p] = "idle"]
      /\ stage' = [stage EXCEPT ![p] = "initial"]
      /\ UNCHANGED <<tree, trees, op, cfg, pass, chain, dir, walk, listed, queue, graph, todo,
                     src, reasons, first, seen, plan, mid, flux>>
  BY DEF Respawn, treeVars, passVars
<1>2. /\ pc' \in [Proc -> PcValues] /\ stage' \in [Proc -> {"initial", "locked"}]
      /\ \A q \in Proc : q # p => pc'[q] = pc[q] /\ stage'[q] = stage[q]
      /\ pc'[p] = "idle" /\ stage'[p] = "initial"
  BY <1>1 DEF SnapshotInv, Inv, CacheTypeOK
<1> QED BY <1>1, <1>2, MoveKeeps

LEMMA CrashPass ==
  ASSUME SnapshotInv, NEW p \in Proc, Crash(p)
  PROVE  PassesKept'
<1> USE DEF SnapshotInv, Inv, CacheTypeOK
<1>1. /\ pc' = [pc EXCEPT ![p] = "dead"] /\ plan' = [plan EXCEPT ![p] = NoPlan]
      /\ seen' = [seen EXCEPT ![p] = NoRecord] /\ ForgetPass(p)
      /\ UNCHANGED <<tree, trees, op, cfg, stage, mid, flux>>
  BY DEF Crash, treeVars
<1>2. PassShape' /\ TreesInv'
  BY <1>1 DEF PassShape, ForgetPass, TreesInv
<1>3. ASSUME NEW q \in Proc, q # p PROVE PassInv(q)' /\ CheckOK(q)'
  <2>1. Untouched(q)
    BY <1>1, <1>3 DEF Untouched, OwnKept, ForgetPass, PassShape, Shape
  <2> QED BY <1>1, <2>1, UntouchedKeeps
<1>4. pc'[p] = "dead"
  BY <1>1
<1>5. PassInv(p)' /\ CheckOK(p)'
  BY <1>1, <1>4 DEF PassInv, Reading, Searching, Passing, CheckOK
<1> QED BY <1>2, <1>3, <1>5 DEF PassesKept

-----------------------------------------------------------------------------
LEMMA SnapshotInit == ASSUME NeverBack, Init PROVE SnapshotInv
<1>1. Inv
  BY InitInv
<1>2. PassShape
  BY DEF Init, PassShape
<1>3. TreesInv
  <2>1. InitTree = [q \in Paths |-> InitTree[q]] /\ TreeOK(InitTree)
    BY TreeAssumption DEF NeverBack, TreeOK
  <2>2. \A p \in Proc : mid[p].tree = InitTree
    BY DEF Init
  <2> QED BY <2>1, <2>2 DEF Init, TreesInv
<1>4. StoredIsSnapshot
  BY DEF Init, StoredIsSnapshot
<1>5. ASSUME NEW p \in Proc PROVE PassInv(p) /\ CheckOK(p)
  <2>1. pc[p] = "idle" /\ stage[p] = "initial"
    BY DEF Init
  <2> QED BY <2>1 DEF PassInv, Reading, Searching, Passing, CheckOK
<1> QED BY <1>1, <1>2, <1>3, <1>4, <1>5 DEF SnapshotInv

LEMMA SnapshotNext == ASSUME NeverBack, SnapshotInv, [Next]_vars PROVE SnapshotInv'
<1>1. Inv'
  BY NextInv DEF SnapshotInv
<1>2. CASE UNCHANGED vars
  <2>1. \A q \in Proc : Untouched(q)
    BY <1>2 DEF vars, Untouched, OwnKept
  <2>2. PassShape' /\ TreesInv' /\ StoredIsSnapshot'
    BY <1>2 DEF vars, PassShape, TreesInv, StoredIsSnapshot, SnapshotInv
  <2>3. UNCHANGED <<tree, trees>>
    BY <1>2 DEF vars
  <2>4. ASSUME NEW q \in Proc PROVE PassInv(q)' /\ CheckOK(q)'
    BY <2>1, <2>3, UntouchedKeeps DEF SnapshotInv
  <2> QED BY <1>1, <2>2, <2>4 DEF SnapshotInv
<1>3. ASSUME UNCHANGED <<disk, stored>> PROVE StoredIsSnapshot'
  BY <1>3 DEF SnapshotInv, StoredIsSnapshot
<1>4. ASSUME PassesKept', StoredIsSnapshot' PROVE SnapshotInv'
  BY <1>1, <1>4 DEF SnapshotInv, PassesKept
<1>5. ASSUME NEW e \in EditSet, Edit(e[1], e[2]) PROVE SnapshotInv'
  BY <1>3, <1>4, <1>5, EditPass DEF Edit, fileVars
<1>6. ASSUME NEW p \in Proc, NEW o \in {"check", "record", "adapter"}, NEW k \in Configs,
             Start(p, o, k)
      PROVE  SnapshotInv'
  BY <1>3, <1>4, <1>6, StartPass DEF Start, fileVars
<1>7. ASSUME NEW p \in Proc, ReadDirectory(p) PROVE SnapshotInv'
  BY <1>3, <1>4, <1>7, ReadDirectoryPass DEF ReadDirectory, fileVars
<1>8. ASSUME NEW p \in Proc, EndChain(p) PROVE SnapshotInv'
  BY <1>3, <1>4, <1>8, EndChainPass DEF EndChain, fileVars
<1>9. ASSUME NEW p \in Proc, Searches(p) PROVE SnapshotInv'
  <2>1. UNCHANGED <<disk, stored>>
    BY <1>9, SearchAdvances DEF Advances, SnapshotInv, Inv
  <2>2. PassesKept'
    BY <1>9, EndChainPass, IndexFilePass, ResolveExtraPass, EndExtraPass, ReadTextPass,
       ResolveReferencePass, EndTextPass
    DEF Searches
  <2> QED BY <1>3, <1>4, <2>1, <2>2
<1>23. ASSUME NEW p \in Proc, ReadText(p) PROVE SnapshotInv'
  BY <1>3, <1>4, <1>23, ReadTextPass DEF ReadText, fileVars
<1>10. ASSUME NEW p \in Proc, TakeFingerprint(p) PROVE SnapshotInv'
  BY <1>3, <1>4, <1>10, TakeFingerprintPass DEF TakeFingerprint, fileVars
<1>11. ASSUME NEW p \in Proc, SecondPass(p) PROVE SnapshotInv'
  BY <1>3, <1>4, <1>11, SecondPassPass DEF SecondPass, fileVars
<1>12. ASSUME NEW p \in Proc, Check(p) PROVE SnapshotInv'
  BY <1>3, <1>4, <1>12, CheckPass DEF Check, fileVars
<1>13. ASSUME NEW p \in Proc, InitialCapture(p) PROVE SnapshotInv'
  BY <1>3, <1>4, <1>13, InitialCapturePass DEF InitialCapture, fileVars
<1>14. ASSUME NEW p \in Proc, Acquire(p) PROVE SnapshotInv'
  BY <1>3, <1>4, <1>14, AcquirePass DEF Acquire
<1>15. ASSUME NEW p \in Proc, LockTimeout(p) PROVE SnapshotInv'
  BY <1>3, <1>4, <1>15, LockTimeoutPass DEF LockTimeout, fileVars
<1>16. ASSUME NEW p \in Proc, LockedCapture(p) PROVE SnapshotInv'
  BY <1>3, <1>4, <1>16, LockedCapturePass DEF LockedCapture, fileVars
<1>17. ASSUME NEW p \in Proc, WriteTemporary(p) PROVE SnapshotInv'
  BY <1>3, <1>4, <1>17, WriteTemporaryPass DEF WriteTemporary
<1>18. ASSUME NEW p \in Proc, ReplaceRecord(p) PROVE SnapshotInv'
  BY <1>4, <1>18, ReplaceRecordPass
<1>19. ASSUME NEW p \in Proc, Unlock(p) PROVE SnapshotInv'
  BY <1>3, <1>4, <1>19, UnlockPass DEF Unlock
<1>20. ASSUME NEW p \in Proc, Crash(p) PROVE SnapshotInv'
  BY <1>3, <1>4, <1>20, CrashPass DEF Crash, fileVars
<1>21. ASSUME NEW p \in Proc, Respawn(p) PROVE SnapshotInv'
  BY <1>3, <1>4, <1>21, RespawnPass DEF Respawn, fileVars
<1>22. ASSUME RemoveLock \/ \E k \in Damages : Damage(k) PROVE SnapshotInv'
  <2>1. /\ UNCHANGED <<tree, trees, pc, op, cfg, stage, pass, chain, dir, queue, graph, src,
                       walk, listed, todo, reasons, first, seen, plan, mid, flux, stored>>
    BY <1>22 DEF RemoveLock, Damage, treeVars, passVars
  <2>2. \A q \in Proc : Untouched(q)
    BY <2>1 DEF Untouched, OwnKept
  <2>3. PassShape' /\ TreesInv'
    BY <2>1 DEF PassShape, TreesInv, SnapshotInv
  <2>4. ASSUME NEW q \in Proc PROVE PassInv(q)' /\ CheckOK(q)'
    BY <2>1, <2>2, UntouchedKeeps DEF SnapshotInv
  <2>5. StoredIsSnapshot'
    <3>1. disk' = disk \/ disk'.kind # "OK"
      BY <1>22 DEF RemoveLock, Damage, Damages
    <3> QED BY <3>1, <2>1 DEF StoredIsSnapshot, SnapshotInv
  <2> QED BY <1>1, <2>3, <2>4, <2>5 DEF SnapshotInv
<1> QED
  BY <1>2, <1>5, <1>6, <1>7, <1>8, <1>9, <1>10, <1>11, <1>12, <1>13, <1>14, <1>15, <1>16,
     <1>17, <1>18, <1>19, <1>20, <1>21, <1>22, <1>23
  DEF Next, Step, Searches

LEMMA SpecSnapshotInv == ASSUME NeverBack PROVE Spec => []SnapshotInv
<1>1. Init => SnapshotInv
  BY SnapshotInit
<1>2. SnapshotInv /\ [Next]_vars => SnapshotInv'
  BY SnapshotNext
<1> QED BY <1>1, <1>2, PTL DEF Spec

(***************************************************************************)
(* When no path gets back what it had, the record on disk is a record of   *)
(* one whole tree, that of the moment between the two passes of the        *)
(* capture under the lock, and it has the shape a reader checks: whatever  *)
(* was edited between the reads of the capture, in whatever order, the two *)
(* passes found the same or nothing was written.  A reference may have     *)
(* been resolved by a file that came or went during the second pass.       *)
(***************************************************************************)
THEOREM StoredTheorem == ASSUME NeverBack PROVE Spec => []StoredIsSnapshot
<1>1. SnapshotInv => StoredIsSnapshot
  BY DEF SnapshotInv
<1> QED BY <1>1, SpecSnapshotInv, PTL

(***************************************************************************)
(* And a check that reports a complete capture saw one whole tree, up to   *)
(* the files that came or went during its second pass.                     *)
(***************************************************************************)
THEOREM CheckTheorem == ASSUME NeverBack PROVE Spec => []CheckIsSnapshot
<1>1. SnapshotInv => CheckIsSnapshot
  BY DEF SnapshotInv, CheckOK, CheckIsSnapshot
<1> QED BY <1>1, SpecSnapshotInv, PTL
=============================================================================
