--------------------- MODULE SnapshotInstallationProofs ---------------------
(***************************************************************************)
(* Proofs about SnapshotInstallation, for any number of installers and     *)
(* failures.  Two theorems hold only while operators leave the target      *)
(* alone during installations (Quiet); they say so.                        *)
(***************************************************************************)
EXTENDS SnapshotInstallation, TLAPS

Newer == {"Wait", "File"}

(* Statement of each session, and the values of the helpers.               *)
Types ==
  /\ pc \in [Installers -> 0..15]
  /\ DOMAIN body = Helpers /\ body = [h \in Helpers |-> body[h]]
  /\ seeds \in [Native -> {"absent", "present", "conflicting"}]
  /\ policies \subseteq Native

(* A session past a helper's batch knows the helper is the release's own.  *)
HelpersPast ==
  \A s \in Installers : \A h \in Helpers : \A i \in 2..8 :
    Steps[i] = h /\ i < pc[s] => body[h] = "1.3.1"
ShapePast == \A s \in Installers : 1 < pc[s] => shape = 3 /\ version # "none"

(* Between a closure and the policy, nobody puts a metric of another       *)
(* contract in the way.                                                    *)
SeedsPast ==
  \A s \in Installers :
    /\ 9 < pc[s] => seeds["WAIT_STATS"] # "conflicting"
    /\ 10 < pc[s] => seeds["WAIT_STATS"] = "present"
    /\ 12 < pc[s] => seeds["FILE_IO"] # "conflicting"
    /\ 13 < pc[s] => seeds["FILE_IO"] = "present"
PoliciesPast ==
  \A s \in Installers : /\ 11 < pc[s] => "WAIT_STATS" \in policies
                        /\ 14 < pc[s] => "FILE_IO" \in policies

(* A target that says 1.3.1 has the constraints and helpers of 1.3.1.      *)
MarkedBodies == version = "1.3.1" => shape = 3 /\ \A h \in Helpers : body[h] = "1.3.1"
MarkedMetrics == version = "1.3.1" => \A c \in Native : seeds[c] = "present" /\ c \in policies

(* The statements and helpers, whatever operators do; with the metrics,    *)
(* while they leave the target alone.                                      *)
BInv == Types /\ HelpersPast /\ ShapePast /\ MarkedBodies
MInv == SeedsPast /\ PoliciesPast /\ MarkedMetrics

(* The statements by number.                                               *)
LEMMA StepFacts ==
  /\ Len(Steps) = 15
  /\ Steps[1] = "schema" /\ Steps[9] = "wait check" /\ Steps[10] = "wait seeds"
  /\ Steps[11] = "wait policy" /\ Steps[12] = "file check" /\ Steps[13] = "file seeds"
  /\ Steps[14] = "file policy" /\ Steps[15] = "mark"
  /\ Steps[2] = "Configure" /\ Steps[3] = "Prepare" /\ Steps[4] = "Counters"
  /\ Steps[5] = "Wait" /\ Steps[6] = "File" /\ Steps[7] = "Finalize" /\ Steps[8] = "Purge"
BY DEF Steps

LEMMA Beyond == \A n \in 0..15 : n # 0 /\ n # 1 => 1 < n
OBVIOUS

(* Where a session is when it is at a statement.                           *)
LEMMA Places ==
  ASSUME NEW s \in Installers, pc[s] \in 0..15
  PROVE  /\ At(s, "schema") => pc[s] = 1
         /\ At(s, "wait check") => pc[s] = 9
         /\ At(s, "wait seeds") => pc[s] = 10
         /\ At(s, "wait policy") => pc[s] = 11
         /\ At(s, "file check") => pc[s] = 12
         /\ At(s, "file seeds") => pc[s] = 13
         /\ At(s, "file policy") => pc[s] = 14
         /\ At(s, "mark") => pc[s] = 15
         /\ \A h \in Helpers : At(s, h) => pc[s] \in 2..8
<1>1. pc[s] \in {0, 1, 2, 3, 4, 5, 6, 7, 8, 9, 10, 11, 12, 13, 14, 15}
  OBVIOUS
<1>2. At(s, "schema") => pc[s] = 1
  BY <1>1, StepFacts DEF At, Resting
<1>3. At(s, "wait check") => pc[s] = 9
  BY <1>1, StepFacts DEF At, Resting
<1>4. At(s, "wait seeds") => pc[s] = 10
  BY <1>1, StepFacts DEF At, Resting
<1>5. At(s, "wait policy") => pc[s] = 11
  BY <1>1, StepFacts DEF At, Resting
<1>6. At(s, "file check") => pc[s] = 12
  BY <1>1, StepFacts DEF At, Resting
<1>7. At(s, "file seeds") => pc[s] = 13
  BY <1>1, StepFacts DEF At, Resting
<1>8. At(s, "file policy") => pc[s] = 14
  BY <1>1, StepFacts DEF At, Resting
<1>9. At(s, "mark") => pc[s] = 15
  BY <1>1, StepFacts DEF At, Resting
<1>10. \A h \in Helpers : At(s, h) => pc[s] \in 2..8
  <2>1. SUFFICES ASSUME NEW h \in Helpers, At(s, h), pc[s] \notin 2..8 PROVE FALSE
    OBVIOUS
  <2>2. Steps[pc[s]] = h /\ pc[s] \in {1, 9, 10, 11, 12, 13, 14, 15}
    BY <1>1, <2>1 DEF At, Resting
  <2>3. Steps[pc[s]] \in {"schema", "wait check", "wait seeds", "wait policy",
                         "file check", "file seeds", "file policy", "mark"}
    BY <2>2, StepFacts
  <2>4. QED
    BY <2>2, <2>3 DEF Helpers
<1>11. QED
  BY <1>2, <1>3, <1>4, <1>5, <1>6, <1>7, <1>8, <1>9, <1>10

(* How a session leaves a statement.                                       *)
LEMMA Moves ==
  ASSUME NEW s \in Installers, pc \in [Installers -> 0..15]
  PROVE  /\ Proceed(s) => /\ pc' \in [Installers -> 0..15]
                          /\ pc'[s] \in {0, pc[s] + 1}
                          /\ \A t \in Installers \ {s} : pc'[t] = pc[t]
         /\ Leave(s) => /\ pc' \in [Installers -> 0..15]
                        /\ pc'[s] = 0
                        /\ \A t \in Installers \ {s} : pc'[t] = pc[t]
<1>1. ASSUME Proceed(s) PROVE pc' = [pc EXCEPT ![s] = IF pc[s] = 15 THEN 0 ELSE pc[s] + 1]
  BY <1>1, StepFacts DEF Proceed
<1>2. pc[s] \in 0..15
  OBVIOUS
<1>3. Proceed(s) => /\ pc' \in [Installers -> 0..15]
                    /\ pc'[s] \in {0, pc[s] + 1}
                    /\ \A t \in Installers \ {s} : pc'[t] = pc[t]
  BY <1>1, <1>2
<1>4. Leave(s) => /\ pc' \in [Installers -> 0..15]
                  /\ pc'[s] = 0
                  /\ \A t \in Installers \ {s} : pc'[t] = pc[t]
  BY DEF Leave
<1>5. QED
  BY <1>3, <1>4

(* A session goes on to the next statement, or it is done.                 *)
LEMMA Moved ==
  ASSUME Types, NEW s \in Installers, Proceed(s)
  PROVE  /\ pc' \in [Installers -> 0..15] /\ pc'[s] \in {0, pc[s] + 1} /\ pc'[s] \in 0..15
         /\ \A t \in Installers \ {s} : pc'[t] = pc[t]
<1>1. pc \in [Installers -> 0..15]
  BY DEF Types
<1>2. /\ pc' \in [Installers -> 0..15] /\ pc'[s] \in {0, pc[s] + 1}
      /\ \A t \in Installers \ {s} : pc'[t] = pc[t]
  BY <1>1, Moves, Zenon
<1>3. pc'[s] \in 0..15
  BY <1>2
<1> QED BY <1>2, <1>3

(* Where sessions past 030 come from: the others do not move, and this one *)
(* was past it before or is at it.                                         *)
LEMMA ComesFrom ==
  ASSUME Types, NEW s \in Installers, NEW step, At(s, step), Proceed(s), step # "schema"
  PROVE  1 < pc[s] /\ \A t \in Installers : 1 < pc'[t] => 1 < pc[t]
<1>1. pc \in [Installers -> 0..15] /\ pc[s] \in 0..15
  BY DEF Types
<1>2. pc[s] # 0 /\ Steps[pc[s]] = step
  BY DEF At, Resting
<1>3. 1 < pc[s]
  <2>1. pc[s] # 1
    BY <1>2, StepFacts
  <2> QED BY <1>1, <1>2, <2>1, Beyond, Zenon
<1>4. \A t \in Installers \ {s} : pc'[t] = pc[t]
  BY <1>1, Moves, Zenon
<1> QED BY <1>3, <1>4

(* The statements after the helpers' batches.                              *)
AfterHelpers == {"wait check", "wait seeds", "wait policy", "file check", "file seeds", "file policy"}

LEMMA NineUp == \A n \in {9, 10, 11, 12, 13, 14} : \A i \in 1..8 : i < n
OBVIOUS

LEMMA Late ==
  ASSUME Types, NEW s \in Installers, NEW step \in AfterHelpers, At(s, step), Proceed(s)
  PROVE  \A t \in Installers : \A i \in 1..8 : i < pc'[t] => i < pc[t]
<1>1. pc[s] \in 0..15 /\ pc \in [Installers -> 0..15]
  BY DEF Types
<1>2. pc[s] \in {9, 10, 11, 12, 13, 14}
  BY <1>1, Places DEF AfterHelpers
<1>3. \A i \in 1..8 : i < pc[s]
  BY <1>2, NineUp, Zenon
<1>4. \A t \in Installers \ {s} : pc'[t] = pc[t]
  BY <1>1, Moves, Zenon
<1> QED BY <1>3, <1>4

----------------------------------------------------------------------------
(* Helpers and constraints.                                                *)

(* An installation starts from a release, complete or absent.              *)
LEMMA InitBodies == Init => BInv
<1> SUFFICES ASSUME Init PROVE BInv
  OBVIOUS
<1>1. Types
  BY DEF Init, Types, NativeOf, Native
<1>2. HelpersPast /\ ShapePast
  BY DEF Init, HelpersPast, ShapePast
<1>3. MarkedBodies
  <2>1. SUFFICES ASSUME version = "1.3.1" PROVE MarkedBodies
    BY DEF MarkedBodies
  <2>2. shape = 3
    BY <2>1 DEF Init, Schema
  <2>3. \A h \in Helpers : body[h] = "1.3.1"
    BY <2>1 DEF Init, BodyOf
  <2> QED BY <2>2, <2>3 DEF MarkedBodies
<1> QED BY <1>1, <1>2, <1>3 DEF BInv

(* No step replaces a helper a session knows to be the release's own: only *)
(* the installer writes over a helper that is there, and it writes that    *)
(* release.                                                                *)
LEMMA StepBodies == ASSUME BInv, [Next]_vars PROVE BInv'
<1> USE DEF BInv
<1>1. ASSUME NEW s \in Installers, Start(s) PROVE BInv'
  <2>1. pc' \in [Installers -> 0..15] /\ pc'[s] = 1 /\ \A t \in Installers \ {s} : pc'[t] = pc[t]
    BY <1>1 DEF Start, Types
  <2>2. UNCHANGED <<version, shape, body, seeds, policies>>
    BY <1>1 DEF Start
  <2>3. Types'
    BY <2>1, <2>2 DEF Types
  <2> QED BY <2>1, <2>2, <2>3 DEF HelpersPast, ShapePast, MarkedBodies
<1>2. ASSUME NEW s \in Installers, Refuse(s) \/ Fail(s) PROVE BInv'
  <2>1. pc' \in [Installers -> 0..15] /\ pc'[s] = 0 /\ \A t \in Installers \ {s} : pc'[t] = pc[t]
    BY <1>2, Moves DEF Refuse, Fail, Types
  <2>2. UNCHANGED <<version, shape, body, seeds, policies>>
    BY <1>2 DEF Refuse, Fail
  <2>3. Types'
    BY <2>1, <2>2 DEF Types
  <2> QED BY <2>1, <2>2, <2>3 DEF HelpersPast, ShapePast, MarkedBodies
<1>3. ASSUME NEW s \in Installers, InstallSchema(s) PROVE BInv'
  <2>1. /\ pc[s] = 1 /\ pc' \in [Installers -> 0..15]
        /\ pc'[s] \in {0, 2} /\ \A t \in Installers \ {s} : pc'[t] = pc[t]
    <3>1. Proceed(s) /\ pc[s] = 1
      BY <1>3, Places DEF InstallSchema, Types
    <3> QED BY <3>1, Moved
  <2>2. shape' = 3 /\ version' = "1.2.2" /\ UNCHANGED <<body, seeds, policies>>
    BY <1>3 DEF InstallSchema
  <2>3. Types'
    BY <2>1, <2>2 DEF Types
  <2>4. HelpersPast'
    BY <2>1, <2>2 DEF HelpersPast
  <2>5. ShapePast' /\ MarkedBodies'
    BY <2>1, <2>2 DEF ShapePast, MarkedBodies
  <2> QED BY <2>3, <2>4, <2>5
<1>4. ASSUME NEW s \in Installers, NEW h \in Helpers, Replace(s, h) PROVE BInv'
  <2>1. /\ pc[s] \in 2..8 /\ Steps[pc[s]] = h /\ pc' \in [Installers -> 0..15]
        /\ pc'[s] \in {0, pc[s] + 1} /\ \A t \in Installers \ {s} : pc'[t] = pc[t]
    BY <1>4, Moves, Places DEF Replace, Types, At
  <2>2. body' = [body EXCEPT ![h] = "1.3.1"] /\ UNCHANGED <<version, shape, seeds, policies>>
    BY <1>4 DEF Replace
  <2>3. body'[h] = "1.3.1" /\ \A g \in Helpers \ {h} : body'[g] = body[g]
    BY <2>2 DEF Types
  <2>4. Types'
    BY <2>1, <2>2 DEF Types
  <2>5. HelpersPast'
    <3>1. SUFFICES ASSUME NEW t \in Installers, NEW g \in Helpers, NEW i \in 2..8,
                          Steps[i] = g, i < pc'[t], g # h
                   PROVE  body'[g] = "1.3.1"
      BY <2>3 DEF HelpersPast, Steps
    <3>2. i # pc[s]
      BY <2>1, <3>1
    <3>3. i < pc[t]
      <4>1. CASE t = s
        BY <2>1, <3>1, <3>2, <4>1
      <4>2. CASE t # s
        BY <2>1, <3>1, <4>2
      <4> QED BY <4>1, <4>2
    <3>4. body[g] = "1.3.1"
      BY <3>1, <3>3 DEF HelpersPast
    <3> QED BY <2>3, <3>1, <3>4
  <2>6. ShapePast' /\ MarkedBodies'
    BY <2>1, <2>2, <2>3 DEF ShapePast, MarkedBodies
  <2> QED BY <2>4, <2>5, <2>6
<1>5. ASSUME NEW s \in Installers,
             \E step \in AfterHelpers : CheckClosure(s, step) \/ AddSeeds(s, step) \/ AddPolicy(s, step)
      PROVE  BInv'
  <2>1. PICK step \in AfterHelpers : CheckClosure(s, step) \/ AddSeeds(s, step) \/ AddPolicy(s, step)
    BY <1>5
  <2>2. At(s, step) /\ Proceed(s) /\ UNCHANGED <<version, shape, body>>
    BY <2>1 DEF CheckClosure, AddSeeds, AddPolicy
  <2>3. \A t \in Installers : \A i \in 1..8 : i < pc'[t] => i < pc[t]
    BY <2>1, <2>2, Late
  <2>4. /\ seeds' \in [Native -> {"absent", "present", "conflicting"}]
        /\ policies' \subseteq Native
    <3>1. Collector(step) \in Native
      BY DEF Collector, Native
    <3>2. CASE CheckClosure(s, step)
      BY <3>2 DEF CheckClosure, Types
    <3>3. CASE AddSeeds(s, step)
      <4>1. seeds' = [seeds EXCEPT ![Collector(step)] =
                        IF seeds[Collector(step)] = "absent" THEN "present" ELSE seeds[Collector(step)]]
        BY <3>3 DEF AddSeeds
      <4>2. UNCHANGED policies
        BY <3>3 DEF AddSeeds
      <4> QED BY <3>1, <4>1, <4>2 DEF Types
    <3>4. CASE AddPolicy(s, step)
      BY <3>1, <3>4 DEF AddPolicy, Types
    <3> QED BY <2>1, <3>2, <3>3, <3>4
  <2>5. Types'
    BY <2>2, <2>4, Moved DEF Types
  <2>6. HelpersPast'
    BY <2>2, <2>3 DEF HelpersPast
  <2>7. ShapePast' /\ MarkedBodies'
    BY <2>2, <2>3 DEF ShapePast, MarkedBodies
  <2> QED BY <2>5, <2>6, <2>7
<1>6. ASSUME NEW s \in Installers, Mark(s) PROVE BInv'
  <2>1. /\ pc[s] = 15 /\ pc' \in [Installers -> 0..15] /\ pc'[s] \in {0, 16} /\ pc'[s] \in 0..15
        /\ \A t \in Installers \ {s} : pc'[t] = pc[t]
    <3>1. Proceed(s) /\ pc[s] = 15
      BY <1>6, Places DEF Mark, Types
    <3> QED BY <3>1, Moved
  <2>2. version' = "1.3.1" /\ UNCHANGED <<shape, body, seeds, policies>>
    BY <1>6 DEF Mark
  <2>3. Types'
    BY <2>1, <2>2 DEF Types
  <2>4. HelpersPast'
    BY <2>1, <2>2 DEF HelpersPast
  <2>5. ShapePast'
    BY <2>1, <2>2 DEF ShapePast
  <2>6. shape = 3 /\ \A h \in Helpers : body[h] = "1.3.1"
    <3>1. \A h \in Helpers : \E i \in {2, 3, 4, 5, 6, 7, 8} : Steps[i] = h
      BY StepFacts, Zenon DEF Helpers
    <3> QED BY <2>1, <3>1 DEF HelpersPast, ShapePast
  <2> QED BY <2>2, <2>3, <2>4, <2>5, <2>6 DEF MarkedBodies
<1>7. ASSUME Standalone PROVE BInv'
  <2>1. /\ version' = "1.3.1" /\ shape' = 3 /\ pc' = pc
        /\ body' = [h \in Helpers |-> "1.3.1"]
        /\ seeds' = [c \in Native |-> "present"] /\ policies' = Native
    BY <1>7 DEF Standalone
  <2>2. Types'
    BY <2>1 DEF Types
  <2> QED BY <2>1, <2>2 DEF HelpersPast, ShapePast, MarkedBodies
<1>8. ASSUME NEW h \in Newer, OccupyName(h) PROVE BInv'
  <2>1. /\ body[h] = "absent" /\ body' = [body EXCEPT ![h] = "foreign"]
        /\ UNCHANGED <<version, shape, seeds, policies, pc>>
    BY <1>8 DEF OccupyName
  <2>2. h \in Helpers
    BY DEF Newer, Helpers
  <2>3. Types'
    BY <2>1 DEF Types
  <2>4. \A g \in Helpers : body[g] = "1.3.1" => body'[g] = "1.3.1"
    BY <2>1 DEF Types
  <2> QED BY <2>1, <2>2, <2>3, <2>4 DEF HelpersPast, ShapePast, MarkedBodies
<1>9. ASSUME NEW c \in Native, OccupyMetric(c) PROVE BInv'
  <2>1. /\ seeds' = [seeds EXCEPT ![c] = "conflicting"]
        /\ UNCHANGED <<version, shape, body, policies, pc>>
    BY <1>9 DEF OccupyMetric
  <2>2. Types'
    BY <2>1 DEF Types
  <2> QED BY <2>1, <2>2 DEF HelpersPast, ShapePast, MarkedBodies
<1>10. ASSUME UNCHANGED target, UNCHANGED pc PROVE BInv'
  BY <1>10 DEF target, Types, HelpersPast, ShapePast, MarkedBodies
<1> QED
  BY <1>1, <1>2, <1>3, <1>4, <1>5, <1>6, <1>7, <1>8, <1>9, <1>10
     DEF Next, Install, Spoil, Step, Newer, AfterHelpers, vars

----------------------------------------------------------------------------
(* Metrics and policies.                                                   *)

LEMMA InitMetrics == Init => MInv
<1> SUFFICES ASSUME Init PROVE MInv
  OBVIOUS
<1>1. SeedsPast /\ PoliciesPast
  BY DEF Init, SeedsPast, PoliciesPast
<1>2. MarkedMetrics
  BY DEF Init, MarkedMetrics, BodyOf, NativeOf, Native, Completion
<1> QED BY <1>1, <1>2 DEF MInv

(* A closure rules out a conflict, the INSERT that follows adds what is    *)
(* missing, and only operators take metrics away: they are not there.      *)
LEMMA StepMetrics == ASSUME Quiet, BInv, MInv, [Next]_vars PROVE MInv'
<1> USE DEF MInv, BInv
<1>1. ASSUME NEW s \in Installers, Start(s) PROVE MInv'
  <2>1. pc'[s] = 1 /\ \A t \in Installers \ {s} : pc'[t] = pc[t]
    BY <1>1 DEF Start, Types
  <2> QED BY <1>1, <2>1 DEF Start, SeedsPast, PoliciesPast, MarkedMetrics
<1>2. ASSUME NEW s \in Installers, Refuse(s) \/ Fail(s) PROVE MInv'
  <2>1. pc'[s] = 0 /\ \A t \in Installers \ {s} : pc'[t] = pc[t]
    BY <1>2, Moves DEF Refuse, Fail, Types
  <2>2. UNCHANGED <<version, seeds, policies>>
    BY <1>2 DEF Refuse, Fail
  <2> QED BY <2>1, <2>2 DEF SeedsPast, PoliciesPast, MarkedMetrics
<1>3. ASSUME NEW s \in Installers, InstallSchema(s) PROVE MInv'
  <2>1. pc[s] = 1 /\ pc'[s] \in {0, 2} /\ \A t \in Installers \ {s} : pc'[t] = pc[t]
    <3>1. Proceed(s) /\ pc[s] = 1
      BY <1>3, Places DEF InstallSchema, Types
    <3> QED BY <3>1, Moved
  <2>2. version' = "1.2.2" /\ UNCHANGED <<seeds, policies>>
    BY <1>3 DEF InstallSchema
  <2> QED BY <2>1, <2>2 DEF SeedsPast, PoliciesPast, MarkedMetrics
<1>4. ASSUME NEW s \in Installers, NEW h \in Helpers, Replace(s, h) PROVE MInv'
  <2>1. pc[s] \in 2..8 /\ pc'[s] \in {0, pc[s] + 1} /\ \A t \in Installers \ {s} : pc'[t] = pc[t]
    BY <1>4, Moves, Places DEF Replace, Types
  <2>2. UNCHANGED <<version, seeds, policies>>
    BY <1>4 DEF Replace
  <2> QED BY <2>1, <2>2 DEF SeedsPast, PoliciesPast, MarkedMetrics
<1>5. ASSUME NEW s \in Installers, CheckClosure(s, "wait check") PROVE MInv'
  <2>1. pc[s] = 9 /\ pc'[s] \in {0, 10} /\ \A t \in Installers \ {s} : pc'[t] = pc[t]
    <3>1. Proceed(s) /\ pc[s] = 9
      BY <1>5, Places DEF CheckClosure, Types
    <3> QED BY <3>1, Moved
  <2>2. seeds["WAIT_STATS"] # "conflicting" /\ UNCHANGED <<version, seeds, policies>>
    BY <1>5 DEF CheckClosure, Closure, WaitClosure
  <2> QED BY <2>1, <2>2 DEF SeedsPast, PoliciesPast, MarkedMetrics
<1>6. ASSUME NEW s \in Installers, CheckClosure(s, "file check") PROVE MInv'
  <2>1. pc[s] = 12 /\ pc'[s] \in {0, 13} /\ \A t \in Installers \ {s} : pc'[t] = pc[t]
    <3>1. Proceed(s) /\ pc[s] = 12
      BY <1>6, Places DEF CheckClosure, Types
    <3> QED BY <3>1, Moved
  <2>2. seeds["FILE_IO"] # "conflicting" /\ UNCHANGED <<version, seeds, policies>>
    BY <1>6 DEF CheckClosure, Closure, FileClosure
  <2> QED BY <2>1, <2>2 DEF SeedsPast, PoliciesPast, MarkedMetrics
<1>7. ASSUME NEW s \in Installers, AddSeeds(s, "wait seeds") PROVE MInv'
  <2>1. pc[s] = 10 /\ pc'[s] \in {0, 11} /\ \A t \in Installers \ {s} : pc'[t] = pc[t]
    <3>1. Proceed(s) /\ pc[s] = 10
      BY <1>7, Places DEF AddSeeds, Types
    <3> QED BY <3>1, Moved
  <2>2. /\ seeds' = [seeds EXCEPT !["WAIT_STATS"] = IF seeds["WAIT_STATS"] = "absent" THEN "present" ELSE seeds["WAIT_STATS"]]
        /\ UNCHANGED <<version, policies>>
    BY <1>7 DEF AddSeeds, Collector
  <2>3. /\ seeds'["FILE_IO"] = seeds["FILE_IO"]
        /\ seeds["WAIT_STATS"] # "conflicting" => seeds'["WAIT_STATS"] = "present"
    BY <2>2 DEF Types, Native
  <2>4. SeedsPast'
    BY <2>1, <2>3 DEF SeedsPast
  <2> QED BY <2>1, <2>2, <2>3, <2>4 DEF PoliciesPast, MarkedMetrics, Native
<1>8. ASSUME NEW s \in Installers, AddSeeds(s, "file seeds") PROVE MInv'
  <2>1. pc[s] = 13 /\ pc'[s] \in {0, 14} /\ \A t \in Installers \ {s} : pc'[t] = pc[t]
    <3>1. Proceed(s) /\ pc[s] = 13
      BY <1>8, Places DEF AddSeeds, Types
    <3> QED BY <3>1, Moved
  <2>2. /\ seeds' = [seeds EXCEPT !["FILE_IO"] = IF seeds["FILE_IO"] = "absent" THEN "present" ELSE seeds["FILE_IO"]]
        /\ UNCHANGED <<version, policies>>
    BY <1>8 DEF AddSeeds, Collector
  <2>3. /\ seeds'["WAIT_STATS"] = seeds["WAIT_STATS"]
        /\ seeds["FILE_IO"] # "conflicting" => seeds'["FILE_IO"] = "present"
    BY <2>2 DEF Types, Native
  <2>4. SeedsPast'
    BY <2>1, <2>3 DEF SeedsPast
  <2> QED BY <2>1, <2>2, <2>3, <2>4 DEF PoliciesPast, MarkedMetrics, Native
<1>9. ASSUME NEW s \in Installers, AddPolicy(s, "wait policy") PROVE MInv'
  <2>1. pc[s] = 11 /\ pc'[s] \in {0, 12} /\ \A t \in Installers \ {s} : pc'[t] = pc[t]
    <3>1. Proceed(s) /\ pc[s] = 11
      BY <1>9, Places DEF AddPolicy, Types
    <3> QED BY <3>1, Moved
  <2>2. policies' = policies \cup {"WAIT_STATS"} /\ UNCHANGED <<version, seeds>>
    BY <1>9 DEF AddPolicy, Collector
  <2> QED BY <2>1, <2>2 DEF SeedsPast, PoliciesPast, MarkedMetrics
<1>10. ASSUME NEW s \in Installers, AddPolicy(s, "file policy") PROVE MInv'
  <2>1. pc[s] = 14 /\ pc'[s] \in {0, 15} /\ \A t \in Installers \ {s} : pc'[t] = pc[t]
    <3>1. Proceed(s) /\ pc[s] = 14
      BY <1>10, Places DEF AddPolicy, Types
    <3> QED BY <3>1, Moved
  <2>2. policies' = policies \cup {"FILE_IO"} /\ UNCHANGED <<version, seeds>>
    BY <1>10 DEF AddPolicy, Collector
  <2> QED BY <2>1, <2>2 DEF SeedsPast, PoliciesPast, MarkedMetrics
<1>11. ASSUME NEW s \in Installers, Mark(s) PROVE MInv'
  <2>1. /\ pc[s] = 15 /\ pc'[s] \in {0, 16} /\ pc'[s] \in 0..15
        /\ \A t \in Installers \ {s} : pc'[t] = pc[t]
    <3>1. Proceed(s) /\ pc[s] = 15
      BY <1>11, Places DEF Mark, Types
    <3> QED BY <3>1, Moved
  <2>2. UNCHANGED <<seeds, policies>>
    BY <1>11 DEF Mark
  <2>3. \A c \in Native : seeds[c] = "present" /\ c \in policies
    BY <2>1 DEF SeedsPast, PoliciesPast, Native
  <2> QED BY <2>1, <2>2, <2>3 DEF SeedsPast, PoliciesPast, MarkedMetrics
<1>12. ASSUME Standalone PROVE MInv'
  BY <1>12 DEF Standalone, SeedsPast, PoliciesPast, MarkedMetrics, Native
<1>13. ASSUME NEW h \in Newer, OccupyName(h) PROVE MInv'
  BY <1>13 DEF OccupyName, SeedsPast, PoliciesPast, MarkedMetrics
<1>14. ASSUME NEW c \in Native, OccupyMetric(c) PROVE MInv'
  <2>1. /\ \A s \in Installers : pc[s] = 0
        /\ seeds[c] = "absent" /\ seeds' = [seeds EXCEPT ![c] = "conflicting"]
        /\ UNCHANGED <<version, policies, pc>>
    BY <1>14 DEF OccupyMetric, Untouched, Resting
  <2>2. SeedsPast' /\ PoliciesPast'
    BY <2>1 DEF SeedsPast, PoliciesPast
  <2>3. MarkedMetrics'
    BY <2>1 DEF MarkedMetrics
  <2> QED BY <2>2, <2>3
<1>15. ASSUME UNCHANGED target, UNCHANGED pc PROVE MInv'
  BY <1>15 DEF target, SeedsPast, PoliciesPast, MarkedMetrics
<1> QED
  BY <1>1, <1>2, <1>3, <1>4, <1>5, <1>6, <1>7, <1>8, <1>9, <1>10, <1>11, <1>12, <1>13, <1>14, <1>15
     DEF Next, Install, Spoil, Step, Newer, vars

(* While operators keep away from a running installation, a target that    *)
(* says 1.3.1 has the constraints, helpers, metrics and policies of the    *)
(* release, however many installations were cut short or ran at once (the  *)
(* order of the installer's sources and of the statements of 078).         *)
THEOREM MarkTheorem == ASSUME Quiet PROVE Spec => []MarkedIsComplete
<1>1. BInv /\ MInv => MarkedIsComplete
  BY DEF BInv, MInv, MarkedBodies, MarkedMetrics, MarkedIsComplete
<1> QED BY InitBodies, StepBodies, InitMetrics, StepMetrics, <1>1, PTL DEF Spec
----------------------------------------------------------------------------
(* What the preflight of 030 can meet.                                     *)

Packages == {"1.0.0", "1.1.0", "1.1.1", "1.2.0", "1.2.1", "1.2.2", "1.3.0", "1.3.1"}

ShapeIs == version \in Packages \cup {"none"} /\ shape = Schema(version)
Bodies == \A h \in Newer : body[h] \in Recognised(h) \cup {"absent", "foreign"}
Fresh == version = "none" => \A h \in Helpers : body[h] = "absent" \/ (h \in Newer /\ body[h] = "foreign")
(* A package that owns a name put its helper there.                        *)
Owned == \A h \in Newer : Owns(h, version) => body[h] \notin {"absent", "foreign"}

KInv == ShapeIs /\ Bodies /\ Fresh /\ Owned

LEMMA InitKnown == Init => KInv
<1> SUFFICES ASSUME Init PROVE KInv
  OBVIOUS
<1>1. version \in Packages \cup {"none"} /\ shape = Schema(version)
  BY InstallationAssumption DEF Init, Packages
<1>2. body["Wait"] = BodyOf("Wait", version) /\ body["File"] = BodyOf("File", version)
  BY DEF Init, Helpers
<1>3. Bodies
  <2>1. version # "1.2.2"
    BY InstallationAssumption DEF Init
  <2>2. body["Wait"] \in Recognised("Wait") \cup {"absent", "foreign"}
    BY <1>1, <1>2, <2>1 DEF BodyOf, Recognised, Packages
  <2>3. body["File"] \in Recognised("File") \cup {"absent", "foreign"}
    BY <1>1, <1>2, <2>1 DEF BodyOf, Recognised, Packages
  <2>4. QED
    BY <2>2, <2>3 DEF Bodies, Newer
<1>4. Fresh
  BY DEF Fresh, Init, BodyOf
<1>5. Owned
  BY <1>1, <1>2 DEF Owned, Newer, BodyOf, Owns, Packages
<1> QED BY <1>1, <1>3, <1>4, <1>5 DEF KInv, ShapeIs

LEMMA StepKnown == ASSUME BInv, BInv', KInv, [Next]_vars PROVE KInv'
<1>1. ASSUME NEW s \in Installers, InstallSchema(s) PROVE KInv'
  <2>1. shape' = 3 /\ version' = "1.2.2" /\ UNCHANGED body
    BY <1>1 DEF InstallSchema
  <2>2. ShapeIs'
    BY <2>1 DEF ShapeIs, Packages, Schema
  <2>3. Bodies' /\ Fresh'
    BY <2>1 DEF KInv, Bodies, Fresh
  <2>4. Owned'
    BY <2>1 DEF Owned, Owns
  <2> QED BY <2>2, <2>3, <2>4 DEF KInv
<1>2. ASSUME NEW s \in Installers, NEW h \in Helpers, Replace(s, h) PROVE KInv'
  <2>1. body' = [body EXCEPT ![h] = "1.3.1"] /\ UNCHANGED <<version, shape>>
    BY <1>2 DEF Replace
  <2>2. body'[h] = "1.3.1" /\ \A g \in Helpers \ {h} : body'[g] = body[g]
    BY <2>1 DEF BInv, Types
  <2>3. 1 < pc[s]
    <3>1. Types /\ At(s, h) /\ Proceed(s) /\ h # "schema"
      BY <1>2 DEF Replace, BInv, Helpers
    <3> QED BY <3>1, ComesFrom
  <2>4. \A g \in Newer : g \in Helpers
    BY DEF Newer, Helpers
  <2>5. ShapeIs' /\ Fresh'
    BY <2>1, <2>3 DEF KInv, ShapeIs, Fresh, BInv, ShapePast
  <2>6. \A g \in Newer : body'[g] = body[g] \/ body'[g] = "1.3.1"
    BY <2>2, <2>4
  <2>7. Bodies'
    BY <2>6 DEF KInv, Bodies, Recognised
  <2>8. Owned'
    BY <2>1, <2>6 DEF KInv, Owned
  <2> QED BY <2>5, <2>7, <2>8 DEF KInv
<1>3. ASSUME \/ \E s \in Installers : Mark(s)
             \/ Standalone
      PROVE  KInv'
  <2>1. version' = "1.3.1"
    BY <1>3 DEF Mark, Standalone
  <2>2. shape' = 3 /\ \A h \in Newer : body'[h] = "1.3.1"
    BY <2>1 DEF BInv, MarkedBodies, Newer, Helpers
  <2>3. ShapeIs'
    BY <2>1, <2>2 DEF ShapeIs, Packages, Schema
  <2>4. Bodies' /\ Fresh' /\ Owned'
    BY <2>1, <2>2 DEF Bodies, Recognised, Fresh, Owned
  <2> QED BY <2>3, <2>4 DEF KInv
<1>4. ASSUME NEW h \in Newer, OccupyName(h) PROVE KInv'
  <2>1. body[h] = "absent" /\ body' = [body EXCEPT ![h] = "foreign"] /\ UNCHANGED <<version, shape>>
    BY <1>4 DEF OccupyName
  <2>2. \A g \in Newer : g \in Helpers
    BY DEF Newer, Helpers
  <2>3. body'[h] = "foreign" /\ \A g \in Helpers \ {h} : body'[g] = body[g]
    BY <2>1, <2>2 DEF BInv, Types
  <2>4. ShapeIs' /\ Bodies' /\ Fresh'
    BY <2>1, <2>2, <2>3 DEF KInv, ShapeIs, Bodies, Fresh, Recognised
  <2>5. Owned'
    BY <2>1, <2>2, <2>3 DEF KInv, Owned
  <2> QED BY <2>4, <2>5 DEF KInv
<1>5. ASSUME UNCHANGED <<version, shape, body>> PROVE KInv'
  BY <1>5 DEF KInv, ShapeIs, Bodies, Fresh, Owned
<1>6. ASSUME NEW s \in Installers, NEW step,
             Start(s) \/ Refuse(s) \/ Fail(s) \/ CheckClosure(s, step) \/ AddSeeds(s, step) \/ AddPolicy(s, step)
      PROVE  KInv'
  BY <1>5, <1>6 DEF Start, Refuse, Fail, CheckClosure, AddSeeds, AddPolicy
<1>7. ASSUME (\E c \in Native : OccupyMetric(c)) \/ UNCHANGED <<target, pc>> PROVE KInv'
  BY <1>5, <1>7 DEF OccupyMetric, target
<1> QED
  BY <1>1, <1>2, <1>3, <1>4, <1>6, <1>7 DEF Next, Install, Spoil, Step, Newer, vars

(* An installation that was cut short at any statement can be started      *)
(* again: the preflight of 030 accepts what is there, unless somebody put  *)
(* something of their own under a helper's name or a metric's code.        *)
THEOREM ResumeTheorem == Spec => []Resumable
<1>1. ASSUME KInv PROVE Resumable
  <2>1. SUFFICES ASSUME \A h \in Newer : body[h] # "foreign",
                        \A c \in Native : seeds[c] # "conflicting"
                 PROVE  Accepts
    BY DEF Resumable, InTheWay, Newer
  <2>2. CASE version = "none"
    BY <1>1, <2>1, <2>2 DEF Accepts, KInv, Fresh
  <2>3. CASE version # "none"
    <3>1. \A h \in Newer : NameFree(h)
      BY <1>1, <2>1 DEF KInv, Bodies, NameFree
    <3>2. QED
      BY <1>1, <2>1, <2>3, <3>1 DEF Accepts, KInv, ShapeIs, Newer
  <2>4. QED
    BY <2>2, <2>3
<1>2. QED
  BY InitBodies, StepBodies, InitKnown, StepKnown, <1>1, PTL DEF Spec
----------------------------------------------------------------------------
(* Past the preflight, no name is somebody else's, if nobody takes one     *)
(* while an installation runs.                                             *)
Clear == \A s \in Installers : 1 < pc[s] => \A h \in Newer : body[h] # "foreign"
Kept == \A h \in Newer : body[h] = "foreign" => body'[h] = "foreign"

LEMMA InitClear == Init => Clear
BY DEF Init, Clear

(* The preflight lets no other owner's helper through.                     *)
LEMMA AcceptsClear == ASSUME KInv, Accepts PROVE \A h \in Newer : body[h] # "foreign"
<1>1. CASE version = "none"
  BY <1>1 DEF Accepts, Newer, Helpers
<1>2. CASE version # "none"
  <2>1. \A h \in Newer : NameFree(h)
    BY <1>2 DEF Accepts, Newer
  <2>2. QED
    BY <2>1 DEF KInv, Owned, NameFree, Recognised
<1>3. QED
  BY <1>1, <1>2

LEMMA StepClear == ASSUME Quiet, BInv, KInv, Clear, [Next]_vars PROVE Clear' /\ Kept
<1>1. ASSUME NEW s \in Installers, Start(s) PROVE Clear' /\ Kept
  <2>1. pc'[s] = 1 /\ \A t \in Installers \ {s} : pc'[t] = pc[t]
    BY <1>1 DEF Start, BInv, Types
  <2> QED BY <1>1, <2>1 DEF Start, Clear, Kept
<1>2. ASSUME NEW s \in Installers, Refuse(s) \/ Fail(s) PROVE Clear' /\ Kept
  <2>1. pc'[s] = 0 /\ \A t \in Installers \ {s} : pc'[t] = pc[t]
    BY <1>2, Moves DEF Refuse, Fail, BInv, Types
  <2>2. UNCHANGED body
    BY <1>2 DEF Refuse, Fail
  <2> QED BY <2>1, <2>2 DEF Clear, Kept
<1>3. ASSUME NEW s \in Installers, InstallSchema(s) PROVE Clear' /\ Kept
  <2>1. Accepts /\ UNCHANGED body
    BY <1>3 DEF InstallSchema
  <2> QED BY <2>1, AcceptsClear DEF Clear, Kept
<1>4. ASSUME NEW s \in Installers, NEW h \in Helpers, Replace(s, h) PROVE Clear' /\ Kept
  <2>1. 1 < pc[s] /\ \A t \in Installers : 1 < pc'[t] => 1 < pc[t]
    <3>1. Types /\ At(s, h) /\ Proceed(s) /\ h # "schema"
      BY <1>4 DEF Replace, BInv, Helpers
    <3> QED BY <3>1, ComesFrom
  <2>2. \A g \in Newer : body[g] # "foreign"
    BY <2>1 DEF Clear
  <2>3. \A g \in Newer : body'[g] = body[g] \/ body'[g] = "1.3.1"
    BY <1>4 DEF Replace, BInv, Types, Newer, Helpers
  <2> QED BY <2>1, <2>2, <2>3 DEF Clear, Kept
<1>5. ASSUME NEW s \in Installers,
             \/ \E step \in {"wait check", "file check"} : CheckClosure(s, step)
             \/ \E step \in {"wait seeds", "file seeds"} : AddSeeds(s, step)
             \/ \E step \in {"wait policy", "file policy"} : AddPolicy(s, step)
             \/ Mark(s)
      PROVE  Clear' /\ Kept
  <2>1. PICK step : At(s, step) /\ Proceed(s) /\ step # "schema" /\ UNCHANGED body
    BY <1>5 DEF CheckClosure, AddSeeds, AddPolicy, Mark
  <2>2. \A t \in Installers : 1 < pc'[t] => 1 < pc[t]
    BY <2>1, ComesFrom DEF BInv
  <2> QED BY <2>1, <2>2 DEF Clear, Kept
<1>6. ASSUME Standalone PROVE Clear' /\ Kept
  <2>1. Accepts /\ body' = [h \in Helpers |-> "1.3.1"]
    BY <1>6 DEF Standalone
  <2>2. \A h \in Newer : body'[h] = "1.3.1"
    BY <2>1 DEF Newer, Helpers
  <2> QED BY <2>1, <2>2, AcceptsClear DEF Clear, Kept
<1>7. ASSUME NEW h \in Newer, OccupyName(h) PROVE Clear' /\ Kept
  <2>1. /\ \A s \in Installers : pc'[s] = 0
        /\ body[h] = "absent" /\ body' = [body EXCEPT ![h] = "foreign"]
    BY <1>7 DEF OccupyName, Untouched, Resting
  <2>2. \A g \in Newer : body'[g] = "foreign" \/ body'[g] = body[g]
    BY <2>1 DEF BInv, Types, Newer, Helpers
  <2> QED BY <2>1, <2>2 DEF Clear, Kept
<1>8. ASSUME (\E c \in Native : OccupyMetric(c)) \/ UNCHANGED <<target, pc>> PROVE Clear' /\ Kept
  <2>1. UNCHANGED <<body, pc>>
    BY <1>8 DEF OccupyMetric, target
  <2> QED BY <2>1 DEF Clear, Kept
<1> QED
  BY <1>1, <1>2, <1>3, <1>4, <1>5, <1>6, <1>7, <1>8 DEF Next, Install, Spoil, Step, Newer, vars

(* While operators keep away from a running installation, it never         *)
(* overwrites what somebody else put under the name of a newer helper (the *)
(* collision check of 030).                                                *)
THEOREM ForeignTheorem == ASSUME Quiet PROVE Spec => ForeignKept
<1>1. Kept => (\A h \in {"Wait", "File"} : body[h] = "foreign" => body'[h] = "foreign")
  BY DEF Kept, Newer
<1>2. QED
  BY InitBodies, StepBodies, InitKnown, StepKnown, InitClear, StepClear, <1>1, PTL DEF Spec, ForeignKept
----------------------------------------------------------------------------
(* What the admission of 076 can meet: past 030 the target is staged or    *)
(* complete, and a target that still has the version of an older release   *)
(* has that release's helpers.                                             *)
StagedPast == \A s \in Installers : 1 < pc[s] => version \in {"1.2.2", "1.3.1"}
Older == Packages \ {"1.2.2", "1.3.1"}
Untampered ==
  version \in Older =>
    \A h \in Helpers : \/ body[h] = BodyOf(h, version)
                       \/ BodyOf(h, version) = "absent" /\ body[h] = "foreign"

AInv == StagedPast /\ Untampered

LEMMA InitUntampered == Init => AInv
  BY DEF Init, AInv, StagedPast, Untampered

LEMMA StepUntampered == ASSUME BInv, AInv, [Next]_vars PROVE AInv'
<1>1. ASSUME NEW s \in Installers, Start(s) PROVE AInv'
  <2>1. pc'[s] = 1 /\ \A t \in Installers \ {s} : pc'[t] = pc[t]
    BY <1>1 DEF Start, BInv, Types
  <2> QED BY <1>1, <2>1 DEF Start, AInv, StagedPast, Untampered
<1>2. ASSUME NEW s \in Installers, Refuse(s) \/ Fail(s) PROVE AInv'
  <2>1. pc'[s] = 0 /\ \A t \in Installers \ {s} : pc'[t] = pc[t]
    BY <1>2, Moves DEF Refuse, Fail, BInv, Types
  <2>2. UNCHANGED <<version, body>>
    BY <1>2 DEF Refuse, Fail
  <2> QED BY <2>1, <2>2 DEF AInv, StagedPast, Untampered
<1>3. ASSUME NEW s \in Installers, InstallSchema(s) PROVE AInv'
  <2>1. version' = "1.2.2"
    BY <1>3 DEF InstallSchema
  <2> QED BY <2>1 DEF AInv, StagedPast, Untampered, Older
<1>4. ASSUME NEW s \in Installers, NEW h \in Helpers, Replace(s, h) PROVE AInv'
  <2>1. At(s, h) /\ Proceed(s) /\ h # "schema" /\ UNCHANGED version
    BY <1>4 DEF Replace, Helpers
  <2>2. 1 < pc[s] /\ \A t \in Installers : 1 < pc'[t] => 1 < pc[t]
    BY <2>1, ComesFrom DEF BInv
  <2>3. version \in {"1.2.2", "1.3.1"}
    BY <2>2 DEF AInv, StagedPast
  <2> QED BY <2>1, <2>3 DEF AInv, StagedPast, Untampered, Older
<1>5. ASSUME NEW s \in Installers,
             NEW step \in {"wait check", "file check", "wait seeds", "file seeds", "wait policy", "file policy"},
             CheckClosure(s, step) \/ AddSeeds(s, step) \/ AddPolicy(s, step)
      PROVE  AInv'
  <2>1. At(s, step) /\ Proceed(s) /\ step # "schema" /\ UNCHANGED <<version, body>>
    BY <1>5 DEF CheckClosure, AddSeeds, AddPolicy
  <2>2. \A t \in Installers : 1 < pc'[t] => 1 < pc[t]
    BY <2>1, ComesFrom DEF BInv
  <2> QED BY <2>1, <2>2 DEF AInv, StagedPast, Untampered
<1>6. ASSUME NEW s \in Installers, Mark(s) PROVE AInv'
  BY <1>6 DEF Mark, AInv, StagedPast, Untampered, Older
<1>7. ASSUME Standalone PROVE AInv'
  BY <1>7 DEF Standalone, AInv, StagedPast, Untampered, Older
<1>8. ASSUME NEW h \in Newer, OccupyName(h) PROVE AInv'
  <2>1. /\ body[h] = "absent" /\ body' = [body EXCEPT ![h] = "foreign"]
        /\ UNCHANGED <<version, pc>>
    BY <1>8 DEF OccupyName
  <2>2. h \in Helpers /\ \A g \in Helpers : body'[g] = IF g = h THEN "foreign" ELSE body[g]
    BY <2>1 DEF BInv, Types, Newer, Helpers
  <2>3. Untampered'
    <3>1. SUFFICES ASSUME version \in Older, NEW g \in Helpers
                   PROVE  \/ body'[g] = BodyOf(g, version)
                          \/ BodyOf(g, version) = "absent" /\ body'[g] = "foreign"
      BY <2>1 DEF Untampered, Older
    <3>2. \/ body[g] = BodyOf(g, version)
          \/ BodyOf(g, version) = "absent" /\ body[g] = "foreign"
      BY <3>1 DEF AInv, Untampered
    <3> QED BY <2>1, <2>2, <3>2
  <2> QED BY <2>1, <2>3 DEF AInv, StagedPast
<1>9. ASSUME (\E c \in Native : OccupyMetric(c)) \/ UNCHANGED <<target, pc>> PROVE AInv'
  <2>1. UNCHANGED <<version, body, pc>>
    BY <1>9 DEF OccupyMetric, target
  <2> QED BY <2>1 DEF AInv, StagedPast, Untampered
<1> QED
  BY <1>1, <1>2, <1>3, <1>4, <1>5, <1>6, <1>7, <1>8, <1>9 DEF Next, Install, Spoil, Step, Newer, vars

(* No step takes a helper's signature, a metric or a policy away: a helper  *)
(* that is there becomes the release's own or stays, and operators only     *)
(* take names and codes that are free.                                      *)
Grows ==
  /\ \A h \in Helpers : body'[h] \in {body[h], "1.3.1"} \/ body[h] = "absent"
  /\ \A c \in Native : seeds[c] = "present" => seeds'[c] = "present"
  /\ policies \subseteq policies'

LEMMA StepGrows == ASSUME BInv, Install \/ Spoil \/ UNCHANGED target PROVE Grows
<1> USE DEF BInv
<1>1. ASSUME UNCHANGED <<body, seeds, policies>> PROVE Grows
  BY <1>1 DEF Grows
<1>2. ASSUME NEW s \in Installers, NEW step,
             Start(s) \/ Refuse(s) \/ Fail(s) \/ InstallSchema(s) \/ CheckClosure(s, step) \/ Mark(s)
      PROVE  Grows
  BY <1>1, <1>2 DEF Start, Refuse, Fail, InstallSchema, CheckClosure, Mark
<1>3. ASSUME NEW s \in Installers, NEW h \in Helpers, Replace(s, h) PROVE Grows
  BY <1>3 DEF Replace, Types, Grows
<1>4. ASSUME NEW s \in Installers, NEW step, AddSeeds(s, step) PROVE Grows
  <2>1. /\ seeds' = [seeds EXCEPT ![Collector(step)] =
                       IF seeds[Collector(step)] = "absent" THEN "present" ELSE seeds[Collector(step)]]
        /\ UNCHANGED <<body, policies>>
    BY <1>4 DEF AddSeeds
  <2> QED BY <2>1 DEF Types, Grows
<1>5. ASSUME NEW s \in Installers, NEW step, AddPolicy(s, step) PROVE Grows
  BY <1>5 DEF AddPolicy, Grows
<1>6. ASSUME Standalone PROVE Grows
  BY <1>6 DEF Standalone, Types, Grows
<1>7. ASSUME NEW h \in Newer, OccupyName(h) PROVE Grows
  BY <1>7 DEF OccupyName, Types, Grows
<1>8. ASSUME NEW c \in Native, OccupyMetric(c) PROVE Grows
  BY <1>8 DEF OccupyMetric, Types, Grows
<1> QED
  BY <1>1, <1>2, <1>3, <1>4, <1>5, <1>6, <1>7, <1>8 DEF Install, Spoil, Step, Newer, target

(* What the statements of an admission have established, in their order:   *)
(* the release that was read and the helpers it had; after the signatures, *)
(* that they fit; after the metrics, that they are there.                  *)
AdmissionType ==
  admission \in [at : {"rest", "required", "helpers", "parameters", "metrics", "probe", "admitted"},
                 collector : Native, version : Packages \cup {"none"}, required : 0..3, moved : BOOLEAN]
ReadKnown ==
  admission.at # "rest" =>
    /\ admission.version \in Accepted(admission.collector)
    /\ \A h \in Used(admission.collector) :
         /\ body[h] \in {admission.version, "1.3.1"}
         /\ ~admission.moved => body[h] = admission.version
SignaturesKnown ==
  admission.at \in {"metrics", "probe", "admitted"} =>
    \A h \in Used(admission.collector) : body[h] \in Typed(h)
MetricsKnown ==
  admission.at \in {"probe", "admitted"} =>
    seeds[admission.collector] = "present" /\ admission.collector \in policies

RInv == AdmissionType /\ ReadKnown /\ SignaturesKnown /\ MetricsKnown

LEMMA InitAdmission == Init => RInv
BY DEF Init, NoAdmission, RInv, AdmissionType, ReadKnown, SignaturesKnown, MetricsKnown, Native, Packages

LEMMA UsedHelpers == \A c \in Native : Used(c) \subseteq Helpers
BY DEF Used, Completion, Helpers

LEMMA RestAdmission == ASSUME admission' = NoAdmission PROVE RInv'
BY DEF NoAdmission, RInv, AdmissionType, ReadKnown, SignaturesKnown, MetricsKnown, Native, Packages

(* The release a target says it is, if 076 accepts it, is the release of   *)
(* the helpers at that moment.                                             *)
LEMMA VersionTells ==
  ASSUME BInv, AInv, NEW c \in Native, version \in Accepted(c), NEW h \in Used(c)
  PROVE  body[h] = version
<1>1. h \in Helpers
  BY UsedHelpers
<1>2. CASE version = "1.3.1"
  BY <1>1, <1>2 DEF BInv, MarkedBodies
<1>3. CASE version # "1.3.1"
  <2>1. c = "WAIT_STATS" /\ version \in {"1.2.1", "1.3.0"}
    BY <1>3 DEF Accepted
  <2>2. h # "File" /\ version \in Older
    BY <2>1 DEF Used, Completion, Older, Packages
  <2>3. BodyOf(h, version) = version
    BY <2>1, <2>2 DEF BodyOf
  <2> QED BY <1>1, <2>1, <2>2, <2>3 DEF AInv, Untampered
<1> QED BY <1>2, <1>3

(* Between two statements of an admission others may install.              *)
LEMMA OthersAdmission ==
  ASSUME BInv, RInv, Grows, Watch PROVE RInv'
<1> DEFINE c == admission.collector
<1>1. /\ admission'.at = admission.at /\ admission'.collector = c
      /\ admission'.version = admission.version
      /\ admission'.moved = (admission.moved \/ (admission.at # "rest" /\ <<version, body>>' # <<version, body>>))
      /\ AdmissionType'
  BY DEF Watch, RInv, AdmissionType
<1>2. c \in Native /\ Used(c) \subseteq Helpers
  BY UsedHelpers DEF RInv, AdmissionType
<1>3. ReadKnown'
  <2>1. SUFFICES ASSUME admission'.at # "rest"
                 PROVE  /\ admission'.version \in Accepted(admission'.collector)
                        /\ \A h \in Used(admission'.collector) :
                             /\ body'[h] \in {admission'.version, "1.3.1"}
                             /\ ~admission'.moved => body'[h] = admission'.version
    BY DEF ReadKnown
  <2> SUFFICES ASSUME NEW h \in Used(c)
               PROVE  /\ admission.version \in Accepted(c)
                      /\ body'[h] \in {admission.version, "1.3.1"}
                      /\ ~admission'.moved => body'[h] = admission.version
    <3>1. admission.version \in Accepted(c)
      BY <1>1, <2>1 DEF RInv, ReadKnown
    <3> QED BY <1>1, <3>1
  <2>2. /\ admission.version \in Accepted(c)
        /\ body[h] \in {admission.version, "1.3.1"}
        /\ ~admission.moved => body[h] = admission.version
    BY <1>1, <2>1 DEF RInv, ReadKnown
  <2>3. body[h] # "absent"
    BY <2>2 DEF Accepted
  <2>4. body'[h] \in {admission.version, "1.3.1"}
    BY <1>2, <2>2, <2>3 DEF Grows
  <2>5. ~admission'.moved => ~admission.moved /\ body' = body
    BY <1>1, <2>1
  <2> QED BY <2>2, <2>4, <2>5
<1>4. SignaturesKnown'
  <2>1. SUFFICES ASSUME admission.at \in {"metrics", "probe", "admitted"}, NEW h \in Used(c)
                 PROVE  body'[h] \in Typed(h)
    BY <1>1 DEF SignaturesKnown
  <2>2. body[h] \in Typed(h)
    BY <2>1 DEF RInv, SignaturesKnown
  <2>3. body[h] # "absent" /\ "1.3.1" \in Typed(h)
    BY <2>2 DEF Typed
  <2> QED BY <1>2, <2>2, <2>3 DEF Grows
<1>5. MetricsKnown'
  BY <1>1, <1>2 DEF RInv, MetricsKnown, Grows
<1> QED BY <1>1, <1>3, <1>4, <1>5 DEF RInv

LEMMA AskAdmission ==
  ASSUME RInv, Admit, UNCHANGED <<target, pc, failures>>, BInv, KInv, AInv PROVE RInv'
<1>1. UNCHANGED <<version, body, seeds, policies>>
  BY DEF target
<1>2. ASSUME NEW c \in Native, ReadVersion(c) PROVE RInv'
  <2>1. CASE version \notin Accepted(c)
    BY <1>2, <2>1, RestAdmission DEF ReadVersion
  <2>2. CASE version \in Accepted(c)
    <3>1. admission' = [at |-> "required", collector |-> c, version |-> version, required |-> 0, moved |-> FALSE]
      BY <1>2, <2>2 DEF ReadVersion, NoAdmission
    <3>2. AdmissionType'
      BY <3>1 DEF AdmissionType, KInv, ShapeIs
    <3>3. ReadKnown'
      BY <1>1, <2>2, <3>1, VersionTells DEF ReadKnown
    <3>4. SignaturesKnown' /\ MetricsKnown'
      BY <3>1 DEF SignaturesKnown, MetricsKnown
    <3> QED BY <3>2, <3>3, <3>4 DEF RInv
  <2> QED BY <2>1, <2>2
<1>3. ASSUME ReadRequired PROVE RInv'
  <2>1. admission.at = "required" /\ admission' = [admission EXCEPT !.at = "helpers", !.required = RequiredContract]
    BY <1>3 DEF ReadRequired
  <2>2. RequiredContract \in 0..3
    BY DEF RequiredContract
  <2>3. AdmissionType'
    BY <2>1, <2>2 DEF RInv, AdmissionType
  <2>4. /\ admission'.at = "helpers" /\ admission'.collector = admission.collector
        /\ admission'.version = admission.version /\ admission'.moved = admission.moved
    BY <2>1 DEF RInv, AdmissionType
  <2> QED BY <1>1, <2>1, <2>3, <2>4 DEF RInv, ReadKnown, SignaturesKnown, MetricsKnown
<1>4. ASSUME NEW check, NEW next \in {"parameters", "metrics", "probe", "admitted"}, NEW holds \in BOOLEAN,
             Ask(check, next, holds), check # "rest",
             holds /\ next \in {"metrics", "probe", "admitted"} =>
               \A h \in Used(admission.collector) : body[h] \in Typed(h),
             holds /\ next \in {"probe", "admitted"} =>
               seeds[admission.collector] = "present" /\ admission.collector \in policies
      PROVE  RInv'
  <2>1. CASE ~holds
    BY <1>4, <2>1, RestAdmission DEF Ask
  <2>2. CASE holds
    <3>1. admission.at # "rest" /\ admission' = [admission EXCEPT !.at = next]
      BY <1>4, <2>2 DEF Ask
    <3>2. /\ admission'.at = next /\ admission'.collector = admission.collector
          /\ admission'.version = admission.version /\ admission'.moved = admission.moved
          /\ AdmissionType'
      BY <3>1 DEF RInv, AdmissionType
    <3>3. ReadKnown'
      BY <1>1, <3>1, <3>2 DEF RInv, ReadKnown
    <3>4. SignaturesKnown' /\ MetricsKnown'
      BY <1>1, <1>4, <2>2, <3>2 DEF SignaturesKnown, MetricsKnown
    <3> QED BY <3>2, <3>3, <3>4 DEF RInv
  <2> QED BY <1>4, <2>1, <2>2
<1>5. ASSUME AskOn PROVE RInv'
  <2> DEFINE c == admission.collector
             present == \A h \in Used(c) \cup {"Wait"} : body[h] # "absent"
             typed == \A h \in Used(c) : body[h] \in Typed(h)
             metrics == seeds[c] = "present" /\ c \in policies
             contract == Contract(body["Purge"], version) = admission.required
  <2>1. \/ Ask("helpers", "parameters", present) \/ Ask("parameters", "metrics", typed)
        \/ Ask("metrics", "probe", metrics) \/ Ask("probe", "admitted", contract)
    BY <1>5 DEF AskOn
  <2>2. present \in BOOLEAN /\ typed \in BOOLEAN /\ metrics \in BOOLEAN /\ contract \in BOOLEAN
    OBVIOUS
  <2>3. /\ admission.at \in {"metrics", "probe", "admitted"} => typed
        /\ admission.at \in {"probe", "admitted"} => metrics
    BY DEF RInv, SignaturesKnown, MetricsKnown
  <2> HIDE DEF present, typed, metrics, contract
  <2>4. CASE Ask("helpers", "parameters", present)
    BY <1>4, <2>2, <2>4
  <2>5. CASE Ask("parameters", "metrics", typed)
    BY <1>4, <2>2, <2>5 DEF typed
  <2>6. CASE Ask("metrics", "probe", metrics)
    <3>1. typed
      BY <2>3, <2>6 DEF Ask
    <3> QED BY <1>4, <2>2, <2>6, <3>1 DEF typed, metrics
  <2>7. CASE Ask("probe", "admitted", contract)
    <3>1. typed /\ metrics
      BY <2>3, <2>7 DEF Ask
    <3> QED BY <1>4, <2>2, <2>7, <3>1 DEF typed, metrics
  <2> QED BY <2>1, <2>4, <2>5, <2>6, <2>7
<1> QED BY <1>2, <1>3, <1>5 DEF Admit

LEMMA StepAdmission == ASSUME BInv, KInv, AInv, RInv, [Next]_vars PROVE RInv'
<1>1. CASE (Install \/ Spoil) /\ Watch
  BY <1>1, StepGrows, OthersAdmission
<1>2. CASE Admit /\ UNCHANGED <<target, pc, failures>>
  BY <1>2, AskAdmission
<1>3. CASE UNCHANGED vars
  BY <1>3 DEF vars, target, RInv, AdmissionType, ReadKnown, SignaturesKnown, MetricsKnown
<1> QED BY <1>1, <1>2, <1>3 DEF Next

(* What 076 admits fits, although sessions install, fail and start again   *)
(* between any two of its statements and afterwards: the helpers a         *)
(* collector calls have the signatures that were asked for and are those   *)
(* of the release that was read or of 1.3.1, all of the former unless      *)
(* something was installed since; metrics and policy are there.            *)
THEOREM AdmissionTheorem == Spec => []AdmittedIsCoherent
<1>1. BInv /\ RInv => AdmittedIsCoherent
  BY DEF RInv, AdmissionType, ReadKnown, SignaturesKnown, MetricsKnown, AdmittedIsCoherent
<1> QED
  BY InitBodies, StepBodies, InitKnown, StepKnown, InitUntampered, StepUntampered,
     InitAdmission, StepAdmission, <1>1, PTL DEF Spec
=============================================================================
