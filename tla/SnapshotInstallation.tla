------------------------ MODULE SnapshotInstallation ------------------------
(***************************************************************************)
(* Installing and upgrading the snapshot target (SC-023).  The SQLCMD      *)
(* installer runs its sources one after the other under :ON ERROR EXIT;    *)
(* only the first, 030, is a transaction, every later statement commits on *)
(* its own.  Sessions may install at the same time, fail at any statement  *)
(* and start again, while operators and collectors use the target.         *)
(***************************************************************************)
EXTENDS Naturals, Sequences

CONSTANTS Installers,   \* sessions that run the SQLCMD installer
          Releases,     \* versions the target may have been installed with
          MaxFailures,  \* bound: statements that fail or sessions that die
          Quiet         \* operators leave the target alone while it is installed
ASSUME InstallationAssumption ==
  /\ Releases \subseteq {"none", "1.0.0", "1.1.0", "1.1.1", "1.2.0", "1.2.1", "1.3.0", "1.3.1"}
  /\ MaxFailures \in Nat
  /\ Quiet \in BOOLEAN

VARIABLES version,  \* PackageVersion, "none" in a database without the tables
          shape,    \* schema version whose CHECK constraints the tables have
          body,     \* release each helper's body comes from
          seeds,    \* metric definitions of the native collectors
          policies, \* native collectors that have a policy row
          pc,       \* statement of the installer a session is at, 0 at rest
          failures, \* failures so far
          admission \* the admission under way, or the last one that let a collector in
target == <<version, shape, body, seeds, policies>>
vars == <<target, pc, failures, admission>>

Native == {"WAIT_STATS", "FILE_IO"}
Helpers == {"Configure", "Prepare", "Counters", "Wait", "File", "Finalize", "Purge"}
(* SchemaVersion that goes with a package version.                         *)
Schema(v) == CASE v = "none" -> 0
               [] v = "1.0.0" -> 1
               [] v \in {"1.1.0", "1.1.1", "1.2.0", "1.2.1"} -> 2
               [] OTHER -> 3

----------------------------------------------------------------------------
(* The installer.                                                          *)

(* Mutant: the package is marked before the last seeds. *)
StepsMarkedEarly ==
  <<"schema", "Configure", "Prepare", "Counters", "Wait", "File", "Finalize", "Purge",
    "wait check", "wait seeds", "wait policy", "file check", "mark", "file seeds", "file policy">>
(* The statements in the order of the installer's sources: 030, one batch  *)
(* for each helper, and the statements of 075 and 078.                     *)
Steps ==
  <<"schema", "Configure", "Prepare", "Counters", "Wait", "File", "Finalize", "Purge",
    "wait check", "wait seeds", "wait policy", "file check", "file seeds", "file policy", "mark">>

Resting(s) == pc[s] = 0
At(s, step) == ~Resting(s) /\ Steps[pc[s]] = step
Proceed(s) == pc' = [pc EXCEPT ![s] = IF @ = Len(Steps) THEN 0 ELSE @ + 1]
Leave(s) == pc' = [pc EXCEPT ![s] = 0]

(* Mutant: the stage of an interrupted upgrade counts as an owner. *)
OwnsStaged(h, v) ==
  v \in (IF h = "Wait" THEN {"1.2.0", "1.2.1", "1.2.2", "1.3.0", "1.3.1"} ELSE {"1.2.2", "1.3.0", "1.3.1"})
(* Packages that came with the two newer helpers: whatever has the name    *)
(* there is the package's own.                                             *)
Owns(h, v) == v \in (IF h = "Wait" THEN {"1.2.0", "1.2.1", "1.3.0", "1.3.1"} ELSE {"1.3.0", "1.3.1"})

(* Mutant: an earlier list of digests, without the last release. *)
RecognisedBefore(h) == IF h = "Wait" THEN {"1.2.0", "1.2.1", "1.3.1"} ELSE {"1.3.0", "1.3.1"}
(* Released bodies known by their digest.                                  *)
Recognised(h) == IF h = "Wait" THEN {"1.2.0", "1.2.1", "1.3.0", "1.3.1"} ELSE {"1.3.0", "1.3.1"}

NameFree(h) == body[h] = "absent" \/ Owns(h, version) \/ body[h] \in Recognised(h)

(* What the preflight of 030 accepts: no trace of the package, or a known  *)
(* version in its own shape, without metric conflicts or foreign helpers.  *)
Accepts ==
  IF version = "none" THEN \A h \in Helpers : body[h] = "absent"
  ELSE /\ shape = Schema(version)
       /\ \A c \in Native : seeds[c] # "conflicting"
       /\ NameFree("Wait") /\ NameFree("File")

Start(s) ==
  /\ Resting(s)
  /\ pc' = [pc EXCEPT ![s] = 1]
  /\ UNCHANGED <<version, shape, body, seeds, policies, failures>>

(* 030 in one transaction: preflight, CHECK constraints, tables, and the   *)
(* staged version, whatever it found.                                      *)
InstallSchema(s) ==
  /\ At(s, "schema") /\ Accepts
  /\ shape' = 3 /\ version' = "1.2.2"
  /\ Proceed(s) /\ UNCHANGED <<body, seeds, policies, failures>>

(* CREATE OR ALTER of one helper.                                          *)
Replace(s, h) ==
  /\ At(s, h)
  /\ body' = [body EXCEPT ![h] = "1.3.1"]
  /\ Proceed(s) /\ UNCHANGED <<version, shape, seeds, policies, failures>>

(* Releases whose helpers have the parameters the closures ask for.        *)
Typed(h) == IF h = "File" THEN {"1.3.0", "1.3.1"} ELSE {"1.2.1", "1.3.0", "1.3.1"}

(* The retention contract a purge helper reports for a version.            *)
Contract(b, v) == CASE b = "1.3.1" /\ v \in {"1.2.2", "1.3.0", "1.3.1"} -> 3
                    [] b = "1.3.0" /\ v \in {"1.2.2", "1.3.0"} -> 2
                    [] OTHER -> 1

WaitClosure ==
  /\ seeds["WAIT_STATS"] # "conflicting" /\ version = "1.2.2"
  /\ \A h \in Helpers \ {"File"} : body[h] \in Typed(h)

FileClosure ==
  /\ seeds["FILE_IO"] # "conflicting" /\ version = "1.2.2"
  /\ \A h \in Helpers : body[h] \in Typed(h)
  /\ seeds["WAIT_STATS"] = "present" /\ "WAIT_STATS" \in policies
  /\ Contract(body["Purge"], version) = 3

Closure(step) == IF step = "wait check" THEN WaitClosure ELSE FileClosure
CheckClosure(s, step) ==
  /\ At(s, step) /\ Closure(step)
  /\ Proceed(s) /\ UNCHANGED <<version, shape, body, seeds, policies, failures>>

Collector(step) == IF step \in {"wait seeds", "wait policy"} THEN "WAIT_STATS" ELSE "FILE_IO"

(* The missing metric definitions in one INSERT; those of another contract *)
(* stay as they are.                                                       *)
AddSeeds(s, step) ==
  /\ At(s, step)
  /\ seeds' = [seeds EXCEPT ![Collector(step)] = IF @ = "absent" THEN "present" ELSE @]
  /\ Proceed(s) /\ UNCHANGED <<version, shape, body, policies, failures>>

AddPolicy(s, step) ==
  /\ At(s, step)
  /\ policies' = policies \cup {Collector(step)}
  /\ Proceed(s) /\ UNCHANGED <<version, shape, body, seeds, failures>>

(* The UPDATE that ends 078, on the staged version only.                   *)
Mark(s) ==
  /\ At(s, "mark") /\ version = "1.2.2"
  /\ version' = "1.3.1"
  /\ Proceed(s) /\ UNCHANGED <<shape, body, seeds, policies, failures>>

Refusing(s) ==
  \/ At(s, "schema") /\ ~Accepts
  \/ \E step \in {"wait check", "file check"} : At(s, step) /\ ~Closure(step)
  \/ At(s, "mark") /\ version # "1.2.2"

(* A THROW: the installer ends, what it committed stays.                   *)
Refuse(s) ==
  /\ Refusing(s)
  /\ Leave(s) /\ UNCHANGED <<version, shape, body, seeds, policies, failures>>

(* A statement meets a lock (LOCK_TIMEOUT 0) or an error, or the session   *)
(* dies; a failure of 030 rolls its transaction back.                      *)
Fail(s) ==
  /\ ~Resting(s) /\ failures < MaxFailures
  /\ failures' = failures + 1
  /\ Leave(s) /\ UNCHANGED <<version, shape, body, seeds, policies>>

(* The generated installers run the same sources in one transaction.       *)
Standalone ==
  /\ Accepts
  /\ version' = "1.3.1" /\ shape' = 3
  /\ body' = [h \in Helpers |-> "1.3.1"]
  /\ seeds' = [c \in Native |-> "present"] /\ policies' = Native
  /\ UNCHANGED <<pc, failures>>

Step(s) ==
  \/ InstallSchema(s) \/ (\E h \in Helpers : Replace(s, h))
  \/ CheckClosure(s, "wait check") \/ AddSeeds(s, "wait seeds") \/ AddPolicy(s, "wait policy")
  \/ CheckClosure(s, "file check") \/ AddSeeds(s, "file seeds") \/ AddPolicy(s, "file policy")
  \/ Mark(s) \/ Refuse(s)

----------------------------------------------------------------------------
(* The users of the target.                                                *)

Completion(c) == IF c = "WAIT_STATS" THEN "Wait" ELSE "File"
Used(c) == {"Configure", "Prepare", Completion(c), "Purge"}

(* Mutant: the stage of an interrupted upgrade is accepted. *)
AcceptedStaged(c) == IF c = "WAIT_STATS" THEN {"1.2.1", "1.2.2", "1.3.0", "1.3.1"} ELSE {"1.3.1"}
(* The package versions 076 accepts for a collector.                       *)
Accepted(c) == IF c = "WAIT_STATS" THEN {"1.2.1", "1.3.0", "1.3.1"} ELSE {"1.3.1"}
RequiredContract == IF version = "1.3.1" THEN 3 ELSE IF Schema(version) = 3 THEN 2 ELSE 1

(* 076 asks one statement after the other, without a transaction, whether  *)
(* a native collector may use the target.  It only reads, so one admission *)
(* at a time stands for any number.                                        *)
NoAdmission == [at |-> "rest", collector |-> "WAIT_STATS", version |-> "none", required |-> 0, moved |-> FALSE]

ReadVersion(c) ==
  /\ admission.at \in {"rest", "admitted"}
  /\ admission' = IF version \in Accepted(c)
                  THEN [NoAdmission EXCEPT !.at = "required", !.collector = c, !.version = version]
                  ELSE NoAdmission

(* The version is read a second time for the retention contract.           *)
ReadRequired ==
  /\ admission.at = "required"
  /\ admission' = [admission EXCEPT !.at = "helpers", !.required = RequiredContract]

(* Presence and signatures do not get lost while the target is installed   *)
(* (CREATE OR ALTER keeps the procedure, newer bodies have them), so the   *)
(* last look at each stands for its statement.  File cycles need the wait  *)
(* completion to be there, too.                                            *)
Ask(check, next, holds) ==
  /\ admission.at = check
  /\ admission' = IF holds THEN [admission EXCEPT !.at = next] ELSE NoAdmission

AskOn ==
  LET c == admission.collector
  IN  \/ Ask("helpers", "parameters", \A h \in Used(c) \cup {"Wait"} : body[h] # "absent")
      \/ Ask("parameters", "metrics", \A h \in Used(c) : body[h] \in Typed(h))
      \/ Ask("metrics", "probe", seeds[c] = "present" /\ c \in policies)
      \/ Ask("probe", "admitted", Contract(body["Purge"], version) = admission.required)

Admit == (\E c \in Native : ReadVersion(c)) \/ ReadRequired \/ AskOn

(* History: version or helpers have changed since the admission began.     *)
Watch ==
  admission' = [admission EXCEPT !.moved = @ \/ (admission.at # "rest" /\ <<version, body>>' # <<version, body>>)]

(* Operators put something of their own under a free name or metric code.  *)
Untouched == Quiet => \A s \in Installers : Resting(s)
OccupyName(h) ==
  /\ Untouched
  /\ body[h] = "absent" /\ body' = [body EXCEPT ![h] = "foreign"]
  /\ UNCHANGED <<version, shape, seeds, policies, pc, failures>>
OccupyMetric(c) ==
  /\ Untouched
  /\ version # "none" /\ seeds[c] = "absent"
  /\ seeds' = [seeds EXCEPT ![c] = "conflicting"]
  /\ UNCHANGED <<version, shape, body, policies, pc, failures>>

----------------------------------------------------------------------------

(* Helpers and metrics a release came with.                                *)
BodyOf(h, v) == IF v = "none" \/ (h = "Wait" /\ v \in {"1.0.0", "1.1.0", "1.1.1"})
                     \/ (h = "File" /\ v \notin {"1.3.0", "1.3.1"})
                THEN "absent" ELSE v
NativeOf(v) == {c \in Native : BodyOf(Completion(c), v) # "absent"}

Init ==
  /\ version \in Releases
  /\ shape = Schema(version)
  /\ body = [h \in Helpers |-> BodyOf(h, version)]
  /\ policies = NativeOf(version)
  /\ seeds = [c \in Native |-> IF c \in policies THEN "present" ELSE "absent"]
  /\ pc = [s \in Installers |-> 0]
  /\ failures = 0
  /\ admission = NoAdmission

Install == \/ \E s \in Installers : Start(s) \/ Step(s) \/ Fail(s)
           \/ Standalone
Spoil == (\E h \in {"Wait", "File"} : OccupyName(h)) \/ (\E c \in Native : OccupyMetric(c))
Next == \/ (Install \/ Spoil) /\ Watch
        \/ Admit /\ UNCHANGED <<target, pc, failures>>
Spec == Init /\ [][Next]_vars

(* Sessions run on, and whoever stopped an installation before its end     *)
(* starts it again.                                                        *)
FairSpec ==
  Spec /\ \A s \in Installers : WF_vars(Step(s) /\ Watch) /\ WF_vars(version # "1.3.1" /\ Start(s) /\ Watch)

----------------------------------------------------------------------------
(* Properties.                                                             *)

(* A target that says 1.3.1 is a 1.3.1: whatever installations were cut    *)
(* short, repeated or run at the same time, constraints, helpers, metrics  *)
(* and policies are then those of the release (078's mark comes last).     *)
MarkedIsComplete ==
  version = "1.3.1" =>
    /\ shape = 3 /\ \A h \in Helpers : body[h] = "1.3.1"
    /\ \A c \in Native : seeds[c] = "present" /\ c \in policies

(* What 076 admits fits although other sessions may install between its    *)
(* statements and afterwards: every helper the collector calls has, then   *)
(* and later, the parameters that were asked for, and comes from the       *)
(* release whose version was read or from 1.3.1, never from a third owner; *)
(* metrics and policy stay.  Unless version or helpers changed since the   *)
(* version was read, all helpers are of that one release: what an          *)
(* interrupted upgrade left behind is not admitted.                        *)
AdmittedIsCoherent ==
  admission.at = "admitted" =>
    LET c == admission.collector
    IN  /\ seeds[c] = "present" /\ c \in policies
        /\ \A h \in Used(c) :
             /\ body[h] \in Typed(h) \cap {admission.version, "1.3.1"}
             /\ ~admission.moved => body[h] = admission.version

(* Somebody put something of their own under a newer helper's name or a    *)
(* metric's code.                                                          *)
InTheWay ==
  \/ \E h \in {"Wait", "File"} : body[h] = "foreign"
  \/ \E c \in Native : seeds[c] = "conflicting"

(* An installation can always be started again: at every moment, the       *)
(* preflight recognises what earlier attempts left, unless somebody put    *)
(* something of their own in the way.                                      *)
Resumable == InTheWay \/ Accepts

(* What somebody else put under the name of a newer helper is not          *)
(* overwritten, even when it appeared in the middle of an upgrade that was *)
(* cut short (the collision check of 030).                                 *)
ForeignKept ==
  [][\A h \in {"Wait", "File"} : body[h] = "foreign" => body'[h] = "foreign"]_vars

(* Starting again ends the incomplete stage, if failures end and nothing   *)
(* foreign is in the way.                                                  *)
CompletedAgain == []<>(version = "1.3.1" \/ InTheWay)
=============================================================================
