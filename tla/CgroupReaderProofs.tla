------------------------- MODULE CgroupReaderProofs -------------------------
(***************************************************************************)
(* What a run of the cgroup reader may believe, for any directories,       *)
(* levels, limits and faults of the host, whatever the host does between   *)
(* two reads: a context that is bound names one process, and a ceiling     *)
(* that is published is the ceiling of one moment, the one at which the    *)
(* main reads began, unless something was left and came back unseen; and   *)
(* what is published, or missing, is what the reads support.               *)
(*                                                                         *)
(* The reader never sees two files at one moment.  What it relies on is    *)
(* that a value read before a moment and again after it, in one instance   *)
(* of the directory, was there at that moment: MemoryInv says what the     *)
(* host cannot take back (instances only grow, a value that was left and   *)
(* is there again has set aba), and ReaderInv what each phase of the run   *)
(* has pinned by it.  The second half does without aba: RunInv says what   *)
(* the reads so far have in common with the files that were never written, *)
(* and what a run that has reported no issue can therefore not have met.   *)
(***************************************************************************)
EXTENDS CgroupReader, Integers, FiniteSetTheorems, TLAPS
-----------------------------------------------------------------------------
(* What the host showed and left: been holds these, Write and Migrate add them. *)
FileFact(d, i, k, v) == <<d, i, k, v>>
HomeFact(p, d) == <<p, d>>

(* A fact names its directory, instance, file and value, or its process and home. *)
LEMMA Facts ==
  /\ \A d, i, k, v, e, j, l, w :
       FileFact(d, i, k, v) = FileFact(e, j, l, w) <=> d = e /\ i = j /\ k = l /\ v = w
  /\ \A p, d, q, e : HomeFact(p, d) = HomeFact(q, e) <=> p = q /\ d = e
  /\ \A p, e, d, i, k, v : HomeFact(p, e) # FileFact(d, i, k, v)
  BY DEF FileFact, HomeFact

(* What the host is. *)
HostInv ==
  /\ holder \in Processes \union {Nobody}
  /\ life \in [Processes -> {"unborn", "running", "zombie", "gone"}]
  /\ home \in [Processes -> [dir : Dirs, ino : Nat]] /\ ino \in [Dirs -> Nat]
  /\ file = [d \in Dirs |-> [k \in AllKeys |-> file[d][k]]]
  /\ life[1] # "unborn"
  /\ \A p \in Processes : life[p] \in {"running", "zombie"} <=> holder = p
  /\ \A p \in Processes : home[p].ino <= ino[home[p].dir]

(* What it shows was never left, or aba says that it came back. *)
MemoryInv ==
  /\ \A d \in Dirs : \A k \in AllKeys : FileFact(d, ino[d], k, file[d][k]) \in been => aba
  /\ \A d \in Dirs : \A i, k, v : FileFact(d, i, k, v) \in been => i \in Nat /\ i <= ino[d]
  /\ \A p \in Processes : HomeFact(p, home[p].dir) \in been => aba
  /\ \A d : HomeFact(2, d) \in been => life[2] # "unborn"

(* What a step of the host cannot do behind the reader's back. *)
HostKeeps ==
  /\ UNCHANGED readerVars
  /\ been \subseteq been' /\ (aba => aba')
  /\ \A p \in Processes : life[p] # "unborn" =>
       /\ life'[p] # "unborn" /\ (life[p] = "gone" => life'[p] = "gone")
       /\ life'[p] = "running" => life[p] = "running"
       /\ home'[p].dir = home[p].dir \/ HomeFact(p, home[p].dir) \in been'
  /\ \A d \in Dirs : ino[d] <= ino'[d]
  /\ \A d \in Dirs : \A k \in AllKeys :
       \/ ino[d] < ino'[d] \/ file'[d][k] = file[d][k]
       \/ FileFact(d, ino[d], k, file[d][k]) \in been'

(* What is true of the host, and what a step of it therefore does. *)
HostOK == HostInv /\ MemoryInv

HostStep == HostInv' /\ MemoryInv' /\ HostKeeps

(* A step that changes nothing in directories and homes. *)
LEMMA LifeStep ==
  ASSUME HostOK, UNCHANGED <<home, ino, file, been, aba, readerVars>>,
         HostInv',
         \A p \in Processes : life[p] # "unborn" =>
           /\ life'[p] # "unborn" /\ (life[p] = "gone" => life'[p] = "gone")
           /\ life'[p] = "running" => life[p] = "running"
  PROVE  HostStep
<1> USE DEF HostOK
<1>1. MemoryInv'
  BY DEF MemoryInv, HostInv, Processes
<1>2. HostKeeps
  BY DEF HostKeeps, HostInv
<1> QED BY <1>1, <1>2 DEF HostStep

(* A process that moves leaves its home. *)
LEMMA MigrateStep ==
  ASSUME HostOK, NEW p \in Processes, NEW d \in Homes, Migrate(p, d)
  PROVE  HostStep
<1> USE DEF HostOK
<1>1. /\ life[p] = "running" /\ home[p].dir # d /\ d \in Dirs
      /\ home' = [home EXCEPT ![p] = [dir |-> d, ino |-> ino[d]]]
      /\ been' = been \union {HomeFact(p, home[p].dir)}
      /\ UNCHANGED <<holder, life, ino, file, readerVars>>
  BY ReaderAssumption DEF Migrate, Happen, Remember, HomeFact
<1>5. (aba => aba') /\ (HomeFact(p, d) \in been => aba')
  BY Zenon DEF Migrate, Remember, HomeFact
<1>2. HostInv'
  BY <1>1 DEF HostInv, Processes
<1>3. MemoryInv'
  <2>1. \A e \in Dirs : \A k \in AllKeys : FileFact(e, ino'[e], k, file'[e][k]) \in been' => aba'
    BY <1>1, <1>5, Facts DEF MemoryInv
  <2>2. \A e \in Dirs : \A i, k, v : FileFact(e, i, k, v) \in been' => i \in Nat /\ i <= ino'[e]
    BY <1>1, Facts DEF MemoryInv
  <2>3. \A q \in Processes : HomeFact(q, home'[q].dir) \in been' => aba'
    <3>1. home'[p].dir = d /\ \A q \in Processes : q # p => home'[q] = home[q]
      BY <1>1 DEF HostInv
    <3>2. HomeFact(p, d) # HomeFact(p, home[p].dir)
      BY <1>1, Facts
    <3>3. \A q \in Processes : q # p => HomeFact(q, home[q].dir) # HomeFact(p, home[p].dir)
      BY Facts
    <3> QED BY <1>1, <1>5, <3>1, <3>2, <3>3 DEF MemoryInv
  <2>4. \A e : HomeFact(2, e) \in been' => life'[2] # "unborn"
    BY <1>1, Facts DEF MemoryInv, HostInv
  <2> QED BY <2>1, <2>2, <2>3, <2>4 DEF MemoryInv
<1>4. HostKeeps
  <2>1. \A q \in Processes : home'[q].dir = home[q].dir \/ HomeFact(q, home[q].dir) \in been'
    BY <1>1 DEF HostInv
  <2> QED BY <1>1, <1>5, <2>1 DEF HostKeeps, HostInv
<1> QED BY <1>2, <1>3, <1>4 DEF HostStep

(* A file that is written leaves its value. *)
LEMMA WriteStep ==
  ASSUME HostOK, NEW d \in Dirs, NEW k \in AllKeys, NEW v \in Content(k), Write(d, k, v)
  PROVE  HostStep
<1> USE DEF HostOK
<1> DEFINE row == [file[d] EXCEPT ![k] = v]
<1>1. /\ file[d][k] # v /\ file' = [file EXCEPT ![d] = row]
      /\ been' = been \union {FileFact(d, ino[d], k, file[d][k])}
      /\ UNCHANGED <<holder, life, home, ino, readerVars>>
  BY DEF Write, Happen, Remember, FileFact
<1>6. (aba => aba') /\ (FileFact(d, ino[d], k, v) \in been => aba')
  BY Zenon DEF Write, Remember, FileFact
<1>7. /\ row = [l \in AllKeys |-> row[l]] /\ row[k] = v
      /\ \A l \in AllKeys : l # k => row[l] = file[d][l]
  BY DEF HostInv
<1> HIDE DEF row
<1>2. /\ file' = [e \in Dirs |-> [l \in AllKeys |-> file'[e][l]]]
      /\ file'[d][k] = v
      /\ \A e \in Dirs : \A l \in AllKeys : e # d \/ l # k => file'[e][l] = file[e][l]
  <2>1. file'[d] = row /\ \A e \in Dirs : e # d => file'[e] = file[e]
    BY <1>1 DEF HostInv
  <2>2. file' = [e \in Dirs |-> file'[e]]
    BY <1>1 DEF HostInv
  <2>3. \A e \in Dirs : file'[e] = [l \in AllKeys |-> file'[e][l]]
    BY <2>1, <1>7 DEF HostInv
  <2>4. file' = [e \in Dirs |-> [l \in AllKeys |-> file'[e][l]]]
    BY <2>2, <2>3
  <2> QED BY <2>1, <2>4, <1>7
<1>3. HostInv'
  BY <1>1, <1>2 DEF HostInv
<1>4. MemoryInv'
  <2>1. ASSUME NEW e \in Dirs, NEW l \in AllKeys, FileFact(e, ino[e], l, file'[e][l]) \in been'
        PROVE  aba'
    <3>1. CASE e = d /\ l = k
      BY <1>1, <1>2, <1>6, <2>1, <3>1, Facts DEF MemoryInv
    <3>2. CASE e # d \/ l # k
      <4>1. FileFact(e, ino[e], l, file[e][l]) # FileFact(d, ino[d], k, file[d][k])
        BY <3>2, Facts
      <4> QED BY <1>1, <1>2, <1>6, <2>1, <3>2, <4>1 DEF MemoryInv
    <3> QED BY <3>1, <3>2
  <2>2. \A e \in Dirs : \A i, l, w : FileFact(e, i, l, w) \in been' => i \in Nat /\ i <= ino'[e]
    BY <1>1, Facts DEF MemoryInv, HostInv
  <2>3. \A q \in Processes : HomeFact(q, home'[q].dir) \in been' => aba'
    BY <1>1, <1>6, Facts DEF MemoryInv, HostInv
  <2>4. \A e : HomeFact(2, e) \in been' => life'[2] # "unborn"
    BY <1>1, Facts DEF MemoryInv, HostInv
  <2>5. UNCHANGED ino
    BY <1>1
  <2> QED BY <2>1, <2>2, <2>3, <2>4, <2>5 DEF MemoryInv
<1>5. HostKeeps
  <2>1. \A e \in Dirs : \A l \in AllKeys :
          \/ file'[e][l] = file[e][l] \/ FileFact(e, ino[e], l, file[e][l]) \in been'
    BY <1>1, <1>2
  <2> QED BY <1>1, <1>6, <2>1 DEF HostKeeps, HostInv
<1> QED BY <1>3, <1>4, <1>5 DEF HostStep

(* A directory made anew is another instance. *)
LEMMA ReplaceStep ==
  ASSUME HostOK, NEW d \in Homes, Replace(d)
  PROVE  HostStep
<1> USE DEF HostOK
<1> DEFINE row == [k \in AllKeys |-> Fresh(k)]
<1>1. /\ d \in Dirs /\ ino' = [ino EXCEPT ![d] = ino[d] + 1]
      /\ file' = [file EXCEPT ![d] = row]
      /\ UNCHANGED <<holder, life, home, been, aba, readerVars>>
  BY ReaderAssumption DEF Replace, Happen
<1>6. row = [l \in AllKeys |-> row[l]]
  OBVIOUS
<1> HIDE DEF row
<1>2. /\ file' = [e \in Dirs |-> [l \in AllKeys |-> file'[e][l]]]
      /\ \A e \in Dirs : e # d => file'[e] = file[e] /\ ino'[e] = ino[e]
      /\ ino'[d] = ino[d] + 1 /\ ino' \in [Dirs -> Nat]
  <2>1. file'[d] = row /\ \A e \in Dirs : e # d => file'[e] = file[e]
    BY <1>1 DEF HostInv
  <2>2. file' = [e \in Dirs |-> file'[e]]
    BY <1>1 DEF HostInv
  <2>3. \A e \in Dirs : file'[e] = [l \in AllKeys |-> file'[e][l]]
    BY <2>1, <1>6 DEF HostInv
  <2>4. file' = [e \in Dirs |-> [l \in AllKeys |-> file'[e][l]]]
    BY <2>2, <2>3
  <2> QED BY <1>1, <2>1, <2>4 DEF HostInv
<1>3. HostInv'
  <2>1. \A p \in Processes : home[p].ino <= ino'[home[p].dir]
    BY <1>1, <1>2 DEF HostInv
  <2> QED BY <1>1, <1>2, <2>1 DEF HostInv
<1>4. MemoryInv'
  <2>1. \A e \in Dirs : \A i, l, w : FileFact(e, i, l, w) \in been => i \in Nat /\ i <= ino'[e]
    BY <1>1, <1>2 DEF MemoryInv, HostInv
  <2>2. ASSUME NEW e \in Dirs, NEW l \in AllKeys, FileFact(e, ino'[e], l, file'[e][l]) \in been
        PROVE  aba
    <3>1. CASE e = d
      BY <1>2, <2>2, <3>1 DEF MemoryInv, HostInv
    <3>2. CASE e # d
      BY <1>2, <2>2, <3>2 DEF MemoryInv
    <3> QED BY <3>1, <3>2
  <2> QED BY <1>1, <2>1, <2>2 DEF MemoryInv
<1>5. HostKeeps
  BY <1>1, <1>2 DEF HostKeeps, HostInv
<1> QED BY <1>3, <1>4, <1>5 DEF HostStep

(* Only a number that nobody holds is used again, and its first user is gone. *)
LEMMA ReuseStep ==
  ASSUME HostOK, NEW d \in Homes, Reuse(d)
  PROVE  HostStep
<1> USE DEF HostOK
<1>1. /\ holder = Nobody /\ life[2] = "unborn" /\ holder' = 2 /\ d \in Dirs
      /\ life' = [life EXCEPT ![2] = "running"]
      /\ home' = [home EXCEPT ![2] = [dir |-> d, ino |-> ino[d]]]
      /\ UNCHANGED <<ino, file, been, aba, readerVars>>
  BY ReaderAssumption DEF Reuse, Happen
<1>2. HostInv'
  BY <1>1 DEF HostInv, Processes, Nobody
<1>3. MemoryInv'
  BY <1>1 DEF MemoryInv, HostInv, Processes
<1>4. HostKeeps
  BY <1>1 DEF HostKeeps, HostInv, Processes
<1> QED BY <1>2, <1>3, <1>4 DEF HostStep

(* Whatever the host does between two steps of the reader. *)
LEMMA HostSteps == ASSUME HostOK, Host PROVE HostStep
<1> USE DEF HostOK
<1>1. ASSUME NEW p \in Processes, Exit(p) PROVE HostStep
  <2>1. /\ life[p] = "running" /\ holder = p /\ life' = [life EXCEPT ![p] = "zombie"]
        /\ UNCHANGED <<holder, home, ino, file, been, aba, readerVars>>
    BY <1>1 DEF Exit, Happen
  <2>2. HostInv'
    BY <2>1 DEF HostInv
  <2>3. \A q \in Processes : life[q] # "unborn" =>
           /\ life'[q] # "unborn" /\ (life[q] = "gone" => life'[q] = "gone")
           /\ life'[q] = "running" => life[q] = "running"
    BY <2>1 DEF HostInv
  <2> QED BY <2>1, <2>2, <2>3, LifeStep
<1>2. ASSUME NEW p \in Processes, Reap(p) PROVE HostStep
  <2>1. /\ life[p] = "zombie" /\ holder' = Nobody /\ life' = [life EXCEPT ![p] = "gone"]
        /\ UNCHANGED <<home, ino, file, been, aba, readerVars>>
    BY <1>2 DEF Reap, Happen
  <2>2. HostInv'
    BY <2>1 DEF HostInv, Processes, Nobody
  <2>3. \A q \in Processes : life[q] # "unborn" =>
           /\ life'[q] # "unborn" /\ (life[q] = "gone" => life'[q] = "gone")
           /\ life'[q] = "running" => life[q] = "running"
    BY <2>1 DEF HostInv
  <2> QED BY <2>1, <2>2, <2>3, LifeStep
<1>3. ASSUME UNCHANGED <<holder, life, home, ino, file, been, aba, readerVars>> PROVE HostStep
  BY <1>3, LifeStep DEF HostInv
<1>4. ASSUME \/ \E p \in Processes : Unshare(p)
             \/ Remount \/ DeadlinePasses \/ ClockBack \/ ClockCatchesUp
      PROVE  HostStep
  BY <1>3, <1>4 DEF Unshare, Remount, DeadlinePasses, ClockBack, ClockCatchesUp, Happen, hostVars
<1> QED BY <1>1, <1>2, <1>4, MigrateStep, WriteStep, ReplaceStep, ReuseStep DEF Host
-----------------------------------------------------------------------------
(* The order of the opening and of the closing fence. *)
LEMMA OpenOrder ==
  /\ AfterStep("open", "mountinfo") = "pidfd" /\ AfterStep("open", "pidfd") = "alive"
  /\ AfterStep("open", "alive") = "target" /\ AfterStep("open", "target") = "stat"
  /\ AfterStep("open", "stat") = "fdinfo" /\ AfterStep("open", "fdinfo") = "membership"
  /\ AfterStep("open", "membership") = "namespaces" /\ AfterStep("open", "namespaces") = "mount"
  /\ AfterStep("open", "mount") = "walk"
  BY DEF AfterStep

LEMMA CloseOrder ==
  /\ AfterStep("close", "mountinfo") = "target" /\ AfterStep("close", "target") = "membership"
  /\ AfterStep("close", "membership") = "stat" /\ AfterStep("close", "stat") = "fdinfo"
  /\ AfterStep("close", "fdinfo") = "namespaces" /\ AfterStep("close", "namespaces") = "alive"
  /\ AfterStep("close", "alive") = "mount" /\ AfterStep("close", "mount") = "walk"
  BY DEF AfterStep

(* Nothing is published yet. *)
Empty(m) == \A k \in MetricKeys : m[k].state = "UNAVAILABLE"

(* A result has these four parts. *)
ResOK(r) == r = [sel |-> r.sel, ctx |-> r.ctx, issues |-> r.issues, metric |-> r.metric]

(* An issue, a failure and an answer that came late unbind a context or leave it. *)
LEMMA Results ==
  ASSUME NEW r, ResOK(r)
  PROVE  /\ \A scope, code : /\ ResOK(Issue(r, scope, code)) /\ Issue(r, scope, code).ctx = r.ctx
                             /\ Issue(r, scope, code).metric = r.metric
         /\ \A scope, code : /\ ResOK(Failed(r, scope, code))
                             /\ Failed(r, scope, code).metric = r.metric
                             /\ Failed(r, scope, code).ctx \in {r.ctx, "CONTEXT_UNBOUND"}
                             /\ scope \in {"CONTEXT", "SELECTION"} =>
                                  Failed(r, scope, code).ctx = "CONTEXT_UNBOUND"
         /\ ResOK(ClockChecked(r)) /\ ClockChecked(r).metric = r.metric
         /\ ClockChecked(r).ctx \in {r.ctx, "CONTEXT_UNBOUND"}
<1>1. ASSUME NEW scope, NEW code
      PROVE  /\ ResOK(Issue(r, scope, code)) /\ Issue(r, scope, code).ctx = r.ctx
             /\ Issue(r, scope, code).metric = r.metric
  BY DEF ResOK, Issue
<1>2. ASSUME NEW scope, NEW code
      PROVE  /\ ResOK(Failed(r, scope, code)) /\ Failed(r, scope, code).metric = r.metric
             /\ Failed(r, scope, code).ctx \in {r.ctx, "CONTEXT_UNBOUND"}
             /\ scope \in {"CONTEXT", "SELECTION"} => Failed(r, scope, code).ctx = "CONTEXT_UNBOUND"
  <2> DEFINE i == Issue(r, scope, code)
  <2>1. ResOK(i) /\ i.ctx = r.ctx /\ i.metric = r.metric
    BY <1>1
  <2> HIDE DEF i
  <2>2. Failed(r, scope, code) =
          [i EXCEPT !.ctx = IF scope \in {"CONTEXT", "ABI", "SELECTION"} THEN "CONTEXT_UNBOUND"
                            ELSE i.ctx]
    BY DEF Failed, i
  <2> QED BY <2>1, <2>2 DEF ResOK
<1>3. /\ ResOK(ClockChecked(r)) /\ ClockChecked(r).metric = r.metric
      /\ ClockChecked(r).ctx \in {r.ctx, "CONTEXT_UNBOUND"}
  BY <1>2 DEF ClockChecked
<1> QED BY <1>1, <1>2, <1>3

(* A fence that fails leaves the context unbound. *)
Ended ==
  /\ phase' = IF phase = "close" THEN "derive" ELSE "done"
  /\ ResOK(res') /\ res'.ctx # "BOUND" /\ res'.metric = res.metric
  /\ UNCHANGED <<step, level, got>>

(* Abandoning a fence ends it. *)
LEMMA AbandonEnds ==
  ASSUME NEW r, ResOK(r), r.metric = res.metric, NEW scope, NEW code, NEW selection,
         scope \in {"CONTEXT", "SELECTION"} \/ r.ctx # "BOUND", Abandon(r, scope, code, selection)
  PROVE  Ended
<1> DEFINE failed == Failed(r, scope, code)
<1>1. ResOK(failed) /\ failed.metric = res.metric /\ failed.ctx # "BOUND"
  BY Results
<1>2. res' = failed \/ res' = [failed EXCEPT !.sel = selection]
  BY DEF Abandon
<1> HIDE DEF failed
<1>3. ResOK(res') /\ res'.metric = res.metric /\ res'.ctx # "BOUND"
  BY <1>1, <1>2 DEF ResOK
<1> QED BY <1>3 DEF Abandon, Ended

(* One that passes. *)
Passed(s, bound) ==
  /\ phase' = phase /\ step' = AfterStep(phase, s) /\ level' = 1
  /\ got' = IF phase = "open" THEN bound ELSE got
  /\ ResOK(res') /\ res'.metric = res.metric /\ res'.ctx \in {res.ctx, "CONTEXT_UNBOUND"}

(* A step of a fence, and one that reads procfs, passes or ends it. *)
LEMMA CheckEnds ==
  ASSUME ResOK(res), NEW s, NEW ok, NEW code, NEW bound, Check(s, ok, code, bound)
  PROVE  /\ phase \in {"open", "close"} /\ step = s
         /\ Ended \/ (ok /\ Passed(s, bound))
<1>1. CASE ok
  BY <1>1 DEF Check, At, Pass, Passed
<1>2. CASE ~ok
  <2>1. Abandon(res, "CONTEXT", code, NoValue)
    BY <1>2 DEF Check
  <2>2. Ended
    BY <2>1, AbandonEnds
  <2> QED BY <2>2 DEF Check, At
<1> QED BY <1>1, <1>2

LEMMA ProcReadEnds ==
  ASSUME ResOK(res), NEW s, NEW readable, NEW missing, NEW ok, NEW scope, NEW code, NEW selection,
         NEW bound, scope \in {"CONTEXT", "SELECTION"},
         ProcRead(s, readable, missing, ok, scope, code, selection, bound)
  PROVE  /\ phase \in {"open", "close"} /\ step = s
         /\ Ended \/ (readable /\ ok /\ Passed(s, bound))
<1> DEFINE r == ClockChecked(res)
<1>0. /\ ResOK(r) /\ r.metric = res.metric /\ r.ctx \in {res.ctx, "CONTEXT_UNBOUND"}
  BY Results
<1> HIDE DEF r
<1>1. /\ ResOK(r) /\ r.metric = res.metric /\ r.ctx \in {res.ctx, "CONTEXT_UNBOUND"}
      /\ \A c, d : ResOK(Issue(r, c, d)) /\ Issue(r, c, d).metric = res.metric
  BY <1>0, Results
<1>2. phase \in {"open", "close"} /\ step = s
  BY DEF ProcRead, At
<1>3. CASE late
  <2>1. Abandon(Issue(r, "BUDGET", "DEADLINE_REACHED"), "CONTEXT", missing, NoValue)
    BY <1>3 DEF ProcRead, r
  <2> QED BY <1>1, <1>2, <2>1, AbandonEnds
<1>4. CASE ~late /\ ~readable
  <2>1. Abandon(Issue(r, "CONTEXT", "CONTEXT_UNBOUND"), "CONTEXT", missing, NoValue)
    BY <1>4 DEF ProcRead, r
  <2> QED BY <1>1, <1>2, <2>1, AbandonEnds
<1>5. CASE ~late /\ readable /\ ~ok
  <2>1. Abandon(r, scope, code, selection)
    BY <1>5 DEF ProcRead, r
  <2> QED BY <1>1, <1>2, <2>1, AbandonEnds
<1>6. CASE ~late /\ readable /\ ok
  <2>1. Pass(r, bound)
    BY <1>6 DEF ProcRead, r
  <2>2. Passed(s, bound)
    BY <1>1, <1>2, <2>1 DEF Pass, Passed
  <2> QED BY <1>2, <1>6, <2>2
<1> QED BY <1>3, <1>4, <1>5, <1>6
-----------------------------------------------------------------------------
(* Where the entry of a level and a key stands in a schedule. *)
LEMMA DivMod ==
  ASSUME NEW L \in Nat, L > 0, NEW q \in Nat, NEW r \in 0..(L - 1)
  PROVE  (q * L + r) \div L = q /\ (q * L + r) % L = r
  OBVIOUS

LEMMA DivRange ==
  ASSUME NEW L \in Nat, NEW n \in Nat, NEW i \in 1..(n * L)
  PROVE  (i - 1) \div L \in 0..(n - 1) /\ (i - 1) % L \in 0..(L - 1)
  OBVIOUS

LEMMA Grid ==
  ASSUME NEW L \in Nat, NEW n \in Nat, NEW m \in 1..n, NEW j \in 1..L
  PROVE  (m - 1) * L + j \in 1..(n * L)
  OBVIOUS

(* The places of one phase; a sequence that visits them level by level. *)
Places(ph, n, S) == [phase : {ph}, level : 1..n, key : S]

Each(e, ph, n, S, keys) ==
  /\ e \in Seq(Places(ph, n, S)) /\ Len(e) = n * Len(keys)
  /\ \A m \in 1..n, j \in 1..Len(keys) : e[(m - 1) * Len(keys) + j] = Place(ph, m, keys[j])

(* EachLevel does so. *)
LEMMA EachLevelIs ==
  ASSUME NEW ph, NEW n \in Nat, NEW S, NEW keys \in Seq(S)
  PROVE  Each(EachLevel(ph, n, keys), ph, n, S, keys)
<1> DEFINE L == Len(keys)
           e == EachLevel(ph, n, keys)
<1>1. L \in Nat /\ n * L \in Nat
  OBVIOUS
<1>2. /\ e = [i \in 1..(n * L) |-> e[i]]
      /\ \A i \in 1..(n * L) : e[i] = Place(ph, ((i - 1) \div L) + 1, keys[((i - 1) % L) + 1])
  BY DEF EachLevel
<1> HIDE DEF e
<1>3. ASSUME NEW i \in 1..(n * L) PROVE e[i] \in Places(ph, n, S)
  <2>1. (i - 1) \div L \in 0..(n - 1) /\ (i - 1) % L \in 0..(L - 1)
    BY <1>1, DivRange
  <2>2. (i - 1) \div L + 1 \in 1..n /\ keys[((i - 1) % L) + 1] \in S
    BY <2>1, <1>1
  <2> QED BY <1>2, <2>2 DEF Place, Places
<1>4. ASSUME NEW m \in 1..n, NEW j \in 1..L PROVE e[(m - 1) * L + j] = Place(ph, m, keys[j])
  <2> DEFINE i == (m - 1) * L + j
  <2>1. i \in 1..(n * L)
    BY <1>1, Grid
  <2>2. i - 1 = (m - 1) * L + (j - 1)
    BY <1>1
  <2>3. (i - 1) \div L = m - 1 /\ (i - 1) % L = j - 1
    <3>1. m - 1 \in Nat /\ j - 1 \in 0..(L - 1) /\ L > 0
      BY <1>1
    <3> HIDE DEF i, L
    <3>2. ((m - 1) * L + (j - 1)) \div L = m - 1 /\ ((m - 1) * L + (j - 1)) % L = j - 1
      BY <1>1, <3>1, DivMod
    <3> QED BY <2>2, <3>2
  <2>4. (i - 1) \div L + 1 = m /\ ((i - 1) % L) + 1 = j
    BY <2>3
  <2>5. e[i] = Place(ph, ((i - 1) \div L) + 1, keys[((i - 1) % L) + 1])
    BY <2>1, <1>2
  <2> QED BY <2>4, <2>5
<1> HIDE DEF L
<1>5. e \in Seq(Places(ph, n, S)) /\ Len(e) = n * L
  <2>1. e \in [1..(n * L) -> Places(ph, n, S)]
    BY <1>2, <1>3
  <2> QED BY <1>1, <2>1
<1> QED BY <1>4, <1>5 DEF e, L, Each

(* A key that is observed has a number. *)
LEMMA KeyNumber ==
  /\ LimitKeys \in Seq(AllKeys) /\ Len(LimitKeys) \in Nat
  /\ \A k \in LimitSet : \E j \in 1..Len(LimitKeys) : LimitKeys[j] = k
<1>1. LimitSet = {LimitKeys[j] : j \in 1..Len(LimitKeys)}
  BY ReaderAssumption DEF LimitSet, ToSet
<1> QED BY <1>1, ReaderAssumption DEF LimitSet, AllKeys

(* Two sequences put one after the other. *)
Joined(r, A, s, B, t) ==
  /\ r \in Seq(A \union B) /\ Len(s) \in Nat /\ Len(t) \in Nat /\ Len(r) = Len(s) + Len(t)
  /\ \A i \in 1..Len(s) : r[i] = s[i]
  /\ \A i \in 1..Len(t) : r[Len(s) + i] = t[i]
  /\ \A i \in (Len(s) + 1)..(Len(s) + Len(t)) : r[i] \in B

LEMMA Catenated ==
  ASSUME NEW A, NEW s \in Seq(A), NEW B, NEW t \in Seq(B)
  PROVE  Joined(s \o t, A, s, B, t)
<1>1. ASSUME NEW i \in (Len(s) + 1)..(Len(s) + Len(t)) PROVE (s \o t)[i] \in B
  <2>1. i - Len(s) \in 1..Len(t) /\ (s \o t)[i] = t[i - Len(s)]
    OBVIOUS
  <2> QED BY <2>1
<1> QED BY <1>1 DEF Joined

(* A sequence of reads visits a place. *)
Visited(q, x) == \E i \in 1..Len(q) : q[i] = x

(* The configuration of n levels is read level by level, each limit and the type of each. *)
ConfigKeys == LimitSet \union {TypeKey}

LEMMA ConfigReadsAre ==
  ASSUME NEW ph, NEW n \in Nat \ {0}
  PROVE  /\ ConfigReads(ph, n) \in Seq(Places(ph, n, AllKeys))
         /\ Len(ConfigReads(ph, n)) = n * (Len(LimitKeys) + 1) + 1
         /\ \A m \in 1..n, k \in ConfigKeys : Visited(ConfigReads(ph, n), Place(ph, m, k))
<1> DEFINE keys == Append(LimitKeys, TypeKey)
           e == EachLevel(ph, n, keys)
           t == <<Place(ph, n, CpusetKey)>>
<1>1. /\ keys \in Seq(AllKeys) /\ Len(keys) = Len(LimitKeys) + 1 /\ Len(LimitKeys) \in Nat
      /\ keys[Len(LimitKeys) + 1] = TypeKey
      /\ \A j \in 1..Len(LimitKeys) : keys[j] = LimitKeys[j]
  BY KeyNumber DEF AllKeys
<1> HIDE DEF keys
<1>2. /\ e \in Seq(Places(ph, n, AllKeys)) /\ Len(e) = n * Len(keys)
      /\ \A m \in 1..n, j \in 1..Len(keys) : e[(m - 1) * Len(keys) + j] = Place(ph, m, keys[j])
  <2>1. Each(e, ph, n, AllKeys, keys)
    BY <1>1, EachLevelIs
  <2> HIDE DEF e
  <2> QED BY <2>1 DEF Each
<1>3. t \in Seq(Places(ph, n, AllKeys)) /\ Len(t) = 1
  BY DEF Places, Place, AllKeys
<1>4. ConfigReads(ph, n) = e \o t
  BY DEF ConfigReads, keys
<1> HIDE DEF e, t
<1>5. /\ e \o t \in Seq(Places(ph, n, AllKeys)) /\ Len(e \o t) = Len(e) + 1
      /\ \A i \in 1..Len(e) : (e \o t)[i] = e[i]
  <2>1. Joined(e \o t, Places(ph, n, AllKeys), e, Places(ph, n, AllKeys), t)
    BY <1>2, <1>3, Catenated
  <2> QED BY <1>3, <2>1 DEF Joined
<1>6. ASSUME NEW m \in 1..n, NEW k \in ConfigKeys
      PROVE  Visited(e \o t, Place(ph, m, k))
  <2>1. Len(keys) \in Nat
    BY <1>1
  <2>2. PICK j \in 1..Len(keys) : keys[j] = k
    <3>1. CASE k = TypeKey
      <4>1. Len(LimitKeys) + 1 \in 1..Len(keys)
        BY <1>1
      <4>2. keys[Len(LimitKeys) + 1] = k
        BY <3>1, <1>1
      <4> QED BY <4>1, <4>2
    <3>2. CASE k # TypeKey
      <4>1. PICK j \in 1..Len(LimitKeys) : LimitKeys[j] = k
        BY <3>2, KeyNumber DEF ConfigKeys
      <4>2. j \in 1..Len(keys) /\ keys[j] = k
        BY <4>1, <1>1
      <4> QED BY <4>2
    <3> QED BY <3>1, <3>2
  <2>3. (m - 1) * Len(keys) + j \in 1..(n * Len(keys))
    BY <2>1, Grid
  <2>4. (m - 1) * Len(keys) + j \in 1..Len(e)
    BY <2>3, <1>2
  <2>5. e[(m - 1) * Len(keys) + j] = Place(ph, m, k)
    BY <1>2, <2>2
  <2>6. Len(e) \in Nat
    BY <1>2
  <2> HIDE DEF keys
  <2>7. (m - 1) * Len(keys) + j \in 1..Len(e \o t)
    BY <2>4, <2>6, <1>5
  <2> QED BY <2>4, <2>5, <2>7, <1>5 DEF Visited
<1>7. Len(e \o t) = n * (Len(LimitKeys) + 1) + 1
  BY <1>1, <1>2, <1>5
<1>8. e \o t \in Seq(Places(ph, n, AllKeys))
  BY <1>5
<1> QED BY <1>4, <1>6, <1>7, <1>8

(* So are the main reads. *)
LEMMA MainReadsAre ==
  ASSUME NEW n \in Nat \ {0}
  PROVE  /\ MainReads(n) \in Seq(Places("MAIN_READ", n, AllKeys)) /\ Len(MainReads(n)) > 0
         /\ \A m \in 1..n, k \in LimitSet : Visited(MainReads(n), Place("MAIN_READ", m, k))
         /\ Visited(MainReads(n), Place("MAIN_READ", n, CpusetKey))
<1> DEFINE e == EachLevel("MAIN_READ", n, LimitKeys)
           t == <<Place("MAIN_READ", n, CpusetKey)>>
           L == Len(LimitKeys)
<1>1. LimitKeys \in Seq(AllKeys) /\ L \in Nat
  BY KeyNumber
<1>2. /\ e \in Seq(Places("MAIN_READ", n, AllKeys)) /\ Len(e) = n * L
      /\ \A m \in 1..n, j \in 1..L : e[(m - 1) * L + j] = Place("MAIN_READ", m, LimitKeys[j])
  <2>1. Each(e, "MAIN_READ", n, AllKeys, LimitKeys)
    BY <1>1, EachLevelIs
  <2> HIDE DEF e
  <2> QED BY <2>1 DEF Each
<1>3. t \in Seq(Places("MAIN_READ", n, AllKeys)) /\ Len(t) = 1
  BY DEF Places, Place, AllKeys
<1>4. MainReads(n) = e \o t
  BY DEF MainReads
<1> HIDE DEF e, t, L
<1>5. /\ e \o t \in Seq(Places("MAIN_READ", n, AllKeys)) /\ Len(e \o t) = Len(e) + 1
      /\ \A i \in 1..Len(e) : (e \o t)[i] = e[i]
  <2>1. Joined(e \o t, Places("MAIN_READ", n, AllKeys), e, Places("MAIN_READ", n, AllKeys), t)
    BY <1>2, <1>3, Catenated
  <2> QED BY <1>3, <2>1 DEF Joined
<1>6. ASSUME NEW m \in 1..n, NEW k \in LimitSet
      PROVE  Visited(e \o t, Place("MAIN_READ", m, k))
  <2>1. PICK j \in 1..L : LimitKeys[j] = k
    BY KeyNumber DEF L
  <2>2. (m - 1) * L + j \in 1..(n * L)
    BY <1>1, Grid
  <2>3. (m - 1) * L + j \in 1..Len(e)
    BY <2>2, <1>2
  <2>4. e[(m - 1) * L + j] = Place("MAIN_READ", m, k)
    BY <1>2, <2>1
  <2>5. Len(e) \in Nat
    BY <1>2
  <2>6. (m - 1) * L + j \in 1..Len(e \o t)
    BY <2>3, <2>5, <1>5
  <2> QED BY <2>3, <2>4, <2>6, <1>5 DEF Visited
<1>7. Len(e \o t) > 0
  BY <1>2, <1>5
<1>8. Visited(e \o t, Place("MAIN_READ", n, CpusetKey))
  <2>1. Joined(e \o t, Places("MAIN_READ", n, AllKeys), e, Places("MAIN_READ", n, AllKeys), t)
    BY <1>2, <1>3, Catenated
  <2>2. t[1] = Place("MAIN_READ", n, CpusetKey)
    BY DEF t
  <2>3. Len(e) \in Nat
    BY <1>2
  <2>4. Len(e) + 1 \in 1..Len(e \o t) /\ (e \o t)[Len(e) + 1] = t[1]
    BY <1>3, <1>5, <2>1, <2>3 DEF Joined
  <2> QED BY <2>2, <2>4 DEF Visited
<1> QED BY <1>4, <1>5, <1>6, <1>7, <1>8

(* The schedule of n levels: the initial configuration, the main reads and the *)
(* configuration again; each limit of each level is in all of them, and nothing *)
(* is read that is not a file of a level.                                       *)
Visits(n) ==
  [phase : {"INITIAL_FENCE", "MAIN_READ", "CLOSING_FENCE"}, level : 1..n, key : AllKeys]

LEMMA ScheduleIs ==
  ASSUME NEW n \in 1..MaxLevels
  PROVE  LET s == ScheduleOf[n]
             c == n * (Len(LimitKeys) + 1) + 1
         IN  /\ Len(s) \in Nat /\ c \in Nat /\ c < Len(s)
             /\ \A i \in 1..Len(s) : s[i] \in Visits(n)
             /\ \A i \in 1..c : s[i].phase = "INITIAL_FENCE"
             /\ \A i \in (c + 1)..Len(s) : s[i].phase # "INITIAL_FENCE"
             /\ \A m \in 1..n, k \in ConfigKeys : Visited(s, Place("INITIAL_FENCE", m, k))
             /\ \A m \in 1..n, k \in ConfigKeys : Visited(s, Place("CLOSING_FENCE", m, k))
             /\ \A m \in 1..n, k \in LimitSet : Visited(s, Place("MAIN_READ", m, k))
             /\ Visited(s, Place("MAIN_READ", n, CpusetKey))
<1> DEFINE a == ConfigReads("INITIAL_FENCE", n)
           b == MainReads(n)
           d == ConfigReads("CLOSING_FENCE", n)
           A == Places("INITIAL_FENCE", n, AllKeys)
           B == Places("MAIN_READ", n, AllKeys)
           D == Places("CLOSING_FENCE", n, AllKeys)
           s == ScheduleOf[n]
           c == n * (Len(LimitKeys) + 1) + 1
<1>1. n \in Nat \ {0} /\ s = (a \o b) \o d
  BY ReaderAssumption DEF ScheduleOf
<1>2. a \in Seq(A) /\ Len(a) = c /\ d \in Seq(D) /\ b \in Seq(B)
  BY <1>1, ConfigReadsAre, MainReadsAre
<1>3. /\ \A m \in 1..n, k \in ConfigKeys : Visited(a, Place("INITIAL_FENCE", m, k))
      /\ \A m \in 1..n, k \in ConfigKeys : Visited(d, Place("CLOSING_FENCE", m, k))
      /\ \A m \in 1..n, k \in LimitSet : Visited(b, Place("MAIN_READ", m, k))
      /\ Visited(b, Place("MAIN_READ", n, CpusetKey)) /\ Len(b) > 0
  BY <1>1, ConfigReadsAre, MainReadsAre
<1>4. /\ \A x \in A : x.phase = "INITIAL_FENCE" /\ x \in Visits(n)
      /\ \A x \in B \union D : x.phase # "INITIAL_FENCE" /\ x \in Visits(n)
  BY DEF Places, Visits
<1> HIDE DEF a, b, d, A, B, D, s
<1> DEFINE ab == a \o b
<1>5. Joined(ab, A, a, B, b)
  BY <1>2, Catenated
<1>6. ab \in Seq(A \union B) /\ s = ab \o d
  BY <1>1, <1>5 DEF Joined
<1> HIDE DEF ab
<1>7. Joined(s, A \union B, ab, D, d)
  BY <1>2, <1>6, Catenated
<1>8. Len(a) \in Nat /\ Len(b) \in Nat /\ Len(d) \in Nat /\ Len(ab) = Len(a) + Len(b)
      /\ Len(s) = Len(ab) + Len(d)
  BY <1>5, <1>7 DEF Joined
<1>9. Len(s) \in Nat /\ c \in Nat /\ c < Len(s)
  BY <1>2, <1>3, <1>8
<1>10. ASSUME NEW i \in 1..Len(a) PROVE s[i] = a[i] /\ i \in 1..Len(s) /\ s[i] \in A
  <2>1. s[i] = a[i] /\ i \in 1..Len(s)
    BY <1>5, <1>7, <1>8 DEF Joined
  <2>2. a[i] \in A
    BY <1>2
  <2> QED BY <2>1, <2>2
<1>11. ASSUME NEW i \in 1..Len(b)
       PROVE  s[Len(a) + i] = b[i] /\ Len(a) + i \in 1..Len(s)
  BY <1>5, <1>7, <1>8 DEF Joined
<1>12. ASSUME NEW i \in 1..Len(d)
       PROVE  s[Len(ab) + i] = d[i] /\ Len(ab) + i \in 1..Len(s)
  BY <1>7, <1>8 DEF Joined
<1>13. ASSUME NEW i \in (Len(a) + 1)..Len(s) PROVE s[i] \in B \union D
  <2>1. CASE i <= Len(a) + Len(b)
    <3>1. s[i] = ab[i] /\ ab[i] \in B
      BY <2>1, <1>5, <1>7, <1>8 DEF Joined
    <3> QED BY <3>1
  <2>2. CASE ~(i <= Len(a) + Len(b))
    <3>1. s[i] \in D
      BY <2>2, <1>7, <1>8 DEF Joined
    <3> QED BY <3>1
  <2> QED BY <2>1, <2>2
<1>14. \A x : Visited(a, x) => Visited(s, x)
  BY <1>10 DEF Visited
<1>15. \A x : Visited(b, x) => Visited(s, x)
  BY <1>11 DEF Visited
<1>16. \A x : Visited(d, x) => Visited(s, x)
  BY <1>12 DEF Visited
<1>17. \A i \in 1..Len(s) : s[i] \in Visits(n)
  <2>1. \A i \in 1..Len(s) : i \in 1..Len(a) \/ i \in (Len(a) + 1)..Len(s)
    BY <1>8
  <2> QED BY <1>4, <1>10, <1>13, <2>1
<1>18. \A i \in 1..c : s[i].phase = "INITIAL_FENCE"
  BY <1>2, <1>4, <1>10
<1>19. \A i \in (c + 1)..Len(s) : s[i].phase # "INITIAL_FENCE"
  BY <1>2, <1>4, <1>13
<1>20. /\ \A m \in 1..n, k \in ConfigKeys : Visited(s, Place("INITIAL_FENCE", m, k))
       /\ \A m \in 1..n, k \in ConfigKeys : Visited(s, Place("CLOSING_FENCE", m, k))
       /\ \A m \in 1..n, k \in LimitSet : Visited(s, Place("MAIN_READ", m, k))
       /\ Visited(s, Place("MAIN_READ", n, CpusetKey))
  BY <1>3, <1>14, <1>15, <1>16
<1> QED BY <1>9, <1>17, <1>18, <1>19, <1>20 DEF s
-----------------------------------------------------------------------------
(* What the run remembers of its process, which is or was a process. *)
GotInv ==
  /\ got = [mount |-> got.mount, pidfd |-> got.pidfd, dir |-> got.dir, ticks |-> got.ticks,
            path |-> got.path, inos |-> got.inos]
  /\ got.pidfd \in Processes /\ got.dir \in Processes /\ got.path \in Dirs
  /\ got.inos \in Seq(Nat)
  /\ life[got.pidfd] # "unborn" /\ life[got.dir] # "unborn"

(* The path is, or was, the home of the process; the instances of the levels are *)
(* not newer than those that are there.                                          *)
HomeKnown == home[got.dir].dir = got.path \/ HomeFact(got.dir, got.path) \in been
InosKnown == \A i \in 1..Len(got.inos) : got.inos[i] <= ino[Levels[i]]

(* While it opens: the pidfd and the directory of procfs name one process as soon *)
(* as fdinfo could be read, and the path is its home.                             *)
OpenInv ==
  /\ res.ctx # "BOUND" /\ DOMAIN seen = {}
  /\ step \in {"stat", "fdinfo"} /\ got.dir # got.pidfd => life[got.pidfd] = "gone"
  /\ step \in {"membership", "namespaces", "mount", "walk"} => got.dir = got.pidfd
  /\ step \in {"namespaces", "mount", "walk"} => HomeKnown
  /\ step = "walk" => /\ Len(Levels) \in 1..MaxLevels /\ level \in 1..Len(Levels)
                      /\ Len(got.inos) = level - 1 /\ InosKnown

(* The context that is, or will be, published is bound. *)
HasBound == phase \in {"derive", "done"} /\ res.ctx = "BOUND"

(* Once it has opened. *)
BoundInv ==
  /\ got.dir = got.pidfd /\ HomeKnown
  /\ Len(Levels) \in 1..MaxLevels /\ Len(got.inos) = Len(Levels) /\ InosKnown

(* A value found in instance i is there, or was left, or the instance was replaced: *)
(* now, and at the moment of the first main read.                                   *)
FileKnown(d, i, k, v) == i < ino[d] \/ file[d][k] = v \/ FileFact(d, i, k, v) \in been
MainKnown(d, i, k, v) == i < ino[d] \/ atMain.file[d][k] = v \/ FileFact(d, i, k, v) \in been

(* The reads of a limit of a level: before that moment, and after it. *)
Initial(n, k) == Place("INITIAL_FENCE", n, k)
MainPlace(n, k) == Place("MAIN_READ", n, k)
Taken(x) == x \in DOMAIN seen /\ seen[x].read = "AVAILABLE"
InitialKnown(n, k) ==
  Taken(Initial(n, k)) => FileKnown(Levels[n], got.inos[n], k, seen[Initial(n, k)].value)

(* While it reads: what was scheduled so far was read; before the main reads *)
(* begin, what was found in the configuration is known.                      *)
ReadInv ==
  /\ level \in 1..(Len(Schedule) + 1)
  /\ \A i \in 1..(level - 1) : Schedule[i] \in DOMAIN seen
  /\ step # "main" =>
       /\ level <= InitialReads + 1
       /\ \A x \in DOMAIN seen : x.phase = "INITIAL_FENCE"
       /\ \A n \in 1..Len(Levels) : \A k \in LimitSet : InitialKnown(n, k)
  /\ step = "main" => level > InitialReads

(* What the two reads of a limit say about the moment in between: if they agree, *)
(* it was its value.                                                             *)
LevelMeasured(n, k) ==
  /\ Taken(Initial(n, k)) => MainKnown(Levels[n], got.inos[n], k, seen[Initial(n, k)].value)
  /\ Taken(Initial(n, k)) /\ Taken(MainPlace(n, k)) /\ seen[Initial(n, k)] = seen[MainPlace(n, k)]
     => aba \/ atMain.file[Levels[n]][k] = seen[MainPlace(n, k)].value

(* Of every limit of every level, and of the home and the life of the process. *)
MeasuredInv ==
  /\ \A n \in 1..Len(Levels) : \A k \in LimitSet : LevelMeasured(n, k)
  /\ atMain.home.dir = got.path \/ HomeFact(got.dir, got.path) \in been
  /\ life[got.dir] = "running" => atMain.life = "running"

(* Everything scheduled was read. *)
AllRead == \A i \in 1..Len(Schedule) : Schedule[i] \in DOMAIN seen

(* The closing membership, once read, pins the home at the moment of the main reads *)
(* and says which instance the process is in.                                       *)
MembershipHeld ==
  /\ life[got.dir] = "running" => atClose.life = "running"
  /\ atClose.home \in [dir : {got.path}, ino : Nat]
  /\ Last(got.inos) <= atClose.home.ino /\ atClose.home.ino <= ino[got.path]
  /\ aba \/ atMain.home.dir = got.path

(* While it closes: a process that runs at the end ran at both moments. *)
CloseInv ==
  /\ AllRead /\ step # "pidfd"
  /\ step \in {"stat", "fdinfo", "namespaces", "alive", "mount", "walk"} => MembershipHeld
  /\ step \in {"mount", "walk"} => atMain.life = "running" /\ atClose.life = "running"
  /\ step = "walk" => level \in 1..Len(Levels)

(* After a closing fence that passed. *)
EndInv ==
  /\ AllRead /\ got.pidfd = got.dir /\ atMain.life = "running" /\ atClose.life = "running"
  /\ atClose.home = [dir |-> got.path, ino |-> Last(got.inos)]
  /\ aba \/ atMain.home.dir = got.path

(* The run, phase by phase. *)
ReaderInv ==
  /\ phase \in {"open", "read", "close", "derive", "done"}
  /\ GotInv /\ ResOK(res) /\ (phase # "done" => Empty(res.metric))
  /\ phase = "open" => OpenInv
  /\ phase \in {"read", "close"} \/ HasBound => BoundInv
  /\ phase = "read" => ReadInv
  /\ (phase = "read" /\ step = "main") \/ phase = "close" \/ HasBound => MeasuredInv
  /\ phase = "close" => CloseInv
  /\ HasBound => EndInv

(* The inductive invariant. *)
Inv == HostOK /\ ReaderInv /\ CeilingIsSnapshot

-----------------------------------------------------------------------------
(* No step of the host takes from the reader what it knows. *)
LEMMA HostInvStep == ASSUME Inv, HostStep PROVE ReaderInv'
<1> USE DEF Inv, HostOK
<1>1. UNCHANGED <<phase, step, level, got, seen, changed, res, atMain, atClose>>
  BY DEF HostStep, HostKeeps, readerVars
<1>2. /\ been \subseteq been' /\ (aba => aba')
      /\ \A p \in Processes : life[p] # "unborn" =>
           /\ life'[p] # "unborn" /\ (life[p] = "gone" => life'[p] = "gone")
           /\ life'[p] = "running" => life[p] = "running"
           /\ home'[p].dir = home[p].dir \/ HomeFact(p, home[p].dir) \in been'
      /\ \A d \in Dirs : ino[d] <= ino'[d]
      /\ \A d \in Dirs : \A k \in AllKeys :
           \/ ino[d] < ino'[d] \/ file'[d][k] = file[d][k]
           \/ FileFact(d, ino[d], k, file[d][k]) \in been'
      /\ ino \in [Dirs -> Nat] /\ ino' \in [Dirs -> Nat]
  BY DEF HostStep, HostKeeps, HostInv
<1>3. GotInv'
  BY <1>1, <1>2 DEF ReaderInv, GotInv
<1>4. HomeKnown => HomeKnown'
  BY <1>1, <1>2 DEF HomeKnown, ReaderInv, GotInv
<1>5. Levels' = Levels /\ \A i \in 1..Len(Levels) : Levels[i] \in Dirs
  BY <1>1, ReaderAssumption DEF Levels, ReaderInv, GotInv
<1>6. Len(got.inos) <= Len(Levels) /\ InosKnown => InosKnown'
  BY <1>1, <1>2, <1>5 DEF InosKnown, ReaderInv, GotInv
<1>7. ASSUME phase = "open" PROVE OpenInv'
  BY <1>1, <1>2, <1>4, <1>5, <1>6, <1>7 DEF OpenInv, ReaderInv, GotInv
<1>8. ASSUME phase \in {"read", "close"} \/ HasBound PROVE BoundInv'
  BY <1>1, <1>4, <1>5, <1>6, <1>8 DEF BoundInv, ReaderInv
<1>9. ASSUME phase = "read" PROVE ReadInv'
  <2>1. ASSUME NEW n \in 1..Len(Levels), NEW k \in LimitSet, InitialKnown(n, k)
        PROVE  InitialKnown(n, k)'
    <3>1. Levels[n] \in Dirs /\ k \in AllKeys /\ got.inos[n] \in Nat
      BY <1>5, <1>9 DEF AllKeys, ReaderInv, BoundInv, GotInv
    <3>2. got.inos[n] <= ino[Levels[n]]
      BY <1>9 DEF ReaderInv, BoundInv, InosKnown
    <3>3. ASSUME NEW v, FileKnown(Levels[n], got.inos[n], k, v)
          PROVE  FileKnown(Levels[n], got.inos[n], k, v)'
      <4>1. CASE got.inos[n] < ino[Levels[n]]
        BY <4>1, <3>1, <1>1, <1>2, <1>5 DEF FileKnown
      <4>2. CASE FileFact(Levels[n], got.inos[n], k, v) \in been
        BY <4>2, <1>1, <1>2, <1>5 DEF FileKnown
      <4>3. CASE got.inos[n] = ino[Levels[n]] /\ file[Levels[n]][k] = v
        BY <4>3, <3>1, <1>1, <1>2, <1>5 DEF FileKnown
      <4> QED BY <3>1, <3>2, <3>3, <1>2, <4>1, <4>2, <4>3 DEF FileKnown
    <3> QED BY <2>1, <3>3, <1>1, <1>5 DEF InitialKnown, Taken, Initial
  <2>2. InitialReads' = InitialReads /\ Schedule' = Schedule
    BY <1>1, <1>5 DEF InitialReads, Schedule
  <2> QED BY <1>1, <1>5, <1>9, <2>1, <2>2 DEF ReadInv, ReaderInv
<1>10. ASSUME (phase = "read" /\ step = "main") \/ phase = "close" \/ HasBound PROVE MeasuredInv'
  <2>1. BoundInv /\ MeasuredInv
    BY <1>10 DEF ReaderInv
  <2>2. ASSUME NEW n \in 1..Len(Levels), NEW k \in LimitSet PROVE LevelMeasured(n, k)'
    <3>1. Levels[n] \in Dirs /\ LevelMeasured(n, k) /\ got.inos[n] \in Nat
      BY <1>5, <2>1 DEF MeasuredInv, BoundInv, ReaderInv, GotInv
    <3>2. \A v : MainKnown(Levels[n], got.inos[n], k, v) => MainKnown(Levels[n], got.inos[n], k, v)'
      BY <1>1, <1>2, <1>5, <3>1 DEF MainKnown
    <3> QED BY <1>1, <1>2, <1>5, <3>1, <3>2 DEF LevelMeasured, Taken, Initial, MainPlace
  <2>3. life'[got.dir] = "running" => life[got.dir] = "running"
    BY <1>2 DEF ReaderInv, GotInv
  <2> QED BY <1>1, <1>2, <1>5, <2>1, <2>2, <2>3 DEF MeasuredInv
<1>11. AllRead => AllRead'
  BY <1>1, <1>5 DEF AllRead, Schedule
<1>12. ASSUME phase = "close" PROVE CloseInv'
  <2>1. MembershipHeld => MembershipHeld'
    <3>1. life'[got.dir] = "running" => life[got.dir] = "running"
      BY <1>2 DEF ReaderInv, GotInv
    <3>2. ino[got.path] <= ino'[got.path] /\ ino[got.path] \in Nat /\ ino'[got.path] \in Nat
      BY <1>2 DEF ReaderInv, GotInv
    <3>3. ASSUME MembershipHeld PROVE atClose.home.ino <= ino'[got.path]
      BY <3>2, <3>3 DEF MembershipHeld
    <3> QED BY <1>1, <1>2, <3>1, <3>3 DEF MembershipHeld
  <2> QED BY <1>1, <1>5, <1>11, <1>12, <2>1 DEF CloseInv, ReaderInv
<1>13. ASSUME HasBound PROVE EndInv'
  BY <1>1, <1>2, <1>11, <1>13 DEF EndInv, ReaderInv
<1>14. HasBound' = HasBound /\ Empty(res.metric)' = Empty(res.metric) /\ ResOK(res)' = ResOK(res)
  BY <1>1 DEF HasBound, Empty
<1> QED
  BY <1>1, <1>3, <1>7, <1>8, <1>9, <1>10, <1>12, <1>13, <1>14 DEF ReaderInv
-----------------------------------------------------------------------------
(* The steps of the reader leave the host alone. *)
HostFrame == UNCHANGED <<holder, life, home, ino, file, been, aba>>

LEMMA HostFrameOK == ASSUME HostOK, HostFrame PROVE HostOK'
  BY DEF HostOK, HostFrame, HostInv, MemoryInv

(* A result without a metric promises nothing. *)
LEMMA EmptyCeiling == ASSUME phase' # "done" \/ Empty(res'.metric) PROVE CeilingIsSnapshot'
  BY DEF CeilingIsSnapshot, Finished, Empty

(* A fence that ends leaves nothing bound. *)
LEMMA EndedKeeps ==
  ASSUME Inv, phase \in {"open", "close"}, HostFrame, Ended
  PROVE  ReaderInv' /\ CeilingIsSnapshot'
<1>1. /\ phase' \in {"derive", "done"} /\ res'.ctx # "BOUND" /\ got' = got /\ ResOK(res')
      /\ Empty(res'.metric)
  BY DEF Ended, Inv, ReaderInv
<1>2. GotInv'
  BY <1>1 DEF HostFrame, Inv, ReaderInv, GotInv
<1>3. CeilingIsSnapshot'
  BY <1>1, EmptyCeiling
<1>4. ~HasBound'
  BY <1>1 DEF HasBound
<1> QED BY <1>1, <1>2, <1>3, <1>4 DEF ReaderInv

(* A step of the opening fence that passes. *)
LEMMA OpenPassed ==
  ASSUME Inv, phase = "open", HostFrame, NEW s, NEW bound, Passed(s, bound), UNCHANGED seen,
         GotInv', OpenInv'
  PROVE  ReaderInv' /\ CeilingIsSnapshot'
<1>1. phase' = "open" /\ ResOK(res') /\ Empty(res'.metric)
  BY DEF Passed, Inv, ReaderInv
<1>2. CeilingIsSnapshot' /\ ~HasBound'
  BY <1>1, EmptyCeiling DEF HasBound
<1> QED BY <1>1, <1>2 DEF ReaderInv

(* A step of the closing fence that passes. *)
LEMMA ClosePassed ==
  ASSUME Inv, phase = "close", HostFrame, NEW s, NEW bound, Passed(s, bound),
         UNCHANGED <<seen, atMain>>, step' # "pidfd",
         step' \in {"stat", "fdinfo", "namespaces", "alive", "mount", "walk"} => MembershipHeld',
         step' \in {"mount", "walk"} => atMain.life = "running" /\ atClose'.life = "running"
  PROVE  ReaderInv' /\ CeilingIsSnapshot'
<1>1. phase' = "close" /\ ResOK(res') /\ Empty(res'.metric) /\ got' = got /\ level' = 1
  BY DEF Passed, Inv, ReaderInv
<1>2. CeilingIsSnapshot' /\ ~HasBound'
  BY <1>1, EmptyCeiling DEF HasBound
<1>3. GotInv' /\ BoundInv'
  BY <1>1 DEF HostFrame, Inv, ReaderInv, GotInv, BoundInv, HomeKnown, InosKnown, Levels
<1>4. MeasuredInv'
  BY <1>1 DEF HostFrame, Inv, ReaderInv, MeasuredInv, LevelMeasured, MainKnown, Taken, Initial,
              MainPlace, Levels
<1>5. CloseInv'
  <2>1. AllRead'
    BY <1>1 DEF Inv, ReaderInv, CloseInv, AllRead, Schedule, Levels
  <2>2. 1 \in 1..Len(Levels')
    BY <1>3 DEF BoundInv
  <2> QED BY <1>1, <2>1, <2>2 DEF CloseInv
<1> QED BY <1>1, <1>2, <1>3, <1>4, <1>5 DEF ReaderInv

(* What the closing fence knows stays so. *)
LEMMA HeldStays ==
  ASSUME HostFrame, UNCHANGED <<got, atMain, atClose>>, MembershipHeld
  PROVE  MembershipHeld'
  BY DEF HostFrame, MembershipHeld

(* What a step of a fence remembers. *)
LEMMA GotShape ==
  ASSUME Inv, HostFrame
  PROVE  /\ UNCHANGED got => GotInv'
         /\ \A m : got' = [got EXCEPT !.mount = m] => GotInv'
         /\ \A m : got' = [got EXCEPT !.ticks = m] => GotInv'
         /\ \A p \in Processes : life[p] # "unborn" =>
              /\ got' = [got EXCEPT !.pidfd = p] => GotInv'
              /\ got' = [got EXCEPT !.dir = p] => GotInv'
         /\ \A d \in Dirs : got' = [got EXCEPT !.path = d] => GotInv'
         /\ \A q \in Seq(Nat) : got' = [got EXCEPT !.inos = q] => GotInv'
<1>1. GotInv
  BY DEF Inv, ReaderInv
<1>2. UNCHANGED life
  BY DEF HostFrame
<1>3. UNCHANGED got => GotInv'
  BY <1>1, <1>2 DEF GotInv
<1>4. \A m : got' = [got EXCEPT !.mount = m] => GotInv'
  BY <1>1, <1>2 DEF GotInv
<1>5. \A m : got' = [got EXCEPT !.ticks = m] => GotInv'
  BY <1>1, <1>2 DEF GotInv
<1>6. \A p \in Processes : life[p] # "unborn" /\ got' = [got EXCEPT !.pidfd = p] => GotInv'
  BY <1>1, <1>2 DEF GotInv
<1>7. \A p \in Processes : life[p] # "unborn" /\ got' = [got EXCEPT !.dir = p] => GotInv'
  BY <1>1, <1>2 DEF GotInv
<1>8. \A d \in Dirs : got' = [got EXCEPT !.path = d] => GotInv'
  BY <1>1, <1>2 DEF GotInv
<1>9. \A q \in Seq(Nat) : got' = [got EXCEPT !.inos = q] => GotInv'
  BY <1>1, <1>2 DEF GotInv
<1> QED BY <1>3, <1>4, <1>5, <1>6, <1>7, <1>8, <1>9

(* What each step of the reader keeps. *)
Kept == ReaderInv' /\ CeilingIsSnapshot'

(* The steps of the fences, one by one. *)
LEMMA ReadMountinfoKeeps == ASSUME Inv, HostFrame, ReadMountinfo PROVE Kept
<1> DEFINE bound == [got EXCEPT !.mount = mount]
           yes == TRUE
           ok == Opening \/ mount = got.mount
<1>1. UNCHANGED <<seen, atMain, atClose>>
  BY DEF ReadMountinfo, ProcRead, FenceFrame
<1>2. /\ phase \in {"open", "close"} /\ step = "mountinfo" /\ (Ended \/ Passed("mountinfo", bound))
  <2>1. ResOK(res)
    BY DEF Inv, ReaderInv
  <2>2. ProcRead("mountinfo", yes, "CONTEXT_UNBOUND", ok, "CONTEXT", "MOUNT_CHANGED",
                 NoValue, bound)
    BY DEF ReadMountinfo
  <2> HIDE DEF bound, yes, ok
  <2> QED BY <2>1, <2>2, ProcReadEnds
<1>3. CASE phase = "open" /\ Passed("mountinfo", bound)
  <2>1. step' = "pidfd" /\ got' = bound /\ res'.ctx \in {res.ctx, "CONTEXT_UNBOUND"}
    BY <1>3, OpenOrder DEF Passed
  <2>2. GotInv'
    BY <2>1, GotShape
  <2>3. OpenInv'
    BY <1>1, <1>3, <2>1 DEF OpenInv, Inv, ReaderInv
  <2> HIDE DEF bound
  <2> QED BY <1>1, <1>3, <2>2, <2>3, OpenPassed DEF Kept
<1>4. CASE phase = "close" /\ Passed("mountinfo", bound)
  <2>1. step' = "target"
    BY <1>4, CloseOrder DEF Passed
  <2> HIDE DEF bound
  <2> QED BY <1>1, <1>4, <2>1, ClosePassed DEF Kept
<1>5. CASE Ended
  BY <1>2, <1>5, EndedKeeps DEF Kept
<1> QED BY <1>2, <1>3, <1>4, <1>5

LEMMA OpenPidfdKeeps == ASSUME Inv, HostFrame, OpenPidfd, phase = "open" PROVE Kept
<1> DEFINE bound == [got EXCEPT !.pidfd = holder]
<1>1. UNCHANGED <<seen, atMain, atClose>>
  BY DEF OpenPidfd, Check, FenceFrame
<1>2. step = "pidfd" /\ (Ended \/ (holder # Nobody /\ Passed("pidfd", bound)))
  <2>1. ResOK(res)
    BY DEF Inv, ReaderInv
  <2>2. Check("pidfd", holder # Nobody, "CONTEXT_UNBOUND", bound)
    BY DEF OpenPidfd
  <2> HIDE DEF bound
  <2> QED BY <2>1, <2>2, CheckEnds
<1>3. CASE holder # Nobody /\ Passed("pidfd", bound)
  <2>1. step' = "alive" /\ got' = bound /\ res'.ctx \in {res.ctx, "CONTEXT_UNBOUND"}
    BY <1>3, OpenOrder DEF Passed
  <2>2. holder \in Processes /\ life[holder] # "unborn"
    BY <1>3 DEF Inv, HostOK, HostInv
  <2>3. GotInv'
    BY <2>1, <2>2, GotShape
  <2>4. OpenInv'
    BY <1>1, <1>3, <2>1 DEF OpenInv, Inv, ReaderInv
  <2> HIDE DEF bound
  <2> QED BY <1>1, <1>3, <2>3, <2>4, OpenPassed DEF Kept
<1>5. CASE Ended
  BY <1>5, EndedKeeps DEF Kept
<1> QED BY <1>2, <1>3, <1>5
-----------------------------------------------------------------------------
LEMMA PidfdAliveKeeps == ASSUME Inv, HostFrame, PidfdAlive PROVE Kept
<1> DEFINE ok == life[got.pidfd] = "running"
<1>1. UNCHANGED <<seen, atMain, atClose>>
  BY DEF PidfdAlive, Check, FenceFrame
<1>2. /\ phase \in {"open", "close"} /\ step = "alive"
      /\ Ended \/ (ok /\ Passed("alive", got))
  <2>1. ResOK(res)
    BY DEF Inv, ReaderInv
  <2>2. Check("alive", ok, "PID_EXITED", got)
    BY DEF PidfdAlive
  <2> HIDE DEF ok
  <2> QED BY <2>1, <2>2, CheckEnds
<1>3. CASE phase = "open" /\ ok /\ Passed("alive", got)
  <2>1. step' = "target" /\ got' = got /\ res'.ctx \in {res.ctx, "CONTEXT_UNBOUND"}
    BY <1>3, OpenOrder DEF Passed
  <2>2. GotInv'
    BY <2>1, GotShape
  <2>3. OpenInv'
    BY <1>1, <1>3, <2>1 DEF OpenInv, Inv, ReaderInv
  <2> QED BY <1>1, <1>3, <2>2, <2>3, OpenPassed DEF Kept
<1>4. CASE phase = "close" /\ ok /\ Passed("alive", got)
  <2>1. step' = "mount" /\ got' = got
    BY <1>4, CloseOrder DEF Passed
  <2>2. MembershipHeld
    BY <1>2, <1>4 DEF Inv, ReaderInv, CloseInv
  <2>3. MembershipHeld'
    BY <1>1, <2>1, <2>2, HeldStays
  <2>4. atMain.life = "running" /\ atClose.life = "running"
    BY <1>4, <2>2 DEF MembershipHeld, Inv, ReaderInv, BoundInv, MeasuredInv
  <2> QED BY <1>1, <1>4, <2>1, <2>3, <2>4, ClosePassed DEF Kept
<1>5. CASE Ended
  BY <1>2, <1>5, EndedKeeps DEF Kept
<1> QED BY <1>2, <1>3, <1>4, <1>5

LEMMA OpenTargetKeeps == ASSUME Inv, HostFrame, OpenTarget PROVE Kept
<1> DEFINE bound == [got EXCEPT !.dir = holder]
           ok == holder # Nobody /\ (Opening \/ holder = got.dir)
           code == IF holder = Nobody THEN "CONTEXT_UNBOUND" ELSE "DIRECTORY_CHANGED"
<1>1. UNCHANGED <<seen, atMain, atClose>>
  BY DEF OpenTarget, Check, FenceFrame
<1>2. /\ phase \in {"open", "close"} /\ step = "target"
      /\ Ended \/ (ok /\ Passed("target", bound))
  <2>1. ResOK(res)
    BY DEF Inv, ReaderInv
  <2>2. Check("target", ok, code, bound)
    BY DEF OpenTarget
  <2> HIDE DEF ok, bound, code
  <2> QED BY <2>1, <2>2, CheckEnds
<1>3. CASE phase = "open" /\ ok /\ Passed("target", bound)
  <2>1. step' = "stat" /\ got' = bound /\ res'.ctx \in {res.ctx, "CONTEXT_UNBOUND"}
    BY <1>3, OpenOrder DEF Passed
  <2>2. holder \in Processes /\ life[holder] # "unborn"
    BY <1>3 DEF Inv, HostOK, HostInv
  <2>3. GotInv'
    BY <2>1, <2>2, GotShape
  <2>4. /\ got'.dir = holder /\ got'.pidfd = got.pidfd /\ got.pidfd \in Processes
        /\ life[got.pidfd] # "unborn"
    BY <2>1 DEF Inv, ReaderInv, GotInv
  <2>5. holder # got.pidfd => life[got.pidfd] = "gone"
    BY <2>4 DEF Inv, HostOK, HostInv
  <2>6. life' = life
    BY DEF HostFrame
  <2>7. OpenInv'
    BY <1>1, <1>3, <2>1, <2>4, <2>5, <2>6 DEF OpenInv, Inv, ReaderInv
  <2> HIDE DEF bound, ok
  <2> QED BY <1>1, <1>3, <2>3, <2>7, OpenPassed DEF Kept
<1>4. CASE phase = "close" /\ ok /\ Passed("target", bound)
  <2>1. step' = "membership"
    BY <1>4, CloseOrder DEF Passed
  <2> HIDE DEF bound, ok
  <2> QED BY <1>1, <1>4, <2>1, ClosePassed DEF Kept
<1>5. CASE Ended
  BY <1>2, <1>5, EndedKeeps DEF Kept
<1> QED BY <1>2, <1>3, <1>4, <1>5

LEMMA ReadStatKeeps == ASSUME Inv, HostFrame, ReadStat PROVE Kept
<1> DEFINE bound == [got EXCEPT !.ticks = got.dir]
           ok == Opening \/ got.dir = got.ticks
           there == Readable(got.dir)
<1>1. UNCHANGED <<seen, atMain, atClose>>
  BY DEF ReadStat, ProcRead, FenceFrame
<1>2. /\ phase \in {"open", "close"} /\ step = "stat" /\ (Ended \/ Passed("stat", bound))
  <2>1. ResOK(res)
    BY DEF Inv, ReaderInv
  <2>2. ProcRead("stat", there, "PIDFD_PROCFS_MISMATCH", ok, "CONTEXT", "STARTTIME_CHANGED",
                 NoValue, bound)
    BY DEF ReadStat
  <2> HIDE DEF bound, ok, there
  <2> QED BY <2>1, <2>2, ProcReadEnds
<1>3. CASE phase = "open" /\ Passed("stat", bound)
  <2>1. step' = "fdinfo" /\ got' = bound /\ res'.ctx \in {res.ctx, "CONTEXT_UNBOUND"}
    BY <1>3, OpenOrder DEF Passed
  <2>2. GotInv'
    BY <2>1, GotShape
  <2>3. got'.dir = got.dir /\ got'.pidfd = got.pidfd /\ life' = life
    BY <2>1 DEF Inv, ReaderInv, GotInv, HostFrame
  <2>4. OpenInv'
    BY <1>1, <1>2, <1>3, <2>1, <2>3 DEF OpenInv, Inv, ReaderInv
  <2> HIDE DEF bound
  <2> QED BY <1>1, <1>3, <2>2, <2>4, OpenPassed DEF Kept
<1>4. CASE phase = "close" /\ Passed("stat", bound)
  <2>1. step' = "fdinfo" /\ got' = got
    BY <1>4, CloseOrder DEF Passed
  <2>2. MembershipHeld
    BY <1>2, <1>4 DEF Inv, ReaderInv, CloseInv
  <2>3. MembershipHeld'
    BY <1>1, <2>1, <2>2, HeldStays
  <2> HIDE DEF bound
  <2> QED BY <1>1, <1>4, <2>1, <2>3, ClosePassed DEF Kept
<1>5. CASE Ended
  BY <1>2, <1>5, EndedKeeps DEF Kept
<1> QED BY <1>2, <1>3, <1>4, <1>5

LEMMA ReadFdinfoKeeps == ASSUME Inv, HostFrame, ReadFdinfo PROVE Kept
<1> DEFINE ok == Readable(got.pidfd)
           yes == TRUE
<1>1. UNCHANGED <<seen, atMain, atClose>>
  BY DEF ReadFdinfo, ProcRead, FenceFrame
<1>2. /\ phase \in {"open", "close"} /\ step = "fdinfo" /\ (Ended \/ (ok /\ Passed("fdinfo", got)))
  <2>1. ResOK(res)
    BY DEF Inv, ReaderInv
  <2>2. ProcRead("fdinfo", yes, "PIDFD_PROCFS_MISMATCH", ok, "CONTEXT", "PIDFD_PROCFS_MISMATCH",
                 NoValue, got)
    BY DEF ReadFdinfo
  <2> HIDE DEF yes, ok
  <2> QED BY <2>1, <2>2, ProcReadEnds
<1>3. CASE phase = "open" /\ ok /\ Passed("fdinfo", got)
  <2>1. step' = "membership" /\ got' = got /\ res'.ctx \in {res.ctx, "CONTEXT_UNBOUND"}
    BY <1>3, OpenOrder DEF Passed
  <2>2. GotInv'
    BY <2>1, GotShape
  <2>3. got.dir = got.pidfd
    BY <1>2, <1>3 DEF Readable, OpenInv, Inv, ReaderInv
  <2>4. OpenInv'
    BY <1>1, <1>3, <2>1, <2>3 DEF OpenInv, Inv, ReaderInv
  <2> HIDE DEF ok
  <2> QED BY <1>1, <1>3, <2>2, <2>4, OpenPassed DEF Kept
<1>4. CASE phase = "close" /\ Passed("fdinfo", got)
  <2>1. step' = "namespaces" /\ got' = got
    BY <1>4, CloseOrder DEF Passed
  <2>2. MembershipHeld
    BY <1>2, <1>4 DEF Inv, ReaderInv, CloseInv
  <2>3. MembershipHeld'
    BY <1>1, <2>1, <2>2, HeldStays
  <2> QED BY <1>1, <1>4, <2>1, <2>3, ClosePassed DEF Kept
<1>5. CASE Ended
  BY <1>2, <1>5, EndedKeeps DEF Kept
<1> QED BY <1>2, <1>3, <1>4, <1>5

(* The last level is the path itself. *)
LEMMA LastLevel == ASSUME GotInv PROVE Len(Levels) \in Nat \ {0} /\ Levels[Len(Levels)] = got.path
  BY ReaderAssumption DEF GotInv, Levels, Last

LEMMA ReadMembershipKeeps == ASSUME Inv, HostFrame, ReadMembership PROVE Kept
<1> DEFINE h == home[got.dir]
           deleted == h.ino # ino[h.dir]
           ok == ~deleted /\ (Opening \/ h.dir = got.path)
           there == Readable(got.dir)
           scope == IF deleted THEN "SELECTION" ELSE "CONTEXT"
           code == IF deleted THEN "DELETED_RECORD" ELSE "MEMBERSHIP_CHANGED"
           sel == IF deleted THEN "MISSING_MEMBERSHIP" ELSE NoValue
           bound == [got EXCEPT !.path = h.dir]
<1>1. UNCHANGED <<seen, atMain>>
      /\ atClose' = IF phase = "open" THEN atClose ELSE [home |-> h, life |-> life[got.dir]]
  BY DEF ReadMembership, ProcRead, FenceFrame, Opening
<1>2. /\ phase \in {"open", "close"} /\ step = "membership"
      /\ Ended \/ (ok /\ Passed("membership", bound))
  <2>1. ResOK(res) /\ scope \in {"CONTEXT", "SELECTION"}
    BY DEF Inv, ReaderInv
  <2>2. ProcRead("membership", there, "CONTEXT_UNBOUND", ok, scope, code, sel, bound)
    BY DEF ReadMembership
  <2> HIDE DEF bound, ok, there, scope, code, sel
  <2> QED BY <2>1, <2>2, ProcReadEnds
<1>3. CASE phase = "open" /\ ok /\ Passed("membership", bound)
  <2>1. step' = "namespaces" /\ got' = bound /\ res'.ctx \in {res.ctx, "CONTEXT_UNBOUND"}
    BY <1>3, OpenOrder DEF Passed
  <2>2. h.dir \in Dirs
    BY DEF Inv, HostOK, HostInv, ReaderInv, GotInv
  <2>3. GotInv'
    BY <2>1, <2>2, GotShape
  <2>4. got'.dir = got.dir /\ got'.pidfd = got.pidfd /\ got'.path = h.dir /\ home' = home
    BY <2>1 DEF Inv, ReaderInv, GotInv, HostFrame
  <2>5. HomeKnown'
    BY <2>4 DEF HomeKnown
  <2>6. OpenInv'
    BY <1>1, <1>2, <1>3, <2>1, <2>4, <2>5 DEF OpenInv, Inv, ReaderInv
  <2> HIDE DEF bound, ok, h
  <2> QED BY <1>1, <1>3, <2>3, <2>6, OpenPassed DEF Kept
<1>4. CASE phase = "close" /\ ok /\ Passed("membership", bound)
  <2>1. step' = "stat" /\ got' = got
    BY <1>4, CloseOrder DEF Passed
  <2>2. /\ atClose' = [home |-> h, life |-> life[got.dir]] /\ h.dir = got.path
        /\ h.ino = ino[got.path] /\ h \in [dir : Dirs, ino : Nat]
    BY <1>1, <1>4 DEF Opening, Inv, HostOK, HostInv, ReaderInv, GotInv
  <2>3. BoundInv /\ MeasuredInv /\ GotInv
    BY <1>4 DEF Inv, ReaderInv
  <2>4. Last(got.inos) <= ino[got.path]
    <3>1. Len(got.inos) \in 1..Len(got.inos) /\ Levels[Len(got.inos)] = got.path
      BY <2>3, LastLevel DEF BoundInv
    <3> QED BY <2>3, <3>1 DEF BoundInv, InosKnown, Last
  <2>5. aba \/ atMain.home.dir = got.path
    <3>1. HomeFact(got.dir, h.dir) \in been => aba
      BY <2>3 DEF Inv, HostOK, MemoryInv, GotInv
    <3> QED BY <2>2, <2>3, <3>1 DEF MeasuredInv
  <2>6. atClose'.home = h /\ atClose'.life = life[got.dir]
    BY <2>2
  <2>7. h \in [dir : {got.path}, ino : Nat] /\ h.ino <= ino[got.path]
    BY <2>2
  <2>8. MembershipHeld'
    BY <1>1, <2>1, <2>2, <2>4, <2>5, <2>6, <2>7 DEF MembershipHeld, HostFrame
  <2> HIDE DEF bound, ok, h
  <2> QED BY <1>1, <1>4, <2>1, <2>8, ClosePassed DEF Kept
<1>5. CASE Ended
  BY <1>2, <1>5, EndedKeeps DEF Kept
<1> QED BY <1>2, <1>3, <1>4, <1>5
-----------------------------------------------------------------------------
LEMMA ReadNamespacesKeeps == ASSUME Inv, HostFrame, ReadNamespaces PROVE Kept
<1>0. PICK there \in BOOLEAN :
        Check("namespaces", there /\ ns[got.dir],
              IF there THEN "NAMESPACE_MISMATCH" ELSE "CONTEXT_UNBOUND", got)
  BY DEF ReadNamespaces
<1> DEFINE ok == there /\ ns[got.dir]
           code == IF there THEN "NAMESPACE_MISMATCH" ELSE "CONTEXT_UNBOUND"
<1>1. UNCHANGED <<seen, atMain, atClose>>
  BY <1>0 DEF Check, FenceFrame
<1>2. /\ phase \in {"open", "close"} /\ step = "namespaces"
      /\ Ended \/ Passed("namespaces", got)
  <2>1. ResOK(res)
    BY DEF Inv, ReaderInv
  <2>2. Check("namespaces", ok, code, got)
    BY <1>0
  <2> HIDE DEF ok, code
  <2> QED BY <2>1, <2>2, CheckEnds
<1>3. CASE phase = "open" /\ Passed("namespaces", got)
  <2>1. step' = "mount" /\ got' = got /\ res'.ctx \in {res.ctx, "CONTEXT_UNBOUND"}
    BY <1>3, OpenOrder DEF Passed
  <2>2. GotInv'
    BY <2>1, GotShape
  <2>3. HomeKnown'
    BY <1>2, <1>3, <2>1 DEF OpenInv, Inv, ReaderInv, HomeKnown, HostFrame
  <2>4. OpenInv'
    BY <1>1, <1>2, <1>3, <2>1, <2>3 DEF OpenInv, Inv, ReaderInv
  <2> QED BY <1>1, <1>3, <2>2, <2>4, OpenPassed DEF Kept
<1>4. CASE phase = "close" /\ Passed("namespaces", got)
  <2>1. step' = "alive" /\ got' = got
    BY <1>4, CloseOrder DEF Passed
  <2>2. MembershipHeld
    BY <1>2, <1>4 DEF Inv, ReaderInv, CloseInv
  <2>3. MembershipHeld'
    BY <1>1, <2>1, <2>2, HeldStays
  <2> QED BY <1>1, <1>4, <2>1, <2>3, ClosePassed DEF Kept
<1>5. CASE Ended
  BY <1>2, <1>5, EndedKeeps DEF Kept
<1> QED BY <1>2, <1>3, <1>4, <1>5

LEMMA OpenMountKeeps == ASSUME Inv, HostFrame, OpenMount PROVE Kept
<1> DEFINE bound == [got EXCEPT !.inos = <<>>]
           deep == Opening /\ Len(Chain[got.path]) > MaxLevels
<1>1. UNCHANGED <<seen, atMain, atClose>> /\ phase \in {"open", "close"} /\ step = "mount"
  BY DEF OpenMount, FenceFrame, At
<1>2. Ended \/ (~deep /\ Passed("mount", bound))
  <2>1. ResOK(res) /\ (phase = "open" => res.ctx # "BOUND")
    BY DEF Inv, ReaderInv, OpenInv
  <2>2. CASE mount # got.mount
    <3>1. Abandon(res, "CONTEXT", "MOUNT_CHANGED", NoValue)
      BY <2>2 DEF OpenMount
    <3> QED BY <2>1, <3>1, AbandonEnds
  <2>3. CASE mount = got.mount /\ deep
    <3>1. Abandon(res, "BUDGET", "LIMIT_REACHED", NoValue) /\ phase = "open"
      BY <2>3 DEF OpenMount, Opening
    <3> QED BY <2>1, <3>1, AbandonEnds
  <2>4. CASE mount = got.mount /\ ~deep
    <3>1. Pass(res, bound)
      BY <2>4 DEF OpenMount
    <3> QED BY <1>1, <2>1, <2>4, <3>1 DEF Pass, Passed
  <2> QED BY <2>2, <2>3, <2>4
<1>3. CASE phase = "open" /\ ~deep /\ Passed("mount", bound)
  <2>1. step' = "walk" /\ got' = bound /\ level' = 1 /\ res'.ctx \in {res.ctx, "CONTEXT_UNBOUND"}
    BY <1>3, OpenOrder DEF Passed
  <2>2. GotInv'
    <3>1. <<>> \in Seq(Nat)
      OBVIOUS
    <3> QED BY <2>1, <3>1, GotShape
  <2>3. /\ got'.dir = got.dir /\ got'.pidfd = got.pidfd /\ got'.path = got.path
        /\ got'.inos = <<>>
    BY <2>1 DEF Inv, ReaderInv, GotInv
  <2>4. HomeKnown'
    BY <1>1, <1>3, <2>3 DEF OpenInv, Inv, ReaderInv, HomeKnown, HostFrame
  <2>5. Len(Levels') \in 1..MaxLevels
    <3>1. Levels' = Levels
      BY <2>3 DEF Levels
    <3>2. Len(Levels) \in Nat \ {0}
      BY LastLevel DEF Inv, ReaderInv
    <3>3. ~(Len(Levels) > MaxLevels) /\ MaxLevels \in Nat
      BY <1>3, ReaderAssumption DEF Opening, Levels
    <3> QED BY <3>1, <3>2, <3>3
  <2>6. Len(got'.inos) = level' - 1 /\ InosKnown' /\ level' \in 1..Len(Levels')
    BY <2>1, <2>3, <2>5 DEF InosKnown
  <2>7. OpenInv'
    BY <1>1, <1>3, <2>1, <2>3, <2>4, <2>5, <2>6 DEF OpenInv, Inv, ReaderInv
  <2> HIDE DEF bound, deep
  <2> QED BY <1>1, <1>3, <2>2, <2>7, OpenPassed DEF Kept
<1>4. CASE phase = "close" /\ Passed("mount", bound)
  <2>1. step' = "walk" /\ got' = got
    BY <1>4, CloseOrder DEF Passed
  <2>2. MembershipHeld /\ atMain.life = "running" /\ atClose.life = "running"
    BY <1>1, <1>4 DEF Inv, ReaderInv, CloseInv
  <2>3. MembershipHeld'
    BY <1>1, <2>1, <2>2, HeldStays
  <2> HIDE DEF bound, deep
  <2> QED BY <1>1, <1>4, <2>1, <2>2, <2>3, ClosePassed DEF Kept
<1>5. CASE Ended
  BY <1>1, <1>5, EndedKeeps DEF Kept
<1> QED BY <1>1, <1>2, <1>3, <1>4, <1>5

(* One directory of the opening walk. *)
LEMMA OpenWalkKeeps == ASSUME Inv, HostFrame, WalkLevel, phase = "open" PROVE Kept
<1> DEFINE last == level = Len(Levels)
           q == Append(got.inos, ino[Levels[level]])
<1>1. /\ step = "walk" /\ got' = [got EXCEPT !.inos = q]
      /\ res' = IF last THEN [res EXCEPT !.sel = "SELECTED", !.ctx = "BOUND"] ELSE res
      /\ phase' = IF last THEN "read" ELSE phase
      /\ level' = IF last THEN 1 ELSE level + 1
      /\ UNCHANGED <<step, seen, atMain, atClose>>
  BY DEF WalkLevel, At, Opening, FenceFrame
<1>2. /\ OpenInv /\ GotInv /\ ResOK(res) /\ Empty(res.metric)
      /\ Len(Levels) \in 1..MaxLevels /\ level \in 1..Len(Levels) /\ Len(got.inos) = level - 1
      /\ InosKnown /\ got.dir = got.pidfd /\ HomeKnown
  BY <1>1 DEF Inv, ReaderInv, OpenInv
<1>3. Levels[level] \in Dirs /\ Len(Levels) \in Nat
  <2>1. Levels \in Seq(Dirs)
    BY <1>2, ReaderAssumption DEF GotInv, Levels
  <2> QED BY <1>2, <2>1
<1>4. /\ q \in Seq(Nat) /\ Len(q) = level /\ q[level] = ino[Levels[level]]
      /\ \A i \in 1..(level - 1) : q[i] = got.inos[i]
  BY <1>2, <1>3 DEF GotInv, Inv, HostOK, HostInv
<1> HIDE DEF q
<1>5. GotInv'
  BY <1>1, <1>4, GotShape
<1>6. /\ got'.dir = got.dir /\ got'.pidfd = got.pidfd /\ got'.path = got.path /\ got'.inos = q
      /\ Levels' = Levels
  BY <1>1, <1>2 DEF GotInv, Levels
<1>7. InosKnown'
  <2>1. \A i \in 1..level : q[i] <= ino[Levels[i]]
    <3>1. ASSUME NEW i \in 1..level, i # level PROVE q[i] <= ino[Levels[i]]
      <4>1. i \in 1..(level - 1) /\ i \in 1..Len(got.inos)
        BY <1>2, <3>1
      <4> QED BY <4>1, <1>2, <1>4 DEF InosKnown
    <3>2. ino[Levels[level]] \in Nat
      BY <1>3 DEF Inv, HostOK, HostInv
    <3> QED BY <1>4, <3>1, <3>2
  <2>2. ino' = ino
    BY DEF HostFrame
  <2> QED BY <1>4, <1>6, <2>1, <2>2 DEF InosKnown
<1>8. HomeKnown'
  BY <1>2, <1>6 DEF HomeKnown, HostFrame
<1>9. ResOK(res') /\ res'.metric = res.metric
  BY <1>1, <1>2 DEF ResOK
<1>10. CASE ~last
  <2>1. phase' = "open" /\ level' = level + 1 /\ level + 1 \in 1..Len(Levels)
        /\ Len(got'.inos) = level' - 1
    BY <1>1, <1>2, <1>3, <1>4, <1>6, <1>10
  <2>2. OpenInv'
    BY <1>1, <1>2, <1>6, <1>7, <1>8, <1>10, <2>1 DEF OpenInv
  <2>3. ~HasBound' /\ CeilingIsSnapshot'
    BY <2>1, EmptyCeiling DEF HasBound
  <2> QED BY <1>2, <1>5, <1>9, <2>1, <2>2, <2>3 DEF ReaderInv, Kept
<1>11. CASE last
  <2>1. phase' = "read" /\ level' = 1 /\ step' = "walk"
    BY <1>1, <1>11
  <2>2. BoundInv'
    BY <1>2, <1>4, <1>6, <1>7, <1>8, <1>11 DEF BoundInv
  <2>3. DOMAIN seen' = {}
    BY <1>1, <1>2 DEF OpenInv
  <2>4. ReadInv'
    <3> DEFINE s == ScheduleOf[Len(Levels)]
               c == InitialReads
    <3>1. Schedule' = s /\ InitialReads' = c
      BY <1>6 DEF Schedule, InitialReads
    <3>5. Len(s) \in Nat /\ c \in Nat
      BY <1>2, ScheduleIs DEF InitialReads
    <3> HIDE DEF s, c
    <3>6. 1 \in 1..(Len(s) + 1) /\ 1 <= c + 1
      BY <3>5
    <3>2. \A n, k : InitialKnown(n, k)'
      BY <2>3 DEF InitialKnown, Taken
    <3>3. 1 \in 1..(Len(Schedule') + 1) /\ 1 <= InitialReads' + 1
      BY <3>1, <3>6
    <3>4. \A i \in 1..(level' - 1) : Schedule'[i] \in DOMAIN seen'
      BY <2>1
    <3> QED BY <2>1, <2>3, <3>2, <3>3, <3>4 DEF ReadInv
  <2>5. ~HasBound' /\ CeilingIsSnapshot'
    BY <2>1, EmptyCeiling DEF HasBound
  <2> QED BY <1>2, <1>5, <1>9, <2>1, <2>2, <2>4, <2>5 DEF ReaderInv, Kept
<1> QED BY <1>10, <1>11

(* One directory of the closing walk. *)
LEMMA CloseWalkKeeps == ASSUME Inv, HostFrame, WalkLevel, phase = "close" PROVE Kept
<1>1. /\ step = "walk" /\ UNCHANGED <<seen, atMain, atClose>>
  BY DEF WalkLevel, At, FenceFrame
<1>2. /\ CloseInv /\ BoundInv /\ MeasuredInv /\ GotInv /\ ResOK(res) /\ Empty(res.metric)
      /\ AllRead /\ MembershipHeld /\ atMain.life = "running" /\ atClose.life = "running"
      /\ level \in 1..Len(Levels)
  BY <1>1 DEF Inv, ReaderInv, CloseInv
<1>3. CASE ~SameDirectory(level)
  <2>1. Abandon(res, "CONTEXT", "DIRECTORY_CHANGED", NoValue)
    BY <1>3 DEF WalkLevel, Opening
  <2> QED BY <1>2, <2>1, AbandonEnds, EndedKeeps DEF Kept
<1>4. CASE SameDirectory(level)
  <2>1. /\ phase' = IF level = Len(Levels) THEN "derive" ELSE "close"
        /\ level' = level + 1 /\ UNCHANGED <<step, got, res>>
    BY <1>4 DEF WalkLevel, Opening
  <2>2. GotInv' /\ BoundInv' /\ Levels' = Levels
    BY <1>2, <2>1 DEF HostFrame, GotInv, BoundInv, HomeKnown, InosKnown, Levels
  <2>3. MeasuredInv'
    BY <1>1, <1>2, <2>1 DEF HostFrame, MeasuredInv, LevelMeasured, MainKnown, Taken, Initial,
                            MainPlace, Levels
  <2>4. AllRead'
    BY <1>1, <1>2, <2>2 DEF AllRead, Schedule
  <2>5. MembershipHeld'
    BY <1>1, <1>2, <2>1, HeldStays
  <2>6. CeilingIsSnapshot'
    BY <2>1, EmptyCeiling
  <2>7. Len(Levels) \in Nat
    BY <1>2 DEF BoundInv
  <2>8. CASE level # Len(Levels)
    <3>1. phase' = "close" /\ level' \in 1..Len(Levels')
      BY <1>2, <2>1, <2>2, <2>7, <2>8
    <3>2. CloseInv'
      BY <1>1, <1>2, <2>1, <2>4, <2>5, <3>1 DEF CloseInv
    <3>3. ~HasBound'
      BY <3>1 DEF HasBound
    <3> QED BY <1>2, <2>1, <2>2, <2>3, <2>6, <3>1, <3>2, <3>3 DEF ReaderInv, Kept
  <2>9. CASE level = Len(Levels)
    <3>1. ino[got.path] = Last(got.inos)
      BY <1>2, <1>4, <2>9, LastLevel DEF SameDirectory, BoundInv, Last
    <3>2. atClose.home.ino = Last(got.inos)
      <4>1. ino[got.path] \in Nat
        BY <1>2 DEF Inv, HostOK, HostInv, GotInv
      <4> QED BY <1>2, <3>1, <4>1 DEF MembershipHeld
    <3>3. atClose.home = [dir |-> got.path, ino |-> Last(got.inos)]
      BY <1>2, <3>2 DEF MembershipHeld
    <3>4. EndInv'
      BY <1>1, <1>2, <2>1, <2>4, <3>3 DEF EndInv, BoundInv, MembershipHeld, HostFrame
    <3>5. phase' = "derive"
      BY <2>1, <2>9
    <3> QED BY <1>2, <2>1, <2>2, <2>3, <2>6, <3>4, <3>5 DEF ReaderInv, Kept
  <2> QED BY <2>8, <2>9
<1> QED BY <1>3, <1>4

(* Any step of a fence. *)
LEMMA FenceKeeps == ASSUME Inv, Fence PROVE HostFrame /\ Kept
<1>1. HostFrame
  BY DEF Fence, NoBackend, ReadMountinfo, OpenPidfd, PidfdAlive, OpenTarget, ReadStat, ReadFdinfo,
         ReadMembership, ReadNamespaces, OpenMount, WalkLevel, FenceFault, Check, ProcRead,
         FenceFrame, hostVars, HostFrame
<1>2. ASSUME NoBackend PROVE Kept
  <2>1. /\ res' = Issue(EmptyResult, "ABI", "UNSUPPORTED_ABI") /\ phase' = "done" /\ UNCHANGED got
    BY <1>2 DEF NoBackend
  <2>2. ResOK(EmptyResult) /\ Empty(EmptyResult.metric) /\ EmptyResult.ctx # "BOUND"
    BY DEF EmptyResult, ResOK, Empty
  <2>3. ResOK(res') /\ Empty(res'.metric) /\ res'.ctx # "BOUND"
    BY <2>1, <2>2, Results
  <2>4. GotInv'
    BY <1>1, <2>1, GotShape
  <2> QED BY <2>1, <2>3, <2>4, EmptyCeiling DEF ReaderInv, Kept, HasBound
<1>3. ASSUME FenceFault PROVE Kept
  <2>1. Abandon(res, "CONTEXT", "READ_ERROR", NoValue) /\ phase \in {"open", "close"}
    BY <1>3 DEF FenceFault
  <2> QED BY <1>1, <2>1, AbandonEnds, EndedKeeps DEF Kept, Inv, ReaderInv
<1>4. ASSUME OpenPidfd PROVE Kept
  <2>1. phase \in {"open", "close"} /\ step = "pidfd"
    BY <1>4 DEF OpenPidfd, Check, At
  <2> QED BY <1>1, <1>4, <2>1, OpenPidfdKeeps DEF Inv, ReaderInv, CloseInv
<1>5. ASSUME WalkLevel PROVE Kept
  <2>1. phase \in {"open", "close"}
    BY <1>5 DEF WalkLevel, At
  <2> QED BY <1>1, <1>5, <2>1, OpenWalkKeeps, CloseWalkKeeps
<1> QED
  BY <1>1, <1>2, <1>3, <1>4, <1>5, ReadMountinfoKeeps, PidfdAliveKeeps, OpenTargetKeeps,
     ReadStatKeeps, ReadFdinfoKeeps, ReadMembershipKeeps, ReadNamespacesKeeps, OpenMountKeeps
  DEF Fence
-----------------------------------------------------------------------------
(* The parts of a place. *)
LEMMA PlacesDiffer ==
  /\ \A p, n, k : /\ Place(p, n, k).phase = p /\ Place(p, n, k).level = n
                  /\ Place(p, n, k).key = k
  /\ \A n, k : Initial(n, k).phase = "INITIAL_FENCE" /\ MainPlace(n, k).phase = "MAIN_READ"
  /\ \A n, k : Initial(n, k).level = n /\ Initial(n, k).key = k
  /\ \A n, k : MainPlace(n, k).level = n /\ MainPlace(n, k).key = k
  BY DEF Place, Initial, MainPlace

(* What an outcome of a read at x says. *)
Faithful(x, outcome) ==
  outcome.read = "AVAILABLE" =>
    ino[Levels[x.level]] = got.inos[x.level] /\ outcome.value = file[Levels[x.level]][x.key]

(* A faithful outcome is recorded. *)
LEMMA RecordKeeps ==
  ASSUME Inv, HostFrame, phase = "read", level <= Len(Schedule),
         step = "main" \/ level <= InitialReads, NEW x, x = Schedule[level],
         NEW outcome, Record(x, outcome), Faithful(x, outcome)
  PROVE  Kept
<1>1. /\ seen' = [y \in DOMAIN seen \union {x} |-> IF y = x THEN outcome ELSE seen[y]]
      /\ level' = level + 1
      /\ UNCHANGED <<phase, step, got, changed, atMain, atClose>>
  BY DEF Record
<1>2. /\ DOMAIN seen' = DOMAIN seen \union {x}
      /\ \A y \in DOMAIN seen : y # x => seen'[y] = seen[y]
      /\ seen'[x] = outcome
  BY <1>1
<1>3. /\ BoundInv /\ ReadInv /\ GotInv /\ ResOK(res) /\ Empty(res.metric)
      /\ step = "main" => MeasuredInv
  BY DEF Inv, ReaderInv
<1>4. ResOK(res') /\ res'.metric = res.metric
  <2> DEFINE r == ClockChecked(res)
  <2>1. ResOK(r) /\ r.metric = res.metric
    BY <1>3, Results
  <2>2. res' = r \/ \E c, d : res' = Issue(r, c, d)
    BY DEF Record
  <2> HIDE DEF r
  <2> QED BY <2>1, <2>2, Results
<1>5. GotInv' /\ BoundInv' /\ Levels' = Levels /\ Schedule' = Schedule
      /\ InitialReads' = InitialReads
  BY <1>1, <1>3 DEF HostFrame, GotInv, BoundInv, HomeKnown, InosKnown, Levels, Schedule,
                    InitialReads
<1>6. CeilingIsSnapshot' /\ ~HasBound' /\ phase' = "read"
  BY <1>1, EmptyCeiling DEF HasBound
<1> DEFINE s == ScheduleOf[Len(Levels)]
           c == InitialReads
<1>7. Schedule = s
  BY DEF Schedule
<1>8. /\ Len(s) \in Nat /\ c \in Nat /\ c < Len(s)
      /\ \A i \in 1..c : s[i].phase = "INITIAL_FENCE"
      /\ \A i \in (c + 1)..Len(s) : s[i].phase # "INITIAL_FENCE"
  BY <1>3, ScheduleIs DEF BoundInv, InitialReads
<1> HIDE DEF s, c
<1>9. /\ level \in 1..Len(s) /\ x = s[level]
      /\ \A i \in 1..(level - 1) : s[i] \in DOMAIN seen
      /\ (step = "main" => level > c) /\ (step # "main" => level <= c)
  BY <1>3, <1>7, <1>8 DEF ReadInv, c
<1>10. /\ level' \in 1..(Len(s) + 1)
       /\ \A i \in 1..(level' - 1) : s[i] \in DOMAIN seen'
       /\ (step = "main" => level' > c) /\ (step # "main" => level' <= c + 1)
  BY <1>1, <1>2, <1>8, <1>9
<1>11. (step = "main" => x.phase # "INITIAL_FENCE") /\ (step # "main" => x.phase = "INITIAL_FENCE")
  BY <1>8, <1>9
<1>12. ASSUME step # "main", NEW n \in 1..Len(Levels), NEW k \in LimitSet PROVE InitialKnown(n, k)'
  <2>1. InitialKnown(n, k)
    BY <1>3, <1>12 DEF ReadInv
  <2>2. CASE Initial(n, k) \in DOMAIN seen /\ Initial(n, k) # x
    BY <1>1, <1>2, <1>5, <2>1, <2>2
    DEF InitialKnown, Taken, Initial, FileKnown, HostFrame
  <2>3. CASE Initial(n, k) = x
    <3>1. x.level = n /\ x.key = k
      BY <2>3, PlacesDiffer
    <3>2. seen'[x] = outcome
      BY <1>2, <2>3
    <3>3. outcome.read = "AVAILABLE" => file[Levels[n]][k] = outcome.value
      BY <3>1 DEF Faithful
    <3>4. Initial(n, k)' = x /\ file' = file /\ got' = got
      BY <1>1, <2>3 DEF Initial, HostFrame
    <3> QED BY <1>5, <3>2, <3>3, <3>4 DEF InitialKnown, Taken, FileKnown
  <2>4. CASE Initial(n, k) \notin DOMAIN seen /\ Initial(n, k) # x
    BY <1>2, <2>4 DEF InitialKnown, Taken, Initial
  <2> QED BY <2>2, <2>3, <2>4
<1>13. ASSUME step # "main" PROVE \A y \in DOMAIN seen' : y.phase = "INITIAL_FENCE"
  BY <1>2, <1>3, <1>11, <1>13 DEF ReadInv
<1>14. ReadInv'
  BY <1>1, <1>5, <1>7, <1>10, <1>12, <1>13 DEF ReadInv, c
<1>15. ASSUME step = "main" PROVE MeasuredInv'
  <2>1. ASSUME NEW n \in 1..Len(Levels), NEW k \in LimitSet PROVE LevelMeasured(n, k)'
    <3> DEFINE a == Initial(n, k)
               b == MainPlace(n, k)
               d == Levels[n]
               i == got.inos[n]
    <3>1. a # x
      BY <1>11, <1>15, PlacesDiffer
    <3>2. /\ Taken(a) => MainKnown(d, i, k, seen[a].value)
          /\ Taken(a) /\ Taken(b) /\ seen[a] = seen[b] => aba \/ atMain.file[d][k] = seen[b].value
      BY <1>3, <1>15 DEF MeasuredInv, LevelMeasured
    <3>3. a' = a /\ b' = b /\ d' = d /\ i' = i /\ aba' = aba /\ been' = been /\ ino' = ino
          /\ atMain' = atMain
      BY <1>1, <1>5 DEF Initial, MainPlace, HostFrame
    <3>10. b = x => x.level = n /\ x.key = k
      BY PlacesDiffer
    <3>11. d \in Dirs /\ k \in AllKeys
      <4>1. Levels \in Seq(Dirs)
        BY <1>3, ReaderAssumption DEF GotInv, Levels
      <4> QED BY <4>1 DEF AllKeys
    <3> HIDE DEF a, b, d, i
    <3>4. a \in DOMAIN seen' => a \in DOMAIN seen /\ seen'[a] = seen[a]
      BY <1>2, <3>1
    <3>5. (Taken(a))' => Taken(a) /\ seen'[a] = seen[a]
      BY <3>3, <3>4 DEF Taken
    <3>6. (Taken(a) => MainKnown(d, i, k, seen[a].value))'
      BY <3>2, <3>3, <3>5 DEF MainKnown
    <3>7. ASSUME (Taken(a))', (Taken(b))', seen'[a] = seen'[b]
          PROVE  aba \/ atMain.file[d][k] = seen'[b].value
      <4>1. Taken(a) /\ seen'[a] = seen[a] /\ MainKnown(d, i, k, seen[a].value)
        BY <3>2, <3>5, <3>7
      <4>2. CASE b # x
        BY <1>2, <3>2, <3>3, <3>7, <4>1, <4>2 DEF Taken
      <4>3. CASE b = x
        <5>1. b = x /\ seen'[x] = outcome
          BY <1>2, <3>3, <3>7, <4>3 DEF Taken
        <5>2. ino[d] = i /\ outcome.value = file[d][k]
          <6>1. outcome.read = "AVAILABLE"
            BY <3>3, <3>7, <5>1 DEF Taken
          <6> QED BY <3>10, <5>1, <6>1 DEF Faithful, d, i
        <5>3. ino[d] \in Nat
          BY <3>11 DEF Inv, HostOK, HostInv
        <5>4. seen[a].value = outcome.value
          BY <3>7, <4>1, <5>1
        <5>5. FileFact(d, ino[d], k, file[d][k]) \in been => aba
          BY <3>11 DEF Inv, HostOK, MemoryInv
        <5> QED BY <4>1, <5>1, <5>2, <5>3, <5>4, <5>5 DEF MainKnown
      <4> QED BY <4>2, <4>3
    <3> QED BY <3>3, <3>6, <3>7 DEF LevelMeasured, a, b, d, i
  <2> QED BY <1>1, <1>3, <1>5, <1>15, <2>1 DEF MeasuredInv, HostFrame
<1> QED BY <1>1, <1>3, <1>4, <1>5, <1>6, <1>14, <1>15 DEF ReaderInv, Kept

(* A resource is read, or the read fails. *)
LEMMA ReadResourceKeeps == ASSUME Inv, ReadResource \/ ResourceFault PROVE HostFrame /\ Kept
<1>1. /\ HostFrame /\ phase = "read" /\ level <= Len(Schedule)
      /\ step = "main" \/ level <= InitialReads
  BY DEF ReadResource, ResourceFault, TypesKnown, HostFrame, hostVars
<1> DEFINE x == Schedule[level]
<1>2. CASE ReadResource
  <2>1. Record(x, Outcome(x))
    BY <1>2 DEF ReadResource
  <2>2. Faithful(x, Outcome(x))
    BY DEF Faithful, Outcome, Unread
  <2> HIDE DEF x
  <2>3. x = Schedule[level]
    BY DEF x
  <2> QED BY <1>1, <2>1, <2>2, <2>3, RecordKeeps
<1>3. CASE ResourceFault
  <2>1. PICK outcome \in {"READ_ERROR", "MISSING", "INVALID_VALUE"} : Record(x, Unread(outcome))
    BY <1>3 DEF ResourceFault
  <2>2. Faithful(x, Unread(outcome))
    BY DEF Faithful, Unread
  <2> HIDE DEF x
  <2>3. x = Schedule[level]
    BY DEF x
  <2> QED BY <1>1, <2>1, <2>2, <2>3, RecordKeeps
<1> QED BY <1>2, <1>3
-----------------------------------------------------------------------------
(* The main reads begin: what the configuration showed is known of this moment. *)
LEMMA CheckTypesKeeps == ASSUME Inv, CheckTypes PROVE HostFrame /\ Kept
<1>1. /\ phase = "read" /\ level = InitialReads + 1 /\ step # "main" /\ step' = "main"
      /\ atMain' = [file |-> file, home |-> home[got.pidfd], life |-> life[got.pidfd]]
      /\ UNCHANGED <<phase, level, got, seen, changed, atClose>>
      /\ UNCHANGED <<holder, life, home, ino, file, been, aba>>
  BY DEF CheckTypes, TypesKnown, hostVars
<1>2. BoundInv /\ ReadInv /\ GotInv /\ ResOK(res) /\ Empty(res.metric)
  BY <1>1 DEF Inv, ReaderInv
<1>3. ResOK(res') /\ res'.metric = res.metric
  <2> DEFINE r == Issue(res, "SELECTION", "UNSUPPORTED_LAYOUT")
  <2>1. ResOK(r) /\ r.metric = res.metric
    BY <1>2 DEF ResOK, Issue
  <2>2. res' = [r EXCEPT !.sel = "UNSUPPORTED_LAYOUT"] \/ res' = res
    BY DEF CheckTypes
  <2> HIDE DEF r
  <2> QED BY <1>2, <2>1, <2>2 DEF ResOK
<1>4. GotInv' /\ BoundInv' /\ Levels' = Levels /\ Schedule' = Schedule
      /\ InitialReads' = InitialReads
  BY <1>1, <1>2 DEF GotInv, BoundInv, HomeKnown, InosKnown, Levels, Schedule, InitialReads
<1>5. CeilingIsSnapshot' /\ ~HasBound' /\ phase' = "read"
  BY <1>1, EmptyCeiling DEF HasBound
<1>6. ReadInv'
  <2>1. InitialReads \in Nat
    BY <1>2, ScheduleIs DEF BoundInv, InitialReads
  <2> QED BY <1>1, <1>2, <1>4, <2>1 DEF ReadInv
<1>7. MeasuredInv'
  <2>1. ASSUME NEW n \in 1..Len(Levels), NEW k \in LimitSet PROVE LevelMeasured(n, k)'
    <3>1. InitialKnown(n, k) /\ \A x \in DOMAIN seen : x.phase = "INITIAL_FENCE"
      BY <1>1, <1>2 DEF ReadInv
    <3>2. ~(Taken(MainPlace(n, k)))'
      BY <1>1, <3>1, PlacesDiffer DEF Taken, MainPlace
    <3>3. atMain'.file = file
      BY <1>1
    <3> QED BY <1>1, <1>4, <3>1, <3>2, <3>3
            DEF LevelMeasured, InitialKnown, FileKnown, MainKnown, Taken, Initial
  <2>2. atMain'.home.dir = home[got.dir].dir /\ atMain'.life = life[got.dir]
    BY <1>1, <1>2 DEF BoundInv
  <2> QED BY <1>1, <1>2, <1>4, <2>1, <2>2 DEF MeasuredInv, BoundInv, HomeKnown
<1> QED BY <1>1, <1>2, <1>3, <1>4, <1>5, <1>6, <1>7 DEF ReaderInv, Kept, HostFrame

(* The main reads are over. *)
LEMMA CompareKeeps == ASSUME Inv, CompareConfiguration PROVE HostFrame /\ Kept
<1>1. /\ phase = "read" /\ level = Len(Schedule) + 1 /\ phase' = "close" /\ step' = "mountinfo"
      /\ UNCHANGED <<got, seen, atMain, atClose>>
      /\ UNCHANGED <<holder, life, home, ino, file, been, aba>>
  BY DEF CompareConfiguration, hostVars
<1>2. BoundInv /\ ReadInv /\ GotInv /\ ResOK(res) /\ Empty(res.metric)
  BY <1>1 DEF Inv, ReaderInv
<1>3. ResOK(res') /\ res'.metric = res.metric
  BY <1>2, Results DEF CompareConfiguration
<1>4. GotInv' /\ BoundInv' /\ Levels' = Levels /\ Schedule' = Schedule
  BY <1>1, <1>2 DEF GotInv, BoundInv, HomeKnown, InosKnown, Levels, Schedule
<1>5. CeilingIsSnapshot' /\ ~HasBound'
  BY <1>1, EmptyCeiling DEF HasBound
<1>6. Len(Schedule) \in Nat /\ InitialReads \in Nat /\ InitialReads < Len(Schedule)
  BY <1>2, ScheduleIs DEF BoundInv, InitialReads, Schedule
<1>7. step = "main"
  BY <1>1, <1>2, <1>6 DEF ReadInv
<1>8. MeasuredInv
  BY <1>1, <1>7 DEF Inv, ReaderInv
<1>9. MeasuredInv'
  BY <1>1, <1>8 DEF MeasuredInv, LevelMeasured, MainKnown, Taken, Initial, MainPlace, Levels
<1>10. AllRead'
  <2>1. AllRead
    BY <1>1, <1>2, <1>6 DEF ReadInv, AllRead
  <2> QED BY <1>1, <1>4, <2>1 DEF AllRead
<1>11. CloseInv'
  BY <1>1, <1>10 DEF CloseInv
<1> QED BY <1>1, <1>2, <1>3, <1>4, <1>5, <1>9, <1>11 DEF ReaderInv, Kept, HostFrame

(* What a metric that is published was read from. *)
LEMMA DerivedIs ==
  ASSUME Inv, HasBound, ~aba, NEW k \in MetricKeys, ~Suppressed(res, k)
  PROVE  {Main(n, k).value : n \in 1..Len(Levels)} \intersect Limits = Ceiling(k)
<1>1. BoundInv /\ MeasuredInv /\ EndInv /\ GotInv
  BY DEF Inv, ReaderInv
<1>2. k \in LimitSet
  BY DEF MetricKeys
<1>3. ASSUME NEW n \in 1..Len(Levels) PROVE atMain.file[Levels[n]][k] = Main(n, k).value
  <2>1. Initial(n, k) \in DOMAIN seen /\ MainPlace(n, k) \in DOMAIN seen
    <3> DEFINE s == ScheduleOf[Len(Levels)]
    <3>1. \E i \in 1..Len(s) : s[i] = Initial(n, k)
      BY <1>1, <1>2, ScheduleIs DEF BoundInv, Initial, Visited, ConfigKeys
    <3>2. \E i \in 1..Len(s) : s[i] = MainPlace(n, k)
      BY <1>1, <1>2, ScheduleIs DEF BoundInv, MainPlace, Visited
    <3>3. \A i \in 1..Len(s) : s[i] \in DOMAIN seen
      BY <1>1 DEF EndInv, AllRead, Schedule
    <3> HIDE DEF s
    <3> QED BY <3>1, <3>2, <3>3
  <2>2. seen[MainPlace(n, k)] = Main(n, k) /\ Main(n, k).read = "AVAILABLE"
    BY DEF Main, MainPlace, Suppressed
  <2>3. seen[Initial(n, k)] = seen[MainPlace(n, k)]
    BY DEF Main, MainPlace, Initial, Suppressed, Signature
  <2> QED BY <1>1, <1>2, <2>1, <2>2, <2>3 DEF MeasuredInv, LevelMeasured, Taken
<1>4. atMain.home.dir = got.path
  BY <1>1 DEF EndInv
<1>5. ToSet(Chain[atMain.home.dir]) = {Levels[n] : n \in 1..Len(Levels)}
  <2>1. Chain[got.path] \in Seq(Dirs)
    BY <1>1, ReaderAssumption DEF GotInv
  <2> QED BY <1>4, <2>1 DEF ToSet, Levels
<1>6. {atMain.file[d][k] : d \in ToSet(Chain[atMain.home.dir])}
        = {Main(n, k).value : n \in 1..Len(Levels)}
  <2>1. ASSUME NEW v, \E d \in ToSet(Chain[atMain.home.dir]) : v = atMain.file[d][k]
        PROVE  \E n \in 1..Len(Levels) : v = Main(n, k).value
    BY <1>3, <1>5, <2>1
  <2>2. ASSUME NEW n \in 1..Len(Levels)
        PROVE  \E d \in ToSet(Chain[atMain.home.dir]) : Main(n, k).value = atMain.file[d][k]
    BY <1>3, <1>5
  <2> QED BY <2>1, <2>2
<1> QED BY <1>6 DEF Ceiling

(* The metrics are published. *)
LEMMA DeriveKeeps == ASSUME Inv, DeriveMetrics PROVE HostFrame /\ Kept
<1>1. /\ phase = "derive" /\ phase' = "done"
      /\ res' = [res EXCEPT !.metric = [k \in MetricKeys |-> Derived(res, k)]]
      /\ UNCHANGED <<step, level, got, seen, changed, atMain, atClose>>
      /\ UNCHANGED <<holder, life, home, ino, file, been, aba>>
  BY DEF DeriveMetrics, hostVars
<1>2. GotInv /\ ResOK(res)
  BY DEF Inv, ReaderInv
<1>3. ResOK(res') /\ res'.ctx = res.ctx /\ \A k \in MetricKeys : res'.metric[k] = Derived(res, k)
  BY <1>1, <1>2 DEF ResOK
<1>4. GotInv' /\ HasBound' = HasBound
  BY <1>1, <1>2, <1>3 DEF GotInv, HasBound
<1>5. ASSUME HasBound PROVE BoundInv' /\ MeasuredInv' /\ EndInv'
  BY <1>1, <1>5
  DEF Inv, ReaderInv, BoundInv, HomeKnown, InosKnown, Levels, MeasuredInv, LevelMeasured,
      MainKnown, Taken, Initial, MainPlace, EndInv, AllRead, Schedule
<1>6. CeilingIsSnapshot'
  <2> SUFFICES ASSUME ~aba, NEW k \in MetricKeys
               PROVE  /\ Derived(res, k).state = "AVAILABLE" =>
                           Ceiling(k) # {} /\ Derived(res, k).value = Min(Ceiling(k))
                      /\ Derived(res, k).state = "NO_FINITE_VISIBLE_LIMIT" => Ceiling(k) = {}
    <3>1. aba' = aba /\ \A k : Ceiling(k)' = Ceiling(k)
      BY <1>1 DEF Ceiling
    <3> QED BY <1>3, <3>1 DEF CeilingIsSnapshot
  <2>1. CASE Suppressed(res, k)
    BY <2>1 DEF Derived
  <2>2. CASE ~Suppressed(res, k)
    <3>1. HasBound
      BY <1>1, <2>2 DEF HasBound, Suppressed
    <3>2. {Main(n, k).value : n \in 1..Len(Levels)} \intersect Limits = Ceiling(k)
      BY <2>2, <3>1, DerivedIs
    <3>3. Derived(res, k) = IF Ceiling(k) = {}
                            THEN [state |-> "NO_FINITE_VISIBLE_LIMIT", value |-> NoValue]
                            ELSE [state |-> "AVAILABLE", value |-> Min(Ceiling(k))]
      BY <2>2, <3>2 DEF Derived
    <3> QED BY <3>3
  <2> QED BY <2>1, <2>2
<1> QED BY <1>1, <1>3, <1>4, <1>5, <1>6 DEF ReaderInv, Kept, HostFrame, HasBound

-----------------------------------------------------------------------------
(* The invariant holds at the start. *)
LEMMA InitInv == Init => Inv
<1> SUFFICES ASSUME Init PROVE Inv
  OBVIOUS
<1>1. HostInv
  <2>1. PICK d \in Homes : home = [p \in Processes |-> [dir |-> d, ino |-> 0]]
    BY DEF Init
  <2>2. file = [e \in Dirs |-> [k \in AllKeys |-> file[e][k]]]
    BY DEF Init
  <2>3. holder = 1 /\ life = <<"running", "unborn">> /\ ino = [e \in Dirs |-> 0]
    BY DEF Init
  <2>4. life \in [Processes -> {"unborn", "running", "zombie", "gone"}]
    BY <2>3 DEF Processes
  <2> QED BY <2>1, <2>2, <2>3, <2>4, ReaderAssumption DEF HostInv, Processes
<1>2. MemoryInv
  BY DEF Init, MemoryInv
<1>3. GotInv
  <2>1. home[1].dir \in Dirs /\ 1 \in Processes
    BY <1>1 DEF HostInv, Processes
  <2>2. life[1] # "unborn"
    BY DEF Init
  <2>3. got = [mount |-> 0, pidfd |-> 1, dir |-> 1, ticks |-> 1, path |-> home[1].dir,
               inos |-> <<>>]
    BY DEF Init
  <2>4. <<>> \in Seq(Nat)
    OBVIOUS
  <2> QED BY <2>1, <2>2, <2>3, <2>4 DEF GotInv
<1>4. ResOK(res) /\ Empty(res.metric) /\ res.ctx # "BOUND"
  BY DEF Init, EmptyResult, ResOK, Empty
<1>5. OpenInv /\ phase = "open"
  <2>1. phase = "open" /\ step = "mountinfo" /\ seen = <<>>
    BY DEF Init
  <2>2. DOMAIN <<>> = {}
    OBVIOUS
  <2> QED BY <1>4, <2>1, <2>2 DEF OpenInv
<1>6. CeilingIsSnapshot
  BY <1>5 DEF CeilingIsSnapshot, Finished
<1> QED BY <1>1, <1>2, <1>3, <1>4, <1>5, <1>6 DEF Inv, HostOK, ReaderInv, HasBound

(* Every step keeps it. *)
LEMMA NextInv == Inv /\ [Next]_vars => Inv'
<1> SUFFICES ASSUME Inv, [Next]_vars PROVE Inv'
  OBVIOUS
<1>1. ASSUME UNCHANGED <<hostVars, readerVars>> PROVE Inv'
  <2>1. HostStep
    BY <1>1, LifeStep DEF Inv, HostOK, HostInv, hostVars
  <2>2. ReaderInv'
    BY <2>1, HostInvStep DEF Inv
  <2>3. CeilingIsSnapshot'
    BY <1>1 DEF Inv, CeilingIsSnapshot, Finished, Ceiling, hostVars, readerVars
  <2> QED BY <2>1, <2>2, <2>3 DEF Inv, HostOK, HostStep
<1>2. CASE Host /\ phase # "done"
  <2>1. HostStep
    BY <1>2, HostSteps DEF Inv
  <2>2. ReaderInv'
    BY <1>2, <2>1, HostInvStep
  <2>3. phase' = phase
    BY <2>1 DEF HostStep, HostKeeps, readerVars
  <2>4. CeilingIsSnapshot'
    BY <1>2, <2>3, EmptyCeiling
  <2> QED BY <2>1, <2>2, <2>4 DEF Inv, HostOK, HostStep
<1>3. CASE Host /\ phase = "done"
  <2>1. ClockCatchesUp
    BY <1>3 DEF Host, Exit, Reap, Unshare, Migrate, Reuse, Replace, Write, Remount,
                DeadlinePasses, ClockBack, Happen
  <2> QED BY <1>1, <2>1 DEF ClockCatchesUp
<1>4. CASE Reader
  <2>1. HostFrame /\ Kept
    BY <1>4, FenceKeeps, ReadResourceKeeps, CheckTypesKeeps, CompareKeeps, DeriveKeeps DEF Reader
  <2>2. HostOK'
    BY <2>1, HostFrameOK DEF Inv
  <2> QED BY <2>1, <2>2 DEF Inv, Kept
<1>5. CASE UNCHANGED vars
  BY <1>1, <1>5 DEF vars
<1> QED BY <1>2, <1>3, <1>4, <1>5 DEF Next, Done

(* It holds always. *)
LEMMA SpecInv == Spec => []Inv
<1>1. Init => Inv
  BY InitInv
<1>2. Inv /\ [Next]_vars => Inv'
  BY NextInv
<1> QED BY <1>1, <1>2, PTL DEF Spec

(* A context that is published as bound is that of one process, which the pidfd, *)
(* the directory of procfs and the closing membership name alike, and which was  *)
(* running when the main reads began and when the membership was read last       *)
(* (run in Linux_Cgroup_Reader.py), whatever the host does in between.           *)
THEOREM ProcessTheorem == Spec => []BoundIsOneProcess
<1>1. Inv => BoundIsOneProcess
  BY DEF Inv, ReaderInv, BoundIsOneProcess, Bound, Finished, HasBound, EndInv
<1> QED BY <1>1, SpecInv, PTL

(* A ceiling that is published is that of the moment at which the main reads    *)
(* began, over all directories the process was accounted in at that moment, and *)
(* no finite limit is published only when there was none (_derive_metrics), as  *)
(* long as nothing was left and came back unseen.                               *)
THEOREM CeilingTheorem == Spec => []CeilingIsSnapshot
<1>1. Inv => CeilingIsSnapshot
  BY DEF Inv
<1> QED BY <1>1, SpecInv, PTL

-----------------------------------------------------------------------------
(* The result.  What is published depends on which reads succeeded and what   *)
(* they returned, whether or not anything came back unseen.  A file whose     *)
(* name was never written says the same in every read that reached it.        *)

(* The type and the CPU list of a directory are fresh until they are written. *)
FreshInv ==
  \A d \in Dirs : \A k \in {TypeKey, CpusetKey} :
    file[d][k] \in Content(k) /\ (Unwritten(k) => file[d][k] = Fresh(k))

(* A file that left a value was written. *)
LEMMA WrittenIs == \A d, i, k, v : FileFact(d, i, k, v) \in been => ~Unwritten(k)
<1> SUFFICES ASSUME NEW d, NEW i, NEW k, NEW v, FileFact(d, i, k, v) \in been
             PROVE  ~Unwritten(k)
  OBVIOUS
<1>1. Len(FileFact(d, i, k, v)) = 4 /\ FileFact(d, i, k, v)[3] = k
  BY DEF FileFact
<1> QED BY <1>1 DEF Unwritten

(* The two keys that are no limits, and what they hold. *)
LEMMA KeyKinds ==
  /\ TypeKey # CpusetKey /\ TypeKey \in AllKeys /\ CpusetKey \in AllKeys
  /\ LimitSet \subseteq AllKeys /\ TypeKey \notin LimitSet /\ CpusetKey \notin LimitSet
  /\ Content(TypeKey) = {"domain", "threaded", "unknown"} /\ Fresh(TypeKey) = "domain"
  /\ Content(CpusetKey) = {"cpus", "no cpus"} /\ Fresh(CpusetKey) = "cpus"
<1>1. TypeKey # CpusetKey
  BY DEF TypeKey, CpusetKey
<1> QED BY <1>1, ReaderAssumption DEF AllKeys, LimitSet, Content, Fresh

(* What a quiet host shows. *)
CalmHost ==
  /\ holder = 1 /\ life[1] = "running" /\ ns[1] /\ \A d \in Dirs : ino[d] = 0
  /\ mount = 0 /\ clock = "steady" /\ ~late /\ been = {}
CalmBound(g) ==
  /\ g.mount = 0 /\ g.pidfd = 1 /\ g.dir = 1 /\ g.ticks = 1
  /\ home[1].dir = g.path /\ home[1].ino = 0
  /\ \A i \in 1..Len(g.inos) : g.inos[i] = 0

(* The collection could be made, and its levels are within the bound. *)
Possible == <<"ABI", "UNSUPPORTED_ABI">> \notin res.issues /\ Len(Levels) <= MaxLevels

(* As long as nothing happened, nothing went wrong. *)
CalmInv ==
  /\ events \in Nat
  /\ events = 0 => CalmHost /\ CalmBound(got) /\ (Possible => res.issues = {})

(* Nothing but the host's clock, or something happened. *)
HostMore ==
  /\ FreshInv' /\ (late => late')
  /\ events' \in Nat /\ (events' = 0 => events = 0 /\ clock = "behind")

LEMMA FilesStay ==
  ASSUME FreshInv, UNCHANGED file, been \subseteq been'
  PROVE  FreshInv'
<1>1. \A k : Unwritten(k)' => Unwritten(k)
  BY DEF Unwritten
<1>2. \A k \in {TypeKey, CpusetKey} : Content(k)' = Content(k) /\ Fresh(k)' = Fresh(k)
  BY DEF Content, Fresh
<1> QED BY <1>1, <1>2 DEF FreshInv

LEMMA HostMores == ASSUME HostOK, FreshInv, events \in Nat, Host PROVE HostMore
<1>0. \A k \in {TypeKey, CpusetKey} :
        Content(k)' = Content(k) /\ Fresh(k)' = Fresh(k) /\ Fresh(k) \in Content(k)
  BY DEF Content, Fresh, TypeKey, CpusetKey
<1>1. ASSUME NEW kind, Happen(kind) PROVE events' \in Nat /\ events' # 0
  BY <1>1 DEF Happen
<1>2. \/ events' \in Nat /\ events' # 0
      \/ events' = events /\ clock = "behind"
  BY <1>1 DEF Host, Exit, Reap, Unshare, Migrate, Reuse, Replace, Write, Remount,
              DeadlinePasses, ClockBack, ClockCatchesUp, hostVars
<1>3. late => late'
  BY DEF Host, Exit, Reap, Unshare, Migrate, Reuse, Replace, Write, Remount,
              DeadlinePasses, ClockBack, ClockCatchesUp, hostVars
<1>4. ASSUME NEW d \in Dirs, NEW k \in AllKeys, NEW v \in Content(k), Write(d, k, v)
      PROVE  FreshInv'
  <2> DEFINE row == [file[d] EXCEPT ![k] = v]
  <2>1. file' = [file EXCEPT ![d] = row] /\ been' = been \union {FileFact(d, ino[d], k, file[d][k])}
    BY <1>4 DEF Write, Remember, FileFact
  <2>2. row[k] = v /\ \A l \in AllKeys : l # k => row[l] = file[d][l]
    BY DEF HostOK, HostInv
  <2> HIDE DEF row
  <2>3. ~(Unwritten(k))'
    <3> DEFINE fact == FileFact(d, ino[d], k, file[d][k])
    <3>1. Len(fact) = 4 /\ fact[3] = k
      BY DEF FileFact
    <3> HIDE DEF fact
    <3>2. fact \in been'
      BY <2>1 DEF fact
    <3> QED BY <3>1, <3>2 DEF Unwritten
  <2>4. \A l : Unwritten(l)' => Unwritten(l)
    BY <2>1 DEF Unwritten
  <2>5. ASSUME NEW e \in Dirs, NEW l \in {TypeKey, CpusetKey}
        PROVE  file'[e][l] \in Content(l)' /\ (Unwritten(l)' => file'[e][l] = Fresh(l)')
    <3>1. file[e][l] \in Content(l) /\ (Unwritten(l) => file[e][l] = Fresh(l)) /\ l \in AllKeys
      BY KeyKinds DEF FreshInv
    <3>2. file'[e] = IF e = d THEN row ELSE file[e]
      BY <2>1 DEF HostOK, HostInv
    <3> QED BY <1>0, <2>2, <2>3, <2>4, <3>1, <3>2
  <2> QED BY <2>5 DEF FreshInv
<1>5. ASSUME NEW d \in Homes, Replace(d) PROVE FreshInv'
  <2> DEFINE row == [k \in AllKeys |-> Fresh(k)]
  <2>1. file' = [file EXCEPT ![d] = row] /\ been' = been
    BY <1>5 DEF Replace
  <2>2. \A k \in {TypeKey, CpusetKey} : row[k] = Fresh(k)
    BY KeyKinds
  <2> HIDE DEF row
  <2>3. \A l : Unwritten(l)' => Unwritten(l)
    BY <2>1 DEF Unwritten
  <2>5. ASSUME NEW e \in Dirs, NEW l \in {TypeKey, CpusetKey}
        PROVE  file'[e][l] \in Content(l)' /\ (Unwritten(l)' => file'[e][l] = Fresh(l)')
    <3>1. file[e][l] \in Content(l) /\ (Unwritten(l) => file[e][l] = Fresh(l))
      BY DEF FreshInv
    <3>2. file'[e] = IF e = d THEN row ELSE file[e]
      BY <2>1 DEF HostOK, HostInv
    <3> QED BY <1>0, <2>2, <2>3, <3>1, <3>2
  <2> QED BY <2>5 DEF FreshInv
<1>6. ASSUME \/ \E p \in Processes : Exit(p) \/ Reap(p) \/ Unshare(p)
             \/ \E p \in Processes, d \in Homes : Migrate(p, d)
             \/ \E d \in Homes : Reuse(d)
             \/ Remount \/ DeadlinePasses \/ ClockBack \/ ClockCatchesUp
      PROVE  FreshInv'
  <2>1. UNCHANGED file /\ been \subseteq been'
    BY <1>6 DEF Exit, Reap, Unshare, Migrate, Reuse, Remount, DeadlinePasses, ClockBack,
                ClockCatchesUp, Remember, hostVars
  <2> QED BY <2>1, FilesStay
<1> QED BY <1>2, <1>3, <1>4, <1>5, <1>6 DEF Host, HostMore
-----------------------------------------------------------------------------
(* What becomes of a result while nothing is published: issues are added, a     *)
(* deadline only when it has passed, and without an issue nothing has changed.  *)
Deadline == <<"BUDGET", "DEADLINE_REACHED">>

Follows(r, q) ==
  /\ ResOK(q) /\ q.metric = r.metric /\ q.ctx \in {r.ctx, "CONTEXT_UNBOUND"}
  /\ r.issues \subseteq q.issues /\ (q.issues = {} => q = r)
  /\ Deadline \in q.issues => Deadline \in r.issues \/ late

LEMMA FollowsOn ==
  ASSUME NEW r, NEW q, NEW t, Follows(r, q), Follows(q, t)
  PROVE  Follows(r, t)
  BY DEF Follows

LEMMA IssueFollows ==
  ASSUME NEW r, ResOK(r)
  PROVE  /\ Follows(r, r) /\ Follows(r, ClockChecked(r))
         /\ clock = "steady" => ClockChecked(r) = r
         /\ Deadline \in ClockChecked(r).issues => Deadline \in r.issues
         /\ \A scope, code : <<scope, code>> # Deadline \/ late =>
              /\ Follows(r, Issue(r, scope, code)) /\ Issue(r, scope, code).issues # {}
              /\ Follows(r, Failed(r, scope, code)) /\ Failed(r, scope, code).issues # {}
              /\ Failed(r, scope, code).sel = r.sel /\ Issue(r, scope, code).sel = r.sel
<1>1. ASSUME NEW scope, NEW code, <<scope, code>> # Deadline \/ late
      PROVE  /\ Follows(r, Issue(r, scope, code)) /\ Issue(r, scope, code).issues # {}
             /\ Follows(r, Failed(r, scope, code)) /\ Failed(r, scope, code).issues # {}
             /\ Failed(r, scope, code).sel = r.sel /\ Issue(r, scope, code).sel = r.sel
  <2> DEFINE i == Issue(r, scope, code)
             f == Failed(r, scope, code)
  <2>1. i = [sel |-> r.sel, ctx |-> r.ctx, issues |-> r.issues \union {<<scope, code>>},
             metric |-> r.metric]
    BY DEF Issue, ResOK
  <2> HIDE DEF i
  <2>2. f = [i EXCEPT !.ctx = IF scope \in {"CONTEXT", "ABI", "SELECTION"} THEN "CONTEXT_UNBOUND"
                              ELSE i.ctx]
    BY DEF Failed, i
  <2> HIDE DEF f
  <2>3. /\ ResOK(i) /\ i.metric = r.metric /\ i.ctx = r.ctx /\ i.sel = r.sel
        /\ i.issues = r.issues \union {<<scope, code>>}
    BY <2>1 DEF ResOK
  <2>4. /\ ResOK(f) /\ f.metric = i.metric /\ f.ctx \in {i.ctx, "CONTEXT_UNBOUND"}
        /\ f.issues = i.issues /\ f.sel = i.sel
    BY <2>2, <2>3 DEF ResOK
  <2>5. Follows(r, i) /\ i.issues # {}
    BY <1>1, <2>3 DEF Follows
  <2>6. Follows(r, f) /\ f.issues # {}
    BY <1>1, <2>3, <2>4 DEF Follows
  <2> QED BY <2>3, <2>4, <2>5, <2>6 DEF i, f
<1>2. Follows(r, r)
  BY DEF Follows
<1>3. Follows(r, ClockChecked(r)) /\ (clock = "steady" => ClockChecked(r) = r)
  <2>1. <<"CONTEXT", "CLOCK_CHANGED">> # Deadline
    BY DEF Deadline
  <2> QED BY <1>1, <1>2, <2>1 DEF ClockChecked
<1>4. Deadline \in ClockChecked(r).issues => Deadline \in r.issues
  <2> DEFINE i == Issue(r, "CONTEXT", "CLOCK_CHANGED")
  <2>1. i = [sel |-> r.sel, ctx |-> r.ctx,
             issues |-> r.issues \union {<<"CONTEXT", "CLOCK_CHANGED">>}, metric |-> r.metric]
    BY DEF Issue, ResOK
  <2> HIDE DEF i
  <2>2. Failed(r, "CONTEXT", "CLOCK_CHANGED").issues = i.issues
    <3>1. Failed(r, "CONTEXT", "CLOCK_CHANGED") = [i EXCEPT !.ctx = "CONTEXT_UNBOUND"]
      BY DEF Failed, i
    <3> QED BY <2>1, <3>1
  <2> QED BY <2>1, <2>2 DEF ClockChecked, Deadline
<1> QED BY <1>1, <1>2, <1>3, <1>4

(* A fence that fails. *)
Lost ==
  /\ phase' = IF phase = "close" THEN "derive" ELSE "done"
  /\ Follows(res, res') /\ res'.issues # {} /\ res'.ctx # "BOUND" /\ UNCHANGED got

LEMMA AbandonLoses ==
  ASSUME ResOK(res), NEW r, Follows(res, r), NEW scope, NEW code, NEW selection,
         scope \in {"CONTEXT", "SELECTION"} \/ (r.ctx # "BOUND" /\ code # "DEADLINE_REACHED"),
         Abandon(r, scope, code, selection)
  PROVE  Lost
<1> DEFINE failed == Failed(r, scope, code)
<1>1. /\ ResOK(r) /\ <<scope, code>> # Deadline
      /\ r.metric = res.metric
  BY DEF Deadline, Follows
<1>2. Follows(r, failed) /\ failed.issues # {} /\ failed.ctx # "BOUND"
  BY <1>1, IssueFollows, Results
<1>3. res' = failed \/ res' = [failed EXCEPT !.sel = selection]
  BY DEF Abandon
<1> HIDE DEF failed
<1>4. Follows(res, failed)
  BY <1>2, FollowsOn
<1>5. Follows(res, res') /\ res'.issues # {} /\ res'.ctx # "BOUND"
  <2>1. CASE res' = failed
    BY <2>1, <1>2, <1>4
  <2>2. CASE res' = [failed EXCEPT !.sel = selection]
    <3>1. /\ ResOK(res') /\ res'.metric = failed.metric /\ res'.ctx = failed.ctx
          /\ res'.issues = failed.issues
      BY <2>2, <1>4 DEF Follows, ResOK
    <3> QED BY <3>1, <1>2, <1>4 DEF Follows
  <2> QED BY <1>3, <2>1, <2>2
<1> QED BY <1>5 DEF Abandon, Lost

(* One that goes on. *)
Goes(s, bound) ==
  /\ phase' = phase /\ step' = AfterStep(phase, s)
  /\ got' = IF phase = "open" THEN bound ELSE got
  /\ Follows(res, res') /\ (clock = "steady" => res' = res)
  /\ Deadline \in res'.issues => Deadline \in res.issues
  /\ s = "mountinfo" => ~late

(* Of the host a step of a fence sees the clock go on. *)
FenceSees == UNCHANGED <<hostVars, seen, changed, atMain>> /\ clock' \in {clock, "steady"}

LEMMA CheckGoes ==
  ASSUME ResOK(res), NEW s, s # "mountinfo", NEW ok, NEW code, NEW bound, Check(s, ok, code, bound)
  PROVE  /\ phase \in {"open", "close"} /\ step = s /\ FenceSees
         /\ (ok /\ Goes(s, bound)) \/ (~ok /\ Lost)
<1>0. phase \in {"open", "close"} /\ step = s /\ FenceSees
  BY DEF Check, At, FenceFrame, FenceSees
<1>1. CASE ok
  <2>1. Pass(res, bound)
    BY <1>1 DEF Check
  <2>2. Follows(res, res)
    BY IssueFollows
  <2>3. Goes(s, bound)
    BY <1>0, <2>1, <2>2 DEF Pass, Goes
  <2> QED BY <1>0, <1>1, <2>3
<1>2. CASE ~ok
  <2>1. Abandon(res, "CONTEXT", code, NoValue)
    BY <1>2 DEF Check
  <2>2. Follows(res, res)
    BY IssueFollows
  <2>3. Lost
    BY <2>1, <2>2, AbandonLoses
  <2> QED BY <1>0, <1>2, <2>3
<1> QED BY <1>1, <1>2

LEMMA ProcReadGoes ==
  ASSUME ResOK(res), NEW s, NEW readable, NEW missing, NEW ok, NEW scope, NEW code, NEW selection,
         NEW bound, scope \in {"CONTEXT", "SELECTION"},
         ProcRead(s, readable, missing, ok, scope, code, selection, bound)
  PROVE  /\ phase \in {"open", "close"} /\ step = s /\ FenceSees
         /\ \/ ~late /\ readable /\ ok /\ Goes(s, bound)
            \/ (late \/ ~readable \/ ~ok) /\ Lost
<1> DEFINE r == ClockChecked(res)
<1>0. phase \in {"open", "close"} /\ step = s /\ FenceSees
  BY DEF ProcRead, At, FenceFrame, FenceSees
<1>1. Follows(res, r) /\ ResOK(r) /\ (clock = "steady" => r = res)
  BY IssueFollows, Results
<1>2. /\ <<"CONTEXT", "CONTEXT_UNBOUND">> # Deadline
      /\ Deadline = <<"BUDGET", "DEADLINE_REACHED">>
  BY DEF Deadline
<1> HIDE DEF r
<1>3. CASE late
  <2>1. Abandon(Issue(r, "BUDGET", "DEADLINE_REACHED"), "CONTEXT", missing, NoValue)
    BY <1>3 DEF ProcRead, r
  <2>2. Follows(res, Issue(r, "BUDGET", "DEADLINE_REACHED"))
    BY <1>1, <1>3, IssueFollows, FollowsOn
  <2>3. Lost
    BY <2>1, <2>2, AbandonLoses
  <2> QED BY <1>0, <1>3, <2>3
<1>4. CASE ~late /\ ~readable
  <2>1. Abandon(Issue(r, "CONTEXT", "CONTEXT_UNBOUND"), "CONTEXT", missing, NoValue)
    BY <1>4 DEF ProcRead, r
  <2>2. Follows(res, Issue(r, "CONTEXT", "CONTEXT_UNBOUND"))
    BY <1>1, <1>2, IssueFollows, FollowsOn
  <2>3. Lost
    BY <2>1, <2>2, AbandonLoses
  <2> QED BY <1>0, <1>4, <2>3
<1>5. CASE ~late /\ readable /\ ~ok
  <2>1. Abandon(r, scope, code, selection)
    BY <1>5 DEF ProcRead, r
  <2>2. Lost
    BY <2>1, <1>1, AbandonLoses
  <2> QED BY <1>0, <1>5, <2>2
<1>6. CASE ~late /\ readable /\ ok
  <2>1. Pass(r, bound)
    BY <1>6 DEF ProcRead, r
  <2>2. Deadline \in r.issues => Deadline \in res.issues
    BY IssueFollows DEF r
  <2>3. Goes(s, bound)
    BY <1>0, <1>1, <1>6, <2>1, <2>2 DEF Pass, Goes
  <2> QED BY <1>0, <1>6, <2>3
<1> QED BY <1>3, <1>4, <1>5, <1>6
-----------------------------------------------------------------------------
(* What a step of a fence does to the run: it fails, goes on, opens or closes, or *)
(* there is no collection.                                                        *)
Carried ==
  /\ phase' = phase /\ Follows(res, res')
  /\ Deadline \in res'.issues => Deadline \in res.issues
  /\ phase = "close" => got' = got /\ step' # "mountinfo" /\ (step = "mountinfo" => ~late)
Opened ==
  /\ phase = "open" /\ phase' = "read" /\ step' # "main"
  /\ res' = [res EXCEPT !.sel = "SELECTED", !.ctx = "BOUND"]
Closed == phase = "close" /\ step = "walk" /\ phase' = "derive" /\ res' = res /\ UNCHANGED got

Refused ==
  /\ phase = "open" /\ phase' = "done" /\ res'.issues = {<<"ABI", "UNSUPPORTED_ABI">>}
  /\ res'.ctx # "BOUND" /\ Empty(res'.metric) /\ UNCHANGED got

(* And to a quiet one. *)
CalmGoes ==
  events' = 0 /\ events = 0 /\ CalmHost /\ CalmBound(got) =>
    /\ CalmHost' /\ CalmBound(got)'
    /\ Possible' => Possible /\ res'.issues = res.issues

FenceResult ==
  /\ phase \in {"open", "close"} /\ (Lost \/ Carried \/ Opened \/ Closed \/ Refused) /\ CalmGoes
  /\ UNCHANGED <<holder, life, home, ns, ino, file, mount, late, been, aba, seen, changed, atMain>>
  /\ events' \in Nat /\ (events' = 0 => events = 0) /\ clock' \in {clock, "steady"}

(* A quiet host stays quiet while a fence reads it. *)
LEMMA CalmHostStays == ASSUME CalmHost, FenceSees PROVE CalmHost'
  BY DEF CalmHost, FenceSees, hostVars

(* A step whose check holds on a quiet host. *)
LEMMA StageResult ==
  ASSUME events \in Nat, phase \in {"open", "close"}, FenceSees, NEW s, step = s, NEW ok, NEW bound,
         (ok /\ Goes(s, bound)) \/ (~ok /\ Lost),
         phase = "close" => AfterStep("close", s) # "mountinfo",
         CalmHost /\ CalmBound(got) => ok /\ CalmBound(bound)
  PROVE  FenceResult
<1>1. Lost \/ Carried
  BY DEF Goes, Carried
<1>2. CalmGoes
  <2> SUFFICES ASSUME events' = 0, events = 0, CalmHost, CalmBound(got)
               PROVE  /\ CalmHost' /\ CalmBound(got)'
                      /\ Possible' => Possible /\ res'.issues = res.issues
    BY DEF CalmGoes
  <2>1. CalmHost' /\ res' = res /\ home' = home
    BY CalmHostStays DEF Goes, CalmHost, FenceSees, hostVars
  <2>2. CASE got' = bound
    <3>1. CalmBound(bound) /\ got'.path = got.path
      BY <2>2 DEF CalmBound
    <3>2. CalmBound(got)'
      BY <2>1, <2>2, <3>1 DEF CalmBound
    <3>3. Possible' => Possible
      BY <2>1, <3>1 DEF Possible, Levels
    <3> QED BY <2>1, <3>2, <3>3
  <2>3. CASE got' = got
    BY <2>1, <2>3 DEF CalmBound, Possible, Levels
  <2> QED BY <2>2, <2>3 DEF Goes
<1> QED BY <1>1, <1>2 DEF FenceResult, FenceSees, hostVars

LEMMA ReadMountinfoResult == ASSUME Inv, events \in Nat, ReadMountinfo PROVE FenceResult
<1> DEFINE bound == [got EXCEPT !.mount = mount]
           yes == TRUE
           same == Opening \/ mount = got.mount
           ok == ~late /\ yes /\ same
<1>1. /\ phase \in {"open", "close"} /\ step = "mountinfo" /\ FenceSees
      /\ (ok /\ Goes("mountinfo", bound)) \/ (~ok /\ Lost)
  <2>1. ResOK(res)
    BY DEF Inv, ReaderInv
  <2>2. ProcRead("mountinfo", yes, "CONTEXT_UNBOUND", same, "CONTEXT", "MOUNT_CHANGED",
                 NoValue, bound)
    BY DEF ReadMountinfo
  <2> HIDE DEF bound, yes, same
  <2> QED BY <2>1, <2>2, ProcReadGoes
<1>2. CalmHost /\ CalmBound(got) => ok /\ CalmBound(bound)
  BY DEF CalmHost, CalmBound, Inv, ReaderInv, GotInv
<1>3. AfterStep("close", "mountinfo") # "mountinfo"
  BY CloseOrder
<1> HIDE DEF bound, ok
<1> QED BY <1>1, <1>2, <1>3, StageResult

LEMMA OpenPidfdResult == ASSUME Inv, events \in Nat, OpenPidfd PROVE FenceResult
<1> DEFINE bound == [got EXCEPT !.pidfd = holder]
           ok == holder # Nobody
<1>1. /\ phase \in {"open", "close"} /\ step = "pidfd" /\ FenceSees
      /\ (ok /\ Goes("pidfd", bound)) \/ (~ok /\ Lost)
  <2>1. ResOK(res)
    BY DEF Inv, ReaderInv
  <2>2. Check("pidfd", ok, "CONTEXT_UNBOUND", bound)
    BY DEF OpenPidfd
  <2> HIDE DEF bound, ok
  <2> QED BY <2>1, <2>2, CheckGoes
<1>2. CalmHost /\ CalmBound(got) => ok /\ CalmBound(bound)
  BY DEF CalmHost, CalmBound, Inv, ReaderInv, GotInv, Nobody
<1>3. phase # "close"
  BY <1>1 DEF Inv, ReaderInv, CloseInv
<1> HIDE DEF bound, ok
<1> QED BY <1>1, <1>2, <1>3, StageResult

LEMMA PidfdAliveResult == ASSUME Inv, events \in Nat, PidfdAlive PROVE FenceResult
<1> DEFINE ok == life[got.pidfd] = "running"
<1>1. /\ phase \in {"open", "close"} /\ step = "alive" /\ FenceSees
      /\ (ok /\ Goes("alive", got)) \/ (~ok /\ Lost)
  <2>1. ResOK(res)
    BY DEF Inv, ReaderInv
  <2>2. Check("alive", ok, "PID_EXITED", got)
    BY DEF PidfdAlive
  <2> HIDE DEF ok
  <2> QED BY <2>1, <2>2, CheckGoes
<1>2. CalmHost /\ CalmBound(got) => ok
  BY DEF CalmHost, CalmBound
<1>3. AfterStep("close", "alive") # "mountinfo"
  BY CloseOrder
<1> HIDE DEF ok
<1> QED BY <1>1, <1>2, <1>3, StageResult

LEMMA OpenTargetResult == ASSUME Inv, events \in Nat, OpenTarget PROVE FenceResult
<1> DEFINE bound == [got EXCEPT !.dir = holder]
           ok == holder # Nobody /\ (Opening \/ holder = got.dir)
           code == IF holder = Nobody THEN "CONTEXT_UNBOUND" ELSE "DIRECTORY_CHANGED"
<1>1. /\ phase \in {"open", "close"} /\ step = "target" /\ FenceSees
      /\ (ok /\ Goes("target", bound)) \/ (~ok /\ Lost)
  <2>1. ResOK(res)
    BY DEF Inv, ReaderInv
  <2>2. Check("target", ok, code, bound)
    BY DEF OpenTarget
  <2> HIDE DEF bound, ok, code
  <2> QED BY <2>1, <2>2, CheckGoes
<1>2. CalmHost /\ CalmBound(got) => ok /\ CalmBound(bound)
  BY DEF CalmHost, CalmBound, Inv, ReaderInv, GotInv, Nobody
<1>3. AfterStep("close", "target") # "mountinfo"
  BY CloseOrder
<1> HIDE DEF bound, ok
<1> QED BY <1>1, <1>2, <1>3, StageResult

LEMMA ReadStatResult == ASSUME Inv, events \in Nat, ReadStat PROVE FenceResult
<1> DEFINE bound == [got EXCEPT !.ticks = got.dir]
           there == Readable(got.dir)
           same == Opening \/ got.dir = got.ticks
           ok == ~late /\ there /\ same
<1>1. /\ phase \in {"open", "close"} /\ step = "stat" /\ FenceSees
      /\ (ok /\ Goes("stat", bound)) \/ (~ok /\ Lost)
  <2>1. ResOK(res)
    BY DEF Inv, ReaderInv
  <2>2. ProcRead("stat", there, "PIDFD_PROCFS_MISMATCH", same, "CONTEXT", "STARTTIME_CHANGED",
                 NoValue, bound)
    BY DEF ReadStat
  <2> HIDE DEF bound, there, same
  <2> QED BY <2>1, <2>2, ProcReadGoes
<1>2. CalmHost /\ CalmBound(got) => ok /\ CalmBound(bound)
  BY DEF CalmHost, CalmBound, Inv, ReaderInv, GotInv, Readable
<1>3. AfterStep("close", "stat") # "mountinfo"
  BY CloseOrder
<1> HIDE DEF bound, ok
<1> QED BY <1>1, <1>2, <1>3, StageResult

LEMMA ReadFdinfoResult == ASSUME Inv, events \in Nat, ReadFdinfo PROVE FenceResult
<1> DEFINE yes == TRUE
           there == Readable(got.pidfd)
           ok == ~late /\ yes /\ there
<1>1. /\ phase \in {"open", "close"} /\ step = "fdinfo" /\ FenceSees
      /\ (ok /\ Goes("fdinfo", got)) \/ (~ok /\ Lost)
  <2>1. ResOK(res)
    BY DEF Inv, ReaderInv
  <2>2. ProcRead("fdinfo", yes, "PIDFD_PROCFS_MISMATCH", there, "CONTEXT",
                 "PIDFD_PROCFS_MISMATCH", NoValue, got)
    BY DEF ReadFdinfo
  <2> HIDE DEF yes, there
  <2> QED BY <2>1, <2>2, ProcReadGoes
<1>2. CalmHost /\ CalmBound(got) => ok
  BY DEF CalmHost, CalmBound, Readable
<1>3. AfterStep("close", "fdinfo") # "mountinfo"
  BY CloseOrder
<1> HIDE DEF ok
<1> QED BY <1>1, <1>2, <1>3, StageResult

LEMMA ReadMembershipResult == ASSUME Inv, events \in Nat, ReadMembership PROVE FenceResult
<1> DEFINE h == home[got.dir]
           deleted == h.ino # ino[h.dir]
           same == ~deleted /\ (Opening \/ h.dir = got.path)
           there == Readable(got.dir)
           scope == IF deleted THEN "SELECTION" ELSE "CONTEXT"
           code == IF deleted THEN "DELETED_RECORD" ELSE "MEMBERSHIP_CHANGED"
           sel == IF deleted THEN "MISSING_MEMBERSHIP" ELSE NoValue
           bound == [got EXCEPT !.path = h.dir]
           ok == ~late /\ there /\ same
<1>1. /\ phase \in {"open", "close"} /\ step = "membership" /\ FenceSees
      /\ (ok /\ Goes("membership", bound)) \/ (~ok /\ Lost)
  <2>1. ResOK(res) /\ scope \in {"CONTEXT", "SELECTION"}
    BY DEF Inv, ReaderInv
  <2>2. ProcRead("membership", there, "CONTEXT_UNBOUND", same, scope, code, sel, bound)
    BY DEF ReadMembership
  <2> HIDE DEF bound, there, same, scope, code, sel
  <2> QED BY <2>1, <2>2, ProcReadGoes
<1>2. ASSUME CalmHost, CalmBound(got) PROVE ok /\ CalmBound(bound)
  <2>1. h.dir = got.path /\ h.ino = 0 /\ got.path \in Dirs /\ life[got.dir] = "running"
    BY <1>2 DEF CalmHost, CalmBound, Inv, ReaderInv, GotInv
  <2>2. ok
    BY <1>2, <2>1 DEF CalmHost, Readable
  <2>3. bound = got
    BY <2>1 DEF Inv, ReaderInv, GotInv
  <2> QED BY <1>2, <2>2, <2>3
<1>3. AfterStep("close", "membership") # "mountinfo"
  BY CloseOrder
<1> HIDE DEF bound, ok
<1> QED BY <1>1, <1>2, <1>3, StageResult

LEMMA ReadNamespacesResult == ASSUME Inv, events \in Nat, ReadNamespaces PROVE FenceResult
<1>0. PICK there \in BOOLEAN :
        /\ ~there => life[got.dir] # "running"
        /\ Check("namespaces", there /\ ns[got.dir],
                 IF there THEN "NAMESPACE_MISMATCH" ELSE "CONTEXT_UNBOUND", got)
  BY DEF ReadNamespaces
<1> DEFINE ok == there /\ ns[got.dir]
           code == IF there THEN "NAMESPACE_MISMATCH" ELSE "CONTEXT_UNBOUND"
<1>1. /\ phase \in {"open", "close"} /\ step = "namespaces" /\ FenceSees
      /\ (ok /\ Goes("namespaces", got)) \/ (~ok /\ Lost)
  <2>1. ResOK(res)
    BY DEF Inv, ReaderInv
  <2>2. Check("namespaces", ok, code, got)
    BY <1>0
  <2> HIDE DEF ok, code
  <2> QED BY <2>1, <2>2, CheckGoes
<1>2. ASSUME CalmHost, CalmBound(got) PROVE ok
  <2>1. life[got.dir] = "running" /\ ns[got.dir]
    BY <1>2, Zenon DEF CalmHost, CalmBound
  <2> QED BY <1>0, <2>1, Zenon
<1>3. AfterStep("close", "namespaces") # "mountinfo"
  BY CloseOrder
<1> HIDE DEF ok
<1> QED BY <1>1, <1>2, <1>3, StageResult


LEMMA OpenMountResult == ASSUME Inv, events \in Nat, OpenMount PROVE FenceResult
<1> DEFINE bound == [got EXCEPT !.inos = <<>>]
           deep == Opening /\ Len(Chain[got.path]) > MaxLevels
           ok == mount = got.mount
<1>1. phase \in {"open", "close"} /\ step = "mount" /\ FenceSees /\ ResOK(res) /\ Follows(res, res)
  BY IssueFollows DEF OpenMount, At, FenceFrame, FenceSees, Inv, ReaderInv
<1>2. ~ok => Lost
  <2> SUFFICES ASSUME ~ok PROVE Lost
    OBVIOUS
  <2>1. Abandon(res, "CONTEXT", "MOUNT_CHANGED", NoValue)
    BY DEF OpenMount
  <2> QED BY <1>1, <2>1, AbandonLoses
<1>3. CASE ok /\ deep
  <2>1. Abandon(res, "BUDGET", "LIMIT_REACHED", NoValue) /\ res.ctx # "BOUND"
    BY <1>3 DEF OpenMount, Opening, Inv, ReaderInv, OpenInv
  <2>2. Lost
    BY <1>1, <2>1, AbandonLoses
  <2>3. ~Possible'
    <3>1. Len(Levels) \in Nat /\ MaxLevels \in Nat
      BY LastLevel, ReaderAssumption DEF Inv, ReaderInv
    <3>2. Levels' = Levels /\ Len(Levels) > MaxLevels
      BY <1>3, <2>2 DEF Lost, Levels
    <3> QED BY <3>1, <3>2 DEF Possible
  <2>4. CalmHost => CalmHost'
    BY <1>1, CalmHostStays
  <2>5. CalmBound(got) => CalmBound(got)'
    BY <1>1, <2>2 DEF CalmBound, Lost, FenceSees, hostVars
  <2> QED BY <1>1, <2>2, <2>3, <2>4, <2>5 DEF FenceResult, CalmGoes, FenceSees, hostVars
<1>4. CASE ~(ok /\ deep)
  <2>1. ok => Goes("mount", bound)
    BY <1>1, <1>4 DEF OpenMount, Pass, Goes
  <2>2. CalmHost /\ CalmBound(got) => ok /\ CalmBound(bound)
    BY DEF CalmHost, CalmBound, Inv, ReaderInv, GotInv
  <2>3. AfterStep("close", "mount") # "mountinfo"
    BY CloseOrder
  <2> HIDE DEF bound, ok
  <2> QED BY <1>1, <1>2, <2>1, <2>2, <2>3, StageResult
<1> QED BY <1>3, <1>4

LEMMA WalkLevelResult == ASSUME Inv, events \in Nat, WalkLevel PROVE FenceResult
<1> DEFINE last == level = Len(Levels)
<1>1. phase \in {"open", "close"} /\ step = "walk" /\ FenceSees /\ ResOK(res) /\ Follows(res, res)
  BY IssueFollows DEF WalkLevel, At, FenceFrame, FenceSees, Inv, ReaderInv
<1>2. CalmHost => CalmHost'
  BY <1>1, CalmHostStays
<1>3. Len(Levels) \in Nat /\ level \in 1..Len(Levels) /\ got.inos \in Seq(Nat) /\ Levels \in Seq(Dirs)
  BY <1>1, LastLevel, ReaderAssumption DEF Inv, ReaderInv, OpenInv, CloseInv, GotInv, Levels
<1>4. CASE phase = "open"
  <2> DEFINE q == Append(got.inos, ino[Levels[level]])
  <2>1. /\ got' = [got EXCEPT !.inos = q] /\ UNCHANGED step
        /\ res' = IF last THEN [res EXCEPT !.sel = "SELECTED", !.ctx = "BOUND"] ELSE res
        /\ phase' = IF last THEN "read" ELSE phase
    BY <1>4 DEF WalkLevel, Opening
  <2>2. CalmHost /\ CalmBound(got) => \A i \in 1..Len(q) : q[i] = 0
    BY <1>3 DEF CalmHost, CalmBound
  <2> HIDE DEF q
  <2>3. /\ got'.inos = q /\ got'.mount = got.mount /\ got'.pidfd = got.pidfd /\ got'.dir = got.dir
        /\ got'.ticks = got.ticks /\ got'.path = got.path
    BY <2>1 DEF Inv, ReaderInv, GotInv
  <2>4. CalmHost /\ CalmBound(got) => CalmBound(got)'
    BY <1>1, <2>2, <2>3 DEF CalmBound, FenceSees, hostVars
  <2>5. res'.issues = res.issues /\ Levels' = Levels
    BY <1>1, <2>1, <2>3 DEF ResOK, Levels
  <2>6. CalmGoes
    BY <1>2, <2>4, <2>5 DEF CalmGoes, Possible
  <2>7. Carried \/ Opened
    BY <1>1, <1>4, <2>1 DEF Carried, Opened
  <2> QED BY <1>1, <2>6, <2>7 DEF FenceResult, FenceSees, hostVars
<1>5. CASE phase = "close"
  <2>1. CASE ~SameDirectory(level)
    <3>1. Abandon(res, "CONTEXT", "DIRECTORY_CHANGED", NoValue)
      BY <1>5, <2>1 DEF WalkLevel, Opening
    <3>2. Lost
      BY <1>1, <3>1, AbandonLoses
    <3>3. ~(CalmHost /\ CalmBound(got))
      BY <1>3, <1>5, <2>1
      DEF CalmHost, CalmBound, SameDirectory, Inv, ReaderInv, BoundInv
    <3> QED BY <1>1, <3>2, <3>3 DEF FenceResult, CalmGoes, FenceSees, hostVars
  <2>2. CASE SameDirectory(level)
    <3>1. UNCHANGED <<step, got, res>> /\ phase' = IF last THEN "derive" ELSE phase
      BY <1>5, <2>2 DEF WalkLevel, Opening
    <3>2. Carried \/ Closed
      BY <1>1, <1>5, <3>1 DEF Carried, Closed
    <3>3. CalmGoes
      BY <1>1, <1>2, <3>1 DEF CalmGoes, CalmBound, Possible, Levels, FenceSees, hostVars
    <3> QED BY <1>1, <3>2, <3>3 DEF FenceResult, FenceSees, hostVars
  <2> QED BY <2>1, <2>2
<1> QED BY <1>1, <1>4, <1>5

(* A step of a fence. *)
LEMMA FenceResults == ASSUME Inv, events \in Nat, Fence PROVE FenceResult
<1>1. ASSUME FenceFault PROVE FenceResult
  <2>1. /\ phase \in {"open", "close"} /\ events' = events + 1
        /\ Abandon(res, "CONTEXT", "READ_ERROR", NoValue)
        /\ UNCHANGED <<holder, life, home, ns, ino, file, mount, clock, late, been, aba, seen,
                       changed, atMain>>
    BY <1>1 DEF FenceFault, Fault
  <2>2. Lost
    BY <2>1, IssueFollows, AbandonLoses DEF Inv, ReaderInv
  <2>3. events' \in Nat /\ events' # 0
    BY <2>1
  <2> QED BY <2>1, <2>2, <2>3 DEF FenceResult, CalmGoes
<1>2. ASSUME NoBackend PROVE FenceResult
  <2>1. /\ phase = "open" /\ phase' = "done" /\ res' = Issue(EmptyResult, "ABI", "UNSUPPORTED_ABI")
        /\ FenceSees /\ UNCHANGED got
    BY <1>2 DEF NoBackend, Opening, FenceFrame, FenceSees
  <2>2. /\ ResOK(EmptyResult) /\ EmptyResult.issues = {} /\ EmptyResult.ctx = "CONTEXT_UNBOUND"
        /\ Empty(EmptyResult.metric)
    BY DEF EmptyResult, ResOK, Empty
  <2>3. Refused
    BY <2>1, <2>2 DEF Issue, ResOK, Refused
  <2>4. CalmHost => CalmHost'
    BY <2>1, CalmHostStays
  <2>5. CalmGoes
    BY <2>1, <2>3, <2>4 DEF CalmGoes, CalmBound, Possible, Refused, FenceSees, hostVars
  <2> QED BY <2>1, <2>3, <2>5 DEF FenceResult, FenceSees, hostVars
<1> QED
  BY <1>1, <1>2, ReadMountinfoResult, OpenPidfdResult, PidfdAliveResult, OpenTargetResult,
     ReadStatResult, ReadFdinfoResult, ReadMembershipResult, ReadNamespacesResult,
     OpenMountResult, WalkLevelResult DEF Fence
-----------------------------------------------------------------------------
(* The run that measures its directories, and since the main reads began. *)
Walking == phase \in {"read", "close"} \/ HasBound
Measuring == (phase = "read" /\ step = "main") \/ phase = "close" \/ HasBound

(* What a read returned is in the file, or was left, or the instance was replaced. *)
Answer(x) ==
  /\ seen[x] = [read |-> seen[x].read, value |-> seen[x].value]
  /\ Taken(x) =>
       /\ FileKnown(Levels[x.level], got.inos[x.level], x.key, seen[x].value)
       /\ x.key \in {TypeKey, CpusetKey} =>
            seen[x].value \in Content(x.key) /\ (Unwritten(x.key) => seen[x].value = Fresh(x.key))

(* Two reads of a file that was never written agree. *)
Agree(x, y) ==
  Taken(x) /\ Taken(y) /\ x.level = y.level /\ x.key = y.key /\ Unwritten(x.key)
    => seen[x].value = seen[y].value

SeenInv ==
  /\ IsFiniteSet(DOMAIN seen) /\ DOMAIN seen \subseteq Visits(Len(Levels))
  /\ \A x \in DOMAIN seen : Answer(x)
  /\ \A x, y \in DOMAIN seen : Agree(x, y)

(* And the main read of one found what was there when the main reads began. *)
MainMark(n, k) ==
  /\ FileKnown(Levels[n], got.inos[n], k, atMain.file[Levels[n]][k])
  /\ Taken(MainPlace(n, k)) /\ Unwritten(k) =>
       seen[MainPlace(n, k)].value = atMain.file[Levels[n]][k]

MainInv == \A n \in 1..Len(Levels) : \A k \in LimitSet : MainMark(n, k)

(* Without an issue the context is bound, and every read so far succeeded. *)
SilentInv ==
  res.issues = {} =>
    /\ phase # "open" => res.ctx = "BOUND" /\ res.sel = "SELECTED"
    /\ \A x \in DOMAIN seen :
         seen[x].read = "AVAILABLE" /\ (x.key = TypeKey => seen[x].value = "domain")
    /\ phase \in {"close", "derive", "done"} => changed = {}

(* The comparison is that of the reads. *)
ChangedInv == phase \in {"close", "derive"} => changed = ChangedKeys

(* A context that is bound once the closing fence has begun to read was not late. *)
DeadlineInv ==
  Deadline \in res.issues =>
    /\ late
    /\ res.ctx = "BOUND" => phase = "read" \/ (phase = "close" /\ step = "mountinfo")

RunInv ==
  /\ CalmInv /\ FreshInv
  /\ Walking => SeenInv
  /\ Measuring => MainInv
  /\ SilentInv /\ ChangedInv /\ DeadlineInv
  /\ ResultIsExact

(* What was found stays known while the host goes on. *)
LEMMA KnownStays ==
  ASSUME Inv, HostStep, Walking, NEW n \in 1..Len(Levels), NEW k \in AllKeys, NEW v,
         FileKnown(Levels[n], got.inos[n], k, v)
  PROVE  FileKnown(Levels[n], got.inos[n], k, v)'
<1>1. /\ been \subseteq been' /\ UNCHANGED <<got, atMain, seen>>
      /\ \A d \in Dirs : ino[d] <= ino'[d]
      /\ \A d \in Dirs : \A l \in AllKeys :
           \/ ino[d] < ino'[d] \/ file'[d][l] = file[d][l]
           \/ FileFact(d, ino[d], l, file[d][l]) \in been'
      /\ ino \in [Dirs -> Nat] /\ ino' \in [Dirs -> Nat]
  BY DEF HostStep, HostKeeps, HostInv, Inv, HostOK, readerVars
<1>2. BoundInv /\ GotInv
  BY DEF Walking, Inv, ReaderInv
<1>3. Levels' = Levels /\ Levels[n] \in Dirs
  BY <1>1, <1>2, ReaderAssumption DEF Levels, GotInv
<1>4. got.inos[n] \in Nat /\ got.inos[n] <= ino[Levels[n]]
  BY <1>2 DEF BoundInv, InosKnown, GotInv
<1>5. CASE got.inos[n] < ino[Levels[n]]
  BY <1>1, <1>3, <1>4, <1>5 DEF FileKnown
<1>6. CASE FileFact(Levels[n], got.inos[n], k, v) \in been
  BY <1>1, <1>3, <1>6 DEF FileKnown
<1>7. CASE got.inos[n] = ino[Levels[n]] /\ file[Levels[n]][k] = v
  BY <1>1, <1>3, <1>4, <1>7 DEF FileKnown
<1> QED BY <1>1, <1>3, <1>4, <1>5, <1>6, <1>7 DEF FileKnown

(* A step of the host, which the reader does not see. *)
LEMMA HostRun == ASSUME Inv, RunInv, Host, phase # "done" PROVE RunInv'
<1>1. HostStep /\ HostMore
  BY HostSteps, HostMores DEF Inv, RunInv, CalmInv
<1>2. UNCHANGED <<phase, step, level, got, seen, changed, res, atMain, atClose>>
  BY <1>1 DEF HostStep, HostKeeps, readerVars
<1>3. /\ Walking' = Walking /\ Measuring' = Measuring /\ Levels' = Levels
      /\ ChangedKeys' = ChangedKeys
  BY <1>2 DEF Walking, Measuring, HasBound, Levels, ChangedKeys, Signature
<1>4. \A k : Unwritten(k)' => Unwritten(k)
  BY <1>1 DEF HostStep, HostKeeps, Unwritten
<1>5. CalmInv' /\ FreshInv'
  BY <1>1 DEF HostMore, CalmInv, RunInv, CalmHost
<1>6. ASSUME Walking PROVE SeenInv'
  <2>1. SeenInv
    BY <1>6 DEF RunInv
  <2>2. ASSUME NEW x \in DOMAIN seen PROVE Answer(x)'
    <3>1. Answer(x) /\ x \in Visits(Len(Levels))
      BY <2>1 DEF SeenInv
    <3>2. x.level \in 1..Len(Levels) /\ x.key \in AllKeys
      BY <3>1 DEF Visits
    <3>3. \A v : FileKnown(Levels[x.level], got.inos[x.level], x.key, v)
                   => FileKnown(Levels[x.level], got.inos[x.level], x.key, v)'
      BY <1>1, <1>6, <3>2, KnownStays
    <3>4. x.key \in {TypeKey, CpusetKey} => Content(x.key)' = Content(x.key) /\ Fresh(x.key)' = Fresh(x.key)
      BY DEF Content, Fresh
    <3> QED BY <1>2, <1>3, <1>4, <3>1, <3>3, <3>4 DEF Answer, Taken
  <2> QED BY <1>2, <1>3, <1>4, <2>1, <2>2 DEF SeenInv, Agree, Taken
<1>7. ASSUME Measuring PROVE MainInv'
  <2>1. MainInv /\ Walking
    BY <1>7 DEF RunInv, Walking, Measuring
  <2>2. ASSUME NEW n \in 1..Len(Levels), NEW k \in LimitSet PROVE MainMark(n, k)'
    <3>1. MainMark(n, k) /\ k \in AllKeys
      BY <2>1, KeyKinds DEF MainInv
    <3>2. FileKnown(Levels[n], got.inos[n], k, atMain.file[Levels[n]][k])'
      BY <1>1, <1>2, <1>3, <2>1, <3>1, KnownStays DEF MainMark
    <3> QED BY <1>2, <1>3, <1>4, <3>1, <3>2 DEF MainMark, Taken, MainPlace
  <2> QED BY <1>3, <2>2 DEF MainInv
<1>8. SilentInv' /\ ChangedInv' /\ DeadlineInv'
  BY <1>1, <1>2, <1>3 DEF RunInv, SilentInv, ChangedInv, DeadlineInv, HostMore
<1>9. ResultIsExact'
  BY <1>2 DEF ResultIsExact, Finished
<1> QED BY <1>3, <1>5, <1>6, <1>7, <1>8, <1>9 DEF RunInv


(* A result that says what is missing promises nothing. *)
LEMMA LostExact ==
  ASSUME res'.issues # {}, res'.ctx # "BOUND", Empty(res'.metric), CalmInv'
  PROVE  ResultIsExact'
<1>1. QuietRunDerives'
  BY DEF CalmInv, Possible, QuietRunDerives
<1>2. GapsAreExplained' /\ OthersSurvive'
  BY DEF GapsAreExplained, OthersSurvive, Bound
<1>3. UnboundPublishesNothing'
  BY DEF UnboundPublishesNothing, Empty
<1> QED BY <1>1, <1>2, <1>3 DEF ResultIsExact

(* What the reads say does not depend on the result or on the fence. *)
LEMMA SeenStays ==
  ASSUME UNCHANGED <<ino, file, been, seen, atMain, got>>
  PROVE  /\ SeenInv => SeenInv'
         /\ MainInv => MainInv'
         /\ ChangedKeys' = ChangedKeys
<1>1. /\ Levels' = Levels
      /\ \A x : Taken(x)' = Taken(x)
      /\ \A k : Unwritten(k)' = Unwritten(k)
      /\ \A d, i, k, v : FileKnown(d, i, k, v)' = FileKnown(d, i, k, v)
  BY DEF Levels, Taken, Unwritten, FileKnown
<1>2. \A k \in {TypeKey, CpusetKey} : Content(k)' = Content(k) /\ Fresh(k)' = Fresh(k)
  BY DEF Content, Fresh
<1>3. \A x : Answer(x) => Answer(x)'
  BY <1>1, <1>2 DEF Answer, Taken, FileKnown
<1>4. \A x, y : Agree(x, y) => Agree(x, y)'
  BY <1>1 DEF Agree
<1>5. \A n, k : MainMark(n, k) => MainMark(n, k)'
  BY <1>1 DEF MainMark, MainPlace, FileKnown
<1>6. ChangedKeys' = ChangedKeys
  BY <1>1 DEF ChangedKeys, Signature
<1> QED BY <1>1, <1>3, <1>4, <1>5, <1>6 DEF SeenInv, MainInv

(* A step of a fence. *)
LEMMA FenceRun == ASSUME Inv, RunInv, Fence PROVE RunInv'
<1>1. FenceResult
  BY FenceResults DEF RunInv, CalmInv
<1>2. CalmInv'
  BY <1>1 DEF FenceResult, CalmGoes, CalmInv, RunInv
<1>3. FreshInv'
  BY <1>1, FilesStay DEF FenceResult, RunInv
<1>4. UNCHANGED got => (SeenInv => SeenInv') /\ (MainInv => MainInv') /\ ChangedKeys' = ChangedKeys
  BY <1>1, SeenStays DEF FenceResult
<1>5. /\ phase = "open" => res.ctx # "BOUND" /\ DOMAIN seen = {}
      /\ ResOK(res) /\ Empty(res.metric) /\ phase \in {"open", "close"}
  BY <1>1 DEF FenceResult, Inv, ReaderInv, OpenInv
<1>6. UNCHANGED <<seen, changed, late>>
  BY <1>1 DEF FenceResult
<1>7. CASE Lost
  <2>1. ~Walking' /\ ~Measuring' /\ phase' \in {"derive", "done"}
    BY <1>7 DEF Lost, Walking, Measuring, HasBound
  <2>2. SilentInv' /\ DeadlineInv'
    BY <1>6, <1>7 DEF Lost, SilentInv, DeadlineInv, Follows, RunInv
  <2>3. ChangedInv'
    BY <1>4, <1>5, <1>6, <1>7 DEF Lost, ChangedInv, RunInv
  <2>4. ResultIsExact'
    BY <1>2, <1>5, <1>7, LostExact DEF Lost, Follows, Empty
  <2> QED BY <1>2, <1>3, <2>1, <2>2, <2>3, <2>4 DEF RunInv
<1>8. CASE Refused
  <2>1. ~Walking' /\ ~Measuring' /\ phase' = "done"
    BY <1>8 DEF Refused, Walking, Measuring, HasBound
  <2>2. SilentInv' /\ DeadlineInv' /\ ChangedInv'
    BY <1>8 DEF Refused, SilentInv, DeadlineInv, ChangedInv, Deadline
  <2>3. ResultIsExact'
    BY <1>2, <1>8, LostExact DEF Refused
  <2> QED BY <1>2, <1>3, <2>1, <2>2, <2>3 DEF RunInv
<1>9. CASE Carried
  <2>1. phase' = phase /\ (phase = "close" => got' = got) /\ Follows(res, res')
    BY <1>9 DEF Carried
  <2>2. (Walking' => SeenInv') /\ (Measuring' => MainInv') /\ ChangedInv'
    BY <1>4, <1>5, <1>6, <2>1 DEF Walking, Measuring, HasBound, RunInv, ChangedInv
  <2>3. SilentInv'
    BY <1>6, <2>1 DEF SilentInv, Follows, RunInv
  <2>4. DeadlineInv'
    BY <1>5, <1>6, <1>9 DEF DeadlineInv, Carried, Follows, RunInv
  <2>5. ResultIsExact'
    BY <1>5, <2>1 DEF ResultIsExact, Finished
  <2> QED BY <1>2, <1>3, <2>2, <2>3, <2>4, <2>5 DEF RunInv
<1>10. CASE Opened
  <2>1. /\ phase = "open" /\ phase' = "read" /\ step' # "main" /\ DOMAIN seen' = {}
        /\ res'.issues = res.issues /\ res'.ctx = "BOUND" /\ res'.sel = "SELECTED"
    BY <1>5, <1>6, <1>10 DEF Opened, ResOK
  <2>2. SeenInv' /\ ~Measuring' /\ ChangedInv'
    BY <2>1, FS_EmptySet DEF SeenInv, Measuring, HasBound, ChangedInv
  <2>3. SilentInv' /\ DeadlineInv'
    BY <1>6, <2>1 DEF SilentInv, DeadlineInv, RunInv
  <2>4. ResultIsExact'
    BY <2>1 DEF ResultIsExact, Finished
  <2> QED BY <1>2, <1>3, <2>2, <2>3, <2>4 DEF RunInv
<1>11. CASE Closed
  <2>1. /\ phase = "close" /\ step = "walk" /\ phase' = "derive" /\ res' = res /\ got' = got
    BY <1>11 DEF Closed
  <2>2. SeenInv' /\ MainInv' /\ ChangedInv'
    BY <1>4, <1>6, <2>1 DEF Walking, Measuring, ChangedInv, RunInv
  <2>3. SilentInv' /\ DeadlineInv'
    BY <1>6, <2>1 DEF SilentInv, DeadlineInv, RunInv
  <2>4. ResultIsExact'
    BY <2>1 DEF ResultIsExact, Finished
  <2> QED BY <1>2, <1>3, <2>2, <2>3, <2>4 DEF RunInv
<1> QED BY <1>1, <1>7, <1>8, <1>9, <1>10, <1>11 DEF FenceResult
-----------------------------------------------------------------------------
(* Of the types only a domain is valid; a limit or a CPU list is, once read. *)
LEMMA ParseStates ==
  /\ \A v \in Content(TypeKey) :
       ParseState(TypeKey, v) \in {"VALID", "EMPTY_OBSERVATION"} <=> v = "domain"
  /\ \A k, v : k # TypeKey => ParseState(k, v) \in {"VALID", "EMPTY_OBSERVATION"}
<1>1. ASSUME NEW v \in Content(TypeKey)
      PROVE  ParseState(TypeKey, v) \in {"VALID", "EMPTY_OBSERVATION"} <=> v = "domain"
  <2>1. v \in {"domain", "threaded", "unknown"} /\ TypeKey # CpusetKey
    BY KeyKinds
  <2> QED BY <2>1 DEF ParseState
<1>2. ASSUME NEW k, NEW v, k # TypeKey
      PROVE  ParseState(k, v) \in {"VALID", "EMPTY_OBSERVATION"}
  BY <1>2 DEF ParseState
<1> QED BY <1>1, <1>2

(* What a read adds to the result. *)
Valid(x, outcome) ==
  /\ outcome.read = "AVAILABLE"
  /\ ParseState(x.key, outcome.value) \in {"VALID", "EMPTY_OBSERVATION"}

LEMMA RecordFollows ==
  ASSUME ResOK(res), NEW x, NEW outcome, Record(x, outcome),
         outcome.read = "DEADLINE_REACHED" => late
  PROVE  /\ Follows(res, res') /\ (res'.issues = {} => Valid(x, outcome))
         /\ clock = "steady" /\ Valid(x, outcome) => res' = res
<1> DEFINE r == ClockChecked(res)
<1>1. Follows(res, r) /\ ResOK(r) /\ (clock = "steady" => r = res)
  BY IssueFollows, Results
<1>2. Deadline = <<"BUDGET", "DEADLINE_REACHED">>
  BY DEF Deadline
<1>3. /\ outcome.read # "AVAILABLE" => res' = Issue(r, Scope(outcome), outcome.read)
      /\ outcome.read = "AVAILABLE" /\ ~Valid(x, outcome) =>
           res' = Issue(r, "RESOURCE", ParseState(x.key, outcome.value))
      /\ Valid(x, outcome) => res' = r
  BY DEF Record, Valid
<1> HIDE DEF r
<1>4. CASE outcome.read # "AVAILABLE"
  <2>1. <<Scope(outcome), outcome.read>> # Deadline \/ late
    BY <1>2
  <2>2. Follows(r, Issue(r, Scope(outcome), outcome.read))
        /\ Issue(r, Scope(outcome), outcome.read).issues # {}
    BY <1>1, <2>1, IssueFollows
  <2> QED BY <1>1, <1>3, <1>4, <2>2, FollowsOn DEF Valid
<1>5. CASE outcome.read = "AVAILABLE" /\ ~Valid(x, outcome)
  <2> DEFINE state == ParseState(x.key, outcome.value)
  <2>1. <<"RESOURCE", state>> # Deadline
    BY <1>2
  <2> HIDE DEF state
  <2>2. Follows(r, Issue(r, "RESOURCE", state)) /\ Issue(r, "RESOURCE", state).issues # {}
    BY <1>1, <2>1, IssueFollows
  <2> QED BY <1>1, <1>3, <1>5, <2>2, FollowsOn DEF state
<1>6. CASE Valid(x, outcome)
  BY <1>1, <1>3, <1>6
<1> QED BY <1>4, <1>5, <1>6 DEF Valid

(* A read whose outcome is what the host shows, or that it failed. *)
Given(x, outcome) ==
  /\ phase = "read" /\ level <= Len(Schedule) /\ x = Schedule[level]
  /\ Record(x, outcome) /\ Faithful(x, outcome)
  /\ outcome = [read |-> outcome.read, value |-> outcome.value]
  /\ outcome.read = "DEADLINE_REACHED" => late
  /\ UNCHANGED <<holder, life, home, ns, ino, file, mount, late, been, aba>>
  /\ events' \in Nat /\ (events' = 0 => events = 0 /\ outcome = Outcome(x))

LEMMA RecordSees ==
  ASSUME Inv, RunInv, NEW x, NEW outcome, Given(x, outcome)
  PROVE  SeenInv' /\ (step = "main" => MainInv')
<1>1. /\ seen' = [y \in DOMAIN seen \union {x} |-> IF y = x THEN outcome ELSE seen[y]]
      /\ UNCHANGED <<phase, step, got, changed, atMain>>
      /\ UNCHANGED <<ino, file, been>>
  BY DEF Given, Record
<1>2. /\ DOMAIN seen' = DOMAIN seen \union {x} /\ seen'[x] = outcome
      /\ \A y \in DOMAIN seen' : y # x => y \in DOMAIN seen /\ seen'[y] = seen[y]
  BY <1>1
<1>3. BoundInv /\ ReadInv /\ GotInv /\ SeenInv /\ (step = "main" => MainInv)
  BY DEF Given, Inv, ReaderInv, RunInv, Walking, Measuring
<1>4. Levels' = Levels /\ Levels \in Seq(Dirs)
  BY <1>1, <1>3, ReaderAssumption DEF Levels, GotInv
<1>5. x \in Visits(Len(Levels)) /\ x.level \in 1..Len(Levels) /\ x.key \in AllKeys
  <2>1. level \in 1..Len(Schedule)
    BY <1>3, ScheduleIs DEF Given, ReadInv, BoundInv, Schedule
  <2>2. Schedule[level] \in Visits(Len(Levels))
    BY <1>3, <2>1, ScheduleIs DEF BoundInv, Schedule
  <2>3. x \in Visits(Len(Levels))
    BY <2>2 DEF Given
  <2> QED BY <2>3 DEF Visits
<1>6. ASSUME outcome.read = "AVAILABLE"
      PROVE  /\ ino[Levels[x.level]] = got.inos[x.level] /\ ~(got.inos[x.level] < ino[Levels[x.level]])
             /\ outcome.value = file[Levels[x.level]][x.key]
  <2>1. ino[Levels[x.level]] \in Nat
    BY <1>4, <1>5 DEF Inv, HostOK, HostInv
  <2> QED BY <1>6, <2>1 DEF Given, Faithful
<1>7. \A y \in DOMAIN seen' : y # x => Taken(y)' = Taken(y)
  BY <1>2 DEF Taken
<1>8. ASSUME Taken(x)' PROVE outcome.read = "AVAILABLE"
  BY <1>2, <1>8 DEF Taken
<1>9. \A k : Unwritten(k)' = Unwritten(k)
  BY <1>1 DEF Unwritten
<1>10. ASSUME NEW y \in DOMAIN seen' PROVE Answer(y)'
  <2>1. CASE y = x
    <3>1. seen'[x] = [read |-> seen'[x].read, value |-> seen'[x].value]
      BY <1>2 DEF Given
    <3>2. ASSUME Taken(x)'
          PROVE  /\ FileKnown(Levels[x.level], got.inos[x.level], x.key, seen[x].value)'
                 /\ x.key \in {TypeKey, CpusetKey} =>
                      /\ seen'[x].value \in Content(x.key)'
                      /\ Unwritten(x.key)' => seen'[x].value = Fresh(x.key)'
      <4>1. outcome.value = file[Levels[x.level]][x.key] /\ Levels[x.level] \in Dirs
        BY <1>4, <1>5, <1>6, <1>8, <3>2
      <4>2. x.key \in {TypeKey, CpusetKey} =>
              /\ outcome.value \in Content(x.key)
              /\ Unwritten(x.key) => outcome.value = Fresh(x.key)
        BY <4>1 DEF RunInv, FreshInv
      <4>3. x.key \in {TypeKey, CpusetKey} => Content(x.key)' = Content(x.key) /\ Fresh(x.key)' = Fresh(x.key)
        BY DEF Content, Fresh
      <4>4. FileKnown(Levels[x.level], got.inos[x.level], x.key, seen[x].value)'
        BY <1>1, <1>2, <1>4, <4>1 DEF FileKnown
      <4> QED BY <1>2, <1>9, <4>2, <4>3, <4>4
    <3> QED BY <2>1, <3>1, <3>2 DEF Answer
  <2>2. CASE y # x
    <3>1. y \in DOMAIN seen /\ seen'[y] = seen[y] /\ Answer(y) /\ Taken(y)' = Taken(y)
      BY <1>2, <1>3, <1>7, <2>2 DEF SeenInv
    <3>2. y.key \in {TypeKey, CpusetKey} => Content(y.key)' = Content(y.key) /\ Fresh(y.key)' = Fresh(y.key)
      BY DEF Content, Fresh
    <3> QED BY <1>1, <1>4, <1>9, <3>1, <3>2 DEF Answer, FileKnown
  <2> QED BY <2>1, <2>2
<1>11. ASSUME NEW y \in DOMAIN seen, y # x, Taken(y), outcome.read = "AVAILABLE",
              x.level = y.level, x.key = y.key, Unwritten(x.key)
       PROVE  seen[y].value = outcome.value
  <2>1. FileKnown(Levels[x.level], got.inos[x.level], x.key, seen[y].value)
    BY <1>3, <1>11 DEF SeenInv, Answer
  <2> QED BY <1>6, <1>11, <2>1, WrittenIs DEF FileKnown
<1>12. ASSUME NEW y \in DOMAIN seen', NEW z \in DOMAIN seen' PROVE Agree(y, z)'
  <2>1. CASE y = x /\ z = x
    BY <2>1 DEF Agree
  <2>2. CASE y = x /\ z # x
    BY <1>2, <1>7, <1>8, <1>9, <1>11, <2>2 DEF Agree
  <2>3. CASE y # x /\ z = x
    BY <1>2, <1>7, <1>8, <1>9, <1>11, <2>3 DEF Agree
  <2>4. CASE y # x /\ z # x
    BY <1>2, <1>3, <1>7, <1>9, <2>4 DEF Agree, SeenInv
  <2> QED BY <2>1, <2>2, <2>3, <2>4
<1>13. SeenInv'
  <2>1. IsFiniteSet(DOMAIN seen')
    BY <1>2, <1>3, FS_AddElement DEF SeenInv
  <2>2. DOMAIN seen' \subseteq Visits(Len(Levels))
    BY <1>2, <1>3, <1>5 DEF SeenInv
  <2> QED BY <1>4, <1>10, <1>12, <2>1, <2>2 DEF SeenInv, Visits
<1>14. ASSUME step = "main", NEW n \in 1..Len(Levels), NEW k \in LimitSet PROVE MainMark(n, k)'
  <2>1. MainMark(n, k)
    BY <1>3, <1>14 DEF MainInv
  <2>2. FileKnown(Levels[n], got.inos[n], k, atMain.file[Levels[n]][k])'
    BY <1>1, <1>4, <2>1 DEF MainMark, FileKnown
  <2>3. ASSUME Taken(MainPlace(n, k))', Unwritten(k)'
        PROVE  seen'[MainPlace(n, k)].value = atMain.file[Levels[n]][k]
    <3>1. MainPlace(n, k) \in DOMAIN seen' /\ Unwritten(k)
      BY <1>9, <2>3 DEF Taken, MainPlace
    <3>2. CASE MainPlace(n, k) = x
      <4>1. x.level = n /\ x.key = k
        BY <3>2, PlacesDiffer
      <4>2. Taken(x)'
        BY <2>3, <3>2 DEF MainPlace
      <4>3. /\ ~(got.inos[n] < ino[Levels[n]]) /\ outcome.value = file[Levels[n]][k]
        BY <1>6, <1>8, <4>1, <4>2
      <4> QED BY <1>2, <2>1, <3>1, <3>2, <4>3, WrittenIs DEF MainMark, FileKnown
    <3>3. CASE MainPlace(n, k) # x
      <4>1. Taken(MainPlace(n, k)) /\ seen'[MainPlace(n, k)] = seen[MainPlace(n, k)]
        BY <1>2, <2>3, <3>1, <3>3 DEF Taken, MainPlace
      <4> QED BY <2>1, <3>1, <4>1 DEF MainMark
    <3> QED BY <3>2, <3>3
  <2> QED BY <1>1, <1>4, <2>2, <2>3 DEF MainMark, MainPlace
<1> QED BY <1>4, <1>13, <1>14 DEF MainInv

LEMMA RecordRun ==
  ASSUME Inv, RunInv, NEW x, NEW outcome, Given(x, outcome)
  PROVE  RunInv'
<1>1. /\ seen' = [y \in DOMAIN seen \union {x} |-> IF y = x THEN outcome ELSE seen[y]]
      /\ UNCHANGED <<phase, step, got, changed, atMain>> /\ phase = "read"
      /\ UNCHANGED <<ino, file, been, home, late>>
      /\ clock' \in {clock, "steady"}
  BY DEF Given, Record
<1>2. DOMAIN seen' = DOMAIN seen \union {x} /\ seen'[x] = outcome
      /\ \A y \in DOMAIN seen : y # x => seen'[y] = seen[y]
  BY <1>1
<1>3. SeenInv' /\ (step = "main" => MainInv')
  BY RecordSees
<1>4. /\ Follows(res, res') /\ (res'.issues = {} => Valid(x, outcome))
      /\ clock = "steady" /\ Valid(x, outcome) => res' = res
  BY RecordFollows DEF Given, Inv, ReaderInv
<1>5. FreshInv'
  BY <1>1, FilesStay DEF RunInv
<1>6. ASSUME Valid(x, outcome)
      PROVE  outcome.read = "AVAILABLE" /\ (x.key = TypeKey => outcome.value = "domain")
  <2>1. x \in DOMAIN seen' /\ Answer(x)' /\ (Taken(x)' <=> outcome.read = "AVAILABLE")
    BY <1>2, <1>3 DEF SeenInv, Taken
  <2>2. x.key = TypeKey => outcome.value \in Content(TypeKey)'
    BY <1>2, <1>6, <2>1 DEF Answer, Valid
  <2>3. Content(TypeKey)' = Content(TypeKey)
    BY DEF Content
  <2> QED BY <1>6, <2>2, <2>3, ParseStates DEF Valid
<1>7. SilentInv'
  <2> SUFFICES ASSUME res'.issues = {}
               PROVE  /\ res'.ctx = "BOUND" /\ res'.sel = "SELECTED"
                      /\ \A y \in DOMAIN seen' :
                           seen'[y].read = "AVAILABLE" /\ (y.key = TypeKey => seen'[y].value = "domain")
    BY <1>1 DEF SilentInv
  <2>1. res' = res /\ Valid(x, outcome)
    BY <1>4 DEF Follows
  <2>2. /\ res.ctx = "BOUND" /\ res.sel = "SELECTED"
        /\ \A y \in DOMAIN seen :
             seen[y].read = "AVAILABLE" /\ (y.key = TypeKey => seen[y].value = "domain")
    BY <1>1, <2>1 DEF RunInv, SilentInv
  <2> QED BY <1>2, <1>6, <2>1, <2>2
<1>8. ChangedInv' /\ DeadlineInv' /\ ResultIsExact'
  BY <1>1, <1>4 DEF ChangedInv, DeadlineInv, Follows, RunInv, ResultIsExact, Finished
<1>9. CalmInv'
  <2> SUFFICES ASSUME events' = 0 PROVE CalmHost' /\ CalmBound(got)' /\ (Possible' => res'.issues = {})
    BY DEF CalmInv, Given
  <2>1. events = 0 /\ outcome = Outcome(x) /\ CalmHost /\ CalmBound(got) /\ (Possible => res.issues = {})
    BY DEF CalmInv, Given, RunInv
  <2>2. CalmHost' /\ CalmBound(got)'
    BY <1>1, <2>1 DEF CalmHost, CalmBound, Given
  <2>3. x.level \in 1..Len(got.inos) /\ Levels[x.level] \in Dirs
    <3>1. x \in DOMAIN seen' /\ Levels' = Levels /\ BoundInv /\ GotInv
      BY <1>1, <1>2 DEF Levels, Inv, ReaderInv
    <3>2. x.level \in 1..Len(Levels) /\ Levels \in Seq(Dirs)
      BY <1>3, <3>1, ReaderAssumption DEF SeenInv, Visits, GotInv, Levels
    <3> QED BY <3>1, <3>2 DEF BoundInv
  <2>4. ~late /\ ino[Levels[x.level]] = got.inos[x.level]
    BY <2>1, <2>3 DEF CalmHost, CalmBound
  <2>5. outcome.read = "AVAILABLE" /\ outcome.value = file[Levels[x.level]][x.key]
    BY <2>1, <2>4 DEF Outcome
  <2>6. x.key = TypeKey => outcome.value = "domain"
    <3>1. Unwritten(TypeKey)
      BY <2>1 DEF CalmHost, Unwritten
    <3>2. file[Levels[x.level]][TypeKey] = Fresh(TypeKey)
      BY <2>3, <3>1 DEF RunInv, FreshInv
    <3> QED BY <2>5, <3>2, KeyKinds
  <2>7. Valid(x, outcome)
    <3>1. x.key = TypeKey => ParseState(x.key, outcome.value) \in {"VALID", "EMPTY_OBSERVATION"}
      BY <2>6, KeyKinds, ParseStates
    <3> QED BY <2>5, <3>1, ParseStates DEF Valid
  <2>8. res' = res
    BY <1>4, <2>1, <2>7 DEF CalmHost
  <2>9. Possible' => Possible
    BY <1>1, <2>8 DEF Possible, Levels
  <2> QED BY <2>1, <2>2, <2>8, <2>9
<1>10. Walking' /\ Measuring' => step = "main"
  BY <1>1 DEF Measuring, HasBound
<1> QED BY <1>3, <1>5, <1>7, <1>8, <1>9, <1>10, <1>1 DEF RunInv, Measuring, HasBound

(* A resource is read, or the read fails. *)
LEMMA ReadRun == ASSUME Inv, RunInv, ReadResource \/ ResourceFault PROVE RunInv'
<1> DEFINE x == Schedule[level]
<1>1. CASE ReadResource
  <2> DEFINE outcome == Outcome(x)
  <2>1. /\ phase = "read" /\ level <= Len(Schedule) /\ Record(x, outcome) /\ UNCHANGED hostVars
        /\ events \in Nat
    BY <1>1 DEF ReadResource, RunInv, CalmInv
  <2>2. /\ Faithful(x, outcome) /\ outcome = [read |-> outcome.read, value |-> outcome.value]
        /\ outcome.read = "DEADLINE_REACHED" => late
    BY DEF Faithful, Outcome, Unread
  <2>3. Given(x, outcome)
    BY <2>1, <2>2 DEF Given, hostVars
  <2> HIDE DEF x, outcome
  <2> QED BY <2>3, RecordRun
<1>2. CASE ResourceFault
  <2>1. PICK failure \in {"READ_ERROR", "MISSING", "INVALID_VALUE"} : Record(x, Unread(failure))
    BY <1>2 DEF ResourceFault
  <2> DEFINE outcome == Unread(failure)
  <2>2. /\ phase = "read" /\ level <= Len(Schedule) /\ events' \in Nat /\ events' # 0
        /\ UNCHANGED <<holder, life, home, ns, ino, file, mount, late, been, aba>>
    BY <1>2 DEF ResourceFault, Fault, RunInv, CalmInv
  <2>3. /\ Faithful(x, outcome) /\ outcome = [read |-> outcome.read, value |-> outcome.value]
        /\ outcome.read # "DEADLINE_REACHED"
    BY DEF Faithful, Unread
  <2>4. Given(x, outcome)
    BY <2>1, <2>2, <2>3 DEF Given
  <2> HIDE DEF x, outcome
  <2> QED BY <2>4, RecordRun
<1> QED BY <1>1, <1>2
-----------------------------------------------------------------------------
(* The main reads begin. *)
LEMMA CheckTypesRun == ASSUME Inv, RunInv, CheckTypes PROVE RunInv'
<1>1. /\ phase = "read" /\ phase' = "read" /\ level = InitialReads + 1 /\ step # "main"
      /\ atMain'.file = file /\ UNCHANGED <<got, seen, changed, clock>>
      /\ UNCHANGED <<holder, life, home, ns, ino, file, mount, late, been, events>>
  BY DEF CheckTypes, TypesKnown, hostVars
<1>2. BoundInv /\ ReadInv /\ GotInv /\ ResOK(res) /\ SeenInv
  BY <1>1 DEF Inv, ReaderInv, RunInv, Walking
<1>3. Levels' = Levels /\ Levels \in Seq(Dirs)
  BY <1>1, <1>2, ReaderAssumption DEF Levels, GotInv
<1>4. Follows(res, res')
  <2> DEFINE r == Issue(res, "SELECTION", "UNSUPPORTED_LAYOUT")
  <2>1. <<"SELECTION", "UNSUPPORTED_LAYOUT">> # Deadline
    BY DEF Deadline
  <2>2. Follows(res, res) /\ Follows(res, r) /\ r.issues # {}
    BY <1>2, <2>1, IssueFollows
  <2>3. res' = [r EXCEPT !.sel = "UNSUPPORTED_LAYOUT"] \/ res' = res
    BY DEF CheckTypes
  <2> HIDE DEF r
  <2> QED BY <2>2, <2>3 DEF Follows, ResOK
<1>5. ASSUME res.issues = {} PROVE res' = res
  <2>1. ASSUME NEW n \in 1..Len(Levels) PROVE seen[Place("INITIAL_FENCE", n, TypeKey)].value = "domain"
    <3> DEFINE x == Place("INITIAL_FENCE", n, TypeKey)
               s == ScheduleOf[Len(Levels)]
    <3>1. /\ Len(s) \in Nat /\ InitialReads \in Nat
          /\ \A i \in (InitialReads + 1)..Len(s) : s[i].phase # "INITIAL_FENCE"
          /\ \E i \in 1..Len(s) : s[i] = x
      BY <1>2, ScheduleIs DEF BoundInv, InitialReads, Visited, ConfigKeys
    <3>2. \A i \in 1..(level - 1) : s[i] \in DOMAIN seen
      BY <1>2 DEF ReadInv, Schedule
    <3>3. x.phase = "INITIAL_FENCE" /\ x.key = TypeKey
      BY PlacesDiffer
    <3> HIDE DEF x, s
    <3>4. PICK i \in 1..Len(s) : s[i] = x
      BY <3>1
    <3>5. i <= InitialReads
      BY <3>1, <3>3, <3>4
    <3>6. x \in DOMAIN seen
      BY <1>1, <3>1, <3>2, <3>4, <3>5
    <3> QED BY <1>5, <3>3, <3>6 DEF x, RunInv, SilentInv
  <2> QED BY <2>1 DEF CheckTypes
<1>6. SeenInv' /\ ~HasBound' /\ FreshInv'
  <2>1. /\ \A y : Taken(y)' = Taken(y)
        /\ \A k : Unwritten(k)' = Unwritten(k)
    BY <1>1 DEF Taken, Unwritten
  <2>2. \A k \in {TypeKey, CpusetKey} : Content(k)' = Content(k) /\ Fresh(k)' = Fresh(k)
    BY <1>1 DEF Content, Fresh, CheckTypes, hostVars
  <2>3. \A y : Answer(y) => Answer(y)'
    BY <1>1, <1>3, <2>1, <2>2 DEF Answer, FileKnown, Taken
  <2> QED BY <1>1, <1>2, <1>3, <2>1, <2>2, <2>3 DEF SeenInv, Agree, HasBound, RunInv, FreshInv
<1>7. MainInv'
  <2>1. ASSUME NEW n \in 1..Len(Levels), NEW k \in LimitSet PROVE MainMark(n, k)'
    <3>1. ~Taken(MainPlace(n, k))
      BY <1>1, <1>2, PlacesDiffer DEF Taken, ReadInv
    <3> QED BY <1>1, <1>3, <3>1 DEF MainMark, FileKnown, Taken, MainPlace
  <2> QED BY <1>3, <2>1 DEF MainInv
<1>8. SilentInv' /\ ChangedInv' /\ DeadlineInv' /\ ResultIsExact'
  <2>1. SilentInv'
    BY <1>1, <1>4, <1>5 DEF SilentInv, RunInv, Follows
  <2>2. DeadlineInv'
    BY <1>1, <1>4 DEF DeadlineInv, RunInv, Follows
  <2> QED BY <1>1, <2>1, <2>2 DEF ChangedInv, ResultIsExact, Finished
<1>9. CalmInv'
  <2>1. /\ res.issues \subseteq res'.issues
        /\ Possible' => Possible
    BY <1>3, <1>4 DEF Follows, Possible
  <2> QED BY <1>1, <1>5, <2>1 DEF CalmInv, CalmHost, CalmBound, RunInv
<1> QED BY <1>6, <1>7, <1>8, <1>9 DEF RunInv

(* A set of one element or of none has no two that differ. *)
LEMMA TwoOf ==
  ASSUME NEW S, IsFiniteSet(S)
  PROVE  Cardinality(S) > 1 <=> \E a, b \in S : a # b
<1>1. Cardinality(S) \in Nat
  BY FS_CardinalityType
<1>2. Cardinality(S) = 0 <=> S = {}
  BY FS_EmptySet
<1>3. Cardinality(S) = 1 <=> \E x : S = {x}
  BY FS_Singleton
<1> QED BY <1>1, <1>2, <1>3

(* A key has changed when two reads of one of its files differ. *)
LEMMA ChangedIs ==
  ASSUME SeenInv
  PROVE  \A k \in AllKeys :
           k \in ChangedKeys <=>
             \E x, y \in DOMAIN seen : /\ x.key = k /\ y.key = k /\ x.level = y.level
                                       /\ seen[x] # seen[y]
<1> DEFINE At1(n, k) == {x \in DOMAIN seen : x.level = n /\ x.key = k}
           Sigs(n, k) == {Signature(seen[at]) : at \in At1(n, k)}
<1>1. ASSUME NEW n, NEW k PROVE IsFiniteSet(Sigs(n, k))
  <2> DEFINE X == At1(n, k)
             T == Sigs(n, k)
             f == [at \in X |-> Signature(seen[at])]
  <2>1. IsFiniteSet(X)
    BY FS_Subset DEF SeenInv
  <2>2. f \in Surjection(X, T)
    BY DEF Surjection
  <2> HIDE DEF X, T, f
  <2> QED BY <2>1, <2>2, FS_Surjection DEF T
<1>2. \A n, k : Cardinality(Sigs(n, k)) > 1 <=> \E a, b \in Sigs(n, k) : a # b
  <2> HIDE DEF Sigs
  <2> QED BY <1>1, TwoOf
<1>3. \A n, k : (\E a, b \in Sigs(n, k) : a # b)
                   <=> \E x, y \in At1(n, k) : seen[x] # seen[y]
  BY DEF Signature
<1>4. \A k \in AllKeys : k \in ChangedKeys <=> \E n \in 1..Len(Levels) : Cardinality(Sigs(n, k)) > 1
  BY DEF ChangedKeys
<1>5. \A x \in DOMAIN seen : x.level \in 1..Len(Levels)
  BY DEF SeenInv, Visits
<1> HIDE DEF Sigs
<1> QED BY <1>2, <1>3, <1>4, <1>5

(* A file that was never written and always readable has not changed. *)
LEMMA Unchanging ==
  ASSUME SeenInv, NEW k \in AllKeys, Unwritten(k),
         \A x \in DOMAIN seen : x.key = k => seen[x].read = "AVAILABLE"
  PROVE  k \notin ChangedKeys
<1> SUFFICES ASSUME NEW x \in DOMAIN seen, NEW y \in DOMAIN seen,
                    x.key = k, y.key = k, x.level = y.level
             PROVE  seen[x] = seen[y]
  BY ChangedIs
<1>1. Taken(x) /\ Taken(y)
  BY DEF Taken
<1>2. seen[x].value = seen[y].value
  BY <1>1 DEF SeenInv, Agree
<1>3. Answer(x) /\ Answer(y)
  BY DEF SeenInv
<1> QED BY <1>1, <1>2, <1>3 DEF Answer, Taken

(* The main reads are over. *)
LEMMA CompareRun == ASSUME Inv, RunInv, CompareConfiguration PROVE RunInv'
<1>1. /\ phase = "read" /\ level = Len(Schedule) + 1 /\ phase' = "close" /\ step' = "mountinfo"
      /\ changed' = ChangedKeys /\ UNCHANGED <<got, seen, atMain, clock>>
      /\ UNCHANGED <<holder, life, home, ns, ino, file, mount, late, been, events>>
  BY DEF CompareConfiguration, hostVars
<1>2. BoundInv /\ ReadInv /\ ResOK(res) /\ SeenInv
  BY <1>1 DEF Inv, ReaderInv, RunInv, Walking
<1>3. step = "main" /\ MainInv
  <2>1. Len(Schedule) \in Nat /\ InitialReads \in Nat /\ InitialReads < Len(Schedule)
    BY <1>2, ScheduleIs DEF BoundInv, InitialReads, Schedule
  <2>2. step = "main"
    BY <1>1, <1>2, <2>1 DEF ReadInv
  <2> QED BY <1>1, <2>2 DEF RunInv, Measuring
<1>4. SeenInv' /\ MainInv' /\ ChangedKeys' = ChangedKeys
  BY <1>1, <1>2, <1>3, SeenStays
<1>5. /\ Follows(res, res') /\ (res'.issues = {} => ChangedKeys = {})
      /\ ChangedKeys = {} => res' = res
  <2>1. <<"CONTEXT", "CONFIGURATION_CHANGED">> # Deadline
    BY DEF Deadline
  <2> QED BY <1>2, <2>1, IssueFollows DEF CompareConfiguration
<1>6. FreshInv' /\ Levels' = Levels
  BY <1>1, FilesStay DEF RunInv, Levels
<1>7. SilentInv'
  BY <1>1, <1>5 DEF SilentInv, RunInv, Follows
<1>8. ChangedInv' /\ DeadlineInv' /\ ResultIsExact'
  <2>1. DeadlineInv'
    BY <1>1, <1>5 DEF DeadlineInv, RunInv, Follows
  <2> QED BY <1>1, <1>4, <2>1 DEF ChangedInv, ResultIsExact, Finished
<1>9. CalmInv'
  <2> SUFFICES ASSUME events' = 0 PROVE CalmHost' /\ CalmBound(got)' /\ (Possible' => res'.issues = {})
    BY <1>1 DEF CalmInv, RunInv
  <2>1. CalmHost /\ CalmBound(got) /\ (Possible => res.issues = {})
    BY <1>1 DEF CalmInv, RunInv
  <2>2. CalmHost' /\ CalmBound(got)'
    BY <1>1, <2>1 DEF CalmHost, CalmBound
  <2>3. Possible' => Possible
    BY <1>5, <1>6 DEF Follows, Possible
  <2>4. ASSUME res.issues = {} PROVE res' = res
    <3>1. \A k : Unwritten(k)
      BY <2>1 DEF CalmHost, Unwritten
    <3>2. \A x \in DOMAIN seen : seen[x].read = "AVAILABLE"
      BY <2>4 DEF RunInv, SilentInv
    <3>3. \A k \in AllKeys : k \notin ChangedKeys
      BY <1>2, <3>1, <3>2, Unchanging
    <3>4. ChangedKeys = {}
      BY <3>3 DEF ChangedKeys
    <3> QED BY <1>5, <3>4
  <2> QED BY <2>1, <2>2, <2>3, <2>4
<1> QED BY <1>1, <1>4, <1>6, <1>7, <1>8, <1>9 DEF RunInv, HasBound
-----------------------------------------------------------------------------
(* Where a collection that stayed bound arrives. *)
Arrived == Inv /\ RunInv /\ phase = "derive" /\ res.ctx = "BOUND"

(* Every limit was read three times, and the CPU list of the last level. *)
LEMMA ArrivedWith ==
  ASSUME Arrived
  PROVE  /\ SeenInv /\ MainInv /\ changed = ChangedKeys /\ GotInv
         /\ Len(Levels) \in 1..MaxLevels /\ Levels \in Seq(Dirs)
         /\ \A n \in 1..Len(Levels) : \A k \in LimitSet :
              /\ Place("INITIAL_FENCE", n, k) \in DOMAIN seen
              /\ Place("CLOSING_FENCE", n, k) \in DOMAIN seen
              /\ Place("MAIN_READ", n, k) \in DOMAIN seen
         /\ Place("MAIN_READ", Len(Levels), CpusetKey) \in DOMAIN seen
<1>1. HasBound
  BY DEF HasBound, Arrived
<1>2. SeenInv /\ MainInv /\ changed = ChangedKeys
  BY <1>1 DEF Arrived, RunInv, Walking, Measuring, ChangedInv
<1>3. BoundInv /\ EndInv /\ GotInv
  BY <1>1 DEF Arrived, Inv, ReaderInv
<1>4. Len(Levels) \in 1..MaxLevels /\ Levels \in Seq(Dirs)
  BY <1>3, ReaderAssumption DEF BoundInv, GotInv, Levels
<1> DEFINE s == ScheduleOf[Len(Levels)]
<1>5. \A i \in 1..Len(s) : s[i] \in DOMAIN seen
  BY <1>3 DEF EndInv, AllRead, Schedule
<1>6. /\ \A m \in 1..Len(Levels), k \in ConfigKeys : Visited(s, Place("INITIAL_FENCE", m, k))
      /\ \A m \in 1..Len(Levels), k \in ConfigKeys : Visited(s, Place("CLOSING_FENCE", m, k))
      /\ \A m \in 1..Len(Levels), k \in LimitSet : Visited(s, Place("MAIN_READ", m, k))
      /\ Visited(s, Place("MAIN_READ", Len(Levels), CpusetKey))
  BY <1>4, ScheduleIs
<1> HIDE DEF s
<1>7. \A x : Visited(s, x) => x \in DOMAIN seen
  BY <1>5 DEF Visited
<1> QED BY <1>2, <1>3, <1>4, <1>6, <1>7 DEF ConfigKeys

(* A place is given by its phase, level and key. *)
LEMMA PlaceIs ==
  ASSUME NEW n, NEW x \in Visits(n)
  PROVE  /\ x = Place(x.phase, x.level, x.key) /\ x.level \in 1..n /\ x.key \in AllKeys
         /\ x.phase \in {"INITIAL_FENCE", "MAIN_READ", "CLOSING_FENCE"}
  BY DEF Visits, Place

(* What is published was readable, in a context that is bound and was not late. *)
LEMMA PublishedReads ==
  ASSUME Arrived, NEW k, ~Suppressed(res, k)
  PROVE  /\ res.sel = "SELECTED" /\ Deadline \notin res.issues
         /\ \A at \in DOMAIN seen : at.key = k => seen[at].read = "AVAILABLE"
<1>1. res.sel = "SELECTED"
  BY DEF Suppressed
<1>2. Deadline \notin res.issues
  BY DEF Arrived, RunInv, DeadlineInv
<1>3. ASSUME NEW at \in DOMAIN seen, at.key = k PROVE seen[at].read = "AVAILABLE"
  <2>1. /\ at = Place(at.phase, at.level, k) /\ at.level \in 1..Len(Levels)
        /\ at.phase \in {"INITIAL_FENCE", "MAIN_READ", "CLOSING_FENCE"}
    BY <1>3, ArrivedWith, PlaceIs DEF SeenInv
  <2>2. /\ Main(at.level, k).read = "AVAILABLE"
        /\ \A ph \in {"INITIAL_FENCE", "CLOSING_FENCE"} :
             seen[Place(ph, at.level, k)] = Main(at.level, k)
    BY <2>1 DEF Suppressed, Signature
  <2>3. CASE at.phase = "MAIN_READ"
    BY <2>1, <2>2, <2>3 DEF Main
  <2>4. CASE at.phase \in {"INITIAL_FENCE", "CLOSING_FENCE"}
    BY <2>1, <2>2, <2>4
  <2> QED BY <2>1, <2>3, <2>4
<1> QED BY <1>1, <1>2, <1>3

(* What keeps a metric. *)
LEMMA Supported ==
  ASSUME Arrived, res.sel = "SELECTED", NEW k \in LimitSet,
         \A at \in DOMAIN seen : at.key = k => seen[at].read = "AVAILABLE",
         \A at \in DOMAIN seen : at.key = TypeKey => seen[at].value = "domain",
         k \notin ChangedKeys, TypeKey \notin ChangedKeys,
         k = "cpu.max" => /\ CpusetKey \notin ChangedKeys
                          /\ Main(Len(Levels), CpusetKey).value = "cpus"
  PROVE  ~Suppressed(res, k)
<1>1. k \in AllKeys /\ changed = ChangedKeys /\ SeenInv
  BY KeyKinds, ArrivedWith
<1>2. ASSUME NEW n \in 1..Len(Levels)
      PROVE  /\ Main(n, k).read = "AVAILABLE"
             /\ \A ph \in {"INITIAL_FENCE", "CLOSING_FENCE"} : seen[Place(ph, n, k)] = Main(n, k)
  <2>1. \A ph : Place(ph, n, k).level = n /\ Place(ph, n, k).key = k
    BY PlacesDiffer
  <2>2. \A ph \in {"INITIAL_FENCE", "CLOSING_FENCE", "MAIN_READ"} : Place(ph, n, k) \in DOMAIN seen
    BY ArrivedWith
  <2>3. \A x, y \in DOMAIN seen : x.key = k /\ y.key = k /\ x.level = y.level => seen[x] = seen[y]
    BY <1>1, ChangedIs
  <2> QED BY <2>1, <2>2, <2>3 DEF Main
<1> QED BY <1>1, <1>2 DEF Arrived, Suppressed, Signature

(* A metric of whose files none was written or unreadable. *)
LEMMA Survives ==
  ASSUME Arrived, res.sel = "SELECTED", NEW k \in MetricKeys,
         \A own \in Own(k) : Unwritten(own),
         \A at \in DOMAIN seen : at.key \in Own(k) => seen[at].read = "AVAILABLE"
  PROVE  /\ ~Suppressed(res, k)
         /\ {Main(n, k).value : n \in 1..Len(Levels)} \intersect Limits = Walked(k)
<1>1. /\ k \in LimitSet /\ k \in AllKeys /\ k \in Own(k) /\ TypeKey \in Own(k)
      /\ k = "cpu.max" => CpusetKey \in Own(k)
  BY KeyKinds DEF Own, MetricKeys
<1>2. SeenInv /\ MainInv
  BY ArrivedWith
<1>3. \A own \in Own(k) : own \in AllKeys => own \notin ChangedKeys
  BY <1>2, Unchanging
<1>4. ASSUME NEW at \in DOMAIN seen, at.key \in {TypeKey, CpusetKey}, at.key \in Own(k)
      PROVE  seen[at].value = Fresh(at.key)
  BY <1>2, <1>4 DEF SeenInv, Answer, Taken
<1>5. ASSUME k = "cpu.max" PROVE Main(Len(Levels), CpusetKey).value = "cpus"
  <2> DEFINE at == Place("MAIN_READ", Len(Levels), CpusetKey)
  <2>1. at \in DOMAIN seen /\ at.key = CpusetKey
    BY ArrivedWith, PlacesDiffer
  <2>2. seen[at].value = Fresh(CpusetKey)
    BY <1>1, <1>4, <1>5, <2>1
  <2> QED BY <2>2, KeyKinds DEF Main
<1>6. \A at \in DOMAIN seen : at.key = TypeKey => seen[at].value = "domain"
  BY <1>1, <1>4, KeyKinds
<1>7. ~Suppressed(res, k)
  BY <1>1, <1>3, <1>5, <1>6, KeyKinds, Supported
<1>8. ASSUME NEW n \in 1..Len(Levels) PROVE Main(n, k).value = atMain.file[Levels[n]][k]
  <2>1. Place("MAIN_READ", n, k) \in DOMAIN seen /\ Place("MAIN_READ", n, k).key = k
    BY <1>1, ArrivedWith, PlacesDiffer
  <2>2. Taken(MainPlace(n, k)) /\ Unwritten(k)
    BY <1>1, <2>1 DEF Taken, MainPlace
  <2>3. MainMark(n, k)
    BY <1>1, <1>2 DEF MainInv
  <2> QED BY <2>2, <2>3 DEF MainMark, Main, MainPlace
<1>9. ToSet(Levels) = {Levels[n] : n \in 1..Len(Levels)}
  BY ArrivedWith DEF ToSet
<1>10. {Main(n, k).value : n \in 1..Len(Levels)} = {atMain.file[d][k] : d \in ToSet(Levels)}
  <2>1. ASSUME NEW n \in 1..Len(Levels)
        PROVE  \E d \in ToSet(Levels) : Main(n, k).value = atMain.file[d][k]
    BY <1>8, <1>9
  <2>2. ASSUME NEW d \in ToSet(Levels)
        PROVE  \E n \in 1..Len(Levels) : atMain.file[d][k] = Main(n, k).value
    BY <1>8, <1>9
  <2> QED BY <2>1, <2>2
<1> QED BY <1>7, <1>10 DEF Walked

(* Without an issue only an empty CPU list takes a metric away. *)
LEMMA SilentGaps ==
  ASSUME Inv, RunInv, phase = "derive", res.issues = {}
  PROVE  /\ Arrived /\ res.sel = "SELECTED"
         /\ \A at \in DOMAIN seen : seen[at].read = "AVAILABLE"
         /\ \A k \in MetricKeys :
              ~Suppressed(res, k) \/ (k = "cpu.max" /\ Main(Len(Levels), CpusetKey).value = "no cpus")
<1>1. /\ Arrived /\ res.sel = "SELECTED" /\ changed = {}
      /\ \A at \in DOMAIN seen :
           seen[at].read = "AVAILABLE" /\ (at.key = TypeKey => seen[at].value = "domain")
  BY DEF Arrived, RunInv, SilentInv
<1>2. ChangedKeys = {} /\ SeenInv
  BY <1>1, ArrivedWith
<1>3. Main(Len(Levels), CpusetKey).value \in {"cpus", "no cpus"}
  <2> DEFINE at == Place("MAIN_READ", Len(Levels), CpusetKey)
  <2>1. at \in DOMAIN seen /\ at.key = CpusetKey
    BY <1>1, ArrivedWith, PlacesDiffer
  <2>2. Answer(at) /\ Taken(at)
    BY <1>1, <1>2, <2>1 DEF SeenInv, Taken
  <2>3. seen[at].value \in Content(CpusetKey)
    BY <2>1, <2>2 DEF Answer
  <2> QED BY <2>3, KeyKinds DEF Main
<1>4. ASSUME NEW k \in MetricKeys, ~(k = "cpu.max" /\ Main(Len(Levels), CpusetKey).value = "no cpus")
      PROVE  ~Suppressed(res, k)
  <2>1. k \in LimitSet
    BY DEF MetricKeys
  <2> QED BY <1>1, <1>2, <1>3, <1>4, <2>1, Supported
<1> QED BY <1>1, <1>4
-----------------------------------------------------------------------------
(* The metrics are published, exactly. *)
LEMMA DeriveExact == ASSUME Inv, RunInv, CalmInv', DeriveMetrics PROVE ResultIsExact'
<1>1. /\ phase = "derive" /\ phase' = "done"
      /\ res' = [res EXCEPT !.metric = [k \in MetricKeys |-> Derived(res, k)]]
      /\ UNCHANGED <<got, seen, changed, atMain, been, events>>
  BY DEF DeriveMetrics, hostVars
<1>2. ResOK(res) /\ Empty(res.metric)
  BY <1>1 DEF Inv, ReaderInv
<1>3. /\ res'.ctx = res.ctx /\ res'.sel = res.sel /\ res'.issues = res.issues
      /\ \A k \in MetricKeys : res'.metric[k] = Derived(res, k)
  BY <1>1, <1>2 DEF ResOK
<1>4. \A k : Derived(res, k).state # "UNAVAILABLE" <=> ~Suppressed(res, k)
  BY DEF Derived
<1>5. /\ Finished' /\ (Bound' <=> res.ctx = "BOUND") /\ Levels' = Levels
      /\ \A n, k : Main(n, k)' = Main(n, k)
      /\ \A k : Unwritten(k)' = Unwritten(k)
      /\ \A k : Walked(k)' = Walked(k)
  BY <1>1, <1>3 DEF Finished, Bound, Levels, Main, Unwritten, Walked
<1>6. UnboundPublishesNothing'
  <2> SUFFICES ASSUME NEW k \in MetricKeys, ~Suppressed(res, k)
               PROVE  /\ res.ctx = "BOUND" /\ res.sel = "SELECTED"
                      /\ Deadline \notin res.issues
                      /\ \A at \in DOMAIN seen : at.key = k => seen[at].read = "AVAILABLE"
    BY <1>1, <1>3, <1>4, <1>5 DEF UnboundPublishesNothing, Deadline
  <2>1. Arrived
    BY <1>1 DEF Arrived, Suppressed
  <2> QED BY <2>1, PublishedReads DEF Arrived
<1>7. OthersSurvive'
  <2> SUFFICES ASSUME res.ctx = "BOUND", res.sel = "SELECTED", NEW k \in MetricKeys,
                      \A own \in Own(k) : Unwritten(own),
                      \A at \in DOMAIN seen : at.key \in Own(k) => seen[at].read = "AVAILABLE"
               PROVE  /\ Derived(res, k).state # "UNAVAILABLE"
                      /\ Derived(res, k).value = IF Walked(k) = {} THEN NoValue ELSE Min(Walked(k))
    <3>1. \A k : Own(k)' = Own(k)
      BY DEF Own
    <3> QED BY <1>1, <1>3, <1>5, <3>1 DEF OthersSurvive
  <2>1. Arrived
    BY <1>1 DEF Arrived
  <2>2. ~Suppressed(res, k)
        /\ {Main(n, k).value : n \in 1..Len(Levels)} \intersect Limits = Walked(k)
    BY <2>1, Survives
  <2>3. Derived(res, k) = IF Walked(k) = {}
                          THEN [state |-> "NO_FINITE_VISIBLE_LIMIT", value |-> NoValue]
                          ELSE [state |-> "AVAILABLE", value |-> Min(Walked(k))]
    BY <2>2 DEF Derived
  <2> QED BY <2>3
<1>8. GapsAreExplained'
  <2> SUFFICES ASSUME res.issues = {}
               PROVE  /\ res.ctx = "BOUND"
                      /\ \A k \in MetricKeys :
                           \/ ~Suppressed(res, k)
                           \/ k = "cpu.max" /\ Main(Len(Levels), CpusetKey).value = "no cpus"
    BY <1>3, <1>4, <1>5 DEF GapsAreExplained
  <2> QED BY <1>1, SilentGaps DEF Arrived
<1>9. QuietRunDerives'
  <2> SUFFICES ASSUME events = 0, Possible
               PROVE  /\ res.ctx = "BOUND" /\ res.sel = "SELECTED" /\ res.issues = {}
                      /\ \A k \in MetricKeys : ~Suppressed(res, k)
    BY <1>1, <1>3, <1>4, <1>5 DEF QuietRunDerives, Possible
  <2>1. res.issues = {} /\ \A k : Unwritten(k)
    BY DEF RunInv, CalmInv, CalmHost, Unwritten
  <2>2. /\ Arrived /\ res.sel = "SELECTED"
        /\ \A at \in DOMAIN seen : seen[at].read = "AVAILABLE"
    BY <1>1, <2>1, SilentGaps
  <2>3. \A k \in MetricKeys : ~Suppressed(res, k)
    BY <2>1, <2>2, Survives
  <2> QED BY <2>1, <2>2, <2>3 DEF Arrived
<1> QED BY <1>6, <1>7, <1>8, <1>9 DEF ResultIsExact

LEMMA DeriveRun == ASSUME Inv, RunInv, DeriveMetrics PROVE RunInv'
<1>1. /\ phase = "derive" /\ phase' = "done"
      /\ res' = [res EXCEPT !.metric = [k \in MetricKeys |-> Derived(res, k)]]
      /\ UNCHANGED <<got, seen, changed, atMain, clock>>
      /\ UNCHANGED <<holder, life, home, ns, ino, file, mount, late, been, events>>
  BY DEF DeriveMetrics, hostVars
<1>2. ResOK(res) /\ Empty(res.metric)
  BY <1>1 DEF Inv, ReaderInv
<1>3. res'.ctx = res.ctx /\ res'.sel = res.sel /\ res'.issues = res.issues
  BY <1>1, <1>2 DEF ResOK
<1>4. HasBound' = HasBound /\ Levels' = Levels
  BY <1>1, <1>3 DEF HasBound, Levels
<1>5. (Walking' => SeenInv') /\ (Measuring' => MainInv')
  BY <1>1, <1>4, SeenStays DEF Walking, Measuring, RunInv
<1>6. SilentInv' /\ ChangedInv' /\ DeadlineInv' /\ FreshInv'
  <2>1. SilentInv' /\ DeadlineInv'
    BY <1>1, <1>3 DEF SilentInv, DeadlineInv, RunInv
  <2> QED BY <1>1, <2>1, FilesStay DEF ChangedInv, RunInv
<1>7. CalmInv'
  BY <1>1, <1>3, <1>4 DEF CalmInv, CalmHost, CalmBound, Possible, RunInv
<1>8. ResultIsExact'
  BY <1>7, DeriveExact
<1> QED BY <1>5, <1>6, <1>7, <1>8 DEF RunInv

(* A collection begins quietly. *)
LEMMA InitRun == Init => RunInv
<1> SUFFICES ASSUME Init PROVE RunInv
  OBVIOUS
<1>1. /\ phase = "open" /\ res = EmptyResult /\ events = 0 /\ been = {} /\ holder = 1
      /\ life = <<"running", "unborn">> /\ ns = [p \in Processes |-> TRUE]
      /\ ino = [d \in Dirs |-> 0] /\ mount = 0 /\ clock = "steady" /\ late = FALSE
      /\ got = [mount |-> 0, pidfd |-> 1, dir |-> 1, ticks |-> 1, path |-> home[1].dir,
                inos |-> <<>>]
      /\ seen = <<>>
  BY DEF Init
<1>2. res.issues = {} /\ res.ctx = "CONTEXT_UNBOUND"
  BY <1>1 DEF EmptyResult
<1>3. CalmInv
  <2>1. CalmHost
    BY <1>1 DEF CalmHost, Processes
  <2>2. home[1].ino = 0
    <3>1. PICK d \in Homes : home = [p \in Processes |-> [dir |-> d, ino |-> 0]]
      BY Zenon DEF Init
    <3> QED BY <3>1 DEF Processes
  <2>3. CalmBound(got)
    BY <1>1, <2>2 DEF CalmBound
  <2> QED BY <1>1, <1>2, <2>1, <2>3 DEF CalmInv
<1>4. FreshInv
  <2> DEFINE set == trouble.dirs \X (LimitSet \cap trouble.kinds)
  <2>1. PICK limit \in [set -> trouble.limits \cup {Unlimited}] :
               file = [d \in Dirs |-> [k \in AllKeys |->
                        IF <<d, k>> \in DOMAIN limit THEN limit[d, k] ELSE Fresh(k)]]
    BY Zenon DEF Init
  <2>2. ASSUME NEW d \in Dirs, NEW k \in {TypeKey, CpusetKey} PROVE file[d][k] = Fresh(k)
    <3>1. k \in AllKeys /\ k \notin LimitSet
      BY KeyKinds
    <3>2. <<d, k>> \notin set
      BY <3>1
    <3> HIDE DEF set
    <3>3. <<d, k>> \notin DOMAIN limit
      BY <3>2
    <3> QED BY <2>1, <3>1, <3>3, Zenon
  <2>3. \A k \in {TypeKey, CpusetKey} : Fresh(k) \in Content(k)
    BY KeyKinds
  <2> QED BY <2>2, <2>3 DEF FreshInv
<1>5. ~Walking /\ ~Measuring
  BY <1>1 DEF Walking, Measuring, HasBound
<1>6. SilentInv /\ ChangedInv /\ DeadlineInv /\ ResultIsExact
  <2>1. DOMAIN seen = {}
    BY <1>1
  <2> QED BY <1>1, <1>2, <2>1 DEF SilentInv, ChangedInv, DeadlineInv, ResultIsExact, Finished
<1> QED BY <1>3, <1>4, <1>5, <1>6 DEF RunInv

(* Nothing of it depends on the clock once something happened. *)
LEMMA StaysRun ==
  ASSUME Inv, RunInv, UNCHANGED <<hostVars, readerVars>>, events = 0 => clock' = clock
  PROVE  RunInv'
<1>1. /\ UNCHANGED <<phase, step, level, got, seen, changed, res, atMain, atClose>>
      /\ UNCHANGED <<holder, life, home, ns, ino, file, mount, late, been, events>>
  BY DEF hostVars, readerVars
<1>2. /\ Walking' = Walking /\ Measuring' = Measuring
      /\ (SeenInv => SeenInv') /\ (MainInv => MainInv')
      /\ ChangedKeys' = ChangedKeys /\ (FreshInv => FreshInv')
  BY <1>1, SeenStays, FilesStay DEF Walking, Measuring, HasBound
<1>3. CalmInv'
  BY <1>1 DEF CalmInv, CalmHost, CalmBound, Possible, Levels, RunInv
<1>4. SilentInv' /\ ChangedInv' /\ DeadlineInv'
  BY <1>1, <1>2 DEF SilentInv, ChangedInv, DeadlineInv, RunInv
<1>5. ResultIsExact'
  <2>1. QuietRunDerives => QuietRunDerives'
    BY <1>1 DEF QuietRunDerives, Bound, Finished, Levels
  <2>2. GapsAreExplained => GapsAreExplained'
    BY <1>1 DEF GapsAreExplained, Bound, Finished, Levels, Main
  <2>3. UnboundPublishesNothing => UnboundPublishesNothing'
    BY <1>1 DEF UnboundPublishesNothing, Bound, Finished
  <2>4. OthersSurvive => OthersSurvive'
    <3>1. /\ Bound' = Bound /\ \A k : Walked(k)' = Walked(k) /\ Unwritten(k)' = Unwritten(k)
          /\ \A k : Own(k)' = Own(k)
      BY <1>1 DEF Bound, Finished, Walked, Unwritten, Levels, Own
    <3> QED BY <1>1, <3>1 DEF OthersSurvive
  <2> QED BY <1>1, <2>1, <2>2, <2>3, <2>4 DEF ResultIsExact, Finished, RunInv
<1> QED BY <1>2, <1>3, <1>4, <1>5 DEF RunInv

(* Every step keeps it. *)
LEMMA NextRun == Inv /\ RunInv /\ [Next]_vars => RunInv'
<1> SUFFICES ASSUME Inv, RunInv, [Next]_vars PROVE RunInv'
  OBVIOUS
<1>1. CASE Host /\ phase # "done"
  BY <1>1, HostRun
<1>2. CASE Host /\ phase = "done"
  <2>1. ClockCatchesUp
    BY <1>2 DEF Host, Exit, Reap, Unshare, Migrate, Reuse, Replace, Write, Remount,
                DeadlinePasses, ClockBack, Happen
  <2>2. clock = "behind" /\ UNCHANGED <<hostVars, readerVars>>
    BY <2>1 DEF ClockCatchesUp
  <2>3. events # 0
    BY <2>2 DEF RunInv, CalmInv, CalmHost
  <2> QED BY <2>2, <2>3, StaysRun
<1>3. CASE Reader
  BY <1>3, FenceRun, ReadRun, CheckTypesRun, CompareRun, DeriveRun DEF Reader
<1>4. CASE UNCHANGED vars
  BY <1>4, StaysRun DEF vars
<1> QED BY <1>1, <1>2, <1>3, <1>4 DEF Next, Done

(* A finished collection publishes exactly what its reads support, and says why *)
(* the rest is missing (_derive_metrics after run): everything when nothing     *)
(* happened, nothing from a context that was lost or late, and a resource that  *)
(* fails or changes costs only the metrics that are derived from it.            *)
THEOREM ResultTheorem == Spec => []ResultIsExact
<1>1. Init => RunInv
  BY InitRun
<1>2. Inv /\ RunInv /\ [Next]_vars => RunInv'
  BY NextRun
<1>3. RunInv => ResultIsExact
  BY DEF RunInv
<1> QED BY <1>1, <1>2, <1>3, SpecInv, PTL DEF Spec
=============================================================================
