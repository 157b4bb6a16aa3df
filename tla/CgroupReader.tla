---------------------------- MODULE CgroupReader ----------------------------
(***************************************************************************)
(* One collection of Code/Tools/Linux_Cgroup_Reader.py: _Collector.run.    *)
(*                                                                         *)
(* The reader fences a process (proc directory, pidfd, membership,         *)
(* namespaces, mount, cgroup directories), reads the configuration of      *)
(* every visible level, reads the resources, reads the configuration       *)
(* again, repeats the fence and only then derives the visible ceilings.    *)
(* Nothing is locked: between any two system calls the process may move,   *)
(* exit or be replaced under its PID, a directory may be replaced, a limit *)
(* may change, a mount may be put on top, the wall clock may go back and   *)
(* the read deadline may pass.                                             *)
(*                                                                         *)
(* Host state is what the kernel shows; every reader step is one call of   *)
(* the backend (an open with its identity check, or one bounded read).     *)
(* Raw texts, ordinals and times are abstracted to the value a file held.  *)
(***************************************************************************)
EXTENDS Naturals, Sequences, FiniteSets, FiniteSetsExt, SequencesExt

CONSTANTS
    Dirs,        \* cgroup directories
    Chain,       \* for each directory the levels from the mount root to it
    Homes,       \* directories a process can be in
    LimitKeys,   \* the _LIMIT_KEYS observed, in their order
    Unlimited,   \* the value of a file that holds "max"
    NoValue,     \* nothing was read, or no selection state is set
    MaxLevels,   \* the bound on levels (64 in the code)
    Troubles     \* what may happen to a collection: kinds of events, how many
                 \* (most), and the finite limits set in some directories (dirs)

Limits == UNION {t.limits : t \in Troubles}

TypeKey == "cgroup.type"
CpusetKey == "cpuset.cpus.effective"

ASSUME ReaderAssumption ==
    /\ Chain \in [Dirs -> Seq(Dirs)]
    /\ \A d \in Dirs : Chain[d] # <<>> /\ Last(Chain[d]) = d
    /\ Homes \subseteq Dirs
    /\ LimitKeys \in Seq(ToSet(LimitKeys)) /\ {TypeKey, CpusetKey} \cap ToSet(LimitKeys) = {}
    /\ \A t \in Troubles : t.most \in Nat /\ t.dirs \subseteq Dirs
    /\ Limits \subseteq Nat /\ Unlimited \notin Limits
    /\ MaxLevels \in Nat

VARIABLES
    holder,  \* process that has the target PID, Nobody when it is free
    life,    \* of each process: "running", "zombie" or "gone"
    home,    \* of each process: the directory instance it is in
    ns,      \* of each process: its namespaces are the caller's
    ino,     \* instance number of each directory
    file,    \* contents of each directory's files
    mount,   \* instance number of the cgroup2 mount
    clock,   \* "behind" while the wall clock is before _last_wall_ns
    late,    \* the read deadline has passed
    been,    \* history: what the host has shown so far
    aba,     \* history: something left came back
    trouble, \* the member of Troubles that this collection meets
    events,  \* history: host events so far
    phase, step, level,   \* where the reader is
    got,     \* what the opening fence bound
    seen,    \* signature of each resource record
    changed, \* keys _configuration_consistent reports
    res,     \* the result record
    atMain,  \* history: the host when the main reads began
    atClose  \* history: the process when the closing fence read membership

hostVars == <<holder, life, home, ns, ino, file, mount, late, been, aba, trouble, events>>
readerVars == <<phase, step, level, got, seen, changed, res, atMain, atClose>>
vars == <<hostVars, clock, readerVars>>

Nobody == 0
Processes == {1, 2}

LimitSet == ToSet(LimitKeys)
MetricKeys == LimitSet \ {"memory.high"}

(***************************************************************************)
(* Host                                                                    *)
(***************************************************************************)
Content(k) ==
    IF k = TypeKey THEN {"domain", "threaded", "unknown"}
    ELSE IF k = CpusetKey THEN {"cpus", "no cpus"}
    ELSE trouble.limits \cup {Unlimited}

Fresh(k) == IF k = TypeKey THEN "domain" ELSE IF k = CpusetKey THEN "cpus" ELSE Unlimited

AllKeys == LimitSet \cup {TypeKey, CpusetKey}

Occupied(d) == \E p \in Processes :
    /\ life[p] = "running"
    /\ d \in ToSet(Chain[home[p].dir])

Happen(kind) ==
    /\ kind \in trouble.kinds /\ events < trouble.most /\ phase # "done"
    /\ events' = events + 1
    /\ UNCHANGED <<trouble, readerVars>>

\* What the host shows now is remembered, so that a later return to it is seen.
Remember(fact, next) ==
    /\ been' = been \cup {fact}
    /\ aba' = (aba \/ next \in been)

Migrate(p, d) ==
    /\ Happen("migrate")
    /\ life[p] = "running" /\ home[p].dir # d
    /\ home' = [home EXCEPT ![p] = [dir |-> d, ino |-> ino[d]]]
    /\ Remember(<<p, home[p].dir>>, <<p, d>>)
    /\ UNCHANGED <<holder, life, ns, ino, file, mount, clock, late>>

Exit(p) ==
    /\ Happen("exit")
    /\ life[p] = "running" /\ holder = p
    /\ life' = [life EXCEPT ![p] = "zombie"]
    /\ UNCHANGED <<holder, home, ns, ino, file, mount, clock, late, been, aba>>

Reap(p) ==
    /\ Happen("reap")
    /\ life[p] = "zombie"
    /\ life' = [life EXCEPT ![p] = "gone"]
    /\ holder' = Nobody
    /\ UNCHANGED <<home, ns, ino, file, mount, clock, late, been, aba>>

Reuse(d) ==
    /\ Happen("reuse")
    /\ holder = Nobody /\ life[2] = "unborn"
    /\ holder' = 2
    /\ life' = [life EXCEPT ![2] = "running"]
    /\ home' = [home EXCEPT ![2] = [dir |-> d, ino |-> ino[d]]]
    /\ UNCHANGED <<ns, ino, file, mount, clock, late, been, aba>>

\* rmdir and mkdir of a directory nothing runs in.
Replace(d) ==
    /\ Happen("replace")
    /\ ~Occupied(d) /\ d \in Homes
    /\ ino' = [ino EXCEPT ![d] = @ + 1]
    /\ file' = [file EXCEPT ![d] = [k \in AllKeys |-> Fresh(k)]]
    /\ UNCHANGED <<holder, life, home, ns, mount, clock, late, been, aba>>

Write(d, k, v) ==
    /\ Happen(k)
    /\ d \in trouble.dirs /\ file[d][k] # v
    /\ file' = [file EXCEPT ![d][k] = v]
    /\ Remember(<<d, ino[d], k, file[d][k]>>, <<d, ino[d], k, v>>)
    /\ UNCHANGED <<holder, life, home, ns, ino, mount, clock, late>>

Remount ==
    /\ Happen("mount")
    /\ mount' = mount + 1
    /\ UNCHANGED <<holder, life, home, ns, ino, file, clock, late, been, aba>>

Unshare(p) ==
    /\ Happen("unshare")
    /\ life[p] = "running" /\ ns[p]
    /\ ns' = [ns EXCEPT ![p] = FALSE]
    /\ UNCHANGED <<holder, life, home, ino, file, mount, clock, late, been, aba>>

DeadlinePasses ==
    /\ Happen("deadline")
    /\ ~late /\ late' = TRUE
    /\ UNCHANGED <<holder, life, home, ns, ino, file, mount, clock, been, aba>>

ClockBack ==
    /\ Happen("clock")
    /\ clock = "steady" /\ clock' = "behind"
    /\ UNCHANGED <<holder, life, home, ns, ino, file, mount, late, been, aba>>

\* Time passes until the wall clock is again past the last one noted.
ClockCatchesUp ==
    /\ clock = "behind" /\ clock' = "steady"
    /\ UNCHANGED <<hostVars, readerVars>>

Host ==
    \/ \E p \in Processes : Exit(p) \/ Reap(p) \/ Unshare(p)
    \/ \E p \in Processes, d \in Homes : Migrate(p, d)
    \/ \E d \in Homes : Reuse(d) \/ Replace(d)
    \/ \E d \in Dirs, k \in AllKeys : \E v \in Content(k) : Write(d, k, v)
    \/ Remount \/ DeadlinePasses \/ ClockBack \/ ClockCatchesUp

(***************************************************************************)
(* Result record                                                           *)
(***************************************************************************)
EmptyResult ==
    [sel |-> "CONTEXT_UNBOUND", ctx |-> "CONTEXT_UNBOUND", issues |-> {},
     metric |-> [k \in MetricKeys |-> [state |-> "UNAVAILABLE", value |-> NoValue]]]

Issue(r, scope, code) == [r EXCEPT !.issues = @ \cup {<<scope, code>>}]

Failed(r, scope, code) ==
    [Issue(r, scope, code) EXCEPT
        !.ctx = IF scope \in {"CONTEXT", "ABI", "SELECTION"} THEN "CONTEXT_UNBOUND" ELSE @]

\* _observe compares its start and end with the last wall time noted.
ClockChecked(r) ==
    IF clock = "behind" THEN Failed(r, "CONTEXT", "CLOCK_CHANGED") ELSE r

(***************************************************************************)
(* Fences                                                                  *)
(***************************************************************************)
(* Mutant: a fence reads the mount table again instead of walking down. *)
AfterStepAgain(ph, s) ==
    LET order == <<"mountinfo", "pidfd", "alive", "target", "stat", "fdinfo",
                   "membership", "namespaces", "mount", "mountinfo">>
        at == CHOOSE i \in DOMAIN order : order[i] = s
    IN  order[at + 1]

AfterStep(ph, s) ==
    LET order == IF ph = "open"
                 THEN <<"mountinfo", "pidfd", "alive", "target", "stat", "fdinfo",
                        "membership", "namespaces", "mount", "walk">>
                 ELSE <<"mountinfo", "target", "membership", "stat", "fdinfo",
                        "namespaces", "alive", "mount", "walk">>
        at == CHOOSE i \in DOMAIN order : order[i] = s
    IN  order[at + 1]

At(s) == phase \in {"open", "close"} /\ step = s

\* A _CollectionFailure or NativeFailure ends the opening; the closing fence
\* catches it, keeps the selection state and goes on to the derivation.
Abandon(r, scope, code, selection) ==
    LET failed == Failed(r, scope, code) IN
    /\ res' = IF phase = "close" \/ selection = NoValue THEN failed
              ELSE [failed EXCEPT !.sel = selection]
    /\ phase' = IF phase = "close" THEN "derive" ELSE "done"
    /\ UNCHANGED <<step, level, got>>

Pass(r, bound) ==
    /\ res' = r
    /\ got' = IF phase = "open" THEN bound ELSE got
    /\ step' = AfterStep(phase, step)
    /\ level' = 1
    /\ UNCHANGED phase

FenceFrame == UNCHANGED <<hostVars, seen, changed, atMain>>

\* One native check: an open, an identity comparison, a poll of the pidfd.
Check(s, ok, code, bound) ==
    /\ At(s)
    /\ IF ok THEN Pass(res, bound) ELSE Abandon(res, "CONTEXT", code, NoValue)
    /\ FenceFrame /\ UNCHANGED <<clock, atClose>>

\* One procfs read through _observe. An unreadable file is an issue of its own
\* and then the failure the caller raises for a missing text.
ProcRead(s, readable, missing, ok, scope, code, selection, bound) ==
    /\ At(s)
    /\ LET r == ClockChecked(res) IN
       IF late
       THEN Abandon(Issue(r, "BUDGET", "DEADLINE_REACHED"), "CONTEXT", missing, NoValue)
       ELSE IF ~readable
       THEN Abandon(Issue(r, "CONTEXT", "CONTEXT_UNBOUND"), "CONTEXT", missing, NoValue)
       ELSE IF ~ok THEN Abandon(r, scope, code, selection)
       ELSE Pass(r, bound)
    /\ clock' = IF late \/ readable THEN "steady" ELSE clock
    /\ FenceFrame

Opening == phase = "open"
Readable(p) == life[p] # "gone"

ReadMountinfo ==
    /\ ProcRead("mountinfo", TRUE, "CONTEXT_UNBOUND",
                Opening \/ mount = got.mount, "CONTEXT", "MOUNT_CHANGED", NoValue,
                [got EXCEPT !.mount = mount])
    /\ UNCHANGED atClose

OpenPidfd ==
    Check("pidfd", holder # Nobody, "CONTEXT_UNBOUND", [got EXCEPT !.pidfd = holder])

PidfdAlive ==
    Check("alive", life[got.pidfd] = "running", "PID_EXITED", got)

OpenTarget ==
    Check("target", holder # Nobody /\ (Opening \/ holder = got.dir),
          IF holder = Nobody THEN "CONTEXT_UNBOUND" ELSE "DIRECTORY_CHANGED",
          [got EXCEPT !.dir = holder])

ReadStat ==
    /\ ProcRead("stat", Readable(got.dir), "PIDFD_PROCFS_MISMATCH",
                Opening \/ got.dir = got.ticks, "CONTEXT", "STARTTIME_CHANGED", NoValue,
                [got EXCEPT !.ticks = got.dir])
    /\ UNCHANGED atClose

\* The fdinfo of a pidfd shows no PID once its process has been reaped.
ReadFdinfo ==
    /\ ProcRead("fdinfo", TRUE, "PIDFD_PROCFS_MISMATCH",
                Readable(got.pidfd), "CONTEXT", "PIDFD_PROCFS_MISMATCH", NoValue, got)
    /\ UNCHANGED atClose

\* A process whose directory has been removed shows a deleted path.
ReadMembership ==
    LET h == home[got.dir]
        deleted == h.ino # ino[h.dir]
    IN  /\ ProcRead("membership", Readable(got.dir), "CONTEXT_UNBOUND",
                    ~deleted /\ (Opening \/ h.dir = got.path),
                    IF deleted THEN "SELECTION" ELSE "CONTEXT",
                    IF deleted THEN "DELETED_RECORD" ELSE "MEMBERSHIP_CHANGED",
                    IF deleted THEN "MISSING_MEMBERSHIP" ELSE NoValue,
                    [got EXCEPT !.path = h.dir])
        /\ atClose' = IF Opening THEN atClose ELSE [home |-> h, life |-> life[got.dir]]

\* The namespace links of a zombie may already be gone.
ReadNamespaces ==
    \E there \in BOOLEAN :
        /\ there => Readable(got.dir)
        /\ ~there => life[got.dir] # "running"
        /\ Check("namespaces", there /\ ns[got.dir],
                 IF there THEN "NAMESPACE_MISMATCH" ELSE "CONTEXT_UNBOUND", got)

\* The anchor is opened by path and must have the mount ID of mountinfo; the
\* number of levels is bounded before any directory below it is opened.
OpenMount ==
    LET deep == Opening /\ Len(Chain[got.path]) > MaxLevels IN
    /\ At("mount")
    /\ IF mount # got.mount THEN Abandon(res, "CONTEXT", "MOUNT_CHANGED", NoValue)
       ELSE IF deep THEN Abandon(res, "BUDGET", "LIMIT_REACHED", NoValue)
       ELSE Pass(res, [got EXCEPT !.inos = <<>>])
    /\ FenceFrame /\ UNCHANGED <<clock, atClose>>

Levels == Chain[got.path]

(* Mutant: a directory is the same when its path is. *)
SamePath(n) == TRUE

SameDirectory(n) == ino[Levels[n]] = got.inos[n]

\* One directory of the walk; the last one binds the context (opening) or ends
\* the closing fence.
WalkLevel ==
    /\ At("walk")
    /\ LET last == level = Len(Levels) IN
           IF Opening
           THEN /\ got' = [got EXCEPT !.inos = Append(@, ino[Levels[level]])]
                /\ res' = IF last THEN [res EXCEPT !.sel = "SELECTED", !.ctx = "BOUND"]
                          ELSE res
                /\ phase' = IF last THEN "read" ELSE phase
                /\ level' = IF last THEN 1 ELSE level + 1
                /\ UNCHANGED step
           ELSE IF ~SameDirectory(level)
           THEN Abandon(res, "CONTEXT", "DIRECTORY_CHANGED", NoValue)
           ELSE /\ phase' = IF last THEN "derive" ELSE phase
                /\ level' = level + 1
                /\ UNCHANGED <<step, got, res>>
    /\ FenceFrame /\ UNCHANGED <<clock, atClose>>

\* A call of the backend may fail by itself.
Fault == "fault" \in trouble.kinds /\ events < trouble.most /\ events' = events + 1

FenceFault ==
    /\ phase \in {"open", "close"}
    /\ Fault
    /\ Abandon(res, "CONTEXT", "READ_ERROR", NoValue)
    /\ UNCHANGED <<holder, life, home, ns, ino, file, mount, clock, late, been, aba, trouble,
                   seen, changed, atMain, atClose>>

\* collect_process: without the native ABI there is no collection at all.
NoBackend ==
    /\ Opening /\ step = "mountinfo"
    /\ "abi" \in trouble.kinds
    /\ res' = Issue(EmptyResult, "ABI", "UNSUPPORTED_ABI")
    /\ phase' = "done"
    /\ FenceFrame /\ UNCHANGED <<clock, step, level, got, atClose>>

Fence ==
    \/ NoBackend \/ ReadMountinfo \/ OpenPidfd \/ PidfdAlive \/ OpenTarget \/ ReadStat \/ ReadFdinfo
    \/ ReadMembership \/ ReadNamespaces \/ OpenMount \/ WalkLevel \/ FenceFault

(***************************************************************************)
(* Resource reads                                                          *)
(***************************************************************************)
Place(ph, n, k) == [phase |-> ph, level |-> n, key |-> k]

EachLevel(ph, n, keys) ==
    [i \in 1..(n * Len(keys)) |->
        Place(ph, ((i - 1) \div Len(keys)) + 1, keys[((i - 1) % Len(keys)) + 1])]

ConfigReads(ph, n) ==
    EachLevel(ph, n, Append(LimitKeys, TypeKey)) \o <<Place(ph, n, CpusetKey)>>

MainReads(n) ==
    EachLevel("MAIN_READ", n, LimitKeys) \o <<Place("MAIN_READ", n, CpusetKey)>>

\* Every read of a collection with n levels, in the order they are made.
ScheduleOf == [n \in 1..MaxLevels |->
    ConfigReads("INITIAL_FENCE", n) \o MainReads(n) \o ConfigReads("CLOSING_FENCE", n)]

Schedule == ScheduleOf[Len(Levels)]

\* The bounded read of one file below the directory held open.
\* Each record has a read state and, once read, a parse state; what is not
\* readable or not valid is one outcome without a value.
Unread(state) == [read |-> state, value |-> NoValue]

Outcome(at) ==
    LET d == Levels[at.level] IN
    IF ino[d] # got.inos[at.level] THEN Unread("READ_ERROR")
    ELSE IF late THEN Unread("DEADLINE_REACHED")
    ELSE [read |-> "AVAILABLE", value |-> file[d][at.key]]

\* parse_cgroup_type, and the parse state of an effective CPU list.
ParseState(k, v) ==
    CASE k = TypeKey /\ v = "threaded"  -> "UNSUPPORTED_LAYOUT"
      [] k = TypeKey /\ v = "unknown"   -> "TYPE_UNVERIFIED"
      [] k = CpusetKey /\ v = "no cpus" -> "EMPTY_OBSERVATION"
      [] OTHER                          -> "VALID"

Scope(outcome) == IF outcome.read = "DEADLINE_REACHED" THEN "BUDGET" ELSE "RESOURCE"

Record(at, outcome) ==
    /\ seen' = [x \in DOMAIN seen \cup {at} |-> IF x = at THEN outcome ELSE seen[x]]
    /\ res' = LET r == ClockChecked(res) IN
              IF outcome.read # "AVAILABLE" THEN Issue(r, Scope(outcome), outcome.read)
              ELSE IF ParseState(at.key, outcome.value) \in {"VALID", "EMPTY_OBSERVATION"} THEN r
              ELSE Issue(r, "RESOURCE", ParseState(at.key, outcome.value))
    /\ clock' = IF outcome.read \in {"READ_ERROR", "MISSING"} THEN clock ELSE "steady"
    /\ level' = level + 1
    /\ UNCHANGED <<phase, step, got, changed, atMain, atClose>>

InitialReads == Len(Levels) * (Len(LimitKeys) + 1) + 1
TypesKnown == step = "main"

ReadResource ==
    /\ phase = "read" /\ level <= Len(Schedule)
    /\ TypesKnown \/ level <= InitialReads
    /\ Record(Schedule[level], Outcome(Schedule[level]))
    /\ UNCHANGED hostVars

ResourceFault ==
    /\ phase = "read" /\ level <= Len(Schedule)
    /\ TypesKnown \/ level <= InitialReads
    /\ Fault
    /\ \E outcome \in {"READ_ERROR", "MISSING", "INVALID_VALUE"} : Record(Schedule[level], Unread(outcome))
    /\ UNCHANGED <<holder, life, home, ns, ino, file, mount, late, been, aba, trouble>>

\* run() looks at the types between the initial configuration and the main reads.
CheckTypes ==
    /\ phase = "read" /\ level = InitialReads + 1 /\ ~TypesKnown
    /\ step' = "main"
    /\ res' = IF \E n \in 1..Len(Levels) :
                    seen[Place("INITIAL_FENCE", n, TypeKey)].value = "threaded"
              THEN [Issue(res, "SELECTION", "UNSUPPORTED_LAYOUT") EXCEPT
                       !.sel = "UNSUPPORTED_LAYOUT"]
              ELSE res
    /\ atMain' = [file |-> file, home |-> home[got.pidfd], life |-> life[got.pidfd]]
    /\ UNCHANGED <<hostVars, clock, phase, level, got, seen, changed, atClose>>

(* Mutant: only the state of a record is compared, not its value. *)
SignatureState(outcome) == [read |-> outcome.read]

Signature(outcome) == outcome

ChangedKeys ==
    {k \in AllKeys : \E n \in 1..Len(Levels) :
        LET sigs == {Signature(seen[at]) : at \in {x \in DOMAIN seen : x.level = n /\ x.key = k}}
        IN  Cardinality(sigs) > 1}

CompareConfiguration ==
    /\ phase = "read" /\ level = Len(Schedule) + 1
    /\ changed' = ChangedKeys
    /\ res' = IF ChangedKeys # {} THEN Issue(res, "CONTEXT", "CONFIGURATION_CHANGED") ELSE res
    /\ phase' = "close" /\ step' = "mountinfo" /\ level' = 1
    /\ UNCHANGED <<hostVars, clock, got, seen, atMain, atClose>>

(***************************************************************************)
(* Derivation                                                              *)
(***************************************************************************)
Main(n, k) == seen[Place("MAIN_READ", n, k)]

(* Mutant: one changed key suppresses every metric. *)
SuppressedAll(r, k) ==
    \/ r.ctx # "BOUND" \/ r.sel # "SELECTED"
    \/ changed # {}
    \/ \E n \in 1..Len(Levels) : Main(n, k).read # "AVAILABLE"

Suppressed(r, k) ==
    \/ r.ctx # "BOUND" \/ r.sel # "SELECTED"
    \/ TypeKey \in changed
    \/ \E at \in DOMAIN seen : at.key = TypeKey /\ seen[at].value # "domain"
    \/ k \in changed
    \/ \E n \in 1..Len(Levels) :
        \/ Main(n, k).read # "AVAILABLE"
        \/ \E ph \in {"INITIAL_FENCE", "CLOSING_FENCE"} :
               Signature(seen[Place(ph, n, k)]) # Signature(Main(n, k))
    \/ k = "cpu.max" /\ 
           (CpusetKey \in changed \/ Main(Len(Levels), CpusetKey).value # "cpus")

Derived(r, k) ==
    LET finite == {Main(n, k).value : n \in 1..Len(Levels)} \cap Limits IN
    IF Suppressed(r, k) THEN [state |-> "UNAVAILABLE", value |-> NoValue]
    ELSE IF finite = {} THEN [state |-> "NO_FINITE_VISIBLE_LIMIT", value |-> NoValue]
    ELSE [state |-> "AVAILABLE", value |-> Min(finite)]

DeriveMetrics ==
    /\ phase = "derive"
    /\ phase' = "done"
    /\ res' = [res EXCEPT !.metric = [k \in MetricKeys |-> Derived(res, k)]]
    /\ UNCHANGED <<hostVars, clock, step, level, got, seen, changed, atMain, atClose>>

(***************************************************************************)
(* Specification                                                           *)
(***************************************************************************)
Init ==
    /\ holder = 1
    /\ life = <<"running", "unborn">>
    /\ \E d \in Homes : home = [p \in Processes |-> [dir |-> d, ino |-> 0]]
    /\ ns = [p \in Processes |-> TRUE]
    /\ ino = [d \in Dirs |-> 0]
    /\ trouble \in Troubles
    /\ \E limit \in [trouble.dirs \X (LimitSet \cap trouble.kinds) -> trouble.limits \cup {Unlimited}] :
           file = [d \in Dirs |-> [k \in AllKeys |->
                      IF <<d, k>> \in DOMAIN limit THEN limit[d, k] ELSE Fresh(k)]]
    /\ mount = 0 /\ clock = "steady" /\ late = FALSE
    /\ been = {} /\ aba = FALSE /\ events = 0
    /\ phase = "open" /\ step = "mountinfo" /\ level = 1
    /\ got = [mount |-> 0, pidfd |-> 1, dir |-> 1, ticks |-> 1, path |-> home[1].dir, inos |-> <<>>]
    /\ seen = <<>> /\ changed = {} /\ res = EmptyResult
    /\ atMain = [file |-> file, home |-> home[1], life |-> "running"]
    /\ atClose = [home |-> home[1], life |-> "running"]

Reader ==
    Fence \/ ReadResource \/ ResourceFault \/ CheckTypes \/ CompareConfiguration \/ DeriveMetrics

Done == phase = "done" /\ UNCHANGED vars

Next == Host \/ Reader \/ Done

Spec == Init /\ [][Next]_vars /\ WF_vars(Reader)
(***************************************************************************)
(* Properties                                                              *)
(***************************************************************************)
Finished == phase = "done"
Bound == Finished /\ res.ctx = "BOUND"

\* A bound result measured the process the pidfd names, and that process ran
\* through all main reads: it was not replaced under its PID, and had not exited
\* when the closing fence read its membership. The directories measured end in
\* the very directory instance the process was in at that moment, even if it
\* went away and came back or the path was removed and made again.
BoundIsOneProcess ==
    Bound => /\ got.pidfd = got.dir
             /\ atMain.life = "running" /\ atClose.life = "running"
             /\ atClose.home = [dir |-> got.path, ino |-> Last(got.inos)]

\* The ceiling of one metric in the host as it was when the main reads began.
Ceiling(k) == {atMain.file[d][k] : d \in ToSet(Chain[atMain.home.dir])} \cap Limits

\* The double collect: unless something changed and changed back in between, a
\* published ceiling is the smallest limit above the process at one moment (when
\* the main reads began), though the files were read one by one; and a published
\* absence of limits means that none was set at that moment.
CeilingIsSnapshot ==
    Finished /\ ~aba => \A k \in MetricKeys :
        CASE res.metric[k].state = "AVAILABLE" ->
                 Ceiling(k) # {} /\ res.metric[k].value = Min(Ceiling(k))
          [] res.metric[k].state = "NO_FINITE_VISIBLE_LIMIT" -> Ceiling(k) = {}
          [] OTHER -> TRUE

\* A collection nothing disturbed derives every metric and reports no issue.
QuietRunDerives ==
    events = 0 /\ <<"ABI", "UNSUPPORTED_ABI">> \notin res.issues /\ Len(Levels) <= MaxLevels =>
        /\ Bound /\ res.sel = "SELECTED" /\ res.issues = {}
        /\ \A k \in MetricKeys : res.metric[k].state # "UNAVAILABLE"

\* Whatever is missing from the result is explained by an issue; the one exception
\* is an empty effective CPU list, which suppresses the quota ratio silently.
GapsAreExplained ==
    res.issues = {} => Bound /\ \A k \in MetricKeys :
        \/ res.metric[k].state # "UNAVAILABLE"
        \/ k = "cpu.max" /\ Main(Len(Levels), CpusetKey).value = "no cpus"

\* No metric is published from a context that is not bound, when one of its files
\* was unreadable, or when the deadline passed before the end.
UnboundPublishesNothing ==
    \A k \in MetricKeys : res.metric[k].state # "UNAVAILABLE" =>
        /\ Bound /\ res.sel = "SELECTED"
        /\ <<"BUDGET", "DEADLINE_REACHED">> \notin res.issues
        /\ \A at \in DOMAIN seen : at.key = k => seen[at].read = "AVAILABLE"

\* The ceiling in the directories that were walked, when the main reads began.
Walked(k) == {atMain.file[d][k] : d \in ToSet(Levels)} \cap Limits

\* No file of this name was ever written.
Unwritten(k) == \A fact \in been : Len(fact) = 4 => fact[3] # k

\* The files a metric is derived from.
Own(k) == {k, TypeKey} \cup IF k = "cpu.max" THEN {CpusetKey} ELSE {}

\* One resource that fails or changes costs no other metric: a metric whose own
\* files were never written or unreadable is published with the ceiling of the
\* directories that were walked, whatever else was written, failed or moved.
OthersSurvive ==
    Bound /\ res.sel = "SELECTED" => \A k \in MetricKeys :
        /\ \A own \in Own(k) : Unwritten(own)
        /\ \A at \in DOMAIN seen : at.key \in Own(k) => seen[at].read = "AVAILABLE"
        => /\ res.metric[k].state # "UNAVAILABLE"
           /\ res.metric[k].value = IF Walked(k) = {} THEN NoValue ELSE Min(Walked(k))

\* A finished collection publishes exactly what its reads support, and says why
\* the rest is missing: nothing less after a quiet run, nothing more from a
\* context that was lost, and one failing resource costs only its own metric.
ResultIsExact ==
    Finished => QuietRunDerives /\ GapsAreExplained /\ UnboundPublishesNothing /\ OthersSurvive

\* Every collection ends, whatever the host does.
Terminates == <>Finished
=============================================================================
