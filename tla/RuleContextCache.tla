--------------------------- MODULE RuleContextCache ---------------------------
(***************************************************************************)
(* The check and record operations of the rule-context cache, run by       *)
(* several processes over a working tree that somebody edits meanwhile.    *)
(*                                                                         *)
(* Both operations capture a snapshot by running discovery twice: the      *)
(* instruction chain, directory by directory; the index of the repository, *)
(* file by file; the text of every source, and each of its references;     *)
(* then the fingerprints, file by file.  Every such read is a step of its  *)
(* own.  A record is written under a lock file created with O_EXCL,         *)
(* after a second capture under the lock, through a temporary file named   *)
(* after the process and os.replace.  Nobody but its creator removes the   *)
(* lock file, so a crash leaves it (and the temporary) behind.             *)
(***************************************************************************)
EXTENDS RuleRecords

CONSTANTS
  Proc,        \* processes (and their process ids)
  Configs,     \* effective discovery configurations
  InitTree,    \* the working tree at the start
  EditSet,     \* <<path, content>>: the edits somebody may make
  MaxEdits,    \* bound on the number of edits
  Restore,     \* may an edit bring back an earlier content of the path?
  MaxRuns,     \* bound on the operations started
  NoProc, NoRecord

ASSUME NoProcAssumption == NoProc \notin Proc

ContentOK(c) ==
  \/ c = Absent
  \/ c = [text |-> c.text, eol |-> c.eol, git |-> c.git] /\ c.text \in DOMAIN Refs

ASSUME TreeAssumption ==
  /\ Configs \subseteq DOMAIN Candidates
  /\ DOMAIN InitTree = Paths /\ InitTree = [q \in Paths |-> InitTree[q]]
  /\ \A q \in Paths : ContentOK(InitTree[q])
  /\ \A e \in EditSet : e[1] \in Paths /\ ContentOK(e[2])

VARIABLES
  tree,     \* the working tree
  trees,    \* the trees there have been (history)
  edits,    \* number of edits so far
  lock,     \* creator of the lock file, or NoProc
  disk,     \* the record file: a damage reason or "OK", and the record
  tmp,      \* tmp[p]: does the temporary file of process id p exist?
  runs,     \* operations started
  pc, op, cfg, stage, pass,  \* control state and inputs of each process
  chain, dir,                \* instruction chain so far, directories done
  walk, listed,              \* files the index still has to look at, and its files
  queue, graph,              \* locations to read, references followed
  todo,                      \* references still to resolve
  src, reasons,              \* fingerprints taken, reasons met
  first,                     \* record of the first pass, then of the capture
  expect,                    \* digest the record must have, or NoRecord
  seen,                      \* record of the last complete check: what was analysed
  plan,                      \* outcome of the operation
  mid, flux, stored          \* history: see StoredIsSnapshot

treeVars == <<tree, trees, edits>>
fileVars == <<lock, disk, tmp>>
passVars == <<chain, dir, walk, listed, queue, graph, todo, src, reasons>>
histVars == <<mid, flux, stored>>
vars == <<tree, trees, edits, lock, disk, tmp, runs, pc, op, cfg, stage, pass, chain,
          dir, walk, listed, queue, graph, todo, src, reasons, first, expect, seen, plan,
          mid, flux, stored>>

NoPlan == Plan("NONE", {}, {}, {})
Failed == Plan("CACHE_MISS", {"CACHE_OPERATION_FAILED"}, {}, {})

Init ==
  /\ tree = InitTree /\ trees = {InitTree} /\ edits = 0
  /\ lock = NoProc
  /\ disk = [kind |-> "CACHE_RECORD_NOT_FOUND", rec |-> NoRecord]
  /\ tmp = [p \in Proc |-> FALSE]
  /\ runs = 0
  /\ pc = [p \in Proc |-> "idle"] /\ op = [p \in Proc |-> "check"]
  /\ cfg \in [Proc -> Configs]
  /\ stage = [p \in Proc |-> "initial"] /\ pass = [p \in Proc |-> 1]
  /\ chain = [p \in Proc |-> <<>>] /\ dir = [p \in Proc |-> 0]
  /\ walk = [p \in Proc |-> {}] /\ listed = [p \in Proc |-> {}]
  /\ queue = [p \in Proc |-> <<>>] /\ graph = [p \in Proc |-> <<>>]
  /\ todo = [p \in Proc |-> <<>>]
  /\ src = [p \in Proc |-> <<>>] /\ reasons = [p \in Proc |-> {}]
  /\ first = [p \in Proc |-> NoRecord] /\ expect = [p \in Proc |-> NoRecord]
  /\ seen = [p \in Proc |-> NoRecord]
  /\ plan = [p \in Proc |-> NoPlan]
  /\ mid = [p \in Proc |-> [tree |-> InitTree, at |-> 0]]
  /\ flux = [p \in Proc |-> {}]
  /\ stored = [tree |-> InitTree, at |-> -1, cfg |-> "none", flux |-> {}]

-----------------------------------------------------------------------------
(* p repeats the discovery of a capture. *)
Rereading(p) == pass[p] = 2 /\ pc[p] \in {"chain", "index", "discover", "resolve"}

(* The environment: an editor, a checkout, git add or commit. *)
Edit(q, c) ==
  /\ edits < MaxEdits
  /\ tree[q] # c
  /\ Restore \/ \A t \in trees : t[q] # c
  /\ tree' = [tree EXCEPT ![q] = c]
  /\ trees' = trees \union {tree'}
  /\ edits' = edits + 1
  /\ flux' = [p \in Proc |-> IF Rereading(p) /\ Exists(c) # Exists(tree[q])
                            THEN flux[p] \union {q} ELSE flux[p]]
  /\ UNCHANGED <<fileVars, runs, pc, op, cfg, stage, pass, passVars, first, expect,
                 seen, plan, mid, stored>>

-----------------------------------------------------------------------------
(* _capture_once starts over with empty working state. *)
BeginPass(p, n) ==
  /\ pc' = [pc EXCEPT ![p] = "chain"]
  /\ pass' = [pass EXCEPT ![p] = n]
  /\ chain' = [chain EXCEPT ![p] = <<>>] /\ dir' = [dir EXCEPT ![p] = 0]
  /\ walk' = [walk EXCEPT ![p] = {}] /\ listed' = [listed EXCEPT ![p] = {}]
  /\ queue' = [queue EXCEPT ![p] = <<>>] /\ graph' = [graph EXCEPT ![p] = <<>>]
  /\ todo' = [todo EXCEPT ![p] = <<>>]
  /\ src' = [src EXCEPT ![p] = <<>>] /\ reasons' = [reasons EXCEPT ![p] = {}]

(* main: check; record by the planner; record by the project adapter,      *)
(* which is given the digest of the snapshot the caller analysed.          *)
Start(p, o, k) ==
  /\ pc[p] \in {"idle", "done"}
  /\ runs < MaxRuns /\ runs' = runs + 1
  /\ o = "adapter" => seen[p] # NoRecord
  /\ op' = [op EXCEPT ![p] = o] /\ cfg' = [cfg EXCEPT ![p] = k]
  /\ stage' = [stage EXCEPT ![p] = "initial"]
  /\ expect' = [expect EXCEPT ![p] = IF o = "adapter" THEN seen[p] ELSE NoRecord]
  /\ first' = [first EXCEPT ![p] = NoRecord]
  /\ plan' = [plan EXCEPT ![p] = NoPlan]
  /\ BeginPass(p, 1)
  /\ UNCHANGED <<treeVars, fileVars, seen, histVars>>

(* The locals of a capture are gone when the operation has its outcome. *)
ForgetPass(p) ==
  /\ pass' = [pass EXCEPT ![p] = 1]
  /\ chain' = [chain EXCEPT ![p] = <<>>] /\ dir' = [dir EXCEPT ![p] = 0]
  /\ walk' = [walk EXCEPT ![p] = {}] /\ listed' = [listed EXCEPT ![p] = {}]
  /\ queue' = [queue EXCEPT ![p] = <<>>] /\ graph' = [graph EXCEPT ![p] = <<>>]
  /\ todo' = [todo EXCEPT ![p] = <<>>]
  /\ src' = [src EXCEPT ![p] = <<>>] /\ reasons' = [reasons EXCEPT ![p] = {}]
  /\ first' = [first EXCEPT ![p] = NoRecord]
  /\ expect' = [expect EXCEPT ![p] = NoRecord]

(* The operation has its outcome; a lock that is held is released by       *)
(* __exit__ on the way out, after an exception (Fail) too.                 *)
Conclude(p, outcome) ==
  /\ plan' = [plan EXCEPT ![p] = outcome]
  /\ pc' = [pc EXCEPT ![p] = IF stage[p] = "locked" THEN "unlock" ELSE "done"]
  /\ ForgetPass(p)

Fail(p) == Conclude(p, Failed)

(* _instruction_chain, one directory. *)
ReadDirectory(p) ==
  /\ pc[p] = "chain" /\ dir[p] < Len(Candidates[cfg[p]])
  /\ LET names == Candidates[cfg[p]][dir[p] + 1]
     IN  /\ chain' = [chain EXCEPT ![p] = @ \o FirstInstruction(tree, names)]
         /\ reasons' = [reasons EXCEPT ![p] = @ \union
                          IF OutsideSeen(tree, names)
                          THEN {"INSTRUCTION_OUTSIDE_REPOSITORY"} ELSE {}]
  /\ dir' = [dir EXCEPT ![p] = @ + 1]
  /\ UNCHANGED <<treeVars, fileVars, runs, pc, op, cfg, stage, pass, walk, listed, queue,
                 graph, todo, src, first, expect, seen, plan, histVars>>

(* The end of _instruction_chain: the repository's files of the chain are  *)
(* read again for their size.  Then _discover_sources has its working      *)
(* state, the index to take and the extra rules to resolve first.          *)
EndChain(p) ==
  /\ pc[p] = "chain" /\ dir[p] = Len(Candidates[cfg[p]])
  /\ IF \E q \in SeqSet(chain[p]) \ GlobalPaths : ~Exists(tree[q])
     THEN Fail(p)
     ELSE /\ reasons' = [reasons EXCEPT ![p] = @ \union ChainReasons(tree, chain[p])]
          /\ walk' = [walk EXCEPT ![p] = Indexed] /\ listed' = [listed EXCEPT ![p] = {}]
          /\ queue' = [queue EXCEPT ![p] = chain[p]]
          /\ graph' = [graph EXCEPT ![p] = [q \in SeqSet(chain[p]) |-> {}]]
          /\ todo' = [todo EXCEPT ![p] = Extra[cfg[p]]]
          /\ pc' = [pc EXCEPT ![p] = "index"]
          /\ UNCHANGED <<plan, pass, chain, dir, src, first, expect>>
  /\ UNCHANGED <<treeVars, fileVars, runs, op, cfg, stage, seen, histVars>>

(* _repo_file_index, one file. *)
IndexFile(p) ==
  /\ pc[p] = "index"
  /\ \E q \in walk[p] :
       /\ walk' = [walk EXCEPT ![p] = @ \ {q}]
       /\ listed' = [listed EXCEPT ![p] = IF Exists(tree[q]) THEN @ \union {q} ELSE @]
  /\ UNCHANGED <<treeVars, fileVars, runs, pc, op, cfg, stage, pass, chain, dir, queue,
                 graph, todo, src, reasons, first, expect, seen, plan, histVars>>

(* The file t is a source of p from now on. *)
Locate(p, t) ==
  /\ queue' = [queue EXCEPT ![p] = IF t \in DOMAIN graph[p] THEN @ ELSE Append(@, t)]
  /\ todo' = [todo EXCEPT ![p] = Tail(@)]

Located(g, t) == [q \in DOMAIN g \union {t} |-> IF q \in DOMAIN g THEN g[q] ELSE {}]

Linked(g, q, t) == [Located(g, t) EXCEPT ![q] = @ \union {t}]

Unlocated(p) ==
  /\ todo' = [todo EXCEPT ![p] = Tail(@)]
  /\ UNCHANGED <<queue, graph>>

(* One extra rule. *)
ResolveExtra(p) ==
  /\ pc[p] = "index" /\ walk[p] = {} /\ todo[p] # <<>>
  /\ LET ref == Head(todo[p])
         t == Found(Present(tree), listed[p], Root, ref.name)
     IN  /\ reasons' = [reasons EXCEPT ![p] = @ \union ReferenceReasons(ref, t)]
         /\ IF t = Nowhere THEN Unlocated(p)
            ELSE Locate(p, t) /\ graph' = [graph EXCEPT ![p] = Located(@, t)]
  /\ UNCHANGED <<treeVars, fileVars, runs, pc, op, cfg, stage, pass, chain, dir, walk,
                 listed, src, first, expect, seen, plan, histVars>>

EndExtra(p) ==
  /\ pc[p] = "index" /\ walk[p] = {} /\ todo[p] = <<>>
  /\ pc' = [pc EXCEPT ![p] = "discover"]
  /\ UNCHANGED <<treeVars, fileVars, runs, op, cfg, stage, pass, passVars, first, expect,
                 seen, plan, histVars>>

(* The text of one location of the queue; a global one is not opened.      *)
ReadText(p) ==
  /\ pc[p] = "discover" /\ queue[p] # <<>>
  /\ LET q == Head(queue[p])
     IN  IF q \notin GlobalPaths /\ ~Exists(tree[q])
         THEN Fail(p)
         ELSE /\ todo' = [todo EXCEPT ![p] = References(q, tree[q])]
              /\ reasons' = [reasons EXCEPT ![p] =
                               @ \union TextReasons(q, tree[q], chain[p])]
              /\ pc' = [pc EXCEPT ![p] = "resolve"]
              /\ UNCHANGED <<plan, pass, chain, dir, walk, listed, queue, graph, src, first,
                             expect>>
  /\ UNCHANGED <<treeVars, fileVars, runs, op, cfg, stage, seen, histVars>>

(* One reference of that text. *)
ResolveReference(p) ==
  /\ pc[p] = "resolve" /\ todo[p] # <<>>
  /\ LET q == Head(queue[p])
         ref == Head(todo[p])
         t == Found(Present(tree), listed[p], q, ref.name)
     IN  /\ reasons' = [reasons EXCEPT ![p] = @ \union ReferenceReasons(ref, t)]
         /\ IF t = Nowhere THEN Unlocated(p)
            ELSE Locate(p, t) /\ graph' = [graph EXCEPT ![p] = Linked(@, q, t)]
  /\ UNCHANGED <<treeVars, fileVars, runs, pc, op, cfg, stage, pass, chain, dir, walk,
                 listed, src, first, expect, seen, plan, histVars>>

EndText(p) ==
  /\ pc[p] = "resolve" /\ todo[p] = <<>>
  /\ queue' = [queue EXCEPT ![p] = Tail(@)]
  /\ pc' = [pc EXCEPT ![p] = "discover"]
  /\ UNCHANGED <<treeVars, fileVars, runs, op, cfg, stage, pass, chain, dir, walk, listed,
                 graph, todo, src, reasons, first, expect, seen, plan, histVars>>

(* _fingerprint_source, one source in a fixed order. *)
TakeFingerprint(p) ==
  /\ pc[p] = "discover" /\ queue[p] = <<>>
  /\ DOMAIN src[p] # DOMAIN graph[p]
  /\ LET q == CHOOSE t \in DOMAIN graph[p] : t \notin DOMAIN src[p]
     IN  IF ~Exists(tree[q])
         THEN Fail(p)
         ELSE /\ src' = [src EXCEPT ![p] =
                           [t \in DOMAIN @ \union {q} |->
                              IF t = q THEN Fingerprint(q, tree[q], graph[p][q], chain[p])
                              ELSE @[t]]]
              /\ UNCHANGED <<pc, plan, pass, chain, dir, walk, listed, queue, graph, todo,
                             reasons, first, expect>>
  /\ UNCHANGED <<treeVars, fileVars, runs, op, cfg, stage, seen, histVars>>

-----------------------------------------------------------------------------
Captured(p) == [cfg |-> Settings[cfg[p]], chain |-> chain[p], src |-> src[p]]

PassDone(p) == /\ pc[p] = "discover" /\ queue[p] = <<>>
               /\ DOMAIN src[p] = DOMAIN graph[p]

(* capture_snapshot: a complete first pass is repeated. *)
SecondPass(p) ==
  /\ PassDone(p) /\ pass[p] = 1 /\ reasons[p] = {}
  /\ first' = [first EXCEPT ![p] = Captured(p)]
  /\ mid' = [mid EXCEPT ![p] = [tree |-> tree, at |-> edits]]
  /\ flux' = [flux EXCEPT ![p] = {}]
  /\ BeginPass(p, 2)
  /\ UNCHANGED <<treeVars, fileVars, runs, op, cfg, stage, expect, seen, plan, stored>>

(* Mutant: the digests of the two passes are not compared. *)
CaptureReasonsUncompared(p) == reasons[p]

(* The verdict of capture_snapshot: the reasons of an incomplete snapshot. *)
CaptureReasons(p) ==
  IF pass[p] = 2 /\ Captured(p) # first[p]
  THEN {"SOURCE_CHANGED_DURING_DISCOVERY"} ELSE reasons[p]

CaptureDone(p) == PassDone(p) /\ (pass[p] = 2 \/ reasons[p] # {})

(* check_cache: the record file is read after the capture. *)
Check(p) ==
  /\ op[p] = "check" /\ CaptureDone(p)
  /\ Conclude(p, IF CaptureReasons(p) # {} THEN Miss(CaptureReasons(p), Captured(p))
                 ELSE IF disk.kind # "OK"
                 THEN Miss({disk.kind} \union IF disk.kind = "CACHE_RECORD_NOT_FOUND"
                                              THEN {"SCOPE_UNKNOWN"} ELSE {}, Captured(p))
                 ELSE CompareStored(disk.rec, Captured(p)))
  /\ seen' = [seen EXCEPT ![p] = IF CaptureReasons(p) = {} THEN Captured(p) ELSE @]
  /\ UNCHANGED <<treeVars, fileVars, runs, op, cfg, stage, histVars>>

(* A record declined: no stable snapshot, or not the analysed one. *)
Declined(p) ==
  Miss(IF op[p] = "adapter" THEN {"ANALYZED_SNAPSHOT_CHANGED"}
       ELSE IF stage[p] = "locked" THEN {"SOURCE_CHANGED_DURING_DISCOVERY"}
       ELSE CaptureReasons(p), Captured(p))

(* Mutants: completeness is enough; the digest is only compared at first. *)
AcceptableUncompared(p) == reasons[p] = {}

AcceptableUnrechecked(p) ==
  /\ CaptureReasons(p) = {}
  /\ op[p] = "adapter" /\ stage[p] = "initial" => Captured(p) = expect[p]

Acceptable(p) ==
  /\ CaptureReasons(p) = {}
  /\ op[p] = "adapter" \/ stage[p] = "locked" => Captured(p) = expect[p]

(* record_cache and _operate before the lock. *)
InitialCapture(p) ==
  /\ op[p] # "check" /\ stage[p] = "initial" /\ CaptureDone(p)
  /\ IF Acceptable(p)
     THEN /\ expect' = [expect EXCEPT ![p] = Captured(p)]
          /\ pc' = [pc EXCEPT ![p] = "lock"]
          /\ UNCHANGED <<plan, pass, passVars, first>>
     ELSE Conclude(p, Declined(p))
  /\ UNCHANGED <<treeVars, fileVars, runs, op, cfg, stage, seen, histVars>>

(* Mutants: O_EXCL is missing; the tree is not captured again. *)
AcquireShared(p) ==
  /\ pc[p] = "lock"
  /\ lock' = p
  /\ stage' = [stage EXCEPT ![p] = "locked"]
  /\ first' = [first EXCEPT ![p] = NoRecord]
  /\ BeginPass(p, 1)
  /\ UNCHANGED <<treeVars, disk, tmp, runs, op, cfg, expect, seen, plan, histVars>>

AcquireNoRecapture(p) ==
  /\ pc[p] = "lock" /\ lock = NoProc
  /\ lock' = p
  /\ stage' = [stage EXCEPT ![p] = "locked"]
  /\ pc' = [pc EXCEPT ![p] = "write"]
  /\ UNCHANGED <<treeVars, disk, tmp, runs, op, cfg, pass, passVars, first, expect, seen,
                 plan, histVars>>

(* _ExclusiveLock.__enter__: O_CREAT | O_EXCL, retried until the deadline. *)
Acquire(p) ==
  /\ pc[p] = "lock" /\ lock = NoProc
  /\ lock' = p
  /\ stage' = [stage EXCEPT ![p] = "locked"]
  /\ first' = [first EXCEPT ![p] = NoRecord]
  /\ BeginPass(p, 1)
  /\ UNCHANGED <<treeVars, disk, tmp, runs, op, cfg, expect, seen, plan, histVars>>

(* Mutant: the lock is polled without a deadline. *)
LockPolled(p) == pc[p] = "lock" /\ lock # NoProc /\ UNCHANGED vars

LockTimeout(p) ==
  /\ pc[p] = "lock" /\ lock # NoProc
  /\ Fail(p)
  /\ UNCHANGED <<treeVars, fileVars, runs, op, cfg, stage, seen, histVars>>

(* The capture under the lock decides whether anything is written. *)
LockedCapture(p) ==
  /\ op[p] # "check" /\ stage[p] = "locked" /\ CaptureDone(p)
  /\ IF Acceptable(p)
     THEN /\ pc' = [pc EXCEPT ![p] = "write"]
          /\ UNCHANGED <<plan, pass, passVars, first, expect>>
     ELSE Conclude(p, Declined(p))
  /\ UNCHANGED <<treeVars, fileVars, runs, op, cfg, stage, seen, histVars>>

(* _atomic_write_json: "xb" fails on a leftover, which finally removes. *)
WriteTemporary(p) ==
  /\ pc[p] = "write"
  /\ IF tmp[p]
     THEN Fail(p) /\ tmp' = [tmp EXCEPT ![p] = FALSE]
     ELSE /\ tmp' = [tmp EXCEPT ![p] = TRUE]
          /\ pc' = [pc EXCEPT ![p] = "replace"]
          /\ UNCHANGED <<plan, pass, passVars, first, expect>>
  /\ UNCHANGED <<treeVars, lock, disk, runs, op, cfg, stage, seen, histVars>>

ReplaceRecord(p) ==
  /\ pc[p] = "replace"
  /\ disk' = [kind |-> "OK", rec |-> Captured(p)]
  /\ stored' = [tree |-> mid[p].tree, at |-> mid[p].at, cfg |-> cfg[p], flux |-> flux[p]]
  /\ tmp' = [tmp EXCEPT ![p] = FALSE]
  /\ Conclude(p, [CompareStored(Captured(p), Captured(p)) EXCEPT
                    !.reasons = @ \union {"CACHE_RECORD_WRITTEN"}])
  /\ UNCHANGED <<treeVars, lock, runs, op, cfg, stage, seen, mid, flux>>

(* _ExclusiveLock.__exit__ *)
Unlock(p) ==
  /\ pc[p] = "unlock"
  /\ lock' = NoProc
  /\ stage' = [stage EXCEPT ![p] = "initial"]
  /\ pc' = [pc EXCEPT ![p] = "done"]
  /\ UNCHANGED <<treeVars, disk, tmp, runs, op, cfg, pass, passVars, first, expect,
                 seen, plan, histVars>>

-----------------------------------------------------------------------------
(* A process is killed: its lock file and its temporary file stay. *)
Crash(p) ==
  /\ pc[p] \notin {"idle", "done", "dead"}
  /\ pc' = [pc EXCEPT ![p] = "dead"]
  /\ plan' = [plan EXCEPT ![p] = NoPlan]
  /\ seen' = [seen EXCEPT ![p] = NoRecord]
  /\ ForgetPass(p)
  /\ UNCHANGED <<treeVars, fileVars, runs, op, cfg, stage, histVars>>

(* A new process with a recycled process id; its session knows nothing. *)
Respawn(p) ==
  /\ pc[p] = "dead" /\ lock # p
  /\ pc' = [pc EXCEPT ![p] = "idle"]
  /\ stage' = [stage EXCEPT ![p] = "initial"]
  /\ UNCHANGED <<treeVars, fileVars, runs, op, cfg, pass, passVars, first, expect, seen,
                 plan, histVars>>

(* The operator removes a lock after making sure that no writer remains. *)
RemoveLock ==
  /\ lock # NoProc /\ pc[lock] = "dead"
  /\ lock' = NoProc
  /\ UNCHANGED <<treeVars, disk, tmp, runs, pc, op, cfg, stage, pass, passVars, first,
                 expect, seen, plan, histVars>>

(* A damaged or foreign record file, as _read_record classifies it. *)
Damages == {"CACHE_RECORD_CORRUPT", "CACHE_SCHEMA_CHANGED"}

Damage(k) ==
  /\ disk.kind = "OK"
  /\ disk' = [kind |-> k, rec |-> NoRecord]
  /\ UNCHANGED <<treeVars, lock, tmp, runs, pc, op, cfg, stage, pass, passVars, first,
                 expect, seen, plan, histVars>>

Step(p) ==
  \/ ReadDirectory(p) \/ EndChain(p) \/ IndexFile(p) \/ ResolveExtra(p) \/ EndExtra(p)
  \/ ReadText(p) \/ ResolveReference(p) \/ EndText(p) \/ TakeFingerprint(p)
  \/ SecondPass(p) \/ Check(p) \/ InitialCapture(p)
  \/ Acquire(p) \/ LockTimeout(p) \/ LockedCapture(p)
  \/ WriteTemporary(p) \/ ReplaceRecord(p) \/ Unlock(p)

Next ==
  \/ \E e \in EditSet : Edit(e[1], e[2])
  \/ \E p \in Proc : \E o \in {"check", "record", "adapter"} : \E k \in Configs : Start(p, o, k)
  \/ \E p \in Proc : Step(p) \/ Crash(p) \/ Respawn(p)
  \/ RemoveLock
  \/ \E k \in Damages : Damage(k)

(* A running process is scheduled; nobody is obliged to edit or to start. *)
Spec == Init /\ [][Next]_vars /\ \A p \in Proc : WF_vars(Step(p))
-----------------------------------------------------------------------------
PcValues == {"idle", "chain", "index", "discover", "resolve", "lock", "write", "replace",
             "unlock", "done", "dead"}

(* The state keeps its type: control states, flags and the lock's owner. *)
CacheTypeOK ==
  /\ lock \in Proc \union {NoProc}
  /\ tmp \in [Proc -> BOOLEAN]
  /\ pc \in [Proc -> PcValues]
  /\ op \in [Proc -> {"check", "record", "adapter"}]
  /\ cfg \in [Proc -> Configs]
  /\ stage \in [Proc -> {"initial", "locked"}]
  /\ pass \in [Proc -> {1, 2}]
  /\ runs \in Nat /\ edits \in Nat

(* Reasons given only for a complete capture. *)
StableReasons ==
  Damages \union {"CACHE_RECORD_NOT_FOUND", "SCOPE_UNKNOWN", "CACHE_RECORD_VALID",
                  "EOL_REPRESENTATION_EQUIVALENT", "DISCOVERY_CONFIGURATION_CHANGED",
                  "INSTRUCTION_CHAIN_CHANGED", "SOURCE_SET_CHANGED", "SOURCE_ADDED",
                  "SOURCE_REMOVED", "SOURCE_RENAMED_OR_MOVED", "DEPENDENCY_GRAPH_CHANGED",
                  "RULE_CONTENT_CHANGED", "RULE_GIT_STATE_CHANGED",
                  "TRANSITIVE_DEPENDENT_INVALIDATED",
                  "INSTRUCTION_CONTENT_OR_GIT_STATE_CHANGED",
                  "INSTRUCTION_CHAIN_FULL_INVALIDATION"}

(* p is inside the with-block of _ExclusiveLock. *)
Inside(p) == stage[p] = "locked" /\ pc[p] # "dead"

(* A live process inside the with-block of _ExclusiveLock owns the lock    *)
(* file, whatever crashed before and whoever removed a dead one's lock, so *)
(* two captures under the lock or two writes never overlap, and the        *)
(* temporary file of a writer is there from its creation to os.replace.    *)
WriterOwnsLock ==
  \A p \in Proc :
    /\ Inside(p) => lock = p
    /\ pc[p] \in {"write", "replace", "unlock"} => Inside(p)
    /\ pc[p] = "replace" => tmp[p]

(* record_cache and _operate publish only a snapshot the tree really had:  *)
(* when no path returns to an earlier content (a blank instruction file    *)
(* counts as none), the chain, the sources, their contents and the texts   *)
(* that were parsed are those of the whole tree at the moment between the  *)
(* two passes of the capture under the lock, although its files were read  *)
(* one at a time; every reference is resolved as in that tree, but for the *)
(* files that came or went during the second pass (flux); and the record   *)
(* passes _validate_record_shape when it is read back.                     *)
StoredIsSnapshot ==
  disk.kind = "OK" =>
    /\ IsRecordOf(disk.rec, stored.cfg, stored.tree, stored.flux)
    /\ ValidRecord(disk.rec)

(* A check that reports a complete capture saw the tree as it was at the   *)
(* moment between its two passes, up to the references whose targets came  *)
(* or went during the second, so its plan and the digest it returns (what  *)
(* the caller analyses and later records) belong to that state.            *)
CheckIsSnapshot ==
  \A p \in Proc :
    op[p] = "check" /\ pc[p] = "done" /\ plan[p].reasons \subseteq StableReasons
    => IsRecordOf(seen[p], cfg[p], mid[p].tree, flux[p])

(* The adapter records exactly the snapshot its caller analysed, however   *)
(* the tree moved between the check, the first capture and the locked one. *)
AdapterRecordsAnalysed ==
  [][\A p \in Proc : ReplaceRecord(p) /\ op[p] = "adapter" => disk'.rec = seen[p]]_vars

(* Because the capture is repeated under the lock, a writer never replaces *)
(* a record by one of an older tree.                                       *)
RecordNeverRegresses == [][stored' # stored => stored'.at >= stored.at]_vars

(* Every operation ends: a lock left by a crashed writer is a timeout, a   *)
(* vanished file a failure, never a wait without end.                      *)
OperationEnds == \A p \in Proc : []<>(pc[p] \in {"idle", "done", "dead"})
=============================================================================
