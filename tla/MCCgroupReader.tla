-------------------------- MODULE MCCgroupReader --------------------------
(* An instance of CgroupReader: a process below one mount root, a second      *)
(* directory that is deeper than the bound on levels allows, and five kinds   *)
(* of collections.                                                            *)
EXTENDS CgroupReader

TwoHomes == [d \in {"top", "a", "mid", "b"} |->
    CASE d = "top" -> <<"top">> [] d = "a" -> <<"top", "a">>
      [] d = "mid" -> <<"top", "mid">> [] d = "b" -> <<"top", "mid", "b">>]

MemoryAndCpu == <<"memory.max", "cpu.max">>

(* The process and its directories move. *)
Moves == [kinds |-> {"migrate", "exit", "reap", "reuse", "replace", "mount", "unshare"},
          most |-> 4, dirs |-> {}, limits |-> {}]

(* Limits and types are written, and the reads may come too late. *)
Writes == [kinds |-> {"memory.max", "cgroup.type", "deadline"},
           most |-> 2, dirs |-> {"top", "a"}, limits |-> {1, 2}]

(* Reads fail, are late or see the clock jump. *)
Failures == [kinds |-> {"fault", "deadline", "clock", "abi"},
             most |-> 2, dirs |-> {}, limits |-> {}]

(* One resource of several fails or changes. *)
OneOfSeveral == [kinds |-> {"memory.max", "cpu.max", "cpuset.cpus.effective", "fault"},
                 most |-> 1, dirs |-> {"top", "a"}, limits |-> {1}]

(* A process that moves away and back while limits are set where it was. *)
MovesAndLimits == [kinds |-> {"migrate", "memory.max", "cpu.max"}, most |-> 2, dirs |-> {"a"}, limits |-> {1}]

MCTroubles == {Moves, Writes, Failures, OneOfSeveral, MovesAndLimits}
===========================================================================
