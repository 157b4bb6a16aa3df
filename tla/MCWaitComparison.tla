-------------------------- MODULE MCWaitComparison --------------------------
(* An instance of WaitComparison for TLC.                                  *)
EXTENDS WaitComparison

MCTypes == {1, 2}

(* The clock is read four times in a capture: it advances during the window, *)
(* not before it and after it.                                               *)
WindowsFill ==
  /\ cycle.pc \in {"reading", "read"} => cycle.start = runs[cycle.run].started
  /\ \A r \in DOMAIN taken \intersect DOMAIN runs : taken[r].read => runs[r].ended = taken[r].end

(* Two types are told apart until something else happens, and then only one  *)
(* is looked at.  What else happens is one thing in one behaviour: the clock *)
(* is set back, the engine restarts, or the purge deletes something.         *)
Purged == last # Cardinality(DOMAIN runs) \/ \E r \in DOMAIN taken : taken[r].thinned
OneDisturbance ==
  /\ backs > 0 => engine = 1 /\ ~Purged
  /\ engine > 1 => ~Purged
  /\ backs > 0 \/ engine > 1 \/ Purged =>
       /\ DOMAIN cycle.seen \subseteq {1}
       /\ \A r \in DOMAIN taken : DOMAIN taken[r].seen \subseteq {1}

Bounded == WindowsFill /\ OneDisturbance
=============================================================================
