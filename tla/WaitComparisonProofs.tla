------------------------- MODULE WaitComparisonProofs -------------------------
(***************************************************************************)
(* What the comparisons of WaitComparison are worth, for any wait types,   *)
(* limits, retentions and clock, whatever was cleared, restarted, failed   *)
(* or was purged between the captures.                                     *)
(*                                                                         *)
(* WaitInv says what the purge leaves of a run: rows it wrote, and, until  *)
(* it takes the first, rows that the next capture finds valid; and that    *)
(* the newest run that finalized is the one the next capture is compared   *)
(* with, since the purge does not take it.                                 *)
(***************************************************************************)
EXTENDS WaitComparison, FiniteSetTheorems, WellFoundedInduction, TLAPS

(* A run number never is NULL; what a run read lies in its window. *)
TakenOK(r, tk) ==
  /\ tk = [read |-> tk.read, cut |-> tk.cut, thinned |-> tk.thinned, epoch |-> tk.epoch,
           engine |-> tk.engine, start |-> tk.start, end |-> tk.end, seen |-> tk.seen,
           written |-> tk.written, status |-> tk.status]
  /\ tk.read => /\ tk.start \in Int /\ tk.end \in Int /\ tk.start <= tk.end
                /\ tk.written \subseteq DOMAIN tk.seen /\ DOMAIN tk.seen \subseteq Types
                /\ \A t \in DOMAIN tk.seen : tk.seen[t] \in Int
                /\ tk.epoch \in 1..r
  /\ ~tk.read => tk.epoch = None

(* The context and the rows of a run, apart from the state they are found in. *)
SoundContext(p, row, s) ==
  \E c \in s.ctx :
    /\ c.run = p /\ c.epoch = row.epoch
    /\ row.started <= c.start /\ c.start <= c.end /\ c.end <= row.ended
    /\ s.at = c.end
    /\ c.parent < p
    /\ CountsAgree(c, row)
    /\ DecisionAgrees(c)

Named(s) == DOMAIN s.raw \union DOMAIN s.delta \union DOMAIN s.cand

SoundRaw(row, s) ==
  \E c \in s.ctx :
    /\ NumberOfSamples(s) = row.count
    /\ Cardinality(Named(s)) = c.written
    /\ DOMAIN s.raw = Named(s) /\ DOMAIN s.delta = Named(s)
    /\ \A t \in DOMAIN s.delta :
         /\ t \in DOMAIN s.cand <=> s.delta[t] = "MONOTONIC_CONTINUITY_UNPROVEN"
         /\ IF c.status \in {"NO_COMPARABLE_TYPES", "MONOTONIC_CONTINUITY_UNPROVEN"}
            THEN s.delta[t] \in {"FIRST_OBSERVATION", "MONOTONIC_CONTINUITY_UNPROVEN"}
            ELSE s.delta[t] = c.status
    /\ Cardinality(DOMAIN s.cand) = c.comparable
    /\ Cardinality(Active(s.raw)) <= c.active
    /\ ~c.limited => Cardinality(Active(s.raw)) = c.active
    /\ s.raw = c.hash

(* The rows of a run that finalized are some of those it wrote. *)
RowsOK(r, row, s, tk) ==
  /\ row.status = "PARTIAL" => tk.read
  /\ tk.read =>
       /\ row.epoch = tk.epoch
       /\ \A t \in DOMAIN s.raw : t \in tk.written /\ s.raw[t] = tk.seen[t]
       /\ \A c \in s.ctx : /\ c.engine = tk.engine /\ c.end = tk.end /\ c.limited = tk.cut
                           /\ c.native = Cardinality(DOMAIN tk.seen)
                           /\ c.hash = On(tk.seen, tk.written)
       /\ ~tk.thinned => row.status = "PARTIAL" /\ SoundContext(r, row, s) /\ SoundRaw(row, s)

(* The properties, of the captures that finalized until now. *)
Older(T, r) == {q \in DOMAIN T : q < r}

Increments(T, r, s) ==
  \A t \in DOMAIN s.cand :
    /\ Older(T, r) # {}
    /\ LET now == T[r]
           before == T[Max(Older(T, r))]
       IN /\ before.read /\ before.engine = now.engine
          /\ before.end <= now.start /\ before.end < now.end
          /\ t \in DOMAIN before.seen \intersect DOMAIN now.seen
          /\ s.cand[t] = now.seen[t] - before.seen[t]
          /\ s.cand[t] >= 0

OneHistory(T, q, r) ==
  (q < r /\ T[q].read /\ T[q].epoch = T[r].epoch) =>
    /\ T[q].engine = T[r].engine
    /\ T[q].end <= T[r].start /\ T[q].end < T[r].end
    /\ \A t \in T[q].written : t \in T[r].written /\ T[q].seen[t] <= T[r].seen[t]
    /\ \A between \in DOMAIN T : q < between /\ between < r => T[between].epoch = T[r].epoch

Compares(T, r) ==
  LET now == T[r]
      before == T[Max(Older(T, r))]
  IN (/\ Older(T, r) # {} /\ now.read /\ before.read
      /\ ~now.cut /\ ~before.cut /\ ~before.thinned
      /\ before.engine = now.engine /\ before.end <= now.start /\ before.end < now.end
      /\ before.written # {} /\ before.written \subseteq DOMAIN now.seen
      /\ \A t \in before.written : before.seen[t] <= now.seen[t])
     => now.status = "MONOTONIC_CONTINUITY_UNPROVEN"

NoRows(s) == DOMAIN s.raw = {} /\ DOMAIN s.delta = {} /\ DOMAIN s.cand = {} /\ s.ctx = {}

RowShape(row) ==
  row = [started |-> row.started, ended |-> row.ended, status |-> row.status,
         epoch |-> row.epoch, count |-> row.count]
RowsShape(s) == s = [at |-> s.at, raw |-> s.raw, delta |-> s.delta, cand |-> s.cand, ctx |-> s.ctx]

RunInv ==
  /\ DOMAIN runs \subseteq 1..last /\ DOMAIN store = DOMAIN runs /\ DOMAIN taken \subseteq 1..last
  /\ \A r \in DOMAIN runs :
       /\ RowShape(runs[r]) /\ runs[r].started \in Nat /\ RowsShape(store[r])
       /\ runs[r].ended # None <=> r \in DOMAIN taken
       /\ r \notin DOMAIN taken => NoRows(store[r])
       /\ r \in DOMAIN taken => RowsOK(r, runs[r], store[r], taken[r])
  /\ \A r \in DOMAIN taken : TakenOK(r, taken[r])

(* The newest run that finalized is never purged. *)
NewestInv ==
  DOMAIN taken = {} \/ \E r \in DOMAIN taken \intersect DOMAIN runs : \A q \in DOMAIN taken : q <= r

CycleInv ==
  /\ cycle = [pc |-> cycle.pc, run |-> cycle.run, start |-> cycle.start, end |-> cycle.end,
              engine |-> cycle.engine, seen |-> cycle.seen, limit |-> cycle.limit]
  /\ cycle.pc # "idle" => cycle.run = last /\ last \in DOMAIN runs \ DOMAIN taken
  /\ cycle.seen = [t \in DOMAIN cycle.seen |-> cycle.seen[t]]
  /\ DOMAIN cycle.seen \subseteq Types /\ \A t \in DOMAIN cycle.seen : cycle.seen[t] \in Nat
  /\ cycle.pc \in {"reading", "read"} => cycle.start \in Nat
  /\ cycle.pc = "read" => cycle.end \in Nat /\ cycle.start <= cycle.end

WaitInv ==
  /\ last \in Nat /\ counters \in [Types -> Nat]
  /\ RunInv /\ NewestInv /\ CycleInv
  /\ \A r \in DOMAIN store : Increments(taken, r, store[r])
  /\ \A q, r \in DOMAIN taken : OneHistory(taken, q, r)
  /\ \A r \in DOMAIN taken : Compares(taken, r)

-----------------------------------------------------------------------------
(* The newest run of a set: identities are bounded, so there is one. *)
LEMMA NewestOf ==
  ASSUME NEW n \in Nat, NEW S \in SUBSET (1..n), S # {}
  PROVE  Max(S) \in S /\ \A q \in S : q <= Max(S)
<1> DEFINE T == {n - q : q \in S}
<1>1. T \subseteq Nat /\ T # {}
  <2>1. \A q \in S : n - q \in Nat
    OBVIOUS
  <2>2. PICK q \in S : TRUE
    OBVIOUS
  <2>3. n - q \in T
    OBVIOUS
  <2> QED BY <2>1, <2>3
<1>2. PICK y \in T : \A z \in T : ~(<<z, y>> \in OpToRel(<, Nat))
  BY <1>1, NatLessThanWellFounded, WFMin
<1>3. \A z \in T : ~(z < y)
  BY <1>1, <1>2 DEF OpToRel
<1>4. PICK m \in S : y = n - m
  OBVIOUS
<1>5. \A q \in S : m >= q
  <2> SUFFICES ASSUME NEW q \in S PROVE m >= q
    OBVIOUS
  <2>1. n - q \in T
    OBVIOUS
  <2> HIDE DEF T
  <2>2. ~(n - q < n - m)
    BY <1>3, <1>4, <2>1
  <2> QED BY <2>2
<1>6. \A q \in S : Max(S) >= q /\ Max(S) \in S
  BY <1>5 DEF Max
<1> QED BY <1>6

LEMMA NewestIs ==
  ASSUME NEW n \in Nat, NEW S \in SUBSET (1..n), NEW m \in S, \A q \in S : q <= m
  PROVE  Max(S) = m
<1> DEFINE x == Max(S)
<1>1. x \in S /\ m <= x
  BY NewestOf
<1> HIDE DEF x
<1>2. x = m
  BY <1>1
<1> QED BY <1>2 DEF x

-----------------------------------------------------------------------------
(* What the later history leaves of the properties of the earlier runs. *)

(* A run more. *)
Longer(T, n, tk, U) ==
  /\ DOMAIN U = DOMAIN T \union {n} /\ U[n] = tk
  /\ \A r \in DOMAIN T : U[r] = T[r] /\ r < n /\ Older(U, r) = Older(T, r)
  /\ \A r \in DOMAIN T : Older(T, r) # {} =>
       Max(Older(T, r)) \in DOMAIN T /\ Max(Older(T, r)) < r
  /\ Older(U, n) = DOMAIN T

LEMMA PutTaken ==
  ASSUME NEW n \in Nat, NEW T, DOMAIN T \subseteq 1..n, n \notin DOMAIN T, NEW tk,
         NEW U, U = Put(T, n, tk)
  PROVE  Longer(T, n, tk, U)
<1>1. DOMAIN U = DOMAIN T \union {n} /\ U[n] = tk /\ \A r \in DOMAIN T : U[r] = T[r] /\ r < n
  BY DEF Put
<1>2. \A r \in DOMAIN T : Older(U, r) = Older(T, r)
  BY <1>1 DEF Older
<1>3. ASSUME NEW r \in DOMAIN T, Older(T, r) # {}
      PROVE  Max(Older(T, r)) \in DOMAIN T /\ Max(Older(T, r)) < r
  <2>1. Older(T, r) \in SUBSET (1..n)
    BY DEF Older
  <2>2. Max(Older(T, r)) \in Older(T, r)
    BY <1>3, <2>1, NewestOf
  <2> DEFINE m == Max(Older(T, r))
  <2> HIDE DEF m
  <2>3. m \in Older(T, r)
    BY <2>2 DEF m
  <2>4. m \in DOMAIN T /\ m < r
    BY <2>3 DEF Older
  <2> QED BY <2>4 DEF m
<1>4. Older(U, n) = DOMAIN T
  BY <1>1 DEF Older
<1> QED BY <1>1, <1>2, <1>3, <1>4 DEF Longer

LEMMA OlderKept ==
  ASSUME NEW n \in Nat, NEW T, DOMAIN T \subseteq 1..n, n \notin DOMAIN T, NEW tk, NEW r \in DOMAIN T,
         NEW U, U = Put(T, n, tk)
  PROVE  /\ \A s : Increments(T, r, s) => Increments(U, r, s)
         /\ \A q \in DOMAIN T : OneHistory(T, q, r) => OneHistory(U, q, r)
         /\ Compares(T, r) => Compares(U, r)
<1>1. /\ DOMAIN U = DOMAIN T \union {n} /\ U[r] = T[r] /\ r < n /\ Older(U, r) = Older(T, r)
      /\ \A q \in DOMAIN T : U[q] = T[q]
      /\ Older(T, r) # {} => Max(Older(T, r)) \in DOMAIN T /\ Max(Older(T, r)) < r
  <2>1. Longer(T, n, tk, U)
    BY PutTaken
  <2> QED BY <2>1 DEF Longer
<1> DEFINE m == Max(Older(T, r))
<1>2. Older(T, r) # {} => U[m] = T[m]
  BY <1>1
<1>3. Max(Older(U, r)) = m
  BY <1>1
<1> HIDE DEF m
<1>4. ASSUME NEW s, Increments(T, r, s) PROVE Increments(U, r, s)
  <2>1. \A t \in DOMAIN s.cand :
          /\ Older(T, r) # {}
          /\ T[m].read /\ T[m].engine = T[r].engine
          /\ T[m].end <= T[r].start /\ T[m].end < T[r].end
          /\ t \in DOMAIN T[m].seen \intersect DOMAIN T[r].seen
          /\ s.cand[t] = T[r].seen[t] - T[m].seen[t]
          /\ s.cand[t] >= 0
    BY <1>4 DEF Increments, m
  <2>2. \A t \in DOMAIN s.cand :
          /\ Older(U, r) # {}
          /\ U[m].read /\ U[m].engine = U[r].engine
          /\ U[m].end <= U[r].start /\ U[m].end < U[r].end
          /\ t \in DOMAIN U[m].seen \intersect DOMAIN U[r].seen
          /\ s.cand[t] = U[r].seen[t] - U[m].seen[t]
          /\ s.cand[t] >= 0
    BY <1>1, <1>2, <2>1
  <2> QED BY <1>3, <2>2 DEF Increments
<1>5. ASSUME NEW q \in DOMAIN T, OneHistory(T, q, r) PROVE OneHistory(U, q, r)
  <2>1. \A between \in DOMAIN U : between < r => between \in DOMAIN T
    BY <1>1
  <2> QED BY <1>1, <1>5, <2>1 DEF OneHistory
<1>6. ASSUME Compares(T, r) PROVE Compares(U, r)
  <2>1. CASE Older(T, r) = {}
    BY <1>1, <2>1 DEF Compares
  <2>2. CASE Older(T, r) # {}
    BY <1>1, <1>2, <1>3, <1>6, <2>2 DEF Compares, m
  <2> QED BY <2>1, <2>2
<1> QED BY <1>4, <1>5, <1>6

(* Rows of a run purged, of which the history takes note. *)
Thinned(T, U) ==
  /\ DOMAIN U = DOMAIN T
  /\ \A r \in DOMAIN T :
       /\ U[r].read = T[r].read /\ U[r].cut = T[r].cut /\ U[r].epoch = T[r].epoch
       /\ U[r].engine = T[r].engine /\ U[r].start = T[r].start /\ U[r].end = T[r].end
       /\ U[r].seen = T[r].seen /\ U[r].written = T[r].written /\ U[r].status = T[r].status
       /\ T[r].thinned => U[r].thinned

LEMMA ThinnedKept ==
  ASSUME NEW n \in Nat, NEW T, DOMAIN T \subseteq 1..n, NEW U, Thinned(T, U), NEW r \in DOMAIN T
  PROVE  /\ \A s : Increments(T, r, s) => Increments(U, r, s)
         /\ \A q \in DOMAIN T : OneHistory(T, q, r) => OneHistory(U, q, r)
         /\ Compares(T, r) => Compares(U, r)
<1>1. Older(U, r) = Older(T, r) /\ Older(T, r) \in SUBSET (1..n)
  BY DEF Older, Thinned
<1> DEFINE m == Max(Older(T, r))
<1>2. Older(T, r) # {} => m \in DOMAIN T
  <2>1. Older(T, r) # {} => m \in Older(T, r)
    BY <1>1, NewestOf
  <2> HIDE DEF m
  <2> QED BY <2>1 DEF Older
<1>3. Max(Older(U, r)) = m
  BY <1>1
<1> HIDE DEF m
<1>4. ASSUME NEW s, Increments(T, r, s) PROVE Increments(U, r, s)
  <2>1. \A t \in DOMAIN s.cand :
          /\ Older(T, r) # {}
          /\ T[m].read /\ T[m].engine = T[r].engine
          /\ T[m].end <= T[r].start /\ T[m].end < T[r].end
          /\ t \in DOMAIN T[m].seen \intersect DOMAIN T[r].seen
          /\ s.cand[t] = T[r].seen[t] - T[m].seen[t]
          /\ s.cand[t] >= 0
    BY <1>4 DEF Increments, m
  <2>2. \A t \in DOMAIN s.cand :
          /\ Older(U, r) # {}
          /\ U[m].read /\ U[m].engine = U[r].engine
          /\ U[m].end <= U[r].start /\ U[m].end < U[r].end
          /\ t \in DOMAIN U[m].seen \intersect DOMAIN U[r].seen
          /\ s.cand[t] = U[r].seen[t] - U[m].seen[t]
          /\ s.cand[t] >= 0
    BY <1>1, <1>2, <2>1 DEF Thinned
  <2> QED BY <1>3, <2>2 DEF Increments
<1>5. ASSUME NEW q \in DOMAIN T, OneHistory(T, q, r) PROVE OneHistory(U, q, r)
  BY <1>5 DEF OneHistory, Thinned
<1>6. ASSUME Compares(T, r) PROVE Compares(U, r)
  <2>1. CASE Older(T, r) = {}
    BY <1>1, <2>1 DEF Compares
  <2>2. CASE Older(T, r) # {}
    <3>1. m \in DOMAIN T
      BY <1>2, <2>2
    <3> QED BY <1>1, <1>3, <1>6, <2>2, <3>1 DEF Compares, m, Thinned
  <2> QED BY <2>1, <2>2
<1> QED BY <1>4, <1>5, <1>6

-----------------------------------------------------------------------------
(* The steps that finalize nothing and purge nothing. *)
LEMMA InitWait == Init => WaitInv
<1> SUFFICES ASSUME Init PROVE WaitInv
  OBVIOUS
<1>1. DOMAIN runs = {} /\ DOMAIN store = {} /\ DOMAIN taken = {} /\ last = 0
  BY DEF Init
<1>2. RunInv /\ NewestInv
  BY <1>1 DEF RunInv, NewestInv
<1>3. cycle = [pc |-> "idle", run |-> 0, start |-> None, end |-> None, engine |-> 0,
               seen |-> Nothing, limit |-> 0]
  BY DEF Init, Idle
<1>4. DOMAIN Nothing = {} /\ Nothing = [t \in DOMAIN Nothing |-> Nothing[t]]
  BY DEF Nothing
<1>5. CycleInv
  BY <1>3, <1>4 DEF CycleInv
<1>6. counters \in [Types -> Nat]
  BY DEF Init
<1> QED BY <1>1, <1>2, <1>5, <1>6 DEF WaitInv

(* What is under way goes from one statement to the next. *)
LEMMA CycleMoves ==
  ASSUME WaitInv, UNCHANGED <<last, runs, store, taken>>, counters' \in [Types -> Nat],
         NEW at, NEW run, NEW from, NEW to, NEW from2, NEW seen, NEW limit,
         cycle' = [pc |-> at, run |-> run, start |-> from, end |-> to, engine |-> from2,
                   seen |-> seen, limit |-> limit],
         at # "idle" => cycle.pc # "idle" /\ run = cycle.run,
         seen = [t \in DOMAIN seen |-> seen[t]],
         DOMAIN seen \subseteq Types, \A t \in DOMAIN seen : seen[t] \in Nat,
         at \in {"reading", "read"} => from \in Nat,
         at = "read" => to \in Nat /\ from <= to
  PROVE  WaitInv'
<1>1. /\ cycle'.pc = at /\ cycle'.run = run /\ cycle'.start = from /\ cycle'.end = to
      /\ cycle'.engine = from2 /\ cycle'.seen = seen /\ cycle'.limit = limit
  OBVIOUS
<1>2. CycleInv'
  BY <1>1 DEF CycleInv, WaitInv
<1>3. RunInv' /\ NewestInv'
  BY DEF WaitInv, RunInv, NewestInv
<1> QED BY <1>2, <1>3 DEF WaitInv

LEMMA NothingSeen ==
  /\ DOMAIN Nothing = {} /\ Nothing = [t \in DOMAIN Nothing |-> Nothing[t]]
  /\ Idle = [pc |-> "idle", run |-> 0, start |-> None, end |-> None, engine |-> 0,
             seen |-> Nothing, limit |-> 0]
  /\ \A at, run : [Idle EXCEPT !.pc = at, !.run = run]
                    = [pc |-> at, run |-> run, start |-> None, end |-> None, engine |-> 0,
                       seen |-> Nothing, limit |-> 0]
<1>1. Idle = [pc |-> "idle", run |-> 0, start |-> None, end |-> None, engine |-> 0,
              seen |-> Nothing, limit |-> 0]
  BY DEF Idle
<1>2. ASSUME NEW at, NEW run
      PROVE  [Idle EXCEPT !.pc = at, !.run = run]
               = [pc |-> at, run |-> run, start |-> None, end |-> None, engine |-> 0,
                  seen |-> Nothing, limit |-> 0]
  <2> DEFINE a == [Idle EXCEPT !.pc = at]
  <2>1. a = [pc |-> at, run |-> 0, start |-> None, end |-> None, engine |-> 0,
             seen |-> Nothing, limit |-> 0]
    BY <1>1
  <2> HIDE DEF a
  <2>2. [a EXCEPT !.run = run] = [pc |-> at, run |-> run, start |-> None, end |-> None, engine |-> 0,
                                  seen |-> Nothing, limit |-> 0]
    BY <2>1
  <2> QED BY <2>2 DEF a
<1>3. DOMAIN Nothing = {} /\ Nothing = [t \in DOMAIN Nothing |-> Nothing[t]]
  BY DEF Nothing
<1> QED BY <1>1, <1>2, <1>3

LEMMA ClearWait == ASSUME WaitInv, Clear PROVE WaitInv'
<1>1. UNCHANGED <<last, runs, store, taken, cycle>> /\ counters' \in [Types -> Nat]
  BY DEF Clear
<1> QED BY <1>1 DEF WaitInv, RunInv, NewestInv, CycleInv

(* Nothing is under way. *)
LEMMA NothingUnderWay == ASSUME cycle' = Idle PROVE CycleInv'
<1>1. cycle' = [pc |-> "idle", run |-> 0, start |-> None, end |-> None, engine |-> 0,
                seen |-> Nothing, limit |-> 0]
  BY NothingSeen
<1>2. /\ cycle'.pc = "idle" /\ cycle'.run = 0 /\ cycle'.start = None /\ cycle'.end = None
      /\ cycle'.engine = 0 /\ cycle'.seen = Nothing /\ cycle'.limit = 0
  BY <1>1
<1>3. cycle' = [pc |-> cycle'.pc, run |-> cycle'.run, start |-> cycle'.start, end |-> cycle'.end,
                engine |-> cycle'.engine, seen |-> cycle'.seen, limit |-> cycle'.limit]
  BY <1>1, <1>2
<1>4. /\ cycle'.seen = [t \in DOMAIN cycle'.seen |-> cycle'.seen[t]]
      /\ DOMAIN cycle'.seen \subseteq Types /\ \A t \in DOMAIN cycle'.seen : cycle'.seen[t] \in Nat
  BY <1>2, NothingSeen
<1> QED BY <1>2, <1>3, <1>4 DEF CycleInv

LEMMA RestartWait == ASSUME WaitInv, Restart \/ Abandon PROVE WaitInv'
<1>1. UNCHANGED <<last, runs, store, taken>> /\ cycle' = Idle /\ counters' \in [Types -> Nat]
  BY DEF Restart, Abandon, WaitInv
<1>2. CycleInv'
  BY <1>1, NothingUnderWay
<1>3. RunInv' /\ NewestInv'
  BY <1>1 DEF WaitInv, RunInv, NewestInv
<1> QED BY <1>1, <1>2, <1>3 DEF WaitInv

LEMMA FailsWait == ASSUME WaitInv, ReadFails \/ CompleteFails PROVE WaitInv'
<1>1. PICK at \in {"unread", "failed"} : cycle' = [Idle EXCEPT !.pc = at, !.run = cycle.run]
  BY DEF ReadFails, CompleteFails
<1>2. UNCHANGED <<last, runs, store, taken>> /\ counters' \in [Types -> Nat] /\ cycle.pc # "idle"
  BY DEF ReadFails, CompleteFails, WaitInv
<1>3. cycle' = [pc |-> at, run |-> cycle.run, start |-> None, end |-> None, engine |-> 0,
                seen |-> Nothing, limit |-> 0]
  <2> DEFINE run == cycle.run
  <2>1. cycle' = [Idle EXCEPT !.pc = at, !.run = run]
    BY <1>1
  <2> HIDE DEF run
  <2> QED BY <2>1, NothingSeen DEF run
<1> QED BY <1>1, <1>2, <1>3, NothingSeen, CycleMoves

LEMMA ReadStartWait == ASSUME WaitInv, ReadStart PROVE WaitInv'
<1>1. PICK now \in 0..MaxClock : cycle' = [cycle EXCEPT !.pc = "reading", !.start = now, !.engine = engine]
  BY DEF ReadStart
<1>2. /\ UNCHANGED <<last, runs, store, taken>> /\ counters' \in [Types -> Nat] /\ cycle.pc # "idle"
      /\ CycleInv
  BY DEF ReadStart, WaitInv
<1> DEFINE a == [cycle EXCEPT !.pc = "reading"]
           b == [a EXCEPT !.start = now]
           was == engine
<1>3. a = [pc |-> "reading", run |-> cycle.run, start |-> cycle.start, end |-> cycle.end,
           engine |-> cycle.engine, seen |-> cycle.seen, limit |-> cycle.limit]
  BY <1>2 DEF CycleInv
<1>4. cycle' = [b EXCEPT !.engine = was] /\ b = [a EXCEPT !.start = now]
  BY <1>1
<1> HIDE DEF a, b, was
<1>5. b = [pc |-> "reading", run |-> cycle.run, start |-> now, end |-> cycle.end,
           engine |-> cycle.engine, seen |-> cycle.seen, limit |-> cycle.limit]
  BY <1>3, <1>4
<1>6. cycle' = [pc |-> "reading", run |-> cycle.run, start |-> now, end |-> cycle.end,
                engine |-> was, seen |-> cycle.seen, limit |-> cycle.limit]
  <2> DEFINE d == cycle'
             e == [b EXCEPT !.engine = was]
  <2>1. e = [pc |-> "reading", run |-> cycle.run, start |-> now, end |-> cycle.end,
             engine |-> was, seen |-> cycle.seen, limit |-> cycle.limit]
    BY <1>5
  <2>2. d = e
    BY <1>4
  <2> HIDE DEF d, e
  <2>3. d = [pc |-> "reading", run |-> cycle.run, start |-> now, end |-> cycle.end,
             engine |-> was, seen |-> cycle.seen, limit |-> cycle.limit]
    BY <2>1, <2>2
  <2> QED BY <2>3 DEF d
<1>7. now \in Nat
  OBVIOUS
<1> QED BY <1>2, <1>6, <1>7, CycleMoves DEF CycleInv

LEMMA ReadTypeWait == ASSUME WaitInv, ReadType PROVE WaitInv'
<1>0. PICK t \in Types \ DOMAIN cycle.seen :
        \E n \in counters[t]..MaxCount :
          /\ counters' = [counters EXCEPT ![t] = n]
          /\ cycle' = [cycle EXCEPT !.seen = Put(@, t, n)]
  BY DEF ReadType
<1>1. PICK n \in counters[t]..MaxCount :
        /\ counters' = [counters EXCEPT ![t] = n]
        /\ cycle' = [cycle EXCEPT !.seen = Put(@, t, n)]
  BY <1>0
<1> DEFINE seen == Put(cycle.seen, t, n)
<1>2. UNCHANGED <<last, runs, store, taken>> /\ cycle.pc = "reading" /\ CycleInv
  BY DEF ReadType, WaitInv
<1>3. counters \in [Types -> Nat] /\ t \in Types /\ counters[t] \in Nat /\ MaxCount \in Nat
  BY WaitAssumption DEF WaitInv
<1>4. n \in Nat /\ counters' \in [Types -> Nat]
  BY <1>1, <1>3
<1>5. cycle' = [pc |-> cycle.pc, run |-> cycle.run, start |-> cycle.start, end |-> cycle.end,
                engine |-> cycle.engine, seen |-> seen, limit |-> cycle.limit]
  <2>1. cycle' = [cycle EXCEPT !.seen = seen]
    BY <1>1
  <2> HIDE DEF seen
  <2> QED BY <1>2, <2>1 DEF CycleInv
<1>6. /\ DOMAIN seen = DOMAIN cycle.seen \union {t} /\ seen = [z \in DOMAIN seen |-> seen[z]]
      /\ \A z \in DOMAIN seen : seen[z] = IF z = t THEN n ELSE cycle.seen[z]
  BY DEF Put
<1> HIDE DEF seen
<1>7. DOMAIN seen \subseteq Types /\ \A z \in DOMAIN seen : seen[z] \in Nat
  BY <1>2, <1>3, <1>4, <1>6 DEF CycleInv
<1> QED BY <1>2, <1>4, <1>5, <1>6, <1>7, CycleMoves DEF CycleInv

LEMMA ReadEndWait == ASSUME WaitInv, ReadEnd PROVE WaitInv'
<1>1. PICK now \in cycle.start..MaxClock : cycle' = [cycle EXCEPT !.pc = "read", !.end = now]
  BY DEF ReadEnd
<1>2. /\ UNCHANGED <<last, runs, store, taken>> /\ counters' \in [Types -> Nat] /\ cycle.pc = "reading"
      /\ CycleInv /\ cycle.start \in Nat
  BY DEF ReadEnd, WaitInv, CycleInv
<1>3. now \in Nat /\ cycle.start <= now
  BY <1>2, WaitAssumption
<1> DEFINE a == [cycle EXCEPT !.pc = "read"]
<1>4. a = [pc |-> "read", run |-> cycle.run, start |-> cycle.start, end |-> cycle.end,
           engine |-> cycle.engine, seen |-> cycle.seen, limit |-> cycle.limit]
  BY <1>2 DEF CycleInv
<1>5. cycle' = [a EXCEPT !.end = now]
  BY <1>1
<1> HIDE DEF a
<1>6. cycle' = [pc |-> "read", run |-> cycle.run, start |-> cycle.start, end |-> now,
                engine |-> cycle.engine, seen |-> cycle.seen, limit |-> cycle.limit]
  BY <1>4, <1>5
<1> QED BY <1>2, <1>3, <1>6, CycleMoves DEF CycleInv

(* A run is opened. *)
LEMMA OpenWait == ASSUME WaitInv, Open PROVE WaitInv'
<1> DEFINE r == last + 1
<1>1. PICK now \in 0..MaxClock :
        runs' = Put(runs, r, [started |-> now, ended |-> None, status |-> "RUNNING",
                              epoch |-> None, count |-> 0])
  BY DEF Open
<1> DEFINE row == [started |-> now, ended |-> None, status |-> "RUNNING", epoch |-> None, count |-> 0]
<1>2. /\ last' = r /\ store' = Put(store, r, Empty) /\ UNCHANGED <<counters, taken>> /\ cycle.pc = "idle"
      /\ cycle' = [Idle EXCEPT !.pc = "opened", !.run = r] /\ RunInv /\ last \in Nat
  BY DEF Open, WaitInv
<1>3. r \in Nat /\ r \notin DOMAIN runs /\ r \notin DOMAIN taken /\ last < r
  BY <1>2 DEF RunInv
<1>4. RowShape(row) /\ row.ended = None /\ row.started \in Nat
  BY DEF RowShape
<1> HIDE DEF row
<1>5. RowsShape(Empty) /\ NoRows(Empty)
  <2>1. Empty = [at |-> None, raw |-> Nothing, delta |-> Nothing, cand |-> Nothing, ctx |-> {}]
    BY DEF Empty
  <2> QED BY <2>1, NothingSeen DEF RowsShape, NoRows
<1>6. cycle' = [pc |-> "opened", run |-> r, start |-> None, end |-> None, engine |-> 0,
                seen |-> Nothing, limit |-> 0]
  <2> HIDE DEF r
  <2> QED BY <1>2, NothingSeen
<1> HIDE DEF r
<1>7. /\ DOMAIN runs' = DOMAIN runs \union {r} /\ runs'[r] = row
      /\ \A q \in DOMAIN runs : runs'[q] = runs[q]
  BY <1>1, <1>3 DEF Put, row
<1>8. /\ DOMAIN store' = DOMAIN runs \union {r} /\ store'[r] = Empty
      /\ \A q \in DOMAIN runs : store'[q] = store[q]
  BY <1>2, <1>3 DEF Put, RunInv
<1>9. RunInv'
  <2>1. DOMAIN runs' \subseteq 1..r /\ DOMAIN store' = DOMAIN runs' /\ DOMAIN taken \subseteq 1..r
    BY <1>2, <1>7, <1>8 DEF RunInv, r
  <2>2. ASSUME NEW q \in DOMAIN runs'
        PROVE  /\ RowShape(runs'[q]) /\ runs'[q].started \in Nat /\ RowsShape(store'[q])
               /\ runs'[q].ended # None <=> q \in DOMAIN taken
               /\ q \notin DOMAIN taken => NoRows(store'[q])
               /\ q \in DOMAIN taken => RowsOK(q, runs'[q], store'[q], taken[q])
    <3>1. CASE q = r
      BY <1>3, <1>4, <1>5, <1>7, <1>8, <3>1
    <3>2. CASE q # r
      <4>1. q \in DOMAIN runs /\ runs'[q] = runs[q] /\ store'[q] = store[q]
        BY <1>7, <1>8, <3>2
      <4> QED BY <1>2, <4>1 DEF RunInv
    <3> QED BY <3>1, <3>2
  <2> QED BY <1>2, <2>1, <2>2 DEF RunInv
<1>10. NewestInv'
  BY <1>2, <1>7 DEF NewestInv, WaitInv
<1>11. CycleInv'
  <2>1. /\ cycle'.pc = "opened" /\ cycle'.run = r /\ cycle'.start = None /\ cycle'.end = None
        /\ cycle'.engine = 0 /\ cycle'.seen = Nothing /\ cycle'.limit = 0
    BY <1>6
  <2>2. cycle' = [pc |-> cycle'.pc, run |-> cycle'.run, start |-> cycle'.start, end |-> cycle'.end,
                  engine |-> cycle'.engine, seen |-> cycle'.seen, limit |-> cycle'.limit]
    BY <1>6, <2>1
  <2>3. last' = r /\ r \in DOMAIN runs' \ DOMAIN taken'
    BY <1>2, <1>3, <1>7
  <2>4. DOMAIN cycle'.seen \subseteq Types /\ \A t \in DOMAIN cycle'.seen : cycle'.seen[t] \in Nat
    BY <2>1, NothingSeen
  <2>5. cycle'.seen = [t \in DOMAIN cycle'.seen |-> cycle'.seen[t]]
    BY <2>1, NothingSeen
  <2> QED BY <2>1, <2>2, <2>3, <2>4, <2>5 DEF CycleInv
<1>12. \A q \in DOMAIN store' : Increments(taken, q, store'[q])
  <2> SUFFICES ASSUME NEW q \in DOMAIN store' PROVE Increments(taken, q, store'[q])
    OBVIOUS
  <2>1. CASE q = r
    BY <1>5, <1>8, <2>1 DEF Increments, NoRows
  <2>2. CASE q # r
    BY <1>2, <1>8, <2>2 DEF WaitInv, RunInv
  <2> QED BY <2>1, <2>2
<1> QED BY <1>2, <1>3, <1>9, <1>10, <1>11, <1>12 DEF WaitInv

-----------------------------------------------------------------------------
(* A run finalizes: what its row, its samples and its history have to be.  *)
LEMMA Finalizes ==
  ASSUME WaitInv, NEW r, r = last, r \in DOMAIN runs, r \notin DOMAIN taken,
         UNCHANGED <<last, counters>>, cycle' = Idle,
         NEW row, NEW s, NEW tk,
         DOMAIN runs' = DOMAIN runs, runs'[r] = row, \A q \in DOMAIN runs : q # r => runs'[q] = runs[q],
         DOMAIN store' = DOMAIN store, store'[r] = s, \A q \in DOMAIN store : q # r => store'[q] = store[q],
         taken' = Put(taken, r, tk),
         RowShape(row), row.started \in Nat, row.ended # None, RowsShape(s),
         RowsOK(r, row, s, tk), TakenOK(r, tk),
         Increments(taken', r, s), \A q \in DOMAIN taken : OneHistory(taken', q, r), Compares(taken', r)
  PROVE  WaitInv'
<1> DEFINE T == taken
           U == taken'
<1>1. /\ last \in Nat /\ DOMAIN T \subseteq 1..last /\ DOMAIN runs \subseteq 1..last /\ U = Put(T, r, tk)
      /\ DOMAIN store = DOMAIN runs
  BY DEF WaitInv, RunInv
<1> HIDE DEF T, U
<1>2. /\ DOMAIN U = DOMAIN T \union {r} /\ U[r] = tk
      /\ \A q \in DOMAIN T : U[q] = T[q] /\ q < r
  <2>1. r \in Nat /\ DOMAIN T \subseteq 1..r /\ r \notin DOMAIN T /\ U = Put(T, r, tk)
    BY <1>1 DEF T
  <2>2. Longer(T, r, tk, U)
    BY <2>1, PutTaken
  <2> QED BY <2>2 DEF Longer
<1>3. \A q \in DOMAIN T :
        /\ \A x : Increments(T, q, x) => Increments(U, q, x)
        /\ \A p \in DOMAIN T : OneHistory(T, p, q) => OneHistory(U, p, q)
        /\ Compares(T, q) => Compares(U, q)
  <2> SUFFICES ASSUME NEW q \in DOMAIN T
               PROVE  /\ \A x : Increments(T, q, x) => Increments(U, q, x)
                      /\ \A p \in DOMAIN T : OneHistory(T, p, q) => OneHistory(U, p, q)
                      /\ Compares(T, q) => Compares(U, q)
    OBVIOUS
  <2>1. r \notin DOMAIN T /\ r \in Nat /\ DOMAIN T \subseteq 1..r
    BY <1>1 DEF T
  <2> QED BY <1>1, <2>1, OlderKept
<1>4. RunInv'
  <2>1. DOMAIN runs' \subseteq 1..last' /\ DOMAIN store' = DOMAIN runs' /\ DOMAIN taken' \subseteq 1..last'
    BY <1>1, <1>2 DEF U
  <2>2. ASSUME NEW q \in DOMAIN runs'
        PROVE  /\ RowShape(runs'[q]) /\ runs'[q].started \in Nat /\ RowsShape(store'[q])
               /\ runs'[q].ended # None <=> q \in DOMAIN taken'
               /\ q \notin DOMAIN taken' => NoRows(store'[q])
               /\ q \in DOMAIN taken' => RowsOK(q, runs'[q], store'[q], taken'[q])
    <3>1. CASE q = r
      BY <1>2, <3>1 DEF U
    <3>2. CASE q # r
      <4>1. /\ q \in DOMAIN runs /\ runs'[q] = runs[q] /\ store'[q] = store[q]
            /\ q \in DOMAIN taken' <=> q \in DOMAIN taken
            /\ q \in DOMAIN taken => taken'[q] = taken[q]
        BY <1>1, <1>2, <3>2 DEF U, T
      <4> QED BY <4>1 DEF RunInv, WaitInv
    <3> QED BY <3>1, <3>2
  <2>3. \A q \in DOMAIN taken' : TakenOK(q, taken'[q])
    BY <1>2 DEF U, T, RunInv, WaitInv
  <2> QED BY <2>1, <2>2, <2>3 DEF RunInv
<1>5. NewestInv'
  <2>1. /\ r \in DOMAIN taken' \intersect DOMAIN runs' /\ r \in Int
        /\ \A q \in DOMAIN taken' : q \in Int /\ (q = r \/ q < r)
    BY <1>1, <1>2 DEF U, T
  <2>2. \A q \in DOMAIN taken' : q <= r
    BY <2>1
  <2> QED BY <2>1, <2>2 DEF NewestInv
<1>6. CycleInv'
  BY NothingUnderWay
<1>7. ASSUME NEW q \in DOMAIN store' PROVE Increments(taken', q, store'[q])
  <2>1. CASE q = r
    BY <2>1
  <2>2. CASE q # r /\ q \in DOMAIN taken
    BY <1>3, <2>2, <1>7 DEF U, T, WaitInv
  <2>3. CASE q # r /\ q \notin DOMAIN taken
    <3>1. NoRows(store'[q])
      BY <1>1, <1>7, <2>3 DEF WaitInv, RunInv
    <3> QED BY <3>1 DEF Increments, NoRows
  <2> QED BY <2>1, <2>2, <2>3
<1>8. ASSUME NEW p \in DOMAIN taken', NEW q \in DOMAIN taken' PROVE OneHistory(taken', p, q)
  <2>1. CASE p \in DOMAIN taken /\ q \in DOMAIN taken
    BY <1>3, <2>1 DEF U, T, WaitInv
  <2>2. CASE p \in DOMAIN taken /\ q = r
    BY <2>2
  <2>3. CASE p = r
    <3>1. ~(p < q)
      BY <1>1, <1>2, <2>3 DEF U, T
    <3> QED BY <3>1 DEF OneHistory
  <2> QED BY <1>2, <2>1, <2>2, <2>3 DEF U, T
<1>9. \A q \in DOMAIN taken' : Compares(taken', q)
  BY <1>2, <1>3 DEF U, T, WaitInv
<1>10. last' \in Nat /\ counters' \in [Types -> Nat]
  BY DEF WaitInv
<1> QED BY <1>4, <1>5, <1>6, <1>7, <1>8, <1>9, <1>10 DEF WaitInv

-----------------------------------------------------------------------------
(* A run that ends without samples. *)
NotRead == [read |-> FALSE, cut |-> FALSE, thinned |-> FALSE, epoch |-> None,
            engine |-> 0, start |-> None, end |-> None, seen |-> Nothing,
            written |-> {}, status |-> "ERROR_HANDLED"]

RowEnded(row, now) == [row EXCEPT !.ended = now, !.status = "ERROR_HANDLED"]

LEMMA NotReadIs == \A r : TakenOK(r, NotRead) /\ ~NotRead.read /\ NotRead.epoch = None
<1>1. /\ NotRead.read = FALSE /\ NotRead.cut = FALSE /\ NotRead.thinned = FALSE /\ NotRead.epoch = None
      /\ NotRead.engine = 0 /\ NotRead.start = None /\ NotRead.end = None /\ NotRead.seen = Nothing
      /\ NotRead.written = {} /\ NotRead.status = "ERROR_HANDLED"
  BY Zenon DEF NotRead
<1>2. NotRead = [read |-> NotRead.read, cut |-> NotRead.cut, thinned |-> NotRead.thinned,
                 epoch |-> NotRead.epoch, engine |-> NotRead.engine, start |-> NotRead.start,
                 end |-> NotRead.end, seen |-> NotRead.seen, written |-> NotRead.written,
                 status |-> NotRead.status]
  BY Zenon DEF NotRead
<1> QED BY <1>1, <1>2, Zenon DEF TakenOK

LEMMA RowEndedIs ==
  ASSUME NEW row, RowShape(row), NEW now
  PROVE  /\ RowEnded(row, now).ended = now /\ RowEnded(row, now).status = "ERROR_HANDLED"
         /\ RowEnded(row, now).started = row.started /\ RowShape(RowEnded(row, now))
<1> DEFINE a == [row EXCEPT !.ended = now]
<1>1. a = [started |-> row.started, ended |-> now, status |-> row.status,
           epoch |-> row.epoch, count |-> row.count]
  BY DEF RowShape
<1>2. RowEnded(row, now) = [a EXCEPT !.status = "ERROR_HANDLED"]
  BY DEF RowEnded
<1> HIDE DEF a
<1>3. RowEnded(row, now) = [started |-> row.started, ended |-> now, status |-> "ERROR_HANDLED",
                            epoch |-> row.epoch, count |-> row.count]
  BY <1>1, <1>2
<1> DEFINE d == RowEnded(row, now)
<1> HIDE DEF d
<1>4. d = [started |-> row.started, ended |-> now, status |-> "ERROR_HANDLED",
           epoch |-> row.epoch, count |-> row.count]
  BY <1>3 DEF d
<1>5. /\ d.ended = now /\ d.status = "ERROR_HANDLED" /\ d.started = row.started
      /\ d.epoch = row.epoch /\ d.count = row.count
  BY <1>4
<1>6. d = [started |-> d.started, ended |-> d.ended, status |-> d.status,
           epoch |-> d.epoch, count |-> d.count]
  BY <1>4, <1>5
<1> QED BY <1>5, <1>6 DEF d, RowShape

LEMMA EndsEmptyWait ==
  ASSUME WaitInv, EndsEmpty(cycle.run), cycle.pc # "idle", cycle' = Idle,
         UNCHANGED <<counters, last, store>>
  PROVE  WaitInv'
<1> DEFINE r == cycle.run
<1>1. r = last /\ r \in DOMAIN runs /\ r \notin DOMAIN taken /\ DOMAIN store = DOMAIN runs
  BY DEF WaitInv, CycleInv, RunInv
<1>2. EndsEmpty(r)
  OBVIOUS
<1> HIDE DEF r
<1>3. taken' = Put(taken, r, NotRead)
  BY <1>2, Zenon DEF EndsEmpty, NotRead
<1>4. PICK now \in 0..MaxClock : runs' = [runs EXCEPT ![r] = RowEnded(runs[r], now)]
  BY <1>2 DEF EndsEmpty, RowEnded
<1> DEFINE row == RowEnded(runs[r], now)
           s == store[r]
<1>5. RowShape(runs[r]) /\ runs[r].started \in Nat /\ RowsShape(s) /\ NoRows(s)
  BY <1>1 DEF WaitInv, RunInv
<1>6. row.ended = now /\ row.status = "ERROR_HANDLED" /\ row.started = runs[r].started /\ RowShape(row)
  BY <1>5, RowEndedIs
<1> HIDE DEF row, s
<1>7. /\ DOMAIN runs' = DOMAIN runs /\ runs'[r] = row
      /\ \A q \in DOMAIN runs : q # r => runs'[q] = runs[q]
  BY <1>1, <1>4 DEF row
<1>8. row.ended # None
  BY <1>6 DEF None
<1>9. /\ DOMAIN store' = DOMAIN store /\ store'[r] = s
      /\ \A q \in DOMAIN store : q # r => store'[q] = store[q]
  BY DEF s
<1>10. RowsOK(r, row, s, NotRead) /\ TakenOK(r, NotRead)
  BY <1>6, NotReadIs DEF RowsOK
<1>11. Increments(taken', r, s)
  BY <1>5 DEF Increments, NoRows
<1>12. last \in Nat /\ DOMAIN taken \subseteq 1..r /\ r \in Nat
  BY <1>1 DEF WaitInv, RunInv
<1>13. taken'[r] = NotRead /\ \A q \in DOMAIN taken : taken'[q] = taken[q]
  <2> DEFINE T == taken
             U == taken'
             tk == NotRead
  <2>1. r \in Nat /\ DOMAIN T \subseteq 1..r /\ r \notin DOMAIN T /\ U = Put(T, r, tk)
    BY <1>1, <1>3, <1>12
  <2> HIDE DEF T, U, tk
  <2>2. Longer(T, r, tk, U)
    BY <2>1, PutTaken
  <2> QED BY <2>2 DEF Longer, T, U, tk
<1>14. ASSUME NEW q \in DOMAIN taken PROVE OneHistory(taken', q, r)
  <2>1. taken[q].read => taken[q].epoch \in 1..q
    BY DEF WaitInv, RunInv, TakenOK
  <2>2. taken[q].read => taken[q].epoch # None
    BY <2>1 DEF None
  <2> QED BY <1>13, <2>2, NotReadIs DEF OneHistory
<1>15. Compares(taken', r)
  BY <1>13, NotReadIs DEF Compares
<1> QED BY <1>1, <1>3, <1>5, <1>6, <1>7, <1>8, <1>9, <1>10, <1>11, <1>14, <1>15, Finalizes

LEMMA FinalizeWait == ASSUME WaitInv, FinalizeUnread \/ FinalizeFailure PROVE WaitInv'
<1>1. EndsEmpty(cycle.run) /\ cycle.pc # "idle" /\ cycle' = Idle /\ UNCHANGED <<counters, last, store>>
  BY DEF FinalizeUnread, FinalizeFailure
<1> QED BY <1>1, EndsEmptyWait

-----------------------------------------------------------------------------
(* The purge. *)

(* Some rows of a run, as they were. *)
Less(s, left) ==
  /\ RowsShape(left) /\ left.ctx \subseteq s.ctx
  /\ DOMAIN left.raw \subseteq DOMAIN s.raw /\ \A t \in DOMAIN left.raw : left.raw[t] = s.raw[t]
  /\ DOMAIN left.cand \subseteq DOMAIN s.cand /\ \A t \in DOMAIN left.cand : left.cand[t] = s.cand[t]

RawLess(s, t) == [s EXCEPT !.raw = Without(@, t)]
DeltaLess(s, t) == [s EXCEPT !.delta = Without(@, t)]
CandLess(s, t) == [s EXCEPT !.cand = Without(@, t)]
CtxLess(s, c) == [s EXCEPT !.ctx = @ \ {c}]

LEMMA LessIs ==
  ASSUME NEW s, RowsShape(s), NEW t
  PROVE  Less(s, RawLess(s, t)) /\ Less(s, DeltaLess(s, t)) /\ Less(s, CandLess(s, t)) /\ Less(s, CtxLess(s, t))
<1> DEFINE raw == Without(s.raw, t)
           delta == Without(s.delta, t)
           cand == Without(s.cand, t)
           ctx == s.ctx \ {t}
<1>1. /\ DOMAIN raw \subseteq DOMAIN s.raw /\ \A x \in DOMAIN raw : raw[x] = s.raw[x]
      /\ DOMAIN cand \subseteq DOMAIN s.cand /\ \A x \in DOMAIN cand : cand[x] = s.cand[x]
  BY DEF Without
<1>2. ctx \subseteq s.ctx
  OBVIOUS
<1>3. s = [at |-> s.at, raw |-> s.raw, delta |-> s.delta, cand |-> s.cand, ctx |-> s.ctx]
  BY DEF RowsShape
<1>4. /\ RawLess(s, t) = [s EXCEPT !.raw = raw] /\ DeltaLess(s, t) = [s EXCEPT !.delta = delta]
      /\ CandLess(s, t) = [s EXCEPT !.cand = cand] /\ CtxLess(s, t) = [s EXCEPT !.ctx = ctx]
  BY DEF RawLess, DeltaLess, CandLess, CtxLess
<1> HIDE DEF raw, delta, cand, ctx
<1>5. /\ RawLess(s, t) = [at |-> s.at, raw |-> raw, delta |-> s.delta, cand |-> s.cand, ctx |-> s.ctx]
      /\ DeltaLess(s, t) = [at |-> s.at, raw |-> s.raw, delta |-> delta, cand |-> s.cand, ctx |-> s.ctx]
      /\ CandLess(s, t) = [at |-> s.at, raw |-> s.raw, delta |-> s.delta, cand |-> cand, ctx |-> s.ctx]
      /\ CtxLess(s, t) = [at |-> s.at, raw |-> s.raw, delta |-> s.delta, cand |-> s.cand, ctx |-> ctx]
  BY <1>3, <1>4
<1>6. Less(s, RawLess(s, t))
  BY <1>1, <1>5 DEF Less, RowsShape
<1>7. Less(s, DeltaLess(s, t))
  BY <1>5 DEF Less, RowsShape
<1>8. Less(s, CandLess(s, t))
  BY <1>1, <1>5 DEF Less, RowsShape
<1>9. Less(s, CtxLess(s, t))
  BY <1>2, <1>5 DEF Less, RowsShape
<1> QED BY <1>6, <1>7, <1>8, <1>9

(* The history takes note of it. *)
Noted(tk) == [tk EXCEPT !.thinned = TRUE]

LEMMA NotedIs ==
  ASSUME NEW r, NEW tk, TakenOK(r, tk)
  PROVE  /\ TakenOK(r, Noted(tk)) /\ Noted(tk).thinned
         /\ Noted(tk).read = tk.read /\ Noted(tk).cut = tk.cut /\ Noted(tk).epoch = tk.epoch
         /\ Noted(tk).engine = tk.engine /\ Noted(tk).start = tk.start /\ Noted(tk).end = tk.end
         /\ Noted(tk).seen = tk.seen /\ Noted(tk).written = tk.written /\ Noted(tk).status = tk.status
<1> DEFINE yes == TRUE
           u == [tk EXCEPT !.thinned = yes]
<1>1. tk = [read |-> tk.read, cut |-> tk.cut, thinned |-> tk.thinned, epoch |-> tk.epoch,
            engine |-> tk.engine, start |-> tk.start, end |-> tk.end, seen |-> tk.seen,
            written |-> tk.written, status |-> tk.status]
  BY DEF TakenOK
<1>2. Noted(tk) = u
  BY DEF Noted
<1> HIDE DEF yes
<1>3. u = [read |-> tk.read, cut |-> tk.cut, thinned |-> yes, epoch |-> tk.epoch,
           engine |-> tk.engine, start |-> tk.start, end |-> tk.end, seen |-> tk.seen,
           written |-> tk.written, status |-> tk.status]
  BY <1>1
<1> HIDE DEF u
<1>4. /\ u.read = tk.read /\ u.cut = tk.cut /\ u.thinned = yes /\ u.epoch = tk.epoch
      /\ u.engine = tk.engine /\ u.start = tk.start /\ u.end = tk.end /\ u.seen = tk.seen
      /\ u.written = tk.written /\ u.status = tk.status
  BY <1>3
<1>5. u = [read |-> u.read, cut |-> u.cut, thinned |-> u.thinned, epoch |-> u.epoch,
           engine |-> u.engine, start |-> u.start, end |-> u.end, seen |-> u.seen,
           written |-> u.written, status |-> u.status]
  BY <1>3, <1>4
<1>6. TakenOK(r, u)
  BY <1>4, <1>5 DEF TakenOK
<1>7. u.thinned
  BY <1>4, Zenon DEF yes
<1> QED BY <1>2, <1>4, <1>6, <1>7

LEMMA PurgeSampleWait == ASSUME WaitInv, PurgeSample PROVE WaitInv'
<1>1. PICK r \in DOMAIN store :
        \E left : /\ \/ \E t \in DOMAIN store[r].raw : left = RawLess(store[r], t)
                     \/ \E t \in DOMAIN store[r].delta : left = DeltaLess(store[r], t)
                     \/ \E t \in DOMAIN store[r].cand : left = CandLess(store[r], t)
                     \/ \E c \in store[r].ctx : left = CtxLess(store[r], c)
                  /\ store' = [store EXCEPT ![r] = left]
                  /\ taken' = [taken EXCEPT ![r] = Noted(taken[r])]
  <2>1. PICK now \in 0..MaxClock, r \in DOMAIN store, days \in Retention :
          LET s == store[r]
              rest == {[s EXCEPT !.raw = Without(@, t)] : t \in DOMAIN s.raw}
                        \union {[s EXCEPT !.delta = Without(@, t)] : t \in DOMAIN s.delta}
                        \union {[s EXCEPT !.cand = Without(@, t)] : t \in DOMAIN s.cand}
                        \union {[s EXCEPT !.ctx = @ \ {c}] : c \in s.ctx}
          IN /\ Reads(now) /\ s.at < now - days
             /\ \E left \in rest : store' = [store EXCEPT ![r] = left]
             /\ taken' = [taken EXCEPT ![r].thinned = TRUE]
    BY DEF PurgeSample
  <2> DEFINE s == store[r]
             rest == {RawLess(s, t) : t \in DOMAIN s.raw}
                       \union {DeltaLess(s, t) : t \in DOMAIN s.delta}
                       \union {CandLess(s, t) : t \in DOMAIN s.cand}
                       \union {CtxLess(s, c) : c \in s.ctx}
  <2>2. PICK left \in rest : store' = [store EXCEPT ![r] = left]
    BY <2>1 DEF RawLess, DeltaLess, CandLess, CtxLess
  <2>3. taken' = [taken EXCEPT ![r] = Noted(taken[r])]
    BY <2>1 DEF Noted
  <2>4. \/ \E t \in DOMAIN s.raw : left = RawLess(s, t)
        \/ \E t \in DOMAIN s.delta : left = DeltaLess(s, t)
        \/ \E t \in DOMAIN s.cand : left = CandLess(s, t)
        \/ \E c \in s.ctx : left = CtxLess(s, c)
    BY <2>2
  <2> QED BY <2>2, <2>3, <2>4
<1>2. PICK left : /\ \/ \E t \in DOMAIN store[r].raw : left = RawLess(store[r], t)
                     \/ \E t \in DOMAIN store[r].delta : left = DeltaLess(store[r], t)
                     \/ \E t \in DOMAIN store[r].cand : left = CandLess(store[r], t)
                     \/ \E c \in store[r].ctx : left = CtxLess(store[r], c)
                  /\ store' = [store EXCEPT ![r] = left]
                  /\ taken' = [taken EXCEPT ![r] = Noted(taken[r])]
  BY <1>1
<1> DEFINE s == store[r]
           T == taken
           U == taken'
<1>3. /\ last \in Nat /\ DOMAIN T \subseteq 1..last /\ DOMAIN store = DOMAIN runs /\ r \in DOMAIN runs
      /\ UNCHANGED <<counters, last, runs, cycle>> /\ RowsShape(s)
  BY DEF PurgeSample, WaitInv, RunInv
<1>4. r \in DOMAIN taken
  <2>1. ~NoRows(s)
    BY <1>2 DEF NoRows
  <2> QED BY <1>3, <2>1 DEF WaitInv, RunInv
<1>5. Less(s, left)
  BY <1>2, <1>3, LessIs
<1>6. /\ DOMAIN store' = DOMAIN store /\ store'[r] = left
      /\ \A q \in DOMAIN store : q # r => store'[q] = store[q]
  BY <1>2
<1>7. /\ DOMAIN U = DOMAIN T /\ U[r] = Noted(T[r])
      /\ \A q \in DOMAIN T : q # r => U[q] = T[q]
  BY <1>2, <1>4
<1>8. TakenOK(r, T[r])
  BY <1>4 DEF WaitInv, RunInv
<1> HIDE DEF s
<1>9. Thinned(T, U)
  <2> HIDE DEF T, U
  <2>1. \A q \in DOMAIN T :
          /\ U[q].read = T[q].read /\ U[q].cut = T[q].cut /\ U[q].epoch = T[q].epoch
          /\ U[q].engine = T[q].engine /\ U[q].start = T[q].start /\ U[q].end = T[q].end
          /\ U[q].seen = T[q].seen /\ U[q].written = T[q].written /\ U[q].status = T[q].status
          /\ T[q].thinned => U[q].thinned
    <3> SUFFICES ASSUME NEW q \in DOMAIN T
                 PROVE  /\ U[q].read = T[q].read /\ U[q].cut = T[q].cut /\ U[q].epoch = T[q].epoch
                        /\ U[q].engine = T[q].engine /\ U[q].start = T[q].start /\ U[q].end = T[q].end
                        /\ U[q].seen = T[q].seen /\ U[q].written = T[q].written /\ U[q].status = T[q].status
                        /\ T[q].thinned => U[q].thinned
      OBVIOUS
    <3>1. CASE q = r
      BY <1>7, <1>8, NotedIs, <3>1
    <3>2. CASE q # r
      BY <1>7, <3>2
    <3> QED BY <3>1, <3>2
  <2> QED BY <1>7, <2>1 DEF Thinned
<1>10. \A q \in DOMAIN T :
         /\ \A x : Increments(T, q, x) => Increments(U, q, x)
         /\ \A p \in DOMAIN T : OneHistory(T, p, q) => OneHistory(U, p, q)
         /\ Compares(T, q) => Compares(U, q)
  <2> HIDE DEF T, U
  <2> SUFFICES ASSUME NEW q \in DOMAIN T
               PROVE  /\ \A x : Increments(T, q, x) => Increments(U, q, x)
                      /\ \A p \in DOMAIN T : OneHistory(T, p, q) => OneHistory(U, p, q)
                      /\ Compares(T, q) => Compares(U, q)
    OBVIOUS
  <2> QED BY <1>3, <1>9, ThinnedKept
<1>11. RunInv'
  <2>1. /\ DOMAIN runs' \subseteq 1..last' /\ DOMAIN store' = DOMAIN runs'
        /\ DOMAIN taken' \subseteq 1..last'
    BY <1>3, <1>6, <1>7 DEF WaitInv, RunInv
  <2>2. ASSUME NEW q \in DOMAIN runs'
        PROVE  /\ RowShape(runs'[q]) /\ runs'[q].started \in Nat /\ RowsShape(store'[q])
               /\ runs'[q].ended # None <=> q \in DOMAIN taken'
               /\ q \notin DOMAIN taken' => NoRows(store'[q])
               /\ q \in DOMAIN taken' => RowsOK(q, runs'[q], store'[q], taken'[q])
    <3>1. CASE q = r
      <4>1. RowShape(runs[r]) /\ runs[r].started \in Nat /\ (runs[r].ended # None <=> r \in DOMAIN taken)
        BY <1>3 DEF WaitInv, RunInv
      <4>2. RowsOK(r, runs[r], s, T[r])
        BY <1>3, <1>4 DEF WaitInv, RunInv, s
      <4>3. RowsShape(left)
        BY <1>5 DEF Less
      <4>4. RowsOK(r, runs[r], left, Noted(T[r]))
        <5> DEFINE u == Noted(T[r])
        <5>1. u.thinned /\ u.read = T[r].read /\ u.epoch = T[r].epoch /\ u.written = T[r].written
              /\ u.seen = T[r].seen /\ u.engine = T[r].engine /\ u.end = T[r].end /\ u.cut = T[r].cut
          BY <1>8, NotedIs
        <5> HIDE DEF u, T
        <5>2. RowsOK(r, runs[r], left, u)
          BY <1>5, <4>2, <5>1 DEF RowsOK, Less
        <5> QED BY <5>2 DEF u
      <4> QED BY <1>3, <1>4, <1>6, <1>7, <3>1, <4>1, <4>3, <4>4
    <3>2. CASE q # r
      <4>1. /\ q \in DOMAIN runs /\ runs'[q] = runs[q] /\ store'[q] = store[q]
            /\ q \in DOMAIN taken' <=> q \in DOMAIN taken
            /\ q \in DOMAIN taken => taken'[q] = taken[q]
        BY <1>3, <1>6, <1>7, <3>2
      <4> QED BY <4>1 DEF RunInv, WaitInv
    <3> QED BY <3>1, <3>2
  <2>3. \A q \in DOMAIN taken' : TakenOK(q, taken'[q])
    <3> SUFFICES ASSUME NEW q \in DOMAIN taken' PROVE TakenOK(q, taken'[q])
      OBVIOUS
    <3>1. CASE q = r
      BY <1>7, <1>8, NotedIs, <3>1
    <3>2. CASE q # r
      BY <1>7, <3>2 DEF WaitInv, RunInv
    <3> QED BY <3>1, <3>2
  <2> QED BY <2>1, <2>2, <2>3 DEF RunInv
<1>12. NewestInv' /\ CycleInv'
  BY <1>3, <1>7 DEF WaitInv, NewestInv, CycleInv
<1>13. ASSUME NEW q \in DOMAIN store' PROVE Increments(taken', q, store'[q])
  <2>1. CASE q = r
    <3>1. Increments(T, r, s)
      BY <1>3, <1>6 DEF WaitInv, s
    <3>2. Increments(U, r, s)
      BY <1>4, <1>10, <3>1
    <3> HIDE DEF U
    <3>3. Increments(U, r, left)
      BY <1>5, <3>2 DEF Increments, Less
    <3> QED BY <1>6, <2>1, <3>3 DEF U
  <2>2. CASE q # r /\ q \in DOMAIN taken
    BY <1>6, <1>10, <2>2, <1>13 DEF WaitInv
  <2>3. CASE q # r /\ q \notin DOMAIN taken
    <3>1. NoRows(store'[q])
      BY <1>3, <1>6, <1>13, <2>3 DEF WaitInv, RunInv
    <3> QED BY <3>1 DEF Increments, NoRows
  <2> QED BY <2>1, <2>2, <2>3
<1>14. \A p, q \in DOMAIN taken' : OneHistory(taken', p, q)
  BY <1>7, <1>10 DEF WaitInv
<1>15. \A q \in DOMAIN taken' : Compares(taken', q)
  BY <1>7, <1>10 DEF WaitInv
<1>16. last' \in Nat /\ counters' \in [Types -> Nat]
  BY <1>3 DEF WaitInv
<1> QED BY <1>11, <1>12, <1>13, <1>14, <1>15, <1>16 DEF WaitInv

(* Only a run that is not the newest finalized one is purged. *)
LEMMA PurgeRunWait == ASSUME WaitInv, PurgeRun PROVE WaitInv'
<1>1. PICK r \in DOMAIN runs : Superseded(r) /\ runs' = Without(runs, r) /\ store' = Without(store, r)
  BY DEF PurgeRun
<1>2. /\ UNCHANGED <<counters, last, cycle, taken>> /\ cycle.pc = "idle" /\ last \in Nat
      /\ DOMAIN store = DOMAIN runs /\ DOMAIN taken \subseteq 1..last /\ DOMAIN runs \subseteq 1..last
  BY DEF PurgeRun, WaitInv, RunInv
<1>3. /\ DOMAIN runs' = DOMAIN runs \ {r} /\ \A q \in DOMAIN runs' : runs'[q] = runs[q]
      /\ DOMAIN store' = DOMAIN runs \ {r} /\ \A q \in DOMAIN store' : store'[q] = store[q]
  BY <1>1, <1>2 DEF Without
<1>4. RunInv'
  BY <1>2, <1>3 DEF WaitInv, RunInv
<1>5. NewestInv'
  <2> SUFFICES ASSUME DOMAIN taken # {}
               PROVE  \E q \in DOMAIN taken \intersect DOMAIN runs' : \A p \in DOMAIN taken : p <= q
    BY <1>2 DEF NewestInv
  <2>1. PICK q \in DOMAIN taken \intersect DOMAIN runs : \A p \in DOMAIN taken : p <= q
    BY DEF WaitInv, NewestInv
  <2>2. q # r
    <3> SUFFICES ASSUME q = r PROVE FALSE
      OBVIOUS
    <3>1. runs[r].ended # None
      BY <2>1 DEF WaitInv, RunInv
    <3>2. PICK later \in Finalized : later > r
      BY <1>1, <3>1 DEF Superseded
    <3>3. later \in DOMAIN taken
      BY <3>2 DEF Finalized, WaitInv, RunInv
    <3> QED BY <1>2, <2>1, <3>2, <3>3
  <2> QED BY <1>3, <2>1, <2>2
<1>6. CycleInv'
  BY <1>2 DEF WaitInv, CycleInv
<1>7. \A q \in DOMAIN store' : Increments(taken', q, store'[q])
  BY <1>2, <1>3 DEF WaitInv
<1> QED BY <1>2, <1>4, <1>5, <1>6, <1>7 DEF WaitInv

-----------------------------------------------------------------------------
(* A capture that is read, and what it may write. *)
Capturing(k) ==
  /\ k.run = last /\ last \in DOMAIN runs /\ last \notin DOMAIN taken
  /\ DOMAIN k.seen \subseteq Types /\ k.seen = [t \in DOMAIN k.seen |-> k.seen[t]]
  /\ \A t \in DOMAIN k.seen : k.seen[t] \in Nat
  /\ k.start \in Nat /\ k.end \in Nat /\ k.start <= k.end
  /\ k.limit \in Nat \ {0}

LEMMA SelectedIs ==
  ASSUME NEW k, Capturing(k)
  PROVE  /\ Eligible(k) \subseteq DOMAIN k.seen /\ Selected(k) \subseteq Eligible(k)
         /\ Active(k.seen) \subseteq Eligible(k)
         /\ IsFiniteSet(DOMAIN k.seen) /\ IsFiniteSet(Eligible(k)) /\ IsFiniteSet(Selected(k))
         /\ ~Limited(k) => Selected(k) = Eligible(k)
         /\ Eligible(k) # {} => Selected(k) # {}
<1> DEFINE E == Eligible(k)
           S == Selected(k)
<1>1. E \subseteq DOMAIN k.seen /\ Active(k.seen) \subseteq E
  BY DEF Eligible, Active
<1>2. S = {t \in E : Cardinality({u \in E : u <= t}) <= k.limit}
  BY DEF Selected
<1>3. DOMAIN k.seen \subseteq Types /\ Types \subseteq Nat /\ IsFiniteSet(Types) /\ k.limit \in Nat \ {0}
  BY WaitAssumption DEF Capturing
<1>4. Limited(k) <=> Cardinality(S) < Cardinality(E)
  BY DEF Limited
<1> HIDE DEF E, S
<1>5. S \subseteq E
  BY <1>2
<1>6. IsFiniteSet(DOMAIN k.seen)
  BY <1>3, FS_Subset
<1>7. IsFiniteSet(E)
  BY <1>1, <1>6, FS_Subset
<1>8. IsFiniteSet(S)
  BY <1>5, <1>7, FS_Subset
<1>9. ASSUME ~Limited(k) PROVE S = E
  <2>1. Cardinality(S) \in Nat /\ Cardinality(E) \in Nat
    BY <1>7, <1>8, FS_CardinalityType
  <2>2. Cardinality(S) <= Cardinality(E) /\ (Cardinality(S) = Cardinality(E) => E = S)
    BY <1>5, <1>7, FS_Subset
  <2> QED BY <1>4, <1>9, <2>1, <2>2
<1>10. ASSUME E # {} PROVE S # {}
  <2>1. E \subseteq Nat
    BY <1>1, <1>3
  <2>2. PICK m \in E : \A z \in E : ~(<<z, m>> \in OpToRel(<, Nat))
    BY <1>10, <2>1, NatLessThanWellFounded, WFMin
  <2>3. \A z \in E : ~(z < m)
    BY <2>1, <2>2 DEF OpToRel
  <2>4. {u \in E : u <= m} = {m}
    <3>1. \A u \in E : u \in Nat /\ ~(u < m) /\ m \in Nat
      BY <2>1, <2>3
    <3>2. \A u \in E : u <= m <=> u = m
      BY <3>1
    <3> QED BY <3>2
  <2>5. Cardinality({u \in E : u <= m}) = 1
    BY <2>4, FS_Singleton
  <2>6. 1 <= k.limit
    BY <1>3
  <2> QED BY <1>2, <2>5, <2>6
<1> QED BY <1>1, <1>5, <1>6, <1>7, <1>8, <1>9, <1>10 DEF E, S

(* The run it is compared with is the newest that finalized, and its row is there. *)
LEMMA PreviousIs ==
  ASSUME WaitInv, last \in DOMAIN runs, last \notin DOMAIN taken
  PROVE  /\ Previous(last) = 0 => DOMAIN taken = {}
         /\ Previous(last) # 0 =>
              /\ Previous(last) \in DOMAIN taken /\ Previous(last) \in DOMAIN runs
              /\ Previous(last) < last
              /\ \A q \in DOMAIN taken : q <= Previous(last)
              /\ Max(DOMAIN taken) = Previous(last)
         /\ Previous(last) \in Nat /\ Previous(last) < last
<1> DEFINE older == {q \in Finalized : q < last}
<1>1. /\ last \in Nat /\ DOMAIN taken \subseteq 1..last /\ DOMAIN runs \subseteq 1..last
      /\ \A q \in DOMAIN runs : runs[q].ended # None <=> q \in DOMAIN taken
  BY DEF WaitInv, RunInv
<1>2. older = DOMAIN taken \intersect DOMAIN runs
  BY <1>1 DEF Finalized
<1>3. Previous(last) = IF older = {} THEN 0 ELSE Max(older)
  BY DEF Previous
<1> DEFINE p == Previous(last)
<1> HIDE DEF older, p
<1>4. CASE DOMAIN taken = {}
  <2>1. p = 0
    BY <1>2, <1>3, <1>4 DEF p
  <2> QED BY <1>1, <1>4, <2>1 DEF p
<1>5. CASE DOMAIN taken # {}
  <2>1. PICK m \in older : \A q \in DOMAIN taken : q <= m
    BY <1>2, <1>5 DEF WaitInv, NewestInv
  <2>2. older \in SUBSET (1..last) /\ \A q \in older : q <= m
    BY <1>1, <1>2, <2>1
  <2>3. Max(older) = m
    BY <1>1, <2>1, <2>2, NewestIs
  <2>4. p = m
    BY <1>3, <2>1, <2>3 DEF p
  <2>5. m \in DOMAIN taken /\ m \in DOMAIN runs /\ DOMAIN taken \in SUBSET (1..last)
    BY <1>1, <1>2, <2>1
  <2>6. Max(DOMAIN taken) = m
    BY <1>1, <2>1, <2>5, NewestIs
  <2>7. m < last /\ m # 0
    BY <1>1, <2>5
  <2> QED BY <1>1, <2>1, <2>4, <2>5, <2>6, <2>7 DEF p
<1> QED BY <1>4, <1>5

Against == {"NO_COMPARABLE_TYPES", "MONOTONIC_CONTINUITY_UNPROVEN"}

(* The status names what was found; the epoch goes on only after a comparison. *)
LEMMA StatusIs ==
  ASSUME NEW k, Capturing(k), NEW p, p = Previous(k.run)
  PROVE  /\ ComparisonStatus(k) \in Against =>
              /\ p # 0 /\ k.seen # Nothing /\ ~Limited(k) /\ ContextValid(p) /\ RawValid(p)
              /\ ~EngineChanged(k, p) /\ ~IntervalInvalid(k, p) /\ ~TypeMissing(k, p)
              /\ ~CounterDecrease(k, p)
         /\ EpochDecision(k) = "RETAIN_CONTEXT" <=> ComparisonStatus(k) \in Against
         /\ ComparisonStatus(k) = "SOURCE_EMPTY_UNPROVEN" <=> k.seen = Nothing
         /\ ComparisonStatus(k) = "WRITE_LIMITED" <=> Limited(k)
         /\ Compared(k) # {} <=> ComparisonStatus(k) = "MONOTONIC_CONTINUITY_UNPROVEN"
         /\ Compared(k) \subseteq Comparable(k, p) /\ Compared(k) \subseteq Selected(k)
         /\ ComparisonStatus(k) = "FIRST_OBSERVATION" => p = 0
         /\ p = 0 <=> EpochDecision(k) = "NEW_FIRST"
         /\ p = 0 => ComparisonStatus(k) \in {"SOURCE_EMPTY_UNPROVEN", "WRITE_LIMITED", "FIRST_OBSERVATION"}
         /\ EpochDecision(k) = "NEW_ENGINE_CONTEXT" => EngineChanged(k, p)
         /\ EpochDecision(k) = "NEW_COUNTER_DECREASE" => CounterDecrease(k, p)
         /\ ComparisonStatus(k) = "ENGINE_CONTEXT_CHANGED" => EpochDecision(k) = "NEW_ENGINE_CONTEXT"
         /\ ComparisonStatus(k) = "COUNTER_DECREASE" => EpochDecision(k) = "NEW_COUNTER_DECREASE"
<1> DEFINE st == ComparisonStatus(k)
           de == EpochDecision(k)
           empty == k.seen = Nothing
           limited == Limited(k)
           partial == PreviousPartial(p)
           context == ContextValid(p)
           raw == RawValid(p)
           changed == EngineChanged(k, p)
           invalid == IntervalInvalid(k, p)
           missing == TypeMissing(k, p)
           fell == CounterDecrease(k, p)
           none == Comparable(k, p) = {}
<1>1. st = IF empty THEN "SOURCE_EMPTY_UNPROVEN"
           ELSE IF limited THEN "WRITE_LIMITED"
           ELSE IF p = 0 THEN "FIRST_OBSERVATION"
           ELSE IF partial THEN "PREVIOUS_CAPTURE_PARTIAL"
           ELSE IF ~context THEN "PREVIOUS_CONTEXT_INVALID"
           ELSE IF ~raw THEN "PREVIOUS_RAW_INCOMPLETE"
           ELSE IF changed THEN "ENGINE_CONTEXT_CHANGED"
           ELSE IF invalid THEN "INTERVAL_NOT_POSITIVE"
           ELSE IF missing THEN "WAIT_TYPE_MISSING"
           ELSE IF fell THEN "COUNTER_DECREASE"
           ELSE IF none THEN "NO_COMPARABLE_TYPES"
           ELSE "MONOTONIC_CONTINUITY_UNPROVEN"
  BY DEF ComparisonStatus
<1>2. de = IF p = 0 THEN "NEW_FIRST"
           ELSE IF changed THEN "NEW_ENGINE_CONTEXT"
           ELSE IF fell THEN "NEW_COUNTER_DECREASE"
           ELSE IF st \in {"SOURCE_EMPTY_UNPROVEN", "WRITE_LIMITED", "PREVIOUS_CAPTURE_PARTIAL",
                           "PREVIOUS_CONTEXT_INVALID", "PREVIOUS_RAW_INCOMPLETE",
                           "INTERVAL_NOT_POSITIVE", "WAIT_TYPE_MISSING"} THEN "NEW_COMPARISON_BREAK"
           ELSE "RETAIN_CONTEXT"
  BY DEF EpochDecision
<1>3. Compared(k) = IF st = "MONOTONIC_CONTINUITY_UNPROVEN" THEN Comparable(k, p) ELSE {}
  BY DEF Compared
<1>4. empty => ~limited
  <2> SUFFICES ASSUME empty PROVE ~limited
    OBVIOUS
  <2>1. DOMAIN k.seen = {}
    BY NothingSeen
  <2>2. Eligible(k) = {} /\ Selected(k) = {}
    BY <2>1, SelectedIs
  <2> QED BY <2>2, FS_EmptySet DEF Limited
<1>5. Comparable(k, p) \subseteq Selected(k)
  BY DEF Comparable
<1> HIDE DEF st, de, empty, limited, partial, context, raw, changed, invalid, missing, fell, none
<1>6. st \in Against => /\ p # 0 /\ ~empty /\ ~limited /\ context /\ raw /\ ~changed /\ ~invalid
                        /\ ~missing /\ ~fell
  BY <1>1 DEF Against
<1>7. de = "RETAIN_CONTEXT" <=> st \in Against
  BY <1>1, <1>2, <1>6 DEF Against
<1>8. (st = "SOURCE_EMPTY_UNPROVEN" <=> empty) /\ (st = "WRITE_LIMITED" <=> limited)
  BY <1>1, <1>4
<1>9. Compared(k) # {} <=> st = "MONOTONIC_CONTINUITY_UNPROVEN"
  BY <1>1, <1>3 DEF none
<1>10. Compared(k) \subseteq Comparable(k, p) /\ Compared(k) \subseteq Selected(k)
  BY <1>3, <1>5
<1>11. /\ st = "FIRST_OBSERVATION" => p = 0
       /\ p = 0 <=> de = "NEW_FIRST"
       /\ p = 0 => st \in {"SOURCE_EMPTY_UNPROVEN", "WRITE_LIMITED", "FIRST_OBSERVATION"}
       /\ de = "NEW_ENGINE_CONTEXT" => changed
       /\ de = "NEW_COUNTER_DECREASE" => fell
       /\ st = "ENGINE_CONTEXT_CHANGED" => de = "NEW_ENGINE_CONTEXT"
       /\ st = "COUNTER_DECREASE" => de = "NEW_COUNTER_DECREASE"
  BY <1>1, <1>2
<1>12. /\ st \in Against =>
            /\ p # 0 /\ k.seen # Nothing /\ ~Limited(k) /\ ContextValid(p) /\ RawValid(p)
            /\ ~EngineChanged(k, p) /\ ~IntervalInvalid(k, p) /\ ~TypeMissing(k, p)
            /\ ~CounterDecrease(k, p)
       /\ st = "SOURCE_EMPTY_UNPROVEN" <=> k.seen = Nothing
       /\ st = "WRITE_LIMITED" <=> Limited(k)
       /\ de = "NEW_ENGINE_CONTEXT" => EngineChanged(k, p)
       /\ de = "NEW_COUNTER_DECREASE" => CounterDecrease(k, p)
  BY <1>6, <1>8, <1>11 DEF empty, limited, context, raw, changed, invalid, missing, fell
<1> QED BY <1>7, <1>9, <1>10, <1>11, <1>12 DEF st, de

-----------------------------------------------------------------------------
(* What a comparison says of the run before. *)
LEMMA ValidIs ==
  ASSUME WaitInv, NEW p, p \in DOMAIN taken, p \in DOMAIN runs, ContextValid(p)
  PROVE  /\ taken[p].read /\ taken[p].epoch = runs[p].epoch /\ TakenOK(p, taken[p])
         /\ store[p].ctx # {}
         /\ \A c \in store[p].ctx :
              /\ c.engine = taken[p].engine /\ c.end = taken[p].end
              /\ c.hash = On(taken[p].seen, taken[p].written)
<1>1. RowsOK(p, runs[p], store[p], taken[p]) /\ TakenOK(p, taken[p])
  BY DEF WaitInv, RunInv
<1>2. runs[p].status = "PARTIAL" /\ store[p].ctx # {}
  BY DEF ContextValid, ContextSound
<1> QED BY <1>1, <1>2 DEF RowsOK

(* A run compared with p, and p, are one history. *)
Follows(before, k) ==
  /\ before.engine = k.engine /\ before.end <= k.start /\ before.end < k.end
  /\ before.written \subseteq DOMAIN k.seen
  /\ \A t \in before.written : before.seen[t] <= k.seen[t]

LEMMA ComparedIs ==
  ASSUME WaitInv, NEW k, Capturing(k), NEW p, p = Previous(k.run), ComparisonStatus(k) \in Against
  PROVE  /\ p \in DOMAIN taken /\ p \in DOMAIN runs /\ taken[p].read /\ taken[p].epoch = runs[p].epoch
         /\ Follows(taken[p], k)
         /\ store[p].raw = On(taken[p].seen, taken[p].written)
         /\ Hints(p) = taken[p].written
         /\ taken[p].written \subseteq Selected(k)
<1>1. /\ p # 0 /\ k.seen # Nothing /\ ~Limited(k) /\ ContextValid(p) /\ RawValid(p)
      /\ ~EngineChanged(k, p) /\ ~IntervalInvalid(k, p) /\ ~TypeMissing(k, p)
      /\ ~CounterDecrease(k, p)
  BY StatusIs
<1>2. k.run = last /\ last \in DOMAIN runs /\ last \notin DOMAIN taken
  BY DEF Capturing
<1>3. p \in DOMAIN taken /\ p \in DOMAIN runs
  BY <1>1, <1>2, PreviousIs
<1>4. /\ taken[p].read /\ taken[p].epoch = runs[p].epoch /\ TakenOK(p, taken[p])
      /\ store[p].ctx # {}
      /\ \A c \in store[p].ctx :
           /\ c.engine = taken[p].engine /\ c.end = taken[p].end
           /\ c.hash = On(taken[p].seen, taken[p].written)
  BY <1>1, <1>3, ValidIs
<1> DEFINE before == taken[p]
           s == store[p]
<1>5. before.engine = k.engine
  BY <1>1, <1>4 DEF EngineChanged
<1>6. ~(k.start < before.end) /\ ~(k.end <= before.end)
  BY <1>1, <1>4 DEF IntervalInvalid
<1>7. /\ before.end \in Int /\ before.written \subseteq DOMAIN before.seen
      /\ \A t \in DOMAIN before.seen : before.seen[t] \in Int
  BY <1>4 DEF TakenOK
<1>8. k.start \in Nat /\ k.end \in Nat /\ \A t \in DOMAIN k.seen : k.seen[t] \in Nat
  BY DEF Capturing
<1>9. s.raw = On(before.seen, before.written) /\ DOMAIN s.raw = Hints(p)
  BY <1>1, <1>4 DEF RawValid, RawSound
<1>10. DOMAIN s.raw = before.written /\ \A t \in before.written : s.raw[t] = before.seen[t]
  BY <1>9 DEF On
<1>11. DOMAIN s.raw \subseteq DOMAIN k.seen
  BY <1>1 DEF TypeMissing
<1>12. \A t \in DOMAIN s.raw \intersect DOMAIN k.seen : ~(k.seen[t] < s.raw[t])
  BY <1>1 DEF CounterDecrease
<1> HIDE DEF before, s
<1>13. before.end <= k.start /\ before.end < k.end
  BY <1>6, <1>7, <1>8
<1>14. ASSUME NEW t \in before.written PROVE t \in DOMAIN k.seen /\ before.seen[t] <= k.seen[t]
  <2>1. t \in DOMAIN k.seen /\ ~(k.seen[t] < before.seen[t])
    BY <1>10, <1>11, <1>12
  <2>2. before.seen[t] \in Int /\ k.seen[t] \in Int
    BY <1>7, <1>8, <2>1
  <2> QED BY <2>1, <2>2
<1>15. Follows(before, k)
  BY <1>5, <1>13, <1>14 DEF Follows
<1>16. before.written \subseteq Selected(k)
  <2>1. Selected(k) = Eligible(k)
    BY <1>1, SelectedIs
  <2>2. before.written \subseteq Eligible(k)
    BY <1>9, <1>10, <1>14 DEF Eligible
  <2> QED BY <2>1, <2>2
<1> QED BY <1>3, <1>4, <1>9, <1>10, <1>15, <1>16 DEF before, s

-----------------------------------------------------------------------------
(* The rows written. *)
WrittenBy(k, p, s) ==
  /\ s = [at |-> k.end, raw |-> On(k.seen, Selected(k)), delta |-> s.delta,
          cand |-> s.cand, ctx |-> s.ctx]
  /\ DOMAIN s.delta = Selected(k)
  /\ \A t \in Selected(k) :
       s.delta[t] = IF ComparisonStatus(k) \in Against /\ t \notin Compared(k)
                    THEN "FIRST_OBSERVATION" ELSE ComparisonStatus(k)
  /\ DOMAIN s.cand = Compared(k)
  /\ \A t \in Compared(k) : s.cand[t] = k.seen[t] - store[p].raw[t]
  /\ \A c \in s.ctx : s.ctx = {c}
  /\ \A c \in s.ctx :
       /\ c.run = k.run /\ c.epoch = Epoch(k) /\ c.engine = k.engine
       /\ c.start = k.start /\ c.end = k.end
       /\ c.native = Cardinality(DOMAIN k.seen) /\ c.active = Cardinality(Active(k.seen))
       /\ c.eligible = Cardinality(Eligible(k)) /\ c.written = Cardinality(Selected(k))
       /\ c.limited = Limited(k) /\ c.hash = On(k.seen, Selected(k))
       /\ c.parent = p /\ c.version = ContextVersion(p)
       /\ c.status = ComparisonStatus(k)
       /\ c.comparable = Cardinality(Compared(k)) /\ c.decision = EpochDecision(k)

LEMMA CapturedIs ==
  ASSUME NEW k, NEW p, p = Previous(k.run), NEW s, s = Captured(k)
  PROVE  WrittenBy(k, p, s)
<1> DEFINE st == ComparisonStatus(k)
           S == Selected(k)
           C == Compared(k)
           ep == Epoch(k)
           de == EpochDecision(k)
           li == Limited(k)
           na == Cardinality(DOMAIN k.seen)
           ac == Cardinality(Active(k.seen))
           el == Cardinality(Eligible(k))
           wr == Cardinality(S)
           co == Cardinality(C)
           h == On(k.seen, S)
           ve == ContextVersion(p)
           delta == [t \in S |-> IF st \in Against /\ t \notin C THEN "FIRST_OBSERVATION" ELSE st]
           cand == [t \in C |-> k.seen[t] - store[p].raw[t]]
           ctx == [run |-> k.run, epoch |-> ep, engine |-> k.engine, start |-> k.start, end |-> k.end,
                   native |-> na, active |-> ac, eligible |-> el, written |-> wr,
                   limited |-> li, hash |-> h, parent |-> p, version |-> ve, status |-> st,
                   comparable |-> co, decision |-> de]
<1>1. s = [at |-> k.end, raw |-> h, delta |-> delta, cand |-> cand, ctx |-> {ctx}]
  BY DEF Captured, Against
<1>2. DOMAIN delta = S /\ \A t \in S : delta[t] = IF st \in Against /\ t \notin C THEN "FIRST_OBSERVATION" ELSE st
  OBVIOUS
<1>3. DOMAIN cand = C /\ \A t \in C : cand[t] = k.seen[t] - store[p].raw[t]
  OBVIOUS
<1> HIDE DEF st, S, C, ep, de, li, na, ac, el, wr, co, h, ve, delta, cand
<1>4. /\ ctx.run = k.run /\ ctx.epoch = ep /\ ctx.engine = k.engine
      /\ ctx.start = k.start /\ ctx.end = k.end
      /\ ctx.native = na /\ ctx.active = ac /\ ctx.eligible = el /\ ctx.written = wr
      /\ ctx.limited = li /\ ctx.hash = h /\ ctx.parent = p /\ ctx.version = ve /\ ctx.status = st
      /\ ctx.comparable = co /\ ctx.decision = de
  OBVIOUS
<1> HIDE DEF ctx
<1>5. s.at = k.end /\ s.raw = h /\ s.delta = delta /\ s.cand = cand /\ s.ctx = {ctx}
  BY <1>1
<1>6. s = [at |-> k.end, raw |-> h, delta |-> s.delta, cand |-> s.cand, ctx |-> s.ctx]
  BY <1>1, <1>5
<1>7. \A c \in s.ctx : c = ctx /\ s.ctx = {c}
  BY <1>5
<1>8. /\ DOMAIN s.delta = S
      /\ \A t \in S : s.delta[t] = IF st \in Against /\ t \notin C THEN "FIRST_OBSERVATION" ELSE st
  BY <1>2, <1>5
<1>9. DOMAIN s.cand = C /\ \A t \in C : s.cand[t] = k.seen[t] - store[p].raw[t]
  BY <1>3, <1>5
<1>10. \A c \in s.ctx :
         /\ c.run = k.run /\ c.epoch = ep /\ c.engine = k.engine
         /\ c.start = k.start /\ c.end = k.end
         /\ c.native = na /\ c.active = ac /\ c.eligible = el /\ c.written = wr
         /\ c.limited = li /\ c.hash = h /\ c.parent = p /\ c.version = ve /\ c.status = st
         /\ c.comparable = co /\ c.decision = de
  BY <1>4, <1>7
<1> QED BY <1>6, <1>7, <1>8, <1>9, <1>10 DEF WrittenBy, st, S, C, ep, de, li, na, ac, el, wr, co, h, ve

-----------------------------------------------------------------------------
(* What a capture writes, the next one finds valid. *)
LEMMA CountsWritten ==
  ASSUME NEW k, Capturing(k), NEW s, s = Captured(k), NEW c \in s.ctx, NEW row, row.count = NumberOfSamples(s)
  PROVE  CountsAgree(c, row)
<1> DEFINE p == Previous(k.run)
           S == Selected(k)
           E == Eligible(k)
           C == Compared(k)
           N == DOMAIN k.seen
           A == Active(k.seen)
<1>1. /\ s = [at |-> k.end, raw |-> On(k.seen, S), delta |-> s.delta, cand |-> s.cand, ctx |-> s.ctx]
      /\ DOMAIN s.delta = S /\ DOMAIN s.cand = C /\ s.ctx = {c}
      /\ c.native = Cardinality(N) /\ c.active = Cardinality(A)
      /\ c.eligible = Cardinality(E) /\ c.written = Cardinality(S)
      /\ c.limited = Limited(k) /\ c.comparable = Cardinality(C)
  <2>1. WrittenBy(k, p, s)
    BY CapturedIs
  <2> QED BY <2>1 DEF WrittenBy
<1>2. /\ E \subseteq N /\ S \subseteq E /\ A \subseteq E
      /\ IsFiniteSet(N) /\ IsFiniteSet(E) /\ IsFiniteSet(S)
      /\ E # {} => S # {}
  BY SelectedIs
<1>3. C \subseteq S
  BY StatusIs
<1>4. Limited(k) <=> Cardinality(S) < Cardinality(E)
  BY DEF Limited
<1> HIDE DEF S, E, C, N, A
<1>5. s.raw = On(k.seen, S)
  BY <1>1
<1>6. DOMAIN s.raw = S
  BY <1>5 DEF On
<1>7. Cardinality({c}) = 1
  BY FS_Singleton
<1>8. IsFiniteSet(A) /\ IsFiniteSet(C)
  BY <1>2, <1>3, FS_Subset
<1>9. /\ Cardinality(S) \in Nat /\ Cardinality(E) \in Nat /\ Cardinality(C) \in Nat
      /\ Cardinality(N) \in Nat /\ Cardinality(A) \in Nat
  BY <1>2, <1>8, FS_CardinalityType
<1>10. Cardinality(C) <= Cardinality(S)
  BY <1>2, <1>3, FS_Subset
<1>11. Cardinality(S) <= Cardinality(E)
  BY <1>2, FS_Subset
<1>12. Cardinality(E) <= Cardinality(N)
  BY <1>2, FS_Subset
<1>13. Cardinality(A) <= Cardinality(E)
  BY <1>2, FS_Subset
<1>14. Cardinality(E) > 0 => Cardinality(S) > 0
  <2>1. Cardinality(E) = 0 <=> E = {}
    BY <1>2, FS_EmptySet
  <2>2. Cardinality(S) = 0 <=> S = {}
    BY <1>2, FS_EmptySet
  <2> QED BY <1>2, <1>9, <2>1, <2>2
<1>15. NumberOfSamples(s) = Cardinality(S) + Cardinality(S) + Cardinality(C) + 1
  BY <1>1, <1>6, <1>7 DEF NumberOfSamples
<1>16. row.count = 2 * c.written + c.comparable + 1
  BY <1>1, <1>9, <1>15
<1> QED BY <1>1, <1>4, <1>10, <1>11, <1>12, <1>13, <1>14, <1>16 DEF CountsAgree

LEMMA DecisionWritten ==
  ASSUME NEW k, Capturing(k), NEW s, s = Captured(k), NEW c \in s.ctx
  PROVE  DecisionAgrees(c)
<1> DEFINE p == Previous(k.run)
           st == ComparisonStatus(k)
           de == EpochDecision(k)
           C == Compared(k)
           N == DOMAIN k.seen
<1>1. /\ c.native = Cardinality(N) /\ c.limited = Limited(k) /\ c.comparable = Cardinality(C)
      /\ c.parent = p /\ c.version = ContextVersion(p) /\ c.status = st /\ c.decision = de
  <2>1. WrittenBy(k, p, s)
    BY CapturedIs
  <2> QED BY <2>1 DEF WrittenBy
<1>2. /\ st \in Against =>
              /\ p # 0 /\ k.seen # Nothing /\ ~Limited(k) /\ ContextValid(p) /\ RawValid(p)
              /\ ~EngineChanged(k, p) /\ ~IntervalInvalid(k, p) /\ ~TypeMissing(k, p)
              /\ ~CounterDecrease(k, p)
      /\ de = "RETAIN_CONTEXT" <=> st \in Against
      /\ st = "SOURCE_EMPTY_UNPROVEN" <=> k.seen = Nothing
      /\ st = "WRITE_LIMITED" <=> Limited(k)
      /\ C # {} <=> st = "MONOTONIC_CONTINUITY_UNPROVEN"
      /\ C \subseteq Comparable(k, p) /\ C \subseteq Selected(k)
      /\ st = "FIRST_OBSERVATION" => p = 0
      /\ p = 0 <=> de = "NEW_FIRST"
      /\ p = 0 => st \in {"SOURCE_EMPTY_UNPROVEN", "WRITE_LIMITED", "FIRST_OBSERVATION"}
      /\ de = "NEW_ENGINE_CONTEXT" => EngineChanged(k, p)
      /\ de = "NEW_COUNTER_DECREASE" => CounterDecrease(k, p)
      /\ st = "ENGINE_CONTEXT_CHANGED" => de = "NEW_ENGINE_CONTEXT"
      /\ st = "COUNTER_DECREASE" => de = "NEW_COUNTER_DECREASE"
  BY StatusIs
<1>3. /\ ContextValid(p) => p # 0 /\ store[p].ctx # {}
      /\ EngineChanged(k, p) => ContextValid(p)
      /\ CounterDecrease(k, p) => ContextValid(p) /\ N # {}
  BY DEF ContextValid, ContextSound, EngineChanged, CounterDecrease, RawValid
<1>4. /\ p = 0 => ContextVersion(p) = 0
      /\ ContextValid(p) => ContextVersion(p) = 1
  BY <1>3 DEF ContextVersion
<1>5. IsFiniteSet(N) /\ IsFiniteSet(Selected(k))
  BY SelectedIs
<1>6. IsFiniteSet(C)
  BY <1>2, <1>5, FS_Subset
<1>7. k.seen = Nothing <=> N = {}
  BY DEF Capturing, Nothing
<1>8. Cardinality(N) = 0 <=> N = {}
  BY <1>5, FS_EmptySet
<1>9. Cardinality(C) \in Nat /\ (Cardinality(C) = 0 <=> C = {})
  BY <1>6, FS_EmptySet, FS_CardinalityType
<1> HIDE DEF p, st, de, C, N
<1>10. Cardinality(C) > 0 <=> C # {}
  BY <1>9
<1>11. /\ c.native = 0 <=> N = {}
       /\ c.limited <=> Limited(k)
       /\ c.comparable > 0 <=> C # {}
  BY <1>1, <1>8, <1>10
<1>12. c.native = 0 <=> c.status = "SOURCE_EMPTY_UNPROVEN"
  BY <1>1, <1>2, <1>7, <1>11
<1>13. /\ c.limited <=> c.status = "WRITE_LIMITED"
       /\ c.comparable > 0 <=> c.status = "MONOTONIC_CONTINUITY_UNPROVEN"
  BY <1>1, <1>2, <1>11
<1>14. /\ c.status = "FIRST_OBSERVATION" => c.parent = 0
       /\ c.parent = 0 <=> c.decision = "NEW_FIRST"
       /\ c.parent = 0 => /\ c.version = 0
                          /\ c.status \in {"SOURCE_EMPTY_UNPROVEN", "WRITE_LIMITED", "FIRST_OBSERVATION"}
       /\ c.decision = "RETAIN_CONTEXT" <=> c.status \in Against
  BY <1>1, <1>2, <1>4
<1>15. c.decision \in {"RETAIN_CONTEXT", "NEW_ENGINE_CONTEXT", "NEW_COUNTER_DECREASE"} => c.version = 1
  BY <1>1, <1>2, <1>3, <1>4
<1>16. c.native = 0 => c.decision # "NEW_COUNTER_DECREASE"
  BY <1>1, <1>2, <1>3, <1>11
<1>17. /\ c.status = "ENGINE_CONTEXT_CHANGED" => c.decision = "NEW_ENGINE_CONTEXT"
       /\ c.status = "COUNTER_DECREASE" => c.decision = "NEW_COUNTER_DECREASE"
  BY <1>1, <1>2
<1> QED BY <1>12, <1>13, <1>14, <1>15, <1>16, <1>17 DEF DecisionAgrees, Against

LEMMA RawWritten ==
  ASSUME NEW k, Capturing(k), NEW s, s = Captured(k), NEW c \in s.ctx, NEW row, row.count = NumberOfSamples(s)
  PROVE  SoundRaw(row, s)
<1> DEFINE p == Previous(k.run)
           st == ComparisonStatus(k)
           S == Selected(k)
           C == Compared(k)
<1>1. /\ s = [at |-> k.end, raw |-> On(k.seen, S), delta |-> s.delta, cand |-> s.cand, ctx |-> s.ctx]
      /\ DOMAIN s.delta = S /\ DOMAIN s.cand = C
      /\ \A t \in S : s.delta[t] = IF st \in Against /\ t \notin C THEN "FIRST_OBSERVATION" ELSE st
      /\ c.active = Cardinality(Active(k.seen)) /\ c.written = Cardinality(S) /\ c.limited = Limited(k)
      /\ c.hash = On(k.seen, S) /\ c.status = st /\ c.comparable = Cardinality(C)
  <2>1. WrittenBy(k, p, s)
    BY CapturedIs
  <2> QED BY <2>1 DEF WrittenBy
<1>2. /\ Eligible(k) \subseteq DOMAIN k.seen /\ S \subseteq Eligible(k)
      /\ Active(k.seen) \subseteq Eligible(k) /\ IsFiniteSet(Eligible(k))
      /\ ~Limited(k) => S = Eligible(k)
  BY SelectedIs
<1>3. C \subseteq S /\ (C # {} <=> st = "MONOTONIC_CONTINUITY_UNPROVEN")
  BY StatusIs
<1> HIDE DEF p, st, S, C
<1>4. s.raw = On(k.seen, S)
  BY <1>1
<1>5. DOMAIN s.raw = S /\ \A t \in S : s.raw[t] = k.seen[t]
  BY <1>4 DEF On
<1>6. Named(s) = S
  BY <1>1, <1>3, <1>5 DEF Named
<1>7. \A t \in DOMAIN s.delta :
        /\ t \in DOMAIN s.cand <=> s.delta[t] = "MONOTONIC_CONTINUITY_UNPROVEN"
        /\ IF c.status \in Against
           THEN s.delta[t] \in {"FIRST_OBSERVATION", "MONOTONIC_CONTINUITY_UNPROVEN"}
           ELSE s.delta[t] = c.status
  BY <1>1, <1>3 DEF Against
<1>8. Active(s.raw) \subseteq Active(k.seen) /\ (~Limited(k) => Active(s.raw) = Active(k.seen))
  BY <1>2, <1>5 DEF Active
<1>9. IsFiniteSet(Active(k.seen))
  BY <1>2, FS_Subset
<1>10. Cardinality(Active(s.raw)) <= Cardinality(Active(k.seen))
  BY <1>8, <1>9, FS_Subset
<1>11. /\ Cardinality(Active(s.raw)) <= c.active
       /\ ~c.limited => Cardinality(Active(s.raw)) = c.active
  BY <1>1, <1>8, <1>10
<1>12. /\ NumberOfSamples(s) = row.count
       /\ Cardinality(Named(s)) = c.written
       /\ DOMAIN s.raw = Named(s) /\ DOMAIN s.delta = Named(s)
       /\ Cardinality(DOMAIN s.cand) = c.comparable
       /\ s.raw = c.hash
  BY <1>1, <1>4, <1>5, <1>6
<1> QED BY <1>7, <1>11, <1>12 DEF SoundRaw, Against

-----------------------------------------------------------------------------
(* The epoch is the one of the run before, or no run had it. *)
LEMMA EpochIs ==
  ASSUME WaitInv, NEW k, Capturing(k), NEW p, p = Previous(k.run)
  PROVE  \/ Epoch(k) = k.run
         \/ /\ ComparisonStatus(k) \in Against /\ p \in DOMAIN taken
            /\ Epoch(k) = taken[p].epoch /\ taken[p].epoch \in 1..p /\ p < k.run
<1>1. CASE EpochDecision(k) = "RETAIN_CONTEXT"
  <2>1. ComparisonStatus(k) \in Against
    BY <1>1, StatusIs
  <2>2. p \in DOMAIN taken /\ p \in DOMAIN runs /\ taken[p].read /\ taken[p].epoch = runs[p].epoch
    BY <2>1, ComparedIs
  <2>3. Epoch(k) = taken[p].epoch
    BY <1>1, <2>2 DEF Epoch
  <2>4. taken[p].epoch \in 1..p
    BY <2>2 DEF WaitInv, RunInv, TakenOK
  <2>5. k.run = last /\ last \in DOMAIN runs /\ last \notin DOMAIN taken
    BY DEF Capturing
  <2>6. p < k.run
    BY <2>5, PreviousIs
  <2> QED BY <2>1, <2>2, <2>3, <2>4, <2>6
<1>2. CASE EpochDecision(k) # "RETAIN_CONTEXT"
  BY <1>2 DEF Epoch
<1> QED BY <1>1, <1>2

-----------------------------------------------------------------------------
(* A capture that finalizes: its row and its history. *)
RowDone(row, now, epoch, count) ==
  [row EXCEPT !.ended = now, !.status = "PARTIAL", !.epoch = epoch, !.count = count]

LEMMA RowDoneIs ==
  ASSUME NEW row, RowShape(row), NEW now, NEW epoch, NEW count, NEW d, d = RowDone(row, now, epoch, count)
  PROVE  /\ d.started = row.started /\ d.ended = now /\ d.status = "PARTIAL"
         /\ d.epoch = epoch /\ d.count = count /\ RowShape(d)
<1> DEFINE a == [row EXCEPT !.ended = now]
           b == [a EXCEPT !.status = "PARTIAL"]
           e == [b EXCEPT !.epoch = epoch]
<1>1. a = [started |-> row.started, ended |-> now, status |-> row.status,
           epoch |-> row.epoch, count |-> row.count]
  BY DEF RowShape
<1>2. b = [a EXCEPT !.status = "PARTIAL"]
  OBVIOUS
<1>3. e = [b EXCEPT !.epoch = epoch]
  OBVIOUS
<1>4. d = [e EXCEPT !.count = count]
  BY DEF RowDone
<1> HIDE DEF a, b, e
<1>5. b = [started |-> row.started, ended |-> now, status |-> "PARTIAL",
           epoch |-> row.epoch, count |-> row.count]
  BY <1>1, <1>2
<1>6. e = [started |-> row.started, ended |-> now, status |-> "PARTIAL",
           epoch |-> epoch, count |-> row.count]
  BY <1>5, <1>3
<1>7. d = [started |-> row.started, ended |-> now, status |-> "PARTIAL", epoch |-> epoch, count |-> count]
  BY <1>6, <1>4
<1>8. /\ d.started = row.started /\ d.ended = now /\ d.status = "PARTIAL"
      /\ d.epoch = epoch /\ d.count = count
  BY <1>7
<1>9. d = [started |-> d.started, ended |-> d.ended, status |-> d.status, epoch |-> d.epoch, count |-> d.count]
  BY <1>7, <1>8
<1> QED BY <1>8, <1>9 DEF RowShape

ReadAs(c, seen, written) ==
  [read |-> TRUE, cut |-> c.limited, thinned |-> FALSE, epoch |-> c.epoch, engine |-> c.engine,
   start |-> c.start, end |-> c.end, seen |-> seen, written |-> written, status |-> c.status]

LEMMA ReadAsIs ==
  ASSUME NEW c, NEW seen, NEW written, NEW tk, tk = ReadAs(c, seen, written)
  PROVE  /\ tk.read /\ ~tk.thinned /\ tk.cut = c.limited /\ tk.epoch = c.epoch
         /\ tk.engine = c.engine /\ tk.start = c.start /\ tk.end = c.end /\ tk.seen = seen
         /\ tk.written = written /\ tk.status = c.status
         /\ tk = [read |-> tk.read, cut |-> tk.cut, thinned |-> tk.thinned, epoch |-> tk.epoch,
                  engine |-> tk.engine, start |-> tk.start, end |-> tk.end, seen |-> tk.seen,
                  written |-> tk.written, status |-> tk.status]
<1> DEFINE yes == TRUE
           no == FALSE
<1>1. tk = [read |-> yes, cut |-> c.limited, thinned |-> no, epoch |-> c.epoch, engine |-> c.engine,
            start |-> c.start, end |-> c.end, seen |-> seen, written |-> written, status |-> c.status]
  BY Zenon DEF ReadAs
<1> HIDE DEF yes, no
<1>2. /\ tk.read = yes /\ tk.thinned = no /\ tk.cut = c.limited /\ tk.epoch = c.epoch
      /\ tk.engine = c.engine /\ tk.start = c.start /\ tk.end = c.end /\ tk.seen = seen
      /\ tk.written = written /\ tk.status = c.status
  BY <1>1
<1>3. tk = [read |-> tk.read, cut |-> tk.cut, thinned |-> tk.thinned, epoch |-> tk.epoch,
            engine |-> tk.engine, start |-> tk.start, end |-> tk.end, seen |-> tk.seen,
            written |-> tk.written, status |-> tk.status]
  BY <1>1, <1>2
<1>4. tk.read /\ ~tk.thinned
  BY <1>2, Zenon DEF yes, no
<1> QED BY <1>2, <1>3, <1>4

(* What a completed capture decides, of the history with its run in it. *)
LEMMA HistoryGoesOn ==
  ASSUME WaitInv, NEW k, Capturing(k), NEW s, s = Captured(k), NEW c \in s.ctx, NEW r, r = last,
         NEW tk, tk = ReadAs(c, k.seen, DOMAIN s.raw), NEW U, U = Put(taken, r, tk)
  PROVE  /\ Increments(U, r, s)
         /\ \A q \in DOMAIN taken : OneHistory(U, q, r)
         /\ Compares(U, r)
<1> DEFINE T == taken
           p == Previous(k.run)
           st == ComparisonStatus(k)
           S == Selected(k)
           C == Compared(k)
<1>1. /\ k.run = r /\ last \in DOMAIN runs /\ last \notin DOMAIN taken /\ r \in Nat
      /\ DOMAIN T \subseteq 1..r /\ r \notin DOMAIN T
  BY DEF Capturing, WaitInv, RunInv
<1>2. /\ p = 0 => DOMAIN T = {}
      /\ p # 0 => /\ p \in DOMAIN T /\ p \in DOMAIN runs /\ p < r
                  /\ \A q \in DOMAIN T : q <= p
                  /\ Max(DOMAIN T) = p
  BY <1>1, PreviousIs
<1>3. WrittenBy(k, p, s)
  BY CapturedIs
<1>4. /\ s = [at |-> k.end, raw |-> On(k.seen, S), delta |-> s.delta, cand |-> s.cand, ctx |-> s.ctx]
      /\ DOMAIN s.cand = C /\ \A t \in C : s.cand[t] = k.seen[t] - store[p].raw[t]
      /\ c.epoch = Epoch(k) /\ c.engine = k.engine /\ c.start = k.start /\ c.end = k.end
      /\ c.limited = Limited(k) /\ c.status = st
  BY <1>3 DEF WrittenBy
<1>5. DOMAIN s.raw = S
  <2>1. s.raw = On(k.seen, S)
    BY <1>4
  <2> QED BY <2>1 DEF On
<1>6. /\ tk.read /\ ~tk.thinned /\ tk.cut = Limited(k) /\ tk.epoch = Epoch(k)
      /\ tk.engine = k.engine /\ tk.start = k.start /\ tk.end = k.end /\ tk.seen = k.seen
      /\ tk.written = S /\ tk.status = st
  <2> DEFINE seen == k.seen
             written == DOMAIN s.raw
  <2>1. tk = ReadAs(c, seen, written)
    OBVIOUS
  <2> HIDE DEF seen, written
  <2>2. /\ tk.read /\ ~tk.thinned /\ tk.cut = c.limited /\ tk.epoch = c.epoch
        /\ tk.engine = c.engine /\ tk.start = c.start /\ tk.end = c.end /\ tk.seen = seen
        /\ tk.written = written /\ tk.status = c.status
    BY <2>1, ReadAsIs
  <2> QED BY <1>4, <1>5, <2>2 DEF seen, written
<1>7. C \subseteq S /\ (C # {} <=> st = "MONOTONIC_CONTINUITY_UNPROVEN") /\ C \subseteq Comparable(k, p)
  BY StatusIs
<1>8. S \subseteq DOMAIN k.seen
  BY SelectedIs
<1>9. st \in Against =>
        /\ p \in DOMAIN T /\ p \in DOMAIN runs /\ T[p].read /\ T[p].epoch = runs[p].epoch
        /\ Follows(T[p], k)
        /\ store[p].raw = On(T[p].seen, T[p].written)
        /\ Hints(p) = T[p].written
        /\ T[p].written \subseteq S
  BY ComparedIs
<1>10. \/ Epoch(k) = r
       \/ /\ st \in Against /\ p \in DOMAIN T
          /\ Epoch(k) = T[p].epoch /\ T[p].epoch \in 1..p /\ p < r
  BY <1>1, EpochIs
<1>11. \A q \in DOMAIN T : TakenOK(q, T[q])
  BY DEF WaitInv, RunInv
<1>12. \A q \in DOMAIN T : T[q].read => T[q].epoch \in 1..q
  BY <1>11 DEF TakenOK
<1>13. \A q, x \in DOMAIN T : OneHistory(T, q, x)
  BY DEF WaitInv
<1>14. C \subseteq Hints(p)
  BY <1>7 DEF Comparable
<1>15. U = Put(T, r, tk)
  OBVIOUS
<1> HIDE DEF T, S, C, st
<1>16. /\ DOMAIN U = DOMAIN T \union {r} /\ U[r] = tk
       /\ \A q \in DOMAIN T : U[q] = T[q] /\ q < r /\ Older(U, q) = Older(T, q)
       /\ \A q \in DOMAIN T : Older(T, q) # {} =>
            Max(Older(T, q)) \in DOMAIN T /\ Max(Older(T, q)) < q
       /\ Older(U, r) = DOMAIN T
  <2>1. r \in Nat /\ DOMAIN T \subseteq 1..r /\ r \notin DOMAIN T /\ U = Put(T, r, tk)
    BY <1>1, <1>15
  <2>2. Longer(T, r, tk, U)
    BY <2>1, PutTaken
  <2> QED BY <2>2 DEF Longer
<1>17. Increments(U, r, s)
  <2> SUFFICES ASSUME NEW t \in C
               PROVE  /\ Older(U, r) # {}
                      /\ Max(Older(U, r)) = p /\ U[p] = T[p]
                      /\ T[p].read /\ T[p].engine = tk.engine
                      /\ T[p].end <= tk.start /\ T[p].end < tk.end
                      /\ t \in DOMAIN T[p].seen \intersect DOMAIN tk.seen
                      /\ s.cand[t] = tk.seen[t] - T[p].seen[t]
                      /\ s.cand[t] >= 0
    BY <1>4, <1>16 DEF Increments
  <2>1. st \in Against
    BY <1>7 DEF Against
  <2>2. p \in DOMAIN T /\ p # 0
    BY <1>1, <1>9, <2>1
  <2>3. TakenOK(p, T[p]) /\ T[p].read /\ Follows(T[p], k)
    BY <1>9, <1>11, <2>1, <2>2
  <2>4. t \in T[p].written /\ store[p].raw[t] = T[p].seen[t]
    BY <1>9, <1>14, <2>1 DEF On
  <2>5. t \in DOMAIN T[p].seen /\ T[p].seen[t] \in Int
    BY <2>3, <2>4 DEF TakenOK
  <2>6. k.seen[t] \in Nat /\ t \in DOMAIN k.seen /\ T[p].seen[t] <= k.seen[t]
    BY <1>7, <1>8, <2>3, <2>4 DEF Capturing, Follows
  <2>7. s.cand[t] = k.seen[t] - T[p].seen[t]
    BY <1>4, <2>4
  <2>8. k.seen[t] - T[p].seen[t] >= 0
    BY <2>5, <2>6
  <2> QED BY <1>2, <1>6, <1>16, <2>2, <2>3, <2>5, <2>6, <2>7, <2>8 DEF Follows
<1>18. ASSUME NEW q \in DOMAIN T PROVE OneHistory(U, q, r)
  <2> SUFFICES ASSUME T[q].read, T[q].epoch = Epoch(k)
               PROVE  /\ T[q].engine = k.engine
                      /\ T[q].end <= k.start /\ T[q].end < k.end
                      /\ \A t \in T[q].written : t \in S /\ T[q].seen[t] <= k.seen[t]
                      /\ \A between \in DOMAIN U : q < between /\ between < r => U[between].epoch = Epoch(k)
    BY <1>6, <1>16 DEF OneHistory
  <2>1. T[q].epoch \in 1..q /\ q \in 1..r /\ q < r
    BY <1>1, <1>12, <1>16
  <2>2. st \in Against /\ p \in DOMAIN T /\ Epoch(k) = T[p].epoch /\ p \in 1..r /\ p < r
    BY <1>1, <1>10, <2>1
  <2>3. /\ T[p].read /\ Follows(T[p], k) /\ T[p].written \subseteq S
        /\ \A x \in DOMAIN T : x <= p
    BY <1>1, <1>2, <1>9, <2>2
  <2>4. \A between \in DOMAIN U : between < r => between \in DOMAIN T /\ U[between] = T[between] /\ between \in 1..r
    BY <1>1, <1>16
  <2>5. CASE q = p
    <3>1. \A between \in DOMAIN U : ~(q < between /\ between < r)
      BY <2>2, <2>3, <2>4, <2>5
    <3> QED BY <2>3, <2>5, <3>1 DEF Follows
  <2>6. CASE q # p
    <3>1. q < p
      BY <2>1, <2>2, <2>3, <2>6
    <3>2. /\ T[q].engine = T[p].engine
          /\ T[q].end <= T[p].start /\ T[q].end < T[p].end
          /\ \A t \in T[q].written : t \in T[p].written /\ T[q].seen[t] <= T[p].seen[t]
          /\ \A between \in DOMAIN T : q < between /\ between < p => T[between].epoch = T[p].epoch
      BY <1>13, <2>2, <3>1 DEF OneHistory
    <3>3. TakenOK(q, T[q]) /\ TakenOK(p, T[p])
      BY <1>11, <2>2
    <3>4. /\ T[q].end \in Int /\ T[p].end \in Int
          /\ T[q].written \subseteq DOMAIN T[q].seen /\ \A t \in DOMAIN T[q].seen : T[q].seen[t] \in Int
          /\ T[p].written \subseteq DOMAIN T[p].seen /\ \A t \in DOMAIN T[p].seen : T[p].seen[t] \in Int
      BY <2>3, <3>3 DEF TakenOK
    <3>5. /\ T[p].engine = k.engine /\ T[p].end <= k.start /\ T[p].end < k.end
          /\ T[p].written \subseteq DOMAIN k.seen /\ \A t \in T[p].written : T[p].seen[t] <= k.seen[t]
      BY <2>3 DEF Follows
    <3>6. k.start \in Nat /\ k.end \in Nat /\ \A t \in DOMAIN k.seen : k.seen[t] \in Nat
      BY DEF Capturing
    <3>7. T[q].end <= k.start /\ T[q].end < k.end
      BY <3>2, <3>4, <3>5, <3>6
    <3>8. ASSUME NEW t \in T[q].written PROVE t \in S /\ T[q].seen[t] <= k.seen[t]
      <4>1. /\ T[q].seen[t] \in Int /\ T[p].seen[t] \in Int /\ k.seen[t] \in Int
            /\ T[q].seen[t] <= T[p].seen[t] /\ T[p].seen[t] <= k.seen[t] /\ t \in S
        BY <2>3, <3>2, <3>4, <3>5, <3>6
      <4> QED BY <4>1
    <3>9. ASSUME NEW between \in DOMAIN U, q < between, between < r PROVE U[between].epoch = Epoch(k)
      <4>1. between \in DOMAIN T /\ U[between] = T[between] /\ between \in 1..r /\ between <= p
        BY <2>3, <2>4, <3>9
      <4>2. CASE between = p
        BY <2>2, <4>1, <4>2
      <4>3. CASE between # p
        <5>1. between < p
          BY <2>2, <4>1, <4>3
        <5> QED BY <2>2, <3>2, <3>9, <4>1, <5>1
      <4> QED BY <4>2, <4>3
    <3> QED BY <3>2, <3>5, <3>7, <3>8, <3>9
  <2> QED BY <2>5, <2>6
<1>19. Compares(U, r)
  <2> SUFFICES ASSUME DOMAIN T # {}, T[p].read, ~Limited(k), ~T[p].cut, ~T[p].thinned,
                      T[p].engine = k.engine, T[p].end <= k.start, T[p].end < k.end,
                      T[p].written # {}, T[p].written \subseteq DOMAIN k.seen,
                      \A t \in T[p].written : T[p].seen[t] <= k.seen[t]
               PROVE  st = "MONOTONIC_CONTINUITY_UNPROVEN"
    <3>1. DOMAIN T # {} => U[p] = T[p] /\ Max(Older(U, r)) = p
      BY <1>2, <1>16
    <3> QED BY <1>6, <1>16, <3>1 DEF Compares
  <2>1. p # 0 /\ p \in DOMAIN T /\ p \in DOMAIN runs
    BY <1>2
  <2>2. RowsOK(p, runs[p], store[p], T[p]) /\ TakenOK(p, T[p])
    BY <2>1 DEF WaitInv, RunInv, T
  <2>3. /\ runs[p].status = "PARTIAL" /\ SoundContext(p, runs[p], store[p]) /\ SoundRaw(runs[p], store[p])
        /\ \A t \in DOMAIN store[p].raw : t \in T[p].written /\ store[p].raw[t] = T[p].seen[t]
        /\ \A x \in store[p].ctx : /\ x.engine = T[p].engine /\ x.end = T[p].end /\ x.limited = T[p].cut
                                   /\ x.native = Cardinality(DOMAIN T[p].seen)
                                   /\ x.hash = On(T[p].seen, T[p].written)
    BY <2>2 DEF RowsOK
  <2>4. Named(store[p]) = Hints(p)
    BY <2>1 DEF Named, Hints
  <2>5. ContextSound(p)
    BY <2>3 DEF ContextSound, SoundContext
  <2>6. RawSound(p)
    BY <2>3, <2>4 DEF RawSound, SoundRaw
  <2>7. ContextValid(p) /\ RawValid(p)
    BY <2>1, <2>3, <2>5, <2>6 DEF ContextValid, RawValid
  <2>8. /\ DOMAIN T[p].seen \subseteq Types /\ T[p].written \subseteq DOMAIN T[p].seen
        /\ T[p].end \in Int
    BY <2>2 DEF TakenOK
  <2>9. IsFiniteSet(DOMAIN T[p].seen)
    BY <2>8, WaitAssumption, FS_Subset
  <2>10. Cardinality(DOMAIN T[p].seen) # 0
    BY <2>8, <2>9, FS_EmptySet
  <2>11. ~PreviousPartial(p)
    BY <2>3, <2>10 DEF PreviousPartial
  <2>12. ~EngineChanged(k, p)
    BY <2>3 DEF EngineChanged
  <2>13. ~IntervalInvalid(k, p)
    <3>1. k.start \in Nat /\ k.end \in Nat
      BY DEF Capturing
    <3>2. ~(k.start < T[p].end) /\ ~(k.end <= T[p].end)
      BY <2>8, <3>1
    <3> QED BY <2>3, <3>2 DEF IntervalInvalid
  <2>14. ~TypeMissing(k, p)
    BY <2>3 DEF TypeMissing
  <2>15. ~CounterDecrease(k, p)
    <3>1. ASSUME NEW t \in DOMAIN store[p].raw \intersect DOMAIN k.seen PROVE ~(k.seen[t] < store[p].raw[t])
      <4>1. t \in T[p].written /\ store[p].raw[t] = T[p].seen[t] /\ k.seen[t] \in Nat
        BY <2>3, <3>1 DEF Capturing
      <4>2. T[p].seen[t] \in Int /\ T[p].seen[t] <= k.seen[t]
        BY <2>2, <4>1 DEF TakenOK
      <4> QED BY <4>1, <4>2
    <3> QED BY <3>1 DEF CounterDecrease
  <2>16. Comparable(k, p) # {}
    <3>1. PICK t \in T[p].written : t \in DOMAIN k.seen
      OBVIOUS
    <3>2. PICK x \in store[p].ctx : store[p].raw = x.hash
      BY <2>3 DEF SoundRaw
    <3>3. store[p].raw = On(T[p].seen, T[p].written)
      BY <2>3, <3>2
    <3>4. t \in Hints(p)
      BY <2>1, <3>1, <3>3 DEF On, Hints
    <3>5. t \in Eligible(k)
      BY <3>1, <3>4 DEF Eligible
    <3>6. Selected(k) = Eligible(k)
      BY SelectedIs
    <3> QED BY <3>4, <3>5, <3>6 DEF Comparable
  <2>17. k.seen # Nothing
    BY NothingSeen
  <2> HIDE DEF p
  <2>18. p = Previous(k.run)
    BY DEF p
  <2> QED BY <2>1, <2>7, <2>11, <2>12, <2>13, <2>14, <2>15, <2>16, <2>17, <2>18 DEF ComparisonStatus, st
<1> QED BY <1>17, <1>18, <1>19 DEF T

-----------------------------------------------------------------------------
LEMMA CompleteWait == ASSUME WaitInv, Complete PROVE WaitInv'
<1> DEFINE r == last
<1>1. /\ cycle.pc = "read" /\ runs[cycle.run].started <= cycle.start /\ cycle' = Idle
      /\ UNCHANGED <<last, counters>> /\ CycleInv
  BY DEF Complete, WaitInv
<1>2. PICK limit \in MaxRows :
        \E s \in {Captured([cycle EXCEPT !.limit = limit])} :
          \E c \in s.ctx, now \in cycle.end..MaxClock :
            /\ runs' = [runs EXCEPT ![c.run] = RowDone(runs[c.run], now, c.epoch, NumberOfSamples(s))]
            /\ store' = [store EXCEPT ![c.run] = s]
            /\ taken' = Put(taken, c.run, ReadAs(c, cycle.seen, DOMAIN s.raw))
  <2>1. PICK s \in {Captured([cycle EXCEPT !.limit = limit]) : limit \in MaxRows} :
          \E c \in s.ctx, now \in cycle.end..MaxClock :
            /\ runs' = [runs EXCEPT ![c.run] = RowDone(runs[c.run], now, c.epoch, NumberOfSamples(s))]
            /\ store' = [store EXCEPT ![c.run] = s]
            /\ taken' = Put(taken, c.run, ReadAs(c, cycle.seen, DOMAIN s.raw))
    BY Zenon DEF Complete, RowDone, ReadAs
  <2>2. PICK limit \in MaxRows : s = Captured([cycle EXCEPT !.limit = limit])
    BY <2>1
  <2> QED BY <2>1, <2>2
<1> DEFINE k == [cycle EXCEPT !.limit = limit]
           s == Captured(k)
<1>3. PICK c \in s.ctx, now \in cycle.end..MaxClock :
        /\ runs' = [runs EXCEPT ![c.run] = RowDone(runs[c.run], now, c.epoch, NumberOfSamples(s))]
        /\ store' = [store EXCEPT ![c.run] = s]
        /\ taken' = Put(taken, c.run, ReadAs(c, cycle.seen, DOMAIN s.raw))
  BY <1>2
<1>4. /\ k.run = cycle.run /\ k.start = cycle.start /\ k.end = cycle.end /\ k.seen = cycle.seen
      /\ k.limit = limit
  BY <1>1 DEF CycleInv
<1>5. limit \in Nat \ {0}
  BY WaitAssumption
<1>6. s = Captured(k)
  OBVIOUS
<1> HIDE DEF k
<1>7. Capturing(k)
  <2>1. /\ k.run = last /\ last \in DOMAIN runs /\ last \notin DOMAIN taken
        /\ k.start \in Nat /\ k.end \in Nat /\ k.start <= k.end
    BY <1>1, <1>4 DEF CycleInv
  <2>2. /\ DOMAIN k.seen \subseteq Types /\ k.seen = [t \in DOMAIN k.seen |-> k.seen[t]]
        /\ \A t \in DOMAIN k.seen : k.seen[t] \in Nat
    BY <1>1, <1>4 DEF CycleInv
  <2> QED BY <1>4, <1>5, <2>1, <2>2 DEF Capturing
<1> DEFINE p == Previous(k.run)
           tk == ReadAs(c, k.seen, DOMAIN s.raw)
           row == RowDone(runs[r], now, c.epoch, NumberOfSamples(s))
<1> HIDE DEF s
<1>8. WrittenBy(k, p, s)
  BY <1>6, CapturedIs
<1>9. /\ s = [at |-> k.end, raw |-> On(k.seen, Selected(k)), delta |-> s.delta, cand |-> s.cand, ctx |-> s.ctx]
      /\ \A x \in s.ctx : s.ctx = {x}
      /\ c.run = r /\ c.epoch = Epoch(k) /\ c.engine = k.engine /\ c.start = k.start /\ c.end = k.end
      /\ c.native = Cardinality(DOMAIN k.seen) /\ c.limited = Limited(k)
      /\ c.hash = On(k.seen, Selected(k)) /\ c.parent = p /\ c.status = ComparisonStatus(k)
  BY <1>7, <1>8 DEF WrittenBy, Capturing
<1>10. /\ r \in DOMAIN runs /\ r \notin DOMAIN taken /\ DOMAIN store = DOMAIN runs /\ r \in 1..last
       /\ RowShape(runs[r]) /\ runs[r].started \in Nat /\ runs[r].started <= k.start
  BY <1>1, <1>4, <1>7 DEF Capturing, WaitInv, RunInv
<1>11. /\ taken' = Put(taken, r, tk)
       /\ runs' = [runs EXCEPT ![r] = row] /\ store' = [store EXCEPT ![r] = s]
  BY <1>3, <1>4, <1>9
<1>12. /\ Increments(taken', r, s)
       /\ \A q \in DOMAIN taken : OneHistory(taken', q, r)
       /\ Compares(taken', r)
  <2> DEFINE U == taken'
  <2>1. U = Put(taken, r, tk) /\ tk = ReadAs(c, k.seen, DOMAIN s.raw)
    BY <1>11
  <2> HIDE DEF U, tk
  <2>2. /\ Increments(U, r, s)
        /\ \A q \in DOMAIN taken : OneHistory(U, q, r)
        /\ Compares(U, r)
    BY <1>6, <1>7, <2>1, HistoryGoesOn
  <2> QED BY <2>2 DEF U
<1>13. /\ row.started = runs[r].started /\ row.ended = now /\ row.status = "PARTIAL"
       /\ row.epoch = c.epoch /\ row.count = NumberOfSamples(s) /\ RowShape(row)
  <2> DEFINE old == runs[r]
             epoch == c.epoch
             count == NumberOfSamples(s)
  <2>1. row = RowDone(old, now, epoch, count) /\ RowShape(old)
    BY <1>10
  <2> HIDE DEF row, old, epoch, count
  <2>2. /\ row.started = old.started /\ row.ended = now /\ row.status = "PARTIAL"
        /\ row.epoch = epoch /\ row.count = count /\ RowShape(row)
    BY <2>1, RowDoneIs
  <2> QED BY <2>2 DEF old, epoch, count
<1>14. /\ tk.read /\ ~tk.thinned /\ tk.cut = c.limited /\ tk.epoch = c.epoch
       /\ tk.engine = c.engine /\ tk.start = c.start /\ tk.end = c.end /\ tk.seen = k.seen
       /\ tk.written = DOMAIN s.raw /\ tk.status = c.status
       /\ tk = [read |-> tk.read, cut |-> tk.cut, thinned |-> tk.thinned, epoch |-> tk.epoch,
                engine |-> tk.engine, start |-> tk.start, end |-> tk.end, seen |-> tk.seen,
                written |-> tk.written, status |-> tk.status]
  <2> DEFINE seen == k.seen
             written == DOMAIN s.raw
  <2>1. tk = ReadAs(c, seen, written)
    OBVIOUS
  <2> HIDE DEF tk, seen, written
  <2>2. /\ tk.read /\ ~tk.thinned /\ tk.cut = c.limited /\ tk.epoch = c.epoch
        /\ tk.engine = c.engine /\ tk.start = c.start /\ tk.end = c.end /\ tk.seen = seen
        /\ tk.written = written /\ tk.status = c.status
        /\ tk = [read |-> tk.read, cut |-> tk.cut, thinned |-> tk.thinned, epoch |-> tk.epoch,
                 engine |-> tk.engine, start |-> tk.start, end |-> tk.end, seen |-> tk.seen,
                 written |-> tk.written, status |-> tk.status]
    BY <2>1, ReadAsIs
  <2> QED BY <2>2 DEF seen, written
<1>15. /\ k.start \in Nat /\ k.end \in Nat /\ k.start <= k.end /\ now \in Int /\ k.end <= now
  BY <1>4, <1>7, WaitAssumption DEF Capturing
<1> HIDE DEF tk, row
<1>16. RowsShape(s) /\ s.at = k.end /\ s.raw = On(k.seen, Selected(k))
  <2>1. s.at = k.end /\ s.raw = On(k.seen, Selected(k))
    BY <1>9
  <2> QED BY <1>9, <2>1 DEF RowsShape
<1>17. DOMAIN s.raw = Selected(k) /\ \A t \in DOMAIN s.raw : s.raw[t] = k.seen[t]
  BY <1>16 DEF On
<1>18. p < r
  BY <1>7, <1>10, PreviousIs DEF Capturing
<1>19. CountsAgree(c, row) /\ DecisionAgrees(c) /\ SoundRaw(row, s)
  <2>1. CountsAgree(c, row)
    BY <1>6, <1>7, <1>13, CountsWritten
  <2>2. DecisionAgrees(c)
    BY <1>6, <1>7, DecisionWritten
  <2>3. SoundRaw(row, s)
    BY <1>6, <1>7, <1>13, RawWritten
  <2> QED BY <2>1, <2>2, <2>3
<1>20. SoundContext(r, row, s)
  BY <1>9, <1>10, <1>13, <1>15, <1>16, <1>18, <1>19 DEF SoundContext
<1>21. RowsOK(r, row, s, tk)
  BY <1>9, <1>13, <1>14, <1>17, <1>19, <1>20, <1>16 DEF RowsOK
<1>22. TakenOK(r, tk)
  <2>1. tk.epoch \in 1..r
    <3>1. Epoch(k) = r \/ (Epoch(k) \in 1..p /\ p \in DOMAIN taken)
      BY <1>7, EpochIs DEF Capturing
    <3>2. p \in DOMAIN taken => p \in Nat
      BY DEF WaitInv, RunInv
    <3> QED BY <1>9, <1>10, <1>14, <1>18, <3>1, <3>2
  <2>2. Selected(k) \subseteq DOMAIN k.seen
    BY <1>7, SelectedIs
  <2>3. /\ tk.start \in Int /\ tk.end \in Int /\ tk.start <= tk.end
        /\ tk.written \subseteq DOMAIN tk.seen /\ DOMAIN tk.seen \subseteq Types
        /\ \A t \in DOMAIN tk.seen : tk.seen[t] \in Int
    BY <1>7, <1>9, <1>14, <1>15, <1>17, <2>2 DEF Capturing
  <2> QED BY <1>14, <2>1, <2>3 DEF TakenOK
<1>23. /\ DOMAIN runs' = DOMAIN runs /\ runs'[r] = row
       /\ \A q \in DOMAIN runs : q # r => runs'[q] = runs[q]
  BY <1>10, <1>11
<1>24. /\ DOMAIN store' = DOMAIN store /\ store'[r] = s
       /\ \A q \in DOMAIN store : q # r => store'[q] = store[q]
  BY <1>10, <1>11
<1>25. row.ended # None /\ row.started \in Nat
  BY <1>10, <1>13, <1>15 DEF None
<1>26. UNCHANGED <<last, counters>> /\ taken' = Put(taken, r, tk) /\ RowShape(row)
  BY <1>1, <1>11, <1>13
<1> HIDE DEF p
<1> QED BY <1>1, <1>10, <1>12, <1>16, <1>20, <1>21, <1>22, <1>23, <1>24, <1>25, <1>26, Finalizes

-----------------------------------------------------------------------------
LEMMA NextWait == ASSUME WaitInv, [Next]_vars PROVE WaitInv'
<1>1. CASE Clear
  BY <1>1, ClearWait
<1>2. CASE Restart \/ Abandon
  BY <1>2, RestartWait
<1>3. CASE Open
  BY <1>3, OpenWait
<1>4. CASE ReadStart
  BY <1>4, ReadStartWait
<1>5. CASE ReadType
  BY <1>5, ReadTypeWait
<1>6. CASE ReadEnd
  BY <1>6, ReadEndWait
<1>7. CASE ReadFails \/ CompleteFails
  BY <1>7, FailsWait
<1>8. CASE Complete
  BY <1>8, CompleteWait
<1>9. CASE FinalizeUnread \/ FinalizeFailure
  BY <1>9, FinalizeWait
<1>10. CASE PurgeSample
  BY <1>10, PurgeSampleWait
<1>11. CASE PurgeRun
  BY <1>11, PurgeRunWait
<1>12. CASE UNCHANGED vars
  BY <1>12 DEF vars, WaitInv, RunInv, NewestInv, CycleInv
<1> QED BY <1>1, <1>2, <1>3, <1>4, <1>5, <1>6, <1>7, <1>8, <1>9, <1>10, <1>11, <1>12 DEF Next, Capture

LEMMA AlwaysWait == Spec => []WaitInv
<1>1. Init => WaitInv
  BY InitWait
<1>2. WaitInv /\ [Next]_vars => WaitInv'
  BY NextWait
<1> QED BY <1>1, <1>2, PTL DEF Spec

(* A stored difference is what a counter gained between this capture and the *)
(* one that finalized directly before it, in windows that do not overlap and *)
(* without a restart, however often captures failed and the purge ran.       *)
THEOREM IncrementsTheorem == Spec => []CandidatesAreIncrements
<1>1. WaitInv => CandidatesAreIncrements
  <2> SUFFICES ASSUME WaitInv, NEW r \in DOMAIN store, NEW t \in DOMAIN store[r].cand
               PROVE  /\ Older(taken, r) # {}
                      /\ LET now == taken[r]
                             before == taken[Max(Older(taken, r))]
                         IN /\ before.read /\ before.engine = now.engine
                            /\ before.end <= now.start /\ before.end < now.end
                            /\ t \in DOMAIN before.seen \intersect DOMAIN now.seen
                            /\ store[r].cand[t] = now.seen[t] - before.seen[t]
                            /\ store[r].cand[t] >= 0
    BY DEF CandidatesAreIncrements, Before, LastBefore, Older
  <2>1. Increments(taken, r, store[r])
    BY DEF WaitInv
  <2> QED BY <2>1 DEF Increments
<1> QED BY <1>1, AlwaysWait, PTL

(* The captures of one reset epoch are one unbroken history of counters that *)
(* only grew, from one engine start.                                         *)
THEOREM HistoryTheorem == Spec => []EpochIsOneHistory
<1>1. WaitInv => EpochIsOneHistory
  BY DEF WaitInv, OneHistory, EpochIsOneHistory
<1> QED BY <1>1, AlwaysWait, PTL

(* Two complete captures in a row that can be compared are compared: what a  *)
(* capture writes, the checks of the next one accept until the purge takes a *)
(* row of it.                                                                *)
THEOREM ComparedTheorem == Spec => []ComparableIsCompared
<1>1. WaitInv => ComparableIsCompared
  <2> SUFFICES ASSUME WaitInv, NEW r \in DOMAIN taken
               PROVE  LET now == taken[r]
                          before == taken[Max(Older(taken, r))]
                      IN (/\ Older(taken, r) # {} /\ now.read /\ before.read
                          /\ ~now.cut /\ ~before.cut /\ ~before.thinned
                          /\ before.engine = now.engine /\ before.end <= now.start /\ before.end < now.end
                          /\ before.written # {} /\ before.written \subseteq DOMAIN now.seen
                          /\ \A t \in before.written : before.seen[t] <= now.seen[t])
                         => now.status = "MONOTONIC_CONTINUITY_UNPROVEN"
    BY DEF ComparableIsCompared, Before, LastBefore, Older
  <2>1. Compares(taken, r)
    BY DEF WaitInv
  <2> QED BY <2>1 DEF Compares
<1> QED BY <1>1, AlwaysWait, PTL

===============================================================================
