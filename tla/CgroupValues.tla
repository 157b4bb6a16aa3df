---------------------------- MODULE CgroupValues ----------------------------
(***************************************************************************)
(* The parsers of Code/Tools/Linux_Cgroup_Values.py, and what the reader   *)
(* derives from their numbers. A text is abstracted to the tokens its      *)
(* separators leave: a number token is a sequence of digits (a digit above *)
(* 9 stands for any other character), a list item a pair of numbers, a     *)
(* line a key and a number. Widths are constants, so that every boundary   *)
(* is met by short tokens.                                                 *)
(***************************************************************************)
EXTENDS Naturals, Sequences, FiniteSets, FiniteSetsExt, SequencesExt

CONSTANTS
    U64Max, U64Digits, \* largest number and its decimal digits (2^64 - 1 and 20)
    U31Max,            \* largest CPU number (2^31 - 1)
    NoValue,           \* stands for None
    KnownKeys          \* counter keys with a documented unit

Parsed(state, reason, value) == [state |-> state, reason |-> reason, value |-> value]
Invalid(reason) == Parsed("INVALID_VALUE", reason, NoValue)

(***************************************************************************)
(* Numbers                                                                 *)
(***************************************************************************)
\* Why a token, an item or a line is refused.
Reasons == {"INVALID_TOKEN", "INVALID_FORMAT", "OUT_OF_RANGE", "INVALID_RANGE", "DUPLICATE_KEY"}

Number(digits) ==
    LET upto[n \in 0..Len(digits)] == IF n = 0 THEN 0 ELSE 10 * upto[n - 1] + digits[n]
    IN  upto[Len(digits)]

\* The smallest number that is written with n digits.
Smallest(n) == Number([i \in 1..n |-> IF i = 1 THEN 1 ELSE 0])

ASSUME ValuesAssumption ==
    /\ U64Max \in Nat /\ U64Digits \in Nat \ {0} /\ U31Max \in Nat
    /\ U31Max <= U64Max
    /\ Smallest(U64Digits) <= U64Max /\ U64Max < Smallest(U64Digits + 1)
    /\ NoValue \notin Nat /\ NoValue \notin Nat \X Nat /\ NoValue \notin Reasons

StripZeros(digits) ==
    LET kept == {i \in DOMAIN digits : \E j \in 1..i : digits[j] # 0} IN
    IF kept = {} THEN <<0>> ELSE SubSeq(digits, Min(kept), Len(digits))

ParseU64(token) ==
    IF token = <<>> \/ \E i \in DOMAIN token : token[i] > 9 THEN Invalid("INVALID_TOKEN")
    ELSE LET n == StripZeros(token) IN
         IF Len(n) > U64Digits \/ Number(n) > U64Max THEN Invalid("OUT_OF_RANGE")
         ELSE Parsed("VALID", "FINITE_VALUE", Number(n))

InRange(n) == n <= U64Max

Gcd(a, b) == Max({d \in 1..Min({a, b}) : a % d = 0 /\ b % d = 0})

\* cpu.max: the period is judged before the quota; "max" has no ratio.
ParseCpuMax(quota, period) ==
    IF ~InRange(period) \/ period = 0 THEN Invalid("OUT_OF_RANGE")
    ELSE IF quota = NoValue THEN Parsed("VALID", "UNLIMITED", NoValue)
    ELSE IF ~InRange(quota) \/ quota = 0 THEN Invalid("OUT_OF_RANGE")
    ELSE LET d == Gcd(quota, period) IN
         Parsed("VALID", "FINITE_VALUE", <<quota \div d, period \div d>>)

Less(r, s) == r[1] * s[2] < s[1] * r[2]

\* The visible ratio of all levels: the least finite one, in lowest terms.
MinRatio(levels) ==
    LET parsed == [i \in DOMAIN levels |-> ParseCpuMax(levels[i][1], levels[i][2])]
        finite == {parsed[i].value : i \in {j \in DOMAIN parsed : parsed[j].value # NoValue}}
    IN  IF \E i \in DOMAIN parsed : parsed[i].state # "VALID"
        THEN Parsed("UNAVAILABLE", "GAP", NoValue)
        ELSE IF finite = {} THEN Parsed("NO_FINITE_VISIBLE_LIMIT", "UNLIMITED", NoValue)
        ELSE Parsed("AVAILABLE", "FINITE_VALUE",
                    CHOOSE r \in finite : \A s \in finite : ~Less(s, r))

(***************************************************************************)
(* CPU lists                                                               *)
(***************************************************************************)
Before(a, b) == a[1] < b[1] \/ (a[1] = b[1] /\ a[2] < b[2])

\* The items in ascending order, each as often as it is there.
Sorted(items) ==
    LET Ascending(p) ==
            /\ \A i \in DOMAIN items : \E k \in DOMAIN items : p[k] = i
            /\ \A k, n \in DOMAIN items : k < n => ~Before(items[p[n]], items[p[k]])
        order == CHOOSE p \in [DOMAIN items -> DOMAIN items] : Ascending(p)
    IN  [k \in DOMAIN items |-> items[order[k]]]

(* Mutant: the later end replaces the earlier one. *)
JoinLast(merged, next) ==
    IF merged # <<>> /\ next[1] <= Last(merged)[2] + 1
    THEN Append(Front(merged), <<Last(merged)[1], next[2]>>)
    ELSE Append(merged, next)

Join(merged, next) ==
    IF merged # <<>> /\ next[1] <= Last(merged)[2] + 1
    THEN Append(Front(merged), <<Last(merged)[1], Max({Last(merged)[2], next[2]})>>)
    ELSE Append(merged, next)

Merge(items) ==
    LET sorted == Sorted(items)
        upto[n \in 0..Len(sorted)] == IF n = 0 THEN <<>> ELSE Join(upto[n - 1], sorted[n])
    IN  upto[Len(sorted)]

Count(merged) ==
    LET upto[n \in 0..Len(merged)] ==
            IF n = 0 THEN 0 ELSE upto[n - 1] + ((merged[n][2] - merged[n][1]) + 1)
    IN  upto[Len(merged)]

ItemFault(item) ==
    IF item = <<>> THEN "INVALID_FORMAT"
    ELSE IF Max({item[1], item[2]}) > U31Max THEN "OUT_OF_RANGE"
    ELSE IF item[1] > item[2] THEN "INVALID_RANGE"
    ELSE NoValue

ParseCpuset(items) ==
    LET faulty == {i \in DOMAIN items : ItemFault(items[i]) # NoValue}
    IN  IF items = <<>> THEN Parsed("EMPTY_OBSERVATION", "EMPTY_OBSERVATION", NoValue)
        ELSE IF faulty # {} THEN Invalid(ItemFault(items[Min(faulty)]))
        ELSE Parsed("VALID", "FINITE_VALUE",
                    [intervals |-> Merge(items), count |-> Count(Merge(items))])

(***************************************************************************)
(* Counters                                                                *)
(***************************************************************************)
Repeated(lines, i) ==
    \E j \in 1..(i - 1) : lines[j].shape = "pair" /\ lines[j].key = lines[i].key

LineFault(lines, i) ==
    IF lines[i].shape = "blank" THEN NoValue
    ELSE IF lines[i].shape = "words" THEN "INVALID_FORMAT"
    ELSE IF lines[i].key = "?" THEN "INVALID_TOKEN"
    ELSE IF Repeated(lines, i) THEN "DUPLICATE_KEY"
    ELSE IF lines[i].value > U64Max THEN "OUT_OF_RANGE"
    ELSE NoValue

Counter(line) ==
    [key |-> line.key, value |-> line.value,
     state |-> IF line.key \in KnownKeys THEN "MAPPED" ELSE "UNMAPPED_KEY"]

\* The counters, each under the number of its line.
ParseCounters(lines) ==
    LET faulty == {i \in DOMAIN lines : LineFault(lines, i) # NoValue}
        pairs == {i \in DOMAIN lines : lines[i].shape = "pair"}
    IN  IF faulty # {} THEN Invalid(LineFault(lines, Min(faulty)))
        ELSE Parsed("VALID", "COUNTERS_PARSED", [i \in pairs |-> Counter(lines[i])])
=============================================================================
