------------------------- MODULE CgroupTextProofs -------------------------
(***************************************************************************)
(* What the parsers of CgroupText return, for tokens, lists and files of   *)
(* any length and any width of the numbers.                                *)
(*                                                                         *)
(* The reachable states say little: a text is given and parsed once.  The  *)
(* proof is about the recursive functions of the parsers: each is first    *)
(* shown to have a unique solution, and what its value after n elements is *)
(* is then proved by counting up.                                          *)
(***************************************************************************)
EXTENDS CgroupText, FiniteSetTheorems, WellFoundedInduction, TLAPS

-----------------------------------------------------------------------------
(* Counting up from 0: a set that holds 0 and the successor of what it     *)
(* holds below N reaches N.                                                *)
LEMMA Upward ==
  ASSUME NEW N \in Nat, NEW S, 0 \in S, \A n \in 0..N : n # N /\ n \in S => n + 1 \in S
  PROVE  0..N \subseteq S
<1> DEFINE W == (0..N) \ S
<1> SUFFICES ASSUME W # {} PROVE FALSE
  OBVIOUS
<1>1. W \subseteq Nat
  OBVIOUS
<1>2. PICK x \in W : \A y \in W : ~(<<y, x>> \in OpToRel(<, Nat))
  BY <1>1, NatLessThanWellFounded, WFMin
<1>3. \A y \in W : ~(y < x)
  BY <1>1, <1>2 DEF OpToRel
<1>4. x # 0 /\ x - 1 \in 0..N /\ x - 1 # N
  OBVIOUS
<1>5. x - 1 \in S
  BY <1>3, <1>4
<1> QED BY <1>4, <1>5

(* A set of numbers has a least one. *)
LEMMA LeastOf ==
  ASSUME NEW S \in SUBSET Nat, S # {}
  PROVE  Min(S) \in S /\ \A j \in S : Min(S) <= j
<1>1. PICK x \in S : \A y \in S : ~(<<y, x>> \in OpToRel(<, Nat))
  BY NatLessThanWellFounded, WFMin
<1>2. \A y \in S : ~(y < x)
  BY <1>1 DEF OpToRel
<1>3. \A y \in S : x <= y
  BY <1>2
<1> QED BY <1>3 DEF Min

(* A bounded set of numbers has a greatest one. *)
LEMMA GreatestOf ==
  ASSUME NEW S \in SUBSET Nat, S # {}, NEW B \in Nat, \A j \in S : j <= B
  PROVE  Max(S) \in S /\ \A j \in S : j <= Max(S)
<1> DEFINE R == {B - j : j \in S}
<1>1. R \in SUBSET Nat /\ R # {}
  <2>1. \A j \in S : j \in Nat /\ j <= B /\ B - j \in Nat
    OBVIOUS
  <2> QED BY <2>1
<1>2. Min(R) \in R /\ \A k \in R : Min(R) <= k
  <2> HIDE DEF R
  <2> QED BY <1>1, LeastOf
<1>3. PICK m \in S : Min(R) = B - m
  BY <1>2
<1>4. \A j \in S : j <= m
  <2> SUFFICES ASSUME NEW j \in S PROVE j <= m
    OBVIOUS
  <2>1. B - m <= B - j
    BY <1>2, <1>3
  <2>2. m \in Nat /\ j \in Nat
    OBVIOUS
  <2> QED BY <2>1, <2>2
<1>5. m \in S /\ \A j \in S : m >= j
  BY <1>4
<1>6. Max(S) \in S /\ \A j \in S : Max(S) >= j
  BY <1>5 DEF Max
<1> QED BY <1>6

(* A function defined by recursion on 0..N, the step given as a function. *)
Follows(f, T, N, a, G) ==
  /\ f \in [0..N -> T] /\ f[0] = a
  /\ \A n \in 1..N : f[n] = G[n][f[n - 1]]

(* Such a function exists, whatever the step. *)
LEMMA FollowsExists ==
  ASSUME NEW T, NEW a \in T, NEW N \in Nat, NEW G \in [1..N -> [T -> T]]
  PROVE  \E f : Follows(f, T, N, a, G)
<1> DEFINE S == {m \in 0..N : \E f : Follows(f, T, m, a, G)}
<1>1. 0 \in S
  <2>1. Follows([n \in 0..0 |-> a], T, 0, a, G)
    BY DEF Follows
  <2> QED BY <2>1
<1>2. \A m \in 0..N : m # N /\ m \in S => m + 1 \in S
  <2> SUFFICES ASSUME NEW m \in 0..N, m # N, m \in S PROVE m + 1 \in S
    OBVIOUS
  <2>1. PICK f : Follows(f, T, m, a, G)
    OBVIOUS
  <2> DEFINE g == [n \in 0..(m + 1) |-> IF n = m + 1 THEN G[m + 1][f[m]] ELSE f[n]]
  <2>2. m + 1 \in 1..N /\ f[m] \in T /\ f \in [0..m -> T]
    BY <2>1 DEF Follows
  <2>3. G[m + 1][f[m]] \in T
    BY <2>2
  <2>4. g \in [0..(m + 1) -> T] /\ g[0] = a
    BY <2>1, <2>2, <2>3 DEF Follows
  <2>5. ASSUME NEW n \in 1..(m + 1) PROVE g[n] = G[n][g[n - 1]]
    <3>1. CASE n = m + 1
      <4>1. g[n] = G[m + 1][f[m]] /\ g[m] = f[m] /\ n - 1 = m
        BY <3>1
      <4> HIDE DEF g
      <4> QED BY <3>1, <4>1
    <3>2. CASE n # m + 1
      <4>1. n \in 1..m /\ n - 1 \in 0..m
        BY <3>2
      <4>2. g[n] = f[n] /\ g[n - 1] = f[n - 1]
        BY <4>1
      <4>3. f[n] = G[n][f[n - 1]]
        BY <4>1, <2>1 DEF Follows
      <4> HIDE DEF g
      <4> QED BY <4>2, <4>3
    <3> QED BY <3>1, <3>2
  <2> HIDE DEF g
  <2>6. Follows(g, T, m + 1, a, G)
    BY <2>4, <2>5 DEF Follows
  <2> QED BY <2>2, <2>6
<1>3. N \in S
  <2>1. N \in 0..N
    OBVIOUS
  <2> HIDE DEF S
  <2>2. 0..N \subseteq S
    BY <1>1, <1>2, Upward
  <2> QED BY <2>1, <2>2
<1> QED BY <1>3

(* Two functions that agree at 0, and at each n if they agree before it. *)
Table(f, N) == f = [n \in 0..N |-> f[n]]

(* Two solutions of one recursion do not differ. *)
LEMMA Agree ==
  ASSUME NEW N \in Nat, NEW f, NEW g, Table(f, N), Table(g, N), g[0] = f[0],
         \A n \in 1..N : g[n - 1] = f[n - 1] => g[n] = f[n]
  PROVE  g = f
<1> DEFINE E == {n \in 0..N : g[n] = f[n]}
<1>1. 0 \in E
  OBVIOUS
<1>2. \A n \in 0..N : n # N /\ n \in E => n + 1 \in E
  <2> SUFFICES ASSUME NEW n \in 0..N, n # N, n \in E PROVE n + 1 \in E
    OBVIOUS
  <2>1. n + 1 \in 1..N /\ n + 1 \in 0..N /\ (n + 1) - 1 = n /\ g[n] = f[n]
    OBVIOUS
  <2>2. g[n + 1] = f[n + 1]
    BY <2>1
  <2> QED BY <2>1, <2>2
<1>3. 0..N \subseteq E
  <2> HIDE DEF E
  <2> QED BY <1>1, <1>2, Upward
<1>4. \A n \in 0..N : g[n] = f[n]
  BY <1>3
<1> QED BY <1>4, Zenon DEF Table

-----------------------------------------------------------------------------
(* Numbers *)

(* The number read so far, digit by digit. *)
Reads(f, d) ==
  /\ f \in [0..Len(d) -> Nat] /\ f[0] = 0
  /\ \A n \in 1..Len(d) : f[n] = 10 * f[n - 1] + d[n]

(* Number is read digit by digit. *)
LEMMA NumberReads ==
  ASSUME NEW d \in Seq(Nat)
  PROVE  \E f : Reads(f, d) /\ Number(d) = f[Len(d)]
<1> DEFINE N == Len(d)
           Rec(f) == [n \in 0..N |-> IF n = 0 THEN 0 ELSE 10 * f[n - 1] + d[n]]
           upto == CHOOSE f : f = Rec(f)
           G == [n \in 1..N |-> [x \in Nat |-> 10 * x + d[n]]]
<1>1. Number(d) = upto[N]
  BY DEF Number
<1>2. N \in Nat /\ G \in [1..N -> [Nat -> Nat]]
  OBVIOUS
<1>3. PICK f : Follows(f, Nat, N, 0, G)
  <2> HIDE DEF G, N
  <2> QED BY <1>2, FollowsExists
<1>4. Reads(f, d)
  <2> SUFFICES ASSUME NEW n \in 1..N PROVE f[n] = 10 * f[n - 1] + d[n]
    BY <1>3, Zenon DEF Follows, Reads
  <2>1. n - 1 \in 0..N
    BY <1>2
  <2> HIDE DEF N, G
  <2>2. f[n - 1] \in Nat /\ f[n] = G[n][f[n - 1]]
    BY <1>3, <2>1 DEF Follows
  <2>3. \A x \in Nat : G[n][x] = 10 * x + d[n]
    BY DEF G
  <2> QED BY <2>2, <2>3
<1>5. f = Rec(f)
  BY <1>4 DEF Reads
<1>6. ASSUME NEW g, g = Rec(g) PROVE g = f
  <2>1. Table(g, N) /\ Table(f, N)
    BY <1>5, <1>6 DEF Table
  <2>2. g[0] = Rec(g)[0] /\ f[0] = 0
    BY <1>6, <1>4 DEF Reads
  <2>3. \A n \in 1..N : g[n - 1] = f[n - 1] => g[n] = f[n]
    <3> SUFFICES ASSUME NEW n \in 1..N, g[n - 1] = f[n - 1] PROVE g[n] = f[n]
      OBVIOUS
    <3>1. g[n] = Rec(g)[n] /\ f[n] = Rec(f)[n]
      BY <1>5, <1>6
    <3>2. Rec(g)[n] = Rec(f)[n]
      OBVIOUS
    <3> QED BY <3>1, <3>2
  <2>4. g[0] = f[0]
    BY <2>2
  <2> HIDE DEF N, Rec, G
  <2>5. N \in Nat
    BY <1>2
  <2> QED BY <2>1, <2>3, <2>4, <2>5, Agree
<1>7. upto = f
  <2> HIDE DEF Rec
  <2> QED BY <1>5, <1>6
<1> QED BY <1>1, <1>4, <1>7

(* What digits denote is a number. *)
LEMMA NumberNat ==
  ASSUME NEW d \in Seq(Nat)
  PROVE  Number(d) \in Nat
<1>1. PICK f : Reads(f, d) /\ Number(d) = f[Len(d)]
  BY NumberReads
<1> QED BY <1>1 DEF Reads

(* As long as there are only zeros the number read is 0. *)
LEMMA ZerosReadZero ==
  ASSUME NEW d \in Seq(Nat), NEW f, Reads(f, d),
         NEW k \in 0..Len(d), \A j \in 1..k : d[j] = 0
  PROVE  f[k] = 0
<1> DEFINE Z == {n \in 0..k : f[n] = 0}
<1>1. 0 \in Z
  BY DEF Reads
<1>2. \A n \in 0..k : n # k /\ n \in Z => n + 1 \in Z
  <2> SUFFICES ASSUME NEW n \in 0..k, n # k, n \in Z PROVE n + 1 \in Z
    OBVIOUS
  <2>1. n + 1 \in 1..k /\ n + 1 \in 1..Len(d) /\ (n + 1) - 1 = n
    OBVIOUS
  <2>2. f[n + 1] = 10 * f[n] + d[n + 1] /\ d[n + 1] = 0 /\ f[n] = 0
    BY <2>1 DEF Reads
  <2> QED BY <2>1, <2>2
<1>3. 0..k \subseteq Z
  <2>1. k \in Nat
    OBVIOUS
  <2> HIDE DEF Z
  <2> QED BY <2>1, <1>1, <1>2, Upward
<1> QED BY <1>3

(* What comes before place k does not count if it is all zeros. *)
LEMMA ZerosCountNothing ==
  ASSUME NEW d \in Seq(Nat), NEW k \in 1..Len(d), \A j \in 1..(k - 1) : d[j] = 0
  PROVE  Number(SubSeq(d, k, Len(d))) = Number(d)
<1> DEFINE s == SubSeq(d, k, Len(d))
           M == Len(s)
<1>1. s \in Seq(Nat) /\ M = (Len(d) - k) + 1 /\ M \in Nat
  OBVIOUS
<1>2. \A n \in 1..M : s[n] = d[(n + k) - 1]
  OBVIOUS
<1> HIDE DEF s
<1>3. PICK f : Reads(f, d) /\ Number(d) = f[Len(d)]
  BY NumberReads
<1>4. PICK g : Reads(g, s) /\ Number(s) = g[M]
  BY <1>1, NumberReads
<1>5. f[k - 1] = 0
  <2>1. k - 1 \in 0..Len(d)
    OBVIOUS
  <2> QED BY <2>1, <1>3, ZerosReadZero
<1> DEFINE E == {n \in 0..M : g[n] = f[(n + k) - 1]}
<1>6. 0 \in E
  BY <1>1, <1>4, <1>5 DEF Reads
<1>7. \A n \in 0..M : n # M /\ n \in E => n + 1 \in E
  <2> SUFFICES ASSUME NEW n \in 0..M, n # M, n \in E PROVE n + 1 \in E
    OBVIOUS
  <2>1. /\ n + 1 \in 1..M /\ (n + 1) - 1 = n
        /\ n + k \in 1..Len(d) /\ ((n + 1) + k) - 1 = n + k
    <3> HIDE DEF M, E
    <3>1. Len(d) \in Nat /\ k \in Nat /\ k >= 1 /\ k <= Len(d)
      OBVIOUS
    <3>2. M = (Len(d) - k) + 1 /\ M \in Nat
      BY <1>1
    <3>3. n \in Nat /\ n < M
      BY <3>2
    <3> QED BY <3>1, <3>2, <3>3
  <2>2. g[n + 1] = 10 * g[n] + s[n + 1]
    BY <1>4, <2>1 DEF Reads
  <2>3. f[n + k] = 10 * f[(n + k) - 1] + d[n + k]
    BY <1>3, <2>1 DEF Reads
  <2>4. s[n + 1] = d[n + k]
    BY <1>2, <2>1
  <2> QED BY <2>1, <2>2, <2>3, <2>4
<1>8. 0..M \subseteq E
  <2> HIDE DEF E
  <2> QED BY <1>1, <1>6, <1>7, Upward
<1>9. M \in 0..M /\ (M + k) - 1 = Len(d)
  BY <1>1
<1>10. g[M] = f[Len(d)]
  BY <1>8, <1>9
<1> QED BY <1>3, <1>4, <1>10 DEF s

(* Stripping zeros keeps the number, and a long rest is a large number. *)
LEMMA StripZerosExact ==
  ASSUME NEW d \in Seq(Nat), d # <<>>
  PROVE  /\ StripZeros(d) \in Seq(Nat) /\ Number(StripZeros(d)) = Number(d)
         /\ Len(StripZeros(d)) > 1 => StripZeros(d)[1] # 0
         /\ Len(StripZeros(d)) >= 1
<1> DEFINE kept == {i \in DOMAIN d : \E j \in 1..i : d[j] # 0}
<1>1. CASE kept = {}
  <2>1. \A j \in 1..Len(d) : d[j] = 0
    BY <1>1
  <2>2. Number(d) = 0
    BY <2>1, NumberReads, ZerosReadZero
  <2>3. Number(<<0>>) = 0
    <3> DEFINE z == <<0>>
    <3>1. z \in Seq(Nat) /\ Len(z) = 1 /\ Len(z) \in 0..Len(z) /\ \A j \in 1..Len(z) : z[j] = 0
      OBVIOUS
    <3> HIDE DEF z
    <3>2. Number(z) = 0
      BY <3>1, NumberReads, ZerosReadZero
    <3> QED BY <3>2 DEF z
  <2>4. Number(<<0>>) = Number(d)
    BY <2>2, <2>3
  <2>5. StripZeros(d) = <<0>>
    BY <1>1 DEF StripZeros
  <2> QED BY <2>4, <2>5
<1>2. CASE kept # {}
  <2> DEFINE m == Min(kept)
  <2>1. m \in kept /\ \A j \in kept : m <= j
    <3>1. kept \in SUBSET Nat
      OBVIOUS
    <3> HIDE DEF kept
    <3> QED BY <1>2, <3>1, LeastOf
  <2>2. StripZeros(d) = SubSeq(d, m, Len(d))
    BY <1>2 DEF StripZeros
  <2> HIDE DEF m
  <2>3. m \in 1..Len(d)
    BY <2>1
  <2>4. \A j \in 1..(m - 1) : d[j] = 0
    <3> SUFFICES ASSUME NEW j \in 1..(m - 1), d[j] # 0 PROVE FALSE
      OBVIOUS
    <3>1. j \in DOMAIN d /\ j \in 1..j
      BY <2>3
    <3>2. j \in kept
      BY <3>1
    <3> QED BY <2>1, <2>3, <3>2
  <2>5. d[m] # 0
    BY <2>1, <2>3, <2>4
  <2>6. Number(SubSeq(d, m, Len(d))) = Number(d)
    BY <2>3, <2>4, ZerosCountNothing
  <2>7. SubSeq(d, m, Len(d)) \in Seq(Nat) /\ SubSeq(d, m, Len(d))[1] = d[m]
        /\ Len(SubSeq(d, m, Len(d))) = (Len(d) - m) + 1
    BY <2>3
  <2> QED BY <2>2, <2>3, <2>5, <2>6, <2>7
<1> QED BY <1>1, <1>2

(* A number that does not begin with 0 is at least 1 and as many zeros, and *)
(* with more digits it is not smaller.                                      *)
LEMMA LongIsLarge ==
  ASSUME NEW d \in Seq(Nat), NEW L \in 1..Len(d), d[1] # 0
  PROVE  Smallest(L) <= Number(d)
<1> DEFINE s == [i \in 1..L |-> IF i = 1 THEN 1 ELSE 0]
<1>1. s \in Seq(Nat) /\ Len(s) = L /\ L \in Nat
  OBVIOUS
<1>2. \A i \in 1..L : s[i] <= d[i] /\ s[i] \in Nat /\ d[i] \in Nat
  OBVIOUS
<1> HIDE DEF s
<1>3. PICK f : Reads(f, d) /\ Number(d) = f[Len(d)]
  BY NumberReads
<1>4. PICK g : Reads(g, s) /\ Number(s) = g[L]
  BY <1>1, NumberReads
<1> DEFINE E == {n \in 0..L : g[n] <= f[n]}
<1>5. 0 \in E
  BY <1>1, <1>3, <1>4 DEF Reads
<1>6. \A n \in 0..L : n # L /\ n \in E => n + 1 \in E
  <2> SUFFICES ASSUME NEW n \in 0..L, n # L, n \in E PROVE n + 1 \in E
    OBVIOUS
  <2>1. n + 1 \in 1..L /\ (n + 1) - 1 = n /\ n + 1 \in 1..Len(d) /\ n \in 0..Len(d)
    BY <1>1
  <2>2. g[n + 1] = 10 * g[n] + s[n + 1] /\ g[n] \in Nat /\ g[n] <= f[n]
    BY <1>1, <1>4, <2>1 DEF Reads
  <2>3. f[n + 1] = 10 * f[n] + d[n + 1] /\ f[n] \in Nat
    BY <1>3, <2>1 DEF Reads
  <2>4. s[n + 1] <= d[n + 1] /\ s[n + 1] \in Nat /\ d[n + 1] \in Nat
    BY <1>2, <2>1
  <2>5. g[n + 1] <= f[n + 1]
    <3> DEFINE a == g[n]
               b == f[n]
               x == s[n + 1]
               y == d[n + 1]
    <3>1. a \in Nat /\ b \in Nat /\ a <= b /\ x \in Nat /\ y \in Nat /\ x <= y
      BY <2>2, <2>3, <2>4
    <3> HIDE DEF a, b, x, y
    <3>2. 10 * a + x <= 10 * b + y
      BY <3>1
    <3> QED BY <2>2, <2>3, <3>2 DEF a, b, x, y
  <2> QED BY <2>1, <2>5
<1>7. 0..L \subseteq E
  <2> HIDE DEF E
  <2> QED BY <1>1, <1>5, <1>6, Upward
<1>8. g[L] <= f[L]
  BY <1>1, <1>7
<1> DEFINE H == {n \in 0..Len(d) : n >= L => f[L] <= f[n]}
<1>9. 0 \in H
  OBVIOUS
<1>10. \A n \in 0..Len(d) : n # Len(d) /\ n \in H => n + 1 \in H
  <2> SUFFICES ASSUME NEW n \in 0..Len(d), n # Len(d), n \in H, n + 1 >= L
               PROVE  f[L] <= f[n + 1]
    OBVIOUS
  <2>1. n + 1 \in 1..Len(d) /\ (n + 1) - 1 = n /\ L \in 0..Len(d)
    OBVIOUS
  <2>2. f[n + 1] = 10 * f[n] + d[n + 1]
    BY <1>3, <2>1 DEF Reads
  <2>5. f[n] \in Nat /\ d[n + 1] \in Nat /\ f[L] \in Nat /\ f[n + 1] \in Nat
    <3>1. f \in [0..Len(d) -> Nat] /\ n \in 0..Len(d) /\ n + 1 \in 0..Len(d)
      BY <1>3, <2>1 DEF Reads
    <3>2. d[n + 1] \in Nat
      BY <2>1
    <3> QED BY <2>1, <3>1, <3>2
  <2>3. CASE n + 1 = L
    BY <2>3, <2>5
  <2>4. CASE n >= L
    <3>1. f[L] <= f[n]
      BY <2>4
    <3> QED BY <2>2, <2>5, <3>1
  <2> QED BY <2>3, <2>4
<1>11. 0..Len(d) \subseteq H
  <2>1. Len(d) \in Nat
    OBVIOUS
  <2> HIDE DEF H
  <2> QED BY <2>1, <1>9, <1>10, Upward
<1>12. f[L] <= f[Len(d)]
  BY <1>11
<1>13. g[L] \in Nat /\ f[L] \in Nat /\ f[Len(d)] \in Nat
  <2>1. L \in 0..Len(d) /\ Len(d) \in 0..Len(d) /\ L \in 0..Len(s)
    BY <1>1
  <2> QED BY <2>1, <1>3, <1>4 DEF Reads
<1> QED BY <1>3, <1>4, <1>8, <1>12, <1>13 DEF Smallest, s

(* A token is accepted exactly if it denotes a number of the width. *)
LEMMA ParseU64Exact ==
  ASSUME NEW d \in Seq(Nat)
  PROVE  LET digits == d # <<>> /\ \A i \in DOMAIN d : d[i] <= 9 IN
         /\ ParseU64(d).state = "VALID" <=> digits /\ Number(d) <= U64Max
         /\ ParseU64(d).state = "VALID" => ParseU64(d).value = Number(d)
<1>1. CASE d = <<>> \/ \E i \in DOMAIN d : d[i] > 9
  BY <1>1 DEF ParseU64, Invalid, Parsed
<1>2. CASE ~(d = <<>> \/ \E i \in DOMAIN d : d[i] > 9)
  <2> DEFINE n == StripZeros(d)
  <2>1. /\ n \in Seq(Nat) /\ Number(n) = Number(d)
        /\ Len(n) > 1 => n[1] # 0
        /\ Len(n) >= 1
    BY <1>2, StripZerosExact
  <2>2. Len(n) > U64Digits => Number(n) > U64Max
    <3> HIDE DEF n
    <3> SUFFICES ASSUME Len(n) > U64Digits PROVE Number(n) > U64Max
      OBVIOUS
    <3>1. U64Digits \in Nat \ {0} /\ U64Max \in Nat
      BY ValuesAssumption
    <3>2. U64Digits + 1 \in 1..Len(n) /\ Len(n) > 1
      BY <2>1, <3>1
    <3>3. Smallest(U64Digits + 1) <= Number(n)
      BY <2>1, <3>2, LongIsLarge
    <3>4. U64Max < Smallest(U64Digits + 1)
      BY ValuesAssumption
    <3>5. Smallest(U64Digits + 1) \in Nat
      <4>1. [i \in 1..(U64Digits + 1) |-> IF i = 1 THEN 1 ELSE 0] \in Seq(Nat)
        BY <3>1
      <4> QED BY <4>1, NumberNat DEF Smallest
    <3>6. Number(n) \in Nat
      BY <2>1, NumberNat
    <3> QED BY <3>1, <3>3, <3>4, <3>5, <3>6
  <2>3. ParseU64(d) = IF Len(n) > U64Digits \/ Number(n) > U64Max THEN Invalid("OUT_OF_RANGE")
                      ELSE Parsed("VALID", "FINITE_VALUE", Number(n))
    BY <1>2 DEF ParseU64
  <2>4. Number(n) \in Nat /\ U64Max \in Nat
    BY <2>1, NumberNat, ValuesAssumption
  <2>5. d # <<>> /\ \A i \in DOMAIN d : d[i] <= 9
    BY <1>2
  <2> HIDE DEF n
  <2>6. ParseU64(d).state = "VALID" <=> Number(n) <= U64Max
    BY <2>2, <2>3, <2>4 DEF Invalid, Parsed
  <2>7. ParseU64(d).state = "VALID" => ParseU64(d).value = Number(n)
    BY <2>3 DEF Invalid, Parsed
  <2> QED BY <2>1, <2>5, <2>6, <2>7
<1> QED BY <1>1, <1>2

-----------------------------------------------------------------------------
(* Ratios *)
LEMMA Multiple ==
  ASSUME NEW d \in Nat, d > 0, NEW k \in Nat
  PROVE  (k * d) % d = 0 /\ (k * d) \div d = k
  OBVIOUS

(* A divisor divides with a quotient that is a number. *)
LEMMA Divided ==
  ASSUME NEW a \in Nat, NEW d \in Nat, d > 0, a % d = 0
  PROVE  a \div d \in Nat /\ a = (a \div d) * d
  OBVIOUS

(* Multiplying by a larger factor gives a larger product. *)
LEMMA Grows ==
  ASSUME NEW x \in Nat, NEW y \in Nat, NEW z \in Nat, x <= y
  PROVE  x * z <= y * z
  OBVIOUS

(* A positive factor cancels. *)
LEMMA Cancels ==
  ASSUME NEW x \in Nat, NEW y \in Nat, NEW z \in Nat, z > 0, x * z <= y * z
  PROVE  x <= y
<1> SUFFICES ASSUME y + 1 <= x PROVE FALSE
  OBVIOUS
<1>1. (y + 1) * z <= x * z
  BY Grows
<1>2. (y + 1) * z = y * z + z
  OBVIOUS
<1>3. x * z \in Nat /\ y * z \in Nat
  OBVIOUS
<1> QED BY <1>1, <1>2, <1>3

(* a/b <= c/d <= e/f. *)
LEMMA RatioTransitive ==
  ASSUME NEW a \in Nat, NEW b \in Nat, NEW c \in Nat, NEW d \in Nat, NEW e \in Nat, NEW f \in Nat,
         d > 0, a * d <= c * b, c * f <= e * d
  PROVE  a * f <= e * b
<1>1. a * d \in Nat /\ c * b \in Nat /\ c * f \in Nat /\ e * d \in Nat /\ a * f \in Nat /\ e * b \in Nat
  OBVIOUS
<1>2. (a * d) * f <= (c * b) * f
  BY <1>1, Grows
<1>3. (c * f) * b <= (e * d) * b
  BY <1>1, Grows
<1>4. (a * d) * f = (a * f) * d /\ (c * b) * f = (c * f) * b /\ (e * d) * b = (e * b) * d
  OBVIOUS
<1>5. (a * f) * d \in Nat /\ (c * f) * b \in Nat /\ (e * b) * d \in Nat
  BY <1>1
<1>6. (a * f) * d <= (e * b) * d
  BY <1>2, <1>3, <1>4, <1>5
<1> QED BY <1>1, <1>6, Cancels

Common(d, a, b) == d \in Nat /\ d > 0 /\ a % d = 0 /\ b % d = 0

(* Gcd is a common divisor, and no common divisor is greater. *)
LEMMA GcdIsGreatest ==
  ASSUME NEW a \in Nat, NEW b \in Nat, a > 0, b > 0
  PROVE  Common(Gcd(a, b), a, b) /\ \A d : Common(d, a, b) => d <= Gcd(a, b)
<1> DEFINE m == Min({a, b})
           S == {d \in 1..m : a % d = 0 /\ b % d = 0}
<1>1. m \in {a, b} /\ m <= a /\ m <= b
  <2> DEFINE P == {a, b}
  <2>1. P \in SUBSET Nat /\ P # {} /\ a \in P /\ b \in P
    OBVIOUS
  <2> HIDE DEF P
  <2>2. Min(P) \in P /\ \A j \in P : Min(P) <= j
    BY <2>1, LeastOf
  <2> QED BY <2>1, <2>2 DEF P
<1> HIDE DEF m
<1>2. m \in Nat /\ m >= 1
  BY <1>1
<1>3. a % 1 = 0 /\ b % 1 = 0
  OBVIOUS
<1>4. S \in SUBSET Nat /\ 1 \in S /\ \A d \in S : d <= m
  BY <1>2, <1>3
<1>5. Max(S) \in S /\ \A d \in S : d <= Max(S)
  <2> HIDE DEF S
  <2> QED BY <1>2, <1>4, GreatestOf
<1>6. Gcd(a, b) = Max(S)
  BY DEF Gcd, m
<1>7. ASSUME NEW d, Common(d, a, b) PROVE d \in S
  <2>1. d \in Nat /\ d > 0 /\ a % d = 0 /\ b % d = 0
    BY <1>7 DEF Common
  <2>2. d <= a /\ d <= b
    <3>1. a = (a \div d) * d /\ a \div d \in Nat /\ b = (b \div d) * d /\ b \div d \in Nat
      BY <2>1, Divided
    <3> DEFINE x == a \div d
               y == b \div d
    <3>2. x >= 1 /\ y >= 1
      <4> HIDE DEF x, y
      <4> SUFFICES ASSUME x = 0 \/ y = 0 PROVE FALSE
        BY <3>1 DEF x, y
      <4> QED BY <2>1, <3>1 DEF x, y
    <3>3. 1 * d <= x * d /\ 1 * d <= y * d
      <4>1. x \in Nat /\ y \in Nat
        BY <3>1
      <4> HIDE DEF x, y
      <4> QED BY <2>1, <3>2, <4>1, Grows
    <3>4. 1 * d = d
      BY <2>1
    <3> QED BY <3>1, <3>3, <3>4
  <2>3. d \in 1..m
    BY <1>1, <1>2, <2>1, <2>2
  <2> QED BY <2>1, <2>3
<1>8. Common(Max(S), a, b)
  <2>1. Max(S) \in Nat /\ Max(S) > 0 /\ a % Max(S) = 0 /\ b % Max(S) = 0
    <3> DEFINE g == Max(S)
    <3>1. g \in S
      BY <1>5
    <3> HIDE DEF g
    <3>2. g \in Nat /\ g > 0 /\ a % g = 0 /\ b % g = 0
      BY <1>2, <3>1
    <3> QED BY <3>2 DEF g
  <2> HIDE DEF S
  <2> QED BY <2>1 DEF Common
<1> HIDE DEF S
<1> QED BY <1>5, <1>6, <1>7, <1>8

(* What divides both parts of the reduced fraction gives a larger common    *)
(* divisor of the parts before.                                             *)
LEMMA LowestTerms ==
  ASSUME NEW a \in Nat, NEW b \in Nat, a > 0, b > 0
  PROVE  LET x == a \div Gcd(a, b)
             y == b \div Gcd(a, b)
         IN  /\ x \in Nat /\ y \in Nat /\ x > 0 /\ y > 0
             /\ a = x * Gcd(a, b) /\ b = y * Gcd(a, b)
             /\ Gcd(x, y) = 1
<1> DEFINE g == Gcd(a, b)
           x == a \div g
           y == b \div g
<1>1. g \in Nat /\ g > 0 /\ a % g = 0 /\ b % g = 0 /\ \A d : Common(d, a, b) => d <= g
  BY GcdIsGreatest DEF Common
<1>2. x \in Nat /\ y \in Nat /\ a = x * g /\ b = y * g
  <2> HIDE DEF g
  <2> QED BY <1>1, Divided
<1> HIDE DEF x, y, g
<1>3. x > 0 /\ y > 0
  <2> SUFFICES ASSUME x = 0 \/ y = 0 PROVE FALSE
    BY <1>2
  <2>1. x * g = 0 \/ y * g = 0
    BY <1>1
  <2> QED BY <1>2, <2>1
<1> DEFINE e == Gcd(x, y)
<1>4. e \in Nat /\ e > 0 /\ x % e = 0 /\ y % e = 0
  BY <1>2, <1>3, GcdIsGreatest DEF Common
<1> HIDE DEF e
<1>5. e = 1
  <2> DEFINE k == x \div e
             n == y \div e
  <2>1. k \in Nat /\ n \in Nat /\ x = k * e /\ y = n * e
    BY <1>2, <1>4, Divided
  <2> HIDE DEF k, n
  <2>2. a = k * (e * g) /\ b = n * (e * g)
    BY <1>1, <1>2, <1>4, <2>1
  <2>3. e * g \in Nat /\ e * g > 0
    BY <1>1, <1>4
  <2>4. Common(e * g, a, b)
    <3> DEFINE h == e * g
    <3>1. h \in Nat /\ h > 0 /\ a = k * h /\ b = n * h
      BY <2>2, <2>3
    <3> HIDE DEF h
    <3>2. a % h = 0 /\ b % h = 0
      BY <2>1, <3>1, Multiple
    <3> QED BY <3>1, <3>2 DEF Common, h
  <2>5. e * g <= 1 * g
    BY <1>1, <2>4
  <2>6. e <= 1
    BY <1>1, <1>4, <2>5, Cancels
  <2> QED BY <1>4, <2>6
<1> QED BY <1>2, <1>3, <1>5 DEF e, x, y, g

(* Of ratios in a sequence one is the least. *)
Ratio == (Nat \ {0}) \X (Nat \ {0})

(* Of finitely many positive ratios one is the least. *)
LEMMA LeastRatio ==
  ASSUME NEW N \in Nat, NEW v, NEW I \in SUBSET (1..N), I # {}, \A i \in I : v[i] \in Ratio
  PROVE  \E i \in I : \A j \in I : ~Less(v[j], v[i])
<1> DEFINE P(n) == \/ \A i \in I : ~(i <= n)
                   \/ \E i \in I : \A j \in I : j <= n => ~Less(v[j], v[i])
           E == {n \in 0..N : P(n)}
<1>0. \A i, j \in I : ~Less(v[j], v[i]) <=> v[i][1] * v[j][2] <= v[j][1] * v[i][2]
  <2> SUFFICES ASSUME NEW i \in I, NEW j \in I
               PROVE  ~Less(v[j], v[i]) <=> v[i][1] * v[j][2] <= v[j][1] * v[i][2]
    OBVIOUS
  <2>1. v[i][1] \in Nat /\ v[j][1] \in Nat /\ v[i][2] \in Nat /\ v[j][2] \in Nat
    BY DEF Ratio
  <2>2. v[i][1] * v[j][2] \in Nat /\ v[j][1] * v[i][2] \in Nat
    BY <2>1
  <2> QED BY <2>2 DEF Less
<1>1. 0 \in E
  OBVIOUS
<1>2. \A n \in 0..N : n # N /\ n \in E => n + 1 \in E
  <2> SUFFICES ASSUME NEW n \in 0..N, n # N, n \in E PROVE P(n + 1)
    OBVIOUS
  <2>0. \A j \in I : j <= n + 1 <=> (j <= n \/ j = n + 1)
    OBVIOUS
  <2>1. CASE n + 1 \notin I
    <3>1. \A j \in I : j <= n + 1 <=> j <= n
      BY <2>0, <2>1
    <3>2. P(n)
      OBVIOUS
    <3> QED BY <3>1, <3>2
  <2>2. CASE n + 1 \in I /\ \A i \in I : ~(i <= n)
    <3>1. \A j \in I : j <= n + 1 => j = n + 1
      BY <2>0, <2>2
    <3>2. ~Less(v[n + 1], v[n + 1])
      <4>1. v[n + 1][1] \in Nat /\ v[n + 1][2] \in Nat
        BY <2>2 DEF Ratio
      <4> QED BY <4>1 DEF Less
    <3>3. \A j \in I : j <= n + 1 => ~Less(v[j], v[n + 1])
      BY <3>1, <3>2
    <3> QED BY <2>2, <3>3
  <2>3. CASE n + 1 \in I /\ \E i \in I : i <= n
    <3> DEFINE k == n + 1
    <3>1. PICK i \in I : \A j \in I : j <= n => ~Less(v[j], v[i])
      BY <2>3
    <3>2. k \in I
      BY <2>3
    <3> HIDE DEF k
    <3>3. CASE ~Less(v[k], v[i])
      <4>1. \A j \in I : j <= n + 1 => ~Less(v[j], v[i])
        BY <2>0, <3>1, <3>3 DEF k
      <4> QED BY <4>1
    <3>4. CASE Less(v[k], v[i])
      <4>1. ASSUME NEW j \in I, j <= n + 1 PROVE ~Less(v[j], v[k])
        <5>1. CASE j = k
          <6>1. v[k][1] \in Nat /\ v[k][2] \in Nat
            BY <3>2 DEF Ratio
          <6> QED BY <5>1, <6>1 DEF Less
        <5>2. CASE j # k
          <6>1. ~Less(v[j], v[i])
            BY <2>0, <3>1, <4>1, <5>2 DEF k
          <6>2. /\ v[i][1] \in Nat /\ v[i][2] \in Nat /\ v[i][2] > 0
                /\ v[j][1] \in Nat /\ v[j][2] \in Nat
                /\ v[k][1] \in Nat /\ v[k][2] \in Nat
            <7>1. v[i] \in Ratio /\ v[j] \in Ratio /\ v[k] \in Ratio
              BY <3>2
            <7>2. \A x \in Ratio : x[1] \in Nat /\ x[2] \in Nat /\ x[2] > 0
              BY DEF Ratio
            <7> QED BY <7>1, <7>2
          <6>3. v[i][1] * v[j][2] <= v[j][1] * v[i][2]
            BY <1>0, <6>1
          <6>4. v[k][1] * v[i][2] <= v[i][1] * v[k][2]
            <7>1. v[k][1] * v[i][2] \in Nat /\ v[i][1] * v[k][2] \in Nat
              BY <6>2
            <7> QED BY <3>4, <7>1 DEF Less
          <6>5. v[k][1] * v[j][2] <= v[j][1] * v[k][2]
            BY <6>2, <6>3, <6>4, RatioTransitive
          <6> QED BY <1>0, <3>2, <6>5
        <5> QED BY <5>1, <5>2
      <4> QED BY <3>2, <4>1
    <3> QED BY <3>3, <3>4
  <2> QED BY <2>1, <2>2, <2>3
<1>3. 0..N \subseteq E
  <2> HIDE DEF E
  <2> QED BY <1>1, <1>2, Upward
<1>4. P(N)
  <2>1. N \in 0..N
    OBVIOUS
  <2> HIDE DEF P
  <2> QED BY <1>3, <2>1
<1>5. \A j \in I : j <= N
  OBVIOUS
<1> QED BY <1>4, <1>5

(* One level: a finite quota gives a ratio in lowest terms. *)
Finite(l) == l[1] # NoValue

(* What cpu.max of one level is parsed to: its quota in lowest terms, or why not. *)
LEMMA ParseCpuMaxExact ==
  ASSUME NEW l \in (Nat \cup {NoValue}) \X Nat, ParseCpuMax(l[1], l[2]).state = "VALID"
  PROVE  LET r == ParseCpuMax(l[1], l[2]).value IN
         /\ r # NoValue <=> Finite(l)
         /\ Finite(l) => /\ r \in Ratio /\ Gcd(r[1], r[2]) = 1
                         /\ \E g \in Nat : g > 0 /\ l[1] = r[1] * g /\ l[2] = r[2] * g
                         /\ l[1] \in Nat
<1> DEFINE q == l[1]
           p == l[2]
           r == ParseCpuMax(q, p).value
<1>1. q \in Nat \cup {NoValue} /\ p \in Nat
  OBVIOUS
<1> HIDE DEF q, p
<1>2. ~(~InRange(p) \/ p = 0)
  BY DEF ParseCpuMax, Invalid, Parsed, q, p
<1>3. CASE q = NoValue
  <2>1. r = NoValue
    BY <1>2, <1>3 DEF ParseCpuMax, Parsed
  <2> QED BY <1>3, <2>1 DEF Finite, q, p
<1>4. CASE q # NoValue
  <2>1. ~(~InRange(q) \/ q = 0)
    BY <1>2, <1>4 DEF ParseCpuMax, Invalid, Parsed, q, p
  <2>2. q \in Nat /\ q > 0 /\ p > 0
    BY <1>1, <1>2, <1>4, <2>1
  <2> DEFINE g == Gcd(q, p)
             x == q \div g
             y == p \div g
  <2>3. r = <<x, y>>
    BY <1>2, <1>4, <2>1 DEF ParseCpuMax, Parsed
  <2>4. /\ x \in Nat /\ y \in Nat /\ x > 0 /\ y > 0
        /\ q = x * g /\ p = y * g /\ Gcd(x, y) = 1
    BY <1>1, <2>2, LowestTerms
  <2>5. g \in Nat /\ g > 0
    BY <1>1, <2>2, GcdIsGreatest DEF Common
  <2> HIDE DEF x, y, g, r
  <2>6. r \in Ratio /\ r[1] = x /\ r[2] = y
    BY <2>3, <2>4 DEF Ratio
  <2>7. r # NoValue
    BY <2>6, ValuesAssumption DEF Ratio
  <2>8. \E n \in Nat : n > 0 /\ q = r[1] * n /\ p = r[2] * n
    BY <2>4, <2>5, <2>6
  <2>9. Gcd(r[1], r[2]) = 1
    BY <2>4, <2>6
  <2> QED BY <1>4, <2>2, <2>6, <2>7, <2>8, <2>9 DEF Finite, q, p, r
<1> QED BY <1>3, <1>4

(* The ratio of all levels. *)
LeastLevel(levels, r) ==
  LET finite == {i \in DOMAIN levels : Finite(levels[i])} IN
  /\ \A i \in finite : r[1] * levels[i][2] <= levels[i][1] * r[2]
  /\ \E i \in finite : r[1] * levels[i][2] = levels[i][1] * r[2]
  /\ Gcd(r[1], r[2]) = 1

(* The published ratio is that of a level, no greater than any, in lowest terms. *)
LEMMA MinRatioExact ==
  ASSUME NEW levels \in Seq((Nat \cup {NoValue}) \X Nat),
         MinRatio(levels).state = "AVAILABLE"
  PROVE  LeastLevel(levels, MinRatio(levels).value)
<1> DEFINE N == Len(levels)
           parsed == [i \in DOMAIN levels |-> ParseCpuMax(levels[i][1], levels[i][2])]
           I == {j \in DOMAIN parsed : parsed[j].value # NoValue}
           v == [i \in DOMAIN levels |-> parsed[i].value]
           finite == {parsed[i].value : i \in I}
           r == CHOOSE x \in finite : \A s \in finite : ~Less(s, x)
<1>1. N \in Nat /\ DOMAIN levels = 1..N /\ \A i \in 1..N : levels[i] \in (Nat \cup {NoValue}) \X Nat
  OBVIOUS
<1> HIDE DEF N
<1>2. /\ \A i \in DOMAIN parsed : parsed[i].state = "VALID"
      /\ finite # {}
      /\ MinRatio(levels).value = r
  <2>1. ~ \E i \in DOMAIN parsed : parsed[i].state # "VALID"
    BY DEF MinRatio, Parsed
  <2>2. finite # {}
    BY <2>1 DEF MinRatio, Parsed
  <2>3. MinRatio(levels).value = r
    BY <2>1, <2>2 DEF MinRatio, Parsed
  <2> QED BY <2>1, <2>2, <2>3
<1>3. ASSUME NEW i \in 1..N
      PROVE  /\ i \in I <=> Finite(levels[i])
             /\ i \in I => /\ v[i] \in Ratio /\ Gcd(v[i][1], v[i][2]) = 1
                           /\ \E g \in Nat : g > 0 /\ levels[i][1] = v[i][1] * g
                                                   /\ levels[i][2] = v[i][2] * g
                           /\ levels[i][1] \in Nat
  <2> DEFINE l == levels[i]
  <2>1. l \in (Nat \cup {NoValue}) \X Nat
    BY <1>1
  <2>2. parsed[i] = ParseCpuMax(l[1], l[2]) /\ v[i] = ParseCpuMax(l[1], l[2]).value /\ i \in DOMAIN parsed
    BY <1>1
  <2>3. ParseCpuMax(l[1], l[2]).state = "VALID"
    BY <1>2, <2>2
  <2>4. i \in I <=> v[i] # NoValue
    BY <2>2
  <2> HIDE DEF l, parsed, v, I
  <2> QED BY <2>1, <2>2, <2>3, <2>4, ParseCpuMaxExact DEF l
<1>4. I \in SUBSET (1..N) /\ I # {}
  BY <1>1, <1>2
<1>5. finite = {v[i] : i \in I}
  BY <1>1
<1>6. PICK i \in I : \A j \in I : ~Less(v[j], v[i])
  <2>1. \A i \in I : v[i] \in Ratio
    BY <1>3, <1>4
  <2> HIDE DEF I, v
  <2> QED BY <1>1, <1>4, <2>1, LeastRatio
<1>7. \E x \in finite : \A s \in finite : ~Less(s, x)
  <2> HIDE DEF finite, v, I
  <2> QED BY <1>5, <1>6
<1>8. r \in finite /\ \A s \in finite : ~Less(s, r)
  <2> HIDE DEF finite
  <2> QED BY <1>7
<1>9. PICK k \in I : r = v[k]
  <2> HIDE DEF finite, v, I, r
  <2> QED BY <1>5, <1>8
<1>10. \A j \in I : ~Less(v[j], r)
  <2> HIDE DEF finite, v, I, r
  <2> QED BY <1>5, <1>8
<1> HIDE DEF parsed, I, v, finite, r
<1> DEFINE F == {i2 \in DOMAIN levels : Finite(levels[i2])}
<1>11. F = I
  BY <1>1, <1>3, <1>4
<1>12. ASSUME NEW j \in I PROVE r[1] * levels[j][2] <= levels[j][1] * r[2]
  <2>1. PICK g \in Nat : g > 0 /\ levels[j][1] = v[j][1] * g /\ levels[j][2] = v[j][2] * g
    BY <1>3, <1>4
  <2>2. v[j] \in Ratio /\ r \in Ratio
    BY <1>3, <1>4, <1>9
  <2> DEFINE a == v[j][1]
             b == v[j][2]
             p == r[1]
             q == r[2]
  <2>3. a \in Nat /\ b \in Nat /\ p \in Nat /\ q \in Nat
    BY <2>2 DEF Ratio
  <2>4. ~(a * q < p * b)
    BY <1>10 DEF Less
  <2> HIDE DEF a, b, p, q
  <2>5. a * q \in Nat /\ p * b \in Nat /\ p * b <= a * q
    <3>1. a * q \in Nat /\ p * b \in Nat
      BY <2>3
    <3> QED BY <2>4, <3>1
  <2>6. (p * b) * g <= (a * q) * g
    BY <2>5, Grows
  <2>7. (p * b) * g = p * (b * g) /\ (a * q) * g = (a * g) * q
    BY <2>3
  <2> QED BY <2>1, <2>6, <2>7 DEF a, b, p, q
<1>13. r[1] * levels[k][2] = levels[k][1] * r[2]
  <2>1. PICK g \in Nat : g > 0 /\ levels[k][1] = r[1] * g /\ levels[k][2] = r[2] * g
    BY <1>3, <1>4, <1>9
  <2>2. r \in Ratio
    BY <1>3, <1>4, <1>9
  <2> DEFINE p == r[1]
             q == r[2]
  <2>3. p \in Nat /\ q \in Nat
    BY <2>2 DEF Ratio
  <2> HIDE DEF p, q
  <2>4. p * (q * g) = (p * g) * q
    BY <2>3
  <2> QED BY <2>1, <2>4 DEF p, q
<1>14. Gcd(r[1], r[2]) = 1
  BY <1>3, <1>4, <1>9
<1> QED BY <1>2, <1>11, <1>12, <1>13, <1>14 DEF LeastLevel

-----------------------------------------------------------------------------
(* CPU lists: the items in order *)
Pair == Nat \X Nat

(* Before is a strict order in which any two items compare. *)
LEMMA BeforeOrder ==
  ASSUME NEW x \in Pair, NEW y \in Pair, NEW z \in Pair
  PROVE  /\ ~Before(x, x)
         /\ ~Before(x, y) => x[1] >= y[1]
         /\ Before(x, y) => ~Before(y, x)
         /\ Before(x, y) /\ ~Before(z, y) => Before(x, z)
<1> DEFINE a == x[1]
           b == x[2]
           c == y[1]
           d == y[2]
           e == z[1]
           f == z[2]
<1>1. a \in Nat /\ b \in Nat /\ c \in Nat /\ d \in Nat /\ e \in Nat /\ f \in Nat
  BY DEF Pair
<1>2. /\ Before(x, x) <=> (a < a \/ (a = a /\ b < b))
      /\ Before(x, y) <=> (a < c \/ (a = c /\ b < d))
      /\ Before(y, x) <=> (c < a \/ (c = a /\ d < b))
      /\ Before(z, y) <=> (e < c \/ (e = c /\ f < d))
      /\ Before(x, z) <=> (a < e \/ (a = e /\ b < f))
  BY DEF Before
<1> HIDE DEF a, b, c, d, e, f
<1>3. ~Before(x, x)
  BY <1>1, <1>2
<1>4. ~Before(x, y) => a >= c
  BY <1>1, <1>2
<1>5. Before(x, y) => ~Before(y, x)
  BY <1>1, <1>2
<1>6. Before(x, y) /\ ~Before(z, y) => Before(x, z)
  BY <1>1, <1>2
<1> QED BY <1>3, <1>4, <1>5, <1>6 DEF a, c

(* p puts the first n items in order. *)
Orders(p, items, n) ==
  /\ p \in [1..n -> 1..n]
  /\ \A i \in 1..n : \E k \in 1..n : p[k] = i
  /\ \A k, j \in 1..n : k < j => ~Before(items[p[j]], items[p[k]])

(* The next item is put before the first one that comes after it. *)
LEMMA InsertOrders ==
  ASSUME NEW items \in Seq(Pair), NEW n \in 0..Len(items), n # Len(items),
         NEW p, Orders(p, items, n)
  PROVE  \E q : Orders(q, items, n + 1)
<1> DEFINE x == items[n + 1]
           K == {k \in 1..n : Before(x, items[p[k]])}
           c == IF K = {} THEN n + 1 ELSE Min(K)
           q == [k \in 1..(n + 1) |-> IF k < c THEN p[k] ELSE IF k = c THEN n + 1 ELSE p[k - 1]]
<1>1. n \in Nat /\ Len(items) \in Nat /\ n + 1 \in 1..Len(items) /\ x \in Pair
  OBVIOUS
<1>2. ASSUME NEW k \in 1..n PROVE p[k] \in 1..n /\ items[p[k]] \in Pair
  <2>1. p[k] \in 1..n
    BY DEF Orders
  <2>2. p[k] \in 1..Len(items)
    BY <1>1, <2>1
  <2> QED BY <2>1, <2>2
<1>3. /\ c \in 1..(n + 1)
      /\ \A k \in 1..n : k < c => ~Before(x, items[p[k]])
      /\ c \in 1..n => Before(x, items[p[c]])
  <2>1. CASE K = {}
    BY <1>1, <2>1
  <2>2. CASE K # {}
    <3>1. Min(K) \in K /\ \A k \in K : Min(K) <= k
      <4>1. K \in SUBSET Nat
        OBVIOUS
      <4> HIDE DEF K
      <4> QED BY <2>2, <4>1, LeastOf
    <3>2. c = Min(K)
      BY <2>2
    <3> HIDE DEF c
    <3>3. c \in 1..n /\ Before(x, items[p[c]])
      BY <3>1, <3>2
    <3>4. \A k \in 1..n : k < c => k \notin K
      BY <3>1, <3>2, <3>3
    <3>5. \A k \in 1..n : k < c => ~Before(x, items[p[k]])
      BY <3>4
    <3> HIDE DEF K
    <3> QED BY <1>1, <3>3, <3>5
  <2> QED BY <2>1, <2>2
<1> HIDE DEF c, x
<1>4. ASSUME NEW k \in 1..(n + 1)
      PROVE  /\ q[k] \in 1..(n + 1)
             /\ k < c => k \in 1..n /\ q[k] = p[k]
             /\ k = c => q[k] = n + 1
             /\ k > c => k - 1 \in 1..n /\ k - 1 >= c /\ q[k] = p[k - 1]
  <2>1. CASE k < c
    <3>1. k \in 1..n /\ q[k] = p[k]
      BY <1>1, <1>3, <2>1
    <3> QED BY <1>1, <1>2, <1>3, <2>1, <3>1
  <2>2. CASE k = c
    BY <1>1, <1>3, <2>2
  <2>3. CASE k > c
    <3>1. k - 1 \in 1..n /\ k - 1 >= c /\ q[k] = p[k - 1]
      BY <1>1, <1>3, <2>3
    <3>2. p[k - 1] \in 1..n
      BY <1>2, <3>1
    <3> QED BY <1>1, <1>3, <2>3, <3>1, <3>2
  <2> QED BY <1>1, <1>3, <2>1, <2>2, <2>3
<1>5. q \in [1..(n + 1) -> 1..(n + 1)]
  BY <1>4
<1> HIDE DEF q
<1>6. ASSUME NEW i \in 1..(n + 1) PROVE \E k \in 1..(n + 1) : q[k] = i
  <2>1. CASE i = n + 1
    BY <1>3, <1>4, <2>1
  <2>2. CASE i # n + 1
    <3>1. PICK k \in 1..n : p[k] = i
      BY <1>1, <2>2 DEF Orders
    <3>2. CASE k < c
      <4>1. k \in 1..(n + 1)
        BY <1>1
      <4> QED BY <1>4, <3>1, <3>2, <4>1
    <3>3. CASE k >= c
      <4>1. k + 1 \in 1..(n + 1) /\ k + 1 > c /\ (k + 1) - 1 = k
        BY <1>1, <1>3, <3>3
      <4>2. q[k + 1] = p[(k + 1) - 1]
        BY <1>4, <4>1
      <4> QED BY <3>1, <4>1, <4>2
    <3> QED BY <1>3, <3>2, <3>3
  <2> QED BY <2>1, <2>2
<1>7. ASSUME NEW k \in 1..(n + 1), NEW j \in 1..(n + 1), k < j
      PROVE  ~Before(items[q[j]], items[q[k]])
  <2>0. \A a, b \in 1..n : a < b => ~Before(items[p[b]], items[p[a]])
    BY DEF Orders
  <2>1. CASE j < c
    <3>1. k < c
      BY <1>3, <1>7, <2>1
    <3>2. k \in 1..n /\ j \in 1..n /\ q[k] = p[k] /\ q[j] = p[j]
      BY <1>4, <2>1, <3>1
    <3> QED BY <1>7, <2>0, <3>2
  <2>2. CASE j = c
    <3>1. k < c
      BY <1>7, <2>2
    <3>2. k \in 1..n /\ q[k] = p[k] /\ q[j] = n + 1
      BY <1>4, <2>2, <3>1
    <3> QED BY <1>3, <3>1, <3>2 DEF x
  <2>3. CASE j > c
    <3>1. j - 1 \in 1..n /\ j - 1 >= c /\ q[j] = p[j - 1]
      BY <1>4, <2>3
    <3>2. CASE k < c
      <4>1. k \in 1..n /\ q[k] = p[k]
        BY <1>4, <3>2
      <4>2. k < j - 1
        BY <1>3, <3>1, <3>2
      <4> QED BY <2>0, <3>1, <4>1, <4>2
    <3>3. CASE k = c
      <4>1. q[k] = n + 1 /\ c \in 1..n
        BY <1>1, <1>3, <1>4, <3>1, <3>3
      <4>2. Before(x, items[p[c]])
        BY <1>3, <4>1
      <4>3. ~Before(items[p[j - 1]], items[p[c]])
        <5>1. CASE j - 1 = c
          BY <1>2, <4>1, <5>1, BeforeOrder
        <5>2. CASE j - 1 # c
          <6>1. c < j - 1
            BY <1>3, <3>1, <5>2
          <6> QED BY <2>0, <3>1, <4>1, <6>1
        <5> QED BY <5>1, <5>2
      <4>4. items[p[c]] \in Pair /\ items[p[j - 1]] \in Pair
        BY <1>2, <3>1, <4>1
      <4>5. Before(x, items[p[j - 1]])
        BY <1>1, <4>2, <4>3, <4>4, BeforeOrder
      <4>6. ~Before(items[p[j - 1]], x)
        BY <1>1, <4>4, <4>5, BeforeOrder
      <4> QED BY <3>1, <4>1, <4>6 DEF x
    <3>4. CASE k > c
      <4>1. k - 1 \in 1..n /\ q[k] = p[k - 1]
        BY <1>4, <3>4
      <4>2. k - 1 < j - 1
        BY <1>7
      <4> QED BY <2>0, <3>1, <4>1, <4>2
    <3> QED BY <1>3, <3>2, <3>3, <3>4
  <2> QED BY <1>3, <2>1, <2>2, <2>3
<1> QED BY <1>5, <1>6, <1>7, Zenon DEF Orders

(* The sorted items are the items, in an order in which none comes too early. *)
LEMMA SortedExact ==
  ASSUME NEW items \in Seq(Pair)
  PROVE  /\ Sorted(items) \in Seq(Pair) /\ Len(Sorted(items)) = Len(items)
         /\ \A k \in 1..Len(items) : \E i \in 1..Len(items) : Sorted(items)[k] = items[i]
         /\ \A i \in 1..Len(items) : \E k \in 1..Len(items) : Sorted(items)[k] = items[i]
         /\ \A k, j \in 1..Len(items) : k < j => Sorted(items)[k][1] <= Sorted(items)[j][1]
<1> DEFINE N == Len(items)
           E == {n \in 0..N : \E p : Orders(p, items, n)}
           order == CHOOSE p \in [DOMAIN items -> DOMAIN items] :
                      /\ \A i \in DOMAIN items : \E k \in DOMAIN items : p[k] = i
                      /\ \A k, n \in DOMAIN items : k < n => ~Before(items[p[n]], items[p[k]])
           s == [k \in 1..N |-> items[order[k]]]
<1>1. N \in Nat /\ DOMAIN items = 1..N /\ \A i \in 1..N : items[i] \in Pair
  OBVIOUS
<1>2. 0 \in E
  <2>1. Orders([k \in 1..0 |-> k], items, 0)
    BY DEF Orders
  <2> QED BY <1>1, <2>1
<1>3. \A n \in 0..N : n # N /\ n \in E => n + 1 \in E
  <2> SUFFICES ASSUME NEW n \in 0..N, n # N, NEW p, Orders(p, items, n) PROVE n + 1 \in E
    OBVIOUS
  <2>1. n + 1 \in 0..N
    <3>1. N \in Nat
      BY <1>1
    <3> HIDE DEF N
    <3> QED BY <3>1
  <2> QED BY <2>1, InsertOrders
<1>4. N \in E
  <2>1. N \in 0..N
    BY <1>1
  <2>2. 0..N \subseteq E
    <3> HIDE DEF E, N
    <3> QED BY <1>1, <1>2, <1>3, Upward
  <2> HIDE DEF E
  <2> QED BY <2>1, <2>2
<1>5. PICK p : Orders(p, items, N)
  BY <1>4
<1> HIDE DEF N, E
<1>6. Orders(order, items, N)
  BY <1>1, <1>5, Zenon DEF Orders
<1>7. Sorted(items) = s
  BY <1>1 DEF Sorted
<1> HIDE DEF order
<1>8. \A k \in 1..N : order[k] \in 1..N /\ s[k] = items[order[k]] /\ s[k] \in Pair
  <2>1. \A k \in 1..N : order[k] \in 1..N
    BY <1>6 DEF Orders
  <2> QED BY <1>1, <2>1
<1>9. s \in Seq(Pair) /\ Len(s) = N
  <2>1. s \in [1..N -> Pair]
    BY <1>8
  <2> QED BY <1>1, <2>1
<1> HIDE DEF s
<1>10. \A i \in 1..N : \E k \in 1..N : s[k] = items[i]
  <2>1. \A i \in 1..N : \E k \in 1..N : order[k] = i
    BY <1>6 DEF Orders
  <2> QED BY <1>8, <2>1
<1>11. ASSUME NEW k \in 1..N, NEW j \in 1..N, k < j PROVE s[k][1] <= s[j][1]
  <2>1. ~Before(s[j], s[k])
    <3>1. ~Before(items[order[j]], items[order[k]])
      BY <1>6, <1>11 DEF Orders
    <3> QED BY <1>8, <3>1
  <2>2. s[j][1] >= s[k][1]
    BY <1>8, <2>1, BeforeOrder
  <2> QED BY <1>8, <2>2 DEF Pair
<1>12. \A k \in 1..N : \E i \in 1..N : s[k] = items[i]
  BY <1>8
<1> QED BY <1>7, <1>9, <1>10, <1>11, <1>12 DEF N

-----------------------------------------------------------------------------
(* CPU lists: the intervals *)

(* The CPUs of a list of intervals; intervals in order with gaps between them. *)
Cpus(m) == UNION {m[i][1]..m[i][2] : i \in DOMAIN m}

Gapped(m) ==
  /\ \A i \in 1..Len(m) : m[i][1] <= m[i][2]
  /\ \A i \in 1..(Len(m) - 1) : m[i][2] + 1 < m[i + 1][1]

(* The CPUs of a list are those of its items. *)
LEMMA CpusOf ==
  ASSUME NEW m \in Seq(Pair), NEW c
  PROVE  c \in Cpus(m) <=> \E i \in 1..Len(m) : c \in m[i][1]..m[i][2]
  BY DEF Cpus

(* Max of two numbers is the greater one. *)
LEMMA GreaterOfTwo ==
  ASSUME NEW a \in Nat, NEW b \in Nat
  PROVE  Max({a, b}) = IF a >= b THEN a ELSE b
<1> DEFINE P == {a, b}
           B == a + b
<1>1. P \in SUBSET Nat /\ P # {} /\ a \in P /\ b \in P /\ B \in Nat /\ \A j \in P : j <= B
  OBVIOUS
<1> HIDE DEF P, B
<1>2. Max(P) \in P /\ \A j \in P : j <= Max(P)
  BY <1>1, GreatestOf
<1>3. a <= Max(P) /\ b <= Max(P) /\ (Max(P) = a \/ Max(P) = b)
  BY <1>1, <1>2 DEF P
<1> QED BY <1>3 DEF P

(* The next interval is joined to the last one if it begins inside it or next *)
(* to it; nothing is lost or added, and the gaps remain.                      *)
LEMMA JoinExact ==
  ASSUME NEW m \in Seq(Pair), Gapped(m), NEW x \in Pair, x[1] <= x[2],
         m # <<>> => m[Len(m)][1] <= x[1]
  PROVE  LET j == Join(m, x) IN
         /\ j \in Seq(Pair) /\ Gapped(j) /\ Cpus(j) = Cpus(m) \union (x[1]..x[2])
         /\ j # <<>> /\ j[Len(j)][1] <= x[1]
<1> DEFINE L == Len(m)
           j == Join(m, x)
           a == m[L][1]
           b == m[L][2]
           c == x[1]
           d == x[2]
<1>1. L \in Nat /\ c \in Nat /\ d \in Nat /\ c <= d
  BY DEF Pair
<1>2. CASE m # <<>> /\ c <= b + 1
  <2>1. L >= 1 /\ m[L] \in Pair
    BY <1>2
  <2>2. a \in Nat /\ b \in Nat /\ a <= b /\ a <= c
    BY <1>2, <2>1 DEF Pair, Gapped
  <2> DEFINE e == IF b >= d THEN b ELSE d
             y == <<a, e>>
  <2>3. j = Append(SubSeq(m, 1, L - 1), y)
    BY <1>1, <1>2, <2>2, GreaterOfTwo DEF Join, Last, Front
  <2>4. y \in Pair /\ y[1] = a /\ y[2] = e /\ a <= e /\ e \in Nat
    BY <1>1, <2>2 DEF Pair
  <2>5. \A c2 : c2 \in a..e <=> c2 \in a..b \/ c2 \in c..d
    BY <1>1, <1>2, <2>2
  <2> HIDE DEF y, j, e
  <2>6. SubSeq(m, 1, L - 1) \in Seq(Pair) /\ Len(SubSeq(m, 1, L - 1)) = L - 1
        /\ \A i \in 1..(L - 1) : SubSeq(m, 1, L - 1)[i] = m[i]
    <3> DEFINE k == L - 1
    <3>1. k \in Nat /\ k <= Len(m)
      BY <1>1, <2>1
    <3> HIDE DEF k
    <3>2. SubSeq(m, 1, k) \in Seq(Pair) /\ Len(SubSeq(m, 1, k)) = k
      BY <3>1
    <3>3. \A i \in 1..k : SubSeq(m, 1, k)[i] = m[i]
      BY <3>1
    <3> QED BY <3>2, <3>3 DEF k
  <2>7. j \in Seq(Pair) /\ Len(j) = L /\ j[L] = y /\ \A i \in 1..(L - 1) : j[i] = m[i]
    <3> DEFINE s == SubSeq(m, 1, L - 1)
    <3>1. s \in Seq(Pair) /\ Len(s) = L - 1 /\ \A i \in 1..(L - 1) : s[i] = m[i]
      BY <2>6
    <3> HIDE DEF s, L
    <3>2. Append(s, y) \in Seq(Pair) /\ Len(Append(s, y)) = L /\ Append(s, y)[L] = y
      BY <1>1, <2>1, <2>4, <3>1
    <3>3. \A i \in 1..(L - 1) : Append(s, y)[i] = s[i]
      BY <1>1, <2>1, <2>4, <3>1
    <3> QED BY <2>3, <3>1, <3>2, <3>3 DEF s
  <2> HIDE DEF L
  <2>8. Gapped(j)
    <3>1. ASSUME NEW i \in 1..L PROVE j[i][1] <= j[i][2]
      <4>1. CASE i = L
        BY <2>4, <2>7, <4>1
      <4>2. CASE i # L
        <5>1. i \in 1..(L - 1)
          BY <1>1, <4>2
        <5> QED BY <5>1, <2>7 DEF Gapped, L
      <4> QED BY <4>1, <4>2
    <3>2. ASSUME NEW i \in 1..(L - 1) PROVE j[i][2] + 1 < j[i + 1][1]
      <4>1. m[i][2] + 1 < m[i + 1][1] /\ j[i] = m[i]
        BY <2>7 DEF Gapped, L
      <4>2. CASE i + 1 = L
        BY <2>4, <2>7, <4>1, <4>2
      <4>3. CASE i + 1 # L
        <5>1. i + 1 \in 1..(L - 1)
          BY <1>1, <4>3
        <5> QED BY <2>7, <4>1, <5>1
      <4> QED BY <4>2, <4>3
    <3> QED BY <2>7, <3>1, <3>2 DEF Gapped
  <2>9. ASSUME NEW c2 PROVE c2 \in Cpus(j) <=> c2 \in Cpus(m) \/ c2 \in c..d
    <3>1. c2 \in Cpus(j) <=> \E i \in 1..L : c2 \in j[i][1]..j[i][2]
      BY <2>7, CpusOf
    <3>2. c2 \in Cpus(m) <=> \E i \in 1..L : c2 \in m[i][1]..m[i][2]
      BY CpusOf DEF L
    <3>3. L \in 1..L /\ \A i \in 1..L : i = L \/ i \in 1..(L - 1)
      BY <1>1, <2>1
    <3>4. \A i \in 1..(L - 1) : i \in 1..L /\ j[i] = m[i]
      BY <1>1, <2>7
    <3>5. j[L][1] = a /\ j[L][2] = e
      BY <2>4, <2>7
    <3> HIDE DEF c, d
    <3>6. (\E i \in 1..L : c2 \in j[i][1]..j[i][2])
            <=> (c2 \in a..e \/ \E i \in 1..(L - 1) : c2 \in m[i][1]..m[i][2])
      BY <3>3, <3>4, <3>5, Zenon
    <3>7. (\E i \in 1..L : c2 \in m[i][1]..m[i][2])
            <=> (c2 \in a..b \/ \E i \in 1..(L - 1) : c2 \in m[i][1]..m[i][2])
      BY <3>3, <3>4, Zenon
    <3> QED BY <2>5, <3>1, <3>2, <3>6, <3>7, Zenon
  <2>10. Cpus(j) = Cpus(m) \union (c..d)
    <3> HIDE DEF c, d
    <3> QED BY <2>9
  <2>11. j # <<>> /\ j[Len(j)][1] <= c
    BY <2>1, <2>2, <2>4, <2>7
  <2> QED BY <2>7, <2>8, <2>10, <2>11 DEF j
<1>3. CASE ~(m # <<>> /\ c <= b + 1)
  <2>1. j = Append(m, x)
    BY <1>3 DEF Join, Last
  <2> HIDE DEF j
  <2>2. j \in Seq(Pair) /\ Len(j) = L + 1 /\ j[L + 1] = x /\ \A i \in 1..L : j[i] = m[i]
    BY <2>1
  <2>3. L >= 1 => b \in Nat /\ b + 1 < c
    <3>1. L >= 1 => m # <<>> /\ m[L] \in Pair
      OBVIOUS
    <3> QED BY <1>1, <1>3, <3>1 DEF Pair
  <2> HIDE DEF L
  <2>4. Gapped(j)
    <3>1. ASSUME NEW i \in 1..(L + 1) PROVE j[i][1] <= j[i][2]
      <4>1. CASE i = L + 1
        BY <1>1, <2>2, <4>1
      <4>2. CASE i # L + 1
        <5>1. i \in 1..L
          BY <1>1, <4>2
        <5> QED BY <5>1, <2>2 DEF Gapped, L
      <4> QED BY <4>1, <4>2
    <3>2. ASSUME NEW i \in 1..L PROVE j[i][2] + 1 < j[i + 1][1]
      <4>1. CASE i = L
        BY <1>1, <2>2, <2>3, <4>1
      <4>2. CASE i # L
        <5>1. i \in 1..(L - 1) /\ i + 1 \in 1..L
          BY <1>1, <4>2
        <5>2. m[i][2] + 1 < m[i + 1][1]
          BY <5>1 DEF Gapped, L
        <5> QED BY <2>2, <5>1, <5>2
      <4> QED BY <4>1, <4>2
    <3>3. Len(j) - 1 = L
      BY <1>1, <2>2
    <3> QED BY <2>2, <3>1, <3>2, <3>3 DEF Gapped
  <2>5. ASSUME NEW c2 PROVE c2 \in Cpus(j) <=> c2 \in Cpus(m) \/ c2 \in c..d
    <3>1. c2 \in Cpus(j) <=> \E i \in 1..(L + 1) : c2 \in j[i][1]..j[i][2]
      BY <2>2, CpusOf
    <3>2. c2 \in Cpus(m) <=> \E i \in 1..L : c2 \in m[i][1]..m[i][2]
      BY CpusOf DEF L
    <3>3. L + 1 \in 1..(L + 1) /\ \A i \in 1..(L + 1) : i = L + 1 \/ i \in 1..L
      BY <1>1
    <3>4. \A i \in 1..L : i \in 1..(L + 1) /\ j[i] = m[i]
      BY <1>1, <2>2
    <3>5. (\E i \in 1..(L + 1) : c2 \in j[i][1]..j[i][2])
            <=> (c2 \in c..d \/ \E i \in 1..L : c2 \in m[i][1]..m[i][2])
      BY <2>2, <3>3, <3>4, Zenon
    <3> QED BY <3>1, <3>2, <3>5, Zenon
  <2>6. Cpus(j) = Cpus(m) \union (c..d)
    <3> HIDE DEF c, d
    <3> QED BY <2>5
  <2>7. j # <<>> /\ j[Len(j)][1] <= c
    BY <1>1, <2>2
  <2> QED BY <2>2, <2>4, <2>6, <2>7 DEF j
<1> QED BY <1>2, <1>3

(* Merge joins the sorted items one after the other. *)
LEMMA MergeFollows ==
  ASSUME NEW items \in Seq(Pair)
  PROVE  \E f : /\ f \in [0..Len(items) -> Seq(Pair)] /\ f[0] = <<>>
                /\ \A n \in 1..Len(items) : f[n] = Join(f[n - 1], Sorted(items)[n])
                /\ Merge(items) = f[Len(items)]
<1> DEFINE s == Sorted(items)
           N == Len(s)
           Rec(f) == [n \in 0..N |-> IF n = 0 THEN <<>> ELSE Join(f[n - 1], s[n])]
           upto == CHOOSE f : f = Rec(f)
           T == Seq(Pair)
           G == [n \in 1..N |-> [u \in T |-> Join(u, s[n])]]
<1>1. Merge(items) = upto[N]
  BY DEF Merge
<1>2. s \in Seq(Pair) /\ N = Len(items) /\ N \in Nat
  BY SortedExact
<1> HIDE DEF s
<1>3. \A x \in Pair, u \in T : Join(u, x) \in T
  <2> SUFFICES ASSUME NEW x \in Pair, NEW u \in Seq(Pair) PROVE Join(u, x) \in Seq(Pair)
    OBVIOUS
  <2>1. Append(u, x) \in Seq(Pair)
    OBVIOUS
  <2>2. ASSUME u # <<>>
        PROVE  Append(Front(u), <<Last(u)[1], Max({Last(u)[2], x[2]})>>) \in Seq(Pair)
    <3>1. Last(u) \in Pair /\ Front(u) \in Seq(Pair)
      BY <2>2 DEF Last, Front
    <3>2. Last(u)[1] \in Nat /\ Last(u)[2] \in Nat /\ x[2] \in Nat
      BY <3>1 DEF Pair
    <3>3. Max({Last(u)[2], x[2]}) \in Nat
      BY <3>2, GreaterOfTwo
    <3>4. <<Last(u)[1], Max({Last(u)[2], x[2]})>> \in Pair
      BY <3>2, <3>3 DEF Pair
    <3> QED BY <3>1, <3>4
  <2> QED BY <2>1, <2>2 DEF Join
<1>4. G \in [1..N -> [T -> T]] /\ <<>> \in T
  <2>1. \A n \in 1..N : s[n] \in Pair
    BY <1>2
  <2> HIDE DEF N
  <2> QED BY <1>3, <2>1
<1>5. PICK f : Follows(f, T, N, <<>>, G)
  <2> HIDE DEF G, N, T
  <2> QED BY <1>2, <1>4, FollowsExists
<1> HIDE DEF N
<1>6. f \in [0..N -> T] /\ f[0] = <<>> /\ \A n \in 1..N : f[n] = Join(f[n - 1], s[n])
  <2> SUFFICES ASSUME NEW n \in 1..N PROVE f[n] = Join(f[n - 1], s[n])
    BY <1>5, Zenon DEF Follows
  <2>1. n - 1 \in 0..N
    BY <1>2
  <2> HIDE DEF G, T
  <2>2. f[n - 1] \in T /\ f[n] = G[n][f[n - 1]]
    BY <1>5, <2>1 DEF Follows
  <2>3. \A u \in T : G[n][u] = Join(u, s[n])
    BY DEF G
  <2> QED BY <2>2, <2>3
<1>7. f = Rec(f)
  BY <1>2, <1>6
<1>8. ASSUME NEW g, g = Rec(g) PROVE g = f
  <2>1. Table(g, N) /\ Table(f, N)
    BY <1>7, <1>8 DEF Table
  <2>2. g[0] = f[0]
    BY <1>2, <1>6, <1>8
  <2>3. \A n \in 1..N : g[n - 1] = f[n - 1] => g[n] = f[n]
    <3> SUFFICES ASSUME NEW n \in 1..N, g[n - 1] = f[n - 1] PROVE g[n] = f[n]
      OBVIOUS
    <3>1. n \in 0..N /\ n # 0
      BY <1>2
    <3>2. g[n] = Rec(g)[n] /\ Rec(g)[n] = Join(g[n - 1], s[n])
      BY <1>8, <3>1
    <3> QED BY <1>6, <3>2
  <2> HIDE DEF Rec, G, T
  <2> QED BY <1>2, <2>1, <2>2, <2>3, Agree
<1>9. upto = f
  <2> HIDE DEF Rec
  <2> QED BY <1>7, <1>8
<1> HIDE DEF Rec, G, upto
<1> QED BY <1>1, <1>2, <1>6, <1>9 DEF s

(* The merged list has the CPUs of the items, in order and with gaps. *)
LEMMA MergeExact ==
  ASSUME NEW items \in Seq(Pair), \A i \in 1..Len(items) : items[i][1] <= items[i][2]
  PROVE  /\ Merge(items) \in Seq(Pair) /\ Gapped(Merge(items))
         /\ Cpus(Merge(items)) = Cpus(items)
<1> DEFINE s == Sorted(items)
           N == Len(items)
<1>1. /\ N \in Nat /\ s \in Seq(Pair) /\ Len(s) = N
      /\ \A k \in 1..N : \E i \in 1..N : s[k] = items[i]
      /\ \A i \in 1..N : \E k \in 1..N : s[k] = items[i]
      /\ \A k, j \in 1..N : k < j => s[k][1] <= s[j][1]
  <2>1. N \in Nat
    OBVIOUS
  <2> HIDE DEF s
  <2> QED BY <2>1, SortedExact, Zenon DEF s
<1> HIDE DEF s
<1>2. PICK f : /\ f \in [0..N -> Seq(Pair)] /\ f[0] = <<>>
               /\ \A n \in 1..N : f[n] = Join(f[n - 1], s[n])
               /\ Merge(items) = f[N]
  BY MergeFollows DEF s
<1> DEFINE Upto(n) == UNION {s[i][1]..s[i][2] : i \in 1..n}
           E == {n \in 0..N : /\ Gapped(f[n]) /\ Cpus(f[n]) = Upto(n)
                              /\ f[n] # <<>> => n > 0 /\ f[n][Len(f[n])][1] <= s[n][1]}
<1>3. 0 \in E
  <2>1. Gapped(<<>>) /\ Cpus(<<>>) = {}
    BY DEF Gapped, Cpus
  <2>2. Upto(0) = {}
    OBVIOUS
  <2>3. 0 \in 0..N
    BY <1>1
  <2> HIDE DEF Upto, N
  <2> QED BY <1>2, <2>1, <2>2, <2>3
<1>4. \A n \in 0..N : n # N /\ n \in E => n + 1 \in E
  <2> SUFFICES ASSUME NEW n \in 0..N, n # N, n \in E PROVE n + 1 \in E
    OBVIOUS
  <2> HIDE DEF N
  <2>1. n + 1 \in 1..N /\ n + 1 \in 0..N /\ (n + 1) - 1 = n /\ n + 1 > 0
    BY <1>1
  <2> DEFINE x == s[n + 1]
             m == f[n]
  <2>2. m \in Seq(Pair) /\ x \in Pair /\ f[n + 1] = Join(m, x)
    <3>1. m \in Seq(Pair)
      BY <1>2
    <3>2. x \in Pair
      BY <1>1, <2>1
    <3>3. f[n + 1] = Join(f[(n + 1) - 1], s[n + 1])
      BY <1>2, <2>1
    <3> QED BY <2>1, <3>1, <3>2, <3>3
  <2>3. x[1] <= x[2]
    <3>1. PICK i \in 1..N : x = items[i]
      BY <1>1, <2>1
    <3> QED BY <3>1 DEF N
  <2>4. Gapped(m) /\ Cpus(m) = Upto(n) /\ (m # <<>> => n > 0 /\ m[Len(m)][1] <= s[n][1])
    OBVIOUS
  <2>5. m # <<>> => m[Len(m)][1] <= x[1]
    <3> SUFFICES ASSUME m # <<>> PROVE m[Len(m)][1] <= x[1]
      OBVIOUS
    <3>1. n \in 1..N /\ n < n + 1 /\ n > 0 /\ m[Len(m)][1] <= s[n][1]
      BY <1>1, <2>4
    <3>2. s[n][1] <= s[n + 1][1]
      BY <1>1, <2>1, <3>1
    <3>3. s[n] \in Pair /\ s[n + 1] \in Pair /\ m[Len(m)] \in Pair
      <4>1. \A i \in 1..N : s[i] \in Pair
        BY <1>1
      <4>2. m[Len(m)] \in Pair
        BY <2>2
      <4> QED BY <2>1, <3>1, <4>1, <4>2
    <3>4. s[n][1] \in Nat /\ s[n + 1][1] \in Nat /\ m[Len(m)][1] \in Nat
      BY <3>3 DEF Pair
    <3> QED BY <3>1, <3>2, <3>4
  <2>6. Upto(n + 1) = Upto(n) \union (x[1]..x[2])
    <3>1. \A i \in 1..(n + 1) : i \in 1..n \/ i = n + 1
      BY <1>1
    <3>2. (\A i \in 1..n : i \in 1..(n + 1)) /\ n + 1 \in 1..(n + 1)
      BY <1>1
    <3> QED BY <3>1, <3>2, Zenon
  <2> HIDE DEF x, m, Upto
  <2>7. /\ Gapped(Join(m, x)) /\ Cpus(Join(m, x)) = Cpus(m) \union (x[1]..x[2])
        /\ Join(m, x) # <<>> /\ Join(m, x)[Len(Join(m, x))][1] <= x[1]
    BY <2>2, <2>3, <2>4, <2>5, JoinExact
  <2> QED BY <2>1, <2>2, <2>4, <2>6, <2>7 DEF x
<1>5. 0..N \subseteq E
  <2> HIDE DEF E, N
  <2> QED BY <1>1, <1>3, <1>4, Upward
<1>6. N \in 0..N
  BY <1>1
<1>7. Gapped(Merge(items)) /\ Cpus(Merge(items)) = Upto(N)
  <2> HIDE DEF Upto, N
  <2> QED BY <1>2, <1>5, <1>6
<1>8. Upto(N) = Cpus(items)
  <2>1. ASSUME NEW c PROVE c \in Upto(N) <=> \E k \in 1..N : c \in s[k][1]..s[k][2]
    OBVIOUS
  <2>2. ASSUME NEW c PROVE c \in Cpus(items) <=> \E i \in 1..N : c \in items[i][1]..items[i][2]
    BY CpusOf
  <2>3. ASSUME NEW c PROVE c \in Upto(N) <=> c \in Cpus(items)
    <3> HIDE DEF Upto, N
    <3>1. ASSUME NEW k \in 1..N, c \in s[k][1]..s[k][2] 
          PROVE  \E i \in 1..N : c \in items[i][1]..items[i][2]
      BY <1>1, <3>1, Zenon
    <3>2. ASSUME NEW i \in 1..N, c \in items[i][1]..items[i][2]
          PROVE  \E k \in 1..N : c \in s[k][1]..s[k][2]
      BY <1>1, <3>2, Zenon
    <3> QED BY <2>1, <2>2, <3>1, <3>2
  <2> HIDE DEF Upto
  <2> QED BY <2>3
<1>9. Merge(items) \in Seq(Pair)
  BY <1>2, <1>6
<1> QED BY <1>7, <1>8, <1>9

(* Count adds the sizes one after the other. *)
LEMMA CountFollows ==
  ASSUME NEW m \in Seq(Pair)
  PROVE  \E f : /\ f \in [0..Len(m) -> Int] /\ f[0] = 0
                /\ \A n \in 1..Len(m) : f[n] = f[n - 1] + ((m[n][2] - m[n][1]) + 1)
                /\ Count(m) = f[Len(m)]
<1> DEFINE N == Len(m)
           size(n) == (m[n][2] - m[n][1]) + 1
           Rec(f) == [n \in 0..N |-> IF n = 0 THEN 0 ELSE f[n - 1] + ((m[n][2] - m[n][1]) + 1)]
           upto == CHOOSE f : f = Rec(f)
           G == [n \in 1..N |-> [u \in Int |-> u + size(n)]]
<1>1. Count(m) = upto[N]
  BY DEF Count
<1>2. N \in Nat /\ \A n \in 1..N : size(n) \in Int
  <2>1. \A n \in 1..N : m[n] \in Pair
    OBVIOUS
  <2>2. \A x \in Pair : x[1] \in Nat /\ x[2] \in Nat
    BY DEF Pair
  <2>3. \A n \in 1..N : m[n][1] \in Nat /\ m[n][2] \in Nat
    BY <2>1, <2>2
  <2> QED BY <2>3
<1>3. G \in [1..N -> [Int -> Int]]
  <2> HIDE DEF N, size
  <2> QED BY <1>2
<1>4. PICK f : Follows(f, Int, N, 0, G)
  <2>1. N \in Nat /\ 0 \in Int
    OBVIOUS
  <2> HIDE DEF G, N
  <2> QED BY <1>3, <2>1, FollowsExists
<1> HIDE DEF N
<1>5. f \in [0..N -> Int] /\ f[0] = 0 /\ \A n \in 1..N : f[n] = f[n - 1] + size(n)
  <2> SUFFICES ASSUME NEW n \in 1..N PROVE f[n] = f[n - 1] + size(n)
    BY <1>4, Zenon DEF Follows
  <2>1. n - 1 \in 0..N
    BY <1>2
  <2> HIDE DEF G, size
  <2>2. f[n - 1] \in Int /\ f[n] = G[n][f[n - 1]]
    BY <1>4, <2>1 DEF Follows
  <2>3. \A u \in Int : G[n][u] = u + size(n)
    BY DEF G
  <2> QED BY <2>2, <2>3
<1>6. f = Rec(f)
  BY <1>2, <1>5
<1>7. ASSUME NEW g, g = Rec(g) PROVE g = f
  <2>1. Table(g, N) /\ Table(f, N)
    BY <1>6, <1>7 DEF Table
  <2>2. g[0] = f[0]
    BY <1>2, <1>5, <1>7
  <2>3. \A n \in 1..N : g[n - 1] = f[n - 1] => g[n] = f[n]
    <3> SUFFICES ASSUME NEW n \in 1..N, g[n - 1] = f[n - 1] PROVE g[n] = f[n]
      OBVIOUS
    <3>1. n \in 0..N /\ n # 0
      BY <1>2
    <3>2. g[n] = Rec(g)[n] /\ Rec(g)[n] = g[n - 1] + size(n)
      BY <1>7, <3>1
    <3> QED BY <1>5, <3>2
  <2> HIDE DEF Rec, G
  <2> QED BY <1>2, <2>1, <2>2, <2>3, Agree
<1>8. upto = f
  <2> HIDE DEF Rec
  <2> QED BY <1>6, <1>7
<1> HIDE DEF Rec, G, upto
<1> QED BY <1>1, <1>5, <1>8 DEF N

(* Intervals with gaps between them have no CPU in common: the sizes add up. *)
LEMMA CountExact ==
  ASSUME NEW m \in Seq(Pair), Gapped(m)
  PROVE  Count(m) = Cardinality(Cpus(m))
<1> DEFINE N == Len(m)
           U(n) == UNION {m[i][1]..m[i][2] : i \in 1..n}
<1>1. N \in Nat /\ \A n \in 1..N : m[n][1] \in Nat /\ m[n][2] \in Nat /\ m[n][1] <= m[n][2]
  <2>1. \A n \in 1..N : m[n] \in Pair /\ m[n][1] <= m[n][2]
    BY DEF Gapped
  <2>2. \A x \in Pair : x[1] \in Nat /\ x[2] \in Nat
    BY DEF Pair
  <2> QED BY <2>1, <2>2
<1>2. PICK f : /\ f \in [0..N -> Int] /\ f[0] = 0
               /\ \A n \in 1..N : f[n] = f[n - 1] + ((m[n][2] - m[n][1]) + 1)
               /\ Count(m) = f[N]
  BY CountFollows
<1> DEFINE E == {n \in 0..N : /\ IsFiniteSet(U(n)) /\ Cardinality(U(n)) = f[n]
                              /\ n > 0 => \A c \in U(n) : c <= m[n][2]}
<1>3. 0 \in E
  <2>1. U(0) = {}
    OBVIOUS
  <2>2. 0 \in 0..N
    BY <1>1
  <2> HIDE DEF U, N
  <2> QED BY <1>2, <2>1, <2>2, FS_EmptySet
<1>4. \A n \in 0..N : n # N /\ n \in E => n + 1 \in E
  <2> SUFFICES ASSUME NEW n \in 0..N, n # N, n \in E PROVE n + 1 \in E
    OBVIOUS
  <2>1. n + 1 \in 1..N /\ n + 1 \in 0..N /\ (n + 1) - 1 = n /\ n + 1 > 0 /\ n \in Nat
    <3>1. N \in Nat
      BY <1>1
    <3> HIDE DEF N
    <3> QED BY <3>1
  <2> DEFINE a == m[n + 1][1]
             b == m[n + 1][2]
             I == a..b
  <2>2. a \in Nat /\ b \in Nat /\ a <= b
    BY <1>1, <2>1
  <2>3. U(n + 1) = U(n) \union I
    <3>1. \A i \in 1..(n + 1) : i \in 1..n \/ i = n + 1
      BY <2>1
    <3>2. (\A i \in 1..n : i \in 1..(n + 1)) /\ n + 1 \in 1..(n + 1)
      BY <2>1
    <3> QED BY <3>1, <3>2, Zenon
  <2>4. \A c \in U(n) : c < a
    <3>1. CASE n = 0
      BY <3>1
    <3>2. CASE n # 0
      <4>1. n \in 1..(N - 1) /\ n \in 1..N /\ n > 0
        <5>1. N \in Nat
          BY <1>1
        <5> HIDE DEF N
        <5> QED BY <2>1, <3>2, <5>1
      <4>2. m[n][2] + 1 < a
        BY <4>1 DEF Gapped
      <4>3. m[n][2] \in Nat
        BY <1>1, <4>1
      <4>4. \A c \in U(n) : c <= m[n][2] /\ c \in Nat
        <5>1. \A c \in U(n) : c <= m[n][2]
          BY <4>1
        <5>2. \A i \in 1..n : i \in 1..N
          <6>1. N \in Nat
            BY <1>1
          <6> HIDE DEF N
          <6> QED BY <2>1, <4>1, <6>1
        <5>3. \A c \in U(n) : \E i \in 1..N : c \in m[i][1]..m[i][2]
          BY <5>2
        <5>4. \A c \in U(n) : c \in Nat
          BY <1>1, <5>3
        <5> QED BY <5>1, <5>4
      <4> HIDE DEF U, a
      <4> QED BY <2>2, <4>2, <4>3, <4>4 DEF a
    <3> QED BY <3>1, <3>2
  <2> HIDE DEF U
  <2>5. U(n) \cap I = {}
    <3>1. \A c \in I : ~(c < a)
      BY <2>2
    <3> HIDE DEF I
    <3> QED BY <2>4, <3>1
  <2>6. IsFiniteSet(U(n)) /\ Cardinality(U(n)) = f[n] /\ f[n] \in Int
    BY <1>2
  <2>7. IsFiniteSet(I) /\ Cardinality(I) = (b - a) + 1
    <3> HIDE DEF a, b
    <3>1. a \in Int /\ b \in Int /\ ~(a > b)
      BY <2>2
    <3> QED BY <3>1, FS_Interval DEF I
  <2>8. f[n + 1] = f[n] + ((b - a) + 1)
    BY <1>2, <2>1
  <2>9. IsFiniteSet(U(n + 1)) /\ Cardinality(U(n + 1)) = f[n + 1]
    <3> HIDE DEF I
    <3>1. IsFiniteSet(U(n) \union I)
      BY <2>6, <2>7, FS_Union
    <3>2. Cardinality(U(n) \union I) = Cardinality(U(n)) + Cardinality(I) - Cardinality(U(n) \cap I)
      BY <2>6, <2>7, FS_Union
    <3>3. Cardinality(U(n) \cap I) = 0
      BY <2>5, FS_EmptySet
    <3> DEFINE u == Cardinality(U(n))
               v == Cardinality(I)
               w == Cardinality(U(n) \cap I)
    <3>4. u \in Int /\ v = (b - a) + 1 /\ w = 0 /\ u = f[n]
      BY <2>6, <2>7, <3>3
    <3> HIDE DEF u, v, w, a, b
    <3>5. u + (v - w) = f[n + 1]
      BY <2>2, <2>8, <3>4
    <3>6. Cardinality(U(n) \union I) = u + (v - w)
      BY <3>2 DEF u, v, w
    <3>7. Cardinality(U(n) \union I) = f[n + 1]
      BY <3>5, <3>6
    <3> QED BY <2>3, <3>1, <3>7, Zenon
  <2>10. \A c \in U(n + 1) : c <= b
    <3>1. \A c \in I : c <= b
      BY <2>2
    <3>2. \A c \in U(n) : c <= b
      <4>1. \A c \in U(n) : c \in Int
        <5>1. \A i \in 1..n : i \in 1..N
          <6>1. N \in Nat
            BY <1>1
          <6> HIDE DEF N
          <6> QED BY <2>1, <6>1
        <5> QED BY <1>1, <5>1 DEF U
      <4> HIDE DEF a, b
      <4> QED BY <2>2, <2>4, <4>1
    <3> HIDE DEF I
    <3> QED BY <2>3, <3>1, <3>2
  <2> QED BY <2>1, <2>9, <2>10
<1>5. 0..N \subseteq E
  <2> HIDE DEF E, N
  <2> QED BY <1>1, <1>3, <1>4, Upward
<1>6. N \in 0..N
  BY <1>1
<1>7. Cardinality(U(N)) = f[N]
  <2> HIDE DEF U, N
  <2> QED BY <1>5, <1>6
<1>8. U(N) = Cpus(m)
  BY DEF Cpus
<1> QED BY <1>2, <1>7, <1>8

(* An accepted list has exactly the CPUs that are named, and their number. *)
LEMMA ParseCpusetExact ==
  ASSUME NEW items \in Seq((Nat \X Nat) \cup {<<>>}), ParseCpuset(items).state = "VALID"
  PROVE  LET merged == ParseCpuset(items).value.intervals IN
         /\ Cpus(merged) = Cpus(items) /\ Gapped(merged)
         /\ ParseCpuset(items).value.count = Cardinality(Cpus(items))
<1> DEFINE faulty == {i \in DOMAIN items : ItemFault(items[i]) # NoValue}
<1>1. items # <<>> /\ faulty = {}
  BY DEF ParseCpuset, Invalid, Parsed
<1>2. ParseCpuset(items).value = [intervals |-> Merge(items), count |-> Count(Merge(items))]
  BY <1>1 DEF ParseCpuset, Parsed
<1>3. ASSUME NEW i \in 1..Len(items) PROVE items[i] \in Pair /\ items[i][1] <= items[i][2]
  <2>1. ItemFault(items[i]) = NoValue
    BY <1>1
  <2>2. NoValue \notin Reasons
    BY ValuesAssumption
  <2>3. items[i] # <<>>
    BY <2>1, <2>2 DEF ItemFault, Reasons
  <2>4. items[i] \in Pair
    BY <2>3 DEF Pair
  <2>5. ~(items[i][1] > items[i][2])
    <3> HIDE DEF faulty
    <3> QED BY <2>1, <2>2 DEF ItemFault, Reasons
  <2>6. items[i][1] \in Nat /\ items[i][2] \in Nat
    BY <2>4 DEF Pair
  <2> QED BY <2>4, <2>5, <2>6
<1>4. items \in Seq(Pair)
  <2>1. items \in [1..Len(items) -> Pair] /\ Len(items) \in Nat
    BY <1>3
  <2> QED BY <2>1
<1>5. Merge(items) \in Seq(Pair) /\ Gapped(Merge(items)) /\ Cpus(Merge(items)) = Cpus(items)
  BY <1>3, <1>4, MergeExact
<1>6. Count(Merge(items)) = Cardinality(Cpus(items))
  BY <1>5, CountExact
<1> QED BY <1>2, <1>5, <1>6

-----------------------------------------------------------------------------
(* Counters *)
LEMMA ParseCountersExact ==
  ASSUME NEW S, NEW lines \in Seq(S), ParseCounters(lines).state = "VALID"
  PROVE  LET value == ParseCounters(lines).value IN
         /\ IsInjective([i \in DOMAIN value |-> value[i].key])
         /\ \A i \in DOMAIN lines : lines[i].shape = "pair" =>
              /\ i \in DOMAIN value
              /\ value[i].key = lines[i].key /\ value[i].value = lines[i].value
              /\ (value[i].state = "MAPPED") = (value[i].key \in KnownKeys)
<1> DEFINE pairs == {i \in DOMAIN lines : lines[i].shape = "pair"}
           faulty == {i \in DOMAIN lines : LineFault(lines, i) # NoValue}
           value == [i \in pairs |-> Counter(lines[i])]
<1>1. faulty = {}
  BY DEF ParseCounters, Invalid, Parsed
<1>2. ParseCounters(lines).value = value
  BY <1>1 DEF ParseCounters, Parsed
<1>3. \A i \in pairs : /\ value[i].key = lines[i].key /\ value[i].value = lines[i].value
                       /\ (value[i].state = "MAPPED") = (lines[i].key \in KnownKeys)
  BY DEF Counter
<1>4. \A i \in DOMAIN lines : i \in pairs => ~Repeated(lines, i)
  <2> SUFFICES ASSUME NEW i \in DOMAIN lines, lines[i].shape = "pair" PROVE ~Repeated(lines, i)
    OBVIOUS
  <2>1. LineFault(lines, i) = NoValue /\ NoValue \notin Reasons
    BY <1>1, ValuesAssumption
  <2>2. lines[i].shape # "blank"
    OBVIOUS
  <2> HIDE DEF faulty, pairs, value
  <2>3. Repeated(lines, i) => LineFault(lines, i) \in Reasons
    BY <2>2, Zenon DEF LineFault, Reasons
  <2> QED BY <2>1, <2>3
<1>5. ASSUME NEW i \in pairs, NEW j \in pairs, lines[i].key = lines[j].key PROVE i = j
  <2>1. i \in Nat /\ j \in Nat /\ i >= 1 /\ j >= 1
    OBVIOUS
  <2>2. i < j => Repeated(lines, j)
    <3> SUFFICES ASSUME i < j PROVE Repeated(lines, j)
      OBVIOUS
    <3>1. i \in 1..(j - 1)
      BY <2>1
    <3> QED BY <1>5, <3>1, Zenon DEF Repeated
  <2>3. j < i => Repeated(lines, i)
    <3> SUFFICES ASSUME j < i PROVE Repeated(lines, i)
      OBVIOUS
    <3>1. j \in 1..(i - 1)
      BY <2>1
    <3> QED BY <1>5, <3>1, Zenon DEF Repeated
  <2>4. i \in DOMAIN lines /\ j \in DOMAIN lines
    OBVIOUS
  <2> HIDE DEF pairs
  <2> QED BY <1>4, <2>1, <2>2, <2>3, <2>4
<1>6. IsInjective([i \in DOMAIN value |-> value[i].key])
  <2>1. DOMAIN value = pairs
    OBVIOUS
  <2> HIDE DEF value, pairs
  <2> QED BY <1>3, <1>5, <2>1 DEF IsInjective
<1>7. ASSUME NEW i \in DOMAIN lines, lines[i].shape = "pair"
      PROVE  /\ i \in DOMAIN value
             /\ value[i].key = lines[i].key /\ value[i].value = lines[i].value
             /\ (value[i].state = "MAPPED") = (value[i].key \in KnownKeys)
  <2>1. i \in pairs
    BY <1>7
  <2>2. DOMAIN value = pairs
    OBVIOUS
  <2> HIDE DEF value, pairs
  <2> QED BY <1>3, <2>1, <2>2
<1> HIDE DEF value
<1> QED BY <1>2, <1>6, <1>7

-----------------------------------------------------------------------------
(* A text is given, and what is there afterwards is what it is parsed to. *)
TextInv ==
  /\ input \in Inputs
  /\ result = <<>> \/ result = <<ParseText(input)>>

(* TextInv holds in every reachable state. *)
LEMMA AlwaysText == Spec => []TextInv
<1>1. Init => TextInv
  BY DEF Init, TextInv
<1>2. TextInv /\ [Next]_vars => TextInv'
  <2> SUFFICES ASSUME TextInv, [Next]_vars PROVE TextInv'
    OBVIOUS
  <2>1. CASE Parse
    BY <2>1 DEF Parse, TextInv
  <2>2. CASE UNCHANGED vars
    BY <2>2 DEF TextInv, vars
  <2> QED BY <2>1, <2>2 DEF Next
<1> QED BY <1>1, <1>2, PTL DEF Spec

(* The result is what the given text is parsed to. *)
LEMMA ResultIs ==
  ASSUME TextInv, result # <<>>
  PROVE  Result = ParseText(input)
  BY DEF TextInv, Result

(* The text is of the kind that its parser expects. *)
LEMMA InputIs ==
  ASSUME TextInv
  PROVE  /\ input.key = "memory.max" => Lines \in Seq(Nat)
         /\ input.key = "cpu.max" => Lines \in Seq((Nat \cup {NoValue}) \X Nat)
         /\ input.key = "cpuset" => Lines \in Seq((Nat \X Nat) \cup {<<>>})
         /\ input.key = "counters" => \E S : Lines \in Seq(S)
         /\ input.key = "membership" => \E S : Lines \in Seq(S \cup {NoText})
         /\ input.key = "mountinfo" => Lines \in Mountinfos
         /\ input.key = "path" => Lines \in Seq(STRING)
         /\ input.key = "stat" => Lines \in Seq(STRING)
<1>1. /\ input.key = "memory.max" => input.text \in Tokens
      /\ input.key = "cpu.max" => input.text \in Levels
      /\ input.key = "cpuset" => input.text \in CpuLists
      /\ input.key = "counters" => input.text \in CounterFiles
      /\ input.key = "membership" => input.text \in Memberships
      /\ input.key = "mountinfo" => input.text \in Mountinfos
      /\ input.key = "path" => input.text \in Paths
      /\ input.key = "stat" => input.text \in Commands
  BY DEF TextInv, Inputs
<1>2. /\ Tokens \subseteq Seq(Nat)
      /\ Levels \subseteq Seq((Nat \cup {NoValue}) \X Nat)
      /\ CpuLists \subseteq Seq((Nat \X Nat) \cup {<<>>})
      /\ \E S : CounterFiles \subseteq Seq(S)
      /\ \E S : Memberships \subseteq Seq(S \cup {NoText})
      /\ Paths \subseteq Seq(STRING) /\ Commands \subseteq Seq(STRING)
  BY TextAssumption, Zenon
<1> QED BY <1>1, <1>2, Zenon DEF Lines

(* Which parser reads which kind of text. *)
LEMMA ParserOf ==
  /\ input.key = "memory.max" => ParseText(input) = ParseU64(Lines)
  /\ input.key = "cpu.max" => ParseText(input) = MinRatio(Lines)
  /\ input.key = "cpuset" => ParseText(input) = ParseCpuset(Lines)
  /\ input.key = "counters" => ParseText(input) = ParseCounters(Lines)
  /\ input.key = "membership" => ParseText(input) = ParseMembership(Lines)
  /\ input.key = "mountinfo" => ParseText(input) = SelectMount(Lines[1], Lines[2])
  /\ input.key = "path" => ParseText(input) = DecodePath(Encode(Lines))
  /\ input.key = "stat" => ParseText(input) = ParseStat(StatText(Lines))
  BY Zenon DEF ParseText, Lines

(* The number tokens *)
LEMMA NumberCase ==
  ASSUME TextInv
  PROVE  NumberExact
<1> SUFFICES ASSUME result # <<>>, input.key = "memory.max" PROVE NumberExact
  BY DEF NumberExact, Done
<1>1. Result = ParseU64(Lines) /\ Lines \in Seq(Nat)
  BY ResultIs, InputIs, ParserOf
<1>2. LET digits == Lines # <<>> /\ \A i \in DOMAIN Lines : Lines[i] <= 9 IN
      /\ ParseU64(Lines).state = "VALID" <=> digits /\ Number(Lines) <= U64Max
      /\ ParseU64(Lines).state = "VALID" => ParseU64(Lines).value = Number(Lines)
  BY <1>1, ParseU64Exact
<1> QED BY <1>1, <1>2, Zenon DEF NumberExact

(* The quotas *)
LEMMA RatioCase ==
  ASSUME TextInv
  PROVE  RatioIsLeast
<1> SUFFICES ASSUME result # <<>>, input.key = "cpu.max", Result.state = "AVAILABLE"
             PROVE  RatioIsLeast
  BY DEF RatioIsLeast, Done
<1>1. Result = MinRatio(Lines) /\ Lines \in Seq((Nat \cup {NoValue}) \X Nat)
  BY ResultIs, InputIs, ParserOf
<1>2. LeastLevel(Lines, Result.value)
  BY <1>1, MinRatioExact
<1> QED BY <1>2, Zenon DEF LeastLevel, RatioIsLeast, Finite

(* The CPU lists *)
LEMMA CpusetCase ==
  ASSUME TextInv
  PROVE  CpusetExact
<1> SUFFICES ASSUME result # <<>>, input.key = "cpuset", Result.state = "VALID"
             PROVE  CpusetExact
  BY DEF CpusetExact, Done
<1>1. Result = ParseCpuset(Lines) /\ Lines \in Seq((Nat \X Nat) \cup {<<>>})
  BY ResultIs, InputIs, ParserOf
<1>2. /\ Cpus(Result.value.intervals) = Cpus(Lines) /\ Gapped(Result.value.intervals)
      /\ Result.value.count = Cardinality(Cpus(Lines))
  BY <1>1, ParseCpusetExact
<1> QED BY <1>2, Zenon DEF CpusetExact, Cpus, Gapped, Named

(* The counter files *)
LEMMA CountersCase ==
  ASSUME TextInv
  PROVE  CountersUnambiguous
<1> SUFFICES ASSUME result # <<>>, input.key = "counters", Result.state = "VALID"
             PROVE  CountersUnambiguous
  BY DEF CountersUnambiguous, Done
<1>1. Result = ParseCounters(Lines) /\ \E S : Lines \in Seq(S)
  BY ResultIs, InputIs, ParserOf
<1>2. LET value == ParseCounters(Lines).value IN
      /\ IsInjective([i \in DOMAIN value |-> value[i].key])
      /\ \A i \in DOMAIN Lines : Lines[i].shape = "pair" =>
           /\ i \in DOMAIN value
           /\ value[i].key = Lines[i].key /\ value[i].value = Lines[i].value
           /\ (value[i].state = "MAPPED") = (value[i].key \in KnownKeys)
  BY <1>1, ParseCountersExact
<1> QED BY <1>1, <1>2, Zenon DEF CountersUnambiguous

(* What the parsers of Linux_Cgroup_Values return is what the text denotes  *)
(* (_parse_u64, parse_resource_value, parse_cpuset_cpus_effective,          *)
(* _parse_keyed_counters), and the least ratio is exact (_derive_metrics),  *)
(* for tokens, lists and files of any length and any width.                 *)
THEOREM ValuesTheorem == Spec => []ValuesExact
<1>1. TextInv => ValuesExact
  BY NumberCase, RatioCase, CpusetCase, CountersCase DEF ValuesExact
<1> QED BY <1>1, AlwaysText, PTL

-----------------------------------------------------------------------------
(* Membership *)
Alone(text) ==
  LET real == {i \in DOMAIN text : text[i] # NoText} IN
  /\ Cardinality(real) = 1
  /\ \A i \in real : /\ IsV2(text[i]) /\ ~text[i].deleted
                     /\ text[i].path \notin {"relative", "dots"}

(* The only fault a v2 line can have is its path. *)
LEMMA V2Fault ==
  ASSUME NEW line, IsV2(line)
  PROVE  MembershipFault(line) = NoText <=> line.path \notin {"relative", "dots"}
<1>1. line.id = "0" /\ line.controllers = "none"
  BY DEF IsV2
<1>2. MembershipFault(line) = IF line.path \in {"relative", "dots"} THEN "INVALID_PATH" ELSE NoText
  BY <1>1, Zenon DEF MembershipFault
<1>3. NoText # "INVALID_PATH"
  BY TextAssumption
<1> QED BY <1>2, <1>3

(* A membership is valid exactly if it is the only line. *)
LEMMA ParseMembershipExact ==
  ASSUME NEW S, NEW text \in Seq(S)
  PROVE  ParseMembership(text).state = "VALID" <=> Alone(text)
<1> DEFINE real == {i \in DOMAIN text : text[i] # NoText}
           faulty == {i \in real : MembershipFault(text[i]) # NoText}
           v2 == {i \in real : IsV2(text[i])}
           legacy == real \ v2
           V == ParseMembership(text)
<1>1. V = IF faulty # {} THEN Verdict("INVALID_VALUE", MembershipFault(text[Min(faulty)]), NoText)
          ELSE IF Cardinality(v2) > 1 THEN Verdict("INVALID_VALUE", "DUPLICATE_V2_RECORD", NoText)
          ELSE IF v2 # {} /\ legacy # {} THEN Verdict("UNSUPPORTED_LAYOUT", "HYBRID_LAYOUT", NoText)
          ELSE IF legacy # {} THEN Verdict("UNSUPPORTED_LAYOUT", "V1_ONLY", NoText)
          ELSE IF v2 = {} THEN Verdict("MISSING_MEMBERSHIP", "V2_MEMBERSHIP_MISSING", NoText)
          ELSE IF text[Min(v2)].deleted THEN Verdict("DELETED_RECORD", "MEMBERSHIP_DELETED", NoText)
          ELSE Verdict("VALID", "V2_MEMBERSHIP_PARSED", text[Min(v2)].path)
  BY DEF ParseMembership
<1>2. V.state = "VALID" <=> /\ faulty = {} /\ ~(Cardinality(v2) > 1) /\ legacy = {} /\ v2 # {}
                            /\ ~text[Min(v2)].deleted
  <2> HIDE DEF V, faulty, v2, legacy
  <2> QED BY <1>1 DEF Verdict
<1>3. IsFiniteSet(real) /\ IsFiniteSet(v2) /\ real \in SUBSET Nat
  <2>1. real \in SUBSET (1..Len(text)) /\ v2 \in SUBSET real /\ Len(text) \in Nat
    OBVIOUS
  <2>2. 1 \in Int /\ Len(text) \in Int
    BY <2>1
  <2>3. real \in SUBSET Nat
    BY <2>1
  <2> HIDE DEF real, v2
  <2>4. IsFiniteSet(1..Len(text))
    BY <2>2, FS_Interval
  <2>5. IsFiniteSet(real)
    BY <2>1, <2>4, FS_Subset
  <2> QED BY <2>1, <2>3, <2>5, FS_Subset
<1>4. ASSUME NEW m, real = {m}, v2 = {m} PROVE Min(v2) = m
  <2>1. v2 \in SUBSET Nat /\ v2 # {}
    BY <1>3, <1>4
  <2> HIDE DEF v2
  <2>2. Min(v2) \in v2
    BY <2>1, LeastOf
  <2> QED BY <1>4, <2>2
<1>5. ASSUME V.state = "VALID" PROVE Alone(text)
  <2>1. faulty = {} /\ ~(Cardinality(v2) > 1) /\ legacy = {} /\ v2 # {} /\ ~text[Min(v2)].deleted
    BY <1>2, <1>5
  <2>2. v2 = real
    BY <2>1
  <2>3. Cardinality(real) = 1
    <3> HIDE DEF v2, real
    <3>1. Cardinality(v2) \in Nat /\ Cardinality(v2) # 0
      BY <1>3, <2>1, FS_CardinalityType, FS_EmptySet
    <3> QED BY <2>1, <2>2, <3>1
  <2>4. PICK m : real = {m}
    <3> HIDE DEF real
    <3> QED BY <1>3, <2>3, FS_Singleton
  <2>5. Min(v2) = m
    BY <1>4, <2>2, <2>4
  <2>6. IsV2(text[m])
    <3>1. m \in v2
      <4> HIDE DEF v2, real
      <4> QED BY <2>2, <2>4
    <3> QED BY <3>1
  <2>7. MembershipFault(text[m]) = NoText
    <3>1. m \in real
      <4> HIDE DEF real
      <4> QED BY <2>4
    <3> HIDE DEF real
    <3> QED BY <2>1, <3>1
  <2>8. text[m].path \notin {"relative", "dots"}
    BY <2>6, <2>7, V2Fault
  <2>9. ~text[m].deleted
    <3> HIDE DEF v2
    <3> QED BY <2>1, <2>5
  <2>10. \A i \in real : i = m
    <3> HIDE DEF real
    <3> QED BY <2>4
  <2> HIDE DEF v2, legacy, faulty, V
  <2> QED BY <2>3, <2>6, <2>8, <2>9, <2>10, Zenon DEF Alone
<1>6. ASSUME Alone(text) PROVE V.state = "VALID"
  <2>1. /\ Cardinality(real) = 1
        /\ \A i \in real : /\ IsV2(text[i]) /\ ~text[i].deleted
                           /\ text[i].path \notin {"relative", "dots"}
    BY <1>6, Zenon DEF Alone
  <2>2. PICK m : real = {m}
    <3> HIDE DEF real
    <3> QED BY <1>3, <2>1, FS_Singleton
  <2>3. v2 = real
    <3> HIDE DEF real
    <3> QED BY <2>1
  <2>4. legacy = {}
    <3> HIDE DEF v2, real
    <3> QED BY <2>3
  <2>5. \A i \in real : MembershipFault(text[i]) = NoText
    <3> HIDE DEF real
    <3> QED BY <2>1, V2Fault, Zenon
  <2>6. faulty = {}
    <3> HIDE DEF real
    <3> QED BY <2>5
  <2> HIDE DEF v2, real, faulty, legacy, V
  <2>7. v2 # {} /\ ~(Cardinality(v2) > 1)
    BY <2>1, <2>2, <2>3
  <2>8. ~text[Min(v2)].deleted
    <3>1. Min(v2) = m
      BY <1>4, <2>2, <2>3
    <3> QED BY <2>1, <2>2, <3>1
  <2> QED BY <1>2, <2>4, <2>6, <2>7, <2>8
<1> QED BY <1>5, <1>6

(* The membership files *)
LEMMA MembershipCase ==
  ASSUME TextInv
  PROVE  MembershipIsAlone
<1> SUFFICES ASSUME result # <<>>, input.key = "membership" PROVE MembershipIsAlone
  BY DEF MembershipIsAlone, Done
<1>1. Result = ParseMembership(Lines) /\ \E S : Lines \in Seq(S)
  BY ResultIs, InputIs, ParserOf
<1>2. Result.state = "VALID" <=> Alone(Lines)
  BY <1>1, ParseMembershipExact
<1> QED BY <1>2, Zenon DEF MembershipIsAlone, Alone

-----------------------------------------------------------------------------
(* The mount *)
MountLine == [id : Nat, type : STRING, root : Seq(STRING)]

(* A prefix and the rest make up the whole. *)
LEMMA PrefixRest ==
  ASSUME NEW S, NEW r \in Seq(S), NEW m \in Seq(S), IsPrefix(r, m)
  PROVE  r \o SubSeq(m, Len(r) + 1, Len(m)) = m
<1> DEFINE k == Len(r)
           n == Len(m)
           t == SubSeq(m, k + 1, n)
           c == r \o t
<1>1. k \in Nat /\ n \in Nat /\ k <= n
  BY DEF IsPrefix
<1>2. \A i \in 1..k : r[i] = m[i]
  <2>1. SubSeq(r, 1, k) = SubSeq(m, 1, k)
    BY DEF IsPrefix
  <2>2. \A i \in 1..k : SubSeq(r, 1, k)[i] = r[i] /\ SubSeq(m, 1, k)[i] = m[i]
    BY <1>1
  <2> HIDE DEF k
  <2> QED BY <2>1, <2>2
<1>3. t \in Seq(S) /\ Len(t) = n - k /\ \A i \in 1..(n - k) : t[i] = m[k + i]
  BY <1>1
<1> HIDE DEF t
<1>4. c \in Seq(S) /\ Len(c) = k + (n - k)
  BY <1>3
<1>5. ASSUME NEW i \in 1..n PROVE c[i] = m[i]
  <2>1. CASE i <= k
    <3>1. i \in 1..k
      BY <1>1, <2>1
    <3>2. c[i] = r[i]
      BY <1>3, <3>1
    <3> QED BY <1>2, <3>1, <3>2
  <2>2. CASE i > k
    <3>1. i - k \in 1..(n - k) /\ k + (i - k) = i
      BY <1>1, <2>2
    <3>2. c[i] = t[i - k]
      BY <1>1, <1>3, <2>2, <3>1
    <3> QED BY <1>3, <3>1, <3>2
  <2> HIDE DEF c, k, n
  <2> QED BY <1>1, <2>1, <2>2
<1> HIDE DEF c
<1>6. c = [i \in 1..n |-> c[i]] /\ m = [i \in 1..n |-> m[i]]
  <2>1. Len(c) = n
    BY <1>1, <1>4
  <2> QED BY <1>4, <2>1
<1>7. c = m
  <2> HIDE DEF n
  <2> QED BY <1>5, <1>6, Zenon
<1> QED BY <1>7 DEF c, t, k, n

(* A root that is a prefix of a path with proper components has such ones. *)
LEMMA PrefixComponents ==
  ASSUME NEW r \in Seq(STRING), NEW m \in Seq(STRING), IsPrefix(r, m), PathComponents(m) # NoText
  PROVE  PathComponents(r) # NoText
<1>1. \A i \in DOMAIN m : m[i] \notin {"", "."}
  BY DEF PathComponents
<1>2. \A i \in DOMAIN r : i \in DOMAIN m /\ r[i] = m[i]
  <2>1. Len(r) \in Nat /\ Len(m) \in Nat /\ Len(r) <= Len(m)
    BY DEF IsPrefix
  <2>2. \A i \in 1..Len(r) : i \in 1..Len(m)
    BY <2>1
  <2>3. SubSeq(r, 1, Len(r)) = SubSeq(m, 1, Len(r))
    BY DEF IsPrefix
  <2>4. \A i \in 1..Len(r) : SubSeq(r, 1, Len(r))[i] = r[i] /\ SubSeq(m, 1, Len(r))[i] = m[i]
    BY <2>1
  <2> QED BY <2>2, <2>3, <2>4
<1>3. r # NoText
  BY TextAssumption
<1> QED BY <1>1, <1>2, <1>3, Zenon DEF PathComponents

(* The deepest of the roots that lead to the membership is there, and there is *)
(* no other one as deep.                                                       *)
Deepest(lines, member, verdict) ==
  \E i \in {k \in DOMAIN lines : lines[k].id = verdict.reason} :
    /\ lines[i].type = "cgroup2"
    /\ lines[i].root \o verdict.value = member
    /\ \A j \in DOMAIN lines \ {i} :
         lines[j].type = "cgroup2" /\ IsPrefix(lines[j].root, member)
         => Len(lines[j].root) < Len(lines[i].root)

(* The selected mount is the only one as deep as it. *)
LEMMA SelectMountExact ==
  ASSUME NEW lines \in Seq(MountLine), NEW path \in Seq(STRING),
         SelectMount(lines, path).state = "SELECTED"
  PROVE  Deepest(lines, path, SelectMount(lines, path))
<1> DEFINE parsed == ParseMountinfo(lines)
           member == PathComponents(path)
           mounts == {i \in DOMAIN lines : lines[i].type = "cgroup2"}
           found == IF member = NoText THEN {} ELSE Depths(lines, parsed.value, member)
           best == Best(found)
           pick == CHOOSE f \in best : TRUE
           V == SelectMount(lines, path)
<1>1. /\ parsed.state = "VALID" /\ found # {} /\ ~(Cardinality(best) > 1)
      /\ V = Verdict("SELECTED", lines[pick[2]].id,
                     SubSeq(member, Len(lines[pick[2]].root) + 1, Len(member)))
  <2>1. V = IF parsed.state # "VALID" THEN Verdict("CONTEXT_UNBOUND", "MALFORMED_RECORD", NoText)
            ELSE IF found = {} THEN Verdict("CONTEXT_UNBOUND", "FILESYSTEM_MISMATCH", NoText)
            ELSE IF Cardinality(best) > 1 THEN Verdict("AMBIGUOUS_MOUNT", "AMBIGUOUS_MOUNT", NoText)
            ELSE Verdict("SELECTED", lines[pick[2]].id,
                         SubSeq(member, Len(lines[pick[2]].root) + 1, Len(member)))
    BY DEF SelectMount
  <2> HIDE DEF parsed, found, best, pick, member, V
  <2>2. V.state = "SELECTED"
    BY DEF V
  <2> QED BY <2>1, <2>2 DEF Verdict
<1>2. parsed.value = mounts
  BY <1>1 DEF ParseMountinfo, Verdict
<1>3. member = path /\ member # NoText
  BY <1>1 DEF PathComponents
<1> DEFINE Fits(j) == j \in mounts /\ PathComponents(lines[j].root) # NoText
                      /\ IsPrefix(lines[j].root, path)
<1>4. found = {<<Len(lines[i].root), i>> : i \in {j \in mounts :
                 /\ PathComponents(lines[j].root) # NoText
                 /\ IsPrefix(lines[j].root, path)}}
  <2> HIDE DEF parsed, member, mounts
  <2> QED BY <1>2, <1>3, Zenon DEF Depths
<1>5. /\ \A f \in found : f[2] \in DOMAIN lines /\ Fits(f[2]) /\ f = <<Len(lines[f[2]].root), f[2]>>
      /\ \A i \in DOMAIN lines : Fits(i) => <<Len(lines[i].root), i>> \in found
  <2> HIDE DEF found
  <2> QED BY <1>4
<1>6. \A i \in DOMAIN lines : lines[i].root \in Seq(STRING) /\ Len(lines[i].root) \in Nat
  <2>1. \A i \in DOMAIN lines : lines[i] \in MountLine
    OBVIOUS
  <2>2. \A i \in DOMAIN lines : lines[i].root \in Seq(STRING)
    BY <2>1 DEF MountLine
  <2> QED BY <2>2
<1>7. Len(path) \in Nat /\ Len(lines) \in Nat /\ DOMAIN lines = 1..Len(lines)
  OBVIOUS
<1> HIDE DEF found
<1>8. \A f \in found : f[1] \in Nat /\ f[1] <= Len(path) /\ f[2] \in 1..Len(lines)
  <2> SUFFICES ASSUME NEW f \in found
               PROVE  f[1] \in Nat /\ f[1] <= Len(path) /\ f[2] \in 1..Len(lines)
    OBVIOUS
  <2>1. f[2] \in DOMAIN lines /\ Fits(f[2]) /\ f[1] = Len(lines[f[2]].root)
    <3> HIDE DEF Fits
    <3> QED BY <1>5
  <2>2. Len(lines[f[2]].root) <= Len(path)
    BY <2>1 DEF IsPrefix
  <2> QED BY <1>6, <1>7, <2>1, <2>2
<1> HIDE DEF Fits, mounts, parsed
<1>9. \A f \in found : f = <<f[1], f[2]>>
  BY <1>5
<1>10. best # {}
  <2> DEFINE D == {f[1] : f \in found}
  <2>1. D \in SUBSET Nat /\ D # {} /\ \A k \in D : k <= Len(path)
    BY <1>1, <1>8
  <2> HIDE DEF D
  <2>2. Max(D) \in D /\ \A k \in D : k <= Max(D)
    BY <1>7, <2>1, GreatestOf
  <2>3. PICK f \in found : f[1] = Max(D)
    BY <2>2 DEF D
  <2>4. \A g \in found : g[1] <= f[1]
    BY <2>2, <2>3 DEF D
  <2> QED BY <2>3, <2>4 DEF Best
<1>11. IsFiniteSet(best)
  <2> DEFINE P == (0..Len(path)) \X (1..Len(lines))
  <2>1. IsFiniteSet(0..Len(path)) /\ IsFiniteSet(1..Len(lines))
    <3>1. 0 \in Int /\ 1 \in Int /\ Len(path) \in Int /\ Len(lines) \in Int
      BY <1>7
    <3> QED BY <3>1, FS_Interval
  <2>2. IsFiniteSet(P)
    BY <2>1, FS_Product
  <2>3. \A f \in found : f \in P
    <3> SUFFICES ASSUME NEW f \in found PROVE f \in P
      OBVIOUS
    <3>1. f[1] \in 0..Len(path) /\ f[2] \in 1..Len(lines) /\ f = <<f[1], f[2]>>
      BY <1>7, <1>8, <1>9
    <3> QED BY <3>1
  <2>4. best \in SUBSET P
    BY <2>3 DEF Best
  <2> HIDE DEF P, best
  <2> QED BY <2>2, <2>4, FS_Subset
<1>12. PICK f : best = {f}
  <2> HIDE DEF best
  <2>1. Cardinality(best) \in Nat /\ Cardinality(best) # 0
    BY <1>10, <1>11, FS_CardinalityType, FS_EmptySet
  <2>2. Cardinality(best) = 1
    BY <1>1, <2>1
  <2> QED BY <1>11, <2>2, FS_Singleton
<1>13. pick = f
  <2> HIDE DEF best
  <2> QED BY <1>12
<1>14. f \in found /\ \A g \in found : g[1] <= f[1] /\ (g[1] = f[1] => g = f)
  <2>1. f \in found /\ \A g \in found : g[1] <= f[1]
    BY <1>12 DEF Best
  <2>2. ASSUME NEW g \in found, g[1] = f[1] PROVE g = f
    <3>1. g \in best
      BY <2>1, <2>2 DEF Best
    <3> HIDE DEF best
    <3> QED BY <1>12, <3>1
  <2> QED BY <2>1, <2>2
<1> HIDE DEF best, pick, V, member
<1> DEFINE i == f[2]
<1>15. i \in DOMAIN lines /\ Fits(i) /\ f[1] = Len(lines[i].root)
  BY <1>5, <1>14
<1>16. lines[i].type = "cgroup2" /\ IsPrefix(lines[i].root, path)
  BY <1>15 DEF Fits, mounts
<1>17. V.reason = lines[i].id /\ V.value = SubSeq(path, Len(lines[i].root) + 1, Len(path))
  BY <1>1, <1>3, <1>13 DEF Verdict
<1>18. lines[i].root \o V.value = path
  BY <1>6, <1>15, <1>16, <1>17, PrefixRest
<1>19. ASSUME NEW j \in DOMAIN lines \ {i}, lines[j].type = "cgroup2", IsPrefix(lines[j].root, path)
       PROVE  Len(lines[j].root) < Len(lines[i].root)
  <2>1. PathComponents(path) # NoText
    BY <1>3 DEF member
  <2>2. PathComponents(lines[j].root) # NoText
    BY <1>6, <1>19, <2>1, PrefixComponents
  <2>3. Fits(j)
    BY <1>19, <2>2 DEF Fits, mounts
  <2> DEFINE g == <<Len(lines[j].root), j>>
  <2>4. g \in found /\ g[1] = Len(lines[j].root) /\ g[2] = j
    BY <1>5, <2>3
  <2> HIDE DEF g
  <2>5. g # f
    BY <1>19, <2>4
  <2>6. g[1] <= f[1] /\ g[1] # f[1]
    BY <1>14, <2>4, <2>5
  <2> QED BY <1>6, <1>15, <2>4, <2>6
<1> HIDE DEF i
<1> QED BY <1>15, <1>16, <1>17, <1>18, <1>19, Zenon DEF Deepest, V

(* The mounts *)
LEMMA SelectionCase ==
  ASSUME TextInv
  PROVE  SelectionIsDeepest
<1> SUFFICES ASSUME result # <<>>, input.key = "mountinfo", Result.state = "SELECTED"
             PROVE  SelectionIsDeepest
  BY DEF SelectionIsDeepest, Done
<1>1. Result = SelectMount(Lines[1], Lines[2]) /\ Lines \in Mountinfos
  BY ResultIs, InputIs, ParserOf
<1>2. Mountinfos \subseteq Seq(MountLine) \X Seq(STRING)
  BY TextAssumption DEF MountLine
<1>3. Lines[1] \in Seq(MountLine) /\ Lines[2] \in Seq(STRING)
  BY <1>1, <1>2
<1>4. Deepest(Lines[1], Lines[2], Result)
  BY <1>1, <1>3, SelectMountExact
<1> QED BY <1>4, Zenon DEF Deepest, SelectionIsDeepest

-----------------------------------------------------------------------------
(* The stat file of a process. The marks are told apart by inequalities only. *)
StatShape(x, L, a, b, q, s, z) ==
  /\ Len(x) = L + 8 /\ x[1] = a /\ x[2] = b
  /\ x[L + 4] = q /\ x[L + 5] = b /\ x[L + 6] = s /\ x[L + 7] = b /\ x[L + 8] = z

(* What two sequences joined look like. *)
LEMMA Joined ==
  ASSUME NEW C, NEW r \in Seq(C), NEW t \in Seq(C)
  PROVE  /\ r \o t \in Seq(C) /\ Len(r \o t) = Len(r) + Len(t)
         /\ \A i \in 1..Len(r) : (r \o t)[i] = r[i]
         /\ \A i \in 1..Len(t) : (r \o t)[Len(r) + i] = t[i]
<1>1. Len(r \o t) = Len(r) + Len(t)
  OBVIOUS
<1>2. \A i \in 1..Len(r) : (r \o t)[i] = r[i]
  OBVIOUS
<1>3. \A i \in 1..Len(t) : (r \o t)[Len(r) + i] = t[i]
  OBVIOUS
<1> QED BY <1>1, <1>2, <1>3

(* Where the marks of a stat file stand, behind a command of any length. *)
LEMMA StatLayout ==
  ASSUME NEW C, NEW a \in C, NEW b \in C, NEW p \in C, NEW q \in C, NEW s \in C, NEW z \in C,
         NEW command \in Seq(C)
  PROVE  /\ (<<a, b, p>> \o command) \o <<q, b, s, b, z>> \in Seq(C)
         /\ StatShape((<<a, b, p>> \o command) \o <<q, b, s, b, z>>, Len(command), a, b, q, s, z)
<1> DEFINE L == Len(command)
           h == <<a, b, p>>
           t == <<q, b, s, b, z>>
           u == h \o command
           x == u \o t
<1>1. L \in Nat
  OBVIOUS
<1>2. h \in Seq(C) /\ Len(h) = 3 /\ h[1] = a /\ h[2] = b
  OBVIOUS
<1>3. t \in Seq(C) /\ Len(t) = 5 /\ t[1] = q /\ t[2] = b /\ t[3] = s /\ t[4] = b /\ t[5] = z
  OBVIOUS
<1> HIDE DEF h, t
<1>4. /\ u \in Seq(C) /\ Len(u) = Len(h) + L
      /\ \A i \in 1..Len(h) : u[i] = h[i]
  BY <1>2, Joined, Zenon
<1> HIDE DEF u, L
<1>5. /\ x \in Seq(C) /\ Len(x) = Len(u) + Len(t)
      /\ \A i \in 1..Len(u) : x[i] = u[i]
      /\ \A i \in 1..Len(t) : x[Len(u) + i] = t[i]
  <2>1. t \in Seq(C) /\ u \in Seq(C)
    BY <1>3, <1>4
  <2>2. /\ u \o t \in Seq(C) /\ Len(u \o t) = Len(u) + Len(t)
        /\ \A i \in 1..Len(u) : (u \o t)[i] = u[i]
        /\ \A i \in 1..Len(t) : (u \o t)[Len(u) + i] = t[i]
    BY <2>1, Joined
  <2>3. x = u \o t
    OBVIOUS
  <2> HIDE DEF x
  <2> QED BY <2>2, <2>3, Zenon
<1> HIDE DEF x
<1>6. u[1] = h[1] /\ u[2] = h[2]
  <2>1. 1 \in 1..3 /\ 2 \in 1..3
    OBVIOUS
  <2> QED BY <1>2, <1>4, <2>1
<1>7. x \in Seq(C)
  BY <1>5
<1>8. Len(u) = 3 + L /\ Len(x) = (3 + L) + 5
  BY <1>2, <1>3, <1>4, <1>5, Zenon
<1>9. x[1] = u[1] /\ x[2] = u[2]
  <2>1. 1 \in 1..(3 + L) /\ 2 \in 1..(3 + L)
    BY <1>1
  <2> QED BY <1>5, <1>8, <2>1, Zenon
<1>10. \A i \in 1..5 : x[(3 + L) + i] = t[i]
  BY <1>3, <1>5, <1>8, Zenon
<1>11. /\ (3 + L) + 1 = L + 4 /\ (3 + L) + 2 = L + 5 /\ (3 + L) + 3 = L + 6
       /\ (3 + L) + 4 = L + 7 /\ (3 + L) + 5 = L + 8
  BY <1>1
<1>12. x[(3 + L) + 1] = t[1] /\ x[(3 + L) + 2] = t[2] /\ x[(3 + L) + 3] = t[3]
       /\ x[(3 + L) + 4] = t[4] /\ x[(3 + L) + 5] = t[5]
  BY <1>10
<1>13. x[L + 4] = q /\ x[L + 5] = b /\ x[L + 6] = s /\ x[L + 7] = b /\ x[L + 8] = z
  BY <1>3, <1>11, <1>12, Zenon
<1>14. x[1] = a /\ x[2] = b
  BY <1>2, <1>6, <1>9, Zenon
<1>15. Len(x) = L + 8
  BY <1>8, <1>11, Zenon
<1>16. StatShape(x, L, a, b, q, s, z)
  BY <1>13, <1>14, <1>15, Zenon DEF StatShape
<1> QED BY <1>7, <1>16, Zenon DEF x, u, h, t, L

Marked(C, x, L, a, b, q, s, z) ==
  /\ x \in Seq(C) /\ L \in Nat /\ StatShape(x, L, a, b, q, s, z)
  /\ a # b /\ b # q /\ s # q /\ z # q /\ s # b /\ z # b

Places(x, c) == {i \in DOMAIN x : x[i] = c}
After(x, e, c) == {i \in DOMAIN x : i > e /\ x[i] # c}

(* The first blank, the last parenthesis and the fields behind it. *)
LEMMA StatMarks ==
  ASSUME NEW C, NEW x, NEW L, NEW a, NEW b, NEW q, NEW s, NEW z, Marked(C, x, L, a, b, q, s, z)
  PROVE  /\ Min(Places(x, b)) = 2 /\ Max(Places(x, q)) = L + 4
         /\ After(x, L + 4, b) = {L + 6, L + 8}
<1> DEFINE spaces == {i \in DOMAIN x : x[i] = b}
           ends == {i \in DOMAIN x : x[i] = q}
           fields == {i \in DOMAIN x : i > L + 4 /\ x[i] # b}
           B == L + 8
<1>1. /\ Len(x) = L + 8 /\ x[1] = a /\ x[2] = b
      /\ x[L + 4] = q /\ x[L + 5] = b /\ x[L + 6] = s /\ x[L + 7] = b /\ x[L + 8] = z
  BY Zenon DEF StatShape, Marked
<1>0. /\ x \in Seq(C) /\ L \in Nat
      /\ a # b /\ b # q /\ s # q /\ z # q /\ s # b /\ z # b
  BY Zenon DEF Marked
<1>2. DOMAIN x = 1..(L + 8)
  BY <1>0, <1>1
<1>3. L + 4 \in DOMAIN x /\ L + 6 \in DOMAIN x /\ L + 8 \in DOMAIN x /\ 2 \in DOMAIN x
  BY <1>0, <1>2
<1>4. \A i \in DOMAIN x : i \in Nat /\ i <= B /\ i >= 1
  BY <1>0, <1>2
<1>5. B \in Nat
  BY <1>0
<1>6. Min(spaces) = 2
  <2>1. 2 \in spaces /\ 1 \notin spaces
    BY <1>0, <1>1, <1>3
  <2>2. spaces \in SUBSET Nat /\ \A i \in spaces : i >= 1
    BY <1>4
  <2> HIDE DEF spaces
  <2>3. Min(spaces) \in spaces /\ Min(spaces) <= 2
    BY <2>1, <2>2, LeastOf
  <2>4. Min(spaces) \in Nat /\ Min(spaces) >= 1 /\ Min(spaces) # 1
    BY <2>1, <2>2, <2>3
  <2> QED BY <2>3, <2>4
<1>7. Max(ends) = L + 4
  <2>1. L + 4 \in ends
    BY <1>0, <1>1, <1>3
  <2>2. L + 5 \notin ends /\ L + 6 \notin ends /\ L + 7 \notin ends /\ L + 8 \notin ends
    BY <1>0, <1>1
  <2>3. ends \in SUBSET Nat /\ \A i \in ends : i <= B
    BY <1>4
  <2> HIDE DEF ends
  <2>4. Max(ends) \in ends /\ \A i \in ends : i <= Max(ends)
    <3> HIDE DEF B
    <3> QED BY <1>5, <2>1, <2>3, GreatestOf
  <2>5. L + 4 <= Max(ends) /\ Max(ends) <= L + 8 /\ Max(ends) \in Nat
    BY <1>0, <2>1, <2>3, <2>4
  <2>6. Max(ends) # L + 5 /\ Max(ends) # L + 6 /\ Max(ends) # L + 7 /\ Max(ends) # L + 8
    BY <2>2, <2>4, Zenon
  <2> QED BY <1>0, <2>5, <2>6
<1>8. fields = {L + 6, L + 8}
  <2>1. L + 6 \in fields /\ L + 8 \in fields
    BY <1>0, <1>1, <1>3
  <2>2. L + 5 \notin fields /\ L + 7 \notin fields
    BY <1>0, <1>1
  <2>3. \A i \in fields : i \in Nat /\ i > L + 4 /\ i <= B
    BY <1>4
  <2> HIDE DEF fields
  <2>4. ASSUME NEW i \in fields PROVE i = L + 6 \/ i = L + 8
    <3>1. i # L + 5 /\ i # L + 7
      BY <2>2, <2>4, Zenon
    <3>2. i \in Nat /\ i > L + 4 /\ i <= L + 8
      BY <2>3
    <3> QED BY <1>0, <3>1, <3>2
  <2> QED BY <2>1, <2>4
<1> QED BY <1>6, <1>7, <1>8, Zenon DEF Places, After

(* Two numbers in order: how many, and which is the second. *)
LEMMA TwoNumbers ==
  ASSUME NEW m \in Nat, NEW n \in Nat, m < n
  PROVE  Cardinality({m, n}) = 2 /\ Min({m, n} \ {Min({m, n})}) = n
<1> DEFINE F == {m, n}
<1>1. Cardinality(F) = 2
  <2>1. IsFiniteSet({m}) /\ Cardinality({m}) = 1
    BY FS_Singleton
  <2>2. n \notin {m}
    OBVIOUS
  <2>3. Cardinality({m} \cup {n}) = 1 + 1
    BY <2>1, <2>2, FS_AddElement
  <2>4. F = {m} \cup {n} /\ 1 + 1 = 2
    OBVIOUS
  <2> QED BY <2>3, <2>4
<1>2. Min(F) = m
  <2>1. F \in SUBSET Nat /\ F # {} /\ m \in F
    OBVIOUS
  <2>2. \A i \in F : i = m \/ i = n
    OBVIOUS
  <2> HIDE DEF F
  <2>3. Min(F) \in F /\ Min(F) <= m
    BY <2>1, LeastOf
  <2> QED BY <2>2, <2>3
<1>3. Min(F \ {Min(F)}) = n
  <2> DEFINE R == F \ {Min(F)}
  <2>1. R = {n}
    BY <1>2
  <2> HIDE DEF R
  <2>2. R \in SUBSET Nat /\ R # {}
    BY <2>1
  <2>3. Min(R) \in R
    BY <2>2, LeastOf
  <2> QED BY <2>1, <2>3 DEF R
<1> QED BY <1>1, <1>3

(* What precedes position 2 is the first element. *)
LEMMA FirstElement ==
  ASSUME NEW C, NEW x \in Seq(C), Len(x) >= 1
  PROVE  SubSeq(x, 1, 2 - 1) = <<x[1]>>
<1> DEFINE r == SubSeq(x, 1, 1)
           o == <<x[1]>>
<1>1. r \in Seq(C) /\ Len(r) = 1 /\ r[1] = x[1]
  OBVIOUS
<1>2. r = [i \in 1..1 |-> r[i]]
  <2> HIDE DEF r
  <2> QED BY <1>1
<1>3. o = [i \in 1..1 |-> o[i]] /\ o[1] = x[1]
  OBVIOUS
<1> HIDE DEF r, o
<1>4. \A i \in 1..1 : r[i] = o[i]
  BY <1>1, <1>3
<1>5. r = o
  BY <1>2, <1>3, <1>4, Zenon
<1>6. 2 - 1 = 1
  OBVIOUS
<1> QED BY <1>5, <1>6, Zenon DEF r, o

(* The command does not matter, parentheses and blanks in it included. *)
LEMMA ParseStatExact ==
  ASSUME NEW S, NEW command \in Seq(S)
  PROVE  ParseStat(StatText(command)) = Verdict("VALID", <<"7">>, "9")
<1> DEFINE L == Len(command)
           C == S \cup {"7", " ", "(", ")", "S", "9"}
           x == StatText(command)
           spaces == {i \in DOMAIN x : x[i] = " "}
           fields == {i \in DOMAIN x : i > CommandEnd(x) /\ x[i] # " "}
<1>1. "7" \in C /\ " " \in C /\ "(" \in C /\ ")" \in C /\ "S" \in C /\ "9" \in C
  OBVIOUS
<1>2. S \subseteq C
  OBVIOUS
<1> HIDE DEF C
<1>3. command \in Seq(C)
  BY <1>2
<1>4. L \in Nat
  OBVIOUS
<1>5. x = (<<"7", " ", "(">> \o command) \o <<")", " ", "S", " ", "9">>
  BY Zenon DEF StatText
<1> HIDE DEF x
<1>6. x \in Seq(C) /\ StatShape(x, L, "7", " ", ")", "S", "9")
  BY <1>1, <1>3, <1>5, StatLayout, Zenon
<1>7. "7" # " " /\ " " # ")" /\ "S" # ")" /\ "9" # ")" /\ "S" # " " /\ "9" # " "
  OBVIOUS
<1> HIDE DEF L
<1>8. /\ Min({i \in DOMAIN x : x[i] = " "}) = 2
      /\ Max({i \in DOMAIN x : x[i] = ")"}) = L + 4
      /\ {i \in DOMAIN x : i > L + 4 /\ x[i] # " "} = {L + 6, L + 8}
  <2>1. Marked(C, x, L, "7", " ", ")", "S", "9")
    BY <1>4, <1>6, <1>7, Zenon DEF Marked
  <2> DEFINE a == "7"
             b == " "
             q == ")"
             s == "S"
             z == "9"
  <2>2. Marked(C, x, L, a, b, q, s, z)
    BY <2>1
  <2> HIDE DEF a, b, q, s, z, spaces, fields
  <2>3. /\ Min(Places(x, b)) = 2 /\ Max(Places(x, q)) = L + 4
        /\ After(x, L + 4, b) = {L + 6, L + 8}
    BY <2>2, StatMarks
  <2> QED BY <2>3, Zenon DEF a, b, q, Places, After
<1>9. Min(spaces) = 2 /\ fields = {L + 6, L + 8}
  BY <1>8, Zenon DEF CommandEnd
<1>10. Cardinality(fields) = 2 /\ Min(fields \ {Min(fields)}) = L + 8
  <2>1. L + 6 \in Nat /\ L + 8 \in Nat /\ L + 6 < L + 8
    BY <1>4
  <2>2. Cardinality({L + 6, L + 8}) = 2 /\ Min({L + 6, L + 8} \ {Min({L + 6, L + 8})}) = L + 8
    <3> DEFINE m == L + 6
               n == L + 8
    <3>1. m \in Nat /\ n \in Nat /\ m < n
      BY <2>1
    <3> HIDE DEF m, n
    <3>2. Cardinality({m, n}) = 2 /\ Min({m, n} \ {Min({m, n})}) = n
      BY <3>1, TwoNumbers, Zenon
    <3> QED BY <3>2, Zenon DEF m, n
  <2> HIDE DEF fields
  <2> QED BY <1>9, <2>2, Zenon
<1>11. x[1] = "7" /\ x[L + 8] = "9" /\ Len(x) = L + 8
  BY <1>6, Zenon DEF StatShape
<1>12. SubSeq(x, 1, 2 - 1) = <<"7">>
  <2>1. Len(x) >= 1
    BY <1>4, <1>11
  <2>2. SubSeq(x, 1, 2 - 1) = <<x[1]>>
    BY <1>6, <2>1, FirstElement
  <2> QED BY <1>11, <2>2, Zenon
<1>13. ParseStat(x) = IF Cardinality(fields) < 2 THEN Verdict("MISMATCH", NoText, NoText)
                      ELSE Verdict("VALID", SubSeq(x, 1, Min(spaces) - 1),
                                   x[Min(fields \ {Min(fields)})])
  BY Zenon DEF ParseStat, spaces, fields
<1> HIDE DEF spaces, fields
<1>14. ~(Cardinality(fields) < 2)
  BY <1>10
<1>15. ParseStat(x) = Verdict("VALID", <<"7">>, "9")
  BY <1>9, <1>10, <1>11, <1>12, <1>13, <1>14, Zenon
<1> QED BY <1>15 DEF x

(* The stat files *)
LEMMA StatCase ==
  ASSUME TextInv
  PROVE  StatIgnoresCommand
<1> SUFFICES ASSUME result # <<>>, input.key = "stat" PROVE StatIgnoresCommand
  BY DEF StatIgnoresCommand, Done
<1>1. Result = ParseStat(StatText(Lines)) /\ \E S : Lines \in Seq(S)
  BY ResultIs, InputIs, ParserOf
<1>2. Result = Verdict("VALID", <<"7">>, "9")
  BY <1>1, ParseStatExact
<1> QED BY <1>2, Zenon DEF StatIgnoresCommand

-----------------------------------------------------------------------------
(* Mount paths *)

(* The characters that are escaped, and those of their escapes. *)
Special == {" ", "tab", "newline", "\\"}
Marks == Special \cup {"0", "1", "2", "3", "4"}

(* What the four codes stand for. *)
LEMMA CodeOf ==
  /\ Unescaped(<<"0", "4", "0">>) = " " /\ Unescaped(<<"0", "1", "1">>) = "tab"
  /\ Unescaped(<<"0", "1", "2">>) = "newline" /\ Unescaped(<<"1", "3", "4">>) = "\\"
<1> DEFINE blank == <<"0", "4", "0">>
           tab == <<"0", "1", "1">>
           newline == <<"0", "1", "2">>
           back == <<"1", "3", "4">>
<1>1. /\ blank[1] = "0" /\ blank[2] = "4" /\ blank[3] = "0"
      /\ tab[1] = "0" /\ tab[2] = "1" /\ tab[3] = "1"
      /\ newline[1] = "0" /\ newline[2] = "1" /\ newline[3] = "2"
      /\ back[1] = "1" /\ back[2] = "3" /\ back[3] = "4"
  OBVIOUS
<1>2. "0" # "1" /\ "4" # "1" /\ "1" # "2"
  OBVIOUS
<1>3. /\ Unescaped(blank) = IF blank = blank THEN " " ELSE IF blank = tab THEN "tab"
                            ELSE IF blank = newline THEN "newline" ELSE "\\"
      /\ Unescaped(tab) = IF tab = blank THEN " " ELSE IF tab = tab THEN "tab"
                          ELSE IF tab = newline THEN "newline" ELSE "\\"
      /\ Unescaped(newline) = IF newline = blank THEN " " ELSE IF newline = tab THEN "tab"
                              ELSE IF newline = newline THEN "newline" ELSE "\\"
      /\ Unescaped(back) = IF back = blank THEN " " ELSE IF back = tab THEN "tab"
                           ELSE IF back = newline THEN "newline" ELSE "\\"
  BY Zenon DEF Unescaped
<1> HIDE DEF blank, tab, newline, back
<1>4. /\ tab # blank /\ newline # blank /\ newline # tab
      /\ back # blank /\ back # tab /\ back # newline
  BY <1>1, <1>2, Zenon
<1>5. /\ Unescaped(blank) = " " /\ Unescaped(tab) = "tab"
      /\ Unescaped(newline) = "newline" /\ Unescaped(back) = "\\"
  BY <1>3, <1>4, Zenon
<1> QED BY <1>5 DEF blank, tab, newline, back

(* A character stands for itself or is a backslash and its code. *)
LEMMA EscapedIs ==
  ASSUME NEW c
  PROVE  \/ c # "\\" /\ Escaped(c) = <<c>>
         \/ \E q, s, z \in Marks \ {"\\"} :
              /\ Escaped(c) = <<"\\", q, s, z>>
              /\ <<q, s, z>> \in Codes /\ Unescaped(<<q, s, z>>) = c
<1>1. /\ "0" \in Marks \ {"\\"} /\ "1" \in Marks \ {"\\"} /\ "2" \in Marks \ {"\\"}
      /\ "3" \in Marks \ {"\\"} /\ "4" \in Marks \ {"\\"}
  BY DEF Marks
<1>2. /\ <<"0", "4", "0">> \in Codes /\ <<"0", "1", "1">> \in Codes
      /\ <<"0", "1", "2">> \in Codes /\ <<"1", "3", "4">> \in Codes
  BY Zenon DEF Codes
<1>3. /\ "tab" # " " /\ "newline" # " " /\ "\\" # " "
      /\ "newline" # "tab" /\ "\\" # "tab" /\ "\\" # "newline"
  OBVIOUS
<1>4. CASE c = " "
  <2>1. Escaped(c) = <<"\\", "0", "4", "0">>
    BY <1>4, Zenon DEF Escaped
  <2> QED BY <1>1, <1>2, <1>4, <2>1, CodeOf, Zenon
<1>5. CASE c = "tab"
  <2>1. Escaped(c) = <<"\\", "0", "1", "1">>
    BY <1>3, <1>5, Zenon DEF Escaped
  <2> QED BY <1>1, <1>2, <1>5, <2>1, CodeOf, Zenon
<1>6. CASE c = "newline"
  <2>1. Escaped(c) = <<"\\", "0", "1", "2">>
    BY <1>3, <1>6, Zenon DEF Escaped
  <2> QED BY <1>1, <1>2, <1>6, <2>1, CodeOf, Zenon
<1>7. CASE c = "\\"
  <2>1. Escaped(c) = <<"\\", "1", "3", "4">>
    BY <1>3, <1>7, Zenon DEF Escaped
  <2> QED BY <1>1, <1>2, <1>7, <2>1, CodeOf, Zenon
<1>8. CASE c # " " /\ c # "tab" /\ c # "newline" /\ c # "\\"
  BY <1>8, Zenon DEF Escaped
<1> QED BY <1>4, <1>5, <1>6, <1>7, <1>8, Zenon

(* Four characters are a text of four. *)
LEMMA FourSeq ==
  ASSUME NEW C, NEW p \in C, NEW q \in C, NEW s \in C, NEW z \in C
  PROVE  <<p, q, s, z>> \in Seq(C) /\ Len(<<p, q, s, z>>) = 4
  OBVIOUS

(* An escaped character is a text. *)
LEMMA EscapedSeq ==
  ASSUME NEW C, Marks \subseteq C, NEW c \in C
  PROVE  Escaped(c) \in Seq(C)
<1>1. <<c>> \in Seq(C)
  OBVIOUS
<1>2. "\\" \in C
  BY DEF Marks, Special
<1>3. \A q, s, z \in Marks : <<"\\", q, s, z>> \in Seq(C)
  <2>1. \A q, s, z \in Marks : q \in C /\ s \in C /\ z \in C
    BY Zenon
  <2> QED BY <1>2, <2>1, FourSeq, Zenon
<1>4. Escaped(c) = <<c>> \/ \E q, s, z \in Marks : Escaped(c) = <<"\\", q, s, z>>
  <2>1. \A m \in Marks \ {"\\"} : m \in Marks
    OBVIOUS
  <2> QED BY <2>1, EscapedIs, Zenon
<1> QED BY <1>1, <1>3, <1>4, Zenon

(* The text of the first n characters. *)
Encodes(f, C, path) ==
  /\ f \in [0..Len(path) -> Seq(C)] /\ f[0] = <<>>
  /\ \A n \in 1..Len(path) : f[n] = f[n - 1] \o Escaped(path[n])

(* Encode appends the escaped characters one after the other. *)
LEMMA EncodeFollows ==
  ASSUME NEW C, Marks \subseteq C, NEW path \in Seq(C)
  PROVE  \E f : Encodes(f, C, path) /\ Encode(path) = f[Len(path)]
<1> DEFINE N == Len(path)
           X(n) == Escaped(path[n])
           Rec(f) == [n \in 0..N |-> IF n = 0 THEN <<>> ELSE f[n - 1] \o Escaped(path[n])]
           upto == CHOOSE f : f = Rec(f)
           G == [n \in 1..N |-> [u \in Seq(C) |-> u \o X(n)]]
<1>1. Encode(path) = upto[N]
  BY DEF Encode
<1>2. N \in Nat /\ \A n \in 1..N : X(n) \in Seq(C)
  <2>1. \A n \in 1..N : path[n] \in C
    OBVIOUS
  <2>2. N \in Nat
    OBVIOUS
  <2> QED BY <2>1, <2>2, EscapedSeq
<1>3. G \in [1..N -> [Seq(C) -> Seq(C)]]
  <2>1. \A n \in 1..N : \A u \in Seq(C) : u \o X(n) \in Seq(C)
    <3> HIDE DEF X, N
    <3> QED BY <1>2, Joined
  <2> HIDE DEF N, X
  <2> QED BY <2>1
<1>4. PICK f : Follows(f, Seq(C), N, <<>>, G)
  <2>1. N \in Nat /\ <<>> \in Seq(C)
    OBVIOUS
  <2> HIDE DEF G, N
  <2> QED BY <1>3, <2>1, FollowsExists
<1> HIDE DEF N
<1>5. f \in [0..N -> Seq(C)] /\ f[0] = <<>> /\ \A n \in 1..N : f[n] = f[n - 1] \o X(n)
  <2> SUFFICES ASSUME NEW n \in 1..N PROVE f[n] = f[n - 1] \o X(n)
    BY <1>4, Zenon DEF Follows
  <2>1. n - 1 \in 0..N
    BY <1>2
  <2> HIDE DEF G, X
  <2>2. f[n - 1] \in Seq(C) /\ f[n] = G[n][f[n - 1]]
    BY <1>4, <2>1 DEF Follows
  <2>3. \A u \in Seq(C) : G[n][u] = u \o X(n)
    BY DEF G
  <2> QED BY <2>2, <2>3
<1>6. f = Rec(f)
  <2>1. f = [n \in 0..N |-> f[n]]
    BY <1>5
  <2>2. \A n \in 0..N : n # 0 => n \in 1..N
    BY <1>2
  <2>3. \A n \in 0..N : f[n] = IF n = 0 THEN <<>> ELSE f[n - 1] \o Escaped(path[n])
    BY <1>5, <2>2, Zenon
  <2> QED BY <2>1, <2>3, Zenon
<1>7. ASSUME NEW g, g = Rec(g) PROVE g = f
  <2>1. Table(g, N) /\ Table(f, N)
    <3>1. \A n \in 0..N : g[n] = IF n = 0 THEN <<>> ELSE g[n - 1] \o Escaped(path[n])
      BY <1>7, Zenon
    <3>2. g = [n \in 0..N |-> g[n]]
      BY <1>7, <3>1, Zenon
    <3> QED BY <1>5, <3>2 DEF Table
  <2>2. g[0] = f[0]
    <3>1. 0 \in 0..N
      BY <1>2
    <3>2. g[0] = Rec(g)[0]
      BY <1>7
    <3> QED BY <1>5, <3>1, <3>2
  <2>3. \A n \in 1..N : g[n - 1] = f[n - 1] => g[n] = f[n]
    <3> SUFFICES ASSUME NEW n \in 1..N, g[n - 1] = f[n - 1] PROVE g[n] = f[n]
      OBVIOUS
    <3>1. n \in 0..N /\ n # 0
      BY <1>2
    <3>2. g[n] = Rec(g)[n]
      BY <1>7
    <3>3. Rec(g)[n] = g[n - 1] \o X(n)
      BY <3>1, Zenon
    <3> QED BY <1>5, <3>2, <3>3, Zenon
  <2> HIDE DEF Rec, G
  <2> QED BY <1>2, <2>1, <2>2, <2>3, Agree
<1>8. upto = f
  <2> HIDE DEF Rec
  <2> QED BY <1>6, <1>7
<1>9. Encodes(f, C, path)
  BY <1>5, Zenon DEF Encodes, N
<1> HIDE DEF Rec, G, upto
<1> QED BY <1>1, <1>8, <1>9 DEF N

(* Each encoded prefix is a prefix of the whole. *)
Starts(s, t) == Len(s) <= Len(t) /\ \A i \in 1..Len(s) : t[i] = s[i]

(* A prefix of a text is one of the text continued. *)
LEMMA StartsJoined ==
  ASSUME NEW C, NEW r \in Seq(C), NEW s \in Seq(C), NEW x \in Seq(C), Starts(r, s)
  PROVE  Starts(r, s \o x)
<1>1. Len(s \o x) = Len(s) + Len(x) /\ \A i \in 1..Len(s) : (s \o x)[i] = s[i]
  BY Joined
<1>2. Len(r) \in Nat /\ Len(s) \in Nat /\ Len(x) \in Nat
  OBVIOUS
<1>3. Len(r) <= Len(s) /\ \A i \in 1..Len(r) : s[i] = r[i]
  BY DEF Starts
<1>4. \A i \in 1..Len(r) : i \in 1..Len(s)
  BY <1>2, <1>3
<1>5. Len(r) <= Len(s \o x)
  BY <1>1, <1>2, <1>3
<1>6. \A i \in 1..Len(r) : (s \o x)[i] = r[i]
  BY <1>1, <1>3, <1>4, Zenon
<1> QED BY <1>5, <1>6, Zenon DEF Starts

(* A text is a prefix of itself. *)
LEMMA StartsItself ==
  ASSUME NEW C, NEW r \in Seq(C)
  PROVE  Starts(r, r)
<1>1. Len(r) <= Len(r)
  OBVIOUS
<1> QED BY <1>1, Zenon DEF Starts

(* What is encoded first stays at the beginning. *)
LEMMA EncodedPrefix ==
  ASSUME NEW C, Marks \subseteq C, NEW path \in Seq(C), NEW f, Encodes(f, C, path)
  PROVE  \A n \in 0..Len(path) : Starts(f[n], f[Len(path)])
<1> DEFINE N == Len(path)
           E == {k \in 0..N : \A n \in 0..k : Starts(f[n], f[k])}
<1>1. N \in Nat
  OBVIOUS
<1>2. /\ f \in [0..N -> Seq(C)]
      /\ \A n \in 1..N : f[n] = f[n - 1] \o Escaped(path[n])
      /\ \A n \in 1..N : Escaped(path[n]) \in Seq(C)
  <2>1. \A n \in 1..N : path[n] \in C
    OBVIOUS
  <2>2. \A n \in 1..N : Escaped(path[n]) \in Seq(C)
    BY <2>1, EscapedSeq
  <2> QED BY <2>2, Zenon DEF Encodes
<1> HIDE DEF N
<1>3. \A n \in 0..N : f[n] \in Seq(C)
  BY <1>2
<1>4. 0 \in E
  <2>1. 0 \in 0..N /\ \A n \in 0..0 : n = 0
    BY <1>1
  <2>2. Starts(f[0], f[0])
    BY <1>3, <2>1, StartsItself
  <2>3. \A n \in 0..0 : Starts(f[n], f[0])
    BY <2>1, <2>2, Zenon
  <2> QED BY <2>1, <2>3
<1>5. \A k \in 0..N : k # N /\ k \in E => k + 1 \in E
  <2> SUFFICES ASSUME NEW k \in 0..N, k # N, k \in E PROVE k + 1 \in E
    OBVIOUS
  <2>1. k + 1 \in 1..N /\ k + 1 \in 0..N /\ (k + 1) - 1 = k
    BY <1>1
  <2>2. f[k + 1] = f[k] \o Escaped(path[k + 1]) /\ Escaped(path[k + 1]) \in Seq(C)
    BY <1>2, <2>1
  <2>3. ASSUME NEW n \in 0..(k + 1) PROVE Starts(f[n], f[k + 1])
    <3>1. CASE n = k + 1
      BY <1>3, <2>1, <3>1, StartsItself
    <3>2. CASE n # k + 1
      <4>1. n \in 0..k /\ n \in 0..N
        BY <1>1, <3>2
      <4>2. Starts(f[n], f[k])
        BY <4>1
      <4>3. f[n] \in Seq(C) /\ f[k] \in Seq(C)
        BY <1>3, <4>1
      <4>4. Starts(f[n], f[k] \o Escaped(path[k + 1]))
        BY <2>2, <4>2, <4>3, StartsJoined
      <4> QED BY <2>2, <4>4, Zenon
    <3> QED BY <3>1, <3>2
  <2> QED BY <2>1, <2>3
<1>6. N \in E
  <2> HIDE DEF E
  <2>1. 0..N \subseteq E
    BY <1>1, <1>4, <1>5, Upward
  <2>2. N \in 0..N
    BY <1>1
  <2> QED BY <2>1, <2>2
<1> QED BY <1>6 DEF N

(* The next character of an encoded path: as it is, or as an escape. *)
Plain(t, b, c) == b + 1 <= Len(t) /\ t[b + 1] = c /\ c # "\\"

Escape(t, b, c) ==
  /\ b + 4 <= Len(t) /\ t[b + 1] = "\\" /\ CodeAt(t, b + 1) \in Codes
  /\ t[b + 2] # "\\" /\ t[b + 3] # "\\" /\ t[b + 4] # "\\"
  /\ c = Unescaped(CodeAt(t, b + 1))

(* Three characters behind a position. *)
LEMMA ThreeIs ==
  ASSUME NEW C, NEW t \in Seq(C), NEW b \in Nat, b + 4 <= Len(t)
  PROVE  SubSeq(t, b + 2, b + 4) = <<t[b + 2], t[b + 3], t[b + 4]>>
<1> DEFINE r == SubSeq(t, b + 2, b + 4)
           o == <<t[b + 2], t[b + 3], t[b + 4]>>
<1>1. r \in Seq(C) /\ Len(r) = 3
  OBVIOUS
<1>2. r[1] = t[b + 2] /\ r[2] = t[b + 3] /\ r[3] = t[b + 4]
  <2>1. \A i \in 1..3 : r[i] = t[(b + 2 + i) - 1]
    OBVIOUS
  <2>2. (b + 2 + 1) - 1 = b + 2 /\ (b + 2 + 2) - 1 = b + 3 /\ (b + 2 + 3) - 1 = b + 4
    OBVIOUS
  <2>3. r[1] = t[(b + 2 + 1) - 1] /\ r[2] = t[(b + 2 + 2) - 1] /\ r[3] = t[(b + 2 + 3) - 1]
    <3> HIDE DEF r
    <3> QED BY <2>1
  <2> QED BY <2>2, <2>3, Zenon
<1>3. r = [i \in 1..3 |-> r[i]]
  <2> HIDE DEF r
  <2> QED BY <1>1
<1>4. o = [i \in 1..3 |-> o[i]] /\ o[1] = t[b + 2] /\ o[2] = t[b + 3] /\ o[3] = t[b + 4]
  OBVIOUS
<1> HIDE DEF r, o
<1>5. \A i \in 1..3 : r[i] = o[i]
  <2>1. \A i \in 1..3 : i = 1 \/ i = 2 \/ i = 3
    OBVIOUS
  <2> QED BY <1>2, <1>4, <2>1, Zenon
<1>6. r = o
  BY <1>3, <1>4, <1>5, Zenon
<1> QED BY <1>6 DEF r, o

(* The code of an escape is the three characters behind its backslash. *)
LEMMA CodeIs ==
  ASSUME NEW C, NEW t \in Seq(C), NEW b \in Nat, b + 4 <= Len(t)
  PROVE  CodeAt(t, b + 1) = <<t[b + 2], t[b + 3], t[b + 4]>>
<1> DEFINE S == {(b + 1) + 3, Len(t)}
<1>1. Len(t) \in Nat /\ (b + 1) + 3 = b + 4 /\ (b + 1) + 1 = b + 2
  OBVIOUS
<1>2. Min(S) = b + 4
  <2>1. S \in SUBSET Nat /\ S # {} /\ b + 4 \in S
    BY <1>1
  <2>2. \A i \in S : i = b + 4 \/ i = Len(t)
    BY <1>1
  <2> HIDE DEF S
  <2>3. Min(S) \in S /\ Min(S) <= b + 4
    BY <2>1, LeastOf
  <2> QED BY <1>1, <2>2, <2>3
<1>3. CodeAt(t, b + 1) = SubSeq(t, (b + 1) + 1, Min(S))
  BY Zenon DEF CodeAt
<1> HIDE DEF S
<1>4. CodeAt(t, b + 1) = SubSeq(t, b + 2, b + 4)
  BY <1>1, <1>2, <1>3, Zenon
<1> QED BY <1>4, ThreeIs

(* What follows the first b characters of the text is the escaped character. *)
Holds(t, b, x) == b + Len(x) <= Len(t) /\ \A i \in 1..Len(x) : t[b + i] = x[i]

(* The next character stands for itself, or an escape for it. *)
LEMMA NextIs ==
  ASSUME NEW C, NEW t \in Seq(C), NEW b \in Nat, NEW c, Holds(t, b, Escaped(c))
  PROVE  \/ Plain(t, b, c) /\ Len(Escaped(c)) = 1
         \/ Escape(t, b, c) /\ Len(Escaped(c)) = 4
<1>1. Len(t) \in Nat
  OBVIOUS
<1>2. ASSUME NEW p, NEW q, NEW s, NEW z, Holds(t, b, <<p, q, s, z>>)
      PROVE  /\ b + 4 <= Len(t) /\ t[b + 1] = p /\ t[b + 2] = q /\ t[b + 3] = s /\ t[b + 4] = z
             /\ CodeAt(t, b + 1) = <<q, s, z>>
  <2> DEFINE x == <<p, q, s, z>>
  <2>1. Len(x) = 4 /\ x[1] = p /\ x[2] = q /\ x[3] = s /\ x[4] = z
    OBVIOUS
  <2>2. Holds(t, b, x)
    BY <1>2
  <2> HIDE DEF x
  <2>3. b + 4 <= Len(t) /\ \A i \in 1..4 : t[b + i] = x[i]
    BY <2>1, <2>2, Zenon DEF Holds
  <2>4. t[b + 1] = x[1] /\ t[b + 2] = x[2] /\ t[b + 3] = x[3] /\ t[b + 4] = x[4]
    BY <2>3
  <2>5. t[b + 1] = p /\ t[b + 2] = q /\ t[b + 3] = s /\ t[b + 4] = z
    BY <2>1, <2>4, Zenon
  <2>6. CodeAt(t, b + 1) = <<t[b + 2], t[b + 3], t[b + 4]>>
    BY <2>3, CodeIs
  <2>7. CodeAt(t, b + 1) = <<q, s, z>>
    BY <2>5, <2>6, Zenon
  <2> QED BY <2>3, <2>5, <2>7
<1>3. CASE c # "\\" /\ Escaped(c) = <<c>>
  <2> DEFINE x == <<c>>
  <2>1. Len(x) = 1 /\ x[1] = c
    OBVIOUS
  <2>2. Holds(t, b, x) /\ Escaped(c) = x
    BY <1>3
  <2> HIDE DEF x
  <2>3. b + 1 <= Len(t) /\ \A i \in 1..1 : t[b + i] = x[i]
    BY <2>1, <2>2, Zenon DEF Holds
  <2>4. 1 \in 1..1
    OBVIOUS
  <2>5. t[b + 1] = c
    BY <2>1, <2>3, <2>4, Zenon
  <2> QED BY <1>3, <2>1, <2>2, <2>3, <2>5, Zenon DEF Plain
<1>4. ASSUME NEW q \in Marks \ {"\\"}, NEW s \in Marks \ {"\\"}, NEW z \in Marks \ {"\\"},
             Escaped(c) = <<"\\", q, s, z>>, <<q, s, z>> \in Codes, Unescaped(<<q, s, z>>) = c
      PROVE  Escape(t, b, c) /\ Len(Escaped(c)) = 4
  <2> DEFINE p == "\\"
  <2>1. Holds(t, b, <<p, q, s, z>>) /\ Escaped(c) = <<p, q, s, z>>
    BY <1>4
  <2>2. Len(<<p, q, s, z>>) = 4
    OBVIOUS
  <2>3. q # p /\ s # p /\ z # p
    OBVIOUS
  <2> HIDE DEF p
  <2>4. /\ b + 4 <= Len(t) /\ t[b + 1] = p /\ t[b + 2] = q /\ t[b + 3] = s /\ t[b + 4] = z
        /\ CodeAt(t, b + 1) = <<q, s, z>>
    BY <1>2, <2>1
  <2>5. Escape(t, b, c)
    BY <1>4, <2>3, <2>4, Zenon DEF Escape, p
  <2> QED BY <2>1, <2>2, <2>5, Zenon
<1> QED BY <1>3, <1>4, EscapedIs, Zenon

(* The decoder's state after the first i characters of the text. *)
DecoderState(C) == [out : Seq(C), next : Nat]

Decodes(g, C, t) ==
  /\ g \in [0..Len(t) -> DecoderState(C)] /\ g[0] = [out |-> <<>>, next |-> 1]
  /\ \A i \in 1..Len(t) : g[i] = Substitute(t, g[i - 1], i)

(* A step of the decoder leads to a state of the decoder. *)
LEMMA SubstituteType ==
  ASSUME NEW C, Marks \subseteq C, NEW t \in Seq(C), NEW i \in 1..Len(t), NEW acc \in DecoderState(C)
  PROVE  Substitute(t, acc, i) \in DecoderState(C)
<1>1. acc.out \in Seq(C) /\ acc.next \in Nat
  BY DEF DecoderState
<1>2. t[i] \in C /\ i \in Nat
  <2>1. t[i] \in C /\ Len(t) \in Nat
    OBVIOUS
  <2>2. i \in Nat
    BY <2>1
  <2> QED BY <2>1, <2>2
<1>3. ASSUME NEW c \in C, NEW n \in Nat
      PROVE  [out |-> Append(acc.out, c), next |-> n] \in DecoderState(C)
  <2>1. Append(acc.out, c) \in Seq(C)
    BY <1>1
  <2> QED BY <2>1 DEF DecoderState
<1>4. i + 4 \in Nat /\ i + 1 \in Nat
  <2>1. i \in Nat
    BY <1>2
  <2> QED BY <2>1
<1> DEFINE code == Unescaped(CodeAt(t, i))
<1>5. code \in C
  <2>1. " " \in C /\ "tab" \in C /\ "newline" \in C /\ "\\" \in C
    BY DEF Marks, Special
  <2> QED BY <2>1, Zenon DEF Unescaped
<1>6. [out |-> Append(acc.out, code), next |-> i + 4] \in DecoderState(C)
  <2> HIDE DEF code
  <2> QED BY <1>3, <1>4, <1>5
<1>7. [out |-> Append(acc.out, t[i]), next |-> i + 1] \in DecoderState(C)
  BY <1>2, <1>3, <1>4
<1>8. \/ Substitute(t, acc, i) = acc
      \/ Substitute(t, acc, i) = [out |-> Append(acc.out, code), next |-> i + 4]
      \/ Substitute(t, acc, i) = [out |-> Append(acc.out, t[i]), next |-> i + 1]
  <2> DEFINE escape == t[i] = "\\" /\ CodeAt(t, i) \in Codes
  <2>1. CASE i < acc.next
    BY <2>1, Zenon DEF Substitute
  <2>2. CASE ~(i < acc.next) /\ escape
    BY <2>2, Zenon DEF Substitute
  <2>3. CASE ~(i < acc.next) /\ ~escape
    BY <2>3, Zenon DEF Substitute
  <2> HIDE DEF escape, code
  <2> QED BY <2>1, <2>2, <2>3, Zenon
<1> QED BY <1>6, <1>7, <1>8, Zenon

(* Decode substitutes position by position. *)
LEMMA DecodeFollows ==
  ASSUME NEW C, Marks \subseteq C, NEW t \in Seq(C)
  PROVE  \E g : Decodes(g, C, t) /\ Decode(t) = g[Len(t)].out
<1> DEFINE N == Len(t)
           T == DecoderState(C)
           a == [out |-> <<>>, next |-> 1]
           Rec(g) == [i \in 0..N |-> IF i = 0 THEN a ELSE Substitute(t, g[i - 1], i)]
           upto == CHOOSE g : g = Rec(g)
           G == [i \in 1..N |-> [u \in T |-> Substitute(t, u, i)]]
<1>1. Decode(t) = upto[N].out
  BY Zenon DEF Decode
<1>2. N \in Nat /\ a \in T
  <2>1. <<>> \in Seq(C) /\ 1 \in Nat
    OBVIOUS
  <2> QED BY <2>1 DEF DecoderState
<1>3. G \in [1..N -> [T -> T]]
  <2>1. \A i \in 1..N : \A u \in T : Substitute(t, u, i) \in T
    BY SubstituteType
  <2> HIDE DEF N, T
  <2> QED BY <2>1
<1>4. PICK g : Follows(g, T, N, a, G)
  <2> HIDE DEF G, N, T, a
  <2> QED BY <1>2, <1>3, FollowsExists
<1> HIDE DEF N, T, a
<1>5. g \in [0..N -> T] /\ g[0] = a /\ \A i \in 1..N : g[i] = Substitute(t, g[i - 1], i)
  <2> SUFFICES ASSUME NEW i \in 1..N PROVE g[i] = Substitute(t, g[i - 1], i)
    BY <1>4, Zenon DEF Follows
  <2>1. i - 1 \in 0..N
    BY <1>2
  <2> HIDE DEF G
  <2>2. g[i - 1] \in T /\ g[i] = G[i][g[i - 1]]
    BY <1>4, <2>1 DEF Follows
  <2>3. \A u \in T : G[i][u] = Substitute(t, u, i)
    BY DEF G
  <2> QED BY <2>2, <2>3
<1>6. g = Rec(g)
  <2>1. g = [i \in 0..N |-> g[i]]
    BY <1>5
  <2>2. \A i \in 0..N : i # 0 => i \in 1..N
    BY <1>2
  <2>3. \A i \in 0..N : g[i] = IF i = 0 THEN a ELSE Substitute(t, g[i - 1], i)
    BY <1>5, <2>2, Zenon
  <2> QED BY <2>1, <2>3, Zenon
<1>7. ASSUME NEW h, h = Rec(h) PROVE h = g
  <2>1. Table(h, N) /\ Table(g, N)
    <3>1. \A i \in 0..N : h[i] = IF i = 0 THEN a ELSE Substitute(t, h[i - 1], i)
      BY <1>7, Zenon
    <3>2. h = [i \in 0..N |-> h[i]]
      BY <1>7, <3>1, Zenon
    <3> QED BY <1>5, <3>2 DEF Table
  <2>2. h[0] = g[0]
    <3>1. 0 \in 0..N
      BY <1>2
    <3>2. h[0] = Rec(h)[0]
      BY <1>7
    <3> QED BY <1>5, <3>1, <3>2
  <2>3. \A i \in 1..N : h[i - 1] = g[i - 1] => h[i] = g[i]
    <3> SUFFICES ASSUME NEW i \in 1..N, h[i - 1] = g[i - 1] PROVE h[i] = g[i]
      OBVIOUS
    <3>1. i \in 0..N /\ i # 0
      BY <1>2
    <3>2. h[i] = Rec(h)[i]
      BY <1>7
    <3>3. Rec(h)[i] = Substitute(t, h[i - 1], i)
      BY <3>1, Zenon
    <3> QED BY <1>5, <3>2, <3>3, Zenon
  <2> HIDE DEF Rec, G
  <2> QED BY <1>2, <2>1, <2>2, <2>3, Agree
<1>8. upto = g
  <2> HIDE DEF Rec
  <2> QED BY <1>6, <1>7
<1>9. Decodes(g, C, t)
  BY <1>5, Zenon DEF Decodes, N, T, a
<1> HIDE DEF Rec, G, upto
<1> QED BY <1>1, <1>8, <1>9, Zenon DEF N

(* An escape is taken as one character, and the next one starts behind it. *)
AtNext(g, b) == g[b].next = b + 1

Chunk(t, b, c, k) == (Plain(t, b, c) /\ k = 1) \/ (Escape(t, b, c) /\ k = 4)

Takes(t, g, b, k, c) ==
  b + k <= Len(t) /\ g[b + k].out = Append(g[b].out, c) /\ AtNext(g, b + k)

(* A character or an escape is taken as one character. *)
LEMMA Taken ==
  ASSUME NEW C, NEW t \in Seq(C), NEW g, Decodes(g, C, t), NEW b \in Nat, NEW c,
         AtNext(g, b), NEW k, Chunk(t, b, c, k)
  PROVE  Takes(t, g, b, k, c)
<1>0. Len(t) \in Nat
  OBVIOUS
<1>1. Len(t) \in Nat /\ \A i \in 1..Len(t) : g[i] = Substitute(t, g[i - 1], i)
  BY <1>0, Zenon DEF Decodes
<1>4. g[b].next = b + 1
  BY Zenon DEF AtNext
<1>2. CASE Plain(t, b, c) /\ k = 1
  <2>1. b + 1 <= Len(t)
    BY <1>2, Zenon DEF Plain
  <2>2. b + 1 \in 1..Len(t) /\ (b + 1) - 1 = b
    BY <1>1, <2>1
  <2>3. g[b + 1] = Substitute(t, g[b], b + 1)
    BY <1>1, <2>2, Zenon
  <2>4. g[b + 1] = [out |-> Append(g[b].out, c), next |-> b + 2]
    <3>1. ~(b + 1 < g[b].next) /\ (b + 1) + 1 = b + 2
      BY <1>4
    <3>2. t[b + 1] = c /\ c # "\\"
      BY <1>2, Zenon DEF Plain
    <3> QED BY <2>3, <3>1, <3>2, Zenon DEF Substitute
  <2>5. g[b + 1].next = b + 2 /\ g[b + 1].out = Append(g[b].out, c)
    BY <2>4
  <2>6. (b + 1) + 1 = b + 2
    OBVIOUS
  <2> QED BY <1>2, <2>1, <2>5, <2>6, Zenon DEF Takes, AtNext
<1>3. CASE Escape(t, b, c) /\ k = 4
  <2>1. b + 4 <= Len(t)
    BY <1>3, Zenon DEF Escape
  <2>2. /\ b + 1 \in 1..Len(t) /\ (b + 1) - 1 = b
        /\ b + 2 \in 1..Len(t) /\ (b + 2) - 1 = b + 1
        /\ b + 3 \in 1..Len(t) /\ (b + 3) - 1 = b + 2
        /\ b + 4 \in 1..Len(t) /\ (b + 4) - 1 = b + 3
    BY <1>1, <2>1
  <2>3. /\ g[b + 1] = Substitute(t, g[b], b + 1)
        /\ g[b + 2] = Substitute(t, g[b + 1], b + 2)
        /\ g[b + 3] = Substitute(t, g[b + 2], b + 3)
        /\ g[b + 4] = Substitute(t, g[b + 3], b + 4)
    BY <1>1, <2>2, Zenon
  <2>4. g[b + 1] = [out |-> Append(g[b].out, c), next |-> b + 5]
    <3>1. ~(b + 1 < g[b].next) /\ (b + 1) + 4 = b + 5
      BY <1>4
    <3>2. /\ t[b + 1] = "\\" /\ CodeAt(t, b + 1) \in Codes
          /\ c = Unescaped(CodeAt(t, b + 1))
      BY <1>3, Zenon DEF Escape
    <3> QED BY <2>3, <3>1, <3>2, Zenon DEF Substitute
  <2>5. g[b + 1].next = b + 5 /\ g[b + 1].out = Append(g[b].out, c)
    BY <2>4
  <2>6. b + 2 < b + 5 /\ b + 3 < b + 5 /\ b + 4 < b + 5 /\ (b + 4) + 1 = b + 5
    OBVIOUS
  <2>7. g[b + 2] = g[b + 1]
    <3>1. b + 2 < g[b + 1].next
      BY <2>5, <2>6, Zenon
    <3> QED BY <2>3, <3>1, Zenon DEF Substitute
  <2>8. g[b + 3] = g[b + 1]
    <3>1. b + 3 < g[b + 2].next
      BY <2>5, <2>6, <2>7, Zenon
    <3> QED BY <2>3, <2>7, <3>1, Zenon DEF Substitute
  <2>9. g[b + 4] = g[b + 1]
    <3>1. b + 4 < g[b + 3].next
      BY <2>5, <2>6, <2>8, Zenon
    <3> QED BY <2>3, <2>8, <3>1, Zenon DEF Substitute
  <2> QED BY <1>3, <2>1, <2>5, <2>6, <2>9, Zenon DEF Takes, AtNext
<1> QED BY <1>2, <1>3, Zenon DEF Chunk

(* The text holds the escaped characters one after the other. *)
Written(f, path, t) ==
  \A n \in 1..Len(path) :
    /\ Len(f[n - 1]) \in Nat
    /\ Holds(t, Len(f[n - 1]), Escaped(path[n]))
    /\ Len(f[n]) = Len(f[n - 1]) + Len(Escaped(path[n]))

(* Each character of the path is written where the previous one ends. *)
LEMMA EncodedNext ==
  ASSUME NEW C, Marks \subseteq C, NEW path \in Seq(C), NEW f, Encodes(f, C, path)
  PROVE  f[Len(path)] \in Seq(C) /\ Written(f, path, f[Len(path)])
<1> DEFINE N == Len(path)
           t == f[N]
<1>1. N \in Nat
  OBVIOUS
<1>2. /\ f \in [0..N -> Seq(C)]
      /\ \A n \in 1..N : f[n] = f[n - 1] \o Escaped(path[n])
  BY Zenon DEF Encodes
<1>3. \A n \in 1..N : Escaped(path[n]) \in Seq(C)
  <2>1. \A n \in 1..N : path[n] \in C
    OBVIOUS
  <2> QED BY <2>1, EscapedSeq
<1>4. \A n \in 0..N : Starts(f[n], t)
  BY EncodedPrefix
<1>5. t \in Seq(C)
  <2>1. N \in 0..N
    BY <1>1
  <2> HIDE DEF N
  <2> QED BY <1>2, <2>1
<1> HIDE DEF t, N
<1>6. ASSUME NEW n \in 1..N
      PROVE  /\ Len(f[n - 1]) \in Nat /\ Holds(t, Len(f[n - 1]), Escaped(path[n]))
             /\ Len(f[n]) = Len(f[n - 1]) + Len(Escaped(path[n]))
  <2> DEFINE r == f[n - 1]
             x == Escaped(path[n])
             s == f[n]
  <2>1. n \in 0..N /\ n - 1 \in 0..N
    BY <1>1
  <2>2. r \in Seq(C) /\ x \in Seq(C) /\ s = r \o x /\ Starts(s, t)
    BY <1>2, <1>3, <1>4, <2>1
  <2> HIDE DEF r, x, s
  <2>3. /\ Len(r \o x) = Len(r) + Len(x)
        /\ \A i \in 1..Len(x) : (r \o x)[Len(r) + i] = x[i]
    BY <2>2, Joined
  <2>4. /\ Len(s) = Len(r) + Len(x)
        /\ \A i \in 1..Len(x) : s[Len(r) + i] = x[i]
    BY <2>2, <2>3, Zenon
  <2>5. Len(s) <= Len(t) /\ \A i \in 1..Len(s) : t[i] = s[i]
    BY <2>2, Zenon DEF Starts
  <2>6. Len(r) \in Nat /\ Len(x) \in Nat
    BY <2>2
  <2>7. \A i \in 1..Len(x) : Len(r) + i \in 1..Len(s)
    BY <2>4, <2>6
  <2>8. \A i \in 1..Len(x) : t[Len(r) + i] = x[i]
    BY <2>4, <2>5, <2>7, Zenon
  <2>9. Holds(t, Len(r), x)
    BY <2>4, <2>5, <2>8, Zenon DEF Holds
  <2> QED BY <2>4, <2>6, <2>9 DEF r, x, s
<1> QED BY <1>5, <1>6, Zenon DEF Written, t, N

(* No backslash of an encoded path begins anything but an escape. *)
LEMMA EscapesValid ==
  ASSUME NEW C, Marks \subseteq C, NEW path \in Seq(C)
  PROVE  ~InvalidEscape(Encode(path))
<1> DEFINE N == Len(path)
           t == Encode(path)
<1>1. PICK f : Encodes(f, C, path) /\ t = f[N]
  BY EncodeFollows
<1>2. N \in Nat
  OBVIOUS
<1>3. /\ t \in Seq(C)
      /\ \A n \in 1..N : /\ Len(f[n - 1]) \in Nat
                         /\ Holds(t, Len(f[n - 1]), Escaped(path[n]))
                         /\ Len(f[n]) = Len(f[n - 1]) + Len(Escaped(path[n]))
  <2>1. t \in Seq(C) /\ Written(f, path, t)
    BY <1>1, EncodedNext, Zenon
  <2> QED BY <2>1, Zenon DEF Written
<1>4. Len(f[0]) = 0
  <2>1. f[0] = <<>>
    BY <1>1, Zenon DEF Encodes
  <2> QED BY <2>1
<1>5. Len(t) \in Nat /\ t \in Seq(C)
  <2>1. t \in Seq(C)
    BY <1>3
  <2> HIDE DEF t
  <2> QED BY <2>1
<1> HIDE DEF N, t
<1> DEFINE E == {n \in 0..N : \A i \in 1..Len(f[n]) : t[i] = "\\" => CodeAt(t, i) \in Codes}
<1>6. 0 \in E
  <2>1. 0 \in 0..N /\ \A i \in 1..0 : FALSE
    BY <1>2
  <2>2. \A i \in 1..Len(f[0]) : FALSE
    BY <1>4, <2>1, Zenon
  <2> QED BY <2>1, <2>2, Zenon
<1>7. \A n \in 0..N : n # N /\ n \in E => n + 1 \in E
  <2> SUFFICES ASSUME NEW n \in 0..N, n # N, n \in E PROVE n + 1 \in E
    OBVIOUS
  <2> DEFINE b == Len(f[n])
             c == path[n + 1]
             k == Len(Escaped(c))
  <2>1. n + 1 \in 1..N /\ n + 1 \in 0..N /\ (n + 1) - 1 = n
    BY <1>2
  <2>2. b \in Nat /\ Holds(t, b, Escaped(c)) /\ Len(f[n + 1]) = b + k
    BY <1>3, <2>1, Zenon
  <2>3. \A i \in 1..b : t[i] = "\\" => CodeAt(t, i) \in Codes
    OBVIOUS
  <2> HIDE DEF b, c, k, E
  <2>4. (Plain(t, b, c) /\ k = 1) \/ (Escape(t, b, c) /\ k = 4)
    <3>1. t \in Seq(C)
      BY <1>5
    <3> QED BY <2>2, <3>1, NextIs, Zenon DEF k
  <2>5. ASSUME NEW i \in 1..(b + k), t[i] = "\\" PROVE CodeAt(t, i) \in Codes
    <3>1. CASE i <= b
      <4>1. i \in 1..b
        BY <2>2, <2>4, <3>1
      <4> QED BY <2>3, <2>5, <4>1
    <3>2. CASE ~(i <= b) /\ Plain(t, b, c) /\ k = 1
      <4>1. i = b + 1
        BY <2>2, <3>2
      <4>2. t[i] # "\\"
        BY <3>2, <4>1, Zenon DEF Plain
      <4> QED BY <2>5, <4>2
    <3>3. CASE ~(i <= b) /\ Escape(t, b, c) /\ k = 4
      <4>1. i = b + 1 \/ i = b + 2 \/ i = b + 3 \/ i = b + 4
        BY <2>2, <3>3
      <4>2. i = b + 1
        BY <2>5, <3>3, <4>1, Zenon DEF Escape
      <4> QED BY <3>3, <4>2, Zenon DEF Escape
    <3> QED BY <2>4, <3>1, <3>2, <3>3, Zenon
  <2>6. \A i \in 1..Len(f[n + 1]) : t[i] = "\\" => CodeAt(t, i) \in Codes
    BY <2>2, <2>5, Zenon
  <2> QED BY <2>1, <2>6, Zenon DEF E
<1>8. N \in E
  <2> HIDE DEF E
  <2>1. 0..N \subseteq E
    BY <1>2, <1>6, <1>7, Upward
  <2>2. N \in 0..N
    BY <1>2
  <2> QED BY <2>1, <2>2
<1>9. \A i \in 1..Len(t) : t[i] = "\\" => CodeAt(t, i) \in Codes
  BY <1>1, <1>8, Zenon
<1>10. DOMAIN t = 1..Len(t)
  BY <1>5
<1>11. ~InvalidEscape(t)
  BY <1>9, <1>10, Zenon DEF InvalidEscape
<1> QED BY <1>11 DEF t

(* At the end of each encoded character the decoder has the path up to it. *)
LEMMA DecodeEncode ==
  ASSUME NEW C, Marks \subseteq C, NEW path \in Seq(C)
  PROVE  Decode(Encode(path)) = path
<1> DEFINE N == Len(path)
           t == Encode(path)
<1>1. PICK f : Encodes(f, C, path) /\ t = f[N]
  BY EncodeFollows
<1>2. N \in Nat
  OBVIOUS
<1>3. /\ t \in Seq(C)
      /\ \A n \in 1..N : /\ Len(f[n - 1]) \in Nat
                         /\ Holds(t, Len(f[n - 1]), Escaped(path[n]))
                         /\ Len(f[n]) = Len(f[n - 1]) + Len(Escaped(path[n]))
  <2>1. t \in Seq(C) /\ Written(f, path, t)
    BY <1>1, EncodedNext, Zenon
  <2> QED BY <2>1, Zenon DEF Written
<1>4. Len(f[0]) = 0
  <2>1. f[0] = <<>>
    BY <1>1, Zenon DEF Encodes
  <2> QED BY <2>1
<1>5. \A n \in 1..N : path[n] \in C
  OBVIOUS
<1>6. path = [n \in 1..N |-> path[n]]
  OBVIOUS
<1> HIDE DEF t
<1>7. t \in Seq(C)
  BY <1>3
<1>8. PICK g : Decodes(g, C, t) /\ Decode(t) = g[Len(t)].out
  BY <1>7, DecodeFollows
<1>9. g[0].out = <<>> /\ g[0].next = 1
  <2>1. g[0] = [out |-> <<>>, next |-> 1]
    BY <1>8, Zenon DEF Decodes
  <2> QED BY <2>1
<1> HIDE DEF N
<1> DEFINE At(n) == g[Len(f[n])]
           Reached(n) == /\ At(n).next = Len(f[n]) + 1
                         /\ At(n).out \in Seq(C) /\ Len(At(n).out) = n
                         /\ \A i \in 1..n : At(n).out[i] = path[i]
           E == {n \in 0..N : Reached(n)}
<1>10. 0 \in E
  <2>1. 0 \in 0..N /\ (\A i \in 1..0 : FALSE) /\ 0 + 1 = 1
    BY <1>2
  <2>2. At(0).next = 1 /\ At(0).out = <<>>
    BY <1>4, <1>9, Zenon
  <2>3. <<>> \in Seq(C) /\ Len(<<>>) = 0
    OBVIOUS
  <2>4. At(0).next = Len(f[0]) + 1
    BY <1>4, <2>1, <2>2, Zenon
  <2>5. At(0).out \in Seq(C) /\ Len(At(0).out) = 0
    BY <2>2, <2>3, Zenon
  <2> HIDE DEF At
  <2>6. Reached(0)
    BY <2>1, <2>4, <2>5, Zenon
  <2> QED BY <2>1, <2>6, Zenon
<1>11. \A n \in 0..N : n # N /\ n \in E => n + 1 \in E
  <2> SUFFICES ASSUME NEW n \in 0..N, n # N, n \in E PROVE n + 1 \in E
    OBVIOUS
  <2> DEFINE b == Len(f[n])
             c == path[n + 1]
             k == Len(Escaped(c))
             o == g[b].out
  <2>1. n + 1 \in 1..N /\ n + 1 \in 0..N /\ (n + 1) - 1 = n /\ n \in Nat
    BY <1>2
  <2>2. b \in Nat /\ Holds(t, b, Escaped(c)) /\ Len(f[n + 1]) = b + k
    BY <1>3, <2>1, Zenon
  <2>3. Reached(n)
    BY Zenon
  <2>4. g[b].next = b + 1 /\ o \in Seq(C) /\ Len(o) = n /\ \A i \in 1..n : o[i] = path[i]
    BY <2>3, Zenon
  <2>5. c \in C
    BY <1>5, <2>1
  <2> HIDE DEF k
  <2>6. (Plain(t, b, c) /\ k = 1) \/ (Escape(t, b, c) /\ k = 4)
    <3> HIDE DEF b, c
    <3> QED BY <1>7, <2>2, NextIs, Zenon DEF k
  <2>7. g[b + k].out = Append(o, c) /\ g[b + k].next = (b + k) + 1
    <3>1. Decodes(g, C, t)
      BY <1>8
    <3>2. g[b].next = b + 1 /\ b \in Nat
      BY <2>2, <2>4
    <3>3. Chunk(t, b, c, k)
      BY <2>6, Zenon DEF Chunk
    <3> HIDE DEF b, c, o
    <3>4. AtNext(g, b)
      BY <3>2, Zenon DEF AtNext
    <3>5. Takes(t, g, b, k, c)
      BY <1>7, <3>1, <3>2, <3>3, <3>4, Taken
    <3> QED BY <3>5, Zenon DEF Takes, AtNext, o
  <2> DEFINE p == Append(o, c)
  <2> HIDE DEF o, c
  <2>8. p \in Seq(C) /\ Len(p) = n + 1 /\ p[n + 1] = c /\ \A i \in 1..n : p[i] = o[i]
    <3>1. o \in Seq(C) /\ Len(o) = n
      BY <2>4
    <3>2. p \in Seq(C)
      BY <2>5, <3>1
    <3>3. Len(p) = n + 1
      BY <2>5, <3>1
    <3>4. p[n + 1] = c
      BY <2>5, <3>1
    <3>5. \A i \in 1..n : p[i] = o[i]
      BY <2>1, <2>5, <3>1
    <3> HIDE DEF p
    <3> QED BY <3>2, <3>3, <3>4, <3>5
  <2> HIDE DEF p
  <2>9. ASSUME NEW i \in 1..(n + 1) PROVE p[i] = path[i]
    <3>1. CASE i = n + 1
      BY <2>8, <3>1 DEF c
    <3>2. CASE i # n + 1
      <4>1. i \in 1..n
        BY <2>1, <3>2
      <4> QED BY <2>4, <2>8, <4>1, Zenon
    <3> QED BY <3>1, <3>2
  <2>10. At(n + 1) = g[b + k]
    BY <2>2, Zenon
  <2>11. At(n + 1).out = p /\ At(n + 1).next = Len(f[n + 1]) + 1
    <3>1. g[b + k].out = p
      BY <2>7 DEF p
    <3> QED BY <2>2, <2>7, <2>10, <3>1, Zenon
  <2> HIDE DEF At
  <2>12. Reached(n + 1)
    BY <2>8, <2>9, <2>11, Zenon
  <2> QED BY <2>1, <2>12, Zenon
<1>12. N \in E
  <2> HIDE DEF E
  <2>1. 0..N \subseteq E
    BY <1>2, <1>10, <1>11, Upward
  <2>2. N \in 0..N
    BY <1>2
  <2> QED BY <2>1, <2>2
<1> DEFINE o == Decode(t)
<1>13. o = At(N).out
  BY <1>1, <1>8, Zenon
<1>14. o \in Seq(C) /\ Len(o) = N /\ \A i \in 1..N : o[i] = path[i]
  BY <1>12, <1>13, Zenon
<1> HIDE DEF o
<1>15. o = [i \in 1..N |-> o[i]]
  <2>1. o \in Seq(C) /\ Len(o) = N
    BY <1>14
  <2> QED BY <2>1
<1>16. o = path
  BY <1>6, <1>14, <1>15, Zenon
<1> QED BY <1>16 DEF o, t

(* The mount paths *)
LEMMA PathCase ==
  ASSUME TextInv
  PROVE  PathRoundTrip
<1> SUFFICES ASSUME result # <<>>, input.key = "path" PROVE PathRoundTrip
  BY DEF PathRoundTrip, Done
<1>1. Result = DecodePath(Encode(Lines)) /\ \E S : Lines \in Seq(S)
  BY ResultIs, InputIs, ParserOf
<1>2. PICK S : Lines \in Seq(S)
  BY <1>1
<1> DEFINE C == S \cup Marks
<1>3. Marks \subseteq C /\ S \subseteq C
  OBVIOUS
<1> HIDE DEF C
<1>4. Lines \in Seq(C)
  BY <1>2, <1>3
<1>5. Decode(Encode(Lines)) = Lines
  BY <1>3, <1>4, DecodeEncode
<1>6. ~InvalidEscape(Encode(Lines))
  BY <1>3, <1>4, EscapesValid
<1>7. DecodePath(Encode(Lines)) = Lines
  BY <1>5, <1>6, Zenon DEF DecodePath
<1>8. Lines = input.text
  BY Zenon DEF Lines
<1> QED BY <1>1, <1>7, <1>8, Zenon DEF PathRoundTrip

-----------------------------------------------------------------------------
(* What the parsers of the metadata files accept has no second reading: the  *)
(* membership is the only line (parse_v2_membership), a mount path decodes to*)
(* the path the kernel encoded (_decode_mount_path), the mount is the deepest*)
(* of those that lead to the membership (_select_cgroup2_mount), and the     *)
(* start time of a process is found whatever its command holds               *)
(* (_parse_process_stat); for texts of any length.                           *)
THEOREM MetadataTheorem == Spec => []MetadataUnambiguous
<1>1. TextInv => MetadataUnambiguous
  BY MembershipCase, PathCase, SelectionCase, StatCase DEF MetadataUnambiguous
<1> QED BY <1>1, AlwaysText, PTL

=============================================================================
