-------------------------- MODULE StatsPoller_proofs --------------------------
(***************************************************************************)
(* The statistics a poll prints never run backwards, and every number of a *)
(* reading is one its counter had while it was read.                       *)
(*                                                                         *)
(* A reading is a sum over the CPUs, taken word by word while the CPUs go  *)
(* on counting.  What has been read of a sum is at most the sum of the     *)
(* same CPUs now, and together with what the others count now it is at     *)
(* least the sum when the reading began; both survive a counter's growth.  *)
(***************************************************************************)
EXTENDS StatsPoller, WellFoundedInduction, TLAPS

-----------------------------------------------------------------------------
(* Induction over the naturals, as the principle of the least element.     *)
LEMMA Least ==
  ASSUME NEW T \in SUBSET Nat, T # {}
  PROVE  \E x \in T : \A y \in T : x <= y
<1> DEFINE R == OpToRel(<, Nat)
<1>1. IsWellFoundedOn(R, Nat)  BY NatLessThanWellFounded
<1>2. \A x, y \in Nat : y < x => <<y, x>> \in R  BY DEF OpToRel
<1> HIDE DEF R
<1>3. \E x \in T : \A y \in T : ~ (<<y, x>> \in R)  BY <1>1, WFMin
<1>4. \E x \in T : \A y \in T : ~ (y < x)  BY <1>2, <1>3, Zenon
<1> QED  BY <1>4, SMT

(* What holds at 0 and passes from each number below n to the next one     *)
(* holds up to n.  S is the set of numbers for which it holds.             *)
LEMMA UpTo ==
  ASSUME NEW n \in Nat, NEW S,
         0 \in S, \A m \in 0..(n - 1) : m \in S => m + 1 \in S
  PROVE  \A m \in 0..n : m \in S
<1> DEFINE T == {m \in 0..n : m \notin S}
<1> SUFFICES ASSUME T # {}  PROVE FALSE
  OBVIOUS
<1>1. T \in SUBSET Nat  OBVIOUS
<1>2. PICK x \in T : \A y \in T : x <= y  BY <1>1, Least
<1>3. x \in 1..n  OBVIOUS
<1>4. x - 1 \in 0..(n - 1) /\ x - 1 \notin T  BY <1>2, <1>3
<1>5. x - 1 \in S  BY <1>4
<1> QED  BY <1>3, <1>4, <1>5

(* SumTo is what its recursive definition says.                            *)
Partial(g, f, m) == g = [n \in 0..m |-> IF n = 0 THEN 0 ELSE g[n - 1] + f[n - 1]]

LEMMA SumToDef ==
  ASSUME NEW f
  PROVE  SumTo(f) = [n \in 0..NumCpus |-> IF n = 0 THEN 0
                                          ELSE SumTo(f)[n - 1] + f[n - 1]]
<1> DEFINE S == {m \in 0..NumCpus : \E g : Partial(g, f, m)}
<1>1. 0 \in S
  <2> DEFINE g == [n \in 0..0 |-> 0]
  <2>1. g = [n \in 0..0 |-> IF n = 0 THEN 0 ELSE g[n - 1] + f[n - 1]]  OBVIOUS
  <2>2. Partial(g, f, 0)  BY <2>1 DEF Partial
  <2> HIDE DEF g
  <2> QED  BY <2>2, StatsAssumption
<1>2. ASSUME NEW m \in 0..(NumCpus - 1), m \in S  PROVE m + 1 \in S
  <2>1. PICK g : Partial(g, f, m)  BY <1>2
  <2> DEFINE h == [n \in 0..(m + 1) |-> IF n = m + 1 THEN g[m] + f[m] ELSE g[n]]
  <2>2. \A n \in 0..m : g[n] = IF n = 0 THEN 0 ELSE g[n - 1] + f[n - 1]
    BY <2>1 DEF Partial
  <2>3. ASSUME NEW n \in 0..(m + 1)
        PROVE  h[n] = IF n = 0 THEN 0 ELSE h[n - 1] + f[n - 1]
    <3>1. CASE n = m + 1  BY <3>1, StatsAssumption
    <3>2. CASE n \in 0..m  BY <3>2, <2>2, StatsAssumption
    <3> QED  BY <3>1, <3>2, StatsAssumption
  <2>4. h = [n \in 0..(m + 1) |-> IF n = 0 THEN 0 ELSE h[n - 1] + f[n - 1]]
    <3> HIDE DEF h
    <3>1. DOMAIN h = 0..(m + 1) /\ h = [n \in 0..(m + 1) |-> h[n]]  BY DEF h
    <3> QED  BY <2>3, <3>1, Zenon
  <2> HIDE DEF h
  <2> QED  BY <2>4, StatsAssumption DEF Partial
<1> HIDE DEF S
<1>3. NumCpus \in S  BY <1>1, <1>2, UpTo, StatsAssumption
<1>4. \E g : Partial(g, f, NumCpus)  BY <1>3 DEF S
<1> QED  BY <1>4 DEF Partial, SumTo

LEMMA SumToSteps ==
  ASSUME NEW f \in [CPUs -> Nat]
  PROVE  /\ SumTo(f)[0] = 0
         /\ \A n \in 0..NumCpus : SumTo(f)[n] \in Nat
         /\ \A n \in CPUs : SumTo(f)[n + 1] = SumTo(f)[n] + f[n]
<1> DEFINE s == SumTo(f)
           S == {n \in 0..NumCpus : s[n] \in Nat}
<1>1. \A n \in 0..NumCpus : s[n] = IF n = 0 THEN 0 ELSE s[n - 1] + f[n - 1]
  BY SumToDef
<1> HIDE DEF s
<1>2. \A n \in CPUs : s[n + 1] = s[n] + f[n]  BY <1>1, StatsAssumption DEF CPUs
<1>3. 0 \in S /\ s[0] = 0  BY <1>1, StatsAssumption
<1>4. ASSUME NEW n \in 0..(NumCpus - 1), n \in S  PROVE n + 1 \in S
  BY <1>2, <1>4, StatsAssumption DEF CPUs
<1>5. \A n \in 0..NumCpus : n \in S
  <2> HIDE DEF S
  <2> QED  BY <1>3, <1>4, UpTo, StatsAssumption
<1> QED  BY <1>2, <1>3, <1>5 DEF s

(* When counters grow, so does the sum of the first n and that of the      *)
(* others.                                                                 *)
LEMMA SumToGrows ==
  ASSUME NEW f \in [CPUs -> Nat], NEW g \in [CPUs -> Nat],
         \A c \in CPUs : f[c] <= g[c], NEW n \in 0..NumCpus
  PROVE  /\ SumTo(f)[n] <= SumTo(g)[n]
         /\ SumTo(f)[NumCpus] - SumTo(f)[n] <= SumTo(g)[NumCpus] - SumTo(g)[n]
<1> DEFINE s == SumTo(f)
           t == SumTo(g)
           S == {m \in 0..NumCpus : s[m] <= t[m]}
           T == {m \in 0..NumCpus : s[NumCpus] - s[NumCpus - m] <= t[NumCpus] - t[NumCpus - m]}
<1>1. /\ s[0] = 0 /\ t[0] = 0
      /\ \A m \in 0..NumCpus : s[m] \in Nat /\ t[m] \in Nat
      /\ \A m \in CPUs : s[m + 1] = s[m] + f[m] /\ t[m + 1] = t[m] + g[m]
  BY SumToSteps
<1> HIDE DEF s, t
<1>2. 0 \in S /\ 0 \in T  BY <1>1, StatsAssumption
<1>3. ASSUME NEW m \in 0..(NumCpus - 1), m \in S  PROVE m + 1 \in S
  BY <1>1, <1>3, StatsAssumption DEF CPUs
<1>4. ASSUME NEW m \in 0..(NumCpus - 1), m \in T  PROVE m + 1 \in T
  <2> DEFINE i == NumCpus - (m + 1)
  <2>1. i \in CPUs /\ i + 1 = NumCpus - m  BY StatsAssumption DEF CPUs
  <2>2. /\ s[i + 1] = s[i] + f[i] /\ t[i + 1] = t[i] + g[i] /\ f[i] <= g[i]
        /\ f[i] \in Nat /\ g[i] \in Nat
    BY <1>1, <2>1
  <2>3. i \in 0..NumCpus /\ NumCpus \in 0..NumCpus  BY <2>1, StatsAssumption DEF CPUs
  <2> HIDE DEF i
  <2>4. s[NumCpus] - s[i + 1] <= t[NumCpus] - t[i + 1]  BY <1>4, <2>1
  <2>5. s[NumCpus] - s[i] <= t[NumCpus] - t[i]  BY <1>1, <2>1, <2>2, <2>3, <2>4, StatsAssumption
  <2> QED  BY <2>5, StatsAssumption DEF i
<1> HIDE DEF S, T
<1>5. n \in S /\ NumCpus - n \in T
  <2>1. \A m \in 0..NumCpus : m \in S  BY <1>2, <1>3, UpTo, StatsAssumption
  <2>2. \A m \in 0..NumCpus : m \in T  BY <1>2, <1>4, UpTo, StatsAssumption
  <2> QED  BY <2>1, <2>2, StatsAssumption
<1>6. NumCpus - (NumCpus - n) = n  BY StatsAssumption
<1> QED  BY <1>5, <1>6 DEF S, T, s, t

-----------------------------------------------------------------------------
(* The word read next: its key, its CPU, and packets or bytes.             *)
LEMMA WordParts ==
  ASSUME NEW n \in 0..(Words - 1)
  PROVE  /\ KeyOf(n) \in Keys /\ CpuOf(n) \in CPUs /\ n % 2 \in {0, 1}
         /\ n = (2 * NumCpus) * KeyOf(n) + 2 * CpuOf(n) + (n % 2)
<1> DEFINE N == NumCpus
           q == n \div 2
           k == q \div N
           c == q % N
<1>1. N \in Nat /\ N > 0 /\ n \in Nat /\ NumKeys \in Nat  BY StatsAssumption DEF Words
<1>2. q \in Nat /\ n % 2 \in {0, 1} /\ n = 2 * q + (n % 2)
  <2>1. q \in Nat /\ n % 2 \in {0, 1} /\ n % 2 = n - 2 * q  BY <1>1
  <2> HIDE DEF q
  <2>2. \A r \in {0, 1} : r = n - 2 * q => n = 2 * q + r  BY <1>1, <2>1
  <2> QED  BY <2>1, <2>2
<1>3. k \in Nat /\ c \in 0..(N - 1) /\ q = N * k + c  BY <1>1, <1>2
<1>4. n = (2 * N) * k + (2 * c + (n % 2))  BY <1>1, <1>2, <1>3
<1>5. 2 * c + (n % 2) \in 0..(2 * N - 1)  BY <1>1, <1>2, <1>3
<1>6. n \div (2 * N) = k  BY <1>1, <1>3, <1>4, <1>5
<1>7. k < NumKeys
  <2> SUFFICES ASSUME k >= NumKeys  PROVE FALSE
    BY <1>1, <1>3
  <2>1. (2 * N) * k >= (2 * N) * NumKeys  BY <1>1, <1>3
  <2>2. Words = (2 * N) * NumKeys  BY <1>1 DEF Words
  <2> QED  BY <1>1, <1>2, <1>3, <1>4, <2>1, <2>2
<1> HIDE DEF k, c, q
<1>8. k \in Keys /\ c \in CPUs  BY <1>1, <1>3, <1>7 DEF Keys, CPUs
<1>9. KeyOf(n) = k /\ CpuOf(n) = c  BY <1>6 DEF KeyOf, CpuOf, c, q
<1> QED  BY <1>1, <1>2, <1>3, <1>4, <1>8, <1>9

(* How many CPUs' words of key k (b is 0 for packets, 1 for bytes) are     *)
(* among the first n words.                                                *)
Clamped(d, b) ==
  IF d <= 0 THEN 0
  ELSE IF d >= 2 * NumCpus THEN NumCpus
  ELSE (d + 1 - b) \div 2
Seen(k, b, n) == Clamped(n - (2 * NumCpus) * k, b)

LEMMA SeenBounds ==
  ASSUME NEW k \in Keys, NEW b \in {0, 1}
  PROVE  /\ \A n \in 0..Words : Seen(k, b, n) \in 0..NumCpus
         /\ Seen(k, b, 0) = 0
         /\ Seen(k, b, Words) = NumCpus
<1> DEFINE N == NumCpus
           K == NumKeys
<1>1. N \in Nat /\ N > 0 /\ k \in Nat /\ K \in Nat /\ k <= K - 1
  BY StatsAssumption DEF Keys
<1>2. (2 * N) * k >= 0 /\ (2 * N) * k \in Nat  BY <1>1
<1>3. (2 * N) * k <= (2 * N) * (K - 1)  BY <1>1
<1>4. Words = (2 * N) * (K - 1) + 2 * N /\ Words \in Nat  BY <1>1 DEF Words
<1>5. Words - (2 * N) * k >= 2 * N  BY <1>1, <1>2, <1>3, <1>4
<1> DEFINE x == (2 * N) * k
<1> HIDE DEF N, x
<1>6. x \in Nat /\ Words \in Nat /\ Words - x >= 2 * N  BY <1>2, <1>4, <1>5 DEF x
<1>7. ASSUME NEW n \in 0..Words  PROVE Seen(k, b, n) \in 0..N
  <2> DEFINE d == n - x
  <2>1. d \in Int /\ Seen(k, b, n) = Clamped(d, b)  BY <1>6 DEF Seen, x, N
  <2> HIDE DEF d
  <2>2. 0 < d /\ d < 2 * N => (d + 1 - b) \div 2 \in 0..N  BY <2>1, <1>1
  <2> QED  BY <1>1, <2>1, <2>2 DEF Clamped, N
<1>8. Seen(k, b, 0) = 0
  BY <1>6 DEF Seen, Clamped, x, N
<1>9. Seen(k, b, Words) = N
  BY <1>1, <1>6 DEF Seen, Clamped, x, N
<1> QED  BY <1>7, <1>8, <1>9 DEF N

(* Reading word n moves on by one CPU for its key and its kind, and for no *)
(* other.                                                                  *)
LEMMA SeenStep ==
  ASSUME NEW n \in 0..(Words - 1), NEW k \in Keys, NEW b \in {0, 1}
  PROVE  IF k = KeyOf(n) /\ b = n % 2
         THEN Seen(k, b, n) = CpuOf(n) /\ Seen(k, b, n + 1) = CpuOf(n) + 1
         ELSE Seen(k, b, n + 1) = Seen(k, b, n)
<1> DEFINE N == NumCpus
           j == KeyOf(n)
           c == CpuOf(n)
           r == n % 2
           y == (2 * N) * (j - k)
<1>1. /\ N \in Nat /\ N > 0 /\ k \in Nat /\ j \in Nat /\ c \in 0..(N - 1) /\ r \in {0, 1}
      /\ n = (2 * N) * j + 2 * c + r /\ n \in Nat
  BY WordParts, StatsAssumption DEF Keys, CPUs, Words
<1> HIDE DEF N, j, c, r
<1>2. n - (2 * N) * k = y + 2 * c + r /\ y \in Int  BY <1>1
<1>3. (n + 1) - (2 * N) * k = y + 2 * c + r + 1  BY <1>1, <1>2
<1>4. k < j => y >= 2 * N  BY <1>1
<1>5. k > j => y <= - (2 * N)  BY <1>1
<1>6. k = j => y = 0  BY <1>1
<1> HIDE DEF y
<1>7. Seen(k, b, n) = Clamped(y + 2 * c + r, b)  BY <1>2 DEF Seen, N
<1>8. Seen(k, b, n + 1) = Clamped(y + 2 * c + r + 1, b)  BY <1>3 DEF Seen, N
<1> USE DEF Clamped, N
<1>9. CASE k < j  BY <1>9, <1>1, <1>2, <1>4, <1>7, <1>8 DEF j
<1>10. CASE k > j  BY <1>10, <1>1, <1>2, <1>5, <1>7, <1>8 DEF j
<1>11. CASE k = j /\ b = r
  <2>1. Seen(k, b, n) = c  BY <1>11, <1>1, <1>2, <1>6, <1>7
  <2>2. Seen(k, b, n + 1) = c + 1  BY <1>11, <1>1, <1>2, <1>6, <1>8
  <2> QED  BY <1>11, <2>1, <2>2 DEF j, c, r
<1>12. CASE k = j /\ b # r
  <2>1. CASE r = 0
    <3>1. Seen(k, b, n) = c  BY <1>12, <1>1, <1>2, <1>6, <1>7, <2>1
    <3>2. Seen(k, b, n + 1) = c  BY <1>12, <1>1, <1>2, <1>6, <1>8, <2>1
    <3> QED  BY <1>12, <3>1, <3>2 DEF r
  <2>2. CASE r = 1
    <3>1. Seen(k, b, n) = c + 1  BY <1>12, <1>1, <1>2, <1>6, <1>7, <2>2
    <3>2. Seen(k, b, n + 1) = c + 1  BY <1>12, <1>1, <1>2, <1>6, <1>8, <2>2
    <3> QED  BY <1>12, <3>1, <3>2 DEF r
  <2> QED  BY <1>1, <2>1, <2>2
<1> QED  BY <1>1, <1>9, <1>10, <1>11, <1>12

-----------------------------------------------------------------------------
Rec == [packets : Nat, bytes : Nat]
Types ==
  /\ maps \in 0..MaxMaps
  /\ count \in [1..MaxMaps -> [Keys -> [CPUs -> Rec]]]
  /\ attached \in 0..maps /\ pinned \in 0..maps
  /\ pending \in [CPUs -> {NoRec} \cup ((1..MaxMaps) \X Keys)]
  /\ ppc \in {"start", "first", "loop", "collect", "exit"}
  /\ fd \in 0..MaxMaps /\ id \in 0..MaxMaps /\ next \in 0..Words
  /\ low \in [Keys -> Rec] /\ prev \in [Keys -> Rec] /\ record \in [Keys -> Rec]

(* What has been read of the counters f, r of their first i, lies between  *)
(* the sum l at the start of the reading and the sum now.                  *)
Window(r, l, f, i) ==
  /\ r <= SumTo(f)[i]
  /\ l <= r + (SumTo(f)[NumCpus] - SumTo(f)[i])

ReadingInv ==
  ppc \in {"first", "collect"} =>
    /\ fd \in 1..MaxMaps /\ id = fd
    /\ \A k \in Keys :
         /\ Window(record[k].packets, low[k].packets, PacketsOf(fd, k), Seen(k, 0, next))
         /\ Window(record[k].bytes, low[k].bytes, BytesOf(fd, k), Seen(k, 1, next))

(* The earlier reading is not above what the map held when the later one   *)
(* began, because the map is the same.                                     *)
DeltaInv ==
  /\ ppc = "collect" => \A k \in Keys : /\ prev[k].packets <= low[k].packets
                                        /\ prev[k].bytes <= low[k].bytes
  /\ ppc = "loop" => /\ id \in 1..MaxMaps
                     /\ \A k \in Keys : /\ record[k].packets <= Sum(PacketsOf(id, k))
                                         /\ record[k].bytes <= Sum(BytesOf(id, k))

StatsInv == Types /\ ReadingInv /\ DeltaInv

LEMMA CellTypes ==
  ASSUME Types, NEW m \in 1..MaxMaps, NEW k \in Keys, NEW c \in CPUs
  PROVE  /\ count[m][k][c] \in Rec
         /\ count[m][k][c].packets \in Nat /\ count[m][k][c].bytes \in Nat
<1>1. count[m] \in [Keys -> [CPUs -> Rec]]  BY DEF Types
<1>2. count[m][k] \in [CPUs -> Rec]  BY <1>1
<1>3. count[m][k][c] \in Rec  BY <1>2
<1> QED  BY <1>3 DEF Rec

LEMMA CountTypes ==
  ASSUME Types, NEW m \in 1..MaxMaps, NEW k \in Keys
  PROVE  PacketsOf(m, k) \in [CPUs -> Nat] /\ BytesOf(m, k) \in [CPUs -> Nat]
BY CellTypes DEF PacketsOf, BytesOf

LEMMA SumTypes ==
  ASSUME Types, NEW m \in 1..MaxMaps
  PROVE  Counted(m) \in [Keys -> Rec]
<1>1. \A k \in Keys : Sum(PacketsOf(m, k)) \in Nat /\ Sum(BytesOf(m, k)) \in Nat
  BY CountTypes, SumToSteps, StatsAssumption DEF Sum
<1> QED  BY <1>1 DEF Counted, Rec

LEMMA InitInv == Init => StatsInv
<1> SUFFICES ASSUME Init  PROVE StatsInv
  OBVIOUS
<1> USE StatsAssumption
<1>1. Zero \in Rec /\ ZeroStats \in [Keys -> Rec]  BY DEF Zero, ZeroStats, Rec
<1>2. Words \in Nat  BY DEF Words
<1>3. Types
  <2>1. count \in [1..MaxMaps -> [Keys -> [CPUs -> Rec]]]  BY <1>1 DEF Init
  <2>2. pending \in [CPUs -> {NoRec} \cup ((1..MaxMaps) \X Keys)]  BY DEF Init
  <2> QED  BY <1>1, <1>2, <2>1, <2>2 DEF Init, Types
<1> QED  BY <1>3 DEF Init, StatsInv, ReadingInv, DeltaInv

-----------------------------------------------------------------------------
(* Counters only grow.                                                     *)
Grown ==
  \A m \in 1..MaxMaps, k \in Keys, c \in CPUs :
    /\ count[m][k][c].packets <= count'[m][k][c].packets
    /\ count[m][k][c].bytes <= count'[m][k][c].bytes

(* One more packet, or its bytes, in one record.                           *)
LEMMA OneMore ==
  ASSUME Types, NEW m \in 1..MaxMaps, NEW k \in Keys, NEW c \in CPUs, NEW r \in Rec,
         count[m][k][c].packets <= r.packets, count[m][k][c].bytes <= r.bytes,
         count' = [count EXCEPT ![m][k][c] = r]
  PROVE  count' \in [1..MaxMaps -> [Keys -> [CPUs -> Rec]]] /\ Grown
<1>1. /\ count \in [1..MaxMaps -> [Keys -> [CPUs -> Rec]]]
      /\ count[m] \in [Keys -> [CPUs -> Rec]] /\ count[m][k] \in [CPUs -> Rec]
  BY DEF Types
<1> DEFINE e == [count[m][k] EXCEPT ![c] = r]
           g == [count[m] EXCEPT ![k] = e]
<1>2. e \in [CPUs -> Rec]  BY <1>1
<1>3. \A b \in CPUs : e[b] = IF b = c THEN r ELSE count[m][k][b]  BY <1>1
<1>4. count' = [count EXCEPT ![m] = g]  BY <1>1
<1> HIDE DEF e
<1>5. g \in [Keys -> [CPUs -> Rec]]  BY <1>1, <1>2
<1>6. \A l \in Keys : g[l] = IF l = k THEN e ELSE count[m][l]  BY <1>1
<1> HIDE DEF g
<1>7. count' \in [1..MaxMaps -> [Keys -> [CPUs -> Rec]]]  BY <1>1, <1>4, <1>5
<1>8. \A n \in 1..MaxMaps : count'[n] = IF n = m THEN g ELSE count[n]  BY <1>1, <1>4
<1>9. ASSUME NEW n \in 1..MaxMaps, NEW l \in Keys, NEW b \in CPUs
      PROVE  /\ count[n][l][b].packets <= count'[n][l][b].packets
             /\ count[n][l][b].bytes <= count'[n][l][b].bytes
  <2>1. CASE n = m /\ l = k /\ b = c
    <3>0. count'[n] = g /\ g[l] = e /\ e[b] = r  BY <1>3, <1>6, <1>8, <2>1, Zenon
    <3>1. count'[n][l][b] = r  BY <3>0, Zenon
    <3>2. count[n][l][b] = count[m][k][c]  BY <2>1
    <3> QED  BY <3>1, <3>2, Zenon
  <2>2. CASE ~(n = m /\ l = k /\ b = c)
    <3>1. count'[n][l][b] = count[n][l][b]  BY <1>3, <1>6, <1>8, <2>2
    <3> QED  BY <3>1, CellTypes
  <2> QED  BY <2>1, <2>2
<1> QED  BY <1>7, <1>9 DEF Grown

LEMMA CountStep ==
  ASSUME Types, Load \/ Unload \/ Unpin
                \/ \E c \in CPUs : RecordBytes(c) \/ \E k \in Keys : RecordPackets(c, k)
  PROVE  Types' /\ Grown /\ UNCHANGED pollVars
<1>0. UNCHANGED count => Grown  BY CellTypes DEF Grown
<1> USE StatsAssumption DEF pollVars
<1>1. CASE Load  BY <1>0, <1>1 DEF Load, Types
<1>2. CASE Unload  BY <1>0, <1>2 DEF Unload, Types
<1>3. CASE Unpin  BY <1>0, <1>3 DEF Unpin, kernelVars, Types
<1>4. ASSUME NEW c \in CPUs, RecordBytes(c)  PROVE Types' /\ Grown /\ UNCHANGED pollVars
  <2> DEFINE m == pending[c][1]
             k == pending[c][2]
             r == [count[m][k][c] EXCEPT !.bytes = @ + 1]
  <2>1. m \in 1..MaxMaps /\ k \in Keys
    <3>1. pending[c] \in (1..MaxMaps) \X Keys
      BY <1>4, Zenon DEF RecordBytes, Types
    <3> QED  BY <3>1
  <2>2. count' = [count EXCEPT ![m][k][c] = r]
    BY <1>4 DEF RecordBytes
  <2> HIDE DEF m, k
  <2>3. /\ r \in Rec /\ count[m][k][c].packets <= r.packets
        /\ count[m][k][c].bytes <= r.bytes
    BY <2>1, CellTypes DEF Rec
  <2>4. count' \in [1..MaxMaps -> [Keys -> [CPUs -> Rec]]] /\ Grown
    <3> HIDE DEF r
    <3> QED  BY <2>1, <2>2, <2>3, OneMore
  <2>5. pending' \in [CPUs -> {NoRec} \cup ((1..MaxMaps) \X Keys)]
    BY <1>4 DEF RecordBytes, Types
  <2> QED  BY <1>4, <2>4, <2>5 DEF RecordBytes, Types
<1>5. ASSUME NEW c \in CPUs, NEW k \in Keys, RecordPackets(c, k)
      PROVE  Types' /\ Grown /\ UNCHANGED pollVars
  <2>1. attached \in 1..MaxMaps  BY <1>5 DEF RecordPackets, Types
  <2> DEFINE r == [count[attached][k][c] EXCEPT !.packets = @ + 1]
  <2>2. count' = [count EXCEPT ![attached][k][c] = r]
    BY <1>5 DEF RecordPackets
  <2>3. /\ r \in Rec /\ count[attached][k][c].packets <= r.packets
        /\ count[attached][k][c].bytes <= r.bytes
    BY <2>1, CellTypes DEF Rec
  <2>4. count' \in [1..MaxMaps -> [Keys -> [CPUs -> Rec]]] /\ Grown
    <3> HIDE DEF r
    <3> QED  BY <2>1, <2>2, <2>3, OneMore
  <2>5. pending' \in [CPUs -> {NoRec} \cup ((1..MaxMaps) \X Keys)]
    BY <1>5, <2>1 DEF RecordPackets, Types
  <2> QED  BY <1>5, <2>4, <2>5 DEF RecordPackets, Types
<1> QED  BY <1>1, <1>2, <1>3, <1>4, <1>5

LEMMA WindowGrows ==
  ASSUME NEW f \in [CPUs -> Nat], NEW g \in [CPUs -> Nat], \A c \in CPUs : f[c] <= g[c],
         NEW i \in 0..NumCpus, NEW r \in Nat, NEW l \in Nat, Window(r, l, f, i)
  PROVE  Window(r, l, g, i)
<1>1. /\ SumTo(f)[i] \in Nat /\ SumTo(g)[i] \in Nat
      /\ SumTo(f)[NumCpus] \in Nat /\ SumTo(g)[NumCpus] \in Nat
  BY SumToSteps, StatsAssumption
<1>2. /\ SumTo(f)[i] <= SumTo(g)[i]
      /\ SumTo(f)[NumCpus] - SumTo(f)[i] <= SumTo(g)[NumCpus] - SumTo(g)[i]
  BY SumToGrows
<1> QED  BY <1>1, <1>2 DEF Window

(* The program counting while the poller is anywhere.                      *)
LEMMA CountInv ==
  ASSUME StatsInv, Types', Grown, UNCHANGED pollVars
  PROVE  StatsInv'
<1> USE DEF StatsInv, pollVars
<1>0. /\ record \in [Keys -> Rec] /\ low \in [Keys -> Rec] /\ next \in 0..Words
      /\ Types
  BY DEF Types
<1>1. \A k \in Keys : /\ record[k].packets \in Nat /\ record[k].bytes \in Nat
                      /\ low[k].packets \in Nat /\ low[k].bytes \in Nat
  BY <1>0 DEF Rec
<1>2. ASSUME NEW m \in 1..MaxMaps, NEW k \in Keys
      PROVE  /\ PacketsOf(m, k) \in [CPUs -> Nat] /\ PacketsOf(m, k)' \in [CPUs -> Nat]
             /\ BytesOf(m, k) \in [CPUs -> Nat] /\ BytesOf(m, k)' \in [CPUs -> Nat]
             /\ \A c \in CPUs : PacketsOf(m, k)[c] <= PacketsOf(m, k)'[c]
             /\ \A c \in CPUs : BytesOf(m, k)[c] <= BytesOf(m, k)'[c]
  <2>1. /\ PacketsOf(m, k) \in [CPUs -> Nat] /\ BytesOf(m, k) \in [CPUs -> Nat]
    BY <1>0, CountTypes
  <2>2. PacketsOf(m, k)' \in [CPUs -> Nat] /\ BytesOf(m, k)' \in [CPUs -> Nat]
    <3>1. \A c \in CPUs : count'[m][k][c].packets \in Nat /\ count'[m][k][c].bytes \in Nat
      <4>1. count'[m] \in [Keys -> [CPUs -> Rec]]  BY DEF Types
      <4>2. count'[m][k] \in [CPUs -> Rec]  BY <4>1
      <4> QED  BY <4>2 DEF Rec
    <3> QED  BY <3>1 DEF PacketsOf, BytesOf
  <2> QED  BY <2>1, <2>2 DEF PacketsOf, BytesOf, Grown
<1>3. ReadingInv'
  <2> SUFFICES ASSUME ppc \in {"first", "collect"}, NEW k \in Keys
               PROVE  /\ fd \in 1..MaxMaps /\ id = fd
                      /\ Window(record[k].packets, low[k].packets,
                                PacketsOf(fd, k)', Seen(k, 0, next))
                      /\ Window(record[k].bytes, low[k].bytes,
                                BytesOf(fd, k)', Seen(k, 1, next))
    BY DEF ReadingInv, Keys
  <2>1. Seen(k, 0, next) \in 0..NumCpus /\ Seen(k, 1, next) \in 0..NumCpus
    BY <1>0, SeenBounds
  <2> QED  BY <1>1, <1>2, <2>1, WindowGrows DEF ReadingInv
<1>4. DeltaInv'
  <2>1. ASSUME ppc = "loop", NEW k \in Keys
        PROVE  /\ record[k].packets <= Sum(PacketsOf(id, k)')
               /\ record[k].bytes <= Sum(BytesOf(id, k)')
    <3>1. id \in 1..MaxMaps /\ NumCpus \in 0..NumCpus
      BY <2>1, StatsAssumption DEF DeltaInv
    <3>2. /\ Sum(PacketsOf(id, k)) <= Sum(PacketsOf(id, k)')
          /\ Sum(BytesOf(id, k)) <= Sum(BytesOf(id, k)')
      BY <1>2, <3>1, SumToGrows DEF Sum
    <3>3. /\ Sum(PacketsOf(id, k)) \in Nat /\ Sum(PacketsOf(id, k)') \in Nat
          /\ Sum(BytesOf(id, k)) \in Nat /\ Sum(BytesOf(id, k)') \in Nat
      BY <1>2, <3>1, SumToSteps DEF Sum
    <3> QED  BY <1>1, <2>1, <3>2, <3>3 DEF DeltaInv
  <2> QED  BY <2>1 DEF DeltaInv
<1> QED  BY <1>3, <1>4

-----------------------------------------------------------------------------
(* A reading that begins: nothing seen, and low is what the map holds now. *)
LEMMA BeginInv ==
  ASSUME Types, NEW m \in 1..MaxMaps, BeginCollect(m), UNCHANGED count
  PROVE  /\ fd' = m /\ next' \in 0..Words
         /\ low' \in [Keys -> Rec] /\ record' \in [Keys -> Rec] /\ low' = Counted(m)
         /\ \A k \in Keys :
              /\ Window(record'[k].packets, low'[k].packets, PacketsOf(m, k)', Seen(k, 0, next'))
              /\ Window(record'[k].bytes, low'[k].bytes, BytesOf(m, k)', Seen(k, 1, next'))
<1>1. fd' = m /\ next' = 0 /\ low' = Counted(m) /\ record' = ZeroStats
  BY DEF BeginCollect
<1>2. Words \in Nat  BY StatsAssumption DEF Words
<1>3. record' \in [Keys -> Rec]  BY <1>1 DEF ZeroStats, Zero, Rec
<1>4. low' \in [Keys -> Rec]  BY <1>1, SumTypes
<1>5. ASSUME NEW k \in Keys
      PROVE  /\ Window(record'[k].packets, low'[k].packets, PacketsOf(m, k)', Seen(k, 0, next'))
             /\ Window(record'[k].bytes, low'[k].bytes, BytesOf(m, k)', Seen(k, 1, next'))
  <2>1. Seen(k, 0, next') = 0 /\ Seen(k, 1, next') = 0  BY <1>1, SeenBounds
  <2>2. record'[k].packets = 0 /\ record'[k].bytes = 0  BY <1>1 DEF ZeroStats, Zero
  <2>3. low'[k].packets = Sum(PacketsOf(m, k)) /\ low'[k].bytes = Sum(BytesOf(m, k))
    BY <1>1 DEF Counted
  <2>4. PacketsOf(m, k)' = PacketsOf(m, k) /\ BytesOf(m, k)' = BytesOf(m, k)
    BY DEF PacketsOf, BytesOf
  <2>5. /\ SumTo(PacketsOf(m, k))[0] = 0 /\ SumTo(BytesOf(m, k))[0] = 0
        /\ SumTo(PacketsOf(m, k))[NumCpus] \in Nat /\ SumTo(BytesOf(m, k))[NumCpus] \in Nat
    BY CountTypes, SumToSteps, StatsAssumption
  <2> QED  BY <2>1, <2>2, <2>3, <2>4, <2>5 DEF Window, Sum
<1> QED  BY <1>1, <1>2, <1>3, <1>4, <1>5

(* Reading one more of the counters.                                       *)
LEMMA WindowMoves ==
  ASSUME NEW f \in [CPUs -> Nat], NEW c \in CPUs, NEW r \in Nat, NEW l \in Nat,
         Window(r, l, f, c)
  PROVE  Window(r + f[c], l, f, c + 1)
<1>1. /\ c \in 0..NumCpus /\ c + 1 \in 0..NumCpus /\ NumCpus \in 0..NumCpus
  BY StatsAssumption DEF CPUs
<1>2. /\ SumTo(f)[c] \in Nat /\ SumTo(f)[NumCpus] \in Nat /\ f[c] \in Nat
      /\ SumTo(f)[c + 1] = SumTo(f)[c] + f[c]
  BY <1>1, SumToSteps
<1> QED  BY <1>2 DEF Window

LEMMA CollectInv ==
  ASSUME StatsInv, MapCollect
  PROVE  StatsInv'
<1> DEFINE j == KeyOf(next)
           c == CpuOf(next)
           b == next % 2
<1> USE DEF StatsInv
<1>0. /\ Types /\ record \in [Keys -> Rec] /\ low \in [Keys -> Rec] /\ next \in 0..(Words - 1)
      /\ ppc \in {"first", "collect"} /\ fd \in 1..MaxMaps /\ id = fd /\ Words \in Nat
  BY StatsAssumption DEF Types, MapCollect, ReadingInv, Words
<1>1. j \in Keys /\ c \in CPUs /\ b \in {0, 1}  BY <1>0, WordParts
<1>2. /\ record' = IF b = 0
                   THEN [record EXCEPT ![j].packets = @ + count[fd][j][c].packets]
                   ELSE [record EXCEPT ![j].bytes = @ + count[fd][j][c].bytes]
      /\ next' = next + 1
      /\ UNCHANGED <<maps, count, attached, pending, pinned, ppc, fd, id, low, prev>>
  BY DEF MapCollect, kernelVars
<1>3. /\ count[fd][j][c].packets \in Nat /\ count[fd][j][c].bytes \in Nat
      /\ PacketsOf(fd, j)[c] = count[fd][j][c].packets
      /\ BytesOf(fd, j)[c] = count[fd][j][c].bytes
  BY <1>0, <1>1, CellTypes DEF PacketsOf, BytesOf
<1>4. \A k \in Keys : /\ record[k].packets \in Nat /\ record[k].bytes \in Nat
                      /\ low[k].packets \in Nat /\ low[k].bytes \in Nat
                      /\ PacketsOf(fd, k) \in [CPUs -> Nat] /\ BytesOf(fd, k) \in [CPUs -> Nat]
  BY <1>0, CountTypes DEF Rec
<1>5. \A k \in Keys :
        /\ Window(record[k].packets, low[k].packets, PacketsOf(fd, k), Seen(k, 0, next))
        /\ Window(record[k].bytes, low[k].bytes, BytesOf(fd, k), Seen(k, 1, next))
  BY <1>0 DEF ReadingInv
<1>6. \A k \in Keys, d \in {0, 1} :
        IF k = j /\ d = b THEN Seen(k, d, next) = c /\ Seen(k, d, next + 1) = c + 1
        ELSE Seen(k, d, next + 1) = Seen(k, d, next)
  BY <1>0, SeenStep
<1> HIDE DEF j, c, b
<1>7. /\ record' \in [Keys -> Rec]
      /\ \A k \in Keys :
           /\ record'[k].packets = IF k = j /\ b = 0
                                   THEN record[k].packets + PacketsOf(fd, j)[c]
                                   ELSE record[k].packets
           /\ record'[k].bytes = IF k = j /\ b = 1
                                 THEN record[k].bytes + BytesOf(fd, j)[c]
                                 ELSE record[k].bytes
  <2>1. CASE b = 0
    <3>1. record' = [record EXCEPT ![j].packets = @ + count[fd][j][c].packets]
      BY <1>2, <2>1
    <3> QED  BY <1>0, <1>1, <1>3, <1>4, <2>1, <3>1 DEF Rec
  <2>2. CASE b = 1
    <3>1. record' = [record EXCEPT ![j].bytes = @ + count[fd][j][c].bytes]
      BY <1>2, <2>2
    <3> QED  BY <1>0, <1>1, <1>3, <1>4, <2>2, <3>1 DEF Rec
  <2> QED  BY <1>1, <2>1, <2>2
<1>8. Types'
  BY <1>0, <1>2, <1>7 DEF Types
<1>9. ReadingInv'
  <2> SUFFICES ASSUME NEW k \in Keys
               PROVE  /\ Window(record'[k].packets, low[k].packets,
                                PacketsOf(fd, k), Seen(k, 0, next + 1))
                      /\ Window(record'[k].bytes, low[k].bytes,
                                BytesOf(fd, k), Seen(k, 1, next + 1))
    BY <1>0, <1>2 DEF ReadingInv, PacketsOf, BytesOf, Keys
  <2>1. Window(record'[k].packets, low[k].packets, PacketsOf(fd, k), Seen(k, 0, next + 1))
    <3>1. CASE k = j /\ b = 0
      <4>1. /\ Seen(k, 0, next) = c /\ Seen(k, 0, next + 1) = c + 1
            /\ record'[k].packets = record[k].packets + PacketsOf(fd, k)[c]
        BY <1>6, <1>7, <3>1
      <4> QED  BY <1>1, <1>4, <1>5, <4>1, WindowMoves
    <3>2. CASE ~(k = j /\ b = 0)  BY <1>1, <1>5, <1>6, <1>7, <3>2
    <3> QED  BY <3>1, <3>2
  <2>2. Window(record'[k].bytes, low[k].bytes, BytesOf(fd, k), Seen(k, 1, next + 1))
    <3>1. CASE k = j /\ b = 1
      <4>1. /\ Seen(k, 1, next) = c /\ Seen(k, 1, next + 1) = c + 1
            /\ record'[k].bytes = record[k].bytes + BytesOf(fd, k)[c]
        BY <1>6, <1>7, <3>1
      <4> QED  BY <1>1, <1>4, <1>5, <4>1, WindowMoves
    <3>2. CASE ~(k = j /\ b = 1)  BY <1>1, <1>5, <1>6, <1>7, <3>2
    <3> QED  BY <3>1, <3>2
  <2> QED  BY <2>1, <2>2
<1>10. DeltaInv'
  BY <1>0, <1>2 DEF DeltaInv
<1> QED  BY <1>8, <1>9, <1>10

LEMMA PollInv ==
  ASSUME StatsInv, Poll
  PROVE  StatsInv'
<1> USE DEF StatsInv
<1>0. /\ Types /\ id \in 0..MaxMaps /\ pinned \in 0..MaxMaps
      /\ \A m \in 1..MaxMaps : Counted(m) \in [Keys -> Rec]
  BY SumTypes, StatsAssumption DEF Types
<1>1. CASE OpenFails
  BY <1>0, <1>1 DEF OpenFails, kernelVars, Types, ReadingInv, DeltaInv
<1>2. CASE OpenMap
  <2>1. pinned \in 1..MaxMaps /\ BeginCollect(pinned) /\ UNCHANGED <<count, pinned>>
    BY <1>0, <1>2 DEF OpenMap, kernelVars
  <2>2. /\ fd' = pinned /\ next' \in 0..Words
        /\ low' \in [Keys -> Rec] /\ record' \in [Keys -> Rec]
        /\ \A k \in Keys :
             /\ Window(record'[k].packets, low'[k].packets, PacketsOf(pinned, k)',
                       Seen(k, 0, next'))
             /\ Window(record'[k].bytes, low'[k].bytes, BytesOf(pinned, k)',
                       Seen(k, 1, next'))
    BY <1>0, <2>1, BeginInv
  <2>3. Types'  BY <1>0, <1>2, <2>1, <2>2 DEF Types, OpenMap, kernelVars
  <2>4. ReadingInv'  BY <1>2, <2>1, <2>2 DEF ReadingInv, OpenMap, PacketsOf, BytesOf, kernelVars
  <2>5. DeltaInv'  BY <1>2 DEF DeltaInv, OpenMap
  <2> QED  BY <2>3, <2>4, <2>5
<1>3. CASE FirstDone \/ StatsPrint
  <2>1. /\ ppc \in {"first", "collect"} /\ next = Words /\ ppc' = "loop"
        /\ UNCHANGED <<maps, count, attached, pending, pinned, fd, id, next, low, prev, record>>
    BY <1>3 DEF FirstDone, StatsPrint, kernelVars
  <2>2. id \in 1..MaxMaps /\ id = fd  BY <2>1 DEF ReadingInv
  <2>3. ASSUME NEW k \in Keys
        PROVE  /\ record[k].packets <= Sum(PacketsOf(id, k))
               /\ record[k].bytes <= Sum(BytesOf(id, k))
    <3>1. Seen(k, 0, next) = NumCpus /\ Seen(k, 1, next) = NumCpus  BY <2>1, SeenBounds
    <3> QED  BY <2>1, <2>2, <3>1 DEF ReadingInv, Window, Sum
  <2>4. Types'  BY <1>0, <2>1 DEF Types
  <2>5. DeltaInv'  BY <2>1, <2>2, <2>3 DEF DeltaInv, PacketsOf, BytesOf
  <2> QED  BY <2>1, <2>4, <2>5 DEF ReadingInv
<1>4. CASE ReopenFails \/ ReopenOther
  BY <1>0, <1>4 DEF ReopenFails, ReopenOther, kernelVars, Types, ReadingInv, DeltaInv
<1>5. CASE Reopen
  <2>1. /\ pinned \in 1..MaxMaps /\ BeginCollect(pinned) /\ pinned = id /\ ppc = "loop"
        /\ prev' = record /\ ppc' = "collect"
        /\ UNCHANGED <<maps, count, attached, pending, pinned, id>>
    BY <1>0, <1>5 DEF Reopen, SameMap, kernelVars
  <2>2. /\ fd' = pinned /\ next' \in 0..Words /\ low' = Counted(pinned)
        /\ low' \in [Keys -> Rec] /\ record' \in [Keys -> Rec]
        /\ \A k \in Keys :
             /\ Window(record'[k].packets, low'[k].packets, PacketsOf(pinned, k)',
                       Seen(k, 0, next'))
             /\ Window(record'[k].bytes, low'[k].bytes, BytesOf(pinned, k)',
                       Seen(k, 1, next'))
    BY <1>0, <2>1, BeginInv
  <2>3. Types'  BY <1>0, <2>1, <2>2 DEF Types
  <2>4. ReadingInv'  BY <2>1, <2>2 DEF ReadingInv, PacketsOf, BytesOf
  <2>5. DeltaInv'
    <3>1. \A k \in Keys : /\ low'[k].packets = Sum(PacketsOf(id, k))
                          /\ low'[k].bytes = Sum(BytesOf(id, k))
      BY <2>1, <2>2 DEF Counted
    <3> QED  BY <2>1, <3>1 DEF DeltaInv
  <2> QED  BY <2>3, <2>4, <2>5
<1>6. CASE MapCollect  BY <1>6, CollectInv
<1> QED  BY <1>1, <1>2, <1>3, <1>4, <1>5, <1>6 DEF Poll

LEMMA StatsInvariant == Spec => []StatsInv
<1>1. StatsInv /\ [Next]_vars => StatsInv'
  <2> SUFFICES ASSUME StatsInv, [Next]_vars  PROVE StatsInv'
    OBVIOUS
  <2>1. CASE UNCHANGED vars
    <3>1. Types' /\ UNCHANGED pollVars
      BY <2>1 DEF vars, kernelVars, pollVars, StatsInv, Types
    <3>2. Grown  BY <2>1, CellTypes DEF vars, kernelVars, StatsInv, Grown
    <3> QED  BY <3>1, <3>2, CountInv
  <2>2. CASE Poll  BY <2>2, PollInv
  <2>3. CASE Next /\ ~Poll  BY <2>3, CountStep, CountInv DEF Next, StatsInv
  <2> QED  BY <2>1, <2>2, <2>3
<1> QED  BY <1>1, InitInv, PTL DEF Spec

(* stats_print's subtraction never wraps: of two readings in a row the     *)
(* later one is not below the earlier one, whatever was loaded, unloaded   *)
(* and counted in between, for any number of CPUs, actions and maps.       *)
THEOREM PrintsNoNegativeDelta == Spec => []DeltasNotNegative
<1>1. StatsInv => DeltasNotNegative
  <2> SUFFICES ASSUME StatsInv, ppc = "collect", next = Words, NEW k \in Keys
               PROVE  /\ prev[k].packets <= record[k].packets
                      /\ prev[k].bytes <= record[k].bytes
    BY DEF DeltasNotNegative
  <2>1. Seen(k, 0, next) = NumCpus /\ Seen(k, 1, next) = NumCpus  BY SeenBounds
  <2>2. /\ record[k] \in Rec /\ low[k] \in Rec /\ prev[k] \in Rec
        /\ fd \in 1..MaxMaps /\ Types
    BY DEF StatsInv, Types, ReadingInv
  <2>3. /\ SumTo(PacketsOf(fd, k))[NumCpus] \in Nat /\ SumTo(BytesOf(fd, k))[NumCpus] \in Nat
    BY <2>2, CountTypes, SumToSteps, StatsAssumption
  <2>4. /\ low[k].packets <= record[k].packets /\ low[k].bytes <= record[k].bytes
    BY <2>1, <2>2, <2>3 DEF StatsInv, ReadingInv, Window, Rec
  <2>5. prev[k].packets <= low[k].packets /\ prev[k].bytes <= low[k].bytes
    BY DEF StatsInv, DeltaInv
  <2> QED  BY <2>2, <2>4, <2>5 DEF Rec
<1> QED  BY <1>1, StatsInvariant, PTL

(* Each number stats_collect returns lies between what the counter had     *)
(* when the reading began and what it has when it ends, although the words *)
(* are read one by one while the CPUs count.                               *)
THEOREM ReadingsLieInWindow == Spec => []ReadingInWindow
<1>1. StatsInv => ReadingInWindow
  <2> SUFFICES ASSUME StatsInv, ppc \in {"first", "collect"}, next = Words, NEW k \in Keys
               PROVE  /\ low[k].packets <= record[k].packets
                      /\ record[k].packets <= Counted(fd)[k].packets
                      /\ low[k].bytes <= record[k].bytes
                      /\ record[k].bytes <= Counted(fd)[k].bytes
    BY DEF ReadingInWindow
  <2>1. Seen(k, 0, next) = NumCpus /\ Seen(k, 1, next) = NumCpus  BY SeenBounds
  <2>2. /\ record[k] \in Rec /\ low[k] \in Rec /\ fd \in 1..MaxMaps /\ Types
    BY DEF StatsInv, Types, ReadingInv
  <2>3. /\ SumTo(PacketsOf(fd, k))[NumCpus] \in Nat /\ SumTo(BytesOf(fd, k))[NumCpus] \in Nat
    BY <2>2, CountTypes, SumToSteps, StatsAssumption
  <2>4. /\ Counted(fd)[k].packets = SumTo(PacketsOf(fd, k))[NumCpus]
        /\ Counted(fd)[k].bytes = SumTo(BytesOf(fd, k))[NumCpus]
    BY DEF Counted, Sum
  <2> QED  BY <2>1, <2>2, <2>3, <2>4 DEF StatsInv, ReadingInv, Window, Rec
<1> QED  BY <1>1, StatsInvariant, PTL
=============================================================================
