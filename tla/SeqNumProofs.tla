---------------------------- MODULE SeqNumProofs ----------------------------
(* Lemmas about the serial arithmetic of SeqNum, for every width, and about *)
(* induction and recursion over the turns of a loop.                       *)
EXTENDS SeqNum, WellFoundedInduction, TLAPS

(* Reduction modulo any positive M, of an integer within one period of 0..M-1. *)
LEMMA ModCases ==
    ASSUME NEW M \in Nat \ {0}, NEW a \in Int, -M <= a, a < 2 * M
    PROVE  a % M = IF a < 0 THEN a + M ELSE IF a < M THEN a ELSE a - M
<1>1. CASE a < 0
  BY <1>1
<1>2. CASE 0 <= a /\ a < M
  BY <1>2
<1>3. CASE M <= a
  BY <1>3
<1> QED
  BY <1>1, <1>2, <1>3

LEMMA DivMod ==
    ASSUME NEW x \in Nat, NEW M \in Nat \ {0}
    PROVE  /\ x \div M \in Nat
           /\ x % M \in 0 .. M - 1
           /\ x = ((x \div M) * M) + (x % M)
  OBVIOUS

LEMMA DivModInt ==
    ASSUME NEW x \in Int, NEW M \in Nat \ {0}
    PROVE  /\ x \div M \in Int
           /\ x % M \in 0 .. M - 1
           /\ x = ((x \div M) * M) + (x % M)
  OBVIOUS

(* Whole turns do not count. *)
LEMMA ModTurns ==
    ASSUME NEW x \in Int, NEW M \in Nat \ {0}, NEW k \in Int
    PROVE  (x + k * M) % M = x % M
<1> DEFINE y == x + k * M
           q == x \div M
           r == x % M
           p == y \div M
           s == y % M
           d == p - q - k
<1>1. y \in Int /\ k * M \in Int
  OBVIOUS
<1>2. /\ q \in Int /\ r \in 0 .. M - 1 /\ x = q * M + r
      /\ p \in Int /\ s \in 0 .. M - 1 /\ y = p * M + s
  <2> HIDE DEF y
  <2> QED
    BY <1>1, DivModInt
<1>3. y = x + k * M
  OBVIOUS
<1>4. d \in Int
  BY <1>2
<1>5. d * M = r - s
  <2> HIDE DEF y, q, r, p, s
  <2>1. p * M + s = q * M + r + k * M
    BY <1>2, <1>3
  <2>2. d * M = p * M - q * M - k * M
    BY <1>2
  <2>3. p * M \in Int /\ q * M \in Int /\ k * M \in Int
    BY <1>2
  <2> QED
    BY <1>2, <2>1, <2>2, <2>3
<1> HIDE DEF y, q, r, p, s, d
<1>6. ~(d >= 1)
  <2> SUFFICES ASSUME d >= 1 PROVE FALSE
    OBVIOUS
  <2>1. d * M >= M
    BY <1>4
  <2> QED
    BY <1>2, <1>5, <2>1
<1>7. ~(d <= -1)
  <2> SUFFICES ASSUME d <= -1 PROVE FALSE
    OBVIOUS
  <2>1. d * M <= -M
    BY <1>4
  <2> QED
    BY <1>2, <1>5, <2>1
<1>8. d = 0
  BY <1>4, <1>6, <1>7
<1>9. r = s
  BY <1>2, <1>5, <1>8
<1> QED
  BY <1>9 DEF r, s, y

(* Numbers less than M apart are in the same or in neighbouring periods. *)
LEMMA NearPeriods ==
    ASSUME NEW M \in Nat \ {0}, NEW h1 \in Nat, NEW h2 \in Nat,
           NEW l1 \in 0 .. M - 1, NEW l2 \in 0 .. M - 1,
           (h2 * M + l2) - (h1 * M + l1) < M, (h1 * M + l1) - (h2 * M + l2) < M
    PROVE  h2 = h1 \/ h2 = h1 + 1 \/ h1 = h2 + 1
<1>1. ASSUME h2 >= h1 + 2 PROVE FALSE
  <2>1. h2 * M >= (h1 + 2) * M
    BY <1>1
  <2>2. (h1 + 2) * M = h1 * M + 2 * M
    OBVIOUS
  <2> DEFINE a == h1 * M
             b == h2 * M
  <2>3. a \in Nat /\ b \in Nat
    OBVIOUS
  <2>4. b >= a + 2 * M /\ (b + l2) - (a + l1) < M
    BY <2>1, <2>2
  <2> HIDE DEF a, b
  <2> QED
    BY <2>3, <2>4
<1>2. ASSUME h1 >= h2 + 2 PROVE FALSE
  <2>1. h1 * M >= (h2 + 2) * M
    BY <1>2
  <2>2. (h2 + 2) * M = h2 * M + 2 * M
    OBVIOUS
  <2> DEFINE a == h1 * M
             b == h2 * M
  <2>3. a \in Nat /\ b \in Nat
    OBVIOUS
  <2>4. a >= b + 2 * M /\ (a + l1) - (b + l2) < M
    BY <2>1, <2>2
  <2> HIDE DEF a, b
  <2> QED
    BY <2>3, <2>4
<1> QED
  BY <1>1, <1>2

LEMMA SeqModType == SeqMod \in Nat \ {0} /\ SeqHalf \in Nat \ {0} /\ SeqMod = 2 * SeqHalf
  BY SeqHalfAssumption DEF SeqMod

(* The wrapped sum, written without the remainder. *)
LEMMA SeqAddCases ==
    ASSUME NEW a \in SeqNums, NEW n \in 0 .. SeqMod
    PROVE  /\ SeqAdd(a, n) = IF a + n < SeqMod THEN a + n ELSE a + n - SeqMod
           /\ SeqAdd(a, n) \in SeqNums
<1> DEFINE x == a + n
<1>1. x \in Int /\ 0 <= x /\ x < 2 * SeqMod
  BY SeqModType DEF SeqNums
<1> HIDE DEF x
<1>2. x % SeqMod = IF x < SeqMod THEN x ELSE x - SeqMod
  <2>1. x % SeqMod = IF x < 0 THEN x + SeqMod ELSE IF x < SeqMod THEN x ELSE x - SeqMod
    <3>1. -SeqMod <= x
      BY <1>1, SeqModType
    <3> QED
      BY ONLY <1>1, <3>1, SeqModType, ModCases
  <2> QED
    BY <1>1, <2>1
<1>3. x % SeqMod \in SeqNums
  BY <1>1, <1>2, SeqModType DEF SeqNums
<1>4. x = a + n /\ SeqAdd(a, n) = x % SeqMod
  BY DEF SeqAdd, x
<1> QED
  BY <1>2, <1>3, <1>4, SeqModType DEF SeqNums

(* How far b is ahead of a, written without the remainder. *)
LEMMA SeqDistCases ==
    ASSUME NEW a \in SeqNums, NEW b \in SeqNums
    PROVE  /\ SeqDist(a, b) = IF a <= b THEN b - a ELSE b - a + SeqMod
           /\ SeqDist(a, b) \in SeqNums
<1> DEFINE x == b - a
<1>1. x \in Int /\ -SeqMod <= x /\ x < SeqMod /\ x < 2 * SeqMod
  BY SeqModType DEF SeqNums
<1>4. x < 0 <=> ~(a <= b)
  BY DEF SeqNums
<1> HIDE DEF x
<1>2. x % SeqMod = IF x < 0 THEN x + SeqMod ELSE x
  <2>1. x % SeqMod = IF x < 0 THEN x + SeqMod ELSE IF x < SeqMod THEN x ELSE x - SeqMod
    BY ONLY <1>1, SeqModType, ModCases
  <2> QED
    BY <1>1, <2>1
<1>3. x % SeqMod \in SeqNums
  BY <1>1, <1>2, SeqModType DEF SeqNums
<1> QED
  BY <1>2, <1>3, <1>4 DEF SeqDist, x

(* The comparisons of seqnum.h are those of RFC 1982: b follows a when it  *)
(* is reached from a by fewer than SeqHalf increments.                     *)
THEOREM SeqLtIsSerialOrder ==
    \A a, b \in SeqNums :
        /\ SeqLt(a, b) <=> SeqDist(a, b) \in 1 .. SeqHalf - 1
        /\ SeqGt(a, b) <=> SeqLt(b, a)
<1> TAKE a, b \in SeqNums
<1>1. SeqDist(a, b) = IF a <= b THEN b - a ELSE b - a + SeqMod
  BY SeqDistCases
<1> QED
  BY <1>1, SeqModType DEF SeqLt, SeqGt, SeqNums

(* Adding the distance leads back to where it was measured to. *)
LEMMA SeqAddDist ==
    ASSUME NEW a \in SeqNums, NEW b \in SeqNums
    PROVE  SeqAdd(a, SeqDist(a, b)) = b
<1> DEFINE d == SeqDist(a, b)
<1>1. d = IF a <= b THEN b - a ELSE b - a + SeqMod
  BY SeqDistCases
<1>2. d \in 0 .. SeqMod
  BY SeqDistCases, SeqModType DEF SeqNums
<1> HIDE DEF d
<1>3. SeqAdd(a, d) = IF a + d < SeqMod THEN a + d ELSE a + d - SeqMod
  BY <1>2, SeqAddCases
<1>4. SeqAdd(a, d) = b
  BY <1>1, <1>2, <1>3, SeqModType DEF SeqNums
<1> QED
  BY <1>4 DEF d

(* Two steps that together stay within one turn are one step. *)
LEMMA SeqAddAssoc ==
    ASSUME NEW a \in SeqNums, NEW m \in Nat, NEW n \in Nat, m + n <= SeqMod
    PROVE  SeqAdd(SeqAdd(a, m), n) = SeqAdd(a, m + n)
<1> DEFINE s == SeqAdd(a, m)
           t == m + n
<1>1. m \in 0 .. SeqMod /\ n \in 0 .. SeqMod /\ t \in 0 .. SeqMod
  BY SeqModType
<1>2. t = m + n
  OBVIOUS
<1>3. s \in SeqNums /\ s = IF a + m < SeqMod THEN a + m ELSE a + m - SeqMod
  BY <1>1, SeqAddCases
<1> HIDE DEF s, t
<1>4. SeqAdd(a, t) = IF a + t < SeqMod THEN a + t ELSE a + t - SeqMod
  BY <1>1, SeqAddCases
<1>5. SeqAdd(s, n) = IF s + n < SeqMod THEN s + n ELSE s + n - SeqMod
  BY <1>1, <1>3, SeqAddCases
<1>6. SeqAdd(s, n) = SeqAdd(a, t)
  BY <1>1, <1>2, <1>3, <1>4, <1>5, SeqModType DEF SeqNums
<1> QED
  BY <1>6 DEF s, t

(* The distance to a sum is the number added. *)
LEMMA SeqDistAdd ==
    ASSUME NEW a \in SeqNums, NEW n \in 0 .. SeqMod - 1
    PROVE  SeqDist(a, SeqAdd(a, n)) = n
<1> DEFINE s == SeqAdd(a, n)
<1>1. n \in 0 .. SeqMod
  BY SeqModType
<1>2. s \in SeqNums /\ s = IF a + n < SeqMod THEN a + n ELSE a + n - SeqMod
  BY <1>1, SeqAddCases
<1> HIDE DEF s
<1>3. SeqDist(a, s) = IF a <= s THEN s - a ELSE s - a + SeqMod
  BY <1>2, SeqDistCases
<1>4. SeqDist(a, s) = n
  BY <1>1, <1>2, <1>3, SeqModType DEF SeqNums
<1> QED
  BY <1>4 DEF s

-----------------------------------------------------------------------------
(* Numbers cut from positions that never wrap.                             *)

LEMMA ModType ==
    ASSUME NEW a \in Nat
    PROVE  a % SeqMod \in SeqNums
  BY SeqModType, DivMod DEF SeqNums

(* What is d further on is cut to what is d further on. *)
LEMMA ModAhead ==
    ASSUME NEW a \in Nat, NEW d \in Nat, d < SeqMod
    PROVE  (a + d) % SeqMod = IF (a % SeqMod) + d < SeqMod
                              THEN (a % SeqMod) + d ELSE (a % SeqMod) + d - SeqMod
<1> DEFINE b == a + d
           M == SeqMod
           h1 == b \div M
           l1 == b % M
           h2 == a \div M
           l2 == a % M
<1>1. M \in Nat \ {0} /\ b \in Nat /\ b - a = d /\ a - b = -d /\ d < M /\ -d < M
  BY SeqModType
<1>2. /\ h1 \in Nat /\ l1 \in 0 .. M - 1 /\ b = h1 * M + l1
      /\ h2 \in Nat /\ l2 \in 0 .. M - 1 /\ a = h2 * M + l2
  BY <1>1, DivMod
<1> HIDE DEF M, h1, l1, h2, l2, b
<1>3. h1 = h2 \/ h1 = h2 + 1 \/ h2 = h1 + 1
  <2>1. /\ (h1 * M + l1) - (h2 * M + l2) < M
        /\ (h2 * M + l2) - (h1 * M + l1) < M
    BY <1>1, <1>2
  <2> QED
    BY <1>1, <1>2, <2>1, NearPeriods
<1>4. CASE h1 = h2
  BY <1>1, <1>2, <1>4 DEF M, l1, l2, b
<1>5. CASE h1 = h2 + 1
  <2>1. (h2 + 1) * M = h2 * M + M
    BY <1>1, <1>2
  <2>2. b = h2 * M + M + l1
    BY <1>2, <1>5, <2>1
  <2> DEFINE z == h2 * M
  <2>3. z \in Int
    BY <1>1, <1>2
  <2> HIDE DEF z
  <2>4. b = z + M + l1 /\ a = z + l2
    BY <1>2, <2>2 DEF z
  <2>5. l1 = l2 + d - M
    BY <1>1, <1>2, <2>3, <2>4
  <2> QED
    BY <1>1, <1>2, <2>5 DEF M, l1, l2, b
<1>6. CASE h2 = h1 + 1
  <2>1. (h1 + 1) * M = h1 * M + M
    BY <1>1, <1>2
  <2> DEFINE z == h1 * M
  <2>3. z \in Int
    BY <1>1, <1>2
  <2>4. b = z + l1 /\ a = z + M + l2
    BY <1>2, <1>6, <2>1
  <2> HIDE DEF z
  <2> QED
    BY <1>1, <1>2, <2>3, <2>4
<1> QED
  BY <1>3, <1>4, <1>5, <1>6

LEMMA ModAdd ==
    ASSUME NEW a \in Nat, NEW d \in Nat, d < SeqMod
    PROVE  SeqAdd(a % SeqMod, d) = (a + d) % SeqMod
<1> DEFINE r == a % SeqMod
<1>1. r \in SeqNums /\ d \in 0 .. SeqMod
  BY ModType, SeqModType
<1>2. (a + d) % SeqMod = IF r + d < SeqMod THEN r + d ELSE r + d - SeqMod
  BY ModAhead
<1> HIDE DEF r
<1>3. SeqAdd(r, d) = IF r + d < SeqMod THEN r + d ELSE r + d - SeqMod
  BY <1>1, SeqAddCases
<1> QED
  BY <1>2, <1>3 DEF r

(* Positions less than a turn apart are cut to different numbers. *)
LEMMA ModInjective ==
    ASSUME NEW a \in Nat, NEW b \in Nat, a - b < SeqMod, b - a < SeqMod,
           a % SeqMod = b % SeqMod
    PROVE  a = b
<1>1. ASSUME NEW x \in Nat, NEW d \in Nat, d < SeqMod, x % SeqMod = (x + d) % SeqMod
      PROVE  d = 0
  <2> DEFINE r == x % SeqMod
             q == (x + d) % SeqMod
  <2>1. r \in SeqNums /\ q = r
    BY <1>1, ModType
  <2>2. q = IF r + d < SeqMod THEN r + d ELSE r + d - SeqMod
    BY <1>1, ModAhead
  <2> HIDE DEF r, q
  <2> QED
    BY <1>1, <2>1, <2>2, SeqModType DEF SeqNums
<1>2. CASE a <= b
  <2>1. b = a + (b - a) /\ b - a \in Nat
    BY <1>2
  <2> QED
    BY <1>1, <2>1
<1>3. CASE b <= a
  <2>1. a = b + (a - b) /\ a - b \in Nat
    BY <1>3
  <2> QED
    BY <1>1, <2>1
<1> QED
  BY <1>2, <1>3

(* Positions less than half a turn apart compare as what they are cut to. *)
LEMMA ModOrder ==
    ASSUME NEW a \in Nat, NEW b \in Nat, a - b < SeqHalf, b - a < SeqHalf
    PROVE  /\ SeqGt(a % SeqMod, b % SeqMod) <=> a > b
           /\ SeqLt(a % SeqMod, b % SeqMod) <=> a < b
<1>1. ASSUME NEW x \in Nat, NEW d \in Nat, d < SeqHalf
      PROVE  /\ SeqGt((x + d) % SeqMod, x % SeqMod) <=> d > 0
             /\ ~SeqLt((x + d) % SeqMod, x % SeqMod)
             /\ SeqLt(x % SeqMod, (x + d) % SeqMod) <=> d > 0
             /\ ~SeqGt(x % SeqMod, (x + d) % SeqMod)
  <2> DEFINE r == x % SeqMod
             q == (x + d) % SeqMod
  <2>1. r \in SeqNums
    BY ModType
  <2>2. q = IF r + d < SeqMod THEN r + d ELSE r + d - SeqMod
    <3>1. d < SeqMod
      BY <1>1, SeqModType
    <3> QED
      BY <1>1, <3>1, ModAhead
  <2> HIDE DEF r, q
  <2>3. /\ SeqGt(q, r) <=> d > 0
        /\ ~SeqLt(q, r)
        /\ SeqLt(r, q) <=> d > 0
        /\ ~SeqGt(r, q)
    BY <1>1, <2>1, <2>2, SeqModType DEF SeqNums, SeqGt, SeqLt
  <2> QED
    BY <2>3 DEF r, q
<1>2. CASE a <= b
  <2>1. b = a + (b - a) /\ b - a \in Nat
    BY <1>2
  <2> QED
    BY <1>1, <1>2, <2>1
<1>3. CASE b <= a
  <2>1. a = b + (a - b) /\ a - b \in Nat
    BY <1>3
  <2> QED
    BY <1>1, <1>3, <2>1
<1> QED
  BY <1>2, <1>3

-----------------------------------------------------------------------------
(* Loops.                                                                  *)

(* Induction, for sets instead of predicates. *)
LEMMA NatInduct ==
    ASSUME NEW S \in SUBSET Nat, 0 \in S, \A n \in S : n + 1 \in S
    PROVE  S = Nat
<1> DEFINE R == OpToRel(<, Nat)
           T == Nat \ S
<1>1. ASSUME T # {} PROVE FALSE
  <2>1. IsWellFoundedOn(R, Nat)
    BY NatLessThanWellFounded
  <2> HIDE DEF R
  <2>2. PICK x \in T : \A y \in T : ~(<<y, x>> \in R)
    BY <1>1, <2>1, WFMin
  <2>3. x \in Nat /\ x # 0 /\ x \notin S
    OBVIOUS
  <2>4. x - 1 \in Nat /\ x - 1 \notin S
    BY <2>3
  <2>5. <<x - 1, x>> \in R
    BY <2>3, <2>4 DEF R, OpToRel
  <2> QED
    BY <2>2, <2>4, <2>5
<1> QED
  BY <1>1

(* The least of some numbers. *)
LEMMA LeastNumber ==
    ASSUME NEW S \in SUBSET Nat, S # {}
    PROVE  \E k \in S : \A j \in S : k <= j
<1> DEFINE R == OpToRel(<, Nat)
<1>1. IsWellFoundedOn(R, Nat)
  BY NatLessThanWellFounded
<1>2. \A x, y \in Nat : x < y => <<x, y>> \in R
  BY DEF OpToRel
<1> HIDE DEF R
<1>3. PICK x \in S : \A y \in S : ~(<<y, x>> \in R)
  BY <1>1, WFMin
<1>4. ASSUME NEW j \in S PROVE x <= j
  <2>1. x \in Nat /\ j \in Nat /\ ~(j < x)
    BY <1>2, <1>3
  <2> QED
    BY <2>1
<1> QED
  BY <1>4

(* Induction up to N, such as the turns of a loop. *)
LEMMA InductUpTo ==
    ASSUME NEW N \in Nat, NEW S, 0 \in S, \A n \in 0 .. N - 1 : n \in S => n + 1 \in S
    PROVE  0 .. N \subseteq S
<1> DEFINE T == {n \in Nat : n <= N => n \in S}
<1>1. T \in SUBSET Nat /\ 0 \in T
  OBVIOUS
<1>2. \A n \in T : n + 1 \in T
  OBVIOUS
<1>3. T = Nat
  <2> HIDE DEF T
  <2> QED
    BY <1>1, <1>2, NatInduct
<1> QED
  BY <1>3

(* g is what a loop of N turns computes from c, when step[<<k, x>>] is what *)
(* turn k makes of x.                                                      *)
FollowsSteps(g, N, S, c, step) ==
    /\ g \in [0 .. N -> S] /\ g[0] = c
    /\ \A k \in 1 .. N : g[k] = step[<<k, g[k - 1]>>]

(* There is such a function: a recursive definition over 0..N has a value. *)
LEMMA RecursionUpTo ==
    ASSUME NEW N \in Nat, NEW S, NEW c \in S, NEW step \in [(1 .. N) \X S -> S]
    PROVE  \E g : FollowsSteps(g, N, S, c, step)
<1> DEFINE Good(n, g) == g[0] = c /\ \A k \in 1 .. n : g[k] = step[<<k, g[k - 1]>>]
           T == {n \in 0 .. N : \E g \in [0 .. n -> S] : Good(n, g)}
<1>1. 0 \in T
  <2> DEFINE g == [k \in 0 .. 0 |-> c]
  <2>1. g \in [0 .. 0 -> S] /\ Good(0, g)
    OBVIOUS
  <2> HIDE DEF Good, g
  <2> QED
    BY <2>1
<1>2. ASSUME NEW n \in 0 .. N - 1, n \in T PROVE n + 1 \in T
  <2>1. PICK g \in [0 .. n -> S] : Good(n, g)
    BY <1>2
  <2> DEFINE x == step[<<n + 1, g[n]>>]
             h == [k \in 0 .. n + 1 |-> IF k = n + 1 THEN x ELSE g[k]]
  <2>2. n + 1 \in 1 .. N /\ n \in 0 .. n /\ g[n] \in S
    OBVIOUS
  <2>3. x \in S
    BY <2>2
  <2> HIDE DEF x
  <2>4. h \in [0 .. n + 1 -> S] /\ h[n + 1] = x /\ \A k \in 0 .. n : h[k] = g[k]
    BY <2>3
  <2> HIDE DEF h
  <2>5. ASSUME NEW k \in 1 .. n + 1 PROVE h[k] = step[<<k, h[k - 1]>>]
    <3>1. CASE k = n + 1
      <4>1. k - 1 = n /\ h[n] = g[n]
        BY <2>2, <2>4, <3>1
      <4> QED
        BY <2>4, <3>1, <4>1 DEF x
    <3>2. CASE k \in 1 .. n
      BY <2>1, <2>4, <3>2
    <3> QED
      BY <3>1, <3>2
  <2>6. h[0] = c
    BY <2>1, <2>4
  <2>7. Good(n + 1, h)
    BY <2>5, <2>6
  <2> HIDE DEF Good
  <2> QED
    BY <2>2, <2>4, <2>7
<1>3. N \in T
  <2>1. \A n \in 0 .. N - 1 : n \in T => n + 1 \in T
    BY <1>2
  <2> HIDE DEF T
  <2>2. 0 .. N \subseteq T
    BY <1>1, <2>1, InductUpTo
  <2> QED
    BY <2>2
<1> QED
  BY <1>3 DEF FollowsSteps

(* The same for a loop whose turns can be taken only from the states that  *)
(* its invariant allows: Inv has <<k, x>> when x may be there after k turns. *)
LEMMA RecursionUnder ==
    ASSUME NEW N \in Nat, NEW S, NEW c, NEW step, NEW Inv \in SUBSET ((0 .. N) \X S),
           <<0, c>> \in Inv,
           \A k \in 1 .. N, v \in S : <<k - 1, v>> \in Inv => <<k, step[<<k, v>>]>> \in Inv
    PROVE  \E g : FollowsSteps(g, N, S, c, step) /\ \A k \in 0 .. N : <<k, g[k]>> \in Inv
<1> DEFINE Goes(k, v) == <<k - 1, v>> \in Inv
           guarded == [p \in (1 .. N) \X S |-> IF Goes(p[1], p[2]) THEN step[p] ELSE p[2]]
<1>1. c \in S /\ \A k \in 0 .. N : \A v : <<k, v>> \in Inv => v \in S
  OBVIOUS
<1>2. ASSUME NEW k \in 1 .. N, NEW v \in S
      PROVE  guarded[<<k, v>>] = IF Goes(k, v) THEN step[<<k, v>>] ELSE v
  OBVIOUS
<1>3. guarded \in [(1 .. N) \X S -> S]
  <2>1. ASSUME NEW k \in 1 .. N, NEW v \in S
        PROVE  (IF Goes(k, v) THEN step[<<k, v>>] ELSE v) \in S
    BY <1>1
  <2> HIDE DEF Goes
  <2> SUFFICES ASSUME NEW p \in (1 .. N) \X S
               PROVE  (IF Goes(p[1], p[2]) THEN step[p] ELSE p[2]) \in S
    OBVIOUS
  <2>2. p = <<p[1], p[2]>> /\ p[1] \in 1 .. N /\ p[2] \in S
    OBVIOUS
  <2> QED
    BY <2>1, <2>2
<1> HIDE DEF guarded
<1>4. PICK g : FollowsSteps(g, N, S, c, guarded)
  BY <1>1, <1>3, RecursionUpTo
<1>5. g \in [0 .. N -> S] /\ g[0] = c /\ \A k \in 1 .. N : g[k] = guarded[<<k, g[k - 1]>>]
  BY <1>4 DEF FollowsSteps
<1> DEFINE T == {k \in 0 .. N : <<k, g[k]>> \in Inv}
<1>6. ASSUME NEW k \in 1 .. N, <<k - 1, g[k - 1]>> \in Inv
      PROVE  g[k] = step[<<k, g[k - 1]>>] /\ <<k, g[k]>> \in Inv
  <2>1. k - 1 \in 0 .. N /\ g[k - 1] \in S
    BY <1>5
  <2>2. guarded[<<k, g[k - 1]>>] = step[<<k, g[k - 1]>>]
    BY <1>2, <1>6, <2>1
  <2>3. <<k, step[<<k, g[k - 1]>>]>> \in Inv
    BY <1>6, <2>1
  <2> QED
    BY <1>5, <2>2, <2>3
<1>7. 0 .. N \subseteq T
  <2>1. 0 \in T
    BY <1>5
  <2>2. \A k \in 0 .. N - 1 : k \in T => k + 1 \in T
    <3> SUFFICES ASSUME NEW k \in 0 .. N - 1, <<k, g[k]>> \in Inv
                 PROVE  <<k + 1, g[k + 1]>> \in Inv /\ k + 1 \in 0 .. N
      OBVIOUS
    <3>1. k + 1 \in 1 .. N /\ (k + 1) - 1 = k /\ k + 1 \in 0 .. N
      OBVIOUS
    <3> QED
      BY <1>6, <3>1
  <2> HIDE DEF T
  <2> QED
    BY <2>1, <2>2, InductUpTo
<1>8. \A k \in 1 .. N : g[k] = step[<<k, g[k - 1]>>]
  <2> SUFFICES ASSUME NEW k \in 1 .. N PROVE <<k - 1, g[k - 1]>> \in Inv
    BY <1>6
  <2>1. k - 1 \in 0 .. N
    OBVIOUS
  <2> QED
    BY <1>7, <2>1
<1> QED
  BY <1>5, <1>7, <1>8 DEF FollowsSteps
=============================================================================
