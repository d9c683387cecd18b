------------------------- MODULE ReorderQueueProofs -------------------------
(***************************************************************************)
(* Theorems about ReorderQueue for every ring size and serial number width.*)
(*                                                                         *)
(* The argument: all comparisons push makes speak about the distance d     *)
(* from begin to the pushed number, and window offsets below Size name     *)
(* different ring entries, since Size divides the number circle.  So each  *)
(* action changes exactly the window offsets it means to.  With the        *)
(* elements held known after each action (PushFillHolds and its like), the *)
(* positions of pos and place are those of OrderedDelivery.                *)
(***************************************************************************)
EXTENDS ReorderQueue, SeqNumProofs

LEMMA SizeFacts ==
    /\ Size \in Nat /\ Size > 1 /\ Size < SeqHalf
    /\ SeqMod \in Nat /\ SeqHalf \in Nat /\ SeqMod = 2 * SeqHalf
  BY SizeAssumption, SeqModType

LEMMA IdxType ==
    ASSUME NEW s \in SeqNums
    PROVE  Idx(s) \in Indices
<1>1. s \in Nat /\ Size \in Nat \ {0}
  BY SizeFacts DEF SeqNums
<1> QED
  BY <1>1 DEF Idx, Indices

(* A positive multiple of M is at least M. *)
LEMMA PositiveMultiple ==
    ASSUME NEW M \in Nat \ {0}, NEW q \in Int, M * q > 0
    PROVE  M * q >= M
<1>1. q > 0
  <2> SUFFICES ASSUME q <= 0 PROVE FALSE
    OBVIOUS
  <2>1. M * q <= 0
    BY Z3
  <2> QED
    BY <2>1
<1>2. q = 1 \/ q >= 2
  BY <1>1
<1>3. M * q = M + M * (q - 1)
  BY Z3
<1>4. M * (q - 1) >= 0
  BY <1>1, Z3
<1> QED
  BY <1>3, <1>4

(* Numbers that share a ring entry lie a multiple of Size apart. *)
LEMMA SameEntryMultiple ==
    ASSUME NEW s \in SeqNums, NEW t \in SeqNums, Idx(s) = Idx(t)
    PROVE  \E q \in Int : t - s = Size * q
<1> DEFINE qs == s \div Size
           qt == t \div Size
           r  == s % Size
<1>1. Size \in Nat \ {0} /\ s \in Nat /\ t \in Nat
  BY SizeFacts DEF SeqNums
<1>2. qs \in Int /\ qt \in Int /\ r \in Int
  BY <1>1
<1>3. s = Size * qs + r
  BY <1>1
<1>4. t = Size * qt + r
  BY <1>1 DEF Idx
<1> HIDE DEF qs, qt, r
<1>5. t - s = Size * (qt - qs)
  BY <1>1, <1>2, <1>3, <1>4
<1> QED
  BY <1>2, <1>5

(* The number circle is a multiple of the ring. *)
LEMMA CircleMultiple == \E k \in Int : SeqMod = Size * k
<1> DEFINE h == SeqHalf \div Size
<1>1. Size \in Nat \ {0} /\ SeqHalf \in Nat
  BY SizeFacts
<1>2. h \in Int /\ SeqHalf = Size * h + (SeqHalf % Size)
  BY <1>1
<1>3. SeqHalf = Size * h
  BY <1>1, <1>2, SizeAssumption
<1> HIDE DEF h
<1>4. SeqMod = Size * (h + h)
  <2>1. Size * (h + h) = Size * h + Size * h
    BY <1>1, <1>2, Z3
  <2>2. SeqMod = SeqHalf + SeqHalf
    BY SizeFacts
  <2> QED
    BY <1>3, <2>1, <2>2
<1>5. h + h \in Int
  BY <1>2
<1> QED
  BY <1>4, <1>5

(* Different offsets of one window use different ring entries. *)
LEMMA IdxDistinct ==
    ASSUME NEW b \in SeqNums, NEW i \in Indices, NEW j \in Indices, i < j
    PROVE  Idx(SeqAdd(b, i)) # Idx(SeqAdd(b, j))
<1> DEFINE s == SeqAdd(b, i)
           t == SeqAdd(b, j)
<1>1. i \in 0 .. SeqMod /\ j \in 0 .. SeqMod /\ i \in Int /\ j \in Int /\ j - i < Size
  BY SizeFacts DEF Indices
<1>2. s \in SeqNums /\ s = IF b + i < SeqMod THEN b + i ELSE b + i - SeqMod
  BY <1>1, SeqAddCases
<1>3. t \in SeqNums /\ t = IF b + j < SeqMod THEN b + j ELSE b + j - SeqMod
  BY <1>1, SeqAddCases
<1> HIDE DEF s, t
<1>4. t - s = j - i \/ t - s = j - i - SeqMod
  BY <1>1, <1>2, <1>3, SizeFacts DEF SeqNums
<1> SUFFICES ASSUME Idx(s) = Idx(t) PROVE FALSE
  BY DEF s, t
<1>5. PICK q \in Int : t - s = Size * q
  BY <1>2, <1>3, SameEntryMultiple
<1>6. PICK k \in Int : SeqMod = Size * k
  BY CircleMultiple
<1>7. PICK m \in Int : j - i = Size * m
  <2>1. CASE t - s = j - i
    BY <2>1, <1>5
  <2>2. CASE t - s = j - i - SeqMod
    <3>1. j - i = Size * q + Size * k
      BY <2>2, <1>1, <1>5, <1>6, SizeFacts
    <3>2. Size * q + Size * k = Size * (q + k)
      BY SizeFacts, Z3
    <3> QED
      BY <3>1, <3>2
  <2> QED
    BY <1>4, <2>1, <2>2
<1>8. Size * m > 0
  BY <1>1, <1>7
<1>9. Size * m >= Size
  BY <1>8, PositiveMultiple, SizeFacts
<1> QED
  BY <1>1, <1>7, <1>9, SizeFacts

-----------------------------------------------------------------------------
(* What the comparisons of push say about the distance from begin.         *)

LEMMA SizesAsSteps ==
    ASSUME TypeOK
    PROVE  /\ begin \in SeqNums /\ count \in 0 .. SeqMod /\ Size \in 0 .. SeqMod
           /\ count \in Nat /\ count <= Size
           /\ End \in SeqNums
           /\ End = IF begin + count < SeqMod THEN begin + count ELSE begin + count - SeqMod
           /\ TotalEnd \in SeqNums
           /\ TotalEnd = IF begin + Size < SeqMod THEN begin + Size ELSE begin + Size - SeqMod
<1>1. begin \in SeqNums /\ count \in 0 .. SeqMod /\ Size \in 0 .. SeqMod
  BY SizeFacts DEF TypeOK
<1> QED
  BY <1>1, SeqAddCases, SizeFacts DEF TypeOK, End, TotalEnd

LEMMA NextNum ==
    ASSUME NEW s \in SeqNums
    PROVE  /\ SeqAdd(s, 1) \in SeqNums
           /\ SeqAdd(s, 1) = IF s + 1 < SeqMod THEN s + 1 ELSE s + 1 - SeqMod
<1>1. 1 \in 0 .. SeqMod
  BY SizeFacts
<1> QED
  BY <1>1, SeqAddCases

LEMMA WindowOffset ==
    ASSUME TypeOK, NEW s \in SeqNums, InWindow(s)
    PROVE  SeqDist(begin, s) \in 0 .. count - 1 /\ ~SeqLt(s, begin)
<1> DEFINE d == SeqDist(begin, s)
           e == End
<1>1. /\ begin \in SeqNums /\ e \in SeqNums /\ count \in Nat /\ count <= Size
      /\ e = IF begin + count < SeqMod THEN begin + count ELSE begin + count - SeqMod
  BY SizesAsSteps
<1>2. d = IF begin <= s THEN s - begin ELSE s - begin + SeqMod
  BY <1>1, SeqDistCases
<1>3. SeqGe(s, begin) /\ SeqLt(s, e)
  BY DEF InWindow
<1> HIDE DEF d, e
<1>4. d \in 0 .. count - 1 /\ ~SeqLt(s, begin)
  BY <1>1, <1>2, <1>3, SizeFacts DEF SeqGe, SeqGt, SeqLt, SeqNums
<1> QED
  BY <1>4 DEF d

LEMMA AheadOffset ==
    ASSUME TypeOK, NEW s \in SeqNums, Ahead(s), ~Overflows(s)
    PROVE  SeqDist(begin, s) \in count .. Size - 1
<1> DEFINE d == SeqDist(begin, s)
           e == End
           t == TotalEnd
           n == SeqAdd(s, 1)
<1>1. /\ begin \in SeqNums /\ e \in SeqNums /\ t \in SeqNums /\ count \in Nat /\ count <= Size
      /\ e = IF begin + count < SeqMod THEN begin + count ELSE begin + count - SeqMod
      /\ t = IF begin + Size < SeqMod THEN begin + Size ELSE begin + Size - SeqMod
  BY SizesAsSteps
<1>2. d = IF begin <= s THEN s - begin ELSE s - begin + SeqMod
  BY <1>1, SeqDistCases
<1>3. n \in SeqNums /\ n = IF s + 1 < SeqMod THEN s + 1 ELSE s + 1 - SeqMod
  BY NextNum
<1>4. ~SeqLt(s, begin) /\ SeqGe(s, e) /\ ~SeqLt(t, n)
  BY DEF Ahead, Overflows
<1> HIDE DEF d, e, t, n
<1>5. d >= count
  BY <1>1, <1>2, <1>4, SizeFacts DEF SeqGe, SeqGt, SeqLt, SeqNums
<1>6. d < Size
  BY <1>1, <1>2, <1>3, <1>4, SizeFacts DEF SeqLt, SeqNums
<1>7. d \in Int
  BY <1>1, <1>2, SizeFacts DEF SeqNums
<1>8. d \in count .. Size - 1
  BY <1>1, <1>5, <1>6, <1>7, SizeFacts
<1> QED
  BY <1>8 DEF d

LEMMA SlideOffset ==
    ASSUME TypeOK, NEW s \in SeqNums, Ahead(s), Overflows(s)
    PROVE  /\ SeqDist(TotalEnd, SeqAdd(s, 1)) \in 1 .. SeqHalf - 1
           /\ SeqDist(begin, s) = SeqDist(TotalEnd, SeqAdd(s, 1)) + Size - 1
<1> DEFINE d == SeqDist(begin, s)
           t == TotalEnd
           n == SeqAdd(s, 1)
           x == SeqDist(t, n)
<1>1. /\ begin \in SeqNums /\ t \in SeqNums
      /\ t = IF begin + Size < SeqMod THEN begin + Size ELSE begin + Size - SeqMod
  BY SizesAsSteps
<1>2. d = IF begin <= s THEN s - begin ELSE s - begin + SeqMod
  BY <1>1, SeqDistCases
<1>3. n \in SeqNums /\ n = IF s + 1 < SeqMod THEN s + 1 ELSE s + 1 - SeqMod
  BY NextNum
<1>4. SeqLt(t, n)
  BY DEF Overflows
<1>5. x = IF t <= n THEN n - t ELSE n - t + SeqMod
  BY <1>1, <1>3, SeqDistCases
<1> HIDE DEF d, t, n, x
<1>6. x \in 1 .. SeqHalf - 1
  BY <1>1, <1>3, <1>4, <1>5, SizeFacts DEF SeqLt, SeqNums
<1>7. d = x + Size - 1
  BY <1>1, <1>2, <1>3, <1>5, <1>6, SizeFacts DEF SeqNums
<1> QED
  BY <1>6, <1>7 DEF d, t, n, x

-----------------------------------------------------------------------------
(* What Grow does to the entries of a window that starts at b, holds c      *)
(* entries and is grown to take in s at offset d.                          *)

LEMMA GrownBySteps ==
    ASSUME NEW b \in SeqNums, NEW c \in Nat, NEW d \in Nat, c <= d, d < Size,
           NEW s \in SeqNums, s = SeqAdd(b, d)
    PROVE  GrownBy(b, c, s) = d + 1 - c
<1> DEFINE e == SeqAdd(b, c)
           n == SeqAdd(s, 1)
           x == SeqDist(e, n)
<1>1. c \in 0 .. SeqMod /\ d \in 0 .. SeqMod
  BY SizeFacts
<1>2. e \in SeqNums /\ e = IF b + c < SeqMod THEN b + c ELSE b + c - SeqMod
  BY <1>1, SeqAddCases
<1>3. s = IF b + d < SeqMod THEN b + d ELSE b + d - SeqMod
  BY <1>1, SeqAddCases
<1>4. n \in SeqNums /\ n = IF s + 1 < SeqMod THEN s + 1 ELSE s + 1 - SeqMod
  BY NextNum
<1>5. x = IF e <= n THEN n - e ELSE n - e + SeqMod
  BY <1>2, <1>4, SeqDistCases
<1>6. GrownBy(b, c, s) = IF SeqLt(e, n) THEN x ELSE 0
  BY DEF GrownBy
<1> HIDE DEF e, n, x
<1>7. x = d + 1 - c
  BY <1>2, <1>3, <1>4, <1>5, SizeFacts DEF SeqNums
<1>8. SeqLt(e, n)
  BY <1>2, <1>4, <1>5, <1>7, SizeFacts DEF SeqLt, SeqNums
<1> QED
  BY <1>6, <1>7, <1>8

LEMMA GrowEffect ==
    ASSUME slots \in [Indices -> Entry],
           NEW b \in SeqNums, NEW c \in Nat, NEW d \in Nat, c <= d, d < Size,
           NEW s \in SeqNums, s = SeqAdd(b, d), NEW elem \in Elements,
           Grow(b, c, s, elem)
    PROVE  /\ begin' = b
           /\ count' = d + 1
           /\ slots' \in [Indices -> Entry]
           /\ \A i \in 0 .. c - 1 : slots'[Idx(SeqAdd(b, i))] = slots[Idx(SeqAdd(b, i))]
           /\ \A i \in c .. d - 1 : ~slots'[Idx(SeqAdd(b, i))].set
           /\ slots'[Idx(SeqAdd(b, d))] = [set |-> TRUE, user |-> elem]
<1> DEFINE slot(i) == Idx(SeqAdd(b, i))
           fresh == {slot(c + k) : k \in 0 .. d - c}
<1>1. GrownBy(b, c, s) = d + 1 - c
  BY GrownBySteps
<1>2. begin' = b /\ count' = d + 1
  BY <1>1 DEF Grow
<1>3. slots' = [i \in Indices |->
                  IF i = Idx(s) THEN [set |-> TRUE, user |-> elem]
                  ELSE IF i \in fresh THEN [slots[i] EXCEPT !.set = FALSE]
                  ELSE slots[i]]
  <2>1. fresh = {Idx(SeqAdd(b, c + k)) : k \in 0 .. GrownBy(b, c, s) - 1}
    BY <1>1
  <2> QED
    BY <2>1 DEF Grow
<1>4. \A i \in Indices : slot(i) \in Indices
  <2> TAKE i \in Indices
  <2>1. i \in 0 .. SeqMod
    BY SizeFacts DEF Indices
  <2>2. SeqAdd(b, i) \in SeqNums
    BY <2>1, SeqAddCases
  <2> QED
    BY <2>2, IdxType
<1>5. \A i, j \in Indices : i # j => slot(i) # slot(j)
  <2> TAKE i, j \in Indices
  <2>1. CASE i < j
    BY <2>1, IdxDistinct
  <2>2. CASE j < i
    BY <2>2, IdxDistinct
  <2> QED
    BY <2>1, <2>2 DEF Indices
<1>6. d \in Indices /\ Idx(s) = slot(d)
  BY SizeFacts DEF Indices
<1>7. ASSUME NEW i \in c .. d - 1
      PROVE  i \in Indices /\ slot(i) \in fresh
  <2>1. i - c \in 0 .. d - c /\ c + (i - c) = i
    OBVIOUS
  <2>2. i \in Indices
    BY SizeFacts DEF Indices
  <2> QED
    BY <2>1, <2>2
<1>8. ASSUME NEW i \in 0 .. c - 1
      PROVE  i \in Indices /\ slot(i) \notin fresh
  <2>1. i \in Indices
    BY SizeFacts DEF Indices
  <2>2. \A k \in 0 .. d - c : c + k \in Indices /\ c + k # i
    BY SizeFacts DEF Indices
  <2> QED
    BY <2>1, <2>2, <1>5
<1> HIDE DEF slot, fresh
<1>9. slots' \in [Indices -> Entry]
  <2>1. \A i \in Indices : slots[i] \in Entry /\ [slots[i] EXCEPT !.set = FALSE] \in Entry
    BY DEF Entry
  <2>2. [set |-> TRUE, user |-> elem] \in Entry
    BY DEF Entry
  <2> QED
    BY <1>3, <2>1, <2>2
<1>10. slots'[slot(d)] = [set |-> TRUE, user |-> elem]
  BY <1>3, <1>4, <1>6
<1>11. \A i \in c .. d - 1 : ~slots'[slot(i)].set
  <2> TAKE i \in c .. d - 1
  <2>1. slot(i) \in Indices /\ slot(i) \in fresh /\ slot(i) # Idx(s)
    BY <1>4, <1>5, <1>6, <1>7
  <2>2. slots'[slot(i)] = [slots[slot(i)] EXCEPT !.set = FALSE]
    BY <1>3, <2>1
  <2>3. slots[slot(i)] \in Entry
    BY <2>1
  <2> QED
    BY <2>2, <2>3 DEF Entry
<1>12. \A i \in 0 .. c - 1 : slots'[slot(i)] = slots[slot(i)]
  <2> TAKE i \in 0 .. c - 1
  <2>1. i # d
    OBVIOUS
  <2>2. slot(i) \in Indices /\ slot(i) \notin fresh /\ slot(i) # Idx(s)
    BY <1>4, <1>5, <1>6, <1>8, <2>1
  <2> QED
    BY <1>3, <2>2
<1> QED
  BY <1>2, <1>9, <1>10, <1>11, <1>12 DEF slot

-----------------------------------------------------------------------------
(* The entries of the window are those of the numbers they stand for.      *)

Inv == TypeOK /\ EntriesMatchSerials

(* Growing the window after moving it on by shift: what is kept of the old *)
(* window keeps its meaning, the elements between are free, and the entry  *)
(* at d stands for the element pushed.                                     *)
LEMMA GrowKeepsMatch ==
    ASSUME Inv, NEW shift \in Nat, NEW b \in SeqNums, NEW c \in Nat, NEW d \in Nat,
           c <= d, d < Size, NEW s \in SeqNums, s = SeqAdd(b, d),
           NEW elem \in Elements, elem \notin DOMAIN place,
           Grow(b, c, s, elem),
           \A i \in 0 .. c - 1 : /\ shift + i < count
                                 /\ slots[Idx(SeqAdd(b, i))] = At(shift + i),
           pos' = pos + shift,
           place' = [e \in DOMAIN place \cup {elem} |->
                        IF e = elem THEN pos' + d ELSE place[e]]
    PROVE  /\ EntriesMatchSerials'
           /\ slots' \in [Indices -> Entry]
           /\ begin' \in SeqNums
           /\ count' \in 0 .. Size
           /\ pos' \in Nat
           /\ DOMAIN place' \subseteq Elements
           /\ place' \in [DOMAIN place' -> Int]
<1>1. /\ begin' = b
      /\ count' = d + 1
      /\ slots' \in [Indices -> Entry]
      /\ \A i \in 0 .. c - 1 : slots'[Idx(SeqAdd(b, i))] = slots[Idx(SeqAdd(b, i))]
      /\ \A i \in c .. d - 1 : ~slots'[Idx(SeqAdd(b, i))].set
      /\ slots'[Idx(SeqAdd(b, d))] = [set |-> TRUE, user |-> elem]
  BY GrowEffect DEF Inv, TypeOK
<1>2. count' \in 0 .. Size /\ pos' \in Nat
  BY <1>1, SizeFacts DEF Inv, TypeOK
<1>3. DOMAIN place' = DOMAIN place \cup {elem} /\ place'[elem] = pos + shift + d
  OBVIOUS
<1>4. \A e \in DOMAIN place : place'[e] = place[e] /\ place[e] \in Int
  BY DEF Inv, TypeOK
<1>5. DOMAIN place' \subseteq Elements /\ place' \in [DOMAIN place' -> Int]
  <2>1. \A e \in DOMAIN place' : place'[e] \in Int
    BY <1>2, <1>3, <1>4
  <2> QED
    BY <1>3, <2>1 DEF Inv, TypeOK
<1>6. ASSUME NEW i \in Indices, Held(i)'
      PROVE  At(i)'.user \in DOMAIN place' /\ place'[At(i)'.user] = pos' + i
  <2>1. i \in Nat /\ i < d + 1 /\ At(i)' = slots'[Idx(SeqAdd(b, i))] /\ At(i)'.set
    BY <1>1, <1>6 DEF Held, At, Indices
  <2>2. CASE i < c
    <3>1. At(i)' = At(shift + i) /\ shift + i < count
      <4>1. i \in 0 .. c - 1
        BY <2>1, <2>2
      <4> QED
        BY <1>1, <2>1, <4>1
    <3>2. shift + i \in Indices /\ Held(shift + i)
      <4>1. PICK j : j = shift + i
        OBVIOUS
      <4>2. j \in Indices /\ j < count
        <5>1. count \in 0 .. Size /\ Size \in Nat
          BY SizeFacts DEF Inv, TypeOK
        <5>2. shift \in Nat /\ i \in Nat /\ shift + i < count
          BY <2>1, <3>1
        <5> QED
          BY ONLY <4>1, <5>1, <5>2 DEF Indices
      <4> QED
        BY <2>1, <3>1, <4>1, <4>2 DEF Held
    <3>3. At(shift + i).user \in DOMAIN place /\ place[At(shift + i).user] = pos + (shift + i)
      <4>1. \A j \in Indices : Held(j) => At(j).user \in DOMAIN place /\ place[At(j).user] = pos + j
        BY DEF Inv, EntriesMatchSerials
      <4> QED
        BY <3>2, <4>1
    <3> QED
      BY <1>3, <1>4, <2>1, <3>1, <3>3 DEF Inv, TypeOK
  <2>3. CASE i \in c .. d - 1
    BY <1>1, <2>1, <2>3
  <2>4. CASE i = d
    <3>1. At(i)'.user = elem
      BY <1>1, <2>1, <2>4
    <3> QED
      BY <1>3, <2>4, <3>1 DEF Inv, TypeOK
  <2> QED
    BY <2>1, <2>2, <2>3, <2>4
<1> QED
  BY <1>1, <1>2, <1>5, <1>6 DEF EntriesMatchSerials

(* The number pushed into the window or ahead of it means a place of begin on. *)
LEMMA PlaceAhead ==
    ASSUME TypeOK, NEW s \in SeqNums, ~SeqLt(s, begin)
    PROVE  PlaceOf(s) = pos + SeqDist(begin, s)
  BY DEF PlaceOf

LEMMA PlaceType ==
    ASSUME TypeOK, NEW s \in SeqNums
    PROVE  PlaceOf(s) \in Int
<1>1. SeqDist(begin, s) \in Int /\ SeqDist(s, begin) \in Int
  BY SeqDistCases, SizeFacts DEF TypeOK, SeqNums
<1> QED
  BY <1>1 DEF PlaceOf, TypeOK

LEMMA GiveBackType ==
    ASSUME given \in [Elements -> Nat], NEW users, GiveBack(users)
    PROVE  given' \in [Elements -> Nat]
  BY DEF GiveBack

-----------------------------------------------------------------------------
(* Every action keeps the invariant. *)

LEMMA SlotAt ==
    ASSUME TypeOK, NEW i \in Indices
    PROVE  Idx(SeqAdd(begin, i)) \in Indices /\ At(i) \in Entry
<1>1. i \in 0 .. SeqMod
  BY SizeFacts DEF Indices
<1>2. SeqAdd(begin, i) \in SeqNums
  BY <1>1, SeqAddCases DEF TypeOK
<1> QED
  BY <1>2, IdxType DEF At, TypeOK

LEMMA SlotsDiffer ==
    ASSUME TypeOK, NEW i \in Indices, NEW j \in Indices, i # j
    PROVE  Idx(SeqAdd(begin, i)) # Idx(SeqAdd(begin, j))
<1>1. begin \in SeqNums /\ (i < j \/ j < i)
  BY DEF TypeOK, Indices
<1> QED
  BY <1>1, IdxDistinct

LEMMA InitInv == Init => Inv
<1> SUFFICES ASSUME Init PROVE Inv
  OBVIOUS
<1>1. TypeOK
  BY SizeAssumption, SizeFacts DEF Init, TypeOK, Entry
<1>2. EntriesMatchSerials
  BY DEF Init, EntriesMatchSerials, Held, Indices
<1> QED
  BY <1>1, <1>2 DEF Inv

LEMMA PushFillInv ==
    ASSUME Inv, NEW s \in SeqNums, NEW elem \in Elements, PushFill(s, elem)
    PROVE  Inv'
<1> DEFINE d == SeqDist(begin, s)
<1>1. d \in 0 .. count - 1 /\ ~SeqLt(s, begin)
  BY WindowOffset DEF Inv, PushFill
<1>2. s = SeqAdd(begin, d) /\ PlaceOf(s) = pos + d
  BY <1>1, SeqAddDist, PlaceAhead DEF Inv, TypeOK
<1> HIDE DEF d
<1>3. d \in Indices
  BY <1>1, SizeFacts DEF Inv, TypeOK, Indices
<1>4. /\ slots' = [slots EXCEPT ![Idx(SeqAdd(begin, d))] = [set |-> TRUE, user |-> elem]]
      /\ elem \notin DOMAIN place
      /\ place' = [e \in DOMAIN place \cup {elem} |-> IF e = elem THEN pos + d ELSE place[e]]
      /\ UNCHANGED <<begin, count, status, pos, given, pulled, drop_strategy, dropped>>
  BY <1>2 DEF PushFill, Pushing
<1>5. slots' \in [Indices -> Entry]
  BY <1>3, <1>4, SlotAt DEF Inv, TypeOK, Entry
<1>6. \A e \in DOMAIN place : place'[e] = place[e] /\ place[e] \in Int
  BY <1>4 DEF Inv, TypeOK
<1>7. DOMAIN place' = DOMAIN place \cup {elem} /\ place'[elem] = pos + d /\ pos + d \in Int
  BY <1>3, <1>4 DEF Inv, TypeOK, Indices
<1>8. TypeOK'
  <2>1. DOMAIN place' \subseteq Elements /\ place' \in [DOMAIN place' -> Int]
    BY <1>4, <1>6, <1>7 DEF Inv, TypeOK
  <2> QED
    BY <1>4, <1>5, <2>1 DEF Inv, TypeOK
<1>9. ASSUME NEW i \in Indices, Held(i)'
      PROVE  At(i)'.user \in DOMAIN place' /\ place'[At(i)'.user] = pos' + i
  <2>1. CASE i = d
    <3>1. At(i)' = [set |-> TRUE, user |-> elem]
      BY <1>3, <1>4, <2>1, SlotAt DEF Inv, TypeOK, At
    <3> QED
      BY <1>4, <1>7, <2>1, <3>1
  <2>2. CASE i # d
    <3>1. At(i)' = At(i)
      BY <1>3, <1>4, <2>2, SlotAt, SlotsDiffer DEF Inv, TypeOK, At
    <3>2. Held(i)
      BY <1>4, <1>9, <3>1 DEF Held
    <3> QED
      BY <1>4, <1>6, <1>7, <3>1, <3>2 DEF Inv, EntriesMatchSerials
  <2> QED
    BY <2>1, <2>2
<1> QED
  BY <1>8, <1>9 DEF Inv, EntriesMatchSerials

LEMMA PushRefuseInv ==
    ASSUME Inv, NEW s \in SeqNums, NEW elem \in Elements, PushRefuse(s, elem)
    PROVE  Inv'
<1>1. /\ elem \notin DOMAIN place
      /\ place' = [e \in DOMAIN place \cup {elem} |-> IF e = elem THEN PlaceOf(s) ELSE place[e]]
      /\ UNCHANGED <<slots, begin, count, status, pos, pulled, drop_strategy, dropped>>
  BY DEF PushRefuse, Pushing, queueVars
<1>2. given' \in [Elements -> Nat]
  BY GiveBackType DEF Inv, TypeOK, PushRefuse
<1>3. PlaceOf(s) \in Int
  BY PlaceType DEF Inv
<1>4. \A e \in DOMAIN place : place'[e] = place[e] /\ place[e] \in Int
  BY <1>1 DEF Inv, TypeOK
<1>5. DOMAIN place' = DOMAIN place \cup {elem} /\ place'[elem] = PlaceOf(s)
  BY <1>1
<1>6. TypeOK'
  <2>1. DOMAIN place' \subseteq Elements /\ place' \in [DOMAIN place' -> Int]
    BY <1>1, <1>3, <1>4, <1>5 DEF Inv, TypeOK
  <2> QED
    BY <1>1, <1>2, <2>1 DEF Inv, TypeOK
<1>7. EntriesMatchSerials'
  <2> SUFFICES ASSUME NEW i \in Indices, Held(i)'
               PROVE  At(i)'.user \in DOMAIN place' /\ place'[At(i)'.user] = pos' + i
    BY DEF EntriesMatchSerials
  <2>1. At(i)' = At(i) /\ Held(i)
    BY <1>1 DEF Held, At
  <2> QED
    BY <1>1, <1>4, <1>5, <2>1 DEF Inv, EntriesMatchSerials
<1> QED
  BY <1>6, <1>7 DEF Inv

LEMMA PushExtendInv ==
    ASSUME Inv, NEW s \in SeqNums, NEW elem \in Elements, PushExtend(s, elem)
    PROVE  Inv'
<1> DEFINE d == SeqDist(begin, s)
<1>1. d \in count .. Size - 1 /\ ~SeqLt(s, begin)
  BY AheadOffset DEF Inv, PushExtend, Ahead
<1>2. s = SeqAdd(begin, d) /\ PlaceOf(s) = pos + d
  BY <1>1, SeqAddDist, PlaceAhead DEF Inv, TypeOK
<1> HIDE DEF d
<1>3. d \in Nat /\ count \in Nat /\ count <= d /\ d < Size /\ begin \in SeqNums /\ pos \in Nat
  BY <1>1, SizeFacts DEF Inv, TypeOK
<1>4. /\ Grow(begin, count, s, elem)
      /\ elem \notin DOMAIN place
      /\ UNCHANGED <<status, pos, given, pulled, drop_strategy, dropped>>
      /\ place' = [e \in DOMAIN place \cup {elem} |-> IF e = elem THEN PlaceOf(s) ELSE place[e]]
  BY DEF PushExtend, Pushing
<1>5. \A i \in 0 .. count - 1 : 0 + i < count /\ slots[Idx(SeqAdd(begin, i))] = At(0 + i)
  BY <1>3 DEF At
<1>6. pos' = pos + 0 /\ PlaceOf(s) = pos' + d
  BY <1>2, <1>3, <1>4
<1>7. place' = [e \in DOMAIN place \cup {elem} |-> IF e = elem THEN pos' + d ELSE place[e]]
  BY <1>4, <1>6
<1>8. /\ EntriesMatchSerials'
      /\ slots' \in [Indices -> Entry]
      /\ begin' \in SeqNums
      /\ count' \in 0 .. Size
      /\ pos' \in Nat
      /\ DOMAIN place' \subseteq Elements
      /\ place' \in [DOMAIN place' -> Int]
  BY <1>2, <1>3, <1>4, <1>5, <1>6, <1>7, 0 \in Nat, GrowKeepsMatch
<1> QED
  BY <1>4, <1>8 DEF Inv, TypeOK

LEMMA PushSlideInv ==
    ASSUME Inv, NEW s \in SeqNums, NEW elem \in Elements, PushSlide(s, elem)
    PROVE  Inv'
<1> DEFINE excess == SeqDist(TotalEnd, SeqAdd(s, 1))
           empty  == excess >= count
           shift  == IF empty THEN SeqDist(begin, s) ELSE excess
           b      == SeqAdd(begin, shift)
           c      == IF empty THEN 0 ELSE count - excess
           d      == IF empty THEN 0 ELSE Size - 1
           lost   == {At(i).user : i \in {j \in 0 .. count - 1 : j < excess /\ At(j).set}}
<1>1. /\ elem \notin DOMAIN place
      /\ Ahead(s) /\ Overflows(s)
      /\ Grow(b, c, s, elem)
      /\ GiveBack(lost)
      /\ pos' = pos + shift
      /\ UNCHANGED <<status, pulled, drop_strategy, dropped>>
      /\ place' = [e \in DOMAIN place \cup {elem} |-> IF e = elem THEN PlaceOf(s) ELSE place[e]]
  BY DEF PushSlide, Pushing
<1>2. excess \in 1 .. SeqHalf - 1 /\ SeqDist(begin, s) = excess + Size - 1
  BY <1>1, SlideOffset DEF Inv
<1>3. ~SeqLt(s, begin) /\ PlaceOf(s) = pos + SeqDist(begin, s)
  BY <1>1, PlaceAhead DEF Inv, Ahead
<1>4. SeqAdd(begin, SeqDist(begin, s)) = s
  BY SeqAddDist DEF Inv, TypeOK
<1>5. count \in Nat /\ count <= Size /\ begin \in SeqNums /\ pos \in Nat
  BY SizeFacts DEF Inv, TypeOK
<1>6. shift \in Nat /\ shift <= SeqMod /\ shift + d = SeqDist(begin, s) /\ shift + d <= SeqMod
  BY <1>2, <1>5, SizeFacts
<1>7. c \in Nat /\ d \in Nat /\ c <= d /\ d < Size
  BY <1>2, <1>5, SizeFacts
<1>8. b \in SeqNums
  BY <1>5, <1>6, SeqAddCases, SizeFacts
<1>9. \A i \in 0 .. c - 1 : shift + i < count /\ shift = excess /\ shift + i <= SeqMod
  BY <1>2, <1>5, SizeFacts
<1>10. given' \in [Elements -> Nat]
  BY <1>1, GiveBackType DEF Inv, TypeOK
<1> HIDE DEF lost, b, c, d, shift, empty, excess
<1>11. s = SeqAdd(b, d)
  <2>1. SeqAdd(SeqAdd(begin, shift), d) = SeqAdd(begin, shift + d)
    BY <1>5, <1>6, <1>7, SeqAddAssoc
  <2> QED
    BY <1>4, <1>6, <2>1 DEF b
<1>12. \A i \in 0 .. c - 1 : shift + i < count /\ slots[Idx(SeqAdd(b, i))] = At(shift + i)
  <2> TAKE i \in 0 .. c - 1
  <2>1. i \in Nat /\ shift + i <= SeqMod
    BY <1>7, <1>9
  <2>2. SeqAdd(SeqAdd(begin, shift), i) = SeqAdd(begin, shift + i)
    BY <1>5, <1>6, <2>1, SeqAddAssoc
  <2> QED
    BY <1>9, <2>2 DEF At, b
<1>13. PlaceOf(s) = pos' + d
  BY <1>1, <1>3, <1>5, <1>6, <1>7
<1>14. place' = [e \in DOMAIN place \cup {elem} |-> IF e = elem THEN pos' + d ELSE place[e]]
  BY <1>1, <1>13
<1>15. /\ EntriesMatchSerials'
       /\ slots' \in [Indices -> Entry]
       /\ begin' \in SeqNums
       /\ count' \in 0 .. Size
       /\ pos' \in Nat
       /\ DOMAIN place' \subseteq Elements
       /\ place' \in [DOMAIN place' -> Int]
  BY <1>1, <1>6, <1>7, <1>8, <1>11, <1>12, <1>14, GrowKeepsMatch
<1> QED
  BY <1>1, <1>10, <1>15 DEF Inv, TypeOK

LEMMA PushAbortInv ==
    ASSUME Inv, NEW s \in SeqNums, NEW elem \in Elements, PushAbort(s, elem)
    PROVE  Inv'
<1>1. status' = "aborted" /\ UNCHANGED <<slots, begin, count, pos, place, given, pulled, drop_strategy, dropped>>
  BY DEF PushAbort, history
<1> QED
  BY <1>1 DEF Inv, TypeOK, EntriesMatchSerials, Held, At

LEMMA PullInv ==
    ASSUME Inv, Pull
    PROVE  Inv'
<1>1. /\ count > 0 /\ count' = count - 1
      /\ begin' = SeqAdd(begin, 1)
      /\ pulled' = Append(pulled, [seq |-> begin, user |-> At(0).user])
      /\ GiveBack({At(0).user})
      /\ pos' = pos + 1
      /\ UNCHANGED <<slots, status, place, drop_strategy, dropped>>
  BY DEF Pull
<1>2. begin \in SeqNums /\ count \in Nat /\ count <= Size /\ pos \in Nat
  BY SizeFacts DEF Inv, TypeOK
<1>3. TypeOK'
  <2>1. begin' \in SeqNums
    BY <1>1, <1>2, NextNum
  <2>2. 0 \in Indices
    BY SizeFacts DEF Indices
  <2>3. [seq |-> begin, user |-> At(0).user] \in [seq : SeqNums, user : Elements \cup {NoElem}]
    BY <1>2, <2>2, SlotAt DEF Inv, Entry
  <2>4. pulled' \in Seq([seq : SeqNums, user : Elements \cup {NoElem}])
    BY <1>1, <2>3 DEF Inv, TypeOK
  <2>5. given' \in [Elements -> Nat]
    BY <1>1, GiveBackType DEF Inv, TypeOK
  <2>6. count' \in 0 .. Size /\ pos' \in Nat
    BY <1>1, <1>2, SizeFacts
  <2> QED
    BY <1>1, <2>1, <2>4, <2>5, <2>6 DEF Inv, TypeOK
<1>4. ASSUME NEW i \in Indices, Held(i)'
      PROVE  At(i)'.user \in DOMAIN place' /\ place'[At(i)'.user] = pos' + i
  <2>1. i \in Nat /\ i < count - 1
    BY <1>1, <1>4 DEF Held, Indices
  <2>2. 1 + i \in Indices /\ 1 + i <= SeqMod
    BY <1>2, <2>1, SizeFacts DEF Indices
  <2>3. SeqAdd(SeqAdd(begin, 1), i) = SeqAdd(begin, 1 + i)
    BY <1>2, <2>1, <2>2, SeqAddAssoc
  <2>4. At(i)' = At(1 + i)
    BY <1>1, <2>3 DEF At
  <2>5. Held(1 + i)
    BY <1>1, <1>2, <1>4, <2>1, <2>4 DEF Held
  <2> QED
    BY <1>1, <1>2, <2>1, <2>2, <2>4, <2>5 DEF Inv, EntriesMatchSerials
<1> QED
  BY <1>3, <1>4 DEF Inv, EntriesMatchSerials

(* The entry dropped stays set, so that the window is not cut back. *)
LEMMA DropKeepsCount ==
    ASSUME Inv, NEW index \in Nat, Drop(index)
    PROVE  count' = count
<1>0. index < count /\ At(index).set
  BY DEF Drop
<1> DEFINE Cut(n) == /\ n = 0 \/ At(n - 1).set
                     /\ \A m \in n + 1 .. count : ~At(m - 1).set
<1>1. count \in Nat
  BY SizeFacts DEF Inv, TypeOK
<1>2. CASE index = count - 1
  <2>1. Cut(count) /\ count \in 0 .. count
    BY <1>0, <1>1, <1>2
  <2>2. ASSUME NEW n \in 0 .. count, Cut(n)
        PROVE  n = count
    <3> SUFFICES ASSUME n # count PROVE FALSE
      OBVIOUS
    <3>1. count \in n + 1 .. count
      BY <1>1
    <3> QED
      BY <1>0, <1>1, <1>2, <2>2, <3>1
  <2>3. (CHOOSE n \in 0 .. count : Cut(n)) = count
    BY <2>1, <2>2
  <2> QED
    BY <1>2, <2>3 DEF Drop
<1>3. CASE index # count - 1
  BY <1>3 DEF Drop
<1> QED
  BY <1>2, <1>3

LEMMA DropInv ==
    ASSUME Inv, NEW index \in Nat, Drop(index)
    PROVE  Inv'
<1>1. /\ index < count /\ At(index).set
      /\ GiveBack({At(index).user})
      /\ UNCHANGED <<slots, begin, status, pos, place, pulled, drop_strategy>>
      /\ dropped' = dropped \cup {At(index).user}
  BY DEF Drop
<1>2. given' \in [Elements -> Nat]
  BY <1>1, GiveBackType DEF Inv, TypeOK
<1>3. count' = count
  BY DropKeepsCount
<1>4. At(index).user \in Elements
  <2>1. index \in Indices /\ Held(index)
    BY <1>1, SizeFacts DEF Inv, TypeOK, Indices, Held
  <2> QED
    BY <2>1 DEF Inv, TypeOK, EntriesMatchSerials
<1> QED
  BY <1>1, <1>2, <1>3, <1>4 DEF Inv, TypeOK, EntriesMatchSerials, Held, At

LEMMA FiniInv ==
    ASSUME Inv, Fini
    PROVE  Inv'
<1>1. status' = "closed" /\ UNCHANGED <<slots, begin, count, pos, place, pulled, drop_strategy, dropped>>
  BY DEF Fini
<1>2. given' \in [Elements -> Nat]
  BY GiveBackType DEF Inv, TypeOK, Fini
<1> QED
  BY <1>1, <1>2 DEF Inv, TypeOK, EntriesMatchSerials, Held, At

LEMMA NextInv == Inv /\ [Next]_vars => Inv'
<1> SUFFICES ASSUME Inv, [Next]_vars PROVE Inv'
  OBVIOUS
<1>1. CASE \E s \in SeqNums, elem \in Elements : Push(s, elem)
  BY <1>1, PushFillInv, PushRefuseInv, PushExtendInv, PushSlideInv, PushAbortInv DEF Push
<1>2. CASE Pull
  BY <1>2, PullInv
<1>3. CASE \E index \in DropIndices : Drop(index)
  BY <1>3, SizeAssumption, DropInv
<1>4. CASE Fini
  BY <1>4, FiniInv
<1>5. CASE UNCHANGED vars
  BY <1>5 DEF vars, Inv, TypeOK, EntriesMatchSerials, Held, At
<1> QED
  BY <1>1, <1>2, <1>3, <1>4, <1>5 DEF Next

(* The state is well typed and the window never outgrows the ring: the     *)
(* count asserts of chiaki_reorder_queue_push and _pull never fail.        *)
THEOREM TypeCorrect == Spec => []TypeOK
<1>1. Inv => TypeOK
  BY DEF Inv
<1> QED
  BY <1>1, InitInv, NextInv, PTL DEF Spec

(* An entry set inside the window holds the element pushed with the serial *)
(* number the entry stands for, whether or not elements are dropped: pull  *)
(* cannot return a packet under another packet's number.                   *)
THEOREM EntriesCorrect == Spec => []EntriesMatchSerials
<1>1. Inv => EntriesMatchSerials
  BY DEF Inv
<1> QED
  BY <1>1, InitInv, NextInv, PTL DEF Spec

-----------------------------------------------------------------------------
(* No element is lost in the queue or given back twice, but for those that *)
(* chiaki_reorder_queue_drop gave back.                                    *)

InWindowSet == {At(i).user : i \in {j \in Indices : Held(j)}}

OnceInv == Inv /\ EachElementOnce

(* Membership in the window, element by element. *)
LEMMA InWindowSetIs ==
    \A e : e \in InWindowSet <=> \E i \in Indices : Held(i) /\ At(i).user = e
  BY DEF InWindowSet

LEMMA HeldElementsIs ==
    /\ HeldElements = IF status = "closed" THEN {} ELSE InWindowSet
    /\ HeldElements' = IF status' = "closed" THEN {} ELSE InWindowSet'
  BY DEF HeldElements, InWindowSet

LEMMA HeldOnce ==
    ASSUME Inv
    PROVE  /\ \A i \in Indices : Held(i) => At(i).user \in DOMAIN place
           /\ \A i, j \in Indices : Held(i) /\ Held(j) /\ i # j => At(i).user # At(j).user
<1>1. \A i \in Indices : i \in Int
  BY SizeFacts DEF Indices
<1>2. pos \in Int
  BY DEF Inv, TypeOK
<1>3. \A i \in Indices : Held(i) => At(i).user \in DOMAIN place /\ place[At(i).user] = pos + i
  BY DEF Inv, EntriesMatchSerials
<1>4. ASSUME NEW i \in Indices, NEW j \in Indices, Held(i), Held(j), At(i).user = At(j).user
      PROVE  i = j
  <2>1. pos + i = pos + j
    BY <1>3, <1>4
  <2>2. i \in Int /\ j \in Int
    BY <1>1
  <2> QED
    BY <1>2, <2>1, <2>2
<1> QED
  BY <1>3, <1>4

LEMMA HeldOnceNext ==
    ASSUME Inv'
    PROVE  \A i, j \in Indices : Held(i)' /\ Held(j)' /\ i # j => At(i)'.user # At(j)'.user
<1>1. \A i \in Indices : i \in Int
  BY SizeFacts DEF Indices
<1>2. pos' \in Int
  BY DEF Inv, TypeOK
<1>3. \A i \in Indices : Held(i)' => place'[At(i)'.user] = pos' + i
  BY DEF Inv, EntriesMatchSerials
<1>4. ASSUME NEW i \in Indices, NEW j \in Indices, Held(i)', Held(j)', At(i)'.user = At(j)'.user
      PROVE  i = j
  <2>1. pos' + i = pos' + j
    BY <1>3, <1>4
  <2>2. i \in Int /\ j \in Int
    BY <1>1
  <2> QED
    BY <1>2, <2>1, <2>2
<1> QED
  BY <1>4

(* The window of length c at b holds what was held from index shift on. *)
MovedBy(b, c, shift) == \A i \in 0 .. c - 1 : slots[Idx(SeqAdd(b, i))] = At(shift + i)
HeldFrom(e, shift, c) == \E i \in 0 .. c - 1 : At(shift + i).set /\ At(shift + i).user = e

(* What the window holds after it was grown. *)
LEMMA GrowHolds ==
    ASSUME Inv, NEW shift \in Nat, NEW b \in SeqNums, NEW c \in Nat, NEW d \in Nat,
           c <= d, d < Size, NEW s \in SeqNums, s = SeqAdd(b, d), NEW elem \in Elements,
           Grow(b, c, s, elem), MovedBy(b, c, shift)
    PROVE  \A e : e \in InWindowSet' <=> e = elem \/ HeldFrom(e, shift, c)
<1> SUFFICES ASSUME NEW e PROVE e \in InWindowSet' <=> e = elem \/ HeldFrom(e, shift, c)
  OBVIOUS
<1>1. /\ begin' = b
      /\ count' = d + 1
      /\ \A i \in 0 .. c - 1 : slots'[Idx(SeqAdd(b, i))] = slots[Idx(SeqAdd(b, i))]
      /\ \A i \in c .. d - 1 : ~slots'[Idx(SeqAdd(b, i))].set
      /\ slots'[Idx(SeqAdd(b, d))] = [set |-> TRUE, user |-> elem]
  BY GrowEffect DEF Inv, TypeOK
<1>2. \A i \in 0 .. c - 1 : At(i)' = At(shift + i)
  BY <1>1 DEF At, MovedBy
<1>3. At(d)' = [set |-> TRUE, user |-> elem]
  BY <1>1 DEF At
<1>4. \A i \in c .. d - 1 : ~At(i)'.set
  BY <1>1 DEF At
<1>5. \A i \in Indices : i < d + 1 => i \in 0 .. c - 1 \/ i \in c .. d - 1 \/ i = d
  BY SizeFacts DEF Indices
<1>6. \A i \in 0 .. d : i \in Indices /\ i < d + 1
  BY SizeFacts DEF Indices
<1>7. e \in InWindowSet' <=> \E i \in Indices : i < d + 1 /\ At(i)'.set /\ At(i)'.user = e
  BY <1>1 DEF InWindowSet, Held
<1>8. ASSUME e \in InWindowSet'
      PROVE  e = elem \/ \E i \in 0 .. c - 1 : At(shift + i).set /\ At(shift + i).user = e
  <2>1. PICK i \in Indices : i < d + 1 /\ At(i)'.set /\ At(i)'.user = e
    BY <1>7, <1>8
  <2>2. CASE i \in 0 .. c - 1
    BY <1>2, <2>1, <2>2
  <2>3. CASE i \in c .. d - 1
    BY <1>4, <2>1, <2>3
  <2>4. CASE i = d
    BY <1>3, <2>1, <2>4
  <2> QED
    BY <1>5, <2>1, <2>2, <2>3, <2>4
<1>9. ASSUME e = elem
      PROVE  e \in InWindowSet'
  BY <1>3, <1>6, <1>7, <1>9
<1>10. ASSUME NEW i \in 0 .. c - 1, At(shift + i).set, At(shift + i).user = e
       PROVE  e \in InWindowSet'
  <2>1. i \in Indices /\ i < d + 1
    BY <1>6
  <2> QED
    BY <1>2, <1>7, <1>10, <2>1
<1> QED
  BY <1>8, <1>9, <1>10 DEF HeldFrom

(* A step of an open queue that gives back users keeps EachElementOnce     *)
(* when the elements held before and the one pushed are, after it, either  *)
(* held or given back and not both.                                        *)
LEMMA OnceStep ==
    ASSUME OnceInv, Inv', status = "open", status' # "closed", NEW users, dropped' = dropped,
           \A e \in Elements : given'[e] = IF e \in users THEN given[e] + 1 ELSE given[e],
           DOMAIN place \subseteq DOMAIN place',
           \A e \in Elements : e \in InWindowSet' \/ e \in users
                <=> e \in InWindowSet \/ e \in DOMAIN place' \ DOMAIN place,
           \A e \in Elements : ~(e \in InWindowSet' /\ e \in users)
    PROVE  EachElementOnce'
<1>1. HeldElements = InWindowSet /\ HeldElements' = InWindowSet'
  BY HeldElementsIs
<1>2. \A e \in InWindowSet : e \in DOMAIN place
  BY HeldOnce, InWindowSetIs DEF OnceInv
<1>3. \A i, j \in Indices : Held(i)' /\ Held(j)' /\ i # j => At(i)'.user # At(j)'.user
  BY HeldOnceNext
<1>4. ASSUME NEW e \in Elements \ dropped
      PROVE  given'[e] = IF e \notin DOMAIN place' \/ e \in HeldElements' THEN 0 ELSE 1
  <2>1. given[e] = IF e \notin DOMAIN place \/ e \in InWindowSet THEN 0 ELSE 1
    BY <1>1 DEF OnceInv, EachElementOnce
  <2>2. CASE e \in users
    <3>1. given'[e] = given[e] + 1 /\ e \notin InWindowSet'
      BY <2>2
    <3>2. e \in InWindowSet \/ e \in DOMAIN place' \ DOMAIN place
      BY <2>2
    <3> QED
      BY <1>1, <1>2, <2>1, <3>1, <3>2
  <2>3. CASE e \notin users
    <3>1. given'[e] = given[e]
      BY <2>3
    <3>2. e \in InWindowSet' <=> e \in InWindowSet \/ e \in DOMAIN place' \ DOMAIN place
      BY <2>3
    <3>3. CASE e \in InWindowSet'
      BY <1>1, <1>2, <2>1, <3>1, <3>2, <3>3
    <3>4. CASE e \notin InWindowSet'
      BY <1>1, <1>2, <2>1, <3>1, <3>2, <3>4
    <3> QED
      BY <3>3, <3>4
  <2> QED
    BY <2>2, <2>3
<1> QED
  BY <1>3, <1>4 DEF EachElementOnce

(* A new element is neither held nor given back. *)
LEMMA NewElement ==
    ASSUME OnceInv, NEW elem \in Elements, elem \notin DOMAIN place
    PROVE  elem \notin InWindowSet
BY HeldOnce, InWindowSetIs DEF OnceInv

(* Filling an entry of the window adds its element to what is held. *)
LEMMA PushFillHolds ==
    ASSUME Inv, NEW s \in SeqNums, NEW elem \in Elements, PushFill(s, elem)
    PROVE  \A e : e \in InWindowSet' <=> e = elem \/ e \in InWindowSet
<1>1. PICK d \in 0 .. count - 1 : s = SeqAdd(begin, d)
  BY WindowOffset, SeqAddDist DEF Inv, TypeOK, PushFill
<1>2. d \in Indices /\ d < count
  BY <1>1, SizeFacts DEF Inv, TypeOK, Indices
<1>3. /\ slots' = [slots EXCEPT ![Idx(SeqAdd(begin, d))] = [set |-> TRUE, user |-> elem]]
      /\ ~At(d).set
      /\ UNCHANGED <<begin, count>>
  BY <1>1 DEF PushFill, At
<1>4. TypeOK
  BY DEF Inv
<1>5. Idx(SeqAdd(begin, d)) \in Indices
  BY <1>2, <1>4, SlotAt
<1>6. At(d)' = [set |-> TRUE, user |-> elem]
  BY <1>3, <1>4, <1>5 DEF TypeOK, At
<1>7. \A i \in Indices : i # d => At(i)' = At(i)
  <2> SUFFICES ASSUME NEW i \in Indices, i # d PROVE At(i)' = At(i)
    OBVIOUS
  <2>1. Idx(SeqAdd(begin, i)) \in Indices /\ Idx(SeqAdd(begin, i)) # Idx(SeqAdd(begin, d))
    BY <1>2, <1>4, SlotAt, SlotsDiffer
  <2> QED
    BY <1>3, <1>4, <2>1 DEF TypeOK, At
<1>8. \A e : e \in InWindowSet' <=> e = elem \/ e \in InWindowSet
  <2> TAKE e
  <2>1. e \in InWindowSet' <=> \E i \in Indices : i < count /\ At(i)'.set /\ At(i)'.user = e
    BY <1>3 DEF InWindowSet, Held
  <2>2. e \in InWindowSet <=> \E i \in Indices : i < count /\ At(i).set /\ At(i).user = e
    BY DEF InWindowSet, Held
  <2>3. \A i \in Indices : At(i)'.set /\ At(i)'.user = e
                              <=> (i = d /\ e = elem) \/ (At(i).set /\ At(i).user = e)
    <3> SUFFICES ASSUME NEW i \in Indices
                 PROVE  At(i)'.set /\ At(i)'.user = e
                              <=> (i = d /\ e = elem) \/ (At(i).set /\ At(i).user = e)
      OBVIOUS
    <3>1. CASE i = d
      BY <1>3, <1>6, <3>1
    <3>2. CASE i # d
      BY <1>7, <3>2
    <3> QED
      BY <3>1, <3>2
  <2> QED
    BY <1>2, <2>1, <2>2, <2>3
<1> QED
  BY <1>8

LEMMA PushFillOnce ==
    ASSUME OnceInv, NEW s \in SeqNums, NEW elem \in Elements, PushFill(s, elem)
    PROVE  EachElementOnce'
<1>1. /\ status = "open"
      /\ elem \notin DOMAIN place /\ DOMAIN place' = DOMAIN place \cup {elem}
      /\ UNCHANGED <<status, given, dropped>>
  BY DEF PushFill, Pushing
<1>2. \A e : e \in InWindowSet' <=> e = elem \/ e \in InWindowSet
  BY PushFillHolds DEF OnceInv
<1>3. Inv'
  BY PushFillInv DEF OnceInv
<1> QED
  BY <1>1, <1>2, <1>3, NewElement, OnceStep, 0 \notin {}

LEMMA PushRefuseOnce ==
    ASSUME OnceInv, NEW s \in SeqNums, NEW elem \in Elements, PushRefuse(s, elem)
    PROVE  EachElementOnce'
<1>1. /\ status = "open"
      /\ elem \notin DOMAIN place /\ DOMAIN place' = DOMAIN place \cup {elem}
      /\ given' = [e \in Elements |-> IF e \in {elem} THEN given[e] + 1 ELSE given[e]]
      /\ UNCHANGED <<slots, begin, count, status, dropped>>
  BY DEF PushRefuse, Pushing, queueVars, GiveBack
<1>2. InWindowSet' = InWindowSet
  BY <1>1 DEF InWindowSet, Held, At
<1>3. Inv' /\ elem \notin InWindowSet
  BY <1>1, PushRefuseInv, NewElement DEF OnceInv
<1> QED
  BY <1>1, <1>2, <1>3, OnceStep

(* So does growing the window up to it. *)
LEMMA PushExtendHolds ==
    ASSUME Inv, NEW s \in SeqNums, NEW elem \in Elements, PushExtend(s, elem)
    PROVE  \A e : e \in InWindowSet' <=> e = elem \/ e \in InWindowSet
<1> DEFINE d0 == SeqDist(begin, s)
<1>a. d0 \in count .. Size - 1 /\ s = SeqAdd(begin, d0)
  BY AheadOffset, SeqAddDist DEF Inv, TypeOK, PushExtend, Ahead
<1> HIDE DEF d0
<1>1. PICK d \in count .. Size - 1 : s = SeqAdd(begin, d)
  BY <1>a
<1>2. d \in Nat /\ count \in Nat /\ count <= d /\ d < Size /\ begin \in SeqNums
  BY <1>1, SizeFacts DEF Inv, TypeOK
<1>3. Grow(begin, count, s, elem)
  BY DEF PushExtend
<1>4. MovedBy(begin, count, 0)
  BY <1>2 DEF At, MovedBy
<1>5. \A e : e \in InWindowSet' <=> e = elem \/ HeldFrom(e, 0, count)
  BY ONLY <1>1, <1>2, <1>3, <1>4, Inv, 0 \in Nat, s \in SeqNums, elem \in Elements, GrowHolds
<1>6. \A e : e \in InWindowSet <=> HeldFrom(e, 0, count)
  <2>1. \A i \in Indices : i < count <=> i \in 0 .. count - 1
    BY <1>2, SizeFacts DEF Indices
  <2>2. \A i \in 0 .. count - 1 : i \in Indices
    BY SizeFacts DEF Inv, TypeOK, Indices
  <2>3. \A i \in 0 .. count - 1 : 0 + i = i
    BY <1>2
  <2> QED
    BY <2>1, <2>2, <2>3 DEF InWindowSet, Held, HeldFrom
<1> QED
  BY <1>5, <1>6

LEMMA PushExtendOnce ==
    ASSUME OnceInv, NEW s \in SeqNums, NEW elem \in Elements, PushExtend(s, elem)
    PROVE  EachElementOnce'
<1>1. /\ status = "open"
      /\ elem \notin DOMAIN place /\ DOMAIN place' = DOMAIN place \cup {elem}
      /\ UNCHANGED <<status, given, dropped>>
  BY DEF PushExtend, Pushing
<1>2. \A e : e \in InWindowSet' <=> e = elem \/ e \in InWindowSet
  BY PushExtendHolds DEF OnceInv
<1>3. Inv'
  BY PushExtendInv DEF OnceInv
<1> QED
  BY <1>1, <1>2, <1>3, NewElement, OnceStep, 0 \notin {}

LEMMA PushAbortOnce ==
    ASSUME OnceInv, NEW s \in SeqNums, NEW elem \in Elements, PushAbort(s, elem)
    PROVE  EachElementOnce'
<1>1. status = "open" /\ status' = "aborted" /\ UNCHANGED <<slots, begin, count, place, given, dropped>>
  BY DEF PushAbort, history
<1>2. InWindowSet' = InWindowSet
  BY <1>1 DEF InWindowSet, Held, At
<1>3. Inv'
  BY PushAbortInv DEF OnceInv
<1> QED
  BY <1>1, <1>2, <1>3, OnceStep, 0 \notin {}

(* Moving the window on leaves what is held behind its new beginning. *)
LEMMA PushSlideHolds ==
    ASSUME Inv, NEW s \in SeqNums, NEW elem \in Elements, PushSlide(s, elem)
    PROVE  LET excess == SeqDist(TotalEnd, SeqAdd(s, 1))
           IN  \A e : e \in InWindowSet' <=>
                  e = elem \/ \E j \in excess .. count - 1 : At(j).set /\ At(j).user = e
<1> DEFINE excess == SeqDist(TotalEnd, SeqAdd(s, 1))
           empty  == excess >= count
           shift  == IF empty THEN SeqDist(begin, s) ELSE excess
           b      == SeqAdd(begin, shift)
           c      == IF empty THEN 0 ELSE count - excess
           d      == IF empty THEN 0 ELSE Size - 1
<1>1. Ahead(s) /\ Overflows(s) /\ Grow(b, c, s, elem)
  BY DEF PushSlide
<1>2. excess \in 1 .. SeqHalf - 1 /\ SeqDist(begin, s) = excess + Size - 1
  BY <1>1, SlideOffset DEF Inv
<1>3. SeqAdd(begin, SeqDist(begin, s)) = s
  BY SeqAddDist DEF Inv, TypeOK
<1>4. count \in Nat /\ count <= Size /\ begin \in SeqNums
  BY SizeFacts DEF Inv, TypeOK
<1>5. shift \in Nat /\ shift <= SeqMod /\ shift + d = SeqDist(begin, s) /\ shift + d <= SeqMod
  BY <1>2, <1>4, SizeFacts
<1>6. c \in Nat /\ d \in Nat /\ c <= d /\ d < Size
  BY <1>2, <1>4, SizeFacts
<1>7. b \in SeqNums
  BY <1>4, <1>5, SeqAddCases, SizeFacts
<1>8. \A i \in 0 .. c - 1 : shift + i \in excess .. count - 1 /\ shift + i <= SeqMod
  BY <1>2, <1>4, SizeFacts
<1>9. \A j \in excess .. count - 1 : \E i \in 0 .. c - 1 : j = shift + i
  <2> TAKE j \in excess .. count - 1
  <2>1. ~empty /\ shift = excess /\ c = count - excess /\ j \in Int
    BY <1>2, <1>4
  <2>2. j - excess \in 0 .. c - 1 /\ j = shift + (j - excess)
    BY <1>2, <1>4, <2>1
  <2> QED
    BY <2>2
<1> HIDE DEF b, c, d, shift, empty, excess
<1>10. s = SeqAdd(b, d)
  <2>1. SeqAdd(SeqAdd(begin, shift), d) = SeqAdd(begin, shift + d)
    BY <1>4, <1>5, <1>6, SeqAddAssoc
  <2> QED
    BY <1>3, <1>5, <2>1 DEF b
<1>11. MovedBy(b, c, shift)
  <2> SUFFICES ASSUME NEW i \in 0 .. c - 1 PROVE slots[Idx(SeqAdd(b, i))] = At(shift + i)
    BY DEF MovedBy
  <2>1. i \in Nat /\ shift + i <= SeqMod
    BY <1>6, <1>8
  <2>2. SeqAdd(SeqAdd(begin, shift), i) = SeqAdd(begin, shift + i)
    BY <1>4, <1>5, <2>1, SeqAddAssoc
  <2> QED
    BY <2>2 DEF At, b
<1>12. \A e : e \in InWindowSet' <=> e = elem \/ HeldFrom(e, shift, c)
  BY ONLY <1>1, <1>5, <1>6, <1>7, <1>10, <1>11, Inv, s \in SeqNums, elem \in Elements, GrowHolds
<1>13. \A e : e \in InWindowSet' <=>
                e = elem \/ \E j \in excess .. count - 1 : At(j).set /\ At(j).user = e
  BY ONLY <1>8, <1>9, <1>12 DEF HeldFrom
<1> QED
  BY <1>13 DEF excess

LEMMA PushSlideOnce ==
    ASSUME OnceInv, NEW s \in SeqNums, NEW elem \in Elements, PushSlide(s, elem)
    PROVE  EachElementOnce'
<1> DEFINE excess == SeqDist(TotalEnd, SeqAdd(s, 1))
           lost   == {At(i).user : i \in {j \in 0 .. count - 1 : j < excess /\ At(j).set}}
<1>1. /\ elem \notin DOMAIN place /\ DOMAIN place' = DOMAIN place \cup {elem}
      /\ Ahead(s) /\ Overflows(s)
      /\ GiveBack(lost)
      /\ status = "open" /\ status' = "open" /\ dropped' = dropped
  BY DEF PushSlide, Pushing
<1>2. excess \in 1 .. SeqHalf - 1
  BY <1>1, SlideOffset DEF OnceInv, Inv
<1>3. count \in Nat /\ count <= Size
  BY SizeFacts DEF OnceInv, Inv, TypeOK
<1>4. \A j \in Indices : j < count => j < excess \/ j \in excess .. count - 1
  BY <1>2, <1>3, SizeFacts DEF Indices
<1>5. \A j \in 0 .. count - 1 : j \in Indices /\ j < count
  BY <1>3, SizeFacts DEF Indices
<1>6. \A e : e \in lost <=> \E j \in 0 .. count - 1 : j < excess /\ At(j).set /\ At(j).user = e
  OBVIOUS
<1>7. \A j \in excess .. count - 1 : j \in 0 .. count - 1 /\ ~(j < excess)
  BY <1>2, <1>3
<1>8. \A j \in Indices : j < count => j \in 0 .. count - 1
  BY <1>3, SizeFacts DEF Indices
<1>9. \A e : e \in InWindowSet' <=>
                e = elem \/ \E j \in excess .. count - 1 : At(j).set /\ At(j).user = e
  BY PushSlideHolds DEF OnceInv
<1>10. Inv
  BY DEF OnceInv
<1> HIDE DEF lost, excess
<1>11. \A e : e \in InWindowSet <=>
                e \in lost \/ \E j \in excess .. count - 1 : At(j).set /\ At(j).user = e
  <2> TAKE e
  <2>1. e \in InWindowSet <=> \E j \in Indices : j < count /\ At(j).set /\ At(j).user = e
    BY DEF InWindowSet, Held
  <2> QED
    BY ONLY <1>4, <1>5, <1>6, <1>7, <1>8, <2>1
<1>12. \A e : ~(e \in lost /\ \E j \in excess .. count - 1 : At(j).set /\ At(j).user = e)
  <2>1. \A i, j \in Indices : i < count /\ At(i).set /\ j < count /\ At(j).set /\ i # j
                                 => At(i).user # At(j).user
    BY <1>10, HeldOnce DEF Held
  <2> QED
    BY ONLY <1>5, <1>6, <1>7, <2>1
<1>13. Inv' /\ elem \notin InWindowSet
  BY <1>1, PushSlideInv, NewElement DEF OnceInv
<1>14. \A e \in Elements : given'[e] = IF e \in lost THEN given[e] + 1 ELSE given[e]
  BY <1>1 DEF GiveBack
<1>15. \A e \in Elements : e \in InWindowSet' \/ e \in lost
            <=> e \in InWindowSet \/ e \in DOMAIN place' \ DOMAIN place
  BY <1>1, <1>9, <1>11
<1>16. \A e \in Elements : ~(e \in InWindowSet' /\ e \in lost)
  BY <1>9, <1>11, <1>12, <1>13
<1> QED
  BY ONLY OnceInv, <1>1, <1>13, <1>14, <1>15, <1>16, OnceStep

(* Pulling takes the first element of the window, and only it. *)
LEMMA PullHolds ==
    ASSUME Inv, Pull
    PROVE  /\ Held(0) /\ 0 \in Indices /\ At(0).user \in InWindowSet
           /\ \A e : e \in InWindowSet' <=> e \in InWindowSet /\ e # At(0).user
<1> DEFINE out == At(0).user
<1>1. /\ count > 0 /\ count' = count - 1
      /\ begin' = SeqAdd(begin, 1)
      /\ At(0).set
      /\ slots' = slots
  BY DEF Pull
<1>2. begin \in SeqNums /\ count \in Nat /\ count <= Size
  BY SizeFacts DEF Inv, TypeOK
<1>3. 0 \in Indices /\ Held(0)
  BY <1>1, <1>2, SizeFacts DEF Indices, Held
<1>4. \A i \in Indices : i < count - 1 => 1 + i \in Indices /\ At(i)' = At(1 + i)
  <2> SUFFICES ASSUME NEW i \in Indices, i < count - 1
               PROVE  1 + i \in Indices /\ At(i)' = At(1 + i)
    OBVIOUS
  <2>1. i \in Nat /\ 1 + i \in Indices /\ 1 + i <= SeqMod
    BY <1>2, SizeFacts DEF Indices
  <2>2. SeqAdd(SeqAdd(begin, 1), i) = SeqAdd(begin, 1 + i)
    BY <1>2, <2>1, SeqAddAssoc
  <2> QED
    BY <1>1, <2>1, <2>2 DEF At
<1>5. \A e : e \in InWindowSet' <=> \E i \in Indices : i < count - 1 /\ At(1 + i).set /\ At(1 + i).user = e
  <2> TAKE e
  <2>1. e \in InWindowSet' <=> \E i \in Indices : i < count - 1 /\ At(i)'.set /\ At(i)'.user = e
    BY <1>1 DEF InWindowSet, Held
  <2> QED
    BY <1>4, <2>1
<1>6. \A i \in Indices : i < count - 1 /\ At(1 + i).set => 1 + i \in Indices /\ Held(1 + i) /\ 1 + i # 0
  <2>1. \A i \in Indices : i < count - 1 => 1 + i < count /\ 1 + i # 0
    BY <1>2, SizeFacts DEF Indices
  <2> QED
    BY <1>4, <2>1 DEF Held
<1>7. \A j \in Indices : Held(j) /\ j # 0 => \E i \in Indices : i < count - 1 /\ j = 1 + i /\ At(j).set
  <2> SUFFICES ASSUME NEW j \in Indices, Held(j), j # 0
               PROVE  \E i \in Indices : i < count - 1 /\ j = 1 + i /\ At(j).set
    OBVIOUS
  <2>1. j - 1 \in Indices /\ j - 1 < count - 1 /\ j = 1 + (j - 1)
    BY <1>2, SizeFacts DEF Indices, Held
  <2> QED
    BY <2>1 DEF Held
<1>8. \A i, j \in Indices : Held(i) /\ Held(j) /\ i # j => At(i).user # At(j).user
  BY HeldOnce
<1> HIDE DEF out
<1>9. \A e : e \in InWindowSet' => e \in InWindowSet /\ e # out
  BY <1>3, <1>5, <1>6, <1>8, InWindowSetIs DEF out
<1>10. \A e : e \in InWindowSet => e \in InWindowSet' \/ e = out
  <2> SUFFICES ASSUME NEW e, e \in InWindowSet
               PROVE  e \in InWindowSet' \/ e = out
    OBVIOUS
  <2>1. PICK j \in Indices : Held(j) /\ At(j).user = e
    BY InWindowSetIs
  <2>2. CASE j = 0
    BY <2>1, <2>2 DEF out
  <2>3. CASE j # 0
    BY <1>5, <1>7, <2>1, <2>3
  <2> QED
    BY <2>2, <2>3
<1>11. out \in InWindowSet
  BY <1>3, InWindowSetIs DEF out
<1> QED
  BY <1>3, <1>9, <1>10, <1>11 DEF out

LEMMA PullOnce ==
    ASSUME OnceInv, Pull
    PROVE  EachElementOnce'
<1> DEFINE out == At(0).user
<1>1. /\ status = "open" /\ status' = "open"
      /\ GiveBack({At(0).user})
      /\ UNCHANGED <<place, dropped>>
  BY DEF Pull
<1>2. out \in InWindowSet /\ \A e : e \in InWindowSet' <=> e \in InWindowSet /\ e # out
  BY PullHolds DEF OnceInv
<1> HIDE DEF out
<1>3. Inv'
  BY PullInv DEF OnceInv
<1>4. \A e \in Elements : given'[e] = IF e \in {out} THEN given[e] + 1 ELSE given[e]
  BY <1>1 DEF GiveBack, out
<1> QED
  BY <1>1, <1>2, <1>3, <1>4, OnceStep

LEMMA FiniOnce ==
    ASSUME OnceInv, Fini
    PROVE  EachElementOnce'
<1>1. /\ status = "open" /\ status' = "closed"
      /\ GiveBack(InWindowSet)
      /\ UNCHANGED <<slots, begin, count, place, dropped>>
  BY DEF Fini, InWindowSet
<1>2. HeldElements = InWindowSet /\ HeldElements' = {}
  BY <1>1, HeldElementsIs
<1>3. \A e \in InWindowSet : e \in DOMAIN place
  BY HeldOnce, InWindowSetIs DEF OnceInv
<1>4. \A e \in Elements : given'[e] = IF e \in InWindowSet THEN given[e] + 1 ELSE given[e]
  BY <1>1 DEF GiveBack
<1>5. \A i, j \in Indices : Held(i)' /\ Held(j)' /\ i # j => At(i)'.user # At(j)'.user
  BY FiniInv, HeldOnceNext DEF OnceInv
<1>6. \A e \in Elements \ dropped' :
         given'[e] = IF e \notin DOMAIN place' \/ e \in HeldElements' THEN 0 ELSE 1
  BY <1>1, <1>2, <1>3, <1>4 DEF OnceInv, EachElementOnce
<1> QED
  BY <1>5, <1>6 DEF EachElementOnce

(* The element dropped comes back again when it is pulled; the others are  *)
(* where they were.                                                        *)
LEMMA DropOnce ==
    ASSUME OnceInv, NEW index \in Nat, Drop(index)
    PROVE  EachElementOnce'
<1>1. /\ dropped' = dropped \cup {At(index).user}
      /\ GiveBack({At(index).user})
      /\ UNCHANGED <<slots, begin, status, place>>
  BY DEF Drop
<1>2. count' = count
  BY DropKeepsCount DEF OnceInv
<1>3. HeldElements' = HeldElements
  BY <1>1, <1>2 DEF HeldElements, Held, At
<1>4. \A e \in Elements \ dropped' : e \notin dropped /\ given'[e] = given[e]
  BY <1>1 DEF GiveBack
<1>5. \A i, j \in Indices : Held(i)' /\ Held(j)' /\ i # j => At(i)'.user # At(j)'.user
  BY DropInv, HeldOnceNext DEF OnceInv
<1> QED
  BY <1>1, <1>3, <1>4, <1>5 DEF OnceInv, EachElementOnce

LEMMA OnceInit == Init => OnceInv
<1> SUFFICES ASSUME Init PROVE OnceInv
  OBVIOUS
<1>1. Inv
  BY InitInv
<1>2. count = 0 /\ DOMAIN place = {} /\ given = [e \in Elements |-> 0]
  BY DEF Init
<1>3. \A i \in Indices : ~Held(i)
  BY <1>2, SizeFacts DEF Held, Indices
<1> QED
  BY <1>1, <1>2, <1>3 DEF OnceInv, EachElementOnce

LEMMA OnceNext ==
    ASSUME OnceInv, [Next]_vars
    PROVE  OnceInv'
<1>1. Inv'
  BY NextInv DEF OnceInv
<1>2. CASE \E s \in SeqNums, elem \in Elements : Push(s, elem)
  <2>1. EachElementOnce'
    BY <1>2, PushFillOnce, PushRefuseOnce, PushExtendOnce, PushSlideOnce, PushAbortOnce DEF Push
  <2> QED
    BY <1>1, <2>1 DEF OnceInv
<1>3. CASE Pull
  BY <1>1, <1>3, PullOnce DEF OnceInv
<1>4. CASE Fini
  BY <1>1, <1>4, FiniOnce DEF OnceInv
<1>5. CASE UNCHANGED vars
  BY <1>1, <1>5 DEF vars, OnceInv, EachElementOnce, HeldElements, Held, At
<1>6. CASE \E index \in DropIndices : Drop(index)
  BY <1>1, <1>6, SizeAssumption, DropOnce DEF OnceInv
<1> QED
  BY <1>2, <1>3, <1>4, <1>5, <1>6 DEF Next

(* chiaki_reorder_queue_push, _pull and _fini: every element not dropped by *)
(* index is at any time either in the queue, at one place, or was given    *)
(* back exactly once.  No packet leaks and none is freed twice, whatever   *)
(* the ring size, the drop strategy and the order of arrival.              *)
THEOREM GivenBackOnce == Spec => []EachElementOnce
<1>1. OnceInv => EachElementOnce
  BY DEF OnceInv
<1>2. OnceInv /\ [Next]_vars => OnceInv'
  BY OnceNext
<1> QED
  BY <1>1, <1>2, OnceInit, PTL DEF Spec

-----------------------------------------------------------------------------
(* The queue implements OrderedDelivery.                                   *)

(* Pull returns what the owner pushed. *)
RefinedInv == Inv /\ pulled \in Seq([seq : SeqNums, user : Elements])

(* No step but Pull's changes it. *)
LEMMA RefinedStep ==
    ASSUME RefinedInv, [Next]_vars
    PROVE  RefinedInv'
<1>1. Inv'
  BY NextInv DEF RefinedInv
<1>2. CASE Pull
  <2>1. At(0).user \in Elements
    BY <1>2, PullHolds, HeldOnce DEF RefinedInv, Inv, TypeOK
  <2>2. begin \in SeqNums
    BY DEF RefinedInv, Inv, TypeOK
  <2>3. [seq |-> begin, user |-> At(0).user] \in [seq : SeqNums, user : Elements]
    BY <2>1, <2>2
  <2> QED
    BY <1>1, <1>2, <2>3 DEF RefinedInv, Pull
<1>3. CASE ~Pull
  <2>1. pulled' = pulled
    BY <1>3 DEF Next, Push, PushFill, PushRefuse, PushExtend, PushSlide, PushAbort, Drop, Fini, history, vars
  <2> QED
    BY <1>1, <2>1 DEF RefinedInv
<1> QED
  BY <1>2, <1>3

(* The places of the elements held are those of their entries. *)
LEMMA TakenAre ==
    ASSUME Inv, status # "closed"
    PROVE  /\ HeldElements = InWindowSet
           /\ \A e \in InWindowSet : /\ e \in DOMAIN place /\ place[e] \in Int
                                     /\ place[e] >= pos /\ place[e] < pos + count
           /\ \A d \in 0 .. count - 1 : pos + d \in OD!Taken <=> At(d).set
           /\ \A p \in OD!Taken : p < pos + count
<1>1. HeldElements = InWindowSet
  BY HeldElementsIs
<1>2. \A i \in Indices : Held(i) => At(i).user \in DOMAIN place /\ place[At(i).user] = pos + i
  BY DEF Inv, EntriesMatchSerials
<1>3. pos \in Nat /\ count \in 0 .. Size /\ Size \in Nat
  BY SizeFacts DEF Inv, TypeOK
<1>4. ASSUME NEW e \in InWindowSet
      PROVE  \E i \in 0 .. count - 1 : /\ At(i).set /\ At(i).user = e
                                       /\ e \in DOMAIN place /\ place[e] = pos + i
  <2>1. PICK i \in Indices : Held(i) /\ At(i).user = e
    BY InWindowSetIs
  <2>2. i \in 0 .. count - 1
    BY <1>3, <2>1 DEF Held, Indices
  <2> QED
    BY <1>2, <2>1, <2>2 DEF Held
<1>5. \A e \in InWindowSet : /\ e \in DOMAIN place /\ place[e] \in Int
                             /\ place[e] >= pos /\ place[e] < pos + count
  <2> SUFFICES ASSUME NEW e \in InWindowSet
               PROVE  e \in DOMAIN place /\ place[e] \in Int /\ place[e] >= pos /\ place[e] < pos + count
    OBVIOUS
  <2>1. PICK i \in 0 .. count - 1 : e \in DOMAIN place /\ place[e] = pos + i
    BY <1>4
  <2>2. pos + i \in Int /\ pos + i >= pos /\ pos + i < pos + count
    BY <1>3
  <2> QED
    BY <2>1, <2>2
<1>6. \A p : p \in OD!Taken <=> \E e \in InWindowSet : place[e] = p
  BY <1>1 DEF OD!Taken
<1>7. ASSUME NEW d \in 0 .. count - 1
      PROVE  pos + d \in OD!Taken <=> At(d).set
  <2>1. d \in Indices /\ d < count
    BY <1>3 DEF Indices
  <2>2. ASSUME At(d).set PROVE pos + d \in OD!Taken
    <3>1. Held(d)
      BY <2>1, <2>2 DEF Held
    <3> QED
      BY <1>2, <1>6, <2>1, <3>1, InWindowSetIs
  <2>3. ASSUME pos + d \in OD!Taken PROVE At(d).set
    <3>1. PICK e \in InWindowSet : place[e] = pos + d
      BY <1>6, <2>3
    <3>2. PICK i \in 0 .. count - 1 : At(i).set /\ place[e] = pos + i
      BY <1>4
    <3>3. i = d
      BY <1>3, <3>1, <3>2
    <3> QED
      BY <3>2, <3>3
  <2> QED
    BY <2>2, <2>3
<1> QED
  BY <1>1, <1>5, <1>6, <1>7

(* A push offers its element at the place that its number means. *)
LEMMA PushOffers ==
    ASSUME Inv, NEW s \in SeqNums, NEW elem \in Elements, Pushing(s, elem)
    PROVE  OD!Offer(elem) /\ place'[elem] = PlaceOf(s) /\ status # "closed"
<1>1. place' = [e \in DOMAIN place \cup {elem} |-> IF e = elem THEN PlaceOf(s) ELSE place[e]]
      /\ status = "open" /\ elem \notin DOMAIN place
  BY DEF Pushing
<1>2. PlaceOf(s) \in Int /\ \A e \in DOMAIN place : place[e] \in Int
  BY PlaceType DEF Inv, TypeOK
<1>3. place' \in [DOMAIN place \cup {elem} -> Int]
  BY <1>1, <1>2
<1>4. \A e \in DOMAIN place : place'[e] = place[e]
  BY <1>1
<1> QED
  BY <1>1, <1>3, <1>4 DEF OD!Offer

(* A number inside the window or ahead of it within the ring is kept. *)
LEMMA PushFillKeeps ==
    ASSUME Inv, NEW s \in SeqNums, NEW elem \in Elements, PushFill(s, elem)
    PROVE  OD!Keep(elem)
<1>1. Pushing(s, elem) /\ InWindow(s) /\ ~slots[Idx(s)].set
      /\ UNCHANGED <<begin, count, drop_strategy, status, pos, pulled>>
  BY DEF PushFill
<1>2. OD!Offer(elem) /\ place'[elem] = PlaceOf(s) /\ status # "closed"
  BY <1>1, PushOffers
<1>3. PICK d : d = SeqDist(begin, s)
  OBVIOUS
<1>4. d \in 0 .. count - 1 /\ PlaceOf(s) = pos + d /\ SeqAdd(begin, d) = s
  BY <1>1, <1>3, WindowOffset, PlaceAhead, SeqAddDist DEF Inv, TypeOK
<1>5. ~At(d).set
  BY <1>1, <1>4 DEF At
<1>6. pos + d \in pos .. pos + Size - 1
  BY <1>4, SizeFacts DEF Inv, TypeOK
<1>7. pos + d \notin OD!Taken
  BY <1>2, <1>4, <1>5, TakenAre
<1>8. HeldElements' = HeldElements \cup {elem}
  <2>1. HeldElements = InWindowSet /\ HeldElements' = InWindowSet'
    BY <1>1, <1>2, HeldElementsIs
  <2> QED
    BY <2>1, PushFillHolds
<1> QED
  BY <1>1, <1>2, <1>4, <1>6, <1>7, <1>8 DEF OD!Keep

LEMMA PushExtendKeeps ==
    ASSUME Inv, NEW s \in SeqNums, NEW elem \in Elements, PushExtend(s, elem)
    PROVE  OD!Keep(elem)
<1>1. Pushing(s, elem) /\ Ahead(s) /\ ~Overflows(s)
      /\ UNCHANGED <<drop_strategy, status, pos, pulled>>
  BY DEF PushExtend
<1>2. OD!Offer(elem) /\ place'[elem] = PlaceOf(s) /\ status # "closed"
  BY <1>1, PushOffers
<1>3. PICK d : d = SeqDist(begin, s)
  OBVIOUS
<1>4. d \in count .. Size - 1 /\ PlaceOf(s) = pos + d
  BY <1>1, <1>3, AheadOffset, PlaceAhead DEF Inv, Ahead
<1>5. pos + d \in pos .. pos + Size - 1 /\ ~(pos + d < pos + count)
  BY <1>4, SizeFacts DEF Inv, TypeOK
<1>6. pos + d \notin OD!Taken
  BY <1>2, <1>5, TakenAre
<1>7. HeldElements' = HeldElements \cup {elem}
  <2>1. HeldElements = InWindowSet /\ HeldElements' = InWindowSet'
    BY <1>1, <1>2, HeldElementsIs
  <2> QED
    BY <2>1, PushExtendHolds
<1> QED
  BY <1>1, <1>2, <1>4, <1>5, <1>6, <1>7 DEF OD!Keep

(* What is refused came twice, too late or too far ahead. *)
LEMMA PushRefuseRefuses ==
    ASSUME Inv, NEW s \in SeqNums, NEW elem \in Elements, PushRefuse(s, elem)
    PROVE  OD!Refuse(elem)
<1>1. /\ Pushing(s, elem)
      /\ UNCHANGED <<slots, begin, count, drop_strategy, status, pos, pulled>>
  BY DEF PushRefuse, queueVars
<1>2. OD!Offer(elem) /\ place'[elem] = PlaceOf(s) /\ status # "closed"
  BY <1>1, PushOffers
<1>3. HeldElements' = HeldElements
  BY <1>1 DEF HeldElements, Held, At
<1>4. CASE InWindow(s) /\ slots[Idx(s)].set
  <2>1. PICK d : d = SeqDist(begin, s)
    OBVIOUS
  <2>2. d \in 0 .. count - 1 /\ PlaceOf(s) = pos + d /\ SeqAdd(begin, d) = s
    BY <1>4, <2>1, WindowOffset, PlaceAhead, SeqAddDist DEF Inv, TypeOK
  <2>3. At(d).set
    BY <1>4, <2>2 DEF At
  <2>4. PlaceOf(s) \in OD!Taken
    BY <1>2, <2>2, <2>3, TakenAre
  <2> QED
    BY <1>1, <1>2, <1>3, <2>4 DEF OD!Refuse
<1>5. CASE Behind(s)
  <2>1. SeqLt(s, begin) /\ begin \in SeqNums /\ pos \in Nat
    BY <1>5 DEF Behind, Inv, TypeOK
  <2>2. SeqDist(s, begin) \in Nat /\ SeqDist(s, begin) > 0
    <3>1. SeqDist(s, begin) = IF s <= begin THEN begin - s ELSE begin - s + SeqMod
      BY <2>1, SeqDistCases
    <3>2. s # begin /\ s \in Nat /\ begin \in Nat /\ s < SeqMod /\ begin < SeqMod
      BY <2>1, SizeFacts DEF SeqLt, SeqNums
    <3> QED
      BY <3>1, <3>2, SizeFacts
  <2>3. PlaceOf(s) < pos
    BY <2>1, <2>2 DEF PlaceOf
  <2> QED
    BY <1>1, <1>2, <1>3, <2>3 DEF OD!Refuse
<1>6. CASE Ahead(s) /\ Overflows(s) /\ drop_strategy = "END"
  <2>1. PICK d, x : d = SeqDist(begin, s) /\ x = SeqDist(TotalEnd, SeqAdd(s, 1))
    OBVIOUS
  <2>2. x \in 1 .. SeqHalf - 1 /\ d = x + Size - 1 /\ PlaceOf(s) = pos + d
    BY <1>6, <2>1, SlideOffset, PlaceAhead DEF Inv, Ahead
  <2>3. PlaceOf(s) >= pos + Size
    BY <2>2, SizeFacts DEF Inv, TypeOK
  <2>4. drop_strategy # "BEGIN"
    BY <1>6
  <2> QED
    BY <1>1, <1>2, <1>3, <2>3, <2>4 DEF OD!Refuse
<1> QED
  BY <1>4, <1>5, <1>6 DEF PushRefuse

(* What is given up for a new element lies before the new beginning. *)
LEMMA PushSlideSkips ==
    ASSUME Inv, NEW s \in SeqNums, NEW elem \in Elements, PushSlide(s, elem)
    PROVE  OD!Skip(elem)
<1>1. PICK x : x = SeqDist(TotalEnd, SeqAdd(s, 1))
  OBVIOUS
<1>2. PICK d, shift : d = SeqDist(begin, s) /\ shift = IF x >= count THEN d ELSE x
  OBVIOUS
<1>3. /\ Pushing(s, elem) /\ Ahead(s) /\ Overflows(s) /\ drop_strategy = "BEGIN"
      /\ pos' = pos + shift
      /\ UNCHANGED <<drop_strategy, status, pulled>>
  BY <1>1, <1>2 DEF PushSlide
<1>4. OD!Offer(elem) /\ place'[elem] = PlaceOf(s) /\ status # "closed"
  BY <1>3, PushOffers
<1>5. x \in 1 .. SeqHalf - 1 /\ d = x + Size - 1 /\ PlaceOf(s) = pos + d
  BY <1>1, <1>2, <1>3, SlideOffset, PlaceAhead DEF Inv, Ahead
<1>6. pos \in Nat /\ count \in 0 .. Size /\ Size \in Nat /\ Size > 1
  BY SizeFacts DEF Inv, TypeOK
<1>7. /\ PlaceOf(s) >= pos + Size
      /\ pos' \in PlaceOf(s) + 1 - Size .. PlaceOf(s)
  BY <1>2, <1>3, <1>5, <1>6
<1>8. ASSUME NEW j \in 0 .. count - 1
      PROVE  j \in x .. count - 1 <=> pos + j >= pos'
  BY <1>2, <1>3, <1>5, <1>6
<1>9. HeldElements = InWindowSet /\ HeldElements' = InWindowSet'
  BY <1>3, <1>4, HeldElementsIs
<1>10. \A e : e \in InWindowSet' <=> e = elem \/ \E j \in x .. count - 1 : At(j).set /\ At(j).user = e
  BY <1>1, PushSlideHolds
<1>11. ASSUME NEW e
       PROVE  (\E j \in x .. count - 1 : At(j).set /\ At(j).user = e)
                 <=> e \in InWindowSet /\ place[e] >= pos'
  <2>1. \A j \in 0 .. count - 1 : j \in Indices /\ j < count
    BY <1>6 DEF Indices
  <2>2. \A j \in Indices : j < count => j \in 0 .. count - 1
    BY <1>6 DEF Indices
  <2>3. \A j \in Indices : Held(j) => place[At(j).user] = pos + j
    BY DEF Inv, EntriesMatchSerials
  <2>4. \A j \in x .. count - 1 : j \in 0 .. count - 1
    BY <1>5
  <2>5. ASSUME NEW j \in x .. count - 1, At(j).set, At(j).user = e
        PROVE  e \in InWindowSet /\ place[e] >= pos'
    <3>1. j \in 0 .. count - 1 /\ j \in Indices /\ Held(j)
      BY <2>1, <2>4, <2>5 DEF Held
    <3>2. pos + j >= pos'
      BY <1>8, <3>1
    <3> QED
      BY <2>3, <2>5, <3>1, <3>2, InWindowSetIs
  <2>6. ASSUME e \in InWindowSet, place[e] >= pos'
        PROVE  \E j \in x .. count - 1 : At(j).set /\ At(j).user = e
    <3>1. PICK j \in Indices : Held(j) /\ At(j).user = e
      BY <2>6, InWindowSetIs
    <3>2. j \in 0 .. count - 1 /\ At(j).set /\ place[e] = pos + j
      BY <2>2, <2>3, <3>1 DEF Held
    <3>3. j \in x .. count - 1
      BY <1>8, <2>6, <3>2
    <3> QED
      BY <3>1, <3>2, <3>3
  <2> QED
    BY <2>5, <2>6
<1>12. HeldElements' = {e \in HeldElements : place[e] >= pos'} \cup {elem}
  BY <1>9, <1>10, <1>11
<1> QED
  BY <1>3, <1>4, <1>7, <1>12 DEF OD!Skip

(* Pull returns the element whose turn it is. *)
LEMMA PullDelivers ==
    ASSUME RefinedInv, Pull
    PROVE  \E e \in Elements : OD!Deliver(e)
<1>1. PICK out : out = At(0).user
  OBVIOUS
<1>2. /\ status = "open" /\ pos' = pos + 1
      /\ pulled' = Append(pulled, [seq |-> begin, user |-> out])
      /\ UNCHANGED <<drop_strategy, status, place>>
  BY <1>1 DEF Pull
<1>3. /\ Held(0) /\ 0 \in Indices /\ out \in InWindowSet
      /\ \A e : e \in InWindowSet' <=> e \in InWindowSet /\ e # out
  BY <1>1, PullHolds DEF RefinedInv
<1>4. HeldElements = InWindowSet /\ HeldElements' = InWindowSet'
  BY <1>2, HeldElementsIs
<1>5. place[out] = pos /\ out \in Elements
  <2>1. out \in DOMAIN place /\ place[out] = pos + 0
    BY <1>1, <1>3 DEF RefinedInv, Inv, EntriesMatchSerials
  <2> QED
    BY <2>1 DEF RefinedInv, Inv, TypeOK
<1>6. [k \in 1 .. Len(pulled') |-> pulled'[k].user] = Append([k \in 1 .. Len(pulled) |-> pulled[k].user], out)
  <2>1. PICK q, r, n : q = pulled /\ r = [seq |-> begin, user |-> out] /\ n = Len(q)
    OBVIOUS
  <2>2. q \in Seq([seq : SeqNums, user : Elements]) /\ r \in [seq : SeqNums, user : Elements] /\ n \in Nat
    BY <1>5, <2>1 DEF RefinedInv, Inv, TypeOK
  <2>3. /\ Len(Append(q, r)) = n + 1
        /\ \A k \in 1 .. n : Append(q, r)[k] = q[k]
        /\ Append(q, r)[n + 1] = r
    BY <2>1, <2>2
  <2>4. \A k \in 1 .. n : q[k].user \in Elements
    <3>1. PICK S : S = [seq : SeqNums, user : Elements]
      OBVIOUS
    <3>2. q \in Seq(S)
      BY <2>2, <3>1
    <3>3. \A k \in 1 .. n : q[k] \in S
      BY <2>1, <3>2
    <3> QED
      BY <3>1, <3>3
  <2>5. PICK u : u = [k \in 1 .. n |-> q[k].user]
    OBVIOUS
  <2>6. u \in Seq(Elements) /\ Len(u) = n
    BY <2>2, <2>4, <2>5
  <2>7. Append(u, out) = [k \in 1 .. n + 1 |-> IF k = n + 1 THEN out ELSE u[k]]
    <3>1. PICK w : w = Append(u, out)
      OBVIOUS
    <3>2. /\ w \in Seq(Elements) /\ Len(w) = n + 1
          /\ \A k \in 1 .. n : w[k] = u[k]
          /\ w[n + 1] = out
      BY <1>5, <2>6, <3>1
    <3>3. w = [k \in 1 .. n + 1 |-> w[k]]
      BY <3>2
    <3>4. \A k \in 1 .. n + 1 : w[k] = IF k = n + 1 THEN out ELSE u[k]
      BY <2>2, <3>2
    <3> QED
      BY <3>1, <3>3, <3>4
  <2>8. ASSUME NEW k \in 1 .. n + 1
        PROVE  Append(q, r)[k].user = IF k = n + 1 THEN out ELSE u[k]
    <3>1. CASE k = n + 1
      BY <2>1, <2>3, <3>1
    <3>2. CASE k # n + 1
      <4>1. k \in 1 .. n
        BY <2>2, <3>2
      <4> QED
        BY <2>3, <2>5, <3>2, <4>1
    <3> QED
      BY <3>1, <3>2
  <2>9. [k \in 1 .. n + 1 |-> Append(q, r)[k].user] = Append(u, out)
    BY <2>7, <2>8
  <2> QED
    BY <1>2, <2>1, <2>3, <2>5, <2>9
<1>7. HeldElements' = HeldElements \ {out}
  BY <1>3, <1>4
<1>8. out \in HeldElements /\ status # "closed"
  BY <1>2, <1>3, <1>4
<1> QED
  BY <1>2, <1>5, <1>6, <1>7, <1>8 DEF OD!Deliver

LEMMA FiniCloses == Fini => OD!Close
  BY HeldElementsIs DEF Fini, OD!Close

(* What the owner drops stays where it is, and a failed assertion stops all. *)
LEMMA OthersStutter ==
    ASSUME Inv,
           \/ \E index \in DropIndices : Drop(index)
           \/ \E s \in SeqNums, elem \in Elements : PushAbort(s, elem)
           \/ UNCHANGED vars
    PROVE  UNCHANGED OD!vars
<1>1. ASSUME NEW index \in DropIndices, Drop(index) PROVE UNCHANGED OD!vars
  <2>1. index \in Nat /\ UNCHANGED <<slots, begin, drop_strategy, status, pos, place, pulled>>
    BY <1>1, SizeAssumption DEF Drop
  <2>2. count' = count
    BY <1>1, <2>1, DropKeepsCount
  <2>3. HeldElements' = HeldElements
    BY <2>1, <2>2 DEF HeldElements, Held, At
  <2> QED
    BY <2>1, <2>3 DEF OD!vars
<1>2. ASSUME NEW s \in SeqNums, NEW elem \in Elements, PushAbort(s, elem) PROVE UNCHANGED OD!vars
  <2>1. /\ UNCHANGED <<slots, begin, count, drop_strategy, pos, place, pulled>>
        /\ status = "open" /\ status' = "aborted"
    BY <1>2 DEF PushAbort, history
  <2>2. HeldElements' = HeldElements
    BY <2>1 DEF HeldElements, Held, At
  <2> QED
    BY <2>1, <2>2 DEF OD!vars
<1>3. ASSUME UNCHANGED vars PROVE UNCHANGED OD!vars
  <2>1. HeldElements' = HeldElements
    BY <1>3 DEF vars, HeldElements, Held, At
  <2> QED
    BY <1>3, <2>1 DEF vars, OD!vars
<1> QED
  BY <1>1, <1>2, <1>3

(* Every step of the queue is one of ordered delivery, or none. *)
LEMMA StepRefines ==
    ASSUME RefinedInv, [Next]_vars
    PROVE  [OD!Next]_(OD!vars)
<1>1. ASSUME NEW s \in SeqNums, NEW elem \in Elements, Push(s, elem)
      PROVE  [OD!Next]_(OD!vars)
  <2>1. CASE PushFill(s, elem)
    BY <2>1, PushFillKeeps DEF RefinedInv, OD!Next
  <2>2. CASE PushRefuse(s, elem)
    BY <2>2, PushRefuseRefuses DEF RefinedInv, OD!Next
  <2>3. CASE PushExtend(s, elem)
    BY <2>3, PushExtendKeeps DEF RefinedInv, OD!Next
  <2>4. CASE PushSlide(s, elem)
    BY <2>4, PushSlideSkips DEF RefinedInv, OD!Next
  <2>5. CASE PushAbort(s, elem)
    BY <2>5, OthersStutter DEF RefinedInv
  <2> QED
    BY <1>1, <2>1, <2>2, <2>3, <2>4, <2>5 DEF Push
<1>2. CASE Pull
  BY <1>2, PullDelivers DEF OD!Next
<1>3. CASE Fini
  BY <1>3, FiniCloses DEF OD!Next
<1>4. CASE (\E index \in DropIndices : Drop(index)) \/ UNCHANGED vars
  BY <1>4, OthersStutter DEF RefinedInv
<1> QED
  BY <1>1, <1>2, <1>3, <1>4 DEF Next

LEMMA InitRefines == Init => RefinedInv /\ OD!Init
<1> SUFFICES ASSUME Init PROVE RefinedInv /\ OD!Init
  OBVIOUS
<1>1. Inv /\ pulled = <<>>
  BY InitInv DEF Init
<1>2. RefinedInv
  BY <1>1 DEF RefinedInv
<1>3. HeldElements = {}
  BY DEF Init, HeldElements, Held, Indices
<1>4. [k \in 1 .. Len(pulled) |-> pulled[k].user] = <<>>
  BY <1>1
<1>5. (drop_strategy = "BEGIN") \in BOOLEAN /\ ~(status = "closed")
  BY DEF Init
<1> QED
  BY <1>2, <1>3, <1>4, <1>5 DEF Init, OD!Init

(* The reorder queue implements ordered delivery: for every size of ring,  *)
(* width of the serial numbers, drop strategy and order of pushes, nothing *)
(* that can be delivered is refused, skipped, given up too early or handed *)
(* out of its turn.                                                        *)
THEOREM DeliversInOrder == Spec => ImplementsOrderedDelivery
<1>1. Init => RefinedInv /\ OD!Init
  BY InitRefines
<1>2. RefinedInv /\ [Next]_vars => RefinedInv' /\ [OD!Next]_(OD!vars)
  BY RefinedStep, StepRefines
<1> QED
  BY <1>1, <1>2, PTL DEF Spec, ImplementsOrderedDelivery, OD!Spec
=============================================================================
