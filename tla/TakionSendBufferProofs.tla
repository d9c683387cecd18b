----------------------- MODULE TakionSendBufferProofs -----------------------
(***************************************************************************)
(* Proofs about the send buffer: for every size of the array, width of the *)
(* numbers and number of messages, and whatever the network does, the one  *)
(* pass of an acknowledgement takes exactly what it covers, buffers have   *)
(* one owner, events are for messages the console has, one for each, and   *)
(* the resend thread does not sleep on packets.                            *)
(***************************************************************************)
EXTENDS TakionSendBuffer, SeqNumProofs, FiniteSetTheorems, SequenceTheorems

-----------------------------------------------------------------------------
(* The pass of an acknowledgement over the array                           *)

Entries == [seq_num : SeqNums \cup {NoSeq}, due : BOOLEAN]

(* What the proofs need of the array. *)
ArrayTyped ==
    /\ packets \in [1 .. Size -> Entries]
    /\ packets_count \in 0 .. Size

Taken(ack, i) == Cardinality(Covered(ack, i))

(* Covered slots are counted one by one. *)
LEMMA TakenCounts ==
    ASSUME NEW ack
    PROVE  /\ Covered(ack, 0) = {} /\ Taken(ack, 0) = 0
           /\ \A i \in Nat : Taken(ack, i) \in 0 .. i
           /\ \A i \in Nat : /\ i + 1 \in Covered(ack, i + 1) => Taken(ack, i + 1) = Taken(ack, i) + 1
                             /\ i + 1 \notin Covered(ack, i + 1) => Taken(ack, i + 1) = Taken(ack, i)
<1>1. Covered(ack, 0) = {}
  BY DEF Covered
<1>2. Taken(ack, 0) = 0
  BY <1>1, FS_EmptySet DEF Taken
<1>3. ASSUME NEW i \in Nat
      PROVE  IsFiniteSet(Covered(ack, i)) /\ Taken(ack, i) \in 0 .. i
  <2>1. IsFiniteSet(1 .. i) /\ Cardinality(1 .. i) = i
    <3>1. 1 \in Int /\ i \in Int
      OBVIOUS
    <3>2. IsFiniteSet(1 .. i) /\ Cardinality(1 .. i) = IF 1 > i THEN 0 ELSE i - 1 + 1
      BY <3>1, FS_Interval
    <3> QED
      BY <3>2
  <2>2. Covered(ack, i) \subseteq 1 .. i
    BY DEF Covered
  <2>3. IsFiniteSet(Covered(ack, i)) /\ Cardinality(Covered(ack, i)) <= Cardinality(1 .. i)
    BY <2>1, <2>2, FS_Subset
  <2>4. Cardinality(Covered(ack, i)) \in Nat
    BY <2>3, FS_CardinalityType
  <2> QED
    BY <2>1, <2>3, <2>4 DEF Taken
<1>4. ASSUME NEW i \in Nat, i + 1 \in Covered(ack, i + 1)
      PROVE  Taken(ack, i + 1) = Taken(ack, i) + 1
  <2>1. Covered(ack, i + 1) = Covered(ack, i) \cup {i + 1} /\ i + 1 \notin Covered(ack, i)
    BY <1>4 DEF Covered
  <2>2. Cardinality(Covered(ack, i) \cup {i + 1}) = Cardinality(Covered(ack, i)) + 1
    BY <1>3, <2>1, FS_AddElement
  <2> QED
    BY <2>1, <2>2 DEF Taken
<1>5. ASSUME NEW i \in Nat, i + 1 \notin Covered(ack, i + 1)
      PROVE  Taken(ack, i + 1) = Taken(ack, i)
  <2>1. Covered(ack, i + 1) = Covered(ack, i)
    BY <1>5 DEF Covered
  <2> QED
    BY <2>1 DEF Taken
<1> QED
  BY <1>1, <1>2, <1>3, <1>4, <1>5

(* Slot j of the array is covered. *)
Hit(ack, j) == SeqLe(packets[j].seq_num, ack)

Distinct == \A i, j \in 1 .. packets_count : packets[i].seq_num = packets[j].seq_num => i = j

Passes == [array : [1 .. Size -> Entries], start : Nat, shift : Nat,
           acked : Seq(SeqNums \cup {NoSeq})]

(* Before start the gap is closed: the packets that stay are where they     *)
(* belong, and nothing else is there.                                      *)
Settled(ack, array, start, gap) ==
    /\ \A j \in 1 .. gap - 1 : ~Hit(ack, j) =>
          j - Taken(ack, j) \in 1 .. start - 1 /\ array[j - Taken(ack, j)] = packets[j]
    /\ \A p \in 1 .. start - 1 : \E j \in 1 .. gap - 1 : ~Hit(ack, j) /\ p = j - Taken(ack, j)

(* The events are for the covered packets up to i. *)
Reported(ack, events, i) ==
    /\ Len(events) = Taken(ack, i)
    /\ \A k \in 1 .. Len(events) : \E j \in Covered(ack, i) : events[k] = packets[j].seq_num
    /\ \A j \in Covered(ack, i) : \E k \in 1 .. Len(events) : events[k] = packets[j].seq_num
    /\ Distinct => \A k, l \in 1 .. Len(events) : events[k] = events[l] => k = l

(* After slot i: a gap of size shift begins at start, and what lies behind  *)
(* it has not been moved and is not covered.                               *)
PassTrue(ack, pass, i) ==
    LET gap == pass.start + pass.shift
    IN  /\ pass \in Passes
        /\ pass.shift = Taken(ack, i)
        /\ pass.start = 0 => pass.shift = 0 /\ pass.array = packets /\ \A j \in 1 .. i : ~Hit(ack, j)
        /\ pass.start # 0 => /\ pass.shift >= 1 /\ gap <= i + 1
                             /\ \A k \in gap .. Size : pass.array[k] = packets[k]
                             /\ \A j \in gap .. i : ~Hit(ack, j)
                             /\ Settled(ack, pass.array, pass.start, gap)
        /\ Reported(ack, pass.acked, i)

(* Where nothing is covered nothing more is taken. *)
LEMMA TakenStays ==
    ASSUME NEW ack, NEW a \in Nat, NEW b \in Nat, a <= b, \A j \in a + 1 .. b : ~Hit(ack, j)
    PROVE  Taken(ack, b) = Taken(ack, a)
<1>1. Covered(ack, b) = Covered(ack, a)
  BY DEF Covered, Hit
<1> QED
  BY <1>1 DEF Taken

(* The gap is closed up to slot i and nothing behind it has been moved. *)
Closed(ack, array, shift, i) ==
    /\ array \in [1 .. Size -> Entries]
    /\ \A k \in i + 1 .. Size : array[k] = packets[k]
    /\ Settled(ack, array, i + 1 - shift, i + 1)

(* Moving the packets behind the gap closes it up to slot i. *)
LEMMA MoveSettles ==
    ASSUME NEW ack, NEW array \in [1 .. Size -> Entries], NEW start \in Nat \ {0},
           NEW shift \in Nat \ {0}, NEW gap \in Nat, gap = start + shift,
           NEW i \in Nat, gap <= i + 1, i <= Size, ArrayTyped,
           \A k \in gap .. Size : array[k] = packets[k],
           \A j \in gap .. i : ~Hit(ack, j),
           shift = Taken(ack, i),
           Settled(ack, array, start, gap)
    PROVE  Closed(ack, Move(array, start, gap, i - gap + 1), shift, i)
<1> DEFINE n == i - gap + 1
           moved == Move(array, start, gap, n)
<1>0. gap <= i + 1 /\ i <= Size /\ gap = start + shift
  OBVIOUS
<1>1. /\ gap \in Nat /\ n \in Nat /\ start \in Nat /\ shift \in Nat /\ i \in Nat /\ Size \in Nat
      /\ start >= 1 /\ shift >= 1 /\ i <= Size /\ gap = start + shift /\ gap + n = i + 1
  BY ONLY <1>0, SendBufferAssumption
<1>2. \A k \in 1 .. Size : moved[k] = IF k \in start .. start + n - 1 THEN array[gap + k - start]
                                      ELSE array[k]
  BY DEF Move
<1>3. DOMAIN moved = 1 .. Size /\ moved = [k \in 1 .. Size |-> moved[k]]
  BY DEF Move
<1> HIDE DEF moved, n
<1>4. \A k \in start .. start + n - 1 :
         k \in 1 .. Size /\ gap + k - start \in gap .. i /\ gap + k - start \in 1 .. Size
         /\ gap + k - start = k + shift
  BY ONLY <1>1
<1>5. moved \in [1 .. Size -> Entries]
  <2>1. \A k \in 1 .. Size : moved[k] \in Entries
    BY <1>2, <1>4
  <2> QED
    BY <1>3, <2>1
<1>6. ASSUME NEW k \in i + 1 .. Size PROVE moved[k] = packets[k]
  <2>1. k \in 1 .. Size /\ k \notin start .. start + n - 1 /\ k \in gap .. Size
    BY ONLY <1>1
  <2> QED
    BY <1>2, <2>1
<1>7. \A j \in gap - 1 .. i : j \in Nat /\ Taken(ack, j) = shift
  <2> SUFFICES ASSUME NEW j \in gap - 1 .. i PROVE j \in Nat /\ Taken(ack, j) = shift
    OBVIOUS
  <2>1. j \in Nat /\ j <= i /\ \A l \in j + 1 .. i : l \in gap .. i
    BY ONLY <1>1
  <2>2. \A l \in j + 1 .. i : ~Hit(ack, l)
    BY <2>1
  <2> QED
    BY <2>1, <2>2, TakenStays
<1>8. ASSUME NEW j \in 1 .. i, ~Hit(ack, j)
      PROVE  j - Taken(ack, j) \in 1 .. i - shift /\ moved[j - Taken(ack, j)] = packets[j]
  <2> DEFINE p == j - Taken(ack, j)
  <2>1. CASE j \in 1 .. gap - 1
    <3>1. p \in 1 .. start - 1 /\ array[p] = packets[j]
      BY <1>8, <2>1 DEF Settled
    <3> HIDE DEF p
    <3>2. p \in 1 .. Size /\ p \notin start .. start + n - 1 /\ p \in 1 .. i - shift
      BY ONLY <1>1, <3>1
    <3>3. moved[p] = packets[j]
      BY <1>2, <3>1, <3>2
    <3> QED
      BY <3>2, <3>3 DEF p
  <2>2. CASE j \in gap .. i
    <3>1. p = j - shift
      <4>1. j \in gap - 1 .. i
        BY ONLY <1>1, <2>2
      <4> QED
        BY <1>7, <4>1
    <3> HIDE DEF p
    <3>2. p \in start .. start + n - 1 /\ gap + p - start = j /\ p \in 1 .. Size /\ j \in gap .. Size
          /\ p \in 1 .. i - shift
      BY ONLY <1>1, <2>2, <3>1
    <3>3. moved[p] = array[gap + p - start] /\ array[j] = packets[j]
      BY <1>2, <3>2
    <3>4. moved[p] = packets[j]
      BY <3>2, <3>3
    <3> QED
      BY <3>2, <3>4 DEF p
  <2> QED
    BY <1>1, <2>1, <2>2
<1>9. ASSUME NEW p \in 1 .. i - shift
      PROVE  \E j \in 1 .. i : ~Hit(ack, j) /\ p = j - Taken(ack, j)
  <2>1. CASE p \in 1 .. start - 1
    <3>1. PICK j \in 1 .. gap - 1 : ~Hit(ack, j) /\ p = j - Taken(ack, j)
      BY <2>1 DEF Settled
    <3>2. j \in 1 .. i
      BY ONLY <1>1
    <3> QED
      BY <3>1, <3>2
  <2>2. CASE p \in start .. i - shift
    <3> DEFINE j == p + shift
    <3>1. j \in gap .. i /\ j \in gap - 1 .. i /\ j \in 1 .. i /\ p = j - shift
      BY ONLY <1>1, <2>2
    <3>2. ~Hit(ack, j) /\ p = j - Taken(ack, j)
      BY <1>7, <3>1
    <3> HIDE DEF j
    <3> QED
      BY <3>1, <3>2
  <2> QED
    BY <1>1, <2>1, <2>2
<1>10. (i + 1) - 1 = i /\ (i + 1 - shift) - 1 = i - shift
  OBVIOUS
<1>11. Settled(ack, moved, i + 1 - shift, i + 1)
  BY <1>8, <1>9, <1>10 DEF Settled
<1> QED
  BY <1>5, <1>6, <1>11 DEF Closed, moved, n

(* One more slot. *)
LEMMA CoveredNext ==
    ASSUME NEW ack, NEW i \in Nat
    PROVE  /\ Hit(ack, i + 1) => /\ Covered(ack, i + 1) = Covered(ack, i) \cup {i + 1}
                                 /\ Taken(ack, i + 1) = Taken(ack, i) + 1
           /\ ~Hit(ack, i + 1) => /\ Covered(ack, i + 1) = Covered(ack, i)
                                  /\ Taken(ack, i + 1) = Taken(ack, i)
           /\ Covered(ack, i) \subseteq 1 .. i
           /\ Taken(ack, i) \in 0 .. i
<1>1. i + 1 \in Covered(ack, i + 1) <=> Hit(ack, i + 1)
  BY DEF Covered, Hit
<1>2. Covered(ack, i + 1) = IF Hit(ack, i + 1) THEN Covered(ack, i) \cup {i + 1} ELSE Covered(ack, i)
  BY DEF Covered, Hit
<1>3. Covered(ack, i) \subseteq 1 .. i
  BY DEF Covered
<1> QED
  BY <1>1, <1>2, <1>3, TakenCounts

LEMMA ReportedGrows ==
    ASSUME NEW ack, NEW i \in Nat, i + 1 <= packets_count, ArrayTyped,
           NEW events \in Seq(SeqNums \cup {NoSeq}), Reported(ack, events, i), Hit(ack, i + 1)
    PROVE  /\ Append(events, packets[i + 1].seq_num) \in Seq(SeqNums \cup {NoSeq})
           /\ Reported(ack, Append(events, packets[i + 1].seq_num), i + 1)
<1> DEFINE x == packets[i + 1].seq_num
           t == Append(events, x)
           L == Len(events)
<1>1. i + 1 \in 1 .. Size /\ i + 1 \in 1 .. packets_count /\ packets_count \in Nat
  BY SendBufferAssumption DEF ArrayTyped
<1>2. x \in SeqNums \cup {NoSeq}
  BY <1>1 DEF ArrayTyped, Entries
<1>3. Covered(ack, i + 1) = Covered(ack, i) \cup {i + 1} /\ Taken(ack, i + 1) = Taken(ack, i) + 1
      /\ Covered(ack, i) \subseteq 1 .. i
  BY CoveredNext
<1>4. x = packets[i + 1].seq_num
  OBVIOUS
<1>5. L = Len(events) /\ L \in Nat
  OBVIOUS
<1> HIDE DEF x, t, L
<1>6. t = Append(events, x)
  BY DEF t
<1>7. /\ t \in Seq(SeqNums \cup {NoSeq}) /\ Len(t) = L + 1
      /\ \A k \in 1 .. L : t[k] = events[k]
      /\ t[L + 1] = x
  BY <1>2, <1>5, <1>6, AppendProperties
<1>8. Len(t) = Taken(ack, i + 1)
  BY <1>3, <1>5, <1>7 DEF Reported
<1>9. ASSUME NEW k \in 1 .. Len(t)
      PROVE  \E j \in Covered(ack, i + 1) : t[k] = packets[j].seq_num
  <2>1. CASE k = L + 1
    BY <1>3, <1>4, <1>7, <2>1
  <2>2. CASE k \in 1 .. L
    <3>1. PICK j \in Covered(ack, i) : events[k] = packets[j].seq_num
      BY <1>5, <2>2 DEF Reported
    <3>2. j \in Covered(ack, i + 1) /\ t[k] = events[k]
      BY <1>3, <1>7, <2>2
    <3> QED
      BY <3>1, <3>2
  <2> QED
    BY <1>5, <1>7, <2>1, <2>2
<1>10. ASSUME NEW j \in Covered(ack, i + 1)
       PROVE  \E k \in 1 .. Len(t) : t[k] = packets[j].seq_num
  <2>1. CASE j = i + 1
    <3>1. L + 1 \in 1 .. Len(t) /\ t[L + 1] = packets[j].seq_num
      BY <1>4, <1>5, <1>7, <2>1
    <3> QED
      BY <3>1
  <2>2. CASE j \in Covered(ack, i)
    <3>1. PICK k \in 1 .. L : events[k] = packets[j].seq_num
      BY <1>5, <2>2 DEF Reported
    <3>2. k \in 1 .. Len(t) /\ t[k] = events[k]
      BY <1>5, <1>7
    <3> QED
      BY <3>1, <3>2
  <2> QED
    BY <1>3, <2>1, <2>2
<1>11. ASSUME Distinct, NEW k \in 1 .. Len(t), NEW l \in 1 .. Len(t), t[k] = t[l]
       PROVE  k = l
  <2>1. \A m \in 1 .. L : t[m] # x
    <3> SUFFICES ASSUME NEW m \in 1 .. L, t[m] = x PROVE FALSE
      OBVIOUS
    <3>1. PICK j \in Covered(ack, i) : events[m] = packets[j].seq_num
      BY <1>5 DEF Reported
    <3>2. packets[j].seq_num = packets[i + 1].seq_num
      BY <1>4, <1>7, <3>1
    <3>3. j \in 1 .. i /\ j \in 1 .. packets_count
      BY <1>1, <1>3
    <3>4. j = i + 1
      BY <1>1, <1>11, <3>2, <3>3 DEF Distinct
    <3> QED
      BY <3>3, <3>4
  <2>2. \A m, o \in 1 .. L : t[m] = t[o] => m = o
    BY <1>5, <1>7, <1>11 DEF Reported
  <2>3. (k \in 1 .. L \/ k = L + 1) /\ (l \in 1 .. L \/ l = L + 1)
    BY <1>5, <1>7
  <2> QED
    BY <1>7, <1>11, <2>1, <2>2, <2>3
<1>12. Reported(ack, t, i + 1)
  BY <1>8, <1>9, <1>10, <1>11 DEF Reported
<1> QED
  BY <1>7, <1>12 DEF t, x

(* The loop body keeps the pass true. *)
LEMMA PassStep ==
    ASSUME NEW ack, NEW i \in Nat, i + 1 <= packets_count, ArrayTyped,
           NEW pass, PassTrue(ack, pass, i)
    PROVE  PassTrue(ack, AckEntry(ack, pass, i + 1), i + 1)
<1> DEFINE array == pass.array
           start == pass.start
           shift == pass.shift
           gap == start + shift
           n == i + 1
           pass2 == AckEntry(ack, pass, n)
           x == packets[n].seq_num
<1> SUFFICES PassTrue(ack, pass2, n)
  OBVIOUS
<1>1. /\ array \in [1 .. Size -> Entries] /\ start \in Nat /\ shift \in Nat
      /\ pass.acked \in Seq(SeqNums \cup {NoSeq})
      /\ shift = Taken(ack, i) /\ Reported(ack, pass.acked, i)
  BY DEF PassTrue, Passes
<1>2. /\ start = 0 => shift = 0 /\ array = packets /\ \A j \in 1 .. i : ~Hit(ack, j)
      /\ start # 0 => /\ shift >= 1 /\ gap <= i + 1
                      /\ \A k \in gap .. Size : array[k] = packets[k]
                      /\ \A j \in gap .. i : ~Hit(ack, j)
                      /\ Settled(ack, array, start, gap)
  BY DEF PassTrue
<1>3. n \in 1 .. Size /\ packets_count \in Nat /\ Size \in Nat /\ n \in Nat /\ n <= Size
      /\ n = i + 1
  BY SendBufferAssumption DEF ArrayTyped
<1>4. pass = [array |-> array, start |-> start, shift |-> shift, acked |-> pass.acked]
  BY DEF PassTrue, Passes
<1> HIDE DEF array, start, shift
<1>5. array[n] = packets[n]
  <2>1. CASE start = 0
    BY <1>2, <2>1
  <2>2. CASE start # 0
    <3>1. n \in gap .. Size
      BY <1>1, <1>2, <1>3, <2>2
    <3> QED
      BY <1>2, <2>2, <3>1
  <2> QED
    BY <2>1, <2>2
<1>6. pass2 = IF ~Hit(ack, n) THEN pass
              ELSE [array |-> IF start = 0 \/ gap = n THEN array ELSE Move(array, start, gap, n - gap),
                    start |-> IF start = 0 THEN n ELSE IF gap = n THEN start ELSE n - shift,
                    shift |-> shift + 1,
                    acked |-> Append(pass.acked, x)]
  BY <1>5 DEF AckEntry, Covers, Hit, array, start, shift
<1> HIDE DEF pass2
<1>7. CASE ~Hit(ack, n)
  <2>1. Covered(ack, n) = Covered(ack, i) /\ Taken(ack, n) = Taken(ack, i)
    BY <1>7, CoveredNext
  <2>2. Reported(ack, pass.acked, n)
    BY <1>1, <2>1 DEF Reported
  <2>3. start = 0 => \A j \in 1 .. n : ~Hit(ack, j)
    BY <1>2, <1>3, <1>7
  <2>4. start # 0 => gap <= n + 1 /\ \A j \in gap .. n : ~Hit(ack, j)
    <3> SUFFICES ASSUME start # 0 PROVE gap <= n + 1 /\ \A j \in gap .. n : ~Hit(ack, j)
      OBVIOUS
    <3>1. gap \in Nat /\ gap <= n
      BY <1>1, <1>2
    <3>2. \A j \in gap .. n : j = n \/ j \in gap .. i
      BY <1>1, <1>3, <3>1
    <3> QED
      BY <1>2, <1>3, <1>7, <3>1, <3>2
  <2>5. pass2 = pass
    BY <1>6, <1>7
  <2>6. PassTrue(ack, pass, n)
    BY <1>1, <1>2, <2>1, <2>2, <2>3, <2>4 DEF PassTrue, array, start, shift
  <2> QED
    BY <2>5, <2>6
<1>8. CASE Hit(ack, n)
  <2> DEFINE events == Append(pass.acked, x)
  <2>1. Covered(ack, n) = Covered(ack, i) \cup {n} /\ Taken(ack, n) = Taken(ack, i) + 1
    BY <1>8, CoveredNext
  <2>2. events \in Seq(SeqNums \cup {NoSeq}) /\ Reported(ack, events, n)
    BY <1>1, <1>8, ReportedGrows
  <2> HIDE DEF events
  <2>3. ASSUME NEW b \in [1 .. Size -> Entries], NEW st \in Nat \ {0}, st + (shift + 1) = n + 1,
               \A k \in n + 1 .. Size : b[k] = packets[k],
               Settled(ack, b, st, n + 1),
               pass2 = [array |-> b, start |-> st, shift |-> shift + 1, acked |-> events]
        PROVE  PassTrue(ack, pass2, n)
    <3>1. pass2 \in Passes
      BY <1>1, <2>2, <2>3 DEF Passes
    <3>2. pass2.array = b /\ pass2.start = st /\ pass2.shift = shift + 1 /\ pass2.acked = events
      BY <2>3
    <3>3. \A j \in n + 1 .. n : FALSE
      BY <1>3
    <3> QED
      BY <1>1, <1>3, <2>1, <2>2, <2>3, <3>1, <3>2, <3>3 DEF PassTrue
  <2>4. CASE start = 0
    <3>1. pass2 = [array |-> packets, start |-> n, shift |-> shift + 1, acked |-> events]
      BY <1>2, <1>6, <1>8, <2>4 DEF events
    <3>2. ASSUME NEW j \in 1 .. n, ~Hit(ack, j)
          PROVE  j \in 1 .. i /\ Taken(ack, j) = 0
      <4>1. j \in 1 .. i
        BY <1>3, <1>8, <3>2
      <4>2. \A l \in 0 + 1 .. j : ~Hit(ack, l)
        BY <1>2, <2>4, <4>1
      <4>3. Taken(ack, j) = Taken(ack, 0)
        BY <4>1, <4>2, TakenStays
      <4> QED
        BY <4>1, <4>3, TakenCounts
    <3>3. ASSUME NEW p \in 1 .. n - 1
          PROVE  \E j \in 1 .. n : ~Hit(ack, j) /\ p = j - Taken(ack, j)
      <4>1. p \in 1 .. n /\ p \in 1 .. i
        BY <1>3
      <4>2. ~Hit(ack, p)
        BY <1>2, <2>4, <4>1
      <4>3. p = p - Taken(ack, p)
        BY <3>2, <4>1, <4>2
      <4> QED
        BY <4>1, <4>2, <4>3
    <3>4. ASSUME NEW j \in 1 .. n, ~Hit(ack, j)
          PROVE  j - Taken(ack, j) \in 1 .. n - 1 /\ packets[j - Taken(ack, j)] = packets[j]
      <4>1. j \in 1 .. i /\ j - Taken(ack, j) = j
        BY <3>2, <3>4
      <4> QED
        BY <1>3, <4>1
    <3>5. (n + 1) - 1 = n
      BY <1>3
    <3>6. Settled(ack, packets, n, n + 1)
      BY <3>3, <3>4, <3>5 DEF Settled
    <3>7. n \in Nat \ {0} /\ n + (shift + 1) = n + 1 /\ packets \in [1 .. Size -> Entries]
      BY <1>1, <1>2, <1>3, <2>4 DEF ArrayTyped
    <3> HIDE DEF n
    <3> QED
      BY <2>3, <3>1, <3>6, <3>7
  <2>5. CASE start # 0 /\ gap = n
    <3>1. pass2 = [array |-> array, start |-> start, shift |-> shift + 1, acked |-> events]
      BY <1>6, <1>8, <2>5 DEF events
    <3>2. gap - 1 = i /\ (n + 1) - 1 = n
      BY <1>3, <2>5
    <3>3. ASSUME NEW j \in 1 .. n, ~Hit(ack, j)
          PROVE  j - Taken(ack, j) \in 1 .. start - 1 /\ array[j - Taken(ack, j)] = packets[j]
      <4>1. j \in 1 .. gap - 1
        BY <1>3, <1>8, <3>2, <3>3
      <4> QED
        BY <1>2, <2>5, <3>3, <4>1 DEF Settled
    <3>4. ASSUME NEW p \in 1 .. start - 1
          PROVE  \E j \in 1 .. n : ~Hit(ack, j) /\ p = j - Taken(ack, j)
      <4>1. PICK j \in 1 .. gap - 1 : ~Hit(ack, j) /\ p = j - Taken(ack, j)
        BY <1>2, <2>5 DEF Settled
      <4>2. j \in 1 .. n
        BY <1>3, <3>2
      <4> QED
        BY <4>1, <4>2
    <3>5. Settled(ack, array, start, n + 1)
      BY <3>2, <3>3, <3>4 DEF Settled
    <3>6. \A k \in n + 1 .. Size : array[k] = packets[k]
      <4>1. \A k \in n + 1 .. Size : k \in gap .. Size
        BY <1>3, <2>5
      <4> QED
        BY <1>2, <2>5, <4>1
    <3>7. start \in Nat \ {0} /\ start + (shift + 1) = n + 1
      BY <1>1, <2>5
    <3> HIDE DEF n
    <3> QED
      BY <1>1, <2>3, <3>1, <3>5, <3>6, <3>7
  <2>6. CASE start # 0 /\ gap # n
    <3> DEFINE b == Move(array, start, gap, n - gap)
               st == n - shift
    <3>1. pass2 = [array |-> b, start |-> st, shift |-> shift + 1, acked |-> events]
      BY <1>6, <1>8, <2>6 DEF events
    <3>2. n - gap = i - gap + 1 /\ st = i + 1 - shift /\ start + shift <= i + 1 /\ i <= Size
          /\ start \in Nat \ {0} /\ shift \in Nat \ {0}
      <4>1. shift >= 1 /\ start + shift <= i + 1 /\ start # 0 /\ start \in Nat /\ shift \in Nat
        BY <1>1, <1>2, <2>6
      <4>2. i \in Nat /\ Size \in Nat /\ n <= Size
        BY <1>3
      <4> QED
        BY ONLY <4>1, <4>2
    <3>3. /\ b \in [1 .. Size -> Entries]
          /\ \A k \in i + 1 .. Size : b[k] = packets[k]
          /\ Settled(ack, b, i + 1 - shift, i + 1)
      <4>1. /\ array \in [1 .. Size -> Entries] /\ ArrayTyped
            /\ \A k \in gap .. Size : array[k] = packets[k]
            /\ \A j \in gap .. i : ~Hit(ack, j)
            /\ shift = Taken(ack, i)
            /\ Settled(ack, array, start, gap)
        BY <1>1, <1>2, <2>6
      <4>2. gap \in Nat /\ gap = start + shift /\ gap <= i + 1
        BY <3>2
      <4> HIDE DEF gap
      <4>3. Closed(ack, Move(array, start, gap, i - gap + 1), shift, i)
        <5>1. /\ start \in Nat \ {0} /\ shift \in Nat \ {0} /\ i <= Size /\ i \in Nat
          BY <3>2
        <5> HIDE DEF start, shift, array, b, st, n
        <5> QED
          BY ONLY <4>1, <4>2, <5>1, MoveSettles, Zenon
      <4> QED
        BY <3>2, <4>3 DEF Closed
    <3> HIDE DEF b, st
    <3>4. ASSUME NEW j \in 1 .. n, ~Hit(ack, j)
          PROVE  j - Taken(ack, j) \in 1 .. st - 1 /\ b[j - Taken(ack, j)] = packets[j]
      <4>1. j \in 1 .. (i + 1) - 1
        BY <1>3, <1>8, <3>4
      <4> QED
        BY <3>2, <3>3, <3>4, <4>1 DEF Settled
    <3>5. ASSUME NEW p \in 1 .. st - 1
          PROVE  \E j \in 1 .. n : ~Hit(ack, j) /\ p = j - Taken(ack, j)
      <4>1. PICK j \in 1 .. (i + 1) - 1 : ~Hit(ack, j) /\ p = j - Taken(ack, j)
        BY <3>2, <3>3 DEF Settled
      <4>2. j \in 1 .. n
        BY <1>3
      <4> QED
        BY <4>1, <4>2
    <3>6. (n + 1) - 1 = n
      BY <1>3
    <3>7. Settled(ack, b, st, n + 1)
      BY <3>4, <3>5, <3>6 DEF Settled
    <3>8. \A k \in n + 1 .. Size : b[k] = packets[k]
      <4>1. \A k \in n + 1 .. Size : k \in i + 1 .. Size
        BY <1>3
      <4> QED
        BY <3>3, <4>1
    <3>9. st \in Nat \ {0} /\ st + (shift + 1) = n + 1
      BY ONLY <1>3, <3>2
    <3> HIDE DEF n
    <3> QED
      BY <2>3, <3>1, <3>3, <3>7, <3>8, <3>9
  <2> QED
    BY <2>4, <2>5, <2>6
<1> QED
  BY <1>7, <1>8

(* What the whole pass of chiaki_takion_send_buffer_ack computes. *)
LEMMA PassEnds ==
    ASSUME NEW ack, ArrayTyped
    PROVE  PassTrue(ack, AckPass(ack), packets_count)
<1> DEFINE N == packets_count
           c == [array |-> packets, start |-> 0, shift |-> 0, acked |-> <<>>]
           step == [p \in (1 .. N) \X Passes |-> AckEntry(ack, p[2], p[1])]
           Inv == {p \in (0 .. N) \X Passes : PassTrue(ack, p[2], p[1])}
           P(g) == g = [k \in 0 .. N |-> IF k = 0 THEN c ELSE AckEntry(ack, g[k - 1], k)]
           f == CHOOSE g : P(g)
<1>1. f[N] = AckPass(ack)
  BY DEF AckPass
<1>2. N \in Nat
  BY SendBufferAssumption DEF ArrayTyped
<1>3. PassTrue(ack, c, 0) /\ c \in Passes
  <2>1. c \in Passes /\ c.array = packets /\ c.start = 0 /\ c.shift = 0 /\ c.acked = <<>>
    BY DEF Passes, ArrayTyped
  <2>2. Taken(ack, 0) = 0 /\ Covered(ack, 0) = {}
    BY TakenCounts
  <2>3. Len(<<>>) = 0 /\ 1 .. 0 = {}
    OBVIOUS
  <2>4. Reported(ack, <<>>, 0)
    BY <2>2, <2>3 DEF Reported
  <2> HIDE DEF c
  <2> QED
    BY <2>1, <2>2, <2>3, <2>4 DEF PassTrue
<1>4. \A k \in 1 .. N, v \in Passes : step[<<k, v>>] = AckEntry(ack, v, k)
  OBVIOUS
<1>5. \A k \in 0 .. N, v \in Passes : <<k, v>> \in Inv <=> PassTrue(ack, v, k)
  OBVIOUS
<1>6. Inv \in SUBSET ((0 .. N) \X Passes)
  OBVIOUS
<1> HIDE DEF step, Inv, c, f, N
<1>7. <<0, c>> \in Inv
  BY <1>2, <1>3, <1>5
<1>8. ASSUME NEW k \in 1 .. N, NEW v, PassTrue(ack, v, k - 1)
      PROVE  PassTrue(ack, AckEntry(ack, v, k), k) /\ AckEntry(ack, v, k) \in Passes
  <2> DEFINE i == k - 1
  <2>1. i \in Nat /\ i + 1 = k /\ i + 1 <= N
    BY <1>2
  <2>2. PassTrue(ack, v, i)
    BY <1>8
  <2> HIDE DEF i
  <2>3. PassTrue(ack, AckEntry(ack, v, i + 1), i + 1)
    BY <2>1, <2>2, PassStep DEF N
  <2> QED
    BY <2>1, <2>3 DEF PassTrue
<1>9. ASSUME NEW k \in 1 .. N, NEW v \in Passes, <<k - 1, v>> \in Inv
      PROVE  <<k, step[<<k, v>>]>> \in Inv
  <2>1. k - 1 \in 0 .. N /\ k \in 0 .. N
    BY <1>2
  <2>2. PassTrue(ack, v, k - 1)
    BY <1>5, <1>9, <2>1
  <2> QED
    BY <1>4, <1>5, <1>8, <2>1, <2>2
<1>10. PICK h : FollowsSteps(h, N, Passes, c, step) /\ \A k \in 0 .. N : <<k, h[k]>> \in Inv
  BY <1>2, <1>6, <1>7, <1>9, RecursionUnder
<1>11. h \in [0 .. N -> Passes] /\ h[0] = c /\ \A k \in 1 .. N : h[k] = step[<<k, h[k - 1]>>]
  BY <1>10 DEF FollowsSteps
<1>12. \A k \in 1 .. N : k - 1 \in 0 .. N /\ h[k - 1] \in Passes
  BY <1>2, <1>11
<1>13. \A k \in 1 .. N : h[k] = AckEntry(ack, h[k - 1], k)
  BY <1>4, <1>11, <1>12
<1>14. P(h)
  BY <1>2, <1>11, <1>13
<1>15. P(f)
  <2> HIDE DEF P
  <2> QED
    BY <1>14 DEF f
<1>16. f[0] = c /\ \A k \in 1 .. N : f[k] = AckEntry(ack, f[k - 1], k)
  BY <1>2, <1>15
<1> DEFINE T == {k \in 0 .. N : PassTrue(ack, f[k], k)}
<1>17. 0 \in T
  BY <1>2, <1>3, <1>16
<1>18. \A k \in 0 .. N - 1 : k \in T => k + 1 \in T
  <2> SUFFICES ASSUME NEW k \in 0 .. N - 1, PassTrue(ack, f[k], k)
               PROVE  PassTrue(ack, f[k + 1], k + 1) /\ k + 1 \in 0 .. N
    OBVIOUS
  <2>1. k + 1 \in 1 .. N /\ (k + 1) - 1 = k /\ k + 1 \in 0 .. N
    BY <1>2
  <2> QED
    BY <1>8, <1>16, <2>1
<1>19. N \in T
  <2> HIDE DEF T
  <2>1. 0 .. N \subseteq T
    BY <1>2, <1>17, <1>18, InductUpTo
  <2> QED
    BY <1>2, <2>1
<1> QED
  BY <1>1, <1>19 DEF N, f

(* An acknowledgement takes what it covers, and tells of it. *)
AckDone(ack) ==
    LET events == AckPass(ack).acked
    IN  /\ packets' \in [1 .. Size -> Entries]
        /\ packets_count' = packets_count - Taken(ack, packets_count)
        /\ packets_count' \in 0 .. packets_count
        /\ \A j \in 1 .. packets_count : ~Hit(ack, j) =>
              j - Taken(ack, j) \in 1 .. packets_count' /\ packets'[j - Taken(ack, j)] = packets[j]
        /\ \A p \in 1 .. packets_count' :
              \E j \in 1 .. packets_count : ~Hit(ack, j) /\ p = j - Taken(ack, j) /\ packets'[p] = packets[j]
        /\ events \in Seq(SeqNums \cup {NoSeq})
        /\ Reported(ack, events, packets_count)
        /\ acked' = acked \o events
        /\ heap' = [n \in SeqNums |->
                       IF \E i \in DOMAIN events : events[i] = n THEN "freed" ELSE heap[n]]

LEMMA AckEffect ==
    ASSUME NEW ack, ArrayTyped, HandleAck(ack)
    PROVE  AckDone(ack)
<1> DEFINE pass == AckPass(ack)
           array == pass.array
           start == pass.start
           shift == pass.shift
           gap == start + shift
           N == packets_count
           last == IF start # 0 /\ gap <= N THEN Move(array, start, gap, N - gap + 1) ELSE array
<1>1. /\ packets_count' = N - shift
      /\ packets' = [i \in 1 .. Size |-> IF i <= packets_count' THEN last[i] ELSE NoPacket]
      /\ heap' = [n \in SeqNums |->
                    IF \E i \in DOMAIN pass.acked : pass.acked[i] = n THEN "freed" ELSE heap[n]]
      /\ acked' = acked \o pass.acked
  BY DEF HandleAck
<1>2. PassTrue(ack, pass, N)
  BY PassEnds
<1>3. N \in Nat /\ N <= Size /\ Size \in Nat
  BY SendBufferAssumption DEF ArrayTyped
<1> HIDE DEF pass
<1>4. /\ array \in [1 .. Size -> Entries] /\ start \in Nat /\ shift \in Nat
      /\ pass.acked \in Seq(SeqNums \cup {NoSeq})
      /\ shift = Taken(ack, N) /\ Reported(ack, pass.acked, N)
  BY <1>2 DEF PassTrue, Passes
<1>5. /\ start = 0 => shift = 0 /\ array = packets /\ \A j \in 1 .. N : ~Hit(ack, j)
      /\ start # 0 => /\ shift >= 1 /\ gap <= N + 1
                      /\ \A k \in gap .. Size : array[k] = packets[k]
                      /\ \A j \in gap .. N : ~Hit(ack, j)
                      /\ Settled(ack, array, start, gap)
  BY <1>2 DEF PassTrue
<1>6. shift \in 0 .. N
  <2>1. \A i \in Nat : Taken(ack, i) \in 0 .. i
    BY TakenCounts
  <2> QED
    BY <1>3, <1>4, <2>1
<1> HIDE DEF array, start, shift, N
<1>7. last \in [1 .. Size -> Entries] /\ Settled(ack, last, N + 1 - shift, N + 1)
  <2>1. CASE start = 0
    <3>1. last = packets /\ shift = 0
      BY <1>5, <2>1
    <3>2. ASSUME NEW j \in 1 .. N PROVE ~Hit(ack, j) /\ Taken(ack, j) = 0 /\ j - Taken(ack, j) = j
      <4>1. \A l \in 0 + 1 .. j : ~Hit(ack, l)
        BY <1>3, <1>5, <2>1
      <4>2. j \in Nat /\ 0 <= j
        OBVIOUS
      <4>3. Taken(ack, j) = Taken(ack, 0)
        BY <4>1, <4>2, TakenStays
      <4>4. Taken(ack, j) = 0
        BY <4>3, TakenCounts
      <4>5. ~Hit(ack, j)
        BY <1>5, <2>1
      <4> QED
        BY <4>2, <4>4, <4>5
    <3>3. (N + 1) - 1 = N /\ (N + 1 - shift) - 1 = N
      BY <1>3, <3>1
    <3>4. Settled(ack, packets, N + 1 - shift, N + 1)
      BY <3>2, <3>3 DEF Settled
    <3> QED
      BY <3>1, <3>4 DEF ArrayTyped
  <2>2. CASE start # 0 /\ ~(gap <= N)
    <3>1. last = array /\ gap = N + 1 /\ start = N + 1 - shift
      BY <1>3, <1>4, <1>5, <2>2
    <3> QED
      BY <1>4, <1>5, <2>2, <3>1
  <2>3. CASE start # 0 /\ gap <= N
    <3>1. start \in Nat \ {0} /\ shift \in Nat \ {0} /\ gap \in Nat /\ gap = start + shift
          /\ gap <= N + 1
      BY <1>3, <1>4, <1>5, <2>3
    <3>2. last = Move(array, start, gap, N - gap + 1)
      BY <2>3
    <3>3. /\ array \in [1 .. Size -> Entries] /\ ArrayTyped /\ N \in Nat /\ N <= Size
          /\ \A k \in gap .. Size : array[k] = packets[k]
          /\ \A j \in gap .. N : ~Hit(ack, j)
          /\ shift = Taken(ack, N)
          /\ Settled(ack, array, start, gap)
      BY <1>3, <1>4, <1>5, <2>3
    <3> HIDE DEF gap, last
    <3>4. Closed(ack, Move(array, start, gap, N - gap + 1), shift, N)
      BY ONLY <3>1, <3>3, MoveSettles, Zenon
    <3> QED
      BY <3>2, <3>4 DEF Closed
  <2> QED
    BY <2>1, <2>2, <2>3
<1> HIDE DEF last
<1>8. /\ packets_count' \in 0 .. N /\ packets_count' = N - Taken(ack, N)
      /\ (N + 1) - 1 = N /\ (N + 1 - shift) - 1 = packets_count'
  BY <1>1, <1>3, <1>4, <1>6
<1>9. \A p \in 1 .. packets_count' : p \in 1 .. Size /\ packets'[p] = last[p]
  BY <1>1, <1>3, <1>8
<1>10. packets' \in [1 .. Size -> Entries]
  <2>1. NoPacket \in Entries
    BY DEF NoPacket, Entries
  <2> QED
    BY <1>1, <1>7, <2>1
<1>11. ASSUME NEW j \in 1 .. N, ~Hit(ack, j)
       PROVE  j - Taken(ack, j) \in 1 .. packets_count' /\ packets'[j - Taken(ack, j)] = packets[j]
  <2>1. j - Taken(ack, j) \in 1 .. packets_count' /\ last[j - Taken(ack, j)] = packets[j]
    BY <1>7, <1>8, <1>11 DEF Settled
  <2> QED
    BY <1>9, <2>1
<1>12. ASSUME NEW p \in 1 .. packets_count'
       PROVE  \E j \in 1 .. N : ~Hit(ack, j) /\ p = j - Taken(ack, j) /\ packets'[p] = packets[j]
  <2>1. PICK j \in 1 .. N : ~Hit(ack, j) /\ p = j - Taken(ack, j)
    BY <1>7, <1>8 DEF Settled
  <2> QED
    BY <1>11, <2>1
<1> QED
  BY <1>1, <1>4, <1>8, <1>10, <1>11, <1>12 DEF AckDone, pass, N

-----------------------------------------------------------------------------
(* The types, the numbers and the threads                                  *)

(* Number n is among the first k. *)
Under(n, k) == n \in SeqNums /\ SeqDist(FirstSeq, n) < k

(* What a sender has in its hands. *)
Holds(h, k) ==
    \/ h = Idle
    \/ h.step \in {"new", "sent"} /\ Under(h.seq_num, k)

(* Only numbers that were given out are in use. *)
NumbersTrue ==
    /\ SentSoFar <= MaxSent
    /\ \A n \in SeqNums : heap[n] # "none" => Under(n, SentSoFar)
    /\ \A i \in 1 .. packets_count : Under(packets[i].seq_num, SentSoFar)
    /\ \A s \in Senders : Holds(sending[s], SentSoFar)
    /\ \A n \in net : Under(n, SentSoFar)
    /\ \A n \in received : Under(n, SentSoFar)

StopTrue == should_stop <=> (tpc # "running")

BufferInv == TypeOK /\ NumbersTrue /\ StopTrue /\ NeverAsleepOnPackets

LEMMA BufferInit == Init => BufferInv
<1> SUFFICES ASSUME Init PROVE BufferInv
  OBVIOUS
<1>1. FirstSeq \in SeqNums /\ Size \in Nat /\ MaxSent \in Nat
  BY SendBufferAssumption, SeqModType
<1>2. SentSoFar = 0
  <2>1. SeqDist(FirstSeq, FirstSeq) = 0
    <3>1. FirstSeq \in Int
      BY <1>1, SeqModType DEF SeqNums
    <3> QED
      BY <1>1, <3>1, SeqDistCases
  <2> QED
    BY <2>1 DEF Init, SentSoFar
<1>3. TypeOK
  <2>1. packets \in [1 .. Size -> [seq_num : SeqNums \cup {NoSeq}, due : BOOLEAN]]
    BY DEF Init, NoPacket
  <2>2. sending \in [Senders -> [seq_num : SeqNums \cup {NoSeq}, step : {"idle", "new", "sent"}]]
    BY DEF Init, Idle
  <2>3. heap \in [SeqNums -> Senders \cup {"none", "stored", "freed"}]
    BY DEF Init
  <2>4. seq_num_local \in SeqNums /\ packets_count \in 0 .. Size /\ acked \in Seq(SeqNums)
    BY <1>1 DEF Init
  <2>7. packets_size \in 1 .. Size
    BY DEF Init
  <2>5. should_stop \in BOOLEAN /\ woken \in BOOLEAN /\ closing \in BOOLEAN /\ broken \in BOOLEAN
    BY DEF Init
  <2>6. /\ rpc \in {"loop", "timed", "waiting", "ended"}
        /\ tpc \in {"running", "stopping", "joining", "finished", "closed"}
        /\ net \subseteq SeqNums /\ received \subseteq SeqNums /\ acks \subseteq SeqNums
    BY DEF Init
  <2> QED
    BY <2>1, <2>2, <2>3, <2>4, <2>5, <2>6, <2>7, Zenon DEF TypeOK
<1>4. NumbersTrue
  <2>1. SentSoFar <= MaxSent
    BY <1>1, <1>2
  <2>2. \A i \in 1 .. packets_count : Under(packets[i].seq_num, SentSoFar)
    <3>1. \A i \in 1 .. packets_count : FALSE
      BY DEF Init
    <3> QED
      BY <3>1, Zenon
  <2>3. \A n \in SeqNums : heap[n] = "none"
    BY DEF Init
  <2>4. \A s \in Senders : Holds(sending[s], SentSoFar)
    <3>1. \A s \in Senders : sending[s] = Idle
      BY DEF Init
    <3> QED
      BY <3>1 DEF Holds
  <2>5. net = {} /\ received = {}
    BY DEF Init
  <2>6. \A n \in SeqNums : heap[n] # "none" => Under(n, SentSoFar)
    BY <2>3, Zenon
  <2>7. (\A n \in net : Under(n, SentSoFar)) /\ (\A n \in received : Under(n, SentSoFar))
    BY <2>5, Zenon
  <2> QED
    BY <2>1, <2>2, <2>4, <2>6, <2>7, Zenon DEF NumbersTrue
<1> QED
  BY <1>3, <1>4 DEF Init, BufferInv, StopTrue, NeverAsleepOnPackets

(* A step that gives out no number leaves every bound. *)
LEMMA SentKept == UNCHANGED seq_num_local => SentSoFar' = SentSoFar
  BY DEF SentSoFar

(* One more number. *)
LEMMA SentNext ==
    ASSUME NEW m \in SeqNums, SeqDist(FirstSeq, m) < MaxSent
    PROVE  /\ SeqAdd(m, 1) \in SeqNums
           /\ SeqDist(FirstSeq, SeqAdd(m, 1)) = SeqDist(FirstSeq, m) + 1
<1>1. /\ FirstSeq \in SeqNums /\ MaxSent \in Nat /\ MaxSent <= SeqHalf
      /\ SeqHalf \in Nat \ {0} /\ SeqMod = 2 * SeqHalf /\ SeqMod \in Nat \ {0}
  BY SendBufferAssumption, SeqModType
<1>2. m \in Int /\ FirstSeq \in Int /\ 0 <= m /\ m < SeqMod /\ 0 <= FirstSeq /\ FirstSeq < SeqMod
  BY <1>1 DEF SeqNums
<1>3. PICK k \in 0 .. SeqMod : k = 1
  BY <1>1
<1>4. PICK b : b = SeqAdd(m, k)
  OBVIOUS
<1>5. b \in SeqNums
  BY <1>4, SeqAddCases
<1>6. b = IF m + k < SeqMod THEN m + k ELSE m + k - SeqMod
  BY <1>4, SeqAddCases
<1>7. SeqDist(FirstSeq, b) = IF FirstSeq <= b THEN b - FirstSeq ELSE b - FirstSeq + SeqMod
  BY <1>1, <1>5, SeqDistCases
<1>8. SeqDist(FirstSeq, m) = IF FirstSeq <= m THEN m - FirstSeq ELSE m - FirstSeq + SeqMod
  BY <1>1, SeqDistCases
<1>9. PICK d : d = SeqDist(FirstSeq, m)
  OBVIOUS
<1>10. d < MaxSent
  BY <1>9
<1>11. SeqDist(FirstSeq, b) = d + 1
  BY ONLY <1>1, <1>2, <1>3, <1>6, <1>7, <1>8, <1>9, <1>10
<1> QED
  BY <1>3, <1>4, <1>5, <1>9, <1>11

LEMMA UnderMore ==
    ASSUME NEW n, NEW k \in Nat, NEW l \in Nat, k <= l, Under(n, k)
    PROVE  Under(n, l)
<1>1. n \in SeqNums /\ SeqDist(FirstSeq, n) < k
  BY DEF Under
<1>2. SeqDist(FirstSeq, n) \in Int
  BY <1>1, SendBufferAssumption, SeqDistCases, SeqModType DEF SeqNums
<1> QED
  BY <1>1, <1>2 DEF Under

LEMMA SentType == TypeOK => SentSoFar \in Nat /\ SentSoFar = SeqDist(FirstSeq, seq_num_local)
<1> SUFFICES ASSUME TypeOK PROVE SentSoFar \in Nat /\ SentSoFar = SeqDist(FirstSeq, seq_num_local)
  OBVIOUS
<1>1. seq_num_local \in SeqNums /\ FirstSeq \in SeqNums
  BY SendBufferAssumption DEF TypeOK
<1>2. SeqDist(FirstSeq, seq_num_local) \in SeqNums
  BY <1>1, SeqDistCases
<1> QED
  BY <1>2 DEF SentSoFar, SeqNums

LEMMA BufferTake ==
    ASSUME BufferInv, NEW s \in Senders, TakeSeqNum(s)
    PROVE  BufferInv'
<1>0. PICK m, k : m = seq_num_local /\ k = SentSoFar
  OBVIOUS
<1>1. /\ k < MaxSent
      /\ sending' = [sending EXCEPT ![s] = [seq_num |-> m, step |-> "new"]]
      /\ heap' = [heap EXCEPT ![m] = s]
      /\ seq_num_local' = SeqAdd(m, 1)
      /\ UNCHANGED <<packets, packets_count, packets_size, should_stop, rpc, woken, tpc, closing, broken, acked,
                     net, received, acks>>
  BY <1>0 DEF TakeSeqNum, bufferVars, networkVars
<1>2. m \in SeqNums /\ k \in Nat /\ MaxSent \in Nat /\ k = SeqDist(FirstSeq, m)
  BY <1>0, SentType, SendBufferAssumption, SeqModType DEF BufferInv, TypeOK
<1>3. seq_num_local' \in SeqNums /\ SentSoFar' = k + 1 /\ k + 1 <= MaxSent /\ k + 1 \in Nat
  BY <1>1, <1>2, SentNext DEF SentSoFar
<1>4. ASSUME NEW n, Under(n, k) PROVE Under(n, k + 1)
  <2>1. k <= k + 1
    BY <1>2
  <2> QED
    BY <1>2, <1>3, <1>4, <2>1, UnderMore
<1>5. Under(m, k + 1)
  BY <1>2 DEF Under
<1>6. TypeOK'
  <2>1. [seq_num |-> m, step |-> "new"] \in [seq_num : SeqNums \cup {NoSeq}, step : {"idle", "new", "sent"}]
    BY <1>2
  <2> QED
    BY <1>1, <1>2, <1>3, <2>1 DEF BufferInv, TypeOK
<1>7. NumbersTrue'
  <2>1. /\ \A n \in SeqNums : heap[n] # "none" => Under(n, k)
        /\ \A i \in 1 .. packets_count : Under(packets[i].seq_num, k)
        /\ \A r \in Senders : Holds(sending[r], k)
        /\ \A n \in net : Under(n, k)
        /\ \A n \in received : Under(n, k)
    BY <1>0, Zenon DEF BufferInv, NumbersTrue
  <2>2. \A n \in SeqNums : heap'[n] # "none" => Under(n, k + 1)
    <3>1. \A n \in SeqNums : n # m => heap'[n] = heap[n]
      BY <1>1 DEF BufferInv, TypeOK
    <3> QED
      BY <1>4, <1>5, <2>1, <3>1, Zenon
  <2>3. \A r \in Senders : Holds(sending'[r], k + 1)
    <3>1. \A r \in Senders : r # s => sending'[r] = sending[r]
      BY <1>1 DEF BufferInv, TypeOK
    <3>2. sending'[s].seq_num = m /\ sending'[s].step = "new"
      BY <1>1 DEF BufferInv, TypeOK
    <3>3. Holds(sending'[s], k + 1)
      BY <1>5, <3>2 DEF Holds
    <3>4. \A h : Holds(h, k) => Holds(h, k + 1)
      BY <1>4, Zenon DEF Holds
    <3> QED
      BY <2>1, <3>1, <3>3, <3>4, Zenon
  <2>4. \A i \in 1 .. packets_count' : Under(packets'[i].seq_num, k + 1)
    BY <1>1, <1>4, <2>1, Zenon
  <2>5. (\A n \in net' : Under(n, k + 1)) /\ (\A n \in received' : Under(n, k + 1))
    BY <1>1, <1>4, <2>1, Zenon
  <2> QED
    BY <1>3, <2>2, <2>3, <2>4, <2>5 DEF NumbersTrue
<1> QED
  BY <1>1, <1>6, <1>7 DEF BufferInv, StopTrue, NeverAsleepOnPackets

(* What a step that gives out no number has to show. *)
LEMMA NumbersKept ==
    ASSUME BufferInv, UNCHANGED seq_num_local,
           \A n \in SeqNums : heap'[n] # "none" => heap[n] # "none" \/ Under(n, SentSoFar),
           \A i \in 1 .. packets_count' : Under(packets'[i].seq_num, SentSoFar),
           \A s \in Senders : Holds(sending'[s], SentSoFar),
           \A n \in net' : Under(n, SentSoFar),
           \A n \in received' : Under(n, SentSoFar)
    PROVE  NumbersTrue'
<1>0. PICK k : k = SentSoFar
  OBVIOUS
<1>1. SentSoFar' = k
  BY <1>0, SentKept
<1>2. k <= MaxSent
  BY <1>0 DEF BufferInv, NumbersTrue
<1>3. \A n \in SeqNums : heap'[n] # "none" => Under(n, k)
  BY <1>0, Zenon DEF BufferInv, NumbersTrue
<1>4. \A i \in 1 .. packets_count' : Under(packets'[i].seq_num, k)
  BY <1>0, Zenon
<1>5. \A s \in Senders : Holds(sending'[s], k)
  BY <1>0, Zenon
<1>6. (\A n \in net' : Under(n, k)) /\ (\A n \in received' : Under(n, k))
  BY <1>0, Zenon
<1> QED
  BY <1>1, <1>2, <1>3, <1>4, <1>5, <1>6 DEF NumbersTrue

(* A sender at a step of its own has a number that was given out. *)
LEMMA HeldNumber ==
    ASSUME BufferInv, NEW s \in Senders, sending[s].step \in {"new", "sent"}
    PROVE  /\ Under(sending[s].seq_num, SentSoFar) /\ sending[s].seq_num \in SeqNums
           /\ sending[s].seq_num # NoSeq
<1>1. Holds(sending[s], SentSoFar)
  BY Zenon DEF BufferInv, NumbersTrue
<1>2. sending[s] # Idle
  BY DEF Idle
<1>3. Under(sending[s].seq_num, SentSoFar)
  BY <1>1, <1>2 DEF Holds
<1> QED
  BY <1>3, SeqModType DEF Under, SeqNums, NoSeq

LEMMA BufferSend ==
    ASSUME BufferInv, NEW s \in Senders, SendDatagram(s)
    PROVE  BufferInv'
<1>0. PICK n : n = sending[s].seq_num
  OBVIOUS
<1>1. /\ sending[s].step = "new"
      /\ UNCHANGED <<packets, packets_count, packets_size, should_stop, rpc, woken, seq_num_local, tpc, closing,
                     broken, acked, received, acks>>
  BY DEF SendDatagram, bufferVars
<1>2. Under(n, SentSoFar) /\ n \in SeqNums
  BY <1>0, <1>1, HeldNumber
<1>3. \/ net' = net \cup {n} /\ sending' = [sending EXCEPT ![s].step = "sent"] /\ heap' = heap
      \/ net' = net /\ sending' = [sending EXCEPT ![s] = Idle] /\ heap' = [heap EXCEPT ![n] = "freed"]
  BY <1>0 DEF SendDatagram
<1>4. TypeOK'
  <2>1. Idle \in [seq_num : SeqNums \cup {NoSeq}, step : {"idle", "new", "sent"}]
    BY DEF Idle
  <2>2. sending' \in [Senders -> [seq_num : SeqNums \cup {NoSeq}, step : {"idle", "new", "sent"}]]
    BY <1>3, <2>1 DEF BufferInv, TypeOK
  <2>3. heap' \in [SeqNums -> Senders \cup {"none", "stored", "freed"}]
    BY <1>3 DEF BufferInv, TypeOK
  <2>4. net' \subseteq SeqNums
    BY <1>2, <1>3 DEF BufferInv, TypeOK
  <2> QED
    BY <1>1, <2>2, <2>3, <2>4 DEF BufferInv, TypeOK
<1>5. NumbersTrue'
  <2>1. \A m \in SeqNums : heap'[m] # "none" => heap[m] # "none" \/ Under(m, SentSoFar)
    BY <1>2, <1>3 DEF BufferInv, TypeOK
  <2>2. \A r \in Senders : Holds(sending'[r], SentSoFar)
    <3>1. \A r \in Senders : r # s => sending'[r] = sending[r]
      BY <1>3 DEF BufferInv, TypeOK
    <3>2. \/ sending'[s] = Idle
          \/ sending'[s].seq_num = n /\ sending'[s].step = "sent"
      BY <1>0, <1>3 DEF BufferInv, TypeOK
    <3>3. Holds(sending'[s], SentSoFar)
      BY <1>2, <3>2 DEF Holds
    <3>4. \A r \in Senders : Holds(sending[r], SentSoFar)
      BY Zenon DEF BufferInv, NumbersTrue
    <3> QED
      BY <3>1, <3>3, <3>4, Zenon
  <2>3. \A m \in net' : Under(m, SentSoFar)
    <3>1. \A m \in net : Under(m, SentSoFar)
      BY Zenon DEF BufferInv, NumbersTrue
    <3> QED
      BY <1>2, <1>3, <3>1
  <2>4. /\ \A i \in 1 .. packets_count' : Under(packets'[i].seq_num, SentSoFar)
        /\ \A m \in received' : Under(m, SentSoFar)
    BY <1>1, Zenon DEF BufferInv, NumbersTrue
  <2> QED
    BY <1>1, <2>1, <2>2, <2>3, <2>4, NumbersKept
<1> QED
  BY <1>1, <1>4, <1>5 DEF BufferInv, StopTrue, NeverAsleepOnPackets

(* What a push does. *)
PushDone(s, n) ==
    /\ sending[s].step = "sent"
    /\ \/ /\ Stores(n)
          /\ packets_count' = packets_count + 1
          /\ packets' = [packets EXCEPT ![packets_count + 1] = [seq_num |-> n, due |-> FALSE]]
          /\ woken' = (woken \/ (packets_count = 0 /\ rpc = "waiting"))
          /\ heap' = [heap EXCEPT ![n] = "stored"]
       \/ /\ ~Stores(n)
          /\ heap' = [heap EXCEPT ![n] = "freed"]
          /\ UNCHANGED <<packets, packets_count, woken>>
    /\ broken' = (broken \/ tpc \in {"finished", "closed"})
    /\ sending' = [sending EXCEPT ![s] = Idle]
    /\ UNCHANGED <<packets_size, should_stop, rpc, seq_num_local, tpc, closing, acked, net, received, acks>>

LEMMA PushEffect ==
    ASSUME BufferInv, NEW s \in Senders, Push(s)
    PROVE  \E n : /\ n = sending[s].seq_num /\ n \in SeqNums /\ Under(n, SentSoFar)
                  /\ PushDone(s, n)
<1>0. PICK n : n = sending[s].seq_num
  OBVIOUS
<1>1. sending[s].step = "sent"
  BY DEF Push
<1>2. Under(n, SentSoFar) /\ n \in SeqNums
  BY <1>0, <1>1, HeldNumber
<1>3. PushDone(s, n)
  BY <1>0 DEF Push, PushDone, WakesThread, networkVars
<1> QED
  BY <1>0, <1>2, <1>3

LEMMA BufferPush ==
    ASSUME BufferInv, NEW s \in Senders, Push(s)
    PROVE  BufferInv'
<1>0. PICK n : /\ n = sending[s].seq_num /\ n \in SeqNums /\ Under(n, SentSoFar)
               /\ PushDone(s, n)
  BY PushEffect
<1>1. /\ broken' = (broken \/ tpc \in {"finished", "closed"})
      /\ sending' = [sending EXCEPT ![s] = Idle]
      /\ UNCHANGED <<packets_size, should_stop, rpc, seq_num_local, tpc, closing, acked, net, received, acks>>
  BY <1>0 DEF PushDone
<1>2. packets_count \in 0 .. Size /\ Size \in Nat /\ packets_size \in 1 .. Size
  BY SendBufferAssumption DEF BufferInv, TypeOK
<1>3. \/ /\ packets_count' = packets_count + 1 /\ packets_count' \in 1 .. Size
         /\ packets' = [packets EXCEPT ![packets_count'] = [seq_num |-> n, due |-> FALSE]]
      \/ UNCHANGED <<packets, packets_count>>
  BY <1>0, <1>2 DEF PushDone, Stores
<1>4. TypeOK'
  <2>1. Idle \in [seq_num : SeqNums \cup {NoSeq}, step : {"idle", "new", "sent"}]
    BY DEF Idle
  <2>2. sending' \in [Senders -> [seq_num : SeqNums \cup {NoSeq}, step : {"idle", "new", "sent"}]]
    BY <1>1, <2>1 DEF BufferInv, TypeOK
  <2>3. heap' \in [SeqNums -> Senders \cup {"none", "stored", "freed"}]
    BY <1>0 DEF BufferInv, TypeOK, PushDone
  <2>4. packets' \in [1 .. Size -> [seq_num : SeqNums \cup {NoSeq}, due : BOOLEAN]]
    <3>1. [seq_num |-> n, due |-> FALSE] \in [seq_num : SeqNums \cup {NoSeq}, due : BOOLEAN]
      BY <1>0
    <3> QED
      BY <1>3, <3>1 DEF BufferInv, TypeOK
  <2>5. packets_count' \in 0 .. Size
    BY <1>2, <1>3
  <2>6. woken' \in BOOLEAN /\ broken' \in BOOLEAN
    BY <1>0, <1>1, Zenon DEF PushDone, BufferInv, TypeOK
  <2> QED
    BY <1>1, <2>2, <2>3, <2>4, <2>5, <2>6 DEF BufferInv, TypeOK
<1>5. NumbersTrue'
  <2>1. \A m \in SeqNums : heap'[m] # "none" => heap[m] # "none" \/ Under(m, SentSoFar)
    <3>1. \A m \in SeqNums : m # n => heap'[m] = heap[m]
      BY <1>0 DEF BufferInv, TypeOK, PushDone
    <3> QED
      BY <1>0, <3>1
  <2>2. \A r \in Senders : Holds(sending'[r], SentSoFar)
    <3>1. \A r \in Senders : r # s => sending'[r] = sending[r]
      BY <1>1 DEF BufferInv, TypeOK
    <3>2. sending'[s] = Idle
      BY <1>1 DEF BufferInv, TypeOK
    <3>3. Holds(sending'[s], SentSoFar)
      BY <3>2 DEF Holds
    <3>4. \A r \in Senders : Holds(sending[r], SentSoFar)
      BY Zenon DEF BufferInv, NumbersTrue
    <3> QED
      BY <3>1, <3>3, <3>4, Zenon
  <2>3. \A i \in 1 .. packets_count' : Under(packets'[i].seq_num, SentSoFar)
    <3>1. \A i \in 1 .. packets_count : i \in 1 .. Size /\ Under(packets[i].seq_num, SentSoFar)
      BY <1>2 DEF BufferInv, NumbersTrue
    <3>2. CASE packets_count' = packets_count + 1
      <4>1. ASSUME NEW i \in 1 .. packets_count', i # packets_count'
            PROVE  i \in 1 .. packets_count /\ packets'[i] = packets[i]
        <5>1. i \in 1 .. packets_count /\ i \in 1 .. Size
          BY <1>2, <1>3, <3>2, <4>1
        <5>2. packets' = [packets EXCEPT ![packets_count'] = [seq_num |-> n, due |-> FALSE]]
          BY <1>2, <1>3, <3>2
        <5> QED
          BY <4>1, <5>1, <5>2 DEF BufferInv, TypeOK
      <4>2. packets'[packets_count'].seq_num = n
        BY <1>2, <1>3, <3>2 DEF BufferInv, TypeOK
      <4> QED
        BY <1>0, <3>1, <4>1, <4>2
    <3>3. CASE UNCHANGED <<packets, packets_count>>
      BY <3>1, <3>3
    <3> QED
      BY <1>3, <3>2, <3>3
  <2>4. (\A m \in net' : Under(m, SentSoFar)) /\ (\A m \in received' : Under(m, SentSoFar))
    BY <1>1, Zenon DEF BufferInv, NumbersTrue
  <2> QED
    BY <1>1, <2>1, <2>2, <2>3, <2>4, NumbersKept
<1>6. NeverAsleepOnPackets'
  <2>1. CASE Stores(n)
    <3>1. /\ packets_count' = packets_count + 1
          /\ woken' = (woken \/ (packets_count = 0 /\ rpc = "waiting"))
      BY <1>0, <2>1 DEF PushDone
    <3>2. rpc' = "waiting" => woken'
      BY <1>1, <3>1 DEF BufferInv, NeverAsleepOnPackets
    <3> QED
      BY <3>2 DEF NeverAsleepOnPackets
  <2>2. CASE ~Stores(n)
    BY <1>0, <1>1, <2>2 DEF PushDone, BufferInv, NeverAsleepOnPackets
  <2> QED
    BY <2>1, <2>2
<1> QED
  BY <1>1, <1>4, <1>5, <1>6 DEF BufferInv, StopTrue

LEMMA ArrayOf == TypeOK => ArrayTyped
  BY DEF TypeOK, ArrayTyped, Entries

(* The events of an acknowledgement are for numbers in use. *)
LEMMA AckEvents ==
    ASSUME BufferInv, NEW ack, HandleAck(ack)
    PROVE  /\ AckDone(ack)
           /\ AckPass(ack).acked \in Seq(SeqNums)
           /\ \A i \in DOMAIN AckPass(ack).acked :
                 \E j \in Covered(ack, packets_count) :
                    j \in 1 .. packets_count /\ AckPass(ack).acked[i] = packets[j].seq_num
<1>1. ArrayTyped
  BY ArrayOf DEF BufferInv
<1>2. AckDone(ack)
  BY <1>1, AckEffect
<1>0. PICK events : events = AckPass(ack).acked
  OBVIOUS
<1>3. events \in Seq(SeqNums \cup {NoSeq}) /\ Reported(ack, events, packets_count)
  BY <1>0, <1>2 DEF AckDone
<1>4. Len(events) \in Nat /\ DOMAIN events = 1 .. Len(events)
  BY <1>3, LenProperties
<1>5. ASSUME NEW i \in 1 .. Len(events)
      PROVE  \E j \in Covered(ack, packets_count) :
                j \in 1 .. packets_count /\ events[i] = packets[j].seq_num
  BY <1>3 DEF Reported, Covered
<1>6. ASSUME NEW i \in 1 .. Len(events)
      PROVE  events[i] \in SeqNums
  <2>1. PICK j \in 1 .. packets_count : events[i] = packets[j].seq_num
    BY <1>5
  <2> QED
    BY <2>1 DEF BufferInv, NumbersTrue, Under
<1>7. events \in Seq(SeqNums)
  <2>1. events = [i \in 1 .. Len(events) |-> events[i]]
    BY <1>3
  <2>2. events \in [1 .. Len(events) -> SeqNums]
    BY <1>6, <2>1
  <2> QED
    BY <1>4, <2>2, SeqDef
<1> QED
  BY <1>0, <1>2, <1>4, <1>5, <1>7

LEMMA BufferAck ==
    ASSUME BufferInv, NEW ack, HandleAck(ack)
    PROVE  BufferInv'
<1>0. PICK events : events = AckPass(ack).acked
  OBVIOUS
<1>1. /\ UNCHANGED <<packets_size, should_stop, rpc, woken, seq_num_local, sending, tpc, closing, broken,
                     net, received, acks>>
      /\ tpc = "running"
  BY DEF HandleAck, networkVars
<1>2. /\ events \in Seq(SeqNums)
      /\ packets' \in [1 .. Size -> Entries] /\ packets_count' \in 0 .. packets_count
      /\ \A p \in 1 .. packets_count' : \E j \in 1 .. packets_count : packets'[p] = packets[j]
      /\ acked' = acked \o events
      /\ heap' = [n \in SeqNums |->
                       IF \E i \in DOMAIN events : events[i] = n THEN "freed" ELSE heap[n]]
  BY <1>0, AckEvents DEF AckDone
<1>3. \A i \in DOMAIN events : \E j \in 1 .. packets_count : events[i] = packets[j].seq_num
  BY <1>0, AckEvents
<1>4. packets_count \in 0 .. Size /\ Size \in Nat
  BY SendBufferAssumption DEF BufferInv, TypeOK
<1>5. TypeOK'
  <2>1. acked' \in Seq(SeqNums)
    BY <1>2, ConcatProperties DEF BufferInv, TypeOK
  <2>2. heap' \in [SeqNums -> Senders \cup {"none", "stored", "freed"}]
    BY <1>2 DEF BufferInv, TypeOK
  <2>3. packets' \in [1 .. Size -> [seq_num : SeqNums \cup {NoSeq}, due : BOOLEAN]]
    BY <1>2 DEF Entries
  <2>4. packets_count' \in 0 .. Size
    BY <1>2, <1>4
  <2> QED
    BY <1>1, <2>1, <2>2, <2>3, <2>4 DEF BufferInv, TypeOK
<1>6. NumbersTrue'
  <2>1. \A i \in 1 .. packets_count : Under(packets[i].seq_num, SentSoFar)
    BY Zenon DEF BufferInv, NumbersTrue
  <2>2. \A n \in SeqNums : heap'[n] # "none" => heap[n] # "none" \/ Under(n, SentSoFar)
    <3> SUFFICES ASSUME NEW n \in SeqNums, heap'[n] # heap[n] PROVE Under(n, SentSoFar)
      OBVIOUS
    <3>1. PICK i \in DOMAIN events : events[i] = n
      BY <1>2
    <3> QED
      BY <1>3, <2>1, <3>1
  <2>3. \A i \in 1 .. packets_count' : Under(packets'[i].seq_num, SentSoFar)
    BY <1>2, <2>1
  <2>4. /\ \A s \in Senders : Holds(sending'[s], SentSoFar)
        /\ \A m \in net' : Under(m, SentSoFar)
        /\ \A m \in received' : Under(m, SentSoFar)
    BY <1>1, Zenon DEF BufferInv, NumbersTrue
  <2> QED
    BY <1>1, <2>2, <2>3, <2>4, NumbersKept
<1>7. NeverAsleepOnPackets'
  BY <1>1, <1>2, <1>4 DEF BufferInv, NeverAsleepOnPackets
<1> QED
  BY <1>1, <1>5, <1>6, <1>7 DEF BufferInv, StopTrue

(* Steps that touch neither the array nor the numbers of the senders. *)
LEMMA BufferLoop ==
    ASSUME BufferInv, ResendLoop
    PROVE  BufferInv'
<1>1. UNCHANGED <<packets, packets_count, packets_size, should_stop, seq_num_local, sending, tpc, closing,
                  heap, broken, acked, net, received, acks>>
  BY DEF ResendLoop, networkVars
<1>2. rpc' = (IF should_stop THEN "ended" ELSE IF packets_count > 0 THEN "timed" ELSE "waiting")
      /\ woken' = FALSE
  BY DEF ResendLoop
<1>3. TypeOK'
  BY <1>1, <1>2 DEF BufferInv, TypeOK
<1>4. NumbersTrue'
  BY <1>1, NumbersKept DEF BufferInv, NumbersTrue
<1>5. NeverAsleepOnPackets'
  <2> SUFFICES ASSUME rpc' = "waiting" PROVE packets_count' = 0 /\ tpc' \in {"running", "stopping"}
    BY DEF NeverAsleepOnPackets
  <2>1. ~should_stop /\ ~(packets_count > 0)
    BY <1>2
  <2>2. packets_count = 0 /\ tpc = "running"
    BY <2>1, SendBufferAssumption DEF BufferInv, StopTrue, TypeOK
  <2> QED
    BY <1>1, <2>2
<1> QED
  BY <1>1, <1>3, <1>4, <1>5 DEF BufferInv, StopTrue

(* Slots keep their numbers when only due changes. *)
SlotsKept ==
    /\ packets' \in [1 .. Size -> Entries]
    /\ UNCHANGED packets_count
    /\ \A i \in 1 .. packets_count : packets'[i].seq_num = packets[i].seq_num

LEMMA ResendEffect ==
    ASSUME BufferInv, Resend
    PROVE  /\ SlotsKept
           /\ rpc' = (IF should_stop THEN "ended" ELSE "loop")
           /\ woken' = FALSE
           /\ \A n \in net' : n \in net \/ \E i \in 1 .. packets_count : n = packets[i].seq_num
           /\ UNCHANGED <<packets_size, should_stop, seq_num_local, sending, tpc, closing, heap, broken, acked,
                          received, acks>>
<1>1. packets_count \in 0 .. Size /\ Size \in Nat /\ packets \in [1 .. Size -> Entries]
  BY SendBufferAssumption DEF BufferInv, TypeOK, Entries
<1>2. /\ woken' = FALSE
      /\ UNCHANGED <<packets_count, packets_size, should_stop, seq_num_local, sending, tpc, closing, heap, broken,
                     acked, received, acks>>
  BY DEF Resend
<1>3. CASE should_stop
  BY <1>1, <1>2, <1>3 DEF Resend, SlotsKept
<1>4. CASE ~should_stop
  <2>1. /\ rpc' = "loop"
        /\ net' = net \cup {packets[i].seq_num : i \in {j \in 1 .. packets_count : packets[j].due}}
        /\ packets' = [i \in 1 .. Size |->
                          IF i <= packets_count THEN [packets[i] EXCEPT !.due = FALSE] ELSE packets[i]]
    BY <1>4 DEF Resend
  <2>2. \A i \in 1 .. Size : /\ [packets[i] EXCEPT !.due = FALSE] \in Entries
                             /\ [packets[i] EXCEPT !.due = FALSE].seq_num = packets[i].seq_num
    BY <1>1 DEF Entries
  <2>3. packets' \in [1 .. Size -> Entries]
    BY <1>1, <2>1, <2>2
  <2>4. \A i \in 1 .. packets_count : packets'[i].seq_num = packets[i].seq_num
    BY <1>1, <2>1, <2>2
  <2>5. \A n \in net' : n \in net \/ \E i \in 1 .. packets_count : n = packets[i].seq_num
    BY <2>1
  <2> QED
    BY <1>2, <1>4, <2>1, <2>3, <2>4, <2>5 DEF SlotsKept
<1> QED
  BY <1>3, <1>4

LEMMA BufferResend ==
    ASSUME BufferInv, Resend
    PROVE  BufferInv'
<1>1. /\ SlotsKept
      /\ rpc' = (IF should_stop THEN "ended" ELSE "loop")
      /\ woken' = FALSE
      /\ \A n \in net' : n \in net \/ \E i \in 1 .. packets_count : n = packets[i].seq_num
      /\ UNCHANGED <<packets_size, should_stop, seq_num_local, sending, tpc, closing, heap, broken, acked,
                     received, acks>>
  BY ResendEffect
<1>2. \A n \in net' : Under(n, SentSoFar)
  BY <1>1, Zenon DEF BufferInv, NumbersTrue
<1>3. TypeOK'
  <2>1. net' \subseteq SeqNums
    BY <1>2 DEF Under
  <2> QED
    BY <1>1, <2>1 DEF BufferInv, TypeOK, SlotsKept, Entries
<1>4. NumbersTrue'
  <2>1. \A i \in 1 .. packets_count' : Under(packets'[i].seq_num, SentSoFar)
    BY <1>1 DEF SlotsKept, BufferInv, NumbersTrue
  <2>2. /\ \A s \in Senders : Holds(sending'[s], SentSoFar)
        /\ \A m \in received' : Under(m, SentSoFar)
    BY <1>1, Zenon DEF BufferInv, NumbersTrue
  <2> QED
    BY <1>1, <1>2, <2>1, <2>2, NumbersKept
<1> QED
  BY <1>1, <1>3, <1>4 DEF BufferInv, StopTrue, NeverAsleepOnPackets

LEMMA TimeEffect ==
    ASSUME BufferInv, TimePasses
    PROVE  /\ SlotsKept
           /\ UNCHANGED <<packets_size, should_stop, rpc, woken, seq_num_local, sending, tpc, closing, heap, broken,
                          acked, net, received, acks>>
<1>1. packets_count \in 0 .. Size /\ Size \in Nat /\ packets \in [1 .. Size -> Entries]
  BY SendBufferAssumption DEF BufferInv, TypeOK, Entries
<1>2. /\ UNCHANGED <<packets_count, packets_size, should_stop, rpc, woken, seq_num_local, sending, tpc, closing,
                     heap, broken, acked, net, received, acks>>
      /\ packets' = [i \in 1 .. Size |->
                        IF i <= packets_count THEN [packets[i] EXCEPT !.due = TRUE] ELSE packets[i]]
  BY DEF TimePasses, networkVars
<1>3. \A i \in 1 .. Size : /\ [packets[i] EXCEPT !.due = TRUE] \in Entries
                           /\ [packets[i] EXCEPT !.due = TRUE].seq_num = packets[i].seq_num
  BY <1>1 DEF Entries
<1>4. packets' \in [1 .. Size -> Entries]
  BY <1>1, <1>2, <1>3
<1>5. \A i \in 1 .. packets_count : packets'[i].seq_num = packets[i].seq_num
  BY <1>1, <1>2, <1>3
<1> QED
  BY <1>2, <1>4, <1>5 DEF SlotsKept

LEMMA BufferTime ==
    ASSUME BufferInv, TimePasses
    PROVE  BufferInv'
<1>1. /\ SlotsKept
      /\ UNCHANGED <<packets_size, should_stop, rpc, woken, seq_num_local, sending, tpc, closing, heap, broken,
                     acked, net, received, acks>>
  BY TimeEffect
<1>3. TypeOK'
  BY <1>1 DEF BufferInv, TypeOK, SlotsKept, Entries
<1>4. NumbersTrue'
  <2>1. \A i \in 1 .. packets_count' : Under(packets'[i].seq_num, SentSoFar)
    BY <1>1 DEF SlotsKept, BufferInv, NumbersTrue
  <2>2. /\ \A s \in Senders : Holds(sending'[s], SentSoFar)
        /\ \A m \in net' : Under(m, SentSoFar)
        /\ \A m \in received' : Under(m, SentSoFar)
    BY <1>1, Zenon DEF BufferInv, NumbersTrue
  <2> QED
    BY <1>1, <2>1, <2>2, NumbersKept
<1> QED
  BY <1>1, <1>3, <1>4 DEF BufferInv, StopTrue, NeverAsleepOnPackets, SlotsKept

(* The steps of the end of Takion. *)
LEMMA BufferTeardown ==
    ASSUME BufferInv, Close \/ Teardown
    PROVE  BufferInv'
<1>1. UNCHANGED <<packets, packets_size, packets_count, rpc, seq_num_local, sending, broken, acked, net, received, acks>>
  BY DEF Close, Teardown, LeaveLoop, FiniSignal, FiniFree, ThreadEnds, bufferVars, networkVars
<1>2. /\ should_stop' \in BOOLEAN /\ woken' \in BOOLEAN /\ closing' \in BOOLEAN
      /\ tpc' \in {"running", "stopping", "joining", "finished", "closed"}
      /\ StopTrue'
  <2>1. /\ closing \in BOOLEAN /\ woken \in BOOLEAN /\ should_stop \in BOOLEAN /\ StopTrue
        /\ tpc \in {"running", "stopping", "joining", "finished", "closed"}
    BY DEF BufferInv, TypeOK
  <2>2. CASE Close
    BY <2>1, <2>2 DEF Close, bufferVars, StopTrue
  <2>3. CASE LeaveLoop
    BY <2>1, <2>3 DEF LeaveLoop, StopTrue
  <2>4. CASE FiniSignal
    <3>1. woken' \in BOOLEAN
      BY <2>4, Zenon DEF FiniSignal
    <3> QED
      BY <2>1, <2>4, <3>1 DEF FiniSignal, StopTrue
  <2>5. CASE FiniFree
    BY <2>1, <2>5 DEF FiniFree, bufferVars, StopTrue
  <2>6. CASE ThreadEnds
    BY <2>1, <2>6 DEF ThreadEnds, bufferVars, StopTrue
  <2> QED
    BY <2>2, <2>3, <2>4, <2>5, <2>6 DEF Teardown
<1>3. /\ heap' \in [SeqNums -> Senders \cup {"none", "stored", "freed"}]
      /\ \A n \in SeqNums : heap'[n] # "none" => heap[n] # "none" \/ Under(n, SentSoFar)
  <2>1. CASE FiniFree
    <3>1. heap' = [n \in SeqNums |->
                   IF \E i \in 1 .. packets_count : packets[i].seq_num = n THEN "freed" ELSE heap[n]]
      BY <2>1 DEF FiniFree
    <3>2. \A i \in 1 .. packets_count : Under(packets[i].seq_num, SentSoFar)
      BY DEF BufferInv, NumbersTrue
    <3>3. \A n \in SeqNums : heap'[n] # "none" => heap[n] # "none" \/ Under(n, SentSoFar)
      BY <3>1, <3>2
    <3>4. heap' \in [SeqNums -> Senders \cup {"none", "stored", "freed"}]
      BY <3>1 DEF BufferInv, TypeOK
    <3> QED
      BY <3>3, <3>4
  <2>2. CASE heap' = heap
    BY <2>2 DEF BufferInv, TypeOK
  <2> QED
    BY <2>1, <2>2 DEF Close, Teardown, LeaveLoop, FiniSignal, ThreadEnds
<1>4. TypeOK'
  BY <1>1, <1>2, <1>3 DEF BufferInv, TypeOK
<1>5. NumbersTrue'
  BY <1>1, <1>3, NumbersKept DEF BufferInv, NumbersTrue
<1>6. NeverAsleepOnPackets'
  BY <1>1 DEF Close, Teardown, LeaveLoop, FiniSignal, FiniFree, ThreadEnds, bufferVars, BufferInv,
              NeverAsleepOnPackets
<1> QED
  BY <1>2, <1>4, <1>5, <1>6 DEF BufferInv

(* What the console acknowledges, it has received. *)
LEMMA CumulativeCovers ==
    ASSUME NEW got, \A n \in got : Under(n, MaxSent)
    PROVE  /\ Cumulative(got) \in SeqNums
           /\ \A n : Under(n, MaxSent) /\ SeqLe(n, Cumulative(got)) => n \in got
<1> DEFINE missing == {k \in 0 .. MaxSent : SeqAdd(FirstSeq, k) \notin got}
           first == CHOOSE k \in missing : \A j \in missing : k <= j
<1>1. /\ FirstSeq \in SeqNums /\ MaxSent \in Nat /\ MaxSent >= 1 /\ MaxSent <= SeqHalf
      /\ SeqHalf \in Nat \ {0} /\ SeqMod = 2 * SeqHalf /\ SeqMod \in Nat \ {0}
  BY SendBufferAssumption, SeqModType
<1>2. missing \in SUBSET Nat /\ missing # {}
  <2>1. MaxSent \in 0 .. SeqMod - 1
    BY <1>1
  <2>2. SeqDist(FirstSeq, SeqAdd(FirstSeq, MaxSent)) = MaxSent
    BY <1>1, <2>1, SeqDistAdd
  <2>3. ~(MaxSent < MaxSent)
    BY <1>1
  <2>4. SeqAdd(FirstSeq, MaxSent) \notin got
    BY <2>2, <2>3 DEF Under
  <2>5. MaxSent \in missing
    BY <1>1, <2>4
  <2> QED
    BY <1>1, <2>5
<1>3. first \in missing /\ \A j \in missing : first <= j
  <2>1. \E k \in missing : \A j \in missing : k <= j
    BY <1>2, LeastNumber
  <2> HIDE DEF missing
  <2> QED
    BY <2>1
<1>4. Cumulative(got) = SeqAdd(FirstSeq, first - 1)
  BY DEF Cumulative
<1>5. PICK c : c = first
  OBVIOUS
<1>6. c \in 0 .. MaxSent /\ \A k \in 0 .. MaxSent : k < c => SeqAdd(FirstSeq, k) \in got
  BY <1>1, <1>3, <1>5
<1>7. PICK a : a = Cumulative(got)
  OBVIOUS
<1> HIDE DEF first, missing
<1>8. PICK x : x = FirstSeq + (c - 1)
  OBVIOUS
<1>9. /\ FirstSeq \in Int /\ 0 <= FirstSeq /\ FirstSeq < SeqMod /\ c \in Int /\ 0 <= c /\ c <= MaxSent
      /\ x \in Int /\ x >= -1 /\ x < FirstSeq + SeqHalf
  BY <1>1, <1>6, <1>8 DEF SeqNums
<1>10. a = x % SeqMod
  BY <1>4, <1>5, <1>7, <1>8 DEF SeqAdd
<1>11. x % SeqMod = IF x < 0 THEN x + SeqMod ELSE IF x < SeqMod THEN x ELSE x - SeqMod
  <2>1. -SeqMod <= x /\ x < 2 * SeqMod
    BY <1>1, <1>9
  <2> QED
    BY ONLY <1>1, <1>9, <2>1, ModCases
<1>12. a = IF x < 0 THEN x + SeqMod ELSE IF x < SeqMod THEN x ELSE x - SeqMod
  BY <1>10, <1>11
<1>13. a \in SeqNums
  BY <1>1, <1>9, <1>12 DEF SeqNums
<1>14. ASSUME NEW n, Under(n, MaxSent), SeqLe(n, a)
       PROVE  n \in got
  <2>1. PICK d : d = SeqDist(FirstSeq, n)
    OBVIOUS
  <2>2. n \in SeqNums /\ d < MaxSent
    BY <1>14, <2>1 DEF Under
  <2>3. d = IF FirstSeq <= n THEN n - FirstSeq ELSE n - FirstSeq + SeqMod
    BY <1>1, <2>1, <2>2, SeqDistCases
  <2>4. SeqAdd(FirstSeq, d) = n
    BY <1>1, <2>1, <2>2, SeqAddDist
  <2>5. n \in Int /\ 0 <= n /\ n < SeqMod /\ a \in Int
    BY <1>1, <1>13, <2>2 DEF SeqNums
  <2>6. /\ d \in Int /\ 0 <= d
    BY <1>1, <1>9, <2>3, <2>5
  <2>7. n = a \/ (n < a /\ a - n < SeqHalf) \/ (n > a /\ -(a - n) > SeqHalf)
    BY <1>14 DEF SeqLe, SeqLt
  <2>8. d < c
    BY ONLY <1>1, <1>8, <1>9, <1>12, <2>2, <2>3, <2>5, <2>6, <2>7
  <2>9. d \in 0 .. MaxSent
    BY <1>1, <2>2, <2>6
  <2> QED
    BY <1>6, <2>4, <2>8, <2>9
<1> QED
  BY <1>7, <1>13, <1>14

(* Numbers given out are within the bound. *)
LEMMA UnderBound ==
    ASSUME BufferInv, NEW n, Under(n, SentSoFar)
    PROVE  Under(n, MaxSent)
<1>1. SentSoFar \in Nat /\ MaxSent \in Nat /\ SentSoFar <= MaxSent
  BY SentType, SendBufferAssumption, SeqModType DEF BufferInv, NumbersTrue
<1>2. PICK k : k = SentSoFar
  OBVIOUS
<1> QED
  BY <1>1, <1>2, UnderMore

(* The console receives and acknowledges. *)
LEMMA DeliverEffect ==
    ASSUME BufferInv, NEW n, Deliver(n)
    PROVE  /\ Under(n, SentSoFar) /\ net' \subseteq net /\ received' = received \cup {n}
           /\ \E a \in SeqNums : /\ acks' = acks \cup {a}
                                 /\ \A m : Under(m, MaxSent) /\ SeqLe(m, a) => m \in received'
           /\ UNCHANGED <<packets, packets_count, packets_size, should_stop, rpc, woken, seq_num_local, sending, tpc,
                          closing, heap, broken, acked>>
<1>1. /\ n \in net /\ net' = net \ {n} /\ received' = received \cup {n}
      /\ acks' = acks \cup {Cumulative(received')}
      /\ UNCHANGED <<packets, packets_count, packets_size, should_stop, rpc, woken, seq_num_local, sending, tpc,
                     closing, heap, broken, acked>>
  BY DEF Deliver, bufferVars
<1>2. Under(n, SentSoFar)
  BY <1>1, Zenon DEF BufferInv, NumbersTrue
<1>3. PICK got : got = received'
  OBVIOUS
<1>4. \A m \in got : Under(m, MaxSent)
  <2>1. \A m \in received : Under(m, SentSoFar)
    BY Zenon DEF BufferInv, NumbersTrue
  <2>2. \A m \in got : Under(m, SentSoFar)
    BY <1>1, <1>2, <1>3, <2>1
  <2> QED
    BY <2>2, UnderBound
<1>5. /\ Cumulative(got) \in SeqNums
      /\ \A m : Under(m, MaxSent) /\ SeqLe(m, Cumulative(got)) => m \in got
  BY <1>4, CumulativeCovers
<1> QED
  BY <1>1, <1>2, <1>3, <1>5

LEMMA BufferNetwork ==
    ASSUME BufferInv, Network
    PROVE  BufferInv'
<1>1. /\ UNCHANGED <<packets, packets_count, packets_size, should_stop, rpc, woken, seq_num_local, sending, tpc,
                     closing, heap, broken, acked>>
      /\ acks' \subseteq SeqNums /\ net' \subseteq net
      /\ \A m \in received' : m \in received \/ Under(m, SentSoFar)
  <2>1. PICK n : Deliver(n) \/ Lose(n) \/ LoseAck(n)
    BY DEF Network
  <2>2. CASE Deliver(n)
    <3>1. /\ Under(n, SentSoFar) /\ net' \subseteq net /\ received' = received \cup {n}
          /\ \E a \in SeqNums : acks' = acks \cup {a}
          /\ UNCHANGED <<packets, packets_count, packets_size, should_stop, rpc, woken, seq_num_local, sending, tpc,
                         closing, heap, broken, acked>>
      BY <2>2, DeliverEffect
    <3> QED
      BY <3>1 DEF BufferInv, TypeOK
  <2>3. CASE Lose(n) \/ LoseAck(n)
    BY <2>3 DEF Lose, LoseAck, bufferVars, BufferInv, TypeOK
  <2> QED
    BY <2>1, <2>2, <2>3
<1>2. \A m \in received' : Under(m, SentSoFar)
  BY <1>1, Zenon DEF BufferInv, NumbersTrue
<1>3. TypeOK'
  <2>1. received' \subseteq SeqNums
    BY <1>2 DEF Under
  <2> QED
    BY <1>1, <2>1 DEF BufferInv, TypeOK
<1>4. NumbersTrue'
  <2>1. \A m \in net' : Under(m, SentSoFar)
    BY <1>1, Zenon DEF BufferInv, NumbersTrue
  <2>2. /\ \A i \in 1 .. packets_count' : Under(packets'[i].seq_num, SentSoFar)
        /\ \A s \in Senders : Holds(sending'[s], SentSoFar)
    BY <1>1, Zenon DEF BufferInv, NumbersTrue
  <2> QED
    BY <1>1, <1>2, <2>1, <2>2, NumbersKept
<1> QED
  BY <1>1, <1>3, <1>4 DEF BufferInv, StopTrue, NeverAsleepOnPackets

LEMMA BufferStep == BufferInv /\ [Next]_vars => BufferInv'
<1> SUFFICES ASSUME BufferInv, [Next]_vars PROVE BufferInv'
  OBVIOUS
<1>1. CASE UNCHANGED vars
  <2>1. UNCHANGED <<packets, packets_count, packets_size, should_stop, rpc, woken, seq_num_local, sending, tpc,
                    closing, heap, broken, acked, net, received, acks>>
    BY <1>1 DEF vars, bufferVars, networkVars
  <2>2. NumbersTrue'
    BY <2>1, NumbersKept DEF BufferInv, NumbersTrue
  <2> QED
    BY <2>1, <2>2 DEF BufferInv, TypeOK, StopTrue, NeverAsleepOnPackets
<1>2. CASE Sending
  BY <1>2, BufferTake, BufferSend, BufferPush DEF Sending
<1>3. CASE \E a \in SeqNums : HandleAck(a)
  BY <1>3, BufferAck
<1>4. CASE ResendThread
  BY <1>4, BufferLoop, BufferResend DEF ResendThread
<1> QED
  BY <1>1, <1>2, <1>3, <1>4, BufferTime, BufferTeardown, BufferNetwork DEF Next

(* The send buffer, its threads and its history keep their types: the array *)
(* of takionsendbuffer.c never overflows, and what is in use is a number.   *)
THEOREM SendBufferTyped == Spec => []TypeOK
<1>1. BufferInv => TypeOK
  BY DEF BufferInv
<1> QED
  BY <1>1, BufferInit, BufferStep, PTL DEF Spec

(* takion_send_buffer_thread_func never waits without timeout on packets, or *)
(* on a teardown that has signalled it.                                     *)
THEOREM ResendThreadAwake == Spec => []NeverAsleepOnPackets
<1>1. BufferInv => NeverAsleepOnPackets
  BY DEF BufferInv
<1> QED
  BY <1>1, BufferInit, BufferStep, PTL DEF Spec

-----------------------------------------------------------------------------
(* Who owns a packet buffer                                                *)

Ended == tpc \in {"finished", "closed"}

(* Each sender owns the buffer of the number in its hands and no other. *)
SendersOwn == \A n \in SeqNums, s \in Senders : heap[n] = s <=> sending[s].seq_num = n

SlotsOwn ==
    ~Ended => /\ Distinct
              /\ \A n \in SeqNums :
                    heap[n] = "stored" <=> \E i \in 1 .. packets_count : packets[i].seq_num = n

(* From the teardown on nothing is stored but by a push that came too late. *)
NothingLeft == Ended /\ ~broken => \A n \in SeqNums : heap[n] # "stored"

OwnerInv == SendersOwn /\ SlotsOwn /\ NothingLeft

(* A buffer is freed once and for all. *)
FreedStays == \A n \in SeqNums : heap[n] = "freed" => heap'[n] = "freed"

LEMMA OwnerInit == Init => OwnerInv
<1> SUFFICES ASSUME Init PROVE OwnerInv
  OBVIOUS
<1>1. SendersOwn
  <2>1. \A s \in Senders : sending[s].seq_num = NoSeq /\ s # "none"
    BY DEF Init, Senders, Idle
  <2>2. NoSeq \notin SeqNums
    BY SeqModType DEF NoSeq, SeqNums
  <2>3. \A n \in SeqNums : heap[n] = "none"
    BY DEF Init
  <2> QED
    BY <2>1, <2>2, <2>3 DEF SendersOwn
<1>2. SlotsOwn /\ NothingLeft
  <2>1. \A i \in 1 .. packets_count : FALSE
    BY DEF Init
  <2>2. \A n \in SeqNums : heap[n] = "none"
    BY DEF Init
  <2>3. Distinct
    BY <2>1, Zenon DEF Distinct
  <2>4. \A n \in SeqNums : heap[n] # "stored"
    BY <2>2
  <2> QED
    BY <2>1, <2>3, <2>4, Zenon DEF SlotsOwn, NothingLeft
<1> QED
  BY <1>1, <1>2 DEF OwnerInv

LEMMA OwnerOfHeld ==
    ASSUME BufferInv, OwnerInv, NEW s \in Senders, sending[s].step \in {"new", "sent"},
           NEW n, n = sending[s].seq_num
    PROVE  /\ n \in SeqNums /\ n # NoSeq /\ heap[n] = s
           /\ s \notin {"none", "stored", "freed"}
           /\ \A r \in Senders : r # s => sending[r].seq_num # n
           /\ ~Ended => \A i \in 1 .. packets_count : packets[i].seq_num # n
<1>1. n \in SeqNums /\ n # NoSeq
  BY HeldNumber
<1>2. heap[n] = s
  BY <1>1 DEF OwnerInv, SendersOwn
<1>3. s \notin {"none", "stored", "freed"}
  BY DEF Senders
<1>4. \A r \in Senders : r # s => sending[r].seq_num # n
  BY <1>1, <1>2 DEF OwnerInv, SendersOwn
<1>5. ~Ended => \A i \in 1 .. packets_count : packets[i].seq_num # n
  BY <1>1, <1>2, <1>3 DEF OwnerInv, SlotsOwn
<1> QED
  BY <1>1, <1>2, <1>3, <1>4, <1>5

LEMMA OwnerTake ==
    ASSUME BufferInv, OwnerInv, NEW s \in Senders, TakeSeqNum(s)
    PROVE  OwnerInv' /\ FreedStays
<1>0. PICK m : m = seq_num_local
  OBVIOUS
<1>1. /\ sending' = [sending EXCEPT ![s] = [seq_num |-> m, step |-> "new"]]
      /\ heap' = [heap EXCEPT ![m] = s]
      /\ UNCHANGED <<packets, packets_count, tpc, broken>>
      /\ sending[s] = Idle
  BY <1>0 DEF TakeSeqNum, MaySend, bufferVars
<1>2. m \in SeqNums /\ NoSeq \notin SeqNums
  BY <1>0, SeqModType DEF BufferInv, TypeOK, NoSeq, SeqNums
<1>3. heap[m] = "none"
  <2>1. SentSoFar \in Nat /\ SentSoFar = SeqDist(FirstSeq, m)
    BY <1>0, SentType DEF BufferInv
  <2>2. ~(SentSoFar < SentSoFar)
    BY <2>1
  <2>3. ~Under(m, SentSoFar)
    BY <2>1, <2>2 DEF Under
  <2> QED
    BY <1>2, <2>3, Zenon DEF BufferInv, NumbersTrue
<1>4. s \notin {"none", "stored", "freed"} /\ \A r \in Senders : r # "none"
  BY DEF Senders
<1>5. \A n \in SeqNums : n # m => heap'[n] = heap[n]
  BY <1>1 DEF BufferInv, TypeOK
<1>6. heap'[m] = s
  BY <1>1, <1>2 DEF BufferInv, TypeOK
<1>7. \A r \in Senders : r # s => sending'[r] = sending[r]
  BY <1>1 DEF BufferInv, TypeOK
<1>8. sending'[s].seq_num = m
  BY <1>1 DEF BufferInv, TypeOK
<1>9. SendersOwn'
  <2> SUFFICES ASSUME NEW n \in SeqNums, NEW r \in Senders
               PROVE  heap'[n] = r <=> sending'[r].seq_num = n
    BY DEF SendersOwn
  <2>1. heap[n] = r <=> sending[r].seq_num = n
    BY DEF OwnerInv, SendersOwn
  <2>2. sending[s].seq_num # n
    BY <1>1, <1>2 DEF Idle
  <2>3. heap[m] # r /\ (m = n => sending[r].seq_num # n)
    BY <1>3, <1>4, <2>1
  <2>4. CASE r = s
    BY <1>5, <1>6, <1>8, <2>1, <2>2, <2>4
  <2>5. CASE r # s
    BY <1>5, <1>6, <1>7, <2>1, <2>3, <2>5
  <2> QED
    BY <2>4, <2>5
<1>10. \A n \in SeqNums : heap'[n] = "stored" <=> heap[n] = "stored"
  BY <1>3, <1>4, <1>5, <1>6
<1>11. SlotsOwn'
  BY <1>1, <1>10 DEF OwnerInv, SlotsOwn, Ended, Distinct
<1>12. NothingLeft'
  BY <1>1, <1>10 DEF OwnerInv, NothingLeft, Ended
<1>13. FreedStays
  BY <1>3, <1>5 DEF FreedStays
<1> QED
  BY <1>9, <1>11, <1>12, <1>13 DEF OwnerInv

(* A sender lets its buffer go. *)
LEMMA LetGo ==
    ASSUME BufferInv, OwnerInv, NEW s \in Senders, sending[s].step \in {"new", "sent"},
           NEW n, n = sending[s].seq_num,
           sending' = [sending EXCEPT ![s] = Idle],
           NEW o \in {"stored", "freed"}, heap' = [heap EXCEPT ![n] = o]
    PROVE  SendersOwn' /\ FreedStays
<1>1. /\ n \in SeqNums /\ n # NoSeq /\ heap[n] = s
      /\ s \notin {"none", "stored", "freed"}
      /\ \A r \in Senders : r # s => sending[r].seq_num # n
  BY OwnerOfHeld
<1>2. heap'[n] = o /\ \A m \in SeqNums : m # n => heap'[m] = heap[m]
  BY <1>1 DEF BufferInv, TypeOK
<1>3. sending'[s].seq_num = NoSeq /\ \A r \in Senders : r # s => sending'[r] = sending[r]
  BY DEF BufferInv, TypeOK, Idle
<1>4. SendersOwn'
  <2> SUFFICES ASSUME NEW m \in SeqNums, NEW r \in Senders
               PROVE  heap'[m] = r <=> sending'[r].seq_num = m
    BY DEF SendersOwn
  <2>1. heap[m] = r <=> sending[r].seq_num = m
    BY DEF OwnerInv, SendersOwn
  <2>2. NoSeq # m /\ o # r
    BY SeqModType DEF NoSeq, SeqNums, Senders
  <2>3. CASE m = n
    BY <1>1, <1>2, <1>3, <2>2, <2>3
  <2>4. CASE m # n
    BY <1>2, <1>3, <2>1, <2>2, <2>4
  <2> QED
    BY <2>3, <2>4
<1>5. FreedStays
  BY <1>1, <1>2 DEF FreedStays
<1> QED
  BY <1>4, <1>5

LEMMA OwnerSend ==
    ASSUME BufferInv, OwnerInv, NEW s \in Senders, SendDatagram(s)
    PROVE  OwnerInv' /\ FreedStays
<1>0. PICK n : n = sending[s].seq_num
  OBVIOUS
<1>1. sending[s].step = "new" /\ UNCHANGED <<packets, packets_count, tpc, broken>>
  BY DEF SendDatagram, bufferVars
<1>2. CASE sending' = [sending EXCEPT ![s].step = "sent"] /\ heap' = heap
  <2>1. \A r \in Senders : sending'[r].seq_num = sending[r].seq_num
    BY <1>2 DEF BufferInv, TypeOK
  <2>2. SendersOwn'
    BY <1>2, <2>1 DEF OwnerInv, SendersOwn
  <2> QED
    BY <1>1, <1>2, <2>2 DEF OwnerInv, SlotsOwn, NothingLeft, Ended, Distinct, FreedStays
<1>3. CASE sending' = [sending EXCEPT ![s] = Idle] /\ heap' = [heap EXCEPT ![n] = "freed"]
  <2>1. SendersOwn' /\ FreedStays
    BY <1>0, <1>1, <1>3, LetGo
  <2>2. /\ n \in SeqNums /\ heap[n] = s
        /\ s \notin {"none", "stored", "freed"}
    BY <1>0, <1>1, OwnerOfHeld
  <2>3. \A m \in SeqNums : heap'[m] = "stored" <=> heap[m] = "stored"
    BY <1>3, <2>2 DEF BufferInv, TypeOK
  <2>4. SlotsOwn'
    BY <1>1, <2>3 DEF OwnerInv, SlotsOwn, Ended, Distinct
  <2>5. NothingLeft'
    BY <1>1, <2>3 DEF OwnerInv, NothingLeft, Ended
  <2> QED
    BY <2>1, <2>4, <2>5 DEF OwnerInv
<1> QED
  BY <1>0, <1>2, <1>3 DEF SendDatagram

LEMMA OwnerPush ==
    ASSUME BufferInv, OwnerInv, NEW s \in Senders, Push(s)
    PROVE  OwnerInv' /\ FreedStays
<1>0. PICK n : /\ n = sending[s].seq_num /\ n \in SeqNums /\ Under(n, SentSoFar)
               /\ PushDone(s, n)
  BY PushEffect
<1>1. /\ sending[s].step = "sent"
      /\ broken' = (broken \/ tpc \in {"finished", "closed"})
      /\ sending' = [sending EXCEPT ![s] = Idle]
      /\ tpc' = tpc
  BY <1>0 DEF PushDone
<1>2. /\ heap[n] = s
      /\ s \notin {"none", "stored", "freed"}
      /\ ~Ended => \A i \in 1 .. packets_count : packets[i].seq_num # n
  BY <1>0, <1>1, OwnerOfHeld
<1>3. SendersOwn' /\ FreedStays
  <2>1. PICK o \in {"stored", "freed"} : heap' = [heap EXCEPT ![n] = o]
    BY <1>0 DEF PushDone
  <2> QED
    BY <1>0, <1>1, <2>1, LetGo
<1>4. NothingLeft'
  <2>1. Ended' => broken'
    BY <1>1 DEF Ended
  <2> QED
    BY <2>1 DEF NothingLeft
<1>5. SlotsOwn'
  <2> SUFFICES ASSUME ~Ended PROVE SlotsOwn'
    BY <1>1 DEF SlotsOwn, Ended
  <2>0. packets_count \in 0 .. Size /\ Size \in Nat
    BY SendBufferAssumption DEF BufferInv, TypeOK
  <2>1. \A m \in SeqNums : m # n => heap'[m] = heap[m]
    BY <1>0 DEF PushDone, BufferInv, TypeOK
  <2>2. CASE ~Stores(n)
    <3>1. heap'[n] = "freed" /\ UNCHANGED <<packets, packets_count>>
      BY <1>0, <2>2 DEF PushDone, BufferInv, TypeOK
    <3>2. \A m \in SeqNums : heap'[m] = "stored" <=> heap[m] = "stored"
      BY <1>2, <2>1, <3>1
    <3> QED
      BY <1>1, <3>1, <3>2 DEF OwnerInv, SlotsOwn, Ended, Distinct
  <2>3. CASE Stores(n)
    <3>1. PICK c : c = packets_count + 1
      OBVIOUS
    <3>2. /\ packets_count' = c /\ c \in 1 .. Size /\ heap'[n] = "stored"
          /\ packets' = [packets EXCEPT ![c] = [seq_num |-> n, due |-> FALSE]]
      BY <1>0, <2>0, <2>3, <3>1 DEF PushDone, Stores, BufferInv, TypeOK
    <3>3. packets'[c].seq_num = n
      BY <3>2 DEF BufferInv, TypeOK
    <3>4. \A i \in 1 .. packets_count : i # c /\ i \in 1 .. c /\ packets'[i] = packets[i]
      BY <2>0, <3>1, <3>2 DEF BufferInv, TypeOK
    <3>5. \A i \in 1 .. c : i = c \/ i \in 1 .. packets_count
      BY <2>0, <3>1
    <3>6. \A i \in 1 .. packets_count : packets[i].seq_num # n
      BY <1>2
    <3>7. Distinct'
      <4> SUFFICES ASSUME NEW i \in 1 .. c, NEW j \in 1 .. c,
                          packets'[i].seq_num = packets'[j].seq_num
                   PROVE  i = j
        BY <3>2 DEF Distinct
      <4>1. CASE i = c
        BY <3>3, <3>4, <3>5, <3>6, <4>1
      <4>2. CASE j = c
        BY <3>3, <3>4, <3>5, <3>6, <4>2
      <4>3. CASE i # c /\ j # c
        <5>1. i \in 1 .. packets_count /\ j \in 1 .. packets_count
          BY <3>5, <4>3
        <5>2. packets[i].seq_num = packets[j].seq_num
          BY <3>4, <5>1
        <5> QED
          BY <5>1, <5>2 DEF OwnerInv, SlotsOwn, Distinct
      <4> QED
        BY <4>1, <4>2, <4>3
    <3>8. ASSUME NEW m \in SeqNums
          PROVE  heap'[m] = "stored" <=> \E i \in 1 .. c : packets'[i].seq_num = m
      <4>1. heap[m] = "stored" <=> \E i \in 1 .. packets_count : packets[i].seq_num = m
        BY DEF OwnerInv, SlotsOwn
      <4>2. CASE m = n
        <5>1. c \in 1 .. c
          BY <3>2, SendBufferAssumption
        <5> QED
          BY <3>2, <3>3, <4>2, <5>1
      <4>3. CASE m # n
        <5>1. (\E i \in 1 .. c : packets'[i].seq_num = m)
                 <=> (\E i \in 1 .. packets_count : packets[i].seq_num = m)
          BY <3>3, <3>4, <3>5, <4>3
        <5> QED
          BY <2>1, <4>1, <4>3, <5>1
      <4> QED
        BY <4>2, <4>3
    <3> QED
      BY <3>2, <3>7, <3>8 DEF SlotsOwn
  <2> QED
    BY <2>2, <2>3
<1> QED
  BY <1>3, <1>4, <1>5 DEF OwnerInv

(* The events of an acknowledgement name the covered packets, each once. *)
LEMMA AckNames ==
    ASSUME BufferInv, OwnerInv, NEW ack, HandleAck(ack)
    PROVE  LET events == AckPass(ack).acked
           IN  /\ \A n : (\E i \in DOMAIN events : events[i] = n)
                            <=> \E j \in 1 .. packets_count : Hit(ack, j) /\ packets[j].seq_num = n
               /\ \A i, k \in DOMAIN events : events[i] = events[k] => i = k
<1>0. PICK events : events = AckPass(ack).acked
  OBVIOUS
<1>1. AckDone(ack) /\ events \in Seq(SeqNums)
  BY <1>0, AckEvents
<1>2. Reported(ack, events, packets_count)
  BY <1>0, <1>1 DEF AckDone
<1>3. DOMAIN events = 1 .. Len(events)
  BY <1>1, LenProperties
<1>4. Distinct
  BY DEF HandleAck, OwnerInv, SlotsOwn, Ended
<1>5. \A i, k \in DOMAIN events : events[i] = events[k] => i = k
  BY <1>2, <1>3, <1>4 DEF Reported
<1>6. \A j : j \in Covered(ack, packets_count) <=> j \in 1 .. packets_count /\ Hit(ack, j)
  BY DEF Covered, Hit
<1>7. \A n : (\E i \in DOMAIN events : events[i] = n)
                <=> \E j \in 1 .. packets_count : Hit(ack, j) /\ packets[j].seq_num = n
  <2>1. /\ \A k \in 1 .. Len(events) : \E j \in Covered(ack, packets_count) : events[k] = packets[j].seq_num
        /\ \A j \in Covered(ack, packets_count) : \E k \in 1 .. Len(events) : events[k] = packets[j].seq_num
    BY <1>2 DEF Reported
  <2>2. ASSUME NEW i \in DOMAIN events
        PROVE  \E j \in 1 .. packets_count : Hit(ack, j) /\ packets[j].seq_num = events[i]
    BY <1>3, <1>6, <2>1
  <2>3. ASSUME NEW j \in 1 .. packets_count, Hit(ack, j)
        PROVE  \E i \in DOMAIN events : events[i] = packets[j].seq_num
    BY <1>3, <1>6, <2>1, <2>3
  <2> QED
    BY <2>2, <2>3
<1> QED
  BY <1>0, <1>5, <1>7

LEMMA OwnerAck ==
    ASSUME BufferInv, OwnerInv, NEW ack, HandleAck(ack)
    PROVE  OwnerInv' /\ FreedStays
<1>0. PICK events : events = AckPass(ack).acked
  OBVIOUS
<1>1. UNCHANGED <<sending, tpc, broken>> /\ tpc = "running"
  BY DEF HandleAck
<1>2. /\ packets_count' \in 0 .. packets_count
      /\ \A j \in 1 .. packets_count : ~Hit(ack, j) =>
            j - Taken(ack, j) \in 1 .. packets_count' /\ packets'[j - Taken(ack, j)] = packets[j]
      /\ \A p \in 1 .. packets_count' :
            \E j \in 1 .. packets_count : ~Hit(ack, j) /\ p = j - Taken(ack, j) /\ packets'[p] = packets[j]
      /\ heap' = [n \in SeqNums |->
                     IF \E i \in DOMAIN events : events[i] = n THEN "freed" ELSE heap[n]]
  <2>1. AckDone(ack)
    BY AckEvents
  <2> QED
    BY <1>0, <2>1, Zenon DEF AckDone
<1>3. \A n : (\E i \in DOMAIN events : events[i] = n)
                <=> \E j \in 1 .. packets_count : Hit(ack, j) /\ packets[j].seq_num = n
  BY <1>0, AckNames
<1>4. Distinct /\ \A n \in SeqNums :
                     heap[n] = "stored" <=> \E i \in 1 .. packets_count : packets[i].seq_num = n
  BY <1>1 DEF OwnerInv, SlotsOwn, Ended
<1>5. \A n \in SeqNums :
         heap'[n] = IF \E j \in 1 .. packets_count : Hit(ack, j) /\ packets[j].seq_num = n THEN "freed"
                    ELSE heap[n]
  BY <1>2, <1>3
<1>6. FreedStays
  BY <1>5 DEF FreedStays
<1>7. SendersOwn'
  <2> SUFFICES ASSUME NEW n \in SeqNums, NEW s \in Senders
               PROVE  heap'[n] = s <=> heap[n] = s
    BY <1>1 DEF OwnerInv, SendersOwn
  <2>1. s \notin {"stored", "freed"}
    BY DEF Senders
  <2> QED
    BY <1>4, <1>5, <2>1
<1>8. Distinct'
  <2> SUFFICES ASSUME NEW p \in 1 .. packets_count', NEW q \in 1 .. packets_count',
                      packets'[p].seq_num = packets'[q].seq_num
               PROVE  p = q
    BY DEF Distinct
  <2>1. PICK j \in 1 .. packets_count : p = j - Taken(ack, j) /\ packets'[p] = packets[j]
    BY <1>2
  <2>2. PICK l \in 1 .. packets_count : q = l - Taken(ack, l) /\ packets'[q] = packets[l]
    BY <1>2
  <2>3. j = l
    BY <1>4, <2>1, <2>2 DEF Distinct
  <2> QED
    BY <2>1, <2>2, <2>3
<1>9. ASSUME NEW n \in SeqNums
      PROVE  heap'[n] = "stored" <=> \E p \in 1 .. packets_count' : packets'[p].seq_num = n
  <2>1. ASSUME heap'[n] = "stored"
        PROVE  \E p \in 1 .. packets_count' : packets'[p].seq_num = n
    <3>1. heap[n] = "stored" /\ ~\E j \in 1 .. packets_count : Hit(ack, j) /\ packets[j].seq_num = n
      BY <1>5, <2>1
    <3>2. PICK j \in 1 .. packets_count : packets[j].seq_num = n
      BY <1>4, <3>1
    <3>3. ~Hit(ack, j)
      BY <3>1, <3>2
    <3> QED
      BY <1>2, <3>2, <3>3
  <2>2. ASSUME NEW p \in 1 .. packets_count', packets'[p].seq_num = n
        PROVE  heap'[n] = "stored"
    <3>1. PICK j \in 1 .. packets_count : ~Hit(ack, j) /\ packets'[p] = packets[j]
      BY <1>2
    <3>2. packets[j].seq_num = n
      BY <2>2, <3>1
    <3>3. heap[n] = "stored"
      BY <1>4, <3>2
    <3>4. ASSUME NEW l \in 1 .. packets_count, Hit(ack, l), packets[l].seq_num = n PROVE FALSE
      <4>1. l = j
        BY <1>4, <3>2, <3>4 DEF Distinct
      <4> QED
        BY <3>1, <3>4, <4>1
    <3> QED
      BY <1>5, <3>3, <3>4
  <2> QED
    BY <2>1, <2>2
<1>10. SlotsOwn'
  BY <1>8, <1>9 DEF SlotsOwn
<1>11. NothingLeft'
  BY <1>1 DEF NothingLeft, Ended
<1> QED
  BY <1>6, <1>7, <1>10, <1>11 DEF OwnerInv

(* Steps that leave the buffers with their owners. *)
LEMMA OwnerKept ==
    ASSUME BufferInv, OwnerInv, UNCHANGED <<heap, sending, broken>>, UNCHANGED packets_count,
           \A i \in 1 .. packets_count : packets'[i].seq_num = packets[i].seq_num,
           Ended' = Ended
    PROVE  OwnerInv' /\ FreedStays
<1>1. SendersOwn' /\ NothingLeft' /\ FreedStays
  BY DEF OwnerInv, SendersOwn, NothingLeft, FreedStays
<1>2. SlotsOwn'
  BY DEF OwnerInv, SlotsOwn, Distinct
<1> QED
  BY <1>1, <1>2 DEF OwnerInv

LEMMA OwnerFree ==
    ASSUME BufferInv, OwnerInv, FiniFree
    PROVE  OwnerInv' /\ FreedStays
<1>1. /\ tpc = "joining" /\ tpc' = "finished" /\ UNCHANGED <<packets, packets_count, sending, broken>>
      /\ heap' = [n \in SeqNums |->
                   IF \E i \in 1 .. packets_count : packets[i].seq_num = n THEN "freed" ELSE heap[n]]
  BY DEF FiniFree, bufferVars
<1>2. \A n \in SeqNums : heap[n] = "stored" <=> \E i \in 1 .. packets_count : packets[i].seq_num = n
  BY <1>1 DEF OwnerInv, SlotsOwn, Ended
<1>3. \A n \in SeqNums : heap'[n] = IF heap[n] = "stored" THEN "freed" ELSE heap[n]
  BY <1>1, <1>2
<1>4. SendersOwn'
  <2>1. \A s \in Senders : s \notin {"stored", "freed"}
    BY DEF Senders
  <2> QED
    BY <1>1, <1>3, <2>1 DEF OwnerInv, SendersOwn
<1>5. NothingLeft' /\ FreedStays
  BY <1>3 DEF NothingLeft, FreedStays
<1>6. SlotsOwn'
  BY <1>1 DEF SlotsOwn, Ended
<1> QED
  BY <1>4, <1>5, <1>6 DEF OwnerInv

LEMMA OwnerStep == BufferInv /\ OwnerInv /\ [Next]_vars => OwnerInv' /\ FreedStays
<1> SUFFICES ASSUME BufferInv, OwnerInv, [Next]_vars PROVE OwnerInv' /\ FreedStays
  OBVIOUS
<1>1. CASE UNCHANGED vars
  <2>1. UNCHANGED <<packets, packets_count, sending, tpc, heap, broken>>
    BY <1>1 DEF vars, bufferVars
  <2> QED
    BY <2>1, OwnerKept DEF Ended
<1>2. CASE Sending
  BY <1>2, OwnerTake, OwnerSend, OwnerPush DEF Sending
<1>3. CASE \E a \in SeqNums : HandleAck(a)
  BY <1>3, OwnerAck
<1>4. CASE ResendLoop \/ Close \/ LeaveLoop \/ FiniSignal \/ ThreadEnds
  <2>1. UNCHANGED <<packets, packets_count, sending, heap, broken>> /\ Ended' = Ended
    BY <1>4 DEF ResendLoop, Close, LeaveLoop, FiniSignal, ThreadEnds, bufferVars, Ended
  <2> QED
    BY <2>1, OwnerKept
<1>5. CASE Resend \/ TimePasses
  <2>1. UNCHANGED <<sending, heap, broken, tpc>> /\ SlotsKept
    BY <1>5, ResendEffect, TimeEffect
  <2> QED
    BY <2>1, OwnerKept DEF SlotsKept, Ended
<1>6. CASE Network
  <2>1. UNCHANGED <<packets, packets_count, sending, tpc, heap, broken>>
    BY <1>6 DEF Network, Deliver, Lose, LoseAck, bufferVars
  <2> QED
    BY <2>1, OwnerKept DEF Ended
<1> QED
  BY <1>1, <1>2, <1>3, <1>4, <1>5, <1>6, OwnerFree DEF Next, ResendThread, Teardown

(* Every packet buffer has one owner, whatever senders, acknowledgements,  *)
(* the resend thread and the teardown do in whatever order.                *)
THEOREM BuffersHaveOneOwner == Spec => []OneOwner
<1>1. OwnerInv => OneOwner
  <2> SUFFICES ASSUME OwnerInv PROVE OneOwner
    OBVIOUS
  <2>1. tpc = "closed" /\ ~broken => \A n \in SeqNums : heap[n] # "stored"
    BY DEF OwnerInv, NothingLeft, Ended
  <2> QED
    BY <2>1 DEF OwnerInv, SendersOwn, SlotsOwn, Ended, Distinct, OneOwner
<1> QED
  BY <1>1, BufferInit, BufferStep, OwnerInit, OwnerStep, PTL DEF Spec

-----------------------------------------------------------------------------
(* What an acknowledgement says and does                                   *)

(* An acknowledgement on its way covers what the console has received.     *)
AcksTrue == \A a \in acks : \A n : Under(n, MaxSent) /\ SeqLe(n, a) => n \in received

(* The buffer of an acknowledged message is gone, so that none is reported *)
(* again.                                                                  *)
AckedFreed == \A i \in 1 .. Len(acked) : heap[acked[i]] = "freed"

AckInv == AcksTrue /\ AckedFreed /\ AckedOnceReceived

LEMMA AckInit == Init => AckInv
  BY DEF Init, AckInv, AcksTrue, AckedFreed, AckedOnceReceived

(* A step that reports nothing. *)
LEMMA AckKept ==
    ASSUME BufferInv, AckInv, FreedStays, UNCHANGED acked, received \subseteq received',
           \A a \in acks' : a \in acks \/ \A n : Under(n, MaxSent) /\ SeqLe(n, a) => n \in received'
    PROVE  AckInv'
<1>1. AcksTrue'
  BY DEF AckInv, AcksTrue
<1>2. AckedFreed'
  <2>1. \A i \in 1 .. Len(acked) : acked[i] \in SeqNums
    BY DEF BufferInv, TypeOK
  <2> QED
    BY <2>1 DEF AckInv, AckedFreed, FreedStays
<1>3. AckedOnceReceived'
  BY DEF AckInv, AckedOnceReceived
<1> QED
  BY <1>1, <1>2, <1>3 DEF AckInv

LEMMA AckReports ==
    ASSUME BufferInv, OwnerInv, AckInv, FreedStays, NEW ack, HandleAck(ack)
    PROVE  AckInv'
<1>0. PICK events : events = AckPass(ack).acked
  OBVIOUS
<1>1. ack \in acks /\ UNCHANGED <<received, acks>> /\ tpc = "running"
  BY DEF HandleAck, networkVars
<1>2. /\ events \in Seq(SeqNums) /\ acked' = acked \o events
      /\ heap' = [n \in SeqNums |->
                     IF \E i \in DOMAIN events : events[i] = n THEN "freed" ELSE heap[n]]
  BY <1>0, AckEvents DEF AckDone
<1>3. /\ \A n : (\E i \in DOMAIN events : events[i] = n)
                   <=> \E j \in 1 .. packets_count : Hit(ack, j) /\ packets[j].seq_num = n
      /\ \A i, k \in DOMAIN events : events[i] = events[k] => i = k
  BY <1>0, AckNames
<1>4. acked \in Seq(SeqNums) /\ Len(acked) \in Nat /\ Len(events) \in Nat
      /\ DOMAIN events = 1 .. Len(events)
  BY <1>2, LenProperties DEF BufferInv, TypeOK
<1>5. Len(acked') = Len(acked) + Len(events)
  BY <1>2, <1>4, ConcatProperties
<1>6. \A i \in 1 .. Len(acked') :
         \/ i \in 1 .. Len(acked) /\ acked'[i] = acked[i]
         \/ i - Len(acked) \in DOMAIN events /\ acked'[i] = events[i - Len(acked)]
  <2> SUFFICES ASSUME NEW i \in 1 .. Len(acked')
               PROVE  \/ i \in 1 .. Len(acked) /\ acked'[i] = acked[i]
                      \/ i - Len(acked) \in DOMAIN events /\ acked'[i] = events[i - Len(acked)]
    OBVIOUS
  <2>1. i \in 1 .. Len(acked) + Len(events)
    BY <1>5
  <2>2. acked'[i] = IF i <= Len(acked) THEN acked[i] ELSE events[i - Len(acked)]
    BY <1>2, <1>4, <2>1, ConcatProperties
  <2> QED
    BY <1>4, <2>1, <2>2
<1>7. ASSUME NEW k \in DOMAIN events
      PROVE  events[k] \in SeqNums /\ events[k] \in received /\ heap[events[k]] = "stored"
  <2>1. PICK j \in 1 .. packets_count : Hit(ack, j) /\ packets[j].seq_num = events[k]
    BY <1>3
  <2>2. Under(events[k], SentSoFar)
    BY <2>1 DEF BufferInv, NumbersTrue
  <2>3. Under(events[k], MaxSent)
    BY <2>2, UnderBound
  <2>4. events[k] \in received
    BY <1>1, <2>1, <2>3 DEF AckInv, AcksTrue, Hit
  <2>5. events[k] \in SeqNums
    BY <2>2 DEF Under
  <2> QED
    BY <1>1, <2>1, <2>4, <2>5 DEF OwnerInv, SlotsOwn, Ended
<1>8. ASSUME NEW i \in 1 .. Len(acked)
      PROVE  acked[i] \in SeqNums /\ acked[i] \in received /\ heap[acked[i]] = "freed"
  BY <1>4 DEF AckInv, AckedOnceReceived, AckedFreed
<1>9. AcksTrue'
  BY <1>1 DEF AckInv, AcksTrue
<1>10. AckedFreed'
  <2> SUFFICES ASSUME NEW i \in 1 .. Len(acked') PROVE heap'[acked'[i]] = "freed"
    BY DEF AckedFreed
  <2>1. CASE i \in 1 .. Len(acked) /\ acked'[i] = acked[i]
    BY <1>8, <2>1 DEF FreedStays
  <2>2. CASE i - Len(acked) \in DOMAIN events /\ acked'[i] = events[i - Len(acked)]
    <3>1. PICK k \in DOMAIN events : acked'[i] = events[k]
      BY <2>2
    <3> QED
      BY <1>2, <1>7, <3>1
  <2> QED
    BY <1>6, <2>1, <2>2
<1>11. \A i \in 1 .. Len(acked') : acked'[i] \in received'
  BY <1>1, <1>6, <1>7, <1>8
<1>12. ASSUME NEW i \in 1 .. Len(acked'), NEW j \in 1 .. Len(acked'), acked'[i] = acked'[j]
       PROVE  i = j
  <2>1. CASE i \in 1 .. Len(acked) /\ acked'[i] = acked[i] /\ j \in 1 .. Len(acked) /\ acked'[j] = acked[j]
    BY <1>12, <2>1 DEF AckInv, AckedOnceReceived
  <2>2. CASE /\ i \in 1 .. Len(acked) /\ acked'[i] = acked[i]
             /\ j - Len(acked) \in DOMAIN events /\ acked'[j] = events[j - Len(acked)]
    BY <1>7, <1>8, <1>12, <2>2
  <2>3. CASE /\ j \in 1 .. Len(acked) /\ acked'[j] = acked[j]
             /\ i - Len(acked) \in DOMAIN events /\ acked'[i] = events[i - Len(acked)]
    BY <1>7, <1>8, <1>12, <2>3
  <2>4. CASE /\ i - Len(acked) \in DOMAIN events /\ acked'[i] = events[i - Len(acked)]
             /\ j - Len(acked) \in DOMAIN events /\ acked'[j] = events[j - Len(acked)]
    <3>1. i - Len(acked) = j - Len(acked)
      BY <1>3, <1>12, <2>4
    <3> QED
      BY <1>4, <1>5, <3>1
  <2> QED
    BY <1>6, <2>1, <2>2, <2>3, <2>4
<1>13. AckedOnceReceived'
  BY <1>11, <1>12 DEF AckedOnceReceived
<1> QED
  BY <1>9, <1>10, <1>13 DEF AckInv

LEMMA AckStep == BufferInv /\ OwnerInv /\ AckInv /\ [Next]_vars => AckInv'
<1> SUFFICES ASSUME BufferInv, OwnerInv, AckInv, [Next]_vars PROVE AckInv'
  OBVIOUS
<1>1. FreedStays
  BY OwnerStep
<1>2. CASE \E a \in SeqNums : HandleAck(a)
  BY <1>1, <1>2, AckReports
<1>3. CASE \E n \in SeqNums : Deliver(n)
  <2>1. PICK n \in SeqNums : Deliver(n)
    BY <1>3
  <2>2. /\ received \subseteq received' /\ UNCHANGED acked
        /\ \A a \in acks' : a \in acks \/ \A m : Under(m, MaxSent) /\ SeqLe(m, a) => m \in received'
    BY <2>1, DeliverEffect
  <2> QED
    BY <1>1, <2>2, AckKept
<1>4. CASE UNCHANGED <<acked, received>> /\ acks' \subseteq acks
  BY <1>1, <1>4, AckKept
<1>5. CASE ~(\E a \in SeqNums : HandleAck(a)) /\ ~(\E n \in SeqNums : Deliver(n))
  <2>1. UNCHANGED <<acked, received>> /\ acks' \subseteq acks
    BY <1>5 DEF Next, Sending, TakeSeqNum, SendDatagram, Push, ResendThread, ResendLoop, Resend, TimePasses,
                Close, Teardown, LeaveLoop, FiniSignal, FiniFree, ThreadEnds, Network, Lose, LoseAck,
                networkVars, vars
  <2> QED
    BY <1>4, <2>1
<1> QED
  BY <1>2, <1>3, <1>5

(* DATA_ACK events are for messages the console has received, one for each. *)
THEOREM AcksReportedOnce == Spec => []AckedOnceReceived
<1>1. AckInv => AckedOnceReceived
  BY DEF AckInv
<1> QED
  BY <1>1, BufferInit, BufferStep, OwnerInit, OwnerStep, AckInit, AckStep, PTL DEF Spec

(* The single pass over the array takes what is covered and keeps the rest. *)
THEOREM AckPassTakesTheCovered == Spec => AckTakesTheCovered
<1>1. ASSUME BufferInv, NEW ack \in SeqNums, HandleAck(ack)
      PROVE  /\ packets_count' = packets_count - Cardinality(Covered(ack, packets_count))
             /\ \A i \in 1 .. packets_count : i \notin Covered(ack, packets_count) =>
                   packets'[i - Cardinality(Covered(ack, i))] = packets[i]
             /\ Len(acked') - Len(acked) = packets_count - packets_count'
  <2>0. PICK events : events = AckPass(ack).acked
    OBVIOUS
  <2>1. /\ events \in Seq(SeqNums) /\ acked' = acked \o events
        /\ packets_count' = packets_count - Taken(ack, packets_count)
        /\ packets_count' \in 0 .. packets_count
        /\ \A j \in 1 .. packets_count : ~Hit(ack, j) => packets'[j - Taken(ack, j)] = packets[j]
        /\ Len(events) = Taken(ack, packets_count)
    BY <1>1, <2>0, AckEvents DEF AckDone, Reported
  <2>2. packets_count \in Nat /\ acked \in Seq(SeqNums) /\ Len(acked) \in Nat /\ Len(events) \in Nat
    BY <1>1, <2>1, LenProperties, SendBufferAssumption DEF BufferInv, TypeOK
  <2>3. Len(acked') = Len(acked) + Len(events)
    BY <2>1, <2>2, ConcatProperties
  <2>4. Len(acked') - Len(acked) = packets_count - packets_count'
    BY <2>1, <2>2, <2>3
  <2>5. \A i \in 1 .. packets_count : i \notin Covered(ack, packets_count) => ~Hit(ack, i)
    BY DEF Covered, Hit
  <2> QED
    BY <2>1, <2>4, <2>5 DEF Taken
<1>2. BufferInv /\ [Next]_vars =>
         [\A ack \in SeqNums : HandleAck(ack) =>
             /\ packets_count' = packets_count - Cardinality(Covered(ack, packets_count))
             /\ \A i \in 1 .. packets_count : i \notin Covered(ack, packets_count) =>
                   packets'[i - Cardinality(Covered(ack, i))] = packets[i]
             /\ Len(acked') - Len(acked) = packets_count - packets_count']_vars
  BY <1>1
<1> QED
  BY <1>2, BufferInit, BufferStep, PTL DEF Spec, AckTakesTheCovered
=============================================================================
