---------------------------- MODULE TakionProofs ----------------------------
(***************************************************************************)
(* Proofs about Takion, for every ring size and width of the numbers, any  *)
(* number of messages below half the circle, and any network: messages     *)
(* reach the callback in the order of their numbers, only those that did   *)
(* are acknowledged, and no AV packet gets there before the keys.          *)
(*                                                                         *)
(* The argument: begin is the number of the message after the last one     *)
(* delivered, and the entry at offset i of the window, when it is set,     *)
(* holds the message i places further on.  What a push does to the ring is *)
(* taken from ReorderQueueProofs.                                          *)
(***************************************************************************)
EXTENDS Takion, SeqNumProofs, SequenceTheorems

(* The theorems about the data queue. *)
QP == INSTANCE ReorderQueueProofs WITH
        SeqStarts <- {TagRemote}, DropStrategies <- {"END"}, Elements <- Messages,
        DropIndices <- {}, MaxGiven <- 0,
        drop_strategy <- "END", dropped <- {}, status <- "open", pos <- 0,
        place <- [e \in {} |-> 0], given <- [e \in Messages |-> 0], pulled <- <<>>

Ring == 0 .. Size - 1

RingEntry == [set : BOOLEAN, user : Messages \cup {NoElem}]

(* The slot at offset i of a window that begins with number b. *)
SlotOf(b, i) == SeqAdd(b, i) % Size

LEMMA SizeFacts ==
    /\ Size \in Nat /\ Size > 1 /\ Size < SeqHalf
    /\ SeqMod \in Nat /\ SeqHalf \in Nat /\ SeqMod = 2 * SeqHalf
    /\ MaxMessages \in Nat /\ MaxMessages < SeqHalf
    /\ TagRemote \in SeqNums
  BY TakionAssumption, SeqModType

LEMMA RingAssumption == QP!SizeAssumption /\ QP!SeqHalfAssumption
<1>1. Messages \subseteq Nat \ {0}
  BY DEF Messages
<1>2. TagRemote \in QP!SeqNums
  BY TakionAssumption DEF QP!SeqNums, QP!SeqMod, SeqNums, SeqMod
<1> QED
  BY <1>1, <1>2, TakionAssumption, SeqHalfAssumption
     DEF QP!SizeAssumption, QP!SeqHalfAssumption, NoElem

(* The queue's operators, as Takion uses them, are those of the theorems. *)
LEMMA SameNumbers ==
    /\ QP!SeqMod = SeqMod /\ QP!SeqNums = SeqNums
    /\ QP!Indices = Ring /\ QP!Entry = RingEntry
    /\ \A a, n : QP!SeqAdd(a, n) = SeqAdd(a, n)
    /\ \A a, b : QP!SeqDist(a, b) = SeqDist(a, b)
    /\ \A s : QP!Idx(s) = s % Size
  BY DEF QP!SeqMod, SeqMod, QP!SeqNums, SeqNums, QP!Indices, Ring, QP!Entry, RingEntry,
         QP!SeqAdd, SeqAdd, QP!SeqDist, SeqDist, QP!Idx

LEMMA SamePush ==
    ASSUME NEW s, NEW elem
    PROVE  /\ Q!Idx(s) = s % Size
           /\ Q!InWindow(s) <=> QP!InWindow(s)
           /\ Q!Ahead(s) <=> QP!Ahead(s)
           /\ Q!Overflows(s) <=> QP!Overflows(s)
           /\ Q!Grow(begin, count, s, elem) <=> QP!Grow(begin, count, s, elem)
<1>1. Q!Idx(s) = s % Size
  BY DEF Q!Idx
<1>2. Q!InWindow(s) <=> QP!InWindow(s)
  BY DEF Q!InWindow, QP!InWindow, Q!SeqGe, QP!SeqGe, Q!SeqGt, QP!SeqGt, Q!SeqLt, QP!SeqLt,
         Q!End, QP!End, Q!SeqAdd, QP!SeqAdd, Q!SeqMod, QP!SeqMod
<1>3. Q!Ahead(s) <=> QP!Ahead(s)
  BY <1>2 DEF Q!Ahead, QP!Ahead, Q!SeqGe, QP!SeqGe, Q!SeqGt, QP!SeqGt, Q!SeqLt, QP!SeqLt,
         Q!End, QP!End, Q!SeqAdd, QP!SeqAdd, Q!SeqMod, QP!SeqMod
<1>4. Q!Overflows(s) <=> QP!Overflows(s)
  BY DEF Q!Overflows, QP!Overflows, Q!SeqLt, QP!SeqLt, Q!TotalEnd, QP!TotalEnd,
         Q!SeqAdd, QP!SeqAdd, Q!SeqMod, QP!SeqMod
<1>5. Q!Grow(begin, count, s, elem) <=> QP!Grow(begin, count, s, elem)
  BY DEF Q!Grow, QP!Grow, Q!GrownBy, QP!GrownBy, Q!Idx, QP!Idx, Q!Indices, QP!Indices,
         Q!SeqAdd, QP!SeqAdd, Q!SeqMod, QP!SeqMod, Q!SeqLt, QP!SeqLt, Q!SeqDist, QP!SeqDist
<1> QED
  BY <1>1, <1>2, <1>3, <1>4, <1>5

LEMMA SameAt == \A i : Q!At(i) = slots[SlotOf(begin, i)]
  BY DEF Q!At, SlotOf, Q!Idx, Q!SeqAdd, SeqAdd, Q!SeqMod, SeqMod

(* Different offsets of one window use different slots of the ring. *)
LEMMA Distinct ==
    ASSUME NEW b \in SeqNums, NEW i \in Ring, NEW j \in Ring, i # j
    PROVE  SlotOf(b, i) # SlotOf(b, j)
<1>1. b \in QP!SeqNums /\ i \in QP!Indices /\ j \in QP!Indices
  BY SameNumbers
<1>2. CASE i < j
  <2>1. QP!Idx(QP!SeqAdd(b, i)) # QP!Idx(QP!SeqAdd(b, j))
    BY <1>1, <1>2, QP!IdxDistinct, RingAssumption
  <2> QED
    BY <2>1, SameNumbers DEF SlotOf
<1>3. CASE j < i
  <2>1. QP!Idx(QP!SeqAdd(b, j)) # QP!Idx(QP!SeqAdd(b, i))
    BY <1>1, <1>3, QP!IdxDistinct, RingAssumption
  <2> QED
    BY <2>1, SameNumbers DEF SlotOf
<1> QED
  BY <1>2, <1>3 DEF Ring

-----------------------------------------------------------------------------
(* The push                                                                *)

QueueTypes ==
    /\ slots \in [Ring -> RingEntry]
    /\ begin \in SeqNums
    /\ count \in 0 .. Size

(* Every entry of the window is of the message its place stands for when k *)
(* messages were delivered.                                                *)
Placed(k) ==
    \A i \in 0 .. count - 1 :
        slots[SlotOf(begin, i)].set => slots[SlotOf(begin, i)].user = k + i + 1

LEMMA SlotType ==
    ASSUME NEW b \in SeqNums, NEW i \in Ring
    PROVE  SlotOf(b, i) \in Ring
<1>1. SeqAdd(b, i) \in Nat /\ Size \in Nat \ {0}
  <2>1. i \in 0 .. SeqMod
    BY SizeFacts DEF Ring
  <2> QED
    BY <2>1, SeqAddCases, SizeFacts DEF SeqNums
<1> QED
  BY <1>1 DEF SlotOf, Ring

LEMMA QueueTypesThere ==
    ASSUME QueueTypes
    PROVE  QP!TypeOK
  BY SameNumbers DEF QueueTypes, QP!TypeOK

(* A number d places behind begin is that of message k + d + 1. *)
LEMMA PlaceOfMessage ==
    ASSUME NEW k \in 0 .. MaxMessages, NEW n \in Messages, NEW d \in Ring,
           begin = SeqAdd(TagRemote, k), SeqDist(begin, SeqOf(n)) = d
    PROVE  n = k + d + 1 /\ SeqOf(n) = SeqAdd(begin, d)
<1>1. n - 1 \in 0 .. SeqMod - 1 /\ n - 1 \in 0 .. SeqMod /\ k \in 0 .. SeqMod
  BY SizeFacts DEF Messages
<1>2. k + d \in 0 .. SeqMod - 1 /\ k \in Nat /\ d \in Nat /\ k + d <= SeqMod
  BY SizeFacts DEF Ring
<1>3. SeqOf(n) \in SeqNums /\ begin \in SeqNums
  BY <1>1, SeqAddCases, SizeFacts DEF SeqOf
<1>4. SeqAdd(begin, d) = SeqOf(n)
  BY <1>3, SeqAddDist
<1>5. SeqAdd(begin, d) = SeqAdd(TagRemote, k + d)
  BY <1>2, SeqAddAssoc, SizeFacts
<1>6. SeqDist(TagRemote, SeqAdd(TagRemote, k + d)) = k + d
  BY <1>2, SeqDistAdd, SizeFacts
<1>7. SeqDist(TagRemote, SeqAdd(TagRemote, n - 1)) = n - 1
  BY <1>1, SeqDistAdd, SizeFacts
<1>8. k + d = n - 1
  BY <1>4, <1>5, <1>6, <1>7 DEF SeqOf
<1> QED
  BY <1>2, <1>4, <1>8 DEF Messages

LEMMA PushedPlaces ==
    ASSUME NEW k \in 0 .. MaxMessages, NEW n \in Messages,
           QueueTypes, begin = SeqAdd(TagRemote, k), Placed(k), Pushed(n)
    PROVE  QueueTypes' /\ begin' = begin /\ Placed(k)'
<1> DEFINE s == SeqOf(n)
           d == SeqDist(begin, s)
<1>1. s \in SeqNums
  <2>1. n - 1 \in 0 .. SeqMod
    BY SizeFacts DEF Messages
  <2> QED
    BY <2>1, SeqAddCases, SizeFacts DEF SeqOf
<1>2. QP!TypeOK /\ s \in QP!SeqNums /\ QP!SeqDist(begin, s) = d
  BY <1>1, QueueTypesThere, SameNumbers
<1>3. [set |-> TRUE, user |-> n] \in RingEntry
  BY DEF RingEntry
<1>4. CASE Q!InWindow(s) /\ ~slots[Q!Idx(s)].set
  <2>1. QP!InWindow(s)
    BY <1>4, SamePush
  <2>2. QP!SeqDist(begin, s) \in 0 .. count - 1
    BY <2>1, <1>2, QP!WindowOffset, RingAssumption
  <2>3. d \in 0 .. count - 1 /\ d \in Ring
    BY <2>2, <1>2, SizeFacts DEF QueueTypes, Ring
  <2>4. n = k + d + 1 /\ s = SeqAdd(begin, d)
    BY <2>3, PlaceOfMessage
  <2>5. Q!Idx(s) = SlotOf(begin, d)
    BY <2>4, SamePush DEF SlotOf
  <2>6. /\ slots' = [slots EXCEPT ![SlotOf(begin, d)] = [set |-> TRUE, user |-> n]]
        /\ begin' = begin /\ count' = count
    BY <1>4, <2>5 DEF Pushed
  <2>7. QueueTypes'
    BY <2>6, <1>3 DEF QueueTypes
  <2>8. ASSUME NEW i \in 0 .. count - 1, slots'[SlotOf(begin, i)].set
        PROVE  slots'[SlotOf(begin, i)].user = k + i + 1
    <3>1. i \in Ring /\ SlotOf(begin, i) \in Ring
      BY SlotType, SizeFacts DEF QueueTypes, Ring
    <3>2. CASE i = d
      BY <3>1, <3>2, <2>4, <2>6 DEF QueueTypes
    <3>3. CASE i # d
      <4>1. SlotOf(begin, i) # SlotOf(begin, d)
        BY <3>1, <3>3, <2>3, Distinct DEF QueueTypes
      <4>2. slots'[SlotOf(begin, i)] = slots[SlotOf(begin, i)]
        BY <4>1, <3>1, <2>6 DEF QueueTypes
      <4> QED
        BY <4>2, <2>8 DEF Placed
    <3> QED
      BY <3>2, <3>3
  <2> QED
    BY <2>6, <2>7, <2>8 DEF Placed
<1>5. CASE ~(Q!InWindow(s) /\ ~slots[Q!Idx(s)].set) /\ Q!Ahead(s) /\ ~Q!Overflows(s)
  <2>1. QP!Ahead(s) /\ ~QP!Overflows(s)
    BY <1>5, SamePush
  <2>2. QP!SeqDist(begin, s) \in count .. Size - 1
    BY <2>1, <1>2, QP!AheadOffset, RingAssumption
  <2>3. d \in count .. Size - 1 /\ d \in Ring /\ d \in Nat /\ d < Size /\ count \in Nat /\ count <= d
    BY <2>2, <1>2, SizeFacts DEF QueueTypes, Ring
  <2>4. n = k + d + 1 /\ s = SeqAdd(begin, d)
    BY <2>3, PlaceOfMessage
  <2>5. Q!Grow(begin, count, s, n)
    BY <1>5 DEF Pushed
  <2>6. QP!Grow(begin, count, s, n)
    BY <2>5, SamePush
  <2>7. slots \in [QP!Indices -> QP!Entry] /\ begin \in QP!SeqNums /\ s = QP!SeqAdd(begin, d)
    BY <2>4, SameNumbers DEF QueueTypes
  <2>8. /\ begin' = begin
        /\ count' = d + 1
        /\ slots' \in [QP!Indices -> QP!Entry]
        /\ \A i \in 0 .. count - 1 : slots'[QP!Idx(QP!SeqAdd(begin, i))] = slots[QP!Idx(QP!SeqAdd(begin, i))]
        /\ \A i \in count .. d - 1 : ~slots'[QP!Idx(QP!SeqAdd(begin, i))].set
        /\ slots'[QP!Idx(QP!SeqAdd(begin, d))] = [set |-> TRUE, user |-> n]
    BY <2>3, <2>6, <2>7, <1>2, QP!GrowEffect, RingAssumption
  <2>9. \A i : QP!Idx(QP!SeqAdd(begin, i)) = SlotOf(begin, i)
    BY SameNumbers DEF SlotOf
  <2>10. QueueTypes'
    BY <2>3, <2>8, SameNumbers, SizeFacts DEF QueueTypes
  <2>11. ASSUME NEW i \in 0 .. d, slots'[SlotOf(begin, i)].set
         PROVE  slots'[SlotOf(begin, i)].user = k + i + 1
    <3>1. CASE i < count
      <4>1. i \in 0 .. count - 1
        BY <3>1, <2>3
      <4>2. slots'[SlotOf(begin, i)] = slots[SlotOf(begin, i)]
        BY <4>1, <2>8, <2>9
      <4> QED
        BY <4>1, <4>2, <2>11 DEF Placed
    <3>2. CASE i >= count /\ i < d
      <4>1. i \in count .. d - 1
        BY <3>2, <2>3
      <4> QED
        BY <4>1, <2>8, <2>9, <2>11
    <3>3. CASE i = d
      BY <3>3, <2>4, <2>8, <2>9
    <3> QED
      BY <3>1, <3>2, <3>3, <2>3
  <2>12. 0 .. count' - 1 = 0 .. d
    BY <2>3, <2>8
  <2> QED
    BY <2>8, <2>10, <2>11, <2>12 DEF Placed
<1>6. CASE /\ ~(Q!InWindow(s) /\ ~slots[Q!Idx(s)].set)
           /\ ~(Q!Ahead(s) /\ ~Q!Overflows(s))
  <2>1. slots' = slots /\ begin' = begin /\ count' = count
    BY <1>6 DEF Pushed, queueVars
  <2> QED
    BY <2>1 DEF QueueTypes, Placed
<1> QED
  BY <1>4, <1>5, <1>6

-----------------------------------------------------------------------------
(* The inductive invariant                                                 *)

InHandshake == tpc \in {"start", "initAck", "cookieAck"}

QueueInv ==
    Receiving => begin = SeqAdd(TagRemote, Len(delivered)) /\ Placed(Len(delivered))

(* What takion_flush_data_queue will acknowledge is what it delivered last. *)
PulledInv ==
    tpc = "flush" /\ lastPulled # NoSeq =>
        Len(delivered) > 0 /\ lastPulled = SeqAdd(TagRemote, Len(delivered) - 1)

BangDelivered == \E i \in 1 .. Len(delivered) : delivered[i] = Bang

KeysInv ==
    /\ gkcrypt_remote => EnableCrypt /\ BangDelivered
    /\ EnableCrypt /\ handed # <<>> => gkcrypt_remote

ClientInv ==
    /\ InHandshake => delivered = <<>>
    /\ QueueInv
    /\ PulledInv
    /\ KeysInv
    /\ DeliveredInOrder

Inv == TypeOK /\ ClientInv /\ AckedIsDelivered

(* The slots, begin and count are as the queue's lemmas want them. *)
LEMMA TypedQueue == TypeOK => QueueTypes
  BY DEF TypeOK, QueueTypes, Ring, RingEntry

(* Not more is delivered than there are messages. *)
LEMMA DeliveredLength ==
    ASSUME delivered \in Seq(Messages), DeliveredInOrder
    PROVE  Len(delivered) \in 0 .. MaxMessages
<1>1. CASE Len(delivered) = 0
  BY <1>1, SizeFacts
<1>2. CASE Len(delivered) # 0
  <2> DEFINE k == Len(delivered)
  <2>1. k \in Nat /\ k \in 1 .. k
    BY <1>2
  <2>2. delivered[k] \in Messages
    BY <2>1
  <2>3. delivered[k] = k
    BY <2>1 DEF DeliveredInOrder
  <2> QED
    BY <2>1, <2>2, <2>3, SizeFacts DEF Messages
<1> QED
  BY <1>1, <1>2

LEMMA InitInv == Init => Inv
<1> SUFFICES ASSUME Init PROVE Inv
  OBVIOUS
<1>1. [i \in Ring |-> [set |-> FALSE, user |-> NoElem]] \in [Ring -> RingEntry]
  BY DEF RingEntry
<1>2. TypeOK
  <2>1. slots \in [0 .. Size - 1 -> [set : BOOLEAN, user : Messages \cup {NoElem}]]
    BY <1>1 DEF Init, Ring, RingEntry
  <2>2. /\ count \in 0 .. Size /\ ackOnWay \in 0 .. MaxMessages /\ avSent \in 0 .. MaxAV
        /\ consoleSent \in 0 .. MaxMessages /\ consoleAcked \in 0 .. MaxMessages
    BY SizeFacts, TakionAssumption DEF Init
  <2>3. /\ postponed \in Seq(AVPackets) /\ Len(postponed) <= MaxPostponed
        /\ delivered \in Seq(Messages) /\ handed \in Seq(AVPackets) /\ arrived \in Seq(AVPackets)
    BY TakionAssumption DEF Init
  <2> QED
    BY <2>1, <2>2, <2>3, SizeFacts DEF Init, TypeOK
<1>3. ClientInv
  BY DEF Init, ClientInv, QueueInv, Receiving, PulledInv, KeysInv, DeliveredInOrder
<1>4. AckedIsDelivered
  BY DEF Init, AckedIsDelivered
<1> QED
  BY <1>2, <1>3, <1>4 DEF Inv

(* Steps that deliver and hand over nothing and do not begin to receive. *)
LEMMA KeepsClient ==
    ASSUME Inv, queueVars' = queueVars, gkcrypt_remote' = gkcrypt_remote,
           delivered' = delivered, handed' = handed,
           InHandshake' => InHandshake, Receiving' => Receiving,
           PulledInv'
    PROVE  ClientInv'
<1>1. QueueInv'
  BY DEF Inv, ClientInv, QueueInv, Placed, queueVars
<1>2. KeysInv' /\ DeliveredInOrder'
  BY DEF Inv, ClientInv, KeysInv, BangDelivered, DeliveredInOrder
<1> QED
  BY <1>1, <1>2 DEF Inv, ClientInv

(* Steps of the network, the console and Close, and the end of the thread. *)
LEMMA KeepsAll ==
    ASSUME Inv, queueVars' = queueVars, lastPulled' = lastPulled,
           gkcrypt_remote' = gkcrypt_remote, delivered' = delivered, handed' = handed,
           InHandshake' => InHandshake, Receiving' => Receiving,
           tpc' = "flush" => tpc = "flush"
    PROVE  ClientInv'
<1>1. PulledInv'
  BY DEF Inv, ClientInv, PulledInv
<1> QED
  BY <1>1, KeepsClient

-----------------------------------------------------------------------------
(* Handshake and end                                                       *)

LEMMA SendInitInv ==
    ASSUME Inv, SendInit
    PROVE  Inv'
<1>1. TypeOK'
  BY DEF Inv, TypeOK, SendInit, queueVars, cryptVars, historyVars
<1>2. ClientInv'
  <2>1. /\ queueVars' = queueVars /\ lastPulled' = lastPulled /\ gkcrypt_remote' = gkcrypt_remote
        /\ delivered' = delivered /\ handed' = handed
    BY DEF SendInit, cryptVars, historyVars
  <2>2. /\ InHandshake' => InHandshake
        /\ Receiving' => Receiving
        /\ tpc' = "flush" => tpc = "flush"
    BY DEF SendInit, InHandshake, Receiving
  <2> QED
    BY <2>1, <2>2, KeepsAll
<1>3. AckedIsDelivered'
  BY DEF Inv, AckedIsDelivered, SendInit, historyVars
<1> QED
  BY <1>1, <1>2, <1>3 DEF Inv

LEMMA RecvInitAckInv ==
    ASSUME Inv, RecvInitAck
    PROVE  Inv'
<1>1. TypeOK'
  BY DEF Inv, TypeOK, RecvInitAck, queueVars, cryptVars, historyVars
<1>2. ClientInv'
  <2>1. /\ queueVars' = queueVars /\ lastPulled' = lastPulled /\ gkcrypt_remote' = gkcrypt_remote
        /\ delivered' = delivered /\ handed' = handed
    BY DEF RecvInitAck, cryptVars, historyVars
  <2>2. /\ InHandshake' => InHandshake
        /\ Receiving' => Receiving
        /\ tpc' = "flush" => tpc = "flush"
    BY DEF RecvInitAck, InHandshake, Receiving
  <2> QED
    BY <2>1, <2>2, KeepsAll
<1>3. AckedIsDelivered'
  BY DEF Inv, AckedIsDelivered, RecvInitAck, historyVars
<1> QED
  BY <1>1, <1>2, <1>3 DEF Inv

LEMMA EmptyQueueTypes ==
    ASSUME EmptyQueue
    PROVE  QueueTypes' /\ begin' = TagRemote /\ count' = 0
<1>1. [i \in Ring |-> [set |-> FALSE, user |-> NoElem]] \in [Ring -> RingEntry]
  BY DEF RingEntry
<1>2. slots' \in [Ring -> RingEntry] /\ begin' = TagRemote /\ count' = 0
  BY <1>1 DEF EmptyQueue, Ring
<1>3. TagRemote \in SeqNums /\ 0 \in 0 .. Size
  BY SizeFacts
<1> QED
  BY <1>2, <1>3 DEF QueueTypes

LEMMA RecvCookieAckInv ==
    ASSUME Inv, RecvCookieAck
    PROVE  Inv'
<1>1. TypeOK'
  BY EmptyQueueTypes
     DEF Inv, TypeOK, RecvCookieAck, historyVars, QueueTypes, Ring, RingEntry
<1>2. ClientInv'
  <2>1. delivered = <<>> /\ delivered' = <<>> /\ handed' = handed /\ gkcrypt_remote' = gkcrypt_remote
    BY DEF Inv, ClientInv, RecvCookieAck, historyVars, InHandshake
  <2>2. SeqAdd(TagRemote, 0) = TagRemote
    <3>1. 0 \in 0 .. SeqMod /\ TagRemote \in SeqNums
      BY SizeFacts
    <3> QED
      BY <3>1, SeqAddCases, SizeFacts DEF SeqNums
  <2>3. QueueInv'
    BY <2>1, <2>2, EmptyQueueTypes DEF RecvCookieAck, QueueInv, Placed
  <2>4. PulledInv' /\ ~InHandshake'
    BY DEF RecvCookieAck, PulledInv, InHandshake
  <2>5. KeysInv' /\ DeliveredInOrder'
    BY <2>1 DEF Inv, ClientInv, KeysInv, BangDelivered, DeliveredInOrder
  <2> QED
    BY <2>3, <2>4, <2>5 DEF ClientInv
<1>3. AckedIsDelivered'
  BY DEF Inv, AckedIsDelivered, RecvCookieAck, historyVars
<1> QED
  BY <1>1, <1>2, <1>3 DEF Inv

LEMMA RecvUnexpectedInv ==
    ASSUME Inv, RecvUnexpected
    PROVE  Inv'
<1>1. TypeOK'
  BY DEF Inv, TypeOK, RecvUnexpected, queueVars, cryptVars, historyVars
<1>2. ClientInv'
  <2>1. /\ queueVars' = queueVars /\ lastPulled' = lastPulled /\ gkcrypt_remote' = gkcrypt_remote
        /\ delivered' = delivered /\ handed' = handed
    BY DEF RecvUnexpected, cryptVars, historyVars
  <2>2. /\ InHandshake' => InHandshake
        /\ Receiving' => Receiving
        /\ tpc' = "flush" => tpc = "flush"
    BY DEF RecvUnexpected, InHandshake, Receiving
  <2> QED
    BY <2>1, <2>2, KeepsAll
<1>3. AckedIsDelivered'
  BY DEF Inv, AckedIsDelivered, RecvUnexpected, historyVars
<1> QED
  BY <1>1, <1>2, <1>3 DEF Inv

LEMMA ThreadLeavesInv ==
    ASSUME Inv, HandshakeTimeout \/ RecvCanceled \/ RecvFails \/ RecheckCrashes
    PROVE  Inv'
<1>1. /\ UNCHANGED <<queueVars, lastPulled, cryptVars, stop, historyVars, networkVars>>
      /\ tpc' \in {"beach", "fini", "crashed"}
  BY DEF HandshakeTimeout, RecvCanceled, RecvFails, RecheckCrashes
<1>2. TypeOK'
  BY <1>1 DEF Inv, TypeOK, queueVars, cryptVars, historyVars, networkVars
<1>3. ClientInv'
  <2>1. /\ queueVars' = queueVars /\ lastPulled' = lastPulled /\ gkcrypt_remote' = gkcrypt_remote
        /\ delivered' = delivered /\ handed' = handed
    BY <1>1 DEF cryptVars, historyVars
  <2>2. /\ InHandshake' => InHandshake
        /\ Receiving' => Receiving
        /\ tpc' = "flush" => tpc = "flush"
    BY <1>1 DEF InHandshake, Receiving
  <2> QED
    BY <2>1, <2>2, KeepsAll
<1>4. AckedIsDelivered'
  BY <1>1 DEF Inv, AckedIsDelivered, historyVars, networkVars
<1> QED
  BY <1>2, <1>3, <1>4 DEF Inv

LEMMA FiniInv ==
    ASSUME Inv, Fini
    PROVE  Inv'
<1>1. TypeOK'
  BY EmptyQueueTypes
     DEF Inv, TypeOK, Fini, cryptVars, historyVars, networkVars, QueueTypes, Ring, RingEntry
<1>2. ClientInv'
  <2>1. QueueInv' /\ PulledInv' /\ ~InHandshake'
    BY DEF Fini, QueueInv, Receiving, PulledInv, InHandshake
  <2>2. KeysInv' /\ DeliveredInOrder'
    BY DEF Inv, ClientInv, KeysInv, BangDelivered, DeliveredInOrder, Fini, cryptVars, historyVars
  <2> QED
    BY <2>1, <2>2 DEF ClientInv
<1>3. AckedIsDelivered'
  BY DEF Inv, AckedIsDelivered, Fini, historyVars, networkVars
<1> QED
  BY <1>1, <1>2, <1>3 DEF Inv

LEMMA BeachInv ==
    ASSUME Inv, Beach
    PROVE  Inv'
<1>1. TypeOK'
  BY DEF Inv, TypeOK, Beach, queueVars, cryptVars, historyVars
<1>2. ClientInv'
  <2>1. /\ queueVars' = queueVars /\ lastPulled' = lastPulled /\ gkcrypt_remote' = gkcrypt_remote
        /\ delivered' = delivered /\ handed' = handed
    BY DEF Beach, cryptVars, historyVars
  <2>2. /\ InHandshake' => InHandshake
        /\ Receiving' => Receiving
        /\ tpc' = "flush" => tpc = "flush"
    BY DEF Beach, InHandshake, Receiving
  <2> QED
    BY <2>1, <2>2, KeepsAll
<1>3. AckedIsDelivered'
  BY DEF Inv, AckedIsDelivered, Beach, historyVars
<1> QED
  BY <1>1, <1>2, <1>3 DEF Inv

-----------------------------------------------------------------------------
(* The loop                                                                *)

LEMMA LoopHeadInv ==
    ASSUME Inv, LoopHead
    PROVE  Inv'
<1>1. /\ postponed \in Seq(AVPackets) /\ handed \in Seq(AVPackets) /\ MaxPostponed \in Nat
      /\ gkcrypt_remote \in BOOLEAN /\ crypt_available \in BOOLEAN
  BY TakionAssumption DEF Inv, TypeOK
<1>2. /\ handed' \in Seq(AVPackets) /\ postponed' \in Seq(AVPackets)
      /\ Len(postponed') <= MaxPostponed /\ crypt_available' \in BOOLEAN
  <2>1. Recheck \in BOOLEAN
    BY DEF Recheck
  <2>2. crypt_available' \in BOOLEAN
    BY <1>1, <2>1 DEF LoopHead
  <2>3. handed \o postponed \in Seq(AVPackets)
    BY <1>1
  <2>4. CASE gkcrypt_remote
    <3>1. handed' = handed \o postponed /\ postponed' = <<>>
      BY <2>4 DEF LoopHead
    <3>2. <<>> \in Seq(AVPackets) /\ Len(<<>>) = 0
      OBVIOUS
    <3> QED
      BY <1>1, <2>2, <2>3, <3>1, <3>2
  <2>5. CASE ~gkcrypt_remote
    BY <1>1, <2>2, <2>5 DEF LoopHead, Inv, TypeOK
  <2> QED
    BY <2>4, <2>5
<1>3. TypeOK'
  BY <1>2 DEF Inv, TypeOK, LoopHead, queueVars, networkVars
<1>4. ClientInv'
  <2>1. QueueInv' /\ PulledInv' /\ ~InHandshake'
    BY DEF Inv, ClientInv, QueueInv, Placed, PulledInv, InHandshake, Receiving, LoopHead, queueVars
  <2>2. KeysInv'
    BY DEF Inv, ClientInv, KeysInv, BangDelivered, LoopHead
  <2>3. DeliveredInOrder'
    BY DEF Inv, ClientInv, DeliveredInOrder, LoopHead
  <2> QED
    BY <2>1, <2>2, <2>3 DEF ClientInv
<1>5. AckedIsDelivered'
  BY DEF Inv, AckedIsDelivered, LoopHead, networkVars
<1> QED
  BY <1>3, <1>4, <1>5 DEF Inv

LEMMA RecvDataInv ==
    ASSUME NEW n \in Messages, Inv, RecvData(n)
    PROVE  Inv'
<1> DEFINE k == Len(delivered)
<1>1. QueueTypes /\ k \in 0 .. MaxMessages
  BY TypedQueue, DeliveredLength DEF Inv, ClientInv, TypeOK
<1>2. begin = SeqAdd(TagRemote, k) /\ Placed(k)
  BY DEF Inv, ClientInv, QueueInv, Receiving, RecvData
<1>3. delivered' = delivered /\ tpc' = "flush" /\ lastPulled' = NoSeq /\ Pushed(n)
  BY DEF RecvData, historyVars
<1>4. QueueTypes' /\ begin' = begin /\ Placed(k)'
  BY <1>1, <1>2, <1>3, PushedPlaces
<1>5. TypeOK'
  BY <1>3, <1>4
     DEF Inv, TypeOK, RecvData, cryptVars, historyVars, QueueTypes, Ring, RingEntry
<1>6. ClientInv'
  <2>1. k' = k
    BY <1>3
  <2>2. QueueInv'
    BY <1>2, <1>3, <1>4, <2>1 DEF QueueInv, Placed
  <2>3. PulledInv' /\ ~InHandshake'
    BY <1>3 DEF PulledInv, InHandshake
  <2>4. KeysInv' /\ DeliveredInOrder'
    BY DEF Inv, ClientInv, KeysInv, BangDelivered, DeliveredInOrder, RecvData, cryptVars, historyVars
  <2> QED
    BY <2>2, <2>3, <2>4 DEF ClientInv
<1>7. AckedIsDelivered'
  BY <1>3 DEF Inv, AckedIsDelivered, RecvData
<1> QED
  BY <1>5, <1>6, <1>7 DEF Inv

LEMMA FlushPullInv ==
    ASSUME Inv, FlushPull
    PROVE  Inv'
<1> DEFINE k == Len(delivered)
           n == Q!At(0).user
<1>1. /\ QueueTypes /\ k \in 0 .. MaxMessages /\ count > 0 /\ tpc = "flush" /\ tpc' = "flush"
      /\ delivered \in Seq(Messages)
  BY TypedQueue, DeliveredLength DEF Inv, ClientInv, TypeOK, FlushPull
<1>2. begin = SeqAdd(TagRemote, k) /\ Placed(k) /\ k \in Nat
  BY <1>1 DEF Inv, ClientInv, QueueInv, Receiving
<1>3. n = k + 1 /\ n \in Messages
  <2>1. n = slots[SlotOf(begin, 0)].user /\ slots[SlotOf(begin, 0)].set
    BY SameAt DEF FlushPull
  <2>2. 0 \in 0 .. count - 1 /\ 0 \in Ring
    BY <1>1, SizeFacts DEF QueueTypes, Ring
  <2>3. n = k + 0 + 1
    BY <1>2, <2>1, <2>2 DEF Placed
  <2>4. slots[SlotOf(begin, 0)] \in RingEntry
    BY <1>1, <2>2, SlotType DEF QueueTypes
  <2> QED
    BY <1>2, <2>1, <2>3, <2>4 DEF RingEntry, NoElem
<1>4. /\ delivered' = Append(delivered, n) /\ lastPulled' = begin
      /\ begin' = SeqAdd(begin, 1) /\ count' = count - 1 /\ slots' = slots
      /\ gkcrypt_remote' = (gkcrypt_remote \/ (EnableCrypt /\ n = Bang))
  BY DEF FlushPull
<1>5. /\ delivered' \in Seq(Messages) /\ Len(delivered') = k + 1
      /\ \A i \in 1 .. k : delivered'[i] = delivered[i]
      /\ delivered'[k + 1] = n
  BY <1>1, <1>3, <1>4
<1> HIDE DEF n
<1>6. begin' = SeqAdd(TagRemote, k + 1) /\ begin' \in SeqNums
  <2>1. k + 1 <= SeqMod /\ 1 \in Nat /\ k + 1 \in 0 .. SeqMod
    BY <1>1, SizeFacts
  <2> QED
    BY <1>2, <1>4, <2>1, SeqAddAssoc, SeqAddCases, SizeFacts
<1>7. TypeOK'
  <2>1. count' \in 0 .. Size
    BY <1>1, <1>4, SizeFacts DEF QueueTypes
  <2>2. gkcrypt_remote' \in BOOLEAN
    BY <1>4
  <2>3. lastPulled' \in SeqNums
    BY <1>1, <1>4 DEF QueueTypes
  <2>4. slots' \in [0 .. Size - 1 -> [set : BOOLEAN, user : Messages \cup {NoElem}]]
    BY <1>4 DEF Inv, TypeOK
  <2> QED
    BY <1>5, <1>6, <2>1, <2>2, <2>3, <2>4 DEF Inv, TypeOK, FlushPull, networkVars
<1>8. \A i \in 0 .. count' - 1 :
         slots'[SlotOf(begin', i)].set => slots'[SlotOf(begin', i)].user = (k + 1) + i + 1
  <2>1. SUFFICES ASSUME NEW i \in 0 .. count' - 1, slots'[SlotOf(begin', i)].set
                 PROVE  slots'[SlotOf(begin', i)].user = (k + 1) + i + 1
    OBVIOUS
  <2>2. i + 1 \in 0 .. count - 1 /\ i \in Nat /\ 1 + i <= SeqMod /\ i + 1 = 1 + i
    BY <1>1, <1>4, SizeFacts DEF QueueTypes
  <2>3. SeqAdd(begin', i) = SeqAdd(begin, 1 + i)
    BY <1>1, <1>4, <2>2, SeqAddAssoc DEF QueueTypes
  <2>4. SlotOf(begin', i) = SlotOf(begin, i + 1)
    BY <2>2, <2>3 DEF SlotOf
  <2>5. slots[SlotOf(begin, i + 1)].user = k + (i + 1) + 1
    BY <1>2, <1>4, <2>1, <2>2, <2>4 DEF Placed
  <2> QED
    BY <1>2, <1>4, <2>2, <2>4, <2>5
<1>9. ClientInv'
  <2>1. QueueInv'
    BY <1>5, <1>6, <1>8 DEF QueueInv, Placed
  <2>2. PulledInv' /\ ~InHandshake'
    <3>1. Len(delivered') > 0 /\ Len(delivered') - 1 = k
      BY <1>2, <1>5
    <3> QED
      BY <1>1, <1>2, <1>4, <3>1 DEF PulledInv, InHandshake
  <2>3. KeysInv'
    <3>1. handed' = handed
      BY DEF FlushPull
    <3>2. BangDelivered => BangDelivered'
      BY <1>2, <1>5 DEF BangDelivered
    <3>3. n = Bang => BangDelivered'
      BY <1>2, <1>5 DEF BangDelivered
    <3> QED
      BY <1>4, <3>1, <3>2, <3>3 DEF Inv, ClientInv, KeysInv
  <2>4. DeliveredInOrder'
    <3>1. \A i \in 1 .. k : delivered[i] = i
      BY DEF Inv, ClientInv, DeliveredInOrder
    <3>2. \A i \in 1 .. k + 1 : delivered'[i] = i
      BY <1>2, <1>3, <1>5, <3>1
    <3>3. delivered' = [i \in 1 .. k + 1 |-> delivered'[i]]
      BY <1>5
    <3> QED
      BY <1>5, <3>2, <3>3 DEF DeliveredInOrder
  <2> QED
    BY <2>1, <2>2, <2>3, <2>4 DEF ClientInv
<1>10. AckedIsDelivered'
  <2>1. consoleAcked <= k /\ ackOnWay <= k /\ consoleAcked \in Int /\ ackOnWay \in Int
    BY SizeFacts DEF Inv, TypeOK, AckedIsDelivered
  <2>2. consoleAcked' = consoleAcked /\ ackOnWay' = ackOnWay
    BY DEF FlushPull, networkVars
  <2> QED
    BY <1>2, <1>5, <2>1, <2>2 DEF AckedIsDelivered
<1> QED
  BY <1>7, <1>9, <1>10 DEF Inv

LEMMA FlushEndsInv ==
    ASSUME Inv, FlushEnds
    PROVE  Inv'
<1> DEFINE k == Len(delivered)
<1>1. k \in 0 .. MaxMessages /\ delivered' = delivered /\ consoleAcked' = consoleAcked
  BY DeliveredLength DEF Inv, ClientInv, TypeOK, FlushEnds, historyVars
<1>2. ackOnWay' \in 0 .. MaxMessages /\ ackOnWay' <= k
  <2>1. ackOnWay \in 0 .. MaxMessages /\ ackOnWay <= k
    BY DEF Inv, TypeOK, AckedIsDelivered
  <2>2. CASE lastPulled = NoSeq
    BY <2>1, <2>2 DEF FlushEnds
  <2>3. CASE lastPulled # NoSeq
    <3>1. k > 0 /\ lastPulled = SeqAdd(TagRemote, k - 1)
      BY <2>3 DEF Inv, ClientInv, PulledInv, FlushEnds
    <3>2. k - 1 \in 0 .. SeqMod - 1
      BY <1>1, <3>1, SizeFacts
    <3>3. SeqDist(TagRemote, lastPulled) = k - 1
      BY <3>1, <3>2, SeqDistAdd, SizeFacts
    <3>4. AckSent(lastPulled)
      BY <2>3 DEF FlushEnds
    <3>5. ackOnWay' = IF k > ackOnWay THEN k ELSE ackOnWay
      <4>1. SeqDist(TagRemote, lastPulled) + 1 = k
        BY <1>1, <3>3
      <4> QED
        BY <3>4, <4>1 DEF AckSent
    <3> QED
      BY <1>1, <2>1, <3>5
  <2> QED
    BY <2>2, <2>3
<1>3. TypeOK'
  BY <1>2 DEF Inv, TypeOK, FlushEnds, queueVars, cryptVars, historyVars
<1>4. ClientInv'
  <2>1. /\ queueVars' = queueVars /\ lastPulled' = lastPulled /\ gkcrypt_remote' = gkcrypt_remote
        /\ delivered' = delivered /\ handed' = handed
    BY DEF FlushEnds, historyVars, cryptVars
  <2>2. /\ InHandshake' => InHandshake
        /\ Receiving' => Receiving
        /\ tpc' = "flush" => tpc = "flush"
    BY DEF FlushEnds, InHandshake, Receiving
  <2> QED
    BY <2>1, <2>2, KeepsAll
<1>5. AckedIsDelivered'
  BY <1>1, <1>2 DEF Inv, AckedIsDelivered
<1> QED
  BY <1>3, <1>4, <1>5 DEF Inv

LEMMA RecvAVInv ==
    ASSUME NEW n \in AVPackets, Inv, RecvAV(n)
    PROVE  Inv'
<1>1. /\ postponed \in Seq(AVPackets) /\ handed \in Seq(AVPackets) /\ arrived \in Seq(AVPackets)
      /\ Len(postponed) <= MaxPostponed /\ refused \subseteq AVPackets /\ MaxPostponed \in Nat
  BY TakionAssumption DEF Inv, TypeOK
<1>2. /\ handed' \in Seq(AVPackets) /\ arrived' \in Seq(AVPackets) /\ postponed' \in Seq(AVPackets)
      /\ Len(postponed') <= MaxPostponed /\ refused' \subseteq AVPackets
  <2>1. arrived' \in Seq(AVPackets)
    BY <1>1 DEF RecvAV
  <2>2. CASE EnableCrypt /\ ~gkcrypt_remote
    <3>1. handed' = handed /\ Postpone(n)
      BY <2>2 DEF RecvAV
    <3>2. CASE Len(postponed) < MaxPostponed
      <4>1. postponed' = Append(postponed, n) /\ refused' = refused
        BY <3>1, <3>2 DEF Postpone
      <4>2. postponed' \in Seq(AVPackets) /\ Len(postponed') = Len(postponed) + 1
        BY <1>1, <4>1
      <4> QED
        BY <1>1, <2>1, <3>1, <3>2, <4>1, <4>2
    <3>3. CASE ~(Len(postponed) < MaxPostponed)
      BY <1>1, <2>1, <3>1, <3>3 DEF Postpone
    <3> QED
      BY <3>2, <3>3
  <2>3. CASE ~(EnableCrypt /\ ~gkcrypt_remote)
    <3>1. handed' = Append(handed, n) /\ postponed' = postponed /\ refused' = refused
      BY <2>3 DEF RecvAV
    <3>2. Append(handed, n) \in Seq(AVPackets)
      BY <1>1
    <3> QED
      BY <1>1, <2>1, <3>1, <3>2
  <2> QED
    BY <2>2, <2>3
<1>3. TypeOK'
  BY <1>2 DEF Inv, TypeOK, RecvAV, queueVars
<1>4. ClientInv'
  <2>1. QueueInv' /\ PulledInv' /\ ~InHandshake'
    BY DEF Inv, ClientInv, QueueInv, Placed, PulledInv, InHandshake, Receiving, RecvAV, queueVars
  <2>2. KeysInv'
    BY DEF Inv, ClientInv, KeysInv, BangDelivered, RecvAV
  <2>3. DeliveredInOrder'
    BY DEF Inv, ClientInv, DeliveredInOrder, RecvAV
  <2> QED
    BY <2>1, <2>2, <2>3 DEF ClientInv
<1>5. AckedIsDelivered'
  BY DEF Inv, AckedIsDelivered, RecvAV
<1> QED
  BY <1>3, <1>4, <1>5 DEF Inv

LEMMA RecvOtherInv ==
    ASSUME Inv, RecvOther
    PROVE  Inv'
<1>1. TypeOK'
  BY DEF Inv, TypeOK, RecvOther, queueVars, cryptVars, historyVars, networkVars
<1>2. ClientInv'
  <2>1. /\ queueVars' = queueVars /\ lastPulled' = lastPulled /\ gkcrypt_remote' = gkcrypt_remote
        /\ delivered' = delivered /\ handed' = handed
    BY DEF RecvOther, historyVars, cryptVars
  <2>2. /\ InHandshake' => InHandshake
        /\ Receiving' => Receiving
        /\ tpc' = "flush" => tpc = "flush"
    BY DEF RecvOther, InHandshake, Receiving
  <2> QED
    BY <2>1, <2>2, KeepsAll
<1>3. AckedIsDelivered'
  BY DEF Inv, AckedIsDelivered, RecvOther, historyVars, cryptVars, networkVars
<1> QED
  BY <1>1, <1>2, <1>3 DEF Inv

-----------------------------------------------------------------------------
(* The console and the network                                             *)

Datagrams ==
    {InitAck, CookieAck} \cup {Data(n) : n \in Messages} \cup {AV(n) : n \in AVPackets}

LEMMA NetworkType ==
    ASSUME Inv, clientVars' = clientVars,
           net' \subseteq Datagrams, toConsole' \subseteq {"init", "cookie"},
           ackOnWay' \in 0 .. MaxMessages, avSent' \in 0 .. MaxAV,
           consoleSent' \in 0 .. MaxMessages, consoleAcked' \in 0 .. MaxMessages
    PROVE  TypeOK'
  BY DEF Inv, TypeOK, clientVars, queueVars, cryptVars, historyVars, Datagrams

LEMMA NetworkTypes ==
    ASSUME Inv
    PROVE  /\ net \subseteq Datagrams /\ toConsole \subseteq {"init", "cookie"}
           /\ ackOnWay \in 0 .. MaxMessages /\ avSent \in 0 .. MaxAV
           /\ consoleSent \in 0 .. MaxMessages /\ consoleAcked \in 0 .. MaxMessages
  BY DEF Inv, TypeOK, Datagrams

LEMMA CloseInv ==
    ASSUME Inv, Close
    PROVE  Inv'
<1>1. TypeOK'
  BY DEF Inv, TypeOK, Close, queueVars, cryptVars, historyVars, networkVars
<1>2. ClientInv'
  <2>1. /\ queueVars' = queueVars /\ lastPulled' = lastPulled /\ gkcrypt_remote' = gkcrypt_remote
        /\ delivered' = delivered /\ handed' = handed
    BY DEF Close, historyVars, cryptVars
  <2>2. /\ InHandshake' => InHandshake
        /\ Receiving' => Receiving
        /\ tpc' = "flush" => tpc = "flush"
    BY DEF Close, InHandshake, Receiving
  <2> QED
    BY <2>1, <2>2, KeepsAll
<1>3. AckedIsDelivered'
  BY DEF Inv, AckedIsDelivered, Close, historyVars, cryptVars, networkVars
<1> QED
  BY <1>1, <1>2, <1>3 DEF Inv

LEMMA ConsoleAnswersInv ==
    ASSUME Inv, ConsoleAnswers
    PROVE  Inv'
<1>1. TypeOK'
  BY DEF Inv, TypeOK, ConsoleAnswers, clientVars, queueVars, cryptVars, historyVars, networkVars
<1>2. ClientInv'
  <2>1. /\ queueVars' = queueVars /\ lastPulled' = lastPulled /\ gkcrypt_remote' = gkcrypt_remote
        /\ delivered' = delivered /\ handed' = handed
    BY DEF ConsoleAnswers, clientVars, historyVars, cryptVars
  <2>2. /\ InHandshake' => InHandshake
        /\ Receiving' => Receiving
        /\ tpc' = "flush" => tpc = "flush"
    BY DEF ConsoleAnswers, clientVars, InHandshake, Receiving
  <2> QED
    BY <2>1, <2>2, KeepsAll
<1>3. AckedIsDelivered'
  BY DEF Inv, AckedIsDelivered, ConsoleAnswers, clientVars, historyVars, cryptVars, networkVars
<1> QED
  BY <1>1, <1>2, <1>3 DEF Inv

LEMMA ConsoleSendsInv ==
    ASSUME NEW n \in Messages, Inv, ConsoleSends(n)
    PROVE  Inv'
<1>1. TypeOK'
  <2>1. clientVars' = clientVars /\ toConsole' = toConsole /\ ackOnWay' = ackOnWay
        /\ consoleAcked' = consoleAcked /\ avSent' = avSent
    BY DEF ConsoleSends
  <2>2. net' \subseteq Datagrams
    BY NetworkTypes DEF ConsoleSends, Datagrams
  <2>3. consoleSent' \in 0 .. MaxMessages
    BY NetworkTypes DEF ConsoleSends, MaxOf, Messages
  <2> QED
    BY <2>1, <2>2, <2>3, NetworkType, NetworkTypes
<1>2. ClientInv'
  <2>1. /\ queueVars' = queueVars /\ lastPulled' = lastPulled /\ gkcrypt_remote' = gkcrypt_remote
        /\ delivered' = delivered /\ handed' = handed
    BY DEF ConsoleSends, clientVars, historyVars, cryptVars
  <2>2. /\ InHandshake' => InHandshake
        /\ Receiving' => Receiving
        /\ tpc' = "flush" => tpc = "flush"
    BY DEF ConsoleSends, clientVars, InHandshake, Receiving
  <2> QED
    BY <2>1, <2>2, KeepsAll
<1>3. AckedIsDelivered'
  BY DEF Inv, AckedIsDelivered, ConsoleSends, clientVars, historyVars, cryptVars, networkVars
<1> QED
  BY <1>1, <1>2, <1>3 DEF Inv

LEMMA ConsoleSendsAVInv ==
    ASSUME NEW n \in AVPackets, Inv, ConsoleSendsAV(n)
    PROVE  Inv'
<1>1. TypeOK'
  <2>1. clientVars' = clientVars /\ toConsole' = toConsole /\ ackOnWay' = ackOnWay
        /\ consoleAcked' = consoleAcked /\ consoleSent' = consoleSent
    BY DEF ConsoleSendsAV
  <2>2. net' \subseteq Datagrams
    BY NetworkTypes DEF ConsoleSendsAV, Datagrams
  <2>3. avSent' \in 0 .. MaxAV
    BY TakionAssumption DEF ConsoleSendsAV, AVPackets
  <2> QED
    BY <2>1, <2>2, <2>3, NetworkType, NetworkTypes
<1>2. ClientInv'
  <2>1. /\ queueVars' = queueVars /\ lastPulled' = lastPulled /\ gkcrypt_remote' = gkcrypt_remote
        /\ delivered' = delivered /\ handed' = handed
    BY DEF ConsoleSendsAV, clientVars, historyVars, cryptVars
  <2>2. /\ InHandshake' => InHandshake
        /\ Receiving' => Receiving
        /\ tpc' = "flush" => tpc = "flush"
    BY DEF ConsoleSendsAV, clientVars, InHandshake, Receiving
  <2> QED
    BY <2>1, <2>2, KeepsAll
<1>3. AckedIsDelivered'
  BY DEF Inv, AckedIsDelivered, ConsoleSendsAV, clientVars, historyVars, cryptVars, networkVars
<1> QED
  BY <1>1, <1>2, <1>3 DEF Inv

LEMMA ConsoleGetsAckInv ==
    ASSUME Inv, ConsoleGetsAck
    PROVE  Inv'
<1>1. TypeOK'
  <2>1. clientVars' = clientVars /\ toConsole' = toConsole /\ net' = net
        /\ consoleSent' = consoleSent /\ avSent' = avSent
    BY DEF ConsoleGetsAck
  <2>2. consoleAcked' \in 0 .. MaxMessages /\ ackOnWay' \in 0 .. MaxMessages
    BY NetworkTypes, SizeFacts DEF ConsoleGetsAck, MaxOf
  <2> QED
    BY <2>1, <2>2, NetworkType, NetworkTypes
<1>2. ClientInv'
  <2>1. /\ queueVars' = queueVars /\ lastPulled' = lastPulled /\ gkcrypt_remote' = gkcrypt_remote
        /\ delivered' = delivered /\ handed' = handed
    BY DEF ConsoleGetsAck, clientVars, historyVars, cryptVars
  <2>2. /\ InHandshake' => InHandshake
        /\ Receiving' => Receiving
        /\ tpc' = "flush" => tpc = "flush"
    BY DEF ConsoleGetsAck, clientVars, InHandshake, Receiving
  <2> QED
    BY <2>1, <2>2, KeepsAll
<1>3. AckedIsDelivered'
  <2>1. delivered' = delivered
    BY DEF ConsoleGetsAck, clientVars, historyVars
  <2>2. consoleAcked <= Len(delivered) /\ ackOnWay <= Len(delivered) /\ 0 <= Len(delivered)
    BY NetworkTypes DEF Inv, TypeOK, AckedIsDelivered
  <2>3. consoleAcked' <= Len(delivered) /\ ackOnWay' <= Len(delivered)
    BY <2>2 DEF ConsoleGetsAck, MaxOf
  <2> QED
    BY <2>1, <2>3 DEF AckedIsDelivered
<1> QED
  BY <1>1, <1>2, <1>3 DEF Inv

LEMMA LoseInv ==
    ASSUME Inv, Lose
    PROVE  Inv'
<1>1. TypeOK'
  <2>1. clientVars' = clientVars /\ consoleSent' = consoleSent /\ avSent' = avSent
        /\ consoleAcked' = consoleAcked
    BY DEF Lose
  <2>2. net' \subseteq net /\ toConsole' \subseteq toConsole
    BY DEF Lose
  <2>3. ackOnWay' \in 0 .. MaxMessages
    BY NetworkTypes, SizeFacts DEF Lose
  <2> QED
    BY <2>1, <2>2, <2>3, NetworkType, NetworkTypes
<1>2. ClientInv'
  <2>1. /\ queueVars' = queueVars /\ lastPulled' = lastPulled /\ gkcrypt_remote' = gkcrypt_remote
        /\ delivered' = delivered /\ handed' = handed
    BY DEF Lose, clientVars, historyVars, cryptVars
  <2>2. /\ InHandshake' => InHandshake
        /\ Receiving' => Receiving
        /\ tpc' = "flush" => tpc = "flush"
    BY DEF Lose, clientVars, InHandshake, Receiving
  <2> QED
    BY <2>1, <2>2, KeepsAll
<1>3. AckedIsDelivered'
  BY DEF Inv, AckedIsDelivered, Lose, clientVars, historyVars, cryptVars, networkVars
<1> QED
  BY <1>1, <1>2, <1>3 DEF Inv

-----------------------------------------------------------------------------
(* The theorems                                                            *)

LEMMA NextInv == Inv /\ [Next]_vars => Inv'
<1> SUFFICES ASSUME Inv, [Next]_vars PROVE Inv'
  OBVIOUS
<1>1. CASE Handshake
  BY <1>1, SendInitInv, RecvInitAckInv, RecvCookieAckInv, RecvUnexpectedInv DEF Handshake
<1>2. CASE HandshakeTimeout \/ RecvCanceled \/ RecvFails
  BY <1>2, ThreadLeavesInv
<1>3. CASE Loop
  BY <1>3, ThreadLeavesInv, LoopHeadInv, FlushPullInv, FlushEndsInv, RecvOtherInv, RecvDataInv,
     RecvAVInv DEF Loop
<1>4. CASE Fini \/ Beach \/ Close
  BY <1>4, FiniInv, BeachInv, CloseInv
<1>5. CASE Console
  BY <1>5, ConsoleAnswersInv, ConsoleGetsAckInv, ConsoleSendsInv, ConsoleSendsAVInv DEF Console
<1>6. CASE Lose
  BY <1>6, LoseInv
<1>7. CASE UNCHANGED vars
  <2>1. TypeOK'
    BY <1>7 DEF Inv, TypeOK, vars, queueVars, cryptVars, historyVars, networkVars
  <2>2. ClientInv'
    BY <1>7, KeepsAll DEF vars, queueVars, cryptVars, historyVars, InHandshake, Receiving
  <2>3. AckedIsDelivered'
    BY <1>7 DEF Inv, AckedIsDelivered, vars, historyVars, networkVars
  <2> QED
    BY <2>1, <2>2, <2>3 DEF Inv
<1> QED
  BY <1>1, <1>2, <1>3, <1>4, <1>5, <1>6, <1>7 DEF Next

LEMMA TakionInvariant == Spec => []Inv
  BY InitInv, NextInv, PTL DEF Spec

(* The Takion thread's variables keep their types: the window is never     *)
(* longer than the ring (chiaki_reorder_queue_push) and no more packets    *)
(* are postponed than there are slots (takion_postpone_packet).            *)
THEOREM TakionTypeCorrect == Spec => []TypeOK
<1>1. Inv => TypeOK
  BY DEF Inv
<1> QED
  BY <1>1, TakionInvariant, PTL

(* takion_flush_data_queue gives the callback the console's messages in    *)
(* their order, each once, whatever is lost, repeated or reordered.        *)
THEOREM MessagesInOrder == Spec => []DeliveredInOrder
<1>1. Inv => DeliveredInOrder
  BY DEF Inv, ClientInv
<1> QED
  BY <1>1, TakionInvariant, PTL

(* chiaki_takion_send_message_data_ack acknowledges only messages that the *)
(* callback has got.                                                       *)
THEOREM OnlyDeliveredAcked == Spec => []AckedIsDelivered
<1>1. Inv => AckedIsDelivered
  BY DEF Inv
<1> QED
  BY <1>1, TakionInvariant, PTL

(* With encryption takion_handle_packet gives the callback no AV packet    *)
(* before it got the BANG message, which brings the keys.                  *)
THEOREM KeysComeFirst == Spec => []KeysBeforeAV
<1>1. Inv => KeysBeforeAV
  BY DEF Inv, ClientInv, KeysInv, BangDelivered, KeysBeforeAV
<1> QED
  BY <1>1, TakionInvariant, PTL
-----------------------------------------------------------------------------
(* Audio and video packets                                                 *)

Kept == handed \o postponed

(* A packet on its way was sent, and has not arrived before. *)
Fresh ==
    \A n \in AVPackets :
        AV(n) \in net => n <= avSent /\ \A p \in 1 .. Len(arrived) : arrived[p] # n

ArrivedOnce ==
    /\ \A p \in 1 .. Len(arrived) : arrived[p] <= avSent
    /\ \A n \in refused : \E p \in 1 .. Len(arrived) : arrived[p] = n

(* Packets are postponed before there are keys, and between the arrival of *)
(* the keys and the head of the loop, where none is received.              *)
PostponedInv ==
    /\ tpc = "recv" /\ gkcrypt_remote => postponed = <<>>
    /\ ~EnableCrypt => postponed = <<>>

AVInv ==
    /\ IsWithout(Kept, arrived, refused)
    /\ Len(Kept) <= Len(arrived)
    /\ refused # {} => Len(arrived) > MaxPostponed
    /\ Fresh
    /\ ArrivedOnce
    /\ PostponedInv

(* An element outside R comes at the end of both. *)
LEMMA WithoutGrows ==
    ASSUME NEW S, NEW s \in Seq(S), NEW t \in Seq(S), NEW R, NEW x \in S, IsWithout(s, t, R),
           x \notin R
    PROVE  IsWithout(Append(s, x), Append(t, x), R)
<1> DEFINE s2 == Append(s, x)
           t2 == Append(t, x)
           n == Len(s)
           m == Len(t)
<1>1. /\ n \in Nat /\ m \in Nat /\ Len(s2) = n + 1 /\ Len(t2) = m + 1
      /\ \A i \in 1 .. n : s2[i] = s[i]
      /\ \A i \in 1 .. m : t2[i] = t[i]
      /\ s2[n + 1] = x /\ t2[m + 1] = x
  OBVIOUS
<1>2. PICK f \in [1 .. n -> 1 .. m] :
        /\ \A i, j \in 1 .. n : i < j => f[i] < f[j]
        /\ \A i \in 1 .. n : s[i] = t[f[i]]
        /\ \A p \in 1 .. m : t[p] \notin R <=> \E i \in 1 .. n : f[i] = p
  BY DEF IsWithout
<1> DEFINE g == [i \in 1 .. n + 1 |-> IF i = n + 1 THEN m + 1 ELSE f[i]]
<1> HIDE DEF s2, t2, n, m
<1>3. \A i \in 1 .. n : g[i] = f[i] /\ g[i] \in 1 .. m
  BY <1>1, <1>2
<1>4. g \in [1 .. n + 1 -> 1 .. m + 1] /\ g[n + 1] = m + 1
  BY <1>1, <1>2
<1>5. \A i \in 1 .. n + 1 : i = n + 1 \/ i \in 1 .. n
  BY <1>1
<1>6. \A p \in 1 .. m + 1 : p = m + 1 \/ p \in 1 .. m
  BY <1>1
<1> HIDE DEF g
<1>7. ASSUME NEW i \in 1 .. n + 1, NEW j \in 1 .. n + 1, i < j PROVE g[i] < g[j]
  <2>1. i \in 1 .. n
    BY <1>1, <1>7
  <2>2. CASE j = n + 1
    BY <1>1, <1>3, <1>4, <2>1, <2>2
  <2>3. CASE j \in 1 .. n
    BY <1>2, <1>3, <1>7, <2>1, <2>3
  <2> QED
    BY <1>5, <2>2, <2>3
<1>8. ASSUME NEW i \in 1 .. n + 1 PROVE s2[i] = t2[g[i]]
  <2>1. CASE i = n + 1
    BY <1>1, <1>4, <2>1
  <2>2. CASE i \in 1 .. n
    <3>1. s2[i] = s[i] /\ s[i] = t[f[i]] /\ g[i] = f[i] /\ f[i] \in 1 .. m
      BY <1>1, <1>2, <1>3, <2>2
    <3> QED
      BY <1>1, <3>1
  <2> QED
    BY <1>5, <2>1, <2>2
<1>9. ASSUME NEW p \in 1 .. m + 1
      PROVE  t2[p] \notin R <=> \E i \in 1 .. n + 1 : g[i] = p
  <2>1. CASE p = m + 1
    BY <1>1, <1>4, <2>1
  <2>2. CASE p \in 1 .. m
    <3>1. (\E i \in 1 .. n + 1 : g[i] = p) <=> \E i \in 1 .. n : f[i] = p
      <4>1. p # m + 1
        BY <1>1, <2>2
      <4>2. \A i \in 1 .. n : i \in 1 .. n + 1
        BY <1>1
      <4> QED
        BY <1>3, <1>4, <1>5, <4>1, <4>2
    <3> QED
      BY <1>1, <1>2, <2>2, <3>1
  <2> QED
    BY <1>6, <2>1, <2>2
<1>10. IsWithout(s2, t2, R)
  <2>1. 1 .. Len(s2) = 1 .. n + 1 /\ 1 .. Len(t2) = 1 .. m + 1
    BY <1>1
  <2>2. g \in [1 .. Len(s2) -> 1 .. Len(t2)]
    BY <1>4, <2>1
  <2>3. /\ \A i, j \in 1 .. Len(s2) : i < j => g[i] < g[j]
        /\ \A i \in 1 .. Len(s2) : s2[i] = t2[g[i]]
        /\ \A p \in 1 .. Len(t2) : t2[p] \notin R <=> \E i \in 1 .. Len(s2) : g[i] = p
    BY <1>7, <1>8, <1>9, <2>1
  <2> QED
    BY <2>2, <2>3, Zenon DEF IsWithout
<1> QED
  BY <1>10 DEF s2, t2

(* An element that was not there before is taken away as it comes. *)
LEMMA WithoutRefused ==
    ASSUME NEW S, NEW s \in Seq(S), NEW t \in Seq(S), NEW R, NEW x \in S, IsWithout(s, t, R),
           \A p \in 1 .. Len(t) : t[p] # x
    PROVE  IsWithout(s, Append(t, x), R \cup {x})
<1> DEFINE t2 == Append(t, x)
           n == Len(s)
           m == Len(t)
<1>1. /\ n \in Nat /\ m \in Nat /\ Len(t2) = m + 1
      /\ \A i \in 1 .. m : t2[i] = t[i]
      /\ t2[m + 1] = x
  OBVIOUS
<1>2. PICK f \in [1 .. n -> 1 .. m] :
        /\ \A i, j \in 1 .. n : i < j => f[i] < f[j]
        /\ \A i \in 1 .. n : s[i] = t[f[i]]
        /\ \A p \in 1 .. m : t[p] \notin R <=> \E i \in 1 .. n : f[i] = p
  BY DEF IsWithout
<1> HIDE DEF t2, n
<1>3. f \in [1 .. n -> 1 .. m + 1] /\ \A i \in 1 .. n : f[i] \in 1 .. m
  BY <1>1, <1>2
<1>4. \A i \in 1 .. n : s[i] = t2[f[i]]
  BY <1>1, <1>2, <1>3
<1>5. ASSUME NEW p \in 1 .. m + 1
      PROVE  t2[p] \notin R \cup {x} <=> \E i \in 1 .. n : f[i] = p
  <2>1. CASE p = m + 1
    <3>1. p \notin 1 .. m
      BY <1>1, <2>1
    <3> QED
      BY <1>1, <1>3, <2>1, <3>1
  <2>2. CASE p \in 1 .. m
    BY <1>1, <1>2, <2>2
  <2> QED
    BY <1>1, <2>1, <2>2
<1>6. IsWithout(s, t2, R \cup {x})
  <2>1. 1 .. Len(s) = 1 .. n /\ 1 .. Len(t2) = 1 .. m + 1
    BY <1>1 DEF n
  <2>2. f \in [1 .. Len(s) -> 1 .. Len(t2)]
    BY <1>3, <2>1
  <2>3. /\ \A i, j \in 1 .. Len(s) : i < j => f[i] < f[j]
        /\ \A i \in 1 .. Len(s) : s[i] = t2[f[i]]
        /\ \A p \in 1 .. Len(t2) : t2[p] \notin R \cup {x} <=> \E i \in 1 .. Len(s) : f[i] = p
    BY <1>2, <1>4, <1>5, <2>1
  <2> QED
    BY <2>2, <2>3, Zenon DEF IsWithout
<1> QED
  BY <1>6 DEF t2

LEMMA AVTypes ==
    ASSUME Inv
    PROVE  /\ handed \in Seq(AVPackets) /\ postponed \in Seq(AVPackets)
           /\ arrived \in Seq(AVPackets) /\ Kept \in Seq(AVPackets)
           /\ Len(handed) \in Nat /\ Len(postponed) \in Nat /\ Len(arrived) \in Nat
           /\ Len(Kept) = Len(handed) + Len(postponed)
           /\ avSent \in Nat /\ MaxPostponed \in Nat /\ refused \subseteq AVPackets
<1>1. /\ handed \in Seq(AVPackets) /\ postponed \in Seq(AVPackets) /\ arrived \in Seq(AVPackets)
      /\ avSent \in Nat /\ MaxPostponed \in Nat /\ refused \subseteq AVPackets
  BY TakionAssumption DEF Inv, TypeOK
<1>2. Kept \in Seq(AVPackets) /\ Len(Kept) = Len(handed) + Len(postponed)
  BY <1>1, ConcatProperties DEF Kept
<1> QED
  BY <1>1, <1>2

(* An Append to the second part is one to the whole. *)
LEMMA ConcatAppends ==
    ASSUME NEW S, NEW s \in Seq(S), NEW t \in Seq(S), NEW x \in S
    PROVE  s \o Append(t, x) = Append(s \o t, x)
<1> DEFINE a == s \o t
           b == Append(t, x)
           u == s \o b
           v == Append(a, x)
<1>1. /\ b \in Seq(S) /\ Len(b) = Len(t) + 1 /\ Len(t) \in Nat /\ Len(s) \in Nat
      /\ b[Len(t) + 1] = x
      /\ \A i \in 1 .. Len(t) : b[i] = t[i]
  OBVIOUS
<1>2. /\ a \in Seq(S) /\ Len(a) = Len(s) + Len(t)
      /\ \A i \in 1 .. Len(s) : a[i] = s[i]
      /\ \A i \in 1 .. Len(t) : a[Len(s) + i] = t[i]
  BY ConcatProperties
<1> HIDE DEF a, b
<1>3. /\ u \in Seq(S) /\ Len(u) = Len(s) + Len(b)
      /\ \A i \in 1 .. Len(s) : u[i] = s[i]
      /\ \A i \in 1 .. Len(b) : u[Len(s) + i] = b[i]
  <2>1. b \in Seq(S)
    BY <1>1
  <2> QED
    BY <2>1, ConcatProperties
<1>4. /\ v \in Seq(S) /\ Len(v) = Len(a) + 1 /\ v[Len(a) + 1] = x
      /\ \A i \in 1 .. Len(a) : v[i] = a[i]
  BY <1>2
<1> HIDE DEF u, v
<1>5. ASSUME NEW i \in 1 .. Len(u) PROVE u[i] = v[i]
  <2>1. CASE i \in 1 .. Len(s)
    BY <1>1, <1>2, <1>3, <1>4, <2>1
  <2>2. CASE i = Len(s) + Len(t) + 1
    <3>1. Len(t) + 1 \in 1 .. Len(b) /\ i = Len(s) + (Len(t) + 1)
      BY <1>1, <2>2
    <3>2. u[i] = b[Len(t) + 1]
      BY <1>3, <3>1
    <3> QED
      BY <1>1, <1>2, <1>4, <2>2, <3>2
  <2>3. CASE i \notin 1 .. Len(s) /\ i # Len(s) + Len(t) + 1
    <3> DEFINE k == i - Len(s)
    <3>1. k \in 1 .. Len(t) /\ k \in 1 .. Len(b) /\ i = Len(s) + k /\ i \in 1 .. Len(a)
      <4>1. Len(u) = Len(s) + Len(t) + 1 /\ i \in Int /\ 1 <= i /\ i <= Len(u)
        BY <1>1, <1>3
      <4>2. Len(s) < i /\ i < Len(s) + Len(t) + 1
        <5>1. Len(s) \in Nat /\ Len(t) \in Nat
          BY <1>1
        <5> QED
          BY ONLY <2>3, <4>1, <5>1
      <4> QED
        BY <1>1, <1>2, <4>1, <4>2
    <3> HIDE DEF k
    <3>2. u[i] = b[k] /\ v[i] = a[i] /\ a[i] = t[k] /\ b[k] = t[k]
      BY <1>1, <1>2, <1>3, <1>4, <3>1
    <3> QED
      BY <3>2
  <2> QED
    BY <2>1, <2>2, <2>3
<1>6. Len(u) = Len(v)
  BY <1>1, <1>2, <1>3, <1>4
<1>7. u = v
  BY <1>3, <1>4, <1>5, <1>6, SeqEqual
<1> QED
  BY <1>7 DEF u, v, a, b

(* Steps that touch no AV packet but may lose some. *)
LEMMA KeepsAV ==
    ASSUME AVInv, UNCHANGED <<handed, postponed, arrived, refused, avSent>>,
           \A n \in AVPackets : AV(n) \in net' => AV(n) \in net,
           PostponedInv'
    PROVE  AVInv'
<1>1. Kept' = Kept
  BY DEF Kept
<1>2. Fresh' /\ ArrivedOnce'
  BY DEF AVInv, Fresh, ArrivedOnce
<1> QED
  BY <1>1, <1>2 DEF AVInv, IsWithout

LEMMA RecvAVKeeps ==
    ASSUME NEW n \in AVPackets, Inv, AVInv, RecvAV(n)
    PROVE  AVInv'
<1>1. /\ handed \in Seq(AVPackets) /\ postponed \in Seq(AVPackets)
      /\ arrived \in Seq(AVPackets) /\ Kept \in Seq(AVPackets)
      /\ Len(handed) \in Nat /\ Len(postponed) \in Nat /\ Len(arrived) \in Nat
      /\ Len(Kept) = Len(handed) + Len(postponed)
      /\ avSent \in Nat /\ MaxPostponed \in Nat /\ refused \subseteq AVPackets
  BY AVTypes
<1>2. /\ tpc = "recv" /\ AV(n) \in net /\ net' = net \ {AV(n)}
      /\ arrived' = Append(arrived, n) /\ tpc' = "loop" /\ avSent' = avSent
  BY DEF RecvAV
<1>3. /\ Len(arrived') = Len(arrived) + 1 /\ arrived'[Len(arrived) + 1] = n
      /\ \A p \in 1 .. Len(arrived) : arrived'[p] = arrived[p]
      /\ \A p \in 1 .. Len(arrived') : p = Len(arrived) + 1 \/ p \in 1 .. Len(arrived)
      /\ \A p \in 1 .. Len(arrived) : p \in 1 .. Len(arrived')
      /\ Len(arrived) + 1 \in 1 .. Len(arrived')
  BY <1>1, <1>2
<1>4. n <= avSent /\ \A p \in 1 .. Len(arrived) : arrived[p] # n
  BY <1>2 DEF AVInv, Fresh
<1>5. n \notin refused
  BY <1>4 DEF AVInv, ArrivedOnce
<1>6. Fresh'
  <2>1. ASSUME NEW k \in AVPackets, AV(k) \in net'
        PROVE  k <= avSent' /\ \A p \in 1 .. Len(arrived') : arrived'[p] # k
    <3>1. AV(k) \in net /\ k # n
      BY <1>2, <2>1
    <3> QED
      BY <1>2, <1>3, <3>1 DEF AVInv, Fresh
  <2> QED
    BY <2>1 DEF Fresh
<1>7. \A p \in 1 .. Len(arrived') : arrived'[p] <= avSent'
  BY <1>2, <1>3, <1>4 DEF AVInv, ArrivedOnce
<1>8. ASSUME Kept' = Append(Kept, n), refused' = refused, PostponedInv' PROVE AVInv'
  <2>1. IsWithout(Kept', arrived', refused')
    BY <1>1, <1>2, <1>5, <1>8, WithoutGrows DEF AVInv
  <2>2. Len(Kept') = Len(Kept) + 1
    <3>1. Len(Append(Kept, n)) = Len(Kept) + 1
      BY <1>1
    <3> QED
      BY <1>8, <3>1
  <2>3. Len(Kept') <= Len(arrived') /\ (refused' # {} => Len(arrived') > MaxPostponed)
    BY <1>1, <1>3, <1>8, <2>2 DEF AVInv
  <2>4. ArrivedOnce'
    BY <1>3, <1>7, <1>8 DEF AVInv, ArrivedOnce
  <2> QED
    BY <1>6, <1>8, <2>1, <2>3, <2>4 DEF AVInv
<1>9. CASE EnableCrypt /\ ~gkcrypt_remote
  <2>1. handed' = handed /\ Postpone(n) /\ gkcrypt_remote' = gkcrypt_remote
    BY <1>9 DEF RecvAV
  <2>2. PostponedInv'
    BY <1>2, <1>9 DEF PostponedInv
  <2>3. CASE Len(postponed) < MaxPostponed
    <3>1. postponed' = Append(postponed, n) /\ refused' = refused
      BY <2>1, <2>3 DEF Postpone
    <3>2. Kept' = handed \o Append(postponed, n)
      BY <2>1, <3>1 DEF Kept
    <3>3. Kept' = Append(Kept, n)
      BY <1>1, <3>2, ConcatAppends DEF Kept
    <3> QED
      BY <1>8, <2>2, <3>1, <3>3
  <2>4. CASE ~(Len(postponed) < MaxPostponed)
    <3>1. postponed' = postponed /\ refused' = refused \cup {n} /\ Kept' = Kept
      BY <2>1, <2>4 DEF Postpone, Kept
    <3>2. IsWithout(Kept', arrived', refused')
      BY <1>1, <1>2, <1>4, <3>1, WithoutRefused DEF AVInv
    <3>3. Len(Kept) <= Len(arrived)
      BY DEF AVInv
    <3>4. Len(Kept') <= Len(arrived') /\ Len(arrived') > MaxPostponed
      BY <1>1, <1>3, <2>4, <3>1, <3>3
    <3>5. ArrivedOnce'
      BY <1>3, <1>7, <3>1 DEF AVInv, ArrivedOnce
    <3> QED
      BY <1>6, <2>2, <3>2, <3>4, <3>5 DEF AVInv
  <2> QED
    BY <2>3, <2>4
<1>10. CASE ~(EnableCrypt /\ ~gkcrypt_remote)
  <2>1. handed' = Append(handed, n) /\ postponed' = postponed /\ refused' = refused
    BY <1>10 DEF RecvAV
  <2>2. postponed = <<>>
    BY <1>2, <1>10, TakionAssumption DEF AVInv, PostponedInv
  <2>3. Kept = handed /\ Kept' = handed'
    BY <1>1, <2>1, <2>2, ConcatEmptySeq DEF Kept
  <2>4. Kept' = Append(Kept, n)
    BY <2>1, <2>3
  <2> QED
    BY <1>8, <2>1, <2>2, <2>4 DEF PostponedInv
<1> QED
  BY <1>9, <1>10

LEMMA AVStep == Inv /\ AVInv /\ [Next]_vars => AVInv'
<1> SUFFICES ASSUME Inv, AVInv, [Next]_vars PROVE AVInv'
  OBVIOUS
<1>1. \A n \in AVPackets : /\ AV(n) # InitAck /\ AV(n) # CookieAck
                           /\ \A k \in Messages : AV(n) # Data(k)
  BY DEF AV, InitAck, CookieAck, Data
<1>2. ASSUME UNCHANGED <<historyVars, cryptVars, avSent>>, net' \subseteq net,
             tpc' = "recv" => tpc = "recv"
      PROVE  AVInv'
  <2>1. PostponedInv'
    BY <1>2 DEF AVInv, PostponedInv, cryptVars
  <2> QED
    BY <1>2, <2>1, KeepsAV DEF cryptVars, historyVars
<1>3. CASE SendInit \/ RecvInitAck \/ RecvUnexpected \/ HandshakeTimeout \/ RecvCanceled \/ RecvFails
  BY <1>2, <1>3
     DEF SendInit, RecvInitAck, RecvUnexpected, HandshakeTimeout, RecvCanceled, RecvFails, networkVars
<1>4. CASE RecheckCrashes \/ FlushEnds \/ RecvOther \/ Fini \/ Beach \/ Close
  BY <1>2, <1>4 DEF RecheckCrashes, FlushEnds, RecvOther, Fini, Beach, Close, networkVars
<1>5. ASSUME NEW n \in Messages, RecvData(n) PROVE AVInv'
  BY <1>2, <1>5 DEF RecvData
<1>6. CASE RecvCookieAck
  <2>1. PostponedInv'
    BY <1>6 DEF RecvCookieAck, AVInv, PostponedInv
  <2> QED
    BY <1>6, <2>1, KeepsAV DEF RecvCookieAck, historyVars
<1>7. CASE LoopHead
  <2>1. /\ UNCHANGED <<arrived, refused, avSent, net, gkcrypt_remote>> /\ tpc' = "recv"
    BY <1>7 DEF LoopHead, networkVars
  <2>2. CASE gkcrypt_remote
    <3>1. handed' = Kept /\ postponed' = <<>>
      BY <1>7, <2>2 DEF LoopHead, Kept
    <3>2. Kept' = Kept
      BY <3>1, AVTypes, ConcatEmptySeq DEF Kept
    <3>3. Fresh' /\ ArrivedOnce'
      BY <2>1 DEF AVInv, Fresh, ArrivedOnce
    <3>4. PostponedInv'
      BY <3>1 DEF PostponedInv
    <3> QED
      BY <2>1, <3>2, <3>3, <3>4 DEF AVInv, IsWithout
  <2>3. CASE ~gkcrypt_remote
    <3>1. handed' = handed /\ postponed' = postponed
      BY <1>7, <2>3 DEF LoopHead
    <3>2. PostponedInv'
      BY <2>1, <2>3, <3>1 DEF AVInv, PostponedInv
    <3> QED
      BY <2>1, <3>1, <3>2, KeepsAV
  <2> QED
    BY <2>2, <2>3
<1>8. CASE FlushPull
  <2>1. UNCHANGED <<handed, postponed, arrived, refused, avSent, net, tpc>> /\ tpc = "flush"
    BY <1>8 DEF FlushPull, networkVars
  <2>2. PostponedInv'
    BY <2>1 DEF AVInv, PostponedInv
  <2> QED
    BY <2>1, <2>2, KeepsAV
<1>9. ASSUME NEW n \in AVPackets, RecvAV(n) PROVE AVInv'
  BY <1>9, RecvAVKeeps
<1>10. ASSUME UNCHANGED clientVars, avSent' = avSent,
              \A n \in AVPackets : AV(n) \in net' => AV(n) \in net
       PROVE  AVInv'
  <2>1. PostponedInv'
    BY <1>10 DEF AVInv, PostponedInv, clientVars, cryptVars
  <2> QED
    BY <1>10, <2>1, KeepsAV DEF clientVars, cryptVars, historyVars
<1>11. CASE ConsoleAnswers
  BY <1>1, <1>10, <1>11 DEF ConsoleAnswers
<1>12. CASE ConsoleGetsAck \/ Lose
  BY <1>10, <1>12 DEF ConsoleGetsAck, Lose
<1>13. ASSUME NEW n \in Messages, ConsoleSends(n) PROVE AVInv'
  BY <1>1, <1>10, <1>13 DEF ConsoleSends
<1>14. ASSUME NEW n \in AVPackets, ConsoleSendsAV(n) PROVE AVInv'
  <2>1. /\ UNCHANGED <<handed, postponed, arrived, refused, tpc, gkcrypt_remote>>
        /\ n = avSent + 1 /\ avSent' = n /\ net' = net \cup {AV(n)}
    BY <1>14 DEF ConsoleSendsAV, clientVars, cryptVars, historyVars
  <2>2. avSent \in Nat /\ arrived \in Seq(AVPackets)
    BY AVTypes
  <2>3. ASSUME NEW p \in 1 .. Len(arrived)
        PROVE  arrived[p] \in Nat /\ arrived[p] <= avSent /\ arrived[p] <= avSent' /\ arrived[p] # n
    <3>1. arrived[p] \in AVPackets
      BY <2>2
    <3>2. arrived[p] \in Nat /\ arrived[p] <= avSent
      BY <3>1, TakionAssumption DEF AVPackets, AVInv, ArrivedOnce
    <3> QED
      BY <2>1, <2>2, <3>2
  <2>4. ASSUME NEW k \in AVPackets, AV(k) \in net'
        PROVE  k <= avSent' /\ \A p \in 1 .. Len(arrived') : arrived'[p] # k
    <3>1. CASE k = n
      BY <2>1, <2>2, <2>3, <3>1
    <3>2. CASE k # n
      <4>1. AV(k) \in net
        BY <2>1, <2>4, <3>2 DEF AV
      <4>2. k <= avSent /\ \A p \in 1 .. Len(arrived) : arrived[p] # k
        BY <4>1 DEF AVInv, Fresh
      <4>3. k \in Nat
        BY TakionAssumption DEF AVPackets
      <4> QED
        BY <2>1, <2>2, <4>2, <4>3
    <3> QED
      BY <3>1, <3>2
  <2>5. Fresh' /\ ArrivedOnce'
    BY <2>1, <2>3, <2>4 DEF AVInv, Fresh, ArrivedOnce
  <2>6. Kept' = Kept /\ PostponedInv'
    BY <2>1 DEF AVInv, PostponedInv, Kept
  <2> QED
    BY <2>1, <2>5, <2>6 DEF AVInv, IsWithout
<1>15. CASE UNCHANGED vars
  BY <1>2, <1>15 DEF vars, networkVars
<1> QED
  BY <1>3, <1>4, <1>5, <1>6, <1>7, <1>8, <1>9, <1>11, <1>12, <1>13, <1>14, <1>15
     DEF Next, Handshake, Loop, Console

LEMMA AVInit == Init => AVInv
<1> SUFFICES ASSUME Init PROVE AVInv
  OBVIOUS
<1>1. /\ handed = <<>> /\ postponed = <<>> /\ arrived = <<>> /\ refused = {} /\ net = {}
  BY DEF Init
<1>2. Kept = <<>>
  BY <1>1 DEF Kept
<1>3. Len(Kept) = 0 /\ Len(arrived) = 0
  BY <1>1, <1>2
<1>4. IsWithout(Kept, arrived, refused)
  <2> DEFINE f == [i \in 1 .. 0 |-> 1]
  <2>1. 1 .. Len(Kept) = {} /\ 1 .. Len(arrived) = {}
    BY <1>3
  <2>2. f \in [1 .. Len(Kept) -> 1 .. Len(arrived)]
    BY <2>1
  <2> HIDE DEF f
  <2> QED
    BY <2>1, <2>2, Zenon DEF IsWithout
<1> QED
  BY <1>1, <1>3, <1>4 DEF AVInv, Fresh, ArrivedOnce, PostponedInv

(* takion_handle_packet and takion_postpone_packet give the callback the   *)
(* audio and video packets in the order they arrived in, after the BANG,   *)
(* and leave out only what the postponed packets had no space for.         *)
THEOREM AVOrderKept == Spec => []AVInOrderAfterKeys
<1>1. Spec => [](Inv /\ AVInv)
  <2>1. Init => Inv /\ AVInv
    BY InitInv, AVInit
  <2>2. (Inv /\ AVInv) /\ [Next]_vars => (Inv /\ AVInv)'
    BY NextInv, AVStep
  <2> QED
    BY <2>1, <2>2, PTL DEF Spec
<1>2. Inv /\ AVInv => AVInOrderAfterKeys
  BY DEF Inv, ClientInv, KeysInv, BangDelivered, KeysBeforeAV, AVInv, Kept, AVInOrderAfterKeys
<1> QED
  BY <1>1, <1>2, PTL
=============================================================================
