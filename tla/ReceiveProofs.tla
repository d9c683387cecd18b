---------------------------- MODULE ReceiveProofs ----------------------------
(***************************************************************************)
(* Proofs about what happens to a packet that was received.                *)
(*                                                                         *)
(* GKCrypt, for every size of the ring, every width of the positions in    *)
(* the packets and every key refresh interval: key positions are unfolded  *)
(* as they were sent, and the ring never hands out key stream of another   *)
(* position.  Spec is GKCrypt's.                                           *)
(*                                                                         *)
(* VideoReceiver, for every stream of frames and every width of their      *)
(* indices: frames are shown in order, a frame that counts as complete is  *)
(* whole, and each frame is completed or reported, never both.             *)
(*                                                                         *)
(* AVReceive: the Takion thread with audio, statistics and congestion      *)
(* control beside the receiver still implements VideoReceiver, so that     *)
(* what holds of every behaviour of the receiver alone holds of it in its  *)
(* place.  The audio frames reach the sink in order, and what the          *)
(* statistics report is what was received and lost.                        *)
(***************************************************************************)
EXTENDS GKCrypt, AVReceive, SeqNumProofs, FiniteSetTheorems, SequenceTheorems

-----------------------------------------------------------------------------
(* Key positions                                                           *)

(* chiaki_key_state_request_pos: a packet whose position is less than half *)
(* the range of the lower part away from the previous one, early or late,  *)
(* gets the position it was sent with.                                     *)
THEOREM KeyPosUnfolds ==
    \A p, q \in Nat : q - p < SeqHalf /\ p - q < SeqHalf => RequestPos(p, q % SeqMod) = q
<1> SUFFICES ASSUME NEW p \in Nat, NEW q \in Nat, q - p < SeqHalf, p - q < SeqHalf
             PROVE  RequestPos(p, q % SeqMod) = q
  OBVIOUS
<1> DEFINE h1 == p \div SeqMod
           l1 == p % SeqMod
           h2 == q \div SeqMod
           l2 == q % SeqMod
<1>1. SeqMod \in Nat \ {0} /\ SeqHalf \in Nat \ {0} /\ SeqMod = 2 * SeqHalf
  BY SeqModType
<1>2. h1 \in Nat /\ h2 \in Nat /\ l1 \in 0 .. SeqMod - 1 /\ l2 \in 0 .. SeqMod - 1
  BY <1>1, DivMod
<1>3. p = h1 * SeqMod + l1 /\ q = h2 * SeqMod + l2
  BY <1>1, DivMod
<1>4. RequestPos(p, l2) =
        (IF SeqGt(l2, l1) /\ l2 < l1 THEN h1 + 1
         ELSE IF SeqLt(l2, l1) /\ l2 > l1 /\ h1 > 0 THEN h1 - 1
         ELSE h1) * SeqMod + l2
  BY DEF RequestPos
<1> HIDE DEF h1, h2, l1, l2
<1>5. q - p < SeqMod /\ p - q < SeqMod
  BY <1>1
<1>6. h2 = h1 \/ h2 = h1 + 1 \/ h1 = h2 + 1
  BY <1>1, <1>2, <1>3, <1>5, NearPeriods
<1>7. CASE h2 = h1
  <2>1. q - p = l2 - l1
    <3> DEFINE a == h1 * SeqMod
    <3>1. a \in Nat /\ p = a + l1 /\ q = a + l2
      BY <1>1, <1>2, <1>3, <1>7
    <3> HIDE DEF a
    <3> QED
      BY <3>1, <1>1, <1>2
  <2>2. ~(SeqGt(l2, l1) /\ l2 < l1) /\ ~(SeqLt(l2, l1) /\ l2 > l1)
    BY <2>1, <1>1, <1>2 DEF SeqGt, SeqLt
  <2>3. RequestPos(p, l2) = h1 * SeqMod + l2
    BY <2>2, <1>4
  <2> QED
    BY <2>3, <1>3, <1>7 DEF l2
<1>8. CASE h2 = h1 + 1
  <2>1. q - p = SeqMod + l2 - l1
    <3> DEFINE a == h1 * SeqMod
    <3>1. a \in Nat /\ p = a + l1 /\ h2 * SeqMod = a + SeqMod
      BY <1>1, <1>2, <1>3, <1>8
    <3>2. q = a + SeqMod + l2
      BY <3>1, <1>3
    <3> HIDE DEF a
    <3> QED
      BY <3>1, <3>2, <1>1, <1>2
  <2>2. SeqGt(l2, l1) /\ l2 < l1
    BY <2>1, <1>1, <1>2 DEF SeqGt
  <2>3. RequestPos(p, l2) = (h1 + 1) * SeqMod + l2
    BY <2>2, <1>4
  <2> QED
    BY <2>3, <1>3, <1>8 DEF l2
<1>9. CASE h1 = h2 + 1
  <2>1. p - q = SeqMod + l1 - l2
    <3> DEFINE a == h2 * SeqMod
    <3>1. a \in Nat /\ q = a + l2 /\ h1 * SeqMod = a + SeqMod
      BY <1>1, <1>2, <1>3, <1>9
    <3>2. p = a + SeqMod + l1
      BY <3>1, <1>3
    <3> HIDE DEF a
    <3> QED
      BY <3>1, <3>2, <1>1, <1>2
  <2>2. SeqLt(l2, l1) /\ l2 > l1 /\ h1 > 0
    BY <2>1, <1>1, <1>2, <1>9 DEF SeqLt
  <2>3. RequestPos(p, l2) = (h1 - 1) * SeqMod + l2
    BY <2>2, <1>1, <1>2, <1>4
  <2>4. h1 - 1 = h2
    BY <1>2, <1>9
  <2> QED
    BY <2>3, <2>4, <1>3 DEF l2
<1> QED
  BY <1>6, <1>7, <1>8, <1>9

-----------------------------------------------------------------------------
(* The ring                                                                *)

LEMMA Sizes ==
    /\ Chunk \in Nat \ {0} /\ Chunks \in Nat \ {0} /\ KeyBufSize \in Nat \ {0}
    /\ Chunk <= KeyBufSize
<1>1. Chunk \in Nat \ {0} /\ Chunks \in Nat \ {0}
  BY GKCryptAssumption
<1>2. Chunk * Chunks >= Chunk
  BY <1>1
<1> QED
  BY <1>1, <1>2 DEF KeyBufSize

(* The multiples of a chunk in the ring, its end included. *)
Boundaries == {x \in 0 .. KeyBufSize : \E c \in Nat : x = c * Chunk}

(* There is room for a chunk behind every boundary but the last. *)
LEMMA BoundaryRoom ==
    ASSUME NEW x \in Boundaries, x < KeyBufSize
    PROVE  x + Chunk \in Boundaries
<1>1. PICK c \in Nat : x = c * Chunk
  BY DEF Boundaries
<1>2. c < Chunks
  <2> SUFFICES ASSUME c >= Chunks PROVE FALSE
    BY Sizes
  <2>1. c * Chunk >= Chunks * Chunk
    BY Sizes
  <2>2. Chunks * Chunk = KeyBufSize
    BY Sizes DEF KeyBufSize
  <2> QED
    BY <1>1, <2>1, <2>2, Sizes
<1>3. x + Chunk = (c + 1) * Chunk
  BY <1>1, Sizes
<1>4. (c + 1) * Chunk <= Chunks * Chunk
  BY <1>2, Sizes
<1>5. x + Chunk <= KeyBufSize
  BY <1>3, <1>4, Sizes DEF KeyBufSize
<1>6. x + Chunk \in 0 .. KeyBufSize /\ c + 1 \in Nat
  BY <1>5, Sizes DEF Boundaries
<1> QED
  BY <1>3, <1>6 DEF Boundaries

LEMMA BoundaryLess ==
    ASSUME NEW x \in Boundaries, x >= Chunk
    PROVE  x - Chunk \in Boundaries
<1>1. PICK c \in Nat : x = c * Chunk
  BY DEF Boundaries
<1>2. c >= 1
  BY <1>1, Sizes
<1>3. x - Chunk = (c - 1) * Chunk
  BY <1>1, <1>2, Sizes
<1> QED
  BY <1>2, <1>3, Sizes DEF Boundaries

LEMMA BoundaryEnds == 0 \in Boundaries /\ KeyBufSize \in Boundaries
<1>1. 0 = 0 * Chunk
  BY Sizes
<1>2. KeyBufSize = Chunks * Chunk
  BY Sizes DEF KeyBufSize
<1> QED
  BY <1>1, <1>2, Sizes DEF Boundaries

LEMMA BoundarySum ==
    ASSUME NEW x \in Boundaries, NEW y \in Boundaries, x + y <= KeyBufSize
    PROVE  x + y \in Boundaries
<1>1. PICK b \in Nat : x = b * Chunk
  BY DEF Boundaries
<1>2. PICK c \in Nat : y = c * Chunk
  BY DEF Boundaries
<1>3. x + y = (b + c) * Chunk /\ b + c \in Nat
  BY <1>1, <1>2, Sizes
<1>4. x + y \in 0 .. KeyBufSize
  BY Sizes DEF Boundaries
<1> QED
  BY <1>3, <1>4 DEF Boundaries

(* The slots, without the remainder; s is the start of the ring. *)
SlotFrom(s, i) == (s + i) % KeyBufSize

LEMMA SlotCases ==
    ASSUME NEW s \in Offsets, NEW i \in 0 .. KeyBufSize
    PROVE  /\ SlotFrom(s, i) = IF s + i < KeyBufSize THEN s + i ELSE s + i - KeyBufSize
           /\ SlotFrom(s, i) \in Offsets
<1> DEFINE x == s + i
<1>1. x \in Int /\ 0 <= x /\ x < 2 * KeyBufSize /\ -KeyBufSize <= x
  BY Sizes DEF Offsets
<1> HIDE DEF x
<1>2. x % KeyBufSize = IF x < 0 THEN x + KeyBufSize
                       ELSE IF x < KeyBufSize THEN x ELSE x - KeyBufSize
  BY ONLY <1>1, Sizes, ModCases
<1>3. x % KeyBufSize = (IF x < KeyBufSize THEN x ELSE x - KeyBufSize)
  BY <1>1, <1>2
<1>4. x % KeyBufSize \in Offsets
  BY <1>1, <1>3, Sizes DEF Offsets
<1>5. x = s + i /\ SlotFrom(s, i) = x % KeyBufSize
  BY DEF x, SlotFrom
<1>6. SlotFrom(s, i) = IF s + i < KeyBufSize THEN s + i ELSE s + i - KeyBufSize
  BY <1>1, <1>3, <1>5, Sizes DEF Offsets
<1> QED
  BY <1>4, <1>5, <1>6

LEMMA SlotsDiffer ==
    ASSUME NEW s \in Offsets, NEW i \in 0 .. KeyBufSize - 1, NEW j \in 0 .. KeyBufSize - 1, i # j
    PROVE  SlotFrom(s, i) # SlotFrom(s, j)
<1>1. i \in 0 .. KeyBufSize /\ j \in 0 .. KeyBufSize
  BY Sizes
<1>2. SlotFrom(s, i) = IF s + i < KeyBufSize THEN s + i ELSE s + i - KeyBufSize
  BY <1>1, SlotCases
<1>3. SlotFrom(s, j) = IF s + j < KeyBufSize THEN s + j ELSE s + j - KeyBufSize
  BY <1>1, SlotCases
<1> QED
  BY <1>2, <1>3, Sizes DEF Offsets

(* A chunk written behind a boundary lies in the slots it is meant for: it *)
(* does not run over the end of the buffer.                                *)
LEMMA ChunkInOnePiece ==
    ASSUME NEW s \in Offsets, s \in Boundaries, NEW n \in Boundaries, n < KeyBufSize,
           NEW i \in 0 .. Chunk - 1
    PROVE  SlotFrom(s, n) + i = SlotFrom(s, n + i)
<1>1. n + Chunk <= KeyBufSize
  BY BoundaryRoom DEF Boundaries
<1>2. n \in 0 .. KeyBufSize /\ n + i \in 0 .. KeyBufSize
  BY <1>1, Sizes DEF Boundaries
<1>3. SlotFrom(s, n) = IF s + n < KeyBufSize THEN s + n ELSE s + n - KeyBufSize
  BY <1>2, SlotCases
<1>4. SlotFrom(s, n + i) = IF s + (n + i) < KeyBufSize THEN s + (n + i) ELSE s + (n + i) - KeyBufSize
  BY <1>2, SlotCases
<1>5. CASE s + n < KeyBufSize
  <2>0. s + n <= KeyBufSize
    BY <1>2, <1>5, Sizes DEF Offsets
  <2>1. s + n \in Boundaries
    BY <2>0, BoundarySum
  <2>2. s + n + Chunk <= KeyBufSize
    BY <2>1, <1>5, BoundaryRoom DEF Boundaries
  <2> QED
    BY <1>2, <1>3, <1>4, <1>5, <2>2, Sizes DEF Offsets
<1>6. CASE ~(s + n < KeyBufSize)
  BY <1>2, <1>3, <1>4, <1>6, Sizes DEF Offsets
<1> QED
  BY <1>5, <1>6
-----------------------------------------------------------------------------
(* Type correctness, and the shape of the ring it rests on: its populated  *)
(* part begins and ends at chunk boundaries, and whoever generates a chunk *)
(* has room for it (the assertion of gkcrypt_generate_next_chunk).         *)

RingShape ==
    /\ populated \in Boundaries
    /\ startOffset \in Boundaries
    /\ kpc = "generate" => populated < KeyBufSize

TypeInv == TypeOK /\ RingShape

LEMMA KeyIndexType == ASSUME NEW p \in Nat PROVE KeyIndex(p) \in Nat
<1>1. KeyRefresh \in Nat \ {0}
  BY GKCryptAssumption
<1> QED
  BY <1>1 DEF KeyIndex

LEMMA RequestPosType ==
    ASSUME NEW p \in Nat, NEW l \in 0 .. SeqMod - 1
    PROVE  RequestPos(p, l) \in Nat
<1> DEFINE h == p \div SeqMod
<1>1. SeqMod \in Nat \ {0}
  BY SeqModType
<1>2. h \in Nat
  BY <1>1
<1>3. RequestPos(p, l) =
        (IF SeqGt(l, p % SeqMod) /\ l < p % SeqMod THEN h + 1
         ELSE IF SeqLt(l, p % SeqMod) /\ l > p % SeqMod /\ h > 0 THEN h - 1
         ELSE h) * SeqMod + l
  BY DEF RequestPos
<1> HIDE DEF h
<1>4. (h + 1) * SeqMod \in Nat /\ h * SeqMod \in Nat /\ (h > 0 => (h - 1) * SeqMod \in Nat)
  BY <1>1, <1>2
<1> QED
  BY <1>1, <1>3, <1>4

LEMMA TypeInit == Init => TypeInv
<1> SUFFICES ASSUME Init PROVE TypeInv
  OBVIOUS
<1>1. 0 \in Offsets /\ 0 \in 0 .. KeyBufSize
  BY Sizes DEF Offsets
<1>2. keyBuf \in [Offsets -> Nat \cup {NoBlock}]
  BY DEF Init
<1>3. TypeOK
  BY <1>1, <1>2 DEF Init, TypeOK
<1>4. RingShape
  BY BoundaryEnds DEF Init, RingShape
<1> QED
  BY <1>3, <1>4 DEF TypeInv

(* The ring after BeginChunk's move, before the chunk is written. *)
LEMMA MoveShape ==
    ASSUME TypeInv, SkipAhead \/ DropOldest \/ JustAppend
    PROVE  /\ keyPosMin' \in Nat
           /\ startOffset' \in Offsets /\ startOffset' \in Boundaries
           /\ populated' \in Boundaries /\ populated' < KeyBufSize
           /\ populated' \in 0 .. KeyBufSize
<1> USE DEF TypeInv, TypeOK, RingShape
<1>1. CASE SkipAhead
  <2>1. (lastKeyPos \div Chunk) * Chunk \in Nat
    BY Sizes
  <2> QED
    BY <1>1, <2>1, Sizes, BoundaryEnds DEF SkipAhead, Offsets
<1>2. CASE DropOldest
  <2>1. Chunk \in 0 .. KeyBufSize /\ startOffset < KeyBufSize
    BY Sizes DEF Offsets
  <2>2. startOffset' = IF startOffset + Chunk < KeyBufSize THEN startOffset + Chunk
                       ELSE startOffset + Chunk - KeyBufSize
    BY <1>2, <2>1, SlotCases DEF DropOldest, SlotFrom
  <2>3. startOffset + Chunk \in Boundaries
    BY <2>1, BoundaryRoom
  <2>4. startOffset' \in Boundaries /\ startOffset' \in Offsets
    <3>1. CASE startOffset + Chunk < KeyBufSize
      BY <2>2, <2>3, <3>1, Sizes DEF Offsets
    <3>2. CASE ~(startOffset + Chunk < KeyBufSize)
      <4>1. startOffset + Chunk = KeyBufSize
        BY <2>3, <3>2, Sizes DEF Boundaries, Offsets
      <4>2. startOffset' = 0
        BY <2>2, <4>1, Sizes
      <4> QED
        BY <4>2, BoundaryEnds, Sizes DEF Offsets
    <3> QED
      BY <3>1, <3>2
  <2>5. populated' = KeyBufSize - Chunk /\ keyPosMin' = keyPosMin + Chunk
    BY <1>2 DEF DropOldest
  <2>6. populated' \in Boundaries
    BY <2>5, BoundaryEnds, BoundaryLess, Sizes
  <2> QED
    BY <2>4, <2>5, <2>6, Sizes
<1>3. CASE JustAppend
  BY <1>3, Sizes DEF JustAppend
<1> QED
  BY <1>1, <1>2, <1>3

LEMMA TypeNext == TypeInv /\ [Next]_vars => TypeInv'
<1> SUFFICES ASSUME TypeInv, [Next]_vars PROVE TypeInv'
  OBVIOUS
<1> USE DEF TypeInv, TypeOK, RingShape
<1>1. CASE UNCHANGED vars
  BY <1>1 DEF vars, ringVars, packetVars
<1>2. ASSUME NEW p \in 0 .. MaxPos, NEW n \in Lengths, ReceivePacket(p, n) PROVE TypeInv'
  <2>1. p \in Nat /\ n \in Nat /\ p % SeqMod \in 0 .. SeqMod - 1
    BY GKCryptAssumption, SeqModType
  <2> DEFINE read == RequestPos(prev, p % SeqMod)
             pos == RequestPos(read, p % SeqMod)
  <2>2. read \in Nat
    BY <2>1, RequestPosType
  <2>3. pos \in Nat
    BY <2>1, <2>2, RequestPosType
  <2>4. KeyIndex(read) \in Nat
    BY <2>2, KeyIndexType
  <2>5. Gmac(read) /\ prev' = pos /\ GetKeyStream(pos + 1, n)
    BY <1>2 DEF ReceivePacket
  <2> HIDE DEF read, pos
  <2>6. lastKeyPos' \in Nat /\ upc' \in {"idle", "signal"}
    <3>1. lastKeyPos' = IF pos + 1 + n > lastKeyPos THEN pos + 1 + n ELSE lastKeyPos
      BY <2>5 DEF GetKeyStream
    <3>2. upc' \in {"idle", "signal"}
      BY <2>5 DEF GetKeyStream
    <3> QED
      BY <2>1, <2>3, <3>1, <3>2
  <2>7. gmacIndex' \in Nat /\ gmacKey' \in Nat /\ macKeyUsed' \in Nat
    BY <2>4, <2>5 DEF Gmac
  <2>8. packet' \in [pos : Nat, len : Nat]
    BY <1>2, <2>1 DEF ReceivePacket
  <2>9. UNCHANGED <<ringVars, threadStop, kpc>>
    BY <1>2 DEF ReceivePacket
  <2> QED
    BY <2>3, <2>5, <2>6, <2>7, <2>8, <2>9 DEF ringVars
<1>3. CASE BeginChunk
  <2>1. SkipAhead \/ DropOldest \/ JustAppend
    BY <1>3 DEF BeginChunk
  <2>2. /\ keyPosMin' \in Nat
        /\ startOffset' \in Offsets /\ startOffset' \in Boundaries
        /\ populated' \in Boundaries /\ populated' < KeyBufSize
        /\ populated' \in 0 .. KeyBufSize
    BY <2>1, MoveShape
  <2>3. keyBuf' \in [Offsets -> Nat \cup {NoBlock}]
    BY <1>3 DEF BeginChunk
  <2> QED
    BY <1>3, <2>2, <2>3 DEF BeginChunk, packetVars
<1>4. CASE EndChunk
  <2>1. populated + Chunk \in Boundaries
    BY <1>4, BoundaryRoom DEF EndChunk
  <2>2. populated + Chunk \in 0 .. KeyBufSize
    BY <2>1 DEF Boundaries
  <2>3. Slot(populated) \in Offsets
    BY SlotCases, Sizes DEF Slot, SlotFrom
  <2>4. ASSUME NEW o \in Offsets, o \in NextChunk PROVE o - Slot(populated) \in Nat
    BY <2>3, <2>4 DEF NextChunk, Offsets
  <2>5. ASSUME NEW o \in Offsets, o \in NextChunk
        PROVE  keyPosMin + populated + (o - Slot(populated)) \in Nat
    BY <2>4, <2>5
  <2>6. keyBuf' = [o \in Offsets |->
                    IF o \in NextChunk
                    THEN keyPosMin + populated + (o - Slot(populated))
                    ELSE keyBuf[o]]
    BY <1>4 DEF EndChunk
  <2>7. keyBuf' \in [Offsets -> Nat \cup {NoBlock}]
    BY <2>5, <2>6
  <2> QED
    BY <1>4, <2>1, <2>2, <2>7 DEF EndChunk, packetVars
<1>5. CASE Signal \/ Sleep \/ WakeUp \/ ThreadEnds \/ FiniStop \/ FiniSignal \/ FiniJoin
  BY <1>5 DEF Signal, Sleep, WakeUp, ThreadEnds, FiniStop, FiniSignal, FiniJoin,
              ringVars, packetVars
<1> QED
  BY <1>1, <1>2, <1>3, <1>4, <1>5 DEF Next, Arrival, ThreadStep

(* The state stays well typed, and the ring in shape (gkcrypt.c:477). *)
THEOREM GKCryptTypeCorrect == Spec => [](TypeOK /\ RingShape)
<1>1. TypeInv <=> TypeOK /\ RingShape
  BY DEF TypeInv
<1> QED
  BY <1>1, TypeInit, TypeNext, PTL DEF Spec
-----------------------------------------------------------------------------
(* Positions and MAC keys                                                  *)

PacketInv == TypeInv /\ KeyPosIsTrue /\ MacKeyFits

(* A packet within MaxSkew of the one before is read as it was sent, both  *)
(* times its position is read.                                             *)
LEMMA ReadTrue ==
    ASSUME TypeInv, KeyPosIsTrue,
           NEW p \in Nat, p - packet.pos <= MaxSkew, packet.pos - p <= MaxSkew
    PROVE  /\ RequestPos(prev, p % SeqMod) = p
           /\ RequestPos(p, p % SeqMod) = p
<1>1. prev \in Nat /\ prev = packet.pos
  BY DEF TypeInv, TypeOK, KeyPosIsTrue
<1>2. p - prev < SeqHalf /\ prev - p < SeqHalf
  BY <1>1, GKCryptAssumption, SeqModType
<1>3. p - p < SeqHalf
  BY SeqModType
<1> QED
  BY <1>1, <1>2, <1>3, KeyPosUnfolds

(* What the arrival of a packet does, once its position is known. *)
LEMMA ArrivalReads ==
    ASSUME TypeInv, KeyPosIsTrue, Arrival
    PROVE  \E p \in Nat, n \in Nat \ {0} :
              /\ packet' = [pos |-> p, len |-> n]
              /\ prev' = p
              /\ Gmac(p)
              /\ GetKeyStream(p + 1, n)
              /\ UNCHANGED <<ringVars, threadStop, kpc>>
<1>1. PICK p \in 0 .. MaxPos, n \in Lengths :
          /\ p - packet.pos <= MaxSkew
          /\ packet.pos - p <= MaxSkew
          /\ ReceivePacket(p, n)
  BY DEF Arrival
<1>2. p \in Nat /\ n \in Nat \ {0}
  BY GKCryptAssumption
<1>3. RequestPos(prev, p % SeqMod) = p /\ RequestPos(p, p % SeqMod) = p
  BY <1>1, <1>2, ReadTrue
<1>4. Gmac(p) /\ prev' = p /\ GetKeyStream(p + 1, n)
  BY <1>1, <1>3 DEF ReceivePacket
<1> QED
  BY <1>1, <1>2, <1>4 DEF ReceivePacket

LEMMA PacketInit == Init => PacketInv
<1> SUFFICES ASSUME Init PROVE PacketInv
  OBVIOUS
<1>1. KeyIndex(0) = 0
  BY GKCryptAssumption DEF KeyIndex
<1> QED
  BY <1>1, TypeInit DEF Init, PacketInv, KeyPosIsTrue, MacKeyFits

LEMMA PacketNext == PacketInv /\ [Next]_vars => PacketInv'
<1> SUFFICES ASSUME PacketInv, [Next]_vars PROVE PacketInv'
  OBVIOUS
<1>1. TypeInv'
  BY TypeNext DEF PacketInv
<1>2. CASE Arrival
  <2>1. PICK p \in Nat, n \in Nat \ {0} :
              /\ packet' = [pos |-> p, len |-> n]
              /\ prev' = p
              /\ Gmac(p)
    BY <1>2, ArrivalReads DEF PacketInv
  <2>2. KeyPosIsTrue'
    BY <2>1 DEF KeyPosIsTrue
  <2>3. KeyIndex(p) \in Nat /\ gmacIndex \in Nat /\ gmacKey = gmacIndex
    BY KeyIndexType DEF PacketInv, TypeInv, TypeOK, MacKeyFits
  <2>4. macKeyUsed' = KeyIndex(p) /\ gmacKey' = gmacIndex'
    BY <2>1, <2>3 DEF Gmac
  <2>5. KeyIndex(packet'.pos) = KeyIndex(p)
    BY <2>1
  <2> QED
    BY <1>1, <2>2, <2>4, <2>5 DEF PacketInv, MacKeyFits
<1>3. CASE UNCHANGED packetVars
  BY <1>1, <1>3 DEF PacketInv, KeyPosIsTrue, MacKeyFits, packetVars, KeyIndex
<1> QED
  BY <1>2, <1>3 DEF Next, ThreadStep, Signal, Sleep, BeginChunk, EndChunk, ThreadEnds,
                    WakeUp, FiniStop, FiniSignal, FiniJoin, vars

(* Positions are unfolded as they were sent (gkcrypt.c:551). *)
THEOREM PositionsTrue == Spec => []KeyPosIsTrue
<1>1. PacketInv => KeyPosIsTrue
  BY DEF PacketInv
<1> QED
  BY <1>1, PacketInit, PacketNext, PTL DEF Spec

(* The MAC of a packet, early or late, is computed with the key of its     *)
(* position (gkcrypt.c:355).                                               *)
THEOREM MacKeysFit == Spec => []MacKeyFits
<1>1. PacketInv => MacKeyFits
  BY DEF PacketInv
<1> QED
  BY <1>1, PacketInit, PacketNext, PTL DEF Spec

-----------------------------------------------------------------------------
(* What is in the ring and what is read from it                            *)

RingInv == PacketInv /\ RingHoldsItsStream /\ ReadsItsOwnStream

LEMMA SlotIsSlotFrom == ASSUME NEW i PROVE Slot(i) = SlotFrom(startOffset, i)
  BY DEF Slot, SlotFrom

(* The move of the ring keeps what it keeps in place. *)
LEMMA MoveKeeps ==
    ASSUME TypeInv, RingHoldsItsStream, SkipAhead \/ DropOldest \/ JustAppend
    PROVE  \A i \in 0 .. populated' - 1 :
              keyBuf[SlotFrom(startOffset', i)] = keyPosMin' + i
<1> USE DEF TypeInv, TypeOK, RingShape
<1>1. CASE SkipAhead
  BY <1>1, Sizes DEF SkipAhead
<1>2. CASE DropOldest
  <2> SUFFICES ASSUME NEW i \in 0 .. populated' - 1
               PROVE  keyBuf[SlotFrom(startOffset', i)] = keyPosMin' + i
    OBVIOUS
  <2>1. populated' = KeyBufSize - Chunk /\ populated = KeyBufSize /\ keyPosMin' = keyPosMin + Chunk
    BY <1>2, Sizes DEF DropOldest
  <2>2. i \in Nat /\ i + Chunk \in 0 .. populated - 1 /\ i + Chunk \in 0 .. KeyBufSize
    BY <2>1, Sizes
  <2>3. Chunk \in 0 .. KeyBufSize /\ i \in 0 .. KeyBufSize
    BY <2>1, <2>2, Sizes
  <2>4. startOffset' = SlotFrom(startOffset, Chunk)
    BY <1>2 DEF DropOldest, SlotFrom
  <2>5. startOffset' \in Offsets
    BY <2>3, <2>4, SlotCases
  <2>6. SlotFrom(startOffset', i) = SlotFrom(startOffset, i + Chunk)
    <3> DEFINE s == startOffset
               t == startOffset'
    <3>1. t = IF s + Chunk < KeyBufSize THEN s + Chunk ELSE s + Chunk - KeyBufSize
      BY <2>3, <2>4, SlotCases
    <3>2. SlotFrom(t, i) = IF t + i < KeyBufSize THEN t + i ELSE t + i - KeyBufSize
      BY <2>3, <2>5, SlotCases
    <3>3. SlotFrom(s, i + Chunk) = IF s + (i + Chunk) < KeyBufSize THEN s + (i + Chunk)
                                   ELSE s + (i + Chunk) - KeyBufSize
      BY <2>2, SlotCases
    <3>4. s \in 0 .. KeyBufSize - 1 /\ t \in 0 .. KeyBufSize - 1 /\ i + Chunk < KeyBufSize
      BY <2>1, <2>2, <2>5 DEF Offsets
    <3> HIDE DEF s, t
    <3>5. SlotFrom(t, i) = SlotFrom(s, i + Chunk)
      BY <2>2, <3>1, <3>2, <3>3, <3>4, Sizes
    <3> QED
      BY <3>5 DEF s, t
  <2>7. keyBuf[Slot(i + Chunk)] = keyPosMin + (i + Chunk)
    BY <2>2 DEF RingHoldsItsStream
  <2>8. keyBuf[SlotFrom(startOffset, i + Chunk)] = keyPosMin + (i + Chunk)
    BY <2>7, SlotIsSlotFrom
  <2> QED
    BY <2>1, <2>2, <2>6, <2>8, Sizes
<1>3. CASE JustAppend
  BY <1>3, SlotIsSlotFrom DEF JustAppend, RingHoldsItsStream
<1> QED
  BY <1>1, <1>2, <1>3

(* The slots of the populated part are not those of the chunk behind it. *)
LEMMA PopulatedApart ==
    ASSUME NEW s \in Offsets, s \in Boundaries, NEW n \in Boundaries, n < KeyBufSize,
           NEW i \in 0 .. n - 1, NEW j \in 0 .. Chunk - 1
    PROVE  SlotFrom(s, i) # SlotFrom(s, n) + j
<1>1. n + Chunk <= KeyBufSize
  BY BoundaryRoom DEF Boundaries
<1>2. SlotFrom(s, n) + j = SlotFrom(s, n + j)
  BY ChunkInOnePiece
<1>3. i \in 0 .. KeyBufSize - 1 /\ n + j \in 0 .. KeyBufSize - 1 /\ i # n + j
  BY <1>1, Sizes DEF Boundaries
<1> QED
  BY <1>2, <1>3, SlotsDiffer

LEMMA BeginKeeps == ASSUME TypeInv, RingHoldsItsStream, BeginChunk PROVE RingHoldsItsStream'
<1>1. SkipAhead \/ DropOldest \/ JustAppend
  BY DEF BeginChunk
<1>2. /\ startOffset' \in Offsets /\ startOffset' \in Boundaries
      /\ populated' \in Boundaries /\ populated' < KeyBufSize
      /\ populated' \in 0 .. KeyBufSize
  BY <1>1, MoveShape
<1> SUFFICES ASSUME NEW i \in 0 .. populated' - 1
             PROVE  keyBuf'[SlotFrom(startOffset', i)] = keyPosMin' + i
  BY DEF RingHoldsItsStream, Slot, SlotFrom
<1>3. keyBuf[SlotFrom(startOffset', i)] = keyPosMin' + i
  BY <1>1, MoveKeeps
<1>4. i \in 0 .. KeyBufSize
  <2> DEFINE n == populated'
  <2>1. n \in 0 .. KeyBufSize /\ i \in 0 .. n - 1
    BY <1>2
  <2> HIDE DEF n
  <2> QED
    BY <2>1, Sizes
<1>5. SlotFrom(startOffset', i) \in Offsets
  BY <1>2, <1>4, SlotCases
<1>6. SlotFrom(startOffset', i) \notin NextChunk'
  <2>1. ASSUME NEW j \in 0 .. Chunk - 1 PROVE SlotFrom(startOffset', i) # SlotFrom(startOffset', populated') + j
    BY <1>2, PopulatedApart
  <2> QED
    BY <2>1 DEF NextChunk, Slot, SlotFrom
<1>7. keyBuf'[SlotFrom(startOffset', i)] = keyBuf[SlotFrom(startOffset', i)]
  BY <1>5, <1>6 DEF BeginChunk
<1> QED
  BY <1>3, <1>7

LEMMA EndKeeps == ASSUME TypeInv, RingHoldsItsStream, EndChunk PROVE RingHoldsItsStream'
<1> USE DEF TypeInv, TypeOK, RingShape
<1>1. populated < KeyBufSize /\ populated' = populated + Chunk
      /\ startOffset' = startOffset /\ keyPosMin' = keyPosMin
  BY DEF EndChunk
<1>2. populated + Chunk <= KeyBufSize
  BY <1>1, BoundaryRoom DEF Boundaries
<1> SUFFICES ASSUME NEW i \in 0 .. populated' - 1
             PROVE  keyBuf'[SlotFrom(startOffset, i)] = keyPosMin + i
  <2>1. \A i : Slot(i)' = SlotFrom(startOffset, i)
    BY <1>1 DEF Slot, SlotFrom
  <2> QED
    BY <1>1, <2>1 DEF RingHoldsItsStream
<1>3. i \in 0 .. KeyBufSize
  BY <1>1, <1>2, Sizes
<1>4. SlotFrom(startOffset, i) \in Offsets
  BY <1>3, SlotCases
<1>5. keyBuf'[SlotFrom(startOffset, i)] =
          IF SlotFrom(startOffset, i) \in NextChunk
          THEN keyPosMin + populated + (SlotFrom(startOffset, i) - SlotFrom(startOffset, populated))
          ELSE keyBuf[SlotFrom(startOffset, i)]
  BY <1>4, SlotIsSlotFrom DEF EndChunk
<1>6. CASE i < populated
  <2>1. i \in 0 .. populated - 1
    BY <1>6, Sizes
  <2>2. ASSUME NEW j \in 0 .. Chunk - 1 PROVE SlotFrom(startOffset, i) # SlotFrom(startOffset, populated) + j
    BY <1>1, <2>1, PopulatedApart
  <2>3. SlotFrom(startOffset, i) \notin NextChunk
    BY <2>2, SlotIsSlotFrom DEF NextChunk
  <2>4. keyBuf[SlotFrom(startOffset, i)] = keyPosMin + i
    BY <2>1, SlotIsSlotFrom DEF RingHoldsItsStream
  <2> QED
    BY <1>5, <2>3, <2>4
<1>7. CASE ~(i < populated)
  <2>1. i - populated \in 0 .. Chunk - 1 /\ populated + (i - populated) = i
    BY <1>1, <1>7, Sizes
  <2>2. SlotFrom(startOffset, populated) + (i - populated) = SlotFrom(startOffset, i)
    BY <1>1, <2>1, ChunkInOnePiece
  <2>3. SlotFrom(startOffset, i) \in NextChunk
    BY <2>1, <2>2, SlotIsSlotFrom DEF NextChunk
  <2>4. SlotFrom(startOffset, populated) \in Offsets
    BY SlotCases
  <2>5. SlotFrom(startOffset, i) - SlotFrom(startOffset, populated) = i - populated
    BY <2>1, <2>2, <2>4, Sizes DEF Offsets
  <2> QED
    BY <1>5, <2>1, <2>3, <2>5, Sizes
<1> QED
  BY <1>6, <1>7

LEMMA ReadKeeps ==
    ASSUME TypeInv, RingHoldsItsStream, NEW p \in Nat, NEW n \in Nat, GetKeyStream(p, n)
    PROVE  streamRead' = Stream(p, n)
<1> USE DEF TypeInv, TypeOK
<1>1. CASE InBuffer(p, n)
  <2>1. ASSUME NEW i \in 0 .. n - 1 PROVE keyBuf[Slot(p - keyPosMin + i)] = p + i
    <3>1. p - keyPosMin + i \in 0 .. populated - 1
      BY <1>1 DEF InBuffer
    <3>2. keyBuf[Slot(p - keyPosMin + i)] = keyPosMin + (p - keyPosMin + i)
      BY <3>1 DEF RingHoldsItsStream
    <3> QED
      BY <3>2
  <2>2. streamRead' = [i \in 0 .. n - 1 |-> keyBuf[Slot(p - keyPosMin + i)]]
    BY <1>1 DEF GetKeyStream
  <2> QED
    BY <2>1, <2>2 DEF Stream
<1>2. CASE ~InBuffer(p, n)
  BY <1>2 DEF GetKeyStream
<1> QED
  BY <1>1, <1>2

LEMMA RingInit == Init => RingInv
<1> SUFFICES ASSUME Init PROVE RingInv
  OBVIOUS
<1>1. packet.len = 0 /\ populated = 0
  BY DEF Init
<1>2. RingHoldsItsStream /\ ReadsItsOwnStream
  BY <1>1 DEF RingHoldsItsStream, ReadsItsOwnStream
<1> QED
  BY <1>2, PacketInit DEF RingInv

LEMMA RingNext == RingInv /\ [Next]_vars => RingInv'
<1> SUFFICES ASSUME RingInv, [Next]_vars PROVE RingInv'
  OBVIOUS
<1>1. PacketInv' /\ PacketInv /\ TypeInv /\ KeyPosIsTrue
  BY PacketNext DEF RingInv, PacketInv
<1>2. CASE Arrival
  <2>1. PICK p \in Nat, n \in Nat \ {0} :
              /\ packet' = [pos |-> p, len |-> n]
              /\ GetKeyStream(p + 1, n)
              /\ UNCHANGED <<ringVars, threadStop, kpc>>
    BY <1>1, <1>2, ArrivalReads
  <2>2. RingHoldsItsStream'
    BY <2>1 DEF RingInv, RingHoldsItsStream, ringVars, Slot
  <2>3. streamRead' = Stream(p + 1, n)
    BY <1>1, <2>1, ReadKeeps DEF RingInv
  <2>4. ReadsItsOwnStream'
    BY <2>1, <2>3 DEF ReadsItsOwnStream
  <2> QED
    BY <1>1, <2>2, <2>4 DEF RingInv
<1>3. CASE BeginChunk
  <2>1. RingHoldsItsStream'
    BY <1>1, <1>3, BeginKeeps DEF RingInv
  <2>2. ReadsItsOwnStream'
    BY <1>3 DEF RingInv, ReadsItsOwnStream, BeginChunk, packetVars
  <2> QED
    BY <1>1, <2>1, <2>2 DEF RingInv
<1>4. CASE EndChunk
  <2>1. RingHoldsItsStream'
    BY <1>1, <1>4, EndKeeps DEF RingInv
  <2>2. ReadsItsOwnStream'
    BY <1>4 DEF RingInv, ReadsItsOwnStream, EndChunk, packetVars
  <2> QED
    BY <1>1, <2>1, <2>2 DEF RingInv
<1>5. CASE UNCHANGED <<ringVars, packetVars>>
  <2>1. RingHoldsItsStream'
    BY <1>5 DEF RingInv, RingHoldsItsStream, ringVars, Slot
  <2>2. ReadsItsOwnStream'
    BY <1>5 DEF RingInv, ReadsItsOwnStream, packetVars
  <2> QED
    BY <1>1, <2>1, <2>2 DEF RingInv
<1> QED
  BY <1>2, <1>3, <1>4, <1>5 DEF Next, ThreadStep, Signal, Sleep, ThreadEnds, WakeUp,
                                FiniStop, FiniSignal, FiniJoin, vars

(* The populated part of the ring is the key stream from its position on,  *)
(* however far requests have jumped (gkcrypt.c:498).                       *)
THEOREM RingTrue == Spec => []RingHoldsItsStream
<1>1. RingInv => RingHoldsItsStream
  BY DEF RingInv
<1> QED
  BY <1>1, RingInit, RingNext, PTL DEF Spec

(* Whatever is decrypted is decrypted with the stream of its position,     *)
(* also while the thread writes into the ring (gkcrypt.c:283).             *)
THEOREM StreamTrue == Spec => []ReadsItsOwnStream
<1>1. RingInv => ReadsItsOwnStream
  BY DEF RingInv
<1> QED
  BY <1>1, RingInit, RingNext, PTL DEF Spec

-----------------------------------------------------------------------------
(* The frame processor                                                     *)

FecSlots(f) == IF Fec[f] < 1 THEN 1 ELSE Fec[f]

SlotsOf(f) == 0 .. (Source[f] + FecSlots(f)) - 1

(* The processor collects frame f. *)
Filling(fp, f) ==
    /\ fp \in Processors
    /\ fp.units_source_expected = Source[f]
    /\ fp.units_fec_expected = FecSlots(f)
    /\ fp.unit_slots \in [SlotsOf(f) -> {NoFrame, f}]
    /\ fp.flushed = FALSE

SourcePresent(fp) == {i \in Present(fp) : i < fp.units_source_expected}

(* Its counts are those of the slots that are taken. *)
Counted(fp) ==
    /\ fp.units_source_received = Cardinality(SourcePresent(fp))
    /\ fp.units_source_received + fp.units_fec_received = Cardinality(Present(fp))

LEMMA FrameType ==
    ASSUME NEW f \in Frames
    PROVE  /\ f \in Nat /\ f # NoFrame
           /\ Source[f] \in Nat \ {0} /\ Fec[f] \in Nat /\ FecSlots(f) \in Nat \ {0}
           /\ Profile[f] \in 0 .. Profiles - 1
           /\ Source[f] + FecSlots(f) \in Nat \ {0}
           /\ Units(f) \subseteq SlotsOf(f)
<1>1. f \in Nat /\ f # NoFrame /\ Source[f] \in Nat \ {0} /\ Fec[f] \in Nat
      /\ Profile[f] \in 0 .. Profiles - 1
  BY VideoAssumption DEF Frames, NoFrame
<1>2. FecSlots(f) \in Nat \ {0} /\ Fec[f] <= FecSlots(f)
  BY <1>1 DEF FecSlots
<1> QED
  BY <1>1, <1>2 DEF Units, SlotsOf

LEMMA SlotsType ==
    ASSUME NEW f \in Frames, NEW slots \in [SlotsOf(f) -> {NoFrame, f}]
    PROVE  slots \in UNION {[0 .. n - 1 -> Frames \cup {NoFrame}] : n \in Nat}
<1> DEFINE n == Source[f] + FecSlots(f)
<1>1. n \in Nat
  BY FrameType
<1>2. SlotsOf(f) = 0 .. n - 1
  BY DEF SlotsOf
<1> HIDE DEF n
<1>3. slots \in [0 .. n - 1 -> {NoFrame, f}]
  BY <1>2
<1>4. slots \in [0 .. n - 1 -> Frames \cup {NoFrame}]
  BY <1>3
<1> QED
  BY <1>1, <1>4

LEMMA PresentFinite ==
    ASSUME NEW f \in Frames, NEW fp, Filling(fp, f)
    PROVE  /\ Present(fp) \subseteq SlotsOf(f) /\ IsFiniteSet(Present(fp))
           /\ SourcePresent(fp) \subseteq 0 .. Source[f] - 1
           /\ SourcePresent(fp) \subseteq Present(fp) /\ IsFiniteSet(SourcePresent(fp))
           /\ IsFiniteSet(SlotsOf(f)) /\ Cardinality(SlotsOf(f)) = Source[f] + FecSlots(f)
<1>1. Source[f] + FecSlots(f) \in Nat \ {0}
  BY FrameType
<1>2. IsFiniteSet(SlotsOf(f)) /\ Cardinality(SlotsOf(f)) = Source[f] + FecSlots(f)
  <2> DEFINE b == (Source[f] + FecSlots(f)) - 1
  <2>1. b \in Int /\ 0 \in Int
    BY <1>1
  <2>2. SlotsOf(f) = 0 .. b
    BY DEF SlotsOf
  <2> HIDE DEF b
  <2>3. IsFiniteSet(0 .. b) /\ Cardinality(0 .. b) = IF 0 > b THEN 0 ELSE b - 0 + 1
    BY <2>1, FS_Interval
  <2> QED
    BY <1>1, <2>2, <2>3 DEF b
<1>3. Present(fp) \subseteq SlotsOf(f)
  BY DEF Present, Filling
<1>4. SourcePresent(fp) \subseteq Present(fp)
  BY DEF SourcePresent
<1>5. IsFiniteSet(Present(fp))
  BY <1>2, <1>3, FS_Subset
<1>6. IsFiniteSet(SourcePresent(fp))
  BY <1>4, <1>5, FS_Subset
<1>7. SourcePresent(fp) \subseteq 0 .. Source[f] - 1
  <2> SUFFICES ASSUME NEW i \in SourcePresent(fp) PROVE i \in 0 .. Source[f] - 1
    OBVIOUS
  <2>1. i \in SlotsOf(f) /\ i < Source[f]
    BY <1>3 DEF SourcePresent, Filling
  <2>2. i \in Int /\ 0 <= i
    BY <1>1, <2>1 DEF SlotsOf
  <2> QED
    BY <2>1, <2>2, FrameType
<1> QED
  BY <1>2, <1>3, <1>4, <1>5, <1>6, <1>7

(* A new frame starts with no slot taken (frameprocessor.c:65). *)
LEMMA AllocFills ==
    ASSUME NEW f \in Frames, NEW fp
    PROVE  /\ Filling(AllocFrame(fp, f), f)
           /\ Counted(AllocFrame(fp, f))
           /\ ~FlushPossible(AllocFrame(fp, f))
<1> DEFINE new == AllocFrame(fp, f)
<1>1. new = [units_source_expected |-> Source[f], units_fec_expected |-> FecSlots(f),
             units_source_received |-> 0, units_fec_received |-> 0,
             unit_slots |-> [i \in SlotsOf(f) |-> NoFrame], flushed |-> FALSE]
  <2>1. Source[f] \in Nat /\ Fec[f] \in Nat
    BY FrameType
  <2>2. SlotsOf(f) = 0 .. Source[f] + FecSlots(f) - 1
    <3>1. FecSlots(f) \in Nat
      BY FrameType
    <3> QED
      BY <2>1, <3>1 DEF SlotsOf
  <2> QED
    BY <2>2 DEF AllocFrame, FecSlots
<1>2. Source[f] \in Nat \ {0} /\ FecSlots(f) \in Nat
  BY FrameType
<1>3. [i \in SlotsOf(f) |-> NoFrame] \in [SlotsOf(f) -> {NoFrame, f}]
  OBVIOUS
<1>4. [i \in SlotsOf(f) |-> NoFrame]
            \in UNION {[0 .. n - 1 -> Frames \cup {NoFrame}] : n \in Nat}
  BY <1>3, SlotsType
<1> HIDE DEF new
<1>5. Filling(new, f)
  BY <1>1, <1>2, <1>3, <1>4 DEF Filling, Processors
<1>6. Present(new) = {} /\ SourcePresent(new) = {}
  BY <1>1 DEF Present, SourcePresent
<1>7. Cardinality({}) = 0
  BY FS_EmptySet
<1>8. new.units_source_received = 0 /\ new.units_fec_received = 0
      /\ new.units_source_expected = Source[f]
  BY <1>1
<1>9. Counted(new)
  BY <1>6, <1>7, <1>8 DEF Counted
<1>10. ~FlushPossible(new)
  BY <1>2, <1>8 DEF FlushPossible
<1> QED
  BY <1>5, <1>9, <1>10 DEF new

(* A unit takes its slot and is counted once (frameprocessor.c:148). *)
LEMMA PutFills ==
    ASSUME NEW f \in Frames, NEW u \in Units(f), NEW fp, Filling(fp, f)
    PROVE  /\ Filling(PutUnit(fp, f, u), f)
           /\ Counted(fp) => Counted(PutUnit(fp, f, u))
<1>1. CASE u \in Present(fp)
  BY <1>1 DEF PutUnit
<1>2. CASE u \notin Present(fp)
  <2> DEFINE new == PutUnit(fp, f, u)
             isSource == u < fp.units_source_expected
  <2>1. u \in SlotsOf(f) /\ u \in Nat /\ f # NoFrame
    BY FrameType DEF Units
  <2>2. fp.units_source_received \in Nat /\ fp.units_fec_received \in Nat
        /\ fp.units_source_expected \in Nat /\ Source[f] = fp.units_source_expected
    BY DEF Filling, Processors
  <2> HIDE DEF isSource
  <2>3. /\ new.units_source_expected = fp.units_source_expected
        /\ new.units_fec_expected = fp.units_fec_expected
        /\ new.flushed = fp.flushed
        /\ new.unit_slots = [fp.unit_slots EXCEPT ![u] = f]
        /\ new.units_source_received = fp.units_source_received + (IF isSource THEN 1 ELSE 0)
        /\ new.units_fec_received = fp.units_fec_received + (IF isSource THEN 0 ELSE 1)
    BY <1>2, <2>2 DEF PutUnit, Filling, Processors, isSource
  <2>4. new.unit_slots \in [SlotsOf(f) -> {NoFrame, f}]
    BY <2>3 DEF Filling
  <2>5. new.unit_slots \in UNION {[0 .. n - 1 -> Frames \cup {NoFrame}] : n \in Nat}
    BY <2>4, SlotsType
  <2>20. fp \in Processors
    BY DEF Filling
  <2>21. new = [fp EXCEPT !.unit_slots = new.unit_slots,
                          !.units_source_received = new.units_source_received,
                          !.units_fec_received = new.units_fec_received]
    BY <1>2, <2>20 DEF PutUnit, Processors
  <2> HIDE DEF new
  <2>22. new.units_source_received \in Nat /\ new.units_fec_received \in Nat
    BY <2>2, <2>3
  <2>23. new \in Processors
    BY <2>5, <2>20, <2>21, <2>22 DEF Processors
  <2>6. Filling(new, f)
    BY <2>2, <2>3, <2>4, <2>23 DEF Filling
  <2>7. Present(new) = Present(fp) \cup {u}
    BY <2>1, <2>3, <2>4 DEF Present, Filling
  <2>8. SourcePresent(new) = IF isSource THEN SourcePresent(fp) \cup {u} ELSE SourcePresent(fp)
    BY <2>3, <2>7 DEF SourcePresent, isSource
  <2>9. Cardinality(Present(new)) = Cardinality(Present(fp)) + 1
    BY <1>2, <2>7, PresentFinite, FS_AddElement
  <2>10. u \notin SourcePresent(fp)
    BY <1>2 DEF SourcePresent
  <2>11. Cardinality(SourcePresent(new)) =
             Cardinality(SourcePresent(fp)) + (IF isSource THEN 1 ELSE 0)
    <3>1. Cardinality(SourcePresent(fp)) \in Nat
      BY PresentFinite, FS_CardinalityType
    <3>2. Cardinality(SourcePresent(fp) \cup {u}) = Cardinality(SourcePresent(fp)) + 1
      BY <2>10, PresentFinite, FS_AddElement
    <3> QED
      BY <2>8, <3>1, <3>2
  <2>12. Counted(fp) => Counted(new)
    <3> SUFFICES ASSUME Counted(fp) PROVE Counted(new)
      OBVIOUS
    <3>1. new.units_source_received + new.units_fec_received
             = (fp.units_source_received + fp.units_fec_received) + 1
      BY <2>2, <2>3
    <3> QED
      BY <2>3, <2>9, <2>11, <3>1 DEF Counted
  <2> QED
    BY <2>6, <2>12 DEF new
<1> QED
  BY <1>1, <1>2

(* The assertion of chiaki_frame_processor_fec (frameprocessor.c:198). *)
LEMMA ErasureCount ==
    ASSUME NEW f \in Frames, NEW fp, Filling(fp, f), Counted(fp)
    PROVE  /\ Cardinality(Erasures(fp)) = Generation(fp).lost
           /\ Generation(fp).lost =
                 (Source[f] + FecSlots(f)) - (fp.units_source_received + fp.units_fec_received)
<1>1. DOMAIN fp.unit_slots = SlotsOf(f)
  BY DEF Filling
<1>2. SlotsOf(f) \cap Present(fp) = Present(fp)
  BY PresentFinite
<1>3. Cardinality(SlotsOf(f) \ Present(fp)) = Cardinality(SlotsOf(f)) - Cardinality(Present(fp))
  <2> DEFINE S == SlotsOf(f)
             T == Present(fp)
  <2>1. IsFiniteSet(S) /\ S \cap T = T
    BY <1>2, PresentFinite
  <2> HIDE DEF S, T
  <2>2. Cardinality(S \ T) = Cardinality(S) - Cardinality(S \cap T)
    BY <2>1, FS_Difference
  <2> QED
    BY <2>1, <2>2 DEF S, T
<1>4. Erasures(fp) = SlotsOf(f) \ Present(fp)
  BY <1>1 DEF Erasures
<1>5. Generation(fp).lost =
          (Source[f] + FecSlots(f)) - (fp.units_source_received + fp.units_fec_received)
  <2>1. /\ fp.units_source_expected = Source[f] /\ fp.units_fec_expected = FecSlots(f)
        /\ fp.units_source_received \in Nat /\ fp.units_fec_received \in Nat
    BY DEF Filling, Processors
  <2>2. Source[f] \in Nat /\ FecSlots(f) \in Nat
    BY FrameType
  <2> QED
    BY <2>1, <2>2 DEF Generation
<1> QED
  BY <1>3, <1>4, <1>5, PresentFinite DEF Counted

(* What has too few units cannot be completed. *)
LEMMA FlushFails ==
    ASSUME NEW f \in Frames, NEW fp, Filling(fp, f), Counted(fp), ~FlushPossible(fp)
    PROVE  Flush(fp) = [result |-> "FEC_FAILED", fp |-> fp]
<1>1. /\ fp.units_source_received \in Nat /\ fp.units_fec_received \in Nat
      /\ fp.units_source_expected = Source[f] /\ fp.units_fec_expected = FecSlots(f)
      /\ Source[f] \in Nat \ {0} /\ FecSlots(f) \in Nat /\ fp.flushed = FALSE
  BY FrameType DEF Filling, Processors
<1>2. fp.units_source_received + fp.units_fec_received < Source[f]
  BY <1>1 DEF FlushPossible
<1>3. ~(Cardinality(Erasures(fp)) <= fp.units_fec_expected)
  BY <1>1, <1>2, ErasureCount
<1> QED
  BY <1>1, <1>2, <1>3 DEF Flush

(* With enough units all those of data are there, or come back: what goes  *)
(* to the decoder is frame f and nothing else (frameprocessor.c:265).      *)
LEMMA FlushSucceeds ==
    ASSUME NEW f \in Frames, NEW fp, Filling(fp, f), Counted(fp), FlushPossible(fp)
    PROVE  /\ Flush(fp).result \in {"SUCCESS", "FEC_SUCCESS"}
           /\ Filling(Flush(fp).fp, f)
           /\ \A i \in 0 .. Source[f] - 1 : Flush(fp).fp.unit_slots[i] = f
<1>1. /\ fp.units_source_received \in Nat /\ fp.units_fec_received \in Nat
      /\ fp.units_source_expected = Source[f] /\ fp.units_fec_expected = FecSlots(f)
      /\ Source[f] \in Nat \ {0} /\ FecSlots(f) \in Nat \ {0} /\ fp.flushed = FALSE
      /\ fp.unit_slots \in [SlotsOf(f) -> {NoFrame, f}]
  BY FrameType DEF Filling, Processors
<1>2. 0 .. Source[f] - 1 \subseteq SlotsOf(f)
  BY <1>1 DEF SlotsOf
<1>3. CASE fp.units_source_received >= fp.units_source_expected
  <2>1. Flush(fp) = [result |-> "SUCCESS", fp |-> fp]
    BY <1>1, <1>3 DEF Flush
  <2> DEFINE all == 0 .. Source[f] - 1
  <2>2. IsFiniteSet(all) /\ Cardinality(all) = Source[f]
    <3> DEFINE b == Source[f] - 1
    <3>1. b \in Int /\ b >= 0 /\ 0 \in Int /\ all = 0 .. b
      BY <1>1
    <3> HIDE DEF b, all
    <3>2. IsFiniteSet(0 .. b) /\ Cardinality(0 .. b) = IF 0 > b THEN 0 ELSE b - 0 + 1
      BY <3>1, FS_Interval
    <3> QED
      BY <1>1, <3>1, <3>2 DEF b
  <2>3. SourcePresent(fp) \in SUBSET all
    BY PresentFinite
  <2>4. Cardinality(SourcePresent(fp)) <= Cardinality(all)
    BY <2>2, <2>3, FS_Subset
  <2>5. Cardinality(SourcePresent(fp)) = Cardinality(all)
    BY <1>1, <1>3, <2>2, <2>4 DEF Counted
  <2>6. SourcePresent(fp) = all
    BY <2>2, <2>3, <2>5, FS_Subset
  <2>7. \A i \in all : fp.unit_slots[i] = f
    BY <1>1, <1>2, <2>6 DEF SourcePresent, Present
  <2> QED
    BY <2>1, <2>7
<1>4. CASE ~(fp.units_source_received >= fp.units_source_expected)
  <2>1. Cardinality(Erasures(fp)) <= fp.units_fec_expected
    BY <1>1, ErasureCount DEF FlushPossible
  <2>2. Flush(fp) = [result |-> "FEC_SUCCESS", fp |-> Recovered(fp)]
    BY <1>1, <1>4, <2>1 DEF Flush
  <2> DEFINE frames == {fp.unit_slots[i] : i \in Present(fp)}
  <2>3. Present(fp) # {}
    <3>1. Cardinality({}) = 0
      BY FS_EmptySet
    <3>2. fp.units_source_received + fp.units_fec_received = Cardinality(Present(fp))
      BY DEF Counted
    <3>3. fp.units_source_received + fp.units_fec_received >= Source[f]
      BY <1>1 DEF FlushPossible
    <3> QED
      <4>1. Cardinality(Present(fp)) > 0
        BY <1>1, <3>2, <3>3
      <4> QED
        BY <3>1, <4>1
  <2>4. frames = {f}
    BY <1>1, <2>3, PresentFinite DEF Present
  <2>5. Cardinality(frames) = 1 /\ (CHOOSE g \in frames : TRUE) = f
    BY <2>4, FS_Singleton
  <2>6. Recovered(fp) = [fp EXCEPT !.unit_slots =
                             [i \in DOMAIN fp.unit_slots |->
                                 IF i < fp.units_source_expected /\ i \in Erasures(fp)
                                 THEN f ELSE fp.unit_slots[i]]]
    <3> DEFINE frame == IF Cardinality(frames) = 1 THEN CHOOSE g \in frames : TRUE ELSE NoFrame
    <3>1. Recovered(fp) = [fp EXCEPT !.unit_slots =
                               [i \in DOMAIN fp.unit_slots |->
                                   IF i < fp.units_source_expected /\ i \in Erasures(fp)
                                   THEN frame ELSE fp.unit_slots[i]]]
      BY Zenon DEF Recovered
    <3>2. frame = f
      BY <2>5
    <3> HIDE DEF frame
    <3> QED
      BY <3>1, <3>2
  <2> DEFINE slots == [i \in SlotsOf(f) |->
                          IF i < Source[f] /\ i \in Erasures(fp) THEN f ELSE fp.unit_slots[i]]
  <2>7. Recovered(fp) = [fp EXCEPT !.unit_slots = slots]
    BY <1>1, <2>6
  <2>8. slots \in [SlotsOf(f) -> {NoFrame, f}]
    BY <1>1
  <2>9. \A i \in 0 .. Source[f] - 1 : slots[i] = f
    BY <1>1, <1>2 DEF Erasures, Present
  <2> HIDE DEF slots
  <2>10. slots \in UNION {[0 .. n - 1 -> Frames \cup {NoFrame}] : n \in Nat}
    BY <2>8, SlotsType
  <2>11. Filling(Recovered(fp), f) /\ Recovered(fp).unit_slots = slots
    BY <2>7, <2>8, <2>10 DEF Filling, Processors
  <2> QED
    BY <2>2, <2>9, <2>11
<1> QED
  BY <1>3, <1>4

-----------------------------------------------------------------------------
(* The receiver                                                            *)

WrappedIndex(f) == IF f = NoFrame THEN NoIndex ELSE f % SeqMod

(* The frames are at hand in this order, the indices are theirs.           *)
IndicesTrue ==
    /\ lastCompleted <= lastShown /\ lastShown <= newest
    /\ newest - lastCompleted <= SeqHalf
    /\ vr.frame_index_cur = WrappedIndex(newest)
    /\ vr.frame_index_prev = WrappedIndex(lastShown)
    /\ vr.frame_index_prev_complete = lastCompleted % SeqMod

(* The processor collects the newest frame, which is handed over as soon   *)
(* as that is possible.                                                    *)
ProcessorTrue ==
    newest # NoFrame =>
        /\ Filling(vr.fp, newest)
        /\ newest # lastShown => Counted(vr.fp) /\ ~FlushPossible(vr.fp)

(* Nothing is reported that can still be completed.                        *)
ReportsTrue ==
    /\ \A g \in reported : g < newest
    /\ \A g \in completed : g <= lastCompleted
    /\ lastCompleted # NoFrame => lastCompleted \in completed

VideoInv ==
    /\ VideoTypeOK
    /\ IndicesTrue
    /\ ProcessorTrue
    /\ ReportsTrue
    /\ EveryFrameSettled
    /\ CompleteIsWhole

(* The indices of frames that are near tell them apart. *)
LEMMA WrappedDiffers ==
    ASSUME NEW a \in Nat, NEW b \in Nat, a - b < SeqMod, b - a < SeqMod
    PROVE  WrappedIndex(a) = WrappedIndex(b) <=> a = b
<1>1. a % SeqMod \in SeqNums /\ b % SeqMod \in SeqNums
  BY ModType
<1>2. a % SeqMod # NoIndex /\ b % SeqMod # NoIndex
  BY <1>1, SeqModType DEF SeqNums, NoIndex
<1>3. a % SeqMod = b % SeqMod => a = b
  BY ModInjective
<1> QED
  BY <1>2, <1>3 DEF WrappedIndex

(* The receiver r becomes r2 and, if shows, has handed frame f over. *)
PutDone(r, out, f, u, takes, r2, shows) ==
    /\ Put([vr |-> r, out |-> out], f, u, takes) =
          [vr |-> r2,
           out |-> IF shows
                   THEN Append(out, [frame |-> f, done |-> takes,
                                     header |-> r.profile_cur, whole |-> TRUE])
                   ELSE out]
    /\ shows => r.frame_index_cur # r.frame_index_prev
    /\ r2.frame_index_cur = r.frame_index_cur
    /\ r2.frame_index_prev = IF shows THEN r.frame_index_cur ELSE r.frame_index_prev
    /\ r2.frame_index_prev_complete =
          IF shows /\ takes THEN r.frame_index_cur ELSE r.frame_index_prev_complete
    /\ Filling(r2.fp, f)
    /\ r2.frame_index_cur # r2.frame_index_prev =>
          Counted(r2.fp) /\ ~FlushPossible(r2.fp)

(* What is put into a slot may complete the frame, which then goes to the   *)
(* decoder whole (videoreceiver.c:117).                                     *)
LEMMA PutEffect ==
    ASSUME NEW f \in Frames, NEW u \in Units(f), NEW takes \in BOOLEAN,
           NEW r \in Receivers, NEW out,
           r.frame_index_cur \in SeqNums, Filling(r.fp, f),
           r.frame_index_cur # r.frame_index_prev => Counted(r.fp)
    PROVE  \E r2 \in Receivers, shows \in BOOLEAN : PutDone(r, out, f, u, takes, r2, shows)
<1> DEFINE p == PutUnit(r.fp, f, u)
           q == [r EXCEPT !.fp = p]
           put == [vr |-> q, out |-> out]
<1>1. Filling(p, f) /\ (Counted(r.fp) => Counted(p))
  BY PutFills
<1> HIDE DEF p
<1>2. p \in Processors /\ p.units_source_expected = Source[f]
  BY <1>1 DEF Filling
<1>3. /\ q \in Receivers /\ q.fp = p
      /\ q.frame_index_cur = r.frame_index_cur /\ q.frame_index_prev = r.frame_index_prev
      /\ q.frame_index_prev_complete = r.frame_index_prev_complete
      /\ q.profile_cur = r.profile_cur
  BY <1>2 DEF Receivers
<1>4. [[vr |-> r, out |-> out] EXCEPT !.vr.fp = PutUnit(@, f, u)] = put
  BY DEF p
<1> HIDE DEF q
<1>5. put.vr = q /\ put.out = out
  OBVIOUS
<1>6. Put([vr |-> r, out |-> out], f, u, takes) =
          IF q.frame_index_cur # q.frame_index_prev /\ FlushPossible(q.fp)
          THEN FlushFrame(put, f, takes) ELSE put
  BY <1>4, <1>5 DEF Put
<1> HIDE DEF put
<1>7. CASE q.frame_index_cur # q.frame_index_prev /\ FlushPossible(q.fp)
  <2> DEFINE flush == Flush(p)
             r2 == [q EXCEPT !.fp = flush.fp, !.frame_index_prev = q.frame_index_cur,
                             !.frame_index_prev_complete =
                                 IF takes THEN q.frame_index_cur ELSE q.frame_index_prev_complete]
             shot == [frame |-> f, done |-> takes, header |-> r.profile_cur, whole |-> TRUE]
  <2>1. /\ flush.result \in {"SUCCESS", "FEC_SUCCESS"}
        /\ Filling(flush.fp, f)
        /\ \A i \in 0 .. Source[f] - 1 : flush.fp.unit_slots[i] = f
    BY <1>1, <1>3, <1>7, FlushSucceeds
  <2> HIDE DEF flush
  <2>2. flush.result # "FAILED" /\ (flush.result # "FEC_FAILED" /\ takes) = takes
    BY <2>1
  <2>3. (\A i \in 0 .. p.units_source_expected - 1 : flush.fp.unit_slots[i] = f) = TRUE
    BY <1>2, <2>1
  <2>4. FlushFrame(put, f, takes) = [vr |-> r2, out |-> Append(out, shot)]
    BY <1>3, <1>5, <2>2, <2>3 DEF FlushFrame, flush
  <2>5. flush.fp \in Processors
    BY <2>1 DEF Filling
  <2>6. /\ r2 \in Receivers /\ r2.fp = flush.fp
        /\ r2.frame_index_cur = r.frame_index_cur /\ r2.frame_index_prev = r.frame_index_cur
        /\ r2.frame_index_prev_complete =
              IF takes THEN r.frame_index_cur ELSE r.frame_index_prev_complete
    BY <1>3, <2>5 DEF Receivers
  <2> HIDE DEF r2, shot
  <2>7. Put([vr |-> r, out |-> out], f, u, takes) = [vr |-> r2, out |-> Append(out, shot)]
    BY <1>6, <1>7, <2>4
  <2> r2 \in Receivers
    BY <2>6
  <2> WITNESS r2 \in Receivers, TRUE \in BOOLEAN
  <2> QED
    BY <1>3, <1>7, <2>1, <2>6, <2>7 DEF shot, PutDone
<1>8. CASE ~(q.frame_index_cur # q.frame_index_prev /\ FlushPossible(q.fp))
  <2>1. Put([vr |-> r, out |-> out], f, u, takes) = [vr |-> q, out |-> out]
    BY <1>6, <1>8 DEF put
  <2> q \in Receivers
    BY <1>3
  <2> WITNESS q \in Receivers, FALSE \in BOOLEAN
  <2> QED
    BY <1>1, <1>3, <1>8, <2>1 DEF PutDone
<1> QED
  BY <1>7, <1>8

(* A frame that is given up has too few units, so that it never counts as  *)
(* complete (videoreceiver.c:75).                                          *)
LEMMA GiveUpEffect ==
    ASSUME VideoTypeOK, IndicesTrue, ProcessorTrue,
           NEW p \in 0 .. Profiles - 1, NEW gives \in BOOLEAN
    PROVE  \E w \in BOOLEAN :
              GiveUp([vr |-> [vr EXCEPT !.profile_cur = p], out |-> <<>>], gives) =
                 IF newest # NoFrame /\ newest # lastShown
                 THEN [vr |-> [vr EXCEPT !.profile_cur = p,
                                         !.frame_index_prev = vr.frame_index_cur],
                       out |-> <<[frame |-> newest, done |-> FALSE, header |-> p, whole |-> w]>>]
                 ELSE [vr |-> [vr EXCEPT !.profile_cur = p], out |-> <<>>]
<1> DEFINE r == [vr EXCEPT !.profile_cur = p]
           v == [vr |-> r, out |-> <<>>]
<1>1. vr \in Receivers /\ newest \in Nat /\ lastShown \in Nat /\ lastCompleted \in Nat
  BY DEF VideoTypeOK, Frames, NoFrame
<1>2. /\ r.frame_index_cur = vr.frame_index_cur /\ r.frame_index_prev = vr.frame_index_prev
      /\ r.fp = vr.fp /\ r.profile_cur = p
      /\ r.frame_index_prev_complete = vr.frame_index_prev_complete
      /\ r \in [frame_index_cur : SeqNums \cup {NoIndex}, frame_index_prev : SeqNums \cup {NoIndex},
                frame_index_prev_complete : SeqNums, profile_cur : 0 .. Profiles - 1,
                profiles_count : {0, Profiles}, fp : Processors]
  BY <1>1 DEF Receivers
<1>3. (r.frame_index_cur >= 0 /\ r.frame_index_prev # r.frame_index_cur)
         <=> (newest # NoFrame /\ newest # lastShown)
  BY <1>1, <1>2, WrappedDiffers, SeqModType, ModType
     DEF IndicesTrue, WrappedIndex, NoIndex, NoFrame, SeqNums
<1> HIDE DEF r
<1>4. v.vr = r /\ v.out = <<>>
  OBVIOUS
<1>5. GiveUp(v, gives) = IF newest # NoFrame /\ newest # lastShown
                         THEN FlushFrame(v, newest, gives) ELSE v
  BY <1>3, <1>4 DEF GiveUp
<1> HIDE DEF v
<1>6. CASE newest # NoFrame /\ newest # lastShown
  <2> DEFINE w == \A i \in 0 .. r.fp.units_source_expected - 1 : r.fp.unit_slots[i] = newest
  <2>1. newest \in Frames
    BY <1>6 DEF VideoTypeOK
  <2>2. Filling(r.fp, newest) /\ Counted(r.fp) /\ ~FlushPossible(r.fp)
    BY <1>2, <1>6 DEF ProcessorTrue
  <2>3. Flush(r.fp) = [result |-> "FEC_FAILED", fp |-> r.fp]
    BY <2>1, <2>2, FlushFails
  <2> DEFINE flush == Flush(r.fp)
  <2>4. flush.result = "FEC_FAILED" /\ flush.fp = r.fp
    BY <2>3
  <2> HIDE DEF flush
  <2>5. (flush.result # "FEC_FAILED" /\ gives) = FALSE /\ flush.result # "FAILED"
    BY <2>4
  <2>6. FlushFrame(v, newest, gives) =
           [vr |-> [r EXCEPT !.fp = r.fp, !.frame_index_prev = r.frame_index_cur,
                             !.frame_index_prev_complete = r.frame_index_prev_complete],
            out |-> Append(<<>>, [frame |-> newest, done |-> FALSE, header |-> r.profile_cur,
                                  whole |-> w])]
    BY <1>4, <2>4, <2>5 DEF FlushFrame, flush
  <2>7. [r EXCEPT !.fp = r.fp, !.frame_index_prev = r.frame_index_cur,
                  !.frame_index_prev_complete = r.frame_index_prev_complete]
           = [vr EXCEPT !.profile_cur = p, !.frame_index_prev = vr.frame_index_cur]
    BY <1>1, <1>2 DEF r, Receivers
  <2> HIDE DEF w
  <2>8. Append(<<>>, [frame |-> newest, done |-> FALSE, header |-> r.profile_cur, whole |-> w])
           = <<[frame |-> newest, done |-> FALSE, header |-> p, whole |-> w]>>
    BY <1>2
  <2>9. w \in BOOLEAN
    BY DEF w
  <2> QED
    BY <1>5, <1>6, <2>6, <2>7, <2>8, <2>9 DEF v, r
<1>7. CASE ~(newest # NoFrame /\ newest # lastShown)
  BY <1>5, <1>7 DEF v, r
<1> QED
  BY <1>6, <1>7

(* The indices that are reported mean the frames behind the last complete  *)
(* one (videoreceiver.c:83), as long as those are less than half a circle. *)
LEMMA CorruptEffect ==
    ASSUME NEW v, NEW f \in Frames, newest \in Nat, lastCompleted \in Nat,
           lastCompleted <= newest, newest < f,
           f - lastCompleted <= SeqHalf, f - newest < SeqHalf,
           v.vr.frame_index_prev_complete = lastCompleted % SeqMod,
           v.vr.frame_index_cur = WrappedIndex(newest)
    PROVE  Meant(Corrupt(v, f % SeqMod), f) = {g \in Frames : lastCompleted < g /\ g < f}
<1> DEFINE c == lastCompleted + 1
           d == f - c
           e == SeqAdd(v.vr.frame_index_prev_complete, 1)
           index == f % SeqMod
           last == SeqAdd(index, -1)
<1>1. f \in Nat /\ c \in Nat /\ d \in Nat /\ d < SeqHalf /\ f = c + d
  BY FrameType, SeqModType
<1>2. SeqMod \in Nat /\ SeqHalf \in Nat /\ SeqMod = 2 * SeqHalf /\ SeqHalf > 1
  BY SeqModType, VideoAssumption
<1>3. e = c % SeqMod
  BY <1>2, ModAdd
<1>4. SeqGt(index, e) <=> d > 0
  <2>1. f - c < SeqHalf /\ c - f < SeqHalf
    BY <1>1, <1>2
  <2> HIDE DEF c
  <2>2. SeqGt(f % SeqMod, c % SeqMod) <=> f > c
    BY <1>1, <2>1, ModOrder
  <2> QED
    BY <1>1, <1>3, <2>2
<1>5. index = 1 /\ v.vr.frame_index_cur < 0 => d = 0
  <2> SUFFICES ASSUME index = 1, v.vr.frame_index_cur < 0 PROVE d = 0
    OBVIOUS
  <2>1. newest % SeqMod \in SeqNums
    BY ModType
  <2>2. newest = 0
    BY <2>1, <1>2 DEF WrappedIndex, NoFrame, SeqNums
  <2>3. 1 % SeqMod = 1
    BY <1>2, ModCases, SeqModType
  <2>4. f = 1
    BY <1>1, <1>2, <2>2, <2>3, ModInjective
  <2> QED
    BY <2>2, <2>4
<1>6. d > 0 => SeqDist(e, last) = d - 1
  <2> SUFFICES ASSUME d > 0 PROVE SeqDist(e, last) = d - 1
    OBVIOUS
  <2> DEFINE x == f - 1
             s == x % SeqMod
             y == index - 1
  <2>1. x \in Nat /\ f = x + 1 /\ x = c + (d - 1) /\ d - 1 \in Nat /\ d - 1 < SeqMod
    BY <1>1, <1>2
  <2> HIDE DEF x
  <2>2. s \in SeqNums
    BY <2>1, ModType
  <2>3. index = IF s + 1 < SeqMod THEN s + 1 ELSE s + 1 - SeqMod
    <3>1. 1 \in Nat /\ 1 < SeqMod
      BY <1>2
    <3>2. (x + 1) % SeqMod = IF (x % SeqMod) + 1 < SeqMod
                             THEN (x % SeqMod) + 1 ELSE (x % SeqMod) + 1 - SeqMod
      BY <2>1, <3>1, ModAhead
    <3> QED
      BY <2>1, <3>2
  <2> HIDE DEF s, index
  <2>4. y \in Int /\ -SeqMod <= y /\ y < 2 * SeqMod
    BY <1>2, <2>2, <2>3 DEF SeqNums
  <2>5. y = IF s + 1 < SeqMod THEN s ELSE s - SeqMod
    BY <1>2, <2>2, <2>3 DEF SeqNums
  <2>6. index + (-1) = y
    BY <1>2, <2>2, <2>3 DEF SeqNums
  <2> HIDE DEF y
  <2>7. y % SeqMod = IF y < 0 THEN y + SeqMod ELSE IF y < SeqMod THEN y ELSE y - SeqMod
    BY <2>4, ModCases, SeqModType
  <2>8. last = s
    BY <1>2, <2>2, <2>5, <2>6, <2>7 DEF SeqAdd, SeqNums
  <2>9. SeqAdd(e, d - 1) = s
    <3> HIDE DEF c, d, e
    <3>1. SeqAdd(c % SeqMod, d - 1) = (c + (d - 1)) % SeqMod
      BY <1>1, <2>1, ModAdd
    <3> QED
      BY <1>3, <2>1, <3>1 DEF s
  <2>10. e \in SeqNums
    BY <1>1, <1>3, ModType
  <2> HIDE DEF c, d, e, last
  <2>11. d - 1 \in 0 .. SeqMod - 1
    BY <1>2, <2>1
  <2>12. SeqDist(e, SeqAdd(e, d - 1)) = d - 1
    BY <2>10, <2>11, SeqDistAdd
  <2> QED
    BY <2>8, <2>9, <2>12
<1>7. Corrupt(v, index) = {SeqAdd(e, k) : k \in 0 .. d - 1}
  <2> HIDE DEF c, d, e, index, last
  <2>1. Corrupt(v, index) = IF SeqGt(index, e) /\ ~(index = 1 /\ v.vr.frame_index_cur < 0)
                            THEN {SeqAdd(e, k) : k \in 0 .. SeqDist(e, last)} ELSE {}
    BY DEF Corrupt, e, last
  <2>2. CASE d > 0
    BY <1>4, <1>5, <1>6, <2>1, <2>2
  <2>3. CASE d = 0
    <3>1. {SeqAdd(e, k) : k \in 0 .. d - 1} = {}
      BY <2>3
    <3> QED
      BY <1>4, <2>1, <2>3, <3>1
  <2> QED
    BY <1>1, <2>2, <2>3
<1>8. \A k \in 0 .. d - 1 : SeqAdd(e, k) = (c + k) % SeqMod
  <2> TAKE k \in 0 .. d - 1
  <2>1. k \in Nat /\ k < SeqMod
    BY <1>1, <1>2
  <2> HIDE DEF c, d, e
  <2> QED
    BY <1>1, <1>3, <2>1, ModAdd
<1>9. ASSUME NEW g \in Frames, g < f
      PROVE  (f - g < SeqMod /\ g % SeqMod \in Corrupt(v, index)) <=> lastCompleted < g
  <2>1. g \in Nat
    BY FrameType
  <2>2. ASSUME f - g < SeqMod, g % SeqMod \in Corrupt(v, index) PROVE lastCompleted < g
    <3>1. PICK k \in 0 .. d - 1 : g % SeqMod = SeqAdd(e, k)
      BY <1>7, <2>2
    <3>2. g % SeqMod = (c + k) % SeqMod
      BY <1>8, <3>1
    <3>3. c + k \in Nat /\ g - (c + k) < SeqMod /\ (c + k) - g < SeqMod
      BY <1>1, <1>2, <1>9, <2>1, <2>2
    <3>4. g = c + k
      BY <2>1, <3>2, <3>3, ModInjective
    <3> QED
      BY <3>4
  <2>3. ASSUME lastCompleted < g PROVE f - g < SeqMod /\ g % SeqMod \in Corrupt(v, index)
    <3> DEFINE k == g - c
    <3>1. k \in 0 .. d - 1 /\ c + k = g
      BY <1>1, <1>9, <2>1, <2>3
    <3> HIDE DEF k, c, d, e, index
    <3>2. g % SeqMod = SeqAdd(e, k)
      BY <1>8, <3>1
    <3>3. g % SeqMod \in Corrupt(v, index)
      BY <1>7, <3>1, <3>2
    <3> QED
      BY <1>1, <1>2, <2>1, <2>3, <3>3 DEF c, d
  <2> QED
    BY <2>2, <2>3
<1> HIDE DEF index
<1>10. Meant(Corrupt(v, index), f) = {g \in Frames : lastCompleted < g /\ g < f}
  BY <1>9 DEF Meant
<1> QED
  BY <1>10 DEF index

(* What a packet shows: the frame that is given up, the frame it completes. *)
Outs(given, shows, a, b) ==
    IF given THEN IF shows THEN <<a, b>> ELSE <<a>>
             ELSE IF shows THEN <<b>> ELSE <<>>

LEMMA NoteEffect ==
    ASSUME NEW given \in BOOLEAN, NEW shows \in BOOLEAN, NEW a, NEW b,
           a.done = FALSE, b.done \in BOOLEAN,
           Note(Outs(given, shows, a, b))
    PROVE  /\ shown' = Outs(given, shows, a, b)
           /\ lastShown' = IF shows THEN b.frame ELSE IF given THEN a.frame ELSE lastShown
           /\ completed' = IF shows /\ b.done THEN completed \cup {b.frame} ELSE completed
           /\ lastCompleted' = IF shows /\ b.done THEN b.frame ELSE lastCompleted
<1> DEFINE out == Outs(given, shows, a, b)
           done == {i \in DOMAIN out : out[i].done}
           last == CHOOSE i \in done : \A j \in done : j <= i
<1>1. /\ shown' = out
      /\ lastShown' = IF out = <<>> THEN lastShown ELSE out[Len(out)].frame
      /\ completed' = completed \cup {out[i].frame : i \in done}
      /\ lastCompleted' = IF done = {} THEN lastCompleted ELSE out[last].frame
  BY DEF Note
<1>2. /\ (out = <<>>) = ~(given \/ shows)
      /\ given \/ shows => out[Len(out)] = IF shows THEN b ELSE a
  BY DEF Outs
<1>3. CASE shows /\ b.done
  <2> DEFINE n == IF given THEN 2 ELSE 1
  <2>1. done = {n} /\ out[n] = b
    BY <1>3 DEF Outs
  <2>2. last = n
    BY <2>1
  <2>3. {out[i].frame : i \in done} = {b.frame}
    BY <2>1
  <2> HIDE DEF out, done, last, n
  <2> QED
    BY <1>1, <1>2, <1>3, <2>1, <2>2, <2>3 DEF out
<1>4. CASE ~(shows /\ b.done)
  <2>1. done = {}
    BY <1>4 DEF Outs
  <2> HIDE DEF out, done, last
  <2> QED
    BY <1>1, <1>2, <1>4, <2>1 DEF out
<1> QED
  BY <1>3, <1>4

(* The order of the indices is that of the frames. *)
LEMMA PacketOrder ==
    ASSUME VideoTypeOK, IndicesTrue, NEW f \in Frames, Near(f)
    PROVE  /\ IsOld(f % SeqMod) <=> f < newest
           /\ IsNext(f % SeqMod) <=> f > newest
<1>1. f \in Nat /\ f > 0 /\ newest \in Nat
  BY DEF VideoTypeOK, Frames, NoFrame
<1>2. newest % SeqMod \in SeqNums /\ newest % SeqMod >= 0
  BY <1>1, ModType DEF SeqNums
<1>3. /\ SeqGt(f % SeqMod, newest % SeqMod) <=> f > newest
      /\ SeqLt(f % SeqMod, newest % SeqMod) <=> f < newest
  BY <1>1, ModOrder DEF Near
<1>4. vr.frame_index_cur = IF newest = 0 THEN -1 ELSE newest % SeqMod
  BY DEF IndicesTrue, WrappedIndex, NoFrame, NoIndex
<1>5. CASE newest = 0
  BY <1>1, <1>4, <1>5 DEF IsOld, IsNext
<1>6. CASE newest # 0
  <2> DEFINE q == newest % SeqMod
             index == f % SeqMod
  <2>1. vr.frame_index_cur = q /\ q >= 0
    BY <1>2, <1>4, <1>6
  <2>2. q \in Int
    BY <1>2 DEF SeqNums
  <2>3. (SeqGt(index, q) <=> f > newest) /\ (SeqLt(index, q) <=> f < newest)
    BY <1>3
  <2> HIDE DEF q, index
  <2>4. /\ IsOld(index) <=> f < newest
        /\ IsNext(index) <=> f > newest
    BY <2>1, <2>2, <2>3 DEF IsOld, IsNext
  <2> QED
    BY <2>4 DEF index
<1> QED
  BY <1>5, <1>6

(* The receiver when the frame of a packet is the current one and the one  *)
(* before it was given up: at is the newest frame shown by then.           *)
Ready(r, f, at) ==
    /\ r \in Receivers
    /\ r.frame_index_cur = f % SeqMod
    /\ r.frame_index_prev = WrappedIndex(at)
    /\ r.frame_index_prev_complete = lastCompleted % SeqMod
    /\ r.profile_cur = Profile[f]
    /\ Filling(r.fp, f)
    /\ f # at => Counted(r.fp)

Given(f) == f > newest /\ newest # NoFrame /\ newest # lastShown

ShownBy(f) == IF Given(f) THEN newest ELSE lastShown

GivenUp(f, w) ==
    [frame |-> newest, done |-> FALSE, header |-> Profile[f], whole |-> w]

Completed(f, takes) ==
    [frame |-> f, done |-> takes, header |-> Profile[f], whole |-> TRUE]

LEMMA ReadyEffect ==
    ASSUME VideoTypeOK, IndicesTrue, ProcessorTrue,
           NEW f \in Frames, Near(f), f >= newest, NEW gives \in BOOLEAN
    PROVE  LET index == f % SeqMod
               v0 == [vr |-> [vr EXCEPT !.profile_cur = Profile[f]], out |-> <<>>]
               v1 == IF IsNext(index) THEN GiveUp(v0, gives) ELSE v0
               v2 == IF IsNext(index) THEN NextFrame(v1, f) ELSE v1
           IN  /\ \E w \in BOOLEAN, r \in Receivers :
                     /\ v2 = [vr |-> r, out |-> IF Given(f) THEN <<GivenUp(f, w)>> ELSE <<>>]
                     /\ Ready(r, f, ShownBy(f))
               /\ IsNext(index) => v1.vr.frame_index_cur = vr.frame_index_cur
                                   /\ v1.vr.frame_index_prev_complete = vr.frame_index_prev_complete
<1> DEFINE index == f % SeqMod
           p == Profile[f]
           r0 == [vr EXCEPT !.profile_cur = p]
           r1 == [vr EXCEPT !.profile_cur = p, !.frame_index_prev = vr.frame_index_cur]
           v0 == [vr |-> r0, out |-> <<>>]
           v1 == IF IsNext(index) THEN GiveUp(v0, gives) ELSE v0
           v2 == IF IsNext(index) THEN NextFrame(v1, f) ELSE v1
<1>1. /\ f \in Nat /\ f > 0 /\ newest \in Nat /\ lastShown \in Nat /\ lastCompleted \in Nat
      /\ vr \in Receivers /\ p \in 0 .. Profiles - 1
  BY FrameType DEF VideoTypeOK, Frames, NoFrame
<1>2. IsNext(index) <=> f > newest
  BY PacketOrder
<1>3. /\ vr.frame_index_cur = WrappedIndex(newest)
      /\ vr.frame_index_prev = WrappedIndex(lastShown)
      /\ vr.frame_index_prev_complete = lastCompleted % SeqMod
      /\ lastShown <= newest
  BY DEF IndicesTrue
<1>4. /\ r0 \in Receivers /\ r0.frame_index_cur = vr.frame_index_cur
      /\ r0.frame_index_prev = vr.frame_index_prev
      /\ r0.frame_index_prev_complete = vr.frame_index_prev_complete
      /\ r0.profile_cur = p /\ r0.fp = vr.fp
  BY <1>1 DEF Receivers
<1>5. /\ r1 \in Receivers /\ r1.frame_index_cur = vr.frame_index_cur
      /\ r1.frame_index_prev = vr.frame_index_cur
      /\ r1.frame_index_prev_complete = vr.frame_index_prev_complete
      /\ r1.profile_cur = p /\ r1.fp = vr.fp
  BY <1>1 DEF Receivers
<1>6. index \in SeqNums
  BY <1>1, ModType
<1>7. PICK w \in BOOLEAN :
          GiveUp(v0, gives) = IF newest # NoFrame /\ newest # lastShown
                              THEN [vr |-> r1, out |-> <<GivenUp(f, w)>>]
                              ELSE [vr |-> r0, out |-> <<>>]
  BY <1>1, GiveUpEffect DEF GivenUp
<1> HIDE DEF r0, r1, p, index
<1>8. CASE f > newest
  <2> DEFINE r == IF Given(f) THEN r1 ELSE r0
             out == IF Given(f) THEN <<GivenUp(f, w)>> ELSE <<>>
             fp == AllocFrame(r.fp, f)
             r2 == [r EXCEPT !.frame_index_cur = index, !.fp = fp]
  <2>1. v1 = [vr |-> r, out |-> out]
    BY <1>2, <1>7, <1>8 DEF Given
  <2>2. /\ r \in Receivers /\ r.frame_index_cur = vr.frame_index_cur
        /\ r.frame_index_prev = WrappedIndex(ShownBy(f))
        /\ r.frame_index_prev_complete = vr.frame_index_prev_complete
        /\ r.profile_cur = p
    BY <1>3, <1>4, <1>5 DEF ShownBy
  <2>3. Filling(fp, f) /\ Counted(fp)
    BY AllocFills
  <2> HIDE DEF r, out, fp
  <2>4. v2 = [vr |-> r2, out |-> out]
    <3>1. NextFrame([vr |-> r, out |-> out], f) = [vr |-> r2, out |-> out]
      <4> DEFINE q == [r EXCEPT !.frame_index_cur = index]
                 v == [vr |-> r, out |-> out]
      <4>1. [v EXCEPT !.vr.frame_index_cur = index] = [vr |-> q, out |-> out]
        OBVIOUS
      <4>2. q.fp = r.fp /\ r2 = [q EXCEPT !.fp = fp]
        BY <2>2 DEF Receivers
      <4> HIDE DEF q, r2
      <4>3. [[vr |-> q, out |-> out] EXCEPT !.vr.fp = AllocFrame(@, f)] = [vr |-> r2, out |-> out]
        BY <4>2 DEF fp
      <4>4. NextFrame(v, f) = [[v EXCEPT !.vr.frame_index_cur = index]
                                  EXCEPT !.vr.fp = AllocFrame(@, f)]
        BY DEF NextFrame, index
      <4> QED
        BY <4>1, <4>3, <4>4
    <3> HIDE DEF v1
    <3> QED
      BY <1>2, <1>8, <2>1, <3>1
  <2>5. fp \in Processors
    BY <2>3 DEF Filling
  <2>6. /\ r2 \in Receivers /\ r2.frame_index_cur = index /\ r2.fp = fp
        /\ r2.frame_index_prev = r.frame_index_prev /\ r2.profile_cur = p
        /\ r2.frame_index_prev_complete = r.frame_index_prev_complete
    BY <1>6, <2>2, <2>5 DEF Receivers
  <2> HIDE DEF r2
  <2>7. Ready(r2, f, ShownBy(f))
    BY <1>3, <2>2, <2>3, <2>6 DEF Ready, index, p
  <2>8. v1.vr = r
    BY <2>1
  <2> HIDE DEF v1, v2
  <2> QED
    BY <2>2, <2>4, <2>6, <2>7, <2>8 DEF v0, v1, v2, out, index, r0, p
<1>9. CASE f = newest
  <2>1. v2 = [vr |-> r0, out |-> <<>>] /\ ~IsNext(index)
    BY <1>1, <1>2, <1>9
  <2>2. ~Given(f) /\ ShownBy(f) = lastShown
    BY <1>1, <1>9 DEF Given, ShownBy
  <2>3. Filling(r0.fp, f) /\ (f # lastShown => Counted(r0.fp))
    BY <1>1, <1>4, <1>9 DEF ProcessorTrue, NoFrame
  <2>4. r0.frame_index_cur = f % SeqMod
    BY <1>1, <1>3, <1>4, <1>9 DEF WrappedIndex, NoFrame
  <2>5. Ready(r0, f, ShownBy(f))
    BY <1>3, <1>4, <2>2, <2>3, <2>4 DEF Ready, p
  <2> HIDE DEF v1, v2
  <2> QED
    BY <1>4, <2>1, <2>2, <2>5 DEF v0, v1, v2, index, r0, p
<1>10. f > newest \/ f = newest
  BY <1>1
<1> HIDE DEF v0, v1, v2
<1> QED
  BY <1>8, <1>9, <1>10 DEF v0, v1, v2, index, r0, p

LEMMA AppendOne == ASSUME NEW b PROVE Append(<<>>, b) = <<b>>
  OBVIOUS

LEMMA AppendTwo == ASSUME NEW a, NEW b PROVE Append(<<a>>, b) = <<a, b>>
<1> DEFINE S == {a, b}
           x == Append(<<a>>, b)
           y == <<a, b>>
<1>1. a \in S /\ b \in S
  OBVIOUS
<1> HIDE DEF S
<1>2. <<a>> \in Seq(S) /\ Len(<<a>>) = 1
  BY <1>1
<1>3. x \in Seq(S) /\ Len(x) = 2 /\ x[1] = a /\ x[2] = b
  BY <1>1, <1>2
<1>4. y \in Seq(S) /\ Len(y) = 2 /\ y[1] = a /\ y[2] = b
  BY <1>1
<1> HIDE DEF x, y
<1>5. Len(x) = Len(y) /\ \A i \in 1 .. Len(x) : x[i] = y[i]
  BY <1>3, <1>4
<1>6. x = y
  BY <1>3, <1>4, <1>5, SeqEqual
<1> QED
  BY <1>6 DEF x, y

(* What one packet does to the whole state. *)
Effect(f, takes, w, shows) ==
    LET at == IF shows THEN f ELSE ShownBy(f)
    IN  /\ shows => f # ShownBy(f)
        /\ newest' = f
        /\ shown' = Outs(Given(f), shows, GivenUp(f, w), Completed(f, takes))
        /\ lastShown' = at
        /\ completed' = IF shows /\ takes THEN completed \cup {f} ELSE completed
        /\ lastCompleted' = IF shows /\ takes THEN f ELSE lastCompleted
        /\ reported' = IF f > newest
                       THEN reported \cup {g \in Frames : lastCompleted < g /\ g < f}
                       ELSE reported
        /\ vr' \in Receivers
        /\ vr'.frame_index_cur = f % SeqMod
        /\ vr'.frame_index_prev = WrappedIndex(at)
        /\ vr'.frame_index_prev_complete =
              (IF shows /\ takes THEN f ELSE lastCompleted) % SeqMod
        /\ Filling(vr'.fp, f)
        /\ f # at => Counted(vr'.fp) /\ ~FlushPossible(vr'.fp)

LEMMA PacketEffect ==
    ASSUME VideoTypeOK, IndicesTrue, ProcessorTrue,
           NEW f \in Frames, Near(f), NEW u \in Units(f),
           NEW gives \in BOOLEAN, NEW takes \in BOOLEAN,
           VideoPacket(f, u, gives, takes)
    PROVE  /\ f >= newest
           /\ \E w \in BOOLEAN, shows \in BOOLEAN : Effect(f, takes, w, shows)
<1> DEFINE index == f % SeqMod
           v0 == [vr |-> [vr EXCEPT !.profile_cur = Profile[f]], out |-> <<>>]
           v1 == IF IsNext(index) THEN GiveUp(v0, gives) ELSE v0
           v2 == IF IsNext(index) THEN NextFrame(v1, f) ELSE v1
           v3 == Put(v2, f, u, takes)
           at == ShownBy(f)
<1>1. /\ ~IsOld(index)
      /\ vr' = v3.vr
      /\ newest' = IF IsNext(index) THEN f ELSE newest
      /\ reported' = IF IsNext(index)
                     THEN reported \cup Meant(Corrupt(v1, index), f) ELSE reported
      /\ Note(v3.out)
  BY DEF VideoPacket
<1>2. /\ f \in Nat /\ f > 0 /\ newest \in Nat /\ lastShown \in Nat /\ lastCompleted \in Nat
      /\ f - newest < SeqHalf /\ f - lastCompleted <= SeqHalf
      /\ lastCompleted <= lastShown /\ lastShown <= newest
  BY FrameType DEF VideoTypeOK, Frames, NoFrame, Near, IndicesTrue
<1>3. f >= newest /\ (IsNext(index) <=> f > newest)
  BY <1>1, <1>2, PacketOrder
<1>4. /\ \E w \in BOOLEAN, r \in Receivers :
             /\ v2 = [vr |-> r, out |-> IF Given(f) THEN <<GivenUp(f, w)>> ELSE <<>>]
             /\ Ready(r, f, at)
      /\ IsNext(index) => v1.vr.frame_index_cur = vr.frame_index_cur
                          /\ v1.vr.frame_index_prev_complete = vr.frame_index_prev_complete
  BY <1>3, ReadyEffect
<1> HIDE DEF v1, v2, index
<1>5. PICK w \in BOOLEAN, r \in Receivers :
          /\ v2 = [vr |-> r, out |-> IF Given(f) THEN <<GivenUp(f, w)>> ELSE <<>>]
          /\ Ready(r, f, at)
  BY <1>4
<1>6. /\ at \in Nat /\ lastCompleted <= at /\ at <= f
      /\ (WrappedIndex(f) = WrappedIndex(at) <=> f = at)
  <2>1. at \in Nat /\ lastCompleted <= at /\ at <= f
    BY <1>2, <1>3 DEF ShownBy
  <2> HIDE DEF at
  <2>2. f - at < SeqMod /\ at - f < SeqMod
    BY <1>2, <2>1, SeqModType
  <2> QED
    BY <1>2, <2>1, <2>2, WrappedDiffers
<1> HIDE DEF at
<1>7. WrappedIndex(f) = f % SeqMod
  BY <1>2 DEF WrappedIndex, NoFrame
<1>8. /\ r.frame_index_cur = f % SeqMod /\ r.frame_index_cur \in SeqNums
      /\ r.frame_index_prev = WrappedIndex(at)
      /\ r.frame_index_prev_complete = lastCompleted % SeqMod
      /\ r.profile_cur = Profile[f]
      /\ Filling(r.fp, f)
      /\ r.frame_index_cur # r.frame_index_prev <=> f # at
      /\ f # at => Counted(r.fp)
  BY <1>2, <1>5, <1>6, <1>7, ModType DEF Ready
<1> DEFINE out == IF Given(f) THEN <<GivenUp(f, w)>> ELSE <<>>
<1> HIDE DEF out
<1>17. PICK r2 \in Receivers, shows \in BOOLEAN : PutDone(r, out, f, u, takes, r2, shows)
  <2>1. r.frame_index_cur # r.frame_index_prev => Counted(r.fp)
    BY <1>8
  <2> QED
    BY <1>8, <2>1, PutEffect
<1>9. /\ r2 \in Receivers /\ shows \in BOOLEAN
      /\ Put([vr |-> r, out |-> out], f, u, takes) =
            [vr |-> r2, out |-> IF shows THEN Append(out, Completed(f, takes)) ELSE out]
      /\ shows => f # at
      /\ r2.frame_index_cur = f % SeqMod
      /\ r2.frame_index_prev = IF shows THEN f % SeqMod ELSE WrappedIndex(at)
      /\ r2.frame_index_prev_complete =
            IF shows /\ takes THEN f % SeqMod ELSE lastCompleted % SeqMod
      /\ Filling(r2.fp, f)
      /\ r2.frame_index_cur # r2.frame_index_prev =>
            Counted(r2.fp) /\ ~FlushPossible(r2.fp)
  BY <1>8, <1>17 DEF Completed, PutDone
<1>10. v3.vr = r2 /\ v3.out = (IF shows THEN Append(out, Completed(f, takes)) ELSE out)
  <2>1. v2 = [vr |-> r, out |-> out]
    BY <1>5 DEF out
  <2> DEFINE o3 == IF shows THEN Append(out, Completed(f, takes)) ELSE out
  <2>2. v3 = [vr |-> r2, out |-> o3]
    <3> HIDE DEF o3
    <3>1. Put([vr |-> r, out |-> out], f, u, takes) = [vr |-> r2, out |-> o3]
      BY <1>9 DEF o3
    <3> QED
      BY <2>1, <3>1
  <2> HIDE DEF v3
  <2> QED
    BY <2>2
<1>11. v3.out = Outs(Given(f), shows, GivenUp(f, w), Completed(f, takes))
  <2> DEFINE a == GivenUp(f, w)
             b == Completed(f, takes)
  <2> HIDE DEF v3
  <2>1. out = IF Given(f) THEN <<a>> ELSE <<>>
    BY DEF out
  <2> HIDE DEF a, b
  <2>2. Append(<<a>>, b) = <<a, b>> /\ Append(<<>>, b) = <<b>>
    BY AppendTwo, AppendOne
  <2>3. v3.out = IF shows THEN Append(out, b) ELSE out
    BY <1>10 DEF b
  <2>4. v3.out = Outs(Given(f), shows, a, b)
    BY <2>1, <2>2, <2>3 DEF Outs
  <2> QED
    BY <2>4 DEF a, b
<1> HIDE DEF v3
<1> DEFINE a == GivenUp(f, w)
           b == Completed(f, takes)
<1>12. /\ shown' = Outs(Given(f), shows, a, b)
       /\ lastShown' = IF shows THEN f ELSE IF Given(f) THEN newest ELSE lastShown
       /\ completed' = IF shows /\ takes THEN completed \cup {f} ELSE completed
       /\ lastCompleted' = IF shows /\ takes THEN f ELSE lastCompleted
  <2>1. a.done = FALSE /\ a.frame = newest /\ b.done = takes /\ b.frame = f
    BY DEF GivenUp, Completed
  <2> HIDE DEF a, b
  <2>2. Note(Outs(Given(f), shows, a, b))
    BY <1>1, <1>11 DEF a, b
  <2>3. Given(f) \in BOOLEAN /\ b.done \in BOOLEAN
    BY <2>1 DEF Given
  <2> QED
    <3>1. /\ shown' = Outs(Given(f), shows, a, b)
          /\ lastShown' = IF shows THEN b.frame ELSE IF Given(f) THEN a.frame ELSE lastShown
          /\ completed' = IF shows /\ b.done THEN completed \cup {b.frame} ELSE completed
          /\ lastCompleted' = IF shows /\ b.done THEN b.frame ELSE lastCompleted
      <4>1. PICK given : given = Given(f)
        OBVIOUS
      <4>2. given \in BOOLEAN /\ Note(Outs(given, shows, a, b))
        BY <2>2, <2>3, <4>1
      <4> QED
        <5>1. a.done = FALSE /\ b.done \in BOOLEAN /\ shows \in BOOLEAN
          BY <2>1, <2>3
        <5>2. /\ shown' = Outs(given, shows, a, b)
              /\ lastShown' = IF shows THEN b.frame ELSE IF given THEN a.frame ELSE lastShown
              /\ completed' = IF shows /\ b.done THEN completed \cup {b.frame} ELSE completed
              /\ lastCompleted' = IF shows /\ b.done THEN b.frame ELSE lastCompleted
          BY ONLY <4>2, <5>1, NoteEffect
        <5> QED
          BY <4>1, <5>2, Zenon
    <3> QED
      BY <2>1, <3>1, Zenon
<1>13. reported' = IF f > newest
                   THEN reported \cup {g \in Frames : lastCompleted < g /\ g < f}
                   ELSE reported
  <2>1. ASSUME f > newest
        PROVE  Meant(Corrupt(v1, index), f) = {g \in Frames : lastCompleted < g /\ g < f}
    <3>1. /\ v1.vr.frame_index_cur = WrappedIndex(newest)
          /\ v1.vr.frame_index_prev_complete = lastCompleted % SeqMod
      BY <1>3, <1>4, <2>1 DEF IndicesTrue
    <3>2. lastCompleted <= newest /\ newest < f
      BY <1>2, <2>1
    <3> QED
      BY <1>2, <3>1, <3>2, CorruptEffect DEF index
  <2> QED
    BY <1>1, <1>3, <2>1
<1>14. newest' = f
  BY <1>1, <1>2, <1>3
<1>15. /\ vr' = r2
       /\ r2.frame_index_prev = WrappedIndex(IF shows THEN f ELSE at)
       /\ r2.frame_index_prev_complete = (IF shows /\ takes THEN f ELSE lastCompleted) % SeqMod
       /\ f # (IF shows THEN f ELSE at) => Counted(r2.fp) /\ ~FlushPossible(r2.fp)
  BY <1>1, <1>6, <1>7, <1>9, <1>10
<1>16. Effect(f, takes, w, shows)
  BY <1>9, <1>12, <1>13, <1>14, <1>15 DEF Effect, at, ShownBy
<1> QED
  BY <1>3, <1>16

-----------------------------------------------------------------------------
(* The invariant                                                           *)

Shot == [frame : Frames, done : BOOLEAN, whole : BOOLEAN, header : 0 .. Profiles - 1]

LEMMA InitTrue == VideoInit => VideoInv
<1> SUFFICES ASSUME VideoInit PROVE VideoInv
  OBVIOUS
<1> USE DEF VideoInit
<1>1. [i \in {} |-> NoFrame] \in UNION {[0 .. n - 1 -> Frames \cup {NoFrame}] : n \in Nat}
  <2>1. 0 .. 0 - 1 = {}
    OBVIOUS
  <2>2. [i \in {} |-> NoFrame] \in [0 .. 0 - 1 -> Frames \cup {NoFrame}]
    BY <2>1
  <2> QED
    BY <2>2
<1>2. EmptyProcessor \in Processors
  BY <1>1 DEF EmptyProcessor, Processors
<1>3. vr \in Receivers
  BY <1>2, SeqModType DEF Receivers, SeqNums
<1>4. <<>> \in Seq(Shot)
  OBVIOUS
<1>5. VideoTypeOK
  BY <1>3, <1>4 DEF VideoTypeOK, Shot
<1>6. IndicesTrue
  BY SeqModType DEF IndicesTrue, WrappedIndex, NoFrame
<1>7. ProcessorTrue /\ ReportsTrue
  BY DEF ProcessorTrue, ReportsTrue
<1>8. EveryFrameSettled /\ CompleteIsWhole
  BY DEF EveryFrameSettled, CompleteIsWhole, Frames, NoFrame
<1> QED
  BY <1>5, <1>6, <1>7, <1>8 DEF VideoInv

(* The profiles become known: no frame is touched. *)
LEMMA StreamInfoTrue == VideoInv /\ VideoStreamInfo => VideoInv'
<1> SUFFICES ASSUME VideoInv, VideoStreamInfo PROVE VideoInv'
  OBVIOUS
<1>1. vr \in Receivers /\ vr' = [vr EXCEPT !.profiles_count = Profiles]
  BY DEF VideoInv, VideoTypeOK, VideoStreamInfo
<1>2. /\ vr' \in Receivers /\ vr'.fp = vr.fp
      /\ vr'.frame_index_cur = vr.frame_index_cur
      /\ vr'.frame_index_prev = vr.frame_index_prev
      /\ vr'.frame_index_prev_complete = vr.frame_index_prev_complete
  BY <1>1 DEF Receivers
<1>3. /\ newest' = newest /\ lastShown' = lastShown /\ lastCompleted' = lastCompleted
      /\ completed' = completed /\ reported' = reported /\ shown' = <<>>
  BY DEF VideoStreamInfo
<1>4. <<>> \in Seq(Shot)
  OBVIOUS
<1>5. VideoTypeOK'
  BY <1>2, <1>3, <1>4 DEF VideoInv, VideoTypeOK, Shot
<1>6. IndicesTrue'
  BY <1>2, <1>3 DEF VideoInv, IndicesTrue
<1>7. ProcessorTrue'
  BY <1>2, <1>3 DEF VideoInv, ProcessorTrue
<1>8. ReportsTrue' /\ EveryFrameSettled'
  BY <1>3 DEF VideoInv, ReportsTrue, EveryFrameSettled
<1>9. CompleteIsWhole'
  BY <1>3 DEF CompleteIsWhole
<1> QED
  BY <1>5, <1>6, <1>7, <1>8, <1>9 DEF VideoInv

LEMMA PacketTrue ==
    ASSUME VideoInv, NEW f \in Frames, Near(f), f >= newest,
           NEW takes \in BOOLEAN, NEW w \in BOOLEAN, NEW shows \in BOOLEAN,
           Effect(f, takes, w, shows)
    PROVE  VideoInv'
<1> DEFINE at == IF shows THEN f ELSE ShownBy(f)
           a == GivenUp(f, w)
           b == Completed(f, takes)
<1>1. /\ f \in Nat /\ f > 0 /\ newest \in Nat /\ lastShown \in Nat /\ lastCompleted \in Nat
      /\ newest \in Frames \cup {NoFrame} /\ lastShown \in Frames \cup {NoFrame}
      /\ lastCompleted \in Frames \cup {NoFrame}
      /\ completed \subseteq Frames /\ reported \subseteq Frames
  BY DEF VideoInv, VideoTypeOK, Frames, NoFrame
<1>2. f - lastCompleted <= SeqHalf /\ lastCompleted <= lastShown /\ lastShown <= newest
  BY DEF Near, VideoInv, IndicesTrue
<1>3. /\ newest' = f /\ lastShown' = at
      /\ lastCompleted' = IF shows /\ takes THEN f ELSE lastCompleted
      /\ completed' = IF shows /\ takes THEN completed \cup {f} ELSE completed
      /\ reported' = IF f > newest
                     THEN reported \cup {g \in Frames : lastCompleted < g /\ g < f}
                     ELSE reported
      /\ shown' = Outs(Given(f), shows, a, b)
      /\ shows => f # ShownBy(f)
  BY DEF Effect
<1>4. /\ vr' \in Receivers
      /\ vr'.frame_index_cur = f % SeqMod
      /\ vr'.frame_index_prev = WrappedIndex(at)
      /\ vr'.frame_index_prev_complete = lastCompleted' % SeqMod
      /\ Filling(vr'.fp, f)
      /\ f # at => Counted(vr'.fp) /\ ~FlushPossible(vr'.fp)
  BY <1>3 DEF Effect
<1>5. ShownBy(f) \in Frames \cup {NoFrame} /\ lastCompleted <= ShownBy(f) /\ ShownBy(f) <= f
  BY <1>1, <1>2 DEF ShownBy
<1>6. at \in Frames \cup {NoFrame} /\ lastCompleted' <= at /\ at <= f
  <2>1. CASE shows
    <3>1. at = f
      BY <2>1
    <3>2. lastCompleted' = f \/ lastCompleted' = lastCompleted
      BY <1>3
    <3> HIDE DEF at
    <3> QED
      BY <1>1, <1>2, <3>1, <3>2
  <2>2. CASE ~shows
    BY <1>3, <1>5, <2>2
  <2> QED
    BY <2>1, <2>2
<1>7. Given(f) => a \in Shot
  BY <1>1, FrameType DEF GivenUp, Given, Shot
<1>8. b \in Shot
  BY FrameType DEF Completed, Shot
<1>9. /\ a.done = FALSE /\ b.frame = f /\ b.done = takes
      /\ b.whole = TRUE /\ b.header = Profile[f]
  BY DEF GivenUp, Completed
<1> HIDE DEF a, b, at
<1>10. shown' \in Seq(Shot)
  BY <1>3, <1>7, <1>8 DEF Outs
<1>11. CompleteIsWhole'
  <2>1. \A i \in DOMAIN shown' : shown'[i] = a \/ shown'[i] = b
    BY <1>3 DEF Outs
  <2> QED
    BY <1>9, <2>1 DEF CompleteIsWhole
<1>12. VideoTypeOK'
  BY <1>1, <1>3, <1>4, <1>6, <1>10 DEF VideoTypeOK, Shot
<1>13. IndicesTrue'
  <2>1. WrappedIndex(f) = f % SeqMod
    BY <1>1 DEF WrappedIndex, NoFrame
  <2>2. f - lastCompleted' <= SeqHalf
    BY <1>1, <1>2, <1>3, SeqModType
  <2> QED
    BY <1>3, <1>4, <1>6, <2>1, <2>2 DEF IndicesTrue
<1>14. ProcessorTrue'
  BY <1>3, <1>4 DEF ProcessorTrue
<1>15. \A g \in reported' : g < f
  BY <1>1, <1>3 DEF VideoInv, ReportsTrue
<1>16. \A g \in completed' : g <= lastCompleted'
  BY <1>1, <1>2, <1>3 DEF VideoInv, ReportsTrue
<1>17. ReportsTrue'
  BY <1>3, <1>15, <1>16 DEF VideoInv, ReportsTrue
<1>18. ASSUME NEW g \in Frames, g < f PROVE g \in completed' \/ g \in reported'
  <2>1. g \in Nat /\ g # NoFrame
    BY FrameType
  <2>2. CASE g < newest
    BY <1>3, <2>2 DEF VideoInv, EveryFrameSettled
  <2>3. CASE ~(g < newest) /\ lastCompleted < g
    BY <1>1, <1>3, <1>18, <2>1, <2>3
  <2>4. CASE ~(g < newest) /\ ~(lastCompleted < g)
    <3>1. g = lastCompleted
      BY <1>1, <1>2, <2>1, <2>4
    <3> QED
      BY <1>3, <2>1, <3>1 DEF VideoInv, ReportsTrue
  <2> QED
    BY <2>2, <2>3, <2>4
<1>19. completed' \cap reported' = {}
  <2>1. completed \cap reported = {} /\ \A g \in completed : g <= lastCompleted
    BY DEF VideoInv, EveryFrameSettled, ReportsTrue
  <2>2. completed \cap reported' = {}
    <3> SUFFICES ASSUME NEW g \in completed, g \in reported' PROVE FALSE
      OBVIOUS
    <3>1. g \notin reported /\ g <= lastCompleted /\ g \in Nat
      BY <1>1, <2>1 DEF Frames
    <3>2. lastCompleted < g
      BY <1>3, <3>1
    <3> QED
      BY <1>1, <3>1, <3>2
  <2>3. f \notin reported'
    BY <1>1, <1>15
  <2> QED
    BY <1>3, <2>2, <2>3
<1>20. EveryFrameSettled'
  BY <1>3, <1>18, <1>19 DEF EveryFrameSettled
<1> QED
  BY <1>11, <1>12, <1>13, <1>14, <1>17, <1>20 DEF VideoInv

LEMMA StepTrue == VideoInv /\ [VideoNext]_videoVars => VideoInv'
<1> SUFFICES ASSUME VideoInv, [VideoNext]_videoVars PROVE VideoInv'
  OBVIOUS
<1>1. CASE VideoStreamInfo
  BY <1>1, StreamInfoTrue
<1>2. ASSUME NEW f \in Frames, Near(f), NEW u \in Units(f),
             NEW gives \in BOOLEAN, NEW takes \in BOOLEAN, VideoPacket(f, u, gives, takes)
      PROVE  VideoInv'
  <2>1. f >= newest /\ \E w \in BOOLEAN, shows \in BOOLEAN : Effect(f, takes, w, shows)
    BY <1>2, PacketEffect DEF VideoInv
  <2> QED
    BY <1>2, <2>1, PacketTrue
<1>3. CASE UNCHANGED videoVars
  BY <1>3 DEF videoVars, VideoInv, VideoTypeOK, IndicesTrue, ProcessorTrue, ReportsTrue,
              EveryFrameSettled, CompleteIsWhole
<1> QED
  BY <1>1, <1>2, <1>3 DEF VideoNext

LEMMA VideoInvariant == VideoSpec => []VideoInv
  BY InitTrue, StepTrue, PTL DEF VideoSpec

-----------------------------------------------------------------------------
(* The properties                                                          *)

(* The receiver and its frame processor keep their types, however packets  *)
(* of chiaki_video_receiver_av_packet arrive.                              *)
THEOREM VideoTypeCorrect == VideoSpec => []VideoTypeOK
<1>1. VideoInv => VideoTypeOK
  BY DEF VideoInv
<1> QED
  BY <1>1, VideoInvariant, PTL

(* What chiaki_video_receiver_flush_frame counts as complete has all its   *)
(* units of data, of that frame alone, under the header of its profile.    *)
THEOREM WholeWhenComplete == VideoSpec => []CompleteIsWhole
<1>1. VideoInv => CompleteIsWhole
  BY DEF VideoInv
<1> QED
  BY <1>1, VideoInvariant, PTL

(* stream_connection_send_corrupt_frame names exactly the frames before    *)
(* the current one that were not completed.                                *)
THEOREM FramesSettled == VideoSpec => []EveryFrameSettled
<1>1. VideoInv => EveryFrameSettled
  BY DEF VideoInv
<1> QED
  BY <1>1, VideoInvariant, PTL

(* The assertion of chiaki_frame_processor_fec holds for each frame that   *)
(* is still to be flushed.                                                 *)
THEOREM SlotsCounted == VideoSpec => []CountsMatchSlots
<1>1. VideoInv => CountsMatchSlots
  <2> SUFFICES ASSUME VideoInv, vr.frame_index_cur # vr.frame_index_prev
               PROVE  Cardinality(Erasures(vr.fp)) = Generation(vr.fp).lost
    BY DEF CountsMatchSlots
  <2>1. /\ vr.frame_index_cur = WrappedIndex(newest)
        /\ vr.frame_index_prev = WrappedIndex(lastShown)
        /\ newest \in Nat /\ lastShown \in Nat /\ lastShown <= newest
        /\ newest \in Frames \cup {NoFrame}
    BY DEF VideoInv, VideoTypeOK, IndicesTrue, Frames, NoFrame
  <2>2. newest # lastShown
    BY <2>1
  <2>3. newest # NoFrame /\ newest \in Frames
    BY <2>1, <2>2 DEF NoFrame
  <2>4. Filling(vr.fp, newest) /\ Counted(vr.fp)
    BY <2>2, <2>3 DEF VideoInv, ProcessorTrue
  <2> QED
    BY <2>3, <2>4, ErasureCount
<1> QED
  BY <1>1, VideoInvariant, PTL

(* The frames go to video_sample_cb in order and none twice.               *)
THEOREM ShownInOrder == VideoSpec => FramesInOrder
<1> DEFINE InOrder == \A i \in DOMAIN shown' :
                         /\ shown'[i].frame > lastShown
                         /\ \A j \in 1 .. i - 1 : shown'[j].frame < shown'[i].frame
<1>1. VideoInv /\ [VideoNext]_videoVars => [InOrder]_videoVars
  <2> SUFFICES ASSUME VideoInv, VideoNext PROVE InOrder
    OBVIOUS
  <2>1. CASE VideoStreamInfo
    BY <2>1 DEF VideoStreamInfo
  <2>2. ASSUME NEW f \in Frames, Near(f), NEW u \in Units(f),
               NEW gives \in BOOLEAN, NEW takes \in BOOLEAN, VideoPacket(f, u, gives, takes)
        PROVE  InOrder
    <3>1. PICK w \in BOOLEAN, shows \in BOOLEAN : Effect(f, takes, w, shows)
      BY <2>2, PacketEffect DEF VideoInv
    <3> DEFINE a == GivenUp(f, w)
               b == Completed(f, takes)
    <3>2. /\ f \in Nat /\ newest \in Nat /\ lastShown \in Nat /\ lastShown <= newest
          /\ f >= newest
      BY <2>2, PacketEffect DEF VideoInv, VideoTypeOK, IndicesTrue, Frames, NoFrame
    <3>3. shown' = Outs(Given(f), shows, a, b) /\ (shows => f # ShownBy(f))
      BY <3>1 DEF Effect
    <3>4. a.frame = newest /\ b.frame = f
      BY DEF GivenUp, Completed
    <3> HIDE DEF a, b
    <3>5. Given(f) => a.frame > lastShown /\ b.frame > a.frame
      BY <3>2, <3>4 DEF Given
    <3>6. shows => b.frame > lastShown
      BY <3>2, <3>3, <3>4 DEF ShownBy, Given
    <3>7. CASE Given(f) /\ shows
      BY <3>3, <3>4, <3>5, <3>6, <3>7 DEF Outs
    <3>8. CASE Given(f) /\ ~shows
      <4>1. shown' = <<a>>
        BY <3>3, <3>8 DEF Outs
      <4> QED
        BY <3>5, <3>8, <4>1
    <3>9. CASE ~Given(f) /\ shows
      <4>1. shown' = <<b>>
        BY <3>3, <3>9 DEF Outs
      <4> QED
        BY <3>6, <3>9, <4>1
    <3>10. CASE ~Given(f) /\ ~shows
      <4>1. shown' = <<>>
        BY <3>3, <3>10 DEF Outs
      <4> QED
        BY <4>1
    <3> QED
      BY <3>7, <3>8, <3>9, <3>10
  <2> QED
    BY <2>1, <2>2 DEF VideoNext
<1> QED
  BY <1>1, VideoInvariant, PTL DEF VideoSpec, FramesInOrder

-----------------------------------------------------------------------------
(* AVReceive                                                               *)

(* Every step is one of the video receiver or does not concern it. *)
LEMMA StepImplements == [AVNext]_avVars => [VideoNext]_videoVars
<1> SUFFICES ASSUME [AVNext]_avVars PROVE [VideoNext]_videoVars
  OBVIOUS
<1>1. CASE ReceiveVideo
  BY <1>1 DEF ReceiveVideo, VideoNext
<1>2. CASE ReceiveStreamInfo
  BY <1>2 DEF ReceiveStreamInfo, VideoNext
<1>3. CASE ReceiveAudio
  <2>1. UNCHANGED videoVars
    BY <1>3 DEF ReceiveAudio
  <2> QED
    BY <2>1
<1>4. CASE PushSeqStore
  BY <1>4 DEF PushSeqStore
<1>5. CASE PushSeqMax
  BY <1>5 DEF PushSeqMax
<1>6. CASE GetStats
  BY <1>6 DEF GetStats
<1>7. CASE ResetStats
  BY <1>7 DEF ResetStats
<1>8. CASE ResetReceived
  BY <1>8 DEF ResetReceived
<1>9. CASE UNCHANGED avVars
  BY <1>9 DEF avVars
<1> QED
  BY <1>1, <1>2, <1>3, <1>4, <1>5, <1>6, <1>7, <1>8, <1>9
  DEF AVNext, TakionThread, CongestionThread

(* stream_connection_takion_av drives the receiver only through            *)
(* chiaki_video_receiver_av_packet and chiaki_video_receiver_stream_info.  *)
THEOREM AVImplementsVideo == AVSpec => VideoSpec
<1>1. AVInit => VideoInit
  BY DEF AVInit
<1> QED
  BY <1>1, StepImplements, PTL DEF AVSpec, VideoSpec

(* Beside the audio receiver and congestion control, too, the frames go to *)
(* the decoder in order, count as complete only when whole, and are        *)
(* completed or reported to the console, never both.                       *)
THEOREM AVShowsVideo == AVSpec => FramesInOrder /\ []CompleteIsWhole /\ []EveryFrameSettled
  BY AVImplementsVideo, ShownInOrder, WholeWhenComplete, FramesSettled

-----------------------------------------------------------------------------
(* The audio receiver                                                      *)

(* The frames s were played after frame h, in order, the last one being m. *)
PlayedTo(h, s, m) ==
    /\ s \in Seq(Nat) /\ m \in Nat /\ m >= h
    /\ m = IF s = <<>> THEN h ELSE s[Len(s)]
    /\ \A i \in 1 .. Len(s) :
          s[i] > h /\ s[i] <= m /\ \A j \in 1 .. i - 1 : s[j] < s[i]

(* A frame near the last one is played if and only if it is newer. *)
LEMMA FrameEffect ==
    ASSUME NEW h \in Nat, NEW a, NEW m \in Nat, NEW x \in Nat,
           PlayedTo(h, a.played, m), a.prev = m % SeqMod, x - m < SeqHalf, m - x < SeqHalf
    PROVE  LET b == AudioFrame(a, x)
               last == IF x > m THEN x ELSE m
           IN  PlayedTo(h, b.played, last) /\ b.prev = last % SeqMod
<1>1. SeqGt(x % SeqMod, a.prev) <=> x > m
  BY ModOrder
<1>2. CASE x > m
  <2> DEFINE s == a.played
             t == Append(a.played, x)
  <2>1. AudioFrame(a, x) = [prev |-> x % SeqMod, played |-> t]
    BY <1>1, <1>2 DEF AudioFrame
  <2>2. s \in Seq(Nat) /\ m >= h
        /\ \A i \in 1 .. Len(s) : s[i] > h /\ s[i] <= m /\ \A j \in 1 .. i - 1 : s[j] < s[i]
    BY DEF PlayedTo
  <2>20. s \in Seq(Nat) /\ t = Append(s, x)
    BY <2>2
  <2> HIDE DEF s, t
  <2>3. /\ t \in Seq(Nat) /\ Len(t) = Len(s) + 1 /\ t # <<>>
        /\ \A i \in 1 .. Len(s) : t[i] = s[i]
        /\ t[Len(s) + 1] = x
    BY <2>20, AppendProperties
  <2>4. Len(s) \in Nat
    BY <2>2
  <2>5. ASSUME NEW i \in 1 .. Len(t)
        PROVE  t[i] > h /\ t[i] <= x /\ \A j \in 1 .. i - 1 : t[j] < t[i]
    <3>1. CASE i = Len(s) + 1
      <4>1. t[i] = x
        BY <2>3, <3>1
      <4>2. \A j \in 1 .. i - 1 : j \in 1 .. Len(s)
        BY <2>4, <3>1
      <4>3. \A j \in 1 .. Len(s) : t[j] = s[j] /\ s[j] <= m /\ s[j] \in Nat
        <5>1. \A j \in 1 .. Len(s) : s[j] \in Nat
          BY <2>20
        <5>2. \A j \in 1 .. Len(s) : s[j] <= m
          BY <2>2
        <5> QED
          BY <2>3, <5>1, <5>2
      <4> QED
        BY <1>2, <2>2, <4>1, <4>2, <4>3
    <3>2. CASE i \in 1 .. Len(s)
      <4>1. t[i] = s[i] /\ \A j \in 1 .. i - 1 : t[j] = s[j] /\ s[j] < s[i]
        <5>1. \A j \in 1 .. i - 1 : j \in 1 .. Len(s)
          BY <2>4, <3>2
        <5>2. \A j \in 1 .. i - 1 : s[j] < s[i]
          BY <2>2, <3>2
        <5>3. t[i] = s[i] /\ \A j \in 1 .. i - 1 : t[j] = s[j]
          BY <2>3, <3>2, <5>1
        <5> QED
          BY <5>2, <5>3
      <4>2. s[i] > h /\ s[i] <= m /\ s[i] \in Nat
        BY <2>2, <3>2
      <4> QED
        BY <1>2, <4>1, <4>2
    <3> QED
      BY <2>3, <2>4, <3>1, <3>2
  <2>6. PlayedTo(h, t, x)
    BY <1>2, <2>2, <2>3, <2>4, <2>5 DEF PlayedTo
  <2> QED
    BY <1>2, <2>1, <2>6
<1>3. CASE ~(x > m)
  BY <1>1, <1>3 DEF AudioFrame
<1> QED
  BY <1>2, <1>3

AudioStates == [prev : SeqNums, played : Seq(Int)]

LEMMA IntModType == \A x \in Int : x % SeqMod \in SeqNums
  BY SeqModType DEF SeqNums

LEMMA UnitType ==
    ASSUME NEW a \in AudioStates, NEW n \in Nat, NEW i \in Nat, NEW startup \in BOOLEAN
    PROVE  AudioUnit(a, n, i, startup) \in AudioStates
<1>1. ASSUME NEW x \in Int PROVE AudioFrame(a, x) \in AudioStates
  <2>1. x % SeqMod \in SeqNums
    BY IntModType
  <2>2. a.played \in Seq(Int)
    BY DEF AudioStates
  <2>3. Append(a.played, x) \in Seq(Int)
    BY <2>2
  <2>4. [prev |-> x % SeqMod, played |-> Append(a.played, x)] \in AudioStates
    BY <2>1, <2>3 DEF AudioStates
  <2> QED
    BY <2>4 DEF AudioFrame
<1>2. n + i \in Int /\ n - AudioFec + (i - AudioSource) \in Int
  BY AVAssumption
<1> QED
  BY <1>1, <1>2 DEF AudioUnit

(* The loop takes the units one after the other. *)
LEMMA UnitsInTurn ==
    ASSUME NEW a0 \in AudioStates, NEW n \in Nat, NEW startup \in BOOLEAN
    PROVE  \E f \in [0 .. AudioSource + AudioFec -> AudioStates] :
              /\ f[0] = a0
              /\ \A k \in 1 .. AudioSource + AudioFec : f[k] = AudioUnit(f[k - 1], n, k - 1, startup)
              /\ AudioUnits(a0, n, startup) = f[AudioSource + AudioFec]
<1> DEFINE M == AudioSource + AudioFec
           step == [p \in (1 .. M) \X AudioStates |-> AudioUnit(p[2], n, p[1] - 1, startup)]
           P(g) == g = [k \in 0 .. M |-> IF k = 0 THEN a0 ELSE AudioUnit(g[k - 1], n, k - 1, startup)]
           f == CHOOSE g : P(g)
<1>1. M \in Nat
  BY AVAssumption
<1>2. f[M] = AudioUnits(a0, n, startup)
  BY DEF AudioUnits
<1> HIDE DEF M
<1>3. step \in [(1 .. M) \X AudioStates -> AudioStates]
  <2>1. \A k \in 1 .. M, v \in AudioStates : AudioUnit(v, n, k - 1, startup) \in AudioStates
    BY <1>1, UnitType
  <2> QED
    BY <2>1
<1>4. \A k \in 1 .. M, v \in AudioStates : step[<<k, v>>] = AudioUnit(v, n, k - 1, startup)
  OBVIOUS
<1> HIDE DEF step
<1>5. PICK h : FollowsSteps(h, M, AudioStates, a0, step)
  BY <1>1, <1>3, RecursionUpTo
<1>6. h \in [0 .. M -> AudioStates] /\ h[0] = a0 /\ \A k \in 1 .. M : h[k] = step[<<k, h[k - 1]>>]
  BY <1>5 DEF FollowsSteps
<1>7. \A k \in 1 .. M : k - 1 \in 0 .. M /\ h[k - 1] \in AudioStates
  BY <1>1, <1>6
<1>8. \A k \in 1 .. M : h[k] = AudioUnit(h[k - 1], n, k - 1, startup)
  BY <1>4, <1>6, <1>7
<1>9. P(h)
  BY <1>1, <1>6, <1>8
<1>10. P(f)
  <2> HIDE DEF P
  <2> QED
    BY <1>9
<1> HIDE DEF f
<1>11. f[0] = a0 /\ \A k \in 1 .. M : f[k] = AudioUnit(f[k - 1], n, k - 1, startup)
  BY <1>1, <1>10
<1>12. f \in [0 .. M -> AudioStates]
  <2> DEFINE T == {k \in 0 .. M : f[k] \in AudioStates}
  <2>1. 0 \in T
    BY <1>1, <1>11
  <2>2. \A k \in 0 .. M - 1 : k \in T => k + 1 \in T
    <3> SUFFICES ASSUME NEW k \in 0 .. M - 1, f[k] \in AudioStates
                 PROVE  f[k + 1] \in AudioStates /\ k + 1 \in 0 .. M
      OBVIOUS
    <3>1. k + 1 \in 1 .. M /\ (k + 1) - 1 = k /\ k + 1 \in 0 .. M /\ k \in Nat
      BY <1>1
    <3>2. f[k + 1] = AudioUnit(f[k], n, k, startup)
      BY <1>11, <3>1
    <3> QED
      BY <3>1, <3>2, UnitType
  <2> HIDE DEF T
  <2>3. 0 .. M \subseteq T
    BY <1>1, <2>1, <2>2, InductUpTo
  <2>4. \A k \in 0 .. M : f[k] \in AudioStates
    BY <2>3 DEF T
  <2>5. f = [k \in 0 .. M |-> f[k]]
    BY <1>10
  <2> QED
    BY <2>4, <2>5
<1> QED
  BY <1>2, <1>11, <1>12 DEF M

(* A packet near the frame played last gives the sink those of its own     *)
(* frames that are newer, and none of those it repeats.                    *)
LEMMA UnitsEffect ==
    ASSUME NEW h \in Nat, NEW n \in Nat \ {0}, NEW startup \in BOOLEAN,
           n + AudioSource - 1 - h < SeqHalf, h - n < SeqHalf - AudioFec,
           ~startup => n > AudioFec
    PROVE  LET a == AudioUnits([prev |-> h % SeqMod, played |-> <<>>], n, startup)
               last == IF n + AudioSource - 1 > h THEN n + AudioSource - 1 ELSE h
           IN  PlayedTo(h, a.played, last) /\ a.prev = last % SeqMod
<1> DEFINE M == AudioSource + AudioFec
           a0 == [prev |-> h % SeqMod, played |-> <<>>]
           To(k) == IF k <= AudioSource THEN n + k - 1 ELSE n + AudioSource - 1
           Last(k) == IF k > 0 /\ To(k) > h THEN To(k) ELSE h
           Done(a, m) == PlayedTo(h, a.played, m) /\ a.prev = m % SeqMod
<1>1. /\ AudioSource \in Nat \ {0} /\ AudioFec \in Nat /\ M \in Nat /\ M <= SeqHalf
      /\ SeqHalf \in Nat \ {0}
  BY AVAssumption, SeqModType
<1>2. a0 \in AudioStates
  BY ModType DEF AudioStates
<1>3. PICK f \in [0 .. M -> AudioStates] :
              /\ f[0] = a0
              /\ \A k \in 1 .. M : f[k] = AudioUnit(f[k - 1], n, k - 1, startup)
              /\ AudioUnits(a0, n, startup) = f[M]
  BY <1>2, UnitsInTurn
<1> DEFINE T == {k \in 0 .. M : Done(f[k], Last(k))}
<1>4. 0 \in T
  <2>1. Last(0) = h /\ 0 \in 0 .. M
    BY <1>1
  <2>2. PlayedTo(h, <<>>, h)
    BY DEF PlayedTo
  <2>3. Done(a0, h)
    BY <2>2
  <2>4. Done(f[0], Last(0))
    <3> HIDE DEF Done, Last, a0
    <3> QED
      BY <1>3, <2>1, <2>3
  <2> QED
    BY <2>1, <2>4
<1>5. ASSUME NEW k \in 0 .. M - 1, Done(f[k], Last(k)) PROVE Done(f[k + 1], Last(k + 1))
  <2>1. k \in Nat /\ k + 1 \in 1 .. M /\ (k + 1) - 1 = k
    BY <1>1
  <2>2. f[k + 1] = AudioUnit(f[k], n, k, startup)
    BY <1>3, <2>1
  <2>3. Last(k) \in Nat
    BY <1>1
  <2>4. ASSUME NEW x \in Nat, x - Last(k) < SeqHalf, Last(k) - x < SeqHalf,
               Last(k + 1) = IF x > Last(k) THEN x ELSE Last(k)
        PROVE  Done(AudioFrame(f[k], x), Last(k + 1))
    <3> DEFINE m == Last(k)
    <3>1. m \in Nat /\ PlayedTo(h, f[k].played, m) /\ f[k].prev = m % SeqMod
          /\ x - m < SeqHalf /\ m - x < SeqHalf
      BY <1>5, <2>3, <2>4
    <3> HIDE DEF m
    <3>2. LET b == AudioFrame(f[k], x)
              last == IF x > m THEN x ELSE m
          IN  PlayedTo(h, b.played, last) /\ b.prev = last % SeqMod
      BY <3>1, FrameEffect
    <3> QED
      BY <2>4, <3>2 DEF m
  <2>5. CASE k < AudioSource
    <3>1. f[k + 1] = AudioFrame(f[k], n + k)
      BY <2>2, <2>5 DEF AudioUnit
    <3> DEFINE y == n + k
    <3>3. /\ y \in Nat /\ y - Last(k) < SeqHalf /\ Last(k) - y < SeqHalf
          /\ Last(k + 1) = IF y > Last(k) THEN y ELSE Last(k)
      BY <1>1, <2>1, <2>5
    <3> HIDE DEF Last, Done, y
    <3>4. Done(AudioFrame(f[k], y), Last(k + 1))
      BY <2>4, <3>3
    <3> QED
      BY <3>1, <3>4 DEF y
  <2>6. CASE ~(k < AudioSource)
    <3> DEFINE x == n - AudioFec + (k - AudioSource)
    <3>1. Last(k + 1) = Last(k)
      BY <1>1, <2>1, <2>6
    <3>2. CASE startup /\ (n % SeqMod) + (k - AudioSource) < AudioFec + 1
      <4>1. f[k + 1] = f[k]
        BY <2>2, <2>6, <3>2 DEF AudioUnit
      <4> HIDE DEF Last, Done
      <4> QED
        BY <1>5, <3>1, <4>1
    <3>3. CASE ~(startup /\ (n % SeqMod) + (k - AudioSource) < AudioFec + 1)
      <4>1. f[k + 1] = AudioFrame(f[k], x)
        BY <2>2, <2>6, <3>3 DEF AudioUnit
      <4>2. n % SeqMod \in Nat /\ n % SeqMod <= n
        <5>1. n < SeqMod => n % SeqMod = n
          BY SeqModType
        <5> QED
          BY <5>1, ModType, SeqModType DEF SeqNums
      <4>3. x \in Int /\ x >= 1 /\ x < n
        <5> DEFINE r == n % SeqMod
        <5>1. CASE ~startup
          BY <1>1, <2>1, <2>6, <5>1
        <5>2. CASE startup
          <6>1. r \in Nat /\ r <= n /\ ~(r + (k - AudioSource) < AudioFec + 1)
            BY <3>3, <4>2, <5>2
          <6> HIDE DEF r
          <6> QED
            BY <1>1, <2>1, <2>6, <6>1
        <5> QED
          BY <5>1, <5>2
      <4>4. Last(k) >= n /\ Last(k) - (n - AudioFec) < SeqHalf
        BY <1>1, <2>1, <2>6
      <4>5. x >= n - AudioFec
        BY <1>1, <2>1, <2>6
      <4> HIDE DEF x, Last
      <4>6. x \in Nat /\ x - Last(k) < SeqHalf /\ Last(k) - x < SeqHalf /\ ~(x > Last(k))
        BY <1>1, <2>3, <4>3, <4>4, <4>5
      <4> HIDE DEF Done
      <4> QED
        BY <2>4, <3>1, <4>1, <4>6
    <3> QED
      BY <3>2, <3>3
  <2> QED
    BY <2>5, <2>6
<1>6. \A k \in 0 .. M - 1 : k \in T => k + 1 \in T
  <2> HIDE DEF Done, Last
  <2> SUFFICES ASSUME NEW k \in 0 .. M - 1, Done(f[k], Last(k))
               PROVE  k + 1 \in 0 .. M /\ Done(f[k + 1], Last(k + 1))
    OBVIOUS
  <2> QED
    BY <1>1, <1>5
<1>7. M \in T
  <2> HIDE DEF T
  <2>1. 0 .. M \subseteq T
    BY <1>1, <1>4, <1>6, InductUpTo
  <2> QED
    BY <1>1, <2>1
<1>8. Last(M) = IF n + AudioSource - 1 > h THEN n + AudioSource - 1 ELSE h
  BY <1>1
<1> QED
  BY <1>3, <1>7, <1>8

(* The frame played last is the last one of the newest packet, and once the *)
(* startup is over the indices are far from where they began.              *)
AudioTrue ==
    /\ newestAudio \in Nat
    /\ heard = IF newestAudio = 0 THEN 0 ELSE newestAudio + AudioSource - 1
    /\ frame_index_prev = heard % SeqMod
    /\ frame_index_startup \in BOOLEAN
    /\ ~frame_index_startup => newestAudio > SeqHalf

(* What an audio packet gives the sink. *)
LEMMA AudioPacketEffect ==
    ASSUME AudioTrue, ReceiveAudio
    PROVE  AudioTrue' /\ PlayedTo(heard, played', heard')
<1>1. PICK n \in AudioPackets :
        LET startup == frame_index_startup /\ n % SeqMod <= SeqHalf
            a == AudioUnits([prev |-> frame_index_prev, played |-> <<>>], n, startup)
        IN  /\ n + AudioSource - 1 - newestAudio < SeqHalf
            /\ newestAudio + AudioSource - 1 - n < SeqHalf - AudioFec
            /\ frame_index_startup' = startup
            /\ frame_index_prev' = a.prev
            /\ played' = a.played
            /\ heard' = IF a.played = <<>> THEN heard ELSE a.played[Len(a.played)]
            /\ newestAudio' = IF n > newestAudio THEN n ELSE newestAudio
  <2> HIDE DEF AudioTrue
  <2> QED
    BY DEF ReceiveAudio
<1> DEFINE startup == frame_index_startup /\ n % SeqMod <= SeqHalf
           a == AudioUnits([prev |-> frame_index_prev, played |-> <<>>], n, startup)
           last == IF n + AudioSource - 1 > heard THEN n + AudioSource - 1 ELSE heard
<1>2. /\ AudioSource \in Nat \ {0} /\ AudioFec \in Nat /\ n \in Nat \ {0}
      /\ AudioSource + AudioFec <= SeqHalf /\ SeqHalf \in Nat \ {0}
  BY AVAssumption, SeqModType
<1>3. /\ heard \in Nat /\ startup \in BOOLEAN /\ newestAudio \in Nat
      /\ n + AudioSource - 1 - heard < SeqHalf /\ heard - n < SeqHalf - AudioFec
  <2>1. /\ newestAudio \in Nat /\ startup \in BOOLEAN
        /\ heard = IF newestAudio = 0 THEN 0 ELSE newestAudio + AudioSource - 1
    BY DEF AudioTrue
  <2>2. /\ n + AudioSource - 1 - newestAudio < SeqHalf
        /\ newestAudio + AudioSource - 1 - n < SeqHalf - AudioFec
    BY <1>1
  <2>3. /\ heard \in Nat
        /\ n + AudioSource - 1 - heard < SeqHalf /\ heard - n < SeqHalf - AudioFec
    BY ONLY <1>2, <2>1, <2>2
  <2> QED
    BY <2>1, <2>3
<1>4. n % SeqMod \in Nat /\ n % SeqMod <= n
  <2>1. n < SeqMod => n % SeqMod = n
    BY <1>2, SeqModType
  <2> QED
    BY <1>2, <2>1, ModType, SeqModType DEF SeqNums
<1>5. ~startup => n > AudioFec
  <2>1. CASE ~frame_index_startup
    <3>1. newestAudio > SeqHalf
      BY <2>1 DEF AudioTrue
    <3>2. newestAudio + AudioSource - 1 - n < SeqHalf - AudioFec
      BY <1>1
    <3> QED
      BY ONLY <1>2, <1>3, <3>1, <3>2
  <2>2. CASE ~(n % SeqMod <= SeqHalf)
    BY <1>2, <1>4, <2>2
  <2> QED
    BY <2>1, <2>2
<1>6. PlayedTo(heard, a.played, last) /\ a.prev = last % SeqMod
  <2>1. frame_index_prev = heard % SeqMod
    BY DEF AudioTrue
  <2> HIDE DEF startup
  <2> QED
    BY <1>2, <1>3, <1>5, <2>1, UnitsEffect
<1>7. heard' = last /\ played' = a.played /\ frame_index_prev' = a.prev
  <2> HIDE DEF a
  <2> QED
    BY <1>1, <1>6 DEF PlayedTo, a
<1>8. newestAudio' \in Nat
      /\ heard' = IF newestAudio' = 0 THEN 0 ELSE newestAudio' + AudioSource - 1
  <2>1. newestAudio' = IF n > newestAudio THEN n ELSE newestAudio
    BY <1>1
  <2>2. heard = IF newestAudio = 0 THEN 0 ELSE newestAudio + AudioSource - 1
    BY DEF AudioTrue
  <2> QED
    BY <1>2, <1>3, <1>7, <2>1, <2>2
<1>9. frame_index_startup' \in BOOLEAN /\ (~frame_index_startup' => newestAudio' > SeqHalf)
  <2>1. frame_index_startup' = startup /\ newestAudio' >= n /\ newestAudio' >= newestAudio
    BY <1>1, <1>2, <1>3
  <2>2. CASE ~frame_index_startup
    <3>1. newestAudio > SeqHalf
      BY <2>2 DEF AudioTrue
    <3> QED
      BY <1>2, <1>3, <1>8, <2>1, <3>1
  <2>3. CASE frame_index_startup
    <3>1. frame_index_startup' = (n % SeqMod <= SeqHalf)
      BY <2>1, <2>3
    <3>2. CASE n % SeqMod <= SeqHalf
      BY <3>1, <3>2
    <3>3. CASE ~(n % SeqMod <= SeqHalf)
      <4>1. newestAudio' > SeqHalf
        BY <1>2, <1>4, <1>8, <2>1, <3>3
      <4> QED
        BY <3>1, <4>1
    <3> QED
      BY <3>2, <3>3
  <2> QED
    BY <2>2, <2>3 DEF AudioTrue
<1> HIDE DEF a
<1> QED
  BY <1>6, <1>7, <1>8, <1>9 DEF AudioTrue

LEMMA AudioInit == AVInit => AudioTrue
<1>1. 0 % SeqMod = 0
  BY SeqModType
<1> QED
  BY <1>1 DEF AVInit, AudioTrue

(* The audio receiver's variables that AudioTrue speaks of. *)
LEMMA AudioStep == AudioTrue /\ [AVNext]_avVars => AudioTrue'
<1> SUFFICES ASSUME AudioTrue, [AVNext]_avVars PROVE AudioTrue'
  OBVIOUS
<1>1. ASSUME UNCHANGED <<newestAudio, heard, frame_index_prev, frame_index_startup>>
      PROVE  AudioTrue'
  BY <1>1 DEF AudioTrue
<1>2. CASE ReceiveAudio
  BY <1>2, AudioPacketEffect
<1> HIDE DEF AudioTrue
<1>3. CASE ReceiveVideo
  BY <1>1, <1>3 DEF ReceiveVideo, audioVars
<1>4. CASE ReceiveStreamInfo
  BY <1>1, <1>4 DEF ReceiveStreamInfo, audioVars, ghostVars
<1>5. CASE PushSeqStore
  BY <1>1, <1>5 DEF PushSeqStore, audioVars
<1>6. CASE PushSeqMax
  BY <1>1, <1>6 DEF PushSeqMax
<1>7. CASE GetStats
  BY <1>1, <1>7 DEF GetStats, audioVars
<1>8. CASE ResetStats
  BY <1>1, <1>8 DEF ResetStats, audioVars, ghostVars
<1>9. CASE ResetReceived
  BY <1>1, <1>9 DEF ResetReceived, audioVars, ghostVars
<1>10. CASE UNCHANGED avVars
  BY <1>1, <1>10 DEF avVars, audioVars, ghostVars
<1> QED
  BY <1>2, <1>3, <1>4, <1>5, <1>6, <1>7, <1>8, <1>9, <1>10
  DEF AVNext, TakionThread, CongestionThread

LEMMA AudioInvariant == AVSpec => []AudioTrue
  BY AudioInit, AudioStep, PTL DEF AVSpec

(* chiaki_audio_receiver_frame lets the frames of the packets, which repeat *)
(* each other's for error correction, reach the sink in order and none     *)
(* twice, for every number of units, across any number of wraps of the     *)
(* index, and however many packets are lost, late or repeated, as long as  *)
(* each is near enough to the newest one for their indices to be compared. *)
THEOREM AudioPlayedInOrder == AVSpec => AudioInOrder
<1> DEFINE InOrder ==
        played' # played =>
          \A i \in DOMAIN played' :
             /\ played'[i] > heard
             /\ \A j \in 1 .. i - 1 : played'[j] < played'[i]
<1>1. AudioTrue /\ [AVNext]_avVars => [InOrder]_avVars
  <2> SUFFICES ASSUME AudioTrue, AVNext PROVE InOrder
    OBVIOUS
  <2>1. CASE ReceiveAudio
    <3>1. PlayedTo(heard, played', heard')
      BY <2>1, AudioPacketEffect
    <3>2. DOMAIN played' = 1 .. Len(played')
      BY <3>1 DEF PlayedTo
    <3> QED
      BY <3>1, <3>2 DEF PlayedTo
  <2>2. CASE PushSeqMax
    <3>1. played' = <<>>
      BY <2>2 DEF PushSeqMax
    <3>2. DOMAIN played' = {}
      BY <3>1
    <3> QED
      BY <3>2
  <2>3. CASE \/ ReceiveVideo \/ ReceiveStreamInfo \/ PushSeqStore
             \/ GetStats \/ ResetStats \/ ResetReceived
    <3>1. played' = played
      BY <2>3 DEF ReceiveVideo, ReceiveStreamInfo, PushSeqStore, GetStats, ResetStats,
                  ResetReceived, audioVars
    <3> QED
      BY <3>1
  <2> QED
    BY <2>1, <2>2, <2>3 DEF AVNext, TakionThread, CongestionThread
<1> QED
  BY <1>1, AudioInvariant, PTL DEF AVSpec, AudioInOrder

-----------------------------------------------------------------------------
(* The statistics                                                          *)

StatsTyped ==
    /\ stats \in [gen_received : Nat, gen_lost : Int, seq_min : SeqNums,
                  seq_max : SeqNums, seq_received : Nat]
    /\ pushing \in [step : {"idle", "store", "max"}, seq_num : SeqNums, loaded : Nat]
    /\ cpc \in {"waiting", "reset", "clear"}
    /\ due \in [received : Nat, lost : Int]

(* The audio packets received since the report before, the one being       *)
(* counted included, and how far the index went in that time.              *)
Counting == IF pushing.step = "store" THEN stats.seq_received + 1 ELSE stats.seq_received

Span == SeqDist(stats.seq_min, newestAudio % SeqMod)

(* Once push_seq is through, seq_max is that of the newest packet, also of *)
(* those that came late or met get and reset, which leave seq_max alone.   *)
MaxAgrees ==
    newestAudio % SeqMod = IF ~TakionIdle /\ SeqGt(pushing.seq_num, stats.seq_max)
                           THEN pushing.seq_num ELSE stats.seq_max

(* Nothing is pushed while get and reset run. *)
PushesApart ==
    /\ ~TakionIdle => cpc = "waiting"
    /\ pushing.step = "store" => pushing.loaded = stats.seq_received

(* What is due is what get would report, and reset leaves nothing of it.   *)
DueTrue ==
    /\ cpc = "waiting" =>
          /\ due.received = stats.gen_received + Counting
          /\ ~late => /\ Counting <= Span
                      /\ due.lost = stats.gen_lost + Span - Counting
    /\ cpc # "waiting" => due = Nothing
    /\ cpc = "clear" => /\ stats.gen_received = 0 /\ stats.gen_lost = 0
                        /\ stats.seq_min = stats.seq_max

StatsTrue ==
    /\ StatsTyped
    /\ MaxAgrees
    /\ ~raced => PushesApart /\ DueTrue
    /\ ~untrue

(* The index moves on by as much as the packets do. *)
LEMMA SpanGrows ==
    ASSUME NEW a \in SeqNums, NEW x \in Nat, NEW d \in Nat,
           SeqDist(a, x % SeqMod) + d < SeqMod
    PROVE  SeqDist(a, (x + d) % SeqMod) = SeqDist(a, x % SeqMod) + d
<1> DEFINE r == x % SeqMod
           s == (x + d) % SeqMod
<1>1. r \in SeqNums /\ s \in SeqNums
  BY ModType
<1>2. d < SeqMod
  BY <1>1, SeqDistCases, SeqModType DEF SeqNums
<1>3. s = IF r + d < SeqMod THEN r + d ELSE r + d - SeqMod
  BY <1>2, ModAhead
<1> HIDE DEF r, s
<1>4. /\ SeqDist(a, r) = IF a <= r THEN r - a ELSE r - a + SeqMod
      /\ SeqDist(a, s) = IF a <= s THEN s - a ELSE s - a + SeqMod
  BY <1>1, SeqDistCases
<1>5. SeqDist(a, r) + d < SeqMod
  BY DEF r
<1>6. SeqDist(a, s) = SeqDist(a, r) + d
  BY <1>1, <1>3, <1>4, <1>5, SeqModType DEF SeqNums
<1> QED
  BY <1>6 DEF r, s

(* get computes the loss in 64 bits, "overflow on purpose": cut to the 16  *)
(* bits of the packet it is the same as on the circle.                     *)
LEMMA LostAcrossWrap ==
    ASSUME StatsTyped, stats.seq_received <= SeqDist(stats.seq_min, stats.seq_max)
    PROVE  GotLost = (stats.gen_lost + SeqDist(stats.seq_min, stats.seq_max)
                        - stats.seq_received) % SeqMod
<1> DEFINE M == SeqMod
           a == stats.seq_min
           b == stats.seq_max
           n == stats.seq_received
           g == stats.gen_lost
           W == Word64
           k == M * M - 1
<1>1. /\ M \in Nat \ {0} /\ M >= 2 /\ a \in 0 .. M - 1 /\ b \in 0 .. M - 1
      /\ a \in SeqNums /\ b \in SeqNums /\ n \in Nat /\ g \in Int
  BY SeqModType DEF StatsTyped, SeqNums
<1>2. SeqDist(a, b) = IF a <= b THEN b - a ELSE b - a + M
  BY <1>1, SeqDistCases
<1>3. W = M * M * M /\ n <= SeqDist(a, b)
  BY DEF Word64
<1>4. SeqDiff = (b - a) % W
  BY DEF SeqDiff
<1>5. GotLost = (g + (IF n > SeqDiff THEN SeqDiff ELSE SeqDiff - n)) % M
  BY DEF GotLost
<1> HIDE DEF M, a, b, n, g, W
<1>6. k \in Int /\ W = M + k * M /\ M * M >= 2 * M /\ k >= 1
  <2>1. M * M \in Int /\ M * M >= 2 * M
    BY <1>1
  <2>2. M * M * M = M + (M * M - 1) * M
    BY <1>1, <2>1
  <2> QED
    BY <1>1, <1>3, <2>1, <2>2
<1> HIDE DEF k
<1>7. k * M \in Int /\ k * M >= M
  BY <1>1, <1>6
<1>8. W \in Nat \ {0} /\ W >= 2 * M
  BY <1>1, <1>6, <1>7
<1>9. SeqDiff = IF a <= b THEN b - a ELSE b - a + W
  <2> DEFINE x == b - a
  <2>1. x \in Int /\ -W <= x /\ x < 2 * W /\ x < W
    BY <1>1, <1>8
  <2>2. x < 0 <=> ~(a <= b)
    BY <1>1
  <2> HIDE DEF x
  <2>3. x % W = IF x < 0 THEN x + W ELSE IF x < W THEN x ELSE x - W
    BY ONLY <1>8, <2>1, ModCases
  <2>4. x % W = IF x < 0 THEN x + W ELSE x
    BY <2>1, <2>3
  <2> QED
    BY <1>4, <2>2, <2>4 DEF x
<1>10. CASE a <= b
  BY <1>1, <1>2, <1>3, <1>5, <1>9, <1>10 DEF M, a, b, n, g
<1>11. CASE ~(a <= b)
  <2> DEFINE y == g + (b - a + M) - n
  <2>1. y \in Int
    BY <1>1
  <2>2. SeqDist(a, b) = b - a + M /\ SeqDiff = b - a + W /\ SeqDiff \in Int
    BY <1>1, <1>2, <1>8, <1>9, <1>11
  <2>3. ~(n > SeqDiff)
    BY <1>1, <1>3, <1>8, <2>2
  <2>4. g + (SeqDiff - n) = y + k * M
    BY <1>1, <1>6, <1>7, <2>2
  <2>5. y = g + SeqDist(a, b) - n
    BY <1>1, <2>2
  <2> HIDE DEF y
  <2>6. (y + k * M) % M = y % M
    BY <1>1, <1>6, <2>1, ModTurns
  <2>7. GotLost = (y + k * M) % M
    BY <1>5, <2>3, <2>4
  <2> QED
    BY <2>5, <2>6, <2>7 DEF M, a, b, n, g
<1> QED
  BY <1>10, <1>11

LEMMA GenerationType ==
    ASSUME VideoTypeOK
    PROVE  Generation(vr.fp).received \in Nat /\ Generation(vr.fp).lost \in Int
<1> DEFINE fp == vr.fp
<1>1. fp \in Processors
  BY DEF VideoTypeOK, Receivers
<1>2. /\ fp.units_source_expected \in Nat /\ fp.units_fec_expected \in Nat
      /\ fp.units_source_received \in Nat /\ fp.units_fec_received \in Nat
  BY <1>1 DEF Processors
<1> HIDE DEF fp
<1>3. Generation(fp).received \in Nat /\ Generation(fp).lost \in Int
  BY <1>2 DEF Generation
<1> QED
  BY <1>3 DEF fp

(* push_generation waits for the mutex. *)
LEMMA StatsVideo ==
    ASSUME StatsTrue, NEW g, g.received \in Nat, g.lost \in Int, TakionIdle, PushGeneration(g),
           UNCHANGED <<pushing, cpc, newestAudio, late, raced, untrue>>
    PROVE  StatsTrue'
<1>1. /\ cpc = "waiting" /\ cpc' = "waiting" /\ pushing.step = "idle"
      /\ stats' = [stats EXCEPT !.gen_received = @ + g.received, !.gen_lost = @ + g.lost]
      /\ due' = [received |-> due.received + g.received, lost |-> due.lost + g.lost]
  BY DEF StatsTrue, StatsTyped, PushGeneration, StatsFree, TakionIdle
<1>2. StatsTyped'
  <2>1. due.received + g.received \in Nat /\ due.lost + g.lost \in Int
        /\ stats.gen_received + g.received \in Nat /\ stats.gen_lost + g.lost \in Int
    BY DEF StatsTrue, StatsTyped
  <2>2. due' \in [received : Nat, lost : Int]
    BY <1>1, <2>1
  <2>3. stats' \in [gen_received : Nat, gen_lost : Int, seq_min : SeqNums,
                   seq_max : SeqNums, seq_received : Nat]
    BY <1>1, <2>1 DEF StatsTrue, StatsTyped
  <2> QED
    BY <1>1, <2>2, <2>3 DEF StatsTrue, StatsTyped
<1>3. /\ stats'.gen_received = stats.gen_received + g.received
      /\ stats'.gen_lost = stats.gen_lost + g.lost
      /\ stats'.seq_min = stats.seq_min /\ stats'.seq_max = stats.seq_max
      /\ stats'.seq_received = stats.seq_received
      /\ due'.received = due.received + g.received /\ due'.lost = due.lost + g.lost
  BY <1>1 DEF StatsTrue, StatsTyped
<1>4. MaxAgrees' /\ Span' = Span /\ Span \in Int
  <2>1. newestAudio % SeqMod = stats.seq_max /\ stats.seq_max \in SeqNums
        /\ stats.seq_min \in SeqNums
    BY <1>1 DEF StatsTrue, StatsTyped, MaxAgrees, TakionIdle
  <2>2. MaxAgrees'
    BY <1>1, <1>3, <2>1 DEF MaxAgrees, TakionIdle
  <2>3. Span \in SeqNums
    BY <2>1, SeqDistCases DEF Span
  <2> QED
    BY <1>3, <2>2, <2>3, SeqModType DEF Span, SeqNums
<1>5. ASSUME ~raced PROVE PushesApart' /\ DueTrue'
  <2>1. PushesApart /\ DueTrue
    BY <1>5 DEF StatsTrue
  <2>2. PushesApart'
    BY <1>1, <1>3, <2>1 DEF PushesApart, TakionIdle
  <2>3. Counting' = Counting /\ Counting = stats.seq_received
    BY <1>1, <1>3 DEF Counting
  <2>4. /\ stats.seq_received \in Nat /\ stats.gen_received \in Nat /\ stats.gen_lost \in Int
        /\ late' = late
    BY DEF StatsTrue, StatsTyped
  <2>5. DueTrue'
    BY <1>1, <1>3, <1>4, <2>1, <2>3, <2>4 DEF DueTrue
  <2> QED
    BY <2>2, <2>5
<1> QED
  BY <1>2, <1>4, <1>5 DEF StatsTrue

(* Nothing that is counted changes. *)
LEMMA StatsSame ==
    ASSUME StatsTrue, UNCHANGED <<stats, pushing, cpc, ghostVars>>
    PROVE  StatsTrue'
<1>1. /\ stats' = stats /\ pushing' = pushing /\ cpc' = cpc /\ due' = due
      /\ newestAudio' = newestAudio /\ late' = late /\ raced' = raced /\ untrue' = untrue
  BY DEF ghostVars
<1>2. /\ StatsTyped' = StatsTyped /\ MaxAgrees' = MaxAgrees
      /\ PushesApart' = PushesApart /\ DueTrue' = DueTrue
  BY <1>1 DEF StatsTyped, MaxAgrees, PushesApart, DueTrue, TakionIdle, Counting, Span
<1> QED
  BY <1>1, <1>2 DEF StatsTrue

(* push_seq begins. *)
LEMMA StatsAudio ==
    ASSUME StatsTrue, AudioTrue, ReceiveAudio
    PROVE  StatsTrue'
<1>1. PICK n \in AudioPackets :
            /\ TakionIdle
            /\ n + AudioSource - 1 - newestAudio < SeqHalf
            /\ newestAudio + AudioSource - 1 - n < SeqHalf - AudioFec
            /\ SeqDist(stats.seq_min, stats.seq_max) + n - newestAudio < SeqMod
            /\ pushing' = [step |-> "store", seq_num |-> n % SeqMod,
                           loaded |-> stats.seq_received]
            /\ newestAudio' = IF n > newestAudio THEN n ELSE newestAudio
            /\ due' = [received |-> due.received + 1,
                       lost |-> IF n > newestAudio THEN due.lost + n - newestAudio - 1
                                ELSE due.lost]
            /\ late' = (late \/ n <= newestAudio)
            /\ raced' = (raced \/ ~StatsFree)
            /\ UNCHANGED <<stats, cpc, untrue>>
  <2> HIDE DEF StatsTrue, AudioTrue
  <2> QED
    BY DEF ReceiveAudio
<1>2. n \in Nat /\ newestAudio \in Nat /\ n % SeqMod \in SeqNums
      /\ SeqHalf \in Nat /\ AudioSource \in Nat \ {0} /\ AudioFec \in Nat
  BY AVAssumption, ModType, SeqModType DEF AudioTrue
<1>3. /\ stats.gen_received \in Nat /\ stats.gen_lost \in Int /\ stats.seq_received \in Nat
      /\ stats.seq_min \in SeqNums /\ stats.seq_max \in SeqNums
      /\ due.received \in Nat /\ due.lost \in Int
  BY DEF StatsTrue, StatsTyped
<1>4. StatsTyped'
  <2>1. pushing' \in [step : {"idle", "store", "max"}, seq_num : SeqNums, loaded : Nat]
    BY <1>1, <1>2, <1>3
  <2>2. due' \in [received : Nat, lost : Int]
    BY <1>1, <1>2, <1>3
  <2> QED
    BY <1>1, <2>1, <2>2 DEF StatsTrue, StatsTyped
<1>5. /\ stats.seq_max = newestAudio % SeqMod /\ pushing.step = "idle"
      /\ pushing'.step = "store" /\ pushing'.seq_num = n % SeqMod
      /\ pushing'.loaded = stats.seq_received /\ stats' = stats /\ cpc' = cpc
  BY <1>1 DEF StatsTrue, MaxAgrees, TakionIdle
<1>6. MaxAgrees'
  <2>1. n - newestAudio < SeqHalf /\ newestAudio - n < SeqHalf
    BY <1>1, <1>2
  <2>2. SeqGt(n % SeqMod, newestAudio % SeqMod) <=> n > newestAudio
    BY <1>2, <2>1, ModOrder
  <2>3. newestAudio' % SeqMod = IF n > newestAudio THEN n % SeqMod ELSE newestAudio % SeqMod
    BY <1>1
  <2>4. ~TakionIdle'
    BY <1>5 DEF TakionIdle
  <2> QED
    BY <1>5, <2>2, <2>3, <2>4 DEF MaxAgrees
<1>7. ASSUME ~raced' PROVE PushesApart' /\ DueTrue'
  <2>1. cpc = "waiting" /\ PushesApart /\ DueTrue
    BY <1>1, <1>7 DEF StatsFree, StatsTrue
  <2>2. /\ due.received = stats.gen_received + stats.seq_received
        /\ ~late => /\ stats.seq_received <= Span
                    /\ due.lost = stats.gen_lost + Span - stats.seq_received
    BY <1>5, <2>1 DEF DueTrue, Counting
  <2>3. PushesApart'
    BY <1>5, <2>1 DEF PushesApart, TakionIdle
  <2>4. Counting' = stats.seq_received + 1 /\ due'.received = due.received + 1
    BY <1>1, <1>5 DEF Counting
  <2>5. ASSUME ~late'
        PROVE  Counting' <= Span' /\ due'.lost = stats.gen_lost + Span' - Counting'
    <3> DEFINE d == n - newestAudio
    <3>1. ~late /\ d \in Nat /\ d >= 1 /\ newestAudio + d = n /\ newestAudio' = n
      <4>1. ~late /\ ~(n <= newestAudio)
        BY <1>1, <2>5
      <4> QED
        BY <1>1, <1>2, <4>1
    <3>2. due'.lost = due.lost + d - 1
      BY <1>1, <1>2, <3>1
    <3>3. Span \in Nat /\ Span + d < SeqMod
      <4>1. Span = SeqDist(stats.seq_min, stats.seq_max) /\ Span \in SeqNums
        BY <1>3, <1>5, SeqDistCases DEF Span
      <4> QED
        BY <1>1, <1>2, <4>1, SeqModType DEF SeqNums
    <3>4. Span' = Span + d
      <4>1. SeqDist(stats.seq_min, newestAudio % SeqMod) + d < SeqMod
        BY <3>3 DEF Span
      <4> HIDE DEF d
      <4>2. SeqDist(stats.seq_min, (newestAudio + d) % SeqMod)
              = SeqDist(stats.seq_min, newestAudio % SeqMod) + d
        BY <1>2, <1>3, <3>1, <4>1, SpanGrows
      <4> QED
        BY <1>5, <3>1, <4>2 DEF Span
    <3> HIDE DEF d
    <3> QED
      BY <1>3, <2>2, <2>4, <3>1, <3>2, <3>3, <3>4
  <2>6. DueTrue'
    BY <1>3, <1>5, <2>1, <2>2, <2>4, <2>5 DEF DueTrue
  <2> QED
    BY <2>3, <2>6
<1>8. ~untrue'
  BY <1>1 DEF StatsTrue
<1> QED
  BY <1>4, <1>6, <1>7, <1>8 DEF StatsTrue

LEMMA StatsStore ==
    ASSUME StatsTrue, PushSeqStore
    PROVE  StatsTrue'
<1>1. /\ pushing.step = "store"
      /\ stats' = [stats EXCEPT !.seq_received = pushing.loaded + 1]
      /\ pushing' = [pushing EXCEPT !.step = "max"]
      /\ raced' = (raced \/ ~StatsFree) /\ late' = late
      /\ cpc' = cpc /\ due' = due /\ newestAudio' = newestAudio /\ untrue' = untrue
  BY DEF PushSeqStore
<1>2. StatsTyped'
  BY <1>1 DEF StatsTrue, StatsTyped
<1>3. /\ stats'.gen_received = stats.gen_received /\ stats'.gen_lost = stats.gen_lost
      /\ stats'.seq_min = stats.seq_min /\ stats'.seq_max = stats.seq_max
      /\ stats'.seq_received = pushing.loaded + 1
      /\ pushing'.step = "max" /\ pushing'.seq_num = pushing.seq_num
  BY <1>1 DEF StatsTrue, StatsTyped
<1>4. MaxAgrees'
  BY <1>1, <1>3 DEF StatsTrue, MaxAgrees, TakionIdle
<1>5. ASSUME ~raced' PROVE PushesApart' /\ DueTrue'
  <2>1. PushesApart /\ DueTrue /\ pushing.loaded = stats.seq_received /\ cpc = "waiting"
    BY <1>1, <1>5 DEF StatsTrue, PushesApart, StatsFree
  <2>2. Counting' = Counting /\ Span' = Span
    BY <1>1, <1>3, <2>1 DEF Counting, Span
  <2>3. PushesApart'
    BY <1>1, <1>3, <2>1 DEF PushesApart, TakionIdle
  <2>4. DueTrue'
    BY <1>1, <1>3, <2>1, <2>2 DEF DueTrue
  <2> QED
    BY <2>3, <2>4
<1> QED
  BY <1>1, <1>2, <1>4, <1>5 DEF StatsTrue

LEMMA StatsMax ==
    ASSUME StatsTrue, PushSeqMax
    PROVE  StatsTrue'
<1> DEFINE m == IF SeqGt(pushing.seq_num, stats.seq_max) THEN pushing.seq_num ELSE stats.seq_max
<1>1. /\ pushing.step = "max"
      /\ stats' = [stats EXCEPT !.seq_max = m]
      /\ pushing' = NotPushing
      /\ raced' = (raced \/ ~StatsFree) /\ late' = late
      /\ cpc' = cpc /\ due' = due /\ newestAudio' = newestAudio /\ untrue' = untrue
  BY DEF PushSeqMax
<1>2. m \in SeqNums /\ m = newestAudio % SeqMod
  BY <1>1 DEF StatsTrue, StatsTyped, MaxAgrees, TakionIdle
<1>3. StatsTyped'
  <2>1. NotPushing \in [step : {"idle", "store", "max"}, seq_num : SeqNums, loaded : Nat]
    BY SeqModType DEF NotPushing, SeqNums
  <2> HIDE DEF m
  <2> QED
    BY <1>1, <1>2, <2>1 DEF StatsTrue, StatsTyped
<1>4. /\ stats'.gen_received = stats.gen_received /\ stats'.gen_lost = stats.gen_lost
      /\ stats'.seq_min = stats.seq_min /\ stats'.seq_max = m
      /\ stats'.seq_received = stats.seq_received
      /\ pushing'.step = "idle"
  <2> HIDE DEF m
  <2> QED
    BY <1>1 DEF StatsTrue, StatsTyped, NotPushing
<1> HIDE DEF m
<1>5. MaxAgrees'
  BY <1>1, <1>2, <1>4 DEF MaxAgrees, TakionIdle
<1>6. ASSUME ~raced' PROVE PushesApart' /\ DueTrue'
  <2>1. PushesApart /\ DueTrue /\ cpc = "waiting"
    BY <1>1, <1>6 DEF StatsTrue, StatsFree
  <2>2. Counting' = Counting /\ Span' = Span
    BY <1>1, <1>4 DEF Counting, Span
  <2>3. PushesApart'
    BY <1>4 DEF PushesApart, TakionIdle
  <2>4. DueTrue'
    BY <1>1, <1>4, <2>1, <2>2 DEF DueTrue
  <2> QED
    BY <2>3, <2>4
<1> QED
  BY <1>1, <1>3, <1>5, <1>6 DEF StatsTrue

(* What get reports is what is due. *)
LEMMA StatsGet ==
    ASSUME StatsTrue, GetStats
    PROVE  StatsTrue'
<1>1. /\ cpc = "waiting" /\ cpc' = "reset"
      /\ raced' = ~TakionIdle
      /\ untrue' = (untrue \/ /\ ~raced /\ TakionIdle
                              /\ \/ GotReceived # due.received % SeqMod
                                 \/ ~late /\ GotLost # due.lost % SeqMod)
      /\ due' = Nothing
      /\ stats' = stats /\ pushing' = pushing /\ newestAudio' = newestAudio
  BY DEF GetStats
<1>2. StatsTyped'
  BY <1>1 DEF StatsTrue, StatsTyped, Nothing
<1>3. MaxAgrees'
  BY <1>1 DEF StatsTrue, MaxAgrees, TakionIdle
<1>4. ASSUME ~raced' PROVE PushesApart' /\ DueTrue'
  BY <1>1, <1>4 DEF PushesApart, DueTrue, TakionIdle
<1>5. ASSUME ~raced, TakionIdle
      PROVE  /\ GotReceived = due.received % SeqMod
             /\ ~late => GotLost = due.lost % SeqMod
  <2>1. PushesApart /\ DueTrue
    BY <1>5 DEF StatsTrue
  <2>2. /\ Counting = stats.seq_received
        /\ Span = SeqDist(stats.seq_min, stats.seq_max)
    BY <1>5 DEF StatsTrue, MaxAgrees, TakionIdle, Counting, Span
  <2>3. /\ due.received = stats.gen_received + stats.seq_received
        /\ ~late => /\ stats.seq_received <= SeqDist(stats.seq_min, stats.seq_max)
                    /\ due.lost = stats.gen_lost + SeqDist(stats.seq_min, stats.seq_max)
                                    - stats.seq_received
    BY <1>1, <2>1, <2>2 DEF DueTrue
  <2>4. GotReceived = due.received % SeqMod
    BY <2>3 DEF GotReceived
  <2>5. ~late => GotLost = due.lost % SeqMod
    BY <2>3, LostAcrossWrap DEF StatsTrue
  <2> QED
    BY <2>4, <2>5
<1>6. ~untrue'
  BY <1>1, <1>5 DEF StatsTrue
<1> QED
  BY <1>2, <1>3, <1>4, <1>6 DEF StatsTrue

LEMMA StatsReset ==
    ASSUME StatsTrue, ResetStats
    PROVE  StatsTrue'
<1>1. /\ cpc = "reset" /\ cpc' = "clear"
      /\ stats' = [stats EXCEPT !.gen_received = 0, !.gen_lost = 0, !.seq_min = stats.seq_max]
      /\ pushing' = pushing /\ due' = due /\ newestAudio' = newestAudio
      /\ late' = late /\ raced' = raced /\ untrue' = untrue
  BY DEF ResetStats, ghostVars
<1>2. StatsTyped'
  <2>1. stats.seq_max \in SeqNums /\ stats.seq_received \in Nat
    BY DEF StatsTrue, StatsTyped
  <2>2. stats' = [gen_received |-> 0, gen_lost |-> 0, seq_min |-> stats.seq_max,
                  seq_max |-> stats.seq_max, seq_received |-> stats.seq_received]
    BY <1>1 DEF StatsTrue, StatsTyped
  <2>3. stats' \in [gen_received : Nat, gen_lost : Int, seq_min : SeqNums,
                   seq_max : SeqNums, seq_received : Nat]
    BY <2>1, <2>2
  <2> QED
    BY <1>1, <2>3 DEF StatsTrue, StatsTyped
<1>3. /\ stats'.gen_received = 0 /\ stats'.gen_lost = 0
      /\ stats'.seq_min = stats.seq_max /\ stats'.seq_max = stats.seq_max
      /\ stats'.seq_received = stats.seq_received
  BY <1>1 DEF StatsTrue, StatsTyped
<1>4. MaxAgrees'
  BY <1>1, <1>3 DEF StatsTrue, MaxAgrees, TakionIdle
<1>5. ASSUME ~raced' PROVE PushesApart' /\ DueTrue'
  <2>1. PushesApart /\ DueTrue
    BY <1>1, <1>5 DEF StatsTrue
  <2>2. PushesApart'
    BY <1>1, <1>3, <2>1 DEF PushesApart, TakionIdle
  <2>3. DueTrue'
    BY <1>1, <1>3, <2>1 DEF DueTrue
  <2> QED
    BY <2>2, <2>3
<1> QED
  BY <1>1, <1>2, <1>4, <1>5 DEF StatsTrue

LEMMA StatsResetReceived ==
    ASSUME StatsTrue, ResetReceived
    PROVE  StatsTrue'
<1>1. /\ cpc = "clear" /\ cpc' = "waiting"
      /\ stats' = [stats EXCEPT !.seq_received = 0]
      /\ pushing' = pushing /\ due' = due /\ newestAudio' = newestAudio
      /\ late' = late /\ raced' = raced /\ untrue' = untrue
  BY DEF ResetReceived, ghostVars
<1>2. StatsTyped'
  <2>1. stats' \in [gen_received : Nat, gen_lost : Int, seq_min : SeqNums,
                   seq_max : SeqNums, seq_received : Nat]
    BY <1>1 DEF StatsTrue, StatsTyped
  <2> QED
    BY <1>1, <2>1 DEF StatsTrue, StatsTyped
<1>3. /\ stats'.gen_received = stats.gen_received /\ stats'.gen_lost = stats.gen_lost
      /\ stats'.seq_min = stats.seq_min /\ stats'.seq_max = stats.seq_max
      /\ stats'.seq_received = 0
  BY <1>1 DEF StatsTrue, StatsTyped
<1>4. MaxAgrees'
  BY <1>1, <1>3 DEF StatsTrue, MaxAgrees, TakionIdle
<1>5. ASSUME ~raced' PROVE PushesApart' /\ DueTrue'
  <2>1. PushesApart /\ DueTrue
    BY <1>1, <1>5 DEF StatsTrue
  <2>2. /\ pushing.step = "idle" /\ newestAudio % SeqMod = stats.seq_max /\ due = Nothing
        /\ stats.gen_received = 0 /\ stats.gen_lost = 0 /\ stats.seq_min = stats.seq_max
    BY <1>1, <2>1 DEF StatsTrue, MaxAgrees, PushesApart, DueTrue, TakionIdle
  <2>3. SeqDist(stats.seq_max, stats.seq_max) = 0
    <3> DEFINE k == stats.seq_max
    <3>1. k \in SeqNums /\ k \in Int
      BY SeqModType DEF StatsTrue, StatsTyped, SeqNums
    <3> HIDE DEF k
    <3>2. SeqDist(k, k) = 0
      BY <3>1, SeqDistCases
    <3> QED
      BY <3>2 DEF k
  <2>4. Counting' = 0 /\ Span' = 0
    BY <1>1, <1>3, <2>2, <2>3 DEF Counting, Span
  <2>5. PushesApart'
    BY <1>1, <2>2 DEF PushesApart, TakionIdle
  <2>6. DueTrue'
    BY <1>1, <1>3, <2>2, <2>4 DEF DueTrue, Nothing
  <2> QED
    BY <2>5, <2>6
<1> QED
  BY <1>1, <1>2, <1>4, <1>5 DEF StatsTrue

LEMMA StatsInit == AVInit => StatsTrue
<1> SUFFICES ASSUME AVInit PROVE StatsTrue
  OBVIOUS
<1>1. 0 % SeqMod = 0 /\ 0 \in SeqNums
  BY SeqModType DEF SeqNums
<1>2. SeqDist(0, 0) = 0
  BY <1>1, SeqDistCases
<1>3. StatsTyped
  BY <1>1 DEF AVInit, StatsTyped, NotPushing, Nothing
<1>4. PushesApart /\ MaxAgrees
  BY <1>1 DEF AVInit, PushesApart, MaxAgrees, TakionIdle, NotPushing
<1>5. Counting = 0 /\ Span = 0
  BY <1>1, <1>2 DEF AVInit, Counting, Span, NotPushing
<1>6. DueTrue
  BY <1>5 DEF AVInit, DueTrue, Nothing
<1> QED
  BY <1>3, <1>4, <1>6 DEF AVInit, StatsTrue

LEMMA StatsStep == VideoTypeOK /\ AudioTrue /\ StatsTrue /\ [AVNext]_avVars => StatsTrue'
<1> SUFFICES ASSUME VideoTypeOK, AudioTrue, StatsTrue, [AVNext]_avVars PROVE StatsTrue'
  OBVIOUS
<1>1. CASE ReceiveVideo
  <2>1. /\ TakionIdle /\ UNCHANGED <<pushing, cpc, newestAudio, late, raced, untrue>>
        /\ PushGeneration(Generation(vr.fp)) \/ UNCHANGED <<stats, due>>
    <3> HIDE DEF VideoTypeOK, AudioTrue, StatsTrue
    <3> QED
      BY <1>1 DEF ReceiveVideo
  <2>2. CASE PushGeneration(Generation(vr.fp))
    BY <2>1, <2>2, GenerationType, StatsVideo
  <2>3. CASE UNCHANGED <<stats, due>>
    <3>1. UNCHANGED <<stats, pushing, cpc, ghostVars>>
      BY <2>1, <2>3 DEF ghostVars
    <3> QED
      BY <3>1, StatsSame
  <2> QED
    BY <2>1, <2>2, <2>3
<1>2. CASE ReceiveStreamInfo
  BY <1>2, StatsSame DEF ReceiveStreamInfo
<1>3. CASE ReceiveAudio
  BY <1>3, StatsAudio
<1>4. CASE PushSeqStore
  BY <1>4, StatsStore
<1>5. CASE PushSeqMax
  BY <1>5, StatsMax
<1>6. CASE GetStats
  BY <1>6, StatsGet
<1>7. CASE ResetStats
  BY <1>7, StatsReset
<1>8. CASE ResetReceived
  BY <1>8, StatsResetReceived
<1>9. CASE UNCHANGED avVars
  BY <1>9, StatsSame DEF avVars
<1> QED
  BY <1>1, <1>2, <1>3, <1>4, <1>5, <1>6, <1>7, <1>8, <1>9
  DEF AVNext, TakionThread, CongestionThread

(* What congestion control tells the console is what chiaki_video_receiver  *)
(* and chiaki_audio_receiver counted since the report before, whatever      *)
(* wraps around: the packets received also when some came late or twice,    *)
(* the packets lost unless one of that interval did.  Nothing is said of a  *)
(* report whose get, or the reset before it, met push_seq, which does not   *)
(* take the mutex; the reports after it are true again.                    *)
THEOREM ReportsTold == AVSpec => []ReportsAreTrue
<1>1. AVSpec => []VideoTypeOK
  BY AVImplementsVideo, VideoTypeCorrect
<1>2. StatsTrue => ReportsAreTrue
  BY DEF StatsTrue, ReportsAreTrue
<1> QED
  BY <1>1, <1>2, AudioInvariant, StatsInit, StatsStep, PTL DEF AVSpec
==============================================================================
