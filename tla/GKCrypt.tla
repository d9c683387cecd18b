------------------------------- MODULE GKCrypt -------------------------------
(***************************************************************************)
(* Key positions, MAC keys and the key stream buffer of one direction of   *)
(* an encrypted stream (lib/src/gkcrypt.c), as the Takion thread uses them *)
(* for the packets it receives.                                            *)
(*                                                                         *)
(* Every packet carries the low half of the position of the key stream it  *)
(* is encrypted with.  The receiver reconstructs the position from the one *)
(* before, computes the MAC with the key of that position and decrypts     *)
(* with the stream from there on.  A thread generates the stream in chunks *)
(* ahead of use, into a ring, without holding the mutex while it writes.   *)
(*                                                                         *)
(* Positions count blocks of CHIAKI_GKCRYPT_BLOCK_SIZE bytes.  A block of  *)
(* key stream and a MAC key are represented by what they are generated     *)
(* from, the position and the key index.                                   *)
(***************************************************************************)
EXTENDS SeqNum

CONSTANTS
    Chunk,      \* KEY_BUF_CHUNK_SIZE
    Chunks,     \* key_buf_chunks of chiaki_gkcrypt_init
    KeyRefresh, \* CHIAKI_GKCRYPT_GMAC_KEY_REFRESH_KEY_POS
    MaxSkew,    \* how far a packet's position may be from the previous one's
    Lengths,    \* lengths of packets
    MaxPos      \* bound on positions

ASSUME GKCryptAssumption ==
    /\ Chunk \in Nat \ {0}
    /\ Chunks \in Nat \ {0}
    /\ KeyRefresh \in Nat \ {0}
    /\ MaxSkew \in Nat
    /\ MaxSkew < SeqHalf
    /\ Lengths \subseteq Nat \ {0}
    /\ MaxPos \in Nat

VARIABLES
    keyBuf,         \* key_buf
    populated,      \* key_buf_populated
    keyPosMin,      \* key_buf_key_pos_min
    startOffset,    \* key_buf_start_offset
    lastKeyPos,     \* last_key_pos
    threadStop,     \* key_buf_thread_stop
    kpc,            \* where gkcrypt_thread_func is
    prev,           \* key_state.prev of Takion
    gmacIndex,      \* key_gmac_index_current
    gmacKey,        \* key_gmac_current
    upc,            \* where the user of the key stream is
    packet,         \* history: true position and length of the last packet,
    macKeyUsed,     \* the key its MAC was computed with,
    streamRead      \* and the key stream it was decrypted with

ringVars   == <<keyBuf, populated, keyPosMin, startOffset>>
packetVars == <<prev, gmacIndex, gmacKey, packet, macKeyUsed, streamRead>>
vars       == <<ringVars, lastKeyPos, threadStop, kpc, upc, packetVars>>

KeyBufSize == Chunk * Chunks

Offsets == 0 .. KeyBufSize - 1

(* The content of a block that was never written or is being written. *)
NoBlock == -1

(* The slot of the i-th block of the populated part, or behind it. *)
Slot(i) == (startOffset + i) % KeyBufSize

Stream(p, n) == [i \in 0 .. n - 1 |-> p + i]

-----------------------------------------------------------------------------

Init ==
    /\ keyBuf = [o \in Offsets |-> NoBlock]
    /\ populated = 0
    /\ keyPosMin = 0
    /\ startOffset = 0
    /\ lastKeyPos = 0
    /\ threadStop = FALSE
    /\ kpc = "check"
    /\ prev = 0
    /\ gmacIndex = 0
    /\ gmacKey = 0
    /\ upc = "idle"
    /\ packet = [pos |-> 0, len |-> 0]
    /\ macKeyUsed = 0
    /\ streamRead = Stream(0, 0)

-----------------------------------------------------------------------------
(* The packet's way through the Takion thread.                             *)

(* Mutant: the upper half stays as it was. *)
RequestPos_KeepsHigh(p, low) == (p \div SeqMod) * SeqMod + low

(* chiaki_key_state_request_pos: the position with this lower half that is *)
(* nearest to p.                                                           *)
RequestPos(p, low) ==
    LET prevLow  == p % SeqMod
        prevHigh == p \div SeqMod
        high == IF SeqGt(low, prevLow) /\ low < prevLow THEN prevHigh + 1
                ELSE IF SeqLt(low, prevLow) /\ low > prevLow /\ prevHigh > 0
                     THEN prevHigh - 1
                ELSE prevHigh
    IN  high * SeqMod + low

KeyIndex(p) == (IF p > 0 THEN p - 1 ELSE 0) \div KeyRefresh

(* Mutant: a late packet is checked with the key of the moment. *)
Gmac_NoTmp(p) ==
    /\ gmacIndex' = IF KeyIndex(p) > gmacIndex THEN KeyIndex(p) ELSE gmacIndex
    /\ gmacKey'   = IF KeyIndex(p) > gmacIndex THEN KeyIndex(p) ELSE gmacKey
    /\ macKeyUsed' = gmacKey'

(* chiaki_gkcrypt_gmac: a later key becomes the current one, for an earlier *)
(* one a temporary key is made.                                            *)
Gmac(p) ==
    LET index == KeyIndex(p)
    IN  /\ gmacIndex' = IF index > gmacIndex THEN index ELSE gmacIndex
        /\ gmacKey'   = IF index > gmacIndex THEN index ELSE gmacKey
        /\ macKeyUsed' = IF index < gmacIndex THEN index ELSE gmacKey'

ShouldGenerate(last) == last > keyPosMin + populated \div 2

(* Mutant: only the beginning of a request is looked at. *)
InBuffer_BeginOnly(p, n) == p >= keyPosMin /\ p < keyPosMin + populated

InBuffer(p, n) == p >= keyPosMin /\ p + n < keyPosMin + populated

(* chiaki_gkcrypt_get_key_stream, under key_buf_mutex; what the buffer does *)
(* not have is generated on the spot.                                      *)
GetKeyStream(p, n) ==
    LET last == IF p + n > lastKeyPos THEN p + n ELSE lastKeyPos
    IN  /\ lastKeyPos' = last
        /\ streamRead' = IF InBuffer(p, n)
                         THEN [i \in 0 .. n - 1 |-> keyBuf[Slot(p - keyPosMin + i)]]
                         ELSE Stream(p, n)
        /\ upc' = IF ShouldGenerate(last) THEN "signal" ELSE "idle"

(* A packet sent at position p arrives, of n blocks: takion_handle_packet  *)
(* reads its position, checks the MAC, commits the position, and parsing   *)
(* reads the position again.  Its data is encrypted from the next block on *)
(* (streamconnection.c:941).  Only the lower half of p is in the packet.   *)
(* All of it is done by the Takion thread, and key_state is its alone, so  *)
(* that one step stands for the reads and the commits.  A packet whose MAC *)
(* is wrong is freed before its position is committed (takion.c:822) and   *)
(* has no step: only its request of the MAC's key would be seen here.      *)
ReceivePacket(p, n) ==
    /\ upc = "idle"
    /\ LET read == RequestPos(prev, p % SeqMod)
           pos  == RequestPos(read, p % SeqMod)
       IN  /\ Gmac(read)
           /\ prev' = pos
           /\ GetKeyStream(pos + 1, n)
    /\ packet' = [pos |-> p, len |-> n]
    /\ UNCHANGED <<ringVars, threadStop, kpc>>

(* chiaki_cond_signal, after the mutex was given back. *)
Signal ==
    /\ upc = "signal"
    /\ upc' = "idle"
    /\ kpc' = IF kpc = "asleep" THEN "check" ELSE kpc
    /\ UNCHANGED <<ringVars, lastKeyPos, threadStop, packetVars>>

-----------------------------------------------------------------------------
(* gkcrypt_thread_func                                                     *)

(* Mutant: requests ahead of a full buffer do not count. *)
Pred_OnlyWhileFilling == threadStop \/ populated < KeyBufSize

(* key_buf_mutex_pred *)
Pred == threadStop \/ populated < KeyBufSize \/ ShouldGenerate(lastKeyPos)

(* chiaki_cond_wait_pred finds nothing to do and gives the mutex back. *)
Sleep ==
    /\ kpc = "check"
    /\ ~Pred
    /\ kpc' = "asleep"
    /\ UNCHANGED <<ringVars, lastKeyPos, threadStop, upc, packetVars>>

(* A wait for a condition variable may end without a signal. *)
WakeUp ==
    /\ kpc = "asleep"
    /\ kpc' = "check"
    /\ UNCHANGED <<ringVars, lastKeyPos, threadStop, upc, packetVars>>

(* The ring as gkcrypt_generate_next_chunk finds it: moved to the chunk of *)
(* the last request, advanced by a chunk because it is full, or as it was. *)
SkipAhead ==
    /\ lastKeyPos > keyPosMin + populated
    /\ keyPosMin' = (lastKeyPos \div Chunk) * Chunk
    /\ startOffset' = 0
    /\ populated' = 0

DropOldest ==
    /\ lastKeyPos <= keyPosMin + populated
    /\ populated = KeyBufSize
    /\ startOffset' = (startOffset + Chunk) % KeyBufSize
    /\ keyPosMin' = keyPosMin + Chunk
    /\ populated' = populated - Chunk

JustAppend ==
    /\ lastKeyPos <= keyPosMin + populated
    /\ populated # KeyBufSize
    /\ UNCHANGED <<keyPosMin, startOffset, populated>>

(* The chunk behind the populated part, written in one go: nothing wraps   *)
(* around within it.                                                       *)
NextChunk == {Slot(populated) + i : i \in 0 .. Chunk - 1}

(* The mutex is given back with the position and place of the next chunk   *)
(* decided; from here on its slots are being written.                      *)
BeginChunk ==
    /\ kpc = "check"
    /\ Pred
    /\ ~threadStop
    /\ SkipAhead \/ DropOldest \/ JustAppend
    /\ keyBuf' = [o \in Offsets |-> IF o \in NextChunk' THEN NoBlock ELSE keyBuf[o]]
    /\ kpc' = "generate"
    /\ UNCHANGED <<lastKeyPos, threadStop, upc, packetVars>>

(* The chunk is written; with the mutex again, it is counted. *)
EndChunk ==
    /\ kpc = "generate"
    /\ keyBuf' = [o \in Offsets |->
                    IF o \in NextChunk
                    THEN keyPosMin + populated + (o - Slot(populated))
                    ELSE keyBuf[o]]
    /\ populated' = populated + Chunk
    /\ kpc' = "check"
    /\ UNCHANGED <<keyPosMin, startOffset, lastKeyPos, threadStop, upc, packetVars>>

(* Generating failed, or the thread was told to stop. *)
ThreadEnds ==
    /\ kpc = "generate" \/ (kpc = "check" /\ threadStop)
    /\ kpc' = "ended"
    /\ UNCHANGED <<ringVars, lastKeyPos, threadStop, upc, packetVars>>

-----------------------------------------------------------------------------
(* chiaki_gkcrypt_fini, by the last user: stop, signal, join.              *)

FiniStop ==
    /\ upc = "idle"
    /\ threadStop' = TRUE
    /\ upc' = "finiSignal"
    /\ UNCHANGED <<ringVars, lastKeyPos, kpc, packetVars>>

(* Mutant: the thread is not signalled. *)
FiniSignal_Not ==
    /\ upc = "finiSignal"
    /\ upc' = "finiJoin"
    /\ UNCHANGED <<ringVars, lastKeyPos, threadStop, kpc, packetVars>>

FiniSignal ==
    /\ upc = "finiSignal"
    /\ upc' = "finiJoin"
    /\ kpc' = IF kpc = "asleep" THEN "check" ELSE kpc
    /\ UNCHANGED <<ringVars, lastKeyPos, threadStop, packetVars>>

FiniJoin ==
    /\ upc = "finiJoin"
    /\ kpc = "ended"
    /\ upc' = "gone"
    /\ UNCHANGED <<ringVars, lastKeyPos, threadStop, kpc, packetVars>>

-----------------------------------------------------------------------------

(* The network delivers, repeats and loses packets in any order, as long   *)
(* as a packet is no further than MaxSkew from the one before it.          *)
Arrival ==
    \E p \in 0 .. MaxPos, n \in Lengths :
        /\ p - packet.pos <= MaxSkew
        /\ packet.pos - p <= MaxSkew
        /\ ReceivePacket(p, n)

ThreadStep == Sleep \/ BeginChunk \/ EndChunk \/ ThreadEnds

Next == Arrival \/ Signal \/ ThreadStep \/ WakeUp \/ FiniStop \/ FiniSignal \/ FiniJoin

(* Threads that can run do; packets need not come, and nobody is obliged   *)
(* to end the stream.  Chunks are generated in the end.                    *)
Fairness ==
    /\ WF_vars(Signal)
    /\ WF_vars(Sleep \/ BeginChunk)
    /\ WF_vars(EndChunk)
    /\ WF_vars(ThreadEnds)
    /\ WF_vars(FiniSignal)
    /\ WF_vars(FiniJoin)

Spec == Init /\ [][Next]_vars /\ Fairness

-----------------------------------------------------------------------------

TypeOK ==
    /\ keyBuf \in [Offsets -> Nat \cup {NoBlock}]
    /\ populated \in 0 .. KeyBufSize
    /\ keyPosMin \in Nat
    /\ startOffset \in Offsets
    /\ lastKeyPos \in Nat
    /\ threadStop \in BOOLEAN
    /\ kpc \in {"check", "asleep", "generate", "ended"}
    /\ prev \in Nat
    /\ gmacIndex \in Nat
    /\ gmacKey \in Nat
    /\ upc \in {"idle", "signal", "finiSignal", "finiJoin", "gone"}
    /\ packet \in [pos : Nat, len : Nat]
    /\ macKeyUsed \in Nat

(* The position of a packet is reconstructed from its lower half as the    *)
(* one it was sent with, across any number of wraps of the lower half, for *)
(* packets early and late (chiaki_key_state_request_pos).                  *)
KeyPosIsTrue == prev = packet.pos

(* The MAC of a packet is computed with the key of the packet's position,  *)
(* whichever keys were current before (chiaki_gkcrypt_gmac).               *)
MacKeyFits ==
    /\ macKeyUsed = KeyIndex(packet.pos)
    /\ gmacKey = gmacIndex

(* What a packet is decrypted with is the key stream of its position and   *)
(* not what is left in the ring of other positions, however the thread has *)
(* moved the ring on and wherever it is writing (chiaki_gkcrypt_get_key_stream).*)
ReadsItsOwnStream ==
    packet.len > 0 => streamRead = Stream(packet.pos + 1, packet.len)

(* The populated part of the ring holds the key stream from keyPosMin on.  *)
RingHoldsItsStream ==
    \A i \in 0 .. populated - 1 : keyBuf[Slot(i)] = keyPosMin + i

(* The buffer reaches up to the last request, or the thread has ended. *)
Covered == lastKeyPos <= keyPosMin + populated \/ kpc = "ended"

(* The thread catches up with the requests: it never sleeps through one,   *)
(* and skipping ahead does not go on for ever (gkcrypt_thread_func); and it *)
(* sees the end, so that chiaki_gkcrypt_fini returns.                      *)
ThreadKeepsUp ==
    /\ ~Covered ~> Covered
    /\ upc = "finiSignal" ~> upc = "gone"
=============================================================================
