-------------------------- MODULE TakionSendBuffer --------------------------
(***************************************************************************)
(* Reliable sending of lib/src/takion.c and lib/src/takionsendbuffer.c:    *)
(* chiaki_takion_send_message_data numbers a message, sends it as a        *)
(* datagram and stores its buffer; the send buffer's thread sends stored   *)
(* messages again; an acknowledgement frees those it covers and reports    *)
(* them; the Takion thread tears the send buffer down when it ends.        *)
(*                                                                         *)
(* Every function of takionsendbuffer.c runs under the buffer's mutex, so  *)
(* each is one action.  The network loses and reorders datagrams, and one  *)
(* that is sent again may arrive again.                                    *)
(* The console, which is not part of the source, acknowledges each message *)
(* with the last number up to which it has received them all.              *)
(***************************************************************************)
EXTENDS SeqNum, Sequences, FiniteSets

CONSTANTS
    Size,           \* bound on packets_size; TAKION_SEND_BUFFER_SIZE is 16
    FirstSeq,       \* takion->tag_local, a random number
    MaxSent,        \* bound on the messages sent
    MayLose,        \* datagrams are lost; if not, they may still never arrive
    SendMayFail,    \* the operating system may refuse a datagram
    RecvMayFail,    \* the Takion thread may end by itself
    MayClose        \* the session thread may close Takion

ASSUME SendBufferAssumption ==
    /\ Size \in Nat \ {0}
    /\ FirstSeq \in SeqNums
    /\ MaxSent \in 1 .. SeqHalf         \* outstanding messages stay comparable

(* The session thread and, in its callbacks, the Takion thread.            *)
Senders == {"session", "takion"}

NoSeq == -1

VARIABLES
    seq_num_local,  \* the next number to give out
    packets,        \* the array of slots: seq_num, and whether it is due again
    packets_size,   \*   of these, how many it has: the size it was made with
    packets_count,
    should_stop,
    rpc,            \* the resend thread: at its "loop" head, in a wait with
                    \*   ("timed") or without timeout ("waiting"), "ended"
    woken,          \* it was signalled in the wait without timeout
    sending,        \* per sender: number of the message in its hands, and whether
                    \*   the datagram is still "new" or was "sent"
    tpc,            \* the Takion thread: "running", then through its exit
    closing,        \* the session thread is in chiaki_takion_close
    heap,           \* per number: who owns packet_buf, or "freed"
    broken,         \* history: a push used a send buffer that was torn down
    acked,          \* history: the DATA_ACK events
    net,            \* datagrams on their way
    received,       \* the messages the console has received
    acks            \* acknowledgements on their way

bufferVars == <<packets, packets_size, packets_count, should_stop, rpc, woken>>
networkVars == <<net, received, acks>>
vars == <<bufferVars, seq_num_local, sending, tpc, closing, heap, broken, acked, networkVars>>

Idle == [seq_num |-> NoSeq, step |-> "idle"]

(* A slot behind the packets, whose content nobody reads. *)
NoPacket == [seq_num |-> NoSeq, due |-> FALSE]

SentSoFar == SeqDist(FirstSeq, seq_num_local)

Messages == {SeqAdd(FirstSeq, k) : k \in 0 .. MaxSent - 1}

Init ==
    /\ seq_num_local = FirstSeq
    /\ packets = [i \in 1 .. Size |-> NoPacket]
    /\ packets_size \in 1 .. Size
    /\ packets_count = 0
    /\ should_stop = FALSE
    /\ rpc = "loop"
    /\ woken = FALSE
    /\ sending = [s \in Senders |-> Idle]
    /\ tpc = "running"
    /\ closing = FALSE
    /\ heap = [n \in SeqNums |-> "none"]
    /\ broken = FALSE
    /\ acked = <<>>
    /\ net = {} /\ received = {} /\ acks = {}

-----------------------------------------------------------------------------
(* chiaki_takion_send_message_data.                                        *)

(* A sender that is free to call: the Takion thread until it leaves its    *)
(* loop, the session thread until it closes Takion.                        *)
MaySend(s) ==
    /\ sending[s] = Idle
    /\ IF s = "takion" THEN tpc = "running" ELSE ~closing

(* The buffer is allocated and the number taken under seq_num_local_mutex. *)
TakeSeqNum(s) ==
    /\ MaySend(s)
    /\ SentSoFar < MaxSent
    /\ sending' = [sending EXCEPT ![s] = [seq_num |-> seq_num_local, step |-> "new"]]
    /\ heap' = [heap EXCEPT ![seq_num_local] = s]
    /\ seq_num_local' = SeqAdd(seq_num_local, 1)
    /\ UNCHANGED <<bufferVars, tpc, closing, broken, acked, networkVars>>

(* chiaki_takion_send; a failure frees the buffer and returns.             *)
SendDatagram(s) ==
    /\ sending[s].step = "new"
    /\ \/ /\ tpc # "closed"
          /\ net' = net \cup {sending[s].seq_num}
          /\ sending' = [sending EXCEPT ![s].step = "sent"]
          /\ UNCHANGED heap
       \/ /\ SendMayFail \/ tpc = "closed"
          /\ heap' = [heap EXCEPT ![sending[s].seq_num] = "freed"]
          /\ sending' = [sending EXCEPT ![s] = Idle]
          /\ UNCHANGED net
    /\ UNCHANGED <<bufferVars, seq_num_local, tpc, closing, broken, acked, received, acks>>

(* No overflow and no duplicate. *)
Stores(n) ==
    /\ packets_count < packets_size
    /\ \A i \in 1 .. packets_count : packets[i].seq_num # n

(* Mutant: the thread is woken for the second packet, not for the first. *)
WakesThread_Late == packets_count = 1

(* The thread sleeps without timeout only while the buffer is empty. *)
WakesThread == packets_count = 0

(* Mutant: a refused buffer is left to a caller that has forgotten it. *)
Push_Leaks(s) ==
    LET n == sending[s].seq_num
    IN  /\ sending[s].step = "sent"
        /\ IF Stores(n)
           THEN /\ packets_count' = packets_count + 1
                /\ packets' = [packets EXCEPT ![packets_count'] = [seq_num |-> n, due |-> FALSE]]
                /\ woken' = (woken \/ (WakesThread /\ rpc = "waiting"))
                /\ heap' = [heap EXCEPT ![n] = "stored"]
           ELSE UNCHANGED <<packets, packets_count, woken, heap>>
        /\ broken' = (broken \/ tpc \in {"finished", "closed"})
        /\ sending' = [sending EXCEPT ![s] = Idle]
        /\ UNCHANGED <<packets_size, should_stop, rpc, seq_num_local, tpc, closing, acked,
                       networkVars>>

(* chiaki_takion_send_buffer_push, whose result the caller ignores.        *)
Push(s) ==
    LET n == sending[s].seq_num
    IN  /\ sending[s].step = "sent"
        /\ IF Stores(n)
           THEN /\ packets_count' = packets_count + 1
                /\ packets' = [packets EXCEPT ![packets_count'] = [seq_num |-> n, due |-> FALSE]]
                /\ woken' = (woken \/ (WakesThread /\ rpc = "waiting"))
                /\ heap' = [heap EXCEPT ![n] = "stored"]
           ELSE /\ heap' = [heap EXCEPT ![n] = "freed"]
                /\ UNCHANGED <<packets, packets_count, woken>>
        /\ broken' = (broken \/ tpc \in {"finished", "closed"})
        /\ sending' = [sending EXCEPT ![s] = Idle]
        /\ UNCHANGED <<packets_size, should_stop, rpc, seq_num_local, tpc, closing, acked,
                       networkVars>>

-----------------------------------------------------------------------------
(* chiaki_takion_send_buffer_ack: one pass that closes the gaps in place.  *)

(* Mutant: numbers are compared without wrapping around. *)
Covers_Plain(ack, n) == n <= ack

Covers(ack, n) == SeqLe(n, ack)

Move(array, to, from, n) ==
    [k \in DOMAIN array |-> IF k \in to .. to + n - 1 THEN array[from + k - to] ELSE array[k]]

(* Mutant: the entry that starts a new gap is not counted. *)
AckEntry_Miscounts(ack, pass, i) ==
    LET gap == pass.start + pass.shift
    IN  IF ~Covers(ack, pass.array[i].seq_num)
        THEN pass
        ELSE [array |-> IF pass.start = 0 \/ gap = i
                        THEN pass.array
                        ELSE Move(pass.array, pass.start, gap, i - gap),
              start |-> IF pass.start = 0 THEN i
                        ELSE IF gap = i THEN pass.start ELSE i - pass.shift,
              shift |-> IF pass.start = 0 \/ gap = i THEN pass.shift + 1 ELSE pass.shift,
              acked |-> Append(pass.acked, pass.array[i].seq_num)]

(* The body of the loop for slot i.  start is where the gap of size shift   *)
(* begins, 0 before there is one; gap is the first slot behind it.          *)
AckEntry(ack, pass, i) ==
    LET gap == pass.start + pass.shift
    IN  IF ~Covers(ack, pass.array[i].seq_num)
        THEN pass
        ELSE [array |-> IF pass.start = 0 \/ gap = i
                        THEN pass.array
                        ELSE Move(pass.array, pass.start, gap, i - gap),
              start |-> IF pass.start = 0 THEN i
                        ELSE IF gap = i THEN pass.start ELSE i - pass.shift,
              shift |-> pass.shift + 1,
              acked |-> Append(pass.acked, pass.array[i].seq_num)]

AckPass(ack) ==
    LET pass[i \in 0 .. packets_count] ==
            IF i = 0 THEN [array |-> packets, start |-> 0, shift |-> 0, acked |-> <<>>]
            ELSE AckEntry(ack, pass[i - 1], i)
    IN  pass[packets_count]

(* takion_handle_packet_message_data_ack, in the Takion thread.            *)
HandleAck(ack) ==
    /\ tpc = "running"
    /\ sending["takion"] = Idle
    /\ ack \in acks
    /\ LET pass == AckPass(ack)
           gap == pass.start + pass.shift
           array == IF pass.start # 0 /\ gap <= packets_count
                    THEN Move(pass.array, pass.start, gap, packets_count - gap + 1)
                    ELSE pass.array
       IN  /\ packets_count' = packets_count - pass.shift
           /\ packets' = [i \in 1 .. Size |-> IF i <= packets_count' THEN array[i] ELSE NoPacket]
           /\ heap' = [n \in SeqNums |->
                          IF \E i \in DOMAIN pass.acked : pass.acked[i] = n THEN "freed"
                          ELSE heap[n]]
           /\ acked' = acked \o pass.acked
    /\ UNCHANGED <<packets_size, should_stop, rpc, woken, seq_num_local, sending, tpc,
                   closing, broken, networkVars>>

-----------------------------------------------------------------------------
(* takion_send_buffer_thread_func.                                         *)

(* The head of the loop chooses the wait; both look at their predicate     *)
(* before they sleep.                                                      *)
ResendLoop ==
    /\ rpc = "loop"
    /\ rpc' = IF should_stop THEN "ended"
              ELSE IF packets_count > 0 THEN "timed" ELSE "waiting"
    /\ woken' = FALSE
    /\ UNCHANGED <<packets_size, packets, packets_count, should_stop, seq_num_local,
                   sending, tpc, closing, heap, broken, acked, networkVars>>

(* Mutant: the first slot is left out. *)
Resend_SkipsFirst ==
    /\ \/ rpc = "timed"
       \/ rpc = "waiting" /\ woken /\ (should_stop \/ packets_count > 0)
    /\ IF should_stop
       THEN rpc' = "ended" /\ UNCHANGED <<packets, net>>
       ELSE /\ rpc' = "loop"
            /\ net' = net \cup {packets[i].seq_num : i \in {j \in 2 .. packets_count : packets[j].due}}
            /\ packets' = [i \in 1 .. Size |-> [packets[i] EXCEPT !.due = FALSE]]
    /\ woken' = FALSE
    /\ UNCHANGED <<packets_size, packets_count, should_stop, seq_num_local, sending, tpc,
                   closing, heap, broken, acked, received, acks>>

(* The wait ends, in "timed" at the latest after 100 ms; with no reason to  *)
(* stop, takion_send_buffer_resend sends every stored packet that is due.   *)
Resend ==
    /\ \/ rpc = "timed"
       \/ rpc = "waiting" /\ woken /\ (should_stop \/ packets_count > 0)
    /\ IF should_stop
       THEN rpc' = "ended" /\ UNCHANGED <<packets, net>>
       ELSE /\ rpc' = "loop"
            /\ net' = net \cup {packets[i].seq_num : i \in {j \in 1 .. packets_count : packets[j].due}}
            /\ packets' = [i \in 1 .. Size |->
                              IF i <= packets_count THEN [packets[i] EXCEPT !.due = FALSE]
                              ELSE packets[i]]
    /\ woken' = FALSE
    /\ UNCHANGED <<packets_size, packets_count, should_stop, seq_num_local, sending, tpc,
                   closing, heap, broken, acked, received, acks>>

(* TAKION_DATA_RESEND_TIMEOUT_MS go by.                                    *)
TimePasses ==
    /\ \E i \in 1 .. packets_count : ~packets[i].due
    /\ packets' = [i \in 1 .. Size |->
                      IF i <= packets_count THEN [packets[i] EXCEPT !.due = TRUE] ELSE packets[i]]
    /\ UNCHANGED <<packets_size, packets_count, should_stop, rpc, woken, seq_num_local,
                   sending, tpc, closing, heap, broken, acked, networkVars>>

-----------------------------------------------------------------------------
(* The end of Takion.                                                      *)

(* chiaki_takion_close: signals the stop pipe and joins.                   *)
Close ==
    /\ MayClose /\ ~closing
    /\ sending["session"] = Idle
    /\ closing' = TRUE
    /\ UNCHANGED <<bufferVars, seq_num_local, sending, tpc, heap, broken, acked, networkVars>>

(* takion_recv is canceled or fails: the thread leaves its loop and        *)
(* chiaki_takion_send_buffer_fini sets should_stop.                        *)
LeaveLoop ==
    /\ tpc = "running"
    /\ sending["takion"] = Idle
    /\ closing \/ RecvMayFail
    /\ tpc' = "stopping"
    /\ should_stop' = TRUE
    /\ UNCHANGED <<packets_size, packets, packets_count, rpc, woken, seq_num_local, sending,
                   closing, heap, broken, acked, networkVars>>

(* Mutant: the thread is not woken to see should_stop. *)
FiniSignal_Not ==
    /\ tpc = "stopping"
    /\ tpc' = "joining"
    /\ UNCHANGED <<packets_size, packets, packets_count, should_stop, rpc, woken,
                   seq_num_local, sending, closing, heap, broken, acked, networkVars>>

FiniSignal ==
    /\ tpc = "stopping"
    /\ tpc' = "joining"
    /\ woken' = (woken \/ rpc = "waiting")
    /\ UNCHANGED <<packets_size, packets, packets_count, should_stop, rpc, seq_num_local,
                   sending, closing, heap, broken, acked, networkVars>>

(* The join, and the buffers of all stored packets are freed.              *)
FiniFree ==
    /\ tpc = "joining"
    /\ rpc = "ended"
    /\ tpc' = "finished"
    /\ heap' = [n \in SeqNums |->
                   IF \E i \in 1 .. packets_count : packets[i].seq_num = n THEN "freed" ELSE heap[n]]
    /\ UNCHANGED <<bufferVars, seq_num_local, sending, closing, broken, acked, networkVars>>

(* The DISCONNECT event, and the socket is closed.                         *)
ThreadEnds ==
    /\ tpc = "finished"
    /\ tpc' = "closed"
    /\ UNCHANGED <<bufferVars, seq_num_local, sending, closing, heap, broken, acked, networkVars>>

-----------------------------------------------------------------------------
(* The network and the console.                                            *)

Cumulative(got) ==
    LET missing == {k \in 0 .. MaxSent : SeqAdd(FirstSeq, k) \notin got}
        first == CHOOSE k \in missing : \A j \in missing : k <= j
    IN  SeqAdd(FirstSeq, first - 1)

Deliver(n) ==
    /\ n \in net
    /\ net' = net \ {n}
    /\ received' = received \cup {n}
    /\ acks' = acks \cup {Cumulative(received')}
    /\ UNCHANGED <<bufferVars, seq_num_local, sending, tpc, closing, heap, broken, acked>>

Lose(n) ==
    /\ MayLose
    /\ n \in net
    /\ net' = net \ {n}
    /\ UNCHANGED <<bufferVars, seq_num_local, sending, tpc, closing, heap, broken, acked,
                   received, acks>>

LoseAck(a) ==
    /\ MayLose
    /\ a \in acks
    /\ acks' = acks \ {a}
    /\ UNCHANGED <<bufferVars, seq_num_local, sending, tpc, closing, heap, broken, acked,
                   net, received>>

-----------------------------------------------------------------------------
Sending == \E s \in Senders : TakeSeqNum(s) \/ SendDatagram(s) \/ Push(s)

ResendThread == ResendLoop \/ Resend

Teardown == LeaveLoop \/ FiniSignal \/ FiniFree \/ ThreadEnds

Network == \E n \in SeqNums : Deliver(n) \/ Lose(n) \/ LoseAck(n)

Next ==
    \/ Sending
    \/ \E a \in SeqNums : HandleAck(a)
    \/ ResendThread
    \/ TimePasses
    \/ Close
    \/ Teardown
    \/ Network

Spec == Init /\ [][Next]_vars

(* Threads run and time passes.  A datagram sent again and again arrives in *)
(* the end, and so does an acknowledgement.  Nobody has to close Takion.    *)
Fairness ==
    /\ WF_vars(ResendThread)
    /\ WF_vars(TimePasses)
    /\ WF_vars(FiniSignal \/ FiniFree \/ ThreadEnds)
    /\ \A s \in Senders : WF_vars(SendDatagram(s) \/ Push(s))
    /\ \A n \in Messages : SF_vars(Deliver(n)) /\ SF_vars(HandleAck(n))

FairSpec == Spec /\ Fairness

-----------------------------------------------------------------------------
(* Every variable has its type.                                            *)
TypeOK ==
    /\ seq_num_local \in SeqNums
    /\ packets \in [1 .. Size -> [seq_num : SeqNums \cup {NoSeq}, due : BOOLEAN]]
    /\ packets_size \in 1 .. Size
    /\ packets_count \in 0 .. Size
    /\ should_stop \in BOOLEAN /\ woken \in BOOLEAN
    /\ rpc \in {"loop", "timed", "waiting", "ended"}
    /\ sending \in [Senders -> [seq_num : SeqNums \cup {NoSeq}, step : {"idle", "new", "sent"}]]
    /\ tpc \in {"running", "stopping", "joining", "finished", "closed"}
    /\ heap \in [SeqNums -> Senders \cup {"none", "stored", "freed"}]
    /\ closing \in BOOLEAN /\ broken \in BOOLEAN
    /\ acked \in Seq(SeqNums)
    /\ net \subseteq SeqNums /\ received \subseteq SeqNums /\ acks \subseteq SeqNums

(* A packet buffer has one owner at any time: a sender has those it is     *)
(* sending, a slot of the array each of the others that are not freed, and *)
(* no two slots the same one.  Nothing is left when Takion has ended, but  *)
(* for what a push stored after the teardown (broken).                     *)
OneOwner ==
    /\ \A n \in SeqNums, s \in Senders : heap[n] = s <=> sending[s].seq_num = n
    /\ tpc \notin {"finished", "closed"} =>
          /\ \A i, j \in 1 .. packets_count :
                packets[i].seq_num = packets[j].seq_num => i = j
          /\ \A n \in SeqNums :
                heap[n] = "stored" <=> \E i \in 1 .. packets_count : packets[i].seq_num = n
    /\ tpc = "closed" /\ ~broken => \A n \in SeqNums : heap[n] # "stored"

(* The slots up to i whose packets an acknowledgement covers.              *)
Covered(ack, i) == {j \in 1 .. i : SeqLe(packets[j].seq_num, ack)}

(* An acknowledgement takes exactly the packets it covers out of the array, *)
(* in whatever order senders stored them, and each of the others moves down *)
(* past those that were taken before it: none is lost and their order stays. *)
AckTakesTheCovered ==
    [][\A ack \in SeqNums : HandleAck(ack) =>
          /\ packets_count' = packets_count - Cardinality(Covered(ack, packets_count))
          /\ \A i \in 1 .. packets_count : i \notin Covered(ack, packets_count) =>
                packets'[i - Cardinality(Covered(ack, i))] = packets[i]
          /\ Len(acked') - Len(acked) = packets_count - packets_count']_vars

(* A DATA_ACK event is for a message the console has received, and there   *)
(* is one per message, however acknowledgements are repeated or reordered. *)
AckedOnceReceived ==
    /\ \A i \in 1 .. Len(acked) : acked[i] \in received
    /\ \A i, j \in 1 .. Len(acked) : acked[i] = acked[j] => i = j

(* The resend thread never sleeps without timeout while there is something *)
(* to send again, or when it is to end.                                    *)
NeverAsleepOnPackets ==
    rpc = "waiting" /\ ~woken => packets_count = 0 /\ tpc \in {"running", "stopping"}

(* The console waits for a message before n for good: its datagram is lost, *)
(* and nobody has it any more, because it could not be sent in the first    *)
(* place or because the send buffer was full when it was to be stored, of   *)
(* which chiaki_takion_send_message_data tells nobody.                      *)
Hole(n) ==
    \E m \in Messages : SeqLt(m, n) /\ heap[m] = "freed" /\ m \notin net \cup received

(* A stored message gets to the console and is acknowledged in the end,    *)
(* although any one datagram may be lost and the buffer may be full for    *)
(* others: nothing but such a hole before it keeps its slot taken for good, *)
(* unless Takion ends.                                                     *)
StoredGetsAcked ==
    \A n \in Messages :
        heap[n] = "stored" /\ tpc = "running"
            ~> heap[n] # "stored" \/ tpc # "running" \/ Hole(n)

(* Once the Takion thread tears the send buffer down it ends:              *)
(* chiaki_takion_close returns.                                            *)
TeardownEnds == tpc = "stopping" ~> tpc = "closed"
=============================================================================
