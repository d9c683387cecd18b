------------------------------- MODULE Takion -------------------------------
(***************************************************************************)
(* The Takion thread of lib/src/takion.c: the handshake, and what it does  *)
(* with each datagram it receives.                                         *)
(*                                                                         *)
(* Data messages go through the reorder queue (ReorderQueue, whose         *)
(* operators are used here) to the callback and are acknowledged; audio    *)
(* and video packets go to the callback at once, except that they are      *)
(* postponed until the callback has set the keys while it handled the      *)
(* BANG message.  The callback itself is StreamConnection's.               *)
(*                                                                         *)
(* The network loses and reorders datagrams.  The console, which is not    *)
(* part of the source, answers the handshake and sends each message again  *)
(* until it is acknowledged.                                               *)
(***************************************************************************)
EXTENDS SeqNum, Sequences, FiniteSets

CONSTANTS
    Size,           \* 1 << TAKION_REORDER_QUEUE_SIZE_EXP
    TagRemote,      \* the console's tag, with which its numbers begin
    MaxMessages,    \* bound on the console's data messages
    Bang,           \* the message whose callback sets the keys
    EnableCrypt,    \* info->enable_crypt; Senkusha connects without
    MaxPostponed,   \* TAKION_POSTPONE_PACKETS_SIZE
    MaxAV           \* bound on the console's audio and video packets

ASSUME TakionAssumption ==
    /\ Size \in Nat \ {0, 1}
    /\ Size < SeqHalf
    /\ SeqHalf % Size = 0
    /\ TagRemote \in SeqNums
    /\ MaxMessages \in 1 .. SeqHalf - 1     \* its numbers stay comparable
    /\ Bang \in 1 .. MaxMessages
    /\ EnableCrypt \in BOOLEAN
    /\ MaxPostponed \in Nat
    /\ MaxAV \in Nat

Messages == 1 .. MaxMessages
AVPackets == 1 .. MaxAV

NoElem == 0
NoSeq == -1

VARIABLES
    tpc,                \* where takion_thread_func is
    slots, begin, count,\* data_queue
    lastPulled,         \* seq_num and ack of takion_flush_data_queue
    gkcrypt_remote,     \* whether the callback has set the keys
    crypt_available,
    postponed,          \* postponed_packets
    stop,               \* stop_pipe was stopped by chiaki_takion_close
    delivered,          \* history: the messages the callback got
    handed,             \* history: the AV packets the callback got,
    arrived,            \*   those that were received,
    refused,            \*   and those there was no space for
    net,                \* datagrams on their way to the client
    toConsole,          \* handshake datagrams on their way to the console
    ackOnWay,           \* the highest acknowledgement on its way, 0 for none
    consoleSent,        \* how many messages the console has begun to send,
    consoleAcked,       \*   and up to which it knows them received
    avSent              \* how many AV packets the console has sent

queueVars   == <<slots, begin, count>>
cryptVars   == <<gkcrypt_remote, crypt_available, postponed>>
historyVars == <<delivered, handed, arrived, refused>>
networkVars == <<net, toConsole, ackOnWay, consoleSent, consoleAcked, avSent>>
vars == <<tpc, queueVars, lastPulled, cryptVars, stop, historyVars, networkVars>>

(* The data queue.  ReorderQueue's history is not kept here. *)
Q == INSTANCE ReorderQueue WITH
        SeqStarts <- {TagRemote}, DropStrategies <- {"END"}, Elements <- Messages,
        DropIndices <- {}, MaxGiven <- 0,
        drop_strategy <- "END", dropped <- {}, status <- "open", pos <- 0, place <- <<>>, given <- <<>>, pulled <- <<>>

InitAck   == [kind |-> "initAck", n |-> 0]
CookieAck == [kind |-> "cookieAck", n |-> 0]
Data(n)   == [kind |-> "data", n |-> n]
AV(n)     == [kind |-> "av", n |-> n]

SeqOf(n) == SeqAdd(TagRemote, n - 1)

EmptyQueue ==
    /\ slots' = [i \in 0 .. Size - 1 |-> [set |-> FALSE, user |-> NoElem]]
    /\ begin' = TagRemote
    /\ count' = 0

-----------------------------------------------------------------------------

Init ==
    /\ tpc = "start"
    /\ slots = [i \in 0 .. Size - 1 |-> [set |-> FALSE, user |-> NoElem]]
    /\ begin = TagRemote
    /\ count = 0
    /\ gkcrypt_remote = FALSE
    /\ crypt_available = FALSE
    /\ postponed = <<>>
    /\ lastPulled = NoSeq
    /\ stop = FALSE
    /\ delivered = <<>> /\ handed = <<>> /\ arrived = <<>> /\ refused = {}
    /\ net = {} /\ toConsole = {}
    /\ ackOnWay = 0 /\ consoleSent = 0 /\ consoleAcked = 0 /\ avSent = 0

-----------------------------------------------------------------------------
(* takion_handshake                                                        *)

SendInit ==
    /\ tpc = "start"
    /\ tpc' = "initAck"
    /\ toConsole' = toConsole \cup {"init"}
    /\ UNCHANGED <<queueVars, lastPulled, cryptVars, stop, historyVars, net, ackOnWay, consoleSent, consoleAcked, avSent>>

(* INIT_ACK is answered with the cookie, unless what it says is refused. *)
(* The network may bring it a second time; to bound the states, that comes *)
(* or is lost before the console sends anything else.                      *)
RecvInitAck ==
    /\ tpc = "initAck"
    /\ InitAck \in net
    /\ net' \in {net, net \ {InitAck}}
    /\ \/ tpc' = "cookieAck" /\ toConsole' = toConsole \cup {"cookie"}
       \/ tpc' = "beach" /\ UNCHANGED toConsole
    /\ UNCHANGED <<queueVars, lastPulled, cryptVars, stop, historyVars, ackOnWay, consoleSent, consoleAcked, avSent>>

(* The queue and the send buffer are made, CONNECTED is reported. *)
RecvCookieAck ==
    /\ tpc = "cookieAck"
    /\ CookieAck \in net
    /\ net' = net \ {CookieAck}
    /\ tpc' = "loop"
    /\ EmptyQueue
    /\ crypt_available' = gkcrypt_remote
    /\ UNCHANGED <<lastPulled, gkcrypt_remote, postponed, stop, historyVars, toConsole, ackOnWay, consoleSent, consoleAcked, avSent>>

(* Anything else that arrives first makes the handshake fail. *)
RecvUnexpected ==
    /\ tpc \in {"initAck", "cookieAck"}
    /\ \E d \in net :
          /\ d # IF tpc = "initAck" THEN InitAck ELSE CookieAck
          /\ net' = net \ {d}
    /\ tpc' = "beach"
    /\ UNCHANGED <<queueVars, lastPulled, cryptVars, stop, historyVars, toConsole, ackOnWay, consoleSent, consoleAcked, avSent>>

(* TAKION_EXPECT_TIMEOUT_MS go by; nothing is sent again. *)
HandshakeTimeout ==
    /\ tpc \in {"initAck", "cookieAck"}
    /\ tpc' = "beach"
    /\ UNCHANGED <<queueVars, lastPulled, cryptVars, stop, historyVars, networkVars>>

-----------------------------------------------------------------------------
(* The loop of takion_thread_func                                          *)

HeldIndices == {i \in 0 .. count - 1 : Q!Held(i)}

Recheck == EnableCrypt /\ ~crypt_available /\ gkcrypt_remote

(* The queue's packets are to be checked again once there are keys: the    *)
(* first that chiaki_reorder_queue_peek finds, it writes to a null pointer. *)
RecheckCrashes ==
    /\ tpc = "loop"
    /\ Recheck
    /\ HeldIndices # {}
    /\ tpc' = "crashed"
    /\ UNCHANGED <<queueVars, lastPulled, cryptVars, stop, historyVars, networkVars>>

(* Mutant: the flushed packets stay postponed. *)
LoopHead_KeepsPostponed ==
    /\ tpc = "loop"
    /\ ~(Recheck /\ HeldIndices # {})
    /\ crypt_available' = (crypt_available \/ Recheck)
    /\ IF gkcrypt_remote
       THEN handed' = handed \o postponed
       ELSE UNCHANGED handed
    /\ tpc' = "recv"
    /\ UNCHANGED <<queueVars, lastPulled, gkcrypt_remote, postponed, stop, delivered, arrived, refused, networkVars>>

(* The head of the loop: postponed packets are handled when there are keys. *)
LoopHead ==
    /\ tpc = "loop"
    /\ ~(Recheck /\ HeldIndices # {})
    /\ crypt_available' = (crypt_available \/ Recheck)
    /\ IF gkcrypt_remote
       THEN handed' = handed \o postponed /\ postponed' = <<>>
       ELSE UNCHANGED <<handed, postponed>>
    /\ tpc' = "recv"
    /\ UNCHANGED <<queueVars, lastPulled, gkcrypt_remote, stop, delivered, arrived, refused, networkVars>>

(* chiaki_reorder_queue_push of message n, as slots, begin and count become. *)
Pushed(n) ==
    LET s == SeqOf(n)
    IN  IF Q!InWindow(s) /\ ~slots[Q!Idx(s)].set
        THEN /\ slots' = [slots EXCEPT ![Q!Idx(s)] = [set |-> TRUE, user |-> n]]
             /\ UNCHANGED <<begin, count>>
        ELSE IF Q!Ahead(s) /\ ~Q!Overflows(s)
        THEN Q!Grow(begin, count, s, n)
        ELSE UNCHANGED queueVars

(* takion_handle_packet_message_data. *)
RecvData(n) ==
    /\ tpc = "recv"
    /\ Data(n) \in net
    /\ net' = net \ {Data(n)}
    /\ Pushed(n)
    /\ lastPulled' = NoSeq
    /\ tpc' = "flush"
    /\ UNCHANGED <<cryptVars, stop, historyVars, toConsole, ackOnWay, consoleSent, consoleAcked, avSent>>

(* Mutant: an entry never set is handed out. *)
FlushPull_Unchecked ==
    /\ tpc = "flush"
    /\ count > 0
    /\ LET n == Q!At(0).user
       IN  /\ delivered' = Append(delivered, n)
           /\ gkcrypt_remote' = (gkcrypt_remote \/ (EnableCrypt /\ n = Bang))
    /\ lastPulled' = begin
    /\ begin' = SeqAdd(begin, 1)
    /\ count' = count - 1
    /\ UNCHANGED <<tpc, slots, crypt_available, postponed, stop, handed, arrived, refused, networkVars>>

(* takion_flush_data_queue: what can be pulled goes to the callback, which *)
(* sets the keys while it has the BANG (streamconnection.c:575).           *)
FlushPull ==
    /\ tpc = "flush"
    /\ count > 0
    /\ Q!At(0).set
    /\ LET n == Q!At(0).user
       IN  /\ delivered' = Append(delivered, n)
           /\ gkcrypt_remote' = (gkcrypt_remote \/ (EnableCrypt /\ n = Bang))
    /\ lastPulled' = begin
    /\ begin' = SeqAdd(begin, 1)
    /\ count' = count - 1
    /\ UNCHANGED <<tpc, slots, crypt_available, postponed, stop, handed, arrived, refused, networkVars>>

(* Mutant: the number expected next is acknowledged. *)
AckSent_NextExpected(seq) ==
    LET n == SeqDist(TagRemote, seq) + 2
    IN  ackOnWay' = IF n > ackOnWay THEN n ELSE ackOnWay

(* chiaki_takion_send_message_data_ack: the message with this number and   *)
(* all before it.                                                          *)
AckSent(seq) ==
    LET n == SeqDist(TagRemote, seq) + 1
    IN  ackOnWay' = IF n > ackOnWay THEN n ELSE ackOnWay

(* Mutant: the end of the window is acknowledged. *)
FlushEnds_AcksWindow ==
    /\ tpc = "flush"
    /\ ~(count > 0 /\ Q!At(0).set)
    /\ IF lastPulled = NoSeq THEN UNCHANGED ackOnWay ELSE AckSent(SeqAdd(lastPulled, count))
    /\ tpc' = "loop"
    /\ UNCHANGED <<queueVars, lastPulled, cryptVars, stop, historyVars, net, toConsole,
                   consoleSent, consoleAcked, avSent>>

(* When nothing can be pulled any more, the last number pulled is          *)
(* acknowledged; when nothing was pulled at all, nothing is.               *)
FlushEnds ==
    /\ tpc = "flush"
    /\ ~(count > 0 /\ Q!At(0).set)
    /\ IF lastPulled = NoSeq THEN UNCHANGED ackOnWay ELSE AckSent(lastPulled)
    /\ tpc' = "loop"
    /\ UNCHANGED <<queueVars, lastPulled, cryptVars, stop, historyVars, net, toConsole,
                   consoleSent, consoleAcked, avSent>>

(* takion_postpone_packet *)
Postpone(n) ==
    IF Len(postponed) < MaxPostponed
    THEN postponed' = Append(postponed, n) /\ UNCHANGED refused
    ELSE refused' = refused \cup {n} /\ UNCHANGED postponed

(* takion_handle_packet for an audio or video packet. *)
RecvAV(n) ==
    /\ tpc = "recv"
    /\ AV(n) \in net
    /\ net' = net \ {AV(n)}
    /\ arrived' = Append(arrived, n)
    /\ IF EnableCrypt /\ ~gkcrypt_remote
       THEN Postpone(n) /\ UNCHANGED handed
       ELSE handed' = Append(handed, n) /\ UNCHANGED <<postponed, refused>>
    /\ tpc' = "loop"
    /\ UNCHANGED <<queueVars, lastPulled, gkcrypt_remote, crypt_available, stop, delivered, toConsole,
                   ackOnWay, consoleSent, consoleAcked, avSent>>

(* A late answer of the handshake is a message of an unknown chunk type. *)
RecvOther ==
    /\ tpc = "recv"
    /\ \E d \in {InitAck, CookieAck} : d \in net /\ net' = net \ {d}
    /\ tpc' = "loop"
    /\ UNCHANGED <<queueVars, lastPulled, cryptVars, stop, historyVars, toConsole, ackOnWay,
                   consoleSent, consoleAcked, avSent>>

(* Mutant: only the receives of the handshake listen to the stop pipe. *)
RecvCanceled_HandshakeOnly ==
    /\ stop
    /\ tpc \in {"initAck", "cookieAck"} /\ tpc' = "beach"
    /\ UNCHANGED <<queueVars, lastPulled, cryptVars, stop, historyVars, networkVars>>

(* The stop pipe cancels any takion_recv. *)
RecvCanceled ==
    /\ stop
    /\ \/ tpc \in {"initAck", "cookieAck"} /\ tpc' = "beach"
       \/ tpc = "recv" /\ tpc' = "fini"
    /\ UNCHANGED <<queueVars, lastPulled, cryptVars, stop, historyVars, networkVars>>

(* takion_recv fails by itself, in select or in recv, or there is no memory *)
(* to receive into.                                                        *)
RecvFails ==
    /\ \/ tpc \in {"initAck", "cookieAck"} /\ tpc' = "beach"
       \/ tpc = "recv" /\ tpc' = "fini"
    /\ UNCHANGED <<queueVars, lastPulled, cryptVars, stop, historyVars, networkVars>>

(* The send buffer and the queue are torn down; see TakionSendBuffer. *)
Fini ==
    /\ tpc = "fini"
    /\ EmptyQueue
    /\ tpc' = "beach"
    /\ UNCHANGED <<lastPulled, cryptVars, stop, historyVars, networkVars>>

(* DISCONNECT is reported and the socket closed. *)
Beach ==
    /\ tpc = "beach"
    /\ tpc' = "ended"
    /\ net' = {}
    /\ UNCHANGED <<queueVars, lastPulled, cryptVars, stop, historyVars, toConsole, ackOnWay,
                   consoleSent, consoleAcked, avSent>>

(* chiaki_takion_close stops the pipe, then waits for the thread. *)
Close ==
    /\ ~stop
    /\ stop' = TRUE
    /\ UNCHANGED <<tpc, queueVars, lastPulled, cryptVars, historyVars, networkVars>>

-----------------------------------------------------------------------------
(* The console and the network.                                            *)

clientVars == <<tpc, queueVars, lastPulled, cryptVars, stop, historyVars>>

ConsoleAnswers ==
    /\ \E q \in toConsole :
          /\ toConsole' = toConsole \ {q}
          /\ net' = net \cup {IF q = "init" THEN InitAck ELSE CookieAck}
    /\ UNCHANGED <<clientVars, ackOnWay, consoleSent, consoleAcked, avSent>>

MaxOf(a, b) == IF a >= b THEN a ELSE b

ConsoleMaySend == tpc \in {"loop", "recv", "flush"} /\ InitAck \notin net

(* A message that is new, or not yet acknowledged, is sent once more. *)
ConsoleSends(n) ==
    /\ ConsoleMaySend
    /\ n \in consoleAcked + 1 .. consoleSent + 1
    /\ consoleSent' = MaxOf(consoleSent, n)
    /\ net' = net \cup {Data(n)}
    /\ UNCHANGED <<clientVars, toConsole, ackOnWay, consoleAcked, avSent>>

ConsoleSendsAV(n) ==
    /\ ConsoleMaySend
    /\ n = avSent + 1
    /\ avSent' = n
    /\ net' = net \cup {AV(n)}
    /\ UNCHANGED <<clientVars, toConsole, ackOnWay, consoleSent, consoleAcked>>

ConsoleGetsAck ==
    /\ ackOnWay > 0
    /\ consoleAcked' = MaxOf(consoleAcked, ackOnWay)
    /\ ackOnWay' = 0
    /\ UNCHANGED <<clientVars, net, toConsole, consoleSent, avSent>>

(* What is lost is lost where it would have been received: also a packet   *)
(* that is received and does not pass the check of its MAC.                *)
Lose ==
    /\ tpc \in {"initAck", "cookieAck", "recv"}
    /\ \/ \E d \in net : net' = net \ {d} /\ UNCHANGED <<toConsole, ackOnWay>>
       \/ \E q \in toConsole : toConsole' = toConsole \ {q} /\ UNCHANGED <<net, ackOnWay>>
       \/ ackOnWay > 0 /\ ackOnWay' = 0 /\ UNCHANGED <<net, toConsole>>
    /\ UNCHANGED <<clientVars, consoleSent, consoleAcked, avSent>>

-----------------------------------------------------------------------------

Handshake == SendInit \/ RecvInitAck \/ RecvCookieAck \/ RecvUnexpected

Loop ==
    \/ RecheckCrashes \/ LoopHead \/ FlushPull \/ FlushEnds \/ RecvOther
    \/ \E n \in Messages : RecvData(n)
    \/ \E n \in AVPackets : RecvAV(n)

Console ==
    \/ ConsoleAnswers \/ ConsoleGetsAck
    \/ \E n \in Messages : ConsoleSends(n)
    \/ \E n \in AVPackets : ConsoleSendsAV(n)

Next ==
    \/ Handshake \/ HandshakeTimeout \/ RecvCanceled \/ RecvFails
    \/ Loop \/ Fini \/ Beach \/ Close
    \/ Console \/ Lose

(* The Takion thread runs.  What the console sends again and again arrives *)
(* in the end, and so does an acknowledgement.  Nobody has to close Takion *)
(* and the console need not answer the handshake.                          *)
Fairness ==
    /\ WF_vars(SendInit \/ HandshakeTimeout)
    /\ WF_vars(RecheckCrashes \/ LoopHead \/ FlushPull \/ FlushEnds \/ Fini \/ Beach)
    /\ SF_vars(RecvCanceled)
    /\ SF_vars(ConsoleGetsAck)
    /\ \A n \in Messages : SF_vars(RecvData(n)) /\ WF_vars(n <= consoleSent /\ ConsoleSends(n))

Spec == Init /\ [][Next]_vars /\ Fairness

-----------------------------------------------------------------------------

TypeOK ==
    /\ tpc \in {"start", "initAck", "cookieAck", "loop", "recv", "flush", "fini", "beach",
                "ended", "crashed"}
    /\ slots \in [0 .. Size - 1 -> [set : BOOLEAN, user : Messages \cup {NoElem}]]
    /\ begin \in SeqNums
    /\ count \in 0 .. Size
    /\ lastPulled \in SeqNums \cup {NoSeq}
    /\ gkcrypt_remote \in BOOLEAN /\ crypt_available \in BOOLEAN /\ stop \in BOOLEAN
    /\ postponed \in Seq(AVPackets) /\ Len(postponed) <= MaxPostponed
    /\ delivered \in Seq(Messages) /\ handed \in Seq(AVPackets) /\ arrived \in Seq(AVPackets)
    /\ refused \subseteq AVPackets
    /\ net \subseteq {InitAck, CookieAck} \cup {Data(n) : n \in Messages} \cup {AV(n) : n \in AVPackets}
    /\ toConsole \subseteq {"init", "cookie"}
    /\ ackOnWay \in 0 .. MaxMessages
    /\ avSent \in 0 .. MaxAV
    /\ consoleSent \in 0 .. MaxMessages /\ consoleAcked \in 0 .. MaxMessages

(* The callback gets the console's messages in the order they were sent,   *)
(* each once, whatever the network did with them (takion_flush_data_queue).*)
DeliveredInOrder == delivered = [i \in 1 .. Len(delivered) |-> i]

(* The console takes nothing for received that the callback has not got:   *)
(* it stops sending an acknowledged message, which would be lost.          *)
AckedIsDelivered == consoleAcked <= Len(delivered) /\ ackOnWay <= Len(delivered)

(* With encryption no AV packet reaches the callback before the BANG did. *)
KeysBeforeAV ==
    EnableCrypt /\ handed # <<>> => \E i \in 1 .. Len(delivered) : delivered[i] = Bang

(* s is t without the elements of R: the places in t of what is left, in   *)
(* their order, are all the places of elements outside R.                  *)
IsWithout(s, t, R) ==
    \E f \in [1 .. Len(s) -> 1 .. Len(t)] :
        /\ \A i, j \in 1 .. Len(s) : i < j => f[i] < f[j]
        /\ \A i \in 1 .. Len(s) : s[i] = t[f[i]]
        /\ \A p \in 1 .. Len(t) : t[p] \notin R <=> \E i \in 1 .. Len(s) : f[i] = p

(* With encryption no AV packet reaches the callback before the keys; all  *)
(* do in the order they arrived, each once, also those that were postponed, *)
(* save those that found the postponed packets full.                        *)
AVInOrderAfterKeys ==
    /\ IsWithout(handed \o postponed, arrived, refused)
    /\ KeysBeforeAV
    /\ refused # {} => Len(arrived) > MaxPostponed

Receiving == tpc \in {"loop", "recv", "flush"}

(* What the console has begun to send gets to the callback, however often  *)
(* it or its acknowledgement is lost, unless Takion ends before.           *)
MessagesArrive ==
    \A n \in Messages : n <= consoleSent /\ Receiving ~> Len(delivered) >= n \/ ~Receiving

(* The handshake ends, one way or the other; a Takion that is told to      *)
(* close ends (chiaki_takion_close returns), unless it crashed before.     *)
TakionEnds ==
    /\ tpc \in {"initAck", "cookieAck"} ~> tpc \in {"loop", "ended"}
    /\ stop ~> tpc \in {"ended", "crashed"}
=============================================================================
