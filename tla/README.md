# Chiaki in TLA+

Chiaki is a Remote Play client: a library (`lib/`) that speaks the console's
protocols, and applications around it. This directory specifies the library's
control logic: threads, queues, waits, numbers that wrap around,
acknowledgements, frames put together from lost and late packets, and the ends
of all of them. Line numbers refer to files under `src/lib/`.

## The system

A session is made of threads of the library that call each other, wait on
condition variables and "stop pipes" (a pipe a blocking wait also watches), and
call back into the application.

| Component | State | Operations | Interacts with | Module |
|---|---|---|---|---|
| Session (`session.c`) | `should_stop`, `quit_reason`, `ctrl_failed`, session id and PIN flags, under `state_mutex` | session thread; `chiaki_session_stop`, `_set_login_pin` | owns Ctrl, Senkusha, the stream connection; event callback | `Session` |
| Ctrl (`ctrl.c`) | message queue, entered PIN, `should_stop`, under `notif_mutex`; `notif_pipe` | Ctrl thread; `chiaki_ctrl_send_message`, `_set_login_pin`, `_stop` | writes the session's flags under `state_mutex`; TCP to the console | `Ctrl` |
| Senkusha (`senkusha.c`) | `state`, `state_finished`, what the answer must carry, the interval searched | one run inside the session thread; its callback | a Takion of its own | `Senkusha` |
| Stream connection (`streamconnection.c`) | `state`, `state_finished`, `should_stop`, `remote_disconnected` | `run` in the session thread; stop; Takion's callback | Takion, GKCrypt, receivers, congestion control, feedback sender | `StreamConnection` |
| Takion (`takion.c`) | sequence numbers, data queue, postponed packets, whether there are keys | Takion thread; sending from any thread | UDP; callbacks | `Takion`, `TakionSendBuffer` |
| Takion send buffer (`takionsendbuffer.c`) | array of unacknowledged packets | push, ack, resend thread, fini | sends through Takion; DATA_ACK events | `TakionSendBuffer` |
| Reorder queue (`reorderqueue.c`) | ring, `begin`, `count` | push, pull, peek, drop, fini | Takion's data queue; drop callback | `ReorderQueue` |
| Serial arithmetic (`seqnum.h`) | – | lt, gt | all of the above | `SeqNum` |
| GKCrypt (`gkcrypt.c`) | ring of key stream, positions, MAC key | key stream thread; decrypt, MAC | Takion | `GKCrypt` |
| Video path (`videoreceiver.c`, `frameprocessor.c`) | current frame and its units, indices of frames before | packets of a stream, STREAMINFO | the decoder, through a callback; corrupt-frame messages | `VideoReceiver` |
| Audio receiver (`audioreceiver.c`) | index of the last frame | packets | the audio sink; packet statistics | `AVReceive` |
| Packet statistics, congestion control (`packetstats.c`, `congestioncontrol.c`) | counters | push from the Takion thread; a thread that reads and resets | Takion | `AVReceive` |
| Feedback sender (`feedbacksender.c`, `feedback.c`) | controller state and the one sent before, history ring | thread; set state | Takion | `FeedbackSender` |
| Discovery (`discoveryservice.c`), Registration (`regist.c`) | table of hosts; stop pipe | a thread each | callback | – |

`PROJECT.json` lists every component with what is and is not modelled.

**What makes it hard.** Two mutexes that threads take in both orders; a wake-up
signalled through a pipe outside the mutex; state set by the thread that wakes
and not by the one that wakes it; numbers of 16 and 32 bits that wrap around; a
ring that is read while another thread writes its next chunk; counters reset
while they are counted; a send buffer that one thread tears down while others
send; packets and acknowledgements that are lost, repeated and reordered; every
wait ends by an answer, a timeout, a stop or the end of another thread, and any
two of these race.

**What makes it correct.** A session asked to stop ends, and its last event is
QUIT, sent after Ctrl is joined; queued messages and PINs are sent once and in
order; each packet buffer is freed exactly once; acknowledged means received and
handed on; data is handed on in order and without a gap; the application is told
CONNECTED only after the whole handshake; callbacks never find freed objects; a
packet is decrypted with the key stream of its own position; a frame said to be
complete is whole, and every other one is reported; the console knows of every
button; the sizes measured before the stream are true. The hazards that
threaten these, each at its line, are in `PROJECT.json` with the properties that
would catch them.

## The modules

    SeqNum ─┬─ ReorderQueue ──implements── OrderedDelivery
            ├─ TakionSendBuffer
            ├─ Takion ── (operators of ReorderQueue, by INSTANCE)
            ├─ GKCrypt
            ├─ FeedbackSender
            └─ VideoReceiver ── AVReceive ──implements── VideoReceiver
    Ctrl ── Session
    StreamConnection      Senkusha

The `MC` modules give constants their values, each `.cfg` is one run, and the
`Proofs` modules hold the theorems. Operators named `X_Y` next to an `X` are
mutated forms of `X`: plausible bugs, which the properties must notice. No
specification uses them.

In all modules a step runs from one point where its thread may be interleaved
(a lock, a wait, a call outside the mutex) to the next. History variables, which
the code does not have, are marked where they are declared.

### SeqNum

`chiaki_seq_num_##bits##_lt` and `_gt`, for any width: `SeqHalf` is half the
number range. At a distance of exactly `SeqHalf` neither holds, as in the code.

### ReorderQueue and OrderedDelivery

`slots`, `begin`, `count` and `drop_strategy` are the struct's fields.
`chiaki_reorder_queue_push` is one action per way through it: `PushFill` (inside
the window), `PushRefuse` (duplicate, late, or too far ahead with strategy END),
`PushExtend`, `PushSlide` (strategy BEGIN moves `begin`) and `PushAbort` (the
assertion of line 82 fails). `Pull`, `Drop` and `Fini` are the other functions.
`pos`, `place`, `given`, `pulled`, `dropped` are history: `begin` and each
element's number without wrapping, how often each element was given back, what
pull returned and what was dropped by index.

`OrderedDelivery` says what the owner is promised, without a ring and without
wrapping and without a bound on the positions: an element is kept if its
position is free and within the window, otherwise handed back; deliveries are at
successive positions; only a queue that may skip gives positions up. `ReorderQueue` implements it with `next <-
pos`, `at <- place`, `kept <- HeldElements`, `maySkip <- (drop_strategy =
"BEGIN")`, for numbers less than half the range ahead.

### Ctrl and Session

`Ctrl` has the Ctrl thread and the calls into it; `Session` extends it with the
session thread, the application and the specification. `cpc` and `spc` say
where the threads are. A wait is two steps: it ends (`CtrlSelectReturns`, with
the result in `cres`), and then the thread gets the mutex back and looks at the
result (`CtrlNotified`, `CtrlReceive`, `CtrlSelectFailed`); what other threads do
in between is what the races are made of. `notif_pipe` is the byte in the pipe;
`chiaki_ctrl_send_message` is `PostMessage` under the mutex and `SignalMessage`
after it. `ctrl_failed` is `CtrlFailed`, once per call the code makes: it needs
`state_mutex` while the thread holds `notif_mutex`, and `SessionForwardPin`
needs them the other way around. `SessionConnected` and `SessionAnswered` are
the loops over addresses and RP versions (`TryAddresses` also skips those without
a socket, which leave the quit reason as it is), `SessionCtrlReady` the two waits for
Ctrl, `SessionPinEntered` the wait for a PIN. Senkusha and the stream connection
are a step each. The console (external) sends any sequence of its messages and
may close or reset the connection, and its first messages may come with its HTTP
response (`CtrlResponse`). `wire` and `events` are history; `wire` is what was
handed to `ctrl_message_send`, whose result the thread does not look at. That the
session says STOPPED when the stream connection returns SUCCESS or CANCELED is
justified by `ResultIsEarned` of `StreamConnection`.

### TakionSendBuffer

`chiaki_takion_send_message_data` is three steps, `TakeSeqNum`, `SendDatagram`,
`Push`, for a sender in the session thread and one in the Takion thread, between
which anything may happen. `packets_size` is any number up to `Size`. Functions
under the send buffer's mutex are one step:
`Push`, `HandleAck` (the in-place compaction of lines 136-172 is `AckPass`, a
recursive function over the slots), `ResendLoop`/`Resend` of its thread. `heap`
records who owns each packet's memory. The end of the Takion thread is `LeaveLoop`,
`FiniSignal`, `FiniFree`, `ThreadEnds`; `Close` is `chiaki_takion_close`. The
network holds datagrams and acknowledgements as sets (any order), loses them
when `MayLose`; the console acknowledges cumulatively. `SendMayFail`,
`RecvMayFail` and `MayClose` say which of these a run has.

### Takion

The Takion thread: `tpc` is where `takion_thread_func` is. The handshake is
`SendInit`, `RecvInitAck`, `RecvCookieAck` with its timeout (nothing is sent again);
after it the loop re-checks what was queued before there were keys
(`LoopHead`, `RecheckCrashes`), then receives: a data message goes into the
reorder queue (`RecvData`, with `ReorderQueue`'s own operators), the queue is
pulled one by one into the callback (`FlushPull`) and acknowledged
(`FlushEnds`); an AV packet goes to the callback, or into `postponed` while
there are no keys (`RecvAV`). The callback for BANG sets the keys. `Fini`,
`Beach`, `Close` are the end, also when a receive fails by itself (`RecvFails`). A
packet with a wrong MAC is freed before anything else is done with it, so it is
one that was lost. The network loses and reorders datagrams; the
console sends each message until it is acknowledged. Its repeated INIT_ACK
arrives or is lost before it sends anything else: no line of the code keeps a
later one from being taken for a message, and it would be ignored.

### GKCrypt

`Arrival` is a packet in the Takion thread: its 64-bit position is unfolded from
the lower half (`RequestPos`), its MAC is computed with the key of its interval
(`Gmac`, which may go back to the interval before with a temporary key), and it
is decrypted with key stream that is read from the ring (`InBuffer`, around its
end in two parts) or generated for it. The key stream thread is `Sleep`,
`BeginChunk` (which slides the ring or restarts it at `last_key_pos`), and
`EndChunk`: between the last two it writes without the mutex, the slots hold
`NoBlock`, and packets go on arriving. `FiniStop`, `FiniSignal`, `FiniJoin` are
`chiaki_gkcrypt_fini`. Positions count blocks; a block of key stream stands for
its position and a key for its interval, since the ciphers are injective in
them. All of `Arrival` is done by the Takion thread, whose `key_state` no other
thread touches, and is one step. A packet with a wrong MAC, whose position is not
committed (takion.c:822), is left out.

### VideoReceiver and AVReceive

A video packet is one action, `VideoPacket`: the receiver looks whether it is
old, whether the profile changes, whether it begins a new frame; then it gives
up the unfinished frame (`GiveUp`), reports the missing ones as corrupt
(`Corrupt`), and puts the unit into its slot (`PutUnit`); a frame with enough
units goes through error correction to the decoder (`FlushFrame`), which may
refuse it. The contents of a unit are the number of its frame, so that a slot
left over from another frame shows. Error correction brings back a frame when
no more units are missing than there are for the purpose. The units of a frame are
taken to be in range and no larger than its first: the error returns of
`chiaki_frame_processor_alloc_frame` and the checks of
`chiaki_frame_processor_put_unit`, whose first one lets an index equal to the number
of slots pass (frameprocessor.c:150), are excluded by that. `Near` says how far
packets overtake each other: by less than half the circle of indices, counted
also from the last complete frame.

`AVReceive` adds what runs beside it: `ReceiveAudio` (with source and error
correction units), the statistics, and the congestion thread that reads
(`GetStats`) and resets them under the mutex, in two steps (`ResetStats`,
`ResetReceived`): `chiaki_packet_stats_push_seq` takes no mutex and is three steps,
which fall before, between and after those. `due` is what a report has to tell;
`late` records that an audio packet came late or twice since the last get, `raced`
that a `push_seq` met a get or the reset behind it. Neither keeps anything from
happening, and both are cleared by the next get. With audio
and statistics hidden, `AVReceive` implements `VideoReceiver`.

### FeedbackSender

`SetFeedbackState` is the application: buttons, fingers and their identifiers
(`chiaki_controller_state_start_touch` and the others), the sticks. `Round` is
one round of the thread after its wait: an event for each button and finger
that changed since the last round into the ring of the history, one packet with
the whole history, and a packet with the sticks, which may be lost. `Joined` and
`Pushed` are its two loops, over the buttons and fingers and over the events.
`Fini` is the stop and `Leave` the thread's end.

### Senkusha

`rpc` is where `chiaki_senkusha_run` is: Takion's connect, BIG and BANG, the
echo command, the pings, the two searches for the MTU by halving, and the close.
`Expect` is the state to wait in, `Judge` what comes of an answer or a timeout,
`Halve` the next size. The Takion thread takes answers from `arriving`, late and
repeated ones too, and compares them with what is awaited (`Awaited`) under the
mutex. The path lets datagrams through up to a size in each direction.

### StreamConnection

`rpc` is where `chiaki_stream_connection_run` is: its three handshake waits,
the CONNECTED event, the heartbeat loop and the four steps of its end. The
actions `Run...` each go from one wait to the next under `state_mutex`, with
every exit of the code. `TakionConnected`, `TakionEnds`, `TakionData` are the
callback in the Takion thread; a data message is handled according to `state`,
so a message that meets the old state is dropped. `Stop` and
`SetControllerState` are the application. The console sends each message once: that
no second BANG comes before `run` has woken is what `assert(!ecdh_secret)`
(streamconnection.c:593) takes for granted.

## The runs

| Run | Instance | Shows |
|---|---|---|
| `reorder` | both strategies, ring of 4, 4-bit numbers starting at 14, 3 elements at any number, drops at indices 0-2 | entries belong to their numbers; each element not dropped is kept, handed out or given back exactly once; implements ordered delivery |
| `session_login` | one caller, 3 console messages of the login kinds, 2 PINs, one queued message, close or reset | no work unnoticed; a PIN per request at most, in order; QUIT after Ctrl ended and last |
| `session_ends` | two addresses, every answer to the session request, 2 queued messages, one console message, fairness, no PIN | STOPPED only on request; messages once and in order; stop ends the session; messages get sent |
| `session_deadlock` | one PIN request, one PIN | a disagreement, see "What the code does not keep" |
| `send_buffer` | 1 to 3 slots, 4 messages, wrap after two, failing sends, Takion may end by itself | one owner per packet; acknowledged means received, once; the resend thread is awake when needed; an acknowledgement takes exactly what it covers and keeps the others' order |
| `send_buffer_live` | 1 or 2 slots, 2 messages, losses, failing sends and receives, fairness | stored messages are acknowledged, unless an earlier one is gone for good; the teardown returns |
| `takion` | ring of 4, 4-bit numbers wrapping after 2 of 3 messages, 2 AV packets, 1 postponed, losses, fairness | the callback gets the console's messages in order and once; what is acknowledged was handed on; AV packets in order of arrival and after the keys; messages arrive in the end; a close ends the thread |
| `gkcrypt` | 3 chunks of 2 blocks, 3-bit lower half, positions to 17, refresh every 5, skew 3 | positions, MAC keys and key stream are the packet's own; the thread catches up, and fini returns |
| `av` | 7 frames of 1-2 units with and without error correction, indices modulo 6, a profile switch; audio packets 1-3 and 5-7 with one unit of each kind, counts modulo 6; both together up to frame 2 (`FewOfBoth`) | see below |
| `feedback` | 2 buttons, 2 touches, 3 identifiers, 2 places, ring of 3, 4 packet numbers, 5 changes, lost packets | the console that was told all events has the buttons and fingers of the state last sent; each packet repeats the newest events in order; the sticks get through |
| `stream` | all console messages, 2 controller states, fairness | see below |
| `senkusha` | sizes 1-5, 2 attempts, paths in {0, 3, 5} by {1, 3, 5}, 1 ping, 2 answers on their way | the sizes found pass, and are the largest that could be found unless one was missed; run returns |

`stream` shows that CONNECTED is reported at most once and after BIG, keys and
STREAMINFO; that `run` returns SUCCESS or CANCELED only after a stop and
DISCONNECTED only after the console's message; that a Takion thread that may
call back finds the receivers; that a running feedback sender has the newest
controller state; and that stop and the console's disconnect end `run`.

`av` shows that a frame given out as complete is whole and its own
(`CompleteIsWhole`); that every frame before the newest is completed or reported
as corrupt and none both (`EveryFrameSettled`), once a frame was complete; and that
frames reach the decoder in order (`FramesInOrder`).

It shows of audio that frames reach the sink in order and none twice
(`AudioInOrder`), with packets that are lost, that overtake each other and that
come again, any number of them; and that a congestion packet tells how much was
received and lost since the one before, nothing twice and nothing forgotten
(`ReportsAreTrue`). Two things excuse one report, and none after it: a packet that
came late or twice in its interval excuses the number of lost packets, and a
`push_seq` that met its get, or the reset before it, both numbers.

**Bounds and why they are enough.** A ring of 4 on a circle of 16, started two
before the wrap, has elements on both sides of the wrap, in the window, behind
it, one past it, far past it and exactly half the circle away. Three stored
packets are the fewest that leave two gaps for the compaction to close; four
messages over one to three slots fill the buffer; for liveness one slot and two
messages do: the second is stored first, and the first, whose datagram is lost, is
refused. Two PINs and three login messages
allow a second request while the first PIN is under way. The version retry of
the session request is bounded by the code itself (three attempts); a second
address is the fewest that makes the address loop go on. Three chunks are the
fewest for which a packet lies across the ring's end while a chunk is written;
17 positions wrap the lower half twice and pass three refreshes. Seven frames
over six indices let a late unit meet an index that was used before, and so do
seven audio positions, the fourth of which never comes; `MaxDue` lets the counts go
past the six values a report has room for. Video and audio share the thread and the
lock of the statistics and nothing else, so audio with more than the first two
frames is left out by the constraint `FewOfBoth`. Five
changes wrap the touch identifiers and the history. Sizes 1 to 5 need two
halvings, so that a late answer may belong to a smaller size. Each bound is a
constant: `MaxConsole`, `MaxPosts`, `MaxPins`, `MaxSent`, `MaxStates`,
`MaxGiven`, `MaxMessages`, `MaxAV`, `MaxPos`, `MaxFrames`, `MaxDue`,
`MaxChanges`, `MaxArriving`, and the sets `Elements`, `ConsoleMsgs`,
`AudioPackets`, `Paths`. Symmetry is used for the elements of the reorder queue.
Deadlock is not checked, since all these threads end; that they end where they
should is what the liveness properties say.

**Fairness.** Threads that can run do (weak). In `Session` it is strong, for
the two threads: each waits for mutexes the other gives back again and again,
which the platforms' mutexes do not starve. The stream may last until it is
stopped, so a step out of it is only fair once `should_stop` is set, and no fairness makes
select fail. In `TakionSendBuffer`, `Takion` and `FeedbackSender` the delivery of what is sent
again and again is strongly fair; a datagram that is sent once need not arrive,
and the console need not answer the handshake. In `Takion`, `RecvCanceled` is
strongly fair: a receive with both the stop pipe and a datagram looks at the pipe
first. In `StreamConnection` and `Senkusha` the waits have timeouts (weak
fairness of `run`), and the Takion thread ends once `run` joins it. In `GKCrypt`
chunks are finished in the end. Nobody is obliged to close Takion, to stop a
session or to send anything.

## The proofs

Eight modules, checked by TLAPS, for every value of the constants that the named
assumptions allow.

**`SeqNumProofs`.** `SeqLtIsSerialOrder`: comparing two numbers closer than half
the range is comparing the positions they were cut from, across any number of
wraps. Beside the arithmetic of remainders it has what the other modules need to
reason about loops: `RecursionUpTo` says that a function defined turn by turn
has the value its turns give it, and `InductUpTo` and `LeastNumber` are
induction up to a bound and the least element of a set of numbers. They are
about sets and functions, and rest on the facts of the library's
`WellFoundedInduction` that take no operator as a parameter.

**`ReorderQueueProofs`.** `TypeCorrect`, `EntriesCorrect`
(`EntriesMatchSerials`), `GivenBackOnce` (`EachElementOnce`) and the refinement
`DeliversInOrder` (`ImplementsOrderedDelivery`). Assumptions: the
ring has at least two entries, is smaller than half the range and divides it
(Takion's has 2^4 over 2^32 numbers). `Inv` is `TypeOK` with
`EntriesMatchSerials`; neither is inductive by itself: that an entry taken from
the ring is an element needs its slot to hold one, and the slot of a number is
the right one only while the window is no longer than the ring. Every comparison
of push becomes one about `d = SeqDist(begin, s)`: `WindowOffset`, `AheadOffset`
and `SlideOffset` say in which interval `d` is on each way through push,
`GrowEffect` what the loop that moves `end` leaves in each slot, and
`IdxDistinct` that offsets below `Size` have different slots. `OnceInv` adds that
each element held is held once and, unless dropped, has not been given back;
`DropKeepsCount` and `DropOnce` cover the drop by index, which leaves its entry
set. For the refinement, `PushFillHolds` and its like give the elements held
after each action, and `TakenAre` (the positions taken are those of the window's
set entries) turns the offset `d` of an entry into the position `pos + d`, so that each way through push is one action of
`OrderedDelivery` (`PushFillKeeps`, `PushRefuseRefuses`, `PushSlideSkips`, ...),
and what the abstract queue does not show is a stutter (`OthersStutter`).

**`TakionSendBufferProofs`.** `SendBufferTyped`, `ResendThreadAwake`
(`NeverAsleepOnPackets`), `BuffersHaveOneOwner` (`OneOwner`), `AcksReportedOnce`
(`AckedOnceReceived`) and `AckPassTakesTheCovered` (`AckTakesTheCovered`), for
every size of the array, width of the numbers, number of messages up to half the
circle, and network. The heart is the pass of an acknowledgement, which closes
gaps in the array while it walks over it: `PassTrue` says after each slot what
has been moved, what still waits to be moved and how far, and that the untouched
rest is as it was; `PassEnds` that the last move leaves the uncovered packets, in
their order, and nothing else. `BufferInv` adds to the types that the numbers
sent are the first ones and each stored packet has one of them (`NumbersTrue`),
and what a stop has done so far (`StopTrue`). `OwnerInv` ties `heap` to the two
places a packet can be in: a sender has the packets it has not pushed
(`SendersOwn`), the array has the stored ones, each once (`SlotsOwn`), and the
end leaves none (`NothingLeft`). `AckInv` says that an acknowledgement under way
is for something received, and that what was reported is freed, so that it is
never reported again.

**`TakionProofs`.** `MessagesInOrder` (`DeliveredInOrder`), `OnlyDeliveredAcked`
(`AckedIsDelivered`), `KeysComeFirst` (`KeysBeforeAV`), `AVOrderKept`
(`AVInOrderAfterKeys`) and `TakionTypeCorrect`, for every ring, every width of the
numbers, any number of AV packets and postponed ones, and any network. What a
push does to the ring is not proved again: `QP` is `ReorderQueueProofs` with
Takion's variables in the place of the queue's, and `WindowOffset`, `AheadOffset`,
`GrowEffect` and `IdxDistinct` are cited from it, once `RingAssumption` has shown
its assumptions from Takion's. `Inv` says that `begin` is the number after the
last message delivered (`QueueInv`) and that the entry at offset `i` of the
window, when set, holds the message `i` places further on (`Placed`): in-order
delivery alone is not inductive, since it says nothing of what is still queued.
`PulledInv` is what makes the acknowledgement true: what
`takion_flush_data_queue` acknowledges is what it delivered last. `AVInv` says
that the packets handed over and those postponed are together the ones that
arrived, in their order, without those the full list refused, and that none is
postponed any more where a packet may go straight to the callback
(`PostponedInv`). Assumption: fewer than half the circle of messages, so that a
repeated one is never taken for one of the next round.

**`ReceiveProofs`.** What happens to a packet that was received, in three parts.

*GKCrypt* (its specification is the one called `Spec` there). `KeyPosUnfolds` (the arithmetic of
`chiaki_key_state_request_pos` for every width), `PositionsTrue`, `MacKeysFit`,
`RingTrue` and `StreamTrue`, for every size of chunk and ring and every refresh
interval. `RingShape` says that the populated part is whole chunks that begin at
a multiple of the chunk, so that a chunk never lies across the ring's end and the
one being written is never part of the populated ones; from it `RingHoldsItsStream`
is inductive, and reading in two parts around the end gives consecutive blocks.
Assumption: packets are early or late by less than half the range.

*VideoReceiver.* `VideoInv` is the type, `IndicesTrue`
(the wrapped indices are those of the newest and the last complete frame, and
their distances are below half the circle), `ProcessorTrue` (the slots hold units
of the current frame only and the two counters are the numbers of filled slots),
`ReportsTrue`, `EveryFrameSettled` and `CompleteIsWhole`. From it
`WholeWhenComplete`, `FramesSettled`, `SlotsCounted`, `ShownInOrder`.
Assumptions: `VideoAssumption` (a frame has data and its units
fit the slots) and `Near`.

*AVReceive.* `AVImplementsVideo` is the refinement, step by step, and
`AVShowsVideo` carries the results over. `AudioPlayedInOrder` (`AudioInOrder`):
the sink gets the frames in their order, each once, since the wrapped index of
the last frame played is that of its position and the units of a packet lie less
than half the circle around it; assumption: a packet has no more units than half
the circle has indices (at most 15 + 15 of 32768). `ReportsTold`
(`ReportsAreTrue`): what is due is always what a reading would report, a push
that is half done counted in (`DueTrue`), for the received ones also after late and
repeated packets, and unless one was met no push is half done while the counters
are read and reset (`PushesApart`); `MaxAgrees` says that `seq_max` is the index of
the newest packet however it raced, which is what makes the next report true
again.

**`StreamConnectionProofs`.** All safety properties of the runs `stream` and
`feedback`.

*StreamConnection*, for any messages and any number of controller states. `Inv`
adds `Handshake`, what
`conn.state`, `state_finished`, the keys and the handled messages are in each of
`run`'s waits, and `Lifetimes`, which objects and threads exist there. The key
facts: a message sets `state_finished` only in the state it belongs to, every
wait but the heartbeat's starts with it cleared and its own state, and during
the heartbeats nothing can set it, so that only a stop or a disconnect ends
them.

*FeedbackSender*, for any number of buttons, fingers, identifiers and places, and
any size of the history. `EventsFollowed` (`ConsoleFollows`): the events of a
round say of each button and each finger what became of it, or nothing when it
did not change (`FreshTold`), and the last event about one in the joined pieces
is the last of the newest piece that speaks of it (`LastJoined`, by induction over
the pieces). `PacketsTrue` (`PacketsRepeatEvents`): wherever the ring begins, it
holds the newest events (`HasNewest`), and a packet formatted from it is the one
that event's number asks for (`PacketOf`).

**`SessionProofs`.** `SessionInv` is `PlacesTrue` (which thread holds which mutex
where, and when Ctrl runs), `TypesTrue`, `NoWorkUnnoticed`, `StopTrue` (a quit
reason of STOPPED needs the request), `EventsTrue`, `WireTrue` and `PinsTrue`. It
gives `WorkNoticed`, `QuitComesLast`, `StoppedByRequest`, `MessagesSentInOrder`
(`MessagesInOrder`) and `PinsAnswerRequests` (`OnePinPerRequest`) for any number
of callers, messages, addresses and PINs. For the messages, what a caller posted
is what is on the wire of it followed by what is queued of it; for the PINs, those
sent, entered and asked for are counted in each place a PIN can be in between the
application and the wire, and are in the order they were entered.

**`SenkushaProofs`.** `MtuIsTrue` proves the run's invariant for every interval,
path, number of attempts and pings. `SearchTrue` is the invariant of a search:
the lower end passes or was never tried; the upper end does not pass, unless it
was missed or never tried; the size to try lies in between. `Halving` keeps it
whichever way it goes. `AnswersTrue` says that what may still arrive under the
number of the present request is true of the present size, for which
`NumbersTrue` is needed: numbers only go up. Assumption: `MinMtu > 0` and
`MinMtu + 1 < MaxMtu` (576 and 1454); without the latter the search would not
try anything.

Every inductive invariant was model-checked before it was proved.

**Left to TLC.** Every invariant, action property and refinement that a passing
run checks is also a theorem. The liveness properties are not: `StopEnds`,
`MessagesGetSent`, `StoredGetsAcked`, `TeardownEnds`, `ThreadKeepsUp`,
`MessagesArrive`, `TakionEnds`, `SticksGetThrough`, `RunEnds`, `SenkushaEnds`.
They rest on fairness and `ENABLED`, which are out of the prover's reach. The
loops that had to be reasoned about are recursive functions, one turn at a time;
nothing is proved about operators declared RECURSIVE or about folds.

## What the code does not keep

`session_deadlock` is a run whose counterexample is the sequence of steps:
forwarding the PIN takes `notif_mutex` under `state_mutex` (session.c:448);
`ctrl_failed` and the message handlers take them the other way around, and both
threads wait for ever.

The models also show these, as reachable states no property forbids, or as
bounds that a property names:

- With a PIN waiting to be sent, the Ctrl thread resets `notif_pipe` (ctrl.c:347)
  and goes on before it looks at `should_stop`; the byte a stop wrote in the
  meantime is gone and `chiaki_ctrl_join` hangs. `StopEnds` is checked without
  PINs.
- A pipe write that comes after its message was sent leaves the Ctrl thread
  running through select without reading the socket (ctrl.c:357).
- `ctrl_failed` replaces the reason that is recorded (ctrl.c:283): a refused Ctrl
  connection becomes CTRL_CONNECT_FAILED, a stop during the connect too; and the
  reason of a first address that refused is not cleared when the second one works.
- When the console closes the Ctrl connection (ctrl.c:371) or select fails
  (ctrl.c:364) the thread ends without `ctrl_failed`: a session waiting for a PIN waits on until it is
  stopped.
- When receiving fails, the Takion thread destroys the send buffer
  (takion.c:761) although nobody has closed Takion; a thread between its send and
  its push uses the destroyed mutex and array. `OneOwner` lets go of what a late
  push stored.
- A message sent while the send buffer is full is not stored, and its sender gets
  SUCCESS (takion.c:461); its datagram is the only one. A send that fails has used
  up its number (takion.c:454). Either way the console never gets past the hole,
  and what follows is stored and sent again and again without ever being
  acknowledged: `StoredGetsAcked` is stated up to such a hole (`Hole`), and
  `send_buffer_live` meets it.
- A STREAMINFO handled before the session thread has woken from the wait for BANG
  (streamconnection.c:244) is taken for a BANG and dropped.
- A stop while Takion connects leaves `run` without stopping congestion control
  (streamconnection.c:209), whose state is a local variable of `run`.
- The end of Takion after it was connected goes unnoticed (streamconnection.c:366).
- `chiaki_reorder_queue_drop` (reorderqueue.c:163) gives an element back and
  leaves its entry set, so that pull or fini give it back a second time. Takion
  calls it for packets with a wrong MAC (takion.c:717), after a peek
  (takion.c:708) with a null `seq_num`, to which peek writes
  (reorderqueue.c:158): with a message in the queue when the keys come,
  `RecheckCrashes` is the end of `Takion`'s behaviours.
- A number exactly half the range ahead fails the assertion at reorderqueue.c:82.
- Packets beyond the 32 postponed ones are dropped (takion.c:838).
- Audio units for error correction are always dropped (audioreceiver.c:88-116). An
  audio packet late or twice can make the whole interval count as lost
  (packetstats.c:65). A `push_seq` that loads the count before a reset and stores it
  after (packetstats.c:46) brings the old count back, and the interval is told
  again. The difference of the indices
  overflows in 64 bits, and only the final cast to 16 bits makes it right.
- A frame without units for error correction counts one of them as expected and
  lost (frameprocessor.c:76). `chiaki_frame_processor_alloc_frame`'s refusal of
  more than 256 units is ignored by its caller (frameprocessor.c:101), which
  `VideoAssumption` excludes. The header of a new profile goes to the decoder
  before the unfinished frame of the old one.
- A finger that takes another one's slot between two rounds is not told of before
  it moves (feedbacksender.c:216). A history packet is sent once: when it is lost,
  its events wait for the next event. The sticks are repeated after 200 ms.
- Senkusha's outward search starts at the inward result and tries no size from
  1454 on unless that was it. When the acknowledgement of its last message is
  lost, both results are discarded by the session. Nothing sets its
  `should_stop`, and the session's `state_mutex` is held throughout
  (session.c:477), so that `chiaki_session_stop` blocks until it is through.

## Not modelled

Left out of the modules above: allocation failures (those of the receivers make
`chiaki_stream_connection_run` return with its mutex held, streamconnection.c:164-185),
the bytes of all messages
and their encryption, logging, Ctrl's keyboard and feature messages beyond
"some event" or "some queued message", heartbeats, rumble and trigger effects
of the stream connection, which change no state of the models.

Discovery and Registration are independent of a session: one thread each around
one mutex or one stop pipe, used as in the modules above. The HTTP parser, the
handshake's key agreement, the ciphers, `fec.c`'s matrix arithmetic and the
orientation filter are functions of their arguments without control state.
Decoders, the applications (Qt, Android, Switch, command line), `setsu` and the
vendored code (Borealis, Oboe, nanopb, jerasure, munit) are user interfaces,
wrappers or third-party code; they are the greater part of the repository's
lines, so the share of all lines that the models cover stays small although the
library's session, from its request to its end, is covered nearly throughout.

What could be added next: `Session` with `Senkusha` and `StreamConnection` in
place of its two steps for them; `TakionSendBuffer` on the console's side of
`Takion`; the discovery service and the registration.

## Running

`tlc -config X.cfg M` checks a run, `tlapm M.tla` the proofs of a module. Each
run takes little more than two minutes at most on two workers.
