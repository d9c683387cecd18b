--------------------------- MODULE FeedbackSender ---------------------------
(***************************************************************************)
(* How the state of the controller gets to the console                     *)
(* (lib/src/feedbacksender.c, the history of lib/src/feedback.c and the    *)
(* touches of lib/src/controller.c): the application sets states, a thread *)
(* sends the sticks again and again, and an event for each button and      *)
(* touch that changed since it last looked.                                *)
(*                                                                         *)
(* The thread holds state_mutex except while it waits, and setting a state *)
(* and stopping take it, so that each of them is one action.  The network  *)
(* loses any packet.  A trigger is like a button; the gyroscope is like    *)
(* the sticks; a touch has one coordinate.                                 *)
(***************************************************************************)
EXTENDS SeqNum, Sequences

CONSTANTS
    NButtons,       \* the number of buttons and triggers
    NSlots,         \* CHIAKI_CONTROLLER_TOUCHES_MAX
    IdMod,          \* TOUCH_ID_MASK + 1
    Places,         \* where a finger can be
    Sticks,         \* what the sticks and the sensors can say
    Idle,           \* what they say at rest
    HistorySize,    \* FEEDBACK_HISTORY_BUFFER_SIZE
    MaxChanges      \* bound on the states set

ASSUME FeedbackAssumption ==
    /\ NButtons \in Nat /\ NSlots \in Nat
    /\ IdMod \in Nat \ {0}
    /\ Places # {}
    /\ Idle \in Sticks
    /\ HistorySize \in Nat \ {0}
    /\ MaxChanges \in Nat

Buttons == 1 .. NButtons
Slots == 1 .. NSlots

NoTouch == -1

TouchIds == 0 .. IdMod - 1

VARIABLES
    controller_state,       \* what the application has set,
    controller_state_prev,  \*   and what the thread last sent
    controller_state_changed,
    should_stop,
    history_buf,            \* ChiakiFeedbackHistoryBuffer
    history_seq_num,
    fpc,                    \* feedback_sender_thread_func: "waiting" or "ended"
    told,                   \* history: the events of the controller,
    packets,                \*   the history packets sent,
    seen,                   \*   and the sticks as the console knows them
    changes                 \* history: how many states were set

feedbackVars == <<controller_state, controller_state_prev, controller_state_changed, should_stop,
          history_buf, history_seq_num, fpc, told, packets, seen, changes>>

(* chiaki_controller_state_set_idle. *)
IdleState ==
    [buttons |-> {}, touches |-> [s \in Slots |-> [id |-> NoTouch, at |-> CHOOSE p \in Places : TRUE]],
     touch_id_next |-> 0, sticks |-> Idle]

FeedbackInit ==
    /\ controller_state = IdleState
    /\ controller_state_prev = IdleState
    /\ controller_state_changed = FALSE
    /\ should_stop = FALSE
    /\ history_buf = [events |-> [i \in 0 .. HistorySize - 1 |-> <<>>], begin |-> 0, len |-> 0]
    /\ history_seq_num = 0
    /\ fpc = "waiting"
    /\ told = <<>> /\ packets = <<>>
    /\ seen = Idle
    /\ changes = 0

-----------------------------------------------------------------------------
(* The controller.                                                         *)

(* chiaki_controller_state_start_touch: the first free slot. *)
StartTouch(c, at) ==
    LET free == {s \in Slots : c.touches[s].id = NoTouch}
        slot == CHOOSE s \in free : \A t \in free : s <= t
    IN  IF free = {}
        THEN c
        ELSE [c EXCEPT !.touches[slot] = [id |-> c.touch_id_next, at |-> at],
                       !.touch_id_next = (@ + 1) % IdMod]

(* chiaki_controller_state_stop_touch and set_touch_pos of the touch in a slot. *)
StopTouch(c, slot) == [c EXCEPT !.touches[slot].id = NoTouch]

MoveTouch(c, slot, at) == [c EXCEPT !.touches[slot].at = at]

(* The states one movement of the player away from c. *)
Changed(c) ==
    {[c EXCEPT !.buttons = @ \cup {b}] : b \in Buttons}
    \cup {[c EXCEPT !.buttons = @ \ {b}] : b \in Buttons}
    \cup {[c EXCEPT !.sticks = v] : v \in Sticks}
    \cup {StartTouch(c, at) : at \in Places}
    \cup {StopTouch(c, s) : s \in {t \in Slots : c.touches[t].id # NoTouch}}
    \cup {MoveTouch(c, s, at) : s \in {t \in Slots : c.touches[t].id # NoTouch}, at \in Places}

SameTouch(a, b) == a.id = b.id /\ (a.id # NoTouch => a.at = b.at)

(* controller_state_equals_for_feedback_history and _state. *)
SameForHistory(a, b) ==
    a.buttons = b.buttons /\ \A s \in Slots : SameTouch(a.touches[s], b.touches[s])

SameForState(a, b) == a.sticks = b.sticks

(* chiaki_feedback_sender_set_controller_state, which ignores an equal one. *)
SetFeedbackState ==
    /\ fpc = "waiting" /\ ~should_stop
    /\ changes < MaxChanges
    /\ \E c \in Changed(controller_state) :
          /\ ~(SameForHistory(c, controller_state) /\ SameForState(c, controller_state))
          /\ controller_state' = c
    /\ controller_state_changed' = TRUE
    /\ changes' = changes + 1
    /\ UNCHANGED <<controller_state_prev, should_stop, history_buf, history_seq_num, fpc,
                   told, packets, seen>>

-----------------------------------------------------------------------------
(* The history.                                                            *)

(* Mutant: begin moves the other way. *)
HistoryPush_Forward(buf, event) ==
    LET begin == (buf.begin + 1) % HistorySize
    IN  [events |-> [buf.events EXCEPT ![begin] = event],
         begin |-> begin,
         len |-> IF buf.len + 1 >= HistorySize THEN HistorySize ELSE buf.len + 1]

(* chiaki_feedback_history_buffer_push: the newest event is the first.     *)
HistoryPush(buf, event) ==
    LET begin == (buf.begin + HistorySize - 1) % HistorySize
    IN  [events |-> [buf.events EXCEPT ![begin] = event],
         begin |-> begin,
         len |-> IF buf.len + 1 >= HistorySize THEN HistorySize ELSE buf.len + 1]

(* chiaki_feedback_history_buffer_format. *)
HistoryFormat(buf) ==
    [i \in 1 .. buf.len |-> buf.events[(buf.begin + i - 1) % HistorySize]]

Button(b, down) == [kind |-> "button", id |-> b, down |-> down, at |-> 0]
Touch(t, down) == [kind |-> "touch", id |-> t.id, down |-> down, at |-> t.at]

ButtonEvent(prev, now, b) ==
    IF (b \in prev.buttons) # (b \in now.buttons)
    THEN <<Button(b, b \in now.buttons)>>
    ELSE <<>>

(* One event at most for each slot: that its touch has gone, or else that  *)
(* there is a touch that is new or has moved.                              *)
TouchEvent(prev, now, s) ==
    LET p == prev.touches[s]
        n == now.touches[s]
    IN  IF p.id # n.id /\ p.id # NoTouch THEN <<Touch(p, FALSE)>>
        ELSE IF n.id # NoTouch /\ ~SameTouch(p, n) THEN <<Touch(n, TRUE)>>
        ELSE <<>>

(* The pieces one after the other. *)
Joined(pieces) ==
    LET first[n \in 0 .. Len(pieces)] == IF n = 0 THEN <<>> ELSE first[n - 1] \o pieces[n]
    IN  first[Len(pieces)]

(* The events of feedback_sender_send_history in their order. *)
HistoryEvents(prev, now) ==
    Joined([b \in Buttons |-> ButtonEvent(prev, now, b)])
        \o Joined([s \in Slots |-> TouchEvent(prev, now, s)])

(* The buffer when the first n of some new events have been pushed. *)
Pushed(new, n) ==
    LET buf[k \in 0 .. Len(new)] == IF k = 0 THEN history_buf ELSE HistoryPush(buf[k - 1], new[k])
    IN  buf[n]

(* Each event is pushed and makes a packet of its own.                     *)
SendHistory(send) ==
    \E new \in {IF send THEN HistoryEvents(controller_state_prev, controller_state) ELSE <<>>} :
        /\ history_buf' = Pushed(new, Len(new))
        /\ history_seq_num' = SeqAdd(history_seq_num, Len(new))
        /\ packets' = packets \o [n \in DOMAIN new |->
                                      [seq_num |-> SeqAdd(history_seq_num, n - 1),
                                       events |-> HistoryFormat(Pushed(new, n))]]
        /\ told' = told \o new

-----------------------------------------------------------------------------
(* The thread.                                                             *)

(* Mutant: the sticks are not sent again when nothing has changed. *)
SendsState_OnlyChanges ==
    controller_state_changed /\ ~SameForState(controller_state, controller_state_prev)

SendsState ==
    controller_state_changed => ~SameForState(controller_state, controller_state_prev)

(* Mutant: the state that was sent is remembered only if the sticks were. *)
Remember_WithSticks(sent) ==
    controller_state_prev' = IF sent THEN controller_state ELSE controller_state_prev

Remember(sent) == controller_state_prev' = controller_state

(* The thread wakes up because there is a change or after                  *)
(* FEEDBACK_STATE_TIMEOUT_MAX_MS.  arrives tells what becomes of a state   *)
(* packet; what becomes of a history packet does not matter here.          *)
Round(arrives) ==
    /\ fpc = "waiting" /\ ~should_stop
    /\ controller_state_changed' = FALSE
    /\ seen' = IF SendsState /\ arrives THEN controller_state.sticks ELSE seen
    /\ SendHistory(controller_state_changed
                   /\ ~SameForHistory(controller_state, controller_state_prev))
    /\ Remember(SendsState)
    /\ UNCHANGED <<controller_state, should_stop, fpc, changes>>

(* chiaki_feedback_sender_fini sets should_stop and joins the thread.      *)
Fini ==
    /\ fpc = "waiting" /\ ~should_stop
    /\ should_stop' = TRUE
    /\ UNCHANGED <<controller_state, controller_state_prev, controller_state_changed,
                   history_buf, history_seq_num, fpc, told, packets, seen, changes>>

Leave ==
    /\ fpc = "waiting" /\ should_stop
    /\ fpc' = "ended"
    /\ UNCHANGED <<controller_state, controller_state_prev, controller_state_changed, should_stop,
                   history_buf, history_seq_num, told, packets, seen, changes>>

Thread == Leave \/ \E arrives \in BOOLEAN : Round(arrives)

FeedbackNext == SetFeedbackState \/ Thread \/ Fini

FeedbackSpec == FeedbackInit /\ [][FeedbackNext]_feedbackVars

(* The thread runs, and packets that are sent again and again arrive.      *)
FeedbackFairness == WF_feedbackVars(Thread) /\ SF_feedbackVars(Round(TRUE))

FairFeedbackSpec == FeedbackSpec /\ FeedbackFairness

-----------------------------------------------------------------------------
(* The controller as a console knows it that was told of all events so far: *)
(* the last event about a button or a touch.                               *)
IsAbout(e, kind, id) == e.kind = kind /\ e.id = id

LastIn(seq, kind, id) ==
    {seq[n] : n \in {m \in 1 .. Len(seq) :
                        /\ IsAbout(seq[m], kind, id)
                        /\ \A k \in m + 1 .. Len(seq) : ~IsAbout(seq[k], kind, id)}}

LastOf(kind, id) == LastIn(told, kind, id)

IsDown(kind, id) == \E e \in LastOf(kind, id) : e.down

(* The events so far leave the console with the buttons of the state last  *)
(* sent, and with no finger but those that are on the pad, each where it   *)
(* is, however many changes went by between two rounds of the thread.  It  *)
(* may miss a finger: one that has taken the slot of another is not told   *)
(* of before it moves.                                                     *)
ConsoleFollows ==
    /\ \A b \in Buttons : IsDown("button", b) <=> b \in controller_state_prev.buttons
    /\ \A t \in TouchIds : IsDown("touch", t) =>
          \E s \in Slots, e \in LastOf("touch", t) :
              controller_state_prev.touches[s] = [id |-> t, at |-> e.at]

(* A history packet carries one new event and repeats those before, newest *)
(* first, as many as the buffer holds, and its number is the event's: a    *)
(* console that misses fewer packets than that misses no event.            *)
PacketsRepeatEvents ==
    /\ Len(packets) = Len(told)
    /\ \A n \in DOMAIN packets :
          /\ packets[n].seq_num = (n - 1) % SeqMod
          /\ packets[n].events = [i \in 1 .. (IF n < HistorySize THEN n ELSE HistorySize) |->
                                     told[n + 1 - i]]

(* When the controller rests, the console gets to know the sticks although *)
(* any packet may be lost, unless the sender is stopped before.            *)
SticksGetThrough ==
    \A v \in Sticks : controller_state.sticks = v ~>
        seen = v \/ controller_state.sticks # v \/ should_stop
=============================================================================
