-------------------------- MODULE StreamConnection --------------------------
(***************************************************************************)
(* The stream connection of lib/src/streamconnection.c: the session thread *)
(* in chiaki_stream_connection_run, which connects Takion, says BIG, waits *)
(* for BANG and STREAMINFO and then sends heartbeats; the Takion thread,   *)
(* which calls stream_connection_takion_cb; the application, which stops   *)
(* it and sets the controller state; and the threads run starts and ends,  *)
(* congestion control and the feedback sender.                             *)
(*                                                                         *)
(* run holds state_mutex except in its waits, around the CONNECTED event   *)
(* and from the closing of Takion on, and the callbacks hold it while they *)
(* look at the state: what lies between two waits is one action.           *)
(* state_failed is written and never read, so the model has no such        *)
(* variable; a refused BANG or a bad STREAMINFO only lets the wait go on.  *)
(***************************************************************************)
EXTENDS Naturals, Sequences

CONSTANTS
    MaxStates,      \* bound on the controller states the application sets
    ConsoleMsgs     \* data messages the console may send, each at most once: that
                    \*   no second BANG comes before run has woken is what
                    \*   assert(!ecdh_secret) takes for granted

ASSUME MaxStatesAssumption == MaxStates \in Nat

VARIABLES
    conn,           \* ChiakiStreamConnection: state, state_finished, should_stop,
                    \*   remote_disconnected
    rpc,            \* where run is
    result,         \* what run returns
    takion,         \* the Takion thread: "none", "handshake", "connected",
                    \*   "ended" after its DISCONNECT event, "closed" when joined
    crypt,          \* ecdh_secret and the GKCrypts exist and Takion has them
    receivers,      \* the video, audio and haptics receivers exist
    congestion,     \* congestion_control's thread runs
    feedback,       \* the feedback sender: whether it runs, its controller state
    controller,     \* session->controller_state
    events,         \* history: the CONNECTED events
    inbox,          \* data messages the console sent and Takion has yet to hand on
    sent,           \* history: all data messages the console sent
    handed,         \* history: those handed to the callback
    big             \* BIG was sent

vars == <<conn, rpc, result, takion, crypt, receivers, congestion, feedback, controller,
          events, inbox, sent, handed, big>>

Init ==
    /\ conn = [state |-> "IDLE", state_finished |-> FALSE, should_stop |-> FALSE,
               remote_disconnected |-> FALSE]
    /\ rpc = "start"
    /\ result = "none"
    /\ takion = "none"
    /\ crypt = FALSE
    /\ receivers = FALSE
    /\ congestion = FALSE
    /\ feedback = [active |-> FALSE, state |-> 0]
    /\ controller = 0
    /\ events = <<>>
    /\ inbox = <<>> /\ sent = {} /\ handed = {} /\ big = FALSE

-----------------------------------------------------------------------------
(* The calls of the application.                                           *)

(* chiaki_stream_connection_stop, which chiaki_session_stop calls at any time. *)
Stop ==
    /\ ~conn.should_stop
    /\ conn' = [conn EXCEPT !.should_stop = TRUE]
    /\ UNCHANGED <<rpc, result, takion, crypt, receivers, congestion, feedback, controller,
                   events, inbox, sent, handed, big>>

(* chiaki_session_set_controller_state, under feedback_sender_mutex. *)
SetControllerState ==
    /\ controller < MaxStates
    /\ controller' = controller + 1
    /\ feedback' = [feedback EXCEPT !.state = IF feedback.active THEN controller + 1 ELSE @]
    /\ UNCHANGED <<conn, rpc, result, takion, crypt, receivers, congestion,
                   events, inbox, sent, handed, big>>

-----------------------------------------------------------------------------
(* chiaki_stream_connection_run.                                           *)

(* Mutant: nobody thought of the application's stop. *)
WaitIsOver_NoStop == conn.state_finished \/ conn.remote_disconnected

(* state_finished_cond_check. *)
WaitIsOver == conn.state_finished \/ conn.should_stop \/ conn.remote_disconnected

(* A timed wait ends with SUCCESS when its predicate holds.  It may time    *)
(* out at any moment, even as the predicate becomes true.                  *)
WaitEnds(err) == err \in {"SUCCESS", "TIMEOUT"} /\ (err = "SUCCESS" => WaitIsOver)

Expect(state) == conn' = [conn EXCEPT !.state = state, !.state_finished = FALSE]

(* The label disconnect and what follows it up to the unlock; failed is    *)
(* what err is by then.                                                    *)
Disconnect(failed) ==
    /\ result' = IF conn.should_stop THEN "CANCELED"
                 ELSE IF conn.remote_disconnected THEN "DISCONNECTED" ELSE failed
    /\ congestion' = FALSE
    /\ rpc' = "close"

RunBegin ==
    /\ rpc = "start"
    /\ receivers' = TRUE
    /\ Expect("TAKION_CONNECT")
    /\ \/ /\ takion' = "handshake" /\ congestion' = TRUE
          /\ rpc' = "await_takion" /\ UNCHANGED result
       \/ /\ takion' = "handshake" /\ UNCHANGED congestion      \* no congestion control
          /\ rpc' = "close" /\ result' = "ERROR"
       \/ /\ UNCHANGED <<takion, congestion>>                   \* Takion not connected
          /\ rpc' = "free" /\ result' = "ERROR"
    /\ UNCHANGED <<crypt, feedback, controller, events, inbox, sent, handed, big>>

(* Asked to stop while Takion connects, run leaves by close_takion, which   *)
(* does not stop congestion control.                                       *)
RunTakionConnected ==
    /\ rpc = "await_takion"
    /\ \E err \in {"SUCCESS", "TIMEOUT"} :
          /\ WaitEnds(err)
          /\ \/ /\ conn.should_stop
                /\ rpc' = "close" /\ result' = err
                /\ UNCHANGED <<conn, congestion, big>>
             \/ /\ ~conn.should_stop /\ err = "TIMEOUT"
                /\ rpc' = "close" /\ result' = err /\ congestion' = FALSE
                /\ UNCHANGED <<conn, big>>
             \/ /\ ~conn.should_stop /\ err = "SUCCESS"
                /\ Expect("EXPECT_BANG")
                /\ \/ /\ rpc' = "await_bang" /\ big' = TRUE
                      /\ UNCHANGED <<result, congestion>>
                   \/ Disconnect("ERROR") /\ UNCHANGED big      \* BIG not sent
    /\ UNCHANGED <<takion, crypt, receivers, feedback, controller, events, inbox, sent, handed>>

(* Mutant: the wait for STREAMINFO finds the BANG's state_finished. *)
RunBang_KeepsFinished ==
    /\ rpc = "await_bang"
    /\ \E err \in {"SUCCESS", "TIMEOUT"} : WaitEnds(err)
    /\ IF conn.should_stop \/ ~conn.state_finished
       THEN Disconnect("NO_BANG") /\ UNCHANGED conn
       ELSE /\ conn' = [conn EXCEPT !.state = "EXPECT_STREAMINFO"]
            /\ rpc' = "await_streaminfo"
            /\ UNCHANGED <<result, congestion>>
    /\ UNCHANGED <<takion, crypt, receivers, feedback, controller, events, inbox, sent, handed, big>>

RunBang ==
    /\ rpc = "await_bang"
    /\ \E err \in {"SUCCESS", "TIMEOUT"} : WaitEnds(err)
    /\ IF conn.should_stop \/ ~conn.state_finished
       THEN Disconnect("NO_BANG") /\ UNCHANGED conn
       ELSE /\ Expect("EXPECT_STREAMINFO")
            /\ rpc' = "await_streaminfo"
            /\ UNCHANGED <<result, congestion>>
    /\ UNCHANGED <<takion, crypt, receivers, feedback, controller, events, inbox, sent, handed, big>>

(* Mutant: the heartbeat's wait finds STREAMINFO's state_finished. *)
RunStreamInfo_KeepsFinished ==
    /\ rpc = "await_streaminfo"
    /\ \E err \in {"SUCCESS", "TIMEOUT"} : WaitEnds(err)
    /\ IF conn.should_stop \/ ~conn.state_finished
       THEN Disconnect("NO_STREAMINFO") /\ UNCHANGED <<conn, feedback>>
       ELSE /\ feedback' = [active |-> TRUE, state |-> controller]
            /\ conn' = [conn EXCEPT !.state = "IDLE"]
            /\ rpc' = "event"
            /\ UNCHANGED <<result, congestion>>
    /\ UNCHANGED <<takion, crypt, receivers, controller, events, inbox, sent, handed, big>>

(* Mutant: the feedback sender is not given the state set before. *)
RunStreamInfo_NoState ==
    /\ rpc = "await_streaminfo"
    /\ \E err \in {"SUCCESS", "TIMEOUT"} : WaitEnds(err)
    /\ IF conn.should_stop \/ ~conn.state_finished
       THEN Disconnect("NO_STREAMINFO") /\ UNCHANGED <<conn, feedback>>
       ELSE /\ feedback' = [active |-> TRUE, state |-> 0]
            /\ Expect("IDLE")
            /\ rpc' = "event"
            /\ UNCHANGED <<result, congestion>>
    /\ UNCHANGED <<takion, crypt, receivers, controller, events, inbox, sent, handed, big>>

RunStreamInfo ==
    /\ rpc = "await_streaminfo"
    /\ \E err \in {"SUCCESS", "TIMEOUT"} : WaitEnds(err)
    /\ \/ /\ conn.should_stop \/ ~conn.state_finished
          /\ Disconnect("NO_STREAMINFO") /\ UNCHANGED <<conn, feedback>>
       \/ /\ ~conn.should_stop /\ conn.state_finished
          /\ \/ /\ feedback' = [active |-> TRUE, state |-> controller]
                /\ Expect("IDLE")
                /\ rpc' = "event"
                /\ UNCHANGED <<result, congestion>>
             \/ /\ Disconnect("ERROR")                          \* no feedback sender
                /\ UNCHANGED <<conn, feedback>>
    /\ UNCHANGED <<takion, crypt, receivers, controller, events, inbox, sent, handed, big>>

(* The CONNECTED event, without the mutex. *)
RunEvent ==
    /\ rpc = "event"
    /\ rpc' = "heartbeat"
    /\ events' = Append(events, "CONNECTED")
    /\ UNCHANGED <<conn, result, takion, crypt, receivers, congestion, feedback, controller,
                   inbox, sent, handed, big>>

(* Each wait that times out sends a heartbeat and is followed by another;   *)
(* the first that does not ends the feedback sender and the connection.    *)
RunHeartbeat ==
    /\ rpc = "heartbeat"
    /\ WaitEnds("SUCCESS")
    /\ feedback' = [feedback EXCEPT !.active = FALSE]
    /\ Disconnect("SUCCESS")
    /\ UNCHANGED <<conn, takion, crypt, receivers, controller, events, inbox, sent, handed, big>>

(* Mutant: the receivers go before Takion. *)
RunClose_FreesFirst ==
    /\ rpc = "close"
    /\ rpc' = "join"
    /\ receivers' = FALSE
    /\ UNCHANGED <<conn, result, takion, crypt, congestion, feedback, controller,
                   events, inbox, sent, handed, big>>

(* chiaki_takion_close: the stop pipe, then the join. *)
RunClose ==
    /\ rpc = "close"
    /\ rpc' = "join"
    /\ UNCHANGED <<conn, result, takion, crypt, receivers, congestion, feedback, controller,
                   events, inbox, sent, handed, big>>

RunJoin ==
    /\ rpc = "join"
    /\ takion = "ended"
    /\ takion' = "closed"
    /\ rpc' = "free"
    /\ UNCHANGED <<conn, result, crypt, receivers, congestion, feedback, controller,
                   events, inbox, sent, handed, big>>

RunFree ==
    /\ rpc = "free"
    /\ receivers' = FALSE
    /\ rpc' = "done"
    /\ UNCHANGED <<conn, result, takion, crypt, congestion, feedback, controller,
                   events, inbox, sent, handed, big>>

Run ==
    \/ RunBegin \/ RunTakionConnected \/ RunBang \/ RunStreamInfo \/ RunEvent
    \/ RunHeartbeat \/ RunClose \/ RunJoin \/ RunFree

-----------------------------------------------------------------------------
(* stream_connection_takion_cb, called by the Takion thread.               *)

(* CONNECTED, after the handshake. *)
TakionConnected ==
    /\ takion = "handshake"
    /\ takion' = "connected"
    /\ conn' = [conn EXCEPT !.state_finished = IF conn.state = "TAKION_CONNECT" THEN TRUE ELSE @]
    /\ UNCHANGED <<rpc, result, crypt, receivers, congestion, feedback, controller,
                   events, inbox, sent, handed, big>>

(* DISCONNECT: the handshake or a recv failed, or Takion is being closed. *)
TakionEnds ==
    /\ takion \in {"handshake", "connected"}
    /\ takion' = "ended"
    /\ conn' = [conn EXCEPT !.state_finished = IF conn.state = "TAKION_CONNECT" THEN FALSE ELSE @]
    /\ UNCHANGED <<rpc, result, crypt, receivers, congestion, feedback, controller,
                   events, inbox, sent, handed, big>>

(* DATA: what becomes of a message depends on the state run is in.         *)
TakionData ==
    /\ takion = "connected"
    /\ inbox # <<>>
    /\ LET m == Head(inbox)
           Finished == conn' = [conn EXCEPT !.state_finished = TRUE]
       IN  /\ \/ /\ m = "BANG" /\ conn.state = "EXPECT_BANG"
                 /\ \/ /\ crypt' = TRUE /\ Finished
                    \/ UNCHANGED <<crypt, conn>>                \* refused, no secret
              \/ /\ m = "STREAMINFO" /\ conn.state = "EXPECT_STREAMINFO"
                 /\ \/ Finished
                    \/ UNCHANGED conn                           \* bad audio header
                 /\ UNCHANGED crypt
              \/ /\ m = "DISCONNECT"
                 /\ \/ conn' = [conn EXCEPT !.remote_disconnected = TRUE]
                    \/ UNCHANGED conn                           \* its reason not decoded
                 /\ UNCHANGED crypt
              \/ /\ m = "BANG" => conn.state # "EXPECT_BANG"
                 /\ m = "STREAMINFO" => conn.state # "EXPECT_STREAMINFO"
                 /\ m # "DISCONNECT"
                 /\ UNCHANGED <<crypt, conn>>                   \* logged and dropped
           /\ handed' = handed \cup {m}
    /\ inbox' = Tail(inbox)
    /\ UNCHANGED <<rpc, result, takion, receivers, congestion, feedback, controller, events, sent,
                   big>>

-----------------------------------------------------------------------------
(* The console says BANG when it was sent BIG and then, without waiting,  *)
(* STREAMINFO.  Takion hands its data messages on in order and once.       *)
ConsoleSends ==
    /\ takion = "connected"
    /\ \E m \in ConsoleMsgs \ sent :
          /\ m = "BANG" => big
          /\ m = "STREAMINFO" => "BANG" \in sent
          /\ inbox' = Append(inbox, m)
          /\ sent' = sent \cup {m}
    /\ UNCHANGED <<conn, rpc, result, takion, crypt, receivers, congestion, feedback, controller,
                   events, handed, big>>

Application == Stop \/ SetControllerState

Takion == TakionConnected \/ TakionEnds \/ TakionData

Next == Run \/ Application \/ Takion \/ ConsoleSends

Spec == Init /\ [][Next]_vars

(* run's waits end and Takion, once told to stop, ends. *)
Fairness ==
    /\ WF_vars(Run)
    /\ WF_vars(TakionEnds /\ rpc = "join")

FairSpec == Spec /\ Fairness

-----------------------------------------------------------------------------
(* Every variable has its type; run has a result from its closing of Takion on. *)
TypeOK ==
    /\ conn \in [state : {"IDLE", "TAKION_CONNECT", "EXPECT_BANG", "EXPECT_STREAMINFO"},
                 state_finished : BOOLEAN, should_stop : BOOLEAN, remote_disconnected : BOOLEAN]
    /\ rpc \in {"start", "await_takion", "await_bang", "await_streaminfo", "event",
                "heartbeat", "close", "join", "free", "done"}
    /\ result \in IF rpc \in {"close", "join", "free", "done"}
                  THEN {"SUCCESS", "ERROR", "TIMEOUT", "CANCELED", "DISCONNECTED",
                        "NO_BANG", "NO_STREAMINFO"}
                  ELSE {"none"}
    /\ takion \in {"none", "handshake", "connected", "ended", "closed"}
    /\ crypt \in BOOLEAN /\ receivers \in BOOLEAN /\ congestion \in BOOLEAN
    /\ feedback \in [active : BOOLEAN, state : 0 .. MaxStates]
    /\ controller \in 0 .. MaxStates
    /\ inbox \in Seq(ConsoleMsgs)

(* The application is told CONNECTED at most once, and only when BIG was   *)
(* answered, the keys are agreed on and a STREAMINFO was handled in its    *)
(* turn; heartbeats are sent from then on and never before.                *)
ConnectedAfterHandshake ==
    /\ Len(events) <= 1
    /\ rpc \in {"event", "heartbeat"} \/ events # <<>> =>
          big /\ crypt /\ {"BANG", "STREAMINFO"} \subseteq handed

(* run returns what session.c takes for a requested stop only if there was *)
(* one, and reports a remote disconnect only after one.                    *)
ResultIsEarned ==
    /\ result \in {"SUCCESS", "CANCELED"} => conn.should_stop
    /\ result = "DISCONNECTED" => conn.remote_disconnected

(* A Takion thread that may still call back finds the receivers, and the   *)
(* feedback sender never outlives Takion.                                  *)
TakionOutlivedByReceivers ==
    /\ takion \in {"handshake", "connected"} => receivers
    /\ feedback.active => takion # "closed"

(* While it runs, the feedback sender sends the newest controller state,   *)
(* whether that was set before it was started or after.                    *)
FeedbackIsCurrent == feedback.active => feedback.state = controller

(* A stream connection asked to stop returns, wherever run is, and it       *)
(* returns when the console disconnects.                                   *)
RunEnds ==
    (conn.should_stop /\ rpc # "start") \/ conn.remote_disconnected ~> rpc = "done"
=============================================================================
