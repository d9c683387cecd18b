-------------------------------- MODULE Ctrl --------------------------------
(***************************************************************************)
(* The Ctrl component of lib/src/ctrl.c: the thread that owns the TCP      *)
(* control connection to the console, and the calls other threads make to  *)
(* it.  Callers hand the thread work under notif_mutex (messages, the      *)
(* login PIN, the request to stop) and wake it through notif_pipe, which   *)
(* is level triggered.  The thread holds notif_mutex except while it waits *)
(* in connect and select, and takes the session's state_mutex to report.   *)
(*                                                                         *)
(* The module has no specification of its own: module Session composes it  *)
(* with the session thread, which starts, feeds, stops and joins it.       *)
(***************************************************************************)
EXTENDS Naturals, Sequences, FiniteSets

CONSTANTS
    Callers,        \* application threads that call chiaki_ctrl_send_message
    ConsoleMsgs,    \* types of the messages the console may send
    MaxConsole,     \* bound on the messages the console sends
    MaxPosts,       \* bound on the messages each caller queues
    MayClose        \* how the console may end the connection

ASSUME CtrlAssumption ==
    /\ ConsoleMsgs \subseteq {"SESSION_ID", "HEARTBEAT_REQ", "LOGIN_PIN_REQ", "LOGIN_SUCCESS",
                              "LOGIN_PIN_INCORRECT", "KEYBOARD", "TOO_LONG"}
    /\ MaxConsole \in Nat
    /\ MaxPosts \in Nat
    /\ MayClose \subseteq {"closed", "reset"}
    /\ "pin" \notin Callers      \* wire tells a PIN from a caller's message

NoPin == 0

VARIABLES
    ctrl,           \* ChiakiCtrl: should_stop, login_pin (NoPin unless entered),
                    \*   msg_queue, login_pin_requested
    notif_pipe,     \* a byte is in ctrl->notif_pipe
    notif_mutex,    \* "free" or the thread that holds it
    cpc,            \* where ctrl_thread_func is
    cres,           \* the result it carries from a wait to where it handles it
    recv_buf,       \* messages received and not yet handled
    sock,           \* ctrl->sock: "none" before it is assigned, "conn"
    console,        \* the console: messages on their way, how many were sent,
                    \*   and whether its end is "open", "closed" or "reset"
    calls,          \* per caller: messages queued, whether the pipe write is due
    wire,           \* history: what the thread gave to ctrl_message_send for callers
    session,        \* ChiakiSession: the fields both threads use
    state_mutex,    \* "free" or the thread that holds it
    events          \* history: what the event callback was called with

ctrlVars == <<ctrl, notif_pipe, notif_mutex, cpc, cres, recv_buf, sock, console, calls, wire>>

Msgs == Callers \X (1 .. MaxPosts)

-----------------------------------------------------------------------------

CtrlInit ==
    /\ ctrl = [should_stop |-> FALSE, login_pin |-> NoPin, msg_queue |-> <<>>,
               login_pin_requested |-> FALSE]
    /\ notif_pipe = FALSE
    /\ notif_mutex = "free"
    /\ cpc = "off"
    /\ cres = <<>>
    /\ recv_buf = <<>>
    /\ sock = "none"
    /\ console = [inbox |-> <<>>, sent |-> 0, end |-> "open"]
    /\ calls = [u \in Callers |-> [posted |-> 0, due |-> FALSE]]
    /\ wire = <<>>

-----------------------------------------------------------------------------
(* The calls of other threads.                                             *)

(* Mutant: the pipe is not written when the queue already held a message. *)
PostMessage_OnlyFirstWakes(u) ==
    /\ notif_mutex = "free"
    /\ ~calls[u].due
    /\ calls[u].posted < MaxPosts
    /\ ctrl' = [ctrl EXCEPT !.msg_queue = Append(@, <<u, calls[u].posted + 1>>)]
    /\ calls' = [calls EXCEPT ![u] = [posted |-> @.posted + 1, due |-> ctrl.should_stop]]
    /\ UNCHANGED <<notif_pipe, notif_mutex, cpc, cres, recv_buf, sock, console, wire,
                   session, state_mutex, events>>

(* Mutant: a message goes to the head of the queue. *)
PostMessage_Overtakes(u) ==
    /\ notif_mutex = "free"
    /\ ~calls[u].due
    /\ calls[u].posted < MaxPosts
    /\ ctrl' = [ctrl EXCEPT !.msg_queue = <<<<u, calls[u].posted + 1>>>> \o @]
    /\ calls' = [calls EXCEPT ![u] = [posted |-> @.posted + 1, due |-> TRUE]]
    /\ UNCHANGED <<notif_pipe, notif_mutex, cpc, cres, recv_buf, sock, console, wire,
                   session, state_mutex, events>>

(* chiaki_ctrl_send_message up to the unlock. *)
PostMessage(u) ==
    /\ notif_mutex = "free"
    /\ ~calls[u].due
    /\ calls[u].posted < MaxPosts
    /\ ctrl' = [ctrl EXCEPT !.msg_queue = Append(@, <<u, calls[u].posted + 1>>)]
    /\ calls' = [calls EXCEPT ![u] = [posted |-> @.posted + 1, due |-> TRUE]]
    /\ UNCHANGED <<notif_pipe, notif_mutex, cpc, cres, recv_buf, sock, console, wire,
                   session, state_mutex, events>>

(* The pipe write chiaki_ctrl_send_message makes without the mutex. *)
SignalMessage(u) ==
    /\ calls[u].due
    /\ calls' = [calls EXCEPT ![u].due = FALSE]
    /\ notif_pipe' = TRUE
    /\ UNCHANGED <<ctrl, notif_mutex, cpc, cres, recv_buf, sock, console, wire,
                   session, state_mutex, events>>

(* Mutant: the thread is left to find out by itself. *)
CtrlStop_NoSignal ==
    /\ notif_mutex = "free"
    /\ ctrl' = [ctrl EXCEPT !.should_stop = TRUE]
    /\ UNCHANGED notif_pipe

(* chiaki_ctrl_stop, called by the session thread. *)
CtrlStop ==
    /\ notif_mutex = "free"
    /\ ctrl' = [ctrl EXCEPT !.should_stop = TRUE]
    /\ notif_pipe' = TRUE

(* Mutant: the PIN is left for the next time the thread wakes. *)
CtrlSetLoginPin_NoSignal(pin) ==
    /\ notif_mutex = "free"
    /\ ctrl' = [ctrl EXCEPT !.login_pin = pin]
    /\ UNCHANGED notif_pipe

(* chiaki_ctrl_set_login_pin, called by the session thread. *)
CtrlSetLoginPin(pin) ==
    /\ notif_mutex = "free"
    /\ ctrl' = [ctrl EXCEPT !.login_pin = pin]
    /\ notif_pipe' = TRUE

-----------------------------------------------------------------------------
(* The console, at the other end of the connection.                        *)

ConsoleSend(m) ==
    /\ sock = "conn"
    /\ console.end = "open"
    /\ console.sent < MaxConsole
    /\ console' = [console EXCEPT !.inbox = Append(@, m), !.sent = @ + 1]
    /\ UNCHANGED <<ctrl, notif_pipe, notif_mutex, cpc, cres, recv_buf, sock, calls, wire,
                   session, state_mutex, events>>

ConsoleClose ==
    /\ sock = "conn"
    /\ console.end = "open"
    /\ \E how \in MayClose : console' = [console EXCEPT !.end = how]
    /\ UNCHANGED <<ctrl, notif_pipe, notif_mutex, cpc, cres, recv_buf, sock, calls, wire,
                   session, state_mutex, events>>

-----------------------------------------------------------------------------
(* ctrl_thread_func.  An action leaves the thread at cpc; where it holds   *)
(* notif_mutex is "ctrl" in between.                                       *)

CtrlUnchanged == UNCHANGED <<notif_pipe, recv_buf, sock, console, calls, wire>>

(* The thread goes on to report the reasons, in order, and then ends. *)
FailWith(reasons) == cpc' = "failing" /\ cres' = reasons

(* The lock, ctrl_connect up to the wait of chiaki_stop_pipe_connect. *)
CtrlConnect ==
    /\ cpc = "starting"
    /\ notif_mutex = "free"
    /\ \/ cpc' = "connecting" /\ UNCHANGED <<notif_mutex, cres>>
       \/ /\ FailWith(<<"CTRL_UNKNOWN", "CTRL_CONNECT_FAILED">>)     \* no socket
          /\ notif_mutex' = "ctrl"
    /\ UNCHANGED ctrl
    /\ CtrlUnchanged
    /\ UNCHANGED <<session, state_mutex, events>>

(* The wait ends; the thread does not have the mutex yet. *)
CtrlConnectReturns ==
    /\ cpc = "connecting"
    /\ \E r \in {"success", "refused", "error"} \cup (IF notif_pipe THEN {"canceled"} ELSE {}) :
          cres' = <<r>>
    /\ cpc' = "connected"
    /\ UNCHANGED <<ctrl, notif_mutex>>
    /\ CtrlUnchanged
    /\ UNCHANGED <<session, state_mutex, events>>

(* Back under the mutex: the error path, or the HTTP request.  When the    *)
(* request cannot be sent, ctrl_connect closes the socket and returns the  *)
(* SUCCESS left in err: the thread goes on without a connection.           *)
CtrlConnected ==
    /\ cpc = "connected"
    /\ notif_mutex = "free"
    /\ notif_mutex' = "ctrl"
    /\ CASE cres[1] = "canceled" -> FailWith(<<"CTRL_CONNECT_FAILED">>)
         [] cres[1] = "refused"  -> FailWith(<<"CTRL_CONNECTION_REFUSED", "CTRL_CONNECT_FAILED">>)
         [] cres[1] = "error"    -> FailWith(<<"CTRL_UNKNOWN", "CTRL_CONNECT_FAILED">>)
         [] cres[1] = "success"  -> cpc' \in {"response", "messages"} /\ cres' = <<>>
    /\ UNCHANGED ctrl
    /\ CtrlUnchanged
    /\ UNCHANGED <<session, state_mutex, events>>

(* chiaki_recv_http_header and what follows, with the mutex held.  What    *)
(* came with the header is the first of what the console sends.            *)
CtrlResponse ==
    /\ cpc = "response"
    /\ \/ /\ \E early \in {<<>>} \cup {<<m>> : m \in ConsoleMsgs} :
                /\ console.sent + Len(early) <= MaxConsole
                /\ console' = [console EXCEPT !.sent = @ + Len(early)]
                /\ recv_buf' = early
          /\ cpc' = "messages" /\ sock' = "conn"
          /\ UNCHANGED cres
       \/ /\ FailWith(<<"CTRL_CONNECT_FAILED">>)   \* canceled, timeout, bad response
          /\ UNCHANGED <<sock, console, recv_buf>>
    /\ UNCHANGED <<ctrl, notif_mutex, notif_pipe, calls, wire, session, state_mutex, events>>

(* ctrl_failed, once per reason; after the last one the thread ends. *)
CtrlFailed ==
    /\ cpc = "failing"
    /\ state_mutex = "free"
    /\ session' = [session EXCEPT !.quit_reason = Head(cres), !.ctrl_failed = TRUE]
    /\ cres' = Tail(cres)
    /\ IF Len(cres) = 1
       THEN cpc' = "done" /\ notif_mutex' = "free"
       ELSE UNCHANGED <<cpc, notif_mutex>>
    /\ UNCHANGED ctrl
    /\ CtrlUnchanged
    /\ UNCHANGED <<state_mutex, events>>

(* ctrl_message_received, for the first message of recv_buf. *)
CtrlMessage ==
    /\ cpc = "messages"
    /\ recv_buf # <<>>
    /\ LET m == Head(recv_buf)
           Tells(change) == state_mutex = "free" /\ session' = change /\ UNCHANGED <<ctrl, events>>
       IN  /\ CASE m = "SESSION_ID" ->
                       IF session.ctrl_session_id_received
                       THEN UNCHANGED <<ctrl, session, events>>
                       ELSE Tells([session EXCEPT !.ctrl_session_id_received = TRUE])
                [] m = "LOGIN_PIN_REQ" ->
                       /\ state_mutex = "free"
                       /\ ctrl' = [ctrl EXCEPT !.login_pin_requested = TRUE]
                       /\ session' = [session EXCEPT !.ctrl_login_pin_requested = TRUE]
                       /\ UNCHANGED events
                [] m = "LOGIN_SUCCESS" ->
                       /\ ctrl' = [ctrl EXCEPT !.login_pin_requested = FALSE]
                       /\ UNCHANGED <<session, events>>
                [] m = "LOGIN_PIN_INCORRECT" ->
                       IF ctrl.login_pin_requested
                       THEN Tells([session EXCEPT !.ctrl_login_pin_requested = TRUE])
                       ELSE UNCHANGED <<ctrl, session, events>>
                [] m = "KEYBOARD" ->
                       /\ events' = Append(events, [type |-> "KEYBOARD"])
                       /\ UNCHANGED <<ctrl, session>>
                [] m \in {"HEARTBEAT_REQ", "TOO_LONG"} -> UNCHANGED <<ctrl, session, events>>
           /\ IF m = "TOO_LONG" THEN FailWith(<<"CTRL_UNKNOWN">>) ELSE UNCHANGED <<cpc, cres>>
           /\ recv_buf' = Tail(recv_buf)
    /\ UNCHANGED <<notif_pipe, notif_mutex, sock, console, calls, wire, state_mutex>>

(* All messages handled: unlock and wait in chiaki_stop_pipe_select_single. *)
CtrlSelect ==
    /\ cpc = "messages"
    /\ recv_buf = <<>>
    /\ cpc' = "select"
    /\ notif_mutex' = "free"
    /\ UNCHANGED <<ctrl, cres>>
    /\ CtrlUnchanged
    /\ UNCHANGED <<session, state_mutex, events>>

(* The wait ends; the pipe is looked at before the socket.  A socket that  *)
(* was never assigned may be readable or not.  select itself may fail.     *)
CtrlSelectReturns ==
    /\ cpc = "select"
    /\ \/ notif_pipe /\ cres' = <<"canceled">>
       \/ /\ ~notif_pipe
          /\ sock = "none" \/ console.inbox # <<>> \/ console.end # "open"
          /\ cres' = <<"readable">>
       \/ cres' = <<"error">>
    /\ cpc' = "woken"
    /\ UNCHANGED <<ctrl, notif_mutex>>
    /\ CtrlUnchanged
    /\ UNCHANGED <<session, state_mutex, events>>

(* Mutant: a PIN that was sent is not forgotten. *)
CtrlNotified_KeepsPin ==
    /\ cpc = "woken"
    /\ notif_mutex = "free"
    /\ cres = <<"canceled">>
    /\ wire' = wire \o ctrl.msg_queue
                    \o (IF ctrl.login_pin # NoPin THEN <<<<"pin", ctrl.login_pin>>>> ELSE <<>>)
    /\ ctrl' = [ctrl EXCEPT !.msg_queue = <<>>]
    /\ IF ctrl.login_pin = NoPin /\ ctrl.should_stop
       THEN cpc' = "done" /\ notif_mutex' = "free" /\ UNCHANGED notif_pipe
       ELSE /\ cpc' = "messages" /\ notif_mutex' = "ctrl"
            /\ notif_pipe' = (notif_pipe /\ ctrl.msg_queue = <<>> /\ ctrl.login_pin = NoPin)
    /\ cres' = <<>>
    /\ UNCHANGED <<recv_buf, sock, console, calls, session, state_mutex, events>>

(* Canceled: send what is queued, then the PIN, and reset the pipe if      *)
(* either was there.  should_stop is looked at only when there is no PIN.  *)
(* Whether ctrl_message_send fails is not looked at.                       *)
CtrlNotified ==
    /\ cpc = "woken"
    /\ notif_mutex = "free"
    /\ cres = <<"canceled">>
    /\ wire' = wire \o ctrl.msg_queue
                    \o (IF ctrl.login_pin # NoPin THEN <<<<"pin", ctrl.login_pin>>>> ELSE <<>>)
    /\ ctrl' = [ctrl EXCEPT !.msg_queue = <<>>, !.login_pin = NoPin]
    /\ IF ctrl.login_pin = NoPin /\ ctrl.should_stop
       THEN cpc' = "done" /\ notif_mutex' = "free" /\ UNCHANGED notif_pipe
       ELSE /\ cpc' = "messages" /\ notif_mutex' = "ctrl"
            /\ notif_pipe' = (notif_pipe /\ ctrl.msg_queue = <<>> /\ ctrl.login_pin = NoPin)
    /\ cres' = <<>>
    /\ UNCHANGED <<recv_buf, sock, console, calls, session, state_mutex, events>>

(* Readable: recv, its end of stream (which nobody is told of) and errors. *)
CtrlReceive ==
    /\ cpc = "woken"
    /\ notif_mutex = "free"
    /\ cres = <<"readable">>
    /\ \/ /\ sock = "conn" /\ console.inbox # <<>>
          /\ recv_buf' = console.inbox
          /\ console' = [console EXCEPT !.inbox = <<>>]
          /\ cpc' = "messages" /\ notif_mutex' = "ctrl" /\ cres' = <<>>
       \/ /\ sock = "conn" /\ console.inbox = <<>> /\ console.end = "closed"
          /\ cpc' = "done" /\ notif_mutex' = "free" /\ cres' = <<>>
          /\ UNCHANGED <<recv_buf, console>>
       \/ /\ sock = "none" \/ console.end = "reset"
          /\ FailWith(<<"CTRL_UNKNOWN">>) /\ notif_mutex' = "ctrl"
          /\ UNCHANGED <<recv_buf, console>>
    /\ UNCHANGED <<ctrl, notif_pipe, sock, calls, wire, session, state_mutex, events>>

(* The wait failed: the thread ends, of which nobody is told. *)
CtrlSelectFailed ==
    /\ cpc = "woken"
    /\ notif_mutex = "free"
    /\ cres = <<"error">>
    /\ cpc' = "done" /\ cres' = <<>>
    /\ UNCHANGED <<ctrl, notif_mutex>>
    /\ CtrlUnchanged
    /\ UNCHANGED <<session, state_mutex, events>>

CtrlThread ==
    \/ CtrlConnect \/ CtrlConnectReturns \/ CtrlConnected \/ CtrlResponse
    \/ CtrlFailed \/ CtrlMessage \/ CtrlSelect \/ CtrlSelectReturns
    \/ CtrlNotified \/ CtrlReceive \/ CtrlSelectFailed

-----------------------------------------------------------------------------
CtrlTypeOK ==
    /\ ctrl.should_stop \in BOOLEAN
    /\ ctrl.login_pin \in Nat
    /\ ctrl.msg_queue \in Seq(Msgs)
    /\ ctrl.login_pin_requested \in BOOLEAN
    /\ notif_pipe \in BOOLEAN
    /\ notif_mutex \in {"free", "ctrl"}
    /\ cpc \in {"off", "starting", "connecting", "connected", "response", "messages",
                "select", "woken", "failing", "done"}
    /\ recv_buf \in Seq(ConsoleMsgs)
    /\ sock \in {"none", "conn"}
    /\ console \in [inbox : Seq(ConsoleMsgs), sent : 0 .. MaxConsole,
                    end : {"open", "closed", "reset"}]
    /\ calls \in [Callers -> [posted : 0 .. MaxPosts, due : BOOLEAN]]
=============================================================================
