------------------------------- MODULE Session -------------------------------
(***************************************************************************)
(* The session thread of lib/src/session.c, composed with the Ctrl thread, *)
(* the calls of the application and the console.                           *)
(*                                                                         *)
(* The session thread requests a session over HTTP, starts Ctrl, waits for *)
(* a session id, asks the application for a login PIN when the console     *)
(* wants one, runs Senkusha and the stream connection, and finally stops   *)
(* and joins Ctrl and reports why it quit.  It holds state_mutex except in *)
(* waits and while it stops Ctrl.                                          *)
(***************************************************************************)
EXTENDS Ctrl

CONSTANTS
    Addresses,      \* number of addresses the host name resolved to
    MaxPins,        \* bound on the PINs the application enters
    SessionAnswers  \* what the console may answer to a session request

ASSUME SessionAssumption ==
    /\ Addresses \in Nat \ {0}
    /\ MaxPins \in Nat
    /\ SessionAnswers \subseteq {"ok", "version", "version_unknown", "version_silent",
                                 "in_use", "crash", "other", "error"}

VARIABLES
    spc,            \* where session_thread_func is
    sres,           \* the result it carries from a wait to where it handles it
    stop_pipe,      \* a byte is in session->stop_pipe
    request,        \* the attempt at a session request and the address in use
    pin_incorrect,  \* the local variable of that name
    pins            \* PINs the application entered so far

sessionVars == <<session, state_mutex, events, spc, sres, stop_pipe, request, pin_incorrect, pins>>
vars == <<ctrlVars, sessionVars>>

Init ==
    /\ CtrlInit
    /\ session = [should_stop |-> FALSE, quit_reason |-> "NONE", ctrl_failed |-> FALSE,
                  ctrl_session_id_received |-> FALSE, ctrl_login_pin_requested |-> FALSE,
                  login_pin |-> NoPin]
    /\ state_mutex = "free"
    /\ events = <<>>
    /\ spc = "start"
    /\ sres = "none"
    /\ stop_pipe = FALSE
    /\ request = [attempt |-> 1, addr |-> 1]
    /\ pin_incorrect = FALSE
    /\ pins = 0

-----------------------------------------------------------------------------
(* The calls of the application.                                           *)

(* chiaki_session_stop. *)
SessionStop ==
    /\ state_mutex = "free"
    /\ ~session.should_stop
    /\ session' = [session EXCEPT !.should_stop = TRUE]
    /\ stop_pipe' = TRUE
    /\ UNCHANGED <<ctrlVars, state_mutex, events, spc, sres, request, pin_incorrect, pins>>

(* chiaki_session_set_login_pin: a PIN not yet forwarded is replaced. *)
SessionSetLoginPin ==
    /\ state_mutex = "free"
    /\ pins < MaxPins
    /\ pins' = pins + 1
    /\ session' = [session EXCEPT !.login_pin = pins + 1]
    /\ UNCHANGED <<ctrlVars, state_mutex, events, spc, sres, stop_pipe, request, pin_incorrect>>

-----------------------------------------------------------------------------
(* session_thread_func.                                                    *)

Quit(reason, pc) ==
    /\ session' = [session EXCEPT !.quit_reason = reason]
    /\ spc' = pc

(* The loop of session_thread_request_session over the addresses: up to the *)
(* wait for the next one that gets a socket, or to its end.  Those without *)
(* one are skipped and leave the reason as it is.                          *)
TryAddresses(attempt, from, reason) ==
    \/ \E a \in from .. Addresses :
          Quit(reason, "connect") /\ request' = [attempt |-> attempt, addr |-> a]
    \/ /\ Quit(IF reason = "NONE" THEN "SESSION_REQUEST_UNKNOWN" ELSE reason, "quit")
       /\ UNCHANGED request

(* The first CHECK_STOP, and session_thread_request_session up to its wait. *)
SessionBegin ==
    /\ spc = "start"
    /\ state_mutex = "free"
    /\ IF session.should_stop
       THEN Quit("STOPPED", "quit") /\ UNCHANGED request
       ELSE TryAddresses(1, 1, session.quit_reason)
    /\ UNCHANGED <<ctrlVars, state_mutex, events, sres, stop_pipe, pin_incorrect, pins>>

(* Mutant: a wait that timed out looks like one that was canceled. *)
SessionWaits_Spurious(at, then, results) ==
    /\ spc = at
    /\ sres' \in results \cup {"canceled"}
    /\ spc' = then
    /\ UNCHANGED <<ctrlVars, session, state_mutex, events, stop_pipe, request, pin_incorrect, pins>>

(* Every wait on the stop pipe ends as it must or, signalled, canceled. *)
SessionWaits(at, then, results) ==
    /\ spc = at
    /\ \E r \in results \cup (IF stop_pipe THEN {"canceled"} ELSE {}) : sres' = r
    /\ spc' = then
    /\ UNCHANGED <<ctrlVars, session, state_mutex, events, stop_pipe, request, pin_incorrect, pins>>

SessionConnectReturns == SessionWaits("connect", "connected", {"success", "refused", "error"})

(* Stopped; the address does not answer and the next ones are tried; or    *)
(* the request is sent.                                                    *)
SessionConnected ==
    /\ spc = "connected"
    /\ state_mutex = "free"
    /\ \/ sres = "canceled" /\ Quit("STOPPED", "quit") /\ UNCHANGED request
       \/ /\ sres = "refused"
          /\ TryAddresses(request.attempt, request.addr + 1, "SESSION_REQUEST_CONNECTION_REFUSED")
       \/ sres = "error" /\ TryAddresses(request.attempt, request.addr + 1, "NONE")
       \/ /\ sres = "success"
          /\ \/ Quit("SESSION_REQUEST_UNKNOWN", "quit")            \* send failed
             \/ spc' = "answer" /\ UNCHANGED session
          /\ UNCHANGED request
    /\ UNCHANGED <<ctrlVars, state_mutex, events, sres, stop_pipe, pin_incorrect, pins>>

SessionAnswerReturns == SessionWaits("answer", "answered", SessionAnswers)

(* The answer; a version mismatch is tried again at most twice, the last   *)
(* time without asking for the server's version.                           *)
SessionAnswered ==
    /\ spc = "answered"
    /\ state_mutex = "free"
    /\ LET again(reason) == TryAddresses(request.attempt + 1, 1, reason)
           ends(reason) == Quit(reason, "quit") /\ UNCHANGED request
       IN  \/ sres = "canceled" /\ ends("STOPPED")
           \/ sres = "ok" /\ spc' = "pause" /\ UNCHANGED <<session, request>>
           \/ sres = "version" /\ request.attempt < 3 /\ again(session.quit_reason)
           \/ /\ sres = "version_silent" /\ request.attempt = 2
              /\ again("SESSION_REQUEST_RP_VERSION_MISMATCH")
           \/ /\ \/ sres = "version_unknown"
                 \/ sres = "version_silent" /\ request.attempt # 2
                 \/ sres = "version" /\ request.attempt = 3
              /\ ends("SESSION_REQUEST_RP_VERSION_MISMATCH")
           \/ sres = "in_use" /\ ends("SESSION_REQUEST_RP_IN_USE")
           \/ sres = "crash" /\ ends("SESSION_REQUEST_RP_CRASH")
           \/ sres \in {"other", "error"} /\ ends("SESSION_REQUEST_UNKNOWN")
    /\ UNCHANGED <<ctrlVars, state_mutex, events, sres, stop_pipe, pin_incorrect, pins>>

(* The pause of 10 ms, which should_stop does not lead out of, and         *)
(* chiaki_ctrl_start.                                                      *)
SessionStartCtrl ==
    /\ spc = "pause"
    /\ state_mutex = "free"
    /\ \/ spc' = "await_ctrl" /\ cpc' = "starting"
       \/ spc' = "quit" /\ UNCHANGED cpc                            \* no thread
    /\ UNCHANGED <<ctrl, notif_pipe, notif_mutex, cres, recv_buf, sock, console, calls, wire,
                   session, state_mutex, events, sres, stop_pipe, request, pin_incorrect, pins>>

(* ctrl_failed: in session_thread_func, after the lock is taken. *)
GiveUp ==
    Quit(IF session.quit_reason = "NONE" THEN "CTRL_UNKNOWN" ELSE session.quit_reason, "stop_ctrl")

(* The head of the PIN loop: forget the request and ask the application. *)
AskForPin ==
    /\ session' = [session EXCEPT !.ctrl_login_pin_requested = FALSE]
    /\ events' = Append(events, [type |-> "LOGIN_PIN_REQUEST", pin_incorrect |-> pin_incorrect])
    /\ pin_incorrect' = TRUE
    /\ spc' = "await_pin"

(* The wait for Ctrl ends, after at most 5 s: once when it was started     *)
(* ("await_ctrl") and after each PIN ("await_id").  Only the first time is *)
(* ctrl_failed looked at.                                                  *)
SessionCtrlReady ==
    /\ spc \in {"await_ctrl", "await_id"}
    /\ state_mutex = "free"
    /\ \/ /\ session.should_stop
          /\ Quit("STOPPED", "stop_ctrl")
          /\ UNCHANGED <<state_mutex, events, pin_incorrect>>
       \/ /\ ~session.should_stop
          /\ spc = "await_ctrl" /\ session.ctrl_failed
          /\ GiveUp /\ UNCHANGED <<state_mutex, events, pin_incorrect>>
       \/ /\ ~session.should_stop /\ ~(spc = "await_ctrl" /\ session.ctrl_failed)
          /\ session.ctrl_login_pin_requested
          /\ AskForPin /\ UNCHANGED state_mutex
       \/ /\ ~session.should_stop /\ ~(spc = "await_ctrl" /\ session.ctrl_failed)
          /\ ~session.ctrl_login_pin_requested
          /\ IF session.ctrl_session_id_received
             THEN spc' = "senkusha" /\ state_mutex' = "session" /\ UNCHANGED session
             ELSE GiveUp /\ UNCHANGED state_mutex
          /\ UNCHANGED <<events, pin_incorrect>>
    /\ UNCHANGED <<ctrlVars, sres, stop_pipe, request, pins>>

(* The wait for the PIN, which has no timeout, ends.  The mutex stays held *)
(* into chiaki_ctrl_set_login_pin.                                         *)
SessionPinEntered ==
    /\ spc = "await_pin"
    /\ state_mutex = "free"
    /\ \/ /\ session.should_stop
          /\ Quit("STOPPED", "stop_ctrl") /\ UNCHANGED state_mutex
       \/ /\ ~session.should_stop /\ session.ctrl_failed
          /\ GiveUp /\ UNCHANGED state_mutex
       \/ /\ ~session.should_stop /\ ~session.ctrl_failed /\ session.login_pin # NoPin
          /\ spc' = "forward_pin" /\ state_mutex' = "session" /\ UNCHANGED session
    /\ UNCHANGED <<ctrlVars, events, sres, stop_pipe, request, pin_incorrect, pins>>

SessionForwardPin ==
    /\ spc = "forward_pin"
    /\ CtrlSetLoginPin(session.login_pin)
    /\ session' = [session EXCEPT !.login_pin = NoPin]
    /\ state_mutex' = "free"
    /\ spc' = "await_id"
    /\ UNCHANGED <<notif_mutex, cpc, cres, recv_buf, sock, console, calls, wire,
                   events, sres, stop_pipe, request, pin_incorrect, pins>>

(* chiaki_senkusha_run with the mutex held; its failure is made up for with *)
(* fallback values, that of the keys is not.                                *)
SessionSenkusha ==
    /\ spc = "senkusha"
    /\ spc' \in {"stream", "stop_ctrl"}
    /\ state_mutex' = "free"
    /\ UNCHANGED <<ctrlVars, session, events, sres, stop_pipe, request, pin_incorrect, pins>>

(* chiaki_stream_connection_run returns; chiaki_session_stop has told it.  *)
(* That it returns success or canceled only then is what ResultIsEarned    *)
(* says of StreamConnection.                                               *)
SessionStreamReturns ==
    /\ spc = "stream"
    /\ \/ session.should_stop /\ sres' = "STOPPED"
       \/ sres' \in {"STREAM_CONNECTION_REMOTE_DISCONNECTED", "STREAM_CONNECTION_UNKNOWN"}
    /\ spc' = "streamed"
    /\ UNCHANGED <<ctrlVars, session, state_mutex, events, stop_pipe, request, pin_incorrect, pins>>

SessionStreamed ==
    /\ spc = "streamed"
    /\ state_mutex = "free"
    /\ Quit(sres, "stop_ctrl")
    /\ UNCHANGED <<ctrlVars, state_mutex, events, sres, stop_pipe, request, pin_incorrect, pins>>

SessionStopCtrl ==
    /\ spc = "stop_ctrl"
    /\ CtrlStop
    /\ spc' = "join"
    /\ UNCHANGED <<notif_mutex, cpc, cres, recv_buf, sock, console, calls, wire,
                   session, state_mutex, events, sres, stop_pipe, request, pin_incorrect, pins>>

(* Mutant: Ctrl is asked to stop and not waited for. *)
SessionJoinCtrl_NoWait ==
    /\ spc = "join"
    /\ spc' = "quit"
    /\ UNCHANGED <<ctrlVars, session, state_mutex, events, sres, stop_pipe, request,
                   pin_incorrect, pins>>

(* chiaki_ctrl_join. *)
SessionJoinCtrl ==
    /\ spc = "join"
    /\ cpc = "done"
    /\ spc' = "quit"
    /\ UNCHANGED <<ctrlVars, session, state_mutex, events, sres, stop_pipe, request,
                   pin_incorrect, pins>>

SessionQuit ==
    /\ spc = "quit"
    /\ spc' = "done"
    /\ events' = Append(events, [type |-> "QUIT", reason |-> session.quit_reason])
    /\ UNCHANGED <<ctrlVars, session, state_mutex, sres, stop_pipe, request, pin_incorrect, pins>>

SessionThread ==
    \/ SessionBegin \/ SessionConnectReturns \/ SessionConnected
    \/ SessionAnswerReturns \/ SessionAnswered \/ SessionStartCtrl
    \/ SessionCtrlReady \/ SessionPinEntered \/ SessionForwardPin
    \/ SessionSenkusha \/ SessionStreamReturns \/ SessionStreamed
    \/ SessionStopCtrl \/ SessionJoinCtrl \/ SessionQuit

local == <<spc, sres, stop_pipe, request, pin_incorrect, pins>>

Application ==
    \/ SessionStop
    \/ SessionSetLoginPin
    \/ \E u \in Callers : PostMessage(u) /\ spc # "done" /\ UNCHANGED local

Pending == \E u \in Callers : SignalMessage(u) /\ UNCHANGED local

Console == (ConsoleClose \/ \E m \in ConsoleMsgs : ConsoleSend(m)) /\ UNCHANGED local

Next ==
    \/ SessionThread
    \/ CtrlThread /\ UNCHANGED local
    \/ Application
    \/ Pending
    \/ Console

Spec == Init /\ [][Next]_vars

(* A thread that can run does, and one that waits for a mutex which is     *)
(* freed again and again gets it.  The stream may last until it is stopped, *)
(* and select need not ever fail.                                          *)
Fairness ==
    /\ SF_vars(SessionThread /\ (spc = "stream" => session.should_stop))
    /\ SF_vars(CtrlThread /\ UNCHANGED local /\ cres' # <<"error">>)
    /\ WF_vars(Pending)

FairSpec == Spec /\ Fairness

-----------------------------------------------------------------------------
QuitReasons ==
    {"NONE", "STOPPED", "SESSION_REQUEST_UNKNOWN", "SESSION_REQUEST_CONNECTION_REFUSED",
     "SESSION_REQUEST_RP_IN_USE", "SESSION_REQUEST_RP_CRASH",
     "SESSION_REQUEST_RP_VERSION_MISMATCH", "CTRL_UNKNOWN", "CTRL_CONNECT_FAILED",
     "CTRL_CONNECTION_REFUSED", "STREAM_CONNECTION_UNKNOWN",
     "STREAM_CONNECTION_REMOTE_DISCONNECTED"}

(* The state of both threads is well typed; state_mutex is held between    *)
(* two steps exactly where session_thread_func runs on without a wait into *)
(* another component, and notif_mutex while Ctrl is not in a wait.         *)
TypeOK ==
    /\ CtrlTypeOK
    /\ session.quit_reason \in QuitReasons
    /\ session.login_pin \in 0 .. MaxPins
    /\ request.attempt \in 1 .. 3 /\ request.addr \in 1 .. Addresses
    /\ state_mutex = IF spc \in {"forward_pin", "senkusha"} THEN "session" ELSE "free"
    /\ notif_mutex = IF cpc \in {"response", "messages", "failing"} THEN "ctrl" ELSE "free"

(* Work handed to a running Ctrl thread never waits unnoticed: either the  *)
(* notif pipe is signalled or a caller of chiaki_ctrl_send_message is about *)
(* to signal it.  The thread resets the pipe only with nothing left to do. *)
NoWorkUnnoticed ==
    (ctrl.msg_queue # <<>> \/ ctrl.login_pin # NoPin) /\ cpc \notin {"failing", "done"}
        => notif_pipe \/ \E u \in Callers : calls[u].due

(* What a caller queued is sent or still queued, once and in its order,    *)
(* whatever other callers, the PIN and the resets of the pipe do.          *)
MessagesInOrder ==
    LET all   == wire \o ctrl.msg_queue
        Of(u) == {i \in 1 .. Len(all) : all[i][1] = u}
    IN  \A u \in Callers :
            /\ \A i \in Of(u) : all[i][2] \in 1 .. calls[u].posted
            /\ \A k \in 1 .. calls[u].posted : \E i \in Of(u) : all[i][2] = k
            /\ \A i, j \in Of(u) : i < j => all[i][2] < all[j][2]

(* The console is sent at most one PIN for each time the application was   *)
(* asked for one, and never an older one after a newer one.                *)
OnePinPerRequest ==
    LET sent  == {i \in 1 .. Len(wire) : wire[i][1] = "pin"}
        asked == {i \in 1 .. Len(events) : events[i].type = "LOGIN_PIN_REQUEST"}
    IN  /\ Cardinality(sent) <= Cardinality(asked)
        /\ \A i, j \in sent : i < j => wire[i][2] < wire[j][2]

(* When the QUIT event is sent the Ctrl thread has ended, so that the      *)
(* application may call chiaki_session_fini from then on, and no event     *)
(* follows it.                                                             *)
QuitIsLast ==
    /\ spc \in {"quit", "done"} => cpc \in {"off", "done"}
    /\ \A i \in 1 .. Len(events) : events[i].type = "QUIT" => i = Len(events)

(* A session reports that it was stopped only if the application stopped   *)
(* it: no failure of a request, of Ctrl or of the stream looks like it.    *)
StoppedOnlyOnRequest ==
    \A i \in 1 .. Len(events) :
        events[i].type = "QUIT" /\ events[i].reason = "STOPPED" => session.should_stop

(* A session asked to stop ends: chiaki_session_join returns.  It holds as *)
(* long as the application enters no PIN: after one Ctrl's thread looks at *)
(* should_stop only when it wakes up again, with its pipe reset.           *)
StopEnds == session.should_stop ~> spc = "done"

(* A message queued for a connected Ctrl thread is sent, unless the thread *)
(* ends.                                                                   *)
MessagesGetSent ==
    ctrl.msg_queue # <<>> /\ cpc \notin {"off", "done"}
        ~> ctrl.msg_queue = <<>> \/ cpc = "done"

-----------------------------------------------------------------------------
(* What the code says of itself and does not keep.                         *)

(* session.c:454 has the session wait for the session id, for at most 5 s, *)
(* after it forwarded the PIN: it must get to that wait.                   *)
PinForwardingEnds == spc = "forward_pin" ~> spc # "forward_pin"
=============================================================================
