---------------------------- MODULE SessionProofs ----------------------------
(***************************************************************************)
(* Proofs about Session, for any number of callers, addresses and PINs:    *)
(* the types, where the mutexes are held, that work for Ctrl is noticed,   *)
(* that QUIT is the last event and STOPPED only reported on request.       *)
(***************************************************************************)
EXTENDS Session, SequenceTheorems, FiniteSetTheorems, TLAPS

(* Where session_thread_func has not started Ctrl yet. *)
Early == {"start", "connect", "connected", "answer", "answered", "pause"}

SessionPlaces ==
    Early \cup {"await_ctrl", "await_pin", "forward_pin", "await_id", "senkusha", "stream",
                "streamed", "stop_ctrl", "join", "quit", "done"}

CtrlPlaces ==
    {"off", "starting", "connecting", "connected", "response", "messages", "select", "woken",
     "failing", "done"}

(* The session thread starts Ctrl, and quits only when Ctrl has ended. *)
ThreadsTrue ==
    /\ spc \in SessionPlaces /\ cpc \in CtrlPlaces
    /\ spc \in Early => cpc = "off"
    /\ spc \in {"quit", "done"} => cpc \in {"off", "done"}

MutexesTrue ==
    /\ state_mutex = IF spc \in {"forward_pin", "senkusha"} THEN "session" ELSE "free"
    /\ notif_mutex = IF cpc \in {"response", "messages", "failing"} THEN "ctrl" ELSE "free"

Failures ==
    {<<"CTRL_UNKNOWN", "CTRL_CONNECT_FAILED">>, <<"CTRL_CONNECTION_REFUSED", "CTRL_CONNECT_FAILED">>,
     <<"CTRL_CONNECT_FAILED">>, <<"CTRL_UNKNOWN">>}

(* What the threads carry from a wait to where they handle it. *)
CarriedTrue ==
    /\ request \in [attempt : 1 .. 3, addr : 1 .. Addresses]
    /\ spc = "connected" => sres \in {"success", "refused", "error", "canceled"}
    /\ spc = "answered" => sres \in SessionAnswers \cup {"canceled"}
    /\ spc = "streamed" => sres \in {"STOPPED", "STREAM_CONNECTION_REMOTE_DISCONNECTED",
                                    "STREAM_CONNECTION_UNKNOWN"}
    /\ cpc = "connected" => \E r \in {"success", "refused", "error", "canceled"} : cres = <<r>>
    /\ cpc = "failing" => cres \in Failures

PlacesTrue == ThreadsTrue /\ MutexesTrue /\ CarriedTrue

LEMMA TailOfTwo == ASSUME NEW a, NEW b PROVE Tail(<<a, b>>) = <<b>>
<1> DEFINE S == {a, b}
           s == <<a, b>>
           x == Tail(s)
           y == <<b>>
<1>1. a \in S /\ b \in S
  OBVIOUS
<1> HIDE DEF S
<1>2. s \in Seq(S) /\ Len(s) = 2 /\ s[2] = b
  BY <1>1
<1> HIDE DEF s
<1>3. x \in Seq(S) /\ Len(x) = 1 /\ x[1] = b
  BY <1>2
<1>4. y \in Seq(S) /\ Len(y) = 1 /\ y[1] = b
  BY <1>1
<1> HIDE DEF x, y
<1>5. x = y
  <2>1. Len(x) = Len(y) /\ \A i \in 1 .. Len(x) : x[i] = y[i]
    BY <1>3, <1>4
  <2> QED
    BY <1>3, <1>4, <2>1, SeqEqual
<1> QED
  BY <1>5 DEF x, y, s

LEMMA PlacesInit == Init => PlacesTrue
  BY SessionAssumption
     DEF Init, CtrlInit, PlacesTrue, ThreadsTrue, MutexesTrue, CarriedTrue, SessionPlaces,
         CtrlPlaces, Early

LEMMA TryEffect ==
    ASSUME NEW attempt \in 1 .. 3, NEW from \in Nat \ {0}, NEW reason,
           CarriedTrue, TryAddresses(attempt, from, reason)
    PROVE  /\ spc' \in {"connect", "quit"}
           /\ request' \in [attempt : 1 .. 3, addr : 1 .. Addresses]
           /\ \E r \in {reason, "SESSION_REQUEST_UNKNOWN"} :
                 session' = [session EXCEPT !.quit_reason = r]
<1>1. CASE \E a \in from .. Addresses :
              Quit(reason, "connect") /\ request' = [attempt |-> attempt, addr |-> a]
  <2>1. PICK a \in from .. Addresses :
            Quit(reason, "connect") /\ request' = [attempt |-> attempt, addr |-> a]
    BY <1>1
  <2>2. a \in 1 .. Addresses
    BY SessionAssumption
  <2> QED
    BY <2>1, <2>2 DEF Quit
<1>2. CASE /\ Quit(IF reason = "NONE" THEN "SESSION_REQUEST_UNKNOWN" ELSE reason, "quit")
           /\ UNCHANGED request
  BY <1>2 DEF Quit, CarriedTrue
<1> QED
  BY <1>1, <1>2 DEF TryAddresses

(* The steps of the session request. *)
LEMMA RequestEffect ==
    ASSUME PlacesTrue, SessionBegin \/ SessionConnected \/ SessionAnswered
    PROVE  /\ spc \in {"start", "connected", "answered"}
           /\ spc' \in {"connect", "answer", "pause", "quit"}
           /\ UNCHANGED <<ctrlVars, state_mutex, events, sres, stop_pipe, pin_incorrect, pins>>
           /\ request' \in [attempt : 1 .. 3, addr : 1 .. Addresses]
           /\ \/ session' = session
              \/ \E r \in QuitReasons \cup {session.quit_reason} :
                    /\ session' = [session EXCEPT !.quit_reason = r]
                    /\ r = "STOPPED" => \/ session.should_stop \/ sres = "canceled"
                                       \/ session.quit_reason = "STOPPED"
<1>1. CarriedTrue /\ request.attempt \in 1 .. 3 /\ request.addr \in Nat \ {0}
      /\ request \in [attempt : 1 .. 3, addr : 1 .. Addresses]
  BY SessionAssumption DEF PlacesTrue, CarriedTrue
<1> USE DEF QuitReasons
<1>2. CASE SessionBegin
  <2>1. /\ spc = "start"
        /\ UNCHANGED <<ctrlVars, state_mutex, events, sres, stop_pipe, pin_incorrect, pins>>
        /\ \/ session.should_stop /\ Quit("STOPPED", "quit") /\ UNCHANGED request
           \/ TryAddresses(1, 1, session.quit_reason)
    BY <1>2 DEF SessionBegin
  <2>2. CASE session.should_stop /\ Quit("STOPPED", "quit") /\ UNCHANGED request
    BY <1>1, <2>1, <2>2 DEF Quit
  <2>3. CASE TryAddresses(1, 1, session.quit_reason)
    BY <1>1, <2>1, <2>3, TryEffect
  <2> QED
    BY <2>1, <2>2, <2>3
<1>3. CASE SessionConnected
  <2>1. /\ spc = "connected"
        /\ UNCHANGED <<ctrlVars, state_mutex, events, sres, stop_pipe, pin_incorrect, pins>>
        /\ \/ sres = "canceled" /\ Quit("STOPPED", "quit") /\ UNCHANGED request
           \/ Quit("SESSION_REQUEST_UNKNOWN", "quit") /\ UNCHANGED request
           \/ spc' = "answer" /\ UNCHANGED <<session, request>>
           \/ \E reason \in {"SESSION_REQUEST_CONNECTION_REFUSED", "NONE"} :
                 TryAddresses(request.attempt, request.addr + 1, reason)
    BY <1>3 DEF SessionConnected
  <2>2. CASE \E reason \in {"SESSION_REQUEST_CONNECTION_REFUSED", "NONE"} :
                 TryAddresses(request.attempt, request.addr + 1, reason)
    <3>1. PICK reason \in {"SESSION_REQUEST_CONNECTION_REFUSED", "NONE"} :
                 TryAddresses(request.attempt, request.addr + 1, reason)
      BY <2>2
    <3>2. request.addr + 1 \in Nat \ {0}
      BY <1>1
    <3> QED
      BY <1>1, <2>1, <3>1, <3>2, TryEffect
  <2>3. CASE \/ sres = "canceled" /\ Quit("STOPPED", "quit") /\ UNCHANGED request
             \/ Quit("SESSION_REQUEST_UNKNOWN", "quit") /\ UNCHANGED request
             \/ spc' = "answer" /\ UNCHANGED <<session, request>>
    BY <1>1, <2>1, <2>3 DEF Quit
  <2> QED
    BY <2>1, <2>2, <2>3
<1>4. CASE SessionAnswered
  <2> DEFINE Reasons == {"SESSION_REQUEST_RP_VERSION_MISMATCH", "SESSION_REQUEST_RP_IN_USE",
                         "SESSION_REQUEST_RP_CRASH", "SESSION_REQUEST_UNKNOWN"}
  <2>1. /\ spc = "answered"
        /\ UNCHANGED <<ctrlVars, state_mutex, events, sres, stop_pipe, pin_incorrect, pins>>
        /\ \/ sres = "canceled" /\ Quit("STOPPED", "quit") /\ UNCHANGED request
           \/ spc' = "pause" /\ UNCHANGED <<session, request>>
           \/ \E reason \in Reasons : Quit(reason, "quit") /\ UNCHANGED request
           \/ /\ request.attempt < 3
              /\ \E reason \in {session.quit_reason, "SESSION_REQUEST_RP_VERSION_MISMATCH"} :
                    TryAddresses(request.attempt + 1, 1, reason)
    BY <1>1, <1>4 DEF SessionAnswered
  <2>2. CASE /\ request.attempt < 3
             /\ \E reason \in {session.quit_reason, "SESSION_REQUEST_RP_VERSION_MISMATCH"} :
                    TryAddresses(request.attempt + 1, 1, reason)
    <3>1. PICK reason \in {session.quit_reason, "SESSION_REQUEST_RP_VERSION_MISMATCH"} :
                    TryAddresses(request.attempt + 1, 1, reason)
      BY <2>2
    <3>2. request.attempt + 1 \in 1 .. 3
      BY <1>1, <2>2
    <3>3. /\ spc' \in {"connect", "quit"}
          /\ request' \in [attempt : 1 .. 3, addr : 1 .. Addresses]
          /\ \E r \in {reason, "SESSION_REQUEST_UNKNOWN"} :
                session' = [session EXCEPT !.quit_reason = r]
      BY <1>1, <3>1, <3>2, TryEffect
    <3> QED
      BY <2>1, <3>3
  <2>3. CASE \/ sres = "canceled" /\ Quit("STOPPED", "quit") /\ UNCHANGED request
             \/ spc' = "pause" /\ UNCHANGED <<session, request>>
             \/ \E reason \in Reasons : Quit(reason, "quit") /\ UNCHANGED request
    BY <1>1, <2>1, <2>3 DEF Quit
  <2> QED
    BY <2>1, <2>2, <2>3
<1> QED
  BY <1>2, <1>3, <1>4

LEMMA PlacesSession == PlacesTrue /\ SessionThread => PlacesTrue'
<1> SUFFICES ASSUME PlacesTrue, SessionThread PROVE PlacesTrue'
  OBVIOUS
<1> USE DEF PlacesTrue, ThreadsTrue, MutexesTrue, CarriedTrue, SessionPlaces, CtrlPlaces, Early,
            ctrlVars
<1>1. CASE SessionBegin
  BY <1>1, RequestEffect
<1>2. CASE SessionConnectReturns
  BY <1>2 DEF SessionConnectReturns, SessionWaits
<1>3. CASE SessionConnected
  BY <1>3, RequestEffect
<1>4. CASE SessionAnswerReturns
  BY <1>4 DEF SessionAnswerReturns, SessionWaits
<1>5. CASE SessionAnswered
  BY <1>5, RequestEffect
<1>6. CASE SessionStartCtrl
  BY <1>6 DEF SessionStartCtrl
<1>7. CASE SessionCtrlReady
  BY <1>7 DEF SessionCtrlReady, Quit, GiveUp, AskForPin
<1>8. CASE SessionPinEntered
  BY <1>8 DEF SessionPinEntered, Quit, GiveUp
<1>9. CASE SessionForwardPin
  BY <1>9 DEF SessionForwardPin
<1>10. CASE SessionSenkusha
  BY <1>10 DEF SessionSenkusha
<1>11. CASE SessionStreamReturns
  BY <1>11 DEF SessionStreamReturns
<1>12. CASE SessionStreamed
  BY <1>12 DEF SessionStreamed, Quit
<1>13. CASE SessionStopCtrl
  BY <1>13 DEF SessionStopCtrl
<1>14. CASE SessionJoinCtrl
  BY <1>14 DEF SessionJoinCtrl
<1>15. CASE SessionQuit
  BY <1>15 DEF SessionQuit
<1> QED
  BY <1>1, <1>2, <1>3, <1>4, <1>5, <1>6, <1>7, <1>8, <1>9, <1>10, <1>11, <1>12, <1>13, <1>14,
     <1>15 DEF SessionThread

LEMMA PlacesCtrl == PlacesTrue /\ CtrlThread /\ UNCHANGED local => PlacesTrue'
<1> SUFFICES ASSUME PlacesTrue, CtrlThread, UNCHANGED local PROVE PlacesTrue'
  OBVIOUS
<1> USE DEF PlacesTrue, ThreadsTrue, MutexesTrue, CarriedTrue, SessionPlaces, CtrlPlaces, Early,
            Failures, local, CtrlUnchanged, FailWith
<1>1. CASE CtrlConnect
  BY <1>1 DEF CtrlConnect
<1>2. CASE CtrlConnectReturns
  BY <1>2 DEF CtrlConnectReturns
<1>3. CASE CtrlConnected
  <2>1. /\ cpc = "connected" /\ notif_mutex' = "ctrl" /\ UNCHANGED state_mutex
        /\ cres[1] \in {"success", "refused", "error", "canceled"}
    BY <1>3 DEF CtrlConnected
  <2>2. \/ cpc' = "failing" /\ cres' \in Failures
        \/ cpc' \in {"response", "messages"}
    BY <1>3, <2>1 DEF CtrlConnected
  <2> QED
    BY <2>1, <2>2
<1>4. CASE CtrlResponse
  BY <1>4 DEF CtrlResponse
<1>5. CASE CtrlFailed
  <2>1. /\ cpc = "failing" /\ cres \in Failures /\ cres' = Tail(cres)
        /\ UNCHANGED state_mutex
        /\ IF Len(cres) = 1 THEN cpc' = "done" /\ notif_mutex' = "free"
                            ELSE UNCHANGED <<cpc, notif_mutex>>
    BY <1>5 DEF CtrlFailed
  <2>2. Len(cres) = 1 \/ cres' = <<"CTRL_CONNECT_FAILED">>
    <3>1. CASE cres \in {<<"CTRL_CONNECT_FAILED">>, <<"CTRL_UNKNOWN">>}
      BY <3>1
    <3>2. CASE cres = <<"CTRL_UNKNOWN", "CTRL_CONNECT_FAILED">>
      BY <2>1, <3>2, TailOfTwo
    <3>3. CASE cres = <<"CTRL_CONNECTION_REFUSED", "CTRL_CONNECT_FAILED">>
      BY <2>1, <3>3, TailOfTwo
    <3> QED
      BY <2>1, <3>1, <3>2, <3>3
  <2> QED
    BY <2>1, <2>2
<1>6. CASE CtrlMessage
  BY <1>6 DEF CtrlMessage
<1>7. CASE CtrlSelect
  BY <1>7 DEF CtrlSelect
<1>8. CASE CtrlSelectReturns
  BY <1>8 DEF CtrlSelectReturns
<1>9. CASE CtrlNotified
  BY <1>9 DEF CtrlNotified
<1>10. CASE CtrlReceive
  BY <1>10 DEF CtrlReceive
<1>11. CASE CtrlSelectFailed
  BY <1>11 DEF CtrlSelectFailed
<1> QED
  BY <1>1, <1>2, <1>3, <1>4, <1>5, <1>6, <1>7, <1>8, <1>9, <1>10, <1>11 DEF CtrlThread

LEMMA PlacesStep == PlacesTrue /\ [Next]_vars => PlacesTrue'
<1> SUFFICES ASSUME PlacesTrue, [Next]_vars PROVE PlacesTrue'
  OBVIOUS
<1> USE DEF PlacesTrue, ThreadsTrue, MutexesTrue, CarriedTrue
<1>1. CASE SessionStop
  BY <1>1 DEF SessionStop, ctrlVars
<1>2. CASE SessionSetLoginPin
  BY <1>2 DEF SessionSetLoginPin, ctrlVars
<1>3. ASSUME NEW u \in Callers, PostMessage(u), UNCHANGED local PROVE PlacesTrue'
  BY <1>3 DEF PostMessage, local
<1>4. CASE Pending
  BY <1>4 DEF Pending, SignalMessage, local
<1>5. CASE Console
  BY <1>5 DEF Console, ConsoleClose, ConsoleSend, local
<1>6. CASE UNCHANGED vars
  BY <1>6 DEF vars, ctrlVars, sessionVars
<1> QED
  BY <1>1, <1>2, <1>3, <1>4, <1>5, <1>6, PlacesSession, PlacesCtrl DEF Next, Application

-----------------------------------------------------------------------------
(* Types                                                                   *)

SessionRecords ==
    [should_stop : BOOLEAN, quit_reason : QuitReasons, ctrl_failed : BOOLEAN,
     ctrl_session_id_received : BOOLEAN, ctrl_login_pin_requested : BOOLEAN,
     login_pin : 0 .. MaxPins]

CtrlRecords ==
    [should_stop : BOOLEAN, login_pin : Nat, msg_queue : Seq(Msgs),
     login_pin_requested : BOOLEAN]

CtrlTypesTrue == ctrl \in CtrlRecords /\ CtrlTypeOK

TypesTrue ==
    /\ session \in SessionRecords
    /\ pins \in 0 .. MaxPins
    /\ CtrlTypesTrue

LEMMA TypesInit == Init => TypesTrue
<1> SUFFICES ASSUME Init PROVE TypesTrue
  OBVIOUS
<1> USE SessionAssumption, CtrlAssumption
<1>1. session \in SessionRecords /\ pins \in 0 .. MaxPins
  BY DEF Init, SessionRecords, QuitReasons, NoPin
<1>2. <<>> \in Seq(Msgs) /\ <<>> \in Seq(ConsoleMsgs)
  OBVIOUS
<1>3. ctrl \in CtrlRecords
  BY <1>2 DEF Init, CtrlInit, CtrlRecords, NoPin
<1>4. CtrlTypeOK
  <2>1. console \in [inbox : Seq(ConsoleMsgs), sent : 0 .. MaxConsole,
                     end : {"open", "closed", "reset"}]
    BY <1>2 DEF Init, CtrlInit
  <2>2. calls \in [Callers -> [posted : 0 .. MaxPosts, due : BOOLEAN]]
    BY DEF Init, CtrlInit
  <2>3. /\ notif_pipe \in BOOLEAN /\ notif_mutex \in {"free", "ctrl"} /\ cpc = "off"
        /\ recv_buf \in Seq(ConsoleMsgs) /\ sock \in {"none", "conn"}
    BY <1>2 DEF Init, CtrlInit
  <2> QED
    BY <1>3, <2>1, <2>2, <2>3 DEF CtrlTypeOK, CtrlRecords
<1> QED
  BY <1>1, <1>3, <1>4 DEF TypesTrue, CtrlTypesTrue

LEMMA TypesSession == PlacesTrue /\ TypesTrue /\ SessionThread => TypesTrue'
<1> SUFFICES ASSUME PlacesTrue, TypesTrue, SessionThread PROVE TypesTrue'
  OBVIOUS
<1>1. ASSUME session' \in SessionRecords, pins' = pins, UNCHANGED ctrlVars PROVE TypesTrue'
  BY <1>1 DEF TypesTrue, CtrlTypesTrue, CtrlTypeOK, ctrlVars
<1>2. ASSUME NEW reason \in QuitReasons
      PROVE  [session EXCEPT !.quit_reason = reason] \in SessionRecords
  BY DEF TypesTrue, SessionRecords
<1>3. session \in SessionRecords
  BY DEF TypesTrue
<1> USE DEF Quit, QuitReasons
<1>4. CASE SessionBegin \/ SessionConnected \/ SessionAnswered
  <2>1. session.quit_reason \in QuitReasons
    BY <1>3 DEF SessionRecords
  <2>2. session' \in SessionRecords
    BY <1>2, <1>3, <1>4, <2>1, RequestEffect
  <2> QED
    BY <1>1, <1>4, <2>2, RequestEffect
<1>5. CASE SessionConnectReturns \/ SessionAnswerReturns
  BY <1>1, <1>3, <1>5 DEF SessionConnectReturns, SessionAnswerReturns, SessionWaits
<1>8. CASE SessionStartCtrl
  <2>1. cpc' \in {"starting", cpc} /\ UNCHANGED <<session, pins, ctrl, notif_pipe, notif_mutex,
                                                 recv_buf, sock, console, calls>>
    BY <1>8 DEF SessionStartCtrl
  <2> QED
    BY <2>1 DEF TypesTrue, CtrlTypesTrue, CtrlTypeOK
<1>9. CASE SessionCtrlReady
  <2>1. session' = session
        \/ \E reason \in QuitReasons : session' = [session EXCEPT !.quit_reason = reason]
        \/ session' = [session EXCEPT !.ctrl_login_pin_requested = FALSE]
    BY <1>3, <1>9 DEF SessionCtrlReady, GiveUp, AskForPin, SessionRecords
  <2>2. [session EXCEPT !.ctrl_login_pin_requested = FALSE] \in SessionRecords
    BY <1>3 DEF SessionRecords
  <2>3. session' \in SessionRecords
    BY <1>2, <1>3, <2>1, <2>2
  <2> QED
    BY <1>1, <1>9, <2>3 DEF SessionCtrlReady
<1>10. CASE SessionPinEntered
  <2>1. session' = session
        \/ \E reason \in QuitReasons : session' = [session EXCEPT !.quit_reason = reason]
    BY <1>3, <1>10 DEF SessionPinEntered, GiveUp, SessionRecords
  <2> QED
    BY <1>1, <1>2, <1>3, <1>10, <2>1 DEF SessionPinEntered
<1>11. CASE SessionForwardPin
  <2>1. /\ session' = [session EXCEPT !.login_pin = NoPin] /\ pins' = pins
        /\ ctrl' = [ctrl EXCEPT !.login_pin = session.login_pin] /\ notif_pipe' = TRUE
        /\ UNCHANGED <<notif_mutex, cpc, recv_buf, sock, console, calls>>
    BY <1>11 DEF SessionForwardPin, CtrlSetLoginPin
  <2>2. session' \in SessionRecords
    BY <1>3, <2>1, SessionAssumption DEF SessionRecords, NoPin
  <2>3. ctrl' \in CtrlRecords
    BY <1>3, <2>1, SessionAssumption DEF TypesTrue, CtrlTypesTrue, SessionRecords, CtrlRecords
  <2> QED
    BY <2>1, <2>2, <2>3 DEF TypesTrue, CtrlTypesTrue, CtrlTypeOK, CtrlRecords
<1>12. CASE SessionSenkusha
  BY <1>1, <1>3, <1>12 DEF SessionSenkusha
<1>13. CASE SessionStreamReturns
  BY <1>1, <1>3, <1>13 DEF SessionStreamReturns
<1>14. CASE SessionStreamed
  <2>1. sres \in QuitReasons
    BY <1>14 DEF SessionStreamed, PlacesTrue, CarriedTrue
  <2> QED
    BY <1>1, <1>2, <1>14, <2>1 DEF SessionStreamed
<1>15. CASE SessionStopCtrl
  <2>1. /\ session' = session /\ pins' = pins
        /\ ctrl' = [ctrl EXCEPT !.should_stop = TRUE] /\ notif_pipe' = TRUE
        /\ UNCHANGED <<notif_mutex, cpc, recv_buf, sock, console, calls>>
    BY <1>15 DEF SessionStopCtrl, CtrlStop
  <2>2. ctrl' \in CtrlRecords
    BY <2>1 DEF TypesTrue, CtrlTypesTrue, CtrlRecords
  <2> QED
    BY <2>1, <2>2 DEF TypesTrue, CtrlTypesTrue, CtrlTypeOK, CtrlRecords
<1>16. CASE SessionJoinCtrl \/ SessionQuit
  BY <1>1, <1>3, <1>16 DEF SessionJoinCtrl, SessionQuit
<1> QED
  BY <1>4, <1>5, <1>8, <1>9, <1>10, <1>11, <1>12, <1>13, <1>14, <1>15, <1>16
     DEF SessionThread

LEMMA TypesCtrl == PlacesTrue /\ TypesTrue /\ CtrlThread /\ UNCHANGED local => TypesTrue'
<1> SUFFICES ASSUME PlacesTrue, TypesTrue, CtrlThread, UNCHANGED local PROVE TypesTrue'
  OBVIOUS
<1>1. session \in SessionRecords /\ ctrl \in CtrlRecords /\ pins' = pins
  BY DEF TypesTrue, CtrlTypesTrue, local
<1>2. PlacesTrue'
  BY PlacesCtrl
<1>3. cpc' \in CtrlPlaces /\ notif_mutex' \in {"free", "ctrl"}
  BY <1>2 DEF PlacesTrue, ThreadsTrue, MutexesTrue
<1> USE <1>1, <1>3 DEF TypesTrue, CtrlTypesTrue, CtrlTypeOK, CtrlUnchanged, CtrlPlaces
<1>4. CASE CtrlConnect
  BY <1>4 DEF CtrlConnect
<1>5. CASE CtrlConnectReturns
  BY <1>5 DEF CtrlConnectReturns
<1>6. CASE CtrlConnected
  BY <1>6 DEF CtrlConnected
<1>7. CASE CtrlResponse
  <2>1. /\ \/ UNCHANGED <<recv_buf, console>>
           \/ \E early \in {<<>>} \cup {<<m>> : m \in ConsoleMsgs} :
                 /\ console.sent + Len(early) <= MaxConsole
                 /\ console' = [console EXCEPT !.sent = @ + Len(early)]
                 /\ recv_buf' = early
        /\ sock' \in {"conn", sock}
        /\ UNCHANGED <<ctrl, notif_pipe, calls, session>>
    BY <1>7 DEF CtrlResponse
  <2>2. ASSUME NEW early \in {<<>>} \cup {<<m>> : m \in ConsoleMsgs},
               console.sent + Len(early) <= MaxConsole,
               console' = [console EXCEPT !.sent = @ + Len(early)]
        PROVE  /\ early \in Seq(ConsoleMsgs)
               /\ console' \in [inbox : Seq(ConsoleMsgs), sent : 0 .. MaxConsole,
                                end : {"open", "closed", "reset"}]
    <3>1. early \in Seq(ConsoleMsgs) /\ Len(early) \in Nat
      <4>1. CASE early = <<>>
        BY <4>1
      <4>2. ASSUME NEW m \in ConsoleMsgs, early = <<m>>
            PROVE  early \in Seq(ConsoleMsgs) /\ Len(early) \in Nat
        BY <4>2
      <4> QED
        BY <4>1, <4>2
    <3>2. console.sent + Len(early) \in 0 .. MaxConsole
      BY <2>2, <3>1, CtrlAssumption
    <3> QED
      BY <2>2, <3>1, <3>2
  <2>3. recv_buf' \in Seq(ConsoleMsgs)
        /\ console' \in [inbox : Seq(ConsoleMsgs), sent : 0 .. MaxConsole,
                         end : {"open", "closed", "reset"}]
    BY <2>1, <2>2
  <2> QED
    BY <2>1, <2>3
<1>8. CASE CtrlFailed
  <2>1. Head(cres) \in QuitReasons
    BY <1>8 DEF CtrlFailed, PlacesTrue, CarriedTrue, Failures, QuitReasons
  <2>2. session' \in SessionRecords
    BY <1>8, <2>1 DEF CtrlFailed, SessionRecords
  <2> QED
    BY <1>8, <2>2 DEF CtrlFailed
<1>9. CASE CtrlMessage
  <2>1. recv_buf \in Seq(ConsoleMsgs) /\ recv_buf # <<>>
    BY <1>9 DEF CtrlMessage
  <2>2. Head(recv_buf) \in ConsoleMsgs /\ Tail(recv_buf) \in Seq(ConsoleMsgs)
    BY <2>1
  <2> DEFINE m == Head(recv_buf)
  <2>3. m \in {"SESSION_ID", "HEARTBEAT_REQ", "LOGIN_PIN_REQ", "LOGIN_SUCCESS",
               "LOGIN_PIN_INCORRECT", "KEYBOARD", "TOO_LONG"}
    BY <2>2, CtrlAssumption
  <2>4. /\ \/ session' = session
           \/ session' = [session EXCEPT !.ctrl_session_id_received = TRUE]
           \/ session' = [session EXCEPT !.ctrl_login_pin_requested = TRUE]
        /\ \/ ctrl' = ctrl
           \/ ctrl' = [ctrl EXCEPT !.login_pin_requested = TRUE]
           \/ ctrl' = [ctrl EXCEPT !.login_pin_requested = FALSE]
    BY <1>9, <2>3 DEF CtrlMessage
  <2>5. session' \in SessionRecords /\ ctrl' \in CtrlRecords
    BY <2>4 DEF SessionRecords, CtrlRecords
  <2>6. recv_buf' = Tail(recv_buf) /\ UNCHANGED <<notif_pipe, sock, console, calls>>
    BY <1>9 DEF CtrlMessage
  <2> QED
    BY <2>2, <2>5, <2>6 DEF CtrlRecords
<1>10. CASE CtrlSelect
  BY <1>10 DEF CtrlSelect
<1>11. CASE CtrlSelectReturns
  BY <1>11 DEF CtrlSelectReturns
<1>12. CASE CtrlNotified
  <2>1. /\ ctrl' = [ctrl EXCEPT !.msg_queue = <<>>, !.login_pin = NoPin]
        /\ notif_pipe' \in BOOLEAN
        /\ UNCHANGED <<recv_buf, sock, console, calls, session>>
    BY <1>12 DEF CtrlNotified
  <2>2. <<>> \in Seq(Msgs)
    OBVIOUS
  <2>3. ctrl' \in CtrlRecords
    BY <2>1, <2>2 DEF CtrlRecords, NoPin
  <2> QED
    BY <2>1, <2>3 DEF CtrlRecords
<1>13. CASE CtrlReceive
  <2>1. /\ recv_buf' \in Seq(ConsoleMsgs)
        /\ console' = console \/ console' = [console EXCEPT !.inbox = <<>>]
        /\ UNCHANGED <<ctrl, notif_pipe, sock, calls, session>>
    BY <1>13 DEF CtrlReceive
  <2>2. <<>> \in Seq(ConsoleMsgs)
    OBVIOUS
  <2> QED
    BY <2>1, <2>2
<1>14. CASE CtrlSelectFailed
  BY <1>14 DEF CtrlSelectFailed
<1> QED
  BY <1>4, <1>5, <1>6, <1>7, <1>8, <1>9, <1>10, <1>11, <1>12, <1>13, <1>14 DEF CtrlThread

LEMMA TypesStep == PlacesTrue /\ TypesTrue /\ [Next]_vars => TypesTrue'
<1> SUFFICES ASSUME PlacesTrue, TypesTrue, [Next]_vars PROVE TypesTrue'
  OBVIOUS
<1> USE DEF TypesTrue, CtrlTypesTrue, CtrlTypeOK
<1>1. CASE SessionStop
  <2>1. session' \in SessionRecords
    BY <1>1 DEF SessionStop, SessionRecords
  <2> QED
    BY <1>1, <2>1 DEF SessionStop, ctrlVars
<1>2. CASE SessionSetLoginPin
  <2>1. pins' = pins + 1 /\ pins < MaxPins /\ pins' \in 0 .. MaxPins
    BY <1>2, SessionAssumption DEF SessionSetLoginPin
  <2>2. session' \in SessionRecords
    BY <1>2, <2>1 DEF SessionSetLoginPin, SessionRecords
  <2> QED
    BY <1>2, <2>1, <2>2 DEF SessionSetLoginPin, ctrlVars
<1>3. ASSUME NEW u \in Callers, PostMessage(u), UNCHANGED local PROVE TypesTrue'
  <2> DEFINE n == calls[u].posted + 1
  <2>1. calls[u].posted \in 0 .. MaxPosts /\ calls[u].posted < MaxPosts
    BY <1>3 DEF PostMessage
  <2>2. n \in 1 .. MaxPosts /\ n \in 0 .. MaxPosts /\ <<u, n>> \in Msgs
    BY <2>1, CtrlAssumption DEF Msgs
  <2>3. /\ ctrl' = [ctrl EXCEPT !.msg_queue = Append(@, <<u, n>>)]
        /\ calls' = [calls EXCEPT ![u] = [posted |-> n, due |-> TRUE]]
        /\ UNCHANGED <<notif_pipe, notif_mutex, cpc, recv_buf, sock, console, session>>
    BY <1>3 DEF PostMessage
  <2> HIDE DEF n
  <2>4. Append(ctrl.msg_queue, <<u, n>>) \in Seq(Msgs)
    BY <2>2 DEF CtrlRecords
  <2>5. ctrl' \in CtrlRecords
    BY <2>3, <2>4 DEF CtrlRecords
  <2>6. calls' \in [Callers -> [posted : 0 .. MaxPosts, due : BOOLEAN]]
    BY <2>2, <2>3
  <2>7. pins' = pins
    BY <1>3 DEF local
  <2> QED
    BY <2>3, <2>5, <2>6, <2>7 DEF CtrlRecords
<1>4. ASSUME NEW u \in Callers, SignalMessage(u), UNCHANGED local PROVE TypesTrue'
  BY <1>4 DEF SignalMessage, local
<1>5. ASSUME ConsoleClose, UNCHANGED local PROVE TypesTrue'
  <2>1. \E how \in MayClose : console' = [console EXCEPT !.end = how]
    BY <1>5 DEF ConsoleClose
  <2>2. console' \in [inbox : Seq(ConsoleMsgs), sent : 0 .. MaxConsole,
                      end : {"open", "closed", "reset"}]
    BY <2>1, CtrlAssumption
  <2> QED
    BY <1>5, <2>2 DEF ConsoleClose, local
<1>6. ASSUME NEW m \in ConsoleMsgs, ConsoleSend(m), UNCHANGED local PROVE TypesTrue'
  <2>1. /\ console' = [console EXCEPT !.inbox = Append(@, m), !.sent = @ + 1]
        /\ console.sent < MaxConsole
    BY <1>6 DEF ConsoleSend
  <2>2. Append(console.inbox, m) \in Seq(ConsoleMsgs) /\ console.sent + 1 \in 0 .. MaxConsole
    BY <2>1, CtrlAssumption
  <2>3. console' \in [inbox : Seq(ConsoleMsgs), sent : 0 .. MaxConsole,
                      end : {"open", "closed", "reset"}]
    BY <2>1, <2>2
  <2> QED
    BY <1>6, <2>3 DEF ConsoleSend, local
<1>7. CASE UNCHANGED vars
  BY <1>7 DEF vars, ctrlVars, sessionVars
<1> QED
  BY <1>1, <1>2, <1>3, <1>4, <1>5, <1>6, <1>7, TypesSession, TypesCtrl
     DEF Next, Application, Pending, Console

-----------------------------------------------------------------------------
(* Work for Ctrl                                                           *)

LEMMA WorkInit == Init => NoWorkUnnoticed
  BY DEF Init, CtrlInit, NoWorkUnnoticed

LEMMA WorkSession == PlacesTrue /\ TypesTrue /\ NoWorkUnnoticed /\ SessionThread => NoWorkUnnoticed'
<1> SUFFICES ASSUME PlacesTrue, TypesTrue, NoWorkUnnoticed, SessionThread PROVE NoWorkUnnoticed'
  OBVIOUS
<1>1. CASE UNCHANGED ctrlVars
  BY <1>1 DEF NoWorkUnnoticed, ctrlVars
<1>2. CASE SessionStartCtrl
  <2>1. cpc = "off" /\ UNCHANGED <<ctrl, notif_pipe, calls>>
    BY <1>2 DEF SessionStartCtrl, PlacesTrue, ThreadsTrue, Early
  <2> QED
    BY <2>1 DEF NoWorkUnnoticed
<1>3. CASE SessionForwardPin \/ SessionStopCtrl
  BY <1>3 DEF SessionForwardPin, SessionStopCtrl, CtrlSetLoginPin, CtrlStop, NoWorkUnnoticed
<1> QED
  BY <1>1, <1>2, <1>3
     DEF SessionThread, SessionBegin, SessionConnectReturns, SessionConnected,
         SessionAnswerReturns, SessionAnswered, SessionWaits, SessionCtrlReady,
         SessionPinEntered, SessionSenkusha, SessionStreamReturns, SessionStreamed,
         SessionJoinCtrl, SessionQuit

LEMMA WorkCtrl == PlacesTrue /\ TypesTrue /\ NoWorkUnnoticed /\ CtrlThread => NoWorkUnnoticed'
<1> SUFFICES ASSUME PlacesTrue, TypesTrue, NoWorkUnnoticed, CtrlThread PROVE NoWorkUnnoticed'
  OBVIOUS
<1> USE DEF NoWorkUnnoticed, CtrlUnchanged, FailWith
<1>1. CASE CtrlConnect
  BY <1>1 DEF CtrlConnect
<1>2. CASE CtrlConnectReturns
  BY <1>2 DEF CtrlConnectReturns
<1>3. CASE CtrlConnected
  <2>1. cpc = "connected" /\ UNCHANGED <<ctrl, notif_pipe, calls>>
    BY <1>3 DEF CtrlConnected
  <2> QED
    BY <2>1
<1>4. CASE CtrlResponse
  BY <1>4 DEF CtrlResponse
<1>5. CASE CtrlFailed
  <2>1. cpc' \in {"failing", "done"}
    BY <1>5 DEF CtrlFailed
  <2> QED
    BY <2>1
<1>6. CASE CtrlMessage
  <2>1. recv_buf \in Seq(ConsoleMsgs) /\ recv_buf # <<>> /\ ctrl \in CtrlRecords
    BY <1>6 DEF CtrlMessage, TypesTrue, CtrlTypesTrue, CtrlTypeOK
  <2>2. Head(recv_buf) \in ConsoleMsgs
    BY <2>1
  <2> DEFINE m == Head(recv_buf)
  <2>3. m \in {"SESSION_ID", "HEARTBEAT_REQ", "LOGIN_PIN_REQ", "LOGIN_SUCCESS",
               "LOGIN_PIN_INCORRECT", "KEYBOARD", "TOO_LONG"}
    BY <2>2, CtrlAssumption
  <2>4. \/ ctrl' = ctrl
        \/ ctrl' = [ctrl EXCEPT !.login_pin_requested = TRUE]
        \/ ctrl' = [ctrl EXCEPT !.login_pin_requested = FALSE]
    BY <1>6, <2>3 DEF CtrlMessage
  <2>5. ctrl'.msg_queue = ctrl.msg_queue /\ ctrl'.login_pin = ctrl.login_pin
    BY <2>1, <2>4 DEF CtrlRecords
  <2>6. cpc = "messages" /\ UNCHANGED <<notif_pipe, calls>>
    BY <1>6 DEF CtrlMessage
  <2> QED
    BY <2>5, <2>6
<1>7. CASE CtrlSelect
  BY <1>7 DEF CtrlSelect
<1>8. CASE CtrlSelectReturns
  BY <1>8 DEF CtrlSelectReturns
<1>9. CASE CtrlNotified
  <2>1. ctrl \in CtrlRecords /\ ctrl' = [ctrl EXCEPT !.msg_queue = <<>>, !.login_pin = NoPin]
    BY <1>9 DEF CtrlNotified, TypesTrue, CtrlTypesTrue
  <2>2. ctrl'.msg_queue = <<>> /\ ctrl'.login_pin = NoPin
    BY <2>1 DEF CtrlRecords
  <2> QED
    BY <2>2
<1>10. CASE CtrlReceive
  BY <1>10 DEF CtrlReceive
<1>11. CASE CtrlSelectFailed
  BY <1>11 DEF CtrlSelectFailed
<1> QED
  BY <1>1, <1>2, <1>3, <1>4, <1>5, <1>6, <1>7, <1>8, <1>9, <1>10, <1>11 DEF CtrlThread

LEMMA WorkStep == PlacesTrue /\ TypesTrue /\ NoWorkUnnoticed /\ [Next]_vars => NoWorkUnnoticed'
<1> SUFFICES ASSUME PlacesTrue, TypesTrue, NoWorkUnnoticed, [Next]_vars PROVE NoWorkUnnoticed'
  OBVIOUS
<1> USE DEF NoWorkUnnoticed
<1>1. CASE SessionStop \/ SessionSetLoginPin
  BY <1>1 DEF SessionStop, SessionSetLoginPin, ctrlVars
<1>2. ASSUME NEW u \in Callers, PostMessage(u) PROVE NoWorkUnnoticed'
  <2>1. calls' = [calls EXCEPT ![u] = [posted |-> calls[u].posted + 1, due |-> TRUE]]
    BY <1>2 DEF PostMessage
  <2>2. calls'[u].due
    BY <2>1 DEF TypesTrue, CtrlTypesTrue, CtrlTypeOK
  <2> QED
    BY <2>2
<1>3. CASE Pending
  BY <1>3 DEF Pending, SignalMessage
<1>4. CASE Console
  BY <1>4 DEF Console, ConsoleClose, ConsoleSend
<1>5. CASE UNCHANGED vars
  BY <1>5 DEF vars, ctrlVars
<1> QED
  BY <1>1, <1>2, <1>3, <1>4, <1>5, WorkSession, WorkCtrl DEF Next, Application

-----------------------------------------------------------------------------
(* Stopped only on request                                                 *)

StopTrue ==
    /\ stop_pipe => session.should_stop
    /\ sres \in {"canceled", "STOPPED"} => session.should_stop
    /\ session.quit_reason = "STOPPED" => session.should_stop

LEMMA StopSession == PlacesTrue /\ TypesTrue /\ StopTrue /\ SessionThread =>
                         StopTrue' /\ session'.should_stop = session.should_stop
<1> SUFFICES ASSUME PlacesTrue, TypesTrue, StopTrue, SessionThread
             PROVE  StopTrue' /\ session'.should_stop = session.should_stop
  OBVIOUS
<1>1. session \in SessionRecords
  BY DEF TypesTrue
<1>2. ASSUME NEW reason, session' = [session EXCEPT !.quit_reason = reason],
             reason = "STOPPED" => session.should_stop, UNCHANGED <<stop_pipe, sres>>
      PROVE  StopTrue' /\ session'.should_stop = session.should_stop
  <2>1. session'.quit_reason = reason /\ session'.should_stop = session.should_stop
    BY <1>1, <1>2 DEF SessionRecords
  <2> QED
    BY <1>2, <2>1 DEF StopTrue
<1> USE DEF Quit
<1>3. CASE UNCHANGED <<session, stop_pipe, sres>>
  BY <1>3 DEF StopTrue
<1>4. CASE SessionBegin \/ SessionConnected \/ SessionAnswered
  <2>1. UNCHANGED <<stop_pipe, sres>>
    BY <1>4, RequestEffect
  <2>2. \/ session' = session
        \/ \E r : /\ session' = [session EXCEPT !.quit_reason = r]
                  /\ r = "STOPPED" => session.should_stop
    BY <1>4, RequestEffect DEF StopTrue
  <2> QED
    BY <1>2, <1>3, <2>1, <2>2
<1>5. CASE SessionConnectReturns \/ SessionAnswerReturns
  <2>1. /\ UNCHANGED <<session, stop_pipe>>
        /\ \/ sres' \in {"success", "refused", "error"} \cup SessionAnswers
           \/ /\ sres' = "canceled"
              /\ stop_pipe
    BY <1>5 DEF SessionConnectReturns, SessionAnswerReturns, SessionWaits
  <2> QED
    BY <2>1, SessionAssumption DEF StopTrue
<1>8. CASE SessionCtrlReady
  <2>1. UNCHANGED <<stop_pipe, sres>>
    BY <1>8 DEF SessionCtrlReady
  <2>2. \/ session' = session
        \/ \E reason : /\ session' = [session EXCEPT !.quit_reason = reason]
                       /\ reason = "STOPPED" => session.should_stop
        \/ session' = [session EXCEPT !.ctrl_login_pin_requested = FALSE]
    BY <1>8 DEF SessionCtrlReady, GiveUp, AskForPin, StopTrue
  <2>3. CASE session' = [session EXCEPT !.ctrl_login_pin_requested = FALSE]
    <3>1. session'.quit_reason = session.quit_reason
          /\ session'.should_stop = session.should_stop
      BY <1>1, <2>3 DEF SessionRecords
    <3> QED
      BY <2>1, <3>1 DEF StopTrue
  <2> QED
    BY <1>2, <1>3, <2>1, <2>2, <2>3
<1>9. CASE SessionPinEntered
  <2>1. UNCHANGED <<stop_pipe, sres>>
    BY <1>9 DEF SessionPinEntered
  <2>2. \/ session' = session
        \/ \E reason : /\ session' = [session EXCEPT !.quit_reason = reason]
                       /\ reason = "STOPPED" => session.should_stop
    BY <1>9 DEF SessionPinEntered, GiveUp, StopTrue
  <2> QED
    BY <1>2, <1>3, <2>1, <2>2
<1>10. CASE SessionForwardPin
  <2>1. session' = [session EXCEPT !.login_pin = NoPin] /\ UNCHANGED <<stop_pipe, sres>>
    BY <1>10 DEF SessionForwardPin
  <2>2. session'.quit_reason = session.quit_reason
        /\ session'.should_stop = session.should_stop
    BY <1>1, <2>1 DEF SessionRecords
  <2> QED
    BY <2>1, <2>2 DEF StopTrue
<1>11. CASE SessionStreamReturns
  BY <1>11 DEF SessionStreamReturns, StopTrue
<1>12. CASE SessionStreamed
  BY <1>2, <1>12 DEF SessionStreamed, StopTrue
<1>13. CASE SessionStartCtrl \/ SessionSenkusha \/ SessionStopCtrl \/ SessionJoinCtrl \/ SessionQuit
  BY <1>3, <1>13 DEF SessionStartCtrl, SessionSenkusha, SessionStopCtrl, SessionJoinCtrl,
                     SessionQuit
<1> QED
  BY <1>4, <1>5, <1>8, <1>9, <1>10, <1>11, <1>12, <1>13 DEF SessionThread

LEMMA StopCtrl == PlacesTrue /\ TypesTrue /\ StopTrue /\ CtrlThread /\ UNCHANGED local =>
                      StopTrue' /\ session'.should_stop = session.should_stop
<1> SUFFICES ASSUME PlacesTrue, TypesTrue, StopTrue, CtrlThread, UNCHANGED local
             PROVE  StopTrue' /\ session'.should_stop = session.should_stop
  OBVIOUS
<1>1. session \in SessionRecords /\ UNCHANGED <<stop_pipe, sres>>
  BY DEF TypesTrue, local
<1>2. CASE session' = session
  BY <1>1, <1>2 DEF StopTrue
<1>3. CASE CtrlFailed
  <2>1. Head(cres) \in QuitReasons \ {"STOPPED"}
    BY <1>3 DEF CtrlFailed, PlacesTrue, CarriedTrue, Failures, QuitReasons
  <2>2. session'.quit_reason = Head(cres) /\ session'.should_stop = session.should_stop
    BY <1>1, <1>3 DEF CtrlFailed, SessionRecords
  <2> QED
    BY <1>1, <2>1, <2>2 DEF StopTrue
<1>4. CASE CtrlMessage
  <2>1. recv_buf \in Seq(ConsoleMsgs) /\ recv_buf # <<>>
    BY <1>4 DEF CtrlMessage, TypesTrue, CtrlTypesTrue, CtrlTypeOK
  <2>2. Head(recv_buf) \in ConsoleMsgs
    BY <2>1
  <2> DEFINE m == Head(recv_buf)
  <2>3. m \in {"SESSION_ID", "HEARTBEAT_REQ", "LOGIN_PIN_REQ", "LOGIN_SUCCESS",
               "LOGIN_PIN_INCORRECT", "KEYBOARD", "TOO_LONG"}
    BY <2>2, CtrlAssumption
  <2>4. \/ session' = session
        \/ session' = [session EXCEPT !.ctrl_session_id_received = TRUE]
        \/ session' = [session EXCEPT !.ctrl_login_pin_requested = TRUE]
    BY <1>4, <2>3 DEF CtrlMessage
  <2>5. session'.quit_reason = session.quit_reason
        /\ session'.should_stop = session.should_stop
    BY <1>1, <2>4 DEF SessionRecords
  <2> QED
    BY <1>1, <2>5 DEF StopTrue
<1> QED
  BY <1>2, <1>3, <1>4
     DEF CtrlThread, CtrlConnect, CtrlConnectReturns, CtrlConnected, CtrlResponse, CtrlSelect,
         CtrlSelectReturns, CtrlNotified, CtrlReceive, CtrlSelectFailed

LEMMA StopStep == PlacesTrue /\ TypesTrue /\ StopTrue /\ [Next]_vars =>
                      StopTrue' /\ (session.should_stop => session'.should_stop)
<1> SUFFICES ASSUME PlacesTrue, TypesTrue, StopTrue, [Next]_vars
             PROVE  StopTrue' /\ (session.should_stop => session'.should_stop)
  OBVIOUS
<1>1. session \in SessionRecords
  BY DEF TypesTrue
<1>2. CASE SessionStop
  <2>1. session'.should_stop = TRUE
    BY <1>1, <1>2 DEF SessionStop, SessionRecords
  <2> QED
    BY <2>1 DEF StopTrue
<1>3. CASE SessionSetLoginPin
  <2>1. session'.quit_reason = session.quit_reason /\ session'.should_stop = session.should_stop
    BY <1>1, <1>3 DEF SessionSetLoginPin, SessionRecords
  <2> QED
    BY <1>3, <2>1 DEF SessionSetLoginPin, StopTrue
<1>4. CASE UNCHANGED <<session, stop_pipe, sres>>
  BY <1>4 DEF StopTrue
<1>5. ASSUME NEW u \in Callers, PostMessage(u) \/ SignalMessage(u), UNCHANGED local
      PROVE  UNCHANGED <<session, stop_pipe, sres>>
  BY <1>5 DEF PostMessage, SignalMessage, local
<1>6. CASE Console
  BY <1>4, <1>6 DEF Console, ConsoleClose, ConsoleSend, local
<1>7. CASE UNCHANGED vars
  BY <1>4, <1>7 DEF vars, sessionVars
<1> QED
  BY <1>2, <1>3, <1>4, <1>5, <1>6, <1>7, StopSession, StopCtrl DEF Next, Application, Pending

-----------------------------------------------------------------------------
(* Events                                                                  *)

Events ==
    [type : {"LOGIN_PIN_REQUEST"}, pin_incorrect : BOOLEAN] \cup [type : {"KEYBOARD"}]
    \cup [type : {"QUIT"}, reason : QuitReasons]

EventsTrue ==
    /\ pin_incorrect \in BOOLEAN
    /\ events \in Seq(Events)
    /\ \A i \in 1 .. Len(events) : events[i].type = "QUIT" =>
          /\ spc = "done" /\ i = Len(events)
          /\ events[i].reason = "STOPPED" => session.should_stop

(* An event before the end leaves no QUIT behind. *)
LEMMA EventsAppend ==
    ASSUME EventsTrue, spc # "done", pin_incorrect' \in BOOLEAN,
           NEW e \in Events, events' = Append(events, e),
           e.type = "QUIT" => spc' = "done" /\ (e.reason = "STOPPED" => session'.should_stop)
    PROVE  EventsTrue'
<1>1. events \in Seq(Events) /\ \A i \in 1 .. Len(events) : events[i].type # "QUIT"
  BY DEF EventsTrue
<1>2. /\ events' \in Seq(Events) /\ Len(events') = Len(events) + 1
      /\ events'[Len(events) + 1] = e
      /\ \A i \in 1 .. Len(events) : events'[i] = events[i]
      /\ Len(events) \in Nat
  BY <1>1
<1>3. ASSUME NEW i \in 1 .. Len(events'), events'[i].type = "QUIT" PROVE i = Len(events')
  BY <1>1, <1>2, <1>3
<1> QED
  BY <1>2, <1>3 DEF EventsTrue

LEMMA EventsStep ==
    PlacesTrue /\ TypesTrue /\ StopTrue /\ EventsTrue /\ [Next]_vars => EventsTrue'
<1> SUFFICES ASSUME PlacesTrue, TypesTrue, StopTrue, EventsTrue, [Next]_vars PROVE EventsTrue'
  OBVIOUS
<1>1. session.should_stop => session'.should_stop
  BY StopStep
<1>2. CASE UNCHANGED <<events, pin_incorrect>> /\ (spc = "done" => spc' = "done")
  BY <1>1, <1>2 DEF EventsTrue
<1>3. CASE SessionCtrlReady
  <2>1. CASE UNCHANGED <<events, pin_incorrect>>
    BY <1>2, <1>3, <2>1 DEF SessionCtrlReady
  <2>2. CASE AskForPin
    <3> DEFINE e == [type |-> "LOGIN_PIN_REQUEST", pin_incorrect |-> pin_incorrect]
    <3>1. e \in Events /\ e.type # "QUIT"
      BY DEF Events, EventsTrue
    <3>2. spc # "done" /\ events' = Append(events, e) /\ pin_incorrect' \in BOOLEAN
      BY <1>3, <2>2 DEF SessionCtrlReady, AskForPin
    <3> HIDE DEF e
    <3> QED
      BY <3>1, <3>2, EventsAppend
  <2> QED
    BY <1>3, <2>1, <2>2 DEF SessionCtrlReady
<1>4. CASE SessionQuit
  <2> DEFINE e == [type |-> "QUIT", reason |-> session.quit_reason]
  <2>1. session.quit_reason \in QuitReasons
    BY DEF TypesTrue, SessionRecords
  <2>2. e \in Events /\ e.reason = session.quit_reason
    BY <2>1 DEF Events
  <2>3. /\ spc = "quit" /\ spc' = "done" /\ events' = Append(events, e)
        /\ UNCHANGED <<session, pin_incorrect>>
    BY <1>4 DEF SessionQuit
  <2>4. e.reason = "STOPPED" => session'.should_stop
    BY <2>2, <2>3 DEF StopTrue
  <2> HIDE DEF e
  <2> QED
    BY <2>2, <2>3, <2>4, EventsAppend DEF EventsTrue
<1>5. ASSUME CtrlMessage, UNCHANGED local PROVE EventsTrue'
  <2>1. recv_buf \in Seq(ConsoleMsgs) /\ recv_buf # <<>>
    BY <1>5 DEF CtrlMessage, TypesTrue, CtrlTypesTrue, CtrlTypeOK
  <2>2. Head(recv_buf) \in ConsoleMsgs
    BY <2>1
  <2> DEFINE m == Head(recv_buf)
             e == [type |-> "KEYBOARD"]
  <2>3. m \in {"SESSION_ID", "HEARTBEAT_REQ", "LOGIN_PIN_REQ", "LOGIN_SUCCESS",
               "LOGIN_PIN_INCORRECT", "KEYBOARD", "TOO_LONG"}
    BY <2>2, CtrlAssumption
  <2>4. events' = events \/ events' = Append(events, e)
    BY <1>5, <2>3 DEF CtrlMessage
  <2>5. e \in Events /\ e.type # "QUIT"
    BY DEF Events
  <2>6. cpc = "messages" /\ UNCHANGED <<spc, pin_incorrect>>
    BY <1>5 DEF CtrlMessage, local
  <2>7. spc # "done"
    BY <2>6 DEF PlacesTrue, ThreadsTrue
  <2> HIDE DEF e
  <2> QED
    BY <1>2, <2>4, <2>5, <2>6, <2>7, EventsAppend DEF EventsTrue
<1>6. ASSUME SessionThread, ~SessionCtrlReady, ~SessionQuit PROVE EventsTrue'
  BY <1>2, <1>6
     DEF SessionThread, SessionBegin, SessionConnectReturns, SessionConnected,
         SessionAnswerReturns, SessionAnswered, SessionWaits, SessionStartCtrl,
         SessionPinEntered, SessionForwardPin, SessionSenkusha, SessionStreamReturns,
         SessionStreamed, SessionStopCtrl, SessionJoinCtrl
<1>7. ASSUME CtrlThread, ~CtrlMessage, UNCHANGED local PROVE EventsTrue'
  BY <1>2, <1>7
     DEF CtrlThread, CtrlConnect, CtrlConnectReturns, CtrlConnected, CtrlResponse, CtrlFailed,
         CtrlUnchanged, CtrlSelect, CtrlSelectReturns, CtrlNotified, CtrlReceive,
         CtrlSelectFailed, local
<1>8. ASSUME NEW u \in Callers, PostMessage(u) \/ SignalMessage(u), UNCHANGED local
      PROVE  EventsTrue'
  BY <1>2, <1>8 DEF PostMessage, SignalMessage, local
<1>9. CASE SessionStop \/ SessionSetLoginPin
  BY <1>2, <1>9 DEF SessionStop, SessionSetLoginPin
<1>10. CASE Console
  BY <1>2, <1>10 DEF Console, ConsoleClose, ConsoleSend, local
<1>11. CASE UNCHANGED vars
  BY <1>2, <1>11 DEF vars, sessionVars
<1> QED
  BY <1>3, <1>4, <1>5, <1>6, <1>7, <1>8, <1>9, <1>10, <1>11 DEF Next, Application, Pending

-----------------------------------------------------------------------------
(* What the Ctrl thread sends                                              *)

Sendable == (Callers \cup {"pin"}) \X Nat

(* What the callers and the session thread had sent, and what is queued.   *)
All == wire \o ctrl.msg_queue

WireTrue == wire \in Seq(Sendable) /\ MessagesInOrder

LEMMA AllShape ==
    ASSUME TypesTrue, wire \in Seq(Sendable)
    PROVE  /\ ctrl.msg_queue \in Seq(Sendable) /\ All \in Seq(Sendable)
           /\ Len(wire) \in Nat /\ Len(ctrl.msg_queue) \in Nat
           /\ Len(All) = Len(wire) + Len(ctrl.msg_queue)
           /\ \A i \in 1 .. Len(wire) : All[i] = wire[i]
           /\ \A i \in 1 .. Len(ctrl.msg_queue) : All[Len(wire) + i] = ctrl.msg_queue[i]
<1>1. ctrl.msg_queue \in Seq(Msgs)
  BY DEF TypesTrue, CtrlTypesTrue, CtrlRecords
<1>2. Msgs \subseteq Sendable
  BY CtrlAssumption DEF Msgs, Sendable
<1> DEFINE q == ctrl.msg_queue
<1>3. q \in Seq(Sendable)
  BY <1>1, <1>2
<1> HIDE DEF q
<1>4. /\ wire \o q \in Seq(Sendable)
      /\ Len(wire \o q) = Len(wire) + Len(q)
      /\ \A i \in 1 .. Len(wire) : (wire \o q)[i] = wire[i]
      /\ \A i \in 1 .. Len(q) : (wire \o q)[Len(wire) + i] = q[i]
      /\ Len(wire) \in Nat /\ Len(q) \in Nat
  BY <1>3, ConcatProperties
<1> QED
  BY <1>3, <1>4 DEF q, All

(* The order is kept when nothing, a PIN or a caller's next message comes  *)
(* at the end.                                                             *)
LEMMA OrderGrows ==
    ASSUME MessagesInOrder, calls \in [Callers -> [posted : 0 .. MaxPosts, due : BOOLEAN]],
           Len(All) \in Nat, Len(All') \in {Len(All), Len(All) + 1},
           \A i \in 1 .. Len(All) : All'[i] = All[i],
           \/ /\ \A u \in Callers : calls'[u].posted = calls[u].posted
              /\ Len(All') # Len(All) => All'[Len(All')][1] = "pin"
           \/ \E u \in Callers :
                 /\ Len(All') = Len(All) + 1
                 /\ All'[Len(All')] = <<u, calls[u].posted + 1>>
                 /\ calls'[u].posted = calls[u].posted + 1
                 /\ \A v \in Callers \ {u} : calls'[v].posted = calls[v].posted
    PROVE  MessagesInOrder'
<1> DEFINE n == Len(All)
           n2 == Len(All')
           Of(u) == {i \in 1 .. n : All[i][1] = u}
           Of2(u) == {i \in 1 .. n2 : All'[i][1] = u}
           Good(u) == /\ \A i \in Of(u) : All[i][2] \in 1 .. calls[u].posted
                      /\ \A k \in 1 .. calls[u].posted : \E i \in Of(u) : All[i][2] = k
                      /\ \A i, j \in Of(u) : i < j => All[i][2] < All[j][2]
           Good2(u) == /\ \A i \in Of2(u) : All'[i][2] \in 1 .. calls'[u].posted
                       /\ \A k \in 1 .. calls'[u].posted : \E i \in Of2(u) : All'[i][2] = k
                       /\ \A i, j \in Of2(u) : i < j => All'[i][2] < All'[j][2]
<1>1. \A u \in Callers : Good(u)
  BY DEF MessagesInOrder, All
<1>2. SUFFICES ASSUME NEW u \in Callers PROVE Good2(u)
  BY DEF MessagesInOrder, All
<1>3. n \in Nat /\ n2 \in {n, n + 1} /\ \A i \in 1 .. n : All'[i] = All[i]
  OBVIOUS
<1>4. calls[u].posted \in Nat
  BY CtrlAssumption
<1>5. CASE /\ calls'[u].posted = calls[u].posted
           /\ n2 # n => All'[n2][1] # u
  <2>1. Of2(u) = Of(u)
    BY <1>3, <1>5
  <2>2. \A i \in Of(u) : All'[i] = All[i]
    BY <1>3
  <2>3. Good(u)
    BY <1>1
  <2> HIDE DEF Of, Of2
  <2>4. \A i \in Of2(u) : All'[i] = All[i]
    BY <2>1, <2>2
  <2>5. \A i \in Of2(u) : All'[i][2] \in 1 .. calls'[u].posted
    BY <1>5, <2>1, <2>3, <2>4
  <2>6. ASSUME NEW k \in 1 .. calls'[u].posted PROVE \E i \in Of2(u) : All'[i][2] = k
    <3>1. PICK i \in Of(u) : All[i][2] = k
      BY <1>5, <2>3
    <3> QED
      BY <2>1, <2>4, <3>1
  <2>7. \A i, j \in Of2(u) : i < j => All'[i][2] < All'[j][2]
    BY <2>1, <2>3, <2>4
  <2> QED
    BY <2>5, <2>6, <2>7
<1>6. CASE /\ n2 = n + 1 /\ All'[n2] = <<u, calls[u].posted + 1>>
           /\ calls'[u].posted = calls[u].posted + 1
  <2> DEFINE p == calls[u].posted
  <2>1. Of2(u) = Of(u) \cup {n + 1}
    BY <1>3, <1>6
  <2>2. \A i \in Of(u) : All'[i][2] = All[i][2] /\ i < n + 1
    BY <1>3
  <2>3. All'[n + 1][2] = p + 1 /\ calls'[u].posted = p + 1 /\ p \in Nat
    BY <1>4, <1>6
  <2>4. /\ \A i \in Of(u) : All[i][2] \in 1 .. p
        /\ \A k \in 1 .. p : \E i \in Of(u) : All[i][2] = k
        /\ \A i, j \in Of(u) : i < j => All[i][2] < All[j][2]
    BY <1>1
  <2>5. \A i \in Of(u) : i \in 1 .. n
    OBVIOUS
  <2> HIDE DEF Of, Of2, p
  <2>6. ASSUME NEW i \in Of2(u) PROVE All'[i][2] \in 1 .. p + 1
    <3>1. CASE i = n + 1
      BY <2>3, <3>1
    <3>2. CASE i \in Of(u)
      <4>1. All[i][2] \in 1 .. p /\ All'[i][2] = All[i][2]
        BY <2>2, <2>4, <3>2
      <4> QED
        BY <2>3, <4>1
    <3> QED
      BY <2>1, <3>1, <3>2
  <2>7. ASSUME NEW k \in 1 .. p + 1 PROVE \E i \in Of2(u) : All'[i][2] = k
    <3>1. CASE k = p + 1
      BY <2>1, <2>3, <3>1
    <3>2. CASE k \in 1 .. p
      BY <2>1, <2>2, <2>4, <3>2
    <3> QED
      BY <2>3, <3>1, <3>2
  <2>8. ASSUME NEW i \in Of2(u), NEW j \in Of2(u), i < j PROVE All'[i][2] < All'[j][2]
    <3>1. CASE j = n + 1
      <4>1. i \in Of(u)
        BY <1>3, <2>1, <2>8, <3>1
      <4> QED
        BY <2>2, <2>3, <2>4, <3>1, <4>1
    <3>2. CASE j \in Of(u)
      <4>1. i \in Of(u)
        BY <1>3, <2>1, <2>5, <2>8, <3>2
      <4> QED
        BY <2>2, <2>4, <2>8, <3>2, <4>1
    <3> QED
      BY <2>1, <3>1, <3>2
  <2> QED
    BY <2>3, <2>6, <2>7, <2>8
<1> QED
  BY <1>3, <1>5, <1>6, CtrlAssumption

(* 1 if Ctrl has a PIN to send. *)
Holds == IF ctrl.login_pin # NoPin THEN 1 ELSE 0

(* What was queued is sent, and then the PIN. *)
LEMMA NotifiedWire ==
    ASSUME TypesTrue, wire \in Seq(Sendable), CtrlNotified
    PROVE  /\ wire' \in Seq(Sendable) /\ Len(wire') = Len(All) + Holds
           /\ \A i \in 1 .. Len(All) : wire'[i] = All[i]
           /\ Holds = 1 => wire'[Len(wire')] = <<"pin", ctrl.login_pin>>
           /\ All' = wire' /\ calls' = calls
           /\ ctrl'.login_pin = NoPin
<1> DEFINE q == ctrl.msg_queue
           x == <<"pin", ctrl.login_pin>>
           p == IF ctrl.login_pin # NoPin THEN <<x>> ELSE <<>>
           w == wire \o q
<1>1. ctrl \in CtrlRecords
  BY DEF TypesTrue, CtrlTypesTrue
<1>2. /\ wire' = w \o p /\ ctrl' = [ctrl EXCEPT !.msg_queue = <<>>, !.login_pin = NoPin]
      /\ calls' = calls
  BY DEF CtrlNotified
<1>3. ctrl'.msg_queue = <<>> /\ ctrl'.login_pin = NoPin
  BY <1>1, <1>2 DEF CtrlRecords
<1>4. w = All /\ w \in Seq(Sendable) /\ Len(w) \in Nat
  BY AllShape DEF All
<1>5. x \in Sendable
  BY <1>1 DEF CtrlRecords, Sendable
<1>6. p \in Seq(Sendable) /\ Len(p) = Holds /\ (Holds = 1 => p[1] = x)
  <2> HIDE DEF x
  <2>1. CASE ctrl.login_pin # NoPin
    <3>1. p = <<x>>
      BY <2>1
    <3> HIDE DEF p
    <3> QED
      BY <1>5, <2>1, <3>1 DEF Holds
  <2>2. CASE ctrl.login_pin = NoPin
    BY <2>2 DEF Holds
  <2> QED
    BY <2>1, <2>2
<1> HIDE DEF w, p
<1>7. /\ wire' \in Seq(Sendable) /\ Len(wire') = Len(w) + Len(p)
      /\ \A i \in 1 .. Len(w) : wire'[i] = w[i]
      /\ \A i \in 1 .. Len(p) : wire'[Len(w) + i] = p[i]
  <2>1. /\ w \o p \in Seq(Sendable) /\ Len(w \o p) = Len(w) + Len(p)
        /\ \A i \in 1 .. Len(w) : (w \o p)[i] = w[i]
        /\ \A i \in 1 .. Len(p) : (w \o p)[Len(w) + i] = p[i]
    <3>1. w \in Seq(Sendable) /\ p \in Seq(Sendable)
      BY <1>4, <1>6
    <3> QED
      BY <3>1, ConcatProperties
  <2> QED
    BY <1>2, <2>1
<1>8. All' = wire'
  BY <1>3, <1>7, ConcatEmptySeq DEF All
<1>9. Holds = 1 => wire'[Len(wire')] = x
  BY <1>4, <1>6, <1>7
<1> QED
  BY <1>2, <1>3, <1>4, <1>6, <1>7, <1>8, <1>9

LEMMA WireStep == TypesTrue /\ WireTrue /\ [Next]_vars => WireTrue'
<1> SUFFICES ASSUME TypesTrue, WireTrue, [Next]_vars PROVE WireTrue'
  OBVIOUS
<1>1. ctrl \in CtrlRecords /\ calls \in [Callers -> [posted : 0 .. MaxPosts, due : BOOLEAN]]
  BY DEF TypesTrue, CtrlTypesTrue, CtrlTypeOK
<1>2. wire \in Seq(Sendable) /\ MessagesInOrder
  BY DEF WireTrue
<1>3. CASE /\ wire' = wire /\ ctrl'.msg_queue = ctrl.msg_queue
           /\ \A u \in Callers : calls'[u].posted = calls[u].posted
  BY <1>2, <1>3 DEF WireTrue, MessagesInOrder
<1>4. CASE UNCHANGED ctrlVars
  BY <1>3, <1>4 DEF ctrlVars
<1>5. CASE wire' = wire /\ calls' = calls /\ ctrl' = ctrl
  BY <1>3, <1>5
<1>6. ASSUME SessionThread PROVE WireTrue'
  <2>1. wire' = wire /\ calls' = calls
    BY <1>6 DEF SessionThread, SessionBegin, SessionConnectReturns, SessionConnected,
         SessionAnswerReturns, SessionAnswered, SessionWaits, SessionStartCtrl,
         SessionPinEntered, SessionForwardPin, SessionSenkusha, SessionStreamReturns,
         SessionStreamed, SessionStopCtrl, SessionJoinCtrl, SessionCtrlReady, SessionQuit,
         ctrlVars
  <2>2. \/ ctrl' = ctrl
        \/ ctrl' = [ctrl EXCEPT !.should_stop = TRUE]
        \/ ctrl' = [ctrl EXCEPT !.login_pin = session.login_pin]
    BY <1>6 DEF SessionThread, SessionBegin, SessionConnectReturns, SessionConnected,
         SessionAnswerReturns, SessionAnswered, SessionWaits, SessionStartCtrl,
         SessionPinEntered, SessionForwardPin, SessionSenkusha, SessionStreamReturns,
         SessionStreamed, SessionStopCtrl, SessionJoinCtrl, SessionCtrlReady, SessionQuit,
         ctrlVars, CtrlSetLoginPin, CtrlStop
  <2>3. ctrl'.msg_queue = ctrl.msg_queue
    BY <1>1, <2>2 DEF CtrlRecords
  <2> QED
    BY <1>3, <2>1, <2>3
<1>7. CASE CtrlMessage
  <2>1. recv_buf \in Seq(ConsoleMsgs) /\ recv_buf # <<>>
    BY <1>7 DEF CtrlMessage, TypesTrue, CtrlTypesTrue, CtrlTypeOK
  <2>2. Head(recv_buf) \in ConsoleMsgs
    BY <2>1
  <2>3. Head(recv_buf) \in {"SESSION_ID", "HEARTBEAT_REQ", "LOGIN_PIN_REQ", "LOGIN_SUCCESS",
               "LOGIN_PIN_INCORRECT", "KEYBOARD", "TOO_LONG"}
    BY <2>2, CtrlAssumption
  <2>4. \/ ctrl' = ctrl
        \/ ctrl' = [ctrl EXCEPT !.login_pin_requested = TRUE]
        \/ ctrl' = [ctrl EXCEPT !.login_pin_requested = FALSE]
    BY <1>7, <2>3 DEF CtrlMessage
  <2>5. ctrl'.msg_queue = ctrl.msg_queue
    BY <1>1, <2>4 DEF CtrlRecords
  <2> QED
    BY <1>3, <1>7, <2>5 DEF CtrlMessage
<1>8. CASE CtrlNotified
  <2>1. /\ wire' \in Seq(Sendable) /\ Len(wire') = Len(All) + Holds
        /\ \A i \in 1 .. Len(All) : wire'[i] = All[i]
        /\ Holds = 1 => wire'[Len(wire')] = <<"pin", ctrl.login_pin>>
        /\ All' = wire' /\ calls' = calls
    BY <1>2, <1>8, NotifiedWire
  <2>2. Len(All) \in Nat
    BY <1>2, AllShape
  <2>3. /\ Len(All') \in {Len(All), Len(All) + 1}
        /\ \A i \in 1 .. Len(All) : All'[i] = All[i]
        /\ Len(All') # Len(All) => All'[Len(All')][1] = "pin"
    BY <2>1, <2>2 DEF Holds
  <2>4. MessagesInOrder'
    BY <1>1, <1>2, <2>1, <2>2, <2>3, OrderGrows
  <2> QED
    BY <2>1, <2>4 DEF WireTrue
<1>9. ASSUME CtrlThread, ~CtrlMessage, ~CtrlNotified PROVE WireTrue'
  BY <1>5, <1>9
     DEF CtrlThread, CtrlConnect, CtrlConnectReturns, CtrlConnected, CtrlResponse, CtrlFailed,
         CtrlUnchanged, CtrlSelect, CtrlSelectReturns, CtrlReceive, CtrlSelectFailed
<1>10. ASSUME NEW u \in Callers, PostMessage(u) PROVE WireTrue'
  <2> DEFINE q == ctrl.msg_queue
             x == <<u, calls[u].posted + 1>>
  <2>1. /\ ctrl' = [ctrl EXCEPT !.msg_queue = Append(q, x)] /\ wire' = wire
        /\ calls' = [calls EXCEPT ![u] = [posted |-> calls[u].posted + 1, due |-> TRUE]]
    BY <1>10 DEF PostMessage
  <2>2. ctrl'.msg_queue = Append(q, x)
    BY <1>1, <2>1 DEF CtrlRecords
  <2>3. calls[u].posted \in Nat
    BY <1>1, CtrlAssumption
  <2>4. x \in Sendable
    BY <2>3 DEF Sendable
  <2>5. /\ q \in Seq(Sendable) /\ Len(wire) \in Nat /\ Len(q) \in Nat
        /\ Len(All) = Len(wire) + Len(q) /\ Len(All) \in Nat
        /\ \A i \in 1 .. Len(wire) : All[i] = wire[i]
        /\ \A i \in 1 .. Len(q) : All[Len(wire) + i] = q[i]
    BY <1>2, AllShape
  <2> DEFINE q2 == Append(q, x)
  <2> HIDE DEF x, q
  <2>6. /\ q2 \in Seq(Sendable) /\ Len(q2) = Len(q) + 1 /\ q2[Len(q) + 1] = x
        /\ \A i \in 1 .. Len(q) : q2[i] = q[i]
    BY <2>4, <2>5
  <2>7. All' = wire \o q2
    BY <2>1, <2>2 DEF All
  <2> HIDE DEF q2
  <2>8. /\ Len(All') = Len(wire) + Len(q2)
        /\ \A i \in 1 .. Len(wire) : All'[i] = wire[i]
        /\ \A i \in 1 .. Len(q2) : All'[Len(wire) + i] = q2[i]
    <3>1. wire \in Seq(Sendable) /\ q2 \in Seq(Sendable)
      BY <1>2, <2>6
    <3>2. /\ Len(wire \o q2) = Len(wire) + Len(q2)
          /\ \A i \in 1 .. Len(wire) : (wire \o q2)[i] = wire[i]
          /\ \A i \in 1 .. Len(q2) : (wire \o q2)[Len(wire) + i] = q2[i]
      BY <3>1, ConcatProperties
    <3> QED
      BY <2>7, <3>2
  <2>9. Len(All') = Len(All) + 1 /\ All'[Len(All')] = x
    BY <2>5, <2>6, <2>8
  <2>10. ASSUME NEW i \in 1 .. Len(All) PROVE All'[i] = All[i]
    <3>1. CASE i \in 1 .. Len(wire)
      BY <2>5, <2>8, <3>1
    <3>2. CASE i \notin 1 .. Len(wire)
      <4>1. i - Len(wire) \in 1 .. Len(q) /\ i = Len(wire) + (i - Len(wire))
        BY <2>5, <3>2
      <4>2. i - Len(wire) \in 1 .. Len(q2)
        BY <2>5, <2>6, <4>1
      <4>3. All[i] = q[i - Len(wire)] /\ All'[i] = q2[i - Len(wire)]
        BY <2>5, <2>8, <4>1, <4>2
      <4> QED
        BY <2>6, <4>1, <4>3
    <3> QED
      BY <3>1, <3>2
  <2>11. /\ calls'[u].posted = calls[u].posted + 1
         /\ \A v \in Callers \ {u} : calls'[v].posted = calls[v].posted
    BY <1>1, <2>1
  <2>12. MessagesInOrder'
    BY <1>1, <1>2, <2>5, <2>9, <2>10, <2>11, OrderGrows DEF x
  <2> QED
    BY <1>2, <2>1, <2>12 DEF WireTrue
<1>11. ASSUME NEW u \in Callers, SignalMessage(u) PROVE WireTrue'
  <2>1. \A v \in Callers : calls'[v].posted = calls[v].posted
    BY <1>1, <1>11 DEF SignalMessage
  <2> QED
    BY <1>3, <1>11, <2>1 DEF SignalMessage
<1>12. CASE SessionStop \/ SessionSetLoginPin
  BY <1>4, <1>12 DEF SessionStop, SessionSetLoginPin
<1>13. CASE Console
  BY <1>5, <1>13 DEF Console, ConsoleClose, ConsoleSend
<1>14. CASE UNCHANGED vars
  BY <1>4, <1>14 DEF vars
<1> QED
  BY <1>6, <1>7, <1>8, <1>9, <1>10, <1>11, <1>12, <1>13, <1>14 DEF Next, Application, Pending

-----------------------------------------------------------------------------
(* The PINs on their way                                                   *)

PinsSent == {i \in 1 .. Len(wire) : wire[i][1] = "pin"}
PinsAsked == {i \in 1 .. Len(events) : events[i].type = "LOGIN_PIN_REQUEST"}

(* 1 if the application was asked and its answer is not handed on. *)
Waits == IF spc \in {"await_pin", "forward_pin"} THEN 1 ELSE 0

(* Each request is answered by a PIN sent, a PIN Ctrl holds, or not yet.   *)
PinsCounted == Cardinality(PinsSent) + Holds + Waits <= Cardinality(PinsAsked)

(* From the wire to Ctrl to the session the PINs get newer. *)
Latest(pin) == pin # NoPin => \A i \in PinsSent : wire[i][2] < pin

PinsOrdered ==
    /\ ctrl.login_pin <= pins
    /\ session.login_pin <= pins
    /\ \A i \in PinsSent : wire[i][2] <= pins
    /\ \A i, j \in PinsSent : i < j => wire[i][2] < wire[j][2]
    /\ Latest(ctrl.login_pin)
    /\ Latest(session.login_pin)
    /\ ctrl.login_pin # NoPin /\ session.login_pin # NoPin => ctrl.login_pin < session.login_pin

PinsTrue == PinsCounted /\ PinsOrdered

PinFields == <<wire, pins, ctrl.login_pin, session.login_pin>>

LEMMA OrderedSame == ASSUME PinsOrdered, PinFields' = PinFields PROVE PinsOrdered'
<1>1. /\ wire' = wire /\ pins' = pins /\ ctrl'.login_pin = ctrl.login_pin
      /\ session'.login_pin = session.login_pin
  BY DEF PinFields
<1>2. PinsSent' = PinsSent
  BY <1>1 DEF PinsSent
<1> QED
  BY <1>1, <1>2 DEF PinsOrdered, Latest

LEMMA PinsFinite ==
    ASSUME wire \in Seq(Sendable), events \in Seq(Events)
    PROVE  /\ IsFiniteSet(PinsSent) /\ Cardinality(PinsSent) \in Nat
           /\ IsFiniteSet(PinsAsked) /\ Cardinality(PinsAsked) \in Nat
<1>1. Len(wire) \in Nat /\ Len(events) \in Nat
  OBVIOUS
<1>2. IsFiniteSet(1 .. Len(wire)) /\ IsFiniteSet(1 .. Len(events))
  BY <1>1, FS_Interval
<1>3. PinsSent \subseteq 1 .. Len(wire) /\ PinsAsked \subseteq 1 .. Len(events)
  BY DEF PinsSent, PinsAsked
<1> QED
  BY <1>2, <1>3, FS_Subset, FS_CardinalityType

(* No event but LOGIN_PIN_REQUEST changes what was asked. *)
LEMMA AskedGrows ==
    ASSUME events \in Seq(Events), NEW e \in Events, events' = Append(events, e)
    PROVE  PinsAsked' = IF e.type = "LOGIN_PIN_REQUEST" THEN PinsAsked \cup {Len(events) + 1}
                                                        ELSE PinsAsked
<1>1. /\ Len(events') = Len(events) + 1 /\ Len(events) \in Nat
      /\ events'[Len(events) + 1] = e
      /\ \A i \in 1 .. Len(events) : events'[i] = events[i]
  OBVIOUS
<1>2. 1 .. Len(events') = (1 .. Len(events)) \cup {Len(events) + 1}
  BY <1>1
<1> QED
  BY <1>1, <1>2 DEF PinsAsked

LEMMA PinsSession ==
    PlacesTrue /\ TypesTrue /\ WireTrue /\ EventsTrue /\ PinsTrue /\ SessionThread => PinsTrue'
<1> SUFFICES ASSUME PlacesTrue, TypesTrue, WireTrue, EventsTrue, PinsTrue, SessionThread
             PROVE  PinsTrue'
  OBVIOUS
<1>1. session \in SessionRecords /\ ctrl \in CtrlRecords /\ pins \in Nat /\ MaxPins \in Nat
  BY SessionAssumption DEF TypesTrue, CtrlTypesTrue
<1>2. /\ IsFiniteSet(PinsSent) /\ Cardinality(PinsSent) \in Nat
      /\ IsFiniteSet(PinsAsked) /\ Cardinality(PinsAsked) \in Nat
  BY PinsFinite DEF WireTrue, EventsTrue
<1>3. events \in Seq(Events) /\ Len(events) \in Nat /\ pin_incorrect \in BOOLEAN
  BY DEF EventsTrue
<1>4. PinsOrdered /\ PinsCounted
  BY DEF PinsTrue
<1>5. ASSUME NEW reason, session' = [session EXCEPT !.quit_reason = reason] \/ session' = session
      PROVE  session'.login_pin = session.login_pin
  BY <1>1, <1>5 DEF SessionRecords
<1>6. ASSUME PinFields' = PinFields, PinsAsked' = PinsAsked, Waits' <= Waits PROVE PinsTrue'
  <2>1. PinsSent' = PinsSent /\ Holds' = Holds
    BY <1>6 DEF PinFields, PinsSent, Holds
  <2>2. Waits \in Nat /\ Waits' \in Nat /\ Holds \in Nat
    BY DEF Waits, Holds
  <2> QED
    BY <1>2, <1>4, <1>6, <2>1, <2>2, OrderedSame DEF PinsTrue, PinsCounted
<1>7. CASE SessionCtrlReady
  <2>1. spc \in {"await_ctrl", "await_id"} /\ UNCHANGED <<wire, pins, ctrl>>
    BY <1>7 DEF SessionCtrlReady, ctrlVars
  <2>2. CASE AskForPin
    <3> DEFINE e == [type |-> "LOGIN_PIN_REQUEST", pin_incorrect |-> pin_incorrect]
    <3>1. e \in Events /\ e.type = "LOGIN_PIN_REQUEST"
      BY <1>3 DEF Events
    <3>2. events' = Append(events, e)
      BY <2>2 DEF AskForPin
    <3> HIDE DEF e
    <3>3. PinsAsked' = PinsAsked \cup {Len(events) + 1}
      BY <1>3, <3>1, <3>2, AskedGrows
    <3>4. Len(events) + 1 \notin PinsAsked
      BY <1>3 DEF PinsAsked
    <3>5. Cardinality(PinsAsked') = Cardinality(PinsAsked) + 1
      BY <1>2, <3>3, <3>4, FS_AddElement
    <3>6. session'.login_pin = session.login_pin
      BY <1>1, <2>2 DEF AskForPin, SessionRecords
    <3>7. PinFields' = PinFields /\ PinsSent' = PinsSent /\ Holds' = Holds
      BY <2>1, <3>6 DEF PinFields, PinsSent, Holds
    <3>8. Waits = 0 /\ Waits' = 1 /\ Holds \in Nat
      BY <2>1, <2>2 DEF AskForPin, Waits, Holds
    <3> QED
      BY <1>2, <1>4, <3>5, <3>7, <3>8, OrderedSame DEF PinsTrue, PinsCounted
  <2>3. CASE ~AskForPin
    <3>1. /\ events' = events /\ spc' \in {"stop_ctrl", "senkusha"}
          /\ session' = session \/ \E reason : session' = [session EXCEPT !.quit_reason = reason]
      BY <1>7, <2>3 DEF SessionCtrlReady, GiveUp, Quit
    <3>2. PinFields' = PinFields /\ PinsAsked' = PinsAsked /\ Waits' <= Waits
      BY <1>5, <2>1, <3>1 DEF PinFields, PinsAsked, Waits
    <3> QED
      BY <1>6, <3>2
  <2> QED
    BY <2>2, <2>3
<1>8. CASE SessionPinEntered
  <2>1. /\ spc = "await_pin" /\ UNCHANGED <<wire, pins, ctrl, events>>
        /\ session' = session \/ \E reason : session' = [session EXCEPT !.quit_reason = reason]
    BY <1>8 DEF SessionPinEntered, GiveUp, Quit, ctrlVars
  <2>2. PinFields' = PinFields /\ PinsAsked' = PinsAsked /\ Waits' <= Waits
    BY <1>5, <2>1 DEF PinFields, PinsAsked, Waits
  <2> QED
    BY <1>6, <2>2
<1>9. CASE SessionForwardPin
  <2>1. /\ ctrl' = [ctrl EXCEPT !.login_pin = session.login_pin]
        /\ session' = [session EXCEPT !.login_pin = NoPin]
        /\ spc = "forward_pin" /\ spc' = "await_id" /\ UNCHANGED <<wire, pins, events>>
    BY <1>9 DEF SessionForwardPin, CtrlSetLoginPin
  <2>2. ctrl'.login_pin = session.login_pin /\ session'.login_pin = NoPin
    BY <1>1, <2>1 DEF SessionRecords, CtrlRecords
  <2>3. PinsSent' = PinsSent /\ PinsAsked' = PinsAsked
    BY <2>1 DEF PinsSent, PinsAsked
  <2>4. Waits = 1 /\ Waits' = 0 /\ Holds \in {0, 1} /\ Holds' \in {0, 1}
    BY <2>1 DEF Waits, Holds
  <2>5. PinsCounted'
    BY <1>2, <1>4, <2>3, <2>4 DEF PinsCounted
  <2>6. PinsOrdered'
    BY <1>1, <1>4, <2>1, <2>2, <2>3 DEF PinsOrdered, Latest, NoPin
  <2> QED
    BY <2>5, <2>6 DEF PinsTrue
<1>10. CASE SessionQuit
  <2> DEFINE e == [type |-> "QUIT", reason |-> session.quit_reason]
  <2>1. session.quit_reason \in QuitReasons
    BY <1>1 DEF SessionRecords
  <2>2. e \in Events /\ e.type # "LOGIN_PIN_REQUEST"
    BY <2>1 DEF Events
  <2>3. /\ spc' = "done" /\ events' = Append(events, e) /\ UNCHANGED <<wire, pins, ctrl, session>>
    BY <1>10 DEF SessionQuit, ctrlVars
  <2> HIDE DEF e
  <2>4. PinsAsked' = PinsAsked
    BY <1>3, <2>2, <2>3, AskedGrows
  <2>5. PinFields' = PinFields /\ Waits' <= Waits
    BY <2>3 DEF PinFields, Waits
  <2> QED
    BY <1>6, <2>4, <2>5
<1>11. ASSUME ~SessionCtrlReady, ~SessionPinEntered, ~SessionForwardPin, ~SessionQuit
       PROVE  PinsTrue'
  <2>1. /\ UNCHANGED <<wire, pins, events>>
        /\ spc' \notin {"await_pin", "forward_pin"}
        /\ session' = session \/ \E reason : session' = [session EXCEPT !.quit_reason = reason]
        /\ ctrl' = ctrl \/ ctrl' = [ctrl EXCEPT !.should_stop = TRUE]
    BY <1>11
       DEF SessionThread, SessionBegin, SessionConnectReturns, SessionConnected,
           SessionAnswerReturns, SessionAnswered, SessionWaits, SessionStartCtrl,
           SessionSenkusha, SessionStreamReturns, SessionStreamed, SessionStopCtrl,
           SessionJoinCtrl, TryAddresses, Quit, CtrlStop, ctrlVars
  <2>2. ctrl'.login_pin = ctrl.login_pin
    BY <1>1, <2>1 DEF CtrlRecords
  <2>3. PinFields' = PinFields /\ PinsAsked' = PinsAsked /\ Waits' <= Waits
    BY <1>5, <2>1, <2>2 DEF PinFields, PinsAsked, Waits
  <2> QED
    BY <1>6, <2>3
<1> QED
  BY <1>7, <1>8, <1>9, <1>10, <1>11

(* The PIN sent follows all that were sent before. *)
LEMMA PinsNotified ==
    ASSUME PlacesTrue, TypesTrue, WireTrue, EventsTrue, PinsTrue, CtrlNotified, UNCHANGED local
    PROVE  PinsTrue'
<1>1. ctrl \in CtrlRecords /\ session \in SessionRecords /\ pins \in Nat /\ MaxPins \in Nat
  BY SessionAssumption DEF TypesTrue, CtrlTypesTrue
<1>2. wire \in Seq(Sendable) /\ PinsOrdered /\ PinsCounted
  BY DEF WireTrue, PinsTrue
<1>3. /\ wire' \in Seq(Sendable) /\ Len(wire') = Len(All) + Holds
      /\ \A i \in 1 .. Len(All) : wire'[i] = All[i]
      /\ Holds = 1 => wire'[Len(wire')] = <<"pin", ctrl.login_pin>>
      /\ ctrl'.login_pin = NoPin
  BY <1>2, NotifiedWire
<1>4. /\ Len(All) \in Nat /\ Len(wire) \in Nat /\ Len(ctrl.msg_queue) \in Nat
      /\ Len(All) = Len(wire) + Len(ctrl.msg_queue)
      /\ \A i \in 1 .. Len(wire) : All[i] = wire[i]
      /\ \A i \in 1 .. Len(ctrl.msg_queue) : All[Len(wire) + i] = ctrl.msg_queue[i]
  BY <1>2, AllShape
<1>5. UNCHANGED <<session, events, pins, spc>>
  BY DEF CtrlNotified, local
<1>6. ASSUME NEW i \in 1 .. Len(All), i \notin 1 .. Len(wire) PROVE All[i][1] # "pin"
  <2> DEFINE q == ctrl.msg_queue
             k == i - Len(wire)
  <2>1. k \in 1 .. Len(q) /\ i = Len(wire) + k
    BY <1>4, <1>6
  <2>2. q \in Seq(Msgs)
    BY <1>1 DEF CtrlRecords
  <2> HIDE DEF q, k
  <2>3. q[k] \in Msgs
    BY <2>1, <2>2
  <2>4. q[k][1] \in Callers
    BY <2>3 DEF Msgs
  <2> QED
    BY <1>4, <2>1, <2>4, CtrlAssumption DEF q
<1> DEFINE n == Len(wire')
<1>7. \A i \in PinsSent : i \in 1 .. Len(All) /\ wire'[i] = wire[i] /\ i < Len(All) + 1
  BY <1>3, <1>4 DEF PinsSent
<1>8. PinsSent' = IF Holds = 1 THEN PinsSent \cup {n} ELSE PinsSent
  <2>1. Holds \in {0, 1}
    BY DEF Holds
  <2>2. \A i \in 1 .. Len(All) : wire'[i][1] = "pin" <=> i \in PinsSent
    BY <1>3, <1>4, <1>6 DEF PinsSent
  <2>3. Holds = 1 => n = Len(All) + 1 /\ wire'[n][1] = "pin"
    BY <1>3
  <2>4. 1 .. n = (1 .. Len(All)) \cup (IF Holds = 1 THEN {n} ELSE {})
    BY <1>3, <1>4, <2>1
  <2>5. PinsSent' = {i \in 1 .. n : wire'[i][1] = "pin"}
    BY DEF PinsSent
  <2> QED
    BY <1>7, <2>2, <2>3, <2>4, <2>5
<1>9. Holds' = 0 /\ Waits' = Waits /\ Waits \in {0, 1} /\ PinsAsked' = PinsAsked
  BY <1>3, <1>5 DEF Holds, Waits, PinsAsked
<1>10. PinsCounted'
  <2>1. /\ IsFiniteSet(PinsSent) /\ Cardinality(PinsSent) \in Nat
        /\ IsFiniteSet(PinsAsked) /\ Cardinality(PinsAsked) \in Nat
    BY PinsFinite DEF WireTrue, EventsTrue
  <2>2. CASE Holds = 1
    <3>1. n \notin PinsSent
      BY <1>3, <1>4, <1>7, <2>2
    <3>2. Cardinality(PinsSent') = Cardinality(PinsSent) + 1
      BY <1>8, <2>1, <2>2, <3>1, FS_AddElement
    <3> QED
      BY <1>2, <1>9, <2>1, <2>2, <3>2 DEF PinsCounted
  <2>3. CASE Holds = 0
    BY <1>2, <1>8, <1>9, <2>1, <2>3 DEF PinsCounted
  <2> QED
    BY <2>2, <2>3 DEF Holds
<1>11. PinsOrdered'
  <2>1. CASE Holds = 1
    <3>1. /\ ctrl.login_pin # NoPin /\ wire'[n] = <<"pin", ctrl.login_pin>>
          /\ n = Len(All) + 1 /\ PinsSent' = PinsSent \cup {n}
          /\ wire'[n][2] = ctrl.login_pin
      BY <1>3, <1>8, <2>1 DEF Holds
    <3>2. /\ \A i \in PinsSent : wire'[i][2] = wire[i][2] /\ wire[i][2] < ctrl.login_pin
          /\ \A i \in PinsSent : wire[i][2] <= pins /\ i < n
      BY <1>2, <1>7, <3>1 DEF PinsOrdered, Latest
    <3>3. \A i \in PinsSent' : wire'[i][2] <= pins
      BY <1>2, <3>1, <3>2 DEF PinsOrdered
    <3>4. ASSUME NEW i \in PinsSent', NEW j \in PinsSent', i < j PROVE wire'[i][2] < wire'[j][2]
      <4>1. i \in PinsSent
        <5>1. PinsSent \subseteq Nat /\ n \in Nat
          BY <1>4, <3>1 DEF PinsSent
        <5>2. i # n
          BY <3>1, <3>2, <3>4, <5>1
        <5> QED
          BY <3>1, <5>2
      <4>2. CASE j = n
        BY <3>1, <3>2, <4>1, <4>2
      <4>3. CASE j \in PinsSent
        BY <1>2, <3>2, <3>4, <4>1, <4>3 DEF PinsOrdered
      <4> QED
        BY <3>1, <4>2, <4>3
    <3>5. session.login_pin # NoPin => \A i \in PinsSent' : wire'[i][2] < session.login_pin
      <4>1. ASSUME session.login_pin # NoPin PROVE ctrl.login_pin < session.login_pin
        BY <1>2, <3>1, <4>1 DEF PinsOrdered
      <4>2. ASSUME session.login_pin # NoPin, NEW i \in PinsSent PROVE wire'[i][2] < session.login_pin
        BY <1>2, <3>2, <4>2 DEF PinsOrdered, Latest
      <4> QED
        BY <3>1, <4>1, <4>2
    <3> QED
      BY <1>2, <1>3, <1>5, <3>3, <3>4, <3>5, <1>1 DEF PinsOrdered, Latest, NoPin
  <2>2. CASE Holds = 0
    <3>1. PinsSent' = PinsSent /\ \A i \in PinsSent : wire'[i][2] = wire[i][2]
      BY <1>7, <1>8, <2>2
    <3> QED
      BY <1>1, <1>2, <1>3, <1>5, <3>1 DEF PinsOrdered, Latest, NoPin
  <2> QED
    BY <2>1, <2>2 DEF Holds
<1> QED
  BY <1>10, <1>11 DEF PinsTrue

LEMMA PinsStep ==
    PlacesTrue /\ TypesTrue /\ WireTrue /\ EventsTrue /\ PinsTrue /\ [Next]_vars => PinsTrue'
<1> SUFFICES ASSUME PlacesTrue, TypesTrue, WireTrue, EventsTrue, PinsTrue, [Next]_vars
             PROVE  PinsTrue'
  OBVIOUS
<1>1. session \in SessionRecords /\ ctrl \in CtrlRecords /\ pins \in Nat /\ MaxPins \in Nat
  BY SessionAssumption DEF TypesTrue, CtrlTypesTrue
<1>2. events \in Seq(Events) /\ PinsOrdered /\ PinsCounted
  BY DEF EventsTrue, PinsTrue
<1>3. ASSUME PinFields' = PinFields, PinsAsked' = PinsAsked, spc' = spc PROVE PinsTrue'
  <2>1. PinsSent' = PinsSent /\ Holds' = Holds /\ Waits' = Waits
    BY <1>3 DEF PinFields, PinsSent, Holds, Waits
  <2> QED
    BY <1>2, <1>3, <2>1, OrderedSame DEF PinsTrue, PinsCounted
<1>4. CASE UNCHANGED <<wire, pins, ctrl, session, events, spc>>
  BY <1>3, <1>4 DEF PinFields, PinsAsked
<1>5. CASE SessionSetLoginPin
  <2>1. /\ pins' = pins + 1 /\ session' = [session EXCEPT !.login_pin = pins + 1]
        /\ UNCHANGED <<wire, ctrl, events, spc>>
    BY <1>5 DEF SessionSetLoginPin, ctrlVars
  <2>2. session'.login_pin = pins + 1
    BY <1>1, <2>1 DEF SessionRecords
  <2>3. PinsSent' = PinsSent /\ PinsAsked' = PinsAsked /\ Holds' = Holds /\ Waits' = Waits
    BY <2>1 DEF PinsSent, PinsAsked, Holds, Waits
  <2>4. PinsCounted'
    BY <1>2, <2>3 DEF PinsCounted
  <2>5. ctrl.login_pin \in Nat /\ ctrl.login_pin < pins + 1
    BY <1>1, <1>2 DEF PinsOrdered, CtrlRecords
  <2>6. wire \in Seq(Sendable)
    BY DEF WireTrue
  <2>7. ASSUME NEW i \in PinsSent PROVE wire[i][2] <= pins + 1 /\ wire[i][2] < pins + 1
    <3>1. wire[i] \in Sendable
      BY <2>6 DEF PinsSent
    <3>2. wire[i][2] \in Nat /\ wire[i][2] <= pins
      BY <1>2, <3>1 DEF Sendable, PinsOrdered
    <3> QED
      BY <1>1, <3>2
  <2>8. PinsOrdered'
    BY <1>1, <1>2, <2>1, <2>2, <2>3, <2>5, <2>7 DEF PinsOrdered, Latest
  <2> QED
    BY <2>4, <2>8 DEF PinsTrue
<1>6. CASE SessionStop
  <2>1. session' = [session EXCEPT !.should_stop = TRUE] /\ UNCHANGED <<wire, pins, ctrl, events, spc>>
    BY <1>6 DEF SessionStop, ctrlVars
  <2>2. session'.login_pin = session.login_pin
    BY <1>1, <2>1 DEF SessionRecords
  <2> QED
    BY <1>3, <2>1, <2>2 DEF PinFields, PinsAsked
<1>7. ASSUME NEW u \in Callers, PostMessage(u), UNCHANGED local PROVE PinsTrue'
  <2>1. /\ ctrl' = [ctrl EXCEPT !.msg_queue = Append(@, <<u, calls[u].posted + 1>>)]
        /\ UNCHANGED <<wire, pins, session, events, spc>>
    BY <1>7 DEF PostMessage, local
  <2>2. ctrl'.login_pin = ctrl.login_pin
    BY <1>1, <2>1 DEF CtrlRecords
  <2> QED
    BY <1>3, <2>1, <2>2 DEF PinFields, PinsAsked
<1>8. CASE Pending
  BY <1>4, <1>8 DEF Pending, SignalMessage, local
<1>9. CASE Console
  BY <1>4, <1>9 DEF Console, ConsoleClose, ConsoleSend, local
<1>10. ASSUME CtrlFailed, UNCHANGED local PROVE PinsTrue'
  <2>1. /\ session' = [session EXCEPT !.quit_reason = Head(cres), !.ctrl_failed = TRUE]
        /\ UNCHANGED <<wire, pins, ctrl, events, spc>>
    BY <1>10 DEF CtrlFailed, CtrlUnchanged, local
  <2>2. session'.login_pin = session.login_pin
    BY <1>1, <2>1 DEF SessionRecords
  <2> QED
    BY <1>3, <2>1, <2>2 DEF PinFields, PinsAsked
<1>11. ASSUME CtrlMessage, UNCHANGED local PROVE PinsTrue'
  <2>1. recv_buf \in Seq(ConsoleMsgs) /\ recv_buf # <<>>
    BY <1>11 DEF CtrlMessage, TypesTrue, CtrlTypesTrue, CtrlTypeOK
  <2>2. Head(recv_buf) \in ConsoleMsgs
    BY <2>1
  <2> DEFINE e == [type |-> "KEYBOARD"]
  <2>3. Head(recv_buf) \in {"SESSION_ID", "HEARTBEAT_REQ", "LOGIN_PIN_REQ", "LOGIN_SUCCESS",
               "LOGIN_PIN_INCORRECT", "KEYBOARD", "TOO_LONG"}
    BY <2>2, CtrlAssumption
  <2>4. /\ \/ session' = session
           \/ session' = [session EXCEPT !.ctrl_session_id_received = TRUE]
           \/ session' = [session EXCEPT !.ctrl_login_pin_requested = TRUE]
        /\ \/ ctrl' = ctrl
           \/ ctrl' = [ctrl EXCEPT !.login_pin_requested = TRUE]
           \/ ctrl' = [ctrl EXCEPT !.login_pin_requested = FALSE]
        /\ events' = events \/ events' = Append(events, e)
    BY <1>11, <2>3 DEF CtrlMessage
  <2>5. session'.login_pin = session.login_pin /\ ctrl'.login_pin = ctrl.login_pin
    BY <1>1, <2>4 DEF SessionRecords, CtrlRecords
  <2>6. UNCHANGED <<wire, pins, spc>>
    BY <1>11 DEF CtrlMessage, local
  <2>7. e \in Events /\ e.type # "LOGIN_PIN_REQUEST"
    BY DEF Events
  <2> HIDE DEF e
  <2>8. PinsAsked' = PinsAsked
    <3>1. CASE events' = events
      BY <3>1 DEF PinsAsked
    <3>2. CASE events' = Append(events, e)
      BY <1>2, <2>7, <3>2, AskedGrows
    <3> QED
      BY <2>4, <3>1, <3>2
  <2> QED
    BY <1>3, <2>5, <2>6, <2>8 DEF PinFields
<1>12. ASSUME CtrlThread, UNCHANGED local, ~CtrlFailed, ~CtrlMessage, ~CtrlNotified PROVE PinsTrue'
  BY <1>4, <1>12
     DEF CtrlThread, CtrlConnect, CtrlConnectReturns, CtrlConnected, CtrlResponse,
         CtrlUnchanged, CtrlSelect, CtrlSelectReturns, CtrlReceive, CtrlSelectFailed, local
<1>13. CASE UNCHANGED vars
  BY <1>4, <1>13 DEF vars, ctrlVars, sessionVars
<1> QED
  BY <1>5, <1>6, <1>7, <1>8, <1>9, <1>10, <1>11, <1>12, <1>13, PinsSession, PinsNotified
     DEF Next, Application

-----------------------------------------------------------------------------
(* The invariant and what follows from it                                  *)

SessionInv ==
    PlacesTrue /\ TypesTrue /\ NoWorkUnnoticed /\ StopTrue /\ EventsTrue /\ WireTrue /\ PinsTrue

LEMMA WireInit == Init => WireTrue /\ PinsTrue
<1> SUFFICES ASSUME Init PROVE WireTrue /\ PinsTrue
  OBVIOUS
<1>1. /\ wire = <<>> /\ events = <<>> /\ ctrl.msg_queue = <<>> /\ ctrl.login_pin = NoPin
      /\ session.login_pin = NoPin /\ spc = "start" /\ pins = 0
      /\ \A u \in Callers : calls[u].posted = 0
  BY DEF Init, CtrlInit
<1>2. All = <<>> /\ wire \in Seq(Sendable) /\ Len(wire) = 0 /\ Len(events) = 0
  BY <1>1 DEF All
<1>3. Len(All) = 0
  BY <1>2
<1>4. MessagesInOrder
  BY <1>1, <1>3 DEF MessagesInOrder, All
<1>5. PinsSent = {} /\ PinsAsked = {}
  BY <1>2 DEF PinsSent, PinsAsked
<1>6. Holds = 0 /\ Waits = 0 /\ Cardinality({}) = 0
  BY <1>1, FS_EmptySet DEF Holds, Waits
<1>7. PinsCounted
  BY <1>5, <1>6 DEF PinsCounted
<1>8. PinsOrdered
  BY <1>1, <1>5 DEF PinsOrdered, Latest, NoPin
<1> QED
  BY <1>2, <1>4, <1>7, <1>8 DEF WireTrue, PinsTrue

LEMMA SessionInvariant == Spec => []SessionInv
<1>1. Init => SessionInv
  <2>1. Init => StopTrue
    BY DEF Init, StopTrue
  <2>2. Init => EventsTrue
    <3>1. <<>> \in Seq(Events)
      OBVIOUS
    <3>2. Len(<<>>) = 0
      OBVIOUS
    <3>3. 1 .. Len(<<>>) = {}
      BY <3>2
    <3>4. ASSUME Init PROVE events = <<>> /\ pin_incorrect \in BOOLEAN
      BY <3>4 DEF Init
    <3>5. ASSUME Init PROVE events \in Seq(Events) /\ 1 .. Len(events) = {}
      <4>1. events = <<>>
        BY <3>4, <3>5
      <4> QED
        BY <3>1, <3>3, <4>1, Zenon
    <3> QED
      BY <3>4, <3>5, Zenon DEF EventsTrue
  <2> QED
    BY <2>1, <2>2, PlacesInit, TypesInit, WorkInit, WireInit DEF SessionInv
<1>2. SessionInv /\ [Next]_vars => SessionInv'
  BY PlacesStep, TypesStep, WorkStep, StopStep, EventsStep, WireStep, PinsStep DEF SessionInv
<1> QED
  BY <1>1, <1>2, PTL DEF Spec

(* The state of session_thread_func and ctrl_thread_func is well typed, and *)
(* the mutexes are held between steps only where the threads run on.       *)
THEOREM SessionTypeCorrect == Spec => []TypeOK
<1>1. SessionInv => TypeOK
  BY DEF SessionInv, PlacesTrue, MutexesTrue, CarriedTrue, TypesTrue, CtrlTypesTrue,
         SessionRecords, TypeOK
<1> QED
  BY <1>1, SessionInvariant, PTL

(* ctrl_thread_func resets the notif pipe only with nothing left to do.    *)
THEOREM WorkNoticed == Spec => []NoWorkUnnoticed
<1>1. SessionInv => NoWorkUnnoticed
  BY DEF SessionInv
<1> QED
  BY <1>1, SessionInvariant, PTL

(* session_thread_func sends QUIT when Ctrl has ended, and nothing after it. *)
THEOREM QuitComesLast == Spec => []QuitIsLast
<1>1. SessionInv => QuitIsLast
  BY DEF SessionInv, PlacesTrue, ThreadsTrue, EventsTrue, QuitIsLast
<1> QED
  BY <1>1, SessionInvariant, PTL

(* No path through session_thread_func but those that saw should_stop or   *)
(* the stop pipe reports STOPPED.                                          *)
THEOREM StoppedByRequest == Spec => []StoppedOnlyOnRequest
<1>1. SessionInv => StoppedOnlyOnRequest
  BY DEF SessionInv, EventsTrue, StoppedOnlyOnRequest
<1> QED
  BY <1>1, SessionInvariant, PTL

(* Whatever callers queue with chiaki_ctrl_send_message the Ctrl thread     *)
(* sends once and in the order of each caller.                             *)
THEOREM MessagesSentInOrder == Spec => []MessagesInOrder
<1>1. SessionInv => MessagesInOrder
  BY DEF SessionInv, WireTrue
<1> QED
  BY <1>1, SessionInvariant, PTL

(* The PINs that reach the console are no more than the requests of the    *)
(* application and in the order they were entered in.                      *)
THEOREM PinsAnswerRequests == Spec => []OnePinPerRequest
<1>1. SessionInv => OnePinPerRequest
  <2> SUFFICES ASSUME SessionInv PROVE OnePinPerRequest
    OBVIOUS
  <2>1. PinsOrdered /\ PinsCounted
    BY DEF SessionInv, PinsTrue
  <2>2. Cardinality(PinsSent) \in Nat /\ Cardinality(PinsAsked) \in Nat
    BY PinsFinite DEF SessionInv, WireTrue, EventsTrue
  <2>3. Holds \in {0, 1} /\ Waits \in {0, 1}
    BY DEF Holds, Waits
  <2>4. Cardinality(PinsSent) <= Cardinality(PinsAsked)
    BY <2>1, <2>2, <2>3 DEF PinsCounted
  <2> QED
    BY <2>1, <2>4 DEF PinsOrdered, OnePinPerRequest, PinsSent, PinsAsked
<1> QED
  BY <1>1, SessionInvariant, PTL
=============================================================================
