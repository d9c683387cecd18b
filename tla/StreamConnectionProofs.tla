----------------------- MODULE StreamConnectionProofs -----------------------
(***************************************************************************)
(* Theorems about StreamConnection (Spec) for every set of console         *)
(* messages and every number of controller states, and about the feedback  *)
(* sender that it runs (FeedbackSpec) for every controller, every size of  *)
(* the history and every number of packet numbers.                         *)
(*                                                                         *)
(* The stream connection.  state and state_finished are only ever changed so that,   *)
(* in each of its waits, run sees what was handled during that wait        *)
(* (Handshake); Takion's thread lives between run's connecting and joining *)
(* it, and the feedback sender between STREAMINFO and the end of the       *)
(* heartbeats (Lifetimes).                                                 *)
(*                                                                         *)
(* The feedback sender.  The events of a round say of each button and      *)
(* touch what became of it, or nothing when it did not change (FreshTold), *)
(* and the last event about one is the last of the newest round that spoke *)
(* of it (LastJoined).  The ring buffer holds the newest events wherever   *)
(* it begins (HasNewest), so that a packet says what PacketOf does.        *)
(***************************************************************************)
EXTENDS StreamConnection, FeedbackSender, SeqNumProofs, SequenceTheorems

(* What run has made sure of wherever it is. *)
Handshake ==
    /\ rpc = "start" => events = <<>>
    /\ rpc = "await_takion" => conn.state = "TAKION_CONNECT" /\ events = <<>>
    /\ rpc = "await_bang" =>
          /\ conn.state = "EXPECT_BANG" /\ events = <<>> /\ big
          /\ conn.state_finished => crypt /\ "BANG" \in handed
    /\ rpc = "await_streaminfo" =>
          /\ conn.state = "EXPECT_STREAMINFO" /\ events = <<>> /\ big
          /\ crypt /\ "BANG" \in handed
          /\ conn.state_finished => "STREAMINFO" \in handed
    /\ rpc = "event" => events = <<>>
    /\ rpc \in {"event", "heartbeat"} => conn.state = "IDLE" /\ ~conn.state_finished
    /\ events \in {<<>>, <<"CONNECTED">>}

(* Which objects and threads exist wherever run is. *)
Lifetimes ==
    /\ rpc \notin {"start", "done"} => receivers
    /\ takion = "none" => rpc \in {"start", "free", "done"}
    /\ rpc = "start" => takion = "none"
    /\ takion = "closed" => rpc \in {"free", "done"}
    /\ rpc \in {"free", "done"} => takion \in {"none", "closed"}
    /\ feedback.active => rpc \in {"event", "heartbeat"}

(* The inductive invariant. *)
Inv ==
    /\ TypeOK
    /\ Handshake
    /\ Lifetimes
    /\ ConnectedAfterHandshake
    /\ ResultIsEarned
    /\ FeedbackIsCurrent

-----------------------------------------------------------------------------
(* Every step keeps Inv, one lemma per action. *)

(* First run: from one wait to the next. *)
LEMMA RunBeginInv ==
    ASSUME Inv, RunBegin
    PROVE  Inv'
<1>1. TypeOK'
  BY DEF Inv, TypeOK, RunBegin, Expect
<1>2. Handshake' /\ Lifetimes'
  BY DEF Inv, Handshake, Lifetimes, RunBegin, Expect
<1>3. ConnectedAfterHandshake' /\ ResultIsEarned' /\ FeedbackIsCurrent'
  BY DEF Inv, ConnectedAfterHandshake, ResultIsEarned, FeedbackIsCurrent, RunBegin, Expect
<1> QED
  BY <1>1, <1>2, <1>3 DEF Inv

LEMMA RunTakionConnectedInv ==
    ASSUME Inv, RunTakionConnected
    PROVE  Inv'
<1>1. TypeOK'
  BY DEF Inv, TypeOK, RunTakionConnected, Expect, Disconnect
<1>2. Handshake'
  BY DEF Inv, Handshake, TypeOK, RunTakionConnected, Expect, Disconnect
<1>3. Lifetimes'
  BY DEF Inv, Lifetimes, RunTakionConnected, Disconnect
<1>4. ConnectedAfterHandshake'
  BY DEF Inv, ConnectedAfterHandshake, RunTakionConnected, Disconnect
<1>5. ResultIsEarned'
  BY DEF Inv, ResultIsEarned, TypeOK, RunTakionConnected, Expect, Disconnect
<1>6. FeedbackIsCurrent'
  BY DEF Inv, FeedbackIsCurrent, RunTakionConnected
<1> QED
  BY <1>1, <1>2, <1>3, <1>4, <1>5, <1>6 DEF Inv

(* What ends the wait with state_finished set has agreed on the keys. *)
LEMMA RunBangInv ==
    ASSUME Inv, RunBang
    PROVE  Inv'
<1>1. TypeOK'
  <2>1. CASE conn.should_stop \/ ~conn.state_finished
    BY <2>1 DEF Inv, TypeOK, RunBang, Disconnect
  <2>2. CASE ~(conn.should_stop \/ ~conn.state_finished)
    BY <2>2 DEF Inv, TypeOK, RunBang, Expect
  <2> QED
    BY <2>1, <2>2
<1>2. Handshake'
  BY DEF Inv, Handshake, TypeOK, RunBang, Expect, Disconnect
<1>3. Lifetimes'
  BY DEF Inv, Lifetimes, RunBang, Disconnect
<1>4. ConnectedAfterHandshake'
  BY DEF Inv, ConnectedAfterHandshake, RunBang, Disconnect
<1>5. ResultIsEarned'
  BY DEF Inv, ResultIsEarned, TypeOK, RunBang, Disconnect
<1>6. FeedbackIsCurrent'
  BY DEF Inv, FeedbackIsCurrent, RunBang
<1> QED
  BY <1>1, <1>2, <1>3, <1>4, <1>5, <1>6 DEF Inv

LEMMA RunStreamInfoInv ==
    ASSUME Inv, RunStreamInfo
    PROVE  Inv'
<1>1. TypeOK'
  <2>1. conn' \in [state : {"IDLE", "TAKION_CONNECT", "EXPECT_BANG", "EXPECT_STREAMINFO"},
                   state_finished : BOOLEAN, should_stop : BOOLEAN, remote_disconnected : BOOLEAN]
    BY DEF Inv, TypeOK, RunStreamInfo, Expect
  <2>2. feedback' \in [active : BOOLEAN, state : 0 .. MaxStates]
    <3>1. feedback' = feedback \/ feedback' = [active |-> TRUE, state |-> controller]
      BY DEF RunStreamInfo
    <3>2. /\ feedback \in [active : BOOLEAN, state : 0 .. MaxStates]
          /\ controller \in 0 .. MaxStates
      BY DEF Inv, TypeOK
    <3>3. [active |-> TRUE, state |-> controller] \in [active : BOOLEAN, state : 0 .. MaxStates]
      BY <3>2
    <3> QED
      BY <3>1, <3>2, <3>3, Zenon
  <2> QED
    BY <2>1, <2>2 DEF Inv, TypeOK, RunStreamInfo, Disconnect
<1>2. Handshake'
  BY DEF Inv, Handshake, TypeOK, RunStreamInfo, Expect, Disconnect
<1>3. Lifetimes'
  BY DEF Inv, Lifetimes, RunStreamInfo, Disconnect
<1>4. ConnectedAfterHandshake'
  BY DEF Inv, ConnectedAfterHandshake, Handshake, RunStreamInfo, Disconnect
<1>5. ResultIsEarned'
  BY DEF Inv, ResultIsEarned, TypeOK, RunStreamInfo, Disconnect
<1>6. FeedbackIsCurrent'
  BY DEF Inv, FeedbackIsCurrent, RunStreamInfo
<1> QED
  BY <1>1, <1>2, <1>3, <1>4, <1>5, <1>6 DEF Inv

LEMMA RunEventInv ==
    ASSUME Inv, RunEvent
    PROVE  Inv'
<1>1. TypeOK'
  BY DEF Inv, TypeOK, RunEvent
<1>2. Handshake' /\ Lifetimes'
  BY DEF Inv, Handshake, Lifetimes, RunEvent
<1>3. ConnectedAfterHandshake' /\ ResultIsEarned' /\ FeedbackIsCurrent'
  BY DEF Inv, Handshake, ConnectedAfterHandshake, ResultIsEarned, FeedbackIsCurrent,
         RunEvent
<1> QED
  BY <1>1, <1>2, <1>3 DEF Inv

(* state_finished is not set here, so that the wait ends with SUCCESS only *)
(* after a stop or the console's disconnect.                               *)
LEMMA RunHeartbeatInv ==
    ASSUME Inv, RunHeartbeat
    PROVE  Inv'
<1>1. TypeOK'
  BY DEF Inv, TypeOK, RunHeartbeat, Disconnect
<1>2. Handshake'
  BY DEF Inv, Handshake, RunHeartbeat, Disconnect
<1>3. Lifetimes'
  BY DEF Inv, Lifetimes, RunHeartbeat, Disconnect
<1>4. ConnectedAfterHandshake'
  BY DEF Inv, ConnectedAfterHandshake, RunHeartbeat
<1>5. ResultIsEarned'
  BY DEF Inv, ResultIsEarned, Handshake, RunHeartbeat, WaitEnds, WaitIsOver, Disconnect
<1>6. FeedbackIsCurrent'
  BY DEF FeedbackIsCurrent, RunHeartbeat
<1> QED
  BY <1>1, <1>2, <1>3, <1>4, <1>5, <1>6 DEF Inv

LEMMA RunCloseInv ==
    ASSUME Inv, RunClose
    PROVE  Inv'
<1>1. TypeOK'
  BY DEF Inv, TypeOK, RunClose
<1>2. Handshake' /\ Lifetimes'
  BY DEF Inv, Handshake, Lifetimes, RunClose
<1>3. ConnectedAfterHandshake' /\ ResultIsEarned' /\ FeedbackIsCurrent'
  BY DEF Inv, ConnectedAfterHandshake, ResultIsEarned, FeedbackIsCurrent, RunClose
<1> QED
  BY <1>1, <1>2, <1>3 DEF Inv

(* Takion is closed only when its thread has ended. *)
LEMMA RunJoinInv ==
    ASSUME Inv, RunJoin
    PROVE  Inv'
<1>1. TypeOK'
  BY DEF Inv, TypeOK, RunJoin
<1>2. Handshake' /\ Lifetimes'
  BY DEF Inv, Handshake, Lifetimes, RunJoin
<1>3. ConnectedAfterHandshake' /\ ResultIsEarned' /\ FeedbackIsCurrent'
  BY DEF Inv, ConnectedAfterHandshake, ResultIsEarned, FeedbackIsCurrent, RunJoin
<1> QED
  BY <1>1, <1>2, <1>3 DEF Inv

LEMMA RunFreeInv ==
    ASSUME Inv, RunFree
    PROVE  Inv'
<1>1. TypeOK'
  BY DEF Inv, TypeOK, RunFree
<1>2. Handshake' /\ Lifetimes'
  BY DEF Inv, Handshake, Lifetimes, RunFree
<1>3. ConnectedAfterHandshake' /\ ResultIsEarned' /\ FeedbackIsCurrent'
  BY DEF Inv, ConnectedAfterHandshake, ResultIsEarned, FeedbackIsCurrent, RunFree
<1> QED
  BY <1>1, <1>2, <1>3 DEF Inv

(* Then the application, *)
LEMMA StopInv ==
    ASSUME Inv, Stop
    PROVE  Inv'
<1>1. TypeOK'
  BY DEF Inv, TypeOK, Stop
<1>2. Handshake' /\ Lifetimes'
  BY DEF Inv, Handshake, Lifetimes, Stop
<1>3. ConnectedAfterHandshake' /\ ResultIsEarned' /\ FeedbackIsCurrent'
  BY DEF Inv, ConnectedAfterHandshake, ResultIsEarned, FeedbackIsCurrent, Stop
<1> QED
  BY <1>1, <1>2, <1>3 DEF Inv

LEMMA SetControllerStateInv ==
    ASSUME Inv, SetControllerState
    PROVE  Inv'
<1>1. TypeOK'
  BY MaxStatesAssumption DEF Inv, TypeOK, SetControllerState
<1>2. Handshake' /\ Lifetimes'
  BY DEF Inv, Handshake, Lifetimes, SetControllerState
<1>3. ConnectedAfterHandshake' /\ ResultIsEarned' /\ FeedbackIsCurrent'
  BY DEF Inv, ConnectedAfterHandshake, ResultIsEarned, FeedbackIsCurrent, SetControllerState
<1> QED
  BY <1>1, <1>2, <1>3 DEF Inv

(* and the callback in the Takion thread, for which run may be anywhere. *)
LEMMA TakionConnectedInv ==
    ASSUME Inv, TakionConnected
    PROVE  Inv'
<1>1. TypeOK'
  BY DEF Inv, TypeOK, TakionConnected
<1>2. Handshake' /\ Lifetimes'
  BY DEF Inv, Handshake, Lifetimes, TakionConnected
<1>3. ConnectedAfterHandshake' /\ ResultIsEarned' /\ FeedbackIsCurrent'
  BY DEF Inv, ConnectedAfterHandshake, ResultIsEarned, FeedbackIsCurrent, TakionConnected
<1> QED
  BY <1>1, <1>2, <1>3 DEF Inv

LEMMA TakionEndsInv ==
    ASSUME Inv, TakionEnds
    PROVE  Inv'
<1>1. TypeOK'
  BY DEF Inv, TypeOK, TakionEnds
<1>2. Handshake' /\ Lifetimes'
  BY DEF Inv, Handshake, Lifetimes, TakionEnds
<1>3. ConnectedAfterHandshake' /\ ResultIsEarned' /\ FeedbackIsCurrent'
  BY DEF Inv, ConnectedAfterHandshake, ResultIsEarned, FeedbackIsCurrent, TakionEnds
<1> QED
  BY <1>1, <1>2, <1>3 DEF Inv

(* A message only finishes the wait for its own state. *)
LEMMA TakionDataInv ==
    ASSUME Inv, TakionData
    PROVE  Inv'
<1>1. TypeOK'
  <2>1. conn' \in [state : {"IDLE", "TAKION_CONNECT", "EXPECT_BANG", "EXPECT_STREAMINFO"},
                   state_finished : BOOLEAN, should_stop : BOOLEAN, remote_disconnected : BOOLEAN]
    BY DEF Inv, TypeOK, TakionData
  <2>2. inbox' \in Seq(ConsoleMsgs)
    BY DEF Inv, TypeOK, TakionData
  <2>3. crypt' \in BOOLEAN
    BY DEF Inv, TypeOK, TakionData
  <2> QED
    BY <2>1, <2>2, <2>3 DEF Inv, TypeOK, TakionData
<1>2. Handshake'
  BY DEF Inv, Handshake, TypeOK, TakionData
<1>3. Lifetimes'
  BY DEF Inv, Lifetimes, TakionData
<1>4. ConnectedAfterHandshake'
  BY DEF Inv, ConnectedAfterHandshake, TakionData
<1>5. ResultIsEarned'
  BY DEF Inv, ResultIsEarned, TypeOK, TakionData
<1>6. FeedbackIsCurrent'
  BY DEF Inv, FeedbackIsCurrent, TakionData
<1> QED
  BY <1>1, <1>2, <1>3, <1>4, <1>5, <1>6 DEF Inv

LEMMA ConsoleSendsInv ==
    ASSUME Inv, ConsoleSends
    PROVE  Inv'
<1>1. TypeOK'
  BY DEF Inv, TypeOK, ConsoleSends
<1>2. Handshake' /\ Lifetimes'
  BY DEF Inv, Handshake, Lifetimes, ConsoleSends
<1>3. ConnectedAfterHandshake' /\ ResultIsEarned' /\ FeedbackIsCurrent'
  BY DEF Inv, ConnectedAfterHandshake, ResultIsEarned, FeedbackIsCurrent, ConsoleSends
<1> QED
  BY <1>1, <1>2, <1>3 DEF Inv

-----------------------------------------------------------------------------
LEMMA InitInv == Init => Inv
<1> SUFFICES ASSUME Init PROVE Inv
  OBVIOUS
<1>1. TypeOK
  <2>1. 0 \in 0 .. MaxStates
    BY MaxStatesAssumption
  <2>2. feedback \in [active : BOOLEAN, state : 0 .. MaxStates]
    BY <2>1, Zenon DEF Init
  <2>3. conn \in [state : {"IDLE", "TAKION_CONNECT", "EXPECT_BANG", "EXPECT_STREAMINFO"},
                  state_finished : BOOLEAN, should_stop : BOOLEAN, remote_disconnected : BOOLEAN]
    BY DEF Init
  <2>4. inbox \in Seq(ConsoleMsgs)
    BY DEF Init
  <2> QED
    BY <2>1, <2>2, <2>3, <2>4 DEF Init, TypeOK
<1>2. Handshake /\ Lifetimes
  BY DEF Init, Handshake, Lifetimes
<1>3. ConnectedAfterHandshake /\ ResultIsEarned /\ FeedbackIsCurrent
  BY DEF Init, ConnectedAfterHandshake, ResultIsEarned, FeedbackIsCurrent
<1> QED
  BY <1>1, <1>2, <1>3 DEF Inv

LEMMA NextInv == Inv /\ [Next]_vars => Inv'
<1> SUFFICES ASSUME Inv, [Next]_vars PROVE Inv'
  OBVIOUS
<1>1. CASE Run
  BY <1>1, RunBeginInv, RunTakionConnectedInv, RunBangInv, RunStreamInfoInv, RunEventInv,
     RunHeartbeatInv, RunCloseInv, RunJoinInv, RunFreeInv DEF Run
<1>2. CASE Application
  BY <1>2, StopInv, SetControllerStateInv DEF Application
<1>3. CASE Takion
  BY <1>3, TakionConnectedInv, TakionEndsInv, TakionDataInv DEF Takion
<1>4. CASE ConsoleSends
  BY <1>4, ConsoleSendsInv
<1>5. CASE UNCHANGED vars
  BY <1>5 DEF vars, Inv, TypeOK, Handshake, Lifetimes, ConnectedAfterHandshake,
              ResultIsEarned, FeedbackIsCurrent
<1> QED
  BY <1>1, <1>2, <1>3, <1>4, <1>5 DEF Next

(* Inv holds in every state, however run, callbacks and calls interleave. *)
THEOREM InvHolds == Spec => []Inv
<1>1. Init => Inv
  BY InitInv
<1>2. Inv /\ [Next]_vars => Inv'
  BY NextInv
<1> QED
  BY <1>1, <1>2, PTL DEF Spec

(* The stream connection's state is well typed, and run has a result from  *)
(* its closing of Takion on.                                               *)
THEOREM StreamTypeCorrect == Spec => []TypeOK
<1>1. Inv => TypeOK
  BY DEF Inv
<1> QED
  BY <1>1, InvHolds, PTL

(* The application is told CONNECTED at most once and only after the whole *)
(* handshake, whatever the console sends and however waits time out.       *)
THEOREM ConnectedIsTrue == Spec => []ConnectedAfterHandshake
<1>1. Inv => ConnectedAfterHandshake
  BY DEF Inv
<1> QED
  BY <1>1, InvHolds, PTL

(* run claims a stop or a remote disconnect only when there was one.       *)
THEOREM ResultIsTrue == Spec => []ResultIsEarned
<1>1. Inv => ResultIsEarned
  BY DEF Inv
<1> QED
  BY <1>1, InvHolds, PTL

(* A running feedback sender has the newest controller state.              *)
THEOREM FeedbackCurrent == Spec => []FeedbackIsCurrent
<1>1. Inv => FeedbackIsCurrent
  BY DEF Inv
<1> QED
  BY <1>1, InvHolds, PTL

(* Takion's callbacks find the receivers, and the feedback sender a Takion *)
(* that was not closed.                                                    *)
THEOREM CallbacksFindReceivers == Spec => []TakionOutlivedByReceivers
<1>1. Inv => TakionOutlivedByReceivers
  BY DEF Inv, Lifetimes, TakionOutlivedByReceivers
<1> QED
  BY <1>1, InvHolds, PTL

-----------------------------------------------------------------------------
(* Events one after the other                                              *)

(* parts grows by one piece after the other. *)
Grows(parts, pieces, S) ==
    /\ parts \in [0 .. Len(pieces) -> Seq(S)]
    /\ parts[0] = <<>>
    /\ \A k \in 1 .. Len(pieces) : parts[k] = parts[k - 1] \o pieces[k]

(* Joined is what joining one piece after the other leads to. *)
LEMMA JoinedGrows ==
    ASSUME NEW S, NEW pieces \in Seq(Seq(S))
    PROVE  \E parts : Grows(parts, pieces, S) /\ Joined(pieces) = parts[Len(pieces)]
<1> DEFINE N == Len(pieces)
           step == [p \in (1 .. N) \X Seq(S) |-> p[2] \o pieces[p[1]]]
           c == <<>>
           J(g, n) == g[n - 1] \o pieces[n]
           P(g) == g = [n \in 0 .. N |-> IF n = 0 THEN c ELSE J(g, n)]
           f == CHOOSE g : P(g)
<1>1. f[N] = Joined(pieces)
  BY DEF Joined
<1>2. N \in Nat /\ \A k \in 1 .. N : pieces[k] \in Seq(S)
  BY LenProperties, ElementOfSeq
<1>3. \A k \in 1 .. N, v \in Seq(S) : step[<<k, v>>] = v \o pieces[k]
  OBVIOUS
<1>4. step \in [(1 .. N) \X Seq(S) -> Seq(S)]
  <2> SUFFICES ASSUME NEW p \in (1 .. N) \X Seq(S) PROVE p[2] \o pieces[p[1]] \in Seq(S)
    OBVIOUS
  <2>1. p[2] \in Seq(S) /\ p[1] \in 1 .. N
    OBVIOUS
  <2>2. pieces[p[1]] \in Seq(S)
    BY <1>2, <2>1
  <2> QED
    BY <2>1, <2>2, ConcatProperties
<1>5. c \in Seq(S)
  OBVIOUS
<1> HIDE DEF step, f, N, c, J
<1>6. PICK h : FollowsSteps(h, N, Seq(S), c, step)
  BY <1>2, <1>4, <1>5, RecursionUpTo
<1>7. h \in [0 .. N -> Seq(S)] /\ h[0] = c /\ \A k \in 1 .. N : h[k] = step[<<k, h[k - 1]>>]
  BY <1>6 DEF FollowsSteps
<1>8. \A k \in 1 .. N : k - 1 \in 0 .. N /\ h[k - 1] \in Seq(S)
  BY <1>2, <1>7
<1>9. \A k \in 1 .. N : h[k] = J(h, k)
  BY <1>3, <1>7, <1>8 DEF J
<1>10. P(h)
  BY <1>2, <1>7, <1>9
<1>11. P(f)
  <2> HIDE DEF P
  <2> QED
    BY <1>10 DEF f
<1>12. f[0] = c /\ \A k \in 1 .. N : f[k] = J(f, k)
  <2>1. \A n \in 0 .. N : f[n] = IF n = 0 THEN c ELSE J(f, n)
    BY <1>11, Zenon
  <2>2. 0 \in 0 .. N /\ \A k \in 1 .. N : k \in 0 .. N /\ k # 0
    BY <1>2
  <2> QED
    BY <2>1, <2>2
<1> DEFINE T == {k \in 0 .. N : f[k] \in Seq(S)}
<1>13. 0 \in T
  BY <1>2, <1>5, <1>12
<1>14. \A k \in 0 .. N - 1 : k \in T => k + 1 \in T
  <2> SUFFICES ASSUME NEW k \in 0 .. N - 1, f[k] \in Seq(S)
               PROVE  f[k + 1] \in Seq(S) /\ k + 1 \in 0 .. N
    OBVIOUS
  <2>1. k + 1 \in 1 .. N /\ (k + 1) - 1 = k /\ k + 1 \in 0 .. N
    BY <1>2
  <2>2. f[k + 1] = f[k] \o pieces[k + 1] /\ pieces[k + 1] \in Seq(S)
    BY <1>2, <1>12, <2>1 DEF J
  <2> QED
    BY <2>1, <2>2, ConcatProperties
<1>15. 0 .. N \subseteq T
  <2> HIDE DEF T
  <2> QED
    BY <1>2, <1>13, <1>14, InductUpTo
<1>16. f \in [0 .. N -> Seq(S)]
  <2>1. DOMAIN f = 0 .. N /\ f = [k \in 0 .. N |-> f[k]]
    BY <1>11
  <2> HIDE DEF P
  <2> QED
    BY <1>15, <2>1
<1>17. Grows(f, pieces, S)
  BY <1>12, <1>16 DEF Grows, N, c, J
<1> QED
  BY <1>1, <1>17 DEF N

(* Nothing in a sequence is about the button or the touch. *)
Silent(seq, kind, id) == \A k \in 1 .. Len(seq) : ~IsAbout(seq[k], kind, id)

(* Two parts together are about what one of them is about. *)
LEMMA SilentJoined ==
    ASSUME NEW S, NEW q \in Seq(S), NEW r \in Seq(S), NEW kind, NEW id
    PROVE  Silent(q \o r, kind, id) <=> Silent(q, kind, id) /\ Silent(r, kind, id)
<1> DEFINE A(e) == IsAbout(e, kind, id)
           t == q \o r
<1>1. /\ Len(q) \in Nat /\ Len(r) \in Nat /\ Len(t) = Len(q) + Len(r)
      /\ \A k \in 1 .. Len(q) + Len(r) : t[k] = IF k <= Len(q) THEN q[k] ELSE r[k - Len(q)]
  BY LenProperties, ConcatProperties
<1> HIDE DEF A, t
<1>2. ASSUME \A k \in 1 .. Len(t) : ~A(t[k])
      PROVE  (\A k \in 1 .. Len(q) : ~A(q[k])) /\ (\A k \in 1 .. Len(r) : ~A(r[k]))
  <2>1. ASSUME NEW k \in 1 .. Len(q) PROVE ~A(q[k])
    BY <1>1, <1>2
  <2>2. ASSUME NEW k \in 1 .. Len(r) PROVE ~A(r[k])
    <3>1. PICK m : m = Len(q) + k
      OBVIOUS
    <3>2. m \in 1 .. Len(t) /\ t[m] = r[k]
      BY <1>1, <3>1
    <3> QED
      BY <1>2, <3>2
  <2> QED
    BY <2>1, <2>2
<1>3. ASSUME \A k \in 1 .. Len(q) : ~A(q[k]), \A k \in 1 .. Len(r) : ~A(r[k]), NEW k \in 1 .. Len(t)
      PROVE  ~A(t[k])
  BY <1>1, <1>3
<1> QED
  BY <1>2, <1>3 DEF Silent, A, t

(* The last event about something is in the second part, unless nothing is. *)
LEMMA LastJoined ==
    ASSUME NEW S, NEW q \in Seq(S), NEW r \in Seq(S), NEW kind, NEW id
    PROVE  LastIn(q \o r, kind, id) =
              IF Silent(r, kind, id) THEN LastIn(q, kind, id) ELSE LastIn(r, kind, id)
<1> DEFINE A(e) == IsAbout(e, kind, id)
           t == q \o r
           In(s, e) == \E m \in 1 .. Len(s) : e = s[m] /\ A(s[m]) /\ \A k \in m + 1 .. Len(s) : ~A(s[k])
<1>1. /\ Len(q) \in Nat /\ Len(r) \in Nat /\ Len(t) = Len(q) + Len(r)
      /\ \A k \in 1 .. Len(q) + Len(r) : t[k] = IF k <= Len(q) THEN q[k] ELSE r[k - Len(q)]
  BY LenProperties, ConcatProperties
<1>2. \A s, e : e \in LastIn(s, kind, id) <=> In(s, e)
  BY DEF LastIn
<1>3. Silent(r, kind, id) <=> \A k \in 1 .. Len(r) : ~A(r[k])
  BY DEF Silent
<1> HIDE DEF A, t
<1>4. /\ \A k \in 1 .. Len(q) : k \in 1 .. Len(t) /\ t[k] = q[k]
      /\ \A k \in 1 .. Len(t) : k \notin 1 .. Len(q) => k - Len(q) \in 1 .. Len(r) /\ t[k] = r[k - Len(q)]
  BY <1>1
<1>5. \A k \in 1 .. Len(r) : k + Len(q) \in 1 .. Len(t) /\ t[k + Len(q)] = r[k]
  <2> SUFFICES ASSUME NEW k \in 1 .. Len(r)
               PROVE  k + Len(q) \in 1 .. Len(t) /\ t[k + Len(q)] = r[k]
    OBVIOUS
  <2>1. PICK m : m = k + Len(q)
    OBVIOUS
  <2>2. m \in 1 .. Len(q) + Len(r) /\ ~(m <= Len(q)) /\ m - Len(q) = k
    BY <1>1, <2>1
  <2> QED
    BY <1>1, <2>1, <2>2
<1>6. CASE \A k \in 1 .. Len(r) : ~A(r[k])
  <2>1. ASSUME NEW e, In(q, e) PROVE In(t, e)
    <3>1. PICK m \in 1 .. Len(q) : e = q[m] /\ A(q[m]) /\ \A k \in m + 1 .. Len(q) : ~A(q[k])
      BY <2>1
    <3>2. m \in 1 .. Len(t) /\ t[m] = q[m]
      BY <1>4
    <3>3. \A k \in m + 1 .. Len(t) : ~A(t[k])
      <4> SUFFICES ASSUME NEW k \in m + 1 .. Len(t) PROVE ~A(t[k])
        OBVIOUS
      <4>1. k \in 1 .. Len(t) /\ (k \in 1 .. Len(q) => k \in m + 1 .. Len(q))
        BY <1>1
      <4> QED
        BY <1>4, <1>6, <3>1, <4>1
    <3> QED
      BY <3>1, <3>2, <3>3
  <2>2. ASSUME NEW e, In(t, e) PROVE In(q, e)
    <3>1. PICK m \in 1 .. Len(t) : e = t[m] /\ A(t[m]) /\ \A k \in m + 1 .. Len(t) : ~A(t[k])
      BY <2>2
    <3>2. m \in 1 .. Len(q)
      BY <1>4, <1>6, <3>1
    <3>3. \A k \in m + 1 .. Len(q) : ~A(q[k])
      <4> SUFFICES ASSUME NEW k \in m + 1 .. Len(q) PROVE ~A(q[k])
        OBVIOUS
      <4>1. k \in 1 .. Len(q) /\ k \in m + 1 .. Len(t)
        BY <1>1
      <4> QED
        BY <1>4, <3>1, <4>1
    <3>4. t[m] = q[m]
      BY <1>4, <3>2
    <3> QED
      BY <3>1, <3>2, <3>3, <3>4
  <2> HIDE DEF In
  <2>3. LastIn(t, kind, id) = LastIn(q, kind, id)
    BY <1>2, <2>1, <2>2
  <2> QED
    BY <1>3, <1>6, <2>3 DEF t
<1>7. CASE \E k \in 1 .. Len(r) : A(r[k])
  <2>1. ASSUME NEW e, In(r, e) PROVE In(t, e)
    <3>1. PICK m \in 1 .. Len(r) : e = r[m] /\ A(r[m]) /\ \A k \in m + 1 .. Len(r) : ~A(r[k])
      BY <2>1
    <3>2. PICK n : n = m + Len(q)
      OBVIOUS
    <3>3. n \in 1 .. Len(t) /\ t[n] = r[m]
      BY <1>5, <3>2
    <3>4. \A k \in n + 1 .. Len(t) : ~A(t[k])
      <4> SUFFICES ASSUME NEW k \in n + 1 .. Len(t) PROVE ~A(t[k])
        OBVIOUS
      <4>1. k \in 1 .. Len(t) /\ k \notin 1 .. Len(q) /\ k - Len(q) \in m + 1 .. Len(r)
        BY <1>1, <3>2
      <4> QED
        BY <1>4, <3>1, <4>1
    <3> QED
      BY <3>1, <3>3, <3>4
  <2>2. ASSUME NEW e, In(t, e) PROVE In(r, e)
    <3>1. PICK m \in 1 .. Len(t) : e = t[m] /\ A(t[m]) /\ \A k \in m + 1 .. Len(t) : ~A(t[k])
      BY <2>2
    <3>2. m \notin 1 .. Len(q)
      <4>1. PICK k \in 1 .. Len(r) : A(r[k])
        BY <1>7
      <4>2. k + Len(q) \in 1 .. Len(t) /\ A(t[k + Len(q)])
        BY <1>5, <4>1
      <4>3. m \in 1 .. Len(q) => k + Len(q) \in m + 1 .. Len(t)
        BY <1>1
      <4> QED
        BY <3>1, <4>2, <4>3
    <3>3. PICK n : n = m - Len(q)
      OBVIOUS
    <3>4. n \in 1 .. Len(r) /\ t[m] = r[n]
      BY <1>4, <3>2, <3>3
    <3>5. \A k \in n + 1 .. Len(r) : ~A(r[k])
      <4> SUFFICES ASSUME NEW k \in n + 1 .. Len(r) PROVE ~A(r[k])
        OBVIOUS
      <4>1. k \in 1 .. Len(r) /\ k + Len(q) \in m + 1 .. Len(t)
        BY <1>1, <3>3, <3>4
      <4> QED
        BY <1>5, <3>1, <4>1
    <3> QED
      BY <3>1, <3>4, <3>5
  <2> HIDE DEF In
  <2>3. LastIn(t, kind, id) = LastIn(r, kind, id)
    BY <1>2, <2>1, <2>2
  <2> QED
    BY <1>3, <1>7, <2>3 DEF t
<1> QED
  BY <1>6, <1>7

(* Of a single event. *)
LEMMA LastOfOne ==
    ASSUME NEW e, NEW kind, NEW id
    PROVE  /\ Silent(<<>>, kind, id) /\ LastIn(<<>>, kind, id) = {}
           /\ Silent(<<e>>, kind, id) <=> ~IsAbout(e, kind, id)
           /\ LastIn(<<e>>, kind, id) = IF IsAbout(e, kind, id) THEN {e} ELSE {}
<1>1. Len(<<>>) = 0 /\ Len(<<e>>) = 1 /\ <<e>>[1] = e /\ 1 .. 0 = {} /\ 1 .. 1 = {1} /\ 1 + 1 .. 1 = {}
  OBVIOUS
<1>2. Silent(<<>>, kind, id) /\ LastIn(<<>>, kind, id) = {}
  BY <1>1 DEF Silent, LastIn
<1>3. Silent(<<e>>, kind, id) <=> ~IsAbout(e, kind, id)
  BY <1>1 DEF Silent
<1>4. LastIn(<<e>>, kind, id) = IF IsAbout(e, kind, id) THEN {e} ELSE {}
  BY <1>1 DEF LastIn
<1> QED
  BY <1>2, <1>3, <1>4

-----------------------------------------------------------------------------
(* The events of one round                                                 *)

Controllers ==
    [buttons : SUBSET Buttons,
     touches : [Slots -> [id : TouchIds \cup {NoTouch}, at : Places]],
     touch_id_next : TouchIds, sticks : Sticks]

Events == [kind : {"button", "touch"}, id : Int, down : BOOLEAN, at : Places \cup {0}]

Flips(prev, now, b) == (b \in prev.buttons) # (b \in now.buttons)

(* A button that changed is told of, with what it is now. *)
LEMMA ButtonsTold ==
    ASSUME NEW prev \in Controllers, NEW now \in Controllers,
           NEW new, new = Joined([b \in Buttons |-> ButtonEvent(prev, now, b)])
    PROVE  /\ new \in Seq(Events)
           /\ \A b \in Buttons : Flips(prev, now, b) =>
                 ~Silent(new, "button", b) /\ LastIn(new, "button", b) = {Button(b, b \in now.buttons)}
           /\ \A b \in Buttons : ~Flips(prev, now, b) => Silent(new, "button", b)
           /\ \A t \in Int : Silent(new, "touch", t)
<1> DEFINE pieces == [b \in Buttons |-> ButtonEvent(prev, now, b)]
<1>0. NButtons \in Nat /\ Buttons = 1 .. NButtons
  BY FeedbackAssumption DEF Buttons
<1>1. \A b \in Buttons : /\ Button(b, b \in now.buttons) \in Events
                         /\ pieces[b] = IF Flips(prev, now, b) THEN <<Button(b, b \in now.buttons)>> ELSE <<>>
  BY <1>0 DEF Button, Events, ButtonEvent, Flips
<1>2. \A b \in Buttons : pieces[b] \in Seq(Events)
  <2>1. ASSUME NEW b \in Buttons PROVE <<Button(b, b \in now.buttons)>> \in Seq(Events)
    <3>1. PICK e \in Events : e = Button(b, b \in now.buttons)
      BY <1>1
    <3> QED
      BY <3>1
  <2>2. <<>> \in Seq(Events)
    OBVIOUS
  <2> HIDE DEF pieces
  <2> QED
    BY <1>1, <2>1, <2>2
<1>3. DOMAIN pieces = 1 .. NButtons
  BY <1>0
<1>7. new = Joined(pieces)
  OBVIOUS
<1> HIDE DEF pieces
<1>4. pieces \in Seq(Seq(Events)) /\ Len(pieces) = NButtons
  <2>1. pieces \in [1 .. NButtons -> Seq(Events)]
    <3>1. pieces = [b \in 1 .. NButtons |-> pieces[b]]
      BY <1>0 DEF pieces
    <3> QED
      BY <1>0, <1>2, <3>1
  <2> QED
    BY <1>0, <2>1
<1>5. PICK f : Grows(f, pieces, Events) /\ Joined(pieces) = f[Len(pieces)]
  BY <1>4, JoinedGrows
<1>6. /\ f \in [0 .. NButtons -> Seq(Events)] /\ f[0] = <<>> /\ new = f[NButtons]
      /\ \A k \in 1 .. NButtons : f[k] = f[k - 1] \o pieces[k]
  BY <1>4, <1>5, <1>7 DEF Grows
<1> DEFINE Told(q, k) ==
             /\ \A b \in Buttons : b <= k /\ Flips(prev, now, b) =>
                   ~Silent(q, "button", b) /\ LastIn(q, "button", b) = {Button(b, b \in now.buttons)}
             /\ \A b \in Buttons : ~(b <= k /\ Flips(prev, now, b)) => Silent(q, "button", b)
             /\ \A t \in Int : Silent(q, "touch", t)
           T == {k \in 0 .. NButtons : Told(f[k], k)}
<1>8. 0 \in T
  <2>1. \A b \in Buttons : ~(b <= 0)
    BY <1>0
  <2>2. \A kind, id : Silent(<<>>, kind, id)
    BY LastOfOne
  <2>3. Told(<<>>, 0)
    BY <2>1, <2>2
  <2> HIDE DEF Told
  <2> QED
    BY <1>0, <1>6, <2>3
<1>9. ASSUME NEW k \in 0 .. NButtons - 1, Told(f[k], k)
      PROVE  Told(f[k + 1], k + 1)
  <2>1. PICK n : n = k + 1
    OBVIOUS
  <2>2. n \in 1 .. NButtons /\ n - 1 = k /\ k \in 0 .. NButtons /\ n \in Buttons /\ n \in Int
    BY <1>0, <2>1
  <2>3. f[n] = f[k] \o pieces[n] /\ f[k] \in Seq(Events) /\ pieces[n] \in Seq(Events)
    BY <1>2, <1>6, <2>2
  <2>4. \A b \in Buttons : (b <= n <=> b <= k \/ b = n) /\ ~(n <= k)
    BY <1>0, <2>1
  <2>5. ASSUME NEW kind, NEW id
        PROVE  /\ Silent(f[n], kind, id) <=> Silent(f[k], kind, id) /\ Silent(pieces[n], kind, id)
               /\ LastIn(f[n], kind, id) = IF Silent(pieces[n], kind, id) THEN LastIn(f[k], kind, id)
                                           ELSE LastIn(pieces[n], kind, id)
    BY <2>3, SilentJoined, LastJoined
  <2>6. PICK e : e = Button(n, n \in now.buttons)
    OBVIOUS
  <2>7. /\ \A b : IsAbout(e, "button", b) <=> b = n
        /\ \A t : ~IsAbout(e, "touch", t)
    BY <2>6 DEF Button, IsAbout
  <2>8. pieces[n] = IF Flips(prev, now, n) THEN <<e>> ELSE <<>>
    BY <1>1, <2>2, <2>6
  <2>9. /\ \A t \in Int : Silent(pieces[n], "touch", t)
        /\ \A b \in Buttons : b # n => Silent(pieces[n], "button", b)
        /\ ~Flips(prev, now, n) => Silent(pieces[n], "button", n)
        /\ Flips(prev, now, n) => ~Silent(pieces[n], "button", n) /\ LastIn(pieces[n], "button", n) = {e}
    <3>1. CASE Flips(prev, now, n)
      <4>1. pieces[n] = <<e>>
        BY <2>8, <3>1
      <4>2. \A kind, id : Silent(<<e>>, kind, id) <=> ~IsAbout(e, kind, id)
        BY LastOfOne
      <4>3. LastIn(<<e>>, "button", n) = IF IsAbout(e, "button", n) THEN {e} ELSE {}
        BY LastOfOne
      <4> QED
        BY <2>7, <3>1, <4>1, <4>2, <4>3
    <3>2. CASE ~Flips(prev, now, n)
      <4>1. pieces[n] = <<>>
        BY <2>8, <3>2
      <4>2. \A kind, id : Silent(<<>>, kind, id)
        BY LastOfOne
      <4> QED
        BY <3>2, <4>1, <4>2
    <3> QED
      BY <3>1, <3>2
  <2>10. \A t \in Int : Silent(f[n], "touch", t)
    BY <1>9, <2>5, <2>9
  <2>11. ASSUME NEW b \in Buttons
         PROVE  /\ b <= n /\ Flips(prev, now, b) =>
                     ~Silent(f[n], "button", b) /\ LastIn(f[n], "button", b) = {Button(b, b \in now.buttons)}
                /\ ~(b <= n /\ Flips(prev, now, b)) => Silent(f[n], "button", b)
    <3>1. CASE b = n
      <4>1. Silent(f[k], "button", n)
        BY <1>9, <2>2, <2>4
      <4> QED
        BY <2>4, <2>5, <2>6, <2>9, <3>1, <4>1
    <3>2. CASE b # n
      BY <1>9, <2>4, <2>5, <2>9, <3>2
    <3> QED
      BY <3>1, <3>2
  <2> QED
    BY <2>1, <2>10, <2>11
<1>10. \A k \in 0 .. NButtons - 1 : k \in T => k + 1 \in T
  <2>1. \A k \in 0 .. NButtons - 1 : k + 1 \in 0 .. NButtons
    BY <1>0
  <2> HIDE DEF Told
  <2> QED
    BY <1>9, <2>1
<1>11. NButtons \in T
  <2> HIDE DEF T
  <2>1. 0 .. NButtons \subseteq T
    BY <1>0, <1>8, <1>10, InductUpTo
  <2> QED
    BY <1>0, <2>1
<1>12. \A b \in Buttons : b <= NButtons
  BY <1>0
<1>13. new \in Seq(Events)
  BY <1>0, <1>6
<1> QED
  BY <1>6, <1>11, <1>12, <1>13

(* What is told of a touch is so. *)
LEMMA TouchEventTrue ==
    ASSUME NEW prev \in Controllers, NEW now \in Controllers, NEW s \in Slots
    PROVE  /\ TouchEvent(prev, now, s) \in Seq(Events)
           /\ \A b : Silent(TouchEvent(prev, now, s), "button", b)
           /\ \A t \in TouchIds : \A e \in LastIn(TouchEvent(prev, now, s), "touch", t) :
                 e.down => now.touches[s] = [id |-> t, at |-> e.at]
           /\ \A t \in TouchIds :
                 prev.touches[s].id = t /\ Silent(TouchEvent(prev, now, s), "touch", t)
                    => now.touches[s] = prev.touches[s]
<1>1. PICK p, n : p = prev.touches[s] /\ n = now.touches[s]
  OBVIOUS
<1>2. /\ p \in [id : TouchIds \cup {NoTouch}, at : Places]
      /\ n \in [id : TouchIds \cup {NoTouch}, at : Places]
  BY <1>1 DEF Controllers
<1>3. IdMod \in Nat /\ NoTouch \in Int /\ TouchIds \subseteq Int /\ NoTouch \notin TouchIds
  BY FeedbackAssumption DEF NoTouch, TouchIds
<1>4. PICK x : x = TouchEvent(prev, now, s)
  OBVIOUS
<1>5. x = IF p.id # n.id /\ p.id # NoTouch THEN <<Touch(p, FALSE)>>
          ELSE IF n.id # NoTouch /\ ~SameTouch(p, n) THEN <<Touch(n, TRUE)>> ELSE <<>>
  BY <1>1, <1>4 DEF TouchEvent
<1>6. /\ Touch(p, FALSE) \in Events /\ Touch(n, TRUE) \in Events
      /\ \A b : ~IsAbout(Touch(p, FALSE), "button", b) /\ ~IsAbout(Touch(n, TRUE), "button", b)
      /\ \A t : IsAbout(Touch(p, FALSE), "touch", t) <=> p.id = t
      /\ \A t : IsAbout(Touch(n, TRUE), "touch", t) <=> n.id = t
      /\ ~Touch(p, FALSE).down /\ Touch(n, TRUE).at = n.at
  BY <1>2, <1>3 DEF Touch, Events, IsAbout
<1>7. PICK gone, there : gone = Touch(p, FALSE) /\ there = Touch(n, TRUE)
  OBVIOUS
<1>8. CASE p.id # n.id /\ p.id # NoTouch
  <2>1. x = <<gone>>
    BY <1>5, <1>7, <1>8
  <2>2. gone \in Events /\ ~gone.down
    BY <1>6, <1>7
  <2>3. \A t \in TouchIds : \A e \in LastIn(x, "touch", t) : ~e.down
    BY <2>1, <2>2, LastOfOne
  <2>4. \A t \in TouchIds : p.id = t => ~Silent(x, "touch", t)
    BY <1>6, <1>7, <2>1, LastOfOne
  <2>5. \A b : Silent(x, "button", b)
    BY <1>6, <1>7, <2>1, LastOfOne
  <2>6. x \in Seq(Events)
    BY <2>1, <2>2
  <2> QED
    BY <1>1, <1>4, <2>3, <2>4, <2>5, <2>6
<1>9. CASE ~(p.id # n.id /\ p.id # NoTouch) /\ n.id # NoTouch /\ ~SameTouch(p, n)
  <2>1. x = <<there>>
    BY <1>5, <1>7, <1>9
  <2>2. there \in Events /\ there.at = n.at
    BY <1>6, <1>7
  <2>3. \A t \in TouchIds : \A e \in LastIn(x, "touch", t) : n = [id |-> t, at |-> e.at]
    <3> SUFFICES ASSUME NEW t \in TouchIds, NEW e \in LastIn(x, "touch", t)
                 PROVE  n = [id |-> t, at |-> e.at]
      OBVIOUS
    <3>1. e = there /\ IsAbout(there, "touch", t)
      BY <2>1, LastOfOne
    <3>2. n.id = t /\ n.at = e.at
      BY <1>6, <1>7, <2>2, <3>1
    <3> QED
      BY <1>2, <3>2
  <2>4. \A t \in TouchIds : p.id = t => ~Silent(x, "touch", t)
    <3>1. \A t \in TouchIds : p.id = t => n.id = t
      BY <1>3, <1>9
    <3> QED
      BY <1>6, <1>7, <2>1, <3>1, LastOfOne
  <2>5. \A b : Silent(x, "button", b)
    BY <1>6, <1>7, <2>1, LastOfOne
  <2>6. x \in Seq(Events)
    BY <2>1, <2>2
  <2> QED
    BY <1>1, <1>4, <2>3, <2>4, <2>5, <2>6
<1>10. CASE ~(p.id # n.id /\ p.id # NoTouch) /\ ~(n.id # NoTouch /\ ~SameTouch(p, n))
  <2>1. x = <<>>
    BY <1>5, <1>10
  <2>2. \A kind, id : Silent(x, kind, id) /\ LastIn(x, kind, id) = {}
    BY <2>1, LastOfOne
  <2>3. x \in Seq(Events)
    BY <2>1
  <2>4. \A t \in TouchIds : p.id = t => n = p
    <3> SUFFICES ASSUME p.id \in TouchIds PROVE n = p
      OBVIOUS
    <3>1. n.id = p.id /\ n.at = p.at
      BY <1>3, <1>10 DEF SameTouch
    <3> QED
      BY <1>2, <3>1
  <2> QED
    BY <1>1, <1>4, <2>2, <2>3, <2>4
<1> QED
  BY <1>8, <1>9, <1>10

(* All touches of a round: what it says of each is so, and it says nothing *)
(* only of those that stay where they are.                                 *)
LEMMA TouchesTold ==
    ASSUME NEW prev \in Controllers, NEW now \in Controllers,
           NEW new, new = Joined([s \in Slots |-> TouchEvent(prev, now, s)])
    PROVE  /\ new \in Seq(Events)
           /\ \A b \in Buttons : Silent(new, "button", b)
           /\ \A t \in TouchIds : \A e \in LastIn(new, "touch", t) :
                 e.down => \E s \in Slots : now.touches[s] = [id |-> t, at |-> e.at]
           /\ \A t \in TouchIds, s \in Slots :
                 prev.touches[s].id = t /\ Silent(new, "touch", t) => now.touches[s] = prev.touches[s]
<1> DEFINE pieces == [s \in Slots |-> TouchEvent(prev, now, s)]
<1>0. NSlots \in Nat /\ Slots = 1 .. NSlots
  BY FeedbackAssumption DEF Slots
<1>1. \A s \in Slots : pieces[s] = TouchEvent(prev, now, s)
  OBVIOUS
<1>2. \A s \in Slots :
         /\ pieces[s] \in Seq(Events)
         /\ \A b : Silent(pieces[s], "button", b)
         /\ \A t \in TouchIds : \A e \in LastIn(pieces[s], "touch", t) :
               e.down => now.touches[s] = [id |-> t, at |-> e.at]
         /\ \A t \in TouchIds :
               prev.touches[s].id = t /\ Silent(pieces[s], "touch", t) => now.touches[s] = prev.touches[s]
  <2> HIDE DEF pieces
  <2> QED
    BY <1>1, TouchEventTrue
<1>3. pieces = [s \in 1 .. NSlots |-> pieces[s]]
  BY <1>0
<1>4. new = Joined(pieces)
  OBVIOUS
<1> HIDE DEF pieces
<1>5. pieces \in Seq(Seq(Events)) /\ Len(pieces) = NSlots
  <2>1. pieces \in [1 .. NSlots -> Seq(Events)]
    BY <1>0, <1>2, <1>3
  <2> QED
    BY <1>0, <2>1
<1>6. PICK f : Grows(f, pieces, Events) /\ Joined(pieces) = f[Len(pieces)]
  BY <1>5, JoinedGrows
<1>7. /\ f \in [0 .. NSlots -> Seq(Events)] /\ f[0] = <<>> /\ new = f[NSlots]
      /\ \A k \in 1 .. NSlots : f[k] = f[k - 1] \o pieces[k]
  BY <1>4, <1>5, <1>6 DEF Grows
<1> DEFINE Told(q, k) ==
             /\ \A b \in Buttons : Silent(q, "button", b)
             /\ \A t \in TouchIds : \A e \in LastIn(q, "touch", t) :
                   e.down => \E s \in Slots : now.touches[s] = [id |-> t, at |-> e.at]
             /\ \A t \in TouchIds, s \in Slots :
                   s <= k /\ prev.touches[s].id = t /\ Silent(q, "touch", t) => now.touches[s] = prev.touches[s]
           T == {k \in 0 .. NSlots : Told(f[k], k)}
<1>8. 0 \in T
  <2>1. \A s \in Slots : ~(s <= 0)
    BY <1>0
  <2>2. \A kind, id : Silent(<<>>, kind, id) /\ LastIn(<<>>, kind, id) = {}
    BY LastOfOne
  <2>3. Told(<<>>, 0)
    BY <2>1, <2>2
  <2> HIDE DEF Told
  <2> QED
    BY <1>0, <1>7, <2>3
<1>9. ASSUME NEW k \in 0 .. NSlots - 1, Told(f[k], k)
      PROVE  Told(f[k + 1], k + 1)
  <2>1. PICK n : n = k + 1
    OBVIOUS
  <2>2. n \in 1 .. NSlots /\ n - 1 = k /\ k \in 0 .. NSlots /\ n \in Slots
    BY <1>0, <2>1
  <2>3. f[n] = f[k] \o pieces[n] /\ f[k] \in Seq(Events) /\ pieces[n] \in Seq(Events)
    BY <1>2, <1>7, <2>2
  <2>4. \A s \in Slots : s <= n <=> s <= k \/ s = n
    BY <1>0, <2>1
  <2>5. ASSUME NEW kind, NEW id
        PROVE  /\ Silent(f[n], kind, id) <=> Silent(f[k], kind, id) /\ Silent(pieces[n], kind, id)
               /\ LastIn(f[n], kind, id) = IF Silent(pieces[n], kind, id) THEN LastIn(f[k], kind, id)
                                           ELSE LastIn(pieces[n], kind, id)
    BY <2>3, SilentJoined, LastJoined
  <2>6. \A b \in Buttons : Silent(f[n], "button", b)
    BY <1>2, <1>9, <2>2, <2>5
  <2>7. ASSUME NEW t \in TouchIds, NEW e \in LastIn(f[n], "touch", t), e.down
        PROVE  \E s \in Slots : now.touches[s] = [id |-> t, at |-> e.at]
    <3>1. e \in LastIn(f[k], "touch", t) \/ e \in LastIn(pieces[n], "touch", t)
      BY <2>5, <2>7
    <3> QED
      BY <1>2, <1>9, <2>2, <2>7, <3>1
  <2>8. ASSUME NEW t \in TouchIds, NEW s \in Slots, s <= n, prev.touches[s].id = t, Silent(f[n], "touch", t)
        PROVE  now.touches[s] = prev.touches[s]
    <3>1. Silent(f[k], "touch", t) /\ Silent(pieces[n], "touch", t)
      BY <2>5, <2>8
    <3>2. s <= k \/ s = n
      BY <2>4, <2>8
    <3> QED
      BY <1>2, <1>9, <2>8, <3>1, <3>2
  <2> QED
    BY <2>1, <2>6, <2>7, <2>8
<1>10. \A k \in 0 .. NSlots - 1 : k \in T => k + 1 \in T
  <2>1. \A k \in 0 .. NSlots - 1 : k + 1 \in 0 .. NSlots
    BY <1>0
  <2> HIDE DEF Told
  <2> QED
    BY <1>9, <2>1
<1>11. NSlots \in T
  <2> HIDE DEF T
  <2>1. 0 .. NSlots \subseteq T
    BY <1>0, <1>8, <1>10, InductUpTo
  <2> QED
    BY <1>0, <2>1
<1>12. \A s \in Slots : s <= NSlots
  BY <1>0
<1>13. new \in Seq(Events)
  BY <1>0, <1>7
<1> QED
  BY <1>7, <1>11, <1>12, <1>13

-----------------------------------------------------------------------------
(* What the console knows                                                  *)

(* The thread has sent what the application has set, or there is a change. *)
FeedbackTyped ==
    /\ controller_state \in Controllers /\ controller_state_prev \in Controllers
    /\ controller_state_changed \in BOOLEAN
    /\ told \in Seq(Events)
    /\ ~controller_state_changed => controller_state = controller_state_prev

(* The application sets states of a controller. *)
LEMMA ChangedTyped ==
    ASSUME NEW c \in Controllers, NEW d \in Changed(c)
    PROVE  d \in Controllers
<1>1. IdMod \in Nat \ {0} /\ NSlots \in Nat /\ Slots = 1 .. NSlots /\ TouchIds = 0 .. IdMod - 1
  BY FeedbackAssumption DEF Slots, TouchIds
<1> DEFINE Touches == [id : TouchIds \cup {NoTouch}, at : Places]
<1>2. /\ c.touches \in [Slots -> Touches] /\ c.touch_id_next \in TouchIds
      /\ c.buttons \subseteq Buttons /\ c.sticks \in Sticks
  BY DEF Controllers
<1>3. CASE d \in {[c EXCEPT !.buttons = @ \cup {b}] : b \in Buttons}
               \cup {[c EXCEPT !.buttons = @ \ {b}] : b \in Buttons}
               \cup {[c EXCEPT !.sticks = v] : v \in Sticks}
  BY <1>3 DEF Controllers
<1>4. ASSUME NEW slot \in Slots, NEW t \in Touches
      PROVE  [c.touches EXCEPT ![slot] = t] \in [Slots -> Touches]
  BY <1>2
<1>5. CASE \E at \in Places : d = StartTouch(c, at)
  <2>1. PICK at \in Places : d = StartTouch(c, at)
    BY <1>5
  <2> DEFINE free == {s \in Slots : c.touches[s].id = NoTouch}
             slot == CHOOSE s \in free : \A t \in free : s <= t
             t == [id |-> c.touch_id_next, at |-> at]
             next == (c.touch_id_next + 1) % IdMod
  <2>2. CASE free = {}
    BY <2>1, <2>2 DEF StartTouch
  <2>3. CASE free # {}
    <3>1. d = [c EXCEPT !.touches[slot] = t, !.touch_id_next = next]
      BY <2>1, <2>3 DEF StartTouch
    <3>2. slot \in Slots
      <4>1. free \in SUBSET Nat /\ free \subseteq Slots
        BY <1>1
      <4> HIDE DEF free
      <4>2. \E s \in free : \A u \in free : s <= u
        BY <2>3, <4>1, LeastNumber
      <4> QED
        BY <4>1, <4>2
    <3>3. t \in Touches
      BY <1>2
    <3>4. next \in TouchIds
      <4>1. c.touch_id_next + 1 \in Nat
        BY <1>1, <1>2
      <4> QED
        BY <1>1, <4>1
    <3> HIDE DEF slot, t, next, Touches
    <3>5. [c.touches EXCEPT ![slot] = t] \in [Slots -> Touches]
      BY <1>4, <3>2, <3>3
    <3> QED
      BY <3>1, <3>4, <3>5 DEF Controllers, Touches
  <2> QED
    BY <2>2, <2>3
<1>6. CASE \E s \in Slots : d = StopTouch(c, s)
  <2>1. PICK s \in Slots : d = [c EXCEPT !.touches[s].id = NoTouch]
    BY <1>6 DEF StopTouch
  <2>2. [c.touches[s] EXCEPT !.id = NoTouch] \in Touches
    BY <1>2
  <2>3. [c.touches EXCEPT ![s] = [c.touches[s] EXCEPT !.id = NoTouch]] \in [Slots -> Touches]
    BY <1>4, <2>2
  <2> QED
    BY <2>1, <2>3 DEF Controllers
<1>7. CASE \E s \in Slots, at \in Places : d = MoveTouch(c, s, at)
  <2>1. PICK s \in Slots, at \in Places : d = [c EXCEPT !.touches[s].at = at]
    BY <1>7 DEF MoveTouch
  <2>2. [c.touches[s] EXCEPT !.at = at] \in Touches
    BY <1>2
  <2>3. [c.touches EXCEPT ![s] = [c.touches[s] EXCEPT !.at = at]] \in [Slots -> Touches]
    BY <1>4, <2>2
  <2> QED
    BY <2>1, <2>3 DEF Controllers
<1> QED
  BY <1>3, <1>5, <1>6, <1>7 DEF Changed

(* What a round sends. *)
Fresh ==
    IF controller_state_changed /\ ~SameForHistory(controller_state, controller_state_prev)
    THEN HistoryEvents(controller_state_prev, controller_state) ELSE <<>>

(* All that happened to buttons and touches since the last round is told. *)
LEMMA FreshTold ==
    ASSUME FeedbackTyped
    PROVE  /\ Fresh \in Seq(Events)
           /\ \A b \in Buttons : Flips(controller_state_prev, controller_state, b) =>
                 /\ ~Silent(Fresh, "button", b)
                 /\ LastIn(Fresh, "button", b) = {Button(b, b \in controller_state.buttons)}
           /\ \A b \in Buttons : ~Flips(controller_state_prev, controller_state, b) => Silent(Fresh, "button", b)
           /\ \A t \in TouchIds : \A e \in LastIn(Fresh, "touch", t) :
                 e.down => \E s \in Slots : controller_state.touches[s] = [id |-> t, at |-> e.at]
           /\ \A t \in TouchIds, s \in Slots :
                 controller_state_prev.touches[s].id = t /\ Silent(Fresh, "touch", t) =>
                    controller_state.touches[s] = controller_state_prev.touches[s]
<1>1. PICK prev, now : prev = controller_state_prev /\ now = controller_state
  OBVIOUS
<1>2. prev \in Controllers /\ now \in Controllers
  BY <1>1 DEF FeedbackTyped
<1>3. CASE controller_state_changed /\ ~SameForHistory(controller_state, controller_state_prev)
  <2>1. PICK q, r : /\ q = Joined([b \in Buttons |-> ButtonEvent(prev, now, b)])
                    /\ r = Joined([s \in Slots |-> TouchEvent(prev, now, s)])
    OBVIOUS
  <2>2. Fresh = q \o r
    BY <1>1, <1>3, <2>1 DEF Fresh, HistoryEvents
  <2>3. /\ q \in Seq(Events)
        /\ \A b \in Buttons : Flips(prev, now, b) =>
              ~Silent(q, "button", b) /\ LastIn(q, "button", b) = {Button(b, b \in now.buttons)}
        /\ \A b \in Buttons : ~Flips(prev, now, b) => Silent(q, "button", b)
        /\ \A t \in Int : Silent(q, "touch", t)
    BY <1>2, <2>1, ButtonsTold
  <2>4. /\ r \in Seq(Events)
        /\ \A b \in Buttons : Silent(r, "button", b)
        /\ \A t \in TouchIds : \A e \in LastIn(r, "touch", t) :
              e.down => \E s \in Slots : now.touches[s] = [id |-> t, at |-> e.at]
        /\ \A t \in TouchIds, s \in Slots :
              prev.touches[s].id = t /\ Silent(r, "touch", t) => now.touches[s] = prev.touches[s]
    BY <1>2, <2>1, TouchesTold
  <2>5. ASSUME NEW kind, NEW id
        PROVE  /\ Silent(Fresh, kind, id) <=> Silent(q, kind, id) /\ Silent(r, kind, id)
               /\ LastIn(Fresh, kind, id) = IF Silent(r, kind, id) THEN LastIn(q, kind, id)
                                            ELSE LastIn(r, kind, id)
    BY <2>2, <2>3, <2>4, SilentJoined, LastJoined
  <2>6. Fresh \in Seq(Events)
    BY <2>2, <2>3, <2>4, ConcatProperties
  <2>7. ASSUME NEW t \in TouchIds, NEW e \in LastIn(Fresh, "touch", t), e.down
        PROVE  \E s \in Slots : now.touches[s] = [id |-> t, at |-> e.at]
    <3>1. t \in Int
      BY FeedbackAssumption DEF TouchIds
    <3>2. Silent(q, "touch", t)
      BY <2>3, <3>1
    <3>3. e \in LastIn(r, "touch", t)
      <4>1. \A x \in LastIn(q, "touch", t) : FALSE
        BY <3>2 DEF Silent, LastIn
      <4> QED
        BY <2>5, <2>7, <4>1
    <3> QED
      BY <2>4, <2>7, <3>3
  <2>8. \A b \in Buttons : Flips(prev, now, b) =>
           ~Silent(Fresh, "button", b) /\ LastIn(Fresh, "button", b) = {Button(b, b \in now.buttons)}
    BY <2>3, <2>4, <2>5
  <2>9. \A b \in Buttons : ~Flips(prev, now, b) => Silent(Fresh, "button", b)
    BY <2>3, <2>4, <2>5
  <2>10. \A t \in TouchIds, s \in Slots :
            prev.touches[s].id = t /\ Silent(Fresh, "touch", t) => now.touches[s] = prev.touches[s]
    BY <2>4, <2>5
  <2> QED
    BY <1>1, <2>6, <2>7, <2>8, <2>9, <2>10
<1>4. CASE ~(controller_state_changed /\ ~SameForHistory(controller_state, controller_state_prev))
  <2>1. Fresh = <<>>
    BY <1>4 DEF Fresh
  <2>2. \A kind, id : Silent(Fresh, kind, id) /\ LastIn(Fresh, kind, id) = {}
    BY <2>1, LastOfOne
  <2>3. SameForHistory(now, prev)
    BY <1>1, <1>4 DEF FeedbackTyped, SameForHistory, SameTouch
  <2>4. \A b \in Buttons : ~Flips(prev, now, b)
    BY <2>3 DEF SameForHistory, Flips
  <2>5. ASSUME NEW t \in TouchIds, NEW s \in Slots, prev.touches[s].id = t
        PROVE  now.touches[s] = prev.touches[s]
    <3>1. /\ now.touches[s] \in [id : TouchIds \cup {NoTouch}, at : Places]
          /\ prev.touches[s] \in [id : TouchIds \cup {NoTouch}, at : Places]
      BY <1>2 DEF Controllers
    <3>2. NoTouch \notin TouchIds
      BY FeedbackAssumption DEF NoTouch, TouchIds
    <3>3. now.touches[s].id = prev.touches[s].id /\ now.touches[s].at = prev.touches[s].at
      BY <2>3, <2>5, <3>2 DEF SameForHistory, SameTouch
    <3> QED
      BY <3>1, <3>3
  <2>6. Fresh \in Seq(Events)
    BY <2>1
  <2> QED
    BY <1>1, <2>2, <2>4, <2>5, <2>6
<1> QED
  BY <1>3, <1>4

(* After a round the console knows the state that was sent in it. *)
LEMMA FollowRound ==
    ASSUME FeedbackTyped, ConsoleFollows, NEW arrives, Round(arrives)
    PROVE  FeedbackTyped' /\ ConsoleFollows'
<1>1. PICK prev, now, new, q : prev = controller_state_prev /\ now = controller_state /\ new = Fresh /\ q = told
  OBVIOUS
<1>2. /\ controller_state_changed' = FALSE /\ controller_state' = now /\ controller_state_prev' = now
      /\ told' = q \o new
  BY <1>1 DEF Round, Remember, SendHistory, Fresh
<1>3. prev \in Controllers /\ now \in Controllers /\ q \in Seq(Events)
  BY <1>1 DEF FeedbackTyped
<1>4. /\ new \in Seq(Events)
      /\ \A b \in Buttons : Flips(prev, now, b) =>
            ~Silent(new, "button", b) /\ LastIn(new, "button", b) = {Button(b, b \in now.buttons)}
      /\ \A b \in Buttons : ~Flips(prev, now, b) => Silent(new, "button", b)
      /\ \A t \in TouchIds : \A e \in LastIn(new, "touch", t) :
            e.down => \E s \in Slots : now.touches[s] = [id |-> t, at |-> e.at]
      /\ \A t \in TouchIds, s \in Slots :
            prev.touches[s].id = t /\ Silent(new, "touch", t) => now.touches[s] = prev.touches[s]
  BY <1>1, FreshTold
<1>5. FeedbackTyped'
  <2>1. told' \in Seq(Events)
    BY <1>2, <1>3, <1>4, ConcatProperties
  <2> QED
    BY <1>2, <1>3, <2>1 DEF FeedbackTyped
<1>6. ASSUME NEW kind, NEW id
      PROVE  LastOf(kind, id)' = IF Silent(new, kind, id) THEN LastIn(q, kind, id) ELSE LastIn(new, kind, id)
  <2>1. LastIn(q \o new, kind, id) =
           IF Silent(new, kind, id) THEN LastIn(q, kind, id) ELSE LastIn(new, kind, id)
    BY <1>3, <1>4, LastJoined
  <2> QED
    BY <1>2, <2>1 DEF LastOf
<1>7. ASSUME NEW b \in Buttons
      PROVE  IsDown("button", b)' <=> b \in now.buttons
  <2>1. (\E e \in LastIn(q, "button", b) : e.down) <=> b \in prev.buttons
    BY <1>1 DEF ConsoleFollows, IsDown, LastOf
  <2>2. IsDown("button", b)' <=> \E e \in LastOf("button", b)' : e.down
    BY DEF IsDown
  <2>3. CASE Flips(prev, now, b)
    <3>1. LastOf("button", b)' = {Button(b, b \in now.buttons)}
      BY <1>4, <1>6, <2>3
    <3>2. Button(b, b \in now.buttons).down <=> b \in now.buttons
      BY DEF Button
    <3> QED
      BY <2>2, <3>1, <3>2
  <2>4. CASE ~Flips(prev, now, b)
    <3>1. LastOf("button", b)' = LastIn(q, "button", b)
      BY <1>4, <1>6, <2>4
    <3> QED
      BY <2>1, <2>2, <2>4, <3>1 DEF Flips
  <2> QED
    BY <2>3, <2>4
<1>8. ASSUME NEW t \in TouchIds, NEW e, e \in LastOf("touch", t)', e.down
      PROVE  \E s \in Slots, x \in LastOf("touch", t)' : now.touches[s] = [id |-> t, at |-> x.at]
  <2>1. CASE Silent(new, "touch", t)
    <3>1. LastOf("touch", t)' = LastIn(q, "touch", t)
      BY <1>6, <2>1
    <3>2. PICK s \in Slots, x \in LastIn(q, "touch", t) : prev.touches[s] = [id |-> t, at |-> x.at]
      BY <1>1, <1>8, <3>1 DEF ConsoleFollows, IsDown, LastOf
    <3>3. now.touches[s] = prev.touches[s]
      BY <1>4, <2>1, <3>2
    <3> QED
      BY <3>1, <3>2, <3>3
  <2>2. CASE ~Silent(new, "touch", t)
    <3>1. LastOf("touch", t)' = LastIn(new, "touch", t)
      BY <1>6, <2>2
    <3>2. PICK s \in Slots : now.touches[s] = [id |-> t, at |-> e.at]
      BY <1>4, <1>8, <3>1
    <3> QED
      BY <1>8, <3>2
  <2> QED
    BY <2>1, <2>2
<1>9. ConsoleFollows'
  BY <1>2, <1>7, <1>8 DEF ConsoleFollows, IsDown
<1> QED
  BY <1>5, <1>9

LEMMA FollowInit == FeedbackInit => FeedbackTyped /\ ConsoleFollows
<1> SUFFICES ASSUME FeedbackInit PROVE FeedbackTyped /\ ConsoleFollows
  OBVIOUS
<1>1. IdleState \in Controllers /\ IdleState.buttons = {}
  <2>1. (CHOOSE p \in Places : TRUE) \in Places
    BY FeedbackAssumption
  <2>2. 0 \in TouchIds
    BY FeedbackAssumption DEF TouchIds
  <2> QED
    BY <2>1, <2>2, FeedbackAssumption DEF IdleState, Controllers
<1>2. FeedbackTyped
  <2>1. controller_state \in Controllers /\ controller_state_prev \in Controllers
    BY <1>1 DEF FeedbackInit
  <2>2. controller_state_changed \in BOOLEAN /\ controller_state = controller_state_prev
    BY DEF FeedbackInit
  <2>3. told \in Seq(Events)
    BY DEF FeedbackInit
  <2> QED
    BY <2>1, <2>2, <2>3 DEF FeedbackTyped
<1>3. \A kind, id : LastOf(kind, id) = {}
  <2>1. told = <<>>
    BY DEF FeedbackInit
  <2> QED
    BY <2>1, LastOfOne DEF LastOf
<1>4. ConsoleFollows
  BY <1>1, <1>3 DEF FeedbackInit, ConsoleFollows, IsDown
<1> QED
  BY <1>2, <1>4

(* Only a round of the thread tells the console of anything. *)
LEMMA FollowStep ==
    FeedbackTyped /\ ConsoleFollows /\ [FeedbackNext]_feedbackVars => FeedbackTyped' /\ ConsoleFollows'
<1> SUFFICES ASSUME FeedbackTyped, ConsoleFollows, [FeedbackNext]_feedbackVars
             PROVE  FeedbackTyped' /\ ConsoleFollows'
  OBVIOUS
<1>1. CASE \E arrives \in BOOLEAN : Round(arrives)
  BY <1>1, FollowRound
<1>2. CASE SetFeedbackState
  <2>1. /\ controller_state' \in Changed(controller_state) /\ controller_state_changed' = TRUE
        /\ UNCHANGED <<controller_state_prev, told>>
    BY <1>2 DEF SetFeedbackState
  <2>2. controller_state' \in Controllers
    BY <2>1, ChangedTyped DEF FeedbackTyped
  <2> QED
    BY <2>1, <2>2 DEF FeedbackTyped, ConsoleFollows, IsDown, LastOf
<1>3. CASE Leave \/ Fini \/ UNCHANGED feedbackVars
  <2>1. UNCHANGED <<controller_state, controller_state_prev, controller_state_changed, told>>
    BY <1>3 DEF Leave, Fini, feedbackVars
  <2> QED
    BY <2>1 DEF FeedbackTyped, ConsoleFollows, IsDown, LastOf
<1> QED
  BY <1>1, <1>2, <1>3 DEF FeedbackNext, Thread

(* The history events leave the console with the buttons and the touches   *)
(* of the state that the thread last sent, however many changes went by    *)
(* between two of its rounds, for every number of buttons and of slots.    *)
THEOREM EventsFollowed == FeedbackSpec => []ConsoleFollows
  BY FollowInit, FollowStep, PTL DEF FeedbackSpec

-----------------------------------------------------------------------------
(* The history                                                             *)

Histories == [events : [0 .. HistorySize - 1 -> Events \cup {<<>>}], begin : 0 .. HistorySize - 1,
              len : Nat]

Kept(n) == IF n < HistorySize THEN n ELSE HistorySize

(* The buffer has the newest of the first n events, the newest first. *)
HasNewest(buf, seq, n) ==
    /\ buf \in Histories
    /\ buf.len = Kept(n)
    /\ \A i \in 0 .. Kept(n) - 1 : buf.events[(buf.begin + i) % HistorySize] = seq[n - i]

(* Pushing leaves a ring buffer of events. *)
LEMMA PushTyped ==
    ASSUME NEW buf \in Histories, NEW e \in Events
    PROVE  HistoryPush(buf, e) \in Histories
<1>1. HistorySize \in Nat \ {0}
  BY FeedbackAssumption
<1>2. PICK begin : begin = (buf.begin + HistorySize - 1) % HistorySize
  OBVIOUS
<1>3. begin \in 0 .. HistorySize - 1
  <2>1. PICK x : x = buf.begin + HistorySize - 1
    OBVIOUS
  <2>2. x \in Nat
    BY <1>1, <2>1 DEF Histories
  <2> QED
    BY <1>1, <1>2, <2>1, <2>2, DivMod
<1>4. HistoryPush(buf, e) =
         [events |-> [buf.events EXCEPT ![begin] = e], begin |-> begin,
          len |-> IF buf.len + 1 >= HistorySize THEN HistorySize ELSE buf.len + 1]
  BY <1>2 DEF HistoryPush
<1>5. [buf.events EXCEPT ![begin] = e] \in [0 .. HistorySize - 1 -> Events \cup {<<>>}]
  BY <1>3 DEF Histories
<1>6. (IF buf.len + 1 >= HistorySize THEN HistorySize ELSE buf.len + 1) \in Nat
  BY <1>1 DEF Histories
<1> QED
  BY <1>3, <1>4, <1>5, <1>6 DEF Histories

(* Pushing the next event leaves the newest ones. *)
LEMMA PushKeepsNewest ==
    ASSUME NEW buf, NEW seq, NEW n \in Nat, HasNewest(buf, seq, n), seq[n + 1] \in Events
    PROVE  HasNewest(HistoryPush(buf, seq[n + 1]), seq, n + 1)
<1> DEFINE H == HistorySize
<1>0. PICK e, b, d, m : e = seq[n + 1] /\ b = buf.begin /\ d = (b + H - 1) % H /\ m = n + 1
  OBVIOUS
<1>1. H \in Nat \ {0}
  BY FeedbackAssumption
<1>2. /\ buf \in Histories /\ b \in 0 .. H - 1 /\ buf.len = Kept(n)
      /\ buf.events \in [0 .. H - 1 -> Events \cup {<<>>}]
      /\ \A i \in 0 .. Kept(n) - 1 : buf.events[(b + i) % H] = seq[n - i]
  BY <1>0 DEF HasNewest, Histories
<1>3. PICK pushed : pushed = HistoryPush(buf, e)
  OBVIOUS
<1>4. pushed \in Histories
  BY <1>0, <1>2, <1>3, PushTyped
<1>5. /\ pushed.events = [buf.events EXCEPT ![d] = e] /\ pushed.begin = d
      /\ pushed.len = IF buf.len + 1 >= H THEN H ELSE buf.len + 1
  BY <1>0, <1>3 DEF HistoryPush
<1>6. Kept(n) \in Nat /\ Kept(n) <= H /\ Kept(m) \in Nat /\ Kept(m) <= H /\ Kept(m) <= Kept(n) + 1
      /\ Kept(m) = IF Kept(n) + 1 >= H THEN H ELSE Kept(n) + 1
  BY <1>0, <1>1 DEF Kept
<1>7. pushed.len = Kept(m)
  BY <1>2, <1>5, <1>6
<1> HIDE DEF H
<1>8. d = IF b = 0 THEN H - 1 ELSE b - 1
  <2>1. PICK x : x = b + H - 1
    OBVIOUS
  <2>2. x \in Int /\ -H <= x /\ x < 2 * H /\ 0 <= x
    BY <1>1, <1>2, <2>1
  <2>3. x % H = IF x < 0 THEN x + H ELSE IF x < H THEN x ELSE x - H
    BY <1>1, <2>2, ModCases
  <2>4. d = x % H
    BY <1>0, <2>1
  <2> QED
    BY <1>1, <1>2, <2>1, <2>2, <2>3, <2>4
<1>9. d \in 0 .. H - 1
  BY <1>1, <1>2, <1>8
<1>10. ASSUME NEW i \in 0 .. Kept(m) - 1
       PROVE  pushed.events[(d + i) % H] = seq[m - i]
  <2>1. PICK x : x = d + i
    OBVIOUS
  <2>2. x \in Int /\ -H <= x /\ x < 2 * H /\ 0 <= x /\ i \in Int /\ 0 <= i /\ i < H
    BY <1>1, <1>6, <1>9, <2>1
  <2>3. x % H = IF x < 0 THEN x + H ELSE IF x < H THEN x ELSE x - H
    BY <1>1, <2>2, ModCases
  <2>4. x % H \in 0 .. H - 1
    BY <1>1, <2>2, <2>3
  <2>5. CASE i = 0
    <3>1. x % H = d
      BY <1>1, <1>9, <2>1, <2>2, <2>3, <2>5
    <3>2. pushed.events[d] = e
      BY <1>2, <1>5, <1>9
    <3>3. m - i = n + 1
      BY <1>0, <2>5
    <3> QED
      BY <1>0, <2>1, <3>1, <3>2, <3>3
  <2>6. CASE i # 0
    <3>1. PICK j, y : j = i - 1 /\ y = b + j
      OBVIOUS
    <3>2. j \in 0 .. Kept(n) - 1 /\ j \in Int /\ 0 <= j /\ j + 1 = i
      BY <1>6, <2>2, <2>6, <3>1
    <3>3. y \in Int /\ -H <= y /\ y < 2 * H /\ 0 <= y
      BY <1>1, <1>2, <1>6, <3>1, <3>2
    <3>4. y % H = IF y < 0 THEN y + H ELSE IF y < H THEN y ELSE y - H
      BY <1>1, <3>3, ModCases
    <3>5. x % H = y % H /\ x % H # d
      BY <1>1, <1>2, <1>8, <2>1, <2>2, <2>3, <2>6, <3>1, <3>3, <3>4
    <3>6. pushed.events[x % H] = buf.events[y % H]
      BY <1>2, <1>5, <2>4, <3>5
    <3>7. buf.events[y % H] = seq[n - j]
      BY <1>2, <3>1, <3>2
    <3>8. n - j = m - i
      BY <1>0, <2>2, <3>1
    <3> QED
      BY <2>1, <3>6, <3>7, <3>8
  <2> QED
    BY <2>5, <2>6
<1> QED
  BY <1>0, <1>3, <1>4, <1>5, <1>7, <1>10 DEF HasNewest, H

(* What a packet with the buffer says. *)
LEMMA FormatNewest ==
    ASSUME NEW buf, NEW seq, NEW n \in Nat, HasNewest(buf, seq, n)
    PROVE  HistoryFormat(buf) = [i \in 1 .. Kept(n) |-> seq[n + 1 - i]]
<1>1. HistorySize \in Nat \ {0} /\ Kept(n) \in Nat
  BY FeedbackAssumption DEF Kept
<1>2. buf.len = Kept(n) /\ buf.begin \in Nat
  BY <1>1 DEF HasNewest, Histories
<1>3. ASSUME NEW i \in 1 .. Kept(n)
      PROVE  buf.events[(buf.begin + i - 1) % HistorySize] = seq[n + 1 - i]
  <2>1. PICK j : j = i - 1
    OBVIOUS
  <2>2. j \in 0 .. Kept(n) - 1 /\ buf.begin + i - 1 = buf.begin + j /\ n + 1 - i = n - j
    BY <1>1, <1>2, <2>1
  <2> QED
    BY <2>2 DEF HasNewest
<1> QED
  BY <1>2, <1>3 DEF HistoryFormat

(* The buffer after each of some new events. *)
LEMMA PushedNewest ==
    ASSUME NEW q \in Seq(Events), NEW new \in Seq(Events), HasNewest(history_buf, q, Len(q))
    PROVE  \A n \in 0 .. Len(new) : HasNewest(Pushed(new, n), q \o new, Len(q) + n)
<1> DEFINE N == Len(new)
           c == history_buf
           step == [p \in (1 .. N) \X Histories |-> HistoryPush(p[2], new[p[1]])]
           P(g) == g = [k \in 0 .. N |-> IF k = 0 THEN c ELSE HistoryPush(g[k - 1], new[k])]
           f == CHOOSE g : P(g)
<1>1. \A n : f[n] = Pushed(new, n)
  BY DEF Pushed
<1>2. N \in Nat /\ Len(q) \in Nat /\ \A k \in 1 .. N : new[k] \in Events
  BY LenProperties, ElementOfSeq
<1>3. \A k \in 1 .. N, v \in Histories : step[<<k, v>>] = HistoryPush(v, new[k])
  OBVIOUS
<1>4. step \in [(1 .. N) \X Histories -> Histories]
  <2> SUFFICES ASSUME NEW p \in (1 .. N) \X Histories PROVE HistoryPush(p[2], new[p[1]]) \in Histories
    OBVIOUS
  <2>1. p[2] \in Histories /\ p[1] \in 1 .. N
    OBVIOUS
  <2>2. new[p[1]] \in Events
    BY <1>2, <2>1
  <2> QED
    BY <2>1, <2>2, PushTyped
<1>5. c \in Histories
  BY DEF HasNewest
<1> HIDE DEF step, f, N, c
<1>6. PICK h : FollowsSteps(h, N, Histories, c, step)
  BY <1>2, <1>4, <1>5, RecursionUpTo
<1>7. h \in [0 .. N -> Histories] /\ h[0] = c /\ \A k \in 1 .. N : h[k] = step[<<k, h[k - 1]>>]
  BY <1>6 DEF FollowsSteps
<1>8. \A k \in 1 .. N : k - 1 \in 0 .. N /\ h[k - 1] \in Histories
  BY <1>2, <1>7
<1>9. \A k \in 1 .. N : h[k] = HistoryPush(h[k - 1], new[k])
  BY <1>3, <1>7, <1>8
<1>10. P(h)
  BY <1>2, <1>7, <1>9
<1>11. P(f)
  <2> HIDE DEF P
  <2> QED
    BY <1>10 DEF f
<1>12. f[0] = c /\ \A k \in 1 .. N : f[k] = HistoryPush(f[k - 1], new[k])
  <2>1. \A n \in 0 .. N : f[n] = IF n = 0 THEN c ELSE HistoryPush(f[n - 1], new[n])
    BY <1>11, Zenon
  <2>2. 0 \in 0 .. N /\ \A k \in 1 .. N : k \in 0 .. N /\ k # 0
    BY <1>2
  <2> QED
    BY <2>1, <2>2
<1>13. PICK t, l : t = q \o new /\ l = Len(q)
  OBVIOUS
<1>14. /\ \A k \in 1 .. l : t[k] = q[k]
       /\ \A k \in 1 .. N : t[l + k] = new[k]
  <2>1. \A k \in 1 .. l + N : t[k] = IF k <= l THEN q[k] ELSE new[k - l]
    BY <1>13, ConcatProperties DEF N
  <2>2. ASSUME NEW k \in 1 .. N PROVE t[l + k] = new[k]
    <3>1. PICK m : m = l + k
      OBVIOUS
    <3>2. m \in 1 .. l + N /\ ~(m <= l) /\ m - l = k
      BY <1>2, <1>13, <3>1
    <3> QED
      BY <2>1, <3>1, <3>2
  <2>3. ASSUME NEW k \in 1 .. l PROVE t[k] = q[k]
    <3>1. k \in 1 .. l + N /\ k <= l
      BY <1>2, <1>13
    <3> QED
      BY <2>1, <3>1
  <2> QED
    BY <2>2, <2>3
<1> DEFINE T == {n \in 0 .. N : HasNewest(f[n], t, l + n)}
<1>15. 0 \in T
  <2>1. HistorySize \in Nat \ {0} /\ l \in Nat /\ l + 0 = l
    BY <1>2, <1>13, FeedbackAssumption
  <2>2. \A i \in 0 .. Kept(l) - 1 : l - i \in 1 .. l
    BY <2>1 DEF Kept
  <2>3. HasNewest(c, t, l)
    BY <1>13, <1>14, <2>2 DEF HasNewest, c
  <2> QED
    BY <1>2, <1>12, <2>1, <2>3
<1>16. \A n \in 0 .. N - 1 : n \in T => n + 1 \in T
  <2> SUFFICES ASSUME NEW n \in 0 .. N - 1, HasNewest(f[n], t, l + n)
               PROVE  HasNewest(f[n + 1], t, l + (n + 1)) /\ n + 1 \in 0 .. N
    OBVIOUS
  <2>1. PICK k, a : k = n + 1 /\ a = l + n
    OBVIOUS
  <2>2. k \in 1 .. N /\ k - 1 = n /\ k \in 0 .. N /\ a \in Nat /\ a + 1 = l + k
    BY <1>2, <1>13, <2>1
  <2>3. t[a + 1] = new[k] /\ new[k] \in Events
    BY <1>2, <1>14, <2>2
  <2>4. HasNewest(HistoryPush(f[n], t[a + 1]), t, a + 1)
    BY <2>1, <2>2, <2>3, PushKeepsNewest
  <2>5. f[k] = HistoryPush(f[n], new[k])
    BY <1>12, <2>2
  <2> QED
    BY <2>1, <2>2, <2>3, <2>4, <2>5
<1>17. 0 .. N \subseteq T
  <2> HIDE DEF T
  <2> QED
    BY <1>2, <1>15, <1>16, InductUpTo
<1> QED
  BY <1>1, <1>13, <1>17 DEF N

(* Adding to a number that has wrapped. *)
LEMMA ModSum ==
    ASSUME NEW a \in Nat, NEW d \in Nat
    PROVE  SeqAdd(a % SeqMod, d) = (a + d) % SeqMod
<1>1. PICK k, r : k = a \div SeqMod /\ r = a % SeqMod
  OBVIOUS
<1>2. SeqMod \in Nat \ {0}
  BY SeqModType
<1>3. k \in Int /\ r \in Nat /\ a = (k * SeqMod) + r
  BY <1>1, <1>2, DivMod
<1>4. PICK x : x = r + d
  OBVIOUS
<1>5. x \in Int
  BY <1>3, <1>4
<1>6. (x + k * SeqMod) % SeqMod = x % SeqMod
  BY <1>2, <1>3, <1>5, ModTurns
<1>7. x + k * SeqMod = a + d
  <2>1. PICK p : p = k * SeqMod
    OBVIOUS
  <2>2. p \in Int
    BY <1>2, <1>3, <2>1
  <2> QED
    BY <1>3, <1>4, <2>1, <2>2
<1> QED
  BY <1>1, <1>4, <1>6, <1>7 DEF SeqAdd

-----------------------------------------------------------------------------
(* The packets                                                             *)

Packets == [seq_num : SeqNums, events : Seq(Events)]

(* What the packet of the n-th event says. *)
PacketOf(seq, n) == [seq_num |-> (n - 1) % SeqMod, events |-> [i \in 1 .. Kept(n) |-> seq[n + 1 - i]]]

PacketInv ==
    /\ HasNewest(history_buf, told, Len(told))
    /\ history_seq_num = Len(told) % SeqMod
    /\ packets \in Seq(Packets)
    /\ Len(packets) = Len(told)
    /\ \A n \in 1 .. Len(told) : packets[n] = PacketOf(told, n)

(* The packets of new events are those of the events so far and the new ones. *)
LEMMA NewPackets ==
    ASSUME NEW q \in Seq(Events), NEW new \in Seq(Events), HasNewest(history_buf, q, Len(q)),
           history_seq_num = Len(q) % SeqMod
    PROVE  /\ HasNewest(Pushed(new, Len(new)), q \o new, Len(q \o new))
           /\ SeqAdd(history_seq_num, Len(new)) = Len(q \o new) % SeqMod
           /\ \A n \in 1 .. Len(new) :
                 [seq_num |-> SeqAdd(history_seq_num, n - 1), events |-> HistoryFormat(Pushed(new, n))]
                    = PacketOf(q \o new, Len(q) + n)
<1>1. PICK l, m, t : l = Len(q) /\ m = Len(new) /\ t = q \o new
  OBVIOUS
<1>2. l \in Nat /\ m \in Nat /\ Len(t) = l + m
  BY <1>1, LenProperties, ConcatProperties
<1>3. \A n \in 0 .. m : HasNewest(Pushed(new, n), t, l + n)
  BY <1>1, PushedNewest
<1>4. ASSUME NEW n \in 1 .. m
      PROVE  [seq_num |-> SeqAdd(history_seq_num, n - 1), events |-> HistoryFormat(Pushed(new, n))]
                = PacketOf(t, l + n)
  <2>1. PICK k, d : k = l + n /\ d = n - 1
    OBVIOUS
  <2>2. k \in Nat /\ d \in Nat /\ n \in 0 .. m /\ l + d = k - 1
    BY <1>2, <2>1
  <2>3. HistoryFormat(Pushed(new, n)) = [i \in 1 .. Kept(k) |-> t[k + 1 - i]]
    BY <1>3, <2>1, <2>2, FormatNewest
  <2>4. SeqAdd(history_seq_num, d) = (k - 1) % SeqMod
    BY <1>1, <1>2, <2>2, ModSum
  <2> QED
    BY <2>1, <2>3, <2>4 DEF PacketOf
<1>5. HasNewest(Pushed(new, m), t, l + m) /\ SeqAdd(history_seq_num, m) = (l + m) % SeqMod
  <2>1. m \in 0 .. m
    BY <1>2
  <2>2. SeqAdd(l % SeqMod, m) = (l + m) % SeqMod
    BY <1>2, ModSum
  <2> QED
    BY <1>1, <1>3, <2>1, <2>2
<1> QED
  BY <1>1, <1>2, <1>4, <1>5

(* New events leave what the packets of earlier ones say alone. *)
LEMMA OldPackets ==
    ASSUME NEW q \in Seq(Events), NEW new \in Seq(Events), NEW n \in 1 .. Len(q)
    PROVE  PacketOf(q \o new, n) = PacketOf(q, n)
<1>1. HistorySize \in Nat \ {0} /\ Len(q) \in Nat /\ Len(new) \in Nat
  BY FeedbackAssumption, LenProperties
<1>2. ASSUME NEW i \in 1 .. Kept(n)
      PROVE  (q \o new)[n + 1 - i] = q[n + 1 - i]
  <2>1. PICK k : k = n + 1 - i
    OBVIOUS
  <2>2. k \in 1 .. Len(q) + Len(new) /\ k <= Len(q)
    BY <1>1, <2>1 DEF Kept
  <2> QED
    BY <2>1, <2>2, ConcatProperties
<1> QED
  BY <1>2 DEF PacketOf

(* What packets say are packet numbers and events. *)
LEMMA PacketTyped ==
    ASSUME NEW seq \in Seq(Events), NEW n \in 1 .. Len(seq)
    PROVE  PacketOf(seq, n) \in Packets
<1>1. HistorySize \in Nat \ {0} /\ Len(seq) \in Nat /\ SeqMod \in Nat \ {0} /\ Kept(n) \in Nat
  BY FeedbackAssumption, LenProperties, SeqModType DEF Kept
<1>2. \A i \in 1 .. Kept(n) : n + 1 - i \in 1 .. Len(seq)
  BY <1>1 DEF Kept
<1>3. \A i \in 1 .. Kept(n) : seq[n + 1 - i] \in Events
  BY <1>2, ElementOfSeq
<1>4. [i \in 1 .. Kept(n) |-> seq[n + 1 - i]] \in Seq(Events)
  BY <1>1, <1>3, IsASeq
<1>5. (n - 1) % SeqMod \in SeqNums
  <2>1. PICK k : k = n - 1
    OBVIOUS
  <2>2. k \in Int
    BY <1>1, <2>1
  <2>3. k % SeqMod \in 0 .. SeqMod - 1
    BY <1>1, <2>2, DivModInt
  <2> QED
    BY <2>1, <2>3 DEF SeqNums
<1> QED
  BY <1>4, <1>5 DEF PacketOf, Packets

(* A round sends the packets of its events in order. *)
LEMMA PacketsRound ==
    ASSUME FeedbackTyped, PacketInv, NEW arrives, Round(arrives)
    PROVE  PacketInv'
<1>1. PICK q, new, p : q = told /\ new = Fresh /\ p = packets
  OBVIOUS
<1>2. q \in Seq(Events) /\ new \in Seq(Events) /\ p \in Seq(Packets)
  BY <1>1, FreshTold DEF FeedbackTyped, PacketInv
<1>3. PICK more : more = [n \in DOMAIN new |->
                            [seq_num |-> SeqAdd(history_seq_num, n - 1),
                             events |-> HistoryFormat(Pushed(new, n))]]
  OBVIOUS
<1>4. /\ history_buf' = Pushed(new, Len(new)) /\ history_seq_num' = SeqAdd(history_seq_num, Len(new))
      /\ packets' = p \o more /\ told' = q \o new
  BY <1>1, <1>3 DEF Round, SendHistory, Fresh
<1>5. PICK l, m, t : l = Len(q) /\ m = Len(new) /\ t = q \o new
  OBVIOUS
<1>6. l \in Nat /\ m \in Nat /\ t \in Seq(Events) /\ Len(t) = l + m /\ DOMAIN new = 1 .. m
  BY <1>2, <1>5, LenProperties, ConcatProperties
<1>7. /\ Len(p) = l /\ history_seq_num = l % SeqMod
      /\ \A n \in 1 .. l : p[n] = PacketOf(q, n)
      /\ HasNewest(history_buf, q, Len(q))
  BY <1>1, <1>5 DEF PacketInv
<1>8. /\ HasNewest(Pushed(new, m), t, l + m)
      /\ SeqAdd(history_seq_num, m) = (l + m) % SeqMod
      /\ \A n \in 1 .. m :
            [seq_num |-> SeqAdd(history_seq_num, n - 1), events |-> HistoryFormat(Pushed(new, n))]
               = PacketOf(t, l + n)
  BY <1>2, <1>5, <1>6, <1>7, NewPackets
<1>9. more = [n \in 1 .. m |-> PacketOf(t, l + n)]
  BY <1>3, <1>6, <1>8
<1>10. more \in Seq(Packets) /\ Len(more) = m
  <2>1. \A n \in 1 .. m : l + n \in 1 .. Len(t)
    BY <1>6
  <2>2. \A n \in 1 .. m : PacketOf(t, l + n) \in Packets
    BY <1>6, <2>1, PacketTyped
  <2>3. more \in Seq(Packets) /\ DOMAIN more = 1 .. m
    BY <1>6, <1>9, <2>2, IsASeq
  <2>4. Len(more) \in Nat /\ DOMAIN more = 1 .. Len(more)
    BY <2>3, LenProperties
  <2>5. Len(more) = m
    <3> HIDE DEF PacketOf
    <3>1. PICK k : k = Len(more)
      OBVIOUS
    <3>2. k \in Nat /\ 1 .. k = 1 .. m
      BY <2>3, <2>4, <3>1
    <3>3. k = m
      BY ONLY <1>6, <3>2
    <3> QED
      BY <3>1, <3>3
  <2> QED
    BY <2>3, <2>5
<1>11. p \o more \in Seq(Packets) /\ Len(p \o more) = l + m
  BY <1>2, <1>7, <1>10, ConcatProperties
<1>12. ASSUME NEW n \in 1 .. l + m PROVE (p \o more)[n] = PacketOf(t, n)
  <2>1. (p \o more)[n] = IF n <= l THEN p[n] ELSE more[n - l]
    BY <1>2, <1>7, <1>10, ConcatProperties
  <2>2. CASE n <= l
    <3>1. n \in 1 .. l
      BY <1>6, <2>2
    <3>2. PacketOf(t, n) = PacketOf(q, n)
      BY <1>2, <1>5, <3>1, OldPackets
    <3> QED
      BY <1>7, <2>1, <2>2, <3>1, <3>2
  <2>3. CASE ~(n <= l)
    <3>1. PICK k : k = n - l
      OBVIOUS
    <3>2. k \in 1 .. m /\ l + k = n
      BY <1>6, <2>3, <3>1
    <3> QED
      BY <1>9, <2>1, <2>3, <3>1, <3>2
  <2> QED
    BY <2>2, <2>3
<1> QED
  <2>1. history_buf' = Pushed(new, m) /\ history_seq_num' = (l + m) % SeqMod /\ packets' = p \o more /\ told' = t
    BY <1>4, <1>5, <1>8
  <2> QED
    BY <1>6, <1>8, <1>11, <1>12, <2>1 DEF PacketInv

LEMMA PacketsInit == FeedbackInit => PacketInv
<1> SUFFICES ASSUME FeedbackInit PROVE PacketInv
  OBVIOUS
<1>1. HistorySize \in Nat \ {0} /\ SeqMod \in Nat \ {0}
  BY FeedbackAssumption, SeqModType
<1>2. told = <<>> /\ packets = <<>> /\ history_seq_num = 0 /\ Len(told) = 0
  BY DEF FeedbackInit
<1>3. history_buf \in Histories
  BY <1>1 DEF FeedbackInit, Histories
<1>4. HasNewest(history_buf, told, 0)
  BY <1>1, <1>3 DEF FeedbackInit, HasNewest, Kept
<1>5. 0 % SeqMod = 0
  BY <1>1
<1>6. packets \in Seq(Packets) /\ Len(packets) = 0
  BY <1>2
<1> QED
  BY <1>2, <1>4, <1>5, <1>6 DEF PacketInv

LEMMA PacketsStep == FeedbackTyped /\ PacketInv /\ [FeedbackNext]_feedbackVars => PacketInv'
<1> SUFFICES ASSUME FeedbackTyped, PacketInv, [FeedbackNext]_feedbackVars PROVE PacketInv'
  OBVIOUS
<1>1. CASE \E arrives \in BOOLEAN : Round(arrives)
  BY <1>1, PacketsRound
<1>2. CASE SetFeedbackState \/ Leave \/ Fini \/ UNCHANGED feedbackVars
  <2>1. UNCHANGED <<history_buf, history_seq_num, told, packets>>
    BY <1>2 DEF SetFeedbackState, Leave, Fini, feedbackVars
  <2> QED
    BY <2>1 DEF PacketInv
<1> QED
  BY <1>1, <1>2 DEF FeedbackNext, Thread

(* The invariant is what the property says, and that packets are typed. *)
LEMMA PacketsSay == PacketInv => PacketsRepeatEvents
<1> SUFFICES ASSUME PacketInv PROVE PacketsRepeatEvents
  OBVIOUS
<1>1. DOMAIN packets = 1 .. Len(told)
  BY LenProperties DEF PacketInv
<1>2. \A n \in 1 .. Len(told) : packets[n] = PacketOf(told, n)
  BY DEF PacketInv
<1>3. \A n \in 1 .. Len(told) :
         /\ packets[n].seq_num = (n - 1) % SeqMod
         /\ packets[n].events = [i \in 1 .. (IF n < HistorySize THEN n ELSE HistorySize) |-> told[n + 1 - i]]
  <2> SUFFICES ASSUME NEW n \in 1 .. Len(told)
               PROVE  /\ packets[n].seq_num = (n - 1) % SeqMod
                      /\ packets[n].events = [i \in 1 .. Kept(n) |-> told[n + 1 - i]]
    BY DEF Kept
  <2>1. PICK a, b : a = (n - 1) % SeqMod /\ b = [i \in 1 .. Kept(n) |-> told[n + 1 - i]]
    OBVIOUS
  <2>2. packets[n] = [seq_num |-> a, events |-> b]
    BY <1>2, <2>1, Zenon DEF PacketOf
  <2> QED
    BY <2>1, <2>2
<1> QED
  BY <1>1, <1>3 DEF PacketsRepeatEvents, PacketInv

(* For every size of the history and every number of packet numbers: each  *)
(* packet of feedback_sender_send_history_packet has the number of its     *)
(* event and says the newest events up to it, newest first, however often  *)
(* the ring buffer and the numbers have wrapped.                           *)
THEOREM PacketsTrue == FeedbackSpec => []PacketsRepeatEvents
<1>1. FeedbackInit => FeedbackTyped /\ ConsoleFollows /\ PacketInv
  BY FollowInit, PacketsInit
<1>2. /\ FeedbackTyped /\ ConsoleFollows /\ PacketInv
      /\ [FeedbackNext]_feedbackVars
      => (FeedbackTyped /\ ConsoleFollows /\ PacketInv)'
  BY FollowStep, PacketsStep
<1> QED
  BY <1>1, <1>2, PacketsSay, PTL DEF FeedbackSpec
=============================================================================
