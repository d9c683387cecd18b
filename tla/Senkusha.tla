------------------------------ MODULE Senkusha ------------------------------
(***************************************************************************)
(* Senkusha, lib/src/senkusha.c: before the stream begins the session      *)
(* thread measures the way to the console with a Takion of its own, in     *)
(* chiaki_senkusha_run: the round trip with some pings, then by halving an *)
(* interval the largest datagram that comes in and the largest that gets   *)
(* out.                                                                    *)
(*                                                                         *)
(* run holds state_mutex except in its waits and from the closing of       *)
(* Takion on.  The Takion thread takes the mutex in its callback and looks *)
(* whether what arrived is what run waits for.  Nothing sets should_stop,  *)
(* and state_failed is never read, so the model has neither.               *)
(*                                                                         *)
(* The console and the path are not part of the source: an answer comes in *)
(* time, late, or never, and never when its datagram exceeds the path.     *)
(***************************************************************************)
EXTENDS Integers, FiniteSets

CONSTANTS
    MinMtu, MaxMtu, \* the interval, 576 and 1454 in the code
    Retries,        \* attempts per size
    Pings,          \* SENKUSHA_PING_COUNT_DEFAULT
    Paths,          \* the paths: the largest datagrams that come in and get out
    MaxArriving     \* bound on the answers on their way at a time

ASSUME SenkushaAssumption ==
    /\ MinMtu \in Nat \ {0} /\ MaxMtu \in Nat /\ MinMtu + 1 < MaxMtu
    /\ Retries \in Nat \ {0}
    /\ Pings \in Nat
    /\ Paths \subseteq [in : Nat, out : Nat]
    /\ MaxArriving \in Nat

VARIABLES
    rpc,        \* where run is
    senkusha,   \* ChiakiSenkusha: state, state_finished and what the answer must carry
    search,     \* min, max, cur and attempt of the search under way
    pings,      \* ping_index and pings_successful of the ping test
    err,        \* what run returns
    measured,   \* *mtu_in and *mtu_out, 0 before they are assigned
    takion,     \* the Takion thread: "none", "connecting", "connected", "ended"
    callback,   \* the event its callback has yet to handle
    arriving,   \* the answers on their way
    path,       \* what the path lets through
    timely      \* history: no size that passes was missed in all its attempts

runVars == <<rpc, senkusha, search, pings, err, measured>>
vars    == <<runVars, takion, callback, arriving, path, timely>>

Answer(kind, n) == [kind |-> kind, n |-> n]
NoAnswer == Answer("none", 0)

Waits == {"awaitTakion", "awaitBang", "awaitEchoOn", "awaitPong", "awaitEchoOff",
          "awaitMtu", "awaitClientMtu", "awaitOutPong", "awaitFinal"}

(* Mutant: the mutex is not given back before Takion is closed. *)
Unlocked_NotToClose == rpc \in Waits \cup {"start", "done"}

(* state_mutex is free in the waits, before run and once Takion is closed. *)
Unlocked == rpc \in Waits \cup {"start", "close", "done"}

Init ==
    /\ rpc = "start"
    /\ senkusha = [state |-> "IDLE", state_finished |-> FALSE, data_ack |-> 0, ping |-> 0, mtu_id |-> 0]
    /\ search = [min |-> MinMtu, max |-> MaxMtu, cur |-> MaxMtu, attempt |-> 0]
    /\ pings = [index |-> 0, successful |-> 0]
    /\ err = "SUCCESS"
    /\ measured = [in |-> 0, out |-> 0]
    /\ takion = "none"
    /\ callback = NoAnswer
    /\ arriving = {}
    /\ path \in Paths
    /\ timely = TRUE

-----------------------------------------------------------------------------
(* What run's steps are made of.                                           *)

(* The state to wait in; carried is senkusha with what the answer must carry. *)
Expect(state, carried) == senkusha' = [carried EXCEPT !.state = state, !.state_finished = FALSE]

(* A request was sent; its answer is on its way, if it passes, or lost. *)
MayBring(answer, passes) ==
    \/ UNCHANGED arriving
    \/ /\ passes
       /\ Cardinality(arriving) < MaxArriving
       /\ arriving' = arriving \cup {answer}

(* A timed wait ends with SUCCESS when its predicate holds, and may time    *)
(* out at any moment, even as the predicate becomes true.                  *)
WaitEnds(e) == e = "TIMEOUT" \/ (e = "SUCCESS" /\ senkusha.state_finished)

GiveUp(e, label) == err' = e /\ rpc' = label

(* The test fails: its error is returned and run goes to disconnect. *)
Fail(e) == GiveUp(e, "disconnect")

(* What follows a send, which may fail. *)
SentOr(failed, to, answer, passes) ==
    \/ rpc' = to /\ UNCHANGED err /\ MayBring(answer, passes)
    \/ failed /\ UNCHANGED arriving

(* The interval with the size to try next. *)
Halve(min, max) == [min |-> min, max |-> max, cur |-> min + (max - min) \div 2, attempt |-> 0]

(* cur has passed or not. *)
Narrow(success) ==
    search' = IF success THEN Halve(search.cur, search.max) ELSE Halve(search.min, search.cur)

(* An attempt without an answer; limit is what the path would have let pass. *)
Miss(limit) ==
    IF search.attempt + 1 < Retries
    THEN search' = [search EXCEPT !.attempt = @ + 1] /\ UNCHANGED timely
    ELSE Narrow(FALSE) /\ timely' = (timely /\ limit < search.cur)

Judge(limit) ==
    IF senkusha.state_finished THEN Narrow(TRUE) /\ UNCHANGED timely ELSE Miss(limit)

Counters == <<search, pings, measured>>
World    == <<takion, callback, path>>

-----------------------------------------------------------------------------
(* chiaki_senkusha_run                                                     *)

RunBegin ==
    /\ rpc = "start"
    /\ Expect("TAKION_CONNECT", senkusha)
    /\ \/ takion' = "connecting" /\ rpc' = "awaitTakion" /\ UNCHANGED err
       \/ UNCHANGED takion /\ GiveUp("ERROR", "done")
    /\ UNCHANGED <<Counters, callback, arriving, path, timely>>

RunTakionConnected ==
    /\ rpc = "awaitTakion"
    /\ \E e \in {"SUCCESS", "TIMEOUT"} :
          /\ WaitEnds(e)
          /\ IF senkusha.state_finished THEN rpc' = "big" /\ UNCHANGED err ELSE GiveUp(e, "close")
    /\ UNCHANGED <<senkusha, Counters, World, arriving, timely>>

RunSendBig ==
    /\ rpc = "big"
    /\ Expect("EXPECT_BANG", senkusha)
    /\ SentOr(GiveUp("ERROR", "close"), "awaitBang", Answer("bang", 0), TRUE)
    /\ UNCHANGED <<Counters, World, timely>>

RunBang ==
    /\ rpc = "awaitBang"
    /\ \E e \in {"SUCCESS", "TIMEOUT"} :
          /\ WaitEnds(e)
          /\ IF senkusha.state_finished THEN rpc' = "echoOn" /\ UNCHANGED err ELSE GiveUp(e, "close")
    /\ UNCHANGED <<senkusha, Counters, World, arriving, timely>>

(* senkusha_send_data_wait_for_ack, up to its wait and after it.  It returns *)
(* what the wait returned, even if the acknowledgement has come.            *)
AckWait(from) == CASE from = "echoOn"  -> "awaitEchoOn"
                   [] from = "echoOff" -> "awaitEchoOff"
                   [] from = "final"   -> "awaitFinal"

AfterAck(wait) == CASE wait = "awaitEchoOn"  -> "ping"
                    [] wait = "awaitEchoOff" -> "rtt"
                    [] wait = "awaitFinal"   -> "disconnect"

RunSendForAck ==
    /\ rpc \in {"echoOn", "echoOff", "final"}
    /\ Expect("EXPECT_DATA_ACK", [senkusha EXCEPT !.data_ack = @ + 1])
    /\ SentOr(Fail("ERROR"), AckWait(rpc), Answer("ack", senkusha.data_ack + 1), TRUE)
    /\ UNCHANGED <<Counters, World, timely>>

RunAck ==
    /\ rpc \in {"awaitEchoOn", "awaitEchoOff", "awaitFinal"}
    /\ \E e \in {"SUCCESS", "TIMEOUT"} :
          /\ WaitEnds(e)
          /\ IF e = "SUCCESS" THEN rpc' = AfterAck(rpc) /\ UNCHANGED err ELSE Fail(e)
    /\ UNCHANGED <<senkusha, Counters, World, arriving, timely>>

(* senkusha_run_rtt_test: one ping after the other, each with a new tag. *)
RunPing ==
    /\ rpc = "ping"
    /\ IF pings.index < Pings
       THEN /\ Expect("EXPECT_PONG", [senkusha EXCEPT !.ping = @ + 1])
            /\ SentOr(Fail("ERROR"), "awaitPong", Answer("pong", senkusha.ping + 1), TRUE)
       ELSE rpc' = "echoOff" /\ UNCHANGED <<senkusha, err, arriving>>
    /\ UNCHANGED <<Counters, World, timely>>

RunPong ==
    /\ rpc = "awaitPong"
    /\ pings' = [index |-> pings.index + 1,
                 successful |-> pings.successful + IF senkusha.state_finished THEN 1 ELSE 0]
    /\ rpc' = "ping"
    /\ UNCHANGED <<senkusha, search, err, measured, World, arriving, timely>>

RunRtt ==
    /\ rpc = "rtt"
    /\ IF pings.successful < 1 THEN Fail("ERROR") ELSE rpc' = "mtuIn" /\ UNCHANGED err
    /\ UNCHANGED <<senkusha, Counters, World, arriving, timely>>

(* senkusha_run_mtu_in_test: the console is asked for a datagram of cur     *)
(* bytes that names the request.                                           *)
RunMtuIn ==
    /\ rpc = "mtuIn"
    /\ IF search.max - search.min > 1
       THEN /\ Expect("EXPECT_MTU", [senkusha EXCEPT !.mtu_id = @ + 1])
            /\ SentOr(Fail("ERROR"), "awaitMtu", Answer("mtu", senkusha.mtu_id + 1), search.cur <= path.in)
            /\ UNCHANGED measured
       ELSE /\ measured' = [measured EXCEPT !.in = search.min]
            /\ rpc' = "clientMtu"
            /\ UNCHANGED <<senkusha, err, arriving>>
    /\ UNCHANGED <<search, pings, World, timely>>

RunMtu ==
    /\ rpc = "awaitMtu"
    /\ Judge(path.in)
    /\ rpc' = "mtuIn"
    /\ UNCHANGED <<senkusha, pings, err, measured, World, arriving>>

(* senkusha_run_mtu_out_test: the console is told the inbound size and must *)
(* confirm; then pings of cur bytes must come back as pongs.  Its check of  *)
(* the inbound size always passes: see MtuPasses.                          *)
RunClientMtu ==
    /\ rpc = "clientMtu"
    /\ Expect("EXPECT_CLIENT_MTU_COMMAND", [senkusha EXCEPT !.mtu_id = 1])
    /\ SentOr(Fail("ERROR"), "awaitClientMtu", Answer("clientMtu", 1), TRUE)
    /\ UNCHANGED <<Counters, World, timely>>

RunClientMtuConfirmed ==
    /\ rpc = "awaitClientMtu"
    /\ IF senkusha.state_finished
       THEN /\ search' = [min |-> MinMtu, max |-> MaxMtu, cur |-> measured.in, attempt |-> 0]
            /\ rpc' = "mtuOut" /\ UNCHANGED err
       ELSE Fail("TIMEOUT") /\ UNCHANGED search
    /\ UNCHANGED <<senkusha, pings, measured, World, arriving, timely>>

RunMtuOut ==
    /\ rpc = "mtuOut" /\ search.max - search.min > 1
    /\ Expect("EXPECT_PONG", [senkusha EXCEPT !.ping = @ + 1])
    /\ \/ /\ rpc' = "awaitOutPong"
          /\ MayBring(Answer("pong", senkusha.ping + 1), search.cur <= path.out)
          /\ UNCHANGED <<search, timely>>
       \/ /\ Miss(path.out)                            \* not sent: as if it had timed out
          /\ UNCHANGED <<rpc, arriving>>
    /\ UNCHANGED <<pings, err, measured, World>>

RunOutPong ==
    /\ rpc = "awaitOutPong"
    /\ Judge(path.out)
    /\ rpc' = "mtuOut"
    /\ UNCHANGED <<senkusha, pings, err, measured, World, arriving>>

RunMtuOutFound ==
    /\ rpc = "mtuOut" /\ search.max - search.min <= 1
    /\ measured' = [measured EXCEPT !.out = search.min]
    /\ rpc' = "final"
    /\ UNCHANGED <<senkusha, search, pings, err, World, arriving, timely>>

RunDisconnect ==
    /\ rpc = "disconnect"
    /\ rpc' = "close"
    /\ UNCHANGED <<senkusha, Counters, err, World, arriving, timely>>

(* chiaki_takion_close returns once the Takion thread is through. *)
RunClosed ==
    /\ rpc = "close" /\ takion = "ended"
    /\ rpc' = "done"
    /\ UNCHANGED <<senkusha, Counters, err, World, arriving, timely>>

Run == \/ RunBegin \/ RunTakionConnected \/ RunSendBig \/ RunBang \/ RunSendForAck \/ RunAck
       \/ RunPing \/ RunPong \/ RunRtt \/ RunMtuIn \/ RunMtu \/ RunClientMtu
       \/ RunClientMtuConfirmed \/ RunMtuOut \/ RunOutPong \/ RunMtuOutFound
       \/ RunDisconnect \/ RunClosed

-----------------------------------------------------------------------------
(* The Takion thread and its callback senkusha_takion_cb.                   *)

TakionConnects ==
    /\ takion = "connecting" /\ callback = NoAnswer /\ rpc # "close"
    /\ takion' = "connected" /\ callback' = Answer("connected", 0)
    /\ UNCHANGED <<runVars, arriving, path, timely>>

(* What arrives may arrive again. *)
TakionReceives ==
    /\ takion = "connected" /\ callback = NoAnswer /\ rpc # "close"
    /\ \E a \in arriving : callback' = a /\ arriving' \in {arriving, arriving \ {a}}
    /\ UNCHANGED <<runVars, takion, path, timely>>

(* Stopped by chiaki_takion_close, or for a reason of its own. *)
TakionEnds ==
    /\ takion \in {"connecting", "connected"} /\ callback = NoAnswer
    /\ callback' = Answer("disconnect", 0)
    /\ UNCHANGED <<runVars, takion, arriving, path, timely>>

(* Mutant: an inbound datagram counts for any request. *)
Awaited_AnyId(a) ==
    \/ a.kind = "connected" /\ senkusha.state = "TAKION_CONNECT"
    \/ a.kind = "bang"      /\ senkusha.state = "EXPECT_BANG"
    \/ a.kind = "ack"       /\ senkusha.state = "EXPECT_DATA_ACK" /\ a.n = senkusha.data_ack
    \/ a.kind = "pong"      /\ senkusha.state = "EXPECT_PONG" /\ a.n = senkusha.ping
    \/ a.kind = "mtu"       /\ senkusha.state = "EXPECT_MTU"
    \/ a.kind = "clientMtu" /\ senkusha.state = "EXPECT_CLIENT_MTU_COMMAND" /\ a.n = senkusha.mtu_id

(* Whether run waits for what has come. *)
Awaited(a) ==
    \/ a.kind = "connected" /\ senkusha.state = "TAKION_CONNECT"
    \/ a.kind = "bang"      /\ senkusha.state = "EXPECT_BANG"
    \/ a.kind = "ack"       /\ senkusha.state = "EXPECT_DATA_ACK" /\ a.n = senkusha.data_ack
    \/ a.kind = "pong"      /\ senkusha.state = "EXPECT_PONG" /\ a.n = senkusha.ping
    \/ a.kind = "mtu"       /\ senkusha.state = "EXPECT_MTU" /\ a.n = senkusha.mtu_id
    \/ a.kind = "clientMtu" /\ senkusha.state = "EXPECT_CLIENT_MTU_COMMAND" /\ a.n = senkusha.mtu_id

(* A disconnect while Takion connects takes a success back. *)
TakionHandles ==
    /\ callback # NoAnswer /\ Unlocked
    /\ senkusha' = [senkusha EXCEPT !.state_finished =
            IF callback.kind = "disconnect" /\ senkusha.state = "TAKION_CONNECT" THEN FALSE
            ELSE @ \/ Awaited(callback)]
    /\ takion' = IF callback.kind = "disconnect" THEN "ended" ELSE takion
    /\ callback' = NoAnswer
    /\ UNCHANGED <<rpc, search, pings, err, measured, arriving, path, timely>>

TakionThread == TakionConnects \/ TakionReceives \/ TakionEnds \/ TakionHandles

Next == Run \/ TakionThread

(* run's waits are timed and its thread runs; the Takion thread may starve   *)
(* in its reception but not in its callback or when it is stopped.          *)
Spec == /\ Init /\ [][Next]_vars
        /\ WF_vars(Run)
        /\ WF_vars(TakionHandles)
        /\ WF_vars(TakionEnds /\ rpc = "close")

-----------------------------------------------------------------------------
(* Properties                                                              *)

Lesser(a, b) == IF a < b THEN a ELSE b

(* What is measured was seen to pass, or is the least size, which is never  *)
(* tried: no late or repeated answer counts for a size it was not for.     *)
MtuPasses ==
    /\ measured.in \in {0, MinMtu} \cup (MinMtu..Lesser(path.in, MaxMtu))
    /\ measured.out \in {0, MinMtu} \cup (MinMtu..Lesser(path.out, MaxMtu))

(* When some attempt at each size that passes was answered in time, nothing *)
(* larger would pass; only the upper end is not tried outward unless it was *)
(* found inward, where the search starts.                                  *)
MtuIsLargest ==
    /\ (timely /\ measured.in # 0 /\ MinMtu <= path.in) =>
            measured.in = Lesser(path.in, MaxMtu)
    /\ (timely /\ measured.out # 0 /\ MinMtu <= path.out) =>
            measured.out = Lesser(path.out, IF measured.in = MaxMtu THEN MaxMtu ELSE MaxMtu - 1)

(* chiaki_senkusha_run (senkusha.c:111): it gives its caller sizes that the *)
(* path lets through and the largest it could find, and both when it       *)
(* returns success.                                                        *)
MeasuresTrue ==
    /\ MtuPasses
    /\ MtuIsLargest
    /\ rpc = "done" /\ err = "SUCCESS" => measured.in # 0 /\ measured.out # 0

(* senkusha.c:111: chiaki_senkusha_run returns, whatever is lost and late;  *)
(* the session waits for it with its own mutex held.                       *)
SenkushaEnds == <>(rpc = "done")
=============================================================================
