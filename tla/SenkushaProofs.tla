--------------------------- MODULE SenkushaProofs ---------------------------
(***************************************************************************)
(* What chiaki_senkusha_run measures is true of the path, for every        *)
(* interval, every path and any number of attempts and pings.              *)
(*                                                                         *)
(* SearchTrue is the invariant of a search by halving, with what a         *)
(* lost answer may do to it; AnswersTrue says that what may still arrive    *)
(* for the present request is true of the present size.                    *)
(***************************************************************************)
EXTENDS Senkusha, TLAPS

BeforeOut == {"start", "awaitTakion", "big", "awaitBang", "echoOn", "awaitEchoOn", "ping",
              "awaitPong", "echoOff", "awaitEchoOff", "rtt", "mtuIn", "awaitMtu"}
BeforeIn  == BeforeOut \ {"mtuIn", "awaitMtu"}
InOut     == {"clientMtu", "awaitClientMtu", "mtuOut", "awaitOutPong"}
AtEnd     == {"disconnect", "close", "done"}

States == {"IDLE", "TAKION_CONNECT", "EXPECT_BANG", "EXPECT_DATA_ACK", "EXPECT_PONG", "EXPECT_MTU",
           "EXPECT_CLIENT_MTU_COMMAND"}
Kinds  == {"none", "connected", "disconnect", "bang", "ack", "pong", "mtu", "clientMtu"}

SenkushaType ==
    [state : States, state_finished : BOOLEAN, data_ack : Nat, ping : Nat, mtu_id : Nat]

SenkushaTypeOK ==
    /\ rpc \in BeforeOut \cup InOut \cup {"final", "awaitFinal"} \cup AtEnd
    /\ senkusha \in SenkushaType
    /\ search \in [min : MinMtu .. MaxMtu, max : MinMtu .. MaxMtu, cur : MinMtu .. MaxMtu, attempt : Nat]
    /\ measured \in [in : Nat, out : Nat]
    /\ path \in [in : Nat, out : Nat]
    /\ timely \in BOOLEAN
    /\ arriving \subseteq [kind : Kinds, n : Nat]
    /\ callback \in [kind : Kinds, n : Nat]

(* Nothing was tried yet of the search s that begins at first. *)
Untried(s, first) == s.min = MinMtu /\ s.max = MaxMtu /\ s.cur = first

(* The lower end passes or was never tried; the upper end does not pass,    *)
(* unless it was never tried or a size was missed (then t is FALSE); in     *)
(* between lies the size to try.                                           *)
SearchTrue(s, t, limit, first) ==
    /\ s.min = MinMtu \/ s.min <= limit
    /\ s.min <= s.max
    /\ \/ Untried(s, first)
       \/ s.max - s.min > 1 => s.min < s.cur /\ s.cur < s.max
    /\ t => \/ limit < s.max
            \/ Untried(s, first)
            \/ s.max = MaxMtu /\ (first = MaxMtu <=> s.min = MaxMtu)

SearchesTrue ==
    /\ rpc \in BeforeIn => Untried(search, MaxMtu)
    /\ rpc \in {"mtuIn", "awaitMtu"} => SearchTrue(search, timely, path.in, MaxMtu)
    /\ rpc \in {"mtuOut", "awaitOutPong"} => SearchTrue(search, timely, path.out, measured.in)
    /\ rpc \in {"awaitMtu", "awaitOutPong"} => search.max - search.min > 1

(* Requests are numbered upwards. *)
NumbersTrue ==
    \A a \in arriving \cup {callback} :
        /\ a.kind = "mtu" /\ rpc \in BeforeOut => a.n <= senkusha.mtu_id
        /\ a.kind = "pong" => a.n <= senkusha.ping

AnswersTrue ==
    \A a \in arriving \cup {callback} :
        /\ rpc = "awaitMtu" /\ a.kind = "mtu" /\ a.n = senkusha.mtu_id => search.cur <= path.in
        /\ rpc = "awaitOutPong" /\ a.kind = "pong" /\ a.n = senkusha.ping => search.cur <= path.out

FinishedTrue ==
    /\ rpc = "awaitMtu" =>
          senkusha.state = "EXPECT_MTU" /\ (senkusha.state_finished => search.cur <= path.in)
    /\ rpc = "awaitOutPong" =>
          senkusha.state = "EXPECT_PONG" /\ (senkusha.state_finished => search.cur <= path.out)

(* Which of the results there are. *)
ResultsInPlace ==
    /\ rpc \in BeforeOut => measured.in = 0 /\ measured.out = 0
    /\ rpc \in InOut => measured.in # 0 /\ measured.out = 0
    /\ rpc \in {"final", "awaitFinal"} => measured.in # 0 /\ measured.out # 0
    /\ rpc \in AtEnd /\ err = "SUCCESS" => measured.in # 0 /\ measured.out # 0
    /\ measured.out # 0 => measured.in # 0
    /\ measured.in # 0 => measured.in \in MinMtu .. MaxMtu

SenkushaInv ==
    /\ SenkushaTypeOK
    /\ SearchesTrue
    /\ NumbersTrue
    /\ AnswersTrue
    /\ FinishedTrue
    /\ ResultsInPlace
    /\ MtuPasses
    /\ MtuIsLargest
-----------------------------------------------------------------------------
Searches == [min : MinMtu .. MaxMtu, max : MinMtu .. MaxMtu, cur : MinMtu .. MaxMtu, attempt : Nat]

(* One halving keeps a search true, whichever way it goes. *)
LEMMA Halving ==
    ASSUME NEW s \in Searches, NEW t \in BOOLEAN, NEW limit \in Nat, NEW first \in MinMtu .. MaxMtu,
           SearchTrue(s, t, limit, first), s.max - s.min > 1
    PROVE  /\ Halve(s.cur, s.max) \in Searches
           /\ s.cur <= limit => SearchTrue(Halve(s.cur, s.max), t, limit, first)
           /\ Halve(s.min, s.cur) \in Searches
           /\ SearchTrue(Halve(s.min, s.cur), t /\ limit < s.cur, limit, first)
<1> DEFINE up == Halve(s.cur, s.max)
           down == Halve(s.min, s.cur)
<1> USE SenkushaAssumption
<1>1. s.min \in MinMtu .. MaxMtu /\ s.max \in MinMtu .. MaxMtu /\ s.cur \in MinMtu .. MaxMtu
      BY DEF Searches
<1>2. s.min <= s.cur /\ s.cur <= s.max
      BY <1>1 DEF SearchTrue, Untried
<1>3. /\ up.min = s.cur /\ up.max = s.max /\ up.cur = s.cur + (s.max - s.cur) \div 2 /\ up.attempt = 0
      /\ down.min = s.min /\ down.max = s.cur /\ down.cur = s.min + (s.cur - s.min) \div 2 /\ down.attempt = 0
      BY DEF Halve
<1>4. /\ s.cur <= up.cur /\ up.cur <= s.max
      /\ s.max - s.cur > 1 => s.cur < up.cur /\ up.cur < s.max
      /\ s.min <= down.cur /\ down.cur <= s.cur
      /\ s.cur - s.min > 1 => s.min < down.cur /\ down.cur < s.cur
      BY <1>1, <1>2, <1>3
<1>5. up \in Searches /\ down \in Searches
      BY <1>1, <1>4 DEF Halve, Searches
<1> HIDE DEF up, down
<1>6. ASSUME s.cur <= limit PROVE SearchTrue(up, t, limit, first)
  <2>1. up.min = MinMtu \/ up.min <= limit
        BY <1>3, <1>6
  <2>2. up.min <= up.max
        BY <1>2, <1>3
  <2>3. up.max - up.min > 1 => up.min < up.cur /\ up.cur < up.max
        BY <1>3, <1>4
  <2>4. CASE Untried(s, first)
        BY <2>4, <1>1, <1>3, <2>1, <2>2, <2>3 DEF SearchTrue, Untried
  <2>5. CASE ~Untried(s, first)
    <3>1. s.min < s.cur /\ s.cur < s.max
          BY <2>5 DEF SearchTrue
    <3>2. t => limit < up.max \/ (up.max = MaxMtu /\ (first = MaxMtu <=> up.min = MaxMtu))
          BY <2>5, <3>1, <1>1, <1>3 DEF SearchTrue
    <3>. QED BY <2>1, <2>2, <2>3, <3>2 DEF SearchTrue
  <2>. QED BY <2>4, <2>5
<1>7. SearchTrue(down, t /\ limit < s.cur, limit, first)
      BY <1>1, <1>2, <1>3, <1>4 DEF SearchTrue, Untried
<1>. QED BY <1>5, <1>6, <1>7 DEF up, down

(* What Judge and Miss make of a search. *)
LEMMA MissKeeps ==
    ASSUME search \in Searches, timely \in BOOLEAN, NEW limit \in Nat, NEW first \in MinMtu .. MaxMtu,
           SearchTrue(search, timely, limit, first), search.max - search.min > 1, Miss(limit)
    PROVE  search' \in Searches /\ timely' \in BOOLEAN /\ (timely' => timely)
           /\ SearchTrue(search', timely', limit, first)
<1>1. CASE search.attempt + 1 < Retries
  <2>1. search' = [search EXCEPT !.attempt = @ + 1] /\ timely' = timely
        BY <1>1 DEF Miss
  <2>2. search' \in Searches /\ search'.min = search.min /\ search'.max = search.max /\ search'.cur = search.cur
        BY <2>1 DEF Searches
  <2>. QED BY <2>1, <2>2 DEF SearchTrue, Untried
<1>2. CASE ~(search.attempt + 1 < Retries)
  <2>1. search' = Halve(search.min, search.cur) /\ timely' = (timely /\ limit < search.cur)
        BY <1>2 DEF Miss, Narrow
  <2>. QED BY <2>1, Halving
<1>. QED BY <1>1, <1>2

LEMMA JudgeKeeps ==
    ASSUME search \in Searches, timely \in BOOLEAN, NEW limit \in Nat, NEW first \in MinMtu .. MaxMtu,
           SearchTrue(search, timely, limit, first), search.max - search.min > 1, Judge(limit),
           senkusha.state_finished => search.cur <= limit
    PROVE  search' \in Searches /\ timely' \in BOOLEAN /\ (timely' => timely)
           /\ SearchTrue(search', timely', limit, first)
<1>1. CASE senkusha.state_finished
  <2>1. search' = Halve(search.cur, search.max) /\ timely' = timely
        BY <1>1 DEF Judge, Narrow
  <2>. QED BY <1>1, <2>1, Halving
<1>2. CASE ~senkusha.state_finished
      BY <1>2, MissKeeps DEF Judge
<1>. QED BY <1>1, <1>2

(* The initial states and every step.                                    *)
LEMMA InitInv == Init => SenkushaInv
<1> SUFFICES ASSUME Init PROVE SenkushaInv
    OBVIOUS
<1> USE SenkushaAssumption DEF Init, Answer, NoAnswer, SenkushaType, BeforeOut, BeforeIn, InOut, AtEnd
<1>1. SenkushaTypeOK BY DEF SenkushaTypeOK, States, Kinds
<1>2. SearchesTrue BY DEF SearchesTrue, Untried
<1>3. NumbersTrue /\ AnswersTrue BY DEF NumbersTrue, AnswersTrue
<1>4. FinishedTrue /\ ResultsInPlace /\ MtuPasses /\ MtuIsLargest
      BY DEF FinishedTrue, ResultsInPlace, MtuPasses, MtuIsLargest
<1>. QED BY <1>1, <1>2, <1>3, <1>4 DEF SenkushaInv

(* Steps of run that send nothing and leave search and results alone.       *)
LEMMA RunTakionConnectedKeeps == SenkushaInv /\ RunTakionConnected => SenkushaInv'
BY SenkushaAssumption DEF RunTakionConnected, WaitEnds, GiveUp, Fail, Counters, World,
   Untried, SearchTrue, NumbersTrue, AnswersTrue, Lesser, SenkushaInv, SenkushaTypeOK, SenkushaType, SearchesTrue, FinishedTrue, ResultsInPlace,
   MtuPasses, MtuIsLargest, SenkushaType, BeforeOut, BeforeIn, InOut, AtEnd

LEMMA RunBangKeeps == SenkushaInv /\ RunBang => SenkushaInv'
BY SenkushaAssumption DEF RunBang, WaitEnds, GiveUp, Fail, Counters, World,
   Untried, SearchTrue, NumbersTrue, AnswersTrue, Lesser, SenkushaInv, SenkushaTypeOK, SenkushaType, SearchesTrue, FinishedTrue, ResultsInPlace,
   MtuPasses, MtuIsLargest, SenkushaType, BeforeOut, BeforeIn, InOut, AtEnd

LEMMA RunAckKeeps == SenkushaInv /\ RunAck => SenkushaInv'
BY SenkushaAssumption DEF RunAck, WaitEnds, GiveUp, Fail, Counters, World, AfterAck,
   Untried, SearchTrue, NumbersTrue, AnswersTrue, Lesser, SenkushaInv, SenkushaTypeOK, SenkushaType, SearchesTrue, FinishedTrue, ResultsInPlace,
   MtuPasses, MtuIsLargest, SenkushaType, BeforeOut, BeforeIn, InOut, AtEnd

LEMMA RunPongKeeps == SenkushaInv /\ RunPong => SenkushaInv'
BY SenkushaAssumption DEF RunPong, WaitEnds, GiveUp, Fail, Counters, World,
   Untried, SearchTrue, NumbersTrue, AnswersTrue, Lesser, SenkushaInv, SenkushaTypeOK, SenkushaType, SearchesTrue, FinishedTrue, ResultsInPlace,
   MtuPasses, MtuIsLargest, SenkushaType, BeforeOut, BeforeIn, InOut, AtEnd

LEMMA RunRttKeeps == SenkushaInv /\ RunRtt => SenkushaInv'
BY SenkushaAssumption DEF RunRtt, WaitEnds, GiveUp, Fail, Counters, World,
   Untried, SearchTrue, NumbersTrue, AnswersTrue, Lesser, SenkushaInv, SenkushaTypeOK, SenkushaType, SearchesTrue, FinishedTrue, ResultsInPlace,
   MtuPasses, MtuIsLargest, SenkushaType, BeforeOut, BeforeIn, InOut, AtEnd

LEMMA RunDisconnectKeeps == SenkushaInv /\ RunDisconnect => SenkushaInv'
BY SenkushaAssumption DEF RunDisconnect, WaitEnds, GiveUp, Fail, Counters, World,
   Untried, SearchTrue, NumbersTrue, AnswersTrue, Lesser, SenkushaInv, SenkushaTypeOK, SenkushaType, SearchesTrue, FinishedTrue, ResultsInPlace,
   MtuPasses, MtuIsLargest, SenkushaType, BeforeOut, BeforeIn, InOut, AtEnd

LEMMA RunClosedKeeps == SenkushaInv /\ RunClosed => SenkushaInv'
BY SenkushaAssumption DEF RunClosed, WaitEnds, GiveUp, Fail, Counters, World,
   Untried, SearchTrue, NumbersTrue, AnswersTrue, Lesser, SenkushaInv, SenkushaTypeOK, SenkushaType, SearchesTrue, FinishedTrue, ResultsInPlace,
   MtuPasses, MtuIsLargest, SenkushaType, BeforeOut, BeforeIn, InOut, AtEnd

(* A request brings at most its own answer, of a number not used before.    *)
LEMMA MayBringAdds ==
    ASSUME NEW answer, NEW passes, MayBring(answer, passes)
    PROVE  arriving' = arriving \/ (passes /\ arriving' = arriving \cup {answer})
BY DEF MayBring

LEMMA ExpectSets ==
    ASSUME NEW state \in States, NEW carried \in SenkushaType, Expect(state, carried)
    PROVE  /\ senkusha' \in SenkushaType
           /\ senkusha'.state = state /\ senkusha'.state_finished = FALSE
           /\ senkusha'.ping = carried.ping /\ senkusha'.mtu_id = carried.mtu_id
BY DEF Expect, SenkushaType

(* Steps of run that may send and leave search and results alone.          *)
LEMMA RunBeginKeeps == SenkushaInv /\ RunBegin => SenkushaInv'
<1> SUFFICES ASSUME SenkushaInv, RunBegin PROVE SenkushaInv'
    OBVIOUS
<1> USE SenkushaAssumption
<1>1. arriving' = arriving
      BY DEF RunBegin
<1>2. rpc' \notin {"awaitMtu", "awaitOutPong", "mtuIn", "mtuOut"} /\ UNCHANGED <<search, path, timely, callback>>
      BY DEF RunBegin, SentOr, GiveUp, Fail, Counters, World
<1>3. /\ senkusha'.ping = senkusha.ping \/ (senkusha'.ping = senkusha.ping + 1 /\ rpc = "ping")
      /\ rpc' \in BeforeOut => rpc \in BeforeOut /\ senkusha'.mtu_id = senkusha.mtu_id
      BY DEF RunBegin, Expect, SentOr, GiveUp, Fail, BeforeOut, SenkushaInv, SenkushaTypeOK, SenkushaType
<1>4. SenkushaTypeOK'
  <2>1. callback \in [kind : Kinds, n : Nat]
        BY DEF Answer, Kinds, SenkushaInv, SenkushaTypeOK, SenkushaType
  <2>2. arriving' \subseteq [kind : Kinds, n : Nat] /\ callback' \in [kind : Kinds, n : Nat]
        BY <1>1, <1>2, <2>1 DEF SenkushaInv, SenkushaTypeOK, SenkushaType
  <2>3. senkusha' \in SenkushaType
    <3>1. senkusha \in SenkushaType /\ "TAKION_CONNECT" \in States
          BY DEF SenkushaInv, SenkushaTypeOK, SenkushaType, States
    <3>2. senkusha \in SenkushaType
          BY <3>1 DEF SenkushaType
    <3>. QED BY <3>1, <3>2, ExpectSets DEF RunBegin
  <2>4. rpc' \in BeforeOut \cup InOut \cup {"final", "awaitFinal"} \cup AtEnd
        BY DEF RunBegin, SentOr, GiveUp, Fail, BeforeOut, InOut, AtEnd
  <2>5. measured' = measured
        BY DEF RunBegin, Counters
  <2>. QED BY <1>2, <2>2, <2>3, <2>4, <2>5 DEF SenkushaInv, SenkushaTypeOK, SenkushaType
<1>5. NumbersTrue'
      BY <1>1, <1>2, <1>3, <1>4 DEF RunBegin, Expect, Answer, NumbersTrue, SenkushaInv, SenkushaTypeOK, SenkushaType, BeforeOut
<1>6. AnswersTrue' /\ FinishedTrue'
      BY <1>2 DEF AnswersTrue, FinishedTrue
<1>7. SearchesTrue'
      BY <1>2 DEF RunBegin, SentOr, GiveUp, Fail, SearchesTrue, Untried, SenkushaInv, BeforeIn, BeforeOut
<1>8. ResultsInPlace'
  <2>1. measured' = measured
        BY DEF RunBegin, Counters
  <2>2. rpc' \in BeforeOut => rpc \in BeforeOut
        BY <1>3
  <2>3. rpc' \in InOut => rpc \in InOut
        BY DEF RunBegin, SentOr, GiveUp, Fail, InOut
  <2>4. rpc' \in {"final", "awaitFinal"} => rpc \in {"final", "awaitFinal"}
        BY DEF RunBegin, SentOr, GiveUp, Fail
  <2>5. ~(rpc' \in AtEnd /\ err' = "SUCCESS")
        BY DEF RunBegin, SentOr, GiveUp, Fail, AtEnd
  <2>. QED BY <2>1, <2>2, <2>3, <2>4, <2>5 DEF ResultsInPlace, SenkushaInv
<1>9. MtuPasses' /\ MtuIsLargest'
  <2>1. UNCHANGED <<measured, path, timely>>
        BY <1>2 DEF RunBegin, Counters
  <2>. QED BY <2>1 DEF MtuPasses, MtuIsLargest, SenkushaInv
<1>. QED BY <1>4, <1>5, <1>6, <1>7, <1>8, <1>9 DEF SenkushaInv

LEMMA RunSendBigKeeps == SenkushaInv /\ RunSendBig => SenkushaInv'
<1> SUFFICES ASSUME SenkushaInv, RunSendBig PROVE SenkushaInv'
    OBVIOUS
<1> USE SenkushaAssumption
<1>1. arriving' = arriving \/ arriving' = arriving \cup {Answer("bang", 0)}
      BY MayBringAdds DEF RunSendBig, SentOr
<1>2. rpc' \notin {"awaitMtu", "awaitOutPong", "mtuIn", "mtuOut"} /\ UNCHANGED <<search, path, timely, callback>>
      BY DEF RunSendBig, SentOr, GiveUp, Fail, Counters, World
<1>3. /\ senkusha'.ping = senkusha.ping \/ (senkusha'.ping = senkusha.ping + 1 /\ rpc = "ping")
      /\ rpc' \in BeforeOut => rpc \in BeforeOut /\ senkusha'.mtu_id = senkusha.mtu_id
      BY DEF RunSendBig, Expect, SentOr, GiveUp, Fail, BeforeOut, SenkushaInv, SenkushaTypeOK, SenkushaType
<1>4. SenkushaTypeOK'
  <2>1. Answer("bang", 0) \in [kind : Kinds, n : Nat]
        BY DEF Answer, Kinds, SenkushaInv, SenkushaTypeOK, SenkushaType
  <2>2. arriving' \subseteq [kind : Kinds, n : Nat] /\ callback' \in [kind : Kinds, n : Nat]
        BY <1>1, <1>2, <2>1 DEF SenkushaInv, SenkushaTypeOK, SenkushaType
  <2>3. senkusha' \in SenkushaType
    <3>1. senkusha \in SenkushaType /\ "EXPECT_BANG" \in States
          BY DEF SenkushaInv, SenkushaTypeOK, SenkushaType, States
    <3>2. senkusha \in SenkushaType
          BY <3>1 DEF SenkushaType
    <3>. QED BY <3>1, <3>2, ExpectSets DEF RunSendBig
  <2>4. rpc' \in BeforeOut \cup InOut \cup {"final", "awaitFinal"} \cup AtEnd
        BY DEF RunSendBig, SentOr, GiveUp, Fail, BeforeOut, InOut, AtEnd
  <2>5. measured' = measured
        BY DEF RunSendBig, Counters
  <2>. QED BY <1>2, <2>2, <2>3, <2>4, <2>5 DEF SenkushaInv, SenkushaTypeOK, SenkushaType
<1>5. NumbersTrue'
      BY <1>1, <1>2, <1>3, <1>4 DEF RunSendBig, Expect, Answer, NumbersTrue, SenkushaInv, SenkushaTypeOK, SenkushaType, BeforeOut
<1>6. AnswersTrue' /\ FinishedTrue'
      BY <1>2 DEF AnswersTrue, FinishedTrue
<1>7. SearchesTrue'
      BY <1>2 DEF RunSendBig, SentOr, GiveUp, Fail, SearchesTrue, Untried, SenkushaInv, BeforeIn, BeforeOut
<1>8. ResultsInPlace'
  <2>1. measured' = measured
        BY DEF RunSendBig, Counters
  <2>2. rpc' \in BeforeOut => rpc \in BeforeOut
        BY <1>3
  <2>3. rpc' \in InOut => rpc \in InOut
        BY DEF RunSendBig, SentOr, GiveUp, Fail, InOut
  <2>4. rpc' \in {"final", "awaitFinal"} => rpc \in {"final", "awaitFinal"}
        BY DEF RunSendBig, SentOr, GiveUp, Fail
  <2>5. ~(rpc' \in AtEnd /\ err' = "SUCCESS")
        BY DEF RunSendBig, SentOr, GiveUp, Fail, AtEnd
  <2>. QED BY <2>1, <2>2, <2>3, <2>4, <2>5 DEF ResultsInPlace, SenkushaInv
<1>9. MtuPasses' /\ MtuIsLargest'
  <2>1. UNCHANGED <<measured, path, timely>>
        BY <1>2 DEF RunSendBig, Counters
  <2>. QED BY <2>1 DEF MtuPasses, MtuIsLargest, SenkushaInv
<1>. QED BY <1>4, <1>5, <1>6, <1>7, <1>8, <1>9 DEF SenkushaInv

LEMMA RunSendForAckKeeps == SenkushaInv /\ RunSendForAck => SenkushaInv'
<1> SUFFICES ASSUME SenkushaInv, RunSendForAck PROVE SenkushaInv'
    OBVIOUS
<1> USE SenkushaAssumption
<1>1. arriving' = arriving \/ arriving' = arriving \cup {Answer("ack", senkusha.data_ack + 1)}
      BY MayBringAdds DEF RunSendForAck, SentOr
<1>2. rpc' \notin {"awaitMtu", "awaitOutPong", "mtuIn", "mtuOut"} /\ UNCHANGED <<search, path, timely, callback>>
      BY DEF RunSendForAck, SentOr, GiveUp, Fail, Counters, World, AckWait
<1>3. /\ senkusha'.ping = senkusha.ping \/ (senkusha'.ping = senkusha.ping + 1 /\ rpc = "ping")
      /\ rpc' \in BeforeOut => rpc \in BeforeOut /\ senkusha'.mtu_id = senkusha.mtu_id
      BY DEF RunSendForAck, Expect, SentOr, GiveUp, Fail, BeforeOut, AckWait, SenkushaInv, SenkushaTypeOK, SenkushaType
<1>4. SenkushaTypeOK'
  <2>1. Answer("ack", senkusha.data_ack + 1) \in [kind : Kinds, n : Nat]
        BY DEF Answer, Kinds, SenkushaInv, SenkushaTypeOK, SenkushaType
  <2>2. arriving' \subseteq [kind : Kinds, n : Nat] /\ callback' \in [kind : Kinds, n : Nat]
        BY <1>1, <1>2, <2>1 DEF SenkushaInv, SenkushaTypeOK, SenkushaType
  <2>3. senkusha' \in SenkushaType
    <3>1. senkusha \in SenkushaType /\ "EXPECT_DATA_ACK" \in States
          BY DEF SenkushaInv, SenkushaTypeOK, SenkushaType, States
    <3>2. [senkusha EXCEPT !.data_ack = @ + 1] \in SenkushaType
          BY <3>1 DEF SenkushaType
    <3>. QED BY <3>1, <3>2, ExpectSets DEF RunSendForAck
  <2>4. rpc' \in BeforeOut \cup InOut \cup {"final", "awaitFinal"} \cup AtEnd
        BY DEF RunSendForAck, SentOr, GiveUp, Fail, AckWait, BeforeOut, InOut, AtEnd
  <2>5. measured' = measured
        BY DEF RunSendForAck, Counters
  <2>. QED BY <1>2, <2>2, <2>3, <2>4, <2>5 DEF SenkushaInv, SenkushaTypeOK, SenkushaType
<1>5. NumbersTrue'
      BY <1>1, <1>2, <1>3, <1>4 DEF RunSendForAck, Expect, Answer, NumbersTrue, SenkushaInv, SenkushaTypeOK, SenkushaType, BeforeOut
<1>6. AnswersTrue' /\ FinishedTrue'
      BY <1>2 DEF AnswersTrue, FinishedTrue
<1>7. SearchesTrue'
      BY <1>2 DEF RunSendForAck, SentOr, GiveUp, Fail, AckWait, SearchesTrue, Untried, SenkushaInv, BeforeIn, BeforeOut
<1>8. ResultsInPlace'
  <2>1. measured' = measured
        BY DEF RunSendForAck, Counters
  <2>2. rpc' \in BeforeOut => rpc \in BeforeOut
        BY <1>3
  <2>3. rpc' \in InOut => rpc \in InOut
        BY DEF RunSendForAck, SentOr, GiveUp, Fail, AckWait, InOut
  <2>4. rpc' \in {"final", "awaitFinal"} => rpc \in {"final", "awaitFinal"}
        BY DEF RunSendForAck, SentOr, GiveUp, Fail, AckWait
  <2>5. ~(rpc' \in AtEnd /\ err' = "SUCCESS")
        BY DEF RunSendForAck, SentOr, GiveUp, Fail, AckWait, AtEnd
  <2>. QED BY <2>1, <2>2, <2>3, <2>4, <2>5 DEF ResultsInPlace, SenkushaInv
<1>9. MtuPasses' /\ MtuIsLargest'
  <2>1. UNCHANGED <<measured, path, timely>>
        BY <1>2 DEF RunSendForAck, Counters
  <2>. QED BY <2>1 DEF MtuPasses, MtuIsLargest, SenkushaInv
<1>. QED BY <1>4, <1>5, <1>6, <1>7, <1>8, <1>9 DEF SenkushaInv

LEMMA RunPingKeeps == SenkushaInv /\ RunPing => SenkushaInv'
<1> SUFFICES ASSUME SenkushaInv, RunPing PROVE SenkushaInv'
    OBVIOUS
<1> USE SenkushaAssumption
<1>1. \/ arriving' = arriving
      \/ arriving' = arriving \cup {Answer("pong", senkusha.ping + 1)} /\ senkusha'.ping = senkusha.ping + 1
      BY MayBringAdds DEF RunPing, SentOr, Expect, SenkushaInv, SenkushaTypeOK, SenkushaType
<1>2. rpc' \notin {"awaitMtu", "awaitOutPong", "mtuIn", "mtuOut"} /\ UNCHANGED <<search, path, timely, callback>>
      BY DEF RunPing, SentOr, GiveUp, Fail, Counters, World
<1>3. /\ senkusha'.ping = senkusha.ping \/ (senkusha'.ping = senkusha.ping + 1 /\ rpc = "ping")
      /\ rpc' \in BeforeOut => rpc \in BeforeOut /\ senkusha'.mtu_id = senkusha.mtu_id
      BY DEF RunPing, Expect, SentOr, GiveUp, Fail, BeforeOut, SenkushaInv, SenkushaTypeOK, SenkushaType
<1>4. SenkushaTypeOK'
  <2>1. Answer("pong", senkusha.ping + 1) \in [kind : Kinds, n : Nat]
        BY DEF Answer, Kinds, SenkushaInv, SenkushaTypeOK, SenkushaType
  <2>2. arriving' \subseteq [kind : Kinds, n : Nat] /\ callback' \in [kind : Kinds, n : Nat]
        BY <1>1, <1>2, <2>1 DEF SenkushaInv, SenkushaTypeOK, SenkushaType
  <2>3. senkusha' \in SenkushaType
    <3>1. senkusha \in SenkushaType /\ "EXPECT_PONG" \in States
          BY DEF SenkushaInv, SenkushaTypeOK, SenkushaType, States
    <3>2. [senkusha EXCEPT !.ping = @ + 1] \in SenkushaType
          BY <3>1 DEF SenkushaType
    <3>. QED BY <3>1, <3>2, ExpectSets DEF RunPing
  <2>4. rpc' \in BeforeOut \cup InOut \cup {"final", "awaitFinal"} \cup AtEnd
        BY DEF RunPing, SentOr, GiveUp, Fail, BeforeOut, InOut, AtEnd
  <2>5. measured' = measured
        BY DEF RunPing, Counters
  <2>. QED BY <1>2, <2>2, <2>3, <2>4, <2>5 DEF SenkushaInv, SenkushaTypeOK, SenkushaType
<1>5. NumbersTrue'
      BY <1>1, <1>2, <1>3, <1>4 DEF RunPing, Expect, Answer, NumbersTrue, SenkushaInv, SenkushaTypeOK, SenkushaType, BeforeOut
<1>6. AnswersTrue' /\ FinishedTrue'
      BY <1>2 DEF AnswersTrue, FinishedTrue
<1>7. SearchesTrue'
      BY <1>2 DEF RunPing, SentOr, GiveUp, Fail, SearchesTrue, Untried, SenkushaInv, BeforeIn, BeforeOut
<1>8. ResultsInPlace'
  <2>1. measured' = measured
        BY DEF RunPing, Counters
  <2>2. rpc' \in BeforeOut => rpc \in BeforeOut
        BY <1>3
  <2>3. rpc' \in InOut => rpc \in InOut
        BY DEF RunPing, SentOr, GiveUp, Fail, InOut
  <2>4. rpc' \in {"final", "awaitFinal"} => rpc \in {"final", "awaitFinal"}
        BY DEF RunPing, SentOr, GiveUp, Fail
  <2>5. ~(rpc' \in AtEnd /\ err' = "SUCCESS")
        BY DEF RunPing, SentOr, GiveUp, Fail, AtEnd
  <2>. QED BY <2>1, <2>2, <2>3, <2>4, <2>5 DEF ResultsInPlace, SenkushaInv
<1>9. MtuPasses' /\ MtuIsLargest'
  <2>1. UNCHANGED <<measured, path, timely>>
        BY <1>2 DEF RunPing, Counters
  <2>. QED BY <2>1 DEF MtuPasses, MtuIsLargest, SenkushaInv
<1>. QED BY <1>4, <1>5, <1>6, <1>7, <1>8, <1>9 DEF SenkushaInv

LEMMA RunClientMtuKeeps == SenkushaInv /\ RunClientMtu => SenkushaInv'
<1> SUFFICES ASSUME SenkushaInv, RunClientMtu PROVE SenkushaInv'
    OBVIOUS
<1> USE SenkushaAssumption
<1>1. arriving' = arriving \/ arriving' = arriving \cup {Answer("clientMtu", 1)}
      BY MayBringAdds DEF RunClientMtu, SentOr
<1>2. rpc' \notin {"awaitMtu", "awaitOutPong", "mtuIn", "mtuOut"} /\ UNCHANGED <<search, path, timely, callback>>
      BY DEF RunClientMtu, SentOr, GiveUp, Fail, Counters, World
<1>3. /\ senkusha'.ping = senkusha.ping \/ (senkusha'.ping = senkusha.ping + 1 /\ rpc = "ping")
      /\ rpc' \in BeforeOut => rpc \in BeforeOut /\ senkusha'.mtu_id = senkusha.mtu_id
      BY DEF RunClientMtu, Expect, SentOr, GiveUp, Fail, BeforeOut, SenkushaInv, SenkushaTypeOK, SenkushaType
<1>4. SenkushaTypeOK'
  <2>1. Answer("clientMtu", 1) \in [kind : Kinds, n : Nat]
        BY DEF Answer, Kinds, SenkushaInv, SenkushaTypeOK, SenkushaType
  <2>2. arriving' \subseteq [kind : Kinds, n : Nat] /\ callback' \in [kind : Kinds, n : Nat]
        BY <1>1, <1>2, <2>1 DEF SenkushaInv, SenkushaTypeOK, SenkushaType
  <2>3. senkusha' \in SenkushaType
    <3>1. senkusha \in SenkushaType /\ "EXPECT_CLIENT_MTU_COMMAND" \in States
          BY DEF SenkushaInv, SenkushaTypeOK, SenkushaType, States
    <3>2. [senkusha EXCEPT !.mtu_id = 1] \in SenkushaType
          BY <3>1 DEF SenkushaType
    <3>. QED BY <3>1, <3>2, ExpectSets DEF RunClientMtu
  <2>4. rpc' \in BeforeOut \cup InOut \cup {"final", "awaitFinal"} \cup AtEnd
        BY DEF RunClientMtu, SentOr, GiveUp, Fail, BeforeOut, InOut, AtEnd
  <2>5. measured' = measured
        BY DEF RunClientMtu, Counters
  <2>. QED BY <1>2, <2>2, <2>3, <2>4, <2>5 DEF SenkushaInv, SenkushaTypeOK, SenkushaType
<1>5. NumbersTrue'
      BY <1>1, <1>2, <1>3, <1>4 DEF RunClientMtu, Expect, Answer, NumbersTrue, SenkushaInv, SenkushaTypeOK, SenkushaType, BeforeOut
<1>6. AnswersTrue' /\ FinishedTrue'
      BY <1>2 DEF AnswersTrue, FinishedTrue
<1>7. SearchesTrue'
      BY <1>2 DEF RunClientMtu, SentOr, GiveUp, Fail, SearchesTrue, Untried, SenkushaInv, BeforeIn, BeforeOut
<1>8. ResultsInPlace'
  <2>1. measured' = measured
        BY DEF RunClientMtu, Counters
  <2>2. rpc' \in BeforeOut => rpc \in BeforeOut
        BY <1>3
  <2>3. rpc' \in InOut => rpc \in InOut
        BY DEF RunClientMtu, SentOr, GiveUp, Fail, InOut
  <2>4. rpc' \in {"final", "awaitFinal"} => rpc \in {"final", "awaitFinal"}
        BY DEF RunClientMtu, SentOr, GiveUp, Fail
  <2>5. ~(rpc' \in AtEnd /\ err' = "SUCCESS")
        BY DEF RunClientMtu, SentOr, GiveUp, Fail, AtEnd
  <2>. QED BY <2>1, <2>2, <2>3, <2>4, <2>5 DEF ResultsInPlace, SenkushaInv
<1>9. MtuPasses' /\ MtuIsLargest'
  <2>1. UNCHANGED <<measured, path, timely>>
        BY <1>2 DEF RunClientMtu, Counters
  <2>. QED BY <2>1 DEF MtuPasses, MtuIsLargest, SenkushaInv
<1>. QED BY <1>4, <1>5, <1>6, <1>7, <1>8, <1>9 DEF SenkushaInv

(* The searches.                                                           *)
LEMMA RunMtuInKeeps == SenkushaInv /\ RunMtuIn => SenkushaInv'
<1> SUFFICES ASSUME SenkushaInv, RunMtuIn PROVE SenkushaInv'
    OBVIOUS
<1> USE SenkushaAssumption
<1> DEFINE id == senkusha.mtu_id + 1
<1>0. /\ rpc = "mtuIn" /\ UNCHANGED <<search, pings, takion, callback, path, timely>>
      /\ SearchTrue(search, timely, path.in, MaxMtu)
      /\ senkusha \in SenkushaType /\ id \in Nat
      /\ search \in Searches /\ path \in [in : Nat, out : Nat] /\ measured \in [in : Nat, out : Nat]
      /\ measured.in = 0 /\ measured.out = 0
      BY DEF RunMtuIn, World, SenkushaInv, SearchesTrue, SenkushaTypeOK, SenkushaType, Searches, ResultsInPlace, BeforeOut
<1>1. CASE search.max - search.min > 1
  <2>1. /\ Expect("EXPECT_MTU", [senkusha EXCEPT !.mtu_id = @ + 1])
        /\ SentOr(Fail("ERROR"), "awaitMtu", Answer("mtu", id), search.cur <= path.in)
        /\ measured' = measured
        BY <1>1 DEF RunMtuIn
  <2>2. /\ senkusha' \in SenkushaType /\ senkusha'.state = "EXPECT_MTU" /\ senkusha'.state_finished = FALSE
        /\ senkusha'.ping = senkusha.ping /\ senkusha'.mtu_id = id
    <3>1. [senkusha EXCEPT !.mtu_id = @ + 1] \in SenkushaType /\ "EXPECT_MTU" \in States
          BY <1>0 DEF SenkushaType, States
    <3>. QED BY <2>1, <3>1, <1>0, ExpectSets DEF SenkushaType
  <2>3. arriving' = arriving \/ (search.cur <= path.in /\ arriving' = arriving \cup {Answer("mtu", id)})
        BY <2>1, MayBringAdds DEF SentOr
  <2>4. (rpc' = "awaitMtu" /\ err' = err) \/ (rpc' = "disconnect" /\ err' = "ERROR")
        BY <2>1 DEF SentOr, Fail, GiveUp
  <2>5. SenkushaTypeOK'
    <3>1. Answer("mtu", id) \in [kind : Kinds, n : Nat]
          BY <1>0 DEF Answer, Kinds
    <3>2. arriving' \subseteq [kind : Kinds, n : Nat]
          BY <2>3, <3>1 DEF SenkushaInv, SenkushaTypeOK
    <3>. QED BY <1>0, <2>1, <2>2, <2>4, <3>2 DEF SenkushaInv, SenkushaTypeOK, BeforeOut, AtEnd
  <2>6. SearchesTrue'
        BY <1>0, <1>1, <2>4 DEF SearchesTrue, BeforeIn, BeforeOut
  <2>7. ASSUME NEW a \in arriving' \cup {callback'}
        PROVE  /\ a.kind = "mtu" => a.n <= senkusha'.mtu_id
               /\ a.kind = "mtu" /\ a.n = senkusha'.mtu_id => search.cur <= path.in
               /\ a.kind = "pong" => a.n <= senkusha'.ping
    <3>1. CASE a \in arriving \cup {callback}
      <4>1. (a.kind = "mtu" => a.n <= senkusha.mtu_id) /\ (a.kind = "pong" => a.n <= senkusha.ping)
            BY <3>1, <1>0 DEF SenkushaInv, NumbersTrue, BeforeOut
      <4>2. a.n \in Nat /\ senkusha.mtu_id \in Nat
            BY <3>1, <1>0 DEF SenkushaInv, SenkushaTypeOK, SenkushaType
      <4>. QED BY <4>1, <4>2, <2>2
    <3>2. CASE a = Answer("mtu", id) /\ search.cur <= path.in
          BY <3>2, <2>2, <1>0 DEF Answer, SenkushaType
    <3>. QED BY <3>1, <3>2, <2>3, <2>7, <1>0
  <2>8. NumbersTrue' /\ AnswersTrue'
        BY <2>7, <2>4, <1>0 DEF NumbersTrue, AnswersTrue
  <2>9. FinishedTrue'
        BY <2>2, <2>4 DEF FinishedTrue
  <2>10. ResultsInPlace' /\ MtuPasses' /\ MtuIsLargest'
        BY <1>0, <2>1, <2>4 DEF ResultsInPlace, MtuPasses, MtuIsLargest, BeforeOut, InOut, AtEnd
  <2>. QED BY <2>5, <2>6, <2>8, <2>9, <2>10 DEF SenkushaInv
<1>2. CASE ~(search.max - search.min > 1)
  <2>1. measured' = [measured EXCEPT !.in = search.min] /\ rpc' = "clientMtu"
        /\ UNCHANGED <<senkusha, err, arriving>>
        BY <1>2 DEF RunMtuIn
  <2>2. measured' \in [in : Nat, out : Nat] /\ measured'.in = search.min /\ measured'.out = 0
        /\ search.min \in MinMtu .. MaxMtu
        BY <1>0, <2>1 DEF Searches
  <2>3. SenkushaTypeOK'
        BY <1>0, <2>1, <2>2 DEF SenkushaInv, SenkushaTypeOK, InOut
  <2>4. SearchesTrue' /\ FinishedTrue' /\ AnswersTrue'
        BY <2>1 DEF SearchesTrue, FinishedTrue, AnswersTrue, BeforeIn, BeforeOut
  <2>5. NumbersTrue'
        BY <1>0, <2>1 DEF NumbersTrue, BeforeOut, SenkushaInv
  <2>6. ResultsInPlace'
        BY <2>1, <2>2 DEF ResultsInPlace, BeforeOut, InOut, AtEnd
  <2>7. MtuPasses'
        BY <1>0, <2>2 DEF MtuPasses, Lesser, SearchTrue, Searches
  <2>8. MtuIsLargest'
    <3>1. ASSUME timely, MinMtu <= path.in PROVE search.min = Lesser(path.in, MaxMtu)
          BY <3>1, <1>0, <1>2 DEF SearchTrue, Untried, Searches, Lesser
    <3>. QED BY <3>1, <1>0, <2>2 DEF MtuIsLargest
  <2>. QED BY <2>3, <2>4, <2>5, <2>6, <2>7, <2>8 DEF SenkushaInv
<1>. QED BY <1>1, <1>2

LEMMA RunMtuKeeps == SenkushaInv /\ RunMtu => SenkushaInv'
<1> SUFFICES ASSUME SenkushaInv, RunMtu PROVE SenkushaInv'
    OBVIOUS
<1> USE SenkushaAssumption
<1>1. rpc = "awaitMtu" /\ rpc' = "mtuIn" /\ Judge(path.in)
      /\ UNCHANGED <<senkusha, err, measured, callback, path, arriving>>
      BY DEF RunMtu, World
<1>2. search' \in Searches /\ timely' \in BOOLEAN /\ (timely' => timely)
      /\ SearchTrue(search', timely', path.in, MaxMtu)
  <2>1. /\ search \in Searches /\ timely \in BOOLEAN /\ path.in \in Nat /\ MaxMtu \in MinMtu .. MaxMtu
        /\ SearchTrue(search, timely, path.in, MaxMtu) /\ search.max - search.min > 1
        /\ senkusha.state_finished => search.cur <= path.in
        BY <1>1 DEF SenkushaInv, SenkushaTypeOK, Searches, SearchesTrue, FinishedTrue
  <2>. QED BY <1>1, <2>1, JudgeKeeps
<1>3. SenkushaTypeOK'
      BY <1>1, <1>2 DEF SenkushaInv, SenkushaTypeOK, Searches, BeforeOut
<1>4. SearchesTrue'
      BY <1>1, <1>2 DEF SearchesTrue, BeforeIn, BeforeOut
<1>5. NumbersTrue'
      BY <1>1 DEF NumbersTrue, BeforeOut, SenkushaInv
<1>6. AnswersTrue' /\ FinishedTrue'
      BY <1>1 DEF AnswersTrue, FinishedTrue
<1>7. ResultsInPlace'
      BY <1>1 DEF ResultsInPlace, SenkushaInv, BeforeOut, InOut, AtEnd
<1>8. MtuPasses' /\ MtuIsLargest'
      BY <1>1, <1>2 DEF MtuPasses, MtuIsLargest, SenkushaInv
<1>. QED BY <1>3, <1>4, <1>5, <1>6, <1>7, <1>8 DEF SenkushaInv

LEMMA RunClientMtuConfirmedKeeps == SenkushaInv /\ RunClientMtuConfirmed => SenkushaInv'
<1> SUFFICES ASSUME SenkushaInv, RunClientMtuConfirmed PROVE SenkushaInv'
    OBVIOUS
<1> USE SenkushaAssumption
<1>1. /\ rpc = "awaitClientMtu" /\ UNCHANGED <<senkusha, measured, callback, path, arriving, timely>>
      /\ \/ /\ rpc' = "mtuOut" /\ err' = err
            /\ search' = [min |-> MinMtu, max |-> MaxMtu, cur |-> measured.in, attempt |-> 0]
         \/ rpc' = "disconnect" /\ err' = "TIMEOUT" /\ search' = search
      BY DEF RunClientMtuConfirmed, World, Fail, GiveUp
<1>2. measured.in \in MinMtu .. MaxMtu /\ measured.in # 0 /\ measured.out = 0
      BY <1>1 DEF SenkushaInv, ResultsInPlace, InOut
<1>3. SenkushaTypeOK'
      BY <1>1, <1>2 DEF SenkushaInv, SenkushaTypeOK, InOut, AtEnd
<1>4. SearchesTrue'
      BY <1>1, <1>2 DEF SearchesTrue, SearchTrue, Untried, BeforeIn, BeforeOut
<1>5. NumbersTrue'
      BY <1>1 DEF NumbersTrue, BeforeOut, SenkushaInv
<1>6. AnswersTrue' /\ FinishedTrue'
      BY <1>1 DEF AnswersTrue, FinishedTrue
<1>7. ResultsInPlace'
      BY <1>1, <1>2 DEF ResultsInPlace, BeforeOut, InOut, AtEnd
<1>8. MtuPasses' /\ MtuIsLargest'
      BY <1>1 DEF MtuPasses, MtuIsLargest, SenkushaInv
<1>. QED BY <1>3, <1>4, <1>5, <1>6, <1>7, <1>8 DEF SenkushaInv

LEMMA RunMtuOutKeeps == SenkushaInv /\ RunMtuOut => SenkushaInv'
<1> SUFFICES ASSUME SenkushaInv, RunMtuOut PROVE SenkushaInv'
    OBVIOUS
<1> USE SenkushaAssumption
<1> DEFINE tag == senkusha.ping + 1
<1>1. /\ rpc = "mtuOut" /\ search.max - search.min > 1
      /\ UNCHANGED <<err, measured, callback, path>>
      /\ Expect("EXPECT_PONG", [senkusha EXCEPT !.ping = @ + 1])
      BY DEF RunMtuOut, World
<1>2. /\ senkusha \in SenkushaType /\ tag \in Nat
      /\ search \in Searches /\ timely \in BOOLEAN /\ path.out \in Nat
      /\ measured.in \in MinMtu .. MaxMtu /\ measured.in # 0 /\ measured.out = 0
      /\ SearchTrue(search, timely, path.out, measured.in)
      BY <1>1 DEF SenkushaInv, SenkushaTypeOK, SenkushaType, Searches, SearchesTrue, ResultsInPlace, InOut
<1>3. /\ senkusha' \in SenkushaType /\ senkusha'.state = "EXPECT_PONG" /\ senkusha'.state_finished = FALSE
      /\ senkusha'.ping = tag /\ senkusha'.mtu_id = senkusha.mtu_id
  <2>1. [senkusha EXCEPT !.ping = @ + 1] \in SenkushaType /\ "EXPECT_PONG" \in States
        BY <1>2 DEF SenkushaType, States
  <2>. QED BY <1>1, <1>2, <2>1, ExpectSets DEF SenkushaType
<1>4. \/ /\ rpc' = "awaitOutPong" /\ UNCHANGED <<search, timely>>
         /\ arriving' = arriving \/ (search.cur <= path.out /\ arriving' = arriving \cup {Answer("pong", tag)})
      \/ rpc' = "mtuOut" /\ arriving' = arriving /\ Miss(path.out)
      BY <1>1, MayBringAdds DEF RunMtuOut
<1>5. search' \in Searches /\ timely' \in BOOLEAN /\ (timely' => timely)
      /\ SearchTrue(search', timely', path.out, measured.in)
      BY <1>1, <1>2, <1>4, MissKeeps
<1>6. SenkushaTypeOK'
  <2>1. Answer("pong", tag) \in [kind : Kinds, n : Nat]
        BY <1>2 DEF Answer, Kinds
  <2>2. arriving' \subseteq [kind : Kinds, n : Nat]
        BY <1>4, <2>1 DEF SenkushaInv, SenkushaTypeOK
  <2>3. rpc' \in InOut
        BY <1>4 DEF InOut
  <2>. QED BY <1>1, <1>3, <1>5, <2>2, <2>3 DEF SenkushaInv, SenkushaTypeOK, Searches
<1>7. SearchesTrue'
      BY <1>1, <1>4, <1>5 DEF SearchesTrue, BeforeIn, BeforeOut
<1>8. ASSUME NEW a \in arriving' \cup {callback'}
      PROVE  /\ a.kind = "pong" => a.n <= senkusha'.ping
             /\ rpc' = "awaitOutPong" /\ a.kind = "pong" /\ a.n = senkusha'.ping => search.cur <= path.out
  <2>1. CASE a \in arriving \cup {callback}
    <3>1. a.kind = "pong" => a.n <= senkusha.ping
          BY <2>1 DEF SenkushaInv, NumbersTrue
    <3>2. a.n \in Nat /\ senkusha.ping \in Nat
          BY <2>1 DEF SenkushaInv, SenkushaTypeOK, SenkushaType
    <3>. QED BY <3>1, <3>2, <1>3
  <2>2. CASE a = Answer("pong", tag) /\ search.cur <= path.out
        BY <2>2, <1>2, <1>3 DEF Answer
  <2>. QED BY <2>1, <2>2, <1>1, <1>4, <1>8
<1>9. rpc' \notin BeforeOut /\ rpc' # "awaitMtu"
      BY <1>4 DEF BeforeOut
<1>10. NumbersTrue' /\ AnswersTrue'
  <2>1. rpc' = "awaitOutPong" => search' = search
        BY <1>4
  <2>. QED BY <1>1, <1>8, <1>9, <2>1 DEF NumbersTrue, AnswersTrue
<1>11. FinishedTrue'
      BY <1>3, <1>9 DEF FinishedTrue
<1>12. ResultsInPlace'
      BY <1>1, <1>2, <1>4 DEF ResultsInPlace, BeforeOut, InOut, AtEnd
<1>13. MtuPasses' /\ MtuIsLargest'
      BY <1>1, <1>5 DEF MtuPasses, MtuIsLargest, SenkushaInv
<1>. QED BY <1>6, <1>7, <1>10, <1>11, <1>12, <1>13 DEF SenkushaInv

LEMMA RunOutPongKeeps == SenkushaInv /\ RunOutPong => SenkushaInv'
<1> SUFFICES ASSUME SenkushaInv, RunOutPong PROVE SenkushaInv'
    OBVIOUS
<1> USE SenkushaAssumption
<1>1. rpc = "awaitOutPong" /\ rpc' = "mtuOut" /\ Judge(path.out)
      /\ UNCHANGED <<senkusha, err, measured, callback, path, arriving>>
      BY DEF RunOutPong, World
<1>2. search' \in Searches /\ timely' \in BOOLEAN /\ (timely' => timely)
      /\ SearchTrue(search', timely', path.out, measured.in)
  <2>1. /\ search \in Searches /\ timely \in BOOLEAN /\ path.out \in Nat /\ measured.in \in MinMtu .. MaxMtu
        /\ SearchTrue(search, timely, path.out, measured.in) /\ search.max - search.min > 1
        /\ senkusha.state_finished => search.cur <= path.out
        BY <1>1 DEF SenkushaInv, SenkushaTypeOK, Searches, SearchesTrue, FinishedTrue, ResultsInPlace, InOut
  <2>. QED BY <1>1, <2>1, JudgeKeeps
<1>3. SenkushaTypeOK'
      BY <1>1, <1>2 DEF SenkushaInv, SenkushaTypeOK, Searches, InOut
<1>4. SearchesTrue'
      BY <1>1, <1>2 DEF SearchesTrue, BeforeIn, BeforeOut
<1>5. NumbersTrue'
      BY <1>1 DEF NumbersTrue, BeforeOut, SenkushaInv
<1>6. AnswersTrue' /\ FinishedTrue'
      BY <1>1 DEF AnswersTrue, FinishedTrue
<1>7. ResultsInPlace'
      BY <1>1 DEF ResultsInPlace, SenkushaInv, BeforeOut, InOut, AtEnd
<1>8. MtuPasses' /\ MtuIsLargest'
      BY <1>1, <1>2 DEF MtuPasses, MtuIsLargest, SenkushaInv
<1>. QED BY <1>3, <1>4, <1>5, <1>6, <1>7, <1>8 DEF SenkushaInv

LEMMA RunMtuOutFoundKeeps == SenkushaInv /\ RunMtuOutFound => SenkushaInv'
<1> SUFFICES ASSUME SenkushaInv, RunMtuOutFound PROVE SenkushaInv'
    OBVIOUS
<1> USE SenkushaAssumption
<1>1. /\ rpc = "mtuOut" /\ search.max - search.min <= 1 /\ rpc' = "final"
      /\ measured' = [measured EXCEPT !.out = search.min]
      /\ UNCHANGED <<senkusha, search, err, callback, path, arriving, timely>>
      BY DEF RunMtuOutFound, World
<1>2. /\ search \in Searches /\ timely \in BOOLEAN /\ path \in [in : Nat, out : Nat]
      /\ measured \in [in : Nat, out : Nat] /\ measured.in \in MinMtu .. MaxMtu /\ measured.in # 0
      /\ SearchTrue(search, timely, path.out, measured.in)
      BY <1>1 DEF SenkushaInv, SenkushaTypeOK, Searches, SearchesTrue, ResultsInPlace, InOut
<1>3. measured' \in [in : Nat, out : Nat] /\ measured'.in = measured.in /\ measured'.out = search.min
      /\ search.min \in MinMtu .. MaxMtu
      BY <1>1, <1>2 DEF Searches
<1>4. SenkushaTypeOK'
      BY <1>1, <1>3 DEF SenkushaInv, SenkushaTypeOK
<1>5. SearchesTrue' /\ AnswersTrue' /\ FinishedTrue'
      BY <1>1 DEF SearchesTrue, AnswersTrue, FinishedTrue, BeforeIn, BeforeOut
<1>6. NumbersTrue'
      BY <1>1 DEF NumbersTrue, BeforeOut, SenkushaInv
<1>7. ResultsInPlace'
      BY <1>1, <1>2, <1>3 DEF ResultsInPlace, BeforeOut, InOut, AtEnd
<1>8. MtuPasses'
      BY <1>1, <1>2, <1>3 DEF MtuPasses, Lesser, SearchTrue, Searches, SenkushaInv
<1>9. MtuIsLargest'
  <2> DEFINE top == IF measured.in = MaxMtu THEN MaxMtu ELSE MaxMtu - 1
  <2>1. ASSUME timely, MinMtu <= path.out PROVE search.min = Lesser(path.out, top)
        BY <2>1, <1>1, <1>2 DEF SearchTrue, Untried, Searches, Lesser
  <2>2. timely /\ MinMtu <= path.in => measured.in = Lesser(path.in, MaxMtu)
        BY <1>2 DEF SenkushaInv, MtuIsLargest
  <2>. QED BY <1>1, <1>3, <2>1, <2>2 DEF MtuIsLargest
<1>. QED BY <1>4, <1>5, <1>6, <1>7, <1>8, <1>9 DEF SenkushaInv

(* The Takion thread.                                                      *)
LEMMA TakionBringsKeeps ==
    SenkushaInv /\ (TakionConnects \/ TakionReceives \/ TakionEnds) => SenkushaInv'
<1> SUFFICES ASSUME SenkushaInv, TakionConnects \/ TakionReceives \/ TakionEnds PROVE SenkushaInv'
    OBVIOUS
<1>1. UNCHANGED <<rpc, senkusha, search, pings, err, measured, path, timely>>
      BY DEF TakionConnects, TakionReceives, TakionEnds, runVars
<1>2. /\ arriving' \subseteq arriving
      /\ callback' \in arriving \/ callback' = Answer("connected", 0) \/ callback' = Answer("disconnect", 0)
      BY DEF TakionConnects, TakionReceives, TakionEnds
<1>3. SenkushaTypeOK'
      BY <1>1, <1>2 DEF SenkushaInv, SenkushaTypeOK, Answer, Kinds
<1>4. NumbersTrue'
      BY <1>1, <1>2 DEF SenkushaInv, NumbersTrue, Answer
<1>5. AnswersTrue'
      BY <1>1, <1>2 DEF SenkushaInv, AnswersTrue, Answer
<1>6. SearchesTrue' /\ FinishedTrue' /\ ResultsInPlace'
      BY <1>1 DEF SenkushaInv, SearchesTrue, FinishedTrue, ResultsInPlace
<1>7. MtuPasses' /\ MtuIsLargest'
      BY <1>1 DEF SenkushaInv, MtuPasses, MtuIsLargest
<1>. QED BY <1>3, <1>4, <1>5, <1>6, <1>7 DEF SenkushaInv

LEMMA TakionHandlesKeeps == SenkushaInv /\ TakionHandles => SenkushaInv'
<1> SUFFICES ASSUME SenkushaInv, TakionHandles PROVE SenkushaInv'
    OBVIOUS
<1>1. UNCHANGED <<rpc, search, pings, err, measured, arriving, path, timely>>
      /\ callback' = NoAnswer
      BY DEF TakionHandles
<1>2. /\ senkusha' \in SenkushaType /\ senkusha'.state = senkusha.state
      /\ senkusha'.ping = senkusha.ping /\ senkusha'.mtu_id = senkusha.mtu_id
      /\ senkusha'.state_finished => senkusha.state_finished \/ Awaited(callback)
  <2> DEFINE f == IF callback.kind = "disconnect" /\ senkusha.state = "TAKION_CONNECT" THEN FALSE
                  ELSE senkusha.state_finished \/ Awaited(callback)
  <2>1. senkusha \in SenkushaType
        BY DEF SenkushaInv, SenkushaTypeOK
  <2>2. f \in BOOLEAN /\ (f => senkusha.state_finished \/ Awaited(callback))
        BY <2>1 DEF Awaited, SenkushaType
  <2>3. senkusha' = [senkusha EXCEPT !.state_finished = f]
        BY DEF TakionHandles
  <2> HIDE DEF f
  <2>. QED BY <2>1, <2>2, <2>3 DEF SenkushaType
<1>3. SenkushaTypeOK'
      BY <1>1, <1>2 DEF SenkushaInv, SenkushaTypeOK, NoAnswer, Answer, Kinds
<1>4. NumbersTrue' /\ AnswersTrue'
      BY <1>1, <1>2 DEF SenkushaInv, NumbersTrue, AnswersTrue, NoAnswer, Answer
<1>5. FinishedTrue'
  <2>1. CASE rpc = "awaitMtu"
        BY <2>1, <1>1, <1>2 DEF SenkushaInv, FinishedTrue, AnswersTrue, Awaited
  <2>2. CASE rpc = "awaitOutPong"
        BY <2>2, <1>1, <1>2 DEF SenkushaInv, FinishedTrue, AnswersTrue, Awaited
  <2>. QED BY <2>1, <2>2, <1>1 DEF FinishedTrue
<1>6. SearchesTrue' /\ ResultsInPlace'
      BY <1>1 DEF SenkushaInv, SearchesTrue, ResultsInPlace
<1>7. MtuPasses' /\ MtuIsLargest'
      BY <1>1 DEF SenkushaInv, MtuPasses, MtuIsLargest
<1>. QED BY <1>3, <1>4, <1>5, <1>6, <1>7 DEF SenkushaInv

LEMMA StutterKeeps == SenkushaInv /\ UNCHANGED vars => SenkushaInv'
BY DEF SenkushaInv, SenkushaTypeOK, SearchesTrue, NumbersTrue, AnswersTrue, FinishedTrue, ResultsInPlace,
       MtuPasses, MtuIsLargest, vars, runVars

-----------------------------------------------------------------------------
(* The inductive invariant holds in every state of chiaki_senkusha_run.     *)
THEOREM SenkushaInvHolds == Spec => []SenkushaInv
<1>1. Init => SenkushaInv
      BY InitInv
<1>2. SenkushaInv /\ [Next]_vars => SenkushaInv'
  <2> SUFFICES ASSUME SenkushaInv, [Next]_vars PROVE SenkushaInv'
      OBVIOUS
  <2>1. CASE Run
        BY <2>1, RunBeginKeeps, RunTakionConnectedKeeps, RunSendBigKeeps, RunBangKeeps,
           RunSendForAckKeeps, RunAckKeeps, RunPingKeeps, RunPongKeeps, RunRttKeeps, RunMtuInKeeps,
           RunMtuKeeps, RunClientMtuKeeps, RunClientMtuConfirmedKeeps, RunMtuOutKeeps,
           RunOutPongKeeps, RunMtuOutFoundKeeps, RunDisconnectKeeps, RunClosedKeeps DEF Run
  <2>2. CASE TakionThread
        BY <2>2, TakionBringsKeeps, TakionHandlesKeeps DEF TakionThread
  <2>3. CASE UNCHANGED vars
        BY <2>3, StutterKeeps
  <2>. QED BY <2>1, <2>2, <2>3 DEF Next
<1>. QED BY <1>1, <1>2, PTL DEF Spec

(* The sizes chiaki_senkusha_run (senkusha.c:111) gives its caller pass the  *)
(* path, are the largest it could find when no size was missed, and are     *)
(* both there when it returns success.                                     *)
THEOREM MtuIsTrue == Spec => []MeasuresTrue
<1>1. SenkushaInv => MeasuresTrue
      BY DEF SenkushaInv, MeasuresTrue, ResultsInPlace, AtEnd
<1>. QED BY <1>1, SenkushaInvHolds, PTL
=============================================================================
