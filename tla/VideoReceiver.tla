---------------------------- MODULE VideoReceiver ----------------------------
(***************************************************************************)
(* The video path of lib/src/videoreceiver.c and lib/src/frameprocessor.c: *)
(* the units of a frame are collected in slots until there are enough of   *)
(* them, the frame is handed to the decoder, and what could not be         *)
(* completed is reported to the console.                                   *)
(*                                                                         *)
(* chiaki_video_receiver_av_packet runs in the Takion thread alone, so a   *)
(* packet is one action.  Packets are lost, repeated and overtake each     *)
(* other: any unit of a frame near the newest one may come at any time.    *)
(* The contents of a unit are the frame it belongs to; the matrix          *)
(* arithmetic of fec.c recovers a frame when no more units are missing     *)
(* than there are units for the purpose.                                   *)
(***************************************************************************)
EXTENDS SeqNum, Sequences, FiniteSets

CONSTANTS
    MaxFrames,      \* bound on the frames of the stream
    Source, Fec,    \* per frame: units_in_frame_total - units_in_frame_fec,
                    \*   units_in_frame_fec
    Profile,        \* per frame: adaptive_stream_index
    Profiles        \* the number of profiles of STREAMINFO

Frames == 1 .. MaxFrames

(* A frame has data, and its units fit into UNIT_SLOTS_MAX slots.          *)
ASSUME VideoAssumption ==
    /\ MaxFrames \in Nat
    /\ Source \in [Frames -> Nat \ {0}]
    /\ Fec \in [Frames -> Nat]
    /\ Profiles \in Nat \ {0}
    /\ Profile \in [Frames -> 0 .. Profiles - 1]
    /\ SeqHalf > 1

NoFrame == 0
NoIndex == -1
NoProfile == -1

(* unit_index of the packets the console sends of a frame. *)
Units(f) == 0 .. Source[f] + Fec[f] - 1

VARIABLES
    vr,             \* ChiakiVideoReceiver, with its ChiakiFrameProcessor fp
    newest,         \* ghost: the number of the frame vr is at, not wrapped
    shown,          \* what the last packet made the receiver hand to the decoder
    lastShown,      \* history: the newest frame handed over so far,
    lastCompleted,  \*   the newest that was whole and the decoder took,
    completed,      \*   all of those,
    reported        \*   those the console was told are corrupt

videoVars == <<vr, newest, shown, lastShown, lastCompleted, completed, reported>>

(* chiaki_frame_processor_init, chiaki_video_receiver_init.                *)
EmptyProcessor ==
    [units_source_expected |-> 0, units_fec_expected |-> 0,
     units_source_received |-> 0, units_fec_received |-> 0,
     unit_slots |-> [i \in {} |-> NoFrame], flushed |-> TRUE]

VideoInit ==
    /\ vr = [frame_index_cur |-> NoIndex, frame_index_prev |-> NoIndex,
             frame_index_prev_complete |-> 0,
             profile_cur |-> NoProfile, profiles_count |-> 0, fp |-> EmptyProcessor]
    /\ newest = NoFrame
    /\ shown = <<>>
    /\ lastShown = NoFrame /\ lastCompleted = NoFrame
    /\ completed = {}
    /\ reported = {}

-----------------------------------------------------------------------------
(* The frame processor.                                                    *)

Present(fp) == {i \in DOMAIN fp.unit_slots : fp.unit_slots[i] # NoFrame}

(* Mutant: the slots are not cleared when their number stays the same. *)
AllocFrame_KeepsSlots(fp, f) ==
    LET fec == IF Fec[f] < 1 THEN 1 ELSE Fec[f]
        slots == 0 .. Source[f] + fec - 1
    IN  [units_source_expected |-> Source[f], units_fec_expected |-> fec,
         units_source_received |-> 0, units_fec_received |-> 0,
         unit_slots |-> IF DOMAIN fp.unit_slots = slots THEN fp.unit_slots
                        ELSE [i \in slots |-> NoFrame],
         flushed |-> FALSE]

(* chiaki_frame_processor_alloc_frame: at least one unit is taken to be    *)
(* for error correction.  What it refuses, a frame of more units for error *)
(* correction than units, of empty units or of more units than slots, the  *)
(* assumption above excludes; memory there is.                             *)
AllocFrame(fp, f) ==
    LET fec == IF Fec[f] < 1 THEN 1 ELSE Fec[f]
    IN  [units_source_expected |-> Source[f], units_fec_expected |-> fec,
         units_source_received |-> 0, units_fec_received |-> 0,
         unit_slots |-> [i \in 0 .. Source[f] + fec - 1 |-> NoFrame],
         flushed |-> FALSE]

(* chiaki_frame_processor_put_unit; a unit that is there already is refused. *)
(* The units of one frame have the size of its first and an index below    *)
(* its slots, so that the checks of both, the first of which lets an index *)
(* equal to the number of slots pass (frameprocessor.c:150), never act.    *)
PutUnit(fp, f, u) ==
    IF u \in Present(fp)
    THEN fp
    ELSE [fp EXCEPT !.unit_slots[u] = f,
                    !.units_source_received = IF u < fp.units_source_expected THEN @ + 1 ELSE @,
                    !.units_fec_received = IF u < fp.units_source_expected THEN @ ELSE @ + 1]

(* chiaki_frame_processor_flush_possible. *)
FlushPossible(fp) ==
    fp.units_source_received + fp.units_fec_received >= fp.units_source_expected

(* What chiaki_frame_processor_report_packet_stats pushes. *)
Generation(fp) ==
    LET received == fp.units_source_received + fp.units_fec_received
    IN  [received |-> received,
         lost |-> fp.units_source_expected + fp.units_fec_expected - received]

(* The slots without a unit, and erasures_count of chiaki_frame_processor_fec. *)
Erasures(fp) == DOMAIN fp.unit_slots \ Present(fp)

(* chiaki_frame_processor_fec: units of one frame bring back the others of  *)
(* it; had units of several frames been mixed, nobody could tell.          *)
Recovered(fp) ==
    LET frames == {fp.unit_slots[i] : i \in Present(fp)}
        frame == IF Cardinality(frames) = 1 THEN CHOOSE f \in frames : TRUE ELSE NoFrame
    IN  [fp EXCEPT !.unit_slots = [i \in DOMAIN @ |->
                                       IF i < fp.units_source_expected /\ i \in Erasures(fp)
                                       THEN frame ELSE @[i]]]

(* chiaki_frame_processor_flush; it leaves fp.flushed as it is. *)
Flush(fp) ==
    IF fp.units_source_expected = 0 \/ fp.flushed
    THEN [result |-> "FAILED", fp |-> fp]
    ELSE IF fp.units_source_received >= fp.units_source_expected
    THEN [result |-> "SUCCESS", fp |-> fp]
    ELSE IF Cardinality(Erasures(fp)) <= fp.units_fec_expected
    THEN [result |-> "FEC_SUCCESS", fp |-> Recovered(fp)]
    ELSE [result |-> "FEC_FAILED", fp |-> fp]

-----------------------------------------------------------------------------
(* The receiver.  v is the receiver in the middle of a packet: vr, and in  *)
(* out what it has handed to the decoder.                                  *)

(* chiaki_video_receiver_flush_frame for frame f: also what FEC could not   *)
(* complete goes to video_sample_cb, which says whether it has taken it.   *)
FlushFrame(v, f, taken) ==
    LET flush == Flush(v.vr.fp)
        done == flush.result # "FEC_FAILED" /\ taken
    IN  IF flush.result = "FAILED"
        THEN v
        ELSE [vr |-> [v.vr EXCEPT !.fp = flush.fp,
                                  !.frame_index_prev = v.vr.frame_index_cur,
                                  !.frame_index_prev_complete =
                                      IF done THEN v.vr.frame_index_cur ELSE @],
              out |-> Append(v.out,
                             [frame |-> f, done |-> done, header |-> v.vr.profile_cur,
                              whole |-> \A i \in 0 .. v.vr.fp.units_source_expected - 1 :
                                            flush.fp.unit_slots[i] = f])]

(* A packet of a frame before the current one is dropped at once. *)
IsOld(index) == vr.frame_index_cur >= 0 /\ SeqLt(index, vr.frame_index_cur)

(* So is one whose profile is not known, before STREAMINFO every one. *)
BadProfile(profile) == vr.profile_cur # profile /\ profile >= vr.profiles_count

IsNext(index) == vr.frame_index_cur < 0 \/ SeqGt(index, vr.frame_index_cur)

(* Mutant: it is given up even if it was handed over. *)
GiveUp_Again(v, taken) ==
    IF v.vr.frame_index_cur >= 0
    THEN FlushFrame(v, newest, taken)
    ELSE v

(* The frame before the next one is given up, unless it was handed over. *)
GiveUp(v, taken) ==
    IF v.vr.frame_index_cur >= 0 /\ v.vr.frame_index_prev # v.vr.frame_index_cur
    THEN FlushFrame(v, newest, taken)
    ELSE v

(* Mutant: the report starts behind the frame that was shown last. *)
Corrupt_SincePrev(v, index) ==
    LET expected == SeqAdd(v.vr.frame_index_prev, 1)
    IN  IF SeqGt(index, expected) /\ ~(index = 1 /\ v.vr.frame_index_cur < 0)
        THEN {SeqAdd(expected, k) : k \in 0 .. SeqDist(expected, SeqAdd(index, -1))}
        ELSE {}

(* The indices stream_connection_send_corrupt_frame reports. *)
Corrupt(v, index) ==
    LET expected == SeqAdd(v.vr.frame_index_prev_complete, 1)
    IN  IF SeqGt(index, expected) /\ ~(index = 1 /\ v.vr.frame_index_cur < 0)
        THEN {SeqAdd(expected, k) : k \in 0 .. SeqDist(expected, SeqAdd(index, -1))}
        ELSE {}

(* The frames those indices mean to the console that is at frame f. *)
Meant(indices, f) ==
    {g \in Frames : g < f /\ f - g < SeqMod /\ g % SeqMod \in indices}

NextFrame(v, f) ==
    [v EXCEPT !.vr.frame_index_cur = f % SeqMod, !.vr.fp = AllocFrame(@, f)]

(* The unit is put, and a frame that is now complete is handed over. *)
Put(v, f, u, taken) ==
    LET put == [v EXCEPT !.vr.fp = PutUnit(@, f, u)]
    IN  IF put.vr.frame_index_cur # put.vr.frame_index_prev /\ FlushPossible(put.vr.fp)
        THEN FlushFrame(put, f, taken)
        ELSE put

Note(out) ==
    /\ shown' = out
    /\ lastShown' = IF out = <<>> THEN lastShown ELSE out[Len(out)].frame
    /\ completed' = completed \cup {out[i].frame : i \in {j \in DOMAIN out : out[j].done}}
    /\ lastCompleted' =
          LET done == {i \in DOMAIN out : out[i].done}
          IN  IF done = {}
              THEN lastCompleted
              ELSE out[CHOOSE i \in done : \A j \in done : j <= i].frame

(* chiaki_video_receiver_av_packet for unit u of frame f that is not dropped; *)
(* gives and takes say whether the decoder accepts what it gets.           *)
VideoPacket(f, u, gives, takes) ==
    LET index == f % SeqMod
        v0 == [vr |-> [vr EXCEPT !.profile_cur = Profile[f]], out |-> <<>>]
        v1 == IF IsNext(index) THEN GiveUp(v0, gives) ELSE v0
        v2 == IF IsNext(index) THEN NextFrame(v1, f) ELSE v1
        v3 == Put(v2, f, u, takes)
    IN  /\ ~IsOld(index)
        /\ ~BadProfile(Profile[f])
        /\ vr' = v3.vr
        /\ newest' = IF IsNext(index) THEN f ELSE newest
        /\ reported' = IF IsNext(index)
                       THEN reported \cup Meant(Corrupt(v1, index), f)
                       ELSE reported
        /\ Note(v3.out)

(* chiaki_video_receiver_stream_info. *)
VideoStreamInfo ==
    /\ vr.profiles_count = 0
    /\ vr' = [vr EXCEPT !.profiles_count = Profiles]
    /\ shown' = <<>>
    /\ UNCHANGED <<newest, lastShown, lastCompleted, completed, reported>>

(* Frames stay near enough for their indices to be compared: to the newest *)
(* one and to the last that was completed.                                 *)
Near(f) ==
    /\ newest - f < SeqHalf
    /\ f - newest < SeqHalf
    /\ f - lastCompleted <= SeqHalf

VideoNext ==
    \/ VideoStreamInfo
    \/ \E f \in Frames : Near(f) /\ \E u \in Units(f), gives, takes \in BOOLEAN :
           VideoPacket(f, u, gives, takes)

VideoSpec == VideoInit /\ [][VideoNext]_videoVars

-----------------------------------------------------------------------------
(* The receiver and its frame processor have their types.                  *)
Processors ==
    [units_source_expected : Nat, units_fec_expected : Nat,
     units_source_received : Nat, units_fec_received : Nat,
     unit_slots : UNION {[0 .. n - 1 -> Frames \cup {NoFrame}] : n \in Nat},
     flushed : BOOLEAN]

Receivers ==
    [frame_index_cur : SeqNums \cup {NoIndex}, frame_index_prev : SeqNums \cup {NoIndex},
     frame_index_prev_complete : SeqNums,
     profile_cur : 0 .. Profiles - 1 \cup {NoProfile}, profiles_count : {0, Profiles},
     fp : Processors]

VideoTypeOK ==
    /\ vr \in Receivers
    /\ newest \in Frames \cup {NoFrame}
    /\ shown \in Seq([frame : Frames, done : BOOLEAN, whole : BOOLEAN,
                      header : 0 .. Profiles - 1])
    /\ lastShown \in Frames \cup {NoFrame}
    /\ lastCompleted \in Frames \cup {NoFrame}
    /\ completed \subseteq Frames /\ reported \subseteq Frames

(* Frames go to the decoder in order and none twice, whatever overtakes    *)
(* what, across the wrap of the index, parts of a frame included.          *)
FramesInOrder ==
    [][\A i \in DOMAIN shown' :
          /\ shown'[i].frame > lastShown
          /\ \A j \in 1 .. i - 1 : shown'[j].frame < shown'[i].frame]_videoVars

(* A frame that counts as complete has all its units, and no unit of        *)
(* another frame among them, and the header the decoder got last is the one *)
(* of its profile.                                                         *)
CompleteIsWhole ==
    \A i \in DOMAIN shown : shown[i].done =>
        shown[i].whole /\ shown[i].header = Profile[shown[i].frame]

(* Each frame before the current one was either completed or reported to   *)
(* the console as corrupt, and never both: a frame the console is not told *)
(* of leaves every later one broken, and it need not send again what is    *)
(* there.                                                                  *)
EveryFrameSettled ==
    /\ \A f \in Frames : f < newest => f \in completed \/ f \in reported
    /\ completed \cap reported = {}

(* While a frame is being filled its counts are those of its slots: the    *)
(* assertion of chiaki_frame_processor_fec.                                *)
CountsMatchSlots ==
    vr.frame_index_cur # vr.frame_index_prev =>
        Cardinality(Erasures(vr.fp)) = Generation(vr.fp).lost
=============================================================================
