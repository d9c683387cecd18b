------------------------------ MODULE AVReceive ------------------------------
(***************************************************************************)
(* What the Takion thread does with audio and video packets                *)
(* (stream_connection_takion_av of lib/src/streamconnection.c): the video  *)
(* receiver of VideoReceiver, the audio receiver of                        *)
(* lib/src/audioreceiver.c, the packet statistics of lib/src/packetstats.c *)
(* both count into, and the thread of lib/src/congestioncontrol.c that     *)
(* reads and resets them and reports them to the console.                  *)
(*                                                                         *)
(* push_generation, get and reset of the statistics hold their mutex;      *)
(* push_seq does not, so that its loads and stores are steps of their own, *)
(* and so are get, which only reads, and the two parts of reset.           *)
(* The haptics receiver is a second audio receiver without statistics.     *)
(***************************************************************************)
EXTENDS VideoReceiver

CONSTANTS
    AudioPackets,   \* frame_index of the audio packets that may arrive, not wrapped
    AudioSource,    \* source_units_count and
    AudioFec,       \*   fec_units_count of each
    MaxDue          \* bound on the packets between two reports

ASSUME AVAssumption ==
    /\ AudioPackets \subseteq Nat \ {0}
    /\ AudioSource \in Nat \ {0}
    /\ AudioFec \in Nat
    /\ AudioSource + AudioFec <= SeqHalf    \* counts of 4 bits, indices of 16
    /\ MaxDue \in Nat

VARIABLES
    frame_index_prev,       \* of ChiakiAudioReceiver
    frame_index_startup,
    heard,                  \* history: the newest audio frame given to the sink,
    played,                 \*   and those of the packet in hand
    stats,                  \* ChiakiPacketStats
    pushing,                \* chiaki_packet_stats_push_seq in the Takion thread:
                            \*   its step, seq_num, and the value it has loaded
    cpc,                    \* congestion_control_thread_func
    due,                    \* ghost: what the next one should tell
    newestAudio,            \* ghost: the newest audio packet
    late,                   \* ghost: since the report before one came late or twice,
    raced,                  \*   or push_seq met get or reset
    untrue                  \* history: a report was wrong for neither reason

audioVars == <<frame_index_prev, frame_index_startup, heard, played>>
ghostVars == <<due, newestAudio, late, raced, untrue>>
avVars == <<videoVars, audioVars, stats, pushing, cpc, ghostVars>>

NotPushing == [step |-> "idle", seq_num |-> 0, loaded |-> 0]

Nothing == [received |-> 0, lost |-> 0]

AVInit ==
    /\ VideoInit
    /\ frame_index_prev = 0 /\ frame_index_startup = TRUE
    /\ heard = 0 /\ played = <<>>
    /\ stats = [gen_received |-> 0, gen_lost |-> 0,
                seq_min |-> 0, seq_max |-> 0, seq_received |-> 0]
    /\ pushing = NotPushing
    /\ cpc = "waiting"
    /\ due = Nothing /\ newestAudio = 0
    /\ late = FALSE /\ raced = FALSE /\ untrue = FALSE

(* The mutex of the statistics is held from get to the end of reset.       *)
StatsFree == cpc = "waiting"

TakionIdle == pushing.step = "idle"

(* A report comes before too much is counted. *)
Timely == due.received + due.lost < MaxDue /\ stats.seq_received < MaxDue

-----------------------------------------------------------------------------
(* Video.                                                                  *)

(* Mutant: the mutex is not taken. *)
PushGeneration_NoLock(g) ==
    /\ stats' = [stats EXCEPT !.gen_received = @ + g.received, !.gen_lost = @ + g.lost]
    /\ due' = [received |-> due.received + g.received, lost |-> due.lost + g.lost]

(* chiaki_packet_stats_push_generation. *)
PushGeneration(g) ==
    /\ StatsFree
    /\ stats' = [stats EXCEPT !.gen_received = @ + g.received, !.gen_lost = @ + g.lost]
    /\ due' = [received |-> due.received + g.received, lost |-> due.lost + g.lost]

(* The next frame makes the receiver report on the one it gives up.        *)
ReceiveVideo ==
    \E f \in Frames : Near(f) /\ \E u \in Units(f), gives, takes \in BOOLEAN :
        /\ TakionIdle
        /\ VideoPacket(f, u, gives, takes)
        /\ IsNext(f % SeqMod) => Timely
        /\ IF IsNext(f % SeqMod)
           THEN PushGeneration(Generation(vr.fp))
           ELSE UNCHANGED <<stats, due>>
        /\ UNCHANGED <<audioVars, pushing, cpc, newestAudio, late, raced, untrue>>

ReceiveStreamInfo ==
    /\ TakionIdle
    /\ VideoStreamInfo
    /\ UNCHANGED <<audioVars, stats, pushing, cpc, ghostVars>>

-----------------------------------------------------------------------------
(* Audio.                                                                  *)

(* Mutant: only the frame just played is refused. *)
AudioFrame_NotEqual(a, m) ==
    IF m % SeqMod # a.prev
    THEN [prev |-> m % SeqMod, played |-> Append(a.played, m)]
    ELSE a

(* chiaki_audio_receiver_frame. *)
AudioFrame(a, m) ==
    IF SeqGt(m % SeqMod, a.prev)
    THEN [prev |-> m % SeqMod, played |-> Append(a.played, m)]
    ELSE a

(* A unit of the packet with frame_index n: its own frames come first, and *)
(* then those of earlier packets, of which the first packets repeat some.  *)
AudioUnit(a, n, i, startup) ==
    IF i < AudioSource
    THEN AudioFrame(a, n + i)
    ELSE LET fec_index == i - AudioSource
         IN  IF startup /\ (n % SeqMod) + fec_index < AudioFec + 1
             THEN a
             ELSE AudioFrame(a, n - AudioFec + fec_index)

(* The loop of chiaki_audio_receiver_av_packet over the packet's units.    *)
AudioUnits(a0, n, startup) ==
    LET after[k \in 0 .. AudioSource + AudioFec] ==
            IF k = 0 THEN a0 ELSE AudioUnit(after[k - 1], n, k - 1, startup)
    IN  after[AudioSource + AudioFec]

(* The packet's frames, and the beginning of chiaki_packet_stats_push_seq. *)
(* Packets are lost, late or repeated, but stay near enough for their       *)
(* indices to be compared, and less than a circle of them comes between two *)
(* reports.                                                                 *)
ReceiveAudio ==
    \E n \in AudioPackets :
        LET startup == frame_index_startup /\ n % SeqMod <= SeqHalf
            a == AudioUnits([prev |-> frame_index_prev, played |-> <<>>], n, startup)
        IN  /\ TakionIdle
            /\ n + AudioSource - 1 - newestAudio < SeqHalf
            /\ newestAudio + AudioSource - 1 - n < SeqHalf - AudioFec
            /\ Timely
            /\ SeqDist(stats.seq_min, stats.seq_max) + n - newestAudio < SeqMod
            /\ frame_index_startup' = startup
            /\ frame_index_prev' = a.prev
            /\ played' = a.played
            /\ heard' = IF a.played = <<>> THEN heard ELSE a.played[Len(a.played)]
            /\ pushing' = [step |-> "store", seq_num |-> n % SeqMod,
                           loaded |-> stats.seq_received]
            /\ newestAudio' = IF n > newestAudio THEN n ELSE newestAudio
            /\ due' = [received |-> due.received + 1,
                       lost |-> IF n > newestAudio THEN due.lost + n - newestAudio - 1
                                ELSE due.lost]
            /\ late' = (late \/ n <= newestAudio)
            /\ raced' = (raced \/ ~StatsFree)
            /\ UNCHANGED <<videoVars, stats, cpc, untrue>>

(* seq_received++ stores what it has loaded. *)
PushSeqStore ==
    /\ pushing.step = "store"
    /\ stats' = [stats EXCEPT !.seq_received = pushing.loaded + 1]
    /\ pushing' = [pushing EXCEPT !.step = "max"]
    /\ raced' = (raced \/ ~StatsFree)
    /\ UNCHANGED <<videoVars, audioVars, cpc, due, newestAudio, late, untrue>>

PushSeqMax ==
    /\ pushing.step = "max"
    /\ stats' = [stats EXCEPT !.seq_max = IF SeqGt(pushing.seq_num, @) THEN pushing.seq_num ELSE @]
    /\ pushing' = NotPushing
    /\ played' = <<>>
    /\ raced' = (raced \/ ~StatsFree)
    /\ UNCHANGED <<videoVars, frame_index_prev, frame_index_startup, heard, cpc, due,
                   newestAudio, late, untrue>>

-----------------------------------------------------------------------------
(* Congestion control.                                                     *)

(* uint64_t, in which seq_max - seq_min is computed; the width of the       *)
(* packet's fields divides it.                                             *)
Word64 == SeqMod * SeqMod * SeqMod

(* seq_diff, "overflow on purpose if max < min". *)
SeqDiff == (stats.seq_max - stats.seq_min) % Word64

(* What chiaki_packet_stats_get returns, cut to the 16 bits of the packet. *)
GotReceived == (stats.gen_received + stats.seq_received) % SeqMod

GotLost ==
    LET seq_lost == IF stats.seq_received > SeqDiff THEN SeqDiff
                    ELSE SeqDiff - stats.seq_received
    IN  (stats.gen_lost + seq_lost) % SeqMod

(* The wait times out.  StreamConnection starts and stops the thread.      *)
GetStats ==
    /\ cpc = "waiting"
    /\ cpc' = "reset"
    /\ untrue' = (untrue \/ /\ ~raced /\ TakionIdle
                            /\ \/ GotReceived # due.received % SeqMod
                               \/ ~late /\ GotLost # due.lost % SeqMod)
    /\ due' = Nothing
    /\ late' = FALSE
    /\ raced' = ~TakionIdle
    /\ UNCHANGED <<videoVars, audioVars, stats, pushing, newestAudio>>

(* reset_stats up to the number that push_seq counts,                      *)
ResetStats ==
    /\ cpc = "reset"
    /\ cpc' = "clear"
    /\ stats' = [stats EXCEPT !.gen_received = 0, !.gen_lost = 0, !.seq_min = stats.seq_max]
    /\ UNCHANGED <<videoVars, audioVars, pushing, ghostVars>>

(* and that number; chiaki_takion_send_congestion sends what was read.     *)
ResetReceived ==
    /\ cpc = "clear"
    /\ cpc' = "waiting"
    /\ stats' = [stats EXCEPT !.seq_received = 0]
    /\ UNCHANGED <<videoVars, audioVars, pushing, ghostVars>>

CongestionThread == GetStats \/ ResetStats \/ ResetReceived

TakionThread ==
    ReceiveVideo \/ ReceiveStreamInfo \/ ReceiveAudio \/ PushSeqStore \/ PushSeqMax

AVNext == TakionThread \/ CongestionThread

AVSpec == AVInit /\ [][AVNext]_avVars

-----------------------------------------------------------------------------
(* What a congestion packet tells the console is what was received and     *)
(* lost since the one before: nothing is dropped or counted twice between  *)
(* reading and resetting, also where the 16 bits of an index or of a count *)
(* wrap.  Two things excuse a report and none after it: an audio packet    *)
(* that came late or twice, for the packets lost, and a push_seq, which    *)
(* does not take the mutex, that met this report's get or the reset before. *)
ReportsAreTrue == ~untrue

(* Audio frames reach the sink in order and none twice.                    *)
AudioInOrder ==
    [][played' # played =>
          \A i \in DOMAIN played' :
             /\ played'[i] > heard
             /\ \A j \in 1 .. i - 1 : played'[j] < played'[i]]_avVars
=============================================================================
