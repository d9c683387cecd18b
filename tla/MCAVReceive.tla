----------------------------- MODULE MCAVReceive -----------------------------
(* An instance of AVReceive for TLC: frames of one and two units of data,  *)
(* every other one with a unit for error correction, and a switch of the   *)
(* profile; indices modulo 6, so that both kinds wrap around.              *)
EXTENDS AVReceive

MCSource == [f \in Frames |-> IF f % 2 = 0 THEN 1 ELSE 2]
MCFec == [f \in Frames |-> f % 2]
MCProfile == [f \in Frames |-> IF f > 4 THEN 1 ELSE 0]

(* The two streams share only the thread and the lock of the statistics:   *)
(* audio goes on only while no more than two frames have been seen.        *)
FewOfBoth == newestAudio = 0 \/ newest <= 2
=============================================================================
