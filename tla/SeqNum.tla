------------------------------- MODULE SeqNum -------------------------------
(***************************************************************************)
(* Serial numbers of a fixed width (lib/include/chiaki/seqnum.h, RFC 1982).*)
(*                                                                         *)
(* The source instantiates the comparison for 16 and 32 bits.  Here the    *)
(* width is the constant SeqHalf = 2^(bits-1): numbers live in 0..2^bits-1 *)
(* and addition wraps, as the conversion to ChiakiSeqNum##bits does.       *)
(***************************************************************************)
EXTENDS Integers

CONSTANT SeqHalf    \* 1 << (bits - 1)

ASSUME SeqHalfAssumption == SeqHalf \in Nat \ {0}

SeqMod == 2 * SeqHalf

SeqNums == 0 .. SeqMod - 1

(* chiaki_seq_num_##bits##_lt: b is ahead of a by less than half the circle. *)
(* d is computed in a wider signed type, so it does not wrap.              *)
SeqLt(a, b) ==
    LET d == b - a
    IN  \/ a < b /\ d < SeqHalf
        \/ a > b /\ -d > SeqHalf

(* chiaki_seq_num_##bits##_gt.  At distance exactly SeqHalf neither holds. *)
SeqGt(a, b) ==
    LET d == b - a
    IN  \/ a < b /\ d > SeqHalf
        \/ a > b /\ -d < SeqHalf

(* The ge and le macros and seq_num_##bits##_add of reorderqueue.c. *)
SeqGe(a, b) == a = b \/ SeqGt(a, b)
SeqLe(a, b) == a = b \/ SeqLt(a, b)

SeqAdd(a, n) == (a + n) % SeqMod

(* How many increments lead from a to b. *)
SeqDist(a, b) == (b - a) % SeqMod
=============================================================================
