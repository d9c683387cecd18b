-------------------------- MODULE MCTakionSendBuffer --------------------------
(* Instances of TakionSendBuffer for TLC. *)
EXTENDS TakionSendBuffer, TLC

MCFirstSeq == SeqMod - 2    \* the numbers wrap around after two messages
=============================================================================
