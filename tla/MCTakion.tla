------------------------------ MODULE MCTakion ------------------------------
(* Instances of Takion for TLC. *)
EXTENDS Takion

MCTagRemote == SeqMod - 2   \* the numbers wrap around after two messages
=============================================================================
