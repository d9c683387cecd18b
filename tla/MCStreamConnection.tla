-------------------------- MODULE MCStreamConnection --------------------------
(* Instances of StreamConnection for TLC. *)
EXTENDS StreamConnection, TLC

MCMessages == {"BANG", "STREAMINFO", "DISCONNECT", "OTHER"}
=============================================================================
