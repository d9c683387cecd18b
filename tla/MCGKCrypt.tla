------------------------------ MODULE MCGKCrypt ------------------------------
(* A small instance of GKCrypt for TLC: a ring of three chunks of two      *)
(* blocks, and positions whose lower half wraps twice.                     *)
EXTENDS GKCrypt

LengthsDef == {2}
=============================================================================
