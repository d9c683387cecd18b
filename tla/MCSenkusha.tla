----------------------------- MODULE MCSenkusha -----------------------------
(* Sizes from 1 to 5, and paths that let all, some or none of them through. *)
EXTENDS Senkusha

PathsDef == [in : {0, 3, 5}, out : {1, 3, 5}]
=============================================================================
