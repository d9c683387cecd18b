--------------------------- MODULE MCReorderQueue ---------------------------
(* Small instances of ReorderQueue for TLC: 4-bit serial numbers, a ring of *)
(* 4 entries and first numbers just below the wrap.                        *)
EXTENDS ReorderQueue, TLC

CONSTANTS e1, e2, e3

ElementsDef == {e1, e2, e3}
StartsDef == {14}
StrategiesDef == {"BEGIN", "END"}
DropsDef == {0, 1, 2}

ElementSymmetry == Permutations(ElementsDef)
=============================================================================
