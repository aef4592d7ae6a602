--------------------------- MODULE MCSizeBroadcast ---------------------------
(* Three attaches, two incomparable windows: the minimum is a third size.   *)
EXTENDS SizeBroadcast, TLC

CONSTANTS c1, c2, c3

MCConns == {c1, c2, c3}
MCSizes == {[cols |-> 1, rows |-> 2], [cols |-> 2, rows |-> 1]}
MCStartSize == [cols |-> 3, rows |-> 3]
MCSymmetry == Permutations(MCConns)
=============================================================================
