--------------------------- MODULE MCAttachHandler ---------------------------
(* Two attaches, a small and a large window: the effective size changes     *)
(* when the small one comes, leaves or changes.                             *)
EXTENDS AttachHandler

CONSTANTS c1, c2

MCConns == {c1, c2}
MCSizes == {[cols |-> 1, rows |-> 1], [cols |-> 2, rows |-> 2]}
MCStartSize == [cols |-> 3, rows |-> 3]
MCResizers == {c1}
MCTypists == {c1}
MCDetached == {c1}
MCNone == {}
MCOne == {c1}
=============================================================================
