--------------------------- MODULE MCAttachRegistry ---------------------------
(* Two attaches, two sizes, one DELETE request at a time.                   *)
EXTENDS AttachRegistry

CONSTANTS a1, a2, z1, z2

MCAttaches == {a1, a2}
MCSizes == {z1, z2}
=============================================================================
