----------------------------- MODULE MCLifecycle -----------------------------
(* Two sessions of one key, one after another or at once, and a command     *)
(* that lists.                                                              *)
EXTENDS Lifecycle

CONSTANTS p1, p2, x1

MCProcs == {p1, p2}
MCListers == {x1}
MCAttended == {p1}
=============================================================================
