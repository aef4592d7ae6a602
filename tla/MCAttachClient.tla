--------------------------- MODULE MCAttachClient ---------------------------
(* A channel of one frame, so that senders block; connections are made and  *)
(* lost without bound.  In a behaviour the user either resizes the window   *)
(* once or clones the session once.                                         *)
EXTENDS AttachClient

MCInit == Init /\ (tty = MaxSize \/ (target = MaxClones /\ reconnect))
MCSpec == MCInit /\ [][Next]_vars /\ Fairness
=============================================================================
