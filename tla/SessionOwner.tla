---------------------------- MODULE SessionOwner ----------------------------
(***************************************************************************)
(* What the sessions of one key promise whoever dials its rpc.sock: one     *)
(* session serves at a time, from the moment it listens to its end; the     *)
(* next one serves after that, and none serves twice.  Module Lifecycle     *)
(* implements it with a flock, a socket file and processes that may crash.  *)
(***************************************************************************)
CONSTANTS Procs, NoProc

VARIABLES
  serving,    \* the session a client reaches, or NoProc
  ended       \* the sessions that are over
vars == <<serving, ended>>

Init == serving = NoProc /\ ended = {}

Serve(p) ==
  /\ serving = NoProc /\ p \notin ended
  /\ serving' = p
  /\ UNCHANGED ended

(* A session ends; one that never served can, too. *)
End(p) ==
  /\ p \notin ended
  /\ ended' = ended \cup {p}
  /\ serving' = IF serving = p THEN NoProc ELSE serving

Next == \E p \in Procs : Serve(p) \/ End(p)

Spec == Init /\ [][Next]_vars
=============================================================================
