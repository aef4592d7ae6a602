----------------------------- MODULE LiveOutput -----------------------------
(***************************************************************************)
(* What a PTY promises an attach: a look at the screen as it is, then every *)
(* later chunk of output, once and in order.  Only a viewer that has fallen *)
(* a whole window behind may lose chunks; it then goes on with later ones.  *)
(* Module PTYDispatcher implements it with closures, channels and copies.   *)
(***************************************************************************)
EXTENDS Naturals

CONSTANTS Viewers, Window

VARIABLES
  open,     \* the PTY is open
  fed,      \* the chunks of output so far
  at,       \* each viewer: out, in, left
  seen,     \* the last chunk each viewer has seen
  lossy     \* the viewers that may have lost chunks
vars == <<open, fed, at, seen, lossy>>

Init ==
  /\ open = TRUE /\ fed = 0
  /\ at = [v \in Viewers |-> "out"]
  /\ seen = [v \in Viewers |-> 0]
  /\ lossy = {}

Output ==
  /\ open
  /\ fed' = fed + 1
  /\ \E slow \in SUBSET {v \in Viewers : at[v] # "out" /\ seen[v] + Window <= fed} :
        lossy' = lossy \cup slow
  /\ UNCHANGED <<open, at, seen>>

(* The screen shows all of the output so far. *)
Join(v) ==
  /\ open /\ at[v] = "out"
  /\ at' = [at EXCEPT ![v] = "in"]
  /\ seen' = [seen EXCEPT ![v] = fed]
  /\ UNCHANGED <<open, fed, lossy>>

(* The next chunk, or some later one. *)
See(v) ==
  /\ at[v] = "in"
  /\ \E n \in (seen[v] + 1) .. fed :
        /\ v \notin lossy => n = seen[v] + 1
        /\ seen' = [seen EXCEPT ![v] = n]
  /\ UNCHANGED <<open, fed, at, lossy>>

Leave(v) ==
  /\ at[v] = "in"
  /\ at' = [at EXCEPT ![v] = "left"]
  /\ UNCHANGED <<open, fed, seen, lossy>>

(* What viewers have not seen yet, they may still see. *)
Close ==
  /\ open
  /\ open' = FALSE
  /\ UNCHANGED <<fed, at, seen, lossy>>

Next ==
  \/ Output \/ Close
  \/ \E v \in Viewers : Join(v) \/ See(v) \/ Leave(v)

Spec == Init /\ [][Next]_vars
=============================================================================
