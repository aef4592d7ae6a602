----------------------------- MODULE MCTerminal -----------------------------
(* The two directions of an attached terminal, which share no state: in a   *)
(* behaviour either the child writes or the user types.                     *)
EXTENDS MCOutputPath, ChordFSM

VARIABLE typing

MCInit == Init /\ KeyInit /\ typing \in BOOLEAN /\ (typing => prog = Asks)
MCNext ==
  \/ ~typing /\ Next /\ UNCHANGED <<keyVars, typing>>
  \/ typing /\ KeyNext /\ UNCHANGED <<vars, typing>>
MCSpec == MCInit /\ [][MCNext]_<<vars, keyVars, typing>>
=============================================================================
