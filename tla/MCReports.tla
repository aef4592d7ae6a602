------------------------------ MODULE MCReports ------------------------------
(* What a session lets others read while it runs: its recording and its     *)
(* events.  The two share no state: in a behaviour either the recorder is   *)
(* given bytes and sizes or the Service publishes states.                   *)
(*                                                                         *)
(* The recorder's constants in MCReports.cfg keep the order of the real     *)
(* ones at a small scale: a bucket is shorter than a delta, two spacers fit *)
(* the clock, and a bucket can hold more than one frame's payload.  Two     *)
(* /events clients have room for two events each.                           *)
EXTENDS Recorder, EventBus

CONSTANTS x1, x2

MCWatchers == {x1, x2}

VARIABLE recording

MCInit == Init /\ BusInit /\ recording \in BOOLEAN
MCNext ==
  \/ recording /\ Next /\ UNCHANGED <<busVars, recording>>
  \/ ~recording /\ BusNext /\ UNCHANGED <<vars, recording>>
MCSpec == MCInit /\ [][MCNext]_<<vars, busVars, recording>> /\ BusFairness
=============================================================================
