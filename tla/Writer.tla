-------------------------------- MODULE Writer --------------------------------
(***************************************************************************)
(* The Writer of src/store.go: the owner of a session's state.json.         *)
(* What the state holds is left to the modules that extend this one.        *)
(***************************************************************************)

VARIABLES
  state,      \* Writer.state
  disk,       \* state.json
  failed      \* a flush failed (bound: once)

fileVars == <<state, disk, failed>>

(* OpenWriter: the flock is held and the initial state written. *)
OpenWriter(initial) == state = initial /\ disk = initial /\ failed = FALSE

(* Update: mutate under w.mu, then rename a complete new file over          *)
(* state.json (AtomicWriteJSON); a failed flush leaves the old file, but    *)
(* the mutated state.                                                       *)
Update(new) ==
  /\ state' = new
  /\ \/ disk' = new /\ UNCHANGED failed
     \/ ~failed /\ failed' = TRUE /\ UNCHANGED disk
=============================================================================
