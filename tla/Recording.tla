------------------------------ MODULE Recording ------------------------------
(***************************************************************************)
(* What a session recording promises: a log of items, each with its time;   *)
(* a growing part of it, from its beginning, is saved, and all of it once   *)
(* the recording is closed; and whoever plays it is shown the saved items,  *)
(* each once, in order, at its time.  Module Recorder implements it with    *)
(* buckets, frames, 16-bit deltas and a decoder.                            *)
(***************************************************************************)
EXTENDS Naturals, Sequences

CONSTANT Granule     \* bytes are shown less than this too early

VARIABLES
  phase,      \* none, open, closed, crashed
  log,        \* what was recorded: its kind, and at what time
  saved,      \* items a crash cannot take
  shown,      \* items the player has shown
  at,         \* the time of the last of them
  broken      \* a write has failed
vars == <<phase, log, saved, shown, at, broken>>

Init ==
  /\ phase = "none" /\ log = <<>> /\ saved = 0
  /\ shown = 0 /\ at = 0 /\ broken = FALSE

(* A recording begins with the size of the screen. *)
Begin ==
  /\ phase = "none" /\ phase' = "open"
  /\ Len(log') = 1 /\ log'[1].kind = "resize"
  /\ saved' = 1
  /\ UNCHANGED <<shown, at, broken>>

(* Items of now are added; none was recorded later. *)
Record ==
  /\ phase = "open"
  /\ Len(log') > Len(log)
  /\ \A i \in 1 .. Len(log) : log'[i] = log[i]
  /\ LET now == log'[Len(log')].at IN
       /\ \A i \in 1 .. Len(log) : log[i].at <= now
       /\ \A i \in (Len(log) + 1) .. Len(log') : log'[i].at = now
  /\ UNCHANGED <<phase, saved, shown, at, broken>>

(* More is saved; if that is all, it may have been Close that saved it. *)
Save ==
  /\ phase = "open"
  /\ saved' \in (saved + 1) .. Len(log)
  /\ phase' = "open" \/ (phase' = "closed" /\ saved' = Len(log))
  /\ UNCHANGED <<log, shown, at, broken>>

Close ==
  /\ phase = "open" /\ saved = Len(log)
  /\ phase' = "closed"
  /\ UNCHANGED <<log, saved, shown, at, broken>>

Crash ==
  /\ phase \in {"none", "open"}
  /\ phase' = "crashed"
  /\ UNCHANGED <<log, saved, shown, at, broken>>

(* t is the time of the item: a resize's is exact. *)
InTime(item, t) ==
  IF item.kind = "resize" THEN t = item.at ELSE t <= item.at /\ item.at < t + Granule

(* The player shows the next few items, at one time. *)
Show ==
  /\ shown' \in (shown + 1) .. saved
  /\ at <= at'
  /\ \A i \in (shown + 1) .. shown' : InTime(log[i], at')
  /\ UNCHANGED <<phase, log, saved, broken>>

(* A write fails: from then on, nothing is promised. *)
Break == broken' = TRUE

Next == Begin \/ Record \/ Save \/ Close \/ Crash \/ Show \/ Break

Spec == Init /\ [][Next]_vars
=============================================================================
