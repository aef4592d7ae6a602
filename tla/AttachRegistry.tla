---------------------------- MODULE AttachRegistry ----------------------------
(***************************************************************************)
(* The list of attachments of a session: src/attach_registry.go, which      *)
(* keeps it in state.json through the Writer, and the DELETE requests of    *)
(* hoot detach (src/session.go), which close attachments through it.  The   *)
(* attach goroutines are the serveOne of src/attach_handler.go, reduced to  *)
(* their calls of the registry.                                             *)
(*                                                                         *)
(* An attach is its own registry id (ids are fresh: shortid.Generate avoids *)
(* the members).                                                            *)
(***************************************************************************)
EXTENDS Writer

CONSTANTS
  Attaches,    \* attach connections, by id
  Sizes        \* effective PTY sizes

VARIABLES
  apc,        \* attach goroutine: idle, addPersist, on, delPersist, gone
  members,    \* the registry's members
  snap,       \* the snapshot each attach goroutine is about to persist
  raced,      \* history: two goroutines had a snapshot to persist
  conn,       \* the attach's connection is open
  stalled,    \* the writer goroutine sits in a write, holding writeMu
  once,       \* closeOnce of forcedDetach: no, busy, done
  todo        \* the DELETE request under way: the closers still to call

attachVars == <<apc, members, snap, raced>>
connVars == <<conn, stalled, once, todo>>
registryVars == <<fileVars, attachVars, connVars>>

-----------------------------------------------------------------------------
(* attachRegistry, called by serveOne *)

Persisting == {a \in Attaches : apc[a] \in {"addPersist", "delPersist"}}

(* A slip: the list to persist is built before the entry is added. *)
AddStale(a) ==
  /\ apc[a] = "idle"
  /\ members' = members \cup {a}
  /\ snap' = [snap EXCEPT ![a] = members]
  /\ apc' = [apc EXCEPT ![a] = "addPersist"]
  /\ raced' = (raced \/ Persisting # {})
  /\ UNCHANGED <<fileVars, connVars>>

(* Add: a new entry and a snapshot of the list, under r.mu. *)
Add(a) ==
  /\ apc[a] = "idle"
  /\ members' = members \cup {a}
  /\ snap' = [snap EXCEPT ![a] = members']
  /\ apc' = [apc EXCEPT ![a] = "addPersist"]
  /\ raced' = (raced \/ Persisting # {})
  /\ UNCHANGED <<fileVars, connVars>>

(* Remove, deferred by serveOne once its connection is closed.  (The        *)
(* community modules have a Remove of their own.)                           *)
RemoveEntry(a) ==
  /\ apc[a] = "on" /\ ~conn[a]
  /\ members' = members \ {a}
  /\ snap' = [snap EXCEPT ![a] = members']
  /\ apc' = [apc EXCEPT ![a] = "delPersist"]
  /\ raced' = (raced \/ Persisting # {})
  /\ UNCHANGED <<fileVars, connVars>>

(* The writer.Update of Add and Remove, after r.mu is released. *)
Persist(a) ==
  /\ a \in Persisting
  /\ Update([state EXCEPT !.attachments = snap[a]])
  /\ apc' = [apc EXCEPT ![a] = IF @ = "addPersist" THEN "on" ELSE "gone"]
  /\ snap' = [snap EXCEPT ![a] = {}]
  /\ UNCHANGED <<members, raced, connVars>>

(* SetEffectiveSize, called by the AttachSet when the size changes. *)
SetEffectiveSize(z) ==
  /\ z # state.size
  /\ Update([state EXCEPT !.size = z])
  /\ UNCHANGED <<attachVars, connVars>>

-----------------------------------------------------------------------------
(* The connection, and hoot detach *)

(* The client stops reading: the writer goroutine blocks in its write. *)
Stall(a) ==
  /\ apc[a] = "on" /\ conn[a] /\ ~stalled[a]
  /\ stalled' = [stalled EXCEPT ![a] = TRUE]
  /\ UNCHANGED <<fileVars, attachVars, conn, once, todo>>

Unstall(a) ==
  /\ stalled[a]
  /\ stalled' = [stalled EXCEPT ![a] = FALSE]
  /\ UNCHANGED <<fileVars, attachVars, conn, once, todo>>

(* The client hangs up: a blocked write fails and frees writeMu. *)
HangUp(a) ==
  /\ apc[a] = "on" /\ conn[a]
  /\ conn' = [conn EXCEPT ![a] = FALSE]
  /\ stalled' = [stalled EXCEPT ![a] = FALSE]
  /\ UNCHANGED <<fileVars, attachVars, once, todo>>

(* DELETE /attachments: CloseAll collects the closers under r.mu. *)
DetachAll ==
  /\ todo = {} /\ members # {}
  /\ todo' = members
  /\ UNCHANGED <<fileVars, attachVars, conn, stalled, once>>

(* DELETE /attachments/{id}: Close(id); an unknown id is a 404. *)
DetachOne(a) ==
  /\ todo = {} /\ a \in members
  /\ todo' = {a}
  /\ UNCHANGED <<fileVars, attachVars, conn, stalled, once>>

(* forcedDetach of the next closer: closeOnce lets the first call in, ...    *)
DetachBegin(a) ==
  /\ a \in todo /\ once[a] = "no"
  /\ \A b \in Attaches : once[b] # "busy"
  /\ once' = [once EXCEPT ![a] = "busy"]
  /\ UNCHANGED <<fileVars, attachVars, conn, stalled, todo>>

(* A slip: the connection is left open after the notice. *)
DetachNoClose(a) ==
  /\ once[a] = "busy" /\ ~stalled[a]
  /\ once' = [once EXCEPT ![a] = "done"]
  /\ todo' = todo \ {a}
  /\ UNCHANGED <<fileVars, attachVars, conn, stalled>>

(* ... which takes writeMu, writes the notice and closes the connection ... *)
DetachClose(a) ==
  /\ once[a] = "busy" /\ ~stalled[a]
  /\ conn' = [conn EXCEPT ![a] = FALSE]
  /\ once' = [once EXCEPT ![a] = "done"]
  /\ todo' = todo \ {a}
  /\ UNCHANGED <<fileVars, attachVars, stalled>>

(* ... and makes a later call on an entry not yet removed a no-op. *)
DetachAgain(a) ==
  /\ a \in todo /\ once[a] = "done"
  /\ todo' = todo \ {a}
  /\ UNCHANGED <<fileVars, attachVars, conn, stalled, once>>

-----------------------------------------------------------------------------

RegistryInit ==
  /\ \E z \in Sizes : OpenWriter([attachments |-> {}, size |-> z])
  /\ apc = [a \in Attaches |-> "idle"] /\ members = {}
  /\ snap = [a \in Attaches |-> {}] /\ raced = FALSE
  /\ conn = [a \in Attaches |-> TRUE] /\ stalled = [a \in Attaches |-> FALSE]
  /\ once = [a \in Attaches |-> "no"]
  /\ todo = {}

DetachStep == \E a \in Attaches : DetachBegin(a) \/ DetachClose(a) \/ DetachAgain(a)

RegistryNext ==
  \/ \E a \in Attaches :
        Add(a) \/ RemoveEntry(a) \/ Persist(a) \/ Stall(a) \/ Unstall(a) \/ HangUp(a)
  \/ \E z \in Sizes : SetEffectiveSize(z)
  \/ DetachAll \/ (\E a \in Attaches : DetachOne(a)) \/ DetachStep

(* The goroutine of a DELETE request runs when it can.  Nothing makes a      *)
(* stalled client read again, or an attach end.                             *)
RegistryFairness == WF_registryVars(DetachStep)

RegistrySpec == RegistryInit /\ [][RegistryNext]_registryVars
RegistryFairSpec == RegistrySpec /\ RegistryFairness

-----------------------------------------------------------------------------

RegistryTypeOK ==
  /\ state \in [attachments : SUBSET Attaches, size : Sizes]
  /\ disk \in [attachments : SUBSET Attaches, size : Sizes]
  /\ failed \in BOOLEAN /\ raced \in BOOLEAN
  /\ apc \in [Attaches -> {"idle", "addPersist", "on", "delPersist", "gone"}]
  /\ members \in SUBSET Attaches /\ snap \in [Attaches -> SUBSET Attaches]
  /\ conn \in [Attaches -> BOOLEAN] /\ stalled \in [Attaches -> BOOLEAN]
  /\ once \in [Attaches -> {"no", "busy", "done"}]
  /\ todo \in SUBSET Attaches

(* attach_registry.go, "mirrors the set into state.json": whenever nothing  *)
(* is left to persist, and no write failed, state.json lists the members.   *)
Mirrors == Persisting = {} /\ ~failed => disk.attachments = members

(* It does if no two attaches came or went at the same time. *)
SerialMirrors == ~raced => Mirrors

(* hoot detach disconnects every attach it found, unless one of them does   *)
(* not read, so that its writer goroutine keeps writeMu: CloseAll is        *)
(* sequential, and that one client also holds up the others.                *)
DetachReaches ==
  \A a \in Attaches : a \in todo ~> (~conn[a] \/ \E b \in todo : stalled[b])
=============================================================================
