------------------------------ MODULE AttachSet ------------------------------
(***************************************************************************)
(* The size negotiation of src/attach.go.  Every attach declares a window  *)
(* size; the PTY gets the smallest column count and the smallest row count *)
(* over the members, and every change is broadcast to the members.         *)
(*                                                                         *)
(* Add, Update and Remove change the set, recompute and call sizeApplier   *)
(* under a.mu, and collect the receivers of the broadcast there.  They     *)
(* send after the unlock, so a broadcast is a separate step per receiver,  *)
(* taken by the goroutine of the attach that made the change (bcast).      *)
(***************************************************************************)
EXTENDS Naturals, FiniteSetsExt

CONSTANTS
  Conns,     \* the attach connections (attachConn tokens), each used once
  Sizes,     \* the window sizes a client may declare
  StartSize  \* the PTY's size before the first attach

NoSize == [cols |-> 0, rows |-> 0]   \* the zero attachWinsize

PositiveSize == [cols : Nat \ {0}, rows : Nat \ {0}]

(* The handler rejects a Hello and ignores a Size with a zero dimension. *)
ASSUME SizesAssumption ==
  /\ Sizes \subseteq PositiveSize
  /\ StartSize \in PositiveSize

VARIABLES
  members,   \* declared size of each member; NoSize: not in a.members
  current,   \* a.current, the last effective size
  applied,   \* what sizeApplier last pushed to the PTY and to state.json
  joined,    \* conns that were given an id: each is added at most once
  bcast      \* per goroutine: the Size frame it still has to send, and to whom

setVars == <<members, current, applied, joined, bcast>>

-----------------------------------------------------------------------------

MembersOf(d) == {c \in Conns : d[c] # NoSize}
Members == MembersOf(members)

(* min(cols) and min(rows) over the members of d, independently. *)
Effective(d) ==
  [cols |-> Min({d[c].cols : c \in MembersOf(d)}),
   rows |-> Min({d[c].rows : c \in MembersOf(d)})]

(* A slip the code could have made: the size only ever shrinks. *)
recomputeShrinkOnly(d) ==
  IF MembersOf(d) = {} THEN current
  ELSE IF current = NoSize THEN Effective(d)
  ELSE [cols |-> Min({current.cols, Effective(d).cols}),
        rows |-> Min({current.rows, Effective(d).rows})]

(* An empty set keeps the last size. *)
recomputeLocked(d) ==
  IF MembersOf(d) = {} THEN current ELSE Effective(d)

(* The section under a.mu: store the declared sizes d, recompute, and call  *)
(* sizeApplier on a change.                                                 *)
Recompute(d) ==
  /\ members' = d
  /\ current' = recomputeLocked(d)
  /\ applied' = IF recomputeLocked(d) # current THEN recomputeLocked(d) ELSE applied

(* No broadcast under way. *)
Quiet == [size |-> NoSize, to |-> {}, last |-> FALSE]
Idle(t) == bcast[t].to = {}

(* The receivers collected under the lock: none when nothing changed. *)
Receivers(d) == IF recomputeLocked(d) # current THEN MembersOf(d) ELSE {}

(* The frame goroutine t has to send to the conns in to; last says that its *)
(* own frame must be the last one.                                          *)
StartBroadcast(t, to, last) ==
  bcast' = [bcast EXCEPT ![t] = IF to = {} THEN Quiet
                                ELSE [size |-> current', to |-> to, last |-> last]]

(* Add, and the handler's own Size{eff} that follows the broadcast loop:    *)
(* the new member is left out of the loop and gets the returned size.       *)
Add(c, ws) ==
  /\ c \notin joined
  /\ joined' = joined \cup {c}
  /\ Recompute([members EXCEPT ![c] = ws])
  /\ StartBroadcast(c, Receivers([members EXCEPT ![c] = ws]) \cup {c}, TRUE)

(* A slip: the broadcast leaves out the member whose window changed. *)
UpdateOthersOnly(c, ws) ==
  /\ c \in Members
  /\ Idle(c)
  /\ Recompute([members EXCEPT ![c] = ws])
  /\ StartBroadcast(c, Receivers([members EXCEPT ![c] = ws]) \ {c}, FALSE)
  /\ UNCHANGED joined

Update(c, ws) ==
  /\ c \in Members
  /\ Idle(c)
  /\ Recompute([members EXCEPT ![c] = ws])
  /\ StartBroadcast(c, Receivers([members EXCEPT ![c] = ws]), FALSE)
  /\ UNCHANGED joined

Remove(c) ==
  /\ c \in Members
  /\ Idle(c)
  /\ Recompute([members EXCEPT ![c] = NoSize])
  /\ StartBroadcast(c, Receivers([members EXCEPT ![c] = NoSize]), FALSE)
  /\ UNCHANGED joined

(* One iteration of "for _, m := range receivers { m.sendSize(eff) }" (map  *)
(* order), or the handler's own Size{eff} after the loop.                   *)
SendSize(t, m) ==
  /\ m \in bcast[t].to
  /\ bcast[t].last /\ m = t => bcast[t].to = {t}
  /\ bcast' = [bcast EXCEPT ![t] = IF bcast[t].to = {m} THEN Quiet
                                   ELSE [size |-> bcast[t].size, to |-> bcast[t].to \ {m},
                                         last |-> bcast[t].last]]
  /\ UNCHANGED <<members, current, applied, joined>>

(* sendSize panicked: the rest of the loop is skipped. *)
AbortBroadcast(t) ==
  /\ ~Idle(t)
  /\ bcast' = [bcast EXCEPT ![t] = Quiet]
  /\ UNCHANGED <<members, current, applied, joined>>

-----------------------------------------------------------------------------

SetInit ==
  /\ members = [c \in Conns |-> NoSize]
  /\ current = NoSize
  /\ applied = StartSize
  /\ joined = {}
  /\ bcast = [c \in Conns |-> Quiet]

SetNext ==
  \/ \E c \in Conns, ws \in Sizes : Add(c, ws) \/ Update(c, ws)
  \/ \E c \in Conns : Remove(c) \/ AbortBroadcast(c)
  \/ \E t, m \in Conns : SendSize(t, m)

SetSpec == SetInit /\ [][SetNext]_setVars

-----------------------------------------------------------------------------

SetTypeOK ==
  /\ members \in [Conns -> PositiveSize \cup {NoSize}]
  /\ current \in PositiveSize \cup {NoSize}
  /\ applied \in PositiveSize
  /\ joined \in SUBSET Conns
  /\ bcast \in [Conns -> [size : PositiveSize \cup {NoSize}, to : SUBSET Conns,
                          last : BOOLEAN]]

(* While someone is attached, the PTY has the min-wins size of the present  *)
(* members: sizeApplier is called only on a change, so this needs a.current *)
(* never to drift from what was applied, over any sequence of Add, Update   *)
(* and Remove, the empty set in between included.                           *)
NegotiatedSize == Members # {} => applied = Effective(members)
=============================================================================
