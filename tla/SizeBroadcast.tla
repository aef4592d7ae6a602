---------------------------- MODULE SizeBroadcast ----------------------------
(***************************************************************************)
(* What the clients of an AttachSet hear: the Size frames queued for each   *)
(* attach, numbered by the change of the effective size they announce.  A   *)
(* conn's frames are delivered in the order they are queued, so the last    *)
(* one queued is the size its terminal ends up with.                        *)
(***************************************************************************)
EXTENDS AttachSet

CONSTANT MaxVersion   \* bound: no window changes once this many were announced

ASSUME VersionAssumption == MaxVersion \in Nat

VARIABLES
  version,   \* number of changes of the effective size so far
  bver,      \* version of the frame each goroutine is sending
  heard,     \* size in the last Size frame queued for each conn
  told,      \* newest version queued for each conn
  denied     \* conns that a broadcast skipped because it panicked

historyVars == <<version, bver, heard, told, denied>>
vars == <<setVars, historyVars>>

(* A locked section of c's goroutine: a changed effective size is a new     *)
(* version, and the frames it sends carry the version it left.              *)
Announce(c) ==
  /\ version' = IF current' # current THEN version + 1 ELSE version
  /\ bver' = [bver EXCEPT ![c] = version']
  /\ UNCHANGED <<heard, told, denied>>

Join(c, ws) == Add(c, ws) /\ Announce(c)
Change(c, ws) == version < MaxVersion /\ Update(c, ws) /\ Announce(c)
Leave(c) == Remove(c) /\ Announce(c)

(* sendSize puts the frame on m's outCh. *)
Deliver(t, m) ==
  /\ SendSize(t, m)
  /\ heard' = [heard EXCEPT ![m] = bcast[t].size]
  /\ told' = [told EXCEPT ![m] = IF bver[t] > @ THEN bver[t] ELSE @]
  /\ UNCHANGED <<version, bver, denied>>

(* sendSize panicked.  The set does not see why; it may happen in any       *)
(* broadcast (AttachHandler says when it does).                             *)
Panic(t) ==
  /\ AbortBroadcast(t)
  /\ denied' = denied \cup bcast[t].to
  /\ UNCHANGED <<version, bver, heard, told>>

Init ==
  /\ SetInit
  /\ version = 0
  /\ bver = [c \in Conns |-> 0]
  /\ heard = [c \in Conns |-> NoSize]
  /\ told = [c \in Conns |-> 0]
  /\ denied = {}

Next ==
  \/ \E c \in Conns, ws \in Sizes : Join(c, ws) \/ Change(c, ws)
  \/ \E c \in Conns : Leave(c) \/ Panic(c)
  \/ \E t, m \in Conns : Deliver(t, m)

Spec == Init /\ [][Next]_vars

-----------------------------------------------------------------------------

TypeOK ==
  /\ SetTypeOK
  /\ version \in Nat
  /\ bver \in [Conns -> Nat]
  /\ heard \in [Conns -> PositiveSize \cup {NoSize}]
  /\ told \in [Conns -> Nat]
  /\ denied \in SUBSET Conns

(* No member is forgotten by a broadcast: the newest effective size was     *)
(* queued for it or some goroutine is still about to queue it, unless a     *)
(* panicking broadcast skipped it.                                          *)
EveryMemberIsTold ==
  \A m \in Members \ denied :
     \/ told[m] = version
     \/ \E t \in Conns : m \in bcast[t].to /\ bver[t] = version

(* README.md, "the negotiated size is broadcast back to every attach        *)
(* whenever it changes": once every broadcast has been sent, and none of    *)
(* them panicked, the last Size frame of each member is the effective size. *)
SizeAgreement ==
  denied = {} /\ (\A t \in Conns : Idle(t)) =>
     \A m \in Members : heard[m] = current
=============================================================================
