------------------------- MODULE SizeBroadcastProofs -------------------------
(***************************************************************************)
(* For any number of attaches, any window sizes and any bound on the        *)
(* changes: no broadcast of the AttachSet forgets a member, although the    *)
(* frames are sent after the unlock and several broadcasts overlap.         *)
(***************************************************************************)
EXTENDS SizeBroadcast, AttachSetProofs

(* No goroutine sends, and no conn was told, a version from the future. *)
VersionsBounded ==
  \A c \in Conns : bver[c] <= version /\ told[c] <= version

(* A conn that was not added yet is no member and sends nothing: Add does   *)
(* not overwrite a broadcast of its own goroutine.                          *)
FreshIsQuiet == \A c \in Conns \ joined : c \notin Members /\ Idle(c)

HistoryTypeOK ==
  /\ version \in Nat
  /\ bver \in [Conns -> Nat]
  /\ heard \in [Conns -> PositiveSize \cup {NoSize}]
  /\ told \in [Conns -> Nat]
  /\ denied \in SUBSET Conns

(* The inductive strengthening of EveryMemberIsTold. *)
BroadcastInv ==
  /\ SetTypeOK /\ HistoryTypeOK
  /\ VersionsBounded /\ FreshIsQuiet /\ EveryMemberIsTold

-----------------------------------------------------------------------------

(* Whatever the clients hear, the AttachSet takes its own steps: what holds *)
(* of it (NegotiatedSize, NoViewTruncated) holds here.                      *)
THEOREM BroadcastImplementsSet == Spec => SetSpec
<1>1. Init => SetInit
  BY DEF Init
<1>2. [Next]_vars => [SetNext]_setVars
  <2> SUFFICES ASSUME [Next]_vars PROVE [SetNext]_setVars
    OBVIOUS
  <2>1. ASSUME NEW c \in Conns, NEW ws \in Sizes, Join(c, ws) \/ Change(c, ws)
        PROVE  SetNext
    BY <2>1 DEF SetNext, Join, Change
  <2>2. ASSUME NEW c \in Conns, Leave(c) \/ Panic(c)
        PROVE  SetNext
    BY <2>2 DEF SetNext, Leave, Panic
  <2>3. ASSUME NEW t \in Conns, NEW m \in Conns, Deliver(t, m)
        PROVE  SetNext
    BY <2>3 DEF SetNext, Deliver
  <2>4. CASE UNCHANGED vars
    BY <2>4 DEF vars
  <2>5. QED
    BY <2>1, <2>2, <2>3, <2>4 DEF Next
<1>3. QED
  BY <1>1, <1>2, PTL DEF Spec, SetSpec

(* The locked section of Add, Update and Remove: c, whose goroutine had no  *)
(* broadcast under way, declares w; if that changes the effective size,     *)
(* every member is among the receivers of the new version.                  *)
LEMMA AnnounceKeepsInv ==
  ASSUME BroadcastInv, SetTypeOK',
         NEW c \in Conns, NEW w \in PositiveSize \cup {NoSize},
         NEW to \in SUBSET Conns, NEW last \in BOOLEAN,
         Idle(c), Recompute([members EXCEPT ![c] = w]),
         Receivers([members EXCEPT ![c] = w]) \subseteq to,
         c \in Members \/ w = NoSize \/ c \in to,
         StartBroadcast(c, to, last), Announce(c),
         joined \subseteq joined', c \in joined'
  PROVE  BroadcastInv'
<1> DEFINE d == [members EXCEPT ![c] = w]
<1> USE DEF BroadcastInv
<1>1. members' = d /\ d \in [Conns -> PositiveSize \cup {NoSize}]
  BY DEF Recompute, SetTypeOK
<1>2. Members' = MembersOf(d)
  BY <1>1 DEF Members, MembersOf
<1>3. \A x \in Conns \ {c} : x \in MembersOf(d) <=> x \in Members
  BY DEF Members, MembersOf, SetTypeOK
<1>4. current' # current => to = to \cup MembersOf(d)
  BY DEF Recompute, Receivers
<1>5. \A x \in Conns \ {c} : bcast'[x] = bcast[x]
  BY DEF StartBroadcast, SetTypeOK
<1>6. bcast'[c].to = to
  BY DEF StartBroadcast, SetTypeOK, Quiet
<1>7. /\ version' \in Nat /\ version <= version'
      /\ current' = current => version' = version
      /\ bver' = [bver EXCEPT ![c] = version']
      /\ told' = told /\ denied' = denied /\ heard' = heard
  BY DEF Announce, HistoryTypeOK
<1>8. HistoryTypeOK'
  BY <1>7 DEF HistoryTypeOK
<1>9. VersionsBounded'
  BY <1>7 DEF VersionsBounded, HistoryTypeOK
<1>10. FreshIsQuiet'
  BY <1>2, <1>3, <1>5 DEF FreshIsQuiet, Idle
<1>11. EveryMemberIsTold'
  <2> SUFFICES ASSUME NEW m \in Members' \ denied
               PROVE  \/ told[m] = version'
                      \/ \E t \in Conns : m \in bcast'[t].to /\ bver'[t] = version'
    BY <1>7 DEF EveryMemberIsTold
  <2>1. m \in Conns /\ m \in MembersOf(d)
    BY <1>2 DEF MembersOf
  <2>2. bver'[c] = version'
    BY <1>7 DEF HistoryTypeOK
  <2>3. CASE current' # current
    BY <2>1, <2>2, <2>3, <1>4, <1>6
  <2>4. CASE m \in to
    BY <2>2, <2>4, <1>6
  <2>5. CASE current' = current /\ m \notin to
    <3>1. m \in Members \ denied
      <4>1. CASE m = c
        BY <4>1, <2>1, <2>5 DEF MembersOf, SetTypeOK
      <4>2. CASE m # c
        BY <4>2, <2>1, <1>3
      <4>3. QED
        BY <4>1, <4>2
    <3>2. CASE told[m] = version
      BY <3>2, <2>5, <1>7
    <3>3. CASE \E t \in Conns : m \in bcast[t].to /\ bver[t] = version
      <4>1. PICK t \in Conns : m \in bcast[t].to /\ bver[t] = version
        BY <3>3
      <4>2. t # c
        BY <4>1 DEF Idle
      <4>3. m \in bcast'[t].to /\ bver'[t] = version'
        BY <4>1, <4>2, <2>5, <1>5, <1>7 DEF HistoryTypeOK
      <4>4. QED
        BY <4>3
    <3>4. QED
      BY <3>1, <3>2, <3>3 DEF EveryMemberIsTold
  <2>6. QED
    BY <2>3, <2>4, <2>5
<1>12. QED
  BY <1>8, <1>9, <1>10, <1>11

(* One frame is queued: who is left to tell is still told by the same       *)
(* goroutine, and the receiver has now heard of that version.               *)
LEMMA DeliverKeepsInv ==
  ASSUME BroadcastInv, SetTypeOK', NEW t \in Conns, NEW m \in Conns, Deliver(t, m)
  PROVE  BroadcastInv'
<1> USE DEF BroadcastInv
<1>1. /\ members' = members /\ joined' = joined
      /\ version' = version /\ bver' = bver /\ denied' = denied
      /\ heard' = [heard EXCEPT ![m] = bcast[t].size]
      /\ told' = [told EXCEPT ![m] = IF bver[t] > @ THEN bver[t] ELSE @]
  BY DEF Deliver, SendSize
<1>2. Members' = Members
  BY <1>1 DEF Members, MembersOf
<1>3. /\ m \in bcast[t].to
      /\ bcast'[t].to = bcast[t].to \ {m}
      /\ \A x \in Conns \ {t} : bcast'[x] = bcast[x]
  BY DEF Deliver, SendSize, SetTypeOK, Quiet
<1>4. told' \in [Conns -> Nat] /\ (\A x \in Conns \ {m} : told'[x] = told[x])
      /\ told'[m] = IF bver[t] > told[m] THEN bver[t] ELSE told[m]
  BY <1>1 DEF HistoryTypeOK
<1>5. HistoryTypeOK'
  BY <1>1, <1>4 DEF HistoryTypeOK, SetTypeOK
<1>6. VersionsBounded'
  BY <1>1, <1>4 DEF VersionsBounded
<1>7. FreshIsQuiet'
  <2>1. t \in joined
    BY <1>3 DEF FreshIsQuiet, Idle
  <2>2. QED
    BY <2>1, <1>1, <1>2, <1>3 DEF FreshIsQuiet, Idle
<1>8. EveryMemberIsTold'
  <2> SUFFICES ASSUME NEW x \in Members \ denied
               PROVE  \/ told'[x] = version
                      \/ \E s \in Conns : x \in bcast'[s].to /\ bver[s] = version
    BY <1>1, <1>2 DEF EveryMemberIsTold
  <2>1. x \in Conns
    BY DEF Members, MembersOf
  <2>2. bver[t] <= version /\ told[m] <= version /\ version \in Nat
        /\ bver[t] \in Nat /\ told[m] \in Nat
    BY DEF VersionsBounded, HistoryTypeOK
  <2>3. CASE told[x] = version
    <3>1. told'[x] = version
      BY <2>1, <2>2, <2>3, <1>4
    <3>2. QED
      BY <3>1
  <2>4. CASE \E s \in Conns : x \in bcast[s].to /\ bver[s] = version
    <3>1. PICK s \in Conns : x \in bcast[s].to /\ bver[s] = version
      BY <2>4
    <3>2. CASE s = t /\ x = m
      BY <3>1, <3>2, <2>2, <1>4
    <3>3. CASE ~(s = t /\ x = m)
      BY <3>1, <3>3, <1>3
    <3>4. QED
      BY <3>2, <3>3
  <2>5. QED
    BY <2>3, <2>4 DEF EveryMemberIsTold
<1>9. QED
  BY <1>5, <1>6, <1>7, <1>8

(* A broadcast that panics denies those it had not reached. *)
LEMMA PanicKeepsInv ==
  ASSUME BroadcastInv, SetTypeOK', NEW t \in Conns, Panic(t)
  PROVE  BroadcastInv'
<1> USE DEF BroadcastInv
<1>1. /\ members' = members /\ joined' = joined
      /\ version' = version /\ bver' = bver /\ heard' = heard /\ told' = told
      /\ denied' = denied \cup bcast[t].to
  BY DEF Panic, AbortBroadcast
<1>2. Members' = Members
  BY <1>1 DEF Members, MembersOf
<1>3. bcast'[t].to = {} /\ \A x \in Conns \ {t} : bcast'[x] = bcast[x]
  BY DEF Panic, AbortBroadcast, SetTypeOK, Quiet
<1>4. HistoryTypeOK' /\ VersionsBounded' /\ FreshIsQuiet'
  BY <1>1, <1>2, <1>3
     DEF HistoryTypeOK, VersionsBounded, FreshIsQuiet, Idle, SetTypeOK
<1>5. EveryMemberIsTold'
  BY <1>1, <1>2, <1>3 DEF EveryMemberIsTold
<1>6. QED
  BY <1>4, <1>5

-----------------------------------------------------------------------------

(* Every step keeps the inductive invariant. *)
LEMMA BroadcastStepKeepsInv ==
  SetInv /\ SetTypeOK' /\ BroadcastInv /\ [Next]_vars => BroadcastInv'
<1> SUFFICES ASSUME SetInv, SetTypeOK', BroadcastInv, [Next]_vars PROVE BroadcastInv'
  OBVIOUS
<1> USE SizesAssumption
<1>1. ASSUME NEW c \in Conns, NEW ws \in Sizes, Join(c, ws)
      PROVE  BroadcastInv'
  <2>1. Idle(c)
    BY <1>1 DEF Join, Add, BroadcastInv, FreshIsQuiet
  <2>2. Receivers([members EXCEPT ![c] = ws]) \cup {c} \in SUBSET Conns
    BY DEF Receivers, MembersOf
  <2>3. QED
    BY <1>1, <2>1, <2>2, AnnounceKeepsInv DEF Join, Add
<1>2. ASSUME NEW c \in Conns, NEW w \in Sizes \cup {NoSize}, c \in Members, Idle(c),
             Recompute([members EXCEPT ![c] = w]),
             StartBroadcast(c, Receivers([members EXCEPT ![c] = w]), FALSE),
             Announce(c), UNCHANGED joined
      PROVE  BroadcastInv'
  <2>1. c \in joined
    BY <1>2 DEF BroadcastInv, FreshIsQuiet
  <2>2. Receivers([members EXCEPT ![c] = w]) \in SUBSET Conns
    BY DEF Receivers, MembersOf
  <2>3. QED
    BY <1>2, <2>1, <2>2, AnnounceKeepsInv
<1>3. ASSUME NEW c \in Conns, NEW ws \in Sizes, Change(c, ws)
      PROVE  BroadcastInv'
  BY <1>2, <1>3 DEF Change, Update
<1>4. ASSUME NEW c \in Conns, Leave(c)
      PROVE  BroadcastInv'
  BY <1>2, <1>4 DEF Leave, Remove
<1>5. ASSUME NEW c \in Conns, Panic(c)
      PROVE  BroadcastInv'
  BY <1>5, PanicKeepsInv
<1>6. ASSUME NEW t \in Conns, NEW m \in Conns, Deliver(t, m)
      PROVE  BroadcastInv'
  BY <1>6, DeliverKeepsInv
<1>7. CASE UNCHANGED vars
  BY <1>7 DEF vars, setVars, historyVars, BroadcastInv, HistoryTypeOK, VersionsBounded,
              FreshIsQuiet, EveryMemberIsTold, Members, MembersOf, Idle
<1>8. QED
  BY <1>1, <1>3, <1>4, <1>5, <1>6, <1>7 DEF Next

(* The inductive invariant holds throughout. *)
THEOREM BroadcastInvariant == Spec => []BroadcastInv
<1>1. Init => BroadcastInv
  <2> SUFFICES ASSUME Init PROVE BroadcastInv
    OBVIOUS
  <2>1. SetTypeOK
    BY SetInitInv DEF Init, SetInv
  <2>2. Members = {}
    BY DEF Init, SetInit, Members, MembersOf
  <2>3. HistoryTypeOK /\ VersionsBounded
    BY DEF Init, HistoryTypeOK, VersionsBounded
  <2>4. FreshIsQuiet /\ EveryMemberIsTold
    BY <2>2 DEF Init, SetInit, FreshIsQuiet, EveryMemberIsTold, Idle, Quiet
  <2>5. QED
    BY <2>1, <2>3, <2>4 DEF BroadcastInv
<1>2. SetInv => SetTypeOK
  BY DEF SetInv
<1>3. QED
  BY <1>1, <1>2, BroadcastStepKeepsInv, BroadcastImplementsSet, SetInvariant, PTL
     DEF Spec

(* The history keeps its types too. *)
THEOREM BroadcastTypeCorrect == Spec => []TypeOK
<1>1. BroadcastInv => TypeOK
  BY DEF BroadcastInv, HistoryTypeOK, TypeOK
<1>2. QED
  BY <1>1, BroadcastInvariant, PTL

(* attach.go: however the broadcasts of Add, Update and Remove overlap, no  *)
(* member is left without the newest effective size, unless a broadcast     *)
(* panicked before it came to that member.                                  *)
THEOREM EveryMemberIsToldHolds == Spec => []EveryMemberIsTold
<1>1. BroadcastInv => EveryMemberIsTold
  BY DEF BroadcastInv
<1>2. QED
  BY <1>1, BroadcastInvariant, PTL

(* The PTY has the min-wins size of the members while broadcasts are under  *)
(* way.                                                                     *)
THEOREM NegotiatedWhileBroadcasting == Spec => []NegotiatedSize
BY BroadcastImplementsSet, NegotiatedSizeHolds, PTL
=============================================================================
