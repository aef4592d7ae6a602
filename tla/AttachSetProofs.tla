--------------------------- MODULE AttachSetProofs ---------------------------
(***************************************************************************)
(* For any number of attaches and any window sizes: the AttachSet keeps the *)
(* PTY at the min-wins size of its members.                                 *)
(***************************************************************************)
EXTENDS AttachSet, NaturalsInduction, WellFoundedInduction, TLAPS

(* The inductive strengthening of NegotiatedSize: a.current is the minimum  *)
(* over a nonempty set, and what was applied is a.current from the first    *)
(* attach on.                                                               *)
SizeInv ==
  /\ Members # {} => current = Effective(members)
  /\ current # NoSize => applied = current

SetInv == SetTypeOK /\ SizeInv

-----------------------------------------------------------------------------

(* The minimum of a nonempty set of naturals exists and is what Min picks. *)
LEMMA MinIsLeast ==
  ASSUME NEW S, S \subseteq Nat, S # {}
  PROVE  Min(S) \in S /\ \A y \in S : Min(S) <= y
<1>1. \E x \in S : \A y \in S : ~(<<y, x>> \in OpToRel(<, Nat))
  BY NatLessThanWellFounded, WFMin
<1>2. \E x \in S : \A y \in S : x <= y
  <2>1. PICK x \in S : \A y \in S : ~(<<y, x>> \in OpToRel(<, Nat))
    BY <1>1
  <2>2. ASSUME NEW y \in S PROVE x <= y
    <3>1. ~(y < x)
      BY <2>1, <2>2 DEF OpToRel
    <3>2. QED
      BY <3>1
  <2>3. QED
    BY <2>2
<1>3. QED
  BY <1>2 DEF Min

(* The effective size of a nonempty set is positive and no larger than any  *)
(* member's window (recomputeLocked).                                       *)
LEMMA EffectiveIsLeast ==
  ASSUME NEW d \in [Conns -> PositiveSize \cup {NoSize}], MembersOf(d) # {}
  PROVE  /\ Effective(d) \in PositiveSize
         /\ \A c \in MembersOf(d) : /\ Effective(d).cols <= d[c].cols
                                    /\ Effective(d).rows <= d[c].rows
<1> DEFINE C == {d[c].cols : c \in MembersOf(d)}
           R == {d[c].rows : c \in MembersOf(d)}
<1>1. \A c \in MembersOf(d) : d[c] \in PositiveSize
  BY DEF MembersOf
<1>2. C # {} /\ C \subseteq Nat \ {0} /\ R # {} /\ R \subseteq Nat \ {0}
  BY <1>1 DEF PositiveSize
<1>3. Min(C) \in C /\ \A y \in C : Min(C) <= y
  BY <1>2, MinIsLeast
<1>4. Min(R) \in R /\ \A y \in R : Min(R) <= y
  BY <1>2, MinIsLeast
<1>5. Effective(d) = [cols |-> Min(C), rows |-> Min(R)]
  BY DEF Effective
<1> HIDE DEF C, R
<1>6. Effective(d) \in PositiveSize
  <2>1. Min(C) \in Nat \ {0} /\ Min(R) \in Nat \ {0}
    BY <1>2, <1>3, <1>4
  <2>2. QED
    BY <2>1, <1>5 DEF PositiveSize
<1>7. ASSUME NEW c \in MembersOf(d)
      PROVE  Effective(d).cols <= d[c].cols /\ Effective(d).rows <= d[c].rows
  <2>1. d[c].cols \in C /\ d[c].rows \in R
    BY <1>7 DEF C, R
  <2>2. QED
    BY <2>1, <1>3, <1>4, <1>5
<1>8. QED
  BY <1>6, <1>7

(* No declared size is the zero size. *)
LEMMA NoSizeNotPositive == NoSize \notin PositiveSize
BY DEF NoSize, PositiveSize

(* A locked section, on whatever new declared sizes, keeps the invariant. *)
LEMMA RecomputeKeepsSizeInv ==
  ASSUME SetInv,
         NEW d \in [Conns -> PositiveSize \cup {NoSize}],
         Recompute(d)
  PROVE  /\ SizeInv'
         /\ members' \in [Conns -> PositiveSize \cup {NoSize}]
         /\ current' \in PositiveSize \cup {NoSize}
         /\ applied' \in PositiveSize
<1>1. members' = d /\ current' = recomputeLocked(d)
      /\ applied' = IF recomputeLocked(d) # current THEN recomputeLocked(d) ELSE applied
  BY DEF Recompute
<1>2. Members' = MembersOf(d)
  BY <1>1 DEF Members, MembersOf
<1>3. Effective(members)' = Effective(d)
  BY <1>1 DEF Effective, MembersOf
<1>4. CASE MembersOf(d) = {}
  <2>1. current' = current /\ applied' = applied
    BY <1>1, <1>4 DEF recomputeLocked
  <2>2. QED
    BY <2>1, <1>1, <1>2, <1>4 DEF SizeInv, SetInv, SetTypeOK
<1>5. CASE MembersOf(d) # {}
  <2>1. recomputeLocked(d) = Effective(d) /\ Effective(d) \in PositiveSize
    BY <1>5, EffectiveIsLeast DEF recomputeLocked
  <2>2. Effective(d) # NoSize
    BY <2>1, NoSizeNotPositive
  <2>3. applied' = current'
    BY <2>1, <2>2, <1>1 DEF SetInv, SizeInv
  <2>4. QED
    BY <2>1, <2>3, <1>1, <1>2, <1>3 DEF SizeInv
<1>6. QED
  BY <1>4, <1>5

(* Starting a broadcast keeps the type of bcast. *)
LEMMA StartBroadcastType ==
  ASSUME SetTypeOK, current' \in PositiveSize \cup {NoSize},
         NEW t \in Conns, NEW to \in SUBSET Conns, NEW last \in BOOLEAN,
         StartBroadcast(t, to, last)
  PROVE  bcast' \in [Conns -> [size : PositiveSize \cup {NoSize},
                               to : SUBSET Conns, last : BOOLEAN]]
BY DEF StartBroadcast, SetTypeOK, Quiet

(* Every step of the set keeps the inductive invariant. *)
LEMMA SetStepKeepsInv == SetInv /\ [SetNext]_setVars => SetInv'
<1> SUFFICES ASSUME SetInv, [SetNext]_setVars PROVE SetInv'
  OBVIOUS
<1> USE SizesAssumption
<1>1. ASSUME NEW c \in Conns, NEW ws \in Sizes, Add(c, ws)
      PROVE  SetInv'
  <2> DEFINE d == [members EXCEPT ![c] = ws]
  <2>1. d \in [Conns -> PositiveSize \cup {NoSize}]
    BY DEF SetInv, SetTypeOK
  <2>2. SizeInv' /\ members' \in [Conns -> PositiveSize \cup {NoSize}]
        /\ current' \in PositiveSize \cup {NoSize} /\ applied' \in PositiveSize
    BY <1>1, <2>1, RecomputeKeepsSizeInv DEF Add
  <2>3. bcast' \in [Conns -> [size : PositiveSize \cup {NoSize},
                              to : SUBSET Conns, last : BOOLEAN]]
    <3>1. Receivers(d) \cup {c} \in SUBSET Conns
      BY DEF Receivers, MembersOf
    <3>2. QED
      BY <1>1, <2>2, <3>1, StartBroadcastType DEF Add, SetInv
  <2>4. joined' \in SUBSET Conns
    BY <1>1 DEF Add, SetInv, SetTypeOK
  <2>5. QED
    BY <2>2, <2>3, <2>4 DEF SetInv, SetTypeOK
<1>2. ASSUME NEW c \in Conns, NEW ws \in Sizes, Update(c, ws)
      PROVE  SetInv'
  <2> DEFINE d == [members EXCEPT ![c] = ws]
  <2>1. d \in [Conns -> PositiveSize \cup {NoSize}]
    BY DEF SetInv, SetTypeOK
  <2>2. SizeInv' /\ members' \in [Conns -> PositiveSize \cup {NoSize}]
        /\ current' \in PositiveSize \cup {NoSize} /\ applied' \in PositiveSize
    BY <1>2, <2>1, RecomputeKeepsSizeInv DEF Update
  <2>3. bcast' \in [Conns -> [size : PositiveSize \cup {NoSize},
                              to : SUBSET Conns, last : BOOLEAN]]
    <3>1. Receivers(d) \in SUBSET Conns
      BY DEF Receivers, MembersOf
    <3>2. QED
      BY <1>2, <2>2, <3>1, StartBroadcastType DEF Update, SetInv
  <2>4. QED
    BY <1>2, <2>2, <2>3 DEF SetInv, SetTypeOK, Update
<1>3. ASSUME NEW c \in Conns, Remove(c)
      PROVE  SetInv'
  <2> DEFINE d == [members EXCEPT ![c] = NoSize]
  <2>1. d \in [Conns -> PositiveSize \cup {NoSize}]
    BY DEF SetInv, SetTypeOK
  <2>2. SizeInv' /\ members' \in [Conns -> PositiveSize \cup {NoSize}]
        /\ current' \in PositiveSize \cup {NoSize} /\ applied' \in PositiveSize
    BY <1>3, <2>1, RecomputeKeepsSizeInv DEF Remove
  <2>3. bcast' \in [Conns -> [size : PositiveSize \cup {NoSize},
                              to : SUBSET Conns, last : BOOLEAN]]
    <3>1. Receivers(d) \in SUBSET Conns
      BY DEF Receivers, MembersOf
    <3>2. QED
      BY <1>3, <2>2, <3>1, StartBroadcastType DEF Remove, SetInv
  <2>4. QED
    BY <1>3, <2>2, <2>3 DEF SetInv, SetTypeOK, Remove
<1>4. ASSUME NEW t \in Conns, NEW m \in Conns, SendSize(t, m)
      PROVE  SetInv'
  <2>1. bcast' \in [Conns -> [size : PositiveSize \cup {NoSize},
                              to : SUBSET Conns, last : BOOLEAN]]
    BY <1>4 DEF SendSize, SetInv, SetTypeOK, Quiet
  <2>2. QED
    BY <1>4, <2>1
       DEF SendSize, SetInv, SetTypeOK, SizeInv, Members, MembersOf, Effective
<1>5. ASSUME NEW t \in Conns, AbortBroadcast(t)
      PROVE  SetInv'
  BY <1>5 DEF AbortBroadcast, SetInv, SetTypeOK, SizeInv, Members, MembersOf,
              Effective, Quiet
<1>6. CASE UNCHANGED setVars
  BY <1>6 DEF setVars, SetInv, SetTypeOK, SizeInv, Members, MembersOf, Effective
<1>7. QED
  BY <1>1, <1>2, <1>3, <1>4, <1>5, <1>6 DEF SetNext

(* The AttachSet starts in the inductive invariant: nobody is attached and  *)
(* the PTY has the session's own size.                                      *)
LEMMA SetInitInv == SetInit => SetInv
<1> SUFFICES ASSUME SetInit PROVE SetInv
  OBVIOUS
<1> USE SizesAssumption
<1>1. Members = {}
  BY DEF SetInit, Members, MembersOf
<1>2. SetTypeOK
  BY DEF SetInit, SetTypeOK, Quiet
<1>3. QED
  BY <1>1, <1>2 DEF SetInit, SetInv, SizeInv

(* The inductive invariant holds throughout. *)
THEOREM SetInvariant == SetSpec => []SetInv
BY SetInitInv, SetStepKeepsInv, PTL DEF SetSpec

(* The AttachSet keeps its types whatever calls it gets. *)
THEOREM SetTypeCorrect == SetSpec => []SetTypeOK
<1>1. SetInv => SetTypeOK
  BY DEF SetInv
<1>2. QED
  BY <1>1, SetInvariant, PTL

(* Whenever someone is attached, the PTY has the min-wins size of the       *)
(* members (attach.go).                                                     *)
THEOREM NegotiatedSizeHolds == SetSpec => []NegotiatedSize
<1>1. SetInv => NegotiatedSize
  <2> SUFFICES ASSUME SetInv, Members # {} PROVE applied = Effective(members)
    BY DEF NegotiatedSize
  <2>1. Effective(members) \in PositiveSize
    BY EffectiveIsLeast DEF SetInv, SetTypeOK, Members
  <2>2. current # NoSize
    BY <2>1, NoSizeNotPositive DEF SetInv, SizeInv
  <2>3. QED
    BY <2>2 DEF SetInv, SizeInv
<1>2. QED
  BY <1>1, SetInvariant, PTL

(* attach.go, "to keep every attach's view non-truncated": the PTY is never *)
(* wider or taller than a member's window.                                  *)
THEOREM NoViewTruncated ==
  SetSpec => [](\A m \in Members : /\ applied.cols <= members[m].cols
                                   /\ applied.rows <= members[m].rows)
<1>1. SetInv /\ NegotiatedSize =>
        \A m \in Members : /\ applied.cols <= members[m].cols
                           /\ applied.rows <= members[m].rows
  BY EffectiveIsLeast DEF SetInv, SetTypeOK, NegotiatedSize, Members
<1>2. QED
  BY <1>1, SetInvariant, NegotiatedSizeHolds, PTL
=============================================================================
