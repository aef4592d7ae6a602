---------------------------- MODULE RecordProofs ----------------------------
(***************************************************************************)
(* What a session leaves for others to read: its recording (Recorder), the *)
(* states it publishes to the watchers of GET /events (EventBus) and the   *)
(* attachments it lists in state.json (AttachRegistry).  The three         *)
(* specifications are separate: each theorem is about one of them.         *)
(***************************************************************************)
EXTENDS Recorder, EventBus, AttachRegistry, TLAPS, SequenceTheorems

-----------------------------------------------------------------------------
(* The recording. *)

(* A resize is shown at its millisecond, a byte at its bucket. *)
ItemAt(item, t) ==
  IF item.kind = "resize" THEN t = item.at ELSE t <= item.at /\ item.at < t + BucketMs
(* Every item of the payload s, recorded as h says, may be shown at time t. *)
Timed(h, t, s) == \A j \in 1 .. Len(s) : s[j] \in 1 .. Len(h) /\ ItemAt(h[s[j]], t)
(* What was given to the recorder: one thing and its millisecond. *)
Record == [kind : {"byte", "resize"}, at : Nat]

(* A time is in its bucket. *)
LEMMA BucketBounds ==
  ASSUME NEW n \in Nat
  PROVE  Bucket(n) \in Nat /\ Bucket(n) <= n /\ n < Bucket(n) + BucketMs
<1> DEFINE q == n \div BucketMs
<1>0. BucketMs \in Nat /\ BucketMs > 0
  BY RecorderAssumption
<1>1. q \in Nat /\ n = BucketMs * q + (n % BucketMs) /\ n % BucketMs \in 0 .. BucketMs - 1
  BY <1>0
<1>2. BucketMs * q \in Nat /\ BucketMs * q = q * BucketMs
  BY <1>0, <1>1
<1>3. Bucket(n) = BucketMs * q
  BY <1>2 DEF Bucket
<1> QED
  BY <1>0, <1>1, <1>2, <1>3

(* Later times are not in earlier buckets. *)
LEMMA BucketRises ==
  ASSUME NEW m \in Nat, NEW n \in Nat, m <= n
  PROVE  Bucket(m) <= Bucket(n)
<1> DEFINE p == m \div BucketMs
           q == n \div BucketMs
<1>0. BucketMs \in Nat /\ BucketMs > 0
  BY RecorderAssumption
<1>1. p \in Nat /\ q \in Nat /\ Bucket(m) = p * BucketMs /\ Bucket(n) = q * BucketMs
  BY <1>0 DEF Bucket
<1>2. Bucket(m) <= m /\ n < Bucket(n) + BucketMs /\ Bucket(m) \in Nat /\ Bucket(n) \in Nat
  BY BucketBounds
<1> HIDE DEF p, q
<1>3. ASSUME q < p PROVE FALSE
  <2>1. PICK d \in Nat : p = q + 1 + d
    <3>1. p - q - 1 \in Nat /\ p = q + 1 + (p - q - 1)
      BY <1>1, <1>3
    <3> QED
      BY <3>1
  <2>2. p * BucketMs = q * BucketMs + BucketMs + d * BucketMs /\ d * BucketMs \in Nat
    BY <1>0, <1>1, <2>1
  <2> QED
    BY <1>0, <1>1, <1>2, <2>2
<1>4. CASE p <= q
  <2>1. PICK d \in Nat : q = p + d
    <3>1. q - p \in Nat /\ q = p + (q - p)
      BY <1>1, <1>4
    <3> QED
      BY <3>1
  <2>2. q * BucketMs = p * BucketMs + d * BucketMs /\ d * BucketMs \in Nat
    BY <1>0, <1>1, <2>1
  <2> QED
    BY <1>0, <1>1, <1>2, <2>2
<1> QED
  BY <1>1, <1>3, <1>4

(* The minimum, as Spacer and EmitOutput take it. *)
LEMMA MinOfTwo ==
  ASSUME NEW a \in Nat, NEW b \in Nat
  PROVE  Min({a, b}) = IF a <= b THEN a ELSE b
<1> DEFINE least == IF a <= b THEN a ELSE b
<1>1. least \in {a, b} /\ \A y \in {a, b} : least <= y
  OBVIOUS
<1>2. \A x \in {a, b} : (\A y \in {a, b} : x <= y) => x = least
  OBVIOUS
<1> HIDE DEF least
<1>3. Min({a, b}) = least
  BY <1>1, <1>2 DEF Min
<1> QED
  BY <1>3 DEF least

(* What was recorded stays recorded. *)
LEMMA TimedGrows ==
  ASSUME NEW h \in Seq(Record), NEW e \in Seq(Record), NEW t, NEW s, Timed(h, t, s)
  PROVE  Timed(h \o e, t, s)
<1>1. Len(h \o e) = Len(h) + Len(e) /\ Len(h) \in Nat /\ Len(e) \in Nat
  OBVIOUS
<1>2. \A i \in 1 .. Len(h) : (h \o e)[i] = h[i]
  OBVIOUS
<1> QED
  BY <1>1, <1>2 DEF Timed

(* Two payloads with the same time can be one. *)
LEMMA TimedJoin ==
  ASSUME NEW h, NEW t, NEW r \in Seq(Nat), NEW s \in Seq(Nat),
         Timed(h, t, r), Timed(h, t, s)
  PROVE  Timed(h, t, r \o s)
<1>1. Len(r \o s) = Len(r) + Len(s) /\ Len(r) \in Nat /\ Len(s) \in Nat
  OBVIOUS
<1>2. \A j \in 1 .. Len(r \o s) :
        (r \o s)[j] = IF j <= Len(r) THEN r[j] ELSE s[j - Len(r)]
  OBVIOUS
<1>3. ASSUME NEW j \in 1 .. Len(r \o s) PROVE j <= Len(r) \/ j - Len(r) \in 1 .. Len(s)
  BY <1>1
<1> QED
  BY <1>1, <1>2, <1>3 DEF Timed

(* A payload can be cut. *)
LEMMA TimedPart ==
  ASSUME NEW h, NEW t, NEW s \in Seq(Nat), NEW m \in Nat, NEW n \in Nat,
         1 <= m, m <= n + 1, n <= Len(s), Timed(h, t, s)
  PROVE  Timed(h, t, SubSeq(s, m, n)) /\ SubSeq(s, m, n) \in Seq(Nat)
<1>1. /\ SubSeq(s, m, n) \in Seq(Nat)
      /\ Len(SubSeq(s, m, n)) = n + 1 - m
      /\ \A j \in 1 .. (n + 1 - m) : SubSeq(s, m, n)[j] = s[m + j - 1]
  OBVIOUS
<1>2. ASSUME NEW j \in 1 .. (n + 1 - m) PROVE m + j - 1 \in 1 .. Len(s)
  OBVIOUS
<1> QED
  BY <1>1, <1>2 DEF Timed

(* New items can be shown at any time that fits the clock. *)
LEMMA NewItemsTimed ==
  ASSUME TypeOK, NEW n \in Nat, NEW kind \in {"byte", "resize"}, NEW t \in Nat,
         ItemAt([kind |-> kind, at |-> clock], t)
  PROVE  /\ Items(kind, n) \in Seq(Record)
         /\ NewItems(n) \in Seq(Nat)
         /\ when \o Items(kind, n) \in Seq(Record)
         /\ Timed(when \o Items(kind, n), t, NewItems(n))
<1> DEFINE e == Items(kind, n)
           s == NewItems(n)
<1>1. clock \in Nat /\ when \in Seq(Record) /\ Len(when) \in Nat
  BY DEF TypeOK, Record
<1>2. e \in Seq(Record) /\ Len(e) = n /\ \A j \in 1 .. n : e[j] = [kind |-> kind, at |-> clock]
  BY <1>1 DEF Items, Record
<1>3. s \in Seq(Nat) /\ Len(s) = n /\ \A j \in 1 .. n : s[j] = Len(when) + j
  BY <1>1 DEF NewItems
<1> HIDE DEF e, s
<1>4. /\ when \o e \in Seq(Record) /\ Len(when \o e) = Len(when) + n
      /\ \A j \in 1 .. n : (when \o e)[Len(when) + j] = e[j]
  BY <1>1, <1>2
<1>5. Timed(when \o e, t, s)
  <2> SUFFICES ASSUME NEW j \in 1 .. n
               PROVE  s[j] \in 1 .. Len(when \o e) /\ ItemAt((when \o e)[s[j]], t)
    BY <1>3 DEF Timed
  <2>1. s[j] = Len(when) + j /\ (when \o e)[Len(when) + j] = [kind |-> kind, at |-> clock]
    BY <1>2, <1>3, <1>4
  <2>2. Len(when) + j \in 1 .. Len(when \o e)
    BY <1>1, <1>4
  <2> QED
    BY <2>1, <2>2
<1> QED
  BY <1>2, <1>3, <1>4, <1>5 DEF e, s

(* A bucket that output still goes to: not before the last frame, and not   *)
(* after the bucket of the clock, unless Write raised it to the last        *)
(* frame's time.                                                            *)
OpenBucket(b, last) == last <= b /\ b <= clock /\ (b = last \/ b <= Bucket(clock))

(* The types of call, pending, the recorded items and the decoder, named. *)
CallSet == [pc : PCs, op : {"none", "write", "resize", "close"}, data : Seq(Nat),
            bucket : Nat, target : Nat, buf : Seq(Nat), first : BOOLEAN]
(* The open bucket of the recorder. *)
PendingSet == [has : BOOLEAN, bucket : Nat, buf : Seq(Nat)]

(* The fields of the constant records. *)
LEMMA IdleTyped ==
  /\ Idle \in CallSet /\ Idle.pc = "idle" /\ ~Idle.first
  /\ NoPending \in PendingSet /\ ~NoPending.has
  /\ \A c : c = [Idle EXCEPT !.pc = "stamp", !.op = "resize"] =>
              c \in CallSet /\ c.pc = "stamp" /\ c.op = "resize" /\ ~c.first
<1>1. Idle \in CallSet /\ Idle.pc = "idle" /\ ~Idle.first
  BY DEF Idle, CallSet, PCs
<1>2. NoPending \in PendingSet /\ ~NoPending.has
  BY DEF NoPending, PendingSet
<1>3. ASSUME NEW c, c = [Idle EXCEPT !.pc = "stamp", !.op = "resize"]
      PROVE  c \in CallSet /\ c.pc = "stamp" /\ c.op = "resize" /\ ~c.first
  BY <1>1, <1>3 DEF CallSet, PCs
<1> QED
  BY <1>1, <1>2, <1>3

(* What pendingBuf is after new bytes. *)
LEMMA BufferTyped ==
  ASSUME pending \in PendingSet, NEW d \in Seq(Nat), NEW b \in Nat
  PROVE  /\ Buffer(d, b) \in PendingSet
         /\ Buffer(d, b).has
         /\ Buffer(d, b).bucket = IF pending.has THEN pending.bucket ELSE b
         /\ Buffer(d, b).buf = IF pending.has THEN pending.buf \o d ELSE d
<1>1. pending.buf \o d \in Seq(Nat)
  BY DEF PendingSet
<1> DEFINE g == pending.buf \o d
<1>2. Buffer(d, b) = IF pending.has THEN [pending EXCEPT !.buf = g]
                     ELSE [has |-> TRUE, bucket |-> b, buf |-> d]
  BY DEF Buffer
<1> HIDE DEF g
<1>3. g \in Seq(Nat)
  BY <1>1 DEF g
<1>4. /\ Buffer(d, b) \in PendingSet
      /\ Buffer(d, b).has
      /\ Buffer(d, b).bucket = IF pending.has THEN pending.bucket ELSE b
      /\ Buffer(d, b).buf = IF pending.has THEN g ELSE d
  BY <1>2, <1>3 DEF PendingSet
<1> QED
  BY <1>4 DEF g

(* What flushPendingLocked has taken when it starts. *)
LEMMA FlushTyped ==
  ASSUME pending \in PendingSet, NEW op \in {"write", "resize", "close"}, NEW d \in Seq(Nat),
         NEW b \in Nat, StartFlush(op, d, b)
  PROVE  /\ pending' \in PendingSet /\ ~pending'.has
         /\ call' \in CallSet
         /\ call'.pc = "bridgeOutput" /\ call'.op = op /\ call'.data = d /\ call'.bucket = b
         /\ call'.target = pending.bucket /\ call'.buf = pending.buf /\ call'.first
BY IdleTyped DEF StartFlush, PendingSet, CallSet, PCs, NoPending

(* What the decoder adds to its clock for a frame. *)
Advance(f) == IF f.type = "spacer" THEN f.adv ELSE f.delta

(* The times the recorder gave its frames are the ones a decoder adds up,   *)
(* and each frame's payload may be shown at its frame's time.               *)
Chain(fl, h) ==
  /\ Len(fl) > 0 => fl[1].at = 0
  /\ \A k \in 1 .. Len(fl) : Timed(h, fl[k].at, fl[k].data)
  /\ \A k \in 2 .. Len(fl) :
        fl[k].type # "torn" => fl[k].at = fl[k - 1].at + Advance(fl[k])

(* A frame that advances from the last one's time extends the chain; so     *)
(* does a torn one.                                                         *)
LEMMA ChainGrows ==
  ASSUME NEW fl \in Seq(FrameSet), NEW h, NEW f \in FrameSet, Chain(fl, h), Len(fl) > 0,
         Timed(h, f.at, f.data),
         f.type # "torn" => f.at = fl[Len(fl)].at + Advance(f)
  PROVE  /\ Append(fl, f) \in Seq(FrameSet)
         /\ Len(Append(fl, f)) = Len(fl) + 1
         /\ Append(fl, f)[Len(fl) + 1] = f
         /\ \A k \in 1 .. Len(fl) : Append(fl, f)[k] = fl[k]
         /\ Chain(Append(fl, f), h)
<1> DEFINE g == Append(fl, f)
<1>1. /\ g \in Seq(FrameSet) /\ Len(g) = Len(fl) + 1 /\ g[Len(fl) + 1] = f /\ Len(fl) \in Nat
      /\ \A k \in 1 .. Len(fl) : g[k] = fl[k]
  OBVIOUS
<1> HIDE DEF g
<1>2. g[1].at = 0
  BY <1>1 DEF Chain
<1>3. ASSUME NEW k \in 1 .. Len(g) PROVE Timed(h, g[k].at, g[k].data)
  <2>1. k \in 1 .. Len(fl) \/ k = Len(fl) + 1
    BY <1>1
  <2> QED
    BY <1>1, <2>1 DEF Chain
<1>4. ASSUME NEW k \in 2 .. Len(g), g[k].type # "torn"
      PROVE  g[k].at = g[k - 1].at + Advance(g[k])
  <2>1. k \in 2 .. Len(fl) \/ k = Len(fl) + 1
    BY <1>1
  <2>2. CASE k \in 2 .. Len(fl)
    <3>1. k \in 1 .. Len(fl) /\ k - 1 \in 1 .. Len(fl)
      BY <2>2, <1>1
    <3>2. g[k] = fl[k] /\ g[k - 1] = fl[k - 1]
      BY <1>1, <3>1
    <3> QED
      BY <1>4, <2>2, <3>2 DEF Chain
  <2>3. CASE k = Len(fl) + 1
    <3>1. k - 1 = Len(fl) /\ Len(fl) \in 1 .. Len(fl)
      BY <2>3, <1>1
    <3>2. g[k] = f /\ g[k - 1] = fl[Len(fl)]
      BY <1>1, <2>3, <3>1
    <3> QED
      BY <1>4, <3>2
  <2> QED
    BY <2>1, <2>2, <2>3
<1>5. Chain(g, h)
  BY <1>2, <1>3, <1>4 DEF Chain
<1> QED
  BY <1>1, <1>5 DEF g

(* Recording more leaves the chain as it is. *)
LEMMA ChainKept ==
  ASSUME NEW fl, NEW h \in Seq(Record), NEW e \in Seq(Record), Chain(fl, h)
  PROVE  Chain(fl, h \o e)
<1>1. \A k \in 1 .. Len(fl) : Timed(h \o e, fl[k].at, fl[k].data)
  BY TimedGrows DEF Chain
<1> DEFINE he == h \o e
<1> HIDE DEF he
<1>2. Chain(fl, he)
  BY <1>1 DEF Chain, he
<1> QED
  BY <1>2 DEF he

(* The fields of a frame. *)
LEMMA FrameTyped ==
  ASSUME NEW type \in {"output", "resize", "spacer", "torn"}, NEW delta \in 0 .. DeltaMax,
         NEW data \in Seq(Nat), NEW adv \in 0 .. SpacerMax, NEW at \in Nat
  PROVE  /\ Frame(type, delta, data, adv, at) \in FrameSet
         /\ Frame(type, delta, data, adv, at).type = type
         /\ Frame(type, delta, data, adv, at).data = data
         /\ Frame(type, delta, data, adv, at).at = at
         /\ Advance(Frame(type, delta, data, adv, at)) = IF type = "spacer" THEN adv ELSE delta
BY DEF Frame, FrameSet, Advance

(* The fields of the prelude and of a torn frame. *)
LEMMA SpecialFrames ==
  /\ Torn \in FrameSet /\ Torn.type = "torn" /\ Torn.data = <<>>
  /\ Prelude \in FrameSet /\ Prelude.type = "resize" /\ Prelude.at = 0 /\ Prelude.data = <<1>>
<1>1. DeltaMax \in Nat /\ SpacerMax \in Nat
  BY RecorderAssumption
<1>2. <<>> \in Seq(Nat) /\ <<1>> \in Seq(Nat) /\ 0 \in 0 .. DeltaMax /\ 0 \in 0 .. SpacerMax
  BY <1>1
<1>3. Torn \in FrameSet /\ Torn.type = "torn" /\ Torn.data = <<>>
  BY <1>2 DEF Torn, Frame, FrameSet
<1>4. Prelude \in FrameSet /\ Prelude.type = "resize" /\ Prelude.at = 0 /\ Prelude.data = <<1>>
  BY <1>2 DEF Prelude, Frame, FrameSet
<1> QED
  BY <1>3, <1>4

(* uint16 keeps a difference that bridgeIdleLocked has made small enough. *)
LEMMA DeltaFits ==
  ASSUME NEW a \in Nat, NEW b \in Nat
  PROVE  /\ Delta(a, b) \in 0 .. DeltaMax
         /\ b <= a /\ a - b <= DeltaMax => Delta(a, b) = a - b
<1>1. DeltaMax \in Nat
  BY RecorderAssumption
<1>2. \A x \in Int : x % (DeltaMax + 1) \in 0 .. DeltaMax
  BY <1>1
<1>3. \A x \in 0 .. DeltaMax : x % (DeltaMax + 1) = x
  BY <1>1
<1> QED
  BY <1>1, <1>2, <1>3 DEF Delta

(* A spacer advances by at least 1 and at most the gap. *)
LEMMA SpacerEffect ==
  ASSUME TypeOK, Spacer
  PROVE  \E adv \in 1 .. SpacerMax :
           /\ adv <= Gap /\ Gap = call.target - lastEmittedMs
           /\ file' = Append(file, Frame("spacer", 0, <<>>, adv, lastEmittedMs + adv))
           /\ lastEmittedMs' = lastEmittedMs + adv
<1>1. /\ DeltaMax \in Nat /\ SpacerMax \in Nat /\ DeltaMax < SpacerMax
      /\ call.target \in Nat /\ lastEmittedMs \in Nat
  BY RecorderAssumption DEF TypeOK
<1>2. Gap \in Nat /\ Gap > DeltaMax
  BY <1>1 DEF Spacer, SpacerOf, Gap
<1>3. Gap = call.target - lastEmittedMs
  BY <1>1, <1>2 DEF Gap
<1> DEFINE adv == Min({Gap, SpacerMax})
<1>4. adv \in 1 .. SpacerMax /\ adv <= Gap
  BY <1>1, <1>2, MinOfTwo
<1>5. /\ file' = Append(file, Frame("spacer", 0, <<>>, adv, lastEmittedMs + adv))
      /\ lastEmittedMs' = lastEmittedMs + adv
  BY DEF Spacer, SpacerOf
<1> HIDE DEF adv
<1> QED
  BY <1>3, <1>4, <1>5

(* A chain of output frames loses nothing. *)
LEMMA CutInTwo ==
  ASSUME NEW s \in Seq(Nat), NEW n \in Nat, n <= Len(s)
  PROVE  s = SubSeq(s, 1, n) \o SubSeq(s, n + 1, Len(s))
<1> DEFINE a == SubSeq(s, 1, n)
           b == SubSeq(s, n + 1, Len(s))
<1>0. Len(s) \in Nat
  OBVIOUS
<1>1. a \in Seq(Nat) /\ Len(a) = n /\ \A i \in 1 .. n : a[i] = s[i]
  OBVIOUS
<1>2. /\ b \in Seq(Nat) /\ Len(b) = Len(s) - n
      /\ \A i \in 1 .. Len(s) - n : b[i] = s[n + i]
  <2>1. n + 1 \in 1 .. Len(s) + 1 /\ Len(s) \in n .. Len(s)
    BY <1>0
  <2>2. b \in Seq(Nat) /\ Len(b) = Len(s) - n
    BY <1>0, <2>1
  <2>3. ASSUME NEW i \in 1 .. Len(s) - n PROVE b[i] = s[n + i]
    BY <1>0, <2>1
  <2> QED
    BY <2>2, <2>3
<1> HIDE DEF a, b
<1>3. /\ a \o b \in Seq(Nat) /\ Len(a \o b) = Len(s)
      /\ \A i \in 1 .. Len(s) : (a \o b)[i] = IF i <= n THEN a[i] ELSE b[i - n]
  <2>1. /\ a \o b \in Seq(Nat) /\ Len(a \o b) = Len(a) + Len(b)
        /\ \A i \in 1 .. Len(a) + Len(b) :
              (a \o b)[i] = IF i <= Len(a) THEN a[i] ELSE b[i - Len(a)]
    BY <1>1, <1>2, ConcatProperties, Zenon
  <2>2. Len(a) = n /\ Len(a) + Len(b) = Len(s)
    BY <1>0, <1>1, <1>2
  <2> QED
    BY <2>1, <2>2, Zenon
<1>4. \A i \in 1 .. Len(s) : s[i] = (a \o b)[i]
  <2> SUFFICES ASSUME NEW i \in 1 .. Len(s) PROVE s[i] = (a \o b)[i]
    OBVIOUS
  <2>1. CASE i <= n
    BY <1>0, <1>1, <1>3, <2>1
  <2>2. CASE i > n
    <3>1. i - n \in 1 .. Len(s) - n /\ n + (i - n) = i
      BY <1>0, <2>2
    <3>2. b[i - n] = s[n + (i - n)]
      BY <1>2, <3>1
    <3> QED
      BY <1>0, <1>3, <2>2, <3>1, <3>2
  <2>3. i <= n \/ i > n
    BY <1>0
  <2> QED
    BY <2>1, <2>2, <2>3, Zenon
<1>5. s = a \o b
  BY <1>3, <1>4, SeqEqual, Zenon
<1> QED
  BY <1>5 DEF a, b

(* One frame of a chain: the payload and what remains of the buffer. *)
LEMMA OutputEffect ==
  ASSUME TypeOK, EmitOutput
  PROVE  \E data \in Seq(Nat), rest \in Seq(Nat), delta \in 0 .. DeltaMax :
           /\ call.buf = data \o rest
           /\ call.buf # <<>> => data # <<>>
           /\ \A h, t : Timed(h, t, call.buf) => Timed(h, t, data) /\ Timed(h, t, rest)
           /\ delta = IF call.first THEN Delta(call.target, lastEmittedMs) ELSE 0
           /\ file' = Append(file, Frame("output", delta, data, 0, call.target))
           /\ \/ /\ rest = <<>> /\ lastEmittedMs' = call.target /\ AfterFlush
              \/ /\ call' = [call EXCEPT !.buf = rest, !.first = FALSE]
                 /\ rest # <<>> /\ UNCHANGED <<w, lastEmittedMs, pending>>
<1>1. /\ DeltaMax \in Nat /\ PayloadMax \in Nat /\ PayloadMax > 0
      /\ call.target \in Nat /\ lastEmittedMs \in Nat /\ call.buf \in Seq(Nat)
  BY RecorderAssumption DEF TypeOK
<1> DEFINE n == Min({Len(call.buf), PayloadMax})
           data == SubSeq(call.buf, 1, n)
           rest == SubSeq(call.buf, n + 1, Len(call.buf))
           delta == IF call.first THEN Delta(call.target, lastEmittedMs) ELSE 0
<1>2. n \in Nat /\ n <= Len(call.buf) /\ Len(call.buf) \in Nat
  BY <1>1, MinOfTwo
<1>3. delta \in 0 .. DeltaMax
  <2>1. Delta(call.target, lastEmittedMs) \in 0 .. DeltaMax
    BY <1>1, DeltaFits, Zenon
  <2>2. 0 \in 0 .. DeltaMax
    BY <1>1
  <2> QED
    BY <2>1, <2>2, Zenon
<1>4. /\ file' = Append(file, Frame("output", delta, data, 0, call.target))
      /\ \/ /\ rest = <<>> /\ lastEmittedMs' = call.target /\ AfterFlush
         \/ /\ call' = [call EXCEPT !.buf = rest, !.first = FALSE]
            /\ rest # <<>> /\ UNCHANGED <<w, lastEmittedMs, pending>>
  BY Zenon DEF EmitOutput
<1>9. call.buf # <<>> => n > 0
  <2>1. call.buf # <<>> => Len(call.buf) > 0
    BY <1>1
  <2> QED
    BY <1>1, <2>1, MinOfTwo
<1> HIDE DEF n
<1>5. data \in Seq(Nat) /\ rest \in Seq(Nat)
  BY <1>1, <1>2
<1>10. call.buf # <<>> => data # <<>>
  <2>1. 1 <= n + 1 /\ n <= Len(call.buf) => Len(data) = n
    BY <1>1, <1>2
  <2> QED
    BY <1>2, <1>9, <2>1
<1>6. \A h, t : Timed(h, t, call.buf) => Timed(h, t, data) /\ Timed(h, t, rest)
  <2>1. 1 <= n + 1 /\ n + 1 <= Len(call.buf) + 1 /\ n + 1 \in Nat /\ Len(call.buf) <= Len(call.buf)
    BY <1>2
  <2> QED
    BY <1>1, <1>2, <2>1, TimedPart
<1>7. delta = IF call.first THEN Delta(call.target, lastEmittedMs) ELSE 0
  OBVIOUS
<1>8. call.buf = data \o rest
  BY <1>1, <1>2, CutInTwo
<1> HIDE DEF data, rest, delta
<1> QED
  BY <1>3, <1>4, <1>5, <1>6, <1>7, <1>8, <1>10

(* The decoder's position and clock. *)
ReaderSet == [st : {"start", "loop", "eof", "error", "garbage"}, pos : Nat, cumMs : Nat,
              shown : [data : Seq(Nat), at : Nat]]

(* The initial state has the types. *)
LEMMA TypeInit == Init => TypeOK
<1> SUFFICES ASSUME Init PROVE TypeOK
  OBVIOUS
<1>1. magic \in BOOLEAN /\ damaged \in BOOLEAN
  BY Zenon DEF Init
<1>2. call \in CallSet /\ pending \in PendingSet
  BY IdleTyped DEF Init
<1>3. file \in Seq(FrameSet) /\ when \in Seq(Record)
  BY DEF Init
<1>4. reader \in ReaderSet
  BY DEF Init, NotRead, ReaderSet
<1>5. clock \in Nat /\ lastEmittedMs \in Nat /\ w \in {"none", "open", "closed", "crashed"}
  BY DEF Init
<1> QED
  BY <1>1, <1>2, <1>3, <1>4, <1>5, Zenon DEF TypeOK, CallSet, PendingSet, Record, ReaderSet

(* The type invariant, part by part, after a step ... *)
LEMMA TypeAfter ==
  ASSUME call' \in CallSet, pending' \in PendingSet,
         file' \in Seq(FrameSet), when' \in Seq(Record),
         clock' \in Nat, lastEmittedMs' \in Nat,
         w' \in {"none", "open", "closed", "crashed"},
         magic' \in BOOLEAN, damaged' \in BOOLEAN, reader' \in ReaderSet
  PROVE  TypeOK'
BY Zenon DEF TypeOK, CallSet, PendingSet, ReaderSet, Record

(* ... and before it. *)
LEMMA TypeNow ==
  ASSUME TypeOK
  PROVE  /\ call \in CallSet /\ pending \in PendingSet
         /\ file \in Seq(FrameSet) /\ when \in Seq(Record)
         /\ clock \in Nat /\ lastEmittedMs \in Nat
         /\ w \in {"none", "open", "closed", "crashed"}
         /\ magic \in BOOLEAN /\ damaged \in BOOLEAN /\ reader \in ReaderSet
BY Zenon DEF TypeOK, CallSet, PendingSet, ReaderSet, Record

(* A frame more. *)
LEMMA AppendTyped ==
  ASSUME NEW fl \in Seq(FrameSet), NEW f \in FrameSet
  PROVE  Append(fl, f) \in Seq(FrameSet)
OBVIOUS

(* What Write changes: the bytes are buffered, or a flush starts. *)
LEMMA WriteEffect ==
  ASSUME TypeOK, NEW n \in 1 .. MaxItems, Write(n)
  PROVE  /\ n \in Nat /\ FlooredBucket \in Nat
         /\ Items("byte", n) \in Seq(Record) /\ NewItems(n) \in Seq(Nat)
         /\ when' = when \o Items("byte", n) /\ when' \in Seq(Record)
         /\ \/ /\ pending.has /\ FlooredBucket # pending.bucket
              /\ StartFlush("write", NewItems(n), FlooredBucket)
            \/ /\ ~(pending.has /\ FlooredBucket # pending.bucket)
              /\ pending' = Buffer(NewItems(n), FlooredBucket) /\ call' = call
         /\ w = "open" /\ call = Idle
         /\ UNCHANGED <<clock, w, lastEmittedMs, magic, file, damaged, reader>>
<1>1. clock \in Nat /\ lastEmittedMs \in Nat /\ n \in Nat
  BY RecorderAssumption DEF TypeOK
<1>2. Bucket(clock) \in Nat
  BY <1>1, BucketBounds
<1>3. FlooredBucket \in Nat
  BY <1>1, <1>2 DEF FlooredBucket
<1>4. /\ Items("byte", n) \in Seq(Record) /\ NewItems(n) \in Seq(Nat)
      /\ when \o Items("byte", n) \in Seq(Record)
  <2>1. ItemAt([kind |-> "byte", at |-> clock], clock)
    BY <1>1, RecorderAssumption DEF ItemAt
  <2> QED
    BY <1>1, <2>1, NewItemsTimed
<1>5. when' = when \o Items("byte", n)
  BY DEF Write, WriteIn
<1> QED
  BY <1>1, <1>3, <1>4, <1>5, Zenon DEF Write, WriteIn

(* Write keeps the types. *)
LEMMA WriteTyped ==
  ASSUME TypeOK, NEW n \in 1 .. MaxItems, Write(n)
  PROVE  TypeOK'
<1>1. call' \in CallSet /\ pending' \in PendingSet
  BY TypeNow, IdleTyped, WriteEffect, FlushTyped, BufferTyped
<1> QED
  BY <1>1, WriteEffect, TypeNow, TypeAfter

(* What reading the clock for a resize changes. *)
LEMMA StampEffect ==
  ASSUME TypeOK, StampResize
  PROVE  /\ Items("resize", 1) \in Seq(Record) /\ NewItems(1) \in Seq(Nat)
         /\ when' = when \o Items("resize", 1) /\ when' \in Seq(Record)
         /\ Timed(when', clock, NewItems(1))
         /\ call' \in CallSet /\ call'.pc = "bridgeResize" /\ call'.data = NewItems(1)
         /\ call'.target = clock /\ call'.op = call.op
<1>1. clock \in Nat /\ call \in CallSet
  BY DEF TypeOK, CallSet
<1>2. ItemAt([kind |-> "resize", at |-> clock], clock)
  BY <1>1 DEF ItemAt
<1>3. /\ Items("resize", 1) \in Seq(Record) /\ NewItems(1) \in Seq(Nat)
      /\ when \o Items("resize", 1) \in Seq(Record)
      /\ Timed(when \o Items("resize", 1), clock, NewItems(1))
  BY <1>1, <1>2, NewItemsTimed
<1>4. when' = when \o Items("resize", 1)
  BY DEF StampResize
<1> DEFINE d == NewItems(1)
<1>5. call' = [call EXCEPT !.pc = "bridgeResize", !.data = d, !.target = clock] /\ d \in Seq(Nat)
  BY <1>3 DEF StampResize
<1> HIDE DEF d
<1>6. /\ call' \in CallSet /\ call'.pc = "bridgeResize" /\ call'.data = d
      /\ call'.target = clock /\ call'.op = call.op
  BY <1>1, <1>5 DEF CallSet, PCs
<1> QED
  BY <1>3, <1>4, <1>6 DEF d

(* What leaving the loop of bridgeIdleLocked changes. *)
LEMMA BridgedEffect ==
  ASSUME TypeOK, Bridged
  PROVE  /\ call' \in CallSet /\ call'.data = call.data /\ call'.op = call.op
         /\ call'.target = call.target /\ call'.buf = call.buf /\ call'.first = call.first
         /\ call'.bucket = call.bucket
         /\ call'.pc = IF call.pc = "bridgeOutput" THEN "output" ELSE "resize"
<1>1. call \in CallSet
  BY DEF TypeOK, CallSet
<1> DEFINE p == IF call.pc = "bridgeOutput" THEN "output" ELSE "resize"
<1>2. call' = [call EXCEPT !.pc = p] /\ p \in PCs
  BY DEF Bridged, PCs
<1> HIDE DEF p
<1>3. /\ call' \in CallSet /\ call'.data = call.data /\ call'.op = call.op
      /\ call'.target = call.target /\ call'.buf = call.buf /\ call'.first = call.first
      /\ call'.bucket = call.bucket /\ call'.pc = p
  BY <1>1, <1>2 DEF CallSet
<1> QED
  BY <1>3 DEF p

(* What a frame changes that is not the last of its chain. *)
LEMMA MoreEffect ==
  ASSUME call \in CallSet, NEW rest \in Seq(Nat),
         call' = [call EXCEPT !.buf = rest, !.first = FALSE]
  PROVE  /\ call' \in CallSet /\ call'.data = call.data /\ call'.op = call.op
         /\ call'.target = call.target /\ call'.buf = rest /\ ~call'.first
         /\ call'.bucket = call.bucket /\ call'.pc = call.pc
BY DEF CallSet

(* What the caller of flushPendingLocked does next. *)
LEMMA AfterEffect ==
  ASSUME call \in CallSet, pending \in PendingSet, AfterFlush
  PROVE  /\ call' \in CallSet /\ pending' \in PendingSet
         /\ call'.pc \in {"idle", "stamp"} /\ ~call'.first
         /\ call.op = "write" => call'.pc = "idle" /\ pending' = Buffer(call.data, call.bucket)
         /\ call.op # "write" => pending' = pending
         /\ w' = IF call.op = "close" THEN "closed" ELSE w
<1>1. call.data \in Seq(Nat) /\ call.bucket \in Nat
  BY DEF CallSet
<1>2. pending' = IF call.op = "write" THEN Buffer(call.data, call.bucket) ELSE pending
  BY DEF AfterFlush
<1>3. Buffer(call.data, call.bucket) \in PendingSet
  BY <1>1, BufferTyped
<1>4. \/ call.op = "resize" /\ call' = [Idle EXCEPT !.pc = "stamp", !.op = "resize"]
      \/ call.op # "resize" /\ call' = Idle
  BY DEF AfterFlush
<1>5. /\ call' \in CallSet /\ call'.pc \in {"idle", "stamp"} /\ ~call'.first
      /\ call.op = "write" => call'.pc = "idle"
  BY <1>4, IdleTyped
<1>6. w' = IF call.op = "close" THEN "closed" ELSE w
  BY DEF AfterFlush
<1> QED
  BY <1>2, <1>3, <1>5, <1>6

(* The decoder is within the file, and there is no file before NewRecorder. *)
InFile == reader.pos <= Len(file) /\ (w = "none" => file = <<>>)

(* What the decoder has after the prelude. *)
LEMMA PreludeEffect ==
  ASSUME TypeOK, ReadPrelude
  PROVE  /\ reader' \in ReaderSet
         /\ \/ reader'.st = "error" /\ reader'.shown = reader.shown /\ reader'.pos = reader.pos
            \/ /\ reader'.st = "loop" /\ reader'.pos = 1 /\ reader'.cumMs = reader.cumMs
               /\ Len(file) > 0 /\ file[1].type = "resize"
               /\ reader'.shown.data = file[1].data /\ reader'.shown.at = 0
<1>1. reader \in ReaderSet /\ file \in Seq(FrameSet)
  BY TypeNow
<1>2. CASE reader' = [reader EXCEPT !.st = "error"]
  BY <1>1, <1>2 DEF ReaderSet
<1>3. CASE /\ file # <<>> /\ Head(file).type = "resize"
           /\ reader' = [reader EXCEPT !.st = "loop", !.pos = 1,
                                       !.shown = [data |-> Head(file).data, at |-> 0]]
  <2>1. Len(file) > 0 /\ Head(file) = file[1] /\ file[1] \in FrameSet
    BY <1>1, <1>3
  <2> DEFINE d == file[1].data
  <2>2. d \in Seq(Nat)
    BY <2>1 DEF FrameSet
  <2>3. reader' = [reader EXCEPT !.st = "loop", !.pos = 1, !.shown = [data |-> d, at |-> 0]]
    BY <1>3, <2>1
  <2> HIDE DEF d
  <2>4. /\ reader' \in ReaderSet /\ reader'.st = "loop" /\ reader'.pos = 1
        /\ reader'.cumMs = reader.cumMs /\ reader'.shown.data = d /\ reader'.shown.at = 0
    BY <1>1, <2>2, <2>3 DEF ReaderSet
  <2> QED
    BY <1>3, <2>1, <2>4 DEF d
<1> QED
  BY <1>2, <1>3 DEF ReadPrelude

(* The fields of a decoder that moves on. *)
LEMMA ReaderMoves ==
  ASSUME reader \in ReaderSet, NEW p \in Nat, NEW c \in Nat, NEW sh \in [data : Seq(Nat), at : Nat],
         reader' = [reader EXCEPT !.pos = p, !.cumMs = c, !.shown = sh]
  PROVE  /\ reader' \in ReaderSet /\ reader'.st = reader.st /\ reader'.pos = p
         /\ reader'.cumMs = c /\ reader'.shown = sh
BY DEF ReaderSet

(* What the decoder has after a frame. *)
LEMMA NextFrameEffect ==
  ASSUME TypeOK, InFile, NextFrame
  PROVE  /\ reader' \in ReaderSet
         /\ \/ reader'.st = "garbage" /\ reader'.shown = reader.shown /\ reader'.pos = reader.pos
            \/ /\ reader.st = "loop" /\ reader'.st = "loop" /\ reader'.pos = reader.pos + 1
               /\ reader.pos + 1 \in 1 .. Len(file) /\ file[reader.pos + 1].type # "torn"
               /\ reader'.cumMs = reader.cumMs + Advance(file[reader.pos + 1])
               /\ \/ file[reader.pos + 1].type = "spacer" /\ reader'.shown = reader.shown
                  \/ /\ file[reader.pos + 1].type # "spacer"
                     /\ reader'.shown.data = file[reader.pos + 1].data
                     /\ reader'.shown.at = reader'.cumMs
<1>1. reader \in ReaderSet /\ file \in Seq(FrameSet)
  BY TypeNow
<1>2. reader.pos + 1 \in 1 .. Len(file)
  BY <1>1 DEF NextFrame, AtEnd, InFile, ReaderSet
<1> DEFINE f == file[reader.pos + 1]
           cum == reader.cumMs + (IF f.type = "spacer" THEN f.adv ELSE f.delta)
<1>3. f \in FrameSet
  BY <1>1, <1>2
<1>4. reader' = IF f.type = "torn" THEN [reader EXCEPT !.st = "garbage"]
                ELSE [reader EXCEPT !.pos = @ + 1, !.cumMs = cum,
                        !.shown = IF f.type = "spacer" THEN @ ELSE [data |-> f.data, at |-> cum]]
  BY DEF NextFrame
<1>5. reader.st = "loop"
  BY DEF NextFrame
<1> HIDE DEF f
<1>6. cum \in Nat /\ cum = reader.cumMs + Advance(f)
  BY <1>1, <1>3, RecorderAssumption DEF FrameSet, ReaderSet, Advance
<1> HIDE DEF cum
<1>7. CASE f.type = "torn"
  BY <1>1, <1>4, <1>7 DEF ReaderSet
<1>8. CASE f.type = "spacer"
  <2>1. reader' = [reader EXCEPT !.pos = reader.pos + 1, !.cumMs = cum, !.shown = reader.shown]
    BY <1>4, <1>8
  <2>2. reader.pos + 1 \in Nat /\ reader.shown \in [data : Seq(Nat), at : Nat]
    BY <1>1 DEF ReaderSet
  <2>3. /\ reader' \in ReaderSet /\ reader'.st = reader.st /\ reader'.pos = reader.pos + 1
        /\ reader'.cumMs = cum /\ reader'.shown = reader.shown
    BY <1>1, <1>6, <2>1, <2>2, ReaderMoves
  <2> QED
    BY <1>2, <1>5, <1>6, <1>8, <2>3 DEF f
<1>9. CASE f.type # "torn" /\ f.type # "spacer"
  <2>1. reader' = [reader EXCEPT !.pos = reader.pos + 1, !.cumMs = cum,
                                 !.shown = [data |-> f.data, at |-> cum]]
    BY <1>4, <1>9
  <2>2. reader.pos + 1 \in Nat /\ [data |-> f.data, at |-> cum] \in [data : Seq(Nat), at : Nat]
    BY <1>1, <1>3, <1>6 DEF FrameSet, ReaderSet
  <2>3. /\ reader' \in ReaderSet /\ reader'.st = reader.st /\ reader'.pos = reader.pos + 1
        /\ reader'.cumMs = cum /\ reader'.shown = [data |-> f.data, at |-> cum]
    BY <1>1, <1>6, <2>1, <2>2, ReaderMoves
  <2> QED
    BY <1>2, <1>5, <1>6, <1>9, <2>3 DEF f
<1> QED
  BY <1>7, <1>8, <1>9

(* What the decoder has at the end. *)
LEMMA EOFEffect ==
  ASSUME TypeOK, NextEOF
  PROVE  /\ reader' \in ReaderSet
         /\ reader.st = "loop" /\ reader'.st = "eof" /\ reader'.pos = reader.pos
         /\ reader'.cumMs = reader.cumMs /\ reader'.shown = reader.shown
<1>1. reader \in ReaderSet
  BY TypeNow
<1> QED
  BY <1>1 DEF ReaderSet, NextEOF

(* The frames on disk stay as they are. *)
LEMMA FileKept ==
  ASSUME TypeOK, InFile, [Next]_vars, NEW k \in 1 .. Len(file)
  PROVE  file'[k] = file[k] /\ k \in 1 .. Len(file')
<1>1. file \in Seq(FrameSet) /\ Len(file) \in Nat
  BY TypeNow
<1>2. \A f : /\ Len(Append(file, f)) = Len(file) + 1
             /\ Append(file, f)[k] = file[k]
  BY <1>1
<1>3. ~NewRecorder
  BY <1>1 DEF NewRecorder, InFile
<1>4. \/ file' = file
      \/ \E f : file' = Append(file, f)
  BY <1>3 DEF Next, NewRecorderFails, Write, WriteIn, RecordResize, StampResize, Close,
     Spacer, SpacerOf, Bridged, EmitOutput, EmitResize, WriteFails, Crash, Tick, ReadPrelude,
     NextFrame, NextEOF, vars, recVars
<1> QED
  BY <1>1, <1>2, <1>4

(* Every step keeps the types. *)
LEMMA TypeStep == TypeOK /\ InFile /\ [Next]_vars => TypeOK'
<1> SUFFICES ASSUME TypeOK, InFile, [Next]_vars PROVE TypeOK'
  OBVIOUS
<1>0. /\ call \in CallSet /\ pending \in PendingSet
      /\ file \in Seq(FrameSet) /\ when \in Seq(Record)
      /\ clock \in Nat /\ lastEmittedMs \in Nat
      /\ w \in {"none", "open", "closed", "crashed"}
      /\ magic \in BOOLEAN /\ damaged \in BOOLEAN /\ reader \in ReaderSet
  BY TypeNow
<1>a. call.target \in Nat /\ call.data \in Seq(Nat) /\ DeltaMax \in Nat /\ SpacerMax \in Nat
  BY <1>0, RecorderAssumption DEF CallSet
<1>1. CASE NewRecorder
  <2>1. file' = <<Prelude>> /\ when' = Items("resize", 1)
    BY <1>1 DEF NewRecorder
  <2>2. file' \in Seq(FrameSet)
    BY <2>1, SpecialFrames
  <2>3. ItemAt([kind |-> "resize", at |-> clock], clock)
    BY <1>0 DEF ItemAt
  <2>4. when' \in Seq(Record)
    BY <1>0, <2>1, <2>3, NewItemsTimed
  <2>5. w' = "open" /\ magic' \in BOOLEAN
    BY <1>1, Zenon DEF NewRecorder
  <2> QED
    BY <1>0, <1>1, <2>2, <2>4, <2>5, TypeAfter DEF NewRecorder
<1>2. CASE NewRecorderFails
  BY <1>0, <1>2, TypeAfter DEF NewRecorderFails
<1>3. CASE \E n \in 1 .. MaxItems : Write(n)
  BY <1>3, WriteTyped
<1>4. CASE RecordResize
  <2>1. call' \in CallSet /\ pending' \in PendingSet
    <3>1. CASE pending.has
      <4>1. StartFlush("resize", <<>>, 0) /\ <<>> \in Seq(Nat) /\ 0 \in Nat
        BY <1>4, <3>1 DEF RecordResize
      <4> QED
        BY <1>0, <4>1, FlushTyped
    <3>2. CASE ~pending.has
      BY <1>0, <1>4, <3>2, IdleTyped DEF RecordResize
    <3> QED
      BY <3>1, <3>2
  <2> QED
    BY <1>0, <1>4, <2>1, TypeAfter DEF RecordResize
<1>5. CASE StampResize
  BY <1>0, <1>5, StampEffect, TypeAfter DEF StampResize
<1>6. CASE Close
  <2>1. call' \in CallSet /\ pending' \in PendingSet /\ w' \in {w, "closed"}
    <3>1. CASE pending.has
      <4>1. StartFlush("close", <<>>, 0) /\ <<>> \in Seq(Nat) /\ 0 \in Nat /\ w' = w
        BY <1>6, <3>1 DEF Close
      <4> QED
        BY <1>0, <4>1, FlushTyped
    <3>2. CASE ~pending.has
      BY <1>0, <1>6, <3>2 DEF Close
    <3> QED
      BY <3>1, <3>2
  <2> QED
    BY <1>0, <1>6, <2>1, TypeAfter DEF Close
<1>7. CASE Spacer
  <2>1. PICK adv \in 1 .. SpacerMax :
           /\ file' = Append(file, Frame("spacer", 0, <<>>, adv, lastEmittedMs + adv))
           /\ lastEmittedMs' = lastEmittedMs + adv
    BY <1>7, SpacerEffect
  <2>2. /\ lastEmittedMs + adv \in Nat /\ adv \in 0 .. SpacerMax
        /\ 0 \in 0 .. DeltaMax /\ <<>> \in Seq(Nat)
    BY <1>0, <1>a
  <2>3. file' \in Seq(FrameSet)
    BY <1>0, <2>1, <2>2, FrameTyped, AppendTyped
  <2> QED
    BY <1>0, <1>7, <2>1, <2>2, <2>3, TypeAfter DEF Spacer, SpacerOf
<1>8. CASE Bridged
  BY <1>0, <1>8, BridgedEffect, TypeAfter DEF Bridged
<1>9. CASE EmitOutput
  <2>1. PICK data \in Seq(Nat), rest \in Seq(Nat), delta \in 0 .. DeltaMax :
           /\ file' = Append(file, Frame("output", delta, data, 0, call.target))
           /\ \/ /\ lastEmittedMs' = call.target /\ AfterFlush
              \/ /\ call' = [call EXCEPT !.buf = rest, !.first = FALSE]
                 /\ rest # <<>> /\ UNCHANGED <<w, lastEmittedMs, pending>>
    BY <1>9, OutputEffect
  <2>2. file' \in Seq(FrameSet)
    <3>1. 0 \in 0 .. SpacerMax
      BY <1>a
    <3> QED
      BY <1>0, <1>a, <2>1, <3>1, FrameTyped, AppendTyped
  <2>3. CASE AfterFlush /\ lastEmittedMs' = call.target
    BY <1>0, <1>a, <1>9, <2>2, <2>3, AfterEffect, TypeAfter DEF EmitOutput
  <2>4. CASE /\ call' = [call EXCEPT !.buf = rest, !.first = FALSE]
             /\ UNCHANGED <<w, lastEmittedMs, pending>>
    <3>1. call' \in CallSet
      BY <1>0, <2>4, MoreEffect
    <3> QED
      BY <1>0, <1>9, <2>2, <2>4, <3>1, TypeAfter DEF EmitOutput
  <2> QED
    BY <2>1, <2>3, <2>4
<1>10. CASE EmitResize
  <2>1. Delta(call.target, lastEmittedMs) \in 0 .. DeltaMax
    BY <1>0, <1>a, DeltaFits
  <2>2. 0 \in 0 .. SpacerMax
    BY <1>a
  <2>3. file' = Append(file, Frame("resize", Delta(call.target, lastEmittedMs), call.data,
                                   0, call.target))
    BY <1>10 DEF EmitResize
  <2>4. file' \in Seq(FrameSet)
    BY <1>0, <1>a, <2>1, <2>2, <2>3, FrameTyped, AppendTyped
  <2> QED
    BY <1>0, <1>a, <1>10, <2>4, IdleTyped, TypeAfter DEF EmitResize
<1>11. CASE WriteFails
  <2>1. file' \in Seq(FrameSet)
    BY <1>0, <1>11, SpecialFrames, AppendTyped DEF WriteFails
  <2>2. damaged' \in BOOLEAN
    BY <1>11, Zenon DEF WriteFails
  <2> QED
    BY <1>0, <1>11, <2>1, <2>2, IdleTyped, TypeAfter DEF WriteFails
<1>12. CASE Crash
  <2>1. file' \in Seq(FrameSet)
    <3>1. file' = file \/ file' = Append(file, Torn)
      BY <1>12 DEF Crash
    <3> QED
      BY <1>0, <3>1, SpecialFrames, AppendTyped
  <2> QED
    BY <1>0, <1>12, <2>1, TypeAfter DEF Crash
<1>13. CASE Tick
  BY <1>0, <1>13, TypeAfter DEF Tick
<1>14. CASE ReadPrelude \/ NextFrame \/ NextEOF
  <2>1. UNCHANGED recVars
    BY <1>14 DEF ReadPrelude, NextFrame, NextEOF
  <2>2. reader' \in ReaderSet
    BY <1>14, PreludeEffect, NextFrameEffect, EOFEffect
  <2> QED
    BY <1>0, <2>1, <2>2, TypeAfter DEF recVars
<1>15. CASE UNCHANGED vars
  BY <1>0, <1>15, TypeAfter DEF vars, recVars
<1> QED
  BY <1>1, <1>2, <1>3, <1>4, <1>5, <1>6, <1>7, <1>8, <1>9, <1>10, <1>11, <1>12, <1>13,
     <1>14, <1>15 DEF Next

(* Every step keeps InFile. *)
LEMMA InFileStep == TypeOK /\ InFile /\ [Next]_vars => InFile'
<1> SUFFICES ASSUME TypeOK, InFile, [Next]_vars PROVE InFile'
  OBVIOUS
<1>1. file \in Seq(FrameSet) /\ file' \in Seq(FrameSet) /\ reader.pos \in Nat /\ reader'.pos \in Nat
  BY TypeStep, TypeNow DEF ReaderSet, TypeOK
<1>2. Len(file) <= Len(file') /\ Len(file) \in Nat /\ Len(file') \in Nat
  <2>1. CASE Len(file) = 0
    BY <1>1, <2>1
  <2>2. CASE Len(file) > 0
    <3>1. Len(file) \in 1 .. Len(file)
      BY <1>1, <2>2
    <3> QED
      BY <1>1, <3>1, FileKept
  <2> QED
    BY <1>1, <2>1, <2>2
<1>3. reader'.pos <= Len(file)
  <2>1. CASE ReadPrelude
    BY <1>1, <2>1, PreludeEffect DEF InFile
  <2>2. CASE NextFrame
    BY <1>1, <2>2, NextFrameEffect DEF InFile
  <2>3. CASE NextEOF
    BY <2>3, EOFEffect DEF InFile
  <2>4. CASE UNCHANGED reader
    BY <2>4 DEF InFile
  <2> QED
    BY <2>1, <2>2, <2>3, <2>4 DEF Next, NewRecorder, NewRecorderFails, Write, WriteIn,
       RecordResize, StampResize, Close, Spacer, SpacerOf, Bridged, EmitOutput, EmitResize,
       WriteFails, Crash, Tick, vars, recVars
<1>4. w' = "none" => file' = <<>>
  <2>1. w' = "none" => w = "none"
    <3>1. CASE EmitOutput
      BY <3>1 DEF EmitOutput, AfterFlush
    <3> QED
      BY <3>1 DEF Next, NewRecorder, NewRecorderFails, Write, WriteIn, RecordResize,
         StampResize, Close, Spacer, SpacerOf, Bridged, EmitResize, WriteFails, Crash, Tick,
         ReadPrelude, NextFrame, NextEOF, vars, recVars
  <2>2. w' = "none" => file' = file
    BY DEF Next, NewRecorder, NewRecorderFails, Write, WriteIn, RecordResize, StampResize,
       Close, Spacer, SpacerOf, Bridged, EmitOutput, AfterFlush, EmitResize, WriteFails, Crash,
       Tick, ReadPrelude, NextFrame, NextEOF, vars, recVars
  <2> QED
    BY <2>1, <2>2 DEF InFile
<1> QED
  BY <1>1, <1>2, <1>3, <1>4 DEF InFile

(* The time of the last frame on disk: lastEmittedMs is stored only after   *)
(* the last frame of a chain of output frames.                              *)
LastAt == IF call.pc = "output" /\ ~call.first THEN call.target ELSE lastEmittedMs

(* The file, and how far the recorder is with it. *)
FileInv ==
  /\ Chain(file, when)
  /\ w = "none" => /\ when = <<>> /\ call.pc = "idle" /\ ~pending.has
                   /\ clock = 0 /\ lastEmittedMs = 0
  /\ w = "open" => Len(file) > 0 /\ file[Len(file)].at = LastAt

(* What is buffered belongs to one bucket, which later frames have not      *)
(* passed.                                                                  *)
PendingInv ==
  pending.has => /\ call.pc = "idle"
                 /\ OpenBucket(pending.bucket, lastEmittedMs)
                 /\ Timed(when, pending.bucket, pending.buf)

(* The call under way: its times lie between the last frame and the clock,  *)
(* a frame is written only once its delta fits, and what it holds can be    *)
(* shown at its times.                                                      *)
CallInv ==
  /\ lastEmittedMs <= clock
  /\ call.pc \notin {"idle", "stamp"} => lastEmittedMs <= call.target /\ call.target <= clock
  /\ call.pc \in {"output", "resize"} => call.target - lastEmittedMs <= DeltaMax
  /\ call.pc = "bridgeOutput" => call.first
  /\ call.pc \in {"bridgeOutput", "output"} => Timed(when, call.target, call.buf)
  /\ call.pc \in {"bridgeOutput", "output"} /\ call.op = "write" =>
        OpenBucket(call.bucket, call.target) /\ Timed(when, call.bucket, call.data)
  /\ call.pc \in {"bridgeResize", "resize"} => Timed(when, call.target, call.data)

(* The decoder's sum is the time of the frame it has read last. *)
ReaderInv ==
  /\ reader.st = "start" => reader.pos = 0 /\ reader.cumMs = 0
  /\ reader.st \in {"loop", "eof"} =>
        reader.pos \in 1 .. Len(file) /\ reader.cumMs = file[reader.pos].at
  /\ Timed(when, reader.shown.at, reader.shown.data)

(* All of it, which holds as long as no write failed. *)
CleanInv == FileInv /\ PendingInv /\ CallInv /\ ReaderInv
(* The inductive strengthening of DecodedTime. *)
RecorderInv == TypeOK /\ InFile /\ (~damaged => CleanInv)

(* An empty payload. *)
LEMMA NothingTimed == \A h, t : Timed(h, t, <<>>)
BY DEF Timed

(* The initial state. *)
LEMMA InitInv == Init => RecorderInv
<1> SUFFICES ASSUME Init PROVE RecorderInv
  OBVIOUS
<1>1. TypeOK
  BY TypeInit
<1>2. /\ file = <<>> /\ when = <<>> /\ call = Idle /\ pending = NoPending /\ clock = 0
      /\ lastEmittedMs = 0 /\ w = "none" /\ Len(file) = 0
  BY DEF Init
<1>3. reader.st = "start" /\ reader.pos = 0 /\ reader.cumMs = 0 /\ reader.shown.data = <<>>
  BY DEF Init, NotRead
<1>4. Chain(file, when)
  BY <1>2 DEF Chain
<1>5. CleanInv
  BY <1>2, <1>3, <1>4, IdleTyped, NothingTimed
     DEF CleanInv, FileInv, PendingInv, CallInv, ReaderInv
<1> QED
  BY <1>1, <1>2, <1>3, <1>5 DEF RecorderInv, InFile

(* Every step keeps what Timed says about earlier items ... *)
LEMMA WhenKept ==
  ASSUME TypeOK, w = "none" => when = <<>>, [Next]_vars, NEW t, NEW s, Timed(when, t, s)
  PROVE  Timed(when', t, s)
<1>1. when \in Seq(Record) /\ clock \in Nat
  BY TypeNow
<1>2. CASE NewRecorder
  <2>1. when = <<>>
    BY <1>2 DEF NewRecorder
  <2>2. Len(s) = 0 \/ 1 .. Len(s) = {}
    BY <2>1 DEF Timed
  <2> QED
    BY <2>2 DEF Timed
<1>3. CASE \E n \in 1 .. MaxItems : Write(n)
  BY <1>1, <1>3, WriteEffect, TimedGrows
<1>4. CASE StampResize
  BY <1>1, <1>4, StampEffect, TimedGrows
<1>5. CASE UNCHANGED when
  BY <1>5
<1> QED
  BY <1>2, <1>3, <1>4, <1>5 DEF Next, NewRecorderFails, RecordResize, Close, Spacer, SpacerOf,
     Bridged, EmitOutput, EmitResize, WriteFails, Crash, Tick, ReadPrelude, NextFrame, NextEOF,
     vars, recVars

(* ... and so what the frames on disk hold. *)
LEMMA ChainWhen ==
  ASSUME TypeOK, w = "none" => when = <<>>, [Next]_vars, Chain(file, when)
  PROVE  Chain(file, when')
<1>1. \A k \in 1 .. Len(file) : Timed(when', file[k].at, file[k].data)
  BY WhenKept DEF Chain
<1> QED
  BY <1>1 DEF Chain

(* Every step keeps the decoder's half. *)
LEMMA ReaderStep ==
  ASSUME RecorderInv, [Next]_vars, ~damaged
  PROVE  ReaderInv'
<1>1. TypeOK /\ InFile /\ CleanInv /\ Chain(file, when) /\ (w = "none" => when = <<>>)
  BY DEF RecorderInv, CleanInv, FileInv
<1>2. CASE reader' = reader
  <2>1. Timed(when', reader.shown.at, reader.shown.data)
    BY <1>1, WhenKept DEF CleanInv, ReaderInv
  <2>2. reader.st \in {"loop", "eof"} =>
          reader.pos \in 1 .. Len(file') /\ reader.cumMs = file'[reader.pos].at
    BY <1>1, FileKept DEF CleanInv, ReaderInv
  <2> QED
    BY <1>1, <1>2, <2>1, <2>2 DEF CleanInv, ReaderInv
<1>3. CASE ReadPrelude \/ NextFrame \/ NextEOF
  <2>1. file' = file /\ when' = when
    BY <1>3 DEF ReadPrelude, NextFrame, NextEOF, recVars
  <2>2. CASE ReadPrelude
    <3>1. reader.st = "start" /\ reader.cumMs = 0
      BY <1>1, <2>2 DEF ReadPrelude, CleanInv, ReaderInv
    <3>2. /\ Len(file) > 0 => 1 \in 1 .. Len(file) /\ file[1].at = 0
                              /\ Timed(when, file[1].at, file[1].data)
          /\ Timed(when, reader.shown.at, reader.shown.data)
      <4>1. file \in Seq(FrameSet)
        BY <1>1, TypeNow
      <4> QED
        BY <1>1, <4>1 DEF Chain, CleanInv, ReaderInv
    <3> QED
      BY <1>1, <2>1, <2>2, <3>1, <3>2, PreludeEffect DEF ReaderInv
  <2>3. CASE NextFrame
    <3>1. Timed(when, reader.shown.at, reader.shown.data)
      BY <1>1 DEF CleanInv, ReaderInv
    <3>2. reader.pos \in Nat
      BY <1>1, TypeNow DEF ReaderSet
    <3>3. ASSUME reader.st = "loop", reader.pos + 1 \in 1 .. Len(file),
                 file[reader.pos + 1].type # "torn"
          PROVE  /\ reader.cumMs + Advance(file[reader.pos + 1]) = file[reader.pos + 1].at
                 /\ Timed(when, file[reader.pos + 1].at, file[reader.pos + 1].data)
      <4>1. reader.pos \in 1 .. Len(file) /\ reader.cumMs = file[reader.pos].at
        BY <1>1, <3>3 DEF CleanInv, ReaderInv
      <4> DEFINE k == reader.pos + 1
      <4>2. k \in 2 .. Len(file) /\ k - 1 = reader.pos /\ k \in 1 .. Len(file)
        BY <3>2, <3>3, <4>1
      <4> HIDE DEF k
      <4>3. file[k].type # "torn" => file[k].at = file[k - 1].at + Advance(file[k])
        BY <1>1, <4>2 DEF Chain
      <4>4. Timed(when, file[k].at, file[k].data)
        BY <1>1, <4>2 DEF Chain
      <4> QED
        BY <3>3, <4>1, <4>2, <4>3, <4>4 DEF k
    <3> QED
      BY <1>1, <2>1, <2>3, <3>1, <3>3, NextFrameEffect DEF ReaderInv
  <2>4. CASE NextEOF
    BY <1>1, <2>1, <2>4, EOFEffect DEF CleanInv, ReaderInv
  <2> QED
    BY <1>3, <2>2, <2>3, <2>4
<1> QED
  BY <1>2, <1>3 DEF Next, NewRecorder, NewRecorderFails, Write, WriteIn,
       RecordResize, StampResize, Close, Spacer, SpacerOf, Bridged, EmitOutput, EmitResize,
       WriteFails, Crash, Tick, vars, recVars

(* The recorder's half of CleanInv. *)
RecInv == FileInv /\ PendingInv /\ CallInv

(* Write: the bucket is at or after the pending one, and still open. *)
LEMMA WriteStep ==
  ASSUME TypeOK, RecInv, NEW n \in 1 .. MaxItems, Write(n)
  PROVE  RecInv'
<1> DEFINE b == FlooredBucket
           d == NewItems(n)
<1>0. /\ call \in CallSet /\ pending \in PendingSet /\ clock \in Nat /\ lastEmittedMs \in Nat
      /\ BucketMs \in Nat /\ BucketMs > 0
  BY TypeNow, RecorderAssumption
<1>1. /\ clock' = clock /\ w' = w /\ lastEmittedMs' = lastEmittedMs /\ file' = file
      /\ w = "open" /\ call = Idle /\ call.pc = "idle" /\ b \in Nat /\ d \in Seq(Nat) /\ n \in Nat
      /\ when' = when \o Items("byte", n)
  BY WriteEffect, IdleTyped
<1>2. [Next]_vars
  BY DEF Next
<1>3. Chain(file', when')
  BY <1>1, <1>2, ChainWhen DEF RecInv, FileInv
<1>4. /\ Bucket(clock) \in Nat /\ Bucket(clock) <= clock /\ clock < Bucket(clock) + BucketMs
      /\ lastEmittedMs <= clock
  BY <1>0, BucketBounds DEF RecInv, CallInv
<1>5. OpenBucket(b, lastEmittedMs) /\ b <= clock /\ clock < b + BucketMs
  BY <1>0, <1>4 DEF OpenBucket, FlooredBucket
<1>6. pending.has => pending.bucket <= b /\ pending.bucket \in Nat
  BY <1>0, <1>4 DEF RecInv, PendingInv, OpenBucket, FlooredBucket, PendingSet
<1>7. Timed(when', b, d)
  <2>1. ItemAt([kind |-> "byte", at |-> clock], b)
    BY <1>5 DEF ItemAt
  <2> QED
    BY <1>1, <2>1, NewItemsTimed
<1>8. pending.has => Timed(when', pending.bucket, pending.buf)
  BY <1>1, <1>2, WhenKept DEF RecInv, PendingInv
<1>9. CASE /\ pending.has /\ b # pending.bucket
           /\ StartFlush("write", d, b)
  <2>1. /\ ~pending'.has /\ call'.pc = "bridgeOutput" /\ call'.op = "write" /\ call'.data = d
        /\ call'.bucket = b /\ call'.target = pending.bucket /\ call'.buf = pending.buf
        /\ call'.first
    BY <1>0, <1>1, <1>9, FlushTyped
  <2>2. OpenBucket(pending.bucket, lastEmittedMs)
    BY <1>9 DEF RecInv, PendingInv
  <2>3. lastEmittedMs <= pending.bucket /\ pending.bucket <= clock
    BY <2>2 DEF OpenBucket
  <2>4. /\ pending.bucket <= b /\ b <= clock /\ b <= Bucket(clock)
    BY <1>0, <1>5, <1>6, <1>9, <2>3 DEF OpenBucket
  <2>5. FileInv'
    BY <1>1, <1>3, <2>1 DEF RecInv, FileInv, LastAt
  <2>6. PendingInv'
    BY <2>1 DEF PendingInv
  <2>7. CallInv'
    BY <1>1, <1>4, <1>7, <1>8, <1>9, <2>1, <2>3, <2>4 DEF CallInv, OpenBucket, Bucket
  <2> QED
    BY <2>5, <2>6, <2>7 DEF RecInv
<1>10. CASE /\ ~(pending.has /\ b # pending.bucket)
            /\ pending' = Buffer(d, b) /\ call' = call
  <2>1. /\ pending'.has
        /\ pending'.bucket = b
        /\ pending'.buf = IF pending.has THEN pending.buf \o d ELSE d
    BY <1>0, <1>1, <1>10, BufferTyped
  <2>2. Timed(when', b, pending'.buf)
    <3>1. CASE pending.has
      <4>1. pending.bucket = b /\ pending.buf \in Seq(Nat)
        BY <1>0, <1>10, <3>1 DEF PendingSet
      <4> QED
        BY <1>1, <1>7, <1>8, <2>1, <3>1, <4>1, TimedJoin
    <3>2. CASE ~pending.has
      BY <1>7, <2>1, <3>2
    <3> QED
      BY <3>1, <3>2
  <2>3. FileInv'
    BY <1>1, <1>3, <1>10 DEF RecInv, FileInv, LastAt
  <2>4. PendingInv'
    BY <1>1, <1>5, <1>10, <2>1, <2>2 DEF PendingInv, OpenBucket, Bucket
  <2>5. CallInv'
    BY <1>1, <1>4, <1>10 DEF CallInv
  <2> QED
    BY <2>3, <2>4, <2>5 DEF RecInv
<1> QED
  BY <1>9, <1>10, WriteEffect

(* The flush of RecordResize and Close. *)
LEMMA FlushStep ==
  ASSUME TypeOK, RecInv, pending.has, NEW op \in {"resize", "close"},
         StartFlush(op, <<>>, 0),
         UNCHANGED <<clock, w, lastEmittedMs, file, when>>, w = "open"
  PROVE  RecInv'
<1>1. pending \in PendingSet /\ <<>> \in Seq(Nat) /\ clock \in Nat /\ lastEmittedMs \in Nat
  BY TypeNow
<1>2. /\ ~pending'.has /\ call'.pc = "bridgeOutput" /\ call'.op = op
      /\ call'.target = pending.bucket /\ call'.buf = pending.buf /\ call'.first
  BY <1>1, FlushTyped
<1>3. /\ lastEmittedMs <= pending.bucket /\ pending.bucket <= clock /\ call.pc = "idle"
      /\ Timed(when, pending.bucket, pending.buf)
  BY DEF RecInv, PendingInv, OpenBucket
<1>4. FileInv'
  BY <1>2, <1>3 DEF RecInv, FileInv, LastAt
<1>5. PendingInv' /\ CallInv'
  BY <1>2, <1>3 DEF RecInv, PendingInv, CallInv
<1> QED
  BY <1>4, <1>5 DEF RecInv

(* RecordResize. *)
LEMMA ResizeStep ==
  ASSUME TypeOK, RecInv, RecordResize
  PROVE  RecInv'
<1>1. UNCHANGED <<clock, w, lastEmittedMs, file, when>> /\ w = "open" /\ call.pc = "idle"
  BY IdleTyped DEF RecordResize
<1>2. CASE pending.has
  <2>1. StartFlush("resize", <<>>, 0)
    BY <1>2 DEF RecordResize
  <2> QED
    BY <1>1, <1>2, <2>1, FlushStep
<1>3. CASE ~pending.has
  <2>1. pending' = pending /\ call'.pc = "stamp"
    BY <1>3, IdleTyped DEF RecordResize
  <2> QED
    BY <1>1, <1>3, <2>1 DEF RecInv, FileInv, PendingInv, CallInv, LastAt
<1> QED
  BY <1>2, <1>3

(* Close. *)
LEMMA CloseStep ==
  ASSUME TypeOK, RecInv, Close
  PROVE  RecInv'
<1>1. UNCHANGED <<clock, lastEmittedMs, file, when>> /\ w = "open" /\ call.pc = "idle"
  BY IdleTyped DEF Close
<1>2. CASE pending.has
  <2>1. StartFlush("close", <<>>, 0) /\ w' = w
    BY <1>2 DEF Close
  <2> QED
    BY <1>1, <1>2, <2>1, FlushStep
<1>3. CASE ~pending.has
  <2>1. pending' = pending /\ call' = call /\ w' = "closed"
    BY <1>3 DEF Close
  <2> QED
    BY <1>1, <1>3, <2>1 DEF RecInv, FileInv, PendingInv, CallInv, LastAt
<1> QED
  BY <1>2, <1>3

(* The clock is not behind the last frame. *)
LEMMA StampStep ==
  ASSUME TypeOK, RecInv, StampResize
  PROVE  RecInv'
<1>1. [Next]_vars
  BY DEF Next
<1>2. /\ UNCHANGED <<clock, w, lastEmittedMs, pending, file>> /\ w = "open" /\ call.pc = "stamp"
      /\ clock \in Nat
  BY TypeNow DEF StampResize
<1>3. Chain(file', when')
  BY <1>1, <1>2, ChainWhen DEF RecInv, FileInv
<1>4. /\ Timed(when', clock, NewItems(1)) /\ call'.pc = "bridgeResize"
      /\ call'.data = NewItems(1) /\ call'.target = clock
  BY StampEffect
<1>5. FileInv'
  BY <1>2, <1>3, <1>4 DEF RecInv, FileInv, LastAt
<1>6. PendingInv'
  BY <1>2 DEF RecInv, PendingInv
<1>7. CallInv'
  BY <1>2, <1>4 DEF RecInv, CallInv
<1> QED
  BY <1>5, <1>6, <1>7 DEF RecInv

(* NewRecorder: the prelude is at time 0, when the clock is. *)
LEMMA NewStep ==
  ASSUME TypeOK, RecInv, NewRecorder
  PROVE  RecInv'
<1>1. /\ w' = "open" /\ file' = <<Prelude>> /\ when' = Items("resize", 1)
      /\ UNCHANGED <<clock, lastEmittedMs, pending, call>>
      /\ when = <<>> /\ call.pc = "idle" /\ ~pending.has /\ clock = 0 /\ lastEmittedMs = 0
  BY DEF NewRecorder, RecInv, FileInv
<1>2. Len(file') = 1 /\ file'[1] = Prelude
  BY <1>1
<1>3. Timed(when', 0, <<1>>)
  <2>1. ItemAt([kind |-> "resize", at |-> clock], 0)
    BY <1>1 DEF ItemAt
  <2>2. Timed(when \o Items("resize", 1), 0, NewItems(1)) /\ Items("resize", 1) \in Seq(Record)
    BY <2>1, NewItemsTimed
  <2>3. NewItems(1) = <<1>>
    BY <1>1 DEF NewItems
  <2>4. when \o Items("resize", 1) = when'
    BY <1>1, <2>2
  <2> QED
    BY <2>2, <2>3, <2>4
<1>4. Chain(file', when')
  <2>1. \A k \in 1 .. Len(file') : file'[k] = Prelude /\ k \notin 2 .. Len(file')
    BY <1>2
  <2> QED
    BY <1>2, <1>3, <2>1, SpecialFrames DEF Chain
<1> QED
  BY <1>1, <1>2, <1>4, SpecialFrames DEF RecInv, FileInv, PendingInv, CallInv, LastAt

(* A frame that advances from LastAt is the new end of the chain. *)
LEMMA GrowStep ==
  ASSUME TypeOK, RecInv, w = "open", NEW f \in FrameSet, file' = Append(file, f), when' = when,
         Timed(when, f.at, f.data), f.type # "torn" => f.at = LastAt + Advance(f)
  PROVE  Chain(file', when') /\ Len(file') > 0 /\ file'[Len(file')].at = f.at
<1>1. /\ file \in Seq(FrameSet) /\ Len(file) \in Nat /\ Len(file) > 0
      /\ file[Len(file)].at = LastAt /\ Chain(file, when)
  BY TypeNow DEF RecInv, FileInv
<1>2. /\ Len(file') = Len(file) + 1 /\ file'[Len(file) + 1] = f /\ Chain(file', when)
  BY <1>1, ChainGrows
<1> QED
  BY <1>1, <1>2

(* A spacer stays at or before the target. *)
LEMMA SpacerStep ==
  ASSUME TypeOK, RecInv, Spacer
  PROVE  RecInv'
<1>1. PICK adv \in 1 .. SpacerMax :
           /\ adv <= Gap /\ Gap = call.target - lastEmittedMs
           /\ file' = Append(file, Frame("spacer", 0, <<>>, adv, lastEmittedMs + adv))
           /\ lastEmittedMs' = lastEmittedMs + adv
  BY SpacerEffect
<1>2. /\ call \in CallSet /\ lastEmittedMs \in Nat /\ call.target \in Nat /\ clock \in Nat
      /\ DeltaMax \in Nat /\ SpacerMax \in Nat
  BY TypeNow, RecorderAssumption DEF CallSet
<1>3. /\ w = "open" /\ call.pc \in {"bridgeOutput", "bridgeResize"}
      /\ UNCHANGED <<clock, w, pending, call, when>>
  BY DEF Spacer, SpacerOf
<1> DEFINE f == Frame("spacer", 0, <<>>, adv, lastEmittedMs + adv)
<1>4. /\ lastEmittedMs + adv \in Nat /\ adv \in 0 .. SpacerMax /\ 0 \in 0 .. DeltaMax
      /\ <<>> \in Seq(Nat)
  BY <1>2
<1>5. f \in FrameSet /\ f.data = <<>> /\ f.at = lastEmittedMs + adv /\ Advance(f) = adv
  <2> DEFINE a == lastEmittedMs + adv
  <2>1. a \in Nat
    BY <1>4
  <2> HIDE DEF a
  <2>2. /\ Frame("spacer", 0, <<>>, adv, a) \in FrameSet
        /\ Frame("spacer", 0, <<>>, adv, a).data = <<>>
        /\ Frame("spacer", 0, <<>>, adv, a).at = a
        /\ Advance(Frame("spacer", 0, <<>>, adv, a)) = adv
    BY <1>4, <2>1 DEF Frame, FrameSet, Advance
  <2> QED
    BY <2>2 DEF a
<1>6. file' = Append(file, f)
  BY <1>1
<1> HIDE DEF f
<1>7. LastAt = lastEmittedMs
  BY <1>3 DEF LastAt
<1>8. Chain(file', when') /\ Len(file') > 0 /\ file'[Len(file')].at = lastEmittedMs + adv
  BY <1>3, <1>5, <1>6, <1>7, NothingTimed, GrowStep
<1>9. FileInv'
  BY <1>1, <1>3, <1>8 DEF FileInv, LastAt
<1>10. PendingInv'
  BY <1>3 DEF RecInv, PendingInv
<1>11. lastEmittedMs' <= call.target /\ call.target <= clock /\ lastEmittedMs' \in Nat
  BY <1>1, <1>2, <1>3 DEF RecInv, CallInv
<1>12. CallInv'
  BY <1>2, <1>3, <1>11 DEF RecInv, CallInv, OpenBucket, Bucket
<1> QED
  BY <1>9, <1>10, <1>12 DEF RecInv

(* The gap that is left fits the delta. *)
LEMMA BridgedStep ==
  ASSUME TypeOK, RecInv, Bridged
  PROVE  RecInv'
<1>1. /\ call \in CallSet /\ lastEmittedMs \in Nat /\ call.target \in Nat /\ DeltaMax \in Nat
  BY TypeNow, RecorderAssumption DEF CallSet
<1>2. /\ w = "open" /\ call.pc \in {"bridgeOutput", "bridgeResize"}
      /\ UNCHANGED <<clock, w, lastEmittedMs, pending, file, when>>
  BY DEF Bridged
<1>3. call.target - lastEmittedMs <= DeltaMax
  BY <1>1 DEF Bridged, Gap
<1>4. /\ call'.data = call.data /\ call'.op = call.op
      /\ call'.target = call.target /\ call'.buf = call.buf /\ call'.first = call.first
      /\ call'.bucket = call.bucket
      /\ call'.pc = IF call.pc = "bridgeOutput" THEN "output" ELSE "resize"
  BY BridgedEffect
<1>5. call.pc = "bridgeOutput" => call.first
  BY DEF RecInv, CallInv
<1>6. LastAt' = LastAt
  BY <1>2, <1>4, <1>5, Zenon DEF LastAt
<1>7. FileInv'
  BY <1>2, <1>6 DEF RecInv, FileInv
<1>8. PendingInv'
  BY <1>2 DEF RecInv, PendingInv
<1>9. CallInv'
  BY <1>2, <1>3, <1>4 DEF RecInv, CallInv, OpenBucket, Bucket
<1> QED
  BY <1>7, <1>8, <1>9 DEF RecInv

(* The resize frame. *)
LEMMA EmitResizeStep ==
  ASSUME TypeOK, RecInv, EmitResize
  PROVE  RecInv'
<1>1. /\ call \in CallSet /\ lastEmittedMs \in Nat /\ call.target \in Nat
      /\ call.data \in Seq(Nat) /\ DeltaMax \in Nat /\ SpacerMax \in Nat
  BY TypeNow, RecorderAssumption DEF CallSet
<1>2. /\ w = "open" /\ call.pc = "resize" /\ call'.pc = "idle" /\ lastEmittedMs' = call.target
      /\ UNCHANGED <<clock, w, pending, when>> /\ ~call'.first
  BY IdleTyped DEF EmitResize
<1> DEFINE delta == Delta(call.target, lastEmittedMs)
           f == Frame("resize", delta, call.data, 0, call.target)
<1>3. file' = Append(file, f)
  BY DEF EmitResize
<1>4. delta \in 0 .. DeltaMax /\ delta = call.target - lastEmittedMs
  BY <1>1, <1>2, DeltaFits DEF RecInv, CallInv
<1> HIDE DEF delta
<1>5. f \in FrameSet /\ f.data = call.data /\ f.at = call.target /\ Advance(f) = delta
  <2>1. 0 \in 0 .. SpacerMax
    BY <1>1
  <2> QED
    BY <1>1, <1>4, <2>1, FrameTyped
<1> HIDE DEF f
<1>6. LastAt = lastEmittedMs /\ Timed(when, call.target, call.data)
      /\ call.target <= clock
  BY <1>2 DEF LastAt, RecInv, CallInv
<1>7. Chain(file', when') /\ Len(file') > 0 /\ file'[Len(file')].at = call.target
  <2>1. f.at = LastAt + Advance(f)
    BY <1>1, <1>4, <1>5, <1>6
  <2> QED
    BY <1>2, <1>3, <1>5, <1>6, <2>1, GrowStep
<1>8. FileInv'
  BY <1>2, <1>7 DEF FileInv, LastAt
<1>9. PendingInv'
  BY <1>2 DEF RecInv, PendingInv
<1>10. CallInv'
  BY <1>2, <1>6 DEF CallInv
<1> QED
  BY <1>8, <1>9, <1>10 DEF RecInv

(* An output frame: the first of a chain carries the delta, the others have *)
(* delta 0 and the same time.                                               *)
LEMMA EmitOutputStep ==
  ASSUME TypeOK, RecInv, EmitOutput
  PROVE  RecInv'
<1>1. /\ call \in CallSet /\ pending \in PendingSet /\ lastEmittedMs \in Nat
      /\ call.target \in Nat /\ call.bucket \in Nat
      /\ call.data \in Seq(Nat) /\ DeltaMax \in Nat /\ SpacerMax \in Nat /\ clock \in Nat
  BY TypeNow, RecorderAssumption DEF CallSet
<1>2. w = "open" /\ call.pc = "output" /\ UNCHANGED <<clock, when>>
  BY DEF EmitOutput
<1>3. PICK data \in Seq(Nat), rest \in Seq(Nat), delta \in 0 .. DeltaMax :
           /\ call.buf = data \o rest
           /\ call.buf # <<>> => data # <<>>
           /\ \A h, t : Timed(h, t, call.buf) => Timed(h, t, data) /\ Timed(h, t, rest)
           /\ delta = IF call.first THEN Delta(call.target, lastEmittedMs) ELSE 0
           /\ file' = Append(file, Frame("output", delta, data, 0, call.target))
           /\ \/ /\ rest = <<>> /\ lastEmittedMs' = call.target /\ AfterFlush
              \/ /\ call' = [call EXCEPT !.buf = rest, !.first = FALSE]
                 /\ rest # <<>> /\ UNCHANGED <<w, lastEmittedMs, pending>>
  BY OutputEffect, Zenon
<1>4. /\ Timed(when, call.target, call.buf) /\ ~pending.has
      /\ lastEmittedMs <= call.target /\ call.target <= clock
      /\ call.target - lastEmittedMs <= DeltaMax
      /\ call.op = "write" =>
           OpenBucket(call.bucket, call.target) /\ Timed(when, call.bucket, call.data)
  BY <1>2 DEF RecInv, CallInv, PendingInv
<1> DEFINE f == Frame("output", delta, data, 0, call.target)
<1>5. file' = Append(file, f)
  BY <1>3
<1>6. f \in FrameSet /\ f.data = data /\ f.at = call.target /\ Advance(f) = delta
  <2>1. 0 \in 0 .. SpacerMax
    BY <1>1
  <2> QED
    BY <1>1, <2>1, FrameTyped
<1> HIDE DEF f
<1>7. call.target = LastAt + delta
  <2>1. CASE call.first
    <3>1. LastAt = lastEmittedMs
      BY <2>1 DEF LastAt
    <3>2. delta = call.target - lastEmittedMs
      BY <1>1, <1>3, <1>4, <2>1, DeltaFits
    <3> QED
      BY <1>1, <3>1, <3>2
  <2>2. CASE ~call.first
    <3>1. LastAt = call.target
      BY <1>2, <2>2 DEF LastAt
    <3>2. delta = 0
      BY <1>3, <2>2
    <3> QED
      BY <1>1, <3>1, <3>2
  <2> QED
    BY <2>1, <2>2
<1>8. Chain(file', when') /\ Len(file') > 0 /\ file'[Len(file')].at = call.target
  BY <1>2, <1>3, <1>4, <1>5, <1>6, <1>7, GrowStep
<1>9. CASE lastEmittedMs' = call.target /\ AfterFlush
  <2>1. /\ call'.pc \in {"idle", "stamp"} /\ ~call'.first
        /\ call.op = "write" => call'.pc = "idle" /\ pending' = Buffer(call.data, call.bucket)
        /\ call.op # "write" => pending' = pending
        /\ w' = IF call.op = "close" THEN "closed" ELSE w
    BY <1>1, <1>9, AfterEffect
  <2>2. FileInv'
    BY <1>2, <1>8, <1>9, <2>1 DEF FileInv, LastAt
  <2>3. PendingInv'
    <3>1. CASE call.op = "write"
      <4>1. pending'.bucket = call.bucket /\ pending'.buf = call.data
        BY <1>1, <1>4, <2>1, <3>1, BufferTyped
      <4> QED
        BY <1>2, <1>4, <1>9, <2>1, <3>1, <4>1 DEF PendingInv, OpenBucket, Bucket
    <3>2. CASE call.op # "write"
      BY <1>4, <2>1, <3>2 DEF PendingInv
    <3> QED
      BY <3>1, <3>2
  <2>4. CallInv'
    BY <1>2, <1>4, <1>9, <2>1 DEF CallInv
  <2> QED
    BY <2>2, <2>3, <2>4 DEF RecInv
<1>10. CASE /\ call' = [call EXCEPT !.buf = rest, !.first = FALSE]
            /\ UNCHANGED <<w, lastEmittedMs, pending>>
  <2>1. /\ call'.data = call.data /\ call'.op = call.op
        /\ call'.target = call.target /\ call'.buf = rest /\ ~call'.first
        /\ call'.bucket = call.bucket /\ call'.pc = call.pc
    BY <1>1, <1>10, MoreEffect
  <2>2. FileInv'
    BY <1>2, <1>8, <1>10, <2>1 DEF FileInv, LastAt
  <2>3. PendingInv'
    BY <1>4, <1>10 DEF PendingInv
  <2>4. CallInv'
    BY <1>2, <1>3, <1>4, <1>10, <2>1 DEF RecInv, CallInv, OpenBucket, Bucket
  <2> QED
    BY <2>2, <2>3, <2>4 DEF RecInv
<1> QED
  BY <1>3, <1>9, <1>10

(* A crash leaves a torn frame at most. *)
LEMMA CrashStep ==
  ASSUME TypeOK, RecInv, Crash
  PROVE  RecInv'
<1>1. /\ w = "open" /\ w' = "crashed" /\ UNCHANGED <<clock, lastEmittedMs, pending, call, when>>
      /\ file' = file \/ file' = Append(file, Torn)
  BY DEF Crash
<1>2. Chain(file', when')
  <2>1. CASE file' = file
    BY <1>1, <2>1 DEF RecInv, FileInv
  <2>2. CASE file' = Append(file, Torn)
    BY <1>1, <2>2, SpecialFrames, NothingTimed, GrowStep
  <2> QED
    BY <1>1, <2>1, <2>2
<1> QED
  BY <1>1, <1>2 DEF RecInv, FileInv, PendingInv, CallInv, OpenBucket, Bucket

(* Time passes: an open bucket stays open. *)
LEMMA TickStep ==
  ASSUME TypeOK, RecInv, Tick
  PROVE  RecInv'
<1>1. /\ clock' = clock + 1 /\ w = "open" /\ clock \in Nat /\ clock' \in Nat
      /\ UNCHANGED <<w, lastEmittedMs, pending, call, file, when>>
      /\ lastEmittedMs \in Nat /\ call.target \in Nat /\ call.bucket \in Nat
      /\ pending.bucket \in Nat
  BY TypeNow DEF Tick, CallSet, PendingSet
<1>2. Bucket(clock) <= Bucket(clock + 1) /\ Bucket(clock) \in Nat /\ Bucket(clock + 1) \in Nat
  BY <1>1, BucketRises, BucketBounds
<1>3. ASSUME NEW b \in Nat, NEW last \in Nat, OpenBucket(b, last) PROVE OpenBucket(b, last)'
  <2>1. Bucket(clock)' = Bucket(clock + 1)
    BY <1>1 DEF Bucket
  <2> QED
    BY <1>1, <1>2, <1>3, <2>1 DEF OpenBucket
<1>4. FileInv'
  BY <1>1 DEF RecInv, FileInv, LastAt
<1>5. PendingInv'
  BY <1>1, <1>3 DEF RecInv, PendingInv
<1>6. CallInv'
  BY <1>1, <1>3 DEF RecInv, CallInv
<1> QED
  BY <1>4, <1>5, <1>6 DEF RecInv

(* Every step keeps the inductive invariant. *)
LEMMA InvStep == RecorderInv /\ [Next]_vars => RecorderInv'
<1> SUFFICES ASSUME RecorderInv, [Next]_vars PROVE RecorderInv'
  OBVIOUS
<1>1. TypeOK' /\ InFile'
  BY TypeStep, InFileStep DEF RecorderInv
<1>2. ASSUME ~damaged' PROVE CleanInv'
  <2>1. ~damaged /\ ~WriteFails
    <3>1. ~WriteFails
      BY <1>2 DEF WriteFails
    <3>2. damaged' = damaged
      BY <3>1 DEF Next, NewRecorder, NewRecorderFails, Write, WriteIn,
         RecordResize, StampResize, Close, Spacer, SpacerOf, Bridged, EmitOutput, EmitResize,
         Crash, Tick, ReadPrelude, NextFrame, NextEOF, vars, recVars
    <3> QED
      BY <1>2, <3>1, <3>2
  <2>2. TypeOK /\ RecInv
    BY <2>1 DEF RecorderInv, CleanInv, RecInv
  <2>3. RecInv'
    <3>1. CASE NewRecorderFails
      BY <2>2, <3>1 DEF NewRecorderFails, RecInv, FileInv, PendingInv, CallInv, OpenBucket,
         Bucket, LastAt
    <3>2. CASE ReadPrelude \/ NextFrame \/ NextEOF \/ UNCHANGED vars
      <4>1. UNCHANGED recVars
        BY <3>2 DEF ReadPrelude, NextFrame, NextEOF, vars
      <4> QED
        BY <2>2, <4>1 DEF recVars, RecInv, FileInv, PendingInv, CallInv, OpenBucket,
         Bucket, LastAt
    <3> QED
      BY <2>1, <2>2, <3>1, <3>2, NewStep, WriteStep, ResizeStep, StampStep, CloseStep,
         SpacerStep, BridgedStep, EmitOutputStep, EmitResizeStep, CrashStep, TickStep
         DEF Next
  <2> QED
    BY <2>1, <2>3, ReaderStep DEF RecInv, CleanInv
<1> QED
  BY <1>1, <1>2 DEF RecorderInv


(* The payloads of the frames, and the numbers of everything recorded. *)
Payloads(fl) == [k \in DOMAIN fl |-> fl[k].data]
(* The first n things given to the recorder, in order. *)
Ids(n) == [i \in 1 .. n |-> i]

(* g is the function FlattenSeq defines for s. The library chooses one;     *)
(* neither that there is one nor that all agree is assumed below.           *)
FlattensTo(g, s) ==
  g = [i \in 1 .. Len(s) |-> IF i = 1 THEN s[i] ELSE g[i - 1] \o s[i]]

(* Concatenation is associative, ... *)
LEMMA Joined ==
  ASSUME NEW a \in Seq(Nat), NEW b \in Seq(Nat), NEW c \in Seq(Nat)
  PROVE  (a \o b) \o c = a \o (b \o c)
<1>1. (a \o b) \o c \in Seq(Nat) /\ a \o (b \o c) \in Seq(Nat)
  OBVIOUS
<1>2. Len((a \o b) \o c) = Len(a \o (b \o c))
  OBVIOUS
<1>3. \A i \in 1 .. Len((a \o b) \o c) : ((a \o b) \o c)[i] = (a \o (b \o c))[i]
  OBVIOUS
<1> QED
  BY <1>1, <1>2, <1>3, SeqEqual

(* ... and the empty sequence is its identity. *)
LEMMA NoItems ==
  ASSUME NEW a \in Seq(Nat)
  PROVE  a \o <<>> = a /\ <<>> \o a = a
BY ConcatEmptySeq, Zenon

(* FlattenSeq as the library defines it. *)
LEMMA FlattenIs ==
  ASSUME NEW seqs, Len(seqs) # 0
  PROVE  FlattenSeq(seqs) = (CHOOSE g : FlattensTo(g, seqs))[Len(seqs)]
BY DEF FlattenSeq, FlattensTo

(* Some function flattens s, and with rest after it whichever does gives    *)
(* all. Both halves grow with the file, which is why no induction is        *)
(* needed.                                                                  *)
Whole(s, rest, all) ==
  /\ \E g : FlattensTo(g, s)
  /\ \A g : FlattensTo(g, s) => g[Len(s)] \in Seq(Nat) /\ g[Len(s)] \o rest = all

(* A payload moves from memory to the file. *)
LEMMA WholeGrows ==
  ASSUME NEW s \in Seq(Seq(Nat)), Len(s) > 0, NEW d \in Seq(Nat), NEW rest \in Seq(Nat), NEW all,
         Whole(s, d \o rest, all)
  PROVE  Whole(Append(s, d), rest, all)
<1> DEFINE n == Len(s)
           t == Append(s, d)
<1>1. /\ n \in Nat /\ n > 0 /\ Len(t) = n + 1 /\ t[n + 1] = d
      /\ \A i \in 1 .. n : t[i] = s[i]
  OBVIOUS
<1> HIDE DEF t, n
<1>2. \E g : FlattensTo(g, t)
  <2>1. PICK g : FlattensTo(g, s)
    BY DEF Whole
  <2> DEFINE last == g[n] \o d
  <2> HIDE DEF last
  <2> DEFINE h == [i \in 1 .. n + 1 |-> IF i <= n THEN g[i] ELSE last]
  <2>2. \A i \in 1 .. n : g[i] = IF i = 1 THEN s[i] ELSE g[i - 1] \o s[i]
    BY <2>1 DEF FlattensTo, n
  <2>3. ASSUME NEW i \in 1 .. n + 1 PROVE h[i] = IF i = 1 THEN t[i] ELSE h[i - 1] \o t[i]
    <3>1. CASE i = n + 1
      <4>1. h[i] = last /\ h[i - 1] = g[n] /\ t[i] = d /\ i # 1
        BY <1>1, <3>1
      <4> QED
        BY <4>1 DEF last
    <3>2. CASE i # n + 1
      <4>1. i \in 1 .. n /\ (i # 1 => i - 1 \in 1 .. n)
        BY <1>1, <3>2
      <4>2. h[i] = g[i] /\ (i # 1 => h[i - 1] = g[i - 1]) /\ t[i] = s[i]
        BY <1>1, <4>1
      <4>3. g[i] = IF i = 1 THEN s[i] ELSE g[i - 1] \o s[i]
        BY <2>2, <4>1
      <4> HIDE DEF h
      <4> QED
        BY <4>2, <4>3
    <3> QED
      BY <3>1, <3>2
  <2>4. h = [i \in 1 .. n + 1 |-> h[i]]
    OBVIOUS
  <2> HIDE DEF h
  <2>5. h = [i \in 1 .. n + 1 |-> IF i = 1 THEN t[i] ELSE h[i - 1] \o t[i]]
    BY <2>3, <2>4
  <2> QED
    BY <1>1, <2>5 DEF FlattensTo
<1>3. ASSUME NEW h, FlattensTo(h, t)
      PROVE  h[n + 1] \in Seq(Nat) /\ h[n + 1] \o rest = all
  <2> DEFINE g == [i \in 1 .. n |-> h[i]]
  <2>1. \A i \in 1 .. n + 1 : h[i] = IF i = 1 THEN t[i] ELSE h[i - 1] \o t[i]
    BY <1>1, <1>3 DEF FlattensTo
  <2>2. ASSUME NEW i \in 1 .. n PROVE g[i] = IF i = 1 THEN s[i] ELSE g[i - 1] \o s[i]
    <3>1. i \in 1 .. n + 1 /\ (i # 1 => i - 1 \in 1 .. n)
      BY <1>1
    <3>2. g[i] = h[i] /\ (i # 1 => g[i - 1] = h[i - 1]) /\ t[i] = s[i]
      BY <1>1, <3>1
    <3>3. h[i] = IF i = 1 THEN t[i] ELSE h[i - 1] \o t[i]
      BY <2>1, <3>1
    <3> HIDE DEF g
    <3> QED
      BY <3>2, <3>3
  <2>3. g[n] = h[n] /\ g = [i \in 1 .. n |-> g[i]]
    BY <1>1
  <2> HIDE DEF g
  <2>4. g = [i \in 1 .. n |-> IF i = 1 THEN s[i] ELSE g[i - 1] \o s[i]]
    BY <2>2, <2>3
  <2>5. FlattensTo(g, s)
    BY <2>4 DEF FlattensTo, n
  <2>6. h[n] \in Seq(Nat) /\ h[n] \o (d \o rest) = all
    BY <2>3, <2>5 DEF Whole, n
  <2>7. h[n + 1] = h[n] \o d
    <3>1. n + 1 \in 1 .. n + 1 /\ n + 1 # 1 /\ (n + 1) - 1 = n
      BY <1>1
    <3> QED
      BY <1>1, <2>1, <3>1
  <2>8. h[n] \o d \in Seq(Nat)
    BY <2>6
  <2>9. (h[n] \o d) \o rest = h[n] \o (d \o rest)
    BY <2>6, Joined
  <2> QED
    BY <2>6, <2>7, <2>8, <2>9
<1> QED
  BY <1>1, <1>2, <1>3 DEF Whole, t

(* The prelude. *)
LEMMA WholeFirst ==
  ASSUME NEW d \in Seq(Nat)
  PROVE  Whole(<<d>>, <<>>, d)
<1> DEFINE s == <<d>>
<1>1. Len(s) = 1 /\ s[1] = d
  OBVIOUS
<1> HIDE DEF s
<1>2. d \o <<>> = d
  BY ConcatEmptySeq
<1>3. \A g : FlattensTo(g, s) => g[1] = d
  BY <1>1 DEF FlattensTo
<1> DEFINE g == [i \in 1 .. 1 |-> d]
<1>4. \A i \in 1 .. 1 : d = IF i = 1 THEN s[i] ELSE g[i - 1] \o s[i]
  BY <1>1
<1>5. g = [i \in 1 .. 1 |-> IF i = 1 THEN s[i] ELSE g[i - 1] \o s[i]]
  BY <1>4
<1>6. FlattensTo(g, s)
  BY <1>1, <1>5 DEF FlattensTo
<1> HIDE DEF g
<1>7. Whole(s, <<>>, d)
  BY <1>1, <1>2, <1>3, <1>6 DEF Whole
<1> QED
  BY <1>7 DEF s

(* What Whole says of FlattenSeq. *)
LEMMA WholeFlattened ==
  ASSUME NEW s \in Seq(Seq(Nat)), Len(s) > 0, NEW rest, NEW all, Whole(s, rest, all)
  PROVE  FlattenSeq(s) \in Seq(Nat) /\ FlattenSeq(s) \o rest = all
<1>1. FlattenSeq(s) = (CHOOSE g : FlattensTo(g, s))[Len(s)]
  BY FlattenIs
<1>2. FlattensTo(CHOOSE g : FlattensTo(g, s), s)
  BY Zenon DEF Whole
<1> QED
  BY <1>1, <1>2, Zenon DEF Whole

(* More is recorded, and held in memory. *)
LEMMA WholeLonger ==
  ASSUME NEW s, NEW rest \in Seq(Nat), NEW all, NEW new \in Seq(Nat), Whole(s, rest, all)
  PROVE  Whole(s, rest \o new, all \o new)
<1>1. ASSUME NEW g, FlattensTo(g, s)
      PROVE  g[Len(s)] \in Seq(Nat) /\ g[Len(s)] \o (rest \o new) = all \o new
  <2>1. g[Len(s)] \in Seq(Nat) /\ g[Len(s)] \o rest = all
    BY <1>1 DEF Whole
  <2>2. g[Len(s)] \o (rest \o new) = (g[Len(s)] \o rest) \o new
    BY <2>1, Joined
  <2> QED
    BY <2>1, <2>2
<1> QED
  BY <1>1 DEF Whole

(* The numbers of more items. *)
LEMMA IdsGrow ==
  ASSUME NEW m \in Nat, NEW k \in Nat
  PROVE  Ids(m + k) = Ids(m) \o [i \in 1 .. k |-> m + i]
<1> DEFINE a == Ids(m)
           b == [i \in 1 .. k |-> m + i]
<1>1. a \in Seq(Nat) /\ Len(a) = m /\ \A i \in 1 .. m : a[i] = i
  BY DEF Ids
<1>2. b \in Seq(Nat) /\ Len(b) = k /\ \A i \in 1 .. k : b[i] = m + i
  OBVIOUS
<1> HIDE DEF a, b
<1>3. /\ a \o b \in Seq(Nat) /\ Len(a \o b) = m + k
      /\ \A i \in 1 .. m + k : (a \o b)[i] = IF i <= m THEN a[i] ELSE b[i - m]
  BY <1>1, <1>2
<1>4. \A i \in 1 .. m + k : (a \o b)[i] = i
  BY <1>1, <1>2, <1>3
<1>5. Ids(m + k) \in Seq(Nat) /\ Len(Ids(m + k)) = m + k /\ \A i \in 1 .. m + k : Ids(m + k)[i] = i
  BY DEF Ids
<1>6. Ids(m + k) = a \o b
  BY <1>3, <1>4, <1>5, SeqEqual
<1> QED
  BY <1>6 DEF a, b

(* What the recorder has in memory, in the order of OrderKept. *)
Held == call.buf \o pending.buf \o call.data

(* Which of the buffers are empty where. *)
EmptyInv ==
  /\ call.pc \in {"idle", "stamp"} => call.buf = <<>> /\ call.data = <<>>
  /\ call.pc \in {"bridgeResize", "resize"} => call.buf = <<>>
  /\ call.pc \in {"bridgeOutput", "output"} /\ call.op # "write" => call.data = <<>>
  /\ ~pending.has => pending.buf = <<>>
  /\ Len(file) = 0 => when = <<>> /\ call.pc = "idle" /\ ~pending.has

(* The frames and what is in memory are everything, in order. *)
WholeInv == Len(file) > 0 => Whole(Payloads(file), Held, Ids(Len(when)))

(* What OrderKept needs on top of RecorderInv. *)
OrderInv == EmptyInv /\ WholeInv

(* The payloads of one more frame. *)
LEMMA PayloadsGrow ==
  ASSUME NEW fl \in Seq(FrameSet), NEW f \in FrameSet
  PROVE  /\ Payloads(fl) \in Seq(Seq(Nat)) /\ Len(Payloads(fl)) = Len(fl)
         /\ f.data \in Seq(Nat)
         /\ Payloads(Append(fl, f)) = Append(Payloads(fl), f.data)
<1> DEFINE n == Len(fl)
           p == Payloads(fl)
           q == Payloads(Append(fl, f))
<1>1. n \in Nat /\ DOMAIN fl = 1 .. n /\ \A k \in 1 .. n : fl[k] \in FrameSet
  OBVIOUS
<1>2. \A x \in FrameSet : x.data \in Seq(Nat)
  BY DEF FrameSet
<1>3. p \in Seq(Seq(Nat)) /\ Len(p) = n /\ \A k \in 1 .. n : p[k] = fl[k].data
  BY <1>1, <1>2 DEF Payloads
<1>4. /\ DOMAIN Append(fl, f) = 1 .. n + 1 /\ Append(fl, f)[n + 1] = f
      /\ \A k \in 1 .. n : Append(fl, f)[k] = fl[k]
  BY <1>1
<1>5. q \in Seq(Seq(Nat)) /\ Len(q) = n + 1 /\ \A k \in 1 .. n + 1 : q[k] = Append(fl, f)[k].data
  <2> DEFINE g == Append(fl, f)
  <2>1. DOMAIN g = 1 .. n + 1 /\ \A k \in 1 .. n + 1 : g[k] \in FrameSet
    BY <1>1, <1>4
  <2> HIDE DEF g
  <2>2. /\ Payloads(g) \in Seq(Seq(Nat)) /\ Len(Payloads(g)) = n + 1
        /\ \A k \in 1 .. n + 1 : Payloads(g)[k] = g[k].data
    BY <1>1, <1>2, <2>1 DEF Payloads
  <2> QED
    BY <2>2 DEF g
<1>6. f.data \in Seq(Nat)
  BY <1>2
<1> DEFINE d == f.data
           r == Append(p, d)
<1> HIDE DEF p, q, d
<1>7. r \in Seq(Seq(Nat)) /\ Len(r) = n + 1 /\ r[n + 1] = d /\ \A k \in 1 .. n : r[k] = p[k]
  BY <1>1, <1>3, <1>6 DEF d
<1>8. \A k \in 1 .. n + 1 : q[k] = r[k]
  <2> SUFFICES ASSUME NEW k \in 1 .. n + 1 PROVE q[k] = r[k]
    OBVIOUS
  <2>1. CASE k = n + 1
    BY <1>1, <1>4, <1>5, <1>7, <2>1 DEF d
  <2>2. CASE k # n + 1
    <3>1. k \in 1 .. n
      BY <1>1, <2>2
    <3> QED
      BY <1>3, <1>4, <1>5, <1>7, <3>1
  <2> QED
    BY <2>1, <2>2
<1> HIDE DEF r
<1>9. q = r
  BY <1>5, <1>7, <1>8, SeqEqual
<1> QED
  BY <1>3, <1>6, <1>9 DEF p, q, d, r

(* What is held is a sequence of numbers, now ... *)
LEMMA HeldTyped ==
  ASSUME TypeOK
  PROVE  /\ call.buf \in Seq(Nat) /\ pending.buf \in Seq(Nat) /\ call.data \in Seq(Nat)
         /\ call.buf \o pending.buf \in Seq(Nat) /\ Held \in Seq(Nat)
<1>1. call.buf \in Seq(Nat) /\ pending.buf \in Seq(Nat) /\ call.data \in Seq(Nat)
  BY TypeNow DEF CallSet, PendingSet
<1>2. call.buf \o pending.buf \in Seq(Nat)
  BY <1>1
<1> DEFINE x == call.buf \o pending.buf
<1> HIDE DEF x
<1>3. x \o call.data \in Seq(Nat)
  BY <1>1, <1>2 DEF x
<1> QED
  BY <1>1, <1>2, <1>3 DEF Held, x

(* ... and after a step. *)
LEMMA HeldTypedNext ==
  ASSUME TypeOK'
  PROVE  Held' \in Seq(Nat)
<1>1. call'.buf \in Seq(Nat) /\ pending'.buf \in Seq(Nat) /\ call'.data \in Seq(Nat)
  BY DEF TypeOK
<1> DEFINE x == call'.buf \o pending'.buf
<1>2. x \in Seq(Nat)
  BY <1>1
<1> HIDE DEF x
<1>3. x \o call'.data \in Seq(Nat)
  BY <1>1, <1>2
<1> QED
  BY <1>3 DEF Held, x

(* What is held, when two of its three parts are empty. *)
LEMMA HeldSimple ==
  ASSUME NEW a \in Seq(Nat)
  PROVE  /\ (<<>> \o <<>>) \o a = a
         /\ (<<>> \o a) \o <<>> = a
         /\ (a \o <<>>) \o <<>> = a
         /\ \A b \in Seq(Nat) : (a \o <<>>) \o b = a \o b
<1>1. <<>> \in Seq(Nat)
  OBVIOUS
<1> QED
  BY <1>1, NoItems

(* A frame takes the front of what is held. *)
LEMMA OrderGrows ==
  ASSUME TypeOK, TypeOK', OrderInv, Len(file) > 0, NEW f \in FrameSet,
         file' = Append(file, f), when' = when, Held = f.data \o Held'
  PROVE  WholeInv' /\ Len(file') > 0
<1>1. file \in Seq(FrameSet) /\ Held' \in Seq(Nat)
  BY TypeNow, HeldTypedNext
<1>2. /\ Payloads(file) \in Seq(Seq(Nat)) /\ Len(Payloads(file)) > 0 /\ f.data \in Seq(Nat)
      /\ Payloads(file') = Append(Payloads(file), f.data)
  BY <1>1, PayloadsGrow
<1>3. Whole(Payloads(file), f.data \o Held', Ids(Len(when)))
  BY DEF OrderInv, WholeInv
<1>4. Whole(Append(Payloads(file), f.data), Held', Ids(Len(when)))
  BY <1>1, <1>2, <1>3, WholeGrows
<1>5. Len(file') > 0
  BY <1>1
<1> QED
  BY <1>2, <1>4, <1>5 DEF WholeInv

(* New items are held at the end. *)
LEMMA OrderRecords ==
  ASSUME TypeOK, OrderInv, Len(file) > 0, NEW n \in Nat, NEW kind \in {"byte", "resize"},
         file' = file, when' = when \o Items(kind, n), Held' = Held \o NewItems(n)
  PROVE  WholeInv'
<1>1. when \in Seq(Record) /\ Len(when) \in Nat /\ Held \in Seq(Nat) /\ clock \in Nat
  BY TypeNow, HeldTyped
<1>2. NewItems(n) \in Seq(Nat) /\ Len(Items(kind, n)) = n /\ Items(kind, n) \in Seq(Record)
  BY <1>1 DEF NewItems, Items, Record
<1>3. Len(when') = Len(when) + n
  <2> DEFINE e == Items(kind, n)
  <2>1. e \in Seq(Record) /\ Len(e) = n
    BY <1>2
  <2> HIDE DEF e
  <2>2. Len(when \o e) = Len(when) + Len(e)
    BY <1>1, <2>1, ConcatProperties, Zenon
  <2> QED
    BY <2>1, <2>2 DEF e
<1>4. Ids(Len(when')) = Ids(Len(when)) \o NewItems(n)
  BY <1>1, <1>3, IdsGrow DEF NewItems
<1>5. Whole(Payloads(file), Held \o NewItems(n), Ids(Len(when)) \o NewItems(n))
  BY <1>1, <1>2, WholeLonger DEF OrderInv, WholeInv
<1> QED
  BY <1>4, <1>5 DEF WholeInv

(* Write holds its bytes behind what is pending, even while that is         *)
(* flushed.                                                                 *)
LEMMA OrderWrite ==
  ASSUME TypeOK, RecInv, OrderInv, NEW n \in 1 .. MaxItems, Write(n)
  PROVE  OrderInv'
<1> DEFINE b == FlooredBucket
           d == NewItems(n)
<1>1. /\ call \in CallSet /\ pending \in PendingSet /\ pending.buf \in Seq(Nat)
      /\ file' = file /\ w = "open" /\ call = Idle /\ b \in Nat /\ d \in Seq(Nat) /\ n \in Nat
      /\ when' = when \o Items("byte", n)
  BY TypeNow, HeldTyped, WriteEffect
<1>2. Len(file) > 0 /\ call.pc = "idle" /\ call.buf = <<>> /\ call.data = <<>>
  BY <1>1, IdleTyped DEF RecInv, FileInv, OrderInv, EmptyInv
<1>3. Held = pending.buf
  BY <1>1, <1>2, HeldSimple DEF Held
<1>4. CASE pending.has /\ StartFlush("write", d, b)
  <2>1. /\ ~pending'.has /\ pending'.buf = <<>>
        /\ call'.pc = "bridgeOutput" /\ call'.op = "write"
        /\ call'.data = d /\ call'.buf = pending.buf
    BY <1>1, <1>4, FlushTyped DEF StartFlush, NoPending
  <2>2. Held' = Held \o d
    BY <1>1, <1>3, <2>1, HeldSimple DEF Held
  <2>3. WholeInv'
    BY <1>1, <1>2, <2>2, OrderRecords
  <2>4. EmptyInv'
    BY <1>1, <1>2, <2>1 DEF EmptyInv
  <2> QED
    BY <2>3, <2>4 DEF OrderInv
<1>5. CASE pending' = Buffer(d, b) /\ call' = call
  <2>1. pending'.has /\ pending'.buf = IF pending.has THEN pending.buf \o d ELSE d
    BY <1>1, <1>5, BufferTyped
  <2>2. pending'.buf = pending.buf \o d /\ pending'.buf \in Seq(Nat)
    <3>1. CASE pending.has
      BY <1>1, <2>1, <3>1
    <3>2. CASE ~pending.has
      <4>1. pending.buf = <<>>
        BY <3>2 DEF OrderInv, EmptyInv
      <4> QED
        BY <1>1, <2>1, <3>2, <4>1, NoItems
    <3> QED
      BY <3>1, <3>2
  <2>3. Held' = pending'.buf
    BY <1>2, <1>5, <2>2, HeldSimple DEF Held
  <2>4. WholeInv'
    BY <1>1, <1>2, <1>3, <2>2, <2>3, OrderRecords
  <2>5. EmptyInv'
    BY <1>1, <1>2, <1>5, <2>1 DEF EmptyInv
  <2> QED
    BY <2>4, <2>5 DEF OrderInv
<1> QED
  BY <1>4, <1>5, WriteEffect

(* The flush of RecordResize and Close. *)
LEMMA OrderFlush ==
  ASSUME TypeOK, RecInv, OrderInv, pending.has, NEW op \in {"resize", "close"},
         StartFlush(op, <<>>, 0), UNCHANGED <<file, when>>
  PROVE  OrderInv'
<1>1. /\ pending \in PendingSet /\ <<>> \in Seq(Nat) /\ pending.buf \in Seq(Nat)
      /\ call.pc = "idle" /\ call.buf = <<>> /\ call.data = <<>>
  BY TypeNow, HeldTyped DEF RecInv, PendingInv, OrderInv, EmptyInv
<1>2. /\ ~pending'.has /\ pending'.buf = <<>>
      /\ call'.pc = "bridgeOutput" /\ call'.data = <<>> /\ call'.buf = pending.buf
  BY <1>1, FlushTyped DEF StartFlush, NoPending
<1>3. Held = pending.buf /\ Held' = pending.buf
  BY <1>1, <1>2, HeldSimple DEF Held
<1>4. Len(file) # 0
  BY DEF OrderInv, EmptyInv
<1> QED
  BY <1>2, <1>3, <1>4 DEF OrderInv, EmptyInv, WholeInv

(* RecordResize. *)
LEMMA OrderResize ==
  ASSUME TypeOK, RecInv, OrderInv, RecordResize
  PROVE  OrderInv'
<1>1. UNCHANGED <<file, when>> /\ call = Idle /\ call.pc = "idle" /\ Len(file) > 0
  BY IdleTyped DEF RecordResize, RecInv, FileInv
<1>2. CASE pending.has
  <2>1. StartFlush("resize", <<>>, 0)
    BY <1>2 DEF RecordResize
  <2> QED
    BY <1>1, <1>2, <2>1, OrderFlush
<1>3. CASE ~pending.has
  <2>1. /\ pending' = pending /\ call'.pc = "stamp" /\ call'.buf = call.buf
        /\ call'.data = call.data
    BY <1>1, <1>3, IdleTyped DEF RecordResize, Idle
  <2>2. Held' = Held
    BY <2>1 DEF Held
  <2> QED
    BY <1>1, <1>3, <2>1, <2>2 DEF OrderInv, EmptyInv, WholeInv
<1> QED
  BY <1>2, <1>3

(* Close. *)
LEMMA OrderClose ==
  ASSUME TypeOK, RecInv, OrderInv, Close
  PROVE  OrderInv'
<1>1. UNCHANGED <<file, when>> /\ call.pc = "idle"
  BY IdleTyped DEF Close
<1>2. CASE pending.has
  <2>1. StartFlush("close", <<>>, 0)
    BY <1>2 DEF Close
  <2> QED
    BY <1>1, <1>2, <2>1, OrderFlush
<1>3. CASE ~pending.has
  <2>1. pending' = pending /\ call' = call
    BY <1>3 DEF Close
  <2> QED
    BY <1>1, <2>1 DEF OrderInv, EmptyInv, WholeInv, Held
<1> QED
  BY <1>2, <1>3

(* The resize is numbered once nothing is pending. *)
LEMMA OrderStamp ==
  ASSUME TypeOK, RecInv, OrderInv, StampResize
  PROVE  OrderInv'
<1>1. /\ UNCHANGED <<pending, file>> /\ call.pc = "stamp" /\ w = "open"
  BY DEF StampResize
<1>2. Len(file) > 0 /\ ~pending.has /\ pending.buf = <<>> /\ call.buf = <<>> /\ call.data = <<>>
  BY <1>1 DEF RecInv, FileInv, PendingInv, OrderInv, EmptyInv
<1>3. /\ NewItems(1) \in Seq(Nat) /\ when' = when \o Items("resize", 1)
      /\ call'.pc = "bridgeResize" /\ call'.data = NewItems(1)
  BY StampEffect
<1>4. call'.buf = call.buf
  <2>1. call \in CallSet
    BY TypeNow
  <2> QED
    BY <2>1 DEF StampResize, CallSet
<1>5. Held = <<>> /\ Held' = NewItems(1) /\ <<>> \o NewItems(1) = NewItems(1)
  <2>1. <<>> \in Seq(Nat)
    OBVIOUS
  <2> QED
    BY <1>1, <1>2, <1>3, <1>4, <2>1, HeldSimple, NoItems DEF Held
<1>6. WholeInv'
  BY <1>1, <1>2, <1>3, <1>5, OrderRecords
<1>7. EmptyInv'
  BY <1>1, <1>2, <1>3, <1>4 DEF EmptyInv
<1> QED
  BY <1>6, <1>7 DEF OrderInv

(* Spacers hold nothing. *)
LEMMA OrderBridge ==
  ASSUME TypeOK, TypeOK', RecInv, OrderInv, Spacer \/ Bridged
  PROVE  OrderInv'
<1>1. CASE Spacer
  <2>1. PICK adv \in 1 .. SpacerMax :
           file' = Append(file, Frame("spacer", 0, <<>>, adv, lastEmittedMs + adv))
    BY <1>1, SpacerEffect
  <2>2. UNCHANGED <<call, pending, when>> /\ w = "open"
    BY <1>1 DEF Spacer, SpacerOf
  <2> DEFINE a == lastEmittedMs + adv
             f == Frame("spacer", 0, <<>>, adv, a)
  <2>3. a \in Nat /\ adv \in 0 .. SpacerMax /\ 0 \in 0 .. DeltaMax
    BY TypeNow, RecorderAssumption
  <2>4. file' = Append(file, f)
    BY <2>1
  <2> HIDE DEF a
  <2>5. f \in FrameSet /\ f.data = <<>>
    BY <2>3 DEF Frame, FrameSet
  <2> HIDE DEF f
  <2>6. Held' = Held /\ Held = <<>> \o Held'
    BY <2>2, HeldTyped, NoItems DEF Held
  <2>7. Len(file) > 0
    BY <2>2 DEF RecInv, FileInv
  <2>8. WholeInv' /\ Len(file') > 0
    BY <2>2, <2>4, <2>5, <2>6, <2>7, OrderGrows
  <2> QED
    BY <2>2, <2>8 DEF OrderInv, EmptyInv
<1>2. CASE Bridged
  <2>1. /\ UNCHANGED <<pending, file, when>> /\ call.pc \in {"bridgeOutput", "bridgeResize"}
        /\ call'.data = call.data /\ call'.op = call.op /\ call'.buf = call.buf
        /\ call'.pc = IF call.pc = "bridgeOutput" THEN "output" ELSE "resize"
    BY <1>2, BridgedEffect DEF Bridged
  <2>2. Held' = Held
    BY <2>1 DEF Held
  <2> QED
    BY <2>1, <2>2 DEF OrderInv, EmptyInv, WholeInv
<1> QED
  BY <1>1, <1>2

(* The resize frame. *)
LEMMA OrderEmitResize ==
  ASSUME TypeOK, TypeOK', RecInv, OrderInv, EmitResize
  PROVE  OrderInv'
<1>1. /\ UNCHANGED <<pending, when>> /\ call.pc = "resize" /\ w = "open" /\ call' = Idle
      /\ call \in CallSet /\ lastEmittedMs \in Nat /\ call.target \in Nat
      /\ call.data \in Seq(Nat) /\ SpacerMax \in Nat
  BY TypeNow, RecorderAssumption DEF EmitResize, CallSet
<1>2. Len(file) > 0 /\ ~pending.has /\ pending.buf = <<>> /\ call.buf = <<>>
  BY <1>1 DEF RecInv, FileInv, PendingInv, OrderInv, EmptyInv
<1>3. call'.pc = "idle" /\ call'.buf = <<>> /\ call'.data = <<>>
  BY <1>1 DEF Idle
<1> DEFINE delta == Delta(call.target, lastEmittedMs)
           f == Frame("resize", delta, call.data, 0, call.target)
<1>4. file' = Append(file, f) /\ delta \in 0 .. DeltaMax
  BY <1>1, DeltaFits DEF EmitResize
<1> HIDE DEF delta
<1>5. f \in FrameSet /\ f.data = call.data
  <2>1. 0 \in 0 .. SpacerMax
    BY <1>1
  <2> QED
    BY <1>1, <1>4, <2>1, FrameTyped
<1> HIDE DEF f
<1>6. Held = call.data /\ Held' = <<>> /\ call.data \o <<>> = call.data
  <2>1. <<>> \in Seq(Nat)
    OBVIOUS
  <2> QED
    BY <1>1, <1>2, <1>3, <2>1, HeldSimple, NoItems DEF Held
<1>7. WholeInv' /\ Len(file') > 0
  BY <1>1, <1>2, <1>4, <1>5, <1>6, OrderGrows
<1>8. EmptyInv'
  BY <1>1, <1>2, <1>3, <1>7 DEF EmptyInv
<1> QED
  BY <1>7, <1>8 DEF OrderInv

(* A frame of a chain; after the last, Write buffers its own bytes. *)
LEMMA OrderEmitOutput ==
  ASSUME TypeOK, TypeOK', RecInv, OrderInv, EmitOutput
  PROVE  OrderInv'
<1>1. /\ call \in CallSet /\ pending \in PendingSet /\ call.target \in Nat /\ call.bucket \in Nat
      /\ call.data \in Seq(Nat) /\ SpacerMax \in Nat
      /\ w = "open" /\ call.pc = "output" /\ when' = when
  BY TypeNow, RecorderAssumption DEF EmitOutput, CallSet
<1>2. Len(file) > 0 /\ ~pending.has /\ pending.buf = <<>>
  BY <1>1 DEF RecInv, FileInv, PendingInv, OrderInv, EmptyInv
<1>3. PICK data \in Seq(Nat), rest \in Seq(Nat), delta \in 0 .. DeltaMax :
           /\ call.buf = data \o rest
           /\ call.buf # <<>> => data # <<>>
           /\ \A h, t : Timed(h, t, call.buf) => Timed(h, t, data) /\ Timed(h, t, rest)
           /\ delta = IF call.first THEN Delta(call.target, lastEmittedMs) ELSE 0
           /\ file' = Append(file, Frame("output", delta, data, 0, call.target))
           /\ \/ /\ rest = <<>> /\ lastEmittedMs' = call.target /\ AfterFlush
              \/ /\ call' = [call EXCEPT !.buf = rest, !.first = FALSE]
                 /\ rest # <<>> /\ UNCHANGED <<w, lastEmittedMs, pending>>
  BY OutputEffect, Zenon
<1> DEFINE f == Frame("output", delta, data, 0, call.target)
<1>4. file' = Append(file, f)
  BY <1>3
<1>5. f \in FrameSet /\ f.data = data
  <2>1. 0 \in 0 .. SpacerMax
    BY <1>1
  <2> QED
    BY <1>1, <2>1, FrameTyped
<1> HIDE DEF f
<1>6. Held = data \o (rest \o call.data)
  <2>1. call.buf \in Seq(Nat)
    BY HeldTyped
  <2>2. Held = call.buf \o call.data
    BY <1>1, <1>2, <2>1, HeldSimple DEF Held
  <2>3. (data \o rest) \o call.data = data \o (rest \o call.data)
    BY <1>1, Joined, Zenon
  <2> QED
    BY <1>3, <2>2, <2>3, Zenon
<1>7. CASE rest = <<>> /\ AfterFlush
  <2>1. Held = data \o call.data
    BY <1>1, <1>6, <1>7, NoItems
  <2>2. /\ call'.pc \in {"idle", "stamp"}
        /\ call.op = "write" => call'.pc = "idle" /\ pending' = Buffer(call.data, call.bucket)
        /\ call.op # "write" => pending' = pending
    BY <1>1, <1>7, AfterEffect
  <2>3. call'.buf = <<>> /\ call'.data = <<>>
    BY <1>7 DEF AfterFlush, Idle
  <2>4. pending'.buf = call.data /\ (~pending'.has => call.data = <<>>)
    <3>1. CASE call.op = "write"
      BY <1>1, <1>2, <2>2, <3>1, BufferTyped
    <3>2. CASE call.op # "write"
      <4>1. call.data = <<>>
        BY <1>1, <3>2 DEF OrderInv, EmptyInv
      <4> QED
        BY <1>2, <2>2, <3>2, <4>1
    <3> QED
      BY <3>1, <3>2
  <2>5. Held' = call.data
    BY <1>1, <2>3, <2>4, HeldSimple DEF Held
  <2>6. WholeInv' /\ Len(file') > 0
    BY <1>1, <1>2, <1>4, <1>5, <2>1, <2>5, OrderGrows
  <2>7. EmptyInv'
    BY <2>2, <2>3, <2>4, <2>6 DEF EmptyInv
  <2> QED
    BY <2>6, <2>7 DEF OrderInv
<1>8. CASE /\ call' = [call EXCEPT !.buf = rest, !.first = FALSE]
           /\ UNCHANGED <<w, lastEmittedMs, pending>>
  <2>1. /\ call'.data = call.data /\ call'.op = call.op /\ call'.buf = rest
        /\ call'.pc = call.pc
    BY <1>1, <1>8, MoreEffect
  <2>2. Held' = rest \o call.data
    <3>1. (rest \o <<>>) \o call.data = rest \o call.data
      BY <1>1, HeldSimple, Zenon
    <3>2. Held' = (call'.buf \o pending'.buf) \o call'.data
      BY DEF Held
    <3> QED
      BY <1>2, <1>8, <2>1, <3>1, <3>2, Zenon
  <2>3. WholeInv' /\ Len(file') > 0
    BY <1>1, <1>2, <1>4, <1>5, <1>6, <2>2, OrderGrows
  <2>4. EmptyInv'
    BY <1>1, <1>8, <2>1, <2>3 DEF OrderInv, EmptyInv
  <2> QED
    BY <2>3, <2>4 DEF OrderInv
<1> QED
  BY <1>3, <1>7, <1>8

(* NewRecorder: the prelude is item 1. *)
LEMMA OrderNew ==
  ASSUME TypeOK, RecInv, OrderInv, NewRecorder
  PROVE  OrderInv'
<1>1. /\ file' = <<Prelude>> /\ when' = Items("resize", 1)
      /\ UNCHANGED <<pending, call>> /\ call.pc = "idle" /\ ~pending.has
  BY DEF NewRecorder, RecInv, FileInv
<1>2. call.buf = <<>> /\ call.data = <<>> /\ pending.buf = <<>>
  BY <1>1 DEF OrderInv, EmptyInv
<1>3. Held' = <<>>
  <2>1. <<>> \in Seq(Nat)
    OBVIOUS
  <2> QED
    BY <1>1, <1>2, <2>1, HeldSimple DEF Held
<1>4. Payloads(file') = <<Prelude.data>> /\ Len(file') = 1
  BY <1>1 DEF Payloads
<1>5. Len(when') = 1
  BY <1>1 DEF Items
<1>6. Ids(1) = <<1>>
  BY DEF Ids
<1>7. Whole(<<<<1>>>>, <<>>, <<1>>)
  <2>1. <<1>> \in Seq(Nat)
    OBVIOUS
  <2> QED
    BY <2>1, WholeFirst
<1>8. WholeInv'
  BY <1>3, <1>4, <1>5, <1>6, <1>7, SpecialFrames DEF WholeInv
<1> QED
  BY <1>1, <1>2, <1>4, <1>8 DEF OrderInv, EmptyInv

(* A crash: a torn frame holds nothing. *)
LEMMA OrderCrash ==
  ASSUME TypeOK, TypeOK', RecInv, OrderInv, Crash
  PROVE  OrderInv'
<1>1. /\ w = "open" /\ UNCHANGED <<pending, call, when>>
      /\ file' = file \/ file' = Append(file, Torn)
  BY DEF Crash
<1>2. Held' = Held /\ Len(file) > 0
  BY <1>1 DEF Held, RecInv, FileInv
<1>3. CASE file' = file
  BY <1>1, <1>2, <1>3 DEF OrderInv, EmptyInv, WholeInv
<1>4. CASE file' = Append(file, Torn)
  <2>1. Held = <<>> \o Held'
    BY <1>2, HeldTyped, NoItems
  <2>2. WholeInv' /\ Len(file') > 0
    BY <1>1, <1>2, <1>4, <2>1, SpecialFrames, OrderGrows
  <2> QED
    BY <1>1, <2>2 DEF OrderInv, EmptyInv
<1> QED
  BY <1>1, <1>3, <1>4

(* The initial state. *)
LEMMA OrderInit == Init => OrderInv
<1> SUFFICES ASSUME Init PROVE OrderInv
  OBVIOUS
<1>1. file = <<>> /\ Len(file) = 0 /\ when = <<>> /\ call = Idle /\ pending = NoPending
  BY DEF Init
<1>2. /\ call.pc = "idle" /\ call.buf = <<>> /\ call.data = <<>> /\ pending.buf = <<>>
      /\ ~pending.has
  BY <1>1 DEF Idle, NoPending
<1> QED
  BY <1>1, <1>2 DEF OrderInv, EmptyInv, WholeInv

(* The inductive strengthening of OrderKept. *)
OrderedInv == RecorderInv /\ (~damaged => OrderInv)

(* Every step keeps it. *)
LEMMA OrderStep == OrderedInv /\ [Next]_vars => OrderedInv'
<1> SUFFICES ASSUME OrderedInv, [Next]_vars, ~damaged' PROVE RecorderInv' /\ OrderInv'
  BY InvStep DEF OrderedInv
<1>1. RecorderInv' /\ TypeOK'
  BY InvStep DEF OrderedInv, RecorderInv
<1>2. ~damaged /\ ~WriteFails
  <2>1. ~WriteFails
    BY DEF WriteFails
  <2>2. damaged' = damaged
    BY <2>1 DEF Next, NewRecorder, NewRecorderFails, Write, WriteIn,
       RecordResize, StampResize, Close, Spacer, SpacerOf, Bridged, EmitOutput, EmitResize,
       Crash, Tick, ReadPrelude, NextFrame, NextEOF, vars, recVars
  <2> QED
    BY <2>1, <2>2
<1>3. TypeOK /\ RecInv /\ OrderInv
  BY <1>2 DEF OrderedInv, RecorderInv, CleanInv, RecInv
<1>4. ASSUME UNCHANGED <<call, pending, file, when>> PROVE OrderInv'
  <2>1. Held' = Held
    BY <1>4 DEF Held
  <2> QED
    BY <1>3, <1>4, <2>1 DEF OrderInv, EmptyInv, WholeInv
<1>5. ASSUME NewRecorderFails \/ Tick \/ ReadPrelude \/ NextFrame \/ NextEOF \/ UNCHANGED vars
      PROVE  UNCHANGED <<call, pending, file, when>>
  BY <1>5 DEF NewRecorderFails, Tick, ReadPrelude, NextFrame, NextEOF, vars, recVars
<1>6. OrderInv'
  BY <1>1, <1>2, <1>3, <1>4, <1>5, OrderNew, OrderWrite, OrderResize, OrderStamp, OrderClose,
     OrderBridge, OrderEmitOutput, OrderEmitResize, OrderCrash DEF Next
<1> QED
  BY <1>1, <1>6

(* The inductive invariant of OrderKept holds throughout. *)
LEMMA OrderedHolds == Spec => []OrderedInv
<1>1. Init => OrderedInv
  BY InitInv, OrderInit DEF OrderedInv
<1> QED
  BY <1>1, OrderStep, PTL DEF Spec

(* The types, the recorder's own times and the decoder's sum, for every     *)
(* bucket, delta and spacer width, every payload limit and every clock.     *)
THEOREM RecorderInvariant == Spec => []RecorderInv
<1> QED
  BY InitInv, InvStep, PTL DEF Spec

(* recorder.go: the decoder, which adds up deltas cut to their field's      *)
(* width and spacers, shows every resize at the millisecond it was recorded *)
(* and every byte at its bucket; while the file grows, after a close and    *)
(* after a crash.                                                           *)
THEOREM DecodedTimeHolds == Spec => []DecodedTime
<1>1. RecorderInv => DecodedTime
  <2> SUFFICES ASSUME RecorderInv, ~damaged PROVE DecodedTime
    BY DEF DecodedTime
  <2> DEFINE s == reader.shown.data
             t == reader.shown.at
  <2>1. Timed(when, t, s) /\ s \in Seq(Nat)
    BY TypeNow DEF RecorderInv, CleanInv, ReaderInv, ReaderSet
  <2> HIDE DEF s, t
  <2>2. ASSUME NEW i \in ToSet(s) PROVE ItemAt(when[i], t)
    <3>1. PICK j \in 1 .. Len(s) : i = s[j]
      BY <2>1, <2>2 DEF ToSet
    <3> QED
      BY <2>1, <3>1 DEF Timed
  <2> QED
    BY <2>2 DEF DecodedTime, ItemAt, s, t
<1> QED
  BY <1>1, RecorderInvariant, PTL

(* recorder.go: what was recorded is on disk or still in memory, in order   *)
(* and once, across chains of frames, spacers, resizes and a crash.         *)
THEOREM OrderKeptHolds == Spec => []OrderKept
<1>1. OrderedInv => OrderKept
  <2> SUFFICES ASSUME OrderedInv, ~damaged PROVE OrderKept
    BY DEF OrderKept
  <2>1. /\ TypeOK /\ OrderInv /\ file \in Seq(FrameSet) /\ when \in Seq(Record)
        /\ call.buf \in Seq(Nat) /\ pending.buf \in Seq(Nat) /\ call.data \in Seq(Nat)
        /\ call.buf \o pending.buf \in Seq(Nat)
    BY TypeNow, HeldTyped DEF OrderedInv, RecorderInv
  <2> DEFINE fs == FlattenSeq(Payloads(file))
             a == call.buf
             b == pending.buf
             c == call.data
  <2>2. [i \in DOMAIN when |-> i] = Ids(Len(when))
    <3>1. DOMAIN when = 1 .. Len(when)
      BY <2>1
    <3> QED
      BY <3>1 DEF Ids
  <2>3. ((fs \o a) \o b) \o c = Ids(Len(when))
    <3>1. CASE Len(file) = 0
      <4>1. file = <<>> /\ when = <<>> /\ a = <<>> /\ b = <<>> /\ c = <<>>
        BY <2>1, <3>1 DEF OrderInv, EmptyInv
      <4>2. Payloads(file) = <<>>
        BY <4>1 DEF Payloads
      <4>3. fs = <<>>
        BY <4>2 DEF FlattenSeq
      <4>4. Ids(Len(when)) = <<>>
        BY <4>1 DEF Ids
      <4>5. <<>> \o <<>> = <<>>
        OBVIOUS
      <4> QED
        BY <4>1, <4>3, <4>4, <4>5, Zenon
    <3>2. CASE Len(file) > 0
      <4>1. Payloads(file) \in Seq(Seq(Nat)) /\ Len(Payloads(file)) > 0
        BY <2>1, <3>2, PayloadsGrow, SpecialFrames
      <4>2. Whole(Payloads(file), Held, Ids(Len(when)))
        BY <2>1, <3>2 DEF OrderInv, WholeInv
      <4>3. fs \in Seq(Nat) /\ fs \o Held = Ids(Len(when))
        BY <4>1, <4>2, WholeFlattened
      <4> HIDE DEF fs
      <4>4. /\ (fs \o a) \o b = fs \o (a \o b)
            /\ (fs \o (a \o b)) \o c = fs \o ((a \o b) \o c)
        BY <2>1, <4>3, Joined, Zenon
      <4> QED
        BY <4>3, <4>4, Zenon DEF Held
    <3>3. Len(file) = 0 \/ Len(file) > 0
      BY <2>1
    <3> QED
      BY <3>1, <3>2, <3>3, Zenon
  <2> QED
    BY <2>2, <2>3, Zenon DEF OrderKept, Payloads
<1> QED
  BY <1>1, OrderedHolds, PTL

-----------------------------------------------------------------------------
(* Recording: what the recorder, the file and the decoder implement. *)

(* d is the items a + 1 .. b, in order. *)
RunOf(d, a, b) == b = a + Len(d) /\ \A j \in 1 .. Len(d) : d[j] = a + j

(* Whether a frame holds items is in its type. *)
Full(f) == f.data # <<>> <=> f.type \notin {"spacer", "torn"}

(* The frames hold the items in order; e[k] is the last one in the first k. *)
Runs(fl, e) ==
  /\ e \in [0 .. Len(fl) -> Nat] /\ e[0] = 0
  /\ \A k \in 0 .. Len(fl) : e[k] <= e[Len(fl)]
  /\ \A k \in 1 .. Len(fl) : Full(fl[k]) /\ RunOf(fl[k].data, e[k - 1], e[k])

(* A run can be cut ... *)
LEMMA RunCut ==
  ASSUME NEW d \in Seq(Nat), NEW r \in Seq(Nat), NEW a \in Nat, NEW b \in Nat,
         RunOf(d \o r, a, b)
  PROVE  RunOf(d, a, a + Len(d)) /\ RunOf(r, a + Len(d), b)
<1>1. Len(d \o r) = Len(d) + Len(r) /\ Len(d) \in Nat /\ Len(r) \in Nat
  OBVIOUS
<1>2. \A j \in 1 .. Len(d) : (d \o r)[j] = d[j]
  OBVIOUS
<1>3. \A j \in 1 .. Len(r) : (d \o r)[Len(d) + j] = r[j]
  OBVIOUS
<1> DEFINE x == d \o r
<1>4. b = a + Len(x) /\ \A j \in 1 .. Len(x) : x[j] = a + j
  BY DEF RunOf
<1> HIDE DEF x
<1>5. ASSUME NEW j \in 1 .. Len(r) PROVE r[j] = a + Len(d) + j
  <2>1. Len(d) + j \in 1 .. Len(x)
    BY <1>1 DEF x
  <2>2. x[Len(d) + j] = a + (Len(d) + j)
    BY <1>4, <2>1
  <2>3. x[Len(d) + j] = r[j]
    BY <1>3 DEF x
  <2> QED
    BY <1>1, <2>2, <2>3
<1>6. ASSUME NEW j \in 1 .. Len(d) PROVE d[j] = a + j
  <2>1. j \in 1 .. Len(x)
    BY <1>1 DEF x
  <2>2. x[j] = d[j]
    BY <1>2 DEF x
  <2> QED
    BY <1>4, <2>1, <2>2
<1>7. b = a + Len(d) + Len(r)
  BY <1>1, <1>4 DEF x
<1> QED
  BY <1>1, <1>5, <1>6, <1>7 DEF RunOf

(* ... and continued. *)
LEMMA RunJoin ==
  ASSUME NEW d \in Seq(Nat), NEW r \in Seq(Nat), NEW a \in Nat, NEW b \in Nat, NEW c \in Nat,
         RunOf(d, a, b), RunOf(r, b, c)
  PROVE  RunOf(d \o r, a, c)
<1>1. Len(d \o r) = Len(d) + Len(r) /\ Len(d) \in Nat /\ Len(r) \in Nat
  OBVIOUS
<1>2. \A j \in 1 .. Len(d \o r) :
        (d \o r)[j] = IF j <= Len(d) THEN d[j] ELSE r[j - Len(d)]
  OBVIOUS
<1>3. ASSUME NEW j \in 1 .. Len(d \o r) PROVE (d \o r)[j] = a + j
  <2>1. j <= Len(d) => j \in 1 .. Len(d)
    BY <1>1
  <2>2. ~(j <= Len(d)) => j - Len(d) \in 1 .. Len(r)
    BY <1>1
  <2> QED
    BY <1>1, <1>2, <2>1, <2>2 DEF RunOf
<1> QED
  BY <1>1, <1>3 DEF RunOf

(* New items are a run. *)
LEMMA NewRun ==
  ASSUME TypeOK, NEW n \in Nat
  PROVE  NewItems(n) \in Seq(Nat) /\ RunOf(NewItems(n), Len(when), Len(when) + n)
<1>1. Len(when) \in Nat
  BY TypeNow
<1>2. /\ NewItems(n) \in Seq(Nat) /\ Len(NewItems(n)) = n
      /\ \A j \in 1 .. n : NewItems(n)[j] = Len(when) + j
  BY <1>1 DEF NewItems
<1> QED
  BY <1>1, <1>2 DEF RunOf

(* The last item of a run. *)
LEMMA RunLast ==
  ASSUME NEW d \in Seq(Nat), NEW a \in Nat, NEW b \in Nat, RunOf(d, a, b)
  PROVE  /\ d = <<>> => b = a
         /\ d # <<>> => b > a /\ Last(d) = b
<1>1. Len(d) \in Nat /\ (d # <<>> => Len(d) > 0) /\ (d = <<>> => Len(d) = 0)
  OBVIOUS
<1>2. d # <<>> => Len(d) \in 1 .. Len(d)
  BY <1>1
<1> QED
  BY <1>1, <1>2 DEF RunOf, Last

(* A frame that continues the file. *)
LEMMA RunsGrow ==
  ASSUME NEW fl \in Seq(FrameSet), NEW f \in FrameSet, NEW e, NEW b \in Nat,
         Runs(fl, e), Full(f), RunOf(f.data, e[Len(fl)], b)
  PROVE  \E g : /\ Runs(Append(fl, f), g) /\ g[Len(fl) + 1] = b
                /\ \A k \in 0 .. Len(fl) : g[k] = e[k]
<1> DEFINE n == Len(fl)
           h == Append(fl, f)
           g == [k \in 0 .. n + 1 |-> IF k <= n THEN e[k] ELSE b]
<1>1. /\ n \in Nat /\ Len(h) = n + 1 /\ h[n + 1] = f
      /\ \A k \in 1 .. n : h[k] = fl[k]
  OBVIOUS
<1>2. e \in [0 .. n -> Nat] /\ e[0] = 0 /\ \A k \in 0 .. n : e[k] \in Nat /\ e[k] <= e[n]
  BY <1>1 DEF Runs
<1>3. e[n] <= b
  <2>1. f.data \in Seq(Nat)
    BY DEF FrameSet
  <2>2. Len(f.data) \in Nat
    BY <2>1
  <2> QED
    BY <1>1, <1>2, <2>2 DEF RunOf
<1> HIDE DEF h
<1>4. /\ g \in [0 .. n + 1 -> Nat] /\ g[n + 1] = b
      /\ \A k \in 0 .. n : g[k] = e[k]
  BY <1>1, <1>2
<1> HIDE DEF g
<1>5. \A k \in 0 .. n + 1 : g[k] <= g[n + 1]
  <2> SUFFICES ASSUME NEW k \in 0 .. n + 1 PROVE g[k] <= g[n + 1]
    OBVIOUS
  <2>1. CASE k = n + 1
    BY <1>4, <2>1
  <2>2. CASE k # n + 1
    <3>1. k \in 0 .. n /\ n \in 0 .. n
      BY <1>1, <2>2
    <3> QED
      BY <1>2, <1>3, <1>4, <3>1
  <2> QED
    BY <2>1, <2>2
<1>6. \A k \in 1 .. n + 1 : Full(h[k]) /\ RunOf(h[k].data, g[k - 1], g[k])
  <2> SUFFICES ASSUME NEW k \in 1 .. n + 1
               PROVE  Full(h[k]) /\ RunOf(h[k].data, g[k - 1], g[k])
    OBVIOUS
  <2>1. CASE k = n + 1
    <3>1. k - 1 = n /\ n \in 0 .. n
      BY <1>1, <2>1
    <3> QED
      BY <1>1, <1>4, <2>1, <3>1
  <2>2. CASE k # n + 1
    <3>1. k \in 1 .. n /\ k \in 0 .. n /\ k - 1 \in 0 .. n
      BY <1>1, <2>2
    <3> QED
      BY <1>1, <1>4, <3>1 DEF Runs
  <2> QED
    BY <2>1, <2>2
<1>7. g[0] = 0
  BY <1>1, <1>2, <1>4
<1>8. Runs(h, g)
  BY <1>1, <1>4, <1>5, <1>6, <1>7 DEF Runs
<1> QED
  BY <1>4, <1>8 DEF h

(* Which of the buffers are not empty where. *)
FullInv ==
  /\ pending.has => pending.buf # <<>>
  /\ call.pc \in {"bridgeOutput", "output"} =>
        call.buf # <<>> /\ (call.op = "write" => call.data # <<>>)
  /\ call.pc \in {"bridgeResize", "resize"} => call.data # <<>>

(* A step of the recorder that neither records nor writes, ... *)
Quiet ==
  /\ UNCHANGED <<file, when, reader>> /\ Held' = Held /\ clock <= clock'
  /\ \/ w' = w
     \/ w = "open" /\ w' = "closed" /\ Held = <<>>
     \/ w \in {"none", "open"} /\ w' = "crashed"

(* ... one that records new items, ... *)
Records ==
  \E n \in Nat, kind \in {"byte", "resize"} :
     /\ n > 0 /\ when' = when \o Items(kind, n) /\ Held' = Held \o NewItems(n)
     /\ w = "open" /\ UNCHANGED <<w, clock, file, reader>>

(* ... and one that writes a frame with the front of what is held. *)
Emits ==
  \E f \in FrameSet :
     /\ Full(f) /\ file' = Append(file, f) /\ Held = f.data \o Held'
     /\ w = "open" /\ UNCHANGED <<clock, when, reader>>
     /\ \/ w' = w
        \/ w' = "closed" /\ Held' = <<>> /\ f.data # <<>>
        \/ w' = "crashed" /\ f.data = <<>>

(* Write. *)
LEMMA WriteRecords ==
  ASSUME TypeOK, RecInv, EmptyInv, FullInv, NEW n \in 1 .. MaxItems, Write(n)
  PROVE  Records /\ FullInv'
<1> DEFINE b == FlooredBucket
           d == NewItems(n)
<1>1. /\ pending \in PendingSet /\ pending.buf \in Seq(Nat)
      /\ w = "open" /\ call = Idle /\ b \in Nat /\ d \in Seq(Nat) /\ n \in Nat /\ n > 0
      /\ when' = when \o Items("byte", n) /\ UNCHANGED <<w, clock, file, reader>>
  BY TypeNow, HeldTyped, WriteEffect
<1>2. call.pc = "idle" /\ call.buf = <<>> /\ call.data = <<>>
  BY <1>1, IdleTyped DEF EmptyInv
<1>3. Held = pending.buf
  BY <1>1, <1>2, HeldSimple DEF Held
<1>4. d # <<>>
  <2>1. RunOf(d, Len(when), Len(when) + n) /\ Len(when) \in Nat
    BY <1>1, NewRun, TypeNow
  <2> QED
    BY <1>1, <2>1, RunLast
<1>5. CASE pending.has /\ StartFlush("write", d, b)
  <2>1. /\ ~pending'.has /\ pending'.buf = <<>>
        /\ call'.pc = "bridgeOutput" /\ call'.op = "write"
        /\ call'.data = d /\ call'.buf = pending.buf
    BY <1>1, <1>5, FlushTyped DEF StartFlush, NoPending
  <2>2. Held' = Held \o d
    BY <1>1, <1>3, <2>1, HeldSimple DEF Held
  <2>3. FullInv'
    BY <1>4, <1>5, <2>1 DEF FullInv
  <2> QED
    BY <1>1, <2>2, <2>3 DEF Records
<1>6. CASE pending' = Buffer(d, b) /\ call' = call
  <2>1. pending'.has /\ pending'.buf = IF pending.has THEN pending.buf \o d ELSE d
    BY <1>1, <1>6, BufferTyped
  <2>2. pending'.buf = pending.buf \o d /\ pending'.buf \in Seq(Nat)
    <3>1. CASE pending.has
      BY <1>1, <2>1, <3>1
    <3>2. CASE ~pending.has
      <4>1. pending.buf = <<>>
        BY <3>2 DEF EmptyInv
      <4> QED
        BY <1>1, <2>1, <3>2, <4>1, NoItems
    <3> QED
      BY <3>1, <3>2
  <2>3. Held' = Held \o d
    BY <1>2, <1>3, <1>6, <2>2, HeldSimple DEF Held
  <2>4. pending'.buf # <<>>
    <3> HIDE DEF d
    <3>1. Len(pending.buf \o d) = Len(pending.buf) + Len(d) /\ Len(d) > 0 /\ Len(pending.buf) \in Nat
      BY <1>1, <1>4
    <3> QED
      BY <2>2, <3>1
  <2>5. FullInv'
    BY <1>2, <1>6, <2>4 DEF FullInv
  <2> QED
    BY <1>1, <2>3, <2>5 DEF Records
<1> QED
  BY <1>5, <1>6, WriteEffect

(* RecordResize and Close. *)
LEMMA FlushQuiet ==
  ASSUME TypeOK, RecInv, EmptyInv, FullInv, RecordResize \/ Close
  PROVE  Quiet /\ FullInv'
<1>1. /\ UNCHANGED <<clock, file, when, reader>> /\ call = Idle /\ w = "open"
      /\ clock \in Nat /\ pending \in PendingSet /\ pending.buf \in Seq(Nat)
      /\ <<>> \in Seq(Nat)
  BY TypeNow, HeldTyped DEF RecordResize, Close
<1>2. call.pc = "idle" /\ call.buf = <<>> /\ call.data = <<>>
  BY <1>1, IdleTyped DEF EmptyInv
<1>3. Held = pending.buf
  BY <1>1, <1>2, HeldSimple DEF Held
<1>4. clock <= clock'
  BY <1>1
<1>5. CASE pending.has
  <2>1. PICK op \in {"resize", "close"} : StartFlush(op, <<>>, 0) /\ w' = w
    BY <1>5 DEF RecordResize, Close
  <2>2. /\ ~pending'.has /\ pending'.buf = <<>>
        /\ call'.pc = "bridgeOutput" /\ call'.op = op /\ call'.data = <<>>
        /\ call'.buf = pending.buf
    BY <1>1, <2>1, FlushTyped DEF StartFlush, NoPending
  <2>3. Held' = Held
    BY <1>1, <1>3, <2>2, HeldSimple DEF Held
  <2>4. FullInv'
    BY <1>5, <2>2 DEF FullInv
  <2> QED
    BY <1>1, <1>4, <2>1, <2>3, <2>4 DEF Quiet
<1>6. CASE ~pending.has
  <2>1. /\ pending' = pending /\ call'.pc \in {"idle", "stamp"}
        /\ call'.buf = <<>> /\ call'.data = <<>>
        /\ w' = w \/ w' = "closed"
    BY <1>1, <1>2, <1>6, IdleTyped DEF RecordResize, Close, Idle
  <2>2. pending.buf = <<>>
    BY <1>6 DEF EmptyInv
  <2>3. Held' = Held /\ Held = <<>>
    BY <1>1, <1>2, <1>3, <2>1, <2>2, HeldSimple DEF Held
  <2>4. FullInv'
    BY <1>6, <2>1 DEF FullInv
  <2> QED
    BY <1>1, <1>4, <2>1, <2>3, <2>4 DEF Quiet
<1> QED
  BY <1>5, <1>6

(* The resize is numbered once nothing is pending. *)
LEMMA StampRecords ==
  ASSUME TypeOK, RecInv, EmptyInv, FullInv, StampResize
  PROVE  Records /\ FullInv'
<1>1. /\ UNCHANGED <<clock, pending, file, w, reader>> /\ call.pc = "stamp" /\ w = "open"
  BY DEF StampResize
<1>2. ~pending.has /\ pending.buf = <<>> /\ call.buf = <<>> /\ call.data = <<>>
  BY <1>1 DEF RecInv, PendingInv, EmptyInv
<1>3. /\ NewItems(1) \in Seq(Nat) /\ when' = when \o Items("resize", 1)
      /\ call'.pc = "bridgeResize" /\ call'.data = NewItems(1)
  BY StampEffect
<1>4. call'.buf = call.buf
  <2>1. call \in CallSet
    BY TypeNow
  <2> QED
    BY <2>1 DEF StampResize, CallSet
<1>5. Held = <<>> /\ Held' = NewItems(1) /\ <<>> \o NewItems(1) = NewItems(1)
  <2>1. <<>> \in Seq(Nat)
    OBVIOUS
  <2> QED
    BY <1>1, <1>2, <1>3, <1>4, <2>1, HeldSimple, NoItems DEF Held
<1>6. NewItems(1) # <<>>
  <2>1. RunOf(NewItems(1), Len(when), Len(when) + 1) /\ Len(when) \in Nat
    BY NewRun, TypeNow
  <2> QED
    BY <1>3, <2>1, RunLast
<1>7. FullInv'
  BY <1>1, <1>2, <1>3, <1>6 DEF FullInv
<1>8. 1 \in Nat /\ 1 > 0
  OBVIOUS
<1> QED
  BY <1>1, <1>3, <1>5, <1>7, <1>8, Zenon DEF Records

(* Spacers hold nothing, and reaching the frame itself changes nothing. *)
LEMMA BridgeEmits ==
  ASSUME TypeOK, RecInv, EmptyInv, FullInv, Spacer \/ Bridged
  PROVE  (Quiet \/ Emits) /\ FullInv'
<1>1. CASE Spacer
  <2>1. PICK adv \in 1 .. SpacerMax :
           file' = Append(file, Frame("spacer", 0, <<>>, adv, lastEmittedMs + adv))
    BY <1>1, SpacerEffect
  <2>2. UNCHANGED <<call, pending, when, clock, w, reader>> /\ w = "open"
    BY <1>1 DEF Spacer, SpacerOf
  <2> DEFINE a == lastEmittedMs + adv
             f == Frame("spacer", 0, <<>>, adv, a)
  <2>3. a \in Nat /\ adv \in 0 .. SpacerMax /\ 0 \in 0 .. DeltaMax /\ <<>> \in Seq(Nat)
    BY TypeNow, RecorderAssumption
  <2>4. file' = Append(file, f)
    BY <2>1
  <2> HIDE DEF a
  <2>5. f \in FrameSet /\ f.data = <<>> /\ f.type = "spacer"
    BY <2>3 DEF Frame, FrameSet
  <2> HIDE DEF f
  <2>6. Held' = Held /\ Held = <<>> \o Held'
    BY <2>2, HeldTyped, NoItems DEF Held
  <2>7. Full(f)
    BY <2>5 DEF Full
  <2>8. FullInv'
    BY <2>2 DEF FullInv
  <2> QED
    BY <2>2, <2>4, <2>5, <2>6, <2>7, <2>8 DEF Emits
<1>2. CASE Bridged
  <2>1. /\ UNCHANGED <<pending, file, when, clock, w, reader>>
        /\ call.pc \in {"bridgeOutput", "bridgeResize"}
        /\ call'.data = call.data /\ call'.op = call.op /\ call'.buf = call.buf
        /\ call'.pc = IF call.pc = "bridgeOutput" THEN "output" ELSE "resize"
    BY <1>2, BridgedEffect DEF Bridged
  <2>2. Held' = Held
    BY <2>1 DEF Held
  <2>3. FullInv'
    BY <2>1 DEF FullInv
  <2>4. clock \in Nat /\ clock <= clock'
    BY <2>1, TypeNow
  <2> QED
    BY <2>1, <2>2, <2>3, <2>4 DEF Quiet
<1> QED
  BY <1>1, <1>2

(* The resize frame. *)
LEMMA ResizeEmits ==
  ASSUME TypeOK, RecInv, EmptyInv, FullInv, EmitResize
  PROVE  Emits /\ FullInv'
<1>1. /\ UNCHANGED <<pending, when, clock, w, reader>> /\ call.pc = "resize" /\ w = "open"
      /\ call' = Idle /\ call \in CallSet /\ lastEmittedMs \in Nat /\ call.target \in Nat
      /\ call.data \in Seq(Nat) /\ SpacerMax \in Nat
  BY TypeNow, RecorderAssumption DEF EmitResize, CallSet
<1>2. ~pending.has /\ pending.buf = <<>> /\ call.buf = <<>> /\ call.data # <<>>
  BY <1>1 DEF RecInv, PendingInv, EmptyInv, FullInv
<1>3. call'.pc = "idle" /\ call'.buf = <<>> /\ call'.data = <<>>
  BY <1>1 DEF Idle
<1> DEFINE delta == Delta(call.target, lastEmittedMs)
           f == Frame("resize", delta, call.data, 0, call.target)
<1>4. file' = Append(file, f) /\ delta \in 0 .. DeltaMax
  BY <1>1, DeltaFits DEF EmitResize
<1> HIDE DEF delta
<1>5. f \in FrameSet /\ f.data = call.data /\ f.type = "resize"
  <2>1. 0 \in 0 .. SpacerMax
    BY <1>1
  <2> QED
    BY <1>1, <1>4, <2>1, FrameTyped
<1> HIDE DEF f
<1>6. Held = call.data /\ Held' = <<>> /\ call.data \o <<>> = call.data
  <2>1. <<>> \in Seq(Nat)
    OBVIOUS
  <2> QED
    BY <1>1, <1>2, <1>3, <2>1, HeldSimple, NoItems DEF Held
<1>7. Full(f)
  BY <1>2, <1>5 DEF Full
<1>8. FullInv'
  BY <1>1, <1>2, <1>3 DEF FullInv
<1> QED
  BY <1>1, <1>4, <1>5, <1>6, <1>7, <1>8 DEF Emits

(* A frame of a chain; after the last, the caller goes on. *)
LEMMA OutputEmits ==
  ASSUME TypeOK, RecInv, EmptyInv, FullInv, EmitOutput
  PROVE  Emits /\ FullInv'
<1>1. /\ call \in CallSet /\ pending \in PendingSet /\ call.target \in Nat /\ call.bucket \in Nat
      /\ call.data \in Seq(Nat) /\ SpacerMax \in Nat
      /\ w = "open" /\ call.pc = "output" /\ UNCHANGED <<clock, when, reader>>
  BY TypeNow, RecorderAssumption DEF EmitOutput, CallSet
<1>2. /\ ~pending.has /\ pending.buf = <<>> /\ call.buf # <<>>
      /\ call.op = "write" => call.data # <<>>
      /\ call.op # "write" => call.data = <<>>
  BY <1>1 DEF RecInv, PendingInv, EmptyInv, FullInv
<1>3. PICK data \in Seq(Nat), rest \in Seq(Nat), delta \in 0 .. DeltaMax :
           /\ call.buf = data \o rest
           /\ call.buf # <<>> => data # <<>>
           /\ \A h, t : Timed(h, t, call.buf) => Timed(h, t, data) /\ Timed(h, t, rest)
           /\ delta = IF call.first THEN Delta(call.target, lastEmittedMs) ELSE 0
           /\ file' = Append(file, Frame("output", delta, data, 0, call.target))
           /\ \/ /\ rest = <<>> /\ lastEmittedMs' = call.target /\ AfterFlush
              \/ /\ call' = [call EXCEPT !.buf = rest, !.first = FALSE]
                 /\ rest # <<>> /\ UNCHANGED <<w, lastEmittedMs, pending>>
  BY OutputEffect, Zenon
<1> DEFINE f == Frame("output", delta, data, 0, call.target)
<1>4. file' = Append(file, f) /\ data # <<>>
  BY <1>2, <1>3
<1>5. f \in FrameSet /\ f.data = data /\ f.type = "output"
  <2>1. 0 \in 0 .. SpacerMax
    BY <1>1
  <2> QED
    BY <1>1, <2>1, FrameTyped
<1> HIDE DEF f
<1>6. Full(f)
  BY <1>4, <1>5 DEF Full
<1>7. Held = data \o (rest \o call.data)
  <2>1. call.buf \in Seq(Nat)
    BY HeldTyped
  <2>2. Held = call.buf \o call.data
    BY <1>1, <1>2, <2>1, HeldSimple DEF Held
  <2>3. (data \o rest) \o call.data = data \o (rest \o call.data)
    BY <1>1, Joined, Zenon
  <2> QED
    BY <1>3, <2>2, <2>3, Zenon
<1>8. CASE rest = <<>> /\ AfterFlush
  <2>1. Held = data \o call.data
    BY <1>1, <1>7, <1>8, NoItems
  <2>2. /\ call'.pc \in {"idle", "stamp"}
        /\ call.op = "write" => pending' = Buffer(call.data, call.bucket)
        /\ call.op # "write" => pending' = pending
        /\ w' = IF call.op = "close" THEN "closed" ELSE w
    BY <1>1, <1>8, AfterEffect
  <2>3. call'.buf = <<>> /\ call'.data = <<>>
    BY <1>8 DEF AfterFlush, Idle
  <2>4. pending'.buf = call.data /\ (pending'.has => call.data # <<>>)
    <3>1. CASE call.op = "write"
      BY <1>1, <1>2, <2>2, <3>1, BufferTyped
    <3>2. CASE call.op # "write"
      BY <1>2, <2>2, <3>2
    <3> QED
      BY <3>1, <3>2
  <2>5. Held' = call.data
    BY <1>1, <2>3, <2>4, HeldSimple DEF Held
  <2>6. FullInv'
    BY <2>2, <2>4 DEF FullInv
  <2>7. w' = w \/ (w' = "closed" /\ Held' = <<>>)
    BY <1>2, <2>2, <2>5
  <2> QED
    BY <1>1, <1>4, <1>5, <1>6, <2>1, <2>5, <2>6, <2>7 DEF Emits
<1>9. CASE /\ call' = [call EXCEPT !.buf = rest, !.first = FALSE]
           /\ rest # <<>> /\ UNCHANGED <<w, lastEmittedMs, pending>>
  <2>1. /\ call'.data = call.data /\ call'.op = call.op /\ call'.buf = rest
        /\ call'.pc = call.pc
    BY <1>1, <1>9, MoreEffect
  <2>2. Held' = rest \o call.data
    <3>1. (rest \o <<>>) \o call.data = rest \o call.data
      BY <1>1, HeldSimple, Zenon
    <3>2. Held' = (call'.buf \o pending'.buf) \o call'.data
      BY DEF Held
    <3> QED
      BY <1>2, <1>9, <2>1, <3>1, <3>2, Zenon
  <2>3. FullInv'
    BY <1>1, <1>2, <1>9, <2>1 DEF FullInv
  <2> QED
    BY <1>1, <1>4, <1>5, <1>6, <1>7, <1>9, <2>2, <2>3 DEF Emits
<1> QED
  BY <1>3, <1>8, <1>9

(* A crash: a torn frame holds nothing. *)
LEMMA CrashEmits ==
  ASSUME TypeOK, FullInv, Crash
  PROVE  (Quiet \/ Emits) /\ FullInv'
<1>1. /\ w = "open" /\ UNCHANGED <<pending, call, when, clock, reader>> /\ w' = "crashed"
      /\ file' = file \/ file' = Append(file, Torn)
  BY DEF Crash
<1>2. Held' = Held /\ Held = <<>> \o Held' /\ clock \in Nat /\ clock <= clock'
  BY <1>1, HeldTyped, NoItems, TypeNow DEF Held
<1>3. FullInv'
  BY <1>1 DEF FullInv
<1>4. Full(Torn)
  BY SpecialFrames DEF Full
<1> QED
  BY <1>1, <1>2, <1>3, <1>4, SpecialFrames DEF Quiet, Emits

(* Time, a failed start. *)
LEMMA OtherQuiet ==
  ASSUME TypeOK, FullInv, Tick \/ NewRecorderFails
  PROVE  Quiet /\ FullInv'
<1>1. UNCHANGED <<pending, call, when, file, reader>> /\ clock \in Nat
  BY TypeNow DEF Tick, NewRecorderFails
<1>2. Held' = Held /\ FullInv'
  BY <1>1 DEF Held, FullInv
<1>3. clock <= clock'
  BY <1>1 DEF Tick, NewRecorderFails
<1>4. w' = w \/ (w \in {"none", "open"} /\ w' = "crashed")
  BY DEF Tick, NewRecorderFails
<1> QED
  BY <1>1, <1>2, <1>3, <1>4 DEF Quiet

(* The decoder has shown what the frames it has read hold, and what is held *)
(* comes after the file.                                                    *)
RunsInv(e) ==
  /\ Runs(file, e) /\ RunOf(Held, e[Len(file)], Len(when))
  /\ LastShown = e[reader.pos]

(* Nothing was recorded, and nothing is shown, ahead of its clock. *)
TimesInv ==
  /\ \A i \in 1 .. Len(when) : when[i].at <= clock
  /\ reader.st = "start" => reader.shown.at = 0
  /\ reader.st = "loop" => reader.shown.at <= reader.cumMs

(* The lengths of what is held. *)
LEMMA RunLength ==
  ASSUME NEW a \in Seq(Nat), NEW b \in Seq(Nat), NEW c \in Seq(Nat), NEW n \in Nat, NEW m \in Nat,
         RunOf(a \o b \o c, n, m)
  PROVE  m - Len(a) - Len(b) - Len(c) = n
<1> DEFINE x == a \o b
<1>1. x \in Seq(Nat) /\ Len(x) = Len(a) + Len(b) /\ Len(a) \in Nat /\ Len(b) \in Nat
  OBVIOUS
<1>2. RunOf(x \o c, n, m)
  OBVIOUS
<1> HIDE DEF x
<1>3. Len(x \o c) = Len(x) + Len(c)
  BY <1>1, ConcatProperties, Zenon
<1>4. Len(c) \in Nat
  OBVIOUS
<1> QED
  BY <1>1, <1>2, <1>3, <1>4 DEF RunOf

(* What is saved is what the file holds, before a step ... *)
LEMMA SavedNow ==
  ASSUME TypeOK, NEW n \in Nat, RunOf(Held, n, Len(when))
  PROVE  Saved = n
<1>1. Len(when) \in Nat
  BY TypeNow
<1> QED
  BY <1>1, HeldTyped, RunLength DEF Saved, Held

(* ... and after it. *)
LEMMA SavedNext ==
  ASSUME TypeOK', NEW n \in Nat, RunOf(Held', n, Len(when'))
  PROVE  Saved' = n
<1>1. Len(when') \in Nat /\ call'.buf \in Seq(Nat) /\ pending'.buf \in Seq(Nat) /\ call'.data \in Seq(Nat)
  BY DEF TypeOK
<1>2. RunOf(call'.buf \o pending'.buf \o call'.data, n, Len(when'))
  BY DEF Held
<1>3. Len(when') - Len(call'.buf) - Len(pending'.buf) - Len(call'.data) = n
  BY <1>1, <1>2, RunLength
<1> QED
  BY <1>3 DEF Saved

(* Where the file ends. *)
LEMMA RunsEnd ==
  ASSUME TypeOK, InFile, NEW e, Runs(file, e)
  PROVE  /\ Len(file) \in Nat /\ e[Len(file)] \in Nat
         /\ reader.pos \in 0 .. Len(file) /\ e[reader.pos] \in Nat
<1>1. Len(file) \in Nat /\ reader.pos \in 0 .. Len(file)
  BY TypeNow DEF InFile, ReaderSet
<1> QED
  BY <1>1 DEF Runs

(* A quiet step is one of Recording's, or none. *)
LEMMA QuietPlays ==
  ASSUME TypeOK, TypeOK', InFile, NEW e, RunsInv(e), Quiet, damaged' = damaged
  PROVE  RunsInv(e)' /\ [Log!Next]_(Log!vars)
<1>1. UNCHANGED <<file, when, reader>> /\ Held' = Held
  BY DEF Quiet
<1>2. LastShown' = LastShown /\ reader'.shown.at = reader.shown.at
  BY <1>1 DEF LastShown
<1>3. RunsInv(e)'
  BY <1>1, <1>2 DEF RunsInv
<1> DEFINE n == e[Len(file)]
<1>4. n \in Nat /\ RunOf(Held, n, Len(when)) /\ RunOf(Held', n, Len(when'))
  BY <1>1, RunsEnd DEF RunsInv
<1> HIDE DEF n
<1>5. Saved = n /\ Saved' = n
  BY <1>4, SavedNow, SavedNext
<1>6. CASE w' = w
  BY <1>1, <1>2, <1>3, <1>5, <1>6 DEF Log!vars
<1>7. CASE w = "open" /\ w' = "closed" /\ Held = <<>>
  <2>1. n = Len(when)
    BY <1>4, <1>7, TypeNow DEF RunOf
  <2>2. Log!Close
    BY <1>1, <1>2, <1>5, <1>7, <2>1 DEF Log!Close
  <2> QED
    BY <1>3, <2>2 DEF Log!Next
<1>8. CASE w \in {"none", "open"} /\ w' = "crashed"
  BY <1>1, <1>2, <1>3, <1>5, <1>8 DEF Log!Next, Log!Crash
<1> QED
  BY <1>3, <1>6, <1>7, <1>8 DEF Quiet

(* Items behind others. *)
LEMMA ItemsBehind ==
  ASSUME NEW h \in Seq(Record), NEW x \in Seq(Record), NEW n, Len(x) = n
  PROVE  /\ Len(h \o x) = Len(h) + n
         /\ \A i \in 1 .. Len(h) : (h \o x)[i] = h[i]
         /\ \A j \in 1 .. n : (h \o x)[Len(h) + j] = x[j]
OBVIOUS

(* What when becomes. *)
LEMMA ItemsAdded ==
  ASSUME TypeOK, NEW n \in Nat, NEW kind \in {"byte", "resize"},
         when' = when \o Items(kind, n)
  PROVE  /\ Len(when) \in Nat /\ Len(when') = Len(when) + n
         /\ \A i \in 1 .. Len(when) : when'[i] = when[i]
         /\ \A i \in (Len(when) + 1) .. Len(when') : when'[i].at = clock
<1> DEFINE x == Items(kind, n)
<1>1. when \in Seq(Record) /\ Len(when) \in Nat /\ clock \in Nat
  BY TypeNow
<1>2. x \in Seq(Record) /\ Len(x) = n /\ \A j \in 1 .. n : x[j].at = clock
  BY <1>1 DEF Items, Record
<1> HIDE DEF x
<1>3. /\ Len(when \o x) = Len(when) + n
      /\ \A i \in 1 .. Len(when) : (when \o x)[i] = when[i]
      /\ \A j \in 1 .. n : (when \o x)[Len(when) + j] = x[j]
  BY <1>1, <1>2, ItemsBehind, Zenon
<1>4. when' = when \o x
  BY DEF x
<1>5. ASSUME NEW i \in (Len(when) + 1) .. (Len(when) + n) PROVE when'[i].at = clock
  <2>1. i - Len(when) \in 1 .. n /\ Len(when) + (i - Len(when)) = i
    BY <1>1
  <2> QED
    BY <1>2, <1>3, <1>4, <2>1
<1> QED
  BY <1>1, <1>3, <1>4, <1>5

(* New items are recorded. *)
LEMMA RecordsPlays ==
  ASSUME TypeOK, TypeOK', InFile, TimesInv, NEW e, RunsInv(e), Records, damaged' = damaged
  PROVE  RunsInv(e)' /\ Log!Next /\ TimesInv'
<1>1. PICK n \in Nat, kind \in {"byte", "resize"} :
        /\ n > 0 /\ when' = when \o Items(kind, n) /\ Held' = Held \o NewItems(n)
        /\ w = "open" /\ UNCHANGED <<w, clock, file, reader>>
  BY DEF Records
<1>2. LastShown' = LastShown /\ reader'.shown.at = reader.shown.at
  BY <1>1 DEF LastShown
<1>3. /\ Len(when) \in Nat /\ Len(when') = Len(when) + n
      /\ \A i \in 1 .. Len(when) : when'[i] = when[i]
      /\ \A i \in (Len(when) + 1) .. Len(when') : when'[i].at = clock
  BY <1>1, ItemsAdded
<1> DEFINE m == e[Len(file)]
<1>4. m \in Nat /\ RunOf(Held, m, Len(when)) /\ Held \in Seq(Nat)
  BY RunsEnd, HeldTyped DEF RunsInv
<1>5. RunOf(Held', m, Len(when'))
  <2>1. NewItems(n) \in Seq(Nat) /\ RunOf(NewItems(n), Len(when), Len(when) + n)
    BY NewRun
  <2>2. Len(when) + n \in Nat
    BY <1>3
  <2> HIDE DEF m
  <2>3. RunOf(Held \o NewItems(n), m, Len(when) + n)
    BY <1>3, <1>4, <2>1, <2>2, RunJoin
  <2> QED
    BY <1>1, <1>3, <2>3
<1>6. RunsInv(e)'
  BY <1>1, <1>2, <1>5 DEF RunsInv
<1> HIDE DEF m
<1>7. Saved = m /\ Saved' = m
  BY <1>4, <1>5, SavedNow, SavedNext
<1>8. when'[Len(when')].at = clock
  BY <1>1, <1>3
<1>9. \A i \in 1 .. Len(when) : when[i].at <= clock
  BY DEF TimesInv
<1>10. Log!Record
  <2>1. Len(when') > Len(when)
    BY <1>1, <1>3
  <2> QED
    BY <1>1, <1>2, <1>3, <1>7, <1>8, <1>9, <2>1 DEF Log!Record
<1>11. TimesInv'
  <2>1. ASSUME NEW i \in 1 .. Len(when') PROVE when'[i].at <= clock'
    <3>1. CASE i \in 1 .. Len(when)
      BY <1>1, <1>3, <1>9, <3>1
    <3>2. CASE i \notin 1 .. Len(when)
      <4>1. i \in (Len(when) + 1) .. Len(when') /\ clock \in Nat
        BY <1>1, <1>3, <3>2, TypeNow
      <4> QED
        BY <1>1, <1>3, <4>1
    <3> QED
      BY <3>1, <3>2
  <2> QED
    BY <1>1, <2>1 DEF TimesInv
<1> QED
  BY <1>6, <1>10, <1>11 DEF Log!Next

(* A frame saves what it holds. *)
LEMMA EmitsPlays ==
  ASSUME TypeOK, TypeOK', InFile, NEW e, RunsInv(e), Emits, damaged' = damaged
  PROVE  (\E g : RunsInv(g)') /\ [Log!Next]_(Log!vars)
<1>1. PICK f \in FrameSet :
        /\ Full(f) /\ file' = Append(file, f) /\ Held = f.data \o Held'
        /\ w = "open" /\ UNCHANGED <<clock, when, reader>>
        /\ \/ w' = w
           \/ w' = "closed" /\ Held' = <<>> /\ f.data # <<>>
           \/ w' = "crashed" /\ f.data = <<>>
  BY DEF Emits
<1>2. LastShown' = LastShown /\ reader'.shown.at = reader.shown.at
  BY <1>1 DEF LastShown
<1> DEFINE m == e[Len(file)]
           d == f.data
           b == m + Len(d)
<1>3. /\ m \in Nat /\ RunOf(Held, m, Len(when)) /\ Held' \in Seq(Nat) /\ d \in Seq(Nat)
      /\ file \in Seq(FrameSet) /\ Len(file) \in Nat /\ Len(when) \in Nat
  BY RunsEnd, HeldTypedNext, TypeNow DEF RunsInv, FrameSet
<1>4. b \in Nat
  BY <1>3
<1>5. RunOf(d, m, b) /\ RunOf(Held', b, Len(when))
  BY <1>1, <1>3, RunCut
<1> HIDE DEF b, d, m
<1>6. Runs(file, e) /\ LastShown = e[reader.pos] /\ RunOf(f.data, e[Len(file)], b)
  BY <1>5 DEF RunsInv, d, m
<1>7. PICK g : /\ Runs(Append(file, f), g) /\ g[Len(file) + 1] = b
               /\ \A k \in 0 .. Len(file) : g[k] = e[k]
  BY <1>1, <1>3, <1>4, <1>6, RunsGrow
<1>8. RunsInv(g)'
  <2>1. Len(file') = Len(file) + 1
    BY <1>1, <1>3
  <2>2. reader.pos \in 0 .. Len(file)
    BY <1>6, RunsEnd
  <2> QED
    BY <1>1, <1>2, <1>5, <1>6, <1>7, <2>1, <2>2 DEF RunsInv
<1>9. Saved = m /\ Saved' = b
  BY <1>1, <1>3, <1>4, <1>5, SavedNow, SavedNext
<1>10. CASE d # <<>>
  <2>1. b > m /\ b <= Len(when) /\ (Held' = <<>> => b = Len(when))
    <3>1. b > m
      BY <1>3, <1>4, <1>5, <1>10, RunLast
    <3>2. b <= Len(when)
      BY <1>3, <1>4, <1>5 DEF RunOf
    <3>3. Held' = <<>> => b = Len(when)
      BY <1>3, <1>4, <1>5, RunLast
    <3> QED
      BY <3>1, <3>2, <3>3
  <2>2. b \in (m + 1) .. Len(when)
    BY <1>3, <1>4, <2>1
  <2>3. w' = "open" \/ (w' = "closed" /\ b = Len(when))
    BY <1>1, <1>10, <2>1 DEF d
  <2>4. Log!Save
    BY <1>1, <1>2, <1>9, <2>2, <2>3 DEF Log!Save
  <2> QED
    BY <1>8, <2>4 DEF Log!Next
<1>11. CASE d = <<>>
  <2>1. b = m
    BY <1>3, <1>4, <1>5, <1>11, RunLast
  <2>2. w' = w \/ w' = "crashed"
    BY <1>1, <1>11 DEF d
  <2>3. [Log!Crash]_(Log!vars)
    BY <1>1, <1>2, <1>9, <2>1, <2>2 DEF Log!Crash, Log!vars
  <2> QED
    BY <1>8, <2>3 DEF Log!Next
<1> QED
  BY <1>10, <1>11

(* The decoder shows the items of the next frame that holds any. *)
LEMMA FrameShown ==
  ASSUME TypeOK, InFile, NEW e, RunsInv(e), UNCHANGED recVars,
         reader.pos + 1 \in 1 .. Len(file),
         file[reader.pos + 1].type \notin {"spacer", "torn"},
         reader'.pos = reader.pos + 1,
         reader'.shown.data = file[reader.pos + 1].data,
         Timed(when, reader'.shown.at, reader'.shown.data),
         reader.shown.at <= reader'.shown.at
  PROVE  LastShown' = e[reader'.pos] /\ Log!Show
<1> DEFINE k == reader.pos + 1
           d == file[k].data
           a == e[reader.pos]
           b == e[k]
           n == e[Len(file)]
           t == reader'.shown.at
<1>1. /\ reader.pos \in 0 .. Len(file) /\ Len(file) \in Nat /\ a \in Nat /\ n \in Nat
      /\ k \in 0 .. Len(file) /\ k \in 1 .. Len(file) /\ k - 1 = reader.pos
  BY RunsEnd DEF RunsInv
<1>2. b \in Nat /\ b <= n
  BY <1>1 DEF RunsInv, Runs
<1>3. RunOf(d, a, b) /\ d # <<>>
  BY <1>1 DEF RunsInv, Runs, Full
<1>4. d \in Seq(Nat)
  <2>1. file \in Seq(FrameSet)
    BY TypeNow
  <2>2. file[k] \in FrameSet
    BY <1>1, <2>1
  <2> QED
    BY <2>2 DEF FrameSet
<1>5. LastShown = a /\ RunOf(Held, n, Len(when)) /\ Timed(when, t, d) /\ reader'.shown.data = d
  BY DEF RunsInv
<1>6. reader'.pos = k /\ reader.shown.at <= t
  OBVIOUS
<1> HIDE DEF k, d, a, b, n, t
<1>7. b > a /\ Last(d) = b
  BY <1>1, <1>2, <1>3, <1>4, RunLast
<1>8. LastShown' = b
  BY <1>3, <1>5, <1>7 DEF LastShown
<1>9. Saved = n /\ Saved' = Saved
  <2>1. Saved' = Saved
    BY DEF recVars, Saved
  <2> QED
    BY <1>1, <1>5, <2>1, SavedNow
<1>10. \A i \in (a + 1) .. b : Log!InTime(when[i], t)
  <2> SUFFICES ASSUME NEW i \in (a + 1) .. b PROVE Log!InTime(when[i], t)
    OBVIOUS
  <2>1. Len(d) \in Nat /\ b = a + Len(d)
    BY <1>3, <1>4 DEF RunOf
  <2>2. i - a \in 1 .. Len(d) /\ a + (i - a) = i
    BY <1>1, <2>1
  <2>3. d[i - a] = i
    BY <1>3, <2>2 DEF RunOf
  <2>4. ItemAt(when[i], t)
    BY <1>5, <2>2, <2>3 DEF Timed
  <2> QED
    BY <2>4 DEF ItemAt, Log!InTime
<1>11. b \in (a + 1) .. n
  BY <1>1, <1>2, <1>7
<1>12. UNCHANGED <<w, when, damaged>>
  BY DEF recVars
<1>13. Log!Show
  BY <1>5, <1>6, <1>8, <1>9, <1>10, <1>11, <1>12 DEF Log!Show, t
<1> QED
  BY <1>6, <1>8, <1>13 DEF b

(* The decoder shows the next items, or nothing changes. *)
LEMMA ReadsPlays ==
  ASSUME RecorderInv, RecorderInv', ~damaged, ~damaged', TimesInv, NEW e, RunsInv(e),
         ReadPrelude \/ NextFrame \/ NextEOF
  PROVE  RunsInv(e)' /\ TimesInv' /\ [Log!Next]_(Log!vars)
<1>1. /\ TypeOK /\ InFile /\ UNCHANGED recVars /\ UNCHANGED <<file, when, w, damaged, clock>>
      /\ reader \in ReaderSet /\ ReaderInv
  BY TypeNow DEF RecorderInv, CleanInv, ReadPrelude, NextFrame, NextEOF, recVars
<1>2. Timed(when, reader'.shown.at, reader'.shown.data)
  BY <1>1 DEF RecorderInv, CleanInv, ReaderInv
<1>3. Saved' = Saved /\ Held' = Held
  BY <1>1 DEF recVars, Saved, Held
<1>4. ASSUME LastShown' = e[reader'.pos] PROVE RunsInv(e)'
  BY <1>1, <1>3, <1>4 DEF RunsInv
<1>5. ASSUME reader'.st = "start" => reader'.shown.at = 0,
             reader'.st = "loop" => reader'.shown.at <= reader'.cumMs
      PROVE  TimesInv'
  BY <1>1, <1>5 DEF TimesInv
<1>6. ASSUME reader'.shown = reader.shown
      PROVE  LastShown' = LastShown /\ UNCHANGED Log!vars
  <2>1. LastShown' = LastShown /\ reader'.shown.at = reader.shown.at
    BY <1>6 DEF LastShown
  <2> QED
    BY <1>1, <1>3, <2>1 DEF Log!vars
<1>7. LastShown = e[reader.pos]
  BY DEF RunsInv
<1>8. /\ reader.pos \in Nat /\ reader.cumMs \in Nat /\ reader.shown.at \in Nat
      /\ reader.st = "start" => reader.pos = 0 /\ reader.cumMs = 0 /\ reader.shown.at = 0
      /\ reader.st = "loop" => reader.shown.at <= reader.cumMs
  BY <1>1 DEF ReaderSet, ReaderInv, TimesInv
<1>9. CASE ReadPrelude
  <2>1. reader.st = "start"
    BY <1>9 DEF ReadPrelude
  <2>2. CASE reader'.st = "error" /\ reader'.shown = reader.shown /\ reader'.pos = reader.pos
    BY <1>4, <1>5, <1>6, <1>7, <2>2
  <2>3. CASE /\ reader'.st = "loop" /\ reader'.pos = 1 /\ reader'.cumMs = reader.cumMs
             /\ Len(file) > 0 /\ file[1].type = "resize"
             /\ reader'.shown.data = file[1].data /\ reader'.shown.at = 0
    <3>1. reader.pos + 1 = 1 /\ 1 \in 1 .. Len(file)
      BY <1>1, <1>8, <2>1, <2>3, TypeNow
    <3>2. LastShown' = e[reader'.pos] /\ Log!Show
      BY <1>1, <1>2, <1>8, <2>1, <2>3, <3>1, FrameShown
    <3> QED
      BY <1>4, <1>5, <1>8, <2>1, <2>3, <3>2 DEF Log!Next
  <2> QED
    BY <1>1, <1>9, <2>2, <2>3, PreludeEffect
<1>10. CASE NextFrame
  <2> DEFINE k == reader.pos + 1
  <2>1. CASE reader'.st = "garbage" /\ reader'.shown = reader.shown /\ reader'.pos = reader.pos
    BY <1>4, <1>5, <1>6, <1>7, <2>1
  <2>2. CASE /\ reader.st = "loop" /\ reader'.st = "loop" /\ reader'.pos = k
             /\ k \in 1 .. Len(file) /\ file[k].type # "torn"
             /\ reader'.cumMs = reader.cumMs + Advance(file[k])
             /\ \/ file[k].type = "spacer" /\ reader'.shown = reader.shown
                \/ /\ file[k].type # "spacer"
                   /\ reader'.shown.data = file[k].data
                   /\ reader'.shown.at = reader'.cumMs
    <3>1. Advance(file[k]) \in Nat
      <4>1. file[k] \in FrameSet
        BY <1>1, <2>2, TypeNow
      <4> QED
        BY <4>1, RecorderAssumption DEF FrameSet, Advance
    <3>2. reader.shown.at <= reader'.cumMs
      BY <1>8, <2>2, <3>1
    <3>3. reader'.shown.at <= reader'.cumMs
      BY <1>8, <2>2, <3>1, <3>2
    <3>4. TimesInv'
      BY <1>5, <2>2, <3>3
    <3>5. CASE file[k].type = "spacer" /\ reader'.shown = reader.shown
      <4>1. RunOf(file[k].data, e[k - 1], e[k]) /\ Full(file[k]) /\ k - 1 = reader.pos
        <5>1. k - 1 = reader.pos
          BY <1>8
        <5>2. k \in 1 .. Len(file)
          BY <2>2
        <5> HIDE DEF k
        <5>3. RunOf(file[k].data, e[k - 1], e[k]) /\ Full(file[k])
          BY <5>2, Zenon DEF RunsInv, Runs
        <5> QED
          BY <5>1, <5>3
      <4>2. file[k].data = <<>>
        BY <3>5, <4>1 DEF Full
      <4>3. e[k] \in Nat /\ e[reader.pos] \in Nat
        <5>1. Len(file) \in Nat /\ k \in 0 .. Len(file) /\ reader.pos \in 0 .. Len(file)
          BY <1>1, <1>8, <2>2, TypeNow
        <5> QED
          BY <5>1 DEF RunsInv, Runs
      <4>4. e[k] = e[reader.pos]
        BY <4>1, <4>2, <4>3 DEF RunOf
      <4> QED
        BY <1>4, <1>6, <1>7, <2>2, <3>4, <3>5, <4>4
    <3>6. CASE /\ file[k].type # "spacer" /\ reader'.shown.data = file[k].data
               /\ reader'.shown.at = reader'.cumMs
      <4>1. LastShown' = e[reader'.pos] /\ Log!Show
        BY <1>1, <1>2, <2>2, <3>2, <3>6, FrameShown
      <4> QED
        BY <1>4, <3>4, <4>1 DEF Log!Next
    <3> QED
      BY <2>2, <3>5, <3>6
  <2> QED
    BY <1>1, <1>10, <2>1, <2>2, NextFrameEffect
<1>11. CASE NextEOF
  <2>1. reader'.st = "eof" /\ reader'.pos = reader.pos /\ reader'.shown = reader.shown
    BY <1>1, <1>11, EOFEffect
  <2> QED
    BY <1>4, <1>5, <1>6, <1>7, <2>1
<1> QED
  BY <1>9, <1>10, <1>11

(* The prelude is the first item. *)
LEMMA NewPlays ==
  ASSUME TypeOK, TypeOK', InFile, RecInv, EmptyInv, FullInv, TimesInv, NEW e, RunsInv(e),
         NewRecorder
  PROVE  FullInv' /\ TimesInv' /\ (\E g : RunsInv(g)') /\ Log!Next
<1>1. /\ file' = <<Prelude>> /\ when' = Items("resize", 1) /\ w = "none" /\ w' = "open"
      /\ UNCHANGED <<pending, call, clock, damaged, reader>> /\ file = <<>>
      /\ when = <<>> /\ call.pc = "idle" /\ ~pending.has
  BY DEF NewRecorder, InFile, RecInv, FileInv
<1>2. call.buf = <<>> /\ call.data = <<>> /\ pending.buf = <<>>
  BY <1>1 DEF EmptyInv
<1>3. Held = <<>> /\ Held' = <<>>
  <2>1. <<>> \in Seq(Nat)
    OBVIOUS
  <2> QED
    BY <1>1, <1>2, <2>1, HeldSimple DEF Held
<1>4. FullInv'
  BY <1>1 DEF FullInv
<1>5. clock \in Nat /\ reader.pos = 0 /\ LastShown' = LastShown /\ reader'.shown = reader.shown
  <2>1. reader.pos \in Nat /\ Len(file) = 0 /\ reader.pos <= Len(file)
    BY <1>1, TypeNow DEF ReaderSet, InFile
  <2> QED
    BY <1>1, <2>1, TypeNow DEF LastShown
<1>6. Len(when') = 1 /\ when'[1].kind = "resize" /\ when'[1].at = clock
  BY <1>1, <1>5 DEF Items
<1>7. TimesInv'
  BY <1>1, <1>5, <1>6 DEF TimesInv
<1>8. Runs(file, e) /\ Len(file) = 0 /\ e[0] = 0 /\ LastShown = e[reader.pos]
  BY <1>1 DEF RunsInv, Runs
<1>9. RunOf(Prelude.data, e[Len(file)], 1) /\ Full(Prelude) /\ Prelude \in FrameSet
  <2>1. Prelude \in FrameSet /\ Prelude.type = "resize" /\ Prelude.data = <<1>>
    BY SpecialFrames
  <2>2. RunOf(<<1>>, 0, 1) /\ <<1>> # <<>>
    BY DEF RunOf
  <2> QED
    BY <1>8, <2>1, <2>2 DEF Full
<1>10. PICK g : /\ Runs(Append(file, Prelude), g) /\ g[Len(file) + 1] = 1
                /\ \A k \in 0 .. Len(file) : g[k] = e[k]
  <2>1. file \in Seq(FrameSet) /\ 1 \in Nat
    BY TypeNow
  <2>2. /\ file \in Seq(FrameSet) /\ Prelude \in FrameSet /\ 1 \in Nat
        /\ Runs(file, e) /\ Full(Prelude) /\ RunOf(Prelude.data, e[Len(file)], 1)
    BY <1>8, <1>9, <2>1
  <2> QED
    BY ONLY <2>2, RunsGrow
<1>11. Append(file, Prelude) = file' /\ Len(file') = 1
  BY <1>1
<1>12. RunOf(Held', 1, Len(when'))
  BY <1>3, <1>6 DEF RunOf
<1>13. g[1] = 1 /\ g[0] = e[0]
  BY <1>8, <1>10
<1>14. RunsInv(g)'
  BY <1>1, <1>5, <1>8, <1>10, <1>11, <1>12, <1>13 DEF RunsInv
<1>15. Saved' = 1
  BY <1>12, SavedNext
<1>16. Log!Begin
  BY <1>1, <1>5, <1>6, <1>15 DEF Log!Begin
<1> QED
  BY <1>4, <1>7, <1>14, <1>16 DEF Log!Next

(* The times, where nothing is recorded or read. *)
LEMMA TimesKept ==
  ASSUME TypeOK, TypeOK', TimesInv, UNCHANGED <<when, reader>>, clock <= clock'
  PROVE  TimesInv'
<1>1. when \in Seq(Record) /\ clock \in Nat /\ clock' \in Nat
  BY TypeNow DEF TypeOK
<1>2. ASSUME NEW i \in 1 .. Len(when) PROVE when[i].at <= clock'
  <2>1. when[i] \in Record
    BY <1>1
  <2>2. when[i].at \in Nat
    BY <2>1 DEF Record
  <2> QED
    BY <1>1, <2>2 DEF TimesInv
<1> QED
  BY <1>2 DEF TimesInv

(* What LogPlays needs on top of OrderedInv, while no write failed. *)
PlayInv == FullInv /\ TimesInv /\ (\E e : RunsInv(e))

(* The inductive strengthening of LogPlays. *)
PlaysInv == OrderedInv /\ (~damaged => PlayInv)

(* It holds initially, in an initial state of Recording. *)
LEMMA PlaysInit == Init => PlaysInv /\ Log!Init
<1> SUFFICES ASSUME Init PROVE PlaysInv /\ Log!Init
  OBVIOUS
<1>1. OrderedInv
  BY InitInv, OrderInit DEF OrderedInv
<1>2. /\ file = <<>> /\ Len(file) = 0 /\ when = <<>> /\ Len(when) = 0 /\ call = Idle
      /\ pending = NoPending /\ clock = 0 /\ w = "none" /\ damaged = FALSE
  BY DEF Init
<1>3. /\ call.pc = "idle" /\ call.buf = <<>> /\ call.data = <<>> /\ pending.buf = <<>>
      /\ ~pending.has
  BY <1>2 DEF Idle, NoPending
<1>4. reader.st = "start" /\ reader.pos = 0 /\ reader.shown.at = 0 /\ LastShown = 0
  BY DEF Init, NotRead, LastShown
<1>5. Held = <<>>
  <2>1. <<>> \in Seq(Nat)
    OBVIOUS
  <2> QED
    BY <1>3, <2>1, HeldSimple DEF Held
<1>6. RunsInv([k \in 0 .. 0 |-> 0])
  <2> DEFINE e == [k \in 0 .. 0 |-> 0]
  <2>1. e \in [0 .. 0 -> Nat] /\ e[0] = 0 /\ \A k \in 0 .. 0 : e[k] <= e[0]
    OBVIOUS
  <2> HIDE DEF e
  <2>2. Runs(file, e)
    BY <1>2, <2>1 DEF Runs
  <2>3. RunOf(Held, e[Len(file)], Len(when))
    BY <1>2, <1>5, <2>1 DEF RunOf
  <2>4. RunsInv(e)
    BY <1>4, <2>1, <2>2, <2>3 DEF RunsInv
  <2> QED
    BY <2>4 DEF e
<1>7. FullInv /\ TimesInv
  BY <1>2, <1>3, <1>4 DEF FullInv, TimesInv
<1>8. Saved = 0
  <2>1. /\ Len(when) = 0 /\ Len(call.buf) = 0
        /\ Len(pending.buf) = 0 /\ Len(call.data) = 0
    BY <1>2, <1>3
  <2> QED
    BY ONLY <2>1 DEF Saved
<1> QED
  BY <1>1, <1>2, <1>4, <1>6, <1>7, <1>8 DEF PlaysInv, PlayInv, Log!Init

(* Every step keeps it, and is a step of Recording or none. *)
LEMMA PlaysStep == PlaysInv /\ [Next]_vars => PlaysInv' /\ [Log!Next]_(Log!vars)
<1> SUFFICES ASSUME PlaysInv, [Next]_vars PROVE PlaysInv' /\ [Log!Next]_(Log!vars)
  OBVIOUS
<1>1. OrderedInv /\ OrderedInv' /\ RecorderInv /\ RecorderInv' /\ TypeOK /\ TypeOK' /\ InFile
  BY OrderStep DEF PlaysInv, OrderedInv, RecorderInv
<1>2. CASE damaged'
  <2>1. Log!Break
    <3>1. damaged' \in BOOLEAN
      BY <1>1 DEF TypeOK
    <3>2. damaged' = TRUE
      BY <1>2, <3>1
    <3> QED
      BY <3>2, Zenon DEF Log!Break
  <2> QED
    BY <1>1, <1>2, <2>1 DEF PlaysInv, Log!Next
<1>3. CASE ~damaged'
  <2>1. ~WriteFails
    BY <1>3 DEF WriteFails
  <2>2. damaged' = damaged
    BY <2>1 DEF Next, NewRecorder, NewRecorderFails, Write, WriteIn,
       RecordResize, StampResize, Close, Spacer, SpacerOf, Bridged, EmitOutput, EmitResize,
       Crash, Tick, ReadPrelude, NextFrame, NextEOF, vars, recVars
  <2>3. ~damaged /\ RecInv /\ EmptyInv /\ FullInv /\ TimesInv
    BY <1>1, <1>3, <2>2 DEF PlaysInv, PlayInv, OrderedInv, OrderInv, RecorderInv, CleanInv, RecInv
  <2>4. PICK e : RunsInv(e)
    BY <2>3 DEF PlaysInv, PlayInv
  <2>5. ASSUME Quiet, FullInv' PROVE PlayInv' /\ [Log!Next]_(Log!vars)
    <3>1. UNCHANGED <<when, reader>> /\ clock <= clock'
      BY <2>5 DEF Quiet
    <3>2. TimesInv'
      BY <1>1, <2>3, <3>1, TimesKept
    <3>3. RunsInv(e)' /\ [Log!Next]_(Log!vars)
      BY <1>1, <2>2, <2>4, <2>5, QuietPlays
    <3> QED
      BY <2>5, <3>2, <3>3 DEF PlayInv
  <2>6. ASSUME Records, FullInv' PROVE PlayInv' /\ [Log!Next]_(Log!vars)
    <3>1. RunsInv(e)' /\ Log!Next /\ TimesInv'
      BY <1>1, <2>2, <2>3, <2>4, <2>6, RecordsPlays
    <3> QED
      BY <2>6, <3>1 DEF PlayInv
  <2>7. ASSUME Emits, FullInv' PROVE PlayInv' /\ [Log!Next]_(Log!vars)
    <3>1. UNCHANGED <<clock, when, reader>> /\ clock \in Nat
      BY <1>1, <2>7, TypeNow DEF Emits
    <3>2. clock <= clock'
      BY <3>1
    <3>3. TimesInv'
      BY <1>1, <2>3, <3>1, <3>2, TimesKept
    <3>4. (\E g : RunsInv(g)') /\ [Log!Next]_(Log!vars)
      BY <1>1, <2>2, <2>4, <2>7, EmitsPlays
    <3> QED
      BY <2>7, <3>3, <3>4 DEF PlayInv
  <2>8. ASSUME NewRecorder PROVE PlayInv' /\ [Log!Next]_(Log!vars)
    <3>1. FullInv' /\ TimesInv' /\ (\E g : RunsInv(g)') /\ Log!Next
      BY <1>1, <2>3, <2>4, <2>8, NewPlays
    <3> QED
      BY <3>1 DEF PlayInv
  <2>9. ASSUME ReadPrelude \/ NextFrame \/ NextEOF PROVE PlayInv' /\ [Log!Next]_(Log!vars)
    <3>1. RunsInv(e)' /\ TimesInv' /\ [Log!Next]_(Log!vars)
      BY <1>1, <1>3, <2>3, <2>4, <2>9, ReadsPlays
    <3>2. FullInv'
      BY <2>3, <2>9 DEF FullInv, ReadPrelude, NextFrame, NextEOF, recVars
    <3> QED
      BY <3>1, <3>2 DEF PlayInv
  <2>10. ASSUME UNCHANGED vars PROVE Quiet /\ FullInv'
    <3>1. UNCHANGED <<clock, w, pending, call, file, when, reader>> /\ clock \in Nat
      BY <1>1, <2>10, TypeNow DEF vars, recVars
    <3>2. Held' = Held /\ FullInv' /\ clock <= clock'
      BY <2>3, <3>1 DEF Held, FullInv
    <3> QED
      BY <3>1, <3>2 DEF Quiet
  <2>11. ASSUME NEW n \in 1 .. MaxItems, Write(n) PROVE Records /\ FullInv'
    BY <1>1, <2>3, <2>11, WriteRecords
  <2>12. ASSUME StampResize PROVE Records /\ FullInv'
    BY <1>1, <2>3, <2>12, StampRecords
  <2>13. ASSUME RecordResize \/ Close PROVE Quiet /\ FullInv'
    BY <1>1, <2>3, <2>13, FlushQuiet
  <2>14. ASSUME Tick \/ NewRecorderFails PROVE Quiet /\ FullInv'
    BY <1>1, <2>3, <2>14, OtherQuiet
  <2>15. ASSUME Spacer \/ Bridged PROVE (Quiet \/ Emits) /\ FullInv'
    BY <1>1, <2>3, <2>15, BridgeEmits
  <2>16. ASSUME EmitOutput PROVE Emits /\ FullInv'
    BY <1>1, <2>3, <2>16, OutputEmits
  <2>17. ASSUME EmitResize PROVE Emits /\ FullInv'
    BY <1>1, <2>3, <2>17, ResizeEmits
  <2>18. ASSUME Crash PROVE (Quiet \/ Emits) /\ FullInv'
    BY <1>1, <2>3, <2>18, CrashEmits
  <2>19. PlayInv' /\ [Log!Next]_(Log!vars)
    BY <2>1, <2>5, <2>6, <2>7, <2>8, <2>9, <2>10, <2>11, <2>12, <2>13, <2>14, <2>15, <2>16,
       <2>17, <2>18 DEF Next
  <2> QED
    BY <1>1, <2>19 DEF PlaysInv
<1> QED
  BY <1>2, <1>3

(* recorder.go implements Recording: what hoot log plays is what was        *)
(* recorded, from its beginning, in order, each item once and at its time,  *)
(* for every bucket, delta and spacer width and every payload limit; a      *)
(* crash cuts the end off, Close loses nothing, and after a failed write    *)
(* nothing is promised.                                                     *)
THEOREM LogPlaysHolds == Spec => LogPlays
<1> QED
  BY PlaysInit, PlaysStep, PTL DEF Spec, LogPlays, Log!Spec

-----------------------------------------------------------------------------
(* The states a session publishes. *)

(* What waits in a channel is no older than what its client was shown, no   *)
(* newer than the Writer's state, and in order.                             *)
Ascending(x) ==
  /\ shown[x] <= state
  /\ \A i \in 1 .. Len(ech[x]) : shown[x] <= ech[x][i] /\ ech[x][i] <= state
  /\ \A i, j \in 1 .. Len(ech[x]) : i <= j => ech[x][i] <= ech[x][j]

(* Before its Subscribe a client has no events: the replay cannot be        *)
(* overtaken by one.                                                        *)
QuietBeforeStream(x) ==
  /\ x \in subs => wpc[x] = "stream"
  /\ wpc[x] # "stream" => ech[x] = <<>>

(* The inductive strengthening of TypeOK and EventsInOrder.  A state that   *)
(* is published is not the initial one.                                     *)
BusInv ==
  /\ BusTypeOK
  /\ ech \in [Watchers -> Seq(1 .. MaxState)]
  /\ spc = "publish" => state > 0
  /\ \A x \in Watchers : Ascending(x) /\ QuietBeforeStream(x)

-----------------------------------------------------------------------------

(* The initial state is in the inductive invariant. *)
LEMMA BusInitInv == BusInit => BusInv
<1> SUFFICES ASSUME BusInit PROVE BusInv
  OBVIOUS
<1> USE EventBusAssumption DEF BusInit, OpenWriter
<1>1. /\ ech \in [Watchers -> Seq(1 .. MaxState)]
      /\ \A x \in Watchers : ech[x] = <<>> /\ Len(ech[x]) = 0
  OBVIOUS
<1>2. BusTypeOK
  <2>1. failed \in BOOLEAN
    BY Zenon
  <2>2. QED
    BY <1>1, <2>1 DEF BusTypeOK
<1>3. \A x \in Watchers : Ascending(x) /\ QuietBeforeStream(x)
  BY <1>1 DEF Ascending, QuietBeforeStream
<1>4. QED
  BY <1>1, <1>2, <1>3 DEF BusInv

(* Publish appends the newest state, which nothing in a channel exceeds. *)
LEMMA PublishKeepsInv == BusInv /\ Publish => BusInv'
<1> SUFFICES ASSUME BusInv, Publish PROVE BusInv'
  OBVIOUS
<1> USE EventBusAssumption DEF BusInv
<1>1. /\ state' = state /\ disk' = disk /\ failed' = failed
      /\ subs' = subs /\ wpc' = wpc /\ shown' = shown /\ spc' = "idle"
      /\ state \in 1 .. MaxState
  BY DEF Publish, fileVars, BusTypeOK
<1>2. \A x \in Watchers :
        ech'[x] = IF x \in subs /\ Len(ech[x]) < EventCap
                  THEN Append(ech[x], state) ELSE ech[x]
  BY DEF Publish
<1>3. ASSUME NEW x \in Watchers
      PROVE  /\ ech'[x] \in Seq(1 .. MaxState) /\ Len(ech'[x]) <= EventCap
             /\ Ascending(x)' /\ QuietBeforeStream(x)'
  <2>1. CASE x \in subs /\ Len(ech[x]) < EventCap
    <3>1. /\ ech'[x] = Append(ech[x], state) /\ ech[x] \in Seq(1 .. MaxState)
          /\ wpc[x] = "stream"
      BY <1>2, <1>3, <2>1 DEF QuietBeforeStream
    <3>2. /\ Len(ech'[x]) = Len(ech[x]) + 1 /\ Len(ech[x]) \in Nat
          /\ ech'[x][Len(ech[x]) + 1] = state
          /\ \A i \in 1 .. Len(ech[x]) : ech'[x][i] = ech[x][i]
      BY <3>1, <1>1
    <3>3. Ascending(x)'
      BY <3>1, <3>2, <1>1, <1>3 DEF Ascending, BusTypeOK
    <3>4. QED
      BY <3>1, <3>2, <3>3, <2>1, <1>1 DEF QuietBeforeStream
  <2>2. CASE ~(x \in subs /\ Len(ech[x]) < EventCap)
    BY <2>2, <1>1, <1>2, <1>3 DEF BusTypeOK, Ascending, QuietBeforeStream
  <2>3. QED
    BY <2>1, <2>2
<1>4. ech' \in [Watchers -> Seq(1 .. MaxState)]
  <2>1. ech' = [x \in Watchers |-> ech'[x]]
    BY DEF Publish
  <2>2. QED
    BY <2>1, <1>3
<1>5. BusTypeOK'
  BY <1>1, <1>3 DEF Publish, BusTypeOK
<1>6. QED
  BY <1>1, <1>3, <1>4, <1>5

(* A client is sent the oldest event of its channel. *)
LEMMA SendEventKeepsInv ==
  ASSUME BusInv, NEW x \in Watchers, SendEvent(x)
  PROVE  BusInv' /\ shown[x] <= shown'[x]
<1> USE EventBusAssumption DEF BusInv
<1>1. /\ state' = state /\ disk' = disk /\ failed' = failed /\ spc' = spc
      /\ subs' = subs /\ wpc' = wpc /\ missed' = missed /\ wpc[x] = "stream"
      /\ ech[x] # <<>> /\ shown' = [shown EXCEPT ![x] = Head(ech[x])]
      /\ ech' = [ech EXCEPT ![x] = Tail(@)]
  BY DEF SendEvent, fileVars
<1>2. /\ ech[x] \in Seq(1 .. MaxState) /\ Len(ech[x]) \in Nat \ {0}
      /\ Head(ech[x]) = ech[x][1] /\ Head(ech[x]) \in 1 .. MaxState
      /\ Tail(ech[x]) \in Seq(1 .. MaxState)
      /\ Len(Tail(ech[x])) = Len(ech[x]) - 1
      /\ \A i \in 1 .. Len(ech[x]) - 1 : Tail(ech[x])[i] = ech[x][i + 1]
  BY <1>1
<1>3. /\ shown'[x] = ech[x][1] /\ ech'[x] = Tail(ech[x])
      /\ \A y \in Watchers \ {x} : shown'[y] = shown[y] /\ ech'[y] = ech[y]
  BY <1>1, <1>2 DEF BusTypeOK
<1>4. shown[x] <= shown'[x] /\ shown'[x] <= state
  BY <1>2, <1>3 DEF Ascending
<1>5. Ascending(x)'
  <2> DEFINE rest == Tail(ech[x])
  <2>1. \A i \in 1 .. Len(ech[x]) - 1 : ech[x][1] <= ech[x][i + 1] /\ ech[x][i + 1] <= state
    BY <1>2 DEF Ascending
  <2>2. \A i, j \in 1 .. Len(ech[x]) - 1 : i <= j => ech[x][i + 1] <= ech[x][j + 1]
    BY <1>2 DEF Ascending
  <2>3. /\ ech'[x] = rest /\ Len(rest) = Len(ech[x]) - 1
        /\ \A i \in 1 .. Len(rest) : rest[i] = ech[x][i + 1]
    BY <1>2, <1>3
  <2> HIDE DEF rest
  <2>4. \A i \in 1 .. Len(rest) : shown'[x] <= rest[i] /\ rest[i] <= state
    BY <2>1, <2>3, <1>3
  <2>5. ASSUME NEW i \in 1 .. Len(rest), NEW j \in 1 .. Len(rest), i <= j
        PROVE  rest[i] <= rest[j]
    <3>1. ech[x][i + 1] <= ech[x][j + 1]
      BY <2>2, <2>3, <2>5
    <3>2. rest[i] = ech[x][i + 1] /\ rest[j] = ech[x][j + 1]
      BY <2>3, Zenon
    <3> QED
      BY <3>1, <3>2, Zenon
  <2>6. QED
    BY <2>3, <2>4, <2>5, <1>1, <1>4 DEF Ascending
<1>6. \A y \in Watchers : Ascending(y)' /\ QuietBeforeStream(y)'
  <2>1. QuietBeforeStream(x)'
    BY <1>1 DEF QuietBeforeStream
  <2>2. ASSUME NEW y \in Watchers \ {x} PROVE Ascending(y)' /\ QuietBeforeStream(y)'
    BY <1>1, <1>3 DEF Ascending, QuietBeforeStream
  <2>3. QED
    BY <1>5, <2>1, <2>2
<1>7. BusTypeOK' /\ ech' \in [Watchers -> Seq(1 .. MaxState)]
  <2>1. ech' \in [Watchers -> Seq(1 .. MaxState)]
    BY <1>1, <1>2
  <2>2. shown' \in [Watchers -> 0 .. MaxState]
    BY <1>1, <1>2 DEF BusTypeOK
  <2>3. ASSUME NEW y \in Watchers PROVE Len(ech'[y]) <= EventCap
    <3>1. Len(ech[y]) <= EventCap
      BY DEF BusTypeOK
    <3>2. CASE y = x
      BY <1>2, <1>3, <3>1, <3>2
    <3>3. CASE y # x
      BY <1>3, <3>1, <3>3
    <3>4. QED
      BY <3>2, <3>3
  <2>4. QED
    BY <2>1, <2>2, <2>3, <1>1 DEF BusTypeOK
<1>8. QED
  BY <1>1, <1>4, <1>6, <1>7

(* Every step keeps the inductive invariant. *)
LEMMA BusStepKeepsInv == BusInv /\ [BusNext]_busVars => BusInv'
<1> SUFFICES ASSUME BusInv, [BusNext]_busVars PROVE BusInv'
  OBVIOUS
<1> USE EventBusAssumption DEF BusInv
<1>1. CASE UpdateState
  <2>1. /\ state' = state + 1 /\ state' \in 0 .. MaxState /\ state \in Nat
        /\ disk' \in 0 .. MaxState /\ spc' \in {"return", "publish"}
        /\ subs' = subs /\ ech' = ech /\ wpc' = wpc /\ shown' = shown /\ missed' = missed
    BY <1>1 DEF UpdateState, Update, BusTypeOK
  <2>2. failed' \in BOOLEAN
    BY <1>1, Zenon DEF UpdateState, Update, BusTypeOK
  <2>3. BusTypeOK'
    BY <2>1, <2>2 DEF BusTypeOK
  <2>4. ASSUME NEW x \in Watchers PROVE Ascending(x)' /\ QuietBeforeStream(x)'
    <3>1. /\ shown[x] \in Nat /\ Len(ech[x]) \in Nat
          /\ \A i \in 1 .. Len(ech[x]) : ech[x][i] \in Nat
      BY DEF BusTypeOK
    <3>2. QED
      BY <3>1, <2>1 DEF Ascending, QuietBeforeStream
  <2>5. QED
    BY <2>1, <2>3, <2>4
<1>2. CASE Publish
  BY <1>2, PublishKeepsInv
<1>3. CASE CloseBus
  BY <1>3 DEF CloseBus, fileVars, BusTypeOK, Ascending, QuietBeforeStream
<1>4. ASSUME NEW x \in Watchers, Replay(x)
      PROVE  BusInv'
  BY <1>4 DEF Replay, fileVars, BusTypeOK, Ascending, QuietBeforeStream
<1>5. ASSUME NEW x \in Watchers, Subscribe(x)
      PROVE  BusInv'
  BY <1>5 DEF Subscribe, fileVars, BusTypeOK, Ascending, QuietBeforeStream
<1>6. ASSUME NEW x \in Watchers, SendEvent(x)
      PROVE  BusInv'
  BY <1>6, SendEventKeepsInv
<1>7. ASSUME NEW x \in Watchers, StreamEnds(x)
      PROVE  BusInv'
  <2>1. /\ state' = state /\ disk' = disk /\ failed' = failed /\ spc' = spc
        /\ shown' = shown /\ missed' = missed
        /\ wpc' = [wpc EXCEPT ![x] = "gone"] /\ subs' = subs \ {x}
        /\ ech' = [ech EXCEPT ![x] = <<>>]
    BY <1>7 DEF StreamEnds, fileVars
  <2>2. ech'[x] = <<>> /\ Len(ech'[x]) = 0 /\ ech' \in [Watchers -> Seq(1 .. MaxState)]
        /\ \A y \in Watchers \ {x} : ech'[y] = ech[y]
    BY <2>1
  <2>3. BusTypeOK'
    <3>1. wpc' \in [Watchers -> {"idle", "replayed", "stream", "gone"}]
      BY <2>1 DEF BusTypeOK
    <3>2. ASSUME NEW y \in Watchers
          PROVE  ech'[y] \in Seq(1 .. MaxState) /\ Len(ech'[y]) <= EventCap
      <4>1. CASE y = x
        BY <4>1, <2>2
      <4>2. CASE y # x
        BY <4>2, <2>2 DEF BusTypeOK
      <4>3. QED
        BY <4>1, <4>2
    <3>3. QED
      BY <3>1, <3>2, <2>1 DEF BusTypeOK
  <2>4. \A y \in Watchers : Ascending(y)' /\ QuietBeforeStream(y)'
    BY <2>1, <2>2 DEF BusTypeOK, Ascending, QuietBeforeStream
  <2>5. QED
    BY <2>1, <2>2, <2>3, <2>4
<1>8. CASE UNCHANGED busVars
  BY <1>8 DEF busVars, fileVars, BusTypeOK, Ascending, QuietBeforeStream
<1>9. QED
  BY <1>1, <1>2, <1>3, <1>4, <1>5, <1>6, <1>7, <1>8 DEF BusNext

(* The inductive invariant holds throughout. *)
THEOREM BusInvariant == BusSpec => []BusInv
BY BusInitInv, BusStepKeepsInv, PTL DEF BusSpec

(* session.go, eventbus.go: whatever was dropped, and whatever was          *)
(* published between a client's replay and its Subscribe, the states a      *)
(* client of /events is shown come in the order they were written.          *)
THEOREM EventsInOrderHolds == BusSpec => EventsInOrder
<1>1. BusInv /\ [BusNext]_busVars => [\A x \in Watchers : shown[x] <= shown'[x]]_shown
  <2> SUFFICES ASSUME BusInv, [BusNext]_busVars, NEW x \in Watchers, shown' # shown
               PROVE  shown[x] <= shown'[x]
    OBVIOUS
  <2>1. shown \in [Watchers -> 0 .. MaxState] /\ shown[x] <= state
    BY DEF BusInv, BusTypeOK, Ascending
  <2>2. ASSUME NEW y \in Watchers, Replay(y) PROVE shown[x] <= shown'[x]
    BY <2>1, <2>2 DEF Replay
  <2>3. ASSUME NEW y \in Watchers, SendEvent(y) PROVE shown[x] <= shown'[x]
    <3>1. shown[y] <= shown'[y]
      BY <2>3, SendEventKeepsInv
    <3>2. QED
      BY <3>1, <2>1, <2>3 DEF SendEvent
  <2>4. QED
    BY <2>2, <2>3
       DEF BusNext, UpdateState, Publish, CloseBus, Subscribe,
           StreamEnds, busVars
<1>2. QED
  BY <1>1, BusInvariant, PTL DEF BusSpec, EventsInOrder

(* What NewestOnItsWay says holds from the replay on. *)
NewestInv ==
  \A x \in Watchers :
     spc = "idle" /\ x \notin missed /\ (x \in subs \/ wpc[x] = "replayed") =>
        Newest(x) = state

(* Newest depends on what a client has alone. *)
LEMMA NewestStays ==
  ASSUME NEW x, ech'[x] = ech[x], shown'[x] = shown[x]
  PROVE  Newest(x)' = Newest(x)
BY DEF Newest

(* A published event is the newest ... *)
LEMMA NewestPublished ==
  ASSUME NEW S, NEW q \in Seq(S), NEW n \in S
  PROVE  Append(q, n) # <<>> /\ Append(q, n)[Len(Append(q, n))] = n
<1>1. /\ Len(Append(q, n)) = Len(q) + 1 /\ Append(q, n)[Len(q) + 1] = n
      /\ Len(q) \in Nat /\ Len(<<>>) = 0
  OBVIOUS
<1>2. Len(q) + 1 # 0
  BY <1>1
<1>3. QED
  BY <1>1, <1>2, Zenon

(* ... and sending the oldest leaves the newest. *)
LEMMA NewestSent ==
  ASSUME NEW S, NEW q \in Seq(S), q # <<>>
  PROVE  /\ Tail(q) = <<>> => Head(q) = q[Len(q)]
         /\ Tail(q) # <<>> => Tail(q)[Len(Tail(q))] = q[Len(q)]
<1>0. Len(<<>>) = 0
  OBVIOUS
<1>1. /\ Len(q) \in Nat \ {0} /\ Head(q) = q[1] /\ Len(Tail(q)) = Len(q) - 1
      /\ Tail(q) \in Seq(S)
      /\ \A i \in 1 .. Len(q) - 1 : Tail(q)[i] = q[i + 1]
  OBVIOUS
<1>2. Tail(q) # <<>> => Len(Tail(q)) # 0
  BY <1>1
<1> DEFINE t == Tail(q)
           m == Len(q)
<1>3. /\ m \in Nat \ {0} /\ Head(q) = q[1] /\ Len(t) = m - 1
      /\ \A i \in 1 .. m - 1 : t[i] = q[i + 1]
      /\ t = <<>> => Len(t) = 0
      /\ t # <<>> => Len(t) # 0
  BY <1>1, <1>2, <1>0
<1> HIDE DEF t, m
<1>4. t = <<>> => m = 1
  BY <1>3
<1>5. t # <<>> => m - 1 \in 1 .. m - 1 /\ (m - 1) + 1 = m
  BY <1>3
<1>6. t # <<>> => t[m - 1] = q[m]
  BY <1>3, <1>5
<1>7. (t = <<>> => Head(q) = q[m]) /\ (t # <<>> => t[Len(t)] = q[m])
  BY <1>3, <1>4, <1>6
<1>8. QED
  BY <1>7 DEF t, m

(* Every step keeps NewestInv. *)
LEMMA NewestStep == BusInv /\ NewestInv /\ [BusNext]_busVars => NewestInv'
<1> SUFFICES ASSUME BusInv, NewestInv, [BusNext]_busVars PROVE NewestInv'
  OBVIOUS
<1> USE DEF fileVars
<1>1. CASE UpdateState
  BY <1>1 DEF UpdateState, NewestInv
<1>2. CASE Publish
  <2> SUFFICES ASSUME NEW x \in Watchers, x \notin missed', x \in subs' \/ wpc'[x] = "replayed"
               PROVE  Newest(x)' = state'
    BY DEF NewestInv
  <2>1. /\ ech'[x] = IF x \in subs /\ Len(ech[x]) < EventCap
                     THEN Append(ech[x], state) ELSE ech[x]
        /\ state' = state /\ shown'[x] = shown[x]
        /\ x \in subs \/ wpc[x] = "replayed"
        /\ x \in subs => Len(ech[x]) # EventCap
        /\ ~(wpc[x] = "replayed" /\ shown[x] < state)
    BY <1>2 DEF Publish
  <2>2. /\ ech[x] \in Seq(1 .. MaxState) /\ Len(ech[x]) \in Nat /\ Len(ech[x]) <= EventCap
        /\ state \in Nat /\ state \in 1 .. MaxState /\ shown[x] \in Nat /\ shown[x] <= state /\ QuietBeforeStream(x)
    BY <1>2, EventBusAssumption DEF Publish, BusInv, BusTypeOK, Ascending
  <2>3. CASE x \in subs
    <3>1. ech'[x] = Append(ech[x], state)
      BY <2>1, <2>2, <2>3, EventBusAssumption
    <3>2. Append(ech[x], state) # <<>>
          /\ Append(ech[x], state)[Len(Append(ech[x], state))] = state
      BY <2>2, NewestPublished
    <3>3. QED
      BY <3>1, <3>2, <2>1, Zenon DEF Newest
  <2>4. CASE x \notin subs
    <3>1. ech'[x] = <<>> /\ shown[x] = state
      BY <2>1, <2>2, <2>4 DEF QuietBeforeStream
    <3>2. QED
      BY <3>1, <2>1 DEF Newest
  <2>5. QED
    BY <2>3, <2>4
<1>3. CASE CloseBus
  BY <1>3 DEF CloseBus, NewestInv
<1>4. ASSUME NEW x \in Watchers, Replay(x) PROVE NewestInv'
  <2>1. /\ shown'[x] = state /\ state' = state /\ ech' = ech /\ missed' = missed
        /\ subs' = subs /\ spc' = spc
        /\ \A y \in Watchers \ {x} : shown'[y] = shown[y] /\ wpc'[y] = wpc[y]
    BY <1>4 DEF Replay, BusInv, BusTypeOK
  <2>2. ech[x] = <<>>
    BY <1>4 DEF Replay, BusInv, QuietBeforeStream
  <2>3. Newest(x)' = state'
    BY <2>1, <2>2 DEF Newest
  <2>4. \A y \in Watchers \ {x} : Newest(y)' = Newest(y)
    BY <2>1, NewestStays
  <2>5. QED
    BY <2>1, <2>3, <2>4 DEF NewestInv
<1>5. ASSUME NEW x \in Watchers, Subscribe(x) PROVE NewestInv'
  <2>1. /\ shown' = shown /\ state' = state /\ ech' = ech /\ missed' = missed /\ spc' = spc
        /\ wpc[x] = "replayed"
        /\ \A y \in Watchers \ {x} : wpc'[y] = wpc[y] /\ (y \in subs' => y \in subs)
    BY <1>5 DEF Subscribe, BusInv, BusTypeOK
  <2>2. \A y \in Watchers : Newest(y)' = Newest(y)
    BY <2>1, NewestStays
  <2>3. QED
    BY <2>1, <2>2 DEF NewestInv
<1>6. ASSUME NEW x \in Watchers, SendEvent(x) PROVE NewestInv'
  <2>1. /\ state' = state /\ spc' = spc /\ subs' = subs /\ wpc' = wpc /\ missed' = missed
        /\ ech[x] # <<>> /\ shown'[x] = Head(ech[x]) /\ ech'[x] = Tail(ech[x])
        /\ \A y \in Watchers \ {x} : shown'[y] = shown[y] /\ ech'[y] = ech[y]
    BY <1>6 DEF SendEvent, BusInv, BusTypeOK
  <2>2. ech[x] \in Seq(1 .. MaxState)
    BY DEF BusInv, BusTypeOK
  <2>3. Newest(x)' = Newest(x)
    <3> DEFINE q == ech[x]
    <3>1. /\ Tail(q) = <<>> => Head(q) = q[Len(q)]
          /\ Tail(q) # <<>> => Tail(q)[Len(Tail(q))] = q[Len(q)]
      BY <2>1, <2>2, NewestSent
    <3>2. q # <<>> /\ shown'[x] = Head(q) /\ ech'[x] = Tail(q) /\ ech[x] = q
      BY <2>1
    <3> HIDE DEF q
    <3>3. QED
      BY <3>1, <3>2, Zenon DEF Newest
  <2>4. \A y \in Watchers \ {x} : Newest(y)' = Newest(y)
    BY <2>1, NewestStays
  <2>5. QED
    BY <2>1, <2>3, <2>4 DEF NewestInv
<1>7. ASSUME NEW x \in Watchers, StreamEnds(x) PROVE NewestInv'
  <2>1. /\ state' = state /\ spc' = spc /\ missed' = missed /\ shown' = shown
        /\ wpc'[x] = "gone" /\ x \notin subs' /\ subs' \subseteq subs
        /\ \A y \in Watchers \ {x} : ech'[y] = ech[y] /\ wpc'[y] = wpc[y]
    BY <1>7 DEF StreamEnds, BusInv, BusTypeOK
  <2>2. \A y \in Watchers \ {x} : Newest(y)' = Newest(y)
    BY <2>1, NewestStays
  <2>3. QED
    BY <2>1, <2>2 DEF NewestInv
<1>8. CASE UNCHANGED busVars
  BY <1>8 DEF busVars, NewestInv, Newest
<1>9. QED
  BY <1>1, <1>2, <1>3, <1>4, <1>5, <1>6, <1>7, <1>8 DEF BusNext

(* eventbus.go, session.go: however replays, Subscribes and the two halves  *)
(* of UpdateState interleave, a listening client that lost no event has the *)
(* current state or it is in its channel, for any clients and capacity.     *)
THEOREM NewestOnItsWayHolds == BusSpec => []NewestOnItsWay
<1>1. BusInit => NewestInv
  BY DEF BusInit, NewestInv
<1>2. BusInv /\ NewestInv => NewestOnItsWay
  BY DEF BusInv, BusTypeOK, NewestInv, NewestOnItsWay
<1>3. QED
  BY <1>1, <1>2, BusInvariant, NewestStep, PTL DEF BusSpec

-----------------------------------------------------------------------------
(* The attachments in state.json *)

(* The inductive strengthening of SerialMirrors: until two attaches race,   *)
(* at most one has a list to persist, and it is the members; until a flush  *)
(* fails, the file is the Writer's state.                                   *)
MirrorInv ==
  /\ RegistryTypeOK
  /\ ~failed => disk = state
  /\ ~raced => /\ \A a, b \in Persisting : a = b
               /\ \A a \in Persisting : snap[a] = members
  /\ SerialMirrors

(* Update keeps the types, whether the flush fails or not. *)
LEMMA UpdateTyped ==
  ASSUME RegistryTypeOK, ~failed => disk = state,
         NEW new \in [attachments : SUBSET Attaches, size : Sizes], Update(new)
  PROVE  /\ state' = new
         /\ disk' \in [attachments : SUBSET Attaches, size : Sizes] /\ failed' \in BOOLEAN
         /\ ~failed' => ~failed /\ disk' = new
<1>1. state' = new
  BY DEF Update
<1>2. CASE disk' = new /\ failed' = failed
  BY <1>1, <1>2 DEF RegistryTypeOK
<1>3. CASE ~failed /\ failed' = TRUE /\ disk' = disk
  <2>1. failed' \in BOOLEAN
    BY <1>3, Zenon
  <2> QED
    BY <1>1, <1>3, <2>1 DEF RegistryTypeOK
<1> QED
  BY <1>2, <1>3 DEF Update

(* Add or Remove: the goroutine takes its snapshot under r.mu. *)
LEMMA SnapshotTaken ==
  ASSUME MirrorInv, NEW a \in Attaches, NEW m \in SUBSET Attaches,
         NEW p \in {"addPersist", "delPersist"},
         members' = m, snap' = [snap EXCEPT ![a] = m], apc' = [apc EXCEPT ![a] = p],
         raced' = (raced \/ Persisting # {}),
         UNCHANGED <<state, disk, failed, conn, stalled, once, todo>>
  PROVE  MirrorInv'
<1>1. raced' \in BOOLEAN /\ (~raced' => ~raced /\ Persisting = {})
  BY Zenon
<1>2. RegistryTypeOK'
  BY <1>1 DEF MirrorInv, RegistryTypeOK
<1>3. apc'[a] = p /\ snap'[a] = m /\ \A b \in Attaches \ {a} : apc'[b] = apc[b]
  BY DEF MirrorInv, RegistryTypeOK
<1>4. a \in Persisting'
  BY <1>3 DEF Persisting
<1>5. ~raced' => Persisting' = {a}
  BY <1>1, <1>3, <1>4 DEF Persisting
<1> QED
  BY <1>2, <1>3, <1>4, <1>5 DEF MirrorInv, SerialMirrors, Mirrors

(* Persist: the list reaches state.json, or the flush fails. *)
LEMMA SnapshotPersisted ==
  ASSUME MirrorInv, NEW a \in Attaches, Persist(a)
  PROVE  MirrorInv'
<1> DEFINE new == [state EXCEPT !.attachments = snap[a]]
<1>1. /\ a \in Persisting /\ Update(new)
      /\ apc' = [apc EXCEPT ![a] = IF @ = "addPersist" THEN "on" ELSE "gone"]
      /\ snap' = [snap EXCEPT ![a] = {}]
      /\ UNCHANGED <<members, raced, conn, stalled, once, todo>>
  BY DEF Persist, connVars
<1>2. snap[a] \in SUBSET Attaches /\ state \in [attachments : SUBSET Attaches, size : Sizes]
  BY DEF MirrorInv, RegistryTypeOK
<1>3. new \in [attachments : SUBSET Attaches, size : Sizes] /\ new.attachments = snap[a]
  BY <1>2
<1> HIDE DEF new
<1>4. /\ state' = new
      /\ disk' \in [attachments : SUBSET Attaches, size : Sizes] /\ failed' \in BOOLEAN
      /\ ~failed' => ~failed /\ disk' = new
  BY <1>1, <1>3, UpdateTyped DEF MirrorInv
<1>5. /\ apc' \in [Attaches -> {"idle", "addPersist", "on", "delPersist", "gone"}]
      /\ apc'[a] \in {"on", "gone"} /\ \A b \in Attaches \ {a} : apc'[b] = apc[b]
      /\ snap' \in [Attaches -> SUBSET Attaches]
  BY <1>1 DEF MirrorInv, RegistryTypeOK
<1>6. RegistryTypeOK'
  BY <1>1, <1>3, <1>4, <1>5 DEF MirrorInv, RegistryTypeOK
<1>7. Persisting' = Persisting \ {a}
  BY <1>5 DEF Persisting
<1>8. ~raced => Persisting' = {} /\ snap[a] = members
  BY <1>1, <1>7 DEF MirrorInv
<1> QED
  BY <1>1, <1>3, <1>4, <1>6, <1>8 DEF MirrorInv, SerialMirrors, Mirrors

(* Every step keeps MirrorInv. *)
LEMMA MirrorStep == MirrorInv /\ [RegistryNext]_registryVars => MirrorInv'
<1> SUFFICES ASSUME MirrorInv, [RegistryNext]_registryVars PROVE MirrorInv'
  OBVIOUS
<1>1. ASSUME UNCHANGED <<state, disk, failed, apc, members, snap, raced>>, RegistryTypeOK'
      PROVE  MirrorInv'
  <2>1. Persisting' = Persisting
    BY <1>1 DEF Persisting
  <2> QED
    BY <1>1, <2>1 DEF MirrorInv, SerialMirrors, Mirrors
<1>2. ASSUME NEW a \in Attaches, Add(a) PROVE MirrorInv'
  <2>1. members \cup {a} \in SUBSET Attaches
    BY DEF MirrorInv, RegistryTypeOK
  <2> QED
    BY <1>2, <2>1, SnapshotTaken DEF Add, connVars, fileVars
<1>3. ASSUME NEW a \in Attaches, RemoveEntry(a) PROVE MirrorInv'
  <2>1. members \ {a} \in SUBSET Attaches
    BY DEF MirrorInv, RegistryTypeOK
  <2> QED
    BY <1>3, <2>1, SnapshotTaken DEF RemoveEntry, connVars, fileVars
<1>4. ASSUME NEW z \in Sizes, SetEffectiveSize(z) PROVE MirrorInv'
  <2> DEFINE new == [state EXCEPT !.size = z]
  <2>1. /\ Update(new)
        /\ UNCHANGED <<apc, members, snap, raced, conn, stalled, once, todo>>
    BY <1>4 DEF SetEffectiveSize, attachVars, connVars
  <2>2. /\ new \in [attachments : SUBSET Attaches, size : Sizes]
        /\ new.attachments = state.attachments
    BY DEF MirrorInv, RegistryTypeOK
  <2> HIDE DEF new
  <2>3. /\ state' = new
        /\ disk' \in [attachments : SUBSET Attaches, size : Sizes] /\ failed' \in BOOLEAN
        /\ ~failed' => ~failed /\ disk' = new
    BY <2>1, <2>2, UpdateTyped DEF MirrorInv
  <2>4. RegistryTypeOK'
    BY <2>1, <2>2, <2>3 DEF MirrorInv, RegistryTypeOK
  <2>5. Persisting' = Persisting
    BY <2>1 DEF Persisting
  <2> QED
    BY <2>1, <2>2, <2>3, <2>4, <2>5 DEF MirrorInv, SerialMirrors, Mirrors
<1>5. ASSUME NEW a \in Attaches,
             Stall(a) \/ Unstall(a) \/ HangUp(a) \/ DetachOne(a)
             \/ DetachBegin(a) \/ DetachClose(a) \/ DetachAgain(a)
      PROVE  MirrorInv'
  <2>1. UNCHANGED <<state, disk, failed, apc, members, snap, raced>>
    BY <1>5 DEF Stall, Unstall, HangUp, DetachOne,
       DetachBegin, DetachClose, DetachAgain, fileVars,
       attachVars
  <2>2. /\ conn' \in [Attaches -> BOOLEAN] /\ stalled' \in [Attaches -> BOOLEAN]
        /\ once' \in [Attaches -> {"no", "busy", "done"}] /\ todo' \in SUBSET Attaches
    BY <1>5 DEF MirrorInv, RegistryTypeOK, Stall, Unstall, HangUp,
       DetachOne, DetachBegin, DetachClose, DetachAgain
  <2>3. RegistryTypeOK'
    BY <2>1, <2>2 DEF MirrorInv, RegistryTypeOK
  <2> QED
    BY <1>1, <2>1, <2>3
<1>6. CASE DetachAll \/ UNCHANGED registryVars
  <2>1. UNCHANGED <<state, disk, failed, apc, members, snap, raced, conn, stalled, once>>
        /\ todo' \in {todo, members}
    BY <1>6 DEF DetachAll, registryVars, fileVars, attachVars,
       connVars
  <2>2. RegistryTypeOK'
    BY <2>1 DEF MirrorInv, RegistryTypeOK
  <2> QED
    BY <1>1, <2>1, <2>2
<1> QED
  BY <1>2, <1>3, <1>4, <1>5, <1>6, SnapshotPersisted DEF RegistryNext, DetachStep

(* attach_registry.go: while attaches come and go one at a time, and until  *)
(* a flush fails, state.json lists the attachments whenever nothing is left *)
(* to persist; for any number of attaches and DELETE requests.              *)
THEOREM SerialMirrorsHolds == RegistrySpec => []SerialMirrors
<1>1. RegistryInit => MirrorInv
  <2> SUFFICES ASSUME RegistryInit PROVE MirrorInv
    OBVIOUS
  <2>1. PICK z \in Sizes : OpenWriter([attachments |-> {}, size |-> z])
    BY DEF RegistryInit
  <2>2. /\ state = [attachments |-> {}, size |-> z] /\ disk = state
        /\ disk.attachments = {} /\ members = {}
    BY <2>1 DEF OpenWriter, RegistryInit
  <2>3. /\ failed \in BOOLEAN /\ raced \in BOOLEAN
        /\ conn \in [Attaches -> BOOLEAN] /\ stalled \in [Attaches -> BOOLEAN]
    BY <2>1, Zenon DEF OpenWriter, RegistryInit
  <2>4. RegistryTypeOK
    BY <2>2, <2>3 DEF RegistryTypeOK, RegistryInit
  <2>5. Persisting = {}
    BY DEF Persisting, RegistryInit
  <2> QED
    BY <2>2, <2>4, <2>5 DEF MirrorInv, SerialMirrors, Mirrors
<1>2. MirrorInv => SerialMirrors
  BY DEF MirrorInv
<1> QED
  BY <1>1, <1>2, MirrorStep, PTL DEF RegistrySpec
=============================================================================
