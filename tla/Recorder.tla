------------------------------- MODULE Recorder -------------------------------
(***************************************************************************)
(* The session recording, hootty.log v1 (src/recorder.go): the Recorder,    *)
(* the frames it leaves on disk, and a FrameDecoder that reads the file     *)
(* while it grows (hoot log), or after a close, a crash or a write error.   *)
(*                                                                         *)
(* What was recorded is numbered: item i of when is one output byte or one  *)
(* resize, and a payload is a sequence of such numbers.  A call holds r.mu  *)
(* throughout, so there is one call at a time; each frame it writes is a    *)
(* step, between which the process can crash and a write can fail.          *)
(***************************************************************************)
EXTENDS Integers, Sequences, SequencesExt, FiniteSetsExt

CONSTANTS
  BucketMs,    \* frameBucketMs, 33
  DeltaMax,    \* largest ts_delta_ms, 65535
  SpacerMax,   \* largest spacer advance, 2^32 - 1
  PayloadMax,  \* FrameMaxPayload - 1
  MaxTime,     \* bound on the clock
  MaxItems     \* bound on the recorded bytes and resizes

ASSUME RecorderAssumption ==
  /\ BucketMs \in Nat \ {0} /\ DeltaMax \in Nat /\ SpacerMax \in Nat
  /\ DeltaMax < SpacerMax
  /\ PayloadMax \in Nat \ {0} /\ MaxTime \in Nat /\ MaxItems \in Nat

VARIABLES
  clock,          \* ms since the recording started
  w,              \* the Recorder: none, open, closed, crashed
  lastEmittedMs,
  pending,        \* pendingHasBucket, pendingBucketMs, pendingBuf
  call,           \* the call under way and what it still has to write
  magic,          \* the preamble is on disk
  file,           \* the frames on disk
  damaged,        \* a write failed: the recorder carries on
  when,           \* history: what was recorded, and when
  reader          \* a FrameDecoder and the loop around it

recVars == <<clock, w, lastEmittedMs, pending, call, magic, file, damaged, when>>
vars == <<recVars, reader>>

-----------------------------------------------------------------------------

NoPending == [has |-> FALSE, bucket |-> 0, buf |-> <<>>]

(* pc: where the call is; op: which call; data, bucket: the new items and   *)
(* their bucket; target, buf: what is being flushed and its time.           *)
Idle == [pc |-> "idle", op |-> "none", data |-> <<>>, bucket |-> 0,
         target |-> 0, buf |-> <<>>, first |-> FALSE]

(* A frame.  The field at is history: the time the recorder gave it. *)
Frame(type, delta, data, adv, at) ==
  [type |-> type, delta |-> delta, data |-> data, adv |-> adv, at |-> at]

Torn == Frame("torn", 0, <<>>, 0, 0)
Prelude == Frame("resize", 0, <<1>>, 0, 0)

Bucket(now) == (now \div BucketMs) * BucketMs

(* uint16(a - b), the subtraction itself in uint64 *)
Delta(a, b) == (a - b) % (DeltaMax + 1)

NewItems(n) == [i \in 1 .. n |-> Len(when) + i]
Items(kind, n) == [i \in 1 .. n |-> [kind |-> kind, at |-> clock]]

-----------------------------------------------------------------------------

(* Create the file, write the preamble and the prelude resize. *)
NewRecorder ==
  /\ w = "none"
  /\ w' = "open"
  /\ magic' = TRUE
  /\ file' = <<Prelude>>
  /\ when' = Items("resize", 1)
  /\ UNCHANGED <<clock, lastEmittedMs, pending, call, damaged, reader>>

(* A crash or an error in NewRecorder: no recorder, a file without frames. *)
NewRecorderFails ==
  /\ w = "none"
  /\ w' = "crashed"
  /\ magic' \in BOOLEAN
  /\ UNCHANGED <<clock, lastEmittedMs, pending, call, file, damaged, when, reader>>

(* flushPendingLocked up to its bridgeIdleLocked: take the pending buffer. *)
StartFlush(op, data, bucket) ==
  /\ pending' = NoPending
  /\ call' = [pc |-> "bridgeOutput", op |-> op, data |-> data, bucket |-> bucket,
              target |-> pending.bucket, buf |-> pending.buf, first |-> TRUE]

Buffer(data, bucket) ==
  IF pending.has THEN [pending EXCEPT !.buf = @ \o data]
  ELSE [has |-> TRUE, bucket |-> bucket, buf |-> data]

(* Write's bucket: never below the last frame. *)
FlooredBucket == IF Bucket(clock) < lastEmittedMs THEN lastEmittedMs ELSE Bucket(clock)

(* Write(data) of n bytes. *)
WriteIn(bucket, n) ==
  /\ w = "open" /\ call = Idle
  /\ n > 0 /\ Len(when) + n <= MaxItems
  /\ when' = when \o Items("byte", n)
  /\ IF pending.has /\ bucket # pending.bucket
       THEN StartFlush("write", NewItems(n), bucket)
       ELSE pending' = Buffer(NewItems(n), bucket) /\ UNCHANGED call
  /\ UNCHANGED <<clock, w, lastEmittedMs, magic, file, damaged, reader>>

(* A slip: the bucket is not floored to lastEmittedMs. *)
WriteUnfloored(n) == WriteIn(Bucket(clock), n)

Write(n) == WriteIn(FlooredBucket, n)

(* A slip: the pending output is flushed after the resize. *)
ResizeFirst ==
  /\ w = "open" /\ call = Idle
  /\ Len(when) < MaxItems
  /\ call' = [Idle EXCEPT !.pc = "stamp", !.op = "resize"]
  /\ UNCHANGED <<clock, w, lastEmittedMs, pending, magic, file, damaged, when, reader>>

(* RecordResize: flush first, so that output stays before the resize. *)
RecordResize ==
  /\ w = "open" /\ call = Idle
  /\ Len(when) < MaxItems
  /\ IF pending.has
       THEN StartFlush("resize", <<>>, 0)
       ELSE call' = [Idle EXCEPT !.pc = "stamp", !.op = "resize"] /\ UNCHANGED pending
  /\ UNCHANGED <<clock, w, lastEmittedMs, magic, file, damaged, when, reader>>

(* RecordResize reads the clock after the flush. *)
StampResize ==
  /\ w = "open" /\ call.pc = "stamp"
  /\ when' = when \o Items("resize", 1)
  /\ call' = [call EXCEPT !.pc = "bridgeResize", !.data = NewItems(1), !.target = clock]
  /\ UNCHANGED <<clock, w, lastEmittedMs, pending, magic, file, damaged, reader>>

Close ==
  /\ w = "open" /\ call = Idle
  /\ IF pending.has THEN StartFlush("close", <<>>, 0) /\ UNCHANGED w
                    ELSE w' = "closed" /\ UNCHANGED <<pending, call>>
  /\ UNCHANGED <<clock, lastEmittedMs, magic, file, damaged, when, reader>>

-----------------------------------------------------------------------------
(* bridgeIdleLocked, flushPendingLocked, writeResizeFrameLocked *)

Gap == IF call.target <= lastEmittedMs THEN 0 ELSE call.target - lastEmittedMs

SpacerOf(adv, last) ==
  /\ w = "open" /\ call.pc \in {"bridgeOutput", "bridgeResize"}
  /\ Gap > DeltaMax
  /\ file' = Append(file, Frame("spacer", 0, <<>>, adv, lastEmittedMs + adv))
  /\ lastEmittedMs' = last
  /\ UNCHANGED <<clock, w, pending, call, magic, damaged, when, reader>>

(* One spacer of bridgeIdleLocked's loop. *)
Spacer == SpacerOf(Min({Gap, SpacerMax}), lastEmittedMs + Min({Gap, SpacerMax}))

(* The gap fits ts_delta_ms: on to the frame itself. *)
Bridged ==
  /\ w = "open" /\ call.pc \in {"bridgeOutput", "bridgeResize"}
  /\ Gap <= DeltaMax
  /\ call' = [call EXCEPT !.pc = IF @ = "bridgeOutput" THEN "output" ELSE "resize"]
  /\ UNCHANGED <<clock, w, lastEmittedMs, pending, magic, file, damaged, when, reader>>

(* What the caller of flushPendingLocked does next. *)
AfterFlush ==
  /\ pending' = IF call.op = "write" THEN Buffer(call.data, call.bucket) ELSE pending
  /\ call' = IF call.op = "resize" THEN [Idle EXCEPT !.pc = "stamp", !.op = "resize"]
                                   ELSE Idle
  /\ w' = IF call.op = "close" THEN "closed" ELSE w

(* One type=1 frame of at most PayloadMax bytes; only the first of a chain  *)
(* carries the delta.                                                       *)
EmitOutput ==
  /\ w = "open" /\ call.pc = "output"
  /\ LET n == Min({Len(call.buf), PayloadMax})
         rest == SubSeq(call.buf, n + 1, Len(call.buf))
         delta == IF call.first THEN Delta(call.target, lastEmittedMs) ELSE 0
     IN /\ file' = Append(file, Frame("output", delta, SubSeq(call.buf, 1, n), 0, call.target))
        /\ IF rest = <<>>
             THEN lastEmittedMs' = call.target /\ AfterFlush
             ELSE /\ call' = [call EXCEPT !.buf = rest, !.first = FALSE]
                  /\ UNCHANGED <<w, lastEmittedMs, pending>>
  /\ UNCHANGED <<clock, magic, damaged, when, reader>>

EmitResize ==
  /\ w = "open" /\ call.pc = "resize"
  /\ file' = Append(file, Frame("resize", Delta(call.target, lastEmittedMs), call.data, 0,
                                call.target))
  /\ lastEmittedMs' = call.target
  /\ call' = Idle
  /\ UNCHANGED <<clock, w, pending, magic, damaged, when, reader>>

(* The call is about to write a frame. *)
Writing ==
  \/ call.pc \in {"output", "resize"}
  \/ call.pc \in {"bridgeOutput", "bridgeResize"} /\ Gap > DeltaMax

(* A write fails, perhaps after part of the frame: the call returns the     *)
(* error, what it was flushing is lost, and the recorder stays usable.      *)
WriteFails ==
  /\ w = "open" /\ Writing
  /\ ~damaged   \* bound: one failure
  /\ damaged' = TRUE
  /\ file' \in {file, Append(file, Torn)}
  /\ call' = Idle
  /\ w' = IF call.op = "close" THEN "closed" ELSE w
  /\ UNCHANGED <<clock, lastEmittedMs, pending, magic, when, reader>>

(* The process is killed, perhaps in the middle of a frame. *)
Crash ==
  /\ w = "open"
  /\ w' = "crashed"
  /\ file' \in {file} \cup (IF Writing THEN {Append(file, Torn)} ELSE {})
  /\ UNCHANGED <<clock, lastEmittedMs, pending, call, magic, damaged, when, reader>>

Tick ==
  /\ w = "open" /\ clock < MaxTime
  /\ clock' = clock + 1
  /\ UNCHANGED <<w, lastEmittedMs, pending, call, magic, file, damaged, when, reader>>

-----------------------------------------------------------------------------
(* The reader.  st: start, loop, eof, error, garbage (it lost the frame     *)
(* boundaries); shown: the frame Next last returned, with its At.           *)

NotRead == [st |-> "start", pos |-> 0, cumMs |-> 0, shown |-> [data |-> <<>>, at |-> 0]]

(* parsePreamble and the first Next of hoot log: a prelude resize. *)
ReadPrelude ==
  /\ reader.st = "start" /\ w # "none"
  /\ reader' = IF magic /\ file # <<>> /\ Head(file).type = "resize"
                 THEN [reader EXCEPT !.st = "loop", !.pos = 1,
                                     !.shown = [data |-> Head(file).data, at |-> 0]]
                 ELSE [reader EXCEPT !.st = "error"]
  /\ UNCHANGED recVars

AtEnd == reader.pos = Len(file)
AtTorn == reader.pos + 1 = Len(file) /\ Last(file).type = "torn"

(* FrameDecoder.Next on a whole frame; a spacer is skipped. *)
NextFrame ==
  /\ reader.st = "loop" /\ ~AtEnd /\ ~AtTorn
  /\ LET f == file[reader.pos + 1]
         cum == reader.cumMs + (IF f.type = "spacer" THEN f.adv ELSE f.delta)
     IN reader' = IF f.type = "torn" THEN [reader EXCEPT !.st = "garbage"]
                  ELSE [reader EXCEPT !.pos = @ + 1, !.cumMs = cum,
                          !.shown = IF f.type = "spacer" THEN @
                                    ELSE [data |-> f.data, at |-> cum]]
  /\ UNCHANGED recVars

(* Next at the end of the file or in a partial trailing frame: io.EOF. *)
NextEOF ==
  /\ reader.st = "loop"
  /\ AtEnd \/ AtTorn
  /\ reader' = [reader EXCEPT !.st = "eof"]
  /\ UNCHANGED recVars

-----------------------------------------------------------------------------

Init ==
  /\ clock = 0 /\ w = "none" /\ lastEmittedMs = 0
  /\ pending = NoPending /\ call = Idle
  /\ magic = FALSE /\ file = <<>> /\ damaged = FALSE
  /\ when = <<>> /\ reader = NotRead

Next ==
  \/ NewRecorder \/ NewRecorderFails
  \/ \E n \in 1 .. MaxItems : Write(n)
  \/ RecordResize \/ StampResize \/ Close
  \/ Spacer \/ Bridged \/ EmitOutput \/ EmitResize
  \/ WriteFails \/ Crash \/ Tick
  \/ ReadPrelude \/ NextFrame \/ NextEOF

Spec == Init /\ [][Next]_vars

-----------------------------------------------------------------------------

PCs == {"idle", "bridgeOutput", "output", "stamp", "bridgeResize", "resize"}
FrameSet == [type : {"output", "resize", "spacer", "torn"}, delta : 0 .. DeltaMax,
             data : Seq(Nat), adv : 0 .. SpacerMax, at : Nat]

TypeOK ==
  /\ clock \in Nat /\ lastEmittedMs \in Nat
  /\ w \in {"none", "open", "closed", "crashed"}
  /\ pending \in [has : BOOLEAN, bucket : Nat, buf : Seq(Nat)]
  /\ call \in [pc : PCs, op : {"none", "write", "resize", "close"}, data : Seq(Nat),
               bucket : Nat, target : Nat, buf : Seq(Nat), first : BOOLEAN]
  /\ magic \in BOOLEAN /\ damaged \in BOOLEAN
  /\ file \in Seq(FrameSet)
  /\ when \in Seq([kind : {"byte", "resize"}, at : Nat])
  /\ reader \in [st : {"start", "loop", "eof", "error", "garbage"}, pos : Nat,
                 cumMs : Nat, shown : [data : Seq(Nat), at : Nat]]

(* The decoder, adding up 16-bit deltas and spacers, shows every item at    *)
(* the time it was recorded: a resize at its millisecond, a byte at its     *)
(* bucket, less than BucketMs earlier.                                      *)
DecodedTime ==
  ~damaged => \A i \in ToSet(reader.shown.data) :
     IF when[i].kind = "resize" THEN reader.shown.at = when[i].at
     ELSE /\ reader.shown.at <= when[i].at
          /\ when[i].at < reader.shown.at + BucketMs

(* Bytes and resizes are on disk, or still in memory, in the order they     *)
(* were recorded and each once; a crash loses only what was in memory.      *)
OrderKept ==
  ~damaged =>
     FlattenSeq([k \in DOMAIN file |-> file[k].data])
        \o call.buf \o pending.buf \o call.data = [i \in DOMAIN when |-> i]

(* The items on disk, and the last one the decoder has shown. *)
Saved == Len(when) - Len(call.buf) - Len(pending.buf) - Len(call.data)
LastShown == IF reader.shown.data = <<>> THEN 0 ELSE Last(reader.shown.data)

Log == INSTANCE Recording WITH
  Granule <- BucketMs,
  phase <- w,
  log <- when,
  saved <- Saved,
  shown <- LastShown,
  at <- reader.shown.at,
  broken <- damaged

(* The recorder, the file and the decoder implement Recording: hoot log     *)
(* plays what was recorded from its beginning, each item once, in order and *)
(* at its time, while the file grows and after a crash has cut it; Close    *)
(* leaves nothing behind.                                                   *)
LogPlays == Log!Spec
=============================================================================
