---------------------------- MODULE PTYDispatcher ----------------------------
(***************************************************************************)
(* LibghosttyPTY (src/pty_libghostty.go): the dispatcher goroutine that     *)
(* owns the terminal, the subscribers and the recorder, and the goroutines  *)
(* that hand it closures through p.actions with do: the read loop, attaches *)
(* (SubscribeWithSnapshotParts), /pty/stream requests (subscribe, then      *)
(* Snapshot), resizes, pastes, and Close; and the writes to the child, by   *)
(* whoever has input and by the emulator, which answers queries from within *)
(* the dispatcher.                                                          *)
(*                                                                         *)
(* Child output is a sequence of numbered chunks.  The terminal's state is  *)
(* the number of chunks fed to it, and so is a snapshot of it; besides, it  *)
(* knows whether bracketed paste is on.  What one write sends is two units, *)
(* its first and its last.                                                  *)
(***************************************************************************)
EXTENDS Naturals, Sequences, SequencesExt

CONSTANTS
  Viewers,    \* attaches
  Streams,    \* /pty/stream requests
  Resizers,   \* Resize calls; each sets a size of its own
  Writers,    \* Write calls, of attaches with input and of POST /pty/input
  Pasters,    \* ... with paste=on
  Reader,     \* the readLoop goroutine
  Closer,     \* the goroutine that calls Close
  Casts,      \* bound: who comes together, and the kinds of each chunk their
              \* child may write
  NoResize,   \* stands for the PTY's first size
  Nobody,
  ActCap,     \* capacity of p.actions (64 in the code)
  SubCap,     \* capacity of a subscriber channel (256, 64 for streams)
  LineCap     \* units of input the kernel keeps for the child

Kinds == {"text", "query", "mode"}   \* of chunks; "mode" switches bracketed paste

ASSUME PTYAssumption ==
  /\ ActCap \in Nat \ {0} /\ SubCap \in Nat \ {0} /\ LineCap \in Nat \ {0}
  /\ Viewers \cap Streams = {}
  /\ (Viewers \cup Streams) \cap Resizers = {}
  /\ (Viewers \cup Streams \cup Resizers) \cap Writers = {}
  /\ {Reader, Closer} \cap (Viewers \cup Streams \cup Resizers \cup Writers) = {}
  /\ Reader # Closer /\ Nobody \notin Writers \cup {Reader}
  /\ Pasters \subseteq Writers
  /\ Casts \subseteq
       (SUBSET (Viewers \cup Streams \cup Resizers \cup Writers)) \X Seq(SUBSET Kinds)

Subscribers == Viewers \cup Streams
Callers == Subscribers \cup Resizers \cup Writers \cup {Reader}

VARIABLES
  pc,        \* where each goroutine is; send, wait and ret are inside do
  act,       \* the closure each caller hands to do
  res,       \* how the last do ended: not run, ok, err
  queue,     \* p.actions, by caller
  done,      \* p.done is closed
  disp,      \* dispatch: run, drain, exit
  term,      \* the terminal (and the recorder) is open
  subs,      \* p.subs
  ch,        \* the chunks in each subscriber channel
  chOpen,    \* the channel is not closed
  says,      \* what this child may write: kinds, by chunk
  exited,    \* the child has exited
  written,   \* the kinds of the chunks the child wrote to the PTY
  read,      \* chunks the read loop took from the master
  fed,       \* chunks fed to the recorder, the terminal and the subscribers
  winsize,   \* the kernel's window size, by its resizer
  grid,      \* the terminal's size
  stored,    \* p.cols, p.rows
  mu,        \* writeMu: a writer, Reader for the dispatcher, or Nobody
  wpc,       \* writes to the master: off, lock, first, last (to go), put
  line,      \* the units written and not read
  tty,       \* the child's end: read, deaf (nobody reads), hung (closed)
  heard,     \* history: the unit that was read last
  snap,      \* history: chunks in the snapshot a subscriber got
  got,       \* history: chunks a subscriber received from its channel
  behind,    \* history: subscribers that a full channel cost a chunk
  overlap,   \* history: two resizes overlapped
  late       \* history: callers that queued a closure after the dispatcher's end

doVars == <<pc, act, res>>
ptyVars == <<term, subs, ch, chOpen, grid>>
childVars == <<exited, written, read, says>>
lineVars == <<mu, wpc, line, tty, heard>>
viewVars == <<snap, got, behind>>
sizeVars == <<winsize, stored, overlap>>
vars == <<doVars, queue, done, disp, late, ptyVars, childVars, fed, viewVars, sizeVars,
          lineVars>>

-----------------------------------------------------------------------------
(* do *)

(* do(closure): return at once on a closed PTY, else try to queue it. *)
CallDo(p, closure) ==
  /\ act' = [act EXCEPT ![p] = closure]
  /\ pc' = [pc EXCEPT ![p] = IF done THEN "ret" ELSE "send"]
  /\ res' = [res EXCEPT ![p] = "not run"]

Send(p) ==
  /\ pc[p] = "send"
  /\ Len(queue) < ActCap
  /\ queue' = Append(queue, p)
  /\ pc' = [pc EXCEPT ![p] = "wait"]
  /\ late' = IF disp = "exit" THEN late \cup {p} ELSE late
  /\ UNCHANGED <<act, res, done, disp, ptyVars, childVars, fed, viewVars, sizeVars,
                 lineVars>>

(* A slip: do gives up when the queue is full. *)
GiveUpWhenFull(p) ==
  /\ pc[p] = "send"
  /\ done \/ Len(queue) = ActCap
  /\ pc' = [pc EXCEPT ![p] = "ret"]
  /\ UNCHANGED <<act, res, queue, done, disp, late, ptyVars, childVars, fed, viewVars,
                 sizeVars, lineVars>>

GiveUp(p) ==
  /\ pc[p] = "send"
  /\ done
  /\ pc' = [pc EXCEPT ![p] = "ret"]
  /\ UNCHANGED <<act, res, queue, done, disp, late, ptyVars, childVars, fed, viewVars,
                 sizeVars, lineVars>>

-----------------------------------------------------------------------------
(* The closures, run by the dispatcher *)

(* readLoop's closure: record, feed, fan out; a full channel drops. *)
Feed ==
  /\ fed' = IF term THEN fed + 1 ELSE fed
  /\ ch' = [s \in Subscribers |-> IF s \in subs /\ Len(ch[s]) < SubCap
                                  THEN Append(ch[s], read) ELSE ch[s]]
  /\ behind' = behind \cup {s \in subs : Len(ch[s]) = SubCap}
  /\ UNCHANGED <<term, subs, chOpen, grid, snap>>

Subscribe(s) ==
  /\ subs' = subs \cup {s}
  /\ UNCHANGED <<term, ch, chOpen, grid, fed, snap, behind>>

Snapshot(s) ==
  /\ snap' = [snap EXCEPT ![s] = fed]
  /\ UNCHANGED <<ptyVars, fed, behind>>

(* SubscribeWithSnapshotParts: both in one closure. *)
SubscribeWithSnapshot(s) ==
  /\ subs' = subs \cup {s}
  /\ snap' = [snap EXCEPT ![s] = fed]
  /\ UNCHANGED <<term, ch, chOpen, grid, fed, behind>>

(* A slip: the channel is closed and stays in p.subs. *)
FailedStays(s) ==
  /\ subs' = subs \cup {s}
  /\ chOpen' = [chOpen EXCEPT ![s] = FALSE]
  /\ UNCHANGED <<term, ch, grid, fed, snap, behind>>

(* ... which takes the subscription back when there is no snapshot. *)
SnapshotFails(s) ==
  /\ subs' = subs \ {s}
  /\ chOpen' = [chOpen EXCEPT ![s] = FALSE]
  /\ UNCHANGED <<term, ch, grid, fed, snap, behind>>

Cancel(s) ==
  /\ subs' = subs \ {s}
  /\ chOpen' = [chOpen EXCEPT ![s] = @ /\ s \notin subs]
  /\ UNCHANGED <<term, ch, grid, fed, snap, behind>>

ResizeTerm(z) ==
  /\ grid' = z
  /\ UNCHANGED <<term, subs, ch, chOpen, fed, snap, behind>>

(* A slip: the channels are closed and stay in p.subs. *)
ShutdownKeepsSubs ==
  /\ chOpen' = [s \in Subscribers |-> chOpen[s] /\ s \notin subs]
  /\ term' = FALSE
  /\ UNCHANGED <<subs, ch, grid, fed, snap, behind>>

(* Close's closure. *)
Shutdown ==
  /\ subs' = {}
  /\ chOpen' = [s \in Subscribers |-> chOpen[s] /\ s \notin subs]
  /\ term' = FALSE
  /\ UNCHANGED <<ch, grid, fed, snap, behind>>

(* "if p.term == nil", in the closures that need the terminal *)
HasTerm == term

NeedTerm == {"snapshot", "subscribeSnapshot", "resize", "mode"}

(* DECSET 2004 in the terminal, which has seen the chunks fed. *)
BracketedPaste(n) == Cardinality({i \in 1 .. n : written[i] = "mode"}) % 2 = 1

(* The closure succeeds; or it finds no terminal, or libghostty fails (a    *)
(* resize, on either of the two terminals), or bracketed paste is off.      *)
RunClosure(p) ==
  \/ /\ act[p] \in NeedTerm => HasTerm
     /\ \/ act[p] = "feed" /\ Feed
        \/ act[p] = "subscribe" /\ Subscribe(p)
        \/ act[p] = "cancel" /\ Cancel(p)
        \/ act[p] = "snapshot" /\ Snapshot(p)
        \/ act[p] = "subscribeSnapshot" /\ SubscribeWithSnapshot(p)
        \/ act[p] = "resize" /\ ResizeTerm(p)
        \/ act[p] = "mode" /\ BracketedPaste(fed) /\ UNCHANGED <<ptyVars, fed, snap, behind>>
     /\ res' = [res EXCEPT ![p] = "ok"]
  \/ /\ act[p] \in NeedTerm
     /\ \/ HasTerm /\ act[p] = "subscribeSnapshot" /\ SnapshotFails(p)
        \/ HasTerm /\ act[p] = "resize" /\ ResizeTerm(p)
        \/ /\ HasTerm => act[p] # "subscribeSnapshot"
           /\ UNCHANGED <<ptyVars, fed, snap, behind>>
     /\ res' = [res EXCEPT ![p] = "err"]

-----------------------------------------------------------------------------
(* dispatch *)

(* The chunk in the read loop's closure makes the terminal write an answer. *)
Asks(p) == p = Reader /\ term /\ written[read] = "query"

(* Take the next closure, run it and wake its caller. *)
Dispatch ==
  /\ disp \in {"run", "drain"} /\ wpc[Reader] = "off"
  /\ queue # <<>> /\ ~Asks(Head(queue))
  /\ queue' = Tail(queue)
  /\ LET p == Head(queue) IN
       /\ IF p = Closer THEN Shutdown /\ UNCHANGED res ELSE RunClosure(p)
       /\ pc' = [pc EXCEPT ![p] = "ret"]
  /\ UNCHANGED <<act, done, disp, late, childVars, got, sizeVars, lineVars>>

(* VTWrite calls back WithWritePty's function: the closure waits for writeMu *)
(* and for the kernel to take the answer ...                                 *)
DispatchQuery ==
  /\ disp \in {"run", "drain"} /\ wpc[Reader] = "off"
  /\ queue # <<>> /\ Asks(Head(queue))
  /\ queue' = Tail(queue)
  /\ wpc' = [wpc EXCEPT ![Reader] = "lock"]
  /\ UNCHANGED <<doVars, done, disp, late, ptyVars, childVars, fed, viewVars, sizeVars,
                 mu, line, tty, heard>>

(* ... and goes on when it is written, or failed to be. *)
Answered ==
  /\ wpc[Reader] = "put"
  /\ Feed
  /\ wpc' = [wpc EXCEPT ![Reader] = "off"]
  /\ pc' = [pc EXCEPT ![Reader] = "ret"] /\ res' = [res EXCEPT ![Reader] = "ok"]
  /\ UNCHANGED <<act, queue, done, disp, late, childVars, got, sizeVars, mu, line, tty, heard>>

(* p.done is closed: drain what is queued, then return. *)
DispatchDone ==
  /\ disp = "run" /\ wpc[Reader] = "off" /\ done
  /\ disp' = "drain"
  /\ UNCHANGED <<doVars, queue, done, late, ptyVars, childVars, fed, viewVars,
                 sizeVars, lineVars>>

(* A slip: the dispatcher returns without draining. *)
DrainSkipped ==
  /\ disp = "drain"
  /\ disp' = "exit"
  /\ UNCHANGED <<doVars, queue, done, late, ptyVars, childVars, fed, viewVars,
                 sizeVars, lineVars>>

DrainEnds ==
  /\ disp = "drain" /\ wpc[Reader] = "off" /\ queue = <<>>
  /\ disp' = "exit"
  /\ UNCHANGED <<doVars, queue, done, late, ptyVars, childVars, fed, viewVars,
                 sizeVars, lineVars>>

-----------------------------------------------------------------------------
(* Close: queue the shutdown closure and wait, or, when the queue is full,  *)
(* skip it.  The session closes its PTY once the child has exited.          *)

CloseStart ==
  /\ pc[Closer] = "idle" /\ exited
  /\ IF Len(queue) < ActCap
       THEN /\ queue' = Append(queue, Closer)
            /\ pc' = [pc EXCEPT ![Closer] = "wait"]
            /\ UNCHANGED done
       ELSE /\ done' = TRUE
            /\ pc' = [pc EXCEPT ![Closer] = "gone"]
            /\ UNCHANGED queue
  /\ UNCHANGED <<act, res, disp, late, ptyVars, childVars, fed, viewVars, sizeVars,
                 lineVars>>

CloseEnd ==
  /\ pc[Closer] = "ret"
  /\ done' = TRUE
  /\ pc' = [pc EXCEPT ![Closer] = "gone"]
  /\ UNCHANGED <<act, res, queue, disp, late, ptyVars, childVars, fed, viewVars,
                 sizeVars, lineVars>>

-----------------------------------------------------------------------------
(* The child and readLoop *)

ChildWrites ==
  /\ ~exited /\ Len(written) < Len(says)
  /\ \E k \in says[Len(written) + 1] : written' = Append(written, k)
  /\ UNCHANGED <<doVars, queue, done, disp, late, ptyVars, exited, read, says, fed,
                 viewVars, sizeVars, lineVars>>

ChildExits ==
  /\ ~exited
  /\ exited' = TRUE
  /\ UNCHANGED <<doVars, queue, done, disp, late, ptyVars, written, read, says, fed,
                 viewVars, sizeVars, lineVars>>

ReadMaster ==
  /\ pc[Reader] \in {"idle", "ret"} /\ read < Len(written)
  /\ read' = read + 1
  /\ CallDo(Reader, "feed")
  /\ UNCHANGED <<queue, done, disp, late, ptyVars, exited, written, says, fed,
                 viewVars, sizeVars, lineVars>>

-----------------------------------------------------------------------------
(* Subscribers *)

(* A slip: an attach, too, subscribes first and takes its snapshot later. *)
OpenInTwoCalls(s) ==
  /\ pc[s] = "idle"
  /\ CallDo(s, "subscribe")
  /\ UNCHANGED <<queue, done, disp, late, ptyVars, childVars, fed, viewVars, sizeVars,
                 lineVars>>

Open(s) ==
  /\ pc[s] = "idle"
  /\ CallDo(s, IF s \in Viewers THEN "subscribeSnapshot" ELSE "subscribe")
  /\ UNCHANGED <<queue, done, disp, late, ptyVars, childVars, fed, viewVars, sizeVars,
                 lineVars>>

(* An attach without a snapshot: if the closure did not run, its channel is *)
(* still to be closed.                                                      *)
OpenFailed(s) ==
  /\ pc[s] = "ret" /\ act[s] = "subscribeSnapshot" /\ res[s] # "ok"
  /\ pc' = [pc EXCEPT ![s] = "gone"]
  /\ chOpen' = IF res[s] = "not run" THEN [chOpen EXCEPT ![s] = FALSE] ELSE chOpen
  /\ UNCHANGED <<act, res, queue, done, disp, late, term, subs, ch, grid, childVars, fed,
                 viewVars, sizeVars, lineVars>>

(* A stream takes its snapshot in a second do. *)
StreamSnapshot(s) ==
  /\ pc[s] = "ret" /\ act[s] = "subscribe"
  /\ CallDo(s, "snapshot")
  /\ UNCHANGED <<queue, done, disp, late, ptyVars, childVars, fed, viewVars, sizeVars,
                 lineVars>>

(* An attach goes on if it got its snapshot; a stream unless Snapshot       *)
(* failed, taking a do that did not run for an empty snapshot.              *)
Viewing(s) ==
  /\ pc[s] = "ret"
  /\ \/ act[s] = "subscribeSnapshot" /\ res[s] = "ok"
     \/ act[s] = "snapshot" /\ res[s] # "err"

Receive(s) ==
  /\ Viewing(s)
  /\ ch[s] # <<>>
  /\ ch' = [ch EXCEPT ![s] = Tail(@)]
  /\ got' = [got EXCEPT ![s] = Append(@, Head(ch[s]))]
  /\ UNCHANGED <<doVars, queue, done, disp, late, term, subs, chOpen, grid, childVars, fed,
                 snap, behind, sizeVars, lineVars>>

(* The client goes, the channel is closed or a stream has no snapshot:      *)
(* cancel.                                                                  *)
Leave(s) ==
  /\ Viewing(s) \/ (pc[s] = "ret" /\ act[s] = "snapshot")
  /\ CallDo(s, "cancel")
  /\ UNCHANGED <<queue, done, disp, late, ptyVars, childVars, fed, viewVars, sizeVars,
                 lineVars>>

-----------------------------------------------------------------------------
(* Resize *)

Busy(z) == pc[z] \notin {"idle", "gone"}

(* A slip: the terminal alone is resized. *)
ResizeNoIoctl(z) ==
  /\ pc[z] = "idle"
  /\ overlap' = (overlap \/ \E y \in Resizers : Busy(y))
  /\ CallDo(z, "resize")
  /\ UNCHANGED <<queue, done, disp, late, ptyVars, childVars, fed, viewVars, winsize,
                 stored, lineVars>>

(* TIOCSWINSZ, then the terminal.  (Without TIOCSWINSZ, Resize returns.) *)
Resize(z) ==
  /\ pc[z] = "idle"
  /\ winsize' = z
  /\ overlap' = (overlap \/ \E y \in Resizers : Busy(y))
  /\ CallDo(z, "resize")
  /\ UNCHANGED <<queue, done, disp, late, ptyVars, childVars, fed, viewVars, stored,
                 lineVars>>

(* Then p.cols and p.rows, also when do did not run the closure. *)
ResizeEnd(z) ==
  /\ pc[z] = "ret"
  /\ stored' = IF res[z] = "err" THEN stored ELSE z
  /\ pc' = [pc EXCEPT ![z] = "gone"]
  /\ UNCHANGED <<act, res, queue, done, disp, late, ptyVars, childVars, fed, viewVars,
                 winsize, overlap, lineVars>>

-----------------------------------------------------------------------------
(* Write *)

(* An attach's input, or POST /pty/input; with paste=on, after asking       *)
(* whether bracketed paste is on.                                           *)
Input(w) ==
  /\ pc[w] = "idle"
  /\ IF w \in Pasters
       THEN CallDo(w, "mode") /\ UNCHANGED wpc
       ELSE /\ pc' = [pc EXCEPT ![w] = "write"]
            /\ wpc' = [wpc EXCEPT ![w] = "lock"]
            /\ UNCHANGED <<act, res>>
  /\ UNCHANGED <<queue, done, disp, late, ptyVars, childVars, fed, viewVars, sizeVars,
                 mu, line, tty, heard>>

(* BracketedPasteActive has answered: write, or "409 Conflict". *)
Paste(w) ==
  /\ pc[w] = "ret"
  /\ pc' = [pc EXCEPT ![w] = IF res[w] = "ok" THEN "write" ELSE "gone"]
  /\ wpc' = [wpc EXCEPT ![w] = IF res[w] = "ok" THEN "lock" ELSE "off"]
  /\ UNCHANGED <<act, res, queue, done, disp, late, ptyVars, childVars, fed, viewVars,
                 sizeVars, mu, line, tty, heard>>

(* A slip: writers do not wait for each other. *)
LockFree(w) ==
  /\ wpc[w] = "lock"
  /\ mu' = w
  /\ wpc' = [wpc EXCEPT ![w] = "first"]
  /\ UNCHANGED <<doVars, queue, done, disp, late, ptyVars, childVars, fed, viewVars, sizeVars,
                 line, tty, heard>>

(* writeMu.Lock, in Write and in the terminal's callback. *)
Lock(w) ==
  /\ wpc[w] = "lock" /\ mu = Nobody
  /\ mu' = w
  /\ wpc' = [wpc EXCEPT ![w] = "first"]
  /\ UNCHANGED <<doVars, queue, done, disp, late, ptyVars, childVars, fed, viewVars, sizeVars,
                 line, tty, heard>>

(* master.Write puts all of its data on the line, as there is room, ...     *)
Put(w) ==
  /\ wpc[w] \in {"first", "last"} /\ tty # "hung" /\ Len(line) < LineCap
  /\ line' = Append(line, <<w, wpc[w]>>)
  /\ wpc' = [wpc EXCEPT ![w] = IF @ = "first" THEN "last" ELSE "put"]
  /\ mu' = IF wpc[w] = "last" THEN Nobody ELSE mu
  /\ UNCHANGED <<doVars, queue, done, disp, late, ptyVars, childVars, fed, viewVars, sizeVars,
                 tty, heard>>

(* ... or fails because the other end is closed; then Unlock. *)
PutFails(w) ==
  /\ wpc[w] \in {"first", "last"} /\ tty = "hung"
  /\ wpc' = [wpc EXCEPT ![w] = "put"]
  /\ mu' = Nobody
  /\ UNCHANGED <<doVars, queue, done, disp, late, ptyVars, childVars, fed, viewVars, sizeVars,
                 line, tty, heard>>

InputEnd(w) ==
  /\ wpc[w] = "put"
  /\ wpc' = [wpc EXCEPT ![w] = "off"]
  /\ pc' = [pc EXCEPT ![w] = "gone"]
  /\ UNCHANGED <<act, res, queue, done, disp, late, ptyVars, childVars, fed, viewVars,
                 sizeVars, mu, line, tty, heard>>

(* The child, or what it left running on its terminal, reads; stops reading *)
(* and begins again; closes the terminal.  The last two are of no           *)
(* consequence while nothing is, or is to be, on the line.                  *)
ChildReads ==
  /\ tty = "read" /\ line # <<>>
  /\ heard' = Head(line)
  /\ line' = Tail(line)
  /\ UNCHANGED <<doVars, queue, done, disp, late, ptyVars, childVars, fed, viewVars, sizeVars,
                 mu, wpc, tty>>

ChildTurns ==
  /\ line # <<>> /\ tty # "hung"
  /\ tty' = IF tty = "read" THEN "deaf" ELSE "read"
  /\ UNCHANGED <<doVars, queue, done, disp, late, ptyVars, childVars, fed, viewVars, sizeVars,
                 mu, wpc, line, heard>>

HangUp ==
  /\ exited /\ tty # "hung" /\ \E w \in Writers \cup {Reader} : wpc[w] # "off"
  /\ tty' = "hung"
  /\ UNCHANGED <<doVars, queue, done, disp, late, ptyVars, childVars, fed, viewVars, sizeVars,
                 mu, wpc, line, heard>>

-----------------------------------------------------------------------------

Init ==
  /\ \E cast \in Casts :
       /\ pc = [p \in Callers \cup {Closer} |->
                  IF p \in cast[1] \cup {Reader, Closer} THEN "idle" ELSE "gone"]
       /\ says = cast[2]
  /\ act = [p \in Callers |-> "none"]
  /\ res = [p \in Callers |-> "not run"]
  /\ queue = <<>> /\ done = FALSE /\ disp = "run"
  /\ term = TRUE /\ subs = {}
  /\ ch = [s \in Subscribers |-> <<>>] /\ chOpen = [s \in Subscribers |-> TRUE]
  /\ exited = FALSE /\ written = <<>> /\ read = 0 /\ fed = 0
  /\ winsize = NoResize /\ grid = NoResize /\ stored = NoResize /\ overlap = FALSE
  /\ snap = [s \in Subscribers |-> 0] /\ got = [s \in Subscribers |-> <<>>]
  /\ behind = {} /\ late = {}
  /\ mu = Nobody /\ wpc = [w \in Writers \cup {Reader} |-> "off"]
  /\ line = <<>> /\ tty = "read" /\ heard = <<Nobody, "last">>

DispatcherStep == Dispatch \/ DispatchQuery \/ Answered \/ DispatchDone \/ DrainEnds
CallerStep(p) == Send(p) \/ GiveUp(p)
WriteStep(w) == Lock(w) \/ Put(w) \/ PutFails(w)

Next ==
  \/ DispatcherStep
  \/ \E p \in Callers : CallerStep(p)
  \/ CloseStart \/ CloseEnd
  \/ ChildWrites \/ ChildExits \/ ReadMaster
  \/ \E s \in Subscribers :
        Open(s) \/ OpenFailed(s) \/ StreamSnapshot(s) \/ Receive(s) \/ Leave(s)
  \/ \E z \in Resizers : Resize(z) \/ ResizeEnd(z)
  \/ \E w \in Writers : Input(w) \/ Paste(w) \/ InputEnd(w)
  \/ \E w \in Writers \cup {Reader} : WriteStep(w)
  \/ ChildReads \/ ChildTurns \/ HangUp

(* Some goroutine that can run does run, and a child that is not deaf       *)
(* reads.  Every caller makes finitely many calls, so this is all that      *)
(* DoReturns needs.                                                         *)
Fairness ==
  WF_vars(\/ DispatcherStep \/ CloseEnd \/ ChildReads
          \/ \E p \in Callers : CallerStep(p)
          \/ \E w \in Writers \cup {Reader} : WriteStep(w))

Spec == Init /\ [][Next]_vars
FairSpec == Spec /\ Fairness

-----------------------------------------------------------------------------

TypeOK ==
  /\ pc \in [Callers \cup {Closer} -> {"idle", "send", "wait", "ret", "write", "gone"}]
  /\ act \in [Callers -> {"none", "feed", "subscribe", "snapshot", "subscribeSnapshot",
                          "cancel", "resize", "mode"}]
  /\ res \in [Callers -> {"not run", "ok", "err"}]
  /\ queue \in Seq(Callers \cup {Closer}) /\ Len(queue) <= ActCap
  /\ done \in BOOLEAN /\ term \in BOOLEAN /\ exited \in BOOLEAN /\ overlap \in BOOLEAN
  /\ disp \in {"run", "drain", "exit"}
  /\ subs \in SUBSET Subscribers /\ behind \in SUBSET Subscribers
  /\ late \in SUBSET Callers
  /\ ch \in [Subscribers -> Seq(Nat)] /\ got \in [Subscribers -> Seq(Nat)]
  /\ \A s \in Subscribers : Len(ch[s]) <= SubCap
  /\ chOpen \in [Subscribers -> BOOLEAN] /\ snap \in [Subscribers -> Nat]
  /\ says \in Seq(SUBSET Kinds) /\ written \in Seq(Kinds)
  /\ read \in 0 .. Len(written) /\ fed \in 0 .. read
  /\ mu \in Writers \cup {Reader, Nobody}
  /\ wpc \in [Writers \cup {Reader} -> {"off", "lock", "first", "last", "put"}]
  /\ line \in Seq((Writers \cup {Reader}) \X {"first", "last"}) /\ Len(line) <= LineCap
  /\ tty \in {"read", "deaf", "hung"}
  /\ {winsize, grid, stored} \subseteq Resizers \cup {NoResize}

(* attach_handler.go, "causally ordered with no gap or duplication": what   *)
(* an attach got in its snapshot, received and has queued is exactly the    *)
(* output fed so far, unless its full channel dropped a chunk.              *)
AttachJoined ==
  \A v \in subs \cap Viewers :
     v \notin behind =>
        got[v] \o ch[v] = [i \in 1 .. (fed - snap[v]) |-> snap[v] + i]

(* pty_libghostty_routes.go, "no bytes slip between them": a stream misses  *)
(* nothing between its snapshot and its first live chunk, although the two  *)
(* are taken by separate closures (it may get a chunk twice).  A snapshot   *)
(* that Close kept from running counts as none.                             *)
StreamJoined ==
  \A s \in subs \cap Streams :
     s \notin behind /\ Viewing(s) /\ res[s] = "ok" =>
        (1 .. fed) \subseteq (1 .. snap[s]) \cup ToSet(got[s] \o ch[s])

(* The chunk an attach has seen last: of its snapshot, or received. *)
LastSeen(v) == IF got[v] = <<>> THEN snap[v] ELSE got[v][Len(got[v])]

(* How far an attach has come: out, in (it has its snapshot), left. *)
Stage(v) ==
  IF act[v] = "cancel" THEN "left"
  ELSE IF act[v] = "subscribeSnapshot" /\ res[v] = "ok" THEN "in"
  ELSE "out"

Live == INSTANCE LiveOutput WITH
  Window <- SubCap,
  open <- term,
  at <- [v \in Viewers |-> Stage(v)],
  seen <- [v \in Viewers |-> LastSeen(v)],
  lossy <- behind \cap Viewers

(* Snapshot and live output join, for attaches and for streams, and the PTY *)
(* implements LiveOutput: whatever the others do and however the PTY is     *)
(* closed, an attach sees its snapshot and then every chunk, once and in    *)
(* order, also while and after Close ends its channel; the fan-out of       *)
(* readLoop may cost it a chunk only when it is SubCap chunks behind, and   *)
(* never makes it go back.                                                  *)
SnapshotThenLive == Live!Spec /\ [](AttachJoined /\ StreamJoined)

(* SubscribeWithSnapshotParts has not run its closure, or was refused by do *)
(* and is still to close the channel itself.                                *)
ToClose(s) ==
  pc[s] \in {"send", "wait", "ret"} /\ act[s] = "subscribeSnapshot" /\ res[s] = "not run"

(* A channel in p.subs is open, and so is one that a failing                *)
(* SubscribeWithSnapshotParts has yet to close: the dispatcher never sends  *)
(* on a closed channel and no channel is closed twice, whichever of cancel, *)
(* Close, a failed snapshot and a do that gave up comes first.              *)
SubscribedIsOpen == \A s \in Subscribers : s \in subs \/ ToClose(s) => chOpen[s]

(* While the PTY is open, the recorder and the terminal get every chunk the *)
(* read loop takes, however full the queue.                                 *)
EveryReadIsFed == pc[Reader] \in {"idle", "ret"} /\ ~done /\ term => fed = read

(* pty_libghostty.go, "Resize updates both the kernel-level PTY winsize and *)
(* the emulator's grid": once all resizes have ended without an error, the  *)
(* kernel, the terminal and p.cols agree.                                   *)
ResizesAgree ==
  (\A z \in Resizers : ~Busy(z) /\ (act[z] # "none" => res[z] = "ok")) =>
     winsize = grid /\ grid = stored

(* They agree if no two resizes overlapped. *)
SerialResizesAgree == ~overlap => ResizesAgree

(* pty_libghostty.go, writers "cannot interleave at the byte level": what   *)
(* the child reads, and is about to read, is one whole write after the      *)
(* other, of users and of the emulator.                                     *)
WritesAreWhole ==
  LET input == <<heard>> \o line IN
  \A i \in 1 .. Len(input) - 1 :
     input[i][2] = "first" => input[i + 1] = <<input[i][1], "last">>

(* dispatch's drain: when the dispatcher has returned, no closure that was  *)
(* queued before is left without its answer; a goroutine still in do is yet *)
(* to see p.done, or sent its closure to a dispatcher that had returned.    *)
DrainedAll ==
  disp = "exit" =>
     \A p \in Callers \cup {Closer} : pc[p] = "wait" => p \in late

(* Every call of do and of Close returns: sooner or later no goroutine is   *)
(* left inside, but for one that sent its closure to a dispatcher that had  *)
(* already drained p.actions and returned.  As the dispatcher itself writes *)
(* to the child, this takes a child that does not stop reading for ever.    *)
DoReturns ==
  <>[](tty # "deaf") =>
     <>[](\A p \in Callers \cup {Closer} : pc[p] \in {"send", "wait"} => p \in late)

(* pty_libghostty_routes.go, "if the receiver does not have DECSET 2004     *)
(* enabled, the request fails with 409 and writes nothing": a child that    *)
(* begins to read a paste has bracketed paste on.                           *)
PasteIsWanted ==
  \A w \in Pasters : heard = <<w, "first">> => BracketedPaste(Len(written))

(* README.md: pty.hootty.log holds "every byte the child wrote".  Close     *)
(* closes the recorder: by then all chunks must have been recorded.         *)
EveryByteRecorded == ~term => fed = Len(written)
=============================================================================
