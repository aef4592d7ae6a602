---------------------------- MODULE AttachHandler ----------------------------
(***************************************************************************)
(* The attach endpoint of a session: serveOne of src/attach_handler.go with *)
(* its writer and live-drain goroutines, composed with the AttachSet.  The  *)
(* attachRegistry and hoot detach are in AttachRegistry.                    *)
(*                                                                         *)
(* Each conn has a serveOne goroutine (pc), a writer goroutine (wr) that    *)
(* drains outCh onto the connection, and a live goroutine that forwards     *)
(* PTY chunks from liveCh to outCh.  Two notices go to the connection       *)
(* around outCh: forcedDetach's, called by hoot detach, and ServeHTTP's     *)
(* after an error.  Frames carry only their type: what a Size frame says is *)
(* the subject of SizeBroadcast.                                            *)
(***************************************************************************)
EXTENDS AttachSet, Sequences

CONSTANTS
  OutCap,      \* capacity of outCh (256 in the code)
  LiveCap,     \* capacity of the subscriber channel (256 in the code)
  Resizers,    \* bound: the conns whose client sends Size frames
  Typists,     \* bound: the conns whose client sends Input and Ping frames
  Detached     \* bound: the conns hoot detach is called for

ASSUME HandlerAssumption ==
  /\ OutCap \in Nat \ {0}
  /\ LiveCap \in Nat \ {0}
  /\ Resizers \subseteq Conns
  /\ Typists \subseteq Conns
  /\ Detached \subseteq Conns

(* Output and Pong frames are alike here: "Data". *)
Frames == {"Size", "Scrollback", "Screen", "Data"}

VARIABLES
  pc,        \* where serveOne is, per conn
  outCh,     \* queued frames
  outOpen,   \* outCh not closed
  wr,        \* writer goroutine: off, run, dead
  liveCh,    \* chunks in the subscriber channel
  sub,       \* the subscriber is in p.subs (its channel is open)
  live,      \* live goroutine: off, run, done
  conn,      \* the connection: open or closed
  panicked,  \* a panic unwinds serveOne, past ServeHTTP's notice
  detach,    \* forcedDetach: no, noticed (its Output is written), done
  phase      \* history: 0 nothing, 1 Size, 2 Scrollback, 3 Screen on the wire

noticeVars == <<panicked, detach>>
handlerVars == <<pc, outCh, outOpen, wr, liveCh, sub, live, conn, noticeVars, phase>>
vars == <<setVars, handlerVars>>

-----------------------------------------------------------------------------

Goto(c, l) == pc' = [pc EXCEPT ![c] = l]

(* ServeHTTP's defer conn.Close() *)
Return(c) == Goto(c, "gone") /\ conn' = [conn EXCEPT ![c] = "closed"]

(* serveOne is back in ServeHTTP.  On a lost connection its error is EOF or *)
(* has no one to be told; on an open one it is told to the client.          *)
Served(c) ==
  IF conn[c] = "open" /\ ~panicked[c] THEN Goto(c, "notice") /\ UNCHANGED conn
  ELSE Return(c)

(* No Resize under the AttachSet's lock is stuck in the PTY. *)
SetFree == \A c \in Conns : pc[c] # "lockedUp"

HasRoom(c) == outOpen[c] /\ Len(outCh[c]) < OutCap
Send(c, f) == HasRoom(c) /\ outCh' = [outCh EXCEPT ![c] = Append(@, f)]

(* What serveOne's goroutine does after AttachSet's broadcast loop. *)
AfterBroadcast(t) ==
  CASE pc[t] = "adding"   -> Goto(t, "subscribe") /\ UNCHANGED conn
    [] pc[t] = "updating" -> Goto(t, "loop") /\ UNCHANGED conn
    [] pc[t] = "removing" -> Served(t)

-----------------------------------------------------------------------------
(* serveOne *)

(* A valid Hello: start the writer goroutine and join the set. *)
Hello(c, ws) ==
  /\ pc[c] = "hello" /\ SetFree
  /\ Add(c, ws)
  /\ Goto(c, "adding")
  /\ wr' = [wr EXCEPT ![c] = "run"]
  /\ UNCHANGED <<outCh, outOpen, liveCh, sub, live, conn, noticeVars, phase>>

(* The client hangs up before a Hello (EOF, no notice), or sends another    *)
(* frame type, an undecodable or a zero-sized Hello.                        *)
RejectHello(c) ==
  /\ pc[c] = "hello"
  /\ Return(c) \/ (Goto(c, "notice") /\ UNCHANGED conn)
  /\ UNCHANGED <<setVars, outCh, outOpen, wr, liveCh, sub, live, noticeVars, phase>>

(* t's goroutine queues its Size frame for m, blocking while m's outCh is   *)
(* full.                                                                    *)
Broadcast(t, m) ==
  /\ SendSize(t, m)
  /\ Send(m, "Size")
  /\ IF bcast[t].to = {m} THEN AfterBroadcast(t) ELSE UNCHANGED <<pc, conn>>
  /\ UNCHANGED <<outOpen, wr, liveCh, sub, live, noticeVars, phase>>

(* A slip: the panic is swallowed without serveOne's deferred calls. *)
PanicWithoutDefers(t, m) ==
  /\ m \in bcast[t].to
  /\ ~outOpen[m]
  /\ AbortBroadcast(t)
  /\ Return(t)
  /\ UNCHANGED <<outCh, outOpen, wr, liveCh, sub, live, noticeVars, phase>>

(* Sending on m's closed outCh panics in t's goroutine.  net/http recovers  *)
(* it after t's deferred calls: none of serveOne's inside Add, all of them  *)
(* inside Update, none left inside Remove.                                  *)
Panic(t, m) ==
  /\ m \in bcast[t].to
  /\ ~outOpen[m]
  /\ AbortBroadcast(t)
  /\ IF pc[t] = "updating" THEN Goto(t, "unwind") /\ UNCHANGED conn ELSE Return(t)
  /\ panicked' = [panicked EXCEPT ![t] = TRUE]
  /\ UNCHANGED <<outCh, outOpen, wr, liveCh, sub, live, detach, phase>>

(* SubscribeWithSnapshotParts, one dispatcher action. *)
Subscribe(c) ==
  /\ pc[c] = "subscribe"
  /\ sub' = [sub EXCEPT ![c] = TRUE]
  /\ Goto(c, "scroll")
  /\ UNCHANGED <<setVars, outCh, outOpen, wr, liveCh, live, conn, noticeVars, phase>>

(* The registry found no free id, the PTY is closed or the snapshot failed: *)
(* only the deferred calls run, outCh is never closed.                      *)
SubscribeFails(c) ==
  /\ pc[c] = "subscribe"
  /\ Goto(c, "setRemove")
  /\ UNCHANGED <<setVars, outCh, outOpen, wr, liveCh, sub, live, conn, noticeVars, phase>>

(* A slip: the live goroutine starts before the screen snapshot is queued. *)
LiveBeforeScreen(c) ==
  /\ pc[c] = "scroll"
  /\ Send(c, "Scrollback")
  /\ live' = [live EXCEPT ![c] = "run"]
  /\ Goto(c, "screen")
  /\ UNCHANGED <<setVars, outOpen, wr, liveCh, sub, conn, noticeVars, phase>>

SendScrollback(c) ==
  /\ pc[c] = "scroll"
  /\ Send(c, "Scrollback")
  /\ Goto(c, "screen")
  /\ UNCHANGED <<setVars, outOpen, wr, liveCh, sub, live, conn, noticeVars, phase>>

(* The screen snapshot; the live goroutine starts after it. *)
SendScreen(c) ==
  /\ pc[c] = "screen"
  /\ Send(c, "Screen")
  /\ live' = [live EXCEPT ![c] = "run"]
  /\ Goto(c, "loop")
  /\ UNCHANGED <<setVars, outOpen, wr, liveCh, sub, conn, noticeVars, phase>>

-----------------------------------------------------------------------------
(* clientReadLoop *)

(* A Size frame with positive dimensions. *)
ReadSize(c, ws) ==
  /\ pc[c] = "loop" /\ conn[c] = "open" /\ c \in Resizers /\ SetFree
  /\ Update(c, ws)
  /\ IF bcast'[c].to = {} THEN UNCHANGED pc ELSE Goto(c, "updating")
  /\ UNCHANGED <<outCh, outOpen, wr, liveCh, sub, live, conn, noticeVars, phase>>

ReadPing(c) ==
  /\ pc[c] = "loop" /\ conn[c] = "open" /\ c \in Typists
  /\ Goto(c, "pong")
  /\ UNCHANGED <<setVars, outCh, outOpen, wr, liveCh, sub, live, conn, noticeVars, phase>>

SendPong(c) ==
  /\ pc[c] = "pong"
  /\ Send(c, "Data")
  /\ Goto(c, "loop")
  /\ UNCHANGED <<setVars, outOpen, wr, liveCh, sub, live, conn, noticeVars, phase>>

(* An Input frame: pty.Write, which waits while the child does not read. *)
ReadInput(c) ==
  /\ pc[c] = "loop" /\ conn[c] = "open" /\ c \in Typists
  /\ Goto(c, "input")
  /\ UNCHANGED <<setVars, outCh, outOpen, wr, liveCh, sub, live, conn, noticeVars, phase>>

InputWritten(c) ==
  /\ pc[c] = "input"
  /\ Goto(c, "loop")
  /\ UNCHANGED <<setVars, outCh, outOpen, wr, liveCh, sub, live, conn, noticeVars, phase>>

(* The loop ends on a read error, a protocol error or a failed PTY write. *)
EndLoop(c) ==
  /\ pc[c] \in {"loop", "input"}
  /\ Goto(c, "cancel")
  /\ UNCHANGED <<setVars, outCh, outOpen, wr, liveCh, sub, live, conn, noticeVars, phase>>

(* A slip: the subscriber channel is left open. *)
CancelKeepsSub(c) ==
  /\ pc[c] \in {"cancel", "unwind"}
  /\ Goto(c, IF pc[c] = "cancel" THEN "waitLive" ELSE "setRemove")
  /\ UNCHANGED <<setVars, outCh, outOpen, wr, liveCh, sub, live, conn, noticeVars, phase>>

(* cancelSub: the dispatcher deletes the subscriber and closes its channel. *)
(* After a panic serveOne's waits are skipped and only the deferred calls   *)
(* run.                                                                     *)
CancelSub(c) ==
  /\ pc[c] \in {"cancel", "unwind"}
  /\ sub' = [sub EXCEPT ![c] = FALSE]
  /\ Goto(c, IF pc[c] = "cancel" THEN "waitLive" ELSE "setRemove")
  /\ UNCHANGED <<setVars, outCh, outOpen, wr, liveCh, live, conn, noticeVars, phase>>

(* A slip: outCh is closed without waiting for the live goroutine. *)
CloseOutEarly(c) ==
  /\ pc[c] = "waitLive"
  /\ outOpen' = [outOpen EXCEPT ![c] = FALSE]
  /\ Goto(c, "waitWriter")
  /\ UNCHANGED <<setVars, outCh, wr, liveCh, sub, live, conn, noticeVars, phase>>

(* <-liveDone, then closeOut. *)
CloseOut(c) ==
  /\ pc[c] = "waitLive"
  /\ live[c] = "done"
  /\ outOpen' = [outOpen EXCEPT ![c] = FALSE]
  /\ Goto(c, "waitWriter")
  /\ UNCHANGED <<setVars, outCh, wr, liveCh, sub, live, conn, noticeVars, phase>>

(* A slip: the join with the writer goroutine is forgotten. *)
NotJoined(c) ==
  /\ pc[c] = "waitWriter"
  /\ Goto(c, "setRemove")
  /\ UNCHANGED <<setVars, outCh, outOpen, wr, liveCh, sub, live, conn, noticeVars, phase>>

(* <-writerDone *)
WriterJoined(c) ==
  /\ pc[c] = "waitWriter"
  /\ wr[c] = "dead"
  /\ Goto(c, "setRemove")
  /\ UNCHANGED <<setVars, outCh, outOpen, wr, liveCh, sub, live, conn, noticeVars, phase>>

(* The deferred set.Remove. *)
Leave(c) ==
  /\ pc[c] = "setRemove" /\ SetFree
  /\ Remove(c)
  /\ IF bcast'[c].to = {} THEN Served(c) ELSE Goto(c, "removing") /\ UNCHANGED conn
  /\ UNCHANGED <<outCh, outOpen, wr, liveCh, sub, live, noticeVars, phase>>

-----------------------------------------------------------------------------
(* The notices written to conn around outCh *)

(* ServeHTTP's "attach detached: ..." after serveOne returned an error,     *)
(* without writeMu; nothing is sent on a lost connection.                   *)
WriteNotice(c) ==
  /\ pc[c] = "notice"
  /\ Goto(c, "closing")
  /\ UNCHANGED <<setVars, outCh, outOpen, wr, liveCh, sub, live, conn, noticeVars, phase>>

CloseConn(c) ==
  /\ pc[c] = "closing"
  /\ Return(c)
  /\ UNCHANGED <<setVars, outCh, outOpen, wr, liveCh, sub, live, noticeVars, phase>>

(* forcedDetach, once the registry knows the attach: the notice under       *)
(* writeMu, that is between two frames of the writer goroutine, ...         *)
DetachNotice(c) ==
  /\ c \in Detached /\ detach[c] = "no"
  /\ pc[c] \notin {"hello", "adding"} /\ conn[c] = "open" /\ c \in joined
  /\ detach' = [detach EXCEPT ![c] = "noticed"]
  /\ UNCHANGED <<setVars, pc, outCh, outOpen, wr, liveCh, sub, live, conn, panicked, phase>>

(* ... then, writeMu released, conn.Close. *)
DetachClose(c) ==
  /\ detach[c] = "noticed"
  /\ detach' = [detach EXCEPT ![c] = "done"]
  /\ conn' = [conn EXCEPT ![c] = "closed"]
  /\ UNCHANGED <<setVars, pc, outCh, outOpen, wr, liveCh, sub, live, panicked, phase>>

-----------------------------------------------------------------------------
(* Calls of the PTY that never return: the child has stopped reading and    *)
(* the dispatcher or Write waits for it (PTYDispatcher)                     *)

(* Write, SubscribeWithSnapshotParts or cancelSub. *)
PTYBlocks(c) ==
  /\ pc[c] \in {"input", "subscribe", "cancel", "unwind"}
  /\ Goto(c, "stuck")
  /\ UNCHANGED <<setVars, outCh, outOpen, wr, liveCh, sub, live, conn, noticeVars, phase>>

(* The Resize of Add, Update or Remove, inside the AttachSet's lock: what   *)
(* the set holds by then no one sees any more.                              *)
ResizeBlocks(c, ws) ==
  /\ \/ pc[c] = "hello" /\ ws # NoSize
     \/ pc[c] = "loop" /\ conn[c] = "open" /\ c \in Resizers /\ ws # NoSize
     \/ pc[c] = "setRemove" /\ ws = NoSize
  /\ SetFree
  /\ recomputeLocked([members EXCEPT ![c] = ws]) # current
  /\ wr' = [wr EXCEPT ![c] = IF pc[c] = "hello" THEN "run" ELSE @]
  /\ Goto(c, "lockedUp")
  /\ UNCHANGED <<setVars, outCh, outOpen, liveCh, sub, live, conn, noticeVars, phase>>

-----------------------------------------------------------------------------
(* The writer and live goroutines, the dispatcher, and the client *)

PhaseAfter(p, f) ==
  CASE f = "Scrollback" -> 2
    [] f = "Screen" -> 3
    [] OTHER -> IF p = 0 THEN 1 ELSE p

(* Write the next frame to a client that reads it.  A frame being written   *)
(* counts as still in outCh.                                                *)
WriteFrame(c) ==
  /\ wr[c] = "run" /\ conn[c] = "open"
  /\ outCh[c] # <<>>
  /\ outCh' = [outCh EXCEPT ![c] = Tail(@)]
  /\ phase' = [phase EXCEPT ![c] = PhaseAfter(@, Head(outCh[c]))]
  /\ UNCHANGED <<setVars, pc, outOpen, wr, liveCh, sub, live, conn, noticeVars>>

(* A write on a lost connection fails: the goroutine drops the frame, stops *)
(* and no longer drains outCh.                                              *)
WriteFails(c) ==
  /\ wr[c] = "run" /\ conn[c] = "closed"
  /\ outCh[c] # <<>>
  /\ outCh' = [outCh EXCEPT ![c] = Tail(@)]
  /\ wr' = [wr EXCEPT ![c] = "dead"]
  /\ UNCHANGED <<setVars, pc, outOpen, liveCh, sub, live, conn, noticeVars, phase>>

(* outCh is closed and empty: the range loop ends. *)
WriterEnd(c) ==
  /\ wr[c] = "run"
  /\ outCh[c] = <<>> /\ ~outOpen[c]
  /\ wr' = [wr EXCEPT ![c] = "dead"]
  /\ UNCHANGED <<setVars, pc, outCh, outOpen, liveCh, sub, live, conn, noticeVars, phase>>

(* Forward one chunk, blocking while outCh is full.  The chunk in hand is   *)
(* counted as still in liveCh.                                              *)
LiveForward(c) ==
  /\ live[c] = "run"
  /\ liveCh[c] > 0
  /\ Send(c, "Data")
  /\ liveCh' = [liveCh EXCEPT ![c] = @ - 1]
  /\ UNCHANGED <<setVars, pc, outOpen, wr, sub, live, conn, noticeVars, phase>>

LiveEnd(c) ==
  /\ live[c] = "run"
  /\ liveCh[c] = 0 /\ ~sub[c]
  /\ live' = [live EXCEPT ![c] = "done"]
  /\ UNCHANGED <<setVars, pc, outCh, outOpen, wr, liveCh, sub, conn, noticeVars, phase>>

(* The dispatcher fans a chunk of child output out; a full subscriber       *)
(* channel drops it.                                                        *)
Fanout ==
  /\ \E c \in Conns : sub[c]
  /\ liveCh' = [c \in Conns |-> IF sub[c] THEN Min({liveCh[c] + 1, LiveCap})
                                ELSE liveCh[c]]
  /\ UNCHANGED <<setVars, pc, outCh, outOpen, wr, sub, live, conn, noticeVars, phase>>

(* The client hangs up or its network fails. *)
Disconnect(c) ==
  /\ pc[c] \notin {"hello", "gone"}
  /\ conn[c] = "open"
  /\ conn' = [conn EXCEPT ![c] = "closed"]
  /\ UNCHANGED <<setVars, pc, outCh, outOpen, wr, liveCh, sub, live, noticeVars, phase>>

-----------------------------------------------------------------------------

Init ==
  /\ SetInit
  /\ pc = [c \in Conns |-> "hello"]
  /\ outCh = [c \in Conns |-> <<>>]
  /\ outOpen = [c \in Conns |-> TRUE]
  /\ wr = [c \in Conns |-> "off"]
  /\ liveCh = [c \in Conns |-> 0]
  /\ sub = [c \in Conns |-> FALSE]
  /\ live = [c \in Conns |-> "off"]
  /\ conn = [c \in Conns |-> "open"]
  /\ panicked = [c \in Conns |-> FALSE]
  /\ detach = [c \in Conns |-> "no"]
  /\ phase = [c \in Conns |-> 0]

(* The steps of c's serveOne that need nothing from the client. *)
ServeStep(c) ==
  \/ Subscribe(c) \/ SendScrollback(c) \/ SendScreen(c) \/ SendPong(c)
  \/ InputWritten(c) \/ CancelSub(c) \/ CloseOut(c) \/ WriterJoined(c)
  \/ Leave(c) \/ CloseConn(c)
  \/ \E m \in Conns : Broadcast(c, m) \/ Panic(c, m)

(* The writer goroutine, when it needs nothing from the client either. *)
WriterStep(c) == WriteFails(c) \/ WriterEnd(c)
LiveStep(c) == LiveForward(c) \/ LiveEnd(c)

(* What the client, hoot detach, the child and failures do, or not. *)
Environment(c) ==
  \/ \E ws \in Sizes : Hello(c, ws) \/ ReadSize(c, ws)
  \/ RejectHello(c) \/ SubscribeFails(c)
  \/ ReadPing(c) \/ ReadInput(c) \/ EndLoop(c) \/ Disconnect(c)
  \/ WriteFrame(c) \/ WriteNotice(c) \/ DetachNotice(c) \/ DetachClose(c)
  \/ PTYBlocks(c) \/ \E ws \in Sizes \cup {NoSize} : ResizeBlocks(c, ws)

Next ==
  \/ \E c \in Conns :
        ServeStep(c) \/ WriterStep(c) \/ LiveStep(c) \/ Environment(c)
  \/ Fanout

(* Goroutines that can run do run, and the read loop notices a closed       *)
(* connection.  A Go channel serves blocked senders in turn, so a sender on *)
(* an outCh that keeps being drained gets its turn (strong fairness).  No   *)
(* client has to read: WriteFrame and WriteNotice may never come.           *)
Fairness ==
  \A c \in Conns :
     /\ SF_vars(ServeStep(c)) /\ SF_vars(LiveStep(c)) /\ WF_vars(WriterStep(c))
     /\ WF_vars(conn[c] = "closed" /\ pc[c] = "loop" /\ EndLoop(c))

Spec == Init /\ [][Next]_vars
FairSpec == Spec /\ Fairness

-----------------------------------------------------------------------------

ServeLabels ==
  {"hello", "adding", "subscribe", "scroll", "screen", "loop", "updating",
   "input", "pong", "cancel", "waitLive", "waitWriter", "unwind", "setRemove",
   "removing", "notice", "closing", "gone", "stuck", "lockedUp"}

TypeOK ==
  /\ SetTypeOK
  /\ pc \in [Conns -> ServeLabels]
  /\ outCh \in [Conns -> Seq(Frames)]
  /\ \A c \in Conns : Len(outCh[c]) <= OutCap
  /\ outOpen \in [Conns -> BOOLEAN]
  /\ wr \in [Conns -> {"off", "run", "dead"}]
  /\ liveCh \in [Conns -> 0 .. LiveCap]
  /\ sub \in [Conns -> BOOLEAN]
  /\ live \in [Conns -> {"off", "run", "done"}]
  /\ conn \in [Conns -> {"open", "closed"}]
  /\ panicked \in [Conns -> BOOLEAN]
  /\ detach \in [Conns -> {"no", "noticed", "done"}]
  /\ phase \in [Conns -> 0 .. 3]

(* The frames of outCh go on the wire in this order: a Size, the            *)
(* scrollback, the screen, and live output and pongs only after the screen; *)
(* Size broadcasts may come in between.  ServeHTTP's error notice, which    *)
(* does not go through outCh, is the last frame of every attach that got    *)
(* its screen.  Only after a failed registration or snapshot, where the     *)
(* writer goroutine is not joined, can a frame follow it: a Size.           *)
(* forcedDetach's notice can come anywhere once the attach is registered.   *)
WireOrder ==
  [][\A c \in Conns : (outCh[c] # <<>> /\ outCh'[c] = Tail(outCh[c])) =>
        /\ phase[c] \in CASE Head(outCh[c]) = "Size" -> 0 .. 3
                          [] Head(outCh[c]) = "Scrollback" -> {1}
                          [] Head(outCh[c]) = "Screen" -> {2}
                          [] Head(outCh[c]) = "Data" -> {3}
        /\ pc[c] = "closing" /\ wr'[c] = "run" =>
              Head(outCh[c]) = "Size" /\ phase[c] <= 1]_vars

(* attach_handler.go on the initial Size: it is sent right after Hello,     *)
(* before the first Output frame.  Here, before forcedDetach's Output.      *)
SizeFirst ==
  [][\A c \in Conns : detach[c] = "no" /\ detach'[c] = "noticed" => phase[c] >= 1]_vars

(* attach_handler.go on the writer goroutine: all writes onto the           *)
(* connection are serialized, so no one writes a frame while the writer has *)
(* one to write.                                                            *)
SerializedWrites ==
  [][\A c \in Conns : pc[c] = "notice" /\ pc'[c] = "closing" /\ conn[c] = "open" =>
        wr[c] # "run" \/ outCh[c] = <<>>]_vars

(* An attach that was served its snapshot leaves the set before serveOne    *)
(* returns, whatever ended it, a panic in a broadcast included: only an     *)
(* attach whose own Add panicked stays behind as a member nobody serves.    *)
ServedAttachLeaves ==
  \A c \in Conns : pc[c] = "gone" /\ c \in Members => phase[c] <= 1 /\ ~sub[c]

(* outCh is closed only when none of the conn's own goroutines can send on  *)
(* it any more.  A panic in the live goroutine, which net/http does not     *)
(* recover, would end the whole session process.                            *)
OwnSendersDone ==
  \A c \in Conns : ~outOpen[c] =>
     /\ live[c] = "done"
     /\ pc[c] \in {"waitWriter", "setRemove", "removing", "notice", "closing",
                   "gone", "lockedUp"}

(* c's outCh takes no frame: its writer goroutine stopped on a write error  *)
(* or waits for a client that does not read.                                *)
Full(c) == Len(outCh[c]) = OutCap

(* A lost connection leaves the set, so that the PTY can grow back, unless  *)
(* an attach's outCh stays full, its own call of the PTY or one inside the  *)
(* set's lock never returns, or a panic ended its Add half-way.             *)
LostAttachLeaves ==
  \A c \in Conns :
     (pc[c] # "hello" /\ conn[c] = "closed") ~>
        \/ c \notin Members \/ pc[c] \in {"gone", "stuck", "lockedUp"}
        \/ ~SetFree \/ \E d \in Conns : []Full(d)

(* attach_handler.go on teardown: cancelling the subscription makes the     *)
(* live goroutine exit and closing outCh the writer, so serveOne returns.   *)
(* Stated for a lost connection, when the PTY's calls return.               *)
TeardownFinishes ==
  \A c \in Conns : pc[c] = "cancel" /\ conn[c] = "closed" ~>
                      pc[c] \in {"gone", "stuck"} \/ ~SetFree
=============================================================================
