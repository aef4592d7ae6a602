------------------------- MODULE AttachHandlerProofs -------------------------
(***************************************************************************)
(* The attach endpoint for any number of attaches, any window sizes and any *)
(* channel capacities: it runs the AttachSet as AttachSet describes it, it  *)
(* closes outCh only behind its own senders, it leaves no served attach in  *)
(* the set, and every client sees its frames in the order of the protocol,  *)
(* and ServeHTTP's notice after them.                                       *)
(*                                                                         *)
(* The inductive invariant has two layers: where each serveOne is and what  *)
(* it owes the set (PlaceInv), and what is in each outCh (WireInv).         *)
(***************************************************************************)
EXTENDS AttachHandler, AttachSetProofs

(* Inside a call of the set, with frames left to send. *)
Sending == {"adding", "updating", "removing"}

(* Past serveOne's own waits; without a panic, its writer goroutine is      *)
(* joined or nothing was served.                                            *)
Over == {"setRemove", "removing", "notice", "closing"}
Closed == {"waitWriter", "setRemove", "removing", "notice", "closing", "gone", "lockedUp"}

USE DEF noticeVars

PlaceType ==
  /\ pc \in [Conns -> ServeLabels]
  /\ outOpen \in [Conns -> BOOLEAN] /\ sub \in [Conns -> BOOLEAN]
  /\ wr \in [Conns -> {"off", "run", "dead"}]
  /\ live \in [Conns -> {"off", "run", "done"}]
  /\ conn \in [Conns -> {"open", "closed"}]
  /\ panicked \in [Conns -> BOOLEAN]

(* c's goroutine is in a broadcast exactly while it is inside a call of the *)
(* set, and c's own Size frame is the last of its Add.  c is no member      *)
(* before its Add and after its Remove.  Whoever is gone has closed its     *)
(* connection, and whoever is gone and still a member never subscribed.  A  *)
(* panic does not come back to ServeHTTP's notice.                          *)
PlaceOf(c) ==
  /\ pc[c] \in Sending <=> ~Idle(c)
  /\ pc[c] = "adding" => c \in bcast[c].to /\ bcast[c].last
  /\ pc[c] = "hello" => c \notin joined /\ wr[c] = "off" /\ ~panicked[c]
  /\ pc[c] = "unwind" => panicked[c]
  /\ pc[c] \in {"notice", "closing"} => ~panicked[c]
  /\ c \notin joined \/ pc[c] \in {"removing", "notice", "closing"} => c \notin Members
  /\ pc[c] \in {"hello", "adding", "subscribe"} => ~sub[c]
  /\ pc[c] = "gone" => conn[c] = "closed" /\ (c \in Members => ~sub[c])
  /\ ~outOpen[c] => live[c] = "done" /\ pc[c] \in Closed

PlaceInv == PlaceType /\ \A c \in Conns : PlaceOf(c)

(* A queue q, for a client in phase p: the scrollback comes once, after a   *)
(* Size and nothing else, the screen once and after the scrollback, and     *)
(* data after the screen.                                                   *)
InOrder(q, p) ==
  \A i \in 1 .. Len(q) :
     /\ q[i] = "Scrollback" =>
           p <= 1 /\ (p = 1 \/ i > 1) /\ \A j \in 1 .. (i - 1) : q[j] = "Size"
     /\ q[i] = "Screen" =>
           /\ p <= 2 /\ (p = 2 \/ \E k \in 1 .. (i - 1) : q[k] = "Scrollback")
           /\ \A j \in 1 .. (i - 1) : q[j] \in {"Size", "Scrollback"}
     /\ q[i] = "Data" => p = 3 \/ \E k \in 1 .. (i - 1) : q[k] = "Screen"

(* Nothing but sizes is queued; no more than the scrollback was sent, and   *)
(* it was; the screen was sent.                                             *)
Sized(q) == \A i \in 1 .. Len(q) : q[i] = "Size"
Scrolled(q, p) ==
  /\ p <= 2 /\ (p = 2 \/ \E k \in 1 .. Len(q) : q[k] = "Scrollback")
  /\ \A i \in 1 .. Len(q) : q[i] \in {"Size", "Scrollback"}
Screened(q, p) == p = 3 \/ \E k \in 1 .. Len(q) : q[k] = "Screen"

Early == {"hello", "adding", "subscribe", "scroll"}
Talking == {"loop", "updating", "input", "pong"}

WireType == outCh \in [Conns -> Seq(Frames)] /\ phase \in [Conns -> 0 .. 3]

(* What c's serveOne has sent is in its queue or on the wire, unless the    *)
(* writer goroutine died on a lost connection.  If that goroutine still     *)
(* runs when serveOne returns an error, only sizes were sent.               *)
WireOf(c) ==
  /\ pc[c] \in Early \/ (pc[c] = "gone" /\ c \in Members) => phase[c] <= 1
  /\ wr[c] # "dead" =>
        /\ InOrder(outCh[c], phase[c])
        /\ pc[c] \in Early => Sized(outCh[c])
        /\ pc[c] \in {"subscribe", "scroll"} => phase[c] = 1 \/ Len(outCh[c]) >= 1
        /\ pc[c] = "screen" => Scrolled(outCh[c], phase[c])
        /\ pc[c] \in Talking \/ live[c] = "run" => Screened(outCh[c], phase[c])
        /\ pc[c] \in Over /\ ~panicked[c] => phase[c] <= 1 /\ Sized(outCh[c])

WireInv == WireType /\ \A c \in Conns : WireOf(c)

-----------------------------------------------------------------------------
(* Where serveOne is *)

(* serveOne runs the AttachSet, from the Hello to the deferred Remove and   *)
(* through panics: what holds of the set holds of the endpoint.             *)
THEOREM HandlerImplementsSet == Spec => SetSpec
<1>1. Init => SetInit
  BY DEF Init
<1>2. [Next]_vars => [SetNext]_setVars
  <2> SUFFICES ASSUME [Next]_vars PROVE [SetNext]_setVars
    OBVIOUS
  <2>1. ASSUME NEW c \in Conns, NEW ws \in Sizes, Hello(c, ws) \/ ReadSize(c, ws)
        PROVE  SetNext
    BY <2>1 DEF SetNext, Hello, ReadSize
  <2>2. ASSUME NEW c \in Conns, Leave(c) PROVE SetNext
    BY <2>2 DEF SetNext, Leave
  <2>3. ASSUME NEW t \in Conns, NEW m \in Conns, Broadcast(t, m) \/ Panic(t, m)
        PROVE  SetNext
    BY <2>3 DEF SetNext, Broadcast, Panic
  <2>4. CASE UNCHANGED setVars
    BY <2>4
  <2>5. QED
    BY <2>1, <2>2, <2>3, <2>4
       DEF Next, ServeStep, WriterStep, LiveStep, Environment, Subscribe, SendScrollback,
           SendScreen, SendPong, CancelSub, CloseOut, WriterJoined, WriteFrame, WriteFails,
           WriterEnd, LiveForward, LiveEnd, RejectHello, SubscribeFails, ReadPing, EndLoop,
           Disconnect, Fanout, ReadInput, InputWritten, WriteNotice, CloseConn, DetachNotice,
           DetachClose, PTYBlocks, ResizeBlocks, vars
<1>3. QED
  BY <1>1, <1>2, PTL DEF Spec, SetSpec

(* A conn of which nothing changes. *)
LEMMA PlaceStays ==
  ASSUME NEW x \in Conns, PlaceOf(x), pc'[x] = pc[x], bcast'[x] = bcast[x],
         x \in joined' <=> x \in joined, x \in Members' <=> x \in Members,
         wr'[x] = wr[x], sub'[x] = sub[x], live'[x] = live[x], outOpen'[x] = outOpen[x],
         panicked'[x] = panicked[x], conn'[x] = conn[x] \/ conn'[x] = "closed"
  PROVE  PlaceOf(x)'
BY DEF PlaceOf, Idle

(* A step of c, outside of the set. *)
LEMMA LocalKeeps ==
  ASSUME PlaceInv, PlaceType', NEW c \in Conns, UNCHANGED setVars, PlaceOf(c)',
         \A x \in Conns \ {c} :
            /\ pc'[x] = pc[x] /\ wr'[x] = wr[x] /\ sub'[x] = sub[x]
            /\ conn'[x] = conn[x] /\ live'[x] = live[x] /\ outOpen'[x] = outOpen[x]
            /\ panicked'[x] = panicked[x]
  PROVE  PlaceInv'
<1>1. Members' = Members /\ joined' = joined /\ bcast' = bcast
  BY DEF setVars, Members, MembersOf
<1>2. ASSUME NEW x \in Conns \ {c} PROVE PlaceOf(x)'
  BY <1>1, PlaceStays DEF PlaceInv
<1>3. QED
  BY <1>2 DEF PlaceInv

(* What a locked section does to the members. *)
LEMMA DeclareFacts ==
  ASSUME SetTypeOK, NEW c \in Conns, NEW w \in PositiveSize \cup {NoSize},
         Recompute([members EXCEPT ![c] = w])
  PROVE  /\ \A x \in Conns \ {c} : x \in Members' <=> x \in Members
         /\ c \in Members' <=> w # NoSize
BY DEF Recompute, Members, MembersOf, SetTypeOK

(* What is left to send after it. *)
LEMMA StartFacts ==
  ASSUME SetTypeOK, NEW c \in Conns, NEW to, NEW last, StartBroadcast(c, to, last)
  PROVE  /\ \A x \in Conns \ {c} : bcast'[x] = bcast[x]
         /\ bcast'[c].to = to /\ (to # {} => bcast'[c].last = last)
BY DEF StartBroadcast, SetTypeOK, Quiet

(* What is left to send after one frame. *)
LEMMA SendFacts ==
  ASSUME SetTypeOK, NEW t \in Conns, NEW m \in Conns, SendSize(t, m)
  PROVE  /\ \A x \in Conns \ {t} : bcast'[x] = bcast[x]
         /\ m \in bcast[t].to /\ bcast'[t].to = bcast[t].to \ {m}
         /\ bcast[t].to # {m} => bcast'[t].last = bcast[t].last
         /\ bcast[t].last /\ m = t => bcast[t].to = {t}
         /\ members' = members /\ joined' = joined /\ Members' = Members
BY DEF SendSize, SetTypeOK, Quiet, Members, MembersOf

(* Hello: c joins, and has at least its own frame to send. *)
LEMMA HelloKeeps ==
  ASSUME SetTypeOK, PlaceInv, NEW c \in Conns, NEW ws \in Sizes, Hello(c, ws)
  PROVE  PlaceInv'
<1> DEFINE to == Receivers([members EXCEPT ![c] = ws]) \cup {c}
<1>1. /\ pc[c] = "hello" /\ pc' = [pc EXCEPT ![c] = "adding"] /\ wr' = [wr EXCEPT ![c] = "run"]
      /\ joined' = joined \cup {c} /\ Recompute([members EXCEPT ![c] = ws])
      /\ StartBroadcast(c, to, TRUE)
      /\ outOpen' = outOpen /\ sub' = sub /\ live' = live /\ conn' = conn
      /\ panicked' = panicked
  BY DEF Hello, Goto, Add
<1>2. c \in to
  OBVIOUS
<1> HIDE DEF to
<1>3. /\ \A x \in Conns \ {c} : bcast'[x] = bcast[x]
      /\ bcast'[c].to = to /\ bcast'[c].last
  BY <1>1, <1>2, StartFacts
<1>4. \A x \in Conns \ {c} : x \in Members' <=> x \in Members
  BY <1>1, DeclareFacts, SizesAssumption
<1>5. PlaceType'
  BY <1>1 DEF PlaceInv, PlaceType, ServeLabels
<1>6. ASSUME NEW x \in Conns \ {c} PROVE PlaceOf(x)'
  <2>1. pc'[x] = pc[x] /\ wr'[x] = wr[x] /\ (x \in joined' <=> x \in joined)
    BY <1>1 DEF PlaceInv, PlaceType
  <2>2. QED
    BY <2>1, <1>1, <1>3, <1>4, PlaceStays DEF PlaceInv
<1>7. PlaceOf(c)'
  <2>1. pc'[c] = "adding" /\ c \in joined'
    BY <1>1 DEF PlaceInv, PlaceType
  <2>2. ~Idle(c)'
    BY <1>2, <1>3 DEF Idle
  <2>3. ~sub[c] /\ outOpen[c]
    BY <1>1 DEF PlaceInv, PlaceOf, Closed
  <2>4. QED
    BY <2>1, <2>2, <2>3, <1>1, <1>2, <1>3 DEF PlaceOf, Sending, Closed
<1>8. QED
  BY <1>5, <1>6, <1>7 DEF PlaceInv

(* Update and Remove: c declares w and goes to l while it has frames to     *)
(* send, and otherwise to l0.                                               *)
LEMMA DeclareKeeps ==
  ASSUME SetTypeOK, PlaceInv, PlaceType', NEW c \in Conns, pc[c] \in {"loop", "setRemove"},
         NEW w \in PositiveSize \cup {NoSize}, Recompute([members EXCEPT ![c] = w]),
         NEW to \in SUBSET Conns, StartBroadcast(c, to, FALSE), joined' = joined,
         c \in Members,
         \/ w # NoSize /\ pc'[c] = (IF to = {} THEN "loop" ELSE "updating")
            /\ pc[c] = "loop" /\ conn'[c] = conn[c]
         \/ /\ w = NoSize /\ (to # {} => pc'[c] = "removing")
            /\ to = {} => \/ pc'[c] = "gone" /\ conn'[c] = "closed"
                          \/ pc'[c] = "notice" /\ ~panicked[c],
         \A x \in Conns \ {c} : pc'[x] = pc[x] /\ conn'[x] = conn[x],
         wr' = wr, sub' = sub, live' = live, outOpen' = outOpen, panicked' = panicked
  PROVE  PlaceInv'
<1>1. /\ \A x \in Conns \ {c} : bcast'[x] = bcast[x]
      /\ bcast'[c].to = to
  BY DEF StartBroadcast, SetTypeOK, Quiet
<1>2. /\ \A x \in Conns \ {c} : x \in Members' <=> x \in Members
      /\ c \in Members' <=> w # NoSize
  BY DeclareFacts
<1>3. ASSUME NEW x \in Conns \ {c} PROVE PlaceOf(x)'
  BY <1>1, <1>2, PlaceStays DEF PlaceInv
<1>4. PlaceOf(c)'
  <2>1. c \in joined /\ PlaceOf(c) /\ (Idle(c)' <=> to = {})
    BY <1>1 DEF PlaceInv, PlaceOf, Idle
  <2>2. QED
    BY <2>1, <1>2 DEF PlaceOf, Sending, Closed
<1>5. QED
  BY <1>3, <1>4 DEF PlaceInv

(* One frame of t's broadcast. *)
LEMMA BroadcastKeeps ==
  ASSUME SetTypeOK, PlaceInv, NEW t \in Conns, NEW m \in Conns, Broadcast(t, m)
  PROVE  PlaceInv'
<1>1. /\ SendSize(t, m) /\ outOpen' = outOpen /\ wr' = wr /\ sub' = sub /\ live' = live
      /\ panicked' = panicked
      /\ IF bcast[t].to = {m} THEN AfterBroadcast(t) ELSE pc' = pc /\ conn' = conn
  BY DEF Broadcast
<1>2. PlaceOf(t) /\ pc[t] \in Sending
  BY <1>1, SendFacts DEF PlaceInv, PlaceOf, Idle
<1>3. /\ \A x \in Conns \ {t} : pc'[x] = pc[x] /\ conn'[x] = conn[x]
      /\ PlaceType'
      /\ IF bcast[t].to = {m}
           THEN \/ pc[t] = "adding" /\ pc'[t] = "subscribe"
                \/ pc[t] = "updating" /\ pc'[t] = "loop"
                \/ pc[t] = "removing" /\ pc'[t] = "gone" /\ conn'[t] = "closed"
                \/ pc[t] = "removing" /\ pc'[t] = "notice" /\ ~panicked[t]
           ELSE pc'[t] = pc[t] /\ conn'[t] = conn[t]
  <2>1. CASE bcast[t].to = {m} /\ pc[t] = "adding"
    BY <1>1, <2>1 DEF AfterBroadcast, Goto, PlaceInv, PlaceType, ServeLabels
  <2>2. CASE bcast[t].to = {m} /\ pc[t] = "updating"
    BY <1>1, <2>2 DEF AfterBroadcast, Goto, PlaceInv, PlaceType, ServeLabels
  <2>3. CASE bcast[t].to = {m} /\ pc[t] = "removing"
    BY <1>1, <2>3 DEF AfterBroadcast, Served, Goto, Return, PlaceInv, PlaceType, ServeLabels
  <2>4. CASE bcast[t].to # {m}
    BY <1>1, <2>4 DEF PlaceInv, PlaceType
  <2>5. QED
    BY <2>1, <2>2, <2>3, <2>4, <1>2 DEF Sending
<1>4. ASSUME NEW x \in Conns \ {t} PROVE PlaceOf(x)'
  BY <1>1, <1>3, SendFacts, PlaceStays DEF PlaceInv
<1>5. PlaceOf(t)'
  <2>1. CASE bcast[t].to = {m}
    <3>1. Idle(t)' /\ Members' = Members /\ joined' = joined
      BY <1>1, <2>1, SendFacts DEF Idle
    <3>2. QED
      BY <1>1, <1>2, <1>3, <2>1, <3>1 DEF PlaceOf, Sending, Closed
  <2>2. CASE bcast[t].to # {m}
    <3>1. /\ ~Idle(t)' /\ Members' = Members /\ joined' = joined
          /\ bcast'[t].last = bcast[t].last
          /\ bcast[t].last /\ t \in bcast[t].to => t \in bcast'[t].to
      BY <1>1, <2>2, SendFacts DEF Idle
    <3>2. QED
      BY <1>1, <1>2, <1>3, <2>2, <3>1 DEF PlaceOf
  <2>3. QED
    BY <2>1, <2>2
<1>6. QED
  BY <1>3, <1>4, <1>5 DEF PlaceInv

(* t's broadcast panics. *)
LEMMA PanicKeeps ==
  ASSUME SetTypeOK, PlaceInv, NEW t \in Conns, NEW m \in Conns, Panic(t, m)
  PROVE  PlaceInv'
<1>1. /\ AbortBroadcast(t) /\ outOpen' = outOpen /\ wr' = wr /\ sub' = sub /\ live' = live
      /\ panicked' = [panicked EXCEPT ![t] = TRUE]
      /\ \/ pc[t] = "updating" /\ pc' = [pc EXCEPT ![t] = "unwind"] /\ conn' = conn
         \/ /\ pc[t] # "updating" /\ pc' = [pc EXCEPT ![t] = "gone"]
            /\ conn' = [conn EXCEPT ![t] = "closed"]
  BY DEF Panic, Goto, Return
<1>2. /\ Members' = Members /\ joined' = joined /\ ~Idle(t) /\ Idle(t)'
      /\ \A x \in Conns \ {t} : bcast'[x] = bcast[x]
  BY <1>1 DEF AbortBroadcast, Members, MembersOf, SetTypeOK, Idle, Quiet
<1>3. /\ PlaceType' /\ panicked'[t]
      /\ \A x \in Conns \ {t} : /\ pc'[x] = pc[x] /\ conn'[x] = conn[x]
                                /\ panicked'[x] = panicked[x]
      /\ \/ pc[t] = "updating" /\ pc'[t] = "unwind"
         \/ pc[t] # "updating" /\ pc'[t] = "gone" /\ conn'[t] = "closed"
  BY <1>1 DEF PlaceInv, PlaceType, ServeLabels
<1>4. ASSUME NEW x \in Conns \ {t} PROVE PlaceOf(x)'
  BY <1>1, <1>2, <1>3, PlaceStays DEF PlaceInv
<1>5. PlaceOf(t)'
  BY <1>1, <1>2, <1>3 DEF PlaceInv, PlaceOf, Sending, Closed
<1>6. QED
  BY <1>3, <1>4, <1>5 DEF PlaceInv

(* Every step keeps PlaceInv. *)
LEMMA PlaceStepKeeps == SetTypeOK /\ PlaceInv /\ [Next]_vars => PlaceInv'
<1> SUFFICES ASSUME SetTypeOK, PlaceInv, [Next]_vars PROVE PlaceInv'
  OBVIOUS
<1>1. ASSUME NEW c \in Conns, NEW ws \in Sizes, Hello(c, ws) PROVE PlaceInv'
  BY <1>1, HelloKeeps
<1>2. ASSUME NEW c \in Conns, NEW ws \in Sizes, ReadSize(c, ws) PROVE PlaceInv'
  <2> DEFINE to == Receivers([members EXCEPT ![c] = ws])
  <2>1. /\ pc[c] = "loop" /\ c \in Members /\ joined' = joined
        /\ Recompute([members EXCEPT ![c] = ws]) /\ StartBroadcast(c, to, FALSE)
        /\ pc' = (IF bcast'[c].to = {} THEN pc ELSE [pc EXCEPT ![c] = "updating"])
        /\ conn' = conn /\ wr' = wr /\ sub' = sub /\ live' = live /\ outOpen' = outOpen
        /\ panicked' = panicked
    BY <1>2 DEF ReadSize, Update, Goto
  <2>2. to \in SUBSET Conns /\ ws \in PositiveSize /\ ws # NoSize
    BY SizesAssumption, NoSizeNotPositive DEF Receivers, MembersOf
  <2> HIDE DEF to
  <2>3. bcast'[c].to = to
    BY <2>1 DEF StartBroadcast, SetTypeOK, Quiet
  <2>4. PlaceType' /\ pc'[c] = (IF to = {} THEN "loop" ELSE "updating")
        /\ \A x \in Conns \ {c} : pc'[x] = pc[x]
    BY <2>1, <2>3 DEF PlaceInv, PlaceType, ServeLabels
  <2>5. QED
    BY <2>1, <2>2, <2>4, DeclareKeeps
<1>3. ASSUME NEW c \in Conns, Leave(c) PROVE PlaceInv'
  <2> DEFINE to == Receivers([members EXCEPT ![c] = NoSize])
  <2>1. /\ pc[c] = "setRemove" /\ c \in Members /\ joined' = joined
        /\ Recompute([members EXCEPT ![c] = NoSize]) /\ StartBroadcast(c, to, FALSE)
        /\ IF bcast'[c].to = {}
             THEN \/ pc' = [pc EXCEPT ![c] = "gone"] /\ conn' = [conn EXCEPT ![c] = "closed"]
                  \/ pc' = [pc EXCEPT ![c] = "notice"] /\ conn' = conn /\ ~panicked[c]
             ELSE pc' = [pc EXCEPT ![c] = "removing"] /\ conn' = conn
        /\ wr' = wr /\ sub' = sub /\ live' = live /\ outOpen' = outOpen
        /\ panicked' = panicked
    BY <1>3 DEF Leave, Remove, Served, Goto, Return
  <2>2. to \in SUBSET Conns
    BY DEF Receivers, MembersOf
  <2> HIDE DEF to
  <2>3. bcast'[c].to = to
    BY <2>1 DEF StartBroadcast, SetTypeOK, Quiet
  <2>4. /\ PlaceType' /\ (to # {} => pc'[c] = "removing")
        /\ to = {} => \/ pc'[c] = "gone" /\ conn'[c] = "closed"
                      \/ pc'[c] = "notice" /\ ~panicked[c]
        /\ \A x \in Conns \ {c} : pc'[x] = pc[x] /\ conn'[x] = conn[x]
    BY <2>1, <2>3 DEF PlaceInv, PlaceType, ServeLabels
  <2>5. QED
    BY <2>1, <2>2, <2>4, DeclareKeeps
<1>4. ASSUME NEW t \in Conns, NEW m \in Conns, Broadcast(t, m) \/ Panic(t, m)
      PROVE  PlaceInv'
  BY <1>4, BroadcastKeeps, PanicKeeps
<1>5. ASSUME NEW c \in Conns,
             NEW l \in ServeLabels \ (Sending \cup {"hello", "gone", "subscribe", "unwind"}),
             pc[c] \notin Sending \cup {"gone"}, pc[c] # "hello",
             l \in {"notice", "closing"} => pc[c] = "notice",
             pc' = [pc EXCEPT ![c] = l], UNCHANGED setVars,
             UNCHANGED <<wr, sub, live, conn, outOpen, panicked>>,
             ~outOpen[c] => l \in Closed
      PROVE  PlaceInv'
  <2>1. PlaceType' /\ pc'[c] = l /\ \A x \in Conns \ {c} : pc'[x] = pc[x]
    BY <1>5 DEF PlaceInv, PlaceType
  <2>2. Members' = Members
    BY <1>5 DEF setVars, Members, MembersOf
  <2>3. PlaceOf(c)'
    BY <1>5, <2>1, <2>2 DEF PlaceInv, PlaceOf, Idle, setVars, Sending, Closed
  <2>4. QED
    BY <1>5, <2>1, <2>3, LocalKeeps
<1>6. ASSUME NEW c \in Conns,
             \/ SendScrollback(c) \/ SendPong(c) \/ WriterJoined(c) \/ SubscribeFails(c)
             \/ ReadPing(c) \/ EndLoop(c) \/ ReadInput(c) \/ InputWritten(c) \/ PTYBlocks(c)
             \/ WriteNotice(c)
      PROVE  PlaceInv'
  <2>1. ~outOpen[c] => pc[c] \in Closed
    BY DEF PlaceInv, PlaceOf
  <2>2. QED
    BY <1>5, <1>6, <2>1
       DEF SendScrollback, SendPong, WriterJoined, SubscribeFails, ReadPing, EndLoop, Goto,
           ReadInput, InputWritten, PTYBlocks, WriteNotice, Sending, ServeLabels, Closed
<1>7. ASSUME NEW c \in Conns,
             \/ Subscribe(c) \/ SendScreen(c) \/ CancelSub(c) \/ CloseOut(c) \/ RejectHello(c)
             \/ Disconnect(c) \/ WriteFails(c) \/ WriterEnd(c) \/ LiveEnd(c)
             \/ CloseConn(c) \/ DetachClose(c)
             \/ \E ws \in Sizes \cup {NoSize} : ResizeBlocks(c, ws)
      PROVE  PlaceInv'
  <2>1. PlaceOf(c) /\ PlaceType
    BY DEF PlaceInv
  <2>2. UNCHANGED setVars
    BY <1>7 DEF Subscribe, SendScreen, CancelSub, CloseOut, RejectHello, Disconnect,
                WriteFails, WriterEnd, LiveEnd, CloseConn, DetachClose, ResizeBlocks
  <2>3. Members' = Members /\ joined' = joined /\ bcast' = bcast
    BY <2>2 DEF setVars, Members, MembersOf
  <2>4. CASE Subscribe(c)
    <3>1. PlaceType' /\ pc[c] = "subscribe" /\ pc'[c] = "scroll"
          /\ \A x \in Conns \ {c} : pc'[x] = pc[x] /\ sub'[x] = sub[x]
      BY <2>1, <2>4, Zenon DEF Subscribe, Goto, PlaceType, ServeLabels
    <3>2. PlaceOf(c)'
      BY <2>1, <2>3, <2>4, <3>1 DEF Subscribe, PlaceOf, Idle, Sending, Closed
    <3>3. QED
      BY <2>2, <2>4, <3>1, <3>2, LocalKeeps DEF Subscribe
  <2>5. CASE SendScreen(c)
    <3>1. PlaceType' /\ pc[c] = "screen" /\ pc'[c] = "loop"
          /\ \A x \in Conns \ {c} : pc'[x] = pc[x] /\ live'[x] = live[x]
      BY <2>1, <2>5 DEF SendScreen, Goto, PlaceType, ServeLabels
    <3>2. PlaceOf(c)'
      BY <2>1, <2>3, <2>5, <3>1 DEF SendScreen, PlaceOf, Idle, Sending, Closed
    <3>3. QED
      BY <2>2, <2>5, <3>1, <3>2, LocalKeeps DEF SendScreen
  <2>6. CASE CancelSub(c)
    <3>1. pc[c] \in {"cancel", "unwind"} /\ pc'[c] \in {"waitLive", "setRemove"}
          /\ ~sub'[c]
          /\ \A x \in Conns \ {c} : pc'[x] = pc[x] /\ sub'[x] = sub[x]
      BY <2>1, <2>6 DEF CancelSub, Goto, PlaceType, ServeLabels
    <3>2. PlaceType'
      <4>1. pc' \in [Conns -> ServeLabels]
        BY <2>1, <2>6 DEF CancelSub, Goto, PlaceType, ServeLabels
      <4>2. sub' \in [Conns -> BOOLEAN]
        BY <2>1, <2>6 DEF CancelSub, PlaceType
      <4>3. QED
        BY <2>1, <2>6, <4>1, <4>2 DEF CancelSub, PlaceType
    <3>3. PlaceOf(c)'
      BY <2>1, <2>3, <2>6, <3>1 DEF CancelSub, PlaceOf, Idle, Sending, Closed
    <3>4. QED
      BY <2>2, <2>6, <3>1, <3>2, <3>3, LocalKeeps DEF CancelSub
  <2>7. CASE CloseOut(c)
    <3>1. pc[c] = "waitLive" /\ pc'[c] = "waitWriter" /\ live[c] = "done"
          /\ \A x \in Conns \ {c} : pc'[x] = pc[x] /\ outOpen'[x] = outOpen[x]
      BY <2>1, <2>7 DEF CloseOut, Goto, PlaceType, ServeLabels
    <3>2. PlaceType'
      <4>1. pc' \in [Conns -> ServeLabels]
        BY <2>1, <2>7 DEF CloseOut, Goto, PlaceType, ServeLabels
      <4>2. outOpen' \in [Conns -> BOOLEAN]
        BY <2>1, <2>7 DEF CloseOut, PlaceType
      <4>3. QED
        BY <2>1, <2>7, <4>1, <4>2 DEF CloseOut, PlaceType
    <3>3. PlaceOf(c)'
      BY <2>1, <2>3, <2>7, <3>1 DEF CloseOut, PlaceOf, Idle, Sending, Closed
    <3>4. QED
      BY <2>2, <2>7, <3>1, <3>2, <3>3, LocalKeeps DEF CloseOut
  <2>8. CASE RejectHello(c)
    <3>1. /\ PlaceType' /\ pc[c] = "hello" /\ panicked' = panicked
          /\ (pc'[c] = "gone" /\ conn'[c] = "closed") \/ pc'[c] = "notice"
          /\ \A x \in Conns \ {c} : pc'[x] = pc[x] /\ conn'[x] = conn[x]
      BY <2>1, <2>8 DEF RejectHello, Return, Goto, PlaceType, ServeLabels
    <3>2. PlaceOf(c)'
      BY <2>1, <2>3, <2>8, <3>1 DEF RejectHello, PlaceOf, Idle, Sending, Closed
    <3>3. QED
      BY <2>2, <2>8, <3>1, <3>2, LocalKeeps DEF RejectHello
  <2>9. CASE Disconnect(c)
    <3>1. PlaceType' /\ pc' = pc /\ pc[c] # "gone"
          /\ \A x \in Conns \ {c} : conn'[x] = conn[x]
      BY <2>1, <2>9 DEF Disconnect, PlaceType
    <3>2. PlaceOf(c)'
      BY <2>1, <2>3, <2>9, <3>1 DEF Disconnect, PlaceOf, Idle
    <3>3. QED
      BY <2>2, <2>9, <3>1, <3>2, LocalKeeps DEF Disconnect
  <2>10. CASE WriteFails(c) \/ WriterEnd(c)
    <3>1. PlaceType' /\ pc' = pc /\ wr[c] = "run" /\ wr'[c] = "dead"
          /\ UNCHANGED <<outOpen, sub, live, conn, panicked>>
          /\ \A x \in Conns \ {c} : wr'[x] = wr[x]
      BY <2>1, <2>10 DEF WriteFails, WriterEnd, PlaceType
    <3>2. PlaceOf(c)'
      BY <2>1, <2>3, <3>1 DEF PlaceOf, Idle
    <3>3. QED
      BY <2>2, <3>1, <3>2, LocalKeeps
  <2>11. CASE LiveEnd(c)
    <3>1. PlaceType' /\ pc' = pc /\ live[c] = "run" /\ live'[c] = "done"
          /\ UNCHANGED <<outOpen, sub, wr, conn, panicked>>
          /\ \A x \in Conns \ {c} : live'[x] = live[x]
      BY <2>1, <2>11 DEF LiveEnd, PlaceType
    <3>2. PlaceOf(c)'
      BY <2>1, <2>3, <3>1 DEF PlaceOf, Idle
    <3>3. QED
      BY <2>2, <3>1, <3>2, LocalKeeps
  <2>12. CASE CloseConn(c)
    <3>1. PlaceType' /\ pc[c] = "closing" /\ pc'[c] = "gone" /\ conn'[c] = "closed"
          /\ UNCHANGED <<outOpen, sub, wr, live, panicked>>
          /\ \A x \in Conns \ {c} : pc'[x] = pc[x] /\ conn'[x] = conn[x]
      BY <2>1, <2>12 DEF CloseConn, Return, Goto, PlaceType, ServeLabels
    <3>2. PlaceOf(c)'
      BY <2>1, <2>3, <3>1 DEF PlaceOf, Idle, Sending, Closed
    <3>3. QED
      BY <2>2, <3>1, <3>2, LocalKeeps
  <2>13. CASE DetachClose(c)
    <3>1. PlaceType' /\ pc' = pc /\ conn'[c] = "closed"
          /\ UNCHANGED <<outOpen, sub, wr, live, panicked>>
          /\ \A x \in Conns \ {c} : conn'[x] = conn[x]
      BY <2>1, <2>13 DEF DetachClose, PlaceType
    <3>2. PlaceOf(c)'
      BY <2>1, <2>3, <3>1 DEF PlaceOf, Idle
    <3>3. QED
      BY <2>2, <3>1, <3>2, LocalKeeps
  <2>14. ASSUME NEW ws \in Sizes \cup {NoSize}, ResizeBlocks(c, ws) PROVE PlaceInv'
    <3>1. PlaceType' /\ pc[c] \in {"hello", "loop", "setRemove"} /\ pc'[c] = "lockedUp"
          /\ UNCHANGED <<outOpen, sub, live, conn, panicked>>
          /\ \A x \in Conns \ {c} : pc'[x] = pc[x] /\ wr'[x] = wr[x]
      BY <2>1, <2>14 DEF ResizeBlocks, Goto, PlaceType, ServeLabels
    <3>2. PlaceOf(c)'
      BY <2>1, <2>3, <3>1 DEF PlaceOf, Idle, Sending, Closed
    <3>3. QED
      BY <2>2, <3>1, <3>2, LocalKeeps
  <2>15. QED
    BY <1>7, <2>4, <2>5, <2>6, <2>7, <2>8, <2>9, <2>10, <2>11, <2>12, <2>13, <2>14
<1>8. CASE UNCHANGED <<setVars, pc, wr, sub, live, conn, outOpen, panicked>>
  <2>1. Members' = Members /\ joined' = joined /\ bcast' = bcast
    BY <1>8 DEF setVars, Members, MembersOf
  <2>2. QED
    BY <1>8, <2>1 DEF PlaceInv, PlaceType, PlaceOf, Idle
<1>9. QED
  BY <1>1, <1>2, <1>3, <1>4, <1>6, <1>7, <1>8
     DEF Next, ServeStep, WriterStep, LiveStep, Environment, WriteFrame, LiveForward, Fanout,
         DetachNotice, vars, handlerVars

-----------------------------------------------------------------------------
(* Queues of frames *)

(* Append: the old elements stay where they are. *)
LEMMA AppendFacts ==
  ASSUME NEW S, NEW q \in Seq(S), NEW e \in S
  PROVE  /\ Append(q, e) \in Seq(S)
         /\ Len(q) \in Nat /\ Len(Append(q, e)) = Len(q) + 1
         /\ Append(q, e)[Len(q) + 1] = e
         /\ \A i \in 1 .. Len(q) : Append(q, e)[i] = q[i] /\ q[i] \in S
OBVIOUS

(* Head and Tail: the others move up by one. *)
LEMMA TailFacts ==
  ASSUME NEW S, NEW q \in Seq(S), q # <<>>
  PROVE  /\ Len(q) \in Nat \ {0} /\ Head(q) = q[1] /\ Head(q) \in S
         /\ Tail(q) \in Seq(S) /\ Len(Tail(q)) = Len(q) - 1
         /\ \A i \in 1 .. Len(Tail(q)) : i + 1 \in 1 .. Len(q) /\ Tail(q)[i] = q[i + 1]
OBVIOUS

(* Taking is neither leaving as is nor appending. *)
LEMMA TailDiffers ==
  ASSUME NEW S, NEW q \in Seq(S), q # <<>>
  PROVE  Tail(q) # q /\ \A e \in S : Tail(q) # Append(q, e)
<1> DEFINE n == Len(q)
           k == Len(Tail(q))
<1>1. n \in Nat /\ k = n - 1
  BY TailFacts
<1>2. ASSUME NEW e \in S PROVE Len(Append(q, e)) = n + 1
  BY AppendFacts
<1> HIDE DEF n, k
<1>3. k # n /\ k # n + 1
  BY <1>1
<1>4. QED
  BY <1>2, <1>3, Zenon DEF n, k

(* What may be queued at which stage. *)
LEMMA QueueAppends ==
  ASSUME NEW q \in Seq(Frames), NEW p \in 0 .. 3, NEW f \in Frames, InOrder(q, p)
  PROVE  LET r == Append(q, f) IN
         /\ r \in Seq(Frames) /\ Len(r) >= 1
         /\ f = "Size" => /\ InOrder(r, p) /\ (Sized(q) => Sized(r))
                          /\ Scrolled(q, p) => Scrolled(r, p)
         /\ f = "Scrollback" /\ Sized(q) /\ p <= 1 /\ (p = 1 \/ Len(q) >= 1) =>
               InOrder(r, p) /\ Scrolled(r, p)
         /\ f = "Screen" /\ Scrolled(q, p) => InOrder(r, p) /\ Screened(r, p)
         /\ f = "Data" /\ Screened(q, p) => InOrder(r, p)
         /\ Screened(q, p) => Screened(r, p)
<1> DEFINE r == Append(q, f)
           n == Len(q)
<1>1. /\ r \in Seq(Frames) /\ n \in Nat /\ Len(r) = n + 1 /\ r[n + 1] = f
      /\ \A i \in 1 .. n : r[i] = q[i]
  BY AppendFacts
<1>2. Len(q) = n
  OBVIOUS
<1> HIDE DEF r, n
<1>3. \A i \in 1 .. Len(r) : i \in 1 .. n \/ i = n + 1
  BY <1>1
<1>4. n + 1 \in 1 .. Len(r) /\ \A i \in 1 .. n : i \in 1 .. Len(r)
  BY <1>1
<1>5. \A i \in 1 .. n : \A j \in 1 .. (i - 1) : j \in 1 .. n /\ r[j] = q[j]
  BY <1>1
<1>6. \A j \in 1 .. ((n + 1) - 1) : j \in 1 .. n
  BY <1>1
<1>7. ASSUME f = "Size" PROVE InOrder(r, p)
  BY <1>1, <1>2, <1>3, <1>5, <1>7 DEF InOrder
<1>8. ASSUME f = "Size", Sized(q) PROVE Sized(r)
  BY <1>1, <1>2, <1>3, <1>8 DEF Sized
<1>9. ASSUME f = "Size", Scrolled(q, p) PROVE Scrolled(r, p)
  BY <1>1, <1>2, <1>3, <1>4, <1>9 DEF Scrolled
<1>10. ASSUME f = "Scrollback", Sized(q), p <= 1, p = 1 \/ n >= 1
       PROVE  InOrder(r, p) /\ Scrolled(r, p)
  <2>1. \A j \in 1 .. n : r[j] = "Size"
    BY <1>1, <1>2, <1>10 DEF Sized
  <2>2. InOrder(r, p)
    BY <1>1, <1>3, <1>6, <1>10, <2>1 DEF InOrder
  <2>3. Scrolled(r, p)
    BY <1>1, <1>3, <1>4, <1>10, <2>1 DEF Scrolled
  <2>4. QED
    BY <2>2, <2>3
<1>11. ASSUME f = "Screen", Scrolled(q, p) PROVE InOrder(r, p) /\ Screened(r, p)
  <2>1. /\ \A j \in 1 .. n : r[j] \in {"Size", "Scrollback"}
        /\ p <= 2 /\ (p = 2 \/ \E k \in 1 .. n : r[k] = "Scrollback")
    BY <1>1, <1>2, <1>11 DEF Scrolled
  <2>2. ASSUME NEW i \in 1 .. n, r[i] = "Scrollback"
        PROVE  p <= 1 /\ (p = 1 \/ i > 1) /\ \A j \in 1 .. (i - 1) : r[j] = "Size"
    BY <1>1, <1>2, <1>5, <2>2 DEF InOrder
  <2>3. InOrder(r, p)
    BY <1>1, <1>3, <1>6, <1>11, <2>1, <2>2 DEF InOrder
  <2>4. Screened(r, p)
    BY <1>1, <1>4, <1>11 DEF Screened
  <2>5. QED
    BY <2>3, <2>4
<1>12. ASSUME Screened(q, p) PROVE Screened(r, p)
  BY <1>1, <1>2, <1>4, <1>12 DEF Screened
<1>13. ASSUME f = "Data", Screened(q, p) PROVE InOrder(r, p)
  <2>1. p = 3 \/ \E k \in 1 .. n : r[k] = "Screen"
    BY <1>1, <1>2, <1>13 DEF Screened
  <2>2. ASSUME NEW i \in 1 .. n
        PROVE  /\ r[i] = "Scrollback" =>
                     p <= 1 /\ (p = 1 \/ i > 1) /\ \A j \in 1 .. (i - 1) : r[j] = "Size"
               /\ r[i] = "Screen" =>
                     /\ p <= 2 /\ (p = 2 \/ \E k \in 1 .. (i - 1) : r[k] = "Scrollback")
                     /\ \A j \in 1 .. (i - 1) : r[j] \in {"Size", "Scrollback"}
               /\ r[i] = "Data" => p = 3 \/ \E k \in 1 .. (i - 1) : r[k] = "Screen"
    BY <1>1, <1>2, <1>5 DEF InOrder
  <2>3. p = 3 \/ \E k \in 1 .. ((n + 1) - 1) : r[k] = "Screen"
    BY <2>1, <1>1
  <2>4. QED
    BY <1>1, <1>3, <1>13, <2>2, <2>3 DEF InOrder
<1>14. Len(r) >= 1
  BY <1>1
<1>15. QED
  BY <1>1, <1>2, <1>7, <1>8, <1>9, <1>10, <1>11, <1>12, <1>13, <1>14 DEF r

(* The stages exclude each other. *)
LEMMA StagesDiffer ==
  ASSUME NEW q \in Seq(Frames), NEW p \in 0 .. 3
  PROVE  /\ Sized(q) /\ p <= 1 => ~Screened(q, p)
         /\ Scrolled(q, p) => ~Screened(q, p)
BY DEF Sized, Scrolled, Screened

(* What the writer takes next is due, and the rest stays in order. *)
Due(f, p) ==
  p \in CASE f = "Size" -> 0 .. 3
          [] f = "Scrollback" -> {1}
          [] f = "Screen" -> {2}
          [] f = "Data" -> {3}

(* The writer takes the oldest frame: it was due, and the rest is still in order. *)
LEMMA QueuePops ==
  ASSUME NEW q \in Seq(Frames), NEW p \in 0 .. 3, InOrder(q, p), q # <<>>
  PROVE  LET r == Tail(q)
             u == PhaseAfter(p, Head(q)) IN
         /\ Due(Head(q), p) /\ r \in Seq(Frames) /\ u \in 0 .. 3 /\ InOrder(r, u)
         /\ Sized(q) => Sized(r) /\ (p <= 1 => u = 1)
         /\ Scrolled(q, p) => Scrolled(r, u)
         /\ Screened(q, p) => Screened(r, u)
<1> DEFINE r == Tail(q)
           u == PhaseAfter(p, Head(q))
           n == Len(r)
<1>1. /\ Len(q) = n + 1 /\ n \in Nat /\ Head(q) = q[1] /\ q[1] \in Frames
      /\ r \in Seq(Frames) /\ Len(r) = n
      /\ \A i \in 1 .. n : r[i] = q[i + 1]
  BY TailFacts
<1>2. /\ q[1] = "Size" => u = IF p = 0 THEN 1 ELSE p
      /\ q[1] = "Scrollback" => u = 2
      /\ q[1] = "Screen" => u = 3
      /\ q[1] = "Data" => u = IF p = 0 THEN 1 ELSE p
  BY <1>1 DEF PhaseAfter
<1> HIDE DEF r, u, n
<1>3. 1 \in 1 .. Len(q) /\ \A i \in 1 .. n : i + 1 \in 1 .. Len(q)
  BY <1>1
<1>4. \A i \in 2 .. Len(q) : i - 1 \in 1 .. n /\ r[i - 1] = q[i]
  BY <1>1
<1>5. /\ q[1] = "Scrollback" => p = 1
      /\ q[1] = "Screen" => p = 2
      /\ q[1] = "Data" => p = 3
  <2>1. \A k \in 1 .. (1 - 1) : FALSE
    OBVIOUS
  <2>2. QED
    BY <1>3, <2>1 DEF InOrder
<1>6. Due(Head(q), p)
  BY <1>1, <1>5 DEF Due, Frames
<1>7. q[1] \in {"Size", "Scrollback", "Screen", "Data"} /\ u \in 0 .. 3
  BY <1>1, <1>2, <1>5 DEF Frames
<1>8. ASSUME NEW i \in 1 .. n
      PROVE  /\ r[i] = "Scrollback" =>
                   u <= 1 /\ (u = 1 \/ i > 1) /\ \A j \in 1 .. (i - 1) : r[j] = "Size"
             /\ r[i] = "Screen" =>
                   /\ u <= 2 /\ (u = 2 \/ \E k \in 1 .. (i - 1) : r[k] = "Scrollback")
                   /\ \A j \in 1 .. (i - 1) : r[j] \in {"Size", "Scrollback"}
             /\ r[i] = "Data" => u = 3 \/ \E k \in 1 .. (i - 1) : r[k] = "Screen"
  <2>1. /\ i + 1 \in 1 .. Len(q) /\ r[i] = q[i + 1] /\ 1 \in 1 .. ((i + 1) - 1)
        /\ \A j \in 1 .. (i - 1) : j + 1 \in 1 .. ((i + 1) - 1) /\ r[j] = q[j + 1]
    BY <1>1
  <2>2. \A k \in 1 .. ((i + 1) - 1) : k = 1 \/ (k - 1 \in 1 .. (i - 1) /\ r[k - 1] = q[k])
    BY <1>1
  <2>3. ASSUME r[i] = "Scrollback"
        PROVE  u <= 1 /\ (u = 1 \/ i > 1) /\ \A j \in 1 .. (i - 1) : r[j] = "Size"
    <3>1. p <= 1 /\ \A j \in 1 .. ((i + 1) - 1) : q[j] = "Size"
      BY <2>1, <2>3 DEF InOrder
    <3>2. q[1] = "Size"
      BY <2>1, <3>1
    <3>3. u = 1
      BY <3>1, <3>2, <1>2
    <3>4. QED
      BY <2>1, <3>1, <3>3
  <2>4. ASSUME r[i] = "Screen"
        PROVE  /\ u <= 2 /\ (u = 2 \/ \E k \in 1 .. (i - 1) : r[k] = "Scrollback")
               /\ \A j \in 1 .. (i - 1) : r[j] \in {"Size", "Scrollback"}
    <3>1. /\ p <= 2 /\ (p = 2 \/ \E k \in 1 .. ((i + 1) - 1) : q[k] = "Scrollback")
          /\ \A j \in 1 .. ((i + 1) - 1) : q[j] \in {"Size", "Scrollback"}
      BY <2>1, <2>4 DEF InOrder
    <3>2. q[1] \in {"Size", "Scrollback"}
      BY <2>1, <3>1
    <3>3. CASE q[1] = "Scrollback"
      BY <2>1, <3>1, <3>3, <1>2
    <3>4. CASE q[1] = "Size"
      <4>1. u <= 2 /\ (p = 2 => u = 2)
        BY <3>1, <3>4, <1>2
      <4>2. p = 2 \/ \E k \in 1 .. (i - 1) : r[k] = "Scrollback"
        BY <2>2, <3>1, <3>4
      <4>3. QED
        BY <2>1, <3>1, <4>1, <4>2
    <3>5. QED
      BY <3>2, <3>3, <3>4
  <2>5. ASSUME r[i] = "Data"
        PROVE  u = 3 \/ \E k \in 1 .. (i - 1) : r[k] = "Screen"
    <3>1. p = 3 \/ \E k \in 1 .. ((i + 1) - 1) : q[k] = "Screen"
      BY <2>1, <2>5 DEF InOrder
    <3>2. CASE p = 3
      BY <3>2, <1>2, <1>5, <1>7
    <3>3. CASE \E k \in 1 .. ((i + 1) - 1) : q[k] = "Screen"
      BY <2>2, <3>3, <1>2
    <3>4. QED
      BY <3>1, <3>2, <3>3
  <2>6. QED
    BY <2>3, <2>4, <2>5
<1>9. InOrder(r, u)
  BY <1>1, <1>8 DEF InOrder
<1>10. ASSUME Sized(q) PROVE Sized(r) /\ (p <= 1 => u = 1)
  BY <1>1, <1>2, <1>3, <1>10 DEF Sized
<1>11. \A k \in 1 .. Len(q) : k = 1 \/ (k - 1 \in 1 .. n /\ r[k - 1] = q[k])
  BY <1>1
<1>12. ASSUME Scrolled(q, p) PROVE Scrolled(r, u)
  <2>1. p <= 2 /\ (p = 2 \/ \E k \in 1 .. Len(q) : q[k] = "Scrollback")
        /\ q[1] \in {"Size", "Scrollback"}
        /\ \A i \in 1 .. n : r[i] \in {"Size", "Scrollback"}
    BY <1>1, <1>3, <1>12 DEF Scrolled
  <2>2. CASE q[1] = "Scrollback"
    BY <1>1, <1>2, <2>1, <2>2 DEF Scrolled
  <2>3. CASE q[1] = "Size"
    <3>1. u <= 2 /\ (p = 2 => u = 2)
      BY <2>1, <2>3, <1>2
    <3>2. p = 2 \/ \E k \in 1 .. n : r[k] = "Scrollback"
      BY <1>11, <2>1, <2>3
    <3>3. QED
      BY <1>1, <2>1, <3>1, <3>2 DEF Scrolled
  <2>4. QED
    BY <2>1, <2>2, <2>3
<1>13. ASSUME Screened(q, p) PROVE Screened(r, u)
  <2>1. CASE p = 3
    BY <2>1, <1>2, <1>5, <1>7 DEF Screened
  <2>2. CASE \E k \in 1 .. Len(q) : q[k] = "Screen"
    BY <2>2, <1>1, <1>2, <1>11 DEF Screened
  <2>3. QED
    BY <1>13, <2>1, <2>2 DEF Screened
<1>14. QED
  BY <1>1, <1>6, <1>7, <1>9, <1>10, <1>12, <1>13 DEF r, u

-----------------------------------------------------------------------------
(* What each client sees *)

(* A conn of which nothing changes, unless its writer stops or its live     *)
(* goroutine ends.                                                          *)
LEMMA WireStays ==
  ASSUME NEW x \in Conns, WireOf(x), pc'[x] = pc[x], x \in Members' <=> x \in Members,
         outCh'[x] = outCh[x], phase'[x] = phase[x], panicked'[x] = panicked[x],
         wr'[x] = wr[x] \/ wr'[x] = "dead", live'[x] = live[x] \/ live'[x] # "run"
  PROVE  WireOf(x)'
BY DEF WireOf

(* serveOne goes from k to l without sending: no stage begins. *)
Onward(k, l) ==
  \/ l \in {"unwind", "cancel", "waitLive", "waitWriter", "stuck", "lockedUp"}
  \/ k = "hello" /\ l \in {"adding", "notice"}
  \/ k = "subscribe" /\ l \in {"scroll", "setRemove"}
  \/ k \in Talking /\ l \in Talking
  \/ k \in Over /\ l \in Over
  \/ k = l

(* serveOne moves on without touching outCh. *)
LEMMA WireMoves ==
  ASSUME NEW c \in Conns, WireOf(c), Onward(pc[c], pc'[c]),
         pc'[c] = "gone" => (c \in Members' => c \in Members),
         outCh'[c] = outCh[c], phase'[c] = phase[c], wr'[c] = wr[c] \/ wr[c] = "off",
         live'[c] = live[c], panicked'[c] = panicked[c] \/ panicked'[c]
  PROVE  WireOf(c)'
BY DEF WireOf, Onward, Early, Talking, Over

(* c sends f and goes to the stage that f begins, or stays. *)
LEMMA WireSends ==
  ASSUME WireType, NEW c \in Conns, WireOf(c), NEW f \in Frames,
         outCh'[c] = Append(outCh[c], f), phase'[c] = phase[c], wr'[c] = wr[c],
         panicked'[c] = panicked[c], c \in Members' <=> c \in Members,
         \/ f = "Size" /\ pc'[c] = pc[c] /\ live'[c] = live[c]
         \/ f = "Scrollback" /\ pc[c] = "scroll" /\ pc'[c] = "screen" /\ live'[c] = live[c]
         \/ f = "Screen" /\ pc[c] = "screen" /\ pc'[c] = "loop"
         \/ f = "Data" /\ pc[c] = "pong" /\ pc'[c] = "loop" /\ live'[c] = live[c]
         \/ f = "Data" /\ live[c] = "run" /\ pc'[c] = pc[c] /\ live'[c] = live[c]
  PROVE  WireOf(c)'
<1> DEFINE q == outCh[c]
           r == Append(q, f)
           p == phase[c]
<1>1. q \in Seq(Frames) /\ p \in 0 .. 3 /\ outCh'[c] = r /\ phase'[c] = p
  BY DEF WireType
<1>2. CASE wr[c] = "dead"
  BY <1>2 DEF WireOf, Early
<1>3. CASE wr[c] # "dead"
  <2>1. /\ InOrder(q, p)
        /\ pc[c] \in Early => Sized(q) /\ p <= 1
        /\ pc[c] \in {"subscribe", "scroll"} => p = 1 \/ Len(q) >= 1
        /\ pc[c] = "screen" => Scrolled(q, p)
        /\ pc[c] \in Talking \/ live[c] = "run" => Screened(q, p)
        /\ pc[c] \in Over /\ ~panicked[c] => p <= 1 /\ Sized(q)
        /\ pc[c] = "gone" /\ c \in Members => p <= 1
    BY <1>3 DEF WireOf
  <2>2. /\ Len(r) >= 1
        /\ f = "Size" => /\ InOrder(r, p) /\ (Sized(q) => Sized(r))
                         /\ Scrolled(q, p) => Scrolled(r, p)
        /\ f = "Scrollback" /\ Sized(q) /\ p <= 1 /\ (p = 1 \/ Len(q) >= 1) =>
              InOrder(r, p) /\ Scrolled(r, p)
        /\ f = "Screen" /\ Scrolled(q, p) => InOrder(r, p) /\ Screened(r, p)
        /\ f = "Data" /\ Screened(q, p) => InOrder(r, p)
        /\ Screened(q, p) => Screened(r, p)
    BY <1>1, <2>1, QueueAppends
  <2>3. /\ Sized(q) /\ p <= 1 => ~Screened(q, p)
        /\ Scrolled(q, p) => ~Screened(q, p)
    BY <1>1, StagesDiffer
  <2> HIDE DEF q, r, p
  <2>4. QED
    BY <1>1, <1>3, <2>1, <2>2, <2>3 DEF WireOf, Early, Talking, Over
<1>4. QED
  BY <1>2, <1>3

(* The writer takes a frame. *)
LEMMA WirePops ==
  ASSUME WireType, PlaceInv, NEW c \in Conns, WireOf(c), wr[c] = "run", conn[c] = "open",
         outCh[c] # <<>>,
         outCh'[c] = Tail(outCh[c]), phase'[c] = PhaseAfter(phase[c], Head(outCh[c])),
         pc'[c] = pc[c], wr'[c] = wr[c], live'[c] = live[c], panicked'[c] = panicked[c]
  PROVE  WireOf(c)'
<1> DEFINE q == outCh[c]
           r == Tail(q)
           p == phase[c]
           u == PhaseAfter(p, Head(q))
<1>1. q \in Seq(Frames) /\ p \in 0 .. 3 /\ outCh'[c] = r /\ phase'[c] = u /\ pc[c] # "gone"
  BY DEF WireType, PlaceInv, PlaceOf
<1>2. /\ InOrder(q, p)
      /\ pc[c] \in Early => Sized(q) /\ p <= 1
      /\ pc[c] = "screen" => Scrolled(q, p)
      /\ pc[c] \in Talking \/ live[c] = "run" => Screened(q, p)
      /\ pc[c] \in Over /\ ~panicked[c] => p <= 1 /\ Sized(q)
  BY DEF WireOf
<1>3. /\ InOrder(r, u)
      /\ Sized(q) => Sized(r) /\ (p <= 1 => u = 1)
      /\ Scrolled(q, p) => Scrolled(r, u)
      /\ Screened(q, p) => Screened(r, u)
  BY <1>1, <1>2, QueuePops
<1> HIDE DEF q, r, p, u
<1>4. QED
  BY <1>1, <1>2, <1>3 DEF WireOf, Early

(* A broadcast queues a Size frame for m, and t's serveOne may return from  *)
(* its call of the set.                                                     *)
LEMMA WireBroadcast ==
  ASSUME SetTypeOK, PlaceInv, PlaceInv', WireInv, NEW t \in Conns, NEW m \in Conns,
         Broadcast(t, m)
  PROVE  WireInv'
<1>1. /\ SendSize(t, m) /\ outCh' = [outCh EXCEPT ![m] = Append(@, "Size")]
      /\ phase' = phase /\ wr' = wr /\ live' = live /\ panicked' = panicked
      /\ IF bcast[t].to = {m} THEN AfterBroadcast(t) ELSE pc' = pc /\ conn' = conn
  BY DEF Broadcast, Send
<1>2. WireType /\ WireType' /\ "Size" \in Frames
  BY <1>1, AppendFacts DEF WireInv, WireType, Frames
<1>3. /\ outCh'[m] = Append(outCh[m], "Size")
      /\ \A x \in Conns \ {m} : outCh'[x] = outCh[x]
  BY <1>1, <1>2 DEF WireType
<1>4. PlaceOf(t) /\ pc[t] \in Sending /\ Members' = Members /\ m \in bcast[t].to
      /\ (bcast[t].last /\ m = t => bcast[t].to = {t})
  BY <1>1, SendFacts DEF PlaceInv, PlaceOf, Idle
<1>5. /\ \A x \in Conns \ {t} : pc'[x] = pc[x]
      /\ \/ pc'[t] = pc[t]
         \/ pc[t] = "adding" /\ pc'[t] = "subscribe" /\ m = t
         \/ pc[t] = "updating" /\ pc'[t] = "loop"
         \/ pc[t] = "removing" /\ pc'[t] \in {"gone", "notice"}
  <2>1. CASE bcast[t].to = {m} /\ pc[t] = "adding"
    <3>1. m = t
      BY <1>4, <2>1 DEF PlaceOf
    <3>2. QED
      BY <1>1, <2>1, <3>1 DEF AfterBroadcast, Goto, PlaceInv, PlaceType
  <2>2. CASE bcast[t].to = {m} /\ pc[t] = "updating"
    BY <1>1, <2>2 DEF AfterBroadcast, Goto, PlaceInv, PlaceType
  <2>3. CASE bcast[t].to = {m} /\ pc[t] = "removing"
    BY <1>1, <2>3 DEF AfterBroadcast, Served, Goto, Return, PlaceInv, PlaceType
  <2>4. CASE bcast[t].to # {m}
    BY <1>1, <2>4
  <2>5. QED
    BY <2>1, <2>2, <2>3, <2>4, <1>4 DEF Sending
<1>6. ASSUME NEW x \in Conns \ {t} PROVE WireOf(x)'
  <2>1. CASE x = m
    BY <1>1, <1>2, <1>3, <1>4, <1>5, <2>1, WireSends DEF WireInv
  <2>2. CASE x # m
    BY <1>1, <1>3, <1>4, <1>5, <2>2, WireStays DEF WireInv
  <2>3. QED
    BY <2>1, <2>2
<1>7. WireOf(t)'
  <2> DEFINE q == outCh[t]
             r == outCh'[t]
             p == phase[t]
  <2>1. q \in Seq(Frames) /\ p \in 0 .. 3 /\ phase'[t] = p /\ WireOf(t)
        /\ wr'[t] = wr[t] /\ live'[t] = live[t] /\ panicked'[t] = panicked[t]
    BY <1>1, <1>2 DEF WireType, WireInv
  <2>2. r = q \/ r = Append(q, "Size")
    BY <1>3
  <2>3. ASSUME InOrder(q, p)
        PROVE  /\ InOrder(r, p) /\ (Sized(q) => Sized(r)) /\ (Scrolled(q, p) => Scrolled(r, p))
               /\ Screened(q, p) => Screened(r, p)
               /\ Len(q) >= 1 => Len(r) >= 1
    <3>1. CASE r = q
      BY <2>3, <3>1
    <3>2. CASE r = Append(q, "Size")
      BY <2>1, <2>3, <3>2, <1>2, QueueAppends
    <3>3. QED
      BY <2>2, <3>1, <3>2
  <2>4. m = t => Len(r) >= 1
    BY <1>2, <1>3, <2>1, AppendFacts
  <2>5. t \in Members' <=> t \in Members
    BY <1>4
  <2>6. pc[t] = "removing" => t \notin Members
    BY <1>4 DEF PlaceOf
  <2> HIDE DEF q, r, p
  <2>7. CASE pc'[t] = pc[t]
    BY <2>1, <2>3, <2>4, <2>5, <2>7, <1>4 DEF WireOf, Early, Talking, Over, Sending, q, r, p
  <2>8. CASE pc[t] = "adding" /\ pc'[t] = "subscribe" /\ m = t
    BY <2>1, <2>3, <2>4, <2>5, <2>8 DEF WireOf, Early, Talking, Over, q, r, p
  <2>9. CASE pc[t] = "updating" /\ pc'[t] = "loop"
    BY <2>1, <2>3, <2>4, <2>5, <2>9 DEF WireOf, Early, Talking, Over, q, r, p
  <2>10. CASE pc[t] = "removing" /\ pc'[t] \in {"gone", "notice"}
    BY <2>1, <2>3, <2>4, <2>5, <2>6, <2>10 DEF WireOf, Early, Talking, Over, q, r, p
  <2>11. QED
    BY <1>5, <2>7, <2>8, <2>9, <2>10
<1>8. QED
  BY <1>2, <1>6, <1>7 DEF WireInv

(* Nothing is queued or written, and c moves; a member that goes is still   *)
(* in its Add.                                                              *)
LEMMA WireQuiet ==
  ASSUME WireInv, PlaceInv, NEW c \in Conns, outCh' = outCh, phase' = phase,
         \A x \in Conns \ {c} : /\ pc'[x] = pc[x] /\ wr'[x] = wr[x] /\ live'[x] = live[x]
                                /\ panicked'[x] = panicked[x]
                                /\ x \in Members' <=> x \in Members,
         wr'[c] = wr[c] \/ wr[c] = "off", live'[c] = live[c],
         panicked'[c] = panicked[c] \/ panicked'[c],
         \/ Onward(pc[c], pc'[c]) /\ pc'[c] # "gone"
         \/ pc'[c] = "gone" /\ (c \in Members' => pc[c] \in Early)
  PROVE  WireInv'
<1>1. WireType'
  BY DEF WireInv, WireType
<1>2. ASSUME NEW x \in Conns \ {c} PROVE WireOf(x)'
  BY WireStays DEF WireInv
<1>3. WireOf(c)'
  <2>1. WireOf(c) /\ outCh'[c] = outCh[c] /\ phase'[c] = phase[c]
    BY DEF WireInv
  <2>2. CASE Onward(pc[c], pc'[c]) /\ pc'[c] # "gone"
    BY <2>1, <2>2, WireMoves
  <2>3. CASE pc'[c] = "gone" /\ (c \in Members' => pc[c] \in Early)
    BY <2>1, <2>3 DEF WireOf, Early, Talking, Over
  <2>4. QED
    BY <2>2, <2>3
<1>4. QED
  BY <1>1, <1>2, <1>3 DEF WireInv

(* c queues f. *)
LEMMA WireSendsOne ==
  ASSUME WireInv, NEW c \in Conns, NEW f \in Frames, UNCHANGED setVars,
         Send(c, f), phase' = phase, wr' = wr, panicked' = panicked,
         \A x \in Conns \ {c} : pc'[x] = pc[x] /\ live'[x] = live[x],
         \/ f = "Scrollback" /\ pc[c] = "scroll" /\ pc'[c] = "screen" /\ live'[c] = live[c]
         \/ f = "Screen" /\ pc[c] = "screen" /\ pc'[c] = "loop"
         \/ f = "Data" /\ pc[c] = "pong" /\ pc'[c] = "loop" /\ live'[c] = live[c]
         \/ f = "Data" /\ live[c] = "run" /\ pc'[c] = pc[c] /\ live'[c] = live[c]
  PROVE  WireInv'
<1>1. outCh' = [outCh EXCEPT ![c] = Append(outCh[c], f)] /\ WireType
  BY DEF Send, WireInv
<1>2. WireType' /\ outCh'[c] = Append(outCh[c], f)
      /\ \A x \in Conns \ {c} : outCh'[x] = outCh[x]
  BY <1>1, AppendFacts DEF WireType
<1>3. Members' = Members
  BY DEF setVars, Members, MembersOf
<1>4. ASSUME NEW x \in Conns \ {c} PROVE WireOf(x)'
  BY <1>2, <1>3, WireStays DEF WireInv
<1>5. WireOf(c)'
  BY <1>1, <1>2, <1>3, WireSends DEF WireInv
<1>6. QED
  BY <1>2, <1>4, <1>5 DEF WireInv

(* Every step keeps WireInv. *)
LEMMA WireStepKeeps ==
  SetTypeOK /\ PlaceInv /\ PlaceInv' /\ WireInv /\ [Next]_vars => WireInv'
<1> SUFFICES ASSUME SetTypeOK, PlaceInv, PlaceInv', WireInv, [Next]_vars PROVE WireInv'
  OBVIOUS
<1>1. ASSUME NEW t \in Conns, NEW m \in Conns, Broadcast(t, m) PROVE WireInv'
  BY <1>1, WireBroadcast
<1>2. ASSUME NEW t \in Conns, NEW m \in Conns, Panic(t, m) PROVE WireInv'
  <2>1. /\ m \in bcast[t].to /\ Members' = Members
        /\ outCh' = outCh /\ phase' = phase /\ wr' = wr /\ live' = live
        /\ panicked' = [panicked EXCEPT ![t] = TRUE]
        /\ \/ pc[t] = "updating" /\ pc' = [pc EXCEPT ![t] = "unwind"]
           \/ pc[t] # "updating" /\ pc' = [pc EXCEPT ![t] = "gone"]
    BY <1>2 DEF Panic, Goto, Return, AbortBroadcast, Members, MembersOf
  <2>2. pc[t] \in Sending /\ (pc[t] = "removing" => t \notin Members)
    BY <2>1 DEF PlaceInv, PlaceOf, Idle
  <2>3. /\ \A x \in Conns \ {t} : pc'[x] = pc[x] /\ panicked'[x] = panicked[x]
        /\ panicked'[t]
        /\ \/ pc[t] = "updating" /\ pc'[t] = "unwind"
           \/ pc[t] # "updating" /\ pc'[t] = "gone"
    BY <2>1 DEF PlaceInv, PlaceType
  <2>4. QED
    BY <2>1, <2>2, <2>3, WireQuiet DEF Sending, Early, Onward
<1>3. ASSUME NEW c \in Conns, NEW ws \in Sizes, Hello(c, ws) PROVE WireInv'
  <2>1. /\ pc[c] = "hello" /\ pc' = [pc EXCEPT ![c] = "adding"] /\ wr' = [wr EXCEPT ![c] = "run"]
        /\ Recompute([members EXCEPT ![c] = ws])
        /\ outCh' = outCh /\ phase' = phase /\ live' = live /\ panicked' = panicked
    BY <1>3 DEF Hello, Goto, Add
  <2>2. \A x \in Conns \ {c} : x \in Members' <=> x \in Members
    BY <2>1, DeclareFacts, SizesAssumption
  <2>3. /\ pc'[c] = "adding" /\ wr[c] = "off"
        /\ \A x \in Conns \ {c} : pc'[x] = pc[x] /\ wr'[x] = wr[x]
    BY <2>1 DEF PlaceInv, PlaceType, PlaceOf
  <2>4. QED
    BY <2>1, <2>2, <2>3, WireQuiet DEF Onward, Talking, Over
<1>4. ASSUME NEW c \in Conns, NEW ws \in Sizes, ReadSize(c, ws) PROVE WireInv'
  <2>1. /\ pc[c] = "loop" /\ (pc' = pc \/ pc' = [pc EXCEPT ![c] = "updating"])
        /\ Recompute([members EXCEPT ![c] = ws])
        /\ outCh' = outCh /\ phase' = phase /\ live' = live /\ wr' = wr
        /\ panicked' = panicked
    BY <1>4 DEF ReadSize, Goto, Update
  <2>2. \A x \in Conns \ {c} : x \in Members' <=> x \in Members
    BY <2>1, DeclareFacts, SizesAssumption
  <2>3. /\ pc'[c] \in {"loop", "updating"}
        /\ \A x \in Conns \ {c} : pc'[x] = pc[x]
    BY <2>1 DEF PlaceInv, PlaceType
  <2>4. QED
    BY <2>1, <2>2, <2>3, WireQuiet DEF Onward, Talking, Over
<1>5. ASSUME NEW c \in Conns, Leave(c) PROVE WireInv'
  <2>1. /\ pc[c] = "setRemove"
        /\ \E l \in {"gone", "notice", "removing"} : pc' = [pc EXCEPT ![c] = l]
        /\ Recompute([members EXCEPT ![c] = NoSize])
        /\ outCh' = outCh /\ phase' = phase /\ live' = live /\ wr' = wr
        /\ panicked' = panicked
    BY <1>5 DEF Leave, Served, Goto, Return, Remove
  <2>2. /\ \A x \in Conns \ {c} : x \in Members' <=> x \in Members
        /\ c \notin Members'
    BY <2>1, DeclareFacts
  <2>3. /\ pc'[c] \in {"gone", "notice", "removing"}
        /\ \A x \in Conns \ {c} : pc'[x] = pc[x]
    BY <2>1 DEF PlaceInv, PlaceType
  <2>4. QED
    BY <2>1, <2>2, <2>3, WireQuiet DEF Onward, Talking, Over
<1>6. ASSUME NEW c \in Conns, NEW l, pc' = [pc EXCEPT ![c] = l],
             \/ Onward(pc[c], l) /\ l # "gone"
             \/ l = "gone" /\ (pc[c] = "hello" \/ c \notin Members),
             UNCHANGED setVars, UNCHANGED <<outCh, phase, live, panicked>>,
             \A x \in Conns \ {c} : wr'[x] = wr[x], wr'[c] = wr[c] \/ wr[c] = "off"
      PROVE  WireInv'
  <2>1. pc'[c] = l /\ \A x \in Conns \ {c} : pc'[x] = pc[x]
    BY <1>6 DEF PlaceInv, PlaceType
  <2>2. Members' = Members
    BY <1>6 DEF setVars, Members, MembersOf
  <2>3. QED
    BY <1>6, <2>1, <2>2, WireQuiet DEF Early
<1>7. ASSUME NEW c \in Conns,
             \/ Subscribe(c) \/ SubscribeFails(c) \/ RejectHello(c) \/ ReadPing(c)
             \/ EndLoop(c) \/ CloseOut(c) \/ ReadInput(c) \/ InputWritten(c)
             \/ PTYBlocks(c) \/ WriteNotice(c)
      PROVE  WireInv'
  BY <1>6, <1>7
     DEF Onward, Talking, Over, Subscribe, SubscribeFails, RejectHello, Return, ReadPing,
         EndLoop, CloseOut, ReadInput, InputWritten, PTYBlocks, WriteNotice, Goto
<1>8. ASSUME NEW c \in Conns, SendScrollback(c) PROVE WireInv'
  <2>1. pc[c] = "scroll" /\ pc'[c] = "screen" /\ \A x \in Conns \ {c} : pc'[x] = pc[x]
    BY <1>8 DEF SendScrollback, Goto, PlaceInv, PlaceType
  <2>2. QED
    BY <1>8, <2>1, WireSendsOne DEF SendScrollback, Frames
<1>9. ASSUME NEW c \in Conns, SendScreen(c) PROVE WireInv'
  <2>1. pc[c] = "screen" /\ pc'[c] = "loop"
        /\ \A x \in Conns \ {c} : pc'[x] = pc[x] /\ live'[x] = live[x]
    BY <1>9 DEF SendScreen, Goto, PlaceInv, PlaceType
  <2>2. QED
    BY <1>9, <2>1, WireSendsOne DEF SendScreen, Frames
<1>10. ASSUME NEW c \in Conns, SendPong(c) PROVE WireInv'
  <2>1. pc[c] = "pong" /\ pc'[c] = "loop" /\ \A x \in Conns \ {c} : pc'[x] = pc[x]
    BY <1>10 DEF SendPong, Goto, PlaceInv, PlaceType
  <2>2. QED
    BY <1>10, <2>1, WireSendsOne DEF SendPong, Frames
<1>11. ASSUME NEW c \in Conns, LiveForward(c) PROVE WireInv'
  BY <1>11, WireSendsOne DEF LiveForward, Frames
<1>12. ASSUME NEW c \in Conns, WriteFrame(c) \/ WriteFails(c) PROVE WireInv'
  <2>1. /\ wr[c] = "run" /\ outCh[c] # <<>> /\ outCh' = [outCh EXCEPT ![c] = Tail(outCh[c])]
        /\ pc' = pc /\ live' = live /\ panicked' = panicked /\ UNCHANGED setVars
        /\ \/ /\ conn[c] = "open" /\ wr' = wr
              /\ phase' = [phase EXCEPT ![c] = PhaseAfter(phase[c], Head(outCh[c]))]
           \/ wr' = [wr EXCEPT ![c] = "dead"] /\ phase' = phase
    BY <1>12 DEF WriteFrame, WriteFails
  <2>2. WireType /\ WireOf(c) /\ Members' = Members
    BY <2>1 DEF WireInv, setVars, Members, MembersOf
  <2>3. outCh[c] \in Seq(Frames) /\ phase[c] \in 0 .. 3 /\ Tail(outCh[c]) \in Seq(Frames)
        /\ PhaseAfter(phase[c], Head(outCh[c])) \in 0 .. 3
    <3>1. InOrder(outCh[c], phase[c])
      BY <2>1, <2>2 DEF WireOf
    <3>2. outCh[c] \in Seq(Frames) /\ phase[c] \in 0 .. 3
      BY <2>2 DEF WireType
    <3>3. QED
      BY <2>1, <3>1, <3>2, QueuePops
  <2>4. WireType' /\ outCh'[c] = Tail(outCh[c])
        /\ \A x \in Conns \ {c} : outCh'[x] = outCh[x] /\ phase'[x] = phase[x]
    BY <2>1, <2>2, <2>3 DEF WireType
  <2>5. /\ \A x \in Conns \ {c} : wr'[x] = wr[x]
        /\ \/ /\ conn[c] = "open" /\ wr'[c] = wr[c]
              /\ phase'[c] = PhaseAfter(phase[c], Head(outCh[c]))
           \/ wr'[c] = "dead" /\ phase'[c] = phase[c]
    BY <2>1, <2>2 DEF PlaceInv, PlaceType, WireType
  <2>6. ASSUME NEW x \in Conns \ {c} PROVE WireOf(x)'
    BY <2>1, <2>2, <2>4, <2>5, WireStays DEF WireInv
  <2>7. WireOf(c)'
    <3>1. CASE wr'[c] = "dead" /\ phase'[c] = phase[c]
      BY <3>1, <2>1, <2>2 DEF WireOf
    <3>2. CASE wr'[c] = wr[c] /\ conn[c] = "open"
               /\ phase'[c] = PhaseAfter(phase[c], Head(outCh[c]))
      BY <3>2, <2>1, <2>2, <2>4, WirePops
    <3>3. QED
      BY <2>5, <3>1, <3>2
  <2>8. QED
    BY <2>4, <2>6, <2>7 DEF WireInv
<1>13. ASSUME NEW c \in Conns, WriterEnd(c) \/ LiveEnd(c) \/ Disconnect(c) PROVE WireInv'
  <2>1. outCh' = outCh /\ phase' = phase /\ pc' = pc /\ panicked' = panicked
        /\ UNCHANGED setVars
    BY <1>13 DEF WriterEnd, LiveEnd, Disconnect
  <2>2. \A x \in Conns : (wr'[x] = wr[x] \/ wr'[x] = "dead")
                         /\ (live'[x] = live[x] \/ live'[x] # "run")
    BY <1>13 DEF WriterEnd, LiveEnd, Disconnect, PlaceInv, PlaceType
  <2>3. Members' = Members
    BY <2>1 DEF setVars, Members, MembersOf
  <2>4. QED
    BY <2>1, <2>2, <2>3, WireStays DEF WireInv, WireType
<1>14. CASE Fanout \/ UNCHANGED vars \/ \E c \in Conns : DetachNotice(c) \/ DetachClose(c)
  <2>1. outCh' = outCh /\ phase' = phase /\ pc' = pc /\ wr' = wr /\ live' = live
        /\ panicked' = panicked /\ UNCHANGED setVars
    BY <1>14 DEF Fanout, DetachNotice, DetachClose, vars, handlerVars
  <2>2. Members' = Members
    BY <2>1 DEF setVars, Members, MembersOf
  <2>3. QED
    BY <2>1, <2>2, WireStays DEF WireInv, WireType
<1>15. ASSUME NEW c \in Conns, CancelSub(c) \/ WriterJoined(c) PROVE WireInv'
  <2>1. /\ UNCHANGED setVars /\ outCh' = outCh /\ phase' = phase /\ wr' = wr /\ live' = live
        /\ panicked' = panicked
        /\ \/ pc[c] = "cancel" /\ pc' = [pc EXCEPT ![c] = "waitLive"]
           \/ pc[c] = "unwind" /\ pc' = [pc EXCEPT ![c] = "setRemove"]
           \/ wr[c] = "dead" /\ pc[c] = "waitWriter" /\ pc' = [pc EXCEPT ![c] = "setRemove"]
    BY <1>15 DEF CancelSub, WriterJoined, Goto
  <2>2. Members' = Members
    BY <2>1 DEF setVars, Members, MembersOf
  <2>3. /\ \A x \in Conns \ {c} : pc'[x] = pc[x]
        /\ \/ pc[c] = "cancel" /\ pc'[c] = "waitLive"
           \/ pc'[c] = "setRemove" /\ (panicked[c] \/ wr[c] = "dead")
    BY <2>1 DEF PlaceInv, PlaceType, PlaceOf
  <2>4. WireOf(c)'
    BY <2>1, <2>2, <2>3 DEF WireInv, WireOf, Early, Talking, Over
  <2>5. ASSUME NEW x \in Conns \ {c} PROVE WireOf(x)'
    BY <2>1, <2>2, <2>3, WireStays DEF WireInv
  <2>6. QED
    BY <2>1, <2>4, <2>5 DEF WireInv, WireType
<1>16. ASSUME NEW c \in Conns, CloseConn(c) PROVE WireInv'
  <2>1. pc[c] = "closing" => c \notin Members
    BY DEF PlaceInv, PlaceOf
  <2>2. QED
    BY <1>6, <1>16, <2>1 DEF CloseConn, Return, Goto
<1>17. ASSUME NEW c \in Conns, NEW ws \in Sizes \cup {NoSize}, ResizeBlocks(c, ws)
       PROVE  WireInv'
  <2>1. /\ pc' = [pc EXCEPT ![c] = "lockedUp"] /\ UNCHANGED setVars
        /\ UNCHANGED <<outCh, phase, live, panicked>>
        /\ wr' = [wr EXCEPT ![c] = IF pc[c] = "hello" THEN "run" ELSE @]
    BY <1>17 DEF ResizeBlocks, Goto
  <2>2. /\ \A x \in Conns \ {c} : wr'[x] = wr[x]
        /\ wr'[c] = wr[c] \/ wr[c] = "off"
    BY <2>1 DEF PlaceInv, PlaceType, PlaceOf
  <2>3. QED
    BY <1>6, <2>1, <2>2 DEF Onward
<1>18. QED
  BY <1>1, <1>2, <1>3, <1>4, <1>5, <1>7, <1>8, <1>9, <1>10, <1>11, <1>12, <1>13, <1>14,
     <1>15, <1>16, <1>17
     DEF Next, ServeStep, WriterStep, LiveStep, Environment

-----------------------------------------------------------------------------
(* The invariant and what follows from it *)

HandlerInv == PlaceInv /\ WireInv

(* It holds before anyone has attached. *)
LEMMA HandlerInit == Init => HandlerInv
<1> SUFFICES ASSUME Init PROVE HandlerInv
  OBVIOUS
<1>1. /\ \A c \in Conns : /\ pc[c] = "hello" /\ outCh[c] = <<>> /\ wr[c] = "off"
                          /\ live[c] = "off" /\ phase[c] = 0 /\ bcast[c] = Quiet
      /\ Members = {} /\ joined = {}
  BY DEF Init, SetInit, Members, MembersOf
<1>2. \A c \in Conns : outOpen[c] /\ ~sub[c] /\ ~panicked[c]
  BY DEF Init
<1>3. PlaceType
  <2>1. /\ outOpen \in [Conns -> BOOLEAN] /\ sub \in [Conns -> BOOLEAN]
        /\ panicked \in [Conns -> BOOLEAN]
    BY Zenon DEF Init
  <2>2. QED
    BY <2>1 DEF Init, PlaceType, ServeLabels
<1>4. ASSUME NEW c \in Conns PROVE PlaceOf(c)
  <2>1. Idle(c)
    BY <1>1 DEF Idle, Quiet
  <2>2. QED
    BY <1>1, <1>2, <2>1 DEF PlaceOf, Sending
<1>5. WireType
  <2>1. <<>> \in Seq(Frames)
    OBVIOUS
  <2>2. QED
    BY <2>1 DEF Init, WireType
<1>6. ASSUME NEW c \in Conns PROVE WireOf(c)
  <2>1. Len(outCh[c]) = 0
    BY <1>1
  <2>2. InOrder(outCh[c], phase[c]) /\ Sized(outCh[c])
    BY <2>1 DEF InOrder, Sized
  <2>3. QED
    BY <1>1, <2>2 DEF WireOf, Early, Talking, Over
<1>7. QED
  BY <1>3, <1>4, <1>5, <1>6 DEF HandlerInv, PlaceInv, WireInv

(* serveOne, its goroutines and the set stay in step. *)
THEOREM HandlerInvariant == Spec => []HandlerInv
<1>1. SetTypeOK /\ HandlerInv /\ [Next]_vars => HandlerInv'
  BY PlaceStepKeeps, WireStepKeeps DEF HandlerInv
<1>2. QED
  BY <1>1, HandlerInit, HandlerImplementsSet, SetTypeCorrect, PTL DEF Spec

(* outCh is closed behind the live goroutine and serveOne's own sends, so   *)
(* no goroutine of the attach itself sends on a closed channel.             *)
THEOREM OwnSendersDoneHolds == Spec => []OwnSendersDone
<1>1. HandlerInv => OwnSendersDone
  BY DEF HandlerInv, PlaceInv, PlaceOf, OwnSendersDone, Closed
<1>2. QED
  BY <1>1, HandlerInvariant, PTL

(* Whatever ends it, an attach that got its snapshot is not left behind in  *)
(* the set.                                                                 *)
THEOREM ServedAttachLeavesHolds == Spec => []ServedAttachLeaves
<1>1. HandlerInv => ServedAttachLeaves
  BY DEF HandlerInv, PlaceInv, PlaceOf, WireInv, WireOf, ServedAttachLeaves
<1>2. QED
  BY <1>1, HandlerInvariant, PTL

(* The frames of outCh are written in the order Size, scrollback, screen    *)
(* and only then live output, however the broadcasts of the other attaches, *)
(* the live goroutine and the read loop interleave; and ServeHTTP's notice  *)
(* is written behind them, but for a Size of an attach that was never       *)
(* served.                                                                  *)
THEOREM WireOrderHolds == Spec => WireOrder
<1>1. HandlerInv /\ HandlerInv' /\ [Next]_vars =>
        [\A c \in Conns : (outCh[c] # <<>> /\ outCh'[c] = Tail(outCh[c])) =>
            /\ phase[c] \in CASE Head(outCh[c]) = "Size" -> 0 .. 3
                              [] Head(outCh[c]) = "Scrollback" -> {1}
                              [] Head(outCh[c]) = "Screen" -> {2}
                              [] Head(outCh[c]) = "Data" -> {3}
            /\ pc[c] = "closing" /\ wr'[c] = "run" =>
                  Head(outCh[c]) = "Size" /\ phase[c] <= 1]_vars
  <2> SUFFICES ASSUME HandlerInv, [Next]_vars, NEW c \in Conns, outCh[c] # <<>>,
                      outCh'[c] = Tail(outCh[c])
               PROVE  /\ Due(Head(outCh[c]), phase[c])
                      /\ pc[c] = "closing" => Head(outCh[c]) = "Size" /\ phase[c] <= 1
    BY DEF Due
  <2>1. outCh[c] \in Seq(Frames) /\ phase[c] \in 0 .. 3 /\ WireType /\ WireOf(c)
    BY DEF HandlerInv, WireInv, WireType
  <2>2. wr[c] = "run"
    <3>1. outCh'[c] # outCh[c] /\ \A f \in Frames : outCh'[c] # Append(outCh[c], f)
      BY <2>1, TailDiffers
    <3>2. ASSUME NEW x \in Conns, WriteFrame(x) \/ WriteFails(x) PROVE wr[c] = "run"
      <4>1. x = c \/ outCh'[c] = outCh[c]
        BY <3>2, <2>1 DEF WriteFrame, WriteFails, WireType
      <4>2. QED
        BY <4>1, <3>1, <3>2, Zenon DEF WriteFrame, WriteFails
    <3>3. ASSUME NEW x \in Conns, NEW f \in Frames, Send(x, f) PROVE FALSE
      <4>1. outCh'[c] = outCh[c] \/ outCh'[c] = Append(outCh[c], f)
        BY <3>3, <2>1 DEF Send, WireType
      <4>2. QED
        BY <3>1, <3>3, <4>1, Zenon
    <3>4. CASE outCh' = outCh
      BY <3>1, <3>4, Zenon
    <3>5. ASSUME NEW x \in Conns,
                 \/ SendScrollback(x) \/ SendScreen(x) \/ SendPong(x) \/ LiveForward(x)
                 \/ \E t \in Conns : Broadcast(t, x)
          PROVE  FALSE
      BY <3>3, <3>5 DEF SendScrollback, SendScreen, SendPong, LiveForward, Broadcast, Frames
    <3>6. QED
      BY <3>2, <3>4, <3>5
         DEF Next, ServeStep, WriterStep, LiveStep, Environment, Subscribe, CancelSub,
             CloseOut, WriterJoined, Leave, Panic, WriterEnd, LiveEnd, Hello, ReadSize,
             RejectHello, SubscribeFails, ReadPing, EndLoop, Disconnect, Fanout, ReadInput,
             InputWritten, WriteNotice, CloseConn, DetachNotice, DetachClose, PTYBlocks,
             ResizeBlocks, vars, handlerVars
  <2>3. InOrder(outCh[c], phase[c])
    BY <2>1, <2>2 DEF WireOf
  <2>4. ASSUME pc[c] = "closing" PROVE Head(outCh[c]) = "Size" /\ phase[c] <= 1
    <3>1. Sized(outCh[c]) /\ phase[c] <= 1
      BY <2>1, <2>2, <2>4 DEF HandlerInv, PlaceInv, PlaceOf, WireOf, Over
    <3>2. 1 \in 1 .. Len(outCh[c]) /\ Head(outCh[c]) = outCh[c][1]
      BY <2>1, TailFacts
    <3>3. QED
      BY <3>1, <3>2 DEF Sized
  <2>5. Due(Head(outCh[c]), phase[c])
    BY <2>1, <2>3, QueuePops
  <2>6. QED
    BY <2>4, <2>5
<1>2. QED
  BY <1>1, HandlerInvariant, PTL DEF Spec, WireOrder

(* The PTY has the min-wins size of the attached windows while attaches     *)
(* come, go and panic.                                                      *)
THEOREM NegotiatedWhileServing == Spec => []NegotiatedSize
BY HandlerImplementsSet, NegotiatedSizeHolds, PTL
=============================================================================
