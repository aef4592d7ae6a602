---------------------------- MODULE AttachClient ----------------------------
(***************************************************************************)
(* hoot attach over an ssh remote: the connect loop, the session with its   *)
(* writer, heartbeat and server-loop goroutines, the keyboard and SIGWINCH  *)
(* goroutines that outlive the sessions (src/cmd/hoot/attach.go), and the   *)
(* tunnel under the dial (src/cmd/hoot/remote.go).                          *)
(*                                                                         *)
(* There is no clock: a backoff, a ticker or the watchdog's timeout may end *)
(* at any time after it began.  A frame is its type with the size it        *)
(* carries; keystrokes are the commands the chord machine (module ChordFSM) *)
(* makes of them.  A captured send function belongs to the running session  *)
(* ("cur") or to one that ended ("old", its channel closed).                *)
(***************************************************************************)
EXTENDS Naturals, Sequences

CONSTANTS
  OutCap,      \* capacity of outCh, with the frame being written (256 + 1)
  MaxSize,     \* bound: sizes the local terminal goes through
  MaxClones    \* bound: sessions cloned from within the attach

ASSUME ClientAssumption ==
  OutCap \in Nat \ {0} /\ MaxSize \in Nat \ {0} /\ MaxClones \in Nat

VARIABLES
  pc,         \* runAttachLoop, runConnectLoop and the runSession it calls
  code,       \* exit code: 0, 1 (error), 2 (no such session)
  reconnect,  \* --remote without --no-reconnect
  ctx,        \* the outer context is cancelled
  target,     \* attachTargetState: the session to attach to
  dialT,      \* the target the loop dialled
  once,       \* gotConnectedOnce
  reached,    \* history: an upgrade for dialT succeeded
  stale,      \* history: takeSwitched answered for a switch already made
  missed,     \* history: a clone or a resize found no session to tell, while
              \* one was being set up
  tunnel,     \* an ssh tunnel is open and its ssh runs
  peer,       \* environment: up, mute (answers nothing), down (errors)
  conn,       \* the connection is open at both ends
  fn,         \* sharedSession.sendFn: none or cur
  switched,   \* sharedSession.switched
  tty,        \* environment: size of the local terminal
  winch,      \* a SIGWINCH is pending
  blind,      \* history: the window changed before anyone listened for it
  size,       \* the size kept for the next Hello
  loaded,     \* the size runConnectLoop loaded for this Hello
  out,        \* outCh
  closed,     \* ... closed
  writer,     \* writer goroutine: off, run, done
  hb,         \* heartbeat goroutine: off, run, ping (in send), done
  srv,        \* server loop: off, read, show (a frame in hand), done
  peerSize,   \* size of this attach in the session, NoSize before Hello
  key,        \* keyboard: idle, cur, old (in send), clone (to dial), ask, mark
  win,        \* SIGWINCH: idle, stored, cur, old (in send)
  wsz,        \* the size the SIGWINCH goroutine sends
  attached,   \* a screen was shown
  soiled,     \* the terminal is raw, has hoot's keyboard frame or modes set
              \* by remote output
  late        \* history: the client left with a frame still to be written

loopVars == <<code, reconnect, target, dialT, once, reached, stale, missed>>
sharedVars == <<fn, switched>>
sessVars == <<out, closed, writer, hb, srv, peerSize>>
termVars == <<attached, soiled, late>>
userVars == <<key, win, wsz, winch, blind, size>>
envVars == <<peer, tunnel, tty>>
vars == <<pc, ctx, loopVars, envVars, conn, sharedVars, loaded, sessVars, userVars, termVars>>

NoSize == 0              \* a size nobody knows

Hello(z) == [type |-> "Hello", size |-> z]
Size(z) == [type |-> "Size", size |-> z]
Input == [type |-> "Input", size |-> NoSize]
Ping == [type |-> "Ping", size |-> NoSize]

Gone == pc \in {"exit", "crash"}          \* the process is gone
Ended == {"join", "drain", "after"}       \* sessionCancel was called
SessionDone == ctx \/ pc \in Ended        \* sessionCtx.Done()

-----------------------------------------------------------------------------
(* Dialling *)

(* signal.Notify: from now on a change of the window is a SIGWINCH. *)
Notify ==
  /\ pc = "start"
  /\ pc' = "next"
  /\ UNCHANGED <<loopVars, ctx, envVars, conn, sharedVars, userVars, loaded, sessVars,
                 termVars>>

(* A round of the loop: the current target. *)
NextRound ==
  /\ pc = "next"
  /\ dialT' = target
  /\ reached' = (reached /\ dialT = target) /\ missed' = FALSE
  /\ pc' = "dial"
  /\ UNCHANGED <<code, reconnect, ctx, target, once, stale, envVars, conn, sharedVars,
                 userVars, loaded, sessVars, termVars>>

(* The error of a dial: a cancelled context is a clean exit, the first      *)
(* connect fails fast, a later one backs off.                               *)
DialError ==
  /\ pc' = IF ctx \/ ~once \/ ~reconnect THEN "leave" ELSE "backoff"
  /\ code' = IF ctx THEN 0 ELSE 1

(* A slip: a tunnel that was open once is never opened again. *)
DialNoReopen ==
  /\ pc = "dial"
  /\ \/ ~ctx /\ (tunnel \/ ~once) /\ tunnel' = TRUE /\ pc' = "upgrade" /\ code' = code
     \/ (~tunnel \/ ctx) /\ tunnel' = tunnel /\ DialError
  /\ UNCHANGED <<reconnect, ctx, target, dialT, once, reached, stale, missed, peer,
                 conn, sharedVars, tty, userVars, loaded, sessVars, termVars>>

(* Remote.Dial: open the tunnel unless there is one; if its socket does not *)
(* answer, close it, open another and dial that.  A mutex makes it one step *)
(* for the loop and for a clone that is asked for; whoever waits for the    *)
(* mutex waits for ssh, which gives up by itself.                           *)
Tunnelled == (tunnel \/ peer # "down") /\ tunnel' = TRUE
NotTunnelled == ~tunnel /\ peer # "up" /\ tunnel' = tunnel

Dial ==
  /\ pc = "dial"
  /\ \/ ~ctx /\ Tunnelled /\ pc' = "upgrade" /\ code' = code
     \/ NotTunnelled /\ DialError
     \/ ctx /\ tunnel' = tunnel /\ DialError
  /\ UNCHANGED <<reconnect, ctx, target, dialT, once, reached, stale, missed, peer,
                 conn, sharedVars, tty, userVars, loaded, sessVars, termVars>>

(* upgradeAttachConn waits for the answer, whatever becomes of the context. *)
Upgrade ==
  /\ pc = "upgrade"
  /\ \/ /\ peer = "up" /\ tunnel
        /\ conn' = TRUE /\ reached' = TRUE
        /\ pc' = "connected" /\ code' = code
     \/ /\ peer = "up" /\ tunnel                    \* 404, 409: httpErrExit2
        /\ pc' = "leave" /\ code' = IF ctx THEN 0 ELSE 2
        /\ UNCHANGED <<conn, reached>>
     \/ /\ peer = "down" \/ ~tunnel
        /\ DialError
        /\ UNCHANGED <<conn, reached>>
  /\ UNCHANGED <<reconnect, ctx, target, dialT, once, stale, missed, envVars,
                 sharedVars, userVars, loaded, sessVars, termVars>>

-----------------------------------------------------------------------------
(* runSession *)

(* A slip: the size is the one hoot attach started with. *)
LoadFirstSize ==
  /\ pc = "connected"
  /\ loaded' = 1
  /\ pc' = "open"
  /\ UNCHANGED <<loopVars, ctx, envVars, conn, sharedVars, userVars, sessVars,
                 termVars>>

(* The size for Hello is loaded by the connect loop ... *)
LoadSize ==
  /\ pc = "connected"
  /\ loaded' = size
  /\ pc' = "open"
  /\ UNCHANGED <<loopVars, ctx, envVars, conn, sharedVars, userVars, sessVars,
                 termVars>>

(* ... the session's send is published ... *)
SetSend ==
  /\ pc = "open"
  /\ fn' = "cur" /\ out' = <<>> /\ closed' = FALSE /\ writer' = "run"
  /\ peerSize' = NoSize
  /\ pc' = "hello"
  /\ UNCHANGED <<loopVars, ctx, envVars, conn, switched, userVars, loaded, hb, srv,
                 termVars>>

(* ... and then Hello is sent; heartbeat and server loop start. *)
SendHello ==
  /\ pc = "hello"
  /\ \/ /\ Len(out) < OutCap
        /\ out' = Append(out, Hello(loaded))
        /\ hb' = "run" /\ srv' = "read"
        /\ pc' = "serve"
        /\ UNCHANGED <<fn, conn>>
     \/ /\ ctx                                   \* returns: clearSend, conn.Close
        /\ fn' = "none" /\ conn' = FALSE /\ pc' = "after"
        /\ UNCHANGED <<out, hb, srv>>
  /\ loaded' = NoSize
  /\ UNCHANGED <<loopVars, ctx, envVars, switched, userVars, closed, writer, peerSize,
                 termVars>>

(* A slip: the connection is left to the garbage collector. *)
EndServeNoClose ==
  /\ pc = "serve" /\ (srv = "done" \/ ctx)
  /\ pc' = "join"
  /\ UNCHANGED <<loopVars, ctx, envVars, conn, sharedVars, userVars, loaded, sessVars,
                 termVars>>

(* The server loop has returned, or the context is cancelled. *)
EndServe ==
  /\ pc = "serve" /\ (srv = "done" \/ ctx)
  /\ conn' = FALSE
  /\ pc' = "join"
  /\ UNCHANGED <<loopVars, ctx, envVars, sharedVars, userVars, loaded, sessVars,
                 termVars>>

JoinHeartbeat ==
  /\ pc = "join" /\ hb = "done"
  /\ closed' = TRUE
  /\ pc' = "drain"
  /\ UNCHANGED <<loopVars, ctx, envVars, conn, sharedVars, userVars, loaded, out,
                 writer, hb, srv, peerSize, termVars>>

(* The deferred clearSend: a send already captured keeps the closed channel. *)
JoinWriter ==
  /\ pc = "drain" /\ writer = "done"
  /\ fn' = "none"
  /\ key' = IF key = "cur" THEN "old" ELSE key
  /\ win' = IF win = "cur" THEN "old" ELSE win
  /\ out' = <<>> /\ hb' = "off" /\ writer' = "off"
  /\ pc' = "after"
  /\ UNCHANGED <<loopVars, ctx, envVars, conn, switched, winch, blind, size, loaded, closed,
                 srv, peerSize, wsz, termVars>>

-----------------------------------------------------------------------------
(* The connect loop after a session *)

(* A slip: the reset of gotConnectedOnce is not limited to a switch. *)
AfterSessionForgets ==
  /\ pc = "after"
  /\ switched' = (ctx /\ switched)
  /\ once' = FALSE
  /\ stale' = (~ctx /\ switched /\ dialT = target)
  /\ pc' = IF ctx \/ (~switched /\ ~reconnect) THEN "leave"
           ELSE IF switched THEN "next" ELSE "backoff"
  /\ code' = 0
  /\ srv' = IF srv = "done" THEN "off" ELSE srv
  /\ peerSize' = (IF conn THEN peerSize ELSE NoSize) /\ closed' = FALSE
  /\ UNCHANGED <<reconnect, ctx, target, dialT, reached, missed, envVars, conn, fn,
                 userVars, loaded, out, writer, hb, termVars>>

(* runConnectLoop's verdict on a finished session; without --reconnect an   *)
(* error other than EOF is the exit code.                                   *)
AfterSession ==
  /\ pc = "after"
  /\ switched' = (ctx /\ switched)
  /\ once' = (IF ctx THEN once ELSE ~switched)
  /\ stale' = (~ctx /\ switched /\ dialT = target)
  /\ pc' = IF ctx \/ (~switched /\ ~reconnect) THEN "leave"
           ELSE IF switched THEN "next" ELSE "backoff"
  /\ code' \in IF ctx \/ switched \/ reconnect THEN {0} ELSE {0, 1}
  /\ srv' = IF srv = "done" THEN "off" ELSE srv
  /\ peerSize' = (IF conn THEN peerSize ELSE NoSize) /\ closed' = FALSE
  /\ UNCHANGED <<reconnect, ctx, target, dialT, reached, missed, envVars, conn, fn,
                 userVars, loaded, out, writer, hb, termVars>>

(* waitBackoff, after a drop or a failed redial. *)
Backoff ==
  /\ pc = "backoff"
  /\ pc' = IF ctx THEN "leave" ELSE "next"
  /\ code' = 0
  /\ UNCHANGED <<reconnect, ctx, target, dialT, once, reached, stale, missed, envVars,
                 conn, sharedVars, userVars, loaded, sessVars, termVars>>

(* runAttachLoop's deferred calls: termios, title, and the restorer's       *)
(* Cleanup if a screen was shown.                                           *)
Leave ==
  /\ pc = "leave"
  /\ soiled' = ~attached
  /\ late' = (srv = "show")
  /\ pc' = "cleaned"
  /\ UNCHANGED <<loopVars, ctx, envVars, conn, sharedVars, userVars, loaded, sessVars,
                 attached>>

Exit ==
  /\ pc = "cleaned"
  /\ pc' = "exit"
  /\ UNCHANGED <<loopVars, ctx, envVars, conn, sharedVars, userVars, loaded, sessVars,
                 termVars>>

-----------------------------------------------------------------------------
(* Goroutines of the session *)

(* A frame reaches the session, which hangs up on anything before Hello.    *)
WriteFrame ==
  /\ writer = "run" /\ out # <<>> /\ conn /\ peer # "mute" /\ ~Gone
  /\ LET f == Head(out)
         greeted == peerSize # NoSize \/ f.type = "Hello"
     IN /\ peerSize' = IF f.size # NoSize /\ greeted THEN f.size ELSE peerSize
        /\ conn' = greeted
  /\ out' = Tail(out)
  /\ UNCHANGED <<pc, loopVars, ctx, envVars, sharedVars, userVars, loaded, closed,
                 writer, hb, srv, termVars>>

WriterEnds ==
  /\ writer = "run" /\ ~Gone
  /\ \/ out # <<>> /\ ~conn
     \/ out = <<>> /\ closed
  /\ writer' = "done"
  /\ UNCHANGED <<pc, loopVars, ctx, envVars, conn, sharedVars, userVars, loaded, out,
                 closed, hb, srv, peerSize, termVars>>

(* The ticker found nothing sent for a while: send(Ping), which may block.  *)
HeartbeatPing ==
  /\ hb = "run" /\ (out = <<>> \/ peer = "mute") /\ ~SessionDone /\ ~Gone
  /\ hb' = "ping"
  /\ UNCHANGED <<pc, loopVars, ctx, envVars, conn, sharedVars, userVars, loaded, out,
                 closed, writer, srv, peerSize, termVars>>

(* A slip: the ping does not watch the session's context. *)
HeartbeatSendBlocks ==
  /\ hb = "ping" /\ ~Gone
  /\ Len(out) < OutCap /\ out' = Append(out, Ping)
  /\ hb' = "run"
  /\ UNCHANGED <<pc, loopVars, ctx, envVars, conn, sharedVars, userVars, loaded,
                 closed, writer, srv, peerSize, termVars>>

HeartbeatSend ==
  /\ hb = "ping" /\ ~Gone
  /\ \/ Len(out) < OutCap /\ out' = Append(out, Ping)
     \/ SessionDone /\ UNCHANGED out
  /\ hb' = "run"
  /\ UNCHANGED <<pc, loopVars, ctx, envVars, conn, sharedVars, userVars, loaded,
                 closed, writer, srv, peerSize, termVars>>

(* A slip: nobody looks at lastRecv. *)
HeartbeatEndsUnwatched ==
  /\ hb = "run" /\ SessionDone /\ ~Gone
  /\ hb' = "done"
  /\ UNCHANGED <<pc, loopVars, ctx, envVars, conn, sharedVars, userVars, loaded, out,
                 closed, writer, srv, peerSize, termVars>>

(* The session's end stops the heartbeat; the watchdog closes a connection  *)
(* on which nothing was received for attachHeartbeatTimeout.                *)
HeartbeatEnds ==
  /\ hb = "run" /\ (peer = "mute" \/ SessionDone) /\ ~Gone
  /\ conn' = (conn /\ peer # "mute")
  /\ hb' = "done"
  /\ UNCHANGED <<pc, loopVars, ctx, envVars, sharedVars, userVars, loaded, out,
                 closed, writer, srv, peerSize, termVars>>

(* ReadFrame: a Size or Pong only counts as activity, the snapshot and      *)
(* output go to the terminal, any other type is an error.                   *)
ReadFrame ==
  /\ srv = "read" /\ conn /\ peer = "up" /\ peerSize # NoSize /\ ~Gone
  /\ \/ srv' = "show" /\ attached' \in {attached, TRUE}
     \/ srv' = "done" /\ UNCHANGED attached
  /\ UNCHANGED <<pc, loopVars, ctx, envVars, conn, sharedVars, userVars, loaded, out,
                 closed, writer, hb, peerSize, soiled, late>>

(* The payload is written to the terminal, at any time later; an error      *)
(* of that write ends the server loop.                                      *)
ShowFrame ==
  /\ srv = "show" /\ ~Gone
  /\ soiled' = TRUE
  /\ srv' \in {"read", "done"}
  /\ UNCHANGED <<pc, loopVars, ctx, envVars, conn, sharedVars, userVars, loaded, out,
                 closed, writer, hb, peerSize, attached, late>>

ServerLoopEnds ==
  /\ srv = "read" /\ (~conn \/ SessionDone) /\ ~Gone
  /\ srv' = "done"
  /\ UNCHANGED <<pc, loopVars, ctx, envVars, conn, sharedVars, userVars, loaded, out,
                 closed, writer, hb, peerSize, termVars>>

-----------------------------------------------------------------------------
(* The user: keyboard, window and signals *)

(* A send captured for a session whose outCh is closed. *)
Orphaned(who) == who = "old" \/ (who = "cur" /\ closed)

(* The outcome of a captured send: the frame is queued, or the session's    *)
(* end is noticed; on a closed channel select may pick the send and panic,  *)
(* which ends the process without the deferred calls of runAttachLoop.      *)
SendOutcome(who, f) ==
  \/ /\ who = "cur" /\ ~closed /\ Len(out) < OutCap
     /\ out' = Append(out, f) /\ UNCHANGED pc
  \/ /\ who = "old" \/ SessionDone
     /\ UNCHANGED <<out, pc>>
  \/ /\ Orphaned(who)
     /\ pc' = "crash" /\ UNCHANGED out

(* A key for the remote is captured for the session; without one it only    *)
(* wakes the backoff.                                                       *)
PressKey ==
  /\ key = "idle" /\ fn = "cur" /\ ~ctx /\ ~Gone
  /\ key' = "cur"
  /\ UNCHANGED <<pc, loopVars, ctx, envVars, conn, sharedVars, winch, blind, size, loaded,
                 sessVars, win, wsz, termVars>>

SendKey ==
  /\ key \in {"cur", "old"} /\ ~Gone
  /\ SendOutcome(key, Input)
  /\ key' = IF pc' = "crash" THEN key ELSE "idle"
  /\ UNCHANGED <<loopVars, ctx, envVars, conn, sharedVars, winch, blind, size, loaded,
                 closed, writer, hb, srv, peerSize, win, wsz, termVars>>

(* <prefix>. *)
PressDetach ==
  /\ key = "idle" /\ pc # "start" /\ ~ctx /\ ~Gone
  /\ ctx' = TRUE
  /\ UNCHANGED <<pc, loopVars, envVars, conn, sharedVars, userVars, loaded, sessVars,
                 termVars>>

(* SIGINT, SIGTERM, SIGHUP *)
Signal ==
  /\ ~ctx /\ ~Gone
  /\ ctx' = TRUE
  /\ UNCHANGED <<pc, loopVars, envVars, conn, sharedVars, userVars, loaded, sessVars,
                 termVars>>

(* <prefix>c: ask for a clone; its key becomes the target ... *)
PressClone ==
  /\ key = "idle" /\ pc # "start" /\ target < MaxClones /\ ~ctx /\ ~Gone
  /\ key' = "clone"
  /\ UNCHANGED <<pc, loopVars, ctx, envVars, conn, sharedVars, winch, blind, size, loaded,
                 sessVars, win, wsz, termVars>>

CloneDial ==
  /\ key = "clone" /\ ~Gone
  /\ \/ Tunnelled /\ key' = "ask"
     \/ NotTunnelled /\ key' = "idle"
  /\ UNCHANGED <<pc, loopVars, ctx, peer, tty, conn, sharedVars, winch, blind, size,
                 loaded, sessVars, win, wsz, termVars>>

CloneAnswers ==
  /\ key = "ask" /\ ~Gone
  /\ \/ peer = "up" /\ tunnel /\ target' = target + 1 /\ key' = "mark"
     \/ (peer # "mute" \/ ~tunnel) /\ UNCHANGED target /\ key' = "idle"
  /\ UNCHANGED <<pc, code, reconnect, ctx, dialT, once, reached, stale, missed,
                 envVars, conn, sharedVars, winch, blind, size, loaded, sessVars, win, wsz,
                 termVars>>

(* A slip: the flag is set and the connection left open. *)
MarkSwitchedOpen ==
  /\ key = "mark" /\ ~Gone
  /\ switched' = TRUE
  /\ key' = "idle"
  /\ UNCHANGED <<pc, loopVars, ctx, envVars, conn, fn, winch, blind, size, loaded, sessVars,
                 win, wsz, termVars>>

(* ... and markSwitched closes the connection the loop is in. *)
MarkSwitched ==
  /\ key = "mark" /\ ~Gone
  /\ switched' = TRUE
  /\ conn' = (conn /\ fn = "none")
  /\ missed' = (missed \/ (fn = "none" /\ dialT # target
                            /\ pc \in {"dial", "upgrade", "connected", "open"}))
  /\ key' = "idle"
  /\ UNCHANGED <<pc, code, reconnect, ctx, target, dialT, once, reached, stale,
                 envVars, fn, winch, blind, size, loaded, sessVars, win, wsz, termVars>>

(* The window changes; the goroutine stores the size, then sends it.  The   *)
(* signal is ignored between the first reading of the size and Notify.      *)
ChangeWindow ==
  /\ tty < MaxSize /\ ~Gone
  /\ tty' = tty + 1 /\ winch' = (pc # "start") /\ blind' = (pc = "start")
  /\ UNCHANGED <<pc, loopVars, ctx, tunnel, peer, conn, sharedVars, size, loaded,
                 sessVars, key, win, wsz, termVars>>

StoreSize ==
  /\ win = "idle" /\ winch /\ ~ctx /\ ~Gone
  /\ winch' = FALSE /\ blind' = FALSE /\ size' = tty /\ wsz' = tty
  /\ win' = "stored"
  /\ UNCHANGED <<pc, loopVars, ctx, envVars, conn, sharedVars, loaded, sessVars, key,
                 termVars>>

CaptureSend ==
  /\ win = "stored" /\ ~Gone
  /\ win' = IF fn = "cur" THEN "cur" ELSE "idle"
  /\ wsz' = IF fn = "cur" THEN wsz ELSE NoSize
  /\ missed' = (missed \/ (fn = "none" /\ pc = "open" /\ loaded # size))
  /\ UNCHANGED <<pc, code, reconnect, ctx, target, dialT, once, reached, stale,
                 envVars, conn, sharedVars, winch, blind, size, loaded, sessVars, key,
                 termVars>>

SendSize ==
  /\ win \in {"cur", "old"} /\ ~Gone
  /\ SendOutcome(win, Size(wsz))
  /\ win' = IF pc' = "crash" THEN win ELSE "idle"
  /\ wsz' = IF pc' = "crash" THEN wsz ELSE NoSize
  /\ UNCHANGED <<loopVars, ctx, envVars, conn, sharedVars, winch, blind, size, loaded,
                 closed, writer, hb, srv, peerSize, key, termVars>>

-----------------------------------------------------------------------------
(* The other end *)

(* The session, the network or hoot serve changes; one that is down resets  *)
(* the connection.                                                          *)
PeerChanges(p) ==
  /\ p # peer /\ ~Gone
  /\ peer' = p
  /\ conn' = (conn /\ p # "down")
  /\ UNCHANGED <<pc, loopVars, ctx, tunnel, sharedVars, tty, userVars, loaded,
                 sessVars, termVars>>

(* ssh exits, after ServerAliveCountMax keepalives for instance. *)
TunnelDies ==
  /\ tunnel /\ ~Gone
  /\ tunnel' = FALSE /\ conn' = FALSE
  /\ UNCHANGED <<pc, loopVars, ctx, peer, sharedVars, tty, userVars, loaded, sessVars,
                 termVars>>

-----------------------------------------------------------------------------

(* runAttachLoop's beginning: termios raw, the restorer's Attach, the size  *)
(* of the window.                                                           *)
Init ==
  /\ pc = "start" /\ code = 0 /\ reconnect \in BOOLEAN /\ ctx = FALSE
  /\ target \in 0 .. MaxClones /\ dialT = target /\ once = FALSE /\ reached = FALSE
  /\ stale = FALSE /\ missed = FALSE /\ tunnel = FALSE /\ peer = "up"
  /\ conn = FALSE /\ fn = "none" /\ switched = FALSE
  /\ tty \in 1 .. MaxSize /\ winch = FALSE /\ blind = FALSE /\ size = tty /\ loaded = NoSize
  /\ out = <<>> /\ closed = FALSE /\ writer = "off" /\ hb = "off"
  /\ srv = "off" /\ peerSize = NoSize
  /\ key = "idle" /\ win = "idle" /\ wsz = NoSize
  /\ attached = FALSE /\ soiled = TRUE /\ late = FALSE

Loop ==
  Notify \/ NextRound \/ Dial \/ Upgrade \/ LoadSize \/ SetSend \/ SendHello \/ EndServe
  \/ JoinHeartbeat \/ JoinWriter \/ AfterSession \/ Backoff \/ Leave \/ Exit

Writer == WriteFrame \/ WriterEnds
Heartbeat == HeartbeatSend \/ HeartbeatEnds
Keyboard == SendKey \/ CloneDial \/ CloneAnswers \/ MarkSwitched
Window == StoreSize \/ CaptureSend \/ SendSize

Next ==
  \/ Loop \/ Writer \/ HeartbeatPing \/ Heartbeat
  \/ ReadFrame \/ ShowFrame \/ ServerLoopEnds
  \/ PressKey \/ PressDetach \/ Signal \/ PressClone \/ Keyboard
  \/ ChangeWindow \/ Window
  \/ (\E p \in {"up", "mute", "down"} : PeerChanges(p)) \/ TunnelDies

(* Goroutines that can run do, and time passes (backoff, watchdog).         *)
(* Nothing makes the user type, or the other end answer or recover.         *)
Fairness ==
  /\ WF_vars(Loop) /\ WF_vars(Writer) /\ WF_vars(Heartbeat)
  /\ WF_vars(ShowFrame \/ ServerLoopEnds) /\ WF_vars(Keyboard) /\ WF_vars(Window)

Spec == Init /\ [][Next]_vars
FairSpec == Spec /\ Fairness

-----------------------------------------------------------------------------

(* Waits that only the other end, or a signal, can finish: an upgrade that  *)
(* is not answered, a heartbeat and a Hello blocked on a full outCh.        *)
Stuck ==
  \/ pc = "upgrade" /\ peer = "mute"
  \/ pc = "serve" /\ hb = "ping" /\ Len(out) = OutCap
  \/ pc = "hello" /\ writer = "done" /\ Len(out) = OutCap

(* Once nothing is left to send, the session knows the size of the local    *)
(* terminal, across reconnects and however the window changed meanwhile;    *)
(* except for a change between the load of the size and setSend, and for    *)
(* one between the first reading of the size and signal.Notify.             *)
SizeCurrent ==
  /\ pc = "serve" /\ conn /\ out = <<>> /\ win = "idle" /\ ~winch /\ ~ctx
  /\ ~missed /\ ~blind
  => peerSize = tty

(* attach.go, "retries forever": with --reconnect, the client gives up with *)
(* exit code 1 only on a session it never reached; except when a switch     *)
(* made while disconnected is taken for a new one at the next drop.         *)
RetriesOn ==
  pc = "leave" /\ code = 1 /\ reconnect /\ ~stale => ~reached

(* <prefix>c: the client goes to the clone, unless the clone was made while *)
(* a connection was being set up.                                           *)
SwitchReaches ==
  (switched /\ dialT # target) ~> (dialT = target \/ Gone \/ missed \/ Stuck)

(* README.md, "<prefix>. detaches cleanly even mid-disconnect": the client  *)
(* leaves, even if the other end never answers again ...                    *)
DetachesCleanly == <>[](peer = "mute") => (ctx ~> Gone)

(* ... which holds for a detach and for signals, except while an upgrade is *)
(* under way that nobody answers.                                           *)
DetachLeaves == ctx ~> (Gone \/ (pc = "upgrade" /\ peer = "mute"))

(* The watchdog drops a connection whose other end fell silent, unless the  *)
(* heartbeat goroutine itself waits for room in outCh.                      *)
SilenceEnds ==
  (pc = "serve" /\ peer = "mute") ~> (pc # "serve" \/ peer # "mute" \/ Stuck)

(* If the other end stays up and ssh stops dying, a client that reconnects  *)
(* is connected again and again, whatever became of its earlier tunnels.    *)
Reconnects ==
  <>[](peer = "up") /\ <>[][~TunnelDies]_vars =>
     []<>(pc = "serve" \/ Gone \/ Stuck)

(* However the process ends, if it showed a screen it leaves the terminal   *)
(* as it found it; except that its server loop was in the middle of a frame *)
(* or that a send captured before clearSend met the closed outCh, the only  *)
(* way it can panic.                                                        *)
TerminalRestored ==
  Gone /\ attached /\ soiled =>
     late \/ (pc = "crash" /\ (Orphaned(key) \/ Orphaned(win)))

(* attach_restorer.go, "Cleanup is called exactly once at outer exit": the  *)
(* terminal is restored whatever the client was doing when the process went *)
(* away.                                                                    *)
CleanupAtExit == Gone /\ attached /\ ~late => ~soiled
=============================================================================
