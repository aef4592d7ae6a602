------------------------- MODULE AttachClientProofs -------------------------
(* Proofs about module AttachClient, for any capacity of outCh and any      *)
(* number of window sizes and clones, and about module ChordFSM, the        *)
(* keyboard the client reads.                                               *)
EXTENDS AttachClient, ChordFSM, TLAPS, SequenceTheorems

-----------------------------------------------------------------------------
(* The terminal *)

(* A connection is open only between the upgrade and the session's end, so  *)
(* that after the clean-up nothing more is read; a frame still in hand then *)
(* was noted.  A process that panicked did so in a send whose outCh was     *)
(* closed.                                                                  *)
CleanInv ==
  /\ conn => pc \in {"connected", "open", "hello", "serve", "crash"}
  /\ pc \in {"cleaned", "exit"} /\ attached /\ ~late => ~soiled /\ srv # "show"
  /\ pc = "crash" => Orphaned(key) \/ Orphaned(win)

(* Every step keeps CleanInv. *)
LEMMA CleanStep == CleanInv /\ [Next]_vars => CleanInv'
<1> SUFFICES ASSUME CleanInv, [Next]_vars PROVE CleanInv'
  OBVIOUS
<1> USE DEF CleanInv, loopVars, sharedVars, sessVars, termVars, userVars, envVars
<1>1. ASSUME Notify \/ NextRound \/ Dial PROVE CleanInv'
  BY <1>1 DEF Notify, NextRound, Dial, DialError
<1>2. ASSUME Upgrade PROVE CleanInv'
  BY <1>2 DEF Upgrade, DialError
<1>3. ASSUME LoadSize \/ SetSend \/ SendHello PROVE CleanInv'
  BY <1>3 DEF LoadSize, SetSend, SendHello
<1>4. ASSUME EndServe \/ JoinHeartbeat \/ JoinWriter PROVE CleanInv'
  BY <1>4 DEF EndServe, JoinHeartbeat, JoinWriter
<1>5. ASSUME AfterSession \/ Backoff PROVE CleanInv'
  BY <1>5 DEF AfterSession, Backoff
<1>6. ASSUME Leave \/ Exit PROVE CleanInv'
  <2>1. ASSUME Leave PROVE CleanInv'
    <3>1. pc = "leave" /\ pc' = "cleaned" /\ UNCHANGED <<conn, srv, attached>>
      BY <2>1 DEF Leave
    <3>2. (attached => ~soiled') /\ (srv = "show" => late')
      BY <2>1, Zenon DEF Leave
    <3> QED
      BY <3>1, <3>2
  <2>2. ASSUME Exit PROVE CleanInv'
    BY <2>2 DEF Exit
  <2> QED
    BY <1>6, <2>1, <2>2
<1>7. ASSUME WriteFrame \/ WriterEnds PROVE CleanInv'
  BY <1>7 DEF WriteFrame, WriterEnds, Gone
<1>8. ASSUME HeartbeatPing \/ HeartbeatSend \/ HeartbeatEnds PROVE CleanInv'
  <2>1. UNCHANGED <<pc, srv, attached, soiled, late>> /\ ~Gone
    BY <1>8 DEF HeartbeatPing, HeartbeatSend, HeartbeatEnds
  <2>2. HeartbeatEnds => conn' = (conn /\ peer # "mute")
    BY DEF HeartbeatEnds
  <2>3. conn' => conn
    BY <1>8, <2>2, Zenon DEF HeartbeatPing, HeartbeatSend
  <2> QED
    BY <2>1, <2>3 DEF Gone
<1>9. ASSUME ReadFrame PROVE CleanInv'
  BY <1>9 DEF ReadFrame, Gone
<1>10. ASSUME ShowFrame \/ ServerLoopEnds PROVE CleanInv'
  BY <1>10 DEF ShowFrame, ServerLoopEnds, Gone
<1>11. ASSUME PressKey \/ PressDetach \/ Signal \/ PressClone PROVE CleanInv'
  BY <1>11 DEF PressKey, PressDetach, Signal, PressClone, Gone
<1>12. ASSUME SendKey \/ SendSize PROVE CleanInv'
  <2>1. UNCHANGED <<conn, srv, attached, soiled, late, closed>> /\ ~Gone
        /\ (pc' = pc \/ pc' = "crash")
    BY <1>12 DEF SendKey, SendSize, SendOutcome
  <2>2. pc' = "crash" => UNCHANGED <<key, win>> /\ (Orphaned(key) \/ Orphaned(win))
    BY <1>12 DEF SendKey, SendSize, SendOutcome, Gone
  <2>3. pc' = "crash" => Orphaned(key)' \/ Orphaned(win)'
    BY <2>1, <2>2 DEF Orphaned
  <2> QED
    BY <2>1, <2>3 DEF Gone
<1>13. ASSUME CloneDial \/ CloneAnswers \/ MarkSwitched PROVE CleanInv'
  <2>1. UNCHANGED <<pc, srv, attached, soiled, late>> /\ ~Gone
    BY <1>13 DEF CloneDial, CloneAnswers, MarkSwitched
  <2>2. MarkSwitched => conn' = (conn /\ fn = "none")
    BY DEF MarkSwitched
  <2>3. conn' => conn
    BY <1>13, <2>2, Zenon DEF CloneDial, CloneAnswers
  <2> QED
    BY <2>1, <2>3 DEF Gone
<1>14. ASSUME ChangeWindow \/ StoreSize \/ CaptureSend PROVE CleanInv'
  BY <1>14 DEF ChangeWindow, StoreSize, CaptureSend, Gone
<1>15. ASSUME NEW p \in {"up", "mute", "down"}, PeerChanges(p) PROVE CleanInv'
  BY <1>15 DEF PeerChanges, Gone
<1>16. ASSUME TunnelDies PROVE CleanInv'
  BY <1>16 DEF TunnelDies, Gone
<1>17. CASE UNCHANGED vars
  BY <1>17 DEF vars, Orphaned
<1> QED
  BY <1>1, <1>2, <1>3, <1>4, <1>5, <1>6, <1>7, <1>8, <1>9, <1>10, <1>11, <1>12, <1>13, <1>14,
     <1>15, <1>16, <1>17
     DEF Next, Loop, Writer, Heartbeat, Keyboard, Window

(* Whatever became of its connections, and however the process ends: a      *)
(* client that showed a screen leaves the terminal as it found it, unless   *)
(* its server loop was in the middle of a frame or a send captured before   *)
(* clearSend met the closed outCh.                                          *)
THEOREM TerminalRestoredHolds == Spec => []TerminalRestored
<1>1. Init => CleanInv
  BY DEF Init, CleanInv
<1>2. CleanInv => TerminalRestored
  BY DEF CleanInv, TerminalRestored, Gone
<1> QED
  BY <1>1, <1>2, CleanStep, PTL DEF Spec

-----------------------------------------------------------------------------
(* Retrying *)

(* gotConnectedOnce is cleared only by a switch, and a switch to another    *)
(* target is a session that was not reached before; a switch taken for a    *)
(* new one is stale.                                                        *)
RetryInv ==
  /\ target \in Nat /\ dialT \in Nat /\ dialT <= target
  /\ pc = "backoff" => once
  /\ pc = "start" => ~reached
  /\ pc = "next" /\ ~once /\ reached /\ dialT = target => stale
  /\ pc \in {"dial", "upgrade"} /\ ~once /\ reached => stale
  /\ pc = "leave" /\ code = 1 /\ reconnect /\ reached => stale

(* Every step keeps RetryInv. *)
LEMMA RetryStep == RetryInv /\ [Next]_vars => RetryInv'
<1> SUFFICES ASSUME RetryInv, [Next]_vars PROVE RetryInv'
  OBVIOUS
<1> USE DEF RetryInv, loopVars, sharedVars, sessVars, termVars, userVars, envVars
<1>1. ASSUME NextRound PROVE RetryInv'
  <2>1. /\ pc = "next" /\ pc' = "dial" /\ dialT' = target
        /\ UNCHANGED <<target, once, stale, reconnect, code>>
    BY <1>1 DEF NextRound
  <2>2. reached' => reached /\ dialT = target
    BY <1>1, Zenon DEF NextRound
  <2> QED
    BY <2>1, <2>2
<1>2. ASSUME Notify \/ Dial PROVE RetryInv'
  BY <1>2 DEF Notify, Dial, DialError
<1>3. ASSUME Upgrade PROVE RetryInv'
  BY <1>3 DEF Upgrade, DialError
<1>4. ASSUME LoadSize \/ SetSend \/ SendHello \/ EndServe \/ JoinHeartbeat \/ JoinWriter
      PROVE RetryInv'
  BY <1>4 DEF LoadSize, SetSend, SendHello, EndServe, JoinHeartbeat, JoinWriter
<1>5. ASSUME AfterSession PROVE RetryInv'
  <2>1. /\ pc = "after" /\ UNCHANGED <<target, dialT, reached, reconnect>>
        /\ pc' = IF ctx \/ (~switched /\ ~reconnect) THEN "leave"
                 ELSE IF switched THEN "next" ELSE "backoff"
        /\ code' \in IF ctx \/ switched \/ reconnect THEN {0} ELSE {0, 1}
    BY <1>5 DEF AfterSession
  <2>2. (~ctx /\ ~switched => once') /\ (~ctx /\ switched /\ dialT = target => stale')
    <3>1. once' = (IF ctx THEN once ELSE ~switched)
      BY <1>5 DEF AfterSession
    <3>2. stale' = (~ctx /\ switched /\ dialT = target)
      BY <1>5 DEF AfterSession
    <3>3. ~ctx /\ ~switched => once'
      BY <3>1, Zenon
    <3>4. ~ctx /\ switched /\ dialT = target => stale'
      BY <3>2, Zenon
    <3> QED
      BY <3>3, <3>4
  <2> QED
    BY <2>1, <2>2
<1>6. ASSUME Backoff PROVE RetryInv'
  BY <1>6 DEF Backoff
<1>7. ASSUME Leave \/ Exit PROVE RetryInv'
  BY <1>7 DEF Leave, Exit
<1>8. ASSUME CloneAnswers PROVE RetryInv'
  BY <1>8 DEF CloneAnswers
<1>9. ASSUME UNCHANGED <<code, reconnect, target, dialT, once, reached, stale>>,
             pc' = pc \/ pc' = "crash"
      PROVE RetryInv'
  BY <1>9
<1>10. ASSUME \/ Writer \/ HeartbeatPing \/ Heartbeat \/ ReadFrame \/ ShowFrame
              \/ ServerLoopEnds \/ PressKey \/ PressDetach \/ Signal \/ PressClone
       PROVE RetryInv'
  BY <1>9, <1>10
     DEF Writer, WriteFrame, WriterEnds, HeartbeatPing, Heartbeat, HeartbeatSend, HeartbeatEnds,
         ReadFrame, ShowFrame, ServerLoopEnds, PressKey, PressDetach, Signal, PressClone
<1>11. ASSUME SendKey \/ CloneDial \/ MarkSwitched \/ ChangeWindow \/ Window PROVE RetryInv'
  BY <1>9, <1>11
     DEF SendKey, CloneDial, MarkSwitched, ChangeWindow, Window, StoreSize, CaptureSend, SendSize, SendOutcome
<1>12. ASSUME NEW p \in {"up", "mute", "down"}, PeerChanges(p) \/ TunnelDies PROVE RetryInv'
  BY <1>9, <1>12 DEF PeerChanges, TunnelDies
<1>13. CASE UNCHANGED vars
  BY <1>13 DEF vars
<1> QED
  BY <1>1, <1>2, <1>3, <1>4, <1>5, <1>6, <1>7, <1>8, <1>10, <1>11, <1>12, <1>13
     DEF Next, Loop, Keyboard

(* attach.go, "retries forever", for any number of drops, clones and failed *)
(* redials: with --reconnect the client gives up with exit code 1 only on a *)
(* session it never reached, or after a stale switch.                       *)
THEOREM RetriesOnHolds == Spec => []RetriesOn
<1>1. Init => RetryInv
  BY ClientAssumption DEF Init, RetryInv
<1>2. RetryInv => RetriesOn
  BY DEF RetryInv, RetriesOn
<1> QED
  BY <1>1, <1>2, RetryStep, PTL DEF Spec

-----------------------------------------------------------------------------
(* What a queue of frames ends with *)

Frame == [type : {"Hello", "Size", "Input", "Ping"}, size : Nat]

(* When all of q is written to a session that has size p, it has size z. *)
Ends(q, p, z) ==
  \/ p = z /\ \A j \in 1 .. Len(q) : q[j].size = NoSize
  \/ \E i \in 1 .. Len(q) :
       q[i].size = z /\ \A j \in 1 .. Len(q) : j > i => q[j].size = NoSize

(* The fields of the four kinds of frames. *)
LEMMA FramesAreFrames ==
  ASSUME NEW z \in Nat
  PROVE /\ Hello(z) \in Frame /\ Size(z) \in Frame /\ Input \in Frame /\ Ping \in Frame
        /\ Hello(z).size = z /\ Size(z).size = z /\ Input.size = NoSize /\ Ping.size = NoSize
        /\ Hello(z).type = "Hello"
        /\ Size(z).type # "Hello" /\ Input.type # "Hello" /\ Ping.type # "Hello"
BY DEF Hello, Size, Input, Ping, Frame, NoSize

(* A frame is put into outCh. *)
LEMMA Appending ==
  ASSUME NEW q \in Seq(Frame), NEW f \in Frame
  PROVE /\ Append(q, f) \in Seq(Frame) /\ Append(q, f) # <<>>
        /\ Len(Append(q, f)) = Len(q) + 1 /\ Append(q, f)[Len(q) + 1] = f
        /\ \A i \in 1 .. Len(q) : Append(q, f)[i] = q[i]
        /\ q # <<>> => Head(Append(q, f)) = Head(q)
        /\ q = <<>> => Head(Append(q, f)) = f
OBVIOUS

(* The oldest frame is taken out of outCh. *)
LEMMA Popping ==
  ASSUME NEW q \in Seq(Frame), q # <<>>
  PROVE /\ Head(q) \in Frame /\ Head(q) = q[1] /\ Len(q) \in Nat \ {0}
        /\ Tail(q) \in Seq(Frame) /\ Len(Tail(q)) = Len(q) - 1
        /\ \A i \in 1 .. Len(q) - 1 : Tail(q)[i] = q[i + 1]
OBVIOUS

(* With the newest size queued last, that is what the session ends up with. *)
LEMMA EndsWithSize ==
  ASSUME NEW q \in Seq(Frame), NEW f \in Frame, NEW p
  PROVE Ends(Append(q, f), p, f.size)
<1> DEFINE a == Append(q, f)
<1>1. Len(a) = Len(q) + 1 /\ a[Len(q) + 1] = f /\ Len(q) \in Nat
  BY Appending
<1> HIDE DEF a
<1>2. Len(a) \in 1 .. Len(a) /\ a[Len(a)].size = f.size
  BY <1>1
<1>3. \A j \in 1 .. Len(a) : ~(j > Len(a))
  BY <1>1
<1>4. Ends(a, p, f.size)
  BY <1>2, <1>3 DEF Ends
<1> QED
  BY <1>4 DEF a

(* A frame that tells no size changes nothing about that. *)
LEMMA EndsAsBefore ==
  ASSUME NEW q \in Seq(Frame), NEW f \in Frame, f.size = NoSize, NEW p, NEW z, Ends(q, p, z)
  PROVE Ends(Append(q, f), p, z)
<1> DEFINE a == Append(q, f)
<1>1. /\ Len(a) = Len(q) + 1 /\ a[Len(q) + 1] = f /\ Len(q) \in Nat
      /\ \A i \in 1 .. Len(q) : a[i] = q[i]
  BY Appending
<1> HIDE DEF a
<1>2. \A j \in 1 .. Len(a) : j \in 1 .. Len(q) \/ a[j] = f
  BY <1>1
<1>3. CASE p = z /\ \A j \in 1 .. Len(q) : q[j].size = NoSize
  BY <1>1, <1>2, <1>3 DEF Ends, a
<1>4. CASE \E i \in 1 .. Len(q) :
             q[i].size = z /\ \A j \in 1 .. Len(q) : j > i => q[j].size = NoSize
  <2>1. PICK i \in 1 .. Len(q) :
          q[i].size = z /\ \A j \in 1 .. Len(q) : j > i => q[j].size = NoSize
    BY <1>4
  <2>2. i \in 1 .. Len(a) /\ a[i].size = z
    BY <1>1, <2>1
  <2>3. \A j \in 1 .. Len(a) : j > i => a[j].size = NoSize
    BY <1>1, <1>2, <2>1
  <2>4. Ends(a, p, z)
    BY <2>2, <2>3 DEF Ends
  <2> QED
    BY <2>4 DEF a
<1> QED
  BY <1>3, <1>4 DEF Ends

(* Nor does writing the oldest frame to the session. *)
LEMMA EndsAfterWrite ==
  ASSUME NEW q \in Seq(Frame), q # <<>>, NEW p, NEW z, z # NoSize, Ends(q, p, z)
  PROVE Ends(Tail(q), IF Head(q).size # NoSize THEN Head(q).size ELSE p, z)
<1> DEFINE t == Tail(q)
           n == IF Head(q).size # NoSize THEN Head(q).size ELSE p
<1>1. /\ Head(q) = q[1] /\ Len(q) \in Nat \ {0} /\ Len(t) = Len(q) - 1
      /\ \A i \in 1 .. Len(q) - 1 : t[i] = q[i + 1]
  BY Popping
<1>2. n = IF q[1].size # NoSize THEN q[1].size ELSE p
  BY <1>1
<1> HIDE DEF t, n
<1>3. CASE p = z /\ \A j \in 1 .. Len(q) : q[j].size = NoSize
  <2>1. n = z /\ \A j \in 1 .. Len(t) : t[j].size = NoSize
    BY <1>1, <1>2, <1>3
  <2> QED
    BY <2>1 DEF Ends, t, n
<1>4. CASE \E i \in 1 .. Len(q) :
             q[i].size = z /\ \A j \in 1 .. Len(q) : j > i => q[j].size = NoSize
  <2>1. PICK i \in 1 .. Len(q) :
          q[i].size = z /\ \A j \in 1 .. Len(q) : j > i => q[j].size = NoSize
    BY <1>4
  <2>2. CASE i = 1 /\ z # NoSize
    <3>1. n = z /\ \A j \in 1 .. Len(t) : t[j].size = NoSize
      BY <1>1, <1>2, <2>1, <2>2
    <3> QED
      BY <3>1 DEF Ends, t, n
  <2>3. CASE i # 1
    <3>1. i - 1 \in 1 .. Len(t) /\ t[i - 1].size = z
      BY <1>1, <2>1, <2>3
    <3>2. \A j \in 1 .. Len(t) : j > i - 1 => t[j].size = NoSize
      BY <1>1, <2>1, <2>3
    <3>3. Ends(t, n, z)
      BY <3>1, <3>2 DEF Ends
    <3> QED
      BY <3>3 DEF t, n
  <2> QED
    BY <2>2, <2>3
<1> QED
  BY <1>3, <1>4 DEF Ends

-----------------------------------------------------------------------------
(* The window size *)

ClientType ==
  /\ tty \in Nat \ {NoSize} /\ size \in Nat \ {NoSize} /\ wsz \in Nat /\ loaded \in Nat
  /\ out \in Seq(Frame) /\ peerSize \in Nat
  /\ win \in {"idle", "stored", "cur", "old"}

(* Every step keeps the types. *)
LEMMA ClientTypeStep == ClientType /\ [Next]_vars => ClientType'
<1> SUFFICES ASSUME ClientType, [Next]_vars PROVE ClientType'
  OBVIOUS
<1> USE DEF ClientType, loopVars, sharedVars, sessVars, termVars, userVars, envVars
<1>1. ASSUME UNCHANGED <<tty, size, wsz, loaded, out, peerSize, win>> PROVE ClientType'
  BY <1>1
<1>2. ASSUME \/ Notify \/ NextRound \/ Dial \/ Upgrade \/ EndServe \/ JoinHeartbeat \/ Backoff
             \/ Leave \/ Exit
      PROVE ClientType'
  BY <1>1, <1>2 DEF Notify, NextRound, Dial, Upgrade, EndServe, JoinHeartbeat, Backoff, Leave, Exit
<1>3. ASSUME LoadSize \/ SetSend \/ JoinWriter \/ AfterSession PROVE ClientType'
  <2>1. <<>> \in Seq(Frame)
    OBVIOUS
  <2>2. LoadSize => ClientType'
    BY DEF LoadSize
  <2>3. SetSend => ClientType'
    BY <2>1 DEF SetSend, NoSize
  <2>4. JoinWriter => ClientType'
    BY <2>1 DEF JoinWriter
  <2>5. AfterSession => ClientType'
    BY DEF AfterSession, NoSize
  <2> QED
    BY <1>3, <2>2, <2>3, <2>4, <2>5
<1>4. ASSUME NEW f \in Frame, out' = Append(out, f), peerSize' = peerSize,
             UNCHANGED <<tty, size>>, wsz' \in Nat, loaded' \in Nat,
             win' \in {"idle", "stored", "cur", "old"}
      PROVE ClientType'
  BY <1>4, Appending
<1>5. ASSUME SendHello PROVE ClientType'
  <2>1. CASE out' = Append(out, Hello(loaded))
    BY <1>4, <1>5, <2>1, FramesAreFrames DEF SendHello, NoSize
  <2>2. CASE UNCHANGED out
    BY <1>5, <2>2 DEF SendHello, NoSize
  <2> QED
    BY <1>5, <2>1, <2>2 DEF SendHello
<1>6. ASSUME WriteFrame PROVE ClientType'
  <2>1. out # <<>> /\ Head(out) \in Frame /\ Tail(out) \in Seq(Frame)
    BY <1>6, Popping DEF WriteFrame
  <2>2. Head(out).size \in Nat
    BY <2>1 DEF Frame
  <2>3. out' = Tail(out) /\ peerSize' \in {peerSize, Head(out).size}
        /\ UNCHANGED <<tty, size, wsz, loaded, win>>
    BY <1>6 DEF WriteFrame
  <2> QED
    BY <2>1, <2>2, <2>3
<1>7. ASSUME HeartbeatSend \/ SendKey \/ SendSize PROVE ClientType'
  <2>1. UNCHANGED <<tty, size, loaded, peerSize>> /\ wsz' \in Nat
        /\ win' \in {"idle", "stored", "cur", "old"}
    BY <1>7 DEF HeartbeatSend, SendKey, SendSize, NoSize
  <2>2. \/ UNCHANGED out \/ out' = Append(out, Ping) \/ out' = Append(out, Input)
        \/ out' = Append(out, Size(wsz))
    BY <1>7 DEF HeartbeatSend, SendKey, SendSize, SendOutcome
  <2>3. Ping \in Frame /\ Input \in Frame /\ Size(wsz) \in Frame
    BY FramesAreFrames
  <2> QED
    BY <1>4, <2>1, <2>2, <2>3
<1>8. ASSUME \/ WriterEnds \/ HeartbeatPing \/ HeartbeatEnds \/ ReadFrame \/ ShowFrame
             \/ ServerLoopEnds \/ PressKey \/ PressDetach \/ Signal \/ PressClone \/ CloneDial
             \/ CloneAnswers \/ MarkSwitched
      PROVE ClientType'
  BY <1>1, <1>8 DEF WriterEnds, HeartbeatPing, HeartbeatEnds, ReadFrame, ShowFrame, ServerLoopEnds,
                    PressKey, PressDetach, Signal, PressClone, CloneDial, CloneAnswers,
                    MarkSwitched
<1>9. ASSUME ChangeWindow \/ StoreSize \/ CaptureSend PROVE ClientType'
  BY <1>9 DEF ChangeWindow, StoreSize, CaptureSend, NoSize
<1>10. ASSUME NEW p \in {"up", "mute", "down"}, PeerChanges(p) \/ TunnelDies PROVE ClientType'
  BY <1>1, <1>10 DEF PeerChanges, TunnelDies
<1>11. CASE UNCHANGED vars
  BY <1>1, <1>11 DEF vars
<1> QED
  BY <1>2, <1>3, <1>5, <1>6, <1>7, <1>8, <1>9, <1>10, <1>11
     DEF Next, Loop, Writer, Heartbeat, Keyboard, Window

(* A session's send is published from SetSend until the writer is joined. *)
Published ==
  /\ pc \in {"hello", "serve", "join", "drain"} => fn = "cur"
  /\ pc \notin {"hello", "serve", "join", "drain", "crash"} => fn = "none"

(* Every step keeps Published. *)
LEMMA PublishedStep == Published /\ [Next]_vars => Published'
<1> SUFFICES ASSUME Published, [Next]_vars PROVE Published'
  OBVIOUS
<1> USE DEF Published, loopVars, sharedVars, sessVars, termVars, userVars, envVars
<1>1. ASSUME Notify \/ NextRound \/ Dial \/ Upgrade \/ LoadSize \/ SetSend PROVE Published'
  BY <1>1 DEF Notify, NextRound, Dial, Upgrade, DialError, LoadSize, SetSend
<1>2. ASSUME SendHello \/ EndServe \/ JoinHeartbeat \/ JoinWriter PROVE Published'
  BY <1>2 DEF SendHello, EndServe, JoinHeartbeat, JoinWriter
<1>3. ASSUME AfterSession \/ Backoff \/ Leave \/ Exit PROVE Published'
  BY <1>3 DEF AfterSession, Backoff, Leave, Exit
<1>4. ASSUME UNCHANGED fn, pc' = pc \/ pc' = "crash" PROVE Published'
  BY <1>4
<1>5. ASSUME \/ Writer \/ HeartbeatPing \/ Heartbeat \/ ReadFrame \/ ShowFrame
             \/ ServerLoopEnds \/ PressKey \/ PressDetach \/ Signal \/ PressClone
       PROVE Published'
  BY <1>4, <1>5
     DEF Writer, WriteFrame, WriterEnds, HeartbeatPing, Heartbeat, HeartbeatSend, HeartbeatEnds,
         ReadFrame, ShowFrame, ServerLoopEnds, PressKey, PressDetach, Signal, PressClone
<1>6. ASSUME Keyboard \/ ChangeWindow \/ Window PROVE Published'
  BY <1>4, <1>6
     DEF Keyboard, SendKey, CloneDial, CloneAnswers, MarkSwitched, ChangeWindow, Window, StoreSize,
         CaptureSend, SendSize, SendOutcome
<1>7. ASSUME NEW p \in {"up", "mute", "down"}, PeerChanges(p) \/ TunnelDies PROVE Published'
  BY <1>4, <1>7 DEF PeerChanges, TunnelDies
<1>8. CASE UNCHANGED vars
  BY <1>8 DEF vars
<1> QED
  BY <1>1, <1>2, <1>3, <1>5, <1>6, <1>7, <1>8 DEF Next, Loop

(* The session hangs up on the next frame, which comes before Hello. *)
Doomed == peerSize = NoSize /\ out # <<>> /\ Head(out).type # "Hello"

(* Without a SIGWINCH to come the stored size is the terminal's, unless it  *)
(* changed before signal.Notify, and what the SIGWINCH goroutine sends is   *)
(* the stored size.                                                         *)
WindowInv ==
  /\ ~winch /\ ~blind => size = tty
  /\ win # "idle" => wsz = size

(* Before Hello the session knows no size and no Hello is queued. *)
HelloInv ==
  pc = "hello" => peerSize = NoSize /\ \A i \in 1 .. Len(out) : out[i].type # "Hello"

(* The size that was stored last is loaded for Hello, is on its way in      *)
(* outCh, or is about to be sent by the SIGWINCH goroutine; or the          *)
(* connection is about to be dropped, for the goroutine sent before Hello.  *)
OnItsWay ==
  ~missed /\ ~ctx =>
    /\ pc = "open" => loaded = size \/ win = "stored"
    /\ pc = "hello" /\ conn => loaded = size \/ win \in {"stored", "cur"} \/ out # <<>>
    /\ pc = "serve" /\ conn /\ ~Doomed => Ends(out, peerSize, size) \/ win \in {"stored", "cur"}

(* The inductive strengthening of SizeCurrent. *)
SizeInv == ClientType /\ Published /\ WindowInv /\ HelloInv /\ OnItsWay

(* Every step keeps WindowInv. *)
LEMMA WindowStep == ClientType /\ WindowInv /\ [Next]_vars => WindowInv'
<1> SUFFICES ASSUME ClientType, WindowInv, [Next]_vars PROVE WindowInv'
  OBVIOUS
<1> USE DEF WindowInv, loopVars, sharedVars, sessVars, termVars, userVars, envVars
<1>1. ASSUME UNCHANGED <<winch, blind, size, tty, wsz>>, win' = win \/ win # "idle" PROVE WindowInv'
  BY <1>1
<1>2. ASSUME Loop PROVE WindowInv'
  BY <1>1, <1>2
     DEF Loop, Notify, NextRound, Dial, Upgrade, LoadSize, SetSend, SendHello, EndServe, JoinHeartbeat,
         JoinWriter, AfterSession, Backoff, Leave, Exit
<1>3. ASSUME \/ Writer \/ HeartbeatPing \/ Heartbeat \/ ReadFrame \/ ShowFrame
             \/ ServerLoopEnds \/ PressKey \/ PressDetach \/ Signal \/ PressClone
      PROVE WindowInv'
  BY <1>1, <1>3
     DEF Writer, WriteFrame, WriterEnds, HeartbeatPing, Heartbeat, HeartbeatSend, HeartbeatEnds,
         ReadFrame, ShowFrame, ServerLoopEnds, PressKey, PressDetach, Signal, PressClone
<1>4. ASSUME Keyboard PROVE WindowInv'
  BY <1>1, <1>4 DEF Keyboard, SendKey, CloneDial, CloneAnswers, MarkSwitched
<1>5. ASSUME ChangeWindow PROVE WindowInv'
  <2>1. winch' = (pc # "start") /\ blind' = (pc = "start") /\ UNCHANGED <<win, wsz, size>>
    BY <1>5 DEF ChangeWindow
  <2>2. winch' \/ blind'
    BY <2>1, Zenon
  <2> QED
    BY <2>1, <2>2
<1>5a. ASSUME StoreSize \/ CaptureSend \/ SendSize PROVE WindowInv'
  BY <1>5a DEF StoreSize, CaptureSend, SendSize
<1>6. ASSUME NEW p \in {"up", "mute", "down"}, PeerChanges(p) \/ TunnelDies PROVE WindowInv'
  BY <1>1, <1>6 DEF PeerChanges, TunnelDies
<1>7. CASE UNCHANGED vars
  BY <1>1, <1>7 DEF vars
<1> QED
  BY <1>2, <1>3, <1>4, <1>5, <1>5a, <1>6, <1>7 DEF Next, Window

(* Steps that leave everything about the size alone, at most drop the       *)
(* connection, cancel the context or note a miss.                           *)
Aside ==
  /\ UNCHANGED <<size, loaded, win, out, peerSize>>
  /\ pc' \in {"hello", "serve", "open"} => pc' = pc
  /\ (conn' => conn) /\ (ctx => ctx') /\ (missed => missed')

(* A step aside keeps what is on its way to the session. *)
LEMMA AsideKeeps ==
  ASSUME HelloInv, OnItsWay, Aside
  PROVE HelloInv' /\ OnItsWay'
<1>1. Doomed' <=> Doomed
  BY DEF Aside, Doomed
<1>2. HelloInv'
  BY DEF HelloInv, Aside
<1>3. OnItsWay'
  BY <1>1 DEF OnItsWay, Aside
<1> QED
  BY <1>2, <1>3

(* The actions that are steps aside. *)
LEMMA AsideSteps ==
  ASSUME \/ Notify \/ EndServe \/ JoinHeartbeat \/ Backoff \/ Leave \/ Exit \/ Dial
         \/ WriterEnds \/ HeartbeatPing \/ HeartbeatEnds \/ ReadFrame \/ ShowFrame
         \/ ServerLoopEnds \/ PressKey \/ PressDetach \/ Signal \/ PressClone \/ CloneDial
         \/ CloneAnswers \/ MarkSwitched \/ ChangeWindow \/ TunnelDies
         \/ (\E p \in {"up", "mute", "down"} : PeerChanges(p))
  PROVE Aside
<1> USE DEF loopVars, sharedVars, sessVars, termVars, userVars, envVars
<1>1. UNCHANGED <<size, loaded, win, out, peerSize>>
  BY DEF Notify, EndServe, JoinHeartbeat, Backoff, Leave, Exit, Dial, WriterEnds, HeartbeatPing,
         HeartbeatEnds, ReadFrame, ShowFrame, ServerLoopEnds, PressKey, PressDetach, Signal,
         PressClone, CloneDial, CloneAnswers, MarkSwitched, ChangeWindow, TunnelDies, PeerChanges
<1>2. pc' \in {"hello", "serve", "open"} => pc' = pc
  BY DEF Notify, EndServe, JoinHeartbeat, Backoff, Leave, Exit, Dial, DialError, WriterEnds, HeartbeatPing,
         HeartbeatEnds, ReadFrame, ShowFrame, ServerLoopEnds, PressKey, PressDetach, Signal,
         PressClone, CloneDial, CloneAnswers, MarkSwitched, ChangeWindow, TunnelDies, PeerChanges
<1>3. \/ conn' = conn \/ conn' = FALSE \/ conn' = (conn /\ fn = "none")
      \/ conn' = (conn /\ peer # "mute")
      \/ \E p \in {"up", "mute", "down"} : conn' = (conn /\ p # "down")
  BY DEF Notify, EndServe, JoinHeartbeat, Backoff, Leave, Exit, Dial, WriterEnds, HeartbeatPing,
         HeartbeatEnds, ReadFrame, ShowFrame, ServerLoopEnds, PressKey, PressDetach, Signal,
         PressClone, CloneDial, CloneAnswers, MarkSwitched, ChangeWindow, TunnelDies, PeerChanges
<1>4. conn' => conn
  BY <1>3, Zenon
<1>5. ctx' = ctx \/ ctx' = TRUE
  BY DEF Notify, EndServe, JoinHeartbeat, Backoff, Leave, Exit, Dial, WriterEnds, HeartbeatPing,
         HeartbeatEnds, ReadFrame, ShowFrame, ServerLoopEnds, PressKey, PressDetach, Signal,
         PressClone, CloneDial, CloneAnswers, MarkSwitched, ChangeWindow, TunnelDies, PeerChanges
<1>6. missed' = missed \/ MarkSwitched
  BY DEF Notify, EndServe, JoinHeartbeat, Backoff, Leave, Exit, Dial, WriterEnds, HeartbeatPing,
         HeartbeatEnds, ReadFrame, ShowFrame, ServerLoopEnds, PressKey, PressDetach, Signal,
         PressClone, CloneDial, CloneAnswers, ChangeWindow, TunnelDies, PeerChanges
<1>7. MarkSwitched => (missed => missed')
  <2>1. MarkSwitched =>
          missed' = (missed \/ (fn = "none" /\ dialT # target
                                  /\ pc \in {"dial", "upgrade", "connected", "open"}))
    BY DEF MarkSwitched
  <2> QED
    BY <2>1, Zenon
<1>8. (ctx => ctx') /\ (missed => missed')
  BY <1>5, <1>6, <1>7
<1> QED
  BY <1>1, <1>2, <1>4, <1>8 DEF Aside

(* A frame other than Hello is queued. *)
LEMMA QueueKeeps ==
  ASSUME ClientType, HelloInv, OnItsWay, NEW f \in Frame, f.type # "Hello",
         out' = Append(out, f), UNCHANGED <<pc, size, loaded, peerSize, conn, ctx, missed>>,
         (f.size = NoSize /\ win' = win) \/ (f.size = size /\ win # "stored")
  PROVE HelloInv' /\ OnItsWay'
<1>1. /\ out' # <<>> /\ Len(out') = Len(out) + 1 /\ out'[Len(out) + 1] = f /\ Len(out) \in Nat
      /\ \A i \in 1 .. Len(out) : out'[i] = out[i]
      /\ out # <<>> => Head(out') = Head(out)
      /\ out = <<>> => Head(out') = f
  BY Appending DEF ClientType
<1>2. HelloInv'
  BY <1>1 DEF HelloInv
<1>3. Doomed => Doomed'
  BY <1>1 DEF Doomed
<1>4. ASSUME Ends(out, peerSize, size), f.size = NoSize PROVE Ends(out', peerSize', size')
  BY <1>4, EndsAsBefore DEF ClientType
<1>5. ASSUME f.size = size PROVE Ends(out', peerSize', size')
  <2>1. Ends(Append(out, f), peerSize, f.size)
    BY EndsWithSize DEF ClientType
  <2> QED
    BY <1>5, <2>1
<1>6. OnItsWay'
  BY <1>1, <1>3, <1>4, <1>5 DEF OnItsWay
<1> QED
  BY <1>2, <1>6

(* Every step keeps the newest size on its way to the session. *)
LEMMA WayStep ==
  ASSUME SizeInv, [Next]_vars
  PROVE HelloInv' /\ OnItsWay'
<1>0. ClientType /\ Published /\ WindowInv /\ HelloInv /\ OnItsWay
  BY DEF SizeInv
<1> USE DEF loopVars, sharedVars, sessVars, termVars, userVars, envVars
<1>1. ASSUME pc' \notin {"open", "hello", "serve"} PROVE HelloInv' /\ OnItsWay'
  BY <1>1 DEF HelloInv, OnItsWay
<1>2. ASSUME NextRound \/ Upgrade \/ JoinWriter \/ AfterSession PROVE HelloInv' /\ OnItsWay'
  BY <1>1, <1>2 DEF NextRound, Upgrade, DialError, JoinWriter, AfterSession
<1>3. ASSUME LoadSize PROVE HelloInv' /\ OnItsWay'
  <2>1. pc' = "open" /\ loaded' = size /\ size' = size
    BY <1>3 DEF LoadSize
  <2> QED
    BY <2>1 DEF HelloInv, OnItsWay
<1>4. ASSUME SetSend PROVE HelloInv' /\ OnItsWay'
  <2>1. /\ pc = "open" /\ pc' = "hello" /\ out' = <<>> /\ peerSize' = NoSize
        /\ UNCHANGED <<loaded, size, win, missed, ctx>>
    BY <1>4 DEF SetSend
  <2> QED
    BY <1>0, <2>1 DEF HelloInv, OnItsWay
<1>5. ASSUME SendHello PROVE HelloInv' /\ OnItsWay'
  <2>1. CASE pc' = "serve" /\ out' = Append(out, Hello(loaded))
    <3>1. pc = "hello" /\ UNCHANGED <<size, win, missed, ctx, conn, peerSize>>
      BY <1>5, <2>1 DEF SendHello
    <3>2. out \in Seq(Frame) /\ Hello(loaded) \in Frame /\ Hello(loaded).size = loaded
      BY <1>0, FramesAreFrames DEF ClientType
    <3>3. ASSUME out # <<>> PROVE Doomed'
      <4>1. Head(out') = Head(out) /\ out' # <<>>
        BY <2>1, <3>2, <3>3, Appending
      <4>2. Head(out) = out[1] /\ 1 \in 1 .. Len(out)
        BY <3>2, <3>3, Popping
      <4>3. peerSize = NoSize /\ out[1].type # "Hello"
        BY <1>0, <3>1, <4>2 DEF HelloInv
      <4> QED
        BY <3>1, <4>1, <4>2, <4>3 DEF Doomed
    <3>4. Ends(out', peerSize', loaded)
      BY <2>1, <3>2, EndsWithSize
    <3>5. ~missed /\ ~ctx /\ conn => loaded = size \/ win \in {"stored", "cur"} \/ out # <<>>
      BY <1>0, <3>1 DEF OnItsWay
    <3> QED
      BY <2>1, <3>1, <3>3, <3>4, <3>5 DEF HelloInv, OnItsWay
  <2> QED
    BY <1>1, <1>5, <2>1 DEF SendHello
<1>6. ASSUME WriteFrame PROVE HelloInv' /\ OnItsWay'
  <2> DEFINE f == Head(out)
  <2>1. /\ out # <<>> /\ out' = Tail(out) /\ UNCHANGED <<pc, size, loaded, win, missed, ctx>>
        /\ peerSize' = IF f.size # NoSize /\ (peerSize # NoSize \/ f.type = "Hello")
                       THEN f.size ELSE peerSize
        /\ conn' = (peerSize # NoSize \/ f.type = "Hello")
    BY <1>6 DEF WriteFrame
  <2>2. /\ out \in Seq(Frame) /\ f = out[1] /\ Len(out) \in Nat \ {0}
        /\ Len(out') = Len(out) - 1
        /\ \A i \in 1 .. Len(out) - 1 : out'[i] = out[i + 1]
    BY <1>0, <2>1, Popping DEF ClientType
  <2>3. conn' => (peerSize # NoSize \/ f.type = "Hello")
    BY <2>1, Zenon
  <2> HIDE DEF f
  <2>4. ASSUME pc = "hello" PROVE ~conn' /\ HelloInv'
    <3>1. peerSize = NoSize /\ \A i \in 1 .. Len(out) : out[i].type # "Hello"
      BY <1>0, <2>4 DEF HelloInv
    <3>2. f.type # "Hello"
      BY <2>2, <3>1
    <3>3. \A i \in 1 .. Len(out') : out'[i].type # "Hello"
      BY <2>2, <3>1
    <3> QED
      BY <2>1, <2>3, <3>1, <3>2, <3>3 DEF HelloInv
  <2>5. HelloInv'
    BY <2>1, <2>4 DEF HelloInv
  <2>6. ASSUME pc = "serve", conn', ~missed, ~ctx
        PROVE Ends(out', peerSize', size') \/ win' \in {"stored", "cur"}
    <3>1. peerSize # NoSize \/ f.type = "Hello"
      BY <2>3, <2>6
    <3>2. ~Doomed
      BY <3>1 DEF Doomed, f
    <3>3. Ends(out, peerSize, size) \/ win \in {"stored", "cur"}
      BY <1>0, <1>6, <2>6, <3>2 DEF OnItsWay, WriteFrame
    <3>4. peerSize' = IF Head(out).size # NoSize THEN Head(out).size ELSE peerSize
      BY <2>1, <3>1 DEF f
    <3>5. size # NoSize
      BY <1>0 DEF ClientType
    <3>6. Ends(out, peerSize, size) => Ends(out', peerSize', size)
      BY <2>1, <2>2, <3>4, <3>5, EndsAfterWrite
    <3> QED
      BY <2>1, <3>3, <3>6
  <2>7. pc = "open" => loaded = size \/ win = "stored" \/ missed \/ ctx
    BY <1>0 DEF OnItsWay
  <2>8. OnItsWay'
    BY <2>1, <2>4, <2>6, <2>7 DEF OnItsWay
  <2> QED
    BY <2>5, <2>8
<1>7. ASSUME HeartbeatSend \/ SendKey PROVE HelloInv' /\ OnItsWay'
  <2>1. UNCHANGED <<size, loaded, win, peerSize, conn, ctx, missed>>
    BY <1>7 DEF HeartbeatSend, SendKey
  <2>2. \/ UNCHANGED <<pc, out>> \/ pc' = "crash"
        \/ UNCHANGED pc /\ (out' = Append(out, Ping) \/ out' = Append(out, Input))
    BY <1>7 DEF HeartbeatSend, SendKey, SendOutcome
  <2>3. ASSUME NEW f \in {Ping, Input}, out' = Append(out, f), UNCHANGED pc
        PROVE HelloInv' /\ OnItsWay'
    <3>1. f \in Frame /\ f.size = NoSize /\ f.type # "Hello"
      BY FramesAreFrames
    <3> QED
      BY <1>0, <2>1, <2>3, <3>1, QueueKeeps
  <2>4. CASE UNCHANGED <<pc, out>>
    <3>1. Aside
      BY <2>1, <2>4 DEF Aside
    <3> QED
      BY <1>0, <3>1, AsideKeeps
  <2> QED
    BY <1>1, <2>2, <2>3, <2>4
<1>8. ASSUME StoreSize PROVE HelloInv' /\ OnItsWay'
  <2>1. win' = "stored" /\ UNCHANGED <<pc, out, peerSize>>
    BY <1>8 DEF StoreSize
  <2> QED
    BY <1>0, <2>1 DEF HelloInv, OnItsWay
<1>9. ASSUME CaptureSend PROVE HelloInv' /\ OnItsWay'
  <2>1. /\ win = "stored" /\ win' = IF fn = "cur" THEN "cur" ELSE "idle"
        /\ UNCHANGED <<pc, out, peerSize, size, loaded, ctx, conn>>
        /\ missed' = (missed \/ (fn = "none" /\ pc = "open" /\ loaded # size))
    BY <1>9 DEF CaptureSend
  <2>2. ~missed' => ~missed /\ ~(fn = "none" /\ pc = "open" /\ loaded # size)
    BY <2>1, Zenon
  <2>3. (pc \in {"hello", "serve"} => fn = "cur") /\ (pc = "open" => fn = "none")
    BY <1>0 DEF Published
  <2> QED
    BY <1>0, <2>1, <2>2, <2>3 DEF HelloInv, OnItsWay
<1>10. ASSUME SendSize PROVE HelloInv' /\ OnItsWay'
  <2>1. /\ win \in {"cur", "old"} /\ (pc' # "crash" => win' = "idle")
        /\ UNCHANGED <<size, loaded, peerSize, conn, ctx, missed>>
    BY <1>10 DEF SendSize
  <2>2. \/ out' = Append(out, Size(wsz)) /\ UNCHANGED pc
        \/ (win = "old" \/ SessionDone) /\ UNCHANGED <<out, pc>>
        \/ pc' = "crash"
    BY <1>10 DEF SendSize, SendOutcome
  <2>3. CASE out' = Append(out, Size(wsz)) /\ UNCHANGED pc
    <3>1. Size(wsz) \in Frame /\ Size(wsz).size = size /\ Size(wsz).type # "Hello"
      BY <1>0, <2>1, FramesAreFrames DEF ClientType, WindowInv
    <3> QED
      BY <1>0, <2>1, <2>3, <3>1, QueueKeeps
  <2>4. CASE (win = "old" \/ SessionDone) /\ UNCHANGED <<out, pc>>
    <3>1. win = "old" \/ ctx \/ pc \notin {"open", "hello", "serve"}
      BY <2>4 DEF SessionDone, Ended
    <3>2. Doomed' <=> Doomed
      BY <2>1, <2>4 DEF Doomed
    <3>3. HelloInv'
      BY <1>0, <2>1, <2>4 DEF HelloInv
    <3>4. OnItsWay'
      BY <1>0, <2>1, <2>4, <3>1, <3>2 DEF OnItsWay
    <3> QED
      BY <3>3, <3>4
  <2> QED
    BY <1>1, <2>2, <2>3, <2>4
<1>11. ASSUME Aside PROVE HelloInv' /\ OnItsWay'
  BY <1>0, <1>11, AsideKeeps
<1>12. CASE UNCHANGED vars
  BY <1>11, <1>12 DEF vars, Aside
<1> QED
  BY <1>2, <1>3, <1>4, <1>5, <1>6, <1>7, <1>8, <1>9, <1>10, <1>11, <1>12, AsideSteps
     DEF Next, Loop, Writer, Heartbeat, Keyboard, Window

(* For any capacity of outCh and any number of resizes, drops and redials:  *)
(* once nothing is left to send, the session knows the size of the local    *)
(* terminal, except for a change between the load of the size and setSend,  *)
(* or between the first reading of the size and signal.Notify.              *)
THEOREM SizeCurrentHolds == Spec => []SizeCurrent
<1>1. Init => SizeInv
  <2> SUFFICES ASSUME Init PROVE SizeInv
    OBVIOUS
  <2>1. ClientType
    BY ClientAssumption DEF Init, ClientType, NoSize
  <2>2. Published /\ WindowInv /\ HelloInv /\ OnItsWay
    BY DEF Init, Published, WindowInv, HelloInv, OnItsWay
  <2> QED
    BY <2>1, <2>2 DEF SizeInv
<1>2. SizeInv /\ [Next]_vars => SizeInv'
  BY ClientTypeStep, PublishedStep, WindowStep, WayStep DEF SizeInv
<1>3. SizeInv => SizeCurrent
  <2> SUFFICES ASSUME SizeInv, pc = "serve", conn, out = <<>>, win = "idle", ~winch, ~missed, ~ctx,
                      ~blind
               PROVE peerSize = tty
    BY DEF SizeCurrent
  <2>1. Ends(out, peerSize, size)
    BY DEF SizeInv, OnItsWay, Doomed
  <2>2. peerSize = size
    BY <2>1 DEF Ends
  <2> QED
    BY <2>2 DEF SizeInv, WindowInv
<1> QED
  BY <1>1, <1>2, <1>3, PTL DEF Spec

-----------------------------------------------------------------------------
(* The keyboard *)

(* What the user does with a key. *)
Events == {"press", "repeat", "release"}
(* A byte, or the parameters of a report. *)
Names == {"ESC", "[", "A", "u", "params", "C-^", "C-z", ".", "^", "c", "x"}
Codes == {"", "6"} \cup Keys
Symbol == [byte : Names,
           params : [cp : Codes, alt : Codes, ctrl : BOOLEAN, event : Events \cup {""}]]
(* The key readKeyEvent cannot tell from the beginning of another. *)
Escape == <<Byte("ESC")>>

(* What a key should lead to, and whether it is a prefix, where a says      *)
(* whether it follows one.                                                  *)
WantedAfter(a, k, e) ==
  IF Pressed(k, e) THEN IF a THEN Command(k) ELSE IF k = "prefix" THEN {"none"} ELSE {"forward"}
  ELSE IF a THEN {"none"} ELSE {"forward"}
PrefixAfter(a, k, e) == IF Pressed(k, e) THEN ~a /\ k = "prefix" ELSE a

(* The codepoints in the reports of a key. *)
Codepoints(k, a, b) ==
  IF k \in {"prefix", "^"} THEN (a = "6" /\ b \in {"", "^"}) \/ (a = "^" /\ b = "")
  ELSE a = k /\ b = ""

(* The byte of a key that has one. *)
ByteOf(k) == CASE k = "prefix" -> "C-^" [] k = "z" -> "C-z" [] k = "esc" -> "ESC" [] OTHER -> k

(* The three forms of a key: one byte, the arrow's three, and a report. *)
ByteForm(k, e, s) == k # "arrow" /\ e = "press" /\ s = <<Byte(ByteOf(k))>>
ArrowForm(k, s) == k = "arrow" /\ s = <<Byte("ESC"), Byte("["), Byte("A")>>
ReportForm(k, e, s) ==
  /\ k # "arrow" /\ (k = "^" => enc = "all")
  /\ \E a, b, ctrl, v :
       /\ s = CSIu(Report(a, b, ctrl, v)) /\ Codepoints(k, a, b)
       /\ ctrl \in BOOLEAN /\ (ctrl <=> k \in {"prefix", "z"})
       /\ v = e \/ (e = "press" /\ v = "")

(* The encodings of a key have one of the forms. *)
LEMMA KeyForms ==
  ASSUME NEW k \in Keys, NEW e \in Events, enc \in {"legacy", "some", "all"},
         NEW s \in Encodings(k, e)
  PROVE  ByteForm(k, e, s) \/ ArrowForm(k, s) \/ ReportForm(k, e, s)
<1>1. CASE enc = "legacy" \/ (enc = "some" /\ k \notin {"prefix", "z", "esc"})
  <2>1. e = "press" /\ s = Legacy(k)
    BY <1>1 DEF Encodings
  <2> QED
    BY <2>1 DEF Legacy, ByteForm, ArrowForm, ByteOf, Keys
<1>2. CASE ~(enc = "legacy" \/ (enc = "some" /\ k \notin {"prefix", "z", "esc"}))
  <2>1. PICK v : s \in Reports(k, v) /\ (v = e \/ (e = "press" /\ v = ""))
    BY <1>2 DEF Encodings
  <2>2. k = "^" => enc = "all"
    BY <1>2
  <2>3. ASSUME k # "arrow", NEW a, NEW b, NEW ctrl \in BOOLEAN, ctrl <=> k \in {"prefix", "z"},
               s = CSIu(Report(a, b, ctrl, v)), Codepoints(k, a, b)
        PROVE  ReportForm(k, e, s)
    BY <2>1, <2>2, <2>3, Zenon DEF ReportForm
  <2>4. CASE k \in {"prefix", "^"}
    <3> DEFINE ctrl == k = "prefix"
    <3>1. \/ s = CSIu(Report("6", "", ctrl, v)) \/ s = CSIu(Report("6", "^", ctrl, v))
          \/ s = CSIu(Report("^", "", ctrl, v))
      <4>1. PICK c \in {<<"6", "">>, <<"6", "^">>, <<"^", "">>} :
              s = CSIu(Report(c[1], c[2], ctrl, v))
        BY <2>1, <2>4, Zenon DEF Reports
      <4>2. /\ <<"6", "">>[1] = "6" /\ <<"6", "">>[2] = "" /\ <<"6", "^">>[1] = "6"
            /\ <<"6", "^">>[2] = "^" /\ <<"^", "">>[1] = "^" /\ <<"^", "">>[2] = ""
        OBVIOUS
      <4>3. c = <<"6", "">> \/ c = <<"6", "^">> \/ c = <<"^", "">>
        BY <4>1, Zenon
      <4> QED
        BY <4>1, <4>2, <4>3, Zenon
    <3>2. ctrl \in BOOLEAN /\ (ctrl <=> k \in {"prefix", "z"}) /\ k # "arrow"
      BY <2>4
    <3>3. Codepoints(k, "6", "") /\ Codepoints(k, "6", "^") /\ Codepoints(k, "^", "")
      BY <2>4 DEF Codepoints
    <3> HIDE DEF ctrl
    <3> QED
      BY <2>3, <3>1, <3>2, <3>3
  <2>5. CASE k \in {"z", "c"}
    <3> DEFINE ctrl == k = "z"
    <3>1. s = CSIu(Report(k, "", ctrl, v))
      BY <2>1, <2>5 DEF Reports
    <3>2. ctrl \in BOOLEAN /\ (ctrl <=> k \in {"prefix", "z"}) /\ k # "arrow"
      BY <2>5
    <3>3. Codepoints(k, k, "")
      BY <2>5 DEF Codepoints
    <3> HIDE DEF ctrl
    <3> QED
      BY <2>3, <3>1, <3>2, <3>3
  <2>6. CASE k = "arrow"
    BY <2>1, <2>6 DEF Reports, Legacy, ArrowForm
  <2>7. CASE k \notin {"prefix", "^", "z", "c", "arrow"}
    <3>1. s = CSIu(Report(k, "", FALSE, v))
      BY <2>1, <2>7 DEF Reports
    <3>2. FALSE \in BOOLEAN /\ (FALSE <=> k \in {"prefix", "z"}) /\ k # "arrow"
      BY <2>7
    <3>3. Codepoints(k, k, "")
      BY <2>7 DEF Codepoints
    <3> QED
      BY <2>3, <3>1, <3>2, <3>3
  <2> QED
    BY <2>4, <2>5, <2>6, <2>7
<1> QED
  BY <1>1, <1>2

(* The bytes of one symbol. *)
LEMMA OneByte ==
  ASSUME NEW x
  PROVE  /\ Len(<<x>>) = 1 /\ ~csiU(<<x>>)
         /\ \A y : Bytes(<<x>>) = <<y>> <=> x.byte = y
<1>1. Len(<<x>>) = 1 /\ ~csiU(<<x>>)
  BY DEF csiU
<1>2. Bytes(<<x>>) = <<x.byte>>
  BY <1>1 DEF Bytes
<1>3. \A y : <<x.byte>> = <<y>> <=> x.byte = y
  OBVIOUS
<1> QED
  BY <1>1, <1>2, <1>3

(* The bytes of more are not one. *)
LEMMA MoreBytes ==
  ASSUME NEW s, Len(s) \in Nat, Len(s) # 1, NEW y
  PROVE  Bytes(s) # <<y>>
<1> DEFINE n == Len(s)
<1>1. DOMAIN Bytes(s) = 1 .. n
  BY DEF Bytes
<1>2. DOMAIN <<y>> = 1 .. 1
  OBVIOUS
<1>3. 1 .. n # 1 .. 1
  <2>1. n \in Nat /\ n # 1
    OBVIOUS
  <2> HIDE DEF n
  <2>2. n = 0 => 1 \notin 1 .. n
    OBVIOUS
  <2>3. n > 1 => 2 \in 1 .. n
    BY <2>1
  <2>4. 1 \in 1 .. 1
    OBVIOUS
  <2>5. 2 \notin 1 .. 1
    OBVIOUS
  <2>6. n = 0 \/ n > 1
    BY <2>1
  <2> QED
    BY <2>2, <2>3, <2>4, <2>5, <2>6, Zenon
<1> QED
  BY <1>1, <1>2, <1>3, Zenon

(* The fields of a report. *)
Fields(s, a, b, ctrl, v) ==
  /\ Len(s) = 4 /\ csiU(s)
  /\ s[1] = Byte("ESC") /\ s[2] = Byte("[") /\ s[3].byte = "params" /\ s[4].byte = "u"
  /\ parseCSIuParams(s).cp = a /\ parseCSIuParams(s).alt = b
  /\ parseCSIuParams(s).ctrl = ctrl /\ parseCSIuParams(s).event = v

LEMMA ReportFields ==
  \A a, b, ctrl, v : Fields(CSIu(Report(a, b, ctrl, v)), a, b, ctrl, v)
<1> SUFFICES ASSUME NEW a, NEW b, NEW ctrl, NEW v
             PROVE  Fields(CSIu(Report(a, b, ctrl, v)), a, b, ctrl, v)
  OBVIOUS
<1> DEFINE s == CSIu(Report(a, b, ctrl, v))
<1>1. /\ Len(s) = 4 /\ s[1] = Byte("ESC") /\ s[2] = Byte("[")
      /\ s[3] = Report(a, b, ctrl, v) /\ s[4] = Byte("u")
  BY DEF CSIu
<1>2. s[4].byte = "u" /\ s[3].byte = "params"
  BY <1>1 DEF Byte, Report
<1>3. s[3].params = [cp |-> a, alt |-> b, ctrl |-> ctrl, event |-> v]
  BY <1>1 DEF Report
<1>4. Last(s) = s[4]
  BY <1>1 DEF Last
<1>5. csiU(s)
  BY <1>1, <1>2, <1>4 DEF csiU
<1>6. parseCSIuParams(s) = [cp |-> a, alt |-> b, ctrl |-> ctrl, event |-> v]
  BY <1>1, <1>3 DEF parseCSIuParams
<1>7. /\ parseCSIuParams(s).cp = a /\ parseCSIuParams(s).alt = b
      /\ parseCSIuParams(s).ctrl = ctrl /\ parseCSIuParams(s).event = v
  BY <1>6
<1> QED
  BY <1>1, <1>2, <1>5, <1>7, Zenon DEF Fields

(* What runChordFSM makes of a key. *)
Read(k, e, s) ==
  /\ isPrefixKey(s) <=> k = "prefix" /\ e = "press"
  /\ isCSIuRepeatOrRelease(s) <=> ~Pressed(k, e)
  /\ Pressed(k, e) => matchChord(s) \in Command(k)

(* One byte. *)
LEMMA ByteRead ==
  ASSUME NEW k \in Keys, NEW e \in Events, NEW s, ByteForm(k, e, s), k # "esc"
  PROVE  Read(k, e, s)
<1> DEFINE x == Byte(ByteOf(k))
<1>1. k # "arrow" /\ e = "press" /\ s = <<x>> /\ x.byte = ByteOf(k)
  BY DEF ByteForm, Byte
<1> HIDE DEF x
<1>2. ~csiU(s) /\ \A y : Bytes(s) = <<y>> <=> ByteOf(k) = y
  BY <1>1, OneByte
<1>3. ~isCSIuRepeatOrRelease(s) /\ Pressed(k, e)
  BY <1>1, <1>2 DEF isCSIuRepeatOrRelease, Pressed
<1>4. isPrefixKey(s) <=> ByteOf(k) = "C-^"
  BY <1>2 DEF isPrefixKey
<1>5. ByteOf(k) = "C-^" <=> k = "prefix"
  BY DEF ByteOf, Keys
<1>6. matchChord(s) = CASE ByteOf(k) = "." -> "detach"
            [] ByteOf(k) = "^" -> "literal"
            [] ByteOf(k) = "C-z" -> "suspend"
            [] ByteOf(k) = "c" -> "clone"
            [] OTHER -> "none"
  BY <1>2 DEF matchChord
<1>7. matchChord(s) \in Command(k)
  <2>1. CASE k = "."
    BY <1>6, <2>1 DEF ByteOf, Command
  <2>2. CASE k = "^"
    BY <1>6, <2>2 DEF ByteOf, Command
  <2>3. CASE k = "z"
    BY <1>6, <2>3 DEF ByteOf, Command
  <2>4. CASE k = "c"
    BY <1>6, <2>4 DEF ByteOf, Command
  <2>5. CASE k = "prefix"
    BY <1>6, <2>5 DEF ByteOf, Command
  <2>6. CASE k = "x"
    BY <1>6, <2>6 DEF ByteOf, Command
  <2> QED
    BY <1>1, <2>1, <2>2, <2>3, <2>4, <2>5, <2>6 DEF Keys
<1> QED
  BY <1>1, <1>3, <1>4, <1>5, <1>7 DEF Read

(* The arrow. *)
LEMMA ArrowRead ==
  ASSUME NEW k \in Keys, NEW e \in Events, NEW s, ArrowForm(k, s)
  PROVE  Read(k, e, s)
<1>1. s = <<Byte("ESC"), Byte("["), Byte("A")>> /\ k = "arrow"
  BY DEF ArrowForm
<1>2. Len(s) = 3 /\ Len(s) # 1 /\ Len(s) \in Nat /\ s[3] = Byte("A")
  BY <1>1
<1>3. s[3].byte = "A" /\ Last(s) = s[3]
  BY <1>2 DEF Byte, Last
<1>4. ~csiU(s)
  BY <1>3 DEF csiU
<1>5. \A y : Bytes(s) # <<y>>
  BY <1>2, MoreBytes
<1>6. ~isPrefixKey(s) /\ matchChord(s) = "none" /\ ~isCSIuRepeatOrRelease(s)
  BY <1>4, <1>5 DEF isPrefixKey, matchChord, isCSIuRepeatOrRelease
<1> QED
  BY <1>1, <1>6 DEF Read, Pressed, Command

(* A report. *)
LEMMA ReportRead ==
  ASSUME NEW k \in Keys, NEW e \in Events, NEW s, ReportForm(k, e, s)
  PROVE  Read(k, e, s)
<1>1. PICK a, b, ctrl, v :
        /\ s = CSIu(Report(a, b, ctrl, v)) /\ Codepoints(k, a, b)
        /\ ctrl \in BOOLEAN /\ (ctrl <=> k \in {"prefix", "z"})
        /\ v = e \/ (e = "press" /\ v = "")
  BY Zenon DEF ReportForm
<1> DEFINE p == parseCSIuParams(s)
<1>2. csiU(s) /\ p.cp = a /\ p.alt = b /\ p.ctrl = ctrl /\ p.event = v
  <2>1. s = CSIu(Report(a, b, ctrl, v))
    BY <1>1, Zenon
  <2>2. Fields(s, a, b, ctrl, v)
    BY ONLY <2>1, ReportFields, Zenon
  <2> QED
    BY <2>2, Zenon DEF Fields
<1> HIDE DEF p
<1>3. p.cp = a /\ p.alt = b /\ p.ctrl = ctrl /\ p.event = v
  BY <1>2, Zenon
<1>11. p.ctrl <=> k \in {"prefix", "z"}
  BY <1>1, <1>3, Zenon
<1>4. k # "arrow" /\ (k = "^" => enc = "all")
  BY DEF ReportForm
<1>5. isCSIuPress(s) <=> e = "press"
  BY <1>1, <1>2, <1>3 DEF isCSIuPress, Events, p
<1>6. isCSIuRepeatOrRelease(s) <=> e # "press"
  BY <1>1, <1>2, <1>3 DEF isCSIuRepeatOrRelease, Events, p
<1>7. Pressed(k, e) <=> e = "press"
  BY <1>4 DEF Pressed
<1>8. \/ /\ k \in {"prefix", "^"} /\ {p.cp, p.alt} \subseteq {"6", "^", ""}
         /\ {p.cp, p.alt} \cap {"6", "^"} # {}
      \/ k \notin {"prefix", "^"} /\ {p.cp, p.alt} = {k, ""}
  BY <1>1, <1>3 DEF Codepoints
<1>9. isPrefixKey(s) <=> k = "prefix" /\ e = "press"
  <2>1. isPrefixKey(s) <=> isCSIuPress(s) /\ p.ctrl /\ {p.cp, p.alt} \cap {"^", "6"} # {}
    BY <1>2 DEF isPrefixKey, prefixCodepoints, p
  <2> QED
    BY <1>5, <1>8, <1>11, <2>1 DEF Keys
<1>10. ASSUME e = "press" PROVE matchChord(s) \in Command(k)
  <2> DEFINE any(cps) == {p.cp, p.alt} \cap cps # {}
  <2>1. matchChord(s) =
          CASE ~isCSIuPress(s) -> "none"
            [] isCSIuPress(s) /\ any({"."}) /\ ~p.ctrl -> "detach"
            [] isCSIuPress(s) /\ any({"^", "6"}) /\ p.ctrl -> "literal"
            [] isCSIuPress(s) /\ any({"z", "Z"}) /\ p.ctrl -> "suspend"
            [] isCSIuPress(s) /\ any({"c", "C"}) /\ ~p.ctrl -> "clone"
            [] OTHER -> "none"
    BY <1>2 DEF matchChord, p
  <2>2. isCSIuPress(s)
    BY <1>5, <1>10
  <2>3. CASE k \in {"prefix", "^"}
    <3>1. ~any({"."}) /\ any({"^", "6"}) /\ ~any({"z", "Z"}) /\ ~any({"c", "C"})
      BY <1>8, <2>3
    <3>2. matchChord(s) \in {"literal", "none"}
      BY <2>1, <2>2, <3>1
    <3> QED
      BY <1>4, <2>3, <3>2 DEF Command
  <2>4. CASE k = "."
    <3>1. any({"."}) /\ ~any({"^", "6"}) /\ ~any({"z", "Z"}) /\ ~any({"c", "C"}) /\ ~p.ctrl
      BY <1>8, <1>11, <2>4
    <3> QED
      BY <2>1, <2>2, <2>4, <3>1 DEF Command
  <2>5. CASE k = "z"
    <3>1. ~any({"."}) /\ ~any({"^", "6"}) /\ any({"z", "Z"}) /\ ~any({"c", "C"}) /\ p.ctrl
      BY <1>8, <1>11, <2>5
    <3> QED
      BY <2>1, <2>2, <2>5, <3>1 DEF Command
  <2>6. CASE k = "c"
    <3>1. ~any({"."}) /\ ~any({"^", "6"}) /\ ~any({"z", "Z"}) /\ any({"c", "C"}) /\ ~p.ctrl
      BY <1>8, <1>11, <2>6
    <3> QED
      BY <2>1, <2>2, <2>6, <3>1 DEF Command
  <2>7. CASE k \in {"x", "esc"}
    <3>1. ~any({"."}) /\ ~any({"^", "6"}) /\ ~any({"z", "Z"}) /\ ~any({"c", "C"})
      BY <1>8, <2>7
    <3> QED
      BY <2>1, <2>2, <2>7, <3>1 DEF Command
  <2> QED
    BY <1>4, <2>3, <2>4, <2>5, <2>6, <2>7 DEF Keys
<1> QED
  BY <1>6, <1>7, <1>9, <1>10 DEF Read

(* The symbols of the keys. *)
LEMMA SymbolTyped ==
  /\ \A b \in Names : Byte(b) \in Symbol
  /\ \A a, b \in Codes, ctrl \in BOOLEAN, v \in Events \cup {""} : Report(a, b, ctrl, v) \in Symbol
<1>1. NoParams \in [cp : Codes, alt : Codes, ctrl : BOOLEAN, event : Events \cup {""}]
  BY DEF NoParams, Codes
<1>2. ASSUME NEW b \in Names PROVE Byte(b) \in Symbol
  BY <1>1 DEF Byte, Symbol
<1>3. ASSUME NEW a \in Codes, NEW b \in Codes, NEW ctrl \in BOOLEAN, NEW v \in Events \cup {""}
      PROVE  Report(a, b, ctrl, v) \in Symbol
  <2>1. [cp |-> a, alt |-> b, ctrl |-> ctrl, event |-> v]
          \in [cp : Codes, alt : Codes, ctrl : BOOLEAN, event : Events \cup {""}]
    OBVIOUS
  <2>2. "params" \in Names
    BY DEF Names
  <2> QED
    BY <2>1, <2>2 DEF Report, Symbol
<1> QED
  BY <1>2, <1>3

(* Bytes that are parts of no other key. *)
Plain(s) == \A i \in 1 .. Len(s) : s[i].byte \notin {"ESC", "C-^"}

(* The beginning of an escape sequence is no key. *)
LEMMA PartRead ==
  ASSUME NEW s \in Seq(Symbol), Len(s) > 2, s[1].byte = "ESC", s[2].byte = "[",
         s[3].byte \notin {"A", "u", "c", "x", "^"} \/ Len(s) = 3, Len(s) < 5,
         NEW m \in 1 .. Len(s), m < Len(s)
  PROVE  ~Complete(SubSeq(s, 1, m))
<1> DEFINE q == SubSeq(s, 1, m)
<1>1. Len(q) = m /\ \A i \in 1 .. m : q[i] = s[i]
  OBVIOUS
<1> HIDE DEF q
<1>2. q[1].byte = "ESC"
  BY <1>1
<1>3. m = 1 \/ (m = 2 /\ q[2].byte = "[") \/ (m = 3 /\ q[3].byte \notin {"A", "u", "c", "x", "^"})
  <2> DEFINE n == Len(s)
  <2>0. n \in Nat /\ m \in 1 .. n /\ m < n /\ n < 5
    OBVIOUS
  <2> HIDE DEF n
  <2>1. m = 1 \/ m = 2 \/ (m = 3 /\ n = 4)
    BY ONLY <2>0
  <2>2. m = 2 => q[2] = s[2]
    BY <1>1
  <2>3. m = 3 => q[3] = s[3]
    BY <1>1
  <2>4. n = 4 => s[3].byte \notin {"A", "u", "c", "x", "^"}
    BY DEF n
  <2> QED
    BY <2>1, <2>2, <2>3, <2>4, Zenon
<1>4. Last(q) = q[m]
  BY <1>1 DEF Last
<1>5. ~Complete(q)
  BY <1>1, <1>2, <1>3, <1>4 DEF Complete
<1> QED
  BY <1>5 DEF q

(* How a key is read: only its last byte completes it, unless it is the     *)
(* escape; and behind an escape its bytes are keys of their own.            *)
LEMMA KeyRead ==
  ASSUME NEW k \in Keys, NEW e \in Events, enc \in {"legacy", "some", "all"},
         NEW s \in Encodings(k, e)
  PROVE  /\ s \in Seq(Symbol) /\ Len(s) > 0
         /\ s[1].byte # "[" /\ \A i \in 2 .. Len(s) : s[i].byte \notin {"ESC", "C-^"}
         /\ \A m \in 1 .. Len(s) : m < Len(s) => ~Complete(SubSeq(s, 1, m))
         /\ \/ s = Escape /\ k = "esc" /\ e = "press" /\ ~Complete(s)
            \/ s # Escape /\ Complete(s) /\ Read(k, e, s)
<1>1. CASE ByteForm(k, e, s)
  <2>1. /\ s = <<Byte(ByteOf(k))>> /\ ByteOf(k) \in Names \ {"["} /\ e = "press"
        /\ ByteOf(k) = "ESC" <=> k = "esc"
    BY <1>1 DEF ByteForm, ByteOf, Names, Keys
  <2>2. Len(s) = 1 /\ s[1] = Byte(ByteOf(k)) /\ s \in Seq(Symbol)
    <3> DEFINE x == Byte(ByteOf(k))
    <3>1. x \in Symbol
      BY <2>1, SymbolTyped
    <3>2. s = <<x>>
      BY <2>1
    <3> HIDE DEF x
    <3>3. Len(s) = 1 /\ s[1] = x /\ s \in Seq(Symbol)
      BY <3>1, <3>2
    <3> QED
      BY <3>3 DEF x
  <2>3. s[1].byte = ByteOf(k)
    BY <2>2 DEF Byte
  <2>4. CASE k = "esc"
    <3>1. s = Escape
      BY <2>1, <2>4 DEF Escape
    <3>2. ~Complete(s)
      BY <2>1, <2>2, <2>3, <2>4 DEF Complete
    <3> QED
      BY <2>1, <2>2, <2>3, <2>4, <3>1, <3>2
  <2>5. CASE k # "esc"
    <3>1. s # Escape
      BY <2>1, <2>2, <2>3, <2>5 DEF Escape, Byte
    <3>2. Complete(s)
      BY <2>1, <2>3, <2>5 DEF Complete
    <3>3. Read(k, e, s)
      BY <1>1, <2>5, ByteRead
    <3> QED
      BY <2>1, <2>2, <2>3, <3>1, <3>2, <3>3
  <2> QED
    BY <2>4, <2>5
<1>2. CASE ArrowForm(k, s)
  <2>1. s = <<Byte("ESC"), Byte("["), Byte("A")>>
    BY <1>2 DEF ArrowForm
  <2>2. /\ Len(s) = 3 /\ s[1].byte = "ESC" /\ s[2].byte = "[" /\ s[3].byte = "A"
        /\ s \in Seq(Symbol)
    <3>1. Byte("ESC") \in Symbol /\ Byte("[") \in Symbol /\ Byte("A") \in Symbol
      BY SymbolTyped DEF Names
    <3>2. s \in Seq(Symbol) /\ Len(s) = 3
      BY <2>1, <3>1
    <3>3. s[1] = Byte("ESC") /\ s[2] = Byte("[") /\ s[3] = Byte("A")
      BY <2>1
    <3> QED
      BY <3>2, <3>3 DEF Byte
  <2>3. Complete(s) /\ s # Escape
    BY <2>2 DEF Complete, Last, Escape
  <2>4. Read(k, e, s)
    BY <1>2, ArrowRead
  <2>5. ASSUME NEW m \in 1 .. Len(s), m < Len(s) PROVE ~Complete(SubSeq(s, 1, m))
    <3>1. Len(s) > 2 /\ Len(s) < 5
      BY <2>2
    <3> QED
      BY <2>2, <2>5, <3>1, PartRead
  <2> QED
    BY <2>2, <2>3, <2>4, <2>5
<1>3. CASE ReportForm(k, e, s)
  <2>1. PICK a, b, ctrl, v :
          /\ s = CSIu(Report(a, b, ctrl, v)) /\ Codepoints(k, a, b)
          /\ ctrl \in BOOLEAN /\ (ctrl <=> k \in {"prefix", "z"})
          /\ v = e \/ (e = "press" /\ v = "")
    BY <1>3, Zenon DEF ReportForm
  <2>2. /\ Len(s) = 4 /\ s[1] = Byte("ESC") /\ s[2] = Byte("[") /\ s[3].byte = "params"
        /\ s[4].byte = "u"
    <3>1. s = CSIu(Report(a, b, ctrl, v))
      BY <2>1, Zenon
    <3>2. Fields(s, a, b, ctrl, v)
      BY ONLY <3>1, ReportFields, Zenon
    <3> QED
      BY <3>2, Zenon DEF Fields
  <2>3. s \in Seq(Symbol)
    <3>1. a \in Codes /\ b \in Codes /\ v \in Events \cup {""}
      BY <2>1 DEF Codepoints, Codes, Keys
    <3>2. /\ Byte("ESC") \in Symbol /\ Byte("[") \in Symbol /\ Byte("u") \in Symbol
          /\ Report(a, b, ctrl, v) \in Symbol
      BY <2>1, <3>1, SymbolTyped DEF Names
    <3> DEFINE r == Report(a, b, ctrl, v)
    <3> HIDE DEF r
    <3>3. s = <<Byte("ESC"), Byte("["), r, Byte("u")>> /\ r \in Symbol
      BY <2>1, <3>2 DEF CSIu, r
    <3> QED
      BY <3>2, <3>3
  <2>4. s[1].byte = "ESC" /\ s[2].byte = "["
    BY <2>2 DEF Byte
  <2>5. Complete(s) /\ s # Escape
    BY <2>2, <2>4 DEF Complete, Last, Escape
  <2>6. Read(k, e, s)
    BY <1>3, ReportRead
  <2>7. ASSUME NEW m \in 1 .. Len(s), m < Len(s) PROVE ~Complete(SubSeq(s, 1, m))
    <3>1. Len(s) > 2 /\ Len(s) < 5 /\ s[3].byte \notin {"A", "u", "c", "x", "^"}
      BY <2>2
    <3> QED
      BY <2>3, <2>4, <2>7, <3>1, PartRead
  <2> QED
    BY <2>2, <2>3, <2>4, <2>5, <2>6, <2>7
<1> QED
  BY <1>1, <1>2, <1>3, KeyForms

(* A key that is being read. *)
Fresh ==
  /\ ~returned /\ did = "none" /\ fwd = <<>>
  /\ \E n \in Nat : /\ n < Len(typed)
                    /\ raw = SubSeq(typed, 1, n) /\ input = SubSeq(typed, n + 1, Len(typed))
  /\ \E k \in Keys, e \in Events :
       /\ typed \in Encodings(k, e)
       /\ want = WantedAfter(after, k, e) /\ (ref <=> PrefixAfter(after, k, e))

(* A key behind an escape: its first byte goes with the escape, and the     *)
(* others are keys of their own.                                            *)
Swallowing ==
  /\ ~returned /\ want = {"forward", "none"} /\ ~ref /\ input # <<>>
  /\ \/ raw = Escape /\ did = "none" /\ Head(input).byte # "[" /\ Plain(Tail(input))
     \/ raw = <<>> /\ ~after /\ did \in want /\ Plain(input)

(* A key that was read, or an escape that is held. *)
Settled ==
  /\ input = <<>>
  /\ \/ /\ raw = <<>> /\ did \in want
        /\ want = {"forward"} => fwd = typed
        /\ ~returned => (after <=> ref)
     \/ /\ raw = Escape /\ typed = raw /\ ~returned /\ did = "none" /\ fwd = <<>>
        /\ want = IF after THEN {"none"} ELSE {"forward"}

KeyTypes ==
  /\ enc \in {"legacy", "some", "all"}
  /\ input \in Seq(Symbol) /\ raw \in Seq(Symbol) /\ typed \in Seq(Symbol)
  /\ after \in BOOLEAN /\ ref \in BOOLEAN /\ returned \in BOOLEAN

KeyInv == KeyTypes /\ (Fresh \/ Swallowing \/ Settled)

(* Reading one more symbol. *)
LEMMA OneMore ==
  ASSUME NEW S, NEW t \in Seq(S), NEW n \in Nat, n < Len(t)
  PROVE  /\ SubSeq(t, n + 1, Len(t)) # <<>>
         /\ Head(SubSeq(t, n + 1, Len(t))) = t[n + 1]
         /\ Append(SubSeq(t, 1, n), t[n + 1]) = SubSeq(t, 1, n + 1)
         /\ Tail(SubSeq(t, n + 1, Len(t))) = SubSeq(t, n + 2, Len(t))
         /\ n + 1 = Len(t) => SubSeq(t, 1, n + 1) = t /\ SubSeq(t, n + 2, Len(t)) = <<>>
         /\ SubSeq(t, 1, n + 1) \in Seq(S)
<1> DEFINE r == SubSeq(t, n + 1, Len(t))
<1> DEFINE l == Len(t)
<1>1. l \in Nat /\ n < l
  OBVIOUS
<1>2. n + 1 \in 1 .. l /\ l \in (n + 1) .. l /\ (n + 1) + 1 = n + 2 /\ 0 # l - n
  <2> HIDE DEF l
  <2> QED
    BY <1>1
<1>3. Head(r) = t[n + 1] /\ Tail(r) = SubSeq(t, (n + 1) + 1, l)
  BY <1>2, HeadTailOfSubSeq, Zenon
<1>4. r # <<>>
  <2>1. Len(r) = l - n
    OBVIOUS
  <2>2. Len(<<>>) = 0
    OBVIOUS
  <2> HIDE DEF r
  <2> QED
    BY <1>2, <2>1, <2>2, Zenon
<1>5. Append(SubSeq(t, 1, n), t[n + 1]) = SubSeq(t, 1, n + 1)
  OBVIOUS
<1>6. n + 1 = l => SubSeq(t, 1, n + 1) = t /\ SubSeq(t, n + 2, l) = <<>>
  OBVIOUS
<1>7. SubSeq(t, 1, n + 1) \in Seq(S)
  OBVIOUS
<1> QED
  BY <1>2, <1>3, <1>4, <1>5, <1>6, <1>7, Zenon

(* Reading the first of several symbols. *)
LEMMA FirstOff ==
  ASSUME NEW S, NEW t \in Seq(S), t # <<>>
  PROVE  /\ Head(t) = t[1] /\ Head(t) \in S /\ Tail(t) \in Seq(S)
         /\ Len(Tail(t)) = Len(t) - 1 /\ Len(t) \in Nat /\ Len(t) > 0
         /\ \A i \in 1 .. Len(t) - 1 : Tail(t)[i] = t[i + 1]
OBVIOUS

(* A symbol behind a complete key, and one behind the escape. *)
LEMMA AppendTo ==
  ASSUME NEW x
  PROVE  /\ Append(<<>>, x) = <<x>>
         /\ Append(Escape, x) = <<Byte("ESC"), x>>
<1>1. ASSUME NEW b PROVE Append(<<b>>, x) = <<b, x>>
  <2> DEFINE u == Append(<<b>>, x)
  <2>1. <<b>> \in Seq({b, x}) /\ Len(<<b>>) = 1 /\ <<b>>[1] = b
    OBVIOUS
  <2>2. u \in Seq({b, x}) /\ Len(u) = 2 /\ u[1] = b /\ u[2] = x
    BY <2>1, AppendProperties
  <2>3. <<b, x>> \in Seq({b, x}) /\ Len(<<b, x>>) = 2 /\ <<b, x>>[1] = b /\ <<b, x>>[2] = x
    OBVIOUS
  <2> HIDE DEF u
  <2>4. \A i \in 1 .. Len(u) : u[i] = <<b, x>>[i]
    BY <2>2, <2>3
  <2>5. u = <<b, x>>
    BY <2>2, <2>3, <2>4, SeqEqual, Zenon
  <2> QED
    BY <2>5 DEF u
<1>2. Append(<<>>, x) = <<x>>
  OBVIOUS
<1> QED
  BY <1>1, <1>2, Zenon DEF Escape

(* A key that was read to its end leads to what is wanted. *)
LEMMA HandleRight ==
  ASSUME NEW k \in Keys, NEW e \in Events, NEW s \in Seq(Symbol), Read(k, e, s),
         after \in BOOLEAN, ref \in BOOLEAN, returned \in BOOLEAN, ~returned,
         did = "none", fwd = <<>>,
         want = WantedAfter(after, k, e), ref <=> PrefixAfter(after, k, e),
         Handle(s)
  PROVE  /\ did' \in want /\ (want = {"forward"} => fwd' = s)
         /\ ~returned' => (after' <=> ref)
         /\ after' \in BOOLEAN /\ returned' \in BOOLEAN
<1>1. fwd \o s = s
  <2>1. <<>> \o s = s
    BY ConcatEmptySeq, Zenon
  <2> QED
    BY <2>1
<1>2. /\ isPrefixKey(s) <=> k = "prefix" /\ e = "press"
      /\ isCSIuRepeatOrRelease(s) <=> ~Pressed(k, e)
      /\ Pressed(k, e) => matchChord(s) \in Command(k)
  BY DEF Read
<1>3. CASE ~after /\ isPrefixKey(s)
  <2>1. after' = TRUE /\ did' = did /\ returned' = returned /\ fwd' = fwd
    BY <1>3 DEF Handle
  <2>2. k = "prefix" /\ Pressed(k, e)
    BY <1>2, <1>3 DEF Pressed
  <2>3. want = {"none"} /\ ref
    BY <1>3, <2>2 DEF WantedAfter, PrefixAfter
  <2>4. did' \in want /\ want # {"forward"}
    BY <2>1, <2>3
  <2> QED
    BY <2>1, <2>3, <2>4, Zenon
<1>4. CASE ~after /\ ~isPrefixKey(s)
  <2>1. did' = "forward" /\ fwd' = s /\ after' = after /\ returned' = returned
    BY <1>1, <1>4 DEF Handle
  <2>2. ~(k = "prefix" /\ Pressed(k, e))
    BY <1>2, <1>4 DEF Pressed
  <2>3. want = {"forward"} /\ ~ref
    BY <1>4, <2>2 DEF WantedAfter, PrefixAfter
  <2>4. did' \in want
    BY <2>1, <2>3
  <2> QED
    BY <1>4, <2>1, <2>3, <2>4, Zenon
<1>5. CASE after /\ isCSIuRepeatOrRelease(s)
  <2>1. did' = did /\ after' = after /\ returned' = returned /\ fwd' = fwd
    BY <1>5 DEF Handle
  <2>2. want = {"none"} /\ ref
    BY <1>2, <1>5 DEF WantedAfter, PrefixAfter
  <2>3. did' \in want /\ want # {"forward"}
    BY <2>1, <2>2
  <2> QED
    BY <1>5, <2>1, <2>2, <2>3, Zenon
<1>6. CASE after /\ ~isCSIuRepeatOrRelease(s)
  <2>1. did' = matchChord(s) /\ after' = FALSE /\ returned' = (matchChord(s) = "detach")
    BY <1>6 DEF Handle
  <2>2. want = Command(k) /\ Pressed(k, e) /\ ~ref
    BY <1>2, <1>6 DEF WantedAfter, PrefixAfter
  <2>3. want # {"forward"}
    BY <2>2 DEF Command
  <2> QED
    BY <1>2, <2>1, <2>2, <2>3
<1> QED
  BY <1>3, <1>4, <1>5, <1>6

(* An escape and the symbol behind it. *)
LEMMA EscapedRead ==
  ASSUME NEW x, x.byte # "["
  PROVE  LET s == <<Byte("ESC"), x>>
         IN Complete(s) /\ ~isPrefixKey(s) /\ ~isCSIuRepeatOrRelease(s) /\ matchChord(s) = "none"
<1> DEFINE s == <<Byte("ESC"), x>>
<1>1. Len(s) = 2 /\ Len(s) \in Nat /\ Len(s) # 1 /\ s[1] = Byte("ESC") /\ s[2] = x
  OBVIOUS
<1> HIDE DEF s
<1>2. s[1].byte = "ESC"
  BY <1>1 DEF Byte
<1>3. Complete(s)
  BY <1>1, <1>2 DEF Complete
<1>4. ~csiU(s)
  BY <1>1 DEF csiU
<1>5. \A y : Bytes(s) # <<y>>
  BY <1>1, MoreBytes
<1>6. ~isPrefixKey(s) /\ matchChord(s) = "none" /\ ~isCSIuRepeatOrRelease(s)
  BY <1>4, <1>5 DEF isPrefixKey, matchChord, isCSIuRepeatOrRelease
<1> QED
  BY <1>3, <1>6 DEF s

(* A symbol of its own that is no prefix. *)
LEMMA SingleRead ==
  ASSUME NEW x, x.byte \notin {"ESC", "C-^"}
  PROVE  Complete(<<x>>) /\ ~isPrefixKey(<<x>>)
<1>1. <<x>>[1] = x
  OBVIOUS
<1>2. Complete(<<x>>)
  BY <1>1 DEF Complete
<1>3. ~csiU(<<x>>) /\ Bytes(<<x>>) # <<"C-^">>
  BY OneByte
<1> QED
  BY <1>2, <1>3 DEF isPrefixKey

(* When there is nothing to read, the last key was read. *)
LEMMA WhenRead ==
  ASSUME KeyInv, input = <<>>
  PROVE  Settled
<1>1. ~Swallowing
  BY DEF Swallowing
<1>2. ~Fresh
  <2> SUFFICES ASSUME NEW n \in Nat, n < Len(typed), input = SubSeq(typed, n + 1, Len(typed))
               PROVE  FALSE
    BY DEF Fresh
  <2>1. SubSeq(typed, n + 1, Len(typed)) # <<>>
    BY OneMore, Zenon DEF KeyInv, KeyTypes
  <2> QED
    BY <2>1
<1> QED
  BY <1>1, <1>2 DEF KeyInv

(* A key that is pressed, held or let go. *)
LEMMA TypeStep ==
  ASSUME KeyInv, NEW k \in Keys, NEW e \in Events, Type(k, e)
  PROVE  KeyInv'
<1> USE DEF KeyTypes
<1>1. /\ input = <<>> /\ ~returned /\ input' \in Encodings(k, e) /\ typed' = raw \o input'
      /\ want' = Wanted(k, e) /\ did' = "none" /\ fwd' = <<>>
      /\ enc' = enc /\ raw' = raw /\ after' = after /\ returned' = returned
  BY DEF Type
<1>2. KeyTypes
  BY DEF KeyInv
<1>3. Settled
  BY <1>1, WhenRead
<1>4. /\ input' \in Seq(Symbol) /\ Len(input') > 0
      /\ input'[1].byte # "[" /\ \A i \in 2 .. Len(input') : input'[i].byte \notin {"ESC", "C-^"}
  <2> DEFINE s == input'
  <2>1. s \in Encodings(k, e) /\ enc \in {"legacy", "some", "all"}
    BY <1>1, <1>2
  <2> HIDE DEF s
  <2>2. /\ s \in Seq(Symbol) /\ Len(s) > 0
        /\ s[1].byte # "[" /\ \A i \in 2 .. Len(s) : s[i].byte \notin {"ESC", "C-^"}
    BY <2>1, KeyRead, Zenon
  <2> QED
    BY <2>2 DEF s
<1>5. CASE raw = <<>>
  <2>1. typed' = input'
    <3>1. <<>> \o input' = input'
      BY <1>4, ConcatEmptySeq, Zenon
    <3> QED
      BY <1>1, <1>5, <3>1, Zenon
  <2>2. after <=> ref
    BY <1>1, <1>3, <1>5 DEF Settled, Escape
  <2>3. want' = WantedAfter(after, k, e)
    BY <1>1, <1>5, <2>2 DEF Wanted, WantedAfter
  <2>4. ref' \in BOOLEAN /\ (ref' <=> PrefixAfter(after, k, e))
    <3>1. CASE Pressed(k, e)
      <4>1. ref' = (~ref /\ k = "prefix")
        BY <1>5, <3>1 DEF Type
      <4> QED
        BY <1>1, <2>2, <3>1, <4>1 DEF PrefixAfter
    <3>2. CASE ~Pressed(k, e)
      <4>1. ref' = ref
        BY <1>5, <3>2 DEF Type
      <4> QED
        BY <1>1, <1>2, <2>2, <3>2, <4>1, Zenon DEF PrefixAfter
    <3> QED
      BY <3>1, <3>2
  <2>5. \E n \in Nat : /\ n < Len(typed')
                       /\ raw' = SubSeq(typed', 1, n)
                       /\ input' = SubSeq(typed', n + 1, Len(typed'))
    <3> DEFINE t == input'
    <3>1. t \in Seq(Symbol) /\ Len(t) > 0
      BY <1>4
    <3> HIDE DEF t
    <3>2. 0 \in Nat /\ 0 < Len(t) /\ <<>> = SubSeq(t, 1, 0) /\ t = SubSeq(t, 0 + 1, Len(t))
      BY <3>1
    <3>3. typed' = t /\ raw' = <<>> /\ input' = t
      BY <1>1, <1>5, <2>1 DEF t
    <3> QED
      BY <3>2, <3>3, Zenon
  <2>6. Fresh'
    <3>1. typed' \in Encodings(k, e)'
      <4>1. Encodings(k, e)' = Encodings(k, e)
        BY <1>1 DEF Encodings
      <4> QED
        BY <1>1, <2>1, <4>1, Zenon
    <3>2. want' = WantedAfter(after, k, e)' /\ (ref' <=> PrefixAfter(after, k, e)')
      <4>1. WantedAfter(after, k, e)' = WantedAfter(after, k, e)
        BY <1>1 DEF WantedAfter, Command, Pressed
      <4>2. PrefixAfter(after, k, e)' <=> PrefixAfter(after, k, e)
        BY <1>1 DEF PrefixAfter, Pressed
      <4> QED
        BY <2>3, <2>4, <4>1, <4>2, Zenon
    <3> QED
      BY <1>1, <2>5, <3>1, <3>2 DEF Fresh
  <2>7. KeyTypes'
    BY <1>1, <1>2, <1>4, <2>1, <2>4
  <2> QED
    BY <2>6, <2>7 DEF KeyInv
<1>6. CASE raw # <<>>
  <2>1. raw = Escape
    BY <1>3, <1>6 DEF Settled
  <2>2. want' = {"forward", "none"} /\ ref' = FALSE
    BY <1>6 DEF Type, Wanted
  <2>3. input' # <<>> /\ Head(input').byte # "[" /\ Plain(Tail(input'))
    <3> DEFINE s == input'
    <3>1. /\ s \in Seq(Symbol) /\ Len(s) > 0
          /\ s[1].byte # "[" /\ \A i \in 2 .. Len(s) : s[i].byte \notin {"ESC", "C-^"}
      BY <1>4
    <3> HIDE DEF s
    <3>2. s # <<>>
      BY <3>1
    <3>3. /\ Head(s) = s[1] /\ Len(Tail(s)) = Len(s) - 1 /\ Len(s) \in Nat
          /\ \A i \in 1 .. Len(s) - 1 : Tail(s)[i] = s[i + 1]
      BY <3>1, <3>2, FirstOff
    <3>4. ASSUME NEW i \in 1 .. Len(Tail(s)) PROVE Tail(s)[i].byte \notin {"ESC", "C-^"}
      <4> DEFINE n == Len(s)
      <4>1. n \in Nat /\ i \in 1 .. n - 1
        BY <3>3
      <4> HIDE DEF n
      <4>2. i + 1 \in 2 .. n
        BY <4>1
      <4>3. Tail(s)[i] = s[i + 1]
        BY <3>3, <4>1 DEF n
      <4> QED
        BY <3>1, <4>2, <4>3 DEF n
    <3>5. Plain(Tail(s))
      BY <3>4 DEF Plain
    <3>6. Head(s).byte # "["
      BY <3>1, <3>3
    <3> QED
      BY <3>2, <3>5, <3>6 DEF s
  <2>4. Swallowing'
    BY <1>1, <2>1, <2>2, <2>3 DEF Swallowing, Plain, Escape, Byte, NoParams
  <2>5. typed' \in Seq(Symbol)
    BY <1>1, <1>2, <1>4, ConcatProperties, Zenon
  <2>6. KeyTypes'
    BY <1>1, <1>2, <1>4, <2>2, <2>5
  <2> QED
    BY <2>4, <2>6 DEF KeyInv
<1> QED
  BY <1>5, <1>6

(* The end of the input. *)
LEMMA EndStep ==
  ASSUME KeyInv, EndOfInput
  PROVE  KeyInv'
<1> USE DEF KeyTypes
<1>1. /\ input = <<>> /\ ~returned /\ raw' = <<>> /\ returned' = TRUE /\ after' = FALSE
      /\ enc' = enc /\ input' = input /\ typed' = typed /\ want' = want /\ ref' = ref
  BY DEF EndOfInput
<1>2. KeyTypes
  BY DEF KeyInv
<1>3. Settled
  BY <1>1, WhenRead
<1>4. <<>> \in Seq(Symbol)
  OBVIOUS
<1>5. KeyTypes'
  BY <1>1, <1>2, <1>4
<1>6. did' \in want /\ (want = {"forward"} => fwd' = typed)
  <2>1. CASE raw = <<>>
    BY <1>3, <2>1 DEF EndOfInput, Settled, Escape
  <2>2. CASE raw # <<>>
    <3>1. /\ typed = raw /\ did = "none" /\ fwd = <<>>
          /\ want = IF after THEN {"none"} ELSE {"forward"}
      BY <1>3, <2>2 DEF Settled
    <3>2. <<>> \o raw = raw
      BY <1>2, ConcatEmptySeq, Zenon
    <3>3. CASE after
      BY <2>2, <3>1, <3>3 DEF EndOfInput
    <3>4. CASE ~after
      BY <2>2, <3>1, <3>2, <3>4 DEF EndOfInput
    <3> QED
      BY <3>3, <3>4
  <2> QED
    BY <2>1, <2>2
<1>7. Settled'
  BY <1>1, <1>6 DEF Settled
<1> QED
  BY <1>5, <1>7 DEF KeyInv

(* A byte of a key that is being read. *)
LEMMA FreshStep ==
  ASSUME KeyTypes, Fresh, ReadKeyByte
  PROVE  KeyInv'
<1>1. PICK n \in Nat : /\ n < Len(typed)
                       /\ raw = SubSeq(typed, 1, n) /\ input = SubSeq(typed, n + 1, Len(typed))
  BY DEF Fresh
<1>2. PICK k \in Keys, e \in Events :
        /\ typed \in Encodings(k, e)
        /\ want = WantedAfter(after, k, e) /\ (ref <=> PrefixAfter(after, k, e))
  BY DEF Fresh
<1>3. ~returned /\ did = "none" /\ fwd = <<>>
  BY DEF Fresh
<1>4. /\ typed \in Seq(Symbol) /\ after \in BOOLEAN /\ ref \in BOOLEAN /\ returned \in BOOLEAN
      /\ enc \in {"legacy", "some", "all"}
  BY DEF KeyTypes
<1> DEFINE s == Append(raw, Head(input))
<1>5. /\ s = SubSeq(typed, 1, n + 1) /\ Tail(input) = SubSeq(typed, n + 2, Len(typed))
      /\ n + 1 = Len(typed) => s = typed /\ Tail(input) = <<>>
      /\ s \in Seq(Symbol)
  <2>1. /\ Head(SubSeq(typed, n + 1, Len(typed))) = typed[n + 1]
        /\ Append(SubSeq(typed, 1, n), typed[n + 1]) = SubSeq(typed, 1, n + 1)
        /\ Tail(SubSeq(typed, n + 1, Len(typed))) = SubSeq(typed, n + 2, Len(typed))
        /\ n + 1 = Len(typed) => /\ SubSeq(typed, 1, n + 1) = typed
                                 /\ SubSeq(typed, n + 2, Len(typed)) = <<>>
        /\ SubSeq(typed, 1, n + 1) \in Seq(Symbol)
    BY <1>1, <1>4, OneMore, Zenon
  <2>2. Head(input) = typed[n + 1]
    BY <1>1, <2>1, Zenon
  <2>3. s = SubSeq(typed, 1, n + 1)
    BY <1>1, <2>1, <2>2, Zenon
  <2>4. Tail(input) = SubSeq(typed, n + 2, Len(typed))
    BY <1>1, <2>1, Zenon
  <2> HIDE DEF s
  <2> QED
    BY <2>1, <2>3, <2>4, Zenon
<1>6. /\ \A m \in 1 .. Len(typed) : m < Len(typed) => ~Complete(SubSeq(typed, 1, m))
      /\ \/ typed = Escape /\ k = "esc" /\ e = "press" /\ ~Complete(typed)
         \/ typed # Escape /\ Complete(typed) /\ Read(k, e, typed)
  BY <1>2, <1>4, KeyRead, Zenon
<1>7. /\ input' = Tail(input) /\ enc' = enc /\ typed' = typed /\ want' = want /\ ref' = ref
      /\ Complete(s) => raw' = <<>> /\ Handle(s)
      /\ ~Complete(s) => /\ raw' = s /\ after' = after /\ returned' = returned
                         /\ did' = did /\ fwd' = fwd
  BY DEF ReadKeyByte
<1> HIDE DEF s
<1>8. input' \in Seq(Symbol) /\ <<>> \in Seq(Symbol)
  <2>1. input # <<>> /\ input \in Seq(Symbol)
    BY DEF ReadKeyByte, KeyTypes
  <2>2. Tail(input) \in Seq(Symbol)
    BY <2>1, FirstOff, Zenon
  <2> QED
    BY <1>7, <2>2
<1>9. CASE n + 1 < Len(typed)
  <2>1. ~Complete(s)
    <3> DEFINE t == Len(typed)
    <3>1. t \in Nat /\ n + 1 < t
      BY <1>4, <1>9
    <3> HIDE DEF t
    <3>2. n + 1 \in 1 .. t
      BY <3>1
    <3> QED
      BY <1>5, <1>6, <1>9, <3>2, Zenon DEF t
  <2>2. /\ n + 1 \in Nat /\ n + 1 < Len(typed)
        /\ raw' = SubSeq(typed, 1, n + 1) /\ input' = SubSeq(typed, (n + 1) + 1, Len(typed))
    <3>1. n + 2 = (n + 1) + 1 /\ n + 1 \in Nat
      OBVIOUS
    <3> QED
      BY <1>5, <1>7, <1>9, <2>1, <3>1, Zenon
  <2>3. \E m \in Nat : /\ m < Len(typed)
                       /\ raw' = SubSeq(typed, 1, m) /\ input' = SubSeq(typed, m + 1, Len(typed))
    BY <2>2, Zenon
  <2>4. \E m \in Nat : /\ m < Len(typed')
                       /\ raw' = SubSeq(typed', 1, m)
                       /\ input' = SubSeq(typed', m + 1, Len(typed'))
    BY <1>7, <2>3, Zenon
  <2>5. typed' \in Encodings(k, e)'
    <3>1. Encodings(k, e)' = Encodings(k, e)
      BY <1>7 DEF Encodings
    <3> QED
      BY <1>2, <1>7, <3>1, Zenon
  <2>6. want' = WantedAfter(after, k, e)' /\ (ref' <=> PrefixAfter(after, k, e)')
    <3>1. WantedAfter(after, k, e)' = WantedAfter(after, k, e)
      BY <1>7, <2>1 DEF WantedAfter, Command, Pressed
    <3>2. PrefixAfter(after, k, e)' <=> PrefixAfter(after, k, e)
      BY <1>7, <2>1 DEF PrefixAfter, Pressed
    <3> QED
      BY <1>2, <1>7, <3>1, <3>2, Zenon
  <2>7. Fresh'
    <3>1. ~returned' /\ did' = "none" /\ fwd' = <<>>
      BY <1>3, <1>7, <2>1
    <3> QED
      BY <2>4, <2>5, <2>6, <3>1, Zenon DEF Fresh
  <2>8. KeyTypes'
    BY <1>4, <1>5, <1>7, <1>8, <2>1, Zenon DEF KeyTypes
  <2> QED
    BY <2>7, <2>8 DEF KeyInv
<1>10. CASE n + 1 = Len(typed)
  <2>1. s = typed /\ input' = <<>>
    BY <1>5, <1>7, <1>10, Zenon
  <2>2. CASE typed = Escape
    <3>1. k = "esc" /\ e = "press" /\ ~Complete(s)
      BY <1>6, <2>1, <2>2, Zenon
    <3>2. want = IF after THEN {"none"} ELSE {"forward"}
      BY <1>2, <3>1 DEF WantedAfter, Pressed, Command
    <3>3. /\ raw' = Escape /\ typed' = Escape /\ after' = after /\ returned' = returned
          /\ did' = "none" /\ fwd' = <<>> /\ want' = want
      BY <1>3, <1>7, <2>1, <2>2, <3>1, Zenon
    <3>4. Escape' = Escape
      BY DEF Escape, Byte, NoParams
    <3>5. Settled'
      <4>1. want' = IF after' THEN {"none"} ELSE {"forward"}
        BY <3>2, <3>3, Zenon
      <4> QED
        BY <1>3, <2>1, <3>3, <3>4, <4>1, Zenon DEF Settled
    <3>6. KeyTypes'
      BY <1>4, <1>7, <1>8, <2>2, <3>3, Zenon DEF KeyTypes
    <3> QED
      BY <3>5, <3>6 DEF KeyInv
  <2>3. CASE typed # Escape
    <3>1. Complete(s) /\ Read(k, e, s)
      BY <1>6, <2>1, <2>3, Zenon
    <3>2. raw' = <<>> /\ Handle(s)
      BY <1>7, <3>1, Zenon
    <3>3. /\ did' \in want /\ (want = {"forward"} => fwd' = s)
          /\ ~returned' => (after' <=> ref)
          /\ after' \in BOOLEAN /\ returned' \in BOOLEAN
      BY <1>2, <1>3, <1>4, <1>5, <3>1, <3>2, HandleRight, Zenon
    <3>4. Settled'
      BY <1>7, <2>1, <3>2, <3>3, Zenon DEF Settled
    <3>5. KeyTypes'
      BY <1>4, <1>7, <1>8, <3>2, <3>3, Zenon DEF KeyTypes
    <3> QED
      BY <3>4, <3>5 DEF KeyInv
  <2> QED
    BY <2>2, <2>3
<1> QED
  <2> DEFINE t == Len(typed)
  <2>1. t \in Nat /\ n < t
    BY <1>1, <1>4
  <2> HIDE DEF t
  <2>2. n + 1 < t \/ n + 1 = t
    BY <2>1
  <2> QED
    BY <1>9, <1>10, <2>2 DEF t

(* A byte behind an escape. *)
LEMMA SwallowStep ==
  ASSUME KeyTypes, Swallowing, ReadKeyByte
  PROVE  KeyInv'
<1>1. ~returned /\ want = {"forward", "none"} /\ ~ref /\ input # <<>>
  BY DEF Swallowing
<1>2. /\ typed \in Seq(Symbol) /\ after \in BOOLEAN /\ ref \in BOOLEAN /\ returned \in BOOLEAN
      /\ enc \in {"legacy", "some", "all"} /\ input \in Seq(Symbol)
  BY DEF KeyTypes
<1> DEFINE s == Append(raw, Head(input))
<1>3. /\ input' = Tail(input) /\ enc' = enc /\ typed' = typed /\ want' = want /\ ref' = ref
      /\ Complete(s) => raw' = <<>> /\ Handle(s)
  BY DEF ReadKeyByte
<1>4. /\ Head(input) = input[1] /\ Tail(input) \in Seq(Symbol) /\ <<>> \in Seq(Symbol)
      /\ Len(Tail(input)) = Len(input) - 1 /\ Len(input) \in Nat /\ Len(input) > 0
      /\ \A i \in 1 .. Len(input) - 1 : Tail(input)[i] = input[i + 1]
  BY <1>1, <1>2, FirstOff
<1>5. /\ Complete(s) /\ did' \in want /\ after' = FALSE /\ returned' = FALSE
      /\ Plain(Tail(input))
  <2>1. CASE raw = Escape /\ did = "none" /\ Head(input).byte # "[" /\ Plain(Tail(input))
    <3> DEFINE x == Head(input)
    <3>1. s = <<Byte("ESC"), x>>
      BY <2>1, AppendTo, Zenon
    <3>2. x.byte # "["
      BY <2>1
    <3> HIDE DEF s, x
    <3>3. Complete(s) /\ ~isPrefixKey(s) /\ ~isCSIuRepeatOrRelease(s) /\ matchChord(s) = "none"
      BY <3>1, <3>2, EscapedRead
    <3>4. Handle(s)
      BY <1>3, <3>3
    <3>5. CASE after
      <4>1. did' = "none" /\ after' = FALSE /\ returned' = FALSE
        BY <3>3, <3>4, <3>5 DEF Handle
      <4> QED
        BY <1>1, <2>1, <3>3, <4>1
    <3>6. CASE ~after
      <4>1. did' = "forward" /\ after' = after /\ returned' = returned
        BY <3>3, <3>4, <3>6 DEF Handle
      <4>2. did' \in want
        BY <1>1, <4>1
      <4>3. after = FALSE /\ returned = FALSE
        BY <1>1, <1>2, <3>6, Zenon
      <4> QED
        BY <2>1, <3>3, <4>1, <4>2, <4>3, Zenon
    <3> QED
      BY <3>5, <3>6
  <2>2. CASE raw = <<>> /\ ~after /\ did \in want /\ Plain(input)
    <3> DEFINE x == Head(input)
    <3>1. s = <<x>>
      BY <2>2, AppendTo, Zenon
    <3>2. x.byte \notin {"ESC", "C-^"}
      BY <1>4, <2>2 DEF Plain
    <3>3. Plain(Tail(input))
      <4> SUFFICES ASSUME NEW i \in 1 .. Len(Tail(input))
                   PROVE  Tail(input)[i].byte \notin {"ESC", "C-^"}
        BY DEF Plain
      <4> DEFINE n == Len(input)
      <4>1. n \in Nat /\ i \in 1 .. n - 1
        BY <1>4
      <4> HIDE DEF n
      <4>2. i + 1 \in 1 .. n
        BY <4>1
      <4>3. Tail(input)[i] = input[i + 1]
        BY <1>4, <4>1 DEF n
      <4> QED
        BY <2>2, <4>2, <4>3 DEF n, Plain
    <3> HIDE DEF s, x
    <3>4. Complete(s) /\ ~isPrefixKey(s)
      BY <3>1, <3>2, SingleRead
    <3>5. did' = "forward" /\ after' = after /\ returned' = returned
      BY <1>3, <2>2, <3>4 DEF Handle
    <3>6. did' \in want
      BY <1>1, <3>5
    <3>7. after = FALSE /\ returned = FALSE
      BY <1>1, <1>2, <2>2, Zenon
    <3> QED
      BY <3>3, <3>4, <3>5, <3>6, <3>7, Zenon
  <2> QED
    BY <2>1, <2>2 DEF Swallowing
<1> HIDE DEF s
<1>6. raw' = <<>>
  BY <1>3, <1>5
<1>7. KeyTypes'
  BY <1>2, <1>3, <1>4, <1>5, <1>6, Zenon DEF KeyTypes
<1>8. CASE Tail(input) = <<>>
  <2>1. want' # {"forward"}
    BY <1>1, <1>3
  <2>2. Settled'
    BY <1>1, <1>3, <1>5, <1>6, <1>8, <2>1, Zenon DEF Settled
  <2> QED
    BY <1>7, <2>2 DEF KeyInv
<1>9. CASE Tail(input) # <<>>
  <2>1. Plain(input)'
    BY <1>3, <1>5 DEF Plain
  <2>2. Swallowing'
    BY <1>1, <1>3, <1>5, <1>6, <1>9, <2>1, Zenon DEF Swallowing
  <2> QED
    BY <1>7, <2>2 DEF KeyInv
<1> QED
  BY <1>8, <1>9

(* A change of the encoding. *)
LEMMA EncodingStep ==
  ASSUME KeyInv, NEW m \in {"legacy", "some", "all"}, ChangeEncoding(m)
  PROVE  KeyInv'
<1>1. /\ input = <<>> /\ enc' = m /\ input' = input /\ raw' = raw /\ after' = after
      /\ returned' = returned /\ did' = did /\ fwd' = fwd /\ typed' = typed /\ want' = want
      /\ ref' = ref
  BY DEF ChangeEncoding
<1>2. Settled
  BY <1>1, WhenRead
<1>3. Escape' = Escape
  BY DEF Escape, Byte, NoParams
<1>4. Settled'
  BY <1>1, <1>2, <1>3, Zenon DEF Settled
<1>5. KeyTypes'
  BY <1>1, Zenon DEF KeyTypes, KeyInv
<1> QED
  BY <1>4, <1>5 DEF KeyInv

LEMMA KeyInvInit == KeyInit => KeyInv
<1> SUFFICES ASSUME KeyInit PROVE KeyInv
  OBVIOUS
<1>1. <<>> \in Seq(Symbol)
  OBVIOUS
<1>2. KeyTypes
  BY <1>1 DEF KeyInit, KeyTypes
<1>3. Settled
  BY DEF KeyInit, Settled
<1> QED
  BY <1>2, <1>3 DEF KeyInv

LEMMA KeyInvStep == KeyInv /\ [KeyNext]_keyVars => KeyInv'
<1> SUFFICES ASSUME KeyInv, [KeyNext]_keyVars PROVE KeyInv'
  OBVIOUS
<1>1. CASE ReadKeyByte
  <2>1. CASE Fresh
    BY <1>1, <2>1, FreshStep DEF KeyInv
  <2>2. CASE Swallowing
    BY <1>1, <2>2, SwallowStep DEF KeyInv
  <2>3. ~Settled
    BY <1>1 DEF ReadKeyByte, Settled
  <2> QED
    BY <2>1, <2>2, <2>3 DEF KeyInv
<1>2. CASE EndOfInput
  BY <1>2, EndStep
<1>3. ASSUME NEW k \in Keys, NEW e \in {"press", "repeat", "release"}, Type(k, e) PROVE KeyInv'
  BY <1>3, TypeStep DEF Events
<1>4. ASSUME NEW m \in {"legacy", "some", "all"}, ChangeEncoding(m) PROVE KeyInv'
  BY <1>4, EncodingStep
<1>5. CASE UNCHANGED keyVars
  <2>1. /\ enc' = enc /\ input' = input /\ raw' = raw /\ after' = after
        /\ returned' = returned /\ did' = did /\ fwd' = fwd /\ typed' = typed /\ want' = want
        /\ ref' = ref
    BY <1>5 DEF keyVars
  <2>2. KeyTypes'
    BY <2>1, Zenon DEF KeyTypes, KeyInv
  <2>3. CASE Settled
    <3>1. Escape' = Escape
      BY DEF Escape, Byte, NoParams
    <3>2. Settled'
      BY <2>1, <2>3, <3>1, Zenon DEF Settled
    <3> QED
      BY <2>2, <3>2 DEF KeyInv
  <2>4. CASE Swallowing
    <3>1. Swallowing'
      BY <2>1, <2>4 DEF Swallowing, Escape, Byte, NoParams, Plain
    <3> QED
      BY <2>2, <3>1 DEF KeyInv
  <2>5. CASE Fresh
    <3>1. PICK k \in Keys, e \in Events :
            /\ typed \in Encodings(k, e)
            /\ want = WantedAfter(after, k, e) /\ (ref <=> PrefixAfter(after, k, e))
      BY <2>5 DEF Fresh
    <3>2. Encodings(k, e)' = Encodings(k, e)
      BY <2>1 DEF Encodings
    <3>3. WantedAfter(after, k, e)' = WantedAfter(after, k, e)
      BY <2>1 DEF WantedAfter, Command, Pressed
    <3>4. PrefixAfter(after, k, e)' <=> PrefixAfter(after, k, e)
      BY <2>1 DEF PrefixAfter, Pressed
    <3>5. \E n \in Nat : /\ n < Len(typed')
                         /\ raw' = SubSeq(typed', 1, n)
                         /\ input' = SubSeq(typed', n + 1, Len(typed'))
      BY <2>1, <2>5, Zenon DEF Fresh
    <3>6. ~returned' /\ did' = "none" /\ fwd' = <<>>
      BY <2>1, <2>5 DEF Fresh
    <3>7. /\ typed' \in Encodings(k, e)' /\ want' = WantedAfter(after, k, e)'
          /\ (ref' <=> PrefixAfter(after, k, e)')
      BY <2>1, <3>1, <3>2, <3>3, <3>4, Zenon
    <3>8. Fresh'
      BY <3>5, <3>6, <3>7, Zenon DEF Fresh
    <3> QED
      BY <2>2, <3>8 DEF KeyInv
  <2> QED
    BY <2>3, <2>4, <2>5 DEF KeyInv
<1> QED
  BY <1>1, <1>2, <1>3, <1>4, <1>5 DEF KeyNext

(* A chord is found, and nothing else is taken for one, in every encoding   *)
(* the session asks for and while it changes; every other key reaches the   *)
(* session byte for byte (readKeyEvent and runChordFSM).                    *)
THEOREM ChordsFoundHolds == KeySpec => []ChordsFound
<1>1. KeyInv => ChordsFound
  BY WhenRead DEF Settled, Escape, ChordsFound
<1> QED
  BY <1>1, KeyInvInit, KeyInvStep, PTL DEF KeySpec
=============================================================================
