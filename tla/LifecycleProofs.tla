---------------------------- MODULE LifecycleProofs ----------------------------
(***************************************************************************)
(* Proofs about Lifecycle, for any number of sessions and of commands that  *)
(* probe.  FlockHeld is inductive; the socket, the state file and the       *)
(* recording then rest on it: only the holder of the flock touches them,    *)
(* with the exceptions the theorems name.                                   *)
(***************************************************************************)
EXTENDS Lifecycle, TLAPS

(* The initial state has the types. *)
LEMMA TypeInit == Init => TypeOK
<1> SUFFICES ASSUME Init PROVE TypeOK
  OBVIOUS
<1>1. attached \in [Procs -> BOOLEAN]
  BY DEF Init
<1>2. term \in [Procs -> BOOLEAN]
  BY DEF Init
<1>3. dir \in BOOLEAN /\ overlap \in BOOLEAN /\ late \in BOOLEAN
  BY Zenon DEF Init
<1> QED
  BY <1>1, <1>2, <1>3 DEF Init, TypeOK, HoldSteps, ServeSteps

(* Every step keeps the types. *)
LEMMA TypeStep == TypeOK /\ [Next]_vars => TypeOK'
<1> SUFFICES ASSUME TypeOK, [Next]_vars PROVE TypeOK'
  OBVIOUS
<1> USE DEF TypeOK, HoldSteps, ServeSteps, Goto, Command, cmdVars, procVars, fileVars,
        history
<1>1. ASSUME NEW p \in Procs, Probe(p) PROVE TypeOK'
  BY <1>1 DEF Probe
<1>2. ASSUME NEW p \in Procs, ProbeEnd(p) PROVE TypeOK'
  BY <1>2 DEF ProbeEnd
<1>3. ASSUME NEW p \in Procs, Fork(p) PROVE TypeOK'
  BY <1>3 DEF Fork
<1>4. ASSUME NEW p \in Procs, SocketAppears(p) \/ WaitTimesOut(p) PROVE TypeOK'
  BY <1>4 DEF SocketAppears, WaitTimesOut
<1>5. ASSUME NEW p \in Procs, OpenRecorder(p) PROVE TypeOK'
  BY <1>5 DEF OpenRecorder
<1>6. ASSUME NEW p \in Procs, AcquireFlock(p) PROVE TypeOK'
  BY <1>6 DEF AcquireFlock
<1>7. ASSUME NEW p \in Procs, WriteInitial(p) \/ WriteInitialFails(p) PROVE TypeOK'
  BY <1>7 DEF WriteInitial, WriteInitialFails, Flush
<1>8. ASSUME NEW p \in Procs, RemoveSocket(p) \/ Listen(p) PROVE TypeOK'
  BY <1>8 DEF RemoveSocket, Listen
<1>9. ASSUME NEW p \in Procs, PublishStarting(p) \/ StartChild(p) PROVE TypeOK'
  BY <1>9 DEF PublishStarting, StartChild, Publish, Flush
<1>10. ASSUME NEW p \in Procs, StartFails(p) \/ PublishExited(p) PROVE TypeOK'
  BY <1>10 DEF StartFails, PublishExited, Publish, Flush
<1>17. ASSUME NEW p \in Procs, PublishFails(p) PROVE TypeOK'
  <2>1. child' \in [Procs -> {"none", "run", "exited"}]
    BY <1>17 DEF PublishFails
  <2>2. mem' \in [Procs -> {"none", "starting", "running", "exited"}]
    BY <1>17 DEF PublishFails
  <2>3. late' \in BOOLEAN
    BY <1>17 DEF PublishFails
  <2> QED
    BY <1>17, <2>1, <2>2, <2>3 DEF PublishFails
<1>11. ASSUME NEW p \in Procs, ChildExits(p) \/ CancelChild(p) \/ ServiceReturns(p)
       PROVE TypeOK'
  BY <1>11 DEF ChildExits, CancelChild, ServiceReturns
<1>12. ASSUME NEW p \in Procs, CloseSocket(p) \/ ReleaseFlock(p) \/ ProcessEnds(p)
       PROVE TypeOK'
  BY <1>12 DEF CloseSocket, ReleaseFlock, ProcessEnds
<1>13. ASSUME NEW p \in Procs, Attach(p) \/ Detach(p) PROVE TypeOK'
  <2>1. attached' \in [Procs -> BOOLEAN]
    BY <1>13 DEF Attach, Detach
  <2>2. late' \in BOOLEAN
    BY <1>13, Zenon DEF Attach, Detach
  <2>3. disk' \in [by : Procs \cup {NoProc},
                  state : {"none", "starting", "running", "exited"}]
    BY <1>13 DEF Attach, Detach, Flush
  <2> QED
    BY <1>13, <2>1, <2>2, <2>3 DEF Attach, Detach
<1>14. ASSUME NEW p \in Procs, Crash(p) \/ CloseSession(p) PROVE TypeOK'
  <2>1. attached' \in [Procs -> BOOLEAN] /\ term' \in [Procs -> BOOLEAN]
    BY <1>14 DEF Crash, CloseSession, Dies
  <2>2. spc' \in [Procs -> {"off", "start", "flock", "closePTY", "gone", "dead"} \cup HoldSteps]
    BY <1>14 DEF Crash, CloseSession, Dies
  <2>3. child' \in [Procs -> {"none", "run", "exited"}]
    BY <1>14 DEF Crash, CloseSession, Dies
  <2>4. lock' \in Procs \cup {NoProc}
    BY <1>14 DEF Crash, CloseSession, Dies
  <2> QED
    BY <1>14, <2>1, <2>2, <2>3, <2>4 DEF Crash, CloseSession
<1>15. ASSUME NEW x \in Listers, List(x) \/ ListEnd(x) PROVE TypeOK'
  BY <1>15 DEF List, ListEnd
<1>16. CASE UNCHANGED vars
  BY <1>16 DEF vars
<1> QED
  BY <1>1, <1>2, <1>3, <1>4, <1>5, <1>6, <1>7, <1>8, <1>9, <1>10, <1>11, <1>12, <1>13,
     <1>14, <1>15, <1>16, <1>17 DEF Next, SessionStep

-----------------------------------------------------------------------------
(* The flock *)

(* Nobody holds the flock at first. *)
LEMMA FlockInit == Init => FlockHeld
BY LifecycleAssumption DEF Init, FlockHeld, HoldSteps, ServeSteps

(* Every step keeps the flock with its session or its probe. *)
LEMMA FlockStep == TypeOK /\ FlockHeld /\ [Next]_vars => FlockHeld'
<1> SUFFICES ASSUME TypeOK, FlockHeld, [Next]_vars PROVE FlockHeld'
  OBVIOUS
<1> USE LifecycleAssumption DEF TypeOK, FlockHeld, HoldSteps, ServeSteps, Goto, Command,
        LockFree, cmdVars, procVars
<1>1. ASSUME NEW p \in Procs, Probe(p) PROVE FlockHeld'
  BY <1>1 DEF Probe
<1>2. ASSUME NEW p \in Procs, ProbeEnd(p) PROVE FlockHeld'
  BY <1>2 DEF ProbeEnd
<1>3. ASSUME NEW p \in Procs, Fork(p) PROVE FlockHeld'
  BY <1>3 DEF Fork
<1>4. ASSUME NEW p \in Procs, SocketAppears(p) \/ WaitTimesOut(p) PROVE FlockHeld'
  BY <1>4 DEF SocketAppears, WaitTimesOut
<1>5. ASSUME NEW p \in Procs, OpenRecorder(p) PROVE FlockHeld'
  BY <1>5 DEF OpenRecorder
<1>6. ASSUME NEW p \in Procs, AcquireFlock(p) PROVE FlockHeld'
  BY <1>6 DEF AcquireFlock
<1>7. ASSUME NEW p \in Procs, WriteInitial(p) \/ WriteInitialFails(p) PROVE FlockHeld'
  BY <1>7 DEF WriteInitial, WriteInitialFails
<1>8. ASSUME NEW p \in Procs, RemoveSocket(p) \/ Listen(p) PROVE FlockHeld'
  BY <1>8 DEF RemoveSocket, Listen
<1>9. ASSUME NEW p \in Procs, PublishStarting(p) \/ StartChild(p) PROVE FlockHeld'
  BY <1>9 DEF PublishStarting, StartChild
<1>10. ASSUME NEW p \in Procs, StartFails(p) \/ PublishExited(p) \/ PublishFails(p)
       PROVE FlockHeld'
  BY <1>10 DEF StartFails, PublishExited, PublishFails
<1>11. ASSUME NEW p \in Procs, ChildExits(p) \/ CancelChild(p) \/ ServiceReturns(p)
       PROVE FlockHeld'
  BY <1>11 DEF ChildExits, CancelChild, ServiceReturns
<1>12. ASSUME NEW p \in Procs, CloseSocket(p) \/ ReleaseFlock(p) \/ ProcessEnds(p)
       PROVE FlockHeld'
  BY <1>12 DEF CloseSocket, ReleaseFlock, ProcessEnds
<1>13. ASSUME NEW p \in Procs, Attach(p) \/ Detach(p) PROVE FlockHeld'
  BY <1>13 DEF Attach, Detach
<1>14. ASSUME NEW p \in Procs, Crash(p) \/ CloseSession(p) PROVE FlockHeld'
  BY <1>14 DEF Crash, CloseSession, Dies, Running
<1>15. ASSUME NEW x \in Listers, List(x) \/ ListEnd(x) PROVE FlockHeld'
  BY <1>15 DEF List, ListEnd
<1>16. CASE UNCHANGED vars
  BY <1>16 DEF vars
<1> QED
  BY <1>1, <1>2, <1>3, <1>4, <1>5, <1>6, <1>7, <1>8, <1>9, <1>10, <1>11, <1>12, <1>13,
     <1>14, <1>15, <1>16 DEF Next, SessionStep

(* For any number of sessions and of commands that probe, every reachable   *)
(* state is well typed and the flock, which AcquireFlock and ProbeFlock     *)
(* share, is held exactly by the session between OpenWriter and             *)
(* writer.Close, or by one probing command.                                 *)
THEOREM FlockInvariant == Spec => [](TypeOK /\ FlockHeld)
<1>1. Init => TypeOK /\ FlockHeld
  BY TypeInit, FlockInit
<1>2. TypeOK /\ FlockHeld /\ [Next]_vars => (TypeOK /\ FlockHeld)'
  BY TypeStep, FlockStep
<1> QED
  BY <1>1, <1>2, PTL DEF Spec

-----------------------------------------------------------------------------
(* rpc.sock *)

(* SocketIsOwners, and the step before it: whoever is about to bind has     *)
(* removed the file.                                                        *)
SocketHeld ==
  \A p \in Procs :
     /\ spc[p] \in ServeSteps => sock = p
     /\ spc[p] = "listen" => sock = NoProc

(* Every step keeps rpc.sock with the holder of the flock. *)
LEMMA SocketStep == TypeOK /\ FlockHeld /\ SocketHeld /\ [Next]_vars => SocketHeld'
<1> SUFFICES ASSUME TypeOK, FlockHeld, SocketHeld, [Next]_vars PROVE SocketHeld'
  OBVIOUS
<1> USE LifecycleAssumption DEF TypeOK, FlockHeld, SocketHeld, HoldSteps, ServeSteps, Goto,
        procVars, fileVars
<1>1. ASSUME NEW p \in Procs, Probe(p) PROVE SocketHeld'
  BY <1>1 DEF Probe
<1>2. ASSUME NEW p \in Procs, ProbeEnd(p) PROVE SocketHeld'
  BY <1>2 DEF ProbeEnd
<1>3. ASSUME NEW p \in Procs, Fork(p) PROVE SocketHeld'
  BY <1>3 DEF Fork
<1>4. ASSUME NEW p \in Procs, SocketAppears(p) \/ WaitTimesOut(p) PROVE SocketHeld'
  BY <1>4 DEF SocketAppears, WaitTimesOut
<1>5. ASSUME NEW p \in Procs, OpenRecorder(p) PROVE SocketHeld'
  BY <1>5 DEF OpenRecorder
<1>6. ASSUME NEW p \in Procs, AcquireFlock(p) PROVE SocketHeld'
  BY <1>6 DEF AcquireFlock
<1>7. ASSUME NEW p \in Procs, WriteInitial(p) \/ WriteInitialFails(p) PROVE SocketHeld'
  BY <1>7 DEF WriteInitial, WriteInitialFails
<1>8. ASSUME NEW p \in Procs, RemoveSocket(p) \/ Listen(p) PROVE SocketHeld'
  BY <1>8 DEF RemoveSocket, Listen
<1>9. ASSUME NEW p \in Procs, PublishStarting(p) \/ StartChild(p) PROVE SocketHeld'
  BY <1>9 DEF PublishStarting, StartChild
<1>10. ASSUME NEW p \in Procs, StartFails(p) \/ PublishExited(p) \/ PublishFails(p)
       PROVE SocketHeld'
  BY <1>10 DEF StartFails, PublishExited, PublishFails
<1>11. ASSUME NEW p \in Procs, ChildExits(p) \/ CancelChild(p) \/ ServiceReturns(p)
       PROVE SocketHeld'
  BY <1>11 DEF ChildExits, CancelChild, ServiceReturns
<1>12. ASSUME NEW p \in Procs, CloseSocket(p) \/ ReleaseFlock(p) \/ ProcessEnds(p)
       PROVE SocketHeld'
  BY <1>12 DEF CloseSocket, ReleaseFlock, ProcessEnds
<1>13. ASSUME NEW p \in Procs, Attach(p) \/ Detach(p) PROVE SocketHeld'
  BY <1>13 DEF Attach, Detach
<1>14. ASSUME NEW p \in Procs, Crash(p) \/ CloseSession(p) PROVE SocketHeld'
  BY <1>14 DEF Crash, CloseSession, Dies, Running
<1>15. ASSUME NEW x \in Listers, List(x) \/ ListEnd(x) PROVE SocketHeld'
  BY <1>15 DEF List, ListEnd
<1>16. CASE UNCHANGED vars
  BY <1>16 DEF vars
<1> QED
  BY <1>1, <1>2, <1>3, <1>4, <1>5, <1>6, <1>7, <1>8, <1>9, <1>10, <1>11, <1>12, <1>13,
     <1>14, <1>15, <1>16 DEF Next, SessionStep

(* For any number of sessions: while a session serves, rpc.sock is its own  *)
(* and it holds the flock, although every session unlinks the file when it  *)
(* starts and when it ends, and a crash leaves it behind.                   *)
THEOREM SocketOwned == Spec => []SocketIsOwners
<1>1. Init => SocketHeld
  BY DEF Init, SocketHeld, ServeSteps
<1>2. TypeOK /\ FlockHeld /\ SocketHeld => SocketIsOwners
  BY DEF FlockHeld, SocketHeld, SocketIsOwners, HoldSteps
<1> QED
  BY <1>1, <1>2, FlockInvariant, SocketStep, PTL DEF Spec

-----------------------------------------------------------------------------
(* The abstract specification *)

(* A step that leaves what a client reaches alone and ends nobody stutters; *)
(* one that ends a session that serves nobody's rpc.sock, or the one that   *)
(* does, is End; Listen is Serve.                                           *)
LEMMA OwnerStep ==
  TypeOK /\ FlockHeld /\ SocketHeld /\ [Next]_vars => [Owner!Next]_(Owner!vars)
<1> SUFFICES ASSUME TypeOK, FlockHeld, SocketHeld, [Next]_vars
             PROVE [Owner!Next]_(Owner!vars)
  OBVIOUS
<1> USE LifecycleAssumption DEF TypeOK, FlockHeld, SocketHeld, HoldSteps, ServeSteps, Goto,
        cmdVars, procVars, fileVars, Serving, Ended
<1>a. ASSUME UNCHANGED <<Serving, Ended>> PROVE [Owner!Next]_(Owner!vars)
  BY <1>a DEF Owner!vars
<1>b. ASSUME NEW p \in Procs, Owner!Serve(p) \/ Owner!End(p) PROVE [Owner!Next]_(Owner!vars)
  BY <1>b DEF Owner!Next
<1>1. ASSUME NEW p \in Procs, Probe(p) \/ ProbeEnd(p) \/ SocketAppears(p) \/ WaitTimesOut(p)
      PROVE UNCHANGED <<Serving, Ended>>
  BY <1>1 DEF Probe, ProbeEnd, SocketAppears, WaitTimesOut
<1>2. ASSUME NEW p \in Procs, Fork(p) \/ OpenRecorder(p) PROVE UNCHANGED <<Serving, Ended>>
  BY <1>2 DEF Fork, OpenRecorder
<1>3. ASSUME NEW p \in Procs, AcquireFlock(p) PROVE UNCHANGED <<Serving, Ended>> \/ Owner!End(p)
  BY <1>3 DEF AcquireFlock, Owner!End
<1>4. ASSUME NEW p \in Procs, WriteInitial(p) PROVE UNCHANGED <<Serving, Ended>>
  BY <1>4 DEF WriteInitial
<1>5. ASSUME NEW p \in Procs, WriteInitialFails(p) PROVE Owner!End(p)
  BY <1>5 DEF WriteInitialFails, Owner!End
<1>6. ASSUME NEW p \in Procs, RemoveSocket(p) PROVE UNCHANGED <<Serving, Ended>>
  BY <1>6 DEF RemoveSocket
<1>7. ASSUME NEW p \in Procs, Listen(p) PROVE Owner!Serve(p)
  BY <1>7 DEF Listen, Owner!Serve
<1>8. ASSUME NEW p \in Procs, PublishStarting(p) \/ StartChild(p) \/ StartFails(p)
      PROVE UNCHANGED <<Serving, Ended>>
  BY <1>8 DEF PublishStarting, StartChild, StartFails
<1>9. ASSUME NEW p \in Procs, PublishExited(p) \/ PublishFails(p) \/ ServiceReturns(p)
      PROVE UNCHANGED <<Serving, Ended>>
  BY <1>9 DEF PublishExited, PublishFails, ServiceReturns
<1>10. ASSUME NEW p \in Procs, ChildExits(p) \/ CancelChild(p) \/ Attach(p) \/ Detach(p)
       PROVE UNCHANGED <<Serving, Ended>>
  BY <1>10 DEF ChildExits, CancelChild, Attach, Detach
<1>11. ASSUME NEW p \in Procs, CloseSocket(p) PROVE Owner!End(p)
  BY <1>11 DEF CloseSocket, Owner!End
<1>12. ASSUME NEW p \in Procs, ReleaseFlock(p) \/ ProcessEnds(p)
       PROVE UNCHANGED <<Serving, Ended>>
  BY <1>12 DEF ReleaseFlock, ProcessEnds
<1>13. ASSUME NEW p \in Procs, Crash(p) \/ CloseSession(p)
       PROVE UNCHANGED <<Serving, Ended>> \/ Owner!End(p)
  BY <1>13 DEF Crash, CloseSession, Dies, Running, Owner!End
<1>14. ASSUME NEW x \in Listers, List(x) \/ ListEnd(x) PROVE UNCHANGED <<Serving, Ended>>
  BY <1>14 DEF List, ListEnd
<1>15. ASSUME UNCHANGED vars PROVE UNCHANGED <<Serving, Ended>>
  BY <1>15 DEF vars
<1> QED
  BY <1>a, <1>b, <1>1, <1>2, <1>3, <1>4, <1>5, <1>6, <1>7, <1>8, <1>9, <1>10, <1>11, <1>12,
     <1>13, <1>14, <1>15 DEF Next, SessionStep

(* For any number of sessions: flock, socket file and processes that crash  *)
(* at any step implement sessions that serve one at a time.                 *)
THEOREM OwnerRefined == Spec => OneServesAtATime
<1>1. Init => Owner!Init
  BY LifecycleAssumption DEF Init, Owner!Init, Serving, Ended, ServeSteps
<1>2. Init => SocketHeld
  BY DEF Init, SocketHeld, ServeSteps
<1> QED
  BY <1>1, <1>2, FlockInvariant, SocketStep, OwnerStep, PTL
     DEF Spec, OneServesAtATime, Owner!Spec

-----------------------------------------------------------------------------
(* state.json *)

(* Every step keeps state.json with the holder of the flock. *)
LEMMA StateStep == TypeOK /\ FlockHeld /\ StateIsOwners /\ [Next]_vars => StateIsOwners'
<1> SUFFICES ASSUME TypeOK, FlockHeld, StateIsOwners, [Next]_vars PROVE StateIsOwners'
  OBVIOUS
<1> USE LifecycleAssumption DEF TypeOK, FlockHeld, StateIsOwners, HoldSteps, ServeSteps, Goto,
        procVars, fileVars, history
<1>1. ASSUME NEW p \in Procs, Probe(p) PROVE StateIsOwners'
  BY <1>1 DEF Probe
<1>2. ASSUME NEW p \in Procs, ProbeEnd(p) PROVE StateIsOwners'
  BY <1>2 DEF ProbeEnd
<1>3. ASSUME NEW p \in Procs, Fork(p) PROVE StateIsOwners'
  BY <1>3 DEF Fork
<1>4. ASSUME NEW p \in Procs, SocketAppears(p) \/ WaitTimesOut(p) PROVE StateIsOwners'
  BY <1>4 DEF SocketAppears, WaitTimesOut
<1>5. ASSUME NEW p \in Procs, OpenRecorder(p) PROVE StateIsOwners'
  BY <1>5 DEF OpenRecorder
<1>6. ASSUME NEW p \in Procs, AcquireFlock(p) PROVE StateIsOwners'
  BY <1>6 DEF AcquireFlock
<1>7. ASSUME NEW p \in Procs, WriteInitial(p) \/ WriteInitialFails(p)
       PROVE StateIsOwners'
  BY <1>7 DEF WriteInitial, WriteInitialFails, Flush
<1>8. ASSUME NEW p \in Procs, RemoveSocket(p) \/ Listen(p) PROVE StateIsOwners'
  BY <1>8 DEF RemoveSocket, Listen
<1>9. ASSUME NEW p \in Procs, PublishStarting(p) \/ StartChild(p) PROVE StateIsOwners'
  BY <1>9 DEF PublishStarting, StartChild, Publish, Flush
<1>10. ASSUME NEW p \in Procs, StartFails(p) \/ PublishExited(p) \/ PublishFails(p)
       PROVE StateIsOwners'
  BY <1>10 DEF StartFails, PublishExited, PublishFails, Publish, Flush
<1>11. ASSUME NEW p \in Procs, ChildExits(p) \/ CancelChild(p) \/ ServiceReturns(p)
       PROVE StateIsOwners'
  BY <1>11 DEF ChildExits, CancelChild, ServiceReturns
<1>12. ASSUME NEW p \in Procs, CloseSocket(p) \/ ReleaseFlock(p) \/ ProcessEnds(p)
       PROVE StateIsOwners'
  BY <1>12 DEF CloseSocket, ReleaseFlock, ProcessEnds
<1>13. ASSUME NEW p \in Procs, Attach(p) \/ Detach(p) PROVE StateIsOwners'
  <2>1. CASE Attach(p)
    BY <2>1 DEF Attach, Flush
  <2>2. CASE Detach(p)
    <3>1. ~late' => ~late /\ lock = p
      BY <2>2, Zenon DEF Detach
    <3>2. p \in Running
      BY <2>2 DEF Detach
    <3>3. CASE late'
      BY <3>3
    <3>4. CASE ~late'
      BY <2>2, <3>1, <3>2, <3>4 DEF Detach, Flush, Running
    <3> QED
      BY <3>3, <3>4
  <2> QED
    BY <1>13, <2>1, <2>2
<1>14. ASSUME NEW p \in Procs, Crash(p) \/ CloseSession(p) PROVE StateIsOwners'
  BY <1>14 DEF Crash, CloseSession, Dies, Running
<1>15. ASSUME NEW x \in Listers, List(x) \/ ListEnd(x) PROVE StateIsOwners'
  BY <1>15 DEF List, ListEnd
<1>16. CASE UNCHANGED vars
  BY <1>16 DEF vars
<1> QED
  BY <1>1, <1>2, <1>3, <1>4, <1>5, <1>6, <1>7, <1>8, <1>9, <1>10, <1>11, <1>12, <1>13,
     <1>14, <1>15, <1>16 DEF Next, SessionStep

(* For any number of sessions: state.json is that of the session holding    *)
(* the flock and shows what it published last, as long as no attach of an   *)
(* earlier session was torn down after that session's writer.Close and      *)
(* every write of it succeeded.                                             *)
THEOREM StateOwned == Spec => []StateIsOwners
<1>1. Init => StateIsOwners
  BY DEF Init, StateIsOwners, HoldSteps, ServeSteps
<1> QED
  BY <1>1, FlockInvariant, StateStep, PTL DEF Spec

-----------------------------------------------------------------------------
(* pty.hootty.log *)

(* What IsAlive buys: while one command or its session is on its way to the *)
(* flock, no other is, and no session holds the flock; so the truncation    *)
(* cannot hit the recording of another.  Before the directory exists no     *)
(* session got as far as the flock.                                         *)
RecordHeld ==
  /\ ~dir => \A p \in Procs : spc[p] \in {"off", "start", "dead"}
  /\ ~overlap =>
        /\ \A p, q \in Procs :
              p # q /\ q \in Starting => p \notin Starting /\ spc[p] \notin HoldSteps
        /\ \A p \in Procs : spc[p] \in {"flock"} \cup HoldSteps => log = p

(* Every step keeps the recording with its session. *)
LEMMA RecordStep == TypeOK /\ FlockHeld /\ RecordHeld /\ [Next]_vars => RecordHeld'
<1> SUFFICES ASSUME TypeOK, FlockHeld, RecordHeld, [Next]_vars PROVE RecordHeld'
  OBVIOUS
<1> USE LifecycleAssumption DEF TypeOK, FlockHeld, RecordHeld, HoldSteps, ServeSteps, Starting,
        Goto, Command, LockFree, cmdVars, procVars, fileVars, history
<1>1. ASSUME NEW p \in Procs, Probe(p) PROVE RecordHeld'
  <2>1. ~overlap' => ~overlap /\ Starting = {}
    BY <1>1, Zenon DEF Probe
  <2>2. UNCHANGED <<dir, log, spc>>
    BY <1>1 DEF Probe
  <2>3. \A q \in Procs : q # p => lpc'[q] = lpc[q]
    BY <1>1 DEF Probe
  <2>4. CASE dir /\ ~LockFree /\ Command(p, "refused")
    BY <1>1, <2>1, <2>2, <2>3, <2>4
  <2>5. CASE ~dir /\ Command(p, "fork")
    BY <1>1, <2>1, <2>2, <2>3, <2>5
  <2>6. CASE dir /\ LockFree /\ Command(p, "probing")
    BY <1>1, <2>1, <2>2, <2>3, <2>6
  <2> QED
    BY <1>1, <2>4, <2>5, <2>6 DEF Probe
<1>2. ASSUME NEW p \in Procs, ProbeEnd(p) PROVE RecordHeld'
  BY <1>2 DEF ProbeEnd
<1>3. ASSUME NEW p \in Procs, Fork(p) PROVE RecordHeld'
  BY <1>3 DEF Fork
<1>4. ASSUME NEW p \in Procs, SocketAppears(p) \/ WaitTimesOut(p) PROVE RecordHeld'
  BY <1>4 DEF SocketAppears, WaitTimesOut
<1>5. ASSUME NEW p \in Procs, OpenRecorder(p) PROVE RecordHeld'
  BY <1>5 DEF OpenRecorder
<1>6. ASSUME NEW p \in Procs, AcquireFlock(p) PROVE RecordHeld'
  BY <1>6 DEF AcquireFlock
<1>7. ASSUME NEW p \in Procs, WriteInitial(p) \/ WriteInitialFails(p) PROVE RecordHeld'
  BY <1>7 DEF WriteInitial, WriteInitialFails
<1>8. ASSUME NEW p \in Procs, RemoveSocket(p) \/ Listen(p) PROVE RecordHeld'
  BY <1>8 DEF RemoveSocket, Listen
<1>9. ASSUME NEW p \in Procs, PublishStarting(p) \/ StartChild(p) PROVE RecordHeld'
  BY <1>9 DEF PublishStarting, StartChild
<1>10. ASSUME NEW p \in Procs, StartFails(p) \/ PublishExited(p) \/ PublishFails(p)
       PROVE RecordHeld'
  BY <1>10 DEF StartFails, PublishExited, PublishFails
<1>11. ASSUME NEW p \in Procs, ChildExits(p) \/ CancelChild(p) \/ ServiceReturns(p)
       PROVE RecordHeld'
  BY <1>11 DEF ChildExits, CancelChild, ServiceReturns
<1>12. ASSUME NEW p \in Procs, CloseSocket(p) \/ ReleaseFlock(p) \/ ProcessEnds(p)
       PROVE RecordHeld'
  BY <1>12 DEF CloseSocket, ReleaseFlock, ProcessEnds
<1>13. ASSUME NEW p \in Procs, Attach(p) \/ Detach(p) PROVE RecordHeld'
  BY <1>13 DEF Attach, Detach
<1>14. ASSUME NEW p \in Procs, Crash(p) \/ CloseSession(p) PROVE RecordHeld'
  BY <1>14 DEF Crash, CloseSession, Dies, Running
<1>15. ASSUME NEW x \in Listers, List(x) \/ ListEnd(x) PROVE RecordHeld'
  BY <1>15 DEF List, ListEnd
<1>16. CASE UNCHANGED vars
  BY <1>16 DEF vars
<1> QED
  BY <1>1, <1>2, <1>3, <1>4, <1>5, <1>6, <1>7, <1>8, <1>9, <1>10, <1>11, <1>12, <1>13,
     <1>14, <1>15, <1>16 DEF Next, SessionStep

(* For any number of sessions: no session truncates the recording of one    *)
(* that serves, if the commands that start sessions of the same key do not  *)
(* overlap.                                                                 *)
THEOREM RecordingOwned == Spec => []RecordingIsOwners
<1>1. Init => RecordHeld
  BY DEF Init, RecordHeld, HoldSteps, ServeSteps, Starting
<1>2. RecordHeld => RecordingIsOwners
  BY DEF RecordHeld, RecordingIsOwners, HoldSteps
<1> QED
  BY <1>1, <1>2, FlockInvariant, RecordStep, PTL DEF Spec
=============================================================================
