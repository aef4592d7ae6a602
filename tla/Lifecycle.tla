------------------------------- MODULE Lifecycle -------------------------------
(***************************************************************************)
(* One key of a state directory over the life of several sessions: the      *)
(* commands that start one (hoot run --key, POST /sessions, hoot clone,     *)
(* src/cmd/hoot), the session process (cmdSession, Runner.Run and           *)
(* RunCmdService.Run), the ones that only look (hoot list), and what they   *)
(* share: the flock, state.json, rpc.sock and pty.hootty.log.               *)
(*                                                                         *)
(* A process p stands for a command that starts a session and, once forked, *)
(* for that session, with its child.                                        *)
(***************************************************************************)
EXTENDS Naturals

CONSTANTS
  Procs,       \* commands, and the session each of them starts
  Listers,     \* commands that probe the flock and start nothing
  Attended,    \* bound: the sessions that someone attaches to
  NoProc

ASSUME LifecycleAssumption == NoProc \notin Procs

VARIABLES
  lpc,        \* the command: idle, probing, fork, wait, refused, up, failed
  spc,        \* the session process, by the step it is at
  child,      \* its child: none, run, exited
  mem,        \* Writer.state: what the Service published
  term,       \* the session got SIGTERM
  attached,   \* the session has an attach connection
  probe,      \* the Listers that hold the flock
  dir,        \* the key's directory exists
  lock,       \* the holder of the flock: a process, or NoProc
  disk,       \* state.json: its session and the state published
  sock,       \* rpc.sock: the session that made it
  log,        \* pty.hootty.log: the session that truncated it last
  overlap,    \* history: a command probed while another was starting a session
  late        \* history: state.json was written without the flock, or a write of it failed

cmdVars == <<lpc, probe>>
procVars == <<spc, child, mem, term, attached>>
fileVars == <<dir, disk, sock, log>>
history == <<overlap, late>>
vars == <<cmdVars, procVars, fileVars, lock, history>>

-----------------------------------------------------------------------------

Goto(p, l) == spc' = [spc EXCEPT ![p] = l]
Command(p, l) == lpc' = [lpc EXCEPT ![p] = l]

LockFree == lock = NoProc /\ probe = {}

(* The session processes that exist. *)
Running == {p \in Procs : spc[p] \notin {"off", "gone", "dead"}}

(* Sessions on their way to the flock, and commands on theirs to a fork. *)
Starting == {p \in Procs : lpc[p] \in {"probing", "fork"} \/ spc[p] \in {"start", "flock"}}

(* Between OpenWriter and writer.Close a session holds the flock; it serves *)
(* rpc.sock from listenSocket until it closes it.                           *)
ServeSteps == {"serve", "starting", "running", "exited", "closeSock"}
HoldSteps == {"init", "unlink", "listen", "release"} \cup ServeSteps

-----------------------------------------------------------------------------
(* The commands *)

(* A slip: the command does not look whether the key is alive. *)
ProbeSkipped(p) ==
  /\ lpc[p] = "idle"
  /\ overlap' = (overlap \/ Starting # {})
  /\ Command(p, "fork")
  /\ UNCHANGED <<lock, probe, procVars, fileVars, late>>

(* IsAlive: ProbeFlock finds the flock held, finds no directory, or takes   *)
(* the flock for a moment.                                                  *)
Probe(p) ==
  /\ lpc[p] = "idle"
  /\ overlap' = (overlap \/ Starting # {})
  /\ \/ dir /\ ~LockFree /\ Command(p, "refused") /\ UNCHANGED lock
     \/ ~dir /\ Command(p, "fork") /\ UNCHANGED lock
     \/ dir /\ LockFree /\ Command(p, "probing") /\ lock' = p
  /\ UNCHANGED <<probe, procVars, fileVars, late>>

ProbeEnd(p) ==
  /\ lpc[p] = "probing"
  /\ Command(p, "fork")
  /\ lock' = NoProc
  /\ UNCHANGED <<probe, procVars, fileVars, history>>

(* spawnSessionFromSpec: fork hoot __session. *)
Fork(p) ==
  /\ lpc[p] = "fork"
  /\ Command(p, "wait")
  /\ Goto(p, "start")
  /\ UNCHANGED <<probe, child, mem, term, attached, lock, fileVars, history>>

(* waitForSocket polls for a file of that name, whoever made it, ... *)
SocketAppears(p) ==
  /\ lpc[p] = "wait"
  /\ sock # NoProc
  /\ Command(p, "up")
  /\ UNCHANGED <<probe, procVars, lock, fileVars, history>>

(* ... for three seconds. *)
WaitTimesOut(p) ==
  /\ lpc[p] = "wait"
  /\ sock = NoProc
  /\ Command(p, "failed")
  /\ UNCHANGED <<probe, procVars, lock, fileVars, history>>

(* hoot list, the picker, GET /sessions: IsAlive of a key with a state.json. *)
List(x) ==
  /\ x \notin probe /\ disk.by # NoProc /\ LockFree
  /\ probe' = probe \cup {x}
  /\ UNCHANGED <<lpc, procVars, lock, fileVars, history>>

ListEnd(x) ==
  /\ x \in probe
  /\ probe' = probe \ {x}
  /\ UNCHANGED <<lpc, procVars, lock, fileVars, history>>

-----------------------------------------------------------------------------
(* The session process *)

(* cmdSession: make the directory, truncate the recording. *)
OpenRecorder(p) ==
  /\ spc[p] = "start"
  /\ Goto(p, "flock")
  /\ dir' = TRUE /\ log' = p
  /\ UNCHANGED <<cmdVars, child, mem, term, attached, lock, disk, sock, history>>

(* flush: the Writer's state replaces state.json. *)
Flush(p) == disk' = [by |-> p, state |-> mem'[p]]

(* A slip: state.json is written before the flock is tried. *)
AcquireAfterWrite(p) ==
  /\ spc[p] = "flock"
  /\ UNCHANGED mem /\ Flush(p)
  /\ IF LockFree THEN lock' = p /\ Goto(p, "init") ELSE Goto(p, "gone") /\ UNCHANGED lock
  /\ UNCHANGED <<cmdVars, child, term, attached, dir, sock, log, history>>

(* OpenWriter: AcquireFlock, which fails if anyone holds it, a session or a *)
(* command that probes.                                                     *)
AcquireFlock(p) ==
  /\ spc[p] = "flock"
  /\ IF LockFree THEN lock' = p /\ Goto(p, "init") ELSE Goto(p, "gone") /\ UNCHANGED lock
  /\ UNCHANGED <<cmdVars, child, mem, term, attached, fileVars, history>>

WriteInitial(p) ==
  /\ spc[p] = "init"
  /\ Goto(p, "unlink")
  /\ UNCHANGED mem /\ Flush(p)
  /\ UNCHANGED <<cmdVars, child, term, attached, lock, dir, sock, log, history>>

(* A slip: the error path forgets the flock. *)
WriteInitialKeepsFlock(p) ==
  /\ spc[p] = "init"
  /\ Goto(p, "closePTY")
  /\ UNCHANGED <<cmdVars, child, mem, term, attached, lock, fileVars, history>>

(* The first flush fails: ReleaseFlock, and Run returns the error. *)
WriteInitialFails(p) ==
  /\ spc[p] = "init"
  /\ Goto(p, "closePTY")
  /\ lock' = NoProc
  /\ UNCHANGED <<cmdVars, child, mem, term, attached, fileVars, history>>

(* A slip: a stale socket is left in place. *)
SocketNotRemoved(p) ==
  /\ spc[p] = "unlink"
  /\ Goto(p, "listen")
  /\ UNCHANGED <<cmdVars, child, mem, term, attached, lock, fileVars, history>>

(* listenSocket: remove what an earlier session left, ... *)
RemoveSocket(p) ==
  /\ spc[p] = "unlink"
  /\ Goto(p, "listen")
  /\ sock' = NoProc
  /\ UNCHANGED <<cmdVars, child, mem, term, attached, lock, dir, disk, log, history>>

(* ... then bind, which fails if the file is there (Run returns the error). *)
Listen(p) ==
  /\ spc[p] = "listen"
  /\ IF sock = NoProc THEN sock' = p /\ Goto(p, "serve")
                      ELSE UNCHANGED sock /\ Goto(p, "release")
  /\ UNCHANGED <<cmdVars, child, mem, term, attached, lock, dir, disk, log, history>>

Publish(p, st) == mem' = [mem EXCEPT ![p] = st] /\ Flush(p)

(* signal.Notify, then RunCmdService.Run publishes "starting". *)
PublishStarting(p) ==
  /\ spc[p] = "serve"
  /\ Publish(p, "starting")
  /\ Goto(p, "starting")
  /\ UNCHANGED <<cmdVars, child, term, attached, lock, dir, sock, log, history>>

(* cmd.Start, unless ctx is already cancelled or the program is not found. *)
StartChild(p) ==
  /\ spc[p] = "starting" /\ ~term[p]
  /\ child' = [child EXCEPT ![p] = "run"]
  /\ Publish(p, "running")
  /\ Goto(p, "running")
  /\ UNCHANGED <<cmdVars, term, attached, lock, dir, sock, log, history>>

StartFails(p) ==
  /\ spc[p] = "starting"
  /\ Publish(p, "exited")
  /\ Goto(p, "exited")
  /\ UNCHANGED <<cmdVars, child, term, attached, lock, dir, sock, log, history>>

ChildExits(p) ==
  /\ spc[p] = "running" /\ child[p] = "run"
  /\ child' = [child EXCEPT ![p] = "exited"]
  /\ UNCHANGED <<cmdVars, spc, mem, term, attached, lock, fileVars, history>>

(* A slip: a cancelled ctx does not reach the child. *)
CancelIgnored(p) ==
  /\ FALSE
  /\ UNCHANGED vars

(* ctx is cancelled: cmd.Cancel sends SIGTERM, WaitDelay kills. *)
CancelChild(p) ==
  /\ spc[p] = "running" /\ child[p] = "run" /\ term[p]
  /\ child' = [child EXCEPT ![p] = "exited"]
  /\ UNCHANGED <<cmdVars, spc, mem, term, attached, lock, fileVars, history>>

(* cmd.Wait returned: publish "exited". *)
PublishExited(p) ==
  /\ spc[p] = "running" /\ child[p] = "exited"
  /\ Publish(p, "exited")
  /\ Goto(p, "exited")
  /\ UNCHANGED <<cmdVars, child, term, attached, lock, dir, sock, log, history>>

(* UpdateState fails to write what it published: before the child runs, and *)
(* while it does, Run returns the error, and the process will end; after it *)
(* exited, Run ignores it.                                                  *)
PublishFails(p) ==
  /\ \E st \in {"starting", "running", "exited"} :
       /\ \/ spc[p] = "serve" /\ st = "starting" /\ UNCHANGED child
          \/ spc[p] = "starting" /\ st = "exited" /\ UNCHANGED child
          \/ spc[p] = "starting" /\ ~term[p] /\ st = "running"
             /\ child' = [child EXCEPT ![p] = "run"]
          \/ spc[p] = "running" /\ child[p] = "exited" /\ st = "exited" /\ UNCHANGED child
       /\ mem' = [mem EXCEPT ![p] = st]
  /\ Goto(p, "exited")
  /\ ~late /\ late' = TRUE       \* bound: one write fails
  /\ UNCHANGED <<cmdVars, term, attached, lock, fileVars, overlap>>

(* Run's deferred calls: closeAll, ... *)
ServiceReturns(p) ==
  /\ spc[p] = "exited"
  /\ Goto(p, "closeSock")
  /\ UNCHANGED <<cmdVars, child, mem, term, attached, lock, fileVars, history>>

(* A slip: the flock is released before the socket is closed. *)
ReleaseFirst(p) ==
  \/ /\ spc[p] = "closeSock" /\ lock = p
     /\ lock' = NoProc
     /\ UNCHANGED <<cmdVars, procVars, fileVars, history>>
  \/ /\ spc[p] = "closeSock" /\ lock # p
     /\ sock' = NoProc
     /\ Goto(p, "release")
     /\ UNCHANGED <<cmdVars, child, mem, term, attached, lock, dir, disk, log, history>>

(* ... sock.Close, which unlinks rpc.sock but leaves attach connections     *)
(* open (they are hijacked); a socket that listenUnixRelative made is       *)
(* unlinked by its relative name, from another directory, and stays; ...    *)
CloseSocket(p) ==
  /\ spc[p] = "closeSock"
  /\ sock' \in {NoProc, sock}
  /\ Goto(p, "release")
  /\ UNCHANGED <<cmdVars, child, mem, term, attached, lock, dir, disk, log, history>>

(* ... and writer.Close. *)
ReleaseFlock(p) ==
  /\ spc[p] = "release"
  /\ lock' = IF lock = p THEN NoProc ELSE lock
  /\ Goto(p, "closePTY")
  /\ UNCHANGED <<cmdVars, child, mem, term, attached, fileVars, history>>

(* cmdSession's deferred ptyImpl.Close, and the process ends; a child that  *)
(* is left gets SIGHUP.                                                     *)
ProcessEnds(p) ==
  /\ spc[p] = "closePTY"
  /\ Goto(p, "gone")
  /\ child' = [child EXCEPT ![p] = IF @ = "run" THEN "exited" ELSE @]
  /\ attached' = [attached EXCEPT ![p] = FALSE]
  /\ UNCHANGED <<cmdVars, mem, term, lock, fileVars, history>>

(* An attach connects, and is listed in state.json. *)
Attach(p) ==
  /\ p \in Attended /\ spc[p] \in ServeSteps /\ sock = p /\ ~attached[p]
  /\ attached' = [attached EXCEPT ![p] = TRUE]
  /\ UNCHANGED mem /\ Flush(p)
  /\ UNCHANGED <<cmdVars, spc, child, term, lock, dir, sock, log, history>>

(* It goes: registry.Remove rewrites state.json, flock or no flock. *)
Detach(p) ==
  /\ attached[p] /\ p \in Running
  /\ attached' = [attached EXCEPT ![p] = FALSE]
  /\ UNCHANGED mem /\ Flush(p)
  /\ late' = (late \/ lock # p)
  /\ UNCHANGED <<cmdVars, spc, child, term, lock, dir, sock, log, overlap>>

(* The process dies at once: the kernel drops its flock, its files stay, and *)
(* its child gets SIGHUP.                                                   *)
Dies(p) ==
  /\ Goto(p, "dead")
  /\ lock' = IF lock = p THEN NoProc ELSE lock
  /\ child' = [child EXCEPT ![p] = IF @ = "run" THEN "exited" ELSE @]
  /\ attached' = [attached EXCEPT ![p] = FALSE]

Crash(p) ==
  /\ p \in Running
  /\ Dies(p)
  /\ UNCHANGED <<cmdVars, mem, term, fileVars, history>>

(* closeSession: SIGTERM to the pid in state.json.  Without a handler, that *)
(* is before signal.Notify and after signal.Stop, it kills the process.     *)
CloseSession(p) ==
  /\ disk.by = p /\ p \in Running /\ ~term[p]
  /\ term' = [term EXCEPT ![p] = TRUE]
  /\ IF spc[p] \in {"starting", "running", "exited"}
       THEN UNCHANGED <<spc, lock, child, attached>>
       ELSE Dies(p)
  /\ UNCHANGED <<cmdVars, mem, fileVars, history>>

-----------------------------------------------------------------------------

Init ==
  /\ lpc = [p \in Procs |-> "idle"] /\ probe = {}
  /\ spc = [p \in Procs |-> "off"] /\ child = [p \in Procs |-> "none"]
  /\ mem = [p \in Procs |-> "none"] /\ term = [p \in Procs |-> FALSE]
  /\ attached = [p \in Procs |-> FALSE]
  /\ dir = FALSE /\ lock = NoProc
  /\ disk = [by |-> NoProc, state |-> "none"] /\ sock = NoProc /\ log = NoProc
  /\ overlap = FALSE /\ late = FALSE

(* The steps of a session that need nobody else. *)
SessionStep(p) ==
  \/ OpenRecorder(p) \/ AcquireFlock(p) \/ WriteInitial(p) \/ WriteInitialFails(p)
  \/ RemoveSocket(p) \/ Listen(p)
  \/ PublishStarting(p) \/ StartChild(p) \/ StartFails(p) \/ CancelChild(p)
  \/ PublishExited(p) \/ ServiceReturns(p) \/ CloseSocket(p) \/ ReleaseFlock(p)
  \/ ProcessEnds(p)

Next ==
  \/ \E p \in Procs :
        \/ Probe(p) \/ ProbeEnd(p) \/ Fork(p) \/ SocketAppears(p) \/ WaitTimesOut(p)
        \/ SessionStep(p) \/ PublishFails(p)
        \/ ChildExits(p) \/ Attach(p) \/ Detach(p) \/ Crash(p) \/ CloseSession(p)
  \/ \E x \in Listers : List(x) \/ ListEnd(x)

(* A session process runs; nothing makes its child exit, or anyone signal   *)
(* it.                                                                      *)
Fairness == \A p \in Procs : WF_vars(SessionStep(p))

Spec == Init /\ [][Next]_vars
FairSpec == Spec /\ Fairness

-----------------------------------------------------------------------------

TypeOK ==
  /\ lpc \in [Procs -> {"idle", "probing", "fork", "wait", "refused", "up", "failed"}]
  /\ probe \in SUBSET Listers
  /\ spc \in [Procs -> {"off", "start", "flock", "closePTY", "gone", "dead"} \cup HoldSteps]
  /\ child \in [Procs -> {"none", "run", "exited"}]
  /\ mem \in [Procs -> {"none", "starting", "running", "exited"}]
  /\ term \in [Procs -> BOOLEAN] /\ attached \in [Procs -> BOOLEAN]
  /\ dir \in BOOLEAN /\ overlap \in BOOLEAN /\ late \in BOOLEAN
  /\ lock \in Procs \cup {NoProc} /\ sock \in Procs \cup {NoProc}
  /\ log \in Procs \cup {NoProc}
  /\ disk \in [by : Procs \cup {NoProc},
              state : {"none", "starting", "running", "exited"}]

(* The flock is with the session that is between OpenWriter and Close, or   *)
(* with a command that probes; a session exists only once it was forked.    *)
FlockHeld ==
  /\ \A p \in Procs : lock = p <=> spc[p] \in HoldSteps \/ lpc[p] = "probing"
  /\ \A p \in Procs : lpc[p] \in {"idle", "probing", "fork", "refused"} => spc[p] = "off"
  /\ probe # {} => lock = NoProc

(* What a client that dials rpc.sock reaches, and the sessions that closed  *)
(* it or never will have it.                                                *)
Serving == IF \E p \in Procs : p = sock /\ spc[p] \in ServeSteps THEN sock ELSE NoProc
Ended == {p \in Procs : spc[p] \in {"release", "closePTY", "gone", "dead"}}

Owner == INSTANCE SessionOwner WITH serving <- Serving, ended <- Ended

(* The sessions of a key serve one after another: what rpc.sock leads to is *)
(* never another session, or none, while the first has not ended, with      *)
(* crashes, with sockets left behind and with commands racing to start      *)
(* sessions.                                                                *)
OneServesAtATime == Owner!Spec

(* Whoever finds rpc.sock while a session serves it reaches that session,   *)
(* the one that holds the flock, whatever earlier sessions left behind and  *)
(* however they ended.                                                      *)
SocketIsOwners ==
  \A p \in Procs : spc[p] \in ServeSteps => sock = p /\ lock = p

(* state.json describes the session that holds the flock, and shows what it *)
(* last published, unless an earlier session wrote it after giving up its   *)
(* flock, or it could not be written.                                       *)
StateIsOwners ==
  ~late => \A p \in Procs :
     spc[p] \in HoldSteps \ {"init"} => disk = [by |-> p, state |-> mem[p]]

(* The recording of a session that serves is its own, unless commands for   *)
(* the same key were started at the same time: the recorder truncates the   *)
(* file before the flock is taken, so only IsAlive protects it.             *)
RecordingIsOwners ==
  ~overlap => \A p \in Procs : spc[p] \in ServeSteps => log = p

(* A session that opened its Writer gets its socket: stale files never stop *)
(* a restart.                                                               *)
RestartServes ==
  \A p \in Procs : spc[p] = "unlink" ~> spc[p] \in {"serve", "dead"}

(* DELETE /sessions/{key} ends the session, at whatever point of its life   *)
(* the signal arrives, and frees the key.                                   *)
TermEnds == \A p \in Procs : term[p] ~> p \notin Running /\ lock # p
=============================================================================
