------------------------------- MODULE Serve -------------------------------
(***************************************************************************)
(* hoot serve: its request handlers run concurrently in one process and     *)
(* share its working directory.  A handler resolves a session, dials its    *)
(* rpc.sock, with a detour through the session's directory if that fails    *)
(* (src/cmd/hoot/serve_bridge.go), and then forwards a request or pumps     *)
(* frames between a web socket and the session; or it creates a session     *)
(* (src/cmd/hoot/serve_spawn.go, spawn.go).                                 *)
(*                                                                         *)
(* A working directory is a session's key, or Home.  A relative --state-dir *)
(* is found from Home only; a socket path can be too long to be dialled.    *)
(***************************************************************************)
EXTENDS Naturals

CONSTANTS
  Handlers, Keys, Home, None,
  Requests    \* the requests <<handler, kind, key>> that may come in

ASSUME ServeAssumption ==
  /\ Home \notin Keys /\ None \notin Keys \cup Handlers
  /\ Requests \subseteq Handlers \X {"proxy", "bridge", "create"} \X Keys

VARIABLES
  relative,   \* --state-dir is a relative path
  long,       \* socket paths exceed sun_path
  cwd,        \* working directory of the process
  mu,         \* chdirMu: the handler that holds it, or None
  saved,      \* dialSock's cwd, by handler
  pc,         \* where a handler is
  key,        \* the session its request names
  conn,       \* the session it is connected to, or None
  hs,         \* the rest of a handler
  ss          \* the sessions, by key

dirVars == <<relative, long, cwd, mu, saved>>
vars == <<dirVars, pc, key, conn, hs, ss>>

(* A handler's request and answer; the web socket and the pumps from and to *)
(* the session (off, run, write, done) of a bridge; for create, whether its *)
(* fork has yet to take the flock and the cwd it was given.  History: the   *)
(* session was up all the time and within reach; whose session was reported *)
(* as created; create met a stale socket or a rival.                        *)
Idle ==
  [kind |-> "proxy", res |-> "none", ws |-> FALSE, up |-> "off", down |-> "off",
   pend |-> FALSE, dir |-> Home, whole |-> FALSE, made |-> None, mixed |-> FALSE]

Found == ~relative \/ cwd = Home          \* the state directory is reached
Alive(k) == ss[k].state \in {"starting", "up"}
Exists(k) == ss[k].state # "none"         \* its directory does

At(h, l) == pc[h] = l
Go(h, l) == pc' = [pc EXCEPT ![h] = l]
Answer(h, r) == Go(h, "done") /\ hs' = [hs EXCEPT ![h].res = r]

(* A request comes in. *)
Accept(h, kd, k) ==
  /\ At(h, "idle") /\ <<h, kd, k>> \in Requests
  /\ Go(h, CASE kd = "proxy" -> "resolve" [] kd = "bridge" -> "dial" [] kd = "create" -> "probe")
  /\ key' = [key EXCEPT ![h] = k]
  /\ hs' = [hs EXCEPT ![h] =
       [Idle EXCEPT !.kind = kd, !.ws = kd = "bridge",
                    !.whole = ss[k].state = "up" /\ (relative => mu = None)]]
  /\ UNCHANGED <<dirVars, conn, ss>>

-----------------------------------------------------------------------------
(* proxySession and dialSock *)

Resolve(h) ==
  /\ At(h, "resolve")
  /\ IF Found /\ Exists(key[h]) THEN Go(h, "dial") /\ UNCHANGED hs ELSE Answer(h, "missing")
  /\ UNCHANGED <<dirVars, key, conn, ss>>

(* The socket by its path. *)
Dial(h) ==
  /\ At(h, "dial")
  /\ IF Found /\ ~long /\ ss[key[h]].sock = "live"
     THEN Go(h, "dialled") /\ conn' = [conn EXCEPT ![h] = key[h]]
     ELSE Go(h, "lock") /\ UNCHANGED conn
  /\ UNCHANGED <<dirVars, key, hs, ss>>

(* A slip: nothing keeps two handlers from changing directory at once. *)
LockChdirFree(h) ==
  /\ At(h, "lock")
  /\ Go(h, "chdir")
  /\ saved' = [saved EXCEPT ![h] = cwd]
  /\ UNCHANGED <<relative, long, cwd, mu, key, conn, hs, ss>>

LockChdir(h) ==
  /\ At(h, "lock") /\ mu = None
  /\ Go(h, "chdir")
  /\ mu' = h
  /\ saved' = [saved EXCEPT ![h] = cwd]
  /\ UNCHANGED <<relative, long, cwd, key, conn, hs, ss>>

(* A relative state directory is out of the other handlers' reach from now  *)
(* on.                                                                      *)
Chdir(h) ==
  /\ At(h, "chdir") /\ Found /\ Exists(key[h])
  /\ Go(h, "dialBase")
  /\ cwd' = key[h]
  /\ hs' = [g \in Handlers |-> [hs[g] EXCEPT !.whole = @ /\ (g = h \/ ~relative)]]
  /\ UNCHANGED <<relative, long, mu, saved, key, conn, ss>>

(* Without the directory there is nothing to dial. *)
ChdirFails(h) ==
  /\ At(h, "chdir") /\ ~(Found /\ Exists(key[h]))
  /\ Go(h, "dialled")
  /\ mu' = None
  /\ UNCHANGED <<relative, long, cwd, saved, key, conn, hs, ss>>

(* The socket of whatever directory this is. *)
DialBase(h) ==
  /\ At(h, "dialBase")
  /\ Go(h, "restore")
  /\ conn' = [conn EXCEPT ![h] = IF cwd \in Keys /\ ss[cwd].sock = "live" THEN cwd ELSE None]
  /\ UNCHANGED <<dirVars, key, hs, ss>>

(* A slip: an error returns without the way back. *)
RestoreOnSuccess(h) ==
  /\ At(h, "restore")
  /\ Go(h, "dialled")
  /\ cwd' = (IF conn[h] = None THEN cwd ELSE saved[h]) /\ mu' = None
  /\ UNCHANGED <<relative, long, saved, key, conn, hs, ss>>

Restore(h) ==
  /\ At(h, "restore")
  /\ Go(h, "dialled")
  /\ cwd' = saved[h] /\ mu' = None
  /\ UNCHANGED <<relative, long, saved, key, conn, hs, ss>>

(* No connection; or the session went while it was asked for the upgrade,   *)
(* which it never refuses, or sent Hello.                                   *)
DialFails(h) ==
  /\ At(h, "dialled") /\ conn[h] = None
  /\ Answer(h, "error")
  /\ UNCHANGED <<dirVars, key, conn, ss>>

(* The session answers the proxied request, ... *)
Proxied(h) ==
  /\ At(h, "dialled") /\ conn[h] # None /\ hs[h].kind = "proxy"
  /\ Answer(h, "ok")
  /\ conn' = [conn EXCEPT ![h] = None]
  /\ UNCHANGED <<dirVars, key, ss>>

(* ... or the bridge's upgrade, and the pumps start. *)
Bridged(h) ==
  /\ At(h, "dialled") /\ conn[h] # None /\ hs[h].kind = "bridge"
  /\ Go(h, "serve")
  /\ hs' = [hs EXCEPT ![h].up = "run", ![h].down = "run"]
  /\ UNCHANGED <<dirVars, key, conn, ss>>

-----------------------------------------------------------------------------
(* handleAttach, the bridge *)

(* The session holds the other end of the connection. *)
Upstream(h) == conn[h] # None

SetUp(h, v) ==
  /\ hs' = [hs EXCEPT ![h].up = v]
  /\ UNCHANGED <<dirVars, pc, key, conn, ss>>
SetDown(h, v) ==
  /\ hs' = [hs EXCEPT ![h].down = v]
  /\ UNCHANGED <<dirVars, pc, key, conn, ss>>

(* pumpUpstreamToWS has a frame for the browser; it waits until the browser *)
(* takes it, or the web socket is closed.                                   *)
PumpUp(h) == hs[h].up = "run" /\ Upstream(h) /\ SetUp(h, "write")
PumpUpWritten(h) == hs[h].up = "write" /\ hs[h].ws /\ SetUp(h, "run")
PumpUpFails(h) == hs[h].up = "write" /\ ~hs[h].ws /\ SetUp(h, "done")

(* The session's connection is gone. *)
PumpUpEnds(h) == hs[h].up = "run" /\ ~Upstream(h) /\ SetUp(h, "done")

(* pumpWSToUpstream has input for the session, or finds no browser; it      *)
(* waits until the session takes the input, or the connection is gone.      *)
PumpDown(h) == hs[h].down = "run" /\ hs[h].ws /\ SetDown(h, "write")
PumpDownEnds(h) == hs[h].down = "run" /\ ~hs[h].ws /\ SetDown(h, "done")
PumpWritten(h) == hs[h].down = "write" /\ Upstream(h) /\ SetDown(h, "run")
PumpWriteFails(h) == hs[h].down = "write" /\ ~Upstream(h) /\ SetDown(h, "done")

(* A slip: the connection to the session is not closed. *)
CloseBridgeHalf(h) ==
  /\ At(h, "serve") /\ "done" \in {hs[h].up, hs[h].down}
  /\ Go(h, "done")
  /\ hs' = [hs EXCEPT ![h].res = "ok", ![h].ws = FALSE]
  /\ UNCHANGED <<dirVars, key, conn, ss>>

(* Either pump's end closes both connections. *)
CloseBridge(h) ==
  /\ At(h, "serve") /\ "done" \in {hs[h].up, hs[h].down}
  /\ Go(h, "done")
  /\ conn' = [conn EXCEPT ![h] = None]
  /\ hs' = [hs EXCEPT ![h].res = "ok", ![h].ws = FALSE]
  /\ UNCHANGED <<dirVars, key, ss>>

BrowserLeaves(h) ==
  /\ hs[h].ws /\ At(h, "serve")
  /\ hs' = [hs EXCEPT ![h].ws = FALSE]
  /\ UNCHANGED <<dirVars, pc, key, conn, ss>>

-----------------------------------------------------------------------------
(* createSession and spawnSessionFromSpec *)

Creating(h) == hs[h].pend \/ pc[h] \in {"getwd", "fork", "wait", "load"}
Rivals(h) == {g \in Handlers \ {h} : key[g] = key[h] /\ Creating(g)}
Stale(k) == ss[k].sock = "stale"

(* The request goes on; it is noted whether there is a stale socket or      *)
(* another request creating the key, whose session may yet start.           *)
Proceed(h) ==
  /\ Go(h, "getwd")
  /\ hs' = [g \in Handlers |->
       [hs[g] EXCEPT !.mixed = IF g = h THEN Stale(key[h]) \/ Rivals(h) # {}
                                        ELSE @ \/ g \in Rivals(h)]]

(* A slip: the key is not looked up. *)
ProbeKeyNot(h) ==
  /\ At(h, "probe")
  /\ Proceed(h)
  /\ UNCHANGED <<dirVars, key, conn, ss>>

(* IsAlive *)
ProbeKey(h) ==
  /\ At(h, "probe")
  /\ IF Found /\ Alive(key[h]) THEN Answer(h, "conflict") ELSE Proceed(h)
  /\ UNCHANGED <<dirVars, key, conn, ss>>

(* resolveServeCWD, for a request without a directory of its own; it does   *)
(* not take chdirMu.                                                        *)
Getwd(h) ==
  /\ At(h, "getwd")
  /\ Go(h, "fork")
  /\ hs' = [hs EXCEPT ![h].dir = cwd]
  /\ UNCHANGED <<dirVars, key, conn, ss>>

(* The absolute state directory is computed and the session forked; from    *)
(* another directory it would be a session no request finds.                *)
Fork(h) ==
  /\ At(h, "fork")
  /\ IF Found THEN Go(h, "wait") /\ hs' = [hs EXCEPT ![h].pend = TRUE] ELSE Answer(h, "error")
  /\ UNCHANGED <<dirVars, key, conn, ss>>

(* waitForSocket: any file of that name will do. *)
WaitForSocket(h) ==
  /\ At(h, "wait")
  /\ IF ss[key[h]].sock # "no" THEN Go(h, "load") /\ UNCHANGED hs ELSE Answer(h, "error")
  /\ UNCHANGED <<dirVars, key, conn, ss>>

LoadState(h) ==
  /\ At(h, "load")
  /\ IF Found /\ Exists(key[h])
     THEN /\ Go(h, "done")
          /\ hs' = [hs EXCEPT ![h].res = "created", ![h].made = ss[key[h]].owner]
     ELSE Answer(h, "error")
  /\ UNCHANGED <<dirVars, key, conn, ss>>

(* The handler returns; its place is used for another request once its      *)
(* goroutines and its fork are out of the way.                              *)
Return(h) ==
  /\ At(h, "done") /\ {hs[h].up, hs[h].down} \subseteq {"off", "done"} /\ ~hs[h].pend
  /\ Go(h, "idle")
  /\ saved' = [saved EXCEPT ![h] = Home] /\ key' = [key EXCEPT ![h] = None]
  /\ hs' = [hs EXCEPT ![h] = Idle]
  /\ UNCHANGED <<relative, long, cwd, mu, conn, ss>>

-----------------------------------------------------------------------------
(* Sessions; module Lifecycle says what they do *)

(* The forked process takes the flock, or finds it taken and ends. *)
SessionStarts(h) ==
  /\ hs[h].pend
  /\ hs' = [hs EXCEPT ![h].pend = FALSE]
  /\ ss' = IF Alive(key[h]) THEN ss
           ELSE [ss EXCEPT ![key[h]].state = "starting", ![key[h]].owner = h]
  /\ UNCHANGED <<dirVars, pc, key, conn>>

SessionListens(k) ==
  /\ ss[k].state = "starting"
  /\ ss' = [ss EXCEPT ![k].state = "up", ![k].sock = "live"]
  /\ UNCHANGED <<dirVars, pc, key, conn, hs>>

(* A session ends, and removes its socket unless it crashed. *)
SessionEnds(k) ==
  /\ Alive(k)
  /\ \E s \in {"no", "stale"} :
       ss' = [ss EXCEPT ![k].state = "gone", ![k].sock = IF @ = "live" THEN s ELSE @]
  /\ conn' = [h \in Handlers |-> IF conn[h] = k THEN None ELSE conn[h]]
  /\ hs' = [h \in Handlers |-> [hs[h] EXCEPT !.whole = @ /\ key[h] # k]]
  /\ UNCHANGED <<dirVars, pc, key>>

-----------------------------------------------------------------------------

Session(st) ==
  [state |-> st, sock |-> IF st = "up" THEN "live" ELSE "no", owner |-> None]

Init ==
  /\ relative \in BOOLEAN /\ long \in BOOLEAN /\ cwd = Home /\ mu = None
  /\ saved = [h \in Handlers |-> Home] /\ pc = [h \in Handlers |-> "idle"]
  /\ key = [h \in Handlers |-> None] /\ conn = [h \in Handlers |-> None]
  /\ hs = [h \in Handlers |-> Idle]
  /\ ss \in [Keys -> {Session("none"), Session("up")}]

DialStep(h) ==
  \/ Resolve(h) \/ Dial(h) \/ LockChdir(h) \/ Chdir(h) \/ ChdirFails(h) \/ DialBase(h)
  \/ Restore(h) \/ DialFails(h)

CreateStep(h) ==
  ProbeKey(h) \/ Getwd(h) \/ Fork(h) \/ WaitForSocket(h) \/ LoadState(h)

Next ==
  \/ \E h \in Handlers :
       \/ \E kd \in {"proxy", "bridge", "create"}, k \in Keys : Accept(h, kd, k)
       \/ DialStep(h) \/ Proxied(h) \/ Bridged(h) \/ CreateStep(h)
       \/ CloseBridge(h) \/ Return(h) \/ BrowserLeaves(h)
       \/ PumpUp(h) \/ PumpUpWritten(h) \/ PumpUpFails(h) \/ PumpUpEnds(h)
       \/ PumpDown(h) \/ PumpDownEnds(h) \/ PumpWritten(h) \/ PumpWriteFails(h)
       \/ SessionStarts(h)
  \/ \E k \in Keys : SessionListens(k) \/ SessionEnds(k)

(* Handlers and pumps run.  Nothing makes a session start, end, answer,     *)
(* read what it is sent or send anything, nor a browser.                    *)
Fairness ==
  \A h \in Handlers :
    /\ WF_vars(DialStep(h)) /\ WF_vars(CreateStep(h))
    /\ WF_vars(PumpUpFails(h) \/ PumpUpEnds(h)) /\ WF_vars(PumpDownEnds(h) \/ PumpWriteFails(h))
    /\ WF_vars(CloseBridge(h) \/ Return(h))

Spec == Init /\ [][Next]_vars
FairSpec == Spec /\ Fairness

-----------------------------------------------------------------------------

TypeOK ==
  /\ relative \in BOOLEAN /\ long \in BOOLEAN
  /\ cwd \in Keys \cup {Home} /\ mu \in Handlers \cup {None}
  /\ saved \in [Handlers -> Keys \cup {Home}]
  /\ pc \in [Handlers -> {"idle", "resolve", "dial", "lock", "chdir", "dialBase", "restore",
                          "dialled", "serve", "probe", "getwd", "fork", "wait", "load", "done"}]
  /\ key \in [Handlers -> Keys \cup {None}] /\ conn \in [Handlers -> Keys \cup {None}]
  /\ \A h \in Handlers : pc[h] # "idle" => key[h] \in Keys

(* A request is never taken to another session than the one it names,       *)
(* although rpc.sock is dialled by a name relative to a directory that all  *)
(* handlers share.                                                          *)
RightSession == \A h \in Handlers : conn[h] \in {None, key[h]}

(* A session that is up from beginning to end of a request is reached, be   *)
(* the socket's path too long or other handlers in other directories; with  *)
(* a relative state directory, unless one of them was in the meantime:      *)
(* detours that are over leave no trace.                                    *)
LiveIsReached ==
  \A h \in Handlers :
    At(h, "done") /\ hs[h].kind # "create" /\ hs[h].whole => hs[h].res = "ok"

(* "201 Created" is about the session this request started, except if a     *)
(* crashed session's socket was there before, or another request for the    *)
(* same key was under way, or the state directory is relative.              *)
CreatedIsOwn ==
  \A h \in Handlers :
    hs[h].res = "created" /\ ~relative /\ ~hs[h].mixed => hs[h].made = h

(* serve_spawn.go, "Empty falls back to the server's own current            *)
(* directory".                                                              *)
SpawnsAtHome == \A h \in Handlers : hs[h].dir = Home

(* A pump waits for an end that does not read: the session, or the browser. *)
Stuck(h) == (Upstream(h) /\ hs[h].down = "write") \/ (hs[h].ws /\ hs[h].up = "write")

(* When the browser has left, or the session's connection is gone, both     *)
(* pumps and the handler end, unless from some moment on the end that       *)
(* remains never takes what a pump has for it: nothing but the pump's own   *)
(* return tells handleAttach's select of the other end.                     *)
BridgeEnds ==
  \A h \in Handlers :
    At(h, "serve") /\ (~hs[h].ws \/ conn[h] = None) ~> (pc[h] = "idle" \/ []Stuck(h))
=============================================================================
