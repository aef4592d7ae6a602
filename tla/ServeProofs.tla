---------------------------- MODULE ServeProofs ----------------------------
(* Proofs about module Serve, for any handlers, keys and requests. *)
EXTENDS Serve, TLAPS

-----------------------------------------------------------------------------
(* Type correctness *)

(* The initial state has the types. *)
LEMMA TypeInit == Init => TypeOK
BY ServeAssumption DEF Init, TypeOK

(* Every step keeps the types. *)
LEMMA TypeStep == TypeOK /\ [Next]_vars => TypeOK'
<1> SUFFICES ASSUME TypeOK, [Next]_vars PROVE TypeOK'
  OBVIOUS
<1> USE ServeAssumption DEF TypeOK, dirVars, At, Go, Answer
<1>1. ASSUME NEW h \in Handlers, NEW kd \in {"proxy", "bridge", "create"}, NEW k \in Keys,
             Accept(h, kd, k)
      PROVE TypeOK'
  BY <1>1 DEF Accept
<1>2. ASSUME NEW h \in Handlers, Resolve(h) PROVE TypeOK'
  BY <1>2 DEF Resolve
<1>3. ASSUME NEW h \in Handlers, Dial(h) PROVE TypeOK'
  BY <1>3 DEF Dial
<1>4. ASSUME NEW h \in Handlers, LockChdir(h) PROVE TypeOK'
  BY <1>4 DEF LockChdir
<1>5. ASSUME NEW h \in Handlers, Chdir(h) PROVE TypeOK'
  BY <1>5 DEF Chdir
<1>6. ASSUME NEW h \in Handlers, ChdirFails(h) PROVE TypeOK'
  BY <1>6 DEF ChdirFails
<1>7. ASSUME NEW h \in Handlers, DialBase(h) PROVE TypeOK'
  BY <1>7 DEF DialBase
<1>8. ASSUME NEW h \in Handlers, Restore(h) PROVE TypeOK'
  BY <1>8 DEF Restore
<1>9. ASSUME NEW h \in Handlers, DialFails(h) PROVE TypeOK'
  BY <1>9 DEF DialFails
<1>10. ASSUME NEW h \in Handlers, Proxied(h) PROVE TypeOK'
  BY <1>10 DEF Proxied
<1>11. ASSUME NEW h \in Handlers, Bridged(h) PROVE TypeOK'
  BY <1>11 DEF Bridged
<1>12. ASSUME NEW h \in Handlers, CloseBridge(h) PROVE TypeOK'
  BY <1>12 DEF CloseBridge
<1>13. ASSUME NEW h \in Handlers, Return(h) PROVE TypeOK'
  BY <1>13 DEF Return
<1>14. ASSUME NEW h \in Handlers, CreateStep(h) PROVE TypeOK'
  BY <1>14 DEF CreateStep, ProbeKey, Proceed, Getwd, Fork, WaitForSocket, LoadState
<1>15. ASSUME NEW h \in Handlers,
              \/ PumpUp(h) \/ PumpUpWritten(h) \/ PumpUpFails(h) \/ PumpUpEnds(h)
              \/ PumpDown(h) \/ PumpDownEnds(h) \/ PumpWritten(h) \/ PumpWriteFails(h)
       PROVE TypeOK'
  BY <1>15 DEF PumpUp, PumpUpWritten,
         PumpUpFails, PumpUpEnds, PumpDown, PumpDownEnds,
               PumpWritten, PumpWriteFails, SetUp, SetDown
<1>16. ASSUME NEW h \in Handlers, BrowserLeaves(h) \/ SessionStarts(h) PROVE TypeOK'
  BY <1>16 DEF BrowserLeaves, SessionStarts
<1>17. ASSUME NEW k \in Keys, SessionListens(k) \/ SessionEnds(k) PROVE TypeOK'
  BY <1>17 DEF SessionListens, SessionEnds
<1>18. CASE UNCHANGED vars
  BY <1>18 DEF vars
<1> QED
  BY <1>1, <1>2, <1>3, <1>4, <1>5, <1>6, <1>7, <1>8, <1>9, <1>10, <1>11, <1>12, <1>13, <1>14,
     <1>15, <1>16, <1>17, <1>18
     DEF Next, DialStep

-----------------------------------------------------------------------------
(* The working directory *)

(* chdirMu is held by the handler that is in its detour; while nobody is,   *)
(* the working directory is the one the server was started in, and a        *)
(* handler that dials by the relative name is in its session's directory.   *)
DetourSteps == {"chdir", "dialBase", "restore"}
DetourHeld ==
  /\ \A h \in Handlers : pc[h] \in DetourSteps <=> mu = h
  /\ mu = None => cwd = Home
  /\ \A h \in Handlers :
       /\ pc[h] = "chdir" => cwd = Home
       /\ pc[h] \in DetourSteps => saved[h] = Home
       /\ pc[h] = "dialBase" => cwd = key[h]

(* Every step keeps the detour with the holder of chdirMu. *)
LEMMA DetourStep == TypeOK /\ DetourHeld /\ [Next]_vars => DetourHeld'
<1> SUFFICES ASSUME TypeOK, DetourHeld, [Next]_vars PROVE DetourHeld'
  OBVIOUS
<1> USE ServeAssumption DEF TypeOK, dirVars, At, Go, Answer, DetourHeld, DetourSteps
<1>1. ASSUME NEW h \in Handlers, NEW kd \in {"proxy", "bridge", "create"}, NEW k \in Keys,
             Accept(h, kd, k)
      PROVE DetourHeld'
  BY <1>1 DEF Accept
<1>2. ASSUME NEW h \in Handlers, Resolve(h) PROVE DetourHeld'
  BY <1>2 DEF Resolve
<1>3. ASSUME NEW h \in Handlers, Dial(h) PROVE DetourHeld'
  BY <1>3 DEF Dial
<1>4. ASSUME NEW h \in Handlers, LockChdir(h) PROVE DetourHeld'
  BY <1>4 DEF LockChdir
<1>5. ASSUME NEW h \in Handlers, Chdir(h) PROVE DetourHeld'
  BY <1>5 DEF Chdir
<1>6. ASSUME NEW h \in Handlers, ChdirFails(h) PROVE DetourHeld'
  BY <1>6 DEF ChdirFails
<1>7. ASSUME NEW h \in Handlers, DialBase(h) PROVE DetourHeld'
  BY <1>7 DEF DialBase
<1>8. ASSUME NEW h \in Handlers, Restore(h) PROVE DetourHeld'
  BY <1>8 DEF Restore
<1>9. ASSUME NEW h \in Handlers, DialFails(h) PROVE DetourHeld'
  BY <1>9 DEF DialFails
<1>10. ASSUME NEW h \in Handlers, Proxied(h) PROVE DetourHeld'
  BY <1>10 DEF Proxied
<1>11. ASSUME NEW h \in Handlers, Bridged(h) PROVE DetourHeld'
  BY <1>11 DEF Bridged
<1>12. ASSUME NEW h \in Handlers, CloseBridge(h) PROVE DetourHeld'
  BY <1>12 DEF CloseBridge
<1>13. ASSUME NEW h \in Handlers, Return(h) PROVE DetourHeld'
  BY <1>13 DEF Return
<1>14. ASSUME NEW h \in Handlers, CreateStep(h) PROVE DetourHeld'
  BY <1>14 DEF CreateStep, ProbeKey, Proceed, Getwd, Fork, WaitForSocket, LoadState
<1>15. ASSUME NEW h \in Handlers,
              \/ PumpUp(h) \/ PumpUpWritten(h) \/ PumpUpFails(h) \/ PumpUpEnds(h)
              \/ PumpDown(h) \/ PumpDownEnds(h) \/ PumpWritten(h) \/ PumpWriteFails(h)
       PROVE DetourHeld'
  BY <1>15 DEF PumpUp, PumpUpWritten,
         PumpUpFails, PumpUpEnds, PumpDown, PumpDownEnds,
               PumpWritten, PumpWriteFails, SetUp, SetDown
<1>16. ASSUME NEW h \in Handlers, BrowserLeaves(h) \/ SessionStarts(h) PROVE DetourHeld'
  BY <1>16 DEF BrowserLeaves, SessionStarts
<1>17. ASSUME NEW k \in Keys, SessionListens(k) \/ SessionEnds(k) PROVE DetourHeld'
  BY <1>17 DEF SessionListens, SessionEnds
<1>18. CASE UNCHANGED vars
  BY <1>18 DEF vars
<1> QED
  BY <1>1, <1>2, <1>3, <1>4, <1>5, <1>6, <1>7, <1>8, <1>9, <1>10, <1>11, <1>12, <1>13, <1>14,
     <1>15, <1>16, <1>17, <1>18
     DEF Next, DialStep

(* What a handler is connected to is what its request names; before the     *)
(* dial and after the answer it is connected to nothing.                    *)
ConnHeld ==
  \A h \in Handlers :
    /\ conn[h] \in {None, key[h]}
    /\ pc[h] \notin {"restore", "dialled", "serve"} => conn[h] = None

(* Every step connects a request to its own session or to none. *)
LEMMA ConnStep == TypeOK /\ DetourHeld /\ ConnHeld /\ [Next]_vars => ConnHeld'
<1> SUFFICES ASSUME TypeOK, DetourHeld, ConnHeld, [Next]_vars PROVE ConnHeld'
  OBVIOUS
<1> USE ServeAssumption DEF TypeOK, dirVars, At, Go, Answer, ConnHeld
<1>1. ASSUME NEW h \in Handlers, NEW kd \in {"proxy", "bridge", "create"}, NEW k \in Keys,
             Accept(h, kd, k)
      PROVE ConnHeld'
  BY <1>1 DEF Accept
<1>2. ASSUME NEW h \in Handlers, Resolve(h) PROVE ConnHeld'
  BY <1>2 DEF Resolve
<1>3. ASSUME NEW h \in Handlers, Dial(h) PROVE ConnHeld'
  BY <1>3 DEF Dial
<1>4. ASSUME NEW h \in Handlers, LockChdir(h) PROVE ConnHeld'
  BY <1>4 DEF LockChdir
<1>5. ASSUME NEW h \in Handlers, Chdir(h) PROVE ConnHeld'
  BY <1>5 DEF Chdir
<1>6. ASSUME NEW h \in Handlers, ChdirFails(h) PROVE ConnHeld'
  BY <1>6 DEF ChdirFails
<1>7. ASSUME NEW h \in Handlers, DialBase(h) PROVE ConnHeld'
  BY <1>7 DEF DialBase, DetourHeld
<1>8. ASSUME NEW h \in Handlers, Restore(h) PROVE ConnHeld'
  BY <1>8 DEF Restore
<1>9. ASSUME NEW h \in Handlers, DialFails(h) PROVE ConnHeld'
  BY <1>9 DEF DialFails
<1>10. ASSUME NEW h \in Handlers, Proxied(h) PROVE ConnHeld'
  BY <1>10 DEF Proxied
<1>11. ASSUME NEW h \in Handlers, Bridged(h) PROVE ConnHeld'
  BY <1>11 DEF Bridged
<1>12. ASSUME NEW h \in Handlers, CloseBridge(h) PROVE ConnHeld'
  BY <1>12 DEF CloseBridge
<1>13. ASSUME NEW h \in Handlers, Return(h) PROVE ConnHeld'
  BY <1>13 DEF Return
<1>14. ASSUME NEW h \in Handlers, CreateStep(h) PROVE ConnHeld'
  BY <1>14 DEF CreateStep, ProbeKey, Proceed, Getwd, Fork, WaitForSocket, LoadState
<1>15. ASSUME NEW h \in Handlers,
              \/ PumpUp(h) \/ PumpUpWritten(h) \/ PumpUpFails(h) \/ PumpUpEnds(h)
              \/ PumpDown(h) \/ PumpDownEnds(h) \/ PumpWritten(h) \/ PumpWriteFails(h)
       PROVE ConnHeld'
  BY <1>15 DEF PumpUp, PumpUpWritten,
         PumpUpFails, PumpUpEnds, PumpDown, PumpDownEnds,
               PumpWritten, PumpWriteFails, SetUp, SetDown
<1>16. ASSUME NEW h \in Handlers, BrowserLeaves(h) \/ SessionStarts(h) PROVE ConnHeld'
  BY <1>16 DEF BrowserLeaves, SessionStarts
<1>17. ASSUME NEW k \in Keys, SessionListens(k) \/ SessionEnds(k) PROVE ConnHeld'
  BY <1>17 DEF SessionListens, SessionEnds
<1>18. CASE UNCHANGED vars
  BY <1>18 DEF vars
<1> QED
  BY <1>1, <1>2, <1>3, <1>4, <1>5, <1>6, <1>7, <1>8, <1>9, <1>10, <1>11, <1>12, <1>13, <1>14,
     <1>15, <1>16, <1>17, <1>18
     DEF Next, DialStep

-----------------------------------------------------------------------------

(* The detour belongs to the holder of chdirMu, always. *)
LEMMA DetourInvariant == Spec => [](TypeOK /\ DetourHeld)
<1>1. Init => TypeOK /\ DetourHeld
  BY TypeInit, ServeAssumption DEF Init, DetourHeld, DetourSteps
<1> QED
  BY <1>1, TypeStep, DetourStep, PTL DEF Spec

(* For any number of concurrent requests and of sessions: although rpc.sock *)
(* is dialled by a relative name from a directory that all requests share,  *)
(* no request is connected to a session it does not name.                   *)
THEOREM RequestsReachTheirSession == Spec => []RightSession
<1>1. Init => ConnHeld
  BY DEF Init, ConnHeld
<1>2. ConnHeld => RightSession
  BY DEF ConnHeld, RightSession
<1> QED
  BY <1>1, <1>2, DetourInvariant, ConnStep, PTL DEF Spec

(* For any number of concurrent requests: whenever no request is in its     *)
(* detour, the server is back in its own directory, whichever way the       *)
(* detours ended.                                                           *)
THEOREM DetoursEnd == Spec => [](mu = None => cwd = Home)
<1>1. DetourHeld => (mu = None => cwd = Home)
  BY DEF DetourHeld
<1> QED
  BY <1>1, DetourInvariant, PTL

-----------------------------------------------------------------------------
(* Handlers and sessions as records *)

Answers == {"none", "ok", "missing", "error", "conflict", "created"}
HandlerRec ==
  [kind : {"proxy", "bridge", "create"}, res : Answers,
   ws : BOOLEAN, up : {"off", "run", "write", "done"}, down : {"off", "run", "write", "done"},
   pend : BOOLEAN, dir : Keys \cup {Home}, whole : BOOLEAN, made : Handlers \cup {None},
   mixed : BOOLEAN]

SessionRec ==
  [state : {"none", "starting", "up", "gone"}, sock : {"no", "stale", "live"},
   owner : Handlers \cup {None}]

RecType == hs \in [Handlers -> HandlerRec] /\ ss \in [Keys -> SessionRec]

(* What the answers depend on: f and r agree on it. *)
SameRequest(f, r) == f.kind = r.kind /\ f.whole = r.whole
SameCreate(f, r) == f.pend = r.pend /\ f.made = r.made /\ f.mixed = r.mixed

(* Assigning one of the fields leaves a handler's record what it is, and    *)
(* the other fields alone.                                                  *)
LEMMA AssignRes ==
  ASSUME NEW r \in HandlerRec, NEW v \in Answers
  PROVE LET f == [r EXCEPT !.res = v]
        IN f \in HandlerRec /\ f.res = v /\ SameRequest(f, r) /\ SameCreate(f, r)
BY DEF HandlerRec, Answers, SameRequest, SameCreate

(* The other fields stay when whole is assigned. *)
LEMMA AssignWhole ==
  ASSUME NEW r \in HandlerRec, NEW b \in BOOLEAN
  PROVE LET f == [r EXCEPT !.whole = b]
        IN f \in HandlerRec /\ f.whole = b /\ f.kind = r.kind /\ f.res = r.res /\ SameCreate(f, r)
BY DEF HandlerRec, Answers, SameCreate

(* The other fields stay when mixed is assigned. *)
LEMMA AssignMixed ==
  ASSUME NEW r \in HandlerRec, NEW b \in BOOLEAN
  PROVE LET f == [r EXCEPT !.mixed = b]
        IN /\ f \in HandlerRec /\ f.mixed = b /\ f.pend = r.pend /\ f.made = r.made
           /\ f.res = r.res /\ SameRequest(f, r)
BY DEF HandlerRec, Answers, SameRequest

(* The other fields stay when pend is assigned. *)
LEMMA AssignPend ==
  ASSUME NEW r \in HandlerRec, NEW b \in BOOLEAN
  PROVE LET f == [r EXCEPT !.pend = b]
        IN /\ f \in HandlerRec /\ f.pend = b /\ f.mixed = r.mixed /\ f.made = r.made
           /\ f.res = r.res /\ SameRequest(f, r)
BY DEF HandlerRec, Answers, SameRequest

(* The other fields stay when made is assigned. *)
LEMMA AssignMade ==
  ASSUME NEW r \in HandlerRec, NEW m \in Handlers \cup {None}
  PROVE LET f == [r EXCEPT !.made = m]
        IN /\ f \in HandlerRec /\ f.made = m /\ f.mixed = r.mixed /\ f.pend = r.pend
           /\ f.res = r.res /\ SameRequest(f, r)
BY DEF HandlerRec, Answers, SameRequest

(* The fields the invariants read stay when another one is assigned. *)
LEMMA AssignOther ==
  ASSUME NEW r \in HandlerRec, NEW b \in BOOLEAN, NEW d \in Keys \cup {Home},
         NEW u \in {"off", "run", "write", "done"}, NEW w \in {"off", "run", "write", "done"}
  PROVE /\ [r EXCEPT !.ws = b] \in HandlerRec /\ [r EXCEPT !.dir = d] \in HandlerRec
        /\ [r EXCEPT !.up = u] \in HandlerRec /\ [r EXCEPT !.down = w] \in HandlerRec
        /\ \A f \in {[r EXCEPT !.ws = b], [r EXCEPT !.dir = d], [r EXCEPT !.up = u],
                     [r EXCEPT !.down = w]} :
             f.res = r.res /\ SameRequest(f, r) /\ SameCreate(f, r)
BY DEF HandlerRec, Answers, SameRequest, SameCreate

(* A step that assigns to the handler h alone. *)
LEMMA OneHandler ==
  ASSUME NEW f \in [Handlers -> HandlerRec], NEW h \in Handlers, NEW r \in HandlerRec
  PROVE LET n == [f EXCEPT ![h] = r]
        IN n \in [Handlers -> HandlerRec] /\ n[h] = r /\ \A g \in Handlers \ {h} : n[g] = f[g]
OBVIOUS

(* What the answers depend on stays the same for the handlers of H. *)
Kept(H) ==
  \A g \in H :
    /\ hs'[g].res = hs[g].res
    /\ SameRequest(hs'[g], hs[g]) /\ SameCreate(hs'[g], hs[g])

(* The effect of each kind of step on the handlers and on the sessions. *)
LEMMA AnswerEffect ==
  ASSUME RecType, NEW h \in Handlers, NEW v \in Answers, hs' = [hs EXCEPT ![h].res = v]
  PROVE /\ hs' \in [Handlers -> HandlerRec] /\ Kept(Handlers \ {h})
        /\ hs'[h].res = v /\ SameRequest(hs'[h], hs[h]) /\ SameCreate(hs'[h], hs[h])
<1> DEFINE r == [hs[h] EXCEPT !.res = v]
<1>1. hs[h] \in HandlerRec
  BY DEF RecType
<1>2. r \in HandlerRec /\ r.res = v /\ SameRequest(r, hs[h]) /\ SameCreate(r, hs[h])
  BY <1>1, AssignRes
<1>3. hs' = [hs EXCEPT ![h] = r]
  OBVIOUS
<1> HIDE DEF r
<1>4. /\ hs' \in [Handlers -> HandlerRec] /\ hs'[h] = r
      /\ \A g \in Handlers \ {h} : hs'[g] = hs[g]
  BY <1>2, <1>3, OneHandler DEF RecType
<1> QED
  BY <1>2, <1>4 DEF Kept, SameRequest, SameCreate

(* A handler's fork is pending, or no longer. *)
LEMMA PendEffect ==
  ASSUME RecType, NEW h \in Handlers, NEW b \in BOOLEAN, hs' = [hs EXCEPT ![h].pend = b]
  PROVE /\ hs' \in [Handlers -> HandlerRec] /\ Kept(Handlers \ {h})
        /\ hs'[h].pend = b /\ hs'[h].made = hs[h].made /\ hs'[h].mixed = hs[h].mixed
        /\ hs'[h].res = hs[h].res /\ SameRequest(hs'[h], hs[h])
<1> DEFINE r == [hs[h] EXCEPT !.pend = b]
<1>1. hs[h] \in HandlerRec
  BY DEF RecType
<1>2. /\ r \in HandlerRec /\ r.pend = b /\ r.made = hs[h].made /\ r.mixed = hs[h].mixed
      /\ r.res = hs[h].res /\ SameRequest(r, hs[h])
  BY <1>1, AssignPend
<1>3. hs' = [hs EXCEPT ![h] = r]
  OBVIOUS
<1> HIDE DEF r
<1>4. /\ hs' \in [Handlers -> HandlerRec] /\ hs'[h] = r
      /\ \A g \in Handlers \ {h} : hs'[g] = hs[g]
  BY <1>2, <1>3, OneHandler DEF RecType
<1> QED
  BY <1>2, <1>4 DEF Kept, SameRequest, SameCreate

(* A whole record is assigned. *)
LEMMA RecordEffect ==
  ASSUME RecType, NEW h \in Handlers, NEW r \in HandlerRec, hs' = [hs EXCEPT ![h] = r]
  PROVE hs' \in [Handlers -> HandlerRec] /\ Kept(Handlers \ {h}) /\ hs'[h] = r
<1>1. /\ hs' \in [Handlers -> HandlerRec] /\ hs'[h] = r
      /\ \A g \in Handlers \ {h} : hs'[g] = hs[g]
  BY OneHandler DEF RecType
<1> QED
  BY <1>1 DEF Kept, SameRequest, SameCreate

(* The pumps, the browser and the directory of a new session have no part   *)
(* in the answers.                                                          *)
LEMMA QuietEffect ==
  ASSUME RecType, NEW h \in Handlers, NEW r \in HandlerRec, hs' = [hs EXCEPT ![h] = r],
         r.res = hs[h].res, SameRequest(r, hs[h]), SameCreate(r, hs[h])
  PROVE hs' \in [Handlers -> HandlerRec] /\ Kept(Handlers)
BY RecordEffect DEF Kept, SameRequest, SameCreate

QuietStep(h) ==
  \/ Bridged(h) \/ BrowserLeaves(h) \/ Getwd(h)
  \/ PumpUp(h) \/ PumpUpWritten(h) \/ PumpUpFails(h) \/ PumpUpEnds(h)
  \/ PumpDown(h) \/ PumpDownEnds(h) \/ PumpWritten(h) \/ PumpWriteFails(h)

(* A quiet step changes no field that the invariants read. *)
LEMMA QuietSteps ==
  ASSUME TypeOK, RecType, NEW h \in Handlers, QuietStep(h)
  PROVE hs' \in [Handlers -> HandlerRec] /\ Kept(Handlers)
<1>0. hs[h] \in HandlerRec
  BY DEF RecType
<1>1. CASE Bridged(h)
  <2> DEFINE q == [hs[h] EXCEPT !.up = "run"]
             r == [q EXCEPT !.down = "run"]
  <2>1. hs' = [hs EXCEPT ![h] = r]
    BY <1>1 DEF Bridged, RecType
  <2>2. q \in HandlerRec /\ q.res = hs[h].res /\ SameRequest(q, hs[h]) /\ SameCreate(q, hs[h])
    BY <1>0, AssignOther
  <2> HIDE DEF q
  <2>3. r \in HandlerRec /\ r.res = q.res /\ SameRequest(r, q) /\ SameCreate(r, q)
    BY <2>2, AssignOther
  <2> HIDE DEF r
  <2>4. r.res = hs[h].res /\ SameRequest(r, hs[h]) /\ SameCreate(r, hs[h])
    BY <2>2, <2>3 DEF SameRequest, SameCreate
  <2> QED
    BY <2>1, <2>3, <2>4, QuietEffect
<1>2. CASE BrowserLeaves(h)
  <2> DEFINE r == [hs[h] EXCEPT !.ws = FALSE]
  <2>1. hs' = [hs EXCEPT ![h] = r]
    BY <1>2 DEF BrowserLeaves
  <2>2. r \in HandlerRec /\ r.res = hs[h].res /\ SameRequest(r, hs[h]) /\ SameCreate(r, hs[h])
    BY <1>0, AssignOther
  <2> HIDE DEF r
  <2> QED
    BY <2>1, <2>2, QuietEffect
<1>3. CASE Getwd(h)
  <2> DEFINE r == [hs[h] EXCEPT !.dir = cwd]
  <2>1. hs' = [hs EXCEPT ![h] = r]
    BY <1>3 DEF Getwd
  <2>2. r \in HandlerRec /\ r.res = hs[h].res /\ SameRequest(r, hs[h]) /\ SameCreate(r, hs[h])
    BY <1>0, AssignOther DEF TypeOK
  <2> HIDE DEF r
  <2> QED
    BY <2>1, <2>2, QuietEffect
<1>4. CASE PumpUp(h) \/ PumpUpWritten(h) \/ PumpUpFails(h) \/ PumpUpEnds(h)
  <2>1. PICK v \in {"off", "run", "write", "done"} : hs' = [hs EXCEPT ![h].up = v]
    BY <1>4 DEF PumpUp, PumpUpWritten, PumpUpFails, PumpUpEnds, SetUp
  <2> DEFINE r == [hs[h] EXCEPT !.up = v]
  <2>2. hs' = [hs EXCEPT ![h] = r]
    BY <2>1
  <2>3. r \in HandlerRec /\ r.res = hs[h].res /\ SameRequest(r, hs[h]) /\ SameCreate(r, hs[h])
    BY <1>0, AssignOther
  <2> HIDE DEF r
  <2> QED
    BY <2>2, <2>3, QuietEffect
<1>5. CASE PumpDown(h) \/ PumpDownEnds(h) \/ PumpWritten(h) \/ PumpWriteFails(h)
  <2>1. PICK v \in {"off", "run", "write", "done"} : hs' = [hs EXCEPT ![h].down = v]
    BY <1>5 DEF PumpDown, PumpDownEnds, PumpWritten, PumpWriteFails, SetDown
  <2> DEFINE r == [hs[h] EXCEPT !.down = v]
  <2>2. hs' = [hs EXCEPT ![h] = r]
    BY <2>1
  <2>3. r \in HandlerRec /\ r.res = hs[h].res /\ SameRequest(r, hs[h]) /\ SameCreate(r, hs[h])
    BY <1>0, AssignOther
  <2> HIDE DEF r
  <2> QED
    BY <2>2, <2>3, QuietEffect
<1> QED
  BY <1>1, <1>2, <1>3, <1>4, <1>5 DEF QuietStep

(* What Accept does to the handlers' records. *)
LEMMA AcceptEffect ==
  ASSUME RecType, NEW h \in Handlers, NEW kd \in {"proxy", "bridge", "create"}, NEW k \in Keys,
         Accept(h, kd, k)
  PROVE /\ hs' \in [Handlers -> HandlerRec] /\ Kept(Handlers \ {h})
        /\ hs'[h].kind = kd /\ hs'[h].res = "none" /\ hs'[h].pend = FALSE
        /\ hs'[h].whole <=> ss[k].state = "up" /\ (relative => mu = None)
<1> DEFINE w == ss[k].state = "up" /\ (relative => mu = None)
           r == [Idle EXCEPT !.kind = kd, !.ws = kd = "bridge", !.whole = w]
<1>1. hs' = [hs EXCEPT ![h] = r]
  BY DEF Accept
<1>2. w \in BOOLEAN /\ (kd = "bridge") \in BOOLEAN
  OBVIOUS
<1> HIDE DEF w
<1>3. /\ r \in HandlerRec
      /\ r.kind = kd /\ r.res = "none" /\ r.pend = FALSE /\ r.whole = w
  BY <1>2 DEF Idle, HandlerRec, Answers
<1> HIDE DEF r
<1>4. hs' \in [Handlers -> HandlerRec] /\ Kept(Handlers \ {h}) /\ hs'[h] = r
  BY <1>1, <1>3, RecordEffect
<1> QED
  BY <1>3, <1>4 DEF w

(* What Return does to the handlers' records. *)
LEMMA ReturnEffect ==
  ASSUME RecType, NEW h \in Handlers, Return(h)
  PROVE /\ hs' \in [Handlers -> HandlerRec] /\ Kept(Handlers \ {h})
        /\ hs'[h].res = "none" /\ hs'[h].pend = FALSE
<1>1. Idle \in HandlerRec /\ Idle.res = "none" /\ Idle.pend = FALSE
  BY DEF Idle, HandlerRec, Answers
<1>2. hs' = [hs EXCEPT ![h] = Idle]
  BY DEF Return
<1>3. hs' \in [Handlers -> HandlerRec] /\ Kept(Handlers \ {h}) /\ hs'[h] = Idle
  BY <1>1, <1>2, RecordEffect
<1> QED
  BY <1>1, <1>3

(* What CloseBridge does to the handlers' records. *)
LEMMA CloseEffect ==
  ASSUME RecType, NEW h \in Handlers, CloseBridge(h)
  PROVE /\ hs' \in [Handlers -> HandlerRec] /\ Kept(Handlers \ {h})
        /\ hs'[h].res = "ok" /\ SameRequest(hs'[h], hs[h]) /\ SameCreate(hs'[h], hs[h])
<1> DEFINE q == [hs[h] EXCEPT !.res = "ok"]
           r == [q EXCEPT !.ws = FALSE]
<1>0. hs[h] \in HandlerRec
  BY DEF RecType
<1>1. hs' = [hs EXCEPT ![h] = r]
  BY DEF CloseBridge, RecType
<1>2. q \in HandlerRec /\ q.res = "ok" /\ SameRequest(q, hs[h]) /\ SameCreate(q, hs[h])
  BY <1>0, AssignRes DEF Answers
<1> HIDE DEF q
<1>3. r \in HandlerRec /\ r.res = q.res /\ SameRequest(r, q) /\ SameCreate(r, q)
  BY <1>2, AssignOther
<1> HIDE DEF r
<1>4. hs' \in [Handlers -> HandlerRec] /\ Kept(Handlers \ {h}) /\ hs'[h] = r
  BY <1>1, <1>3, RecordEffect
<1> QED
  BY <1>2, <1>3, <1>4 DEF SameRequest, SameCreate

(* What the answer of a creation does to the handlers' records. *)
LEMMA CreatedEffect ==
  ASSUME RecType, NEW h \in Handlers, NEW m \in Handlers \cup {None},
         hs' = [hs EXCEPT ![h].res = "created", ![h].made = m]
  PROVE /\ hs' \in [Handlers -> HandlerRec] /\ Kept(Handlers \ {h})
        /\ hs'[h].res = "created" /\ SameRequest(hs'[h], hs[h])
        /\ hs'[h].made = m /\ hs'[h].pend = hs[h].pend /\ hs'[h].mixed = hs[h].mixed
<1> DEFINE q == [hs[h] EXCEPT !.res = "created"]
           r == [q EXCEPT !.made = m]
<1>0. hs[h] \in HandlerRec
  BY DEF RecType
<1>1. hs' = [hs EXCEPT ![h] = r]
  BY DEF RecType
<1>2. q \in HandlerRec /\ q.res = "created" /\ SameRequest(q, hs[h]) /\ SameCreate(q, hs[h])
  BY <1>0, AssignRes DEF Answers
<1> HIDE DEF q
<1>3. /\ r \in HandlerRec /\ r.res = q.res /\ SameRequest(r, q)
      /\ r.made = m /\ r.pend = q.pend /\ r.mixed = q.mixed
  BY <1>2, AssignMade
<1> HIDE DEF r
<1>4. hs' \in [Handlers -> HandlerRec] /\ Kept(Handlers \ {h}) /\ hs'[h] = r
  BY <1>1, <1>3, RecordEffect
<1> QED
  BY <1>2, <1>3, <1>4 DEF SameRequest, SameCreate

(* Chdir and SessionEnds: some requests are no longer whole. *)
LEMMA WholeEffect ==
  ASSUME RecType, NEW W \in [Handlers -> BOOLEAN],
         hs' = [g \in Handlers |-> [hs[g] EXCEPT !.whole = @ /\ W[g]]]
  PROVE /\ hs' \in [Handlers -> HandlerRec]
        /\ \A g \in Handlers :
             /\ hs'[g].kind = hs[g].kind /\ hs'[g].res = hs[g].res /\ SameCreate(hs'[g], hs[g])
             /\ hs'[g].whole <=> hs[g].whole /\ W[g]
<1> DEFINE b(g) == hs[g].whole /\ W[g]
           r(g) == [hs[g] EXCEPT !.whole = b(g)]
<1>1. \A g \in Handlers : hs'[g] = r(g)
  OBVIOUS
<1>2. \A g \in Handlers : b(g) \in BOOLEAN
  OBVIOUS
<1>3. ASSUME NEW g \in Handlers
      PROVE /\ r(g) \in HandlerRec /\ r(g).whole = b(g)
            /\ r(g).kind = hs[g].kind /\ r(g).res = hs[g].res /\ SameCreate(r(g), hs[g])
  <2>1. hs[g] \in HandlerRec
    BY DEF RecType
  <2> HIDE DEF b
  <2> QED
    BY <1>2, <2>1, AssignWhole
<1>4. hs' = [g \in Handlers |-> r(g)]
  OBVIOUS
<1> HIDE DEF r
<1>5. hs' \in [Handlers -> HandlerRec]
  BY <1>3, <1>4
<1>6. ASSUME NEW g \in Handlers
      PROVE /\ hs'[g].kind = hs[g].kind /\ hs'[g].res = hs[g].res /\ SameCreate(hs'[g], hs[g])
            /\ hs'[g].whole <=> hs[g].whole /\ W[g]
  BY <1>1, <1>3
<1> QED
  BY <1>5, <1>6

(* What Chdir does: with a relative state directory, the others' requests   *)
(* are no longer whole.                                                     *)
LEMMA ChdirEffect ==
  ASSUME RecType, NEW h \in Handlers, Chdir(h)
  PROVE /\ hs' \in [Handlers -> HandlerRec]
        /\ \A g \in Handlers :
             /\ hs'[g].kind = hs[g].kind /\ hs'[g].res = hs[g].res /\ SameCreate(hs'[g], hs[g])
             /\ hs'[g].whole <=> hs[g].whole /\ (g = h \/ ~relative)
<1> DEFINE W == [g \in Handlers |-> g = h \/ ~relative]
<1>1. W \in [Handlers -> BOOLEAN]
  OBVIOUS
<1>2. hs' = [g \in Handlers |-> [hs[g] EXCEPT !.whole = @ /\ W[g]]]
  BY DEF Chdir
<1> QED
  BY <1>1, <1>2, WholeEffect

(* What SessionEnds does to the handlers' records. *)
LEMMA EndsEffect ==
  ASSUME RecType, NEW k \in Keys, SessionEnds(k)
  PROVE /\ hs' \in [Handlers -> HandlerRec]
        /\ \A g \in Handlers :
             /\ hs'[g].kind = hs[g].kind /\ hs'[g].res = hs[g].res /\ SameCreate(hs'[g], hs[g])
             /\ hs'[g].whole <=> hs[g].whole /\ key[g] # k
<1> DEFINE W == [g \in Handlers |-> key[g] # k]
<1>1. W \in [Handlers -> BOOLEAN]
  OBVIOUS
<1>2. hs' = [g \in Handlers |-> [hs[g] EXCEPT !.whole = @ /\ W[g]]]
  BY DEF SessionEnds
<1> QED
  BY <1>1, <1>2, WholeEffect

(* What Proceed does: rivals for the same key mark each other as mixed. *)
LEMMA ProceedEffect ==
  ASSUME RecType, NEW h \in Handlers, Proceed(h)
  PROVE /\ hs' \in [Handlers -> HandlerRec]
        /\ \A g \in Handlers :
             /\ hs'[g].res = hs[g].res /\ SameRequest(hs'[g], hs[g])
             /\ hs'[g].pend = hs[g].pend /\ hs'[g].made = hs[g].made
             /\ g = h => (hs'[g].mixed <=> Stale(key[h]) \/ Rivals(h) # {})
             /\ g # h => (hs'[g].mixed <=> hs[g].mixed \/ g \in Rivals(h))
<1> DEFINE b(g) == IF g = h THEN Stale(key[h]) \/ Rivals(h) # {} ELSE hs[g].mixed \/ g \in Rivals(h)
           r(g) == [hs[g] EXCEPT !.mixed = b(g)]
<1>1. \A g \in Handlers : hs'[g] = r(g)
  BY DEF Proceed
<1>2. \A g \in Handlers : b(g) \in BOOLEAN
  OBVIOUS
<1>3. ASSUME NEW g \in Handlers
      PROVE /\ r(g) \in HandlerRec /\ r(g).mixed = b(g)
            /\ r(g).pend = hs[g].pend /\ r(g).made = hs[g].made
            /\ r(g).res = hs[g].res /\ SameRequest(r(g), hs[g])
  <2>1. hs[g] \in HandlerRec
    BY DEF RecType
  <2> HIDE DEF b
  <2> QED
    BY <1>2, <2>1, AssignMixed
<1>4. hs' = [g \in Handlers |-> r(g)]
  BY DEF Proceed
<1> HIDE DEF r
<1>5. hs' \in [Handlers -> HandlerRec]
  BY <1>3, <1>4
<1> QED
  BY <1>1, <1>3, <1>5

(* One session's record is replaced. *)
LEMMA OneSession ==
  ASSUME NEW f \in [Keys -> SessionRec], NEW k \in Keys, NEW r \in SessionRec
  PROVE LET n == [f EXCEPT ![k] = r]
        IN n \in [Keys -> SessionRec] /\ n[k] = r /\ \A j \in Keys \ {k} : n[j] = f[j]
OBVIOUS

(* What SessionStarts does to the session of a free key. *)
LEMMA StartEffect ==
  ASSUME RecType, NEW h \in Handlers, key[h] \in Keys, SessionStarts(h), ~Alive(key[h])
  PROVE /\ ss' \in [Keys -> SessionRec] /\ \A j \in Keys \ {key[h]} : ss'[j] = ss[j]
        /\ ss'[key[h]].state = "starting" /\ ss'[key[h]].owner = h
        /\ ss'[key[h]].sock = ss[key[h]].sock
<1> DEFINE k == key[h]
           q == [ss[k] EXCEPT !.state = "starting"]
           r == [q EXCEPT !.owner = h]
<1>1. ss' = [ss EXCEPT ![k] = r]
  BY DEF SessionStarts, RecType
<1>2. /\ r \in SessionRec
      /\ r.state = "starting" /\ r.owner = h /\ r.sock = ss[k].sock
  BY DEF RecType, SessionRec
<1> HIDE DEF r
<1> QED
  BY <1>1, <1>2, OneSession DEF RecType

(* What SessionListens does to its session. *)
LEMMA ListenEffect ==
  ASSUME RecType, NEW k \in Keys, SessionListens(k)
  PROVE /\ ss' \in [Keys -> SessionRec] /\ \A j \in Keys \ {k} : ss'[j] = ss[j]
        /\ ss'[k].state = "up" /\ ss'[k].sock = "live" /\ ss'[k].owner = ss[k].owner
<1> DEFINE q == [ss[k] EXCEPT !.state = "up"]
           r == [q EXCEPT !.sock = "live"]
<1>1. ss' = [ss EXCEPT ![k] = r]
  BY DEF SessionListens, RecType
<1>2. r \in SessionRec /\ r.state = "up" /\ r.sock = "live" /\ r.owner = ss[k].owner
  BY DEF RecType, SessionRec
<1> HIDE DEF r
<1> QED
  BY <1>1, <1>2, OneSession DEF RecType

(* What SessionEnds does to its session. *)
LEMMA EndEffect ==
  ASSUME RecType, NEW k \in Keys, SessionEnds(k)
  PROVE /\ ss' \in [Keys -> SessionRec] /\ \A j \in Keys \ {k} : ss'[j] = ss[j]
        /\ ss'[k].state = "gone" /\ ss'[k].sock # "live" /\ ss'[k].owner = ss[k].owner
<1>1. PICK s \in {"no", "stale"} :
        ss' = [ss EXCEPT ![k].state = "gone", ![k].sock = IF @ = "live" THEN s ELSE @]
  BY DEF SessionEnds
<1> DEFINE q == [ss[k] EXCEPT !.state = "gone"]
           r == [q EXCEPT !.sock = IF ss[k].sock = "live" THEN s ELSE ss[k].sock]
<1>2. ss' = [ss EXCEPT ![k] = r]
  BY <1>1 DEF RecType, SessionRec
<1>3. r \in SessionRec /\ r.state = "gone" /\ r.sock # "live" /\ r.owner = ss[k].owner
  BY DEF RecType, SessionRec
<1> HIDE DEF r
<1> QED
  BY <1>2, <1>3, OneSession DEF RecType

-----------------------------------------------------------------------------
(* Where a handler is *)

(* Only a create gets to the steps of one; its fork is outstanding from the *)
(* wait on; it answers in its last step.                                    *)
CreateSteps == {"probe", "getwd", "fork", "wait", "load"}
Place(h) ==
  /\ pc[h] \in CreateSteps => hs[h].kind = "create"
  /\ hs[h].pend => pc[h] \in {"wait", "load", "done"}
  /\ pc[h] # "done" => hs[h].res = "none"
PlaceOK == \A h \in Handlers : Place(h)

(* Every step keeps the records' types. *)
LEMMA RecStep ==
  ASSUME TypeOK, RecType, PlaceOK, [Next]_vars
  PROVE RecType'
<1> USE DEF RecType
<1>1. ASSUME NEW h \in Handlers, NEW kd \in {"proxy", "bridge", "create"}, NEW k \in Keys,
             Accept(h, kd, k)
      PROVE RecType'
  BY <1>1, AcceptEffect DEF Accept
<1>2. ASSUME NEW h \in Handlers, NEW v \in Answers, Answer(h, v), ss' = ss
      PROVE RecType'
  BY <1>2, AnswerEffect DEF Answer
<1>3. ASSUME NEW h \in Handlers, Resolve(h) \/ DialFails(h) \/ Proxied(h) PROVE RecType'
  BY <1>2, <1>3 DEF Resolve, DialFails, Proxied, Answers
<1>4. ASSUME NEW h \in Handlers, Chdir(h) PROVE RecType'
  BY <1>4, ChdirEffect DEF Chdir
<1>5. ASSUME NEW h \in Handlers, QuietStep(h) PROVE RecType'
  BY <1>5, QuietSteps DEF QuietStep, Bridged, BrowserLeaves, Getwd, PumpUp,
                          PumpUpWritten, PumpUpFails, PumpUpEnds, PumpDown, PumpDownEnds,
                          PumpWritten, PumpWriteFails, SetUp, SetDown
<1>6. ASSUME NEW h \in Handlers, CloseBridge(h) PROVE RecType'
  BY <1>6, CloseEffect DEF CloseBridge
<1>7. ASSUME NEW h \in Handlers, Return(h) PROVE RecType'
  BY <1>7, ReturnEffect DEF Return
<1>8. ASSUME NEW h \in Handlers, ProbeKey(h) PROVE RecType'
  BY <1>2, <1>8, ProceedEffect DEF ProbeKey, Answers
<1>9. ASSUME NEW h \in Handlers, Fork(h) PROVE RecType'
  BY <1>2, <1>9, PendEffect DEF Fork, Answers
<1>10. ASSUME NEW h \in Handlers, WaitForSocket(h) PROVE RecType'
  BY <1>2, <1>10 DEF WaitForSocket, Answers
<1>11. ASSUME NEW h \in Handlers, LoadState(h) PROVE RecType'
  <2>1. ss[key[h]].owner \in Handlers \cup {None}
    BY <1>11 DEF TypeOK, LoadState, At, SessionRec
  <2> QED
    BY <1>2, <1>11, <2>1, CreatedEffect DEF LoadState, Answers
<1>12. ASSUME NEW h \in Handlers, SessionStarts(h) PROVE RecType'
  <2>1. key[h] \in Keys
    BY <1>12 DEF SessionStarts, PlaceOK, Place, TypeOK
  <2>2. hs' \in [Handlers -> HandlerRec]
    BY <1>12, PendEffect DEF SessionStarts
  <2> QED
    BY <1>12, <2>1, <2>2, StartEffect DEF SessionStarts
<1>13. ASSUME NEW k \in Keys, SessionListens(k) PROVE RecType'
  BY <1>13, ListenEffect DEF SessionListens
<1>14. ASSUME NEW k \in Keys, SessionEnds(k) PROVE RecType'
  BY <1>14, EndsEffect, EndEffect
<1>15. CASE UNCHANGED <<hs, ss>>
  BY <1>15
<1> QED
  BY <1>1, <1>3, <1>4, <1>5, <1>6, <1>7, <1>8, <1>9, <1>10, <1>11, <1>12, <1>13, <1>14, <1>15
     DEF Next, DialStep, CreateStep, QuietStep, Dial, LockChdir, ChdirFails, DialBase, Restore, vars

(* Every step keeps where the handlers may be. *)
LEMMA PlaceStep ==
  ASSUME TypeOK, RecType, PlaceOK, [Next]_vars
  PROVE PlaceOK'
<1> USE DEF PlaceOK, Place
<1>1. ASSUME NEW h \in Handlers, NEW kd \in {"proxy", "bridge", "create"}, NEW k \in Keys,
             Accept(h, kd, k)
      PROVE PlaceOK'
  <2>1. pc' = [pc EXCEPT ![h] =
                 CASE kd = "proxy" -> "resolve" [] kd = "bridge" -> "dial" [] kd = "create" -> "probe"]
    BY <1>1 DEF Accept, Go
  <2>2. Kept(Handlers \ {h}) /\ hs'[h].kind = kd /\ hs'[h].res = "none" /\ hs'[h].pend = FALSE
    BY <1>1, AcceptEffect
  <2> QED
    BY <2>1, <2>2 DEF TypeOK, CreateSteps, Kept, SameRequest, SameCreate
<1>2. ASSUME NEW h \in Handlers, NEW v \in Answers, Answer(h, v), pc[h] # "idle"
      PROVE PlaceOK'
  BY <1>2, AnswerEffect DEF Answer, Go, TypeOK, CreateSteps, Kept, SameRequest, SameCreate
<1>3. ASSUME NEW h \in Handlers, NEW l \in {"dial", "dialled", "lock", "chdir", "restore"},
             pc[h] \notin {"wait", "load", "done"}, Go(h, l), hs' = hs
      PROVE PlaceOK'
  BY <1>3 DEF Go, TypeOK, CreateSteps
<1>4. ASSUME NEW h \in Handlers,
             \/ Resolve(h) \/ Dial(h) \/ LockChdir(h) \/ ChdirFails(h) \/ DialBase(h)
             \/ Restore(h) \/ DialFails(h) \/ Proxied(h)
      PROVE PlaceOK'
  BY <1>2, <1>3, <1>4
     DEF Resolve, Dial, LockChdir, ChdirFails, DialBase, Restore, DialFails, Proxied, At, Answers
<1>5. ASSUME NEW h \in Handlers, Chdir(h) PROVE PlaceOK'
  <2>1. pc[h] = "chdir" /\ pc' = [pc EXCEPT ![h] = "dialBase"]
    BY <1>5 DEF Chdir, Go, At
  <2>2. \A g \in Handlers :
          hs'[g].kind = hs[g].kind /\ hs'[g].res = hs[g].res /\ hs'[g].pend = hs[g].pend
    BY <1>5, ChdirEffect DEF SameCreate
  <2> QED
    BY <2>1, <2>2 DEF TypeOK, CreateSteps
<1>6. ASSUME NEW h \in Handlers, QuietStep(h) PROVE PlaceOK'
  <2>1. Kept(Handlers)
    BY <1>6, QuietSteps
  <2>2. CASE pc' = pc
    BY <2>1, <2>2 DEF Kept, SameRequest, SameCreate
  <2>3. CASE Bridged(h) \/ Getwd(h)
    BY <2>1, <2>3 DEF Kept, SameRequest, SameCreate, Bridged, Getwd, Go, At, TypeOK, CreateSteps
  <2> QED
    BY <1>6, <2>2, <2>3 DEF QuietStep, BrowserLeaves, PumpUp, PumpUpWritten, PumpUpFails, PumpUpEnds,
                          PumpDown, PumpDownEnds,
                          PumpWritten, PumpWriteFails, SetUp, SetDown
<1>7. ASSUME NEW h \in Handlers, CloseBridge(h) PROVE PlaceOK'
  <2>1. pc[h] = "serve" /\ pc' = [pc EXCEPT ![h] = "done"]
    BY <1>7 DEF CloseBridge, Go, At
  <2>2. Kept(Handlers \ {h}) /\ SameCreate(hs'[h], hs[h])
    BY <1>7, CloseEffect
  <2> QED
    BY <2>1, <2>2 DEF TypeOK, CreateSteps, Kept, SameRequest, SameCreate
<1>8. ASSUME NEW h \in Handlers, Return(h) PROVE PlaceOK'
  BY <1>8, ReturnEffect DEF Return, Go, TypeOK, CreateSteps, Kept, SameRequest, SameCreate
<1>9. ASSUME NEW h \in Handlers, ProbeKey(h) PROVE PlaceOK'
  <2>1. CASE Proceed(h)
    <3>1. pc[h] = "probe" /\ pc' = [pc EXCEPT ![h] = "getwd"]
      BY <1>9, <2>1 DEF ProbeKey, Proceed, Go, At
    <3>2. \A g \in Handlers :
            hs'[g].kind = hs[g].kind /\ hs'[g].res = hs[g].res /\ hs'[g].pend = hs[g].pend
      BY <2>1, ProceedEffect DEF SameRequest
    <3> QED
      BY <3>1, <3>2 DEF TypeOK, CreateSteps
  <2> QED
    BY <1>2, <1>9, <2>1 DEF ProbeKey, At, Answers
<1>10. ASSUME NEW h \in Handlers, Fork(h) PROVE PlaceOK'
  <2>1. CASE Go(h, "wait") /\ hs' = [hs EXCEPT ![h].pend = TRUE]
    BY <1>10, <2>1, PendEffect
       DEF Fork, Go, At, TypeOK, CreateSteps, Kept, SameRequest, SameCreate
  <2> QED
    BY <1>2, <1>10, <2>1 DEF Fork, At, Answers
<1>11. ASSUME NEW h \in Handlers, WaitForSocket(h) PROVE PlaceOK'
  <2>1. CASE Go(h, "load") /\ hs' = hs
    BY <1>11, <2>1 DEF WaitForSocket, Go, At, TypeOK, CreateSteps
  <2> QED
    BY <1>2, <1>11, <2>1 DEF WaitForSocket, At, Answers
<1>12. ASSUME NEW h \in Handlers, LoadState(h) PROVE PlaceOK'
  <2>1. ss[key[h]].owner \in Handlers \cup {None}
    BY <1>12 DEF TypeOK, LoadState, At, RecType, SessionRec
  <2>2. CASE Go(h, "done") /\ hs' = [hs EXCEPT ![h].res = "created", ![h].made = ss[key[h]].owner]
    <3>1. pc[h] = "load" /\ pc' = [pc EXCEPT ![h] = "done"]
      BY <1>12, <2>2 DEF LoadState, Go, At
    <3>2. Kept(Handlers \ {h}) /\ hs'[h].pend = hs[h].pend
      BY <2>1, <2>2, CreatedEffect
    <3> QED
      BY <3>1, <3>2 DEF TypeOK, CreateSteps, Kept, SameRequest, SameCreate
  <2> QED
    BY <1>2, <1>12, <2>2 DEF LoadState, At, Answers
<1>13. ASSUME NEW h \in Handlers, SessionStarts(h) PROVE PlaceOK'
  BY <1>13, PendEffect DEF SessionStarts, Kept, SameRequest, SameCreate
<1>14. ASSUME NEW k \in Keys, SessionListens(k) PROVE PlaceOK'
  BY <1>14 DEF SessionListens
<1>15. ASSUME NEW k \in Keys, SessionEnds(k) PROVE PlaceOK'
  <2>1. pc' = pc
    BY <1>15 DEF SessionEnds
  <2>2. \A g \in Handlers :
          hs'[g].kind = hs[g].kind /\ hs'[g].res = hs[g].res /\ hs'[g].pend = hs[g].pend
    BY <1>15, EndsEffect DEF SameCreate
  <2> QED
    BY <2>1, <2>2
<1>16. CASE UNCHANGED vars
  BY <1>16 DEF vars
<1> QED
  BY <1>1, <1>4, <1>5, <1>6, <1>7, <1>8, <1>9, <1>10, <1>11, <1>12, <1>13, <1>14, <1>15, <1>16
     DEF Next, DialStep, CreateStep, QuietStep

-----------------------------------------------------------------------------
(* A session that is up is reached *)

(* There is a socket to be dialled while the session is up, and only then. *)
SessOK == \A k \in Keys : ss[k].state = "up" <=> ss[k].sock = "live"

(* Every step keeps the sockets with the sessions that are up. *)
LEMMA SessStep ==
  ASSUME TypeOK, RecType, PlaceOK, SessOK, [Next]_vars
  PROVE SessOK'
<1> USE DEF SessOK
<1>1. ASSUME NEW h \in Handlers, SessionStarts(h) PROVE SessOK'
  <2>1. key[h] \in Keys
    BY <1>1 DEF SessionStarts, PlaceOK, Place, TypeOK
  <2>2. CASE Alive(key[h])
    BY <1>1, <2>2 DEF SessionStarts
  <2>3. CASE ~Alive(key[h])
    <3>1. /\ \A j \in Keys \ {key[h]} : ss'[j] = ss[j]
          /\ ss'[key[h]].state = "starting" /\ ss'[key[h]].sock = ss[key[h]].sock
      BY <1>1, <2>1, <2>3, StartEffect
    <3> QED
      BY <2>1, <2>3, <3>1 DEF Alive
  <2> QED
    BY <2>2, <2>3
<1>2. ASSUME NEW k \in Keys, SessionListens(k) PROVE SessOK'
  BY <1>2, ListenEffect
<1>3. ASSUME NEW k \in Keys, SessionEnds(k) PROVE SessOK'
  BY <1>3, EndEffect
<1>4. CASE ss' = ss
  BY <1>4
<1> QED
  BY <1>1, <1>2, <1>3, <1>4
     DEF Next, DialStep, CreateStep, Accept, Resolve, Dial, LockChdir, Chdir, ChdirFails, DialBase,
         Restore, DialFails, Proxied, Bridged, CloseBridge, Return, BrowserLeaves, PumpUp,
         PumpUpWritten, PumpUpFails,
         PumpUpEnds, PumpDown, PumpDownEnds, PumpWritten, PumpWriteFails, SetUp, SetDown, ProbeKey, Getwd, Fork,
         WaitForSocket, LoadState, vars

(* While a request for a session is whole, the session is up; a relative    *)
(* state directory is out of the handler's reach in its own detour only;    *)
(* the dial succeeds, and so does the request.                              *)
Within(h) == hs[h].kind # "create" /\ hs[h].whole /\ pc[h] # "idle"
Reach(h) ==
  Within(h) =>
    /\ ss[key[h]].state = "up"
    /\ relative => cwd = Home \/ mu = h
    /\ pc[h] \in {"restore", "dialled", "serve"} => conn[h] = key[h]
    /\ pc[h] = "done" => hs[h].res = "ok"
ReachOK == \A h \in Handlers : Reach(h)

(* A step that leaves a handler, its session and its connection alone, and  *)
(* does not take the state directory away, keeps the handler's reach.       *)
LEMMA ReachKept ==
  ASSUME NEW g \in Handlers, Reach(g), relative' = relative,
         Within(g)' => Within(g) /\ hs'[g].res = hs[g].res /\ pc'[g] = pc[g] /\ key'[g] = key[g]
                       /\ conn'[g] = conn[g] /\ ss'[key[g]].state = ss[key[g]].state,
         cwd' = Home \/ (cwd' = cwd /\ (mu' = mu \/ mu # g)) \/ mu' = g
  PROVE Reach(g)'
BY DEF Reach

(* The handler h moves to l, and nobody else does anything. *)
Moves(h, l) ==
  /\ pc' = [pc EXCEPT ![h] = l] /\ \A g \in Handlers \ {h} : conn'[g] = conn[g]
  /\ cwd' = Home \/ UNCHANGED <<cwd, mu>>
  /\ UNCHANGED <<relative, key, ss>>

(* A handler moves: the others' reach is not affected. *)
LEMMA ReachOthers ==
  ASSUME TypeOK, ReachOK, NEW h \in Handlers, NEW l, Moves(h, l), Kept(Handlers \ {h}), Reach(h)'
  PROVE ReachOK'
<1>1. ASSUME NEW g \in Handlers \ {h} PROVE Reach(g)'
  <2>1. pc'[g] = pc[g] /\ key'[g] = key[g] /\ conn'[g] = conn[g] /\ ss'[key[g]] = ss[key[g]]
    BY DEF Moves, TypeOK
  <2>2. relative' = relative /\ (cwd' = Home \/ UNCHANGED <<cwd, mu>>)
    BY DEF Moves
  <2>3. hs'[g].res = hs[g].res /\ hs'[g].kind = hs[g].kind /\ hs'[g].whole = hs[g].whole
    BY DEF Kept, SameRequest
  <2>4. Reach(g)
    BY DEF ReachOK
  <2> QED
    BY <2>1, <2>2, <2>3, <2>4, ReachKept DEF Within
<1> QED
  BY <1>1 DEF ReachOK

(* Every step keeps the reach of the handlers. *)
LEMMA ReachStep ==
  ASSUME TypeOK, RecType, PlaceOK, SessOK, DetourHeld, ConnHeld, ReachOK, [Next]_vars
  PROVE ReachOK'
<1>0. \A h \in Handlers : Reach(h)
  BY DEF ReachOK
<1>a. ASSUME NEW h \in Handlers, Within(h), pc[h] \notin {"dialBase", "restore"}
      PROVE Found /\ Exists(key[h]) /\ ss[key[h]].sock = "live"
  <2>1. ss[key[h]].state = "up" /\ (relative => cwd = Home \/ mu = h) /\ key[h] \in Keys
    BY <1>0, <1>a DEF Reach, Within, TypeOK
  <2>2. mu = h => cwd = Home
    BY <1>a DEF DetourHeld, DetourSteps
  <2> QED
    BY <2>1, <2>2 DEF Found, Exists, SessOK
(* Steps that assign to no session. *)
<1>1. ASSUME NEW h \in Handlers, NEW kd \in {"proxy", "bridge", "create"}, NEW k \in Keys,
             Accept(h, kd, k)
      PROVE ReachOK'
  <2>1. /\ pc' = [pc EXCEPT ![h] =
                 CASE kd = "proxy" -> "resolve" [] kd = "bridge" -> "dial" [] kd = "create" -> "probe"]
        /\ key' = [key EXCEPT ![h] = k]
        /\ UNCHANGED <<relative, cwd, mu, conn, ss>>
    BY <1>1 DEF Accept, Go, dirVars
  <2>2. Kept(Handlers \ {h}) /\ (hs'[h].whole <=> ss[k].state = "up" /\ (relative => mu = None))
    BY <1>1, AcceptEffect
  <2>3. Reach(h)'
    BY <2>1, <2>2 DEF Reach, Within, TypeOK, DetourHeld
  <2>4. ASSUME NEW g \in Handlers \ {h} PROVE Reach(g)'
    <3>1. pc'[g] = pc[g] /\ key'[g] = key[g]
      BY <2>1 DEF TypeOK
    <3> QED
      BY <1>0, <2>1, <2>2, <3>1, ReachKept DEF Within, Kept, SameRequest
  <2> QED
    BY <2>3, <2>4 DEF ReachOK
<1>2. ASSUME NEW h \in Handlers, Resolve(h) PROVE ReachOK'
  <2>1. pc[h] = "resolve" /\ UNCHANGED <<relative, cwd, mu, key, conn, ss>>
    BY <1>2 DEF Resolve, At, dirVars
  <2>2. CASE Found /\ Exists(key[h])
    <3>1. Moves(h, "dial") /\ hs' = hs
      BY <1>2, <2>1, <2>2 DEF Resolve, Go, Moves
    <3>2. Reach(h)'
      BY <1>0, <2>1, <3>1 DEF Reach, Within, Moves, TypeOK
    <3> QED
      BY <3>1, <3>2, ReachOthers DEF Kept, SameRequest, SameCreate
  <2>3. CASE ~(Found /\ Exists(key[h]))
    <3>1. Moves(h, "done") /\ hs' = [hs EXCEPT ![h].res = "missing"]
      BY <1>2, <2>1, <2>3 DEF Resolve, Answer, Go, Moves
    <3>2. Kept(Handlers \ {h}) /\ SameRequest(hs'[h], hs[h])
      BY <3>1, AnswerEffect DEF Answers
    <3>3. ~Within(h)
      BY <1>a, <2>1, <2>3
    <3>4. Reach(h)'
      BY <2>1, <3>2, <3>3 DEF Reach, Within, SameRequest
    <3> QED
      BY <3>1, <3>2, <3>4, ReachOthers
  <2> QED
    BY <2>2, <2>3
<1>3. ASSUME NEW h \in Handlers, Dial(h) PROVE ReachOK'
  <2>1. pc[h] = "dial" /\ UNCHANGED <<relative, cwd, mu, key, hs, ss>>
    BY <1>3 DEF Dial, At, dirVars
  <2>2. \/ Moves(h, "dialled") /\ conn'[h] = key[h]
        \/ Moves(h, "lock")
    BY <1>3, <2>1 DEF Dial, Go, Moves, TypeOK
  <2>3. Reach(h)'
    BY <1>0, <2>1, <2>2 DEF Reach, Within, Moves, TypeOK
  <2> QED
    BY <2>1, <2>2, <2>3, ReachOthers DEF Kept, SameRequest, SameCreate
<1>4. ASSUME NEW h \in Handlers, LockChdir(h) PROVE ReachOK'
  <2>1. pc[h] = "lock" /\ mu = None /\ mu' = h /\ UNCHANGED <<relative, cwd, key, conn, hs, ss>>
    BY <1>4 DEF LockChdir, At
  <2>2. Moves(h, "chdir")
    BY <1>4, <2>1 DEF LockChdir, Go, Moves, DetourHeld
  <2>3. Reach(h)'
    BY <1>0, <2>1, <2>2 DEF Reach, Within, Moves, TypeOK
  <2> QED
    BY <2>1, <2>2, <2>3, ReachOthers DEF Kept, SameRequest, SameCreate
<1>5. ASSUME NEW h \in Handlers, Chdir(h) PROVE ReachOK'
  <2>1. pc[h] = "chdir" /\ pc' = [pc EXCEPT ![h] = "dialBase"]
        /\ UNCHANGED <<relative, mu, key, conn, ss>>
    BY <1>5 DEF Chdir, Go, At
  <2>2. \A g \in Handlers :
          /\ hs'[g].kind = hs[g].kind /\ hs'[g].res = hs[g].res
          /\ hs'[g].whole <=> hs[g].whole /\ (g = h \/ ~relative)
    BY <1>5, ChdirEffect
  <2>3. mu = h
    BY <2>1 DEF DetourHeld, DetourSteps
  <2>4. Reach(h)'
    BY <1>0, <2>1, <2>2, <2>3 DEF Reach, Within, TypeOK
  <2>5. ASSUME NEW g \in Handlers \ {h} PROVE Reach(g)'
    <3>1. pc'[g] = pc[g]
      BY <2>1 DEF TypeOK
    <3> QED
      BY <1>0, <2>1, <2>2, <3>1 DEF Reach, Within
  <2> QED
    BY <2>4, <2>5 DEF ReachOK
<1>6. ASSUME NEW h \in Handlers, ChdirFails(h) PROVE ReachOK'
  <2>1. /\ pc[h] = "chdir" /\ ~(Found /\ Exists(key[h]))
        /\ UNCHANGED <<relative, cwd, key, conn, hs, ss>>
    BY <1>6 DEF ChdirFails, At
  <2>2. Moves(h, "dialled")
    BY <1>6, <2>1 DEF ChdirFails, Go, Moves, DetourHeld
  <2>3. ~Within(h)
    BY <1>a, <2>1
  <2>4. Reach(h)'
    BY <2>1, <2>3 DEF Reach, Within
  <2> QED
    BY <2>1, <2>2, <2>4, ReachOthers DEF Kept, SameRequest, SameCreate
<1>7. ASSUME NEW h \in Handlers, DialBase(h) PROVE ReachOK'
  <2>1. pc[h] = "dialBase" /\ UNCHANGED <<relative, cwd, mu, key, hs, ss>>
    BY <1>7 DEF DialBase, At, dirVars
  <2>2. Moves(h, "restore")
    BY <1>7, <2>1 DEF DialBase, Go, Moves, TypeOK
  <2>3. cwd = key[h] /\ key[h] \in Keys
    BY <2>1 DEF DetourHeld, TypeOK
  <2>4. Within(h) => conn'[h] = key[h]
    BY <1>0, <1>7, <2>3 DEF DialBase, Reach, SessOK, TypeOK
  <2>5. Reach(h)'
    BY <1>0, <2>1, <2>2, <2>4 DEF Reach, Within, Moves, TypeOK
  <2> QED
    BY <2>1, <2>2, <2>5, ReachOthers DEF Kept, SameRequest, SameCreate
<1>8. ASSUME NEW h \in Handlers, Restore(h) PROVE ReachOK'
  <2>1. pc[h] = "restore" /\ cwd' = saved[h] /\ UNCHANGED <<relative, key, conn, hs, ss>>
    BY <1>8 DEF Restore, At
  <2>2. cwd' = Home
    BY <2>1 DEF DetourHeld, DetourSteps
  <2>3. Moves(h, "dialled")
    BY <1>8, <2>1, <2>2 DEF Restore, Go, Moves
  <2>4. Reach(h)'
    BY <1>0, <2>1, <2>2, <2>3 DEF Reach, Within, Moves, TypeOK
  <2> QED
    BY <2>1, <2>3, <2>4, ReachOthers DEF Kept, SameRequest, SameCreate
<1>9. ASSUME NEW h \in Handlers, DialFails(h) PROVE ReachOK'
  <2>1. /\ pc[h] = "dialled" /\ conn[h] = None /\ hs' = [hs EXCEPT ![h].res = "error"]
        /\ Moves(h, "done") /\ UNCHANGED conn
    BY <1>9 DEF DialFails, Answer, Go, At, Moves, dirVars
  <2>2. Kept(Handlers \ {h}) /\ SameRequest(hs'[h], hs[h])
    BY <2>1, AnswerEffect DEF Answers
  <2>3. ~Within(h)
    BY <1>0, <2>1, ServeAssumption DEF Reach, Within, TypeOK
  <2>4. Reach(h)'
    BY <2>1, <2>2, <2>3 DEF Reach, Within, SameRequest
  <2> QED
    BY <2>1, <2>2, <2>4, ReachOthers
<1>10. ASSUME NEW h \in Handlers, Proxied(h) \/ CloseBridge(h) PROVE ReachOK'
  <2>1. pc[h] \in {"dialled", "serve"} /\ Moves(h, "done") /\ UNCHANGED <<cwd, mu>>
    BY <1>10 DEF Proxied, CloseBridge, Answer, Go, At, Moves, dirVars, TypeOK
  <2>2. Kept(Handlers \ {h}) /\ hs'[h].res = "ok" /\ SameRequest(hs'[h], hs[h])
    BY <1>10, AnswerEffect, CloseEffect DEF Proxied, Answer, Answers
  <2>3. Reach(h)'
    BY <1>0, <2>1, <2>2 DEF Reach, Within, Moves, SameRequest, TypeOK
  <2> QED
    BY <2>1, <2>2, <2>3, ReachOthers
<1>11. ASSUME NEW h \in Handlers, QuietStep(h) PROVE ReachOK'
  <2>1. Kept(Handlers)
    BY <1>11, QuietSteps
  <2>2. UNCHANGED <<relative, cwd, mu, key, conn, ss>>
    BY <1>11 DEF QuietStep, Bridged, Getwd, BrowserLeaves, PumpUp, PumpUpWritten,
         PumpUpFails, PumpUpEnds, PumpDown, PumpDownEnds,
                 PumpWritten, PumpWriteFails, SetUp, SetDown, dirVars
  <2>3. pc' = pc \/ (pc[h] = "dialled" /\ pc' = [pc EXCEPT ![h] = "serve"])
                 \/ (pc[h] = "getwd" /\ pc' = [pc EXCEPT ![h] = "fork"])
    BY <1>11 DEF QuietStep, Bridged, Getwd, BrowserLeaves, PumpUp, PumpUpWritten,
         PumpUpFails, PumpUpEnds, PumpDown, PumpDownEnds,
                 PumpWritten, PumpWriteFails, SetUp, SetDown, Go, At
  <2>4. ASSUME NEW g \in Handlers PROVE Reach(g)'
    <3>1. \/ pc'[g] = pc[g] \/ (pc[g] = "dialled" /\ pc'[g] = "serve")
          \/ (pc[g] = "getwd" /\ pc'[g] = "fork")
      BY <2>3 DEF TypeOK
    <3>2. hs'[g].res = hs[g].res /\ hs'[g].kind = hs[g].kind /\ hs'[g].whole = hs[g].whole
      BY <2>1 DEF Kept, SameRequest
    <3> QED
      BY <1>0, <2>2, <3>1, <3>2 DEF Reach, Within
  <2> QED
    BY <2>4 DEF ReachOK
<1>12. ASSUME NEW h \in Handlers, Return(h) PROVE ReachOK'
  <2>1. /\ pc' = [pc EXCEPT ![h] = "idle"] /\ key' = [key EXCEPT ![h] = None]
        /\ UNCHANGED <<relative, cwd, mu, conn, ss>>
    BY <1>12 DEF Return, Go
  <2>2. Kept(Handlers \ {h})
    BY <1>12, ReturnEffect
  <2>3. Reach(h)'
    BY <2>1 DEF Reach, Within, TypeOK
  <2>4. ASSUME NEW g \in Handlers \ {h} PROVE Reach(g)'
    <3>1. pc'[g] = pc[g] /\ key'[g] = key[g]
      BY <2>1 DEF TypeOK
    <3> QED
      BY <1>0, <2>1, <2>2, <3>1, ReachKept DEF Within, Kept, SameRequest
  <2> QED
    BY <2>3, <2>4 DEF ReachOK
<1>13. ASSUME NEW h \in Handlers, ProbeKey(h) \/ Fork(h) \/ WaitForSocket(h) \/ LoadState(h)
       PROVE ReachOK'
  <2>1. pc[h] \in CreateSteps /\ UNCHANGED <<relative, cwd, mu, key, conn, ss>>
    BY <1>13 DEF ProbeKey, Fork, WaitForSocket, LoadState, At, CreateSteps, dirVars
  <2>2. \E l \in {"getwd", "wait", "load", "done"} : Moves(h, l)
    BY <1>13, <2>1
       DEF ProbeKey, Proceed, Fork, WaitForSocket, LoadState, Answer, Go, Moves
  <2>3. ss[key[h]].owner \in Handlers \cup {None}
    BY <2>1 DEF TypeOK, CreateSteps, RecType, SessionRec
  <2>4. /\ \A g \in Handlers \ {h} : hs'[g].res = hs[g].res /\ SameRequest(hs'[g], hs[g])
        /\ SameRequest(hs'[h], hs[h])
    <3>1. CASE \E v \in Answers : Answer(h, v)
      BY <3>1, AnswerEffect DEF Answer, Kept
    <3>2. CASE Proceed(h)
      BY <3>2, ProceedEffect
    <3>3. CASE hs' = [hs EXCEPT ![h].pend = TRUE]
      BY <3>3, PendEffect DEF Kept
    <3>4. CASE hs' = [hs EXCEPT ![h].res = "created", ![h].made = ss[key[h]].owner]
      BY <2>3, <3>4, CreatedEffect DEF Kept
    <3>5. CASE hs' = hs
      BY <3>5 DEF SameRequest
    <3> QED
      BY <1>13, <3>1, <3>2, <3>3, <3>4, <3>5 DEF ProbeKey, Fork, WaitForSocket, LoadState, Answers
  <2>5. hs[h].kind = "create"
    BY <2>1 DEF PlaceOK, Place
  <2>6. Reach(h)'
    BY <2>4, <2>5 DEF Reach, Within, SameRequest
  <2>7. ASSUME NEW g \in Handlers \ {h} PROVE Reach(g)'
    <3>1. pc'[g] = pc[g]
      BY <2>2 DEF Moves, TypeOK
    <3> QED
      BY <1>0, <2>1, <2>4, <3>1, ReachKept DEF Within, SameRequest
  <2> QED
    BY <2>6, <2>7 DEF ReachOK
<1>14. ASSUME NEW h \in Handlers, SessionStarts(h) PROVE ReachOK'
  <2>1. UNCHANGED <<relative, cwd, mu, pc, key, conn>> /\ key[h] \in Keys
    BY <1>14 DEF SessionStarts, dirVars, PlaceOK, Place, TypeOK
  <2>2. \A g \in Handlers : hs'[g].res = hs[g].res /\ SameRequest(hs'[g], hs[g])
    BY <1>14, PendEffect DEF SessionStarts, Kept
  <2>3. \A k \in Keys : ss[k].state = "up" => ss'[k] = ss[k]
    BY <1>14, <2>1, StartEffect DEF SessionStarts, Alive
  <2>4. ASSUME NEW g \in Handlers PROVE Reach(g)'
    <3>1. Within(g) => key[g] \in Keys
      BY DEF Within, TypeOK
    <3> QED
      BY <1>0, <2>1, <2>2, <2>3, <3>1 DEF Reach, Within, SameRequest
  <2> QED
    BY <2>4 DEF ReachOK
<1>15. ASSUME NEW k \in Keys, SessionListens(k) PROVE ReachOK'
  <2>1. UNCHANGED <<relative, cwd, mu, pc, key, conn, hs>>
    BY <1>15 DEF SessionListens, dirVars
  <2>2. \A j \in Keys : ss[j].state = "up" => ss'[j].state = "up"
    BY <1>15, ListenEffect
  <2>3. ASSUME NEW g \in Handlers PROVE Reach(g)'
    <3>1. Within(g) => key[g] \in Keys
      BY DEF Within, TypeOK
    <3> QED
      BY <1>0, <2>1, <2>2, <3>1 DEF Reach, Within
  <2> QED
    BY <2>3 DEF ReachOK
<1>16. ASSUME NEW k \in Keys, SessionEnds(k) PROVE ReachOK'
  <2>1. UNCHANGED <<relative, cwd, mu, pc, key>>
    BY <1>16 DEF SessionEnds, dirVars
  <2>2. \A j \in Keys \ {k} : ss'[j] = ss[j]
    BY <1>16, EndEffect
  <2>3. \A g \in Handlers : conn'[g] = IF conn[g] = k THEN None ELSE conn[g]
    BY <1>16 DEF SessionEnds
  <2>4. \A g \in Handlers :
          /\ hs'[g].kind = hs[g].kind /\ hs'[g].res = hs[g].res
          /\ hs'[g].whole <=> hs[g].whole /\ key[g] # k
    BY <1>16, EndsEffect
  <2>5. ASSUME NEW g \in Handlers PROVE Reach(g)'
    <3>1. Within(g) => key[g] \in Keys
      BY DEF Within, TypeOK
    <3> QED
      BY <1>0, <2>1, <2>2, <2>3, <2>4, <3>1 DEF Reach, Within
  <2> QED
    BY <2>5 DEF ReachOK
<1>17. CASE UNCHANGED vars
  BY <1>17 DEF vars, dirVars, ReachOK, Reach, Within
<1> QED
  BY <1>1, <1>2, <1>3, <1>4, <1>5, <1>6, <1>7, <1>8, <1>9, <1>10, <1>11, <1>12, <1>13, <1>14,
     <1>15, <1>16, <1>17
     DEF Next, DialStep, CreateStep, QuietStep

-----------------------------------------------------------------------------
(* The session that is reported as created *)

(* A create that met neither a stale socket nor a rival has the key to      *)
(* itself: until its fork takes the flock there is no session and no socket *)
(* of that key, and from then on the session is its own.                    *)
Free(k) == ~Alive(k) /\ ss[k].sock = "no"
Sole(h) == ~relative /\ ~hs[h].mixed /\ Creating(h)
Own(h) ==
  /\ Sole(h) =>
       /\ \A g \in Handlers \ {h} : key[g] = key[h] => ~Creating(g)
       /\ pc[h] \in {"getwd", "fork"} \/ hs[h].pend => Free(key[h])
       /\ pc[h] = "wait" /\ ~hs[h].pend => ss[key[h]].owner = h
       /\ pc[h] = "load" => ss[key[h]].owner = h
  /\ hs[h].res = "created" /\ ~relative /\ ~hs[h].mixed => hs[h].made = h
OwnOK == \A h \in Handlers : Own(h)

(* Nobody starts to create. *)
NoNewRivals == \A f \in Handlers : Creating(f)' => Creating(f) /\ key'[f] = key[f]

(* A step that leaves a handler's creation alone keeps Own for it. *)
LEMMA OwnKept ==
  ASSUME NEW g \in Handlers, Own(g), relative' = relative, NoNewRivals,
         pc'[g] = pc[g], key'[g] = key[g], ss'[key[g]] = ss[key[g]],
         hs'[g].res = hs[g].res, SameCreate(hs'[g], hs[g])
  PROVE Own(g)'
<1>1. Creating(g)' <=> Creating(g)
  BY DEF Creating, SameCreate
<1>2. Sole(g)' <=> Sole(g)
  BY <1>1 DEF Sole, SameCreate
<1>3. ASSUME Sole(g)', NEW f \in Handlers \ {g}, key'[f] = key'[g] PROVE ~Creating(f)'
  BY <1>2, <1>3 DEF Own, NoNewRivals
<1>4. Free(key[g])' <=> Free(key[g])
  BY DEF Free, Alive
<1> QED
  BY <1>2, <1>3, <1>4 DEF Own, SameCreate

(* A handler that is not creating and has created nothing owes nothing. *)
LEMMA OwnNothing ==
  ASSUME NEW h \in Handlers, ~Creating(h)', hs'[h].res # "created"
  PROVE Own(h)'
BY DEF Own, Sole

(* The handler h moves, and nobody else does anything. *)
LEMMA OwnOthers ==
  ASSUME TypeOK, OwnOK, NEW h \in Handlers, NEW l, pc' = [pc EXCEPT ![h] = l],
         UNCHANGED <<relative, ss>>, \A g \in Handlers \ {h} : key'[g] = key[g],
         Kept(Handlers \ {h}), Creating(h)' => Creating(h) /\ key'[h] = key[h],
         Own(h)'
  PROVE OwnOK'
<1>1. \A g \in Handlers \ {h} : pc'[g] = pc[g]
  BY DEF TypeOK
<1>2. NoNewRivals
  BY <1>1 DEF NoNewRivals, Creating, Kept, SameCreate
<1>3. ASSUME NEW g \in Handlers \ {h} PROVE Own(g)'
  <2>1. Own(g)
    BY DEF OwnOK
  <2> QED
    BY <1>1, <1>2, <2>1, OwnKept DEF Kept
<1> QED
  BY <1>3 DEF OwnOK

(* The steps of a request that creates nothing. *)
RequestStep(h) == DialStep(h) \/ Proxied(h) \/ Bridged(h) \/ CloseBridge(h)

(* What a step of a request that creates nothing does. *)
LEMMA RequestSteps ==
  ASSUME TypeOK, RecType, PlaceOK, NEW h \in Handlers, RequestStep(h)
  PROVE /\ pc[h] \notin {"idle", "probe", "getwd", "fork", "wait", "load", "done"}
        /\ \E l \in {"dial", "lock", "chdir", "dialBase", "restore", "dialled", "serve", "done"} :
             pc' = [pc EXCEPT ![h] = l]
        /\ UNCHANGED <<relative, key, ss>>
        /\ \A g \in Handlers \ {h} : hs'[g].res = hs[g].res /\ SameCreate(hs'[g], hs[g])
        /\ hs'[h].pend = hs[h].pend /\ hs'[h].res # "created"
<1>1. pc[h] \notin {"idle", "probe", "getwd", "fork", "wait", "load", "done"}
  BY DEF RequestStep, DialStep, Resolve, Dial, LockChdir, Chdir, ChdirFails, DialBase, Restore,
         DialFails, Proxied, Bridged, CloseBridge, At
<1>2. \E l \in {"dial", "lock", "chdir", "dialBase", "restore", "dialled", "serve", "done"} :
        pc' = [pc EXCEPT ![h] = l]
  BY DEF RequestStep, DialStep, Resolve, Dial, LockChdir, Chdir, ChdirFails, DialBase, Restore,
         DialFails, Proxied, Bridged, CloseBridge, Answer, Go
<1>3. UNCHANGED <<relative, key, ss>>
  BY DEF RequestStep, DialStep, Resolve, Dial, LockChdir, Chdir, ChdirFails, DialBase, Restore,
         DialFails, Proxied, Bridged, CloseBridge, dirVars
<1>4. hs[h].res = "none"
  BY <1>1 DEF PlaceOK, Place
<1>5. CASE \E v \in {"ok", "missing", "error"} : hs' = [hs EXCEPT ![h].res = v]
  <2>1. PICK v \in {"ok", "missing", "error"} : hs' = [hs EXCEPT ![h].res = v]
    BY <1>5
  <2>2. Kept(Handlers \ {h}) /\ hs'[h].res = v /\ SameCreate(hs'[h], hs[h])
    BY <2>1, AnswerEffect DEF Answers
  <2> QED
    BY <1>1, <1>2, <1>3, <2>2 DEF Kept, SameCreate
<1>6. CASE hs' = hs
  BY <1>1, <1>2, <1>3, <1>4, <1>6 DEF SameCreate
<1>7. CASE Chdir(h)
  BY <1>1, <1>2, <1>3, <1>4, <1>7, ChdirEffect DEF SameCreate
<1>8. CASE Bridged(h)
  BY <1>1, <1>2, <1>3, <1>4, <1>8, QuietSteps DEF QuietStep, Kept, SameCreate
<1>9. CASE CloseBridge(h)
  BY <1>1, <1>2, <1>3, <1>9, CloseEffect DEF Kept, SameCreate
<1> QED
  BY <1>5, <1>6, <1>7, <1>8, <1>9
     DEF RequestStep, DialStep, Resolve, Dial, LockChdir, ChdirFails, DialBase, Restore, DialFails,
         Proxied, Answer

(* Such a step keeps Own for everyone. *)
LEMMA OwnRequest ==
  ASSUME TypeOK, RecType, PlaceOK, OwnOK, NEW h \in Handlers, RequestStep(h)
  PROVE OwnOK'
<1>1. /\ pc[h] \notin {"idle", "probe", "getwd", "fork", "wait", "load", "done"}
      /\ \E l \in {"dial", "lock", "chdir", "dialBase", "restore", "dialled", "serve", "done"} :
           pc' = [pc EXCEPT ![h] = l]
      /\ UNCHANGED <<relative, key, ss>>
      /\ \A g \in Handlers \ {h} : hs'[g].res = hs[g].res /\ SameCreate(hs'[g], hs[g])
      /\ hs'[h].pend = hs[h].pend /\ hs'[h].res # "created"
  BY RequestSteps
<1>2. ~hs[h].pend
  BY <1>1 DEF PlaceOK, Place
<1>3. /\ pc'[h] \notin {"getwd", "fork", "wait", "load"}
      /\ \A g \in Handlers \ {h} : pc'[g] = pc[g]
  BY <1>1 DEF TypeOK
<1>4. ~Creating(h)'
  BY <1>1, <1>2, <1>3 DEF Creating
<1>5. NoNewRivals
  BY <1>1, <1>3, <1>4 DEF NoNewRivals, Creating, SameCreate
<1>6. Own(h)'
  BY <1>1, <1>4, OwnNothing
<1>7. ASSUME NEW g \in Handlers \ {h} PROVE Own(g)'
  <2>1. Own(g)
    BY DEF OwnOK
  <2> QED
    BY <1>1, <1>3, <1>5, <2>1, OwnKept
<1> QED
  BY <1>6, <1>7 DEF OwnOK

(* A step of a creation keeps Own for everyone. *)
LEMMA OwnCreate ==
  ASSUME TypeOK, RecType, PlaceOK, SessOK, OwnOK, NEW h \in Handlers, CreateStep(h)
  PROVE OwnOK'
<1>0. pc[h] \in CreateSteps /\ key[h] \in Keys /\ UNCHANGED <<relative, key, ss>>
  BY DEF CreateStep, ProbeKey, Getwd, Fork, WaitForSocket, LoadState, At, CreateSteps, TypeOK,
         dirVars
<1>a. ss[key[h]] \in SessionRec /\ hs[h].res = "none"
  BY <1>0 DEF RecType, PlaceOK, Place, CreateSteps
<1>b. Own(h)
  BY DEF OwnOK
<1>c. Free(key[h])' <=> Free(key[h])
  BY <1>0 DEF Free, Alive
(* An answer other than "created". *)
<1>1. ASSUME NEW v \in {"conflict", "error"}, Answer(h, v) PROVE OwnOK'
  <2>1. /\ pc' = [pc EXCEPT ![h] = "done"] /\ Kept(Handlers \ {h})
        /\ hs'[h].res = v /\ SameCreate(hs'[h], hs[h])
    BY <1>1, AnswerEffect DEF Answer, Go, Answers
  <2>2. Creating(h)' => Creating(h) /\ hs'[h].pend
    BY <2>1 DEF Creating, SameCreate, TypeOK
  <2>3. ASSUME Sole(h)' PROVE Sole(h)
    BY <1>0, <2>1, <2>2, <2>3 DEF Sole, SameCreate
  <2>4. ASSUME Sole(h)', NEW g \in Handlers \ {h}, key[g] = key[h] PROVE ~Creating(g)'
    <3>1. ~Creating(g)
      BY <1>b, <2>3, <2>4 DEF Own
    <3>2. pc'[g] = pc[g] /\ hs'[g].pend = hs[g].pend
      BY <2>1 DEF TypeOK, Kept, SameCreate
    <3> QED
      BY <3>1, <3>2 DEF Creating
  <2>5. pc'[h] = "done"
    BY <2>1 DEF TypeOK
  <2>6. Own(h)'
    BY <1>0, <1>b, <1>c, <2>1, <2>3, <2>4, <2>5 DEF Own, SameCreate
  <2> QED
    BY <1>0, <2>1, <2>2, <2>6, OwnOthers
<1>2. CASE ProbeKey(h)
  <2>1. CASE Proceed(h)
    <3>1. /\ pc[h] = "probe" /\ pc' = [pc EXCEPT ![h] = "getwd"]
          /\ \A g \in Handlers \ {h} : pc'[g] = pc[g]
      BY <1>2, <2>1 DEF ProbeKey, Proceed, Go, At, TypeOK
    <3>2. \A g \in Handlers :
            /\ hs'[g].res = hs[g].res /\ hs'[g].pend = hs[g].pend /\ hs'[g].made = hs[g].made
            /\ g = h => (hs'[g].mixed <=> Stale(key[h]) \/ Rivals(h) # {})
            /\ g # h => (hs'[g].mixed <=> hs[g].mixed \/ g \in Rivals(h))
      BY <2>1, ProceedEffect
    <3>3. \A g \in Handlers \ {h} : Creating(g)' <=> Creating(g)
      BY <3>1, <3>2 DEF Creating
    <3>4. ASSUME ~relative PROVE ~Alive(key[h])
      BY <1>2, <3>1, <3>4 DEF ProbeKey, Found, Answer, Proceed, Go, TypeOK
    <3>5. ASSUME ~relative, ~hs'[h].mixed PROVE Free(key[h]) /\ Rivals(h) = {}
      <4>1. ~Stale(key[h]) /\ Rivals(h) = {}
        BY <3>2, <3>5
      <4>2. ss[key[h]].sock # "live"
        BY <1>0, <3>4, <3>5 DEF SessOK, Alive
      <4> QED
        BY <1>a, <3>4, <3>5, <4>1, <4>2 DEF Free, Stale, SessionRec
    <3>6. ~hs[h].pend
      BY <3>1 DEF PlaceOK, Place
    <3>7. Own(h)'
      <4>1. pc'[h] = "getwd"
        BY <3>1 DEF TypeOK
      <4>2. ASSUME Sole(h)', NEW g \in Handlers \ {h}, key[g] = key[h] PROVE ~Creating(g)'
        BY <1>0, <3>3, <3>5, <4>2 DEF Sole, Rivals
      <4>3. Sole(h)' => Free(key[h])'
        BY <1>0, <1>c, <3>5 DEF Sole
      <4> QED
        BY <1>0, <1>a, <3>2, <3>6, <4>1, <4>2, <4>3 DEF Own
    <3>8. ASSUME NEW g \in Handlers \ {h} PROVE Own(g)'
      <4>1. Own(g)
        BY DEF OwnOK
      <4>2. ~hs'[g].mixed => ~hs[g].mixed /\ g \notin Rivals(h)
        BY <3>2
      <4>3. Sole(g)' => Sole(g) /\ key[g] # key[h]
        BY <1>0, <3>3, <4>2 DEF Sole, Rivals
      <4>4. ASSUME Sole(g)', NEW f \in Handlers \ {g}, key[f] = key[g] PROVE ~Creating(f)'
        BY <3>3, <4>1, <4>3, <4>4 DEF Own
      <4>5. Free(key[g])' <=> Free(key[g])
        BY <1>0 DEF Free, Alive
      <4> QED
        BY <1>0, <3>1, <3>2, <4>1, <4>2, <4>3, <4>4, <4>5 DEF Own
    <3> QED
      BY <3>7, <3>8 DEF OwnOK
  <2> QED
    BY <1>1, <1>2, <2>1 DEF ProbeKey
<1>3. CASE Getwd(h)
  <2>1. pc[h] = "getwd" /\ pc' = [pc EXCEPT ![h] = "fork"]
    BY <1>3 DEF Getwd, Go, At
  <2>2. Kept(Handlers)
    BY <1>3, QuietSteps DEF QuietStep
  <2>3. pc'[h] = "fork" /\ \A g \in Handlers \ {h} : pc'[g] = pc[g]
    BY <2>1 DEF TypeOK
  <2>4. \A g \in Handlers : Creating(g)' <=> Creating(g)
    BY <2>1, <2>2, <2>3 DEF Creating, Kept, SameCreate
  <2>5. Own(h)'
    <3>1. Sole(h)' <=> Sole(h)
      BY <1>0, <2>2, <2>4 DEF Sole, Kept, SameCreate
    <3> QED
      BY <1>0, <1>b, <1>c, <2>1, <2>2, <2>3, <2>4, <3>1 DEF Own, Kept, SameCreate
  <2> QED
    BY <1>0, <2>1, <2>2, <2>4, <2>5, OwnOthers DEF Kept
<1>4. CASE Fork(h)
  <2>1. CASE Go(h, "wait") /\ hs' = [hs EXCEPT ![h].pend = TRUE]
    <3>1. pc[h] = "fork" /\ pc' = [pc EXCEPT ![h] = "wait"]
      BY <1>4, <2>1 DEF Fork, Go, At
    <3>2. /\ Kept(Handlers \ {h}) /\ hs'[h].pend = TRUE /\ hs'[h].made = hs[h].made
          /\ hs'[h].mixed = hs[h].mixed /\ hs'[h].res = hs[h].res
      BY <2>1, PendEffect
    <3>3. pc'[h] = "wait" /\ \A g \in Handlers \ {h} : pc'[g] = pc[g]
      BY <3>1 DEF TypeOK
    <3>4. \A g \in Handlers : Creating(g)' <=> Creating(g)
      BY <3>1, <3>2, <3>3 DEF Creating, Kept, SameCreate
    <3>5. Own(h)'
      <4>1. Sole(h)' <=> Sole(h)
        BY <1>0, <3>2, <3>4 DEF Sole
      <4> QED
        BY <1>0, <1>b, <1>c, <3>1, <3>2, <3>3, <3>4, <4>1 DEF Own
    <3> QED
      BY <1>0, <3>1, <3>2, <3>4, <3>5, OwnOthers
  <2> QED
    BY <1>1, <1>4, <2>1 DEF Fork
<1>5. CASE WaitForSocket(h)
  <2>1. CASE Go(h, "load") /\ hs' = hs /\ ss[key[h]].sock # "no"
    <3>1. pc[h] = "wait" /\ pc' = [pc EXCEPT ![h] = "load"]
      BY <1>5, <2>1 DEF WaitForSocket, Go, At
    <3>2. pc'[h] = "load" /\ \A g \in Handlers \ {h} : pc'[g] = pc[g]
      BY <3>1 DEF TypeOK
    <3>3. \A g \in Handlers : Creating(g)' <=> Creating(g)
      BY <2>1, <3>1, <3>2 DEF Creating
    <3>4. Own(h)'
      <4>1. Sole(h)' <=> Sole(h)
        BY <1>0, <2>1, <3>3 DEF Sole
      <4>2. ~Free(key[h])
        BY <2>1 DEF Free
      <4> QED
        BY <1>0, <1>b, <1>c, <2>1, <3>1, <3>2, <3>3, <4>1, <4>2 DEF Own
    <3> QED
      BY <1>0, <2>1, <3>1, <3>3, <3>4, OwnOthers DEF Kept, SameRequest, SameCreate
  <2> QED
    BY <1>1, <1>5, <2>1 DEF WaitForSocket
<1>6. CASE LoadState(h)
  <2> DEFINE m == ss[key[h]].owner
  <2>1. m \in Handlers \cup {None}
    BY <1>a DEF SessionRec
  <2>2. CASE Go(h, "done") /\ hs' = [hs EXCEPT ![h].res = "created", ![h].made = m]
    <3>1. pc[h] = "load" /\ pc' = [pc EXCEPT ![h] = "done"]
      BY <1>6, <2>2 DEF LoadState, Go, At
    <3>2. /\ Kept(Handlers \ {h}) /\ hs'[h].made = m
          /\ hs'[h].pend = hs[h].pend /\ hs'[h].mixed = hs[h].mixed
      BY <2>1, <2>2, CreatedEffect
    <3>3. pc'[h] = "done" /\ \A g \in Handlers \ {h} : pc'[g] = pc[g]
      BY <3>1 DEF TypeOK
    <3>4. Creating(h) /\ \A g \in Handlers : Creating(g)' => Creating(g)
      BY <3>1, <3>2, <3>3 DEF Creating, Kept, SameCreate
    <3>5. Own(h)'
      <4>1. Sole(h)' => Sole(h)
        BY <1>0, <3>2, <3>4 DEF Sole
      <4>2. ~relative /\ ~hs'[h].mixed => m = h
        BY <1>b, <3>1, <3>2, <3>4 DEF Own, Sole
      <4> QED
        BY <1>0, <1>b, <1>c, <3>2, <3>3, <3>4, <4>1, <4>2 DEF Own
    <3> QED
      BY <1>0, <3>1, <3>2, <3>4, <3>5, OwnOthers
  <2> QED
    BY <1>1, <1>6, <2>2 DEF LoadState
<1> QED
  BY <1>2, <1>3, <1>4, <1>5, <1>6 DEF CreateStep

(* The start of a forked session keeps Own for everyone. *)
LEMMA OwnSession ==
  ASSUME TypeOK, RecType, PlaceOK, OwnOK, NEW h \in Handlers, SessionStarts(h)
  PROVE OwnOK'
<1>0. UNCHANGED <<relative, pc, key>> /\ key[h] \in Keys /\ hs[h].pend
  BY DEF SessionStarts, dirVars, PlaceOK, Place, TypeOK
<1>1. /\ Kept(Handlers \ {h}) /\ hs'[h].pend = FALSE /\ hs'[h].made = hs[h].made
      /\ hs'[h].mixed = hs[h].mixed /\ hs'[h].res = hs[h].res
  BY PendEffect DEF SessionStarts
<1>2. Creating(h) /\ \A g \in Handlers : Creating(g)' => Creating(g)
  BY <1>0, <1>1 DEF Creating, Kept, SameCreate
<1>3. NoNewRivals
  BY <1>0, <1>2 DEF NoNewRivals
<1>4. Own(h)'
  <2>1. Own(h) /\ (Sole(h)' => Sole(h))
    BY <1>0, <1>1, <1>2 DEF OwnOK, Sole
  <2>2. pc[h] \in {"wait", "load", "done"}
    BY <1>0 DEF PlaceOK, Place
  <2>3. ASSUME Sole(h)' PROVE ss'[key[h]].owner = h
    <3>1. ~Alive(key[h])
      BY <1>0, <2>1, <2>3 DEF Own, Free
    <3> QED
      BY <1>0, <3>1, StartEffect
  <2> QED
    BY <1>0, <1>1, <1>2, <2>1, <2>2, <2>3 DEF Own
<1>5. ASSUME NEW g \in Handlers \ {h} PROVE Own(g)'
  <2>1. Own(g)
    BY DEF OwnOK
  <2>2. CASE Sole(g) /\ key[g] \in Keys
    <3>1. key[g] # key[h]
      BY <1>2, <2>1, <2>2 DEF Own
    <3>2. ss'[key[g]] = ss[key[g]]
      BY <1>0, <2>2, <3>1, StartEffect DEF SessionStarts
    <3> QED
      BY <1>0, <1>1, <1>3, <2>1, <3>2, OwnKept DEF Kept
  <2>3. CASE ~Sole(g)
    <3>1. ~Sole(g)'
      BY <1>0, <1>1, <1>2, <2>3 DEF Sole, Kept, SameCreate
    <3> QED
      BY <1>0, <1>1, <2>1, <3>1 DEF Own, Kept, SameCreate
  <2>4. Sole(g) => key[g] \in Keys
    BY DEF Sole, Creating, PlaceOK, Place, TypeOK
  <2> QED
    BY <2>2, <2>3, <2>4
<1> QED
  BY <1>4, <1>5 DEF OwnOK

(* A session of the key lives or ends: its owner stays. *)
LEMMA OwnLives ==
  ASSUME TypeOK, RecType, PlaceOK, OwnOK, NEW k \in Keys, SessionListens(k) \/ SessionEnds(k)
  PROVE OwnOK'
<1>1. UNCHANGED <<relative, pc, key>> /\ Alive(k)
  BY DEF SessionListens, SessionEnds, dirVars, Alive
<1>2. /\ \A j \in Keys \ {k} : ss'[j] = ss[j]
      /\ ss'[k].owner = ss[k].owner
  BY ListenEffect, EndEffect
<1>3. \A g \in Handlers : hs'[g].res = hs[g].res /\ SameCreate(hs'[g], hs[g])
  BY EndsEffect DEF SessionListens, SameCreate
<1>4. \A g \in Handlers : Creating(g)' <=> Creating(g)
  BY <1>1, <1>3 DEF Creating, SameCreate
<1>5. NoNewRivals
  BY <1>1, <1>4 DEF NoNewRivals
<1>6. ASSUME NEW g \in Handlers PROVE Own(g)'
  <2>1. Own(g) /\ (Sole(g)' <=> Sole(g))
    BY <1>1, <1>3, <1>4 DEF OwnOK, Sole, SameCreate
  <2>2. CASE key[g] = k
    <3>1. ~Free(k)
      BY <1>1 DEF Free
    <3> QED
      BY <1>1, <1>2, <1>3, <1>4, <2>1, <2>2, <3>1 DEF Own, SameCreate
  <2>3. CASE key[g] \in Keys \ {k}
    BY <1>1, <1>2, <1>3, <1>5, <2>1, <2>3, OwnKept
  <2>4. CASE key[g] \notin Keys
    <3>1. ~Sole(g)
      BY <2>4 DEF Sole, Creating, PlaceOK, Place, TypeOK
    <3> QED
      BY <1>1, <1>3, <2>1, <3>1 DEF Own, SameCreate
  <2> QED
    BY <2>2, <2>3, <2>4
<1> QED
  BY <1>6 DEF OwnOK

(* Every step keeps Own for everyone. *)
LEMMA OwnStep ==
  ASSUME TypeOK, RecType, PlaceOK, SessOK, OwnOK, [Next]_vars
  PROVE OwnOK'
<1>1. ASSUME NEW h \in Handlers, NEW kd \in {"proxy", "bridge", "create"}, NEW k \in Keys,
             Accept(h, kd, k)
      PROVE OwnOK'
  <2> DEFINE l == CASE kd = "proxy" -> "resolve" [] kd = "bridge" -> "dial"
                    [] kd = "create" -> "probe"
  <2>1. /\ pc' = [pc EXCEPT ![h] = l] /\ UNCHANGED <<relative, ss>>
        /\ \A g \in Handlers \ {h} : key'[g] = key[g]
    BY <1>1 DEF Accept, Go, dirVars, TypeOK
  <2>2. Kept(Handlers \ {h}) /\ hs'[h].res = "none" /\ hs'[h].pend = FALSE
    BY <1>1, AcceptEffect
  <2>3. ~Creating(h)'
    BY <2>1, <2>2 DEF Creating, TypeOK
  <2>4. Own(h)'
    BY <2>2, <2>3, OwnNothing
  <2> HIDE DEF l
  <2> QED
    BY <2>1, <2>2, <2>3, <2>4, OwnOthers
<1>2. ASSUME NEW h \in Handlers, Return(h) PROVE OwnOK'
  <2>1. /\ pc' = [pc EXCEPT ![h] = "idle"] /\ UNCHANGED <<relative, ss>>
        /\ \A g \in Handlers \ {h} : key'[g] = key[g]
    BY <1>2 DEF Return, Go, TypeOK
  <2>2. Kept(Handlers \ {h}) /\ hs'[h].res = "none" /\ hs'[h].pend = FALSE
    BY <1>2, ReturnEffect
  <2>3. ~Creating(h)'
    BY <2>1, <2>2 DEF Creating, TypeOK
  <2>4. Own(h)'
    BY <2>2, <2>3, OwnNothing
  <2> QED
    BY <2>1, <2>2, <2>3, <2>4, OwnOthers
<1>3. ASSUME NEW h \in Handlers, QuietStep(h), pc' = pc PROVE OwnOK'
  <2>1. Kept(Handlers)
    BY <1>3, QuietSteps
  <2>2. UNCHANGED <<relative, key, ss>>
    BY <1>3 DEF QuietStep, Bridged, Getwd, BrowserLeaves, PumpUp, PumpUpWritten,
         PumpUpFails, PumpUpEnds, PumpDown, PumpDownEnds,
                PumpWritten, PumpWriteFails, SetUp, SetDown, dirVars
  <2>3. NoNewRivals
    BY <1>3, <2>1, <2>2 DEF NoNewRivals, Creating, Kept, SameCreate
  <2>4. ASSUME NEW g \in Handlers PROVE Own(g)'
    <3>1. Own(g)
      BY DEF OwnOK
    <3> QED
      BY <1>3, <2>1, <2>2, <2>3, <3>1, OwnKept DEF Kept
  <2> QED
    BY <2>4 DEF OwnOK
<1>4. ASSUME NEW h \in Handlers,
             \/ BrowserLeaves(h) \/ PumpUp(h) \/ PumpUpWritten(h)
             \/ PumpUpFails(h) \/ PumpUpEnds(h) \/ PumpDown(h) \/ PumpDownEnds(h)
             \/ PumpWritten(h) \/ PumpWriteFails(h)
      PROVE OwnOK'
  BY <1>3, <1>4 DEF QuietStep, BrowserLeaves, PumpUp, PumpUpWritten, PumpUpFails, PumpUpEnds,
         PumpDown, PumpDownEnds, PumpWritten,
                    PumpWriteFails, SetUp, SetDown
<1>5. CASE UNCHANGED vars
  BY <1>5 DEF vars, dirVars, OwnOK, Own, Sole, Free, Alive, Creating
<1> QED
  BY <1>1, <1>2, <1>4, <1>5, OwnRequest, OwnCreate, OwnSession, OwnLives
     DEF Next, RequestStep

-----------------------------------------------------------------------------

AnswerInv ==
  TypeOK /\ DetourHeld /\ ConnHeld /\ RecType /\ PlaceOK /\ SessOK /\ ReachOK /\ OwnOK

(* The initial state is in the inductive invariant. *)
LEMMA AnswerInit == Init => AnswerInv
<1> SUFFICES ASSUME Init PROVE AnswerInv
  OBVIOUS
<1>1. TypeOK
  BY TypeInit
<1>2. DetourHeld /\ ConnHeld
  BY ServeAssumption DEF Init, DetourHeld, DetourSteps, ConnHeld
<1>3. Idle \in HandlerRec /\ Idle.res = "none" /\ Idle.pend = FALSE
  BY DEF Idle, HandlerRec, Answers
<1>4. \A h \in Handlers : hs[h] = Idle /\ pc[h] = "idle"
  BY DEF Init
<1>5. /\ Session("none") \in SessionRec /\ Session("up") \in SessionRec
      /\ \A r \in {Session("none"), Session("up")} : r.state = "up" <=> r.sock = "live"
  BY DEF Session, SessionRec
<1>6. RecType
  BY <1>3, <1>5 DEF Init, RecType
<1>7. SessOK
  BY <1>5 DEF Init, SessOK
<1>8. PlaceOK /\ ReachOK
  BY <1>3, <1>4 DEF PlaceOK, Place, ReachOK, Reach, Within, CreateSteps
<1>9. OwnOK
  BY <1>3, <1>4 DEF OwnOK, Own, Sole, Creating
<1> QED
  BY <1>1, <1>2, <1>6, <1>7, <1>8, <1>9 DEF AnswerInv

(* For any number of concurrent requests and of sessions: the working       *)
(* directory, the connections, the sessions and the requests' answers go    *)
(* together as the parts of AnswerInv say.                                  *)
THEOREM AnswerInvariant == Spec => []AnswerInv
<1>1. AnswerInv /\ [Next]_vars => AnswerInv'
  BY TypeStep, DetourStep, ConnStep, RecStep, PlaceStep, SessStep, ReachStep, OwnStep DEF AnswerInv
<1> QED
  BY <1>1, AnswerInit, PTL DEF Spec

(* For any number of concurrent requests, be the socket's path too long or  *)
(* not: a session that stays up while a request for it is served is         *)
(* reached, and detours that are over leave no trace.                       *)
THEOREM LiveIsReachedHolds == Spec => []LiveIsReached
<1>1. AnswerInv => LiveIsReached
  BY DEF AnswerInv, ReachOK, Reach, Within, LiveIsReached, At
<1> QED
  BY <1>1, AnswerInvariant, PTL

(* For any number of concurrent requests: a request answered "created" has  *)
(* started the session it reports, unless it met a crashed session's        *)
(* socket, or a rival for the key, or the state directory is relative.      *)
THEOREM CreatedIsOwnHolds == Spec => []CreatedIsOwn
<1>1. AnswerInv => CreatedIsOwn
  BY DEF AnswerInv, OwnOK, Own, CreatedIsOwn
<1> QED
  BY <1>1, AnswerInvariant, PTL
=============================================================================
