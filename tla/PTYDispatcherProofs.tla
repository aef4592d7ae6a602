------------------------- MODULE PTYDispatcherProofs -------------------------
(***************************************************************************)
(* The PTY dispatcher for any number of attaches, streams, resizes and      *)
(* writers, any capacities and any output of the child.                     *)
(*                                                                         *)
(* The inductive invariant has five layers: which goroutine is where in do  *)
(* (DoInv), who writes to the child (LineInv), how far the terminal is fed  *)
(* (FeedInv), what each subscriber has (SubInv) and how far a resize has    *)
(* come (ResizeInv).  DoInv stands alone and the others rest on it.  Two    *)
(* more invariants rest on those: who can still be waiting when the         *)
(* dispatcher has returned (DrainInv), and what an attach has seen and has  *)
(* before it (LiveInv), from which the PTY implements LiveOutput.           *)
(***************************************************************************)
EXTENDS PTYDispatcher, TLAPS

Goroutines == Callers \cup {Closer}

(* The closures each kind of caller hands to do. *)
ClosuresOf(p) ==
  IF p = Reader THEN {"feed"}
  ELSE IF p \in Viewers THEN {"subscribeSnapshot", "cancel"}
  ELSE IF p \in Streams THEN {"subscribe", "snapshot", "cancel"}
  ELSE IF p \in Resizers THEN {"resize"}
  ELSE {"mode"}

QueueType == queue \in Seq(Goroutines)

DoType ==
  /\ pc \in [Goroutines -> {"idle", "send", "wait", "ret", "write", "gone"}]
  /\ act \in [Callers -> {"none", "feed", "subscribe", "snapshot", "subscribeSnapshot",
                          "cancel", "resize", "mode"}]
  /\ res \in [Callers -> {"not run", "ok", "err"}]
  /\ wpc \in [Writers \cup {Reader} -> {"off", "lock", "first", "last", "put"}]

(* A caller inside do has one of its own closures there, and it has not run *)
(* before the caller is woken.                                              *)
OwnClosure ==
  \A p \in Callers :
     /\ pc[p] \in {"send", "wait", "ret"} => act[p] \in ClosuresOf(p)
     /\ pc[p] \in {"send", "wait"} => res[p] = "not run"
     /\ pc[p] = "idle" => act[p] = "none"

Distinct(q) == \A i, j \in 1 .. Len(q) : q[i] = q[j] => i = j

(* Every queued closure has a caller that waits for it, once. *)
QueuedWait ==
  /\ \A i \in 1 .. Len(queue) : pc[queue[i]] = "wait"
  /\ Distinct(queue)

(* Whoever is in a write is not in do; the emulator's answer is written     *)
(* while the read loop waits for its closure, which has left the queue.     *)
InWrite ==
  /\ \A w \in Writers : wpc[w] # "off" => pc[w] = "write"
  /\ wpc[Reader] # "off" => /\ pc[Reader] = "wait"
                            /\ \A i \in 1 .. Len(queue) : queue[i] # Reader

(* The read loop is always in its loop. *)
ReaderRuns == pc[Reader] \in {"idle", "send", "wait", "ret"}

DoInv == DoType /\ QueueType /\ OwnClosure /\ QueuedWait /\ InWrite /\ ReaderRuns

(* A unit of a write; before the first one, Nobody has written. *)
Units == (Writers \cup {Reader, Nobody}) \X {"first", "last"}

LineType ==
  /\ mu \in Writers \cup {Reader, Nobody}
  /\ line \in Seq(Units) /\ heard \in Units /\ tty \in {"read", "deaf", "hung"}

(* writeMu is held by the one goroutine that is in a write. *)
HolderWrites == \A w \in Writers \cup {Reader} : wpc[w] \in {"first", "last"} => mu = w

(* A write that is half on the line will be finished by the holder, or the  *)
(* other end is gone and nothing follows.                                   *)
HalfWritten(unit) ==
  unit[2] = "first" =>
     tty = "hung" \/ (mu = unit[1] /\ mu # Nobody /\ wpc[mu] = "last")

(* WritesAreWhole says of each unit and the next: *)
Follows(u, v) == u[2] = "first" => v = <<u[1], "last">>
Whole(input) == \A i \in 1 .. Len(input) - 1 : Follows(input[i], input[i + 1])

LineInv ==
  /\ LineType /\ HolderWrites /\ Whole(<<heard>> \o line)
  /\ HalfWritten((<<heard>> \o line)[Len(line) + 1])

(* While the terminal is open, it lacks exactly the chunk of a feed that is *)
(* under way, and without one nothing, unless do no longer takes closures.  *)
FeedInv ==
  /\ read \in Nat /\ fed \in Nat /\ fed <= read
  /\ pc[Reader] \in {"send", "wait"} => fed < read /\ (term => read = fed + 1)
  /\ EveryReadIsFed

SubType ==
  /\ subs \in SUBSET Subscribers /\ behind \in SUBSET Subscribers
  /\ ch \in [Subscribers -> Seq(Nat)] /\ got \in [Subscribers -> Seq(Nat)]
  /\ snap \in [Subscribers -> Nat]

OpenType == chOpen \in [Subscribers -> BOOLEAN]

(* s has not subscribed yet. *)
Fresh(s) ==
  \/ pc[s] = "idle"
  \/ pc[s] \in {"send", "wait"} /\ act[s] \in {"subscribe", "subscribeSnapshot"}
  \/ pc[s] = "ret" /\ act[s] = "subscribeSnapshot" /\ res[s] = "not run"

(* The snapshot of s ran and s is looking at it. *)
Shown(s) == pc[s] = "ret" /\ act[s] = "snapshot" /\ res[s] = "ok"

(* Each subscriber subscribes once, to an open channel with nothing in it;  *)
(* an attach, or a stream with its snapshot, stays in p.subs only as long   *)
(* as the terminal is open, so each later feed adds the next chunk.         *)
SubOf(s) ==
  /\ Len(ch[s]) <= SubCap /\ snap[s] <= fed
  /\ Fresh(s) => s \notin subs /\ chOpen[s] /\ ch[s] = <<>> /\ got[s] = <<>>
  /\ s \in subs => chOpen[s]
  /\ s \in subs /\ s \in Viewers =>
        /\ term
        /\ s \notin behind =>
              got[s] \o ch[s] = [i \in 1 .. (fed - snap[s]) |-> snap[s] + i]
  /\ s \in subs /\ Shown(s) =>
        /\ term
        /\ s \notin behind =>
              (1 .. fed) \subseteq (1 .. snap[s]) \cup ToSet(got[s] \o ch[s])

SubInv == SubType /\ OpenType /\ \A s \in Subscribers : SubOf(s)

(* While resizes do not overlap, the one under way has set the kernel's     *)
(* size and, once its closure has run, the terminal's.  One that ends       *)
(* without having run stays on record in act and res.                       *)
OneResize == \A y, z \in Resizers : Busy(y) /\ Busy(z) => y = z

UnderWay(z) ==
  Busy(z) => winsize = z /\ (pc[z] = "ret" /\ res[z] = "ok" => grid = z)

ResizeInv == ~overlap => /\ OneResize /\ \A z \in Resizers : UnderWay(z)
                         /\ ResizesAgree

PTYInv == DoInv /\ LineInv /\ FeedInv /\ SubInv /\ ResizeInv

-----------------------------------------------------------------------------
(* Sequences as queues *)

(* What is in a sequence. *)
LEMMA SeqFacts ==
  ASSUME NEW S, NEW q \in Seq(S)
  PROVE  Len(q) \in Nat /\ \A i \in 1 .. Len(q) : i \in Nat /\ q[i] \in S
OBVIOUS

(* Append: the old elements stay where they are. *)
LEMMA AppendFacts ==
  ASSUME NEW S, NEW q \in Seq(S), NEW e \in S
  PROVE  /\ Append(q, e) \in Seq(S)
         /\ Len(q) \in Nat /\ Len(Append(q, e)) = Len(q) + 1
         /\ Append(q, e)[Len(q) + 1] = e
         /\ \A i \in 1 .. Len(q) : Append(q, e)[i] = q[i] /\ q[i] \in S
OBVIOUS

(* Head and Tail: the others move up by one. *)
LEMMA TailFacts ==
  ASSUME NEW S, NEW q \in Seq(S), q # <<>>
  PROVE  /\ Len(q) \in Nat \ {0} /\ Head(q) = q[1] /\ Head(q) \in S
         /\ Tail(q) \in Seq(S) /\ Len(Tail(q)) = Len(q) - 1
         /\ \A i \in 1 .. Len(Tail(q)) : i + 1 \in 1 .. Len(q) /\ Tail(q)[i] = q[i + 1]
OBVIOUS

(* Distinct elements stay distinct ... *)
LEMMA TailDistinct ==
  ASSUME NEW S, NEW q \in Seq(S), q # <<>>, Distinct(q)
  PROVE  Distinct(Tail(q)) /\ \A i \in 1 .. Len(Tail(q)) : Tail(q)[i] # Head(q)
<1>1. /\ Len(q) \in Nat \ {0} /\ Head(q) = q[1] /\ Len(Tail(q)) = Len(q) - 1
      /\ \A i \in 1 .. Len(Tail(q)) : i + 1 \in 1 .. Len(q) /\ Tail(q)[i] = q[i + 1]
  BY TailFacts
<1>2. ASSUME NEW i \in 1 .. Len(Tail(q)) PROVE Tail(q)[i] # Head(q)
  <2>1. i + 1 # 1 /\ 1 \in 1 .. Len(q)
    BY <1>1
  <2>2. QED
    BY <2>1, <1>1 DEF Distinct
<1>3. ASSUME NEW i \in 1 .. Len(Tail(q)), NEW j \in 1 .. Len(Tail(q)), Tail(q)[i] = Tail(q)[j]
      PROVE  i = j
  <2>1. i + 1 = j + 1
    BY <1>1, <1>3 DEF Distinct
  <2>2. QED
    BY <2>1
<1>4. QED
  BY <1>2, <1>3 DEF Distinct

(* ... also when a new one is appended. *)
LEMMA AppendDistinct ==
  ASSUME NEW S, NEW q \in Seq(S), NEW e \in S, Distinct(q),
         \A i \in 1 .. Len(q) : q[i] # e
  PROVE  Distinct(Append(q, e))
BY AppendFacts DEF Distinct

-----------------------------------------------------------------------------
(* do: the queue and its callers *)

(* The kinds of callers are distinct, and Close is none of them. *)
LEMMA Roles ==
  /\ Closer \notin Callers /\ Reader \in Callers
  /\ Closer \in Goroutines /\ Callers \subseteq Goroutines
  /\ \A p \in Goroutines : p = Closer \/ p \in Callers
  /\ Subscribers \subseteq Callers /\ Resizers \subseteq Callers
  /\ Writers \subseteq Callers
  /\ Reader \notin Subscribers /\ Reader \notin Resizers /\ Reader \notin Writers
  /\ \A p \in Subscribers : p \notin Resizers /\ p \notin Writers
  /\ \A p \in Resizers : p \notin Writers
  /\ \A p \in Streams : p \in Subscribers /\ p \notin Viewers
  /\ \A p \in Viewers : p \in Subscribers
  /\ \A p \in Callers : p = Reader \/ p \in Viewers \/ p \in Streams
                        \/ p \in Resizers \/ p \in Writers
BY PTYAssumption DEF Callers, Subscribers, Goroutines

(* Calling do, from outside of it. *)
LEMMA CallDoKeeps ==
  ASSUME DoInv, NEW p \in Callers, pc[p] \in {"idle", "ret"},
         NEW closure \in ClosuresOf(p), CallDo(p, closure),
         queue' = queue, wpc' = wpc
  PROVE  DoInv'
<1> USE Roles DEF DoInv, CallDo
<1>1. DoType'
  BY DEF DoType, ClosuresOf
<1>2. OwnClosure'
  BY DEF DoType, OwnClosure
<1>3. \A q \in Goroutines \ {p} : pc'[q] = pc[q]
  BY DEF DoType
<1>4. QueueType' /\ QueuedWait'
  <2>1. \A i \in 1 .. Len(queue) : queue[i] \in Goroutines
    BY SeqFacts DEF QueueType
  <2>2. QED
    BY <1>3, <2>1 DEF QueueType, QueuedWait
<1>5. InWrite' /\ ReaderRuns'
  BY DEF DoType, InWrite, ReaderRuns
<1>6. QED
  BY <1>1, <1>2, <1>4, <1>5

(* A closure, or Close's, enters the queue. *)
LEMMA EnqueueKeeps ==
  ASSUME DoInv, NEW p \in Goroutines, pc[p] \in {"idle", "send"},
         p \in Callers => pc[p] = "send",
         queue' = Append(queue, p), pc' = [pc EXCEPT ![p] = "wait"],
         act' = act, res' = res, wpc' = wpc
  PROVE  DoInv'
<1> USE Roles DEF DoInv
<1>1. DoType'
  BY DEF DoType
<1>2. OwnClosure'
  BY DEF DoType, OwnClosure
<1>3. pc'[p] = "wait" /\ \A q \in Goroutines \ {p} : pc'[q] = pc[q]
  BY DEF DoType
<1>4. /\ queue' \in Seq(Goroutines)
      /\ Len(queue') = Len(queue) + 1 /\ Len(queue) \in Nat
      /\ queue'[Len(queue) + 1] = p
      /\ \A i \in 1 .. Len(queue) : queue'[i] = queue[i] /\ queue[i] \in Goroutines
  BY AppendFacts DEF QueueType
<1>5. QueueType' /\ QueuedWait'
  <2>1. \A i \in 1 .. Len(queue) : queue[i] # p
    BY DEF QueuedWait
  <2>2. ASSUME NEW i \in 1 .. Len(queue') PROVE pc'[queue'[i]] = "wait"
    BY <1>3, <1>4 DEF QueuedWait
  <2>3. Distinct(queue')
    BY <2>1, AppendDistinct DEF QueueType, QueuedWait
  <2>4. QED
    BY <2>2, <2>3, <1>4 DEF QueueType, QueuedWait
<1>6. InWrite' /\ ReaderRuns'
  <2>1. p = Reader => wpc[Reader] = "off"
    BY DEF InWrite
  <2>2. \A w \in Writers : wpc[w] # "off" => w # p
    BY DEF InWrite
  <2>3. p # Reader => \A i \in 1 .. Len(queue') : queue'[i] = Reader
                                                  => \E j \in 1 .. Len(queue) : queue[j] = Reader
    BY <1>4
  <2>4. QED
    BY <2>1, <2>2, <2>3, <1>3 DEF InWrite, ReaderRuns
<1>7. QED
  BY <1>1, <1>2, <1>5, <1>6

(* What is at the head of the queue, and what remains. *)
LEMMA HeadWaits ==
  ASSUME DoInv, queue # <<>>
  PROVE  /\ Head(queue) \in Goroutines /\ pc[Head(queue)] = "wait"
         /\ \E i \in 1 .. Len(queue) : Head(queue) = queue[i]
         /\ Tail(queue) \in Seq(Goroutines) /\ Distinct(Tail(queue))
         /\ \A i \in 1 .. Len(Tail(queue)) : /\ pc[Tail(queue)[i]] = "wait"
                                             /\ Tail(queue)[i] # Head(queue)
<1>1. queue \in Seq(Goroutines) /\ Distinct(queue)
      /\ \A i \in 1 .. Len(queue) : pc[queue[i]] = "wait"
  BY DEF DoInv, QueueType, QueuedWait
<1>2. /\ Head(queue) = queue[1] /\ 1 \in 1 .. Len(queue) /\ Head(queue) \in Goroutines
      /\ Tail(queue) \in Seq(Goroutines)
      /\ \A i \in 1 .. Len(Tail(queue)) : i + 1 \in 1 .. Len(queue)
                                          /\ Tail(queue)[i] = queue[i + 1]
  BY <1>1, TailFacts
<1>3. Distinct(Tail(queue)) /\ \A i \in 1 .. Len(Tail(queue)) : Tail(queue)[i] # Head(queue)
  BY <1>1, TailDistinct
<1>4. QED
  BY <1>1, <1>2, <1>3

(* The head of the queue is taken, and its caller p moves to l, or stays. *)
LEMMA DequeueKeeps ==
  ASSUME DoInv, NEW p \in Goroutines, pc[p] = "wait", NEW l \in {"ret", "wait"},
         queue' \in Seq(Goroutines), Distinct(queue'),
         \A i \in 1 .. Len(queue') : pc[queue'[i]] = "wait" /\ queue'[i] # p,
         pc' = [pc EXCEPT ![p] = l], act' = act,
         res' \in [Callers -> {"not run", "ok", "err"}],
         \A q \in Callers \ {p} : res'[q] = res[q], l = "wait" => res' = res,
         \/ wpc' = wpc /\ wpc[Reader] = "off"
         \/ p = Reader /\ l = "wait" /\ wpc' = [wpc EXCEPT ![Reader] = "lock"]
  PROVE  DoInv'
<1> USE Roles DEF DoInv
<1>1. DoType'
  BY DEF DoType
<1>2. pc'[p] = l /\ \A q \in Goroutines \ {p} : pc'[q] = pc[q]
  BY DEF DoType
<1>3. OwnClosure'
  BY <1>2 DEF OwnClosure
<1>4. QueueType' /\ QueuedWait'
  <2>1. \A i \in 1 .. Len(queue') : queue'[i] \in Goroutines
    BY SeqFacts
  <2>2. QED
    BY <2>1, <1>2 DEF QueueType, QueuedWait
<1>5. InWrite'
  <2>1. ASSUME NEW w \in Writers
        PROVE  wpc'[w] = wpc[w] /\ (wpc[w] # "off" => w # p /\ pc[w] = "write")
    <3>1. wpc[w] # "off" => w # p /\ pc[w] = "write"
      BY DEF InWrite
    <3>2. wpc'[w] = wpc[w]
      BY DEF DoType
    <3>3. QED
      BY <3>1, <3>2
  <2>2. CASE wpc' = wpc /\ wpc[Reader] = "off"
    BY <2>1, <2>2, <1>2 DEF InWrite
  <2>3. CASE p = Reader /\ l = "wait"
    BY <2>1, <2>3, <1>2 DEF InWrite
  <2>4. QED
    BY <2>2, <2>3
<1>6. ReaderRuns'
  BY <1>2 DEF ReaderRuns
<1>7. QED
  BY <1>1, <1>3, <1>4, <1>5, <1>6

(* A caller that is not in the queue moves, outside of do or back from it. *)
LEMMA MoveKeeps ==
  ASSUME DoInv, NEW p \in Goroutines,
         NEW l \in {"ret", "write", "gone"},
         pc[p] # "wait" \/ \A i \in 1 .. Len(queue) : queue[i] # p,
         l = "ret" /\ p \in Callers => act[p] \in ClosuresOf(p),
         p = Reader => l = "ret",
         pc' = [pc EXCEPT ![p] = l], act' = act,
         res' \in [Callers -> {"not run", "ok", "err"}],
         \A q \in Callers \ {p} : res'[q] = res[q], queue' = queue,
         wpc' \in [Writers \cup {Reader} -> {"off", "lock", "first", "last", "put"}],
         \A w \in (Writers \cup {Reader}) \ {p} : wpc'[w] = wpc[w],
         p \in Writers \cup {Reader} => l = "write" \/ wpc'[p] = "off"
  PROVE  DoInv'
<1> USE Roles DEF DoInv
<1>1. DoType'
  BY DEF DoType
<1>2. pc'[p] = l /\ \A q \in Goroutines \ {p} : pc'[q] = pc[q]
  BY DEF DoType
<1>3. OwnClosure'
  BY <1>2 DEF OwnClosure
<1>4. QueueType' /\ QueuedWait'
  <2>1. \A i \in 1 .. Len(queue) : queue[i] \in Goroutines
    BY SeqFacts DEF QueueType
  <2>2. QED
    BY <2>1, <1>2 DEF QueueType, QueuedWait
<1>5. InWrite' /\ ReaderRuns'
  BY <1>2 DEF InWrite, ReaderRuns
<1>6. QED
  BY <1>1, <1>3, <1>4, <1>5
(* Nothing of do or of the writers changes. *)
LEMMA DoUnchanged ==
  ASSUME DoInv, pc' = pc, act' = act, res' = res, queue' = queue, wpc' = wpc
  PROVE  DoInv'
BY DEF DoInv, DoType, QueueType, OwnClosure, QueuedWait, InWrite, ReaderRuns

(* A writer that holds writeMu, or wants it, gets on with its write. *)
LEMMA WriteKeeps ==
  ASSUME DoInv, NEW w \in Writers \cup {Reader}, wpc[w] # "off",
         NEW l \in {"first", "last", "put"}, wpc' = [wpc EXCEPT ![w] = l],
         pc' = pc, act' = act, res' = res, queue' = queue
  PROVE  DoInv'
BY DEF DoInv, DoType, QueueType, OwnClosure, QueuedWait, InWrite, ReaderRuns

(* Every step keeps DoInv. *)
LEMMA DoStepKeeps == DoInv /\ [Next]_vars => DoInv'
<1> SUFFICES ASSUME DoInv, [Next]_vars PROVE DoInv'
  OBVIOUS
<1> USE Roles DEF doVars, lineVars
<1>1. CASE Dispatch
  <2>1. queue # <<>> /\ wpc[Reader] = "off" /\ queue' = Tail(queue) /\ act' = act
        /\ wpc' = wpc /\ pc' = [pc EXCEPT ![Head(queue)] = "ret"]
        /\ (res' = res \/ RunClosure(Head(queue)))
    BY <1>1 DEF Dispatch
  <2>2. /\ res' \in [Callers -> {"not run", "ok", "err"}]
        /\ \A q \in Callers \ {Head(queue)} : res'[q] = res[q]
    BY <2>1 DEF RunClosure, DoInv, DoType
  <2>3. QED
    BY <2>1, <2>2, HeadWaits, DequeueKeeps
<1>2. CASE DispatchQuery
  <2>1. queue # <<>> /\ Head(queue) = Reader /\ queue' = Tail(queue) /\ act' = act
        /\ res' = res /\ pc' = pc /\ wpc' = [wpc EXCEPT ![Reader] = "lock"]
    BY <1>2 DEF DispatchQuery, Asks
  <2>2. pc[Reader] = "wait"
    BY <2>1, HeadWaits
  <2>3. pc' = [pc EXCEPT ![Reader] = "wait"] /\ res' \in [Callers -> {"not run", "ok", "err"}]
    BY <2>1, <2>2 DEF DoInv, DoType
  <2>4. QED
    BY <2>1, <2>2, <2>3, HeadWaits, DequeueKeeps
<1>3. CASE Answered
  <2>1. wpc[Reader] # "off" /\ act' = act /\ queue' = queue
        /\ wpc' = [wpc EXCEPT ![Reader] = "off"] /\ pc' = [pc EXCEPT ![Reader] = "ret"]
        /\ res' = [res EXCEPT ![Reader] = "ok"]
    BY <1>3 DEF Answered
  <2>2. /\ res' \in [Callers -> {"not run", "ok", "err"}]
        /\ \A q \in Callers \ {Reader} : res'[q] = res[q]
        /\ wpc' \in [Writers \cup {Reader} -> {"off", "lock", "first", "last", "put"}]
        /\ \A w \in (Writers \cup {Reader}) \ {Reader} : wpc'[w] = wpc[w]
        /\ wpc'[Reader] = "off"
    BY <2>1 DEF DoInv, DoType
  <2>3. act[Reader] \in ClosuresOf(Reader) /\ \A i \in 1 .. Len(queue) : queue[i] # Reader
    BY <2>1 DEF DoInv, OwnClosure, InWrite
  <2>4. QED
    BY <2>1, <2>2, <2>3, MoveKeeps
<1>4. ASSUME NEW p \in Callers, Send(p) PROVE DoInv'
  BY <1>4, EnqueueKeeps DEF Send
<1>5. ASSUME NEW p \in Goroutines, NEW l \in {"ret", "gone"},
             pc[p] \in {"send", "ret"}, pc' = [pc EXCEPT ![p] = l],
             p = Reader => l = "ret",
             act' = act, res' = res, queue' = queue, wpc' = wpc
      PROVE  DoInv'
  <2>1. pc[p] # "wait" /\ (p \in Writers \cup {Reader} => wpc'[p] = "off")
    BY <1>5 DEF DoInv, InWrite
  <2>2. p \in Callers => act[p] \in ClosuresOf(p)
    BY <1>5 DEF DoInv, OwnClosure
  <2>3. /\ wpc' \in [Writers \cup {Reader} -> {"off", "lock", "first", "last", "put"}]
        /\ res' \in [Callers -> {"not run", "ok", "err"}]
    BY <1>5 DEF DoInv, DoType
  <2>4. QED
    BY <1>5, <2>1, <2>2, <2>3, MoveKeeps
<1>6. ASSUME NEW p \in Callers, GiveUp(p) PROVE DoInv'
  BY <1>5, <1>6 DEF GiveUp
<1>7. CASE CloseStart
  <2>1. CASE Len(queue) < ActCap
    BY <1>7, <2>1, EnqueueKeeps DEF CloseStart
  <2>2. CASE ~(Len(queue) < ActCap)
    <3>1. /\ wpc' \in [Writers \cup {Reader} -> {"off", "lock", "first", "last", "put"}]
          /\ res' \in [Callers -> {"not run", "ok", "err"}]
      BY <1>7 DEF CloseStart, DoInv, DoType
    <3>2. QED
      BY <1>7, <2>2, <3>1, MoveKeeps DEF CloseStart
  <2>3. QED
    BY <2>1, <2>2
<1>8. CASE CloseEnd
  BY <1>5, <1>8 DEF CloseEnd
<1>9. CASE ReadMaster
  BY <1>9, CallDoKeeps DEF ReadMaster, ClosuresOf
<1>10. ASSUME NEW s \in Subscribers, Open(s) PROVE DoInv'
  <2>1. (IF s \in Viewers THEN "subscribeSnapshot" ELSE "subscribe") \in ClosuresOf(s)
    BY DEF ClosuresOf, Subscribers
  <2>2. QED
    BY <1>10, <2>1, CallDoKeeps DEF Open
<1>11. ASSUME NEW s \in Subscribers, StreamSnapshot(s) PROVE DoInv'
  <2>1. "snapshot" \in ClosuresOf(s)
    BY <1>11 DEF StreamSnapshot, DoInv, OwnClosure, ClosuresOf
  <2>2. QED
    BY <1>11, <2>1, CallDoKeeps DEF StreamSnapshot
<1>12. ASSUME NEW s \in Subscribers, Leave(s) PROVE DoInv'
  <2>1. "cancel" \in ClosuresOf(s)
    BY DEF ClosuresOf, Subscribers
  <2>2. QED
    BY <1>12, <2>1, CallDoKeeps DEF Leave, Viewing
<1>12a. ASSUME NEW s \in Subscribers, OpenFailed(s) PROVE DoInv'
  BY <1>5, <1>12a DEF OpenFailed
<1>13. ASSUME NEW z \in Resizers, Resize(z) PROVE DoInv'
  <2>1. "resize" \in ClosuresOf(z)
    BY DEF ClosuresOf
  <2>2. QED
    BY <1>13, <2>1, CallDoKeeps DEF Resize
<1>14. ASSUME NEW z \in Resizers, ResizeEnd(z) PROVE DoInv'
  BY <1>5, <1>14 DEF ResizeEnd
<1>15. ASSUME NEW w \in Writers, NEW l \in {"write", "gone"}, NEW k \in {"off", "lock"},
              pc[w] \in {"idle", "ret", "write"}, l = "write" \/ k = "off",
              pc' = [pc EXCEPT ![w] = l], wpc' = [wpc EXCEPT ![w] = k],
              act' = act, res' = res, queue' = queue
       PROVE  DoInv'
  <2>1. /\ wpc' \in [Writers \cup {Reader} -> {"off", "lock", "first", "last", "put"}]
        /\ res' \in [Callers -> {"not run", "ok", "err"}]
        /\ \A x \in (Writers \cup {Reader}) \ {w} : wpc'[x] = wpc[x]
        /\ wpc'[w] = k
    BY <1>15 DEF DoInv, DoType
  <2>2. QED
    BY <1>15, <2>1, MoveKeeps
<1>16. ASSUME NEW w \in Writers, Input(w) PROVE DoInv'
  <2>1. CASE w \in Pasters
    <3>1. "mode" \in ClosuresOf(w)
      BY DEF ClosuresOf
    <3>2. QED
      BY <1>16, <2>1, <3>1, CallDoKeeps DEF Input
  <2>2. CASE w \notin Pasters
    BY <1>15, <1>16, <2>2 DEF Input
  <2>3. QED
    BY <2>1, <2>2
<1>17. ASSUME NEW w \in Writers, Paste(w) PROVE DoInv'
  BY <1>15, <1>17 DEF Paste
<1>18. ASSUME NEW w \in Writers, InputEnd(w) PROVE DoInv'
  <2>1. pc[w] = "write"
    BY <1>18 DEF InputEnd, DoInv, InWrite
  <2>2. QED
    BY <1>15, <1>18, <2>1 DEF InputEnd
<1>19. ASSUME NEW w \in Writers \cup {Reader}, WriteStep(w) PROVE DoInv'
  <2>1. CASE Lock(w)
    BY <2>1, <1>19, WriteKeeps DEF Lock
  <2>2. CASE Put(w)
    BY <2>2, <1>19, WriteKeeps DEF Put, DoInv, DoType
  <2>3. CASE PutFails(w)
    BY <2>3, <1>19, WriteKeeps DEF PutFails
  <2>4. QED
    BY <1>19, <2>1, <2>2, <2>3 DEF WriteStep
<1>20. CASE \/ DispatchDone \/ DrainEnds \/ ChildWrites \/ ChildExits
            \/ ChildReads \/ ChildTurns \/ HangUp \/ UNCHANGED vars
            \/ \E s \in Subscribers : Receive(s)
  BY <1>20, DoUnchanged
     DEF DispatchDone, DrainEnds, ChildWrites, ChildExits, ChildReads, ChildTurns, HangUp,
         vars, Receive
<1>21. QED
  BY <1>1, <1>2, <1>3, <1>4, <1>6, <1>7, <1>8, <1>9, <1>10, <1>11, <1>12, <1>13, <1>14,
     <1>16, <1>17, <1>18, <1>19, <1>20, <1>12a
     DEF Next, DispatcherStep, CallerStep
-----------------------------------------------------------------------------
(* writeMu and the line *)

(* The child's input as a sequence: what it read last, then the line. *)
LEMMA InputFacts ==
  ASSUME NEW S, NEW h \in S, NEW q \in Seq(S)
  PROVE  /\ <<h>> \o q \in Seq(S) /\ Len(q) \in Nat /\ Len(<<h>> \o q) = Len(q) + 1
         /\ (<<h>> \o q)[1] = h
         /\ \A i \in 1 .. Len(q) : (<<h>> \o q)[i + 1] = q[i]
OBVIOUS

(* A unit that follows the last one may be put on the line. *)
LEMMA PutIsWhole ==
  ASSUME NEW S, NEW h \in S, NEW q \in Seq(S), NEW u \in S, Whole(<<h>> \o q),
         Follows((<<h>> \o q)[Len(q) + 1], u)
  PROVE  /\ Whole(<<h>> \o Append(q, u))
         /\ (<<h>> \o Append(q, u))[Len(Append(q, u)) + 1] = u
<1> DEFINE old == <<h>> \o q
           new == <<h>> \o Append(q, u)
<1>1. Append(q, u) \in Seq(S) /\ Len(q) \in Nat /\ Len(Append(q, u)) = Len(q) + 1
      /\ Append(q, u)[Len(q) + 1] = u
      /\ \A i \in 1 .. Len(q) : Append(q, u)[i] = q[i]
  BY AppendFacts
<1>2. Len(new) = Len(q) + 2 /\ new[1] = h
      /\ \A i \in 1 .. Len(q) + 1 : new[i + 1] = Append(q, u)[i]
  BY <1>1, InputFacts
<1>3. Len(old) = Len(q) + 1 /\ old[1] = h /\ \A i \in 1 .. Len(q) : old[i + 1] = q[i]
  BY InputFacts
<1> HIDE DEF old, new
<1>4. \A i \in 1 .. Len(q) + 1 : new[i] = old[i]
  <2> SUFFICES ASSUME NEW i \in 1 .. Len(q) + 1 PROVE new[i] = old[i]
    OBVIOUS
  <2>1. CASE i = 1
    BY <2>1, <1>2, <1>3
  <2>2. CASE i # 1
    <3>1. i - 1 \in 1 .. Len(q) /\ (i - 1) + 1 = i /\ i - 1 \in 1 .. Len(q) + 1
      BY <1>1, <2>2
    <3>2. new[i] = Append(q, u)[i - 1] /\ old[i] = q[i - 1]
      BY <3>1, <1>2, <1>3
    <3>3. QED
      BY <3>1, <3>2, <1>1
  <2>3. QED
    BY <2>1, <2>2
<1>5. new[Len(q) + 2] = u
  <2>1. Len(q) + 1 \in 1 .. Len(q) + 1 /\ (Len(q) + 1) + 1 = Len(q) + 2
    BY <1>1
  <2>2. QED
    BY <2>1, <1>1, <1>2
<1>6. ASSUME NEW i \in 1 .. Len(new) - 1 PROVE Follows(new[i], new[i + 1])
  <2>1. CASE i = Len(q) + 1
    <3>1. new[i] = old[Len(q) + 1] /\ new[i + 1] = u
      BY <2>1, <1>1, <1>4, <1>5
    <3>2. QED
      BY <3>1 DEF old
  <2>2. CASE i # Len(q) + 1
    <3>1. i \in 1 .. Len(q) + 1 /\ i + 1 \in 1 .. Len(q) + 1 /\ i \in 1 .. Len(old) - 1
      BY <2>2, <1>1, <1>2, <1>3
    <3>2. Follows(old[i], old[i + 1])
      BY <3>1 DEF Whole, old
    <3>3. QED
      BY <3>1, <3>2, <1>4
  <2>3. QED
    BY <2>1, <2>2
<1>7. new[Len(Append(q, u)) + 1] = u
  BY <1>1, <1>5
<1>8. QED
  BY <1>6, <1>7 DEF Whole, new

(* The child reads a unit: what follows is still whole, and ends as before. *)
LEMMA ReadIsWhole ==
  ASSUME NEW S, NEW h \in S, NEW q \in Seq(S), q # <<>>, Whole(<<h>> \o q)
  PROVE  /\ Whole(<<Head(q)>> \o Tail(q))
         /\ (<<Head(q)>> \o Tail(q))[Len(Tail(q)) + 1] = (<<h>> \o q)[Len(q) + 1]
<1> DEFINE old == <<h>> \o q
           new == <<Head(q)>> \o Tail(q)
<1>1. Len(q) \in Nat \ {0} /\ Head(q) = q[1] /\ Head(q) \in S
      /\ Tail(q) \in Seq(S) /\ Len(Tail(q)) = Len(q) - 1
      /\ \A i \in 1 .. Len(Tail(q)) : Tail(q)[i] = q[i + 1]
  BY TailFacts
<1>2. Len(new) = Len(q) /\ new[1] = q[1]
      /\ \A i \in 1 .. Len(q) - 1 : new[i + 1] = Tail(q)[i]
  BY <1>1, InputFacts
<1>3. Len(old) = Len(q) + 1 /\ \A i \in 1 .. Len(q) : old[i + 1] = q[i]
  BY InputFacts
<1> HIDE DEF old, new
<1>4. ASSUME NEW i \in 1 .. Len(q) PROVE new[i] = old[i + 1]
  <2>1. CASE i = 1
    BY <2>1, <1>1, <1>2, <1>3
  <2>2. CASE i # 1
    <3>1. i - 1 \in 1 .. Len(q) - 1 /\ (i - 1) + 1 = i
      BY <1>1, <2>2
    <3>2. new[i] = Tail(q)[i - 1] /\ Tail(q)[i - 1] = q[i]
      BY <3>1, <1>1, <1>2
    <3>3. QED
      BY <3>2, <1>3
  <2>3. QED
    BY <2>1, <2>2
<1>5. ASSUME NEW i \in 1 .. Len(new) - 1 PROVE Follows(new[i], new[i + 1])
  <2>1. i \in 1 .. Len(q) /\ i + 1 \in 1 .. Len(q) /\ i + 1 \in 1 .. Len(old) - 1
    BY <1>1, <1>2, <1>3
  <2>2. Follows(old[i + 1], old[(i + 1) + 1])
    BY <2>1 DEF Whole, old
  <2>3. QED
    BY <2>1, <2>2, <1>4
<1>6. new[Len(Tail(q)) + 1] = old[Len(q) + 1]
  <2>1. Len(q) \in 1 .. Len(q) /\ Len(Tail(q)) + 1 = Len(q)
    BY <1>1
  <2>2. QED
    BY <2>1, <1>4
<1>7. QED
  BY <1>5, <1>6 DEF Whole, new, old

(* The line and the mutex stay as they are, and so does every write that is *)
(* under way.                                                               *)
LEMMA LineUnchanged ==
  ASSUME DoInv, LineInv, mu' = mu, line' = line, heard' = heard, tty' \in {tty, "hung"},
         wpc' \in [Writers \cup {Reader} -> {"off", "lock", "first", "last", "put"}],
         \A w \in Writers \cup {Reader} :
            wpc'[w] \in {"first", "last"} \/ wpc[w] \in {"first", "last"} => wpc'[w] = wpc[w]
  PROVE  LineInv'
<1> USE PTYAssumption DEF LineInv
<1>1. LineType'
  BY DEF LineType
<1>2. HolderWrites'
  BY DEF HolderWrites
<1>3. HalfWritten((<<heard>> \o line)[Len(line) + 1])'
  <2> DEFINE u == (<<heard>> \o line)[Len(line) + 1]
  <2>1. u' = u /\ HalfWritten(u)
    OBVIOUS
  <2> HIDE DEF u
  <2>2. wpc[mu] = "last" /\ mu \in Writers \cup {Reader} => wpc'[mu] = "last"
    OBVIOUS
  <2>3. mu # Nobody => mu \in Writers \cup {Reader}
    BY DEF LineType
  <2>4. HalfWritten(u)'
    BY <2>1, <2>2, <2>3 DEF HalfWritten
  <2>5. QED
    BY <2>4 DEF u
<1>4. QED
  BY <1>1, <1>2, <1>3

(* A unit is put on the line by the goroutine that holds writeMu. *)
LEMMA PutKeeps ==
  ASSUME DoInv, LineInv, NEW w \in Writers \cup {Reader}, Put(w)
  PROVE  LineInv'
<1> USE PTYAssumption DEF LineInv
<1> DEFINE u == (<<heard>> \o line)[Len(line) + 1]
           n == <<w, wpc[w]>>
<1>1. /\ wpc[w] \in {"first", "last"} /\ tty # "hung" /\ line' = Append(line, n)
      /\ wpc' = [wpc EXCEPT ![w] = IF wpc[w] = "first" THEN "last" ELSE "put"]
      /\ mu' = (IF wpc[w] = "last" THEN Nobody ELSE mu) /\ tty' = tty /\ heard' = heard
  BY DEF Put
<1>2. mu = w /\ w # Nobody
  BY <1>1 DEF HolderWrites
<1>3. n \in Units /\ n[1] = w /\ n[2] = wpc[w]
  BY <1>1 DEF Units
<1>4. wpc'[w] = (IF wpc[w] = "first" THEN "last" ELSE "put")
      /\ \A x \in (Writers \cup {Reader}) \ {w} : wpc'[x] = wpc[x]
  BY <1>1 DEF DoInv, DoType
<1>5. Follows(u, n)
  <2>1. HalfWritten(u)
    OBVIOUS
  <2> HIDE DEF u
  <2>2. QED
    BY <2>1, <1>1, <1>2 DEF HalfWritten, Follows
<1>6. Whole(<<heard>> \o line)' /\ ((<<heard>> \o line)[Len(line) + 1])' = n
  <2>1. Whole(<<heard>> \o line) /\ heard \in Units /\ line \in Seq(Units)
    BY DEF LineType
  <2> HIDE DEF n
  <2>2. QED
    BY <2>1, <1>1, <1>3, <1>5, PutIsWhole
<1>7. LineType'
  <2>1. line' \in Seq(Units)
    BY <1>1, <1>3, AppendFacts DEF LineType
  <2>2. QED
    BY <2>1, <1>1 DEF LineType
<1>8. HolderWrites'
  BY <1>1, <1>2, <1>4 DEF HolderWrites
<1>9. HalfWritten((<<heard>> \o line)[Len(line) + 1])'
  BY <1>1, <1>2, <1>3, <1>4, <1>6 DEF HalfWritten
<1>10. QED
  BY <1>6, <1>7, <1>8, <1>9

(* writeMu is taken by, or leaves, w, and the line stays: nothing on it is  *)
(* half written, or the other end is gone.                                  *)
LEMMA MutexKeeps ==
  ASSUME DoInv, LineInv, NEW w \in Writers \cup {Reader}, Lock(w) \/ PutFails(w)
  PROVE  LineInv'
<1> USE PTYAssumption DEF LineInv
<1> DEFINE u == (<<heard>> \o line)[Len(line) + 1]
<1>1. line' = line /\ tty' = tty /\ heard' = heard /\ u' = u /\ HalfWritten(u)
      /\ Whole(<<heard>> \o line)'
  BY DEF Lock, PutFails
<1> HIDE DEF u
<1>2. \A x \in (Writers \cup {Reader}) \ {w} : wpc'[x] = wpc[x]
  BY DEF Lock, PutFails, DoInv, DoType
<1>3. CASE Lock(w)
  <2>1. mu = Nobody /\ mu' = w
    BY <1>3 DEF Lock
  <2>2. HolderWrites' /\ LineType'
    BY <2>1, <1>1, <1>2 DEF HolderWrites, LineType
  <2>3. HalfWritten(u)'
    BY <2>1, <1>1 DEF HalfWritten
  <2>4. QED
    BY <2>2, <2>3, <1>1 DEF u
<1>4. CASE PutFails(w)
  <2>1. mu = w /\ mu' = Nobody /\ wpc'[w] = "put" /\ tty = "hung"
    BY <1>4 DEF PutFails, HolderWrites, DoInv, DoType
  <2>2. HolderWrites' /\ LineType'
    BY <2>1, <1>1, <1>2 DEF HolderWrites, LineType
  <2>3. HalfWritten(u)'
    BY <2>1, <1>1 DEF HalfWritten
  <2>4. QED
    BY <2>2, <2>3, <1>1 DEF u
<1>5. QED
  BY <1>3, <1>4

(* The child reads one unit. *)
LEMMA ChildReadsKeeps == DoInv /\ LineInv /\ ChildReads => LineInv'
<1> SUFFICES ASSUME DoInv, LineInv, ChildReads PROVE LineInv'
  OBVIOUS
<1> USE DEF LineInv
<1> DEFINE u == (<<heard>> \o line)[Len(line) + 1]
<1>1. /\ line # <<>> /\ heard' = Head(line) /\ line' = Tail(line)
      /\ mu' = mu /\ wpc' = wpc /\ tty' = tty
      /\ heard \in Units /\ line \in Seq(Units)
      /\ HalfWritten(u) /\ Whole(<<heard>> \o line)
  BY DEF ChildReads, LineType
<1>2. Whole(<<heard>> \o line)' /\ u' = u
  BY <1>1, ReadIsWhole
<1>3. LineType'
  <2>1. Head(line) \in Units /\ Tail(line) \in Seq(Units)
    BY <1>1, TailFacts
  <2>2. QED
    BY <2>1, <1>1 DEF LineType
<1> HIDE DEF u
<1>4. HolderWrites' /\ HalfWritten(u)'
  BY <1>1, <1>2 DEF HolderWrites, HalfWritten
<1>5. QED
  BY <1>2, <1>3, <1>4 DEF u

(* Every step keeps LineInv. *)
LEMMA LineStepKeeps == DoInv /\ DoInv' /\ LineInv /\ [Next]_vars => LineInv'
<1> SUFFICES ASSUME DoInv, DoInv', LineInv, [Next]_vars PROVE LineInv'
  OBVIOUS
<1> USE Roles
<1>1. wpc' \in [Writers \cup {Reader} -> {"off", "lock", "first", "last", "put"}]
      /\ wpc \in [Writers \cup {Reader} -> {"off", "lock", "first", "last", "put"}]
  BY DEF DoInv, DoType
<1>2. ASSUME NEW w \in Writers \cup {Reader}, WriteStep(w) PROVE LineInv'
  BY <1>2, PutKeeps, MutexKeeps DEF WriteStep
<1>3. CASE ChildReads
  BY <1>3, ChildReadsKeeps
<1>4. ASSUME NEW w \in Writers \cup {Reader}, wpc[w] \in {"off", "put"},
             NEW k \in {"off", "lock"}, wpc' = [wpc EXCEPT ![w] = k],
             mu' = mu, line' = line, heard' = heard, tty' = tty
      PROVE  LineInv'
  <2>1. \A x \in Writers \cup {Reader} :
          wpc'[x] \in {"first", "last"} \/ wpc[x] \in {"first", "last"} => wpc'[x] = wpc[x]
    BY <1>1, <1>4
  <2>2. QED
    BY <1>1, <1>4, <2>1, LineUnchanged
<1>5. CASE DispatchQuery
  BY <1>4, <1>5 DEF DispatchQuery
<1>6. CASE Answered
  BY <1>4, <1>6 DEF Answered
<1>7. ASSUME NEW w \in Writers, Input(w) PROVE LineInv'
  <2>1. CASE w \in Pasters
    BY <1>1, <1>7, <2>1, LineUnchanged DEF Input
  <2>2. CASE w \notin Pasters
    <3>1. wpc[w] = "off"
      BY <1>7 DEF Input, DoInv, InWrite
    <3>2. QED
      BY <1>4, <1>7, <2>2, <3>1 DEF Input
  <2>3. QED
    BY <2>1, <2>2
<1>8. ASSUME NEW w \in Writers, Paste(w) PROVE LineInv'
  <2>1. wpc[w] = "off"
    BY <1>8 DEF Paste, DoInv, InWrite
  <2>2. QED
    BY <1>4, <1>8, <2>1 DEF Paste
<1>9. ASSUME NEW w \in Writers, InputEnd(w) PROVE LineInv'
  BY <1>4, <1>9 DEF InputEnd
<1>10. CASE HangUp
  BY <1>1, <1>10, LineUnchanged DEF HangUp
<1>11. CASE ChildTurns
  <2>1. mu' = mu /\ line' = line /\ heard' = heard /\ wpc' = wpc
        /\ tty # "hung" /\ tty' \in {"read", "deaf"}
    BY <1>11 DEF ChildTurns
  <2>2. LineType' /\ HolderWrites' /\ Whole(<<heard>> \o line)'
    BY <2>1 DEF LineInv, LineType, HolderWrites
  <2>3. HalfWritten((<<heard>> \o line)[Len(line) + 1])'
    BY <2>1 DEF LineInv, HalfWritten
  <2>4. QED
    BY <2>2, <2>3 DEF LineInv
<1>12. CASE UNCHANGED lineVars
  BY <1>1, <1>12, LineUnchanged DEF lineVars
<1>13. QED
  BY <1>2, <1>3, <1>5, <1>6, <1>7, <1>8, <1>9, <1>10, <1>11, <1>12
     DEF Next, DispatcherStep, CallerStep, Dispatch, DispatchDone, DrainEnds, Send, GiveUp,
         CloseStart, CloseEnd, ChildWrites, ChildExits, ReadMaster, Open, OpenFailed,
         StreamSnapshot, Receive, Leave, Resize, ResizeEnd, vars
-----------------------------------------------------------------------------
(* The closures *)

(* What the dispatcher's next closure is and does, by the kind of its       *)
(* caller.                                                                  *)
Runs(p, outcome) == res' = [res EXCEPT ![p] = outcome]
SameTerminal == UNCHANGED <<ptyVars, fed, snap, behind>>

ClosureOf(p) ==
  \/ p = Closer /\ Shutdown /\ res' = res
  \/ p = Reader /\ Feed /\ Runs(p, "ok")
  \/ p \in Streams /\ act[p] = "subscribe" /\ Subscribe(p) /\ Runs(p, "ok")
  \/ p \in Streams /\ act[p] = "snapshot" /\ term /\ Snapshot(p) /\ Runs(p, "ok")
  \/ p \in Viewers /\ act[p] = "subscribeSnapshot" /\ term /\ SubscribeWithSnapshot(p)
                   /\ Runs(p, "ok")
  \/ p \in Subscribers /\ act[p] = "cancel" /\ Cancel(p) /\ Runs(p, "ok")
  \/ p \in Resizers /\ ResizeTerm(p) /\ Runs(p, "ok")
  \/ p \in Writers /\ SameTerminal /\ Runs(p, "ok")
  \/ p \in Viewers /\ act[p] = "subscribeSnapshot" /\ SnapshotFails(p) /\ Runs(p, "err")
  \/ p \in Resizers /\ ResizeTerm(p) /\ Runs(p, "err")
  \/ p \in Callers \ {Reader} /\ SameTerminal /\ Runs(p, "err")

(* A dispatcher step runs one of the caller's own closures. *)
LEMMA DispatchCases ==
  ASSUME DoInv, Dispatch
  PROVE  \E p \in Goroutines : /\ pc[p] = "wait" /\ pc' = [pc EXCEPT ![p] = "ret"]
                              /\ act' = act /\ ClosureOf(p)
<1> DEFINE p == Head(queue)
<1>1. /\ p \in Goroutines /\ pc[p] = "wait"
      /\ pc' = [pc EXCEPT ![p] = "ret"] /\ act' = act
      /\ IF p = Closer THEN Shutdown /\ res' = res ELSE RunClosure(p)
  BY HeadWaits DEF Dispatch
<1> HIDE DEF p
<1>2. CASE p = Closer
  BY <1>1, <1>2 DEF ClosureOf
<1>3. CASE p # Closer
  <2>1. p \in Callers /\ act[p] \in ClosuresOf(p) /\ RunClosure(p)
    BY <1>1, <1>3, Roles DEF DoInv, OwnClosure
  <2>2. CASE p = Reader
    <3>1. act[p] = "feed"
      BY <2>1, <2>2 DEF ClosuresOf
    <3>2. Feed /\ Runs(p, "ok")
      BY <2>1, <3>1 DEF RunClosure, NeedTerm, Runs
    <3>3. QED
      BY <1>1, <2>2, <3>2 DEF ClosureOf
  <2>3. CASE p \in Viewers
    <3>1. p \in Subscribers /\ p # Reader /\ act[p] \in {"subscribeSnapshot", "cancel"}
      BY <2>1, <2>3, Roles DEF ClosuresOf
    <3>2. QED
      BY <1>1, <2>1, <2>3, <3>1
         DEF RunClosure, NeedTerm, HasTerm, ClosureOf, Runs, SameTerminal
  <2>4. CASE p \in Streams
    <3>1. p \in Subscribers /\ p # Reader /\ act[p] \in {"subscribe", "snapshot", "cancel"}
      BY <2>1, <2>4, Roles DEF ClosuresOf
    <3>2. QED
      BY <1>1, <2>1, <2>4, <3>1
         DEF RunClosure, NeedTerm, HasTerm, ClosureOf, Runs, SameTerminal
  <2>5. CASE p \in Resizers
    <3>1. p # Reader /\ act[p] = "resize"
      BY <2>1, <2>5, Roles DEF ClosuresOf, Subscribers
    <3>2. QED
      BY <1>1, <2>1, <2>5, <3>1 DEF RunClosure, ClosureOf, Runs, SameTerminal
  <2>6. CASE p \in Writers
    <3>1. p # Reader /\ act[p] = "mode"
      BY <2>1, <2>6, Roles DEF ClosuresOf, Subscribers
    <3>2. QED
      BY <1>1, <2>1, <2>6, <3>1 DEF RunClosure, ClosureOf, Runs, SameTerminal
  <2>7. QED
    BY <2>1, <2>2, <2>3, <2>4, <2>5, <2>6, Roles
<1>4. QED
  BY <1>2, <1>3

-----------------------------------------------------------------------------
(* Feeding the terminal *)

(* A chunk that is fed is the one the terminal lacks. *)
LEMMA FeedKeeps ==
  ASSUME DoInv, FeedInv, pc[Reader] = "wait", Feed, pc' = [pc EXCEPT ![Reader] = "ret"],
         read' = read, done' = done
  PROVE  FeedInv'
<1>1. pc'[Reader] = "ret"
  BY Roles DEF DoInv, DoType
<1>2. fed' = (IF term THEN fed + 1 ELSE fed) /\ term' = term
  BY DEF Feed
<1>3. QED
  BY <1>1, <1>2 DEF FeedInv, EveryReadIsFed

(* Steps that neither read nor feed: the terminal or p.actions may close,   *)
(* and a feed may be queued, or given up once they are closed.              *)
LEMMA FeedUnchanged ==
  ASSUME FeedInv, read' = read, fed' = fed, done => done', term' => term,
         \/ pc'[Reader] = pc[Reader]
         \/ pc[Reader] = "send" /\ pc'[Reader] = "wait"
         \/ done /\ pc'[Reader] = "ret"
  PROVE  FeedInv'
BY DEF FeedInv, EveryReadIsFed

(* Every step keeps FeedInv. *)
LEMMA FeedStepKeeps == DoInv /\ FeedInv /\ [Next]_vars => FeedInv'
<1> SUFFICES ASSUME DoInv, FeedInv, [Next]_vars PROVE FeedInv'
  OBVIOUS
<1> USE Roles DEF doVars, ptyVars, childVars
<1>1. CASE Dispatch
  <2>1. read' = read /\ done' = done
    BY <1>1 DEF Dispatch
  <2>2. PICK p \in Goroutines : pc[p] = "wait" /\ pc' = [pc EXCEPT ![p] = "ret"]
                               /\ ClosureOf(p)
    BY <1>1, DispatchCases
  <2>3. CASE p = Reader
    BY <2>1, <2>2, <2>3, FeedKeeps DEF ClosureOf
  <2>4. CASE p # Reader
    <3>1. pc'[Reader] = pc[Reader]
      BY <2>2, <2>4 DEF DoInv, DoType
    <3>2. fed' = fed /\ (term' => term)
      BY <2>2, <2>4
         DEF ClosureOf, SameTerminal, Shutdown, Subscribe, Snapshot, SubscribeWithSnapshot,
             SnapshotFails, Cancel, ResizeTerm
    <3>3. QED
      BY <2>1, <3>1, <3>2, FeedUnchanged
  <2>5. QED
    BY <2>3, <2>4
<1>2. CASE Answered
  <2>1. pc[Reader] = "wait"
    BY <1>2 DEF Answered, DoInv, InWrite
  <2>2. QED
    BY <1>2, <2>1, FeedKeeps DEF Answered
<1>3. CASE ReadMaster
  <2>1. /\ pc[Reader] \in {"idle", "ret"} /\ read' = read + 1 /\ fed' = fed /\ term' = term
        /\ done' = done /\ pc'[Reader] = IF done THEN "ret" ELSE "send"
    BY <1>3 DEF ReadMaster, CallDo, DoInv, DoType
  <2>2. QED
    BY <2>1 DEF FeedInv, EveryReadIsFed
<1>4. ASSUME NEW p \in Callers, CallerStep(p) PROVE FeedInv'
  <2>1. read' = read /\ fed' = fed /\ done' = done /\ term' = term
    BY <1>4 DEF CallerStep, Send, GiveUp
  <2>2. \/ pc'[Reader] = pc[Reader]
        \/ pc[Reader] = "send" /\ pc'[Reader] = "wait"
        \/ done /\ pc'[Reader] = "ret"
    BY <1>4 DEF CallerStep, Send, GiveUp, DoInv, DoType
  <2>3. QED
    BY <2>1, <2>2, FeedUnchanged
<1>5. CASE CloseStart \/ CloseEnd
  <2>1. read' = read /\ fed' = fed /\ (done => done') /\ term' = term
    BY <1>5 DEF CloseStart, CloseEnd
  <2>2. pc'[Reader] = pc[Reader]
    BY <1>5 DEF CloseStart, CloseEnd, DoInv, DoType
  <2>3. QED
    BY <2>1, <2>2, FeedUnchanged
<1>6. ASSUME NEW p \in Callers \ {Reader}, NEW l, pc' = [pc EXCEPT ![p] = l],
             read' = read, fed' = fed, done' = done, term' = term
      PROVE  FeedInv'
  <2>1. pc'[Reader] = pc[Reader]
    BY <1>6 DEF DoInv, DoType
  <2>2. QED
    BY <1>6, <2>1, FeedUnchanged
<1>7. ASSUME NEW s \in Subscribers, Open(s) \/ StreamSnapshot(s) \/ Leave(s) PROVE FeedInv'
  BY <1>6, <1>7 DEF Open, StreamSnapshot, Leave, CallDo
<1>7a. ASSUME NEW s \in Subscribers, OpenFailed(s) PROVE FeedInv'
  BY <1>6, <1>7a DEF OpenFailed
<1>8. ASSUME NEW z \in Resizers, Resize(z) \/ ResizeEnd(z) PROVE FeedInv'
  BY <1>6, <1>8 DEF Resize, ResizeEnd, CallDo
<1>9. ASSUME NEW w \in Writers, Input(w) \/ Paste(w) \/ InputEnd(w) PROVE FeedInv'
  <2>1. CASE Input(w)
    BY <1>6, <2>1 DEF Input, CallDo
  <2>2. CASE Paste(w)
    BY <1>6, <2>2 DEF Paste
  <2>3. CASE InputEnd(w)
    BY <1>6, <2>3 DEF InputEnd
  <2>4. QED
    BY <1>9, <2>1, <2>2, <2>3
<1>10. CASE pc' = pc /\ read' = read /\ fed' = fed /\ done' = done /\ term' = term
  BY <1>10, FeedUnchanged
<1>11. QED
  BY <1>1, <1>2, <1>3, <1>4, <1>5, <1>7, <1>8, <1>9, <1>10, <1>7a
     DEF Next, DispatcherStep, DispatchQuery, DispatchDone, DrainEnds, ChildWrites,
         ChildExits, Receive, WriteStep, Lock, Put, PutFails, ChildReads, ChildTurns, HangUp,
         vars
-----------------------------------------------------------------------------
(* Subscribers *)

(* The elements of a sequence that grew by one. *)
LEMMA ToSetAppend ==
  ASSUME NEW q \in Seq(Nat), NEW n \in Nat
  PROVE  ToSet(Append(q, n)) = ToSet(q) \cup {n}
<1>1. ToSet(q) = {q[i] : i \in 1 .. Len(q)}
  BY DEF ToSet
<1>2. ToSet(Append(q, n)) = {Append(q, n)[i] : i \in 1 .. Len(q) + 1}
  BY DEF ToSet
<1>3. /\ Append(q, n)[Len(q) + 1] = n /\ Len(q) \in Nat
      /\ \A i \in 1 .. Len(q) : Append(q, n)[i] = q[i]
  BY AppendFacts
<1>4. \A i \in 1 .. Len(q) + 1 : i \in 1 .. Len(q) \/ i = Len(q) + 1
  BY <1>3
<1>5. \A i \in 1 .. Len(q) : i \in 1 .. Len(q) + 1
  BY <1>3
<1>6. Len(q) + 1 \in 1 .. Len(q) + 1
  BY <1>3
<1>7. QED
  BY <1>1, <1>2, <1>3, <1>4, <1>5, <1>6, Zenon

(* A chunk behind everything received and queued. *)
LEMMA ConcatAppend ==
  ASSUME NEW g \in Seq(Nat), NEW c \in Seq(Nat), NEW n \in Nat
  PROVE  g \o Append(c, n) = Append(g \o c, n)
OBVIOUS

(* Receiving only moves a chunk. *)
LEMMA ReceiveJoins ==
  ASSUME NEW g \in Seq(Nat), NEW c \in Seq(Nat), c # <<>>
  PROVE  /\ Append(g, Head(c)) \o Tail(c) = g \o c
         /\ Append(g, Head(c)) \in Seq(Nat) /\ Tail(c) \in Seq(Nat)
         /\ Len(Tail(c)) = Len(c) - 1 /\ Len(c) \in Nat
OBVIOUS

(* The chunks between two points of the output, one more of them, and none. *)
LEMMA NextChunk ==
  ASSUME NEW b \in Nat, NEW f \in Nat, b <= f, NEW q \in Seq(Nat),
         q = [i \in 1 .. (f - b) |-> b + i]
  PROVE  Append(q, f + 1) = [i \in 1 .. ((f + 1) - b) |-> b + i]
OBVIOUS

(* No chunk was fed since the snapshot. *)
LEMMA NoChunk ==
  ASSUME NEW b \in Nat
  PROVE  <<>> \o <<>> = [i \in 1 .. (b - b) |-> b + i]
<1> DEFINE f == [i \in 1 .. (b - b) |-> b + i]
<1>1. b - b = 0
  OBVIOUS
<1>2. f \in Seq(Nat) /\ Len(f) = 0
  BY <1>1
<1> HIDE DEF f
<1>3. f = <<>>
  BY <1>2
<1>4. QED
  BY <1>3 DEF f

(* A subscriber for which nothing changes but its place in do. *)
LEMMA SubStays ==
  ASSUME NEW s \in Subscribers, SubOf(s),
         ch'[s] = ch[s], got'[s] = got[s], snap'[s] = snap[s], fed' = fed,
         chOpen'[s] = chOpen[s], s \in behind' <=> s \in behind,
         s \in subs' <=> s \in subs, term' = term,
         Fresh(s)' => Fresh(s), Shown(s)' => Shown(s)
  PROVE  SubOf(s)'
BY DEF SubOf

(* A chunk is fed to a subscriber, or dropped by its full channel. *)
LEMMA SubFed ==
  ASSUME SubType, OpenType, FeedInv, pc[Reader] = "wait", Feed,
         NEW s \in Subscribers, SubOf(s), got' = got,
         Fresh(s)' => Fresh(s), Shown(s)' => Shown(s)
  PROVE  SubOf(s)'
<1> USE PTYAssumption
<1>1. /\ ch'[s] = IF s \in subs /\ Len(ch[s]) < SubCap THEN Append(ch[s], read) ELSE ch[s]
      /\ fed' = (IF term THEN fed + 1 ELSE fed) /\ subs' = subs /\ term' = term
      /\ chOpen' = chOpen /\ snap' = snap
      /\ behind' = behind \cup {x \in subs : Len(ch[x]) = SubCap}
  BY DEF Feed
<1>2. /\ ch[s] \in Seq(Nat) /\ got[s] \in Seq(Nat) /\ got[s] \o ch[s] \in Seq(Nat)
      /\ snap[s] \in Nat /\ fed \in Nat /\ read \in Nat /\ snap[s] <= fed
      /\ Len(ch[s]) \in Nat /\ Len(ch[s]) <= SubCap /\ snap[s] <= fed'
  BY <1>1 DEF SubType, SubOf, FeedInv
<1>3. term => read = fed + 1
  BY DEF FeedInv
<1>4. CASE s \notin subs
  BY <1>1, <1>2, <1>4 DEF SubOf
<1>5. CASE s \in subs /\ ~(Len(ch[s]) < SubCap)
  <2>1. s \in behind'
    BY <1>1, <1>2, <1>5
  <2>2. QED
    BY <1>1, <1>2, <1>5, <2>1 DEF SubOf
<1>6. CASE s \in subs /\ Len(ch[s]) < SubCap
  <2>1. ch'[s] = Append(ch[s], read) /\ Len(ch'[s]) <= SubCap
    BY <1>1, <1>2, <1>6
  <2>2. ~Fresh(s)' /\ chOpen'[s]
    BY <1>1, <1>6 DEF SubOf
  <2>3. /\ got'[s] \o ch'[s] = Append(got[s] \o ch[s], read)
        /\ ToSet(got'[s] \o ch'[s]) = ToSet(got[s] \o ch[s]) \cup {read}
    <3> DEFINE g == got[s]
               c == ch[s]
    <3>1. g \in Seq(Nat) /\ c \in Seq(Nat) /\ g \o c \in Seq(Nat) /\ read \in Nat
      BY <1>2
    <3>2. got'[s] = g /\ ch'[s] = Append(c, read)
      BY <2>1
    <3> HIDE DEF g, c
    <3>3. g \o Append(c, read) = Append(g \o c, read)
      BY <3>1, ConcatAppend
    <3>4. ToSet(Append(g \o c, read)) = ToSet(g \o c) \cup {read}
      BY <3>1, ToSetAppend
    <3>5. QED
      BY <3>2, <3>3, <3>4 DEF g, c
  <2>4. ASSUME s \in Viewers
        PROVE  /\ term'
               /\ s \notin behind' =>
                     got'[s] \o ch'[s] = [i \in 1 .. (fed' - snap'[s]) |-> snap'[s] + i]
    <3>1. term /\ (s \notin behind' => s \notin behind)
      BY <1>1, <1>6, <2>4 DEF SubOf
    <3>2. fed' = fed + 1 /\ read = fed + 1 /\ snap'[s] = snap[s] /\ term'
      BY <1>1, <1>3, <3>1
    <3>3. s \notin behind =>
            got[s] \o ch[s] = [i \in 1 .. (fed - snap[s]) |-> snap[s] + i]
      BY <1>6, <2>4 DEF SubOf
    <3>4. s \notin behind =>
            Append(got[s] \o ch[s], fed + 1)
              = [i \in 1 .. ((fed + 1) - snap[s]) |-> snap[s] + i]
      BY <1>2, <3>3, NextChunk
    <3>5. QED
      BY <2>3, <3>1, <3>2, <3>4
  <2>5. ASSUME Shown(s)'
        PROVE  /\ term'
               /\ s \notin behind' =>
                     (1 .. fed') \subseteq (1 .. snap'[s]) \cup ToSet(got'[s] \o ch'[s])
    <3>1. /\ term /\ (s \notin behind' => s \notin behind)
          /\ s \notin behind =>
                (1 .. fed) \subseteq (1 .. snap[s]) \cup ToSet(got[s] \o ch[s])
      BY <1>1, <1>6, <2>5 DEF SubOf
    <3>2. fed' = fed + 1 /\ read = fed + 1 /\ snap'[s] = snap[s] /\ term'
      BY <1>1, <1>3, <3>1
    <3>3. \A k \in 1 .. (fed + 1) : k \in 1 .. fed \/ k = fed + 1
      BY <1>2
    <3>4. QED
      BY <2>3, <3>1, <3>2, <3>3
  <2>6. QED
    BY <1>1, <1>2, <1>6, <2>1, <2>2, <2>4, <2>5 DEF SubOf
<1>7. QED
  BY <1>4, <1>5, <1>6
(* Feed keeps all of it. *)
LEMMA SubInvFed ==
  ASSUME DoInv, FeedInv, SubInv, pc[Reader] = "wait", Feed, got' = got,
         act' = act, pc' = [pc EXCEPT ![Reader] = "ret"], res' = [res EXCEPT ![Reader] = "ok"]
  PROVE  SubInv'
<1> USE Roles
<1>1. OpenType'
  BY DEF SubInv, OpenType, Feed
<1>2. SubType'
  <2>1. \A s \in Subscribers : ch[s] \in Seq(Nat) /\ Append(ch[s], read) \in Seq(Nat)
    BY DEF SubInv, SubType, FeedInv
  <2>2. ch' \in [Subscribers -> Seq(Nat)]
    BY <2>1 DEF Feed
  <2>3. QED
    BY <2>2 DEF SubInv, SubType, Feed
<1>3. ASSUME NEW s \in Subscribers PROVE SubOf(s)'
  <2>1. pc'[s] = pc[s] /\ act'[s] = act[s] /\ res'[s] = res[s]
    BY DEF DoInv, DoType
  <2>2. (Fresh(s)' => Fresh(s)) /\ (Shown(s)' => Shown(s))
    BY <2>1 DEF Fresh, Shown
  <2>3. QED
    BY <2>2, SubFed DEF SubInv
<1>4. QED
  BY <1>1, <1>2, <1>3 DEF SubInv

(* Nothing changes for the subscribers but, perhaps, their place in do.     *)
LEMMA SubUnchanged ==
  ASSUME SubInv, subs' = subs, behind' = behind, ch' = ch, chOpen' = chOpen, got' = got,
         snap' = snap, fed' = fed, term' = term,
         \A s \in Subscribers : (Fresh(s)' => Fresh(s)) /\ (Shown(s)' => Shown(s))
  PROVE  SubInv'
<1>1. SubType' /\ OpenType'
  BY DEF SubInv, SubType, OpenType
<1>2. \A s \in Subscribers : SubOf(s)'
  BY SubStays DEF SubInv
<1>3. QED
  BY <1>1, <1>2 DEF SubInv

(* Someone who is no subscriber moves in do. *)
LEMMA OtherMoves ==
  ASSUME DoInv, NEW p \in Goroutines \ Subscribers, NEW l, pc' = [pc EXCEPT ![p] = l],
         \A s \in Subscribers : act'[s] = act[s] /\ res'[s] = res[s]
  PROVE  \A s \in Subscribers : (Fresh(s)' => Fresh(s)) /\ (Shown(s)' => Shown(s))
<1>1. \A s \in Subscribers : pc'[s] = pc[s]
  BY Roles DEF DoInv, DoType
<1>2. QED
  BY <1>1 DEF Fresh, Shown

(* Someone who is no subscriber calls do. *)
LEMMA OtherCalls ==
  ASSUME DoInv, NEW p \in Callers \ Subscribers, NEW closure, CallDo(p, closure)
  PROVE  \A s \in Subscribers : act'[s] = act[s] /\ res'[s] = res[s]
BY Roles DEF CallDo, DoInv, DoType

(* A subscriber moves in do, but does not get its snapshot. *)
LEMMA SubscriberMoves ==
  ASSUME DoInv, NEW p \in Subscribers, NEW l, pc' = [pc EXCEPT ![p] = l],
         \A s \in Subscribers \ {p} : act'[s] = act[s] /\ res'[s] = res[s],
         Fresh(p)' => Fresh(p), Shown(p)' => Shown(p)
  PROVE  \A s \in Subscribers : (Fresh(s)' => Fresh(s)) /\ (Shown(s)' => Shown(s))
<1>1. \A s \in Subscribers \ {p} : pc'[s] = pc[s]
  BY Roles DEF DoInv, DoType
<1>2. QED
  BY <1>1 DEF Fresh, Shown

(* A closure of subscriber p, which alone is concerned. *)
LEMMA SubClosure ==
  ASSUME DoInv, FeedInv, SubInv, NEW p \in Subscribers, pc[p] = "wait",
         pc' = [pc EXCEPT ![p] = "ret"], act' = act, got' = got, ClosureOf(p)
  PROVE  SubInv'
<1> USE Roles
<1>1. pc'[p] = "ret" /\ \A s \in Subscribers \ {p} : pc'[s] = pc[s]
  BY DEF DoInv, DoType
<1>2. SubOf(p) /\ fed \in Nat /\ snap[p] \in Nat
  BY DEF SubInv, SubType, FeedInv
<1>3. ~Fresh(p)'
  <2>1. Runs(p, "ok") \/ Runs(p, "err")
    BY DEF ClosureOf
  <2>2. res'[p] # "not run"
    BY <2>1 DEF Runs, DoInv, DoType
  <2>3. QED
    BY <1>1, <2>2 DEF Fresh
<1>4. /\ ch' = ch /\ fed' = fed /\ term' = term /\ behind' = behind
      /\ subs' \in SUBSET Subscribers
      /\ \A s \in Subscribers \ {p} : s \in subs' <=> s \in subs
  BY DEF ClosureOf, Subscribe, Snapshot, SubscribeWithSnapshot, SnapshotFails, Cancel, SameTerminal,
         ptyVars, SubInv, SubType
<1>5. \A s \in Subscribers \ {p} : snap'[s] = snap[s] /\ chOpen'[s] = chOpen[s]
                                  /\ res'[s] = res[s]
  BY DEF ClosureOf, Subscribe, Snapshot, SubscribeWithSnapshot, SnapshotFails, Cancel, SameTerminal, Runs,
         ptyVars, SubInv, SubType, OpenType, DoInv, DoType
<1>6. SubType'
  <2>1. snap' \in [Subscribers -> Nat]
    BY <1>2 DEF ClosureOf, Subscribe, Snapshot, SubscribeWithSnapshot, SnapshotFails, Cancel, SameTerminal,
                ptyVars, SubInv, SubType
  <2>2. QED
    BY <2>1, <1>4 DEF SubInv, SubType
<1>7. OpenType'
  <2>1. CASE chOpen' = chOpen
    BY <2>1 DEF SubInv, OpenType
  <2>2. CASE chOpen' = [chOpen EXCEPT ![p] = @ /\ p \notin subs]
    BY <2>2, Zenon DEF SubInv, OpenType
  <2>3. CASE chOpen' = [chOpen EXCEPT ![p] = FALSE]
    BY <2>3, Zenon DEF SubInv, OpenType
  <2>4. QED
    BY <2>1, <2>2, <2>3 DEF ClosureOf, Subscribe, Snapshot, SubscribeWithSnapshot, SnapshotFails, Cancel,
                      SameTerminal, ptyVars
<1>8. ASSUME NEW s \in Subscribers \ {p} PROVE SubOf(s)'
  <2>1. (Fresh(s)' => Fresh(s)) /\ (Shown(s)' => Shown(s))
    BY <1>1, <1>5 DEF Fresh, Shown
  <2>2. QED
    BY <2>1, <1>4, <1>5, SubStays DEF SubInv
<1>9. SubOf(p)'
  <2>1. CASE p \in Streams /\ act[p] = "subscribe" /\ Subscribe(p)
    <3>1. p \notin Viewers /\ ~Shown(p)' /\ Fresh(p) /\ snap' = snap /\ chOpen' = chOpen
      BY <2>1 DEF Shown, Fresh, Subscribe
    <3>2. QED
      BY <3>1, <1>2, <1>3, <1>4 DEF SubOf
  <2>2. CASE p \in Streams /\ act[p] = "snapshot" /\ term /\ Snapshot(p)
    <3>1. /\ p \notin Viewers /\ snap'[p] = fed /\ chOpen' = chOpen /\ subs' = subs
      BY <2>2 DEF Snapshot, ptyVars, SubInv, SubType
    <3>2. (1 .. fed') \subseteq (1 .. snap'[p]) \cup ToSet(got'[p] \o ch'[p])
      BY <3>1, <1>4
    <3>3. /\ Len(ch'[p]) <= SubCap /\ snap'[p] <= fed' /\ term'
          /\ p \in subs' => chOpen'[p]
      <4>1. Len(ch[p]) <= SubCap /\ (p \in subs => chOpen[p])
        BY <1>2 DEF SubOf
      <4>2. QED
        BY <4>1, <2>2, <3>1, <1>2, <1>4
    <3>4. QED
      BY <3>1, <3>2, <3>3, <1>3, Zenon DEF SubOf
  <2>3. CASE p \in Viewers /\ act[p] = "subscribeSnapshot" /\ term /\ SubscribeWithSnapshot(p)
    <3>1. /\ ~Shown(p)' /\ Fresh(p) /\ snap'[p] = fed /\ chOpen' = chOpen
      BY <2>3 DEF Shown, Fresh, SubscribeWithSnapshot, SubInv, SubType
    <3>2. got'[p] = <<>> /\ ch'[p] = <<>> /\ chOpen[p]
      BY <3>1, <1>2, <1>4 DEF SubOf
    <3>3. got'[p] \o ch'[p] = [i \in 1 .. (fed' - snap'[p]) |-> snap'[p] + i]
      BY <3>1, <3>2, <1>2, <1>4, NoChunk
    <3>4. QED
      BY <2>3, <3>1, <3>2, <3>3, <1>2, <1>3, <1>4 DEF SubOf
  <2>4. CASE Cancel(p)
    <3>1. p \notin subs' /\ snap' = snap
      BY <2>4 DEF Cancel
    <3>2. QED
      BY <3>1, <1>2, <1>3, <1>4 DEF SubOf
  <2>5. CASE SameTerminal /\ Runs(p, "err")
    <3>1. ~Shown(p)' /\ snap' = snap /\ chOpen' = chOpen /\ subs' = subs
      BY <2>5 DEF Shown, SameTerminal, Runs, ptyVars, DoInv, DoType
    <3>2. QED
      BY <3>1, <1>2, <1>3, <1>4, SubStays
  <2>6. CASE SnapshotFails(p)
    <3>1. p \notin subs' /\ snap' = snap
      BY <2>6 DEF SnapshotFails
    <3>2. QED
      BY <3>1, <1>2, <1>3, <1>4 DEF SubOf
  <2>7. QED
    BY <2>1, <2>2, <2>3, <2>4, <2>5, <2>6 DEF ClosureOf
<1>10. QED
  BY <1>6, <1>7, <1>8, <1>9 DEF SubInv

(* Close's closure empties p.subs. *)
LEMMA SubShutdown ==
  ASSUME DoInv, SubInv, Shutdown, pc' = [pc EXCEPT ![Closer] = "ret"], act' = act,
         res' = res, got' = got
  PROVE  SubInv'
<1> USE Roles
<1>1. /\ subs' = {} /\ ch' = ch /\ fed' = fed /\ snap' = snap /\ behind' = behind
      /\ chOpen' = [s \in Subscribers |-> chOpen[s] /\ s \notin subs]
  BY DEF Shutdown
<1>2. SubType'
  BY <1>1 DEF SubInv, SubType
<1>3. OpenType'
  BY <1>1, Zenon DEF SubInv, OpenType
<1>4. ASSUME NEW s \in Subscribers PROVE SubOf(s)'
  <2>1. Fresh(s)' => Fresh(s)
    BY DEF Fresh, DoInv, DoType
  <2>2. chOpen'[s] = (chOpen[s] /\ s \notin subs) /\ SubOf(s)
    BY <1>1 DEF SubInv
  <2>3. QED
    BY <1>1, <2>1, <2>2 DEF SubOf
<1>5. QED
  BY <1>2, <1>3, <1>4 DEF SubInv

(* A subscriber receives a chunk. *)
LEMMA SubReceives ==
  ASSUME SubInv, NEW p \in Subscribers, Receive(p)
  PROVE  SubInv'
<1>1. /\ ch[p] # <<>> /\ ch' = [ch EXCEPT ![p] = Tail(ch[p])]
      /\ got' = [got EXCEPT ![p] = Append(got[p], Head(ch[p]))]
      /\ pc' = pc /\ act' = act /\ res' = res /\ term' = term /\ subs' = subs
      /\ chOpen' = chOpen /\ fed' = fed /\ snap' = snap /\ behind' = behind
  BY DEF Receive, doVars
<1>2. ch[p] \in Seq(Nat) /\ got[p] \in Seq(Nat)
  BY DEF SubInv, SubType
<1>3. /\ Append(got[p], Head(ch[p])) \o Tail(ch[p]) = got[p] \o ch[p]
      /\ Append(got[p], Head(ch[p])) \in Seq(Nat) /\ Tail(ch[p]) \in Seq(Nat)
      /\ Len(Tail(ch[p])) = Len(ch[p]) - 1 /\ Len(ch[p]) \in Nat
  BY <1>1, <1>2, ReceiveJoins
<1>4. SubType' /\ OpenType'
  BY <1>1, <1>3 DEF SubInv, SubType, OpenType
<1>5. \A s \in Subscribers : (Fresh(s)' <=> Fresh(s)) /\ (Shown(s)' <=> Shown(s))
  BY <1>1 DEF Fresh, Shown
<1>6. ASSUME NEW s \in Subscribers \ {p} PROVE SubOf(s)'
  <2>1. ch'[s] = ch[s] /\ got'[s] = got[s]
    BY <1>1 DEF SubInv, SubType
  <2>2. QED
    BY <2>1, <1>1, <1>5, SubStays DEF SubInv
<1>7. SubOf(p)'
  <2>1. ch'[p] = Tail(ch[p]) /\ got'[p] = Append(got[p], Head(ch[p]))
    BY <1>1 DEF SubInv, SubType
  <2>2. got'[p] \o ch'[p] = got[p] \o ch[p] /\ Len(ch'[p]) <= SubCap
    <3>1. got'[p] \o ch'[p] = got[p] \o ch[p]
      BY <2>1, <1>3, Zenon
    <3>2. Len(ch'[p]) = Len(ch[p]) - 1
      BY <2>1, <1>3, Zenon
    <3>3. Len(ch[p]) \in Nat /\ Len(ch[p]) <= SubCap /\ SubCap \in Nat
      BY <1>3, PTYAssumption DEF SubInv, SubOf
    <3>4. Len(ch'[p]) <= SubCap
      <4> DEFINE n == Len(ch[p])
      <4>1. n \in Nat /\ n <= SubCap /\ Len(ch'[p]) = n - 1
        BY <3>2, <3>3
      <4> HIDE DEF n
      <4>2. QED
        BY <4>1, <3>3
    <3>5. QED
      BY <3>1, <3>4
  <2>3. ~Fresh(p)
    BY <1>1 DEF SubInv, SubOf
  <2>4. QED
    BY <2>2, <2>3, <1>1, <1>5 DEF SubInv, SubOf
<1>8. QED
  BY <1>4, <1>6, <1>7 DEF SubInv

(* An attach that got no snapshot goes, and closes its channel if its       *)
(* closure did not.                                                         *)
LEMMA SubFails ==
  ASSUME DoInv, SubInv, NEW p \in Subscribers, OpenFailed(p)
  PROVE  SubInv'
<1> USE Roles
<1>1. /\ pc[p] = "ret" /\ act[p] = "subscribeSnapshot" /\ pc' = [pc EXCEPT ![p] = "gone"]
      /\ chOpen' = (IF res[p] = "not run" THEN [chOpen EXCEPT ![p] = FALSE] ELSE chOpen)
      /\ act' = act /\ res' = res /\ term' = term /\ subs' = subs /\ ch' = ch
      /\ fed' = fed /\ snap' = snap /\ got' = got /\ behind' = behind
  BY DEF OpenFailed, viewVars
<1>2. pc'[p] = "gone" /\ \A s \in Subscribers \ {p} : pc'[s] = pc[s]
  BY <1>1 DEF DoInv, DoType
<1>3. SubType'
  BY <1>1 DEF SubInv, SubType
<1>4. OpenType'
  <2>1. CASE res[p] = "not run"
    BY <2>1, <1>1, Zenon DEF SubInv, OpenType
  <2>2. CASE res[p] # "not run"
    BY <2>2, <1>1 DEF SubInv, OpenType
  <2>3. QED
    BY <2>1, <2>2
<1>5. ASSUME NEW s \in Subscribers \ {p} PROVE SubOf(s)'
  <2>1. chOpen'[s] = chOpen[s]
    BY <1>1 DEF SubInv, OpenType
  <2>2. (Fresh(s)' => Fresh(s)) /\ (Shown(s)' => Shown(s))
    BY <1>1, <1>2 DEF Fresh, Shown
  <2>3. QED
    BY <2>1, <2>2, <1>1, SubStays DEF SubInv
<1>6. SubOf(p)'
  <2>1. ~Fresh(p)' /\ ~Shown(p)'
    BY <1>2 DEF Fresh, Shown
  <2>2. CASE res[p] = "not run"
    <3>1. Fresh(p)
      BY <1>1, <2>2 DEF Fresh
    <3>2. p \notin subs'
      BY <1>1, <3>1 DEF SubInv, SubOf
    <3>3. QED
      BY <1>1, <2>1, <3>2 DEF SubInv, SubOf
  <2>3. CASE res[p] # "not run"
    BY <1>1, <2>1, <2>3, SubStays DEF SubInv
  <2>4. QED
    BY <2>2, <2>3
<1>7. QED
  BY <1>3, <1>4, <1>5, <1>6 DEF SubInv

(* Every step keeps SubInv. *)
LEMMA SubStepKeeps == DoInv /\ FeedInv /\ SubInv /\ [Next]_vars => SubInv'
<1> SUFFICES ASSUME DoInv, FeedInv, SubInv, [Next]_vars PROVE SubInv'
  OBVIOUS
<1> DEFINE Calm == /\ subs' = subs /\ behind' = behind /\ ch' = ch /\ chOpen' = chOpen
                   /\ got' = got /\ snap' = snap /\ fed' = fed /\ term' = term
<1> USE Roles
<1>1. ASSUME NEW p \in Goroutines \ Subscribers, NEW l, pc' = [pc EXCEPT ![p] = l],
             \A s \in Subscribers : act'[s] = act[s] /\ res'[s] = res[s], Calm
      PROVE  SubInv'
  BY <1>1, OtherMoves, SubUnchanged
<1>2. ASSUME pc' = pc, act' = act, res' = res, Calm PROVE SubInv'
  <2>1. \A s \in Subscribers : (Fresh(s)' => Fresh(s)) /\ (Shown(s)' => Shown(s))
    BY <1>2 DEF Fresh, Shown
  <2>2. QED
    BY <1>2, <2>1, SubUnchanged
<1>3. CASE Dispatch
  <2>1. got' = got
    BY <1>3 DEF Dispatch
  <2>2. PICK p \in Goroutines : /\ pc[p] = "wait" /\ pc' = [pc EXCEPT ![p] = "ret"]
                               /\ act' = act /\ ClosureOf(p)
    BY <1>3, DispatchCases
  <2>3. CASE p = Closer
    <3>1. Shutdown /\ res' = res
      BY <2>2, <2>3 DEF ClosureOf
    <3>2. QED
      BY <2>1, <2>2, <2>3, <3>1, SubShutdown
  <2>4. CASE p = Reader
    <3>1. Feed /\ res' = [res EXCEPT ![Reader] = "ok"]
      BY <2>2, <2>4 DEF ClosureOf, Runs
    <3>2. QED
      BY <2>1, <2>2, <2>4, <3>1, SubInvFed
  <2>5. CASE p \in Subscribers
    BY <2>1, <2>2, <2>5, SubClosure
  <2>6. CASE p \in Callers \ (Subscribers \cup {Reader})
    <3>1. (ResizeTerm(p) \/ SameTerminal) /\ (Runs(p, "ok") \/ Runs(p, "err"))
      BY <2>2, <2>6 DEF ClosureOf
    <3>2. Calm
      BY <3>1, <2>1 DEF ResizeTerm, SameTerminal, ptyVars
    <3>3. \A s \in Subscribers : act'[s] = act[s] /\ res'[s] = res[s]
      BY <3>1, <2>2, <2>6 DEF Runs, DoInv, DoType
    <3>4. QED
      BY <2>2, <2>6, <3>2, <3>3, <1>1
  <2>7. QED
    BY <2>3, <2>4, <2>5, <2>6
<1>4. CASE Answered
  <2>1. pc[Reader] = "wait"
    BY <1>4 DEF Answered, DoInv, InWrite
  <2>2. QED
    BY <1>4, <2>1, SubInvFed DEF Answered
<1>5. ASSUME NEW s \in Subscribers, Receive(s) PROVE SubInv'
  BY <1>5, SubReceives
<1>6. ASSUME NEW p \in Callers, CallerStep(p) PROVE SubInv'
  <2>1. Calm /\ act' = act /\ res' = res
    BY <1>6 DEF CallerStep, Send, GiveUp, ptyVars, viewVars
  <2>2. PICK l \in {"wait", "ret"} : pc' = [pc EXCEPT ![p] = l] /\ pc[p] = "send"
                                    /\ (l = "ret" => done)
    BY <1>6 DEF CallerStep, Send, GiveUp
  <2>3. CASE p \notin Subscribers
    BY <2>1, <2>2, <2>3, <1>1
  <2>4. CASE p \in Subscribers
    <3>1. pc'[p] = l
      BY <2>2 DEF DoInv, DoType
    <3>2. Fresh(p)' => Fresh(p)
      BY <2>1, <2>2, <3>1 DEF Fresh
    <3>3. Shown(p)' => Shown(p)
      BY <2>1, <2>2, <3>1, <2>4 DEF Shown, DoInv, OwnClosure
    <3>4. QED
      BY <2>1, <2>2, <2>4, <3>2, <3>3, SubscriberMoves, SubUnchanged
  <2>5. QED
    BY <2>3, <2>4
<1>7. ASSUME NEW s \in Subscribers, NEW closure, CallDo(s, closure),
             pc[s] = "idle" \/ closure \notin {"subscribe", "subscribeSnapshot"}, Calm
      PROVE  SubInv'
  <2>1. /\ act'[s] = closure /\ res'[s] = "not run"
        /\ pc'[s] = (IF done THEN "ret" ELSE "send")
        /\ \A x \in Subscribers \ {s} : act'[x] = act[x] /\ res'[x] = res[x]
    BY <1>7 DEF CallDo, DoInv, DoType
  <2>2. Fresh(s)' => Fresh(s)
    BY <2>1, <1>7 DEF Fresh
  <2>3. ~Shown(s)'
    BY <2>1 DEF Shown
  <2>4. QED
    BY <1>7, <2>1, <2>2, <2>3, SubscriberMoves, SubUnchanged DEF CallDo
<1>8. ASSUME NEW s \in Subscribers, Open(s) \/ StreamSnapshot(s) \/ Leave(s) PROVE SubInv'
  <2>1. Calm
    BY <1>8 DEF Open, StreamSnapshot, Leave, ptyVars, viewVars
  <2>2. CASE Open(s)
    BY <1>7, <2>1, <2>2 DEF Open
  <2>3. CASE StreamSnapshot(s)
    BY <1>7, <2>1, <2>3 DEF StreamSnapshot
  <2>4. CASE Leave(s)
    BY <1>7, <2>1, <2>4 DEF Leave
  <2>5. QED
    BY <1>8, <2>2, <2>3, <2>4
<1>8a. ASSUME NEW s \in Subscribers, OpenFailed(s) PROVE SubInv'
  BY <1>8a, SubFails
<1>9. CASE ReadMaster
  <2>1. Calm /\ CallDo(Reader, "feed")
    BY <1>9 DEF ReadMaster, ptyVars, viewVars
  <2>2. \A s \in Subscribers : act'[s] = act[s] /\ res'[s] = res[s]
    BY <2>1, OtherCalls
  <2>3. QED
    BY <1>1, <2>1, <2>2 DEF CallDo
<1>10. CASE CloseStart \/ CloseEnd
  <2>1. Calm /\ act' = act /\ res' = res
    BY <1>10 DEF CloseStart, CloseEnd, ptyVars, viewVars
  <2>2. \E l \in {"wait", "gone"} : pc' = [pc EXCEPT ![Closer] = l]
    BY <1>10 DEF CloseStart, CloseEnd
  <2>3. QED
    BY <1>1, <2>1, <2>2
<1>11. ASSUME NEW z \in Resizers, Resize(z) \/ ResizeEnd(z) PROVE SubInv'
  <2>1. Calm /\ (CallDo(z, "resize") \/ (act' = act /\ res' = res))
    BY <1>11 DEF Resize, ResizeEnd, ptyVars, viewVars
  <2>2. \A s \in Subscribers : act'[s] = act[s] /\ res'[s] = res[s]
    BY <2>1, OtherCalls
  <2>3. \E l \in {"send", "ret", "gone"} : pc' = [pc EXCEPT ![z] = l]
    BY <1>11 DEF Resize, ResizeEnd, CallDo
  <2>4. QED
    BY <1>1, <2>1, <2>2, <2>3
<1>12. ASSUME NEW w \in Writers, Input(w) \/ Paste(w) \/ InputEnd(w) PROVE SubInv'
  <2>1. Calm /\ (CallDo(w, "mode") \/ (act' = act /\ res' = res))
    BY <1>12 DEF Input, Paste, InputEnd, ptyVars, viewVars
  <2>2. \A s \in Subscribers : act'[s] = act[s] /\ res'[s] = res[s]
    BY <2>1, OtherCalls
  <2>3. \E l \in {"send", "ret", "write", "gone"} : pc' = [pc EXCEPT ![w] = l]
    BY <1>12 DEF Input, Paste, InputEnd, CallDo
  <2>4. QED
    BY <1>1, <2>1, <2>2, <2>3
<1>13. CASE UNCHANGED <<doVars, ptyVars, fed, viewVars>>
  BY <1>2, <1>13 DEF doVars, ptyVars, viewVars
<1>14. QED
  BY <1>3, <1>4, <1>5, <1>6, <1>8, <1>9, <1>10, <1>11, <1>12, <1>13, <1>8a
     DEF Next, DispatcherStep, DispatchQuery, DispatchDone, DrainEnds, ChildWrites,
         ChildExits, WriteStep, Lock, Put, PutFails, ChildReads, ChildTurns, HangUp, vars

-----------------------------------------------------------------------------
(* Resizes *)

(* Nothing happens to a resize. *)
ResizersRest == \A z \in Resizers : pc'[z] = pc[z] /\ act'[z] = act[z] /\ res'[z] = res[z]

(* A step that leaves the resizes and the sizes alone. *)
LEMMA ResizeUnchanged ==
  ASSUME ResizeInv, ResizersRest, winsize' = winsize, grid' = grid, stored' = stored,
         overlap' = overlap
  PROVE  ResizeInv'
<1>1. \A z \in Resizers : Busy(z)' <=> Busy(z)
  BY DEF Busy, ResizersRest
<1>2. OneResize => OneResize'
  BY <1>1 DEF OneResize
<1>3. ASSUME NEW z \in Resizers, UnderWay(z) PROVE UnderWay(z)'
  BY <1>1, <1>3 DEF UnderWay, ResizersRest
<1>4. ResizesAgree => ResizesAgree'
  BY <1>1 DEF ResizesAgree, ResizersRest
<1>5. QED
  BY <1>2, <1>3, <1>4 DEF ResizeInv

(* The resize that is under way goes on. *)
LEMMA ResizeGoesOn ==
  ASSUME ResizeInv, NEW z \in Resizers, Busy(z), Busy(z)',
         \A y \in Resizers \ {z} : pc'[y] = pc[y],
         winsize' = winsize, overlap' = overlap,
         pc'[z] = "ret" /\ res'[z] = "ok" => grid' = z
  PROVE  ResizeInv'
<1>1. \A y \in Resizers : Busy(y)' <=> Busy(y)
  BY DEF Busy
<1>2. OneResize => OneResize'
  BY <1>1 DEF OneResize
<1>3. ASSUME OneResize, UnderWay(z), NEW y \in Resizers PROVE UnderWay(y)'
  BY <1>1, <1>3 DEF UnderWay, OneResize
<1>4. ResizesAgree'
  BY DEF ResizesAgree
<1>5. QED
  BY <1>2, <1>3, <1>4 DEF ResizeInv

(* A step of someone who is no resizer. *)
LEMMA OthersLeaveResizes ==
  ASSUME DoInv, NEW p \in Goroutines \ Resizers, NEW l, NEW closure, NEW outcome,
         pc' = [pc EXCEPT ![p] = l],
         act' = act \/ act' = [act EXCEPT ![p] = closure],
         res' = res \/ res' = [res EXCEPT ![p] = outcome]
  PROVE  ResizersRest
BY Roles DEF ResizersRest, DoInv, DoType

(* A resize begins, alone or not, ... *)
LEMMA ResizeBegins ==
  ASSUME DoInv, ResizeInv, NEW z \in Resizers, Resize(z)
  PROVE  ResizeInv'
<1> USE Roles
<1>1. /\ winsize' = z /\ overlap' = (overlap \/ \E y \in Resizers : Busy(y))
      /\ pc'[z] \in {"send", "ret"} /\ res'[z] = "not run"
      /\ \A y \in Resizers \ {z} : pc'[y] = pc[y]
  BY DEF Resize, CallDo, DoInv, DoType
<1>2. Busy(z)' /\ \A y \in Resizers \ {z} : Busy(y)' <=> Busy(y)
  BY <1>1 DEF Busy
<1>3. ASSUME ~overlap' PROVE \A y \in Resizers : Busy(y)' => y = z
  BY <1>1, <1>2, <1>3
<1>4. ASSUME ~overlap' PROVE OneResize' /\ \A y \in Resizers : UnderWay(y)'
  BY <1>1, <1>3, <1>4 DEF OneResize, UnderWay
<1>5. ResizesAgree'
  BY <1>2 DEF ResizesAgree
<1>6. QED
  BY <1>4, <1>5 DEF ResizeInv

(* ... and ends: in agreement, or with an outcome that says it did not run. *)
LEMMA ResizeEnds ==
  ASSUME DoInv, ResizeInv, NEW z \in Resizers, ResizeEnd(z)
  PROVE  ResizeInv'
<1> USE Roles
<1>1. /\ pc[z] = "ret" /\ pc'[z] = "gone" /\ winsize' = winsize /\ overlap' = overlap
      /\ act' = act /\ res' = res /\ grid' = grid
      /\ stored' = (IF res[z] = "err" THEN stored ELSE z)
      /\ \A y \in Resizers \ {z} : pc'[y] = pc[y]
  BY DEF ResizeEnd, DoInv, DoType, ptyVars
<1>2. act[z] # "none"
  BY <1>1 DEF DoInv, OwnClosure, ClosuresOf, Subscribers
<1>3. Busy(z) /\ ~Busy(z)' /\ \A y \in Resizers \ {z} : Busy(y)' <=> Busy(y)
  BY <1>1 DEF Busy
<1>4. ASSUME ~overlap' PROVE OneResize' /\ \A y \in Resizers : UnderWay(y)'
  BY <1>1, <1>3, <1>4 DEF ResizeInv, OneResize, UnderWay
<1>5. ASSUME ~overlap' PROVE ResizesAgree'
  <2>1. CASE res[z] = "ok"
    <3>1. winsize = z /\ grid = z
      BY <1>1, <1>3, <1>5, <2>1 DEF ResizeInv, UnderWay
    <3>2. QED
      BY <1>1, <2>1, <3>1 DEF ResizesAgree
  <2>2. CASE res[z] # "ok"
    BY <1>1, <1>2, <2>2 DEF ResizesAgree
  <2>3. QED
    BY <2>1, <2>2
<1>6. QED
  BY <1>4, <1>5 DEF ResizeInv

(* Every step keeps ResizeInv. *)
LEMMA ResizeStepKeeps == DoInv /\ ResizeInv /\ [Next]_vars => ResizeInv'
<1> SUFFICES ASSUME DoInv, ResizeInv, [Next]_vars PROVE ResizeInv'
  OBVIOUS
<1> DEFINE Sizes == winsize' = winsize /\ grid' = grid /\ stored' = stored /\ overlap' = overlap
<1> USE Roles DEF doVars, ptyVars, sizeVars
<1>1. ASSUME NEW p \in Goroutines \ Resizers, NEW l, NEW closure, NEW outcome,
             pc' = [pc EXCEPT ![p] = l],
             act' = act \/ act' = [act EXCEPT ![p] = closure],
             res' = res \/ res' = [res EXCEPT ![p] = outcome], Sizes
      PROVE  ResizeInv'
  BY <1>1, OthersLeaveResizes, ResizeUnchanged
<1>2. CASE Dispatch
  <2>1. winsize' = winsize /\ stored' = stored /\ overlap' = overlap
    BY <1>2 DEF Dispatch
  <2>2. PICK p \in Goroutines : /\ pc[p] = "wait" /\ pc' = [pc EXCEPT ![p] = "ret"]
                               /\ act' = act /\ ClosureOf(p)
    BY <1>2, DispatchCases
  <2>3. CASE p \in Resizers
    <3>1. ResizeTerm(p) \/ Runs(p, "err")
      BY <2>2, <2>3 DEF ClosureOf, Subscribers
    <3>2. /\ pc'[p] = "ret" /\ \A y \in Resizers \ {p} : pc'[y] = pc[y]
          /\ Busy(p) /\ Busy(p)'
      BY <2>2, <2>3 DEF Busy, DoInv, DoType
    <3>3. res'[p] = "ok" => grid' = p
      BY <3>1, <2>3 DEF ResizeTerm, Runs, DoInv, DoType
    <3>4. QED
      BY <2>1, <2>3, <3>2, <3>3, ResizeGoesOn
  <2>4. CASE p \notin Resizers
    <3>1. grid' = grid
      BY <2>2, <2>4
         DEF ClosureOf, Shutdown, Feed, Subscribe, Snapshot, SubscribeWithSnapshot,
             SnapshotFails, Cancel, SameTerminal
    <3>2. \E o \in {"ok", "err"} : res' = res \/ res' = [res EXCEPT ![p] = o]
      BY <2>2 DEF ClosureOf, Runs
    <3>3. QED
      BY <1>1, <2>1, <2>2, <2>4, <3>1, <3>2
  <2>5. QED
    BY <2>3, <2>4
<1>3. CASE Answered
  BY <1>1, <1>3 DEF Answered, Feed
<1>4. ASSUME NEW p \in Callers, CallerStep(p) PROVE ResizeInv'
  <2>1. Sizes /\ act' = act /\ res' = res
    BY <1>4 DEF CallerStep, Send, GiveUp
  <2>2. PICK l \in {"wait", "ret"} : pc' = [pc EXCEPT ![p] = l] /\ pc[p] = "send"
    BY <1>4 DEF CallerStep, Send, GiveUp
  <2>3. CASE p \notin Resizers
    BY <1>1, <2>1, <2>2, <2>3
  <2>4. CASE p \in Resizers
    <3>1. Busy(p) /\ Busy(p)' /\ \A y \in Resizers \ {p} : pc'[y] = pc[y]
      BY <2>2 DEF Busy, DoInv, DoType
    <3>2. res'[p] # "ok"
      BY <2>1, <2>2 DEF DoInv, OwnClosure
    <3>3. QED
      BY <2>1, <2>4, <3>1, <3>2, ResizeGoesOn
  <2>5. QED
    BY <2>3, <2>4
<1>5. ASSUME NEW z \in Resizers, Resize(z) \/ ResizeEnd(z) PROVE ResizeInv'
  BY <1>5, ResizeBegins, ResizeEnds
<1>6. ASSUME NEW p \in Callers \ Resizers, NEW closure, CallDo(p, closure), Sizes
      PROVE  ResizeInv'
  BY <1>1, <1>6 DEF CallDo
<1>7. CASE ReadMaster
  BY <1>6, <1>7 DEF ReadMaster
<1>8. ASSUME NEW s \in Subscribers, Open(s) \/ StreamSnapshot(s) \/ Leave(s) PROVE ResizeInv'
  <2>1. Sizes /\ \E closure : CallDo(s, closure)
    BY <1>8 DEF Open, StreamSnapshot, Leave
  <2>2. QED
    BY <1>6, <2>1
<1>8a. ASSUME NEW s \in Subscribers, OpenFailed(s) PROVE ResizeInv'
  BY <1>1, <1>8a DEF OpenFailed
<1>9. CASE CloseStart \/ CloseEnd
  <2>1. Sizes /\ act' = act /\ res' = res
    BY <1>9 DEF CloseStart, CloseEnd
  <2>2. \E l \in {"wait", "gone"} : pc' = [pc EXCEPT ![Closer] = l]
    BY <1>9 DEF CloseStart, CloseEnd
  <2>3. QED
    BY <1>1, <2>1, <2>2
<1>10. ASSUME NEW w \in Writers, Input(w) \/ Paste(w) \/ InputEnd(w) PROVE ResizeInv'
  <2>1. Sizes
    BY <1>10 DEF Input, Paste, InputEnd
  <2>2. CASE CallDo(w, "mode")
    BY <1>6, <2>1, <2>2
  <2>3. CASE act' = act /\ res' = res /\ \E l : pc' = [pc EXCEPT ![w] = l]
    BY <1>1, <2>1, <2>3
  <2>4. QED
    BY <1>10, <2>2, <2>3 DEF Input, Paste, InputEnd
<1>11. CASE UNCHANGED <<doVars, grid, sizeVars>>
  BY <1>11, ResizeUnchanged DEF ResizersRest
<1>12. QED
  BY <1>2, <1>3, <1>4, <1>5, <1>7, <1>8, <1>9, <1>10, <1>11, <1>8a
     DEF Next, DispatcherStep, DispatchQuery, DispatchDone, DrainEnds, ChildWrites,
         ChildExits, Receive, WriteStep, Lock, Put, PutFails, ChildReads, ChildTurns, HangUp,
         vars

-----------------------------------------------------------------------------
(* The invariant and what follows from it *)

(* It holds before anyone has called. *)
LEMMA PTYInit == Init => PTYInv
<1> SUFFICES ASSUME Init PROVE PTYInv
  OBVIOUS
<1> USE Roles
<1>1. PICK cast \in Casts :
        pc = [p \in Goroutines |-> IF p \in cast[1] \cup {Reader, Closer} THEN "idle" ELSE "gone"]
  BY DEF Init, Goroutines
<1>2. /\ \A p \in Goroutines : pc[p] \in {"idle", "gone"}
      /\ pc[Reader] = "idle"
      /\ pc \in [Goroutines -> {"idle", "send", "wait", "ret", "write", "gone"}]
  BY <1>1
<1>3. DoInv
  <2>1. queue = <<>> /\ QueueType /\ Len(queue) = 0
    <3>1. queue = <<>>
      BY DEF Init
    <3>2. QED
      BY <3>1 DEF QueueType
  <2>2. DoType
    BY <1>2 DEF Init, DoType
  <2>3. OwnClosure
    BY <1>2 DEF Init, OwnClosure
  <2>4. QueuedWait /\ InWrite /\ ReaderRuns
    <3>1. \A w \in Writers \cup {Reader} : wpc[w] = "off"
      BY DEF Init
    <3>2. QED
      BY <1>2, <2>1, <3>1 DEF QueuedWait, Distinct, InWrite, ReaderRuns
  <2>5. QED
    BY <2>1, <2>2, <2>3, <2>4 DEF DoInv
<1>4. LineInv
  <2>1. line = <<>> /\ heard = <<Nobody, "last">> /\ mu = Nobody /\ tty = "read"
        /\ \A w \in Writers \cup {Reader} : wpc[w] = "off"
    BY DEF Init
  <2>2. LineType /\ HolderWrites
    BY <2>1 DEF LineType, HolderWrites, Units
  <2>3. /\ (<<heard>> \o line)[Len(line) + 1] = heard
        /\ Len(<<heard>> \o line) = 1
    <3>1. <<heard>> \o <<>> = <<heard>> /\ Len(<<>>) = 0 /\ <<heard>>[0 + 1] = heard
      OBVIOUS
    <3>2. QED
      BY <2>1, <3>1
  <2>4. Whole(<<heard>> \o line)
    BY <2>3 DEF Whole
  <2>5. HalfWritten(heard)
    BY <2>1 DEF HalfWritten
  <2>6. QED
    BY <2>2, <2>3, <2>4, <2>5 DEF LineInv
<1>5. FeedInv
  <2>1. read = 0 /\ fed = 0
    BY DEF Init
  <2>2. QED
    BY <1>2, <2>1 DEF FeedInv, EveryReadIsFed
<1>6. SubInv
  <2>1. SubType
    <3>1. /\ subs = {} /\ behind = {} /\ ch = [s \in Subscribers |-> <<>>]
          /\ got = [s \in Subscribers |-> <<>>] /\ snap = [s \in Subscribers |-> 0]
      BY DEF Init
    <3>2. <<>> \in Seq(Nat)
      OBVIOUS
    <3>3. QED
      BY <3>1, <3>2 DEF SubType
  <2>2. OpenType
    BY Zenon DEF Init, OpenType
  <2>3. ASSUME NEW s \in Subscribers PROVE SubOf(s)
    <3>1. /\ ch[s] = <<>> /\ got[s] = <<>> /\ snap[s] = 0 /\ fed = 0 /\ subs = {} /\ chOpen[s]
      BY DEF Init
    <3>2. Len(ch[s]) <= SubCap
      BY <3>1, PTYAssumption
    <3>3. QED
      BY <3>1, <3>2 DEF SubOf
  <2>4. QED
    BY <2>1, <2>2, <2>3 DEF SubInv
<1>7. ResizeInv
  <2>1. \A z \in Resizers : ~Busy(z)
    BY <1>2 DEF Busy
  <2>2. OneResize /\ \A z \in Resizers : UnderWay(z)
    BY <2>1 DEF OneResize, UnderWay
  <2>3. ResizesAgree
    BY DEF Init, ResizesAgree
  <2>4. QED
    BY <2>2, <2>3 DEF ResizeInv
<1>8. QED
  BY <1>3, <1>4, <1>5, <1>6, <1>7 DEF PTYInv

(* The queue, the writes, the feed, the subscribers and the resizes keep    *)
(* their order in every reachable state.                                    *)
THEOREM PTYInvariant == Spec => []PTYInv
<1>1. PTYInv /\ [Next]_vars => PTYInv'
  BY DoStepKeeps, LineStepKeeps, FeedStepKeeps, SubStepKeeps, ResizeStepKeeps DEF PTYInv
<1>2. QED
  BY PTYInit, <1>1, PTL DEF Spec

(* No channel is closed that is in p.subs or that a failing                 *)
(* SubscribeWithSnapshotParts has yet to close, so the dispatcher never     *)
(* sends on a closed channel and nobody closes one twice, however many      *)
(* attaches and streams come, fail and go while Close runs.                 *)
THEOREM SubscribedIsOpenHolds == Spec => []SubscribedIsOpen
<1>1. PTYInv => SubscribedIsOpen
  <2> SUFFICES ASSUME SubInv, NEW s \in Subscribers, s \in subs \/ ToClose(s)
               PROVE  chOpen[s]
    BY DEF PTYInv, SubscribedIsOpen
  <2>1. SubOf(s)
    BY DEF SubInv
  <2>2. CASE s \in subs
    BY <2>1, <2>2 DEF SubOf
  <2>3. CASE ToClose(s)
    <3>1. Fresh(s)
      BY <2>3 DEF ToClose, Fresh
    <3>2. QED
      BY <2>1, <3>1 DEF SubOf
  <2>4. QED
    BY <2>2, <2>3
<1>2. QED
  BY <1>1, PTYInvariant, PTL

(* Snapshot and live output join without a gap, and for attaches without a  *)
(* duplicate, as long as the subscriber's channel has not overflowed.       *)
LEMMA JoinedHolds == Spec => [](AttachJoined /\ StreamJoined)
<1>1. PTYInv => AttachJoined
  <2> SUFFICES ASSUME SubInv, NEW v \in subs \cap Viewers, v \notin behind
               PROVE  got[v] \o ch[v] = [i \in 1 .. (fed - snap[v]) |-> snap[v] + i]
    BY DEF PTYInv, AttachJoined
  <2>1. SubOf(v)
    BY Roles DEF SubInv
  <2>2. QED
    BY <2>1 DEF SubOf
<1>2. PTYInv => StreamJoined
  <2> SUFFICES ASSUME DoInv, SubInv, NEW s \in subs \cap Streams, s \notin behind,
                      Viewing(s), res[s] = "ok"
               PROVE  (1 .. fed) \subseteq (1 .. snap[s]) \cup ToSet(got[s] \o ch[s])
    BY DEF PTYInv, StreamJoined
  <2>1. s \in Subscribers /\ s \in Callers /\ s \notin Viewers /\ s # Reader
    BY Roles
  <2>2. SubOf(s)
    BY <2>1 DEF SubInv
  <2>3. pc[s] = "ret" /\ act[s] \in {"subscribe", "snapshot", "cancel"}
    BY <2>1 DEF Viewing, DoInv, OwnClosure, ClosuresOf
  <2>4. Shown(s)
    BY <2>3 DEF Shown, Viewing
  <2>5. QED
    BY <2>2, <2>4 DEF SubOf
<1>3. QED
  BY <1>1, <1>2, PTYInvariant, PTL

(* While the PTY is open, every chunk the read loop takes is recorded and   *)
(* fed to the terminal, whatever the capacity of p.actions.                 *)
THEOREM EveryReadIsFedHolds == Spec => []EveryReadIsFed
<1>1. PTYInv => EveryReadIsFed
  BY DEF PTYInv, FeedInv
<1>2. QED
  BY <1>1, PTYInvariant, PTL

(* writeMu keeps the writes of users and of the emulator whole: any number  *)
(* of writers, any room on the line, also when the child closes it.         *)
THEOREM WritesAreWholeHolds == Spec => []WritesAreWhole
<1>1. PTYInv => WritesAreWhole
  BY DEF PTYInv, LineInv, Whole, Follows, WritesAreWhole
<1>2. QED
  BY <1>1, PTYInvariant, PTL

(* Resizes that do not overlap leave the kernel, the terminal and p.cols    *)
(* with one size.                                                           *)
THEOREM SerialResizesAgreeHolds == Spec => []SerialResizesAgree
<1>1. PTYInv => SerialResizesAgree
  BY DEF PTYInv, ResizeInv, SerialResizesAgree
<1>2. QED
  BY <1>1, PTYInvariant, PTL

-----------------------------------------------------------------------------
(* The dispatcher's end *)

(* p is in the queue. *)
Has(q, p) == \E i \in 1 .. Len(q) : q[i] = p

(* Whoever waits for its closure has it in the queue or, the read loop, at  *)
(* the dispatcher, which writes the answer to the child.                    *)
WaitsQueued ==
  \A p \in Goroutines :
     pc[p] = "wait" => Has(queue, p) \/ (p = Reader /\ wpc[Reader] # "off")

(* p.done is closed by Close, at its end, and the dispatcher leaves its     *)
(* loop after that; when it has returned, whatever is queued came later.    *)
DrainInv ==
  /\ WaitsQueued
  /\ done \in BOOLEAN /\ (done => pc[Closer] = "gone")
  /\ disp \in {"run", "drain", "exit"} /\ (disp # "run" => done)
  /\ disp = "exit" => /\ wpc[Reader] = "off"
                      /\ \A p \in Goroutines : Has(queue, p) => p \in late

(* What is in a queue after Append and Tail. *)
LEMMA HasAppend ==
  ASSUME NEW S, NEW q \in Seq(S), NEW e \in S, NEW p
  PROVE  Has(Append(q, e), p) <=> Has(q, p) \/ p = e
<1>1. /\ Len(q) \in Nat /\ Len(Append(q, e)) = Len(q) + 1
      /\ Append(q, e)[Len(q) + 1] = e
      /\ \A i \in 1 .. Len(q) : Append(q, e)[i] = q[i]
  BY AppendFacts
<1> DEFINE a == Append(q, e)
           m == Len(q)
<1>2. /\ m \in Nat /\ Len(a) = m + 1 /\ a[m + 1] = e
      /\ \A i \in 1 .. m : a[i] = q[i]
  BY <1>1
<1> HIDE DEF a
<1>3. /\ \A i \in 1 .. m + 1 : i \in 1 .. m \/ i = m + 1
      /\ \A i \in 1 .. m : i \in 1 .. m + 1
      /\ m + 1 \in 1 .. m + 1
  BY <1>2
<1>4. Has(a, p) <=> Has(q, p) \/ p = e
  BY <1>2, <1>3 DEF Has
<1>5. QED
  BY <1>4 DEF a

(* Tail takes the head away. *)
LEMMA HasTail ==
  ASSUME NEW S, NEW q \in Seq(S), q # <<>>, NEW p
  PROVE  /\ Has(q, p) => Has(Tail(q), p) \/ p = Head(q)
         /\ Has(Tail(q), p) => Has(q, p)
<1>1. /\ Len(q) \in Nat \ {0} /\ Head(q) = q[1] /\ Len(Tail(q)) = Len(q) - 1
      /\ \A i \in 1 .. Len(Tail(q)) : i + 1 \in 1 .. Len(q) /\ Tail(q)[i] = q[i + 1]
  BY TailFacts
<1> DEFINE t == Tail(q)
           h == Head(q)
           m == Len(q)
<1>2. /\ m \in Nat \ {0} /\ h = q[1] /\ Len(t) = m - 1
      /\ \A i \in 1 .. (m - 1) : i + 1 \in 1 .. m /\ t[i] = q[i + 1]
  BY <1>1
<1> HIDE DEF t, h, m
<1>3. ASSUME NEW i \in 1 .. m, q[i] = p PROVE Has(t, p) \/ p = h
  <2>1. CASE i = 1
    BY <2>1, <1>2, <1>3
  <2>2. CASE i # 1
    <3>1. i - 1 \in 1 .. (m - 1) /\ (i - 1) + 1 = i
      BY <2>2, <1>2
    <3>2. t[i - 1] = p
      BY <3>1, <1>2, <1>3
    <3>3. QED
      BY <3>1, <3>2, <1>2 DEF Has
  <2>3. QED
    BY <2>1, <2>2
<1>4. ASSUME NEW i \in 1 .. (m - 1), t[i] = p PROVE Has(q, p)
  BY <1>2, <1>4 DEF Has, m
<1>5. QED
  BY <1>2, <1>3, <1>4 DEF Has, t, h, m

(* The queue and the dispatcher stay as they are, and nobody begins to      *)
(* wait.                                                                    *)
LEMMA DrainUnchanged ==
  ASSUME DrainInv, queue' = queue, disp' = disp, late' = late, done' = done,
         pc'[Closer] = pc[Closer],
         wpc'[Reader] = "off" <=> wpc[Reader] = "off",
         \A p \in Goroutines : pc'[p] = "wait" => pc[p] = "wait"
  PROVE  DrainInv'
<1>1. WaitsQueued'
  BY DEF DrainInv, WaitsQueued
<1>2. QED
  BY <1>1 DEF DrainInv

(* A goroutine calls do, or moves outside of it. *)
LEMMA DrainMoves ==
  ASSUME DoInv, DrainInv, queue' = queue, disp' = disp, late' = late, done' = done,
         wpc'[Reader] = wpc[Reader],
         NEW p \in Callers, NEW l \in {"send", "ret", "write", "gone"},
         pc' = [pc EXCEPT ![p] = l]
  PROVE  DrainInv'
<1>1. pc'[Closer] = pc[Closer] /\ \A x \in Goroutines : pc'[x] = "wait" => pc[x] = "wait"
  BY Roles DEF DoInv, DoType
<1>2. QED
  BY <1>1, DrainUnchanged

(* A closure is queued. *)
LEMMA DrainEnqueues ==
  ASSUME DoInv, DrainInv, NEW p \in Goroutines, queue' = Append(queue, p),
         pc' = [pc EXCEPT ![p] = "wait"], disp' = disp, done' = done,
         wpc' = wpc, p = Closer => ~done,
         late' = IF disp = "exit" THEN late \cup {p} ELSE late
  PROVE  DrainInv'
<1>1. queue \in Seq(Goroutines)
  BY DEF DoInv, QueueType
<1>2. \A x : Has(queue', x) <=> Has(queue, x) \/ x = p
  BY <1>1, HasAppend
<1>3. \A x \in Goroutines : pc'[x] = IF x = p THEN "wait" ELSE pc[x]
  BY DEF DoInv, DoType
<1>4. WaitsQueued'
  BY <1>2, <1>3 DEF DrainInv, WaitsQueued
<1>5. (done' => pc'[Closer] = "gone") /\ done' \in BOOLEAN
  BY <1>3, Roles DEF DrainInv
<1>6. disp' = "exit" => \A x \in Goroutines : Has(queue', x) => x \in late'
  BY <1>2 DEF DrainInv
<1>7. QED
  BY <1>4, <1>5, <1>6 DEF DrainInv

(* A closure leaves the queue. *)
LEMMA DrainDequeues ==
  ASSUME DoInv, DrainInv, queue # <<>>, queue' = Tail(queue), disp # "exit",
         disp' = disp, done' = done, late' = late,
         \/ pc' = [pc EXCEPT ![Head(queue)] = "ret"] /\ wpc'[Reader] = wpc[Reader]
         \/ Head(queue) = Reader /\ pc' = pc /\ wpc'[Reader] = "lock"
  PROVE  DrainInv'
<1> DEFINE h == Head(queue)
<1>1. queue \in Seq(Goroutines)
  BY DEF DoInv, QueueType
<1>2. h \in Goroutines /\ pc[h] = "wait"
  BY HeadWaits
<1>3. \A x : Has(queue, x) => Has(queue', x) \/ x = h
  BY <1>1, HasTail
<1>4. \/ pc' = [pc EXCEPT ![h] = "ret"] /\ wpc'[Reader] = wpc[Reader]
      \/ h = Reader /\ pc' = pc /\ wpc'[Reader] = "lock"
  OBVIOUS
<1> HIDE DEF h
<1>5. \A x \in Goroutines : pc'[x] = "wait" => pc[x] = "wait" /\ (x # h \/ h = Reader)
  BY <1>2, <1>4 DEF DoInv, DoType
<1>6. WaitsQueued'
  <2>1. ASSUME NEW x \in Goroutines, pc'[x] = "wait"
        PROVE  Has(queue', x) \/ (x = Reader /\ wpc'[Reader] # "off")
    <3>1. CASE x # h
      <4>1. Has(queue, x) \/ (x = Reader /\ wpc[Reader] # "off")
        BY <2>1, <1>5 DEF DrainInv, WaitsQueued
      <4>2. QED
        BY <4>1, <3>1, <1>3, <1>4
    <3>2. CASE x = h
      BY <3>2, <2>1, <1>2, <1>4 DEF DoInv, DoType
    <3>3. QED
      BY <3>1, <3>2
  <2>2. QED
    BY <2>1 DEF WaitsQueued
<1>7. pc'[Closer] = "gone" \/ ~done'
  BY <1>2, <1>4, Roles DEF DrainInv, DoInv, DoType
<1>8. QED
  BY <1>6, <1>7 DEF DrainInv

(* Every step keeps DrainInv. *)
LEMMA DrainStepKeeps == DoInv /\ DrainInv /\ [Next]_vars => DrainInv'
<1> SUFFICES ASSUME DoInv, DrainInv, [Next]_vars PROVE DrainInv'
  OBVIOUS
<1> USE Roles DEF doVars, lineVars
<1>1. CASE Dispatch
  <2>1. /\ queue # <<>> /\ queue' = Tail(queue) /\ disp \in {"run", "drain"} /\ disp' = disp
        /\ done' = done /\ late' = late /\ wpc' = wpc
        /\ pc' = [pc EXCEPT ![Head(queue)] = "ret"]
    BY <1>1 DEF Dispatch
  <2>2. QED
    BY <2>1, DrainDequeues
<1>2. CASE DispatchQuery
  <2>1. /\ queue # <<>> /\ queue' = Tail(queue) /\ disp \in {"run", "drain"} /\ disp' = disp
        /\ done' = done /\ late' = late /\ pc' = pc /\ Head(queue) = Reader
        /\ wpc'[Reader] = "lock"
    BY <1>2 DEF DispatchQuery, Asks, DoInv, DoType
  <2>2. QED
    BY <2>1, DrainDequeues
<1>3. CASE Answered
  <2>1. /\ queue' = queue /\ disp' = disp /\ done' = done /\ late' = late
        /\ wpc[Reader] = "put" /\ wpc'[Reader] = "off" /\ pc'[Reader] = "ret"
        /\ \A x \in Goroutines \ {Reader} : pc'[x] = pc[x]
    BY <1>3 DEF Answered, DoInv, DoType
  <2>2. WaitsQueued'
    BY <2>1 DEF DrainInv, WaitsQueued
  <2>3. QED
    BY <2>1, <2>2 DEF DrainInv
<1>4. CASE DispatchDone
  <2>1. /\ queue' = queue /\ disp' = "drain" /\ done' = done /\ late' = late /\ done
        /\ wpc' = wpc /\ pc' = pc
    BY <1>4 DEF DispatchDone
  <2>2. QED
    BY <2>1 DEF DrainInv, WaitsQueued
<1>5. CASE DrainEnds
  <2>1. /\ queue' = queue /\ queue = <<>> /\ disp = "drain" /\ disp' = "exit" /\ done' = done
        /\ late' = late /\ wpc[Reader] = "off" /\ wpc' = wpc /\ pc' = pc
    BY <1>5 DEF DrainEnds
  <2>2. Len(<<>>) = 0
    OBVIOUS
  <2>3. \A x : ~Has(queue', x)
    BY <2>1, <2>2 DEF Has
  <2>4. QED
    BY <2>1, <2>3 DEF DrainInv, WaitsQueued
<1>6. ASSUME NEW p \in Callers, Send(p) PROVE DrainInv'
  <2>1. /\ queue' = Append(queue, p) /\ pc' = [pc EXCEPT ![p] = "wait"]
        /\ disp' = disp /\ done' = done /\ wpc' = wpc
        /\ late' = IF disp = "exit" THEN late \cup {p} ELSE late
    BY <1>6 DEF Send
  <2>2. QED
    BY <2>1, DrainEnqueues
<1>7. ASSUME NEW p \in Callers, GiveUp(p) PROVE DrainInv'
  BY <1>7, DrainMoves DEF GiveUp
<1>8. CASE CloseStart
  <2>1. ~done
    BY <1>8 DEF CloseStart, DrainInv
  <2>2. disp = "run"
    BY <2>1 DEF DrainInv
  <2>3. CASE Len(queue) < ActCap
    BY <1>8, <2>1, <2>2, <2>3, DrainEnqueues DEF CloseStart
  <2>4. CASE ~(Len(queue) < ActCap)
    <3>1. /\ queue' = queue /\ disp' = disp /\ done' = TRUE /\ late' = late /\ wpc' = wpc
          /\ pc' = [pc EXCEPT ![Closer] = "gone"]
      BY <1>8, <2>4 DEF CloseStart
    <3>2. pc'[Closer] = "gone" /\ \A x \in Callers : pc'[x] = pc[x]
      BY <3>1 DEF DoInv, DoType
    <3>3. QED
      BY <2>2, <3>1, <3>2 DEF DrainInv, WaitsQueued
  <2>5. QED
    BY <2>3, <2>4
<1>9. CASE CloseEnd
  <2>1. /\ queue' = queue /\ disp' = disp /\ done' = TRUE /\ late' = late /\ wpc' = wpc
        /\ pc' = [pc EXCEPT ![Closer] = "gone"]
    BY <1>9 DEF CloseEnd
  <2>2. pc'[Closer] = "gone" /\ \A x \in Callers : pc'[x] = pc[x]
    BY <2>1 DEF DoInv, DoType
  <2>3. QED
    BY <2>1, <2>2 DEF DrainInv, WaitsQueued
<1>10. ASSUME NEW p \in Callers, NEW closure, CallDo(p, closure), queue' = queue, disp' = disp,
              late' = late, done' = done, wpc' = wpc
       PROVE  DrainInv'
  BY <1>10, DrainMoves DEF CallDo
<1>11. CASE ReadMaster
  BY <1>10, <1>11 DEF ReadMaster
<1>12. ASSUME NEW s \in Subscribers, Open(s) \/ StreamSnapshot(s) \/ Leave(s) PROVE DrainInv'
  <2>1. /\ \E closure : CallDo(s, closure)
        /\ queue' = queue /\ disp' = disp /\ late' = late /\ done' = done /\ wpc' = wpc
    BY <1>12 DEF Open, StreamSnapshot, Leave
  <2>2. QED
    BY <1>10, <2>1
<1>12a. ASSUME NEW s \in Subscribers, OpenFailed(s) PROVE DrainInv'
  BY <1>12a, DrainMoves DEF OpenFailed
<1>13. ASSUME NEW z \in Resizers, Resize(z) \/ ResizeEnd(z) PROVE DrainInv'
  <2>1. CASE Resize(z)
    BY <1>10, <2>1 DEF Resize
  <2>2. CASE ResizeEnd(z)
    BY <2>2, DrainMoves DEF ResizeEnd
  <2>3. QED
    BY <1>13, <2>1, <2>2
<1>14. ASSUME NEW w \in Writers, Input(w) \/ Paste(w) \/ InputEnd(w) PROVE DrainInv'
  <2>1. /\ queue' = queue /\ disp' = disp /\ late' = late /\ done' = done
        /\ wpc'[Reader] = wpc[Reader]
    <3>1. CASE Input(w)
      BY <3>1 DEF Input, DoInv, DoType
    <3>2. CASE Paste(w) \/ InputEnd(w)
      BY <3>2 DEF Paste, InputEnd, DoInv, DoType
    <3>3. QED
      BY <1>14, <3>1, <3>2
  <2>2. \E l \in {"send", "ret", "write", "gone"} : pc' = [pc EXCEPT ![w] = l]
    <3>1. CASE Input(w)
      BY <3>1 DEF Input, CallDo
    <3>2. CASE Paste(w) \/ InputEnd(w)
      BY <3>2 DEF Paste, InputEnd
    <3>3. QED
      BY <1>14, <3>1, <3>2
  <2>3. QED
    BY <2>1, <2>2, DrainMoves
<1>15. ASSUME NEW w \in Writers \cup {Reader}, WriteStep(w) PROVE DrainInv'
  <2>1. /\ queue' = queue /\ disp' = disp /\ late' = late /\ done' = done /\ pc' = pc
    BY <1>15 DEF WriteStep, Lock, Put, PutFails
  <2>2. /\ wpc[w] # "off" /\ wpc'[w] # "off"
        /\ \A x \in (Writers \cup {Reader}) \ {w} : wpc'[x] = wpc[x]
    BY <1>15 DEF WriteStep, Lock, Put, PutFails, DoInv, DoType
  <2>3. wpc'[Reader] = "off" <=> wpc[Reader] = "off"
    BY <2>2
  <2>4. QED
    BY <2>1, <2>3, DrainUnchanged
<1>16. CASE UNCHANGED <<doVars, queue, disp, late, done, wpc>>
  BY <1>16, DrainUnchanged
<1>17. QED
  <2>1. Next \/ UNCHANGED vars
    OBVIOUS
  <2>2. QED
    BY <2>1, <1>1, <1>2, <1>3, <1>4, <1>5, <1>6, <1>7, <1>8, <1>9, <1>11, <1>12, <1>13, <1>14,
       <1>15, <1>16, <1>12a
       DEF Next, DispatcherStep, CallerStep, Receive, ChildWrites, ChildExits, ChildReads,
           ChildTurns, HangUp, vars

(* p.actions is drained before the dispatcher returns, whatever its         *)
(* capacity and however many goroutines call do while Close runs.           *)
THEOREM DrainedAllHolds == Spec => []DrainedAll
<1>1. Init => DrainInv
  <2> SUFFICES ASSUME Init PROVE DrainInv
    OBVIOUS
  <2>1. done = FALSE /\ disp = "run"
    BY DEF Init
  <2>2. \A p \in Goroutines : pc[p] # "wait"
    BY DEF Init, Goroutines
  <2>3. QED
    BY <2>1, <2>2 DEF DrainInv, WaitsQueued
<1>2. PTYInv => DoInv
  BY DEF PTYInv
<1>3. DrainInv => DrainedAll
  BY DEF DrainInv, WaitsQueued, DrainedAll, Goroutines
<1>4. QED
  BY <1>1, <1>2, <1>3, PTYInvariant, DrainStepKeeps, PTL DEF Spec

-----------------------------------------------------------------------------
(* LiveOutput *)

(* A queue of chunks between n and f, in order. *)
Ascends(q, n, f) ==
  /\ \A i \in 1 .. Len(q) : n < q[i] /\ q[i] <= f
  /\ \A i, j \in 1 .. Len(q) : i < j => q[i] < q[j]

(* A queue of the chunks right behind n. *)
Counts(q, n) == \A i \in 1 .. Len(q) : q[i] = n + i

(* What an attach has in its channel is ahead of what it has seen, in       *)
(* order, and without a gap unless the channel has been full; while it is   *)
(* in p.subs nothing fed is missing at the end.                             *)
LiveOf(v) ==
  /\ LastSeen(v) \in Nat
  /\ LastSeen(v) <= fed /\ Ascends(ch[v], LastSeen(v), fed)
  /\ v \notin behind => Counts(ch[v], LastSeen(v))
  /\ v \in subs => Stage(v) # "out"
  /\ v \in subs /\ v \notin behind => LastSeen(v) + Len(ch[v]) = fed

LiveInv == term \in BOOLEAN /\ \A v \in Viewers : LiveOf(v)

(* What a step does to the attaches.  Nothing; ... *)
SameStage(v) == Stage(v)' = Stage(v)

SameFor(v) ==
  /\ ch'[v] = ch[v] /\ got'[v] = got[v] /\ snap'[v] = snap[v]
  /\ v \in subs' => v \in subs
  /\ v \in behind' <=> v \in behind

AllRest == fed' = fed /\ \A v \in Viewers : SameFor(v) /\ SameStage(v)

(* ... a chunk; ... *)
ChunkFed ==
  /\ pc[Reader] = "wait" /\ Feed /\ got' = got
  /\ \A v \in Viewers : SameStage(v)

(* ... one of them joins, ... *)
Joins(v) ==
  /\ term /\ term' = term /\ fed' = fed
  /\ Stage(v) = "out" /\ Stage(v)' = "in" /\ snap'[v] = fed
  /\ got[v] = <<>> /\ got'[v] = <<>> /\ ch'[v] = <<>>
  /\ v \in behind' <=> v \in behind
  /\ \A x \in Viewers \ {v} : SameFor(x) /\ SameStage(x)

(* ... receives a chunk, ... *)
Receives(v) ==
  /\ term' = term /\ fed' = fed /\ Stage(v) = "in" /\ SameStage(v)
  /\ ch[v] # <<>> /\ ch'[v] = Tail(ch[v]) /\ got'[v] = Append(got[v], Head(ch[v]))
  /\ v \in subs' => v \in subs
  /\ v \in behind' <=> v \in behind
  /\ \A x \in Viewers \ {v} : SameFor(x) /\ SameStage(x)

(* ... or leaves. *)
Leaves(v) ==
  /\ term' = term /\ fed' = fed /\ Stage(v) = "in" /\ Stage(v)' = "left" /\ SameFor(v)
  /\ \A x \in Viewers \ {v} : SameFor(x) /\ SameStage(x)

LiveEffect ==
  \/ AllRest /\ (term' = term \/ term' = FALSE)
  \/ ChunkFed
  \/ \E v \in Viewers : Joins(v) \/ Receives(v) \/ Leaves(v)

(* An attach that has not subscribed is out. *)
LEMMA FreshIsOut ==
  ASSUME DoInv, NEW v \in Viewers, Fresh(v)
  PROVE  Stage(v) = "out"
BY Roles DEF DoInv, DoType, OwnClosure, ClosuresOf, Fresh, Stage

(* act and res tell how far an attach is. *)
LEMMA StageStays ==
  ASSUME NEW v, act'[v] = act[v], res'[v] = res[v]
  PROVE  SameStage(v)
BY DEF SameStage, Stage

(* A closure concerns the attach that handed it in, if any.                 *)
LEMMA DispatchEffect ==
  ASSUME DoInv, SubInv, Dispatch
  PROVE  LiveEffect
<1> USE Roles
<1>1. got' = got
  BY DEF Dispatch
<1>2. PICK p \in Goroutines : /\ pc[p] = "wait" /\ pc' = [pc EXCEPT ![p] = "ret"]
                             /\ act' = act /\ ClosureOf(p)
  BY DispatchCases
<1>3. \A v \in Viewers \ {p} : res'[v] = res[v]
  BY <1>2 DEF ClosureOf, Runs, DoInv, DoType
<1>4. \A v \in Viewers \ {p} : SameStage(v)
  BY <1>2, <1>3, StageStays
<1>5. CASE p = Closer
  <2>1. Shutdown
    BY <1>2, <1>5 DEF ClosureOf
  <2>2. AllRest /\ term' = FALSE
    BY <2>1, <1>1, <1>4, <1>5 DEF Shutdown, AllRest, SameFor
  <2>3. QED
    BY <2>2 DEF LiveEffect
<1>6. CASE p = Reader
  <2>1. Feed
    BY <1>2, <1>6 DEF ClosureOf
  <2>2. QED
    BY <1>1, <1>2, <1>4, <1>6, <2>1 DEF ChunkFed, LiveEffect
<1>7. CASE p \in Streams
  <2>1. Subscribe(p) \/ Snapshot(p) \/ Cancel(p) \/ SameTerminal
    BY <1>2, <1>7 DEF ClosureOf
  <2>2. fed' = fed /\ term' = term
    BY <2>1 DEF Subscribe, Snapshot, Cancel, SameTerminal, ptyVars
  <2>3. \A v \in Viewers : SameFor(v)
    BY <2>1, <1>1, <1>7
       DEF Subscribe, Snapshot, Cancel, SameTerminal, ptyVars, SameFor, SubInv, SubType
  <2>4. QED
    BY <2>2, <2>3, <1>4, <1>7 DEF AllRest, LiveEffect
<1>8. CASE p \in Viewers /\ act[p] = "subscribeSnapshot"
  <2>1. /\ p \in Subscribers /\ p # Reader /\ p # Closer /\ p \notin Streams
        /\ p \notin Resizers /\ p \notin Writers
    BY <1>8
  <2>2. \/ term /\ SubscribeWithSnapshot(p) /\ Runs(p, "ok")
        \/ (SameTerminal \/ SnapshotFails(p)) /\ Runs(p, "err")
    BY <2>1, <1>2, <1>8 DEF ClosureOf
  <2>3. Fresh(p) /\ Stage(p) = "out"
    BY <1>2, <1>8, FreshIsOut DEF Fresh
  <2>4. CASE term /\ SubscribeWithSnapshot(p) /\ Runs(p, "ok")
    <3>1. got[p] = <<>> /\ ch[p] = <<>>
      BY <2>1, <2>3 DEF SubInv, SubOf
    <3>2. Stage(p)' = "in"
      BY <2>1, <2>4, <1>2, <1>8 DEF Runs, Stage, DoInv, DoType
    <3>3. /\ term' = term /\ fed' = fed /\ snap'[p] = fed /\ ch' = ch /\ behind' = behind
          /\ \A x \in Viewers \ {p} : snap'[x] = snap[x] /\ (x \in subs' => x \in subs)
      BY <2>1, <2>4 DEF SubscribeWithSnapshot, SubInv, SubType
    <3>4. Joins(p)
      BY <1>1, <1>4, <2>3, <2>4, <3>1, <3>2, <3>3 DEF Joins, SameFor
    <3>5. QED
      BY <3>4, <1>8 DEF LiveEffect
  <2>5. CASE (SameTerminal \/ SnapshotFails(p)) /\ Runs(p, "err")
    <3>1. SameStage(p)
      BY <2>1, <2>3, <2>5, <1>2, <1>8 DEF Runs, Stage, SameStage, DoInv, DoType
    <3>2. QED
      BY <1>1, <1>4, <2>5, <3>1
         DEF SameTerminal, SnapshotFails, ptyVars, AllRest, SameFor, LiveEffect
  <2>6. QED
    BY <2>2, <2>4, <2>5
<1>9. CASE p \in Viewers /\ act[p] # "subscribeSnapshot"
  <2>1. /\ p \in Callers /\ p \in Subscribers /\ p # Reader /\ p # Closer /\ p \notin Streams
        /\ p \notin Resizers /\ p \notin Writers
    BY <1>9
  <2>2. act[p] = "cancel" /\ SameStage(p)
    BY <2>1, <1>2, <1>9 DEF DoInv, OwnClosure, ClosuresOf, Stage, SameStage
  <2>3. Cancel(p) \/ SameTerminal
    BY <2>1, <1>2, <1>9 DEF ClosureOf
  <2>4. AllRest /\ term' = term
    BY <1>1, <1>4, <2>2, <2>3 DEF Cancel, SameTerminal, ptyVars, AllRest, SameFor
  <2>5. QED
    BY <2>4 DEF LiveEffect
<1>10. CASE p \in Resizers \cup Writers
  <2>1. p \notin Viewers /\ p # Reader /\ p # Closer /\ p \notin Subscribers
    BY <1>10
  <2>2. ResizeTerm(p) \/ SameTerminal
    BY <2>1, <1>2, <1>10 DEF ClosureOf
  <2>3. AllRest /\ term' = term
    BY <1>1, <1>4, <2>1, <2>2 DEF ResizeTerm, SameTerminal, ptyVars, AllRest, SameFor
  <2>4. QED
    BY <2>3 DEF LiveEffect
<1>11. QED
  BY <1>5, <1>6, <1>7, <1>8, <1>9, <1>10

(* What the steps outside of the dispatcher do to the attaches. *)
LEMMA NextEffect ==
  ASSUME DoInv, SubInv, [Next]_vars
  PROVE  LiveEffect
<1> USE Roles
<1> DEFINE Calm == /\ subs' = subs /\ behind' = behind /\ ch' = ch
                   /\ got' = got /\ snap' = snap /\ fed' = fed /\ term' = term
<1>1. ASSUME Calm, \A v \in Viewers : act'[v] = act[v] /\ res'[v] = res[v]
      PROVE  LiveEffect
  <2>1. \A v \in Viewers : SameStage(v)
    BY <1>1, StageStays
  <2>2. QED
    BY <1>1, <2>1 DEF AllRest, SameFor, LiveEffect
<1>2. ASSUME NEW p \in Callers \ Viewers, NEW closure, CallDo(p, closure), Calm
      PROVE  LiveEffect
  <2>1. \A v \in Viewers : act'[v] = act[v] /\ res'[v] = res[v]
    BY <1>2 DEF CallDo, DoInv, DoType
  <2>2. QED
    BY <1>1, <1>2, <2>1
<1>3. ASSUME NEW s \in Subscribers, Open(s) \/ StreamSnapshot(s) \/ Leave(s), s \notin Viewers
      PROVE  LiveEffect
  <2>1. Calm /\ \E closure : CallDo(s, closure)
    BY <1>3 DEF Open, StreamSnapshot, Leave, ptyVars, viewVars
  <2>2. QED
    BY <1>2, <1>3, <2>1
<1>4. ASSUME NEW v \in Viewers, Open(v)
      PROVE  LiveEffect
  <2>1. Calm /\ CallDo(v, "subscribeSnapshot") /\ pc[v] = "idle"
    BY <1>4 DEF Open, ptyVars, viewVars
  <2>2. /\ act'[v] = "subscribeSnapshot" /\ res'[v] = "not run"
        /\ \A x \in Viewers \ {v} : act'[x] = act[x] /\ res'[x] = res[x]
    BY <2>1 DEF CallDo, DoInv, DoType
  <2>3. SameStage(v)
    BY <2>1, <2>2, FreshIsOut DEF Fresh, Stage, SameStage
  <2>4. \A x \in Viewers : SameStage(x)
    BY <2>2, <2>3, StageStays
  <2>5. QED
    BY <2>1, <2>4 DEF AllRest, SameFor, LiveEffect
<1>4a. ASSUME NEW s \in Subscribers, OpenFailed(s) PROVE LiveEffect
  BY <1>1, <1>4a DEF OpenFailed, viewVars
<1>5. ASSUME NEW v \in Viewers, StreamSnapshot(v) PROVE FALSE
  BY <1>5 DEF StreamSnapshot, DoInv, OwnClosure, ClosuresOf
<1>6. ASSUME NEW v \in Viewers, Leave(v) PROVE LiveEffect
  <2>1. v \in Callers /\ v # Reader /\ pc[v] = "ret" /\ act[v] \in {"subscribeSnapshot", "cancel"}
    BY <1>6 DEF Leave, Viewing, DoInv, OwnClosure, ClosuresOf
  <2>2. Stage(v) = "in"
    BY <1>6, <2>1 DEF Leave, Viewing, Stage
  <2>3. Calm /\ CallDo(v, "cancel")
    BY <1>6 DEF Leave, ptyVars, viewVars
  <2>4. /\ act'[v] = "cancel"
        /\ \A x \in Viewers \ {v} : act'[x] = act[x] /\ res'[x] = res[x]
    BY <2>1, <2>3 DEF CallDo, DoInv, DoType
  <2>5. Stage(v)' = "left" /\ \A x \in Viewers \ {v} : SameStage(x)
    BY <2>4, StageStays DEF Stage
  <2>6. Leaves(v)
    BY <2>2, <2>3, <2>5 DEF Leaves, SameFor
  <2>7. QED
    BY <2>6 DEF LiveEffect
<1>7. ASSUME NEW s \in Subscribers, Receive(s) PROVE LiveEffect
  <2>1. /\ ch[s] # <<>> /\ ch' = [ch EXCEPT ![s] = Tail(ch[s])]
        /\ got' = [got EXCEPT ![s] = Append(got[s], Head(ch[s]))]
        /\ act' = act /\ res' = res /\ term' = term /\ subs' = subs
        /\ fed' = fed /\ snap' = snap /\ behind' = behind /\ Viewing(s)
    BY <1>7 DEF Receive, doVars
  <2>2. \A x \in Viewers : SameStage(x)
    BY <2>1, StageStays
  <2>3. \A x \in Viewers \ {s} : ch'[x] = ch[x] /\ got'[x] = got[x]
    BY <2>1 DEF SubInv, SubType
  <2>4. CASE s \in Viewers
    <3>1. s \in Callers /\ s # Reader /\ act[s] \in {"subscribeSnapshot", "cancel"}
      BY <2>1, <2>4 DEF Viewing, DoInv, OwnClosure, ClosuresOf
    <3>2. Stage(s) = "in"
      BY <2>1, <3>1 DEF Viewing, Stage
    <3>3. ch'[s] = Tail(ch[s]) /\ got'[s] = Append(got[s], Head(ch[s]))
      BY <2>1 DEF SubInv, SubType
    <3>4. Receives(s)
      BY <2>1, <2>2, <2>3, <2>4, <3>2, <3>3 DEF Receives, SameFor
    <3>5. QED
      BY <3>4, <2>4 DEF LiveEffect
  <2>5. CASE s \notin Viewers
    BY <2>1, <2>2, <2>3, <2>5 DEF AllRest, SameFor, LiveEffect
  <2>6. QED
    BY <2>4, <2>5
<1>8. CASE Answered
  <2>1. pc[Reader] = "wait" /\ Feed /\ got' = got /\ act' = act
        /\ res' = [res EXCEPT ![Reader] = "ok"]
    BY <1>8 DEF Answered, DoInv, InWrite
  <2>2. \A v \in Viewers : act'[v] = act[v] /\ res'[v] = res[v]
    BY <2>1 DEF DoInv, DoType
  <2>3. QED
    BY <2>1, <2>2, StageStays DEF ChunkFed, LiveEffect
<1>9. CASE ReadMaster
  BY <1>2, <1>9 DEF ReadMaster, ptyVars, viewVars
<1>10. ASSUME NEW z \in Resizers, Resize(z) \/ ResizeEnd(z) PROVE LiveEffect
  <2>1. Calm /\ (CallDo(z, "resize") \/ (act' = act /\ res' = res))
    BY <1>10 DEF Resize, ResizeEnd, ptyVars, viewVars
  <2>2. QED
    BY <2>1, <1>1, <1>2
<1>11. ASSUME NEW w \in Writers, Input(w) \/ Paste(w) \/ InputEnd(w) PROVE LiveEffect
  <2>1. Calm /\ (CallDo(w, "mode") \/ (act' = act /\ res' = res))
    BY <1>11 DEF Input, Paste, InputEnd, ptyVars, viewVars
  <2>2. QED
    BY <2>1, <1>1, <1>2
<1>12. ASSUME NEW p \in Callers, CallerStep(p) PROVE LiveEffect
  <2>1. Calm /\ act' = act /\ res' = res
    BY <1>12 DEF CallerStep, Send, GiveUp, ptyVars, viewVars
  <2>2. QED
    BY <2>1, <1>1
<1>13. CASE CloseStart \/ CloseEnd
  <2>1. Calm /\ act' = act /\ res' = res
    BY <1>13 DEF CloseStart, CloseEnd, ptyVars, viewVars
  <2>2. QED
    BY <2>1, <1>1
<1>14. CASE UNCHANGED <<doVars, ptyVars, fed, viewVars>>
  BY <1>1, <1>14 DEF doVars, ptyVars, viewVars
<1>15. QED
  <2>1. Next \/ UNCHANGED vars
    OBVIOUS
  <2>2. ASSUME NEW s \in Subscribers,
               Open(s) \/ OpenFailed(s) \/ StreamSnapshot(s) \/ Receive(s) \/ Leave(s)
        PROVE  LiveEffect
    BY <2>2, <1>3, <1>4, <1>5, <1>6, <1>7, <1>4a
  <2>3. QED
    BY <2>1, <2>2, <1>8, <1>9, <1>10, <1>11, <1>12, <1>13, <1>14, DispatchEffect
       DEF Next, DispatcherStep, DispatchQuery, DispatchDone, DrainEnds, ChildWrites,
           ChildExits, WriteStep, Lock, Put, PutFails, ChildReads, ChildTurns, HangUp, vars

(* The next chunk goes to the end of it ... *)
LEMMA AscendsAppend ==
  ASSUME NEW q \in Seq(Nat), NEW n \in Nat, NEW f \in Nat, n <= f, Ascends(q, n, f)
  PROVE  Ascends(Append(q, f + 1), n, f + 1)
<1>1. /\ Len(q) \in Nat /\ Len(Append(q, f + 1)) = Len(q) + 1
      /\ Append(q, f + 1)[Len(q) + 1] = f + 1
      /\ \A i \in 1 .. Len(q) : Append(q, f + 1)[i] = q[i] /\ q[i] \in Nat
  BY AppendFacts
<1> DEFINE a == Append(q, f + 1)
           m == Len(q)
<1>2. /\ m \in Nat /\ Len(a) = m + 1 /\ a[m + 1] = f + 1
      /\ \A i \in 1 .. m : a[i] = q[i] /\ q[i] \in Nat
  BY <1>1
<1>3. /\ \A i \in 1 .. m : n < q[i] /\ q[i] <= f
      /\ \A i, j \in 1 .. m : i < j => q[i] < q[j]
  BY DEF Ascends
<1> HIDE DEF a, m
<1>4. \A i \in 1 .. m + 1 : i \in 1 .. m \/ i = m + 1
  BY <1>2
<1>5. \A i \in 1 .. m + 1 : n < a[i] /\ a[i] <= f + 1
  BY <1>2, <1>3, <1>4
<1>6. ASSUME NEW i \in 1 .. m + 1, NEW j \in 1 .. m + 1, i < j PROVE a[i] < a[j]
  <2>1. i \in 1 .. m
    BY <1>2, <1>6
  <2>2. CASE j \in 1 .. m
    BY <2>1, <2>2, <1>2, <1>3, <1>6
  <2>3. CASE j = m + 1
    BY <2>1, <2>3, <1>2, <1>3
  <2>4. QED
    BY <2>2, <2>3, <1>4
<1>7. QED
  BY <1>2, <1>5, <1>6 DEF Ascends, a

(* ... and is the next one to come, if the queue ends at f; ... *)
LEMMA CountsAppend ==
  ASSUME NEW q \in Seq(Nat), NEW n \in Nat, NEW f \in Nat, Counts(q, n), n + Len(q) = f
  PROVE  Counts(Append(q, f + 1), n) /\ n + Len(Append(q, f + 1)) = f + 1
<1>1. /\ Len(q) \in Nat /\ Len(Append(q, f + 1)) = Len(q) + 1
      /\ Append(q, f + 1)[Len(q) + 1] = f + 1
      /\ \A i \in 1 .. Len(q) : Append(q, f + 1)[i] = q[i] /\ q[i] \in Nat
  BY AppendFacts
<1> DEFINE a == Append(q, f + 1)
           m == Len(q)
<1>2. /\ m \in Nat /\ Len(a) = m + 1 /\ a[m + 1] = f + 1 /\ n + m = f
      /\ \A i \in 1 .. m : a[i] = q[i] /\ q[i] = n + i
  BY <1>1 DEF Counts
<1> HIDE DEF a, m
<1>3. \A i \in 1 .. m + 1 : i \in 1 .. m \/ i = m + 1
  BY <1>2
<1>4. ASSUME NEW i \in 1 .. m + 1 PROVE a[i] = n + i
  <2>1. CASE i \in 1 .. m
    BY <2>1, <1>2
  <2>2. CASE i = m + 1
    <3>1. a[i] = f + 1
      BY <2>2, <1>2
    <3>2. f + 1 = n + i
      BY <2>2, <1>2
    <3>3. QED
      BY <3>1, <3>2
  <2>3. QED
    BY <2>1, <2>2, <1>3
<1>5. QED
  BY <1>2, <1>4 DEF Counts, a

(* ... taking the first chunk leaves the ones behind it. *)
LEMMA AscendsTail ==
  ASSUME NEW q \in Seq(Nat), q # <<>>, NEW n \in Nat, NEW f \in Nat, Ascends(q, n, f)
  PROVE  /\ Head(q) \in Nat /\ Head(q) \in (n + 1) .. f
         /\ Ascends(Tail(q), Head(q), f)
         /\ Counts(q, n) => Head(q) = n + 1 /\ Counts(Tail(q), Head(q))
         /\ Len(q) \in Nat /\ Len(Tail(q)) = Len(q) - 1
<1>1. /\ Len(q) \in Nat \ {0} /\ Head(q) = q[1] /\ Head(q) \in Nat
      /\ Tail(q) \in Seq(Nat) /\ Len(Tail(q)) = Len(q) - 1
      /\ \A i \in 1 .. Len(Tail(q)) : i + 1 \in 1 .. Len(q) /\ Tail(q)[i] = q[i + 1]
  BY TailFacts
<1> DEFINE t == Tail(q)
           h == Head(q)
           m == Len(q)
<1>2. /\ m \in Nat \ {0} /\ h = q[1] /\ h \in Nat /\ Len(t) = m - 1
      /\ \A i \in 1 .. (m - 1) : i + 1 \in 1 .. m /\ t[i] = q[i + 1]
  BY <1>1
<1>3. /\ \A i \in 1 .. m : n < q[i] /\ q[i] <= f
      /\ \A i, j \in 1 .. m : i < j => q[i] < q[j]
      /\ Counts(q, n) => \A i \in 1 .. m : q[i] = n + i
  BY DEF Ascends, Counts
<1>4. \A i \in 1 .. m : q[i] \in Nat
  BY SeqFacts
<1> HIDE DEF t, h, m
<1>5. 1 \in 1 .. m
  BY <1>2
<1>6. h \in (n + 1) .. f
  BY <1>2, <1>3, <1>5
<1>7. ASSUME NEW i \in 1 .. (m - 1) PROVE h < t[i] /\ t[i] <= f
  <2>1. i + 1 \in 1 .. m /\ t[i] = q[i + 1] /\ 1 < i + 1
    BY <1>2
  <2>2. QED
    BY <2>1, <1>2, <1>3, <1>5
<1>8. ASSUME NEW i \in 1 .. (m - 1), NEW j \in 1 .. (m - 1), i < j PROVE t[i] < t[j]
  <2>1. i + 1 \in 1 .. m /\ t[i] = q[i + 1] /\ j + 1 \in 1 .. m /\ t[j] = q[j + 1]
    BY <1>2
  <2>2. i + 1 < j + 1
    BY <1>8, <1>2
  <2>3. QED
    BY <2>1, <2>2, <1>3
<1>9. ASSUME Counts(q, n) PROVE h = n + 1 /\ \A i \in 1 .. (m - 1) : t[i] = h + i
  <2>1. h = n + 1
    BY <1>2, <1>3, <1>5, <1>9
  <2>2. ASSUME NEW i \in 1 .. (m - 1) PROVE t[i] = h + i
    <3>1. t[i] = q[i + 1] /\ q[i + 1] = n + (i + 1)
      BY <1>2, <1>3, <1>9
    <3>2. QED
      BY <3>1, <2>1, <1>2
  <2>3. QED
    BY <2>1, <2>2
<1>10. QED
  BY <1>2, <1>6, <1>7, <1>8, <1>9 DEF Ascends, Counts, t, h, m

(* An attach that nothing happens to keeps its place. *)
LEMMA LiveStays ==
  ASSUME NEW v \in Viewers, LiveOf(v), SameFor(v), fed' = fed,
         Stage(v) # "out" => Stage(v)' # "out"
  PROVE  LiveOf(v)'
<1>1. LastSeen(v)' = LastSeen(v)
  BY DEF SameFor, LastSeen
<1>2. QED
  BY <1>1 DEF LiveOf, SameFor, Ascends, Counts

(* A chunk is fed. *)
LEMMA LiveFed ==
  ASSUME FeedInv, SubInv, ChunkFed, NEW v \in Viewers, LiveOf(v)
  PROVE  LiveOf(v)'
<1> USE Roles, PTYAssumption
<1>1. /\ ch'[v] = IF v \in subs /\ Len(ch[v]) < SubCap THEN Append(ch[v], read) ELSE ch[v]
      /\ fed' = (IF term THEN fed + 1 ELSE fed) /\ subs' = subs /\ snap' = snap /\ got' = got
      /\ v \in behind' <=> v \in behind \/ (v \in subs /\ Len(ch[v]) = SubCap)
  BY DEF ChunkFed, Feed
<1>2. LastSeen(v)' = LastSeen(v)
  BY <1>1 DEF LastSeen
<1>3. Stage(v)' = Stage(v)
  BY DEF ChunkFed, SameStage
<1>4. /\ ch[v] \in Seq(Nat) /\ fed \in Nat /\ Len(ch[v]) \in Nat /\ Len(ch[v]) <= SubCap
      /\ v \in subs => term
      /\ term => read = fed + 1
  BY DEF SubInv, SubType, SubOf, FeedInv, ChunkFed
<1>5. /\ LastSeen(v) \in Nat /\ LastSeen(v) <= fed /\ Ascends(ch[v], LastSeen(v), fed)
      /\ v \notin behind => Counts(ch[v], LastSeen(v))
      /\ v \in subs => Stage(v) # "out"
      /\ v \in subs /\ v \notin behind => LastSeen(v) + Len(ch[v]) = fed
  BY DEF LiveOf
<1>6. LastSeen(v) <= fed' /\ (v \in subs' => Stage(v)' # "out")
  BY <1>1, <1>3, <1>4, <1>5
<1>7. Ascends(ch[v], LastSeen(v), fed')
  <2>1. \A i \in 1 .. Len(ch[v]) : ch[v][i] \in Nat
    BY <1>4, SeqFacts
  <2>2. QED
    BY <2>1, <1>1, <1>4, <1>5 DEF Ascends
<1>8. CASE v \in subs /\ Len(ch[v]) < SubCap
  <2>1. ch'[v] = Append(ch[v], fed + 1) /\ fed' = fed + 1
    BY <1>1, <1>4, <1>8
  <2>2. Ascends(Append(ch[v], fed + 1), LastSeen(v), fed + 1)
    BY <1>4, <1>5, AscendsAppend
  <2>3. v \notin behind' => /\ Counts(Append(ch[v], fed + 1), LastSeen(v))
                            /\ LastSeen(v) + Len(Append(ch[v], fed + 1)) = fed + 1
    BY <1>1, <1>4, <1>5, <1>8, CountsAppend
  <2>4. Ascends(ch'[v], LastSeen(v)', fed')
    BY <2>1, <2>2, <1>2
  <2>5. v \notin behind' => Counts(ch'[v], LastSeen(v)') /\ LastSeen(v)' + Len(ch'[v]) = fed'
    BY <2>1, <2>3, <1>2
  <2>6. QED
    BY <2>4, <2>5, <1>2, <1>5, <1>6 DEF LiveOf, Ascends, Counts
<1>9. CASE v \in subs /\ ~(Len(ch[v]) < SubCap)
  <2>1. v \in behind' /\ ch'[v] = ch[v]
    BY <1>1, <1>4, <1>9
  <2>2. QED
    BY <2>1, <1>2, <1>5, <1>6, <1>7 DEF LiveOf, Ascends
<1>10. CASE v \notin subs
  <2>1. ch'[v] = ch[v] /\ v \notin subs' /\ (v \notin behind' => v \notin behind)
    BY <1>1, <1>10
  <2>2. QED
    BY <2>1, <1>2, <1>5, <1>6, <1>7 DEF LiveOf, Ascends, Counts
<1>11. QED
  BY <1>8, <1>9, <1>10

(* An attach has joined: its channel is empty and it has seen everything. *)
LEMMA LiveJoins ==
  ASSUME FeedInv, NEW v \in Viewers, Joins(v)
  PROVE  LiveOf(v)' /\ LastSeen(v)' = fed
<1>1. LastSeen(v)' = fed /\ ch'[v] = <<>> /\ fed' = fed /\ Stage(v)' = "in" /\ fed \in Nat
  BY DEF Joins, LastSeen, FeedInv
<1>2. Len(<<>>) = 0
  OBVIOUS
<1>3. fed + 0 = fed /\ fed <= fed
  BY <1>1
<1>4. QED
  BY <1>1, <1>2, <1>3 DEF LiveOf, Ascends, Counts

(* An attach has received the next chunk it has. *)
LEMMA LiveReceives ==
  ASSUME FeedInv, SubInv, NEW v \in Viewers, Receives(v), LiveOf(v)
  PROVE  /\ LiveOf(v)' /\ LastSeen(v)' \in (LastSeen(v) + 1) .. fed
         /\ v \notin behind => LastSeen(v)' = LastSeen(v) + 1
<1>1. ch[v] \in Seq(Nat) /\ got[v] \in Seq(Nat) /\ fed \in Nat
  BY Roles DEF SubInv, SubType, FeedInv
<1>2. /\ ch[v] # <<>> /\ ch'[v] = Tail(ch[v]) /\ got'[v] = Append(got[v], Head(ch[v]))
      /\ fed' = fed /\ (v \in subs' => v \in subs) /\ (v \in behind' <=> v \in behind)
      /\ Stage(v)' = "in"
  BY DEF Receives, SameStage
<1>3. /\ LastSeen(v) \in Nat /\ LastSeen(v) <= fed /\ Ascends(ch[v], LastSeen(v), fed)
      /\ v \notin behind => Counts(ch[v], LastSeen(v))
      /\ v \in subs /\ v \notin behind => LastSeen(v) + Len(ch[v]) = fed
  BY DEF LiveOf
<1> DEFINE n == LastSeen(v)
           q == ch[v]
           g == got[v]
<1>4. /\ Head(q) \in Nat /\ Head(q) \in (n + 1) .. fed
      /\ Ascends(Tail(q), Head(q), fed)
      /\ Counts(q, n) => Head(q) = n + 1 /\ Counts(Tail(q), Head(q))
      /\ Len(q) \in Nat /\ Len(Tail(q)) = Len(q) - 1
  BY <1>1, <1>2, <1>3, AscendsTail
<1>5. LastSeen(v)' = Head(q)
  <2>1. /\ Len(Append(g, Head(q))) = Len(g) + 1 /\ Len(g) \in Nat
        /\ Append(g, Head(q))[Len(g) + 1] = Head(q)
    BY <1>1, <1>4, AppendFacts
  <2>2. Append(g, Head(q)) # <<>>
    <3>1. Len(g) + 1 # 0 /\ Len(<<>>) = 0
      BY <2>1
    <3>2. QED
      BY <2>1, <3>1, Zenon
  <2>3. QED
    BY <2>1, <2>2, <1>2 DEF LastSeen
<1>6. v \in subs' /\ v \notin behind' => Head(q) + Len(Tail(q)) = fed
  <2> SUFFICES ASSUME v \in subs', v \notin behind' PROVE Head(q) + Len(Tail(q)) = fed
    OBVIOUS
  <2> DEFINE h == Head(q)
             m == Len(q)
             k == Len(Tail(q))
  <2>1. h = n + 1 /\ k = m - 1 /\ m \in Nat /\ n + m = fed /\ n \in Nat
    BY <1>2, <1>3, <1>4
  <2> HIDE DEF h, m, k, n, q
  <2>2. h + k = fed
    BY <2>1
  <2>3. QED
    BY <2>2 DEF h, k
<1>7. Head(q) <= fed
  BY <1>1, <1>3, <1>4
<1>8. LiveOf(v)'
  <2> DEFINE h == Head(q)
             t == Tail(q)
  <2>1. /\ h \in Nat /\ h <= fed /\ Ascends(t, h, fed) /\ (v \notin behind' => Counts(t, h))
        /\ v \in subs' /\ v \notin behind' => h + Len(t) = fed
    BY <1>2, <1>3, <1>4, <1>6, <1>7
  <2>2. LastSeen(v)' = h /\ ch'[v] = t /\ fed' = fed /\ Stage(v)' # "out"
    BY <1>2, <1>5
  <2> HIDE DEF h, t, n, q, g
  <2>3. QED
    BY <2>1, <2>2 DEF LiveOf, Ascends, Counts
<1>9. QED
  BY <1>2, <1>3, <1>4, <1>5, <1>8

(* Every step keeps LiveInv. *)
LEMMA LiveStepKeeps == DoInv /\ FeedInv /\ SubInv /\ LiveInv /\ [Next]_vars => LiveInv'
<1> SUFFICES ASSUME DoInv, FeedInv, SubInv, LiveInv, [Next]_vars PROVE LiveInv'
  OBVIOUS
<1>1. LiveEffect
  BY NextEffect
<1>2. ASSUME NEW v \in Viewers, SameFor(v), SameStage(v), fed' = fed PROVE LiveOf(v)'
  BY <1>2, LiveStays DEF LiveInv, SameStage
<1>3. CASE AllRest /\ (term' = term \/ term' = FALSE)
  <2>1. term' \in BOOLEAN
    BY <1>3 DEF LiveInv
  <2>2. QED
    BY <2>1, <1>2, <1>3 DEF AllRest, LiveInv
<1>4. CASE ChunkFed
  <2>1. term' = term
    BY <1>4 DEF ChunkFed, Feed
  <2>2. QED
    BY <2>1, <1>4, LiveFed DEF LiveInv
<1>5. ASSUME NEW v \in Viewers, Joins(v) \/ Receives(v) \/ Leaves(v) PROVE LiveInv'
  <2>1. \A x \in Viewers \ {v} : LiveOf(x)'
    BY <1>2, <1>5 DEF Joins, Receives, Leaves
  <2>2. LiveOf(v)'
    <3>1. CASE Joins(v)
      BY <3>1, LiveJoins
    <3>2. CASE Receives(v)
      BY <3>2, LiveReceives DEF LiveInv
    <3>3. CASE Leaves(v)
      BY <3>3, LiveStays DEF LiveInv, Leaves
    <3>4. QED
      BY <1>5, <3>1, <3>2, <3>3
  <2>3. term' \in BOOLEAN
    BY <1>5 DEF Joins, Receives, Leaves, LiveInv
  <2>4. QED
    BY <2>1, <2>2, <2>3 DEF LiveInv
<1>6. QED
  BY <1>1, <1>3, <1>4, <1>5 DEF LiveEffect

(* The refinement mapping, by attach. *)
StageMap == [v \in Viewers |-> Stage(v)]
SeenMap == [v \in Viewers |-> LastSeen(v)]
LossyMap == behind \cap Viewers

(* Attaches nothing happens to have the same place in LiveOutput. *)
LEMMA SameMap ==
  ASSUME NEW v \in Viewers, SameFor(v)
  PROVE  LastSeen(v)' = LastSeen(v) /\ (v \in LossyMap' <=> v \in LossyMap)
BY DEF SameFor, LastSeen, LossyMap

(* A step of one attach changes the maps there. *)
LEMMA OneMap ==
  ASSUME NEW v \in Viewers, v \in behind' <=> v \in behind,
         \A x \in Viewers \ {v} : SameFor(x) /\ SameStage(x)
  PROVE  /\ StageMap' = [StageMap EXCEPT ![v] = Stage(v)']
         /\ SeenMap' = [SeenMap EXCEPT ![v] = LastSeen(v)']
         /\ LossyMap' = LossyMap
         /\ StageMap[v] = Stage(v) /\ SeenMap[v] = LastSeen(v)
<1>1. \A x \in Viewers \ {v} : LastSeen(x)' = LastSeen(x) /\ Stage(x)' = Stage(x)
  BY SameMap DEF SameStage
<1>2. LossyMap' = LossyMap
  BY DEF LossyMap, SameFor
<1>3. QED
  BY <1>1, <1>2 DEF StageMap, SeenMap

(* Nothing happens to the attaches. *)
LEMMA RestMap ==
  ASSUME AllRest
  PROVE  StageMap' = StageMap /\ SeenMap' = SeenMap /\ LossyMap' = LossyMap
<1>1. \A x \in Viewers : LastSeen(x)' = LastSeen(x) /\ Stage(x)' = Stage(x)
  BY SameMap DEF AllRest, SameStage
<1>2. LossyMap' = LossyMap
  BY DEF LossyMap, SameFor, AllRest
<1>3. QED
  BY <1>1, <1>2 DEF StageMap, SeenMap

(* A chunk is fed: those it is dropped for are SubCap chunks behind; once   *)
(* the terminal is closed there is nobody to drop it for.                   *)
LEMMA FedMap ==
  ASSUME FeedInv, SubInv, LiveInv, ChunkFed
  PROVE  \/ /\ term /\ fed' = fed + 1 /\ term' = term
            /\ StageMap' = StageMap /\ SeenMap' = SeenMap
            /\ \E slow \in SUBSET {v \in Viewers : StageMap[v] # "out"
                                                   /\ SeenMap[v] + SubCap <= fed} :
                  LossyMap' = LossyMap \cup slow
         \/ /\ fed' = fed /\ term' = term
            /\ StageMap' = StageMap /\ SeenMap' = SeenMap /\ LossyMap' = LossyMap
<1> USE Roles
<1>1. /\ fed' = (IF term THEN fed + 1 ELSE fed) /\ term' = term /\ snap' = snap /\ got' = got
      /\ behind' = behind \cup {s \in subs : Len(ch[s]) = SubCap}
      /\ \A v \in Viewers : Stage(v)' = Stage(v)
  BY DEF ChunkFed, Feed, SameStage
<1>2. StageMap' = StageMap /\ SeenMap' = SeenMap
  BY <1>1 DEF StageMap, SeenMap, LastSeen
<1>3. CASE term
  <2> DEFINE slow == {v \in Viewers : v \in subs /\ Len(ch[v]) = SubCap /\ v \notin behind}
  <2>1. ASSUME NEW v \in slow PROVE StageMap[v] # "out" /\ SeenMap[v] + SubCap <= fed
    <3>1. v \in Viewers /\ v \in subs /\ v \notin behind /\ Len(ch[v]) = SubCap
      OBVIOUS
    <3>2. Stage(v) # "out" /\ LastSeen(v) + Len(ch[v]) = fed
      BY <3>1 DEF LiveInv, LiveOf
    <3>3. StageMap[v] = Stage(v) /\ SeenMap[v] = LastSeen(v) /\ fed <= fed
      BY <3>1 DEF StageMap, SeenMap, FeedInv
    <3>4. QED
      BY <3>1, <3>2, <3>3
  <2>2. LossyMap' = LossyMap \cup slow
    BY <1>1 DEF LossyMap
  <2>3. slow \in SUBSET {v \in Viewers : StageMap[v] # "out" /\ SeenMap[v] + SubCap <= fed}
    BY <2>1
  <2> HIDE DEF slow
  <2>4. QED
    BY <1>1, <1>2, <1>3, <2>2, <2>3
<1>4. CASE ~term
  <2>1. \A v \in Viewers : v \notin subs
    BY <1>4 DEF SubInv, SubOf
  <2>2. LossyMap' = LossyMap
    BY <1>1, <2>1 DEF LossyMap
  <2>3. QED
    BY <1>1, <1>2, <1>4, <2>2
<1>5. QED
  BY <1>3, <1>4

(* Every step of the PTY is one of LiveOutput, or none. *)
LEMMA LiveStep ==
  DoInv /\ FeedInv /\ SubInv /\ LiveInv /\ [Next]_vars => [Live!Next]_Live!vars
<1> SUFFICES ASSUME DoInv, FeedInv, SubInv, LiveInv, [Next]_vars
             PROVE  Live!Next \/ Live!vars' = Live!vars
  OBVIOUS
<1> USE DEF StageMap, SeenMap, LossyMap
<1>1. LiveEffect
  BY NextEffect
<1>2. CASE AllRest /\ (term' = term \/ term' = FALSE)
  <2>1. fed' = fed /\ StageMap' = StageMap /\ SeenMap' = SeenMap /\ LossyMap' = LossyMap
    BY <1>2, RestMap DEF AllRest
  <2>2. CASE term' = term
    BY <2>1, <2>2 DEF Live!vars
  <2>3. CASE term /\ term' = FALSE
    BY <2>1, <2>3 DEF Live!Next, Live!Close
  <2>4. QED
    BY <1>2, <2>2, <2>3 DEF LiveInv
<1>3. CASE ChunkFed
  BY <1>3, FedMap DEF Live!Next, Live!Output, Live!vars
<1>4. ASSUME NEW v \in Viewers, Joins(v) PROVE Live!Next
  <2>1. /\ StageMap' = [StageMap EXCEPT ![v] = "in"] /\ SeenMap' = [SeenMap EXCEPT ![v] = fed]
        /\ LossyMap' = LossyMap /\ StageMap[v] = "out"
    BY <1>4, OneMap, LiveJoins DEF Joins
  <2>2. term /\ term' = term /\ fed' = fed
    BY <1>4 DEF Joins
  <2>3. Live!Join(v)
    BY <2>1, <2>2 DEF Live!Join
  <2>4. QED
    BY <2>3 DEF Live!Next
<1>5. ASSUME NEW v \in Viewers, Receives(v) PROVE Live!Next
  <2>1. /\ LastSeen(v)' \in (LastSeen(v) + 1) .. fed
        /\ v \notin behind => LastSeen(v)' = LastSeen(v) + 1
    BY <1>5, LiveReceives DEF LiveInv
  <2>2. /\ StageMap' = [StageMap EXCEPT ![v] = "in"]
        /\ SeenMap' = [SeenMap EXCEPT ![v] = LastSeen(v)']
        /\ LossyMap' = LossyMap /\ StageMap[v] = "in" /\ SeenMap[v] = LastSeen(v)
    BY <1>5, OneMap DEF Receives, SameStage
  <2>3. StageMap' = StageMap
    BY <2>2
  <2>4. term' = term /\ fed' = fed
    BY <1>5 DEF Receives
  <2>5. Live!See(v)
    BY <2>1, <2>2, <2>3, <2>4 DEF Live!See
  <2>6. QED
    BY <2>5 DEF Live!Next
<1>6. ASSUME NEW v \in Viewers, Leaves(v) PROVE Live!Next
  <2>1. LastSeen(v)' = LastSeen(v)
    BY <1>6, SameMap DEF Leaves
  <2>2. /\ StageMap' = [StageMap EXCEPT ![v] = "left"]
        /\ SeenMap' = [SeenMap EXCEPT ![v] = LastSeen(v)]
        /\ LossyMap' = LossyMap /\ StageMap[v] = "in" /\ SeenMap[v] = LastSeen(v)
    BY <1>6, <2>1, OneMap DEF Leaves, SameFor
  <2>3. SeenMap' = SeenMap
    BY <2>2
  <2>4. term' = term /\ fed' = fed
    BY <1>6 DEF Leaves
  <2>5. Live!Leave(v)
    BY <2>2, <2>3, <2>4 DEF Live!Leave
  <2>6. QED
    BY <2>5 DEF Live!Next
<1>7. QED
  BY <1>1, <1>2, <1>3, <1>4, <1>5, <1>6 DEF LiveEffect

(* Snapshot and live output join, and the PTY implements LiveOutput, for    *)
(* any subscribers and capacities: whatever the other goroutines do, an     *)
(* attach sees its snapshot and the chunks after it, once and in order, and *)
(* loses one only when it is SubCap chunks behind; a stream misses none     *)
(* unless its channel overflowed.                                           *)
THEOREM SnapshotThenLiveHolds == Spec => SnapshotThenLive
<1>1. Init => LiveInv /\ Live!Init
  <2> SUFFICES ASSUME Init PROVE LiveInv /\ Live!Init
    OBVIOUS
  <2>1. /\ term = TRUE /\ fed = 0 /\ behind = {} /\ subs = {}
        /\ \A v \in Viewers : /\ act[v] = "none" /\ got[v] = <<>> /\ snap[v] = 0
                              /\ ch[v] = <<>>
    BY Roles DEF Init
  <2>2. \A v \in Viewers : Stage(v) = "out" /\ LastSeen(v) = 0
    BY <2>1 DEF Stage, LastSeen
  <2>3. Live!Init
    BY <2>1, <2>2 DEF Live!Init
  <2>4. Len(<<>>) = 0
    OBVIOUS
  <2>5. LiveInv
    BY <2>1, <2>2, <2>4 DEF LiveInv, LiveOf, Ascends, Counts
  <2>6. QED
    BY <2>3, <2>5
<1>2. PTYInv => DoInv /\ FeedInv /\ SubInv
  BY DEF PTYInv
<1>3. QED
  BY <1>1, <1>2, PTYInvariant, LiveStepKeeps, LiveStep, JoinedHolds, PTL
     DEF Spec, SnapshotThenLive, Live!Spec
=============================================================================
