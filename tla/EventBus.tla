------------------------------- MODULE EventBus -------------------------------
(***************************************************************************)
(* The state events of a session: Runner.UpdateState, handleEvents          *)
(* (src/session.go) and the bus between them (src/eventbus.go).             *)
(*                                                                         *)
(* The managed program's state is a version number, 0 before the Service    *)
(* publishes one.                                                           *)
(***************************************************************************)
EXTENDS Writer, Naturals, Sequences

CONSTANTS
  Watchers,    \* GET /events requests
  EventCap,    \* buffer of a subscriber channel (16 in the code)
  MaxState     \* bound: state versions the Service publishes

ASSUME EventBusAssumption ==
  EventCap \in Nat \ {0} /\ MaxState \in Nat

VARIABLES
  spc,        \* Service: idle, publish, return, done
  subs,       \* the event bus's subscribers
  ech,        \* events in each subscriber channel
  wpc,        \* handleEvents: idle, replayed, stream, gone
  shown,      \* the last state each /events client was sent
  missed      \* history: watchers that lost an event, to a full channel or
              \* between their replay and their Subscribe

busVars == <<fileVars, spc, subs, ech, wpc, shown, missed>>

-----------------------------------------------------------------------------
(* UpdateState and the bus *)

(* Runner.UpdateState, first half: the Writer.  A failed flush is returned  *)
(* to the Service, which gives up (Run returns the error).                  *)
UpdateState ==
  /\ spc = "idle" /\ state < MaxState
  /\ Update(state + 1)
  /\ spc' = IF failed' # failed THEN "return" ELSE "publish"
  /\ UNCHANGED <<subs, ech, wpc, shown, missed>>

(* A slip: the state is written and nobody is told. *)
PublishNothing ==
  /\ spc = "publish"
  /\ spc' = "idle"
  /\ UNCHANGED <<fileVars, subs, ech, wpc, shown, missed>>

(* Second half: Publish, which drops the event where the channel is full. *)
Publish ==
  /\ spc = "publish"
  /\ ech' = [x \in Watchers |-> IF x \in subs /\ Len(ech[x]) < EventCap
                                THEN Append(ech[x], state) ELSE ech[x]]
  /\ missed' = missed \cup {x \in subs : Len(ech[x]) = EventCap}
                      \cup {x \in Watchers : wpc[x] = "replayed" /\ shown[x] < state}
  /\ spc' = "idle"
  /\ UNCHANGED <<fileVars, subs, wpc, shown>>

(* The Service returns: closeAll ends every stream. *)
CloseBus ==
  /\ spc \in {"idle", "return"}
  /\ spc' = "done"
  /\ subs' = {}
  /\ UNCHANGED <<fileVars, ech, wpc, shown, missed>>

(* A slip: subscribe before the replay. *)
ReplaySubscribed(x) ==
  \/ /\ wpc[x] = "idle" /\ x \notin subs
     /\ subs' = subs \cup {x}
     /\ UNCHANGED <<fileVars, spc, ech, wpc, shown, missed>>
  \/ /\ wpc[x] = "idle" /\ x \in subs
     /\ shown' = [shown EXCEPT ![x] = state]
     /\ wpc' = [wpc EXCEPT ![x] = "replayed"]
     /\ UNCHANGED <<fileVars, spc, subs, ech, missed>>

(* handleEvents: replay the Writer's current state ... *)
Replay(x) ==
  /\ wpc[x] = "idle"
  /\ shown' = [shown EXCEPT ![x] = state]
  /\ wpc' = [wpc EXCEPT ![x] = "replayed"]
  /\ UNCHANGED <<fileVars, spc, subs, ech, missed>>

(* ... then Subscribe. *)
Subscribe(x) ==
  /\ wpc[x] = "replayed"
  /\ subs' = subs \cup {x}
  /\ wpc' = [wpc EXCEPT ![x] = "stream"]
  /\ UNCHANGED <<fileVars, spc, ech, shown, missed>>

SendEvent(x) ==
  /\ wpc[x] = "stream"
  /\ ech[x] # <<>>
  /\ shown' = [shown EXCEPT ![x] = Head(ech[x])]
  /\ ech' = [ech EXCEPT ![x] = Tail(@)]
  /\ UNCHANGED <<fileVars, spc, subs, wpc, missed>>

(* The client goes, or its channel is closed and empty. *)
StreamEnds(x) ==
  /\ wpc[x] = "stream"
  /\ wpc' = [wpc EXCEPT ![x] = "gone"]
  /\ subs' = subs \ {x}
  /\ ech' = [ech EXCEPT ![x] = <<>>]
  /\ UNCHANGED <<fileVars, spc, shown, missed>>

-----------------------------------------------------------------------------

BusInit ==
  /\ OpenWriter(0)
  /\ spc = "idle" /\ subs = {}
  /\ ech = [x \in Watchers |-> <<>>] /\ wpc = [x \in Watchers |-> "idle"]
  /\ shown = [x \in Watchers |-> 0] /\ missed = {}

BusNext ==
  \/ UpdateState \/ Publish \/ CloseBus
  \/ \E x \in Watchers : Replay(x) \/ Subscribe(x) \/ SendEvent(x) \/ StreamEnds(x)

(* Goroutines that can run do, and a client of /events reads. *)
BusFairness ==
  /\ WF_busVars(Publish) /\ WF_busVars(spc = "return" /\ CloseBus)
  /\ \A x \in Watchers : WF_busVars(Subscribe(x)) /\ WF_busVars(SendEvent(x))

BusSpec == BusInit /\ [][BusNext]_busVars
BusFairSpec == BusSpec /\ BusFairness

-----------------------------------------------------------------------------

BusTypeOK ==
  /\ state \in 0 .. MaxState /\ disk \in 0 .. MaxState /\ failed \in BOOLEAN
  /\ spc \in {"idle", "publish", "return", "done"}
  /\ subs \in SUBSET Watchers /\ missed \in SUBSET Watchers
  /\ \A x \in Watchers : ech[x] \in Seq(1 .. MaxState) /\ Len(ech[x]) <= EventCap
  /\ wpc \in [Watchers -> {"idle", "replayed", "stream", "gone"}]
  /\ shown \in [Watchers -> 0 .. MaxState]

(* What an /events client is shown never goes back to an older state. *)
EventsInOrder == [][\A x \in Watchers : shown[x] <= shown'[x]]_shown

(* The newest state an /events client was sent, or will be if it reads on. *)
Newest(x) == IF ech[x] = <<>> THEN shown[x] ELSE ech[x][Len(ech[x])]

(* Between two updates, every listening client that lost no event has the   *)
(* current state, on its screen or at the end of its channel: what came     *)
(* between the replay and the Subscribe of handleEvents, and between the    *)
(* two halves of UpdateState, is either there or counted as missed.         *)
NewestOnItsWay ==
  \A x \in subs : spc = "idle" /\ x \notin missed => Newest(x) = state

(* A client of /events that lost no event, to a full channel or between its *)
(* replay and its Subscribe, is shown the newest published state, as long   *)
(* as it listens and the Service runs.                                      *)
EventsCatchUp ==
  \A x \in Watchers :
     (wpc[x] = "stream" /\ x \in subs /\ spc = "idle") ~>
        (x \notin subs \/ spc = "done" \/ x \in missed \/ shown[x] = state)
=============================================================================
