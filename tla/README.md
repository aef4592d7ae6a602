# A TLA+ model of hootty

hootty keeps a program running on a pseudo terminal inside a *session* process
and lets any number of clients attach to it, locally, over ssh or from a
browser. This directory holds TLA+ modules that model the session process, the
attach client, the path of bytes between them and `hoot serve`, TLC
configurations that check them, and TLAPS proofs of their safety properties for
every number of participants, every capacity and every width.

Contents: inventory, modules, runs, findings, bounds, fairness, proofs, what is
only model-checked, what is not modelled, plan.

## 1. Inventory

| Component | State | Operations | Talks to | What makes it correct |
|---|---|---|---|---|
| attach set (`attach.go`) | members with their declared windows, `current` | Add, Update, Remove, broadcast | PTY (sizeApplier), every attach's `outCh` | the PTY has the minimum of the members; each member hears the newest size |
| attach endpoint (`attach_handler.go`) | per connection: `outCh`, writer, live and reader goroutines | serveOne, clientReadLoop, forcedDetach | attach set, registry, PTY | order on the wire; teardown; no send on a closed channel kills the process |
| attach registry (`attach_registry.go`) | ids with closers | Add, Remove, Close, CloseAll, SetEffectiveSize | Writer, endpoint | state.json lists the members; a detach reaches them |
| Writer (`store.go`, `atomic.go`) | `StateFile`, flock | OpenWriter, Update, UpdateState, Close | state.json | the file is always complete; memory may only be ahead after a failed flush |
| event bus (`eventbus.go`), `GET /events` | subscriber channels | Subscribe, Publish, closeAll, replay | Writer | a client never goes back in time and catches up |
| PTY dispatcher (`pty_libghostty.go`) | terminal, subscribers, recorder, `p.actions` | do, readLoop, subscribe, Snapshot, Resize, Write, Close | recorder, endpoint, child | snapshot and live output join without gap; writes are not mixed; no goroutine stays in `do` |
| recorder (`recorder.go`) | pending bucket, `lastEmittedMs`, file | Write, RecordResize, Close; decoder | pty.hootty.log | decoded times and order are the recorded ones |
| life cycle (`session.go`, `flock.go`, `cmd/hoot/{session,service,spawn,run,clone,serve_spawn}.go`) | flock, state.json, rpc.sock, recording, child | start, serve, signal, crash, restart, list | all of the above | one owner per key; a restart is never blocked by stale files; SIGTERM ends it |
| attach client (`cmd/hoot/attach.go`) | target, connection, `sharedSession`, `outCh`, size | dial, Hello, heartbeat, watchdog, reconnect, switch, detach | endpoint, ssh tunnel, restorer | it always leaves when asked, retries, knows the right size and session |
| remote access (`cmd/hoot/remote.go`, `internal/sshtransport`) | one ssh tunnel | dial, reopen | attach client | a dead tunnel is replaced |
| chord machine (`cmd/hoot/attach_fsm.go`) | half-read key, prefix seen | readKeyEvent, runChordFSM | attach client | a chord is found in every keyboard encoding and nothing else is swallowed |
| restorer (`cmd/hoot/attach_restorer.go`) | frames to pop, modes to reset | Attach, Observe, Cleanup | user's terminal | the terminal is left as it was |
| VT filters (`vtquery_stripper.go`, `vtprimary_filter.go`) | parser state, pending bytes | feed | dispatcher | queries are answered once, text is not lost, wherever reads cut |
| hoot serve (`cmd/hoot/serve*.go`) | working directory, `chdirMu`, handlers | resolve, dial, proxy, bridge, create | sessions | a request reaches its session; both pumps end |

The hard behaviours are the interleavings of goroutines that release a lock
before they act on what they read under it (size broadcasts, the registry's
snapshot, the event replay, overlapping resizes), bounded channels whose reader
has gone, Close racing with `do`, crashes between two steps of a start, the
boundaries of the recording's 16-bit deltas, a client that reconnects while its
keyboard, its window and its tunnel go their own ways, escape sequences cut by
reads, and handlers that share one working directory. `PROJECT.json` lists each as a
hazard at its line, with the properties that would catch it.

## 2. Modules

Every module starts with a comment that says which code it stands for;
`PROJECT.json` maps each definition to its lines. Definitions introduced by
"A slip:" are wrong variants of the definition that follows. The specification
never uses them; they are the mutants which show that each property can fail.

* **AttachSet** - `attach.go`. `members`, `current` are the fields of the
  struct; `applied` is what sizeApplier pushed last. Add, Update and Remove are
  the sections under `a.mu`; the sends after the unlock are separate steps of
  the goroutine that made the change (`bcast`).
* **SizeBroadcast** extends AttachSet with what the clients hear: each change
  of the effective size is a version, and `heard`/`told` record the last and
  the newest Size frame queued for each client.
* **AttachHandler** extends AttachSet with serveOne: `pc` is the place in the
  function, `wr` and `live` are its two goroutines, `outCh` and `liveCh` its
  channels, with their capacities. A send on a closed channel is the `Panic`
  action, which runs exactly the deferred calls that are registered at that
  point. A frame that is being written, or a chunk in hand, counts as still in
  its channel. Two notices reach the connection around `outCh`: forcedDetach's
  (`DetachNotice`, `DetachClose`) and the one ServeHTTP writes after an error
  (`WriteNotice`). An Input frame, the subscription and its cancellation may wait
  for ever in the PTY (`PTYBlocks`), and so may a resize under the lock of the
  set (`ResizeBlocks`), after which nobody gets that lock.
* **Writer** - the owner of state.json: a flush replaces the file or leaves the
  old one, and may fail once. **AttachRegistry** and **EventBus** extend it.
* **AttachRegistry** - the registry's Add and Remove with the write of their
  snapshot as a second step, a client that stops reading (its writer goroutine
  keeps `writeMu`), and DELETE /attachments, which closes one by one.
* **EventBus** - UpdateState in its two halves (Writer, then Publish), the
  buffered channels that drop when full, handleEvents (replay, then Subscribe).
* **PTYDispatcher** - `do` in its steps (look at `p.done`, queue or give up, wait),
  the dispatcher with its final drain, the closures of the read loop, of attaches (one
  closure for subscribe and snapshot, which a failed snapshot undoes) and streams
  (two), Resize with its three stores, and Close with its `default:` branch. Output is
  a sequence of numbered chunks; the emulator and a snapshot of it are the number of
  chunks fed. Input is written under `writeMu` unit by unit to a bounded line, by
  Write, by pastes that first ask the dispatcher for the mode, and by the dispatcher
  itself when the chunk it feeds is a query; the child reads the line, stops reading,
  or closes its end.
* **LiveOutput** - abstract: a viewer gets the screen as it is, then every later
  chunk once and in order, and may lose chunks only when it is a whole window
  behind. PTYDispatcher implements it for attaches (`Live == INSTANCE LiveOutput
  WITH ...`): `at` is read off the subscriber's call, `seen` is the last chunk of its
  snapshot or of its channel, the window is the capacity of the channel.
* **Recorder** - every frame a call writes is a step, so that a crash or a
  write error can come between; deltas are taken modulo the width of their
  field; a FrameDecoder reads the growing file.
* **Recording** - abstract: a log of items with their times, a growing part of it
  that is saved, and a player that shows the saved items once, in order, at their
  times; Close saves everything, a crash ends it, and nothing is promised once a
  write has failed. Recorder implements it (`Log == INSTANCE Recording WITH ...`):
  what is saved is what no buffer of the recorder still holds.
* **Lifecycle** - one key of a state directory: commands that probe the flock and
  fork, session processes with each step of Runner.Run and RunCmdService.Run (the
  writes of state.json may fail there), and commands that only list. A socket bound by
  a relative path may stay behind when it is closed. ProbeFlock takes the lock for a
  moment, as the code does.
* **SessionOwner** - abstract: one session of a key serves at a time, and none
  again after its end. Lifecycle implements it (`Owner == INSTANCE SessionOwner
  WITH serving <- Serving, ended <- Ended`): a session serves from Listen
  until it closes its socket or dies, and has ended from then on.
* **AttachClient** - runAttachLoop, runConnectLoop and runSession as one
  sequential process (`pc`), and beside it the writer, the heartbeat with the
  watchdog, the server loop, the keyboard and the SIGWINCH goroutine, which
  outlive a session and may hold a `send` captured from an earlier one, which
  panics if it meets a closed channel (`pc = "crash"`). The size is read before
  signal.Notify (`Init`, then `Notify`). `peer`
  is the other end: up, mute or down, as it likes; `tunnel` is the ssh process
  under the dials, the loop's and a clone request's: the mutex of the remote makes
  each of them one step. There is no clock: a timer may fire at any time after it was
  set.
* **VTTerminal** (external: a VT terminal), **QueryStripper**,
  **PrimaryFilter**, **Restorer** - the byte machines, each a function of its
  state and the next byte. **OutputPath** composes them: each byte of the child
  goes to the emulator, to the mirror through the filter, and through the
  subscriber's stripper to the user's terminal and the restorer, with dropped
  chunks, new subscriptions and reconnects at any byte. A snapshot paints the
  screen and sets the modes that are not at their default; it switches none off
  and has no colours. `past` records where a byte machine parted from what a
  terminal does with the same byte (`Misread`, `Misfiltered`, `Unseen`).
* **ChordFSM** - key presses, encoded as the keyboard mode of the moment says,
  through readKeyEvent and runChordFSM.
* **Serve** - the handlers of hoot serve as processes that share `cwd` and
  `chdirMu`; sessions start, end and crash around them (Lifecycle in short).
  Either pump of a bridge may wait in a write for an end that does not read.
* **AttachSetProofs**, **SizeBroadcastProofs**, **AttachHandlerProofs**,
  **PTYDispatcherProofs**, **RecordProofs** (Recorder, EventBus, AttachRegistry),
  **LifecycleProofs**, **AttachClientProofs** (AttachClient, ChordFSM),
  **ServeProofs** - theorems (section 7).
* **MC...** - the constants of the runs, and for Serve and AttachClient the
  initial states; MCOutputPath and MCTerminal define what the child may write.
  MCReports runs the recorder or the event bus, MCTerminal the output or the
  keyboard: pairs that share no state.

AttachHandler composes the attach set with the endpoint; AttachRegistry and
EventBus compose their components with the Writer; OutputPath composes the
emulator, the filters, the restorer and the user's terminal, and MCTerminal adds
the keyboard. Between the larger parts the modules overlap rather than compose:
AttachHandler has the PTY's fan-out as one action, Lifecycle has an attach as
one flag, AttachClient has the session as `peer`, Serve has a session as four
states. One module of everything would be far out of TLC's reach.

## 3. Runs that pass

| Run | Property | Shows |
|---|---|---|
| size_broadcast | NegotiatedSize | the PTY has the min-wins size over any sequence of changes (also proved) |
| | EveryMemberIsTold | no broadcast forgets a member |
| attach_handler | WireOrder | what goes through outCh is a Size, scrollback, screen, then live output, on every connection, and ServeHTTP's notice comes after all of it, but for a Size after a failed registration or snapshot (also proved) |
| | ServedAttachLeaves | whatever ends a served attach, a panic included, it leaves the set |
| | OwnSendersDone | outCh is closed only after the goroutines that would take the process down with a panic have ended |
| attach_leaves | LostAttachLeaves | a lost client leaves the set, unless an outCh stays full, a call of the PTY never returns, or its Add panicked |
| reports | OrderKept | nothing is reordered, lost or duplicated, up to what a crash left in memory |
| | LogPlays | Recorder implements Recording: the decoder shows what is saved as it was recorded, a resize at its millisecond and a byte in its bucket, and Close saves all of it (also proved) |
| | EventsInOrder | an /events client never sees an older state after a newer one |
| | EventsCatchUp | a client that lost no event sees the newest state |
| pty_dispatcher | SnapshotThenLive | PTYDispatcher implements LiveOutput for attaches, also while Close ends the channels, and a stream has no gap between snapshot and live output (also proved) |
| | SubscribedIsOpen | no send on, or second close of, a closed channel, whichever of cancel, Close, a failed snapshot and a refused `do` comes first (also proved) |
| | EveryReadIsFed | a full queue never costs the recorder a chunk |
| | SerialResizesAgree | kernel, emulator and stored size agree unless resizes overlapped |
| | WritesAreWhole | input, pastes and query answers reach the child one after the other, never mixed |
| | DoReturns | nobody stays in `do` or Close, but for a caller that queued after the dispatcher's last drain, if the child does not stop reading for ever |
| attach_registry | SerialMirrors | state.json lists the members if attaches came and went one at a time |
| | DetachReaches | a detach reaches each attach, unless a stalled one is in the same request |
| lifecycle | FlockHeld, StateIsOwners, RecordingIsOwners | flock, state.json and recording belong to one session; state.json unless it was written late or could not be written, the recording unless starts overlapped (also proved) |
| | OneServesAtATime | Lifecycle implements SessionOwner (also proved) |
| | RestartServes | stale files never stop a restart |
| | TermEnds | SIGTERM at any moment ends the session and frees the key |
| attach_client | SizeCurrent | the session knows the terminal's size across reconnects, unless the change fell between the load of the size and setSend, or before signal.Notify |
| | RetriesOn | with reconnect, the client gives up only on a session it never reached, unless a switch made while disconnected is taken twice |
| | SwitchReaches | `<prefix>c` gets to the clone, unless it was made while a connection was being set up |
| | DetachLeaves | detach and signals end the client, unless an upgrade is waiting for a mute end |
| | SilenceEnds | the watchdog drops a mute connection, unless the heartbeat itself is stuck in send |
| | Reconnects | if the other end stays up and ssh stops dying, the client is connected again |
| | TerminalRestored | however the process ends the terminal is left as found, unless the server loop had a frame in hand, or a key press or window change panicked with a send of an ended session |
| terminal | OutputFollows | the user's terminal shows what the emulator shows, unless a byte was misread or the snapshot of a reconnect could not mend it |
| | AnsweredOnce | the user's terminal is never asked by the child, wherever reads, subscriptions and drops cut a query, while the stripper is in step with a terminal |
| | MirrorIsPrimary | the mirror has the primary screen, unless the alternate one was left by a reset, or a sequence was misread |
| | KeyboardRestored | detaching undoes the keyboard frames and modes, with the exceptions named in the module |
| | ChordsFound | every chord is recognised in each encoding, and every other key forwarded unchanged |
| serve | RightSession | no request is connected to another session (also proved) |
| | LiveIsReached | a session that is up throughout is reached, whatever detours other handlers made before |
| | CreatedIsOwn | "201 Created" is about the session this request started, unless a stale socket or a rival was there |
| | BridgeEnds | both pumps and the handler end with the browser or the session, unless the end that remains never takes what a pump has for it |

The conditions in these properties ("unless ...") are not conveniences: each
names a case in which the code does not do what one would expect, mostly with a
history variable that is set exactly there, and the next section has those that
contradict a document. Where the case is the very loss a hazard describes, the
hazard's note says so.

The type invariant of each stateful module is `TypeOK` (`SetTypeOK` for the
attach set). It is proved for AttachSet, Lifecycle and Serve, and holds of the
instances above for the others that state one, though the runs spend their
properties on behaviour.

## 4. Disagreements between code and documents

Two runs fail:

* **teardown_finishes** - the writer goroutine stops on a write error; with a
  full `outCh` the live goroutine then blocks for ever, so serveOne's teardown,
  which its comment describes, does not end and the dead attach stays in the
  set and keeps the PTY small.
* **text_passes** - the query stripper takes the UTF-8 continuation bytes 9B and
  9D for 8-bit introducers and holds them back, although "anything we don't
  recognize as a query passes through unchanged". One character is enough.

The following properties are stated in their modules and listed as findings;
each is refuted in the instance of the module's passing run (put it in that
run's cfg to see the behaviour):

* **SizeAgreement** (SizeBroadcast) - broadcasts are sent after `a.mu` is
  released, so a client can end up with the older of two sizes.
* **EveryByteRecorded** (PTYDispatcher) - Close does not wait for the read loop,
  so the last output of a child can be missing from the recording.
* **Mirrors** (AttachRegistry) - two attaches that come or go at once can write
  their lists to state.json in the wrong order.
* **DetachesCleanly** (AttachClient) - a detach during an upgrade that nobody
  answers waits for ever.
* **SpawnsAtHome** (Serve) - a session created while another handler is on its
  detour starts in that handler's directory.
* **PasteIsWanted** (PTYDispatcher) - the paste mode is asked for before the
  write, so a child that has just switched it off gets the markers.
* **SizeFirst** (AttachHandler) - hoot detach writes its notice around `outCh`,
  perhaps before the first Size, which is to come "before the first Output
  frame".
* **SerializedWrites** (AttachHandler) - after a failed registration or snapshot,
  ServeHTTP writes its notice without `writeMu` while the writer goroutine, which
  nobody waits for, may be writing.
* **CleanupAtExit** (AttachClient) - a key press or a window change that captured
  a session's send meets its closed `outCh`: the client panics and leaves the
  terminal raw.
* **QueriesStripped** (OutputPath) - after a character that ends in 9B, a query of
  the list ("CSI c") passes, because its `[` ends what the stripper takes for a
  sequence.
* **MirrorTracks** (OutputPath) - for the same reason the filter misses a switch to
  the alternate screen.
* **ReconnectRestores** (OutputPath) - the snapshot of a reconnect does not take the
  user's terminal off the alternate screen that the child has left.
* **SymmetricPop** (OutputPath) - detached on the alternate screen, Cleanup pops
  that screen's stack and hoot's keyboard frame stays on the primary screen.
* **ResizesAgree** (PTYDispatcher) - two overlapping resizes can leave the
  kernel's and the emulator's size apart.

The remaining findings are the exceptions of DoReturns, SizeCurrent, RetriesOn,
TerminalRestored (a frame in hand), MirrorIsPrimary (a reset) and ChordsFound, and a
comment about when Attach is called.

Also seen while modelling, and listed as hazards: a command that lists sessions
holds the flock for a moment and can make a starting session fail; a stale
rpc.sock satisfies waitForSocket.

## 5. Bounds

| Run | Bound | Why it is enough |
|---|---|---|
| size_broadcast | 3 attaches, 2 incomparable windows, 3 versions before the last window changes | two can broadcast at once to a third; the minimum is a size nobody declared; the set can become empty and fill again |
| attach_handler | 2 attaches, channels of one frame, one client that types, resizes and is detached | every channel is full after one frame, so each blocking send blocks; a broadcast meets the other attach in each state of its teardown |
| attach_leaves | the same, without resizes and hoot detach | a lost attach meets the other in each state; both are broadcast to by joins and leaves |
| reports (recorder) | bucket 2 ms, delta at most 2, spacer at most 4, payload of 1, clock up to 9, 4 items | a bucket can span frames, gaps need one or two spacers, all widths are crossed by one |
| pty_dispatcher | queue of 1, channel of 1; 1 attach with 1 stream and 3 chunks, or with 2 resizes and 2 chunks; or 1 input, 1 paste and 2 chunks that ask or switch modes, line of 1 unit | senders block, channels overflow, output falls before, between and after subscribe and snapshot; resizes one after the other and at once, racing Close; each write blocks in its middle, and an answer meets an input and a paste there |
| attach_registry | 2 attaches, 2 sizes, 1 request at a time, 1 failed flush | two snapshots can cross |
| reports (events) | 2 clients, channel of 2, 4 versions, 1 failed flush | a channel overflows, a client misses the last or a middle event |
| lifecycle | 2 sessions, 1 of them attached to, 1 lister, 1 failed write of state.json | a start meets a session in each state, a restart meets what each kind of end leaves |
| attach_client | outCh of 1, 2 window sizes, 1 clone; any number of reconnects | every send can block; a window change and a switch meet the client in each state |
| terminal | 11 children (queries, colours, sequences longer than the caps, screens, keyboard modes; characters that end in 9B or 9D among queries and screen switches; sequences cut short), one lost piece of output per connection, caps of 6 and 7 symbols, 2 keyboard frames | every state of the three machines is reached and cut at each byte; caps are hit before and after the byte that decides; each way to be out of step occurs before a query, a frame and a screen switch |
| serve | 2 handlers, 2 keys; absolute, relative and too long paths; 5 requests | both handlers are on a detour at once, create races with create and with proxy, sessions crash under each |

Attaches are symmetric in size_broadcast, which checks invariants only; the
runs with liveness properties use no symmetry.

Deadlock is not checked: in each model the clients may all be gone, the bounds
used up and the program over, a state where nothing more happens. That nobody is
stuck is stated by the liveness properties.

## 6. Fairness

Weak fairness of goroutine steps is the Go scheduler running every runnable
goroutine. AttachHandler asks strong fairness of steps that send on a channel:
blocked senders of a Go channel queue first in, first out, so one of them is
not passed over while the channel keeps being drained. The read loop of a closed
connection gets its error, hence `WF(conn closed /\ EndLoop)`. The writer
goroutine has fairness only where it needs nothing from the client: a write on a
closed connection fails, and a closed, empty channel ends its loop. That a frame
is written to an open connection (`WriteFrame`) takes a client that reads, and is
not promised; nor does a call of the PTY have to return once it blocks. In
PTYDispatcher one weak fairness of all its steps, and of a child that is not
deaf reading its input, is enough, because every caller makes finitely many
calls. A client of /events that stays reads its events.
AttachClient has weak fairness of each goroutine by itself, timers included: a
ticker fires as long as its goroutine is in its select. In Serve a handler and
each pump make progress whenever they are not waiting for the other end: a pump
that waits to read or to write is woken by the end of its own connection only.
Nothing makes a client or a browser read or type, a mute end answer, a child
exit, a user press a key or signal a session, a browser leave, or an attach end:
those actions have no fairness.

## 7. What is proved

Every safety property of a run is a theorem for all values of the constants,
except the ones section 8 names. The assumptions are the named ASSUMEs of the
modules, nothing else: capacities and widths are positive, the kinds of goroutines
are disjoint sets, model values differ from what they stand beside. No bound of a
run is needed: the counters that a run caps (MaxState, MaxTime, MaxVersion...) are
arbitrary numbers in the theorems. Each theorem `...Holds` states the property of
that name; each proof is one inductive invariant, Init establishes it, every action
keeps it, and it implies the property.

`AttachSetProofs` (any connections, any positive window sizes; the assumption is
that the handler rejects zero sizes): `NegotiatedSizeHolds` is
`SetSpec => []NegotiatedSize`. NegotiatedSize alone is not inductive: sizeApplier
is called only when the minimum differs from `current`, so the invariant
`SetInv` adds that `current` is the minimum of the members when there are any,
and that it is what was applied once it is not the zero size. Removing the last
member keeps both, so a later join starts from a `current` that is still true
of the PTY. `MinIsLeast` and
`EffectiveIsLeast` say what the minimum of a finite set of sizes is;
`NoViewTruncated` concludes that the PTY is never larger than any member's
window.

`SizeBroadcastProofs`: `EveryMemberIsToldHolds` is inductive once no goroutine
sends a version from the future and a connection that was not added yet is idle and
no member, so that Add does not overwrite a broadcast of its own goroutine. When the
effective size changes, every member is a receiver of the new version, and a receiver
is struck off only by a delivery of that version or by a panic, which `denied` notes.

`AttachHandlerProofs`: `HandlerInv` has two layers. `PlaceInv` says where each
serveOne is and what it owes the set: inside a call of the set exactly while it has
frames to send, a member only between Add and Remove, outCh closed only behind the
live goroutine. `WireInv` says what is in each outCh: only Size frames before the
scrollback is sent, the scrollback once and behind a Size, the screen once and behind
the scrollback, data behind the screen; with `phase`, what the client has seen, that
makes each popped frame the one that is due (`QueuePops`). It yields
`OwnSendersDoneHolds`, `ServedAttachLeavesHolds` and the action property
`WireOrderHolds`. For ServeHTTP's notice it says which attaches can be there with a
writer that still runs: only those that never got their screen, and theirs has nothing
but Size frames to write. A dead writer's queue is left out, since it is never popped
again.

Both modules are shown to implement AttachSet (`BroadcastImplementsSet`,
`HandlerImplementsSet`: `Spec => SetSpec`), so `NegotiatedSizeHolds` carries over:
`NegotiatedWhileBroadcasting`, `NegotiatedWhileServing`.

`PTYDispatcherProofs`: `PTYInv` has five layers, and all rest on the first. DoInv: a
queued closure has one caller, which waits and has not seen it run. LineInv: the
holder of writeMu is the one goroutine in a write, and half a write on the line is
finished by the holder or by nobody. FeedInv: the terminal lacks at most the chunk of
the feed under way. SubInv: a subscriber in `p.subs`, or one whose call has not come
to close it, has an open channel, and what it received, has queued and saw in its
snapshot adds up to what was fed. ResizeInv: until two resizes overlap, the three
sizes are those of the one resize, as far as it has come. They give
`SubscribedIsOpenHolds`, `JoinedHolds`, `EveryReadIsFedHolds`, `WritesAreWholeHolds`
and `SerialResizesAgreeHolds`. `DrainedAllHolds`, the safety half of DoReturns (a
closure queued before the dispatcher's last drain has been run when it returns), needs
one more invariant (DrainInv): whoever waits in `do` has its closure in `p.actions`,
the dispatcher leaves its loop only after Close has closed `p.done`, and what is
queued when it has returned was queued by a latecomer; the drain returns only at an
empty queue, and that is where it is used. `SnapshotThenLiveHolds` adds to
`JoinedHolds` the refinement of LiveOutput. `LiveInv` follows each attach past the
place where SubInv stops, into the time after its channel was closed: what waits in
its channel is ascending and later than what it saw last, without a gap if it was
never dropped from, and reaches up to the last chunk fed while it is subscribed. So
the next chunk received is the next chunk of the output, and a full channel means a
viewer SubCap chunks behind. `LiveStep` takes each action to one of LiveOutput or to a
stutter.

`RecordProofs` is about what a session leaves for others to read.
Recorder (any bucket, any widths with DeltaMax < SpacerMax): `RecorderInv` says that
each frame's time is the sum of the advances before it (Chain), that lastEmittedMs is
the last frame's time except inside a split output chain (LastAt), that a delta is
written only once it fits, and that whatever is buffered may be shown at the time it
will get. All of it holds until a write fails. `DecodedTimeHolds` follows since the
decoder's sum is the time of the frame it read last. `OrderKeptHolds` is about
FlattenSeq, a recursive function the library chooses; instead of an induction over the
file, the invariant `Whole` says that some function satisfies FlattenSeq's recursion
for the payloads, and that every such function, followed by what is held in memory,
gives everything recorded. Both halves are extended frame by frame.
`LogPlaysHolds` is the refinement of Recording. It needs `PlayInv`: there is a sequence
that says for every frame which item is its last, each frame holds the items from
there on, in order, and what is held in memory continues the last frame's (RunsInv);
which frames and which buffers are empty, so that a frame written is progress and the
decoder shows something exactly when it reads a frame with items (FullInv); and no
item lies ahead of the clock (TimesInv). Each action then records, saves, shows, or
stutters (a spacer, a tick, a move from one buffer to the next).
EventBus: the states waiting for a client are no older than what it was shown, no
newer than the Writer's, and ascending, and before its Subscribe a client has none:
`EventsInOrderHolds`, an action property. `NewestOnItsWayHolds`, the safety half of
EventsCatchUp (between two updates, the current state is on the screen of each client
that lost none, or last in its channel), follows a client from
its replay on: between replay and Subscribe it is current or counted as having missed
an event. AttachRegistry: until two attaches race, at
most one has a list to persist and it is the members': `SerialMirrorsHolds`. The
module extends the three specifications, which is why those of EventBus and
AttachRegistry are called BusSpec and RegistrySpec; each theorem is about one.

`LifecycleProofs` (any processes and listers; the only assumption is that NoProc is
not a process): `FlockInvariant` is inductive with TypeOK; its middle conjunct (a
command that has not forked has no session process) is what makes a probing command
and its session exclude each other. `SocketOwned` needs in addition that after
RemoveSocket, until Listen, there is no socket file, which holds since only the holder
of the flock creates or removes it. `StateOwned` holds because every write of
state.json by a session without the flock, and every write that fails, sets `late`.
`RecordingOwned` needs a stronger invariant: as long as starts have not overlapped, at
most one process is starting, and while one is starting no other session holds the
flock, so that the truncation in OpenRecorder cannot hit a serving session; and before
the directory exists no session has reached the flock, which is what a probe that
finds no directory relies on.

`OwnerRefined` is `Spec => OneServesAtATime`, the refinement of SessionOwner.
`OwnerStep` takes each action of Lifecycle to Serve, End or a stutter; it rests
on FlockHeld and on the ownership of the socket, because SessionOwner's Serve
needs that nobody else serves, and that is known only from the flock being held
by one process from before Listen until after the socket is closed.

`AttachClientProofs` (any capacity of outCh): `TerminalRestoredHolds` needs that a
connection is open only between the upgrade and the session's end, so that nothing is
read after the clean-up, and that a process which panics has the keyboard or the
SIGWINCH goroutine at a send whose channel is closed (CleanInv). `RetriesOnHolds`
follows `gotConnectedOnce`: it is cleared only by a switch, and whoever is in a
backoff has it. `SizeCurrentHolds` follows the size stored last, once signal.Notify
was called with the window as it was read: it is loaded for Hello, or in outCh with no
other size behind it, or about to be sent by the SIGWINCH goroutine; or the connection
is about to be dropped, because a frame went out before Hello. `ChordsFoundHolds` is
about ChordFSM (`KeySpec`, which MCTerminal's keyboard steps are steps of) and splits
in two. The lemmas up to `KeyRead` say how a key is read, whatever its encoding: no
beginning of its bytes is complete, all of them are unless the key is the escape byte,
and isPrefixKey, isCSIuRepeatOrRelease and matchChord say of them what the user meant.
The invariant `KeyInv` then has three cases: a key half read (Fresh), the bytes of a
key behind a held escape (Swallowing), and no byte left to read (Settled), where the
state machine's `after` agrees with whether the last key was a prefix. `ChordsFound`
speaks of the moments between keys only and is not inductive.

`ServeProofs` (any handlers, keys and requests): `RequestsReachTheirSession` is
`Spec => []RightSession`. The inductive invariant follows `chdirMu`: only the
handler that holds it is on a detour, what it saved is Home, and the working
directory is the directory of its own session between Chdir and Restore and
Home otherwise; so a base name dialled on the detour can only be the session
the request names. `DetoursEnd` concludes that the process is back in its own
directory whenever the lock is free. Connections already made are kept by
`ConnStep`. `LiveIsReachedHolds` and
`CreatedIsOwnHolds` are further layers over it (`AnswerInv`). Reach: a request whose
session was up and whose state directory was in place throughout finds a live socket
at each step, because a socket is live exactly while its session is up, and a
detour of someone else would have ended the premise. Own: a creation without
rivals finds its key free until its own fork starts, and is the session's owner from
then on.

## 8. Only model-checked

* The liveness properties (LostAttachLeaves, DoReturns, DetachReaches,
  EventsCatchUp, RestartServes, TermEnds, SwitchReaches, DetachLeaves,
  SilenceEnds, Reconnects, BridgeEnds): the prover does not do liveness under
  fairness.
* The byte machines' properties (OutputFollows, AnsweredOnce, MirrorIsPrimary,
  KeyboardRestored): they compare the states of several machines after the same
  bytes, each machine a fold over them, for children that write the programs of
  MCTerminal. A theorem would be an induction over what a child may write, which
  is out of the prover's reach.

## 9. Not modelled

* Signals to the foreground process group (SignalForeground, POST /signal): one
  system call each.
* The emulator itself (libghostty) is external; VTTerminal has the part of a
  terminal the properties are about: text, alternate screen, keyboard frames,
  modifyOtherKeys, background, answers to queries.
* Of the restorer, the modes that Cleanup resets unconditionally (mouse, paste,
  cursor), and dtachRestorer, which observes nothing.
* The wire format of attach frames, short ids, session picking, replay, polling
  and tailing of files: sequential helpers with unit tests.
* The ssh bootstrap and the tunnel's command line: shell commands, pure I/O.
* Of hoot serve, the read-only endpoints and the listener's own socket; DELETE
  of a session is CloseSession of Lifecycle.
* Prefix keys other than the default C-^: `--prefix-key` changes the code that
  isPrefixKey compares with.
* Of what a terminal answers, VTTerminal has one query of each shape the stripper
  tests for, CSI > 0 c, which it does not list, and queries longer than its
  buffers; several colours in one OSC 4 are left out.
* The mutex of the ssh remote as a state: a dial is one step, so that a dial that
  waits for another is a later step.
* Argument parsing, pickers, the one-shot commands, formatting, the test
  harness, and the TypeScript packages, which render what the bridge sends.
* Recycled pids: Lifecycle signals only the process that wrote state.json.

## 10. What could follow

1. AnsweredOnce for every child, not only those of the run: while the stripper is in
   step with the terminal no query passes. It would take a simulation between the
   stripper and the terminal's parser, byte by byte, once OutputPath writes what was
   let through one byte at a time instead of as a fold.
2. A specification of an attach from end to end: AttachHandler's `outCh` in place of
   the reader of a PTYDispatcher channel, so that LiveOutput is implemented up to the
   client's terminal.
