----------------------------- MODULE OutputPath -----------------------------
(***************************************************************************)
(* The way of the child's output: the read loop gives every byte to the     *)
(* emulator, through the primary filter to the mirror, and through the      *)
(* subscriber's stripper to hoot attach (src/pty_libghostty.go), which      *)
(* writes it to the user's terminal and shows it to the restorer            *)
(* (src/cmd/hoot/attach.go).                                                *)
(*                                                                         *)
(* The child writes sequences, some of them cut short; a read ends anywhere *)
(* within them, so a subscription begins, and a chunk is dropped, anywhere. *)
(***************************************************************************)
EXTENDS PrimaryFilter, Restorer

CONSTANTS
  Programs,    \* sets of sequences: what one child writes, again and again
  UserFrames,  \* keyboard frames of the user's terminal before the attach
  MaxFrames    \* bound: keyboard frames above the user's

ASSUME PathAssumption == UserFrames \in Nat /\ MaxFrames \in Nat

VARIABLES
  prog,       \* the child: a member of Programs
  rest,       \* what remains of the sequence it is writing
  emu, mir,   \* the emulator and the mirror of the primary screen
  filter,     \* p.primaryFilter
  client,     \* hoot attach: off, on (subscribed), away (reconnecting), left
  strip,      \* the subscription's stripper
  tty,        \* the user's terminal
  rst,        \* the client's restorer
  past        \* history: what happened, as tags (below)
vars == <<prog, rest, emu, mir, filter, client, strip, tty, rst, past>>

clientVars == <<client, strip, tty, rst>>

(* Of the connection: lost (a chunk was dropped), mid (subscribed within a  *)
(* sequence), stale (the snapshot could not mend the user's terminal),      *)
(* misread (the stripper took a byte for another than a terminal does), odd *)
(* (and is still out of step).                                              *)
OfConnection == {"lost", "mid", "stale", "misread", "odd"}
(* For good: answered (the user's terminal answered a listed query), asked  *)
(* (it did while the stripper was in step), ris (reset on the alternate     *)
(* screen), misfiltered (the filter misread a byte), wiped (the user's      *)
(* terminal was reset), floored (the child popped frames hoot never saw     *)
(* pushed), unseen (the restorer misread a byte), otherScreen (detached     *)
(* with the alternate screen, or frames on it).                             *)
Tags(tag, c) == IF c THEN {tag} ELSE {}

(* The child begins another sequence. *)
Begin(s) ==
  /\ rest = <<>> /\ client # "left"
  /\ Contains(s, ">") /\ Contains(s, "u") =>
       tty.main + tty.other < UserFrames + MaxFrames /\ rst.kittyPops < MaxFrames
  /\ rest' = s
  /\ UNCHANGED <<prog, emu, mir, filter, clientVars, past>>

(* The user's terminal and the restorer are given what was let through. *)
Delivered(s) ==
  /\ tty' = Written(tty, s)
  /\ rst' = Observed(rst, s)

(* A pop takes more frames than were pushed on this screen since the attach. *)
Floors(s) ==
  /\ Contains(s, "<")
  /\ (IF Contains(s, "2") THEN 2 ELSE 1) > (IF tty.alt THEN tty.other ELSE tty.main - UserFrames)

(* The user's terminal is reset. *)
Wipes(s) == \E i \in 1 .. Len(s) : s[i] = "c" /\ Written(tty, SubSeq(s, 1, i - 1)).buf = <<"ESC">>

(* The queries among what was let through, each with its last symbol. *)
Queries(s) ==
  {Append(Written(tty, SubSeq(s, 1, i - 1)).buf, s[i]) :
     i \in {j \in 1 .. Len(s) : Answers(Written(tty, SubSeq(s, 1, j - 1)), s[j])}}
(* Device attributes with their default parameter, which nobody lists. *)
Unlisted == {<<"ESC", "[", ">", "0", "c">>}

(* Where the stripper, the filter and the restorer part from a terminal: a  *)
(* byte of a character taken for a control, a control byte within a         *)
(* sequence, a sequence that is too long.                                   *)
Misread(q, b) ==
  \/ q.state = "normal" /\ b \in {"9b", "9d"}
  \/ q.state \in {"esc", "csi", "oscEsc"} /\ b \in {"ESC", "ENQ"}
  \/ q.state = "csi" /\ Len(q.pending) >= CSICap /\ b \notin Final
  \/ q.state = "osc" /\ Len(q.pending) >= OSCCap /\ b \notin {"BEL", "ESC"}
Misfiltered(f, b) ==
  \/ f.state # "normal" /\ (b = "ESC" \/ (Len(f.pending) >= CSICap /\ b \notin Final))
  \/ f.pending # <<>> /\ f.pending[1] = "9b" /\ csiAltScreenMode(Append(f.pending, b))
Unseen(r, s) ==
  \E i \in 1 .. Len(s) :
     LET n == Len(Observed(r, SubSeq(s, 1, i - 1)).csiBuf)
     IN n = ObserveCap \/ (n > 1 /\ s[i] = "ESC")

(* What the byte b leaves in the history of the filter and the terminal. *)
Noted(b) ==
  past \cup Tags("ris", emu.alt /\ emu.buf = <<"ESC">> /\ b = "c") \cup Tags("misfiltered", Misfiltered(filter, b))

(* Bound: a connection loses one piece of output. *)
MayLose == "lost" \notin past

(* A byte is read: p.do of the read loop.  A slow subscriber misses what    *)
(* the read has for it.                                                     *)
ReadByte ==
  /\ rest # <<>>
  /\ LET b == Head(rest)
         f == FilterFeed(filter, b)
         q == Feed(strip, b)
         on == client = "on"
         seen == Noted(b) \cup (IF on /\ Misread(strip, b) THEN {"misread", "odd"} ELSE {})
         inStep == strip'.state = "normal" /\ tty'.buf = <<>>
     IN /\ emu' = Frameless(Term(emu, b))
        /\ filter' = [f EXCEPT !.out = <<>>] /\ mir' = Frameless(Written(mir, f.out))
        /\ strip' = IF on THEN [q EXCEPT !.out = <<>>] ELSE strip
        /\ \/ /\ on /\ q.out # <<>>
              /\ Delivered(q.out)
              /\ past' = (seen \ Tags("odd", inStep))
                           \cup Tags("answered", ~(Queries(q.out) \subseteq Unlisted))
                           \cup Tags("asked", "odd" \notin seen
                                               /\ ~(Queries(q.out) \subseteq Unlisted))
                           \cup Tags("floored", Floors(q.out))
                           \cup Tags("wiped", Wipes(q.out))
                           \cup Tags("unseen", Unseen(rst, q.out))
           \/ /\ on /\ q.out # <<>> => MayLose
              /\ UNCHANGED <<tty, rst>>
              /\ past' = (seen \ Tags("odd", inStep)) \cup Tags("lost", on /\ q.out # <<>>)
  /\ rest' = Tail(rest)
  /\ UNCHANGED <<prog, client>>

(* hoot attach begins (the restorer's Attach pushes a frame) or reconnects: *)
(* one call subscribes and takes the snapshot, which paints the screen and  *)
(* sets the modes that are not at their default; it switches none off, and  *)
(* has no colours.  On the alternate screen it is the mirror, then the      *)
(* screen.                                                                  *)
Subscribe ==
  /\ client \in {"off", "away"}
  /\ strip' = Stripper
  /\ LET t == Idle(IF client = "off" THEN Pushed(tty) ELSE tty)
         main == IF emu.alt THEN mir.text ELSE emu.text
     IN /\ tty' = [t EXCEPT !.alt = @ \/ emu.alt, !.mok = @ \/ emu.mok,
                            !.text = IF t.alt THEN @ ELSE main]
        /\ past' = (past \ OfConnection)
             \cup Tags("mid", emu.buf # <<>>)
             \cup Tags("stale", \/ t.alt /\ (~emu.alt \/ t.text # emu.text)
                                \/ t.mok /\ ~emu.mok
                                \/ t.bg # emu.bg)
  /\ rst' = [rst EXCEPT !.kittyPops = IF client = "off" THEN @ + 1 ELSE @,
                        !.modifyOtherKeys = @ \/ emu.mok, !.csiBuf = <<>>]
  /\ client' = "on"
  /\ UNCHANGED <<prog, rest, emu, mir, filter>>

(* The connection is lost. *)
Drop ==
  /\ client = "on"
  /\ client' = "away" /\ strip' = Stripper
  /\ UNCHANGED <<prog, rest, emu, mir, filter, tty, rst, past>>

(* The client detaches: emitDetach calls Cleanup. *)
Detach ==
  /\ client \in {"on", "away"}
  /\ tty' = Cleanup(tty, rst)
  /\ past' = past \cup Tags("otherScreen", tty.alt \/ tty.other > 0)
  /\ client' = "left" /\ strip' = Stripper
  /\ UNCHANGED <<prog, rest, emu, mir, filter, rst>>

Init ==
  /\ prog \in Programs /\ rest = <<>>
  /\ emu = NewTerminal /\ mir = NewTerminal /\ filter = Filter
  /\ client = "off" /\ strip = Stripper
  /\ tty = [NewTerminal EXCEPT !.main = UserFrames] /\ rst = NewRestorer
  /\ past = {}

Next == (\E s \in prog : Begin(s)) \/ ReadByte \/ Subscribe \/ Drop \/ Detach

Spec == Init /\ [][Next]_vars

-----------------------------------------------------------------------------

(* Everything the child wrote has been delivered. *)
Delivery == rest = <<>> /\ client = "on" /\ past \cap {"lost", "mid"} = {}

(* vtquery_stripper.go, "Anything we don't recognize as a query passes      *)
(* through unchanged": from its snapshot on, the user's terminal shows what *)
(* the emulator shows; except after output that the stripper or the filter  *)
(* misread, and if a reconnecting terminal had an alternate screen or a key *)
(* mode the session no longer has, or the session has a background that was *)
(* set earlier, none of which the snapshot mends.                           *)
OutputFollows ==
  Delivery /\ past \cap {"stale", "misread", "misfiltered", "ris"} = {} =>
     /\ tty.alt = emu.alt /\ tty.mok = emu.mok /\ tty.bg = emu.bg
     /\ tty.text = emu.text

(* Only the emulator answers the queries vtquery_stripper.go lists, however *)
(* they are cut by reads, by the beginning of a subscription and by dropped *)
(* chunks; except while the stripper is out of step with a terminal, which  *)
(* takes a character that ends in 0x9b or 0x9d, a sequence cut short by     *)
(* another, or one longer than its buffer.                                  *)
AnsweredOnce == "asked" \notin past

(* The mirror has what was written to the primary screen, as if the         *)
(* alternate one had never been shown, but for text the filter holds back;  *)
(* except after a reset on the alternate screen, which the filter does not  *)
(* notice, and after a sequence that it misread: one cut short by another,  *)
(* longer than its buffer, or begun by the last byte of a character.        *)
MirrorIsPrimary ==
  rest = <<>> /\ filter.pending = <<>> /\ past \cap {"ris", "misfiltered"} = {} =>
     mir.text = emu.text /\ ~mir.alt /\ filter.inAlt = emu.alt

(* Detaching gives the user's terminal back its keyboard: modifyOtherKeys   *)
(* off, own frames and none of the child's, across lost chunks and          *)
(* reconnects; except if a sequence was cut short by another or longer than *)
(* the restorer's buffer, and for the frames if the child reset the         *)
(* terminal, popped frames hoot never saw pushed, or the terminal is on, or *)
(* has frames on, the alternate screen.                                     *)
KeyboardRestored ==
  client = "left" /\ "unseen" \notin past =>
     /\ ~tty.mok
     /\ past \cap {"wiped", "floored", "otherScreen"} = {} => tty.main = UserFrames

-----------------------------------------------------------------------------
(* What the comments say, and the code does not do *)

(* vtquery_stripper.go, "Anything we don't recognize as a query passes      *)
(* through unchanged": no character the child wrote is missing.             *)
TextPasses == Delivery /\ "stale" \notin past => tty.text = emu.text

(* vtquery_stripper.go, "Stripped sequences: ... CSI c": no query of the    *)
(* list reaches the user's terminal.                                        *)
QueriesStripped == "answered" \notin past

(* vtprimary_filter.go, "The mirror therefore tracks the primary screen as  *)
(* if tmux/vim/less had never taken over the display".                      *)
MirrorTracks ==
  rest = <<>> /\ filter.pending = <<>> => mir.text = emu.text /\ filter.inAlt = emu.alt

(* attach_restorer.go, "The reconnect snapshot itself re-establishes        *)
(* inner-program state": the user's terminal shows the screen the child is  *)
(* on.                                                                      *)
ReconnectRestores == Delivery => tty.alt = emu.alt

(* attach_restorer.go, "Push an empty Hoot-owned kitty kbd frame. Symmetric *)
(* pop in Cleanup": after the detach the frame is gone.                     *)
SymmetricPop ==
  client = "left" /\ past \cap {"wiped", "floored"} = {} => tty.main = UserFrames
=============================================================================
