------------------------------ MODULE ChordFSM ------------------------------
(***************************************************************************)
(* The keyboard of hoot attach (src/cmd/hoot/attach_fsm.go): bytes are      *)
(* assembled to keys, the prefix key and the key after it make a command,   *)
(* everything else is forwarded.                                            *)
(*                                                                         *)
(* The user presses keys; the terminal encodes them as legacy bytes or, as  *)
(* programs in the session have asked it to, as CSI u reports of some or of *)
(* all keys.  The parameters of a report are one symbol.                    *)
(***************************************************************************)
EXTENDS Sequences, SequencesExt

VARIABLES
  enc,      \* encoding: legacy, some (kitty, text keys are bytes), all
  input,    \* bytes typed and not read
  raw,      \* the key readKeyEvent is assembling
  after,    \* stateAfterPref
  returned, \* runChordFSM has returned
  did,      \* what the bytes of this key led to: none, forward or a command
  fwd,      \* bytes of this key that were forwarded
  typed,    \* history: bytes of this key, and an escape held before it
  want,     \* history: what this key should lead to
  ref       \* history: the last key was the prefix
keyVars == <<enc, input, raw, after, returned, did, fwd, typed, want, ref>>

(* A byte, or the parameters of a report: codepoint, alternate codepoint,   *)
(* the control modifier, event type.                                        *)
NoParams == [cp |-> "", alt |-> "", ctrl |-> FALSE, event |-> ""]
Byte(b) == [byte |-> b, params |-> NoParams]
Report(cp, alt, ctrl, event) ==
  [byte |-> "params", params |-> [cp |-> cp, alt |-> alt, ctrl |-> ctrl, event |-> event]]

Bytes(s) == [i \in 1 .. Len(s) |-> s[i].byte]

-----------------------------------------------------------------------------
(* readKeyEvent *)

Complete(s) ==
  CASE s[1].byte # "ESC" -> TRUE
    [] s[1].byte = "ESC" /\ Len(s) < 3 -> Len(s) = 2 /\ s[2].byte # "["
    [] OTHER -> Last(s).byte \in {"A", "u", "c", "x", "^"}        \* 0x40 .. 0x7e

csiU(s) == Len(s) > 2 /\ Last(s).byte = "u"
parseCSIuParams(s) == IF Len(s) = 4 THEN s[3].params ELSE NoParams

isCSIuPress(s) == csiU(s) => parseCSIuParams(s).event \in {"", "press"}

(* A slip: a release is a key like any other. *)
isCSIuNever(s) == FALSE

isCSIuRepeatOrRelease(s) == csiU(s) /\ parseCSIuParams(s).event \in {"repeat", "release"}

(* The prefix is C-^, byte 0x1e. *)
prefixCodepoints == {"^", "6"}

isPrefixKey(s) ==
  IF ~csiU(s) THEN Bytes(s) = <<"C-^">>
  ELSE LET p == parseCSIuParams(s)
       IN isCSIuPress(s) /\ p.ctrl /\ {p.cp, p.alt} \cap prefixCodepoints # {}

matchChord(s) ==
  LET p == parseCSIuParams(s)
      any(cps) == {p.cp, p.alt} \cap cps # {}
  IN IF ~csiU(s)
     THEN CASE Bytes(s) = <<".">> -> "detach"
            [] Bytes(s) = <<"^">> -> "literal"
            [] Bytes(s) = <<"C-z">> -> "suspend"
            [] Bytes(s) = <<"c">> -> "clone"
            [] OTHER -> "none"
     ELSE CASE ~isCSIuPress(s) -> "none"
            [] isCSIuPress(s) /\ any({"."}) /\ ~p.ctrl -> "detach"
            [] isCSIuPress(s) /\ any({"^", "6"}) /\ p.ctrl -> "literal"
            [] isCSIuPress(s) /\ any({"z", "Z"}) /\ p.ctrl -> "suspend"
            [] isCSIuPress(s) /\ any({"c", "C"}) /\ ~p.ctrl -> "clone"
            [] OTHER -> "none"

(* runChordFSM, for one key. *)
Handle(s) ==
  LET cmd == matchChord(s) IN
  \/ /\ ~after /\ isPrefixKey(s)
     /\ after' = TRUE
     /\ UNCHANGED <<returned, did, fwd>>
  \/ /\ ~after /\ ~isPrefixKey(s)
     /\ did' = "forward" /\ fwd' = fwd \o s
     /\ UNCHANGED <<after, returned>>
  \/ /\ after /\ isCSIuRepeatOrRelease(s)
     /\ UNCHANGED <<after, returned, did, fwd>>
  \/ /\ after /\ ~isCSIuRepeatOrRelease(s)
     /\ after' = FALSE /\ returned' = (cmd = "detach")
     /\ did' = cmd
     /\ UNCHANGED fwd

ReadKeyByte ==
  /\ input # <<>> /\ ~returned
  /\ input' = Tail(input)
  /\ LET s == Append(raw, Head(input))
     IN IF Complete(s) THEN raw' = <<>> /\ Handle(s)
        ELSE raw' = s /\ UNCHANGED <<after, returned, did, fwd>>
  /\ UNCHANGED <<enc, typed, want, ref>>

(* The input ends, or the context is cancelled: a held escape is a key. *)
EndOfInput ==
  /\ input = <<>> /\ ~returned
  /\ raw' = <<>> /\ returned' = TRUE
  /\ IF raw # <<>> /\ ~after THEN did' = "forward" /\ fwd' = fwd \o raw
     ELSE UNCHANGED <<did, fwd>>
  /\ after' = FALSE
  /\ UNCHANGED <<enc, input, typed, want, ref>>

-----------------------------------------------------------------------------
(* The user and the terminal *)

Keys == {"prefix", ".", "^", "z", "c", "x", "esc", "arrow"}
CSIu(p) == <<Byte("ESC"), Byte("["), p, Byte("u")>>

Legacy(k) ==
  CASE k = "prefix" -> <<Byte("C-^")>>
    [] k = "z" -> <<Byte("C-z")>>
    [] k = "esc" -> <<Byte("ESC")>>
    [] k = "arrow" -> <<Byte("ESC"), Byte("["), Byte("A")>>
    [] OTHER -> <<Byte(k)>>

(* The reports of a key: the codepoint is the unshifted key's or the        *)
(* character's, with or without the other one.                              *)
Reports(k, e) ==
  CASE k \in {"prefix", "^"} ->
         {CSIu(Report(c[1], c[2], k = "prefix", e)) : c \in {<<"6", "">>, <<"6", "^">>, <<"^", "">>}}
    [] k \in {"z", "c"} -> {CSIu(Report(k, "", k = "z", e))}
    [] k = "arrow" -> {Legacy(k)}
    [] OTHER -> {CSIu(Report(k, "", FALSE, e))}

(* The bytes of a key; only reports tell repeats and releases. *)
Encodings(k, e) ==
  IF enc = "legacy" \/ (enc = "some" /\ k \notin {"prefix", "z", "esc"})
  THEN {Legacy(k) : x \in {e} \cap {"press"}}
  ELSE Reports(k, e) \cup UNION {Reports(k, "") : x \in {e} \cap {"press"}}

(* The command a key is after the prefix.  A second prefix is a literal or  *)
(* nothing, and so is ^ where it is reported without its control modifier.  *)
Command(k) ==
  CASE k = "." -> {"detach"}
    [] k = "c" -> {"clone"}
    [] k = "z" -> {"suspend"}
    [] k = "^" -> IF enc = "all" THEN {"literal", "none"} ELSE {"literal"}
    [] k = "prefix" -> {"literal", "none"}
    [] OTHER -> {"none"}

(* A function key's reports do not end in u: its release counts as a key.   *)
Pressed(k, e) == e = "press" \/ k = "arrow"

Wanted(k, e) ==
  CASE raw # <<>> -> {"forward", "none"}       \* after an escape that is held
    [] raw = <<>> /\ ~Pressed(k, e) -> IF ref THEN {"none"} ELSE {"forward"}
    [] raw = <<>> /\ Pressed(k, e) /\ ref -> Command(k)
    [] raw = <<>> /\ Pressed(k, e) /\ ~ref -> IF k = "prefix" THEN {"none"} ELSE {"forward"}

(* The user presses, holds or lets go a key. *)
Type(k, e) ==
  /\ input = <<>> /\ ~returned
  /\ input' \in Encodings(k, e)
  /\ typed' = raw \o input'
  /\ want' = Wanted(k, e)
  /\ ref' = CASE raw # <<>> -> FALSE
              [] raw = <<>> /\ ~Pressed(k, e) -> ref
              [] raw = <<>> /\ Pressed(k, e) -> ~ref /\ k = "prefix"
  /\ did' = "none" /\ fwd' = <<>>
  /\ UNCHANGED <<enc, raw, after, returned>>

(* A program in the session asks the terminal for another encoding. *)
ChangeEncoding(m) ==
  /\ m # enc /\ input = <<>> /\ ~returned
  /\ enc' = m
  /\ UNCHANGED <<input, raw, after, returned, did, fwd, typed, want, ref>>

KeyInit ==
  /\ enc = "legacy" /\ input = <<>> /\ raw = <<>> /\ after = FALSE /\ returned = FALSE
  /\ did = "none" /\ fwd = <<>> /\ typed = <<>> /\ want = {"none"} /\ ref = FALSE

KeyNext ==
  \/ ReadKeyByte \/ EndOfInput
  \/ \E k \in Keys, e \in {"press", "repeat", "release"} : Type(k, e)
  \/ \E m \in {"legacy", "some", "all"} : ChangeEncoding(m)

KeySpec == KeyInit /\ [][KeyNext]_keyVars

(* A chord is found, and nothing else is taken for one, in every encoding   *)
(* and when it changes between the two keys; every other key reaches the    *)
(* session byte for byte.  An escape byte swallows the key after it.        *)
ChordsFound ==
  input = <<>> /\ raw = <<>> =>
     /\ did \in want
     /\ want = {"forward"} => fwd = typed
=============================================================================
