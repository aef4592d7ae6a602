----------------------------- MODULE VTTerminal -----------------------------
(***************************************************************************)
(* The terminals output is written to: the session's emulator, the mirror   *)
(* of its primary screen, the user's own terminal.  They are external       *)
(* (libghostty and whatever terminal the user runs): this is what the code  *)
(* in src/ relies on, a UTF-8 terminal in which an escape aborts the        *)
(* sequence under way and each screen has its stack of keyboard frames.     *)
(*                                                                         *)
(* Output is a sequence of symbols: a byte, or a number standing for its    *)
(* digits.  "9b" and "9d" are bytes that continue a character in UTF-8.     *)
(***************************************************************************)
EXTENDS Naturals, Sequences, SequencesExt

Letters == {"x", "c", "h", "l", "m", "n", "p", "q", "t", "u"}
Final == Letters \cup {"[", "]", "\\"}       \* 0x40 .. 0x7e
Lead == {"c4", "e2"}                         \* first byte of a character

(* buf: the sequence under way; alt: the alternate screen is shown;         *)
(* main, other: keyboard frames of the two screens; mok: modifyOtherKeys;   *)
(* bg: the background was set; text: the last character of the primary      *)
(* screen and the parity of their number.                                   *)
NewTerminal ==
  [buf |-> <<>>, alt |-> FALSE, main |-> 0, other |-> 0, mok |-> FALSE, bg |-> FALSE,
   text |-> <<"", 0>>]

Less(a, b) == IF a > b THEN a - b ELSE 0
Popped(t, n) ==
  IF t.alt THEN [t EXCEPT !.other = Less(@, n)] ELSE [t EXCEPT !.main = Less(@, n)]
Pushed(t) == IF t.alt THEN [t EXCEPT !.other = @ + 1] ELSE [t EXCEPT !.main = @ + 1]

Shown(t, ch) ==
  [t EXCEPT !.buf = <<>>, !.text = IF t.alt THEN @ ELSE <<ch, 1 - @[2]>>]

(* The nth of the fields that semicolons part, empty if there is none. *)
Field(p, n) ==
  LET before(i) == Cardinality({j \in 1 .. i : p[j] = ";"})
      in == {i \in 1 .. Len(p) : p[i] # ";" /\ before(i) = n - 1}
  IN IF in = {} THEN <<>> ELSE SubSeq(p, Min(in), Max(in))

(* A complete control sequence: private marker, parameters and final byte. *)
Control(t, s) ==
  LET is(f, p) == Last(s) = f /\ s[1] = p
  IN CASE is("h", "?") /\ Contains(s, "1049") -> [t EXCEPT !.alt = TRUE]
       [] is("l", "?") /\ Contains(s, "1049") -> [t EXCEPT !.alt = FALSE]
       [] is("u", ">") -> Pushed(t)
       [] is("u", "<") -> Popped(t, IF Contains(s, "2") THEN 2 ELSE 1)
       [] is("m", ">") /\ (Len(s) = 2 \/ Field(Tail(Front(s)), 1) = <<"4">>) ->
            [t EXCEPT !.mok = (Field(Tail(Front(s)), 2) = <<"2">>)]
       [] OTHER -> t

Idle(t) == [t EXCEPT !.buf = <<>>]

(* The sequence goes on; no terminal looks at more of it than this. *)
Longer(t, b) == [t EXCEPT !.buf = IF Len(@) < 9 THEN Append(@, b) ELSE @]

(* The terminal after one symbol; a string is finished by BEL or an escape. *)
Term(t, b) ==
  LET buf == t.buf
      osc == Len(buf) > 1 /\ buf[2] = "]"
      ended == IF osc /\ Contains(buf, "col") THEN [t EXCEPT !.bg = TRUE] ELSE t
  IN CASE b = "ESC" -> [ended EXCEPT !.buf = <<b>>]
       [] b = "ENQ" -> t
       [] b # "ESC" /\ buf = <<>> ->
            IF b \in Lead THEN [t EXCEPT !.buf = <<b>>] ELSE Shown(t, b)
       [] buf # <<>> /\ buf[1] \in Lead -> Shown(t, IF b \in {"9b", "9d"} THEN buf[1] ELSE "bad")
       [] buf = <<"ESC">> /\ b \in {"[", "]"} -> Longer(t, b)
       [] buf = <<"ESC">> /\ b = "c" -> NewTerminal                     \* RIS
       [] buf = <<"ESC">> /\ b \notin {"[", "]", "c"} -> Idle(t)
       [] osc -> IF b = "BEL" THEN Idle(ended) ELSE Longer(t, b)
       [] OTHER -> IF b \in Final THEN Control(Idle(t), Append(SubSeq(buf, 3, Len(buf)), b))
                   ELSE Longer(t, b)

(* Keyboard frames aside, which nothing asks the emulator and its mirror for. *)
Frameless(t) == [t EXCEPT !.main = 0, !.other = 0]

Written(t, s) == FoldLeft(Term, t, s)

(* The symbol makes the terminal send an answer to the program: ENQ, device *)
(* attributes, a status, a size, a mode, the keyboard's flags, a version, a *)
(* colour.  A parameter that is left out is zero.                           *)
Answers(t, b) ==
  LET s == t.buf
      p == SubSeq(s, 3, Len(s))
      csi == Len(s) > 1 /\ s[2] = "["
      osc == Len(s) > 1 /\ s[2] = "]"
  IN \/ b = "ENQ" /\ ~osc
     \/ csi /\ b = "c" /\ p \in {<<>>, <<"0">>, <<">">>, <<">", "0">>, <<"=">>}
     \/ csi /\ b = "n" /\ p \in {<<"5">>, <<"6">>, <<"?", "6">>, <<"?", "996">>}
     \/ csi /\ b = "t" /\ p \in {<<"14">>, <<"16">>, <<"18">>}
     \/ csi /\ b = "p" /\ p = <<"?", "1049", "$">>
     \/ csi /\ b = "u" /\ p = <<"?">>
     \/ csi /\ b = "q" /\ p = <<">">>
     \/ /\ osc /\ b \in {"BEL", "ESC"} /\ Len(p) > 2 /\ p[1] \in {"4", "11"}
        /\ \E i \in 3 .. Len(p) : p[i] = "?" /\ p[i - 1] = ";"
=============================================================================
