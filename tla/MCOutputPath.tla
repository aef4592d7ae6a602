---------------------------- MODULE MCOutputPath ----------------------------
(* Children: one that asks, one that sets colours and the keyboard, one     *)
(* whose sequences are longer than the buffers, one that switches screens,  *)
(* one that pushes and pops keyboard frames; some that write characters     *)
(* whose encoding ends in 0x9b or 0x9d among queries, or before the other   *)
(* screen; some whose queries, frames or screens follow a sequence that is  *)
(* cut short.                                                               *)
EXTENDS OutputPath

CSI(s) == <<"ESC", "[">> \o s
OSC(s) == <<"ESC", "]">> \o s
Text == <<"x">>

Asks ==
  {Text, <<"ENQ">>, CSI(<<"c">>), CSI(<<">", "c">>), CSI(<<">", "0", "c">>),
   CSI(<<"?", "996", "n">>), CSI(<<"18", "t">>), CSI(<<"?", "1049", "$", "p">>), CSI(<<"?", "u">>),
   CSI(<<">", "q">>), OSC(<<"11", ";", "?", "BEL">>), OSC(<<"11", ";", "?", "ESC", "\\">>),
   OSC(<<"4", ";", "1", ";", "?", "BEL">>), CSI(<<"m">>)}
Colours ==
  {Text, OSC(<<"11", ";", "?", "ESC", "\\">>), OSC(<<"11", ";", "col", "ESC", "\\">>),
   OSC(<<"2", ";", "?", "BEL">>), CSI(<<">", "4", ";", "2", "m">>), CSI(<<">", "4", "m">>)}
Long ==
  {Text, OSC(<<"2", ";", "x", "x", "x", "x", "x", "BEL">>),
   OSC(<<"4", ";", "x", "x", "x", ";", "?", "BEL">>),
   CSI(<<"1", ";", "1", ";", "1", ";", "1", "m">>), CSI(<<"c">>)}
Screens ==
  {Text, CSI(<<"?", "1049", "h">>), CSI(<<"?", "1049", "l">>), CSI(<<"?", "1", ";", "1049", "h">>),
   <<"ESC", "c">>}
Keyboard ==
  {CSI(<<">", "1", "u">>), CSI(<<"<", "u">>), CSI(<<"<", "2", "u">>),
   CSI(<<"?", "1049", "h">>), CSI(<<"?", "1049", "l">>)}

Letter9b == {Text, <<"c4", "9b">>, CSI(<<"c">>)}
Letter9d == {Text, <<"e2", "9d">>, OSC(<<"11", ";", "?", "BEL">>)}
LetterAndScreen == {<<"c4", "9b">>, CSI(<<"?", "1049", "h">>)}
CutQueries == {<<"ESC">>, <<"ESC", "[", "1">>, CSI(<<"c">>)}
CutFrames == {<<"ESC", "[", "1">>, CSI(<<">", "1", "u">>), CSI(<<"<", "u">>)}
CutScreens == {<<"ESC", "[", "1">>, CSI(<<"?", "1049", "h">>), CSI(<<"?", "1049", "l">>)}

MCPrograms ==
  {Asks, Colours, Long, Screens, Keyboard, Letter9b, Letter9d, LetterAndScreen,
   CutQueries, CutFrames, CutScreens}

(* One character, for the run that refutes a comment. *)
MCText == {{<<"c4", "9b">>}}
=============================================================================
