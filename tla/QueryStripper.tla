--------------------------- MODULE QueryStripper ---------------------------
(* vtQueryStripper (src/vtquery_stripper.go): one symbol at a time, what a   *)
(* subscriber's stripper holds back and what it lets through.               *)
EXTENDS VTTerminal

CONSTANTS CSICap, OSCCap     \* symbols held at most (256 and 1024 bytes)

Stripper == [state |-> "normal", pending |-> <<>>, out |-> <<>>]

Pass(s) == [Stripper EXCEPT !.out = s]
Hold(st, s) == [state |-> st, pending |-> s, out |-> <<>>]

Body(s) == IF s[1] = "ESC" THEN SubSeq(s, 3, Len(s)) ELSE Tail(s)

Numbers == {"0", "1", "2", "4", "5", "6", "14", "16", "18", "19", "996", "1049"}
Numeric(p) == ToSet(p) \subseteq Numbers

(* The parameters of each query, by final byte. *)
isCSIQuery(s) ==
  LET p == Front(Body(s)) IN
  CASE Last(s) = "c" -> p \in {<<>>, <<"0">>, <<"?">>, <<">">>, <<"=">>}
    [] Last(s) = "n" ->
         p \in {<<"5">>, <<"6">>} \/ (Len(p) >= 2 /\ p[1] = "?" /\ Numeric(Tail(p)))
    [] Last(s) = "q" -> p = <<">">>
    [] Last(s) = "t" -> p \in {<<"14">>, <<"16">>, <<"18">>, <<"19">>}
    [] Last(s) = "p" -> Len(p) >= 3 /\ p[1] = "?" /\ Last(p) = "$" /\ Numeric(Front(Tail(p)))
    [] Last(s) = "u" -> p = <<"?">>
    [] OTHER -> FALSE

(* A slip: a colour that is set is taken for a query. *)
isOSCQueryOrSet(s) ==
  LET b == Body(s) IN Len(b) > 2 /\ b[1] \in {"4", "10", "11", "12"} /\ b[2] = ";"

(* One of the queried numbers, and a field after it that is just "?". *)
isOSCQuery(s) ==
  LET b == Body(s) IN
  /\ Len(b) > 2 /\ b[1] \in {"4", "10", "11", "12"} /\ b[2] = ";"
  /\ \E i \in 3 .. Len(b) : b[i] = "?" /\ b[i - 1] = ";" /\ (i = Len(b) \/ b[i + 1] = ";")

Capped(st, s, cap) == IF Len(s) > cap THEN Pass(s) ELSE Hold(st, s)
Ends(query, s) == Pass(IF query THEN <<>> ELSE s)

FeedNormal(b) ==
  CASE b = "ENQ" -> Pass(<<>>)
    [] b = "ESC" -> Hold("esc", <<b>>)
    [] b = "9b" -> Hold("csi", <<b>>)
    [] b = "9d" -> Hold("osc", <<b>>)
    [] OTHER -> Pass(<<b>>)

FeedEsc(b) ==
  CASE b = "[" -> Hold("csi", <<"ESC", b>>)
    [] b = "]" -> Hold("osc", <<"ESC", b>>)
    [] b = "ENQ" -> Pass(<<"ESC">>)
    [] OTHER -> Pass(<<"ESC", b>>)

FeedCSI(s) == IF Last(s) \in Final THEN Ends(isCSIQuery(s), s) ELSE Capped("csi", s, CSICap)

FeedOSC(s, b) ==
  CASE b \in {"BEL", "9c"} -> Ends(isOSCQuery(s), Append(s, b))
    [] b = "ESC" -> Hold("oscEsc", s)
    [] OTHER -> Capped("osc", Append(s, b), OSCCap)

(* A slip: a string that ends in ESC \ is not looked at. *)
FeedOSCEscPasses(s, b) == [FeedEsc(b) EXCEPT !.out = s \o @]

(* Anything but a backslash: the string is let through, the escape is new. *)
FeedOSCEsc(s, b) ==
  IF b = "\\" THEN Ends(isOSCQuery(s), s \o <<"ESC", "\\">>)
  ELSE [FeedEsc(b) EXCEPT !.out = s \o @]

Feed(q, b) ==
  CASE q.state = "normal" -> FeedNormal(b)
    [] q.state = "esc" -> FeedEsc(b)
    [] q.state = "csi" -> FeedCSI(Append(q.pending, b))
    [] q.state = "osc" -> FeedOSC(q.pending, b)
    [] q.state = "oscEsc" -> FeedOSCEsc(q.pending, b)
=============================================================================
