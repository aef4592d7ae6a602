--------------------------- MODULE PrimaryFilter ---------------------------
(* vtPrimaryScreenFilter (src/vtprimary_filter.go): what the mirror of the   *)
(* primary screen is given.                                                 *)
EXTENDS QueryStripper

Filter == [inAlt |-> FALSE, state |-> "normal", pending |-> <<>>, out |-> <<>>]

Visible(f, s) == [Filter EXCEPT !.inAlt = f.inAlt, !.out = IF f.inAlt THEN <<>> ELSE s]
Held(f, st, s) == [inAlt |-> f.inAlt, state |-> st, pending |-> s, out |-> <<>>]

(* A slip: only a mode that stands alone is noticed. *)
csiAltScreenAlone(s) ==
  LET b == Body(s) IN
  Len(b) = 3 /\ Last(b) \in {"h", "l"} /\ b[1] = "?" /\ b[2] \in {"47", "1047", "1049"}

csiAltScreenMode(s) ==
  LET b == Body(s) IN
  /\ Len(b) >= 3 /\ Last(b) \in {"h", "l"} /\ b[1] = "?"
  /\ \E i \in 2 .. Len(b) - 1 : b[i] \in {"47", "1047", "1049"}

FilterFeed(f, b) ==
  LET s == Append(f.pending, b) IN
  CASE f.state = "normal" ->
         IF b \in {"ESC", "9b"} THEN Held(f, IF b = "ESC" THEN "esc" ELSE "csi", <<b>>)
         ELSE Visible(f, <<b>>)
    [] f.state = "esc" -> IF b = "[" THEN Held(f, "csi", s) ELSE Visible(f, s)
    [] f.state = "csi" /\ b \in Final ->
         IF csiAltScreenMode(s) THEN [Filter EXCEPT !.inAlt = (b = "h")] ELSE Visible(f, s)
    [] f.state = "csi" /\ b \notin Final ->
         IF Len(s) > CSICap THEN Visible(f, s) ELSE Held(f, "csi", s)
=============================================================================
