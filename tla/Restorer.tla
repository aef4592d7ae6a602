------------------------------ MODULE Restorer ------------------------------
(* hootRestorer (src/cmd/hoot/attach_restorer.go): what hoot attach infers   *)
(* about the user's terminal from the output it writes there, and undoes.   *)
EXTENDS VTTerminal

CONSTANT ObserveCap          \* symbols of a sequence looked at (32 bytes)

NewRestorer == [csiBuf |-> <<>>, kittyPops |-> 0, modifyOtherKeys |-> FALSE]

(* A slip: a pop always takes one frame. *)
parseCSIParamIgnored(p) == 1

parseCSIParamDefault(p) == IF p = <<"2">> THEN 2 ELSE 1

removeKittyKbdPop(r, n) == [r EXCEPT !.kittyPops = Less(@, n)]

observeModifyOtherKeys(r, p) ==
  IF p # <<>> /\ Field(p, 1) # <<"4">> THEN r
  ELSE [r EXCEPT !.modifyOtherKeys = (p # <<>> /\ Field(p, 2) = <<"2">>)]

observeCSI(r, s) ==
  IF Len(s) < 2 THEN r
  ELSE LET params == SubSeq(s, 2, Len(s) - 1) IN
       CASE s[1] = ">" /\ Last(s) = "u" -> [r EXCEPT !.kittyPops = @ + 1]
         [] s[1] = "<" /\ Last(s) = "u" -> removeKittyKbdPop(r, parseCSIParamDefault(params))
         [] s[1] = ">" /\ Last(s) = "m" -> observeModifyOtherKeys(r, params)
         [] OTHER -> r

(* One symbol of Observe. *)
Observe(r, b) ==
  LET s == Append(r.csiBuf, b)
      with(buf) == [r EXCEPT !.csiBuf = buf]
  IN CASE r.csiBuf = <<>> -> with(IF b = "ESC" THEN s ELSE <<>>)
       [] r.csiBuf = <<"ESC">> ->
            with(CASE b = "[" -> s [] b = "ESC" -> r.csiBuf [] OTHER -> <<>>)
       [] Len(r.csiBuf) > 1 ->
            IF Len(s) > ObserveCap THEN with(<<>>)
            ELSE IF b \in Final THEN observeCSI(with(<<>>), SubSeq(s, 3, Len(s)))
            ELSE with(s)

Observed(r, s) == FoldLeft(Observe, r, s)

(* What Cleanup does to the terminal: frames are popped before the          *)
(* alternate screen is left, the catalogue of modes follows.                *)
Cleanup(t, r) ==
  [Popped(Idle(t), r.kittyPops) EXCEPT
     !.mok = @ /\ ~r.modifyOtherKeys, !.alt = FALSE, !.text = <<"", 0>>]
=============================================================================
