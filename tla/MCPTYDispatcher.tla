--------------------------- MODULE MCPTYDispatcher ---------------------------
(* An attach and a stream share a queue of one closure, so that senders     *)
(* block, and the chunks overflow a channel of one; or, an attach and two   *)
(* resizes, one after the other or at once; or, input and a paste for a     *)
(* child that asks and switches modes, on a line of one unit.               *)
EXTENDS PTYDispatcher

CONSTANTS v1, s1, z1, z2, w1, p1

MCViewers == {v1}
MCStreams == {s1}
MCResizers == {z1, z2}
MCWriters == {w1, p1}
MCPasters == {p1}
MCCasts ==
  LET text == {"text"}
      asks == {"query", "mode"}
  IN {<<{v1, s1}, <<text, text, text>>>>, <<{v1, z1, z2}, <<text, text>>>>,
      <<{w1, p1}, <<asks, asks>>>>}
=============================================================================
