------------------------------ MODULE MCServe ------------------------------
(* Two handlers in each other's way: one bridges to k1, one proxies to k2;  *)
(* both may create k2, and one proxies to k1 as well.  k1 is up, or was     *)
(* never there.                                                             *)
EXTENDS Serve

CONSTANTS h1, h2, k1, k2

MCRequests ==
  {<<h1, "bridge", k1>>, <<h1, "create", k2>>, <<h2, "proxy", k1>>, <<h2, "proxy", k2>>,
   <<h2, "create", k2>>}

MCInit ==
  /\ Init
  /\ <<relative, long>> \in {<<FALSE, TRUE>>, <<FALSE, FALSE>>, <<TRUE, FALSE>>}
  /\ \E s \in {"up", "none"} :
       ss = [k \in Keys |-> Session(IF k = k1 THEN s ELSE "none")]

MCSpec == MCInit /\ [][Next]_vars /\ Fairness
=============================================================================
