-------------------------- MODULE MCBalancerEngine --------------------------
(* HAProxy specs, an nginx spec with a host name, and the nginx spec without *)
(* a pool.                                                                   *)
EXTENDS BalancerEngine, TLC

CONSTANTS h1, h2, b1, n1, n2

MCEngineOf == [s \in Specs |-> IF s \in {h1, h2, b1} THEN "haproxy" ELSE "nginx"]
MCResolutions ==
  [s \in Specs |-> IF s \in {h1, h2, b1} THEN {0} ELSE IF s = n1 THEN {1} ELSE {}]
=============================================================================
