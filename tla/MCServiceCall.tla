---------------------------- MODULE MCServiceCall ----------------------------
(* ServiceCall for TLC: two handlers and two services; the first handler    *)
(* makes two calls of one service, which two nodes offer, with two types.   *)
EXTENDS ServiceCall

CONSTANTS c1, c2, s1, s2, k1, k2, k3, t1, t2

MCHandlerOf == [k \in Calls |-> IF k = k3 THEN c2 ELSE c1]
MCServiceOf == [k \in Calls |-> IF k = k3 THEN s2 ELSE s1]
MCTypeOf == [k \in Calls |-> IF k = k2 THEN t2 ELSE t1]
MCServiceType == [s \in Services |-> t1]
MCServers == [s \in Services |-> IF s = s1 THEN 2 ELSE 1]
=============================================================================
