----------------------------- MODULE MCConnector -----------------------------
(* Connector for TLC: h1 and h2 have equal params and h3 has its own; so    *)
(* have the advertisers a1, a2 and a3.                                      *)
EXTENDS Connector

CONSTANTS h1, h2, h3, a1, a2, a3, q1, q2

MCParamsOf ==
    [h \in Subscribers \cup Advertisers |-> IF h \in {h3, a3} THEN q2 ELSE q1]
=============================================================================
