------------------------------ MODULE MCRosapi ------------------------------
(***************************************************************************)
(* Rosapi for TLC: two nodes whose joined names are the same and one other;*)
(* a publisher and a subscription of one node on one topic, with different *)
(* types, and a publisher of the second node on another; a service offered *)
(* by two nodes with different types.                                      *)
(***************************************************************************)
EXTENDS Rosapi, TLC

CONSTANTS n1, n2, n3, e1, e2, e3, e4, e5, t1, t2, x1, x2

MCKindOf == e1 :> "publisher" @@ e2 :> "subscription" @@ e3 :> "publisher"
            @@ e4 :> "service" @@ e5 :> "service"
MCNodeOf == e1 :> n1 @@ e2 :> n1 @@ e3 :> n2 @@ e4 :> n1 @@ e5 :> n3
MCNameOf == e1 :> t1 @@ e2 :> t1 @@ e3 :> t2 @@ e4 :> t1 @@ e5 :> t1
MCTypeOf == e1 :> x1 @@ e2 :> x2 @@ e3 :> x2 @@ e4 :> x1 @@ e5 :> x2
MCJoined == n1 :> 1 @@ n2 :> 1 @@ n3 :> 2
=============================================================================
