------------------------------- MODULE MCPrioList -------------------------------
(***************************************************************************)
(* An instance of PrioList for TLC: three threads and four nodes, two of   *)
(* them with equal requests.                                               *)
(***************************************************************************)
EXTENDS PrioList, TLC

CONSTANTS n1, n2, n3, n4

Requests == n1 :> 1 @@ n2 :> 2 @@ n3 :> 2 @@ n4 :> 3
=================================================================================
