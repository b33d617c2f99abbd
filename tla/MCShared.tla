------------------------------ MODULE MCShared ------------------------------
(***************************************************************************)
(* State that several tasks of one process share, on small instances: the  *)
(* Position_Engine of the fill and the tick task, the gateway's join       *)
(* buffer, the broker router.  As in MCPlatform a behaviour follows one of *)
(* them, chosen at the start.                                              *)
(***************************************************************************)
EXTENDS MCPosition, UiGateway, BrokerRouter

VARIABLE part \* the part this behaviour follows

SharedInit == part \in {"position", "gateway", "router"} /\ Init /\ GwInit /\ RouterInit

SharedNext ==
    /\ UNCHANGED part
    /\ IF part = "position" THEN Next ELSE UNCHANGED vars
    /\ IF part = "gateway" THEN GwNext ELSE UNCHANGED gwVars
    /\ IF part = "router" THEN RouterNext ELSE UNCHANGED routerVars

SharedVars == <<part, vars, gwVars, routerVars>>

SharedSpec == SharedInit /\ [][SharedNext]_SharedVars
=============================================================================
