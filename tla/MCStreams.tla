------------------------------ MODULE MCStreams ------------------------------
(***************************************************************************)
(* The long-running loops at the platform's edges, on small instances: the *)
(* two session controllers, the market-data adapters and the gateway's     *)
(* connections.  As in MCPlatform a behaviour follows one of them, chosen  *)
(* at the start.                                                           *)
(***************************************************************************)
EXTENDS Session, MarketData, UiGateway

VARIABLE part \* the part this behaviour follows

StreamsInit ==
    /\ part \in {"session", "market", "gateway"}
    /\ SesInit /\ MdInit /\ GwInit
    /\ part = "session" \/ clock = 0

StreamsNext ==
    /\ UNCHANGED part
    /\ IF part = "session" THEN SesNext ELSE UNCHANGED sesVars
    /\ IF part = "market" THEN MdNext ELSE UNCHANGED mdVars
    /\ IF part = "gateway" THEN GwNext ELSE UNCHANGED gwVars

StreamsVars == <<part, sesVars, mdVars, gwVars>>

\* Each part's own fairness. Connected adapters and a gateway without clients owe
\* no step; the controllers' fairness is for the part that runs.
StreamsFairness ==
    /\ WF_sesVars(part = "session" /\ WallClock) /\ WF_sesVars(part = "session" /\ Restart)
    /\ \A c \in Controllers : WF_sesVars(part = "session" /\ Turn(c))
    /\ MdFairness /\ GwFairness

StreamsSpec == StreamsInit /\ [][StreamsNext]_StreamsVars /\ StreamsFairness

-----------------------------------------------------------------------------
(* Values of the constants. *)

\* Pre-open war window inside the trading session.
WarHours == <<1, 3>>
SessionHours == <<1, 5>>

\* One of the two symbols has a sector and a previous close.
OneSector == [i \in {1} |-> "it"]
OneClose == [i \in {1} |-> 1]
=============================================================================
