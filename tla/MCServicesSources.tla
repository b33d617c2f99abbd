-------------------------- MODULE MCServicesSources --------------------------
(***************************************************************************)
(* The three services with signals of the strategies, or with the demo's   *)
(* publisher beside them; a behaviour has one of the two sources.          *)
(***************************************************************************)
EXTENDS MCServices

VARIABLE source \* where the signals of this behaviour come from

SourcesInit == source \in {"strategies", "demo"} /\ Init

SourcesNext ==
    /\ Next
    /\ UNCHANGED source
    /\ source = "strategies" => UNCHANGED demo
    /\ source = "demo" => received' \subseteq DemoSignals

SourcesSpec == SourcesInit /\ [][SourcesNext]_<<vars, source>> /\ WF_vars(ExecStep)
=============================================================================
