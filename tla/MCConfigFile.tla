---------------------------- MODULE MCConfigFile ----------------------------
(* Two handler threads of the dashboard server on a small swe_team.yaml.     *)
EXTENDS ConfigFile

MCFirstConfig ==
    [s \in {"repos", "agents", "teams", "fallback_agents", "settings", "list"} |->
        IF s = "list" THEN <<>> ELSE <<[name |-> "p", value |-> 0]>>]
=============================================================================
