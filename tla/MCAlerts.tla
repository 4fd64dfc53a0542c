------------------------------ MODULE MCAlerts ------------------------------
(* One thread that sends alerts; the monitor stays in its initial state.     *)
EXTENDS Watchdog

AlertsOnly ==
    /\ AlertInit /\ WatchInit
    /\ [][AlertNext /\ UNCHANGED watchVars]_<<alertVars, watchVars>>
=============================================================================
