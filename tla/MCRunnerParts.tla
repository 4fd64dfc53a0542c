---------------------------- MODULE MCRunnerParts ----------------------------
(* Small instances of the parts around the runner's cycle. They share no      *)
(* state, so a behaviour is one part's: the part that focus names moves, the  *)
(* others stay in one of their initial states.                                *)
EXTENDS ParallelCycle, Scheduler, TicketClaims, CycleGates, EngineCooldown,
        GitHubSync, Sessions, Watchdog, LogWatch, TLC

CONSTANTS i, d

VARIABLE focus

MCBase == [investigate |-> 2, develop |-> 1]
MCProfiles == {MCBase, [investigate |-> 1, develop |-> 2]}
MCJobKind == "j1" :> "interval"
MCPriority == "j1" :> "normal"
MCTeamOf == ("m1" :> "A") @@ ("m2" :> "A") @@ ("m3" :> "B")
MCOwnerOf == "t" :> "A"
MCFallbacks == <<"m2", "m1">>
MCCoolFor == [rate_limited |-> 3, monthly_exhausted |-> 4, down |-> 2]
MCProbeFor == [rate_limited |-> 1, monthly_exhausted |-> 4, down |-> 2, recovering |-> 1]
MCRoleOf == (i :> "investigator") @@ (d :> "developer")
MCStages == <<"known", "none", "known">>
MCFileOf == ("e" :> "g") @@ ("f" :> "g")
MCSeverityOf == ("e" :> 1) @@ ("f" :> 0)
MCDependsOn == ("x" :> {}) @@ ("y" :> {"x"}) @@ ("z" :> {"x", "y"})

Parts == {"parallel", "scheduler", "claims", "checkout", "gates", "cooldown", "github",
          "breaker", "sessions", "stages", "alerts", "monitor", "logs", "blocked"}

PartsInit ==
    /\ focus \in Parts
    /\ ParallelInit /\ SchedInit /\ ClaimsInit /\ LockInit /\ GatesInit /\ CoolInit
    /\ GitHubInit /\ BreakerInit /\ SessionsInit /\ StagesInit /\ AlertInit /\ WatchInit
    /\ LogInit /\ DepInit
    /\ focus # "parallel" => \A t \in PTicket : ~obj[t].rep
    /\ focus # "claims" => \A t \in CTicket : trow[t].who = Nobody
    /\ focus # "gates" => probe.up = {}
    /\ focus # "sessions" => engine = "claude"
    /\ focus # "alerts" => \A l \in Limiters, k \in Alert : since[l][k] = 0
    /\ focus # "monitor" => \A t \in WTicket : ~wtab[t].regressed

PartsNext ==
    /\ UNCHANGED focus
    /\ IF focus = "parallel" THEN ParallelNext ELSE UNCHANGED parVars
    /\ IF focus = "scheduler" THEN SchedNext ELSE UNCHANGED schedVars
    /\ IF focus = "claims" THEN ClaimsNext ELSE UNCHANGED claimVars
    /\ IF focus = "checkout" THEN LockNext ELSE UNCHANGED lockVars
    /\ IF focus = "gates" THEN GatesNext ELSE UNCHANGED gateVars
    /\ IF focus = "cooldown" THEN CoolNext ELSE UNCHANGED coolVars
    /\ IF focus = "github" THEN GitHubNext ELSE UNCHANGED ghVars
    /\ IF focus = "breaker" THEN BreakerNext ELSE UNCHANGED ghBreakerVars
    /\ IF focus = "sessions" THEN SessionsNext ELSE UNCHANGED sessVars
    /\ IF focus = "stages" THEN StagesNext ELSE UNCHANGED stageVars
    /\ IF focus = "alerts" THEN AlertNext ELSE UNCHANGED alertVars
    /\ IF focus = "monitor" THEN WatchNext ELSE UNCHANGED watchVars
    /\ IF focus = "logs" THEN LogNext ELSE UNCHANGED logVars
    /\ IF focus = "blocked" THEN DepNext ELSE UNCHANGED depVars

partsVars == <<focus, parVars, schedVars, claimVars, lockVars, gateVars, coolVars, ghVars,
               ghBreakerVars, sessVars, stageVars, alertVars, watchVars, logVars, depVars>>

PartsSpec == PartsInit /\ [][PartsNext]_partsVars

(* The part that moves keeps its state within the types its module gives, and *)
(* keeps what it promises about that state: the circuit breaker's window and  *)
(* pause are those of the last attempts, a provider counts as normal only     *)
(* after enough successes since its last complaint, no client gets more       *)
(* requests through than a window allows, the gh command is not run before    *)
(* the pause of its breaker is over, a pipeline of stages reports what its    *)
(* stages did, and an error in the logs has one ticket that is open.          *)
RunnerPartsSound ==
    CASE focus = "parallel" -> ParallelTypeOK
      [] focus = "scheduler" -> SchedTypeOK
      [] focus = "claims" -> ClaimTypeOK
      [] focus = "checkout" -> LockTypeOK
      [] focus = "gates" ->
            GatesTypeOK /\ BreakerIsExact /\ RecoveryIsEarned /\ RequestsAreLimited
      [] focus = "cooldown" -> CoolTypeOK
      [] focus = "github" -> GitHubTypeOK
      [] focus = "breaker" -> BreakerTypeOK /\ NoEarlyRetry
      [] focus = "sessions" -> SessionsTypeOK
      [] focus = "stages" -> StagesTypeOK /\ PipelineIsHonest
      [] focus = "alerts" -> AlertTypeOK
      [] focus = "monitor" -> WatchTypeOK
      [] focus = "logs" -> LogTypeOK /\ OneTicketPerError
      [] focus = "blocked" -> DepTypeOK
=============================================================================
