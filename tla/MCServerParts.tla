---------------------------- MODULE MCServerParts ----------------------------
(* Small instances of the servers and of the processes beside the runner.     *)
(* They share no state, so a behaviour is one part's: the part that focus     *)
(* names moves, the others stay in one of their initial states.               *)
EXTENDS Dashboard, Orchestrator, Accounts, Budgets, ConfigFile, ControlPlane,
        AgentNetwork, Governor, TLC

VARIABLE focus

MCFamilyOf == ("o" :> "opus") @@ ("s" :> "sonnet")
MCRate == [opus |-> 3, sonnet |-> 1, haiku |-> 1, default |-> 1]
MCLimitChoices == {[daily |-> 2, monthly |-> 5, alert |-> 50, stop |-> TRUE],
                   [daily |-> 0, monthly |-> 3, alert |-> 50, stop |-> FALSE]}
MCDefaultLimits == [daily |-> 4, monthly |-> 6, alert |-> 80, stop |-> TRUE]
MCFirstConfig ==
    [s \in {"repos", "agents", "teams", "fallback_agents", "settings", "list"} |->
        IF s = "list" THEN <<>> ELSE <<[name |-> "p", value |-> 0]>>]
MCTiers == {[pct |-> 50, agents |-> 2, floor |-> 0, allow |-> TRUE],
            [pct |-> 10, agents |-> 1, floor |-> 3, allow |-> FALSE]}
MCOperatorRules == {[name |-> "a", mult |-> 30, prec |-> 2], [name |-> "b", mult |-> 5, prec |-> 2]}
MCBands == <<[from |-> 1, to |-> 2, mult |-> 30]>>

Parts == {"dashboard", "orchestrator", "accounts", "budgets", "config", "plane", "network",
          "registry", "governor"}

PartsInit ==
    /\ focus \in Parts
    /\ DashInit /\ OrchInit /\ AccountsInit /\ BudgetsInit /\ FilesInit /\ PlaneInit
    /\ NetInit /\ RegistryInit /\ GovernorInit
    /\ focus # "dashboard" => \A t \in TicketId : ~mem[t].fix
    /\ focus # "orchestrator" => ~pass.dry /\ ~pass.teams

PartsNext ==
    /\ UNCHANGED focus
    /\ IF focus = "dashboard" THEN DashNext ELSE UNCHANGED dashVars
    /\ IF focus = "orchestrator" THEN OrchNext ELSE UNCHANGED orchVars
    /\ IF focus = "accounts" THEN AccountsNext ELSE UNCHANGED acctVars
    /\ IF focus = "budgets" THEN BudgetsNext ELSE UNCHANGED budgetVars
    /\ IF focus = "config" THEN FilesNext ELSE UNCHANGED fileVars
    /\ IF focus = "plane" THEN PlaneNext ELSE UNCHANGED cpVars
    /\ IF focus = "network" THEN NetNext ELSE UNCHANGED netVars
    /\ IF focus = "registry" THEN RegistryNext ELSE UNCHANGED regVars
    /\ IF focus = "governor" THEN GovernorNext ELSE UNCHANGED govVars

partsVars == <<focus, dashVars, orchVars, acctVars, budgetVars, fileVars, cpVars, netVars,
               regVars, govVars>>

PartsSpec == PartsInit /\ [][PartsNext]_partsVars

(* The part that moves keeps its state within the types its module gives, and *)
(* keeps what it promises about that state: changes the dashboard answered    *)
(* with ok are in its file, the first person to log in and nobody else is an  *)
(* administrator unasked, all views of the token log add up to the same sum,  *)
(* names in the configuration are unique, no A2A adapter runs a message       *)
(* twice, an agent chosen from the registry was alive lately, and the         *)
(* governor stops near its quota and lets a reduction win over a boost.       *)
ServerPartsSound ==
    CASE focus = "dashboard" -> DashTypeOK /\ AnsweredIsSaved
      [] focus = "orchestrator" -> OrchTypeOK
      [] focus = "accounts" -> AccountsTypeOK /\ OneFirstAdmin
      [] focus = "budgets" -> BudgetsTypeOK /\ ViewsAddUp
      [] focus = "config" -> FilesTypeOK /\ NamesAreUnique
      [] focus = "plane" -> PlaneTypeOK
      [] focus = "network" -> NetTypeOK /\ OneRunPerServer
      [] focus = "registry" -> RegistryTypeOK /\ ChosenWasAlive
      [] focus = "governor" -> GovernorTypeOK /\ QuotaIsKept /\ ReductionWins
=============================================================================
