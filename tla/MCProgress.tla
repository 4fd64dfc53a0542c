----------------------------- MODULE MCProgress -----------------------------
(* Small instances for the liveness properties. The components share no       *)
(* state, so a behaviour is one component's: the one that focus names moves,  *)
(* with the fairness its module states, and the others stay in one of their   *)
(* initial states.                                                            *)
EXTENDS Dispatcher, Pipeline, ParallelCycle, EngineCooldown, TicketClaims, Orchestrator,
        Watchdog, LogWatch, TLC

CONSTANTS t1, t2

VARIABLE focus

MCTypeOf == (t1 :> "investigate") @@ (t2 :> "investigate")
MCPriorityOf == (t1 :> 1) @@ (t2 :> 0)
MCBase == [investigate |-> 1, develop |-> 1]
MCProfiles == {MCBase}
MCTeamOf == ("m1" :> "A") @@ ("m2" :> "A")
MCOwnerOf == "t" :> "A"
MCCoolFor == [rate_limited |-> 3, monthly_exhausted |-> 4, down |-> 2]
MCProbeFor == [rate_limited |-> 1, monthly_exhausted |-> 4, down |-> 2, recovering |-> 1]
MCFileOf == "e" :> "g"
MCSeverityOf == "e" :> 1
MCDependsOn == ("x" :> {}) @@ ("y" :> {"x"}) @@ ("z" :> {"x", "y"})

Parts == {"dispatcher", "pipeline", "parallel", "cooldown", "checkout", "orchestrator",
          "monitor", "blocked"}

PartsInit ==
    /\ focus \in Parts
    /\ DispatcherInit /\ Init /\ ParallelInit /\ CoolInit /\ ClaimsInit
    /\ LockInit /\ OrchInit /\ AlertInit /\ WatchInit /\ LogInit /\ DepInit
    /\ focus # "parallel" => \A t \in PTicket : ~obj[t].rep
    /\ focus # "orchestrator" => ~pass.dry /\ ~pass.teams
    /\ focus # "monitor" => \A t \in WTicket : ~wtab[t].regressed
    /\ \A t \in CTicket : trow[t].who = Nobody
    /\ \A l \in Limiters, k \in Alert : since[l][k] = 0

PartsNext ==
    /\ UNCHANGED <<focus, claimVars, alertVars, logVars>>
    /\ IF focus = "dispatcher" THEN DispatcherNext ELSE UNCHANGED dispatchVars
    /\ IF focus = "pipeline" THEN Next ELSE UNCHANGED pipeVars
    /\ IF focus = "parallel" THEN ParallelNext ELSE UNCHANGED parVars
    /\ IF focus = "cooldown" THEN CoolNext ELSE UNCHANGED coolVars
    /\ IF focus = "checkout" THEN LockNext ELSE UNCHANGED lockVars
    /\ IF focus = "orchestrator" THEN OrchNext ELSE UNCHANGED orchVars
    /\ IF focus = "monitor" THEN WatchNext ELSE UNCHANGED watchVars
    /\ IF focus = "blocked" THEN DepNext ELSE UNCHANGED depVars

partsVars == <<focus, dispatchVars, pipeVars, parVars, coolVars, claimVars, lockVars,
               orchVars, alertVars, watchVars, logVars, depVars>>

(* The fairness of the component that moves, as its module states it.         *)
DispatcherGoesOn ==
    /\ \A w \in Worker :
         /\ WF_dispatchVars(focus = "dispatcher" /\ \E k \in Kind, ty \in Type : Call(w, k, ty))
         /\ WF_dispatchVars(focus = "dispatcher" /\ WorkerStep(w))
         /\ \A i \in 1..MaxTasks : WF_dispatchVars(
               focus = "dispatcher" /\ \E o \in {"success", "failure"} : RunEnds(w, i, o))
         /\ \A t \in Task : WF_dispatchVars(focus = "dispatcher" /\ HeartbeatRound(w, t))
    /\ WF_dispatchVars(focus = "dispatcher" /\ TimePasses)

PipelineGoesOn ==
    /\ WF_pipeVars(focus = "pipeline" /\ StartCycle)
    /\ WF_pipeVars(focus = "pipeline" /\ Maintain)
    /\ WF_pipeVars(focus = "pipeline" /\ TriageStep)
    /\ WF_pipeVars(focus = "pipeline" /\ Investigate)
    /\ WF_pipeVars(focus = "pipeline" /\ Develop)
    /\ WF_pipeVars(focus = "pipeline" /\ Rethink)
    /\ WF_pipeVars(focus = "pipeline" /\ Review)
    /\ \A t \in Ticket : SF_pipeVars(focus = "pipeline" /\ StaleRound(t, TRUE))

ParallelGoesOn ==
    /\ WF_parVars(focus = "parallel" /\ RunnerInvestigates)
    /\ WF_parVars(focus = "parallel" /\ RunnerDevelops)
    /\ \A j \in Job : /\ WF_parVars(focus = "parallel" /\ PoolThread(j))
                      /\ WF_parVars(focus = "parallel" /\ DeferredRelease(j))
    /\ \A t \in PTicket : WF_parVars(focus = "parallel" /\ DropEntry(t))

CooldownGoesOn ==
    /\ WF_coolVars(focus = "cooldown" /\ CoolTick)
    /\ WF_coolVars(focus = "cooldown" /\ RunnerProbes)
    /\ WF_coolVars(focus = "cooldown" /\ \E ok \in BOOLEAN : RunnerChecked(ok))
    /\ SF_coolVars(
          focus = "cooldown" /\ (RunnerChecked(TRUE) \/ \E w \in CoolWorker : Asked(w, TRUE)))
    /\ \A w \in CoolWorker : WF_coolVars(focus = "cooldown" /\ \E ok \in BOOLEAN : Asked(w, ok))

OthersGoOn ==
    /\ WF_lockVars(focus = "checkout" /\ LockTick)
    /\ \A m \in Machine : WF_lockVars(
          focus = "checkout" /\ (ReleaseCheckout(m) \/ MachineDies(m)))
    /\ WF_orchVars(focus = "orchestrator" /\ OrchStep)
    /\ WF_orchVars(focus = "orchestrator" /\ OrchHourPasses)
    /\ WF_watchVars(focus = "monitor" /\ Monitor)
    /\ WF_watchVars(focus = "monitor" /\ WatchTick)
    /\ \A t \in DepTicket : /\ WF_depVars(focus = "blocked" /\ TakeReady(t))
                            /\ WF_depVars(focus = "blocked" /\ EndWork(t))
                            /\ WF_depVars(focus = "blocked" /\ ResetBlocked(t))
    /\ WF_depVars(focus = "blocked" /\ DepHour)

PartsFairness ==
    DispatcherGoesOn /\ PipelineGoesOn /\ ParallelGoesOn /\ CooldownGoesOn /\ OthersGoOn

PartsSpec == PartsInit /\ [][PartsNext]_partsVars /\ PartsFairness
=============================================================================
