---------------------------- MODULE Orchestrator ----------------------------
(***************************************************************************)
(* swe_orchestrator.py: one pass takes its findings from the ticket table  *)
(* and from GitHub, then repairs what it found item by item, while the     *)
(* machines' runners go on.  The evidence of a finding is not read again   *)
(* before the repair: a repair writes over whatever a row holds by then.   *)
(***************************************************************************)
EXTENDS Naturals, FiniteSets, FiniteSetsExt

CONSTANTS
    OTicket, Feature,   \* tickets, and those _is_feature_ticket takes for features
    Vm, Bot, OIssue,    \* machines, bot accounts, unassigned GitHub issues
    StuckHours,         \* stuck_ticket_hours, in ticks
    MaxHours,           \* bound: ages are counted up to here
    Exhausted,          \* dev_attempts of a ticket that is given up (3)
    CascadeMin,         \* failures that make a cascade (3), CascadeSpan apart at most
    CascadeSpan,
    MaxLoad,            \* bound: active tickets of a team
    AssignCap,          \* _MAX_ASSIGNMENTS_PER_CYCLE
    MaxFiled,           \* bound: issues filed about cascades
    OPatchFails         \* requests to Supabase and GitHub may fail

VARIABLES
    otab,     \* rows of swe_tickets: status, hours since the update, attempts, link
    issue,    \* GitHub issues: the bots they are assigned to
    filed,    \* open issues that the orchestrator filed about a cascade
    cycling,     \* machines that run a cycle
    pass,     \* the pass: its phase, its flags and the evidence of its findings
    asg       \* assign_issues_to_idle_agents: loads as the loop counts them

orchVars == <<otab, issue, filed, cycling, pass, asg>>

Active == {"open", "triaged", "investigating", "in_development"}
Done == {"closed", "resolved", "failed"}
NoEvidence == [stuck |-> {}, desync |-> {}, idle |-> FALSE, starved |-> FALSE,
               cascade |-> FALSE, unassigned |-> {}, vms |-> {}]
NoLoads == [start |-> [b \in Bot |-> 0], base |-> [b \in Bot |-> 0], cycle |-> [b \in Bot |-> 0]]

OrchTypeOK ==
    /\ \A t \in OTicket : otab[t].age \in 0..MaxHours /\ otab[t].att \in 0..Exhausted
    /\ \A i \in OIssue : issue[i] \subseteq Bot
    /\ cycling \subseteq Vm /\ filed \in 0..MaxFiled
    /\ pass.at \in {"sleep", "assign", "fix", "loop", "file"}

OrchInit ==
    /\ otab = [t \in OTicket |-> [st |-> "open", age |-> 0, att |-> 0, link |-> TRUE]]
    /\ issue = [i \in OIssue |-> {}] /\ filed = 0 /\ cycling = {}
    /\ \E dry, teams \in BOOLEAN :
         pass = [at |-> "sleep", dry |-> dry, teams |-> teams, ev |-> NoEvidence, left |-> 0]
    /\ asg = NoLoads

-----------------------------------------------------------------------------
(* The detectors.                                                          *)

DetectIdleWithWork ==
    /\ \E t \in OTicket : otab[t].st \in {"open", "triaged"}
    /\ \A t \in OTicket : otab[t].st \notin {"investigating", "in_development"}

\* Mutant: only tickets that are being investigated can be stuck.
MutDetectStuckTickets ==
    {t \in OTicket : otab[t].st \in {"investigating"} /\ otab[t].age > StuckHours}

DetectStuckTickets ==
    {t \in OTicket : otab[t].st \in {"investigating", "in_development"} /\ otab[t].age > StuckHours}

\* The newest failures lie within two hours.
DetectFailureCascade ==
    \E S \in kSubset(CascadeMin, {t \in OTicket : otab[t].st = "failed"}) :
        /\ \A t \in OTicket \ S : otab[t].st = "failed" => \A s \in S : otab[s].age <= otab[t].age
        /\ \A s, u \in S : otab[s].age <= otab[u].age + CascadeSpan

DetectWorkStarvation == \A t \in OTicket : otab[t].st \notin Active

DetectDesync == {t \in OTicket : otab[t].link /\ otab[t].st \in Done}

DetectUnassigned == {i \in OIssue : issue[i] = {}}

\* run_all_detections; a detector whose request fails finds nothing.
OrchDetect ==
    /\ pass.at = "sleep"
    /\ LET all == [stuck |-> {<<t, otab[t].st>> : t \in DetectStuckTickets},
                   desync |-> DetectDesync, idle |-> DetectIdleWithWork,
                   starved |-> DetectWorkStarvation, cascade |-> DetectFailureCascade,
                   unassigned |-> DetectUnassigned,
                   vms |-> IF DetectIdleWithWork \/ DetectWorkStarvation THEN Vm ELSE {}]
       IN pass' = [pass EXCEPT !.at = "assign", !.ev = all]
    /\ UNCHANGED <<otab, issue, filed, cycling, asg>>

-----------------------------------------------------------------------------
\* Mutant: the issues that the distributor assigned stay in the evidence.
MutDistributed == pass.ev

\* _apply_distributor_assignments empties the evidence, whatever gh answered.
Distributed == [pass.ev EXCEPT !.unassigned = {}]

\* With teams configured, the distributor assigns each issue to its best team's
\* account; an assignment that fails is left for the next pass.
Distribute ==
    /\ pass.at = "assign"
    /\ IF pass.teams /\ pass.ev.unassigned # {}
       THEN /\ pass' = [pass EXCEPT !.at = "fix", !.ev = Distributed]
            /\ IF pass.dry THEN UNCHANGED issue
               ELSE \E ok \in SUBSET pass.ev.unassigned, b \in Bot :
                      /\ OPatchFails \/ ok = pass.ev.unassigned
                      /\ issue' = [i \in OIssue |-> IF i \in ok THEN issue[i] \cup {b} ELSE issue[i]]
       ELSE pass' = [pass EXCEPT !.at = "fix"] /\ UNCHANGED issue
    /\ UNCHANGED <<otab, filed, cycling, asg>>

\* patch_ticket writes the columns it is given; the trigger sets updated_at.
Patch(t, row) ==
    \/ ~pass.dry /\ otab' = [otab EXCEPT ![t] = row]
    \/ (pass.dry \/ OPatchFails) /\ UNCHANGED otab

\* _trigger_vm_cycle: flock lets one cycle run per machine.
TriggerVmCycle ==
    /\ pass.at = "fix" /\ pass.ev.vms # {}
    /\ \E v \in pass.ev.vms :
         /\ \/ ~pass.dry /\ cycling' = cycling \cup {v}
            \/ (pass.dry \/ OPatchFails) /\ UNCHANGED cycling
         /\ pass' = [pass EXCEPT !.ev.vms = @ \ {v}]
    /\ UNCHANGED <<otab, issue, filed, asg>>

StuckGoesTo(st) == IF st = "investigating" THEN "open" ELSE "investigation_complete"

FixStuckTicket ==
    /\ pass.at = "fix" /\ pass.ev.vms = {} /\ pass.ev.stuck # {}
    /\ \E e \in pass.ev.stuck :
         /\ Patch(e[1], [otab[e[1]] EXCEPT !.st = StuckGoesTo(e[2]), !.age = 0])
         /\ pass' = [pass EXCEPT !.ev.stuck = @ \ {e}]
    /\ UNCHANGED <<issue, filed, cycling, asg>>

\* fix_exhausted_tickets reads the table again and gives features new attempts.
FixExhaustedTickets ==
    /\ pass.at = "fix" /\ pass.ev.vms = {} /\ pass.ev.stuck = {} /\ pass.ev.starved
    /\ otab' = [t \in OTicket |->
                  IF ~pass.dry /\ t \in Feature /\ otab[t].att >= Exhausted
                     /\ otab[t].st \in {"failed", "investigation_complete"}
                  THEN [otab[t] EXCEPT !.att = 0, !.st = "investigation_complete", !.age = 0]
                  ELSE otab[t]]
    /\ pass' = [pass EXCEPT !.ev.starved = FALSE]
    /\ UNCHANGED <<issue, filed, cycling, asg>>

\* fix_github_supabase_desync replaces the metadata, the link to the issue included.
FixDesync ==
    /\ pass.at = "fix" /\ pass.ev.vms = {} /\ pass.ev.stuck = {} /\ ~pass.ev.starved
    /\ \E t \in pass.ev.desync :
         /\ Patch(t, [st |-> "open", age |-> 0, att |-> 0, link |-> FALSE])
         /\ pass' = [pass EXCEPT !.ev.desync = @ \ {t}]
    /\ UNCHANGED <<issue, filed, cycling, asg>>

\* The loads come from the finding about idle teams; without it they are zero.
BeginAssignments ==
    /\ pass.at = "fix"
    /\ pass.ev.vms = {} /\ pass.ev.stuck = {} /\ ~pass.ev.starved /\ pass.ev.desync = {}
    /\ \E load \in [Bot -> 0..MaxLoad] :
         /\ \E b \in Bot : load[b] = 0
         /\ asg' = [start |-> load, base |-> load, cycle |-> [b \in Bot |-> 0]]
    /\ pass' = [pass EXCEPT !.at = "loop", !.left = AssignCap]
    /\ UNCHANGED <<otab, issue, filed, cycling>>

\* The loop adds an assignment to the load of the cycle and to the base load.
AssignIssue ==
    /\ pass.at = "loop" /\ pass.left > 0
    /\ \E i \in pass.ev.unassigned, b \in Bot :
         /\ \A c \in Bot : asg.base[b] + asg.cycle[b] <= asg.base[c] + asg.cycle[c]
         /\ \/ /\ issue' = IF pass.dry THEN issue ELSE [issue EXCEPT ![i] = @ \cup {b}]
               /\ asg' = [asg EXCEPT !.cycle[b] = @ + 1, !.base[b] = IF pass.dry THEN @ ELSE @ + 1]
               /\ pass' = [pass EXCEPT !.ev.unassigned = @ \ {i}, !.left = @ - 1]
            \/ /\ OPatchFails /\ ~pass.dry
               /\ pass' = [pass EXCEPT !.ev.unassigned = @ \ {i}]
               /\ UNCHANGED <<issue, asg>>
    /\ UNCHANGED <<otab, filed, cycling>>

EndAssignments ==
    /\ pass.at = "loop" /\ (pass.left = 0 \/ pass.ev.unassigned = {})
    /\ pass' = [pass EXCEPT !.at = "file"] /\ asg' = NoLoads
    /\ UNCHANGED <<otab, issue, filed, cycling>>

\* create_github_issue looks for an open issue first; when the look-up fails it
\* files another one.
CreateGithubIssue ==
    /\ pass.at = "file"
    /\ \/ filed' = IF pass.ev.cascade /\ ~pass.dry /\ filed = 0 THEN 1 ELSE filed
       \/ /\ OPatchFails /\ pass.ev.cascade /\ ~pass.dry
          /\ filed' \in {filed, IF filed < MaxFiled THEN filed + 1 ELSE filed}
    /\ pass' = [pass EXCEPT !.at = "sleep", !.ev = NoEvidence, !.left = 0]
    /\ UNCHANGED <<otab, issue, cycling, asg>>

-----------------------------------------------------------------------------
(* The rest of the fleet.                                                  *)

CronStarts(v) == cycling' = cycling \cup {v} /\ v \notin cycling /\ UNCHANGED <<otab, issue, filed, pass, asg>>
CycleEnds(v) == v \in cycling /\ cycling' = cycling \ {v} /\ UNCHANGED <<otab, issue, filed, pass, asg>>

NextStatus(st) ==
    CASE st = "open" -> {"investigating"}
      [] st = "investigating" -> {"investigation_complete"}
      [] st = "investigation_complete" -> {"in_development"}
      [] st = "in_development" -> {"resolved", "failed", "investigation_complete"}
      [] OTHER -> {}

RunnerWorks(t) ==
    /\ cycling # {}
    /\ \E st \in NextStatus(otab[t].st) :
         /\ st = "in_development" => otab[t].att < Exhausted
         /\ otab' = [otab EXCEPT ![t].st = st, ![t].age = 0,
                                 ![t].att = IF st = "in_development" THEN @ + 1 ELSE @]
    /\ UNCHANGED <<issue, filed, cycling, pass, asg>>

OrchHourPasses ==
    /\ \E t \in OTicket : otab[t].age < MaxHours
    /\ otab' = [t \in OTicket |-> [otab[t] EXCEPT !.age = IF @ < MaxHours THEN @ + 1 ELSE @]]
    /\ UNCHANGED <<issue, filed, cycling, pass, asg>>

OrchStep ==
    \/ OrchDetect \/ Distribute \/ TriggerVmCycle \/ FixStuckTicket \/ FixExhaustedTickets
    \/ FixDesync \/ BeginAssignments \/ AssignIssue \/ EndAssignments \/ CreateGithubIssue

OrchNext ==
    \/ OrchStep
    \/ \E v \in Vm : CronStarts(v) \/ CycleEnds(v)
    \/ \E t \in OTicket : RunnerWorks(t)
    \/ OrchHourPasses

\* The daemon loops for ever and time passes; the runners need not run.
OrchFairness == WF_orchVars(OrchStep) /\ WF_orchVars(OrchHourPasses)

OrchSpec == OrchInit /\ [][OrchNext]_orchVars

-----------------------------------------------------------------------------
\* An issue gets one bot: what the distributor assigned is not assigned again by
\* the loop over idle agents in the same pass, nor by a later pass.
OneBotPerIssue == \A i \in OIssue : Cardinality(issue[i]) <= 1

\* A ticket that is stuck in a status is taken out of it, by its runner or by the
\* orchestrator, though nobody runs a cycle any more (not in a dry run).
StuckIsReset ==
    \A t \in OTicket :
        (otab[t].st = "in_development" /\ ~pass.dry) ~> (otab[t].st # "in_development" \/ pass.dry)
=============================================================================
