-------------------------- MODULE ServerPartsProofs --------------------------
(***************************************************************************)
(* Why the processes beside the runner keep what they promise, for any     *)
(* number of threads, bots, agents, issues and items: the orchestrator's   *)
(* assignments, the dashboard's suggestions, the control plane's pause and *)
(* queue, the budgets' stop, the accounts of logins, the messages of the   *)
(* agent network and its registry, and the configuration files.            *)
(***************************************************************************)
EXTENDS Orchestrator, Dashboard, ControlPlane, Budgets, Accounts, AgentNetwork, ConfigFile,
        ListProofs

-----------------------------------------------------------------------------
(* The orchestrator: why an issue gets one bot.                             *)

\* Evidence and pass are records of these fields, whatever they hold.
EvidenceShape(v) ==
    v = [stuck |-> v.stuck, desync |-> v.desync, idle |-> v.idle, starved |-> v.starved,
         cascade |-> v.cascade, unassigned |-> v.unassigned, vms |-> v.vms]
PassShape(p) ==
    /\ p = [at |-> p.at, dry |-> p.dry, teams |-> p.teams, ev |-> p.ev, left |-> p.left]
    /\ EvidenceShape(p.ev)

\* The evidence names only issues that still have no bot, although it is not
\* read again: nobody else assigns, and each branch takes out what it assigns.
UnassignedIsCurrent ==
    /\ issue \in [OIssue -> SUBSET Bot] /\ PassShape(pass)
    /\ pass.ev.unassigned \subseteq OIssue
    /\ \A i \in pass.ev.unassigned : issue[i] = {}
    /\ \A i \in OIssue : issue[i] = {} \/ \E b \in Bot : issue[i] = {b}

\* A pass whose evidence of issues shrinks and whose assignments do not change.
LEMMA EvidenceShrinks ==
    ASSUME UnassignedIsCurrent, issue' = issue, PassShape(pass)',
           pass'.ev.unassigned \subseteq pass.ev.unassigned
    PROVE  UnassignedIsCurrent'
BY DEF UnassignedIsCurrent

\* Every step keeps the evidence current.
LEMMA UnassignedNext == UnassignedIsCurrent /\ [OrchNext]_orchVars => UnassignedIsCurrent'
<1> SUFFICES ASSUME UnassignedIsCurrent, [OrchNext]_orchVars PROVE UnassignedIsCurrent'
    OBVIOUS
<1>s. PassShape(pass) /\ issue \in [OIssue -> SUBSET Bot]
    BY DEF UnassignedIsCurrent
<1>0. CASE UNCHANGED <<issue, pass>>
    BY <1>0 DEF UnassignedIsCurrent, PassShape, EvidenceShape
<1>1. CASE OrchDetect
  <2> DEFINE st == {<<t, otab[t].st>> : t \in DetectStuckTickets}
             vs == IF DetectIdleWithWork \/ DetectWorkStarvation THEN Vm ELSE {}
             id == DetectIdleWithWork
             sv == DetectWorkStarvation
             ca == DetectFailureCascade
             ds == DetectDesync
             all == [stuck |-> st, desync |-> ds, idle |-> id, starved |-> sv, cascade |-> ca,
                     unassigned |-> DetectUnassigned, vms |-> vs]
  <2>1. pass' = [pass EXCEPT !.at = "assign", !.ev = all] /\ issue' = issue
    BY <1>1 DEF OrchDetect
  <2> HIDE DEF st, vs, id, sv, ca, ds
  <2>2. EvidenceShape(all) /\ all.unassigned = DetectUnassigned
    BY DEF EvidenceShape
  <2> HIDE DEF all
  <2>3. pass' = [at |-> "assign", dry |-> pass.dry, teams |-> pass.teams, ev |-> all, left |-> pass.left]
    BY <1>s, <2>1 DEF PassShape
  <2> QED
    BY <2>1, <2>2, <2>3 DEF UnassignedIsCurrent, PassShape, DetectUnassigned
<1>2. CASE Distribute
  <2> DEFINE none == [pass.ev EXCEPT !.unassigned = {}]
  <2>0. none.unassigned = {} /\ EvidenceShape(none)
    BY <1>s DEF PassShape, EvidenceShape
  <2> HIDE DEF none
  <2>1. CASE pass.teams /\ pass.ev.unassigned # {}
    <3>1. pass' = [pass EXCEPT !.at = "fix", !.ev = none]
      BY <1>2, <2>1 DEF Distribute, Distributed, none
    <3>2. pass' = [at |-> "fix", dry |-> pass.dry, teams |-> pass.teams, ev |-> none, left |-> pass.left]
      BY <1>s, <3>1 DEF PassShape
    <3>3. PassShape(pass)' /\ pass'.ev.unassigned = {}
      BY <2>0, <3>2 DEF PassShape
    <3>4. /\ issue' \in [OIssue -> SUBSET Bot]
          /\ \A i \in OIssue : issue'[i] = {} \/ \E b \in Bot : issue'[i] = {b}
      <4>1. CASE issue' = issue
        BY <4>1 DEF UnassignedIsCurrent
      <4>2. CASE \E ok \in SUBSET pass.ev.unassigned, b \in Bot :
                     issue' = [i \in OIssue |-> IF i \in ok THEN issue[i] \cup {b} ELSE issue[i]]
        <5>1. PICK ok \in SUBSET pass.ev.unassigned, b \in Bot :
                   issue' = [i \in OIssue |-> IF i \in ok THEN issue[i] \cup {b} ELSE issue[i]]
          BY <4>2
        <5>2. \A i \in ok : issue[i] = {}
          BY DEF UnassignedIsCurrent
        <5> QED
          BY <1>s, <5>1, <5>2 DEF UnassignedIsCurrent
      <4> QED
        BY <1>2, <2>1, <4>1, <4>2 DEF Distribute
    <3> QED
      BY <3>3, <3>4 DEF UnassignedIsCurrent
  <2>2. CASE ~(pass.teams /\ pass.ev.unassigned # {})
    <3>1. pass' = [pass EXCEPT !.at = "fix"] /\ issue' = issue
      BY <1>2, <2>2 DEF Distribute
    <3> QED
      BY <1>s, <3>1, EvidenceShrinks DEF PassShape, EvidenceShape
  <2> QED
    BY <2>1, <2>2
<1>3. CASE TriggerVmCycle \/ FixStuckTicket \/ FixExhaustedTickets \/ FixDesync
  <2>1. PassShape(pass)' /\ pass'.ev.unassigned = pass.ev.unassigned /\ issue' = issue
    <3>1. ASSUME NEW v, pass' = [pass EXCEPT !.ev.vms = @ \ {v}]
          PROVE  PassShape(pass)' /\ pass'.ev.unassigned = pass.ev.unassigned
      BY <1>s, <3>1 DEF PassShape, EvidenceShape
    <3>2. ASSUME NEW e, pass' = [pass EXCEPT !.ev.stuck = @ \ {e}]
          PROVE  PassShape(pass)' /\ pass'.ev.unassigned = pass.ev.unassigned
      BY <1>s, <3>2 DEF PassShape, EvidenceShape
    <3>3. ASSUME pass' = [pass EXCEPT !.ev.starved = FALSE]
          PROVE  PassShape(pass)' /\ pass'.ev.unassigned = pass.ev.unassigned
      BY <1>s, <3>3 DEF PassShape, EvidenceShape
    <3>4. ASSUME NEW t, pass' = [pass EXCEPT !.ev.desync = @ \ {t}]
          PROVE  PassShape(pass)' /\ pass'.ev.unassigned = pass.ev.unassigned
      BY <1>s, <3>4 DEF PassShape, EvidenceShape
    <3> QED
      BY <1>3, <3>1, <3>2, <3>3, <3>4, Zenon DEF TriggerVmCycle, FixStuckTicket, FixExhaustedTickets, FixDesync
  <2> QED
    BY <2>1, EvidenceShrinks
<1>4. CASE BeginAssignments
  <2>1. pass' = [pass EXCEPT !.at = "loop", !.left = AssignCap] /\ issue' = issue
    BY <1>4 DEF BeginAssignments
  <2> QED
    BY <1>s, <2>1, EvidenceShrinks DEF PassShape, EvidenceShape
<1>5. CASE AssignIssue
  <2>1. PICK i \in pass.ev.unassigned, b \in Bot :
            /\ issue' \in {issue, [issue EXCEPT ![i] = @ \cup {b}]}
            /\ \/ pass' = [pass EXCEPT !.ev.unassigned = @ \ {i}, !.left = @ - 1]
               \/ pass' = [pass EXCEPT !.ev.unassigned = @ \ {i}]
    BY <1>5 DEF AssignIssue
  <2>2. PassShape(pass)' /\ pass'.ev.unassigned = pass.ev.unassigned \ {i}
    <3>1. ASSUME pass' = [pass EXCEPT !.ev.unassigned = @ \ {i}]
          PROVE  PassShape(pass)' /\ pass'.ev.unassigned = pass.ev.unassigned \ {i}
      BY <1>s, <3>1 DEF PassShape, EvidenceShape
    <3>2. ASSUME pass' = [pass EXCEPT !.ev.unassigned = @ \ {i}, !.left = @ - 1]
          PROVE  PassShape(pass)' /\ pass'.ev.unassigned = pass.ev.unassigned \ {i}
      <4> DEFINE l == pass.left - 1
      <4>1. pass' = [pass EXCEPT !.ev.unassigned = @ \ {i}, !.left = l]
        BY <3>2
      <4> HIDE DEF l
      <4> QED
        BY <1>s, <4>1 DEF PassShape, EvidenceShape
    <3> QED
      BY <2>1, <3>1, <3>2
  <2>3. i \in OIssue /\ issue[i] = {}
    BY DEF UnassignedIsCurrent
  <2> QED
    BY <1>s, <2>1, <2>2, <2>3 DEF UnassignedIsCurrent
<1>6. CASE EndAssignments
  <2>1. pass' = [pass EXCEPT !.at = "file"] /\ issue' = issue
    BY <1>6 DEF EndAssignments
  <2> QED
    BY <1>s, <2>1, EvidenceShrinks DEF PassShape, EvidenceShape
<1>7. CASE CreateGithubIssue
  <2>1. pass' = [pass EXCEPT !.at = "sleep", !.ev = NoEvidence, !.left = 0] /\ issue' = issue
    BY <1>7 DEF CreateGithubIssue
  <2> QED
    BY <1>s, <2>1, EvidenceShrinks DEF PassShape, EvidenceShape, NoEvidence
<1>8. CASE \/ \E v \in Vm : CronStarts(v) \/ CycleEnds(v)
           \/ \E t \in OTicket : RunnerWorks(t)
           \/ OrchHourPasses \/ UNCHANGED orchVars
    BY <1>0, <1>8 DEF CronStarts, CycleEnds, RunnerWorks, OrchHourPasses, orchVars
<1> QED
    BY <1>1, <1>2, <1>3, <1>4, <1>5, <1>6, <1>7, <1>8 DEF OrchNext, OrchStep

\* However often assignments fail and passes repeat, an issue gets one bot:
\* the distributor and the loop over idle agents never assign the same one
\* (run_cycle and assign_issues_to_idle_agents of swe_orchestrator.py).
THEOREM IssuesGetOneBot == OrchSpec => []OneBotPerIssue
<1>1. OrchInit => UnassignedIsCurrent
    BY DEF OrchInit, UnassignedIsCurrent, PassShape, EvidenceShape, NoEvidence
<1>2. UnassignedIsCurrent /\ [OrchNext]_orchVars => UnassignedIsCurrent'
    BY UnassignedNext
<1>3. UnassignedIsCurrent => OneBotPerIssue
  <2> SUFFICES ASSUME UnassignedIsCurrent, NEW i \in OIssue PROVE Cardinality(issue[i]) <= 1
    BY DEF OneBotPerIssue
  <2>1. \A b \in Bot : Cardinality({b}) = 1
    BY FS_Singleton
  <2>2. Cardinality({}) = 0
    BY FS_EmptySet
  <2> QED
    BY <2>1, <2>2 DEF UnassignedIsCurrent
<1> QED
    BY <1>1, <1>2, <1>3, PTL DEF OrchSpec

-----------------------------------------------------------------------------
(* The dashboard: why an accepted suggestion has its ticket.                *)

DecisionOps == {"accept", "dismiss", "cp_approve", "cp_reject"}
ListOf(op) == IF op \in {"accept", "dismiss"} THEN "suggestions" ELSE "checkpoints"
Decisions == [Item -> {"pending", "accepted", "dismissed"}]
Notes == {"none", "free", "bypass"}
MemRecord == [on : BOOLEAN, made : Nat, hitl : BOOLEAN, fix : BOOLEAN, note : Notes,
              st : {"open", "in_review", "rework_requested", "in_development", "resolved", "closed"},
              comments : Int, edited : SUBSET Field, from : {"none"} \cup Item]
ReqRecord == [op : TicketOps \cup DecisionOps, t : TicketId, at : {"checked", "save", "torn"},
              arg : Notes \cup ListName, snap : {Torn} \cup Decisions]

DashTyped ==
    /\ mem \in [TicketId -> MemRecord] /\ req \in [Thread -> ReqRecord \cup {IdleReq}]
    /\ list \in [ListName -> {Torn} \cup Decisions] /\ made \in Nat

\* Whoever decides on an item has a copy of its list.
DecidersHold ==
    \A h \in Thread : req[h].at # "idle" =>
      /\ req[h].op \in TicketOps => req[h].arg \in Notes
      /\ req[h].op \notin TicketOps =>
        /\ req[h].op \in DecisionOps /\ req[h].arg = ListOf(req[h].op)
        /\ req[h].t \in Item /\ req[h].snap \in Decisions

\* What says "accepted", be it a list or the copy a thread will write, names
\* tickets that are in memory, and so does a thread about to say it.
AcceptedAreThere ==
    /\ \A s \in Item : list["suggestions"] \in Decisions /\ list["suggestions"][s] = "accepted" => mem[s].on
    /\ \A h \in Thread : req[h].at # "idle" /\ req[h].op \in {"accept", "dismiss"} =>
         \A s \in Item : req[h].snap[s] = "accepted" => mem[s].on
    /\ \A h \in Thread : req[h].op = "accept" /\ req[h].at \in {"save", "torn"} => mem[req[h].t].on
    /\ \A h \in Thread : req[h].op \in TicketOps => req[h].at # "torn"

DashInv == DashTyped /\ DecidersHold /\ AcceptedAreThere

\* The two kinds of requests have different names.
LEMMA OpsDiffer == \A op \in TicketOps : op \notin DecisionOps /\ op # "none"
BY DEF TicketOps, EditOps, Field, DecideOps, StatusOps, DecisionOps

\* A handler changes a ticket's fields and never removes it.
LEMMA AppliedKeeps ==
    ASSUME NEW op \in TicketOps, NEW note \in Notes, NEW r \in MemRecord
    PROVE  Applied(op, note, r) \in MemRecord /\ Applied(op, note, r).on = r.on
<1> DEFINE P(q) == q \in MemRecord /\ q.on = r.on
<1>1. P(r)
    OBVIOUS
<1>2. ASSUME op \in EditOps PROVE P(Edited(r, op))
    BY <1>2 DEF Edited, EditOps, MemRecord
<1>3. P(Commented(r)) /\ P(CommentDropped(r))
  <2> DEFINE n == r.comments + 1
             m == r.comments - 1
  <2>1. n \in Int /\ m \in Int
    BY DEF MemRecord
  <2>2. Commented(r) = [r EXCEPT !.comments = n] /\ CommentDropped(r) = [r EXCEPT !.comments = m]
    BY DEF Commented, CommentDropped
  <2> HIDE DEF n, m
  <2> QED
    BY <2>1, <2>2 DEF MemRecord
<1>4. P(Approved(r)) /\ P(Rejected(r)) /\ P(RevisionRequested(r))
    BY DEF Approved, Rejected, RevisionRequested, MemRecord, Notes
<1>5. ASSUME op \in StatusOps PROVE P(StatusSet(r, NewStatus(op), note))
  <2>1. NewStatus(op) \in {"open", "resolved", "closed"}
    BY <1>5 DEF NewStatus, StatusOps
  <2> DEFINE st == NewStatus(op)
  <2> HIDE DEF st
  <2>2. P(WithNote(r, note))
    BY DEF WithNote, MemRecord, Notes
  <2> DEFINE noted == WithNote(r, note)
  <2> HIDE DEF noted
  <2>3. P(noted) /\ st \in {"open", "resolved", "closed"}
    BY <2>1, <2>2 DEF noted, st
  <2>4. P([noted EXCEPT !.st = st])
    BY <2>3 DEF MemRecord
  <2>5. StatusSet(r, st, note) \in {noted, [noted EXCEPT !.st = st]}
    BY DEF StatusSet, noted
  <2> QED
    BY <2>3, <2>4, <2>5 DEF st
<1> HIDE DEF P
<1>6. P(Applied(op, note, r))
    BY <1>1, <1>2, <1>3, <1>4, <1>5 DEF Applied
<1> QED
    BY <1>6 DEF P

\* A ticket taken from a request.
LEMMA DictIsOn ==
    ASSUME NEW r \in MemRecord PROVE FromDict(r) \in MemRecord /\ FromDict(r).on
<1> DEFINE e == r.edited \cup {"severity"}
<1>1. e \in SUBSET Field
    BY DEF MemRecord, Field
<1>2. FromDict(r) = [r EXCEPT !.on = TRUE, !.st = "open", !.edited = e]
    BY DEF FromDict
<1> HIDE DEF e
<1> QED
    BY <1>1, <1>2 DEF MemRecord

\* A ticket as it is made.
LEMMA FreshIsOn ==
    ASSUME NEW n \in Nat, NEW s \in {"none"} \cup Item
    PROVE  /\ Fresh(n, s) \in MemRecord /\ Fresh(n, s).on
           /\ FromDict(Fresh(n, s)) \in MemRecord /\ FromDict(Fresh(n, s)).on
<1>1. Fresh(n, s) \in MemRecord /\ Fresh(n, s).on
  <2>1. NoTicket \in MemRecord
    BY DEF NoTicket, MemRecord, Notes
  <2> QED
    BY <2>1 DEF Fresh, MemRecord
<1> DEFINE f == Fresh(n, s)
<1> HIDE DEF f
<1>2. FromDict(f) \in MemRecord /\ FromDict(f).on
    BY <1>1, DictIsOn DEF f
<1> QED
    BY <1>1, <1>2 DEF f

\* Tickets only come: what held of them holds of a memory with more, also
\* when requests end or go on that do not decide on an item.
LEMMA MoreTickets ==
    ASSUME DashInv, mem' \in [TicketId -> MemRecord], \A t \in TicketId : mem[t].on => mem'[t].on,
           list' = list, made' \in Nat,
           req' \in [Thread -> ReqRecord \cup {IdleReq}],
           \A h \in Thread : \/ req'[h] \in {req[h], IdleReq}
                             \/ /\ req'[h] \in ReqRecord /\ req'[h].op \in TicketOps
                                /\ req'[h].at # "torn" /\ req'[h].arg \in Notes
    PROVE  DashInv'
<1>1. IdleReq.at = "idle" /\ IdleReq.op = "none"
    BY DEF IdleReq
<1>2. DashTyped' /\ DecidersHold'
    BY <1>1, OpsDiffer DEF DashInv, DashTyped, DecidersHold
<1>3. \A op \in TicketOps : op \notin {"accept", "dismiss", "none"}
    BY OpsDiffer DEF DecisionOps
<1>4. \A s \in Item : mem[s].on => mem'[s].on
    BY DEF TicketId
<1>5. \A h \in Thread : req[h].op = "accept" /\ req[h].at \in {"save", "torn"} => mem'[req[h].t].on
  <2>1. \A h \in Thread : req[h].op = "accept" => req[h] \in ReqRecord
    BY <1>1 DEF DashInv, DashTyped
  <2>2. \A h \in Thread : req[h].op = "accept" => req[h].t \in TicketId
    BY <2>1 DEF ReqRecord
  <2> QED
    BY <2>2 DEF DashInv, AcceptedAreThere
<1>6. AcceptedAreThere'
    BY <1>1, <1>3, <1>4, <1>5 DEF DashInv, AcceptedAreThere
<1> QED
    BY <1>2, <1>6 DEF DashInv

\* Every step of the server and of the runner keeps the invariant.
LEMMA DashInvNext == DashInv /\ [DashNext]_dashVars => DashInv'
<1> SUFFICES ASSUME DashInv, [DashNext]_dashVars PROVE DashInv'
    OBVIOUS
<1>t. /\ mem \in [TicketId -> MemRecord] /\ req \in [Thread -> ReqRecord \cup {IdleReq}]
      /\ list \in [ListName -> {Torn} \cup Decisions] /\ made \in Nat
    BY DEF DashInv, DashTyped
<1>i. IdleReq.at = "idle" /\ IdleReq.op = "none"
    BY DEF IdleReq
<1>r. \A h \in Thread : req[h].at # "idle" => req[h] \in ReqRecord
    BY <1>t, <1>i
<1>0. CASE UNCHANGED <<mem, req, list, made>>
    BY <1>0, <1>t, MoreTickets
<1>1. ASSUME NEW h \in Thread, BeginTicketOp(h) PROVE DashInv'
  <2>1. PICK op \in TicketOps, t \in TicketId, note \in Notes :
            req' = [req EXCEPT ![h] = Serve(h, op, t, note)]
    BY <1>1 DEF BeginTicketOp, Notes
  <2> DEFINE r == Serve(h, op, t, note)
  <2>2. r \in ReqRecord /\ r.op = op /\ r.at = "checked" /\ r.arg = note
    BY DEF Serve, ReqRecord
  <2>3. UNCHANGED <<mem, list, made>>
    BY <1>1 DEF BeginTicketOp
  <2> HIDE DEF r
  <2>4. req' = [req EXCEPT ![h] = r]
    BY <2>1 DEF r
  <2> QED
    BY <1>t, <2>2, <2>3, <2>4, MoreTickets
<1>2. ASSUME NEW h \in Thread, Change(h) PROVE DashInv'
  <2> DEFINE op == req[h].op
             t == req[h].t
             new == Applied(op, req[h].arg, mem[t])
             going == [req[h] EXCEPT !.at = "save"]
  <2>1. /\ req[h].at = "checked" /\ op \in TicketOps /\ UNCHANGED <<list, made>>
        /\ mem' \in {mem, [mem EXCEPT ![t] = new]}
        /\ req' \in {[req EXCEPT ![h] = IdleReq], [req EXCEPT ![h] = going]}
    BY <1>2 DEF Change
  <2>2. req[h] \in ReqRecord /\ t \in TicketId /\ req[h].arg \in Notes
    BY <1>r, <2>1 DEF ReqRecord, DashInv, DecidersHold
  <2>3. new \in MemRecord /\ new.on = mem[t].on
    BY <1>t, <2>1, <2>2, AppliedKeeps
  <2>4. going \in ReqRecord /\ going.op \in TicketOps /\ going.at = "save" /\ going.arg \in Notes
    BY <2>1, <2>2 DEF ReqRecord
  <2> HIDE DEF new, going
  <2>5. mem' \in [TicketId -> MemRecord] /\ \A u \in TicketId : mem[u].on => mem'[u].on
    BY <1>t, <2>1, <2>2, <2>3
  <2>6. /\ req' \in [Thread -> ReqRecord \cup {IdleReq}]
        /\ \A g \in Thread : req'[g] \in {req[g], IdleReq} \/ req'[g] = going
    BY <1>t, <2>1, <2>4
  <2> QED
    BY <1>t, <2>1, <2>4, <2>5, <2>6, MoreTickets
<1>3. ASSUME NEW h \in Thread, Add(h) PROVE DashInv'
    BY <1>t, <1>3, MoreTickets DEF Add
<1>4. ASSUME NEW h \in Thread, CreateTicket(h) PROVE DashInv'
  <2> DEFINE f == FromDict(Fresh(made + 1, "none"))
  <2>1. f \in MemRecord /\ f.on /\ made + 1 \in Nat
    BY <1>t, FreshIsOn
  <2>2. mem' = [mem EXCEPT ![""] = f] /\ UNCHANGED <<list, req>> /\ made' = made + 1
    BY <1>4 DEF CreateTicket
  <2> HIDE DEF f
  <2>3. mem' \in [TicketId -> MemRecord] /\ \A u \in TicketId : mem[u].on => mem'[u].on
    BY <1>t, <2>1, <2>2
  <2> QED
    BY <1>t, <2>1, <2>2, <2>3, MoreTickets
<1>5. ASSUME NEW h \in Thread, NEW s \in {"skip", "overwrite", "merge"}, NEW dry \in BOOLEAN,
             ImportTicket(h, s, dry)
      PROVE  DashInv'
  <2>1. UNCHANGED <<list, req, made>>
    BY <1>5 DEF ImportTicket
  <2> DEFINE f == FromDict(Fresh(0, "none"))
  <2>2. PICK t \in TicketId : mem' \in {mem, [mem EXCEPT ![t] = f], [mem EXCEPT ![t] = FromDict(mem[t])]}
    BY <1>5 DEF ImportTicket, TicketId
  <2>3. f \in MemRecord /\ f.on /\ FromDict(mem[t]) \in MemRecord /\ FromDict(mem[t]).on
    BY <1>t, FreshIsOn, DictIsOn
  <2> HIDE DEF f
  <2>4. mem' \in [TicketId -> MemRecord] /\ \A u \in TicketId : mem[u].on => mem'[u].on
    BY <1>t, <2>2, <2>3
  <2> QED
    BY <1>t, <2>1, <2>4, MoreTickets
<1>6. ASSUME NEW h \in Thread, AddFails(h) PROVE DashInv'
  <2>1. /\ req' = [req EXCEPT ![h] = IdleReq] /\ UNCHANGED <<list, made>>
        /\ \/ mem' = mem
           \/ /\ req[h].at = "checked" /\ req[h].op = "accept"
              /\ mem' = [mem EXCEPT ![req[h].t] = Fresh(0, req[h].t)]
    BY <1>6 DEF AddFails
  <2>2. req[h].at = "checked" /\ req[h].op = "accept" => req[h].t \in Item
    BY OpsDiffer DEF DashInv, DecidersHold, DecisionOps
  <2>3. mem' \in [TicketId -> MemRecord] /\ \A u \in TicketId : mem[u].on => mem'[u].on
    <3> DEFINE t == req[h].t
               f == Fresh(0, t)
    <3>1. CASE mem' = mem
      BY <1>t, <3>1
    <3>2. CASE req[h].at = "checked" /\ req[h].op = "accept" /\ mem' = [mem EXCEPT ![t] = f]
      <4>1. f \in MemRecord /\ f.on /\ t \in TicketId
        BY <2>2, <3>2, FreshIsOn DEF TicketId
      <4> HIDE DEF f, t
      <4> QED
        BY <1>t, <3>2, <4>1
    <3> QED
      BY <2>1, <3>1, <3>2
  <2> QED
    BY <1>t, <2>1, <2>3, MoreTickets
<1>7. ASSUME NEW h \in Thread, AcceptStores(h) PROVE DashInv'
  <2> DEFINE t == req[h].t
             r == [req[h] EXCEPT !.at = "save"]
             f == Fresh(0, t)
  <2>1. /\ req[h].at = "checked" /\ req[h].op = "accept" /\ UNCHANGED <<list, made>>
        /\ mem' = [mem EXCEPT ![t] = f] /\ req' = [req EXCEPT ![h] = r]
    BY <1>7 DEF AcceptStores
  <2>2. /\ req[h] \in ReqRecord /\ t \in Item /\ t \in TicketId /\ req[h].op \notin TicketOps
        /\ req[h].arg = ListOf("accept") /\ req[h].snap \in Decisions
    BY <1>r, <2>1, OpsDiffer DEF DashInv, DecidersHold, DecisionOps, TicketId
  <2>3. f \in MemRecord /\ f.on
    BY <2>2, FreshIsOn
  <2>4. /\ r \in ReqRecord /\ r.op = "accept" /\ r.at = "save" /\ r.t = t /\ r.arg = req[h].arg
        /\ r.snap = req[h].snap
    BY <2>1, <2>2 DEF ReqRecord
  <2> HIDE DEF f, r
  <2>5. mem' \in [TicketId -> MemRecord] /\ mem'[t].on /\ \A u \in TicketId : mem[u].on => mem'[u].on
    BY <1>t, <2>1, <2>2, <2>3
  <2>6. \A g \in Thread : req'[g] = IF g = h THEN r ELSE req[g]
    BY <1>t, <2>1
  <2>7. DashTyped' /\ DecidersHold'
    BY <1>t, <2>1, <2>2, <2>4, <2>5, <2>6 DEF DashInv, DashTyped, DecidersHold, DecisionOps
  <2>8. \A s \in Item : mem[s].on => mem'[s].on
    BY <2>5 DEF TicketId
  <2>9. \A g \in Thread : req[g].op = "accept" => req[g] \in ReqRecord /\ req[g].t \in TicketId
    BY <1>t, <1>i DEF ReqRecord
  <2>10. AcceptedAreThere'
    BY <2>1, <2>2, <2>4, <2>5, <2>6, <2>8, <2>9 DEF DashInv, AcceptedAreThere
  <2> QED
    BY <2>7, <2>10 DEF DashInv
<1>8. ASSUME NEW h \in Thread, BeginDecision(h) PROVE DashInv'
  <2>1. PICK s \in Item, op \in DecisionOps :
          /\ Readable(ListOf(op)) \/ ListOf(op) = "suggestions"
          /\ LET items == IF Readable(ListOf(op)) THEN list[ListOf(op)] ELSE AllPending
             IN /\ req' = [req EXCEPT ![h] = [op |-> op, t |-> s, at |-> "checked", arg |-> ListOf(op),
                                              snap |-> items]]
                /\ list' = [list EXCEPT ![ListOf(op)] = items]
    BY <1>8 DEF BeginDecision, DecisionOps, ListOf
  <2> DEFINE l == ListOf(op)
             items == IF Readable(l) THEN list[l] ELSE AllPending
             r == [op |-> op, t |-> s, at |-> "checked", arg |-> l, snap |-> items]
  <2>2. UNCHANGED <<mem, made>>
    BY <1>8 DEF BeginDecision
  <2>3. l \in ListName /\ items \in Decisions
    BY <1>t DEF ListOf, ListName, Readable, AllPending, Decisions
  <2>4. l = "suggestions" => \A u \in Item : items[u] = "accepted" => mem[u].on
    BY <1>t DEF Readable, AllPending, ListName, DashInv, AcceptedAreThere
  <2> HIDE DEF items
  <2>5. /\ r \in ReqRecord /\ r.op = op /\ r.at = "checked" /\ r.t = s /\ r.arg = l /\ r.snap = items
    BY <2>3 DEF ReqRecord, TicketId
  <2>6. req' = [req EXCEPT ![h] = r] /\ list' = [list EXCEPT ![l] = items]
    BY <2>1 DEF items
  <2>7. op \in {"accept", "dismiss"} => l = "suggestions"
    BY DEF ListOf
  <2> HIDE DEF r, l
  <2>8. \A g \in Thread : req'[g] = IF g = h THEN r ELSE req[g]
    BY <1>t, <2>6
  <2>9. DashTyped' /\ DecidersHold'
    BY <1>t, <2>2, <2>3, <2>5, <2>6, <2>8, OpsDiffer DEF DashInv, DashTyped, DecidersHold, l
  <2>10. list'["suggestions"] = IF l = "suggestions" THEN items ELSE list["suggestions"]
    BY <1>t, <2>6 DEF ListName
  <2>11. AcceptedAreThere'
    BY <2>2, <2>4, <2>5, <2>7, <2>8, <2>10 DEF DashInv, AcceptedAreThere
  <2> QED
    BY <2>9, <2>11 DEF DashInv
<1>9. ASSUME NEW h \in Thread, BeginWrite(h) PROVE DashInv'
  <2> DEFINE r == [req[h] EXCEPT !.at = "torn"]
             l == req[h].arg
  <2>1. /\ \/ req[h].at = "save" /\ req[h].op = "accept"
           \/ req[h].at = "checked" /\ req[h].op \in {"dismiss", "cp_approve", "cp_reject"}
        /\ list' = [list EXCEPT ![l] = Torn] /\ req' = [req EXCEPT ![h] = r] /\ UNCHANGED <<mem, made>>
    BY <1>9 DEF BeginWrite
  <2>2. /\ req[h] \in ReqRecord /\ req[h].op \in DecisionOps /\ req[h].op \notin TicketOps
        /\ l = ListOf(req[h].op) /\ req[h].t \in Item /\ req[h].snap \in Decisions
    BY <1>r, <2>1, OpsDiffer DEF DashInv, DecidersHold, DecisionOps
  <2>3. /\ r \in ReqRecord /\ r.op = req[h].op /\ r.at = "torn" /\ r.t = req[h].t /\ r.arg = req[h].arg
        /\ r.snap = req[h].snap
    BY <2>2 DEF ReqRecord
  <2> HIDE DEF r, l
  <2>4. \A g \in Thread : req'[g] = IF g = h THEN r ELSE req[g]
    BY <1>t, <2>1
  <2>5. DashTyped' /\ DecidersHold'
    BY <1>t, <2>1, <2>2, <2>3, <2>4 DEF DashInv, DashTyped, DecidersHold, l
  <2>6. \A s \in Item : ~(Torn \in Decisions)
    BY DEF Torn, Decisions
  <2>7. AcceptedAreThere'
    BY <1>t, <2>1, <2>2, <2>3, <2>4, <2>6 DEF DashInv, AcceptedAreThere, ListName
  <2> QED
    BY <2>5, <2>7 DEF DashInv
<1>10. ASSUME NEW h \in Thread, WriteList(h) PROVE DashInv'
  <2> DEFINE word == IF req[h].op \in {"accept", "cp_approve"} THEN "accepted" ELSE "dismissed"
             new == [req[h].snap EXCEPT ![req[h].t] = word]
             l == req[h].arg
  <2>1. /\ req[h].at = "torn" /\ list' = [list EXCEPT ![l] = new]
        /\ req' = [req EXCEPT ![h] = IdleReq] /\ UNCHANGED <<mem, made>>
    BY <1>10 DEF WriteList
  <2>2. /\ req[h].op \in DecisionOps /\ l = ListOf(req[h].op) /\ req[h].t \in Item
        /\ req[h].snap \in Decisions
    BY <2>1 DEF DashInv, DecidersHold, AcceptedAreThere
  <2>3. new \in Decisions /\ \A s \in Item : new[s] = IF s = req[h].t THEN word ELSE req[h].snap[s]
    BY <2>2 DEF Decisions
  <2>4. l = "suggestions" => \A s \in Item : new[s] = "accepted" => mem[s].on
    BY <2>1, <2>2, <2>3 DEF DashInv, AcceptedAreThere, ListOf, DecisionOps
  <2> HIDE DEF new, word, l
  <2>5. \A g \in Thread : req'[g] = IF g = h THEN IdleReq ELSE req[g]
    BY <1>t, <2>1
  <2>6. DashTyped' /\ DecidersHold'
    BY <1>t, <1>i, <2>1, <2>2, <2>3, <2>5, OpsDiffer DEF DashInv, DashTyped, DecidersHold
  <2>7. list'["suggestions"] = IF l = "suggestions" THEN new ELSE list["suggestions"]
    BY <1>t, <2>1 DEF ListName
  <2>8. AcceptedAreThere'
    BY <1>i, <2>1, <2>4, <2>5, <2>7, OpsDiffer DEF DashInv, AcceptedAreThere
  <2> QED
    BY <2>6, <2>8 DEF DashInv
<1>11. CASE \/ \E t \in TicketId : ReadFeed(t) \/ RunnerSaves(t)
            \/ RunnerLoads \/ UNCHANGED dashVars
    BY <1>0, <1>11 DEF ReadFeed, RunnerSaves, RunnerLoads, dashVars
<1> QED
    BY <1>1, <1>2, <1>3, <1>4, <1>5, <1>6, <1>7, <1>8, <1>9, <1>10, <1>11 DEF DashNext

\* The server starts in it.
LEMMA DashInvInit == DashInit => DashInv
<1> SUFFICES ASSUME DashInit PROVE DashInv
  OBVIOUS
<1>1. mem \in [TicketId -> MemRecord]
  <2>1. PICK b \in BOOLEAN :
           mem = [t \in TicketId |-> IF t \notin DTicket \ {""} THEN NoTicket
                                     ELSE [Fresh(0, "none") EXCEPT !.st = "in_review", !.fix = b, !.hitl = TRUE]]
    BY DEF DashInit
  <2>2. NoTicket \in MemRecord /\ Fresh(0, "none") \in MemRecord
    BY FreshIsOn DEF NoTicket, MemRecord, Notes
  <2>3. [Fresh(0, "none") EXCEPT !.st = "in_review", !.fix = b, !.hitl = TRUE] \in MemRecord
    BY <2>2 DEF MemRecord
  <2> QED
    BY <2>1, <2>2, <2>3
<1>2. AllPending \in Decisions /\ \A s \in Item : AllPending[s] = "pending"
    BY DEF AllPending, Decisions
<1>3. IdleReq.at = "idle" /\ IdleReq.op = "none"
    BY DEF IdleReq
<1>4. DashTyped
    BY <1>1, <1>2 DEF DashInit, DashTyped
<1> QED
    BY <1>2, <1>3, <1>4, OpsDiffer DEF DashInit, DashInv, DecidersHold, AcceptedAreThere, ListName

\* A suggestion the file shows as accepted has its ticket, for any threads
\* deciding on any items at the same time, torn reads of the list and a store
\* that raises (the suggestion handlers of dashboard_server.py).
THEOREM AcceptedSuggestionsHaveTickets == DashSpec => []AcceptedHasTicket
<1>1. DashInit => DashInv
    BY DashInvInit
<1>2. DashInv /\ [DashNext]_dashVars => DashInv'
    BY DashInvNext
<1>3. DashInv => AcceptedHasTicket
    BY DEF DashInv, DashTyped, AcceptedAreThere, AcceptedHasTicket, Readable, ListName
<1> QED
    BY <1>1, <1>2, <1>3, PTL DEF DashSpec

-----------------------------------------------------------------------------
(* The dashboard: why an answered change is on disk.                        *)

\* A thread that has changed its ticket and has still to store it.
StoresNext(h) == req[h].at = "save" /\ req[h].op \in TicketOps

\* Memory and file differ only while somebody is about to store.
OnDisk ==
    (saved = "server" /\ \A h \in Thread : ~StoresNext(h))
        => \A t \in TicketId : Kept(file[t]) = Kept(mem[t])

SavedInv == DashInv /\ OnDisk

\* A handler that does not store has changed nothing but the note.
LEMMA UnstoredChangesNothing ==
    ASSUME NEW op \in TicketOps, NEW note \in Notes, NEW r \in MemRecord, ~Stores(op, note, r)
    PROVE  Kept(Applied(op, note, r)) = Kept(r)
<1> DEFINE noted == WithNote(r, note)
<1>1. op \in {"investigate", "develop"} \/ (op = "status_resolved" /\ ~MayResolve(noted))
    BY DEF Stores
<1>2. ASSUME op \in {"investigate", "develop"} PROVE Applied(op, note, r) = r
    BY <1>2 DEF Applied, EditOps, Field, StatusOps
<1>3. ASSUME op = "status_resolved", ~MayResolve(noted) PROVE Applied(op, note, r) = noted
  <2>1. NewStatus(op) = "resolved"
    BY <1>3 DEF NewStatus
  <2> DEFINE st == NewStatus(op)
  <2>2. Applied(op, note, r) = StatusSet(r, st, note)
    BY <1>3 DEF Applied, EditOps, Field, StatusOps
  <2> HIDE DEF st
  <2>3. st = "resolved"
    BY <2>1 DEF st
  <2> QED
    BY <1>3, <2>2, <2>3 DEF StatusSet
<1>4. Kept(noted) = Kept(r)
  <2>1. noted \in {r, [r EXCEPT !.note = note]}
    BY DEF WithNote
  <2>2. Kept([r EXCEPT !.note = note]) = Kept(r)
    BY DEF Kept, MemRecord
  <2> HIDE DEF noted
  <2> QED
    BY <2>1, <2>2
<1> HIDE DEF noted
<1> QED
    BY <1>1, <1>2, <1>3, <1>4

\* Who stores writes the whole memory; who fails or is the runner says so.
LEMMA WholeMemoryWritten ==
    ASSUME file' = mem' \/ saved' \in {"runner", "raised"} PROVE OnDisk'
BY DEF OnDisk

\* Every step leaves the file with what the memory shows, or somebody to store it.
LEMMA OnDiskNext == SavedInv /\ [DashNext]_dashVars => OnDisk'
<1> SUFFICES ASSUME SavedInv, [DashNext]_dashVars PROVE OnDisk'
    OBVIOUS
<1>t. mem \in [TicketId -> MemRecord] /\ req \in [Thread -> ReqRecord \cup {IdleReq}]
    BY DEF SavedInv, DashInv, DashTyped
<1>i. IdleReq.at = "idle" /\ IdleReq.op = "none"
    BY DEF IdleReq
<1>r. \A h \in Thread : req[h].at # "idle" => req[h] \in ReqRecord
    BY <1>t, <1>i
<1>k. ASSUME mem' = mem, file' = file, saved' = saved,
             \A h \in Thread : StoresNext(h) => StoresNext(h)'
      PROVE  OnDisk'
    BY <1>k DEF SavedInv, OnDisk
<1>u. ASSUME NEW h \in Thread, ~StoresNext(h), mem' = mem, file' = file, saved' = saved,
             \A g \in Thread \ {h} : req'[g] = req[g]
      PROVE  OnDisk'
  <2>1. \A g \in Thread : StoresNext(g) => StoresNext(g)'
    BY <1>u DEF StoresNext
  <2> QED
    BY <1>k, <1>u, <2>1
<1>1. ASSUME NEW h \in Thread, BeginTicketOp(h) PROVE OnDisk'
  <2>1. ~StoresNext(h) /\ mem' = mem /\ file' = file /\ saved' = saved
    BY <1>1 DEF BeginTicketOp, StoresNext
  <2>2. \A g \in Thread \ {h} : req'[g] = req[g]
    BY <1>1, <1>t DEF BeginTicketOp
  <2> QED
    BY <1>u, <2>1, <2>2
<1>2. ASSUME NEW h \in Thread, Change(h) PROVE OnDisk'
  <2> DEFINE op == req[h].op
             t == req[h].t
             note == req[h].arg
             gone == op = "drop_comment" /\ mem[t].comments = 0
             new == Applied(op, note, mem[t])
             keeps == Stores(op, note, mem[t])
             going == [req[h] EXCEPT !.at = "save"]
  <2>1. /\ req[h].at = "checked" /\ op \in TicketOps /\ UNCHANGED <<file, saved>>
        /\ mem' = IF gone THEN mem ELSE [mem EXCEPT ![t] = new]
        /\ req' = [req EXCEPT ![h] = IF ~gone /\ keeps THEN going ELSE IdleReq]
    BY <1>2 DEF Change
  <2>2. req[h] \in ReqRecord /\ t \in TicketId /\ note \in Notes
    BY <1>r, <2>1 DEF ReqRecord, SavedInv, DashInv, DecidersHold
  <2>3. going.at = "save" /\ going.op = op
    BY <2>2 DEF ReqRecord
  <2>4. ~keeps => Kept(new) = Kept(mem[t])
    BY <1>t, <2>1, <2>2, UnstoredChangesNothing
  <2>5. ~StoresNext(h) /\ \A g \in Thread \ {h} : req'[g] = req[g]
    BY <1>t, <2>1 DEF StoresNext
  <2> HIDE DEF gone, new, keeps, going, t, op, note
  <2>6. CASE ~gone /\ keeps
    <3>1. req'[h] = going
      BY <1>t, <2>1, <2>6
    <3>2. StoresNext(h)'
      BY <2>1, <2>3, <3>1 DEF StoresNext
    <3> QED
      BY <3>2 DEF OnDisk
  <2>7. CASE gone
    BY <1>u, <2>1, <2>5, <2>7
  <2>8. CASE ~keeps /\ ~gone
    <3>1. \A u \in TicketId : Kept(mem'[u]) = Kept(mem[u])
      BY <1>t, <2>1, <2>2, <2>4, <2>8
    <3>2. \A g \in Thread : StoresNext(g) => StoresNext(g)'
      BY <2>5 DEF StoresNext
    <3> QED
      BY <2>1, <3>1, <3>2 DEF SavedInv, OnDisk
  <2> QED
    BY <2>6, <2>7, <2>8
<1>3. ASSUME NEW h \in Thread, Add(h) PROVE OnDisk'
    BY <1>3, WholeMemoryWritten DEF Add
<1>4. ASSUME NEW h \in Thread, CreateTicket(h) PROVE OnDisk'
    BY <1>4, WholeMemoryWritten DEF CreateTicket
<1>5. ASSUME NEW h \in Thread, NEW s \in {"skip", "overwrite", "merge"}, NEW dry \in BOOLEAN,
             ImportTicket(h, s, dry)
      PROVE  OnDisk'
  <2>1. (mem' = mem /\ file' = file /\ saved' = saved) \/ file' = mem'
    BY <1>5 DEF ImportTicket
  <2>2. \A g \in Thread : StoresNext(g) => StoresNext(g)'
    BY <1>5 DEF ImportTicket, StoresNext
  <2> QED
    BY <1>k, <2>1, <2>2, WholeMemoryWritten
<1>6. ASSUME NEW h \in Thread, AddFails(h) PROVE OnDisk'
    BY <1>6, WholeMemoryWritten DEF AddFails
<1>7. ASSUME NEW h \in Thread, AcceptStores(h) PROVE OnDisk'
    BY <1>7, WholeMemoryWritten DEF AcceptStores
<1>8. ASSUME NEW h \in Thread, BeginDecision(h) PROVE OnDisk'
  <2>1. ~StoresNext(h) /\ mem' = mem /\ file' = file /\ saved' = saved
    BY <1>8 DEF BeginDecision, StoresNext
  <2>2. \A g \in Thread \ {h} : req'[g] = req[g]
    BY <1>8, <1>t DEF BeginDecision
  <2> QED
    BY <1>u, <2>1, <2>2
<1>9. ASSUME NEW h \in Thread, BeginWrite(h) PROVE OnDisk'
  <2>1. ~StoresNext(h) /\ mem' = mem /\ file' = file /\ saved' = saved
    BY <1>9, OpsDiffer DEF BeginWrite, StoresNext, DecisionOps
  <2>2. \A g \in Thread \ {h} : req'[g] = req[g]
    BY <1>9, <1>t DEF BeginWrite
  <2> QED
    BY <1>u, <2>1, <2>2
<1>10. ASSUME NEW h \in Thread, WriteList(h) PROVE OnDisk'
  <2>1. ~StoresNext(h) /\ mem' = mem /\ file' = file /\ saved' = saved
    BY <1>10 DEF WriteList, StoresNext
  <2>2. \A g \in Thread \ {h} : req'[g] = req[g]
    BY <1>10, <1>t DEF WriteList
  <2> QED
    BY <1>u, <2>1, <2>2
<1>11. CASE (\E t \in TicketId : ReadFeed(t)) \/ RunnerLoads \/ UNCHANGED dashVars
  <2>1. mem' = mem /\ file' = file /\ saved' = saved /\ req' = req
    BY <1>11 DEF ReadFeed, RunnerLoads, dashVars
  <2> QED
    BY <1>k, <2>1 DEF StoresNext
<1>12. ASSUME NEW t \in TicketId, RunnerSaves(t) PROVE OnDisk'
    BY <1>12, WholeMemoryWritten DEF RunnerSaves
<1> QED
    BY <1>1, <1>2, <1>3, <1>4, <1>5, <1>6, <1>7, <1>8, <1>9, <1>10, <1>11, <1>12 DEF DashNext

\* When no handler is at work and the server wrote tickets.json last, the file
\* holds what the server shows, for any number of threads that change the
\* shared tickets before TicketStore.add writes them (dashboard_server.py).
THEOREM AnsweredChangesAreSaved == DashSpec => []AnsweredIsSaved
<1>1. DashInit => SavedInv
    BY DashInvInit DEF SavedInv, OnDisk, DashInit
<1>2. SavedInv /\ [DashNext]_dashVars => SavedInv'
    BY DashInvNext, OnDiskNext DEF SavedInv
<1>3. SavedInv => AnsweredIsSaved
    BY DEF SavedInv, OnDisk, StoresNext, AnsweredIsSaved
<1> QED
    BY <1>1, <1>2, <1>3, PTL DEF DashSpec

-----------------------------------------------------------------------------
(* The control plane: why an answered pause is kept.                        *)

PState == [paused : BOOLEAN, setting : 0..1]
HandlerShape(r) ==
    r = [at |-> r.at, op |-> r.op, t |-> r.t, list |-> r.list, obj |-> r.obj, over |-> r.over, row |-> r.row]
Cached == heap[Len(heap)]

\* Whoever got past the reload finds an object in the cache.
CacheTyped ==
    /\ heap \in Seq(PState) /\ yaml \in [state : PState, time : Nat \ {0}] /\ loaded \in Nat
    /\ handler = [h \in CpThread |-> handler[h]]
    /\ \A h \in CpThread : HandlerShape(handler[h]) /\ handler[h].over \in BOOLEAN
    /\ pausedBy \in BOOLEAN /\ replaced \in BOOLEAN
    /\ loaded > 0 => heap # <<>>
    /\ \A h \in CpThread : handler[h].at = "take" => heap # <<>>
    /\ \A h \in CpThread : handler[h].at \in {"set", "write"} => handler[h].obj \in 1..Len(heap)

\* No resume is under way when a pause was answered or, unless it was
\* overlapped, is being served.
NobodyResumes ==
    \A h \in CpThread : handler[h].op = "resume" =>
        /\ ~pausedBy
        /\ \A g \in CpThread : handler[g].op = "pause" => handler[g].over

\* As long as no reload replaced an object in use, updates hold the cached one.
UpdatesHoldCached ==
    ~replaced => \A h \in CpThread : handler[h].at \in {"set", "write"} => handler[h].obj = Len(heap)

\* A pause that was set, or answered, is in the cached object and in the file.
PauseIsCached ==
    ~replaced =>
      /\ \A h \in CpThread : handler[h].at = "write" /\ handler[h].op = "pause" /\ ~handler[h].over
            => Cached.paused
      /\ pausedBy => yaml.state.paused /\ (heap # <<>> => Cached.paused)

CacheInv == CacheTyped /\ NobodyResumes /\ UpdatesHoldCached /\ PauseIsCached

\* What an update makes of the state of the pipeline.
LEMMA AppliedIsState ==
    ASSUME NEW op, NEW s \in PState
    PROVE  /\ AppliedTo(op, s) \in PState
           /\ op = "pause" => AppliedTo(op, s).paused
           /\ op # "resume" /\ s.paused => AppliedTo(op, s).paused
<1> DEFINE n == 1 - s.setting
<1>1. n \in 0..1
    BY DEF PState
<1>2. [s EXCEPT !.setting = 1 - @] = [s EXCEPT !.setting = n]
    OBVIOUS
<1> HIDE DEF n
<1>3. /\ [s EXCEPT !.setting = n] \in PState /\ [s EXCEPT !.setting = n].paused = s.paused
      /\ [s EXCEPT !.paused = TRUE] \in PState /\ [s EXCEPT !.paused = TRUE].paused = TRUE
      /\ [s EXCEPT !.paused = FALSE] \in PState
    BY <1>1 DEF PState
<1>4. CASE op = "pause"
    BY <1>3, <1>4 DEF AppliedTo
<1>5. CASE op = "resume"
    BY <1>3, <1>5 DEF AppliedTo
<1>6. CASE op = "set"
    BY <1>2, <1>3, <1>6 DEF AppliedTo
<1>7. CASE op \notin {"pause", "resume", "set"}
    BY <1>7 DEF AppliedTo
<1> QED
    BY <1>4, <1>5, <1>6, <1>7

\* A step of the requests for tickets, or one that only moves on: handlers
\* keep what the pause is about, or end, or begin something else.
HandlersGoOn ==
    \A h \in CpThread :
        /\ HandlerShape(handler'[h]) /\ handler'[h].over \in BOOLEAN
        /\ \/ /\ handler'[h].op = handler[h].op /\ handler'[h].over = handler[h].over
           \/ handler'[h].op \notin {"pause", "resume"}
        /\ handler'[h].at \in {"set", "write"} =>
              handler'[h].at = handler[h].at /\ handler'[h].obj = handler[h].obj
                  /\ handler'[h].op = handler[h].op /\ handler'[h].over = handler[h].over
        /\ handler'[h].at = "take" => handler[h].at = "take" \/ heap # <<>>

\* A handler that goes on that way, and the others do nothing.
GoesOn(r, s) ==
    /\ HandlerShape(s) /\ s.over \in BOOLEAN
    /\ (s.op = r.op /\ s.over = r.over) \/ s.op \notin {"pause", "resume"}
    /\ s.at \notin {"set", "write"} /\ (s.at = "take" => heap # <<>>)

\* The cache is not touched, and what a pause is about stays.
LEMMA CacheUntouched ==
    ASSUME CacheInv, HandlersGoOn, UNCHANGED <<heap, loaded, pausedBy, replaced>>,
           handler' = [h \in CpThread |-> handler'[h]],
           yaml' \in [state : PState, time : Nat \ {0}], yaml'.state.paused = yaml.state.paused
    PROVE  CacheInv'
<1>1. CacheTyped'
    BY DEF CacheInv, CacheTyped, HandlersGoOn
<1>2. NobodyResumes'
    BY DEF CacheInv, NobodyResumes, HandlersGoOn
<1>3. UpdatesHoldCached'
    BY DEF CacheInv, UpdatesHoldCached, HandlersGoOn
<1>4. PauseIsCached'
    BY DEF CacheInv, PauseIsCached, HandlersGoOn, Cached
<1> QED
    BY <1>1, <1>2, <1>3, <1>4 DEF CacheInv

\* One handler goes on.
LEMMA OneGoesOn ==
    ASSUME CacheInv, NEW h \in CpThread, NEW s, GoesOn(handler[h], s),
           handler' = [handler EXCEPT ![h] = s], UNCHANGED <<heap, loaded, pausedBy, replaced, yaml>>
    PROVE  CacheInv'
<1>1. handler = [g \in CpThread |-> handler[g]] /\ yaml \in [state : PState, time : Nat \ {0}]
    BY DEF CacheInv, CacheTyped
<1>2. /\ handler' = [g \in CpThread |-> handler'[g]]
      /\ \A g \in CpThread : handler'[g] = IF g = h THEN s ELSE handler[g]
    BY <1>1
<1>3. HandlersGoOn
    BY <1>2 DEF HandlersGoOn, GoesOn, CacheInv, CacheTyped
<1> QED
    BY <1>1, <1>2, <1>3, CacheUntouched

\* A handler that answers goes on.
LEMMA AnswersGoOn == ASSUME NEW r PROVE GoesOn(r, FreeHandler)
BY DEF GoesOn, FreeHandler, HandlerShape

\* So does one that moves to a place where it holds no object of the cache.
LEMMA MovesOn ==
    ASSUME NEW r, HandlerShape(r), r.over \in BOOLEAN,
           NEW at, at \notin {"set", "write"}, at = "take" => heap # <<>>
    PROVE  GoesOn(r, [r EXCEPT !.at = at])
<1>1. [r EXCEPT !.at = at] = [at |-> at, op |-> r.op, t |-> r.t, list |-> r.list, obj |-> r.obj,
                              over |-> r.over, row |-> r.row]
    BY DEF HandlerShape
<1> QED
    BY <1>1 DEF GoesOn, HandlerShape

\* A handler whose list is set: a field a pause is not about.
LEMMA ListSet ==
    ASSUME NEW r, HandlerShape(r), NEW v
    PROVE  HandlerShape([r EXCEPT !.list = v]) /\ [r EXCEPT !.list = v].op = r.op
           /\ [r EXCEPT !.list = v].over = r.over
BY DEF HandlerShape

\* A handler that moves keeps its operation and its object.
LEMMA PlaceSet ==
    ASSUME NEW r, HandlerShape(r), NEW v
    PROVE  /\ HandlerShape([r EXCEPT !.at = v]) /\ [r EXCEPT !.at = v].op = r.op
           /\ [r EXCEPT !.at = v].over = r.over /\ [r EXCEPT !.at = v].at = v
           /\ [r EXCEPT !.at = v].obj = r.obj
BY DEF HandlerShape

\* A handler that takes an object keeps its operation.
LEMMA ObjSet ==
    ASSUME NEW r, HandlerShape(r), NEW v
    PROVE  /\ HandlerShape([r EXCEPT !.obj = v]) /\ [r EXCEPT !.obj = v].op = r.op
           /\ [r EXCEPT !.obj = v].over = r.over /\ [r EXCEPT !.obj = v].obj = v
BY DEF HandlerShape

\* A handler whose object was replaced is otherwise as it was.
LEMMA OverSet ==
    ASSUME NEW r, HandlerShape(r), NEW v
    PROVE  /\ HandlerShape([r EXCEPT !.over = v]) /\ [r EXCEPT !.over = v].op = r.op
           /\ [r EXCEPT !.over = v].at = r.at /\ [r EXCEPT !.over = v].obj = r.obj
           /\ [r EXCEPT !.over = v].over = v
BY DEF HandlerShape

\* A handler that takes up an operation.
LEMMA OpSet ==
    ASSUME NEW r, HandlerShape(r), NEW v
    PROVE  HandlerShape([r EXCEPT !.op = v]) /\ [r EXCEPT !.op = v].op = v
BY DEF HandlerShape

\* Requests for tickets leave the pipeline's state alone.
LEMMA TicketStep ==
    ASSUME CacheInv, ConfigIdle,
           \/ \E h \in CpThread : SubmitUrgent(h) \/ AddTicket(h) \/ UpdatePriority(h) \/ RemoveTicket(h)
           \/ \E h \in CpThread : LoadQueue(h) \/ SaveQueue(h) \/ UrgentDecided(h)
           \/ \E t \in CpTicket : ExecuteTicket(t)
    PROVE  CacheInv'
<1>0. UNCHANGED <<heap, loaded, pausedBy, replaced, yaml>>
    BY DEF ConfigIdle
<1>h. \A h \in CpThread : HandlerShape(handler[h]) /\ handler[h].over \in BOOLEAN
    BY DEF CacheInv, CacheTyped
<1>f. handler = [h \in CpThread |-> handler[h]]
    BY DEF CacheInv, CacheTyped
<1>1. ASSUME NEW h \in CpThread, NEW op \in {"urgent", "add", "priority", "remove"}, NEW t, NEW row,
             Request(h, op, t, "load", row)
      PROVE  CacheInv'
  <2> DEFINE a == [FreeHandler EXCEPT !.op = op]
             b == [a EXCEPT !.t = t]
             c == [b EXCEPT !.at = "load"]
             s == [c EXCEPT !.row = row]
  <2>1. handler' = [handler EXCEPT ![h] = s]
    BY <1>1 DEF Request
  <2>2. HandlerShape(FreeHandler) /\ FreeHandler.over = FALSE
    BY DEF HandlerShape, FreeHandler
  <2>3. HandlerShape(a) /\ a.op = op /\ a.over = FALSE
    BY <2>2 DEF HandlerShape
  <2> HIDE DEF a
  <2>4. HandlerShape(b) /\ b.op = op /\ b.over = FALSE
    BY <2>3 DEF HandlerShape
  <2> HIDE DEF b
  <2>5. HandlerShape(c) /\ c.op = op /\ c.over = FALSE /\ c.at = "load"
    BY <2>4 DEF HandlerShape
  <2> HIDE DEF c
  <2>6. HandlerShape(s) /\ s.op = op /\ s.over = FALSE /\ s.at = "load"
    BY <2>5 DEF HandlerShape
  <2> HIDE DEF s
  <2>7. GoesOn(handler[h], s)
    BY <2>6 DEF GoesOn
  <2> QED
    BY <1>0, <2>1, <2>7, OneGoesOn
<1>2. ASSUME NEW h \in CpThread, SubmitUrgent(h) \/ AddTicket(h) \/ UpdatePriority(h) \/ RemoveTicket(h)
      PROVE  CacheInv'
    BY <1>1, <1>2, Zenon DEF SubmitUrgent, AddTicket, UpdatePriority, RemoveTicket
<1>3. ASSUME NEW h \in CpThread, LoadQueue(h) PROVE CacheInv'
  <2> DEFINE a == [handler[h] EXCEPT !.list = queue]
             s == [a EXCEPT !.at = "save"]
  <2>1. handler' = [handler EXCEPT ![h] = s]
    <3> DEFINE mid == [handler EXCEPT ![h] = a]
    <3>1. handler' = [mid EXCEPT ![h] = [mid[h] EXCEPT !.at = "save"]]
      BY <1>3 DEF LoadQueue
    <3>2. mid[h] = a
      BY <1>f
    <3>3. handler' = [mid EXCEPT ![h] = s]
      BY <3>1, <3>2
    <3> HIDE DEF a, s
    <3> QED
      BY <1>f, <3>3
  <2>3. HandlerShape(a) /\ a.op = handler[h].op /\ a.over = handler[h].over
    BY <1>h, ListSet
  <2> HIDE DEF a
  <2>2. GoesOn(handler[h], s)
    BY <1>h, <2>3, MovesOn DEF GoesOn
  <2> HIDE DEF s
  <2> QED
    BY <1>0, <2>1, <2>2, OneGoesOn
<1>4. ASSUME NEW h \in CpThread, SaveQueue(h) PROVE CacheInv'
  <2>1. GoTo(h, "check") \/ Answer(h)
    BY <1>4 DEF SaveQueue
  <2> DEFINE s == [handler[h] EXCEPT !.at = "check"]
  <2>2. handler' = [handler EXCEPT ![h] = s] \/ handler' = [handler EXCEPT ![h] = FreeHandler]
    BY <2>1 DEF GoTo, Answer
  <2>3. GoesOn(handler[h], s) /\ GoesOn(handler[h], FreeHandler)
    BY <1>h, MovesOn, AnswersGoOn
  <2> HIDE DEF s
  <2> QED
    BY <1>0, <2>2, <2>3, OneGoesOn
<1>5. ASSUME NEW h \in CpThread, UrgentDecided(h) PROVE CacheInv'
  <2> DEFINE a == [handler[h] EXCEPT !.at = "load"]
             s == [a EXCEPT !.row.status = "processing"]
  <2>1. handler' = [handler EXCEPT ![h] = s] \/ handler' = [handler EXCEPT ![h] = FreeHandler]
    BY <1>5 DEF UrgentDecided
  <2>4. HandlerShape(a) /\ a.op = handler[h].op /\ a.over = handler[h].over /\ a.at = "load"
    BY <1>h, PlaceSet
  <2> HIDE DEF a
  <2>5. HandlerShape(s) /\ s.op = a.op /\ s.over = a.over /\ s.at = "load"
    BY <2>4 DEF HandlerShape
  <2>2. GoesOn(handler[h], s)
    BY <1>h, <2>4, <2>5 DEF GoesOn
  <2>3. GoesOn(handler[h], FreeHandler)
    BY AnswersGoOn
  <2> HIDE DEF s
  <2> QED
    BY <1>0, <2>1, <2>2, <2>3, OneGoesOn
<1>6. ASSUME NEW t \in CpTicket, ExecuteTicket(t) PROVE CacheInv'
  <2>1. handler' = handler
    BY <1>6 DEF ExecuteTicket
  <2> QED
    BY <1>0, <2>1, CacheUntouched DEF HandlersGoOn, CacheInv, CacheTyped
<1> QED
    BY <1>2, <1>3, <1>4, <1>5, <1>6

\* The steps that read and write the state of the pipeline.
LEMMA PipelineStep ==
    ASSUME CacheInv,
           \/ \E h \in CpThread : EnsureLoaded(h) \/ Reload(h) \/ TakeState(h) \/ SetState(h) \/ SaveConfig(h)
           \/ \E h \in CpThread : ConfigRequest(h) /\ UNCHANGED <<yaml, heap, loaded, replaced>>
           \/ EditByHand \/ RestartPlane
    PROVE  CacheInv'
<1>h. \A h \in CpThread : HandlerShape(handler[h]) /\ handler[h].over \in BOOLEAN
    BY DEF CacheInv, CacheTyped
<1>t. /\ handler = [h \in CpThread |-> handler[h]] /\ heap \in Seq(PState) /\ loaded \in Nat
      /\ yaml \in [state : PState, time : Nat \ {0}] /\ pausedBy \in BOOLEAN /\ replaced \in BOOLEAN
    BY DEF CacheInv, CacheTyped
<1>y. yaml.state \in PState /\ yaml.time \in Nat \ {0}
    BY <1>t
<1>f. /\ HandlerShape(FreeHandler) /\ FreeHandler.over = FALSE /\ FreeHandler.op = "" /\ FreeHandler.at = "free"
    BY DEF HandlerShape, FreeHandler
<1>1. ASSUME NEW h \in CpThread, EnsureLoaded(h) PROVE CacheInv'
  <2> DEFINE to == IF yaml.time > loaded THEN "reload" ELSE "take"
             s == [handler[h] EXCEPT !.at = to]
  <2>1. handler' = [handler EXCEPT ![h] = s] /\ UNCHANGED <<heap, loaded, yaml, pausedBy, replaced>>
    BY <1>1 DEF EnsureLoaded, GoTo
  <2>2. to \notin {"set", "write"} /\ (to = "take" => heap # <<>>)
    BY <1>t, <1>y DEF CacheInv, CacheTyped
  <2> HIDE DEF to
  <2>3. GoesOn(handler[h], s)
    BY <1>h, <2>2, MovesOn
  <2> HIDE DEF s
  <2> QED
    BY <2>1, <2>3, OneGoesOn
<1>2. ASSUME NEW h \in CpThread, Reload(h) PROVE CacheInv'
  <2> DEFINE s == [handler[h] EXCEPT !.at = "take"]
             new == Append(heap, yaml.state)
  <2>1. /\ handler[h].at = "reload" /\ handler' = [handler EXCEPT ![h] = s] /\ heap' = new
        /\ loaded' = yaml.time /\ UNCHANGED <<yaml, pausedBy>>
        /\ replaced' = (replaced \/ \E g \in CpThread : handler[g].at \in {"set", "write"})
    BY <1>2 DEF Reload, GoTo
  <2>2. /\ HandlerShape(s) /\ s.op = handler[h].op /\ s.over = handler[h].over /\ s.at = "take"
    BY <1>h, PlaceSet
  <2>3. /\ new \in Seq(PState) /\ new # <<>> /\ new[Len(new)] = yaml.state
        /\ Len(heap) \in Nat /\ Len(new) = Len(heap) + 1
    BY <1>t, <1>y
  <2> HIDE DEF s, new
  <2>4. /\ handler' = [g \in CpThread |-> handler'[g]]
        /\ \A g \in CpThread : handler'[g] = IF g = h THEN s ELSE handler[g]
    BY <1>t, <2>1
  <2>5. CacheTyped'
    <3>1. replaced' \in BOOLEAN
      BY <2>1
    <3>2. \A g \in CpThread : HandlerShape(handler'[g]) /\ handler'[g].over \in BOOLEAN
      BY <1>h, <2>2, <2>4
    <3>3. \A g \in CpThread : handler'[g].at \in {"set", "write"} => handler'[g].obj \in 1..Len(heap')
      BY <2>1, <2>2, <2>3, <2>4 DEF CacheInv, CacheTyped
    <3> QED
      BY <1>t, <1>y, <2>1, <2>3, <2>4, <3>1, <3>2, <3>3 DEF CacheTyped
  <2>6. NobodyResumes'
    BY <2>1, <2>2, <2>4 DEF CacheInv, NobodyResumes
  <2>7. ~replaced' => ~replaced /\ \A g \in CpThread : handler'[g].at \notin {"set", "write"}
    BY <2>1, <2>2, <2>4
  <2>8. UpdatesHoldCached' /\ PauseIsCached'
    BY <2>1, <2>3, <2>7 DEF CacheInv, UpdatesHoldCached, PauseIsCached, Cached
  <2> QED
    BY <2>5, <2>6, <2>8 DEF CacheInv
<1>3. ASSUME NEW h \in CpThread, TakeState(h) PROVE CacheInv'
  <2> DEFINE n == Len(heap)
             a == [handler[h] EXCEPT !.obj = n]
             s == [a EXCEPT !.at = "set"]
  <2>1. /\ handler[h].at = "take" /\ UNCHANGED <<heap, loaded, yaml, pausedBy, replaced>>
        /\ handler' = [handler EXCEPT ![h] = FreeHandler] \/ handler' = [handler EXCEPT ![h] = s]
    BY <1>3 DEF TakeState
  <2>2. CASE handler' = [handler EXCEPT ![h] = FreeHandler]
    BY <2>1, <2>2, AnswersGoOn, OneGoesOn
  <2>3. CASE handler' = [handler EXCEPT ![h] = s]
    <3>1. HandlerShape(a) /\ a.op = handler[h].op /\ a.over = handler[h].over /\ a.obj = n
      BY <1>h, ObjSet
    <3> HIDE DEF n, a
    <3>2. HandlerShape(s) /\ s.op = handler[h].op /\ s.over = handler[h].over /\ s.obj = n /\ s.at = "set"
      BY <3>1, PlaceSet
    <3> HIDE DEF s
    <3>3. /\ handler' = [g \in CpThread |-> handler'[g]]
          /\ \A g \in CpThread : handler'[g] = IF g = h THEN s ELSE handler[g]
      BY <1>t, <2>3
    <3>4. CacheTyped'
      <4>1. heap # <<>> /\ n \in 1..Len(heap)
        BY <1>t, <2>1 DEF CacheInv, CacheTyped, n
      <4>2. \A g \in CpThread : HandlerShape(handler'[g]) /\ handler'[g].over \in BOOLEAN
        BY <1>h, <3>2, <3>3
      <4>3. \A g \in CpThread : handler'[g].at \in {"set", "write"} => handler'[g].obj \in 1..Len(heap)
        BY <3>2, <3>3, <4>1 DEF CacheInv, CacheTyped
      <4> QED
        BY <1>t, <2>1, <3>3, <4>1, <4>2, <4>3 DEF CacheTyped
    <3>5. NobodyResumes'
      BY <2>1, <3>2, <3>3 DEF CacheInv, NobodyResumes
    <3>6. UpdatesHoldCached'
      BY <2>1, <3>2, <3>3 DEF CacheInv, UpdatesHoldCached, n
    <3>7. PauseIsCached'
      BY <2>1, <3>2, <3>3 DEF CacheInv, PauseIsCached, Cached
    <3> QED
      BY <3>4, <3>5, <3>6, <3>7 DEF CacheInv
  <2> QED
    BY <2>1, <2>2, <2>3
<1>4. ASSUME NEW h \in CpThread, SetState(h) PROVE CacheInv'
  <2> DEFINE o == handler[h].obj
             op == handler[h].op
             v == AppliedTo(op, heap[o])
             s == [handler[h] EXCEPT !.at = "write"]
  <2>1. /\ handler[h].at = "set" /\ handler' = [handler EXCEPT ![h] = s]
        /\ UNCHANGED <<loaded, yaml, pausedBy, replaced>>
        /\ heap' = IF op = "project" THEN heap
                   ELSE IF o = Len(heap) THEN [heap EXCEPT ![o] = v] ELSE Append([heap EXCEPT ![o] = v], v)
    BY <1>4 DEF SetState, GoTo
  <2>2. o \in 1..Len(heap) /\ Len(heap) \in Nat /\ heap[o] \in PState
    BY <1>t, <2>1 DEF CacheInv, CacheTyped
  <2>3. v \in PState /\ (op = "pause" => v.paused) /\ (op # "resume" /\ heap[o].paused => v.paused)
    BY <2>2, AppliedIsState
  <2>4. HandlerShape(s) /\ s.op = op /\ s.over = handler[h].over /\ s.obj = o /\ s.at = "write"
    BY <1>h, PlaceSet
  <2> HIDE DEF v, s
  <2>5. [heap EXCEPT ![o] = v] \in Seq(PState) /\ Len([heap EXCEPT ![o] = v]) = Len(heap)
    BY <1>t, <2>2, <2>3
  <2>6. heap' \in Seq(PState) /\ Len(heap') \in Nat /\ Len(heap') >= Len(heap) /\ heap' # <<>>
    <3> DEFINE q == [heap EXCEPT ![o] = v]
    <3> HIDE DEF q
    <3>1. q \in Seq(PState) /\ Len(q) = Len(heap)
      BY <2>5 DEF q
    <3>2. Append(q, v) \in Seq(PState) /\ Len(Append(q, v)) = Len(heap) + 1
      BY <2>3, <3>1
    <3>3. heap' \in {heap, q, Append(q, v)}
      BY <2>1 DEF q
    <3>4. heap' \in Seq(PState) /\ Len(heap') \in {Len(heap), Len(heap) + 1}
      BY <1>t, <3>1, <3>2, <3>3
    <3> QED
      BY <2>2, <3>4
  <2>7. /\ handler' = [g \in CpThread |-> handler'[g]]
        /\ \A g \in CpThread : handler'[g] = IF g = h THEN s ELSE handler[g]
    BY <1>t, <2>1
  <2>8. CacheTyped'
    BY <1>h, <1>t, <2>1, <2>2, <2>4, <2>6, <2>7 DEF CacheInv, CacheTyped
  <2>9. NobodyResumes'
    BY <2>1, <2>4, <2>7 DEF CacheInv, NobodyResumes
  <2>10. ASSUME ~replaced
         PROVE  /\ o = Len(heap) /\ Len(heap') = Len(heap)
                /\ heap'[Len(heap)] = IF op = "project" THEN heap[o] ELSE v
    <3>1. o = Len(heap)
      BY <2>1, <2>10 DEF CacheInv, UpdatesHoldCached
    <3> QED
      BY <1>t, <2>1, <2>2, <2>5, <3>1
  <2>11. UpdatesHoldCached'
    BY <2>1, <2>4, <2>7, <2>10 DEF CacheInv, UpdatesHoldCached
  <2>12. PauseIsCached'
    <3> SUFFICES ASSUME ~replaced PROVE PauseIsCached'
      BY <2>1 DEF PauseIsCached
    <3>1. Cached' = IF op = "project" THEN Cached ELSE v
      BY <2>10 DEF Cached
    <3>2. op # "resume" /\ Cached.paused => Cached'.paused
      BY <2>3, <2>10, <3>1 DEF Cached
    <3>3. op = "pause" => Cached'.paused
      BY <2>3, <3>1
    <3>4. pausedBy => yaml'.state.paused /\ (heap' # <<>> => Cached'.paused)
      BY <2>1, <2>2, <3>2 DEF CacheInv, PauseIsCached, NobodyResumes
    <3>5. ASSUME NEW g \in CpThread, handler'[g].at = "write", handler'[g].op = "pause", ~handler'[g].over
          PROVE  Cached'.paused
      <4>1. CASE g = h
        BY <2>4, <2>7, <3>3, <3>5, <4>1
      <4>2. CASE g # h
        BY <2>7, <3>2, <3>5, <4>2 DEF CacheInv, PauseIsCached, NobodyResumes
      <4> QED
        BY <4>1, <4>2
    <3> QED
      BY <2>1, <3>4, <3>5 DEF PauseIsCached
  <2> QED
    BY <2>8, <2>9, <2>11, <2>12 DEF CacheInv
<1>5. ASSUME NEW h \in CpThread, SaveConfig(h) PROVE CacheInv'
  <2>1. /\ handler[h].at = "write" /\ UNCHANGED <<heap, replaced>>
        /\ yaml' = [state |-> Cached, time |-> yaml.time + 1] /\ loaded' = yaml.time + 1
        /\ pausedBy' = (pausedBy \/ (handler[h].op = "pause" /\ ~handler[h].over))
        /\ handler' = [handler EXCEPT ![h] = FreeHandler]
    BY <1>5 DEF SaveConfig, Answer, Cached
  <2>2. Cached \in PState /\ heap # <<>>
    BY <1>t, <2>1 DEF CacheInv, CacheTyped, Cached
  <2>3. yaml' \in [state : PState, time : Nat \ {0}] /\ yaml'.state = Cached /\ loaded' \in Nat
    BY <1>y, <2>1, <2>2
  <2>4. /\ handler' = [g \in CpThread |-> handler'[g]]
        /\ \A g \in CpThread : handler'[g] = IF g = h THEN FreeHandler ELSE handler[g]
    BY <1>t, <2>1
  <2>5. CacheTyped'
    <3>1. pausedBy' \in BOOLEAN
      BY <2>1
    <3> QED
      BY <1>h, <1>t, <1>f, <2>1, <2>2, <2>3, <2>4, <3>1 DEF CacheInv, CacheTyped
  <2>6. NobodyResumes'
    BY <1>f, <2>1, <2>4 DEF CacheInv, NobodyResumes
  <2>7. UpdatesHoldCached'
    BY <1>f, <2>1, <2>4 DEF CacheInv, UpdatesHoldCached
  <2>8. PauseIsCached'
    <3> SUFFICES ASSUME ~replaced PROVE PauseIsCached'
      BY <2>1 DEF PauseIsCached
    <3>1. Cached' = Cached
      BY <2>1 DEF Cached
    <3>2. pausedBy' => Cached.paused
      BY <2>1, <2>2 DEF CacheInv, PauseIsCached
    <3>3. \A g \in CpThread : handler'[g].at = "write" /\ handler'[g].op = "pause" /\ ~handler'[g].over
             => Cached.paused
      BY <1>f, <2>4 DEF CacheInv, PauseIsCached
    <3> QED
      BY <2>1, <2>3, <3>1, <3>2, <3>3 DEF PauseIsCached
  <2> QED
    BY <2>5, <2>6, <2>7, <2>8 DEF CacheInv
<1>6. ASSUME NEW h \in CpThread, ConfigRequest(h), UNCHANGED <<yaml, heap, loaded, replaced>> PROVE CacheInv'
  <2> DEFINE resuming == \E x \in CpThread : handler[x].op = "resume"
  <2>1. PICK op \in {"pause", "resume", "set", "project", "get"} :
          /\ handler[h].at = "free"
          /\ handler' = [g \in CpThread |->
               IF g = h THEN [FreeHandler EXCEPT !.op = op, !.at = "check", !.over = resuming]
               ELSE [handler[g] EXCEPT !.over = handler[g].op = "pause" /\ (handler[g].over \/ op = "resume")]]
          /\ pausedBy' = (pausedBy /\ op # "resume")
    BY <1>6 DEF ConfigRequest
  <2> DEFINE over(g) == handler[g].op = "pause" /\ (handler[g].over \/ op = "resume")
             a == [FreeHandler EXCEPT !.op = op]
             b == [a EXCEPT !.at = "check"]
             s == [b EXCEPT !.over = resuming]
  <2>2. \A g \in CpThread : handler'[g] = IF g = h THEN s ELSE [handler[g] EXCEPT !.over = over(g)]
    BY <2>1
  <2>3. HandlerShape(s) /\ s.op = op /\ s.at = "check" /\ s.over = resuming
    <3>1. HandlerShape(a) /\ a.op = op
      BY <1>f, OpSet
    <3> HIDE DEF a, resuming
    <3>2. HandlerShape(b) /\ b.op = op /\ b.at = "check"
      BY <3>1, PlaceSet
    <3> HIDE DEF b
    <3> QED
      BY <3>2, OverSet
  <2> HIDE DEF s
  <2>4. \A g \in CpThread : g # h =>
          /\ HandlerShape(handler'[g]) /\ handler'[g].op = handler[g].op /\ handler'[g].at = handler[g].at
          /\ handler'[g].obj = handler[g].obj /\ handler'[g].over = over(g)
    <3> TAKE g \in CpThread
    <3> HAVE g # h
    <3> DEFINE w == over(g)
    <3>1. handler'[g] = [handler[g] EXCEPT !.over = w]
      BY <2>2
    <3> HIDE DEF w
    <3>2. /\ HandlerShape(handler'[g]) /\ handler'[g].op = handler[g].op /\ handler'[g].at = handler[g].at
          /\ handler'[g].obj = handler[g].obj /\ handler'[g].over = w
      BY <1>h, <3>1, OverSet
    <3> QED
      BY <3>2 DEF w
  <2>5. handler'[h] = s /\ handler' = [g \in CpThread |-> handler'[g]]
    BY <2>1, <2>2
  <2>6. CacheTyped'
    <3>1. s.over \in BOOLEAN /\ pausedBy' \in BOOLEAN /\ \A g \in CpThread : over(g) \in BOOLEAN
      BY <2>1, <2>3
    <3> HIDE DEF over
    <3>2. \A g \in CpThread : HandlerShape(handler'[g]) /\ handler'[g].over \in BOOLEAN
      BY <2>3, <2>4, <2>5, <3>1
    <3>3. \A g \in CpThread : handler'[g].at \in {"take", "set", "write"} =>
              handler'[g].at = handler[g].at /\ handler'[g].obj = handler[g].obj
      BY <2>3, <2>4, <2>5
    <3> QED
      BY <1>t, <1>6, <2>5, <3>1, <3>2, <3>3 DEF CacheInv, CacheTyped
  <2>7. NobodyResumes'
    <3> SUFFICES ASSUME NEW x \in CpThread, handler'[x].op = "resume"
                 PROVE  ~pausedBy' /\ \A g \in CpThread : handler'[g].op = "pause" => handler'[g].over
      BY DEF NobodyResumes
    <3>1. resuming \/ op = "resume"
      BY <2>3, <2>4, <2>5
    <3>2. ~pausedBy'
      BY <2>1, <3>1 DEF CacheInv, NobodyResumes
    <3>3. ASSUME NEW g \in CpThread, handler'[g].op = "pause" PROVE handler'[g].over
      <4>1. CASE g = h
        BY <2>3, <2>5, <3>1, <3>3, <4>1
      <4>2. CASE g # h
        BY <2>4, <3>1, <3>3, <4>2 DEF CacheInv, NobodyResumes
      <4> QED
        BY <4>1, <4>2
    <3> QED
      BY <3>2, <3>3
  <2>8. UpdatesHoldCached'
    BY <1>6, <2>3, <2>4, <2>5 DEF CacheInv, UpdatesHoldCached
  <2>9. PauseIsCached'
    <3>1. \A g \in CpThread : handler'[g].at = "write" /\ handler'[g].op = "pause" /\ ~handler'[g].over
             => handler[g].at = "write" /\ handler[g].op = "pause" /\ ~handler[g].over
      BY <2>3, <2>4, <2>5
    <3>2. pausedBy' => pausedBy
      BY <2>1
    <3> QED
      BY <1>6, <3>1, <3>2 DEF CacheInv, PauseIsCached, Cached
  <2> QED
    BY <2>6, <2>7, <2>8, <2>9 DEF CacheInv
<1>7. CASE EditByHand
  <2> DEFINE n == 1 - yaml.state.setting
             st == [yaml.state EXCEPT !.setting = n]
  <2>1. /\ yaml' = [state |-> st, time |-> yaml.time + 1]
        /\ UNCHANGED <<heap, loaded, handler, pausedBy, replaced>>
    BY <1>7 DEF EditByHand
  <2>2. n \in 0..1
    BY <1>y DEF PState
  <2> HIDE DEF n
  <2>3. st \in PState /\ st.paused = yaml.state.paused
    BY <1>y, <2>2 DEF PState
  <2> HIDE DEF st
  <2>4. yaml' \in [state : PState, time : Nat \ {0}] /\ yaml'.state.paused = yaml.state.paused
    BY <1>y, <2>1, <2>3
  <2>5. HandlersGoOn
    BY <1>h, <2>1 DEF HandlersGoOn
  <2> QED
    BY <1>t, <2>1, <2>4, <2>5, CacheUntouched
<1>8. CASE RestartPlane
  <2>1. /\ heap' = <<>> /\ loaded' = 0 /\ handler' = [h \in CpThread |-> FreeHandler]
        /\ UNCHANGED <<yaml, pausedBy, replaced>>
    BY <1>8 DEF RestartPlane
  <2>4. \A g \in CpThread : handler'[g] = FreeHandler
    BY <2>1
  <2>5. handler' = [g \in CpThread |-> handler'[g]]
    BY <2>1, <2>4
  <2>6. heap' \in Seq(PState)
    BY <2>1
  <2>7. \A g \in CpThread : HandlerShape(handler'[g]) /\ handler'[g].over \in BOOLEAN /\ handler'[g].at = "free"
    BY <1>f, <2>4
  <2>8. loaded' = 0 /\ UNCHANGED <<yaml, pausedBy, replaced>>
    BY <2>1
  <2>2. CacheTyped'
    BY <1>t, <2>5, <2>6, <2>7, <2>8 DEF CacheTyped
  <2>3. NobodyResumes' /\ UpdatesHoldCached' /\ PauseIsCached'
    BY <1>f, <2>1 DEF CacheInv, NobodyResumes, UpdatesHoldCached, PauseIsCached, Cached
  <2> QED
    BY <2>2, <2>3 DEF CacheInv
<1> QED
    BY <1>1, <1>2, <1>3, <1>4, <1>5, <1>6, <1>7, <1>8

\* The control plane starts with an empty cache and nobody paused.
LEMMA CacheInitInv == PlaneInit => CacheInv
<1> SUFFICES ASSUME PlaneInit PROVE CacheInv
  OBVIOUS
<1>1. /\ HandlerShape(FreeHandler) /\ FreeHandler.over = FALSE /\ FreeHandler.op = "" /\ FreeHandler.at = "free"
  BY DEF HandlerShape, FreeHandler
<1>2. Pipeline0 \in PState
  BY DEF Pipeline0, PState
<1>3. \A g \in CpThread : handler[g] = FreeHandler
  BY DEF PlaneInit
<1>4. handler = [g \in CpThread |-> handler[g]] /\ heap \in Seq(PState)
  BY <1>3 DEF PlaneInit
<1>5. yaml \in [state : PState, time : Nat \ {0}]
  BY <1>2 DEF PlaneInit
<1>6. \A g \in CpThread : /\ HandlerShape(handler[g]) /\ handler[g].over \in BOOLEAN
                           /\ handler[g].at = "free" /\ handler[g].op = ""
  BY <1>1, <1>3
<1>7. loaded = 0 /\ pausedBy = FALSE /\ replaced = FALSE
  BY DEF PlaneInit
<1>8. CacheTyped
  <2>1. loaded \in Nat /\ ~(loaded > 0)
    BY DEF PlaneInit
  <2>3. pausedBy \in BOOLEAN /\ replaced \in BOOLEAN
    BY <1>7, Zenon
  <2>2. \A g \in CpThread : handler[g].at # "take" /\ handler[g].at \notin {"set", "write"}
    BY <1>6
  <2> QED
    BY <1>4, <1>5, <1>6, <2>1, <2>2, <2>3, Zenon DEF CacheTyped
<1> QED
  BY <1>6, <1>7, <1>8 DEF CacheInv, NobodyResumes, UpdatesHoldCached, PauseIsCached

\* Every step keeps the cache.
LEMMA CacheNextInv == CacheInv /\ [PlaneNext]_cpVars => CacheInv'
<1> SUFFICES ASSUME CacheInv, [PlaneNext]_cpVars PROVE CacheInv'
  OBVIOUS
<1>1. CASE UNCHANGED cpVars
  <2>1. HandlersGoOn /\ UNCHANGED <<heap, loaded, pausedBy, replaced, handler, yaml>>
    BY <1>1 DEF HandlersGoOn, CacheInv, CacheTyped, cpVars
  <2> QED
    BY <2>1, CacheUntouched DEF CacheInv, CacheTyped
<1>2. CASE PlaneNext
  BY <1>2, TicketStep, PipelineStep DEF PlaneNext
<1> QED
  BY <1>1, <1>2

\* A pause that was answered is in the file until somebody resumes, for any
\* number of handlers, whatever edits and restarts come between, unless a
\* reload replaced the object an update was holding (ConfigStore's cache in
\* control_plane.py).
THEOREM AnsweredPausesAreKept == PlaneSpec => []PauseIsKept
<1>1. CacheInv => PauseIsKept
    BY DEF CacheInv, PauseIsCached, PauseIsKept
<1> QED
    BY <1>1, CacheInitInv, CacheNextInv, PTL DEF PlaneSpec

-----------------------------------------------------------------------------
(* The control plane: why the queue file lists no ticket twice.             *)

CallPlaces == {"free", "load", "save", "check", "take", "reload", "set", "write", "none", "running"}
Operations == {"", "urgent", "add", "priority", "remove", "pause", "resume", "set", "project", "get"}
QRow == [id : CpTicket \cup {""}, status : {"", "queued", "processing", "completed", "failed"}, priority : Int]
HandlerRecord == [at : CallPlaces, op : Operations, t : CpTicket \cup {""}, list : Seq(QRow), obj : Nat,
                  over : BOOLEAN, row : QRow]
ExecRecord == [at : CallPlaces, row : QRow, list : Seq(QRow)]

\* A list that names every ticket once.
Once(q) == q \in Seq(QRow) /\ \A i, j \in DOMAIN q : q[i].id = q[j].id => i = j

\* The file lists every ticket once, and so does every list that a handler
\* or an execution has loaded and will save: nothing is ever saved that was
\* not made from one list that was loaded as a whole.
ListsAreSound ==
    /\ handler \in [CpThread -> HandlerRecord] /\ exec \in [CpTicket -> ExecRecord]
    /\ Once(queue)
    /\ \A h \in CpThread : Once(handler[h].list)
    /\ \A t \in CpTicket : Once(exec[t].list)

\* An upsert replaces the one row of its ticket, or adds a row for a new one.
LEMMA UpsertedOnce ==
    ASSUME NEW q, Once(q), NEW row \in QRow PROVE Once(Upserted(q, row))
<1>1. q \in Seq(QRow) /\ DOMAIN q = 1..Len(q) /\ Len(q) \in Nat
    BY DEF Once
<1>2. CASE Positions(q, row.id) = {}
  <2>1. Upserted(q, row) = Append(q, row) /\ \A i \in DOMAIN q : q[i].id # row.id
    BY <1>2 DEF Upserted, Positions
  <2> QED
    BY <1>1, <2>1 DEF Once
<1>3. CASE Positions(q, row.id) # {}
  <2> DEFINE p == CHOOSE i \in Positions(q, row.id) : \A j \in Positions(q, row.id) : i <= j
  <2>1. \E i \in Positions(q, row.id) : \A j \in Positions(q, row.id) : i <= j
    BY <1>1, <1>3 DEF Once, Positions
  <2>2. p \in DOMAIN q /\ q[p].id = row.id
    BY <2>1 DEF Positions
  <2>3. Upserted(q, row) = [q EXCEPT ![p] = row]
    BY <1>3 DEF Upserted
  <2> HIDE DEF p
  <2> QED
    BY <1>1, <2>2, <2>3 DEF Once
<1> QED
    BY <1>2, <1>3

\* A removal keeps some of the rows, each once.
LEMMA RemovedOnce ==
    ASSUME NEW q, Once(q), NEW t PROVE Once(Removed(q, t))
<1> DEFINE S == {i \in DOMAIN q : q[i].id # t}
           N == Cardinality(S)
           r == Sublist(q, S)
<1>1. q \in Seq(QRow) /\ S \in SUBSET DOMAIN q
    BY DEF Once
<1> HIDE DEF S
<1>2. /\ r \in Seq(QRow) /\ DOMAIN r = 1..N
      /\ \E at \in [1..N -> S] :
           /\ \A k \in 1..N : r[k] = q[at[k]]
           /\ \A k, n \in 1..N : at[k] = at[n] => k = n
    BY <1>1, SublistOf
<1> HIDE DEF N, r
<1>3. Once(r)
    BY <1>1, <1>2 DEF Once
<1> QED
    BY <1>3 DEF r, S, Removed

\* Records of which one field is set.
LEMMA RecordsSet ==
    /\ \A r \in QRow : \A st \in {"processing", "completed", "failed"} : [r EXCEPT !.status = st] \in QRow
    /\ \A r \in HandlerRecord :
         /\ \A v \in CallPlaces : [r EXCEPT !.at = v] \in HandlerRecord /\ [r EXCEPT !.at = v].list = r.list
         /\ \A v \in Nat : [r EXCEPT !.obj = v] \in HandlerRecord /\ [r EXCEPT !.obj = v].list = r.list
         /\ \A v \in QRow : [r EXCEPT !.row = v] \in HandlerRecord /\ [r EXCEPT !.row = v].list = r.list
         /\ \A v \in Seq(QRow) : [r EXCEPT !.list = v] \in HandlerRecord /\ [r EXCEPT !.list = v].list = v
         /\ \A v \in BOOLEAN : [r EXCEPT !.over = v] \in HandlerRecord /\ [r EXCEPT !.over = v].list = r.list
         /\ \A v \in Operations : [r EXCEPT !.op = v] \in HandlerRecord /\ [r EXCEPT !.op = v].list = r.list
         /\ \A v \in CpTicket \cup {""} : [r EXCEPT !.t = v] \in HandlerRecord /\ [r EXCEPT !.t = v].list = r.list
    /\ \A r \in ExecRecord :
         /\ \A v \in CallPlaces : [r EXCEPT !.at = v] \in ExecRecord /\ [r EXCEPT !.at = v].list = r.list
         /\ \A v \in QRow : [r EXCEPT !.row = v] \in ExecRecord /\ [r EXCEPT !.row = v].list = r.list
         /\ \A v \in Seq(QRow) : [r EXCEPT !.list = v] \in ExecRecord /\ [r EXCEPT !.list = v].list = v
<1>1. \A r \in QRow : \A st \in {"processing", "completed", "failed"} : [r EXCEPT !.status = st] \in QRow
    BY DEF QRow
<1>2. ASSUME NEW r \in HandlerRecord
      PROVE
         /\ \A v \in CallPlaces : [r EXCEPT !.at = v] \in HandlerRecord /\ [r EXCEPT !.at = v].list = r.list
         /\ \A v \in Nat : [r EXCEPT !.obj = v] \in HandlerRecord /\ [r EXCEPT !.obj = v].list = r.list
         /\ \A v \in QRow : [r EXCEPT !.row = v] \in HandlerRecord /\ [r EXCEPT !.row = v].list = r.list
         /\ \A v \in Seq(QRow) : [r EXCEPT !.list = v] \in HandlerRecord /\ [r EXCEPT !.list = v].list = v
         /\ \A v \in BOOLEAN : [r EXCEPT !.over = v] \in HandlerRecord /\ [r EXCEPT !.over = v].list = r.list
         /\ \A v \in Operations : [r EXCEPT !.op = v] \in HandlerRecord /\ [r EXCEPT !.op = v].list = r.list
         /\ \A v \in CpTicket \cup {""} : [r EXCEPT !.t = v] \in HandlerRecord /\ [r EXCEPT !.t = v].list = r.list
    BY DEF HandlerRecord
<1>3. ASSUME NEW r \in ExecRecord
      PROVE
         /\ \A v \in CallPlaces : [r EXCEPT !.at = v] \in ExecRecord /\ [r EXCEPT !.at = v].list = r.list
         /\ \A v \in QRow : [r EXCEPT !.row = v] \in ExecRecord /\ [r EXCEPT !.row = v].list = r.list
         /\ \A v \in Seq(QRow) : [r EXCEPT !.list = v] \in ExecRecord /\ [r EXCEPT !.list = v].list = v
    BY DEF ExecRecord
<1> QED
    BY <1>1, <1>2, <1>3

\* Handlers and executions that are not there.
LEMMA FreeIsSound == FreeHandler \in HandlerRecord /\ NoExec \in ExecRecord
                     /\ Once(FreeHandler.list) /\ Once(NoExec.list)
<1>1. QTicket("", "", 0) \in QRow /\ <<>> \in Seq(QRow) /\ Once(<<>>)
    BY DEF QTicket, QRow, Once
<1>2. FreeHandler \in HandlerRecord /\ FreeHandler.list = <<>>
    BY <1>1 DEF FreeHandler, HandlerRecord, CallPlaces, Operations
<1>3. NoExec \in ExecRecord /\ NoExec.list = <<>>
    BY <1>1 DEF NoExec, ExecRecord, CallPlaces
<1> QED
    BY <1>1, <1>2, <1>3

\* A request that begins.
LEMMA RequestOnce ==
    ASSUME ListsAreSound, NEW h \in CpThread, NEW op \in Operations, NEW t \in CpTicket \cup {""},
           NEW at \in CallPlaces, NEW row \in QRow, UNCHANGED <<queue, exec>>,
           Request(h, op, t, at, row)
    PROVE  ListsAreSound'
<1> DEFINE a == [FreeHandler EXCEPT !.op = op]
           b == [a EXCEPT !.t = t]
           c == [b EXCEPT !.at = at]
           r == [c EXCEPT !.row = row]
<1>1. handler' = [handler EXCEPT ![h] = r]
    BY DEF Request
<1>2. a \in HandlerRecord /\ Once(a.list)
    BY FreeIsSound, RecordsSet
<1> HIDE DEF a
<1>3. b \in HandlerRecord /\ Once(b.list)
    BY <1>2, RecordsSet
<1> HIDE DEF b
<1>4. c \in HandlerRecord /\ Once(c.list)
    BY <1>3, RecordsSet
<1> HIDE DEF c
<1>5. r \in HandlerRecord /\ Once(r.list)
    BY <1>4, RecordsSet
<1> HIDE DEF r
<1> QED
    BY <1>1, <1>5 DEF ListsAreSound

\* One handler goes on with a list that names every ticket once.
LEMMA HandlerOnce ==
    ASSUME ListsAreSound, NEW h \in CpThread, NEW s \in HandlerRecord, Once(s.list),
           handler' = [handler EXCEPT ![h] = s], exec' = exec, Once(queue')
    PROVE  ListsAreSound'
BY DEF ListsAreSound

\* So does an execution.
LEMMA ExecOnce ==
    ASSUME ListsAreSound, NEW t \in CpTicket, NEW s \in ExecRecord, Once(s.list),
           exec' = [exec EXCEPT ![t] = s], handler' = handler, Once(queue')
    PROVE  ListsAreSound'
BY DEF ListsAreSound

\* Every step keeps the lists.
LEMMA ListsNext == CacheInv /\ ListsAreSound /\ [PlaneNext]_cpVars => ListsAreSound'
<1> SUFFICES ASSUME CacheInv, ListsAreSound, [PlaneNext]_cpVars PROVE ListsAreSound'
    OBVIOUS
<1>t. /\ handler \in [CpThread -> HandlerRecord] /\ exec \in [CpTicket -> ExecRecord]
      /\ Once(queue) /\ heap \in Seq(PState)
      /\ \A h \in CpThread : Once(handler[h].list)
      /\ \A t \in CpTicket : Once(exec[t].list)
    BY DEF ListsAreSound, CacheInv, CacheTyped
<1>r. \A h \in CpThread : handler[h] \in HandlerRecord
    BY <1>t
<1>q. queue \in Seq(QRow) /\ \A i \in DOMAIN queue : queue[i] \in QRow
    BY <1>t DEF Once
<1>p. TopPriority \in Int
    BY CpAssumption
<1>0. CASE UNCHANGED <<queue, handler, exec>>
    BY <1>0 DEF ListsAreSound
<1>1. ASSUME NEW h \in CpThread, UNCHANGED <<queue, exec>>,
             SubmitUrgent(h) \/ AddTicket(h) \/ UpdatePriority(h) \/ RemoveTicket(h)
      PROVE  ListsAreSound'
  <2>1. CASE SubmitUrgent(h) \/ AddTicket(h)
    <3>1. PICK t \in CpTicket, op \in {"urgent", "add"}, p \in {0, TopPriority} :
              Request(h, op, t, "load", QTicket(t, "queued", p))
      BY <2>1 DEF SubmitUrgent, AddTicket, Unused
    <3>3. p \in Int
      BY <1>p
    <3>2. QTicket(t, "queued", p) \in QRow
      BY <3>3 DEF QTicket, QRow
    <3> QED
      BY <1>1, <3>1, <3>2, RequestOnce DEF Operations, CallPlaces
  <2>2. CASE UpdatePriority(h)
    <3>1. PICK i \in DOMAIN queue, p \in {-1, 0, TopPriority + 1} :
              Request(h, "priority", queue[i].id, "load", [queue[i] EXCEPT !.priority = Clamped(p)])
      BY <2>2 DEF UpdatePriority
    <3>2. Clamped(p) \in Int
      BY <1>p DEF Clamped
    <3>3. queue[i] \in QRow /\ queue[i].id \in CpTicket \cup {""}
      BY <1>q DEF QRow
    <3>4. [queue[i] EXCEPT !.priority = Clamped(p)] \in QRow
      BY <3>2, <3>3 DEF QRow
    <3> QED
      BY <1>1, <3>1, <3>3, <3>4, RequestOnce DEF Operations, CallPlaces
  <2>3. CASE RemoveTicket(h)
    <3>1. PICK t \in CpTicket : Request(h, "remove", t, "load", QTicket("", "", 0))
      BY <2>3 DEF RemoveTicket
    <3>2. QTicket("", "", 0) \in QRow
      BY DEF QTicket, QRow
    <3> QED
      BY <1>1, <3>1, <3>2, RequestOnce DEF Operations, CallPlaces
  <2> QED
    BY <1>1, <2>1, <2>2, <2>3
<1>2. ASSUME NEW h \in CpThread, LoadQueue(h) PROVE ListsAreSound'
  <2> DEFINE a == [handler[h] EXCEPT !.list = queue]
             s == [a EXCEPT !.at = "save"]
  <2>1. handler' = [handler EXCEPT ![h] = s]
    BY <1>2, <1>t DEF LoadQueue
  <2>4. a \in HandlerRecord /\ a.list = queue
    BY <1>r, <1>q, RecordsSet
  <2> HIDE DEF a
  <2>2. s \in HandlerRecord /\ s.list = queue
    BY <2>4, RecordsSet DEF CallPlaces
  <2>3. queue' = queue /\ exec' = exec
    BY <1>2 DEF LoadQueue
  <2> HIDE DEF s
  <2> QED
    BY <1>t, <2>1, <2>2, <2>3, HandlerOnce
<1>3. ASSUME NEW h \in CpThread, NEW at \in CallPlaces, GoTo(h, at), exec' = exec, Once(queue')
      PROVE  ListsAreSound'
  <2> DEFINE s == [handler[h] EXCEPT !.at = at]
  <2>1. handler' = [handler EXCEPT ![h] = s]
    BY <1>3 DEF GoTo
  <2>2. s \in HandlerRecord /\ s.list = handler[h].list
    BY <1>r, RecordsSet
  <2> HIDE DEF s
  <2> QED
    BY <1>3, <1>t, <2>1, <2>2, HandlerOnce
<1>4. ASSUME NEW h \in CpThread, Answer(h), exec' = exec, Once(queue')
      PROVE  ListsAreSound'
    BY <1>4, FreeIsSound, HandlerOnce DEF Answer
<1>5. ASSUME NEW h \in CpThread, SaveQueue(h) PROVE ListsAreSound'
  <2>1. Once(queue')
    <3>1. Once(handler[h].list) /\ handler[h].row \in QRow
      BY <1>t, <1>r DEF HandlerRecord
    <3>2. queue' \in {queue, Removed(handler[h].list, handler[h].t), Upserted(handler[h].list, handler[h].row)}
      BY <1>5 DEF SaveQueue
    <3> QED
      BY <1>t, <3>1, <3>2, UpsertedOnce, RemovedOnce
  <2>2. CASE GoTo(h, "check") /\ exec' = exec
    BY <1>3, <2>1, <2>2 DEF CallPlaces
  <2>3. CASE Answer(h) /\ exec' = exec
    BY <1>4, <2>1, <2>3
  <2>4. CASE /\ Answer(h)
             /\ exec' = [exec EXCEPT ![handler[h].t] = [NoExec EXCEPT !.at = "running", !.row = handler[h].row]]
    <3> DEFINE a == [NoExec EXCEPT !.at = "running"]
               x == [a EXCEPT !.row = handler[h].row]
    <3>4. handler[h].row \in QRow
      BY <1>r DEF HandlerRecord
    <3>1. a \in ExecRecord /\ a.list = NoExec.list
      BY FreeIsSound, RecordsSet DEF CallPlaces
    <3>5. x \in ExecRecord /\ x.list = NoExec.list
      <4> HIDE DEF a
      <4> QED BY <3>1, <3>4, RecordsSet
    <3>2. Once(x.list)
      BY <3>5, FreeIsSound
    <3>3. exec' = [exec EXCEPT ![handler[h].t] = x] /\ handler' = [handler EXCEPT ![h] = FreeHandler]
      BY <2>4 DEF Answer
    <3> HIDE DEF x
    <3> QED
      BY <1>t, <2>1, <3>5, <3>2, <3>3, FreeIsSound DEF ListsAreSound
  <2> QED
    BY <1>5, <2>2, <2>3, <2>4 DEF SaveQueue
<1>6. ASSUME NEW h \in CpThread, UrgentDecided(h) PROVE ListsAreSound'
  <2> DEFINE a == [handler[h] EXCEPT !.at = "load"]
             w == [a.row EXCEPT !.status = "processing"]
             s == [a EXCEPT !.row = w]
  <2>1. a \in HandlerRecord /\ a.list = handler[h].list
    BY <1>r, RecordsSet DEF CallPlaces
  <2> HIDE DEF a
  <2>2. w \in QRow
    <3>1. a.row \in QRow
      BY <2>1 DEF HandlerRecord
    <3> QED
      BY <3>1, RecordsSet
  <2>3. [a EXCEPT !.row.status = "processing"] = s
    BY <2>1, <2>2
  <2> HIDE DEF w
  <2>4. s \in HandlerRecord /\ s.list = handler[h].list
    BY <2>1, <2>2, RecordsSet
  <2>5. handler' \in {[handler EXCEPT ![h] = FreeHandler], [handler EXCEPT ![h] = s]}
    BY <1>6, <2>3 DEF UrgentDecided, a
  <2>6. queue' = queue /\ exec' = exec
    BY <1>6 DEF UrgentDecided
  <2> HIDE DEF s
  <2> QED
    BY <1>t, <2>4, <2>5, <2>6, FreeIsSound, HandlerOnce
<1>7. ASSUME NEW t \in CpTicket, ExecuteTicket(t) PROVE ListsAreSound'
  <2>0. handler' = handler /\ exec[t] \in ExecRecord
    BY <1>7, <1>t DEF ExecuteTicket
  <2>1. ASSUME NEW st \in {"completed", "failed"}, queue' = queue,
               exec' = [exec EXCEPT ![t].at = "load", ![t].row.status = st]
        PROVE  ListsAreSound'
    <3> DEFINE w == [exec[t].row EXCEPT !.status = st]
               a == [exec[t] EXCEPT !.at = "load"]
               s == [a EXCEPT !.row = w]
    <3>4. exec[t].row \in QRow
      BY <2>0 DEF ExecRecord
    <3>1. w \in QRow
      BY <3>4, RecordsSet
    <3>2. exec' = [exec EXCEPT ![t] = s]
      BY <2>0, <2>1, <1>t DEF ExecRecord
    <3> HIDE DEF w
    <3>5. a \in ExecRecord /\ a.list = exec[t].list
      BY <2>0, RecordsSet DEF CallPlaces
    <3> HIDE DEF a
    <3>3. s \in ExecRecord /\ s.list = exec[t].list
      BY <3>1, <3>5, RecordsSet
    <3> HIDE DEF s
    <3> QED
      BY <1>t, <2>0, <2>1, <3>2, <3>3, ExecOnce
  <2>2. ASSUME queue' = queue, exec' = [exec EXCEPT ![t].at = "save", ![t].list = queue]
        PROVE  ListsAreSound'
    <3> DEFINE a == [exec[t] EXCEPT !.at = "save"]
               s == [a EXCEPT !.list = queue]
    <3>1. exec' = [exec EXCEPT ![t] = s]
      BY <2>0, <2>2, <1>t
    <3>3. a \in ExecRecord
      BY <2>0, RecordsSet DEF CallPlaces
    <3> HIDE DEF a
    <3>2. s \in ExecRecord /\ s.list = queue
      BY <3>3, <1>q, RecordsSet
    <3> HIDE DEF s
    <3> QED
      BY <1>t, <2>0, <2>2, <3>1, <3>2, ExecOnce
  <2>3. ASSUME queue' = Upserted(exec[t].list, exec[t].row), exec' = [exec EXCEPT ![t] = NoExec]
        PROVE  ListsAreSound'
    <3>1. exec[t].row \in QRow /\ Once(exec[t].list)
      BY <1>t, <2>0 DEF ExecRecord
    <3>2. Once(queue')
      BY <2>3, <3>1, UpsertedOnce
    <3> QED
      BY <2>0, <2>3, <3>2, FreeIsSound, ExecOnce
  <2> QED
    BY <1>7, <2>1, <2>2, <2>3 DEF ExecuteTicket
<1>8. ASSUME NEW h \in CpThread, ConfigRequest(h), QueueIdle PROVE ListsAreSound'
  <2>1. PICK op \in {"pause", "resume", "set", "project", "get"} :
            handler' = [g \in CpThread |->
                IF g = h THEN [FreeHandler EXCEPT !.op = op, !.at = "check",
                                                  !.over = \E x \in CpThread : handler[x].op = "resume"]
                ELSE [handler[g] EXCEPT !.over = handler[g].op = "pause" /\ (@ \/ op = "resume")]]
    BY <1>8 DEF ConfigRequest
  <2> DEFINE some == \E x \in CpThread : handler[x].op = "resume"
             new1 == [FreeHandler EXCEPT !.op = op]
             new2 == [new1 EXCEPT !.at = "check"]
             new == [new2 EXCEPT !.over = some]
             ov(g) == handler[g].op = "pause" /\ (handler[g].over \/ op = "resume")
             old(g) == [handler[g] EXCEPT !.over = ov(g)]
  <2>2. some \in BOOLEAN /\ \A g \in CpThread : ov(g) \in BOOLEAN
    OBVIOUS
  <2>3. \A g \in CpThread : handler'[g] = IF g = h THEN new ELSE old(g)
    BY <2>1
  <2>4. handler' = [g \in CpThread |-> handler'[g]]
    BY <2>1
  <2> HIDE DEF some, ov
  <2>5. new \in HandlerRecord /\ new.list = FreeHandler.list
    <3>1. new1 \in HandlerRecord /\ new1.list = FreeHandler.list
      BY FreeIsSound, RecordsSet DEF Operations
    <3> HIDE DEF new1
    <3>2. new2 \in HandlerRecord /\ new2.list = FreeHandler.list
      BY <3>1, RecordsSet DEF CallPlaces
    <3> HIDE DEF new2
    <3> QED
      BY <2>2, <3>2, RecordsSet
  <2>6. \A g \in CpThread : old(g) \in HandlerRecord /\ old(g).list = handler[g].list
    BY <1>r, <2>2, RecordsSet
  <2> HIDE DEF new, old
  <2>7. handler' \in [CpThread -> HandlerRecord] /\ \A g \in CpThread : Once(handler'[g].list)
    BY <1>t, <2>3, <2>4, <2>5, <2>6, FreeIsSound
  <2> QED
    BY <1>8, <1>t, <2>7 DEF QueueIdle, ListsAreSound
<1>9. ASSUME NEW h \in CpThread, QueueIdle,
             EnsureLoaded(h) \/ Reload(h) \/ TakeState(h) \/ SetState(h) \/ SaveConfig(h)
      PROVE  ListsAreSound'
  <2>0. exec' = exec /\ Once(queue')
    BY <1>9, <1>t DEF QueueIdle
  <2>1. CASE TakeState(h)
    <3> DEFINE n == Len(heap)
               a == [handler[h] EXCEPT !.obj = n]
               s == [a EXCEPT !.at = "set"]
    <3>1. handler' \in {[handler EXCEPT ![h] = FreeHandler], [handler EXCEPT ![h] = s]}
      BY <2>1 DEF TakeState
    <3>2. n \in Nat
      BY <1>t
    <3> HIDE DEF n
    <3>4. a \in HandlerRecord /\ a.list = handler[h].list
      BY <1>r, <3>2, RecordsSet
    <3> HIDE DEF a
    <3>3. s \in HandlerRecord /\ s.list = handler[h].list
      BY <3>4, RecordsSet DEF CallPlaces
    <3> HIDE DEF s
    <3> QED
      BY <1>t, <2>0, <3>1, <3>3, FreeIsSound, HandlerOnce
  <2>2. CASE \E at \in {"reload", "take", "write"} : GoTo(h, at)
    BY <1>3, <2>0, <2>2 DEF CallPlaces
  <2>3. CASE Answer(h)
    BY <1>4, <2>0, <2>3
  <2> QED
    BY <1>9, <2>1, <2>2, <2>3 DEF EnsureLoaded, Reload, SetState, SaveConfig
<1>10. CASE RestartPlane
    BY <1>10, FreeIsSound DEF RestartPlane, ListsAreSound
<1>11. CASE EditByHand \/ UNCHANGED cpVars
    BY <1>0, <1>11 DEF EditByHand, cpVars
<1> QED
    BY <1>1, <1>2, <1>5, <1>6, <1>7, <1>8, <1>9, <1>10, <1>11 DEF PlaneNext

\* However loads and saves of handlers and executions interleave and the
\* process restarts, the queue file never lists a ticket twice (upsert and
\* remove of control_plane.py, between which nothing is locked).
THEOREM QueueListsOnce == PlaneSpec => []TicketsListedOnce
<1>1. PlaneInit => CacheInv /\ ListsAreSound
    BY CacheInitInv, FreeIsSound DEF PlaneInit, ListsAreSound, Once
<1>2. CacheInv /\ ListsAreSound /\ [PlaneNext]_cpVars => (CacheInv /\ ListsAreSound)'
    BY CacheNextInv, ListsNext
<1>3. ListsAreSound => TicketsListedOnce
    BY DEF ListsAreSound, Once, TicketsListedOnce
<1> QED
    BY <1>1, <1>2, <1>3, PTL DEF PlaneSpec

-----------------------------------------------------------------------------
(* Budgets: why a team that was told to stop is told so until its day or    *)
(* its policy changes, for any prices, policies and sessions, when the      *)
(* database keeps the events and answers.                                   *)

Policy == [daily : Int, monthly : Int, alert : Int, stop : BOOLEAN]
TeamPolicy == PolicyIn(limits["table"])

StopInv ==
    /\ costDb \in [Days -> Nat] /\ day \in Days
    /\ limits \in [{"table", "process"} -> LimitChoices \cup {NoPolicy}]
    /\ stopped => StatusOf(TeamPolicy, SpentToday(costDb), SpentMonth(costDb)) = "hard_stop"
    /\ StopOutlivesRestarts

\* A limit that is used up stays so when more is spent.
LEMMA UsedUp ==
    ASSUME NEW l \in Int, NEW a \in Nat, NEW b \in Nat, a <= b, PctUsed(a, l) >= 100
    PROVE  PctUsed(b, l) >= 100
BY DEF PctUsed

\* The larger of two numbers.
LEMMA LargerOf ==
    ASSUME NEW a \in Int, NEW b \in Int
    PROVE  Max({a, b}) = IF a >= b THEN a ELSE b
<1>1. Max({a, b}) \in {a, b} /\ \A y \in {a, b} : Max({a, b}) >= y
  <2>1. \E x \in {a, b} : \A y \in {a, b} : x >= y
    <3>1. CASE a >= b
      BY <3>1
    <3>2. CASE ~(a >= b)
      BY <3>2
    <3> QED
      BY <3>1, <3>2
  <2> QED
    BY <2>1 DEF Max
<1> QED
    BY <1>1

\* A hard stop remains one when more is spent.
LEMMA StopGrows ==
    ASSUME NEW p \in Policy, NEW a \in Nat, NEW b \in Nat, NEW c \in Nat, NEW d \in Nat, a <= c, b <= d,
           StatusOf(p, a, b) = "hard_stop"
    PROVE  StatusOf(p, c, d) = "hard_stop"
<1>1. p.daily \in Int /\ p.monthly \in Int /\ p.stop \in BOOLEAN /\ p.alert \in Int
    BY DEF Policy
<1>2. \A x \in Nat, l \in Int : PctUsed(x, l) \in Int
    BY DEF PctUsed
<1> DEFINE P(x, y) == Max({PctUsed(x, p.daily), PctUsed(y, p.monthly)})
<1>3. \A x, y \in Nat : P(x, y) = IF PctUsed(x, p.daily) >= PctUsed(y, p.monthly)
                                 THEN PctUsed(x, p.daily) ELSE PctUsed(y, p.monthly)
    BY <1>1, <1>2, LargerOf
<1>4. \A x, y \in Nat : P(x, y) \in Int
                        /\ (P(x, y) >= 100 <=> PctUsed(x, p.daily) >= 100 \/ PctUsed(y, p.monthly) >= 100)
    <2> SUFFICES ASSUME NEW x \in Nat, NEW y \in Nat
                 PROVE  P(x, y) \in Int
                        /\ (P(x, y) >= 100 <=> PctUsed(x, p.daily) >= 100 \/ PctUsed(y, p.monthly) >= 100)
      OBVIOUS
    <2>1. PctUsed(x, p.daily) \in Int /\ PctUsed(y, p.monthly) \in Int
      BY <1>1, <1>2
    <2>2. P(x, y) = IF PctUsed(x, p.daily) >= PctUsed(y, p.monthly)
                    THEN PctUsed(x, p.daily) ELSE PctUsed(y, p.monthly)
      BY <1>3
    <2> HIDE DEF P
    <2> QED
      BY <2>1, <2>2
<1>5. p.stop /\ P(a, b) >= 100
  <2>1. StatusOf(p, a, b) = IF p.stop /\ P(a, b) >= 100 THEN "hard_stop" ELSE IF P(a, b) >= p.alert THEN "warning" ELSE "ok"
    BY DEF StatusOf
  <2> HIDE DEF P
  <2> QED
    BY <2>1
<1>6. PctUsed(c, p.daily) >= 100 \/ PctUsed(d, p.monthly) >= 100
    BY <1>1, <1>4, <1>5, UsedUp
<1>7. P(c, d) >= 100
    BY <1>4, <1>6
<1> QED
    BY <1>5, <1>7 DEF StatusOf

\* What a month's sum is when one day's events have grown.
LEMMA MonthGrows ==
    ASSUME BudgetAssumption, NEW f \in [Days -> Nat], NEW g \in [Days -> Nat], \A d \in Days : f[d] <= g[d], day \in Days
    PROVE  SpentMonth(f) \in Nat /\ SpentMonth(g) \in Nat /\ SpentMonth(f) <= SpentMonth(g)
<1> DEFINE u == [d \in Days |-> IF d \in InMonth(day) THEN f[d] ELSE 0]
           v == [d \in Days |-> IF d \in InMonth(day) THEN g[d] ELSE 0]
<1>1. MaxDay \in Nat /\ Days = 1..MaxDay
    BY BudgetAssumption DEF Days
<1>2. u \in [1..MaxDay -> Nat] /\ v \in [1..MaxDay -> Nat] /\ \A d \in 1..MaxDay : u[d] <= v[d]
    BY <1>1
<1>3. SpentMonth(f) = Total(u, MaxDay) /\ SpentMonth(g) = Total(v, MaxDay)
    BY DEF SpentMonth
<1> HIDE DEF u, v
<1>4. Total(u, MaxDay) \in Nat /\ Total(v, MaxDay) \in Nat /\ Total(u, MaxDay) <= Total(v, MaxDay)
    BY <1>1, <1>2, TotalGrows
<1> QED
    BY <1>3, <1>4

\* The policy a team has is one of the policies.
LEMMA PolicyIsOne ==
    ASSUME StopInv PROVE TeamPolicy \in Policy
<1>1. limits["table"] \in LimitChoices \cup {NoPolicy}
    BY DEF StopInv
<1> QED
    BY <1>1, BudgetAssumption DEF TeamPolicy, PolicyIn, Policy

\* A session that ends adds to what the team has spent.
LEMMA SessionInv ==
    ASSUME StopInv, NEW t \in UsageTicket, NEW m \in UsageModel, EndSession(t, m) PROVE StopInv'
<1>1. answer' = <<>> /\ day' = day /\ limits' = limits /\ stopped' = stopped
    BY DEF EndSession
<1>2. costDb \in [Days -> Nat] /\ day \in Days /\ Rate[FamilyOf[m]] \in Nat
    BY BudgetAssumption DEF StopInv
<1>3. /\ costDb' \in [Days -> Nat] /\ \A d \in Days : costDb[d] <= costDb'[d]
  <2>1. \/ costDb' = [costDb EXCEPT ![day] = costDb[day] + Rate[FamilyOf[m]]]
        \/ costDb' = costDb
    BY DEF EndSession, RecordCost
  <2>2. costDb[day] \in Nat /\ costDb[day] + Rate[FamilyOf[m]] \in Nat
        /\ costDb[day] <= costDb[day] + Rate[FamilyOf[m]] /\ \A d \in Days : costDb[d] \in Nat
    BY <1>2
  <2> QED
    BY <1>2, <2>1, <2>2
<1>4. ASSUME stopped PROVE StatusOf(TeamPolicy, SpentToday(costDb'), SpentMonth(costDb')) = "hard_stop"
  <2>1. SpentMonth(costDb) \in Nat /\ SpentMonth(costDb') \in Nat /\ SpentMonth(costDb) <= SpentMonth(costDb')
    BY <1>2, <1>3, MonthGrows, BudgetAssumption
  <2>2. SpentToday(costDb) \in Nat /\ SpentToday(costDb') \in Nat /\ SpentToday(costDb) <= SpentToday(costDb')
    BY <1>2, <1>3 DEF SpentToday
  <2>3. StatusOf(TeamPolicy, SpentToday(costDb), SpentMonth(costDb)) = "hard_stop"
    BY <1>4 DEF StopInv
  <2> QED
    BY <2>1, <2>2, <2>3, PolicyIsOne, StopGrows
<1> QED
    BY <1>1, <1>2, <1>3, <1>4
       DEF StopInv, StopOutlivesRestarts, TeamPolicy, SpentToday, SpentMonth, InMonth

\* A check with a database that answers: it takes the table's policy and the
\* table's sums, and a team that was told to stop is told so again.
LEMMA CheckInv == ASSUME StopInv, WithDatabase, ~DatabaseFails, CheckBudget PROVE StopInv'
<1>1. Policies = {TeamPolicy} /\ Sources = {costDb}
    BY DEF Policies, Sources, TeamPolicy
<1> DEFINE st == StatusOf(TeamPolicy, SpentToday(costDb), SpentMonth(costDb))
<1>2. /\ answer' = <<"budget", st>> /\ stopped' = (stopped \/ answer'[2] = "hard_stop")
      /\ costDb' = costDb /\ limits' = limits /\ day' = day
    BY <1>1 DEF CheckBudget
<1>3. (StatusOf(TeamPolicy, SpentToday(costDb), SpentMonth(costDb)))' = st
    BY <1>2 DEF TeamPolicy, SpentToday, SpentMonth, InMonth
<1>4. stopped => st = "hard_stop"
    BY DEF StopInv
<1> HIDE DEF st
<1>5. answer'[1] = "budget" /\ answer'[2] = st
    BY <1>2
<1> QED
    BY <1>2, <1>3, <1>4, <1>5 DEF StopInv, StopOutlivesRestarts

\* A policy that is set or written, noon, a new day and a restart.
LEMMA OtherInv ==
    ASSUME StopInv, WithDatabase,
           Noon \/ NextDay \/ RestartTracker \/ \E p \in LimitChoices : SetPolicy(p) \/ WriteTable(p)
    PROVE  StopInv'
<1>1. ASSUME NEW p \in LimitChoices, SetPolicy(p) PROVE StopInv'
  <2>1. /\ answer' = <<"policy", p>> /\ limits' = limits /\ costDb' = costDb /\ day' = day
        /\ stopped' = (stopped /\ WithDatabase)
    BY <1>1 DEF SetPolicy
  <2>2. answer'[1] # "budget"
    BY <2>1
  <2> QED
    BY <2>1, <2>2 DEF StopInv, StopOutlivesRestarts, TeamPolicy, SpentToday, SpentMonth, InMonth
<1>2. ASSUME NEW p \in LimitChoices, WriteTable(p) PROVE StopInv'
    BY <1>2 DEF WriteTable, StopInv, StopOutlivesRestarts
<1>3. CASE Noon
    BY <1>3 DEF Noon, StopInv, StopOutlivesRestarts, TeamPolicy, SpentToday, SpentMonth, InMonth
<1>4. CASE NextDay
  <2>1. day' \in Days
    BY <1>4, BudgetAssumption DEF NextDay, StopInv, Days
  <2> QED
    BY <1>4, <2>1 DEF NextDay, StopInv, StopOutlivesRestarts
<1>5. CASE RestartTracker
  <2>1. /\ answer' = <<>> /\ costDb' = costDb /\ day' = day /\ stopped' = stopped
        /\ limits' = [limits EXCEPT !["process"] = NoPolicy]
    BY <1>5 DEF RestartTracker
  <2>2. limits' \in [{"table", "process"} -> LimitChoices \cup {NoPolicy}] /\ limits'["table"] = limits["table"]
    BY <2>1 DEF StopInv
  <2> QED
    BY <2>1, <2>2 DEF StopInv, StopOutlivesRestarts, TeamPolicy, SpentToday, SpentMonth, InMonth
<1> QED
    BY <1>1, <1>2, <1>3, <1>4, <1>5

\* With a database that answers, check_budget tells a team to stop until its
\* day or its policy changes, over any restarts and sessions, for any prices
\* and policies (check_budget and the spend queries of cost_tracker.py).
THEOREM StopsAreKept ==
    ASSUME WithDatabase, ~DatabaseFails PROVE BudgetsSpec => []StopOutlivesRestarts
<1>1. BudgetsInit => StopInv
    BY BudgetAssumption DEF BudgetsInit, StopInv, StopOutlivesRestarts, Days
<1>2. StopInv /\ [BudgetsNext]_budgetVars => StopInv'
  <2> SUFFICES ASSUME StopInv, [BudgetsNext]_budgetVars PROVE StopInv'
    OBVIOUS
  <2>1. CASE UNCHANGED budgetVars
    BY <2>1 DEF budgetVars, StopInv, StopOutlivesRestarts, TeamPolicy, SpentToday, SpentMonth, InMonth
  <2>2. CASE BudgetsNext
    BY <2>2, SessionInv, CheckInv, OtherInv DEF BudgetsNext
  <2> QED
    BY <2>1, <2>2
<1>3. StopInv => StopOutlivesRestarts
    BY DEF StopInv
<1> QED
    BY <1>1, <1>2, <1>3, PTL DEF BudgetsSpec

-----------------------------------------------------------------------------
(* Accounts: why a login ends with an account, for any threads and logins,  *)
(* as long as there are not more requests and lost answers than slugs.      *)

ThreadStep == {"idle", "settings", "write", "ensure", "create", "member", "token"}
ThreadRecord == [at : ThreadStep,
                 who : Login \cup {"nobody"}, read : SUBSET Pref, arg : SUBSET (Pref \cup {"list", "by_hand"}),
                 slug : Nat]

\* Threads that may still make an account.
Creating == {t \in AThread : th[t].at \in {"ensure", "create"}}

\* The slugs a thread has tried, as rows, and with them all rows there are.
Tried(r) == IF r.arg = {"by_hand"} THEN {} ELSE {<<r.who, k>> : k \in 1..(r.slug - 1)}
Seen(t) == accts \cup Tried(th[t])

\* A thread that makes an account is at one of the slugs, and has the row
\* whose owner it is about to name.
Sound(r, rows) ==
    /\ r \in ThreadRecord
    /\ r.at # "idle" => r.who \in Login
    /\ r.at \in {"settings", "write", "ensure"} => r.slug = 1
    /\ r.at \in {"create", "member"} => r.slug \in Slug
    /\ r.at = "member" => <<r.who, r.slug>> \in rows

ThreadsAreSound ==
    th = [t \in AThread |-> th[t]] /\ \A t \in AThread : Sound(th[t], accts)

\* A row and a slug that is passed over cost a request or an answer each, and
\* so does a thread that is to make an account.
RowsAreCounted ==
    /\ acts \in 0..MaxAct
    /\ Cardinality(accts) + Cardinality(Creating) <= acts
    /\ \A t \in AThread : Cardinality(Seen(t)) + Cardinality(Creating) <= acts

AccountsInv ==
    /\ ThreadsAreSound /\ RowsAreCounted
    /\ accts \subseteq Login \X Slug /\ member \in [Login -> SUBSET (Login \X Slug)]
    /\ prefs \in [Login -> SUBSET Pref]

\* The sets that are counted are finite.
LEMMA CountsAreNumbers ==
    ASSUME AccountsInv
    PROVE  /\ IsFiniteSet(accts) /\ IsFiniteSet(Creating) /\ Cardinality(accts) \in Nat /\ Cardinality(Creating) \in Nat
           /\ \A t \in AThread : IsFiniteSet(Seen(t)) /\ Cardinality(Seen(t)) \in Nat
<1>1. IsFiniteSet(Slug)
  <2>1. 1 \in Int /\ SlugTries \in Int
    BY AccountAssumption
  <2> QED
    BY <2>1, FS_Interval DEF Slug
<1>2. IsFiniteSet(Login \X Slug)
    BY <1>1, AccountAssumption, FS_Product
<1>3. IsFiniteSet(accts) /\ Cardinality(accts) \in Nat
    BY <1>2, FS_Subset, FS_CardinalityType DEF AccountsInv
<1>4. IsFiniteSet(Creating) /\ Cardinality(Creating) \in Nat
    BY AccountAssumption, FS_Subset, FS_CardinalityType DEF Creating
<1>5. ASSUME NEW t \in AThread PROVE IsFiniteSet(Seen(t)) /\ Cardinality(Seen(t)) \in Nat
  <2>1. IsFiniteSet(Tried(th[t]))
    <3> DEFINE w == th[t].who
               n == th[t].slug - 1
               S == {w} \X (1..n)
    <3>1. th[t].slug \in Nat
      BY DEF AccountsInv, ThreadsAreSound, Sound, ThreadRecord
    <3>a. 1 \in Int /\ n \in Int
      BY <3>1
    <3>4. Tried(th[t]) \in SUBSET S
      <4>1. \A k \in 1..n : <<w, k>> \in S
        OBVIOUS
      <4>2. Tried(th[t]) = {} \/ Tried(th[t]) = {<<w, k>> : k \in 1..n}
        BY DEF Tried
      <4> HIDE DEF S, w, n
      <4> QED
        BY <4>1, <4>2
    <3> HIDE DEF n, w
    <3>2. IsFiniteSet(1..n) /\ IsFiniteSet({w})
      BY <3>a, FS_Interval, FS_Singleton
    <3>3. IsFiniteSet(S)
      BY <3>2, FS_Product
    <3> QED
      BY <3>3, <3>4, FS_Subset
  <2>2. IsFiniteSet(Seen(t))
    BY <1>3, <2>1, FS_Union DEF Seen
  <2> QED
    BY <2>2, FS_CardinalityType
<1> QED
    BY <1>3, <1>4, <1>5

\* A set grows by one element at most when nothing but that is added.
LEMMA GrowsByOne ==
    ASSUME NEW A, IsFiniteSet(A), NEW a, NEW B, B \subseteq A \cup {a}
    PROVE  /\ IsFiniteSet(B) /\ Cardinality(A) \in Nat /\ Cardinality(B) \in Nat
           /\ Cardinality(B) <= Cardinality(A) + 1
           /\ B \subseteq A => Cardinality(B) <= Cardinality(A)
<1>1. /\ IsFiniteSet(A \cup {a})
      /\ Cardinality(A \cup {a}) = Cardinality(A) \/ Cardinality(A \cup {a}) = Cardinality(A) + 1
    BY FS_AddElement
<1>2. Cardinality(A) \in Nat
    BY FS_CardinalityType
<1>3. IsFiniteSet(B) /\ Cardinality(B) <= Cardinality(A \cup {a})
    BY <1>1, FS_Subset
<1>4. Cardinality(B) \in Nat /\ Cardinality(A \cup {a}) \in Nat
    BY <1>1, <1>3, FS_CardinalityType
<1>5. B \subseteq A => Cardinality(B) <= Cardinality(A)
    BY FS_Subset
<1> QED
    BY <1>1, <1>2, <1>3, <1>4, <1>5

\* A step keeps the counts when it makes no row and no thread that may make
\* one, or pays for it: with a request, with an answer that is lost, or with
\* the thread that makes it.
LEMMA CountsAreKept ==
    ASSUME AccountsInv, ThreadsAreSound', accts' \subseteq Login \X Slug,
           member' \in [Login -> SUBSET (Login \X Slug)], prefs' \in [Login -> SUBSET Pref],
           acts' \in 0..MaxAct, NEW a, NEW t,
           \/ /\ accts' \subseteq accts /\ \A x \in AThread : Seen(x)' \subseteq Seen(x)
              /\ Creating' \subseteq Creating /\ acts <= acts'
           \/ /\ accts' \subseteq accts /\ \A x \in AThread : Seen(x)' \subseteq Seen(x)
              /\ Creating' \subseteq Creating \cup {t} /\ acts' = acts + 1
           \/ /\ accts' \subseteq accts \cup {a} /\ \A x \in AThread : Seen(x)' \subseteq Seen(x) \cup {a}
              /\ t \in Creating /\ Creating' \subseteq Creating \ {t} /\ acts' = acts
           \/ /\ accts' \subseteq accts \cup {a} /\ \A x \in AThread : Seen(x)' \subseteq Seen(x) \cup {a}
              /\ Creating' \subseteq Creating /\ acts' = acts + 1
    PROVE  AccountsInv'
<1> USE CountsAreNumbers
<1>0. /\ acts \in Nat /\ acts' \in Nat
      /\ Cardinality(accts) + Cardinality(Creating) <= acts
      /\ \A x \in AThread : Cardinality(Seen(x)) + Cardinality(Creating) <= acts
  <2>1. MaxAct \in Nat /\ acts \in 0..MaxAct
    BY AccountAssumption DEF AccountsInv, RowsAreCounted
  <2>2. acts \in Nat /\ acts' \in Nat
    BY <2>1
  <2>3. /\ Cardinality(accts) + Cardinality(Creating) <= acts
        /\ \A x \in AThread : Cardinality(Seen(x)) + Cardinality(Creating) <= acts
    BY DEF AccountsInv, RowsAreCounted
  <2> QED
    BY <2>2, <2>3
<1> DEFINE c == Cardinality(Creating)
           d == Cardinality(Creating')
<1>1. /\ c \in Nat
      /\ Creating' \subseteq Creating => d \in Nat /\ d <= c
      /\ Creating' \subseteq Creating \cup {t} => d \in Nat /\ d <= c + 1
    BY GrowsByOne
<1>2. t \in Creating /\ Creating' \subseteq Creating \ {t} => d \in Nat /\ d + 1 <= c
  <2> SUFFICES ASSUME t \in Creating, Creating' \subseteq Creating \ {t} PROVE d \in Nat /\ d + 1 <= c
    OBVIOUS
  <2>1. IsFiniteSet(Creating \ {t}) /\ Cardinality(Creating \ {t}) = c - 1
    BY FS_RemoveElement
  <2>2. IsFiniteSet(Creating') /\ Cardinality(Creating') <= Cardinality(Creating \ {t})
    BY <2>1, FS_Subset
  <2>3. d \in Nat
    BY <2>2, FS_CardinalityType
  <2> HIDE DEF c
  <2> QED
    BY <1>1, <2>1, <2>2, <2>3
<1>3. ASSUME NEW A, IsFiniteSet(A), NEW B, Cardinality(A) \in Nat, Cardinality(A) + c <= acts,
             \/ B \subseteq A /\ Creating' \subseteq Creating /\ acts <= acts'
             \/ B \subseteq A /\ Creating' \subseteq Creating \cup {t} /\ acts' = acts + 1
             \/ B \subseteq A \cup {a} /\ t \in Creating /\ Creating' \subseteq Creating \ {t} /\ acts' = acts
             \/ B \subseteq A \cup {a} /\ Creating' \subseteq Creating /\ acts' = acts + 1
      PROVE  Cardinality(B) + d <= acts'
  <2>1. /\ B \subseteq A \cup {a} => Cardinality(B) \in Nat /\ Cardinality(B) <= Cardinality(A) + 1
        /\ B \subseteq A => Cardinality(B) \in Nat /\ Cardinality(B) <= Cardinality(A)
    BY <1>3, GrowsByOne
  <2> HIDE DEF c, d
  <2> QED
    BY <1>0, <1>1, <1>2, <1>3, <2>1
<1>4. Cardinality(accts') + d <= acts'
    BY <1>0, <1>3
<1>5. ASSUME NEW x \in AThread PROVE Cardinality(Seen(x)') + d <= acts'
    BY <1>0, <1>3
<1>6. RowsAreCounted'
    BY <1>4, <1>5 DEF RowsAreCounted
<1> QED
    BY <1>6 DEF AccountsInv

\* One thread goes on.
LEMMA OneThreadMoves ==
    ASSUME AccountsInv, NEW t \in AThread, NEW r, th' = [th EXCEPT ![t] = r], accts \subseteq accts', Sound(r, accts')
    PROVE  /\ ThreadsAreSound'
           /\ \A x \in AThread : Seen(x)' = accts' \cup Tried(IF x = t THEN r ELSE th[x])
           /\ Creating' = (Creating \ {t}) \cup (IF r.at \in {"ensure", "create"} THEN {t} ELSE {})
<1>1. \A x \in AThread : th'[x] = IF x = t THEN r ELSE th[x]
    BY DEF AccountsInv, ThreadsAreSound
<1>2. \A x \in AThread : Sound(th'[x], accts')
    BY <1>1 DEF AccountsInv, ThreadsAreSound, Sound
<1>3. th' = [x \in AThread |-> th'[x]]
    BY DEF AccountsInv, ThreadsAreSound
<1>4. \A x \in AThread : Seen(x)' = accts' \cup Tried(th'[x])
    BY DEF Seen, Tried
<1>5. Creating' = (Creating \ {t}) \cup (IF r.at \in {"ensure", "create"} THEN {t} ELSE {})
    BY <1>1 DEF Creating
<1>6. ThreadsAreSound'
    BY <1>2, <1>3 DEF ThreadsAreSound, Sound
<1> QED
    BY <1>1, <1>4, <1>5, <1>6

\* A thread that has tried nothing more, and the rows as they were.
LEMMA QuietStep ==
    ASSUME AccountsInv, NEW t \in AThread, NEW r, th' = [th EXCEPT ![t] = r], accts' = accts, Sound(r, accts),
           member' \in [Login -> SUBSET (Login \X Slug)], prefs' \in [Login -> SUBSET Pref],
           Tried(r) \subseteq Seen(t),
           \/ r.at \notin {"ensure", "create"} /\ acts' = acts
           \/ t \in Creating /\ acts' = acts
           \/ acts < MaxAct /\ acts' = acts + 1
    PROVE  AccountsInv'
<1>1. /\ ThreadsAreSound'
      /\ \A x \in AThread : Seen(x)' = accts' \cup Tried(IF x = t THEN r ELSE th[x])
      /\ Creating' = (Creating \ {t}) \cup (IF r.at \in {"ensure", "create"} THEN {t} ELSE {})
    BY OneThreadMoves
<1>2. acts \in 0..MaxAct /\ MaxAct \in Nat /\ acts \in Nat
  <2>1. acts \in 0..MaxAct /\ MaxAct \in Nat
    BY AccountAssumption DEF AccountsInv, RowsAreCounted
  <2> QED
    BY <2>1
<1>3. acts' \in 0..MaxAct
    BY <1>2
<1>4. \A x \in AThread : Seen(x)' \subseteq Seen(x)
    BY <1>1 DEF Seen
<1>5. \/ Creating' \subseteq Creating /\ acts <= acts'
      \/ Creating' \subseteq Creating \cup {t} /\ acts' = acts + 1
    BY <1>1, <1>2
<1>6. accts' \subseteq Login \X Slug /\ accts' \subseteq accts
    BY DEF AccountsInv
<1> QED
    BY <1>1, <1>3, <1>4, <1>5, <1>6, CountsAreKept

\* A thread takes a request: it counts.
LEMMA BeginInv ==
    ASSUME AccountsInv, NEW t \in AThread, NEW at \in {"idle", "settings", "ensure"}, NEW who \in Login \cup {"nobody"},
           at # "idle" => who \in Login, Begin(t, at, who), accts' = accts,
           member' \in [Login -> SUBSET (Login \X Slug)], prefs' \in [Login -> SUBSET Pref]
    PROVE  AccountsInv'
<1> DEFINE r == [Idle EXCEPT !.at = at, !.who = who]
<1>1. th' = [th EXCEPT ![t] = r] /\ acts < MaxAct /\ acts' = acts + 1
    BY DEF Begin
<1>2. r \in ThreadRecord /\ r.at = at /\ r.who = who /\ r.slug = 1
    BY DEF Idle, ThreadRecord, ThreadStep
<1> HIDE DEF r
<1>4. Tried(r) = {}
  <2>1. r.slug - 1 = 0 /\ 1..0 = {}
    BY <1>2
  <2> QED
    BY <2>1 DEF Tried
<1>3. Sound(r, accts)
    BY <1>2 DEF Sound
<1> QED
    BY <1>1, <1>2, <1>3, <1>4, QuietStep

\* The requests that touch neither accounts nor members.
LEMMA RequestsInv ==
    ASSUME AccountsInv, NEW t \in AThread,
           \/ \E l \in Login :
                \/ GetMe(t, l) \/ ReadSettings(t, l) \/ AuthCallback(t, l)
                \/ \E n \in SecretName : CreateSecret(t, l, n) \/ DeleteSecret(t, l, n)
           \/ \E n \in SecretName : CreateSharedSecret(t, n) \/ DeleteSharedSecret(t, n)
           \/ PurgeExpired(t)
    PROVE  AccountsInv'
<1>0. member \in [Login -> SUBSET (Login \X Slug)] /\ prefs \in [Login -> SUBSET Pref]
    BY DEF AccountsInv
<1>1. accts' = accts /\ member' = member /\ prefs' = prefs
    BY DEF GetMe, ReadSettings, AuthCallback, CreateSecret, DeleteSecret, CreateSharedSecret,
           DeleteSharedSecret, PurgeExpired
<1>2. \/ Begin(t, "idle", "nobody")
      \/ \E l \in Login : Begin(t, "settings", l) \/ Begin(t, "ensure", l)
    BY DEF GetMe, ReadSettings, AuthCallback, CreateSecret, DeleteSecret, CreateSharedSecret,
           DeleteSharedSecret, PurgeExpired
<1>3. CASE Begin(t, "idle", "nobody")
    BY <1>0, <1>1, <1>3, BeginInv
<1>4. ASSUME NEW l \in Login, Begin(t, "settings", l) \/ Begin(t, "ensure", l) PROVE AccountsInv'
  <2>1. CASE Begin(t, "settings", l)
    BY <1>0, <1>1, <2>1, BeginInv
  <2>2. CASE Begin(t, "ensure", l)
    BY <1>0, <1>1, <2>2, BeginInv
  <2> QED
    BY <1>4, <2>1, <2>2
<1> QED
    BY <1>2, <1>3, <1>4

\* Members are invited and removed.
LEMMA MembersInv ==
    ASSUME AccountsInv, NEW t \in AThread, NEW l \in Login, NEW a \in accts, InviteMember(t, l, a) \/ RemoveMember(t, l, a)
    PROVE  AccountsInv'
<1>0. accts \subseteq Login \X Slug /\ member \in [Login -> SUBSET (Login \X Slug)] /\ prefs \in [Login -> SUBSET Pref]
    BY DEF AccountsInv
<1>1. accts' = accts /\ prefs' = prefs /\ Begin(t, "idle", "nobody")
    BY DEF InviteMember, RemoveMember
<1>2. \/ member' = [member EXCEPT ![l] = member[l] \cup {a}]
      \/ member' = [member EXCEPT ![l] = member[l] \ {a}]
    BY DEF InviteMember, RemoveMember
<1>3. member' \in [Login -> SUBSET (Login \X Slug)]
  <2>1. member[l] \cup {a} \in SUBSET (Login \X Slug) /\ member[l] \ {a} \in SUBSET (Login \X Slug)
    BY <1>0
  <2> HIDE DEF Slug
  <2> QED
    BY <1>0, <1>2, <2>1
<1> QED
    BY <1>0, <1>1, <1>3, BeginInv

\* A thread lists the accounts, or makes one by hand.
LEMMA AskedInv ==
    ASSUME AccountsInv, NEW t \in AThread, NEW l \in Login, ListAccounts(t, l) \/ CreateAccount(t, l)
    PROVE  AccountsInv'
<1>0. accts' = accts /\ member' = member /\ prefs' = prefs /\ acts < MaxAct /\ acts' = acts + 1
      /\ member \in [Login -> SUBSET (Login \X Slug)] /\ prefs \in [Login -> SUBSET Pref]
    BY DEF AccountsInv, ListAccounts, CreateAccount
<1>1. CASE ListAccounts(t, l)
  <2> DEFINE r == [Idle EXCEPT !.at = "ensure", !.who = l, !.arg = {"list"}]
  <2>1. th' = [th EXCEPT ![t] = r]
    BY <1>1 DEF ListAccounts
  <2>2. r \in ThreadRecord /\ r.at = "ensure" /\ r.who = l /\ r.slug = 1 /\ r.arg = {"list"}
    BY DEF Idle, ThreadRecord, ThreadStep
  <2> HIDE DEF r
  <2>3. Tried(r) = {}
    <3>1. r.slug - 1 = 0 /\ 1..0 = {}
      BY <2>2
    <3> QED
      BY <3>1 DEF Tried
  <2>4. Sound(r, accts)
    BY <2>2 DEF Sound
  <2> QED
    BY <1>0, <2>1, <2>2, <2>3, <2>4, QuietStep
<1>2. CASE CreateAccount(t, l)
  <2> DEFINE r == [Idle EXCEPT !.at = "create", !.who = l, !.arg = {"by_hand"}, !.slug = SlugTries]
  <2>1. th' = [th EXCEPT ![t] = r]
    BY <1>2 DEF CreateAccount
  <2>a. SlugTries \in Nat /\ SlugTries \in Slug
    BY AccountAssumption DEF Slug
  <2>2. r \in ThreadRecord /\ r.at = "create" /\ r.who = l /\ r.slug = SlugTries /\ r.arg = {"by_hand"}
    BY <2>a DEF Idle, ThreadRecord, ThreadStep
  <2> HIDE DEF r
  <2>3. Tried(r) = {}
    BY <2>2 DEF Tried
  <2>4. Sound(r, accts)
    BY <2>a, <2>2 DEF Sound
  <2> QED
    BY <1>0, <2>1, <2>2, <2>3, <2>4, QuietStep
<1> QED
    BY <1>1, <1>2

\* What setting the step of a thread does.
LEMMA StepSet ==
    ASSUME NEW r \in ThreadRecord, NEW at \in ThreadStep
    PROVE  LET s == [r EXCEPT !.at = at]
           IN  s \in ThreadRecord /\ s.at = at /\ s.who = r.who /\ s.arg = r.arg /\ s.slug = r.slug
               /\ s.read = r.read
BY DEF ThreadRecord

\* Settings are merged and written, and the token is stored.
LEMMA EndsInv ==
    ASSUME AccountsInv, NEW t \in AThread, MergeSettings(t) \/ WriteSettings(t) \/ StoreToken(t)
    PROVE  AccountsInv'
<1>0. accts' = accts /\ member' = member /\ acts' = acts
      /\ member \in [Login -> SUBSET (Login \X Slug)] /\ prefs \in [Login -> SUBSET Pref] /\ Sound(th[t], accts)
    BY DEF AccountsInv, ThreadsAreSound, MergeSettings, WriteSettings, StoreToken
<1>1. CASE MergeSettings(t)
  <2>1. PICK p \in Pref :
          th' = [th EXCEPT ![t].at = "write", ![t].read = prefs[th[t].who] \cup {p}, ![t].arg = {p}]
    BY <1>1 DEF MergeSettings
  <2>2. th[t].at = "settings" /\ prefs' = prefs /\ th[t] \in ThreadRecord /\ th[t].who \in Login /\ th[t].slug = 1
    BY <1>0, <1>1 DEF MergeSettings, Sound
  <2> DEFINE m == prefs[th[t].who] \cup {p}
             r == [th[t] EXCEPT !.at = "write", !.read = m, !.arg = {p}]
  <2>3. th' = [th EXCEPT ![t] = r]
    BY <2>1
  <2>4. m \in SUBSET Pref
    BY <1>0, <2>2
  <2> HIDE DEF m
  <2>5. r \in ThreadRecord /\ r.at = "write" /\ r.who = th[t].who /\ r.slug = 1
    BY <2>2, <2>4 DEF ThreadRecord, ThreadStep
  <2> HIDE DEF r
  <2>6. Tried(r) = {}
    <3>1. r.slug - 1 = 0 /\ 1..0 = {}
      BY <2>5
    <3> QED
      BY <3>1 DEF Tried
  <2>7. Sound(r, accts)
    BY <2>2, <2>5 DEF Sound
  <2> QED
    BY <1>0, <2>2, <2>3, <2>5, <2>6, <2>7, QuietStep
<1>2. CASE WriteSettings(t) \/ StoreToken(t)
  <2>1. th' = [th EXCEPT ![t] = Idle]
    BY <1>2 DEF WriteSettings, StoreToken
  <2>2. Idle \in ThreadRecord /\ Idle.at = "idle" /\ Tried(Idle) = {}
    <3>1. Idle \in ThreadRecord /\ Idle.at = "idle" /\ Idle.slug = 1
      BY DEF Idle, ThreadRecord, ThreadStep
    <3>2. Idle.slug - 1 = 0 /\ 1..0 = {}
      BY <3>1
    <3> QED
      BY <3>1, <3>2 DEF Tried
  <2>3. prefs' \in [Login -> SUBSET Pref]
    <3>1. prefs' = prefs \/ (th[t].at = "write" /\ prefs' = [prefs EXCEPT ![th[t].who] = th[t].read])
      BY <1>2 DEF WriteSettings, StoreToken
    <3>2. th[t].read \in SUBSET Pref
      BY <1>0 DEF Sound, ThreadRecord
    <3> QED
      BY <1>0, <3>1, <3>2
  <2>4. Sound(Idle, accts)
    BY <2>2 DEF Sound
  <2> QED
    BY <1>0, <2>1, <2>2, <2>3, <2>4, QuietStep
<1> QED
    BY <1>1, <1>2

\* A thread that passes a slug over has tried one more.
LEMMA PassSlug ==
    ASSUME NEW r \in ThreadRecord, r.slug \in Slug
    PROVE  LET s == [r EXCEPT !.slug = r.slug + 1, !.at = "create"]
           IN  /\ s \in ThreadRecord /\ s.at = "create" /\ s.who = r.who /\ s.slug = r.slug + 1
               /\ Tried(s) \subseteq Tried(r) \cup {<<r.who, r.slug>>}
<1> DEFINE n == r.slug
           m == n + 1
           s == [r EXCEPT !.slug = m, !.at = "create"]
<1>1. n \in Nat /\ m \in Nat
    BY DEF ThreadRecord
<1>2. 1..(m - 1) = (1..(n - 1)) \cup {n}
  <2>1. SlugTries \in Nat /\ n \in 1..SlugTries
    BY AccountAssumption DEF Slug
  <2> QED
    BY <2>1
<1> HIDE DEF m
<1>3. s \in ThreadRecord /\ s.at = "create" /\ s.who = r.who /\ s.slug = m /\ s.arg = r.arg
    BY <1>1 DEF ThreadRecord, ThreadStep
<1> HIDE DEF s, n
<1>4. Tried(s) \subseteq Tried(r) \cup {<<r.who, n>>}
  <2>1. Tried(r) = IF r.arg = {"by_hand"} THEN {} ELSE {<<r.who, k>> : k \in 1..(n - 1)}
    BY DEF Tried, n
  <2>2. Tried(s) = IF r.arg = {"by_hand"} THEN {} ELSE {<<r.who, k>> : k \in 1..(m - 1)}
    BY <1>3 DEF Tried
  <2> QED
    BY <1>2, <2>1, <2>2
<1> QED
    BY <1>3, <1>4 DEF s, m, n

\* As many slugs as rows with them.
LEMMA RowsOfSlugs ==
    ASSUME NEW w, NEW n \in Nat
    PROVE  IsFiniteSet({<<w, k>> : k \in 1..n}) /\ Cardinality({<<w, k>> : k \in 1..n}) = n
<1> DEFINE T == {<<w, k>> : k \in 1..n}
           f == [k \in 1..n |-> <<w, k>>]
<1>1. 1 \in Int /\ n \in Int
    OBVIOUS
<1>2. IsFiniteSet(1..n) /\ Cardinality(1..n) = IF 1 > n THEN 0 ELSE n - 1 + 1
    BY <1>1, FS_Interval
<1>3. Cardinality(1..n) = n
    BY <1>2
<1>4. f \in Bijection(1..n, T)
    BY DEF Bijection, Injection, Surjection, IsInjective
<1> HIDE DEF T, f
<1>5. IsFiniteSet(T) /\ Cardinality(T) = Cardinality(1..n)
    BY <1>2, <1>4, FS_Bijection DEF ExistsBijection
<1> QED
    BY <1>3, <1>5 DEF T

\* There are as many slugs as requests, so that a login does not run out of
\* them: each slug that it passed over cost one.
LEMMA SlugsSuffice ==
    ASSUME AccountsInv, MaxAct <= SlugTries, NEW t \in AThread, th[t].arg # {"by_hand"},
           \/ th[t].at = "create" /\ <<th[t].who, th[t].slug>> \in accts
           \/ th[t].at \in {"create", "member"} /\ acts < MaxAct
    PROVE  th[t].slug + 1 \in Slug
<1> DEFINE w == th[t].who
           n == th[t].slug
           N == SlugTries
<1>0. /\ N \in Nat /\ MaxAct \in Nat /\ acts \in Nat /\ acts <= MaxAct
      /\ n \in 1..N /\ (th[t].at = "member" => <<w, n>> \in accts)
      /\ Cardinality(Seen(t)) + Cardinality(Creating) <= acts
  <2>1. N \in Nat /\ MaxAct \in Nat /\ acts \in 0..MaxAct /\ Cardinality(Seen(t)) + Cardinality(Creating) <= acts
    BY AccountAssumption DEF AccountsInv, RowsAreCounted
  <2>2. n \in 1..N /\ (th[t].at = "member" => <<w, n>> \in accts)
    BY DEF AccountsInv, ThreadsAreSound, Sound, Slug
  <2>3. acts \in Nat /\ acts <= MaxAct
    BY <2>1
  <2> QED
    BY <2>1, <2>2, <2>3
<1>1. IsFiniteSet(Seen(t)) /\ Cardinality(Seen(t)) \in Nat /\ IsFiniteSet(Creating) /\ Cardinality(Creating) \in Nat
    BY CountsAreNumbers
<1>2. Tried(th[t]) = {<<w, k>> : k \in 1..(n - 1)}
    BY DEF Tried
<1>3. th[t].at = "create" => Cardinality(Creating) >= 1
  <2> SUFFICES ASSUME th[t].at = "create" PROVE Cardinality(Creating) >= 1
    OBVIOUS
  <2>1. t \in Creating
    BY DEF Creating
  <2>2. Cardinality(Creating) # 0
    BY <1>1, <2>1, FS_EmptySet
  <2> QED
    BY <1>1, <2>2
<1>4. \A m \in Nat : {<<w, k>> : k \in 1..m} \subseteq Seen(t) => m <= Cardinality(Seen(t))
  <2> SUFFICES ASSUME NEW m \in Nat, {<<w, k>> : k \in 1..m} \subseteq Seen(t) PROVE m <= Cardinality(Seen(t))
    OBVIOUS
  <2> DEFINE T == {<<w, k>> : k \in 1..m}
  <2>1. Cardinality(T) = m
    BY RowsOfSlugs
  <2> HIDE DEF T
  <2> QED
    BY <1>1, <2>1, FS_Subset DEF T
<1>5. n - 1 <= Cardinality(Seen(t))
  <2>1. n - 1 \in Nat
    BY <1>0
  <2>2. {<<w, k>> : k \in 1..(n - 1)} \subseteq Seen(t)
    BY <1>2 DEF Seen
  <2> QED
    BY <1>4, <2>1, <2>2
<1>6. <<w, n>> \in accts => n <= Cardinality(Seen(t))
  <2> SUFFICES ASSUME <<w, n>> \in accts PROVE n <= Cardinality(Seen(t))
    OBVIOUS
  <2>1. \A k \in 1..n : k = n \/ k \in 1..(n - 1)
    BY <1>0
  <2>2. {<<w, k>> : k \in 1..n} \subseteq Seen(t)
    BY <1>2, <2>1 DEF Seen
  <2>3. n \in Nat
    BY <1>0
  <2> QED
    BY <1>4, <2>2, <2>3
<1>7. n < N
  <2> HIDE DEF n, w, N
  <2>1. N = SlugTries
    BY DEF N
  <2>2. n \in Nat /\ n >= 1 /\ n <= N
    BY <1>0
  <2>3. CASE th[t].at = "create" /\ <<w, n>> \in accts
    BY <1>0, <1>1, <1>3, <1>6, <2>1, <2>2, <2>3
  <2>4. CASE th[t].at = "create" /\ acts < MaxAct
    BY <1>0, <1>1, <1>3, <1>5, <2>1, <2>2, <2>4
  <2>5. CASE th[t].at = "member" /\ acts < MaxAct
    BY <1>0, <1>1, <1>6, <2>1, <2>2, <2>5
  <2> QED
    BY <2>3, <2>4, <2>5 DEF n, w
<1> QED
    BY <1>0, <1>7 DEF Slug

\* A thread passes a slug over: it goes on with the next one, or gives up.
\* The slug is taken, or an answer is lost, with or without a row made.
LEMMA NextSlugInv ==
    ASSUME AccountsInv, NEW t \in AThread, th[t].at \in {"create", "member"}, NextSlug(t),
           member' \in [Login -> SUBSET (Login \X Slug)], prefs' = prefs,
           LET a == <<th[t].who, th[t].slug>>
           IN  \/ a \in accts /\ th[t].at = "create" /\ accts' = accts /\ acts' = acts
               \/ /\ acts < MaxAct /\ acts' = acts + 1
                  /\ \/ a \in accts /\ accts' = accts
                     \/ th[t].at = "create" /\ accts' \in {accts, accts \cup {a}}
    PROVE  AccountsInv'
<1> DEFINE a == <<th[t].who, th[t].slug>>
           g == [th[t] EXCEPT !.slug = th[t].slug + 1, !.at = "create"]
           e == [th[t] EXCEPT !.at = "token"]
<1>0. /\ th[t] \in ThreadRecord /\ th[t].who \in Login /\ th[t].slug \in Slug
      /\ accts \subseteq Login \X Slug /\ prefs \in [Login -> SUBSET Pref]
      /\ acts \in Nat /\ acts \in 0..MaxAct /\ MaxAct \in Nat
  <2>1. MaxAct \in Nat /\ acts \in 0..MaxAct
    BY AccountAssumption DEF AccountsInv, RowsAreCounted
  <2>2. acts \in Nat
    BY <2>1
  <2>3. Sound(th[t], accts) /\ accts \subseteq Login \X Slug /\ prefs \in [Login -> SUBSET Pref]
    BY DEF AccountsInv, ThreadsAreSound
  <2>4. th[t] \in ThreadRecord /\ th[t].who \in Login /\ th[t].slug \in Slug
    BY <2>3 DEF Sound
  <2> QED
    BY <2>1, <2>2, <2>3, <2>4
<1>1. \/ th[t].slug + 1 \in Slug /\ th' = [th EXCEPT ![t] = g]
      \/ th' = [th EXCEPT ![t] = e]
    BY DEF NextSlug
<1>2. /\ g \in ThreadRecord /\ g.at = "create" /\ g.who = th[t].who /\ g.slug = th[t].slug + 1
      /\ Tried(g) \subseteq Tried(th[t]) \cup {a}
    BY <1>0, PassSlug
<1>a. "token" \in ThreadStep
    BY DEF ThreadStep
<1>3. /\ e \in ThreadRecord /\ e.at = "token" /\ e.who = th[t].who /\ e.arg = th[t].arg /\ e.slug = th[t].slug
    BY <1>0, <1>a, StepSet
<1>4. Tried(e) = Tried(th[t])
    BY <1>3 DEF Tried
<1>5. a \in Login \X Slug
    BY <1>0
<1>6. accts \subseteq accts' /\ accts' \subseteq accts \cup {a} /\ accts' \subseteq Login \X Slug
    BY <1>0, <1>5
<1>7. acts' \in 0..MaxAct
    BY <1>0
<1>8. \/ a \in accts /\ th[t].at = "create" /\ accts' = accts /\ acts' = acts
      \/ acts' = acts + 1 /\ a \in accts /\ accts' = accts
      \/ acts' = acts + 1 /\ th[t].at = "create" /\ accts' \subseteq accts \cup {a}
    BY <1>6
<1>9. th[t].at = "create" => t \in Creating
    BY DEF Creating
<1> HIDE DEF g, e, a
<1>10. ASSUME NEW r, (r = g /\ th[t].slug + 1 \in Slug) \/ r = e, th' = [th EXCEPT ![t] = r] PROVE AccountsInv'
  <2>1. r \in ThreadRecord /\ r.at \in {"create", "token"} /\ r.who \in Login
        /\ (r.at = "create" => r.slug \in Slug) /\ Tried(r) \subseteq Tried(th[t]) \cup {a}
    BY <1>0, <1>2, <1>3, <1>4, <1>10
  <2>2. Sound(r, accts')
    BY <2>1 DEF Sound
  <2>3. /\ ThreadsAreSound'
        /\ \A x \in AThread : Seen(x)' = accts' \cup Tried(IF x = t THEN r ELSE th[x])
        /\ Creating' = (Creating \ {t}) \cup (IF r.at \in {"ensure", "create"} THEN {t} ELSE {})
    BY <1>6, <1>10, <2>2, OneThreadMoves
  <2>4. \A x \in AThread : Seen(x)' \subseteq accts' \cup Tried(th[x]) \cup {a}
                           /\ (x # t => Seen(x)' = accts' \cup Tried(th[x]))
    BY <2>1, <2>3
  <2>5. a \in accts /\ accts' = accts => accts' \subseteq accts /\ \A x \in AThread : Seen(x)' \subseteq Seen(x)
    BY <2>4 DEF Seen
  <2>6. \A x \in AThread : Seen(x)' \subseteq Seen(x) \cup {a}
    BY <1>6, <2>4 DEF Seen
  <2>7. Creating' \subseteq Creating \cup {t} /\ (t \in Creating => Creating' \subseteq Creating)
    BY <2>3
  <2>8. acts <= acts'
    BY <1>0, <1>8
  <2>9. \/ /\ accts' \subseteq accts /\ \A x \in AThread : Seen(x)' \subseteq Seen(x)
           /\ Creating' \subseteq Creating /\ acts <= acts'
        \/ /\ accts' \subseteq accts /\ \A x \in AThread : Seen(x)' \subseteq Seen(x)
           /\ Creating' \subseteq Creating \cup {t} /\ acts' = acts + 1
        \/ /\ accts' \subseteq accts \cup {a} /\ \A x \in AThread : Seen(x)' \subseteq Seen(x) \cup {a}
           /\ Creating' \subseteq Creating /\ acts' = acts + 1
    BY <1>6, <1>8, <1>9, <2>5, <2>6, <2>7, <2>8
  <2> QED
    BY <1>0, <1>6, <1>7, <2>3, <2>9, CountsAreKept
<1> QED
    BY <1>1, <1>10

\* A login looks for its accounts, makes one, and names its owner.
LEMMA EnsureInv ==
    ASSUME AccountsInv, NEW t \in AThread, GetUserAccounts(t) \/ PostAccount(t) \/ PostOwner(t)
    PROVE  AccountsInv'
<1> DEFINE w == th[t].who
           a == <<th[t].who, th[t].slug>>
<1>0. /\ th[t] \in ThreadRecord /\ Sound(th[t], accts) /\ accts \subseteq Login \X Slug
      /\ member \in [Login -> SUBSET (Login \X Slug)] /\ prefs \in [Login -> SUBSET Pref] /\ prefs' = prefs
    BY DEF AccountsInv, ThreadsAreSound, Sound, GetUserAccounts, PostAccount, PostOwner
<1>1. ASSUME NEW at \in ThreadStep, Goto(t, at),
             th[t].at \in {"ensure", "create", "member"}
      PROVE  LET r == [th[t] EXCEPT !.at = at]
             IN  /\ th' = [th EXCEPT ![t] = r] /\ r \in ThreadRecord /\ r.at = at /\ r.who = w
                 /\ r.slug = th[t].slug /\ Tried(r) = Tried(th[t]) /\ r.who \in Login /\ r.slug \in Slug
  <2> DEFINE r == [th[t] EXCEPT !.at = at]
  <2>1. th' = [th EXCEPT ![t] = r]
    BY <1>1 DEF Goto
  <2>2. r \in ThreadRecord /\ r.at = at /\ r.who = w /\ r.arg = th[t].arg /\ r.slug = th[t].slug
    BY <1>0, <1>1, StepSet
  <2> HIDE DEF r
  <2>3. Tried(r) = Tried(th[t])
    BY <2>2 DEF Tried
  <2>4. 1 \in Slug
    BY AccountAssumption DEF Slug
  <2>5. th[t].slug \in Slug /\ w \in Login
    BY <1>0, <1>1, <2>4 DEF Sound
  <2> QED
    BY <2>1, <2>2, <2>3, <2>5 DEF r
<1>a. "member" \in ThreadStep /\ "token" \in ThreadStep
    BY DEF ThreadStep
<1>2. CASE GetUserAccounts(t)
  <2>0. accts' = accts /\ member' = member /\ th[t].at = "ensure" /\ t \in Creating
    BY <1>2 DEF GetUserAccounts, Creating
  <2>1. PICK at \in {"create", "token"} :
          Goto(t, at) /\ (acts' = acts \/ (acts < MaxAct /\ acts' = acts + 1))
    BY <1>2 DEF GetUserAccounts, RequestLost
  <2>2. at \in ThreadStep
    BY DEF ThreadStep
  <2> DEFINE r == [th[t] EXCEPT !.at = at]
  <2>3. /\ th' = [th EXCEPT ![t] = r] /\ r \in ThreadRecord /\ r.at = at /\ r.who = w
        /\ r.slug = th[t].slug /\ Tried(r) = Tried(th[t]) /\ r.who \in Login /\ r.slug \in Slug
    BY <1>1, <2>0, <2>1, <2>2
  <2> HIDE DEF r
  <2>4. Sound(r, accts)
    BY <2>3 DEF Sound
  <2>5. Tried(r) \subseteq Seen(t)
    BY <2>3 DEF Seen
  <2> QED
    BY <1>0, <2>0, <2>1, <2>3, <2>4, <2>5, QuietStep
<1>3. CASE PostAccount(t)
  <2>0. member' = member /\ th[t].at = "create" /\ t \in Creating
    BY <1>3 DEF PostAccount, Creating
  <2>1. CASE a \notin accts /\ Goto(t, "member") /\ accts' = accts \cup {a} /\ acts' = acts
    <3> DEFINE r == [th[t] EXCEPT !.at = "member"]
    <3>1. /\ th' = [th EXCEPT ![t] = r] /\ r \in ThreadRecord /\ r.at = "member" /\ r.who = w
          /\ r.slug = th[t].slug /\ Tried(r) = Tried(th[t]) /\ r.who \in Login /\ r.slug \in Slug
      BY <1>1, <1>a, <2>0, <2>1
    <3> HIDE DEF r
    <3>2. Sound(r, accts')
      BY <2>1, <3>1 DEF Sound
    <3>3. /\ ThreadsAreSound'
          /\ \A x \in AThread : Seen(x)' = accts' \cup Tried(IF x = t THEN r ELSE th[x])
          /\ Creating' = (Creating \ {t}) \cup (IF r.at \in {"ensure", "create"} THEN {t} ELSE {})
      BY <2>1, <3>1, <3>2, OneThreadMoves
    <3> HIDE DEF a
    <3>4. \A x \in AThread : Seen(x)' \subseteq Seen(x) \cup {a}
      BY <2>1, <3>1, <3>3 DEF Seen
    <3>5. Creating' \subseteq Creating \ {t}
      BY <3>1, <3>3
    <3>6. a \in Login \X Slug
      BY <3>1 DEF a
    <3>7. acts' \in 0..MaxAct
      BY <2>1 DEF AccountsInv, RowsAreCounted
    <3> QED
      BY <1>0, <2>0, <2>1, <3>3, <3>4, <3>5, <3>6, <3>7, CountsAreKept
  <2>2. CASE NextSlug(t) /\ \/ a \in accts /\ accts' = accts /\ acts' = acts
                            \/ RequestLost /\ accts' \in {accts, accts \cup {a}}
    BY <1>0, <2>0, <2>2, NextSlugInv DEF RequestLost
  <2> QED
    BY <1>3, <2>1, <2>2 DEF PostAccount
<1>4. CASE PostOwner(t)
  <2> DEFINE joined == [member EXCEPT ![w] = member[w] \cup {a}]
  <2>0. accts' = accts /\ th[t].at = "member" /\ a \in accts
    BY <1>0, <1>4 DEF PostOwner, Sound
  <2>1. \/ member' = joined /\ Goto(t, "token") /\ acts' = acts
        \/ RequestLost /\ NextSlug(t) /\ member' \in {member, joined}
    BY <1>4 DEF PostOwner
  <2>2. joined \in [Login -> SUBSET (Login \X Slug)]
    <3> DEFINE row == a
    <3>1. row \in Login \X Slug
      BY <1>0, <2>0
    <3> HIDE DEF row, Slug
    <3>2. member[w] \cup {row} \in SUBSET (Login \X Slug) \/ w \notin Login
      BY <1>0, <3>1
    <3> QED
      BY <1>0, <3>2 DEF row
  <2> HIDE DEF joined
  <2>3. CASE member' = joined /\ Goto(t, "token") /\ acts' = acts
    <3> DEFINE r == [th[t] EXCEPT !.at = "token"]
    <3>1. /\ th' = [th EXCEPT ![t] = r] /\ r \in ThreadRecord /\ r.at = "token" /\ r.who = w
          /\ r.slug = th[t].slug /\ Tried(r) = Tried(th[t]) /\ r.who \in Login /\ r.slug \in Slug
      BY <1>1, <1>a, <2>0, <2>3
    <3> HIDE DEF r
    <3>2. Sound(r, accts)
      BY <3>1 DEF Sound
    <3>3. Tried(r) \subseteq Seen(t)
      BY <3>1 DEF Seen
    <3> QED
      BY <1>0, <2>0, <2>2, <2>3, <3>1, <3>2, <3>3, QuietStep
  <2>4. CASE RequestLost /\ NextSlug(t) /\ member' \in {member, joined}
    <3>1. member' \in [Login -> SUBSET (Login \X Slug)] /\ acts < MaxAct /\ acts' = acts + 1
      BY <1>0, <2>2, <2>4 DEF RequestLost
    <3> QED
      BY <1>0, <2>0, <2>4, <3>1, NextSlugInv
  <2> QED
    BY <2>1, <2>3, <2>4
<1> QED
    BY <1>2, <1>3, <1>4

\* Every step keeps the invariant.
LEMMA AccountsStep ==
    ASSUME AccountsInv, [AccountsNext]_acctVars
    PROVE  AccountsInv'
<1>1. CASE UNCHANGED acctVars
    BY <1>1 DEF acctVars, AccountsInv, ThreadsAreSound, Sound, RowsAreCounted, Creating, Seen, Tried
<1>2. ASSUME NEW t \in AThread,
             \/ \E l \in Login :
                  \/ GetMe(t, l) \/ ReadSettings(t, l) \/ AuthCallback(t, l)
                  \/ \E n \in SecretName : CreateSecret(t, l, n) \/ DeleteSecret(t, l, n)
             \/ \E n \in SecretName : CreateSharedSecret(t, n) \/ DeleteSharedSecret(t, n)
             \/ PurgeExpired(t)
      PROVE  AccountsInv'
    BY <1>2, RequestsInv
<1>3. ASSUME NEW t \in AThread, NEW l \in Login, ListAccounts(t, l) \/ CreateAccount(t, l) PROVE AccountsInv'
    BY <1>3, AskedInv
<1>4. ASSUME NEW t \in AThread, NEW l \in Login, NEW a \in accts, InviteMember(t, l, a) \/ RemoveMember(t, l, a)
      PROVE  AccountsInv'
    BY <1>4, MembersInv
<1>5. ASSUME NEW t \in AThread, MergeSettings(t) \/ WriteSettings(t) \/ StoreToken(t) PROVE AccountsInv'
    BY <1>5, EndsInv
<1>6. ASSUME NEW t \in AThread, GetUserAccounts(t) \/ PostAccount(t) \/ PostOwner(t) PROVE AccountsInv'
    BY <1>6, EnsureInv
<1>7. CASE SecretsAge
    BY <1>7 DEF SecretsAge, AccountsInv, ThreadsAreSound, Sound, RowsAreCounted, Creating, Seen, Tried
<1>8. CASE RestartServer
  <2>0. accts' = accts /\ member' = member /\ prefs' = prefs /\ acts < MaxAct /\ acts' = acts + 1
        /\ th' = [t \in AThread |-> Idle] /\ acts \in 0..MaxAct /\ MaxAct \in Nat
        /\ accts \subseteq Login \X Slug /\ member \in [Login -> SUBSET (Login \X Slug)] /\ prefs \in [Login -> SUBSET Pref]
    BY <1>8, AccountAssumption DEF RestartServer, AccountsInv, RowsAreCounted
  <2>1. Idle \in ThreadRecord /\ Idle.at = "idle" /\ Tried(Idle) = {} /\ Sound(Idle, accts')
    <3>1. Idle \in ThreadRecord /\ Idle.at = "idle" /\ Idle.slug = 1
      BY DEF Idle, ThreadRecord, ThreadStep
    <3>2. Idle.slug - 1 = 0 /\ 1..0 = {}
      BY <3>1
    <3>3. Tried(Idle) = {}
      BY <3>2 DEF Tried
    <3>4. Sound(Idle, accts')
      BY <3>1 DEF Sound
    <3> QED
      BY <3>1, <3>3, <3>4
  <2>2. \A x \in AThread : th'[x] = Idle
    BY <2>0
  <2>3. ThreadsAreSound'
    BY <2>0, <2>1, <2>2 DEF ThreadsAreSound, Sound
  <2>4. \A x \in AThread : Seen(x)' \subseteq Seen(x)
    <3>1. \A x \in AThread : Seen(x)' = accts' \cup Tried(th'[x])
      BY DEF Seen, Tried
    <3> QED
      BY <2>0, <2>1, <2>2, <3>1 DEF Seen
  <2>5. Creating' \subseteq Creating
    BY <2>1, <2>2 DEF Creating
  <2>6. acts' \in 0..MaxAct /\ acts <= acts'
    BY <2>0
  <2> QED
    BY <2>0, <2>3, <2>4, <2>5, <2>6, CountsAreKept
<1> QED
    BY <1>1, <1>2, <1>3, <1>4, <1>5, <1>6, <1>7, <1>8 DEF AccountsNext

\* A login that is done with its account has one, as long as the invariant
\* holds before the step.
LEMMA DoneMeansMember ==
    ASSUME AccountsInv, MaxAct <= SlugTries, AccountsNext, NEW t \in AThread,
           th[t].at \in {"create", "member"}, th'[t].at = "token", th[t].arg # {"by_hand"}
    PROVE  member'[th[t].who] # {}
<1> DEFINE a == <<th[t].who, th[t].slug>>
<1>0. /\ th = [x \in AThread |-> th[x]] /\ th[t] \in ThreadRecord /\ th[t].who \in Login
      /\ member \in [Login -> SUBSET (Login \X Slug)]
  <2>1. th = [x \in AThread |-> th[x]] /\ Sound(th[t], accts) /\ member \in [Login -> SUBSET (Login \X Slug)]
    BY DEF AccountsInv, ThreadsAreSound
  <2> QED
    BY <2>1 DEF Sound
<1>1. ASSUME NEW x \in AThread, NEW r, th' = [th EXCEPT ![x] = r] PROVE th'[x] = r /\ (x # t => th'[t] = th[t])
    BY <1>0, <1>1
<1>2. ASSUME NEW x \in AThread, x # t, NEW r, th' = [th EXCEPT ![x] = r] PROVE FALSE
    BY <1>1, <1>2
<1>4. \/ PostAccount(t) \/ PostOwner(t)
  <2>1. ASSUME NEW x \in AThread, NEW at, NEW who, Begin(x, at, who) PROVE FALSE
    <3>1. th[x].at = "idle" /\ th' = [th EXCEPT ![x] = [Idle EXCEPT !.at = at, !.who = who]]
      BY <2>1 DEF Begin
    <3> QED
      BY <1>2, <3>1
  <2>2. ASSUME NEW x \in AThread, NEW l \in Login, ListAccounts(x, l) \/ CreateAccount(x, l) PROVE FALSE
    <3>1. th[x].at = "idle" /\ \E r : th' = [th EXCEPT ![x] = r]
      BY <2>2 DEF ListAccounts, CreateAccount
    <3> QED
      BY <1>2, <3>1
  <2>3. ASSUME NEW x \in AThread, MergeSettings(x) \/ WriteSettings(x) \/ StoreToken(x) \/ GetUserAccounts(x) PROVE FALSE
    <3>1. th[x].at \in {"settings", "write", "token", "ensure"}
      BY <2>3 DEF MergeSettings, WriteSettings, StoreToken, GetUserAccounts
    <3>2. th'[t] = th[t]
      BY <1>0, <2>3, <3>1 DEF MergeSettings, WriteSettings, StoreToken, GetUserAccounts, Goto
    <3> QED
      BY <3>2
  <2>4. ASSUME NEW x \in AThread, PostAccount(x) \/ PostOwner(x) PROVE x = t
    <3>1. x # t => th'[t] = th[t]
      BY <1>0, <2>4 DEF PostAccount, PostOwner, NextSlug, Goto
    <3> QED
      BY <3>1
  <2>5. ~RestartServer
    BY DEF RestartServer, Idle
  <2>6. ~SecretsAge
    BY DEF SecretsAge
  <2>7. ASSUME NEW x \in AThread,
               \/ \E l \in Login :
                    \/ GetMe(x, l) \/ ReadSettings(x, l) \/ AuthCallback(x, l)
                    \/ \E n \in SecretName : CreateSecret(x, l, n) \/ DeleteSecret(x, l, n)
                    \/ \E b \in accts : InviteMember(x, l, b) \/ RemoveMember(x, l, b)
               \/ \E n \in SecretName : CreateSharedSecret(x, n) \/ DeleteSharedSecret(x, n)
               \/ PurgeExpired(x)
        PROVE  FALSE
    <3>1. \E at, who : Begin(x, at, who)
      BY <2>7 DEF GetMe, ReadSettings, AuthCallback, CreateSecret, DeleteSecret, InviteMember, RemoveMember,
             CreateSharedSecret, DeleteSharedSecret, PurgeExpired
    <3> QED
      BY <2>1, <3>1
  <2> QED
    BY <2>2, <2>3, <2>4, <2>5, <2>6, <2>7 DEF AccountsNext
<1>5. NextSlug(t) => ~(th[t].slug + 1 \in Slug)
  <2> SUFFICES ASSUME NextSlug(t), th[t].slug + 1 \in Slug PROVE FALSE
    OBVIOUS
  <2> DEFINE g == [th[t] EXCEPT !.slug = th[t].slug + 1, !.at = "create"]
  <2>1. th' = [th EXCEPT ![t] = g]
    BY DEF NextSlug
  <2>2. g.at = "create"
    BY <1>0 DEF ThreadRecord
  <2> HIDE DEF g
  <2> QED
    BY <1>1, <2>1, <2>2
<1>6. CASE PostAccount(t)
  <2>1. th[t].at = "create" /\ \/ Goto(t, "member")
                               \/ NextSlug(t) /\ (a \in accts \/ acts < MaxAct)
    BY <1>6 DEF PostAccount, RequestLost
  <2>2. ~Goto(t, "member")
    BY <1>0 DEF Goto, ThreadRecord
  <2> QED
    BY <1>5, <2>1, <2>2, SlugsSuffice
<1>7. CASE PostOwner(t)
  <2>1. th[t].at = "member" /\ \/ member' = [member EXCEPT ![th[t].who] = member[th[t].who] \cup {a}]
                               \/ NextSlug(t) /\ acts < MaxAct
    BY <1>7 DEF PostOwner, RequestLost
  <2>2. member' = [member EXCEPT ![th[t].who] = member[th[t].who] \cup {a}]
    BY <1>5, <2>1, SlugsSuffice
  <2> DEFINE row == a
  <2>3. member'[th[t].who] = member[th[t].who] \cup {row}
    BY <1>0, <2>2
  <2> HIDE DEF row
  <2> QED
    BY <2>3
<1> QED
    BY <1>4, <1>6, <1>7

\* The invariant holds at the start.
LEMMA AccountsStart == AccountsInit => AccountsInv
<1> SUFFICES ASSUME AccountsInit PROVE AccountsInv
    OBVIOUS
<1>1. accts = {} /\ acts = 0 /\ th = [t \in AThread |-> Idle] /\ member = [l \in Login |-> {}] /\ prefs = [l \in Login |-> {}]
    BY DEF AccountsInit
<1>2. Idle \in ThreadRecord /\ Idle.at = "idle" /\ Idle.slug = 1
    BY DEF Idle, ThreadRecord, ThreadStep
<1>3. Tried(Idle) = {}
  <2>1. Idle.slug - 1 = 0 /\ 1..0 = {}
    BY <1>2
  <2> QED
    BY <2>1 DEF Tried
<1>4. \A t \in AThread : th[t] = Idle
    BY <1>1
<1>5. ThreadsAreSound
    BY <1>1, <1>2, <1>4 DEF ThreadsAreSound, Sound
<1>6. Creating = {} /\ \A t \in AThread : Seen(t) = {}
    BY <1>1, <1>2, <1>3, <1>4 DEF Creating, Seen
<1>7. Cardinality({}) = 0
    BY FS_EmptySet
<1>8. MaxAct \in Nat
    BY AccountAssumption
<1>9. RowsAreCounted
    BY <1>1, <1>6, <1>7, <1>8 DEF RowsAreCounted
<1> QED
    BY <1>1, <1>5, <1>9 DEF AccountsInv

\* A login that got past the creation of its account in the callback or in
\* the list of accounts is a member of one: no number of racing threads,
\* failed requests and restarts between the account and its owner uses up
\* the slugs of _ensure_personal_account before the answers that are lost.
THEOREM LoginsGetAccounts ==
    ASSUME MaxAct <= SlugTries
    PROVE  AccountsSpec => LoginHasAccount
<1>1. AccountsInit => AccountsInv
    BY AccountsStart
<1>2. AccountsInv /\ [AccountsNext]_acctVars => AccountsInv'
    BY AccountsStep
<1>3. AccountsInv /\ [AccountsNext]_acctVars =>
        [\A t \in AThread : th[t].at \in {"create", "member"} /\ th'[t].at = "token"
                        /\ th[t].arg # {"by_hand"} => member'[th[t].who] # {}]_acctVars
    BY DoneMeansMember
<1> QED
    BY <1>1, <1>2, <1>3, PTL DEF AccountsSpec, LoginHasAccount

-----------------------------------------------------------------------------
(* Accounts: why there is one administrator that nobody named.              *)

Unasked == {l \in Login \ Admins : users[l] = "admin"}

AdminInv ==
    /\ users \in [Login -> {"admin", "user", "none"}]
    /\ \A l, k \in Unasked : l = k
    /\ (\E l \in Login : users[l] # "none") => \E l \in Login : users[l] = "admin"

\* A user is added under the lock that the count was taken under.
LEMMA UserAdded ==
    ASSUME AdminInv, NEW l \in Login, users' = WithUser(l)
    PROVE  AdminInv'
<1> DEFINE r == IF users[l] # "none" THEN users[l]
                ELSE IF IsFirstHuman \/ l \in Admins THEN "admin" ELSE "user"
<1>1. users' = [users EXCEPT ![l] = r]
    BY DEF WithUser
<1>2. r \in {"admin", "user"} /\ users \in [Login -> {"admin", "user", "none"}]
    BY DEF AdminInv
<1>3. users[l] # "none" => r = users[l]
    OBVIOUS
<1>4. r = "admin" => users[l] = "admin" \/ l \in Admins \/ \A k \in Login : users[k] = "none"
    BY <1>2 DEF IsFirstHuman, Human
<1>5. (\A k \in Login : users[k] = "none") => r = "admin"
    BY DEF IsFirstHuman, Human
<1> HIDE DEF r
<1>6. users' \in [Login -> {"admin", "user", "none"}] /\ users'[l] = r /\ \A k \in Login \ {l} : users'[k] = users[k]
    BY <1>1, <1>2
<1>7. \A k, j \in Unasked' : k = j
  <2> SUFFICES ASSUME NEW k \in Unasked', NEW j \in Unasked' PROVE k = j
    OBVIOUS
  <2>1. k \in Login \ Admins /\ j \in Login \ Admins /\ users'[k] = "admin" /\ users'[j] = "admin"
    BY DEF Unasked
  <2>2. \A x \in Login \ Admins : users[x] = "admin" => x \in Unasked
    BY DEF Unasked
  <2>3. CASE \A x \in Login : users[x] = "none"
    BY <1>6, <2>1, <2>3
  <2>4. CASE ~(\A x \in Login : users[x] = "none")
    <3>1. \A x \in Login \ Admins : users'[x] = "admin" => users[x] = "admin"
      BY <1>4, <1>6, <2>4
    <3> QED
      BY <2>1, <2>2, <3>1 DEF AdminInv
  <2> QED
    BY <2>3, <2>4
<1>8. \E k \in Login : users'[k] = "admin"
  <2>1. CASE \A x \in Login : users[x] = "none"
    BY <1>5, <1>6, <2>1
  <2>2. CASE ~(\A x \in Login : users[x] = "none")
    <3>1. PICK k \in Login : users[k] = "admin"
      BY <2>2 DEF AdminInv
    <3>2. users'[k] = "admin"
      BY <1>3, <1>6, <3>1
    <3> QED
      BY <3>2
  <2> QED
    BY <2>1, <2>2
<1> QED
    BY <1>6, <1>7, <1>8 DEF AdminInv

\* The first person to come is an administrator, and apart from the logins
\* that are named in the configuration nobody else becomes one, for any
\* threads that provision users at once.
THEOREM FirstAdminIsAlone == AccountsSpec => []OneFirstAdmin
<1>1. AccountsInit => AdminInv
    BY DEF AccountsInit, AdminInv, Unasked
<1>2. AdminInv /\ [AccountsNext]_acctVars => AdminInv'
  <2> SUFFICES ASSUME AdminInv, [AccountsNext]_acctVars PROVE AdminInv'
    OBVIOUS
  <2>1. CASE users' = users
    BY <2>1 DEF AdminInv, Unasked
  <2>2. users' = users \/ \E l \in Login : users' = WithUser(l)
    <3> USE DEF AccountsNext, acctVars
    <3>1. ASSUME NEW t \in AThread, NEW l \in Login,
                 \/ GetMe(t, l) \/ ReadSettings(t, l) \/ AuthCallback(t, l) \/ ListAccounts(t, l)
                 \/ CreateAccount(t, l)
                 \/ \E n \in SecretName : CreateSecret(t, l, n) \/ DeleteSecret(t, l, n)
                 \/ \E a \in accts : InviteMember(t, l, a) \/ RemoveMember(t, l, a)
          PROVE  users' = users \/ users' = WithUser(l)
      BY <3>1 DEF GetMe, ReadSettings, AuthCallback, ListAccounts, CreateAccount, CreateSecret, DeleteSecret,
                  InviteMember, RemoveMember
    <3>2. ASSUME NEW t \in AThread,
                 \/ \E n \in SecretName : CreateSharedSecret(t, n) \/ DeleteSharedSecret(t, n)
                 \/ MergeSettings(t) \/ WriteSettings(t) \/ PurgeExpired(t)
                 \/ GetUserAccounts(t) \/ PostAccount(t) \/ PostOwner(t) \/ StoreToken(t)
          PROVE  users' = users
      BY <3>2 DEF CreateSharedSecret, DeleteSharedSecret, MergeSettings, WriteSettings, PurgeExpired,
                  GetUserAccounts, PostAccount, PostOwner, StoreToken
    <3>3. RestartServer \/ SecretsAge => users' = users
      BY DEF RestartServer, SecretsAge
    <3> QED
      BY <3>1, <3>2, <3>3
  <2> QED
    BY <2>1, <2>2, UserAdded
<1>3. AdminInv => OneFirstAdmin
  <2> SUFFICES ASSUME AdminInv PROVE OneFirstAdmin
    OBVIOUS
  <2> DEFINE people == {l \in Login : users[l] \in Human}
             A == {l \in people \ Admins : users[l] = "admin"}
  <2>1. A \subseteq Unasked
    BY DEF Unasked
  <2>2. A = {} \/ \E l : A = {l}
    BY <2>1 DEF AdminInv
  <2>3. Cardinality(A) <= 1
    <3> HIDE DEF A
    <3>1. CASE A = {}
      BY <3>1, FS_EmptySet
    <3>2. CASE \E l : A = {l}
      BY <3>2, FS_Singleton
    <3> QED
      BY <2>2, <3>1, <3>2
  <2>4. people # {} => \E l \in people : users[l] = "admin"
    BY DEF AdminInv, Human
  <2> QED
    BY <2>3, <2>4 DEF OneFirstAdmin
<1> QED
    BY <1>1, <1>2, <1>3, PTL DEF AccountsSpec

-----------------------------------------------------------------------------
(* The agent network: why a server's adapter runs a message once, for any   *)
(* clients and messages, however long their requests wait.                  *)

NetRequest == [from : Client, msg : Msg, what : {"message", "send", "get", "cancel", "event"}]

\* The adapter runs m for this request; the places in line of such requests.
Runs(r, m) == r.msg = m /\ r.what \in {"message", "send"}
Waits(s, m) == {i \in 1..Len(line[s]) : Runs(line[s][i], m)}

Untouched(s, m) == runs[s][m] = 0 /\ Waits(s, m) = {} /\ ~Runs(hand[s], m)

\* A client that may still turn to the agent itself.
AtHub(c) == caller[c].at = "hub" /\ caller[c].what = "message"

NetShape ==
    /\ line \in [Server -> Seq(NetRequest)] /\ hand = [s \in Server |-> hand[s]]
    /\ runs \in [Server -> [Msg -> 0..1]] /\ caller = [c \in Client |-> caller[c]]
    /\ used \subseteq Msg /\ told \subseteq Msg
    /\ \A s \in Server : Runs(hand[s], hand[s].msg) => hand[s].msg \in Msg

\* A message is in line, in hand or run, and in one place at a server.
OnePlace ==
    \A s \in Server, m \in Msg :
        /\ \A i, j \in Waits(s, m) : i = j
        /\ Runs(hand[s], m) => Waits(s, m) = {}
        /\ runs[s][m] = 1 => Waits(s, m) = {} /\ ~Runs(hand[s], m)

\* The agent has seen nothing of a message that waits at the hub.
HubFirst ==
    /\ \A s \in Server, m \in Msg \ used : Untouched(s, m)
    /\ \A c \in Client : AtHub(c) => caller[c].msg \in used /\ Untouched("agent", caller[c].msg)
    /\ \A c, d \in Client : AtHub(c) /\ AtHub(d) /\ caller[c].msg = caller[d].msg => c = d

NetInv == NetShape /\ OnePlace /\ HubFirst

\* A request that is posted waits at the end of the line.
LEMMA Posted ==
    ASSUME NetShape, NEW c \in Client, NEW s \in Server, NEW m \in Msg,
           NEW what \in {"message", "send", "get", "cancel", "event"}, Post(c, s, m, what)
    PROVE  /\ line' \in [Server -> Seq(NetRequest)]
           /\ \A x \in Server, k \in Msg :
                Waits(x, k)' = Waits(x, k) \cup (IF x = s /\ k = m /\ what \in {"message", "send"}
                                                THEN {Len(line[s]) + 1} ELSE {})
<1> DEFINE r == [from |-> c, msg |-> m, what |-> what]
           n == Len(line[s])
<1>1. r \in NetRequest /\ r.msg = m /\ r.what = what
    BY DEF NetRequest
<1>2. line[s] \in Seq(NetRequest) /\ line' = [line EXCEPT ![s] = Append(line[s], r)]
    BY DEF NetShape, Post
<1> HIDE DEF r
<1>3. n \in Nat
    BY <1>2
<1> DEFINE q == Append(line[s], r)
<1>4. /\ q \in Seq(NetRequest) /\ Len(q) = n + 1 /\ q[n + 1] = r /\ \A i \in 1..n : q[i] = line[s][i]
    BY <1>1, <1>2
<1> HIDE DEF q, n
<1>5. line' = [line EXCEPT ![s] = q]
    BY <1>2 DEF q
<1>6. line' \in [Server -> Seq(NetRequest)] /\ line'[s] = q /\ \A x \in Server \ {s} : line'[x] = line[x]
    BY <1>4, <1>5 DEF NetShape
<1>7. ASSUME NEW k \in Msg
      PROVE  Waits(s, k)' = Waits(s, k) \cup (IF k = m /\ what \in {"message", "send"} THEN {n + 1} ELSE {})
  <2>1. Waits(s, k)' = {i \in 1..(n + 1) : Runs(q[i], k)}
    BY <1>4, <1>6 DEF Waits, Runs
  <2>2. Waits(s, k) = {i \in 1..n : Runs(line[s][i], k)}
    BY DEF Waits, n
  <2>3. \A i : i \in 1..(n + 1) <=> i \in 1..n \/ i = n + 1
    BY <1>3
  <2>4. Runs(q[n + 1], k) <=> k = m /\ what \in {"message", "send"}
    BY <1>1, <1>4 DEF Runs
  <2>5. \A i \in 1..n : Runs(q[i], k) <=> Runs(line[s][i], k)
    BY <1>4 DEF Runs
  <2> HIDE DEF Runs
  <2> QED
    BY <2>1, <2>2, <2>3, <2>4, <2>5
<1>8. ASSUME NEW x \in Server \ {s}, NEW k \in Msg PROVE Waits(x, k)' = Waits(x, k)
    BY <1>6 DEF Waits, Runs
<1> QED
    BY <1>6, <1>7, <1>8 DEF n

\* A client sends a message or a task that was not sent before.
LEMMA SentInv ==
    ASSUME NetInv, NEW c \in Client, SendMessage(c) \/ SendTask(c) \/ PostEvent(c)
    PROVE  NetInv'
<1>1. PICK m \in Msg \ used, s \in Server, what \in {"message", "send", "event"} :
        /\ Post(c, s, m, what) /\ used' = used \cup {m} /\ hand' = hand /\ runs' = runs /\ told' = told
        /\ what = "event" => s = "hub"
    BY DEF SendMessage, SendTask, PostEvent, Server
<1>2. what \in {"message", "send", "get", "cancel", "event"}
    OBVIOUS
<1>3. /\ line' \in [Server -> Seq(NetRequest)]
      /\ \A x \in Server, k \in Msg :
           Waits(x, k)' = Waits(x, k) \cup (IF x = s /\ k = m /\ what \in {"message", "send"}
                                           THEN {Len(line[s]) + 1} ELSE {})
    BY <1>1, <1>2, Posted DEF NetInv
<1>4. caller' = [caller EXCEPT ![c] = [at |-> s, msg |-> m, what |-> what]]
    BY <1>1 DEF Post
<1>5. /\ caller' = [d \in Client |-> caller'[d]] /\ caller'[c].at = s /\ caller'[c].msg = m /\ caller'[c].what = what
      /\ \A d \in Client \ {c} : caller'[d] = caller[d]
    BY <1>4 DEF NetInv, NetShape
<1>6. NetShape'
    BY <1>1, <1>3, <1>5 DEF NetInv, NetShape, Runs
<1>7. \A x \in Server : Untouched(x, m)
    BY <1>1 DEF NetInv, HubFirst
<1>8. \A x \in Server, k \in Msg : Runs(hand[x], k)' <=> Runs(hand[x], k)
    BY <1>1 DEF Runs
<1> HIDE DEF Runs, Waits
<1>9. OnePlace'
    BY <1>1, <1>3, <1>7, <1>8 DEF NetInv, OnePlace, Untouched
<1>10. \A x \in Server, k \in Msg \ {m} : Untouched(x, k) => Untouched(x, k)'
    BY <1>1, <1>3, <1>8 DEF Untouched
<1>11. s = "hub" => Untouched("agent", m)'
  <2>1. "agent" \in Server /\ "agent" # "hub"
    BY DEF Server
  <2> QED
    BY <1>1, <1>3, <1>7, <1>8, <2>1 DEF Untouched
<1>12. HubFirst'
  <2>1. \A x \in Server, k \in Msg \ used' : Untouched(x, k)'
    BY <1>1, <1>10 DEF NetInv, HubFirst
  <2>2. ASSUME NEW d \in Client, AtHub(d)'
        PROVE  caller'[d].msg \in used' /\ Untouched("agent", caller[d].msg)'
    <3>1. CASE d = c
      BY <1>1, <1>5, <1>11, <2>2, <3>1 DEF AtHub
    <3>2. CASE d # c
      <4>1. AtHub(d) /\ caller'[d].msg = caller[d].msg
        BY <1>5, <2>2, <3>2 DEF AtHub
      <4>2. caller[d].msg \in used /\ Untouched("agent", caller[d].msg) /\ used \subseteq Msg
        BY <4>1 DEF NetInv, HubFirst, NetShape
      <4>3. "agent" \in Server
        BY DEF Server
      <4>4. caller[d].msg \in Msg \ {m}
        BY <1>1, <4>2
      <4>5. Untouched("agent", caller[d].msg)'
        <5> DEFINE k == caller[d].msg
        <5>1. runs[ "agent"][k] = 0 /\ Waits("agent", k) = {} /\ ~Runs(hand["agent"], k)
          BY <4>2 DEF Untouched
        <5> QED
          BY <1>1, <1>3, <1>8, <4>1, <4>3, <4>4, <5>1 DEF Untouched
      <4> QED
        BY <1>1, <4>1, <4>2, <4>5
    <3> QED
      BY <3>1, <3>2
  <2>3. ASSUME NEW d \in Client, NEW e \in Client, AtHub(d)', AtHub(e)', caller'[d].msg = caller'[e].msg PROVE d = e
    <3>1. \A x \in Client \ {c} : AtHub(x)' => AtHub(x) /\ caller'[x].msg = caller[x].msg /\ caller[x].msg \in used
      BY <1>5 DEF NetInv, HubFirst, AtHub
    <3> QED
      BY <1>1, <1>5, <2>3, <3>1 DEF NetInv, HubFirst
  <2> QED
    BY <2>1, <2>2, <2>3 DEF HubFirst
<1> QED
    BY <1>6, <1>9, <1>12 DEF NetInv

\* A step that sends no new message, and touches at most the messages B.
LEMMA NothingNew ==
    ASSUME NetInv, NetShape', OnePlace', used' = used, NEW B, B \subseteq used,
           \A x \in Server, k \in Msg \ B : Untouched(x, k) => Untouched(x, k)',
           \A d \in Client : AtHub(d)' => AtHub(d) /\ caller'[d].msg = caller[d].msg /\ caller[d].msg \notin B
    PROVE  NetInv'
<1>1. \A x \in Server, k \in Msg \ used' : Untouched(x, k)'
    BY DEF NetInv, HubFirst
<1>2. ASSUME NEW d \in Client, AtHub(d)'
      PROVE  caller'[d].msg \in used' /\ Untouched("agent", caller[d].msg)'
  <2> DEFINE k == caller[d].msg
  <2>1. AtHub(d) /\ caller'[d].msg = caller[d].msg /\ caller[d].msg \notin B
    BY <1>2
  <2>2. k \in used /\ Untouched("agent", k) /\ used \subseteq Msg /\ "agent" \in Server
    BY <2>1 DEF NetInv, HubFirst, NetShape, Server
  <2>3. k \in Msg \ B
    BY <2>1, <2>2
  <2>4. ASSUME NEW z \in Msg \ B, Untouched("agent", z) PROVE Untouched("agent", z)'
    BY <2>2, <2>4
  <2>5. PICK z \in Msg \ B : z = k
    BY <2>3
  <2>6. Untouched("agent", z)
    BY <2>2, <2>5
  <2>7. Untouched("agent", z)'
    BY <2>4, <2>6
  <2>8. caller'[d].msg = z
    BY <2>1, <2>5
  <2> HIDE DEF k
  <2>9. Untouched("agent", caller[d].msg)'
    BY <2>7, <2>8
  <2> QED
    BY <2>1, <2>2, <2>9 DEF k
<1>3. ASSUME NEW d \in Client, NEW e \in Client, AtHub(d)', AtHub(e)', caller'[d].msg = caller'[e].msg PROVE d = e
    BY <1>3 DEF NetInv, HubFirst
<1> QED
    BY <1>1, <1>2, <1>3 DEF NetInv, HubFirst

\* A step that touches no message at all.
LEMMA NothingTouched ==
    ASSUME NetInv, NetShape', OnePlace', used' = used,
           \A x \in Server, k \in Msg : Untouched(x, k) => Untouched(x, k)',
           \A d \in Client : AtHub(d)' => AtHub(d) /\ caller'[d].msg = caller[d].msg
    PROVE  NetInv'
<1> DEFINE B == {}
<1>1. B \subseteq used
    OBVIOUS
<1>2. \A x \in Server, k \in Msg \ B : Untouched(x, k) => Untouched(x, k)'
    OBVIOUS
<1>3. \A d \in Client : AtHub(d)' => AtHub(d) /\ caller'[d].msg = caller[d].msg /\ caller[d].msg \notin B
    OBVIOUS
<1> HIDE DEF B
<1> QED
    BY <1>1, <1>2, <1>3, NothingNew

\* A call ends without an answer, or the client asks about a task.
LEMMA CallsInv ==
    ASSUME NetInv, NEW c \in Client, AskAboutTask(c) \/ CallFails(c)
    PROVE  NetInv'
<1>0. hand' = hand /\ runs' = runs /\ told' = told /\ used' = used
    BY DEF AskAboutTask, CallFails
<1>1. \A x \in Server, k \in Msg : Runs(hand[x], k)' <=> Runs(hand[x], k)
    BY <1>0 DEF Runs
<1>2. \A s \in Server : Runs(hand'[s], hand'[s].msg) => hand'[s].msg \in Msg
    BY <1>0 DEF NetInv, NetShape
<1>3. ASSUME NEW r, caller' = [caller EXCEPT ![c] = r]
      PROVE  caller' = [d \in Client |-> caller'[d]] /\ caller'[c] = r /\ \A d \in Client \ {c} : caller'[d] = caller[d]
    BY <1>3 DEF NetInv, NetShape
<1>4. ASSUME NEW m \in Msg, NEW what \in {"get", "cancel"}, Post(c, "agent", m, what) PROVE NetInv'
  <2>0. "agent" \in Server /\ what \in {"message", "send", "get", "cancel", "event"}
    BY DEF Server
  <2>1. line' \in [Server -> Seq(NetRequest)] /\ \A x \in Server, k \in Msg : Waits(x, k)' = Waits(x, k)
    <3>1. /\ line' \in [Server -> Seq(NetRequest)]
          /\ \A x \in Server, k \in Msg :
               Waits(x, k)' = Waits(x, k) \cup (IF x = "agent" /\ k = m /\ what \in {"message", "send"}
                                               THEN {Len(line["agent"]) + 1} ELSE {})
      BY <1>4, <2>0, Posted DEF NetInv
    <3> QED
      BY <3>1
  <2> DEFINE r == [at |-> "agent", msg |-> m, what |-> what]
  <2>2. caller' = [caller EXCEPT ![c] = r] /\ r.at = "agent"
    BY <1>4 DEF Post
  <2> HIDE DEF r
  <2>3. caller' = [d \in Client |-> caller'[d]] /\ caller'[c] = r /\ \A d \in Client \ {c} : caller'[d] = caller[d]
    BY <1>3, <2>2
  <2>4. NetShape'
    BY <1>0, <1>2, <2>1, <2>3 DEF NetInv, NetShape, Runs
  <2> HIDE DEF Runs, Waits
  <2>5. OnePlace' /\ \A x \in Server, k \in Msg : Untouched(x, k) => Untouched(x, k)'
    BY <1>0, <1>1, <2>1 DEF NetInv, OnePlace, Untouched
  <2>6. \A d \in Client : AtHub(d)' => AtHub(d) /\ caller'[d].msg = caller[d].msg
    BY <2>2, <2>3 DEF AtHub
  <2> QED
    BY <1>0, <2>4, <2>5, <2>6, NothingTouched
<1>5. ASSUME AtHub(c), Post(c, "agent", caller[c].msg, "message") PROVE NetInv'
  <2> DEFINE m == caller[c].msg
  <2>0. "agent" \in Server /\ m \in used /\ m \in Msg /\ Untouched("agent", m)
    BY <1>5 DEF NetInv, HubFirst, NetShape, Server
  <2>1. /\ line' \in [Server -> Seq(NetRequest)]
        /\ \A x \in Server, k \in Msg :
             Waits(x, k)' = Waits(x, k) \cup (IF x = "agent" /\ k = m THEN {Len(line["agent"]) + 1} ELSE {})
    BY <1>5, <2>0, Posted DEF NetInv
  <2> DEFINE r == [at |-> "agent", msg |-> m, what |-> "message"]
  <2>2. caller' = [caller EXCEPT ![c] = r] /\ r.at = "agent"
    BY <1>5 DEF Post
  <2> HIDE DEF r
  <2>3. caller' = [d \in Client |-> caller'[d]] /\ caller'[c] = r /\ \A d \in Client \ {c} : caller'[d] = caller[d]
    BY <1>3, <2>2
  <2>4. NetShape'
    BY <1>0, <1>2, <2>1, <2>3 DEF NetInv, NetShape, Runs
  <2>5. \A d \in Client : AtHub(d)' => AtHub(d) /\ caller'[d].msg = caller[d].msg /\ caller[d].msg \notin {m}
    <3>1. \A d \in Client \ {c} : AtHub(d) => caller[d].msg # m
      BY <1>5 DEF NetInv, HubFirst
    <3> QED
      BY <2>2, <2>3, <3>1 DEF AtHub
  <2> HIDE DEF m, Runs, Waits
  <2>6. OnePlace'
    <3> SUFFICES ASSUME NEW x \in Server, NEW k \in Msg
                 PROVE  /\ \A i, j \in Waits(x, k)' : i = j
                        /\ Runs(hand[x], k)' => Waits(x, k)' = {}
                        /\ runs'[x][k] = 1 => Waits(x, k)' = {} /\ ~Runs(hand[x], k)'
      BY DEF OnePlace
    <3>1. /\ \A i, j \in Waits(x, k) : i = j
          /\ Runs(hand[x], k) => Waits(x, k) = {}
          /\ runs[x][k] = 1 => Waits(x, k) = {} /\ ~Runs(hand[x], k)
      BY DEF NetInv, OnePlace
    <3>2. runs["agent"][m] = 0 /\ Waits("agent", m) = {} /\ ~Runs(hand["agent"], m)
      BY <2>0 DEF Untouched
    <3>3. CASE x = "agent" /\ k = m
      BY <1>0, <1>1, <2>0, <2>1, <3>2, <3>3
    <3>4. CASE ~(x = "agent" /\ k = m)
      <4>1. Waits(x, k)' = Waits(x, k)
        <5> DEFINE W == Waits(x, k)
                   V == Waits(x, k)'
        <5>1. V = W \cup (IF x = "agent" /\ k = m THEN {Len(line["agent"]) + 1} ELSE {})
          BY <2>1
        <5> HIDE DEF W, V
        <5>2. V = W
          BY <3>4, <5>1
        <5> QED
          BY <5>2 DEF W, V
      <4> QED
        BY <1>0, <1>1, <3>1, <4>1
    <3> QED
      BY <3>3, <3>4
  <2>7. \A x \in Server, k \in Msg \ {m} : Untouched(x, k) => Untouched(x, k)'
    BY <1>0, <1>1, <2>1 DEF Untouched
  <2> QED
    BY <1>0, <2>0, <2>4, <2>5, <2>6, <2>7, NothingNew
<1>6. ASSUME Gone(c), line' = line PROVE NetInv'
  <2>1. caller' = [caller EXCEPT ![c] = NoCall] /\ NoCall.at = "idle"
    BY <1>6 DEF Gone, NoCall
  <2>2. caller' = [d \in Client |-> caller'[d]] /\ caller'[c] = NoCall /\ \A d \in Client \ {c} : caller'[d] = caller[d]
    BY <1>3, <2>1
  <2>3. \A x \in Server, k \in Msg : Waits(x, k)' = Waits(x, k)
    BY <1>6 DEF Waits, Runs
  <2>4. NetShape'
    BY <1>0, <1>2, <1>6, <2>2 DEF NetInv, NetShape, Runs
  <2> HIDE DEF Runs, Waits
  <2>5. OnePlace' /\ \A x \in Server, k \in Msg : Untouched(x, k) => Untouched(x, k)'
    BY <1>0, <1>1, <2>3 DEF NetInv, OnePlace, Untouched
  <2>6. \A d \in Client : AtHub(d)' => AtHub(d) /\ caller'[d].msg = caller[d].msg
    BY <2>1, <2>2 DEF AtHub
  <2> QED
    BY <1>0, <2>4, <2>5, <2>6, NothingTouched
<1>7. CASE AskAboutTask(c)
  <2>1. \E m \in Msg, what \in {"get", "cancel"} : Post(c, "agent", m, what)
    BY <1>7 DEF AskAboutTask, NetInv, NetShape
  <2> QED
    BY <1>4, <2>1
<1>8. CASE CallFails(c)
    BY <1>5, <1>6, <1>8 DEF CallFails, AtHub
<1> QED
    BY <1>7, <1>8

\* A server takes the next request in hand.
LEMMA ServesInv ==
    ASSUME NetInv, NEW s \in Server, HubServes(s)
    PROVE  NetInv'
<1> DEFINE q == line[s]
           p == Tail(q)
           n == Len(q)
<1>0. /\ hand[s] = NoRequest /\ q # <<>> /\ hand' = [hand EXCEPT ![s] = Head(q)] /\ line' = [line EXCEPT ![s] = p]
      /\ caller' = caller /\ used' = used /\ runs' = runs /\ told' = told
    BY DEF HubServes
<1>1. q \in Seq(NetRequest)
    BY DEF NetInv, NetShape
<1>2. /\ n \in Nat \ {0} /\ p \in Seq(NetRequest) /\ Len(p) = n - 1 /\ Head(q) = q[1]
      /\ \A i \in 1..(n - 1) : p[i] = q[i + 1]
    BY <1>0, <1>1
<1>3. Head(q) \in NetRequest
    BY <1>0, <1>1
<1> DEFINE h == Head(q)
<1> HIDE DEF p, h
<1>4. /\ line' \in [Server -> Seq(NetRequest)] /\ line'[s] = p /\ \A x \in Server \ {s} : line'[x] = line[x]
      /\ hand' = [x \in Server |-> hand'[x]] /\ hand'[s] = h /\ \A x \in Server \ {s} : hand'[x] = hand[x]
    BY <1>0, <1>2 DEF NetInv, NetShape, h
<1>5. ASSUME NEW k \in Msg
      PROVE  /\ Waits(s, k)' = {i \in 1..(n - 1) : i + 1 \in Waits(s, k)}
             /\ Runs(hand'[s], k) <=> 1 \in Waits(s, k)
  <2>1. Waits(s, k)' = {i \in 1..(n - 1) : Runs(p[i], k)}
    BY <1>2, <1>4 DEF Waits, Runs
  <2>2. Waits(s, k) = {i \in 1..n : Runs(q[i], k)}
    BY DEF Waits
  <2>3. \A i \in 1..(n - 1) : i + 1 \in 1..n /\ p[i] = q[i + 1]
    BY <1>2
  <2>4. 1 \in 1..n
    BY <1>2
  <2>5. hand'[s] = q[1]
    BY <1>2, <1>4 DEF h
  <2> HIDE DEF Runs, q, n
  <2> QED
    BY <2>1, <2>2, <2>3, <2>4, <2>5
<1>6. \A x \in Server \ {s}, k \in Msg : Waits(x, k)' = Waits(x, k) /\ (Runs(hand'[x], k) <=> Runs(hand[x], k))
    BY <1>4 DEF Waits, Runs
<1>7. \A k \in Msg : ~Runs(hand[s], k)
    BY <1>0 DEF Runs, NoRequest
<1>8. h.msg \in Msg
    BY <1>3 DEF NetRequest, h
<1>9. NetShape'
    BY <1>0, <1>4, <1>8 DEF NetInv, NetShape, Runs
<1>10. ASSUME NEW k \in Msg
       PROVE  /\ \A i, j \in Waits(s, k)' : i = j
              /\ Runs(hand'[s], k) => Waits(s, k)' = {}
              /\ runs'[s][k] = 1 => Waits(s, k)' = {} /\ ~Runs(hand'[s], k)
              /\ Untouched(s, k) => Untouched(s, k)'
  <2> DEFINE W == Waits(s, k)
             V == Waits(s, k)'
             R == Runs(hand'[s], k)
  <2>1. (\A i, j \in W : i = j) /\ (runs[s][k] = 1 => W = {})
    BY DEF NetInv, OnePlace
  <2>2. V = {i \in 1..(n - 1) : i + 1 \in W} /\ (R <=> 1 \in W)
    BY <1>5
  <2>3. Untouched(s, k) => W = {} /\ runs[s][k] = 0
    BY DEF Untouched
  <2>4. (V = {} /\ ~R /\ runs'[s][k] = 0) => Untouched(s, k)'
    BY DEF Untouched, Runs
  <2> HIDE DEF W, V, R, n
  <2>a. n \in Nat
    BY <1>2
  <2>5. (\A i, j \in V : i = j) /\ (R => V = {}) /\ (W = {} => V = {} /\ ~R)
    <3>1. \A i, j \in V : i = j
      <4> SUFFICES ASSUME NEW i \in V, NEW j \in V PROVE i = j
        OBVIOUS
      <4>1. i \in Nat /\ j \in Nat /\ i + 1 = j + 1
        BY <2>a, <2>1, <2>2
      <4> QED
        BY <4>1
    <3>2. R => V = {}
      <4> SUFFICES ASSUME R, NEW i \in V PROVE FALSE
        OBVIOUS
      <4>1. i \in 1..(n - 1) /\ i + 1 = 1
        BY <2>1, <2>2
      <4> QED
        BY <4>1, <2>a
    <3>3. W = {} => V = {} /\ ~R
      BY <2>2
    <3> QED
      BY <3>1, <3>2, <3>3
  <2> QED
    BY <1>0, <2>1, <2>3, <2>4, <2>5 DEF V, R
<1> HIDE DEF Runs, Waits
<1>11. ASSUME NEW x \in Server \ {s}, NEW k \in Msg
       PROVE  /\ \A i, j \in Waits(x, k)' : i = j
              /\ Runs(hand'[x], k) => Waits(x, k)' = {}
              /\ runs'[x][k] = 1 => Waits(x, k)' = {} /\ ~Runs(hand'[x], k)
              /\ Untouched(x, k) => Untouched(x, k)'
  <2>1. /\ \A i, j \in Waits(x, k) : i = j
        /\ Runs(hand[x], k) => Waits(x, k) = {}
        /\ runs[x][k] = 1 => Waits(x, k) = {} /\ ~Runs(hand[x], k)
    BY DEF NetInv, OnePlace
  <2>2. Untouched(x, k) => Untouched(x, k)'
    BY <1>0, <1>6 DEF Untouched
  <2> QED
    BY <1>0, <1>6, <2>1, <2>2
<1>12. OnePlace'
    BY <1>10, <1>11 DEF OnePlace
<1>13. \A x \in Server, k \in Msg : Untouched(x, k) => Untouched(x, k)'
    BY <1>10, <1>11
<1>14. \A d \in Client : AtHub(d)' => AtHub(d) /\ caller'[d].msg = caller[d].msg
    BY <1>0 DEF AtHub
<1> QED
    BY <1>0, <1>9, <1>12, <1>13, <1>14, NothingTouched

\* A reply ends at most the call that it answers.
LEMMA RepliesInv ==
    ASSUME NetInv, NEW s \in Server, Reply(s)
    PROVE  /\ caller' = [d \in Client |-> caller'[d]]
           /\ \A d \in Client : AtHub(d)' => AtHub(d) /\ caller'[d].msg = caller[d].msg
<1>1. /\ caller' = [d \in Client |-> caller'[d]]
      /\ \A d \in Client : caller'[d] = NoCall \/ caller'[d] = caller[d]
    BY DEF Reply
<1>2. NoCall.at = "idle"
    BY DEF NoCall
<1> QED
    BY <1>1, <1>2 DEF AtHub

\* A server answers what it has in hand; its adapter has run a message or a
\* task by then.
LEMMA AnswersInv ==
    ASSUME NetInv, NEW s \in Server, MessageAnswered(s) \/ TaskAnswered(s) \/ QueryAnswered(s)
    PROVE  NetInv'
<1> DEFINE m == hand[s].msg
<1>0. line' = line /\ used' = used /\ Reply(s) /\ hand' = [hand EXCEPT ![s] = NoRequest]
    BY DEF MessageAnswered, TaskAnswered, QueryAnswered
<1>1. /\ caller' = [d \in Client |-> caller'[d]]
      /\ \A d \in Client : AtHub(d)' => AtHub(d) /\ caller'[d].msg = caller[d].msg
    BY <1>0, RepliesInv
<1>2. /\ hand' = [x \in Server |-> hand'[x]] /\ hand'[s] = NoRequest /\ \A x \in Server \ {s} : hand'[x] = hand[x]
    BY <1>0 DEF NetInv, NetShape
<1>3. \A x \in Server, k \in Msg : Waits(x, k)' = Waits(x, k)
    BY <1>0 DEF Waits, Runs
<1>4. \A k : ~Runs(NoRequest, k)
    BY DEF Runs, NoRequest
<1>5. \/ runs' = runs /\ told' = told
      \/ /\ Runs(hand[s], m) /\ m \in Msg /\ told' \in {told, told \cup {m}}
         /\ \E n \in {0, 1} : runs' = [runs EXCEPT ![s][m] = runs[s][m] + n]
  <2>1. CASE MessageAnswered(s) \/ TaskAnswered(s)
    <3>1. Runs(hand[s], m)
      BY <2>1 DEF MessageAnswered, TaskAnswered, Runs
    <3>2. m \in Msg
      BY <3>1 DEF NetInv, NetShape
    <3>3. AdapterRuns(s, m) /\ told' \in {told, told \cup {m}}
      BY <2>1 DEF MessageAnswered, TaskAnswered
    <3>4. \E n \in {0, 1} : runs' = [runs EXCEPT ![s][m] = runs[s][m] + n]
      BY <3>3 DEF AdapterRuns
    <3> QED
      BY <3>1, <3>2, <3>3, <3>4
  <2>2. CASE QueryAnswered(s)
    BY <2>2 DEF QueryAnswered
  <2> QED
    BY <2>1, <2>2
<1>6. \A x \in Server, k \in Msg : (Runs(hand'[x], k) => Runs(hand[x], k)) /\ ~Runs(hand'[s], k)
    BY <1>2, <1>4
<1>7. told' \subseteq Msg /\ \A x \in Server : Runs(hand'[x], hand'[x].msg) => hand'[x].msg \in Msg
  <2>1. \A x \in Server \ {s} : Runs(hand'[x], hand'[x].msg) => hand'[x].msg \in Msg
    BY <1>2 DEF NetInv, NetShape
  <2>2. told' \subseteq Msg
    BY <1>5 DEF NetInv, NetShape
  <2> QED
    BY <1>2, <1>4, <2>1, <2>2
<1>8. /\ runs' \in [Server -> [Msg -> 0..1]]
      /\ \A x \in Server, k \in Msg : runs'[x][k] = runs[x][k] \/ (x = s /\ k = m /\ Runs(hand[s], m) /\ m \in Msg)
  <2>1. runs \in [Server -> [Msg -> 0..1]]
    BY DEF NetInv, NetShape
  <2>2. CASE runs' = runs
    BY <2>1, <2>2
  <2>3. CASE Runs(hand[s], m) /\ m \in Msg /\ \E n \in {0, 1} : runs' = [runs EXCEPT ![s][m] = runs[s][m] + n]
    <3>1. runs[s][m] = 0
      BY <2>1, <2>3 DEF NetInv, OnePlace
    <3>2. PICK n \in {0, 1} : runs' = [runs EXCEPT ![s][m] = runs[s][m] + n]
      BY <2>3
    <3>3. runs[s][m] + n \in 0..1
      BY <3>1
    <3> HIDE DEF m, Runs
    <3>4. runs' \in [Server -> [Msg -> 0..1]]
      BY <2>1, <2>3, <3>2, <3>3
    <3>5. \A x \in Server, k \in Msg : runs'[x][k] = runs[x][k] \/ (x = s /\ k = m)
      BY <2>1, <3>2
    <3> QED
      BY <2>3, <3>4, <3>5
  <2> QED
    BY <1>5, <2>2, <2>3
<1>9. NetShape'
    BY <1>0, <1>1, <1>2, <1>7, <1>8 DEF NetInv, NetShape, Runs
<1> HIDE DEF m, Runs, Waits
<1>10. OnePlace'
  <2> SUFFICES ASSUME NEW x \in Server, NEW k \in Msg
               PROVE  /\ \A i, j \in Waits(x, k)' : i = j
                      /\ Runs(hand'[x], k) => Waits(x, k)' = {}
                      /\ runs'[x][k] = 1 => Waits(x, k)' = {} /\ ~Runs(hand'[x], k)
    BY DEF OnePlace, Runs
  <2>1. /\ \A i, j \in Waits(x, k) : i = j
        /\ Runs(hand[x], k) => Waits(x, k) = {}
        /\ runs[x][k] = 1 => Waits(x, k) = {} /\ ~Runs(hand[x], k)
    BY DEF NetInv, OnePlace
  <2>2. CASE runs'[x][k] = runs[x][k]
    BY <1>3, <1>6, <2>1, <2>2
  <2>3. CASE x = s /\ k = m /\ Runs(hand[s], m)
    BY <1>3, <1>6, <2>1, <2>3
  <2> QED
    BY <1>8, <2>2, <2>3
<1>11. \A x \in Server, k \in Msg : Untouched(x, k) => Untouched(x, k)'
  <2> SUFFICES ASSUME NEW x \in Server, NEW k \in Msg, Untouched(x, k)
               PROVE  Waits(x, k)' = {} /\ ~Runs(hand'[x], k) /\ runs'[x][k] = 0
    BY DEF Untouched, Runs
  <2>1. runs[x][k] = 0 /\ Waits(x, k) = {} /\ ~Runs(hand[x], k)
    BY DEF Untouched
  <2>2. ~(x = s /\ k = m /\ Runs(hand[s], m))
    BY <2>1
  <2> QED
    BY <1>3, <1>6, <1>8, <2>1, <2>2
<1> QED
    BY <1>0, <1>1, <1>9, <1>10, <1>11, NothingTouched

\* A server is stopped: its line is lost.
LEMMA StopsInv ==
    ASSUME NetInv, NEW s \in Server, StopServer(s)
    PROVE  NetInv'
<1>0. hand' = hand /\ caller' = caller /\ used' = used /\ runs' = runs /\ told' = told
      /\ line' = [line EXCEPT ![s] = <<>>] /\ line \in [Server -> Seq(NetRequest)]
    BY DEF StopServer, NetInv, NetShape
<1>1. line' \in [Server -> Seq(NetRequest)] /\ line'[s] = <<>> /\ \A x \in Server \ {s} : line'[x] = line[x]
    BY <1>0
<1>2. \A k \in Msg : Waits(s, k)' = {}
  <2>1. Len(line'[s]) = 0
    BY <1>1
  <2> QED
    BY <2>1 DEF Waits
<1>3. \A x \in Server, k \in Msg : Waits(x, k)' = Waits(x, k) \/ Waits(x, k)' = {}
    BY <1>1, <1>2 DEF Waits, Runs
<1>4. \A x \in Server, k \in Msg : Runs(hand[x], k)' <=> Runs(hand[x], k)
    BY <1>0 DEF Runs
<1>5. NetShape'
    BY <1>0, <1>1 DEF NetInv, NetShape, Runs
<1> HIDE DEF Runs, Waits
<1>6. OnePlace' /\ \A x \in Server, k \in Msg : Untouched(x, k) => Untouched(x, k)'
    BY <1>0, <1>3, <1>4 DEF NetInv, OnePlace, Untouched
<1>7. \A d \in Client : AtHub(d)' => AtHub(d) /\ caller'[d].msg = caller[d].msg
    BY <1>0 DEF AtHub
<1> QED
    BY <1>0, <1>5, <1>6, <1>7, NothingTouched

\* However calls time out while their requests wait in the lines of servers
\* that take one after the other, no server's adapter runs a message or a
\* task twice: CallFails posts again only what went to the hub.
THEOREM MessagesRunOnce == NetSpec => []OneRunPerServer
<1>1. NetInit => NetInv
  <2> SUFFICES ASSUME NetInit PROVE NetInv
    OBVIOUS
  <2>1. /\ line = [s \in Server |-> <<>>] /\ hand = [s \in Server |-> NoRequest]
        /\ caller = [c \in Client |-> NoCall] /\ used = {} /\ told = {}
        /\ runs = [s \in Server |-> [m \in Msg |-> 0]]
    BY DEF NetInit
  <2>2. \A k : ~Runs(NoRequest, k)
    BY DEF Runs, NoRequest
  <2>3. \A s \in Server, m \in Msg : Waits(s, m) = {} /\ runs[s][m] = 0 /\ ~Runs(hand[s], m)
    <3>1. \A s \in Server : Len(line[s]) = 0 /\ hand[s] = NoRequest
      BY <2>1
    <3> QED
      BY <2>1, <2>2, <3>1 DEF Waits
  <2>4. \A c \in Client : ~AtHub(c)
    BY <2>1 DEF AtHub, NoCall
  <2>5. NetShape
    BY <2>1, <2>2 DEF NetShape
  <2> QED
    BY <2>1, <2>3, <2>4, <2>5 DEF NetInv, OnePlace, HubFirst, Untouched
<1>2. NetInv /\ [NetNext]_netVars => NetInv'
  <2> SUFFICES ASSUME NetInv, [NetNext]_netVars PROVE NetInv'
    OBVIOUS
  <2>1. CASE UNCHANGED netVars
    BY <2>1 DEF netVars, NetInv, NetShape, OnePlace, HubFirst, Untouched, Waits, Runs, AtHub
  <2>2. CASE NetNext
    BY <2>2, SentInv, CallsInv, ServesInv, AnswersInv, StopsInv DEF NetNext
  <2> QED
    BY <2>1, <2>2
<1>3. NetInv => OneRunPerServer
  <2> SUFFICES ASSUME NetInv, NEW s \in Server, NEW m \in Msg PROVE runs[s][m] <= 1
    BY DEF OneRunPerServer
  <2>1. runs[s][m] \in 0..1
    BY DEF NetInv, NetShape
  <2> QED
    BY <2>1
<1> QED
    BY <1>1, <1>2, <1>3, PTL DEF NetSpec

-----------------------------------------------------------------------------
(* The registry: why an agent that is given was alive lately, for any       *)
(* agents and any time to live.                                             *)

Card == [on : BOOLEAN, status : {"online", "offline"}, age : Nat]

\* A card that says online and has not expired is not much younger than the
\* death of its agent.
NotLongDead(a) ==
    card[a].on /\ card[a].status = "online" /\ card[a].age <= CardTtl => dead[a] <= card[a].age + 1

RegistryInv ==
    /\ card \in [Agents -> Card] /\ dead \in [Agents -> Nat] /\ chosen \subseteq Agents
    /\ \A a \in Agents \ hublist : NotLongDead(a)
    /\ ChosenWasAlive

\* The cards there are.
LEMMA CardsAreCards ==
    /\ NoCard \in Card /\ ~NoCard.on
    /\ \A st \in {"online", "offline"} : NewCard(st) \in Card /\ NewCard(st).status = st /\ NewCard(st).age = 0
BY DEF NoCard, NewCard, Card

\* A card for a living agent, or none, takes the place of another.
LEMMA CardsReplaced ==
    ASSUME RegistryInv, card' \in [Agents -> Card], dead' = dead, chosen' = {}, hublist \subseteq hublist',
           \A a \in Agents \ hublist' :
              card'[a] = card[a] \/ ~card'[a].on \/ card'[a].status = "offline" \/ dead[a] = 0
    PROVE  RegistryInv'
<1>1. ASSUME NEW a \in Agents \ hublist' PROVE NotLongDead(a)'
  <2>1. NotLongDead(a) /\ dead[a] \in Nat /\ card'[a] \in Card
    BY <1>1 DEF RegistryInv
  <2>2. CASE dead[a] = 0
    <3>1. card'[a].age \in Nat
      BY <2>1 DEF Card
    <3> QED
      BY <2>2, <3>1 DEF NotLongDead
  <2>3. CASE card'[a] = card[a]
    BY <2>1, <2>3 DEF NotLongDead
  <2>4. CASE ~card'[a].on \/ card'[a].status = "offline"
    BY <2>4 DEF NotLongDead
  <2> QED
    BY <2>2, <2>3, <2>4
<1>2. ChosenWasAlive'
    BY DEF ChosenWasAlive
<1> QED
    BY <1>1, <1>2 DEF RegistryInv

\* Agents register, leave and are asked how they are.
LEMMA CardsInv ==
    ASSUME RegistryInv, NEW a \in Agents, RegisterLocal(a) \/ Unregister(a) \/ CheckHealth(a)
    PROVE  RegistryInv'
<1>0. card \in [Agents -> Card] /\ dead' = dead /\ chosen' = {} /\ AgentStatus(a) \in {"online", "offline"}
      /\ (AgentStatus(a) = "online" => dead[a] = 0)
    BY DEF RegistryInv, RegisterLocal, Unregister, CheckHealth, AgentStatus
<1>1. ASSUME NEW r \in Card, card' = [card EXCEPT ![a] = r], hublist \subseteq hublist',
             ~r.on \/ r.status = "offline" \/ dead[a] = 0
      PROVE  RegistryInv'
  <2>1. card' \in [Agents -> Card] /\ card'[a] = r /\ \A b \in Agents \ {a} : card'[b] = card[b]
    BY <1>0, <1>1
  <2> QED
    BY <1>0, <1>1, <2>1, CardsReplaced
<1>2. CASE RegisterLocal(a)
  <2> DEFINE r == NewCard(AgentStatus(a))
  <2>1. r \in Card /\ r.status = AgentStatus(a)
    BY <1>0, CardsAreCards
  <2>2. card' = [card EXCEPT ![a] = r] /\ hublist \subseteq hublist'
    BY <1>2 DEF RegisterLocal, Registered
  <2> HIDE DEF r
  <2> QED
    BY <1>0, <1>1, <2>1, <2>2
<1>3. CASE Unregister(a)
  <2>1. NoCard \in Card /\ ~NoCard.on
    BY CardsAreCards
  <2> QED
    BY <1>1, <1>3, <2>1 DEF Unregister
<1>4. CASE CheckHealth(a)
  <2> DEFINE r == [card[a] EXCEPT !.status = AgentStatus(a)]
  <2>1. r \in Card /\ r.status = AgentStatus(a)
    BY <1>0 DEF Card
  <2>2. card' = [card EXCEPT ![a] = r] /\ hublist \subseteq hublist'
    BY <1>4 DEF CheckHealth
  <2> HIDE DEF r
  <2> QED
    BY <1>0, <1>1, <2>1, <2>2
<1> QED
    BY <1>2, <1>3, <1>4

\* Cards are looked up elsewhere, or dropped because they are old.
LEMMA LooksInv ==
    ASSUME RegistryInv, Discover \/ ListAgents \/ SelectAgent
    PROVE  RegistryInv'
<1>0. card \in [Agents -> Card] /\ dead \in [Agents -> Nat] /\ CardTtl \in Nat
    BY RegistryAssumption DEF RegistryInv
<1>1. CASE Discover
  <2>1. PICK answered \in SUBSET {a \in RemoteAgent : dead[a] = 0} :
          card' = [a \in Agents |-> IF a \in answered \cup (IF HubLists THEN hublist ELSE {})
                                    THEN NewCard("online") ELSE card[a]]
    BY <1>1 DEF Discover
  <2>2. dead' = dead /\ chosen' = {} /\ hublist' = hublist
    BY <1>1 DEF Discover
  <2>3. NewCard("online") \in Card
    BY CardsAreCards
  <2>4. card' \in [Agents -> Card]
    BY <1>0, <2>1, <2>3
  <2>5. \A a \in Agents \ hublist' : card'[a] = card[a] \/ dead[a] = 0
    BY <2>1, <2>2
  <2> QED
    BY <2>2, <2>4, <2>5, CardsReplaced
<1>2. Expired(card) \in [Agents -> Card]
      /\ \A a \in Agents : /\ Expired(card)[a] = card[a] \/ ~Expired(card)[a].on
                           /\ Expired(card)[a].on => Expired(card)[a] = card[a] /\ card[a].age <= CardTtl
  <2>1. NoCard \in Card /\ ~NoCard.on
    BY CardsAreCards
  <2>2. \A a \in Agents : card[a].age \in Nat
    BY <1>0 DEF Card
  <2> HIDE DEF NoCard
  <2> QED
    BY <1>0, <2>1, <2>2 DEF Expired
<1>3. CASE ListAgents
    BY <1>2, <1>3, CardsReplaced DEF ListAgents
<1>4. CASE SelectAgent
  <2>1. card' = Expired(card) /\ hublist' = hublist /\ dead' = dead
    BY <1>4 DEF SelectAgent
  <2>2. PICK a \in Candidates(Expired(card)) : chosen' = {a}
    BY <1>4 DEF SelectAgent
  <2>3. a \in Agents /\ Expired(card)[a].on /\ Expired(card)[a].status = "online"
    BY <2>2, RegistryAssumption DEF Candidates, Agents
  <2>4. a \notin hublist => dead[a] <= CardTtl + 1
    <3> SUFFICES ASSUME a \notin hublist PROVE dead[a] <= CardTtl + 1
      OBVIOUS
    <3>1. card[a].on /\ card[a].status = "online" /\ card[a].age <= CardTtl /\ card[a].age \in Nat /\ dead[a] \in Nat
      BY <1>0, <1>2, <2>3 DEF Card
    <3>2. dead[a] <= card[a].age + 1
      BY <2>3, <3>1 DEF RegistryInv, NotLongDead
    <3> QED
      BY <1>0, <3>1, <3>2
  <2>5. \A b \in Agents \ hublist' : NotLongDead(b)'
    <3> SUFFICES ASSUME NEW b \in Agents \ hublist PROVE NotLongDead(b)'
      BY <2>1
    <3>1. NotLongDead(b) /\ (card'[b] = card[b] \/ ~card'[b].on)
      BY <1>2, <2>1 DEF RegistryInv
    <3> QED
      BY <2>1, <3>1 DEF NotLongDead
  <2>6. ChosenWasAlive'
    BY <2>1, <2>2, <2>4 DEF ChosenWasAlive
  <2>7. card' \in [Agents -> Card] /\ dead' \in [Agents -> Nat] /\ chosen' \subseteq Agents
    BY <1>0, <1>2, <2>1, <2>2, <2>3
  <2> QED
    BY <2>5, <2>6, <2>7 DEF RegistryInv
<1> QED
    BY <1>1, <1>3, <1>4

\* Agents die and come back, and cards get older.
LEMMA AgesInv ==
    ASSUME RegistryInv, TimePasses \/ \E a \in Agents : AgentChanges(a)
    PROVE  RegistryInv'
<1>0. card \in [Agents -> Card] /\ dead \in [Agents -> Nat] /\ hublist' = hublist /\ chosen' = {}
      /\ CardTtl \in Nat /\ MaxDead \in Nat
    BY RegistryAssumption DEF RegistryInv, TimePasses, AgentChanges
<1>1. ChosenWasAlive'
    BY <1>0 DEF ChosenWasAlive
<1>2. CASE \E a \in Agents : AgentChanges(a)
  <2>1. PICK a \in Agents : dead' = [dead EXCEPT ![a] = IF dead[a] = 0 THEN 1 ELSE 0] /\ card' = card
    BY <1>2 DEF AgentChanges
  <2>2. dead' \in [Agents -> Nat] /\ dead'[a] <= 1 /\ \A b \in Agents \ {a} : dead'[b] = dead[b]
    BY <1>0, <2>1
  <2>3. ASSUME NEW b \in Agents \ hublist PROVE NotLongDead(b)'
    <3>1. NotLongDead(b) /\ card[b].age \in Nat /\ dead'[b] \in Nat
      BY <1>0, <2>2 DEF RegistryInv, Card
    <3>2. CASE b = a
      BY <2>1, <2>2, <3>1, <3>2 DEF NotLongDead
    <3>3. CASE b # a
      BY <2>1, <2>2, <3>1, <3>3 DEF NotLongDead
    <3> QED
      BY <3>2, <3>3
  <2> QED
    BY <1>0, <1>1, <2>1, <2>2, <2>3 DEF RegistryInv
<1>3. CASE TimePasses
  <2> DEFINE Older(a) == [card[a] EXCEPT !.age = card[a].age + 1]
  <2>1. /\ card' = [a \in Agents |-> IF card[a].on /\ card[a].age <= CardTtl THEN Older(a) ELSE card[a]]
        /\ dead' = [a \in Agents |-> IF dead[a] \in 1..(MaxDead - 1) THEN dead[a] + 1 ELSE dead[a]]
    BY <1>3 DEF TimePasses
  <2>2. \A a \in Agents : /\ Older(a) \in Card /\ Older(a).on = card[a].on /\ Older(a).status = card[a].status
                          /\ Older(a).age = card[a].age + 1 /\ card[a].age \in Nat
    BY <1>0 DEF Card
  <2> HIDE DEF Older
  <2>3. card' \in [Agents -> Card]
    BY <1>0, <2>1, <2>2
  <2>4. dead' \in [Agents -> Nat] /\ \A a \in Agents : dead'[a] <= dead[a] + 1
    <3>1. \A a \in Agents : dead'[a] = dead[a] \/ dead'[a] = dead[a] + 1
      BY <2>1
    <3>2. dead' = [a \in Agents |-> dead'[a]]
      BY <2>1
    <3>3. \A a \in Agents : dead'[a] \in Nat /\ dead'[a] <= dead[a] + 1
      BY <1>0, <3>1
    <3> QED
      BY <3>2, <3>3
  <2>5. ASSUME NEW a \in Agents \ hublist PROVE NotLongDead(a)'
    <3> SUFFICES ASSUME card'[a].on, card'[a].status = "online", card'[a].age <= CardTtl
                 PROVE  dead'[a] <= card'[a].age + 1
      BY DEF NotLongDead
    <3>1. NotLongDead(a) /\ dead[a] \in Nat /\ dead'[a] \in Nat /\ dead'[a] <= dead[a] + 1
      BY <1>0, <2>4 DEF RegistryInv
    <3>2. CASE card[a].on /\ card[a].age <= CardTtl
      <4>1. card'[a] = Older(a)
        BY <2>1, <3>2
      <4>2. card[a].status = "online" /\ card'[a].age = card[a].age + 1 /\ card[a].age \in Nat
        BY <2>2, <4>1
      <4>3. dead[a] <= card[a].age + 1
        BY <3>1, <3>2, <4>2 DEF NotLongDead
      <4> QED
        BY <3>1, <4>2, <4>3
    <3>3. CASE ~(card[a].on /\ card[a].age <= CardTtl)
      <4>1. card'[a] = card[a]
        BY <2>1, <3>3
      <4> QED
        BY <3>3, <4>1
    <3> QED
      BY <3>2, <3>3
  <2> QED
    BY <1>0, <1>1, <2>3, <2>4, <2>5 DEF RegistryInv
<1> QED
    BY <1>2, <1>3

\* An agent that select_agent gives for a task was alive not longer ago than
\* a card is good for, unless the hub lists it, whatever was registered,
\* discovered, asked and dropped before.
THEOREM ChosenAgentsWereAlive == RegistrySpec => []ChosenWasAlive
<1>1. RegistryInit => RegistryInv
  <2> SUFFICES ASSUME RegistryInit PROVE RegistryInv
    OBVIOUS
  <2>1. NoCard \in Card /\ ~NoCard.on
    BY CardsAreCards
  <2>2. card = [a \in Agents |-> NoCard] /\ dead = [a \in Agents |-> 0] /\ chosen = {}
    BY DEF RegistryInit
  <2> HIDE DEF NoCard
  <2>3. card \in [Agents -> Card] /\ dead \in [Agents -> Nat] /\ \A a \in Agents : ~card[a].on
    BY <2>1, <2>2
  <2> QED
    BY <2>2, <2>3 DEF RegistryInv, NotLongDead, ChosenWasAlive
<1>2. RegistryInv /\ [RegistryNext]_regVars => RegistryInv'
  <2> SUFFICES ASSUME RegistryInv, [RegistryNext]_regVars PROVE RegistryInv'
    OBVIOUS
  <2>1. CASE UNCHANGED regVars
    BY <2>1 DEF regVars, RegistryInv, NotLongDead, ChosenWasAlive
  <2>2. CASE RegistryNext
    BY <2>2, CardsInv, LooksInv, AgesInv DEF RegistryNext
  <2> QED
    BY <2>1, <2>2
<1> QED
    BY <1>1, <1>2, PTL DEF RegistrySpec, RegistryInv

-----------------------------------------------------------------------------
(* The configuration: why names stay unique, whatever threads overwrite of  *)
(* each other's work.                                                       *)

EntryRecord == [name : EntryName, value : 0..1]
Content == [Sections -> Seq(EntryRecord)]

Distinct(q) == \A i, j \in DOMAIN q : q[i].name = q[j].name => i = j

\* What may be in the file f.
Proper(f, c) ==
    /\ c \in Content
    /\ f # "instances" => \A s \in Sections \ {"repos"} : Distinct(c[s])

JobShape(b) == b = [at |-> b.at, req |-> b.req, new |-> b.new, file |-> b.file]

\* What is on disk is proper, and so is what a thread is about to write there.
FilesInv ==
    /\ disk = [f \in Files |-> disk[f]] /\ job = [h \in CHandler |-> job[h]]
    /\ \A f \in Files : Proper(f, disk[f].body)
    /\ \A h \in CHandler :
         /\ JobShape(job[h]) /\ job[h].at \in {"free", "check", "open", "write"}
         /\ job[h].at = "check" =>
              job[h].file = "config" /\ job[h].req[2] \in EntryName /\ job[h].req[3] \in EntryName
         /\ job[h].at \in {"open", "write"} => job[h].file \in Files /\ Proper(job[h].file, job[h].new)

\* A file without entries.
LEMMA NothingIsProper == Nothing \in Content /\ \A f \in Files : Proper(f, Nothing)
BY DEF Nothing, Content, Proper, Distinct

\* A section is replaced by a list without doubles.
LEMMA InIsProper ==
    ASSUME NEW f, NEW c, Proper(f, c), NEW s \in Sections, NEW q \in Seq(EntryRecord),
           s = "repos" \/ f = "instances" \/ Distinct(q)
    PROVE  \A new \in In(c, s, q) : Proper(f, new)
<1>1. c \in [Sections -> Seq(EntryRecord)]
    BY DEF Proper, Content
<1> DEFINE d == [c EXCEPT ![s] = q]
<1>2. d \in [Sections -> Seq(EntryRecord)] /\ d[s] = q /\ \A r \in Sections \ {s} : d[r] = c[r]
    BY <1>1
<1> HIDE DEF d
<1>3. Proper(f, d)
    BY <1>2 DEF Proper, Content
<1> QED
    BY <1>3 DEF In, d

\* A section of a proper file.
LEMMA SectionsAreLists ==
    ASSUME NEW f, NEW c, Proper(f, c), NEW s \in Sections
    PROVE  c[s] \in Seq(EntryRecord) /\ (s = "repos" \/ f = "instances" \/ Distinct(c[s]))
BY DEF Proper, Content

\* An entry is appended under a name that is not there.
LEMMA AppendedIsDistinct ==
    ASSUME NEW q \in Seq(EntryRecord), NEW n \in EntryName
    PROVE  /\ Append(q, Entry(n, 0)) \in Seq(EntryRecord)
           /\ Distinct(q) /\ ~Has(q, n) => Distinct(Append(q, Entry(n, 0)))
<1> DEFINE e == Entry(n, 0)
           a == Append(q, e)
<1>1. e \in EntryRecord /\ e.name = n
    BY DEF Entry, EntryRecord
<1> HIDE DEF e
<1>2. /\ a \in Seq(EntryRecord) /\ Len(a) = Len(q) + 1 /\ Len(q) \in Nat
      /\ DOMAIN q = 1..Len(q) /\ DOMAIN a = 1..Len(q) + 1
      /\ a[Len(q) + 1] = e /\ \A i \in 1..Len(q) : a[i] = q[i]
    BY <1>1
<1> HIDE DEF a
<1>3. ASSUME Distinct(q), ~Has(q, n) PROVE Distinct(a)
  <2>1. \A i \in 1..Len(q) : q[i].name # n
    BY <1>2, <1>3 DEF Has, Named
  <2>2. \A i \in DOMAIN a : i \in 1..Len(q) \/ i = Len(q) + 1
    BY <1>2
  <2> QED
    BY <1>1, <1>2, <1>3, <2>1, <2>2 DEF Distinct
<1> QED
    BY <1>2, <1>3 DEF a, e

\* An entry with a new value or a new name, and the list it is in.
LEMMA EntryChanged ==
    ASSUME NEW e \in EntryRecord
    PROVE  /\ [e EXCEPT !.value = 1] \in EntryRecord /\ [e EXCEPT !.value = 1].name = e.name
           /\ \A m \in EntryName : [e EXCEPT !.name = m] \in EntryRecord
BY DEF EntryRecord

\* A list with one entry replaced is a list.
LEMMA ListChanged ==
    ASSUME NEW R, NEW q \in Seq(R), NEW k, NEW e, k \in DOMAIN q => e \in R
    PROVE  [q EXCEPT ![k] = e] \in Seq(R)
<1> DEFINE p == [q EXCEPT ![k] = e]
<1>1. Len(q) \in Nat /\ q \in [1..Len(q) -> R] /\ DOMAIN q = 1..Len(q)
    OBVIOUS
<1>2. p \in [1..Len(q) -> R]
    BY <1>1
<1> HIDE DEF p
<1>3. p \in Seq(R)
    BY <1>1, <1>2
<1> QED
    BY <1>3 DEF p

\* A patched list has the names it had.
LEMMA PatchedIsDistinct ==
    ASSUME NEW q \in Seq(EntryRecord), NEW n
    PROVE  Patched(q, n) \in Seq(EntryRecord) /\ (Distinct(q) => Distinct(Patched(q, n)))
<1> DEFINE k == FirstOf(q, n)
           e == [q[k] EXCEPT !.value = 1]
           p == [q EXCEPT ![k] = e]
<1>1. Patched(q, n) = p
    BY DEF Patched
<1> HIDE DEF k
<1>2. k \in DOMAIN q => e \in EntryRecord /\ e.name = q[k].name
  <2>1. k \in DOMAIN q => q[k] \in EntryRecord
    OBVIOUS
  <2> QED
    BY <2>1, EntryChanged
<1> HIDE DEF e
<1>3. DOMAIN p = DOMAIN q /\ \A i \in DOMAIN q : p[i] = IF i = k THEN e ELSE q[i]
    OBVIOUS
<1>4. p \in Seq(EntryRecord)
    BY <1>2, ListChanged
<1> HIDE DEF p
<1>5. \A i \in DOMAIN q : p[i].name = q[i].name
    BY <1>2, <1>3
<1> QED
    BY <1>1, <1>3, <1>4, <1>5 DEF Distinct

\* Taking a name out of a list leaves the others as they are.
LEMMA WithoutIsDistinct ==
    ASSUME NEW q \in Seq(EntryRecord), NEW n, NEW m
    PROVE  /\ Without(q, n) \in Seq(EntryRecord)
           /\ Distinct(q) => Distinct(Without(q, n))
           /\ ~Has(q, m) => ~Has(Without(q, n), m)
<1> DEFINE S == DOMAIN q \ Named(q, n)
           N == Cardinality(S)
           w == Sublist(q, S)
<1>1. S \in SUBSET DOMAIN q
    OBVIOUS
<1> HIDE DEF S
<1>2. w \in Seq(EntryRecord) /\ DOMAIN w = 1..N
    BY <1>1, SublistOf
<1>3. PICK at \in [1..N -> S] :
        /\ \A k \in 1..N : w[k] = q[at[k]]
        /\ \A k, i \in 1..N : at[k] = at[i] => k = i
    BY <1>1, SublistOf
<1> HIDE DEF w, N
<1>4. \A k \in DOMAIN w : at[k] \in DOMAIN q
    BY <1>1, <1>2, <1>3
<1>5. Distinct(q) => Distinct(w)
    BY <1>2, <1>3, <1>4 DEF Distinct
<1>6. ~Has(q, m) => ~Has(w, m)
    BY <1>2, <1>3, <1>4 DEF Has, Named
<1> QED
    BY <1>2, <1>5, <1>6 DEF Without, w, S

\* Appending where the name is free, or where doubles are allowed.
LEMMA AddedIsProper ==
    ASSUME NEW f, NEW c, Proper(f, c), NEW s \in Sections, NEW n \in EntryName,
           f = "instances" \/ ~Has(c[s], n)
    PROVE  \A new \in Added(c, s, n) : Proper(f, new)
<1> DEFINE q == c[s]
           a == Append(q, Entry(n, 0))
<1>1. q \in Seq(EntryRecord) /\ (s = "repos" \/ f = "instances" \/ Distinct(q))
    BY SectionsAreLists
<1>2. a \in Seq(EntryRecord) /\ (Distinct(q) /\ ~Has(q, n) => Distinct(a))
    BY <1>1, AppendedIsDistinct
<1>3. Added(c, s, n) = In(c, s, a)
    BY DEF Added
<1> HIDE DEF a
<1> QED
    BY <1>1, <1>2, <1>3, InIsProper

\* Patching, deleting, and patching or adding.
LEMMA PatchIsProper ==
    ASSUME NEW f, NEW c, Proper(f, c), NEW s \in Sections, NEW n \in EntryName
    PROVE  /\ \A new \in PatchIn(c, s, n) : Proper(f, new)
           /\ \A new \in DeleteIn(c, s, n) : Proper(f, new)
           /\ \A new \in PutIn(c, s, n) : Proper(f, new)
<1> DEFINE q == c[s]
           p == Patched(q, n)
           w == Without(q, n)
<1>1. q \in Seq(EntryRecord) /\ (s = "repos" \/ f = "instances" \/ Distinct(q))
    BY SectionsAreLists
<1>2. p \in Seq(EntryRecord) /\ (Distinct(q) => Distinct(p))
    BY <1>1, PatchedIsDistinct
<1>3. w \in Seq(EntryRecord) /\ (Distinct(q) => Distinct(w))
    BY <1>1, WithoutIsDistinct
<1>4. /\ PatchIn(c, s, n) = IF Has(q, n) THEN In(c, s, p) ELSE {}
      /\ DeleteIn(c, s, n) = IF Has(q, n) THEN In(c, s, w) ELSE {}
      /\ PutIn(c, s, n) = IF Has(q, n) THEN In(c, s, p) ELSE Added(c, s, n)
    BY DEF PatchIn, DeleteIn, PutIn
<1> HIDE DEF p, w
<1>5. (\A new \in In(c, s, p) : Proper(f, new)) /\ (\A new \in In(c, s, w) : Proper(f, new))
    BY <1>1, <1>2, <1>3, InIsProper
<1>6. ~Has(q, n) => \A new \in Added(c, s, n) : Proper(f, new)
    BY AddedIsProper
<1> QED
    BY <1>4, <1>5, <1>6

\* What a request makes of a proper configuration is proper.
LEMMA ConfigStaysProper ==
    ASSUME NEW c, Proper("config", c), NEW n \in EntryName, NEW m \in EntryName, NEW kind \in ConfigKinds
    PROVE  \A new \in ConfigChange(kind, c, n, m) : Proper("config", new)
<1> DEFINE Ok(X) == \A new \in X : Proper("config", new)
<1>s. {"repos", "agents", "teams", "fallback_agents", "settings"} \subseteq Sections
    BY DEF Sections
<1>1. \A s \in Sections : Ok(PatchIn(c, s, n)) /\ Ok(DeleteIn(c, s, n)) /\ Ok(PutIn(c, s, n))
    BY PatchIsProper
<1>2. \A s \in Sections : ~Has(c[s], n) => Ok(Added(c, s, n))
    BY AddedIsProper
<1>3. Ok(RenameProject(c, n, m))
  <2> DEFINE q == c["repos"]
             k == FirstOf(q, n)
             e == [q[k] EXCEPT !.name = m]
             p == [q EXCEPT ![k] = e]
  <2>1. RenameProject(c, n, m) = IF ~Has(q, n) THEN {} ELSE In(c, "repos", p)
    BY DEF RenameProject
  <2>2. q \in Seq(EntryRecord)
    BY <1>s, SectionsAreLists
  <2> HIDE DEF k, q
  <2>3. k \in DOMAIN q => e \in EntryRecord
    <3>1. k \in DOMAIN q => q[k] \in EntryRecord
      BY <2>2
    <3> QED
      BY <3>1, EntryChanged
  <2> HIDE DEF e
  <2>4. p \in Seq(EntryRecord)
    BY <2>2, <2>3, ListChanged
  <2> HIDE DEF p
  <2>5. Ok(In(c, "repos", p))
    BY <1>s, <2>4, InIsProper
  <2> QED
    BY <2>1, <2>5
<1>4. Ok(RenameTeam(c, n, m))
  <2> DEFINE q == c["teams"]
             w == Without(q, n)
             a == Append(w, Entry(m, 0))
  <2>1. RenameTeam(c, n, m) = IF ~Has(q, n) \/ Has(q, m) THEN {} ELSE In(c, "teams", a)
    BY DEF RenameTeam
  <2>2. q \in Seq(EntryRecord) /\ Distinct(q)
    BY <1>s, SectionsAreLists
  <2>3. w \in Seq(EntryRecord) /\ Distinct(w) /\ (~Has(q, m) => ~Has(w, m))
    BY <2>2, WithoutIsDistinct
  <2> HIDE DEF w
  <2>4. a \in Seq(EntryRecord) /\ (~Has(w, m) => Distinct(a))
    BY <2>3, AppendedIsDistinct
  <2> HIDE DEF a, q
  <2>5. ~Has(q, m) => Ok(In(c, "teams", a))
    BY <1>s, <2>3, <2>4, InIsProper
  <2> QED
    BY <2>1, <2>5
<1>5. Ok(SaveProject(c, n)) /\ Ok(CreateTeam(c, n))
    BY <1>s, <1>2 DEF SaveProject, CreateTeam
<1>6. Ok(CompleteOnboarding(c, n))
    BY <1>s, <1>2 DEF CompleteOnboarding
<1>7. /\ Ok(DeleteProject(c, n)) /\ Ok(UpdateProjectField(c, n)) /\ Ok(SaveAgent(c, n))
      /\ Ok(DeleteAgent(c, n)) /\ Ok(PatchAgentField(c, n)) /\ Ok(DeleteTeam(c, n))
      /\ Ok(UpdateTeamField(c, n)) /\ Ok(PatchEngine(c, n)) /\ Ok(DeleteEngine(c, n))
      /\ Ok(UpdateSection(c, n))
    BY <1>s, <1>1 DEF DeleteProject, UpdateProjectField, SaveAgent, DeleteAgent, PatchAgentField,
       DeleteTeam, UpdateTeamField, PatchEngine, DeleteEngine, UpdateSection
<1> HIDE DEF Ok
<1>8. Ok(ConfigChange(kind, c, n, m))
    BY <1>3, <1>4, <1>5, <1>6, <1>7 DEF ConfigChange, ConfigKinds, ProjectRequests, AgentRequests,
       TeamRequests, EngineRequests, SettingsRequests
<1> QED
    BY <1>8 DEF Ok

\* What a request makes of a proper JSON file is proper.
LEMMA JsonStaysProper ==
    ASSUME NEW f \in JsonFiles, NEW c, Proper(f, c), NEW n \in EntryName, NEW kind \in JsonKindOf[f]
    PROVE  \A new \in JsonChange(kind, c, n) : Proper(f, new)
<1> DEFINE Ok(X) == \A new \in X : Proper(f, new)
<1>s. "list" \in Sections
    BY DEF Sections
<1>1. Ok(PatchIn(c, "list", n)) /\ Ok(DeleteIn(c, "list", n)) /\ Ok(PutIn(c, "list", n))
    BY <1>s, PatchIsProper
<1>2. f = "instances" \/ ~Has(c["list"], n) => Ok(Added(c, "list", n))
    BY <1>s, AddedIsProper
<1>3. /\ kind = "add_instance" => f = "instances"
      /\ kind \in {"add_server", "delete_server", "server", "add_trigger", "delete_trigger",
                   "add_instance", "stage", "add_env", "delete_env"}
    BY DEF JsonFiles, JsonKindOf
<1>4. Ok(AddServer(c, n))
    BY <1>2 DEF AddServer
<1>5. f = "instances" => Ok(ProvisionInstance(c, n))
    BY <1>2 DEF ProvisionInstance
<1>6. /\ Ok(DeleteServer(c, n)) /\ Ok(PatchServer(c, n)) /\ Ok(CreateTrigger(c, n))
      /\ Ok(DeleteTrigger(c, n)) /\ Ok(SetProjectEnv(c, n)) /\ Ok(DeleteProjectEnv(c, n))
      /\ Ok(PatchStage(c, n))
    BY <1>1 DEF DeleteServer, PatchServer, CreateTrigger, DeleteTrigger, SetProjectEnv,
       DeleteProjectEnv, PatchStage
<1> HIDE DEF Ok
<1>7. Ok(JsonChange(kind, c, n))
    BY <1>3, <1>4, <1>5, <1>6 DEF JsonChange
<1> QED
    BY <1>7 DEF Ok

\* What a thread makes of the file it has read is proper.
LEMMA ResultIsProper ==
    ASSUME FilesInv, NEW f \in Files, NEW kind \in KindsOf(f), NEW n \in EntryName, NEW m \in EntryName
    PROVE  \A new \in Result(f, kind, n, m) : Proper(f, new)
<1> DEFINE c == disk[f].body
<1>1. Proper(f, c)
    BY DEF FilesInv
<1> HIDE DEF c
<1>2. CASE f # "config"
  <2>1. f \in JsonFiles /\ kind \in JsonKindOf[f]
    BY <1>2 DEF Files, KindsOf
  <2>2. \A new \in JsonChange(kind, c, n) : Proper(f, new)
    BY <1>1, <2>1, JsonStaysProper
  <2> QED
    BY <1>2, <2>2 DEF Result, c
<1>3. CASE f = "config"
  <2>1. kind \in ConfigKinds
    BY <1>3 DEF KindsOf
  <2>2. \A new \in ConfigChange(kind, c, n, m) : Proper("config", new)
    BY <1>1, <1>3, <2>1, ConfigStaysProper
  <2>3. Result(f, kind, n, m) \in {{}, ConfigChange(kind, c, n, m)}
    BY <1>3 DEF Result, c
  <2> QED
    BY <1>3, <2>2, <2>3
<1> QED
    BY <1>2, <1>3

\* One thread goes on, and the disk is as it was.
LEMMA JobGoesOn ==
    ASSUME FilesInv, NEW h \in CHandler, NEW b, JobShape(b),
           b.at \in {"free", "check", "open", "write"},
           b.at = "check" => b.file = "config" /\ b.req[2] \in EntryName /\ b.req[3] \in EntryName,
           b.at \in {"open", "write"} => b.file \in Files /\ Proper(b.file, b.new),
           job' = [job EXCEPT ![h] = b],
           disk' = [f \in Files |-> disk'[f]], \A f \in Files : Proper(f, disk'[f].body)
    PROVE  FilesInv'
<1>1. \A g \in CHandler : job'[g] = IF g = h THEN b ELSE job[g]
    BY DEF FilesInv
<1>2. job' = [g \in CHandler |-> job'[g]]
    BY DEF FilesInv
<1> QED
    BY <1>1, <1>2 DEF FilesInv

\* Every step of a thread, and the death of the server, keep the files proper.
LEMMA FilesInvNext == FilesInv /\ [FilesNext]_fileVars => FilesInv'
<1> SUFFICES ASSUME FilesInv, [FilesNext]_fileVars PROVE FilesInv'
    OBVIOUS
<1>d. disk = [f \in Files |-> disk[f]] /\ \A f \in Files : Proper(f, disk[f].body)
    BY DEF FilesInv
<1>f. JobShape(FreeThread) /\ FreeThread.at = "free"
    BY DEF JobShape, FreeThread
<1>1. ASSUME NEW h \in CHandler, TakeRequest(h) PROVE FilesInv'
  <2>1. PICK f \in Files : \E kind \in KindsOf(f), n \in EntryName, m \in EntryName :
          \/ /\ kind = "rename"
             /\ job' = [job EXCEPT ![h] = Working("check", kind, n, m, Nothing, f)]
          \/ \E new \in Result(f, kind, n, m) :
               job' = [job EXCEPT ![h] = Working("open", kind, n, m, new, f)]
    BY <1>1 DEF TakeRequest
  <2>2. PICK kind \in KindsOf(f), n \in EntryName, m \in EntryName :
          \/ /\ kind = "rename"
             /\ job' = [job EXCEPT ![h] = Working("check", kind, n, m, Nothing, f)]
          \/ \E new \in Result(f, kind, n, m) :
               job' = [job EXCEPT ![h] = Working("open", kind, n, m, new, f)]
    BY <2>1
  <2>3. disk' = disk
    BY <1>1 DEF TakeRequest
  <2>4. ASSUME kind = "rename", job' = [job EXCEPT ![h] = Working("check", kind, n, m, Nothing, f)]
        PROVE  FilesInv'
    <3> DEFINE b == Working("check", kind, n, m, Nothing, f)
    <3>1. /\ JobShape(b) /\ b.at = "check" /\ b.file = f
          /\ b.req[2] = n /\ b.req[3] = m
      BY DEF JobShape, Working
    <3>2. f = "config"
      BY <2>4 DEF Files, KindsOf, JsonFiles, JsonKindOf
    <3> HIDE DEF b
    <3>3. job' = [job EXCEPT ![h] = b]
      BY <2>4 DEF b
    <3> QED
      BY <1>d, <2>3, <3>1, <3>2, <3>3, JobGoesOn
  <2>5. ASSUME NEW new \in Result(f, kind, n, m),
               job' = [job EXCEPT ![h] = Working("open", kind, n, m, new, f)]
        PROVE  FilesInv'
    <3> DEFINE b == Working("open", kind, n, m, new, f)
    <3>1. JobShape(b) /\ b.at = "open" /\ b.file = f /\ b.new = new
      BY DEF JobShape, Working
    <3>2. Proper(f, new)
      BY <2>5, ResultIsProper
    <3> HIDE DEF b
    <3>3. job' = [job EXCEPT ![h] = b]
      BY <2>5 DEF b
    <3> QED
      BY <1>d, <2>3, <3>1, <3>2, <3>3, JobGoesOn
  <2> QED
    BY <2>2, <2>4, <2>5
<1>2. ASSUME NEW h \in CHandler, ReadAgain(h) PROVE FilesInv'
  <2> DEFINE n == job[h].req[2]
             m == job[h].req[3]
             new == Result("config", "rename", n, m)
             c == CHOOSE d \in new : TRUE
             going == [job[h] EXCEPT !.at = "open", !.new = c]
             b == IF new = {} THEN FreeThread ELSE going
  <2>1. job[h].at = "check" /\ disk' = disk /\ job' = [job EXCEPT ![h] = b]
    BY <1>2 DEF ReadAgain
  <2>2. job[h].file = "config" /\ n \in EntryName /\ m \in EntryName /\ JobShape(job[h])
    BY <2>1 DEF FilesInv
  <2>3. "config" \in Files /\ "rename" \in KindsOf("config")
    BY DEF Files, KindsOf, ConfigKinds, ProjectRequests
  <2>4. \A d \in new : Proper("config", d)
    BY <2>2, <2>3, ResultIsProper
  <2> HIDE DEF new, n, m
  <2>5. new # {} => Proper("config", c)
    BY <2>4
  <2> HIDE DEF c
  <2> DEFINE j == job[h]
  <2>6. JobShape(going) /\ going.at = "open" /\ going.new = c /\ going.file = "config"
    <3>1. JobShape(j) /\ j.file = "config" /\ going = [j EXCEPT !.at = "open", !.new = c]
      BY <2>2
    <3> HIDE DEF j, going
    <3> QED
      BY <3>1 DEF JobShape
  <2> HIDE DEF going
  <2>7. JobShape(b) /\ (b.at = "free" \/ (b.at = "open" /\ b.file = "config" /\ Proper("config", b.new)))
    BY <1>f, <2>5, <2>6
  <2> HIDE DEF b
  <2> QED
    BY <1>d, <2>1, <2>3, <2>7, JobGoesOn
<1>3. ASSUME NEW h \in CHandler, OpenFile(h) PROVE FilesInv'
  <2> DEFINE b == [job[h] EXCEPT !.at = "write"]
             target == job[h].file
  <2>1. job[h].at = "open" /\ disk' = [disk EXCEPT ![target] = Empty] /\ job' = [job EXCEPT ![h] = b]
    BY <1>3 DEF OpenFile
  <2>2. JobShape(job[h]) /\ target \in Files /\ Proper(target, job[h].new)
    BY <2>1 DEF FilesInv
  <2>3. JobShape(b) /\ b.at = "write" /\ b.file = target /\ b.new = job[h].new
    BY <2>2 DEF JobShape
  <2>4. Empty.body = Nothing
    BY DEF Empty
  <2> HIDE DEF b, target
  <2>5. disk' = [f \in Files |-> disk'[f]] /\ \A f \in Files : disk'[f] = IF f = target THEN Empty ELSE disk[f]
    BY <1>d, <2>1
  <2>6. \A f \in Files : Proper(f, disk'[f].body)
    BY <1>d, <2>4, <2>5, NothingIsProper
  <2> QED
    BY <2>1, <2>2, <2>3, <2>5, <2>6, JobGoesOn
<1>4. ASSUME NEW h \in CHandler, WriteFile(h) PROVE FilesInv'
  <2> DEFINE target == job[h].file
             w == Whole(job[h].new)
  <2>1. /\ job[h].at = "write" /\ job' = [job EXCEPT ![h] = FreeThread]
        /\ disk' = [disk EXCEPT ![target] = w] \/ disk' = [disk EXCEPT ![target] = Garbled]
    BY <1>4 DEF WriteFile
  <2>2. target \in Files /\ Proper(target, job[h].new)
    BY <2>1 DEF FilesInv
  <2>3. w.body = job[h].new /\ Garbled.body = Nothing
    BY DEF Whole, Garbled
  <2> HIDE DEF w, target
  <2>4. PICK x \in {w, Garbled} : disk' = [disk EXCEPT ![target] = x]
    BY <2>1
  <2>5. Proper(target, x.body)
    BY <2>2, <2>3, <2>4, NothingIsProper
  <2>6. disk' = [f \in Files |-> disk'[f]] /\ \A f \in Files : disk'[f] = IF f = target THEN x ELSE disk[f]
    BY <1>d, <2>4
  <2>7. \A f \in Files : Proper(f, disk'[f].body)
    BY <1>d, <2>5, <2>6
  <2> QED
    BY <1>f, <2>1, <2>6, <2>7, JobGoesOn
<1>5. CASE KillServer
  <2>1. disk' = disk /\ job' = [h \in CHandler |-> FreeThread]
    BY <1>5 DEF KillServer
  <2> QED
    BY <1>f, <1>d, <2>1 DEF FilesInv
<1>6. CASE UNCHANGED fileVars
    BY <1>6 DEF fileVars, FilesInv, JobShape
<1> QED
    BY <1>1, <1>2, <1>3, <1>4, <1>5, <1>6 DEF FilesNext

\* When swe_team.yaml starts without doubles, no file of the dashboard ever
\* has two agents, teams, engines, servers or triggers of one name, for any
\* number of threads that overwrite each other's work and a server that is
\* killed while it writes (the configuration handlers of dashboard_server.py).
THEOREM NamesStayUnique ==
    ASSUME FirstConfig \in Content, \A s \in Sections \ {"repos"} : Distinct(FirstConfig[s])
    PROVE  FilesSpec => []NamesAreUnique
<1>1. FilesInit => FilesInv
  <2> SUFFICES ASSUME FilesInit PROVE FilesInv
    OBVIOUS
  <2>1. disk = [f \in Files |-> disk[f]] /\ job = [h \in CHandler |-> job[h]]
    BY DEF FilesInit
  <2>2. \A f \in Files : disk[f].body = IF f = "config" THEN FirstConfig ELSE Nothing
    BY DEF FilesInit, Whole
  <2>3. \A f \in Files : Proper(f, disk[f].body)
    BY <2>2, NothingIsProper DEF Proper
  <2>4. JobShape(FreeThread) /\ FreeThread.at = "free"
    BY DEF JobShape, FreeThread
  <2>5. \A h \in CHandler : job[h] = FreeThread
    BY DEF FilesInit
  <2> QED
    BY <2>1, <2>3, <2>4, <2>5 DEF FilesInv
<1>2. FilesInv /\ [FilesNext]_fileVars => FilesInv'
    BY FilesInvNext
<1>3. FilesInv => NamesAreUnique
    BY DEF FilesInv, Proper, Distinct, NamesAreUnique
<1> QED
    BY <1>1, <1>2, <1>3, PTL DEF FilesSpec

-----------------------------------------------------------------------------
(* The token log: why its views add up.                                     *)

LineRecord == [ticket : UsageTicket, model : UsageModel, day : Days, half : {0, 1}, cost : Nat, whole : BOOLEAN]

LogInv ==
    /\ usageLog \in Seq(LineRecord) /\ day \in Days /\ half \in {0, 1}
    /\ \A i \in DOMAIN usageLog : usageLog[i].day <= day

\* The lines of the log, one by one.
LEMMA LinesAreRecords ==
    ASSUME LogInv, NEW i \in DOMAIN usageLog
    PROVE  usageLog[i].day \in Days /\ usageLog[i].half \in {0, 1} /\ usageLog[i].cost \in Nat
<1>1. usageLog[i] \in LineRecord
  <2> DEFINE R == LineRecord
  <2>1. usageLog \in Seq(R)
    BY DEF LogInv
  <2> HIDE DEF R
  <2>2. usageLog[i] \in R
    BY <2>1
  <2> QED
    BY <2>2 DEF R
<1> QED
    BY <1>1 DEF LineRecord

LEMMA LogInvInit == BudgetsInit => LogInv
<1> SUFFICES ASSUME BudgetsInit PROVE LogInv
    OBVIOUS
<1>1. usageLog = <<>> /\ day = 1 /\ half = 0
    BY DEF BudgetsInit
<1>2. 1 \in Days
    BY BudgetAssumption DEF Days
<1> QED
    BY <1>1, <1>2 DEF LogInv

\* A line that is appended is a record of today, whole or not.
LEMMA LineIsRecord ==
    ASSUME LogInv, NEW t \in UsageTicket, NEW m \in UsageModel, RecordUsage(t, m)
    PROVE  \E r \in LineRecord : r.day = day /\ usageLog' = Append(usageLog, r)
<1> DEFINE c == Rate[FamilyOf[m]]
           r(w) == [ticket |-> t, model |-> m, day |-> day, half |-> half, cost |-> c, whole |-> w]
           ok == (usageLog # <<>> => Last(usageLog).whole)
<1>1. c \in Nat
    BY BudgetAssumption
<1>2. UsageLine(t, m) = r(TRUE) /\ [UsageLine(t, m) EXCEPT !.whole = FALSE] = r(FALSE)
  <2>1. UsageLine(t, m) = r(TRUE)
    BY DEF UsageLine
  <2> HIDE DEF c
  <2>2. [r(TRUE) EXCEPT !.whole = FALSE] = r(FALSE)
    <3>1. ASSUME NEW w PROVE [r(TRUE) EXCEPT !.whole = w] = r(w)
      OBVIOUS
    <3> QED
      BY <3>1
  <2> QED
    BY <2>1, <2>2
<1>3. usageLog' = Append(usageLog, [r(TRUE) EXCEPT !.whole = @ /\ ok])
        \/ usageLog' = Append(usageLog, [r(FALSE) EXCEPT !.whole = @ /\ ok])
    BY <1>2 DEF RecordUsage, Appended
<1> HIDE DEF ok, c
<1>4. [r(TRUE) EXCEPT !.whole = @ /\ ok] = r(TRUE /\ ok) /\ [r(FALSE) EXCEPT !.whole = @ /\ ok] = r(FALSE /\ ok)
    OBVIOUS
<1>5. \A w \in BOOLEAN : r(w) \in LineRecord /\ r(w).day = day
    BY <1>1 DEF LogInv, LineRecord
<1>6. (TRUE /\ ok) \in BOOLEAN /\ (FALSE /\ ok) \in BOOLEAN
    OBVIOUS
<1> QED
    BY <1>3, <1>4, <1>5, <1>6

LEMMA LogInvStep == LogInv /\ [BudgetsNext]_budgetVars => LogInv'
<1> SUFFICES ASSUME LogInv, [BudgetsNext]_budgetVars PROVE LogInv'
    OBVIOUS
<1>1. ASSUME NEW t \in UsageTicket, NEW m \in UsageModel, EndSession(t, m) PROVE LogInv'
  <2>1. day' = day /\ half' = half /\ RecordUsage(t, m)
    BY <1>1 DEF EndSession
  <2>2. PICK r \in LineRecord : r.day = day /\ usageLog' = Append(usageLog, r)
    BY <2>1, LineIsRecord
  <2>3. usageLog \in Seq(LineRecord) /\ day \in Days /\ day \in Int
    BY BudgetAssumption DEF LogInv, Days
  <2>4. usageLog' \in Seq(LineRecord)
    BY <2>2, <2>3
  <2>5. \A i \in DOMAIN usageLog' : usageLog'[i].day <= day
    BY <2>2, <2>3 DEF LogInv
  <2> QED
    BY <2>1, <2>4, <2>5 DEF LogInv
<1>2. CASE NextDay
  <2>1. usageLog' = usageLog /\ half' = 0 /\ day' = day + 1 /\ day < MaxDay
    BY <1>2 DEF NextDay
  <2>2. day \in 1..MaxDay /\ MaxDay \in Nat /\ \A i \in DOMAIN usageLog : usageLog[i].day \in Days
    BY BudgetAssumption, LinesAreRecords DEF LogInv, Days
  <2> QED
    BY <2>1, <2>2 DEF LogInv, Days
<1>3. ASSUME UNCHANGED <<usageLog, day>>, half' \in {0, 1} PROVE LogInv'
    BY <1>3 DEF LogInv
<1>4. CASE UNCHANGED budgetVars
    BY <1>3, <1>4 DEF budgetVars, LogInv
<1>5. CASE CheckBudget
    BY <1>3, <1>5 DEF CheckBudget, LogInv
<1>6. ASSUME NEW p \in LimitChoices, SetPolicy(p) \/ WriteTable(p) PROVE LogInv'
    BY <1>3, <1>6 DEF SetPolicy, WriteTable, LogInv
<1>7. CASE Noon \/ RestartTracker
    BY <1>3, <1>7 DEF Noon, RestartTracker, LogInv
<1> QED
    BY <1>1, <1>2, <1>4, <1>5, <1>6, <1>7 DEF BudgetsNext

Costs == [i \in DOMAIN usageLog |-> usageLog[i].cost]

\* The records of a window are a finite set of records with costs.
LEMMA WindowsAreSound ==
    ASSUME LogInv, NEW S, S \subseteq DOMAIN usageLog
    PROVE  IsFiniteSet(S) /\ (\A i \in S : Costs[i] \in Nat) /\ CostOf(S) = SumOver(Costs, S)
<1>1. IsFiniteSet(1..Len(usageLog))
  <2>1. 1 \in Int /\ Len(usageLog) \in Int
    BY DEF LogInv
  <2> QED
    BY <2>1, FS_Interval
<1>2. DOMAIN usageLog = 1..Len(usageLog) /\ \A i \in DOMAIN usageLog : usageLog[i].cost \in Nat
    BY LinesAreRecords DEF LogInv
<1>3. IsFiniteSet(S)
    BY <1>1, <1>2, FS_Subset
<1> QED
    BY <1>2, <1>3 DEF Costs, CostOf

\* The buckets of any key add up to what the window costs.
LEMMA BucketsAddUp ==
    ASSUME LogInv, NEW S, S \subseteq DOMAIN usageLog, NEW by
    PROVE  SumOf(Aggregate(S, by)) = CostOf(S)
<1> DEFINE K == Keys(S, by)
           b == Aggregate(S, by)
<1>1. IsFiniteSet(S) /\ (\A i \in S : Costs[i] \in Nat) /\ CostOf(S) = SumOver(Costs, S)
    BY WindowsAreSound
<1>2. DOMAIN b = K /\ \A k \in K : b[k] = CostOf(WithKey(S, by, k))
    BY DEF Aggregate, Keys, WithKey
<1>3. \A k \in K : b[k] = SumOver(Costs, WithKey(S, by, k))
  <2> SUFFICES ASSUME NEW k \in K PROVE b[k] = SumOver(Costs, WithKey(S, by, k))
    OBVIOUS
  <2>1. WithKey(S, by, k) \subseteq DOMAIN usageLog
    BY DEF WithKey
  <2>2. CostOf(WithKey(S, by, k)) = SumOver(Costs, WithKey(S, by, k))
    BY <2>1, WindowsAreSound
  <2> QED
    BY <1>2, <2>2
<1>4. IsFiniteSet(K)
    BY <1>1, KeysAreFinite
<1>5. WithKeys(S, by, K) = S
    BY DEF WithKeys, Keys
<1>6. SumOf(b) = SumOver(b, K)
    BY <1>2 DEF SumOf
<1> HIDE DEF b, K
<1>7. SumOver(b, K) = SumOver(Costs, WithKeys(S, by, K))
    BY <1>1, <1>3, <1>4, SumByKey
<1> QED
    BY <1>1, <1>5, <1>6, <1>7 DEF b

\* What some days cost, one by one, is what their records cost.
LEMMA DaysAddUp ==
    ASSUME LogInv, NEW L, L \subseteq Days
    PROVE  SumOver([d \in Days |-> GetDailySpend(d)], L) = CostOf({i \in LoadRecords : usageLog[i].day \in L})
<1> DEFINE S == LoadRecords
           b == [d \in Days |-> GetDailySpend(d)]
           A == {i \in S : usageLog[i].day \in L}
<1>1. S \subseteq DOMAIN usageLog
    BY DEF LoadRecords
<1> HIDE DEF S
<1>2. IsFiniteSet(S) /\ (\A i \in S : Costs[i] \in Nat) /\ CostOf(A) = SumOver(Costs, A)
    BY <1>1, WindowsAreSound
<1>3. ASSUME NEW k \in L PROVE b[k] = SumOver(Costs, WithKey(S, DayKey, k))
  <2> DEFINE Q == {i \in S : usageLog[i].day = k}
  <2>1. CostOf(Q) = SumOver(Costs, Q)
    BY <1>1, WindowsAreSound
  <2>2. b[k] = CostOf(Q)
    BY DEF GetDailySpend, S
  <2>3. WithKey(S, DayKey, k) = Q
    BY <1>1 DEF DayKey, WithKey
  <2> QED
    BY <2>1, <2>2, <2>3
<1>4. WithKeys(S, DayKey, L) = A
    BY <1>1 DEF DayKey, WithKeys
<1>5. IsFiniteSet(L)
  <2>1. 1 \in Int /\ MaxDay \in Int
    BY BudgetAssumption
  <2>2. IsFiniteSet(1..MaxDay)
    BY <2>1, FS_Interval
  <2> QED
    BY <2>2, FS_Subset DEF Days
<1> HIDE DEF b
<1>6. SumOver(b, L) = SumOver(Costs, WithKeys(S, DayKey, L))
    BY <1>2, <1>3, <1>5, SumByKey
<1> QED
    BY <1>2, <1>4, <1>6 DEF b, S

\* Of any log: the views by ticket, by model and by day add up to one sum,
\* which lies between those of the days of the window.
THEOREM ViewsAgree == BudgetsSpec => []ViewsAddUp
<1>1. ASSUME LogInv PROVE ViewsAddUp
  <2> SUFFICES ASSUME NEW n \in 1..MaxDay
        PROVE LET Spent(first) == SumOver([d \in Days |-> GetDailySpend(d)], {d \in Days : first <= d /\ d <= day})
                  all == SumOf(ByDay(n))
              IN /\ {SumOf(ByTicket(n)), SumOf(ByModel(n))} = {all}
                 /\ Spent(day - n + 1) <= all /\ all <= Spent(day - n)
    BY DEF ViewsAddUp
  <2> DEFINE W == FilterSince(n)
             b == [d \in Days |-> GetDailySpend(d)]
             L(first) == {d \in Days : first <= d /\ d <= day}
             R(first) == {i \in LoadRecords : usageLog[i].day \in L(first)}
  <2>1. W \subseteq DOMAIN usageLog /\ W \subseteq LoadRecords /\ LoadRecords \subseteq DOMAIN usageLog
    BY DEF FilterSince, LoadRecords
  <2>2. SumOf(ByTicket(n)) = CostOf(W) /\ SumOf(ByModel(n)) = CostOf(W) /\ SumOf(ByDay(n)) = CostOf(W)
    BY <1>1, <2>1, BucketsAddUp DEF ByTicket, ByModel, ByDay
  <2>3. \A i \in DOMAIN usageLog : /\ usageLog[i].day \in Days /\ usageLog[i].half \in {0, 1}
                                   /\ usageLog[i].day \in Int /\ usageLog[i].day <= day
    BY <1>1, BudgetAssumption, LinesAreRecords DEF LogInv, Days
  <2>4. n \in Int /\ day \in Int /\ half \in {0, 1}
    BY <1>1, BudgetAssumption DEF LogInv, Days
  <2>5. R(day - n + 1) \subseteq W
    BY <2>1, <2>3, <2>4 DEF FilterSince, HalfDay
  <2>6. W \subseteq R(day - n)
    BY <2>1, <2>3, <2>4 DEF FilterSince, HalfDay
  <2>7. \A first : R(first) \subseteq DOMAIN usageLog
    BY <2>1
  <2>8. ASSUME NEW first PROVE SumOver(b, L(first)) = CostOf(R(first))
    BY <1>1, DaysAddUp
  <2> HIDE DEF W, R, L, b
  <2>9. ASSUME NEW A, NEW B, A \subseteq B, B \subseteq DOMAIN usageLog PROVE CostOf(A) <= CostOf(B)
    <3>1. IsFiniteSet(B) /\ (\A i \in B : Costs[i] \in Nat) /\ CostOf(B) = SumOver(Costs, B) /\ CostOf(A) = SumOver(Costs, A)
      BY <1>1, <2>9, WindowsAreSound
    <3> QED
      BY <2>9, <3>1, SumOfMore
  <2>10. CostOf(R(day - n + 1)) <= CostOf(W) /\ CostOf(W) <= CostOf(R(day - n))
    BY <2>1, <2>5, <2>6, <2>7, <2>9
  <2> QED
    BY <2>2, <2>8, <2>10 DEF b, L
<1> QED
    BY <1>1, LogInvInit, LogInvStep, PTL DEF BudgetsSpec
=============================================================================
