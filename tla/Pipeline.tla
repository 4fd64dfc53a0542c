------------------------------ MODULE Pipeline ------------------------------
(***************************************************************************)
(* One runner working on its tickets: run_cycle and daemon_loop of         *)
(* scripts/ops/swe_team_runner.py in the sequential execution mode, with   *)
(* the agents it calls (triage_agent, investigator, developer, reviewer,   *)
(* code_reviewer, fix_verifier, distiller).                                *)
(*                                                                         *)
(* A cycle is a sequence of loops over tickets; a step here is one round   *)
(* of a loop.  What an engine session, a test run or a reviewer answers is *)
(* nondeterministic, and so is whether a ticket is older than a timeout.   *)
(*                                                                         *)
(* mem is what the runner's ticket objects say, disk what a restarted      *)
(* runner would find.  The JSON store hands out its own objects, so an     *)
(* unsaved change is seen by every later phase and saved with the next     *)
(* store.add of any ticket; the Supabase store returns fresh copies, so it *)
(* is forgotten.                                                           *)
(***************************************************************************)
EXTENDS Naturals, FiniteSets

CONSTANTS
    Ticket,        \* ticket ids
    NoTicket,      \* no ticket is being fixed
    Unfit,         \* tickets InvestigatorAgent._eligible refuses: LOW, UMBRELLA
    MaxSessions,   \* _MAX_SESSIONS_PER_TICKET, and the developer's max_attempts
    MaxTimeouts,   \* _MAX_INVESTIGATION_TIMEOUTS
    MaxReinvestigations,
    MaxRejections, \* the code reviewer's max_rejections
    Allowed,       \* of "develop" and "review", what role and workflow permit
    SharedObjects, \* JSON store (TRUE) or Supabase store (FALSE)
    MayCrash,      \* the process may die
    RateLimits     \* engines may answer "rate limited"

ASSUME PipelineAssumption ==
    /\ NoTicket \notin Ticket
    /\ Unfit \subseteq Ticket
    /\ MaxSessions \in Nat \ {0}
    /\ MaxTimeouts \in Nat \ {0}
    /\ MaxReinvestigations \in Nat
    /\ MaxRejections \in Nat \ {0}
    /\ Allowed \subseteq {"develop", "review"}
    /\ SharedObjects \in BOOLEAN
    /\ MayCrash \in BOOLEAN
    /\ RateLimits \in BOOLEAN

VARIABLES
    mem, disk,   \* tickets, as the runner and as the store have them
    phase,       \* where run_cycle is; "idle" between cycles
    todo,        \* tickets the loop of the phase has not come to yet
    new,         \* new_tickets of this cycle
    pending,     \* pending_investigation of this cycle
    busy,        \* investigations running in the batch's threads
    done,        \* investigated: tickets that got a report this cycle
    cur,         \* the ticket being developed
    stage,       \* how far the development of cur is
    loop,        \* _fix_loop: rounds used up, and records in the local attempts
    runs         \* history: investigations and fix attempts really made

pipeVars == <<mem, disk, phase, todo, new, pending, busy, done, cur, stage, loop,
              runs>>

Status == {"absent", "open", "triaged", "investigating",
           "investigation_complete", "in_development", "in_review",
           "verifying", "resolved", "rolled_back", "failed", "blocked"}

TicketRecord ==
    [st : Status,
     rep : {"none", "stub", "full"},   \* investigation_report
     hitl : BOOLEAN,                   \* metadata needs_hitl
     auto : BOOLEAN,                   \* a stored automation was applied
     appr : BOOLEAN,                   \* metadata pr_approved
     inv : 0..MaxSessions,             \* metadata investigation_attempts
     tmo : 0..MaxTimeouts,             \* metadata investigation_timeout_count
     dev : 0..MaxSessions,             \* len(metadata attempts)
     reinv : 0..MaxReinvestigations,   \* metadata reinvestigation_count
     rej : 0..MaxRejections]           \* metadata review_rejections

Fresh == [st |-> "absent", rep |-> "none", hitl |-> FALSE, auto |-> FALSE,
          appr |-> FALSE, inv |-> 0, tmo |-> 0, dev |-> 0, reinv |-> 0, rej |-> 0]

Phase == {"idle", "stale", "intake", "triage", "select", "investigate", "repair",
          "develop", "review", "verify", "stalled"}

PipelineTypeOK ==
    /\ mem \in [Ticket -> TicketRecord]
    /\ disk \in [Ticket -> TicketRecord]
    /\ phase \in Phase
    /\ todo \subseteq Ticket /\ new \subseteq Ticket
    /\ pending \subseteq Ticket /\ busy \subseteq Ticket /\ done \subseteq Ticket
    /\ cur \in Ticket \cup {NoTicket}
    /\ stage \in {"fix", "reinvestigate", "reinvestigating", "retry", "refix"}
    /\ loop \in [round : 0..MaxSessions, rec : 0..MaxSessions]
    /\ runs \in [Ticket -> [inv : 0..(MaxSessions + 1), dev : 0..(MaxSessions + 1)]]

Init ==
    /\ mem = [t \in Ticket |-> Fresh]
    /\ disk = [t \in Ticket |-> Fresh]
    /\ phase = "idle"
    /\ todo = {} /\ new = {} /\ pending = {} /\ busy = {} /\ done = {}
    /\ cur = NoTicket /\ stage = "fix" /\ loop = [round |-> 0, rec |-> 0]
    /\ runs = [t \in Ticket |-> [inv |-> 0, dev |-> 0]]

fixing == <<cur, stage, loop>>
locals == <<new, pending, busy, done, fixing>>

-----------------------------------------------------------------------------
\* The store.  Set changes a ticket object; Store also calls store.add, which
\* for the JSON store writes every object the store holds.
Set(t, r) == mem' = [mem EXCEPT ![t] = r] /\ disk' = disk

Store(t, r) ==
    /\ mem' = [mem EXCEPT ![t] = r]
    /\ disk' = IF SharedObjects THEN [mem EXCEPT ![t] = r] ELSE [disk EXCEPT ![t] = r]

\* What store.list_all returns.
List == IF SharedObjects THEN mem ELSE disk

InStatus(S) == {t \in Ticket : List[t].st \in S}

\* A phase starts: it lists the store and loops over the tickets S of the list.
EnterLoop(ph, S) ==
    /\ phase' = ph
    /\ todo' = S
    /\ mem' = List

\* run_cycle returns or raises, and the daemon waits for the next cycle.
EndCycle ==
    /\ phase' = "idle"
    /\ todo' = {} /\ new' = {} /\ pending' = {} /\ busy' = {} /\ done' = {}
    /\ cur' = NoTicket /\ stage' = "fix" /\ loop' = [round |-> 0, rec |-> 0]
    /\ mem' = List

\* One more investigation, one more fix attempt of t.
OneMore(n) == IF n <= MaxSessions THEN n + 1 ELSE n
Investigates(t) == runs' = [runs EXCEPT ![t].inv = OneMore(@)]
Attempts(t) == runs' = [runs EXCEPT ![t].dev = OneMore(@)]

-----------------------------------------------------------------------------
\* The daemon calls run_cycle, and neither a cooldown nor the preflight check
\* skips the cycle.
StartCycle ==
    /\ phase = "idle"
    /\ EnterLoop("stale", InStatus({"in_development", "investigating", "in_review"}))
    /\ UNCHANGED <<disk, locals, runs>>

\* Mutant: a stale development starts over and drops its report.
MutStaleReset(r) ==
    CASE r.st = "in_development" -> [r EXCEPT !.st = "investigation_complete",
                                              !.rep = "none"]
      [] r.st = "investigating"  -> [r EXCEPT !.st = "triaged"]
      [] OTHER                   -> [r EXCEPT !.hitl = TRUE]

\* Mutant: an investigation past its timeout is flagged instead of reset.
MutStaleKeepsInvestigating(r) ==
    CASE r.st = "in_development" -> [r EXCEPT !.st = "investigation_complete"]
      [] OTHER                   -> [r EXCEPT !.hitl = TRUE]

\* _reset_stale_tickets, what happens to a ticket past its timeout.
StaleReset(r) ==
    CASE r.st = "in_development" -> [r EXCEPT !.st = "investigation_complete"]
      [] r.st = "investigating"  -> [r EXCEPT !.st = "triaged"]
      [] OTHER                   -> [r EXCEPT !.hitl = TRUE]

StaleRound(t, old) ==
    /\ phase = "stale" /\ t \in todo
    /\ todo' = todo \ {t}
    /\ IF old THEN Store(t, StaleReset(mem[t])) ELSE UNCHANGED <<mem, disk>>
    /\ UNCHANGED <<phase, locals, runs>>

\* The circuit breaker ends the cycle here, or the intake of tickets begins.
\* (_reset_blocked_tickets comes first; it skips the tickets _fix_loop blocks,
\* which have no blocker.)
CircuitPaused ==
    /\ phase = "stale" /\ todo = {}
    /\ EndCycle
    /\ UNCHANGED <<disk, runs>>

StartIntake ==
    /\ phase = "stale" /\ todo = {}
    /\ EnterLoop("intake", {})
    /\ UNCHANGED <<disk, locals, runs>>

\* A ticket from a log scan or a regression check lives outside the store until
\* it is triaged; one from a GitHub scan is stored at once.
Detect(t, stored) ==
    /\ phase = "intake"
    /\ mem[t].st = "absent" /\ t \notin new
    /\ new' = new \cup {t}
    /\ IF stored THEN Store(t, [Fresh EXCEPT !.st = "open"]) ELSE UNCHANGED <<mem, disk>>
    /\ UNCHANGED <<phase, todo, pending, busy, done, fixing, runs>>

\* Mutant: every closed ticket whose issue is open is reopened.
MutReconcile(t) ==
    /\ phase = "intake" /\ ~SharedObjects
    /\ mem[t].st \in {"failed", "resolved"}
    /\ Store(t, [mem[t] EXCEPT !.st = "open", !.inv = 0])
    /\ UNCHANGED <<phase, todo, locals, runs>>

\* _reconcile_github_supabase: a failed ticket whose issue is still open.  The
\* JSON store's list_all takes no limit, so there the call raises and is logged.
Reconcile(t) ==
    /\ phase = "intake" /\ ~SharedObjects
    /\ mem[t].st = "failed"
    /\ Store(t, [mem[t] EXCEPT !.st = "open", !.inv = 0])
    /\ UNCHANGED <<phase, todo, locals, runs>>

\* The severity filter and the cap per cycle leave N of the new tickets.
StartTriage(N) ==
    /\ phase = "intake" /\ N \subseteq new
    /\ phase' = "triage"
    /\ todo' = N /\ new' = N
    /\ UNCHANGED <<mem, disk, pending, busy, done, fixing, runs>>

\* TriageAgent.triage and then the distiller: a ticket for an investigator or
\* for a human, and in either case one that a stored automation may fix.
Triaged(r, human, automated) ==
    [r EXCEPT !.st = IF automated THEN "in_review" ELSE "triaged",
              !.hitl = human,
              !.auto = automated]

TriageRound(t, human, automated) ==
    /\ phase = "triage" /\ t \in todo
    /\ todo' = todo \ {t}
    /\ Store(t, Triaged(mem[t], human, automated))
    /\ UNCHANGED <<phase, locals, runs>>

\* Backlog pickup: what else in the store waits for an investigation.
StoredOpen ==
    {t \in Ticket : /\ List[t].st \in {"open", "triaged"}
                    /\ ~List[t].hitl
                    /\ List[t].rep = "none"}

\* Mutant: the development backlog forgets needs_hitl.
MutDevBacklog(m) ==
    {t \in Ticket : /\ m[t].st = "investigation_complete"
                    /\ m[t].rep # "none"}

\* The development backlog.
DevBacklog(m) ==
    {t \in Ticket : /\ m[t].st = "investigation_complete"
                    /\ m[t].rep # "none"
                    /\ ~m[t].hitl}

\* Nothing to do, possibly because the severity, phase and dependency filters
\* leave nothing: run_cycle returns, reviews and verifications included.
NothingToDo ==
    /\ phase = "triage" /\ todo = {}
    /\ new = {} /\ DevBacklog(List) = {}
    /\ EndCycle
    /\ UNCHANGED <<disk, runs>>

\* The investigation batch: this cycle's tickets and the backlog, cut down by
\* dependencies, the usage governor, max_open_investigating and the batch size.
PickInvestigations(P) ==
    /\ phase = "triage" /\ todo = {}
    /\ new # {} \/ StoredOpen # {} \/ DevBacklog(List) # {}
    /\ P \subseteq {t \in new : ~mem[t].auto} \cup StoredOpen
    /\ EnterLoop("select", P)
    /\ pending' = P
    /\ UNCHANGED <<disk, new, busy, done, fixing, runs>>

\* The cap on investigations, checked on the recorded attempts.
InvestigationCap(t) ==
    /\ phase = "select" /\ t \in todo
    /\ mem[t].inv >= MaxSessions
    /\ todo' = todo \ {t}
    /\ Store(t, [mem[t] EXCEPT !.st = "failed"])
    /\ UNCHANGED <<phase, locals, runs>>

\* Mutant: the attempt is not counted before the session starts.
MutCounted(r) == r

\* investigation_attempts, counted on the ticket object.
Counted(r) == [r EXCEPT !.inv = @ + 1]

\* InvestigatorAgent._eligible (a ticket with a report is never in the batch).
Investigable(t, r) == t \notin Unfit /\ r.st \in {"open", "triaged", "investigating"}

\* Mutant: the cap is off by one.
MutJoinBatch(t, announced) ==
    /\ phase = "select" /\ t \in todo
    /\ mem[t].inv <= MaxSessions
    /\ todo' = todo \ {t}
    /\ IF announced THEN Store(t, Counted(mem[t])) ELSE Set(t, Counted(mem[t]))
    /\ busy' = IF Investigable(t, mem[t]) THEN busy \cup {t} ELSE busy
    /\ UNCHANGED <<phase, new, pending, done, fixing, runs>>

\* A ticket joins the batch.  The count is saved only with the id of the
\* comment that announces the work on the ticket's GitHub issue, if it has one.
JoinBatch(t, announced) ==
    /\ phase = "select" /\ t \in todo
    /\ mem[t].inv < MaxSessions
    /\ todo' = todo \ {t}
    /\ IF announced THEN Store(t, Counted(mem[t])) ELSE Set(t, Counted(mem[t]))
    /\ busy' = IF Investigable(t, mem[t]) THEN busy \cup {t} ELSE busy
    /\ UNCHANGED <<phase, new, pending, done, fixing, runs>>

\* Supabase's claim_ticket says that another agent has the ticket.
ClaimRefused(t) ==
    /\ ~SharedObjects
    /\ phase = "select" \/ (phase = "develop" /\ cur = NoTicket)
    /\ t \in todo
    /\ (IF phase = "select" THEN mem[t].inv ELSE mem[t].dev) < MaxSessions
    /\ todo' = todo \ {t}
    /\ UNCHANGED <<mem, disk, phase, locals, runs>>

\* investigate_batch hands the batch to its threads.
StartBatch ==
    /\ phase = "select" /\ todo = {}
    /\ phase' = "investigate"
    /\ todo' = busy
    /\ UNCHANGED <<mem, disk, locals, runs>>

\* investigate starts a session (todo: the batch, busy: sessions not over)
InvestigationStarts(t) ==
    /\ phase = "investigate" /\ t \in todo
    /\ todo' = todo \ {t}
    /\ Set(t, [mem[t] EXCEPT !.st = "investigating"])
    /\ Investigates(t)
    /\ UNCHANGED <<phase, locals>>

Investigating(t) == phase = "investigate" /\ t \in busy \ todo

\* ... and it delivers a report, which is saved when the thread is done,
InvestigationReports(t) ==
    /\ Investigating(t)
    /\ busy' = busy \ {t}
    /\ done' = done \cup {t}
    /\ Store(t, [mem[t] EXCEPT !.rep = "full", !.st = "investigation_complete"])
    /\ UNCHANGED <<phase, todo, new, pending, fixing, runs>>

\* _record_failure and _record_timeout; the last timeout leaves a stub report.
Failed(r) == [r EXCEPT !.st = "triaged"]

TimedOut(r) ==
    [r EXCEPT !.st = "triaged",
              !.tmo = IF @ < MaxTimeouts THEN @ + 1 ELSE @,
              !.rep = IF r.tmo + 1 >= MaxTimeouts THEN "stub" ELSE @]

\* ... or it fails or times out, of which nothing is saved,
InvestigationFails(t, timeout) ==
    /\ Investigating(t)
    /\ busy' = busy \ {t}
    /\ Set(t, IF timeout THEN TimedOut(mem[t]) ELSE Failed(mem[t]))
    /\ UNCHANGED <<phase, todo, new, pending, done, fixing, runs>>

\* ... or it ends in an exception that investigate_batch logs (the engine is in
\* cooldown, the local fallback model timed out): the ticket stays INVESTIGATING.
InvestigationRaises(t) ==
    /\ Investigating(t)
    /\ busy' = busy \ {t}
    /\ UNCHANGED <<mem, disk, phase, todo, new, pending, done, fixing, runs>>

\* Safety net 5b: a ticket with a report in a status it does not expect.
Misfiled(r) ==
    /\ r.rep # "none"
    /\ r.st \notin {"investigation_complete", "in_development", "resolved", "failed"}
    /\ ~r.hitl

StartRepair ==
    /\ phase = "investigate" /\ todo = {} /\ busy = {}
    /\ EnterLoop("repair", {t \in Ticket : Misfiled(List[t])})
    /\ UNCHANGED <<disk, locals, runs>>

RepairRound(t) ==
    /\ phase = "repair" /\ t \in todo
    /\ todo' = todo \ {t}
    /\ Store(t, [mem[t] EXCEPT !.st = "investigation_complete"])
    /\ UNCHANGED <<phase, locals, runs>>

-----------------------------------------------------------------------------
\* What development looks at: this cycle's reports, and the backlog if the role
\* may develop.
Candidates ==
    done \cup (IF "develop" \in Allowed THEN DevBacklog(List) ELSE {})

\* Without an investigation in this cycle _rbac_developer has no value, so its
\* first use raises and the daemon logs a failed cycle.
DevelopmentRaises ==
    /\ phase = "repair" /\ todo = {}
    /\ Candidates # {} /\ pending = {}
    /\ EndCycle
    /\ UNCHANGED <<disk, runs>>

\* The dependency filter and max_developments_per_cycle leave D of them.
StartDevelopment(D) ==
    /\ phase = "repair" /\ todo = {}
    /\ D = {} \/ pending # {}
    /\ D \subseteq Candidates
    /\ EnterLoop("develop", D)
    /\ UNCHANGED <<disk, locals, runs>>

NextTicket(t) == phase = "develop" /\ cur = NoTicket /\ t \in todo

\* A critical ticket is planned first, and saved with its plan.
PlanStored(t) ==
    /\ NextTicket(t)
    /\ Store(t, mem[t])
    /\ UNCHANGED <<phase, todo, locals, runs>>

\* The cap on development sessions.
DevelopmentCap(t) ==
    /\ NextTicket(t)
    /\ mem[t].dev >= MaxSessions
    /\ todo' = todo \ {t}
    /\ Store(t, [mem[t] EXCEPT !.st = "failed"])
    /\ UNCHANGED <<phase, locals, runs>>

\* DeveloperAgent._eligible.
Fixable(r) ==
    /\ r.rep # "none"
    /\ r.st \in {"investigation_complete", "in_development"}

\* attempt_fix begins.
FixStarts(t) ==
    /\ NextTicket(t)
    /\ mem[t].dev < MaxSessions /\ Fixable(mem[t])
    /\ todo' = todo \ {t}
    /\ cur' = t /\ stage' = "fix"
    /\ loop' = [round |-> mem[t].dev, rec |-> mem[t].dev]
    /\ Set(t, [mem[t] EXCEPT !.st = "in_development"])
    /\ UNCHANGED <<phase, new, pending, busy, done, runs>>

\* attempt_fix declines (its preflight check): the feedback loop is next.
FixDeclined(t) ==
    /\ NextTicket(t)
    /\ mem[t].dev < MaxSessions
    /\ todo' = todo \ {t}
    /\ cur' = t /\ stage' = "reinvestigate"
    /\ Store(t, mem[t])
    /\ UNCHANGED <<phase, new, pending, busy, done, loop, runs>>

Fixing == phase = "develop" /\ cur # NoTicket /\ stage \in {"fix", "refix"}
Attempting == Fixing /\ loop.round < MaxSessions

NextDevelopment == cur' = NoTicket /\ stage' = "fix" /\ loop' = [round |-> 0, rec |-> 0]

\* A round of _fix_loop is discarded.  The WebUI gates leave no record of it; a
\* missing prompt template and a failed gate after a fallback end the loop.
AttemptDiscarded(recorded, last) ==
    /\ Attempting
    /\ loop' = [round |-> IF last THEN MaxSessions ELSE loop.round + 1,
                rec |-> IF recorded THEN loop.rec + 1 ELSE loop.rec]
    /\ Attempts(cur)
    /\ UNCHANGED <<mem, disk, phase, todo, new, pending, busy, done, cur, stage>>

\* A round of _fix_loop is kept.
FixSucceeds ==
    /\ Attempting
    /\ Attempts(cur)
    /\ Store(cur, [mem[cur] EXCEPT !.dev = loop.rec + 1, !.st = "in_review"])
    /\ NextDevelopment
    /\ UNCHANGED <<phase, todo, new, pending, busy, done>>

\* _fix_loop gives up: FAILED, or BLOCKED if no recorded attempt changed a file.
FixFails(blocked) ==
    /\ Fixing /\ loop.round = MaxSessions
    /\ blocked => loop.rec > 0
    /\ Store(cur, [mem[cur] EXCEPT !.dev = loop.rec,
                                   !.st = IF blocked THEN "blocked" ELSE "failed"])
    /\ IF stage = "fix" THEN stage' = "reinvestigate" /\ UNCHANGED <<cur, loop>>
                        ELSE NextDevelopment
    /\ UNCHANGED <<phase, todo, new, pending, busy, done, runs>>

\* The rate limit in a round leaves _fix_loop by RateLimitCooldown, before the
\* attempts are written back, and run_cycle with it.
FixRateLimited ==
    /\ RateLimits /\ Attempting
    /\ Attempts(cur)
    /\ EndCycle
    /\ UNCHANGED disk

\* attempt_fix raises before its first round (no branch can be set up): the
\* loop over the tickets persists FAILED, _try_reinvestigation only logs it.
FixRaises ==
    /\ Fixing /\ loop.round = mem[cur].dev
    /\ IF stage = "fix" THEN Store(cur, [mem[cur] EXCEPT !.st = "failed"])
                        ELSE UNCHANGED <<mem, disk>>
    /\ NextDevelopment
    /\ UNCHANGED <<phase, todo, new, pending, busy, done, runs>>

MayReinvestigate(r) == r.reinv < MaxReinvestigations /\ r.dev > 0

InStage(s) == phase = "develop" /\ cur # NoTicket /\ stage = s

\* _try_reinvestigation declines, or starts a second investigation.
NoReinvestigation ==
    /\ InStage("reinvestigate")
    /\ ~MayReinvestigate(mem[cur])
    /\ NextDevelopment
    /\ UNCHANGED <<mem, disk, phase, todo, new, pending, busy, done, runs>>

Reinvestigate ==
    /\ InStage("reinvestigate")
    /\ MayReinvestigate(mem[cur])
    /\ Store(cur, [mem[cur] EXCEPT !.reinv = @ + 1, !.st = "investigating"])
    /\ stage' = "reinvestigating"
    /\ UNCHANGED <<phase, todo, new, pending, busy, done, cur, loop, runs>>

\* It renews the report,
Reinvestigated ==
    /\ InStage("reinvestigating")
    /\ Store(cur, [mem[cur] EXCEPT !.rep = "full", !.st = "investigation_complete"])
    /\ stage' = "retry"
    /\ UNCHANGED <<phase, todo, new, pending, busy, done, cur, loop, runs>>

\* ... and the fix is tried again,
RefixStarts ==
    /\ InStage("retry")
    /\ mem[cur].dev < MaxSessions
    /\ stage' = "refix"
    /\ loop' = [round |-> mem[cur].dev, rec |-> mem[cur].dev]
    /\ Set(cur, [mem[cur] EXCEPT !.st = "in_development"])
    /\ UNCHANGED <<phase, todo, new, pending, busy, done, cur, runs>>

\* ... which _fix_loop refuses when the recorded attempts are used up, and
\* attempt_fix when its preflight check fails.
RefixRefused(exhausted) ==
    /\ InStage("retry")
    /\ exhausted => mem[cur].dev >= MaxSessions
    /\ Store(cur, IF exhausted THEN [mem[cur] EXCEPT !.st = "failed"] ELSE mem[cur])
    /\ NextDevelopment
    /\ UNCHANGED <<phase, todo, new, pending, busy, done, runs>>

\* The second investigation fails or times out: the ticket is TRIAGED, so
\* attempt_fix declines.
ReinvestigationFails(timeout) ==
    /\ InStage("reinvestigating")
    /\ Store(cur, IF timeout THEN TimedOut(mem[cur]) ELSE Failed(mem[cur]))
    /\ NextDevelopment
    /\ UNCHANGED <<phase, todo, new, pending, busy, done, runs>>

\* It ends in an exception, which is logged,
ReinvestigationRaises ==
    /\ InStage("reinvestigating")
    /\ NextDevelopment
    /\ UNCHANGED <<mem, disk, phase, todo, new, pending, busy, done, runs>>

\* ... unless it is RateLimitCooldown, which ends the cycle.
ReinvestigationRateLimited ==
    /\ RateLimits /\ InStage("reinvestigating")
    /\ EndCycle
    /\ UNCHANGED <<disk, runs>>

-----------------------------------------------------------------------------
StartReview ==
    /\ phase = "develop" /\ todo = {} /\ cur = NoTicket
    /\ EnterLoop("review", InStatus({"in_review"}))
    /\ UNCHANGED <<disk, locals, runs>>

\* PR review scanner: a human asked for changes on the PR.
ChangesRequested(t) ==
    /\ phase = "review" /\ t \in todo
    /\ todo' = todo \ {t}
    /\ Store(t, [mem[t] EXCEPT !.st = "investigation_complete"])
    /\ UNCHANGED <<phase, locals, runs>>

\* SWETicket.resolution_audit of a HIGH or CRITICAL ticket: a report of some
\* length and an attempt.
AuditOK(r) == r.rep = "full" /\ r.dev > 0

\* ReviewerAgent.review_batch on one ticket, with CodeReviewerAgent's verdict.
\* An approved ticket with a PR stays IN_REVIEW; without one, or if the QA gate
\* fails, it goes back; so does a rejected one, until it is a human's.
Reviewed(r, verdict) ==
    CASE ~AuditOK(r)             -> [r EXCEPT !.st = "in_development"]
      [] verdict = "approved"    -> [r EXCEPT !.appr = TRUE]
      [] verdict = "no_pr"       -> [r EXCEPT !.st = "in_development"]
      [] verdict = "qa_failed"   -> [r EXCEPT !.appr = TRUE, !.st = "in_development"]
      [] verdict = "rejected" /\ r.rej + 1 < MaxRejections ->
            [r EXCEPT !.rej = @ + 1, !.st = "in_development"]
      [] OTHER                   -> [r EXCEPT !.rej = MaxRejections, !.hitl = TRUE]

Verdict == {"approved", "no_pr", "qa_failed", "rejected"}

ReviewRound(t, verdict) ==
    /\ phase = "review" /\ t \in todo /\ "review" \in Allowed
    /\ todo' = todo \ {t}
    /\ Store(t, Reviewed(mem[t], verdict))
    /\ UNCHANGED <<phase, locals, runs>>

StartVerification ==
    /\ phase = "review"
    /\ todo = {} \/ "review" \notin Allowed
    /\ EnterLoop("verify", InStatus({"verifying"}))
    /\ UNCHANGED <<disk, locals, runs>>

\* FixVerifier.check_verification: still waiting, or the window is over.
VerifyRound(t, st) ==
    /\ phase = "verify" /\ t \in todo
    /\ todo' = todo \ {t}
    /\ Store(t, [mem[t] EXCEPT !.st = st])
    /\ UNCHANGED <<phase, locals, runs>>

\* ... or the error is back: a regression ticket u is stored, as far as there is
\* an id left, and the merge is reverted or not.
Recurrence(t, st, u) ==
    LET m == [mem EXCEPT ![t].st = st,
                         ![u] = IF @.st = "absent" THEN [Fresh EXCEPT !.st = "open"]
                                ELSE @]
    IN  /\ phase = "verify" /\ t \in todo /\ u # t
        /\ todo' = todo \ {t}
        /\ mem' = m
        /\ disk' = IF SharedObjects THEN m ELSE [disk EXCEPT ![t] = m[t], ![u] = m[u]]
        /\ UNCHANGED <<phase, locals, runs>>

StartStallDetection ==
    /\ phase = "verify" /\ todo = {}
    /\ EnterLoop("stalled", InStatus({"investigating", "in_development"}))
    /\ UNCHANGED <<disk, locals, runs>>

\* detect_stalled_tickets.
StallRound(t, old) ==
    /\ phase = "stalled" /\ t \in todo
    /\ todo' = todo \ {t}
    /\ IF old THEN Store(t, [mem[t] EXCEPT !.st = "open"]) ELSE UNCHANGED <<mem, disk>>
    /\ UNCHANGED <<phase, locals, runs>>

CycleDone ==
    /\ phase = "stalled" /\ todo = {}
    /\ EndCycle
    /\ UNCHANGED <<disk, runs>>

\* GitHub access, triage and review have no handler of their own: what they
\* raise ends the cycle, and the daemon logs it.
CycleRaises ==
    /\ phase \in {"intake", "triage", "review"}
    /\ EndCycle
    /\ UNCHANGED <<disk, runs>>

\* Between two cycles the manager or a human merges an approved PR and calls
\* FixVerifier.start_verification.
StartVerifying(t) ==
    /\ phase = "idle"
    /\ mem[t].st = "in_review" /\ mem[t].appr
    /\ Store(t, [mem[t] EXCEPT !.st = "verifying"])
    /\ UNCHANGED <<phase, todo, locals, runs>>

\* The process dies and the service manager starts it again.
Crash ==
    /\ MayCrash
    /\ phase # "idle"
    /\ mem' = disk
    /\ phase' = "idle"
    /\ todo' = {} /\ new' = {} /\ pending' = {} /\ busy' = {} /\ done' = {}
    /\ NextDevelopment
    /\ UNCHANGED <<disk, runs>>

-----------------------------------------------------------------------------
Maintain ==
    \/ \E t \in Ticket, old \in BOOLEAN : StaleRound(t, old) \/ StallRound(t, old)
    \/ CircuitPaused \/ CycleDone
    \/ StartIntake \/ NothingToDo
    \/ \E N \in SUBSET Ticket : StartTriage(N)

Intake ==
    \/ \E t \in Ticket, stored \in BOOLEAN : Detect(t, stored)
    \/ \E t \in Ticket : Reconcile(t)

TriageStep ==
    \E t \in Ticket, human, automated \in BOOLEAN : TriageRound(t, human, automated)

Investigate ==
    \/ \E P \in SUBSET Ticket : PickInvestigations(P)
    \/ \E t \in Ticket, announced \in BOOLEAN : JoinBatch(t, announced)
    \/ StartBatch
    \/ \E t \in Ticket : \/ InvestigationCap(t)
                         \/ InvestigationStarts(t)
                         \/ InvestigationReports(t)
                         \/ InvestigationRaises(t)
                         \/ RepairRound(t)
    \/ \E t \in Ticket, timeout \in BOOLEAN : InvestigationFails(t, timeout)
    \/ StartRepair

Develop ==
    \/ DevelopmentRaises
    \/ \E D \in SUBSET Ticket : StartDevelopment(D)
    \/ \E t \in Ticket : \/ PlanStored(t) \/ DevelopmentCap(t)
                         \/ FixStarts(t) \/ FixDeclined(t)
    \/ \E recorded, last \in BOOLEAN : AttemptDiscarded(recorded, last)
    \/ FixSucceeds
    \/ \E blocked \in BOOLEAN : FixFails(blocked)
    \/ FixRateLimited \/ FixRaises

Rethink ==
    \/ NoReinvestigation \/ Reinvestigate \/ Reinvestigated \/ RefixStarts
    \/ \E exhausted \in BOOLEAN : RefixRefused(exhausted)
    \/ \E timeout \in BOOLEAN : ReinvestigationFails(timeout)
    \/ ReinvestigationRaises \/ ReinvestigationRateLimited

Review ==
    \/ StartReview
    \/ \E t \in Ticket : ChangesRequested(t)
    \/ \E t \in Ticket, v \in Verdict : ReviewRound(t, v)
    \/ StartVerification
    \/ \E t \in Ticket, st \in {"verifying", "resolved"} : VerifyRound(t, st)
    \/ \E t, u \in Ticket, st \in {"rolled_back", "open"} : Recurrence(t, st, u)
    \/ StartStallDetection

Next ==
    \/ StartCycle \/ Maintain \/ Intake \/ TriageStep
    \/ Investigate \/ Develop \/ Rethink \/ Review
    \/ \E t \in Ticket : ClaimRefused(t)
    \/ CycleRaises
    \/ \E t \in Ticket : StartVerifying(t)
    \/ Crash

Spec == Init /\ [][Next]_pipeVars

\* The daemon keeps running cycles, every loop and every session ends, and a
\* ticket that stays put gets older than any timeout.
Fairness ==
    /\ WF_pipeVars(StartCycle)
    /\ WF_pipeVars(Maintain)
    /\ WF_pipeVars(TriageStep)
    /\ WF_pipeVars(Investigate)
    /\ WF_pipeVars(Develop)
    /\ WF_pipeVars(Rethink)
    /\ WF_pipeVars(Review)
    /\ \A t \in Ticket : SF_pipeVars(StaleRound(t, TRUE))

FairSpec == Spec /\ Fairness

-----------------------------------------------------------------------------
\* Every ticket past the investigation has a report to work from, on disk as
\* well as in memory, unless a stored automation took it straight to review:
\* no crash, stale reset, repair or stall loses the report of a ticket in work.
ReportOrAutomation ==
    \A t \in Ticket : \A r \in {mem[t], disk[t]} :
        r.st \in {"investigation_complete", "in_development", "in_review",
                  "verifying", "resolved"} => r.rep # "none" \/ r.auto

\* A ticket the code reviewer gave up on (max_rejections) gets no further
\* development session, whatever the stale reset, the safety net, a human's
\* change request or a restart do with it (_handle_request_changes; needs_hitl
\* is checked in four places of run_cycle).
EscalationIsRespected ==
    [][\A t \in Ticket : mem[t].rej = MaxRejections
                            => runs'[t].dev = runs[t].dev]_pipeVars

\* What is RESOLVED in the store stays so: no reset, repair, reconciliation or
\* write of an older copy takes a finished ticket back into the pipeline.
ResolvedIsFinal ==
    [][\A t \in Ticket : disk[t].st = "resolved" => disk'[t].st = "resolved"]_pipeVars

\* The cap on recorded investigations caps the ones really made, through
\* failures, timeouts, stale and stall resets: investigation_attempts is
\* counted on an object, checked on another cycle's and saved by neither
\* (swe_team_runner.py:2130).
InvestigationsCapped == \A t \in Ticket : runs[t].inv <= MaxSessions

\* A ticket left INVESTIGATING, by a crash, a cooldown or a failed second
\* investigation, does not stay there (_reset_stale_tickets, the safety net,
\* detect_stalled_tickets).
InvestigationEnds ==
    \A t \in Ticket : mem[t].st = "investigating" ~> mem[t].st # "investigating"

\* "The ticket stays in IN_REVIEW with pr_approved=True until the SWE-Manager or
\* human merges the PR and advances the state" (code_reviewer.py:463): nothing but
\* that, and what a later review or the PR's human reviewers say, moves it.
ApprovedStaysInReview ==
    [][\A t \in Ticket :
         disk[t].st = "in_review" /\ disk[t].appr /\ disk'[t].st # "in_review"
         => phase \in {"idle", "review"}]_pipeVars

\* "Check if there is development work in the store even when investigation
\* backlog is empty" (swe_team_runner.py:1944): investigated tickets are
\* eventually developed.
DevBacklogIsWorked ==
    \A t \in Ticket : t \in DevBacklog(mem) ~> t \notin DevBacklog(mem)
=============================================================================
