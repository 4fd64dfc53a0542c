----------------------------- MODULE GitHubSync -----------------------------
(***************************************************************************)
(* How the runner and GitHub keep up with each other.  A cycle fetches the *)
(* issues assigned to the team's account, scans the open issues for any    *)
(* that have no ticket, files issues for critical tickets, asks humans,    *)
(* takes changes a reviewer requested, and reopens tickets whose issue is  *)
(* still open.  Calls of the gh command may fail, and most of them go      *)
(* through a circuit breaker, the second part of this module.              *)
(***************************************************************************)
EXTENDS Naturals, Sequences, FiniteSets, Lists

CONSTANTS
    GIssue,         \* numbers of issues
    CriticalIssue,  \* those labelled critical
    SkipIssue,      \* those with a label that keeps the scanner away
    MaxStored,      \* bound: tickets
    ListLimit,      \* how many of the newest tickets list_all gives
    JsonTickets,    \* tickets are in the JSON store, whose list_all takes no limit
    GhFails,        \* gh commands may fail
    GRunnerDies     \* the runner may be killed

ASSUME GitHubAssumption == IsFiniteSet(GIssue) /\ GIssue \subseteq Nat /\ {MaxStored, ListLimit} \subseteq Nat

VARIABLES
    issues,    \* GitHub: each issue's state, whether it is assigned to the team's account, and
               \* the issue whose ticket it was filed for (its own number for a human's issue)
    stored,    \* the ticket store, in the order of creation
    fresh,     \* tickets of this cycle
    scanning,        \* where the cycle is
    seenFile   \* scanner_seen.json

ghVars == <<issues, stored, fresh, scanning, seenFile>>

Absent == [state |-> "none", assigned |-> FALSE, for |-> 0, review |-> "none", skip |-> FALSE]
\* A ticket: its fingerprint names the issue it came from, github_issue the one it is about.
GTicket(i, by) == [fp |-> i, github_issue |-> i, status |-> "open", by |-> by, hitl |-> FALSE]

GitHubTypeOK ==
    /\ \A i \in GIssue : issues[i].state \in {"none", "open", "closed"} /\ issues[i].for \in GIssue \cup {0}
    /\ Len(stored) <= MaxStored
    /\ \A k \in DOMAIN stored : stored[k].status \in {"open", "triaged", "in_review", "rework", "closed", "failed"}
    /\ scanning \in {"idle", "fetched", "scanned", "triaged", "filed"} /\ seenFile \subseteq GIssue

GitHubInit ==
    /\ issues = [i \in GIssue |-> Absent] /\ stored = <<>> /\ fresh = <<>>
    /\ scanning = "idle" /\ seenFile = {}

-----------------------------------------------------------------------------
(* Humans, and the rest of the pipeline.                                   *)

\* Somebody opens an issue and assigns it, or closes one.
HumanActs ==
    /\ \E i \in GIssue :
         \/ /\ issues[i].state = "none"
            /\ issues' = [issues EXCEPT ![i] = [Absent EXCEPT !.state = "open", !.assigned = TRUE, !.for = i,
                                                          !.skip = i \in SkipIssue]]
         \/ issues[i].state = "open" /\ issues' = [issues EXCEPT ![i].state = "closed"]
         \/ issues[i].review = "none" /\ issues[i].state = "open"
            /\ issues' = [issues EXCEPT ![i].review = "changes"]
    /\ UNCHANGED <<stored, fresh, scanning, seenFile>>

\* A ticket is developed, or given up, or closed.
TicketMoves ==
    /\ \E k \in DOMAIN stored :
         \/ stored[k].status \in {"triaged", "rework"} /\ stored' = [stored EXCEPT ![k].status = "in_review"]
         \/ stored[k].status = "in_review"
            /\ \E st \in {"closed", "failed"} : stored' = [stored EXCEPT ![k].status = st]
    /\ UNCHANGED <<issues, fresh, scanning, seenFile>>

-----------------------------------------------------------------------------
(* A cycle.                                                                *)

Open(i) == issues[i].state = "open"
Fingerprints == {stored[k].fp : k \in DOMAIN stored}
IssuesOf(q) == {q[k].github_issue : k \in DOMAIN q}
Newest == SubSeq(stored, IF Len(stored) > ListLimit THEN Len(stored) - ListLimit + 1 ELSE 1, Len(stored))
Room == MaxStored - Len(stored)
AsSeq(S, by) == CHOOSE q \in [1..Cardinality(S) -> {GTicket(i, by) : i \in S}] : IssuesOf(q) = S

\* The tickets whose comment on the issue could be posted or updated.
Posted(new) == {S \in SUBSET new : GhFails \/ S = new}

\* fetch_github_tickets: the open issues assigned to the account whose
\* fingerprint no stored ticket has.  A ticket is stored when the comment
\* that says so could be posted.
FetchIssues ==
    /\ scanning = "idle" /\ scanning' = "fetched"
    /\ \E failed \in {FALSE, GhFails} :
         LET new == IF failed THEN {} ELSE {i \in GIssue : Open(i) /\ issues[i].assigned} \ Fingerprints
         IN /\ Cardinality(new) <= Room
            /\ fresh' = AsSeq(new, "fetch")
            /\ \E posted \in Posted(new) :
                 stored' = stored \o AsSeq(posted, "fetch")
    /\ UNCHANGED <<issues, seenFile>>

\* Mutant: the scanner is not told of the tickets this cycle has fetched.
MutKnownToScan == IssuesOf(Newest)

\* The issues the scanner is told of: those of the listed tickets and of this cycle's.
KnownToScan == IssuesOf(Newest) \cup IssuesOf(fresh)

\* scan, and the tickets it gives are stored.  An issue is known to be done
\* when a merged pull request says so.  mark_stored finds that scan has
\* noted the issues already, so it writes nothing.
ScanIssues ==
    /\ scanning = "fetched" /\ scanning' = "scanned"
    /\ \E failed \in {FALSE, GhFails} :
         LET new == IF failed THEN {}
                    ELSE {i \in GIssue : Open(i) /\ issues[i].assigned /\ ~issues[i].skip} \ (KnownToScan \cup seenFile)
         IN /\ Cardinality(new) <= Room
            /\ stored' = stored \o AsSeq(new, "scan")
            /\ fresh' = fresh \o AsSeq(new, "scan")
    /\ UNCHANGED <<issues, seenFile>>

\* store.add: the ticket of this cycle takes the place of the stored one.
PositionOf(t) == {k \in DOMAIN stored : stored[k].fp = t.fp /\ stored[k].by = t.by /\ stored[k].status = "open"}
AddAll(q, s) ==
    LET new == {k \in DOMAIN q : PositionOf(q[k]) = {}}
        old == UNION {PositionOf(q[k]) : k \in DOMAIN q}
    IN [k \in DOMAIN s |-> IF k \in old THEN [s[k] EXCEPT !.status = "triaged"] ELSE s[k]]
       \o [k \in 1..Cardinality(new) |->
             [Sublist(q, new)[k] EXCEPT !.status = "triaged"]]

\* The severity filter and the cap leave some of the new tickets; those are
\* triaged and stored, and a human may be needed.
TriageNew ==
    /\ scanning = "scanned" /\ scanning' = "triaged"
    /\ \E kept \in SUBSET DOMAIN fresh :
         LET q == Sublist(fresh, kept)
         IN Cardinality({k \in DOMAIN q : PositionOf(q[k]) = {}}) <= Room
            /\ stored' = AddAll(q, stored) /\ fresh' = q
    /\ UNCHANGED <<issues, seenFile>>

\* The open issues find_existing_issue gives for a ticket: the fingerprint
\* is in the text of the issues the runner filed, not in a human's.
Existing(t) == {j \in GIssue : Open(j) /\ ~issues[j].assigned /\ issues[j].for = t.fp}

\* For a critical ticket an issue is looked for, and filed if none is found,
\* also when the ticket came from an issue.  The filed one is then the
\* ticket's issue.  A lookup that fails finds nothing; an answer that is
\* lost leaves the issue there and the ticket as it was.
FileIssue(k) ==
    LET t == stored[k]
    IN /\ scanning = "triaged" /\ t.fp \in CriticalIssue /\ t.status = "triaged"
       /\ \E n \in DOMAIN fresh : fresh[n].fp = t.fp /\ fresh[n].by = t.by
       /\ Existing(t) = {} \/ GhFails
       /\ \E j \in GIssue :
            /\ issues[j].state = "none" /\ \A m \in GIssue : issues[m].state = "none" => j <= m
            /\ issues' = [issues EXCEPT ![j] = [Absent EXCEPT !.state = "open", !.for = t.fp]]
            /\ \E lost \in {FALSE, GhFails} :
                 stored' = IF lost THEN stored ELSE [stored EXCEPT ![k].github_issue = j]
       /\ scanning' = "filed" /\ UNCHANGED <<fresh, seenFile>>

IssuesFiled == scanning \in {"triaged", "filed"} /\ scanning' = "idle" /\ fresh' = <<>> /\ UNCHANGED <<issues, stored, seenFile>>

\* escalate_to_human: a comment, the label that keeps the scanner away, and
\* the account's assignment; each of the calls may fail.
EscalateToHuman(k) ==
    /\ scanning = "triaged" /\ ~stored[k].hitl /\ stored[k].status = "triaged"
    /\ stored' = [stored EXCEPT ![k].hitl = TRUE]
    /\ \E ok, labelled \in {TRUE, ~GhFails} :
         issues' = [issues EXCEPT ![stored[k].github_issue].assigned = @ \/ ok,
                                  ![stored[k].github_issue].skip = @ \/ labelled]
    /\ UNCHANGED <<fresh, scanning, seenFile>>

\* The scan of pull requests: a ticket in review whose reviewer requested
\* changes is set back for rework.
ReviewRequested(k) ==
    /\ scanning = "idle" /\ stored[k].status = "in_review" /\ issues[stored[k].github_issue].review = "changes"
    /\ stored' = [stored EXCEPT ![k].status = "rework"]
    /\ UNCHANGED <<issues, fresh, scanning, seenFile>>

\* Every hour: tickets that are over, among the newest, whose issue is open
\* are opened again.  With the JSON store the call raises an exception.
Reconcile ==
    /\ scanning = "fetched" /\ ~JsonTickets
    /\ LET over == {k \in DOMAIN stored : /\ stored[k].status \in {"closed", "failed"}
                                          /\ stored[k].github_issue \in IssuesOf(Newest)
                                          /\ Open(stored[k].github_issue)}
       IN /\ over # {}
          /\ stored' = [k \in DOMAIN stored |-> IF k \in over THEN [stored[k] EXCEPT !.status = "open"] ELSE stored[k]]
    /\ UNCHANGED <<issues, fresh, scanning, seenFile>>

KillCycle == GRunnerDies /\ scanning # "idle" /\ scanning' = "idle" /\ fresh' = <<>> /\ UNCHANGED <<issues, stored, seenFile>>

GitHubNext ==
    \/ HumanActs \/ TicketMoves
    \/ FetchIssues \/ ScanIssues \/ TriageNew \/ IssuesFiled \/ Reconcile \/ KillCycle
    \/ \E k \in DOMAIN stored : FileIssue(k) \/ EscalateToHuman(k) \/ ReviewRequested(k)

GitHubSpec == GitHubInit /\ [][GitHubNext]_ghVars

-----------------------------------------------------------------------------
(* The circuit breaker of the gh command.                                  *)

CONSTANTS
    FailureThreshold,  \* failures in a row that open it (3)
    RetryAfter,        \* how long it stays open (10 minutes)
    EscalateAfter      \* how long an outage lasts until a human is told (30 minutes)

ASSUME GhAssumption == FailureThreshold \in Nat \ {0} /\ RetryAfter \in Nat \ {0} /\ EscalateAfter \in Nat

VARIABLES
    gh,        \* failures in a row, age of the first, what is left of the pause, the alerts sent
    quiet      \* history: time since the last call that failed; alerts sent in this outage; the last call

ghBreakerVars == <<gh, quiet>>

Closed == [failures |-> 0, age |-> 0, pause |-> 0, alerted |-> FALSE, escalated |-> FALSE]

BreakerTypeOK ==
    /\ gh.failures \in 0..(FailureThreshold + 1) /\ gh.age \in 0..EscalateAfter /\ gh.pause \in 0..RetryAfter
    /\ quiet.since \in 0..RetryAfter /\ quiet.alerts \in 0..2 /\ quiet.early \in BOOLEAN

BreakerInit == gh = Closed /\ quiet = [since |-> RetryAfter, alerts |-> 0, early |-> FALSE]

CapAt(n, m) == IF n > m THEN m ELSE n
Escalated(b) == [b EXCEPT !.escalated = @ \/ (b.failures > 0 /\ b.age >= EscalateAfter)]

\* Mutant: the pause is set when the threshold is reached, and not again.
MutFailed(b) ==
    Escalated([b EXCEPT !.failures = CapAt(@ + 1, FailureThreshold + 1),
                        !.pause = IF b.failures + 1 = FailureThreshold THEN RetryAfter ELSE @,
                        !.alerted = @ \/ b.failures + 1 >= FailureThreshold])

\* _record_github_cli_failure: a command that raised, timed out or returned
\* an error, whatever the error is about.
Failed(b) ==
    Escalated([b EXCEPT !.failures = CapAt(@ + 1, FailureThreshold + 1),
                        !.pause = IF b.failures + 1 >= FailureThreshold THEN RetryAfter ELSE @,
                        !.alerted = @ \/ b.failures + 1 >= FailureThreshold])

\* Mutant: when a pause is over the alerts are forgotten too.
MutPauseOver(b) == [b EXCEPT !.alerted = FALSE]

\* The pause has run out: commands are tried again, and the failures count on.
PauseOver(b) == b

\* _run_gh while the breaker is open: nothing runs, but a human may be told.
GhSkipped == gh.pause > 0 /\ gh' = Escalated(gh) /\ UNCHANGED quiet

GhRuns(next) ==
    /\ gh.pause = 0
    /\ gh' = next
    /\ quiet' = [since |-> IF next = Closed THEN quiet.since ELSE 0,
                 alerts |-> IF next = Closed THEN 0
                            ELSE CapAt(quiet.alerts + (IF next.alerted /\ ~PauseOver(gh).alerted THEN 1 ELSE 0), 2),
                 early |-> gh.failures >= FailureThreshold /\ quiet.since < RetryAfter]

GhSucceeds == GhRuns(Closed)
GhFailsNow == GhRuns(Failed(PauseOver(gh)))

GhTick ==
    /\ gh' = [gh EXCEPT !.pause = IF @ > 0 THEN @ - 1 ELSE 0,
                        !.age = IF gh.failures > 0 THEN CapAt(@ + 1, EscalateAfter) ELSE 0]
    /\ quiet' = [quiet EXCEPT !.since = CapAt(@ + 1, RetryAfter), !.early = FALSE]

\* The counters are the process's: a restart forgets them.
GhRestart == gh # Closed /\ gh' = Closed /\ quiet' = [quiet EXCEPT !.alerts = 0, !.early = FALSE]

BreakerNext == GhSkipped \/ GhSucceeds \/ GhFailsNow \/ GhTick \/ GhRestart

BreakerSpec == BreakerInit /\ [][BreakerNext]_ghBreakerVars

-----------------------------------------------------------------------------
(* Properties.                                                             *)

\* An issue that is not critical gets one ticket, whichever of the two ways
\* finds it, whichever calls fail and wherever the runner is killed between
\* finding, commenting and storing.
OneTicketPerIssue ==
    \A k, n \in DOMAIN stored :
        stored[k].fp = stored[n].fp /\ stored[k].fp \in GIssue \ CriticalIssue => k = n

\* After as many failures in a row as open the breaker, no command runs
\* until the pause since the last failure is over, however often it opens.
NoEarlyRetry == ~quiet.early

\* One outage sends one alert, over all the pauses it lasts.
OneAlertPerOutage == quiet.alerts <= 1
=============================================================================
