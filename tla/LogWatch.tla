------------------------------ MODULE LogWatch ------------------------------
(* What the runner reads out of the logs and what it makes of the tickets'   *)
(* dependencies.                                                             *)
(*                                                                           *)
(* First part: the monitor files a ticket for every error line whose         *)
(* fingerprint no ticket has; the regression check files one for a recently  *)
(* resolved ticket whose fingerprint the logs still show; the fix verifier   *)
(* looks for the fingerprint of a merged fix and rolls the merge back when   *)
(* it finds it. All three read whole files and know only when a file was     *)
(* last written, not when a line was. The application goes on writing.       *)
(*                                                                           *)
(* Second part: tickets that wait for tickets. The dependency filter lets a  *)
(* ticket pass when all it depends on is resolved; a ticket on which the     *)
(* developer gave up is BLOCKED, and every cycle looks after blocked tickets.*)
EXTENDS Naturals, FiniteSets, FiniteSetsExt, Functions, Lists

CONSTANTS
    Fp,         \* fingerprints: an error line and the file it stands in
    FileOf,     \* the file of a fingerprint
    SeverityOf, \* 0 (medium) .. 2 (critical): what the line's pattern stands for
    Slot,       \* the tickets that can be filed, in this order
    MaxNew,     \* max_new_tickets_per_cycle
    SevFloor,   \* severity_filter
    DedupFor,   \* ticks a file is read after its last write
    RegressFor, \* regression_window_hours, in ticks
    PropagateFor, \* propagation_wait_minutes, in ticks
    VerifyFor   \* verification_window_minutes, in ticks

ASSUME LogAssumption ==
    /\ {MaxNew, SevFloor, DedupFor, RegressFor, PropagateFor, VerifyFor} \subseteq Nat
    /\ Slot \subseteq Nat \ {0}

LogFiles == {FileOf[f] : f \in Fp}
Longest == Max({DedupFor, RegressFor, PropagateFor, VerifyFor}) + 1

VARIABLES
    inlog,   \* the fingerprints the files show
    fileAge, \* per file: ticks since it was last written
    slots,   \* the tickets
    toVerify     \* the tickets the verifier has still to look at in this cycle

logVars == <<inlog, fileAge, slots, toVerify>>

(* written: the ticket's file was written since the fix was merged or the    *)
(* ticket resolved, which the verifier learns from the file's mtime.         *)
(* recurred: so was the error, in a line that has not been rotated away;     *)
(* this is no part of the program's state.                                   *)
Blank == [status |-> "none", fp |-> CHOOSE f \in Fp : TRUE, parent |-> 0, sev |-> 0,
          regressions |-> 0, age |-> 0, written |-> FALSE, recurred |-> FALSE]

LogTypeOK ==
    /\ inlog \subseteq Fp
    /\ fileAge \in [LogFiles -> 0..Longest]
    /\ toVerify \subseteq Slot
    /\ \A i \in Slot :
         /\ slots[i].status \in {"none", "triaged", "verifying", "resolved",
                                 "rolled_back", "open", "acknowledged"}
         /\ slots[i].fp \in Fp /\ slots[i].parent \in Slot \cup {0}
         /\ slots[i].sev \in 0..2 /\ slots[i].regressions \in 0..Cardinality(Slot)
         /\ slots[i].age \in 0..Longest
         /\ {slots[i].written, slots[i].recurred} \subseteq BOOLEAN

LogInit ==
    /\ inlog = {} /\ fileAge = [g \in LogFiles |-> Longest]
    /\ slots = [i \in Slot |-> Blank]
    /\ toVerify = {}

Watches(i, g) == slots[i].status \in {"verifying", "resolved"} /\ FileOf[slots[i].fp] = g

(* The application: it writes an error, or anything else, or a file is       *)
(* rotated away (only *.log is read).                                        *)
LogError(f) ==
    /\ inlog' = inlog \cup {f}
    /\ fileAge' = [fileAge EXCEPT ![FileOf[f]] = 0]
    /\ slots' = [i \in Slot |-> [slots[i] EXCEPT
                    !.written = @ \/ Watches(i, FileOf[f]),
                    !.recurred = @ \/ (Watches(i, FileOf[f]) /\ slots[i].fp = f)]]
    /\ UNCHANGED toVerify

LogOther(g) ==
    /\ fileAge' = [fileAge EXCEPT ![g] = 0]
    /\ slots' = [i \in Slot |-> [slots[i] EXCEPT !.written = @ \/ Watches(i, g)]]
    /\ UNCHANGED <<inlog, toVerify>>

Rotate(g) ==
    /\ inlog' = {f \in inlog : FileOf[f] # g}
    /\ slots' = [i \in Slot |-> [slots[i] EXCEPT !.recurred = @ /\ FileOf[slots[i].fp] # g]]
    /\ UNCHANGED <<fileAge, toVerify>>

LogHourPasses ==
    /\ fileAge' = [g \in LogFiles |-> Min({fileAge[g] + 1, Longest})]
    /\ slots' = [i \in Slot |-> [slots[i] EXCEPT !.age =
                    IF slots[i].status \in {"verifying", "resolved"}
                    THEN Min({@ + 1, Longest}) ELSE 0]]
    /\ UNCHANGED <<inlog, toVerify>>

Filed == {i \in Slot : slots[i].status # "none"}
KnownFingerprints == {slots[i].fp : i \in Filed}

(* A scan that knows nothing: every matching line of a file written lately.  *)
FreshScan == {f \in inlog : fileAge[FileOf[f]] <= DedupFor}

\* Mutant: only open tickets count as known.
MutScan ==
    {[Blank EXCEPT !.fp = f, !.sev = SeverityOf[f]] :
        f \in FreshScan \ {slots[i].fp : i \in {j \in Filed : slots[j].status = "triaged"}}}

Scan ==
    {[Blank EXCEPT !.fp = f, !.sev = SeverityOf[f]] : f \in FreshScan \ KnownFingerprints}

RecentlyResolved == {i \in Slot : slots[i].status = "resolved" /\ slots[i].age <= RegressFor}

EscalateSeverity(sev) == Min({sev + 1, 2})

(* check_regressions: one ticket per parent, whatever it has already.        *)
CheckRegressions ==
    {[Blank EXCEPT !.fp = slots[i].fp, !.parent = i, !.sev = EscalateSeverity(slots[i].sev),
                   !.regressions = slots[i].regressions + 1] :
        i \in {j \in RecentlyResolved : slots[j].fp \in FreshScan}}

(* The severity filter, then the cap, which takes the most severe first.     *)
Kept(new) == {n \in new : n.sev >= SevFloor}
Capped(new) ==
    {S \in kSubset(Min({MaxNew, Cardinality(new)}), new) :
        \A n \in S, m \in new \ S : n.sev >= m.sev}

(* The next n numbers.                                                       *)
Unused(n) == {i \in Slot \ Filed : Rank(Slot \ Filed, i) <= n}

(* The tickets of S take the next numbers, one each, with the given status.  *)
File(S, st) ==
    /\ Cardinality(S) <= Cardinality(Slot \ Filed)
    /\ \E g \in Bijection(Unused(Cardinality(S)), S) :
         slots' = [i \in Slot |-> IF i \in DOMAIN g THEN [g[i] EXCEPT !.status = st] ELSE slots[i]]

(* The first half of a cycle: scan, regressions, filter, cap, triage, store. *)
ScanCycle ==
    /\ toVerify = {}
    /\ \E S \in Capped(Kept(Scan \cup CheckRegressions)) : File(S, "triaged")
    /\ toVerify' = {i \in Slot : slots[i].status = "verifying"}
    /\ UNCHANGED <<inlog, fileAge>>

(* bootstrap_cycle: what the logs show today is acknowledged.                *)
Bootstrap ==
    /\ toVerify = {} /\ Scan # {}
    /\ File(Scan, "acknowledged")
    /\ UNCHANGED <<inlog, fileAge, toVerify>>

(* A ticket's fix is merged and verified, or the ticket is resolved at once. *)
FixMerged(i) ==
    /\ slots[i].status \in {"triaged", "open"}
    /\ \E st \in {"verifying", "resolved"} :
         slots' = [slots EXCEPT ![i].status = st, ![i].age = 0,
                                  ![i].written = FALSE, ![i].recurred = FALSE]
    /\ UNCHANGED <<inlog, fileAge, toVerify>>

\* Mutant: a file written in the tick of the merge is not read.
MutSeenSince(i) == slots[i].fp \in inlog /\ fileAge[FileOf[slots[i].fp]] < slots[i].age

(* scan_fingerprint_since counts the lines of every file written since, old  *)
(* lines as well as new ones.                                                *)
SeenSince(i) == slots[i].fp \in inlog /\ slots[i].written

Recurs(i) == slots[i].age >= PropagateFor /\ SeenSince(i)

(* check_verification for one ticket, which does not look while the fix is   *)
(* still being propagated: a recurrence rolls the merge back (or, when git   *)
(* refuses, reopens the ticket) and files a regression ticket; a quiet       *)
(* window resolves it.                                                       *)
VerifyRecurred(i) ==
    /\ i \in toVerify /\ Recurs(i)
    /\ Slot \ Filed # {}
    /\ \E st \in {"rolled_back", "open"}, j \in Unused(1) :
         slots' = [slots EXCEPT ![i].status = st, ![i].age = 0, ![i].written = FALSE,
                      ![i].recurred = FALSE, ![j] = [Blank EXCEPT !.status = "open", !.fp = slots[i].fp,
                                           !.parent = i, !.sev = slots[i].sev]]
    /\ toVerify' = toVerify \ {i}
    /\ UNCHANGED <<inlog, fileAge>>

VerifyQuiet(i) ==
    /\ i \in toVerify /\ ~Recurs(i)
    /\ slots' = IF slots[i].age >= PropagateFor /\ slots[i].age >= VerifyFor
                THEN [slots EXCEPT ![i].status = "resolved", ![i].age = 0,
                                   ![i].written = FALSE, ![i].recurred = FALSE]
                ELSE slots
    /\ toVerify' = toVerify \ {i}
    /\ UNCHANGED <<inlog, fileAge>>

LogNext ==
    \/ ScanCycle \/ Bootstrap \/ LogHourPasses
    \/ \E f \in Fp : LogError(f)
    \/ \E g \in LogFiles : LogOther(g) \/ Rotate(g)
    \/ \E i \in Slot : FixMerged(i) \/ VerifyRecurred(i) \/ VerifyQuiet(i)

LogSpec == LogInit /\ [][LogNext]_logVars

(* One error is one ticket: scans, caps, bootstraps and restarts never file  *)
(* a second ticket for a fingerprint, except as the regression of a fix.     *)
OneTicketPerError ==
    \A i, j \in Filed : slots[i].fp = slots[j].fp /\ slots[i].parent = slots[j].parent
                           /\ slots[i].parent = 0 => i = j

(* The verifier misses no recurrence: a ticket it resolves had no error line *)
(* since the merge, though it sees the log only once in a cycle (a line that *)
(* is rotated away in between is lost).                                      *)
NoMissedRecurrence ==
    [][\A i \in Slot : slots[i].status = "verifying" /\ slots'[i].status = "resolved"
                          => ~slots[i].recurred]_logVars

(***************************************************************************)
(* Dependencies and blocked tickets.                                       *)
(***************************************************************************)
CONSTANTS
    DepTicket,     \* tickets
    DependsOn,     \* the tickets an issue names ("depends on"), ids without a ticket too
    BlockTimeout,  \* blocked_ticket_timeout_hours, in ticks
    BlockEscalateAfter, \* blocked_ticket_escalation_hours, in ticks
    MaxReopen      \* bound on the times a ticket is reopened

ASSUME DepAssumption ==
    /\ {BlockTimeout, BlockEscalateAfter, MaxReopen} \subseteq Nat
    /\ DependsOn \in [DepTicket -> SUBSET (DepTicket \cup {"ghost"})]

VARIABLES
    deps,     \* per ticket: status, blocked_by, ticks since updated_at, needs_hitl
    reopened  \* tickets reopened so far

depVars == <<deps, reopened>>

DepTypeOK ==
    /\ \A t \in DepTicket :
         /\ deps[t].status \in {"triaged", "working", "blocked", "failed", "resolved"}
         /\ deps[t].by \subseteq DependsOn[t]
         /\ deps[t].age \in 0..BlockEscalateAfter /\ deps[t].hitl \in BOOLEAN
    /\ reopened \in 0..MaxReopen

(* The scanner puts the ids of the issue's text into blocked_by as well as   *)
(* into the metadata, and triage leaves both alone.                          *)
DepInit ==
    /\ deps = [t \in DepTicket |-> [status |-> "triaged", by |-> DependsOn[t], age |-> 0,
                                    hitl |-> FALSE]]
    /\ reopened = 0

SetStatus(t, st) == deps' = [deps EXCEPT ![t].status = st, ![t].age = 0]

Resolved(d) == d \in DepTicket /\ deps[d].status = "resolved"

\* Mutant: what blocked_by lists is not looked up.
MutUnresolved(t) == deps[t].by \cup {d \in DependsOn[t] \ {t} : ~Resolved(d)}

(* blocked_by and depends_on, without the ticket itself; an id without a     *)
(* ticket is never resolved.                                                 *)
Unresolved(t) == {d \in (deps[t].by \cup DependsOn[t]) \ {t} : ~Resolved(d)}

(* A cycle works on a ticket the dependency filter lets pass.                *)
TakeReady(t) ==
    /\ deps[t].status = "triaged" /\ ~deps[t].hitl
    /\ Unresolved(t) = {}
    /\ SetStatus(t, "working")
    /\ UNCHANGED reopened

(* The developer resolves it or gives up: FAILED, or BLOCKED when no attempt *)
(* changed a file.                                                           *)
EndWork(t) ==
    /\ deps[t].status = "working"
    /\ \E st \in {"resolved", "failed", "blocked"} : SetStatus(t, st)
    /\ UNCHANGED reopened

(* The reconciliation puts a FAILED ticket whose issue is still open back    *)
(* into the backlog (OPEN, which the filter treats like TRIAGED).            *)
ReopenTicket(t) ==
    /\ deps[t].status = "failed" /\ reopened < MaxReopen
    /\ SetStatus(t, "triaged")
    /\ reopened' = reopened + 1

(* _reset_blocked_tickets for one ticket: blockers that are resolved or have *)
(* not been touched for long are dropped; without blockers the ticket is     *)
(* TRIAGED again; a ticket blocked for long is given to a human. A ticket    *)
(* that has no blockers is passed over.                                      *)
Passing(t) == {d \in deps[t].by : d \in DepTicket /\ (Resolved(d) \/ deps[d].age >= BlockTimeout)}

ResetBlocked(t) ==
    /\ deps[t].status = "blocked" /\ deps[t].by # {}
    /\ LET left == deps[t].by \ Passing(t)
           free == left = {}
       IN  deps' = [deps EXCEPT ![t].by = left,
                        ![t].status = IF free THEN "triaged" ELSE "blocked",
                        ![t].age = IF free THEN 0 ELSE @,
                        ![t].hitl = @ \/ (~free /\ deps[t].age >= BlockEscalateAfter)]
    /\ UNCHANGED reopened

DepHour ==
    /\ deps' = [t \in DepTicket |-> [deps[t] EXCEPT !.age = Min({@ + 1, BlockEscalateAfter})]]
    /\ UNCHANGED reopened

DepNext ==
    \/ DepHour
    \/ \E t \in DepTicket : TakeReady(t) \/ EndWork(t) \/ ReopenTicket(t) \/ ResetBlocked(t)

(* Every cycle takes ready tickets, ends its work and looks after blocked    *)
(* tickets, and the clock goes on.                                           *)
DepFairness ==
    /\ \A t \in DepTicket : WF_depVars(TakeReady(t)) /\ WF_depVars(EndWork(t))
                               /\ WF_depVars(ResetBlocked(t))
    /\ WF_depVars(DepHour)

DepSpec == DepInit /\ [][DepNext]_depVars /\ DepFairness

(* Nobody waits for ever on a ticket that could be done: as long as the      *)
(* dependencies exist and form no cycle, a ticket that sees one of its       *)
(* dependencies resolved is worked on in the end, unless a ticket ends badly *)
(* or is given to a human, and though failed ones are reopened and others    *)
(* lose their blockers by a timeout.                                         *)
DependentsAreWorked ==
    \A t \in DepTicket :
        (deps[t].status = "triaged" /\ \E d \in DependsOn[t] : Resolved(d)) ~>
            (deps[t].status # "triaged" \/ deps[t].hitl
             \/ \E d \in DepTicket : deps[d].status \in {"failed", "blocked"} \/ deps[d].hitl)
=============================================================================
