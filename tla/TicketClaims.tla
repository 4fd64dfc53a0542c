---------------------------- MODULE TicketClaims ----------------------------
(***************************************************************************)
(* How machines that share one Supabase table keep out of each other's     *)
(* way: claim_ticket and release_ticket as run_cycle uses them, and the    *)
(* checkout locks of atomic_checkout.py with the functions of              *)
(* 002_atomic_checkout.sql (the in-memory provider behaves the same).      *)
(***************************************************************************)
EXTENDS Naturals, FiniteSets

CONSTANTS
    Machine,      \* runners, each with its own process
    TeamOf,       \* SWE_TEAM_ID of each machine
    CTicket,      \* tickets in the table
    OwnerOf,      \* the team that each ticket belongs to
    LockTicks,    \* how long a checkout or a heartbeat lasts
    MaxRuns,      \* bound: run ids
    AnswersLost,  \* a call may take effect and its answer be lost
    Overrides     \* an administrator may force the release of a lock

ASSUME ClaimAssumption ==
    /\ LockTicks \in Nat \ {0} /\ MaxRuns \in Nat
    /\ {AnswersLost, Overrides} \subseteq BOOLEAN

VARIABLES
    trow,    \* the table: status and assigned_to
    held,    \* what each machine does with each ticket, and its copy of the row
    lock,    \* checkout_run_id and the ticks until checkout_expires_at
    ticket,  \* per machine: the run id it was given, and how long it may rely on it
    runCount     \* run ids given out so far

claimVars == <<trow, held>>
lockVars == <<lock, ticket, runCount>>

Column == {"open", "triaged", "investigation_complete", "in_review", "closed"}
Nobody == "none"
Assignee == "investigator"      \* _pick_assignee, when investigators are configured
NoCheckout == [run |-> 0, sure |-> 0]

ClaimTypeOK ==
    /\ \A t \in CTicket : /\ trow[t].st \in Column
                          /\ trow[t].who \in {TeamOf[m] : m \in Machine} \cup {Nobody, Assignee}
    /\ \A m \in Machine, t \in CTicket : held[m][t].at \in {"idle", "fetched", "working", "saved"}

ClaimsInit ==
    /\ trow \in [CTicket -> [st : {"triaged"}, who : {Nobody, Assignee}]]
    /\ held = [m \in Machine |-> [t \in CTicket |-> [at |-> "idle", who |-> Nobody]]]

-----------------------------------------------------------------------------
\* list_open: only tickets of the machine's own team.
Fetch(m, t) ==
    /\ held[m][t].at = "idle" /\ OwnerOf[t] = TeamOf[m]
    /\ trow[t].st \in {"triaged", "investigation_complete"}
    /\ held' = [held EXCEPT ![m][t] = [at |-> "fetched", who |-> trow[t].who]]
    /\ UNCHANGED trow

\* claim_ticket in SQL.  The agent id is the team id.
Claimable(m, t) ==
    \/ trow[t].who = TeamOf[m]
    \/ /\ trow[t].st \in {"open", "triaged", "investigation_complete", "in_review"}
       /\ trow[t].who = Nobody

Claim(m, t) ==
    /\ held[m][t].at = "fetched"
    /\ \/ /\ Claimable(m, t)
          /\ trow' = [trow EXCEPT ![t].who = TeamOf[m]]
          /\ held' = [held EXCEPT ![m][t].at = "working"]
       \/ /\ Claimable(m, t) /\ AnswersLost          \* fail-closed: not claimed
          /\ trow' = [trow EXCEPT ![t].who = TeamOf[m]]
          /\ held' = [held EXCEPT ![m][t].at = "idle"]
       \/ /\ ~Claimable(m, t) \/ AnswersLost
          /\ held' = [held EXCEPT ![m][t].at = "idle"]
          /\ UNCHANGED trow

\* store.add writes the whole copy, with the assignee it had when it was fetched.
\* _ticket_to_row stores failed as closed.
SaveTicket(m, t, st) ==
    /\ held[m][t].at = "working"
    /\ trow' = [trow EXCEPT ![t] = [st |-> st, who |-> held[m][t].who]]
    /\ held' = [held EXCEPT ![m][t].at = "saved"]

\* release_ticket asks for the status OPEN, which the table's CHECK refuses: the
\* update is undone and the error logged.
ResetStatus == "OPEN"
ReleaseTicket(m, t) ==
    /\ held[m][t].at = "saved"
    /\ trow' = IF ResetStatus \in Column
               THEN [trow EXCEPT ![t] = [st |-> ResetStatus, who |-> Nobody]] ELSE trow
    /\ held' = [held EXCEPT ![m][t].at = "idle"]

ClaimsNext ==
    \E m \in Machine, t \in CTicket :
        \/ Fetch(m, t) \/ Claim(m, t) \/ ReleaseTicket(m, t)
        \/ \E st \in {"triaged", "investigation_complete", "in_review", "closed"} :
              SaveTicket(m, t, st)

-----------------------------------------------------------------------------
LockTypeOK ==
    /\ lock \in [run : 0..MaxRuns, left : 0..LockTicks]
    /\ ticket \in [Machine -> [run : 0..MaxRuns, sure : 0..LockTicks]]
    /\ runCount \in 0..MaxRuns

LockInit ==
    /\ lock = [run |-> 0, left |-> 0]      \* run = 0: checkout_run_id IS NULL
    /\ ticket = [m \in Machine |-> NoCheckout] /\ runCount = 0

\* Mutant: a lock may be taken in its last tick.
MutFree == lock.run = 0 \/ lock.left <= 1

\* Mutant: only a release frees the ticket.
MutFreeUnexpired == lock.run = 0

Free == lock.run = 0 \/ lock.left = 0

\* try_checkout: a new run id, given only when the row is free.
TryCheckout(m) ==
    /\ ticket[m].run = 0 /\ runCount < MaxRuns
    /\ runCount' = runCount + 1
    /\ lock' = IF Free THEN [run |-> runCount + 1, left |-> LockTicks] ELSE lock
    /\ \/ Free /\ ticket' = [ticket EXCEPT ![m] = [run |-> runCount + 1, sure |-> LockTicks]]
       \/ (~Free \/ AnswersLost) /\ ticket' = ticket

\* heartbeat extends the lock that has this run id, also one that has just expired.
RenewCheckout(m) ==
    /\ ticket[m].run # 0
    /\ lock' = IF lock.run = ticket[m].run THEN [lock EXCEPT !.left = LockTicks] ELSE lock
    /\ \/ ticket' = [ticket EXCEPT ![m].sure = IF lock.run = ticket[m].run THEN LockTicks ELSE 0]
       \/ AnswersLost /\ ticket' = ticket
    /\ UNCHANGED runCount

ReleaseCheckout(m) ==
    /\ ticket[m].run # 0
    /\ lock' = IF lock.run = ticket[m].run THEN [run |-> 0, left |-> 0] ELSE lock
    /\ ticket' = [ticket EXCEPT ![m] = NoCheckout]
    /\ UNCHANGED runCount

\* The machine goes down with its run id.
MachineDies(m) ==
    /\ ticket[m].run # 0
    /\ ticket' = [ticket EXCEPT ![m] = NoCheckout]
    /\ UNCHANGED <<lock, runCount>>

CleanupExpired ==
    /\ lock.run # 0 /\ lock.left = 0
    /\ lock' = [run |-> 0, left |-> 0]
    /\ UNCHANGED <<ticket, runCount>>

ForceRelease ==
    /\ Overrides /\ lock.run # 0
    /\ lock' = [run |-> 0, left |-> 0]
    /\ UNCHANGED <<ticket, runCount>>

LockTick ==
    /\ lock.left > 0 \/ \E m \in Machine : ticket[m].sure > 0
    /\ lock' = [lock EXCEPT !.left = IF @ > 0 THEN @ - 1 ELSE 0]
    /\ ticket' = [m \in Machine |-> [ticket[m] EXCEPT !.sure = IF @ > 0 THEN @ - 1 ELSE 0]]
    /\ UNCHANGED runCount

LockNext ==
    \/ \E m \in Machine : \/ TryCheckout(m) \/ RenewCheckout(m)
                          \/ ReleaseCheckout(m) \/ MachineDies(m)
    \/ CleanupExpired \/ ForceRelease \/ LockTick

LockSpec == LockInit /\ [][LockNext]_lockVars

LockFairness ==
    /\ WF_lockVars(LockTick)
    /\ \A m \in Machine : WF_lockVars(ReleaseCheckout(m) \/ MachineDies(m))

-----------------------------------------------------------------------------
\* A machine may rely on its checkout for the time it asked for, counted from the
\* last answer: no other machine may rely on one at the same time, though answers
\* are lost and holders die.
ExclusiveCheckout ==
    \A m, n \in Machine : m # n => ticket[m].sure = 0 \/ ticket[n].sure = 0

\* A checkout whose answer was lost, or whose holder died, does not keep the ticket:
\* it becomes free again.
CheckoutComesFree == ~Free ~> Free
=============================================================================
