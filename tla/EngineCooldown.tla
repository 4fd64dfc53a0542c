--------------------------- MODULE EngineCooldown ---------------------------
(***************************************************************************)
(* When an engine may be used: EngineCooldownManager and ExponentialBackoff*)
(* of rate_limiter.py as the two agents and the runner use them.           *)
(*                                                                         *)
(* Times are kept as the number of ticks that are left.  A health check    *)
(* takes time: its result is written over whatever the row holds by then,  *)
(* with the status and the clock reading from before the check.            *)
(***************************************************************************)
EXTENDS Naturals, Sequences, SequencesExt, FiniteSets

CONSTANTS
    CoolWorker,   \* sessions of the agents
    CoolFor,      \* _status_defaults: ticks of cooldown per status
    ProbeFor,     \* _status_defaults: ticks until the next probe per status
    ResetIn,      \* ticks until a monthly limit is reset, as errors announce it
    CoolRetries,  \* max_retries of ExponentialBackoff
    MaxAge,       \* bound: ticks that pass during one health check
    StoreFails    \* reads and upserts of the cooldown row may raise

ASSUME CoolAssumption ==
    /\ CoolFor \in [{"rate_limited", "monthly_exhausted", "down"} -> Nat \ {0}]
    /\ ProbeFor \in [{"rate_limited", "monthly_exhausted", "down", "recovering"} -> Nat \ {0}]
    /\ ResetIn \subseteq Nat \ {0}
    /\ CoolRetries \in Nat /\ MaxAge \in Nat /\ StoreFails \in BOOLEAN

VARIABLES
    row,     \* the engine's row in the store; st = "none": there is no row
    check,   \* health checks in flight: per session, and the runner's
    sess     \* sessions: where they are and how many attempts failed

coolVars == <<row, check, sess>>

Monitored == {"rate_limited", "monthly_exhausted", "down", "recovering"}
NoRow == [st |-> "none", until |-> 0, next |-> 0]
NoCheck == [on |-> FALSE, st |-> "none", age |-> 0, over |-> FALSE]
Prober == CoolWorker \cup {"runner"}

CoolTypeOK ==
    /\ row.st \in Monitored \cup {"none", "healthy"} /\ row.until \in Nat /\ row.next \in Nat
    /\ \A p \in Prober : check[p].st \in Monitored \cup {"none"} /\ check[p].age \in 0..MaxAge
    /\ \A w \in CoolWorker : /\ sess[w].at \in {"idle", "check", "call"}
                             /\ sess[w].failed \in 0..CoolRetries

CoolInit ==
    /\ row = NoRow
    /\ check = [p \in Prober |-> NoCheck]
    /\ sess = [w \in CoolWorker |-> [at |-> "idle", failed |-> 0]]

-----------------------------------------------------------------------------
\* An upsert whose store raises is logged and forgotten.
Upsert(r) == row' = r \/ (StoreFails /\ row' = row)

MarkHealthy == Upsert([st |-> "healthy", until |-> 0, next |-> 0])

\* mark_failure: the error's text decides the status.  A reset date in the future
\* replaces the default cooldown.
FailureRow(status, reset) ==
    [st |-> status, next |-> ProbeFor[status],
     until |-> IF status = "monthly_exhausted" /\ reset > 0 THEN reset ELSE CoolFor[status]]

MarkFailure(status, reset) == Upsert(FailureRow(status, reset))

UsableRow(r) == r.st \in {"none", "healthy", "recovering"}

\* Mutant: an exhausted quota is not in the set of statuses that are probed.
MutProbeDue(r) == r.st \in Monitored \ {"monthly_exhausted"} /\ r.next = 0

\* probe_if_due: a monitored row whose next_probe_at is not in the future.
ProbeDue(r) == r.st \in Monitored /\ r.next = 0

BeginCheck(p, over) ==
    check' = [check EXCEPT ![p] = [on |-> TRUE, st |-> row.st, age |-> 0, over |-> over]]

\* The row that a health check writes; `now' was read before the check.
Left(ticks, age) == IF ticks > age THEN ticks - age ELSE 0
CheckedRow(c, ok) ==
    IF ok THEN [st |-> "recovering", until |-> 0, next |-> 0]
    ELSE [st |-> c.st, until |-> Left(ProbeFor[c.st], c.age), next |-> Left(ProbeFor[c.st], c.age)]

-----------------------------------------------------------------------------
\* The runner probes the engine at the start of a cycle.
RunnerProbes ==
    /\ ~check["runner"].on /\ ProbeDue(row)
    /\ BeginCheck("runner", FALSE)
    /\ UNCHANGED <<row, sess>>

RunnerChecked(ok) ==
    /\ check["runner"].on
    /\ Upsert(CheckedRow(check["runner"], ok))
    /\ check' = [check EXCEPT !["runner"] = NoCheck]
    /\ UNCHANGED sess

\* An agent asks should_use_engine with its engine's health_check.
Ask(w) ==
    /\ sess[w].at = "idle" /\ ~check[w].on
    /\ \/ /\ UsableRow(row) \/ StoreFails
          /\ sess' = [sess EXCEPT ![w].at = "check"]
          /\ UNCHANGED check
       \/ /\ ~UsableRow(row) /\ ProbeDue(row)
          /\ BeginCheck(w, row.until = 0)
          /\ UNCHANGED sess
    /\ UNCHANGED row

\* Before the end of the cooldown the answer is no, whatever the check found.
Asked(w, ok) ==
    /\ check[w].on
    /\ Upsert(CheckedRow(check[w], ok))
    /\ sess' = IF ok /\ check[w].over THEN [sess EXCEPT ![w].at = "check"] ELSE sess
    /\ check' = [check EXCEPT ![w] = NoCheck]

\* ExponentialBackoff.execute asks before each attempt, without a probe.
Attempt(w) ==
    /\ sess[w].at = "check"
    /\ \/ /\ UsableRow(row) \/ StoreFails
          /\ sess' = [sess EXCEPT ![w].at = "call"]
       \/ /\ ~UsableRow(row)
          /\ sess' = [sess EXCEPT ![w] = [at |-> "idle", failed |-> 0]]
    /\ UNCHANGED <<row, check>>

Finished(w) == sess' = [sess EXCEPT ![w] = [at |-> "idle", failed |-> 0]] /\ UNCHANGED check

\* The call succeeds.  A fix that fails its tests does not mark the engine.
CallSucceeds(w, marks) ==
    /\ sess[w].at = "call"
    /\ IF marks THEN MarkHealthy ELSE UNCHANGED row
    /\ Finished(w)

CallExhausted(w, reset) ==
    /\ sess[w].at = "call"
    /\ MarkFailure("monthly_exhausted", reset)
    /\ Finished(w)

\* A rate limit or overload, an unreachable API, a server error.
CallFails(w, status) ==
    /\ sess[w].at = "call"
    /\ IF sess[w].failed >= CoolRetries
       THEN MarkFailure(status, 0) /\ Finished(w)
       ELSE /\ sess' = [sess EXCEPT ![w] = [at |-> "check", failed |-> sess[w].failed + 1]]
            /\ UNCHANGED <<row, check>>

CallRaises(w) == sess[w].at = "call" /\ Finished(w) /\ UNCHANGED row

CoolTick ==
    /\ \A p \in Prober : check[p].on => check[p].age < MaxAge
    /\ row.until > 0 \/ row.next > 0
    /\ row' = [row EXCEPT !.until = Left(row.until, 1), !.next = Left(row.next, 1)]
    /\ check' = [p \in Prober |-> IF check[p].on THEN [check[p] EXCEPT !.age = @ + 1]
                                  ELSE check[p]]
    /\ UNCHANGED sess

CoolNext ==
    \/ RunnerProbes \/ CoolTick
    \/ \E ok \in BOOLEAN : RunnerChecked(ok) \/ \E w \in CoolWorker : Asked(w, ok)
    \/ \E w \in CoolWorker :
          \/ Ask(w) \/ Attempt(w) \/ CallRaises(w)
          \/ \E b \in BOOLEAN : CallSucceeds(w, b)
          \/ \E n \in ResetIn \cup {0} : CallExhausted(w, n)
          \/ \E s \in {"rate_limited", "down"} : CallFails(w, s)

CoolSpec == CoolInit /\ [][CoolNext]_coolVars

\* The daemon goes on with its cycles, time passes, checks have time limits, and an
\* engine that is checked again and again is healthy at some time.
CoolFairness ==
    /\ WF_coolVars(CoolTick)
    /\ WF_coolVars(RunnerProbes)
    /\ WF_coolVars(\E ok \in BOOLEAN : RunnerChecked(ok))
    /\ SF_coolVars(RunnerChecked(TRUE) \/ \E w \in CoolWorker : Asked(w, TRUE))
    /\ \A w \in CoolWorker : WF_coolVars(\E ok \in BOOLEAN : Asked(w, ok))

-----------------------------------------------------------------------------
\* However sessions fail and health checks overlap, an engine in cooldown is
\* offered again: should_use_engine answers yes at some later time.
EngineComesBack == ~UsableRow(row) ~> UsableRow(row)
=============================================================================
