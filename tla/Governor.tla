------------------------------ MODULE Governor ------------------------------
(***************************************************************************)
(* How much work a cycle may begin: the throttle policy, the usage         *)
(* governor with its tiers, rules and bonus windows, and the guardrails     *)
(* coordinator that asks several of them.  Multipliers are in tenths (10   *)
(* is 1.0), severities are ranks from 0 (low) to 3 (critical).             *)
(***************************************************************************)
EXTENDS Integers, Sequences, FiniteSets, FiniteSetsExt, Lists

CONSTANTS
    Quota,          \* quota_limit, in units of tokens
    Tiers,          \* records [pct, agents, floor, allow]
    OperatorRules,  \* operator_overrides: records [name, mult, prec]
    PeakMult, WeekendMult,    \* the schedule's windows
    MinAgents, MaxAgents,     \* hard_limits
    FullDay, PeakHours,       \* hours of a day (24), and those of weekday_peak
    DayHours,       \* hours that by_hour looks back (24)
    MaxCost,        \* bound: tokens that one session spends
    Sustain,        \* min_sustained_minutes, in ticks
    AlertGap,       \* alert_throttle_minutes, in ticks
    CriticalPct,    \* quota_critical_pct
    Bands,          \* time_bands, in order: records [from, to, mult]
    BaseLimit, BaseSeverity,  \* the static cycle configuration
    Surge, CritSurge, SurgeMult, CritSurgeMult,
    MaxBacklog,     \* bound: open tickets
    TrackerFails    \* by_hour may raise

\* The multipliers of the two configurations and their rules are not negative.
ASSUME GovernorAssumption ==
    /\ Quota \in Nat \ {0} /\ MinAgents \in Nat /\ MaxAgents \in Nat /\ MinAgents <= MaxAgents
    /\ DayHours \in Nat \ {0} /\ {MaxCost, MaxBacklog, BaseLimit, BaseSeverity} \subseteq Nat
    /\ {PeakMult, WeekendMult, SurgeMult, CritSurgeMult} \subseteq Nat /\ {Surge, CritSurge} \subseteq Nat
    /\ IsFiniteSet(Tiers) /\ Tiers # {}
    /\ Tiers \subseteq [pct : 0..100, agents : Nat, floor : 0..3, allow : BOOLEAN]
    /\ IsFiniteSet(OperatorRules) /\ \A r \in OperatorRules : r.mult \in Nat /\ r.prec \in Nat
    /\ Bands \in Seq([from : Nat, to : Nat, mult : Nat])
    /\ TrackerFails \in BOOLEAN

VARIABLES
    hourly,   \* tokens spent in each of the last hours, newest first
    clock,    \* hour of the day (four of them) and weekend
    bonus,    \* BonusDetector: the multiplier and how long the rate was high
    gov,      \* the last decision and what it was taken from
    work,     \* sessions of the batch that still run
    alert,    \* ticks in which quota_critical stays silent, and whether it fired
    eff,      \* ResolvedCycleConfig: limit, severity
    ask       \* the last answer of GuardrailsCoordinator.evaluate

govVars == <<hourly, clock, bonus, gov, work, alert, eff, ask>>

Hours == 0..(FullDay - 1)
NoDecision == [max |-> MinAgents, floor |-> 0, allow |-> FALSE, base |-> MinAgents, rules |-> {}]
StaticLimits == [limit |-> BaseLimit, severity |-> BaseSeverity]
Used == Total(hourly, DayHours)
Rule(n, m, p) == [name |-> n, mult |-> m, prec |-> p]

GovernorTypeOK ==
    /\ Len(hourly) = DayHours /\ \A i \in 1..DayHours : hourly[i] \in 0..(MaxAgents * MaxCost * FullDay)
    /\ clock.hour \in Hours /\ clock.weekend \in BOOLEAN
    /\ gov.max \in MinAgents..MaxAgents /\ work \in 0..MaxAgents
    /\ eff.limit \in 1..(4 * BaseLimit) /\ eff.severity \in BaseSeverity..3

GovernorInit ==
    /\ hourly = [i \in 1..DayHours |-> 0]
    /\ clock = [hour |-> 0, weekend |-> FALSE]
    /\ bonus = [mult |-> 10, high |-> 0]
    /\ gov = NoDecision
    /\ work = 0
    /\ alert = [quiet |-> AlertGap, fired |-> FALSE]
    /\ eff = StaticLimits
    /\ ask = [allowed |-> FALSE, over |-> FALSE]

-----------------------------------------------------------------------------
(* ThrottlePolicy.                                                         *)

HourInWindow(h, from, to) ==
    IF from = 0 /\ to = FullDay THEN TRUE
    ELSE IF from <= to THEN from <= h /\ h < to ELSE h >= from \/ h < to

TimeBased(h) ==
    LET hit == {i \in DOMAIN Bands : HourInWindow(h, Bands[i].from, Bands[i].to)}
    IN [mult |-> IF hit = {} THEN 10 ELSE Bands[Min(hit)].mult, severity |-> 0]

\* Percentages of the weekly budget; days to the weekly reset.
Capacity(pct, days) ==
    [mult |-> IF pct >= 95 THEN 1 ELSE IF pct >= 80 /\ days >= 2 THEN 5 ELSE 10,
     severity |-> IF pct >= 95 \/ (pct >= 80 /\ days >= 2) THEN 3 ELSE 0]

Demand(backlog, critical) ==
    [mult |-> IF backlog >= Surge /\ critical >= CritSurge THEN CritSurgeMult
              ELSE IF backlog >= Surge THEN SurgeMult ELSE 10,
     severity |-> 0]

\* Adapters multiply, within 0.1 and 4.0; they only ever raise the severity.
\* An adapter that fails counts as 1.0.
Resolve(results) ==
    LET product == ProductOf([i \in DOMAIN results |-> results[i].mult], DOMAIN results)
        m == Max({100, Min({4000, product})})
    IN [limit |-> Max({1, (BaseLimit * m) \div 1000}),
        severity |-> Max({BaseSeverity} \cup {results[i].severity : i \in DOMAIN results})]

\* run_cycle gives the capacity adapter a usage of 0.0 in every cycle.
ResolveCycle ==
    /\ work = 0
    /\ \E backlog \in 0..MaxBacklog, enabled, fails \in BOOLEAN : \E critical \in 0..backlog :
         eff' = IF ~enabled THEN StaticLimits
                ELSE Resolve(<<IF fails THEN [mult |-> 10, severity |-> 0] ELSE TimeBased(clock.hour),
                               Capacity(0, 7), Demand(backlog, critical)>>)
    /\ UNCHANGED <<hourly, clock, bonus, gov, work, alert, ask>>

-----------------------------------------------------------------------------
(* AdaptiveUsageGovernor.                                                  *)

\* Mutant: below the lowest tier the search keeps the one it began with.
MutGetTier(pct) ==
    LET reached == {t \in Tiers : pct >= t.pct}
    IN IF reached = {} THEN CHOOSE t \in Tiers : \A u \in Tiers : u.pct <= t.pct
       ELSE CHOOSE t \in reached : \A u \in reached : u.pct <= t.pct

\* The largest tier that the remaining quota reaches, else the smallest.
GetTier(pct) ==
    LET reached == {t \in Tiers : pct >= t.pct}
        low == Min({t.pct : t \in Tiers})
    IN IF reached = {} THEN CHOOSE t \in Tiers : t.pct = low
       ELSE CHOOSE t \in reached : \A u \in reached : u.pct <= t.pct

\* Usage that cannot be read counts as none.
Remaining(readable) ==
    LET used == IF readable THEN Used ELSE 0
    IN (Max({0, Quota - used}) * 100) \div Quota

DynamicRules ==
    LET sched == IF clock.weekend THEN WeekendMult ELSE IF clock.hour \in PeakHours THEN PeakMult ELSE 10
    IN (IF sched # 10 THEN {Rule("schedule", sched, 4)} ELSE {})
       \cup (IF bonus.mult # 10 THEN {Rule("bonus", bonus.mult, 3)} ELSE {})

\* Mutant: all rules of a precedence apply.
MutResolveConflicts(rules) == rules

\* At one precedence a boost and a reduction conflict: the lowest stays alone.
ResolveConflicts(rules) ==
    UNION {LET group == {r \in rules : r.prec = p}
               low == CHOOSE r \in group : \A s \in group : r.mult <= s.mult
           IN IF (\E r \in group : r.mult > 10) /\ (\E r \in group : r.mult < 10) THEN {low} ELSE group
           : p \in {r.prec : r \in rules}}

RoundHalfEven(n, d) ==
    LET q == n \div d  r == 2 * (n % d)
    IN IF r < d \/ (r = d /\ q % 2 = 0) THEN q ELSE q + 1

EffectiveAgents(base, rules) ==
    LET resolved == ResolveConflicts(rules)
        num == base * ProductOf([r \in resolved |-> r.mult], resolved)
        tenths == ProductOf([r \in resolved |-> 10], resolved)
    IN Max({MinAgents, Min({MaxAgents, RoundHalfEven(num, tenths)})})

\* Without a tracker the governor lets one agent run and begins nothing.
Decision(tracker, rules) ==
    IF tracker = "none"
    THEN [max |-> 1, floor |-> 3, allow |-> FALSE, base |-> 1, rules |-> {}]
    ELSE LET t == GetTier(Remaining(tracker = "ok"))
         IN [max |-> EffectiveAgents(t.agents, rules), floor |-> t.floor, allow |-> t.allow,
             base |-> t.agents, rules |-> rules]

Trackers == {"ok"} \cup IF TrackerFails THEN {"none", "error"} ELSE {}

\* Before the investigations run_cycle asks once, drops the tickets below
\* the floor, cuts the batch to max_parallel_agents and empties it when no
\* new work is allowed; rules of the operator apply in their hours.
Govern ==
    /\ work = 0
    /\ \E tracker \in Trackers, active \in SUBSET OperatorRules :
         gov' = Decision(tracker, active \cup DynamicRules)
    /\ \E medium, critical \in 0..MaxBacklog :
         LET above == critical + (IF gov'.floor <= 1 THEN medium ELSE 0)
         IN work' = IF gov'.allow THEN Min({gov'.max, above, eff.limit}) ELSE 0
    /\ UNCHANGED <<hourly, clock, bonus, alert, eff, ask>>

SessionSpends ==
    /\ work > 0 /\ work' = work - 1
    /\ \E cost \in 0..MaxCost : hourly' = [hourly EXCEPT ![1] = @ + cost]
    /\ IF work = 1 THEN gov' = NoDecision /\ eff' = StaticLimits ELSE UNCHANGED <<gov, eff>>
    /\ UNCHANGED <<clock, bonus, alert, ask>>

\* A first alert waits like the others: the last one counts as sent at boot.
CheckAlerts ==
    /\ alert' = IF Remaining(TRUE) <= CriticalPct /\ alert.quiet = 0
                THEN [quiet |-> AlertGap, fired |-> TRUE] ELSE [alert EXCEPT !.fired = FALSE]
    /\ UNCHANGED <<hourly, clock, bonus, gov, work, eff, ask>>

\* The last hour against the mean: 1.5 times doubles, 2.5 times gives 5.0,
\* once the rate has been high for long enough; else the bonus is reset.
Detect ==
    LET last == hourly[1] * DayHours
        total == Used
        high == DayHours >= 2 /\ total > 0 /\ 2 * last >= 3 * total
    IN /\ bonus' = IF ~high THEN [mult |-> 10, high |-> 0]
                   ELSE IF bonus.high < Sustain THEN [bonus EXCEPT !.high = IF @ = 0 THEN 1 ELSE @]
                   ELSE [bonus EXCEPT !.mult = IF 2 * last >= 5 * total THEN 50 ELSE 20]
       /\ UNCHANGED <<hourly, clock, gov, work, alert, eff, ask>>

\* An hour goes by; the decisions of a cycle that is over are gone.
HourPasses ==
    /\ hourly' = [i \in 1..DayHours |-> IF i = 1 THEN 0 ELSE hourly[i - 1]]
    /\ clock' = [hour |-> (clock.hour + 1) % FullDay,
                 weekend |-> IF clock.hour + 1 = FullDay THEN ~clock.weekend ELSE clock.weekend]
    /\ bonus' = [bonus EXCEPT !.high = IF @ = 0 THEN 0 ELSE Min({Sustain, @ + 1})]
    /\ alert' = [alert EXCEPT !.quiet = IF @ > 0 THEN @ - 1 ELSE 0]
    /\ IF work = 0 THEN gov' = NoDecision /\ eff' = StaticLimits ELSE UNCHANGED <<gov, eff>>
    /\ UNCHANGED <<work, ask>>

-----------------------------------------------------------------------------
(* GuardrailsCoordinator.evaluate.                                         *)

\* Its checks in order.  A gate that raises is passed over: the governor's
\* floor is a word where a number is compared with it, so everything after
\* allow_new_work is skipped, and the stability gate is asked without the
\* tickets that it needs.
Evaluate(paused, tooMany, budget, d) == ~paused /\ ~tooMany /\ budget # "over" /\ d.allow

\* tooMany: the failure rate has reached the threshold set for the team.
AskGuardrails ==
    /\ \E paused, tooMany \in BOOLEAN, budget \in {"ok", "over", "error"}, tracker \in Trackers :
         LET d == Decision(tracker, DynamicRules)
         IN \E current \in 0..MaxAgents :
              ask' = [allowed |-> Evaluate(paused, tooMany, budget, d), over |-> current >= d.max]
    /\ UNCHANGED <<hourly, clock, bonus, gov, work, alert, eff>>

GovernorNext ==
    \/ ResolveCycle \/ Govern \/ SessionSpends \/ CheckAlerts \/ Detect \/ HourPasses \/ AskGuardrails

GovernorSpec == GovernorInit /\ [][GovernorNext]_govVars

-----------------------------------------------------------------------------
(* Properties.                                                             *)

\* Usage never runs past the point where new work stops by more than one
\* batch, with whatever boosts, bonuses and hours: the tiers see the usage
\* of every earlier batch before the next one begins.
QuotaIsKept ==
    \A p \in {t.pct : t \in {u \in Tiers : u.allow}} :
       (\A t \in Tiers : t.allow => p <= t.pct)
         => 100 * Used <= (100 - p) * Quota + 100 * MaxAgents * MaxCost

\* When no rule of another precedence boosts, a reduction is never turned
\* into an increase by a boost of its own precedence.
ReductionWins ==
    LET cut == {r \in gov.rules : r.mult < 10}
    IN cut # {} /\ (\A r \in gov.rules : r.mult > 10 => \E c \in cut : c.prec = r.prec)
         => gov.max <= Max({MinAgents, gov.base})
=============================================================================
