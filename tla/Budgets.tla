------------------------------ MODULE Budgets ------------------------------
(***************************************************************************)
(* What the squad spends: the token log (token_tracker.py), the cost       *)
(* tracker with its database and its copy in memory (cost_tracker.py), and *)
(* the incidents and policies of the budget API (webui/budgets_api.py).    *)
(* A tracker method is atomic (a lock, or one request to the database).    *)
(***************************************************************************)
EXTENDS Integers, Sequences, FiniteSets, FiniteSetsExt, SequencesExt, Lists

CONSTANTS
    UsageTicket,     \* tickets of the recorded sessions; "" is a session without one
    UsageModel,      \* full names of models
    FamilyOf,        \* family in a full model name: "opus", "sonnet", "haiku" or "default"
    Rate,            \* cents of one session, by family (the price table)
    LimitChoices,    \* policies that may be set: records daily, monthly, alert, stop
    DefaultLimits,   \* the policy of a team that has none
    DaysPerMonth, MaxDay,  \* bound on days
    HistoryMax,      \* incidents kept per team (100)
    MaxUsage,        \* bound on recorded sessions
    WithDatabase,    \* SupabaseCostTracker, else InMemoryCostTracker
    DatabaseFails,   \* requests to the database may fail
    DiskFills        \* an append to the token log may stop half way

ASSUME BudgetAssumption ==
    /\ MaxDay \in Nat \ {0} /\ DaysPerMonth \in Nat \ {0}
    /\ \A m \in UsageModel : Rate[FamilyOf[m]] \in Nat
    /\ LimitChoices \cup {DefaultLimits} \subseteq [daily : Int, monthly : Int, alert : Int, stop : BOOLEAN]

VARIABLES
    usageLog,   \* lines of token_usage.jsonl: a record, or "" where a line is broken
    costDb, costMem,   \* cents recorded per day in the database and in this process
    limits,     \* the policies table, and the policies of this process
    incidents,  \* _incident_history of the team: <<type, day>>
    day, half,  \* today, and whether it is before (0) or after (1) noon
    answer,     \* what the last check_budget or policy request answered
    stopped     \* history: hard_stop was answered, and neither day nor table changed since

budgetVars == <<usageLog, costDb, costMem, limits, incidents, day, half, answer, stopped>>

Days == 1..MaxDay
NoPolicy == [daily |-> -1, monthly |-> -1, alert |-> -1, stop |-> FALSE]
Statuses == {"ok", "warning", "hard_stop"}

BudgetsTypeOK ==
    /\ costDb \in [Days -> Nat] /\ costMem \in [Days -> Nat] /\ day \in Days /\ half \in {0, 1}
    /\ limits \in [{"table", "process"} -> LimitChoices \cup {NoPolicy}]
    /\ Len(incidents) <= HistoryMax
    /\ answer \in {<<>>} \cup ({"budget"} \X Statuses) \cup ({"policy"} \X LimitChoices)

BudgetsInit ==
    /\ usageLog = <<>> /\ day = 1 /\ half = 0 /\ answer = <<>> /\ incidents = <<>> /\ stopped = FALSE
    /\ costDb = [d \in Days |-> 0] /\ costMem = [d \in Days |-> 0]
    /\ limits = [p \in {"table", "process"} |-> NoPolicy]

-----------------------------------------------------------------------------
(* The token log.                                                          *)

\* A line is a record with its session's cost; a broken line is a record
\* that cannot be parsed.
UsageLine(t, m) ==
    [ticket |-> t, model |-> m, day |-> day, half |-> half, cost |-> Rate[FamilyOf[m]], whole |-> TRUE]

\* record appends one line.  A write that stops half way leaves a line
\* without its end: the next record continues it and is as unreadable.
Appended(line) ==
    Append(usageLog, [line EXCEPT !.whole = @ /\ (usageLog # <<>> => Last(usageLog).whole)])

RecordUsage(t, m) ==
    \/ usageLog' = Appended(UsageLine(t, m))
    \/ DiskFills /\ usageLog' = Appended([UsageLine(t, m) EXCEPT !.whole = FALSE])

\* _load_records: reading stops at the first line that cannot be parsed.
LoadRecords ==
    {i \in DOMAIN usageLog : \A j \in 1..i : usageLog[j].whole}

HalfDay(d, h) == 2 * d + h

\* Mutant: the window starts one day later.
MutFilterSince(days) ==
    {i \in LoadRecords : HalfDay(usageLog[i].day, usageLog[i].half) >= HalfDay(day - days + 1, half)}

\* _filter_since: a window of days ends now and begins at this time of day.
FilterSince(days) ==
    {i \in LoadRecords : HalfDay(usageLog[i].day, usageLog[i].half) >= HalfDay(day - days, half)}

CostOf(S) == SumOver([i \in DOMAIN usageLog |-> usageLog[i].cost], S)

\* by_agent, by_ticket, by_model and the buckets of a period: the records
\* of the window by a key; records without one are in the bucket "unknown".
Aggregate(S, keyOf) ==
    [k \in {keyOf[i] : i \in S} |-> CostOf({i \in S : keyOf[i] = k})]

TicketKey == [i \in DOMAIN usageLog |-> IF usageLog[i].ticket = "" THEN "unknown" ELSE usageLog[i].ticket]
ModelKey == [i \in DOMAIN usageLog |-> usageLog[i].model]
DayKey == [i \in DOMAIN usageLog |-> usageLog[i].day]

ByTicket(days) == Aggregate(FilterSince(days), TicketKey)
ByModel(days) == Aggregate(FilterSince(days), ModelKey)
ByDay(days) == Aggregate(FilterSince(days), DayKey)
ByMonth(months) ==
    Aggregate(FilterSince(months * DaysPerMonth),
              [i \in DOMAIN usageLog |-> (usageLog[i].day - 1) \div DaysPerMonth])

GetDailySpend(d) == CostOf({i \in LoadRecords : usageLog[i].day = d})

SumOf(buckets) == SumOver(buckets, DOMAIN buckets)

-----------------------------------------------------------------------------
(* The cost tracker.                                                       *)

\* record_cost writes to memory, then inserts the event; a failed insert is
\* logged and not repeated.
RecordCost(m) ==
    /\ costMem' = [costMem EXCEPT ![day] = @ + Rate[FamilyOf[m]]]
    /\ \/ WithDatabase /\ costDb' = [costDb EXCEPT ![day] = @ + Rate[FamilyOf[m]]]
       \/ (WithDatabase => DatabaseFails) /\ UNCHANGED costDb

\* An agent's session ends: its usage goes to the log, then to the tracker.
EndSession(t, m) ==
    /\ Len(usageLog) < MaxUsage
    /\ RecordUsage(t, m) /\ RecordCost(m) /\ answer' = <<>>
    /\ UNCHANGED <<limits, incidents, day, half, stopped>>

InMonth(d) == {e \in Days : (e - 1) \div DaysPerMonth = (d - 1) \div DaysPerMonth}
SpentToday(cost) == cost[day]
SpentMonth(cost) == Total([d \in Days |-> IF d \in InMonth(day) THEN cost[d] ELSE 0], MaxDay)

\* The policy of the team, or the defaults.
PolicyIn(p) == IF p = NoPolicy THEN DefaultLimits ELSE p

\* A limit of 0 or less is never used up.
PctUsed(spent, limit) == IF limit > 0 THEN (100 * spent) \div limit ELSE 0

\* check_budget, from a policy and the two sums it was given.
StatusOf(p, today, month) ==
    LET pct == Max({PctUsed(today, p.daily), PctUsed(month, p.monthly)})
    IN IF p.stop /\ pct >= 100 THEN "hard_stop" ELSE IF pct >= p.alert THEN "warning" ELSE "ok"

\* Each of the three requests may fail: the policy is then the default one
\* and a sum the one of this process.
Policies ==
    IF WithDatabase THEN {PolicyIn(limits["table"])} \cup (IF DatabaseFails THEN {DefaultLimits} ELSE {})
    ELSE {PolicyIn(limits["process"])}

\* Mutant: the sums of this process are taken even when the database answers.
MutSources == {costMem}

\* Where a sum may come from.
Sources == IF ~WithDatabase THEN {costMem} ELSE {costDb} \cup (IF DatabaseFails THEN {costMem} ELSE {})

\* _generate_incidents, with its own threshold for warnings (80).
IncidentsOf(p, today, month) ==
    LET Of(period, pct) == IF pct >= 100 THEN <<<<period, "exceeded", day>>>>
                           ELSE IF pct >= 80 THEN <<<<period, "warning", day>>>> ELSE <<>>
    IN Of("daily", PctUsed(today, p.daily)) \o Of("monthly", PctUsed(month, p.monthly))

\* _store_incidents keeps the newest HistoryMax, each once.
Stored(found) ==
    LET all == incidents \o SelectSeq(found, LAMBDA x : ~Contains(incidents, x))
    IN SubSeq(all, Max({1, Len(all) - HistoryMax + 1}), Len(all))

CheckBudget ==
    \E p \in Policies, today \in Sources, month \in Sources :
        /\ answer' = <<"budget", StatusOf(p, SpentToday(today), SpentMonth(month))>>
        /\ incidents' = Stored(IncidentsOf(p, SpentToday(today), SpentMonth(month)))
        /\ stopped' = (stopped \/ answer'[2] = "hard_stop")
        /\ UNCHANGED <<usageLog, costDb, costMem, limits, day, half>>

\* POST and PUT of a policy.  Only the tracker in memory takes one; the
\* answer is the policy either way.
SetPolicy(p) ==
    /\ limits' = IF WithDatabase THEN limits ELSE [limits EXCEPT !["process"] = p]
    /\ answer' = <<"policy", p>>
    /\ stopped' = (stopped /\ WithDatabase)
    /\ UNCHANGED <<usageLog, costDb, costMem, incidents, day, half>>

\* A row of the policies table is written by a migration or by hand.
WriteTable(p) ==
    /\ WithDatabase /\ limits["table"] = NoPolicy
    /\ limits' = [limits EXCEPT !["table"] = p] /\ answer' = <<>> /\ stopped' = FALSE
    /\ UNCHANGED <<usageLog, costDb, costMem, incidents, day, half>>

Noon ==
    /\ half = 0 /\ half' = 1 /\ answer' = <<>>
    /\ UNCHANGED <<usageLog, costDb, costMem, limits, incidents, day, stopped>>

NextDay ==
    /\ half = 1 /\ half' = 0
    /\ day < MaxDay /\ day' = day + 1 /\ answer' = <<>> /\ stopped' = FALSE
    /\ UNCHANGED <<usageLog, costDb, costMem, limits, incidents>>

\* A restarted process has no events, policies and incidents of its own.
RestartTracker ==
    /\ costMem' = [d \in Days |-> 0] /\ limits' = [limits EXCEPT !["process"] = NoPolicy]
    /\ incidents' = <<>> /\ answer' = <<>>
    /\ UNCHANGED <<usageLog, costDb, day, half, stopped>>

BudgetsNext ==
    \/ \E t \in UsageTicket, m \in UsageModel : EndSession(t, m)
    \/ CheckBudget
    \/ \E p \in LimitChoices : SetPolicy(p) \/ WriteTable(p)
    \/ Noon \/ NextDay \/ RestartTracker

BudgetsSpec == BudgetsInit /\ [][BudgetsNext]_budgetVars

-----------------------------------------------------------------------------
(* Properties.                                                             *)

\* Every view of the token log splits the same records: what tickets,
\* models and days of a window cost adds up to one sum, which leaves out
\* nothing of the last days and nothing but a part of the day the window
\* begins in (get_daily_spend, day by day).
ViewsAddUp ==
    \A n \in 1..MaxDay :
        LET Spent(first) == SumOver([d \in Days |-> GetDailySpend(d)], {d \in Days : first <= d /\ d <= day})
            all == SumOf(ByDay(n))
        IN /\ {SumOf(ByTicket(n)), SumOf(ByModel(n))} = {all}
           /\ Spent(day - n + 1) <= all /\ all <= Spent(day - n)

\* A team that was told to stop is told so at every check until the day or
\* its policy changes: neither a restart of the process nor what another
\* session records makes check_budget answer anything else.
StopOutlivesRestarts ==
    stopped /\ answer # <<>> => (answer[1] = "budget" => answer[2] = "hard_stop")
=============================================================================
