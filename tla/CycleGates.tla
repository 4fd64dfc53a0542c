----------------------------- MODULE CycleGates -----------------------------
(***************************************************************************)
(* What stands between the daemon and a cycle's work: the cooldown lock    *)
(* file, the model probe, the preflight and the circuit breaker at the     *)
(* head of run_cycle, the dashboard's request limit, and the rate limit    *)
(* life cycle of one provider.  Times count down: 0 is "over".             *)
(***************************************************************************)
EXTENDS Naturals, Sequences, FiniteSets, SequencesExt, Lists

CONSTANTS
    BreakerWindow, MinResults, PauseFor,  \* CircuitBreaker: 10 results, 5 at least, 30 min
    LockFor,                  \* a global rate limit cooldown
    Configured, Fallbacks,    \* the model of the environment, the fallback models in order
    ProbeTTL,                 \* PROBE_FAILURE_TTL_SECS
    FirstCooldown, LongestCooldown, RecoverySuccesses, MaxLevel, \* RateLimitLifecycle
    InFlight,                 \* bound: requests in flight to the provider
    RequestMax, RequestWindow, \* _RATE_LIMIT_MAX, _RATE_LIMIT_WINDOW of the dashboard
    DiskFails                 \* the breaker's state file may not be written

ASSUME GatesAssumption ==
    /\ {BreakerWindow, MinResults, PauseFor, LockFor, ProbeTTL, RecoverySuccesses} \subseteq Nat
    /\ RequestMax \in Nat /\ RequestWindow \in Nat
    /\ DiskFails \in BOOLEAN

VARIABLES
    lockfile,  \* what cooldown.lock still says, and what was owed when it was written
    breaker,   \* circuit_breaker.json: its window and its pause
    past,      \* history: the last attempts, and the pause that they earned
    probe,     \* the environment's model, failed probes, what the proxy lists and serves
    cyc,       \* where run_cycle is
    life,      \* RateLimitLifecycle
    bucket     \* ages of one client's requests, and of all that were let through

gateVars == <<lockfile, breaker, past, probe, cyc, life, bucket>>

Model == {Configured} \cup Range(Fallbacks)
Over(n) == IF n > 0 THEN n - 1 ELSE 0

GatesTypeOK ==
    /\ lockfile.left \in 0..LockFor /\ lockfile.owed \in 0..LockFor
    /\ Len(breaker.results) <= BreakerWindow /\ breaker.left \in 0..PauseFor
    /\ probe.env \in Model /\ probe.up \subseteq Model
    /\ \A m \in Model : probe.failed[m] \in 0..ProbeTTL
    /\ cyc \in {"sleep", "probe", "checks", "work"}
    /\ life.state \in {"normal", "throttled", "cooldown", "recovering"} /\ life.level \in 0..MaxLevel

GatesInit ==
    /\ lockfile = [left |-> 0, owed |-> 0]
    /\ breaker = [results |-> <<>>, left |-> 0]
    /\ past = [results |-> <<>>, left |-> 0]
    /\ \E up \in SUBSET Model :
         probe = [env |-> Configured, failed |-> [m \in Model |-> 0], up |-> up]
    /\ cyc = "sleep"
    /\ life = [state |-> "normal", level |-> 0, left |-> 0, good |-> 0, run |-> RecoverySuccesses, out |-> 0]
    /\ bucket = [kept |-> <<>>, all |-> <<>>]

-----------------------------------------------------------------------------
(* run_cycle up to its work.                                               *)

\* The first thing run_cycle does with the JSON store: a lock file that has
\* not expired ends the cycle, an expired one is removed.
CheckLockfile ==
    /\ cyc = "sleep"
    /\ cyc' = IF lockfile.left > 0 THEN "sleep" ELSE "probe"
    /\ UNCHANGED <<lockfile, breaker, past, probe, life, bucket>>

\* A candidate must be listed by the proxy and answer a probe; a model whose
\* probe failed less than an hour ago is passed over without another one.
Answers(m, serving) == m \in probe.up /\ probe.failed[m] = 0 /\ m \in serving

\* The first candidate that answers goes to the environment, which is the
\* configured model of the next cycle; the model stays when none answers.
\* (The code does this for two variables with one memory of failed probes.)
ValidateAndPatchEnv ==
    /\ cyc = "probe"
    /\ \E serving \in SUBSET Model :
         LET order == <<probe.env>> \o SelectSeq(Fallbacks, LAMBDA m : m # probe.env)
             good == {i \in DOMAIN order : Answers(order[i], serving)}
             first == IF good = {} THEN Len(order) ELSE CHOOSE i \in good : \A j \in good : i <= j
             asked == {order[i] : i \in {k \in 1..first : probe.failed[order[k]] = 0
                                                            /\ order[k] \in probe.up}}
         IN probe' = [probe EXCEPT !.env = IF good = {} THEN @ ELSE order[first],
                                   !.failed = [m \in Model |-> IF m \in asked \ serving THEN ProbeTTL ELSE @[m]]]
    /\ cyc' = "checks"
    /\ UNCHANGED <<lockfile, breaker, past, life, bucket>>

\* list_available_models fails or finds nothing: the environment stays.
ProxyUnreachable ==
    /\ cyc = "probe" /\ cyc' = "checks"
    /\ UNCHANGED <<lockfile, breaker, past, probe, life, bucket>>

\* A failed preflight ends the cycle, and so does a paused breaker: it is
\* built from its file, which is all that is left of earlier cycles.
PreflightFails ==
    /\ cyc = "checks" /\ cyc' = "sleep"
    /\ UNCHANGED <<lockfile, breaker, past, probe, life, bucket>>

CheckBreaker ==
    /\ cyc = "checks"
    /\ cyc' = IF breaker.left > 0 THEN "sleep" ELSE "work"
    /\ UNCHANGED <<lockfile, breaker, past, probe, life, bucket>>

-----------------------------------------------------------------------------
(* The cycle's work, as far as the gates hear of it.                       *)

Failures(s) == Cardinality({i \in DOMAIN s : ~s[i]})
Window(s) == IF Len(s) > BreakerWindow THEN Tail(s) ELSE s
Trips(s) == Len(s) >= MinResults /\ 5 * Failures(s) >= 4 * Len(s)

Recorded(b, ok) ==
    LET s == Window(Append(b.results, ok))
    IN [results |-> s, left |-> IF Trips(s) THEN PauseFor ELSE b.left]

\* The attempts as they were, for BreakerIsExact.
Attempted(b, ok) ==
    LET all == Append(b.results, ok)
        s == SubSeq(all, IF Len(all) > BreakerWindow THEN 2 ELSE 1, Len(all))
    IN [results |-> s, left |-> IF Trips(s) THEN PauseFor ELSE b.left]

RecordResult ==
    /\ cyc = "work"
    /\ \E ok \in BOOLEAN :
         /\ past' = Attempted(past, ok)
         /\ breaker' \in {Recorded(breaker, ok)} \cup (IF DiskFails THEN {breaker} ELSE {})
    /\ UNCHANGED <<lockfile, probe, cyc, life, bucket>>

\* Mutant: a skip is counted as a failure.
MutRecordSkip ==
    /\ cyc = "work"
    /\ breaker' = Recorded(breaker, FALSE)
    /\ UNCHANGED <<lockfile, past, probe, cyc, life, bucket>>

\* A ticket whose attempts were used up is a skip and is not counted.
RecordSkip ==
    /\ cyc = "work"
    /\ UNCHANGED gateVars

\* Mutant: only the daemon's own variable keeps the cooldown.
MutGlobalCooldown ==
    /\ cyc = "work" /\ cyc' = "sleep"
    /\ lockfile' = [lockfile EXCEPT !.owed = LockFor]
    /\ UNCHANGED <<breaker, past, probe, life, bucket>>

\* RateLimitCooldown with global_pause: the daemon writes the lock file,
\* which the next cycle reads, also after a restart.
GlobalCooldown ==
    /\ cyc = "work" /\ cyc' = "sleep"
    /\ lockfile' = [left |-> LockFor, owed |-> LockFor]
    /\ UNCHANGED <<breaker, past, probe, life, bucket>>

EndCycle ==
    /\ cyc = "work" /\ cyc' = "sleep"
    /\ UNCHANGED <<lockfile, breaker, past, probe, life, bucket>>

\* The process dies and is started again: the files stay, the failed probes
\* and the environment that was patched go.
GatesRestart ==
    /\ cyc' = "sleep"
    /\ probe' = [probe EXCEPT !.env = Configured, !.failed = [m \in Model |-> 0]]
    /\ life' = [life EXCEPT !.state = "normal", !.level = 0, !.left = 0, !.good = 0,
                            !.run = RecoverySuccesses, !.out = 0]
    /\ UNCHANGED <<lockfile, breaker, past, bucket>>

-----------------------------------------------------------------------------
(* RateLimitLifecycle: run counts the successes since the last complaint.  *)

Send ==
    /\ life.state # "cooldown" /\ life.out < InFlight
    /\ life' = [life EXCEPT !.out = @ + 1]
    /\ UNCHANGED <<lockfile, breaker, past, probe, cyc, bucket>>

Cooldown(level) ==
    LET raw == FirstCooldown * 2^level IN IF raw < LongestCooldown THEN raw ELSE LongestCooldown

OnRateLimitHit ==
    /\ life.out > 0 /\ life.level < MaxLevel
    /\ life' = [life EXCEPT !.state = "cooldown", !.level = @ + 1, !.left = Cooldown(life.level),
                            !.good = 0, !.run = 0, !.out = @ - 1]
    /\ UNCHANGED <<lockfile, breaker, past, probe, cyc, bucket>>

\* Mutant: a warning outside NORMAL leaves the count of successes alone.
MutOnRateLimitWarning ==
    /\ life.out > 0
    /\ life' = [life EXCEPT !.state = IF @ = "normal" THEN "throttled" ELSE @,
                            !.good = IF life.state = "normal" THEN 0 ELSE @, !.run = 0, !.out = @ - 1]
    /\ UNCHANGED <<lockfile, breaker, past, probe, cyc, bucket>>

OnRateLimitWarning ==
    /\ life.out > 0
    /\ life' = [life EXCEPT !.state = IF @ = "normal" THEN "throttled" ELSE @,
                            !.good = 0, !.run = 0, !.out = @ - 1]
    /\ UNCHANGED <<lockfile, breaker, past, probe, cyc, bucket>>

\* Requests sent before a hit may succeed after it: in COOLDOWN they count
\* for nothing, in RECOVERING they do.
OnRequestSuccess ==
    LET counted == life.state \in {"throttled", "recovering"}
        back == counted /\ life.good + 1 >= RecoverySuccesses
    IN /\ life.out > 0
       /\ life' = [life EXCEPT !.state = IF back THEN "normal" ELSE @,
                               !.level = IF back \/ life.state = "normal" THEN 0 ELSE @,
                               !.good = IF back THEN 0 ELSE IF counted THEN @ + 1 ELSE @,
                               !.run = IF @ < RecoverySuccesses THEN @ + 1 ELSE @, !.out = @ - 1]
       /\ UNCHANGED <<lockfile, breaker, past, probe, cyc, bucket>>

\* Reading the state ends a cooldown that is over.
ReadState ==
    /\ life.state = "cooldown" /\ life.left = 0
    /\ life' = [life EXCEPT !.state = "recovering"]
    /\ UNCHANGED <<lockfile, breaker, past, probe, cyc, bucket>>

-----------------------------------------------------------------------------
(* _check_rate_limit of the dashboard: a sliding window per address.       *)

\* Mutant: a request leaves the window before it is over.
MutPrune(s) == Sublist(s, {i \in DOMAIN s : s[i] + 1 < RequestWindow})

InWindow(s) == {i \in DOMAIN s : s[i] <= RequestWindow}
Prune(s) == Sublist(s, InWindow(s))

CheckRateLimit ==
    LET kept == Prune(bucket.kept)
    IN /\ bucket' = IF Len(kept) >= RequestMax THEN [bucket EXCEPT !.kept = kept]
                    ELSE [kept |-> Append(kept, 0), all |-> Append(bucket.all, 0)]
       /\ UNCHANGED <<lockfile, breaker, past, probe, cyc, life>>

\* Requests are remembered until they are out of every window.
AllOlder(s) == [i \in DOMAIN s |-> s[i] + 1]
AgedRequests(s) == Sublist(AllOlder(s), {i \in DOMAIN s : AllOlder(s)[i] <= RequestWindow + 1})

\* Time passes.
GatesTick ==
    /\ lockfile' = [left |-> Over(lockfile.left), owed |-> Over(lockfile.owed)]
    /\ breaker' = [breaker EXCEPT !.left = Over(@)] /\ past' = [past EXCEPT !.left = Over(@)]
    /\ probe' = [probe EXCEPT !.failed = [m \in Model |-> Over(@[m])]]
    /\ life' = [life EXCEPT !.left = Over(@)]
    /\ bucket' = [kept |-> AgedRequests(bucket.kept), all |-> AgedRequests(bucket.all)]
    /\ UNCHANGED cyc

GatesNext ==
    \/ CheckLockfile \/ ValidateAndPatchEnv \/ ProxyUnreachable \/ PreflightFails \/ CheckBreaker
    \/ RecordResult \/ RecordSkip \/ GlobalCooldown \/ EndCycle \/ GatesRestart
    \/ Send \/ OnRateLimitHit \/ OnRateLimitWarning \/ OnRequestSuccess \/ ReadState
    \/ CheckRateLimit \/ GatesTick

GatesSpec == GatesInit /\ [][GatesNext]_gateVars

-----------------------------------------------------------------------------
(* Properties.                                                             *)

\* A cycle never begins its work while a cooldown of all work is owed, or in
\* the pause that the last attempts earned, although the process may have
\* been restarted in between: what holds it back is in two files.
PausesOutliveRestarts ==
    [][cyc # "work" /\ cyc' = "work" => lockfile.owed = 0 /\ past.left = 0]_gateVars

\* The breaker's window and pause are those of the last attempts, over
\* restarts: skipped tickets do not feed it and no attempt is lost.
BreakerIsExact == breaker = past

\* A provider counts as normal again only when RecoverySuccesses requests
\* have succeeded since it last complained, whatever was in flight.
RecoveryIsEarned == life.state = "normal" => life.run >= RecoverySuccesses

\* No client ever has more than RequestMax requests let through in a window.
RequestsAreLimited ==
    Cardinality(InWindow(bucket.all)) <= RequestMax

=============================================================================
