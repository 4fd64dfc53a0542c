------------------------------ MODULE Watchdog ------------------------------
(* The two ways in which the system looks after itself and calls for help.   *)
(*                                                                           *)
(* First part, alerts (notifier.py, telegram.py): threads of one process     *)
(* send messages through the OpenClaw gateway and, when that fails, directly *)
(* to the Telegram API. Two rate limiters stand in the way, one of the       *)
(* notifier and one of the Telegram client; both remember, under a lock of   *)
(* their own, when a message was last let through and how many were let      *)
(* through in the last minute. Nobody retries a message that was refused.    *)
(*                                                                           *)
(* Second part, the self-healing monitor (self_heal.py), which cron starts   *)
(* every five minutes: it starts the daemon again when the process of the    *)
(* pid file is dead or its log is old, takes stalled tickets back, resolves  *)
(* false regressions and asks Claude for an audit. The daemon, its tickets   *)
(* in Supabase and the process table change under its hands.                 *)
EXTENDS Naturals, FiniteSets

CONSTANTS
    Sender,      \* threads that send alerts
    Alert,       \* the message keys in use (the first 80 characters)
    AlertCooldown,    \* ticks between two messages of one key (300 s)
    PerMinute,   \* messages let through in one tick (a minute)
    GatewayLies  \* the gateway may deliver a message and answer too late

(* What the callers of the notifier send; new tickets and investigations     *)
(* only when critical, the gate only when it blocks.                         *)
AlertKinds == {"new_tickets", "stability_gate", "daily_summary", "investigation",
               "regression_hitl", "rollback"}

ASSUME AlertAssumption ==
    /\ AlertCooldown \in Nat \ {0, 1} /\ PerMinute \in Nat \ {0}
    /\ Alert \subseteq AlertKinds

VARIABLES
    since,  \* per limiter and key: ticks since it was let through (since boot)
    count,  \* per limiter: messages let through in this minute
    sending,   \* per sender: the _send call it is in
    shown,  \* per key: ticks since the chat last showed it; AlertCooldown: long ago
    again   \* a key was shown again too early

alertVars == <<since, count, sending, shown, again>>

Limiters == {"notifier", "telegram"}
NoSending == [at |-> "idle", key |-> "", failed |-> FALSE, asked |-> FALSE, late |-> FALSE]

AlertTypeOK ==
    /\ since \in [Limiters -> [Alert -> 0..AlertCooldown]]
    /\ count \in [Limiters -> 0..PerMinute]
    /\ \A s \in Sender :
         /\ sending[s].at \in {"idle", "gateway", "docker", "direct", "api", "over"}
         /\ sending[s].key \in Alert \cup {""}
         /\ {sending[s].failed, sending[s].asked, sending[s].late} \subseteq BOOLEAN
    /\ shown \in [Alert -> 0..AlertCooldown] /\ again \in BOOLEAN

(* A key that was never sent has the time of the machine's start: the cache  *)
(* answers 0 for it and the clock is monotonic since boot.                   *)
AlertInit ==
    /\ \E up \in 0..AlertCooldown : since = [l \in Limiters |-> [k \in Alert |-> up]]
    /\ count = [l \in Limiters |-> 0]
    /\ sending = [s \in Sender |-> NoSending]
    /\ shown = [k \in Alert |-> AlertCooldown] /\ again = FALSE

Limited(l, k) == since[l][k] < AlertCooldown \/ count[l] >= PerMinute

LetThrough(l, k) ==
    /\ since' = [since EXCEPT ![l][k] = 0]
    /\ count' = [count EXCEPT ![l] = @ + 1]

Goto(s, p) == sending' = [sending EXCEPT ![s].at = p]

(* _send refuses a message its own limiter knows.                            *)
Notify(s, k) ==
    /\ sending[s].at \in {"idle", "over"}
    /\ ~Limited("notifier", k)
    /\ LetThrough("notifier", k)
    /\ sending' = [sending EXCEPT ![s] = [NoSending EXCEPT !.at = "gateway", !.key = k]]
    /\ UNCHANGED <<shown, again>>

(* Investigator and developer without a notifier use the client directly.    *)
SendDirectly(s, k) ==
    /\ sending[s].at \in {"idle", "over"}
    /\ sending' = [sending EXCEPT ![s] = [NoSending EXCEPT !.at = "direct", !.key = k]]
    /\ UNCHANGED <<since, count, shown, again>>

\* Mutant: the gateway's messages do not count.
MutSendViaOpenclaw(s) ==
    /\ sending[s].at = "gateway"
    /\ Goto(s, "docker")
    /\ UNCHANGED <<since, count, shown, again>>

(* _send_via_openclaw takes the message to the client's limiter first, so    *)
(* that the gateway's messages count, too.                                   *)
SendViaOpenclaw(s) ==
    /\ sending[s].at = "gateway"
    /\ IF Limited("telegram", sending[s].key)
       THEN Goto(s, "direct") /\ UNCHANGED <<since, count>>
       ELSE LetThrough("telegram", sending[s].key) /\ Goto(s, "docker")
    /\ UNCHANGED <<shown, again>>

Show(k) ==
    /\ shown' = [shown EXCEPT ![k] = 0]
    /\ again' = (again \/ shown[k] < AlertCooldown - 1)

Delivered(s) ==
    /\ sending[s].at = "docker"
    /\ Show(sending[s].key) /\ Goto(s, "over")
    /\ UNCHANGED <<since, count>>

(* docker is missing, the command fails, or it is cut off after 30 seconds,  *)
(* when the message may have been delivered.                                 *)
GatewayFails(s) ==
    /\ sending[s].at = "docker"
    /\ sending' = [sending EXCEPT ![s].at = "direct", ![s].failed = TRUE]
    /\ (GatewayLies /\ Show(sending[s].key)) \/ UNCHANGED <<shown, again>>
    /\ UNCHANGED <<since, count>>

(* send_message: limiter, then the request.                                  *)
SendMessage(s) ==
    /\ sending[s].at = "direct"
    /\ IF Limited("telegram", sending[s].key)
       THEN Goto(s, "over") /\ UNCHANGED <<since, count>>
       ELSE /\ LetThrough("telegram", sending[s].key)
            /\ sending' = [sending EXCEPT ![s].at = "api", ![s].asked = TRUE]
    /\ UNCHANGED <<shown, again>>

(* The API answers ok, or an error that is only logged.                      *)
ApiAnswers(s) ==
    /\ sending[s].at = "api"
    /\ Show(sending[s].key) \/ UNCHANGED <<shown, again>>
    /\ Goto(s, "over")
    /\ UNCHANGED <<since, count>>

Older(n) == IF n < AlertCooldown THEN n + 1 ELSE n

(* A minute passes. A call takes less: 30 seconds at the gateway and 10 at   *)
(* the API, so it sees at most one minute end.                               *)
Minute ==
    /\ \A s \in Sender : sending[s].late => sending[s].at \in {"idle", "over"}
    /\ since' = [l \in Limiters |-> [k \in Alert |-> Older(since[l][k])]]
    /\ count' = [l \in Limiters |-> 0]
    /\ shown' = [k \in Alert |-> Older(shown[k])]
    /\ sending' = [s \in Sender |-> [sending[s] EXCEPT !.late = sending[s].at \notin {"idle", "over"}]]
    /\ UNCHANGED again

AlertNext ==
    \/ \E s \in Sender :
         \/ \E k \in Alert : Notify(s, k) \/ SendDirectly(s, k)
         \/ SendViaOpenclaw(s) \/ Delivered(s) \/ GatewayFails(s)
         \/ SendMessage(s) \/ ApiAnswers(s)
    \/ Minute

AlertSpec == AlertInit /\ [][AlertNext]_alertVars

(* However the gateway fails, and even when it delivered what it reports as  *)
(* failed, the chat does not show one message twice within the cooldown      *)
(* (less the minute a call may take): the fallback goes through the limiter  *)
(* that let the first attempt pass.                                          *)
NoAlertTwice == ~again

(* "Send via OpenClaw gateway (preferred) or direct Telegram fallback": a    *)
(* message the gateway failed to send is sent to the API, unless the minute  *)
(* is used up.                                                               *)
FallbackIsTried ==
    \A s \in Sender :
        (sending[s].at = "over" /\ sending[s].failed /\ ~sending[s].late) =>
            sending[s].asked \/ count["telegram"] >= PerMinute

(***************************************************************************)
(* The self-healing monitor.                                               *)
(***************************************************************************)
CONSTANTS
    Pid,        \* process ids
    WTicket,    \* tickets in Supabase
    LogStall,   \* ticks after which an untouched log means a stalled daemon
    TicketStall,\* ticks after which an untouched ticket is stalled
    AuditGap,   \* ticks between two audits by Claude
    ByOperator, \* a daemon may be started as docs/configuration.md says
    MonitorDies \* the monitor may be killed in the middle of its run

ASSUME WatchAssumption ==
    /\ {LogStall, TicketStall, AuditGap} \subseteq Nat \ {0}
    /\ Pid \subseteq Nat \ {0}

VARIABLES
    proc,    \* what runs under a process id
    pidfile, \* /tmp/swe_squad_daemon.pid; 0: none
    logAge,  \* ticks since swe_team.log was written
    wtab,    \* the tickets' rows
    worker,  \* per ticket: the daemon that works on it; 0: none
    mon,     \* the monitor: where it is, the pid it decided on, the tickets to do
    audit,   \* ticks since the last audit was stamped
    errors,  \* the log's tail or the regressions call for an audit
    unknown  \* history: daemons whose start never reached the pid file

watchVars == <<proc, pidfile, logAge, wtab, worker, mon, audit, errors, unknown>>

Busy == {"investigating", "in_development"}
WStatus == Busy \cup {"open", "investigation_complete", "resolved"}
Rows == [WTicket -> [status : WStatus, age : 0..TicketStall + 1, regressed : BOOLEAN]]
Asleep == [at |-> "idle", pid |-> 0, todo |-> {}]

Daemons == {p \in Pid : proc[p] \in {"daemon", "stuck"}}

WatchTypeOK ==
    /\ proc \in [Pid -> {"none", "daemon", "stuck", "other", "alien"}]
    /\ pidfile \in Pid \cup {0}
    /\ logAge \in 0..LogStall + 1
    /\ wtab \in Rows
    /\ worker \in [WTicket -> Pid \cup {0}]
    /\ mon.at \in {"idle", "kill", "start", "record", "stalled", "resetting",
                   "regressions", "clearing", "errors", "audit"}
    /\ mon.pid \in Pid \cup {0} /\ mon.todo \subseteq WTicket
    /\ audit \in 0..AuditGap /\ errors \in BOOLEAN /\ unknown \subseteq Pid

WatchInit ==
    /\ proc = [p \in Pid |-> "none"]
    /\ pidfile = 0 /\ logAge = LogStall + 1
    /\ wtab \in [WTicket -> [status : {"open"}, age : {0}, regressed : BOOLEAN]]
    /\ worker = [t \in WTicket |-> 0]
    /\ mon = Asleep
    /\ audit = AuditGap /\ errors = FALSE /\ unknown = {}

(* The process table: a daemon hangs or dies, and its id may come back as a  *)
(* process of this user or of another.                                       *)
Unworked(p) == worker' = [t \in WTicket |-> IF worker[t] = p THEN 0 ELSE worker[t]]

DaemonHangs(p) ==
    /\ proc[p] = "daemon"
    /\ proc' = [proc EXCEPT ![p] = "stuck"]
    /\ Unworked(p)
    /\ UNCHANGED <<pidfile, logAge, wtab, mon, audit, errors, unknown>>

DaemonDies(p) ==
    /\ p \in Daemons
    /\ proc' = [proc EXCEPT ![p] = "none"]
    /\ Unworked(p)
    /\ UNCHANGED <<pidfile, logAge, wtab, mon, audit, errors, unknown>>

PidReused(p) ==
    /\ \/ proc[p] = "none" /\ \E w \in {"other", "alien"} : proc' = [proc EXCEPT ![p] = w]
       \/ proc[p] \in {"other", "alien"} /\ proc' = [proc EXCEPT ![p] = "none"]
    /\ \E q \in Pid \ {p} : proc[q] \in {"none", "daemon"}
    /\ UNCHANGED <<pidfile, logAge, wtab, worker, mon, audit, errors, unknown>>

(* swe_team_runner.py --daemon writes no pid file.                           *)
StartedByOperator(p) ==
    /\ ByOperator /\ Daemons = {} /\ proc[p] = "none"
    /\ proc' = [proc EXCEPT ![p] = "daemon"]
    /\ unknown' = unknown \cup {p}
    /\ UNCHANGED <<pidfile, logAge, wtab, worker, mon, audit, errors>>

(* The daemon logs, takes a ticket up, or writes what it found.              *)
DaemonLogs(p) ==
    /\ proc[p] = "daemon"
    /\ logAge' = 0 /\ errors' \in BOOLEAN
    /\ UNCHANGED <<proc, pidfile, wtab, worker, mon, audit, unknown>>

DaemonTakes(p, t) ==
    /\ proc[p] = "daemon" /\ worker[t] = 0
    /\ wtab[t].status \in {"open", "investigation_complete"}
    /\ \E st \in Busy : wtab' = [wtab EXCEPT ![t].status = st, ![t].age = 0]
    /\ worker' = [worker EXCEPT ![t] = p]
    /\ UNCHANGED <<proc, pidfile, logAge, mon, audit, errors, unknown>>

DaemonFinishes(t) ==
    /\ worker[t] # 0
    /\ \E st \in {"investigation_complete", "resolved"} :
         wtab' = [wtab EXCEPT ![t].status = st, ![t].age = 0]
    /\ worker' = [worker EXCEPT ![t] = 0]
    /\ UNCHANGED <<proc, pidfile, logAge, mon, audit, errors, unknown>>

Aged(n, top) == IF n < top THEN n + 1 ELSE n

WatchTick ==
    /\ logAge' = Aged(logAge, LogStall + 1)
    /\ wtab' = [t \in WTicket |-> [wtab[t] EXCEPT !.age = Aged(@, TicketStall + 1)]]
    /\ audit' = Aged(audit, AuditGap)
    /\ <<logAge', wtab', audit'>> # <<logAge, wtab, audit>>
    /\ UNCHANGED <<proc, pidfile, worker, mon, errors, unknown>>

(* os.kill(pid, 0): a process of another user counts as dead.                *)
PidAlive(p) == p # 0 /\ proc[p] \in {"daemon", "stuck", "other"}

\* Mutant: a process that is alive is never looked at twice.
MutCheckDaemon ==
    /\ mon.at = "idle"
    /\ mon' = [mon EXCEPT !.pid = pidfile, !.at = IF PidAlive(pidfile) THEN "stalled" ELSE "start"]
    /\ UNCHANGED <<proc, pidfile, logAge, wtab, worker, audit, errors, unknown>>

(* Cron starts the monitor; a second one would not get the file lock. It     *)
(* reads pid file, process table and the log's age.                          *)
CheckDaemon ==
    /\ mon.at = "idle"
    /\ mon' = [mon EXCEPT !.pid = pidfile,
                          !.at = IF ~PidAlive(pidfile) THEN "start"
                                 ELSE IF logAge > LogStall THEN "kill" ELSE "stalled"]
    /\ UNCHANGED <<proc, pidfile, logAge, wtab, worker, audit, errors, unknown>>

\* Mutant: SIGTERM only, which a stuck daemon does not follow.
MutKillDaemon ==
    /\ mon.at = "kill"
    /\ proc' = [proc EXCEPT ![mon.pid] = IF @ \in {"alien", "stuck"} THEN @ ELSE "none"]
    /\ Unworked(mon.pid)
    /\ pidfile' = 0
    /\ mon' = [mon EXCEPT !.at = "start"]
    /\ UNCHANGED <<logAge, wtab, audit, errors, unknown>>

(* SIGTERM and, two seconds later, SIGKILL to whatever has this id now.      *)
KillDaemon ==
    /\ mon.at = "kill"
    /\ proc' = [proc EXCEPT ![mon.pid] = IF @ = "alien" THEN @ ELSE "none"]
    /\ Unworked(mon.pid)
    /\ pidfile' = 0
    /\ mon' = [mon EXCEPT !.at = "start"]
    /\ UNCHANGED <<logAge, wtab, audit, errors, unknown>>

(* _start_daemon: Popen, then the pid file.                                  *)
StartDaemon(p) ==
    /\ mon.at = "start" /\ proc[p] = "none"
    /\ proc' = [proc EXCEPT ![p] = "daemon"]
    /\ mon' = [mon EXCEPT !.at = "record", !.pid = p]
    /\ unknown' = unknown \ {p}
    /\ UNCHANGED <<pidfile, logAge, wtab, worker, audit, errors>>

RecordPid ==
    /\ mon.at = "record"
    /\ pidfile' = mon.pid
    /\ mon' = [mon EXCEPT !.at = "stalled"]
    /\ UNCHANGED <<proc, logAge, wtab, worker, audit, errors, unknown>>

(* reset_stalled_tickets and clear_false_regressions read all tickets and    *)
(* then write those they chose, one request after the other, without a look  *)
(* at what the rows have become. A read that fails finds none.             *)
Stalled == {t \in WTicket : wtab[t].status \in Busy /\ wtab[t].age > TicketStall}

ListStalled ==
    /\ mon.at = "stalled"
    /\ \E found \in {Stalled, {}} : mon' = [mon EXCEPT !.at = "resetting", !.todo = found]
    /\ UNCHANGED <<proc, pidfile, logAge, wtab, worker, audit, errors, unknown>>

ResetStalled(t) ==
    /\ mon.at = "resetting" /\ t \in mon.todo
    /\ wtab' = [wtab EXCEPT ![t].status = "investigation_complete", ![t].age = 0]
    /\ mon' = [mon EXCEPT !.todo = @ \ {t}]
    /\ UNCHANGED <<proc, pidfile, logAge, worker, audit, errors, unknown>>

ListRegressions ==
    /\ mon.at = "resetting" /\ mon.todo = {}
    /\ \E found \in {{t \in WTicket : wtab[t].regressed}, {}} :
         mon' = [mon EXCEPT !.at = "clearing", !.todo = found]
    /\ UNCHANGED <<proc, pidfile, logAge, wtab, worker, audit, errors, unknown>>

(* Whatever its status, a false regression is RESOLVED.                      *)
ClearRegression(t) ==
    /\ mon.at = "clearing" /\ t \in mon.todo
    /\ wtab' = [wtab EXCEPT ![t] = [status |-> "resolved", age |-> 0, regressed |-> FALSE]]
    /\ mon' = [mon EXCEPT !.todo = @ \ {t}]
    /\ UNCHANGED <<proc, pidfile, logAge, worker, audit, errors, unknown>>

(* The log's tail and the number of young regressions decide on an audit.    *)
CountErrors ==
    /\ mon.at = "clearing" /\ mon.todo = {}
    /\ mon' = [mon EXCEPT !.at = IF errors THEN "audit" ELSE "idle"]
    /\ UNCHANGED <<proc, pidfile, logAge, wtab, worker, audit, errors, unknown>>

(* The lock file is touched before Claude is called; the call, its end and   *)
(* its failure change nothing here.                                          *)
InvokeClaude ==
    /\ mon.at = "audit"
    /\ audit' = IF audit >= AuditGap THEN 0 ELSE audit
    /\ mon' = [mon EXCEPT !.at = "idle"]
    /\ UNCHANGED <<proc, pidfile, logAge, wtab, worker, errors, unknown>>

MonitorKilled ==
    /\ MonitorDies /\ mon.at # "idle"
    /\ mon' = [mon EXCEPT !.at = "idle", !.todo = {}]
    /\ unknown' = IF mon.at = "record" THEN unknown \cup {mon.pid} ELSE unknown
    /\ UNCHANGED <<proc, pidfile, logAge, wtab, worker, audit, errors>>

Monitor ==
    \/ CheckDaemon \/ KillDaemon \/ (\E p \in Pid : StartDaemon(p)) \/ RecordPid
    \/ ListStalled \/ (\E t \in WTicket : ResetStalled(t))
    \/ ListRegressions \/ (\E t \in WTicket : ClearRegression(t))
    \/ CountErrors \/ InvokeClaude

WatchNext ==
    \/ Monitor \/ MonitorKilled \/ WatchTick
    \/ \E p \in Pid :
         \/ DaemonHangs(p) \/ DaemonDies(p) \/ PidReused(p) \/ StartedByOperator(p)
         \/ DaemonLogs(p) \/ \E t \in WTicket : DaemonTakes(p, t)
    \/ \E t \in WTicket : DaemonFinishes(t)

(* Cron goes on starting the monitor and time passes.                        *)
WatchFairness == WF_watchVars(Monitor) /\ WF_watchVars(WatchTick)

WatchSpec == WatchInit /\ [][WatchNext]_watchVars /\ WatchFairness

(* Two daemons would work on the same tickets. There is never a second one   *)
(* beside those nobody told the pid file of (an operator's, or one whose     *)
(* monitor was killed between the start and the note), though daemons hang   *)
(* and die and their ids are used again.                                     *)
OneDaemon == Cardinality(Daemons \ unknown) <= 1

(* Whenever the monitor has woken up a daemon runs in the end: one that died *)
(* or hangs is replaced, even when its process id has been given to another  *)
(* process, which the monitor takes for the daemon.                          *)
DaemonComesBack == (mon.at # "idle") ~> (\E p \in Pid : proc[p] = "daemon")
=============================================================================
