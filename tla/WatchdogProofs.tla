--------------------------- MODULE WatchdogProofs ---------------------------
(***************************************************************************)
(* Why the monitor never makes a second daemon, for any process ids and    *)
(* any times after which it thinks one stalled: daemons hang and die,      *)
(* their ids come back as other processes, the monitor is killed, and      *)
(* operators start daemons of their own.  And why no alert is sent twice   *)
(* within its cooldown, by any number of senders.                          *)
(***************************************************************************)
EXTENDS Watchdog, FiniteSetTheorems, TLAPS

Places == {"idle", "kill", "start", "record", "stalled", "resetting",
           "regressions", "clearing", "errors", "audit"}

\* The daemons that the pid file had a chance to name.
Known == Daemons \ unknown

ProcessesAreTyped ==
    /\ proc \in [Pid -> {"none", "daemon", "stuck", "other", "alien"}]
    /\ mon \in [at : Places, pid : Pid \cup {0}, todo : SUBSET WTicket]
    /\ pidfile \in Pid \cup {0}

\* A known daemon is the one in the pid file, or the one just started; when
\* the monitor is about to start one there is none, and the process it is
\* about to kill is the one in the file.
KnownIsRecorded ==
    /\ mon.at = "start" => Known = {}
    /\ mon.at = "record" => Known \subseteq {mon.pid}
    /\ mon.at \notin {"start", "record"} => Known \subseteq {pidfile}
    /\ mon.at = "kill" => mon.pid = pidfile /\ pidfile \in Pid

WatchInv == ProcessesAreTyped /\ KnownIsRecorded

\* At boot there is no daemon and no pid file.
LEMMA WatchInitInv == WatchInit => WatchInv
BY DEF WatchInit, WatchInv, ProcessesAreTyped, KnownIsRecorded, Known, Daemons, Asleep, Places

\* Daemons that log, work, hang and die, process ids that are used again and
\* operators who start daemons keep the invariant.
LEMMA ProcessInv ==
    ASSUME WatchInv, NEW p \in Pid,
           DaemonHangs(p) \/ DaemonDies(p) \/ PidReused(p) \/ StartedByOperator(p)
    PROVE  WatchInv'
<1>1. ProcessesAreTyped'
    BY DEF WatchInv, ProcessesAreTyped, DaemonHangs, DaemonDies, PidReused, StartedByOperator
<1>2. Known' \subseteq Known
    BY DEF WatchInv, ProcessesAreTyped, DaemonHangs, DaemonDies, PidReused, StartedByOperator,
           Known, Daemons
<1>3. UNCHANGED <<mon, pidfile>>
    BY DEF DaemonHangs, DaemonDies, PidReused, StartedByOperator
<1> QED
    BY <1>1, <1>2, <1>3 DEF WatchInv, KnownIsRecorded

\* So does the monitor's check of pid file, process table and log.
LEMMA CheckDaemonInv == ASSUME WatchInv, CheckDaemon PROVE WatchInv'
<1>1. /\ mon'.pid = pidfile /\ mon.at = "idle"
      /\ mon'.at = IF ~PidAlive(pidfile) THEN "start"
                   ELSE IF logAge > LogStall THEN "kill" ELSE "stalled"
    BY DEF CheckDaemon, WatchInv, ProcessesAreTyped
<1>2. ProcessesAreTyped'
    BY DEF CheckDaemon, WatchInv, ProcessesAreTyped, Places
<1>3. ~PidAlive(pidfile) => Known = {}
    BY <1>1, WatchAssumption DEF WatchInv, ProcessesAreTyped, KnownIsRecorded, Known, Daemons, PidAlive
<1>4. PidAlive(pidfile) => pidfile \in Pid
    BY DEF PidAlive, WatchInv, ProcessesAreTyped
<1>5. Known' = Known /\ pidfile' = pidfile
    BY DEF CheckDaemon, Known, Daemons
<1>6. KnownIsRecorded'
    BY <1>1, <1>3, <1>4, <1>5 DEF WatchInv, KnownIsRecorded
<1> QED
    BY <1>2, <1>6 DEF WatchInv

\* The kill leaves no known daemon: whatever has the id of the pid file now
\* is gone or was none.
LEMMA KillDaemonInv == ASSUME WatchInv, KillDaemon PROVE WatchInv'
<1>1. mon.pid = pidfile /\ pidfile \in Pid /\ Known \subseteq {pidfile}
    BY DEF KillDaemon, WatchInv, KnownIsRecorded
<1>2. ProcessesAreTyped'
    BY <1>1 DEF KillDaemon, WatchInv, ProcessesAreTyped, Places
<1>3. proc'[pidfile] \in {"alien", "none"}
    BY <1>1 DEF KillDaemon, WatchInv, ProcessesAreTyped
<1>4. \A q \in Pid : q # pidfile => proc'[q] = proc[q]
    BY <1>1 DEF KillDaemon, WatchInv, ProcessesAreTyped
<1>5. Known' = {}
    BY <1>1, <1>3, <1>4 DEF KillDaemon, Known, Daemons
<1>6. mon'.at = "start"
    BY DEF KillDaemon, WatchInv, ProcessesAreTyped
<1> QED
    BY <1>2, <1>5, <1>6 DEF WatchInv, KnownIsRecorded

\* The start makes the first one, and the record names it.
LEMMA StartDaemonInv == ASSUME WatchInv, NEW p \in Pid, StartDaemon(p) PROVE WatchInv'
<1>1. ProcessesAreTyped'
    BY DEF StartDaemon, WatchInv, ProcessesAreTyped, Places
<1>2. mon'.at = "record" /\ mon'.pid = p
    BY DEF StartDaemon, WatchInv, ProcessesAreTyped
<1>3. Known' \subseteq {p}
    BY DEF StartDaemon, WatchInv, ProcessesAreTyped, KnownIsRecorded, Known, Daemons
<1> QED
    BY <1>1, <1>2, <1>3 DEF WatchInv, KnownIsRecorded

\* Writing the pid file.
LEMMA RecordPidInv == ASSUME WatchInv, RecordPid PROVE WatchInv'
<1>1. ProcessesAreTyped'
    BY DEF RecordPid, WatchInv, ProcessesAreTyped, Places
<1>2. mon'.at = "stalled" /\ Known' = Known /\ pidfile' = mon.pid /\ Known \subseteq {mon.pid}
    BY DEF RecordPid, WatchInv, ProcessesAreTyped, KnownIsRecorded, Known, Daemons
<1> QED
    BY <1>1, <1>2 DEF WatchInv, KnownIsRecorded

\* The rest of a monitor's run changes neither processes nor the pid file.
LEMMA RestInv ==
    ASSUME WatchInv, mon' \in [at : Places, pid : Pid \cup {0}, todo : SUBSET WTicket],
           mon.at \notin {"start", "record", "kill"}, mon'.at \notin {"start", "record", "kill"},
           UNCHANGED <<proc, pidfile, unknown>>
    PROVE  WatchInv'
BY DEF WatchInv, ProcessesAreTyped, KnownIsRecorded, Known, Daemons

\* A monitor that is killed leaves a daemon it had not recorded unknown.
LEMMA MonitorKilledInv == ASSUME WatchInv, MonitorKilled PROVE WatchInv'
<1>1. ProcessesAreTyped'
    BY DEF MonitorKilled, WatchInv, ProcessesAreTyped, Places
<1>2. mon'.at = "idle" /\ pidfile' = pidfile
    BY DEF MonitorKilled, WatchInv, ProcessesAreTyped
<1>3. Known' \subseteq {pidfile}
    BY DEF MonitorKilled, WatchInv, ProcessesAreTyped, KnownIsRecorded, Known, Daemons
<1> QED
    BY <1>1, <1>2, <1>3 DEF WatchInv, KnownIsRecorded

\* Every step of the monitor keeps the invariant.
LEMMA MonitorInv == ASSUME WatchInv, Monitor PROVE WatchInv'
<1> USE DEF WatchInv, ProcessesAreTyped, Places
<1>1. CASE CheckDaemon \/ KillDaemon \/ (\E p \in Pid : StartDaemon(p)) \/ RecordPid
    BY <1>1, CheckDaemonInv, KillDaemonInv, StartDaemonInv, RecordPidInv
<1>2. CASE ListStalled
  <2>1. PICK found \in SUBSET WTicket : mon' = [mon EXCEPT !.at = "resetting", !.todo = found]
    BY <1>2 DEF ListStalled, Stalled
  <2> QED
    BY <1>2, <2>1, RestInv DEF ListStalled
<1>3. CASE \E t \in WTicket : ResetStalled(t)
    BY <1>3, RestInv DEF ResetStalled
<1>4. CASE ListRegressions
  <2>1. PICK found \in SUBSET WTicket : mon' = [mon EXCEPT !.at = "clearing", !.todo = found]
    BY <1>4 DEF ListRegressions
  <2> QED
    BY <1>4, <2>1, RestInv DEF ListRegressions
<1>5. CASE \E t \in WTicket : ClearRegression(t)
    BY <1>5, RestInv DEF ClearRegression
<1>6. CASE CountErrors
    BY <1>6, RestInv DEF CountErrors
<1>7. CASE InvokeClaude
    BY <1>7, RestInv DEF InvokeClaude
<1> QED
    BY <1>1, <1>2, <1>3, <1>4, <1>5, <1>6, <1>7 DEF Monitor

\* Every step keeps it.
LEMMA WatchNextInv == WatchInv /\ [WatchNext]_watchVars => WatchInv'
<1> SUFFICES ASSUME WatchInv, [WatchNext]_watchVars PROVE WatchInv'
    OBVIOUS
<1>1. CASE Monitor
    BY <1>1, MonitorInv
<1>2. CASE MonitorKilled
    BY <1>2, MonitorKilledInv
<1>3. CASE \E p \in Pid : DaemonHangs(p) \/ DaemonDies(p) \/ PidReused(p) \/ StartedByOperator(p)
    BY <1>3, ProcessInv
<1>4. CASE UNCHANGED <<proc, pidfile, mon, unknown>>
    BY <1>4 DEF WatchInv, ProcessesAreTyped, KnownIsRecorded, Known, Daemons
<1>5. CASE WatchTick \/ UNCHANGED watchVars \/ (\E t \in WTicket : DaemonFinishes(t))
    BY <1>4, <1>5 DEF WatchTick, DaemonFinishes, watchVars
<1>6. CASE \E p \in Pid : DaemonLogs(p) \/ \E t \in WTicket : DaemonTakes(p, t)
    BY <1>4, <1>6 DEF DaemonLogs, DaemonTakes
<1> QED
    BY <1>1, <1>2, <1>3, <1>5, <1>6 DEF WatchNext

\* There is never a second daemon beside those that no pid file could name
\* (self_heal.py check_and_restart_daemon, _kill_daemon, _start_daemon).
THEOREM DaemonIsAlone == WatchSpec => []OneDaemon
<1>1. WatchInit => WatchInv
    BY WatchInitInv
<1>2. WatchInv /\ [WatchNext]_watchVars => WatchInv'
    BY WatchNextInv
<1>3. WatchInv => OneDaemon
  <2> SUFFICES ASSUME WatchInv PROVE Cardinality(Known) <= 1
    BY DEF OneDaemon, Known
  <2>1. PICK p \in Pid \cup {0} : Known \subseteq {p}
    BY DEF WatchInv, ProcessesAreTyped, KnownIsRecorded
  <2>2. IsFiniteSet({p}) /\ Cardinality({p}) = 1
    BY FS_Singleton
  <2>3. Cardinality(Known) <= Cardinality({p})
    BY <2>1, <2>2, FS_Subset
  <2> QED
    BY <2>2, <2>3
<1> QED
    BY <1>1, <1>2, <1>3, PTL DEF WatchSpec
-----------------------------------------------------------------------------
(* The alerts: why the chat shows no message twice within the cooldown, for  *)
(* any senders, messages, cooldown and number of messages a minute.          *)

Moves == [at : {"idle", "gateway", "docker", "direct", "api", "over"}, key : Alert \cup {""},
          failed : BOOLEAN, asked : BOOLEAN, late : BOOLEAN]

\* Sender s has been let through by the client's limiter and its message may
\* still turn up in the chat.
Pending(s) == sending[s].at \in {"docker", "api"}

AlertsAreTyped ==
    /\ since \in [Limiters -> [Alert -> 0..AlertCooldown]]
    /\ shown \in [Alert -> 0..AlertCooldown]
    /\ sending \in [Sender -> Moves]
    /\ \A s \in Sender : sending[s].at # "idle" => sending[s].key \in Alert

\* A message that may still turn up was let through in this minute or, when
\* its call is late, in the last one; the chat has not shown it lately.
PendingIsFresh ==
    \A s \in Sender : Pending(s) =>
        /\ since["telegram"][sending[s].key] <= IF sending[s].late THEN 1 ELSE 0
        /\ shown[sending[s].key] + 1 >= AlertCooldown

\* The chat shows a message at most a minute after the limiter let it through.
ShownWasLetThrough == \A k \in Alert : since["telegram"][k] <= shown[k] + 1

OnePendingPerKey ==
    \A s, r \in Sender : Pending(s) /\ Pending(r) /\ sending[s].key = sending[r].key => s = r

AlertInv == AlertsAreTyped /\ PendingIsFresh /\ ShownWasLetThrough /\ OnePendingPerKey /\ ~again

\* Nothing has been sent and the chat is empty.
LEMMA AlertInitInv == AlertInit => AlertInv
<1> SUFFICES ASSUME AlertInit PROVE AlertInv
    OBVIOUS
<1>1. PICK up \in 0..AlertCooldown : since = [l \in Limiters |-> [k \in Alert |-> up]]
    BY DEF AlertInit
<1>2. /\ AlertCooldown \in Nat /\ AlertCooldown \in 0..AlertCooldown
      /\ NoSending \in Moves /\ NoSending.at = "idle"
    BY AlertAssumption DEF NoSending, Moves
<1>3. sending = [s \in Sender |-> NoSending] /\ shown = [k \in Alert |-> AlertCooldown] /\ ~again
    BY DEF AlertInit
<1>4. AlertsAreTyped
    BY <1>1, <1>2, <1>3 DEF AlertsAreTyped
<1>5. PendingIsFresh /\ OnePendingPerKey
    BY <1>2, <1>3 DEF PendingIsFresh, OnePendingPerKey, Pending
<1>6. ShownWasLetThrough
    BY <1>1, <1>2, <1>3 DEF ShownWasLetThrough, Limiters
<1> QED
    BY <1>3, <1>4, <1>5, <1>6 DEF AlertInv

\* A sender's move that neither asks the client's limiter nor shows anything,
\* and after which its message is not pending.
LEMMA QuietMove ==
    ASSUME AlertInv, NEW s \in Sender, NEW m \in Moves,
           sending' = [sending EXCEPT ![s] = m],
           m.at \notin {"docker", "api"}, m.at # "idle" => m.key \in Alert,
           since' \in [Limiters -> [Alert -> 0..AlertCooldown]],
           since'["telegram"] = since["telegram"], UNCHANGED <<shown, again>>
    PROVE  AlertInv'
<1> USE DEF AlertInv, AlertsAreTyped
<1>1. /\ sending'[s] = m /\ \A r \in Sender : r # s => sending'[r] = sending[r]
      /\ sending' \in [Sender -> Moves]
    OBVIOUS
<1>2. AlertsAreTyped'
    BY <1>1
<1>3. \A r \in Sender : Pending(r)' => r # s /\ Pending(r) /\ sending'[r] = sending[r]
    BY <1>1 DEF Pending
<1>4. PendingIsFresh'
    BY <1>3 DEF PendingIsFresh
<1>5. OnePendingPerKey'
    BY <1>3 DEF OnePendingPerKey
<1>6. ShownWasLetThrough'
    BY DEF ShownWasLetThrough
<1> QED
    BY <1>2, <1>4, <1>5, <1>6

\* The client's limiter lets the message of s through: nobody else's message
\* of this key is pending, for then the limiter would have refused.
LEMMA PassMove ==
    ASSUME AlertInv, NEW s \in Sender, NEW m \in Moves,
           sending[s].at # "idle", ~Limited("telegram", sending[s].key),
           LetThrough("telegram", sending[s].key),
           sending' = [sending EXCEPT ![s] = m], m.key = sending[s].key,
           m.at \in {"docker", "api"}, UNCHANGED <<shown, again>>
    PROVE  AlertInv'
<1> USE DEF AlertInv, AlertsAreTyped
<1> DEFINE key == sending[s].key
<1>1. /\ sending'[s] = m /\ \A r \in Sender : r # s => sending'[r] = sending[r]
      /\ sending' \in [Sender -> Moves] /\ key \in Alert
    OBVIOUS
<1>2. AlertCooldown \in Nat /\ AlertCooldown >= 2
    BY AlertAssumption
<1>3. "telegram" \in Limiters /\ since["telegram"][key] >= AlertCooldown
    BY <1>1, <1>2 DEF Limited, Limiters
<1>4. /\ since' \in [Limiters -> [Alert -> 0..AlertCooldown]]
      /\ since'["telegram"][key] = 0
      /\ \A k \in Alert : k # key => since'["telegram"][k] = since["telegram"][k]
    BY <1>1, <1>2, <1>3 DEF LetThrough
<1>5. shown[key] + 1 >= AlertCooldown
    BY <1>1, <1>2, <1>3 DEF ShownWasLetThrough
<1>6. \A r \in Sender : Pending(r) => sending[r].key # key
    BY <1>1, <1>2, <1>3 DEF PendingIsFresh
<1>7. AlertsAreTyped'
    BY <1>1, <1>4
<1>8. \A r \in Sender : Pending(r)' => r = s \/ (r # s /\ Pending(r) /\ sending'[r] = sending[r])
    BY <1>1 DEF Pending
<1>9. PendingIsFresh'
  <2> SUFFICES ASSUME NEW r \in Sender, Pending(r)'
               PROVE  /\ since'["telegram"][sending'[r].key] <= IF sending'[r].late THEN 1 ELSE 0
                      /\ shown'[sending'[r].key] + 1 >= AlertCooldown
    BY DEF PendingIsFresh
  <2>1. CASE r = s
    BY <1>1, <1>4, <1>5, <2>1
  <2>2. CASE r # s
    <3>1. Pending(r) /\ sending'[r] = sending[r] /\ sending[r].key # key /\ sending[r].key \in Alert
      BY <1>6, <1>8, <2>2 DEF Pending
    <3> QED
      BY <1>4, <3>1 DEF PendingIsFresh
  <2> QED
    BY <2>1, <2>2
<1>10. OnePendingPerKey'
  <2> SUFFICES ASSUME NEW q \in Sender, NEW r \in Sender, Pending(q)', Pending(r)',
                      sending'[q].key = sending'[r].key
               PROVE  q = r
    BY DEF OnePendingPerKey
  <2>1. CASE q = s \/ r = s
    BY <1>1, <1>6, <1>8, <2>1
  <2>2. CASE q # s /\ r # s
    BY <1>8, <2>2 DEF OnePendingPerKey
  <2> QED
    BY <2>1, <2>2
<1>11. ShownWasLetThrough'
    BY <1>2, <1>4 DEF ShownWasLetThrough
<1> QED
    BY <1>7, <1>9, <1>10, <1>11

\* A pending message turns up in the chat, and its sender goes on.
LEMMA ShowMove ==
    ASSUME AlertInv, NEW s \in Sender, NEW m \in Moves, Pending(s), Show(sending[s].key),
           sending' = [sending EXCEPT ![s] = m], m.key = sending[s].key,
           m.at \notin {"docker", "api"}, UNCHANGED since
    PROVE  AlertInv'
<1> USE DEF AlertInv, AlertsAreTyped
<1> DEFINE key == sending[s].key
<1>1. /\ sending'[s] = m /\ \A r \in Sender : r # s => sending'[r] = sending[r]
      /\ sending' \in [Sender -> Moves] /\ key \in Alert
    BY DEF Pending
<1>2. AlertCooldown \in Nat /\ AlertCooldown >= 2
    BY AlertAssumption
<1>3. /\ shown' \in [Alert -> 0..AlertCooldown] /\ shown'[key] = 0
      /\ \A k \in Alert : k # key => shown'[k] = shown[k]
    BY <1>1, <1>2 DEF Show
<1>4. since["telegram"][key] <= 1 /\ shown[key] + 1 >= AlertCooldown
    BY <1>1 DEF PendingIsFresh, Limiters
<1>5. ~again'
  <2>1. ~(shown[key] < AlertCooldown - 1)
    BY <1>1, <1>2, <1>4
  <2>2. again' = (again \/ shown[key] < AlertCooldown - 1)
    BY DEF Show
  <2> QED
    BY <2>1, <2>2, Zenon
<1>6. \A r \in Sender : Pending(r)' =>
          r # s /\ Pending(r) /\ sending'[r] = sending[r] /\ sending[r].key # key
    BY <1>1 DEF Pending, OnePendingPerKey
<1>7. AlertsAreTyped'
    BY <1>1, <1>3
<1>8. PendingIsFresh'
    BY <1>3, <1>6 DEF PendingIsFresh, Pending
<1>9. OnePendingPerKey'
    BY <1>6 DEF OnePendingPerKey
<1>10. ShownWasLetThrough'
    BY <1>3, <1>4 DEF ShownWasLetThrough
<1> QED
    BY <1>5, <1>7, <1>8, <1>9, <1>10

\* A minute passes: a message that was pending is late now, and none was late
\* before, so it was let through in the minute that ends.
LEMMA MinuteInv == ASSUME AlertInv, Minute PROVE AlertInv'
<1> USE DEF AlertInv, AlertsAreTyped
<1>1. AlertCooldown \in Nat /\ AlertCooldown >= 2 /\ "telegram" \in Limiters
    BY AlertAssumption DEF Limiters
<1>2. /\ \A n \in 0..AlertCooldown : Older(n) \in 0..AlertCooldown /\ n <= Older(n) /\ Older(n) <= n + 1
      /\ \A n, m \in 0..AlertCooldown : n <= m + 1 => Older(n) <= Older(m) + 1
    BY <1>1 DEF Older
<1>3. /\ \A k \in Alert : since'["telegram"][k] = Older(since["telegram"][k])
      /\ \A k \in Alert : shown'[k] = Older(shown[k])
      /\ since' = [l \in Limiters |-> [k \in Alert |-> Older(since[l][k])]]
      /\ shown' = [k \in Alert |-> Older(shown[k])]
    BY <1>1 DEF Minute
<1>4. ASSUME NEW r \in Sender
      PROVE  /\ sending'[r] \in Moves
             /\ sending'[r].at = sending[r].at /\ sending'[r].key = sending[r].key
             /\ Pending(r) => ~sending[r].late /\ sending'[r].late
    BY DEF Minute, Moves, Pending
<1>5. sending' = [r \in Sender |-> sending'[r]]
    BY DEF Minute
<1>6. AlertsAreTyped'
    BY <1>2, <1>3, <1>4, <1>5
<1>7. \A r \in Sender : Pending(r)' = Pending(r)
    BY <1>4 DEF Pending
<1>8. PendingIsFresh'
  <2> SUFFICES ASSUME NEW r \in Sender, Pending(r)
               PROVE  /\ since'["telegram"][sending'[r].key] <= IF sending'[r].late THEN 1 ELSE 0
                      /\ shown'[sending'[r].key] + 1 >= AlertCooldown
    BY <1>7 DEF PendingIsFresh
  <2>1. sending[r].key \in Alert /\ ~sending[r].late /\ sending'[r].late /\ sending'[r].key = sending[r].key
    BY <1>4 DEF Pending
  <2>2. since["telegram"][sending[r].key] = 0 /\ shown[sending[r].key] + 1 >= AlertCooldown
    BY <1>1, <2>1 DEF PendingIsFresh
  <2> QED
    BY <1>1, <1>2, <1>3, <2>1, <2>2
<1>9. OnePendingPerKey'
    BY <1>4, <1>7 DEF OnePendingPerKey
<1>10. ShownWasLetThrough'
    BY <1>1, <1>2, <1>3 DEF ShownWasLetThrough
<1> QED
    BY <1>6, <1>8, <1>9, <1>10 DEF Minute

\* Every step of a sender keeps the invariant.
LEMMA SenderInv ==
    ASSUME AlertInv, NEW s \in Sender,
           \/ \E k \in Alert : Notify(s, k) \/ SendDirectly(s, k)
           \/ SendViaOpenclaw(s) \/ Delivered(s) \/ GatewayFails(s)
           \/ SendMessage(s) \/ ApiAnswers(s)
    PROVE  AlertInv'
<1> DEFINE At(p) == [sending[s] EXCEPT !.at = p]
<1>1. sending[s] \in Moves /\ sending \in [Sender -> Moves]
    BY DEF AlertInv, AlertsAreTyped
<1>2. /\ sending[s].at # "idle" => sending[s].key \in Alert
      /\ since \in [Limiters -> [Alert -> 0..AlertCooldown]]
    BY DEF AlertInv, AlertsAreTyped
<1>3. \A p \in {"docker", "direct", "api", "over"} :
          /\ At(p) \in Moves /\ At(p).at = p /\ At(p).key = sending[s].key
          /\ Goto(s, p) => sending' = [sending EXCEPT ![s] = At(p)]
    BY <1>1 DEF Moves, Goto
<1>4. CASE \E k \in Alert : Notify(s, k)
  <2>1. PICK k \in Alert : Notify(s, k)
    BY <1>4
  <2> DEFINE m == [NoSending EXCEPT !.at = "gateway", !.key = k]
  <2>2. m \in Moves /\ m.at = "gateway" /\ m.key = k
    BY DEF NoSending, Moves
  <2>3. /\ since' \in [Limiters -> [Alert -> 0..AlertCooldown]]
        /\ since'["telegram"] = since["telegram"]
    <3>1. 0 \in 0..AlertCooldown /\ {"notifier", "telegram"} = Limiters
      BY AlertAssumption DEF Limiters
    <3>2. since' = [since EXCEPT !["notifier"][k] = 0]
      BY <2>1 DEF Notify, LetThrough
    <3> QED
      BY <1>2, <3>1, <3>2
  <2>4. sending' = [sending EXCEPT ![s] = m] /\ UNCHANGED <<shown, again>>
    BY <2>1 DEF Notify
  <2> HIDE DEF m
  <2> QED
    BY <2>2, <2>3, <2>4, QuietMove
<1>5. CASE \E k \in Alert : SendDirectly(s, k)
  <2>1. PICK k \in Alert : SendDirectly(s, k)
    BY <1>5
  <2> DEFINE m == [NoSending EXCEPT !.at = "direct", !.key = k]
  <2>2. m \in Moves /\ m.at = "direct" /\ m.key = k
    BY DEF NoSending, Moves
  <2>3. sending' = [sending EXCEPT ![s] = m] /\ UNCHANGED <<since, shown, again>>
    BY <2>1 DEF SendDirectly
  <2> HIDE DEF m
  <2> QED
    BY <1>2, <2>2, <2>3, QuietMove
<1> HIDE DEF At
<1>6. CASE SendViaOpenclaw(s)
  <2>1. CASE Limited("telegram", sending[s].key)
    BY <1>2, <1>3, <1>6, <2>1, QuietMove DEF SendViaOpenclaw
  <2>2. CASE ~Limited("telegram", sending[s].key)
    BY <1>2, <1>3, <1>6, <2>2, PassMove DEF SendViaOpenclaw
  <2> QED
    BY <2>1, <2>2
<1>7. CASE Delivered(s)
    BY <1>2, <1>3, <1>7, ShowMove DEF Delivered, Pending
<1>8. CASE GatewayFails(s)
  <2> DEFINE m == [sending[s] EXCEPT !.at = "direct", !.failed = TRUE]
  <2>1. m \in Moves /\ m.at = "direct" /\ m.key = sending[s].key
    BY <1>1 DEF Moves
  <2>2. sending' = [sending EXCEPT ![s] = m] /\ sending[s].at = "docker" /\ UNCHANGED since
    BY <1>1, <1>8 DEF GatewayFails
  <2> HIDE DEF m
  <2>3. CASE Show(sending[s].key)
    BY <1>2, <2>1, <2>2, <2>3, ShowMove DEF Pending
  <2>4. CASE UNCHANGED <<shown, again>>
    BY <1>2, <2>1, <2>2, <2>4, QuietMove
  <2> QED
    BY <1>8, <2>3, <2>4 DEF GatewayFails
<1>9. CASE SendMessage(s)
  <2>1. CASE Limited("telegram", sending[s].key)
    BY <1>2, <1>3, <1>9, <2>1, QuietMove DEF SendMessage
  <2>2. CASE ~Limited("telegram", sending[s].key)
    <3> DEFINE m == [sending[s] EXCEPT !.at = "api", !.asked = TRUE]
    <3>1. m \in Moves /\ m.at = "api" /\ m.key = sending[s].key
      BY <1>1 DEF Moves
    <3>2. sending' = [sending EXCEPT ![s] = m] /\ sending[s].at = "direct"
      BY <1>1, <1>9, <2>2 DEF SendMessage
    <3> HIDE DEF m
    <3> QED
      BY <1>9, <2>2, <3>1, <3>2, PassMove DEF SendMessage
  <2> QED
    BY <2>1, <2>2
<1>10. CASE ApiAnswers(s)
  <2>1. CASE Show(sending[s].key)
    BY <1>2, <1>3, <1>10, <2>1, ShowMove DEF ApiAnswers, Pending
  <2>2. CASE UNCHANGED <<shown, again>>
    BY <1>2, <1>3, <1>10, <2>2, QuietMove DEF ApiAnswers
  <2> QED
    BY <1>10, <2>1, <2>2 DEF ApiAnswers
<1> QED
    BY <1>4, <1>5, <1>6, <1>7, <1>8, <1>9, <1>10

\* However the gateway fails, and although it may deliver what it reports as
\* failed, no message is shown twice within the cooldown less a minute
\* (notifier.py _send, _send_via_openclaw and telegram.py send_message).
THEOREM AlertsAreNotRepeated == AlertSpec => []NoAlertTwice
<1>1. AlertInit => AlertInv
    BY AlertInitInv
<1>2. AlertInv /\ [AlertNext]_alertVars => AlertInv'
  <2> SUFFICES ASSUME AlertInv, [AlertNext]_alertVars PROVE AlertInv'
    OBVIOUS
  <2>1. CASE Minute
    BY <2>1, MinuteInv
  <2>2. CASE UNCHANGED alertVars
    BY <2>2 DEF alertVars, AlertInv, AlertsAreTyped, PendingIsFresh, ShownWasLetThrough,
                OnePendingPerKey, Pending
  <2> QED
    BY <2>1, <2>2, SenderInv DEF AlertNext
<1>3. AlertInv => NoAlertTwice
    BY DEF AlertInv, NoAlertTwice
<1> QED
    BY <1>1, <1>2, <1>3, PTL DEF AlertSpec
=============================================================================
