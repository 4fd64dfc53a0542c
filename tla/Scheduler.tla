----------------------------- MODULE Scheduler -----------------------------
(***************************************************************************)
(* JobScheduler of scheduler.py: a tick thread, a thread pool that runs    *)
(* the jobs, and callers of the API, over a job store in a JSON file.      *)
(*                                                                         *)
(* Each read of the store gives copies.  The tick, a run and an API call   *)
(* each work on the copy they read, and upsert writes the whole copy back, *)
(* while the other threads go on.                                          *)
(***************************************************************************)
EXTENDS Naturals, FiniteSets

CONSTANTS
    SJob,        \* job ids
    JobKind,        \* schedule type of each job; a rare cron has no match in 48 h
    Priority,    \* priority of each job
    Run,         \* bound: runs in the pool at the same time
    PoolSize,    \* max_workers
    RunRetries,  \* max_retries of the jobs
    ByHand,      \* callers may trigger and delete jobs
    Prompt       \* queued runs start before the next tick (30 s)

ASSUME SchedAssumption ==
    /\ JobKind \in [SJob -> {"once", "interval", "cron", "rare"}]
    /\ Priority \in [SJob -> {"critical", "high", "normal", "low"}]
    /\ PoolSize \in Nat \ {0} /\ RunRetries \in Nat
    /\ {ByHand, Prompt} \subseteq BOOLEAN

VARIABLES
    jobs,     \* the file: a record per job, or Gone
    marked,   \* _running_jobs
    run,      \* runs in the pool with their copies
    tick,     \* copies that the tick thread still has to look at
    apiCall,     \* the API call in progress
    deleted   \* history: jobs that delete_job reported as deleted

schedVars == <<jobs, marked, run, tick, apiCall, deleted>>

Gone == [st |-> "gone", next |-> "none"]
NoRun == [j |-> "none", at |-> "free", copy |-> Gone, fails |-> 0]
NoApiCall == [op |-> "none", j |-> "none", copy |-> Gone, rest |-> <<>>]
JobRecord == [st : {"pending", "scheduled", "running", "completed", "failed", "paused",
                    "cancelled"},
              next : {"none", "past", "future"}]

SchedTypeOK ==
    /\ jobs \in [SJob -> JobRecord \cup {Gone}]
    /\ marked \subseteq SJob /\ deleted \subseteq SJob
    /\ run \in [Run -> [j : SJob \cup {"none"}, copy : JobRecord \cup {Gone}, fails : 0..RunRetries + 1,
                       at : {"free", "queued", "marked", "trying", "ended"}]]
    /\ DOMAIN tick \subseteq SJob /\ tick \in [DOMAIN tick -> JobRecord]
    /\ apiCall.op \in {"none", "pause", "resume", "cancel", "delete"}

SchedInit ==
    /\ jobs = [j \in SJob |-> Gone] /\ marked = {}
    /\ run = [r \in Run |-> NoRun]
    /\ tick = <<>> /\ apiCall = NoApiCall /\ deleted = {}

Present == {j \in SJob : jobs[j] # Gone}
Upserted(j, copy) == jobs' = [jobs EXCEPT ![j] = copy]

\* next_cron_match finds the next minute that matches, or raises after 48 h.
NextRun(j, c) ==
    IF JobKind[j] = "rare" THEN [c EXCEPT !.st = "pending"]
    ELSE [st |-> "scheduled", next |-> IF JobKind[j] = "once" THEN c.next ELSE "future"]

-----------------------------------------------------------------------------
AddJob(j) ==
    /\ jobs[j] = Gone /\ j \notin deleted
    /\ \A r \in Run : run[r].j # j
    /\ Upserted(j, NextRun(j, [st |-> "pending", next |-> "none"]))
    /\ UNCHANGED <<marked, run, tick, apiCall, deleted>>

\* pause_job, resume_job, cancel_job and delete_job read first,
CallReads(op, j) ==
    /\ apiCall.op = "none" /\ jobs[j] # Gone
    /\ op = "resume" => jobs[j].st = "paused"
    /\ op = "delete" => ByHand
    /\ apiCall' = [op |-> op, j |-> j, copy |-> jobs[j],
                rest |-> [i \in IF op = "delete" THEN Present \ {j} ELSE {} |-> jobs[i]]]
    /\ marked' = IF op = "delete" THEN marked \ {j} ELSE marked
    /\ UNCHANGED <<jobs, run, tick, deleted>>

StatusOf(op) == CASE op = "pause"  -> "paused"
                  [] op = "resume" -> "scheduled"
                  [] OTHER         -> "cancelled"

\* ... and then write: the one job, or, for delete_job, all that they read.
CallWrites ==
    /\ apiCall.op # "none"
    /\ IF apiCall.op = "delete"
       THEN /\ jobs' = [i \in SJob |-> IF i \in DOMAIN apiCall.rest THEN apiCall.rest[i] ELSE Gone]
            /\ deleted' = deleted \cup {apiCall.j}
       ELSE /\ Upserted(apiCall.j, [apiCall.copy EXCEPT !.st = StatusOf(apiCall.op)])
            /\ UNCHANGED deleted
    /\ apiCall' = NoApiCall
    /\ UNCHANGED <<marked, run, tick>>

SubmitRun(r, j, copy) ==
    /\ run[r].at = "free"
    /\ run' = [run EXCEPT ![r] = [j |-> j, at |-> "queued", copy |-> copy, fails |-> 0]]

TriggerJob(r, j) ==
    /\ ByHand /\ jobs[j] # Gone
    /\ SubmitRun(r, j, jobs[j])
    /\ UNCHANGED <<jobs, marked, tick, apiCall, deleted>>

-----------------------------------------------------------------------------
\* _tick loads all jobs,
TickLoads ==
    /\ DOMAIN tick = {} /\ Present # {}
    /\ Prompt => \A r \in Run : run[r].at # "queued"
    /\ tick' = [j \in Present |-> jobs[j]]
    /\ UNCHANGED <<jobs, marked, run, apiCall, deleted>>

\* Mutant: only the status tells whether a job runs.
MutShouldRun(j, copy, peak, quota) ==
    /\ copy.st \in {"scheduled", "pending"}
    /\ copy.next # "future"
    /\ peak => Priority[j] \in {"critical", "high"}
    /\ quota # "exhausted"
    /\ Priority[j] = "low" => quota # "scarce"

\* should_run: the copy is scheduled and due, the job is not marked, it may run in
\* peak hours, and the quota suffices.
ShouldRun(j, copy, peak, quota) ==
    /\ copy.st \in {"scheduled", "pending"}
    /\ j \notin marked
    /\ copy.next # "future"
    /\ peak => Priority[j] \in {"critical", "high"}
    /\ quota # "exhausted"
    /\ Priority[j] = "low" => quota # "scarce"

\* ... and looks at one after the other.
TickLooks(j, peak, quota) ==
    /\ j \in DOMAIN tick
    /\ tick' = [i \in DOMAIN tick \ {j} |-> tick[i]]
    /\ IF ShouldRun(j, tick[j], peak, quota)
       THEN \E r \in Run : SubmitRun(r, j, tick[j])
       ELSE UNCHANGED run
    /\ UNCHANGED <<jobs, marked, apiCall, deleted>>

Passed(c) == IF c.next = "future" THEN [c EXCEPT !.next = "past"] ELSE c

\* The next_run of a job comes.
ClockMoves(j) ==
    /\ jobs[j].next = "future"
    /\ Upserted(j, Passed(jobs[j]))
    /\ tick' = [i \in DOMAIN tick |-> IF i = j THEN Passed(tick[i]) ELSE tick[i]]
    /\ run' = [r \in Run |-> IF run[r].j = j THEN [run[r] EXCEPT !.copy = Passed(@)] ELSE run[r]]
    /\ apiCall' = IF apiCall.j = j THEN [apiCall EXCEPT !.copy = Passed(@)] ELSE apiCall
    /\ UNCHANGED <<marked, deleted>>

-----------------------------------------------------------------------------
Proceeds(r, at, copy) ==
    run' = [run EXCEPT ![r] = [j |-> run[r].j, at |-> at, copy |-> copy, fails |-> run[r].fails]]

\* _execute_job marks the job,
RunMarks(r) ==
    /\ run[r].at = "queued"
    /\ Cardinality({i \in Run : run[i].at \in {"marked", "trying", "ended"}}) < PoolSize
    /\ marked' = marked \cup {run[r].j}
    /\ Proceeds(r, "marked", [run[r].copy EXCEPT !.st = "running"])
    /\ UNCHANGED <<jobs, tick, apiCall, deleted>>

\* ... saves it as running,
RunSaves(r) ==
    /\ run[r].at = "marked"
    /\ Upserted(run[r].j, run[r].copy)
    /\ Proceeds(r, "trying", run[r].copy)
    /\ UNCHANGED <<marked, tick, apiCall, deleted>>

\* ... tries at most max_retries + 1 times,
RunFails(r) ==
    /\ run[r].at = "trying" /\ run[r].fails <= RunRetries
    /\ run' = [run EXCEPT ![r].fails = @ + 1]
    /\ UNCHANGED <<jobs, marked, tick, apiCall, deleted>>

\* _advance_schedule after a success; a failed job is not scheduled again.
Advanced(j, c) ==
    CASE JobKind[j] = "once" -> [st |-> "completed", next |-> "none"]
      [] JobKind[j] = "rare" -> [c EXCEPT !.st = "pending"]
      [] OTHER            -> [st |-> "scheduled", next |-> "future"]

\* ... saves the outcome in its copy,
JobRunEnds(r, ok) ==
    /\ run[r].at = "trying"
    /\ IF ok THEN run[r].fails <= RunRetries ELSE run[r].fails = RunRetries + 1
    /\ LET c == IF ok THEN Advanced(run[r].j, run[r].copy)
                ELSE [run[r].copy EXCEPT !.st = "failed"]
       IN  /\ Proceeds(r, "ended", c)
           /\ Upserted(run[r].j, c)
    /\ UNCHANGED <<marked, tick, apiCall, deleted>>

\* ... and removes the mark.
RunUnmarks(r) ==
    /\ run[r].at = "ended"
    /\ marked' = marked \ {run[r].j}
    /\ run' = [run EXCEPT ![r] = NoRun]
    /\ UNCHANGED <<jobs, tick, apiCall, deleted>>

Pooled(r) ==
    \/ RunMarks(r) \/ RunSaves(r) \/ RunFails(r) \/ RunUnmarks(r)
    \/ \E ok \in BOOLEAN : JobRunEnds(r, ok)

SchedNext ==
    \/ \E j \in SJob : AddJob(j) \/ ClockMoves(j)
    \/ \E j \in SJob, op \in {"pause", "resume", "cancel", "delete"} : CallReads(op, j)
    \/ CallWrites
    \/ \E r \in Run, j \in SJob : TriggerJob(r, j)
    \/ TickLoads
    \/ \E j \in SJob, peak \in BOOLEAN, quota \in {"exhausted", "scarce", "ample"} :
          TickLooks(j, peak, quota)
    \/ \E r \in Run : Pooled(r)

SchedSpec == SchedInit /\ [][SchedNext]_schedVars

-----------------------------------------------------------------------------
\* Pausing and resuming a job while it runs makes its status SCHEDULED, and the run
\* goes on.  The marks (Fix #9) still keep a tick from starting a second run, as long
\* as nobody triggers or deletes jobs and runs do not wait in the pool.
NoOverlap ==
    \A r, q \in Run :
        (r # q /\ run[r].j = run[q].j) => run[r].at \notin {"marked", "trying"}
                                          \/ run[q].at \notin {"marked", "trying"}
=============================================================================
