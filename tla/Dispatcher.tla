----------------------------- MODULE Dispatcher -----------------------------
(***************************************************************************)
(* QueuedDispatcher (src/swe_team/queued_dispatcher.py) on top of the      *)
(* queue: each dispatcher claims a batch, runs it, reports every result    *)
(* and keeps the claims alive with heartbeat threads in between.           *)
(*                                                                         *)
(* dispatch_one is dispatch_parallel with a batch of one that runs in the  *)
(* caller, so it has no timeout and no pool that could refuse the work.    *)
(***************************************************************************)
EXTENDS TaskQueue

CONSTANTS
    MaxTasks,      \* max_tasks of dispatch_parallel
    Timely,        \* heartbeat threads run at least once per lease
    SubmitMayRaise \* the pool's submit may raise RuntimeError

ASSUME DispatcherAssumption ==
    /\ MaxTasks \in Nat \ {0}
    /\ Timely \in BOOLEAN
    /\ SubmitMayRaise \in BOOLEAN

VARIABLES
    pc,       \* where the dispatcher's call stands
    call,     \* the call in progress: <<kind, task_type>>
    batch,    \* claimed: the tasks of this call, in claim order
    pos,      \* loop index of the submit and of the collect loop
    future,   \* what became of each submitted task
    beat,     \* _active_heartbeats and the thread behind each entry
    orphan    \* tasks with a thread whose stop event was overwritten

dispVars == <<pc, call, batch, pos, future, beat, orphan>>
dispatchVars == <<queueVars, dispVars>>

Kind == {"one", "parallel"}
Limit(k) == IF k = "one" THEN 1 ELSE MaxTasks

DispatcherTypeOK ==
    /\ QueueTypeOK
    /\ pc \in [Worker -> {"idle", "claiming", "submitting", "collecting",
                          "stopping", "aborting"}]
    /\ call \in [Worker -> Kind \X Type]
    /\ batch \in [Worker -> Seq(Task)]
    /\ pos \in [Worker -> Nat]
    /\ future \in [Worker -> Seq({"running", "success", "failure"})]
    /\ beat \in [Worker -> [Task -> {"none", "live", "dead"}]]
    /\ orphan \in SUBSET Task
    /\ \A w \in Worker : pc[w] \in {"collecting", "stopping"} =>
          /\ pos[w] \in 1..Len(batch[w])
          /\ Len(future[w]) = Len(batch[w])

DispatcherInit ==
    /\ QueueInit
    /\ pc = [w \in Worker |-> "idle"]
    /\ call \in [Worker -> {<<"one", ty>> : ty \in {CHOOSE ty \in Type : TRUE}}]
    /\ batch = [w \in Worker |-> <<>>]
    /\ pos = [w \in Worker |-> 1]
    /\ future = [w \in Worker |-> <<>>]
    /\ beat = [w \in Worker |-> [t \in Task |-> "none"]]
    /\ orphan = {}

-----------------------------------------------------------------------------
\* enqueue_investigation, enqueue_development: the priority comes from the
\* ticket's severity (PriorityOf).
EnqueueTicket(t) == Enqueue(t) /\ UNCHANGED dispVars

\* dispatch_one or dispatch_parallel is called.
Call(w, k, ty) ==
    /\ pc[w] = "idle"
    /\ pc' = [pc EXCEPT ![w] = "claiming"]
    /\ call' = [call EXCEPT ![w] = <<k, ty>>]
    /\ batch' = [batch EXCEPT ![w] = <<>>]
    /\ pos' = [pos EXCEPT ![w] = 1]
    /\ future' = [future EXCEPT ![w] = <<>>]
    /\ UNCHANGED <<queueVars, beat, orphan>>

\* One round of the claim loop that gets a task.
ClaimNext(w, d, t) ==
    LET full == Len(batch[w]) + 1 = Limit(call[w][1])
    IN  /\ pc[w] = "claiming"
        /\ ClaimTask(w, call[w][2], d, t)
        /\ batch' = [batch EXCEPT ![w] = Append(@, t)]
        /\ pc' = [pc EXCEPT ![w] = IF full THEN "submitting" ELSE "claiming"]
        /\ UNCHANGED <<call, pos, future, beat, orphan>>

\* The queue is empty: the claim loop ends, and with it an empty call.
ClaimStops(w, d) ==
    /\ pc[w] = "claiming"
    /\ ClaimNone(call[w][2], d)
    /\ pc' = [pc EXCEPT ![w] = IF batch[w] = <<>> THEN "idle" ELSE "submitting"]
    /\ UNCHANGED <<call, batch, pos, future, beat, orphan>>

\* _start_heartbeat: the new thread takes the task's entry; the event of a
\* thread that was registered before can no longer be set.
StartHeartbeat(w, t) ==
    /\ beat' = [beat EXCEPT ![w][t] = "live"]
    /\ orphan' = IF beat[w][t] = "live" THEN orphan \cup {t} ELSE orphan

\* Mutant: the heartbeat is left to the worker and never started.
MutSubmit(w) ==
    LET i == pos[w]
    IN  /\ pc[w] = "submitting"
        /\ future' = [future EXCEPT ![w] = Append(@, "running")]
        /\ pc' = [pc EXCEPT ![w] = IF i = Len(batch[w]) THEN "collecting" ELSE @]
        /\ pos' = [pos EXCEPT ![w] = IF i = Len(batch[w]) THEN 1 ELSE i + 1]
        /\ UNCHANGED <<queueVars, call, batch, beat, orphan>>

\* One round of the submit loop: heartbeat first, then the pool (or, in
\* dispatch_one, the call of worker_fn).
Submit(w) ==
    LET i == pos[w]
    IN  /\ pc[w] = "submitting"
        /\ StartHeartbeat(w, batch[w][i])
        /\ future' = [future EXCEPT ![w] = Append(@, "running")]
        /\ pc' = [pc EXCEPT ![w] = IF i = Len(batch[w]) THEN "collecting" ELSE @]
        /\ pos' = [pos EXCEPT ![w] = IF i = Len(batch[w]) THEN 1 ELSE i + 1]
        /\ UNCHANGED <<queueVars, call, batch>>

\* submit raises RuntimeError (no thread can be started, or the pool was shut
\* down): the call is abandoned with its heartbeats registered and running.
SubmitRaises(w) ==
    /\ SubmitMayRaise
    /\ call[w][1] = "parallel"
    /\ pc[w] = "submitting"
    /\ StartHeartbeat(w, batch[w][pos[w]])
    /\ pc' = [pc EXCEPT ![w] = "idle"]
    /\ UNCHANGED <<queueVars, call, batch, pos, future>>

\* _run ends: worker_fn returned true, or it returned false, raised, or the
\* ticket was not found.
RunEnds(w, i, outcome) ==
    /\ pc[w] \in {"submitting", "collecting", "stopping"}
    /\ i \in 1..Len(future[w])
    /\ future[w][i] = "running"
    /\ future' = [future EXCEPT ![w][i] = outcome]
    /\ UNCHANGED <<queueVars, pc, call, batch, pos, beat, orphan>>

\* Mutant: without the finally clause the next round follows at once.
MutReported(w) ==
    LET last == pos[w] = Len(batch[w])
    IN  /\ pc' = [pc EXCEPT ![w] = IF last THEN "idle" ELSE @]
        /\ pos' = [pos EXCEPT ![w] = IF last THEN @ ELSE @ + 1]
        /\ UNCHANGED <<call, batch, future, beat, orphan>>

\* The report went through; the finally clause is next.
Reported(w) ==
    /\ pc' = [pc EXCEPT ![w] = "stopping"]
    /\ UNCHANGED <<call, batch, pos, future, beat, orphan>>

\* One round of the collect loop: complete on success.
ReportSuccess(w) ==
    /\ pc[w] = "collecting"
    /\ future[w][pos[w]] = "success"
    /\ Complete(batch[w][pos[w]])
    /\ Reported(w)

\* ... fail on failure, and when the future does not deliver in timeout_s.  The
\* worker of a timed out future is not stopped: it only lost its listener.
ReportFailure(w, d) ==
    /\ pc[w] = "collecting"
    /\ \/ future[w][pos[w]] = "failure"
       \/ future[w][pos[w]] = "running" /\ call[w][1] = "parallel"
    /\ Fail(batch[w][pos[w]], d)
    /\ Reported(w)

\* The queue refuses the report (the task is not claimed any more): complete
\* raises, so does fail in the except clause, and the call is abandoned.
ReportRefused(w) ==
    /\ pc[w] = "collecting"
    /\ future[w][pos[w]] # "running" \/ call[w][1] = "parallel"
    /\ status[batch[w][pos[w]]] # "claimed"
    /\ pc' = [pc EXCEPT ![w] = "aborting"]
    /\ UNCHANGED <<queueVars, call, batch, pos, future, beat, orphan>>

\* _stop_heartbeat in the finally clause, and the end of the round.
StopHeartbeat(w) ==
    LET last == pc[w] = "aborting" \/ pos[w] = Len(batch[w])
    IN  /\ pc[w] \in {"stopping", "aborting"}
        /\ beat' = [beat EXCEPT ![w][batch[w][pos[w]]] = "none"]
        /\ pc' = [pc EXCEPT ![w] = IF last THEN "idle" ELSE "collecting"]
        /\ pos' = [pos EXCEPT ![w] = IF last THEN @ ELSE @ + 1]
        /\ UNCHANGED <<queueVars, call, batch, future, orphan>>

\* One round of _heartbeat_loop; the thread ends when the queue raises.
HeartbeatRound(w, t) ==
    /\ beat[w][t] = "live"
    /\ \/ /\ Heartbeat(t)
          /\ UNCHANGED beat
       \/ /\ status[t] # "claimed"
          /\ beat' = [beat EXCEPT ![w][t] = "dead"]
          /\ UNCHANGED queueVars
    /\ UNCHANGED <<pc, call, batch, pos, future, orphan>>

\* The same for a thread whose event was overwritten.
OrphanRound(t) ==
    /\ t \in orphan
    /\ \/ /\ Heartbeat(t)
          /\ UNCHANGED orphan
       \/ /\ status[t] # "claimed"
          /\ orphan' = orphan \ {t}
          /\ UNCHANGED queueVars
    /\ UNCHANGED <<pc, call, batch, pos, future, beat>>

\* Tasks whose lease a thread of some dispatcher is about to renew, and those
\* claimed a moment ago by a loop that has not reached them yet.
Tended ==
    {t \in Task : \/ t \in orphan
                  \/ \E w \in Worker :
                       \/ beat[w][t] = "live"
                       \/ /\ pc[w] \in {"claiming", "submitting"}
                          /\ \E i \in pos[w]..Len(batch[w]) : batch[w][i] = t}

\* Time passes.  With Timely, never so much between two rounds of a heartbeat
\* thread that a lease runs out (45 s interval, 90 s lease).
TimePasses ==
    /\ Timely => \A t \in Tended : status[t] = "claimed" => leaseAge[t] < Lease
    /\ Tick
    /\ UNCHANGED dispVars

WorkerStep(w) ==
    \/ \E d \in 0..Skew, t \in Task : ClaimNext(w, d, t)
    \/ \E d \in 0..Skew : ClaimStops(w, d)
    \/ Submit(w)
    \/ SubmitRaises(w)
    \/ ReportSuccess(w)
    \/ \E d \in 0..Skew : ReportFailure(w, d)
    \/ ReportRefused(w)
    \/ StopHeartbeat(w)

DispatcherNext ==
    \/ \E t \in Task : EnqueueTicket(t)
    \/ \E w \in Worker, k \in Kind, ty \in Type : Call(w, k, ty)
    \/ \E w \in Worker : WorkerStep(w)
    \/ \E w \in Worker, i \in 1..MaxTasks, o \in {"success", "failure"} :
          RunEnds(w, i, o)
    \/ \E w \in Worker, t \in Task : HeartbeatRound(w, t)
    \/ \E t \in Task : OrphanRound(t)
    \/ TimePasses

DispatcherSpec == DispatcherInit /\ [][DispatcherNext]_dispatchVars

\* The runner calls dispatch_parallel in every cycle; a session ends or is
\* killed by its own timeout; threads and the clock go on.
DispatcherFairness ==
    /\ \A w \in Worker :
         /\ WF_dispatchVars(\E k \in Kind, ty \in Type : Call(w, k, ty))
         /\ WF_dispatchVars(WorkerStep(w))
         /\ \A i \in 1..MaxTasks :
               WF_dispatchVars(\E o \in {"success", "failure"} : RunEnds(w, i, o))
         /\ \A t \in Task : WF_dispatchVars(HeartbeatRound(w, t))
    /\ WF_dispatchVars(TimePasses)

DispatcherFairSpec == DispatcherSpec /\ DispatcherFairness

-----------------------------------------------------------------------------
\* The entries of a call that are still to be reported.
Open(w) ==
    IF pc[w] \in {"claiming", "submitting"} THEN 1..Len(batch[w])
    ELSE IF pc[w] = "collecting" THEN pos[w]..Len(batch[w])
    ELSE IF pc[w] = "stopping" THEN (pos[w] + 1)..Len(batch[w])
    ELSE {}

\* As long as heartbeats are timely, whoever works on a task holds its claim
\* until the report, and holds it alone: no lease is lost, no task is worked
\* on by two live calls, and no report is refused (dispatch_parallel claims,
\* submits and collects in three separate loops).
WorkIsHeld ==
    \A w \in Worker : \A i \in Open(w) :
        /\ status[batch[w][i]] = "claimed"
        /\ claimedBy[batch[w][i]] = w
        /\ \A j \in Open(w) : batch[w][i] = batch[w][j] => i = j

\* Every heartbeat thread is stopped when its call ends: nothing renews the
\* claim of a task nobody works on (_stop_heartbeat in the finally clauses).
NoHeartbeatLeft ==
    \A w \in Worker : pc[w] = "idle" => \A t \in Task : beat[w][t] = "none"

\* Every task that was enqueued is eventually completed or dead-lettered: a
\* report follows each claim, and a retry each failure.
EveryTaskFinishes ==
    \A t \in Task :
        status[t] = "queued" ~> status[t] \in {"completed", "dead_letter"}
=============================================================================
