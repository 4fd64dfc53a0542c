----------------------------- MODULE TaskLease -----------------------------
(***************************************************************************)
(* What a task queue promises (TaskQueueProvider, providers/task_queue/    *)
(* base.py), without heap, clock or back-off: a task is held by at most    *)
(* one worker at a time, leaves the holder's hands only by a report or by  *)
(* the loss of its lease, and is given up only after MaxRetries tries.     *)
(***************************************************************************)
EXTENDS Naturals

CONSTANTS Task, Worker, NoWorker, MaxRetries

VARIABLES
    state,    \* "new", "waiting", "held", "done" or "dead"
    holder,   \* who holds a held task
    tries     \* hand-outs so far, saturating at MaxRetries + 1

leaseVars == <<state, holder, tries>>

LeaseInit ==
    /\ state = [t \in Task |-> "new"]
    /\ holder = [t \in Task |-> NoWorker]
    /\ tries = [t \in Task |-> 0]

\* A producer submits a task.
Submitted(t) ==
    /\ state[t] = "new"
    /\ state' = [state EXCEPT ![t] = "waiting"]
    /\ UNCHANGED <<holder, tries>>

\* The leases of L lapse while a worker asks for a task.
Lapse(L) ==
    /\ \A t \in L : state[t] = "held"
    /\ state' = [t \in Task |-> IF t \in L THEN "waiting" ELSE state[t]]
    /\ holder' = [t \in Task |-> IF t \in L THEN NoWorker ELSE holder[t]]
    /\ UNCHANGED tries

\* ... and the worker gets t, which was waiting or has just lapsed.
HandOut(w, t, L) ==
    /\ \A u \in L : state[u] = "held"
    /\ t \in L \/ state[t] = "waiting"
    /\ state' = [u \in Task |-> IF u = t THEN "held"
                                ELSE IF u \in L THEN "waiting" ELSE state[u]]
    /\ holder' = [u \in Task |-> IF u = t THEN w
                                 ELSE IF u \in L THEN NoWorker ELSE holder[u]]
    /\ tries' = [tries EXCEPT ![t] = IF @ < MaxRetries + 1 THEN @ + 1 ELSE @]

\* A report ends the work on t: done, back in line, or given up.
Report(t) ==
    /\ state[t] = "held"
    /\ \/ state' = [state EXCEPT ![t] = "done"]
       \/ tries[t] < MaxRetries /\ state' = [state EXCEPT ![t] = "waiting"]
       \/ tries[t] >= MaxRetries /\ state' = [state EXCEPT ![t] = "dead"]
    /\ holder' = [holder EXCEPT ![t] = NoWorker]
    /\ UNCHANGED tries

LeaseNext ==
    \/ \E t \in Task : Submitted(t) \/ Report(t)
    \/ \E L \in SUBSET Task : Lapse(L)
    \/ \E L \in SUBSET Task, w \in Worker, t \in Task : HandOut(w, t, L)

LeaseSpec == LeaseInit /\ [][LeaseNext]_leaseVars
=============================================================================
