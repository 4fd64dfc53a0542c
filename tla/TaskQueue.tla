----------------------------- MODULE TaskQueue -----------------------------
(***************************************************************************)
(* The in-memory task queue, src/swe_team/providers/task_queue/memory.py.  *)
(*                                                                         *)
(* Every public method of InMemoryTaskQueue runs under one lock, so each   *)
(* is one action.  The clock is the exception: claim and fail read         *)
(* time.time() BEFORE they take the lock, so both use a reading that may   *)
(* be up to Skew ticks old by the time it is applied.                      *)
(*                                                                         *)
(* Time is kept relative to the present, which makes the state finite:     *)
(*   leaseAge[t] = now - claimed_at,  retryIn[t] = next_retry_at - now.    *)
(* Both saturate where the code can no longer tell the values apart.       *)
(***************************************************************************)
EXTENDS Integers, Sequences, FiniteSets

CONSTANTS
    Task,        \* task ids; each is enqueued at most once (uuid4)
    Type,        \* task types: "investigate", "develop", ...
    Worker,      \* worker ids, as passed to claim
    NoWorker,    \* claimed_by = None
    TypeOf,      \* TypeOf[t]: task_type, fixed at enqueue
    PriorityOf,  \* PriorityOf[t]: priority, fixed at enqueue; lower is first
    MaxRetries,  \* QueuedTask.max_retries
    RetryDelay,  \* QueuedTask.retry_delay_seconds, in ticks
    Lease,       \* _LEASE_TIMEOUT_SECONDS, in ticks
    Skew         \* bound on the age of a clock reading taken before the lock

ASSUME QueueAssumption ==
    /\ IsFiniteSet(Task)
    /\ NoWorker \notin Worker
    /\ TypeOf \in [Task -> Type]
    /\ PriorityOf \in [Task -> Nat]
    /\ MaxRetries \in Nat \ {0}
    /\ RetryDelay \in Nat
    /\ Lease \in Nat
    /\ Skew \in Nat

VARIABLES
    status,      \* task.status; "absent" before enqueue
    claimedBy,   \* task.claimed_by
    attempts,    \* task.attempts, saturating at MaxRetries + 1
    leaseAge,    \* now - task.claimed_at; None is "long past"
    retryIn,     \* task.next_retry_at - now; None is "long past"
    created,     \* task.created_at, as the rank of the enqueue
    heap,        \* number of entries of each task in _heap
    deadLetter   \* _dead_letter, in insertion order

queueVars == <<status, claimedBy, attempts, leaseAge, retryIn, created,
               heap, deadLetter>>

TaskStatus == {"absent", "queued", "claimed", "completed", "dead_letter"}

\* attempts is only compared with max_retries: one past it stands for more.
AttemptCap == MaxRetries + 1

\* now - claimed_at is only compared with the lease, by a reading at most Skew
\* ticks old.
AgeCap == Lease + Skew + 1

\* Reading "next_retry_at is None" as the distant past.
LongPast == 0 - Skew

Least(a, b) == IF a <= b THEN a ELSE b
Greatest(a, b) == IF a >= b THEN a ELSE b

\* 30, 60, 120 s ...: retry_delay_seconds * 2 ** (attempts - 1).
Backoff(n) == RetryDelay * 2^(n - 1)

\* Doublings are natural numbers; the provers do not know exponentiation.
ASSUME DoublingAssumption == \A n \in 1..MaxRetries : 2^(n - 1) \in Nat

QueueTypeOK ==
    /\ status \in [Task -> TaskStatus]
    /\ claimedBy \in [Task -> Worker \cup {NoWorker}]
    /\ attempts \in [Task -> 0..AttemptCap]
    /\ leaseAge \in [Task -> 0..AgeCap]
    /\ retryIn \in [Task -> Int]
    /\ created \in [Task -> Nat]
    /\ heap \in [Task -> Nat]
    /\ deadLetter \in Seq(Task)

QueueInit ==
    /\ status = [t \in Task |-> "absent"]
    /\ claimedBy = [t \in Task |-> NoWorker]
    /\ attempts = [t \in Task |-> 0]
    /\ leaseAge = [t \in Task |-> AgeCap]
    /\ retryIn = [t \in Task |-> LongPast]
    /\ created = [t \in Task |-> 0]
    /\ heap = [t \in Task |-> 0]
    /\ deadLetter = <<>>

-----------------------------------------------------------------------------
\* enqueue: a fresh task in _tasks and one entry in _heap.
Enqueue(t) ==
    /\ status[t] = "absent"
    /\ status' = [status EXCEPT ![t] = "queued"]
    /\ created' = [created EXCEPT
                     ![t] = Cardinality({u \in Task : status[u] # "absent"})]
    /\ heap' = [heap EXCEPT ![t] = @ + 1]
    /\ UNCHANGED <<claimedBy, attempts, leaseAge, retryIn, deadLetter>>

\* Heap order: (priority, created_at, task_id).
HeapBefore(t, u) ==
    \/ PriorityOf[t] < PriorityOf[u]
    \/ PriorityOf[t] = PriorityOf[u] /\ created[t] < created[u]

\* Mutant: the lease is checked without looking at the status.
MutExpiredAnyStatus(ty, d) ==
    {t \in Task : TypeOf[t] = ty /\ leaseAge[t] - d > Lease}

\* Claimed tasks whose lease has run out, by a reading of the clock d ticks old.
Expired(ty, d) ==
    {t \in Task : /\ status[t] = "claimed"
                  /\ TypeOf[t] = ty
                  /\ leaseAge[t] - d > Lease}

\* Mutant: expired tasks are marked queued but not pushed on the heap.
MutPushedNothing(S) == [t \in Task |-> heap[t]]

\* status and heap after claim's first loop put the expired tasks back.
Requeued(S) == [t \in Task |-> IF t \in S THEN "queued" ELSE status[t]]
Pushed(S)   == [t \in Task |-> IF t \in S THEN heap[t] + 1 ELSE heap[t]]

\* What claim's second loop accepts: an entry of a queued task of the right
\* type whose back-off is over.
Eligible(ty, d, S) ==
    {t \in Task : /\ Pushed(S)[t] > 0
                  /\ Requeued(S)[t] = "queued"
                  /\ TypeOf[t] = ty
                  /\ retryIn[t] + d <= 0}

\* claim finds a task.  Entries popped on the way are pushed back (skipped)
\* unless their task is no longer queued, in which case they are dropped.
ClaimTask(w, ty, d, c) ==
    LET S == Expired(ty, d)
    IN  /\ c \in Eligible(ty, d, S)
        /\ \A u \in Eligible(ty, d, S) \ {c} : ~HeapBefore(u, c)
        /\ status' = [Requeued(S) EXCEPT ![c] = "claimed"]
        /\ heap' = [t \in Task |->
                      IF t = c THEN Pushed(S)[t] - 1
                      ELSE IF Requeued(S)[t] # "queued" /\ HeapBefore(t, c)
                           THEN 0 ELSE Pushed(S)[t]]
        /\ claimedBy' = [t \in Task |-> IF t = c THEN w
                                        ELSE IF t \in S THEN NoWorker
                                        ELSE claimedBy[t]]
        /\ leaseAge' = [t \in Task |-> IF t = c THEN d
                                       ELSE IF t \in S THEN AgeCap
                                       ELSE leaseAge[t]]
        /\ attempts' = [attempts EXCEPT ![c] = Least(@ + 1, AttemptCap)]
        /\ UNCHANGED <<retryIn, created, deadLetter>>

\* claim returns None: the whole heap was popped, so every stale entry is gone.
ClaimNone(ty, d) ==
    LET S == Expired(ty, d)
    IN  /\ Eligible(ty, d, S) = {}
        /\ status' = Requeued(S)
        /\ heap' = [t \in Task |-> IF Requeued(S)[t] # "queued" THEN 0
                                   ELSE Pushed(S)[t]]
        /\ claimedBy' = [t \in Task |-> IF t \in S THEN NoWorker
                                        ELSE claimedBy[t]]
        /\ leaseAge' = [t \in Task |-> IF t \in S THEN AgeCap ELSE leaseAge[t]]
        /\ UNCHANGED <<attempts, retryIn, created, deadLetter>>

\* complete: only the status is checked, never who holds the claim.
Complete(t) ==
    /\ status[t] = "claimed"
    /\ status' = [status EXCEPT ![t] = "completed"]
    /\ UNCHANGED <<claimedBy, attempts, leaseAge, retryIn, created, heap,
                   deadLetter>>

\* Mutant: the retry keeps the name of the worker that failed.
MutFailRetryKeepsOwner(t, d) ==
    /\ status[t] = "claimed"
    /\ attempts[t] < MaxRetries
    /\ status' = [status EXCEPT ![t] = "queued"]
    /\ leaseAge' = [leaseAge EXCEPT ![t] = AgeCap]
    /\ retryIn' = [retryIn EXCEPT ![t] = Greatest(Backoff(attempts[t]) - d,
                                                  LongPast)]
    /\ heap' = [heap EXCEPT ![t] = @ + 1]
    /\ UNCHANGED <<claimedBy, attempts, created, deadLetter>>

\* Mutant: the retry is scheduled but never pushed on the heap.
MutFailRetryNoPush(t, d) ==
    /\ status[t] = "claimed"
    /\ attempts[t] < MaxRetries
    /\ status' = [status EXCEPT ![t] = "queued"]
    /\ claimedBy' = [claimedBy EXCEPT ![t] = NoWorker]
    /\ leaseAge' = [leaseAge EXCEPT ![t] = AgeCap]
    /\ retryIn' = [retryIn EXCEPT ![t] = Greatest(Backoff(attempts[t]) - d,
                                                  LongPast)]
    /\ UNCHANGED <<attempts, created, heap, deadLetter>>

\* fail, with attempts left: back to the heap behind an exponential back-off.
FailRetry(t, d) ==
    /\ status[t] = "claimed"
    /\ attempts[t] < MaxRetries
    /\ status' = [status EXCEPT ![t] = "queued"]
    /\ claimedBy' = [claimedBy EXCEPT ![t] = NoWorker]
    /\ leaseAge' = [leaseAge EXCEPT ![t] = AgeCap]
    /\ retryIn' = [retryIn EXCEPT ![t] = Greatest(Backoff(attempts[t]) - d,
                                                  LongPast)]
    /\ heap' = [heap EXCEPT ![t] = @ + 1]
    /\ UNCHANGED <<attempts, created, deadLetter>>

\* Mutant: a second report about a task is not rejected.
MutFailDeadUnchecked(t) ==
    /\ status[t] # "absent"
    /\ attempts[t] >= MaxRetries
    /\ Len(deadLetter) < 3
    /\ status' = [status EXCEPT ![t] = "dead_letter"]
    /\ deadLetter' = Append(deadLetter, t)
    /\ UNCHANGED <<claimedBy, attempts, leaseAge, retryIn, created, heap>>

\* Mutant: the status QueuedTask documents as "failed" is used for exhausted
\* retries, which no reader of the queue knows.
MutFailDeadFailed(t) ==
    /\ status[t] = "claimed"
    /\ attempts[t] >= MaxRetries
    /\ status' = [status EXCEPT ![t] = "failed"]
    /\ deadLetter' = Append(deadLetter, t)
    /\ UNCHANGED <<claimedBy, attempts, leaseAge, retryIn, created, heap>>

\* fail, retries exhausted: dead letter.
FailDead(t) ==
    /\ status[t] = "claimed"
    /\ attempts[t] >= MaxRetries
    /\ status' = [status EXCEPT ![t] = "dead_letter"]
    /\ deadLetter' = Append(deadLetter, t)
    /\ UNCHANGED <<claimedBy, attempts, leaseAge, retryIn, created, heap>>

Fail(t, d) == FailRetry(t, d) \/ FailDead(t)

\* heartbeat: claimed_at = time.time(), read under the lock.
Heartbeat(t) ==
    /\ status[t] = "claimed"
    /\ leaseAge' = [leaseAge EXCEPT ![t] = 0]
    /\ UNCHANGED <<status, claimedBy, attempts, retryIn, created, heap,
                   deadLetter>>

\* The clock advances by one tick.
Tick ==
    /\ leaseAge' = [t \in Task |-> Least(leaseAge[t] + 1, AgeCap)]
    /\ retryIn' = [t \in Task |-> Greatest(retryIn[t] - 1, LongPast)]
    /\ UNCHANGED <<status, claimedBy, attempts, created, heap, deadLetter>>

QueueNext ==
    \/ \E t \in Task : Enqueue(t)
    \/ \E w \in Worker, ty \in Type, d \in 0..Skew, c \in Task :
          ClaimTask(w, ty, d, c)
    \/ \E ty \in Type, d \in 0..Skew : ClaimNone(ty, d)
    \/ \E t \in Task : Complete(t)
    \/ \E t \in Task, d \in 0..Skew : Fail(t, d)
    \/ \E t \in Task : Heartbeat(t)
    \/ Tick

QueueSpec == QueueInit /\ [][QueueNext]_queueVars

-----------------------------------------------------------------------------
\* No task is lost or handed out twice: the heap holds exactly one entry for
\* each queued task and none for any other.  The entries of claim's "stale heap
\* entry" branch can therefore never exist, and a queued task can always be
\* found.  (memory.py enqueue, claim and fail each push or pop by hand.)
OneEntryPerQueuedTask ==
    \A t \in Task : heap[t] = IF status[t] = "queued" THEN 1 ELSE 0

\* _dead_letter lists each dead task once, and nothing else: racing reports of
\* several workers about one task never enter it twice (memory.py fail).
DeadLetterExact ==
    /\ \A t \in Task : status[t] = "dead_letter" <=>
                          \E i \in 1..Len(deadLetter) : deadLetter[i] = t
    /\ \A i, j \in 1..Len(deadLetter) :
          deadLetter[i] = deadLetter[j] => i = j

\* A claim that recovers an expired lease always hands out a task: a task that
\* was claimed once is past its back-off for good, even for a clock reading
\* taken before the lock (memory.py claim, both loops).
RecoveryHandsOut ==
    \A ty \in Type, d \in 0..Skew :
        Expired(ty, d) # {} => Eligible(ty, d, Expired(ty, d)) # {}

\* The strengthening RecoveryHandsOut rests on: a claimed task became eligible
\* no later than its lease was last renewed (claim, fail, heartbeat).
ClaimedPastBackoff ==
    \A t \in Task : status[t] = "claimed" =>
        retryIn[t] <= Greatest(0 - leaseAge[t], LongPast)

\* claimed_by names a worker exactly while the task is claimed or was closed by
\* a report; a task waiting in the heap belongs to nobody.
WaitingIsUnowned ==
    \A t \in Task : /\ status[t] \in {"absent", "queued"} => claimedBy[t] = NoWorker
                    /\ status[t] = "claimed" => claimedBy[t] \in Worker

\* A finished task stays finished, whatever late heartbeat, report or claim of
\* another worker follows (memory.py complete, fail, heartbeat, claim).
FinishedIsFinal ==
    [][\A t \in Task : status[t] \in {"completed", "dead_letter"}
                           => status'[t] = status[t]]_queueVars

\* The queue as its clients see it: the heap, the clock and the back-off hidden.
LeaseState(s) ==
    CASE s = "absent" -> "new"
      [] s = "queued" -> "waiting"
      [] s = "claimed" -> "held"
      [] s = "completed" -> "done"
      [] OTHER -> "dead"

L == INSTANCE TaskLease WITH
        state  <- [t \in Task |-> LeaseState(status[t])],
        holder <- [t \in Task |-> IF status[t] = "claimed" THEN claimedBy[t]
                                  ELSE NoWorker],
        tries  <- attempts

\* Whatever its clients do and however late their heartbeats are, the queue
\* implements the lease service: hand-outs, lapses and reports are the only
\* ways a task moves, and it moves for one holder at a time.
ImplementsLease == L!LeaseSpec
=============================================================================
