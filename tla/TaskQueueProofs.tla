-------------------------- MODULE TaskQueueProofs --------------------------
(***************************************************************************)
(* Proofs about the in-memory task queue, for every set of tasks, types    *)
(* and workers, every retry budget, lease length and clock skew.           *)
(***************************************************************************)
EXTENDS TaskQueue, FiniteSetTheorems, TLAPS

\* A claimed task has been counted as an attempt, so fail's exponent
\* attempts - 1 is never negative.
ClaimsAreCounted == \A t \in Task : status[t] = "claimed" => attempts[t] >= 1

\* The strengthening that is inductive: types, the heap bookkeeping, the
\* dead-letter bookkeeping, ownership, and the back-off of claimed tasks.
QueueInv ==
    /\ QueueTypeOK
    /\ OneEntryPerQueuedTask
    /\ DeadLetterExact
    /\ WaitingIsUnowned
    /\ ClaimedPastBackoff
    /\ ClaimsAreCounted

\* A back-off is a natural number of ticks (fail's exponential delay).
LEMMA BackoffNat == \A n \in 1..MaxRetries : Backoff(n) \in Nat
<1>1. SUFFICES ASSUME NEW n \in 1..MaxRetries PROVE Backoff(n) \in Nat
    OBVIOUS
<1>2. 2^(n - 1) \in Nat
    BY DoublingAssumption
<1>3. RetryDelay \in Nat
    BY QueueAssumption
<1> DEFINE k == 2^(n - 1)
<1>4. k \in Nat
    BY <1>2
<1> HIDE DEF k
<1>5. RetryDelay * k \in Nat
    BY <1>3, <1>4
<1> QED
    BY <1>5 DEF Backoff, k

\* The empty queue satisfies the invariant (InMemoryTaskQueue.__init__).
LEMMA QueueInitInv == QueueInit => QueueInv
<1> SUFFICES ASSUME QueueInit PROVE QueueInv
    OBVIOUS
<1>1. QueueTypeOK
    BY QueueAssumption DEF QueueInit, QueueTypeOK, TaskStatus, AgeCap, AttemptCap, LongPast
<1> QED
    BY <1>1 DEF QueueInit, QueueInv, OneEntryPerQueuedTask, DeadLetterExact,
                WaitingIsUnowned, ClaimedPastBackoff, ClaimsAreCounted

\* enqueue keeps the invariant.
LEMMA EnqueueInv == ASSUME QueueInv, NEW t \in Task, Enqueue(t)
                    PROVE  QueueInv'
<1> USE QueueAssumption DEF QueueInv
<1>1. Cardinality({u \in Task : status[u] # "absent"}) \in Nat
    BY FS_Subset, FS_CardinalityType
<1>2. QueueTypeOK'
    BY <1>1 DEF Enqueue, QueueTypeOK, TaskStatus
<1>3. OneEntryPerQueuedTask'
    BY DEF Enqueue, QueueTypeOK, OneEntryPerQueuedTask
<1>4. DeadLetterExact'
    BY DEF Enqueue, QueueTypeOK, DeadLetterExact
<1>5. WaitingIsUnowned'
    BY DEF Enqueue, QueueTypeOK, WaitingIsUnowned
<1>6. ClaimedPastBackoff'
    BY DEF Enqueue, QueueTypeOK, ClaimedPastBackoff
<1>7. ClaimsAreCounted'
    BY DEF Enqueue, QueueTypeOK, ClaimsAreCounted
<1> QED
    BY <1>2, <1>3, <1>4, <1>5, <1>6, <1>7

\* Both outcomes of claim keep the invariant: requeueing the expired leases
\* pushes exactly one entry for each, and handing out a task pops its only one.
LEMMA ClaimTaskInv == ASSUME QueueInv, NEW w \in Worker, NEW ty \in Type,
                             NEW d \in 0..Skew, NEW c \in Task,
                             ClaimTask(w, ty, d, c)
                      PROVE  QueueInv'
<1> USE QueueAssumption DEF QueueInv
<1> DEFINE S == Expired(ty, d)
<1>1. d \in Nat /\ d <= Skew /\ d <= AgeCap
    BY DEF AgeCap
<1>2. \A t \in S : status[t] = "claimed"
    BY DEF Expired
<1>3. Requeued(S)[c] = "queued" /\ Pushed(S)[c] = 1
    BY <1>2 DEF ClaimTask, Eligible, Requeued, Pushed, QueueTypeOK,
                OneEntryPerQueuedTask
<1>9. \A t \in Task : heap'[t] = IF t = c THEN 0
                                 ELSE IF Requeued(S)[t] # "queued" /\ HeapBefore(t, c)
                                      THEN 0 ELSE Pushed(S)[t]
    BY <1>3 DEF ClaimTask
<1>10. DOMAIN heap' = Task /\ heap' = [t \in Task |-> heap'[t]]
    BY DEF ClaimTask
<1>11. Pushed(S) \in [Task -> Nat]
    BY DEF Pushed, QueueTypeOK
<1>4. QueueTypeOK'
  <2>1. attempts' \in [Task -> 0..AttemptCap]
    BY DEF ClaimTask, QueueTypeOK, AttemptCap, Least
  <2>2. leaseAge' \in [Task -> 0..AgeCap]
    BY <1>1 DEF ClaimTask, QueueTypeOK, AgeCap
  <2>3. heap' \in [Task -> Nat]
    BY <1>9, <1>10, <1>11
  <2> QED
    BY <2>1, <2>2, <2>3 DEF ClaimTask, QueueTypeOK, TaskStatus, Requeued
<1>5. OneEntryPerQueuedTask'
  <2> SUFFICES ASSUME NEW t \in Task
               PROVE  heap'[t] = IF status'[t] = "queued" THEN 1 ELSE 0
    BY DEF OneEntryPerQueuedTask
  <2>1. CASE t = c
    BY <2>1, <1>9 DEF ClaimTask, Requeued
  <2>2. CASE t # c
    <3>1. status'[t] = Requeued(S)[t]
      BY <2>2 DEF ClaimTask, Requeued
    <3>2. Pushed(S)[t] = IF Requeued(S)[t] = "queued" THEN 1 ELSE 0
      BY <1>2 DEF Pushed, Requeued, OneEntryPerQueuedTask
    <3> QED
      BY <2>2, <3>1, <3>2, <1>9
  <2> QED
    BY <2>1, <2>2
<1>6. DeadLetterExact'
    BY <1>2, <1>3 DEF ClaimTask, QueueTypeOK, DeadLetterExact, Requeued
<1>7. WaitingIsUnowned'
    BY <1>2 DEF ClaimTask, QueueTypeOK, WaitingIsUnowned, Requeued
<1>8. ClaimedPastBackoff'
  <2> SUFFICES ASSUME NEW t \in Task, status'[t] = "claimed"
               PROVE  retryIn'[t] <= Greatest(0 - leaseAge'[t], LongPast)
    BY DEF ClaimedPastBackoff
  <2>1. CASE t = c
    <3>1. retryIn'[t] = retryIn[c] /\ leaseAge'[t] = d /\ retryIn[c] \in Int
      BY <2>1 DEF ClaimTask, QueueTypeOK
    <3>2. retryIn[c] + d <= 0
      BY DEF ClaimTask, Eligible
    <3> QED
      BY <3>1, <3>2, <1>1 DEF Greatest, LongPast
  <2>2. CASE t # c
    BY <2>2 DEF ClaimTask, QueueTypeOK, ClaimedPastBackoff, Requeued
  <2> QED
    BY <2>1, <2>2
<1>12. ClaimsAreCounted'
    BY DEF ClaimTask, QueueTypeOK, ClaimsAreCounted, Requeued, Least, AttemptCap
<1> QED
    BY <1>4, <1>5, <1>6, <1>7, <1>8, <1>12

\* So does a claim that finds nothing to hand out.
LEMMA ClaimNoneInv == ASSUME QueueInv, NEW ty \in Type, NEW d \in 0..Skew,
                             ClaimNone(ty, d)
                      PROVE  QueueInv'
<1> USE QueueAssumption DEF QueueInv
<1> DEFINE S == Expired(ty, d)
<1>1. \A t \in S : status[t] = "claimed"
    BY DEF Expired
<1>2. QueueTypeOK'
    BY DEF ClaimNone, QueueTypeOK, TaskStatus, Requeued, Pushed, AgeCap
<1>3. OneEntryPerQueuedTask'
    BY <1>1 DEF ClaimNone, QueueTypeOK, OneEntryPerQueuedTask, Requeued, Pushed
<1>4. DeadLetterExact'
    BY <1>1 DEF ClaimNone, QueueTypeOK, DeadLetterExact, Requeued
<1>5. WaitingIsUnowned'
    BY <1>1 DEF ClaimNone, QueueTypeOK, WaitingIsUnowned, Requeued
<1>6. ClaimedPastBackoff'
    BY DEF ClaimNone, QueueTypeOK, ClaimedPastBackoff, Requeued
<1>7. ClaimsAreCounted'
    BY DEF ClaimNone, QueueTypeOK, ClaimsAreCounted, Requeued
<1> QED
    BY <1>2, <1>3, <1>4, <1>5, <1>6, <1>7

\* A report closes or requeues exactly one claimed task.
LEMMA CompleteInv == ASSUME QueueInv, NEW t \in Task, Complete(t)
                     PROVE  QueueInv'
BY QueueAssumption DEF QueueInv, Complete, QueueTypeOK, TaskStatus,
   OneEntryPerQueuedTask, DeadLetterExact, WaitingIsUnowned, ClaimedPastBackoff,
   ClaimsAreCounted

\* A failed task goes back to the line once, without an owner.
LEMMA FailRetryInv == ASSUME QueueInv, NEW t \in Task, NEW d \in 0..Skew,
                             FailRetry(t, d)
                      PROVE  QueueInv'
<1> USE QueueAssumption DEF QueueInv
<1>1. attempts[t] \in 1..MaxRetries
    BY DEF FailRetry, QueueTypeOK, AttemptCap, ClaimsAreCounted
<1>2. Backoff(attempts[t]) \in Nat
    BY <1>1, BackoffNat
<1>3. Greatest(Backoff(attempts[t]) - d, LongPast) \in Int
    BY <1>2 DEF Greatest, LongPast
<1>4. QueueTypeOK'
    BY <1>3 DEF FailRetry, QueueTypeOK, TaskStatus, AgeCap
<1>5. \A u \in Task : status'[u] = IF u = t THEN "queued" ELSE status[u]
    BY DEF FailRetry, QueueTypeOK
<1>6. OneEntryPerQueuedTask'
    BY <1>5 DEF FailRetry, QueueTypeOK, OneEntryPerQueuedTask
<1>7. DeadLetterExact'
    BY <1>5 DEF FailRetry, DeadLetterExact
<1>8. WaitingIsUnowned' /\ ClaimedPastBackoff' /\ ClaimsAreCounted'
    BY <1>5 DEF FailRetry, QueueTypeOK, WaitingIsUnowned, ClaimedPastBackoff,
                ClaimsAreCounted
<1> QED
    BY <1>4, <1>6, <1>7, <1>8

\* Retries exhausted: the task enters the dead-letter list it was not yet in.
LEMMA FailDeadInv == ASSUME QueueInv, NEW t \in Task, FailDead(t)
                     PROVE  QueueInv'
<1> USE QueueAssumption DEF QueueInv
<1>1. QueueTypeOK'
    BY DEF FailDead, QueueTypeOK, TaskStatus
<1>2. /\ deadLetter' \in Seq(Task)
      /\ Len(deadLetter') = Len(deadLetter) + 1
      /\ \A i \in 1..Len(deadLetter) : deadLetter'[i] = deadLetter[i]
      /\ deadLetter'[Len(deadLetter) + 1] = t
      /\ Len(deadLetter) \in Nat
    BY DEF FailDead, QueueTypeOK
<1>3. \A i \in 1..Len(deadLetter) : deadLetter[i] # t
    BY DEF FailDead, DeadLetterExact
<1>4. \A u \in Task : status'[u] = IF u = t THEN "dead_letter" ELSE status[u]
    BY DEF FailDead, QueueTypeOK
<1>5. DeadLetterExact'
  <2>1. ASSUME NEW u \in Task
        PROVE  status'[u] = "dead_letter" <=>
                 \E i \in 1..Len(deadLetter') : deadLetter'[i] = u
    <3>1. CASE u = t
      BY <3>1, <1>2, <1>4
    <3>2. CASE u # t
      <4>1. status'[u] = "dead_letter" <=>
              \E i \in 1..Len(deadLetter) : deadLetter[i] = u
        BY <3>2, <1>4 DEF DeadLetterExact
      <4>2. (\E i \in 1..Len(deadLetter) : deadLetter[i] = u) <=>
              \E i \in 1..Len(deadLetter') : deadLetter'[i] = u
        <5>1. ASSUME NEW i \in 1..Len(deadLetter), deadLetter[i] = u
              PROVE  \E j \in 1..Len(deadLetter') : deadLetter'[j] = u
          <6>1. i \in 1..Len(deadLetter') /\ deadLetter'[i] = u
            BY <5>1, <1>2
          <6> QED
            BY <6>1
        <5>2. ASSUME NEW i \in 1..Len(deadLetter'), deadLetter'[i] = u
              PROVE  \E j \in 1..Len(deadLetter) : deadLetter[j] = u
          <6>1. i \in 1..Len(deadLetter)
            BY <5>2, <3>2, <1>2
          <6> QED
            BY <6>1, <5>2, <1>2
        <5> QED
          BY <5>1, <5>2
      <4> QED
        BY <4>1, <4>2
    <3> QED
      BY <3>1, <3>2
  <2>2. ASSUME NEW i \in 1..Len(deadLetter'), NEW j \in 1..Len(deadLetter'),
               deadLetter'[i] = deadLetter'[j]
        PROVE  i = j
    BY <2>2, <1>2, <1>3 DEF DeadLetterExact
  <2> QED
    BY <2>1, <2>2 DEF DeadLetterExact
<1>6. OneEntryPerQueuedTask'
    BY <1>4 DEF FailDead, OneEntryPerQueuedTask
<1>7. WaitingIsUnowned' /\ ClaimedPastBackoff' /\ ClaimsAreCounted'
    BY <1>4 DEF FailDead, WaitingIsUnowned, ClaimedPastBackoff, ClaimsAreCounted
<1> QED
    BY <1>1, <1>5, <1>6, <1>7

\* A heartbeat only moves the start of a lease that is past its back-off.
LEMMA HeartbeatInv == ASSUME QueueInv, NEW t \in Task, Heartbeat(t)
                      PROVE  QueueInv'
<1> USE QueueAssumption DEF QueueInv
<1>1. QueueTypeOK'
    BY DEF Heartbeat, QueueTypeOK, AgeCap
<1>2. /\ OneEntryPerQueuedTask' /\ DeadLetterExact'
      /\ WaitingIsUnowned' /\ ClaimsAreCounted'
    BY DEF Heartbeat, OneEntryPerQueuedTask, DeadLetterExact, WaitingIsUnowned,
           ClaimsAreCounted
<1>3. ClaimedPastBackoff'
    BY DEF Heartbeat, QueueTypeOK, ClaimedPastBackoff, Greatest, LongPast
<1> QED
    BY <1>1, <1>2, <1>3

\* Time moves leases and back-offs together, up to saturation.
LEMMA TickInv == ASSUME QueueInv, Tick PROVE QueueInv'
<1> USE QueueAssumption DEF QueueInv
<1>1. QueueTypeOK'
    BY DEF Tick, QueueTypeOK, AgeCap, LongPast, Least, Greatest
<1>2. /\ OneEntryPerQueuedTask' /\ DeadLetterExact'
      /\ WaitingIsUnowned' /\ ClaimsAreCounted'
    BY DEF Tick, OneEntryPerQueuedTask, DeadLetterExact, WaitingIsUnowned,
           ClaimsAreCounted
<1>3. ClaimedPastBackoff'
    BY DEF Tick, QueueTypeOK, ClaimedPastBackoff, Greatest, Least, LongPast, AgeCap
<1> QED
    BY <1>1, <1>2, <1>3

\* QueueInv is inductive.
LEMMA QueueNextInv == QueueInv /\ [QueueNext]_queueVars => QueueInv'
<1> SUFFICES ASSUME QueueInv, [QueueNext]_queueVars PROVE QueueInv'
    OBVIOUS
<1>1. ASSUME NEW t \in Task, Enqueue(t) PROVE QueueInv'
    BY <1>1, EnqueueInv
<1>2. ASSUME NEW w \in Worker, NEW ty \in Type, NEW d \in 0..Skew,
             NEW c \in Task, ClaimTask(w, ty, d, c)
      PROVE  QueueInv'
    BY <1>2, ClaimTaskInv
<1>3. ASSUME NEW ty \in Type, NEW d \in 0..Skew, ClaimNone(ty, d)
      PROVE  QueueInv'
    BY <1>3, ClaimNoneInv
<1>4. ASSUME NEW t \in Task, Complete(t) PROVE QueueInv'
    BY <1>4, CompleteInv
<1>5. ASSUME NEW t \in Task, NEW d \in 0..Skew, Fail(t, d) PROVE QueueInv'
    BY <1>5, FailRetryInv, FailDeadInv DEF Fail
<1>6. ASSUME NEW t \in Task, Heartbeat(t) PROVE QueueInv'
    BY <1>6, HeartbeatInv
<1>7. CASE Tick
    BY <1>7, TickInv
<1>8. CASE UNCHANGED queueVars
    BY <1>8 DEF queueVars, QueueInv, QueueTypeOK, OneEntryPerQueuedTask,
       DeadLetterExact, WaitingIsUnowned, ClaimedPastBackoff, ClaimsAreCounted
<1> QED
    BY <1>1, <1>2, <1>3, <1>4, <1>5, <1>6, <1>7, <1>8 DEF QueueNext

\* The invariant holds in every reachable state.
LEMMA QueueAlwaysInv == QueueSpec => []QueueInv
BY QueueInitInv, QueueNextInv, PTL DEF QueueSpec

\* Type correctness of the queue: no counter or timestamp leaves its range,
\* whatever the workers do.
THEOREM QueueTypeCorrect == QueueSpec => []QueueTypeOK
BY QueueAlwaysInv, PTL DEF QueueInv

\* No task is lost by, or twice in, the heap, for any number of tasks and
\* workers (memory.py: enqueue, claim, fail).
THEOREM NoTaskLost == QueueSpec => []OneEntryPerQueuedTask
BY QueueAlwaysInv, PTL DEF QueueInv

\* The dead-letter list is exact (memory.py: fail).
THEOREM DeadLetterCorrect == QueueSpec => []DeadLetterExact
BY QueueAlwaysInv, PTL DEF QueueInv

\* A task that waits has no owner and a claimed one has, whatever leases
\* lapse and reports arrive (memory.py claim, fail).
THEOREM WaitingCorrect == QueueSpec => []WaitingIsUnowned
BY QueueAlwaysInv, PTL DEF QueueInv

\* A claim that recovers an expired lease never comes back empty-handed
\* (memory.py: claim).
THEOREM RecoveryCorrect == QueueSpec => []RecoveryHandsOut
<1>1. QueueInv => RecoveryHandsOut
  <2> SUFFICES ASSUME QueueInv, NEW ty \in Type, NEW d \in 0..Skew,
                      NEW t \in Expired(ty, d)
               PROVE  t \in Eligible(ty, d, Expired(ty, d))
    BY DEF RecoveryHandsOut
  <2> USE QueueAssumption DEF QueueInv
  <2>1. t \in Task /\ status[t] = "claimed" /\ TypeOf[t] = ty /\ leaseAge[t] - d > Lease
    BY DEF Expired
  <2>2. Pushed(Expired(ty, d))[t] > 0 /\ Requeued(Expired(ty, d))[t] = "queued"
    BY <2>1 DEF Pushed, Requeued, QueueTypeOK
  <2>3. retryIn[t] <= Greatest(0 - leaseAge[t], LongPast)
    BY <2>1 DEF ClaimedPastBackoff
  <2>4. leaseAge[t] \in Nat /\ retryIn[t] \in Int
    BY <2>1 DEF QueueTypeOK, AgeCap
  <2>5. retryIn[t] + d <= 0
    BY <2>1, <2>3, <2>4 DEF Greatest, LongPast
  <2> QED
    BY <2>1, <2>2, <2>5 DEF Eligible
<1> QED
    BY <1>1, QueueAlwaysInv, PTL

\* A finished task is final under every step of every worker.
THEOREM FinishedStaysFinished == QueueSpec => FinishedIsFinal
<1>1. QueueInv /\ [QueueNext]_queueVars =>
        [\A t \in Task : status[t] \in {"completed", "dead_letter"}
                            => status'[t] = status[t]]_queueVars
  <2> SUFFICES ASSUME QueueInv, QueueNext, NEW t \in Task,
                      status[t] \in {"completed", "dead_letter"}
               PROVE  status'[t] = status[t]
    OBVIOUS
  <2> USE DEF QueueInv, QueueTypeOK
  <2>1. ASSUME NEW u \in Task, Enqueue(u) PROVE status'[t] = status[t]
    BY <2>1 DEF Enqueue
  <2>2. ASSUME NEW w \in Worker, NEW ty \in Type, NEW d \in 0..Skew,
               NEW c \in Task, ClaimTask(w, ty, d, c)
        PROVE  status'[t] = status[t]
    BY <2>2 DEF ClaimTask, Eligible, Expired, Requeued
  <2>3. ASSUME NEW ty \in Type, NEW d \in 0..Skew, ClaimNone(ty, d)
        PROVE  status'[t] = status[t]
    BY <2>3 DEF ClaimNone, Expired, Requeued
  <2>4. ASSUME NEW u \in Task, Complete(u) PROVE status'[t] = status[t]
    BY <2>4 DEF Complete
  <2>5. ASSUME NEW u \in Task, NEW d \in 0..Skew, Fail(u, d)
        PROVE  status'[t] = status[t]
    BY <2>5 DEF Fail, FailRetry, FailDead
  <2>6. ASSUME NEW u \in Task, Heartbeat(u) PROVE status'[t] = status[t]
    BY <2>6 DEF Heartbeat
  <2>7. CASE Tick
    BY <2>7 DEF Tick
  <2> QED
    BY <2>1, <2>2, <2>3, <2>4, <2>5, <2>6, <2>7 DEF QueueNext
<1> QED
    BY <1>1, QueueAlwaysInv, PTL DEF QueueSpec, FinishedIsFinal

\* The lease service's view of a step: the next values of its state and holder.
LEMMA LeaseView ==
    /\ [t \in Task |-> LeaseState(status[t])]'
          = [t \in Task |-> LeaseState(status'[t])]
    /\ [t \in Task |-> IF status[t] = "claimed" THEN claimedBy[t] ELSE NoWorker]'
          = [t \in Task |-> IF status'[t] = "claimed" THEN claimedBy'[t] ELSE NoWorker]
BY DEF LeaseState

\* A claim is a hand-out, with the leases that lapse on the way (memory.py: claim).
LEMMA ClaimTaskLeases == ASSUME QueueInv, NEW w \in Worker, NEW ty \in Type,
                                NEW d \in 0..Skew, NEW c \in Task, ClaimTask(w, ty, d, c)
                         PROVE  L!LeaseNext
<1>0. PICK S \in SUBSET Task : S = Expired(ty, d)
    BY DEF Expired
<1> USE DEF QueueInv, QueueTypeOK, TaskStatus
<1>1. \A u \in S : LeaseState(status[u]) = "held"
    BY <1>0 DEF Expired, LeaseState
<1>2. c \in S \/ LeaseState(status[c]) = "waiting"
    BY <1>0 DEF ClaimTask, Eligible, Requeued, LeaseState
<1>3. [t \in Task |-> LeaseState(status'[t])]
        = [u \in Task |-> IF u = c THEN "held"
                          ELSE IF u \in S THEN "waiting" ELSE LeaseState(status[u])]
    BY <1>0, <1>1 DEF ClaimTask, Requeued, LeaseState
<1>4. [t \in Task |-> IF status'[t] = "claimed" THEN claimedBy'[t] ELSE NoWorker]
        = [u \in Task |-> IF u = c THEN w
                          ELSE IF u \in S THEN NoWorker
                          ELSE IF status[u] = "claimed" THEN claimedBy[u] ELSE NoWorker]
    BY <1>0, <1>1 DEF ClaimTask, Requeued
<1>5. attempts' = [attempts EXCEPT ![c] = IF @ < MaxRetries + 1 THEN @ + 1 ELSE @]
  <2>1. attempts[c] \in 0..(MaxRetries + 1) /\ MaxRetries \in Nat
    BY QueueAssumption DEF AttemptCap
  <2>2. Least(attempts[c] + 1, MaxRetries + 1)
          = IF attempts[c] < MaxRetries + 1 THEN attempts[c] + 1 ELSE attempts[c]
    BY <2>1 DEF Least
  <2>3. attempts' = [attempts EXCEPT ![c] = Least(attempts[c] + 1, MaxRetries + 1)]
    BY DEF ClaimTask, AttemptCap
  <2> QED
    BY <2>2, <2>3
<1>6. L!HandOut(w, c, S)
    BY <1>1, <1>2, <1>3, <1>4, <1>5, LeaseView DEF L!HandOut
<1> QED
    BY <1>6, Zenon DEF L!LeaseNext

\* A claim that finds nothing only lets leases lapse.
LEMMA ClaimNoneLeases == ASSUME QueueInv, NEW ty \in Type, NEW d \in 0..Skew,
                                ClaimNone(ty, d)
                         PROVE  L!LeaseNext
<1>0. PICK S \in SUBSET Task : S = Expired(ty, d)
    BY DEF Expired
<1> USE DEF QueueInv, QueueTypeOK, TaskStatus
<1>1. \A u \in S : LeaseState(status[u]) = "held"
    BY <1>0 DEF Expired, LeaseState
<1>2. [t \in Task |-> LeaseState(status'[t])]
        = [u \in Task |-> IF u \in S THEN "waiting" ELSE LeaseState(status[u])]
    BY <1>0, <1>1 DEF ClaimNone, Requeued, LeaseState
<1>3. [t \in Task |-> IF status'[t] = "claimed" THEN claimedBy'[t] ELSE NoWorker]
        = [u \in Task |-> IF u \in S THEN NoWorker
                          ELSE IF status[u] = "claimed" THEN claimedBy[u] ELSE NoWorker]
    BY <1>0, <1>1 DEF ClaimNone, Requeued
<1>4. attempts' = attempts
    BY DEF ClaimNone
<1>5. L!Lapse(S)
    BY <1>1, <1>2, <1>3, <1>4, LeaseView DEF L!Lapse
<1> QED
    BY <1>5, Zenon DEF L!LeaseNext

\* complete and fail are reports about a held task (memory.py: complete, fail).
LEMMA ReportLeases == ASSUME QueueInv, NEW t \in Task, NEW d \in 0..Skew,
                             Complete(t) \/ Fail(t, d)
                      PROVE  L!LeaseNext
<1> USE DEF QueueInv, QueueTypeOK, TaskStatus
<1>1. status[t] = "claimed" /\ attempts' = attempts
    BY DEF Complete, Fail, FailRetry, FailDead
<1>2. [u \in Task |-> IF status'[u] = "claimed" THEN claimedBy'[u] ELSE NoWorker]
        = [[u \in Task |-> IF status[u] = "claimed" THEN claimedBy[u] ELSE NoWorker]
             EXCEPT ![t] = NoWorker]
    BY DEF Complete, Fail, FailRetry, FailDead
<1>3. ASSUME NEW s, status' = [status EXCEPT ![t] = s]
      PROVE  [u \in Task |-> LeaseState(status'[u])]
               = [[u \in Task |-> LeaseState(status[u])] EXCEPT ![t] = LeaseState(s)]
    BY <1>3
<1>4. L!Report(t)
  <2>1. CASE Complete(t)
    BY <2>1, <1>1, <1>2, <1>3, LeaseView DEF Complete, LeaseState, L!Report
  <2>2. CASE FailRetry(t, d)
    BY <2>2, <1>1, <1>2, <1>3, LeaseView DEF FailRetry, LeaseState, L!Report
  <2>3. CASE FailDead(t)
    BY <2>3, <1>1, <1>2, <1>3, LeaseView DEF FailDead, LeaseState, L!Report
  <2> QED
    BY <2>1, <2>2, <2>3 DEF Fail
<1> QED
    BY <1>4 DEF L!LeaseNext

\* The queue implements the lease service, for any number of tasks and workers
\* and however late clocks, heartbeats and reports are: a task moves only by
\* submission, hand-out, lapse and report, for one holder at a time.
THEOREM QueueImplementsLease == QueueSpec => ImplementsLease
<1>1. QueueInit => L!LeaseInit
    BY DEF QueueInit, L!LeaseInit, LeaseState
<1>2. QueueInv /\ [QueueNext]_queueVars => [L!LeaseNext]_(L!leaseVars)
  <2> SUFFICES ASSUME QueueInv, [QueueNext]_queueVars
               PROVE  L!LeaseNext \/ UNCHANGED L!leaseVars
    OBVIOUS
  <2>1. ASSUME NEW t \in Task, Enqueue(t) PROVE L!LeaseNext
    <3>1. L!Submitted(t)
      BY <2>1, LeaseView DEF QueueInv, QueueTypeOK, Enqueue, LeaseState, L!Submitted
    <3> QED
      BY <3>1 DEF L!LeaseNext
  <2>2. ASSUME NEW w \in Worker, NEW ty \in Type, NEW d \in 0..Skew,
               NEW c \in Task, ClaimTask(w, ty, d, c)
        PROVE  L!LeaseNext
    BY <2>2, ClaimTaskLeases
  <2>3. ASSUME NEW ty \in Type, NEW d \in 0..Skew, ClaimNone(ty, d)
        PROVE  L!LeaseNext
    BY <2>3, ClaimNoneLeases
  <2>4. ASSUME NEW t \in Task, NEW d \in 0..Skew, Complete(t) \/ Fail(t, d)
        PROVE  L!LeaseNext
    BY <2>4, ReportLeases
  <2>5. ASSUME UNCHANGED <<status, claimedBy, attempts>>
        PROVE  UNCHANGED L!leaseVars
    BY <2>5, LeaseView DEF L!leaseVars
  <2>6. ASSUME \/ \E t \in Task : Heartbeat(t)
               \/ Tick
               \/ UNCHANGED queueVars
        PROVE  UNCHANGED <<status, claimedBy, attempts>>
    BY <2>6 DEF Heartbeat, Tick, queueVars
  <2>7. 0 \in 0..Skew
    BY QueueAssumption
  <2> QED
    BY <2>1, <2>2, <2>3, <2>4, <2>5, <2>6, <2>7 DEF QueueNext
<1> QED
    BY <1>1, <1>2, QueueAlwaysInv, PTL DEF QueueSpec, ImplementsLease, L!LeaseSpec
=============================================================================
