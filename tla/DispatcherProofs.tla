-------------------------- MODULE DispatcherProofs --------------------------
(***************************************************************************)
(* Proofs about the dispatchers on top of the queue, for every number of   *)
(* tasks, dispatchers and tasks per batch.                                 *)
(***************************************************************************)
EXTENDS Dispatcher, TaskQueueProofs

\* Where a call can stand.
Place == {"idle", "claiming", "submitting", "collecting", "stopping", "aborting"}

\* The types of a call in progress; the loop index points at a task of the
\* batch in every loop over it.
CallTyped(w) ==
    /\ pc[w] \in Place
    /\ batch[w] \in Seq(Task)
    /\ pc[w] # "idle" => call[w][2] \in Type
    /\ pc[w] = "claiming" => pos[w] = 1
    /\ pc[w] \in {"submitting", "collecting", "stopping", "aborting"}
          => pos[w] \in 1..Len(batch[w])

\* What the queue needs from its clients: that they pass it tasks and types.
CallsTyped ==
    /\ pc \in [Worker -> Place]
    /\ call = [w \in Worker |-> call[w]]
    /\ batch \in [Worker -> Seq(Task)] /\ pos \in [Worker -> Nat]
    /\ \A w \in Worker : CallTyped(w)

\* The entries of a call with a heartbeat thread.
Alive(w) ==
    IF pc[w] = "submitting" THEN 1..(pos[w] - 1)
    ELSE IF pc[w] \in {"collecting", "stopping"} THEN pos[w]..Len(batch[w])
    ELSE {}

\* An open entry is claimed by its dispatcher, under a lease that is not over,
\* and has a thread that renews it unless the submit loop has not come to it.
EntryHeld(w, i) ==
    /\ status[batch[w][i]] = "claimed"
    /\ claimedBy[batch[w][i]] = w
    /\ leaseAge[batch[w][i]] <= Lease
    /\ beat[w][batch[w][i]] # "live"
          => pc[w] \in {"claiming", "submitting"} /\ pos[w] <= i

\* A call: no report was refused, no task is in the batch twice, its open
\* entries are held, and each thread belongs to an entry of the batch.
CallHeld(w) ==
    /\ pc[w] # "aborting"
    /\ pc[w] # "idle" => \A i, j \in 1..Len(batch[w]) : batch[w][i] = batch[w][j] => i = j
    /\ \A i \in Open(w) : EntryHeld(w, i)
    /\ \A t \in Task : beat[w][t] # "none" => \E i \in Alive(w) : batch[w][i] = t

\* The strengthening of WorkIsHeld and NoHeartbeatLeft that is inductive.
HeldInv ==
    /\ beat \in [Worker -> [Task -> {"none", "live", "dead"}]]
    /\ \A w \in Worker : CallHeld(w)

\* No call has started yet.
LEMMA CallsTypedInit == DispatcherInit => QueueInit /\ CallsTyped
    BY DEF DispatcherInit, CallsTyped, CallTyped, Place

\* A step of one dispatcher leaves the calls of the others alone.
LEMMA OneCallMoves ==
    ASSUME CallsTyped, NEW w \in Worker, NEW p, NEW c, NEW b, NEW n,
           pc' = [pc EXCEPT ![w] = p], call' = [call EXCEPT ![w] = c],
           batch' = [batch EXCEPT ![w] = b], pos' = [pos EXCEPT ![w] = n],
           p \in Place, b \in Seq(Task), n \in Nat, p # "idle" => c[2] \in Type,
           p = "claiming" => n = 1,
           p \in {"submitting", "collecting", "stopping", "aborting"} => n \in 1..Len(b)
    PROVE  CallsTyped'
<1>1. /\ pc' \in [Worker -> Place]
      /\ call' = [u \in Worker |-> call'[u]]
      /\ batch' \in [Worker -> Seq(Task)] /\ pos' \in [Worker -> Nat]
    BY DEF CallsTyped
<1>2. ASSUME NEW u \in Worker PROVE CallTyped(u)'
  <2>1. CASE u = w
    BY <2>1 DEF CallsTyped, CallTyped
  <2>2. CASE u # w
    <3>1. pc'[u] = pc[u] /\ call'[u] = call[u] /\ batch'[u] = batch[u] /\ pos'[u] = pos[u]
      BY <2>2 DEF CallsTyped
    <3> QED
      BY <3>1 DEF CallsTyped, CallTyped
  <2> QED
    BY <2>1, <2>2
<1> QED
    BY <1>1, <1>2 DEF CallsTyped

\* Every step of a dispatcher keeps its call well typed and is a step of the
\* queue, or leaves the queue alone.
LEMMA WorkerStepTyped ==
    ASSUME CallsTyped, NEW w \in Worker, WorkerStep(w)
    PROVE  CallsTyped' /\ [QueueNext]_queueVars
<1>0. /\ pc \in [Worker -> Place] /\ CallTyped(w)
      /\ call = [u \in Worker |-> call[u]]
      /\ batch \in [Worker -> Seq(Task)] /\ pos \in [Worker -> Nat]
    BY DEF CallsTyped
<1> DEFINE b == batch[w]
           n == pos[w]
           c == call[w]
<1>1. /\ b \in Seq(Task) /\ Len(b) \in Nat /\ n \in Nat
      /\ pc[w] \in {"submitting", "collecting", "stopping", "aborting"}
            => n \in 1..Len(b) /\ b[n] \in Task /\ c[2] \in Type
      /\ pc[w] = "claiming" => c[2] \in Type /\ n = 1
    BY <1>0 DEF CallTyped
<1>2. /\ call = [call EXCEPT ![w] = c] /\ batch = [batch EXCEPT ![w] = b]
      /\ pos = [pos EXCEPT ![w] = n]
    BY <1>0
<1>3. ASSUME NEW d \in 0..Skew, NEW t \in Task, ClaimNext(w, d, t)
      PROVE  CallsTyped' /\ [QueueNext]_queueVars
  <2> DEFINE p == IF Len(b) + 1 = Limit(c[1]) THEN "submitting" ELSE "claiming"
  <2>1. /\ Append(b, t) \in Seq(Task) /\ Len(Append(b, t)) = Len(b) + 1
        /\ p \in {"submitting", "claiming"} /\ n = 1 /\ c[2] \in Type
        /\ n \in 1..Len(Append(b, t))
    BY <1>1, <1>3 DEF ClaimNext
  <2>2. /\ pc' = [pc EXCEPT ![w] = p] /\ batch' = [batch EXCEPT ![w] = Append(b, t)]
        /\ call' = [call EXCEPT ![w] = c] /\ pos' = [pos EXCEPT ![w] = n]
    BY <1>2, <1>3 DEF ClaimNext
  <2>3. QueueNext
    BY <1>1, <1>3 DEF ClaimNext, QueueNext
  <2> HIDE DEF p, b, n, c
  <2>4. CallsTyped'
    BY <1>1, <2>1, <2>2, OneCallMoves DEF Place
  <2> QED
    BY <2>3, <2>4
<1>4. ASSUME NEW d \in 0..Skew, ClaimStops(w, d)
      PROVE  CallsTyped' /\ [QueueNext]_queueVars
  <2> DEFINE p == IF b = <<>> THEN "idle" ELSE "submitting"
  <2>1. pc[w] = "claiming" /\ QueueNext
    BY <1>1, <1>4 DEF ClaimStops, QueueNext
  <2>2. p \in {"idle", "submitting"} /\ (p = "submitting" => n \in 1..Len(b))
    BY <1>1, <2>1
  <2>3. /\ pc' = [pc EXCEPT ![w] = p] /\ batch' = [batch EXCEPT ![w] = b]
        /\ call' = [call EXCEPT ![w] = c] /\ pos' = [pos EXCEPT ![w] = n]
    BY <1>2, <1>4 DEF ClaimStops
  <2> HIDE DEF p, b, n, c
  <2>4. CallsTyped'
    BY <1>1, <2>1, <2>2, <2>3, OneCallMoves DEF Place
  <2> QED
    BY <2>1, <2>4
<1>5. CASE Submit(w)
  <2> DEFINE p == IF n = Len(b) THEN "collecting" ELSE pc[w]
             m == IF n = Len(b) THEN 1 ELSE n + 1
  <2>1. pc[w] = "submitting" /\ UNCHANGED queueVars
    BY <1>5 DEF Submit
  <2>2. p \in {"submitting", "collecting"} /\ m \in 1..Len(b) /\ m \in Nat
    BY <1>1, <2>1
  <2>3. /\ pc' = [pc EXCEPT ![w] = p] /\ batch' = [batch EXCEPT ![w] = b]
        /\ call' = [call EXCEPT ![w] = c] /\ pos' = [pos EXCEPT ![w] = m]
    BY <1>2, <1>5 DEF Submit
  <2> HIDE DEF p, b, n, c, m
  <2>4. CallsTyped'
    BY <1>1, <2>1, <2>2, <2>3, OneCallMoves DEF Place
  <2> QED
    BY <2>1, <2>4
<1>6. CASE SubmitRaises(w)
  <2>1. /\ pc' = [pc EXCEPT ![w] = "idle"] /\ batch' = [batch EXCEPT ![w] = b]
        /\ call' = [call EXCEPT ![w] = c] /\ pos' = [pos EXCEPT ![w] = n]
        /\ UNCHANGED queueVars
    BY <1>2, <1>6 DEF SubmitRaises
  <2> HIDE DEF b, n, c
  <2> QED
    BY <1>1, <2>1, OneCallMoves DEF Place
<1>7. CASE \/ ReportSuccess(w) \/ ReportRefused(w)
           \/ \E d \in 0..Skew : ReportFailure(w, d)
  <2>1. /\ pc' = [pc EXCEPT ![w] = "stopping"] \/ pc' = [pc EXCEPT ![w] = "aborting"]
        /\ pc[w] = "collecting"
        /\ batch' = [batch EXCEPT ![w] = b]
        /\ call' = [call EXCEPT ![w] = c] /\ pos' = [pos EXCEPT ![w] = n]
    BY <1>2, <1>7 DEF ReportSuccess, ReportRefused, ReportFailure, Reported
  <2>2. [QueueNext]_queueVars
    BY <1>1, <1>7 DEF ReportSuccess, ReportRefused, ReportFailure, QueueNext
  <2> HIDE DEF b, n, c
  <2>3. CallsTyped'
    BY <1>1, <2>1, OneCallMoves DEF Place
  <2> QED
    BY <2>2, <2>3
<1>8. CASE StopHeartbeat(w)
  <2> DEFINE last == pc[w] = "aborting" \/ n = Len(b)
             p == IF last THEN "idle" ELSE "collecting"
             m == IF last THEN n ELSE n + 1
  <2>1. pc[w] \in {"stopping", "aborting"} /\ UNCHANGED queueVars
    BY <1>8 DEF StopHeartbeat
  <2>2. p \in {"idle", "collecting"} /\ m \in Nat /\ (p = "collecting" => m \in 1..Len(b))
    BY <1>1, <2>1
  <2>3. /\ pc' = [pc EXCEPT ![w] = p] /\ batch' = [batch EXCEPT ![w] = b]
        /\ call' = [call EXCEPT ![w] = c] /\ pos' = [pos EXCEPT ![w] = m]
    BY <1>2, <1>8 DEF StopHeartbeat
  <2> HIDE DEF p, b, n, c, m
  <2>4. CallsTyped'
    BY <1>1, <2>1, <2>2, <2>3, OneCallMoves DEF Place
  <2> QED
    BY <2>1, <2>4
<1> QED
    BY <1>3, <1>4, <1>5, <1>6, <1>7, <1>8 DEF WorkerStep

\* So does every other step: new tasks, new calls, results, heartbeats, time.
LEMMA DispatcherStepTyped ==
    CallsTyped /\ [DispatcherNext]_dispatchVars => CallsTyped' /\ [QueueNext]_queueVars
<1> SUFFICES ASSUME CallsTyped, [DispatcherNext]_dispatchVars
             PROVE  CallsTyped' /\ [QueueNext]_queueVars
    OBVIOUS
<1>1. ASSUME UNCHANGED <<pc, call, batch, pos>> PROVE CallsTyped'
    BY <1>1 DEF CallsTyped, CallTyped
<1>2. ASSUME NEW t \in Task, EnqueueTicket(t) PROVE CallsTyped' /\ QueueNext
    BY <1>1, <1>2 DEF EnqueueTicket, dispVars, QueueNext
<1>3. ASSUME NEW w \in Worker, NEW k \in Kind, NEW ty \in Type, Call(w, k, ty)
      PROVE  CallsTyped' /\ UNCHANGED queueVars
  <2>1. <<k, ty>>[2] = ty /\ <<>> \in Seq(Task)
    OBVIOUS
  <2> QED
    BY <1>3, <2>1, OneCallMoves DEF Call, Place
<1>4. ASSUME NEW w \in Worker, WorkerStep(w) PROVE CallsTyped' /\ [QueueNext]_queueVars
    BY <1>4, WorkerStepTyped
<1>5. ASSUME NEW w \in Worker, NEW i \in 1..MaxTasks, NEW o \in {"success", "failure"},
             RunEnds(w, i, o)
      PROVE  CallsTyped' /\ UNCHANGED queueVars
    BY <1>1, <1>5 DEF RunEnds
<1>6. ASSUME NEW t \in Task, OrphanRound(t) \/ \E w \in Worker : HeartbeatRound(w, t)
      PROVE  CallsTyped' /\ [QueueNext]_queueVars
    BY <1>1, <1>6 DEF OrphanRound, HeartbeatRound, QueueNext
<1>7. CASE TimePasses
    BY <1>1, <1>7 DEF TimePasses, dispVars, QueueNext
<1>8. CASE UNCHANGED dispatchVars
    BY <1>1, <1>8 DEF dispatchVars, dispVars
<1> QED
    BY <1>2, <1>3, <1>4, <1>5, <1>6, <1>7, <1>8 DEF DispatcherNext

\* The dispatchers use the queue as it is meant to be used: whatever timeouts,
\* refused reports, abandoned calls and leftover heartbeats there are, the queue
\* sees nothing but calls of its methods with tasks and types it knows.
THEOREM DispatcherImplementsQueue == DispatcherSpec => QueueSpec
    BY CallsTypedInit, DispatcherStepTyped, PTL DEF DispatcherSpec, QueueSpec

\* So what the queue promises also holds under the dispatchers: a task moves only
\* by submission, hand-out, lapse and report, for one holder at a time.
THEOREM DispatcherImplementsLease == DispatcherSpec => ImplementsLease
    BY DispatcherImplementsQueue, QueueImplementsLease, PTL

-----------------------------------------------------------------------------
\* Held work.  With timely heartbeats and a pool that takes its tasks, HeldInv is
\* inductive: every open entry has somebody who renews its lease.

\* An open entry is an entry of the batch, its task is not expired for any claim,
\* and the clock may not advance before its lease is renewed.
LEMMA OpenEntry ==
    ASSUME QueueInv, CallsTyped, HeldInv, NEW w \in Worker, NEW i \in Open(w)
    PROVE  /\ i \in 1..Len(batch[w]) /\ batch[w][i] \in Task
           /\ EntryHeld(w, i)
           /\ batch[w][i] \in Tended
           /\ \A ty, d : d \in 0..Skew => batch[w][i] \notin Expired(ty, d)
<1>1. i \in 1..Len(batch[w]) /\ batch[w][i] \in Task
    BY DEF CallsTyped, CallTyped, Open
<1>2. EntryHeld(w, i)
    BY DEF HeldInv, CallHeld
<1>3. batch[w][i] \in Tended
    BY <1>1, <1>2 DEF EntryHeld, Tended
<1>4. leaseAge[batch[w][i]] \in Nat /\ Lease \in Nat /\ Skew \in Nat
    BY <1>1, QueueAssumption DEF QueueInv, QueueTypeOK, AgeCap
<1>5. \A ty, d : d \in 0..Skew => batch[w][i] \notin Expired(ty, d)
    BY <1>2, <1>4 DEF EntryHeld, Expired
<1> QED
    BY <1>1, <1>2, <1>3, <1>5

\* Nobody else works on the task of an open entry.
LEMMA OpenAlone ==
    ASSUME QueueInv, CallsTyped, HeldInv, NEW w \in Worker, NEW i \in Open(w),
           NEW u \in Worker, NEW j \in Open(u), batch[u][j] = batch[w][i]
    PROVE  u = w /\ j = i
<1>1. u = w
    BY OpenEntry DEF EntryHeld
<1>2. pc[w] # "idle"
    BY DEF Open
<1> QED
    BY <1>1, <1>2, OpenEntry DEF HeldInv, CallHeld

\* A call that does not move keeps its hold as long as its tasks are left alone.
LEMMA CallStays ==
    ASSUME QueueInv, CallsTyped, HeldInv, NEW u \in Worker,
           pc'[u] = pc[u], batch'[u] = batch[u], pos'[u] = pos[u], beat'[u] = beat[u],
           \A i \in Open(u) : /\ status'[batch[u][i]] = status[batch[u][i]]
                              /\ claimedBy'[batch[u][i]] = claimedBy[batch[u][i]]
                              /\ leaseAge'[batch[u][i]] <= Lease
    PROVE  CallHeld(u)'
<1>1. CallHeld(u)
    BY DEF HeldInv
<1>2. Open(u)' = Open(u) /\ Alive(u)' = Alive(u)
    BY DEF Open, Alive
<1>3. \A i \in Open(u) : EntryHeld(u, i)'
    BY <1>1 DEF CallHeld, EntryHeld
<1> QED
    BY <1>1, <1>2, <1>3 DEF CallHeld

\* claim hands out a task that no open entry has,
LEMMA ClaimLeavesOpen ==
    ASSUME QueueInv, CallsTyped, HeldInv, NEW w, NEW ty, NEW d \in 0..Skew, NEW t \in Task,
           ClaimTask(w, ty, d, t), NEW u \in Worker, NEW i \in Open(u)
    PROVE  /\ batch[u][i] # t
           /\ status'[batch[u][i]] = status[batch[u][i]]
           /\ claimedBy'[batch[u][i]] = claimedBy[batch[u][i]]
           /\ leaseAge'[batch[u][i]] = leaseAge[batch[u][i]]
<1>1. /\ batch[u][i] \in Task /\ status[batch[u][i]] = "claimed"
      /\ batch[u][i] \notin Expired(ty, d)
    BY OpenEntry DEF EntryHeld
<1>2. batch[u][i] # t
    BY <1>1 DEF ClaimTask, Eligible, Requeued
<1> QED
    BY <1>1, <1>2 DEF ClaimTask, Requeued

\* ... and whether it finds one or not, it leaves theirs alone.
LEMMA ClaimNoneLeavesOpen ==
    ASSUME QueueInv, CallsTyped, HeldInv, NEW ty, NEW d \in 0..Skew,
           ClaimNone(ty, d), NEW u \in Worker, NEW i \in Open(u)
    PROVE  /\ status'[batch[u][i]] = status[batch[u][i]]
           /\ claimedBy'[batch[u][i]] = claimedBy[batch[u][i]]
           /\ leaseAge'[batch[u][i]] = leaseAge[batch[u][i]]
<1>1. /\ batch[u][i] \in Task /\ status[batch[u][i]] = "claimed"
      /\ batch[u][i] \notin Expired(ty, d)
    BY OpenEntry DEF EntryHeld
<1> QED
    BY <1>1 DEF ClaimNone, Requeued

\* A claim adds an entry to the batch, and its lease is new.
LEMMA ClaimNextHeld ==
    ASSUME Skew <= Lease, QueueInv, CallsTyped, HeldInv, NEW w \in Worker,
           NEW d \in 0..Skew, NEW t \in Task, ClaimNext(w, d, t)
    PROVE  HeldInv'
<1>0. /\ batch \in [Worker -> Seq(Task)] /\ pos \in [Worker -> Nat] /\ pc \in [Worker -> Place]
      /\ pc[w] = "claiming" /\ pos[w] = 1 /\ Len(batch[w]) \in Nat
    BY DEF CallsTyped, CallTyped, ClaimNext
<1>1. beat' = beat /\ pos' = pos /\ ClaimTask(w, call[w][2], d, t)
    BY DEF ClaimNext
<1>2. /\ batch'[w] = Append(batch[w], t) /\ pc'[w] \in {"submitting", "claiming"}
      /\ \A u \in Worker : u # w => batch'[u] = batch[u] /\ pc'[u] = pc[u]
    BY <1>0 DEF ClaimNext
<1>3. /\ Len(batch'[w]) = Len(batch[w]) + 1
      /\ batch'[w][Len(batch[w]) + 1] = t
      /\ \A i \in 1..Len(batch[w]) : batch'[w][i] = batch[w][i]
    BY <1>0, <1>2
<1>4. Open(w) = 1..Len(batch[w]) /\ Open(w)' = 1..(Len(batch[w]) + 1)
    BY <1>0, <1>2, <1>3 DEF Open
<1>5. /\ Alive(w) = {} /\ Alive(w)' = {}
    BY <1>0, <1>1, <1>2 DEF Alive
<1>6. \A u \in Worker : \A i \in Open(u) :
          /\ batch[u][i] # t
          /\ status'[batch[u][i]] = status[batch[u][i]]
          /\ claimedBy'[batch[u][i]] = claimedBy[batch[u][i]]
          /\ leaseAge'[batch[u][i]] = leaseAge[batch[u][i]]
    BY <1>1, ClaimLeavesOpen
<1>7. \A u \in Worker : \A i \in Open(u) : EntryHeld(u, i)
    BY DEF HeldInv, CallHeld
<1>8. ASSUME NEW u \in Worker, u # w PROVE CallHeld(u)'
    BY <1>1, <1>2, <1>6, <1>7, <1>8, CallStays DEF EntryHeld
<1>9. CallHeld(w)'
  <2>1. status'[t] = "claimed" /\ claimedBy'[t] = w /\ leaseAge'[t] <= Lease
    BY <1>1, QueueAssumption DEF ClaimTask, Requeued
  <2>2. ASSUME NEW i \in Open(w)' PROVE EntryHeld(w, i)'
    <3>1. CASE i = Len(batch[w]) + 1
      BY <1>0, <1>1, <1>2, <1>3, <2>1, <3>1 DEF EntryHeld
    <3>2. CASE i \in 1..Len(batch[w])
      BY <1>0, <1>1, <1>2, <1>3, <1>4, <1>6, <1>7, <3>2 DEF EntryHeld
    <3> QED
      BY <1>0, <1>4, <3>1, <3>2
  <2>3. \A i, j \in 1..Len(batch'[w]) : batch'[w][i] = batch'[w][j] => i = j
    <3>1. \A i, j \in 1..Len(batch[w]) : batch[w][i] = batch[w][j] => i = j
      BY <1>0 DEF HeldInv, CallHeld
    <3>2. \A i \in 1..Len(batch[w]) : batch[w][i] # t
      BY <1>4, <1>6
    <3> DEFINE n == Len(batch[w])
    <3>3. \A i \in 1..Len(batch'[w]) : i = n + 1 \/ i \in 1..n
      BY <1>0, <1>3
    <3> SUFFICES ASSUME NEW i \in 1..Len(batch'[w]), NEW j \in 1..Len(batch'[w]),
                        batch'[w][i] = batch'[w][j]
                 PROVE  i = j
      OBVIOUS
    <3> HIDE DEF n
    <3>4. /\ batch'[w][n + 1] = t
          /\ \A k \in 1..n : batch'[w][k] = batch[w][k] /\ batch[w][k] # t
      BY <1>3, <3>2 DEF n
    <3>5. \A k, l \in 1..n : batch[w][k] = batch[w][l] => k = l
      BY <3>1 DEF n
    <3>6. CASE i = n + 1 /\ j = n + 1
      BY <3>6
    <3>7. CASE i = n + 1 /\ j \in 1..n
      BY <3>4, <3>7
    <3>8. CASE i \in 1..n /\ j = n + 1
      BY <3>4, <3>8
    <3>9. CASE i \in 1..n /\ j \in 1..n
      BY <3>4, <3>5, <3>9
    <3> QED
      BY <3>3, <3>6, <3>7, <3>8, <3>9
  <2>4. \A x \in Task : beat'[w][x] = "none"
    BY <1>1, <1>5 DEF HeldInv, CallHeld
  <2> QED
    BY <1>2, <2>2, <2>3, <2>4 DEF CallHeld
<1> QED
    BY <1>1, <1>8, <1>9 DEF HeldInv

\* The claim loop ends: nothing changes for the entries it got.
LEMMA ClaimStopsHeld ==
    ASSUME QueueInv, CallsTyped, HeldInv, NEW w \in Worker, NEW d \in 0..Skew, ClaimStops(w, d)
    PROVE  HeldInv'
<1>0. /\ batch[w] \in Seq(Task) /\ Len(batch[w]) \in Nat /\ pc \in [Worker -> Place]
      /\ pc[w] = "claiming" /\ pos[w] = 1
    BY DEF CallsTyped, CallTyped, ClaimStops
<1>1. UNCHANGED <<beat, pos, batch>> /\ ClaimNone(call[w][2], d)
    BY DEF ClaimStops
<1>2. /\ pc'[w] \in {"submitting", "idle"} /\ (pc'[w] = "idle" => batch[w] = <<>>)
      /\ \A u \in Worker : u # w => pc'[u] = pc[u]
    BY <1>0 DEF ClaimStops
<1>3. \A u \in Worker : \A i \in Open(u) :
          /\ status'[batch[u][i]] = status[batch[u][i]]
          /\ claimedBy'[batch[u][i]] = claimedBy[batch[u][i]]
          /\ leaseAge'[batch[u][i]] = leaseAge[batch[u][i]]
    BY <1>1, ClaimNoneLeavesOpen
<1>4. \A u \in Worker : \A i \in Open(u) : EntryHeld(u, i)
    BY DEF HeldInv, CallHeld
<1>5. ASSUME NEW u \in Worker, u # w PROVE CallHeld(u)'
    BY <1>1, <1>2, <1>3, <1>4, <1>5, CallStays DEF EntryHeld
<1>6. CallHeld(w)'
  <2>1. Open(w)' = Open(w) /\ Alive(w)' = {} /\ Alive(w) = {} /\ Open(w) = 1..Len(batch[w])
    BY <1>0, <1>1, <1>2 DEF Open, Alive
  <2>2. \A i \in Open(w) : EntryHeld(w, i)'
    BY <1>0, <1>1, <1>2, <1>3, <1>4, <2>1 DEF EntryHeld
  <2> QED
    BY <1>0, <1>1, <1>2, <2>1, <2>2 DEF HeldInv, CallHeld
<1> QED
    BY <1>1, <1>5, <1>6 DEF HeldInv

\* A task that is submitted gets its heartbeat thread first.
LEMMA SubmitHeld ==
    ASSUME QueueInv, CallsTyped, HeldInv, NEW w \in Worker, Submit(w)
    PROVE  HeldInv'
<1> DEFINE b == batch[w]
           n == pos[w]
<1>0. /\ b \in Seq(Task) /\ Len(b) \in Nat /\ pc \in [Worker -> Place]
      /\ pos \in [Worker -> Nat] /\ pc[w] = "submitting" /\ n \in 1..Len(b) /\ b[n] \in Task
    BY DEF CallsTyped, CallTyped, Submit
<1>1. UNCHANGED <<status, claimedBy, leaseAge, batch>>
    BY DEF Submit, queueVars
<1>2. /\ \/ pc'[w] = "collecting" /\ pos'[w] = 1 /\ n = Len(b)
         \/ pc'[w] = "submitting" /\ pos'[w] = n + 1 /\ n # Len(b)
      /\ \A u \in Worker : u # w => pc'[u] = pc[u] /\ pos'[u] = pos[u]
    BY <1>0 DEF Submit
<1>3. /\ beat' \in [Worker -> [Task -> {"none", "live", "dead"}]]
      /\ beat'[w][b[n]] = "live"
      /\ \A t \in Task : t # b[n] => beat'[w][t] = beat[w][t]
      /\ \A u \in Worker : u # w => beat'[u] = beat[u]
    BY <1>0 DEF Submit, StartHeartbeat, HeldInv
<1>4. \A u \in Worker : \A i \in Open(u) : EntryHeld(u, i)
    BY DEF HeldInv, CallHeld
<1>5. ASSUME NEW u \in Worker, u # w PROVE CallHeld(u)'
    BY <1>1, <1>2, <1>3, <1>4, <1>5, CallStays DEF EntryHeld
<1>6. CallHeld(w)'
  <2>1. /\ Open(w) = 1..Len(b) /\ Open(w)' = 1..Len(b)
        /\ Alive(w) = 1..(n - 1) /\ Alive(w)' = 1..n
    BY <1>0, <1>1, <1>2 DEF Open, Alive
  <2>2. ASSUME NEW i \in 1..Len(b) PROVE EntryHeld(w, i)'
    <3>1. b[i] \in Task /\ EntryHeld(w, i)
      BY <1>0, <1>4, <2>1
    <3>2. beat'[w][b[i]] # "live" => pc'[w] = "submitting" /\ n + 1 <= i
      BY <1>0, <1>2, <1>3, <3>1 DEF EntryHeld
    <3> QED
      BY <1>1, <1>2, <3>1, <3>2 DEF EntryHeld
  <2>3. ASSUME NEW t \in Task, beat'[w][t] # "none" PROVE \E i \in 1..n : b[i] = t
    <3>1. CASE t = b[n]
      BY <1>0, <3>1
    <3>2. CASE t # b[n]
      <4>1. PICK i \in 1..(n - 1) : b[i] = t
        <5>1. beat[w][t] # "none" /\ CallHeld(w)
          BY <1>3, <2>3, <3>2 DEF HeldInv
        <5> QED
          BY <2>1, <5>1 DEF CallHeld
      <4> QED
        BY <1>0, <4>1
    <3> QED
      BY <3>1, <3>2
  <2> QED
    BY <1>0, <1>1, <1>2, <2>1, <2>2, <2>3 DEF HeldInv, CallHeld
<1> QED
    BY <1>3, <1>5, <1>6 DEF HeldInv

\* A report takes the entry out of the open ones and leaves the others alone.
LEMMA ReportHeld ==
    ASSUME QueueInv, CallsTyped, HeldInv, NEW w \in Worker,
           ReportSuccess(w) \/ \E d \in 0..Skew : ReportFailure(w, d)
    PROVE  HeldInv'
<1> DEFINE b == batch[w]
           n == pos[w]
<1>0. /\ b \in Seq(Task) /\ Len(b) \in Nat /\ pc \in [Worker -> Place]
      /\ pos \in [Worker -> Nat] /\ pc[w] = "collecting" /\ n \in 1..Len(b) /\ b[n] \in Task
    BY DEF CallsTyped, CallTyped, ReportSuccess, ReportFailure
<1>1. /\ UNCHANGED <<batch, pos, beat>> /\ pc' = [pc EXCEPT ![w] = "stopping"]
      /\ \A t \in Task : t # b[n] => /\ status'[t] = status[t]
                                     /\ claimedBy'[t] = claimedBy[t]
                                     /\ leaseAge'[t] = leaseAge[t]
    BY DEF ReportSuccess, ReportFailure, Reported, Complete, Fail, FailRetry, FailDead,
           QueueInv, QueueTypeOK
<1>2. /\ Open(w) = n..Len(b) /\ Open(w)' = (n + 1)..Len(b) /\ Open(w)' \subseteq Open(w)
      /\ n \in Open(w) /\ n \notin Open(w)'
    BY <1>0, <1>1 DEF Open
<1>3. \A u \in Worker : \A i \in Open(u) :
          (u # w \/ i # n) => /\ status'[batch[u][i]] = status[batch[u][i]]
                              /\ claimedBy'[batch[u][i]] = claimedBy[batch[u][i]]
                              /\ leaseAge'[batch[u][i]] = leaseAge[batch[u][i]]
    BY <1>1, <1>2, OpenEntry, OpenAlone
<1>4. \A u \in Worker : \A i \in Open(u) : EntryHeld(u, i)
    BY DEF HeldInv, CallHeld
<1>5. ASSUME NEW u \in Worker, u # w PROVE CallHeld(u)'
    BY <1>0, <1>1, <1>3, <1>4, <1>5, CallStays DEF EntryHeld
<1>6. CallHeld(w)'
  <2>1. Alive(w)' = Alive(w) /\ pc'[w] = "stopping"
    BY <1>0, <1>1 DEF Alive
  <2>2. ASSUME NEW i \in Open(w)' PROVE EntryHeld(w, i)'
    <3>1. i \in Open(w) /\ i # n /\ EntryHeld(w, i)
      BY <1>2, <1>4
    <3>2. beat'[w][b[i]] = "live" /\ batch'[w] = b
      BY <1>0, <1>1, <3>1 DEF EntryHeld
    <3> QED
      BY <1>3, <3>1, <3>2 DEF EntryHeld
  <2> QED
    BY <1>0, <1>1, <2>1, <2>2 DEF HeldInv, CallHeld
<1> QED
    BY <1>1, <1>5, <1>6 DEF HeldInv

\* The finally clause stops the thread of the entry that was reported.
LEMMA StopHeartbeatHeld ==
    ASSUME QueueInv, CallsTyped, HeldInv, NEW w \in Worker, StopHeartbeat(w)
    PROVE  HeldInv'
<1> DEFINE b == batch[w]
           n == pos[w]
<1>0. /\ b \in Seq(Task) /\ Len(b) \in Nat /\ pc \in [Worker -> Place]
      /\ pos \in [Worker -> Nat] /\ pc[w] = "stopping" /\ n \in 1..Len(b) /\ b[n] \in Task
    BY DEF CallsTyped, CallTyped, StopHeartbeat, HeldInv, CallHeld
<1>1. UNCHANGED <<status, claimedBy, leaseAge, batch>>
    BY DEF StopHeartbeat, queueVars
<1>2. /\ \/ pc'[w] = "idle" /\ pos'[w] = n /\ n = Len(b)
         \/ pc'[w] = "collecting" /\ pos'[w] = n + 1 /\ n # Len(b)
      /\ \A u \in Worker : u # w => pc'[u] = pc[u] /\ pos'[u] = pos[u]
    BY <1>0 DEF StopHeartbeat
<1>3. /\ beat' \in [Worker -> [Task -> {"none", "live", "dead"}]]
      /\ beat'[w][b[n]] = "none"
      /\ \A t \in Task : t # b[n] => beat'[w][t] = beat[w][t]
      /\ \A u \in Worker : u # w => beat'[u] = beat[u]
    BY <1>0 DEF StopHeartbeat, HeldInv
<1>4. \A u \in Worker : \A i \in Open(u) : EntryHeld(u, i)
    BY DEF HeldInv, CallHeld
<1>5. ASSUME NEW u \in Worker, u # w PROVE CallHeld(u)'
    BY <1>1, <1>2, <1>3, <1>4, <1>5, CallStays DEF EntryHeld
<1>6. \A i, j \in 1..Len(b) : b[i] = b[j] => i = j
    BY <1>0 DEF HeldInv, CallHeld
<1>7. CallHeld(w)'
  <2>1. /\ Open(w) = (n + 1)..Len(b) /\ Open(w)' = (n + 1)..Len(b)
        /\ Alive(w) = n..Len(b) /\ Alive(w)' = (n + 1)..Len(b)
    BY <1>0, <1>1, <1>2 DEF Open, Alive
  <2>2. ASSUME NEW i \in (n + 1)..Len(b) PROVE EntryHeld(w, i)'
    <3>1. b[i] \in Task /\ EntryHeld(w, i) /\ b[i] # b[n]
      BY <1>0, <1>4, <1>6, <2>1
    <3>2. beat'[w][b[i]] = "live"
      BY <1>0, <1>3, <3>1 DEF EntryHeld
    <3> QED
      BY <1>1, <3>1, <3>2 DEF EntryHeld
  <2>3. ASSUME NEW t \in Task, beat'[w][t] # "none" PROVE \E i \in (n + 1)..Len(b) : b[i] = t
    <3>1. t # b[n] /\ beat[w][t] # "none"
      BY <1>3, <2>3
    <3>2. PICK i \in n..Len(b) : b[i] = t
      BY <2>1, <3>1 DEF HeldInv, CallHeld
    <3> QED
      BY <1>0, <3>1, <3>2
  <2> QED
    BY <1>1, <1>2, <1>6, <2>1, <2>2, <2>3 DEF CallHeld
<1> QED
    BY <1>3, <1>5, <1>7 DEF HeldInv

\* A heartbeat renews a lease; a thread ends only when its task is not claimed,
\* so it is not the thread of an open entry.
LEMMA HeartbeatHeld ==
    ASSUME QueueInv, CallsTyped, HeldInv, NEW t \in Task,
           OrphanRound(t) \/ \E w \in Worker : HeartbeatRound(w, t)
    PROVE  HeldInv'
<1>1. /\ UNCHANGED <<pc, batch, pos, status, claimedBy>>
      /\ leaseAge' = leaseAge \/ leaseAge' = [leaseAge EXCEPT ![t] = 0]
    BY DEF OrphanRound, HeartbeatRound, Heartbeat, queueVars
<1>2. \A x \in Task : leaseAge'[x] \in {leaseAge[x], 0} /\ 0 <= Lease
    BY <1>1, QueueAssumption DEF QueueInv, QueueTypeOK
<1>3. \A u \in Worker : \A i \in Open(u) : /\ batch[u][i] \in Task /\ EntryHeld(u, i)
                                           /\ leaseAge'[batch[u][i]] <= Lease
    BY <1>2, OpenEntry DEF EntryHeld
<1>4. CASE beat' = beat
  <2>1. ASSUME NEW u \in Worker PROVE CallHeld(u)'
    BY <1>1, <1>3, <1>4, CallStays
  <2> QED
    BY <1>4, <2>1 DEF HeldInv
<1>5. ASSUME NEW w \in Worker, beat[w][t] = "live", status[t] # "claimed",
             beat' = [beat EXCEPT ![w][t] = "dead"]
      PROVE  HeldInv'
  <2>1. /\ beat' \in [Worker -> [Task -> {"none", "live", "dead"}]]
        /\ \A x \in Task : x # t => beat'[w][x] = beat[w][x]
        /\ \A u \in Worker : u # w => beat'[u] = beat[u]
    BY <1>5 DEF HeldInv
  <2>2. ASSUME NEW u \in Worker, u # w PROVE CallHeld(u)'
    BY <1>1, <1>3, <2>1, <2>2, CallStays
  <2>3. CallHeld(w)'
    <3>1. CallHeld(w) /\ Open(w)' = Open(w) /\ Alive(w)' = Alive(w)
      BY <1>1 DEF HeldInv, Open, Alive
    <3>2. ASSUME NEW i \in Open(w) PROVE EntryHeld(w, i)'
      <4>1. beat'[w][batch[w][i]] = beat[w][batch[w][i]]
        BY <1>3, <1>5, <2>1 DEF EntryHeld
      <4> QED
        BY <1>1, <1>3, <4>1 DEF EntryHeld
    <3>3. \A x \in Task : beat'[w][x] # "none" => beat[w][x] # "none"
      BY <1>5, <2>1
    <3> QED
      BY <1>1, <3>1, <3>2, <3>3 DEF CallHeld
  <2> QED
    BY <2>1, <2>2, <2>3 DEF HeldInv
<1> QED
    BY <1>4, <1>5 DEF OrphanRound, HeartbeatRound

\* Time passes no further than the threads allow.
LEMMA TimePassesHeld ==
    ASSUME Timely, QueueInv, CallsTyped, HeldInv, TimePasses
    PROVE  HeldInv'
<1>1. UNCHANGED <<pc, batch, pos, beat, status, claimedBy>>
    BY DEF TimePasses, Tick, dispVars
<1>2. ASSUME NEW u \in Worker, NEW i \in Open(u) PROVE leaseAge'[batch[u][i]] <= Lease
  <2> DEFINE x == batch[u][i]
  <2>1. x \in Task /\ x \in Tended /\ status[x] = "claimed"
    BY OpenEntry DEF EntryHeld
  <2>2. leaseAge[x] < Lease /\ leaseAge'[x] = Least(leaseAge[x] + 1, AgeCap)
    BY <2>1 DEF TimePasses, Tick
  <2>3. leaseAge[x] \in Nat /\ Lease \in Nat /\ AgeCap \in Nat
    BY <2>1, QueueAssumption DEF QueueInv, QueueTypeOK, AgeCap
  <2> HIDE DEF x
  <2>4. leaseAge'[x] <= Lease
    BY <2>2, <2>3 DEF Least
  <2> QED
    BY <2>4 DEF x
<1>3. ASSUME NEW u \in Worker PROVE CallHeld(u)'
    BY <1>1, <1>2, CallStays
<1> QED
    BY <1>1, <1>3 DEF HeldInv

\* The steps that touch neither a claim nor a heartbeat.
LEMMA QuietHeld ==
    ASSUME QueueInv, CallsTyped, HeldInv,
           \/ \E t \in Task : EnqueueTicket(t)
           \/ \E w \in Worker, k \in Kind, ty \in Type : Call(w, k, ty)
           \/ \E w \in Worker, i \in 1..MaxTasks, o \in {"success", "failure"} :
                 RunEnds(w, i, o)
           \/ UNCHANGED dispatchVars
    PROVE  HeldInv'
<1>1. \A u \in Worker : \A i \in Open(u) : batch[u][i] \in Task /\ EntryHeld(u, i)
    BY OpenEntry
<1>2. beat' = beat /\ leaseAge' = leaseAge /\ claimedBy' = claimedBy
    BY DEF EnqueueTicket, Enqueue, Call, RunEnds, dispatchVars, dispVars, queueVars
<1>3. \A x \in Task : status[x] = "claimed" => status'[x] = "claimed"
    BY DEF EnqueueTicket, Enqueue, Call, RunEnds, dispatchVars, queueVars, QueueInv,
           QueueTypeOK
<1>4. ASSUME NEW u \in Worker, pc'[u] = pc[u], batch'[u] = batch[u], pos'[u] = pos[u]
      PROVE  CallHeld(u)'
    BY <1>1, <1>2, <1>3, <1>4, CallStays DEF EntryHeld
<1>5. ASSUME NEW w \in Worker, NEW k \in Kind, NEW ty \in Type, Call(w, k, ty)
      PROVE  \A u \in Worker : CallHeld(u)'
  <2>1. /\ pc[w] = "idle" /\ pc'[w] = "claiming" /\ batch'[w] = <<>> /\ pos'[w] = 1
        /\ \A u \in Worker : u # w => pc'[u] = pc[u] /\ batch'[u] = batch[u] /\ pos'[u] = pos[u]
    BY <1>5 DEF Call, CallsTyped
  <2>2. Alive(w) = {} /\ Alive(w)' = {} /\ Open(w)' = {} /\ Len(batch'[w]) = 0
    BY <2>1 DEF Alive, Open
  <2>3. \A t \in Task : beat[w][t] = "none"
    BY <2>2 DEF HeldInv, CallHeld
  <2>4. CallHeld(w)'
    BY <1>2, <2>1, <2>2, <2>3 DEF CallHeld
  <2> QED
    BY <1>4, <2>1, <2>4
<1>6. ASSUME UNCHANGED <<pc, batch, pos>> PROVE \A u \in Worker : CallHeld(u)'
    BY <1>4, <1>6
<1>7. \A u \in Worker : CallHeld(u)'
    BY <1>5, <1>6 DEF EnqueueTicket, RunEnds, dispatchVars, dispVars
<1> QED
    BY <1>2, <1>7 DEF HeldInv

\* Every step keeps the hold.
LEMMA DispatcherStepHeld ==
    ASSUME Timely, ~SubmitMayRaise, Skew <= Lease
    PROVE  QueueInv /\ CallsTyped /\ HeldInv /\ [DispatcherNext]_dispatchVars => HeldInv'
<1> SUFFICES ASSUME QueueInv, CallsTyped, HeldInv, [DispatcherNext]_dispatchVars
             PROVE  HeldInv'
    OBVIOUS
<1>1. ASSUME NEW w \in Worker, WorkerStep(w) PROVE HeldInv'
  <2>1. ~ReportRefused(w)
    <3>1. pc[w] = "collecting" => pos[w] \in Open(w)
      BY DEF CallsTyped, CallTyped, Open
    <3> QED
      BY <3>1, OpenEntry DEF ReportRefused, EntryHeld
  <2> QED
    BY <1>1, <2>1, ClaimNextHeld, ClaimStopsHeld, SubmitHeld, ReportHeld, StopHeartbeatHeld
       DEF WorkerStep, SubmitRaises
<1> QED
    BY <1>1, QuietHeld, HeartbeatHeld, TimePassesHeld DEF DispatcherNext

\* Both invariants hold in every state the dispatchers reach.
LEMMA DispatcherAlwaysHeld ==
    ASSUME Timely, ~SubmitMayRaise, Skew <= Lease
    PROVE  DispatcherSpec => [](QueueInv /\ CallsTyped /\ HeldInv)
<1>1. DispatcherInit => HeldInv
    BY DEF DispatcherInit, HeldInv, CallHeld, Open
<1>2. DispatcherInit => QueueInv /\ CallsTyped
    BY CallsTypedInit, QueueInitInv
<1>3. QueueInv /\ CallsTyped /\ [DispatcherNext]_dispatchVars => QueueInv' /\ CallsTyped'
    BY DispatcherStepTyped, QueueNextInv
<1> QED
    BY <1>1, <1>2, <1>3, DispatcherStepHeld, PTL DEF DispatcherSpec

\* With timely heartbeats, a pool that takes its tasks, and clock readings that
\* are never older than a lease, whoever works on a task holds its claim alone
\* until the report: for every number of dispatchers, tasks and batch size.
THEOREM WorkIsAlwaysHeld ==
    ASSUME Timely, ~SubmitMayRaise, Skew <= Lease
    PROVE  DispatcherSpec => []WorkIsHeld
<1>1. QueueInv /\ CallsTyped /\ HeldInv => WorkIsHeld
    BY OpenEntry, OpenAlone DEF WorkIsHeld, EntryHeld
<1> QED
    BY <1>1, DispatcherAlwaysHeld, PTL

\* Under the same conditions every heartbeat thread is stopped with its call.
THEOREM HeartbeatsAreStopped ==
    ASSUME Timely, ~SubmitMayRaise, Skew <= Lease
    PROVE  DispatcherSpec => []NoHeartbeatLeft
<1>1. HeldInv => NoHeartbeatLeft
    BY DEF HeldInv, CallHeld, Alive, NoHeartbeatLeft
<1> QED
    BY <1>1, DispatcherAlwaysHeld, PTL
=============================================================================
