-------------------------- MODULE RunnerPartsProofs --------------------------
(***************************************************************************)
(* Why the parts around the runner's cycle keep what they promise, for any *)
(* tickets, futures, thresholds and times: the parallel phases, the gates  *)
(* at the head of a cycle with a provider's rate limit life cycle, the     *)
(* circuit breaker of the gh command, the scheduler's jobs, the checkout   *)
(* locks of the tickets, the dashboard's request limit, and the usage      *)
(* governor.                                                               *)
(***************************************************************************)
EXTENDS ParallelCycle, CycleGates, Scheduler, TicketClaims, GitHubSync, Governor,
        ListProofs

-----------------------------------------------------------------------------
(* The parallel phases: why no ticket is in two investigations at once, for *)
(* any tickets, futures, pool sizes and time limits.                        *)

JobStates == {"free", "queued", "running", "ended", "loaded", "done", "raised"}
FutureRecord == [t : PTicket \cup {"none"}, kind : {"investigate", "develop"}, st : JobStates,
              ok : BOOLEAN, pool : Nat, snap : {"none"} \cup [PTicket -> PRecord]]

ParallelTyped ==
    /\ obj \in [PTicket -> PRecord] /\ file \in [PTicket -> PRecord]
    /\ job \in [Job -> FutureRecord]
    /\ \A j \in Job : job[j].st = "loaded" => job[j].snap \in [PTicket -> PRecord]
    /\ \A j \in Job : job[j].st # "free" => job[j].t \in PTicket
    /\ pools \in Seq(Profiles) /\ futures \in Seq(Job)

InvestigationOf(j, t) == job[j].kind = "investigate" /\ job[j].t = t

\* Who is developed has a report; the futures of the development phase are
\* developments; between the phases nobody is waited for.
DevelopedHasReport ==
    /\ \A j \in Job : job[j].kind = "develop" => job[j].t \in PTicket /\ obj[job[j].t].rep
    /\ at = "submit_dev" => \A t \in PTicket : t \in left => obj[t].rep
    /\ at \in {"submit_dev", "collect_dev", "retry"} => \A j \in Waiting : job[j].kind = "develop"
    /\ at \in {"idle", "save_inv"} => futures = <<>>
    /\ at = "retry" => futures # <<>>

\* A ticket whose investigation runs is investigating and has no report yet.
RunningIsMarked(t) ==
    \A j \in Job : InvestigationOf(j, t) /\ job[j].st = "running" =>
        obj[t].st = "investigating" /\ ~obj[t].rep

\* An investigation that has not begun is one the runner waits for.
QueuedIsAwaited(t) ==
    \A j \in Job : InvestigationOf(j, t) /\ job[j].st = "queued" =>
        at \in {"submit_inv", "collect_inv"} /\ j \in Waiting

\* What is still to be submitted has no investigation.
LeftIsIdle(t) ==
    at = "submit_inv" /\ t \in left => \A j \in Job : ~(InvestigationOf(j, t) /\ Alive(j))

OneAlive(t) ==
    \A i, j \in Job : InvestigationOf(i, t) /\ InvestigationOf(j, t) /\ Alive(i) /\ Alive(j) => i = j

TicketSound(t) == RunningIsMarked(t) /\ QueuedIsAwaited(t) /\ LeftIsIdle(t) /\ OneAlive(t)

ParallelInv ==
    /\ ParallelTyped /\ DevelopedHasReport
    /\ \A t \in PTicket \ cut : TicketSound(t)

\* No future exists at first.
LEMMA ParallelInitInv == ParallelInit => ParallelInv
<1> SUFFICES ASSUME ParallelInit PROVE ParallelInv
    OBVIOUS
<1>1. Idle \in FutureRecord /\ Idle.st = "free" /\ Idle.kind = "investigate"
    BY DEF Idle, FutureRecord, JobStates
<1>2. Base \in Profiles
    BY ParallelAssumption
<1>3. ParallelTyped
  <2>1. obj \in [PTicket -> PRecord] /\ file = obj
    BY DEF ParallelInit, PRecord
  <2>2. job \in [Job -> FutureRecord] /\ \A j \in Job : job[j].st = "free"
    BY <1>1 DEF ParallelInit
  <2>3. pools \in Seq(Profiles) /\ futures \in Seq(Job)
    BY <1>2 DEF ParallelInit
  <2> QED
    BY <2>1, <2>2, <2>3 DEF ParallelTyped
<1>4. \A j \in Job : job[j].st = "free" /\ job[j].kind = "investigate"
    BY <1>1 DEF ParallelInit
<1> QED
    BY <1>3, <1>4 DEF ParallelInit, ParallelInv, DevelopedHasReport, TicketSound, RunningIsMarked,
       QueuedIsAwaited, LeftIsIdle, OneAlive, Alive

\* Sweeping forgets ended futures only, and none that is waited for.
LEMMA SweptJobs ==
    ASSUME NEW J, J \in [Job -> FutureRecord], NEW W
    PROVE  /\ Swept(J, W) \in [Job -> FutureRecord]
           /\ \A j \in Job : \/ Swept(J, W)[j] = J[j]
                             \/ j \notin W /\ Swept(J, W)[j] = Idle
<1>1. Idle \in FutureRecord
    BY DEF Idle, FutureRecord, JobStates
<1> QED
    BY <1>1 DEF Swept

\* Steps after which a ticket's live investigations are among those before,
\* and its row and the runner's place have not changed to its harm.
LEMMA TicketStays ==
    ASSUME NEW t \in PTicket, TicketSound(t),
           \A j \in Job : (InvestigationOf(j, t) /\ Alive(j))' =>
               InvestigationOf(j, t) /\ job'[j].st = job[j].st,
           \A j \in Job : InvestigationOf(j, t) /\ job[j].st = "running" =>
               obj'[t].st = "investigating" /\ ~obj'[t].rep,
           \A j \in Job : InvestigationOf(j, t) /\ job[j].st = "queued" /\ job'[j].st = "queued" =>
               at' \in {"submit_inv", "collect_inv"} /\ j \in Waiting',
           at' = "submit_inv" /\ t \in left' =>
               \A j \in Job : ~(InvestigationOf(j, t) /\ Alive(j))
    PROVE  TicketSound(t)'
<1>1. \A j \in Job : (InvestigationOf(j, t) /\ Alive(j))' => InvestigationOf(j, t) /\ Alive(j)
    BY DEF Alive
<1>2. RunningIsMarked(t)'
    BY DEF RunningIsMarked, Alive
<1>3. QueuedIsAwaited(t)'
    BY DEF QueuedIsAwaited, Alive
<1>4. LeftIsIdle(t)'
    BY <1>1 DEF LeftIsIdle
<1>5. OneAlive(t)'
    BY <1>1 DEF OneAlive, TicketSound
<1> QED
    BY <1>2, <1>3, <1>4, <1>5 DEF TicketSound

\* Steps of the runner that leave futures, threads and objects alone.
LEMMA RunnerGoesOn ==
    ASSUME ParallelInv,
           \/ \E P \in SUBSET PTicket, p \in Profiles : StartInvestigations(P, p)
           \/ \E t \in PTicket : InvestigationRefused(t) \/ SaveInvestigation(t)
           \/ CollectInvestigations
           \/ \E D \in SUBSET PTicket, p \in Profiles : StartDevelopments(D, p)
           \/ \E t \in PTicket : DevelopmentRefused(t) \/ DropEntry(t)
           \/ CollectDevelopments \/ DevelopmentsCollected \/ DevelopmentTimesOut
    PROVE  ParallelInv'
<1>1. job' = job /\ obj' = obj /\ file' \in {file, obj} /\ cut' = cut
    BY DEF StartInvestigations, InvestigationRefused, SaveInvestigation, CollectInvestigations,
           StartDevelopments, DevelopmentRefused, CollectDevelopments, DevelopmentsCollected,
           DevelopmentTimesOut, DropEntry, SaveAll
<1>2. \/ futures' = futures
      \/ at = "collect_dev" /\ at' = at /\ futures' = Tail(futures) /\ futures # <<>>
    BY DEF StartInvestigations, InvestigationRefused, SaveInvestigation, CollectInvestigations,
           StartDevelopments, DevelopmentRefused, CollectDevelopments, DevelopmentsCollected,
           DevelopmentTimesOut, DropEntry, runner
<1>3. futures' \in Seq(Job) /\ Waiting' \subseteq Waiting
  <2>1. futures \in Seq(Job)
    BY DEF ParallelInv, ParallelTyped
  <2>2. CASE futures' = futures
    BY <2>1, <2>2 DEF Waiting
  <2>3. CASE futures' = Tail(futures) /\ futures # <<>>
    BY <2>1, <2>3 DEF Waiting, Range
  <2> QED
    BY <1>2, <2>2, <2>3
<1>4. pools' \in Seq(Profiles)
  <2>1. pools \in Seq(Profiles)
    BY DEF ParallelInv, ParallelTyped
  <2>2. \A p \in Profiles : ScaleTo(p) => pools' \in Seq(Profiles)
    BY <2>1 DEF ScaleTo, Scaled
  <2> QED
    BY <2>1, <2>2 DEF StartInvestigations, InvestigationRefused, SaveInvestigation,
       CollectInvestigations, StartDevelopments, DevelopmentRefused, CollectDevelopments,
       DevelopmentsCollected, DevelopmentTimesOut, DropEntry
<1>5. \/ at = "idle" /\ at' = "submit_inv"
         /\ left' \subseteq {t \in PTicket : obj[t].st = "triaged" /\ ~obj[t].rep}
      \/ at = "submit_inv" /\ at' \in {"submit_inv", "collect_inv"} /\ left' \subseteq left
      \/ at = "save_inv" /\ at' = "save_inv" /\ left' \subseteq left
      \/ at = "save_inv" /\ at' = "submit_dev" /\ left' \subseteq {t \in PTicket : obj[t].rep}
      \/ at = "submit_dev" /\ at' \in {"submit_dev", "collect_dev"} /\ left' \subseteq left
      \/ at = "collect_dev" /\ at' = "idle" /\ left' = left /\ futures = <<>> /\ futures' = <<>>
      \/ at' = at /\ left' = left
    BY DEF StartInvestigations, InvestigationRefused, SaveInvestigation, CollectInvestigations,
           StartDevelopments, DevelopmentRefused, CollectDevelopments, DevelopmentsCollected,
           DevelopmentTimesOut, DropEntry, DevelopmentCandidates, runner
<1>6. ParallelTyped'
    BY <1>1, <1>3, <1>4, <1>5 DEF ParallelInv, ParallelTyped
<1>7. DevelopedHasReport'
  <2>1. at' = "submit_dev" => \A t \in PTicket : t \in left' => obj'[t].rep
    <3>1. at' = "submit_dev" => left' \subseteq {t \in PTicket : obj[t].rep}
                                \/ (at = "submit_dev" /\ left' \subseteq left)
      BY <1>5
    <3>2. at = "submit_dev" => \A t \in PTicket : t \in left => obj[t].rep
      BY DEF ParallelInv, DevelopedHasReport
    <3> QED
      BY <1>1, <3>1, <3>2
  <2>2. at' \in {"submit_dev", "collect_dev", "retry"} => \A j \in Waiting' : job'[j].kind = "develop"
    BY <1>1, <1>2, <1>3, <1>5 DEF ParallelInv, DevelopedHasReport, Waiting, Range
  <2>3. (at' \in {"idle", "save_inv"} => futures' = <<>>) /\ (at' = "retry" => futures' # <<>>)
    BY <1>2, <1>5 DEF ParallelInv, DevelopedHasReport
  <2> QED
    BY <1>1, <2>1, <2>2, <2>3 DEF ParallelInv, DevelopedHasReport
<1>8. ASSUME NEW t \in PTicket \ cut' PROVE TicketSound(t)'
  <2>1. TicketSound(t)
    BY <1>1 DEF ParallelInv
  <2>2. \A j \in Job : InvestigationOf(j, t)' = InvestigationOf(j, t) /\ Alive(j)' = Alive(j)
    BY <1>1 DEF InvestigationOf, Alive
  <2>3. \A j \in Job : InvestigationOf(j, t) /\ job[j].st = "queued" =>
            at' \in {"submit_inv", "collect_inv"} /\ j \in Waiting'
    BY <1>2, <1>5, <2>1 DEF TicketSound, QueuedIsAwaited, Waiting
  <2>4. at' = "submit_inv" /\ t \in left' => \A j \in Job : ~(InvestigationOf(j, t) /\ Alive(j))
    <3> SUFFICES ASSUME at' = "submit_inv", t \in left', NEW j \in Job, InvestigationOf(j, t), Alive(j)
                 PROVE  FALSE
      OBVIOUS
    <3>1. CASE at = "submit_inv" /\ t \in left
      BY <2>1, <3>1 DEF TicketSound, LeftIsIdle
    <3>2. CASE at = "idle" /\ obj[t].st = "triaged"
      BY <2>1, <3>2 DEF TicketSound, RunningIsMarked, QueuedIsAwaited, Alive
    <3> QED
      BY <1>5, <3>1, <3>2
  <2> QED
    BY <1>1, <2>1, <2>2, <2>3, <2>4, TicketStays DEF TicketSound, RunningIsMarked
<1> QED
    BY <1>6, <1>7, <1>8 DEF ParallelInv

\* A future is made: the record it takes is written anew and joins those the
\* runner waits for.
LEMMA FutureIsMade ==
    ASSUME ParallelInv, NEW j \in Job, NEW t \in PTicket, NEW kind \in {"investigate", "develop"},
           NewFuture(j, t, kind)
    PROVE  /\ job' \in [Job -> FutureRecord] /\ futures' \in Seq(Job)
           /\ job'[j].t = t /\ job'[j].kind = kind /\ job'[j].st = "queued"
           /\ \A i \in Job : i # j => job'[i] = job[i]
           /\ Waiting' = Waiting \cup {j}
<1>1. job \in [Job -> FutureRecord] /\ futures \in Seq(Job) /\ pools \in Seq(Profiles) /\ Len(pools) \in Nat
    BY DEF ParallelInv, ParallelTyped
<1>2. [t |-> t, kind |-> kind, st |-> "queued", ok |-> FALSE, pool |-> Len(pools), snap |-> "none"]
          \in FutureRecord
    BY <1>1 DEF FutureRecord, JobStates
<1>3. futures' = Append(futures, j)
    BY DEF NewFuture
<1>4. Waiting' = Waiting \cup {j}
    BY <1>1, <1>3 DEF Waiting, Range
<1> QED
    BY <1>1, <1>2, <1>3, <1>4 DEF NewFuture

\* A ticket that is left and has no investigation gets one.
LEMMA SubmitInvestigationInv ==
    ASSUME ParallelInv, NEW j \in Job, NEW t0 \in PTicket, SubmitInvestigation(j, t0)
    PROVE  ParallelInv'
<1>1. NewFuture(j, t0, "investigate") /\ at = "submit_inv" /\ at' = at /\ t0 \in left /\ left' = left \ {t0}
      /\ UNCHANGED <<obj, file, pools, cut>>
    BY DEF SubmitInvestigation
<1>2. /\ job' \in [Job -> FutureRecord] /\ futures' \in Seq(Job)
      /\ job'[j].t = t0 /\ job'[j].kind = "investigate" /\ job'[j].st = "queued"
      /\ \A i \in Job : i # j => job'[i] = job[i]
      /\ Waiting' = Waiting \cup {j}
    BY <1>1, FutureIsMade
<1>3. ParallelTyped'
    BY <1>1, <1>2 DEF ParallelInv, ParallelTyped
<1>4. DevelopedHasReport'
    BY <1>1, <1>2 DEF ParallelInv, DevelopedHasReport
<1>5. ASSUME NEW t \in PTicket \ cut' PROVE TicketSound(t)'
  <2>1. TicketSound(t)
    BY <1>1 DEF ParallelInv
  <2>2. CASE t # t0
    BY <1>1, <1>2, <2>1, <2>2, TicketStays DEF InvestigationOf, Alive, TicketSound, RunningIsMarked,
       QueuedIsAwaited, LeftIsIdle
  <2>3. CASE t = t0
    <3>1. \A i \in Job : ~(InvestigationOf(i, t) /\ Alive(i))
      BY <1>1, <2>1, <2>3 DEF TicketSound, LeftIsIdle
    <3>2. \A i \in Job : (InvestigationOf(i, t) /\ Alive(i))' => i = j
      BY <1>2, <3>1 DEF InvestigationOf, Alive
    <3> QED
      BY <1>1, <1>2, <2>3, <3>2 DEF TicketSound, RunningIsMarked, QueuedIsAwaited, LeftIsIdle,
         OneAlive, Alive
  <2> QED
    BY <2>2, <2>3
<1> QED
    BY <1>3, <1>4, <1>5 DEF ParallelInv

\* A ticket with a report is developed.
LEMMA SubmitDevelopmentInv ==
    ASSUME ParallelInv, NEW j \in Job, NEW t0 \in PTicket, SubmitDevelopment(j, t0)
    PROVE  ParallelInv'
<1>1. NewFuture(j, t0, "develop") /\ at = "submit_dev" /\ at' = at /\ t0 \in left /\ left' = left \ {t0}
      /\ UNCHANGED <<obj, file, pools, cut>>
    BY DEF SubmitDevelopment
<1>2. /\ job' \in [Job -> FutureRecord] /\ futures' \in Seq(Job)
      /\ job'[j].t = t0 /\ job'[j].kind = "develop" /\ job'[j].st = "queued"
      /\ \A i \in Job : i # j => job'[i] = job[i]
      /\ Waiting' = Waiting \cup {j}
    BY <1>1, FutureIsMade
<1>3. ParallelTyped'
    BY <1>1, <1>2 DEF ParallelInv, ParallelTyped
<1>4. Waiting \subseteq Job
    BY DEF Waiting, Range, ParallelInv, ParallelTyped
<1>5. DevelopedHasReport'
    BY <1>1, <1>2, <1>4 DEF ParallelInv, DevelopedHasReport
<1>6. ASSUME NEW t \in PTicket \ cut' PROVE TicketSound(t)'
  <2>1. TicketSound(t)
    BY <1>1 DEF ParallelInv
  <2> QED
    BY <1>1, <1>2, <2>1, TicketStays DEF InvestigationOf, Alive, TicketSound, RunningIsMarked,
       QueuedIsAwaited
<1> QED
    BY <1>3, <1>5, <1>6 DEF ParallelInv

\* The runner stops waiting for its investigations: all have ended, or those
\* that did not begin are cancelled, or their tickets are noted in cut.
LEMMA CollectionEnds ==
    ASSUME ParallelInv,
           InvestigationsCollected \/ InvestigationsTimeOut \/ InvestigationsRateLimited
    PROVE  ParallelInv'
<1> DEFINE J == [j \in Job |-> IF j \in Waiting /\ job[j].st = "queued" THEN Idle ELSE job[j]]
<1>1. Idle \in FutureRecord /\ Idle.st = "free" /\ Idle.kind = "investigate"
    BY DEF Idle, FutureRecord, JobStates
<1>2. job \in [Job -> FutureRecord] /\ J \in [Job -> FutureRecord] /\ Waiting \subseteq Job
    BY <1>1 DEF Waiting, Range, ParallelInv, ParallelTyped
<1>3. job' \in [Job -> FutureRecord] /\ \A j \in Job : job'[j] = job[j] \/ job'[j] = Idle
  <2>1. \A j \in Job : J[j] = job[j] \/ J[j] = Idle
    OBVIOUS
  <2> HIDE DEF J
  <2>2. job' = Swept(job, deferred) \/ job' = Swept(J, deferred)
    BY DEF InvestigationsCollected, InvestigationsTimeOut, InvestigationsRateLimited, J
  <2> QED
    BY <1>2, <2>1, <2>2, SweptJobs
<1>4. /\ at = "collect_inv" /\ at' \in {"save_inv", "idle"} /\ futures' = <<>>
      /\ cut \subseteq cut' /\ UNCHANGED <<obj, file, pools>>
    BY DEF InvestigationsCollected, InvestigationsTimeOut, InvestigationsRateLimited
<1>5. ASSUME NEW j \in Waiting, job'[j].st = "queued", job[j].st = "queued" PROVE job[j].t \in cut'
  <2>1. CASE InvestigationsCollected
    BY <1>5, <2>1 DEF InvestigationsCollected
  <2>2. CASE InvestigationsTimeOut
    <3>1. J[j] = Idle /\ j \in Job
      BY <1>2, <1>5
    <3> HIDE DEF J
    <3>2. job' = Swept(J, deferred)
      BY <2>2 DEF InvestigationsTimeOut, J
    <3>3. job'[j] = Idle
      BY <1>2, <3>1, <3>2, SweptJobs
    <3> QED
      BY <1>1, <1>5, <3>3
  <2>3. CASE InvestigationsRateLimited
    BY <1>5, <2>3 DEF InvestigationsRateLimited
  <2> QED
    BY <2>1, <2>2, <2>3
<1>6. ParallelTyped'
    BY <1>1, <1>3, <1>4 DEF ParallelInv, ParallelTyped
<1>7. DevelopedHasReport'
    BY <1>1, <1>3, <1>4 DEF ParallelInv, DevelopedHasReport
<1>8. ASSUME NEW t \in PTicket \ cut' PROVE TicketSound(t)'
  <2>1. TicketSound(t)
    BY <1>4 DEF ParallelInv
  <2>2. \A j \in Job : (InvestigationOf(j, t) /\ Alive(j))' => job'[j] = job[j]
    BY <1>1, <1>3 DEF Alive
  <2>3. \A j \in Job : InvestigationOf(j, t) /\ job[j].st = "queued" => job'[j].st # "queued"
    BY <1>5, <2>1 DEF TicketSound, QueuedIsAwaited, InvestigationOf
  <2> QED
    BY <1>4, <2>1, <2>2, <2>3, TicketStays DEF InvestigationOf, TicketSound, RunningIsMarked
<1> QED
    BY <1>6, <1>7, <1>8 DEF ParallelInv

\* One of the futures of the development phase is done with.
LEMMA NextFutureJobs ==
    ASSUME ParallelInv, at \in {"collect_dev", "retry"}, futures # <<>>, NextFuture
    PROVE  /\ job' \in [Job -> FutureRecord] /\ futures' \in Seq(Job)
           /\ \A j \in Job : job'[j] = job[j] \/ job'[j] = Idle
           /\ \A j \in Waiting' : j \in Job /\ job'[j].kind = "develop"
<1>1. job \in [Job -> FutureRecord] /\ futures \in Seq(Job)
    BY DEF ParallelInv, ParallelTyped
<1>2. /\ futures' = Tail(futures) /\ futures' \in Seq(Job) /\ Waiting' = Range(Tail(futures))
      /\ Waiting' \subseteq Waiting /\ Waiting' \subseteq Job
    BY <1>1 DEF NextFuture, Waiting, Range
<1>3. job' = Swept(job, Range(Tail(futures)) \cup deferred)
    BY DEF NextFuture
<1>4. \A j \in Waiting' : job'[j] = job[j]
    BY <1>1, <1>2, <1>3, SweptJobs
<1>5. \A j \in Waiting' : job[j].kind = "develop"
    BY <1>2 DEF ParallelInv, DevelopedHasReport
<1> QED
    BY <1>1, <1>2, <1>3, <1>4, <1>5, SweptJobs

\* Steps that may change the rows of tickets with a report, forget futures,
\* and leave the runner in its development phase, or where it is.
LEMMA DevelopmentStep ==
    ASSUME ParallelInv, job' \in [Job -> FutureRecord], futures' \in Seq(Job),
           \A j \in Job : job'[j] = job[j] \/ job'[j] = Idle,
           obj' \in [PTicket -> PRecord], file' \in [PTicket -> PRecord],
           \A t \in PTicket : obj'[t] = obj[t] \/ (obj[t].rep /\ obj'[t].rep),
           \/ UNCHANGED <<at, left, futures>> /\ \A j \in Waiting : job'[j] = job[j]
           \/ /\ {at, at'} \subseteq {"collect_dev", "retry"}
              /\ \A j \in Waiting' : job'[j].kind = "develop"
              /\ at' = "retry" => futures' # <<>>,
           UNCHANGED <<pools, cut>>
    PROVE  ParallelInv'
<1>1. Idle \in FutureRecord /\ Idle.st = "free" /\ Idle.kind = "investigate"
    BY DEF Idle, FutureRecord, JobStates
<1>2. ParallelTyped'
    BY <1>1 DEF ParallelInv, ParallelTyped
<1>3. \A j \in Job : job'[j].kind = "develop" => job'[j] = job[j]
    BY <1>1
<1>4. Waiting \subseteq Job
    BY DEF Waiting, Range, ParallelInv, ParallelTyped
<1>5. DevelopedHasReport'
  <2>1. \A j \in Job : job'[j].kind = "develop" => job'[j].t \in PTicket /\ obj'[job'[j].t].rep
    BY <1>3 DEF ParallelInv, DevelopedHasReport
  <2>2. at' = "submit_dev" => \A t \in PTicket : t \in left' => obj'[t].rep
    BY DEF ParallelInv, DevelopedHasReport
  <2>3. at' \in {"submit_dev", "collect_dev", "retry"} => \A j \in Waiting' : job'[j].kind = "develop"
    BY DEF ParallelInv, DevelopedHasReport, Waiting
  <2>4. (at' \in {"idle", "save_inv"} => futures' = <<>>) /\ (at' = "retry" => futures' # <<>>)
    BY DEF ParallelInv, DevelopedHasReport
  <2> QED
    BY <2>1, <2>2, <2>3, <2>4 DEF DevelopedHasReport
<1>6. ASSUME NEW t \in PTicket \ cut' PROVE TicketSound(t)'
  <2>1. TicketSound(t)
    BY DEF ParallelInv
  <2>2. \A j \in Job : (InvestigationOf(j, t) /\ Alive(j))' => job'[j] = job[j]
    BY <1>1 DEF Alive
  <2>3. \A j \in Job : InvestigationOf(j, t) /\ job[j].st = "running" =>
            obj'[t].st = "investigating" /\ ~obj'[t].rep
    BY <2>1 DEF TicketSound, RunningIsMarked
  <2>4. \A j \in Job : InvestigationOf(j, t) /\ job[j].st = "queued" =>
            at' \in {"submit_inv", "collect_inv"} /\ j \in Waiting'
    BY <2>1 DEF TicketSound, QueuedIsAwaited, Waiting
  <2>5. at' = "submit_inv" /\ t \in left' => \A j \in Job : ~(InvestigationOf(j, t) /\ Alive(j))
    BY <2>1 DEF TicketSound, LeftIsIdle
  <2> QED
    BY <2>1, <2>2, <2>3, <2>4, <2>5, TicketStays DEF InvestigationOf
<1> QED
    BY <1>2, <1>5, <1>6 DEF ParallelInv

\* The row of ticket x in o gets a status.
WithRow(o, x, st) == [o EXCEPT ![x].st = st]

\* Nothing else of it changes.
LEMMA RowChanges ==
    ASSUME NEW o \in [PTicket -> PRecord], NEW x \in PTicket,
           NEW st \in {"triaged", "investigating", "investigation_complete", "in_development",
                       "in_review", "failed"}
    PROVE  /\ WithRow(o, x, st) \in [PTicket -> PRecord]
           /\ \A t \in PTicket : WithRow(o, x, st)[t].rep = o[t].rep
           /\ \A t \in PTicket : t # x => WithRow(o, x, st)[t] = o[t]
           /\ WithRow(o, x, st)[x].st = st
<1>1. o[x] \in PRecord
    OBVIOUS
<1>2. /\ [o[x] EXCEPT !.st = st] \in PRecord /\ [o[x] EXCEPT !.st = st].rep = o[x].rep
      /\ [o[x] EXCEPT !.st = st].st = st
    BY <1>1 DEF PRecord
<1>3. WithRow(o, x, st) = [o EXCEPT ![x] = [o[x] EXCEPT !.st = st]]
    BY DEF WithRow
<1> QED
    BY <1>2, <1>3

\* The runner takes the results of its developments one by one.
LEMMA DevelopmentEnds ==
    ASSUME ParallelInv,
           \/ DevelopmentCollected \/ DevelopmentRaised
           \/ \E again \in BOOLEAN : DevelopmentFailed(again)
           \/ \E st \in {"investigating", "triaged", "in_review", "failed"} :
                 DevelopmentRetried(st)
    PROVE  ParallelInv'
<1>1. job \in [Job -> FutureRecord] /\ obj \in [PTicket -> PRecord] /\ file \in [PTicket -> PRecord]
      /\ futures \in Seq(Job)
    BY DEF ParallelInv, ParallelTyped
<1>2. futures # <<>> /\ at \in {"collect_dev", "retry"} /\ at' \in {"collect_dev", "retry"}
      /\ UNCHANGED <<pools, cut>>
    BY DEF DevelopmentCollected, DevelopmentRaised, DevelopmentFailed, DevelopmentRetried,
           ParallelInv, DevelopedHasReport
<1> DEFINE x == job[Head(futures)].t
<1>3. Head(futures) \in Waiting /\ Head(futures) \in Job
    BY <1>1, <1>2 DEF Waiting, Range
<1>4. x \in PTicket /\ obj[x].rep
    BY <1>2, <1>3 DEF ParallelInv, DevelopedHasReport
<1>5. \/ obj' = obj /\ file' \in {obj, file}
      \/ \E st \in {"investigating", "triaged", "in_review", "failed"} :
            obj' = WithRow(obj, x, st) /\ file' = obj'
    BY DEF DevelopmentCollected, DevelopmentRaised, DevelopmentFailed, DevelopmentRetried, SaveAll, WithRow
<1> HIDE DEF x
<1>6. /\ obj' \in [PTicket -> PRecord] /\ file' \in [PTicket -> PRecord]
      /\ \A t \in PTicket : obj'[t] = obj[t] \/ (obj[t].rep /\ obj'[t].rep)
  <2>1. CASE obj' = obj /\ file' \in {obj, file}
    BY <1>1, <2>1
  <2>2. CASE \E st \in {"investigating", "triaged", "in_review", "failed"} :
                obj' = WithRow(obj, x, st) /\ file' = obj'
    <3>1. PICK st \in {"investigating", "triaged", "in_review", "failed"} :
              obj' = WithRow(obj, x, st) /\ file' = obj'
      BY <2>2
    <3>2. obj' \in [PTicket -> PRecord] /\ \A t \in PTicket : t # x => obj'[t] = obj[t]
      BY <1>1, <1>4, <3>1, RowChanges
    <3>3. obj'[x].rep
      BY <1>1, <1>4, <3>1, RowChanges
    <3> QED
      BY <1>4, <3>1, <3>2, <3>3
  <2> QED
    BY <1>5, <2>1, <2>2
<1>7. CASE NextFuture /\ at' = "collect_dev"
    BY <1>2, <1>6, <1>7, NextFutureJobs, DevelopmentStep
<1>8. CASE UNCHANGED <<job, futures>>
  <2>1. \A j \in Waiting' : job'[j].kind = "develop"
    BY <1>2, <1>8 DEF ParallelInv, DevelopedHasReport, Waiting
  <2> QED
    BY <1>1, <1>2, <1>6, <1>8, <2>1, DevelopmentStep
<1>9. (NextFuture /\ at' = "collect_dev") \/ UNCHANGED <<job, futures>>
    BY DEF DevelopmentCollected, DevelopmentRaised, DevelopmentFailed, DevelopmentRetried
<1> QED
    BY <1>7, <1>8, <1>9

\* A thread releases a tree; a future it waited for is forgotten.
LEMMA DeferredReleaseInv == ASSUME ParallelInv, NEW j \in Job, DeferredRelease(j) PROVE ParallelInv'
<1>1. job \in [Job -> FutureRecord] /\ obj \in [PTicket -> PRecord] /\ file \in [PTicket -> PRecord]
      /\ futures \in Seq(Job) /\ Waiting \subseteq Job
    BY DEF ParallelInv, ParallelTyped, Waiting, Range
<1>2. job' = Swept(job, Waiting \cup (deferred \ {j})) /\ UNCHANGED <<obj, file, pools, cut, at, left, futures>>
    BY DEF DeferredRelease, runner
<1>3. /\ job' \in [Job -> FutureRecord] /\ \A i \in Job : job'[i] = job[i] \/ job'[i] = Idle
      /\ \A i \in Waiting : job'[i] = job[i]
    BY <1>1, <1>2, SweptJobs
<1> QED
    BY <1>1, <1>2, <1>3, DevelopmentStep

\* A ticket that nobody works on is set back.
LEMMA StaleTicketInv == ASSUME ParallelInv, NEW t0 \in PTicket, StaleTicket(t0) PROVE ParallelInv'
<1> DEFINE st0 == IF obj[t0].st = "investigating" THEN "triaged" ELSE "investigation_complete"
<1>1. obj' = WithRow(obj, t0, st0) /\ file' = obj' /\ st0 \in {"triaged", "investigation_complete"}
      /\ UNCHANGED <<job, pools, cut, at, left, futures>>
    BY DEF StaleTicket, SaveAll, runner, WithRow
<1> HIDE DEF st0
<1>2. obj \in [PTicket -> PRecord]
    BY DEF ParallelInv, ParallelTyped
<1>3. /\ obj' \in [PTicket -> PRecord] /\ \A t \in PTicket : obj'[t].rep = obj[t].rep
      /\ \A t \in PTicket : t # t0 => obj'[t] = obj[t]
    BY <1>1, <1>2, RowChanges
<1>4. ParallelTyped'
    BY <1>1, <1>3 DEF ParallelInv, ParallelTyped
<1>5. DevelopedHasReport'
    BY <1>1, <1>3 DEF ParallelInv, DevelopedHasReport, Waiting
<1>6. ASSUME NEW t \in PTicket \ cut' PROVE TicketSound(t)'
  <2>1. TicketSound(t) /\ \A j \in Job : job[j].t = t0 => ~Alive(j)
    BY <1>1 DEF ParallelInv, StaleTicket
  <2>2. \A j \in Job : InvestigationOf(j, t) /\ job[j].st = "running" =>
            obj'[t].st = "investigating" /\ ~obj'[t].rep
    BY <1>3, <2>1 DEF TicketSound, RunningIsMarked, InvestigationOf, Alive
  <2> QED
    BY <1>1, <2>1, <2>2, TicketStays DEF InvestigationOf, TicketSound, QueuedIsAwaited, LeftIsIdle,
       Alive, Waiting
<1> QED
    BY <1>4, <1>5, <1>6 DEF ParallelInv

\* A thread's step after which its future is not alive, and which leaves the
\* rows alone that other investigations run for.
LEMMA ThreadGoesOn ==
    ASSUME ParallelInv, NEW j \in Job, job' \in [Job -> FutureRecord],
           \A i \in Job : \/ job'[i] = job[i]
                          \/ i \notin Waiting /\ job'[i] = Idle
                          \/ /\ i = j /\ job'[i].t = job[i].t /\ job'[i].kind = job[i].kind
                             /\ job'[i].st \notin {"queued", "running"} /\ job[i].st # "free"
                             /\ job'[i].st = "loaded" => job'[i].snap \in [PTicket -> PRecord],
           obj' \in [PTicket -> PRecord], file' \in [PTicket -> PRecord],
           \A t \in PTicket : obj[t].rep => obj'[t].rep,
           \A t \in PTicket \ cut : \A i \in Job :
               InvestigationOf(i, t) /\ job[i].st = "running" /\ job'[i].st = "running" =>
                   obj'[t] = obj[t],
           UNCHANGED <<pools, cut, at, left, futures>>
    PROVE  ParallelInv'
<1>1. Idle \in FutureRecord /\ Idle.st = "free" /\ Idle.kind = "investigate"
    BY DEF Idle, FutureRecord, JobStates
<1>2. \A i \in Job : job'[i].st = "loaded" => job'[i].snap \in [PTicket -> PRecord]
    BY <1>1 DEF ParallelInv, ParallelTyped
<1>3. \A i \in Job : job'[i].st # "free" => job'[i].t \in PTicket
    BY <1>1 DEF ParallelInv, ParallelTyped
<1>4. ParallelTyped'
    BY <1>2, <1>3 DEF ParallelInv, ParallelTyped
<1>5. Waiting \subseteq Job /\ Waiting' = Waiting
    BY DEF Waiting, Range, ParallelInv, ParallelTyped
<1>6. \A i \in Job : job'[i].kind = "develop" => job[i].kind = "develop" /\ job'[i].t = job[i].t
    BY <1>1
<1>7. \A i \in Waiting : job'[i].kind = job[i].kind
    BY <1>1, <1>5
<1>8. DevelopedHasReport'
    BY <1>5, <1>6, <1>7 DEF ParallelInv, DevelopedHasReport
<1>9. ASSUME NEW t \in PTicket \ cut' PROVE TicketSound(t)'
  <2>1. TicketSound(t)
    BY DEF ParallelInv
  <2>2. \A i \in Job : (InvestigationOf(i, t) /\ Alive(i))' => job'[i] = job[i]
    BY <1>1 DEF Alive
  <2>3. \A i \in Job : (InvestigationOf(i, t) /\ Alive(i))' => InvestigationOf(i, t) /\ Alive(i)
    BY <2>2 DEF InvestigationOf, Alive
  <2>4. RunningIsMarked(t)'
    <3> SUFFICES ASSUME NEW i \in Job, InvestigationOf(i, t)', job'[i].st = "running"
                 PROVE  obj'[t].st = "investigating" /\ ~obj'[t].rep
      BY DEF RunningIsMarked
    <3>1. InvestigationOf(i, t) /\ job[i].st = "running" /\ job'[i] = job[i]
      BY <2>2, <2>3 DEF Alive
    <3> QED
      BY <2>1, <3>1 DEF TicketSound, RunningIsMarked
  <2>5. QueuedIsAwaited(t)' /\ LeftIsIdle(t)' /\ OneAlive(t)'
    BY <1>5, <2>1, <2>2, <2>3 DEF TicketSound, QueuedIsAwaited, LeftIsIdle, OneAlive, Alive
  <2> QED
    BY <2>4, <2>5 DEF TicketSound
<1> QED
    BY <1>4, <1>8, <1>9 DEF ParallelInv

\* A session ends, and its ticket's row is the session's outcome.
LEMMA SessionEndsInv == ASSUME ParallelInv, NEW j \in Job, NEW r \in PRecord, SessionEnds(j, r) PROVE ParallelInv'
<1> DEFINE x == job[j].t
<1> DEFINE ok == r.st \in {"investigation_complete", "in_review"} /\ r # obj[x]
<1>1. /\ job \in [Job -> FutureRecord] /\ obj \in [PTicket -> PRecord] /\ file \in [PTicket -> PRecord]
      /\ job[j].st = "running" /\ x \in PTicket
    BY DEF SessionEnds, ParallelInv, ParallelTyped
<1>2. /\ obj' = [obj EXCEPT ![x] = r] /\ file' = file /\ UNCHANGED <<pools, cut, at, left, futures>>
      /\ job' = [job EXCEPT ![j] = [job[j] EXCEPT !.st = "ended", !.ok = ok]]
    BY <1>1 DEF SessionEnds, runner
<1>3. ok \in BOOLEAN
    OBVIOUS
<1> HIDE DEF ok
<1>4. /\ job' \in [Job -> FutureRecord] /\ \A i \in Job : i # j => job'[i] = job[i]
      /\ job'[j].t = job[j].t /\ job'[j].kind = job[j].kind /\ job'[j].st = "ended"
    BY <1>1, <1>2, <1>3 DEF FutureRecord, JobStates
<1>5. job[j].kind = "develop" => obj[x].rep
    BY DEF ParallelInv, DevelopedHasReport
<1>6. obj[x].rep => r.rep
    BY <1>1 DEF SessionEnds, Outcome, PRecord
<1>7. obj' \in [PTicket -> PRecord] /\ \A t \in PTicket : obj[t].rep => obj'[t].rep
    BY <1>1, <1>2, <1>6
<1>8. ASSUME NEW t \in PTicket \ cut, NEW i \in Job, InvestigationOf(i, t),
             job[i].st = "running", job'[i].st = "running"
      PROVE  obj'[t] = obj[t]
  <2>1. TicketSound(t) /\ i # j
    BY <1>4, <1>8 DEF ParallelInv
  <2>2. CASE t # x
    BY <1>1, <1>2, <2>2
  <2>3. CASE t = x
    <3>1. job[j].kind \in {"investigate", "develop"}
      BY <1>1 DEF FutureRecord
    <3>2. job[j].kind = "develop" => FALSE
      BY <1>5, <1>8, <2>1, <2>3 DEF TicketSound, RunningIsMarked
    <3>3. job[j].kind = "investigate" => FALSE
      BY <1>1, <1>8, <2>1, <2>3 DEF TicketSound, OneAlive, Alive, InvestigationOf
    <3> QED
      BY <3>1, <3>2, <3>3
  <2> QED
    BY <2>2, <2>3
<1> QED
    BY <1>1, <1>2, <1>4, <1>7, <1>8, ThreadGoesOn

\* A pool thread begins with a future: an investigation only of a ticket that
\* has no report, a development only of one whose investigation is over.
LEMMA SessionStartsInv == ASSUME ParallelInv, NEW j \in Job, SessionStarts(j) PROVE ParallelInv'
<1> DEFINE x == job[j].t
<1>1. /\ job \in [Job -> FutureRecord] /\ obj \in [PTicket -> PRecord] /\ file \in [PTicket -> PRecord]
      /\ job[j].st = "queued" /\ x \in PTicket /\ job[j].kind \in {"investigate", "develop"}
    BY DEF SessionStarts, ParallelInv, ParallelTyped, FutureRecord
<1>2. file' = file /\ UNCHANGED <<pools, cut, at, left, futures>>
    BY DEF SessionStarts, runner
<1>3. CASE ~MayDevelop(j)
  <2>1. obj' = obj /\ job' = [job EXCEPT ![j] = [job[j] EXCEPT !.st = "ended"]]
    BY <1>1, <1>3 DEF SessionStarts
  <2>2. /\ job' \in [Job -> FutureRecord] /\ \A i \in Job : i # j => job'[i] = job[i]
        /\ job'[j].t = job[j].t /\ job'[j].kind = job[j].kind /\ job'[j].st = "ended"
    BY <1>1, <2>1 DEF FutureRecord, JobStates
  <2> QED
    BY <1>1, <1>2, <2>1, <2>2, ThreadGoesOn
<1>4. CASE MayDevelop(j)
  <2> DEFINE st0 == IF job[j].kind = "investigate" THEN "investigating" ELSE "in_development"
  <2>1. /\ obj' = WithRow(obj, x, st0) /\ job' = [job EXCEPT ![j] = [job[j] EXCEPT !.st = "running"]]
        /\ st0 \in {"investigating", "in_development"} /\ (job[j].kind = "investigate" => st0 = "investigating")
    BY <1>1, <1>4 DEF SessionStarts, WithRow
  <2> HIDE DEF st0
  <2>2. /\ job' \in [Job -> FutureRecord] /\ \A i \in Job : i # j => job'[i] = job[i]
        /\ job'[j].t = job[j].t /\ job'[j].kind = job[j].kind /\ job'[j].st = "running"
    BY <1>1, <2>1 DEF FutureRecord, JobStates
  <2>3. /\ obj' \in [PTicket -> PRecord] /\ \A t \in PTicket : obj'[t].rep = obj[t].rep
        /\ \A t \in PTicket : t # x => obj'[t] = obj[t]
        /\ obj'[x].st = st0
    BY <1>1, <2>1, RowChanges
  <2>4. ParallelTyped'
    BY <1>1, <1>2, <2>2, <2>3 DEF ParallelInv, ParallelTyped
  <2>5. Waiting \subseteq Job /\ Waiting' = Waiting
    BY <1>2 DEF Waiting, Range, ParallelInv, ParallelTyped
  <2>6. DevelopedHasReport'
    BY <1>2, <2>2, <2>3, <2>5 DEF ParallelInv, DevelopedHasReport
  <2>7. ASSUME NEW t \in PTicket \ cut' PROVE TicketSound(t)'
    <3>1. TicketSound(t)
      BY <1>2 DEF ParallelInv
    <3>2. \A i \in Job : (InvestigationOf(i, t) /\ Alive(i))' => InvestigationOf(i, t) /\ Alive(i)
      BY <1>1, <2>2 DEF InvestigationOf, Alive
    <3>3. ASSUME NEW i \in Job, InvestigationOf(i, t)', job'[i].st = "running"
          PROVE  obj'[t].st = "investigating" /\ ~obj'[t].rep
      <4>1. CASE i = j
        BY <1>4, <2>1, <2>2, <2>3, <3>3, <4>1 DEF MayDevelop, InvestigationOf
      <4>2. CASE i # j
        <5>1. InvestigationOf(i, t) /\ job[i].st = "running"
          BY <2>2, <3>3, <4>2 DEF InvestigationOf
        <5>2. obj[t].st = "investigating" /\ ~obj[t].rep
          BY <3>1, <5>1 DEF TicketSound, RunningIsMarked
        <5>3. CASE t # x
          BY <2>3, <5>2, <5>3
        <5>4. CASE t = x
          <6>1. job[j].kind = "investigate" => FALSE
            BY <1>1, <3>1, <4>2, <5>1, <5>4 DEF TicketSound, OneAlive, Alive, InvestigationOf
          <6>2. job[j].kind = "develop" => FALSE
            BY <5>2, <5>4 DEF ParallelInv, DevelopedHasReport
          <6> QED
            BY <1>1, <6>1, <6>2
        <5> QED
          BY <5>3, <5>4
      <4> QED
        BY <4>1, <4>2
    <3>4. RunningIsMarked(t)'
      BY <3>3 DEF RunningIsMarked
    <3>5. QueuedIsAwaited(t)' /\ LeftIsIdle(t)' /\ OneAlive(t)'
      <4>1. \A i \in Job : InvestigationOf(i, t)' /\ job'[i].st = "queued" =>
                InvestigationOf(i, t) /\ job[i].st = "queued"
        BY <2>2 DEF InvestigationOf
      <4> QED
        BY <1>2, <2>5, <3>1, <3>2, <4>1 DEF TicketSound, QueuedIsAwaited, LeftIsIdle, OneAlive
    <3> QED
      BY <3>4, <3>5 DEF TicketSound
  <2> QED
    BY <2>4, <2>6, <2>7 DEF ParallelInv
<1> QED
    BY <1>3, <1>4

\* The other steps of a pool thread.
LEMMA ThreadInv ==
    ASSUME ParallelInv, NEW j \in Job, SessionRateLimited(j) \/ PersistLoads(j) \/ PersistWrites(j)
    PROVE  ParallelInv'
<1>1. /\ job \in [Job -> FutureRecord] /\ obj \in [PTicket -> PRecord] /\ file \in [PTicket -> PRecord]
      /\ job[j] \in FutureRecord /\ obj' = obj /\ UNCHANGED <<pools, cut, at, left, futures>>
    BY DEF SessionRateLimited, PersistLoads, PersistWrites, ParallelInv, ParallelTyped, runner
<1>2. CASE SessionRateLimited(j)
  <2> DEFINE J == [job EXCEPT ![j] = [job[j] EXCEPT !.st = "raised"]]
  <2>1. /\ J \in [Job -> FutureRecord] /\ \A i \in Job : i # j => J[i] = job[i]
        /\ J[j].t = job[j].t /\ J[j].kind = job[j].kind /\ J[j].st = "raised"
    BY <1>1 DEF FutureRecord, JobStates
  <2>2. job' = Swept(J, Waiting \cup deferred) /\ job[j].st = "running" /\ file' = file
    BY <1>1, <1>2 DEF SessionRateLimited
  <2> HIDE DEF J
  <2>3. job' \in [Job -> FutureRecord] /\ \A i \in Job : job'[i] = J[i] \/ (i \notin Waiting /\ job'[i] = Idle)
    BY <2>1, <2>2, SweptJobs
  <2>4. \A i \in Job :
            \/ job'[i] = job[i]
            \/ i \notin Waiting /\ job'[i] = Idle
            \/ /\ i = j /\ job'[i].t = job[i].t /\ job'[i].kind = job[i].kind
               /\ job'[i].st \notin {"queued", "running"} /\ job[i].st # "free"
               /\ job'[i].st = "loaded" => job'[i].snap \in [PTicket -> PRecord]
    BY <2>1, <2>2, <2>3
  <2> QED
    BY <1>1, <2>2, <2>3, <2>4, ThreadGoesOn
<1>3. CASE PersistLoads(j)
  <2>1. job' = [job EXCEPT ![j] = [job[j] EXCEPT !.st = "loaded", !.snap = file]]
        /\ job[j].st = "ended" /\ file' = file
    BY <1>1, <1>3 DEF PersistLoads
  <2>2. /\ job' \in [Job -> FutureRecord] /\ \A i \in Job : i # j => job'[i] = job[i]
        /\ job'[j].t = job[j].t /\ job'[j].kind = job[j].kind /\ job'[j].st = "loaded"
        /\ job'[j].snap = file
    BY <1>1, <2>1 DEF FutureRecord, JobStates
  <2> QED
    BY <1>1, <2>1, <2>2, ThreadGoesOn
<1>4. CASE PersistWrites(j)
  <2> DEFINE J == [job EXCEPT ![j] = [job[j] EXCEPT !.st = "done", !.snap = "none"]]
  <2>1. /\ J \in [Job -> FutureRecord] /\ \A i \in Job : i # j => J[i] = job[i]
        /\ J[j].t = job[j].t /\ J[j].kind = job[j].kind /\ J[j].st = "done"
    BY <1>1 DEF FutureRecord, JobStates
  <2>2. job' = Swept(J, Waiting \cup deferred) /\ job[j].st = "loaded"
        /\ file' = [job[j].snap EXCEPT ![job[j].t] = obj[job[j].t]]
    BY <1>1, <1>4 DEF PersistWrites
  <2> HIDE DEF J
  <2>3. job' \in [Job -> FutureRecord] /\ \A i \in Job : job'[i] = J[i] \/ (i \notin Waiting /\ job'[i] = Idle)
    BY <2>1, <2>2, SweptJobs
  <2>4. job[j].snap \in [PTicket -> PRecord] /\ job[j].t \in PTicket
    BY <2>2 DEF ParallelInv, ParallelTyped
  <2>5. file' \in [PTicket -> PRecord]
    BY <1>1, <2>2, <2>4
  <2>6. \A i \in Job :
            \/ job'[i] = job[i]
            \/ i \notin Waiting /\ job'[i] = Idle
            \/ /\ i = j /\ job'[i].t = job[i].t /\ job'[i].kind = job[i].kind
               /\ job'[i].st \notin {"queued", "running"} /\ job[i].st # "free"
               /\ job'[i].st = "loaded" => job'[i].snap \in [PTicket -> PRecord]
    BY <2>1, <2>2, <2>3
  <2> QED
    BY <1>1, <2>3, <2>5, <2>6, ThreadGoesOn
<1> QED
    BY <1>2, <1>3, <1>4

\* A process that is started again has no futures.
LEMMA ParallelCrashInv == ASSUME ParallelInv, ParallelCrash PROVE ParallelInv'
<1>1. Idle \in FutureRecord /\ Idle.st = "free" /\ Idle.kind = "investigate"
    BY DEF Idle, FutureRecord, JobStates
<1>2. /\ job' = [j \in Job |-> Idle] /\ obj' = file /\ file' = file /\ pools' = <<Base>>
      /\ futures' = <<>> /\ at' = "idle"
    BY DEF ParallelCrash
<1>3. \A j \in Job : job'[j].st = "free" /\ job'[j].kind = "investigate"
    BY <1>1, <1>2
<1>4. ParallelTyped'
  <2>1. pools' \in Seq(Profiles) /\ futures' \in Seq(Job)
    BY <1>2, ParallelAssumption
  <2>2. job' \in [Job -> FutureRecord]
    BY <1>1, <1>2
  <2> QED
    BY <1>2, <1>3, <2>1, <2>2 DEF ParallelInv, ParallelTyped
<1> QED
    BY <1>2, <1>3, <1>4 DEF ParallelInv, DevelopedHasReport, TicketSound, RunningIsMarked,
       QueuedIsAwaited, LeftIsIdle, OneAlive, Alive

\* Every step keeps the invariant.
LEMMA ParallelNextInv == ParallelInv /\ [ParallelNext]_parVars => ParallelInv'
<1> SUFFICES ASSUME ParallelInv, [ParallelNext]_parVars PROVE ParallelInv'
    OBVIOUS
<1>1. CASE RunnerInvestigates
    BY <1>1, RunnerGoesOn, SubmitInvestigationInv, CollectionEnds DEF RunnerInvestigates
<1>2. CASE RunnerDevelops
    BY <1>2, RunnerGoesOn, SubmitDevelopmentInv, DevelopmentEnds DEF RunnerDevelops
<1>3. CASE \E j \in Job : PoolThread(j)
    BY <1>3, SessionStartsInv, SessionEndsInv, ThreadInv DEF PoolThread
<1>4. CASE ReleaseThread
    BY <1>4, RunnerGoesOn, DeferredReleaseInv DEF ReleaseThread
<1>5. CASE UNCHANGED parVars
    BY <1>5 DEF parVars, ParallelInv, ParallelTyped, DevelopedHasReport, TicketSound, RunningIsMarked,
       QueuedIsAwaited, LeftIsIdle, OneAlive, InvestigationOf, Alive, Waiting
<1> QED
    BY <1>1, <1>2, <1>3, <1>4, <1>5, StaleTicketInv, ParallelCrashInv DEF ParallelNext

\* At most one investigation of a ticket waits or runs, however often the
\* runner stops waiting, submits again, changes its pools and is restarted
\* (_run_parallel_investigations with ParallelExecutor.collect_results).
THEOREM InvestigatedOnce == ParallelSpec => []OneInvestigationAtATime
<1>1. ParallelInit => ParallelInv
    BY ParallelInitInv
<1>2. ParallelInv /\ [ParallelNext]_parVars => ParallelInv'
    BY ParallelNextInv
<1>3. ParallelInv => OneInvestigationAtATime
  <2> SUFFICES ASSUME ParallelInv, NEW t \in PTicket \ cut
               PROVE  Cardinality({j \in Job : InvestigationOf(j, t) /\ Alive(j)}) <= 1
    BY DEF OneInvestigationAtATime, InvestigationOf
  <2> DEFINE S == {j \in Job : InvestigationOf(j, t) /\ Alive(j)}
  <2>1. \A i, j \in S : i = j
    BY DEF ParallelInv, TicketSound, OneAlive
  <2> HIDE DEF S
  <2>2. CASE S = {}
    BY <2>2, FS_EmptySet DEF S
  <2>3. CASE S # {}
    <3>1. PICK k \in S : S = {k}
      BY <2>1, <2>3
    <3> QED
      BY <3>1, FS_Singleton DEF S
  <2> QED
    BY <2>2, <2>3
<1> QED
    BY <1>1, <1>2, <1>3, PTL DEF ParallelSpec

-----------------------------------------------------------------------------
(* The gates of a cycle: why pauses outlive restarts.                       *)

\* The attempts that count, as the file has them and as they were.
BreakerRecord == [results : Seq(BOOLEAN), left : Nat]

\* The lock file says what is owed, and a cycle got past it only when nothing
\* was; the breaker's file, where it can be written, has the last attempts.
PausesAreKept ==
    /\ lockfile \in [left : Nat, owed : Nat] /\ lockfile.left = lockfile.owed
    /\ cyc \in {"sleep", "probe", "checks", "work"} /\ (cyc # "sleep" => lockfile.owed = 0)
    /\ past \in BreakerRecord /\ (~DiskFails => breaker = past)

\* Keeping the last results of all and dropping the first are the same.
LEMMA WindowIsExact ==
    ASSUME NEW b \in BreakerRecord, NEW ok \in BOOLEAN
    PROVE  Recorded(b, ok) = Attempted(b, ok) /\ Attempted(b, ok) \in BreakerRecord
<1> DEFINE all == Append(b.results, ok)
<1>1. all \in Seq(BOOLEAN) /\ all # <<>> /\ Len(all) \in Nat /\ Len(all) >= 1
    BY DEF BreakerRecord
<1> DEFINE s == SubSeq(all, IF Len(all) > BreakerWindow THEN 2 ELSE 1, Len(all))
<1> HIDE DEF all
<1>2. Tail(all) = SubSeq(all, 2, Len(all)) /\ SubSeq(all, 1, Len(all)) = all
    BY <1>1
<1>3. Window(all) = s /\ s \in Seq(BOOLEAN)
    BY <1>1, <1>2 DEF Window
<1> HIDE DEF s
<1>4. /\ Recorded(b, ok) = [results |-> s, left |-> IF Trips(s) THEN PauseFor ELSE b.left]
      /\ Attempted(b, ok) = [results |-> s, left |-> IF Trips(s) THEN PauseFor ELSE b.left]
    BY <1>3 DEF Recorded, Attempted, all, s
<1>5. (IF Trips(s) THEN PauseFor ELSE b.left) \in Nat
    BY GatesAssumption DEF BreakerRecord
<1> QED
    BY <1>3, <1>4, <1>5 DEF BreakerRecord

\* Every step keeps the pauses.
LEMMA PausesNext == PausesAreKept /\ [GatesNext]_gateVars => PausesAreKept'
<1> SUFFICES ASSUME PausesAreKept, [GatesNext]_gateVars PROVE PausesAreKept'
    OBVIOUS
<1> USE DEF PausesAreKept
<1>1. CASE UNCHANGED <<lockfile, breaker, past, cyc>>
    BY <1>1
<1>2. CASE UNCHANGED <<lockfile, breaker, past>> /\ cyc' = "sleep"
    BY <1>2
<1>3. CASE CheckLockfile \/ CheckBreaker
    BY <1>3 DEF CheckLockfile, CheckBreaker
<1>4. CASE ValidateAndPatchEnv \/ ProxyUnreachable
    BY <1>4 DEF ValidateAndPatchEnv, ProxyUnreachable
<1>5. CASE PreflightFails \/ EndCycle \/ GatesRestart
    BY <1>2, <1>5 DEF PreflightFails, EndCycle, GatesRestart
<1>6. CASE RecordResult
  <2>1. PICK ok \in BOOLEAN :
            /\ past' = Attempted(past, ok)
            /\ breaker' \in {Recorded(breaker, ok)} \cup (IF DiskFails THEN {breaker} ELSE {})
    BY <1>6 DEF RecordResult
  <2>2. past' \in BreakerRecord /\ Recorded(past, ok) = Attempted(past, ok)
    BY <2>1, WindowIsExact
  <2> QED
    BY <1>6, <2>1, <2>2 DEF RecordResult
<1>7. CASE GlobalCooldown
    BY <1>7, GatesAssumption DEF GlobalCooldown
<1>8. CASE GatesTick
  <2>1. lockfile' = [left |-> Over(lockfile.left), owed |-> Over(lockfile.owed)] /\ cyc' = cyc
    BY <1>8 DEF GatesTick
  <2>2. \A n \in Nat : Over(n) \in Nat /\ Over(0) = 0
    BY DEF Over
  <2>3. past' \in BreakerRecord
    BY <1>8, <2>2 DEF GatesTick, BreakerRecord
  <2>4. ~DiskFails => breaker' = past'
    BY <1>8 DEF GatesTick
  <2> QED
    BY <2>1, <2>2, <2>3, <2>4
<1>9. CASE Send \/ OnRateLimitHit \/ OnRateLimitWarning \/ OnRequestSuccess \/ ReadState
           \/ CheckRateLimit \/ RecordSkip \/ UNCHANGED gateVars
    BY <1>1, <1>9 DEF Send, OnRateLimitHit, OnRateLimitWarning, OnRequestSuccess, ReadState,
       CheckRateLimit, RecordSkip, gateVars
<1> QED
    BY <1>3, <1>4, <1>5, <1>6, <1>7, <1>8, <1>9 DEF GatesNext

\* A restart finds the pauses in the files: no cycle gets to its work while a
\* cooldown or the breaker's pause is owed, as long as the breaker's file can
\* be written (swe_team_runner.py run_cycle, circuit_breaker.py).
THEOREM PausesAreHonoured ==
    ASSUME ~DiskFails PROVE GatesSpec => PausesOutliveRestarts /\ []BreakerIsExact
<1>1. GatesInit => PausesAreKept
    BY DEF GatesInit, PausesAreKept, BreakerRecord
<1>2. PausesAreKept /\ [GatesNext]_gateVars => PausesAreKept'
    BY PausesNext
<1>3. PausesAreKept /\ [GatesNext]_gateVars =>
          [cyc # "work" /\ cyc' = "work" => lockfile.owed = 0 /\ past.left = 0]_gateVars
  <2> SUFFICES ASSUME PausesAreKept, GatesNext, cyc # "work", cyc' = "work"
               PROVE  lockfile.owed = 0 /\ past.left = 0
    BY DEF gateVars
  <2>1. CheckBreaker
    BY DEF GatesNext, CheckLockfile, ValidateAndPatchEnv, ProxyUnreachable, PreflightFails,
           RecordResult, RecordSkip, GlobalCooldown, EndCycle, GatesRestart, Send, OnRateLimitHit,
           OnRateLimitWarning, OnRequestSuccess, ReadState, CheckRateLimit, GatesTick, gateVars
  <2> QED
    BY <2>1 DEF CheckBreaker, PausesAreKept, BreakerRecord
<1>4. PausesAreKept => BreakerIsExact
    BY DEF PausesAreKept, BreakerIsExact
<1> QED
    BY <1>1, <1>2, <1>3, <1>4, PTL DEF GatesSpec, PausesOutliveRestarts

-----------------------------------------------------------------------------
(* A provider's rate limit life cycle.                                      *)

\* Successes that count towards recovery came after the last complaint.
CountedIsEarned ==
    /\ life = [state |-> life.state, level |-> life.level, left |-> life.left, good |-> life.good,
               run |-> life.run, out |-> life.out]
    /\ life.good \in Nat /\ life.run \in Nat
    /\ life.good <= life.run
    /\ life.state = "normal" => life.run >= RecoverySuccesses

\* A provider counts as normal only after enough successes since it last
\* complained, whatever was in flight at that time (RateLimitLifecycle).
THEOREM RecoveriesAreEarned == GatesSpec => []RecoveryIsEarned
<1>1. GatesInit => CountedIsEarned
    BY GatesAssumption DEF GatesInit, CountedIsEarned
<1>2. CountedIsEarned /\ [GatesNext]_gateVars => CountedIsEarned'
  <2> SUFFICES ASSUME CountedIsEarned, [GatesNext]_gateVars PROVE CountedIsEarned'
    OBVIOUS
  <2> USE GatesAssumption DEF CountedIsEarned
  <2>1. CASE UNCHANGED life
    BY <2>1
  <2>2. CASE Send
    BY <2>2 DEF Send
  <2>3. CASE OnRateLimitHit
    <3> DEFINE up == life.level + 1
               for == Cooldown(life.level)
               rest == life.out - 1
    <3>1. life' = [life EXCEPT !.state = "cooldown", !.level = up, !.left = for, !.good = 0,
                               !.run = 0, !.out = rest]
      BY <2>3 DEF OnRateLimitHit
    <3> HIDE DEF up, for, rest
    <3>2. life' = [state |-> "cooldown", level |-> up, left |-> for, good |-> 0, run |-> 0, out |-> rest]
      BY <3>1
    <3> QED
      BY <3>2
  <2>4. CASE OnRateLimitWarning
    <3> DEFINE st == IF life.state = "normal" THEN "throttled" ELSE life.state
               rest == life.out - 1
    <3>1. life' = [life EXCEPT !.state = st, !.good = 0, !.run = 0, !.out = rest]
      BY <2>4 DEF OnRateLimitWarning
    <3>2. st # "normal"
      OBVIOUS
    <3> HIDE DEF st, rest
    <3>3. life' = [state |-> st, level |-> life.level, left |-> life.left, good |-> 0, run |-> 0,
                   out |-> rest]
      BY <3>1
    <3> QED
      BY <3>2, <3>3
  <2>5. CASE OnRequestSuccess
    <3> DEFINE counted == life.state \in {"throttled", "recovering"}
               back == counted /\ life.good + 1 >= RecoverySuccesses
    <3>1. /\ life'.state = IF back THEN "normal" ELSE life.state
          /\ life'.good = IF back THEN 0 ELSE IF counted THEN life.good + 1 ELSE life.good
          /\ life'.run = IF life.run < RecoverySuccesses THEN life.run + 1 ELSE life.run
          /\ life' = [state |-> life'.state, level |-> life'.level, left |-> life'.left,
                      good |-> life'.good, run |-> life'.run, out |-> life'.out]
      BY <2>5 DEF OnRequestSuccess
    <3> QED
      BY <3>1
  <2>6. CASE ReadState
    BY <2>6 DEF ReadState
  <2>7. CASE GatesRestart
    <3>1. life' = [state |-> "normal", level |-> 0, left |-> 0, good |-> 0,
                   run |-> RecoverySuccesses, out |-> 0]
      BY <2>7 DEF GatesRestart
    <3> QED
      BY <3>1
  <2>8. CASE GatesTick
    <3> DEFINE less == Over(life.left)
    <3>1. life' = [life EXCEPT !.left = less]
      BY <2>8 DEF GatesTick
    <3> HIDE DEF less
    <3>2. life' = [state |-> life.state, level |-> life.level, left |-> less, good |-> life.good,
                   run |-> life.run, out |-> life.out]
      BY <3>1
    <3> QED
      BY <3>2
  <2>9. CASE CheckLockfile \/ ValidateAndPatchEnv \/ ProxyUnreachable \/ PreflightFails \/ CheckBreaker
             \/ RecordResult \/ RecordSkip \/ GlobalCooldown \/ EndCycle \/ CheckRateLimit
             \/ UNCHANGED gateVars
    BY <2>1, <2>9 DEF CheckLockfile, ValidateAndPatchEnv, ProxyUnreachable, PreflightFails,
       CheckBreaker, RecordResult, RecordSkip, GlobalCooldown, EndCycle, CheckRateLimit, gateVars
  <2> QED
    BY <2>2, <2>3, <2>4, <2>5, <2>6, <2>7, <2>8, <2>9 DEF GatesNext
<1>3. CountedIsEarned => RecoveryIsEarned
    BY DEF CountedIsEarned, RecoveryIsEarned
<1> QED
    BY <1>1, <1>2, <1>3, PTL DEF GatesSpec

-----------------------------------------------------------------------------
(* The circuit breaker of the gh command.                                   *)

GhRecord == [failures : Nat, age : Nat, pause : Nat, alerted : BOOLEAN, escalated : BOOLEAN]
QuietRecord == [since : Nat, alerts : Nat, early : BOOLEAN]

\* An open breaker's pause covers what is left of RetryAfter since the last
\* failure; an outage has sent an alert exactly when it says so, and one.
OutageIsTracked ==
    /\ gh \in GhRecord /\ quiet \in QuietRecord
    /\ gh.failures >= FailureThreshold => gh.pause + quiet.since >= RetryAfter
    /\ quiet.alerts <= IF gh.alerted THEN 1 ELSE 0
    /\ ~quiet.early

\* What a failure makes of the breaker.
LEMMA FailureIsCounted ==
    ASSUME NEW b \in GhRecord
    PROVE  /\ Failed(b) \in GhRecord /\ Failed(b) # Closed
           /\ Failed(b).failures >= FailureThreshold => Failed(b).pause = RetryAfter
           /\ b.alerted => Failed(b).alerted
<1> DEFINE f == CapAt(b.failures + 1, FailureThreshold + 1)
           p == IF b.failures + 1 >= FailureThreshold THEN RetryAfter ELSE b.pause
           al == b.alerted \/ b.failures + 1 >= FailureThreshold
           c == [b EXCEPT !.failures = f, !.pause = p, !.alerted = al]
           e == c.escalated \/ (c.failures > 0 /\ c.age >= EscalateAfter)
<1>1. /\ f \in Nat /\ f > 0 /\ (f >= FailureThreshold => b.failures + 1 >= FailureThreshold)
      /\ p \in Nat /\ (b.failures + 1 >= FailureThreshold => p = RetryAfter)
    BY GhAssumption DEF CapAt, GhRecord
<1>2. al \in BOOLEAN /\ (b.alerted => al)
    OBVIOUS
<1>3. Failed(b) = [c EXCEPT !.escalated = e]
    BY DEF Failed, Escalated
<1> HIDE DEF f, p, al
<1>4. c \in GhRecord /\ c.failures = f /\ c.pause = p /\ c.alerted = al
    BY <1>1, <1>2 DEF GhRecord
<1>5. e \in BOOLEAN
    BY <1>4 DEF GhRecord
<1> HIDE DEF e, c
<1>6. Failed(b) \in GhRecord /\ Failed(b).failures = f /\ Failed(b).pause = p /\ Failed(b).alerted = al
    BY <1>3, <1>4, <1>5 DEF GhRecord
<1> QED
    BY <1>1, <1>2, <1>6 DEF Closed

\* Every call, every tick and a restart keep the account of the outage.
LEMMA OutageNext == OutageIsTracked /\ [BreakerNext]_ghBreakerVars => OutageIsTracked'
<1> SUFFICES ASSUME OutageIsTracked, [BreakerNext]_ghBreakerVars PROVE OutageIsTracked'
    OBVIOUS
<1> USE DEF OutageIsTracked
<1>1. Closed \in GhRecord /\ Closed.failures = 0 /\ Closed.pause = 0 /\ Closed.alerted = FALSE
    BY DEF Closed, GhRecord
<1>2. CASE GhSkipped
  <2> DEFINE e == gh.escalated \/ (gh.failures > 0 /\ gh.age >= EscalateAfter)
  <2>1. gh' = [gh EXCEPT !.escalated = e] /\ quiet' = quiet
    BY <1>2 DEF GhSkipped, Escalated
  <2>2. e \in BOOLEAN
    BY DEF GhRecord
  <2> HIDE DEF e
  <2>3. /\ gh' \in GhRecord /\ gh'.failures = gh.failures /\ gh'.pause = gh.pause
        /\ gh'.alerted = gh.alerted
    BY <2>1, <2>2 DEF GhRecord
  <2> QED
    BY <2>1, <2>3
<1>3. gh.pause = 0 => ~(gh.failures >= FailureThreshold /\ quiet.since < RetryAfter)
    BY GhAssumption DEF GhRecord, QuietRecord
<1>4. CASE GhSucceeds
  <2>1. /\ gh' = Closed /\ gh.pause = 0
        /\ quiet' = [since |-> quiet.since, alerts |-> 0,
                     early |-> gh.failures >= FailureThreshold /\ quiet.since < RetryAfter]
    BY <1>4 DEF GhSucceeds, GhRuns
  <2>2. quiet' = [since |-> quiet.since, alerts |-> 0, early |-> FALSE]
    BY <1>3, <2>1
  <2> QED
    BY <1>1, <2>1, <2>2, GhAssumption DEF QuietRecord
<1>5. CASE GhFailsNow
  <2> DEFINE one == IF Failed(gh).alerted /\ ~gh.alerted THEN 1 ELSE 0
  <2>1. /\ gh' = Failed(gh) /\ gh.pause = 0 /\ Failed(gh) \in GhRecord /\ Failed(gh) # Closed
        /\ Failed(gh).failures >= FailureThreshold => Failed(gh).pause = RetryAfter
        /\ gh.alerted => Failed(gh).alerted
    BY <1>5, FailureIsCounted DEF GhFailsNow, GhRuns, PauseOver
  <2>2. quiet' = [since |-> 0, alerts |-> CapAt(quiet.alerts + one, 2),
                  early |-> gh.failures >= FailureThreshold /\ quiet.since < RetryAfter]
    BY <1>5, <2>1 DEF GhFailsNow, GhRuns, PauseOver
  <2>3. quiet'.early = FALSE /\ quiet'.since = 0 /\ quiet'.alerts = CapAt(quiet.alerts + one, 2)
    BY <1>3, <2>1, <2>2
  <2>4. /\ CapAt(quiet.alerts + one, 2) \in Nat
        /\ CapAt(quiet.alerts + one, 2) <= IF Failed(gh).alerted THEN 1 ELSE 0
    <3>1. quiet.alerts \in Nat
      BY DEF QuietRecord
    <3> QED
      BY <2>1, <3>1 DEF CapAt
  <2>5. quiet' \in QuietRecord
    BY <1>3, <2>1, <2>2, <2>4 DEF QuietRecord
  <2> QED
    BY <2>1, <2>3, <2>4, <2>5, GhAssumption
<1>6. CASE GhTick
  <2> DEFINE p == IF gh.pause > 0 THEN gh.pause - 1 ELSE 0
             a == IF gh.failures > 0 THEN CapAt(gh.age + 1, EscalateAfter) ELSE 0
             s == CapAt(quiet.since + 1, RetryAfter)
  <2>1. gh' = [gh EXCEPT !.pause = p, !.age = a] /\ quiet' = [quiet EXCEPT !.since = s, !.early = FALSE]
    BY <1>6 DEF GhTick
  <2>2. gh.pause \in Nat /\ gh.age \in Nat /\ gh.failures \in Nat /\ quiet.since \in Nat
    BY DEF GhRecord, QuietRecord
  <2>3. /\ p \in Nat /\ a \in Nat /\ s \in Nat
        /\ gh.pause + quiet.since >= RetryAfter => p + s >= RetryAfter
    BY <2>2, GhAssumption DEF CapAt
  <2> HIDE DEF p, a, s
  <2>4. gh' \in GhRecord /\ gh'.failures = gh.failures /\ gh'.alerted = gh.alerted /\ gh'.pause = p
    BY <2>1, <2>3 DEF GhRecord
  <2>5. quiet' \in QuietRecord /\ quiet'.since = s /\ quiet'.alerts = quiet.alerts /\ quiet'.early = FALSE
    BY <2>1, <2>3 DEF QuietRecord
  <2> QED
    BY <2>3, <2>4, <2>5
<1>7. CASE GhRestart
  <2>1. quiet' = [since |-> quiet.since, alerts |-> 0, early |-> FALSE] /\ gh' = Closed
    BY <1>7 DEF GhRestart, QuietRecord
  <2>2. quiet' \in QuietRecord
    BY <2>1 DEF QuietRecord
  <2> QED
    BY <1>1, <2>1, <2>2, GhAssumption
<1>8. CASE UNCHANGED ghBreakerVars
    BY <1>8 DEF ghBreakerVars
<1> QED
    BY <1>2, <1>4, <1>5, <1>6, <1>7, <1>8 DEF BreakerNext

\* One outage of GitHub sends one alert over all the pauses it lasts, and
\* nothing is tried before the pause since the last failure is over
\* (_run_gh and _record_github_cli_failure of github_integration.py).
THEOREM OutagesAreHandled == BreakerSpec => []OneAlertPerOutage /\ []NoEarlyRetry
<1>1. BreakerInit => OutageIsTracked
    BY GhAssumption DEF BreakerInit, OutageIsTracked, Closed, GhRecord, QuietRecord
<1>2. OutageIsTracked /\ [BreakerNext]_ghBreakerVars => OutageIsTracked'
    BY OutageNext
<1>3. OutageIsTracked => OneAlertPerOutage /\ NoEarlyRetry
    BY DEF OutageIsTracked, OneAlertPerOutage, NoEarlyRetry, QuietRecord
<1> QED
    BY <1>1, <1>2, <1>3, PTL DEF BreakerSpec

-----------------------------------------------------------------------------
(* The scheduler: why a job does not run twice at once, for any jobs, any   *)
(* size of the pool and any number of retries: callers may pause, resume    *)
(* and cancel jobs at any time, but neither trigger nor delete them, and a  *)
(* queued run starts before the next tick.                                  *)

Active(r) == run[r].at \in {"marked", "trying", "ended"}

\* A run is a record of four fields, in one of five places.
RunsAreRecords ==
    /\ run = [r \in Run |-> [j |-> run[r].j, at |-> run[r].at,
                             copy |-> run[r].copy, fails |-> run[r].fails]]
    /\ \A r \in Run : run[r].at \in {"free", "queued"} \/ Active(r)

\* A run that has begun has its mark.
ActiveIsMarked == \A r \in Run : Active(r) => run[r].j \in marked

\* A job whose run is queued has been looked at by the current tick.
QueuedIsLookedAt == \A r \in Run : run[r].at = "queued" => run[r].j \notin DOMAIN tick

\* Queued or begun, no job has two runs.
OneRunPerJob ==
    \A r, q \in Run : r # q /\ run[r].at # "free" /\ run[q].at # "free" => run[r].j # run[q].j

SchedInv == RunsAreRecords /\ ActiveIsMarked /\ QueuedIsLookedAt /\ OneRunPerJob

\* A scheduler without jobs and runs satisfies the invariant.
LEMMA SchedInitInv == SchedInit => SchedInv
BY DEF SchedInit, SchedInv, RunsAreRecords, ActiveIsMarked, QueuedIsLookedAt, OneRunPerJob, Active,
       NoRun

\* Steps that leave the runs, the marks and the tick alone keep it.
LEMMA ApiInv == ASSUME SchedInv, UNCHANGED <<run, marked, tick>>
                PROVE  SchedInv'
BY DEF SchedInv, RunsAreRecords, ActiveIsMarked, QueuedIsLookedAt, OneRunPerJob, Active

\* A step of one run, which stays in its place or goes on to a later one,
\* keeps it, as long as the marks of the other runs stay.
LEMMA OneRunInv ==
    ASSUME SchedInv, NEW r \in Run, NEW x,
           run' = [run EXCEPT ![r] = x],
           x = [j |-> x.j, at |-> x.at, copy |-> x.copy, fails |-> x.fails],
           run[r].at # "free", x.at \in {"marked", "trying", "ended"},
           x.j = run[r].j, marked' = marked \cup {run[r].j}, UNCHANGED tick
    PROVE  SchedInv'
<1>1. \A q \in Run : run'[q] = IF q = r THEN x ELSE run[q]
    BY DEF SchedInv, RunsAreRecords
<1>2. RunsAreRecords'
    BY <1>1 DEF SchedInv, RunsAreRecords, Active
<1>3. ActiveIsMarked' /\ QueuedIsLookedAt' /\ OneRunPerJob'
    BY <1>1 DEF SchedInv, ActiveIsMarked, QueuedIsLookedAt, OneRunPerJob, Active
<1> QED
    BY <1>2, <1>3 DEF SchedInv

\* _execute_job keeps it, step by step.
LEMMA PooledInv == ASSUME SchedInv, NEW r \in Run, Pooled(r)
                   PROVE  SchedInv'
<1>1. run[r] = [j |-> run[r].j, at |-> run[r].at, copy |-> run[r].copy, fails |-> run[r].fails]
    BY DEF SchedInv, RunsAreRecords
<1>2. CASE RunMarks(r)
  <2> DEFINE x == [j |-> run[r].j, at |-> "marked", copy |-> [run[r].copy EXCEPT !.st = "running"],
                   fails |-> run[r].fails]
  <2>1. run' = [run EXCEPT ![r] = x]
    BY <1>2 DEF RunMarks, Proceeds
  <2> QED
    BY <1>2, <2>1, OneRunInv DEF RunMarks
<1>3. CASE RunSaves(r)
  <2> DEFINE x == [j |-> run[r].j, at |-> "trying", copy |-> run[r].copy, fails |-> run[r].fails]
  <2>1. run' = [run EXCEPT ![r] = x]
    BY <1>3 DEF RunSaves, Proceeds
  <2>2. marked' = marked \cup {run[r].j}
    BY <1>3 DEF RunSaves, SchedInv, ActiveIsMarked, Active
  <2> QED
    BY <1>3, <2>1, <2>2, OneRunInv DEF RunSaves
<1>4. CASE RunFails(r)
  <2> DEFINE x == [j |-> run[r].j, at |-> "trying", copy |-> run[r].copy, fails |-> run[r].fails + 1]
  <2>1. [run[r] EXCEPT !.fails = run[r].fails + 1] = x
    BY <1>1, <1>4 DEF RunFails
  <2>2. run' = [run EXCEPT ![r] = x]
    BY <1>4, <2>1 DEF RunFails
  <2>3. marked' = marked \cup {run[r].j}
    BY <1>4 DEF RunFails, SchedInv, ActiveIsMarked, Active
  <2> QED
    BY <1>4, <2>2, <2>3, OneRunInv DEF RunFails
<1>5. CASE \E ok \in BOOLEAN : JobRunEnds(r, ok)
  <2>1. PICK ok \in BOOLEAN : JobRunEnds(r, ok)
    BY <1>5
  <2> DEFINE c == IF ok THEN Advanced(run[r].j, run[r].copy) ELSE [run[r].copy EXCEPT !.st = "failed"]
             x == [j |-> run[r].j, at |-> "ended", copy |-> c, fails |-> run[r].fails]
  <2>2. run' = [run EXCEPT ![r] = x]
    BY <2>1 DEF JobRunEnds, Proceeds
  <2>3. marked' = marked \cup {run[r].j}
    BY <2>1 DEF JobRunEnds, SchedInv, ActiveIsMarked, Active
  <2> QED
    BY <2>1, <2>2, <2>3, OneRunInv DEF JobRunEnds
<1>6. CASE RunUnmarks(r)
  <2>1. \A q \in Run : run'[q] = IF q = r THEN NoRun ELSE run[q]
    BY <1>6 DEF RunUnmarks, SchedInv, RunsAreRecords
  <2>2. RunsAreRecords'
    BY <1>6, <2>1 DEF RunUnmarks, SchedInv, RunsAreRecords, Active, NoRun
  <2>3. \A q \in Run : q # r /\ run[q].at # "free" => run[q].j # run[r].j
    BY <1>6 DEF RunUnmarks, SchedInv, OneRunPerJob
  <2>4. ActiveIsMarked' /\ QueuedIsLookedAt' /\ OneRunPerJob'
    BY <1>6, <2>1, <2>3 DEF RunUnmarks, SchedInv, ActiveIsMarked, QueuedIsLookedAt, OneRunPerJob,
                            Active, NoRun
  <2> QED
    BY <2>2, <2>4 DEF SchedInv
<1> QED
    BY <1>2, <1>3, <1>4, <1>5, <1>6 DEF Pooled

\* _tick keeps it: it loads jobs only while no run is queued, and a job it
\* submits was neither marked nor looked at before.
LEMMA TickLooksInv ==
    ASSUME SchedInv, NEW j \in SJob, NEW peak \in BOOLEAN, NEW quota, TickLooks(j, peak, quota)
    PROVE  SchedInv'
<1>1. DOMAIN tick' = DOMAIN tick \ {j}
    BY DEF TickLooks
<1>2. CASE UNCHANGED run
    BY <1>1, <1>2 DEF TickLooks, SchedInv, RunsAreRecords, ActiveIsMarked, QueuedIsLookedAt,
                      OneRunPerJob, Active
<1>3. CASE ShouldRun(j, tick[j], peak, quota)
  <2>1. PICK r \in Run : SubmitRun(r, j, tick[j])
    BY <1>3 DEF TickLooks
  <2> DEFINE x == [j |-> j, at |-> "queued", copy |-> tick[j], fails |-> 0]
  <2>2. \A q \in Run : run'[q] = IF q = r THEN x ELSE run[q]
    BY <2>1 DEF SubmitRun, SchedInv, RunsAreRecords
  <2>3. \A q \in Run : run[q].at # "free" => run[q].j # j
    BY <1>3 DEF TickLooks, ShouldRun, SchedInv, RunsAreRecords, ActiveIsMarked, QueuedIsLookedAt
  <2>4. RunsAreRecords'
    BY <2>1, <2>2 DEF SubmitRun, SchedInv, RunsAreRecords, Active
  <2>5. ActiveIsMarked' /\ QueuedIsLookedAt'
    BY <1>1, <2>2 DEF TickLooks, SchedInv, ActiveIsMarked, QueuedIsLookedAt, Active
  <2>6. OneRunPerJob'
    BY <2>2, <2>3 DEF SchedInv, OneRunPerJob
  <2> QED
    BY <2>4, <2>5, <2>6 DEF SchedInv
<1> QED
    BY <1>2, <1>3 DEF TickLooks

\* Time keeps it: only copies change.
LEMMA ClockMovesInv == ASSUME SchedInv, NEW j \in SJob, ClockMoves(j)
                       PROVE  SchedInv'
<1>1. DOMAIN tick' = DOMAIN tick
    BY DEF ClockMoves
<1>2. ASSUME NEW r \in Run
      PROVE  /\ run'[r] = [j |-> run[r].j, at |-> run[r].at,
                           copy |-> run'[r].copy, fails |-> run[r].fails]
  <2>1. run[r] = [j |-> run[r].j, at |-> run[r].at, copy |-> run[r].copy, fails |-> run[r].fails]
    BY DEF SchedInv, RunsAreRecords
  <2>2. run'[r] = IF run[r].j = j THEN [run[r] EXCEPT !.copy = Passed(run[r].copy)] ELSE run[r]
    BY DEF ClockMoves
  <2>3. [run[r] EXCEPT !.copy = Passed(run[r].copy)]
          = [j |-> run[r].j, at |-> run[r].at, copy |-> Passed(run[r].copy), fails |-> run[r].fails]
    BY <2>1
  <2> QED
    BY <2>1, <2>2, <2>3
<1>3. RunsAreRecords'
    BY <1>2 DEF ClockMoves, SchedInv, RunsAreRecords, Active
<1>4. ActiveIsMarked' /\ QueuedIsLookedAt' /\ OneRunPerJob'
    BY <1>1, <1>2 DEF ClockMoves, SchedInv, ActiveIsMarked, QueuedIsLookedAt, OneRunPerJob, Active
<1> QED
    BY <1>3, <1>4 DEF SchedInv

\* Without calls by hand, and with a pool that starts its runs before the
\* next tick, every step keeps it.
LEMMA SchedNextInv == ASSUME ~ByHand, Prompt
                      PROVE  SchedInv /\ [SchedNext]_schedVars => SchedInv'
<1> SUFFICES ASSUME SchedInv, [SchedNext]_schedVars PROVE SchedInv'
    OBVIOUS
<1>1. CASE \E j \in SJob : AddJob(j)
    BY <1>1, ApiInv DEF AddJob
<1>2. CASE \E j \in SJob : ClockMoves(j)
    BY <1>2, ClockMovesInv
<1>3. CASE \E j \in SJob, op \in {"pause", "resume", "cancel", "delete"} : CallReads(op, j)
    BY <1>3, ApiInv DEF CallReads
<1>4. CASE CallWrites
    BY <1>4, ApiInv DEF CallWrites
<1>5. CASE TickLoads
    BY <1>5 DEF TickLoads, SchedInv, RunsAreRecords, ActiveIsMarked, QueuedIsLookedAt,
                OneRunPerJob, Active
<1>6. CASE \E j \in SJob, peak \in BOOLEAN, quota \in {"exhausted", "scarce", "ample"} :
             TickLooks(j, peak, quota)
    BY <1>6, TickLooksInv
<1>7. CASE \E r \in Run : Pooled(r)
    BY <1>7, PooledInv
<1>8. CASE UNCHANGED schedVars
    BY <1>8, ApiInv DEF schedVars
<1>9. ~ \E r \in Run, j \in SJob : TriggerJob(r, j)
    BY DEF TriggerJob
<1> QED
    BY <1>1, <1>2, <1>3, <1>4, <1>5, <1>6, <1>7, <1>8, <1>9 DEF SchedNext

\* The marks of _running_jobs keep a tick from starting a second run of a
\* job, even when a pause and a resume have made its status SCHEDULED while
\* it runs, as long as nobody triggers or deletes jobs and queued runs start
\* before the next tick.
THEOREM JobsDoNotOverlap == ASSUME ~ByHand, Prompt
                            PROVE  SchedSpec => []NoOverlap
<1>1. SchedInit => SchedInv
    BY SchedInitInv
<1>2. SchedInv /\ [SchedNext]_schedVars => SchedInv'
    BY SchedNextInv
<1>3. SchedInv => NoOverlap
    BY DEF SchedInv, OneRunPerJob, NoOverlap
<1> QED
    BY <1>1, <1>2, <1>3, PTL DEF SchedSpec

-----------------------------------------------------------------------------
(* The checkout locks, for any machines, any length of a lock, any number   *)
(* of run ids, with answers that are lost and machines that die.            *)

\* A run id was given out once: no later call gets it again and no two
\* machines have it.
RunIdsAreUnique ==
    /\ lock.run <= runCount
    /\ \A m \in Machine : ticket[m].run <= runCount
    /\ \A m, n \in Machine : m # n /\ ticket[m].run # 0 => ticket[m].run # ticket[n].run

\* Who relies on a checkout is the one the row names, and the row's lock
\* lasts at least as long as the machine relies on it.
RelianceIsBacked ==
    \A m \in Machine : ticket[m].sure > 0 =>
        /\ ticket[m].run # 0 /\ ticket[m].run = lock.run
        /\ ticket[m].sure <= lock.left

LockInv == LockTypeOK /\ RunIdsAreUnique /\ RelianceIsBacked

\* An empty table satisfies the invariant.
LEMMA LockInitInv == LockInit => LockInv
BY ClaimAssumption DEF LockInit, LockInv, LockTypeOK, RunIdsAreUnique, RelianceIsBacked, NoCheckout

\* try_checkout keeps it: a new id goes to a row nobody relies on.
LEMMA TryCheckoutInv == ASSUME LockInv, NEW m \in Machine, TryCheckout(m)
                        PROVE  LockInv'
<1> USE ClaimAssumption DEF LockInv
<1>1. runCount \in Nat /\ runCount + 1 \in 1..MaxRuns /\ LockTicks \in 0..LockTicks
    BY DEF TryCheckout, LockTypeOK
<1>2. Free => \A n \in Machine : ticket[n].sure = 0
    BY DEF Free, RelianceIsBacked, LockTypeOK
<1>3. LockTypeOK'
    BY <1>1 DEF TryCheckout, LockTypeOK
<1>4. RunIdsAreUnique'
    BY <1>1 DEF TryCheckout, LockTypeOK, RunIdsAreUnique
<1>5. RelianceIsBacked'
    BY <1>1, <1>2 DEF TryCheckout, LockTypeOK, RelianceIsBacked
<1> QED
    BY <1>3, <1>4, <1>5

\* heartbeat keeps it: only the lock with the caller's own id is extended.
LEMMA RenewCheckoutInv == ASSUME LockInv, NEW m \in Machine, RenewCheckout(m)
                          PROVE  LockInv'
<1> USE ClaimAssumption DEF LockInv
<1>1. LockTypeOK'
    BY DEF RenewCheckout, LockTypeOK
<1>2. RunIdsAreUnique'
    BY DEF RenewCheckout, LockTypeOK, RunIdsAreUnique
<1>3. RelianceIsBacked'
    BY DEF RenewCheckout, LockTypeOK, RelianceIsBacked
<1> QED
    BY <1>1, <1>2, <1>3

\* release and the death of a machine keep it: an id that is dropped takes
\* only its own lock with it.
LEMMA GiveUpInv == ASSUME LockInv, NEW m \in Machine, ReleaseCheckout(m) \/ MachineDies(m)
                   PROVE  LockInv'
<1> USE ClaimAssumption DEF LockInv
<1>1. LockTypeOK'
    BY DEF ReleaseCheckout, MachineDies, NoCheckout, LockTypeOK
<1>2. RunIdsAreUnique'
    BY DEF ReleaseCheckout, MachineDies, NoCheckout, LockTypeOK, RunIdsAreUnique
<1>3. RelianceIsBacked'
    BY DEF ReleaseCheckout, MachineDies, NoCheckout, LockTypeOK, RunIdsAreUnique, RelianceIsBacked
<1> QED
    BY <1>1, <1>2, <1>3

\* The clean-up of expired locks and the clock keep it.
LEMMA TimeInv == ASSUME LockInv, CleanupExpired \/ LockTick
                 PROVE  LockInv'
<1> USE ClaimAssumption DEF LockInv
<1>1. LockTypeOK'
    BY DEF CleanupExpired, LockTick, LockTypeOK
<1>2. RunIdsAreUnique'
    BY DEF CleanupExpired, LockTick, LockTypeOK, RunIdsAreUnique
<1>3. RelianceIsBacked'
    BY DEF CleanupExpired, LockTick, LockTypeOK, RelianceIsBacked
<1> QED
    BY <1>1, <1>2, <1>3

\* As long as no administrator forces a release, every step keeps it.
LEMMA LockNextInv == ASSUME ~Overrides
                     PROVE  LockInv /\ [LockNext]_lockVars => LockInv'
<1> SUFFICES ASSUME LockInv, [LockNext]_lockVars PROVE LockInv'
    OBVIOUS
<1>1. CASE \E m \in Machine : TryCheckout(m)
    BY <1>1, TryCheckoutInv
<1>2. CASE \E m \in Machine : RenewCheckout(m)
    BY <1>2, RenewCheckoutInv
<1>3. CASE \E m \in Machine : ReleaseCheckout(m) \/ MachineDies(m)
    BY <1>3, GiveUpInv
<1>4. CASE CleanupExpired \/ LockTick
    BY <1>4, TimeInv
<1>5. CASE UNCHANGED lockVars
    BY <1>5 DEF lockVars, LockInv, LockTypeOK, RunIdsAreUnique, RelianceIsBacked
<1>6. ~ForceRelease
    BY DEF ForceRelease
<1> QED
    BY <1>1, <1>2, <1>3, <1>4, <1>5, <1>6 DEF LockNext

\* Without forced releases, no two machines ever rely on a checkout of the
\* ticket at once (atomic_checkout.py try_checkout, heartbeat, release).
THEOREM CheckoutIsExclusive == ASSUME ~Overrides
                               PROVE  LockSpec => []ExclusiveCheckout
<1>1. LockInit => LockInv
    BY LockInitInv
<1>2. LockInv /\ [LockNext]_lockVars => LockInv'
    BY LockNextInv
<1>3. LockInv => ExclusiveCheckout
    BY DEF LockInv, LockTypeOK, RunIdsAreUnique, RelianceIsBacked, ExclusiveCheckout
<1> QED
    BY <1>1, <1>2, <1>3, PTL DEF LockSpec

-----------------------------------------------------------------------------
(* The dashboard's request limit: why a sliding window that forgets old     *)
(* requests still bounds all that were let through.                         *)

\* Every request of a that counts has a place of its own in k, with its age.
Remembers(a, k) ==
    \E spot \in [InWindow(a) -> DOMAIN k] :
        /\ \A i, j \in InWindow(a) : spot[i] = spot[j] => i = j
        /\ \A i \in InWindow(a) : k[spot[i]] = a[i]

\* The window holds what counts, and never more than RequestMax of it.
WindowInv ==
    /\ bucket = [kept |-> bucket.kept, all |-> bucket.all]
    /\ bucket.kept \in Seq(Nat) /\ bucket.all \in Seq(Nat)
    /\ Remembers(bucket.all, bucket.kept)
    /\ Cardinality(InWindow(bucket.kept)) <= RequestMax

\* What is in the window of a list can be counted.
LEMMA WindowIsFinite ==
    ASSUME NEW q \in Seq(Nat)
    PROVE  /\ IsFiniteSet(InWindow(q)) /\ Cardinality(InWindow(q)) \in Nat
           /\ Cardinality(InWindow(q)) <= Len(q)
<1>1. Len(q) \in Nat /\ DOMAIN q = 1..Len(q)
    OBVIOUS
<1>2. 1 \in Int /\ Len(q) \in Int
    BY <1>1
<1>3. IsFiniteSet(1..Len(q)) /\ Cardinality(1..Len(q)) = Len(q)
    BY <1>1, <1>2, FS_Interval
<1>4. InWindow(q) \in SUBSET (1..Len(q))
    BY <1>1 DEF InWindow
<1> QED
    BY <1>3, <1>4, FS_Subset, FS_CardinalityType

\* Who remembers counts at least as many.
LEMMA RemembersCounts ==
    ASSUME NEW a \in Seq(Nat), NEW k \in Seq(Nat), Remembers(a, k)
    PROVE  Cardinality(InWindow(a)) <= Cardinality(InWindow(k))
<1> DEFINE A == InWindow(a)
           K == InWindow(k)
<1>1. PICK spot \in [A -> DOMAIN k] :
        /\ \A i, j \in A : spot[i] = spot[j] => i = j
        /\ \A i \in A : k[spot[i]] = a[i]
    BY DEF Remembers
<1>2. \A i \in A : spot[i] \in K
    BY <1>1 DEF InWindow
<1>3. spot \in [A -> K]
    BY <1>1, <1>2
<1>4. IsFiniteSet(K)
    BY WindowIsFinite
<1> HIDE DEF A, K
<1>5. spot \in Injection(A, K)
    BY <1>1, <1>3 DEF Injection, IsInjective
<1>6. Cardinality(A) <= Cardinality(K)
    BY <1>4, <1>5, FS_Injection
<1> QED
    BY <1>6 DEF A, K

\* A list remembers itself.
LEMMA RemembersItself ==
    ASSUME NEW k \in Seq(Nat) PROVE Remembers(k, k)
<1> DEFINE spot == [i \in InWindow(k) |-> i]
<1>1. spot \in [InWindow(k) -> DOMAIN k]
    BY DEF InWindow
<1> QED
    BY <1>1 DEF Remembers

\* Forgetting what does not count.
LEMMA ForgettingOld ==
    ASSUME NEW R, NEW a \in Seq(R), NEW k \in Seq(R), Remembers(a, k),
           NEW S \in SUBSET DOMAIN k, InWindow(k) \subseteq S
    PROVE  Remembers(a, Sublist(k, S))
<1> DEFINE A == InWindow(a)
           N == Cardinality(S)
           w == Sublist(k, S)
<1>1. PICK spot \in [A -> DOMAIN k] :
        /\ \A i, j \in A : spot[i] = spot[j] => i = j
        /\ \A i \in A : k[spot[i]] = a[i]
    BY DEF Remembers
<1>2. \A i \in A : spot[i] \in S
    BY <1>1 DEF InWindow
<1>3. DOMAIN w = 1..N
    BY SublistOf
<1>p. PICK pl : Places(k, S, pl)
    BY SublistPlaces
<1>4. /\ pl \in [1..N -> S] /\ \A n \in 1..N : w[n] = k[pl[n]]
      /\ \A n, m \in 1..N : pl[n] = pl[m] => n = m
      /\ \A n \in S : \E m \in 1..N : pl[m] = n
    BY <1>p DEF Places
<1> HIDE DEF A, N, w
<1> DEFINE to == [i \in A |-> CHOOSE m \in 1..N : pl[m] = spot[i]]
<1>5. \A i \in A : to[i] \in 1..N /\ pl[to[i]] = spot[i]
    BY <1>2, <1>4
<1>6. to \in [A -> DOMAIN w]
    BY <1>3, <1>5
<1> HIDE DEF to
<1>7. \A i, j \in A : to[i] = to[j] => i = j
    BY <1>1, <1>5
<1>8. \A i \in A : w[to[i]] = a[i]
    BY <1>1, <1>4, <1>5
<1> QED
    BY <1>6, <1>7, <1>8 DEF Remembers, A, w

\* Less to remember.
LEMMA FewerToRemember ==
    ASSUME NEW R, NEW a \in Seq(R), NEW k \in Seq(R), Remembers(a, k), NEW T \in SUBSET DOMAIN a
    PROVE  Remembers(Sublist(a, T), k)
<1> DEFINE A == InWindow(a)
           N == Cardinality(T)
           w == Sublist(a, T)
           W == InWindow(w)
<1>1. PICK spot \in [A -> DOMAIN k] :
        /\ \A i, j \in A : spot[i] = spot[j] => i = j
        /\ \A i \in A : k[spot[i]] = a[i]
    BY DEF Remembers
<1>3. DOMAIN w = 1..N
    BY SublistOf
<1>p. PICK pl : Places(a, T, pl)
    BY SublistPlaces
<1>4. /\ pl \in [1..N -> T] /\ \A n \in 1..N : w[n] = a[pl[n]]
      /\ \A n, m \in 1..N : pl[n] = pl[m] => n = m
      /\ \A n \in T : \E m \in 1..N : pl[m] = n
    BY <1>p DEF Places
<1> HIDE DEF N, w
<1>5. \A i \in W : i \in 1..N /\ pl[i] \in A
    BY <1>3, <1>4 DEF InWindow
<1> DEFINE to == [i \in W |-> spot[pl[i]]]
<1> HIDE DEF A, W
<1>6. to \in [W -> DOMAIN k]
    BY <1>1, <1>5
<1>7. \A i, j \in W : to[i] = to[j] => i = j
    BY <1>1, <1>4, <1>5
<1>8. \A i \in W : k[to[i]] = w[i]
    BY <1>1, <1>4, <1>5
<1> HIDE DEF to
<1> QED
    BY <1>6, <1>7, <1>8 DEF Remembers, W, w

\* All requests get older together.
LEMMA OlderTogether ==
    ASSUME NEW a \in Seq(Nat), NEW k \in Seq(Nat), Remembers(a, k)
    PROVE  /\ AllOlder(a) \in Seq(Nat) /\ AllOlder(k) \in Seq(Nat)
           /\ DOMAIN AllOlder(k) = DOMAIN k /\ InWindow(AllOlder(k)) \subseteq InWindow(k)
           /\ Remembers(AllOlder(a), AllOlder(k))
<1> DEFINE A == InWindow(a)
           b == AllOlder(a)
           l == AllOlder(k)
           B == InWindow(b)
<1>0. ASSUME NEW q \in Seq(Nat)
      PROVE  /\ AllOlder(q) \in Seq(Nat) /\ DOMAIN AllOlder(q) = DOMAIN q
             /\ \A i \in DOMAIN q : AllOlder(q)[i] = q[i] + 1 /\ q[i] \in Nat
  <2> DEFINE o == AllOlder(q)
  <2>1. DOMAIN q = 1..Len(q) /\ Len(q) \in Nat /\ \A i \in 1..Len(q) : q[i] \in Nat
    OBVIOUS
  <2>2. o = [i \in 1..Len(q) |-> q[i] + 1]
    BY <2>1 DEF AllOlder
  <2> HIDE DEF o
  <2>3. o \in [1..Len(q) -> Nat] /\ \A i \in 1..Len(q) : o[i] = q[i] + 1
    BY <2>1, <2>2
  <2>4. o \in Seq(Nat)
    BY <2>1, <2>3, SeqDef
  <2> QED
    BY <2>1, <2>3, <2>4 DEF o
<1>1. /\ b \in Seq(Nat) /\ DOMAIN b = DOMAIN a /\ \A i \in DOMAIN a : b[i] = a[i] + 1 /\ a[i] \in Nat
      /\ l \in Seq(Nat) /\ DOMAIN l = DOMAIN k /\ \A i \in DOMAIN k : l[i] = k[i] + 1 /\ k[i] \in Nat
    BY <1>0
<1>2. PICK spot \in [A -> DOMAIN k] :
        /\ \A i, j \in A : spot[i] = spot[j] => i = j
        /\ \A i \in A : k[spot[i]] = a[i]
    BY DEF Remembers
<1> HIDE DEF b, l
<1>3. B \subseteq A /\ InWindow(l) \subseteq InWindow(k)
    BY <1>1, GatesAssumption DEF InWindow
<1>4. \A i \in B : i \in DOMAIN a
    BY <1>1 DEF InWindow
<1> DEFINE to == [i \in B |-> spot[i]]
<1> HIDE DEF A, B
<1>5. to \in [B -> DOMAIN l] /\ \A i, j \in B : to[i] = to[j] => i = j
    BY <1>1, <1>2, <1>3
<1>6. \A i \in B : l[to[i]] = b[i]
    BY <1>1, <1>2, <1>3, <1>4
<1> HIDE DEF to
<1>7. Remembers(b, l)
    BY <1>5, <1>6 DEF Remembers, B
<1> QED
    BY <1>1, <1>3, <1>7 DEF b, l

\* A request is let through and remembered.
LEMMA BothAppended ==
    ASSUME NEW a \in Seq(Nat), NEW k \in Seq(Nat), Remembers(a, k)
    PROVE  Remembers(Append(a, 0), Append(k, 0))
<1> DEFINE A == InWindow(a)
           b == Append(a, 0)
           l == Append(k, 0)
           B == InWindow(b)
           n == Len(a) + 1
           m == Len(k) + 1
<1>1. /\ DOMAIN a = 1..Len(a) /\ Len(a) \in Nat /\ DOMAIN b = 1..n /\ b[n] = 0
      /\ \A i \in 1..Len(a) : b[i] = a[i]
    OBVIOUS
<1>2. /\ DOMAIN k = 1..Len(k) /\ Len(k) \in Nat /\ DOMAIN l = 1..m /\ l[m] = 0
      /\ \A i \in 1..Len(k) : l[i] = k[i]
    OBVIOUS
<1>3. PICK spot \in [A -> DOMAIN k] :
        /\ \A i, j \in A : spot[i] = spot[j] => i = j
        /\ \A i \in A : k[spot[i]] = a[i]
    BY DEF Remembers
<1> HIDE DEF b, l
<1>4. \A i \in B : i = n \/ (i \in A /\ i \in 1..Len(a))
    BY <1>1 DEF InWindow
<1>5. \A i \in A : i \in 1..Len(a)
    BY <1>1 DEF InWindow
<1> HIDE DEF A, B
<1> DEFINE to == [i \in B |-> IF i = n THEN m ELSE spot[i]]
<1>6. \A i \in A : i # n /\ spot[i] \in 1..Len(k) /\ spot[i] # m
    BY <1>1, <1>2, <1>3, <1>5
<1>7. to \in [B -> DOMAIN l]
    BY <1>2, <1>4, <1>6
<1>8. \A i, j \in B : to[i] = to[j] => i = j
    BY <1>3, <1>4, <1>6
<1>9. \A i \in B : l[to[i]] = b[i]
    BY <1>1, <1>2, <1>3, <1>4, <1>6
<1> HIDE DEF to
<1>10. Remembers(b, l)
    BY <1>7, <1>8, <1>9 DEF Remembers, B
<1> QED
    BY <1>10 DEF b, l

\* A request that asks, and the time that passes, keep the window exact.
LEMMA WindowNext == WindowInv /\ [GatesNext]_gateVars => WindowInv'
<1> SUFFICES ASSUME WindowInv, [GatesNext]_gateVars PROVE WindowInv'
    OBVIOUS
<1> DEFINE a == bucket.all
           k == bucket.kept
<1>i. /\ k \in Seq(Nat) /\ a \in Seq(Nat) /\ Remembers(a, k)
      /\ Cardinality(InWindow(k)) <= RequestMax /\ RequestMax \in Nat
    BY GatesAssumption DEF WindowInv
<1>w. InWindow(k) \in SUBSET DOMAIN k
    BY DEF InWindow
<1>1. CASE CheckRateLimit
  <2> DEFINE p == Prune(k)
  <2>1. p = Sublist(k, InWindow(k))
    BY DEF Prune
  <2>2. p \in Seq(Nat) /\ Remembers(a, p)
    BY <1>i, <1>w, <2>1, SublistOf, ForgettingOld
  <2>3. Len(p) = Cardinality(InWindow(k))
    BY <1>i, <1>w, <2>1, SublistOf
  <2>4. bucket' = IF Len(p) >= RequestMax THEN [bucket EXCEPT !.kept = p]
                  ELSE [kept |-> Append(p, 0), all |-> Append(a, 0)]
    BY <1>1 DEF CheckRateLimit
  <2>5. [bucket EXCEPT !.kept = p] = [kept |-> p, all |-> a]
    BY DEF WindowInv
  <2> HIDE DEF p, a, k
  <2>6. CASE bucket' = [kept |-> p, all |-> a]
    <3>1. bucket'.kept = p /\ bucket'.all = a
      BY <2>6
    <3>2. Cardinality(InWindow(p)) <= RequestMax
      BY <1>i, <2>2, <2>3, WindowIsFinite
    <3> QED
      BY <1>i, <2>2, <2>6, <3>1, <3>2 DEF WindowInv
  <2>7. CASE Len(p) < RequestMax /\ bucket' = [kept |-> Append(p, 0), all |-> Append(a, 0)]
    <3> DEFINE p2 == Append(p, 0)
               a2 == Append(a, 0)
    <3>1. p2 \in Seq(Nat) /\ a2 \in Seq(Nat) /\ Len(p2) = Len(p) + 1
      BY <1>i, <2>2
    <3>2. Remembers(a2, p2)
      BY <1>i, <2>2, BothAppended
    <3>3. bucket'.kept = p2 /\ bucket'.all = a2 /\ bucket' = [kept |-> p2, all |-> a2]
      BY <2>7
    <3> HIDE DEF p2, a2
    <3>4. Cardinality(InWindow(p2)) <= Len(p2) /\ Cardinality(InWindow(p2)) \in Nat
      BY <3>1, WindowIsFinite
    <3>5. Len(p) \in Nat /\ Len(p) + 1 <= RequestMax
      BY <1>i, <2>2, <2>7
    <3>6. Cardinality(InWindow(p2)) <= RequestMax
      BY <1>i, <3>1, <3>4, <3>5
    <3> QED
      BY <3>1, <3>2, <3>3, <3>6 DEF WindowInv
  <2>8. Len(p) \in Nat
    BY <2>2
  <2> QED
    BY <1>i, <2>4, <2>5, <2>6, <2>7, <2>8
<1>2. CASE GatesTick
  <2> DEFINE oa == AllOlder(a)
             ok == AllOlder(k)
             A == {i \in DOMAIN a : oa[i] <= RequestWindow + 1}
             K == {i \in DOMAIN k : ok[i] <= RequestWindow + 1}
             na == Sublist(oa, A)
             nk == Sublist(ok, K)
  <2>1. bucket' = [kept |-> nk, all |-> na]
    BY <1>2 DEF GatesTick, AgedRequests
  <2>2. /\ oa \in Seq(Nat) /\ ok \in Seq(Nat) /\ Remembers(oa, ok)
        /\ DOMAIN ok = DOMAIN k /\ InWindow(ok) \subseteq InWindow(k)
    BY <1>i, OlderTogether
  <2>3. DOMAIN oa = DOMAIN a
    BY DEF AllOlder
  <2> HIDE DEF oa, ok, a, k
  <2>4. A \in SUBSET DOMAIN oa /\ K \in SUBSET DOMAIN ok
    BY <2>2, <2>3
  <2>5. \A i \in DOMAIN ok : ok[i] \in Nat
    BY <2>2
  <2>6. InWindow(ok) \subseteq K
    BY <2>2, <2>5, GatesAssumption DEF InWindow
  <2> HIDE DEF A, K
  <2>7. na \in Seq(Nat) /\ nk \in Seq(Nat)
    BY <2>2, <2>4, SublistOf
  <2>8. Remembers(oa, nk)
    BY <2>2, <2>4, <2>6, ForgettingOld
  <2>9. Remembers(na, nk)
    BY <2>2, <2>4, <2>7, <2>8, FewerToRemember
  <2>10. Remembers(nk, ok)
    BY <2>2, <2>4, RemembersItself, FewerToRemember
  <2> HIDE DEF na, nk
  <2>11. Cardinality(InWindow(nk)) <= Cardinality(InWindow(ok))
    BY <2>2, <2>7, <2>10, RemembersCounts
  <2>12. Cardinality(InWindow(ok)) <= Cardinality(InWindow(k))
    BY <1>i, <2>2, WindowIsFinite, FS_Subset
  <2>13. Cardinality(InWindow(nk)) <= RequestMax
    BY <1>i, <2>2, <2>7, <2>11, <2>12, WindowIsFinite
  <2>14. bucket'.kept = nk /\ bucket'.all = na
    BY <2>1
  <2> QED
    BY <2>1, <2>7, <2>9, <2>13, <2>14 DEF WindowInv
<1>3. CASE UNCHANGED bucket
    BY <1>3 DEF WindowInv
<1> QED
    BY <1>1, <1>2, <1>3 DEF GatesNext, CheckLockfile, ValidateAndPatchEnv, ProxyUnreachable,
       PreflightFails, CheckBreaker, RecordResult, RecordSkip, GlobalCooldown, EndCycle, GatesRestart,
       Send, OnRateLimitHit, OnRateLimitWarning, OnRequestSuccess, ReadState, gateVars

\* No client ever has more than RequestMax requests let through in a window,
\* for any limit and any length of the window (_check_rate_limit of
\* dashboard_server.py).
THEOREM ClientsAreLimited == GatesSpec => []RequestsAreLimited
<1>1. GatesInit => WindowInv
  <2> SUFFICES ASSUME GatesInit PROVE WindowInv
    OBVIOUS
  <2> DEFINE none == <<>>
  <2>1. bucket = [kept |-> none, all |-> none] /\ bucket.kept = none /\ bucket.all = none
    BY DEF GatesInit
  <2>2. none \in Seq(Nat) /\ InWindow(none) = {}
    BY DEF InWindow
  <2>3. Cardinality({}) = 0
    BY FS_EmptySet
  <2>4. Remembers(none, none)
    BY <2>2, RemembersItself
  <2> HIDE DEF none
  <2>5. Cardinality(InWindow(none)) <= RequestMax
    BY <2>2, <2>3, GatesAssumption
  <2> QED
    BY <2>1, <2>2, <2>4, <2>5 DEF WindowInv
<1>2. WindowInv /\ [GatesNext]_gateVars => WindowInv'
    BY WindowNext
<1>3. WindowInv => RequestsAreLimited
  <2> SUFFICES ASSUME WindowInv PROVE RequestsAreLimited
    OBVIOUS
  <2> DEFINE a == bucket.all
             k == bucket.kept
  <2>1. a \in Seq(Nat) /\ k \in Seq(Nat) /\ Remembers(a, k) /\ Cardinality(InWindow(k)) <= RequestMax
    BY DEF WindowInv
  <2> HIDE DEF a, k
  <2>2. Cardinality(InWindow(a)) <= RequestMax
    BY <2>1, RemembersCounts, WindowIsFinite, GatesAssumption
  <2> QED
    BY <2>2 DEF RequestsAreLimited, a
<1> QED
    BY <1>1, <1>2, <1>3, PTL DEF GatesSpec

-----------------------------------------------------------------------------
(* The governor: why boosts, bonuses and rules never let the usage run past *)
(* the point where new work stops by more than one batch.                   *)

\* What the assumption says of the constants, one by one.
LEMMA Constants ==
    /\ MinAgents \in Nat /\ MaxAgents \in Nat /\ MinAgents <= MaxAgents
    /\ Quota \in Nat /\ Quota > 0 /\ DayHours \in Nat /\ DayHours > 0
    /\ MaxCost \in Nat /\ MaxBacklog \in Nat /\ BaseLimit \in Nat
    BY GovernorAssumption

\* And of the tiers.
LEMMA TiersAre ==
    /\ Tiers # {}
    /\ \A t \in Tiers : t.pct \in 0..100 /\ t.agents \in Nat /\ t.allow \in BOOLEAN
<1>1. Tiers # {} /\ Tiers \subseteq [pct : 0..100, agents : Nat, floor : 0..3, allow : BOOLEAN]
    BY GovernorAssumption
<1> QED
    BY <1>1

\* Quotient and rest.
LEMMA Division ==
    ASSUME NEW a \in Nat, NEW b \in Nat \ {0}
    PROVE  /\ a \div b \in Nat /\ a % b \in 0..(b - 1) 
           /\ a = b * (a \div b) + (a % b)
<1>1. a \div b \in Int /\ a % b \in 0..(b - 1)
    OBVIOUS
<1>2. a = b * (a \div b) + (a % b)
    OBVIOUS
<1>3. a \div b >= 0
    OBVIOUS
<1> QED
    BY <1>1, <1>2, <1>3

\* What a percentage says of what it was taken from.
LEMMA DivAtLeast ==
    ASSUME NEW a \in Nat, NEW b \in Nat \ {0}, NEW p \in Nat, a \div b >= p
    PROVE  p * b <= a
<1> DEFINE q == a \div b
<1>1. q \in Nat /\ a % b \in Nat /\ a = b * q + (a % b)
    BY Division
<1> HIDE DEF q
<1>2. q >= p
    BY DEF q
<1>3. b * p <= b * q
    BY <1>1, <1>2, ProductsOfNumbers
<1> QED
    BY <1>1, <1>3

\* Rounding does not go beyond a whole number.
LEMMA Rounded ==
    ASSUME NEW n \in Nat, NEW d \in Nat \ {0}
    PROVE  RoundHalfEven(n, d) \in Nat /\ \A base \in Nat : n <= base * d => RoundHalfEven(n, d) <= base
<1> DEFINE q == n \div d
           m == n % d
<1>1. q \in Nat /\ m \in Nat /\ m < d /\ n = d * q + m
    BY Division
<1>2. RoundHalfEven(n, d) \in {q, q + 1} /\ (m = 0 => RoundHalfEven(n, d) = q)
    BY <1>1 DEF RoundHalfEven
<1> HIDE DEF q, m
<1>3. ASSUME NEW base \in Nat, n <= base * d PROVE q <= base /\ (m # 0 => q + 1 <= base)
  <2>1. ASSUME q > base PROVE FALSE
    <3>1. d * (base + 1) <= d * q
      BY <1>1, <2>1, ProductsOfNumbers
    <3>2. d * (base + 1) = base * d + d
      OBVIOUS
    <3> QED
      BY <1>1, <1>3, <3>1, <3>2
  <2>2. ASSUME q = base, m # 0 PROVE FALSE
    <3>1. d * q = base * d
      BY <2>2
    <3> QED
      BY <1>1, <1>3, <2>2, <3>1
  <2> QED
    BY <1>1, <2>1, <2>2
<1> QED
    BY <1>1, <1>2, <1>3

\* The greater and the lesser of two numbers.
LEMMA OfTwo ==
    ASSUME NEW a \in Int, NEW b \in Int
    PROVE  Max({a, b}) = (IF a >= b THEN a ELSE b) /\ Min({a, b}) = (IF a <= b THEN a ELSE b)
<1>1. Max({a, b}) = (IF a >= b THEN a ELSE b)
  <2> DEFINE m == IF a >= b THEN a ELSE b
  <2>1. m \in {a, b} /\ m \in Int /\ \A y \in {a, b} : m >= y
    OBVIOUS
  <2>2. \A z \in {a, b} : (\A y \in {a, b} : z >= y) => z = m
    OBVIOUS
  <2> HIDE DEF m
  <2>3. Max({a, b}) = m
    BY <2>1, <2>2 DEF Max
  <2> QED
    BY <2>3 DEF m
<1>2. Min({a, b}) = (IF a <= b THEN a ELSE b)
  <2> DEFINE m == IF a <= b THEN a ELSE b
  <2>1. m \in {a, b} /\ m \in Int /\ \A y \in {a, b} : m <= y
    OBVIOUS
  <2>2. \A z \in {a, b} : (\A y \in {a, b} : z <= y) => z = m
    OBVIOUS
  <2> HIDE DEF m
  <2>3. Min({a, b}) = m
    BY <2>1, <2>2 DEF Min
  <2> QED
    BY <2>3 DEF m
<1> QED
    BY <1>1, <1>2

\* The least of three numbers.
LEMMA LeastOfThree ==
    ASSUME NEW a \in Nat, NEW b \in Nat, NEW c \in Nat
    PROVE  Min({a, b, c}) \in Nat /\ Min({a, b, c}) <= a
<1>1. \E x \in {a, b, c} : \A y \in {a, b, c} : x <= y
    OBVIOUS
<1>2. Min({a, b, c}) \in {a, b, c} /\ \A y \in {a, b, c} : Min({a, b, c}) <= y
    BY <1>1 DEF Min
<1> QED
    BY <1>2

-----------------------------------------------------------------------------
(* Rules.                                                                   *)

AreRules(R) == IsFiniteSet(R) /\ \A r \in R : r.mult \in Nat /\ r.prec \in Nat

BonusKnown ==
    bonus = [mult |-> bonus.mult, high |-> bonus.high] /\ bonus.mult \in {10, 20, 50}

\* The rules of a decision.
LEMMA RulesAreRules ==
    ASSUME BonusKnown, NEW active \in SUBSET OperatorRules
    PROVE  AreRules(active \cup DynamicRules) /\ AreRules(DynamicRules)
<1> DEFINE sched == IF clock.weekend THEN WeekendMult ELSE IF clock.hour \in PeakHours THEN PeakMult ELSE 10
           rs == Rule("schedule", sched, 4)
           rb == Rule("bonus", bonus.mult, 3)
<1>1. DynamicRules = (IF sched # 10 THEN {rs} ELSE {}) \cup (IF bonus.mult # 10 THEN {rb} ELSE {})
    BY DEF DynamicRules
<1>2. rs.mult \in Nat /\ rs.prec \in Nat /\ rb.mult \in Nat /\ rb.prec \in Nat
    BY GovernorAssumption DEF Rule, BonusKnown
<1> HIDE DEF rs, rb, sched
<1>3. DynamicRules \subseteq {rs, rb}
    BY <1>1
<1>4. IsFiniteSet({rs, rb})
  <2>1. IsFiniteSet({rs}) /\ IsFiniteSet({rb})
    BY FS_Singleton
  <2>2. IsFiniteSet({rs} \cup {rb})
    BY <2>1, FS_Union
  <2>3. {rs} \cup {rb} = {rs, rb}
    OBVIOUS
  <2> QED
    BY <2>2, <2>3
<1>5. AreRules(DynamicRules)
    BY <1>2, <1>3, <1>4, FS_Subset DEF AreRules
<1>6. AreRules(active)
    BY GovernorAssumption, FS_Subset DEF AreRules
<1>7. IsFiniteSet(active \cup DynamicRules)
    BY <1>5, <1>6, FS_Union DEF AreRules
<1> QED
    BY <1>5, <1>6, <1>7 DEF AreRules

Group(R, p) == {r \in R : r.prec = p}
Lowest(G) == CHOOSE r \in G : \A s \in G : r.mult <= s.mult
Conflict(G) == (\E r \in G : r.mult > 10) /\ (\E r \in G : r.mult < 10)

\* There is a rule with the lowest multiplier.
LEMMA LowestIsOne ==
    ASSUME NEW G, \A r \in G : r.mult \in Nat, G # {}
    PROVE  Lowest(G) \in G /\ \A s \in G : Lowest(G).mult <= s.mult
<1> DEFINE M == {r.mult : r \in G}
<1>1. PICK x \in M : \A y \in M : x <= y
  <2>1. M \subseteq Nat /\ M # {}
    OBVIOUS
  <2> QED
    BY <2>1, LeastNumber
<1>2. \E r \in G : \A s \in G : r.mult <= s.mult
    BY <1>1
<1> QED
    BY <1>2 DEF Lowest

\* What is left of conflicting rules are rules, and a boost is left only where
\* no rule of its precedence reduces.
LEMMA ConflictsResolved ==
    ASSUME NEW R, AreRules(R)
    PROVE  /\ AreRules(ResolveConflicts(R)) /\ ResolveConflicts(R) \subseteq R
           /\ \A r \in ResolveConflicts(R), c \in R : r.mult > 10 /\ c.prec = r.prec => c.mult >= 10
<1> DEFINE X == ResolveConflicts(R)
<1>1. X = UNION {IF Conflict(Group(R, p)) THEN {Lowest(Group(R, p))} ELSE Group(R, p) : p \in {r.prec : r \in R}}
    BY DEF ResolveConflicts, Conflict, Group, Lowest
<1> HIDE DEF X
<1>2. ASSUME NEW r \in X
      PROVE  r \in R /\ \A c \in R : r.mult > 10 /\ c.prec = r.prec => c.mult >= 10
  <2>1. PICK p \in {q.prec : q \in R} :
          r \in (IF Conflict(Group(R, p)) THEN {Lowest(Group(R, p))} ELSE Group(R, p))
    BY <1>1
  <2> DEFINE G == Group(R, p)
  <2>2. G # {} /\ \A s \in G : s \in R /\ s.prec = p /\ s.mult \in Nat
    BY <2>1 DEF Group, AreRules
  <2>3. \A s \in R : s.prec = p => s \in G
    BY DEF Group
  <2> HIDE DEF G
  <2>4. Lowest(G) \in G /\ \A s \in G : Lowest(G).mult <= s.mult
    BY <2>2, LowestIsOne
  <2>5. CASE Conflict(G)
    <3>1. r = Lowest(G)
      BY <2>1, <2>5 DEF G
    <3>2. r.mult < 10
      BY <2>2, <2>4, <2>5, <3>1 DEF Conflict
    <3> QED
      BY <2>2, <2>4, <3>1, <3>2
  <2>6. CASE ~Conflict(G)
    <3>1. r \in G
      BY <2>1, <2>6 DEF G
    <3> QED
      BY <2>2, <2>3, <2>6, <3>1 DEF Conflict
  <2> QED
    BY <2>5, <2>6
<1>3. X \subseteq R
    BY <1>2
<1>4. AreRules(X)
    BY <1>3, FS_Subset DEF AreRules
<1> QED
    BY <1>2, <1>3, <1>4 DEF X

\* The number of agents is within the hard limits, and not above that of the
\* tier when no rule that is left boosts.
LEMMA AgentsAreLimited ==
    ASSUME NEW R, AreRules(R), NEW base \in Nat
    PROVE  /\ EffectiveAgents(base, R) \in MinAgents..MaxAgents
           /\ (\A r \in ResolveConflicts(R) : r.mult <= 10) =>
                EffectiveAgents(base, R) <= Max({MinAgents, base})
<1> DEFINE X == ResolveConflicts(R)
           f == [r \in X |-> r.mult]
           g == [r \in X |-> 10]
           n == base * ProductOf(f, X)
           d == ProductOf(g, X)
           e == RoundHalfEven(n, d)
<1>1. AreRules(X)
    BY ConflictsResolved
<1>2. EffectiveAgents(base, R) = Max({MinAgents, Min({MaxAgents, e})})
    BY DEF EffectiveAgents
<1> HIDE DEF X
<1>3. f \in [X -> Nat] /\ g \in [X -> Nat] /\ \A r \in X : g[r] > 0 /\ g[r] = 10 /\ f[r] = r.mult
    BY <1>1 DEF AreRules
<1> HIDE DEF f, g
<1>4. ProductOf(f, X) \in Nat
  <2>1. \A r \in X : f[r] <= f[r]
    BY <1>3
  <2> QED
    BY <1>1, <1>3, <2>1, ProductGrows DEF AreRules
<1>5. d \in Nat /\ d > 0
  <2>1. \A r \in X : g[r] <= g[r]
    BY <1>3
  <2> QED
    BY <1>1, <1>3, <2>1, ProductGrows DEF AreRules
<1>6. n \in Nat
    BY <1>4
<1> HIDE DEF d
<1>7. (\A r \in X : r.mult <= 10) => n <= base * d
  <2> SUFFICES ASSUME \A r \in X : r.mult <= 10 PROVE n <= base * d
    OBVIOUS
  <2>1. \A r \in X : f[r] <= g[r]
    BY <1>3
  <2>2. ProductOf(f, X) <= d
    BY <1>1, <1>3, <2>1, ProductGrows DEF AreRules, d
  <2> QED
    BY <1>4, <1>5, <2>2, ProductsOfNumbers
<1> HIDE DEF n
<1>8. e \in Nat /\ (n <= base * d => e <= base)
    BY <1>5, <1>6, Rounded
<1> HIDE DEF e
<1>a. MinAgents \in Int /\ MaxAgents \in Int /\ MinAgents \in Nat /\ MaxAgents \in Nat /\ MinAgents <= MaxAgents
    BY Constants
<1>b. base \in Int /\ e \in Int
    BY <1>8
<1>9. Min({MaxAgents, e}) = IF MaxAgents <= e THEN MaxAgents ELSE e
    BY <1>a, <1>b, OfTwo
<1> DEFINE l == Min({MaxAgents, e})
<1> HIDE DEF l
<1>10. l \in Nat /\ l <= MaxAgents /\ l <= e
    BY <1>a, <1>8, <1>9 DEF l
<1>11. Max({MinAgents, l}) = IF MinAgents >= l THEN MinAgents ELSE l
  <2>1. l \in Int
    BY <1>10
  <2> QED
    BY <1>a, <2>1, OfTwo
<1>12. Max({MinAgents, base}) = IF MinAgents >= base THEN MinAgents ELSE base
    BY <1>a, <1>b, OfTwo
<1>13. EffectiveAgents(base, R) = Max({MinAgents, l})
    BY <1>2 DEF l
<1> QED
    BY <1>a, <1>7, <1>8, <1>10, <1>11, <1>12, <1>13 DEF X

\* The tier of a decision is one of the tiers; what is left reaches it unless
\* it is the lowest.
LEMMA TierIsTier ==
    ASSUME NEW pct \in Nat
    PROVE  /\ GetTier(pct) \in Tiers
           /\ pct >= GetTier(pct).pct \/ \A u \in Tiers : GetTier(pct).pct <= u.pct /\ pct < u.pct
<1> DEFINE reached == {t \in Tiers : pct >= t.pct}
           P == {t.pct : t \in Tiers}
           low == Min(P)
<1>1. Tiers # {} /\ \A t \in Tiers : t.pct \in Nat
    BY TiersAre
<1>2. low \in P /\ \A y \in P : low <= y
  <2>1. P \subseteq Nat /\ P # {}
    BY <1>1
  <2>2. \E x \in P : \A y \in P : x <= y
    BY <2>1, LeastNumber
  <2> HIDE DEF P
  <2> QED
    BY <2>2 DEF Min
<1>3. CASE reached = {}
  <2>1. GetTier(pct) = CHOOSE t \in Tiers : t.pct = low
    BY <1>3 DEF GetTier
  <2>2. \E t \in Tiers : t.pct = low
    BY <1>2
  <2> HIDE DEF low
  <2>3. GetTier(pct) \in Tiers /\ GetTier(pct).pct = low
    BY <2>1, <2>2
  <2>4. \A u \in Tiers : pct < u.pct
    BY <1>1, <1>3
  <2>5. \A u \in Tiers : low <= u.pct
    BY <1>2
  <2> QED
    BY <2>3, <2>4, <2>5
<1>4. CASE reached # {}
  <2> DEFINE N == {100 - t.pct : t \in reached}
  <2>1. \A t \in Tiers : t.pct \in 0..100
    BY TiersAre
  <2>2. PICK x \in N : \A y \in N : x <= y
    <3>1. N # {}
      BY <1>4
    <3>2. ASSUME NEW y \in N PROVE y \in Nat
      <4>1. PICK t \in reached : y = 100 - t.pct
        OBVIOUS
      <4>2. t.pct \in 0..100
        BY <2>1, <4>1
      <4> QED
        BY <4>1, <4>2
    <3>3. N \subseteq Nat
      BY <3>2
    <3> QED
      BY <3>1, <3>3, LeastNumber
  <2>3. \E t \in reached : \A u \in reached : u.pct <= t.pct
    <3>1. PICK t \in reached : x = 100 - t.pct
      BY <2>2
    <3>2. \A u \in reached : 100 - t.pct <= 100 - u.pct
      BY <2>2, <3>1
    <3>3. \A u \in reached : u.pct \in 0..100
      BY <2>1
    <3> QED
      BY <3>2, <3>3
  <2>4. GetTier(pct) = CHOOSE t \in reached : \A u \in reached : u.pct <= t.pct
    BY <1>4 DEF GetTier
  <2>5. GetTier(pct) \in reached
    BY <2>3, <2>4
  <2> QED
    BY <2>5
<1> QED
    BY <1>3, <1>4

-----------------------------------------------------------------------------
(* Decisions.                                                               *)

UsageKnown == hourly \in [1..DayHours -> Nat]

\* What the usage leaves of the quota; an unreadable usage counts as none.
LEMMA RemainingIs ==
    ASSUME UsageKnown, NEW readable \in BOOLEAN
    PROVE  /\ Used \in Nat /\ Remaining(readable) \in Nat
           /\ \A p \in Nat : Remaining(TRUE) >= p =>
                p * Quota <= 100 * (IF Used <= Quota THEN Quota - Used ELSE 0)
<1>1. Used \in Nat
  <2>1. \A k \in 1..DayHours : hourly[k] <= hourly[k]
    BY DEF UsageKnown
  <2> QED
    BY <2>1, Constants, TotalGrows DEF UsageKnown, Used
<1>2. Quota \in Nat \ {0}
    BY Constants
<1>3. ASSUME NEW usage \in Nat
      PROVE  /\ Max({0, Quota - usage}) = (IF usage <= Quota THEN Quota - usage ELSE 0)
             /\ Max({0, Quota - usage}) * 100 \in Nat
  <2>1. 0 \in Int /\ Quota - usage \in Int
    BY <1>2
  <2> DEFINE d == Quota - usage
  <2> HIDE DEF d
  <2>2. Max({0, d}) = IF 0 >= d THEN 0 ELSE d
    BY <2>1, OfTwo DEF d
  <2> QED
    BY <1>2, <2>2 DEF d
<1>4. ASSUME NEW r \in BOOLEAN PROVE Remaining(r) \in Nat
  <2> DEFINE u == IF r THEN Used ELSE 0
             a == Max({0, Quota - u}) * 100
  <2>1. u \in Nat
    BY <1>1
  <2> HIDE DEF u
  <2>2. a \in Nat
    BY <1>3, <2>1
  <2>3. Remaining(r) = a \div Quota
    BY DEF Remaining, u
  <2> HIDE DEF a
  <2> QED
    BY <1>2, <2>2, <2>3, Division
<1>5. ASSUME NEW p \in Nat, Remaining(TRUE) >= p
      PROVE  p * Quota <= 100 * (IF Used <= Quota THEN Quota - Used ELSE 0)
  <2> DEFINE u == Used
             l == IF u <= Quota THEN Quota - u ELSE 0
             a == Max({0, Quota - u}) * 100
  <2>1. Remaining(TRUE) = a \div Quota
    BY DEF Remaining
  <2>2. u \in Nat
    BY <1>1
  <2> HIDE DEF u
  <2>3. a \in Nat /\ a = l * 100
    BY <1>3, <2>2
  <2> HIDE DEF a
  <2>4. p * Quota <= a
    BY <1>2, <1>5, <2>1, <2>3, DivAtLeast
  <2>5. l \in Nat
    BY <1>2, <2>2
  <2> HIDE DEF l
  <2>6. l * 100 = 100 * l
    BY <2>5
  <2> QED
    BY <2>3, <2>4, <2>6 DEF l, u
<1> QED
    BY <1>1, <1>4, <1>5

\* A decision of the governor that has a tracker.
LEMMA DecisionIs ==
    ASSUME UsageKnown, BonusKnown, NEW active \in SUBSET OperatorRules,
           NEW tracker \in {"ok", "error"}, NEW G, G = Decision(tracker, active \cup DynamicRules)
    PROVE  LET t == GetTier(Remaining(tracker = "ok"))
           IN /\ t \in Tiers /\ G.max \in MinAgents..MaxAgents /\ G.floor \in 0..3
              /\ G.allow = t.allow /\ G.base \in Nat
              /\ G.rules = active \cup DynamicRules
              /\ (\A r \in ResolveConflicts(G.rules) : r.mult <= 10) => G.max <= Max({MinAgents, G.base})
<1> DEFINE pct == Remaining(tracker = "ok")
           t == GetTier(pct)
           R == active \cup DynamicRules
<1>1. pct \in Nat
    BY RemainingIs
<1>2. G = [max |-> EffectiveAgents(t.agents, R), floor |-> t.floor, allow |-> t.allow,
           base |-> t.agents, rules |-> R]
    BY DEF Decision
<1>3. AreRules(R)
    BY RulesAreRules
<1> HIDE DEF R, pct
<1>4. t \in Tiers
    BY <1>1, TierIsTier
<1>5. t.agents \in Nat /\ t.floor \in 0..3
  <2>1. Tiers \subseteq [pct : 0..100, agents : Nat, floor : 0..3, allow : BOOLEAN]
    BY GovernorAssumption
  <2> HIDE DEF t
  <2> QED
    BY <1>4, <2>1
<1> HIDE DEF t
<1>6. /\ EffectiveAgents(t.agents, R) \in MinAgents..MaxAgents
      /\ (\A r \in ResolveConflicts(R) : r.mult <= 10) =>
           EffectiveAgents(t.agents, R) <= Max({MinAgents, t.agents})
    BY <1>3, <1>5, AgentsAreLimited
<1>7. /\ G.max = EffectiveAgents(t.agents, R) /\ G.floor = t.floor /\ G.allow = t.allow
      /\ G.base = t.agents /\ G.rules = R
    BY <1>2
<1> HIDE <1>2
<1>8. t \in Tiers /\ G.max \in MinAgents..MaxAgents /\ G.floor \in 0..3 /\ G.allow = t.allow /\ G.base \in Nat
    BY <1>4, <1>5, <1>6, <1>7
<1>9. (\A r \in ResolveConflicts(G.rules) : r.mult <= 10) => G.max <= Max({MinAgents, G.base})
    BY <1>6, <1>7
<1> QED
    BY <1>7, <1>8, <1>9 DEF t, R, pct

Reduces(G) ==
    LET cuts == {r \in G.rules : r.mult < 10}
    IN cuts # {} /\ (\A r \in G.rules : r.mult > 10 => \E c \in cuts : c.prec = r.prec)
         => G.max <= Max({MinAgents, G.base})

\* A decision without rules has none to reduce.
LEMMA NoRulesReduce ==
    Reduces(NoDecision) /\ \A active : Reduces(Decision("none", active))
<1>1. \A G : G.rules = {} => Reduces(G)
    BY DEF Reduces
<1>2. NoDecision.rules = {}
    BY DEF NoDecision
<1>3. \A active : Decision("none", active).rules = {}
    BY DEF Decision
<1> QED
    BY <1>1, <1>2, <1>3

\* In every decision a reduction wins over the boosts of its precedence.
LEMMA DecisionReduces ==
    ASSUME UsageKnown, BonusKnown, NEW active \in SUBSET OperatorRules, NEW tracker \in Trackers
    PROVE  Reduces(Decision(tracker, active \cup DynamicRules))
<1> DEFINE R == active \cup DynamicRules
           G == Decision(tracker, R)
<1>1. CASE tracker = "none"
    BY <1>1, NoRulesReduce
<1>2. CASE tracker # "none"
  <2>1. tracker \in {"ok", "error"}
    BY <1>2 DEF Trackers
  <2>2. AreRules(R)
    BY RulesAreRules
  <2>3. G.rules = R /\ ((\A r \in ResolveConflicts(G.rules) : r.mult <= 10) => G.max <= Max({MinAgents, G.base}))
    BY <2>1, DecisionIs
  <2> HIDE DEF G, R
  <2>4. SUFFICES ASSUME \A r \in R : r.mult > 10 => \E c \in R : c.mult < 10 /\ c.prec = r.prec
                 PROVE  \A r \in ResolveConflicts(R) : r.mult <= 10
    BY <2>3 DEF Reduces, G, R
  <2>5. SUFFICES ASSUME NEW r \in ResolveConflicts(R), r.mult > 10 PROVE FALSE
    BY <2>2, ConflictsResolved DEF AreRules
  <2>6. r \in R /\ \A c \in R : c.prec = r.prec => c.mult >= 10
    BY <2>2, <2>5, ConflictsResolved
  <2>7. PICK c \in R : c.mult < 10 /\ c.prec = r.prec
    BY <2>4, <2>5, <2>6
  <2> QED
    BY <2>2, <2>6, <2>7 DEF AreRules
<1> QED
    BY <1>1, <1>2

-----------------------------------------------------------------------------
(* A reduction wins.                                                        *)

GovernorInv == UsageKnown /\ BonusKnown /\ ReductionWins

LEMMA GovernorInvInit == GovernorInit => GovernorInv
<1> SUFFICES ASSUME GovernorInit PROVE GovernorInv
    OBVIOUS
<1>1. hourly = [i \in 1..DayHours |-> 0] /\ bonus = [mult |-> 10, high |-> 0] /\ gov = NoDecision
    BY DEF GovernorInit
<1>2. UsageKnown
    BY <1>1 DEF UsageKnown
<1>3. BonusKnown
    BY <1>1 DEF BonusKnown
<1>4. ReductionWins
  <2>1. Reduces(gov)
    BY <1>1, NoRulesReduce
  <2> QED
    BY <2>1 DEF Reduces, ReductionWins
<1> QED
    BY <1>2, <1>3, <1>4 DEF GovernorInv

\* The usage of the last hours stays a list of numbers, the bonus one of three.
LEMMA UsageStays ==
    ASSUME UsageKnown, BonusKnown, [GovernorNext]_govVars
    PROVE  UsageKnown' /\ BonusKnown'
<1>0. DayHours \in Nat /\ DayHours > 0
    BY Constants
<1>1. CASE UNCHANGED <<hourly, bonus>>
    BY <1>1 DEF UsageKnown, BonusKnown
<1>2. CASE SessionSpends
  <2>1. PICK cost \in 0..MaxCost : hourly' = [hourly EXCEPT ![1] = @ + cost]
    BY <1>2 DEF SessionSpends
  <2>2. cost \in Nat
    BY Constants
  <2>3. UsageKnown'
    BY <1>0, <2>1, <2>2 DEF UsageKnown
  <2>4. bonus' = bonus
    BY <1>2 DEF SessionSpends
  <2> QED
    BY <2>3, <2>4 DEF BonusKnown
<1>3. CASE Detect
  <2>1. hourly' = hourly
    BY <1>3 DEF Detect
  <2>2. \/ bonus' = [mult |-> 10, high |-> 0]
        \/ \E h : bonus' = [bonus EXCEPT !.high = h]
        \/ \E m \in {20, 50} : bonus' = [bonus EXCEPT !.mult = m]
    BY <1>3 DEF Detect
  <2>3. CASE bonus' = [mult |-> 10, high |-> 0]
    BY <2>1, <2>3 DEF UsageKnown, BonusKnown
  <2>4. ASSUME NEW h, bonus' = [bonus EXCEPT !.high = h] PROVE UsageKnown' /\ BonusKnown'
    BY <2>1, <2>4 DEF UsageKnown, BonusKnown
  <2>5. ASSUME NEW m \in {20, 50}, bonus' = [bonus EXCEPT !.mult = m] PROVE UsageKnown' /\ BonusKnown'
    BY <2>1, <2>5 DEF UsageKnown, BonusKnown
  <2> QED
    BY <2>2, <2>3, <2>4, <2>5
<1>4. CASE HourPasses
  <2>1. hourly' = [i \in 1..DayHours |-> IF i = 1 THEN 0 ELSE hourly[i - 1]]
    BY <1>4 DEF HourPasses
  <2>2. UsageKnown'
    BY <1>0, <2>1 DEF UsageKnown
  <2>3. \E h : bonus' = [bonus EXCEPT !.high = h]
    BY <1>4 DEF HourPasses
  <2>4. BonusKnown'
    BY <2>3 DEF BonusKnown
  <2> QED
    BY <2>2, <2>4
<1>5. ASSUME ResolveCycle \/ Govern \/ CheckAlerts \/ AskGuardrails \/ UNCHANGED govVars
      PROVE UNCHANGED <<hourly, bonus>>
    BY <1>5 DEF ResolveCycle, Govern, CheckAlerts, AskGuardrails, govVars
<1> QED
    BY <1>1, <1>2, <1>3, <1>4, <1>5 DEF GovernorNext

LEMMA GovernorInvStep == GovernorInv /\ [GovernorNext]_govVars => GovernorInv'
<1> SUFFICES ASSUME GovernorInv, [GovernorNext]_govVars PROVE GovernorInv'
    OBVIOUS
<1>1. UsageKnown' /\ BonusKnown'
    BY UsageStays DEF GovernorInv
<1>2. Reduces(gov)
    BY DEF GovernorInv, ReductionWins, Reduces
<1>3. CASE Govern
  <2>1. PICK tracker \in Trackers, active \in SUBSET OperatorRules :
          gov' = Decision(tracker, active \cup DynamicRules)
    BY <1>3 DEF Govern
  <2>2. Reduces(Decision(tracker, active \cup DynamicRules))
    BY DecisionReduces DEF GovernorInv
  <2>3. Reduces(gov')
    BY <2>1, <2>2
  <2> QED
    BY <1>1, <2>3 DEF GovernorInv, ReductionWins, Reduces
<1>4. CASE ~Govern
  <2>1. gov' = NoDecision \/ gov' = gov
    BY <1>4 DEF GovernorNext, ResolveCycle, SessionSpends, CheckAlerts, Detect, HourPasses,
                AskGuardrails, govVars
  <2>2. Reduces(gov')
    BY <1>2, <2>1, NoRulesReduce
  <2> QED
    BY <1>1, <2>2 DEF GovernorInv, ReductionWins, Reduces
<1> QED
    BY <1>3, <1>4

\* Whatever rules of the operator, schedules and bonuses apply, a reduction is
\* never turned into an increase by a boost of its own precedence.
THEOREM ReductionsWin == GovernorSpec => []ReductionWins
<1>1. GovernorInv => ReductionWins
    BY DEF GovernorInv
<1> QED
    BY <1>1, GovernorInvInit, GovernorInvStep, PTL DEF GovernorSpec

-----------------------------------------------------------------------------
(* The quota.                                                               *)

\* Percentages of the tiers that begin new work and below which none does.
Lasts == {p \in {t.pct : t \in {u \in Tiers : u.allow}} : \A t \in Tiers : t.allow => p <= t.pct}

\* What is used and what the running sessions may use exceed the point p by
\* one batch at most.
Within(p, usage, running) ==
    100 * usage + 100 * (running * MaxCost) <= (100 - p) * Quota + 100 * (MaxAgents * MaxCost)

QuotaInv ==
    /\ UsageKnown /\ BonusKnown
    /\ work \in 0..MaxAgents /\ eff.limit \in Nat
    /\ \A p \in Lasts : Within(p, Used, work)

\* A batch that begins at or above the point keeps to the bound.
LEMMA BatchFits ==
    ASSUME NEW p \in 0..100, NEW usage \in Nat, NEW running \in 0..MaxAgents,
           100 * usage <= (100 - p) * Quota
    PROVE  Within(p, usage, running)
<1>1. running * MaxCost <= MaxAgents * MaxCost /\ running * MaxCost \in Nat /\ MaxAgents * MaxCost \in Nat
  <2>1. running \in Nat /\ running <= MaxAgents /\ MaxAgents \in Nat /\ MaxCost \in Nat
    BY Constants
  <2> QED
    BY <2>1, ProductsOfNumbers
<1>2. (100 - p) * Quota \in Int
    BY Constants
<1> DEFINE x == running * MaxCost
           y == MaxAgents * MaxCost
           z == (100 - p) * Quota
<1> HIDE DEF x, y, z
<1>3. 100 * usage + 100 * x <= z + 100 * y
    BY <1>1, <1>2 DEF x, y, z
<1> QED
    BY <1>3 DEF x, y, z, Within

\* A session that ends has used what was reserved for it.
LEMMA SessionFits ==
    ASSUME NEW p \in 0..100, NEW usage \in Nat, NEW running \in 1..MaxAgents, NEW cost \in 0..MaxCost,
           Within(p, usage, running)
    PROVE  Within(p, usage + cost, running - 1)
<1>1. running * MaxCost = (running - 1) * MaxCost + MaxCost
    BY Constants
<1>2. (running - 1) * MaxCost \in Int /\ MaxAgents * MaxCost \in Int /\ (100 - p) * Quota \in Int
    BY Constants
<1> DEFINE w == (running - 1) * MaxCost
           y == MaxAgents * MaxCost
           z == (100 - p) * Quota
<1>3. 100 * usage + 100 * (w + MaxCost) <= z + 100 * y
    BY <1>1 DEF Within
<1> HIDE DEF w, y, z
<1>4. w \in Int /\ y \in Int /\ z \in Int
    BY <1>2 DEF w, y, z
<1>5. 100 * (usage + cost) + 100 * w <= z + 100 * y
    BY <1>3, <1>4, Constants
<1> QED
    BY <1>5 DEF w, y, z, Within

\* Less usage and no more running sessions keep to the bound.
LEMMA LessFits ==
    ASSUME NEW p \in 0..100, NEW usage \in Nat, NEW less \in Nat, less <= usage,
           NEW running \in Nat, Within(p, usage, running)
    PROVE  Within(p, less, running)
<1>1. running * MaxCost \in Int /\ MaxAgents * MaxCost \in Int /\ (100 - p) * Quota \in Int
    BY Constants
<1> DEFINE w == running * MaxCost
           y == MaxAgents * MaxCost
           z == (100 - p) * Quota
<1>2. 100 * usage + 100 * w <= z + 100 * y
    BY DEF Within
<1> HIDE DEF w, y, z
<1>3. w \in Int /\ y \in Int /\ z \in Int
    BY <1>1 DEF w, y, z
<1>4. 100 * less + 100 * w <= z + 100 * y
    BY <1>2, <1>3
<1> QED
    BY <1>4 DEF w, y, z, Within

\* The limit of a cycle is a number.
LEMMA LimitIsNumber ==
    ASSUME NEW r1, NEW r2, NEW r3, r1.mult \in Nat, r2.mult \in Nat, r3.mult \in Nat
    PROVE  Resolve(<<r1, r2, r3>>).limit \in Nat
<1> DEFINE R == <<r1, r2, r3>>
           f == [i \in DOMAIN R |-> R[i].mult]
           product == ProductOf(f, DOMAIN R)
           m == Max({100, Min({4000, product})})
<1>1. DOMAIN R = 1..3 /\ f \in [1..3 -> Nat]
  <2>1. DOMAIN R = 1..3
    OBVIOUS
  <2>2. ASSUME NEW i \in 1..3 PROVE R[i].mult \in Nat
    <3>1. i = 1 \/ i = 2 \/ i = 3
      OBVIOUS
    <3>2. R[1] = r1 /\ R[2] = r2 /\ R[3] = r3
      OBVIOUS
    <3> QED
      BY <3>1, <3>2
  <2> QED
    BY <2>1, <2>2
<1>2. Resolve(R).limit = Max({1, (BaseLimit * m) \div 1000})
    BY DEF Resolve
<1>3. product \in Nat
  <2>1. IsFiniteSet(1..3)
    <3>1. 1 \in Int /\ 3 \in Int
      OBVIOUS
    <3> QED
      BY <3>1, FS_Interval
  <2> HIDE DEF f
  <2>2. \A i \in 1..3 : f[i] <= f[i]
    BY <1>1
  <2>3. ProductOf(f, 1..3) \in Nat
    BY <1>1, <2>1, <2>2, ProductGrows
  <2> QED
    BY <1>1, <2>3
<1> HIDE DEF R, product
<1>4. Min({4000, product}) \in Nat
  <2>1. 4000 \in Int /\ product \in Int
    BY <1>3
  <2>2. Min({4000, product}) = IF 4000 <= product THEN 4000 ELSE product
    BY <2>1, OfTwo
  <2> QED
    BY <1>3, <2>2
<1> DEFINE l == Min({4000, product})
<1> HIDE DEF l
<1>5. Max({100, l}) \in Nat
  <2>1. 100 \in Int /\ l \in Int
    BY <1>4 DEF l
  <2>2. Max({100, l}) = IF 100 >= l THEN 100 ELSE l
    BY <2>1, OfTwo
  <2> QED
    BY <1>4, <2>2 DEF l
<1>6. m \in Nat
    BY <1>5 DEF l
<1> HIDE DEF m
<1>7. BaseLimit * m \in Nat
    BY <1>6, Constants
<1> DEFINE a == BaseLimit * m
           q == a \div 1000
<1> HIDE DEF a
<1>8. q \in Nat
  <2>1. a \in Nat /\ 1000 \in Nat \ {0}
    BY <1>7 DEF a
  <2> QED
    BY <2>1, Division
<1> HIDE DEF q
<1>9. Max({1, q}) \in Nat
  <2>1. 1 \in Int /\ q \in Int
    BY <1>8
  <2>2. Max({1, q}) = IF 1 >= q THEN 1 ELSE q
    BY <2>1, OfTwo
  <2> QED
    BY <1>8, <2>2
<1> QED
    BY <1>2, <1>9 DEF q, a, R

\* The multipliers of the adapters are numbers.
LEMMA AdaptersGiveNumbers ==
    /\ \A h : TimeBased(h).mult \in Nat
    /\ \A pct, days : Capacity(pct, days).mult \in Nat
    /\ \A backlog, critical : Demand(backlog, critical).mult \in Nat
<1>1. ASSUME NEW h PROVE TimeBased(h).mult \in Nat
  <2> DEFINE hit == {i \in DOMAIN Bands : HourInWindow(h, Bands[i].from, Bands[i].to)}
  <2>1. TimeBased(h).mult = IF hit = {} THEN 10 ELSE Bands[Min(hit)].mult
    BY DEF TimeBased
  <2>2. Bands \in Seq([from : Nat, to : Nat, mult : Nat])
    BY GovernorAssumption
  <2>3. hit \subseteq Nat /\ hit \subseteq DOMAIN Bands
    BY <2>2
  <2> HIDE DEF hit
  <2>4. ASSUME hit # {} PROVE Bands[Min(hit)].mult \in Nat
    <3>1. \E x \in hit : \A y \in hit : x <= y
      BY <2>3, <2>4, LeastNumber
    <3>2. Min(hit) \in hit
      BY <3>1 DEF Min
    <3>3. Min(hit) \in DOMAIN Bands
      BY <2>3, <3>2
    <3>4. Bands[Min(hit)] \in [from : Nat, to : Nat, mult : Nat]
      <4> DEFINE S == [from : Nat, to : Nat, mult : Nat]
                 i == Min(hit)
      <4>1. Bands \in Seq(S) /\ i \in DOMAIN Bands
        BY <2>2, <3>3
      <4> HIDE DEF S, i
      <4>2. Bands[i] \in S
        BY <4>1
      <4> QED
        BY <4>2 DEF S, i
    <3> QED
      BY <3>4
  <2> QED
    BY <2>1, <2>4
<1>2. ASSUME NEW pct, NEW days PROVE Capacity(pct, days).mult \in Nat
    BY DEF Capacity
<1>3. ASSUME NEW backlog, NEW critical PROVE Demand(backlog, critical).mult \in Nat
  <2>1. SurgeMult \in Nat /\ CritSurgeMult \in Nat
    BY GovernorAssumption
  <2> QED
    BY <2>1 DEF Demand
<1> QED
    BY <1>1, <1>2, <1>3

\* Points of the tiers are percentages.
LEMMA LastsAre == Lasts \subseteq 0..100
    BY TiersAre DEF Lasts

LEMMA QuotaInvInit == GovernorInit => QuotaInv
<1> SUFFICES ASSUME GovernorInit PROVE QuotaInv
    OBVIOUS
<1>1. UsageKnown /\ BonusKnown
    BY GovernorInvInit DEF GovernorInv
<1>2. work = 0 /\ eff.limit = BaseLimit /\ hourly = [i \in 1..DayHours |-> 0]
    BY DEF GovernorInit, StaticLimits
<1>3. work \in 0..MaxAgents /\ eff.limit \in Nat
    BY <1>2, Constants
<1>4. Used = 0
  <2>1. hourly \in [1..DayHours -> Nat] /\ \A k \in 1..DayHours : hourly[k] = 0
    BY <1>2
  <2> QED
    BY <2>1, Constants, TotalOfZeros DEF Used
<1>5. ASSUME NEW p \in Lasts PROVE Within(p, Used, work)
  <2>1. p \in 0..100
    BY LastsAre
  <2>2. 100 - p \in Nat /\ Quota \in Nat
    BY <2>1, Constants
  <2>3. (100 - p) * Quota >= 0
    BY <2>2
  <2> QED
    BY <1>2, <1>3, <1>4, <2>1, <2>3, BatchFits
<1> QED
    BY <1>1, <1>3, <1>5 DEF QuotaInv

\* Steps that keep the usage and the running sessions keep to the bound.
LEMMA QuotaSame ==
    ASSUME QuotaInv, [GovernorNext]_govVars, UNCHANGED <<hourly, work>>, eff'.limit \in Nat
    PROVE  QuotaInv'
<1>1. UsageKnown' /\ BonusKnown'
    BY UsageStays DEF QuotaInv
<1>2. Used' = Used
    BY DEF Used
<1>3. \A p \in Lasts : Within(p, Used', work')
    BY <1>2 DEF QuotaInv
<1> QED
    BY <1>1, <1>3 DEF QuotaInv

\* A batch begins: its tier, and the usage at which it begins.
LEMMA QuotaGovern ==
    ASSUME ~TrackerFails, \A t \in Tiers : t.allow => \E u \in Tiers : u.pct < t.pct,
           QuotaInv, Govern
    PROVE  QuotaInv'
<1>1. UsageKnown /\ BonusKnown /\ UsageKnown' /\ BonusKnown' /\ eff.limit \in Nat /\ eff' = eff /\ hourly' = hourly
  <2>1. eff' = eff /\ hourly' = hourly
    BY DEF Govern
  <2> QED
    BY <2>1, UsageStays DEF QuotaInv, GovernorNext
<1>2. PICK active \in SUBSET OperatorRules : gov' = Decision("ok", active \cup DynamicRules)
    BY DEF Govern, Trackers
<1> DEFINE rest == Remaining(TRUE)
           t == GetTier(rest)
           G == gov'
<1>3. t \in Tiers /\ G.max \in MinAgents..MaxAgents /\ G.allow = t.allow
    BY <1>1, <1>2, DecisionIs
<1>4. rest \in Nat /\ Used \in Nat
    BY <1>1, RemainingIs
<1>5. \A p \in Nat : rest >= p => p * Quota <= 100 * (IF Used <= Quota THEN Quota - Used ELSE 0)
    BY <1>1, RemainingIs
<1>6. rest >= t.pct \/ \A u \in Tiers : t.pct <= u.pct
    BY <1>4, TierIsTier
<1>7. \E above \in Nat : work' = IF G.allow THEN Min({G.max, above, eff.limit}) ELSE 0
  <2>1. PICK medium \in 0..MaxBacklog, critical \in 0..MaxBacklog :
          LET above == critical + (IF G.floor <= 1 THEN medium ELSE 0)
          IN work' = IF G.allow THEN Min({G.max, above, eff.limit}) ELSE 0
    BY DEF Govern
  <2> DEFINE above == critical + (IF G.floor <= 1 THEN medium ELSE 0)
  <2>2. above \in Nat
    BY Constants
  <2> QED
    BY <2>1, <2>2
<1> HIDE DEF rest, t, G
<1>8. work' \in 0..MaxAgents /\ (~t.allow => work' = 0)
  <2>1. PICK above \in Nat : work' = IF G.allow THEN Min({G.max, above, eff.limit}) ELSE 0
    BY <1>7
  <2>2. G.max \in Nat /\ G.max <= MaxAgents /\ 0 <= MaxAgents /\ MaxAgents \in Nat
    BY <1>3, Constants
  <2>3. Min({G.max, above, eff.limit}) \in Nat /\ Min({G.max, above, eff.limit}) <= G.max
    BY <1>1, <2>2, LeastOfThree
  <2> QED
    BY <1>3, <2>1, <2>2, <2>3
<1>9. Used' = Used
    BY <1>1 DEF Used
<1>10. ASSUME NEW p \in Lasts PROVE Within(p, Used, work')
  <2>1. p \in 0..100 /\ p \in Nat
    BY LastsAre
  <2>2. CASE ~t.allow
    <3>1. work' = 0 /\ work \in Nat /\ Within(p, Used, work)
      BY <1>8, <2>2 DEF QuotaInv
    <3>2. work = 0
      BY DEF Govern
    <3> QED
      BY <3>1, <3>2
  <2>3. CASE t.allow
    <3>1. p <= t.pct
      BY <1>3, <2>3 DEF Lasts
    <3>2. \A u \in Tiers : u.pct \in 0..100
      BY TiersAre
    <3>3. t.pct <= rest
      BY <1>3, <1>6, <2>3, <3>2
    <3>4. rest >= p
      BY <1>3, <1>4, <2>1, <3>1, <3>2, <3>3
    <3>5. p > 0
      <4>1. PICK s \in Tiers : s.allow /\ p = s.pct
        BY DEF Lasts
      <4>2. PICK u \in Tiers : u.pct < s.pct
        BY <4>1
      <4> QED
        BY <3>2, <4>1, <4>2
    <3> DEFINE n == Used
               b == p * Quota
    <3>6. b <= 100 * (IF n <= Quota THEN Quota - n ELSE 0)
      BY <1>5, <2>1, <3>4
    <3>7. b \in Nat /\ b > 0 /\ (100 - p) * Quota = 100 * Quota - b
      BY <2>1, <3>5, Constants
    <3>8. n \in Nat /\ Quota \in Nat
      BY <1>4, Constants
    <3> HIDE DEF n, b
    <3>9. 100 * n <= 100 * Quota - b
      BY <3>6, <3>7, <3>8
    <3>10. 100 * n <= (100 - p) * Quota
      BY <3>7, <3>9
    <3> QED
      BY <1>8, <2>1, <3>8, <3>10, BatchFits DEF n
  <2> QED
    BY <2>2, <2>3
<1> QED
    BY <1>1, <1>8, <1>9, <1>10 DEF QuotaInv

\* A session of the batch ends.
LEMMA QuotaSession == ASSUME QuotaInv, SessionSpends PROVE QuotaInv'
<1>1. UsageKnown' /\ BonusKnown'
    BY UsageStays DEF QuotaInv, GovernorNext
<1>2. PICK cost \in 0..MaxCost : hourly' = [hourly EXCEPT ![1] = @ + cost]
    BY DEF SessionSpends
<1>3. work > 0 /\ work' = work - 1 /\ work \in 0..MaxAgents /\ (eff' = eff \/ eff' = StaticLimits)
    BY DEF SessionSpends, QuotaInv
<1>4. work' \in 0..MaxAgents /\ work \in 1..MaxAgents
    BY <1>3, Constants
<1>5. eff'.limit \in Nat
    BY <1>3, Constants DEF QuotaInv, StaticLimits
<1>6. Used \in Nat /\ Used' = Used + cost
  <2>1. cost \in Nat
    BY Constants
  <2>2. hourly \in [1..DayHours -> Nat] /\ hourly' \in [1..DayHours -> Nat]
    BY <1>1 DEF QuotaInv, UsageKnown
  <2>3. \A k \in 1..DayHours : hourly'[k] = IF k = 1 THEN hourly[1] + cost ELSE hourly[k]
    BY <1>2, <2>2
  <2>4. DayHours \in Nat \ {0}
    BY Constants
  <2> DEFINE g == hourly'
  <2> HIDE DEF g
  <2>5. Total(hourly, DayHours) \in Nat /\ Total(g, DayHours) = Total(hourly, DayHours) + cost
    <3>1. g \in [1..DayHours -> Nat] /\ \A k \in 1..DayHours : g[k] = IF k = 1 THEN hourly[1] + cost ELSE hourly[k]
      BY <2>2, <2>3 DEF g
    <3> QED
      BY <2>1, <2>2, <2>4, <3>1, TotalAdds
  <2> QED
    BY <2>5 DEF Used, g
<1>7. ASSUME NEW p \in Lasts PROVE Within(p, Used', work')
  <2>1. p \in 0..100 /\ Within(p, Used, work)
    BY LastsAre DEF QuotaInv
  <2>2. Within(p, Used + cost, work - 1)
    BY <1>4, <1>6, <2>1, SessionFits
  <2> QED
    BY <1>3, <1>6, <2>2
<1> QED
    BY <1>1, <1>4, <1>5, <1>7 DEF QuotaInv

\* An hour is forgotten.
LEMMA QuotaHour == ASSUME QuotaInv, HourPasses PROVE QuotaInv'
<1>1. UsageKnown' /\ BonusKnown'
    BY UsageStays DEF QuotaInv, GovernorNext
<1>2. work' = work /\ work \in 0..MaxAgents /\ (eff' = eff \/ eff' = StaticLimits)
    BY DEF HourPasses, QuotaInv
<1>3. eff'.limit \in Nat
    BY <1>2, Constants DEF QuotaInv, StaticLimits
<1>4. Used \in Nat /\ Used' \in Nat /\ Used' <= Used
  <2>1. hourly \in [1..DayHours -> Nat] /\ hourly' \in [1..DayHours -> Nat]
    BY <1>1 DEF QuotaInv, UsageKnown
  <2>2. hourly' = [i \in 1..DayHours |-> IF i = 1 THEN 0 ELSE hourly[i - 1]]
    BY DEF HourPasses
  <2>3. DayHours \in Nat \ {0}
    BY Constants
  <2> DEFINE g == hourly'
  <2>4. g \in [1..DayHours -> Nat] /\ \A k \in 1..DayHours : g[k] = IF k = 1 THEN 0 ELSE hourly[k - 1]
    BY <2>1, <2>2
  <2> HIDE DEF g
  <2>5. /\ Total(hourly, DayHours) \in Nat /\ Total(g, DayHours) \in Nat
        /\ Total(g, DayHours) <= Total(hourly, DayHours)
    BY <2>1, <2>3, <2>4, TotalShifted
  <2> QED
    BY <2>5 DEF Used, g
<1>5. ASSUME NEW p \in Lasts PROVE Within(p, Used', work')
  <2>1. p \in 0..100 /\ Within(p, Used, work) /\ work \in Nat
    BY <1>2, LastsAre DEF QuotaInv
  <2>2. Within(p, Used', work)
    BY <1>4, <2>1, LessFits
  <2> QED
    BY <1>2, <2>2
<1> QED
    BY <1>1, <1>2, <1>3, <1>5 DEF QuotaInv

\* A cycle resolves its limits.
LEMMA QuotaResolve == ASSUME QuotaInv, ResolveCycle PROVE QuotaInv'
<1>1. UNCHANGED <<hourly, work>>
    BY DEF ResolveCycle
<1>2. eff'.limit \in Nat
  <2>1. PICK backlog, critical, enabled, fails :
          eff' = IF ~enabled THEN StaticLimits
                 ELSE Resolve(<<IF fails THEN [mult |-> 10, severity |-> 0] ELSE TimeBased(clock.hour),
                                Capacity(0, 7), Demand(backlog, critical)>>)
    BY DEF ResolveCycle
  <2> DEFINE r1 == IF fails THEN [mult |-> 10, severity |-> 0] ELSE TimeBased(clock.hour)
             r2 == Capacity(0, 7)
             r3 == Demand(backlog, critical)
  <2>2. r1.mult \in Nat /\ r2.mult \in Nat /\ r3.mult \in Nat
    BY AdaptersGiveNumbers
  <2>3. eff' = StaticLimits \/ eff' = Resolve(<<r1, r2, r3>>)
    BY <2>1
  <2> HIDE DEF r1, r2, r3
  <2>4. Resolve(<<r1, r2, r3>>).limit \in Nat
    BY <2>2, LimitIsNumber
  <2>5. StaticLimits.limit \in Nat
    BY Constants DEF StaticLimits
  <2> QED
    BY <2>3, <2>4, <2>5
<1> QED
    BY <1>1, <1>2, QuotaSame DEF GovernorNext

LEMMA QuotaInvStep ==
    ASSUME ~TrackerFails, \A t \in Tiers : t.allow => \E u \in Tiers : u.pct < t.pct
    PROVE  QuotaInv /\ [GovernorNext]_govVars => QuotaInv'
<1> SUFFICES ASSUME QuotaInv, [GovernorNext]_govVars PROVE QuotaInv'
    OBVIOUS
<1>1. CASE CheckAlerts \/ Detect \/ AskGuardrails \/ UNCHANGED govVars
  <2>1. UNCHANGED <<hourly, work, eff>>
    BY <1>1 DEF CheckAlerts, Detect, AskGuardrails, govVars
  <2>2. eff'.limit \in Nat
    BY <2>1 DEF QuotaInv
  <2> QED
    BY <2>1, <2>2, QuotaSame
<1> QED
    BY <1>1, QuotaGovern, QuotaSession, QuotaHour, QuotaResolve DEF GovernorNext

\* When the usage can be read and no tier begins new work with the least quota
\* left, the usage never runs past the point where new work stops by more than
\* one batch, with whatever boosts, bonuses and hours.
THEOREM QuotasAreKept ==
    ASSUME ~TrackerFails, \A t \in Tiers : t.allow => \E u \in Tiers : u.pct < t.pct
    PROVE  GovernorSpec => []QuotaIsKept
<1>1. QuotaInv => QuotaIsKept
  <2> SUFFICES ASSUME QuotaInv, NEW p \in Lasts
               PROVE  100 * Used <= (100 - p) * Quota + 100 * MaxAgents * MaxCost
    BY DEF QuotaIsKept, Lasts
  <2>1. Within(p, Used, work) /\ p \in 0..100 /\ work \in 0..MaxAgents /\ Used \in Nat
    BY LastsAre, RemainingIs DEF QuotaInv
  <2> DEFINE u == Used
             w == work * MaxCost
  <2>2. w \in Nat /\ u \in Nat /\ (100 - p) * Quota \in Int /\ 100 * (MaxAgents * MaxCost) \in Int
    BY <2>1, Constants
  <2>3. 100 * u + 100 * w <= (100 - p) * Quota + 100 * (MaxAgents * MaxCost)
    BY <2>1 DEF Within
  <2>4. 100 * MaxAgents * MaxCost = 100 * (MaxAgents * MaxCost)
    BY Constants
  <2> HIDE DEF u, w
  <2>5. 100 * u <= (100 - p) * Quota + 100 * (MaxAgents * MaxCost)
    BY <2>2, <2>3
  <2> QED
    BY <2>4, <2>5 DEF u
<1>2. QuotaInv /\ [GovernorNext]_govVars => QuotaInv'
    BY QuotaInvStep
<1> QED
    BY <1>1, <1>2, QuotaInvInit, PTL DEF GovernorSpec
=============================================================================
