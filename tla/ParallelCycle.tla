--------------------------- MODULE ParallelCycle ---------------------------
(***************************************************************************)
(* The two phases of run_cycle that differ in the parallel and adaptive    *)
(* modes: _run_parallel_investigations and _run_parallel_developments of   *)
(* scripts/ops/swe_team_runner.py with ParallelExecutor, WorktreeManager   *)
(* and the JSON ticket store.                                              *)
(*                                                                         *)
(* Sessions run in pool threads that may outlive the call that submitted   *)
(* them, and change the ticket objects that the runner works on.  When a   *)
(* session ends, its thread saves the ticket through a store of its own:   *)
(* it reads the file, replaces one ticket and writes the file.             *)
(***************************************************************************)
EXTENDS Naturals, Sequences, FiniteSets, FiniteSetsExt, Functions

CONSTANTS
    PTicket,       \* ticket ids
    Sandbox,       \* tickets of sandbox repositories, developed without a work tree
    Job,           \* bound: futures that exist at the same time
    Profiles,      \* sizes of the two pools in each execution profile
    Base,          \* the profile an executor starts with
    MaxPools,      \* bound: how often the pools are rebuilt, plus one
    TreePool,      \* pool_size of the WorktreeManager
    PRateLimits,   \* a session may raise RateLimitCooldown
    SubmitRefuses, \* submit may raise RuntimeError
    PMayCrash      \* the process may die

ASSUME ParallelAssumption ==
    /\ Sandbox \subseteq PTicket
    /\ Profiles \subseteq [investigate : Nat \ {0}, develop : Nat \ {0}]
    /\ Base \in Profiles
    /\ MaxPools \in Nat \ {0} /\ TreePool \in Nat \ {0}
    /\ Job \subseteq Nat /\ Job # {}
    /\ {PRateLimits, SubmitRefuses, PMayCrash} \subseteq BOOLEAN

VARIABLES
    obj,      \* the ticket objects of the runner's store
    file,     \* the tickets in the store's file
    job,      \* futures and the threads that run them
    pools,    \* the sizes of all pools made so far; the last one is in use
    at,       \* where the runner is
    left,     \* tickets its loop has not come to yet
    futures,  \* futures it waits for, in submission order
    found,    \* investigated: tickets whose reports this cycle collected
    trees,    \* _worktrees: tickets with an entry (always in_use)
    release,  \* release calls that removed the directory but not the entry yet
    deferred, \* futures whose _deferred_release thread waits
    cut       \* history: tickets a rate limit left in a pool's queue

parVars == <<obj, file, job, pools, at, left, futures, found, trees, release,
             deferred, cut>>

PRecord == [st : {"triaged", "investigating", "investigation_complete",
                  "in_development", "in_review", "failed"},
            rep : BOOLEAN]

Idle == [t |-> "none", kind |-> "investigate", st |-> "free", ok |-> FALSE,
         pool |-> 1, snap |-> "none"]

ParallelTypeOK ==
    /\ obj \in [PTicket -> PRecord] /\ file \in [PTicket -> PRecord]
    /\ \A j \in Job :
          /\ job[j].t \in PTicket \cup {"none"}
          /\ job[j].kind \in {"investigate", "develop"}
          /\ job[j].st \in {"free", "queued", "running", "ended", "loaded", "done",
                            "raised"}
          /\ job[j].ok \in BOOLEAN
          /\ job[j].pool \in 1..Len(pools)
          /\ job[j].st = "loaded" => job[j].snap \in [PTicket -> PRecord]
    /\ pools \in Seq(Profiles) /\ Len(pools) \in 1..MaxPools
    /\ at \in {"idle", "submit_inv", "collect_inv", "save_inv", "submit_dev",
               "collect_dev", "retry"}
    /\ left \subseteq PTicket /\ found \subseteq PTicket
    /\ futures \in Seq(Job)
    /\ trees \subseteq PTicket /\ release \subseteq PTicket
    /\ deferred \subseteq Job /\ cut \subseteq PTicket

ParallelInit ==
    /\ obj \in [PTicket -> [st : {"triaged"}, rep : {FALSE}]
                           \cup [st : {"investigation_complete"}, rep : {TRUE}]]
    /\ file = obj
    /\ job = [j \in Job |-> Idle]
    /\ pools = <<Base>>
    /\ at = "idle" /\ left = {} /\ futures = <<>> /\ found = {}
    /\ trees = {} /\ release = {} /\ deferred = {} /\ cut = {}

runner == <<at, left, futures, found>>
treeVars == <<trees, release, deferred>>

-----------------------------------------------------------------------------
\* store.add of the runner's own store writes all its objects.
SaveAll(o) == obj' = o /\ file' = o

Ended == {"done", "raised"}

\* Futures that ended and that nobody waits for any more are forgotten.
Swept(J, waiting) ==
    [j \in Job |-> IF J[j].st \in Ended /\ j \notin waiting THEN Idle ELSE J[j]]

Waiting == Range(futures)

Alive(j) == job[j].st \in {"queued", "running"}

\* _rebuild_pools: the old pools take no new work and finish what they have.
Scaled(p) ==
    pools' = IF p = pools[Len(pools)] THEN pools ELSE Append(pools, p)

\* resolve_adaptive_profile and scale_to choose a profile.
ScaleTo(p) ==
    /\ p # pools[Len(pools)] => Len(pools) < MaxPools
    /\ Scaled(p)

\* submit_investigation, submit_development: the future of ticket t.
NewFuture(j, t, kind) ==
    /\ j = Min({i \in Job : job[i].st = "free"} \cup {Max(Job) + 1})
    /\ job' = [job EXCEPT ![j] = [t |-> t, kind |-> kind, st |-> "queued",
                                  ok |-> FALSE, pool |-> Len(pools), snap |-> "none"]]
    /\ futures' = Append(futures, j)

-----------------------------------------------------------------------------
\* _reset_stale_tickets at the start of a cycle.  The limits of two and four
\* hours are longer than the time limits of the sessions.
StaleTicket(t) ==
    /\ at = "idle"
    /\ obj[t].st \in {"investigating", "in_development"}
    /\ ~\E j \in Job : job[j].t = t /\ Alive(j)
    /\ SaveAll([obj EXCEPT ![t].st = IF obj[t].st = "investigating" THEN "triaged"
                                     ELSE "investigation_complete"])
    /\ UNCHANGED <<job, pools, cut, runner, treeVars>>

\* _run_parallel_investigations begins with the batch P.
StartInvestigations(P, p) ==
    /\ at = "idle"
    /\ P # {} /\ P \subseteq {t \in PTicket : obj[t].st = "triaged" /\ ~obj[t].rep}
    /\ ScaleTo(p)
    /\ at' = "submit_inv" /\ left' = P
    /\ UNCHANGED <<obj, file, job, futures, found, treeVars, cut>>

SubmitInvestigation(j, t) ==
    /\ at = "submit_inv" /\ t \in left
    /\ left' = left \ {t}
    /\ NewFuture(j, t, "investigate")
    /\ UNCHANGED <<obj, file, pools, cut, at, found, treeVars>>

\* RuntimeError from submit is logged, and the ticket is left out.
InvestigationRefused(t) ==
    /\ SubmitRefuses
    /\ at = "submit_inv" /\ t \in left
    /\ left' = left \ {t}
    /\ UNCHANGED <<obj, file, job, pools, cut, at, futures, found, treeVars>>

CollectInvestigations ==
    /\ at = "submit_inv" /\ left = {}
    /\ at' = "collect_inv"
    /\ UNCHANGED <<obj, file, job, pools, cut, left, futures, found, treeVars>>

Succeeded == {job[j].t : j \in {i \in Waiting : job[i].st = "done" /\ job[i].ok}}

\* collect_results: all futures have ended, none by RateLimitCooldown,
InvestigationsCollected ==
    /\ at = "collect_inv"
    /\ \A j \in Waiting : job[j].st = "done"
    /\ at' = "save_inv" /\ left' = Succeeded /\ futures' = <<>>
    /\ job' = Swept(job, deferred)
    /\ UNCHANGED <<obj, file, pools, cut, found, treeVars>>

\* Mutant: futures that did not begin are left in the pool.
MutInvestigationsTimeOut ==
    /\ at = "collect_inv"
    /\ \E j \in Waiting : job[j].st \notin Ended
    /\ \A j \in Waiting : job[j].st # "raised"
    /\ at' = "save_inv" /\ left' = Succeeded /\ futures' = <<>>
    /\ job' = Swept(job, deferred)
    /\ UNCHANGED <<obj, file, pools, cut, found, treeVars>>

\* ... or time is up: futures that did not begin are cancelled, the others run on,
InvestigationsTimeOut ==
    /\ at = "collect_inv"
    /\ \E j \in Waiting : job[j].st \notin Ended
    /\ \A j \in Waiting : job[j].st # "raised"
    /\ job' = Swept([j \in Job |-> IF j \in Waiting /\ job[j].st = "queued"
                                   THEN Idle ELSE job[j]], deferred)
    /\ at' = "save_inv" /\ left' = Succeeded /\ futures' = <<>>
    /\ UNCHANGED <<obj, file, pools, cut, found, treeVars>>

\* ... or one of them raised RateLimitCooldown, which ends the cycle.  Nothing is
\* cancelled.
InvestigationsRateLimited ==
    /\ at = "collect_inv"
    /\ \E j \in Waiting : job[j].st = "raised"
    /\ at' = "idle" /\ futures' = <<>> /\ found' = {}
    /\ job' = Swept(job, deferred)
    /\ cut' = cut \cup {job[j].t : j \in {i \in Waiting : job[i].st = "queued"}}
    /\ UNCHANGED <<obj, file, pools, left, treeVars>>

SaveInvestigation(t) ==
    /\ at = "save_inv" /\ t \in left
    /\ left' = left \ {t} /\ found' = found \cup {t}
    /\ SaveAll(obj)
    /\ UNCHANGED <<job, pools, cut, at, futures, treeVars>>

-----------------------------------------------------------------------------
\* _run_parallel_developments begins with D of this cycle's reports and of the
\* backlog.  The plan of a critical ticket is saved first.
DevelopmentCandidates ==
    {t \in PTicket : obj[t].rep /\ (t \in found \/ obj[t].st = "investigation_complete")}

StartDevelopments(D, p) ==
    /\ at = "save_inv" /\ left = {}
    /\ D \subseteq DevelopmentCandidates
    /\ IF D = {} THEN pools' = pools ELSE ScaleTo(p)
    /\ at' = "submit_dev" /\ left' = D /\ found' = {}
    /\ UNCHANGED <<obj, file>> \/ (D # {} /\ SaveAll(obj))
    /\ UNCHANGED <<job, futures, treeVars, cut>>

\* WorktreeManager.acquire: an entry that is in use is handed out once more; a
\* directory without an entry is removed first.
TreeFree(t) == t \in trees \/ Cardinality(trees) < TreePool

AcquireTree(t) == trees' = trees \cup {t} /\ UNCHANGED <<release, deferred>>

\* The tree a development needs.
NeedTree(t) == IF t \in Sandbox THEN UNCHANGED treeVars ELSE TreeFree(t) /\ AcquireTree(t)

SubmitDevelopment(j, t) ==
    /\ at = "submit_dev" /\ t \in left
    /\ left' = left \ {t}
    /\ NeedTree(t)
    /\ NewFuture(j, t, "develop")
    /\ UNCHANGED <<obj, file, pools, cut, at, found>>

\* RuntimeError: no tree is left, or submit refuses after the tree was acquired.
DevelopmentRefused(t) ==
    /\ at = "submit_dev" /\ t \in left
    /\ left' = left \ {t}
    /\ \/ t \notin Sandbox /\ ~TreeFree(t) /\ UNCHANGED treeVars
       \/ SubmitRefuses /\ NeedTree(t)
    /\ UNCHANGED <<obj, file, job, pools, cut, at, futures, found>>

CollectDevelopments ==
    /\ at = "submit_dev" /\ left = {}
    /\ at' = "collect_dev"
    /\ UNCHANGED <<obj, file, job, pools, cut, left, futures, found, treeVars>>

\* WorktreeManager.release: git removes the directory, then the entry goes.
RemoveTree(t) == release' = IF t \in Sandbox THEN release ELSE release \cup {t}

\* The runner's own release is over before its loop goes on.
ReleaseNow(t) == trees' = trees \ {t} /\ UNCHANGED <<release, deferred>>

NextFuture ==
    /\ futures' = Tail(futures)
    /\ job' = Swept(job, Range(Tail(futures)) \cup deferred)

\* The next future has a result, which is saved; a tree that served is released.
DevelopmentCollected ==
    /\ at = "collect_dev" /\ futures # <<>>
    /\ job[Head(futures)].st = "done" /\ job[Head(futures)].ok
    /\ SaveAll(obj)
    /\ ReleaseNow(job[Head(futures)].t)
    /\ NextFuture
    /\ UNCHANGED <<pools, cut, at, left, found>>

\* A failure may be investigated again, in the runner's own thread
\* (_try_reinvestigation).
DevelopmentFailed(again) ==
    /\ at = "collect_dev" /\ futures # <<>>
    /\ LET j == Head(futures)
       IN  /\ job[j].st = "done" /\ ~job[j].ok
           /\ SaveAll(IF again THEN [obj EXCEPT ![job[j].t].st = "investigating"] ELSE obj)
           /\ IF again
              THEN at' = "retry" /\ UNCHANGED <<job, futures, treeVars>>
              ELSE at' = at /\ NextFuture /\ ReleaseNow(job[j].t)
    /\ UNCHANGED <<pools, cut, left, found>>

\* ... and is fixed by a second attempt in the main repository, or is not.
DevelopmentRetried(st) ==
    /\ at = "retry"
    /\ LET t == job[Head(futures)].t
       IN  /\ st \in {"investigating", "triaged", "in_review", "failed"}
           /\ SaveAll([obj EXCEPT ![t].st = st])
           /\ ReleaseNow(t)
    /\ at' = "collect_dev"
    /\ NextFuture
    /\ UNCHANGED <<pools, cut, left, found>>

\* It raised RateLimitCooldown, which the loop only logs.
DevelopmentRaised ==
    /\ at = "collect_dev" /\ futures # <<>>
    /\ job[Head(futures)].st = "raised"
    /\ ReleaseNow(job[Head(futures)].t)
    /\ NextFuture
    /\ UNCHANGED <<obj, file, pools, cut, at, left, found>>

\* Mutant: a tree is only released when its future has a result.
MutDevelopmentTimesOut ==
    /\ at = "collect_dev" /\ futures # <<>>
    /\ job[Head(futures)].st \notin Ended
    /\ futures' = Tail(futures)
    /\ UNCHANGED <<obj, file, job, pools, cut, at, left, found, treeVars>>

\* It is not done in time: a thread waits for it, and for 300 s at most.
DevelopmentTimesOut ==
    /\ at = "collect_dev" /\ futures # <<>>
    /\ LET j == Head(futures)
       IN  /\ job[j].st \notin Ended
           /\ deferred' = IF job[j].t \in Sandbox THEN deferred ELSE deferred \cup {j}
    /\ futures' = Tail(futures)
    /\ UNCHANGED <<obj, file, job, pools, cut, at, left, found, trees, release>>

DevelopmentsCollected ==
    /\ at = "collect_dev" /\ futures = <<>>
    /\ at' = "idle"
    /\ UNCHANGED <<obj, file, job, pools, cut, left, futures, found, treeVars>>

\* _deferred_release: the future has ended or the 300 s are over.
DeferredRelease(j) ==
    /\ j \in deferred
    /\ deferred' = deferred \ {j}
    /\ RemoveTree(job[j].t)
    /\ job' = Swept(job, Waiting \cup (deferred \ {j}))
    /\ UNCHANGED <<obj, file, pools, cut, runner, trees>>

DropEntry(t) ==
    /\ t \in release
    /\ release' = release \ {t} /\ trees' = trees \ {t}
    /\ UNCHANGED <<obj, file, job, pools, cut, runner, deferred>>

-----------------------------------------------------------------------------
\* A pool thread takes the next future.  The agent refuses a ticket whose status
\* has changed in the meantime (_eligible), and then the session is over.
MayDevelop(j) ==
    IF job[j].kind = "investigate"
    THEN obj[job[j].t].st \in {"triaged", "investigating"} /\ ~obj[job[j].t].rep
    ELSE obj[job[j].t].st \in {"investigation_complete", "in_development"}

ThreadFree(j) ==
    Cardinality({i \in Job : /\ job[i].st \in {"running", "ended", "loaded"}
                             /\ job[i].pool = job[j].pool
                             /\ job[i].kind = job[j].kind})
        < pools[job[j].pool][job[j].kind]

SessionStarts(j) ==
    /\ job[j].st = "queued" /\ ThreadFree(j)
    /\ job' = [job EXCEPT ![j].st = IF MayDevelop(j) THEN "running" ELSE "ended"]
    /\ obj' = IF ~MayDevelop(j) THEN obj
              ELSE [obj EXCEPT ![job[j].t].st =
                       IF job[j].kind = "investigate" THEN "investigating"
                       ELSE "in_development"]
    /\ UNCHANGED <<file, pools, cut, runner, treeVars>>

\* What a session makes of its ticket; r is left alone by an exception.
Outcome(kind, r) ==
    IF kind = "investigate"
    THEN {[st |-> "investigation_complete", rep |-> TRUE], [r EXCEPT !.st = "triaged"], r}
    ELSE {[r EXCEPT !.st = "in_review"], [r EXCEPT !.st = "failed"], r}

SessionEnds(j, r) ==
    /\ job[j].st = "running"
    /\ r \in Outcome(job[j].kind, obj[job[j].t])
    /\ obj' = [obj EXCEPT ![job[j].t] = r]
    /\ job' = [job EXCEPT ![j].st = "ended",
                          ![j].ok = r.st \in {"investigation_complete", "in_review"}
                                    /\ r # obj[job[j].t]]
    /\ UNCHANGED <<file, pools, cut, runner, treeVars>>

SessionRateLimited(j) ==
    /\ PRateLimits
    /\ job[j].st = "running"
    /\ job' = Swept([job EXCEPT ![j].st = "raised"], Waiting \cup deferred)
    /\ UNCHANGED <<obj, file, pools, cut, runner, treeVars>>

\* _persist_ticket: a new TicketStore loads the file,
PersistLoads(j) ==
    /\ job[j].st = "ended"
    /\ job' = [job EXCEPT ![j].st = "loaded", ![j].snap = file]
    /\ UNCHANGED <<obj, file, pools, cut, runner, treeVars>>

\* ... and writes it with this ticket's object in it.  Then the future is done.
PersistWrites(j) ==
    /\ job[j].st = "loaded"
    /\ file' = [job[j].snap EXCEPT ![job[j].t] = obj[job[j].t]]
    /\ job' = Swept([job EXCEPT ![j].st = "done", ![j].snap = "none"],
                    Waiting \cup deferred)
    /\ UNCHANGED <<obj, pools, cut, runner, treeVars>>

\* The process dies.  Directories of work trees stay, entries do not.
ParallelCrash ==
    /\ PMayCrash
    /\ obj' = file
    /\ job' = [j \in Job |-> Idle]
    /\ pools' = <<Base>>
    /\ at' = "idle" /\ left' = {} /\ futures' = <<>> /\ found' = {}
    /\ trees' = {} /\ release' = {} /\ deferred' = {} /\ cut' = {}
    /\ UNCHANGED file

-----------------------------------------------------------------------------
RunnerInvestigates ==
    \/ \E P \in SUBSET PTicket, p \in Profiles : StartInvestigations(P, p)
    \/ \E j \in Job, t \in PTicket : SubmitInvestigation(j, t)
    \/ \E t \in PTicket : InvestigationRefused(t) \/ SaveInvestigation(t)
    \/ CollectInvestigations \/ InvestigationsCollected
    \/ InvestigationsTimeOut \/ InvestigationsRateLimited

RunnerDevelops ==
    \/ \E D \in SUBSET PTicket, p \in Profiles : StartDevelopments(D, p)
    \/ \E j \in Job, t \in PTicket : SubmitDevelopment(j, t)
    \/ \E t \in PTicket : DevelopmentRefused(t)
    \/ CollectDevelopments \/ DevelopmentsCollected
    \/ DevelopmentCollected
    \/ \E again \in BOOLEAN : DevelopmentFailed(again)
    \/ \E st \in {"investigating", "triaged", "in_review", "failed"} : DevelopmentRetried(st)
    \/ DevelopmentRaised \/ DevelopmentTimesOut

PoolThread(j) ==
    \/ SessionStarts(j) \/ SessionRateLimited(j)
    \/ \E r \in PRecord : SessionEnds(j, r)
    \/ PersistLoads(j) \/ PersistWrites(j)

ReleaseThread ==
    \/ \E j \in Job : DeferredRelease(j)
    \/ \E t \in PTicket : DropEntry(t)

ParallelNext ==
    \/ RunnerInvestigates \/ RunnerDevelops
    \/ \E t \in PTicket : StaleTicket(t)
    \/ \E j \in Job : PoolThread(j)
    \/ ReleaseThread
    \/ ParallelCrash

ParallelSpec == ParallelInit /\ [][ParallelNext]_parVars

\* The runner goes on, threads are scheduled, and sessions have time limits.
ParallelFairness ==
    /\ WF_parVars(RunnerInvestigates)
    /\ WF_parVars(RunnerDevelops)
    /\ \A j \in Job : WF_parVars(PoolThread(j)) /\ WF_parVars(DeferredRelease(j))
    /\ \A t \in PTicket : WF_parVars(DropEntry(t))

-----------------------------------------------------------------------------
\* collect_results gives up on futures that are not done and cancels the queued
\* ones, and a ticket that is being investigated is not picked again: no ticket
\* waits for or is in two investigations at once, except those whose future a
\* RateLimitCooldown of another one left in the pool's queue, where the next
\* cycle does not see it.
OneInvestigationAtATime ==
    \A t \in PTicket \ cut :
        Cardinality({j \in Job : job[j].kind = "investigate" /\ job[j].t = t /\ Alive(j)}) <= 1

\* Work trees come back: each acquired tree is released, though its session may
\* time out, raise or run on (_deferred_release).
TreesComeBack == \A t \in PTicket : (t \in trees) ~> (t \notin trees)
=============================================================================
