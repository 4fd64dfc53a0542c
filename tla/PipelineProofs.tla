--------------------------- MODULE PipelineProofs ---------------------------
(***************************************************************************)
(* Proofs about the runner's cycle, for every set of tickets, every cap,   *)
(* either store, with and without crashes and rate limits.                 *)
(***************************************************************************)
EXTENDS Pipeline, TLAPS

\* A ticket record whose status is backed by a report or an automation.
Sound(r) ==
    /\ r \in TicketRecord
    /\ r.st \in {"investigation_complete", "in_development", "in_review",
                 "verifying", "resolved"} => r.rep # "none" \/ r.auto

\* Both copies of every ticket are sound.
TablesSound ==
    /\ mem \in [Ticket -> TicketRecord] /\ \A t \in Ticket : Sound(mem[t])
    /\ disk \in [Ticket -> TicketRecord] /\ \A t \in Ticket : Sound(disk[t])

\* What the history of sessions ranges over.
Runs == [Ticket -> [inv : 0..(MaxSessions + 1), dev : 0..(MaxSessions + 1)]]

\* The types of run_cycle's local state.
CycleTypeOK ==
    /\ phase \in Phase
    /\ todo \subseteq Ticket /\ new \subseteq Ticket
    /\ pending \subseteq Ticket /\ busy \subseteq Ticket /\ done \subseteq Ticket
    /\ cur \in Ticket \cup {NoTicket}
    /\ stage \in {"fix", "reinvestigate", "reinvestigating", "retry", "refix"}
    /\ loop \in [round : 0..MaxSessions, rec : 0..MaxSessions]
    /\ runs \in Runs

\* A loop over a list taken earlier still finds its tickets as they were
\* listed, and the ticket in development is in the state its stage needs.
LoopsAreCurrent ==
    /\ phase = "repair" => \A t \in todo : mem[t].rep # "none"
    /\ phase = "review" => \A t \in todo : mem[t].st = "in_review"
    /\ phase = "verify" => \A t \in todo : mem[t].st = "verifying"
    /\ cur # NoTicket => phase = "develop"
    /\ Fixing => mem[cur].st = "in_development"
    /\ InStage("retry") => mem[cur].rep # "none"
    /\ loop.rec <= loop.round

\* The strengthening that is inductive.
PipelineInv == TablesSound /\ CycleTypeOK /\ LoopsAreCurrent

\* It is the type invariant and ReportOrAutomation, and what they rest on.
LEMMA InvImplies == PipelineInv => PipelineTypeOK /\ ReportOrAutomation
<1> SUFFICES ASSUME PipelineInv PROVE PipelineTypeOK /\ ReportOrAutomation
    OBVIOUS
<1>1. PipelineTypeOK
    BY DEF PipelineInv, TablesSound, CycleTypeOK, PipelineTypeOK, Runs
<1>2. ReportOrAutomation
    BY DEF PipelineInv, TablesSound, Sound, ReportOrAutomation
<1> QED
    BY <1>1, <1>2

\* What store.list_all returns is sound.
LEMMA ListSound == ASSUME TablesSound
                   PROVE  List \in [Ticket -> TicketRecord] /\ \A t \in Ticket : Sound(List[t])
    BY DEF TablesSound, List

\* Changing a ticket object to a sound record keeps both copies sound, and the
\* other tickets as they were.
LEMMA SetSound == ASSUME TablesSound, NEW t \in Ticket, NEW r, Sound(r), Set(t, r)
                  PROVE  /\ TablesSound'
                         /\ mem'[t] = r
                         /\ \A u \in Ticket : u # t => mem'[u] = mem[u]
    BY DEF TablesSound, Set, Sound

\* So does saving it, with either store.
LEMMA StoreSound == ASSUME TablesSound, NEW t \in Ticket, NEW r, Sound(r), Store(t, r)
                    PROVE  /\ TablesSound'
                           /\ mem'[t] = r
                           /\ \A u \in Ticket : u # t => mem'[u] = mem[u]
<1>1. mem' \in [Ticket -> TicketRecord] /\ disk' \in [Ticket -> TicketRecord]
    BY DEF TablesSound, Store, Sound
<1>2. mem'[t] = r /\ \A u \in Ticket : u # t => mem'[u] = mem[u]
    BY DEF TablesSound, Store
<1>3. \A u \in Ticket : disk'[u] \in {r, mem[u], disk[u]}
    BY DEF TablesSound, Store
<1> QED
    BY <1>1, <1>2, <1>3 DEF TablesSound

\* A fresh store and an idle runner.
LEMMA InitInv == Init => PipelineInv
<1> SUFFICES ASSUME Init PROVE PipelineInv
    OBVIOUS
<1>1. Fresh \in TicketRecord /\ Fresh.st = "absent"
    BY PipelineAssumption DEF Fresh, TicketRecord, Status
<1>2. TablesSound
    BY <1>1 DEF Init, TablesSound, Sound
<1>3. CycleTypeOK
    BY PipelineAssumption DEF Init, CycleTypeOK, Phase, Runs
<1> QED
    BY <1>2, <1>3 DEF Init, PipelineInv, LoopsAreCurrent, Fixing, InStage

\* The end of a cycle: nothing local survives.
LEMMA EndCycleInv == ASSUME PipelineInv, EndCycle, disk' = disk, runs' \in Runs
                     PROVE  PipelineInv'
<1>1. TablesSound'
    BY ListSound DEF PipelineInv, TablesSound, EndCycle, Sound
<1>2. CycleTypeOK'
    BY PipelineAssumption DEF PipelineInv, CycleTypeOK, EndCycle, Phase
<1>3. LoopsAreCurrent'
    BY DEF EndCycle, LoopsAreCurrent, Fixing, InStage
<1> QED
    BY <1>1, <1>2, <1>3 DEF PipelineInv

\* The counts of sessions really made stay in their range.
LEMMA RunsType == ASSUME runs \in Runs, NEW t \in Ticket, Investigates(t) \/ Attempts(t)
                  PROVE  runs' \in Runs
<1>1. \A n \in 0..(MaxSessions + 1) : OneMore(n) \in 0..(MaxSessions + 1)
    BY PipelineAssumption DEF OneMore
<1>2. runs[t].inv \in 0..(MaxSessions + 1) /\ runs[t].dev \in 0..(MaxSessions + 1)
    BY DEF Runs
<1>3. CASE Investigates(t)
    BY <1>1, <1>2, <1>3 DEF Investigates, Runs
<1>4. CASE Attempts(t)
    BY <1>1, <1>2, <1>4 DEF Attempts, Runs
<1> QED
    BY <1>3, <1>4

\* A phase that starts finds its tickets as List has them; development starts
\* with no ticket in the works.
LEMMA EnterLoopInv ==
    ASSUME PipelineInv, NEW ph \in Phase, NEW S \in SUBSET Ticket, EnterLoop(ph, S),
           cur = NoTicket, UNCHANGED <<disk, busy, done, fixing, runs>>,
           new' \subseteq Ticket, pending' \subseteq Ticket,
           ph = "repair" => \A t \in S : List[t].rep # "none",
           ph = "review" => \A t \in S : List[t].st = "in_review",
           ph = "verify" => \A t \in S : List[t].st = "verifying"
    PROVE  PipelineInv'
<1>1. TablesSound'
    BY ListSound DEF PipelineInv, TablesSound, EnterLoop, Sound
<1>2. CycleTypeOK'
    BY DEF PipelineInv, CycleTypeOK, EnterLoop, fixing
<1>3. LoopsAreCurrent'
    BY DEF PipelineInv, EnterLoop, LoopsAreCurrent, Fixing, InStage, fixing
<1> QED
    BY <1>1, <1>2, <1>3 DEF PipelineInv

\* The steps from one phase to the next keep the invariant.
LEMMA PhaseStepInv ==
    ASSUME PipelineInv,
           \/ StartCycle \/ StartIntake \/ StartRepair \/ StartReview
           \/ StartVerification \/ StartStallDetection
           \/ \E P \in SUBSET Ticket : PickInvestigations(P) \/ StartDevelopment(P)
    PROVE  PipelineInv'
<1> USE DEF locals, fixing
<1>0. cur = NoTicket \/ phase = "develop"
    BY DEF PipelineInv, LoopsAreCurrent
<1>00. new \subseteq Ticket /\ pending \subseteq Ticket
    BY DEF PipelineInv, CycleTypeOK
<1>1. CASE StartCycle
    BY <1>0, <1>00, <1>1, EnterLoopInv DEF StartCycle, InStatus, Phase
<1>2. CASE StartIntake
    BY <1>0, <1>00, <1>2, EnterLoopInv DEF StartIntake, Phase
<1>3. CASE StartRepair
    BY <1>0, <1>00, <1>3, EnterLoopInv DEF StartRepair, Misfiled, Phase
<1>4. CASE StartReview
    BY <1>0, <1>00, <1>4, EnterLoopInv DEF StartReview, InStatus, Phase
<1>5. CASE StartVerification
    BY <1>0, <1>00, <1>5, EnterLoopInv DEF StartVerification, InStatus, Phase
<1>6. CASE StartStallDetection
    BY <1>0, <1>00, <1>6, EnterLoopInv DEF StartStallDetection, InStatus, Phase
<1>7. ASSUME NEW P \in SUBSET Ticket, PickInvestigations(P) PROVE PipelineInv'
    BY <1>0, <1>00, <1>7, EnterLoopInv DEF PickInvestigations, Phase
<1>8. ASSUME NEW D \in SUBSET Ticket, StartDevelopment(D) PROVE PipelineInv'
    BY <1>0, <1>00, <1>8, EnterLoopInv DEF StartDevelopment, Phase
<1> QED
    BY <1>1, <1>2, <1>3, <1>4, <1>5, <1>6, <1>7, <1>8

\* The ends of a cycle keep the invariant, and so does a crash.
LEMMA CycleEndInv ==
    ASSUME PipelineInv,
           \/ CircuitPaused \/ NothingToDo \/ DevelopmentRaises \/ CycleDone \/ CycleRaises
           \/ FixRateLimited \/ ReinvestigationRateLimited \/ Crash
    PROVE  PipelineInv'
<1>0. runs \in Runs
    BY DEF PipelineInv, CycleTypeOK
<1>1. CASE CircuitPaused \/ NothingToDo \/ DevelopmentRaises \/ CycleDone \/ CycleRaises
           \/ ReinvestigationRateLimited
    BY <1>0, <1>1, EndCycleInv DEF CircuitPaused, NothingToDo, DevelopmentRaises,
       CycleDone, CycleRaises, ReinvestigationRateLimited
<1>2. CASE FixRateLimited
  <2>1. cur \in Ticket
    BY <1>2 DEF FixRateLimited, Attempting, Fixing, PipelineInv, CycleTypeOK
  <2> QED
    BY <1>0, <1>2, <2>1, RunsType, EndCycleInv DEF FixRateLimited
<1>3. CASE Crash
  <2>1. TablesSound'
    BY <1>3 DEF Crash, PipelineInv, TablesSound
  <2>2. CycleTypeOK'
    BY <1>0, <1>3, PipelineAssumption DEF Crash, NextDevelopment, PipelineInv, CycleTypeOK, Phase
  <2>3. LoopsAreCurrent'
    BY <1>3 DEF Crash, NextDevelopment, LoopsAreCurrent, Fixing, InStage
  <2> QED
    BY <2>1, <2>2, <2>3 DEF PipelineInv
<1> QED
    BY <1>1, <1>2, <1>3

\* A round of a loop outside development changes at most its own ticket.
LEMMA RoundInv ==
    ASSUME PipelineInv, NEW t \in Ticket, NEW r, Sound(r),
           Store(t, r) \/ Set(t, r),
           phase # "develop", phase' = phase,
           todo' = todo \ {t} \/ (todo' = todo /\ t \notin todo)
                \/ (todo' = todo /\ phase \in {"idle", "intake"}),
           UNCHANGED fixing,
           new' \subseteq Ticket, pending' \subseteq Ticket, busy' \subseteq Ticket,
           done' \subseteq Ticket, runs' \in Runs
    PROVE  PipelineInv'
<1>1. TablesSound' /\ \A u \in Ticket : u # t => mem'[u] = mem[u]
    BY SetSound, StoreSound DEF PipelineInv
<1>2. CycleTypeOK'
    BY DEF PipelineInv, CycleTypeOK, fixing
<1>3. LoopsAreCurrent'
    BY <1>1 DEF PipelineInv, CycleTypeOK, LoopsAreCurrent, Fixing, InStage, fixing
<1> QED
    BY <1>1, <1>2, <1>3 DEF PipelineInv

\* A round that changes no ticket.
LEMMA IdleRoundInv ==
    ASSUME PipelineInv, NEW t, UNCHANGED <<mem, disk, fixing, phase>>,
           phase = "develop" => cur = NoTicket,
           todo' \in {todo, todo \ {t}},
           new' \subseteq Ticket, pending' \subseteq Ticket, busy' \subseteq Ticket,
           done' \subseteq Ticket, runs' \in Runs
    PROVE  PipelineInv'
<1>1. TablesSound'
    BY DEF PipelineInv, TablesSound
<1>2. CycleTypeOK'
    BY DEF PipelineInv, CycleTypeOK, fixing
<1>3. LoopsAreCurrent'
    BY DEF PipelineInv, CycleTypeOK, LoopsAreCurrent, Fixing, InStage, fixing
<1> QED
    BY <1>1, <1>2, <1>3 DEF PipelineInv

\* The changes of a record that the rounds make keep it sound.
LEMMA StatusSound ==
    ASSUME NEW r, Sound(r), NEW s \in Status,
           \/ s \notin {"investigation_complete", "in_development", "in_review",
                        "verifying", "resolved"}
           \/ r.rep # "none" \/ r.auto
    PROVE  Sound([r EXCEPT !.st = s])
    BY DEF Sound, TicketRecord

\* In a status past the investigation a sound record has its basis.
LEMMA PastInvestigation ==
    ASSUME NEW r, Sound(r),
           r.st \in {"investigation_complete", "in_development", "in_review",
                     "verifying", "resolved"}
    PROVE  r.rep # "none" \/ r.auto
    BY DEF Sound

\* ... among them what the stale reset does,
LEMMA StaleResetSound == ASSUME NEW r, Sound(r) PROVE Sound(StaleReset(r))
<1>1. CASE r.st = "in_development"
    BY <1>1, StatusSound, PastInvestigation DEF StaleReset, Status
<1>2. CASE r.st = "investigating"
    BY <1>2, StatusSound DEF StaleReset, Status
<1>3. CASE r.st \notin {"in_development", "investigating"}
  <2>1. StaleReset(r) = [r EXCEPT !.hitl = TRUE]
    BY <1>3 DEF StaleReset
  <2> QED
    BY <2>1 DEF Sound, TicketRecord
<1> QED
    BY <1>1, <1>2, <1>3

\* ... a fresh ticket, a reopened one, a triaged one,
LEMMA IntakeSound ==
    /\ Sound([Fresh EXCEPT !.st = "open"])
    /\ \A r : Sound(r) => Sound([r EXCEPT !.st = "open", !.inv = 0])
    /\ \A r : \A human, automated \in BOOLEAN :
          Sound(r) => Sound(Triaged(r, human, automated))
<1>0. 0 \in 0..MaxSessions
    BY PipelineAssumption
<1>1. Sound([Fresh EXCEPT !.st = "open"])
  <2>1. Fresh \in TicketRecord /\ Fresh.st = "absent"
    BY PipelineAssumption DEF Fresh, TicketRecord, Status
  <2>2. Sound(Fresh)
    BY <2>1 DEF Sound
  <2> QED
    BY <2>2, StatusSound DEF Status
<1>2. ASSUME NEW r, Sound(r) PROVE Sound([r EXCEPT !.st = "open", !.inv = 0])
    BY <1>0, <1>2 DEF Sound, TicketRecord, Status
<1>3. ASSUME NEW r, Sound(r), NEW human \in BOOLEAN, NEW automated \in BOOLEAN
      PROVE  Sound(Triaged(r, human, automated))
  <2>1. CASE automated
    BY <1>3, <2>1 DEF Sound, Triaged, TicketRecord, Status
  <2>2. CASE ~automated
    BY <1>3, <2>2 DEF Sound, Triaged, TicketRecord, Status
  <2> QED
    BY <2>1, <2>2
<1> QED
    BY <1>1, <1>2, <1>3

\* ... what an investigation counts and what it ends with,
LEMMA InvestigationSound ==
    ASSUME NEW r, Sound(r)
    PROVE  /\ r.inv < MaxSessions => Sound(Counted(r))
           /\ Sound([r EXCEPT !.rep = "full", !.st = "investigation_complete"])
           /\ Sound(Failed(r))
           /\ Sound(TimedOut(r))
<1>1. r.inv < MaxSessions => Sound(Counted(r))
    BY PipelineAssumption DEF Sound, Counted, TicketRecord
<1>2. Sound([r EXCEPT !.rep = "full", !.st = "investigation_complete"])
    BY DEF Sound, TicketRecord, Status
<1>3. Sound(Failed(r))
    BY StatusSound DEF Failed, Status
<1>4. Sound(TimedOut(r))
  <2> DEFINE n == IF r.tmo < MaxTimeouts THEN r.tmo + 1 ELSE r.tmo
             p == IF r.tmo + 1 >= MaxTimeouts THEN "stub" ELSE r.rep
  <2>1. n \in 0..MaxTimeouts
    BY PipelineAssumption DEF Sound, TicketRecord
  <2>2. p \in {"none", "stub", "full"}
    BY DEF Sound, TicketRecord
  <2>3. TimedOut(r) = [r EXCEPT !.st = "triaged", !.tmo = n, !.rep = p]
    BY DEF TimedOut
  <2> HIDE DEF n, p
  <2> QED
    BY <2>1, <2>2, <2>3 DEF Sound, TicketRecord, Status
<1> QED
    BY <1>1, <1>2, <1>3, <1>4

\* ... and what a review decides about a ticket in review.
LEMMA ReviewedSound ==
    ASSUME NEW r, Sound(r), r.st = "in_review", NEW v \in Verdict
    PROVE  Sound(Reviewed(r, v))
<1>1. r.rep # "none" \/ r.auto
    BY PastInvestigation
<1>2. Sound([r EXCEPT !.st = "in_development"])
    BY <1>1, StatusSound DEF Status
<1>3. Sound([r EXCEPT !.appr = TRUE])
    BY DEF Sound, TicketRecord
<1>4. Sound([r EXCEPT !.appr = TRUE, !.st = "in_development"])
    BY <1>1 DEF Sound, TicketRecord, Status
<1>5. ASSUME r.rej + 1 < MaxRejections
      PROVE  Sound([r EXCEPT !.rej = @ + 1, !.st = "in_development"])
  <2>1. r.rej + 1 \in 0..MaxRejections
    BY <1>5, PipelineAssumption DEF Sound, TicketRecord
  <2> QED
    BY <1>1, <2>1 DEF Sound, TicketRecord, Status
<1>6. Sound([r EXCEPT !.rej = MaxRejections, !.hitl = TRUE])
  <2>1. MaxRejections \in 0..MaxRejections
    BY PipelineAssumption
  <2> QED
    BY <2>1 DEF Sound, TicketRecord
<1> HIDE DEF Sound
<1> QED
    BY <1>2, <1>3, <1>4, <1>5, <1>6 DEF Reviewed, Verdict

\* The rounds of the maintenance, intake, triage, repair, review and verification
\* loops keep the invariant.
LEMMA MaintainInv ==
    ASSUME PipelineInv, NEW t \in Ticket, NEW old \in BOOLEAN,
           StaleRound(t, old) \/ StallRound(t, old)
    PROVE  PipelineInv'
<1> USE DEF locals, fixing
<1>0. /\ new \subseteq Ticket /\ pending \subseteq Ticket /\ busy \subseteq Ticket
      /\ done \subseteq Ticket /\ runs \in Runs /\ TablesSound
    BY DEF PipelineInv, CycleTypeOK
<1>1. Sound(mem[t])
    BY <1>0 DEF TablesSound
<1>2. Sound(StaleReset(mem[t])) /\ Sound([mem[t] EXCEPT !.st = "open"])
    BY <1>1, StaleResetSound, StatusSound DEF Status
<1>3. CASE ~old
    BY <1>0, <1>3, IdleRoundInv DEF StaleRound, StallRound
<1>4. CASE old /\ StaleRound(t, old)
    BY <1>0, <1>2, <1>4, RoundInv DEF StaleRound
<1>5. CASE old /\ StallRound(t, old)
    BY <1>0, <1>2, <1>5, RoundInv DEF StallRound
<1> QED
    BY <1>3, <1>4, <1>5

\* Detecting, reconciling and triaging tickets keep the invariant (phases 1 to 4
\* of run_cycle).
LEMMA IntakeInv ==
    ASSUME PipelineInv, NEW t \in Ticket,
           \/ \E stored \in BOOLEAN : Detect(t, stored)
           \/ Reconcile(t)
           \/ \E human, automated \in BOOLEAN : TriageRound(t, human, automated)
    PROVE  PipelineInv'
<1> USE DEF locals, fixing
<1>0. /\ new \subseteq Ticket /\ pending \subseteq Ticket /\ busy \subseteq Ticket
      /\ done \subseteq Ticket /\ runs \in Runs /\ TablesSound
    BY DEF PipelineInv, CycleTypeOK
<1>1. Sound(mem[t])
    BY <1>0 DEF TablesSound
<1>2. ASSUME NEW stored \in BOOLEAN, Detect(t, stored) PROVE PipelineInv'
  <2>1. new' \subseteq Ticket
    BY <1>0, <1>2 DEF Detect
  <2>2. CASE stored
    BY <1>0, <1>2, <2>1, <2>2, IntakeSound, RoundInv DEF Detect
  <2>3. CASE ~stored
    BY <1>0, <1>2, <2>1, <2>3, IdleRoundInv DEF Detect
  <2> QED
    BY <2>2, <2>3
<1>3. CASE Reconcile(t)
    BY <1>0, <1>1, <1>3, IntakeSound, RoundInv DEF Reconcile
<1>4. ASSUME NEW human \in BOOLEAN, NEW automated \in BOOLEAN,
             TriageRound(t, human, automated)
      PROVE  PipelineInv'
    BY <1>0, <1>1, <1>4, IntakeSound, RoundInv DEF TriageRound
<1> QED
    BY <1>2, <1>3, <1>4

\* The investigations, from the choice of the batch to the safety net.
LEMMA InvestigateInv ==
    ASSUME PipelineInv, NEW t \in Ticket,
           \/ InvestigationCap(t)
           \/ \E announced \in BOOLEAN : JoinBatch(t, announced)
           \/ InvestigationStarts(t) \/ InvestigationReports(t) \/ InvestigationRaises(t)
           \/ \E timeout \in BOOLEAN : InvestigationFails(t, timeout)
           \/ RepairRound(t) \/ ClaimRefused(t)
    PROVE  PipelineInv'
<1> USE DEF locals, fixing
<1>0. /\ new \subseteq Ticket /\ pending \subseteq Ticket /\ busy \subseteq Ticket
      /\ done \subseteq Ticket /\ runs \in Runs /\ TablesSound
    BY DEF PipelineInv, CycleTypeOK
<1>1. Sound(mem[t])
    BY <1>0 DEF TablesSound
<1>2. CASE InvestigationCap(t)
  <2>1. Sound([mem[t] EXCEPT !.st = "failed"])
    BY <1>1, StatusSound DEF Status
  <2> QED
    BY <1>0, <1>2, <2>1, RoundInv DEF InvestigationCap
<1>3. ASSUME NEW announced \in BOOLEAN, JoinBatch(t, announced) PROVE PipelineInv'
  <2>1. Sound(Counted(mem[t]))
    BY <1>1, <1>3, InvestigationSound DEF JoinBatch
  <2>2. busy' \subseteq Ticket
    BY <1>0, <1>3 DEF JoinBatch
  <2> QED
    BY <1>0, <1>3, <2>1, <2>2, RoundInv DEF JoinBatch
<1>4. CASE InvestigationStarts(t)
  <2>1. Sound([mem[t] EXCEPT !.st = "investigating"])
    BY <1>1, StatusSound DEF Status
  <2>2. runs' \in Runs
    BY <1>0, <1>4, RunsType DEF InvestigationStarts
  <2> QED
    BY <1>0, <1>4, <2>1, <2>2, RoundInv DEF InvestigationStarts
<1>5. CASE InvestigationReports(t)
  <2>1. Sound([mem[t] EXCEPT !.rep = "full", !.st = "investigation_complete"])
    BY <1>1, InvestigationSound
  <2>2. busy' \subseteq Ticket /\ done' \subseteq Ticket /\ t \notin todo
    BY <1>0, <1>5 DEF InvestigationReports, Investigating
  <2> QED
    BY <1>0, <1>5, <2>1, <2>2, RoundInv DEF InvestigationReports, Investigating
<1>6. CASE InvestigationRaises(t)
  <2>1. busy' \subseteq Ticket
    BY <1>0, <1>6 DEF InvestigationRaises
  <2> QED
    BY <1>0, <1>6, <2>1, IdleRoundInv DEF InvestigationRaises, Investigating
<1>7. ASSUME NEW timeout \in BOOLEAN, InvestigationFails(t, timeout) PROVE PipelineInv'
  <2> DEFINE r == IF timeout THEN TimedOut(mem[t]) ELSE Failed(mem[t])
  <2>1. Sound(r)
    BY <1>1, InvestigationSound
  <2>2. busy' \subseteq Ticket /\ t \notin todo
    BY <1>0, <1>7 DEF InvestigationFails, Investigating
  <2>3. Set(t, r)
    BY <1>7 DEF InvestigationFails
  <2> HIDE DEF r
  <2> QED
    BY <1>0, <1>7, <2>1, <2>2, <2>3, RoundInv DEF InvestigationFails, Investigating
<1>8. CASE RepairRound(t)
  <2>1. mem[t].rep # "none"
    BY <1>8 DEF RepairRound, PipelineInv, LoopsAreCurrent
  <2>2. Sound([mem[t] EXCEPT !.st = "investigation_complete"])
    BY <1>1, <2>1, StatusSound DEF Status
  <2> QED
    BY <1>0, <1>8, <2>2, RoundInv DEF RepairRound
<1>9. CASE ClaimRefused(t)
    BY <1>0, <1>9, IdleRoundInv DEF ClaimRefused
<1> QED
    BY <1>2, <1>3, <1>4, <1>5, <1>6, <1>7, <1>8, <1>9

\* Reviews, verifications and the hand-over to the verifier.
LEMMA ReviewInv ==
    ASSUME PipelineInv, NEW t \in Ticket,
           \/ ChangesRequested(t)
           \/ \E v \in Verdict : ReviewRound(t, v)
           \/ \E st \in {"verifying", "resolved"} : VerifyRound(t, st)
           \/ \E u \in Ticket, st \in {"rolled_back", "open"} : Recurrence(t, st, u)
           \/ StartVerifying(t)
    PROVE  PipelineInv'
<1> USE DEF locals, fixing
<1>0. /\ new \subseteq Ticket /\ pending \subseteq Ticket /\ busy \subseteq Ticket
      /\ done \subseteq Ticket /\ runs \in Runs /\ TablesSound
    BY DEF PipelineInv, CycleTypeOK
<1>1. Sound(mem[t])
    BY <1>0 DEF TablesSound
<1>2. ASSUME mem[t].st \in {"in_review", "verifying"}, NEW s \in Status
      PROVE  Sound([mem[t] EXCEPT !.st = s])
    BY <1>1, <1>2, StatusSound, PastInvestigation
<1>3. CASE ChangesRequested(t)
  <2>1. mem[t].st = "in_review"
    BY <1>3 DEF ChangesRequested, PipelineInv, LoopsAreCurrent
  <2>2. Sound([mem[t] EXCEPT !.st = "investigation_complete"])
    BY <1>2, <2>1 DEF Status
  <2> QED
    BY <1>0, <1>3, <2>2, RoundInv DEF ChangesRequested
<1>4. ASSUME NEW v \in Verdict, ReviewRound(t, v) PROVE PipelineInv'
  <2>1. mem[t].st = "in_review"
    BY <1>4 DEF ReviewRound, PipelineInv, LoopsAreCurrent
  <2>2. Sound(Reviewed(mem[t], v))
    BY <1>1, <2>1, ReviewedSound
  <2> QED
    BY <1>0, <1>4, <2>2, RoundInv DEF ReviewRound
<1>5. ASSUME NEW st \in {"verifying", "resolved"}, VerifyRound(t, st) PROVE PipelineInv'
  <2>1. mem[t].st = "verifying"
    BY <1>5 DEF VerifyRound, PipelineInv, LoopsAreCurrent
  <2>2. Sound([mem[t] EXCEPT !.st = st])
    BY <1>2, <2>1 DEF Status
  <2> QED
    BY <1>0, <1>5, <2>2, RoundInv DEF VerifyRound
<1>6. ASSUME NEW u \in Ticket, NEW st \in {"rolled_back", "open"}, Recurrence(t, st, u)
      PROVE  PipelineInv'
  <2> DEFINE x == [mem[t] EXCEPT !.st = st]
             y == IF mem[u].st = "absent" THEN [Fresh EXCEPT !.st = "open"] ELSE mem[u]
             m == [mem EXCEPT ![t] = x, ![u] = y]
  <2>1. Sound(x) /\ Sound(y)
    BY <1>0, <1>1, StatusSound, IntakeSound DEF TablesSound, Status
  <2>2. mem \in [Ticket -> TicketRecord] /\ disk \in [Ticket -> TicketRecord] /\ u # t
    BY <1>0, <1>6 DEF TablesSound, Recurrence
  <2>3. /\ mem' = m
        /\ disk' = IF SharedObjects THEN m ELSE [disk EXCEPT ![t] = m[t], ![u] = m[u]]
    BY <1>6, <2>2 DEF Recurrence
  <2>4. m \in [Ticket -> TicketRecord] /\ m[t] = x /\ m[u] = y
        /\ \A w \in Ticket \ {t, u} : m[w] = mem[w]
    BY <2>1, <2>2 DEF Sound
  <2> HIDE DEF m, x, y
  <2>5. TablesSound'
    <3>1. \A w \in Ticket : disk'[w] \in {m[w], disk[w]}
      BY <2>2, <2>3, <2>4
    <3>2. disk' \in [Ticket -> TicketRecord]
      BY <2>2, <2>3, <2>4
    <3>3. \A w \in Ticket : Sound(m[w])
      BY <1>0, <2>1, <2>4 DEF TablesSound
    <3> QED
      BY <1>0, <2>3, <2>4, <3>1, <3>2, <3>3 DEF TablesSound
  <2>6. CycleTypeOK'
    BY <1>6 DEF Recurrence, PipelineInv, CycleTypeOK
  <2>7. phase = "verify" /\ phase' = phase /\ todo' = todo \ {t}
    BY <1>6 DEF Recurrence
  <2>8. \A w \in todo' : mem'[w].st = "verifying"
    BY <2>3, <2>4, <2>7 DEF PipelineInv, LoopsAreCurrent, CycleTypeOK, y
  <2>9. LoopsAreCurrent'
    BY <1>6, <2>7, <2>8 DEF Recurrence, PipelineInv, LoopsAreCurrent, Fixing, InStage
  <2> QED
    BY <2>5, <2>6, <2>9 DEF PipelineInv
<1>7. CASE StartVerifying(t)
  <2>1. Sound([mem[t] EXCEPT !.st = "verifying"])
    BY <1>2, <1>7 DEF StartVerifying, Status
  <2> QED
    BY <1>0, <1>7, <2>1, RoundInv DEF StartVerifying
<1> QED
    BY <1>3, <1>4, <1>5, <1>6, <1>7

\* The plan, the cap on development sessions, and attempt_fix's first decision.
LEMMA NextTicketInv ==
    ASSUME PipelineInv, NEW t \in Ticket,
           PlanStored(t) \/ DevelopmentCap(t) \/ FixStarts(t) \/ FixDeclined(t)
    PROVE  PipelineInv'
<1> USE DEF locals, fixing
<1>0. TablesSound /\ CycleTypeOK /\ LoopsAreCurrent
    BY DEF PipelineInv
<1>1. Sound(mem[t]) /\ mem[t].dev \in 0..MaxSessions
    BY <1>0 DEF TablesSound, Sound, TicketRecord
<1>2. phase = "develop" /\ cur = NoTicket /\ t # NoTicket
    BY PipelineAssumption DEF PlanStored, DevelopmentCap, FixStarts, FixDeclined, NextTicket
<1>3. CASE DevelopmentCap(t)
  <2>1. Sound([mem[t] EXCEPT !.st = "failed"])
    BY <1>1, StatusSound DEF Status
  <2>2. TablesSound'
    BY <1>0, <1>3, <2>1, StoreSound DEF DevelopmentCap
  <2>3. CycleTypeOK'
    BY <1>0, <1>3 DEF DevelopmentCap, CycleTypeOK
  <2>4. LoopsAreCurrent'
    BY <1>0, <1>2, <1>3 DEF DevelopmentCap, LoopsAreCurrent, Fixing, InStage
  <2> QED
    BY <2>2, <2>3, <2>4 DEF PipelineInv
<1>4. CASE FixStarts(t)
  <2>1. mem[t].rep # "none"
    BY <1>4 DEF FixStarts, Fixable
  <2>2. Sound([mem[t] EXCEPT !.st = "in_development"])
    BY <1>1, <2>1, StatusSound DEF Status
  <2>3. TablesSound' /\ mem'[t] = [mem[t] EXCEPT !.st = "in_development"]
    BY <1>0, <1>4, <2>2, SetSound DEF FixStarts
  <2>4. mem'[t].st = "in_development"
    BY <1>1, <2>3 DEF Sound, TicketRecord
  <2>5. CycleTypeOK'
    BY <1>0, <1>1, <1>4 DEF FixStarts, CycleTypeOK
  <2>6. LoopsAreCurrent'
    BY <1>1, <1>2, <1>4, <2>4, PipelineAssumption DEF FixStarts, LoopsAreCurrent, Fixing, InStage
  <2> QED
    BY <2>3, <2>5, <2>6 DEF PipelineInv
<1>5. CASE FixDeclined(t)
  <2>1. TablesSound'
    BY <1>0, <1>1, <1>5, StoreSound DEF FixDeclined
  <2>2. CycleTypeOK'
    BY <1>0, <1>5 DEF FixDeclined, CycleTypeOK
  <2>3. LoopsAreCurrent'
    BY <1>0, <1>2, <1>5 DEF FixDeclined, LoopsAreCurrent, Fixing, InStage
  <2> QED
    BY <2>1, <2>2, <2>3 DEF PipelineInv
<1>6. CASE PlanStored(t)
  <2>1. TablesSound'
    BY <1>0, <1>1, <1>6, StoreSound DEF PlanStored
  <2>2. CycleTypeOK'
    BY <1>0, <1>6 DEF PlanStored, CycleTypeOK
  <2>3. LoopsAreCurrent'
    BY <1>0, <1>2, <1>6 DEF PlanStored, LoopsAreCurrent, Fixing, InStage
  <2> QED
    BY <2>1, <2>2, <2>3 DEF PipelineInv
<1> QED
    BY <1>3, <1>4, <1>5, <1>6

\* A development step changes at most the ticket it works on, which stays in
\* the state its stage needs.
LEMMA StageInv ==
    ASSUME PipelineInv, cur \in Ticket, phase = "develop", NEW r, Sound(r),
           Store(cur, r) \/ Set(cur, r),
           UNCHANGED <<phase, todo, new, pending, busy, done>>,
           runs' \in Runs,
           loop' \in [round : 0..MaxSessions, rec : 0..MaxSessions],
           loop'.rec <= loop'.round,
           \/ cur' = NoTicket /\ stage' = "fix"
           \/ cur' = cur /\ stage' \in {"reinvestigate", "reinvestigating"}
           \/ cur' = cur /\ stage' = "retry" /\ r.rep # "none"
           \/ cur' = cur /\ stage' \in {"fix", "refix"} /\ r.st = "in_development"
    PROVE  PipelineInv'
<1>1. TablesSound' /\ mem'[cur] = r
    BY SetSound, StoreSound DEF PipelineInv
<1>2. CycleTypeOK'
    BY DEF PipelineInv, CycleTypeOK
<1>3. LoopsAreCurrent'
    BY <1>1 DEF LoopsAreCurrent, Fixing, InStage
<1> QED
    BY <1>1, <1>2, <1>3 DEF PipelineInv

\* The rounds of _fix_loop keep the invariant.
LEMMA FixLoopInv ==
    ASSUME PipelineInv,
           \/ \E recorded, last \in BOOLEAN : AttemptDiscarded(recorded, last)
           \/ FixSucceeds
           \/ \E blocked \in BOOLEAN : FixFails(blocked)
           \/ FixRaises
    PROVE  PipelineInv'
<1>0. TablesSound /\ CycleTypeOK /\ LoopsAreCurrent
    BY DEF PipelineInv
<1>1. Fixing
    BY DEF AttemptDiscarded, FixSucceeds, FixFails, FixRaises, Attempting
<1>2. cur \in Ticket /\ phase = "develop" /\ mem[cur].st = "in_development"
    BY <1>0, <1>1 DEF Fixing, CycleTypeOK, LoopsAreCurrent
<1>3. /\ Sound(mem[cur]) /\ mem[cur] \in TicketRecord
      /\ mem[cur].rep # "none" \/ mem[cur].auto
    BY <1>0, <1>2 DEF TablesSound, Sound
<1>4. /\ loop.round \in 0..MaxSessions /\ loop.rec \in 0..MaxSessions
      /\ loop.rec <= loop.round /\ runs \in Runs
    BY <1>0 DEF CycleTypeOK, LoopsAreCurrent
<1>5. /\ [round |-> 0, rec |-> 0] \in [round : 0..MaxSessions, rec : 0..MaxSessions]
      /\ [round |-> 0, rec |-> 0].rec <= [round |-> 0, rec |-> 0].round
    BY PipelineAssumption
<1>6. ASSUME NEW recorded \in BOOLEAN, NEW last \in BOOLEAN, AttemptDiscarded(recorded, last)
      PROVE  PipelineInv'
  <2>1. loop.round < MaxSessions
    BY <1>6 DEF AttemptDiscarded, Attempting
  <2>2. /\ loop' \in [round : 0..MaxSessions, rec : 0..MaxSessions]
        /\ loop'.rec <= loop'.round
    <3> DEFINE x == IF last THEN MaxSessions ELSE loop.round + 1
               y == IF recorded THEN loop.rec + 1 ELSE loop.rec
    <3>1. x \in 0..MaxSessions /\ y \in 0..MaxSessions /\ y <= x
      BY <1>4, <2>1, PipelineAssumption
    <3>2. loop' = [round |-> x, rec |-> y]
      BY <1>6 DEF AttemptDiscarded
    <3> HIDE DEF x, y
    <3> QED
      BY <3>1, <3>2
  <2>3. runs' \in Runs
    BY <1>2, <1>4, <1>6, RunsType DEF AttemptDiscarded
  <2>4. CycleTypeOK'
    BY <1>0, <1>6, <2>2, <2>3 DEF AttemptDiscarded, CycleTypeOK
  <2>5. LoopsAreCurrent'
    BY <1>0, <1>6, <2>2 DEF AttemptDiscarded, LoopsAreCurrent, Fixing, InStage
  <2>6. TablesSound'
    BY <1>0, <1>6 DEF AttemptDiscarded, TablesSound
  <2> QED
    BY <2>4, <2>5, <2>6 DEF PipelineInv
<1>7. CASE FixSucceeds
  <2>1. loop.rec + 1 \in 0..MaxSessions
    BY <1>4, <1>7, PipelineAssumption DEF FixSucceeds, Attempting
  <2>2. Sound([mem[cur] EXCEPT !.dev = loop.rec + 1, !.st = "in_review"])
    BY <1>0, <1>2, <1>3, <2>1 DEF TablesSound, Sound, TicketRecord, Status
  <2>3. runs' \in Runs
    BY <1>2, <1>4, <1>7, RunsType DEF FixSucceeds
  <2> QED
    BY <1>2, <1>5, <1>7, <2>2, <2>3, StageInv DEF FixSucceeds, NextDevelopment
<1>8. ASSUME NEW blocked \in BOOLEAN, FixFails(blocked) PROVE PipelineInv'
  <2> DEFINE s == IF blocked THEN "blocked" ELSE "failed"
             r == [mem[cur] EXCEPT !.dev = loop.rec, !.st = s]
  <2>1. s \in {"blocked", "failed"}
    OBVIOUS
  <2>2. Store(cur, r)
    BY <1>8 DEF FixFails
  <2> HIDE DEF s
  <2>3. Sound(r)
    BY <1>0, <1>2, <1>4, <2>1 DEF TablesSound, Sound, TicketRecord, Status
  <2>4. UNCHANGED <<phase, todo, new, pending, busy, done, runs>>
    BY <1>8 DEF FixFails
  <2>5. \/ cur' = NoTicket /\ stage' = "fix" /\ loop' = [round |-> 0, rec |-> 0]
        \/ cur' = cur /\ stage' = "reinvestigate" /\ loop' = loop
    BY <1>8 DEF FixFails, NextDevelopment
  <2>6. /\ loop' \in [round : 0..MaxSessions, rec : 0..MaxSessions]
        /\ loop'.rec <= loop'.round
    BY <1>0, <1>4, <1>5, <2>5 DEF CycleTypeOK
  <2> HIDE DEF r
  <2> QED
    BY <1>2, <1>4, <2>2, <2>3, <2>4, <2>5, <2>6, StageInv
<1>9. CASE FixRaises
  <2>1. Sound([mem[cur] EXCEPT !.st = "failed"]) /\ Sound(mem[cur])
    BY <1>0, <1>2, StatusSound DEF TablesSound, Status
  <2>2. CASE stage = "fix"
    BY <1>2, <1>4, <1>5, <1>9, <2>1, <2>2, StageInv DEF FixRaises, NextDevelopment
  <2>3. CASE stage # "fix"
    <3>1. Set(cur, mem[cur])
      BY <1>0, <1>2, <1>9, <2>3 DEF FixRaises, Set, TablesSound
    <3> QED
      BY <1>2, <1>4, <1>5, <1>9, <2>1, <3>1, StageInv DEF FixRaises, NextDevelopment
  <2> QED
    BY <2>2, <2>3
<1> QED
    BY <1>6, <1>7, <1>8, <1>9

\* So does the feedback loop of _try_reinvestigation.
LEMMA RethinkInv ==
    ASSUME PipelineInv,
           \/ NoReinvestigation \/ Reinvestigate \/ Reinvestigated \/ RefixStarts
           \/ \E exhausted \in BOOLEAN : RefixRefused(exhausted)
           \/ \E timeout \in BOOLEAN : ReinvestigationFails(timeout)
           \/ ReinvestigationRaises
    PROVE  PipelineInv'
<1>0. TablesSound /\ CycleTypeOK /\ LoopsAreCurrent
    BY DEF PipelineInv
<1>2. cur \in Ticket /\ phase = "develop" /\ runs \in Runs
    BY <1>0 DEF NoReinvestigation, Reinvestigate, Reinvestigated, RefixStarts,
                RefixRefused, ReinvestigationFails, ReinvestigationRaises, InStage, CycleTypeOK
<1>3. Sound(mem[cur]) /\ mem[cur] \in TicketRecord
    BY <1>0, <1>2 DEF TablesSound
<1>4. /\ loop \in [round : 0..MaxSessions, rec : 0..MaxSessions]
      /\ loop.rec <= loop.round
    BY <1>0 DEF CycleTypeOK, LoopsAreCurrent
<1>5. /\ [round |-> 0, rec |-> 0] \in [round : 0..MaxSessions, rec : 0..MaxSessions]
      /\ [round |-> 0, rec |-> 0].rec <= [round |-> 0, rec |-> 0].round
    BY PipelineAssumption
<1>6. CASE NoReinvestigation \/ ReinvestigationRaises
  <2>1. Set(cur, mem[cur])
    BY <1>0, <1>2, <1>6 DEF NoReinvestigation, ReinvestigationRaises, Set, TablesSound
  <2> QED
    BY <1>2, <1>3, <1>5, <1>6, <2>1, StageInv
       DEF NoReinvestigation, ReinvestigationRaises, NextDevelopment
<1>7. CASE Reinvestigate
  <2>1. mem[cur].reinv + 1 \in 0..MaxReinvestigations
    BY <1>3, <1>7, PipelineAssumption DEF Reinvestigate, MayReinvestigate, TicketRecord
  <2>2. Sound([mem[cur] EXCEPT !.reinv = @ + 1, !.st = "investigating"])
    BY <1>3, <2>1 DEF Sound, TicketRecord, Status
  <2> QED
    BY <1>2, <1>4, <1>7, <2>2, StageInv DEF Reinvestigate
<1>8. CASE Reinvestigated
  <2> DEFINE r == [mem[cur] EXCEPT !.rep = "full", !.st = "investigation_complete"]
  <2>1. Sound(r) /\ r.rep # "none"
    BY <1>3, InvestigationSound DEF TicketRecord
  <2>2. Store(cur, r)
    BY <1>8 DEF Reinvestigated
  <2> HIDE DEF r
  <2> QED
    BY <1>2, <1>4, <1>8, <2>1, <2>2, StageInv DEF Reinvestigated
<1>9. CASE RefixStarts
  <2> DEFINE r == [mem[cur] EXCEPT !.st = "in_development"]
             l == [round |-> mem[cur].dev, rec |-> mem[cur].dev]
  <2>1. mem[cur].rep # "none"
    BY <1>0, <1>9 DEF RefixStarts, LoopsAreCurrent
  <2>2. Sound(r) /\ r.st = "in_development"
    BY <1>3, <2>1, StatusSound DEF Status, TicketRecord
  <2>3. Set(cur, r) /\ loop' = l
    BY <1>9 DEF RefixStarts
  <2>4. l \in [round : 0..MaxSessions, rec : 0..MaxSessions] /\ l.rec <= l.round
    BY <1>3, PipelineAssumption DEF TicketRecord
  <2> HIDE DEF r, l
  <2> QED
    BY <1>2, <1>9, <2>2, <2>3, <2>4, StageInv DEF RefixStarts
<1>10. ASSUME NEW exhausted \in BOOLEAN, RefixRefused(exhausted) PROVE PipelineInv'
  <2> DEFINE r == IF exhausted THEN [mem[cur] EXCEPT !.st = "failed"] ELSE mem[cur]
  <2>1. Sound(r)
    BY <1>3, StatusSound DEF Status
  <2>2. Store(cur, r)
    BY <1>10 DEF RefixRefused
  <2> HIDE DEF r
  <2> QED
    BY <1>2, <1>5, <1>10, <2>1, <2>2, StageInv DEF RefixRefused, NextDevelopment
<1>11. ASSUME NEW timeout \in BOOLEAN, ReinvestigationFails(timeout) PROVE PipelineInv'
  <2> DEFINE r == IF timeout THEN TimedOut(mem[cur]) ELSE Failed(mem[cur])
  <2>1. Sound(r)
    BY <1>3, InvestigationSound
  <2>2. Store(cur, r)
    BY <1>11 DEF ReinvestigationFails
  <2> HIDE DEF r
  <2> QED
    BY <1>2, <1>5, <1>11, <2>1, <2>2, StageInv DEF ReinvestigationFails, NextDevelopment
<1> QED
    BY <1>6, <1>7, <1>8, <1>9, <1>10, <1>11

\* The two steps that only move on: the batch is cut, the threads start.
LEMMA HandOverInv ==
    ASSUME PipelineInv, StartBatch \/ \E N \in SUBSET Ticket : StartTriage(N)
    PROVE  PipelineInv'
<1> USE DEF PipelineInv, locals, fixing
<1>1. TablesSound'
    BY DEF StartBatch, StartTriage, TablesSound
<1>2. CycleTypeOK'
    BY DEF StartBatch, StartTriage, CycleTypeOK, Phase
<1>3. LoopsAreCurrent'
    BY DEF StartBatch, StartTriage, LoopsAreCurrent, Fixing, InStage
<1> QED
    BY <1>1, <1>2, <1>3

\* Every step keeps the invariant.
LEMMA NextInv == PipelineInv /\ [Next]_pipeVars => PipelineInv'
<1> SUFFICES ASSUME PipelineInv, [Next]_pipeVars PROVE PipelineInv'
    OBVIOUS
<1>1. CASE Maintain
    BY <1>1, MaintainInv, CycleEndInv, PhaseStepInv, HandOverInv DEF Maintain
<1>2. CASE Intake \/ TriageStep
    BY <1>2, IntakeInv DEF Intake, TriageStep
<1>3. CASE Investigate
    BY <1>3, InvestigateInv, PhaseStepInv, HandOverInv DEF Investigate
<1>4. CASE Develop
    BY <1>4, NextTicketInv, FixLoopInv, CycleEndInv, PhaseStepInv DEF Develop
<1>5. CASE Rethink
    BY <1>5, RethinkInv, CycleEndInv DEF Rethink
<1>6. CASE Review
    BY <1>6, ReviewInv, PhaseStepInv DEF Review
<1>7. CASE \/ StartCycle \/ CycleRaises \/ Crash
           \/ \E t \in Ticket : ClaimRefused(t) \/ StartVerifying(t)
    BY <1>7, PhaseStepInv, CycleEndInv, InvestigateInv, ReviewInv
<1>8. CASE UNCHANGED pipeVars
    BY <1>8 DEF pipeVars, PipelineInv, TablesSound, CycleTypeOK, LoopsAreCurrent,
                Fixing, InStage
<1> QED
    BY <1>1, <1>2, <1>3, <1>4, <1>5, <1>6, <1>7, <1>8 DEF Next

\* The invariant holds in every state the runner reaches.
LEMMA PipelineAlwaysInv == Spec => []PipelineInv
    BY InitInv, NextInv, PTL DEF Spec

\* Types: in particular no counter of a ticket passes its cap, and _fix_loop
\* never records more attempts than it has made.
THEOREM PipelineTypeCorrect == Spec => []PipelineTypeOK
    BY PipelineAlwaysInv, InvImplies, PTL

\* No crash, reset, repair, verdict or rate limit takes the report away from a
\* ticket in work, with either store, however many tickets there are.
THEOREM ReportsAreKept == Spec => []ReportOrAutomation
    BY PipelineAlwaysInv, InvImplies, PTL

-----------------------------------------------------------------------------
\* Resolutions and escalations.  Neither a loop over a list taken earlier nor a
\* write of an older copy may touch a resolved ticket, and no session may start on
\* an escalated one: the inductive invariant says that the tickets a phase may
\* still work on are neither, and that memory is never behind the disk.

\* A ticket the code reviewer gave up on.
Escalated(r) == r.rej = MaxRejections

\* An escalation is flagged for a human, and is of a ticket that exists.
Marked(r) == Escalated(r) => r.hitl /\ r.st # "absent"

\* The tickets the rest of the phase may still work on.
Working ==
    todo \cup busy \cup ({cur} \ {NoTicket})
         \cup (IF phase \in {"intake", "triage"} THEN new ELSE {})
         \cup (IF phase \in {"investigate", "repair"} THEN done ELSE {})

\* The phases that start sessions, or choose the tickets for them.
Automatic == phase \in {"intake", "triage", "select", "investigate", "repair", "develop"}

\* The escalations on disk and in memory are flagged.
EscalationsMarked == \A t \in Ticket : Marked(mem[t]) /\ Marked(disk[t])

\* The runner's objects know of every resolution and escalation in the store.
MemoryIsCurrent ==
    \A t \in Ticket : /\ disk[t].st = "resolved" => mem[t].st = "resolved"
                      /\ Escalated(disk[t]) => Escalated(mem[t])

\* A ticket chosen earlier in the cycle is still open, and nobody escalated it.
WorkIsOpen ==
    \A t \in Working : mem[t].st # "resolved" /\ (Automatic => ~Escalated(mem[t]))

\* The lists of a cycle are empty until their phase comes.
ListsAreEmpty ==
    /\ phase \notin {"select", "investigate"} => busy = {}
    /\ phase \in {"idle", "stale", "intake", "triage", "select"} => done = {}
    /\ phase \in {"idle", "stale"} => new = {}

\* The strengthening that is inductive, together with PipelineInv.
WorkInv == EscalationsMarked /\ MemoryIsCurrent /\ WorkIsOpen /\ ListsAreEmpty

\* What is RESOLVED on disk is so after the step.
StaysResolved == \A t \in Ticket : disk[t].st = "resolved" => disk'[t].st = "resolved"

\* A write to one ticket: which records the two copies may hold after it.
LEMMA WriteCases ==
    ASSUME TablesSound, NEW t \in Ticket, NEW r, Store(t, r) \/ Set(t, r)
    PROVE  /\ mem'[t] = r /\ disk'[t] \in {r, disk[t]}
           /\ \A u \in Ticket : u # t => mem'[u] = mem[u] /\ disk'[u] \in {mem[u], disk[u]}
    BY DEF TablesSound, Store, Set

\* A round that writes an open ticket and leaves an escalation as it is.
LEMMA WorkRound ==
    ASSUME PipelineInv, WorkInv, NEW t \in Ticket, NEW r, Store(t, r) \/ Set(t, r),
           mem[t].st # "resolved", Marked(r), Escalated(mem[t]) => Escalated(r),
           Automatic' => Automatic, ListsAreEmpty',
           Working' \subseteq Working \cup {t},
           t \in Working' => r.st # "resolved" /\ (Automatic => ~Escalated(r))
    PROVE  WorkInv' /\ StaysResolved
<1>0. TablesSound /\ Working \subseteq Ticket
    BY DEF PipelineInv, CycleTypeOK, Working
<1>1. /\ mem'[t] = r /\ disk'[t] \in {r, disk[t]}
      /\ \A u \in Ticket : u # t => mem'[u] = mem[u] /\ disk'[u] \in {mem[u], disk[u]}
    BY <1>0, WriteCases
<1>2. EscalationsMarked'
    BY <1>1 DEF WorkInv, EscalationsMarked
<1>3. MemoryIsCurrent' /\ StaysResolved
    BY <1>1 DEF WorkInv, MemoryIsCurrent, StaysResolved
<1>4. WorkIsOpen'
    BY <1>0, <1>1 DEF WorkInv, WorkIsOpen
<1> QED
    BY <1>2, <1>3, <1>4 DEF WorkInv

\* A step that writes no ticket.
LEMMA WorkIdle ==
    ASSUME PipelineInv, WorkInv, UNCHANGED <<mem, disk>>,
           Automatic' => Automatic, ListsAreEmpty', Working' \subseteq Working
    PROVE  WorkInv' /\ StaysResolved
    BY DEF WorkInv, EscalationsMarked, MemoryIsCurrent, WorkIsOpen, StaysResolved

\* A step that takes the store's list, or after a crash what is on disk.
LEMMA WorkReload ==
    ASSUME PipelineInv, WorkInv, mem' \in {mem, disk}, disk' = disk, ListsAreEmpty',
           \A t \in Working' : mem'[t].st # "resolved" /\ (Automatic' => ~Escalated(mem'[t]))
    PROVE  WorkInv' /\ StaysResolved
    BY DEF WorkInv, EscalationsMarked, MemoryIsCurrent, WorkIsOpen, StaysResolved

\* The ends of a cycle, and a crash.
LEMMA CycleEndWork ==
    ASSUME PipelineInv, WorkInv,
           \/ CircuitPaused \/ NothingToDo \/ DevelopmentRaises \/ CycleDone \/ CycleRaises
           \/ FixRateLimited \/ ReinvestigationRateLimited \/ Crash
    PROVE  WorkInv' /\ StaysResolved
<1>1. /\ mem' \in {mem, disk} /\ disk' = disk /\ phase' = "idle" /\ cur' = NoTicket
      /\ todo' = {} /\ new' = {} /\ busy' = {} /\ done' = {}
    BY DEF CircuitPaused, NothingToDo, DevelopmentRaises, CycleDone, CycleRaises,
           FixRateLimited, ReinvestigationRateLimited, Crash, EndCycle, NextDevelopment, List
<1>2. ListsAreEmpty' /\ Working' = {}
    BY <1>1 DEF ListsAreEmpty, Working
<1> QED
    BY <1>1, <1>2, WorkReload

\* What the store lists as resolved or escalated is so in memory.
LEMMA ListIsCurrent ==
    ASSUME WorkInv, NEW t \in Ticket
    PROVE  /\ mem[t].st # "resolved" => List[t].st # "resolved"
           /\ ~Escalated(mem[t]) => ~Escalated(List[t])
           /\ ~List[t].hitl => ~Escalated(List[t])
    BY DEF WorkInv, MemoryIsCurrent, EscalationsMarked, Marked, List

\* The steps from one phase to the next.
LEMMA PhaseStepWork ==
    ASSUME PipelineInv, WorkInv,
           \/ StartCycle \/ StartIntake \/ StartRepair \/ StartReview
           \/ StartVerification \/ StartStallDetection
           \/ \E P \in SUBSET Ticket : PickInvestigations(P) \/ StartDevelopment(P)
    PROVE  WorkInv' /\ StaysResolved
<1> USE DEF locals, fixing, EnterLoop
<1>0. /\ mem' = List /\ List \in {mem, disk} /\ disk' = disk
    BY DEF StartCycle, StartIntake, StartRepair, StartReview, StartVerification,
           StartStallDetection, PickInvestigations, StartDevelopment, List
<1>1. ListsAreEmpty /\ (cur = NoTicket \/ phase = "develop")
    BY DEF WorkInv, PipelineInv, LoopsAreCurrent
<1>2. Working \subseteq Ticket
    BY DEF PipelineInv, CycleTypeOK, Working
<1>3. CASE StartCycle \/ StartReview \/ StartVerification \/ StartStallDetection
  <2>1. ListsAreEmpty'
    BY <1>1, <1>3 DEF StartCycle, StartReview, StartVerification, StartStallDetection,
                      ListsAreEmpty
  <2>2. ~Automatic' /\ Working' = todo'
    BY <1>1, <1>3 DEF StartCycle, StartReview, StartVerification, StartStallDetection,
                      ListsAreEmpty, Automatic, Working
  <2>3. \A t \in todo' : List[t].st # "resolved"
    BY <1>3 DEF StartCycle, StartReview, StartVerification, StartStallDetection, InStatus
  <2> QED
    BY <1>0, <2>1, <2>2, <2>3, WorkReload
<1>4. CASE StartIntake
  <2>1. ListsAreEmpty' /\ Working' = {}
    BY <1>1, <1>4 DEF StartIntake, ListsAreEmpty, Working
  <2> QED
    BY <1>0, <2>1, WorkReload
<1>5. CASE StartRepair
  <2>1. ListsAreEmpty' /\ Working' = todo' \cup done
    BY <1>1, <1>5 DEF StartRepair, ListsAreEmpty, Working
  <2>2. \A t \in todo' : List[t].st # "resolved" /\ ~Escalated(List[t])
    BY <1>5, ListIsCurrent DEF StartRepair, Misfiled
  <2>3. \A t \in done : t \in Ticket /\ mem[t].st # "resolved" /\ ~Escalated(mem[t])
    BY <1>2, <1>5 DEF StartRepair, WorkInv, WorkIsOpen, Working, Automatic
  <2> QED
    BY <1>0, <2>1, <2>2, <2>3, ListIsCurrent, WorkReload
<1>6. ASSUME NEW P \in SUBSET Ticket, PickInvestigations(P) PROVE WorkInv' /\ StaysResolved
  <2>1. ListsAreEmpty' /\ Working' = P
    BY <1>1, <1>6 DEF PickInvestigations, ListsAreEmpty, Working
  <2>2. \A t \in new : mem[t].st # "resolved" /\ ~Escalated(mem[t])
    BY <1>6 DEF PickInvestigations, WorkInv, WorkIsOpen, Working, Automatic
  <2>3. \A t \in P : List[t].st # "resolved" /\ ~Escalated(List[t])
    BY <1>6, <2>2, ListIsCurrent DEF PickInvestigations, StoredOpen
  <2> QED
    BY <1>0, <2>1, <2>3, WorkReload
<1>7. ASSUME NEW D \in SUBSET Ticket, StartDevelopment(D) PROVE WorkInv' /\ StaysResolved
  <2>1. ListsAreEmpty' /\ Working' = D
    BY <1>1, <1>7 DEF StartDevelopment, ListsAreEmpty, Working
  <2>2. \A t \in done : mem[t].st # "resolved" /\ ~Escalated(mem[t])
    BY <1>7 DEF StartDevelopment, WorkInv, WorkIsOpen, Working, Automatic
  <2>3. \A t \in D : List[t].st # "resolved" /\ ~Escalated(List[t])
    BY <1>7, <2>2, ListIsCurrent DEF StartDevelopment, Candidates, DevBacklog
  <2> QED
    BY <1>0, <2>1, <2>3, WorkReload
<1> QED
    BY <1>3, <1>4, <1>5, <1>6, <1>7

\* A round that works on an open ticket: what it makes of the record.
Carries(r, q) ==
    /\ q.rej = r.rej
    /\ r.hitl => q.hitl
    /\ q.st # "resolved"
    /\ q.st = "absent" => r.st = "absent"

\* Such a round keeps the invariant.
LEMMA WorkCarry ==
    ASSUME PipelineInv, WorkInv, NEW t \in Ticket, NEW r, Store(t, r) \/ Set(t, r),
           t \in Working \/ mem[t].st # "resolved", Carries(mem[t], r),
           Automatic' => Automatic, ListsAreEmpty', Working' \subseteq Working
    PROVE  WorkInv' /\ StaysResolved
<1>1. mem[t].st # "resolved" /\ (t \in Working /\ Automatic => ~Escalated(mem[t]))
    BY DEF WorkInv, WorkIsOpen
<1>2. Marked(r) /\ (Escalated(mem[t]) <=> Escalated(r)) /\ r.st # "resolved"
    BY DEF WorkInv, EscalationsMarked, Carries, Marked, Escalated
<1> QED
    BY <1>1, <1>2, WorkRound

\* The changes of a record that the rounds make: a new status,
LEMMA StatusCarries ==
    ASSUME NEW r \in TicketRecord, NEW s, s \notin {"absent", "resolved"}
    PROVE  Carries(r, [r EXCEPT !.st = s])
    BY DEF Carries, TicketRecord

\* ... no change, the stale reset, what an investigation counts and ends with,
LEMMA InvestigationCarries ==
    ASSUME NEW r \in TicketRecord, r.st # "resolved"
    PROVE  /\ Carries(r, r)
           /\ Carries(r, StaleReset(r))
           /\ Carries(r, Counted(r))
           /\ Carries(r, [r EXCEPT !.rep = "full", !.st = "investigation_complete"])
           /\ Carries(r, Failed(r))
           /\ Carries(r, TimedOut(r))
<1>1. Carries(r, r)
    BY DEF Carries
<1>2. Carries(r, StaleReset(r))
  <2>1. CASE r.st = "in_development"
    BY <2>1, StatusCarries DEF StaleReset
  <2>2. CASE r.st = "investigating"
    BY <2>2, StatusCarries DEF StaleReset
  <2>3. CASE r.st \notin {"in_development", "investigating"}
    <3>1. StaleReset(r) = [r EXCEPT !.hitl = TRUE]
      BY <2>3 DEF StaleReset
    <3> QED
      BY <3>1 DEF Carries, TicketRecord
  <2> QED
    BY <2>1, <2>2, <2>3
<1>3. Carries(r, Counted(r))
    BY DEF Counted, Carries, TicketRecord
<1>4. Carries(r, [r EXCEPT !.rep = "full", !.st = "investigation_complete"])
    BY DEF Carries, TicketRecord
<1>5. Carries(r, Failed(r))
    BY StatusCarries DEF Failed
<1>6. Carries(r, TimedOut(r))
  <2> DEFINE n == IF r.tmo < MaxTimeouts THEN r.tmo + 1 ELSE r.tmo
             p == IF r.tmo + 1 >= MaxTimeouts THEN "stub" ELSE r.rep
  <2>1. TimedOut(r) = [r EXCEPT !.st = "triaged", !.tmo = n, !.rep = p]
    BY DEF TimedOut
  <2> HIDE DEF n, p
  <2> QED
    BY <2>1 DEF Carries, TicketRecord
<1> QED
    BY <1>1, <1>2, <1>3, <1>4, <1>5, <1>6

\* ... and what a development leaves behind.
LEMMA DevelopmentCarries ==
    ASSUME NEW r \in TicketRecord, NEW n, NEW s, s \notin {"absent", "resolved"}
    PROVE  /\ Carries(r, [r EXCEPT !.dev = n, !.st = s])
           /\ Carries(r, [r EXCEPT !.reinv = @ + 1, !.st = s])
           /\ Carries(r, [r EXCEPT !.st = s, !.inv = 0])
    BY DEF Carries, TicketRecord

\* Stale and stalled tickets.
LEMMA MaintainWork ==
    ASSUME PipelineInv, WorkInv, NEW t \in Ticket, NEW old \in BOOLEAN,
           StaleRound(t, old) \/ StallRound(t, old)
    PROVE  WorkInv' /\ StaysResolved
<1> USE DEF locals, fixing
<1>1. /\ Automatic' = Automatic /\ ListsAreEmpty' /\ Working' \subseteq Working
      /\ t \in Working
    BY DEF StaleRound, StallRound, WorkInv, Automatic, ListsAreEmpty, Working
<1>2. mem[t] \in TicketRecord /\ mem[t].st # "resolved"
    BY <1>1 DEF PipelineInv, TablesSound, WorkInv, WorkIsOpen
<1>3. CASE ~old
    BY <1>1, <1>3, WorkIdle DEF StaleRound, StallRound
<1>4. CASE old /\ StaleRound(t, old)
    BY <1>1, <1>2, <1>4, InvestigationCarries, WorkCarry DEF StaleRound
<1>5. CASE old /\ StallRound(t, old)
    BY <1>1, <1>2, <1>5, StatusCarries, WorkCarry DEF StallRound
<1> QED
    BY <1>3, <1>4, <1>5

\* Detecting, reconciling and triaging tickets.
LEMMA IntakeWork ==
    ASSUME PipelineInv, WorkInv, NEW t \in Ticket,
           \/ \E stored \in BOOLEAN : Detect(t, stored)
           \/ Reconcile(t)
           \/ \E human, automated \in BOOLEAN : TriageRound(t, human, automated)
    PROVE  WorkInv' /\ StaysResolved
<1> USE DEF locals, fixing
<1>1. mem[t] \in TicketRecord /\ mem \in [Ticket -> TicketRecord] /\ Marked(mem[t])
    BY DEF PipelineInv, TablesSound, WorkInv, EscalationsMarked
<1>2. ASSUME NEW stored \in BOOLEAN, Detect(t, stored) PROVE WorkInv' /\ StaysResolved
  <2> DEFINE r == IF stored THEN [Fresh EXCEPT !.st = "open"] ELSE mem[t]
  <2>1. /\ Automatic' = Automatic /\ ListsAreEmpty' /\ Working' \subseteq Working \cup {t}
    BY <1>2 DEF Detect, WorkInv, Automatic, ListsAreEmpty, Working
  <2>2. mem[t].st = "absent" /\ ~Escalated(mem[t])
    BY <1>1, <1>2 DEF Detect, Marked
  <2>3. /\ [Fresh EXCEPT !.st = "open"].st = "open"
        /\ [Fresh EXCEPT !.st = "open"].rej = 0
    BY DEF Fresh
  <2>4. r.st # "resolved" /\ ~Escalated(r) /\ Marked(r)
    BY <2>2, <2>3, PipelineAssumption DEF Escalated, Marked
  <2>5. Store(t, r) \/ Set(t, r)
    BY <1>1, <1>2 DEF Detect, Set
  <2> HIDE DEF r
  <2> QED
    BY <2>1, <2>2, <2>4, <2>5, WorkRound
<1>3. CASE Reconcile(t)
  <2>1. /\ Automatic' = Automatic /\ ListsAreEmpty' /\ Working' \subseteq Working
        /\ mem[t].st # "resolved"
    BY <1>3 DEF Reconcile, WorkInv, Automatic, ListsAreEmpty, Working
  <2> QED
    BY <1>1, <1>3, <2>1, DevelopmentCarries, WorkCarry DEF Reconcile
<1>4. ASSUME NEW human \in BOOLEAN, NEW automated \in BOOLEAN,
             TriageRound(t, human, automated)
      PROVE  WorkInv' /\ StaysResolved
  <2> DEFINE r == Triaged(mem[t], human, automated)
  <2>1. /\ Automatic /\ Automatic' /\ ListsAreEmpty' /\ Working' \subseteq Working
        /\ t \in Working
    BY <1>4 DEF TriageRound, WorkInv, Automatic, ListsAreEmpty, Working
  <2>2. mem[t].st # "resolved" /\ ~Escalated(mem[t])
    BY <2>1 DEF WorkInv, WorkIsOpen
  <2>3. r.rej = mem[t].rej /\ r.st \in {"in_review", "triaged"}
    BY <1>1 DEF Triaged, TicketRecord
  <2>4. r.st # "resolved" /\ ~Escalated(r) /\ Marked(r)
    BY <2>2, <2>3 DEF Escalated, Marked
  <2>5. Store(t, r)
    BY <1>4 DEF TriageRound
  <2> HIDE DEF r
  <2> QED
    BY <2>1, <2>2, <2>4, <2>5, WorkRound
<1> QED
    BY <1>2, <1>3, <1>4

\* The investigations, from the choice of the batch to the safety net.
LEMMA InvestigateWork ==
    ASSUME PipelineInv, WorkInv, NEW t \in Ticket,
           \/ InvestigationCap(t)
           \/ \E announced \in BOOLEAN : JoinBatch(t, announced)
           \/ InvestigationStarts(t) \/ InvestigationReports(t) \/ InvestigationRaises(t)
           \/ \E timeout \in BOOLEAN : InvestigationFails(t, timeout)
           \/ RepairRound(t) \/ ClaimRefused(t)
    PROVE  WorkInv' /\ StaysResolved
<1> USE DEF locals, fixing
<1>1. /\ Automatic' = Automatic /\ Working' \subseteq Working /\ t \in Working
    BY DEF InvestigationCap, JoinBatch, InvestigationStarts, InvestigationReports,
           InvestigationRaises, InvestigationFails, RepairRound, ClaimRefused,
           Investigating, Automatic, Working
<1>2. ListsAreEmpty'
    BY DEF InvestigationCap, JoinBatch, InvestigationStarts, InvestigationReports,
           InvestigationRaises, InvestigationFails, RepairRound, ClaimRefused,
           Investigating, WorkInv, ListsAreEmpty
<1>3. mem[t] \in TicketRecord /\ mem[t].st # "resolved"
    BY <1>1 DEF PipelineInv, TablesSound, WorkInv, WorkIsOpen
<1>4. CASE InvestigationCap(t)
    BY <1>1, <1>2, <1>3, <1>4, StatusCarries, WorkCarry DEF InvestigationCap
<1>5. ASSUME NEW announced \in BOOLEAN, JoinBatch(t, announced)
      PROVE  WorkInv' /\ StaysResolved
    BY <1>1, <1>2, <1>3, <1>5, InvestigationCarries, WorkCarry DEF JoinBatch
<1>6. CASE InvestigationStarts(t)
    BY <1>1, <1>2, <1>3, <1>6, StatusCarries, WorkCarry DEF InvestigationStarts
<1>7. CASE InvestigationReports(t)
    BY <1>1, <1>2, <1>3, <1>7, InvestigationCarries, WorkCarry DEF InvestigationReports
<1>8. CASE InvestigationRaises(t) \/ ClaimRefused(t)
    BY <1>1, <1>2, <1>8, WorkIdle DEF InvestigationRaises, ClaimRefused
<1>9. ASSUME NEW timeout \in BOOLEAN, InvestigationFails(t, timeout)
      PROVE  WorkInv' /\ StaysResolved
    BY <1>1, <1>2, <1>3, <1>9, InvestigationCarries, WorkCarry DEF InvestigationFails
<1>10. CASE RepairRound(t)
    BY <1>1, <1>2, <1>3, <1>10, StatusCarries, WorkCarry DEF RepairRound
<1> QED
    BY <1>4, <1>5, <1>6, <1>7, <1>8, <1>9, <1>10

\* A verdict keeps an escalation, or makes one that is flagged.
LEMMA ReviewedMarks ==
    ASSUME NEW r \in TicketRecord, Marked(r), r.st = "in_review", NEW v \in Verdict
    PROVE  /\ Marked(Reviewed(r, v))
           /\ Escalated(r) => Escalated(Reviewed(r, v))
<1> DEFINE P(q) == Marked(q) /\ (Escalated(r) => Escalated(q))
<1>0. r.rej \in 0..MaxRejections /\ MaxRejections \in Nat
    BY PipelineAssumption DEF TicketRecord
<1>1. P([r EXCEPT !.st = "in_development"])
    BY DEF TicketRecord, Marked, Escalated
<1>2. P([r EXCEPT !.appr = TRUE])
    BY DEF TicketRecord, Marked, Escalated
<1>3. P([r EXCEPT !.appr = TRUE, !.st = "in_development"])
    BY DEF TicketRecord, Marked, Escalated
<1>4. ASSUME r.rej + 1 < MaxRejections
      PROVE  P([r EXCEPT !.rej = @ + 1, !.st = "in_development"])
    BY <1>0, <1>4 DEF TicketRecord, Marked, Escalated
<1>5. P([r EXCEPT !.rej = MaxRejections, !.hitl = TRUE])
    BY DEF TicketRecord, Marked, Escalated
<1> HIDE DEF P
<1>6. P(Reviewed(r, v))
    BY <1>1, <1>2, <1>3, <1>4, <1>5 DEF Reviewed, Verdict
<1> QED
    BY <1>6 DEF P

\* Reviews, verifications and the hand-over to the verifier.
LEMMA ReviewWork ==
    ASSUME PipelineInv, WorkInv, NEW t \in Ticket,
           \/ ChangesRequested(t)
           \/ \E v \in Verdict : ReviewRound(t, v)
           \/ \E st \in {"verifying", "resolved"} : VerifyRound(t, st)
           \/ \E u \in Ticket, st \in {"rolled_back", "open"} : Recurrence(t, st, u)
           \/ StartVerifying(t)
    PROVE  WorkInv' /\ StaysResolved
<1> USE DEF locals, fixing
<1>1. /\ mem[t] \in TicketRecord /\ Marked(mem[t])
      /\ mem \in [Ticket -> TicketRecord] /\ disk \in [Ticket -> TicketRecord]
    BY DEF PipelineInv, TablesSound, WorkInv, EscalationsMarked
<1>2. /\ Automatic' = Automatic /\ ListsAreEmpty'
      /\ Working' \subseteq Working /\ (phase # "idle" => t \in Working)
    BY DEF ChangesRequested, ReviewRound, VerifyRound, Recurrence, StartVerifying,
           WorkInv, Automatic, ListsAreEmpty, Working
<1>3. phase \in {"review", "verify"} => t \notin Working'
    BY DEF ChangesRequested, ReviewRound, VerifyRound, Recurrence, StartVerifying,
           PipelineInv, LoopsAreCurrent, WorkInv, ListsAreEmpty, Working
<1>4. CASE ChangesRequested(t)
    BY <1>1, <1>2, <1>4, StatusCarries, WorkCarry DEF ChangesRequested
<1>5. ASSUME NEW v \in Verdict, ReviewRound(t, v) PROVE WorkInv' /\ StaysResolved
  <2>1. mem[t].st = "in_review" /\ phase = "review"
    BY <1>5 DEF ReviewRound, PipelineInv, LoopsAreCurrent
  <2>2. Marked(Reviewed(mem[t], v)) /\ (Escalated(mem[t]) => Escalated(Reviewed(mem[t], v)))
    BY <1>1, <2>1, ReviewedMarks
  <2> QED
    BY <1>2, <1>3, <1>5, <2>1, <2>2, WorkRound DEF ReviewRound
<1>6. ASSUME NEW st \in {"verifying", "resolved"}, VerifyRound(t, st)
      PROVE  WorkInv' /\ StaysResolved
  <2> DEFINE r == [mem[t] EXCEPT !.st = st]
  <2>1. mem[t].st = "verifying" /\ phase = "verify"
    BY <1>6 DEF VerifyRound, PipelineInv, LoopsAreCurrent
  <2>2. r.rej = mem[t].rej /\ r.hitl = mem[t].hitl /\ r.st = st
    BY <1>1 DEF TicketRecord
  <2>3. Marked(r) /\ (Escalated(mem[t]) => Escalated(r))
    BY <1>1, <2>2 DEF Marked, Escalated
  <2> HIDE DEF r
  <2> QED
    BY <1>2, <1>3, <1>6, <2>1, <2>3, WorkRound DEF VerifyRound, r
<1>7. ASSUME NEW u \in Ticket, NEW st \in {"rolled_back", "open"}, Recurrence(t, st, u)
      PROVE  WorkInv' /\ StaysResolved
  <2> DEFINE x == [mem[t] EXCEPT !.st = st]
             y == IF mem[u].st = "absent" THEN [Fresh EXCEPT !.st = "open"] ELSE mem[u]
             m == [mem EXCEPT ![t] = x, ![u] = y]
  <2>1. u # t /\ phase = "verify" /\ mem[t].st = "verifying"
    BY <1>7 DEF Recurrence, PipelineInv, LoopsAreCurrent
  <2>2. /\ mem' = m
        /\ disk' = IF SharedObjects THEN m ELSE [disk EXCEPT ![t] = m[t], ![u] = m[u]]
    BY <1>1, <1>7, <2>1 DEF Recurrence
  <2>3. m[t] = x /\ m[u] = y /\ \A w \in Ticket \ {t, u} : m[w] = mem[w]
    BY <1>1, <2>1
  <2>4. Carries(mem[t], x)
    BY <1>1, StatusCarries
  <2>5. x.rej = mem[t].rej /\ Marked(x) /\ x.st # "resolved"
    BY <1>1, <2>4 DEF Carries, Marked, Escalated
  <2>6. /\ [Fresh EXCEPT !.st = "open"].st = "open" /\ [Fresh EXCEPT !.st = "open"].rej = 0
        /\ Marked([Fresh EXCEPT !.st = "open"])
    BY PipelineAssumption DEF Fresh, Marked, Escalated
  <2>7. /\ Marked(mem[u]) /\ Marked(y)
        /\ (Escalated(mem[u]) => Escalated(y))
        /\ (mem[u].st = "resolved" <=> y.st = "resolved")
        /\ ~Escalated(mem[u]) => ~Escalated(y)
    BY <2>6, PipelineAssumption DEF WorkInv, EscalationsMarked, Marked, Escalated
  <2> HIDE DEF m, x, y
  <2>8. \A w \in Ticket : disk'[w] \in {m[w], disk[w]}
    BY <1>1, <2>2, <2>3
  <2>9. disk'[t] = x /\ disk'[u] = y
    BY <1>1, <2>1, <2>2, <2>3
  <2>10. EscalationsMarked'
    BY <2>2, <2>3, <2>5, <2>7, <2>8 DEF WorkInv, EscalationsMarked
  <2>11. MemoryIsCurrent'
    BY <2>2, <2>3, <2>5, <2>7, <2>8, <2>9 DEF WorkInv, MemoryIsCurrent, Escalated
  <2>12. StaysResolved
    BY <2>1, <2>2, <2>3, <2>5, <2>7, <2>8, <2>9 DEF WorkInv, MemoryIsCurrent, StaysResolved
  <2>13. WorkIsOpen'
    <3>1. Working \subseteq Ticket /\ ~Automatic /\ ~Automatic'
      BY <1>2, <2>1 DEF PipelineInv, CycleTypeOK, Working, Automatic
    <3>2. \A w \in Working' : w \in Ticket /\ w # t /\ mem[w].st # "resolved"
      BY <1>2, <1>3, <2>1, <3>1 DEF WorkInv, WorkIsOpen
    <3> QED
      BY <2>2, <2>3, <2>7, <3>1, <3>2 DEF WorkIsOpen
  <2> QED
    BY <1>2, <2>10, <2>11, <2>12, <2>13 DEF WorkInv
<1>8. CASE StartVerifying(t)
    BY <1>1, <1>2, <1>8, StatusCarries, WorkCarry DEF StartVerifying
<1> QED
    BY <1>4, <1>5, <1>6, <1>7, <1>8

\* The plan, the cap on development sessions, and attempt_fix's first decision.
LEMMA NextTicketWork ==
    ASSUME PipelineInv, WorkInv, NEW t \in Ticket,
           PlanStored(t) \/ DevelopmentCap(t) \/ FixStarts(t) \/ FixDeclined(t)
    PROVE  WorkInv' /\ StaysResolved
<1> USE DEF locals, fixing, NextTicket
<1>1. /\ Automatic' = Automatic /\ ListsAreEmpty'
      /\ Working' \subseteq Working /\ t \in Working
    BY DEF PlanStored, DevelopmentCap, FixStarts, FixDeclined,
           WorkInv, Automatic, ListsAreEmpty, Working
<1>2. mem[t] \in TicketRecord /\ mem[t].st # "resolved"
    BY <1>1 DEF PipelineInv, TablesSound, WorkInv, WorkIsOpen
<1>3. CASE PlanStored(t) \/ FixDeclined(t)
    BY <1>1, <1>2, <1>3, InvestigationCarries, WorkCarry DEF PlanStored, FixDeclined
<1>4. CASE DevelopmentCap(t)
    BY <1>1, <1>2, <1>4, StatusCarries, WorkCarry DEF DevelopmentCap
<1>5. CASE FixStarts(t)
    BY <1>1, <1>2, <1>5, StatusCarries, WorkCarry DEF FixStarts
<1> QED
    BY <1>3, <1>4, <1>5

\* The rounds of _fix_loop and the feedback loop of _try_reinvestigation.
LEMMA DevelopWork ==
    ASSUME PipelineInv, WorkInv,
           \/ \E recorded, last \in BOOLEAN : AttemptDiscarded(recorded, last)
           \/ FixSucceeds
           \/ \E blocked \in BOOLEAN : FixFails(blocked)
           \/ FixRaises
           \/ NoReinvestigation \/ Reinvestigate \/ Reinvestigated \/ RefixStarts
           \/ \E exhausted \in BOOLEAN : RefixRefused(exhausted)
           \/ \E timeout \in BOOLEAN : ReinvestigationFails(timeout)
           \/ ReinvestigationRaises
    PROVE  WorkInv' /\ StaysResolved
<1> USE DEF NextDevelopment
<1>1. /\ phase = "develop" /\ cur # NoTicket /\ cur' \in {cur, NoTicket}
      /\ UNCHANGED <<phase, todo, new, busy, done>>
    BY DEF AttemptDiscarded, FixSucceeds, FixFails, FixRaises, NoReinvestigation,
           Reinvestigate, Reinvestigated, RefixStarts, RefixRefused, ReinvestigationFails,
           ReinvestigationRaises, Attempting, Fixing, InStage
<1>2. /\ Automatic' = Automatic /\ ListsAreEmpty'
      /\ Working' \subseteq Working /\ cur \in Working
    BY <1>1 DEF WorkInv, Automatic, ListsAreEmpty, Working
<1>3. cur \in Ticket /\ mem[cur] \in TicketRecord /\ mem[cur].st # "resolved"
    BY <1>1, <1>2 DEF PipelineInv, CycleTypeOK, TablesSound, WorkInv, WorkIsOpen
<1>4. CASE \/ \E recorded, last \in BOOLEAN : AttemptDiscarded(recorded, last)
           \/ NoReinvestigation \/ ReinvestigationRaises
           \/ FixRaises /\ stage # "fix"
    BY <1>2, <1>4, WorkIdle DEF AttemptDiscarded, NoReinvestigation, ReinvestigationRaises,
                                FixRaises
<1>5. CASE FixSucceeds \/ \E blocked \in BOOLEAN : FixFails(blocked)
  <2>1. \E n, s : /\ s \in {"in_review", "blocked", "failed"}
                  /\ Store(cur, [mem[cur] EXCEPT !.dev = n, !.st = s])
    BY <1>5 DEF FixSucceeds, FixFails
  <2> QED
    BY <1>2, <1>3, <2>1, DevelopmentCarries, WorkCarry
<1>6. CASE FixRaises /\ stage = "fix"
    BY <1>2, <1>3, <1>6, StatusCarries, WorkCarry DEF FixRaises
<1>7. CASE Reinvestigate
    BY <1>2, <1>3, <1>7, DevelopmentCarries, WorkCarry DEF Reinvestigate
<1>8. CASE Reinvestigated
    BY <1>2, <1>3, <1>8, InvestigationCarries, WorkCarry DEF Reinvestigated
<1>9. CASE RefixStarts
    BY <1>2, <1>3, <1>9, StatusCarries, WorkCarry DEF RefixStarts
<1>10. ASSUME NEW exhausted \in BOOLEAN, RefixRefused(exhausted)
       PROVE  WorkInv' /\ StaysResolved
    BY <1>2, <1>3, <1>10, StatusCarries, InvestigationCarries, WorkCarry DEF RefixRefused
<1>11. ASSUME NEW timeout \in BOOLEAN, ReinvestigationFails(timeout)
       PROVE  WorkInv' /\ StaysResolved
    BY <1>2, <1>3, <1>11, InvestigationCarries, WorkCarry DEF ReinvestigationFails
<1> QED
    BY <1>4, <1>5, <1>6, <1>7, <1>8, <1>9, <1>10, <1>11

\* The batch is cut, the threads start.
LEMMA HandOverWork ==
    ASSUME PipelineInv, WorkInv, StartBatch \/ \E N \in SUBSET Ticket : StartTriage(N)
    PROVE  WorkInv' /\ StaysResolved
<1> USE DEF locals, fixing
<1>1. Automatic /\ ListsAreEmpty' /\ Working' \subseteq Working /\ UNCHANGED <<mem, disk>>
    BY DEF StartBatch, StartTriage, WorkInv, Automatic, ListsAreEmpty, Working
<1> QED
    BY <1>1, WorkIdle

\* Every step keeps the invariant, and what is RESOLVED on disk.
LEMMA NextWork == PipelineInv /\ WorkInv /\ [Next]_pipeVars => WorkInv' /\ StaysResolved
<1> SUFFICES ASSUME PipelineInv, WorkInv, [Next]_pipeVars PROVE WorkInv' /\ StaysResolved
    OBVIOUS
<1>1. CASE Maintain
    BY <1>1, MaintainWork, CycleEndWork, PhaseStepWork, HandOverWork DEF Maintain
<1>2. CASE Intake \/ TriageStep
    BY <1>2, IntakeWork DEF Intake, TriageStep
<1>3. CASE Investigate
    BY <1>3, InvestigateWork, PhaseStepWork, HandOverWork DEF Investigate
<1>4. CASE Develop
    BY <1>4, NextTicketWork, DevelopWork, CycleEndWork, PhaseStepWork DEF Develop
<1>5. CASE Rethink
    BY <1>5, DevelopWork, CycleEndWork DEF Rethink
<1>6. CASE Review
    BY <1>6, ReviewWork, PhaseStepWork DEF Review
<1>7. CASE \/ StartCycle \/ CycleRaises \/ Crash
           \/ \E t \in Ticket : ClaimRefused(t) \/ StartVerifying(t)
    BY <1>7, PhaseStepWork, CycleEndWork, InvestigateWork, ReviewWork
<1>8. CASE UNCHANGED pipeVars
    BY <1>8 DEF pipeVars, WorkInv, EscalationsMarked, MemoryIsCurrent, WorkIsOpen,
                ListsAreEmpty, Working, Automatic, StaysResolved
<1> QED
    BY <1>1, <1>2, <1>3, <1>4, <1>5, <1>6, <1>7, <1>8 DEF Next

\* A fresh store has no escalation, an idle runner no work.
LEMMA InitWork == Init => WorkInv
    BY PipelineAssumption DEF Init, WorkInv, EscalationsMarked, MemoryIsCurrent, WorkIsOpen,
       ListsAreEmpty, Working, Automatic, Marked, Escalated, Fresh

\* Both invariants hold in every state the runner reaches.
LEMMA WorkAlwaysInv == Spec => [](PipelineInv /\ WorkInv)
    BY InitInv, NextInv, InitWork, NextWork, PTL DEF Spec

\* Only a fix attempt counts as one, and it is of the ticket in development.
LEMMA SessionsCounted ==
    ASSUME PipelineInv, [Next]_pipeVars, NEW t \in Ticket, runs'[t].dev # runs[t].dev
    PROVE  t = cur /\ Attempting
<1>1. runs \in Runs
    BY DEF PipelineInv, CycleTypeOK
<1>2. runs' = runs \/ (\E u \in Ticket : Investigates(u)) \/ (Attempting /\ Attempts(cur))
    BY DEF Next, Maintain, Intake, TriageStep, Investigate, Develop, Rethink, Review,
       StartCycle, StaleRound, StallRound, CircuitPaused, CycleDone, StartIntake, NothingToDo,
       StartTriage, Detect, Reconcile, TriageRound, PickInvestigations, JoinBatch, StartBatch,
       InvestigationCap, InvestigationStarts, InvestigationReports, InvestigationRaises,
       RepairRound, InvestigationFails, StartRepair, DevelopmentRaises, StartDevelopment,
       PlanStored, DevelopmentCap, FixStarts, FixDeclined, AttemptDiscarded, FixSucceeds,
       FixFails, FixRateLimited, FixRaises, NoReinvestigation, Reinvestigate, Reinvestigated,
       RefixStarts, RefixRefused, ReinvestigationFails, ReinvestigationRaises,
       ReinvestigationRateLimited, StartReview, ChangesRequested, ReviewRound,
       StartVerification, VerifyRound, Recurrence, StartStallDetection, ClaimRefused,
       CycleRaises, StartVerifying, Crash, pipeVars
<1>3. ASSUME NEW u \in Ticket, Investigates(u) PROVE runs'[t].dev = runs[t].dev
    BY <1>1, <1>3 DEF Investigates, Runs
<1>4. Attempting /\ Attempts(cur)
    BY <1>2, <1>3
<1> QED
    BY <1>1, <1>4 DEF Attempts, Runs

\* What is RESOLVED in the store stays so: with either store, and whatever copy of
\* the ticket the runner writes back.
THEOREM ResolutionsAreFinal == Spec => ResolvedIsFinal
<1>1. PipelineInv /\ WorkInv /\ [Next]_pipeVars
      => [\A t \in Ticket : disk[t].st = "resolved" => disk'[t].st = "resolved"]_pipeVars
    BY NextWork DEF StaysResolved
<1> QED
    BY <1>1, WorkAlwaysInv, PTL DEF Spec, ResolvedIsFinal

\* A ticket that the code reviewer gave up on gets no further development session.
THEOREM EscalationsAreRespected == Spec => EscalationIsRespected
<1>1. ASSUME PipelineInv, WorkInv, [Next]_pipeVars, NEW t \in Ticket, mem[t].rej = MaxRejections
      PROVE  runs'[t].dev = runs[t].dev
  <2>1. cur \in Ticket /\ Attempting => ~Escalated(mem[cur])
    BY <1>1 DEF Attempting, Fixing, WorkInv, WorkIsOpen, Working, Automatic
  <2> QED
    BY <1>1, <2>1, SessionsCounted DEF Escalated
<1>2. PipelineInv /\ WorkInv /\ [Next]_pipeVars
      => [\A t \in Ticket : mem[t].rej = MaxRejections => runs'[t].dev = runs[t].dev]_pipeVars
    BY <1>1
<1> QED
    BY <1>2, WorkAlwaysInv, PTL DEF Spec, EscalationIsRespected

-----------------------------------------------------------------------------
\* The cap on investigations.  The inductive invariant compares the count on the
\* ticket object with the sessions really started.

\* Sessions that are counted and not started.
Counting == IF phase = "select" THEN busy ELSE IF phase = "investigate" THEN todo ELSE {}

\* Every investigation made is one that was counted, an announced one is not made
\* yet, and an id nobody used has none.
CountInv ==
    /\ \A t \in Ticket : runs[t].inv <= mem[t].inv
    /\ \A t \in Counting : runs[t].inv < mem[t].inv
    /\ \A t \in Ticket : mem[t].st = "absent" => runs[t].inv = 0

\* What a write may do to the count of investigations.
Grows(r, q) == r.inv <= q.inv /\ (q.st = "absent" => r.st = "absent")

\* A step that makes no investigation, takes none back and promises none.
LEMMA CountKeep ==
    ASSUME PipelineInv, PipelineInv', CountInv, Counting' \subseteq Counting,
           \A t \in Ticket : runs'[t].inv = runs[t].inv,
           \A t \in Ticket : \/ Grows(mem[t], mem'[t])
                             \/ mem[t].st = "absent" /\ t \notin Counting'
    PROVE  CountInv'
<1>1. \A t \in Ticket : /\ mem[t].inv \in Nat /\ mem'[t].inv \in Nat
                        /\ runs[t].inv \in Nat /\ runs'[t].inv \in Nat
    BY PipelineAssumption DEF PipelineInv, CycleTypeOK, Runs, TablesSound, TicketRecord
<1>2. Counting \subseteq Ticket
    BY DEF PipelineInv, CycleTypeOK, Counting
<1>3. \A t \in Ticket : runs'[t].inv <= mem'[t].inv /\ (mem'[t].st = "absent" => runs'[t].inv = 0)
    BY <1>1 DEF CountInv, Grows
<1>4. \A t \in Counting' : runs'[t].inv < mem'[t].inv
    BY <1>1, <1>2 DEF CountInv, Grows
<1> QED
    BY <1>3, <1>4 DEF CountInv

\* A write to one ticket.
LEMMA CountWrite ==
    ASSUME PipelineInv, PipelineInv', CountInv, Counting' \subseteq Counting, runs' = runs,
           NEW t \in Ticket, NEW r, Store(t, r) \/ Set(t, r),
           Grows(mem[t], r) \/ (mem[t].st = "absent" /\ t \notin Counting')
    PROVE  CountInv'
<1>1. mem'[t] = r /\ \A u \in Ticket : u # t => mem'[u] = mem[u]
    BY WriteCases DEF PipelineInv
<1>2. \A u \in Ticket : Grows(mem[u], mem[u])
    BY PipelineAssumption DEF Grows, PipelineInv, TablesSound, TicketRecord
<1> QED
    BY <1>1, <1>2, CountKeep

\* A new status keeps the count,
LEMMA StatusGrows ==
    ASSUME NEW r \in TicketRecord, NEW s, s # "absent"
    PROVE  Grows(r, [r EXCEPT !.st = s])
    BY PipelineAssumption DEF Grows, TicketRecord

\* ... so does what a development leaves behind,
LEMMA DevelopmentGrows ==
    ASSUME NEW r \in TicketRecord, NEW s, s # "absent", NEW n
    PROVE  /\ Grows(r, [r EXCEPT !.dev = n, !.st = s])
           /\ Grows(r, [r EXCEPT !.reinv = @ + 1, !.st = s])
    BY PipelineAssumption DEF Grows, TicketRecord

\* ... and so do the other changes of a record.
LEMMA RecordGrows ==
    ASSUME NEW r \in TicketRecord
    PROVE  /\ Grows(r, r)
           /\ Grows(r, [r EXCEPT !.rep = "full", !.st = "investigation_complete"])
           /\ \A human, automated \in BOOLEAN : Grows(r, Triaged(r, human, automated))
           /\ Grows(r, StaleReset(r))
           /\ Grows(r, Failed(r))
           /\ Grows(r, TimedOut(r))
           /\ \A v \in Verdict : Grows(r, Reviewed(r, v))
<1>0. r.inv \in Nat
    BY PipelineAssumption DEF TicketRecord
<1>1. Grows(r, r)
    BY <1>0 DEF Grows
<1>2. Grows(r, [r EXCEPT !.rep = "full", !.st = "investigation_complete"])
    BY <1>0 DEF Grows, TicketRecord
<1>3. ASSUME NEW human \in BOOLEAN, NEW automated \in BOOLEAN
      PROVE  Grows(r, Triaged(r, human, automated))
  <2>1. CASE automated
    BY <1>0, <2>1 DEF Grows, Triaged, TicketRecord
  <2>2. CASE ~automated
    BY <1>0, <2>2 DEF Grows, Triaged, TicketRecord
  <2> QED
    BY <2>1, <2>2
<1>4. Grows(r, StaleReset(r))
  <2>1. Grows(r, [r EXCEPT !.hitl = TRUE])
    BY <1>0 DEF Grows, TicketRecord
  <2> HIDE DEF Grows
  <2> QED
    BY StatusGrows, <2>1 DEF StaleReset
<1>5. Grows(r, Failed(r))
    BY StatusGrows DEF Failed
<1>6. Grows(r, TimedOut(r))
  <2> DEFINE m == IF r.tmo < MaxTimeouts THEN r.tmo + 1 ELSE r.tmo
             p == IF r.tmo + 1 >= MaxTimeouts THEN "stub" ELSE r.rep
  <2>1. TimedOut(r) = [r EXCEPT !.st = "triaged", !.tmo = m, !.rep = p]
    BY DEF TimedOut
  <2> HIDE DEF m, p
  <2> QED
    BY <1>0, <2>1 DEF Grows, TicketRecord
<1>7. ASSUME NEW v \in Verdict PROVE Grows(r, Reviewed(r, v))
  <2>1. /\ Grows(r, [r EXCEPT !.appr = TRUE])
        /\ Grows(r, [r EXCEPT !.appr = TRUE, !.st = "in_development"])
        /\ Grows(r, [r EXCEPT !.rej = @ + 1, !.st = "in_development"])
        /\ Grows(r, [r EXCEPT !.rej = MaxRejections, !.hitl = TRUE])
    BY <1>0 DEF Grows, TicketRecord
  <2> HIDE DEF Grows
  <2> QED
    BY StatusGrows, <2>1 DEF Reviewed, Verdict
<1> QED
    BY <1>1, <1>2, <1>3, <1>4, <1>5, <1>6, <1>7

\* The steps that write no ticket, with the store that hands out its own objects.
LEMMA MoveOnCount ==
    ASSUME SharedObjects, ~MayCrash, PipelineInv, PipelineInv', WorkInv, CountInv,
           \/ CircuitPaused \/ NothingToDo \/ DevelopmentRaises \/ CycleDone \/ CycleRaises
           \/ FixRateLimited \/ ReinvestigationRateLimited \/ Crash
           \/ StartCycle \/ StartIntake \/ StartRepair \/ StartReview
           \/ StartVerification \/ StartStallDetection
           \/ \E P \in SUBSET Ticket :
                 PickInvestigations(P) \/ StartDevelopment(P) \/ StartTriage(P)
           \/ StartBatch
    PROVE  CountInv'
<1>1. mem' = mem
    BY DEF CircuitPaused, NothingToDo, DevelopmentRaises, CycleDone, CycleRaises,
       FixRateLimited, ReinvestigationRateLimited, Crash, EndCycle, StartCycle, StartIntake,
       StartRepair, StartReview, StartVerification, StartStallDetection, PickInvestigations,
       StartDevelopment, StartTriage, StartBatch, EnterLoop, List
<1>2. \A t \in Ticket : Grows(mem[t], mem'[t])
    BY <1>1, RecordGrows DEF PipelineInv, TablesSound
<1>3. runs \in Runs /\ (phase = "develop" /\ cur # NoTicket => cur \in Ticket)
    BY DEF PipelineInv, CycleTypeOK
<1>4. runs' = runs \/ (cur \in Ticket /\ Attempts(cur))
    BY <1>3 DEF CircuitPaused, NothingToDo, DevelopmentRaises, CycleDone, CycleRaises,
       FixRateLimited, ReinvestigationRateLimited, Crash, StartCycle, StartIntake,
       StartRepair, StartReview, StartVerification, StartStallDetection, PickInvestigations,
       StartDevelopment, StartTriage, StartBatch, Attempting, Fixing
<1>5. \A t \in Ticket : runs'[t].inv = runs[t].inv
    BY <1>3, <1>4 DEF Attempts, Runs
<1>6. Counting' \subseteq Counting
    BY DEF CircuitPaused, NothingToDo, DevelopmentRaises, CycleDone, CycleRaises,
       FixRateLimited, ReinvestigationRateLimited, Crash, EndCycle, StartCycle, StartIntake,
       StartRepair, StartReview, StartVerification, StartStallDetection, PickInvestigations,
       StartDevelopment, StartTriage, StartBatch, EnterLoop, locals, WorkInv, ListsAreEmpty,
       Counting
<1> QED
    BY <1>2, <1>5, <1>6, CountKeep

\* The rounds of the loops before and after the investigations.
LEMMA RoundCount ==
    ASSUME SharedObjects, PipelineInv, PipelineInv', CountInv, NEW t \in Ticket,
           \/ \E old \in BOOLEAN : StaleRound(t, old) \/ StallRound(t, old)
           \/ \E stored \in BOOLEAN : Detect(t, stored)
           \/ Reconcile(t)
           \/ \E human, automated \in BOOLEAN : TriageRound(t, human, automated)
           \/ RepairRound(t) \/ ChangesRequested(t)
           \/ \E v \in Verdict : ReviewRound(t, v)
           \/ \E st \in {"verifying", "resolved"} : VerifyRound(t, st)
           \/ StartVerifying(t)
           \/ PlanStored(t) \/ DevelopmentCap(t) \/ FixStarts(t) \/ FixDeclined(t)
    PROVE  CountInv'
<1>1. mem[t] \in TicketRecord /\ mem \in [Ticket -> TicketRecord]
    BY DEF PipelineInv, TablesSound
<1>2. runs' = runs /\ Counting' = {}
    BY DEF StaleRound, StallRound, Detect, Reconcile, TriageRound, RepairRound,
       ChangesRequested, ReviewRound, VerifyRound, StartVerifying, PlanStored, DevelopmentCap,
       FixStarts, FixDeclined, NextTicket, Counting
<1> DEFINE Written == \E r : /\ Store(t, r) \/ Set(t, r)
                             /\ Grows(mem[t], r) \/ mem[t].st = "absent"
<1>3. \A r : (Store(t, r) \/ Set(t, r)) /\ Grows(mem[t], r) => Written
    OBVIOUS
<1>4. UNCHANGED <<mem, disk>> => Written
    BY <1>1, RecordGrows DEF Set
<1>5. mem[t].st = "absent" /\ (\E r : Store(t, r)) => Written
    OBVIOUS
<1> HIDE DEF Written
<1>6. ASSUME NEW old \in BOOLEAN, StaleRound(t, old) \/ StallRound(t, old) PROVE Written
    BY <1>1, <1>3, <1>4, <1>6, StatusGrows, RecordGrows DEF StaleRound, StallRound
<1>7. ASSUME NEW stored \in BOOLEAN, Detect(t, stored) PROVE Written
    BY <1>4, <1>5, <1>7 DEF Detect
<1>8. ASSUME NEW human \in BOOLEAN, NEW automated \in BOOLEAN, TriageRound(t, human, automated)
      PROVE  Written
    BY <1>1, <1>3, <1>8, RecordGrows DEF TriageRound
<1>9. ASSUME NEW v \in Verdict, ReviewRound(t, v) PROVE Written
    BY <1>1, <1>3, <1>9, RecordGrows DEF ReviewRound
<1>10. ASSUME NEW s \in {"verifying", "resolved"}, VerifyRound(t, s) PROVE Written
    BY <1>1, <1>3, <1>10, StatusGrows DEF VerifyRound
<1>11. ASSUME RepairRound(t) \/ ChangesRequested(t) \/ StartVerifying(t) PROVE Written
    BY <1>1, <1>3, <1>11, StatusGrows
       DEF RepairRound, ChangesRequested, StartVerifying
<1>12. ASSUME PlanStored(t) \/ DevelopmentCap(t) \/ FixStarts(t) \/ FixDeclined(t)
       PROVE  Written
    BY <1>1, <1>3, <1>12, StatusGrows, RecordGrows
       DEF PlanStored, DevelopmentCap, FixStarts, FixDeclined
<1>13. Written
    BY <1>6, <1>7, <1>8, <1>9, <1>10, <1>11, <1>12 DEF Reconcile
<1> QED
    BY <1>2, <1>13, CountWrite DEF Written

\* A recurrence stores a regression ticket under an id that nobody used.
LEMMA RecurrenceCount ==
    ASSUME PipelineInv, PipelineInv', CountInv, NEW t \in Ticket, NEW u \in Ticket,
           NEW s \in {"rolled_back", "open"}, Recurrence(t, s, u)
    PROVE  CountInv'
<1>1. mem \in [Ticket -> TicketRecord]
    BY DEF PipelineInv, TablesSound
<1>2. runs' = runs /\ Counting' = {}
    BY DEF Recurrence, Counting
<1>3. \A w \in Ticket : Grows(mem[w], mem[w]) /\ Grows(mem[w], [mem[w] EXCEPT !.st = s])
    BY <1>1, StatusGrows, RecordGrows
<1>4. /\ mem'[t] = [mem[t] EXCEPT !.st = s]
      /\ mem[u].st # "absent" => mem'[u] = mem[u]
      /\ \A w \in Ticket \ {t, u} : mem'[w] = mem[w]
    BY <1>1 DEF Recurrence
<1> QED
    BY <1>2, <1>3, <1>4, CountKeep

\* The batch: a ticket is counted when it joins, and started at most once for it.
LEMMA InvestigateCount ==
    ASSUME SharedObjects, PipelineInv, PipelineInv', CountInv, NEW t \in Ticket,
           \/ InvestigationCap(t)
           \/ \E announced \in BOOLEAN : JoinBatch(t, announced)
           \/ InvestigationStarts(t) \/ InvestigationReports(t) \/ InvestigationRaises(t)
           \/ \E timeout \in BOOLEAN : InvestigationFails(t, timeout)
           \/ ClaimRefused(t)
    PROVE  CountInv'
<1> USE DEF locals
<1>1. /\ mem[t] \in TicketRecord /\ mem \in [Ticket -> TicketRecord] /\ runs \in Runs
      /\ mem[t].inv \in Nat /\ runs[t].inv \in Nat
    BY PipelineAssumption DEF PipelineInv, TablesSound, CycleTypeOK, Runs, TicketRecord
<1>2. CASE InvestigationCap(t)
  <2>1. runs' = runs /\ Counting' \subseteq Counting
    BY <1>2 DEF InvestigationCap, Counting
  <2> QED
    BY <1>1, <1>2, <2>1, StatusGrows, CountWrite DEF InvestigationCap
<1>3. ASSUME NEW announced \in BOOLEAN, JoinBatch(t, announced) PROVE CountInv'
  <2>1. /\ Store(t, Counted(mem[t])) \/ Set(t, Counted(mem[t]))
        /\ runs' = runs /\ Counting = busy /\ Counting' \subseteq busy \cup {t}
    BY <1>3 DEF JoinBatch, Counting
  <2>2. /\ mem'[t] = Counted(mem[t])
        /\ \A w \in Ticket : w # t => mem'[w] = mem[w]
    BY <2>1, WriteCases DEF PipelineInv
  <2>3. Counted(mem[t]).inv = mem[t].inv + 1 /\ Counted(mem[t]).st = mem[t].st
    BY <1>1 DEF Counted, TicketRecord
  <2>4. busy \subseteq Ticket
    BY DEF PipelineInv, CycleTypeOK
  <2> QED
    BY <1>1, <2>1, <2>2, <2>3, <2>4 DEF CountInv
<1>4. CASE InvestigationStarts(t)
  <2>1. /\ Set(t, [mem[t] EXCEPT !.st = "investigating"])
        /\ t \in Counting /\ Counting' = Counting \ {t}
    BY <1>4 DEF InvestigationStarts, Counting
  <2>2. /\ mem'[t] = [mem[t] EXCEPT !.st = "investigating"]
        /\ \A w \in Ticket : w # t => mem'[w] = mem[w]
    BY <2>1, WriteCases DEF PipelineInv
  <2>3. mem'[t].inv = mem[t].inv /\ mem'[t].st = "investigating"
    BY <1>1, <2>2 DEF TicketRecord
  <2>4. /\ runs'[t].inv = OneMore(runs[t].inv)
        /\ \A w \in Ticket : w # t => runs'[w].inv = runs[w].inv
    BY <1>1, <1>4 DEF InvestigationStarts, Investigates, Runs
  <2>5. runs'[t].inv <= runs[t].inv + 1
    BY <1>1, <2>4, PipelineAssumption DEF OneMore
  <2>6. Counting \subseteq Ticket /\ runs'[t].inv \in Nat
    BY PipelineAssumption DEF PipelineInv, CycleTypeOK, Counting, Runs
  <2>7. runs'[t].inv <= mem'[t].inv
    BY <1>1, <2>1, <2>3, <2>5, <2>6 DEF CountInv
  <2>8. \A w \in Ticket : /\ runs'[w].inv <= mem'[w].inv
                          /\ mem'[w].st = "absent" => runs'[w].inv = 0
    BY <2>2, <2>3, <2>4, <2>7 DEF CountInv
  <2>9. \A w \in Counting' : runs'[w].inv < mem'[w].inv
    BY <2>1, <2>2, <2>4, <2>6 DEF CountInv
  <2> QED
    BY <2>8, <2>9 DEF CountInv
<1>5. CASE InvestigationReports(t) \/ \E timeout \in BOOLEAN : InvestigationFails(t, timeout)
  <2>1. runs' = runs /\ Counting' \subseteq Counting
    BY <1>5 DEF InvestigationReports, InvestigationFails, Investigating, Counting
  <2>2. \E r : (Store(t, r) \/ Set(t, r)) /\ Grows(mem[t], r)
    BY <1>1, <1>5, RecordGrows DEF InvestigationReports, InvestigationFails
  <2> QED
    BY <2>1, <2>2, CountWrite
<1>6. CASE InvestigationRaises(t)
  <2>1. runs' = runs /\ mem' = mem /\ Counting' \subseteq Counting
    BY <1>6 DEF InvestigationRaises, Investigating, Counting
  <2>2. \A w \in Ticket : Grows(mem[w], mem'[w])
    BY <1>1, <2>1, RecordGrows
  <2> QED
    BY <2>1, <2>2, CountKeep
<1> QED
    BY <1>2, <1>3, <1>4, <1>5, <1>6 DEF ClaimRefused

\* Development makes no investigation of the kind that is capped.
LEMMA DevelopCount ==
    ASSUME PipelineInv, PipelineInv', CountInv,
           \/ \E recorded, last \in BOOLEAN : AttemptDiscarded(recorded, last)
           \/ FixSucceeds
           \/ \E blocked \in BOOLEAN : FixFails(blocked)
           \/ FixRaises
           \/ NoReinvestigation \/ Reinvestigate \/ Reinvestigated \/ RefixStarts
           \/ \E exhausted \in BOOLEAN : RefixRefused(exhausted)
           \/ \E timeout \in BOOLEAN : ReinvestigationFails(timeout)
           \/ ReinvestigationRaises
    PROVE  CountInv'
<1>1. phase = "develop" /\ phase' = phase /\ cur # NoTicket
    BY DEF AttemptDiscarded, FixSucceeds, FixFails, FixRaises, NoReinvestigation,
           Reinvestigate, Reinvestigated, RefixStarts, RefixRefused, ReinvestigationFails,
           ReinvestigationRaises, Attempting, Fixing, InStage
<1>2. /\ Counting' = {} /\ cur \in Ticket /\ runs \in Runs
      /\ mem \in [Ticket -> TicketRecord] /\ mem[cur] \in TicketRecord
    BY <1>1 DEF Counting, PipelineInv, CycleTypeOK, TablesSound
<1>3. runs' = runs \/ Attempts(cur)
    BY DEF AttemptDiscarded, FixSucceeds, FixFails, FixRaises, NoReinvestigation,
           Reinvestigate, Reinvestigated, RefixStarts, RefixRefused, ReinvestigationFails,
           ReinvestigationRaises
<1>4. \A t \in Ticket : runs'[t].inv = runs[t].inv
    BY <1>2, <1>3 DEF Attempts, Runs
<1> DEFINE Written == \E r : (Store(cur, r) \/ Set(cur, r)) /\ Grows(mem[cur], r)
<1>5. \A r : (Store(cur, r) \/ Set(cur, r)) /\ Grows(mem[cur], r) => Written
    OBVIOUS
<1>6. UNCHANGED <<mem, disk>> => Written
    BY <1>2, RecordGrows DEF Set
<1> HIDE DEF Written
<1>7. ASSUME \/ \E recorded, last \in BOOLEAN : AttemptDiscarded(recorded, last)
             \/ FixRaises \/ NoReinvestigation \/ ReinvestigationRaises
      PROVE  Written
    BY <1>2, <1>5, <1>6, <1>7, StatusGrows DEF AttemptDiscarded, FixRaises,
       NoReinvestigation, ReinvestigationRaises
<1>8. ASSUME FixSucceeds \/ \E blocked \in BOOLEAN : FixFails(blocked) PROVE Written
  <2>1. \E n, s : s # "absent" /\ Store(cur, [mem[cur] EXCEPT !.dev = n, !.st = s])
    BY <1>8 DEF FixSucceeds, FixFails
  <2> QED
    BY <1>2, <1>5, <2>1, DevelopmentGrows
<1>9. ASSUME Reinvestigate \/ Reinvestigated \/ RefixStarts PROVE Written
    BY <1>2, <1>5, <1>9, StatusGrows, DevelopmentGrows, RecordGrows 
       DEF Reinvestigate, Reinvestigated, RefixStarts
<1>10. ASSUME NEW exhausted \in BOOLEAN, RefixRefused(exhausted) PROVE Written
    BY <1>2, <1>5, <1>10, StatusGrows, RecordGrows DEF RefixRefused
<1>11. ASSUME NEW timeout \in BOOLEAN, ReinvestigationFails(timeout) PROVE Written
    BY <1>2, <1>5, <1>11, RecordGrows DEF ReinvestigationFails
<1>12. Written
    BY <1>7, <1>8, <1>9, <1>10, <1>11
<1>13. \A t \in Ticket : Grows(mem[t], mem'[t])
  <2>1. PICK r : (Store(cur, r) \/ Set(cur, r)) /\ Grows(mem[cur], r)
    BY <1>12 DEF Written
  <2>2. mem'[cur] = r /\ \A u \in Ticket : u # cur => mem'[u] = mem[u]
    BY <1>2, <2>1, WriteCases DEF PipelineInv
  <2>3. \A u \in Ticket : Grows(mem[u], mem[u])
    BY <1>2, RecordGrows
  <2> QED
    BY <2>1, <2>2, <2>3
<1> QED
    BY <1>2, <1>4, <1>13, CountKeep

\* Every step keeps the counts, with the JSON store and no crash.
LEMMA NextCount ==
    ASSUME SharedObjects, ~MayCrash
    PROVE  PipelineInv /\ PipelineInv' /\ WorkInv /\ CountInv /\ [Next]_pipeVars => CountInv'
<1> SUFFICES ASSUME PipelineInv, PipelineInv', WorkInv, CountInv, [Next]_pipeVars
             PROVE  CountInv'
    OBVIOUS
<1>1. CASE Maintain
    BY <1>1, MoveOnCount, RoundCount DEF Maintain
<1>2. CASE Intake \/ TriageStep
    BY <1>2, RoundCount DEF Intake, TriageStep
<1>3. CASE Investigate
    BY <1>3, InvestigateCount, MoveOnCount, RoundCount DEF Investigate
<1>4. CASE Develop
    BY <1>4, DevelopCount, MoveOnCount, RoundCount DEF Develop
<1>5. CASE Rethink
    BY <1>5, DevelopCount, MoveOnCount DEF Rethink
<1>6. CASE Review
    BY <1>6, RoundCount, MoveOnCount, RecurrenceCount DEF Review
<1>7. CASE \/ StartCycle \/ CycleRaises \/ Crash
           \/ \E t \in Ticket : ClaimRefused(t) \/ StartVerifying(t)
    BY <1>7, MoveOnCount, InvestigateCount, RoundCount
<1>8. CASE UNCHANGED pipeVars
    BY <1>8 DEF pipeVars, CountInv, Counting
<1> QED
    BY <1>1, <1>2, <1>3, <1>4, <1>5, <1>6, <1>7, <1>8 DEF Next

\* The cap on recorded investigations caps the ones really made, for every number
\* of tickets, cycles, failures, timeouts and resets, as long as no count is lost:
\* with the JSON store, whose objects outlive the cycle, and in one process.
THEOREM InvestigationsAreCapped ==
    ASSUME SharedObjects, ~MayCrash
    PROVE  Spec => []InvestigationsCapped
<1>1. Init => CountInv
    BY DEF Init, CountInv, Counting, Fresh
<1>2. PipelineInv /\ CountInv => InvestigationsCapped
  <2>1. ASSUME PipelineInv, CountInv, NEW t \in Ticket PROVE runs[t].inv <= MaxSessions
    <3>1. runs[t].inv \in Nat /\ mem[t].inv \in 0..MaxSessions /\ MaxSessions \in Nat
      BY <2>1, PipelineAssumption DEF PipelineInv, CycleTypeOK, Runs, TablesSound, TicketRecord
    <3> QED
      BY <2>1, <3>1 DEF CountInv
  <2> QED
    BY <2>1 DEF InvestigationsCapped
<1> QED
    BY <1>1, <1>2, NextCount, WorkAlwaysInv, PTL DEF Spec
=============================================================================
