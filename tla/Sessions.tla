------------------------------ MODULE Sessions ------------------------------
(***************************************************************************)
(* Coding sessions.  An agent works on a ticket by running a coding engine *)
(* (Claude Code or one of some thirty others) and keeps a record of the    *)
(* session in data/swe_team/sessions.json, so that a session that timed    *)
(* out or met a rate limit is resumed in a later cycle.  Every agent has   *)
(* its own SessionStore, which reads the file once and writes all its      *)
(* records with every change.  The engine keeps the conversations          *)
(* themselves, under ids it may choose on its own.                         *)
(*                                                                         *)
(* The last part is the pipeline engine, which runs other engines in       *)
(* stages.                                                                 *)
(***************************************************************************)
EXTENDS Naturals, Sequences, FiniteSets, SequencesExt, Lists

-----------------------------------------------------------------------------
(* The engines, by what their callers can tell apart: whether a timeout    *)
(* comes back as a failed result instead of an exception (api), whether    *)
(* prompts with sensitive words are refused (guard), what a session id     *)
(* given to run is used for (given), whether there is a resume, and        *)
(* whether the result names the engine's session (tells).                  *)

Cli == [api |-> FALSE, guard |-> FALSE, given |-> "ignored", resume |-> FALSE, tells |-> FALSE]
Claude == [Cli EXCEPT !.given = "new", !.resume = TRUE, !.tells = TRUE]
Copilot == [Cli EXCEPT !.given = "resume", !.resume = TRUE]
OpenClaw == [Cli EXCEPT !.guard = TRUE, !.given = "continue", !.tells = TRUE]
Cline == [Cli EXCEPT !.given = "continue", !.tells = TRUE]
Devin == [Cli EXCEPT !.api = TRUE, !.given = "continue", !.tells = TRUE]
OpenHands == [Cli EXCEPT !.api = TRUE, !.given = "continue", !.tells = TRUE]
Gemini == [Cli EXCEPT !.guard = TRUE]
AmazonQ == [Cli EXCEPT !.guard = TRUE]
Aider == Cli
Antigravity == Cli
Bolt == Cli
CodeGPT == Cli
Codex == Cli
Cursor == Cli
Goose == Cli
Gorilla == Cli
Jules == Cli
Junie == Cli
Kilo == Cli
OpenCode == Cli
PiAgents == Cli
Roo == Cli
Sgpt == Cli
Sweep == Cli
Windsurf == Cli

\* By the names of the configuration.
FirstEngines ==
    [claude |-> Claude, generic_cli |-> Cli, copilot |-> Copilot, aider |-> Aider, opencode |-> OpenCode,
     gemini |-> Gemini, codex |-> Codex, amazon_q |-> AmazonQ, bolt |-> Bolt, windsurf |-> Windsurf]
MoreEngines ==
    [sweep |-> Sweep, codegpt |-> CodeGPT, sgpt |-> Sgpt, roo |-> Roo, cline |-> Cline, cursor |-> Cursor,
     junie |-> Junie, goose |-> Goose, kilo |-> Kilo]
HostedEngines ==
    [antigravity |-> Antigravity, jules |-> Jules, gorilla |-> Gorilla, openhands |-> OpenHands,
     devin |-> Devin, pi_agents |-> PiAgents, openclaw |-> OpenClaw]
Registry == FirstEngines @@ MoreEngines @@ HostedEngines

CONSTANTS
    UsedEngines,   \* the engines a deployment may be configured with
    Agent, RoleOf, \* agents, and which of them investigate and which develop
    SessTicket,    \* tickets
    MaxIds,        \* bound: session ids
    DevAttempts,   \* a developer's attempts
    ProcessDies    \* the process may be killed

ASSUME SessionAssumption == UsedEngines \subseteq DOMAIN Registry /\ DevAttempts \in Nat \ {0}

VARIABLES
    engine,   \* the engine in use
    sfile,    \* sessions.json: records, the one last active at the end
    smem,     \* each agent's store: its records, and whether it has read the file
    convs,    \* conversations the engine keeps
    nextId,   \* the next session id
    agent,    \* what each agent is doing
    meta      \* session ids in the tickets' metadata

sessVars == <<engine, sfile, smem, convs, nextId, agent, meta>>

AtRest == [step |-> "rest", ticket |-> "", rec |-> 0, resume |-> 0, attempt |-> 0, live |-> 0]
SessUnread == [read |-> FALSE, recs |-> <<>>]
E == Registry[engine]

SessionsTypeOK ==
    /\ engine \in UsedEngines /\ nextId \in 1..(MaxIds + 1) /\ convs \subseteq 1..MaxIds
    /\ \A a \in Agent :
         /\ agent[a].step \in {"rest", "ready", "running"} /\ agent[a].attempt \in 0..DevAttempts
         /\ \A k \in DOMAIN smem[a].recs :
              smem[a].recs[k].status \in {"active", "suspended", "completed"} /\ smem[a].recs[k].id \in 1..MaxIds

SessionsInit ==
    /\ engine \in UsedEngines /\ sfile = <<>> /\ convs = {} /\ nextId = 1
    /\ smem = [a \in Agent |-> SessUnread] /\ agent = [a \in Agent |-> AtRest]
    /\ meta = [t \in SessTicket |-> [claude |-> 0, dev |-> 0]]

-----------------------------------------------------------------------------
(* The store.                                                              *)

\* A store is opened at the agent's first ticket.
RecsOf(a) == IF smem[a].read THEN smem[a].recs ELSE sfile
Without(q, I) == Sublist(q, {k \in DOMAIN q : q[k].id \notin I})
\* update_status: a record the store does not have is left alone.
WithStatus(q, i, st) ==
    IF \E k \in DOMAIN q : q[k].id = i
    THEN Append(Without(q, {i}), [q[CHOOSE k \in DOMAIN q : q[k].id = i] EXCEPT !.status = st])
    ELSE q
\* update_session_id: the record is kept under the id the engine chose, in
\* the place of a record that has this id.
Rekeyed(q, old, new) ==
    IF new = old THEN q
    ELSE Append(Without(q, {old, new}), [q[CHOOSE k \in DOMAIN q : q[k].id = old] EXCEPT !.id = new])

\* _save: all of the agent's records are written over the file.
Saved(a, q) == sfile' = q /\ smem' = [smem EXCEPT ![a] = [read |-> TRUE, recs |-> q]]

\* A new cycle has new agents.
NewAgent(a) ==
    /\ agent[a].step = "rest" /\ smem[a].read
    /\ smem' = [smem EXCEPT ![a] = SessUnread]
    /\ UNCHANGED <<engine, sfile, convs, nextId, agent, meta>>

-----------------------------------------------------------------------------
(* A ticket's session.                                                     *)

\* The suspended sessions of an agent's kind, the newest last.  A developer
\* looks only if the ticket has no developer's session yet.
Suspended(a, t) ==
    IF (RoleOf[a] = "investigator" /\ ~E.resume) \/ (RoleOf[a] = "developer" /\ meta[t].dev # 0) THEN <<>>
    ELSE Sublist(RecsOf(a), {k \in DOMAIN RecsOf(a) : /\ RecsOf(a)[k].ticket = t /\ RecsOf(a)[k].kind = RoleOf[a]
                                                      /\ RecsOf(a)[k].status = "suspended"})

Begin(a, t) ==
    /\ agent[a].step = "rest" /\ \A b \in Agent : agent[b].ticket # t
    /\ LET found == Suspended(a, t)
       IN IF found # <<>>
          THEN /\ Saved(a, WithStatus(RecsOf(a), Last(found).id, "active"))
               /\ agent' = [agent EXCEPT ![a] = [AtRest EXCEPT !.step = "ready", !.ticket = t,
                                                  !.rec = Last(found).id, !.resume = Last(found).id]]
               /\ UNCHANGED nextId
          ELSE /\ nextId <= MaxIds /\ nextId' = nextId + 1
               /\ Saved(a, Append(RecsOf(a), [id |-> nextId, ticket |-> t, kind |-> RoleOf[a], status |-> "active"]))
               /\ agent' = [agent EXCEPT ![a] = [AtRest EXCEPT !.step = "ready", !.ticket = t, !.rec = nextId]]
    /\ UNCHANGED <<engine, convs, meta>>

\* The engine is cooling down: the agent gives the ticket back, and the
\* session stays active in the store.
Cooling(a) ==
    /\ agent[a].step = "ready" /\ agent' = [agent EXCEPT ![a] = AtRest]
    /\ UNCHANGED <<engine, sfile, smem, convs, nextId, meta>>

\* A developer's later attempts resume the session of the earlier ones.
Resuming(a) ==
    IF RoleOf[a] = "investigator" \/ agent[a].attempt = 0 THEN agent[a].resume ELSE meta[agent[a].ticket].dev

\* An investigator names its session; a developer leaves that to the engine.
Named(a) == IF RoleOf[a] = "investigator" THEN agent[a].rec ELSE 0

\* The engine starts with a conversation of its own, or with the one it is given.
InConversation(a, c) == agent' = [agent EXCEPT ![a].step = "running", ![a].live = c]

Fresh(a, id) ==
    \/ /\ id = 0 \/ E.given = "ignored"
       /\ nextId <= MaxIds /\ nextId' = nextId + 1 /\ convs' = convs \cup {nextId} /\ InConversation(a, nextId)
    \/ /\ id # 0 /\ E.given = "new" /\ id \notin convs
       /\ convs' = convs \cup {id} /\ InConversation(a, id) /\ UNCHANGED nextId
    \/ /\ id # 0 /\ E.given = "continue"
       /\ convs' = convs \cup {id} /\ InConversation(a, id) /\ UNCHANGED nextId
    \/ /\ id # 0 /\ E.given = "resume" /\ id \in convs
       /\ InConversation(a, id) /\ UNCHANGED <<convs, nextId>>

\* engine.resume when there is a session to resume, engine.run otherwise.
\* No engine has the fork a developer would start from an investigation.
StartRun(a) ==
    /\ agent[a].step = "ready"
    /\ IF Resuming(a) # 0 /\ E.resume
       THEN Resuming(a) \in convs /\ InConversation(a, Resuming(a)) /\ UNCHANGED <<convs, nextId>>
       ELSE Fresh(a, Named(a))
    /\ UNCHANGED <<engine, sfile, smem, meta>>

\* The session to resume is unknown to the engine: an investigator starts a
\* fresh run under the same id.
ResumeUnknown(a) ==
    /\ agent[a].step = "ready" /\ RoleOf[a] = "investigator"
    /\ Resuming(a) # 0 /\ E.resume /\ Resuming(a) \notin convs
    /\ agent' = [agent EXCEPT ![a].resume = 0]
    /\ UNCHANGED <<engine, sfile, smem, convs, nextId, meta>>

\* An investigator's run has failed and the local model is tried, in a
\* conversation without a name.
LocalModel(a) ==
    /\ agent[a].step \in {"ready", "running"} /\ RoleOf[a] = "investigator" /\ agent[a].attempt = 0
    /\ nextId <= MaxIds /\ nextId' = nextId + 1 /\ convs' = convs \cup {nextId}
    /\ agent' = [agent EXCEPT ![a].step = "running", ![a].live = nextId, ![a].attempt = 1]
    /\ UNCHANGED <<engine, sfile, smem, meta>>

-----------------------------------------------------------------------------
(* How a run ends.                                                         *)

\* _suspend_session: every active session of the ticket in the agent's store.
SuspendAll(q, t) == [k \in DOMAIN q |-> IF q[k].ticket = t /\ q[k].status = "active"
                                        THEN [q[k] EXCEPT !.status = "suspended"] ELSE q[k]]

\* Mutant: the id the engine reports is not taken.
MutRealId(a) == agent[a].rec

\* The id the engine reports, or else the record's.
RealId(a) == IF E.tells THEN agent[a].live ELSE agent[a].rec

\* A valid report.
Investigated(a) ==
    /\ agent[a].step = "running" /\ RoleOf[a] = "investigator"
    /\ Saved(a, WithStatus(Rekeyed(smem[a].recs, agent[a].rec, RealId(a)), RealId(a), "completed"))
    /\ meta' = [meta EXCEPT ![agent[a].ticket].claude = RealId(a)]
    /\ agent' = [agent EXCEPT ![a] = AtRest]
    /\ UNCHANGED <<engine, convs, nextId>>

\* A failure, an invalid report, a rate limit or (unless the engine answers
\* over HTTP, which is a failure then) a timeout.
InvestigationStops(a) ==
    /\ agent[a].step \in {"ready", "running"} /\ RoleOf[a] = "investigator"
    /\ Saved(a, SuspendAll(smem[a].recs, agent[a].ticket))
    /\ agent' = [agent EXCEPT ![a] = AtRest]
    /\ UNCHANGED <<engine, convs, nextId, meta>>

\* The next attempt, or the developer gives up.
NextAttempt(a, rec) ==
    LET n == agent[a].attempt + 1
    IN  agent' = [agent EXCEPT ![a] = IF n >= DevAttempts THEN AtRest
                                      ELSE [@ EXCEPT !.step = "ready", !.attempt = n, !.rec = rec, !.live = 0]]

\* A developer's run that ends well; then the tests decide.
Developed(a) ==
    /\ agent[a].step = "running" /\ RoleOf[a] = "developer"
    /\ LET real == RealId(a)
           recs == Rekeyed(smem[a].recs, agent[a].rec, real)
       IN /\ meta' = [meta EXCEPT ![agent[a].ticket].dev = IF E.tells THEN real ELSE @]
          /\ \/ Saved(a, WithStatus(recs, real, "completed")) /\ agent' = [agent EXCEPT ![a] = AtRest]
             \/ Saved(a, recs) /\ NextAttempt(a, real)
    /\ UNCHANGED <<engine, convs, nextId>>

\* A run that fails, refused prompts and sessions the engine does not know included.
DevelopmentFails(a) ==
    /\ agent[a].step \in {"ready", "running"} /\ RoleOf[a] = "developer"
    /\ NextAttempt(a, agent[a].rec)
    /\ UNCHANGED <<engine, sfile, smem, convs, nextId, meta>>

\* A timeout of a resumed session is taken for a session that cannot be
\* resumed, and a fresh run follows with the same time; of a fresh run,
\* the session is suspended and the next attempt begins.
DevTimeboxEnds(a) ==
    /\ agent[a].step = "running" /\ RoleOf[a] = "developer" /\ ~E.api
    /\ IF Resuming(a) # 0 /\ E.resume /\ agent[a].live = Resuming(a)
       THEN nextId <= MaxIds /\ nextId' = nextId + 1 /\ convs' = convs \cup {nextId} /\ InConversation(a, nextId)
            /\ UNCHANGED <<sfile, smem>>
       ELSE Saved(a, WithStatus(smem[a].recs, agent[a].rec, "suspended")) /\ NextAttempt(a, agent[a].rec)
            /\ UNCHANGED <<convs, nextId>>
    /\ UNCHANGED <<engine, meta>>

DevelopmentRateLimited(a) ==
    /\ agent[a].step = "running" /\ RoleOf[a] = "developer"
    /\ Saved(a, WithStatus(smem[a].recs, agent[a].rec, "suspended"))
    /\ agent' = [agent EXCEPT ![a] = AtRest]
    /\ UNCHANGED <<engine, convs, nextId, meta>>

ProcessKilled ==
    /\ ProcessDies /\ \E a \in Agent : agent[a].step # "rest"
    /\ agent' = [a \in Agent |-> AtRest] /\ smem' = [a \in Agent |-> SessUnread]
    /\ UNCHANGED <<engine, sfile, convs, nextId, meta>>

SessionsNext ==
    \/ ProcessKilled
    \/ \E a \in Agent : \E t \in SessTicket : Begin(a, t)
    \/ \E a \in Agent :
         \/ NewAgent(a) \/ Cooling(a) \/ StartRun(a) \/ ResumeUnknown(a) \/ LocalModel(a)
         \/ Investigated(a) \/ InvestigationStops(a)
         \/ Developed(a) \/ DevelopmentFails(a) \/ DevTimeboxEnds(a) \/ DevelopmentRateLimited(a)

SessionsSpec == SessionsInit /\ [][SessionsNext]_sessVars

-----------------------------------------------------------------------------
(* The pipeline engine: stages, each with a provider (or none), run in     *)
(* turn on the output of the stage before.                                 *)

CONSTANTS
    Stages,         \* for each stage, whether its provider is given, and known
    StopOnFailure,  \* stop_on_first_failure
    SkipOn,         \* continue_on_skip
    StageCost       \* what a run of a stage may cost

ASSUME StageAssumption == StageCost \subseteq Nat

VARIABLES
    pipe,      \* the stage, the output so far, the cost, whether a stage failed, and the result
    did        \* history: what became of each stage, and its cost

stageVars == <<pipe, did>>

Running == [rc |-> 2, out |-> 0, cost |-> 0]

StagesTypeOK ==
    /\ pipe.stage \in 1..(Len(Stages) + 1) /\ pipe.out \in 0..Len(Stages) /\ pipe.failed \in BOOLEAN
    /\ pipe.result.rc \in 0..3 /\ Len(did) <= Len(Stages)

StagesInit ==
    pipe = [stage |-> 1, out |-> 0, cost |-> 0, failed |-> FALSE, result |-> Running] /\ did = <<>>

Pending == pipe.result = Running
StageTold(what, cost) == did' = Append(did, [what |-> what, cost |-> cost])
Result(rc, out, cost) == [rc |-> rc, out |-> out, cost |-> cost]

\* A stage without a provider, or with one that cannot be resolved.
StageSkipped ==
    /\ Pending /\ pipe.stage <= Len(Stages) /\ Stages[pipe.stage] # "known"
    /\ StageTold("skipped", 0)
    /\ pipe' = IF SkipOn THEN [pipe EXCEPT !.stage = @ + 1]
               ELSE [pipe EXCEPT !.stage = @ + 1, !.result = Result(1, pipe.out, 0)]

\* Mutant: a failed stage's output is handed on.
MutAfterFailure(p) == [p EXCEPT !.out = p.stage]

\* What is left of a failed stage: the output before it.
AfterFailure(p) == p

\* A stage's run succeeds, fails, or raises the exception of a timeout,
\* which leaves the pipeline with all that it has spent.
StageRuns ==
    /\ Pending /\ pipe.stage <= Len(Stages) /\ Stages[pipe.stage] = "known"
    /\ \E c \in StageCost :
         \/ /\ StageTold("success", c)
            /\ pipe' = [pipe EXCEPT !.stage = @ + 1, !.out = pipe.stage, !.cost = @ + c]
         \/ /\ StageTold("failed", c)
            /\ LET after == [AfterFailure(pipe) EXCEPT !.stage = @ + 1, !.cost = @ + c, !.failed = TRUE]
               IN pipe' = IF StopOnFailure THEN [after EXCEPT !.result = Result(1, after.out, after.cost)] ELSE after
         \/ /\ StageTold("raised", c)
            /\ pipe' = [pipe EXCEPT !.stage = @ + 1, !.result = Result(3, 0, 0)]

StagesOver ==
    /\ Pending /\ pipe.stage > Len(Stages)
    /\ pipe' = [pipe EXCEPT !.result = Result(IF pipe.failed THEN 1 ELSE 0, pipe.out, pipe.cost)]
    /\ UNCHANGED did

StagesNext == StageSkipped \/ StageRuns \/ StagesOver

StagesSpec == StagesInit /\ [][StagesNext]_stageVars

-----------------------------------------------------------------------------
(* Properties.                                                             *)

SuccessfulStages == {k \in DOMAIN did : did[k].what = "success"}

\* A pipeline's answer is the output of the last stage that succeeded, with
\* the cost of every stage that ran, and it is a success only if none
\* failed, however stages were skipped or failed on the way.
PipelineIsHonest ==
    pipe.result.rc \in {0, 1} =>
      /\ pipe.result.out = IF SuccessfulStages = {} THEN 0 ELSE Max(SuccessfulStages)
      /\ pipe.result.rc = 0 => \A k \in DOMAIN did : did[k].what \in {"success", "skipped"}
      /\ pipe.result.rc = 0 => pipe.result.cost = Total([k \in DOMAIN did |-> did[k].cost], Len(did))

\* What is written down of a finished session names a conversation the
\* engine has, over failed attempts, refused ids, the local model and
\* restarts: the ids an engine reports end up in the store and the ticket.
FinishedSessionsExist ==
    E.tells => /\ \A k \in DOMAIN sfile : sfile[k].status = "completed" => sfile[k].id \in convs
               /\ \A t \in SessTicket : {meta[t].claude, meta[t].dev} \subseteq convs \cup {0}
=============================================================================
