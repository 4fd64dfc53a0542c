----------------------------- MODULE ConfigFile -----------------------------
(***************************************************************************)
(* The files the dashboard changes: swe_team.yaml, which the runner reads, *)
(* and small JSON files.  A handler thread reads a whole file, changes     *)
(* what it read and writes all of it with write_text, which first empties  *)
(* the file.  No lock covers the two steps.                                *)
(***************************************************************************)
EXTENDS Naturals, Sequences, FiniteSets, Lists

CONSTANTS
    CHandler,      \* handler threads of the server
    EntryName,     \* names of projects, agents, teams, engines, keys of settings
    FirstConfig,   \* swe_team.yaml at the start: a sequence of entries per section
    MaxChanges,    \* bound: requests in all
    ServerDies     \* the server may be killed

VARIABLES
    disk,      \* what each file holds, and whether it is whole, empty or garbled
    job,       \* each thread: its request, what it will write, where it is
    changes,   \* requests so far
    removed    \* history: entries of the configuration some request deletes or renames

fileVars == <<disk, job, changes, removed>>

Sections == {"repos", "agents", "teams", "fallback_agents", "settings", "list"}
JsonFiles == {"mcp_servers", "label_triggers", "instances", "pipeline", "project_env"}
Files == {"config"} \cup JsonFiles

\* yaml.safe_load of an empty file is None, and "or {}" makes that a
\* configuration without sections.  A JSON file is one list.
Nothing == [s \in Sections |-> <<>>]
Whole(c) == [is |-> "whole", body |-> c]
Empty == [is |-> "empty", body |-> Nothing]
Garbled == [is |-> "garbled", body |-> Nothing]

Entry(n, v) == [name |-> n, value |-> v]
Named(q, n) == {i \in DOMAIN q : q[i].name = n}
Has(q, n) == Named(q, n) # {}

\* The first entry of that name gets a new value.
FirstOf(q, n) == CHOOSE i \in Named(q, n) : \A j \in Named(q, n) : i <= j
Patched(q, n) == [q EXCEPT ![FirstOf(q, n)].value = 1]
Without(q, n) == Sublist(q, DOMAIN q \ Named(q, n))

FreeThread == [at |-> "free", req |-> <<>>, new |-> Nothing, file |-> "none"]

FilesTypeOK ==
    /\ \A f \in Files : disk[f].is \in {"whole", "empty", "garbled"} /\ DOMAIN disk[f].body = Sections
    /\ \A h \in CHandler : job[h].at \in {"free", "check", "open", "write"}
    /\ changes \in 0..MaxChanges

FilesInit ==
    /\ disk = [f \in Files |-> Whole(IF f = "config" THEN FirstConfig ELSE Nothing)]
    /\ job = [h \in CHandler |-> FreeThread] /\ changes = 0 /\ removed = {}

-----------------------------------------------------------------------------
(* What each request makes of the content it has read: the set holds the   *)
(* new content, or nothing when the request is refused and writes nothing. *)

In(c, s, q) == {[c EXCEPT ![s] = q]}
Added(c, s, n) == In(c, s, Append(c[s], Entry(n, 0)))
PatchIn(c, s, n) == IF Has(c[s], n) THEN In(c, s, Patched(c[s], n)) ELSE {}
DeleteIn(c, s, n) == IF Has(c[s], n) THEN In(c, s, Without(c[s], n)) ELSE {}
PutIn(c, s, n) == IF Has(c[s], n) THEN In(c, s, Patched(c[s], n)) ELSE Added(c, s, n)

SaveProject(c, n) == IF Has(c["repos"], n) THEN {} ELSE Added(c, "repos", n)
DeleteProject(c, n) == DeleteIn(c, "repos", n)
UpdateProjectField(c, n) == PatchIn(c, "repos", n)

\* The first project of that name is given the new one; whether the new
\* name is free was looked up in an earlier read.
RenameProject(c, n, m) ==
    IF ~Has(c["repos"], n) THEN {}
    ELSE In(c, "repos", [c["repos"] EXCEPT ![FirstOf(c["repos"], n)].name = m])

\* Names that are there already are left out.
CompleteOnboarding(c, n) == IF Has(c["repos"], n) THEN {c} ELSE Added(c, "repos", n)

\* Mutant: an agent is appended whether or not there is one of that name.
MutSaveAgent(c, n) == Added(c, "agents", n)

\* An agent of that name is updated, otherwise one is added.
SaveAgent(c, n) == PutIn(c, "agents", n)
DeleteAgent(c, n) == DeleteIn(c, "agents", n)
PatchAgentField(c, n) == PatchIn(c, "agents", n)

CreateTeam(c, n) == IF Has(c["teams"], n) THEN {} ELSE Added(c, "teams", n)
DeleteTeam(c, n) == DeleteIn(c, "teams", n)
UpdateTeamField(c, n) == PatchIn(c, "teams", n)

\* Taken by its old name and put back under the new one, in one read.
RenameTeam(c, n, m) ==
    IF ~Has(c["teams"], n) \/ Has(c["teams"], m) THEN {}
    ELSE In(c, "teams", Append(Without(c["teams"], n), Entry(m, 0)))

PatchEngine(c, n) == PatchIn(c, "fallback_agents", n)
DeleteEngine(c, n) == DeleteIn(c, "fallback_agents", n)

\* A section of settings is created when it is not there.
UpdateSection(c, n) == PutIn(c, "settings", n)

\* The JSON files.
AddServer(c, n) == IF Has(c["list"], n) THEN {} ELSE Added(c, "list", n)
DeleteServer(c, n) == DeleteIn(c, "list", n)
PatchServer(c, n) == PatchIn(c, "list", n)
CreateTrigger(c, n) == PutIn(c, "list", n)
DeleteTrigger(c, n) == DeleteIn(c, "list", n)
SetProjectEnv(c, n) == PutIn(c, "list", n)
DeleteProjectEnv(c, n) == DeleteIn(c, "list", n)
ProvisionInstance(c, n) == Added(c, "list", n)
PatchStage(c, n) == PutIn(c, "list", n)

ConfigChange(kind, c, n, m) ==
    CASE kind = "add_project" -> SaveProject(c, n)  [] kind = "delete_project" -> DeleteProject(c, n)
      [] kind = "project" -> UpdateProjectField(c, n) [] kind = "rename" -> RenameProject(c, n, m)
      [] kind = "onboard" -> CompleteOnboarding(c, n)
      [] kind = "add_agent" -> SaveAgent(c, n)      [] kind = "delete_agent" -> DeleteAgent(c, n)
      [] kind = "agent" -> PatchAgentField(c, n)
      [] kind = "add_team" -> CreateTeam(c, n)      [] kind = "delete_team" -> DeleteTeam(c, n)
      [] kind = "team" -> UpdateTeamField(c, n)     [] kind = "rename_team" -> RenameTeam(c, n, m)
      [] kind = "engine" -> PatchEngine(c, n)       [] kind = "delete_engine" -> DeleteEngine(c, n)
      [] kind = "section" -> UpdateSection(c, n)

JsonChange(kind, c, n) ==
    CASE kind = "add_server" -> AddServer(c, n)     [] kind = "delete_server" -> DeleteServer(c, n)
      [] kind = "server" -> PatchServer(c, n)
      [] kind = "add_trigger" -> CreateTrigger(c, n) [] kind = "delete_trigger" -> DeleteTrigger(c, n)
      [] kind = "add_instance" -> ProvisionInstance(c, n) [] kind = "stage" -> PatchStage(c, n)
      [] kind = "add_env" -> SetProjectEnv(c, n)    [] kind = "delete_env" -> DeleteProjectEnv(c, n)

\* The requests of the handlers, by what they change.  A request for one
\* field of an entry is the same whatever the field; a value that is not
\* valid is answered with an error before the file is read.
ProjectRequests == {"add_project", "delete_project", "project", "rename", "onboard"}
AgentRequests == {"add_agent", "delete_agent", "agent"}
TeamRequests == {"add_team", "delete_team", "team", "rename_team"}
EngineRequests == {"engine", "delete_engine"}
SettingsRequests == {"section"}
ConfigKinds == ProjectRequests \cup AgentRequests \cup TeamRequests \cup EngineRequests \cup SettingsRequests
JsonKindOf ==
    [mcp_servers |-> {"add_server", "delete_server", "server"},
     label_triggers |-> {"add_trigger", "delete_trigger"}, instances |-> {"add_instance"},
     pipeline |-> {"stage"}, project_env |-> {"add_env", "delete_env"}]
KindsOf(f) == IF f = "config" THEN ConfigKinds ELSE JsonKindOf[f]

\* The entry of the configuration a request is meant to take away.
Removes(kind, n) ==
    CASE kind \in {"delete_project", "rename"} -> {<<"repos", n>>}
      [] kind = "delete_agent" -> {<<"agents", n>>}
      [] kind \in {"delete_team", "rename_team"} -> {<<"teams", n>>}
      [] kind = "delete_engine" -> {<<"fallback_agents", n>>}
      [] OTHER -> {}

-----------------------------------------------------------------------------
(* The steps of a handler.                                                 *)

\* Reading garbled YAML raises an exception and the request is refused; a
\* JSON file that cannot be read is a list without entries.
Result(f, kind, n, m) ==
    IF f # "config" THEN JsonChange(kind, disk[f].body, n)
    ELSE IF disk[f] = Garbled THEN {} ELSE ConfigChange(kind, disk[f].body, n, m)

Working(at, kind, n, m, new, f) == [at |-> at, req |-> <<kind, n, m>>, new |-> new, file |-> f]

\* A request is taken and the file is read.  A rename of a project first
\* looks whether the new name is taken; others are refused or go on to write.
TakeRequest(h) ==
    /\ job[h].at = "free" /\ changes < MaxChanges /\ changes' = changes + 1
    /\ \E f \in Files : \E kind \in KindsOf(f), n \in EntryName, m \in EntryName :
         /\ (kind \in {"rename", "rename_team"}) = (m # n)
         /\ \/ /\ kind = "rename" /\ ~Has(disk[f].body["repos"], m)
               /\ job' = [job EXCEPT ![h] = Working("check", kind, n, m, Nothing, f)]
            \/ /\ kind # "rename"
               /\ \E new \in Result(f, kind, n, m) : job' = [job EXCEPT ![h] = Working("open", kind, n, m, new, f)]
         /\ removed' = removed \cup Removes(kind, n)
    /\ UNCHANGED disk

\* The rename's second read.
ReadAgain(h) ==
    /\ job[h].at = "check"
    /\ LET new == Result("config", "rename", job[h].req[2], job[h].req[3])
       IN job' = [job EXCEPT ![h] = IF new = {} THEN FreeThread
                                    ELSE [@ EXCEPT !.at = "open", !.new = CHOOSE c \in new : TRUE]]
    /\ UNCHANGED <<disk, changes, removed>>

\* write_text opens the file for writing: it is empty from here on.
OpenFile(h) ==
    /\ job[h].at = "open"
    /\ disk' = [disk EXCEPT ![job[h].file] = Empty]
    /\ job' = [job EXCEPT ![h].at = "write"]
    /\ UNCHANGED <<changes, removed>>

\* The text is written from the start of the file.  Where another thread
\* has written since this one opened it, the tail of a longer text stays.
WriteFile(h) ==
    /\ job[h].at = "write"
    /\ \/ disk' = [disk EXCEPT ![job[h].file] = Whole(job[h].new)]
       \/ /\ disk[job[h].file] # Empty
          /\ disk' = [disk EXCEPT ![job[h].file] = Garbled]
    /\ job' = [job EXCEPT ![h] = FreeThread]
    /\ UNCHANGED <<changes, removed>>

\* The server is killed: a file may stay empty.
KillServer ==
    /\ ServerDies /\ \E h \in CHandler : job[h].at # "free"
    /\ job' = [h \in CHandler |-> FreeThread]
    /\ UNCHANGED <<disk, changes, removed>>

FilesNext ==
    \/ \E h \in CHandler : TakeRequest(h) \/ ReadAgain(h) \/ OpenFile(h) \/ WriteFile(h)
    \/ KillServer

FilesSpec == FilesInit /\ [][FilesNext]_fileVars

-----------------------------------------------------------------------------
(* Properties.                                                             *)

EntriesOf(c) == UNION {{<<s, c[s][i].name>> : i \in DOMAIN c[s]} : s \in Sections}

\* Whatever threads overwrite of each other's work, no file gets two
\* agents, teams, engines, servers or triggers of one name: each handler
\* looks for the name in the very content it then writes.  (A project's
\* rename looks in an earlier read, and provisioned instances may share a
\* name.)
NamesAreUnique ==
    \A f \in Files \ {"instances"}, s \in Sections \ {"repos"} :
        \A i, j \in DOMAIN disk[f].body[s] :
            disk[f].body[s][i].name = disk[f].body[s][j].name => i = j

\* Once no handler is writing, what was in the configuration is still in
\* it unless a request deleted or renamed it: the other keys are preserved
\* by _update_config_section and by its siblings.
ConfigSurvives ==
    (\A h \in CHandler : job[h].at # "write")
        => EntriesOf(FirstConfig) \subseteq EntriesOf(disk["config"].body) \cup removed
=============================================================================
