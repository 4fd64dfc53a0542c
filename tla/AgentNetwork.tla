---------------------------- MODULE AgentNetwork ----------------------------
(***************************************************************************)
(* The agent-to-agent protocol.  The first part is its client and its      *)
(* servers, a hub and an agent, each of which answers one request after    *)
(* the other: a client that has waited too long leaves its request behind  *)
(* in the server's line.  The second part is the registry of agents, whose *)
(* cards expire.                                                           *)
(***************************************************************************)
EXTENDS Naturals, Sequences, FiniteSets

CONSTANTS
    Client,      \* processes that use an A2AClient
    Msg,         \* messages and tasks to send
    BadMsg,      \* those without an action or a prompt the adapter knows
    HubIsSet,    \* the client has the URL of a hub
    MaxLine,     \* bound: requests that wait when a client asks about a task
    ServerStops  \* a server may be stopped and started

VARIABLES
    line,      \* requests that have reached a server, in order
    hand,      \* the request a server is working on
    tasks,     \* what a server keeps about the tasks it was sent
    caller,    \* each client's call
    used,      \* messages that have been sent
    runs,      \* history: how often a server's adapter has run a message
    told       \* the tasks whose sender was given their id

netVars == <<line, hand, tasks, caller, used, runs, told>>

Server == {"hub", "agent"}
NoRequest == [from |-> "nobody", msg |-> "none", what |-> "none"]
NoCall == [at |-> "idle", msg |-> "none", what |-> "none"]

NetTypeOK ==
    /\ \A s \in Server : hand[s].what \in {"none", "message", "send", "get", "cancel", "event"}
    /\ \A s \in Server, m \in Msg : tasks[s][m] \in {"none", "completed", "failed", "canceled"}
    /\ \A c \in Client : caller[c].at \in Server \cup {"idle"}

NetInit ==
    /\ line = [s \in Server |-> <<>>] /\ hand = [s \in Server |-> NoRequest]
    /\ tasks = [s \in Server |-> [m \in Msg |-> "none"]]
    /\ caller = [c \in Client |-> NoCall] /\ used = {}
    /\ runs = [s \in Server |-> [m \in Msg |-> 0]] /\ told = {}

-----------------------------------------------------------------------------
(* The client.                                                             *)

\* A request is posted: the call waits for its answer.
Post(c, s, m, what) ==
    /\ line' = [line EXCEPT ![s] = Append(@, [from |-> c, msg |-> m, what |-> what])]
    /\ caller' = [caller EXCEPT ![c] = [at |-> s, msg |-> m, what |-> what]]

Gone(c) == caller' = [caller EXCEPT ![c] = NoCall]

\* send_message: through the hub if there is one, otherwise to the agent.
\* post_event goes to the hub or nowhere.
SendMessage(c) ==
    \E m \in Msg \ used :
        /\ caller[c] = NoCall /\ used' = used \cup {m}
        /\ Post(c, IF HubIsSet THEN "hub" ELSE "agent", m, "message")
        /\ UNCHANGED <<hand, tasks, runs, told>>

PostEvent(c) ==
    /\ HubIsSet /\ caller[c] = NoCall /\ used # Msg
    /\ \E m \in Msg \ used : used' = used \cup {m} /\ Post(c, "hub", m, "event")
    /\ UNCHANGED <<hand, tasks, runs, told>>

\* send_task posts once; its task is known by the answer.
SendTask(c) ==
    \E m \in Msg \ used :
        /\ caller[c] = NoCall /\ used' = used \cup {m} /\ Post(c, "agent", m, "send")
        /\ UNCHANGED <<hand, tasks, runs, told>>

\* get_task and cancel_task name a task the sender was told of.
AskAboutTask(c) ==
    /\ caller[c] = NoCall /\ Len(line["agent"]) < MaxLine
    /\ \E m \in told, what \in {"get", "cancel"} : tasks["agent"][m] # "canceled" /\ Post(c, "agent", m, what)
    /\ UNCHANGED <<hand, tasks, used, runs, told>>

\* Mutant: a task is posted again when its answer does not come in time.
MutCallFails(c) ==
    /\ caller[c] # NoCall
    /\ \/ caller[c].what = "send" /\ Post(c, "agent", caller[c].msg, "send")
       \/ caller[c].what # "send" /\ Gone(c) /\ UNCHANGED line
    /\ UNCHANGED <<hand, tasks, used, runs, told>>

\* No answer in time, no connection, or an answer that cannot be read.  A
\* message the hub did not answer is sent to the agent's own URL; anything
\* else gives the caller an error.  What was posted stays in the line.
CallFails(c) ==
    /\ caller[c] # NoCall
    /\ \/ /\ caller[c].what = "message" /\ caller[c].at = "hub"
          /\ Post(c, "agent", caller[c].msg, "message")
       \/ /\ ~(caller[c].what = "message" /\ caller[c].at = "hub")
          /\ Gone(c) /\ UNCHANGED line
    /\ UNCHANGED <<hand, tasks, used, runs, told>>

-----------------------------------------------------------------------------
(* A server: one thread takes one request after the other.                 *)

HubServes(s) ==
    /\ hand[s] = NoRequest /\ line[s] # <<>>
    /\ hand' = [hand EXCEPT ![s] = Head(line[s])]
    /\ line' = [line EXCEPT ![s] = Tail(@)]
    /\ UNCHANGED <<tasks, caller, used, runs, told>>

\* The answer reaches a client that still waits for this very request.
Reply(s) ==
    LET r == hand[s]
    IN caller' = [c \in Client |-> IF caller[c] = [at |-> s, msg |-> r.msg, what |-> r.what] /\ c = r.from
                                   THEN NoCall ELSE caller[c]]

\* handle_action or handle_message: what the adapter does not know fails at
\* once, and an exception in its work becomes a failed task.
AdapterOutcome(m) == IF m \in BadMsg THEN {"failed"} ELSE {"completed", "failed"}
AdapterRuns(s, m) == runs' = [runs EXCEPT ![s][m] = @ + (IF m \in BadMsg THEN 0 ELSE 1)]

\* message:send, at the agent and at the hub: the hub's own adapter runs it
\* whatever agent it names, and no task is kept.
MessageAnswered(s) ==
    /\ hand[s].what = "message"
    /\ AdapterRuns(s, hand[s].msg) /\ Reply(s)
    /\ hand' = [hand EXCEPT ![s] = NoRequest]
    /\ UNCHANGED <<line, tasks, used, told>>

\* tasks/send: the task is stored when the adapter is done, and answered.
TaskAnswered(s) ==
    /\ hand[s].what = "send"
    /\ \E st \in AdapterOutcome(hand[s].msg) : tasks' = [tasks EXCEPT ![s][hand[s].msg] = st]
    /\ AdapterRuns(s, hand[s].msg) /\ Reply(s)
    /\ told' = IF caller'[hand[s].from] # caller[hand[s].from] THEN told \cup {hand[s].msg} ELSE told
    /\ hand' = [hand EXCEPT ![s] = NoRequest]
    /\ UNCHANGED <<line, used>>

\* tasks/get and tasks/cancel of a task that is stored, whatever its state;
\* other requests only answer.
QueryAnswered(s) ==
    /\ hand[s].what \in {"get", "cancel", "event"}
    /\ tasks' = IF hand[s].what = "cancel" /\ tasks[s][hand[s].msg] # "none"
                THEN [tasks EXCEPT ![s][hand[s].msg] = "canceled"] ELSE tasks
    /\ Reply(s)
    /\ hand' = [hand EXCEPT ![s] = NoRequest]
    /\ UNCHANGED <<line, used, runs, told>>

\* stop: the line is lost and the tasks are forgotten.
StopServer(s) ==
    /\ ServerStops /\ hand[s] = NoRequest /\ (line[s] # <<>> \/ \E m \in Msg : tasks[s][m] # "none")
    /\ line' = [line EXCEPT ![s] = <<>>] /\ tasks' = [tasks EXCEPT ![s] = [m \in Msg |-> "none"]]
    /\ UNCHANGED <<hand, caller, used, runs, told>>

NetNext ==
    \/ \E c \in Client : SendMessage(c) \/ PostEvent(c) \/ SendTask(c) \/ AskAboutTask(c) \/ CallFails(c)
    \/ \E s \in Server : HubServes(s) \/ MessageAnswered(s) \/ TaskAnswered(s) \/ QueryAnswered(s) \/ StopServer(s)

NetSpec == NetInit /\ [][NetNext]_netVars

-----------------------------------------------------------------------------
(* The registry.                                                           *)

CONSTANTS
    RemoteAgent,   \* agents with a URL
    LocalAgent,    \* adapters of this process
    Skilled,       \* the agents that have the skill asked for
    CardTtl,       \* how long a card is good for
    HubLists,      \* the registry asks a hub
    MaxDead        \* bound: how long a dead agent is counted

ASSUME RegistryAssumption ==
    CardTtl \in Nat /\ MaxDead \in Nat /\ CardTtl + 1 < MaxDead /\ Skilled \subseteq RemoteAgent \cup LocalAgent

VARIABLES
    card,      \* each agent's card: its status and its age
    adapter,   \* local adapters
    hublist,   \* the cards the hub keeps, without end
    dead,      \* how long an agent has been dead; 0 when it is alive
    chosen     \* the agent select_agent has just given

regVars == <<card, adapter, hublist, dead, chosen>>

Agents == RemoteAgent \cup LocalAgent
NoCard == [on |-> FALSE, status |-> "offline", age |-> 0]
NewCard(st) == [on |-> TRUE, status |-> st, age |-> 0]

RegistryTypeOK ==
    /\ \A a \in Agents : card[a].age \in 0..(CardTtl + 1) /\ card[a].status \in {"online", "offline"}
    /\ adapter \subseteq LocalAgent /\ hublist \subseteq Agents
    /\ dead \in [Agents -> 0..MaxDead] /\ chosen \subseteq Agents

RegistryInit ==
    /\ card = [a \in Agents |-> NoCard] /\ adapter = {} /\ hublist = {}
    /\ dead = [a \in Agents |-> 0] /\ chosen = {}

\* register; with a hub the card goes there too, if the hub can be reached.
Registered(a, st) ==
    /\ card' = [card EXCEPT ![a] = NewCard(st)]
    /\ hublist' \in {hublist} \cup (IF HubLists THEN {hublist \cup {a}} ELSE {})

AgentStatus(a) == IF dead[a] = 0 THEN "online" ELSE "offline"

RegisterLocal(a) ==
    /\ a \in LocalAgent \ adapter /\ Registered(a, AgentStatus(a)) /\ adapter' = adapter \cup {a}
    /\ chosen' = {} /\ UNCHANGED dead

Unregister(a) ==
    /\ card[a].on
    /\ card' = [card EXCEPT ![a] = NoCard] /\ adapter' = adapter \ {a} /\ chosen' = {}
    /\ UNCHANGED <<hublist, dead>>

\* discover: the hub's cards are taken as they are, then every URL is asked
\* for a card, which only a living agent gives.
Discover ==
    /\ \E answered \in SUBSET {a \in RemoteAgent : dead[a] = 0} :
         LET listed == IF HubLists THEN hublist ELSE {}
         IN card' = [a \in Agents |-> IF a \in answered \cup listed THEN NewCard("online") ELSE card[a]]
    /\ chosen' = {} /\ UNCHANGED <<adapter, hublist, dead>>

\* check_health sets the status; the card gets no younger.
CheckHealth(a) ==
    /\ card[a].on /\ card' = [card EXCEPT ![a].status = AgentStatus(a)] /\ chosen' = {}
    /\ UNCHANGED <<adapter, hublist, dead>>

\* Mutant: a card that has expired is not dropped.
MutExpired(c) == c

\* _expire_stale: the card goes, an adapter of that name stays.
Expired(c) == [a \in Agents |-> IF c[a].age > CardTtl THEN NoCard ELSE c[a]]

Candidates(c) == {a \in Skilled : c[a].on /\ c[a].status = "online"}

\* select_agent gives one of the agents that are online and have the skill:
\* the one of best priority, or one tagged for the severity.
SelectAgent ==
    /\ card' = Expired(card)
    /\ \E a \in Candidates(Expired(card)) : chosen' = {a}
    /\ UNCHANGED <<adapter, hublist, dead>>

ListAgents == card' = Expired(card) /\ chosen' = {} /\ UNCHANGED <<adapter, hublist, dead>>

\* An agent dies or comes back.
AgentChanges(a) ==
    /\ dead' = [dead EXCEPT ![a] = IF @ = 0 THEN 1 ELSE 0] /\ chosen' = {}
    /\ UNCHANGED <<card, adapter, hublist>>

TimePasses ==
    /\ card' = [a \in Agents |-> IF card[a].on /\ card[a].age <= CardTtl THEN [card[a] EXCEPT !.age = @ + 1] ELSE card[a]]
    /\ dead' = [a \in Agents |-> IF dead[a] \in 1..(MaxDead - 1) THEN dead[a] + 1 ELSE dead[a]]
    /\ chosen' = {} /\ UNCHANGED <<adapter, hublist>>

RegistryNext ==
    \/ \E a \in Agents : RegisterLocal(a) \/ Unregister(a) \/ CheckHealth(a) \/ AgentChanges(a)
    \/ Discover \/ SelectAgent \/ ListAgents \/ TimePasses

RegistrySpec == RegistryInit /\ [][RegistryNext]_regVars

-----------------------------------------------------------------------------
(* Properties.                                                             *)

\* However calls time out while their requests wait in a line, no server's
\* adapter runs one message or task twice: the client posts again only what
\* it sent through a hub, and then to the agent itself.
OneRunPerServer ==
    \A s \in Server, m \in Msg : runs[s][m] <= 1

\* An agent that is given for a task was alive not longer ago than a card
\* is good for, unless the hub lists it: the hub's list never expires, and
\* discovering a card there makes it young again.
ChosenWasAlive ==
    \A a \in chosen \ hublist : dead[a] <= CardTtl + 1
=============================================================================
