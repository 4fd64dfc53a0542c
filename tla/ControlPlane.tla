---------------------------- MODULE ControlPlane ----------------------------
(***************************************************************************)
(* The Python control plane: a queue of tickets in a JSON file, and the    *)
(* state of the pipeline in a YAML file with a cached copy.  Handler       *)
(* threads and the threads that execute urgent tickets share both.  Each   *)
(* load and each save takes a lock; what happens between them does not.    *)
(***************************************************************************)
EXTENDS Integers, Sequences, FiniteSets, Lists

CONSTANTS
    CpThread,      \* handler threads
    CpTicket,      \* ids of tickets
    TopPriority,   \* the largest priority (100)
    MaxCalls,      \* bound: requests
    MaxEdits,      \* bound: edits of the YAML file by hand
    CpDies         \* the process may be restarted

ASSUME CpAssumption == TopPriority \in Nat \ {0} /\ MaxCalls \in Nat /\ MaxEdits \in Nat

VARIABLES
    queue,      \* the queue file: a sequence of tickets
    yaml,       \* the YAML file: the pipeline's state, and the file's time
    heap,       \* the PipelineState objects of this process, in the order they were loaded
    loaded,     \* the time of the file that was loaded or saved last; 0 for none
    handler,    \* each thread's request, where it is, and what it has read
    exec,       \* the thread that executes a ticket
    calls, edits,
    pausedBy,   \* history: a pause was answered, and no resume overlapped it or has begun since
    replaced    \* history: a reload replaced the object an update was holding

cpVars == <<queue, yaml, heap, loaded, handler, exec, calls, edits, pausedBy, replaced>>

Pipeline0 == [paused |-> FALSE, setting |-> 0]
QTicket(t, st, p) == [id |-> t, status |-> st, priority |-> p]
FreeHandler == [at |-> "free", op |-> "", t |-> "", list |-> <<>>, obj |-> 0, over |-> FALSE, row |-> QTicket("", "", 0)]
NoExec == [at |-> "none", row |-> QTicket("", "", 0), list |-> <<>>]

PlaneTypeOK ==
    /\ \A i \in DOMAIN queue : queue[i].id \in CpTicket /\ queue[i].priority \in 0..TopPriority
                            /\ queue[i].status \in {"queued", "processing", "completed", "failed"}
    /\ yaml.state \in [paused : BOOLEAN, setting : 0..1] /\ yaml.time \in Nat \ {0} /\ loaded \in 0..yaml.time
    /\ \A i \in DOMAIN heap : heap[i] \in [paused : BOOLEAN, setting : 0..1]
    /\ \A h \in CpThread : handler[h].obj \in 0..Len(heap)

PlaneInit ==
    /\ queue = <<>> /\ yaml = [state |-> Pipeline0, time |-> 1] /\ heap = <<>> /\ loaded = 0
    /\ handler = [h \in CpThread |-> FreeHandler] /\ exec = [t \in CpTicket |-> NoExec]
    /\ calls = 0 /\ edits = 0 /\ pausedBy = FALSE /\ replaced = FALSE

-----------------------------------------------------------------------------
(* The queue file.                                                         *)

Positions(q, t) == {i \in DOMAIN q : q[i].id = t}

\* Mutant: the ticket is appended whether or not it is there.
MutUpserted(q, row) == Append(q, row)

\* The list an upsert saves: the ticket of that id replaced, or a new one at the end.
Upserted(q, row) ==
    IF Positions(q, row.id) = {} THEN Append(q, row)
    ELSE [q EXCEPT ![CHOOSE i \in Positions(q, row.id) : \A j \in Positions(q, row.id) : i <= j] = row]

Removed(q, t) == Sublist(q, {i \in DOMAIN q : q[i].id # t})

\* Priorities outside 0..100 are brought to the nearest bound.
Clamped(p) == IF p < 0 THEN 0 ELSE IF p > TopPriority THEN TopPriority ELSE p

GoTo(h, at) == handler' = [handler EXCEPT ![h].at = at]
Answer(h) == handler' = [handler EXCEPT ![h] = FreeHandler]
Unused == {t \in CpTicket : exec[t] = NoExec /\ Positions(queue, t) = {} /\ \A h \in CpThread : handler[h].t # t}
ConfigIdle == UNCHANGED <<yaml, heap, loaded, edits, pausedBy, replaced>>

Request(h, op, t, at, row) ==
    /\ handler[h].at = "free" /\ calls < MaxCalls /\ calls' = calls + 1
    /\ handler' = [handler EXCEPT ![h] = [FreeHandler EXCEPT !.op = op, !.t = t, !.at = at, !.row = row]]

\* A new ticket, or an urgent one with priority 0.
SubmitUrgent(h) == \E t \in Unused : Request(h, "urgent", t, "load", QTicket(t, "queued", 0))
AddTicket(h) == \E t \in Unused : Request(h, "add", t, "load", QTicket(t, "queued", TopPriority))

\* get_ticket reads the ticket; what is stored later is this copy.
UpdatePriority(h) ==
    \E i \in DOMAIN queue, p \in {-1, 0, TopPriority + 1} :
        Request(h, "priority", queue[i].id, "load", [queue[i] EXCEPT !.priority = Clamped(p)])

RemoveTicket(h) ==
    \E t \in CpTicket \ Unused : Request(h, "remove", t, "load", QTicket("", "", 0))

LoadQueue(h) ==
    /\ handler[h].at = "load"
    /\ handler' = [handler EXCEPT ![h].list = queue, ![h].at = "save"]
    /\ UNCHANGED <<queue, exec, calls>>

\* Every upsert saves the list it loaded, and so does a removal that finds
\* its ticket there.  An urgent ticket that was only queued is looked at
\* again: the handler asks whether the pipeline is paused.
SaveQueue(h) ==
    /\ handler[h].at = "save"
    /\ LET r == handler[h]
       IN /\ queue' = IF r.op # "remove" THEN Upserted(r.list, r.row)
                      ELSE IF Positions(r.list, r.t) = {} THEN queue ELSE Removed(r.list, r.t)
          /\ \/ /\ r.op = "urgent" /\ r.row.status = "queued"
                /\ GoTo(h, "check") /\ exec' = exec
             \/ /\ r.op = "urgent" /\ r.row.status = "processing"
                /\ exec' = [exec EXCEPT ![r.t] = [NoExec EXCEPT !.at = "running", !.row = r.row]]
                /\ Answer(h)
             \/ /\ r.op # "urgent" /\ Answer(h) /\ exec' = exec
    /\ UNCHANGED calls

\* Whether the pipeline is paused is read from the cached object: an urgent
\* ticket is executed at once unless it is, and then nothing takes it up later.
UrgentDecided(h) ==
    /\ handler[h].at = "take" /\ handler[h].op = "urgent"
    /\ handler' = [handler EXCEPT ![h] = IF heap[Len(heap)].paused THEN FreeHandler
                                         ELSE [@ EXCEPT !.at = "load", !.row.status = "processing"]]
    /\ UNCHANGED <<queue, exec, calls>>

\* The executor returns or raises; the thread stores the ticket it was given.
ExecuteTicket(t) ==
    /\ \/ /\ exec[t].at = "running"
          /\ \E st \in {"completed", "failed"} :
               exec' = [exec EXCEPT ![t].at = "load", ![t].row.status = st]
          /\ queue' = queue
       \/ /\ exec[t].at = "load"
          /\ exec' = [exec EXCEPT ![t].at = "save", ![t].list = queue] /\ queue' = queue
       \/ /\ exec[t].at = "save"
          /\ queue' = Upserted(exec[t].list, exec[t].row)
          /\ exec' = [exec EXCEPT ![t] = NoExec]
    /\ UNCHANGED <<handler, calls>>

-----------------------------------------------------------------------------
(* The state of the pipeline.                                              *)

QueueIdle == UNCHANGED <<queue, exec>>

ConfigRequest(h) ==
    \E op \in {"pause", "resume", "set", "project", "get"} :
        /\ handler[h].at = "free" /\ calls < MaxCalls /\ calls' = calls + 1
        /\ handler' = [g \in CpThread |->
             IF g = h THEN [FreeHandler EXCEPT !.op = op, !.at = "check",
                                               !.over = \E x \in CpThread : handler[x].op = "resume"]
             ELSE [handler[g] EXCEPT !.over = handler[g].op = "pause" /\ (@ \/ op = "resume")]]
        /\ pausedBy' = (pausedBy /\ op # "resume")

\* _ensure_loaded: the file is read again when it is newer than what was
\* read last.  The question and the reading are two steps.
EnsureLoaded(h) ==
    /\ handler[h].at = "check"
    /\ GoTo(h, IF yaml.time > loaded THEN "reload" ELSE "take")
    /\ UNCHANGED <<heap, loaded, yaml, pausedBy, replaced>>

\* The loaded state is a new object; threads may still hold an older one.
Reload(h) ==
    /\ handler[h].at = "reload"
    /\ heap' = Append(heap, yaml.state) /\ loaded' = yaml.time
    /\ GoTo(h, "take")
    /\ replaced' = (replaced \/ \E g \in CpThread : handler[g].at \in {"set", "write"})
    /\ UNCHANGED <<yaml, pausedBy>>

AppliedTo(op, s) ==
    CASE op = "pause" -> [s EXCEPT !.paused = TRUE] [] op = "resume" -> [s EXCEPT !.paused = FALSE]
      [] op = "set" -> [s EXCEPT !.setting = 1 - @] [] OTHER -> s

\* A request that only reads is answered from the cached object.
TakeState(h) ==
    /\ handler[h].at = "take" /\ handler[h].op # "urgent"
    /\ handler' = [handler EXCEPT ![h] = IF handler[h].op = "get" THEN FreeHandler
                                         ELSE [@ EXCEPT !.obj = Len(heap), !.at = "set"]]
    /\ UNCHANGED <<heap, loaded, yaml, pausedBy, replaced>>

\* Mutant: each update starts from what the file holds, in an object of its own.
MutSetState(h) ==
    /\ handler[h].at = "set"
    /\ heap' = Append(heap, AppliedTo(handler[h].op, yaml.state))
    /\ GoTo(h, "write")
    /\ UNCHANGED <<loaded, yaml, pausedBy, replaced>>

\* The object is changed in place and becomes the cached one again: here it
\* is put at the end when a reload has replaced it meanwhile.  An update of
\* a project leaves the pipeline's object alone.
SetState(h) ==
    /\ handler[h].at = "set"
    /\ LET o == handler[h].obj  op == handler[h].op
       IN heap' = IF op = "project" THEN heap
                  ELSE IF o = Len(heap) THEN [heap EXCEPT ![o] = AppliedTo(op, @)]
                  ELSE Append([heap EXCEPT ![o] = AppliedTo(op, @)], AppliedTo(op, heap[o]))
    /\ GoTo(h, "write")
    /\ UNCHANGED <<loaded, yaml, pausedBy, replaced>>

\* Whatever is cached is saved, through a temporary file that is renamed.
SaveConfig(h) ==
    /\ handler[h].at = "write"
    /\ yaml' = [state |-> heap[Len(heap)], time |-> yaml.time + 1] /\ loaded' = yaml.time + 1
    /\ pausedBy' = (pausedBy \/ (handler[h].op = "pause" /\ ~handler[h].over))
    /\ Answer(h)
    /\ UNCHANGED <<heap, replaced>>

\* Somebody edits the file by hand.
EditByHand ==
    /\ edits < MaxEdits /\ edits' = edits + 1
    /\ yaml' = [state |-> [yaml.state EXCEPT !.setting = 1 - @], time |-> yaml.time + 1]
    /\ UNCHANGED <<queue, heap, loaded, handler, exec, calls, pausedBy, replaced>>

\* The process is restarted: threads and cache are gone, the files stay.
RestartPlane ==
    /\ CpDies /\ heap # <<>>
    /\ heap' = <<>> /\ loaded' = 0
    /\ handler' = [h \in CpThread |-> FreeHandler] /\ exec' = [t \in CpTicket |-> NoExec]
    /\ UNCHANGED <<queue, yaml, calls, edits, pausedBy, replaced>>

PlaneNext ==
    \/ \E h \in CpThread :
         \/ /\ SubmitUrgent(h) \/ AddTicket(h) \/ UpdatePriority(h) \/ RemoveTicket(h)
            /\ UNCHANGED <<queue, exec>> /\ ConfigIdle
         \/ (LoadQueue(h) \/ SaveQueue(h) \/ UrgentDecided(h)) /\ ConfigIdle
         \/ ConfigRequest(h) /\ QueueIdle /\ UNCHANGED <<yaml, heap, loaded, edits, replaced>>
         \/ /\ EnsureLoaded(h) \/ Reload(h) \/ TakeState(h) \/ SetState(h) \/ SaveConfig(h)
            /\ QueueIdle /\ UNCHANGED <<calls, edits>>
    \/ \E t \in CpTicket : ExecuteTicket(t) /\ ConfigIdle
    \/ EditByHand \/ RestartPlane

PlaneSpec == PlaneInit /\ [][PlaneNext]_cpVars

-----------------------------------------------------------------------------
(* Properties.                                                             *)

\* However the loads and saves of handlers and executions interleave, the
\* queue file never lists one ticket twice: an execution that stores a
\* ticket somebody removed brings it back, once.
TicketsListedOnce ==
    \A i, j \in DOMAIN queue : queue[i].id = queue[j].id => i = j

\* An answered pause is in the file until somebody asks to resume, across
\* restarts, edits by hand and whatever updates overlap it: updates change
\* the one cached object in place.  Only a reload that replaces the object
\* an update is holding loses a pause.
PauseIsKept ==
    (pausedBy /\ ~replaced) => yaml.state.paused
=============================================================================
