----------------------------- MODULE Dashboard -----------------------------
(***************************************************************************)
(* The handlers of dashboard_server.py that change tickets, suggestions    *)
(* and checkpoints.  ThreadingHTTPServer gives every request a thread; all *)
(* threads share one TicketStore, whose objects a handler changes in place *)
(* before store.add writes the whole memory over the file.  The runner is  *)
(* another process with a memory of its own.                               *)
(***************************************************************************)
EXTENDS Naturals, FiniteSets

CONSTANTS
    Thread,        \* request threads that may be busy at the same time
    DTicket,       \* ticket ids; "" is the id of a ticket created without one
    Item,          \* ids of suggestions and of checkpoints
    MaxRequests,   \* bound: requests served
    DRunner,       \* a runner works on the same file
    AddRaises      \* TicketStore.add may raise: no directory, a value JSON cannot hold

VARIABLES
    mem,      \* the server's TicketStore._tickets
    file,     \* tickets.json
    saved,    \* who wrote the file last; "raised": the server failed to
    list,     \* the suggestions and the checkpoints file
    feed,     \* feed files: entries (one for the creation), 0: no file
    req,      \* per thread: what it serves and how far it is
    served,   \* requests begun so far
    made,     \* tickets whose creation was answered with 201
    cycle     \* the runner's TicketStore

dashVars == <<mem, file, saved, list, feed, req, served, made, cycle>>

TicketId == DTicket \cup Item   \* an accepted suggestion's ticket has a slot of its own

Pending == {"in_review", "rework_requested"}
Field == {"assigned_to", "severity", "title", "description", "labels"}
NoTicket == [on |-> FALSE, made |-> 0, st |-> "open", hitl |-> FALSE, fix |-> FALSE,
             note |-> "none", comments |-> 0, edited |-> {}, from |-> "none"]
Fresh(n, source) == [NoTicket EXCEPT !.on = TRUE, !.made = n, !.from = source]
Torn == [s \in {} |-> "pending"]   \* what is read of a truncated file
IdleReq == [op |-> "none", t |-> "", at |-> "idle", arg |-> "none", snap |-> Torn]
AllPending == [s \in Item |-> "pending"]
ListName == {"suggestions", "checkpoints"}

EditOps == Field
DecideOps == {"approve", "reject", "revise", "approval_comment"}
StatusOps == {"status_open", "status_resolved", "status_closed"}
TicketOps == EditOps \cup DecideOps \cup StatusOps \cup {"comment", "drop_comment", "feed_comment",
                                                         "investigate", "develop"}
NewOps == {"create", "import_skip", "import_overwrite", "import_merge", "import_dry"}

DashTypeOK ==
    /\ saved \in {"server", "runner", "raised"} /\ served \in 0..MaxRequests /\ made \in 0..MaxRequests
    /\ \A t \in TicketId : mem[t].comments \in Nat /\ mem[t].edited \subseteq Field
    /\ \A h \in Thread : req[h].at \in {"idle", "checked", "save", "torn"}

\* A ticket under review that waits for a person, with or without a fix.
DashInit ==
    /\ \E b \in BOOLEAN :
         mem = [t \in TicketId |-> IF t \notin DTicket \ {""} THEN NoTicket
                                   ELSE [Fresh(0, "none") EXCEPT !.st = "in_review", !.fix = b,
                                                                 !.hitl = TRUE]]
    /\ file = mem /\ saved = "server" /\ cycle = mem
    /\ list = [l \in ListName |-> AllPending]
    /\ feed = [t \in TicketId |-> 0]
    /\ req = [h \in Thread |-> IdleReq] /\ served = 0 /\ made = 0

-----------------------------------------------------------------------------
(* What a handler does to the ticket it was given.                         *)

Edited(r, f) == [r EXCEPT !.edited = @ \cup {f}]

Commented(r) == [r EXCEPT !.comments = @ + 1]

CommentDropped(r) == [r EXCEPT !.comments = @ - 1]

\* SWETicket.transition: RESOLVED needs an audit, which a ticket without report
\* or attempts passes by a recognised note only.
MayResolve(r) == r.note = "bypass"

\* The note is kept even when the transition is refused with 422.
WithNote(r, note) == IF note = "none" THEN r ELSE [r EXCEPT !.note = note]
StatusSet(r, st, note) ==
    LET noted == WithNote(r, note)
    IN IF st = "resolved" /\ ~MayResolve(noted) THEN noted ELSE [noted EXCEPT !.st = st]

\* _handle_approval_approve forces RESOLVED when the audit refuses it.
Approved(r) ==
    IF r.fix THEN [r EXCEPT !.hitl = FALSE, !.note = "free", !.st = "resolved"]
             ELSE [r EXCEPT !.hitl = FALSE, !.st = "in_development"]

Rejected(r) == [r EXCEPT !.hitl = FALSE, !.note = "free", !.st = "closed"]

RevisionRequested(r) == [r EXCEPT !.st = "rework_requested"]

ApprovalPending(r) == r.st \in Pending \/ r.hitl

NewStatus(op) == CASE op = "status_open" -> "open" [] op = "status_resolved" -> "resolved"
                   [] op = "status_closed" -> "closed"

Applied(op, note, r) ==
    CASE op \in EditOps -> Edited(r, op)
      [] op \in {"comment", "feed_comment", "approval_comment"} -> Commented(r)
      [] op = "drop_comment" -> CommentDropped(r)
      [] op \in StatusOps -> StatusSet(r, NewStatus(op), note)
      [] op = "approve" -> Approved(r)
      [] op = "reject" -> Rejected(r)
      [] op = "revise" -> RevisionRequested(r)
      [] OTHER -> r

\* What is answered with 400, 404 or 422.
RefusedOp(op, note, r) ==
    \/ ~r.on
    \/ op \in DecideOps /\ ~ApprovalPending(r)
    \/ op = "drop_comment" /\ r.comments = 0

\* Mutant: the handler of comments does not store the ticket.
MutStores(op, note, r) == op \notin {"comment", "investigate", "develop"}

\* Handlers that call store.add.  The threads of investigate and develop raise
\* TypeError: the agents have no parameters config, ticket_store and model.
Stores(op, note, r) ==
    /\ op \notin {"investigate", "develop"}
    /\ op = "status_resolved" => MayResolve(WithNote(r, note))

-----------------------------------------------------------------------------
Serve(h, op, t, note) == [op |-> op, t |-> t, at |-> "checked", arg |-> note, snap |-> Torn]

\* The request passes _check_auth and its route, and the handler finds the ticket.
BeginTicketOp(h) ==
    /\ req[h].at = "idle" /\ served < MaxRequests
    /\ \E op \in TicketOps, t \in TicketId, note \in {"none", "free", "bypass"} :
         /\ op \notin StatusOps => note = "none"
         /\ ~RefusedOp(op, note, mem[t])
         /\ req' = [req EXCEPT ![h] = Serve(h, op, t, note)]
    /\ served' = served + 1
    /\ UNCHANGED <<mem, file, saved, list, feed, made, cycle>>

\* Other threads may have changed the shared object since it was looked at; a
\* comment that is no longer there raises IndexError.
Change(h) ==
    LET op == req[h].op  t == req[h].t  note == req[h].arg
        gone == op = "drop_comment" /\ mem[t].comments = 0
    IN /\ req[h].at = "checked" /\ op \in TicketOps
       /\ mem' = IF gone THEN mem ELSE [mem EXCEPT ![t] = Applied(op, note, @)]
       /\ req' = [req EXCEPT ![h] = IF ~gone /\ Stores(op, note, mem[t])
                                    THEN [@ EXCEPT !.at = "save"] ELSE IdleReq]
       /\ feed' = IF op # "feed_comment" THEN feed
                  ELSE [feed EXCEPT ![t] = 1 + IF @ = 0 THEN 1 + mem[t].comments ELSE @]
       /\ UNCHANGED <<file, saved, list, served, made, cycle>>

\* TicketStore.add writes the whole memory, under the store's lock.
Add(h) ==
    /\ req[h].at = "save" /\ req[h].op \in TicketOps
    /\ file' = mem /\ saved' = "server"
    /\ req' = [req EXCEPT ![h] = IdleReq]
    /\ UNCHANGED <<mem, list, feed, served, made, cycle>>

\* GET of a feed writes the file when there is none.
ReadFeed(t) ==
    /\ mem[t].on /\ feed[t] = 0
    /\ feed' = [feed EXCEPT ![t] = 1 + mem[t].comments]
    /\ UNCHANGED <<mem, file, saved, list, req, served, made, cycle>>

-----------------------------------------------------------------------------
\* _dict_to_ticket: a missing ticket_id becomes "", and the enum values, which
\* are lower case, are looked up in upper case: status OPEN, severity MEDIUM.
FromDict(r) == [r EXCEPT !.on = TRUE, !.st = "open", !.edited = @ \cup {"severity"}]

CreateTicket(h) ==
    /\ req[h].at = "idle" /\ served < MaxRequests
    /\ served' = served + 1
    /\ mem' = [mem EXCEPT ![""] = FromDict(Fresh(made + 1, "none"))]
    /\ file' = mem' /\ saved' = "server"
    /\ made' = made + 1
    /\ UNCHANGED <<list, feed, req, cycle>>

\* One record of an imported file: skip, overwrite and merge say what happens to
\* a ticket that exists; a dry run stores nothing.
ImportTicket(h, strategy, dry) ==
    /\ req[h].at = "idle" /\ served < MaxRequests
    /\ served' = served + 1
    /\ \E t \in DTicket \ {""} :
         LET item == FromDict(Fresh(0, "none"))
             ticket == IF mem[t].on /\ strategy = "merge" THEN FromDict(mem[t]) ELSE item
         IN IF dry \/ (mem[t].on /\ strategy = "skip")
            THEN UNCHANGED <<mem, file, saved>>
            ELSE /\ mem' = [mem EXCEPT ![t] = ticket]
                 /\ file' = mem' /\ saved' = "server"
    /\ UNCHANGED <<list, feed, req, made, cycle>>

-----------------------------------------------------------------------------
\* A file that cannot be read counts as missing: the suggestions are then
\* replaced by the defaults, the checkpoints by the empty list.
Readable(l) == list[l] # Torn

BeginDecision(h) ==
    /\ req[h].at = "idle" /\ served < MaxRequests
    /\ \E s \in Item, op \in {"accept", "dismiss", "cp_approve", "cp_reject"} :
         LET l == IF op \in {"accept", "dismiss"} THEN "suggestions" ELSE "checkpoints"
             items == IF Readable(l) THEN list[l] ELSE AllPending
         IN /\ Readable(l) \/ l = "suggestions"
            /\ items[s] = "pending"
            /\ req' = [req EXCEPT ![h] = [op |-> op, t |-> s, at |-> "checked", arg |-> l,
                                          snap |-> items]]
            /\ list' = [list EXCEPT ![l] = items]
    /\ served' = served + 1
    /\ UNCHANGED <<mem, file, saved, feed, made, cycle>>

\* A store that raises ends the handler with 500; the memory has the ticket.
AddFails(h) ==
    /\ AddRaises
    /\ \/ req[h].at = "save" /\ req[h].op \in TicketOps /\ UNCHANGED mem
       \/ /\ req[h].at = "checked" /\ req[h].op = "accept"
          /\ mem' = [mem EXCEPT ![req[h].t] = Fresh(0, req[h].t)]
    /\ saved' = "raised"
    /\ req' = [req EXCEPT ![h] = IdleReq]
    /\ UNCHANGED <<file, list, feed, served, made, cycle>>

AcceptStores(h) ==
    /\ req[h].at = "checked" /\ req[h].op = "accept"
    /\ mem' = [mem EXCEPT ![req[h].t] = Fresh(0, req[h].t)]
    /\ file' = mem' /\ saved' = "server"
    /\ req' = [req EXCEPT ![h].at = "save"]
    /\ UNCHANGED <<list, feed, served, made, cycle>>

\* Mutant: the suggestion is marked before its ticket is stored.
MutBeginWrite(h) ==
    /\ req[h].at = "checked" /\ req[h].op \in {"accept", "dismiss", "cp_approve", "cp_reject"}
    /\ list' = [list EXCEPT ![req[h].arg] = Torn]
    /\ req' = [req EXCEPT ![h].at = "torn"]
    /\ UNCHANGED <<mem, file, saved, feed, served, made, cycle>>

\* write_text truncates the file before it writes.
BeginWrite(h) ==
    /\ \/ req[h].at = "save" /\ req[h].op = "accept"
       \/ req[h].at = "checked" /\ req[h].op \in {"dismiss", "cp_approve", "cp_reject"}
    /\ list' = [list EXCEPT ![req[h].arg] = Torn]
    /\ req' = [req EXCEPT ![h].at = "torn"]
    /\ UNCHANGED <<mem, file, saved, feed, served, made, cycle>>

\* The other items are written as they were read.
WriteList(h) ==
    /\ req[h].at = "torn"
    /\ list' = [list EXCEPT ![req[h].arg] =
                  [req[h].snap EXCEPT ![req[h].t] =
                     IF req[h].op \in {"accept", "cp_approve"} THEN "accepted" ELSE "dismissed"]]
    /\ req' = [req EXCEPT ![h] = IdleReq]
    /\ UNCHANGED <<mem, file, saved, feed, served, made, cycle>>

-----------------------------------------------------------------------------
\* Every cycle of the runner loads the file; its saves write all it loaded.
RunnerLoads ==
    /\ DRunner /\ cycle' = file
    /\ UNCHANGED <<mem, file, saved, list, feed, req, served, made>>

RunnerSaves(t) ==
    /\ DRunner /\ cycle[t].on /\ cycle[t].st # "in_development"
    /\ cycle' = [cycle EXCEPT ![t].st = "in_development"]
    /\ file' = cycle' /\ saved' = "runner"
    /\ UNCHANGED <<mem, list, feed, req, served, made>>

DashNext ==
    \/ \E h \in Thread :
         \/ BeginTicketOp(h) \/ Change(h) \/ Add(h)
         \/ CreateTicket(h)
         \/ \E s \in {"skip", "overwrite", "merge"}, dry \in BOOLEAN : ImportTicket(h, s, dry)
         \/ BeginDecision(h) \/ AddFails(h) \/ AcceptStores(h) \/ BeginWrite(h) \/ WriteList(h)
    \/ \E t \in TicketId : ReadFeed(t) \/ RunnerSaves(t)
    \/ RunnerLoads

DashSpec == DashInit /\ [][DashNext]_dashVars

-----------------------------------------------------------------------------
Kept(r) == [r EXCEPT !.note = "none"]

\* When no handler is at work and the server wrote the file last, the file holds
\* what the server shows, though threads change the shared tickets before they
\* store them: no change that was answered with ok waits in memory only.  (The
\* note of a refused resolution is the exception: it stays in memory.)
AnsweredIsSaved ==
    (saved = "server" /\ \A h \in Thread : req[h].at = "idle")
        => \A t \in TicketId : Kept(file[t]) = Kept(mem[t])

\* A suggestion that the file shows as accepted has its ticket, whatever the
\* threads that decide on it, the torn reads and a store that raises do.
AcceptedHasTicket ==
    Readable("suggestions") =>
        \A s \in Item : list["suggestions"][s] = "accepted" => mem[s].on
=============================================================================
