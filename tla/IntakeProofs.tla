---------------------------- MODULE IntakeProofs ----------------------------
(***************************************************************************)
(* Why what comes in and what is written down is right, for any tickets,   *)
(* issues, errors, agents and engines: the records of coding sessions, the *)
(* tickets the log watch files and verifies, those of GitHub's issues, and *)
(* the answer of a pipeline.                                               *)
(***************************************************************************)
EXTENDS Sessions, GitHubSync, LogWatch, ListProofs

-----------------------------------------------------------------------------
(* Sessions: why a finished session names a conversation of the engine.     *)

SessStatus == {"active", "suspended", "completed"}
SessRecord == [id : Nat, ticket : SessTicket, kind : {RoleOf[a] : a \in Agent}, status : SessStatus]
StoreRecord == [read : BOOLEAN, recs : Seq(SessRecord)]
AgentRecord == [step : {"rest", "ready", "running"}, ticket : SessTicket \cup {""}, rec : Nat, resume : Nat,
                attempt : Nat, live : Nat]

SessionsTyped ==
    /\ sfile \in Seq(SessRecord) /\ smem \in [Agent -> StoreRecord] /\ agent \in [Agent -> AgentRecord]
    /\ nextId \in Nat /\ meta \in [SessTicket -> [claude : Nat, dev : Nat]]

\* The store has a record of that id.
Keeps(q, i) == \E k \in DOMAIN q : q[k].id = i

\* An agent at work has read the file and keeps its session's record, and a
\* running engine is in a conversation it has.
WorkIsRecorded ==
    \A a \in Agent : agent[a].step # "rest" =>
        /\ smem[a].read /\ Keeps(smem[a].recs, agent[a].rec) /\ agent[a].ticket \in SessTicket
        /\ agent[a].step = "running" => agent[a].live \in convs

\* The ids a completed record may have: those of the engine's conversations,
\* if the engine tells them.
Known == IF E.tells THEN convs ELSE Nat
NamesConversations(q, C) == \A k \in DOMAIN q : q[k].status = "completed" => q[k].id \in C
TicketsName(m, C) == \A t \in SessTicket : {m[t].claude, m[t].dev} \subseteq C \cup {0}

\* Completed records name conversations, in the file, in the stores that will
\* be written over it, and in the tickets.
RecordsNameConversations ==
    /\ NamesConversations(sfile, Known)
    /\ \A a \in Agent : NamesConversations(smem[a].recs, Known)
    /\ E.tells => TicketsName(meta, convs)

SessionsInv == SessionsTyped /\ WorkIsRecorded /\ RecordsNameConversations

\* Leaving records out.
LEMMA WithoutRecords ==
    ASSUME NEW q \in Seq(SessRecord), NEW I
    PROVE  /\ Without(q, I) \in Seq(SessRecord)
           /\ \A k \in DOMAIN Without(q, I) : \E n \in DOMAIN q : Without(q, I)[k] = q[n]
<1> DEFINE S == {k \in DOMAIN q : q[k].id \notin I}
           r == Sublist(q, S)
           N == Cardinality(S)
<1>1. S \in SUBSET DOMAIN q
    OBVIOUS
<1> HIDE DEF S
<1>2. r \in Seq(SessRecord) /\ DOMAIN r = 1..N
      /\ \E at \in [1..N -> S] : \A k \in 1..N : r[k] = q[at[k]]
    BY <1>1, SublistOf
<1> HIDE DEF r, N
<1>3. \A k \in DOMAIN r : \E n \in DOMAIN q : r[k] = q[n]
    BY <1>1, <1>2
<1> QED
    BY <1>2, <1>3 DEF r, S, Without

\* A record that is moved to the end with another field: the list stays a
\* list of records, and completed ones name conversations as before.
LEMMA AppendRecord ==
    ASSUME NEW q \in Seq(SessRecord), NEW I, NEW r \in SessRecord, NEW C,
           NamesConversations(q, C), r.status = "completed" => r.id \in C
    PROVE  LET s == Append(Without(q, I), r)
           IN  s \in Seq(SessRecord) /\ Keeps(s, r.id) /\ NamesConversations(s, C)
<1> DEFINE w == Without(q, I)
           s == Append(w, r)
<1>1. w \in Seq(SessRecord) /\ \A k \in DOMAIN w : \E n \in DOMAIN q : w[k] = q[n]
    BY WithoutRecords
<1> HIDE DEF w
<1>2. NamesConversations(w, C)
    BY <1>1 DEF NamesConversations
<1>3. s \in Seq(SessRecord) /\ Len(s) = Len(w) + 1 /\ s[Len(w) + 1] = r /\ Len(w) \in Nat
      /\ DOMAIN s = 1..(Len(w) + 1) /\ DOMAIN w = 1..Len(w)
      /\ \A k \in 1..Len(w) : s[k] = w[k]
    BY <1>1
<1> HIDE DEF s
<1>4. NamesConversations(s, C)
    BY <1>2, <1>3 DEF NamesConversations
<1>5. Keeps(s, r.id)
    BY <1>3 DEF Keeps
<1> QED
    BY <1>3, <1>4, <1>5 DEF s, w

\* update_status keeps the store in order; a session may be completed only
\* when the engine has its conversation.
LEMMA StatusSet ==
    ASSUME NEW q \in Seq(SessRecord), NEW i \in Nat, NEW st \in SessStatus, NEW C,
           NamesConversations(q, C), st = "completed" => i \in C
    PROVE  /\ WithStatus(q, i, st) \in Seq(SessRecord)
           /\ NamesConversations(WithStatus(q, i, st), C)
           /\ Keeps(q, i) => Keeps(WithStatus(q, i, st), i)
<1>1. CASE Keeps(q, i)
  <2> DEFINE k == CHOOSE k \in DOMAIN q : q[k].id = i
             r == [q[k] EXCEPT !.status = st]
  <2>1. k \in DOMAIN q /\ q[k].id = i
    BY <1>1 DEF Keeps
  <2>2. q[k] \in SessRecord
    BY <2>1
  <2>3. WithStatus(q, i, st) = Append(Without(q, {i}), r)
    BY <1>1 DEF WithStatus, Keeps
  <2> HIDE DEF k
  <2>4. r \in SessRecord /\ r.id = i /\ r.status = st
    BY <2>1, <2>2 DEF SessRecord
  <2> HIDE DEF r
  <2> QED
    BY <2>3, <2>4, AppendRecord
<1>2. CASE ~Keeps(q, i)
    BY <1>2 DEF WithStatus, Keeps
<1> QED
    BY <1>1, <1>2

\* update_session_id keeps the store in order.
LEMMA IdSet ==
    ASSUME NEW q \in Seq(SessRecord), NEW old \in Nat, Keeps(q, old), NEW new \in Nat, NEW C,
           NamesConversations(q, C), new \in C
    PROVE  /\ Rekeyed(q, old, new) \in Seq(SessRecord)
           /\ NamesConversations(Rekeyed(q, old, new), C)
           /\ Keeps(Rekeyed(q, old, new), new)
<1>1. CASE new = old
    BY <1>1 DEF Rekeyed
<1>2. CASE new # old
  <2> DEFINE k == CHOOSE k \in DOMAIN q : q[k].id = old
             r == [q[k] EXCEPT !.id = new]
  <2>1. k \in DOMAIN q /\ q[k].id = old
    BY DEF Keeps
  <2>2. q[k] \in SessRecord
    BY <2>1
  <2>3. Rekeyed(q, old, new) = Append(Without(q, {old, new}), r)
    BY <1>2 DEF Rekeyed
  <2> HIDE DEF k
  <2>4. r \in SessRecord /\ r.id = new
    BY <2>1, <2>2 DEF SessRecord
  <2> HIDE DEF r
  <2> QED
    BY <2>3, <2>4, AppendRecord
<1> QED
    BY <1>1, <1>2

\* A step of one agent: it goes on as r, with its store as m.
LEMMA AgentStep ==
    ASSUME SessionsInv, NEW a \in Agent, NEW r \in AgentRecord, NEW m \in StoreRecord,
           engine' = engine, convs \subseteq convs', nextId' \in Nat,
           agent' = [agent EXCEPT ![a] = r], smem' = [smem EXCEPT ![a] = m],
           sfile' = sfile \/ sfile' = m.recs, NamesConversations(m.recs, Known),
           r.step # "rest" => m.read /\ Keeps(m.recs, r.rec) /\ r.ticket \in SessTicket,
           r.step = "running" => r.live \in convs',
           meta' \in [SessTicket -> [claude : Nat, dev : Nat]], E.tells => TicketsName(meta', convs')
    PROVE  SessionsInv'
<1>1. m.recs \in Seq(SessRecord)
    BY DEF StoreRecord
<1>2. SessionsTyped'
    BY <1>1 DEF SessionsInv, SessionsTyped
<1>3. E' = E
    BY DEF E
<1>4. Known \subseteq Known'
    BY <1>3 DEF Known
<1>5. \A b \in Agent : agent'[b] = (IF b = a THEN r ELSE agent[b]) /\ smem'[b] = (IF b = a THEN m ELSE smem[b])
    BY DEF SessionsInv, SessionsTyped
<1>6. WorkIsRecorded'
  <2> SUFFICES ASSUME NEW b \in Agent, agent'[b].step # "rest"
               PROVE  /\ smem'[b].read /\ Keeps(smem'[b].recs, agent'[b].rec) /\ agent'[b].ticket \in SessTicket
                      /\ agent'[b].step = "running" => agent'[b].live \in convs'
    BY DEF WorkIsRecorded, Keeps
  <2>1. CASE b = a
    BY <1>5, <2>1
  <2>2. CASE b # a
    BY <1>5, <2>2 DEF SessionsInv, WorkIsRecorded
  <2> QED
    BY <2>1, <2>2
<1>7. NamesConversations(sfile, Known) /\ \A b \in Agent : NamesConversations(smem[b].recs, Known)
    BY DEF SessionsInv, RecordsNameConversations
<1>8. \A q : NamesConversations(q, Known) => NamesConversations(q, Known')
    BY <1>4 DEF NamesConversations
<1>9. RecordsNameConversations'
    BY <1>3, <1>5, <1>7, <1>8 DEF RecordsNameConversations, NamesConversations, TicketsName
<1> QED
    BY <1>2, <1>6, <1>9 DEF SessionsInv

\* What an agent at rest is, and what the agents and stores of the invariant are.
LEMMA SessionFacts ==
    ASSUME SessionsInv
    PROVE  /\ AtRest \in AgentRecord /\ AtRest.step = "rest"
           /\ SessUnread \in StoreRecord /\ \A C : NamesConversations(SessUnread.recs, C)
           /\ \A a \in Agent :
                /\ agent[a] \in AgentRecord /\ smem[a] \in StoreRecord /\ smem[a].recs \in Seq(SessRecord)
                /\ NamesConversations(smem[a].recs, Known)
                /\ RecsOf(a) \in Seq(SessRecord) /\ NamesConversations(RecsOf(a), Known)
                /\ agent[a].step # "rest" => smem[a].read /\ Keeps(smem[a].recs, agent[a].rec)
                                             /\ agent[a].ticket \in SessTicket
                /\ agent[a].step = "running" => RealId(a) \in Known /\ RealId(a) \in Nat
                                                /\ agent[a].live \in convs
                                                /\ (E.tells => RealId(a) \in convs)
           /\ meta \in [SessTicket -> [claude : Nat, dev : Nat]] /\ (E.tells => TicketsName(meta, convs))
           /\ nextId \in Nat /\ nextId + 1 \in Nat
<1>1. AtRest \in AgentRecord /\ AtRest.step = "rest"
    BY DEF AtRest, AgentRecord
<1>2. SessUnread \in StoreRecord /\ SessUnread.recs = <<>>
    BY DEF SessUnread, StoreRecord
<1>3. \A C : NamesConversations(SessUnread.recs, C)
    BY <1>2 DEF NamesConversations
<1>4. \A a \in Agent : agent[a] \in AgentRecord /\ smem[a] \in StoreRecord
    BY DEF SessionsInv, SessionsTyped
<1>5. \A a \in Agent : smem[a].recs \in Seq(SessRecord) /\ NamesConversations(smem[a].recs, Known)
    BY <1>4 DEF StoreRecord, SessionsInv, RecordsNameConversations
<1>6. sfile \in Seq(SessRecord) /\ NamesConversations(sfile, Known)
    BY DEF SessionsInv, SessionsTyped, RecordsNameConversations
<1>7. \A a \in Agent : RecsOf(a) \in Seq(SessRecord) /\ NamesConversations(RecsOf(a), Known)
    BY <1>5, <1>6 DEF RecsOf
<1>8. \A a \in Agent : agent[a].step # "rest" =>
          /\ smem[a].read /\ Keeps(smem[a].recs, agent[a].rec) /\ agent[a].ticket \in SessTicket
          /\ agent[a].step = "running" => agent[a].live \in convs
    BY DEF SessionsInv, WorkIsRecorded
<1>9. ASSUME NEW a \in Agent, agent[a].step = "running"
      PROVE  /\ RealId(a) \in Known /\ RealId(a) \in Nat /\ agent[a].live \in convs
             /\ E.tells => RealId(a) \in convs
  <2>1. agent[a].live \in Nat /\ agent[a].rec \in Nat
    BY <1>4 DEF AgentRecord
  <2>2. agent[a].live \in convs
    BY <1>8, <1>9
  <2> QED
    BY <2>1, <2>2 DEF RealId, Known
<1>10. /\ meta \in [SessTicket -> [claude : Nat, dev : Nat]] /\ (E.tells => TicketsName(meta, convs))
       /\ nextId \in Nat /\ nextId + 1 \in Nat
    BY DEF SessionsInv, SessionsTyped, RecordsNameConversations
<1> QED
    BY <1>1, <1>2, <1>3, <1>4, <1>5, <1>7, <1>8, <1>9, <1>10

\* An agent's record of which fields are set.
LEMMA AgentSet ==
    ASSUME NEW r \in AgentRecord
    PROVE  /\ \A st \in {"ready", "running"} : LET s == [r EXCEPT !.step = st] IN
                 s \in AgentRecord /\ s.step = st /\ s.rec = r.rec /\ s.ticket = r.ticket /\ s.live = r.live
           /\ \A n \in Nat :
                /\ LET s == [r EXCEPT !.live = n] IN
                     s \in AgentRecord /\ s.step = r.step /\ s.rec = r.rec /\ s.ticket = r.ticket /\ s.live = n
                /\ LET s == [r EXCEPT !.rec = n] IN
                     s \in AgentRecord /\ s.step = r.step /\ s.rec = n /\ s.ticket = r.ticket
                /\ LET s == [r EXCEPT !.resume = n] IN
                     s \in AgentRecord /\ s.step = r.step /\ s.rec = r.rec /\ s.ticket = r.ticket /\ s.live = r.live
                /\ LET s == [r EXCEPT !.attempt = n] IN
                     s \in AgentRecord /\ s.step = r.step /\ s.rec = r.rec /\ s.ticket = r.ticket /\ s.live = r.live
           /\ \A t \in SessTicket : LET s == [r EXCEPT !.ticket = t] IN
                s \in AgentRecord /\ s.step = r.step /\ s.ticket = t
BY DEF AgentRecord

\* An agent takes up a ticket, with a suspended session or a new one.
LEMMA BeginInv == ASSUME SessionsInv, NEW a \in Agent, NEW t \in SessTicket, Begin(a, t) PROVE SessionsInv'
<1> DEFINE q == RecsOf(a)
           S == {k \in DOMAIN q : q[k].ticket = t /\ q[k].kind = RoleOf[a] /\ q[k].status = "suspended"}
           found == Suspended(a, t)
<1>0. q \in Seq(SessRecord) /\ NamesConversations(q, Known) /\ AtRest \in AgentRecord
    BY SessionFacts
<1>m. UNCHANGED <<engine, convs, meta>>
    BY DEF Begin
<1>1. CASE found # <<>>
  <2>1. found = Sublist(q, S)
    BY <1>1 DEF Suspended
  <2>2. S \in SUBSET DOMAIN q
    OBVIOUS
  <2> DEFINE N == Cardinality(S)
             i == Last(found).id
             w == WithStatus(q, i, "active")
             a1 == [AtRest EXCEPT !.step = "ready"]
             a2 == [a1 EXCEPT !.ticket = t]
             a3 == [a2 EXCEPT !.rec = i]
             r == [a3 EXCEPT !.resume = i]
             m == [read |-> TRUE, recs |-> w]
  <2>9. sfile' = w /\ smem' = [smem EXCEPT ![a] = m] /\ agent' = [agent EXCEPT ![a] = r] /\ nextId' = nextId
    BY <1>1 DEF Begin, Saved
  <2> HIDE DEF S, q
  <2> HIDE DEF found
  <2>15. LET f == Sublist(q, S)
         IN  /\ f \in Seq(SessRecord) /\ N \in Nat /\ Len(f) = N
             /\ \E at \in [1..N -> S] : \A k \in 1..N : f[k] = q[at[k]]
    BY <1>0, <2>2, SublistOf
  <2>3. /\ found \in Seq(SessRecord) /\ N \in Nat /\ Len(found) = N
        /\ \E at \in [1..N -> S] : \A k \in 1..N : found[k] = q[at[k]]
    BY <2>1, <2>15
  <2>4. N # 0
    BY <1>1, <2>3
  <2>5. Last(found) = found[N]
    BY <2>3 DEF Last
  <2> HIDE DEF N
  <2>6. \E n \in DOMAIN q : Last(found) = q[n]
    BY <2>2, <2>3, <2>4, <2>5
  <2>7. i \in Nat /\ Keeps(q, i)
    <3>1. PICK n \in DOMAIN q : Last(found) = q[n]
      BY <2>6
    <3>2. q[n] \in SessRecord
      BY <1>0
    <3>3. i = q[n].id
      BY <3>1
    <3>4. i \in Nat
      BY <3>2, <3>3 DEF SessRecord
    <3> QED
      BY <3>3, <3>4 DEF Keeps
  <2> HIDE DEF i
  <2>8. w \in Seq(SessRecord) /\ NamesConversations(w, Known) /\ Keeps(w, i)
    BY <1>0, <2>7, StatusSet DEF SessStatus
  <2> HIDE DEF w
  <2>10. m \in StoreRecord /\ m.read /\ m.recs = w
    BY <2>8 DEF StoreRecord
  <2> HIDE DEF m
  <2>11. a1 \in AgentRecord /\ a1.step = "ready"
    BY <1>0, AgentSet
  <2> HIDE DEF a1
  <2>12. a2 \in AgentRecord /\ a2.step = "ready" /\ a2.ticket = t
    BY <2>11, AgentSet
  <2> HIDE DEF a2
  <2>13. a3 \in AgentRecord /\ a3.step = "ready" /\ a3.ticket = t /\ a3.rec = i
    BY <2>12, <2>7, AgentSet
  <2> HIDE DEF a3
  <2>14. r \in AgentRecord /\ r.step = "ready" /\ r.ticket = t /\ r.rec = i
    BY <2>13, <2>7, AgentSet
  <2> HIDE DEF r
  <2> QED
    BY <1>m, <2>8, <2>9, <2>10, <2>14, AgentStep, SessionFacts
<1>2. CASE found = <<>>
  <2> DEFINE n == nextId
             x == [id |-> n, ticket |-> t, kind |-> RoleOf[a], status |-> "active"]
             w == Append(q, x)
             a1 == [AtRest EXCEPT !.step = "ready"]
             a2 == [a1 EXCEPT !.ticket = t]
             r == [a2 EXCEPT !.rec = n]
             m == [read |-> TRUE, recs |-> w]
  <2>1. sfile' = w /\ smem' = [smem EXCEPT ![a] = m] /\ agent' = [agent EXCEPT ![a] = r] /\ nextId' = nextId + 1
    BY <1>2 DEF Begin, Saved
  <2>2. n \in Nat /\ nextId + 1 \in Nat
    BY SessionFacts
  <2> HIDE DEF q, found, n
  <2>3. x \in SessRecord /\ x.id = n /\ x.status = "active"
    BY <2>2 DEF SessRecord, SessStatus
  <2> HIDE DEF x
  <2>4. /\ w \in Seq(SessRecord) /\ Len(q) \in Nat /\ w[Len(q) + 1] = x /\ DOMAIN w = 1..(Len(q) + 1)
        /\ DOMAIN q = 1..Len(q) /\ \A k \in 1..Len(q) : w[k] = q[k]
    BY <1>0, <2>3
  <2> HIDE DEF w
  <2>5. NamesConversations(w, Known) /\ Keeps(w, n)
    BY <1>0, <2>3, <2>4 DEF NamesConversations, Keeps
  <2>10. m \in StoreRecord /\ m.read /\ m.recs = w
    BY <2>4 DEF StoreRecord
  <2> HIDE DEF m
  <2>11. a1 \in AgentRecord /\ a1.step = "ready"
    BY <1>0, AgentSet
  <2> HIDE DEF a1
  <2>12. a2 \in AgentRecord /\ a2.step = "ready" /\ a2.ticket = t
    BY <2>11, AgentSet
  <2> HIDE DEF a2
  <2>13. r \in AgentRecord /\ r.step = "ready" /\ r.ticket = t /\ r.rec = n
    BY <2>12, <2>2, AgentSet
  <2> HIDE DEF r
  <2> QED
    BY <1>m, <2>1, <2>2, <2>5, <2>10, <2>13, AgentStep, SessionFacts
<1> QED
    BY <1>1, <1>2

\* An agent goes to rest, whatever it has stored.
LEMMA RestInv ==
    ASSUME SessionsInv, NEW a \in Agent, NEW m \in StoreRecord, NamesConversations(m.recs, Known),
           agent' = [agent EXCEPT ![a] = AtRest], smem' = [smem EXCEPT ![a] = m],
           sfile' = sfile \/ sfile' = m.recs, UNCHANGED <<engine, convs, nextId>>,
           meta' \in [SessTicket -> [claude : Nat, dev : Nat]], E.tells => TicketsName(meta', convs)
    PROVE  SessionsInv'
BY AgentStep, SessionFacts

\* An agent goes on without touching its store.
LEMMA GoesOnInv ==
    ASSUME SessionsInv, NEW a \in Agent, NEW r \in AgentRecord, agent[a].step # "rest",
           agent' = [agent EXCEPT ![a] = r], r.rec = agent[a].rec, r.ticket = agent[a].ticket,
           r.step = "running" => r.live \in convs',
           convs \subseteq convs', nextId' \in Nat, UNCHANGED <<engine, sfile, smem, meta>>
    PROVE  SessionsInv'
<1>1. smem' = [smem EXCEPT ![a] = smem[a]]
    BY DEF SessionsInv, SessionsTyped
<1>2. meta' \in [SessTicket -> [claude : Nat, dev : Nat]] /\ (E.tells => TicketsName(meta', convs'))
    BY SessionFacts DEF TicketsName
<1> QED
    BY <1>1, <1>2, AgentStep, SessionFacts

\* The engine starts in a conversation.
LEMMA ConversationInv ==
    ASSUME SessionsInv, NEW a \in Agent, agent[a].step # "rest", NEW c \in Nat, InConversation(a, c), c \in convs',
           convs \subseteq convs', nextId' \in Nat, UNCHANGED <<engine, sfile, smem, meta>>
    PROVE  SessionsInv'
<1> DEFINE b == [agent[a] EXCEPT !.step = "running"]
           r == [b EXCEPT !.live = c]
<1>1. agent' = [agent EXCEPT ![a] = r]
    BY DEF InConversation, SessionsInv, SessionsTyped
<1>2. b \in AgentRecord /\ b.rec = agent[a].rec /\ b.ticket = agent[a].ticket
    BY SessionFacts, AgentSet
<1> HIDE DEF b
<1>3. r \in AgentRecord /\ r.rec = agent[a].rec /\ r.ticket = agent[a].ticket /\ r.live = c
    BY <1>2, AgentSet
<1> HIDE DEF r
<1> QED
    BY <1>1, <1>3, GoesOnInv

\* A developer's next attempt, with its record under an id the store keeps.
LEMMA NextAttemptInv ==
    ASSUME SessionsInv, NEW a \in Agent, agent[a].step # "rest", NEW i \in Nat, NextAttempt(a, i),
           NEW m \in StoreRecord, NamesConversations(m.recs, Known), m.read, Keeps(m.recs, i),
           smem' = [smem EXCEPT ![a] = m], sfile' = sfile \/ sfile' = m.recs, UNCHANGED <<engine, convs, nextId>>,
           meta' \in [SessTicket -> [claude : Nat, dev : Nat]], E.tells => TicketsName(meta', convs)
    PROVE  SessionsInv'
<1> DEFINE n == agent[a].attempt + 1
           b == [agent[a] EXCEPT !.step = "ready"]
           c == [b EXCEPT !.attempt = n]
           d == [c EXCEPT !.rec = i]
           r == [d EXCEPT !.live = 0]
<1>1. agent' = [agent EXCEPT ![a] = AtRest] \/ agent' = [agent EXCEPT ![a] = r]
    BY DEF NextAttempt
<1>9. agent[a] \in AgentRecord /\ agent[a].ticket \in SessTicket
    BY SessionFacts
<1>2. n \in Nat /\ agent[a] \in AgentRecord /\ agent[a].ticket \in SessTicket
  <2>1. agent[a].attempt \in Nat
    BY <1>9 DEF AgentRecord
  <2> QED
    BY <1>9, <2>1
<1> HIDE DEF n
<1>3. b \in AgentRecord /\ b.step = "ready" /\ b.ticket = agent[a].ticket
    BY <1>2, AgentSet
<1> HIDE DEF b
<1>4. c \in AgentRecord /\ c.step = "ready" /\ c.ticket = agent[a].ticket
    BY <1>2, <1>3, AgentSet
<1> HIDE DEF c
<1>5. d \in AgentRecord /\ d.step = "ready" /\ d.ticket = agent[a].ticket /\ d.rec = i
    BY <1>4, AgentSet
<1> HIDE DEF d
<1>6. r \in AgentRecord /\ r.step = "ready" /\ r.ticket = agent[a].ticket /\ r.rec = i
    BY <1>5 DEF AgentRecord
<1> HIDE DEF r
<1>7. CASE agent' = [agent EXCEPT ![a] = AtRest]
    BY <1>7, RestInv
<1>8. CASE agent' = [agent EXCEPT ![a] = r]
    BY <1>2, <1>6, <1>8, AgentStep, SessionFacts
<1> QED
    BY <1>1, <1>7, <1>8

\* The runs that start: resumed, fresh, or with the local model.
LEMMA StartsInv ==
    ASSUME SessionsInv, NEW a \in Agent, StartRun(a) \/ LocalModel(a) \/ ResumeUnknown(a)
    PROVE  SessionsInv'
<1>0. agent[a] \in AgentRecord /\ agent[a].step # "rest" /\ nextId \in Nat /\ nextId + 1 \in Nat
    BY SessionFacts DEF StartRun, LocalModel, ResumeUnknown
<1>1. ASSUME NEW c \in Nat, InConversation(a, c), c \in convs', convs \subseteq convs', nextId' \in Nat,
             UNCHANGED <<engine, sfile, smem, meta>>
      PROVE  SessionsInv'
    BY <1>0, <1>1, ConversationInv
<1>2. CASE StartRun(a)
  <2>1. Resuming(a) \in Nat /\ Named(a) \in Nat
    <3>1. agent[a].resume \in Nat /\ agent[a].rec \in Nat /\ agent[a].ticket \in SessTicket
      BY <1>0, SessionFacts DEF AgentRecord
    <3>2. meta[agent[a].ticket].dev \in Nat
      BY <3>1, SessionFacts
    <3> QED
      BY <3>1, <3>2 DEF Resuming, Named
  <2>2. UNCHANGED <<engine, sfile, smem, meta>>
    BY <1>2 DEF StartRun
  <2>3. CASE Resuming(a) \in convs /\ InConversation(a, Resuming(a)) /\ UNCHANGED <<convs, nextId>>
    BY <1>0, <1>1, <2>1, <2>2, <2>3
  <2>4. CASE Fresh(a, Named(a))
    <3>1. PICK c \in {nextId, Named(a)} :
              InConversation(a, c) /\ c \in convs' /\ convs \subseteq convs' /\ nextId' \in {nextId, nextId + 1}
      BY <2>4 DEF Fresh
    <3> QED
      BY <1>0, <1>1, <2>1, <2>2, <3>1
  <2> QED
    BY <1>2, <2>3, <2>4 DEF StartRun
<1>3. CASE LocalModel(a)
  <2> DEFINE b == [agent[a] EXCEPT !.step = "running"]
             c == [b EXCEPT !.live = nextId]
             r == [c EXCEPT !.attempt = 1]
  <2>1. agent' = [agent EXCEPT ![a] = r]
    BY <1>3 DEF LocalModel, SessionsInv, SessionsTyped
  <2>2. b \in AgentRecord /\ b.rec = agent[a].rec /\ b.ticket = agent[a].ticket
    BY <1>0, AgentSet
  <2> HIDE DEF b
  <2>3. c \in AgentRecord /\ c.rec = agent[a].rec /\ c.ticket = agent[a].ticket /\ c.live = nextId
    BY <1>0, <2>2, AgentSet
  <2> HIDE DEF c
  <2>4. r \in AgentRecord /\ r.rec = agent[a].rec /\ r.ticket = agent[a].ticket /\ r.live = nextId
    BY <2>3 DEF AgentRecord
  <2> HIDE DEF r
  <2>5. convs' = convs \cup {nextId} /\ nextId' = nextId + 1 /\ UNCHANGED <<engine, sfile, smem, meta>>
    BY <1>3 DEF LocalModel
  <2> QED
    BY <1>0, <2>1, <2>4, <2>5, GoesOnInv
<1>4. CASE ResumeUnknown(a)
  <2> DEFINE r == [agent[a] EXCEPT !.resume = 0]
  <2>1. agent' = [agent EXCEPT ![a] = r] /\ agent[a].step = "ready" /\ UNCHANGED <<engine, sfile, smem, convs, nextId, meta>>
    BY <1>4 DEF ResumeUnknown
  <2>2. r \in AgentRecord /\ r.rec = agent[a].rec /\ r.ticket = agent[a].ticket /\ r.step = agent[a].step
    BY <1>0 DEF AgentRecord
  <2> HIDE DEF r
  <2> QED
    BY <1>0, <2>1, <2>2, GoesOnInv
<1> QED
    BY <1>2, <1>3, <1>4

\* Every active session of a ticket is suspended.
LEMMA SuspendedAll ==
    ASSUME NEW q \in Seq(SessRecord), NEW t, NEW C, NamesConversations(q, C)
    PROVE  SuspendAll(q, t) \in Seq(SessRecord) /\ NamesConversations(SuspendAll(q, t), C)
<1> DEFINE sus(k) == [q[k] EXCEPT !.status = "suspended"]
           s == SuspendAll(q, t)
<1>1. \A k \in DOMAIN q : q[k] \in SessRecord
    OBVIOUS
<1>2. \A k \in DOMAIN q : sus(k) \in SessRecord /\ sus(k).status = "suspended"
    BY <1>1 DEF SessRecord, SessStatus
<1>3. s = [k \in DOMAIN q |-> IF q[k].ticket = t /\ q[k].status = "active" THEN sus(k) ELSE q[k]]
    BY DEF SuspendAll
<1> HIDE DEF sus
<1>4. \A k \in DOMAIN q : s[k] \in SessRecord /\ (s[k] = q[k] \/ s[k].status = "suspended")
    BY <1>1, <1>2, <1>3
<1>5. DOMAIN s = DOMAIN q /\ s = [k \in DOMAIN q |-> s[k]]
    BY <1>3
<1> HIDE DEF s
<1>6. s \in Seq(SessRecord)
    BY <1>4, <1>5
<1>7. NamesConversations(s, C)
    BY <1>4, <1>5 DEF NamesConversations
<1> QED
    BY <1>6, <1>7 DEF s

\* The ids an engine reports are written into the ticket.
LEMMA TicketNamed ==
    ASSUME SessionsInv, NEW t \in SessTicket, NEW i \in Nat, E.tells => i \in convs, NEW m,
           m = [meta EXCEPT ![t].claude = i] \/ m = [meta EXCEPT ![t].dev = i]
    PROVE  m \in [SessTicket -> [claude : Nat, dev : Nat]] /\ (E.tells => TicketsName(m, convs))
<1>1. meta \in [SessTicket -> [claude : Nat, dev : Nat]] /\ (E.tells => TicketsName(meta, convs))
    BY SessionFacts
<1> QED
    BY <1>1 DEF TicketsName

\* An agent's store is written: the record that says so.
LEMMA SavedStore ==
    ASSUME NEW a \in Agent, NEW q \in Seq(SessRecord), Saved(a, q)
    PROVE  \E m \in StoreRecord : m.read /\ m.recs = q /\ smem' = [smem EXCEPT ![a] = m] /\ sfile' = m.recs
<1> DEFINE m == [read |-> TRUE, recs |-> q]
<1>1. m \in StoreRecord /\ m.read /\ m.recs = q
    BY DEF StoreRecord
<1>2. smem' = [smem EXCEPT ![a] = m] /\ sfile' = q
    BY DEF Saved
<1> HIDE DEF m
<1> QED
    BY <1>1, <1>2

\* A session that ends with a result: the record gets the engine's id.
LEMMA FinishedInv ==
    ASSUME SessionsInv, NEW a \in Agent, Investigated(a) \/ Developed(a) PROVE SessionsInv'
<1> DEFINE real == RealId(a)
           q == smem[a].recs
           recs == Rekeyed(q, agent[a].rec, real)
           done == WithStatus(recs, real, "completed")
<1>0. /\ agent[a].step = "running" /\ agent[a] \in AgentRecord /\ agent[a].ticket \in SessTicket
      /\ real \in Known /\ real \in Nat /\ (E.tells => real \in convs)
      /\ q \in Seq(SessRecord) /\ NamesConversations(q, Known) /\ Keeps(q, agent[a].rec)
    BY SessionFacts DEF Investigated, Developed
<1>1. agent[a].rec \in Nat
    BY <1>0 DEF AgentRecord
<1>2. UNCHANGED <<engine, convs, nextId>>
    BY DEF Investigated, Developed
<1>3. \/ /\ Saved(a, done) /\ agent' = [agent EXCEPT ![a] = AtRest]
      \/ Saved(a, recs) /\ NextAttempt(a, real)
    BY DEF Investigated, Developed
<1>4. \/ meta' = [meta EXCEPT ![agent[a].ticket].claude = real]
      \/ meta' = [meta EXCEPT ![agent[a].ticket].dev = real]
      \/ meta' = meta
  <2>1. CASE Investigated(a)
    BY <2>1 DEF Investigated
  <2>2. CASE Developed(a)
    <3>1. meta' = [meta EXCEPT ![agent[a].ticket].dev = IF E.tells THEN real ELSE @]
      BY <2>2 DEF Developed
    <3>2. CASE E.tells
      BY <3>1, <3>2
    <3>3. CASE ~E.tells
      <4>1. meta' = meta
        BY <1>0, <3>1, <3>3, SessionFacts
      <4> QED
        BY <4>1
    <3> QED
      BY <3>2, <3>3
  <2> QED
    BY <2>1, <2>2
<1> HIDE DEF real, q
<1>5. meta' \in [SessTicket -> [claude : Nat, dev : Nat]] /\ (E.tells => TicketsName(meta', convs))
  <2>1. CASE meta' = meta
    BY <2>1, SessionFacts
  <2>2. CASE meta' # meta
    BY <1>0, <1>4, <2>2, TicketNamed
  <2> QED
    BY <2>1, <2>2
<1>6. recs \in Seq(SessRecord) /\ NamesConversations(recs, Known) /\ Keeps(recs, real)
    BY <1>0, <1>1, IdSet
<1> HIDE DEF recs
<1>7. done \in Seq(SessRecord) /\ NamesConversations(done, Known)
    BY <1>0, <1>6, StatusSet DEF SessStatus
<1> HIDE DEF done
<1>8. CASE Saved(a, done) /\ agent' = [agent EXCEPT ![a] = AtRest]
  <2>1. PICK m \in StoreRecord : m.recs = done /\ smem' = [smem EXCEPT ![a] = m] /\ sfile' = m.recs
    BY <1>7, <1>8, SavedStore
  <2> QED
    BY <1>2, <1>5, <1>7, <1>8, <2>1, RestInv
<1>9. CASE Saved(a, recs) /\ NextAttempt(a, real)
  <2>1. PICK m \in StoreRecord : m.read /\ m.recs = recs /\ smem' = [smem EXCEPT ![a] = m] /\ sfile' = m.recs
    BY <1>6, <1>9, SavedStore
  <2> QED
    BY <1>0, <1>2, <1>5, <1>6, <1>9, <2>1, NextAttemptInv
<1> QED
    BY <1>3, <1>8, <1>9

\* A session that is suspended: a failed investigation, a time limit or a
\* rate limit.
LEMMA StoppedInv ==
    ASSUME SessionsInv, NEW a \in Agent,
           InvestigationStops(a) \/ DevTimeboxEnds(a) \/ DevelopmentRateLimited(a)
    PROVE  SessionsInv'
<1> DEFINE q == smem[a].recs
           w == WithStatus(q, agent[a].rec, "suspended")
           s == SuspendAll(q, agent[a].ticket)
<1>0. /\ agent[a].step # "rest" /\ agent[a] \in AgentRecord /\ nextId \in Nat /\ nextId + 1 \in Nat
      /\ q \in Seq(SessRecord) /\ NamesConversations(q, Known) /\ Keeps(q, agent[a].rec)
    BY SessionFacts DEF InvestigationStops, DevTimeboxEnds, DevelopmentRateLimited
<1>1. agent[a].rec \in Nat
    BY <1>0 DEF AgentRecord
<1>2. meta \in [SessTicket -> [claude : Nat, dev : Nat]] /\ (E.tells => TicketsName(meta, convs))
    BY SessionFacts
<1>3. \/ /\ Saved(a, s) \/ Saved(a, w)
         /\ agent' = [agent EXCEPT ![a] = AtRest] /\ UNCHANGED <<engine, convs, nextId, meta>>
      \/ /\ Saved(a, w) /\ NextAttempt(a, agent[a].rec) /\ UNCHANGED <<engine, convs, nextId, meta>>
      \/ /\ InConversation(a, nextId) /\ nextId' = nextId + 1 /\ convs' = convs \cup {nextId}
         /\ UNCHANGED <<engine, sfile, smem, meta>>
    BY DEF InvestigationStops, DevTimeboxEnds, DevelopmentRateLimited
<1> HIDE DEF q
<1>4. w \in Seq(SessRecord) /\ NamesConversations(w, Known) /\ Keeps(w, agent[a].rec)
    BY <1>0, <1>1, StatusSet DEF SessStatus
<1>5. s \in Seq(SessRecord) /\ NamesConversations(s, Known)
    BY <1>0, SuspendedAll
<1> HIDE DEF w, s
<1>6. ASSUME NEW v \in {s, w}, Saved(a, v), agent' = [agent EXCEPT ![a] = AtRest],
             UNCHANGED <<engine, convs, nextId, meta>>
      PROVE  SessionsInv'
  <2>1. v \in Seq(SessRecord) /\ NamesConversations(v, Known)
    BY <1>4, <1>5
  <2>2. PICK m \in StoreRecord : m.recs = v /\ smem' = [smem EXCEPT ![a] = m] /\ sfile' = m.recs
    BY <1>6, <2>1, SavedStore
  <2> QED
    BY <1>2, <1>6, <2>1, <2>2, RestInv
<1>7. CASE Saved(a, w) /\ NextAttempt(a, agent[a].rec) /\ UNCHANGED <<engine, convs, nextId, meta>>
  <2>1. PICK m \in StoreRecord : m.read /\ m.recs = w /\ smem' = [smem EXCEPT ![a] = m] /\ sfile' = m.recs
    BY <1>4, <1>7, SavedStore
  <2> QED
    BY <1>0, <1>1, <1>2, <1>4, <1>7, <2>1, NextAttemptInv
<1>8. CASE /\ InConversation(a, nextId) /\ nextId' = nextId + 1 /\ convs' = convs \cup {nextId}
           /\ UNCHANGED <<engine, sfile, smem, meta>>
    BY <1>0, <1>8, ConversationInv
<1> QED
    BY <1>3, <1>6, <1>7, <1>8

\* The steps that leave the store of an agent, or all of them, behind.
LEMMA LeftInv ==
    ASSUME SessionsInv,
           \/ \E a \in Agent : NewAgent(a) \/ Cooling(a) \/ DevelopmentFails(a)
           \/ ProcessKilled \/ UNCHANGED sessVars
    PROVE  SessionsInv'
<1>f. /\ smem = [b \in Agent |-> smem[b]] /\ agent = [b \in Agent |-> agent[b]]
      /\ meta \in [SessTicket -> [claude : Nat, dev : Nat]] /\ (E.tells => TicketsName(meta, convs))
    BY SessionFacts DEF SessionsInv, SessionsTyped
<1>1. ASSUME NEW a \in Agent, NewAgent(a) PROVE SessionsInv'
  <2>1. agent[a].step = "rest" /\ smem' = [smem EXCEPT ![a] = SessUnread]
        /\ UNCHANGED <<engine, sfile, convs, nextId, agent, meta>>
    BY <1>1 DEF NewAgent
  <2>2. agent' = [agent EXCEPT ![a] = agent[a]]
    BY <1>f, <2>1
  <2>3. SessUnread \in StoreRecord /\ NamesConversations(SessUnread.recs, Known) /\ agent[a] \in AgentRecord
    BY SessionFacts
  <2> QED
    BY <1>f, <2>1, <2>2, <2>3, AgentStep, SessionFacts
<1>2. ASSUME NEW a \in Agent, Cooling(a) PROVE SessionsInv'
  <2>1. agent' = [agent EXCEPT ![a] = AtRest] /\ UNCHANGED <<engine, sfile, smem, convs, nextId, meta>>
    BY <1>2 DEF Cooling
  <2>2. smem' = [smem EXCEPT ![a] = smem[a]]
    BY <1>f, <2>1
  <2> QED
    BY <1>f, <2>1, <2>2, RestInv, SessionFacts
<1>3. ASSUME NEW a \in Agent, DevelopmentFails(a) PROVE SessionsInv'
  <2>1. agent[a].step # "rest" /\ NextAttempt(a, agent[a].rec) /\ UNCHANGED <<engine, sfile, smem, convs, nextId, meta>>
    BY <1>3 DEF DevelopmentFails
  <2>2. smem' = [smem EXCEPT ![a] = smem[a]]
    BY <1>f, <2>1
  <2>3. agent[a] \in AgentRecord /\ smem[a] \in StoreRecord /\ NamesConversations(smem[a].recs, Known)
        /\ smem[a].read /\ Keeps(smem[a].recs, agent[a].rec)
    BY <2>1, SessionFacts
  <2>4. agent[a].rec \in Nat
    BY <2>3 DEF AgentRecord
  <2> QED
    BY <1>f, <2>1, <2>2, <2>3, <2>4, NextAttemptInv
<1>4. CASE ProcessKilled
  <2>1. /\ agent' = [a \in Agent |-> AtRest] /\ smem' = [a \in Agent |-> SessUnread]
        /\ UNCHANGED <<engine, sfile, convs, nextId, meta>>
    BY <1>4 DEF ProcessKilled
  <2>2. AtRest \in AgentRecord /\ AtRest.step = "rest" /\ SessUnread \in StoreRecord
    BY SessionFacts
  <2>3. SessionsTyped'
    BY <2>1, <2>2 DEF SessionsInv, SessionsTyped
  <2>4. WorkIsRecorded'
    BY <2>1, <2>2 DEF WorkIsRecorded
  <2>5. E' = E /\ Known' = Known
    BY <2>1 DEF E, Known
  <2>6. NamesConversations(SessUnread.recs, Known) /\ NamesConversations(sfile, Known)
    BY SessionFacts DEF SessionsInv, RecordsNameConversations
  <2>7. RecordsNameConversations'
    BY <1>f, <2>1, <2>5, <2>6 DEF RecordsNameConversations, NamesConversations, TicketsName
  <2> QED
    BY <2>3, <2>4, <2>7 DEF SessionsInv
<1>5. CASE UNCHANGED sessVars
    BY <1>5 DEF sessVars, SessionsInv, SessionsTyped, WorkIsRecorded, RecordsNameConversations, E, Known,
                NamesConversations, TicketsName, Keeps
<1> QED
    BY <1>1, <1>2, <1>3, <1>4, <1>5

\* What is written down of a finished session, in the file or in a ticket,
\* names a conversation the engine has, whatever agents, engines and attempts
\* there are (update_session_id and update_status of session_store.py, called
\* by investigator.py and developer.py).
THEOREM FinishedSessionsAreReal == SessionsSpec => []FinishedSessionsExist
<1>1. SessionsInit => SessionsInv
  <2> SUFFICES ASSUME SessionsInit PROVE SessionsInv
    OBVIOUS
  <2>1. AtRest \in AgentRecord /\ AtRest.step = "rest"
    BY DEF AtRest, AgentRecord
  <2>2. SessUnread \in StoreRecord /\ SessUnread.recs = <<>>
    BY DEF SessUnread, StoreRecord
  <2>3. SessionsTyped
    BY <2>1, <2>2 DEF SessionsInit, SessionsTyped
  <2>4. WorkIsRecorded
    BY <2>1 DEF SessionsInit, WorkIsRecorded
  <2>5. RecordsNameConversations
    BY <2>2 DEF SessionsInit, RecordsNameConversations, NamesConversations, TicketsName
  <2> QED
    BY <2>3, <2>4, <2>5 DEF SessionsInv
<1>2. SessionsInv /\ [SessionsNext]_sessVars => SessionsInv'
    BY BeginInv, StartsInv, FinishedInv, StoppedInv, LeftInv DEF SessionsNext
<1>3. SessionsInv => FinishedSessionsExist
    BY DEF SessionsInv, RecordsNameConversations, NamesConversations, TicketsName, Known, FinishedSessionsExist
<1> QED
    BY <1>1, <1>2, <1>3, PTL DEF SessionsSpec

-----------------------------------------------------------------------------
(* The log watch: why an error is filed once and no recurrence is missed.   *)

SlotShape(r) ==
    r = [status |-> r.status, fp |-> r.fp, parent |-> r.parent, sev |-> r.sev, regressions |-> r.regressions,
         age |-> r.age, written |-> r.written, recurred |-> r.recurred]

\* A ticket with these values, whatever its numbers are.
IsSlot(r, st, f, p, w, c) ==
    SlotShape(r) /\ r.status = st /\ r.fp = f /\ r.parent = p /\ r.written = w /\ r.recurred = c

\* An error that recurred is in a log that was written since.
RecurrenceShows(r, L) == r.recurred => r.fp \in L /\ r.written

LogInv ==
    /\ slots = [i \in Slot |-> slots[i]]
    /\ \A i \in Slot : SlotShape(slots[i])
    /\ \A i \in Slot : RecurrenceShows(slots[i], inlog)
    /\ OneTicketPerError
    /\ \A i \in toVerify : i \in Slot /\ slots[i].status = "verifying"

\* A ticket of which one field is set.
LEMMA SlotSet ==
    ASSUME NEW r, SlotShape(r), NEW v
    PROVE  /\ IsSlot([r EXCEPT !.status = v], v, r.fp, r.parent, r.written, r.recurred)
           /\ IsSlot([r EXCEPT !.fp = v], r.status, v, r.parent, r.written, r.recurred)
           /\ IsSlot([r EXCEPT !.parent = v], r.status, r.fp, v, r.written, r.recurred)
           /\ IsSlot([r EXCEPT !.sev = v], r.status, r.fp, r.parent, r.written, r.recurred)
           /\ IsSlot([r EXCEPT !.regressions = v], r.status, r.fp, r.parent, r.written, r.recurred)
           /\ IsSlot([r EXCEPT !.age = v], r.status, r.fp, r.parent, r.written, r.recurred)
           /\ IsSlot([r EXCEPT !.written = v], r.status, r.fp, r.parent, v, r.recurred)
           /\ IsSlot([r EXCEPT !.recurred = v], r.status, r.fp, r.parent, r.written, v)
BY DEF SlotShape, IsSlot

\* An empty place.
LEMMA BlankShape == IsSlot(Blank, "none", Blank.fp, 0, FALSE, FALSE)
BY DEF Blank, SlotShape, IsSlot

\* A step that keeps the tickets' errors and origins, and who is filed.
LEMMA SameTickets ==
    ASSUME LogInv, slots' = [i \in Slot |-> slots'[i]],
           \A i \in Slot : SlotShape(slots'[i]) /\ slots'[i].fp = slots[i].fp /\ slots'[i].parent = slots[i].parent,
           \A i \in Slot : slots'[i].status = "none" <=> slots[i].status = "none",
           \A i \in Slot : RecurrenceShows(slots'[i], inlog'),
           \A i \in toVerify' : i \in Slot /\ slots'[i].status = "verifying"
    PROVE  LogInv'
<1>1. Filed' = Filed
    BY DEF Filed
<1>2. OneTicketPerError'
    BY <1>1 DEF LogInv, OneTicketPerError, Filed
<1>3. \A i \in Slot : RecurrenceShows(slots[i], inlog)'
    BY DEF RecurrenceShows
<1>4. \A i \in Slot : SlotShape(slots[i])'
    BY DEF SlotShape
<1> QED
    BY <1>2, <1>3, <1>4 DEF LogInv

\* The application writes an error or something else, or a file is rotated.
LEMMA ApplicationInv ==
    ASSUME LogInv, \/ \E f \in Fp : LogError(f)
                   \/ \E g \in LogFiles : LogOther(g) \/ Rotate(g)
    PROVE  LogInv'
<1>0. toVerify' = toVerify /\ \A i \in toVerify : i \in Slot /\ slots[i].status = "verifying"
    BY DEF LogInv, LogError, LogOther, Rotate
<1>s. \A i \in Slot : SlotShape(slots[i]) /\ RecurrenceShows(slots[i], inlog)
    BY DEF LogInv
<1>1. ASSUME NEW f \in Fp, LogError(f) PROVE LogInv'
  <2> DEFINE W(i) == slots[i].written \/ Watches(i, FileOf[f])
             R(i) == slots[i].recurred \/ (Watches(i, FileOf[f]) /\ slots[i].fp = f)
             a(i) == [slots[i] EXCEPT !.written = W(i)]
             s(i) == [a(i) EXCEPT !.recurred = R(i)]
  <2>1. slots' = [i \in Slot |-> s(i)] /\ inlog' = inlog \cup {f}
    BY <1>1 DEF LogError
  <2>2. ASSUME NEW i \in Slot
        PROVE  /\ SlotShape(s(i)) /\ s(i).fp = slots[i].fp /\ s(i).parent = slots[i].parent
               /\ s(i).status = slots[i].status /\ RecurrenceShows(s(i), inlog')
    <3>1. R(i) => slots[i].fp \in inlog' /\ W(i)
      BY <1>s, <2>1 DEF RecurrenceShows
    <3> DEFINE w == W(i)
               c == R(i)
               b == [slots[i] EXCEPT !.written = w]
               t == [b EXCEPT !.recurred = c]
    <3>2. s(i) = t /\ (c => slots[i].fp \in inlog' /\ w)
      BY <3>1
    <3> HIDE DEF w, c
    <3>3. IsSlot(b, slots[i].status, slots[i].fp, slots[i].parent, w, slots[i].recurred)
      BY <1>s, SlotSet
    <3> HIDE DEF b
    <3>4. IsSlot(t, slots[i].status, slots[i].fp, slots[i].parent, w, c)
      <4>1. IsSlot(t, b.status, b.fp, b.parent, b.written, c)
        <5>1. SlotShape(b)
          BY <3>3 DEF IsSlot
        <5> QED
          BY <5>1, SlotSet
      <4> QED
        BY <3>3, <4>1 DEF IsSlot
    <3> HIDE DEF t
    <3> QED
      BY <3>2, <3>4 DEF IsSlot, RecurrenceShows
  <2> HIDE DEF s
  <2> QED
    BY <1>0, <2>1, <2>2, SameTickets
<1>2. ASSUME NEW g \in LogFiles, LogOther(g) PROVE LogInv'
  <2> DEFINE s(i) == [slots[i] EXCEPT !.written = slots[i].written \/ Watches(i, g)]
  <2>1. slots' = [i \in Slot |-> s(i)] /\ inlog' = inlog
    BY <1>2 DEF LogOther
  <2>2. ASSUME NEW i \in Slot
        PROVE  /\ SlotShape(s(i)) /\ s(i).fp = slots[i].fp /\ s(i).parent = slots[i].parent
               /\ s(i).status = slots[i].status /\ RecurrenceShows(s(i), inlog')
    <3> DEFINE w == slots[i].written \/ Watches(i, g)
    <3>1. slots[i].recurred => slots[i].fp \in inlog' /\ w
      BY <1>s, <2>1 DEF RecurrenceShows
    <3> HIDE DEF w
    <3>2. IsSlot([slots[i] EXCEPT !.written = w], slots[i].status, slots[i].fp, slots[i].parent, w, slots[i].recurred)
      BY <1>s, SlotSet
    <3> DEFINE t == [slots[i] EXCEPT !.written = w]
    <3>3. s(i) = t
      BY DEF w
    <3> HIDE DEF t, s
    <3> QED
      BY <3>1, <3>2, <3>3 DEF IsSlot, RecurrenceShows, t
  <2> HIDE DEF s
  <2> QED
    BY <1>0, <2>1, <2>2, SameTickets
<1>3. ASSUME NEW g \in LogFiles, Rotate(g) PROVE LogInv'
  <2> DEFINE s(i) == [slots[i] EXCEPT !.recurred = slots[i].recurred /\ FileOf[slots[i].fp] # g]
  <2>1. slots' = [i \in Slot |-> s(i)] /\ inlog' = {f \in inlog : FileOf[f] # g}
    BY <1>3 DEF Rotate
  <2>2. ASSUME NEW i \in Slot
        PROVE  /\ SlotShape(s(i)) /\ s(i).fp = slots[i].fp /\ s(i).parent = slots[i].parent
               /\ s(i).status = slots[i].status /\ RecurrenceShows(s(i), inlog')
    <3> DEFINE c == slots[i].recurred /\ FileOf[slots[i].fp] # g
               t == [slots[i] EXCEPT !.recurred = c]
    <3>1. c => slots[i].fp \in inlog' /\ slots[i].written
      BY <1>s, <2>1 DEF RecurrenceShows
    <3>3. s(i) = t
      OBVIOUS
    <3> HIDE DEF c
    <3>2. IsSlot(t, slots[i].status, slots[i].fp, slots[i].parent, slots[i].written, c)
      BY <1>s, SlotSet
    <3> HIDE DEF t, s
    <3> QED
      BY <3>1, <3>2, <3>3 DEF IsSlot, RecurrenceShows
  <2> HIDE DEF s
  <2> QED
    BY <1>0, <2>1, <2>2, SameTickets
<1> QED
    BY <1>1, <1>2, <1>3

\* An hour passes.
LEMMA HourInv == ASSUME LogInv, LogHourPasses PROVE LogInv'
<1> DEFINE A(i) == IF slots[i].status \in {"verifying", "resolved"} THEN Min({slots[i].age + 1, Longest}) ELSE 0
           s(i) == [slots[i] EXCEPT !.age = A(i)]
<1>1. slots' = [i \in Slot |-> s(i)] /\ inlog' = inlog /\ toVerify' = toVerify
    BY DEF LogHourPasses
<1>2. ASSUME NEW i \in Slot
      PROVE  /\ SlotShape(s(i)) /\ s(i).fp = slots[i].fp /\ s(i).parent = slots[i].parent
             /\ s(i).status = slots[i].status /\ RecurrenceShows(s(i), inlog)
  <2>1. SlotShape(slots[i]) /\ RecurrenceShows(slots[i], inlog)
    BY DEF LogInv
  <2> HIDE DEF A
  <2>2. IsSlot(s(i), slots[i].status, slots[i].fp, slots[i].parent, slots[i].written, slots[i].recurred)
    BY <2>1, SlotSet
  <2> HIDE DEF s
  <2> QED
    BY <2>1, <2>2 DEF IsSlot, RecurrenceShows
<1> HIDE DEF s
<1> QED
    BY <1>1, <1>2, SameTickets DEF LogInv

\* A ticket that may be filed: it says nothing of recurrences, and it is the
\* regression of another one or about an error nobody has filed.
MayBeFiled(n) == SlotShape(n) /\ ~n.recurred /\ (n.parent # 0 \/ n.fp \notin KnownFingerprints)

\* What a scan and the regression check find may be filed, and of two tickets
\* of a scan no two are about one error.
LEMMA FindingsMayBeFiled ==
    /\ \A n \in Scan \cup CheckRegressions : MayBeFiled(n)
    /\ \A n, m \in Scan \cup CheckRegressions : n.parent = 0 /\ m.parent = 0 /\ n.fp = m.fp => n = m
<1> DEFINE sc(f) == [Blank EXCEPT !.fp = f, !.sev = SeverityOf[f]]
           P(f) == sc(f).fp = f /\ sc(f).parent = 0 /\ SlotShape(sc(f)) /\ ~sc(f).recurred
<1>1. ASSUME NEW f PROVE P(f)
  <2> DEFINE a == [Blank EXCEPT !.fp = f]
             v == SeverityOf[f]
             b == [a EXCEPT !.sev = v]
  <2>1. IsSlot(a, "none", f, 0, FALSE, FALSE)
    <3>1. IsSlot(a, Blank.status, f, Blank.parent, Blank.written, Blank.recurred)
      <4>1. SlotShape(Blank)
        BY BlankShape DEF IsSlot
      <4> QED
        BY <4>1, SlotSet
    <3> QED
      BY <3>1, BlankShape DEF IsSlot
  <2> HIDE DEF a, v
  <2>2. IsSlot(b, a.status, a.fp, a.parent, a.written, a.recurred)
    <3>1. SlotShape(a)
      BY <2>1 DEF IsSlot
    <3> QED
      BY <3>1, SlotSet
  <2>3. sc(f) = b
    BY DEF a, v
  <2> HIDE DEF b, sc
  <2> QED
    BY <2>1, <2>2, <2>3 DEF IsSlot
<1>2. \A n \in Scan : \E f : n = sc(f) /\ f \notin KnownFingerprints
    BY DEF Scan
<1>3. \A n \in CheckRegressions : SlotShape(n) /\ ~n.recurred /\ n.parent # 0
  <2> SUFFICES ASSUME NEW n \in CheckRegressions PROVE SlotShape(n) /\ ~n.recurred /\ n.parent # 0
    OBVIOUS
  <2>1. PICK i \in {j \in RecentlyResolved : slots[j].fp \in FreshScan} :
             n = [Blank EXCEPT !.fp = slots[i].fp, !.parent = i, !.sev = EscalateSeverity(slots[i].sev),
                               !.regressions = slots[i].regressions + 1]
    BY DEF CheckRegressions
  <2>2. i # 0
    BY LogAssumption DEF RecentlyResolved
  <2> DEFINE u == slots[i].fp
             v == EscalateSeverity(slots[i].sev)
             w == slots[i].regressions + 1
             a == [Blank EXCEPT !.fp = u]
             b == [a EXCEPT !.parent = i]
             c == [b EXCEPT !.sev = v]
             d == [c EXCEPT !.regressions = w]
  <2>3. n = d
    BY <2>1
  <2> HIDE DEF u, v, w
  <2>4. IsSlot(a, Blank.status, u, Blank.parent, Blank.written, Blank.recurred)
    <3>1. SlotShape(Blank)
      BY BlankShape DEF IsSlot
    <3> QED
      BY <3>1, SlotSet
  <2>5. SlotShape(a) /\ ~a.recurred
    BY <2>4, BlankShape DEF IsSlot
  <2> HIDE DEF a
  <2>6. IsSlot(b, a.status, a.fp, i, a.written, a.recurred)
    BY <2>5, SlotSet
  <2>7. SlotShape(b) /\ ~b.recurred /\ b.parent = i
    BY <2>5, <2>6 DEF IsSlot
  <2> HIDE DEF b
  <2>8. IsSlot(c, b.status, b.fp, b.parent, b.written, b.recurred)
    BY <2>7, SlotSet
  <2>9. SlotShape(c) /\ ~c.recurred /\ c.parent = i
    BY <2>7, <2>8 DEF IsSlot
  <2> HIDE DEF c
  <2>10. IsSlot(d, c.status, c.fp, c.parent, c.written, c.recurred)
    BY <2>9, SlotSet
  <2> HIDE DEF d
  <2> QED
    BY <2>2, <2>3, <2>9, <2>10 DEF IsSlot
<1> HIDE DEF P, sc
<1>4. \A n \in Scan : MayBeFiled(n) /\ n = sc(n.fp)
    BY <1>1, <1>2 DEF P, MayBeFiled
<1> QED
    BY <1>3, <1>4 DEF MayBeFiled

\* Tickets that may be filed take places nobody has, one each.
LEMMA FiledInv ==
    ASSUME LogInv, NEW S, NEW st \in {"triaged", "acknowledged"}, File(S, st),
           \A n \in S : MayBeFiled(n),
           \A n, m \in S : n.parent = 0 /\ m.parent = 0 /\ n.fp = m.fp => n = m,
           inlog' = inlog, \A i \in toVerify' : i \in Slot /\ slots[i].status = "verifying"
    PROVE  LogInv'
<1> DEFINE U == Unused(Cardinality(S))
<1>1. PICK g \in Bijection(U, S) :
          slots' = [i \in Slot |-> IF i \in DOMAIN g THEN [g[i] EXCEPT !.status = st] ELSE slots[i]]
    BY DEF File
<1>2. U \subseteq Slot /\ \A i \in U : slots[i].status = "none"
    BY DEF Unused, Filed
<1> HIDE DEF U
<1>3. g \in [U -> S] /\ \A i, j \in U : g[i] = g[j] => i = j
    BY DEF Bijection, Injection, IsInjective
<1>4. \A i \in Slot : slots'[i] = IF i \in U THEN [g[i] EXCEPT !.status = st] ELSE slots[i]
    BY <1>1, <1>3
<1>5. ASSUME NEW i \in U
      PROVE  /\ slots'[i].status = st /\ slots'[i].fp = g[i].fp /\ slots'[i].parent = g[i].parent
             /\ SlotShape(slots'[i]) /\ ~slots'[i].recurred
  <2>1. SlotShape(g[i]) /\ ~g[i].recurred
    BY <1>3 DEF MayBeFiled
  <2> DEFINE r == [g[i] EXCEPT !.status = st]
  <2>2. IsSlot(r, st, g[i].fp, g[i].parent, g[i].written, g[i].recurred)
    BY <2>1, SlotSet
  <2>3. slots'[i] = r
    BY <1>2, <1>4
  <2> HIDE DEF r
  <2> QED
    BY <2>1, <2>2, <2>3 DEF IsSlot
<1>6. slots' = [i \in Slot |-> slots'[i]]
    BY <1>1
<1>7. \A i \in Slot : SlotShape(slots'[i]) /\ RecurrenceShows(slots'[i], inlog')
    BY <1>4, <1>5 DEF LogInv, RecurrenceShows
<1>8. Filed' = Filed \cup U
    BY <1>2, <1>4, <1>5 DEF Filed
<1>9. \A i \in U : g[i].parent # 0 \/ g[i].fp \notin KnownFingerprints
    BY <1>3 DEF MayBeFiled
<1>10. \A i \in Filed : slots[i].fp \in KnownFingerprints /\ i \notin U /\ slots'[i] = slots[i] /\ i \in Slot
    BY <1>2, <1>4 DEF KnownFingerprints, Filed
<1>11. OneTicketPerError'
  <2> SUFFICES ASSUME NEW i \in Filed', NEW j \in Filed', slots'[i].fp = slots'[j].fp,
                      slots'[i].parent = 0, slots'[j].parent = 0
               PROVE  i = j
    BY DEF OneTicketPerError
  <2>1. CASE i \in Filed /\ j \in Filed
    BY <1>10, <2>1 DEF LogInv, OneTicketPerError
  <2>2. CASE i \in U /\ j \in U
    BY <1>3, <1>5, <2>2
  <2>3. CASE i \in U /\ j \in Filed
    BY <1>5, <1>9, <1>10, <2>3
  <2>4. CASE i \in Filed /\ j \in U
    BY <1>5, <1>9, <1>10, <2>4
  <2> QED
    BY <1>8, <2>1, <2>2, <2>3, <2>4
<1>12. \A i \in toVerify' : i \in Slot /\ slots'[i].status = "verifying"
    BY <1>2, <1>4
<1>13. \A i \in Slot : SlotShape(slots[i])' /\ RecurrenceShows(slots[i], inlog)'
    BY <1>7 DEF SlotShape, RecurrenceShows
<1> QED
    BY <1>6, <1>11, <1>12, <1>13 DEF LogInv

\* A scan files some of what it finds, and a bootstrap all of it.
LEMMA ScansInv == ASSUME LogInv, ScanCycle \/ Bootstrap PROVE LogInv'
<1>1. CASE ScanCycle
  <2>1. PICK S \in Capped(Kept(Scan \cup CheckRegressions)) : File(S, "triaged")
    BY <1>1 DEF ScanCycle
  <2>2. S \subseteq Scan \cup CheckRegressions
    BY DEF Capped, Kept, kSubset
  <2>3. inlog' = inlog /\ \A i \in toVerify' : i \in Slot /\ slots[i].status = "verifying"
    BY <1>1 DEF ScanCycle
  <2>4. \A n \in S : MayBeFiled(n)
    BY <2>2, FindingsMayBeFiled
  <2>5. \A n, m \in S : n.parent = 0 /\ m.parent = 0 /\ n.fp = m.fp => n = m
    BY <2>2, FindingsMayBeFiled
  <2> QED
    BY <2>1, <2>3, <2>4, <2>5, FiledInv
<1>2. CASE Bootstrap
  <2>1. File(Scan, "acknowledged") /\ inlog' = inlog /\ toVerify' = toVerify
    BY <1>2 DEF Bootstrap
  <2>4. \A n \in Scan : MayBeFiled(n)
    BY FindingsMayBeFiled
  <2>5. \A n, m \in Scan : n.parent = 0 /\ m.parent = 0 /\ n.fp = m.fp => n = m
    BY FindingsMayBeFiled
  <2>6. \A i \in toVerify' : i \in Slot /\ slots[i].status = "verifying"
    BY <2>1 DEF LogInv
  <2> QED
    BY <2>1, <2>4, <2>5, <2>6, FiledInv
<1> QED
    BY <1>1, <1>2

\* A ticket that begins to be watched, or stops: its status is one of a filed
\* ticket, and nothing has recurred since.
LEMMA WatchReset ==
    ASSUME NEW r, SlotShape(r), NEW st, NEW v
    PROVE  LET a == [r EXCEPT !.status = st]
               b == [a EXCEPT !.age = v]
               c == [b EXCEPT !.written = FALSE]
               d == [c EXCEPT !.recurred = FALSE]
           IN  IsSlot(d, st, r.fp, r.parent, FALSE, FALSE)
<1> DEFINE a == [r EXCEPT !.status = st]
           b == [a EXCEPT !.age = v]
           c == [b EXCEPT !.written = FALSE]
           d == [c EXCEPT !.recurred = FALSE]
<1>1. IsSlot(a, st, r.fp, r.parent, r.written, r.recurred)
    BY SlotSet
<1>2. SlotShape(a) /\ a.status = st /\ a.fp = r.fp /\ a.parent = r.parent
    BY <1>1 DEF IsSlot
<1> HIDE DEF a
<1>3. IsSlot(b, a.status, a.fp, a.parent, a.written, a.recurred)
    BY <1>2, SlotSet
<1>4. SlotShape(b) /\ b.status = st /\ b.fp = r.fp /\ b.parent = r.parent
    BY <1>2, <1>3 DEF IsSlot
<1> HIDE DEF b
<1>5. IsSlot(c, b.status, b.fp, b.parent, FALSE, b.recurred)
    BY <1>4, SlotSet
<1>6. SlotShape(c) /\ c.status = st /\ c.fp = r.fp /\ c.parent = r.parent /\ c.written = FALSE
    BY <1>4, <1>5 DEF IsSlot
<1> HIDE DEF c
<1>7. IsSlot(d, c.status, c.fp, c.parent, c.written, FALSE)
    BY <1>6, SlotSet
<1>8. IsSlot(d, st, r.fp, r.parent, FALSE, FALSE)
    BY <1>6, <1>7 DEF IsSlot
<1> QED
    BY <1>8 DEF a, b, c, d

\* One ticket is set that way.
LEMMA OneReset ==
    ASSUME LogInv, NEW i \in Slot, slots[i].status # "none", NEW st, st # "none",
           slots' = [slots EXCEPT ![i].status = st, ![i].age = 0, ![i].written = FALSE, ![i].recurred = FALSE],
           inlog' = inlog, \A k \in toVerify' : k \in toVerify /\ k # i
    PROVE  LogInv'
<1> DEFINE a == [slots[i] EXCEPT !.status = st]
           b == [a EXCEPT !.age = 0]
           c == [b EXCEPT !.written = FALSE]
           d == [c EXCEPT !.recurred = FALSE]
<1>1. slots' = [slots EXCEPT ![i] = d] /\ slots = [k \in Slot |-> slots[k]]
    BY DEF LogInv
<1>2. SlotShape(slots[i])
    BY DEF LogInv
<1>3. IsSlot(d, st, slots[i].fp, slots[i].parent, FALSE, FALSE)
    BY <1>2, WatchReset
<1> HIDE DEF d
<1>4. \A k \in Slot : slots'[k] = IF k = i THEN d ELSE slots[k]
    BY <1>1
<1>5. slots' = [k \in Slot |-> slots'[k]]
    BY <1>1
<1>6. \A k \in Slot : RecurrenceShows(slots'[k], inlog')
    BY <1>3, <1>4 DEF LogInv, RecurrenceShows, IsSlot
<1>7. \A k \in Slot : SlotShape(slots'[k]) /\ slots'[k].fp = slots[k].fp /\ slots'[k].parent = slots[k].parent
    BY <1>3, <1>4 DEF LogInv, IsSlot
<1>8. \A k \in Slot : slots'[k].status = "none" <=> slots[k].status = "none"
    BY <1>3, <1>4 DEF IsSlot
<1>9. \A k \in toVerify' : k \in Slot /\ slots'[k].status = "verifying"
    BY <1>4 DEF LogInv
<1> QED
    BY <1>5, <1>6, <1>7, <1>8, <1>9, SameTickets

\* A fix is merged, or found to be quiet.
LEMMA QuietInv ==
    ASSUME LogInv, NEW i \in Slot, FixMerged(i) \/ VerifyQuiet(i) PROVE LogInv'
<1>1. CASE FixMerged(i)
  <2>1. PICK st \in {"verifying", "resolved"} :
             slots' = [slots EXCEPT ![i].status = st, ![i].age = 0, ![i].written = FALSE, ![i].recurred = FALSE]
    BY <1>1 DEF FixMerged
  <2>2. inlog' = inlog /\ toVerify' = toVerify /\ slots[i].status \in {"triaged", "open"}
    BY <1>1 DEF FixMerged
  <2>3. \A k \in toVerify' : k \in toVerify /\ k # i
    BY <2>2 DEF LogInv
  <2> QED
    BY <2>1, <2>2, <2>3, OneReset
<1>2. CASE VerifyQuiet(i)
  <2>1. i \in toVerify /\ toVerify' = toVerify \ {i} /\ inlog' = inlog /\ slots[i].status = "verifying"
    BY <1>2 DEF VerifyQuiet, LogInv
  <2>2. CASE slots' = slots
    BY <2>1, <2>2, SameTickets DEF LogInv
  <2>3. CASE slots' = [slots EXCEPT ![i].status = "resolved", ![i].age = 0, ![i].written = FALSE, ![i].recurred = FALSE]
    BY <2>1, <2>3, OneReset
  <2> QED
    BY <1>2, <2>2, <2>3 DEF VerifyQuiet
<1> QED
    BY <1>1, <1>2

\* A recurrence: the ticket is set back, and its regression takes a place
\* nobody has.
LEMMA RecurredInv == ASSUME LogInv, NEW i \in Slot, VerifyRecurred(i) PROVE LogInv'
<1>0. i \in toVerify /\ toVerify' = toVerify \ {i} /\ inlog' = inlog /\ slots[i].status = "verifying"
      /\ slots = [k \in Slot |-> slots[k]] /\ \A k \in Slot : SlotShape(slots[k])
    BY DEF VerifyRecurred, LogInv
<1>1. PICK st \in {"rolled_back", "open"}, j \in Unused(1) :
          slots' = [slots EXCEPT ![i].status = st, ![i].age = 0, ![i].written = FALSE,
                      ![i].recurred = FALSE, ![j] = [Blank EXCEPT !.status = "open", !.fp = slots[i].fp,
                                           !.parent = i, !.sev = slots[i].sev]]
    BY DEF VerifyRecurred
<1>2. j \in Slot /\ slots[j].status = "none" /\ j # i /\ i # 0
    BY <1>0, LogAssumption DEF Unused, Filed
<1> DEFINE a == [slots[i] EXCEPT !.status = st]
           b == [a EXCEPT !.age = 0]
           c == [b EXCEPT !.written = FALSE]
           d == [c EXCEPT !.recurred = FALSE]
           u == slots[i].fp
           v == slots[i].sev
           e == [Blank EXCEPT !.status = "open"]
           f == [e EXCEPT !.fp = u]
           g == [f EXCEPT !.parent = i]
           h == [g EXCEPT !.sev = v]
<1>3. slots' = [[slots EXCEPT ![i] = d] EXCEPT ![j] = h]
    BY <1>0, <1>1
<1>4. IsSlot(d, st, slots[i].fp, slots[i].parent, FALSE, FALSE)
    BY <1>0, WatchReset
<1> HIDE DEF d
<1>5. IsSlot(h, "open", u, i, FALSE, FALSE)
  <2> HIDE DEF u, v
  <2>1. SlotShape(Blank) /\ Blank.written = FALSE /\ Blank.recurred = FALSE
    BY BlankShape DEF IsSlot
  <2>2. IsSlot(e, "open", Blank.fp, Blank.parent, Blank.written, Blank.recurred)
    BY <2>1, SlotSet
  <2>3. SlotShape(e) /\ e.status = "open" /\ e.written = FALSE /\ e.recurred = FALSE
    BY <2>1, <2>2 DEF IsSlot
  <2> HIDE DEF e
  <2>4. IsSlot(f, e.status, u, e.parent, e.written, e.recurred)
    BY <2>3, SlotSet
  <2>5. SlotShape(f) /\ f.status = "open" /\ f.fp = u /\ f.written = FALSE /\ f.recurred = FALSE
    BY <2>3, <2>4 DEF IsSlot
  <2> HIDE DEF f
  <2>6. IsSlot(g, f.status, f.fp, i, f.written, f.recurred)
    BY <2>5, SlotSet
  <2>7. SlotShape(g) /\ g.status = "open" /\ g.fp = u /\ g.parent = i /\ g.written = FALSE /\ g.recurred = FALSE
    BY <2>5, <2>6 DEF IsSlot
  <2> HIDE DEF g
  <2>8. IsSlot(h, g.status, g.fp, g.parent, g.written, g.recurred)
    BY <2>7, SlotSet
  <2> HIDE DEF h
  <2> QED
    BY <2>7, <2>8 DEF IsSlot
<1> HIDE DEF h
<1>6. \A k \in Slot : slots'[k] = IF k = j THEN h ELSE IF k = i THEN d ELSE slots[k]
    BY <1>0, <1>2, <1>3
<1>7. slots' = [k \in Slot |-> slots'[k]]
    BY <1>0, <1>3
<1>8. \A k \in Slot : SlotShape(slots'[k]) /\ RecurrenceShows(slots'[k], inlog')
    BY <1>0, <1>4, <1>5, <1>6 DEF LogInv, RecurrenceShows, IsSlot
<1>9. Filed' = Filed \cup {j}
    BY <1>0, <1>2, <1>4, <1>5, <1>6 DEF Filed, IsSlot
<1>10. /\ slots'[j].parent # 0
       /\ \A k \in Filed : slots'[k].fp = slots[k].fp /\ slots'[k].parent = slots[k].parent
    BY <1>2, <1>4, <1>5, <1>6 DEF Filed, IsSlot
<1>11. OneTicketPerError'
  <2> SUFFICES ASSUME NEW k \in Filed', NEW n \in Filed', slots'[k].fp = slots'[n].fp,
                      slots'[k].parent = 0, slots'[n].parent = 0
               PROVE  k = n
    BY DEF OneTicketPerError
  <2>1. k \in Filed /\ n \in Filed
    BY <1>9, <1>10
  <2> QED
    BY <1>10, <2>1 DEF LogInv, OneTicketPerError
<1>12. \A k \in toVerify' : k \in Slot /\ slots'[k].status = "verifying"
    BY <1>0, <1>2, <1>6 DEF LogInv
<1>13. \A k \in Slot : SlotShape(slots[k])' /\ RecurrenceShows(slots[k], inlog)'
    BY <1>8 DEF SlotShape, RecurrenceShows
<1> QED
    BY <1>7, <1>11, <1>12, <1>13 DEF LogInv

\* Every step keeps the invariant.
LEMMA LogNextInv == LogInv /\ [LogNext]_logVars => LogInv'
<1> SUFFICES ASSUME LogInv, [LogNext]_logVars PROVE LogInv'
    OBVIOUS
<1>1. CASE UNCHANGED logVars
  <2>1. slots' = slots /\ inlog' = inlog /\ toVerify' = toVerify
    BY <1>1 DEF logVars
  <2> QED
    BY <2>1, SameTickets DEF LogInv
<1>2. CASE LogNext
    BY <1>2, ScansInv, HourInv, ApplicationInv, QuietInv, RecurredInv DEF LogNext
<1> QED
    BY <1>1, <1>2

\* The invariant holds of a system that has filed nothing.
LEMMA LogInitInv == LogInit => LogInv
<1> SUFFICES ASSUME LogInit PROVE LogInv
    OBVIOUS
<1>1. SlotShape(Blank) /\ Blank.status = "none" /\ Blank.recurred = FALSE
    BY BlankShape DEF IsSlot
<1>2. slots = [i \in Slot |-> Blank] /\ toVerify = {}
    BY DEF LogInit
<1>3. Filed = {}
    BY <1>1, <1>2 DEF Filed
<1> QED
    BY <1>1, <1>2, <1>3 DEF LogInv, RecurrenceShows, OneTicketPerError

\* An error gets one ticket, whatever scans, caps, bootstraps and fixes there
\* are, except as the regression of a fix (scan of monitor_agent.py, check of
\* known fingerprints).
THEOREM ErrorsAreFiledOnce == LogSpec => []OneTicketPerError
<1>1. LogInv => OneTicketPerError
    BY DEF LogInv
<1> QED
    BY <1>1, LogInitInv, LogNextInv, PTL DEF LogSpec

\* A write, a rotation and the clock change no ticket's status.
LEMMA StatusKept ==
    ASSUME LogInv, NEW i \in Slot,
           \/ LogHourPasses
           \/ \E f \in Fp : LogError(f)
           \/ \E g \in LogFiles : LogOther(g) \/ Rotate(g)
    PROVE  slots'[i].status = slots[i].status
<1>0. SlotShape(slots[i])
    BY DEF LogInv
<1>1. ASSUME NEW v, NEW w
      PROVE  /\ [slots[i] EXCEPT !.written = v].status = slots[i].status
             /\ [slots[i] EXCEPT !.recurred = v].status = slots[i].status
             /\ [slots[i] EXCEPT !.age = v].status = slots[i].status
             /\ [slots[i] EXCEPT !.written = v, !.recurred = w].status = slots[i].status
    BY <1>0 DEF SlotShape
<1>2. CASE LogHourPasses
  <2> DEFINE v == IF slots[i].status \in {"verifying", "resolved"} THEN Min({slots[i].age + 1, Longest}) ELSE 0
  <2>1. slots'[i] = [slots[i] EXCEPT !.age = v]
    BY <1>2 DEF LogHourPasses
  <2> HIDE DEF v
  <2> QED
    BY <1>1, <2>1
<1>3. ASSUME NEW f \in Fp, LogError(f) PROVE slots'[i].status = slots[i].status
  <2> DEFINE v == slots[i].written \/ Watches(i, FileOf[f])
             w == slots[i].recurred \/ (Watches(i, FileOf[f]) /\ slots[i].fp = f)
  <2>1. slots'[i] = [slots[i] EXCEPT !.written = v, !.recurred = w]
    BY <1>3 DEF LogError
  <2> HIDE DEF v, w
  <2> QED
    BY <1>1, <2>1
<1>4. ASSUME NEW g \in LogFiles, LogOther(g) PROVE slots'[i].status = slots[i].status
  <2> DEFINE v == slots[i].written \/ Watches(i, g)
  <2>1. slots'[i] = [slots[i] EXCEPT !.written = v]
    BY <1>4 DEF LogOther
  <2> HIDE DEF v
  <2> QED
    BY <1>1, <2>1
<1>5. ASSUME NEW g \in LogFiles, Rotate(g) PROVE slots'[i].status = slots[i].status
  <2> DEFINE v == slots[i].recurred /\ FileOf[slots[i].fp] # g
  <2>1. slots'[i] = [slots[i] EXCEPT !.recurred = v]
    BY <1>5 DEF Rotate
  <2> HIDE DEF v
  <2> QED
    BY <1>1, <2>1
<1> QED
    BY <1>2, <1>3, <1>4, <1>5

\* Filing touches only tickets that were not there.
LEMMA FilingAddsTickets ==
    ASSUME LogInv, NEW S, NEW st, File(S, st), NEW i \in Slot, slots[i].status # "none"
    PROVE  slots'[i] = slots[i]
<1> DEFINE U == Unused(Cardinality(S))
<1>1. PICK g \in Bijection(U, S) :
          slots' = [k \in Slot |-> IF k \in DOMAIN g THEN [g[k] EXCEPT !.status = st] ELSE slots[k]]
    BY DEF File
<1>2. i \notin U
    BY DEF Unused, Filed
<1> HIDE DEF U
<1>3. DOMAIN g = U
    BY DEF Bijection, Injection
<1> QED
    BY <1>1, <1>2, <1>3

\* Only the verifier, when it finds a fix quiet, resolves a ticket under
\* verification.
LEMMA OnlyQuietResolves ==
    ASSUME LogInv, LogNext, NEW i \in Slot, slots[i].status = "verifying", slots'[i].status = "resolved"
    PROVE  VerifyQuiet(i) /\ slots[i].age >= PropagateFor
<1>0. slots = [k \in Slot |-> slots[k]] /\ SlotShape(slots[i])
    BY DEF LogInv
<1>1. ~\/ LogHourPasses
       \/ \E f \in Fp : LogError(f)
       \/ \E g \in LogFiles : LogOther(g) \/ Rotate(g)
    BY StatusKept
<1>2. ~ScanCycle
  <2> SUFFICES ASSUME ScanCycle PROVE FALSE
    OBVIOUS
  <2>1. PICK S : File(S, "triaged")
    BY DEF ScanCycle
  <2>2. slots'[i] = slots[i]
    BY <2>1, FilingAddsTickets
  <2> QED
    BY <2>2
<1>3. ~Bootstrap
  <2> SUFFICES ASSUME Bootstrap PROVE FALSE
    OBVIOUS
  <2>1. File(Scan, "acknowledged")
    BY DEF Bootstrap
  <2>2. slots'[i] = slots[i]
    BY <2>1, FilingAddsTickets
  <2> QED
    BY <2>2
<1>4. PICK k \in Slot : FixMerged(k) \/ VerifyRecurred(k) \/ VerifyQuiet(k)
    BY <1>1, <1>2, <1>3 DEF LogNext
<1>5. ~FixMerged(k)
  <2> SUFFICES ASSUME FixMerged(k) PROVE FALSE
    OBVIOUS
  <2>1. k # i
    BY DEF FixMerged
  <2>2. PICK st : slots' = [slots EXCEPT ![k].status = st, ![k].age = 0, ![k].written = FALSE, ![k].recurred = FALSE]
    BY DEF FixMerged
  <2>3. slots'[i] = slots[i]
    BY <1>0, <2>1, <2>2
  <2> QED
    BY <2>3
<1>6. ~VerifyRecurred(k)
  <2> SUFFICES ASSUME VerifyRecurred(k) PROVE FALSE
    OBVIOUS
  <2>1. PICK st \in {"rolled_back", "open"}, j \in Unused(1) :
          slots' = [slots EXCEPT ![k].status = st, ![k].age = 0, ![k].written = FALSE,
                      ![k].recurred = FALSE, ![j] = [Blank EXCEPT !.status = "open", !.fp = slots[k].fp,
                                           !.parent = k, !.sev = slots[k].sev]]
    BY DEF VerifyRecurred
  <2>2. j # i
    BY DEF Unused, Filed
  <2> DEFINE a == [slots[k] EXCEPT !.status = st]
             b == [a EXCEPT !.age = 0]
             c == [b EXCEPT !.written = FALSE]
             d == [c EXCEPT !.recurred = FALSE]
  <2>3. slots'[i] = IF i = k THEN d ELSE slots[i]
    BY <1>0, <2>1, <2>2
  <2>4. i = k => IsSlot(d, st, slots[k].fp, slots[k].parent, FALSE, FALSE)
    BY <1>0, WatchReset
  <2> HIDE DEF d
  <2> QED
    BY <2>3, <2>4 DEF IsSlot
<1>7. VerifyQuiet(k)
    BY <1>4, <1>5, <1>6
<1>8. slots' # slots
    OBVIOUS
<1>9. /\ slots[k].age >= PropagateFor
      /\ slots' = [slots EXCEPT ![k].status = "resolved", ![k].age = 0, ![k].written = FALSE, ![k].recurred = FALSE]
    BY <1>7, <1>8 DEF VerifyQuiet
<1>10. k = i
    BY <1>0, <1>9
<1> QED
    BY <1>7, <1>9, <1>10

\* The verifier resolves no ticket whose error has recurred in a log that is
\* still there (check_verification of fix_verifier.py), for any waits.
THEOREM RecurrencesAreSeen == LogSpec => NoMissedRecurrence
<1> DEFINE Step == \A i \in Slot : slots[i].status = "verifying" /\ slots'[i].status = "resolved" => ~slots[i].recurred
<1>1. LogInv /\ [LogNext]_logVars => [Step]_logVars
  <2> SUFFICES ASSUME LogInv, LogNext, NEW i \in Slot, slots[i].status = "verifying",
                      slots'[i].status = "resolved"
               PROVE  ~slots[i].recurred
    OBVIOUS
  <2>1. VerifyQuiet(i) /\ slots[i].age >= PropagateFor
    BY OnlyQuietResolves
  <2>3. ~SeenSince(i)
    BY <2>1 DEF VerifyQuiet, Recurs
  <2> QED
    BY <2>3 DEF SeenSince, LogInv, RecurrenceShows
<1> QED
    BY <1>1, LogInitInv, LogNextInv, PTL DEF LogSpec, NoMissedRecurrence
-----------------------------------------------------------------------------
(* GitHub: why an issue gets one ticket.                                    *)

GStatus == {"open", "triaged", "in_review", "rework", "closed", "failed"}
GRecord == [fp : GIssue, github_issue : GIssue, by : {"fetch", "scan"}, hitl : BOOLEAN,
            status : GStatus]

\* The ticket is about the issue it came from, unless it is critical.
AboutOrigin(t) == t.fp \in CriticalIssue \/ t.github_issue = t.fp

\* A list has one ticket at most of an issue that is not critical.
Once(q) == \A k, n \in DOMAIN q : q[k].fp = q[n].fp /\ q[k].fp \notin CriticalIssue => k = n

\* A ticket of this cycle is stored as it was found, or its issue has no
\* ticket in the store.
Placed(t, s) ==
    \/ t.fp \in CriticalIssue
    \/ \E k \in DOMAIN s : s[k].fp = t.fp /\ s[k].by = t.by /\ s[k].status = "open"
    \/ \A k \in DOMAIN s : s[k].fp # t.fp

StoreIsSound ==
    /\ \A k \in DOMAIN stored : AboutOrigin(stored[k])
    /\ Once(stored) /\ Once(fresh)
    /\ scanning \in {"fetched", "scanned"} => \A k \in DOMAIN fresh : Placed(fresh[k], stored)

IssueInv ==
    /\ stored \in Seq(GRecord) /\ fresh \in Seq(GRecord)
    /\ \A k \in DOMAIN fresh : fresh[k].github_issue = fresh[k].fp
    /\ Len(stored) <= ListLimit => StoreIsSound

\* The tickets of some issues, as a list: one of each.
LEMMA AsSeqOf ==
    ASSUME NEW S \in SUBSET GIssue, NEW by \in {"fetch", "scan"}
    PROVE  LET q == AsSeq(S, by)
           IN  /\ q \in Seq(GRecord)
               /\ \A k \in DOMAIN q : q[k].fp \in S /\ q[k].github_issue = q[k].fp /\ q[k].by = by
                                        /\ q[k].status = "open"
               /\ \A k, n \in DOMAIN q : q[k].fp = q[n].fp => k = n
               /\ \A i \in S : \E k \in DOMAIN q : q[k].fp = i
<1> DEFINE N == Cardinality(S)
           T == {GTicket(i, by) : i \in S}
           q == AsSeq(S, by)
<1>1. IsFiniteSet(S)
    BY GitHubAssumption, FS_Subset
<1>2. N \in Nat /\ ExistsBijection(1..N, S)
    BY <1>1, FS_CardinalityType
<1>3. PICK b \in Bijection(1..N, S) : TRUE
    BY <1>2 DEF ExistsBijection
<1>4. b \in [1..N -> S] /\ \A i \in S : \E k \in 1..N : b[k] = i
    BY <1>3 DEF Bijection, Injection, Surjection
<1>g. \A i : GTicket(i, by).fp = i /\ GTicket(i, by).github_issue = i /\ GTicket(i, by).by = by
             /\ GTicket(i, by).status = "open"
    BY DEF GTicket
<1>r. \A i \in S : GTicket(i, by) \in GRecord
    BY DEF GTicket, GRecord, GStatus
<1> HIDE DEF N
<1> DEFINE c == [k \in 1..N |-> GTicket(b[k], by)]
<1>5. c \in [1..N -> T] /\ IssuesOf(c) = S
  <2>1. c \in [1..N -> T]
    BY <1>4
  <2>2. \A k \in 1..N : c[k].github_issue = b[k]
    BY <1>g
  <2>3. DOMAIN c = 1..N
    OBVIOUS
  <2> HIDE DEF c
  <2> QED
    BY <1>4, <2>1, <2>2, <2>3 DEF IssuesOf
<1>6. q \in [1..N -> T] /\ IssuesOf(q) = S
  <2> HIDE DEF c, T
  <2>1. \E x \in [1..N -> T] : IssuesOf(x) = S
    BY <1>5
  <2>2. q = CHOOSE x \in [1..N -> T] : IssuesOf(x) = S
    BY DEF AsSeq, N, T
  <2> QED
    BY <2>1, <2>2
<1> HIDE DEF q, c
<1>7. \A k \in 1..N : \E i \in S : q[k] = GTicket(i, by)
    BY <1>6
<1>8. DOMAIN q = 1..N /\ q \in Seq(GRecord)
  <2>1. \A k \in 1..N : q[k] \in GRecord
    BY <1>7, <1>r
  <2>2. DOMAIN q = 1..N /\ q = [k \in 1..N |-> q[k]]
    BY <1>6
  <2> QED
    BY <1>2, <2>1, <2>2 DEF N
<1>9. \A k \in 1..N : q[k].fp \in S /\ q[k].github_issue = q[k].fp /\ q[k].by = by /\ q[k].status = "open"
    BY <1>7, <1>g
<1>10. \A i \in S : \E k \in 1..N : q[k].fp = i
    BY <1>6, <1>8, <1>9 DEF IssuesOf
<1> DEFINE h == [k \in 1..N |-> q[k].fp]
<1>11. h \in Surjection(1..N, S)
    BY <1>9, <1>10 DEF Surjection
<1>12. IsFiniteSet(1..N) /\ Cardinality(1..N) = N
    BY <1>2, FS_Interval DEF N
<1>13. h \in Injection(1..N, S)
  <2> HIDE DEF h
  <2>1. Cardinality(1..N) = Cardinality(S)
    BY <1>12 DEF N
  <2> QED
    BY <1>11, <1>12, <2>1, FS_SurjSameCardinalityImpliesInj
<1>14. \A k, n \in 1..N : q[k].fp = q[n].fp => k = n
    BY <1>13 DEF Injection, IsInjective
<1> QED
    BY <1>8, <1>9, <1>10, <1>14 DEF q

\* Two lists that are about different issues, joined.
LEMMA JoinedOnce ==
    ASSUME NEW s \in Seq(GRecord), NEW q \in Seq(GRecord), Once(s), Once(q),
           \A k \in DOMAIN s, n \in DOMAIN q : s[k].fp = q[n].fp => s[k].fp \in CriticalIssue
    PROVE  Once(s \o q)
<1>1. /\ s \o q \in Seq(GRecord) /\ Len(s \o q) = Len(s) + Len(q)
      /\ \A i \in 1..(Len(s) + Len(q)) : (s \o q)[i] = IF i <= Len(s) THEN s[i] ELSE q[i - Len(s)]
    BY ConcatProperties
<1>2. Len(s) \in Nat /\ Len(q) \in Nat /\ DOMAIN s = 1..Len(s) /\ DOMAIN q = 1..Len(q)
      /\ DOMAIN (s \o q) = 1..(Len(s) + Len(q))
    BY <1>1
<1> SUFFICES ASSUME NEW k \in 1..(Len(s) + Len(q)), NEW n \in 1..(Len(s) + Len(q)),
                    (s \o q)[k].fp = (s \o q)[n].fp, (s \o q)[k].fp \notin CriticalIssue
             PROVE  k = n
    BY <1>2 DEF Once
<1>3. \/ k \in DOMAIN s /\ (s \o q)[k] = s[k] /\ k <= Len(s)
      \/ k - Len(s) \in DOMAIN q /\ (s \o q)[k] = q[k - Len(s)] /\ ~(k <= Len(s))
    BY <1>1, <1>2
<1>4. \/ n \in DOMAIN s /\ (s \o q)[n] = s[n] /\ n <= Len(s)
      \/ n - Len(s) \in DOMAIN q /\ (s \o q)[n] = q[n - Len(s)] /\ ~(n <= Len(s))
    BY <1>1, <1>2
<1>5. CASE k <= Len(s) /\ n <= Len(s)
    BY <1>3, <1>4, <1>5 DEF Once
<1>6. CASE ~(k <= Len(s)) /\ ~(n <= Len(s))
  <2>1. k - Len(s) = n - Len(s)
    BY <1>3, <1>4, <1>6 DEF Once
  <2> QED
    BY <1>2, <2>1
<1>7. CASE (k <= Len(s)) # (n <= Len(s))
    BY <1>3, <1>4, <1>7
<1> QED
    BY <1>5, <1>6, <1>7

\* The elements of two lists, joined, are those of the lists.
LEMMA JoinedElements ==
    ASSUME NEW s \in Seq(GRecord), NEW q \in Seq(GRecord)
    PROVE  /\ s \o q \in Seq(GRecord)
           /\ Len(s) \in Nat /\ Len(s \o q) \in Nat /\ Len(s) <= Len(s \o q)
           /\ \A k \in DOMAIN s : k \in DOMAIN (s \o q) /\ (s \o q)[k] = s[k]
           /\ \A n \in DOMAIN q : \E k \in DOMAIN (s \o q) : (s \o q)[k] = q[n]
           /\ \A k \in DOMAIN (s \o q) : \/ \E n \in DOMAIN s : (s \o q)[k] = s[n]
                                         \/ \E n \in DOMAIN q : (s \o q)[k] = q[n]
<1>1. /\ s \o q \in Seq(GRecord) /\ Len(s \o q) = Len(s) + Len(q)
      /\ \A i \in 1..(Len(s) + Len(q)) : (s \o q)[i] = IF i <= Len(s) THEN s[i] ELSE q[i - Len(s)]
    BY ConcatProperties
<1>2. Len(s) \in Nat /\ Len(q) \in Nat /\ DOMAIN s = 1..Len(s) /\ DOMAIN q = 1..Len(q)
      /\ DOMAIN (s \o q) = 1..(Len(s) + Len(q))
    BY <1>1
<1>3. \A k \in DOMAIN s : k \in DOMAIN (s \o q) /\ (s \o q)[k] = s[k]
    BY <1>1, <1>2
<1>4. ASSUME NEW n \in DOMAIN q PROVE \E k \in DOMAIN (s \o q) : (s \o q)[k] = q[n]
  <2>1. n + Len(s) \in 1..(Len(s) + Len(q)) /\ ~(n + Len(s) <= Len(s)) /\ (n + Len(s)) - Len(s) = n
    BY <1>2
  <2>2. (s \o q)[n + Len(s)] = q[n]
    BY <1>1, <2>1
  <2> QED
    BY <1>2, <2>1, <2>2
<1>5. ASSUME NEW k \in DOMAIN (s \o q)
      PROVE  \/ \E n \in DOMAIN s : (s \o q)[k] = s[n]
             \/ \E n \in DOMAIN q : (s \o q)[k] = q[n]
  <2>1. CASE k <= Len(s)
    BY <1>1, <1>2, <2>1
  <2>2. CASE ~(k <= Len(s))
    <3>1. k - Len(s) \in DOMAIN q /\ (s \o q)[k] = q[k - Len(s)]
      BY <1>1, <1>2, <2>2
    <3> QED
      BY <3>1
  <2> QED
    BY <2>1, <2>2
<1> QED
    BY <1>1, <1>2, <1>3, <1>4, <1>5

\* A step that keeps who has a ticket, and the tickets nobody has touched.
LEMMA SameStored ==
    ASSUME IssueInv, stored' \in Seq(GRecord), Len(stored') = Len(stored),
           \A k \in DOMAIN stored :
               /\ stored'[k].fp = stored[k].fp /\ stored'[k].by = stored[k].by
               /\ stored[k].status = "open" => stored'[k].status = "open"
               /\ AboutOrigin(stored[k]) => AboutOrigin(stored'[k]),
           \/ fresh' = fresh /\ (scanning' \in {"fetched", "scanned"} => scanning \in {"fetched", "scanned"})
           \/ fresh' = <<>>
    PROVE  IssueInv'
<1>1. DOMAIN stored' = DOMAIN stored
    BY DEF IssueInv
<1>2. fresh' \in Seq(GRecord) /\ \A k \in DOMAIN fresh' : fresh'[k].github_issue = fresh'[k].fp
  <2>1. CASE fresh' = fresh
    BY <2>1 DEF IssueInv
  <2>2. CASE fresh' = <<>>
    BY <2>2
  <2> QED
    BY <2>1, <2>2
<1>3. ASSUME Len(stored') <= ListLimit PROVE StoreIsSound'
  <2>0. StoreIsSound
    BY <1>3 DEF IssueInv
  <2>1. Once(stored') /\ Once(fresh')
    BY <1>1, <2>0 DEF StoreIsSound, Once
  <2>2. \A k \in DOMAIN stored' : AboutOrigin(stored'[k])
    BY <1>1, <2>0 DEF StoreIsSound
  <2>3. ASSUME scanning' \in {"fetched", "scanned"}, NEW k \in DOMAIN fresh' PROVE Placed(fresh'[k], stored')
    <3>1. Placed(fresh[k], stored) /\ fresh' = fresh
      BY <2>0, <2>3 DEF StoreIsSound
    <3> QED
      BY <1>1, <3>1 DEF Placed
  <2> QED
    BY <2>1, <2>2, <2>3 DEF StoreIsSound, Once, AboutOrigin, Placed
<1> QED
    BY <1>2, <1>3 DEF IssueInv

\* One ticket is moved on.
LEMMA OneMoved ==
    ASSUME IssueInv, NEW k \in DOMAIN stored, NEW t \in GRecord, stored' = [stored EXCEPT ![k] = t],
           t.fp = stored[k].fp, t.by = stored[k].by,
           stored[k].status = "open" => t.status = "open",
           AboutOrigin(stored[k]) => AboutOrigin(t),
           fresh' = fresh, scanning' \in {"fetched", "scanned"} => scanning \in {"fetched", "scanned"}
    PROVE  IssueInv'
<1>1. stored' \in Seq(GRecord) /\ Len(stored') = Len(stored)
    BY DEF IssueInv
<1>2. \A n \in DOMAIN stored : stored'[n] = IF n = k THEN t ELSE stored[n]
    BY DEF IssueInv
<1> QED
    BY <1>1, <1>2, SameStored

\* What setting one field of a ticket does.
LEMMA TicketSet ==
    ASSUME NEW t \in GRecord
    PROVE  /\ \A v \in GStatus :
                /\ [t EXCEPT !.status = v] \in GRecord /\ [t EXCEPT !.status = v].fp = t.fp
                /\ [t EXCEPT !.status = v].by = t.by /\ [t EXCEPT !.status = v].status = v
                /\ [t EXCEPT !.status = v].github_issue = t.github_issue
           /\ \A v \in GIssue :
                /\ [t EXCEPT !.github_issue = v] \in GRecord /\ [t EXCEPT !.github_issue = v].fp = t.fp
                /\ [t EXCEPT !.github_issue = v].by = t.by /\ [t EXCEPT !.github_issue = v].status = t.status
           /\ /\ [t EXCEPT !.hitl = TRUE] \in GRecord /\ [t EXCEPT !.hitl = TRUE].fp = t.fp
              /\ [t EXCEPT !.hitl = TRUE].by = t.by /\ [t EXCEPT !.hitl = TRUE].status = t.status
              /\ [t EXCEPT !.hitl = TRUE].github_issue = t.github_issue
BY DEF GRecord

\* Humans, the rest of the pipeline, reviews and escalations.
LEMMA TicketStepsInv ==
    ASSUME IssueInv, \/ HumanActs \/ TicketMoves
                     \/ \E k \in DOMAIN stored : EscalateToHuman(k) \/ ReviewRequested(k) \/ FileIssue(k)
    PROVE  IssueInv'
<1>0. \A k \in DOMAIN stored : stored[k] \in GRecord
    BY DEF IssueInv
<1>s. ASSUME NEW k \in DOMAIN stored, NEW v \in GStatus,
             stored[k].status # "open", stored' = [stored EXCEPT ![k].status = v],
             fresh' = fresh, scanning' = scanning
      PROVE  IssueInv'
  <2> DEFINE t == [stored[k] EXCEPT !.status = v]
  <2>1. t \in GRecord /\ t.fp = stored[k].fp /\ t.by = stored[k].by /\ t.github_issue = stored[k].github_issue
    <3>1. stored[k] \in GRecord
      BY <1>0, <1>s
    <3> DEFINE r == stored[k]
    <3> HIDE DEF r
    <3>2. r \in GRecord
      BY <3>1 DEF r
    <3>3. /\ [r EXCEPT !.status = v] \in GRecord /\ [r EXCEPT !.status = v].fp = r.fp
          /\ [r EXCEPT !.status = v].by = r.by /\ [r EXCEPT !.status = v].github_issue = r.github_issue
      BY <1>s, <3>2, TicketSet
    <3> QED
      BY <3>3 DEF r
  <2>2. stored' = [stored EXCEPT ![k] = t]
    BY <1>s
  <2> HIDE DEF t
  <2>3. AboutOrigin(stored[k]) => AboutOrigin(t)
    BY <2>1 DEF AboutOrigin
  <2> QED
    BY <1>s, <2>1, <2>2, <2>3, OneMoved
<1>1. CASE HumanActs
  <2>1. stored' = stored /\ fresh' = fresh /\ scanning' = scanning
    BY <1>1 DEF HumanActs
  <2> QED
    BY <2>1, SameStored DEF IssueInv
<1>2. CASE TicketMoves
  <2>1. fresh' = fresh /\ scanning' = scanning
    BY <1>2 DEF TicketMoves
  <2>2. PICK k \in DOMAIN stored :
         \/ stored[k].status \in {"triaged", "rework"} /\ stored' = [stored EXCEPT ![k].status = "in_review"]
         \/ stored[k].status = "in_review"
            /\ \E st \in {"closed", "failed"} : stored' = [stored EXCEPT ![k].status = st]
    BY <1>2 DEF TicketMoves
  <2>3. PICK v \in GStatus :
             stored' = [stored EXCEPT ![k].status = v]
    BY <2>2 DEF GStatus
  <2> QED
    BY <1>s, <2>1, <2>2, <2>3
<1>3. ASSUME NEW k \in DOMAIN stored, EscalateToHuman(k) PROVE IssueInv'
  <2>1. fresh' = fresh /\ scanning' = scanning /\ stored' = [stored EXCEPT ![k].hitl = TRUE]
    BY <1>3 DEF EscalateToHuman
  <2> DEFINE t == [stored[k] EXCEPT !.hitl = TRUE]
  <2>2. t \in GRecord /\ t.fp = stored[k].fp /\ t.by = stored[k].by /\ t.github_issue = stored[k].github_issue
        /\ t.status = stored[k].status
    BY <1>0, <1>3, TicketSet
  <2>3. stored' = [stored EXCEPT ![k] = t]
    BY <2>1
  <2> HIDE DEF t
  <2>4. AboutOrigin(stored[k]) => AboutOrigin(t)
    BY <2>2 DEF AboutOrigin
  <2> QED
    BY <1>3, <2>1, <2>2, <2>3, <2>4, OneMoved
<1>4. ASSUME NEW k \in DOMAIN stored, ReviewRequested(k) PROVE IssueInv'
    BY <1>s, <1>4 DEF ReviewRequested, GStatus
<1>5. ASSUME NEW k \in DOMAIN stored, FileIssue(k) PROVE IssueInv'
  <2>1. fresh' = fresh /\ scanning' = "filed" /\ stored[k].fp \in CriticalIssue
    BY <1>5 DEF FileIssue
  <2>2. PICK j \in GIssue : \E lost \in {FALSE, GhFails} :
             stored' = IF lost THEN stored ELSE [stored EXCEPT ![k].github_issue = j]
    BY <1>5 DEF FileIssue
  <2>3. CASE stored' = stored
    BY <2>1, <2>3, SameStored DEF IssueInv
  <2>4. CASE stored' = [stored EXCEPT ![k].github_issue = j]
    <3> DEFINE t == [stored[k] EXCEPT !.github_issue = j]
    <3>2. t \in GRecord /\ t.fp = stored[k].fp /\ t.by = stored[k].by /\ t.status = stored[k].status
      <4>1. stored[k] \in GRecord
        BY <1>0, <1>5
      <4> DEFINE r == stored[k]
      <4> HIDE DEF r
      <4>2. r \in GRecord
        BY <4>1 DEF r
      <4>3. /\ [r EXCEPT !.github_issue = j] \in GRecord /\ [r EXCEPT !.github_issue = j].fp = r.fp
            /\ [r EXCEPT !.github_issue = j].by = r.by /\ [r EXCEPT !.github_issue = j].status = r.status
        BY <4>2, TicketSet
      <4> QED
        BY <4>3 DEF r
    <3>3. stored' = [stored EXCEPT ![k] = t]
      BY <2>4
    <3> HIDE DEF t
    <3>4. AboutOrigin(t)
      BY <2>1, <3>2 DEF AboutOrigin
    <3> QED
      BY <1>5, <2>1, <3>2, <3>3, <3>4, OneMoved
  <2> QED
    BY <2>2, <2>3, <2>4
<1> QED
    BY <1>1, <1>2, <1>3, <1>4, <1>5

\* The reconciliation, the end of a cycle, and its death.
LEMMA CycleEndsInv == ASSUME IssueInv, Reconcile \/ IssuesFiled \/ KillCycle PROVE IssueInv'
<1>1. CASE IssuesFiled \/ KillCycle
  <2>1. stored' = stored /\ fresh' = <<>>
    BY <1>1 DEF IssuesFiled, KillCycle
  <2> QED
    BY <2>1, SameStored DEF IssueInv
<1>2. CASE Reconcile
  <2>1. fresh' = fresh /\ scanning' = scanning
    BY <1>2 DEF Reconcile
  <2>2. PICK over \in SUBSET DOMAIN stored :
             stored' = [k \in DOMAIN stored |-> IF k \in over THEN [stored[k] EXCEPT !.status = "open"] ELSE stored[k]]
    BY <1>2 DEF Reconcile
  <2>3. ASSUME NEW k \in DOMAIN stored
        PROVE  /\ stored'[k] \in GRecord /\ stored'[k].fp = stored[k].fp /\ stored'[k].by = stored[k].by
               /\ stored[k].status = "open" => stored'[k].status = "open"
               /\ AboutOrigin(stored[k]) => AboutOrigin(stored'[k])
    <3>1. stored[k] \in GRecord
      BY DEF IssueInv
    <3>2. CASE k \notin over
      BY <2>2, <3>1, <3>2
    <3>3. CASE k \in over
      <4> DEFINE t == [stored[k] EXCEPT !.status = "open"]
      <4>1. t \in GRecord /\ t.fp = stored[k].fp /\ t.by = stored[k].by /\ t.github_issue = stored[k].github_issue
            /\ t.status = "open"
        BY <3>1, TicketSet DEF GStatus
      <4>2. stored'[k] = t
        BY <2>2, <3>3
      <4> HIDE DEF t
      <4> QED
        BY <4>1, <4>2 DEF AboutOrigin
    <3> QED
      BY <3>2, <3>3
  <2>4. stored' \in Seq(GRecord) /\ Len(stored') = Len(stored)
    <3>1. DOMAIN stored' = 1..Len(stored) /\ Len(stored) \in Nat /\ stored' = [k \in 1..Len(stored) |-> stored'[k]]
      BY <2>2 DEF IssueInv
    <3>2. DOMAIN stored = 1..Len(stored)
      BY DEF IssueInv
    <3> QED
      BY <2>3, <3>1, <3>2
  <2> QED
    BY <2>1, <2>3, <2>4, SameStored
<1> QED
    BY <1>1, <1>2

\* The cycle fetches the assigned issues that have no ticket.
LEMMA FetchInv == ASSUME IssueInv, FetchIssues PROVE IssueInv'
<1>1. PICK failed \in {FALSE, GhFails} :
          LET new == IF failed THEN {} ELSE {i \in GIssue : Open(i) /\ issues[i].assigned} \ Fingerprints
          IN /\ Cardinality(new) <= Room
             /\ fresh' = AsSeq(new, "fetch")
             /\ \E posted \in Posted(new) : stored' = stored \o AsSeq(posted, "fetch")
    BY DEF FetchIssues
<1> DEFINE new == IF failed THEN {} ELSE {i \in GIssue : Open(i) /\ issues[i].assigned} \ Fingerprints
<1>2. new \in SUBSET GIssue /\ \A i \in new : i \notin Fingerprints
    OBVIOUS
<1>3. fresh' = AsSeq(new, "fetch") /\ \E posted \in Posted(new) : stored' = stored \o AsSeq(posted, "fetch")
    BY <1>1
<1> HIDE DEF new
<1>4. PICK posted \in SUBSET new : stored' = stored \o AsSeq(posted, "fetch")
    BY <1>3 DEF Posted
<1> DEFINE F == AsSeq(new, "fetch")
           P == AsSeq(posted, "fetch")
<1>5. /\ F \in Seq(GRecord)
      /\ \A k \in DOMAIN F : F[k].fp \in new /\ F[k].github_issue = F[k].fp /\ F[k].by = "fetch"
      /\ \A k, n \in DOMAIN F : F[k].fp = F[n].fp => k = n
    BY <1>2, AsSeqOf
<1>6. /\ P \in Seq(GRecord)
      /\ \A k \in DOMAIN P : P[k].fp \in posted /\ P[k].github_issue = P[k].fp /\ P[k].by = "fetch" /\ P[k].status = "open"
      /\ \A k, n \in DOMAIN P : P[k].fp = P[n].fp => k = n
      /\ \A i \in posted : \E k \in DOMAIN P : P[k].fp = i
  <2>1. posted \in SUBSET GIssue
    BY <1>2
  <2> QED
    BY <2>1, AsSeqOf
<1>7. fresh' = F /\ stored' = stored \o P /\ stored \in Seq(GRecord)
    BY <1>3, <1>4 DEF IssueInv
<1> HIDE DEF F, P
<1>8. /\ stored' \in Seq(GRecord) /\ Len(stored) \in Nat /\ Len(stored') \in Nat /\ Len(stored) <= Len(stored')
      /\ \A k \in DOMAIN stored : k \in DOMAIN stored' /\ stored'[k] = stored[k]
      /\ \A n \in DOMAIN P : \E k \in DOMAIN stored' : stored'[k] = P[n]
      /\ \A k \in DOMAIN stored' : \/ \E n \in DOMAIN stored : stored'[k] = stored[n]
                                   \/ \E n \in DOMAIN P : stored'[k] = P[n]
  <2> DEFINE j == stored \o P
  <2>1. /\ j \in Seq(GRecord) /\ Len(stored) \in Nat /\ Len(j) \in Nat /\ Len(stored) <= Len(j)
        /\ \A k \in DOMAIN stored : k \in DOMAIN j /\ j[k] = stored[k]
        /\ \A n \in DOMAIN P : \E k \in DOMAIN j : j[k] = P[n]
        /\ \A k \in DOMAIN j : (\E n \in DOMAIN stored : j[k] = stored[n]) \/ (\E n \in DOMAIN P : j[k] = P[n])
    <3>1. stored \in Seq(GRecord) /\ P \in Seq(GRecord)
      BY <1>6, <1>7
    <3> QED
      BY <3>1, JoinedElements
  <2>2. stored' = j
    BY <1>6, <1>7
  <2> HIDE DEF j
  <2> QED
    BY <2>1, <2>2
<1>9. \A k \in DOMAIN stored : stored[k].fp \in Fingerprints
    BY DEF Fingerprints
<1>10. ASSUME Len(stored') <= ListLimit PROVE StoreIsSound'
  <2>0. StoreIsSound
    BY <1>8, <1>10, GitHubAssumption DEF IssueInv
  <2>1. Once(F) /\ Once(P)
    BY <1>5, <1>6 DEF Once
  <2>2. Once(stored')
    <3>1. \A k \in DOMAIN stored, n \in DOMAIN P : stored[k].fp = P[n].fp => stored[k].fp \in CriticalIssue
      BY <1>2, <1>6, <1>9
    <3>2. Once(stored)
      BY <2>0 DEF StoreIsSound
    <3> QED
      BY <1>6, <1>7, <2>1, <3>1, <3>2, JoinedOnce
  <2>3. \A k \in DOMAIN stored' : AboutOrigin(stored'[k])
    BY <1>6, <1>8, <2>0 DEF StoreIsSound, AboutOrigin
  <2>4. ASSUME NEW k \in DOMAIN F PROVE Placed(F[k], stored')
    <3>1. F[k].fp \in new /\ F[k].by = "fetch"
      BY <1>5
    <3>2. CASE F[k].fp \in posted
      <4>1. PICK n \in DOMAIN P : P[n].fp = F[k].fp
        BY <1>6, <3>2
      <4>2. PICK m \in DOMAIN stored' : stored'[m] = P[n]
        BY <1>8
      <4> QED
        BY <1>6, <3>1, <4>1, <4>2 DEF Placed
    <3>3. CASE F[k].fp \notin posted
      <4>1. \A m \in DOMAIN stored' : stored'[m].fp # F[k].fp
        BY <1>2, <1>6, <1>8, <1>9, <3>1, <3>3
      <4> QED
        BY <4>1 DEF Placed
    <3> QED
      BY <3>2, <3>3
  <2> QED
    BY <1>7, <2>1, <2>2, <2>3, <2>4 DEF StoreIsSound, Once, AboutOrigin, Placed
<1> QED
    BY <1>5, <1>7, <1>8, <1>10 DEF IssueInv

\* While the store is no longer than the list it gives, all of it is listed.
LEMMA AllListed ==
    ASSUME IssueInv, Len(stored) <= ListLimit
    PROVE  \A k \in DOMAIN stored : stored[k].github_issue \in IssuesOf(Newest)
<1>1. Len(stored) \in Nat /\ DOMAIN stored = 1..Len(stored) /\ \A k \in 1..Len(stored) : stored[k] \in GRecord
    BY DEF IssueInv
<1>2. Newest = SubSeq(stored, 1, Len(stored))
    BY <1>1, GitHubAssumption DEF Newest
<1>3. /\ Newest \in Seq(GRecord) /\ Len(Newest) = Len(stored)
      /\ \A i \in 1..Len(stored) : Newest[i] = stored[i]
  <2> DEFINE N == Len(stored)
  <2>1. N \in Int /\ 1 \in Int /\ \A k \in 1..N : stored[k] \in GRecord
    BY <1>1
  <2>2. /\ SubSeq(stored, 1, N) \in Seq(GRecord)
        /\ Len(SubSeq(stored, 1, N)) = IF 1 <= N THEN N - 1 + 1 ELSE 0
        /\ \A i \in 1..(N - 1 + 1) : SubSeq(stored, 1, N)[i] = stored[1 + i - 1]
    BY <2>1, SubSeqProperties
  <2>3. N - 1 + 1 = N /\ (IF 1 <= N THEN N - 1 + 1 ELSE 0) = N /\ \A i \in 1..N : 1 + i - 1 = i
    BY <1>1
  <2> QED
    BY <1>2, <2>2, <2>3
<1> QED
    BY <1>1, <1>3 DEF IssuesOf

\* The scanner adds the issues it has not been told of.
LEMMA ScanInv == ASSUME IssueInv, ScanIssues PROVE IssueInv'
<1>1. PICK failed \in {FALSE, GhFails} :
          LET new == IF failed THEN {}
                     ELSE {i \in GIssue : Open(i) /\ issues[i].assigned /\ ~issues[i].skip} \ (KnownToScan \cup seenFile)
          IN /\ Cardinality(new) <= Room
             /\ stored' = stored \o AsSeq(new, "scan")
             /\ fresh' = fresh \o AsSeq(new, "scan")
    BY DEF ScanIssues
<1> DEFINE new == IF failed THEN {}
                  ELSE {i \in GIssue : Open(i) /\ issues[i].assigned /\ ~issues[i].skip} \ (KnownToScan \cup seenFile)
           P == AsSeq(new, "scan")
<1>2. new \in SUBSET GIssue /\ \A i \in new : i \notin KnownToScan
    OBVIOUS
<1>3. fresh' = fresh \o P /\ stored' = stored \o P /\ stored \in Seq(GRecord) /\ fresh \in Seq(GRecord)
    BY <1>1 DEF IssueInv
<1> HIDE DEF new
<1>4. /\ P \in Seq(GRecord)
      /\ \A k \in DOMAIN P : P[k].fp \in new /\ P[k].github_issue = P[k].fp /\ P[k].by = "scan" /\ P[k].status = "open"
      /\ \A k, n \in DOMAIN P : P[k].fp = P[n].fp => k = n
    BY <1>2, AsSeqOf
<1> HIDE DEF P
<1>5. /\ stored' \in Seq(GRecord) /\ Len(stored) \in Nat /\ Len(stored') \in Nat /\ Len(stored) <= Len(stored')
      /\ \A k \in DOMAIN stored : k \in DOMAIN stored' /\ stored'[k] = stored[k]
      /\ \A n \in DOMAIN P : \E k \in DOMAIN stored' : stored'[k] = P[n]
      /\ \A k \in DOMAIN stored' : \/ \E n \in DOMAIN stored : stored'[k] = stored[n]
                                   \/ \E n \in DOMAIN P : stored'[k] = P[n]
  <2> DEFINE j == stored \o P
  <2>1. /\ j \in Seq(GRecord) /\ Len(stored) \in Nat /\ Len(j) \in Nat /\ Len(stored) <= Len(j)
        /\ \A k \in DOMAIN stored : k \in DOMAIN j /\ j[k] = stored[k]
        /\ \A n \in DOMAIN P : \E k \in DOMAIN j : j[k] = P[n]
        /\ \A k \in DOMAIN j : (\E n \in DOMAIN stored : j[k] = stored[n]) \/ (\E n \in DOMAIN P : j[k] = P[n])
    <3>1. stored \in Seq(GRecord) /\ P \in Seq(GRecord)
      BY <1>3, <1>4
    <3> QED
      BY <3>1, JoinedElements
  <2>2. stored' = j
    BY <1>3, <1>4
  <2> HIDE DEF j
  <2> QED
    BY <2>1, <2>2
<1>6. /\ fresh' \in Seq(GRecord)
      /\ \A k \in DOMAIN fresh' : \/ \E n \in DOMAIN fresh : fresh'[k] = fresh[n]
                                  \/ \E n \in DOMAIN P : fresh'[k] = P[n]
  <2> DEFINE j == fresh \o P
  <2>1. /\ j \in Seq(GRecord) /\ Len(fresh) \in Nat /\ Len(j) \in Nat /\ Len(fresh) <= Len(j)
        /\ \A k \in DOMAIN fresh : k \in DOMAIN j /\ j[k] = fresh[k]
        /\ \A n \in DOMAIN P : \E k \in DOMAIN j : j[k] = P[n]
        /\ \A k \in DOMAIN j : (\E n \in DOMAIN fresh : j[k] = fresh[n]) \/ (\E n \in DOMAIN P : j[k] = P[n])
    <3>1. fresh \in Seq(GRecord) /\ P \in Seq(GRecord)
      BY <1>3, <1>4
    <3> QED
      BY <3>1, JoinedElements
  <2>2. fresh' = j
    BY <1>3, <1>4
  <2> HIDE DEF j
  <2> QED
    BY <2>1, <2>2
<1>7. \A k \in DOMAIN fresh : fresh[k].fp \notin new
    BY <1>2 DEF KnownToScan, IssuesOf, IssueInv
<1>8. \A k \in DOMAIN fresh' : fresh'[k].github_issue = fresh'[k].fp
    BY <1>4, <1>6 DEF IssueInv
<1>9. ASSUME Len(stored') <= ListLimit PROVE StoreIsSound'
  <2>a. Len(stored) <= ListLimit
    BY <1>5, <1>9, GitHubAssumption
  <2>0. StoreIsSound /\ scanning = "fetched"
    BY <2>a DEF IssueInv, ScanIssues
  <2>1. Once(P)
    BY <1>4 DEF Once
  <2>2. \A k \in DOMAIN stored, n \in DOMAIN P : stored[k].fp = P[n].fp => stored[k].fp \in CriticalIssue
    <3>1. \A k \in DOMAIN stored : stored[k].github_issue \notin new
      BY <1>2, <2>a, AllListed DEF KnownToScan
    <3> QED
      BY <1>4, <2>0, <3>1 DEF StoreIsSound, AboutOrigin
  <2>3. Once(stored')
    BY <1>3, <1>4, <2>0, <2>1, <2>2, JoinedOnce DEF StoreIsSound
  <2>4. Once(fresh')
    <3>1. \A k \in DOMAIN fresh, n \in DOMAIN P : fresh[k].fp = P[n].fp => fresh[k].fp \in CriticalIssue
      BY <1>4, <1>7
    <3> QED
      BY <1>3, <1>4, <2>0, <2>1, <3>1, JoinedOnce DEF StoreIsSound
  <2>5. \A k \in DOMAIN stored' : AboutOrigin(stored'[k])
    BY <1>4, <1>5, <2>0 DEF StoreIsSound, AboutOrigin
  <2>6. ASSUME NEW k \in DOMAIN fresh' PROVE Placed(fresh'[k], stored')
    <3>1. ASSUME NEW n \in DOMAIN fresh, fresh'[k] = fresh[n] PROVE Placed(fresh'[k], stored')
      <4>1. Placed(fresh[n], stored)
        BY <2>0 DEF StoreIsSound
      <4>2. CASE \A m \in DOMAIN stored : stored[m].fp # fresh[n].fp
        <5>1. \A m \in DOMAIN stored' : stored'[m].fp # fresh[n].fp
          BY <1>4, <1>5, <1>7, <4>2
        <5> QED
          BY <3>1, <5>1 DEF Placed
      <4>3. CASE \E m \in DOMAIN stored : stored[m].fp = fresh[n].fp /\ stored[m].by = fresh[n].by
                                            /\ stored[m].status = "open"
        BY <1>5, <3>1, <4>3 DEF Placed
      <4> QED
        BY <3>1, <4>1, <4>2, <4>3 DEF Placed
    <3>2. ASSUME NEW n \in DOMAIN P, fresh'[k] = P[n] PROVE Placed(fresh'[k], stored')
      <4>1. PICK m \in DOMAIN stored' : stored'[m] = P[n]
        BY <1>5
      <4> QED
        BY <1>4, <3>2, <4>1 DEF Placed
    <3> QED
      BY <1>6, <3>1, <3>2
  <2> QED
    BY <2>3, <2>4, <2>5, <2>6 DEF StoreIsSound, Once, AboutOrigin, Placed
<1> QED
    BY <1>5, <1>6, <1>8, <1>9 DEF IssueInv

\* Some of the tickets of this cycle are triaged: they take their places in
\* the store, or are appended.
LEMMA TriageInv == ASSUME IssueInv, TriageNew PROVE IssueInv'
<1>1. PICK kept \in SUBSET DOMAIN fresh :
          stored' = AddAll(Sublist(fresh, kept), stored) /\ fresh' = Sublist(fresh, kept)
    BY DEF TriageNew
<1>t. scanning = "scanned" /\ scanning' = "triaged" /\ stored \in Seq(GRecord) /\ fresh \in Seq(GRecord)
    BY DEF TriageNew, IssueInv
<1> DEFINE q == Sublist(fresh, kept)
           c == Cardinality(kept)
<1>2. /\ q \in Seq(GRecord) /\ DOMAIN q = 1..c
      /\ \E at \in [1..c -> kept] : /\ \A k \in 1..c : q[k] = fresh[at[k]]
                                    /\ \A k, n \in 1..c : at[k] = at[n] => k = n
  <2>1. fresh \in Seq(GRecord) /\ kept \in SUBSET DOMAIN fresh
    BY <1>t
  <2>2. q \in Seq(GRecord) /\ DOMAIN q = 1..c
    BY <2>1, SublistOf
  <2>3. \E at \in [1..c -> kept] : /\ \A k \in 1..c : q[k] = fresh[at[k]]
                                   /\ \A k, n \in 1..c : at[k] = at[n] => k = n
    BY <2>1, SublistOf
  <2> QED
    BY <2>2, <2>3
<1>3. stored' = AddAll(q, stored) /\ fresh' = q
    BY <1>1
<1> HIDE DEF q, c
<1>4. PICK at \in [1..c -> kept] : /\ \A k \in 1..c : q[k] = fresh[at[k]]
                                   /\ \A k, n \in 1..c : at[k] = at[n] => k = n
    BY <1>2
<1>5. \A k \in DOMAIN q : at[k] \in DOMAIN fresh /\ q[k] = fresh[at[k]]
    BY <1>2, <1>4
<1> DEFINE new == {k \in DOMAIN q : PositionOf(q[k]) = {}}
           old == UNION {PositionOf(q[k]) : k \in DOMAIN q}
           b == Sublist(q, new)
           d == Cardinality(new)
           A == [k \in DOMAIN stored |-> IF k \in old THEN [stored[k] EXCEPT !.status = "triaged"] ELSE stored[k]]
           T == [k \in 1..d |-> [b[k] EXCEPT !.status = "triaged"]]
<1>6. stored' = A \o T
    BY <1>3 DEF AddAll
<1>7. /\ b \in Seq(GRecord) /\ d \in Nat /\ Len(b) = d /\ DOMAIN b = 1..d
      /\ \E on \in [1..d -> new] : /\ \A k \in 1..d : b[k] = q[on[k]]
                                   /\ \A k, n \in 1..d : on[k] = on[n] => k = n
  <2>1. q \in Seq(GRecord) /\ new \in SUBSET DOMAIN q
    BY <1>2
  <2> HIDE DEF new
  <2>2. b \in Seq(GRecord) /\ d \in Nat /\ Len(b) = d /\ DOMAIN b = 1..d
    BY <2>1, SublistOf
  <2>3. \E on \in [1..d -> new] : /\ \A k \in 1..d : b[k] = q[on[k]]
                                  /\ \A k, n \in 1..d : on[k] = on[n] => k = n
    BY <2>1, SublistOf
  <2> QED
    BY <2>2, <2>3
<1>8. \A k \in new : k \in DOMAIN q /\ PositionOf(q[k]) = {}
    OBVIOUS
<1> HIDE DEF new, old, b, d
<1>9. PICK on \in [1..d -> new] : /\ \A k \in 1..d : b[k] = q[on[k]]
                                  /\ \A k, n \in 1..d : on[k] = on[n] => k = n
    BY <1>7
<1>10. ASSUME NEW r \in GRecord
       PROVE  /\ [r EXCEPT !.status = "triaged"] \in GRecord /\ [r EXCEPT !.status = "triaged"].fp = r.fp
              /\ [r EXCEPT !.status = "triaged"].github_issue = r.github_issue
    BY TicketSet DEF GStatus
<1>11. /\ A \in Seq(GRecord) /\ DOMAIN A = DOMAIN stored /\ Len(A) = Len(stored)
       /\ \A k \in DOMAIN stored : A[k].fp = stored[k].fp /\ A[k].github_issue = stored[k].github_issue
  <2>1. \A k \in DOMAIN stored : A[k] = IF k \in old THEN [stored[k] EXCEPT !.status = "triaged"] ELSE stored[k]
    OBVIOUS
  <2>2. DOMAIN A = 1..Len(stored) /\ DOMAIN stored = 1..Len(stored) /\ Len(stored) \in Nat
        /\ A = [k \in 1..Len(stored) |-> A[k]]
    BY <1>t
  <2> HIDE DEF A
  <2>3. ASSUME NEW k \in DOMAIN stored
        PROVE  A[k] \in GRecord /\ A[k].fp = stored[k].fp /\ A[k].github_issue = stored[k].github_issue
    <3>1. stored[k] \in GRecord
      BY <1>t
    <3>2. CASE k \in old
      <4>1. A[k] = [stored[k] EXCEPT !.status = "triaged"]
        BY <2>1, <3>2
      <4> QED
        BY <1>10, <3>1, <4>1
    <3>3. CASE k \notin old
      BY <2>1, <3>1, <3>3
    <3> QED
      BY <3>2, <3>3
  <2> QED
    BY <2>2, <2>3
<1>12. /\ T \in Seq(GRecord) /\ DOMAIN T = 1..d
       /\ \A k \in 1..d : T[k].fp = b[k].fp /\ T[k].github_issue = b[k].github_issue
  <2>1. \A k \in 1..d : b[k] \in GRecord /\ T[k] = [b[k] EXCEPT !.status = "triaged"]
    BY <1>7
  <2>2. DOMAIN T = 1..d /\ T = [k \in 1..d |-> T[k]]
    OBVIOUS
  <2> HIDE DEF T
  <2>3. ASSUME NEW k \in 1..d
        PROVE  T[k] \in GRecord /\ T[k].fp = b[k].fp /\ T[k].github_issue = b[k].github_issue
    BY <1>10, <2>1
  <2>4. d \in Nat
    BY <1>7
  <2>5. T \in Seq(GRecord)
    BY <2>2, <2>3, <2>4
  <2> QED
    BY <2>2, <2>3, <2>5
<1> HIDE DEF A, T
<1> DEFINE j == A \o T
<1>13. /\ j \in Seq(GRecord) /\ Len(A) \in Nat /\ Len(j) \in Nat /\ Len(A) <= Len(j)
       /\ \A k \in DOMAIN j : (\E n \in DOMAIN A : j[k] = A[n]) \/ (\E n \in DOMAIN T : j[k] = T[n])
    BY <1>11, <1>12, JoinedElements
<1>14. ASSUME Len(j) <= ListLimit PROVE Once(j) /\ Once(q) /\ \A k \in DOMAIN j : AboutOrigin(j[k])
  <2>0. StoreIsSound
    <3>1. Len(stored) <= ListLimit
      BY <1>11, <1>13, <1>14, GitHubAssumption
    <3> QED
      BY <3>1 DEF IssueInv
  <2>1. Once(q)
    BY <1>2, <1>4, <1>5, <2>0 DEF StoreIsSound, Once
  <2>2. \A k \in 1..d : on[k] \in DOMAIN q /\ PositionOf(q[on[k]]) = {} /\ T[k].fp = q[on[k]].fp
                        /\ T[k].github_issue = q[on[k]].github_issue
    BY <1>8, <1>9, <1>12
  <2>3. Once(T)
    BY <1>9, <1>12, <2>1, <2>2 DEF Once
  <2>4. Once(A)
    BY <1>11, <2>0 DEF StoreIsSound, Once
  <2>5. ASSUME NEW k \in DOMAIN A, NEW n \in DOMAIN T, A[k].fp = T[n].fp PROVE A[k].fp \in CriticalIssue
    <3>1. q[on[n]] = fresh[at[on[n]]] /\ at[on[n]] \in DOMAIN fresh
      BY <1>5, <1>12, <2>2
    <3>2. Placed(q[on[n]], stored)
      BY <1>t, <2>0, <3>1 DEF StoreIsSound
    <3>3. \/ q[on[n]].fp \in CriticalIssue
          \/ \A m \in DOMAIN stored : stored[m].fp # q[on[n]].fp
      BY <1>12, <2>2, <3>2 DEF Placed, PositionOf
    <3>4. k \in DOMAIN stored /\ stored[k].fp = q[on[n]].fp
      BY <1>11, <1>12, <2>2, <2>5
    <3> QED
      BY <1>12, <2>2, <2>5, <3>3, <3>4
  <2>6. Once(j)
    BY <1>11, <1>12, <2>3, <2>4, <2>5, JoinedOnce
  <2>7. \A k \in DOMAIN A : AboutOrigin(A[k])
    BY <1>11, <2>0 DEF StoreIsSound, AboutOrigin
  <2>8. \A k \in DOMAIN T : AboutOrigin(T[k])
    BY <1>5, <1>12, <2>2 DEF AboutOrigin, IssueInv
  <2> QED
    BY <1>13, <2>1, <2>6, <2>7, <2>8
<1>15. stored' = j /\ \A k \in DOMAIN q : q[k].github_issue = q[k].fp
    BY <1>5, <1>6 DEF IssueInv
<1> HIDE DEF j
<1>16. Len(stored') <= ListLimit => StoreIsSound'
    BY <1>3, <1>t, <1>14, <1>15 DEF StoreIsSound, Once, AboutOrigin
<1> QED
    BY <1>2, <1>3, <1>13, <1>15, <1>16 DEF IssueInv

\* Every step keeps the invariant.
LEMMA IssueNextInv == IssueInv /\ [GitHubNext]_ghVars => IssueInv'
<1> SUFFICES ASSUME IssueInv, [GitHubNext]_ghVars PROVE IssueInv'
    OBVIOUS
<1>1. CASE UNCHANGED ghVars
  <2>1. stored' = stored /\ fresh' = fresh /\ scanning' = scanning
    BY <1>1 DEF ghVars
  <2> QED
    BY <2>1, SameStored DEF IssueInv
<1>2. CASE GitHubNext
    BY <1>2, TicketStepsInv, CycleEndsInv, FetchInv, ScanInv, TriageInv DEF GitHubNext
<1> QED
    BY <1>1, <1>2

\* An issue that is not critical gets one ticket (fetch_github_tickets, the
\* scanner's scan and the store's add), for any issues, whichever calls fail
\* and wherever the runner dies, as long as list_all still gives all tickets:
\* the Supabase store's gives the newest 500.
THEOREM IssuesGetOneTicket == GitHubSpec => [](Len(stored) <= ListLimit => OneTicketPerIssue)
<1>1. GitHubInit => IssueInv
  <2> SUFFICES ASSUME GitHubInit PROVE IssueInv
    OBVIOUS
  <2>1. stored = <<>> /\ fresh = <<>>
    BY DEF GitHubInit
  <2> QED
    BY <2>1 DEF IssueInv, StoreIsSound, Once
<1>2. IssueInv => (Len(stored) <= ListLimit => OneTicketPerIssue)
    BY DEF IssueInv, StoreIsSound, Once, OneTicketPerIssue
<1> QED
    BY <1>1, <1>2, IssueNextInv, PTL DEF GitHubSpec

-----------------------------------------------------------------------------
(* The pipeline engine: why its answer is that of its stages.               *)

StageTale == [what : {"success", "failed", "skipped", "raised"}, cost : Nat]
Costs(d) == [k \in DOMAIN d |-> d[k].cost]
WellDone == {k \in DOMAIN did : did[k].what = "success"}
LastWellDone == IF WellDone = {} THEN 0 ELSE Max(WellDone)

PipeShape(p) ==
    /\ p = [stage |-> p.stage, out |-> p.out, cost |-> p.cost, failed |-> p.failed, result |-> p.result]
    /\ p.failed \in BOOLEAN

\* While stages are still to run, the pipeline holds what the stages so far
\* amount to.
HonestSoFar ==
    /\ pipe.stage = Len(did) + 1
    /\ pipe.out = LastWellDone
    /\ pipe.cost = Total(Costs(did), Len(did))
    /\ \A k \in DOMAIN did : did[k].what # "raised" /\ (did[k].what = "failed" => pipe.failed)

HonestInv ==
    /\ PipeShape(pipe) /\ did \in Seq(StageTale)
    /\ Pending => HonestSoFar
    /\ PipelineIsHonest

\* The largest of some numbers.
LEMMA MaxIs ==
    ASSUME NEW S, S \subseteq Nat, NEW x \in S, \A y \in S : y <= x
    PROVE  Max(S) = x
<1>1. \A z \in S : (\A y \in S : z >= y) => z = x
    OBVIOUS
<1>2. x \in S /\ \A y \in S : x >= y
    OBVIOUS
<1> QED
    BY <1>1, <1>2 DEF Max

\* One more stage has been run or skipped.
LEMMA StageAdded ==
    ASSUME did \in Seq(StageTale), NEW what \in {"success", "failed", "skipped", "raised"},
           NEW c \in Nat, did' = Append(did, [what |-> what, cost |-> c])
    PROVE  /\ did' \in Seq(StageTale) /\ Len(did') = Len(did) + 1 /\ Len(did) \in Nat
           /\ DOMAIN did' = DOMAIN did \cup {Len(did) + 1} /\ did'[Len(did) + 1].what = what
           /\ \A k \in DOMAIN did : did'[k] = did[k]
           /\ LastWellDone' = IF what = "success" THEN Len(did) + 1 ELSE LastWellDone
           /\ Total(Costs(did), Len(did)) \in Nat
           /\ Total(Costs(did)', Len(did')) = Total(Costs(did), Len(did)) + c
<1> DEFINE e == [what |-> what, cost |-> c]
           n == Len(did)
<1>1. e \in StageTale /\ e.what = what /\ e.cost = c
    BY DEF StageTale
<1>2. n \in Nat /\ DOMAIN did = 1..n /\ \A k \in 1..n : did[k] \in StageTale
    OBVIOUS
<1>3. did' = Append(did, e)
    OBVIOUS
<1> HIDE DEF e
<1>4. did' \in Seq(StageTale) /\ Len(did') = n + 1 /\ did'[n + 1] = e /\ DOMAIN did' = 1..(n + 1)
    BY <1>1, <1>3
<1>5. \A k \in 1..n : did'[k] = did[k]
    BY <1>1, <1>3
<1> HIDE DEF n
<1>6. DOMAIN did' = DOMAIN did \cup {n + 1}
    BY <1>2, <1>4
<1>7. LastWellDone' = IF what = "success" THEN n + 1 ELSE LastWellDone
  <2>1. WellDone' = {k \in 1..(n + 1) : did'[k].what = "success"}
    BY <1>4 DEF WellDone
  <2>2. WellDone = {k \in 1..n : did[k].what = "success"}
    BY <1>2 DEF WellDone
  <2>3. ASSUME what = "success" PROVE LastWellDone' = n + 1
    <3>1. WellDone' \subseteq Nat /\ n + 1 \in WellDone' /\ \A y \in WellDone' : y <= n + 1
      BY <1>1, <1>2, <1>4, <2>1, <2>3
    <3>2. Max(WellDone') = n + 1
      BY <3>1, MaxIs
    <3> QED
      BY <3>1, <3>2 DEF LastWellDone
  <2>4. ASSUME what # "success" PROVE LastWellDone' = LastWellDone
    <3>1. WellDone' = WellDone
      BY <1>1, <1>2, <1>4, <1>5, <2>1, <2>2, <2>4
    <3> QED
      BY <3>1 DEF LastWellDone
  <2> QED
    BY <2>3, <2>4
<1>8. Total(Costs(did), n) \in Nat /\ Total(Costs(did)', n + 1) = Total(Costs(did), n) + c
  <2> DEFINE f == Costs(did)'
             g == Costs(did)
  <2>1. g \in [1..n -> Nat] /\ \A k \in 1..n : g[k] = did[k].cost
    BY <1>2 DEF Costs, StageTale
  <2>2. \A k \in 1..(n + 1) : did'[k] \in StageTale
    BY <1>4
  <2>3. f \in [1..(n + 1) -> Nat] /\ \A k \in 1..(n + 1) : f[k] = did'[k].cost
    BY <1>4, <2>2 DEF Costs, StageTale
  <2> HIDE DEF f, g
  <2>4. \A k \in 1..n : k \in 1..(n + 1)
    BY <1>2
  <2>5. \A k \in 1..n : f[k] = g[k]
    BY <1>5, <2>1, <2>3, <2>4
  <2>6. n + 1 \in 1..(n + 1)
    BY <1>2
  <2>7. f[n + 1] = c
    BY <1>1, <1>4, <2>3, <2>6
  <2>8. Total(g, n) \in Nat /\ Total(f, n + 1) = Total(g, n) + f[n + 1]
    BY <1>2, <2>1, <2>3, <2>5, TotalLast
  <2> QED
    BY <2>7, <2>8 DEF f, g
<1>9. Len(did') = n + 1 /\ did'[n + 1].what = what
    BY <1>1, <1>4
<1> QED
    BY <1>2, <1>4, <1>5, <1>6, <1>7, <1>8, <1>9 DEF n

\* A pipeline that goes on or ends after one more stage.
LEMMA StageDone ==
    ASSUME HonestInv, Pending, NEW what \in {"success", "failed", "skipped", "raised"}, NEW c \in Nat,
           did' = Append(did, [what |-> what, cost |-> c]),
           PipeShape(pipe)', pipe'.stage = pipe.stage + 1,
           Pending' => what # "raised" /\ pipe'.cost = pipe.cost + c
                       /\ pipe'.out = (IF what = "success" THEN pipe.stage ELSE pipe.out)
                       /\ pipe'.failed = (pipe.failed \/ what = "failed"),
           ~Pending' => pipe'.result.rc \in {1, 3}
                        /\ (pipe'.result.rc = 1 => what \in {"failed", "skipped"} /\ pipe'.result.out = pipe.out)
    PROVE  HonestInv'
<1>1. did \in Seq(StageTale) /\ HonestSoFar /\ PipeShape(pipe)
    BY DEF HonestInv
<1> DEFINE n == Len(did)
           total == Total(Costs(did), Len(did))
           ntotal == Total(Costs(did)', Len(did'))
           last == LastWellDone
           nlast == LastWellDone'
<1>2. /\ did' \in Seq(StageTale) /\ Len(did') = n + 1 /\ n \in Nat
      /\ DOMAIN did' = DOMAIN did \cup {n + 1} /\ did'[n + 1].what = what
      /\ \A k \in DOMAIN did : did'[k] = did[k]
    BY <1>1, StageAdded
<1>3. nlast = IF what = "success" THEN n + 1 ELSE last
    BY <1>1, StageAdded
<1>4. total \in Nat /\ ntotal = total + c
    BY <1>1, StageAdded
<1>5. /\ pipe.stage = n + 1 /\ pipe.out = last /\ pipe.cost = total
      /\ \A k \in DOMAIN did : did[k].what # "raised" /\ (did[k].what = "failed" => pipe.failed)
    BY <1>1 DEF HonestSoFar
<1> HIDE DEF n, total, ntotal, last, nlast
<1>6. ASSUME Pending' PROVE HonestSoFar'
  <2>1. pipe'.stage = Len(did') + 1
    BY <1>2, <1>5
  <2>2. pipe'.out = nlast /\ pipe'.cost = ntotal
    BY <1>3, <1>4, <1>5, <1>6
  <2>3. \A k \in DOMAIN did' : did'[k].what # "raised" /\ (did'[k].what = "failed" => pipe'.failed)
    BY <1>2, <1>5, <1>6
  <2> QED
    BY <2>1, <2>2, <2>3 DEF HonestSoFar, nlast, ntotal
<1>7. PipelineIsHonest'
  <2>1. CASE Pending'
    BY <2>1 DEF PipelineIsHonest, Pending, Running
  <2>2. CASE ~Pending' /\ pipe'.result.rc = 3
    BY <2>2 DEF PipelineIsHonest
  <2>3. CASE ~Pending' /\ pipe'.result.rc = 1
    <3>1. pipe'.result.out = nlast
      BY <1>3, <1>5, <2>3
    <3>2. nlast = (IF SuccessfulStages = {} THEN 0 ELSE Max(SuccessfulStages))'
      BY DEF nlast, LastWellDone, WellDone, SuccessfulStages
    <3> QED
      BY <2>3, <3>1, <3>2 DEF PipelineIsHonest
  <2> QED
    BY <2>1, <2>2, <2>3
<1> QED
    BY <1>2, <1>6, <1>7 DEF HonestInv

\* Every step of the pipeline keeps it honest.
LEMMA HonestNext == HonestInv /\ [StagesNext]_stageVars => HonestInv'
<1> SUFFICES ASSUME HonestInv, [StagesNext]_stageVars PROVE HonestInv'
    OBVIOUS
<1>s. PipeShape(pipe) /\ did \in Seq(StageTale)
    BY DEF HonestInv
<1>r. Running.rc = 2
    BY DEF Running
<1>1. CASE StageSkipped
  <2> DEFINE r == Result(1, pipe.out, 0)
  <2>1. Pending /\ did' = Append(did, [what |-> "skipped", cost |-> 0])
    BY <1>1 DEF StageSkipped, StageTold
  <2>2. r.rc = 1 /\ r.out = pipe.out
    BY DEF Result
  <2>3. pipe' = [pipe EXCEPT !.stage = @ + 1] \/ pipe' = [pipe EXCEPT !.stage = @ + 1, !.result = r]
    BY <1>1 DEF StageSkipped
  <2> HIDE DEF r
  <2>4. /\ PipeShape(pipe)' /\ pipe'.stage = pipe.stage + 1 /\ pipe'.cost = pipe.cost
        /\ pipe'.out = pipe.out /\ pipe'.failed = pipe.failed
        /\ pipe'.result = pipe.result \/ pipe'.result = r
    BY <1>s, <2>3 DEF PipeShape
  <2>5. pipe.cost \in Nat
    BY <1>s, <2>1, StageAdded DEF HonestInv, HonestSoFar
  <2>6. pipe'.cost = pipe.cost + 0 /\ pipe'.failed = (pipe.failed \/ FALSE)
    BY <1>s, <2>4, <2>5 DEF PipeShape
  <2>7. Pending \in BOOLEAN /\ (pipe'.result = pipe.result => Pending')
    BY <2>1 DEF Pending
  <2>8. ~Pending' => pipe'.result = r
    BY <2>4, <2>7
  <2>9. "skipped" \in {"success", "failed", "skipped", "raised"} /\ 0 \in Nat
    OBVIOUS
  <2>10. ~Pending' => pipe'.result.rc = 1 /\ pipe'.result.out = pipe.out
    BY <2>2, <2>8
  <2> QED
    BY <2>1, <2>4, <2>6, <2>9, <2>10, StageDone
<1>2. CASE StageRuns
  <2>1. PICK c \in StageCost :
         \/ /\ StageTold("success", c)
            /\ pipe' = [pipe EXCEPT !.stage = @ + 1, !.out = pipe.stage, !.cost = @ + c]
         \/ /\ StageTold("failed", c)
            /\ LET after == [AfterFailure(pipe) EXCEPT !.stage = @ + 1, !.cost = @ + c, !.failed = TRUE]
               IN pipe' = IF StopOnFailure THEN [after EXCEPT !.result = Result(1, after.out, after.cost)] ELSE after
         \/ /\ StageTold("raised", c)
            /\ pipe' = [pipe EXCEPT !.stage = @ + 1, !.result = Result(3, 0, 0)]
    BY <1>2 DEF StageRuns
  <2>2. Pending /\ c \in Nat
    BY <1>2, StageAssumption DEF StageRuns
  <2>3. ASSUME StageTold("success", c), pipe' = [pipe EXCEPT !.stage = @ + 1, !.out = pipe.stage, !.cost = @ + c]
        PROVE  HonestInv'
    <3>1. /\ PipeShape(pipe)' /\ pipe'.stage = pipe.stage + 1 /\ pipe'.cost = pipe.cost + c
          /\ pipe'.out = pipe.stage /\ pipe'.failed = pipe.failed /\ pipe'.result = pipe.result
      BY <1>s, <2>3 DEF PipeShape
    <3>2. Pending'
      BY <2>2, <3>1 DEF Pending
    <3>3. pipe'.failed = (pipe.failed \/ "success" = "failed")
      BY <1>s, <3>1 DEF PipeShape
    <3>4. did' = Append(did, [what |-> "success", cost |-> c])
      BY <2>3 DEF StageTold
    <3> QED
      BY <2>2, <3>1, <3>2, <3>3, <3>4, StageDone
  <2>4. ASSUME StageTold("failed", c),
               LET after == [AfterFailure(pipe) EXCEPT !.stage = @ + 1, !.cost = @ + c, !.failed = TRUE]
               IN pipe' = IF StopOnFailure THEN [after EXCEPT !.result = Result(1, after.out, after.cost)] ELSE after
        PROVE  HonestInv'
    <3> DEFINE after == [pipe EXCEPT !.stage = @ + 1, !.cost = @ + c, !.failed = TRUE]
               r == Result(1, after.out, after.cost)
    <3>1. pipe' = [after EXCEPT !.result = r] \/ pipe' = after
      BY <2>4 DEF AfterFailure
    <3>2. /\ PipeShape(after) /\ after.stage = pipe.stage + 1 /\ after.cost = pipe.cost + c
          /\ after.out = pipe.out /\ after.failed = TRUE /\ after.result = pipe.result
      <4> DEFINE p == pipe
                 st == p.stage + 1
                 x == p.cost + c
      <4>1. after = [p EXCEPT !.stage = st, !.cost = x, !.failed = TRUE] /\ PipeShape(p)
        BY <1>s
      <4>2. st = pipe.stage + 1 /\ x = pipe.cost + c /\ p = pipe
        OBVIOUS
      <4> HIDE DEF p, st, x, after
      <4> QED
        BY <4>1, <4>2 DEF PipeShape
    <3>3. r.rc = 1 /\ r.out = after.out
      BY DEF Result
    <3> HIDE DEF after, r
    <3>4. /\ PipeShape(pipe)' /\ pipe'.stage = pipe.stage + 1 /\ pipe'.cost = pipe.cost + c
          /\ pipe'.out = pipe.out /\ pipe'.failed = TRUE
          /\ pipe'.result = pipe.result \/ pipe'.result = r
      BY <3>1, <3>2 DEF PipeShape
    <3>5. ~Pending' => pipe'.result.rc = 1 /\ pipe'.result.out = pipe.out
      BY <2>2, <3>2, <3>3, <3>4 DEF Pending
    <3>6. did' = Append(did, [what |-> "failed", cost |-> c])
      BY <2>4 DEF StageTold
    <3>7. pipe'.failed = (pipe.failed \/ "failed" = "failed")
      BY <3>4
    <3> QED
      BY <2>2, <3>4, <3>5, <3>6, <3>7, StageDone
  <2>5. ASSUME StageTold("raised", c), pipe' = [pipe EXCEPT !.stage = @ + 1, !.result = Result(3, 0, 0)]
        PROVE  HonestInv'
    <3> DEFINE r == Result(3, 0, 0)
    <3>1. r.rc = 3
      BY DEF Result
    <3>2. pipe' = [pipe EXCEPT !.stage = @ + 1, !.result = r]
      BY <2>5
    <3> HIDE DEF r
    <3>3. PipeShape(pipe)' /\ pipe'.stage = pipe.stage + 1 /\ pipe'.result = r
      BY <1>s, <3>2 DEF PipeShape
    <3>4. ~Pending' /\ pipe'.result.rc = 3
      BY <1>r, <3>1, <3>3 DEF Pending
    <3>5. did' = Append(did, [what |-> "raised", cost |-> c])
      BY <2>5 DEF StageTold
    <3> QED
      BY <2>2, <3>3, <3>4, <3>5, StageDone
  <2> QED
    BY <2>1, <2>3, <2>4, <2>5
<1>3. CASE StagesOver
  <2> DEFINE r == Result(IF pipe.failed THEN 1 ELSE 0, pipe.out, pipe.cost)
  <2>1. Pending /\ did' = did /\ pipe' = [pipe EXCEPT !.result = r]
    BY <1>3 DEF StagesOver
  <2>2. r.rc = (IF pipe.failed THEN 1 ELSE 0) /\ r.out = pipe.out /\ r.cost = pipe.cost
    BY DEF Result
  <2> HIDE DEF r
  <2>3. PipeShape(pipe)' /\ pipe'.result = r
    BY <1>s, <2>1 DEF PipeShape
  <2>4. ~Pending'
    BY <1>r, <2>2, <2>3 DEF Pending
  <2>5. HonestSoFar
    BY <2>1 DEF HonestInv
  <2>6. \A k \in DOMAIN did : did[k] \in StageTale
    BY <1>s
  <2>7. r.rc = 0 => \A k \in DOMAIN did : did[k].what \in {"success", "skipped"}
    BY <2>2, <2>5, <2>6 DEF HonestSoFar, StageTale
  <2>8. r.out = (IF SuccessfulStages = {} THEN 0 ELSE Max(SuccessfulStages))
    BY <2>2, <2>5 DEF HonestSoFar, LastWellDone, WellDone, SuccessfulStages
  <2>9. r.cost = Total([k \in DOMAIN did |-> did[k].cost], Len(did))
    BY <2>2, <2>5 DEF HonestSoFar, Costs
  <2>10. SuccessfulStages' = SuccessfulStages
    BY <2>1 DEF SuccessfulStages
  <2>11. PipelineIsHonest'
    BY <2>1, <2>3, <2>7, <2>8, <2>9, <2>10 DEF PipelineIsHonest
  <2> QED
    BY <1>s, <2>1, <2>3, <2>4, <2>11 DEF HonestInv
<1>4. CASE UNCHANGED stageVars
  <2>1. pipe' = pipe /\ did' = did
    BY <1>4 DEF stageVars
  <2> QED
    BY <2>1 DEF HonestInv, PipeShape, Pending, HonestSoFar, LastWellDone, WellDone, Costs,
           PipelineIsHonest, SuccessfulStages
<1> QED
    BY <1>1, <1>2, <1>3, <1>4 DEF StagesNext

\* A pipeline's answer is the output of the last stage that succeeded, with
\* the cost of every stage, and it is a success only if none failed, for any
\* list of stages and any settings (PipelineEngine.run of pipeline_engine.py).
THEOREM PipelinesAreHonest == StagesSpec => []PipelineIsHonest
<1>1. StagesInit => HonestInv
  <2> SUFFICES ASSUME StagesInit PROVE HonestInv
    OBVIOUS
  <2>1. /\ pipe.stage = 1 /\ pipe.out = 0 /\ pipe.cost = 0 /\ pipe.failed = FALSE
        /\ pipe.result = Running /\ PipeShape(pipe) /\ did = <<>>
    BY DEF StagesInit, PipeShape
  <2>2. did \in Seq(StageTale) /\ Len(did) = 0 /\ DOMAIN did = {}
    BY <2>1
  <2>3. Total(Costs(did), 0) = 0
    <3> DEFINE f == Costs(did)
    <3>1. f \in [1..0 -> Nat] /\ 0 \in Nat
      BY <2>2 DEF Costs
    <3> HIDE DEF f
    <3>2. PICK u : SumsOf(f, 0, u) /\ Total(f, 0) = u[0]
      BY <3>1, TotalIs
    <3> QED
      BY <3>1, <3>2, SumsAre DEF f
  <2>4. HonestSoFar
    BY <2>1, <2>2, <2>3 DEF HonestSoFar, LastWellDone, WellDone
  <2>5. PipelineIsHonest
    BY <2>1 DEF PipelineIsHonest, Running
  <2> QED
    BY <2>1, <2>2, <2>4, <2>5 DEF HonestInv
<1>2. HonestInv /\ [StagesNext]_stageVars => HonestInv'
    BY HonestNext
<1>3. HonestInv => PipelineIsHonest
    BY DEF HonestInv
<1> QED
    BY <1>1, <1>2, <1>3, PTL DEF StagesSpec
=============================================================================
