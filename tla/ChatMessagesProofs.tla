-------------------------- MODULE ChatMessagesProofs --------------------------
(***************************************************************************)
(* Proofs about ChatMessages, for any connections, loops, users, rooms and  *)
(* requests in progress: the numbers of a room's messages have no gap and   *)
(* follow what the sender had seen, and no recall by somebody who was sent  *)
(* the message overtakes it.                                                *)
(***************************************************************************)
EXTENDS ChatMessages, TLAPS

(***************************************************************************)
(* The session manager                                                      *)
(***************************************************************************)

Sessions == SMTypeOK /\ AuthenticatedHasUid

\* Every operation of the session manager that the environment calls keeps the
\* types and a uid in every session (session_manager.cc:10-58).
LEMMA SessionsStep ==
    ASSUME Sessions,
           \/ \E c \in Conns : OnConnection(c) \/ Shutdown(c) \/ OnDisconnection(c)
           \/ \E c \in Conns : Deauthenticate(c)
           \/ \E c \in Conns, u \in Uids, t \in Tokens : Authenticate(c, u, t)
           \/ Restart
           \/ UNCHANGED smVars
    PROVE  Sessions'
<1> USE NullAssumption
<1> USE DEF Sessions, AuthenticatedHasUid, IsAuthenticated, GetUid
<1>1. ASSUME NEW c \in Conns, OnConnection(c) \/ Shutdown(c)
      PROVE  Sessions'
  BY <1>1 DEF OnConnection, Shutdown, SMTypeOK, TcpStates
<1>2. ASSUME NEW c \in Conns, OnDisconnection(c)
      PROVE  Sessions'
  BY <1>2 DEF OnDisconnection, EraseUser, SMTypeOK, TcpStates
<1>3. ASSUME NEW c \in Conns, Deauthenticate(c)
      PROVE  Sessions'
  <2>1. SMTypeOK'
    BY <1>3 DEF Deauthenticate, EraseUser, SMTypeOK, Session, NoSession
  <2>2. AuthenticatedHasUid'
    BY <1>3 DEF Deauthenticate, SMTypeOK, NoSession
  <2> QED
    BY <2>1, <2>2
<1>4. ASSUME NEW c \in Conns, NEW u \in Uids, NEW t \in Tokens, Authenticate(c, u, t)
      PROVE  Sessions'
  <2>1. SMTypeOK'
    BY <1>4 DEF Authenticate, RecordLogin, Rivals, SMTypeOK, Session
  <2>2. AuthenticatedHasUid'
    BY <1>4 DEF Authenticate, SMTypeOK
  <2> QED
    BY <2>1, <2>2
<1>5. CASE Restart
  BY <1>5 DEF Restart, SMTypeOK, NoSession, Session, TcpStates
<1>6. CASE UNCHANGED smVars
  BY <1>6 DEF smVars, SMTypeOK
<1> QED
  BY <1>1, <1>2, <1>3, <1>4, <1>5, <1>6

\* A user who is logged in has a uid.
LEMMA AuthenticatedUid ==
    ASSUME Sessions, NEW c \in Conns, IsAuthenticated(c)
    PROVE  GetUid(c) \in Uids
  BY DEF Sessions, SMTypeOK, Session, AuthenticatedHasUid, GetUid, IsAuthenticated

LEMMA OnlineConn ==
    ASSUME Sessions, NEW u \in Uids, IsOnline(u)
    PROVE  GetConnection(u) \in Conns
  BY DEF Sessions, SMTypeOK, IsOnline, GetConnection

-----------------------------------------------------------------------------
(***************************************************************************)
(* What a step may do to the table, to the jobs and to the bounds           *)
(***************************************************************************)

\* Rows stay, and what is said of their place in the room.
RowsStay ==
    /\ messages' \in Seq(Row)
    /\ Len(messages) <= Len(messages')
    /\ \A i \in 1..Len(messages) :
           /\ messages'[i].room = messages[i].room
           /\ messages'[i].seq = messages[i].seq
           /\ messages'[i].base = messages[i].base

BoundsOK ==
    /\ accepted \in 0..MaxMessages
    /\ recalls \in 0..MaxRecalls
    /\ logins \in 0..MaxLogins
    /\ faults \in 0..MaxFaults
    /\ restarts \in 0..MaxRestarts

NetOK ==
    /\ functors \in [Loops -> Seq([conn : Conns, item : Item])]
    /\ wire \in [Conns -> Seq([item : Item, session : Uids \cup {NoUid}])]

RoomsOK == created \in SUBSET Rooms /\ roster \in [Rooms -> SUBSET Uids]

LEMMA TypeParts ==
    TypeOK <=> /\ SMTypeOK /\ messages \in Seq(Row) /\ RoomsOK
               /\ job \in [Slots -> Job] /\ NetOK /\ BoundsOK
  BY DEF TypeOK, RoomsOK, NetOK, BoundsOK

LEMMA RowsStayUnchanged ==
    ASSUME TypeOK, UNCHANGED messages
    PROVE  RowsStay
<1>1. messages \in Seq(Row) /\ Len(messages) \in Nat
  BY DEF TypeOK
<1> QED
  BY <1>1 DEF RowsStay

\* A job that was sound is sound with more rows.
LEMMA SoundStays ==
    ASSUME TypeOK, RowsStay, NEW j, JobIsSound(j)
    PROVE  JobIsSound(j)'
<1>1. Len(messages) \in Nat /\ Len(messages') \in Nat /\ Len(messages) <= Len(messages')
  BY DEF RowsStay, TypeOK
<1>2. j.msg \in 0..Len(messages') \/ j.pc = "get"
  BY <1>1 DEF JobIsSound
<1> QED
  BY <1>2 DEF JobIsSound

\* The parts of MsgInv, from those of a step
LEMMA MsgStep ==
    ASSUME MsgInv, Sessions', RowsStay, RoomsOK', NetOK', BoundsOK',
           job' \in [Slots -> Job],
           \A s \in Slots : job'[s] = job[s] \/ JobIsSound(job[s])'
    PROVE  MsgInv'
<1>1. TypeOK'
  BY DEF TypeOK, RoomsOK, NetOK, BoundsOK, RowsStay, Sessions
<1>2. ASSUME NEW s \in Slots
      PROVE  JobIsSound(job[s])'
  <2>1. CASE job'[s] = job[s]
    <3>1. PICK j : j = job[s] /\ j = job'[s]
      BY <2>1
    <3>2. JobIsSound(j)
      BY <3>1 DEF MsgInv
    <3>3. JobIsSound(j)'
      BY <3>2, SoundStays DEF MsgInv
    <3> QED
      BY <3>1, <3>3
  <2> QED
    BY <2>1
<1> QED
  BY <1>1, <1>2 DEF MsgInv, Sessions

\* One request goes on; the sessions and the rooms stay.
LEMMA OneJob ==
    ASSUME TypeOK, NEW s \in Slots, NEW k \in Job, job' = [job EXCEPT ![s] = k]
    PROVE  /\ job' \in [Slots -> Job]
           /\ job'[s] = k
           /\ \A q \in Slots : q # s => job'[q] = job[q]
  BY DEF TypeOK

\* Nothing changes but the jobs, the bounds and the rows.
LEMMA JobStep ==
    ASSUME MsgInv, NEW s \in Slots, NEW k \in Job, job' = [job EXCEPT ![s] = k],
           UNCHANGED <<smVars, rooms, net>>, RowsStay, BoundsOK', JobIsSound(k)'
    PROVE  MsgInv'
<1>1. TypeOK
  BY DEF MsgInv
<1>2. Sessions'
  BY SessionsStep DEF MsgInv, Sessions, TypeOK
<1>3. RoomsOK' /\ NetOK'
  BY <1>1 DEF TypeOK, RoomsOK, NetOK, rooms, net
<1>4. /\ job' \in [Slots -> Job]
      /\ job'[s] = k
      /\ \A q \in Slots : q # s => job'[q] = job[q]
  BY <1>1, OneJob
<1>5. \A q \in Slots : job'[q] = job[q] \/ JobIsSound(job[q])'
  BY <1>4
<1> QED
  BY <1>2, <1>3, <1>4, <1>5, MsgStep

-----------------------------------------------------------------------------
(***************************************************************************)
(* The jobs that the steps make                                             *)
(***************************************************************************)

LEMMA IdleJob ==
    /\ Idle \in Job /\ Idle.pc = "idle" /\ Idle.kind = "msg" /\ Idle.msg = 0
    /\ Idle.seq = 1 /\ Idle.row = NoRoom
  BY DEF Idle, Job, Pcs, Kinds

\* No job that is idle, or that peeks, is unsound.
LEMMA IdleIsSound ==
    ASSUME MsgInv, RowsStay
    PROVE  JobIsSound(Idle)'
<1>1. Len(messages') \in Nat
  BY DEF RowsStay
<1>2. 0 \in 0..Len(messages')
  BY <1>1
<1> QED
  BY <1>2, IdleJob DEF JobIsSound

\* A job at another place
LEMMA PcJob ==
    ASSUME NEW j \in Job, NEW pc \in Pcs
    PROVE  /\ [j EXCEPT !.pc = pc] \in Job
           /\ [j EXCEPT !.pc = pc].pc = pc
           /\ [j EXCEPT !.pc = pc].kind = j.kind
           /\ [j EXCEPT !.pc = pc].conn = j.conn
           /\ [j EXCEPT !.pc = pc].from = j.from
           /\ [j EXCEPT !.pc = pc].to = j.to
           /\ [j EXCEPT !.pc = pc].room = j.room
           /\ [j EXCEPT !.pc = pc].row = j.row
           /\ [j EXCEPT !.pc = pc].seq = j.seq
           /\ [j EXCEPT !.pc = pc].base = j.base
           /\ [j EXCEPT !.pc = pc].msg = j.msg
  BY DEF Job

LEMMA RowJob ==
    ASSUME NEW j \in Job, NEW r \in Rooms
    PROVE  /\ [j EXCEPT !.pc = "seq", !.row = r] \in Job
           /\ [j EXCEPT !.pc = "seq", !.row = r].pc = "seq"
           /\ [j EXCEPT !.pc = "seq", !.row = r].kind = j.kind
           /\ [j EXCEPT !.pc = "seq", !.row = r].conn = j.conn
           /\ [j EXCEPT !.pc = "seq", !.row = r].from = j.from
           /\ [j EXCEPT !.pc = "seq", !.row = r].row = r
           /\ [j EXCEPT !.pc = "seq", !.row = r].seq = j.seq
           /\ [j EXCEPT !.pc = "seq", !.row = r].base = j.base
           /\ [j EXCEPT !.pc = "seq", !.row = r].msg = j.msg
  BY DEF Job, Pcs

LEMMA SeqJob ==
    ASSUME NEW j \in Job, NEW n \in Nat \ {0}
    PROVE  /\ [j EXCEPT !.pc = "insert", !.seq = n] \in Job
           /\ [j EXCEPT !.pc = "insert", !.seq = n].pc = "insert"
           /\ [j EXCEPT !.pc = "insert", !.seq = n].kind = j.kind
           /\ [j EXCEPT !.pc = "insert", !.seq = n].conn = j.conn
           /\ [j EXCEPT !.pc = "insert", !.seq = n].from = j.from
           /\ [j EXCEPT !.pc = "insert", !.seq = n].row = j.row
           /\ [j EXCEPT !.pc = "insert", !.seq = n].seq = n
           /\ [j EXCEPT !.pc = "insert", !.seq = n].base = j.base
           /\ [j EXCEPT !.pc = "insert", !.seq = n].msg = j.msg
  BY DEF Job, Pcs

LEMMA SentJob ==
    ASSUME NEW j \in Job, NEW m \in Nat
    PROVE  /\ [j EXCEPT !.pc = "sent", !.msg = m] \in Job
           /\ [j EXCEPT !.pc = "sent", !.msg = m].pc = "sent"
           /\ [j EXCEPT !.pc = "sent", !.msg = m].kind = j.kind
           /\ [j EXCEPT !.pc = "sent", !.msg = m].conn = j.conn
           /\ [j EXCEPT !.pc = "sent", !.msg = m].from = j.from
           /\ [j EXCEPT !.pc = "sent", !.msg = m].msg = m
  BY DEF Job, Pcs

\* The receivers change, and the place may: the request stays.
LEMMA LeftJob ==
    ASSUME NEW j \in Job, NEW left \in SUBSET Uids, NEW off \in BOOLEAN
    PROVE  /\ [j EXCEPT !.pc = "sending", !.left = left] \in Job
           /\ [j EXCEPT !.pc = "sending", !.left = left].pc = "sending"
           /\ [j EXCEPT !.pc = "sending", !.left = left].kind = j.kind
           /\ [j EXCEPT !.pc = "sending", !.left = left].conn = j.conn
           /\ [j EXCEPT !.pc = "sending", !.left = left].from = j.from
           /\ [j EXCEPT !.pc = "sending", !.left = left].msg = j.msg
           /\ [j EXCEPT !.left = left, !.offline = off] \in Job
           /\ [j EXCEPT !.left = left, !.offline = off].pc = j.pc
           /\ [j EXCEPT !.left = left, !.offline = off].kind = j.kind
           /\ [j EXCEPT !.left = left, !.offline = off].conn = j.conn
           /\ [j EXCEPT !.left = left, !.offline = off].from = j.from
           /\ [j EXCEPT !.left = left, !.offline = off].msg = j.msg
           /\ [j EXCEPT !.left = left] \in Job
           /\ [j EXCEPT !.left = left].pc = j.pc
           /\ [j EXCEPT !.left = left].kind = j.kind
           /\ [j EXCEPT !.left = left].conn = j.conn
           /\ [j EXCEPT !.left = left].from = j.from
           /\ [j EXCEPT !.left = left].msg = j.msg
<1>1. "sending" \in Pcs
  BY DEF Pcs
<1>2. [j EXCEPT !.pc = "sending", !.left = left] \in Job
  BY <1>1 DEF Job
<1>3. [j EXCEPT !.left = left, !.offline = off] \in Job
  BY DEF Job
<1>4. [j EXCEPT !.left = left] \in Job
  BY DEF Job
<1>5. /\ [j EXCEPT !.pc = "sending", !.left = left].pc = "sending"
      /\ [j EXCEPT !.pc = "sending", !.left = left].kind = j.kind
      /\ [j EXCEPT !.pc = "sending", !.left = left].conn = j.conn
      /\ [j EXCEPT !.pc = "sending", !.left = left].from = j.from
      /\ [j EXCEPT !.pc = "sending", !.left = left].msg = j.msg
  BY DEF Job
<1>6. /\ [j EXCEPT !.left = left, !.offline = off].pc = j.pc
      /\ [j EXCEPT !.left = left, !.offline = off].kind = j.kind
      /\ [j EXCEPT !.left = left, !.offline = off].conn = j.conn
      /\ [j EXCEPT !.left = left, !.offline = off].from = j.from
      /\ [j EXCEPT !.left = left, !.offline = off].msg = j.msg
  BY DEF Job
<1>7. /\ [j EXCEPT !.left = left].pc = j.pc
      /\ [j EXCEPT !.left = left].kind = j.kind
      /\ [j EXCEPT !.left = left].conn = j.conn
      /\ [j EXCEPT !.left = left].from = j.from
      /\ [j EXCEPT !.left = left].msg = j.msg
  BY DEF Job
<1> QED
  BY <1>2, <1>3, <1>4, <1>5, <1>6, <1>7

\* What the handlers make
ChatRequest(pc, c, u, to, r, n) ==
    [Idle EXCEPT !.pc = pc, !.conn = c, !.from = u, !.to = to, !.room = r, !.base = n]

RecallRequest(kind, c, u, to, r, m) ==
    [Idle EXCEPT !.pc = "get", !.kind = kind, !.conn = c, !.from = u, !.to = to,
                 !.room = r, !.msg = m]

LEMMA RecallJob ==
    ASSUME NEW c \in Conns, NEW u \in Uids, NEW to \in Uids \cup {NoUid},
           NEW r \in Rooms \cup {NoRoom}, NEW m \in Nat, NEW kind \in Kinds,
           NEW k, k = RecallRequest(kind, c, u, to, r, m)
    PROVE  /\ k \in Job /\ k.pc = "get" /\ k.kind = kind /\ k.conn = c
           /\ k.from = u /\ k.msg = m
<1> USE DEF RecallRequest
<1>1. "get" \in Pcs
  BY DEF Pcs
<1>2. k \in Job
  BY <1>1, IdleJob DEF Job
<1>3. k.pc = "get" /\ k.kind = kind /\ k.conn = c /\ k.from = u /\ k.msg = m
  BY IdleJob DEF Job
<1> QED
  BY <1>2, <1>3

LEMMA PeekJob ==
    ASSUME NEW m \in Nat
    PROVE  /\ [Idle EXCEPT !.pc = "peek", !.msg = m] \in Job
           /\ [Idle EXCEPT !.pc = "peek", !.msg = m].pc = "peek"
           /\ [Idle EXCEPT !.pc = "peek", !.msg = m].kind = "msg"
           /\ [Idle EXCEPT !.pc = "peek", !.msg = m].msg = m
<1>1. "peek" \in Pcs
  BY DEF Pcs
<1>2. [Idle EXCEPT !.pc = "peek", !.msg = m] \in Job
  BY <1>1, IdleJob DEF Job
<1>3. /\ [Idle EXCEPT !.pc = "peek", !.msg = m].pc = "peek"
      /\ [Idle EXCEPT !.pc = "peek", !.msg = m].kind = "msg"
      /\ [Idle EXCEPT !.pc = "peek", !.msg = m].msg = m
  BY IdleJob DEF Job
<1> QED
  BY <1>2, <1>3

-----------------------------------------------------------------------------
(***************************************************************************)
(* The table                                                                *)
(***************************************************************************)

\* INSERT adds a row at the end.
LEMMA InsertRow ==
    ASSUME TypeOK, NEW j \in Job, j.conn \in Conns, j.from \in Uids, Insert(j)
    PROVE  /\ RowsStay
           /\ Len(messages') = Len(messages) + 1
           /\ messages'[Len(messages) + 1].room = j.row
           /\ messages'[Len(messages) + 1].seq = j.seq
           /\ messages'[Len(messages) + 1].base = j.base
<1> DEFINE row == [from |-> j.from, to |-> j.to, room |-> j.row, seq |-> j.seq,
                   base |-> j.base, via |-> j.conn, recalled |-> FALSE]
<1>1. row \in Row
  BY DEF Row, Job
<1>2. row.room = j.row /\ row.seq = j.seq /\ row.base = j.base
  OBVIOUS
<1>3. messages' = Append(messages, row)
  BY DEF Insert
<1> HIDE DEF row
<1>4. messages \in Seq(Row) /\ Len(messages) \in Nat
  BY DEF TypeOK
<1>5. messages' \in Seq(Row) /\ Len(messages') = Len(messages) + 1
  BY <1>1, <1>3, <1>4
<1>6. \A i \in 1..Len(messages) : messages'[i] = messages[i]
  BY <1>3, <1>4
<1>7. messages'[Len(messages) + 1] = row
  BY <1>1, <1>3, <1>4
<1> QED
  BY <1>2, <1>4, <1>5, <1>6, <1>7 DEF RowsStay

\* UPDATE ... SET is_recalled changes nothing else.
LEMMA RecallRow ==
    ASSUME TypeOK, NEW m \in 1..Len(messages), Recall(m)
    PROVE  RowsStay /\ Len(messages') = Len(messages)
<1>1. messages \in Seq(Row) /\ Len(messages) \in Nat
  BY DEF TypeOK
<1>2. messages[m] \in Row
  BY <1>1
<1> DEFINE row == [messages[m] EXCEPT !.recalled = TRUE]
<1>3. /\ row \in Row
      /\ row.room = messages[m].room /\ row.seq = messages[m].seq
      /\ row.base = messages[m].base
  BY <1>2 DEF Row
<1>4. messages' = [messages EXCEPT ![m] = row]
  BY DEF Recall
<1> HIDE DEF row
<1>5. messages' \in Seq(Row) /\ Len(messages') = Len(messages)
  BY <1>1, <1>3, <1>4
<1>6. \A i \in 1..Len(messages) : messages'[i] = IF i = m THEN row ELSE messages[i]
  BY <1>1, <1>4
<1> QED
  BY <1>1, <1>3, <1>5, <1>6 DEF RowsStay

-----------------------------------------------------------------------------
(***************************************************************************)
(* The steps, as the two invariants see them                                *)
(***************************************************************************)

\* The request is a message that is stored and not sent to everybody yet.
Active(j) == j.kind = "msg" /\ j.pc \in {"sent", "sending"}

\* A step of a job that stores no message and begins no recall
GoesOn(j, k) ==
    /\ Active(k) => /\ Active(j) /\ k.msg = j.msg /\ k.conn = j.conn
                    /\ k.pc = "sent" => j.pc = "sent"
    /\ k.kind = "recall" => j.kind = "recall" /\ k.msg = j.msg /\ k.conn = j.conn

AllGoOn == \A q \in Slots : GoesOn(job[q], job'[q])

\* No job comes to a place where it is about to number a message.
NoneNumbers ==
    \A q \in Slots : job'[q] = job[q] \/ job'[q].pc \notin {"room", "seq", "insert"}

\* The rows stay as they are, but for is_recalled.
NoRow == RowsStay /\ Len(messages') = Len(messages) /\ (faults' = 0 => faults = 0)

LEMMA OneGoesOn ==
    ASSUME TypeOK, NEW s \in Slots, NEW k \in Job, job' = [job EXCEPT ![s] = k],
           GoesOn(job[s], k)
    PROVE  AllGoOn
  BY OneJob DEF AllGoOn, GoesOn, Active

LEMMA OneNumbers ==
    ASSUME TypeOK, NEW s \in Slots, NEW k \in Job, job' = [job EXCEPT ![s] = k],
           k.pc \notin {"room", "seq", "insert"}
    PROVE  NoneNumbers
  BY OneJob DEF NoneNumbers

LEMMA IdleGoesOn == \A j : GoesOn(j, Idle)
  BY IdleJob DEF GoesOn, Active

\* A job of a slot, and what the invariant says of it
LEMMA JobOf ==
    ASSUME MsgInv, NEW s \in Slots
    PROVE  /\ TypeOK /\ job[s] \in Job /\ JobIsSound(job[s]) /\ BoundsOK /\ Sessions
           /\ Len(messages) \in Nat /\ messages \in Seq(Row)
<1>1. TypeOK /\ JobIsSound(job[s]) /\ Sessions
  BY DEF MsgInv, TypeOK, Sessions
<1>2. job[s] \in Job /\ BoundsOK
  BY <1>1 DEF TypeOK, BoundsOK
<1>3. messages \in Seq(Row)
  BY <1>1 DEF TypeOK
<1>4. Len(messages) \in Nat
  BY <1>3
<1> QED
  BY <1>1, <1>2, <1>3, <1>4

LEMMA TypeLen ==
    ASSUME MsgInv
    PROVE  TypeOK /\ messages \in Seq(Row) /\ Len(messages) \in Nat
<1>1. TypeOK
  BY DEF MsgInv
<1>2. messages \in Seq(Row)
  BY <1>1 DEF TypeOK
<1>3. Len(messages) \in Nat
  BY <1>2
<1> QED
  BY <1>1, <1>2, <1>3

LEMMA NoRowUnchanged ==
    ASSUME TypeOK, UNCHANGED messages, faults' = 0 => faults = 0
    PROVE  NoRow
  BY RowsStayUnchanged DEF NoRow

LEMMA HandleChatMessageStep ==
    ASSUME MsgInv, NEW s \in Slots, NEW c \in Conns, NEW to \in Uids \cup {NoUid},
           NEW r \in Rooms \cup {NoRoom}, HandleChatMessage(s, c, to, r)
    PROVE  /\ MsgInv' /\ NoRow /\ AllGoOn /\ UNCHANGED <<messages, net, faults>>
           /\ \E k \in Job, n \in 0..Len(messages) :
                /\ job' = [job EXCEPT ![s] = k]
                /\ IF r = NoRoom THEN n = 0 ELSE IsMaxSeq(r, n)
                /\ k.pc = IF r = NoRoom THEN "insert" ELSE "room"
                /\ k.room = r /\ k.base = n /\ k.seq = 1 /\ k.row = NoRoom
<1>t. TypeOK /\ BoundsOK /\ Sessions /\ Len(messages) \in Nat
  BY JobOf
<1>1. /\ IsAuthenticated(c) /\ accepted < MaxMessages /\ accepted' = accepted + 1
      /\ UNCHANGED <<smVars, messages, rooms, net, recalls, logins, faults, restarts>>
  BY DEF HandleChatMessage
<1>p. PICK pc \in Pcs : pc = IF r = NoRoom THEN "insert" ELSE "room"
  BY DEF Pcs
<1>2. PICK n \in 0..Len(messages) :
        /\ IF r = NoRoom THEN n = 0 ELSE IsMaxSeq(r, n)
        /\ job' = [job EXCEPT ![s] = ChatRequest(pc, c, GetUid(c), to, r, n)]
  BY <1>p DEF HandleChatMessage, ChatRequest
<1>3. GetUid(c) \in Uids
  BY <1>t, <1>1, AuthenticatedUid
<1>4. n \in Nat
  BY <1>t
<1>k. PICK k : k = ChatRequest(pc, c, GetUid(c), to, r, n)
  OBVIOUS
<1>5. /\ k \in Job /\ k = ChatRequest(pc, c, GetUid(c), to, r, n)
      /\ k.pc = pc /\ k.kind = "msg" /\ k.conn = c /\ k.from = GetUid(c)
      /\ k.room = r /\ k.base = n /\ k.msg = 0 /\ k.seq = 1 /\ k.row = NoRoom
  <2>1. PICK u \in Uids : u = GetUid(c)
    BY <1>3
  <2>2. k = ChatRequest(pc, c, u, to, r, n)
    BY <1>k, <2>1
  <2>3. k \in Job
    BY <1>4, <2>2, IdleJob DEF Job, ChatRequest
  <2>4. k.pc = pc /\ k.conn = c /\ k.from = u /\ k.room = r /\ k.base = n
    BY <2>2, IdleJob DEF Job, ChatRequest
  <2>5. k.kind = "msg" /\ k.msg = 0 /\ k.seq = 1 /\ k.row = NoRoom
    BY <2>2, IdleJob DEF Job, ChatRequest
  <2> QED
    BY <1>k, <2>1, <2>3, <2>4, <2>5
<1>6. job' = [job EXCEPT ![s] = k]
  BY <1>2, <1>5
<1>7. NoRow
  BY <1>t, <1>1, NoRowUnchanged
<1>8. GoesOn(job[s], k)
  BY <1>5, <1>p DEF GoesOn, Active
<1>9. BoundsOK'
  BY <1>t, <1>1, MessageAssumption DEF BoundsOK
<1>10. JobIsSound(k)'
  <2>1. 0 \in 0..Len(messages')
    BY <1>t, <1>1
  <2> QED
    BY <1>3, <1>4, <1>5, <1>p, <2>1 DEF JobIsSound
<1>11. MsgInv'
  BY <1>1, <1>5, <1>6, <1>7, <1>9, <1>10, JobStep DEF NoRow
<1>12. AllGoOn
  BY <1>t, <1>5, <1>6, <1>8, OneGoesOn
<1> QED
  BY <1>1, <1>2, <1>5, <1>6, <1>7, <1>11, <1>12, <1>p

LEMMA HandleRecallStep ==
    ASSUME MsgInv, NEW s \in Slots, NEW c \in Conns, NEW to \in Uids \cup {NoUid},
           NEW r \in Rooms \cup {NoRoom}, NEW m \in 1..MaxMessages,
           HandleRecall(s, c, m, to, r)
    PROVE  /\ MsgInv' /\ NoRow /\ NoneNumbers /\ UNCHANGED <<messages, net>>
           /\ \E k \in Job : /\ job' = [job EXCEPT ![s] = k]
                             /\ k.kind = IF WasSent(m) THEN "recall" ELSE "guess"
                             /\ k.pc = "get" /\ k.msg = m /\ k.conn = c
<1>t. TypeOK /\ BoundsOK /\ Sessions /\ Len(messages) \in Nat
  BY JobOf
<1>q. PICK kind \in Kinds : kind = IF WasSent(m) THEN "recall" ELSE "guess"
  BY DEF Kinds
<1>1. /\ IsAuthenticated(c) /\ recalls < MaxRecalls /\ recalls' = recalls + 1
      /\ UNCHANGED <<smVars, messages, rooms, net, accepted, logins, faults, restarts>>
      /\ job' = [job EXCEPT ![s] = RecallRequest(kind, c, GetUid(c), to, r, m)]
  BY <1>q DEF HandleRecall, RecallRequest
<1>u. GetUid(c) \in Uids
  BY <1>t, <1>1, AuthenticatedUid
<1>2. GetUid(c) \in Uids /\ m \in Nat /\ m # 0
  BY <1>u, MessageAssumption
<1>k. PICK k : k = RecallRequest(kind, c, GetUid(c), to, r, m)
  OBVIOUS
<1>3. /\ k \in Job /\ k = RecallRequest(kind, c, GetUid(c), to, r, m)
      /\ k.pc = "get" /\ k.kind = kind /\ k.conn = c
      /\ k.from = GetUid(c) /\ k.msg = m
  BY <1>k, <1>q, <1>2, RecallJob
<1>4. job' = [job EXCEPT ![s] = k]
  BY <1>1, <1>3
<1>5. NoRow
  BY <1>t, <1>1, NoRowUnchanged
<1>6. BoundsOK'
  BY <1>t, <1>1, MessageAssumption DEF BoundsOK
<1>7. JobIsSound(k)'
  <2>1. k.kind # "msg"
    BY <1>3, <1>q
  <2> QED
    BY <1>2, <1>3, <2>1 DEF JobIsSound
<1>8. MsgInv'
  BY <1>1, <1>3, <1>4, <1>5, <1>6, <1>7, JobStep DEF NoRow
<1>9. NoneNumbers
  BY <1>t, <1>3, <1>4, OneNumbers
<1> QED
  BY <1>1, <1>3, <1>4, <1>5, <1>8, <1>9, <1>q

\* A step of the worker, or of a callback that sends nothing: the job k takes
\* the place of that of s, about the same row, or an idle one does.
LEMMA WorkerStep ==
    ASSUME MsgInv, NEW s \in Slots, NEW k \in Job, job' = [job EXCEPT ![s] = k],
           UNCHANGED <<smVars, rooms, net>>, RowsStay, BoundsOK',
           k.kind = job[s].kind, k.msg = job[s].msg, k.conn = job[s].conn,
           k.from = job[s].from, job[s].pc \notin {"idle", "peek"},
           k.pc \notin {"idle", "peek", "sent"},
           k.pc \in {"update", "recalled", "sending"} => job[s].msg # 0,
           job[s].pc = "get" => job[s].msg \in 0..Len(messages),
           k.pc \in {"update", "recalled"} => job[s].kind # "msg",
           k.pc \notin {"update", "recalled", "sending"} =>
               k.pc \in {"seq", "insert"} /\ job[s].kind = "msg",
           k.pc = "sending" => job[s].pc \in {"sent", "sending"} \/ job[s].kind # "msg"
    PROVE  MsgInv' /\ AllGoOn
<1>1. TypeOK /\ JobIsSound(job[s])
  BY JobOf
<1>2. k.msg \in 0..Len(messages')
  <2>1. Len(messages) \in Nat /\ Len(messages') \in Nat /\ Len(messages) <= Len(messages')
    BY <1>1 DEF TypeOK, RowsStay
  <2> QED
    BY <1>1, <2>1 DEF JobIsSound
<1>3. k.conn \in Conns /\ k.from \in Uids
  BY <1>1 DEF JobIsSound
<1>4. JobIsSound(k)'
  BY <1>2, <1>3 DEF JobIsSound
<1>5. GoesOn(job[s], k)
  BY DEF GoesOn, Active
<1>6. MsgInv'
  BY <1>4, JobStep
<1> QED
  BY <1>1, <1>5, <1>6, OneGoesOn

\* The job ends.
LEMMA EndStep ==
    ASSUME MsgInv, NEW s \in Slots, job' = [job EXCEPT ![s] = Idle],
           UNCHANGED <<smVars, rooms, net>>, RowsStay, BoundsOK'
    PROVE  MsgInv' /\ AllGoOn /\ NoneNumbers
<1>1. TypeOK
  BY JobOf
<1>2. JobIsSound(Idle)'
  BY IdleIsSound
<1>3. MsgInv'
  BY <1>2, IdleJob, JobStep
<1>4. AllGoOn
  BY <1>1, IdleJob, IdleGoesOn, OneGoesOn
<1>5. NoneNumbers
  BY <1>1, IdleJob, OneNumbers
<1> QED
  BY <1>3, <1>4, <1>5

LEMMA BoundsUnchanged ==
    ASSUME BoundsOK, UNCHANGED bounds
    PROVE  BoundsOK' /\ faults' = faults
  BY DEF BoundsOK, bounds

\* A step that stores nothing, sends nothing and comes to no number
Quiet == MsgInv' /\ NoRow /\ AllGoOn /\ NoneNumbers /\ UNCHANGED net

LEMMA SelectRoomStep ==
    ASSUME MsgInv, NEW s \in Slots, SelectRoom(s)
    PROVE  /\ MsgInv' /\ NoRow /\ AllGoOn /\ UNCHANGED <<net, messages, faults>>
           /\ job[s].pc = "room"
           /\ \E k \in Job : /\ job' = [job EXCEPT ![s] = k]
                             /\ k.seq = job[s].seq /\ k.base = job[s].base
                             /\ \/ /\ k.pc = "seq" /\ job[s].room \in Rooms
                                   /\ k.row = job[s].room
                                \/ k.pc = "insert" /\ k.row = job[s].row
<1>t. /\ TypeOK /\ BoundsOK /\ Len(messages) \in Nat /\ job[s] \in Job
      /\ JobIsSound(job[s]) /\ created \in SUBSET Rooms
  BY JobOf DEF TypeOK
<1>1. job[s].pc = "room" /\ UNCHANGED <<smVars, messages, rooms, net, bounds>>
  BY DEF SelectRoom
<1>2. job[s].kind = "msg"
  BY <1>t, <1>1 DEF JobIsSound
<1>3. NoRow /\ RowsStay /\ BoundsOK'
  BY <1>t, <1>1, NoRowUnchanged, BoundsUnchanged DEF NoRow
<1>4. CASE job[s].room \in created
  <2>r. job[s].room \in Rooms
    BY <1>t, <1>4
  <2>k. PICK k \in Job : k = [job[s] EXCEPT !.pc = "seq", !.row = job[s].room]
    BY <1>t, <2>r, RowJob
  <2>1. /\ k.pc = "seq" /\ k.kind = job[s].kind /\ k.conn = job[s].conn
        /\ k.from = job[s].from /\ k.row = job[s].room /\ k.seq = job[s].seq
        /\ k.base = job[s].base /\ k.msg = job[s].msg
    BY <1>t, <2>r, <2>k, RowJob
  <2>2. job' = [job EXCEPT ![s] = k]
    BY <1>4, <2>k DEF SelectRoom
  <2>3. MsgInv' /\ AllGoOn
    BY <1>1, <1>2, <1>3, <2>1, <2>2, WorkerStep
  <2> QED
    BY <1>1, <1>3, <2>1, <2>2, <2>3, <2>r DEF bounds
<1>5. CASE job[s].room \notin created
  <2>k. PICK k \in Job : k = [job[s] EXCEPT !.pc = "insert"]
    BY <1>t, PcJob DEF Pcs
  <2>1. /\ k.pc = "insert" /\ k.kind = job[s].kind /\ k.conn = job[s].conn
        /\ k.from = job[s].from /\ k.row = job[s].row /\ k.seq = job[s].seq
        /\ k.base = job[s].base /\ k.msg = job[s].msg
    BY <1>t, <2>k, PcJob DEF Pcs
  <2>2. job' = [job EXCEPT ![s] = k]
    BY <1>5, <2>k DEF SelectRoom
  <2>3. MsgInv' /\ AllGoOn
    BY <1>1, <1>2, <1>3, <2>1, <2>2, WorkerStep
  <2> QED
    BY <1>1, <1>3, <2>1, <2>2, <2>3 DEF bounds
<1> QED
  BY <1>4, <1>5

LEMMA SelectNumberStep ==
    ASSUME MsgInv, NEW s \in Slots, SelectNumber(s)
    PROVE  /\ MsgInv' /\ NoRow /\ AllGoOn /\ UNCHANGED <<net, messages, faults>>
           /\ job[s].pc = "seq"
           /\ \E k \in Job, n \in 0..Len(messages) :
                /\ job' = [job EXCEPT ![s] = k]
                /\ IsMaxSeq(job[s].row, n)
                /\ k.pc = "insert" /\ k.seq = n + 1
                /\ k.row = job[s].row /\ k.base = job[s].base
<1>t. /\ TypeOK /\ BoundsOK /\ Len(messages) \in Nat /\ job[s] \in Job
      /\ JobIsSound(job[s])
  BY JobOf
<1>1. job[s].pc = "seq" /\ UNCHANGED <<smVars, messages, rooms, net, bounds>>
  BY DEF SelectNumber
<1>2. job[s].kind = "msg"
  BY <1>t, <1>1 DEF JobIsSound
<1>3. NoRow /\ RowsStay /\ BoundsOK'
  BY <1>t, <1>1, NoRowUnchanged, BoundsUnchanged DEF NoRow
<1>n. PICK n \in 0..Len(messages) :
        /\ IsMaxSeq(job[s].row, n)
        /\ job' = [job EXCEPT ![s] = [job[s] EXCEPT !.pc = "insert", !.seq = n + 1]]
  BY DEF SelectNumber
<1>4. n + 1 \in Nat \ {0}
  BY <1>t
<1>k. PICK k \in Job : k = [job[s] EXCEPT !.pc = "insert", !.seq = n + 1]
  BY <1>t, <1>4, SeqJob
<1>5. /\ k.pc = "insert" /\ k.kind = job[s].kind /\ k.conn = job[s].conn
      /\ k.from = job[s].from /\ k.row = job[s].row /\ k.seq = n + 1
      /\ k.base = job[s].base /\ k.msg = job[s].msg
  BY <1>t, <1>4, <1>k, SeqJob
<1>6. job' = [job EXCEPT ![s] = k]
  BY <1>n, <1>k
<1>7. MsgInv' /\ AllGoOn
  BY <1>1, <1>2, <1>3, <1>5, <1>6, WorkerStep
<1> QED
  BY <1>1, <1>3, <1>n, <1>5, <1>6, <1>7 DEF bounds

LEMMA InsertMessageStep ==
    ASSUME MsgInv, NEW s \in Slots, InsertMessage(s)
    PROVE  /\ MsgInv' /\ RowsStay /\ NoneNumbers /\ UNCHANGED <<net, faults>>
           /\ job[s].pc = "insert"
           /\ Len(messages') = Len(messages) + 1
           /\ messages'[Len(messages) + 1].room = job[s].row
           /\ messages'[Len(messages) + 1].seq = job[s].seq
           /\ messages'[Len(messages) + 1].base = job[s].base
           /\ \E k \in Job : /\ job' = [job EXCEPT ![s] = k]
                             /\ k.pc = "sent" /\ k.kind = "msg"
                             /\ k.msg = Len(messages) + 1 /\ k.conn = job[s].conn
<1>t. /\ TypeOK /\ BoundsOK /\ Len(messages) \in Nat /\ job[s] \in Job
      /\ JobIsSound(job[s])
  BY JobOf
<1>1. /\ job[s].pc = "insert" /\ UNCHANGED <<smVars, rooms, net, bounds>>
      /\ Insert(job[s])
      /\ job' = [job EXCEPT ![s] = [job[s] EXCEPT !.pc = "sent", !.msg = Len(messages) + 1]]
  BY DEF InsertMessage
<1>2. job[s].kind = "msg" /\ job[s].conn \in Conns /\ job[s].from \in Uids
  BY <1>t, <1>1 DEF JobIsSound
<1>3. /\ RowsStay /\ Len(messages') = Len(messages) + 1
      /\ messages'[Len(messages) + 1].room = job[s].row
      /\ messages'[Len(messages) + 1].seq = job[s].seq
      /\ messages'[Len(messages) + 1].base = job[s].base
  BY <1>t, <1>1, <1>2, InsertRow
<1>4. BoundsOK'
  BY <1>t, <1>1, BoundsUnchanged
<1>m. PICK m \in Nat : m = Len(messages) + 1
  BY <1>t
<1>k. PICK k \in Job : k = [job[s] EXCEPT !.pc = "sent", !.msg = m]
  BY <1>t, SentJob
<1>5. /\ k.pc = "sent" /\ k.kind = job[s].kind /\ k.conn = job[s].conn
      /\ k.from = job[s].from /\ k.msg = Len(messages) + 1
  BY <1>t, <1>k, <1>m, SentJob
<1>6. job' = [job EXCEPT ![s] = k]
  BY <1>1, <1>k, <1>m
<1>7. JobIsSound(k)'
  <2>1. k.msg \in 0..Len(messages') /\ k.msg # 0
    BY <1>t, <1>3, <1>5
  <2> QED
    BY <1>2, <1>5, <2>1 DEF JobIsSound
<1>8. MsgInv'
  BY <1>1, <1>3, <1>4, <1>6, <1>7, JobStep
<1>9. NoneNumbers
  BY <1>t, <1>5, <1>6, OneNumbers
<1> QED
  BY <1>1, <1>2, <1>3, <1>5, <1>6, <1>8, <1>9 DEF bounds

LEMMA GetMessageStep ==
    ASSUME MsgInv, NEW s \in Slots, GetMessage(s)
    PROVE  Quiet
<1>t. /\ TypeOK /\ BoundsOK /\ Len(messages) \in Nat /\ job[s] \in Job
      /\ JobIsSound(job[s])
  BY JobOf
<1>1. /\ job[s].pc = "get" /\ UNCHANGED <<smVars, messages, rooms, net, bounds>>
      /\ \/ /\ job[s].msg \in 1..Len(messages)
            /\ job' = [job EXCEPT ![s] = [job[s] EXCEPT !.pc = "update"]]
         \/ job' = [job EXCEPT ![s] = Idle]
  BY DEF GetMessage
<1>2. job[s].kind # "msg" /\ job[s].msg # 0
  BY <1>t, <1>1 DEF JobIsSound
<1>3. NoRow /\ RowsStay /\ BoundsOK'
  BY <1>t, <1>1, NoRowUnchanged, BoundsUnchanged DEF NoRow
<1>k. PICK k \in Job : k = [job[s] EXCEPT !.pc = "update"]
  BY <1>t, PcJob DEF Pcs
<1>4. CASE job[s].msg \in 1..Len(messages) /\ job' = [job EXCEPT ![s] = k]
  <2>1. /\ k.pc = "update" /\ k.kind = job[s].kind /\ k.conn = job[s].conn
        /\ k.from = job[s].from /\ k.msg = job[s].msg
    BY <1>t, <1>k, PcJob DEF Pcs
  <2>m. job[s].msg \in 0..Len(messages)
    BY <1>t, <1>4
  <2>2. MsgInv' /\ AllGoOn
    BY <1>1, <1>2, <1>3, <1>4, <2>1, <2>m, WorkerStep
  <2>3. NoneNumbers
    BY <1>t, <1>4, <2>1, OneNumbers
  <2> QED
    BY <1>1, <1>3, <2>2, <2>3 DEF Quiet
<1>5. CASE job' = [job EXCEPT ![s] = Idle]
  BY <1>1, <1>3, <1>5, EndStep DEF Quiet
<1> QED
  BY <1>1, <1>k, <1>4, <1>5

LEMMA UpdateRecalledStep ==
    ASSUME MsgInv, NEW s \in Slots, UpdateRecalled(s)
    PROVE  Quiet
<1>t. /\ TypeOK /\ BoundsOK /\ Len(messages) \in Nat /\ job[s] \in Job
      /\ JobIsSound(job[s])
  BY JobOf
<1>1. /\ job[s].pc = "update" /\ UNCHANGED <<smVars, rooms, net, bounds>>
      /\ Recall(job[s].msg)
      /\ \/ job' = [job EXCEPT ![s] = [job[s] EXCEPT !.pc = "recalled"]]
         \/ job' = [job EXCEPT ![s] = Idle]
  BY DEF UpdateRecalled
<1>2. job[s].kind # "msg" /\ job[s].msg # 0 /\ job[s].msg \in 1..Len(messages)
  BY <1>t, <1>1 DEF JobIsSound
<1>3. BoundsOK' /\ faults' = faults
  BY <1>t, <1>1, BoundsUnchanged
<1>r. RowsStay /\ NoRow
  BY <1>t, <1>1, <1>2, <1>3, RecallRow DEF NoRow
<1>k. PICK k \in Job : k = [job[s] EXCEPT !.pc = "recalled"]
  BY <1>t, PcJob DEF Pcs
<1>4. CASE job' = [job EXCEPT ![s] = k]
  <2>1. /\ k.pc = "recalled" /\ k.kind = job[s].kind /\ k.conn = job[s].conn
        /\ k.from = job[s].from /\ k.msg = job[s].msg
    BY <1>t, <1>k, PcJob DEF Pcs
  <2>2. MsgInv' /\ AllGoOn
    BY <1>1, <1>2, <1>3, <1>r, <1>4, <2>1, WorkerStep
  <2>3. NoneNumbers
    BY <1>t, <1>4, <2>1, OneNumbers
  <2> QED
    BY <1>1, <1>r, <2>2, <2>3 DEF Quiet
<1>5. CASE job' = [job EXCEPT ![s] = Idle]
  BY <1>1, <1>3, <1>r, <1>5, EndStep DEF Quiet
<1> QED
  BY <1>1, <1>k, <1>4, <1>5

LEMMA PeekMessageStep ==
    ASSUME MsgInv, NEW s \in Slots, PeekMessage(s)
    PROVE  Quiet
<1>t. TypeOK /\ BoundsOK
  BY JobOf
<1>1. job' = [job EXCEPT ![s] = Idle] /\ UNCHANGED <<smVars, messages, rooms, net, bounds>>
  BY DEF PeekMessage
<1>2. NoRow /\ RowsStay /\ BoundsOK'
  BY <1>t, <1>1, NoRowUnchanged, BoundsUnchanged DEF NoRow
<1> QED
  BY <1>1, <1>2, EndStep DEF Quiet

LEMMA CallbackStep ==
    ASSUME MsgInv, NEW s \in Slots, Callback(s)
    PROVE  Quiet
<1>t. /\ TypeOK /\ BoundsOK /\ Len(messages) \in Nat /\ job[s] \in Job
      /\ JobIsSound(job[s])
  BY JobOf
<1> DEFINE left == IF job[s].to # NoUid THEN {job[s].to}
                   ELSE GetRoomMembers(job[s].room)
<1>1. /\ job[s].pc \in {"sent", "recalled"}
      /\ UNCHANGED <<smVars, messages, rooms, net, bounds>>
      /\ job' = [job EXCEPT ![s] = [job[s] EXCEPT !.pc = "sending", !.left = left]]
  BY DEF Callback
<1>2. left \in SUBSET Uids
  <2>1. roster \in [Rooms -> SUBSET Uids] /\ job[s].to \in Uids \cup {NoUid}
    BY <1>t DEF TypeOK, Job
  <2> QED
    BY <2>1 DEF GetRoomMembers
<1> HIDE DEF left
<1>3. job[s].msg # 0 /\ (job[s].pc = "recalled" => job[s].kind # "msg")
  BY <1>t, <1>1 DEF JobIsSound
<1>4. NoRow /\ RowsStay /\ BoundsOK'
  BY <1>t, <1>1, NoRowUnchanged, BoundsUnchanged DEF NoRow
<1>k. PICK k \in Job : k = [job[s] EXCEPT !.pc = "sending", !.left = left]
  BY <1>t, <1>2, LeftJob
<1>5. /\ k.pc = "sending" /\ k.kind = job[s].kind /\ k.conn = job[s].conn
      /\ k.from = job[s].from /\ k.msg = job[s].msg
  BY <1>t, <1>2, <1>k, LeftJob
<1>6. job' = [job EXCEPT ![s] = k]
  BY <1>1, <1>k
<1>7. MsgInv' /\ AllGoOn
  BY <1>1, <1>3, <1>4, <1>5, <1>6, WorkerStep
<1>8. NoneNumbers
  BY <1>t, <1>5, <1>6, OneNumbers
<1> QED
  BY <1>1, <1>4, <1>7, <1>8 DEF Quiet

LEMMA FaultStep ==
    ASSUME MsgInv, NEW s \in Slots, Fault(s)
    PROVE  /\ MsgInv' /\ RowsStay /\ AllGoOn /\ UNCHANGED net /\ faults' # 0
           /\ \/ Len(messages') = Len(messages)
              \/ /\ job[s].pc = "insert"
                 /\ Len(messages') = Len(messages) + 1
                 /\ messages'[Len(messages) + 1].room = job[s].row
                 /\ messages'[Len(messages) + 1].seq = job[s].seq
           /\ \/ NoneNumbers
              \/ /\ job[s].pc \in {"room", "seq"}
                 /\ \E k \in Job : /\ job' = [job EXCEPT ![s] = k]
                                   /\ k.pc = "insert" /\ k.row = job[s].row
                                   /\ k.seq = job[s].seq
<1>t. /\ TypeOK /\ BoundsOK /\ Len(messages) \in Nat /\ job[s] \in Job
      /\ JobIsSound(job[s])
  BY JobOf
<1>1. /\ faults < MaxFaults /\ faults' = faults + 1
      /\ UNCHANGED <<smVars, rooms, net, accepted, recalls, logins, restarts>>
  BY DEF Fault
<1>2. BoundsOK' /\ faults' # 0
  BY <1>t, <1>1, MessageAssumption DEF BoundsOK
<1>3. ASSUME job[s].pc \in {"room", "seq"}, UNCHANGED messages,
             job' = [job EXCEPT ![s] = [job[s] EXCEPT !.pc = "insert"]]
      PROVE  /\ MsgInv' /\ RowsStay /\ AllGoOn
             /\ Len(messages') = Len(messages)
             /\ \E k \in Job : /\ job' = [job EXCEPT ![s] = k]
                               /\ k.pc = "insert" /\ k.row = job[s].row
                               /\ k.seq = job[s].seq
  <2>k. PICK k \in Job : k = [job[s] EXCEPT !.pc = "insert"]
    BY <1>t, PcJob DEF Pcs
  <2>1. /\ k.pc = "insert" /\ k.kind = job[s].kind /\ k.conn = job[s].conn
        /\ k.from = job[s].from /\ k.row = job[s].row /\ k.seq = job[s].seq
        /\ k.msg = job[s].msg
    BY <1>t, <2>k, PcJob DEF Pcs
  <2>2. job[s].kind = "msg"
    BY <1>t, <1>3 DEF JobIsSound
  <2>3. job' = [job EXCEPT ![s] = k]
    BY <1>3, <2>k
  <2>4. RowsStay
    BY <1>t, <1>3, RowsStayUnchanged
  <2>5. MsgInv' /\ AllGoOn
    BY <1>1, <1>2, <1>3, <2>1, <2>2, <2>3, <2>4, WorkerStep
  <2> QED
    BY <1>3, <2>1, <2>3, <2>4, <2>5
<1>4. ASSUME job' = [job EXCEPT ![s] = Idle], RowsStay
      PROVE  MsgInv' /\ AllGoOn /\ NoneNumbers
  BY <1>1, <1>2, <1>4, EndStep
<1>5. ASSUME UNCHANGED messages
      PROVE  RowsStay /\ Len(messages') = Len(messages)
  BY <1>t, <1>5, RowsStayUnchanged
<1>6. ASSUME job[s].pc = "insert", Insert(job[s])
      PROVE  /\ RowsStay /\ Len(messages') = Len(messages) + 1
             /\ messages'[Len(messages) + 1].room = job[s].row
             /\ messages'[Len(messages) + 1].seq = job[s].seq
  <2>1. job[s].conn \in Conns /\ job[s].from \in Uids
    BY <1>t, <1>6 DEF JobIsSound
  <2> QED
    BY <1>t, <1>6, <2>1, InsertRow
<1>7. ASSUME job[s].pc = "update", Recall(job[s].msg)
      PROVE  RowsStay /\ Len(messages') = Len(messages)
  <2>1. job[s].msg \in 1..Len(messages)
    BY <1>t, <1>7 DEF JobIsSound
  <2> QED
    BY <1>t, <1>7, <2>1, RecallRow
<1>8. \/ /\ job[s].pc \in {"room", "seq"} /\ UNCHANGED messages
         /\ job' = [job EXCEPT ![s] = [job[s] EXCEPT !.pc = "insert"]]
      \/ /\ job[s].pc = "insert" /\ job' = [job EXCEPT ![s] = Idle]
         /\ UNCHANGED messages \/ Insert(job[s])
      \/ /\ job[s].pc = "update" /\ job' = [job EXCEPT ![s] = Idle]
         /\ UNCHANGED messages \/ Recall(job[s].msg)
  BY DEF Fault
<1> QED
  BY <1>1, <1>2, <1>3, <1>4, <1>5, <1>6, <1>7, <1>8

-----------------------------------------------------------------------------
(***************************************************************************)
(* The steps that send                                                      *)
(***************************************************************************)

\* The item that a job sends
LEMMA ItemType ==
    ASSUME NEW j \in Job, j.conn \in Conns, NEW u \in Uids
    PROVE  /\ ItemFor(j, u) \in Item
           /\ ItemFor(j, u).kind = j.kind
           /\ ItemFor(j, u).msg = j.msg
           /\ ItemFor(j, u).via = j.conn
  BY DEF ItemFor, Item, Job

\* A write appends to one connection, or is lost.
Wrote(c, x) ==
    \/ wire' = wire
    \/ \E e \in [item : Item, session : Uids \cup {NoUid}] :
         e.item = x /\ wire' = [wire EXCEPT ![c] = Append(wire[c], e)]

LEMMA WriteType ==
    ASSUME MsgInv, NEW c \in Conns, NEW x \in Item, Write(c, x)
    PROVE  /\ Wrote(c, x)
           /\ wire' \in [Conns -> Seq([item : Item, session : Uids \cup {NoUid}])]
<1> DEFINE Sent == [item : Item, session : Uids \cup {NoUid}]
<1>1. wire \in [Conns -> Seq(Sent)] /\ context \in [Conns -> Session]
  BY DEF MsgInv, TypeOK, SMTypeOK
<1>2. GetUid(c) \in Uids \cup {NoUid}
  BY <1>1 DEF GetUid, Session
<1>3. PICK e \in Sent : e = [item |-> x, session |-> GetUid(c)]
  BY <1>2
<1>4. e.item = x
  BY <1>3
<1> HIDE DEF Sent
<1>5. wire' = wire \/ wire' = [wire EXCEPT ![c] = Append(wire[c], e)]
  BY <1>3 DEF Write
<1>6. wire[c] \in Seq(Sent)
  BY <1>1
<1>7. Append(wire[c], e) \in Seq(Sent)
  BY <1>6
<1>8. wire' \in [Conns -> Seq(Sent)]
  BY <1>1, <1>5, <1>7
<1>9. Wrote(c, x)
  BY <1>4, <1>5 DEF Wrote, Sent
<1> QED
  BY <1>8, <1>9 DEF Sent

\* A post appends to the functors of the loop of the connection, or is lost.
Posted(c, x) ==
    \/ functors' = functors
    \/ \E e \in [conn : Conns, item : Item] :
         /\ e.conn = c /\ e.item = x
         /\ functors' = [functors EXCEPT ![LoopOf[c]] = Append(functors[LoopOf[c]], e)]

LEMMA SendType ==
    ASSUME MsgInv, NEW l \in Loops, NEW c \in Conns, NEW x \in Item, Send(l, c, x)
    PROVE  /\ \/ LoopOf[c] = l /\ Wrote(c, x) /\ UNCHANGED functors
              \/ LoopOf[c] # l /\ Posted(c, x) /\ UNCHANGED wire
           /\ NetOK'
<1> DEFINE Functor == [conn : Conns, item : Item]
<1>1. /\ functors \in [Loops -> Seq(Functor)]
      /\ wire \in [Conns -> Seq([item : Item, session : Uids \cup {NoUid}])]
  BY DEF MsgInv, TypeOK
<1>2. CASE LoopOf[c] = l
  <2>1. Write(c, x) /\ UNCHANGED functors
    BY <1>2 DEF Send
  <2>2. Wrote(c, x) /\ wire' \in [Conns -> Seq([item : Item, session : Uids \cup {NoUid}])]
    BY <2>1, WriteType
  <2> QED
    BY <1>1, <1>2, <2>1, <2>2 DEF NetOK
<1>3. CASE LoopOf[c] # l
  <2>e. PICK e \in Functor : e = [conn |-> c, item |-> x]
    OBVIOUS
  <2>1. e.conn = c /\ e.item = x
    BY <2>e
  <2>2. /\ wire' = wire
        /\ \/ functors' = functors
           \/ functors' = [functors EXCEPT ![LoopOf[c]] = Append(functors[LoopOf[c]], e)]
    BY <1>3, <2>e DEF Send
  <2> HIDE DEF Functor
  <2>3. LoopOf[c] \in Loops
    BY MessageAssumption
  <2>4. functors[LoopOf[c]] \in Seq(Functor)
    BY <1>1, <2>3
  <2>5. Append(functors[LoopOf[c]], e) \in Seq(Functor)
    BY <2>4
  <2>6. functors' \in [Loops -> Seq(Functor)]
    BY <1>1, <2>2, <2>3, <2>5
  <2>7. Posted(c, x)
    BY <2>1, <2>2 DEF Posted, Functor
  <2> QED
    BY <1>1, <1>3, <2>2, <2>6, <2>7 DEF NetOK, Functor
<1> QED
  BY <1>2, <1>3

\* What the callback of the job j sends in a step: nothing, or an item of its
\* own, written or posted.
Sends(j) ==
    \/ UNCHANGED net
    \/ \E c \in Conns, x \in Item :
         /\ x.kind = j.kind /\ x.msg = j.msg /\ x.via = j.conn
         /\ \/ LoopOf[c] = LoopOf[j.conn] /\ Wrote(c, x) /\ UNCHANGED functors
            \/ LoopOf[c] # LoopOf[j.conn] /\ Posted(c, x) /\ UNCHANGED wire

\* A callback goes on.
LEMMA SendingStep ==
    ASSUME MsgInv, NEW s \in Slots, NEW k \in Job, job' = [job EXCEPT ![s] = k],
           UNCHANGED <<smVars, messages, rooms, bounds>>, NetOK', job[s].pc = "sending",
           JobIsSound(k)', GoesOn(job[s], k), k.pc \in {"sending", "idle", "peek"}
    PROVE  MsgInv' /\ NoRow /\ AllGoOn /\ NoneNumbers
<1>1. TypeOK /\ BoundsOK /\ Sessions
  BY JobOf
<1>2. NoRow /\ RowsStay /\ BoundsOK'
  BY <1>1, NoRowUnchanged, BoundsUnchanged DEF NoRow
<1>3. Sessions'
  BY <1>1, SessionsStep
<1>4. RoomsOK'
  BY <1>1 DEF TypeOK, RoomsOK, rooms
<1>5. /\ job' \in [Slots -> Job] /\ job'[s] = k
      /\ \A q \in Slots : q # s => job'[q] = job[q]
  BY <1>1, OneJob
<1>6. \A q \in Slots : job'[q] = job[q] \/ JobIsSound(job[q])'
  BY <1>5
<1>7. MsgInv'
  BY <1>2, <1>3, <1>4, <1>5, <1>6, MsgStep
<1>8. AllGoOn
  BY <1>1, OneGoesOn
<1>9. NoneNumbers
  BY <1>1, OneNumbers
<1> QED
  BY <1>2, <1>7, <1>8, <1>9

LEMMA SendNextStep ==
    ASSUME MsgInv, NEW s \in Slots, NEW u \in Uids, SendNext(s, u)
    PROVE  /\ MsgInv' /\ NoRow /\ AllGoOn /\ NoneNumbers
           /\ job[s].pc = "sending" /\ Sends(job[s])
<1>t. /\ TypeOK /\ BoundsOK /\ Len(messages) \in Nat /\ job[s] \in Job
      /\ JobIsSound(job[s]) /\ Sessions
  BY JobOf
<1>1. /\ job[s].pc = "sending" /\ UNCHANGED <<smVars, messages, rooms, bounds>>
      /\ job' = [job EXCEPT ![s] = [job[s] EXCEPT !.left = job[s].left \ {u},
                                                  !.offline = ~IsOnline(u)]]
  BY DEF SendNext
<1>2. job[s].conn \in Conns /\ job[s].from \in Uids /\ job[s].msg # 0
  BY <1>t, <1>1 DEF JobIsSound
<1>3. NetOK
  BY <1>t DEF TypeOK, NetOK
<1>4. NetOK' /\ Sends(job[s])
  <2>1. CASE ~IsOnline(u)
    <3>1. UNCHANGED net
      BY <2>1 DEF SendNext
    <3>2. NetOK'
      BY <1>3, <3>1 DEF NetOK, net
    <3> QED
      BY <3>1, <3>2 DEF Sends
  <2>2. CASE IsOnline(u)
    <3>c. PICK c \in Conns : c = GetConnection(u)
      BY <1>t, <2>2, OnlineConn
    <3>x. PICK x \in Item : x = ItemFor(job[s], u)
      BY <1>t, <1>2, ItemType
    <3>1. x.kind = job[s].kind /\ x.msg = job[s].msg /\ x.via = job[s].conn
      BY <1>t, <1>2, <3>x, ItemType
    <3>l. PICK l \in Loops : l = LoopOf[job[s].conn]
      BY <1>2, MessageAssumption
    <3>2. Send(l, c, x)
      BY <2>2, <3>c, <3>x, <3>l DEF SendNext
    <3>3. /\ \/ LoopOf[c] = l /\ Wrote(c, x) /\ UNCHANGED functors
             \/ LoopOf[c] # l /\ Posted(c, x) /\ UNCHANGED wire
          /\ NetOK'
      BY <3>2, SendType
    <3> QED
      BY <3>1, <3>3, <3>l DEF Sends
  <2> QED
    BY <2>1, <2>2
<1>l. PICK left \in SUBSET Uids : left = job[s].left \ {u}
  BY <1>t DEF Job
<1>o. PICK off \in BOOLEAN : off = ~IsOnline(u)
  OBVIOUS
<1>k. PICK k \in Job : k = [job[s] EXCEPT !.left = left, !.offline = off]
  BY <1>t, LeftJob
<1>5. /\ k.pc = job[s].pc /\ k.kind = job[s].kind /\ k.conn = job[s].conn
      /\ k.from = job[s].from /\ k.msg = job[s].msg
  BY <1>t, <1>k DEF Job
<1>6. job' = [job EXCEPT ![s] = k]
  BY <1>1, <1>k, <1>l, <1>o
<1>7. JobIsSound(k)'
  <2>1. k.msg \in 0..Len(messages')
    BY <1>t, <1>1, <1>5 DEF JobIsSound
  <2> QED
    BY <1>1, <1>2, <1>5, <2>1 DEF JobIsSound
<1>8. GoesOn(job[s], k)
  BY <1>5 DEF GoesOn, Active
<1>9. MsgInv' /\ NoRow /\ AllGoOn /\ NoneNumbers
  BY <1>1, <1>4, <1>5, <1>6, <1>7, <1>8, SendingStep
<1> QED
  BY <1>1, <1>4, <1>9

LEMMA EndCallbackStep ==
    ASSUME MsgInv, NEW s \in Slots, EndCallback(s)
    PROVE  /\ MsgInv' /\ NoRow /\ AllGoOn /\ NoneNumbers
           /\ job[s].pc = "sending" /\ Sends(job[s])
<1>t. /\ TypeOK /\ BoundsOK /\ Len(messages) \in Nat /\ job[s] \in Job
      /\ JobIsSound(job[s]) /\ Sessions
  BY JobOf
<1>1. /\ job[s].pc = "sending"
      /\ UNCHANGED <<smVars, messages, rooms, functors, bounds>>
      /\ \/ Write(job[s].conn, ItemFor(job[s], job[s].from))
         \/ UNCHANGED wire
      /\ \/ job' = [job EXCEPT ![s] = [Idle EXCEPT !.pc = "peek", !.msg = job[s].msg]]
         \/ job' = [job EXCEPT ![s] = Idle]
  BY DEF EndCallback
<1>2. job[s].conn \in Conns /\ job[s].from \in Uids /\ job[s].msg \in Nat
  BY <1>t, <1>1 DEF JobIsSound
<1>3. NetOK
  BY <1>t DEF TypeOK, NetOK
<1>4. NetOK' /\ Sends(job[s])
  <2>1. CASE UNCHANGED wire
    BY <1>1, <1>3, <2>1 DEF NetOK, Sends, net
  <2>2. CASE Write(job[s].conn, ItemFor(job[s], job[s].from))
    <3>c. PICK c \in Conns : c = job[s].conn
      BY <1>2
    <3>x. PICK x \in Item : x = ItemFor(job[s], job[s].from)
      BY <1>t, <1>2, ItemType
    <3>1. x.kind = job[s].kind /\ x.msg = job[s].msg /\ x.via = job[s].conn
      BY <1>t, <1>2, <3>x, ItemType
    <3>2. Write(c, x)
      BY <2>2, <3>c, <3>x
    <3>3. Wrote(c, x) /\ wire' \in [Conns -> Seq([item : Item, session : Uids \cup {NoUid}])]
      BY <3>2, WriteType
    <3>4. NetOK'
      BY <1>1, <1>3, <3>3 DEF NetOK
    <3> QED
      BY <1>1, <3>1, <3>3, <3>4, <3>c DEF Sends
  <2> QED
    BY <1>1, <2>1, <2>2
<1>k. PICK k \in Job : /\ job' = [job EXCEPT ![s] = k] /\ k.kind = "msg"
                       /\ k.pc \in {"idle", "peek"} /\ k.msg \in {0, job[s].msg}
  BY <1>1, <1>2, PeekJob, IdleJob
<1>5. JobIsSound(k)'
  <2>1. k.msg \in 0..Len(messages')
    BY <1>t, <1>1, <1>k DEF JobIsSound
  <2> QED
    BY <1>k, <2>1 DEF JobIsSound
<1>6. GoesOn(job[s], k)
  BY <1>k DEF GoesOn, Active
<1>7. MsgInv' /\ NoRow /\ AllGoOn /\ NoneNumbers
  BY <1>1, <1>4, <1>5, <1>6, <1>k, SendingStep
<1> QED
  BY <1>1, <1>4, <1>7

LEMMA SameJobs ==
    ASSUME TypeOK, UNCHANGED job
    PROVE  AllGoOn /\ NoneNumbers
  BY DEF AllGoOn, NoneNumbers, GoesOn, Active

LEMMA RunFunctorStep ==
    ASSUME MsgInv, NEW l \in Loops, RunFunctor(l)
    PROVE  /\ MsgInv' /\ NoRow /\ UNCHANGED job
           /\ \E f \in [conn : Conns, item : Item] :
                /\ functors[l] # << >> /\ f = Head(functors[l]) /\ Wrote(f.conn, f.item)
                /\ functors' = [functors EXCEPT ![l] = Tail(functors[l])]
<1> DEFINE Functor == [conn : Conns, item : Item]
<1>t. TypeOK /\ BoundsOK /\ Sessions /\ NetOK /\ RoomsOK /\ job \in [Slots -> Job]
  BY DEF MsgInv, TypeOK, BoundsOK, Sessions, NetOK, RoomsOK
<1>1. /\ functors[l] # << >> /\ Write(Head(functors[l]).conn, Head(functors[l]).item)
      /\ functors' = [functors EXCEPT ![l] = Tail(functors[l])]
      /\ UNCHANGED <<smVars, messages, rooms, job, bounds>>
  BY DEF RunFunctor
<1>2. functors[l] \in Seq(Functor)
  BY <1>t DEF NetOK
<1> HIDE DEF Functor
<1>f. PICK f \in Functor : f = Head(functors[l])
  BY <1>1, <1>2
<1>3. f.conn \in Conns /\ f.item \in Item
  BY DEF Functor
<1>4. Wrote(f.conn, f.item) /\ wire' \in [Conns -> Seq([item : Item, session : Uids \cup {NoUid}])]
  BY <1>1, <1>3, <1>f, WriteType
<1>5. Tail(functors[l]) \in Seq(Functor)
  BY <1>1, <1>2
<1>6. functors' \in [Loops -> Seq(Functor)]
  BY <1>t, <1>1, <1>5 DEF NetOK, Functor
<1>7. NetOK' /\ RoomsOK' /\ Sessions' /\ BoundsOK' /\ NoRow /\ RowsStay
  <2>1. NetOK'
    BY <1>4, <1>6 DEF NetOK, Functor
  <2>2. RoomsOK'
    BY <1>t, <1>1 DEF RoomsOK, rooms
  <2>3. Sessions'
    BY <1>t, <1>1, SessionsStep
  <2>4. BoundsOK' /\ NoRow /\ RowsStay
    BY <1>t, <1>1, NoRowUnchanged, BoundsUnchanged DEF NoRow
  <2> QED
    BY <2>1, <2>2, <2>3, <2>4
<1>8. job' \in [Slots -> Job] /\ \A s \in Slots : job'[s] = job[s]
  BY <1>t, <1>1
<1>9. MsgInv'
  BY <1>7, <1>8, MsgStep
<1> QED
  BY <1>1, <1>4, <1>7, <1>9, <1>f DEF Functor

\* Connections, logins and rooms come and go; or nothing does.
LEMMA EnvironmentStep ==
    ASSUME MsgInv,
           \/ \E c \in Conns : Connection(c) \/ Login(c)
           \/ \E r \in Rooms : RoomCreated(r) \/ \E u \in Uids : RoomJoined(r, u)
           \/ UNCHANGED vars
    PROVE  Quiet
<1>t. /\ TypeOK /\ BoundsOK /\ Sessions /\ NetOK /\ RoomsOK /\ job \in [Slots -> Job]
      /\ \A s \in Slots : JobIsSound(job[s])
  BY DEF MsgInv, TypeOK, BoundsOK, Sessions, NetOK, RoomsOK
<1>q. ASSUME UNCHANGED <<messages, net>>, faults' = faults, Sessions', RoomsOK', BoundsOK',
             job' \in [Slots -> Job], AllGoOn, NoneNumbers,
             \A s \in Slots : job'[s] = job[s] \/ JobIsSound(job[s])'
      PROVE  Quiet
  <2>1. NoRow /\ RowsStay
    BY <1>t, <1>q, NoRowUnchanged DEF NoRow
  <2>2. NetOK'
    BY <1>t, <1>q DEF NetOK, net
  <2>3. MsgInv'
    BY <1>q, <2>1, <2>2, MsgStep
  <2> QED
    BY <1>q, <2>1, <2>3 DEF Quiet
<1>u. ASSUME UNCHANGED <<messages, net>>, faults' = faults, Sessions', RoomsOK', BoundsOK',
             UNCHANGED job
      PROVE  Quiet
  <2>1. AllGoOn /\ NoneNumbers
    BY <1>t, <1>u, SameJobs
  <2>2. job' \in [Slots -> Job] /\ \A s \in Slots : job'[s] = job[s]
    BY <1>t, <1>u
  <2> QED
    BY <1>q, <1>u, <2>1, <2>2
<1>1. ASSUME NEW c \in Conns, Connection(c)
      PROVE  Quiet
  <2>1. UNCHANGED msgVars /\ (OnConnection(c) \/ Shutdown(c) \/ OnDisconnection(c))
    BY <1>1 DEF Connection
  <2>2. Sessions'
    BY <1>t, <2>1, SessionsStep
  <2>3. RoomsOK' /\ BoundsOK'
    BY <1>t, <2>1 DEF msgVars, RoomsOK, BoundsOK, rooms, bounds
  <2> QED
    BY <1>u, <2>1, <2>2, <2>3 DEF msgVars, bounds
<1>2. ASSUME NEW c \in Conns, Login(c)
      PROVE  Quiet
  <2>1. /\ UNCHANGED <<messages, rooms, job, net, accepted, recalls, faults, restarts>>
        /\ logins < MaxLogins /\ logins' = logins + 1
        /\ \/ \E u \in Uids, t \in Tokens : Authenticate(c, u, t)
           \/ Deauthenticate(c)
    BY <1>2 DEF Login
  <2>2. Sessions'
    BY <1>t, <2>1, SessionsStep
  <2>3. RoomsOK'
    BY <1>t, <2>1 DEF RoomsOK, rooms
  <2>4. BoundsOK'
    BY <1>t, <2>1, MessageAssumption DEF BoundsOK
  <2> QED
    BY <1>u, <2>1, <2>2, <2>3, <2>4
<1>3. ASSUME NEW r \in Rooms, RoomCreated(r)
      PROVE  Quiet
  <2>1. /\ UNCHANGED <<smVars, messages, roster, job, net, bounds>>
        /\ created' = created \cup {r}
    BY <1>3 DEF RoomCreated
  <2>2. Sessions'
    BY <1>t, <2>1, SessionsStep
  <2>3. RoomsOK'
    BY <1>t, <2>1 DEF RoomsOK
  <2>4. BoundsOK'
    BY <1>t, <2>1, BoundsUnchanged
  <2> QED
    BY <1>u, <2>1, <2>2, <2>3, <2>4 DEF bounds
<1>4. ASSUME NEW r \in Rooms, NEW u \in Uids, RoomJoined(r, u)
      PROVE  Quiet
  <2>1. /\ UNCHANGED <<smVars, messages, created, net, bounds>>
        /\ roster' = [roster EXCEPT ![r] = roster[r] \cup {u}]
    BY <1>4 DEF RoomJoined
  <2>2. PICK late \in SUBSET {s \in Slots : /\ job[s].pc = "sending" /\ job[s].to = NoUid
                                            /\ job[s].room = r} :
          job' = [s \in Slots |-> IF s \in late
                                  THEN [job[s] EXCEPT !.left = job[s].left \cup {u}]
                                  ELSE job[s]]
    BY <1>4 DEF RoomJoined
  <2>3. Sessions'
    BY <1>t, <2>1, SessionsStep
  <2>4. RoomsOK'
    BY <1>t, <2>1 DEF RoomsOK
  <2>5. BoundsOK'
    BY <1>t, <2>1, BoundsUnchanged
  <2>6. ASSUME NEW s \in Slots
        PROVE  /\ job'[s] \in Job /\ GoesOn(job[s], job'[s])
               /\ job'[s] = job[s] \/ job'[s].pc \notin {"room", "seq", "insert"}
               /\ job'[s] = job[s] \/ JobIsSound(job[s])'
    <3>1. CASE s \notin late
      BY <1>t, <2>2, <3>1 DEF GoesOn, Active
    <3>2. CASE s \in late
      <4>0. job[s] \in Job /\ job[s].pc = "sending" /\ JobIsSound(job[s])
        BY <1>t, <3>2
      <4>l. PICK left \in SUBSET Uids : left = job[s].left \cup {u}
        BY <4>0 DEF Job
      <4>k. PICK k \in Job : k = [job[s] EXCEPT !.left = left]
        BY <4>0, LeftJob
      <4>1. /\ k.pc = job[s].pc /\ k.kind = job[s].kind /\ k.conn = job[s].conn
            /\ k.from = job[s].from /\ k.msg = job[s].msg
        BY <4>0, <4>k DEF Job
      <4>2. job'[s] = k
        BY <2>2, <3>2, <4>k, <4>l
      <4>3. JobIsSound(k)'
        BY <2>1, <4>0, <4>1 DEF JobIsSound
      <4> QED
        BY <4>0, <4>1, <4>2, <4>3 DEF GoesOn, Active
    <3> QED
      BY <3>1, <3>2
  <2>7. job' \in [Slots -> Job]
    <3>1. job' = [s \in Slots |-> job'[s]]
      BY <2>2
    <3> QED
      BY <2>6, <3>1
  <2>8. AllGoOn /\ NoneNumbers
    BY <2>6 DEF AllGoOn, NoneNumbers
  <2> QED
    BY <1>q, <2>1, <2>3, <2>4, <2>5, <2>6, <2>7, <2>8 DEF bounds
<1>5. CASE UNCHANGED vars
  <2>1. UNCHANGED <<smVars, messages, rooms, job, net, bounds>>
    BY <1>5 DEF vars, msgVars
  <2>2. Sessions'
    BY <1>t, <2>1, SessionsStep
  <2>3. RoomsOK' /\ BoundsOK' /\ faults' = faults
    BY <1>t, <2>1 DEF RoomsOK, BoundsOK, rooms, bounds
  <2> QED
    BY <1>u, <2>1, <2>2, <2>3
<1> QED
  BY <1>1, <1>2, <1>3, <1>4, <1>5

LEMMA RestartServerStep ==
    ASSUME MsgInv, RestartServer
    PROVE  /\ MsgInv' /\ NoRow /\ AllGoOn /\ NoneNumbers /\ UNCHANGED wire
           /\ functors' = [l \in Loops |-> << >>]
           /\ job' = [s \in Slots |-> Idle]
<1>t. TypeOK /\ BoundsOK /\ Sessions /\ NetOK /\ RoomsOK
  BY DEF MsgInv, TypeOK, BoundsOK, Sessions, NetOK, RoomsOK
<1>1. /\ restarts < MaxRestarts /\ restarts' = restarts + 1
      /\ Restart
      /\ roster' = [r \in Rooms |-> {}]
      /\ job' = [s \in Slots |-> Idle]
      /\ functors' = [l \in Loops |-> << >>]
      /\ UNCHANGED <<messages, created, wire, accepted, recalls, logins, faults>>
  BY DEF RestartServer
<1>2. NoRow /\ RowsStay
  BY <1>t, <1>1, NoRowUnchanged DEF NoRow
<1>3. Sessions'
  BY <1>t, <1>1, SessionsStep
<1>4. RoomsOK'
  BY <1>t, <1>1 DEF RoomsOK
<1>5. NetOK'
  <2>1. << >> \in Seq([conn : Conns, item : Item])
    OBVIOUS
  <2> QED
    BY <1>t, <1>1, <2>1 DEF NetOK
<1>6. BoundsOK'
  BY <1>t, <1>1, MessageAssumption DEF BoundsOK
<1>7. job' \in [Slots -> Job] /\ \A s \in Slots : job'[s] = Idle
  BY <1>1, IdleJob
<1>8. \A s \in Slots : JobIsSound(job[s])'
  BY <1>2, <1>7, IdleIsSound
<1>9. MsgInv'
  BY <1>2, <1>3, <1>4, <1>5, <1>6, <1>7, <1>8, MsgStep
<1>10. AllGoOn
  BY <1>7, IdleGoesOn DEF AllGoOn
<1>11. NoneNumbers
  BY <1>7, IdleJob DEF NoneNumbers
<1> QED
  BY <1>1, <1>2, <1>9, <1>10, <1>11

-----------------------------------------------------------------------------
(***************************************************************************)
(* The numbers of the messages of a room                                    *)
(***************************************************************************)

\* What SeqHasNoGaps and SeqFollowsCausality say of one row
RowIsRight(i) ==
    messages[i].room # NoRoom =>
        /\ messages[i].seq > 1 => HasSeq(messages[i].room, messages[i].seq - 1)
        /\ faults = 0 => messages[i].seq > messages[i].base

LEMMA RowsAreRight ==
    SeqHasNoGaps /\ SeqFollowsCausality <=> \A i \in 1..Len(messages) : RowIsRight(i)
  BY DEF SeqHasNoGaps, SeqFollowsCausality, RowIsRight, HasSeq

LEMMA SeqsHaveThem ==
    ASSUME NEW r, NEW n
    PROVE  n \in Seqs(r) <=> HasSeq(r, n)
  BY DEF Seqs, HasSeq

LEMMA HasSeqStays ==
    ASSUME TypeOK, RowsStay, NEW r, NEW n, HasSeq(r, n)
    PROVE  HasSeq(r, n)'
<1>1. Len(messages) \in Nat /\ Len(messages') \in Nat /\ Len(messages) <= Len(messages')
  BY DEF RowsStay, TypeOK
<1>2. PICK i \in 1..Len(messages) : messages[i].room = r /\ messages[i].seq = n
  BY DEF HasSeq
<1>3. i \in 1..Len(messages') /\ messages'[i].room = r /\ messages'[i].seq = n
  BY <1>1, <1>2 DEF RowsStay
<1> QED
  BY <1>3 DEF HasSeq

LEMMA ContinuesStays ==
    ASSUME TypeOK, RowsStay, faults' = 0 => faults = 0, NEW j, SeqContinues(j)
    PROVE  SeqContinues(j)'
  BY HasSeqStays DEF SeqContinues

\* A step keeps SeqInv when the jobs that change and the new rows are right.
LEMMA SeqStep ==
    ASSUME SeqInv, MsgInv', RowsStay, faults' = 0 => faults = 0,
           \A s \in Slots : job'[s] = job[s] \/ SeqContinues(job[s])',
           \A i \in 1..Len(messages') : i > Len(messages) => RowIsRight(i)'
    PROVE  SeqInv'
<1>t. TypeOK /\ Len(messages) \in Nat /\ Len(messages') \in Nat
  BY TypeLen DEF SeqInv, RowsStay
<1>1. ASSUME NEW s \in Slots
      PROVE  SeqContinues(job[s])'
  <2>1. CASE job'[s] = job[s]
    <3>1. PICK j : j = job[s] /\ j = job'[s]
      BY <2>1
    <3>2. SeqContinues(j)
      BY <3>1 DEF SeqInv
    <3>3. SeqContinues(j)'
      BY <1>t, <3>2, ContinuesStays
    <3> QED
      BY <3>1, <3>3
  <2> QED
    BY <2>1
<1>2. ASSUME NEW i \in 1..Len(messages')
      PROVE  RowIsRight(i)'
  <2>1. CASE i \in 1..Len(messages)
    <3>1. RowIsRight(i)
      BY <2>1, RowsAreRight DEF SeqInv
    <3>2. /\ messages'[i].room = messages[i].room /\ messages'[i].seq = messages[i].seq
          /\ messages'[i].base = messages[i].base
      BY <2>1 DEF RowsStay
    <3>3. PICK r, n : r = messages[i].room /\ n = messages[i].seq - 1
      OBVIOUS
    <3>4. HasSeq(r, n) => HasSeq(r, n)'
      BY <1>t, HasSeqStays
    <3> QED
      BY <3>1, <3>2, <3>3, <3>4 DEF RowIsRight
  <2> QED
    BY <1>t, <2>1
<1>3. (\A i \in 1..Len(messages) : RowIsRight(i))'
  BY <1>2
<1>4. SeqHasNoGaps' /\ SeqFollowsCausality'
  BY <1>3, RowsAreRight, PTL
<1> QED
  BY <1>1, <1>4 DEF SeqInv

LEMMA NoSeqHere ==
    ASSUME NEW j, j.pc \notin {"room", "seq", "insert"}
    PROVE  SeqContinues(j)
  BY DEF SeqContinues

\* A step that stores no row and brings no job to a number
LEMMA QuietSeq ==
    ASSUME SeqInv, MsgInv', NoRow, NoneNumbers
    PROVE  SeqInv'
<1>1. RowsStay /\ Len(messages') = Len(messages) /\ (faults' = 0 => faults = 0)
  BY DEF NoRow
<1>2. \A s \in Slots : job'[s] = job[s] \/ SeqContinues(job[s])'
  BY DEF NoneNumbers, SeqContinues
<1>3. Len(messages) \in Nat
  BY TypeLen DEF SeqInv
<1>4. \A i \in 1..Len(messages') : i > Len(messages) => RowIsRight(i)'
  BY <1>1, <1>3
<1> QED
  BY <1>1, <1>2, <1>4, SeqStep

\* A step of one job that stores no row
LEMMA OneSeq ==
    ASSUME SeqInv, MsgInv', NoRow, NEW s \in Slots, NEW k \in Job,
           job' = [job EXCEPT ![s] = k], SeqContinues(k)'
    PROVE  SeqInv'
<1>1. RowsStay /\ Len(messages') = Len(messages) /\ (faults' = 0 => faults = 0)
  BY DEF NoRow
<1>2. TypeOK /\ Len(messages) \in Nat
  BY TypeLen DEF SeqInv
<1>3. job'[s] = k /\ \A q \in Slots : q # s => job'[q] = job[q]
  BY <1>2, OneJob
<1>4. \A q \in Slots : job'[q] = job[q] \/ SeqContinues(job[q])'
  BY <1>3
<1>5. \A i \in 1..Len(messages') : i > Len(messages) => RowIsRight(i)'
  BY <1>1, <1>2
<1> QED
  BY <1>1, <1>4, <1>5, SeqStep

LEMMA HandleChatMessageSeq ==
    ASSUME SeqInv, NEW s \in Slots, NEW c \in Conns, NEW to \in Uids \cup {NoUid},
           NEW r \in Rooms \cup {NoRoom}, HandleChatMessage(s, c, to, r)
    PROVE  SeqInv'
<1>1. MsgInv /\ TypeOK
  BY DEF SeqInv, MsgInv
<1>2. MsgInv' /\ NoRow
  BY <1>1, HandleChatMessageStep
<1>3. PICK k \in Job, n \in 0..Len(messages) :
        /\ job' = [job EXCEPT ![s] = k]
        /\ IF r = NoRoom THEN n = 0 ELSE IsMaxSeq(r, n)
        /\ k.pc = IF r = NoRoom THEN "insert" ELSE "room"
        /\ k.room = r /\ k.base = n /\ k.seq = 1 /\ k.row = NoRoom
  BY <1>1, HandleChatMessageStep
<1>4. r # NoRoom => n = 0 \/ HasSeq(r, n)
  BY <1>3, SeqsHaveThem DEF IsMaxSeq
<1>5. SeqContinues(k)
  BY <1>3, <1>4 DEF SeqContinues
<1>6. SeqContinues(k)'
  BY <1>1, <1>2, <1>5, ContinuesStays DEF NoRow
<1> QED
  BY <1>2, <1>3, <1>6, OneSeq

LEMMA SelectRoomSeq ==
    ASSUME SeqInv, NEW s \in Slots, SelectRoom(s)
    PROVE  SeqInv'
<1>1. MsgInv /\ TypeOK /\ SeqContinues(job[s])
  BY DEF SeqInv, MsgInv
<1>2. MsgInv' /\ NoRow /\ job[s].pc = "room"
  BY <1>1, SelectRoomStep
<1>3. PICK k \in Job : /\ job' = [job EXCEPT ![s] = k]
                       /\ k.seq = job[s].seq /\ k.base = job[s].base
                       /\ \/ /\ k.pc = "seq" /\ job[s].room \in Rooms
                             /\ k.row = job[s].room
                          \/ k.pc = "insert" /\ k.row = job[s].row
  BY <1>1, SelectRoomStep
<1>4. /\ job[s].row = NoRoom /\ job[s].seq = 1
      /\ job[s].base = 0 \/ HasSeq(job[s].room, job[s].base)
  BY <1>1, <1>2 DEF SeqContinues
<1>5. SeqContinues(k)
  BY <1>3, <1>4 DEF SeqContinues
<1>6. SeqContinues(k)'
  BY <1>1, <1>2, <1>5, ContinuesStays DEF NoRow
<1> QED
  BY <1>2, <1>3, <1>6, OneSeq

LEMMA SelectNumberSeq ==
    ASSUME SeqInv, NEW s \in Slots, SelectNumber(s)
    PROVE  SeqInv'
<1>1. MsgInv /\ TypeOK /\ SeqContinues(job[s]) /\ Len(messages) \in Nat /\ job[s] \in Job
  BY JobOf DEF SeqInv
<1>2. MsgInv' /\ NoRow /\ job[s].pc = "seq"
  BY <1>1, SelectNumberStep
<1>3. PICK k \in Job, n \in 0..Len(messages) :
        /\ job' = [job EXCEPT ![s] = k]
        /\ IsMaxSeq(job[s].row, n)
        /\ k.pc = "insert" /\ k.seq = n + 1
        /\ k.row = job[s].row /\ k.base = job[s].base
  BY <1>1, SelectNumberStep
<1>4. n \in Nat /\ job[s].base \in Nat
  BY <1>1 DEF Job
<1>5. n # 0 => HasSeq(job[s].row, n)
  BY <1>3, SeqsHaveThem DEF IsMaxSeq
<1>6. job[s].base <= n
  <2>1. CASE job[s].base = 0
    BY <1>4, <2>1
  <2>2. CASE HasSeq(job[s].row, job[s].base)
    <3>1. job[s].base \in Seqs(job[s].row)
      BY <2>2, SeqsHaveThem
    <3> QED
      BY <1>3, <3>1 DEF IsMaxSeq
  <2> QED
    BY <1>1, <1>2, <2>1, <2>2 DEF SeqContinues
<1>7. SeqContinues(k)
  <2>1. k.seq > 1 => n # 0 /\ k.seq - 1 = n
    BY <1>3, <1>4
  <2>2. k.seq > k.base
    BY <1>3, <1>4, <1>6
  <2>3. k.seq > 1 => HasSeq(k.row, k.seq - 1)
    BY <1>3, <1>5, <2>1
  <2> QED
    BY <1>3, <2>2, <2>3 DEF SeqContinues
<1>8. SeqContinues(k)'
  BY <1>1, <1>2, <1>7, ContinuesStays DEF NoRow
<1> QED
  BY <1>2, <1>3, <1>8, OneSeq

\* The row that a job inserts is right.
LEMMA InsertedIsRight ==
    ASSUME SeqInv, RowsStay, NEW s \in Slots, job[s].pc = "insert", NEW i,
           messages'[i].room = job[s].row, messages'[i].seq = job[s].seq,
           faults' = 0 => faults = 0 /\ messages'[i].base = job[s].base
    PROVE  RowIsRight(i)'
<1>1. TypeOK /\ SeqContinues(job[s])
  BY DEF SeqInv, MsgInv
<1>2. PICK r, n : r = job[s].row /\ n = job[s].seq - 1
  OBVIOUS
<1>3. HasSeq(r, n) => HasSeq(r, n)'
  BY <1>1, HasSeqStays
<1>4. r # NoRoom /\ job[s].seq > 1 => HasSeq(r, n)
  BY <1>1, <1>2 DEF SeqContinues
<1>5. r # NoRoom /\ faults' = 0 => job[s].seq > job[s].base
  BY <1>1, <1>2 DEF SeqContinues
<1> QED
  BY <1>2, <1>3, <1>4, <1>5 DEF RowIsRight

LEMMA InsertMessageSeq ==
    ASSUME SeqInv, NEW s \in Slots, InsertMessage(s)
    PROVE  SeqInv'
<1>1. MsgInv /\ Len(messages) \in Nat
  BY TypeLen DEF SeqInv
<1>2. /\ MsgInv' /\ RowsStay /\ NoneNumbers /\ faults' = faults
      /\ job[s].pc = "insert"
      /\ Len(messages') = Len(messages) + 1
      /\ messages'[Len(messages) + 1].room = job[s].row
      /\ messages'[Len(messages) + 1].seq = job[s].seq
      /\ messages'[Len(messages) + 1].base = job[s].base
  BY <1>1, InsertMessageStep
<1>3. ASSUME NEW i \in 1..Len(messages'), i > Len(messages)
      PROVE  RowIsRight(i)'
  <2>1. i = Len(messages) + 1
    BY <1>1, <1>2, <1>3
  <2> QED
    BY <1>2, <2>1, InsertedIsRight
<1>4. \A q \in Slots : job'[q] = job[q] \/ SeqContinues(job[q])'
  BY <1>2 DEF NoneNumbers, SeqContinues
<1> QED
  BY <1>2, <1>3, <1>4, SeqStep

LEMMA FaultSeq ==
    ASSUME SeqInv, NEW s \in Slots, Fault(s)
    PROVE  SeqInv'
<1>1. MsgInv /\ Len(messages) \in Nat /\ TypeOK /\ SeqContinues(job[s])
  BY TypeLen DEF SeqInv
<1>2. MsgInv' /\ RowsStay /\ faults' # 0
  BY <1>1, FaultStep
<1>3. \/ Len(messages') = Len(messages)
      \/ /\ job[s].pc = "insert"
         /\ Len(messages') = Len(messages) + 1
         /\ messages'[Len(messages) + 1].room = job[s].row
         /\ messages'[Len(messages) + 1].seq = job[s].seq
  BY <1>1, FaultStep
<1>4. \/ NoneNumbers
      \/ /\ job[s].pc \in {"room", "seq"}
         /\ \E k \in Job : /\ job' = [job EXCEPT ![s] = k]
                           /\ k.pc = "insert" /\ k.row = job[s].row
                           /\ k.seq = job[s].seq
  BY <1>1, FaultStep
<1>5. ASSUME NEW i \in 1..Len(messages'), i > Len(messages)
      PROVE  RowIsRight(i)'
  <2>1. /\ i = Len(messages) + 1 /\ job[s].pc = "insert"
        /\ messages'[Len(messages) + 1].room = job[s].row
        /\ messages'[Len(messages) + 1].seq = job[s].seq
    BY <1>1, <1>3, <1>5
  <2> QED
    BY <1>2, <2>1, InsertedIsRight
<1>6. \A q \in Slots : job'[q] = job[q] \/ SeqContinues(job[q])'
  <2>1. CASE NoneNumbers
    BY <2>1 DEF NoneNumbers, SeqContinues
  <2>2. CASE ~NoneNumbers
    <3>1. PICK k \in Job : /\ job' = [job EXCEPT ![s] = k]
                           /\ k.pc = "insert" /\ k.row = job[s].row
                           /\ k.seq = job[s].seq
      BY <1>4, <2>2
    <3>2. job[s].seq = 1
      BY <1>1, <1>4, <2>2 DEF SeqContinues
    <3>3. SeqContinues(k)'
      BY <1>2, <3>1, <3>2 DEF SeqContinues
    <3>4. job'[s] = k /\ \A q \in Slots : q # s => job'[q] = job[q]
      BY <1>1, <3>1, OneJob
    <3> QED
      BY <3>3, <3>4
  <2> QED
    BY <2>1, <2>2
<1> QED
  BY <1>2, <1>5, <1>6, SeqStep

-----------------------------------------------------------------------------
LEMMA InitMsg == Init => MsgInv
<1> SUFFICES ASSUME Init PROVE MsgInv
  OBVIOUS
<1>1. SMTypeOK /\ AuthenticatedHasUid
  BY NullAssumption DEF Init, SMInit, SMTypeOK, TcpStates, NoSession, Session,
                        AuthenticatedHasUid, IsAuthenticated, GetUid
<1>2. messages = << >> /\ messages \in Seq(Row) /\ Len(messages) = 0
  BY DEF Init
<1>3. RoomsOK
  BY DEF Init, RoomsOK
<1>4. NetOK
  <2>1. /\ << >> \in Seq([conn : Conns, item : Item])
        /\ << >> \in Seq([item : Item, session : Uids \cup {NoUid}])
    OBVIOUS
  <2> QED
    BY <2>1 DEF Init, NetOK
<1>5. BoundsOK
  BY MessageAssumption DEF Init, BoundsOK
<1>6. job \in [Slots -> Job] /\ \A s \in Slots : job[s] = Idle
  BY IdleJob DEF Init
<1>7. JobIsSound(Idle)
  <2>1. 0 \in 0..Len(messages)
    BY <1>2
  <2> QED
    BY <2>1, IdleJob DEF JobIsSound
<1>8. TypeOK
  BY <1>1, <1>2, <1>3, <1>4, <1>5, <1>6, TypeParts
<1> QED
  BY <1>1, <1>6, <1>7, <1>8 DEF MsgInv

LEMMA InitSeq == Init => SeqInv
<1> SUFFICES ASSUME Init PROVE SeqInv
  OBVIOUS
<1>1. MsgInv
  BY InitMsg
<1>2. Len(messages) = 0 /\ \A s \in Slots : job[s] = Idle
  BY DEF Init
<1>3. \A s \in Slots : SeqContinues(job[s])
  BY <1>2, IdleJob DEF SeqContinues
<1>4. SeqHasNoGaps /\ SeqFollowsCausality
  BY <1>2 DEF SeqHasNoGaps, SeqFollowsCausality
<1> QED
  BY <1>1, <1>3, <1>4 DEF SeqInv

LEMMA NextSeq == SeqInv /\ [Next]_vars => SeqInv'
<1> SUFFICES ASSUME SeqInv, [Next]_vars PROVE SeqInv'
  OBVIOUS
<1>m. MsgInv
  BY DEF SeqInv
<1>q. ASSUME Quiet
      PROVE  SeqInv'
  BY <1>q, QuietSeq DEF Quiet
<1>1. ASSUME NEW s \in Slots, NEW c \in Conns, Request(s, c)
      PROVE  SeqInv'
  <2>1. PICK to \in Uids \cup {NoUid}, r \in Rooms \cup {NoRoom} :
          \/ HandleChatMessage(s, c, to, r)
          \/ \E m \in 1..MaxMessages : HandleRecall(s, c, m, to, r)
    BY <1>1 DEF Request
  <2>2. CASE HandleChatMessage(s, c, to, r)
    BY <2>2, HandleChatMessageSeq
  <2>3. ASSUME NEW m \in 1..MaxMessages, HandleRecall(s, c, m, to, r)
        PROVE  SeqInv'
    BY <1>m, <2>3, HandleRecallStep, QuietSeq
  <2> QED
    BY <2>1, <2>2, <2>3
<1>2. ASSUME NEW s \in Slots, Worker(s)
      PROVE  SeqInv'
  BY <1>m, <1>q, <1>2, SelectRoomSeq, SelectNumberSeq, InsertMessageSeq,
     GetMessageStep, UpdateRecalledStep, PeekMessageStep DEF Worker
<1>3. ASSUME NEW s \in Slots, Fault(s)
      PROVE  SeqInv'
  BY <1>3, FaultSeq
<1>4. ASSUME NEW s \in Slots, Callback(s)
      PROVE  SeqInv'
  BY <1>m, <1>q, <1>4, CallbackStep
<1>5. ASSUME NEW s \in Slots, EndCallback(s)
      PROVE  SeqInv'
  BY <1>m, <1>5, EndCallbackStep, QuietSeq
<1>6. ASSUME NEW s \in Slots, NEW u \in Uids, SendNext(s, u)
      PROVE  SeqInv'
  BY <1>m, <1>6, SendNextStep, QuietSeq
<1>7. ASSUME NEW l \in Loops, RunFunctor(l)
      PROVE  SeqInv'
  <2>1. MsgInv' /\ NoRow /\ UNCHANGED job
    BY <1>m, <1>7, RunFunctorStep
  <2>2. NoneNumbers
    BY <2>1, SameJobs, TypeLen, <1>m
  <2> QED
    BY <2>1, <2>2, QuietSeq
<1>8. CASE RestartServer
  BY <1>m, <1>8, RestartServerStep, QuietSeq
<1>9. CASE \/ \E c \in Conns : Connection(c) \/ Login(c)
           \/ \E r \in Rooms : RoomCreated(r) \/ \E u \in Uids : RoomJoined(r, u)
           \/ UNCHANGED vars
  BY <1>m, <1>q, <1>9, EnvironmentStep
<1> QED
  BY <1>1, <1>2, <1>3, <1>4, <1>5, <1>6, <1>7, <1>8, <1>9 DEF Next

\* In every behaviour the rows and the requests in progress agree: the number
\* that a request is about to insert continues those of its room
\* (mysql_message_repo.cc:24-52).
THEOREM SeqInvariance == Spec => []SeqInv
<1> QED
  BY InitSeq, NextSeq, PTL DEF Spec

\* The numbers of a room have no gap, for any number of requests in progress.
THEOREM NumbersHaveNoGaps == Spec => []SeqHasNoGaps
<1>1. SeqInv => SeqHasNoGaps
  BY DEF SeqInv
<1> QED
  BY <1>1, SeqInvariance, PTL

\* While no statement fails, a message has a higher number than every message
\* of its room that was stored when its request was read.
THEOREM NumbersFollowCausality == Spec => []SeqFollowsCausality
<1>1. SeqInv => SeqFollowsCausality
  BY DEF SeqInv
<1> QED
  BY <1>1, SeqInvariance, PTL

-----------------------------------------------------------------------------
(***************************************************************************)
(* What is sent, and in which order                                         *)
(***************************************************************************)

LEMMA AppendItem ==
    ASSUME NEW S, NEW q \in Seq(S), NEW e \in S
    PROVE  ItemsOf(Append(q, e)) = ItemsOf(q) \cup {e.item}
<1>0. Append(q, e) \in Seq(S)
  OBVIOUS
<1>1. PICK r \in Seq(S) : r = Append(q, e)
  BY <1>0
<1>2. Len(q) \in Nat /\ Len(r) = Len(q) + 1
  BY <1>1
<1>3. /\ \A k \in 1..Len(q) : r[k] = q[k]
      /\ r[Len(q) + 1] = e
  BY <1>1, <1>2
<1>4. ASSUME NEW x \in ItemsOf(r)
      PROVE  x \in ItemsOf(q) \cup {e.item}
  <2>1. PICK k \in 1..Len(r) : x = r[k].item
    BY DEF ItemsOf
  <2>2. k \in 1..Len(q) \/ k = Len(q) + 1
    BY <1>2
  <2> QED
    BY <1>3, <2>1, <2>2 DEF ItemsOf
<1>5. ItemsOf(q) \subseteq ItemsOf(r)
  <2>1. \A k \in 1..Len(q) : k \in 1..Len(r)
    BY <1>2
  <2> QED
    BY <1>3, <2>1 DEF ItemsOf
<1>6. e.item \in ItemsOf(r)
  <2>1. Len(q) + 1 \in 1..Len(r)
    BY <1>2
  <2> QED
    BY <1>3, <2>1 DEF ItemsOf
<1> QED
  BY <1>1, <1>4, <1>5, <1>6

LEMMA AppendInOrder ==
    ASSUME NEW S, NEW q \in Seq(S), NEW e \in S, InOrder(q),
           \A x \in ItemsOf(q) : ~TooEarly(x, e.item)
    PROVE  InOrder(Append(q, e))
<1>0. Append(q, e) \in Seq(S)
  OBVIOUS
<1>1. PICK r \in Seq(S) : r = Append(q, e)
  BY <1>0
<1>2. Len(q) \in Nat /\ Len(r) = Len(q) + 1
  BY <1>1
<1>3. /\ \A k \in 1..Len(q) : r[k] = q[k]
      /\ r[Len(q) + 1] = e
  BY <1>1, <1>2
<1>4. ASSUME NEW j \in 1..Len(r), NEW i \in 1..(j - 1)
      PROVE  ~TooEarly(r[i].item, r[j].item)
  <2>1. i \in 1..Len(q) /\ r[i] = q[i]
    BY <1>2, <1>3
  <2>2. CASE j \in 1..Len(q)
    BY <1>3, <2>1, <2>2 DEF InOrder
  <2>3. CASE j = Len(q) + 1
    <3>1. q[i].item \in ItemsOf(q)
      BY <2>1 DEF ItemsOf
    <3> QED
      BY <1>3, <2>1, <2>3, <3>1
  <2> QED
    BY <1>2, <2>2, <2>3
<1> QED
  BY <1>1, <1>4 DEF InOrder

LEMMA TailInOrder ==
    ASSUME NEW S, NEW q \in Seq(S), q # << >>, InOrder(q)
    PROVE  /\ InOrder(Tail(q))
           /\ ItemsOf(Tail(q)) \subseteq ItemsOf(q)
           /\ Head(q).item \in ItemsOf(q)
           /\ \A k \in 1..Len(Tail(q)) :
                /\ k + 1 \in 1..Len(q) /\ Tail(q)[k] = q[k + 1]
                /\ ~TooEarly(Head(q).item, Tail(q)[k].item)
<1>1. Len(q) \in Nat /\ Len(q) > 0 /\ Head(q) = q[1]
  OBVIOUS
<1>0. Tail(q) \in Seq(S)
  OBVIOUS
<1>2. PICK r \in Seq(S) : r = Tail(q)
  BY <1>0
<1>3. Len(r) = Len(q) - 1
  BY <1>1, <1>2
<1>4. \A k \in 1..Len(r) : k + 1 \in 1..Len(q) /\ r[k] = q[k + 1]
  BY <1>1, <1>2, <1>3
<1>5. ASSUME NEW k \in 1..Len(r)
      PROVE  ~TooEarly(q[1].item, r[k].item)
  <2>1. 1 \in 1..((k + 1) - 1) /\ k + 1 \in 1..Len(q)
    BY <1>1, <1>3
  <2> QED
    BY <1>4, <2>1 DEF InOrder
<1>6. InOrder(r)
  <2>1. ASSUME NEW j \in 1..Len(r), NEW i \in 1..(j - 1)
        PROVE  ~TooEarly(r[i].item, r[j].item)
    <3>1. i \in 1..Len(r) /\ j + 1 \in 1..Len(q) /\ i + 1 \in 1..((j + 1) - 1)
      BY <1>1, <1>3
    <3>2. ~TooEarly(q[i + 1].item, q[j + 1].item)
      BY <3>1 DEF InOrder
    <3> QED
      BY <1>4, <3>1, <3>2
  <2> QED
    BY <2>1 DEF InOrder
<1>7. ItemsOf(r) \subseteq ItemsOf(q)
  BY <1>4 DEF ItemsOf
<1>8. q[1].item \in ItemsOf(q)
  <2>1. 1 \in 1..Len(q)
    BY <1>1
  <2> QED
    BY <2>1 DEF ItemsOf
<1> QED
  BY <1>1, <1>2, <1>4, <1>5, <1>6, <1>7, <1>8

LEMMA ItemIn ==
    ASSUME NEW x
    PROVE  x \in AllItems <=> \/ \E c \in Conns : x \in ItemsOf(wire[c])
                              \/ \E l \in Loops : x \in ItemsOf(functors[l])
  BY DEF AllItems

\* What every item that a step adds comes from
ItemsComeFromJobs ==
    \A y \in AllItems' :
        \/ y \in AllItems
        \/ \E s \in Slots : /\ job[s].pc = "sending"
                            /\ y.kind = job[s].kind /\ y.msg = job[s].msg
                            /\ y.via = job[s].conn

JobParts == RecallsAreStored /\ UnsentIsUnknown /\ SendingComesFirst /\ OneJobAMessage

NetParts == FunctorsInOrder /\ RecallFollowsMessage

LEMMA RecallParts == RecallInv <=> MsgInv /\ ItemsAreStored /\ JobParts /\ NetParts
  BY DEF RecallInv, JobParts, NetParts

\* What is sent stays about rows that are there.
LEMMA StoredStep ==
    ASSUME RecallInv, RowsStay, ItemsComeFromJobs
    PROVE  ItemsAreStored'
<1>1. /\ MsgInv /\ Len(messages) \in Nat /\ Len(messages') \in Nat
      /\ Len(messages) <= Len(messages') /\ ItemsAreStored
  BY TypeLen DEF RecallInv, RowsStay
<1>2. ASSUME NEW y \in AllItems'
      PROVE  y.msg \in 1..Len(messages')
  <2>1. CASE y \in AllItems
    BY <1>1, <2>1 DEF ItemsAreStored
  <2>2. ASSUME NEW s \in Slots, job[s].pc = "sending", y.msg = job[s].msg
        PROVE  y.msg \in 1..Len(messages')
    <3>1. JobIsSound(job[s])
      BY <1>1, JobOf
    <3> QED
      BY <1>1, <2>2, <3>1 DEF JobIsSound
  <2> QED
    BY <2>1, <2>2 DEF ItemsComeFromJobs
<1> QED
  BY <1>2 DEF ItemsAreStored

\* The parts of RecallInv about the jobs, for a step that stores no message
\* and begins no recall
LEMMA JobPartsStep ==
    ASSUME RecallInv, MsgInv', RowsStay, AllGoOn, ItemsComeFromJobs
    PROVE  JobParts'
<1>1. UnsentIsUnknown /\ SendingComesFirst /\ OneJobAMessage
  BY DEF RecallInv
<1>2. ASSUME NEW s \in Slots, job'[s].pc = "sent"
      PROVE  /\ job[s].pc = "sent" /\ job[s].kind = "msg" /\ job'[s].msg = job[s].msg
             /\ \A x \in AllItems : x.kind # "guess" => x.msg # job[s].msg
             /\ \A q \in Slots : job[q].kind = "recall" => job[q].msg # job[s].msg
  <2>1. JobIsSound(job[s])'
    BY DEF MsgInv
  <2>2. Active(job'[s])
    BY <1>2, <2>1 DEF JobIsSound, Active
  <2>3. job[s].pc = "sent" /\ job[s].kind = "msg" /\ job'[s].msg = job[s].msg
    BY <1>2, <2>2 DEF AllGoOn, GoesOn, Active
  <2> QED
    BY <1>1, <2>3 DEF UnsentIsUnknown
<1>3. UnsentIsUnknown'
  <2>1. ASSUME NEW s \in Slots, job'[s].pc = "sent", NEW x \in AllItems', x.kind # "guess"
        PROVE  x.msg # job'[s].msg
    <3>1. CASE x \in AllItems
      BY <1>2, <2>1, <3>1
    <3>2. ASSUME NEW q \in Slots, job[q].pc = "sending", x.kind = job[q].kind,
                 x.msg = job[q].msg
          PROVE  x.msg # job'[s].msg
      <4>1. CASE job[q].kind = "recall"
        BY <1>2, <2>1, <3>2, <4>1
      <4>2. CASE job[q].kind = "msg"
        <5>1. q # s
          BY <1>2, <2>1, <3>2
        <5> QED
          BY <1>1, <1>2, <2>1, <3>2, <4>2, <5>1 DEF OneJobAMessage
      <4>3. job[q] \in Job
        BY JobOf DEF RecallInv
      <4> QED
        BY <2>1, <3>2, <4>1, <4>2, <4>3 DEF Job, Kinds
    <3> QED
      BY <3>1, <3>2 DEF ItemsComeFromJobs
  <2>2. ASSUME NEW s \in Slots, job'[s].pc = "sent", NEW q \in Slots, job'[q].kind = "recall"
        PROVE  job'[q].msg # job'[s].msg
    <3>1. job[q].kind = "recall" /\ job'[q].msg = job[q].msg
      BY <2>2 DEF AllGoOn, GoesOn
    <3> QED
      BY <1>2, <2>2, <3>1
  <2> QED
    BY <2>1, <2>2 DEF UnsentIsUnknown
<1>4. ASSUME NEW s \in Slots, job'[s].pc = "sending", job'[s].kind = "msg"
      PROVE  /\ job[s].kind = "msg" /\ job[s].pc \in {"sent", "sending"}
             /\ job'[s].msg = job[s].msg /\ job'[s].conn = job[s].conn
             /\ \A x \in AllItems :
                  ~(x.kind = "recall" /\ x.msg = job[s].msg /\ x.via = job[s].conn)
             /\ \A q \in Slots :
                  ~(job[q].kind = "recall" /\ job[q].msg = job[s].msg
                      /\ job[q].conn = job[s].conn)
  <2>1. Active(job'[s])
    BY <1>4 DEF Active
  <2>2. /\ job[s].kind = "msg" /\ job[s].pc \in {"sent", "sending"}
        /\ job'[s].msg = job[s].msg /\ job'[s].conn = job[s].conn
    BY <2>1 DEF AllGoOn, GoesOn, Active
  <2>3. CASE job[s].pc = "sent"
    BY <1>1, <2>2, <2>3 DEF UnsentIsUnknown
  <2>4. CASE job[s].pc = "sending"
    BY <1>1, <2>2, <2>4 DEF SendingComesFirst
  <2> QED
    BY <2>2, <2>3, <2>4
<1>5. SendingComesFirst'
  <2>1. ASSUME NEW s \in Slots, job'[s].pc = "sending", job'[s].kind = "msg",
               NEW x \in AllItems'
        PROVE  ~(x.kind = "recall" /\ x.msg = job'[s].msg /\ x.via = job'[s].conn)
    <3>1. CASE x \in AllItems
      BY <1>4, <2>1, <3>1
    <3>2. ASSUME NEW q \in Slots, x.kind = job[q].kind, x.msg = job[q].msg,
                 x.via = job[q].conn
          PROVE  ~(x.kind = "recall" /\ x.msg = job'[s].msg /\ x.via = job'[s].conn)
      BY <1>4, <2>1, <3>2
    <3> QED
      BY <3>1, <3>2 DEF ItemsComeFromJobs
  <2>2. ASSUME NEW s \in Slots, job'[s].pc = "sending", job'[s].kind = "msg",
               NEW q \in Slots
        PROVE  ~(job'[q].kind = "recall" /\ job'[q].msg = job'[s].msg
                   /\ job'[q].conn = job'[s].conn)
    <3>1. job'[q].kind = "recall" => /\ job[q].kind = "recall" /\ job'[q].msg = job[q].msg
                                     /\ job'[q].conn = job[q].conn
      BY DEF AllGoOn, GoesOn
    <3> QED
      BY <1>4, <2>2, <3>1
  <2> QED
    BY <2>1, <2>2 DEF SendingComesFirst
<1>6. OneJobAMessage'
  <2>1. ASSUME NEW s \in Slots, NEW q \in Slots, s # q,
               job'[s].kind = "msg", job'[q].kind = "msg",
               job'[s].pc \in {"sent", "sending"}, job'[q].pc \in {"sent", "sending"}
        PROVE  job'[s].msg # job'[q].msg
    <3>1. Active(job'[s]) /\ Active(job'[q])
      BY <2>1 DEF Active
    <3>2. Active(job[s]) /\ Active(job[q]) /\ job'[s].msg = job[s].msg /\ job'[q].msg = job[q].msg
      BY <3>1 DEF AllGoOn, GoesOn
    <3> QED
      BY <1>1, <2>1, <3>2 DEF OneJobAMessage, Active
  <2> QED
    BY <2>1 DEF OneJobAMessage
<1>7. RecallsAreStored'
  <2>1. Len(messages) \in Nat /\ Len(messages') \in Nat /\ Len(messages) <= Len(messages')
    BY TypeLen DEF RecallInv, RowsStay
  <2>2. ASSUME NEW s \in Slots, job'[s].kind = "recall"
        PROVE  job'[s].msg \in 1..Len(messages')
    <3>1. job[s].kind = "recall" /\ job'[s].msg = job[s].msg
      BY <2>2 DEF AllGoOn, GoesOn
    <3>2. job[s].msg \in 1..Len(messages)
      BY <3>1 DEF RecallInv, RecallsAreStored
    <3> QED
      BY <2>1, <3>1, <3>2
  <2> QED
    BY <2>2 DEF RecallsAreStored
<1> QED
  BY <1>3, <1>5, <1>6, <1>7 DEF JobParts

\* Nothing is sent.
LEMMA NetSame ==
    ASSUME RecallInv, UNCHANGED net
    PROVE  ItemsComeFromJobs /\ NetParts'
  BY DEF RecallInv, net, ItemsComeFromJobs, AllItems, NetParts, FunctorsInOrder,
         RecallFollowsMessage

\* A functor that may be run when its turn comes
Fits(l, f) ==
    /\ LoopOf[f.conn] = l /\ LoopOf[f.item.via] # l
    /\ \A x \in ItemsOf(wire[f.conn]) : ~TooEarly(x, f.item)

LEMMA FunctorsFit ==
    FunctorsInOrder <=> \A l \in Loops : /\ InOrder(functors[l])
                                         /\ \A k \in 1..Len(functors[l]) : Fits(l, functors[l][k])
  BY DEF FunctorsInOrder, Fits

LEMMA NetTypes ==
    ASSUME MsgInv
    PROVE  /\ wire \in [Conns -> Seq([item : Item, session : Uids \cup {NoUid}])]
           /\ functors \in [Loops -> Seq([conn : Conns, item : Item])]
  BY DEF MsgInv, TypeOK

\* What a write adds to the connections
LEMMA WroteItems ==
    ASSUME MsgInv, NEW c \in Conns, NEW x \in Item, Wrote(c, x)
    PROVE  /\ \A d \in Conns : d # c => wire'[d] = wire[d]
           /\ ItemsOf(wire'[c]) \subseteq ItemsOf(wire[c]) \cup {x}
           /\ InOrder(wire[c]) /\ (\A y \in ItemsOf(wire[c]) : ~TooEarly(y, x))
                => InOrder(wire'[c])
<1> DEFINE Sent == [item : Item, session : Uids \cup {NoUid}]
<1>1. wire \in [Conns -> Seq(Sent)]
  BY NetTypes
<1>2. CASE wire' = wire
  BY <1>2
<1>3. CASE wire' # wire
  <2>1. PICK e \in Sent : e.item = x /\ wire' = [wire EXCEPT ![c] = Append(wire[c], e)]
    BY <1>3 DEF Wrote
  <2> HIDE DEF Sent
  <2>2. wire[c] \in Seq(Sent)
    BY <1>1
  <2>3. wire'[c] = Append(wire[c], e) /\ \A d \in Conns : d # c => wire'[d] = wire[d]
    BY <1>1, <2>1
  <2>4. ItemsOf(wire'[c]) = ItemsOf(wire[c]) \cup {x}
    BY <2>1, <2>2, <2>3, AppendItem
  <2>5. InOrder(wire[c]) /\ (\A y \in ItemsOf(wire[c]) : ~TooEarly(y, x))
          => InOrder(wire'[c])
    BY <2>1, <2>2, <2>3, AppendInOrder
  <2> QED
    BY <2>3, <2>4, <2>5
<1> QED
  BY <1>2, <1>3

\* A callback writes on a connection of its own loop: what other loops posted
\* to that loop was requested on their connections.
LEMMA WriteNet ==
    ASSUME RecallInv, NEW s \in Slots, job[s].pc = "sending", NEW c \in Conns, NEW x \in Item,
           x.kind = job[s].kind, x.msg = job[s].msg, x.via = job[s].conn,
           LoopOf[c] = LoopOf[job[s].conn], Wrote(c, x), UNCHANGED functors
    PROVE  ItemsComeFromJobs /\ NetParts'
<1>1. MsgInv /\ FunctorsInOrder /\ RecallFollowsMessage /\ SendingComesFirst
  BY DEF RecallInv
<1>2. /\ \A d \in Conns : d # c => wire'[d] = wire[d]
      /\ ItemsOf(wire'[c]) \subseteq ItemsOf(wire[c]) \cup {x}
      /\ InOrder(wire[c]) /\ (\A y \in ItemsOf(wire[c]) : ~TooEarly(y, x))
           => InOrder(wire'[c])
  BY <1>1, WroteItems
<1>3. ItemsComeFromJobs
  <2>1. ASSUME NEW y, y \in AllItems'
        PROVE  y \in AllItems \/ y = x
    <3>1. \/ \E d \in Conns : y \in ItemsOf(wire'[d])
          \/ \E l \in Loops : y \in ItemsOf(functors[l])
      BY <2>1 DEF AllItems
    <3> QED
      BY <1>2, <3>1, ItemIn
  <2> QED
    BY <2>1 DEF ItemsComeFromJobs
<1>4. \A y \in AllItems : ~TooEarly(y, x)
  BY <1>1 DEF SendingComesFirst, TooEarly
<1>5. RecallFollowsMessage'
  <2>1. InOrder(wire'[c])
    BY <1>1, <1>2, <1>4, ItemIn DEF RecallFollowsMessage
  <2> QED
    BY <1>1, <1>2, <2>1 DEF RecallFollowsMessage
<1>6. ASSUME NEW l \in Loops, NEW k \in 1..Len(functors[l])
      PROVE  Fits(l, functors[l][k])'
  <2>f. PICK f : f = functors[l][k]
    OBVIOUS
  <2>1. Fits(l, f)
    BY <1>1, <2>f, FunctorsFit
  <2>2. f.conn \in Conns
    <3> DEFINE Functor == [conn : Conns, item : Item]
    <3>1. functors[l] \in Seq(Functor)
      BY <1>1, NetTypes
    <3> HIDE DEF Functor
    <3>2. f \in Functor
      BY <2>f, <3>1
    <3> QED
      BY <3>2 DEF Functor
  <2>3. f.conn = c => ~TooEarly(x, f.item)
    BY <2>1 DEF Fits, TooEarly
  <2>4. \A y \in ItemsOf(wire'[f.conn]) : ~TooEarly(y, f.item)
    BY <1>2, <2>1, <2>2, <2>3 DEF Fits
  <2>5. Fits(l, f)'
    BY <2>1, <2>4 DEF Fits
  <2> QED
    BY <2>5, <2>f
<1>7. (\A l \in Loops : /\ InOrder(functors[l])
                        /\ \A k \in 1..Len(functors[l]) : Fits(l, functors[l][k]))'
  BY <1>1, <1>6 DEF FunctorsInOrder
<1>8. FunctorsInOrder'
  BY <1>7, FunctorsFit, PTL
<1> QED
  BY <1>3, <1>5, <1>8 DEF NetParts

\* A callback posts to another loop.
LEMMA PostNet ==
    ASSUME RecallInv, NEW s \in Slots, job[s].pc = "sending", NEW c \in Conns, NEW x \in Item,
           x.kind = job[s].kind, x.msg = job[s].msg, x.via = job[s].conn,
           LoopOf[c] # LoopOf[job[s].conn], Posted(c, x), UNCHANGED wire
    PROVE  ItemsComeFromJobs /\ NetParts'
<1> DEFINE Functor == [conn : Conns, item : Item]
<1>1. MsgInv /\ FunctorsInOrder /\ RecallFollowsMessage /\ SendingComesFirst
  BY DEF RecallInv
<1>2. CASE functors' = functors
  BY <1>2, NetSame DEF net
<1>3. CASE functors' # functors
  <2>e. PICK e \in Functor :
          /\ e.conn = c /\ e.item = x
          /\ functors' = [functors EXCEPT ![LoopOf[c]] = Append(functors[LoopOf[c]], e)]
    BY <1>3 DEF Posted
  <2>l. PICK l \in Loops : l = LoopOf[c]
    BY MessageAssumption
  <2>1. functors \in [Loops -> Seq(Functor)]
    BY <1>1, NetTypes
  <2> HIDE DEF Functor
  <2>2. functors[l] \in Seq(Functor)
    BY <2>1
  <2>3. functors'[l] = Append(functors[l], e) /\ \A m \in Loops : m # l => functors'[m] = functors[m]
    BY <2>1, <2>e, <2>l
  <2>4. ItemsOf(functors'[l]) = ItemsOf(functors[l]) \cup {x}
    BY <2>2, <2>3, <2>e, AppendItem
  <2>5. ItemsComeFromJobs
    <3>1. ASSUME NEW y, y \in AllItems'
          PROVE  y \in AllItems \/ y = x
      <4>1. \/ \E d \in Conns : y \in ItemsOf(wire[d])
            \/ \E m \in Loops : y \in ItemsOf(functors'[m])
        BY <3>1 DEF AllItems
      <4> QED
        BY <2>3, <2>4, <4>1, ItemIn
    <3> QED
      BY <3>1 DEF ItemsComeFromJobs
  <2>6. \A y \in AllItems : ~TooEarly(y, x)
    BY <1>1 DEF SendingComesFirst, TooEarly
  <2>7. InOrder(functors'[l])
    <3>1. \A y \in ItemsOf(functors[l]) : ~TooEarly(y, e.item)
      BY <2>6, <2>e, ItemIn
    <3>2. InOrder(functors[l])
      BY <1>1 DEF FunctorsInOrder
    <3> QED
      BY <2>2, <2>3, <3>1, <3>2, AppendInOrder
  <2>8. Fits(l, e)'
    <3>1. LoopOf[e.conn] = l /\ LoopOf[e.item.via] # l
      BY <2>e, <2>l
    <3>2. \A y \in ItemsOf(wire[e.conn]) : ~TooEarly(y, e.item)
      BY <2>6, <2>e, ItemIn
    <3> QED
      BY <3>1, <3>2 DEF Fits
  <2>9. ASSUME NEW m \in Loops, NEW k \in 1..Len(functors'[m])
        PROVE  Fits(m, functors[m][k])'
    <3>1. ASSUME k \in 1..Len(functors[m]), functors'[m][k] = functors[m][k]
          PROVE  Fits(m, functors[m][k])'
      <4>1. PICK f : f = functors[m][k] /\ f = functors'[m][k]
        BY <3>1
      <4>2. Fits(m, f)
        BY <1>1, <3>1, <4>1, FunctorsFit
      <4>3. Fits(m, f)'
        BY <4>2 DEF Fits
      <4> QED
        BY <4>1, <4>3
    <3>2. CASE m # l
      BY <2>3, <3>1, <3>2
    <3>3. CASE m = l
      <4>1. /\ Len(functors[l]) \in Nat /\ Len(functors'[l]) = Len(functors[l]) + 1
            /\ functors'[l][Len(functors[l]) + 1] = e
            /\ \A i \in 1..Len(functors[l]) : functors'[l][i] = functors[l][i]
        BY <2>2, <2>3
      <4>2. CASE k \in 1..Len(functors[l])
        BY <3>1, <3>3, <4>1, <4>2
      <4>3. CASE k \notin 1..Len(functors[l])
        <5>1. k = Len(functors[l]) + 1
          BY <3>3, <4>1, <4>3
        <5>2. functors'[m][k] = e
          BY <3>3, <4>1, <5>1
        <5> QED
          BY <2>8, <3>3, <5>2
      <4> QED
        BY <4>2, <4>3
    <3> QED
      BY <3>2, <3>3
  <2>10. (\A m \in Loops : /\ InOrder(functors[m])
                           /\ \A k \in 1..Len(functors[m]) : Fits(m, functors[m][k]))'
    BY <1>1, <2>3, <2>7, <2>9 DEF FunctorsInOrder
  <2>11. FunctorsInOrder'
    BY <2>10 DEF FunctorsInOrder, Fits
  <2>12. RecallFollowsMessage'
    BY <1>1 DEF RecallFollowsMessage
  <2> QED
    BY <2>5, <2>11, <2>12 DEF NetParts
<1> QED
  BY <1>2, <1>3

LEMMA SendsNet ==
    ASSUME RecallInv, NEW s \in Slots, job[s].pc = "sending", Sends(job[s])
    PROVE  ItemsComeFromJobs /\ NetParts'
<1>1. CASE UNCHANGED net
  BY <1>1, NetSame
<1>2. ASSUME NEW c \in Conns, NEW x \in Item,
             x.kind = job[s].kind, x.msg = job[s].msg, x.via = job[s].conn,
             \/ LoopOf[c] = LoopOf[job[s].conn] /\ Wrote(c, x) /\ UNCHANGED functors
             \/ LoopOf[c] # LoopOf[job[s].conn] /\ Posted(c, x) /\ UNCHANGED wire
      PROVE  ItemsComeFromJobs /\ NetParts'
  BY <1>2, WriteNet, PostNet
<1> QED
  BY <1>1, <1>2 DEF Sends

\* A loop runs the first of its functors; those behind it stay in order.
LEMMA RunFunctorNet ==
    ASSUME RecallInv, NEW l \in Loops, RunFunctor(l)
    PROVE  ItemsComeFromJobs /\ NetParts'
<1> DEFINE Functor == [conn : Conns, item : Item]
<1>1. MsgInv /\ FunctorsInOrder /\ RecallFollowsMessage
  BY DEF RecallInv
<1>f. PICK f \in Functor :
        /\ functors[l] # << >> /\ f = Head(functors[l]) /\ Wrote(f.conn, f.item)
        /\ functors' = [functors EXCEPT ![l] = Tail(functors[l])]
  BY <1>1, RunFunctorStep
<1>2. f.conn \in Conns /\ f.item \in Item
  OBVIOUS
<1>3. functors \in [Loops -> Seq(Functor)]
  BY <1>1, NetTypes
<1> HIDE DEF Functor
<1>4. functors[l] \in Seq(Functor) /\ InOrder(functors[l])
  BY <1>1, <1>3 DEF FunctorsInOrder
<1>5. functors'[l] = Tail(functors[l]) /\ \A m \in Loops : m # l => functors'[m] = functors[m]
  BY <1>3, <1>f
<1>6. /\ InOrder(functors'[l])
      /\ ItemsOf(functors'[l]) \subseteq ItemsOf(functors[l])
      /\ f.item \in ItemsOf(functors[l])
      /\ \A k \in 1..Len(functors'[l]) :
           /\ k + 1 \in 1..Len(functors[l]) /\ functors'[l][k] = functors[l][k + 1]
           /\ ~TooEarly(f.item, functors'[l][k].item)
  BY <1>4, <1>5, <1>f, TailInOrder
<1>7. Fits(l, f)
  <2>1. 1 \in 1..Len(functors[l]) /\ f = functors[l][1]
    BY <1>4, <1>f
  <2> QED
    BY <1>1, <2>1, FunctorsFit
<1>8. /\ \A d \in Conns : d # f.conn => wire'[d] = wire[d]
      /\ ItemsOf(wire'[f.conn]) \subseteq ItemsOf(wire[f.conn]) \cup {f.item}
      /\ InOrder(wire[f.conn]) /\ (\A y \in ItemsOf(wire[f.conn]) : ~TooEarly(y, f.item))
           => InOrder(wire'[f.conn])
  BY <1>1, <1>2, <1>f, WroteItems
<1>9. ItemsComeFromJobs
  <2>1. ASSUME NEW y, y \in AllItems'
        PROVE  y \in AllItems
    <3>1. \/ \E d \in Conns : y \in ItemsOf(wire'[d])
          \/ \E m \in Loops : y \in ItemsOf(functors'[m])
      BY <2>1 DEF AllItems
    <3>2. f.item \in AllItems
      BY <1>6, ItemIn
    <3> QED
      BY <1>2, <1>5, <1>6, <1>8, <3>1, <3>2, ItemIn
  <2> QED
    BY <2>1 DEF ItemsComeFromJobs
<1>10. RecallFollowsMessage'
  <2>1. InOrder(wire'[f.conn])
    BY <1>1, <1>2, <1>7, <1>8 DEF RecallFollowsMessage, Fits
  <2> QED
    BY <1>1, <1>2, <1>8, <2>1 DEF RecallFollowsMessage
<1>11. ASSUME NEW m \in Loops, NEW k \in 1..Len(functors'[m])
       PROVE  Fits(m, functors[m][k])'
  <2>g. PICK g : g = functors'[m][k]
    OBVIOUS
  <2>1. /\ Fits(m, g) /\ g.conn \in Conns
        /\ m = l => ~TooEarly(f.item, g.item)
    <3>1. CASE m = l
      <4>1. k + 1 \in 1..Len(functors[l]) /\ g = functors[l][k + 1] /\ ~TooEarly(f.item, g.item)
        BY <1>6, <2>g, <3>1
      <4>2. Fits(l, g)
        BY <1>1, <4>1, FunctorsFit
      <4>3. g \in Functor
        BY <1>4, <4>1
      <4> QED
        BY <3>1, <4>1, <4>2, <4>3 DEF Functor
    <3>2. CASE m # l
      <4>1. k \in 1..Len(functors[m]) /\ g = functors[m][k]
        BY <1>5, <2>g, <3>2
      <4>2. Fits(m, g)
        BY <1>1, <4>1, FunctorsFit
      <4>3. functors[m] \in Seq(Functor)
        BY <1>3
      <4>4. g \in Functor
        BY <4>1, <4>3
      <4> QED
        BY <3>2, <4>2, <4>4 DEF Functor
    <3> QED
      BY <3>1, <3>2
  <2>2. m # l => g.conn # f.conn
    BY <1>7, <2>1 DEF Fits
  <2>3. \A y \in ItemsOf(wire'[g.conn]) : ~TooEarly(y, g.item)
    BY <1>8, <2>1, <2>2 DEF Fits
  <2>4. Fits(m, g)'
    BY <2>1, <2>3 DEF Fits
  <2> QED
    BY <2>4, <2>g
<1>12. (\A m \in Loops : /\ InOrder(functors[m])
                         /\ \A k \in 1..Len(functors[m]) : Fits(m, functors[m][k]))'
  BY <1>1, <1>5, <1>6, <1>11 DEF FunctorsInOrder
<1>13. FunctorsInOrder'
  BY <1>12 DEF FunctorsInOrder, Fits
<1> QED
  BY <1>9, <1>10, <1>13 DEF NetParts

\* A step after which the jobs and the sent items are as the lemmas above want
LEMMA RecallStep ==
    ASSUME RecallInv, MsgInv', NoRow, AllGoOn, ItemsComeFromJobs, NetParts'
    PROVE  RecallInv'
<1>1. ItemsAreStored'
  BY StoredStep DEF NoRow
<1>2. JobParts'
  BY JobPartsStep DEF NoRow
<1> QED
  BY <1>1, <1>2 DEF RecallInv, JobParts, NetParts

LEMMA QuietRecall ==
    ASSUME RecallInv, Quiet
    PROVE  RecallInv'
<1>1. ItemsComeFromJobs /\ NetParts'
  BY NetSame DEF Quiet
<1> QED
  BY <1>1, RecallStep DEF Quiet

LEMMA AcceptedRecall ==
    ASSUME RecallInv, MsgInv', NoRow, AllGoOn, UNCHANGED net
    PROVE  RecallInv'
<1>1. ItemsComeFromJobs /\ NetParts'
  BY NetSame
<1> QED
  BY <1>1, RecallStep

\* A message that is stored now has a new msg_id, which nobody was sent.
LEMMA InsertMessageRecall ==
    ASSUME RecallInv, NEW s \in Slots, InsertMessage(s)
    PROVE  RecallInv'
<1>1. MsgInv /\ Len(messages) \in Nat /\ TypeOK
  BY TypeLen DEF RecallInv
<1>2. MsgInv' /\ RowsStay /\ UNCHANGED net
  BY <1>1, InsertMessageStep
<1>3. PICK k \in Job : /\ job' = [job EXCEPT ![s] = k]
                       /\ k.pc = "sent" /\ k.kind = "msg" /\ k.msg = Len(messages) + 1
  BY <1>1, InsertMessageStep
<1>4. job'[s] = k /\ \A q \in Slots : q # s => job'[q] = job[q]
  BY <1>1, <1>3, OneJob
<1>5. ItemsComeFromJobs /\ NetParts'
  BY <1>2, NetSame
<1>6. ItemsAreStored'
  BY <1>2, <1>5, StoredStep
<1>7. AllItems' = AllItems
  BY <1>2 DEF AllItems, net
<1>8. \A x \in AllItems : x.msg # k.msg
  BY <1>1, <1>3 DEF RecallInv, ItemsAreStored
<1>9. \A q \in Slots : job[q].pc # "get" \/ job[q].kind = "recall" => job[q].msg # k.msg
  <2>1. \A q \in Slots : job[q].pc # "get" => job[q].msg \in 0..Len(messages)
    BY <1>1 DEF MsgInv, JobIsSound
  <2>2. \A q \in Slots : job[q].kind = "recall" => job[q].msg \in 1..Len(messages)
    BY DEF RecallInv, RecallsAreStored
  <2> QED
    BY <1>1, <1>3, <2>1, <2>2
<1>10. UnsentIsUnknown'
  BY <1>3, <1>4, <1>7, <1>8, <1>9 DEF RecallInv, UnsentIsUnknown
<1>11. SendingComesFirst'
  BY <1>3, <1>4, <1>7 DEF RecallInv, SendingComesFirst
<1>12. OneJobAMessage'
  BY <1>3, <1>4, <1>9 DEF RecallInv, OneJobAMessage
<1>13. RecallsAreStored'
  <2>1. Len(messages') \in Nat /\ Len(messages) <= Len(messages')
    BY <1>2 DEF RowsStay
  <2>2. \A q \in Slots : job'[q].kind = "recall" => job'[q].msg \in 1..Len(messages)
    BY <1>3, <1>4 DEF RecallInv, RecallsAreStored
  <2> QED
    BY <1>1, <2>1, <2>2 DEF RecallsAreStored
<1> QED
  BY <1>2, <1>5, <1>6, <1>10, <1>11, <1>12, <1>13 DEF RecallInv, NetParts

\* A recall that is no guess is of a message that somebody was sent; on the
\* connection that requested it, its callback is over, since the loop is free.
LEMMA HandleRecallRecall ==
    ASSUME RecallInv, NEW s \in Slots, NEW c \in Conns, NEW to \in Uids \cup {NoUid},
           NEW r \in Rooms \cup {NoRoom}, NEW m \in 1..MaxMessages,
           HandleRecall(s, c, m, to, r)
    PROVE  RecallInv'
<1>1. MsgInv /\ TypeOK
  BY TypeLen DEF RecallInv
<1>2. MsgInv' /\ RowsStay /\ UNCHANGED net
  BY <1>1, HandleRecallStep DEF NoRow
<1>3. PICK k \in Job : /\ job' = [job EXCEPT ![s] = k]
                       /\ k.kind = IF WasSent(m) THEN "recall" ELSE "guess"
                       /\ k.pc = "get" /\ k.msg = m /\ k.conn = c
  BY <1>1, HandleRecallStep
<1>4. job'[s] = k /\ \A q \in Slots : q # s => job'[q] = job[q]
  BY <1>1, <1>3, OneJob
<1>5. ItemsComeFromJobs /\ NetParts'
  BY <1>2, NetSame
<1>6. ItemsAreStored'
  BY <1>2, <1>5, StoredStep
<1>7. AllItems' = AllItems
  BY <1>2 DEF AllItems, net
<1>8. k.kind = "recall" => \E x \in AllItems : x.kind = "msg" /\ x.msg = m
  <2> SUFFICES ASSUME WasSent(m)
               PROVE  \E x \in AllItems : x.kind = "msg" /\ x.msg = m
    BY <1>3
  <2>d. PICK d \in Conns : \E i \in 1..Len(wire[d]) :
          wire[d][i].item.kind = "msg" /\ wire[d][i].item.msg = m
    BY DEF WasSent
  <2>1. PICK i \in 1..Len(wire[d]) :
          wire[d][i].item.kind = "msg" /\ wire[d][i].item.msg = m
    BY <2>d
  <2>2. wire[d][i].item \in ItemsOf(wire[d])
    BY DEF ItemsOf
  <2>3. wire[d][i].item \in AllItems
    BY <2>2, ItemIn
  <2> QED
    BY <2>1, <2>3
<1>9. k.kind = "recall" => \A q \in Slots : job[q].pc = "sent" => job[q].msg # m
  BY <1>8 DEF RecallInv, UnsentIsUnknown
<1>14. RecallsAreStored'
  <2>1. messages' = messages
    BY <1>1, HandleRecallStep
  <2>2. k.kind = "recall" => k.msg \in 1..Len(messages)
    BY <1>3, <1>8 DEF RecallInv, ItemsAreStored
  <2> QED
    BY <1>4, <2>1, <2>2 DEF RecallInv, RecallsAreStored
<1>10. \A q \in Slots : job[q].pc = "sending" => job[q].conn # c
  BY DEF HandleRecall, Free
<1>11. UnsentIsUnknown'
  BY <1>3, <1>4, <1>7, <1>9 DEF RecallInv, UnsentIsUnknown
<1>12. SendingComesFirst'
  BY <1>3, <1>4, <1>7, <1>10 DEF RecallInv, SendingComesFirst
<1>13. OneJobAMessage'
  BY <1>3, <1>4 DEF RecallInv, OneJobAMessage
<1> QED
  BY <1>2, <1>5, <1>6, <1>11, <1>12, <1>13, <1>14 DEF RecallInv, NetParts

\* A fault stores a message that nobody is told of, or nothing.
LEMMA FaultRecall ==
    ASSUME RecallInv, NEW s \in Slots, Fault(s)
    PROVE  RecallInv'
<1>1. MsgInv' /\ RowsStay /\ AllGoOn /\ UNCHANGED net
  BY FaultStep DEF RecallInv
<1>2. ItemsComeFromJobs /\ NetParts'
  BY <1>1, NetSame
<1>3. ItemsAreStored'
  BY <1>1, <1>2, StoredStep
<1>4. JobParts'
  BY <1>1, <1>2, JobPartsStep
<1> QED
  BY <1>1, <1>2, <1>3, <1>4 DEF RecallInv, JobParts, NetParts

\* A restart drops the functors; the connections keep what they were sent.
LEMMA RestartServerRecall ==
    ASSUME RecallInv, RestartServer
    PROVE  RecallInv'
<1>1. /\ MsgInv' /\ NoRow /\ AllGoOn /\ UNCHANGED wire
      /\ functors' = [l \in Loops |-> << >>]
  BY RestartServerStep DEF RecallInv
<1>2. \A l \in Loops : functors'[l] = << >> /\ Len(functors'[l]) = 0
  BY <1>1
<1>3. ItemsComeFromJobs
  <2>1. ASSUME NEW y, y \in AllItems'
        PROVE  y \in AllItems
    <3>1. \/ \E d \in Conns : y \in ItemsOf(wire[d])
          \/ \E m \in Loops : y \in ItemsOf(functors'[m])
      BY <1>1, <2>1 DEF AllItems
    <3>2. \A m \in Loops : y \notin ItemsOf(functors'[m])
      BY <1>2 DEF ItemsOf
    <3> QED
      BY <3>1, <3>2, ItemIn
  <2> QED
    BY <2>1 DEF ItemsComeFromJobs
<1>4. FunctorsInOrder'
  BY <1>2 DEF FunctorsInOrder, InOrder
<1>5. RecallFollowsMessage'
  BY <1>1 DEF RecallInv, RecallFollowsMessage
<1> QED
  BY <1>1, <1>3, <1>4, <1>5, RecallStep DEF NetParts

-----------------------------------------------------------------------------
LEMMA InitRecall == Init => RecallInv
<1> SUFFICES ASSUME Init PROVE RecallInv
  OBVIOUS
<1>1. MsgInv
  BY InitMsg
<1>2. /\ \A s \in Slots : job[s] = Idle
      /\ \A c \in Conns : wire[c] = << >> /\ Len(wire[c]) = 0
      /\ \A l \in Loops : functors[l] = << >> /\ Len(functors[l]) = 0
  BY DEF Init
<1>3. AllItems = {}
  <2>1. /\ \A c \in Conns : ItemsOf(wire[c]) = {}
        /\ \A l \in Loops : ItemsOf(functors[l]) = {}
    BY <1>2 DEF ItemsOf
  <2> QED
    BY <2>1 DEF AllItems
<1>4. ItemsAreStored
  BY <1>3 DEF ItemsAreStored
<1>5. RecallsAreStored /\ UnsentIsUnknown /\ SendingComesFirst /\ OneJobAMessage
  BY <1>2, IdleJob DEF RecallsAreStored, UnsentIsUnknown, SendingComesFirst, OneJobAMessage
<1>6. FunctorsInOrder /\ RecallFollowsMessage
  BY <1>2 DEF FunctorsInOrder, RecallFollowsMessage, InOrder
<1> QED
  BY <1>1, <1>4, <1>5, <1>6 DEF RecallInv

LEMMA NextRecall == RecallInv /\ [Next]_vars => RecallInv'
<1> SUFFICES ASSUME RecallInv, [Next]_vars PROVE RecallInv'
  OBVIOUS
<1>m. MsgInv
  BY DEF RecallInv
<1>1. ASSUME NEW s \in Slots, NEW c \in Conns, Request(s, c)
      PROVE  RecallInv'
  <2>1. PICK to \in Uids \cup {NoUid}, r \in Rooms \cup {NoRoom} :
          \/ HandleChatMessage(s, c, to, r)
          \/ \E m \in 1..MaxMessages : HandleRecall(s, c, m, to, r)
    BY <1>1 DEF Request
  <2>2. CASE HandleChatMessage(s, c, to, r)
    BY <1>m, <2>2, HandleChatMessageStep, AcceptedRecall
  <2>3. ASSUME NEW m \in 1..MaxMessages, HandleRecall(s, c, m, to, r)
        PROVE  RecallInv'
    BY <2>3, HandleRecallRecall
  <2> QED
    BY <2>1, <2>2, <2>3
<1>2. ASSUME NEW s \in Slots, Worker(s)
      PROVE  RecallInv'
  <2>1. CASE SelectRoom(s)
    BY <1>m, <2>1, SelectRoomStep, AcceptedRecall
  <2>2. CASE SelectNumber(s)
    BY <1>m, <2>2, SelectNumberStep, AcceptedRecall
  <2>3. CASE GetMessage(s) \/ UpdateRecalled(s) \/ PeekMessage(s)
    BY <1>m, <2>3, GetMessageStep, UpdateRecalledStep, PeekMessageStep, QuietRecall
  <2> QED
    BY <1>2, <2>1, <2>2, <2>3, InsertMessageRecall DEF Worker
<1>3. ASSUME NEW s \in Slots, Fault(s)
      PROVE  RecallInv'
  BY <1>3, FaultRecall
<1>4. ASSUME NEW s \in Slots, Callback(s)
      PROVE  RecallInv'
  BY <1>m, <1>4, CallbackStep, QuietRecall
<1>5. ASSUME NEW s \in Slots, EndCallback(s)
      PROVE  RecallInv'
  BY <1>m, <1>5, EndCallbackStep, SendsNet, RecallStep
<1>6. ASSUME NEW s \in Slots, NEW u \in Uids, SendNext(s, u)
      PROVE  RecallInv'
  BY <1>m, <1>6, SendNextStep, SendsNet, RecallStep
<1>7. ASSUME NEW l \in Loops, RunFunctor(l)
      PROVE  RecallInv'
  <2>1. MsgInv' /\ NoRow /\ UNCHANGED job
    BY <1>m, <1>7, RunFunctorStep
  <2>2. AllGoOn
    BY <2>1, SameJobs, TypeLen, <1>m
  <2> QED
    BY <1>7, <2>1, <2>2, RunFunctorNet, RecallStep
<1>8. CASE RestartServer
  BY <1>8, RestartServerRecall
<1>9. CASE \/ \E c \in Conns : Connection(c) \/ Login(c)
           \/ \E r \in Rooms : RoomCreated(r) \/ \E u \in Uids : RoomJoined(r, u)
           \/ UNCHANGED vars
  BY <1>m, <1>9, EnvironmentStep, QuietRecall
<1> QED
  BY <1>1, <1>2, <1>3, <1>4, <1>5, <1>6, <1>7, <1>8, <1>9 DEF Next

\* In every behaviour a message is sent to nobody before its callback, the
\* recalls of those who were sent it wait, on its own connection, for the end of
\* that callback, and what is posted to a loop overtakes nothing
\* (chat_server.cc:214-268, 465-509).
THEOREM RecallInvariance == Spec => []RecallInv
<1> QED
  BY InitRecall, NextRecall, PTL DEF Spec

\* For any number of loops, connections and requests, no connection is told of
\* the recall of a message before the message itself, when both were requested
\* on one connection and the recall after the message was sent to somebody
\* (chat_server.cc:214-268, 454-509); the recall of a guessed number is excepted.
THEOREM RecallComesAfter == Spec => []RecallFollowsMessage
<1>1. RecallInv => RecallFollowsMessage
  BY DEF RecallInv
<1> QED
  BY <1>1, RecallInvariance, PTL
=============================================================================
