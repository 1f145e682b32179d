----------------------------- MODULE ChatMessages -----------------------------
(***************************************************************************)
(* Sending and recalling messages: handleChatMessage and handleRecall       *)
(* (src/src/chat_server.cc), ChatService and MySQLMessageRepo on a worker,  *)
(* and the callbacks that look the receivers up and send to them.           *)
(*                                                                          *)
(* A callback runs on the event loop of the connection of its request, and  *)
(* keeps that loop busy to its end.  Sending to a connection of the same    *)
(* loop writes at once; sending to another appends to the functors of its   *)
(* loop.  Rooms, logins and closes are the environment; they are modelled   *)
(* in ChatRooms and ChatLogin.                                              *)
(***************************************************************************)
EXTENDS SessionManager, Naturals, Sequences

CONSTANTS
    Loops,          \* event loops
    LoopOf,         \* the loop of each connection
    Rooms, NoRoom,  \* room names, and the empty one
    Slots,          \* requests that may be in progress at one time
    MaxMessages,    \* bound on the messages that are accepted
    MaxRecalls,     \* bound on the recalls that are accepted
    MaxLogins,      \* bound on logins and logouts
    MaxFaults,      \* bound on the SQL statements that fail
    MaxRestarts     \* bound on the restarts of the server

ASSUME MessageAssumption ==
    /\ LoopOf \in [Conns -> Loops]
    /\ NoRoom \notin Rooms
    /\ MaxMessages \in Nat /\ MaxRecalls \in Nat
    /\ MaxLogins \in Nat /\ MaxFaults \in Nat /\ MaxRestarts \in Nat

VARIABLES
    messages,       \* table messages; msg_id is the place of a row
    created,        \* table rooms
    roster,         \* RoomManager: the members of each room
    job,            \* requests in progress
    functors,       \* sends that other loops posted to a loop
    wire,           \* what was sent on each connection
    accepted,       \* messages accepted so far
    recalls,        \* recalls accepted so far
    logins,         \* logins and logouts so far
    faults,         \* statements that failed so far
    restarts        \* restarts so far

net == <<functors, wire>>
bounds == <<accepted, recalls, logins, faults, restarts>>
rooms == <<created, roster>>
msgVars == <<messages, rooms, job, net, bounds>>

vars == <<smVars, msgVars>>

\* base, a history, is the highest seq of the room when the request came.
Row == [from : Uids, to : Uids \cup {NoUid}, room : Rooms \cup {NoRoom},
        seq : Nat \ {0}, base : Nat, via : Conns, recalled : BOOLEAN]

\* What is requested: a message, the recall of one that was sent to somebody
\* before, or the recall of any other number.  The code does not tell the two
\* recalls apart; which of them it was is a history for the properties.
Kinds == {"msg", "recall", "guess"}

\* One ServerMessage on a connection: the kind, the row it is about, the user
\* it is meant for and the connection of the request.
Item == [kind : Kinds, msg : Nat, uid : Uids, via : Conns]

Pcs == {"idle", "room", "seq", "insert", "sent",    \* send
        "get", "update", "recalled",                \* recall
        "sending", "peek"}

Idle == [pc |-> "idle", kind |-> "msg", conn |-> NoConn, from |-> NoUid,
         to |-> NoUid, room |-> NoRoom, row |-> NoRoom, seq |-> 1, base |-> 0,
         msg |-> 0, left |-> {}, offline |-> FALSE]

Job == [pc : Pcs, kind : Kinds, conn : Conns \cup {NoConn},
        from : Uids \cup {NoUid}, to : Uids \cup {NoUid},
        room : Rooms \cup {NoRoom}, row : Rooms \cup {NoRoom},
        seq : Nat \ {0}, base : Nat, msg : Nat, left : SUBSET Uids,
        offline : BOOLEAN]

\* The one type invariant of this component.
TypeOK ==
    /\ SMTypeOK
    /\ messages \in Seq(Row)
    /\ created \in SUBSET Rooms
    /\ roster \in [Rooms -> SUBSET Uids]
    /\ job \in [Slots -> Job]
    /\ functors \in [Loops -> Seq([conn : Conns, item : Item])]
    /\ wire \in [Conns -> Seq([item : Item, session : Uids \cup {NoUid}])]
    /\ accepted \in 0..MaxMessages
    /\ recalls \in 0..MaxRecalls
    /\ logins \in 0..MaxLogins
    /\ faults \in 0..MaxFaults
    /\ restarts \in 0..MaxRestarts

Init ==
    /\ SMInit
    /\ messages = << >>
    /\ created = {}
    /\ roster = [r \in Rooms |-> {}]
    /\ job = [s \in Slots |-> Idle]
    /\ functors = [l \in Loops |-> << >>]
    /\ wire = [c \in Conns |-> << >>]
    /\ accepted = 0
    /\ recalls = 0
    /\ logins = 0
    /\ faults = 0
    /\ restarts = 0

\* A loop runs one handler or callback at a time; only the callbacks of this
\* module take more than one step.
Free(l) == \A s \in Slots : job[s].pc = "sending" => LoopOf[job[s].conn] # l

-----------------------------------------------------------------------------
(***************************************************************************)
(* The handlers, on the event loop of the connection                        *)
(***************************************************************************)

\* The values of seq in a room
Seqs(r) == {messages[i].seq : i \in {j \in 1..Len(messages) : messages[j].room = r}}

\* COALESCE(MAX(seq), 0)
IsMaxSeq(r, n) ==
    /\ n \in Seqs(r) \/ (n = 0 /\ Seqs(r) = {})
    /\ \A k \in Seqs(r) : k <= n

\* The uid is the one that is logged in now; the message may name a user, a
\* room, both (then only the user is sent to) or neither.
HandleChatMessage(s, c, to, r) ==
    /\ Reading(c) /\ Free(LoopOf[c])
    /\ IsAuthenticated(c)
    /\ job[s].pc = "idle"
    /\ accepted < MaxMessages
    /\ accepted' = accepted + 1
    /\ \E n \in 0..Len(messages) :
         /\ IF r = NoRoom THEN n = 0 ELSE IsMaxSeq(r, n)
         /\ job' = [job EXCEPT ![s] =
                [Idle EXCEPT !.pc = IF r = NoRoom THEN "insert" ELSE "room",
                             !.conn = c, !.from = GetUid(c), !.to = to,
                             !.room = r, !.base = n]]
    /\ UNCHANGED <<smVars, messages, rooms, net, recalls, logins, faults, restarts>>

\* The message m was sent on some connection.
WasSent(m) ==
    \E d \in Conns : \E i \in 1..Len(wire[d]) :
        wire[d][i].item.kind = "msg" /\ wire[d][i].item.msg = m

\* The id is any number, also one that nobody was told or that no row has yet.
\* The receivers are those the request names, whatever the row says.
HandleRecall(s, c, m, to, r) ==
    /\ Reading(c) /\ Free(LoopOf[c])
    /\ IsAuthenticated(c)
    /\ job[s].pc = "idle"
    /\ recalls < MaxRecalls
    /\ recalls' = recalls + 1
    /\ job' = [job EXCEPT ![s] =
           [Idle EXCEPT !.pc = "get", !.kind = IF WasSent(m) THEN "recall" ELSE "guess",
                        !.conn = c, !.from = GetUid(c), !.to = to, !.room = r, !.msg = m]]
    /\ UNCHANGED <<smVars, messages, rooms, net, accepted, logins, faults, restarts>>

-----------------------------------------------------------------------------
(***************************************************************************)
(* The worker                                                               *)
(***************************************************************************)

\* storeMessage: SELECT room_id; a room that is not in the table is stored as
\* none.
SelectRoom(s) ==
    /\ job[s].pc = "room"
    /\ job' = [job EXCEPT ![s] =
           IF job[s].room \in created
           THEN [@ EXCEPT !.pc = "seq", !.row = job[s].room]
           ELSE [@ EXCEPT !.pc = "insert"]]
    /\ UNCHANGED <<smVars, messages, rooms, net, bounds>>

\* Mutant: SELECT COUNT(*) + 1.
NumberByCount(s) ==
    /\ job[s].pc = "seq"
    /\ job' = [job EXCEPT ![s].pc = "insert", ![s].seq =
          1 + Cardinality({i \in 1..Len(messages) : messages[i].room = job[s].row})]
    /\ UNCHANGED <<smVars, messages, rooms, net, bounds>>

\* Mutant: SELECT COALESCE(MAX(seq), 1).
NumberNoIncrement(s) ==
    /\ job[s].pc = "seq"
    /\ \E n \in 0..Len(messages) :
         /\ IsMaxSeq(job[s].row, n)
         /\ job' = [job EXCEPT ![s].pc = "insert", ![s].seq = IF n = 0 THEN 1 ELSE n]
    /\ UNCHANGED <<smVars, messages, rooms, net, bounds>>

\* storeMessage: SELECT COALESCE(MAX(seq), 0) + 1
SelectNumber(s) ==
    /\ job[s].pc = "seq"
    /\ \E n \in 0..Len(messages) :
         /\ IsMaxSeq(job[s].row, n)
         /\ job' = [job EXCEPT ![s].pc = "insert", ![s].seq = n + 1]
    /\ UNCHANGED <<smVars, messages, rooms, net, bounds>>

Insert(j) ==
    messages' = Append(messages,
        [from |-> j.from, to |-> j.to, room |-> j.row, seq |-> j.seq,
         base |-> j.base, via |-> j.conn, recalled |-> FALSE])

\* storeMessage: INSERT INTO messages
InsertMessage(s) ==
    /\ job[s].pc = "insert"
    /\ Insert(job[s])
    /\ job' = [job EXCEPT ![s].pc = "sent", ![s].msg = Len(messages) + 1]
    /\ UNCHANGED <<smVars, rooms, net, bounds>>

\* ChatService::recallMessage: the row is read; the recall ends here, with an
\* error, if there is none, if another user wrote the message or if two minutes
\* have passed.
GetMessage(s) ==
    /\ job[s].pc = "get"
    /\ \/ /\ job[s].msg \in 1..Len(messages)
          /\ messages[job[s].msg].from = job[s].from
          /\ job' = [job EXCEPT ![s].pc = "update"]
       \/ job' = [job EXCEPT ![s] = Idle]
    /\ UNCHANGED <<smVars, messages, rooms, net, bounds>>

Recall(m) == messages' = [messages EXCEPT ![m].recalled = TRUE]

\* MySQLMessageRepo::recallMessage: the UPDATE changes no row, and the recall
\* fails, if the message was recalled before in the same second.
UpdateRecalled(s) ==
    /\ job[s].pc = "update"
    /\ Recall(job[s].msg)
    /\ \/ job' = [job EXCEPT ![s].pc = "recalled"]
       \/ messages[job[s].msg].recalled /\ job' = [job EXCEPT ![s] = Idle]
    /\ UNCHANGED <<smVars, rooms, net, bounds>>

\* The job that the send callback starts for a user who is not here reads the
\* message again and drops it.
PeekMessage(s) ==
    /\ job[s].pc = "peek"
    /\ job' = [job EXCEPT ![s] = Idle]
    /\ UNCHANGED <<smVars, messages, rooms, net, bounds>>

\* A statement fails, or it is executed and its answer is lost.
Fault(s) ==
    /\ faults < MaxFaults
    /\ faults' = faults + 1
    /\ LET j == job[s] IN
       \/ /\ j.pc \in {"room", "seq"}
          /\ job' = [job EXCEPT ![s].pc = "insert"]
          /\ UNCHANGED messages
       \/ /\ j.pc = "insert"
          /\ job' = [job EXCEPT ![s] = Idle]
          /\ UNCHANGED messages \/ Insert(j)
       \/ /\ j.pc = "update"
          /\ job' = [job EXCEPT ![s] = Idle]
          /\ UNCHANGED messages \/ Recall(j.msg)
    /\ UNCHANGED <<smVars, rooms, net, accepted, recalls, logins, restarts>>

Worker(s) ==
    \/ SelectRoom(s) \/ SelectNumber(s) \/ InsertMessage(s)
    \/ GetMessage(s) \/ UpdateRecalled(s) \/ PeekMessage(s)

-----------------------------------------------------------------------------
(***************************************************************************)
(* The callbacks, on the event loop of the connection of the request        *)
(***************************************************************************)

\* What is written to a connection that is not up is lost.
Write(c, item) ==
    wire' = IF tcp[c] = "up"
            THEN [wire EXCEPT ![c] = Append(@, [item |-> item, session |-> GetUid(c)])]
            ELSE wire

\* Mutant: the functors of a loop are run from the last one.
SendLast(l, c, item) ==
    IF LoopOf[c] = l THEN Write(c, item) /\ UNCHANGED functors
    ELSE /\ functors' = [functors EXCEPT ![LoopOf[c]] =
                            <<[conn |-> c, item |-> item]>> \o @]
         /\ UNCHANGED wire

\* sendServerMessage to c, called on the loop l
Send(l, c, item) ==
    IF LoopOf[c] = l THEN Write(c, item) /\ UNCHANGED functors
    ELSE /\ functors' = IF tcp[c] # "up" THEN functors
                        ELSE [functors EXCEPT ![LoopOf[c]] =
                                Append(@, [conn |-> c, item |-> item])]
         /\ UNCHANGED wire

\* A room that RoomManager does not have has no members.
GetRoomMembers(r) == IF r \in Rooms THEN roster[r] ELSE {}

\* The callback of a request that succeeded begins; the room is read by a
\* reference that is used after mutex_ is released.
Callback(s) ==
    /\ job[s].pc \in {"sent", "recalled"}
    /\ Free(LoopOf[job[s].conn])
    /\ job' = [job EXCEPT ![s].pc = "sending", ![s].left =
                  IF job[s].to # NoUid THEN {job[s].to}
                  ELSE GetRoomMembers(job[s].room)]
    /\ UNCHANGED <<smVars, messages, rooms, net, bounds>>

ItemFor(j, u) == [kind |-> j.kind, msg |-> j.msg, uid |-> u, via |-> j.conn]

\* A message for a user, and not for a room
IsPrivate(j) == j.kind = "msg" /\ j.to # NoUid

\* One receiver is looked up in users_ and sent to, if it is there.
SendNext(s, u) ==
    /\ job[s].pc = "sending"
    /\ u \in job[s].left
    /\ job' = [job EXCEPT ![s].left = @ \ {u}, ![s].offline = ~IsOnline(u)]
    /\ IF IsOnline(u)
       THEN Send(LoopOf[job[s].conn], GetConnection(u), ItemFor(job[s], u))
       ELSE UNCHANGED net
    /\ UNCHANGED <<smVars, messages, rooms, bounds>>

\* The end of the callback.  A recall and a message to a user are echoed on
\* the connection of the request; a message to a user who was not there
\* starts one more job (nothing inserts into offline_messages).
EndCallback(s) ==
    /\ job[s].pc = "sending"
    /\ job[s].left = {}
    /\ LET j == job[s] IN
       /\ IF j.kind # "msg" \/ IsPrivate(j)
          THEN Write(j.conn, ItemFor(j, j.from)) ELSE UNCHANGED wire
       /\ job' = [job EXCEPT ![s] =
              IF IsPrivate(j) /\ j.offline
              THEN [Idle EXCEPT !.pc = "peek", !.msg = j.msg] ELSE Idle]
    /\ UNCHANGED <<smVars, messages, rooms, functors, bounds>>

\* A loop runs a functor that another loop posted.
RunFunctor(l) ==
    /\ Free(l)
    /\ functors[l] # << >>
    /\ Write(Head(functors[l]).conn, Head(functors[l]).item)
    /\ functors' = [functors EXCEPT ![l] = Tail(@)]
    /\ UNCHANGED <<smVars, messages, rooms, job, bounds>>

-----------------------------------------------------------------------------
(***************************************************************************)
(* The environment                                                          *)
(***************************************************************************)

Connection(c) ==
    /\ Free(LoopOf[c])
    /\ OnConnection(c) \/ Shutdown(c) \/ OnDisconnection(c)
    /\ UNCHANGED msgVars

\* The callback of a login, or a logout
Login(c) ==
    /\ Free(LoopOf[c])
    /\ logins < MaxLogins
    /\ logins' = logins + 1
    /\ \/ \E u \in Uids, t \in Tokens : Authenticate(c, u, t)
       \/ Deauthenticate(c)
    /\ UNCHANGED <<messages, rooms, job, net, accepted, recalls, faults, restarts>>

\* A room is inserted into its table.
RoomCreated(r) ==
    /\ r \notin created
    /\ created' = created \cup {r}
    /\ UNCHANGED <<smVars, messages, roster, job, net, bounds>>

\* RoomManager has a new member, on some loop.  A callback that is in the
\* middle of the members of that room may see it or not.
RoomJoined(r, u) ==
    /\ r \in created
    /\ u \notin roster[r]
    /\ \E l \in Loops : Free(l)
    /\ roster' = [roster EXCEPT ![r] = @ \cup {u}]
    /\ \E late \in SUBSET {s \in Slots : /\ job[s].pc = "sending"
                                         /\ job[s].to = NoUid
                                         /\ job[s].room = r} :
         job' = [s \in Slots |-> IF s \in late
                                 THEN [job[s] EXCEPT !.left = @ \cup {u}] ELSE job[s]]
    /\ UNCHANGED <<smVars, messages, created, net, bounds>>

\* The server is restarted: the tables stay.
RestartServer ==
    /\ restarts < MaxRestarts
    /\ restarts' = restarts + 1
    /\ Restart
    /\ roster' = [r \in Rooms |-> {}]
    /\ job' = [s \in Slots |-> Idle]
    /\ functors' = [l \in Loops |-> << >>]
    /\ UNCHANGED <<messages, created, wire, accepted, recalls, logins, faults>>

\* The ids of a recall are those that some row may come to have; any other ends
\* like one of them whose row is not there.
Request(s, c) ==
    \E to \in Uids \cup {NoUid}, r \in Rooms \cup {NoRoom} :
        \/ HandleChatMessage(s, c, to, r)
        \/ \E m \in 1..MaxMessages : HandleRecall(s, c, m, to, r)

Next ==
    \/ \E c \in Conns :
         Connection(c) \/ Login(c) \/ \E s \in Slots : Request(s, c)
    \/ \E s \in Slots :
         \/ Worker(s) \/ Fault(s) \/ Callback(s) \/ EndCallback(s)
         \/ \E u \in Uids : SendNext(s, u)
    \/ \E l \in Loops : RunFunctor(l)
    \/ \E r \in Rooms : RoomCreated(r) \/ \E u \in Uids : RoomJoined(r, u)
    \/ RestartServer

Spec == Init /\ [][Next]_vars

-----------------------------------------------------------------------------
(***************************************************************************)
(* Properties                                                               *)
(***************************************************************************)

\* The numbers of a room's messages have no gap, whatever requests interleave
\* between the SELECT of the highest and the INSERT, fail or are lost in a
\* restart (mysql_message_repo.cc:30-52).
SeqHasNoGaps ==
    \A i \in 1..Len(messages) :
        messages[i].room # NoRoom /\ messages[i].seq > 1 =>
            \E j \in 1..Len(messages) :
                /\ messages[j].room = messages[i].room
                /\ messages[j].seq = messages[i].seq - 1

\* While no statement fails, a message has a higher number than every message
\* that was in its room when the request was read: what a user wrote after
\* seeing another message comes after it (mysql_message_repo.cc:32).
SeqFollowsCausality ==
    faults = 0 =>
        \A i \in 1..Len(messages) :
            messages[i].room # NoRoom => messages[i].seq > messages[i].base

\* The recall x and the message y, both requested on one connection
TooEarly(x, y) ==
    x.kind = "recall" /\ y.kind = "msg" /\ x.msg = y.msg /\ x.via = y.via

\* q is what was sent on a connection, or what was posted to a loop.
InOrder(q) ==
    \A j \in 1..Len(q) : \A i \in 1..(j - 1) : ~TooEarly(q[i].item, q[j].item)

\* No connection is told of the recall of a message before the message, when
\* both were requested on one connection and the recall after the message had
\* been sent to somebody (chat_server.cc:214-268, 465-509: both callbacks run on
\* the loop of that connection, and sends to another loop keep their order).  The
\* recall of a number that was guessed may overtake its message: the row is
\* there before the callback that sends it is queued (chat_server.cc:212-215).
RecallFollowsMessage == \A c \in Conns : InOrder(wire[c])

\* What the properties need of every job: it is about a row that is there, but
\* for a recall whose row was not looked up yet, and a request in progress has
\* its connection and its user.
JobIsSound(j) ==
    /\ j.msg \in 0..Len(messages) \/ j.pc = "get"
    /\ j.pc \notin {"idle", "peek"} => j.conn \in Conns /\ j.from \in Uids
    /\ j.pc \in {"get", "update", "recalled", "sent", "sending"} => j.msg # 0
    /\ j.pc \in {"get", "update", "recalled"} => j.kind # "msg"
    /\ j.pc \notin {"get", "update", "recalled", "sending"} => j.kind = "msg"

MsgInv ==
    /\ TypeOK
    /\ AuthenticatedHasUid
    /\ \A s \in Slots : JobIsSound(job[s])

\* The room r has a message with the number n.
HasSeq(r, n) == \E i \in 1..Len(messages) : messages[i].room = r /\ messages[i].seq = n

\* What SeqHasNoGaps and SeqFollowsCausality need to be inductive: the number
\* that a job is about to insert continues those of its room.
SeqContinues(j) ==
    /\ j.pc = "insert" /\ j.row # NoRoom /\ j.seq > 1 => HasSeq(j.row, j.seq - 1)
    /\ j.pc = "insert" /\ j.row # NoRoom /\ faults = 0 => j.seq > j.base
    /\ j.pc = "seq" => j.row \in Rooms /\ j.seq = 1 /\ (j.base = 0 \/ HasSeq(j.row, j.base))
    /\ j.pc = "room" => j.row = NoRoom /\ j.seq = 1 /\ (j.base = 0 \/ HasSeq(j.room, j.base))

SeqInv ==
    /\ MsgInv
    /\ \A s \in Slots : SeqContinues(job[s])
    /\ SeqHasNoGaps
    /\ SeqFollowsCausality

\* What RecallFollowsMessage needs to be inductive.  ItemsOf: the messages in q.
ItemsOf(q) == {q[k].item : k \in 1..Len(q)}

AllItems ==
    UNION ({ItemsOf(wire[c]) : c \in Conns} \cup {ItemsOf(functors[l]) : l \in Loops})

\* Nothing is sent of a row that is not there.
ItemsAreStored == \A x \in AllItems : x.msg \in 1..Len(messages)

\* Nor is it recalled by somebody who was sent it.
RecallsAreStored ==
    \A s \in Slots : job[s].kind = "recall" => job[s].msg \in 1..Len(messages)

\* Before the callback of a message it was sent to nobody; a recall under way
\* is of a number that was guessed.
UnsentIsUnknown ==
    \A s \in Slots : job[s].pc = "sent" =>
        /\ \A x \in AllItems : x.kind # "guess" => x.msg # job[s].msg
        /\ \A q \in Slots : job[q].kind = "recall" => job[q].msg # job[s].msg

\* While it runs, nobody who was sent it recalls it on its connection, whose
\* loop it keeps busy.
SendingComesFirst ==
    \A s \in Slots : job[s].pc = "sending" /\ job[s].kind = "msg" =>
        /\ \A x \in AllItems :
               ~(x.kind = "recall" /\ x.msg = job[s].msg /\ x.via = job[s].conn)
        /\ \A q \in Slots :
               ~(job[q].kind = "recall" /\ job[q].msg = job[s].msg /\ job[q].conn = job[s].conn)

OneJobAMessage ==
    \A s, q \in Slots :
        /\ s # q /\ job[s].kind = "msg" /\ job[q].kind = "msg"
        /\ job[s].pc \in {"sent", "sending"} /\ job[q].pc \in {"sent", "sending"}
        => job[s].msg # job[q].msg

\* A loop has functors of other loops only, and they overtake nothing.
FunctorsInOrder ==
    \A l \in Loops :
        /\ InOrder(functors[l])
        /\ \A k \in 1..Len(functors[l]) :
             LET f == functors[l][k] IN
             /\ LoopOf[f.conn] = l /\ LoopOf[f.item.via] # l
             /\ \A x \in ItemsOf(wire[f.conn]) : ~TooEarly(x, f.item)

RecallInv ==
    /\ MsgInv
    /\ ItemsAreStored
    /\ RecallsAreStored
    /\ UnsentIsUnknown
    /\ SendingComesFirst
    /\ OneJobAMessage
    /\ FunctorsInOrder
    /\ RecallFollowsMessage
=============================================================================
