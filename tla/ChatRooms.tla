------------------------------ MODULE ChatRooms ------------------------------
(***************************************************************************)
(* Rooms: handleCreateRoom and handleJoinRoom (src/src/chat_server.cc),     *)
(* RoomService and MySQLRoomRepo on a worker, and RoomManager, the map of   *)
(* rooms that messages are sent by, in memory.                              *)
(*                                                                          *)
(* A request in progress is a job in a slot; every SQL statement is a step. *)
(* The handlers accept an authenticated user only, who is the uid of the    *)
(* job.  The two tables outlive the server, RoomManager does not.           *)
(***************************************************************************)
EXTENDS Naturals, FiniteSets

CONSTANTS
    Uids,           \* user ids
    Rooms,          \* room names
    NoUid, NoRoom,  \* empty strings
    Slots,          \* requests that may be in progress at one time
    MaxFaults,      \* bound on the statements that fail
    MaxRestarts     \* bound on the restarts of the server

ASSUME RoomAssumption ==
    /\ NoUid \notin Uids
    /\ NoRoom \notin Rooms
    /\ MaxFaults \in Nat /\ MaxRestarts \in Nat

VARIABLES
    creator,        \* table rooms: the creator of a room, NoUid if no row
    members,        \* table room_members
    known,          \* the keys of rooms_
    roster,         \* the sets of members in rooms_
    job,            \* requests in progress
    early,          \* history: joins that found no room in memory
    faults,         \* statements that failed so far
    restarts        \* restarts so far

tables == <<creator, members>>
memory == <<known, roster>>
vars == <<tables, memory, job, early, faults, restarts>>

Idle == [pc |-> "idle", uid |-> NoUid, room |-> NoRoom, ok |-> FALSE]

CreatePcs == {"exists", "insert", "creator", "created"}

JoinPcs == {"lookup", "member", "joined"}

Job == [pc : CreatePcs \cup JoinPcs \cup {"idle"}, uid : Uids \cup {NoUid},
        room : Rooms \cup {NoRoom}, ok : BOOLEAN]

\* The one type invariant of this component.
TypeOK ==
    /\ creator \in [Rooms -> Uids \cup {NoUid}]
    /\ members \in [Rooms -> SUBSET Uids]
    /\ known \in SUBSET Rooms
    /\ roster \in [Rooms -> SUBSET Uids]
    /\ job \in [Slots -> Job]
    /\ early \in [Rooms -> SUBSET Uids]
    /\ faults \in 0..MaxFaults
    /\ restarts \in 0..MaxRestarts

Init ==
    /\ creator = [r \in Rooms |-> NoUid]
    /\ members = [r \in Rooms |-> {}]
    /\ known = {}
    /\ roster = [r \in Rooms |-> {}]
    /\ job = [s \in Slots |-> Idle]
    /\ early = [r \in Rooms |-> {}]
    /\ faults = 0
    /\ restarts = 0

-----------------------------------------------------------------------------
(***************************************************************************)
(* The handlers, on the event loop                                          *)
(***************************************************************************)

HandleCreateRoom(s, u, r) ==
    /\ job[s].pc = "idle"
    /\ job' = [job EXCEPT ![s] = [Idle EXCEPT !.pc = "exists", !.uid = u, !.room = r]]
    /\ UNCHANGED <<tables, memory, early, faults, restarts>>

HandleJoinRoom(s, u, r) ==
    /\ job[s].pc = "idle"
    /\ job' = [job EXCEPT ![s] = [Idle EXCEPT !.pc = "lookup", !.uid = u, !.room = r]]
    /\ UNCHANGED <<tables, memory, early, faults, restarts>>

-----------------------------------------------------------------------------
(***************************************************************************)
(* The worker                                                               *)
(***************************************************************************)

Goto(s, pc) == job' = [job EXCEPT ![s].pc = pc]

Reply(s, pc, ok) == job' = [job EXCEPT ![s].pc = pc, ![s].ok = ok]

RoomExists(r) == creator[r] # NoUid

\* RoomService::createRoom looks the name up ...
CheckRoom(s) ==
    /\ job[s].pc = "exists"
    /\ IF RoomExists(job[s].room) THEN Reply(s, "created", FALSE) ELSE Goto(s, "insert")
    /\ UNCHANGED <<tables, memory, early, faults, restarts>>

\* Mutant: INSERT ... ON DUPLICATE KEY UPDATE, which always succeeds.
InsertRoomReplaces(s) ==
    /\ job[s].pc = "insert"
    /\ creator' = [creator EXCEPT ![job[s].room] = job[s].uid]
    /\ Goto(s, "creator")
    /\ UNCHANGED <<members, memory, early, faults, restarts>>

\* ... inserts it, which the unique key refuses if another request was faster ...
InsertRoom(s) ==
    /\ job[s].pc = "insert"
    /\ IF RoomExists(job[s].room)
       THEN Reply(s, "created", FALSE) /\ UNCHANGED creator
       ELSE /\ creator' = [creator EXCEPT ![job[s].room] = job[s].uid]
            /\ Goto(s, "creator")
    /\ UNCHANGED <<members, memory, early, faults, restarts>>

AddMember(r, u) == members' = [members EXCEPT ![r] = @ \cup {u}]

\* ... and adds the creator as a member.
AddCreator(s) ==
    /\ job[s].pc = "creator"
    /\ AddMember(job[s].room, job[s].uid)
    /\ Reply(s, "created", TRUE)
    /\ UNCHANGED <<creator, memory, early, faults, restarts>>

\* RoomService::joinRoom looks the room up ...
LookupRoom(s) ==
    /\ job[s].pc = "lookup"
    /\ IF RoomExists(job[s].room) THEN Goto(s, "member") ELSE Reply(s, "joined", FALSE)
    /\ UNCHANGED <<tables, memory, early, faults, restarts>>

\* ... and adds the member.
JoinMember(s) ==
    /\ job[s].pc = "member"
    /\ AddMember(job[s].room, job[s].uid)
    /\ Reply(s, "joined", TRUE)
    /\ UNCHANGED <<creator, memory, early, faults, restarts>>

\* A statement fails, or it is executed and its answer is lost.  A lookup that
\* fails reads as "no such room", so a creation goes on to its INSERT; that the
\* creator was not added is ignored.
Fault(s) ==
    /\ faults < MaxFaults
    /\ faults' = faults + 1
    /\ LET j == job[s] IN
       \/ j.pc = "exists" /\ Goto(s, "insert") /\ UNCHANGED tables
       \/ /\ j.pc = "insert" /\ Reply(s, "created", FALSE)
          /\ \/ UNCHANGED creator
             \/ /\ ~RoomExists(j.room)
                /\ creator' = [creator EXCEPT ![j.room] = j.uid]
          /\ UNCHANGED members
       \/ j.pc = "creator" /\ Reply(s, "created", TRUE) /\ UNCHANGED tables
       \/ j.pc = "lookup" /\ Reply(s, "joined", FALSE) /\ UNCHANGED tables
       \/ /\ j.pc = "member" /\ Reply(s, "joined", FALSE)
          /\ UNCHANGED members \/ AddMember(j.room, j.uid)
          /\ UNCHANGED creator
    /\ UNCHANGED <<memory, early, restarts>>

Worker(s) ==
    \/ CheckRoom(s) \/ InsertRoom(s) \/ AddCreator(s)
    \/ LookupRoom(s) \/ JoinMember(s)

-----------------------------------------------------------------------------
(***************************************************************************)
(* The callbacks, on the event loop, and RoomManager                        *)
(***************************************************************************)

\* RoomManager::createRoom leaves a room that it knows alone.
CreatedCallback(s) ==
    /\ job[s].pc = "created"
    /\ LET j == job[s] IN
       IF j.ok /\ j.room \notin known
       THEN /\ known' = known \cup {j.room}
            /\ roster' = [roster EXCEPT ![j.room] = {j.uid}]
       ELSE UNCHANGED memory
    /\ job' = [job EXCEPT ![s] = Idle]
    /\ UNCHANGED <<tables, early, faults, restarts>>

\* Mutant: the result of RoomService::joinRoom is not looked at.
JoinedCallbackUnchecked(s) ==
    /\ job[s].pc = "joined"
    /\ LET j == job[s] IN
       IF j.room \in known
       THEN roster' = [roster EXCEPT ![j.room] = @ \cup {j.uid}] /\ UNCHANGED early
       ELSE early' = [early EXCEPT ![j.room] = @ \cup {j.uid}] /\ UNCHANGED roster
    /\ job' = [job EXCEPT ![s] = Idle]
    /\ UNCHANGED <<tables, known, faults, restarts>>

\* Mutant: RoomManager::joinRoom is not called at all.
JoinedCallbackSkips(s) ==
    /\ job[s].pc = "joined"
    /\ job' = [job EXCEPT ![s] = Idle]
    /\ UNCHANGED <<tables, memory, early, faults, restarts>>

\* RoomManager::joinRoom refuses a room that it does not know, and the
\* callback ignores that.
JoinedCallback(s) ==
    /\ job[s].pc = "joined"
    /\ LET j == job[s] IN
       \/ ~j.ok /\ UNCHANGED <<roster, early>>
       \/ /\ j.ok /\ j.room \in known
          /\ roster' = [roster EXCEPT ![j.room] = @ \cup {j.uid}]
          /\ UNCHANGED early
       \/ /\ j.ok /\ j.room \notin known
          /\ early' = [early EXCEPT ![j.room] = @ \cup {j.uid}]
          /\ UNCHANGED roster
    /\ job' = [job EXCEPT ![s] = Idle]
    /\ UNCHANGED <<tables, known, faults, restarts>>

\* The server is restarted: no code reads the rooms back from the tables.
RestartServer ==
    /\ restarts < MaxRestarts
    /\ restarts' = restarts + 1
    /\ known' = {}
    /\ roster' = [r \in Rooms |-> {}]
    /\ job' = [s \in Slots |-> Idle]
    /\ UNCHANGED <<tables, early, faults>>

Next ==
    \/ \E s \in Slots, u \in Uids, r \in Rooms :
         HandleCreateRoom(s, u, r) \/ HandleJoinRoom(s, u, r)
    \/ \E s \in Slots :
         Worker(s) \/ Fault(s) \/ CreatedCallback(s) \/ JoinedCallback(s)
    \/ RestartServer

Spec == Init /\ [][Next]_vars

-----------------------------------------------------------------------------
(***************************************************************************)
(* Properties                                                               *)
(***************************************************************************)

Quiescent == \A s \in Slots : job[s].pc = "idle"

\* Messages for a room go to nobody whom MySQL does not have as a member or as
\* the creator of the room, whatever creations and joins interleave and fail
\* (chat_server.cc:284-288, 305-309; room_service.cc:3-42).
RosterIsBacked ==
    \A r \in known : roster[r] \subseteq members[r] \cup ({creator[r]} \ {NoUid})

\* Of the users who create one room at one time, the one who is told that it
\* succeeded is the creator in MySQL, and the room in memory starts with that
\* user (room_service.cc:6-12: a check, then an INSERT).
CreatorIsUnique ==
    /\ \A s \in Slots :
         job[s].pc = "creator" \/ (job[s].pc = "created" /\ job[s].ok) =>
            creator[job[s].room] = job[s].uid
    /\ \A r \in known : creator[r] \in roster[r]

\* While no statement fails and the server is not restarted, a member of a room
\* is in its roster once no request is in progress, unless the join came back
\* before the callback of the creation (room_manager.cc:12-20, whose result the
\* callback drops).
MembersAreInRoster ==
    Quiescent /\ faults = 0 /\ restarts = 0 =>
        \A r \in Rooms : members[r] \subseteq roster[r] \cup early[r]

\* What the three properties need to be inductive.
JobsAreBacked ==
    \A s \in Slots :
        LET j == job[s] IN
        /\ j.pc # "idle" => j.uid \in Uids /\ j.room \in Rooms
        /\ j.pc \in {"member"} \/ (j.pc = "joined" /\ j.ok) => RoomExists(j.room)
        /\ j.pc = "joined" /\ j.ok => j.uid \in members[j.room]

\* What MembersAreInRoster needs: a member whose request is not answered yet is
\* still to come, and a room that is not known has no roster that could be lost.
Comes(u, r) ==
    \E s \in Slots :
        /\ job[s].pc \in {"created", "joined"} /\ job[s].ok
        /\ job[s].room = r /\ job[s].uid = u

MembersCome ==
    faults = 0 /\ restarts = 0 =>
        \A r \in Rooms : \A u \in members[r] \ (roster[r] \cup early[r]) : Comes(u, r)

UnknownIsEmpty == \A r \in Rooms \ known : roster[r] = {}

RoomInv ==
    /\ TypeOK
    /\ JobsAreBacked
    /\ RosterIsBacked
    /\ CreatorIsUnique
    /\ MembersCome
    /\ UnknownIsEmpty
=============================================================================
