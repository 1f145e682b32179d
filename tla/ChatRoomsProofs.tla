---------------------------- MODULE ChatRoomsProofs ----------------------------
(***************************************************************************)
(* Proofs about ChatRooms, for any users, rooms, requests in progress,      *)
(* failed statements and restarts: one creator a room, a roster that MySQL  *)
(* backs, and no member who is lost on the way to the roster.               *)
(***************************************************************************)
EXTENDS ChatRooms, TLAPS

\* What has to hold of a job, with the tables as they are then
JobIsRight(j) ==
    /\ j.pc # "idle" => j.uid \in Uids /\ j.room \in Rooms
    /\ j.pc = "member" \/ (j.pc = "joined" /\ j.ok) => creator[j.room] # NoUid
    /\ j.pc = "joined" /\ j.ok => j.uid \in members[j.room]
    /\ j.pc = "creator" \/ (j.pc = "created" /\ j.ok) => creator[j.room] = j.uid

\* Its request is answered, and the callback has not run yet.
Returns(j, u, r) ==
    j.pc \in {"created", "joined"} /\ j.ok /\ j.room = r /\ j.uid = u

CreatorsAreIn == \A r \in known : creator[r] \in roster[r]

\* The parts of the invariant that speak of the jobs, job by job
LEMMA JobsInv ==
    JobsAreBacked /\ CreatorIsUnique <=>
        (\A s \in Slots : JobIsRight(job[s])) /\ CreatorsAreIn
  BY DEF JobsAreBacked, CreatorIsUnique, JobIsRight, RoomExists, CreatorsAreIn

LEMMA ComesIs ==
    ASSUME NEW u, NEW r
    PROVE  Comes(u, r) <=> \E s \in Slots : Returns(job[s], u, r)
  BY DEF Comes, Returns

\* The first state: no room and no request.
LEMMA InitRoomInv == Init => RoomInv
<1> SUFFICES ASSUME Init PROVE RoomInv
  OBVIOUS
<1>1. Idle \in Job
  BY DEF Idle, Job
<1>2. 0 \in 0..MaxFaults /\ 0 \in 0..MaxRestarts
  BY RoomAssumption
<1>3. TypeOK
  BY <1>1, <1>2 DEF Init, TypeOK
<1>4. \A s \in Slots : JobIsRight(job[s])
  BY DEF Init, Idle, JobIsRight
<1>5. JobsAreBacked /\ CreatorIsUnique
  BY <1>4, JobsInv DEF Init, CreatorsAreIn
<1> QED
  BY <1>3, <1>5 DEF RoomInv, Init, RosterIsBacked, MembersCome, UnknownIsEmpty

\* A creator stays the creator, and a member stays a member, whatever is written.
TablesGrow ==
    /\ creator' \in [Rooms -> Uids \cup {NoUid}]
    /\ members' \in [Rooms -> SUBSET Uids]
    /\ \A r \in Rooms : creator[r] # NoUid => creator'[r] = creator[r]
    /\ \A r \in Rooms : members[r] \subseteq members'[r]

\* So a job that was right stays right: the room of a job that made it, or that
\* found it, is there, and nobody else can create it.
LEMMA StaysRight ==
    ASSUME TypeOK, TablesGrow, NEW j \in Job, JobIsRight(j)
    PROVE  JobIsRight(j)'
<1>1. j.pc # "idle" => j.uid # NoUid /\ j.room \in Rooms
  BY RoomAssumption DEF JobIsRight
<1>2. j.pc = "creator" \/ (j.pc = "created" /\ j.ok) =>
        creator'[j.room] = j.uid
  BY <1>1 DEF JobIsRight, TablesGrow
<1>3. j.pc = "member" \/ (j.pc = "joined" /\ j.ok) => creator'[j.room] # NoUid
  BY <1>1 DEF JobIsRight, TablesGrow
<1>4. j.pc = "joined" /\ j.ok => j.uid \in members'[j.room]
  BY <1>1 DEF JobIsRight, TablesGrow
<1> QED
  BY <1>2, <1>3, <1>4 DEF JobIsRight

\* A request that begins or goes on keeps the invariant, if it only adds to the
\* tables, its next place is right for them, and it returns with the member
\* that it added.
LEMMA JobStep ==
    ASSUME RoomInv, NEW s \in Slots, NEW k \in Job,
           job' = [job EXCEPT ![s] = k],
           job[s].pc \notin {"created", "joined"},
           UNCHANGED <<known, roster, early, restarts>>,
           faults' \in 0..MaxFaults, faults' = 0 => faults = 0,
           TablesGrow, JobIsRight(k)',
           \A r \in Rooms : \A u \in members'[r] \ members[r] :
               faults' = 0 => Returns(k, u, r)
    PROVE  RoomInv'
<1> USE DEF RoomInv
<1>1. job'[s] = k /\ \A q \in Slots : q # s => job'[q] = job[q]
  BY DEF TypeOK
<1>2. TypeOK'
  BY DEF TypeOK, TablesGrow
<1>3. \A q \in Slots : JobIsRight(job[q])'
  <2> TAKE q \in Slots
  <2>1. CASE q = s
    BY <1>1, <2>1 DEF JobIsRight
  <2>2. CASE q # s
    <3>1. JobIsRight(job[q]) /\ job[q] \in Job
      BY JobsInv DEF TypeOK
    <3>2. PICK j \in Job : j = job[q] /\ j = job'[q] /\ JobIsRight(j)
      BY <1>1, <2>2, <3>1
    <3>3. JobIsRight(j)'
      BY <3>2, StaysRight
    <3> QED
      BY <3>2, <3>3 DEF JobIsRight
  <2> QED
    BY <2>1, <2>2
<1>4. \A r \in known : r \in Rooms /\ creator[r] # NoUid /\ creator'[r] = creator[r]
  BY JobsInv, RoomAssumption DEF TypeOK, CreatorsAreIn, TablesGrow
<1>5. CreatorsAreIn'
  BY <1>4, JobsInv DEF CreatorsAreIn
<1>6. JobsAreBacked' /\ CreatorIsUnique'
  BY <1>3, <1>5 DEF JobsAreBacked, CreatorIsUnique, JobIsRight, RoomExists, CreatorsAreIn
<1>7. RosterIsBacked'
  BY <1>4 DEF RosterIsBacked, TablesGrow
<1>8. MembersCome'
  <2> SUFFICES ASSUME faults' = 0, restarts' = 0, NEW r \in Rooms,
                      NEW u \in members'[r] \ (roster'[r] \cup early'[r])
               PROVE  Comes(u, r)'
    BY DEF MembersCome
  <2>1. CASE u \in members[r]
    <3>1. Comes(u, r)
      BY <2>1 DEF MembersCome
    <3>2. PICK q \in Slots : Returns(job[q], u, r)
      BY <3>1, ComesIs
    <3>3. q # s
      BY <3>2 DEF Returns
    <3> QED
      BY <1>1, <3>2, <3>3 DEF Comes, Returns
  <2>2. CASE u \notin members[r]
    <3>1. Returns(k, u, r)
      BY <2>2
    <3> QED
      BY <1>1, <3>1 DEF Comes, Returns
  <2> QED
    BY <2>1, <2>2
<1>9. UnknownIsEmpty'
  BY DEF UnknownIsEmpty
<1> QED
  BY <1>2, <1>6, <1>7, <1>8, <1>9

\* The tables do not change.
LEMMA TablesStay ==
    ASSUME TypeOK, UNCHANGED tables
    PROVE  TablesGrow /\ \A r \in Rooms : members'[r] \ members[r] = {}
  BY DEF TypeOK, tables, TablesGrow

\* What a row in rooms, or in room_members, adds
LEMMA CreatorGrows ==
    ASSUME TypeOK, NEW r \in Rooms, NEW u \in Uids, ~RoomExists(r),
           creator' = [creator EXCEPT ![r] = u], UNCHANGED members
    PROVE  /\ TablesGrow
           /\ creator'[r] = u
           /\ \A q \in Rooms : members'[q] \ members[q] = {}
  BY DEF TypeOK, RoomExists, TablesGrow

LEMMA MembersGrow ==
    ASSUME TypeOK, NEW r \in Rooms, NEW u \in Uids, AddMember(r, u), UNCHANGED creator
    PROVE  /\ TablesGrow
           /\ u \in members'[r]
           /\ \A q \in Rooms : \A v \in members'[q] \ members[q] : q = r /\ v = u
  BY DEF TypeOK, AddMember, TablesGrow

\* The handlers
LEMMA HandleStep ==
    ASSUME RoomInv, NEW s \in Slots, NEW u \in Uids, NEW r \in Rooms,
           HandleCreateRoom(s, u, r) \/ HandleJoinRoom(s, u, r)
    PROVE  RoomInv'
<1>1. PICK pc \in {"exists", "lookup"} :
        /\ job[s].pc = "idle"
        /\ job' = [job EXCEPT ![s] = [Idle EXCEPT !.pc = pc, !.uid = u, !.room = r]]
        /\ UNCHANGED <<tables, memory, early, faults, restarts>>
  BY DEF HandleCreateRoom, HandleJoinRoom
<1>k. PICK k \in Job :
        /\ k = [Idle EXCEPT !.pc = pc, !.uid = u, !.room = r]
        /\ k.pc = pc /\ k.uid = u /\ k.room = r
  <2> DEFINE n == [Idle EXCEPT !.pc = pc, !.uid = u, !.room = r]
  <2>1. Idle \in Job
    BY DEF Idle, Job
  <2>2. n \in Job
    BY <2>1 DEF Job, CreatePcs, JoinPcs
  <2>3. n.pc = pc /\ n.uid = u /\ n.room = r
    BY <2>1 DEF Job
  <2> HIDE DEF n
  <2> QED
    BY <2>2, <2>3 DEF n
<1>2. TablesGrow /\ \A q \in Rooms : members'[q] \ members[q] = {}
  BY <1>1, TablesStay DEF RoomInv
<1>3. JobIsRight(k)'
  BY <1>k DEF JobIsRight
<1>4. UNCHANGED <<known, roster, early, restarts, faults>> /\ faults' \in 0..MaxFaults
  BY <1>1 DEF memory, RoomInv, TypeOK
<1>5. job' = [job EXCEPT ![s] = k] /\ job[s].pc \notin {"created", "joined"}
  BY <1>1, <1>k
<1> QED
  BY <1>2, <1>3, <1>4, <1>5, JobStep

\* A job at another place, with its result or without
LEMMA NextJob ==
    ASSUME TypeOK, NEW s \in Slots, NEW pc \in CreatePcs \cup JoinPcs,
           NEW ok \in BOOLEAN, Reply(s, pc, ok) \/ (Goto(s, pc) /\ ok = job[s].ok)
    PROVE  \E k \in Job : /\ job' = [job EXCEPT ![s] = k]
                          /\ k.pc = pc /\ k.ok = ok
                          /\ k.uid = job[s].uid /\ k.room = job[s].room
<1>j. PICK j \in Job : j = job[s]
  BY DEF TypeOK
<1>1. PICK k \in Job : /\ k = [j EXCEPT !.pc = pc, !.ok = ok]
                       /\ k.pc = pc /\ k.uid = j.uid /\ k.room = j.room
  <2> DEFINE n == [j EXCEPT !.pc = pc, !.ok = ok]
  <2>1. n \in Job
    BY DEF Job
  <2>2. n.pc = pc /\ n.uid = j.uid /\ n.room = j.room
    BY DEF Job
  <2> HIDE DEF n
  <2> QED
    BY <2>1, <2>2 DEF n
<1>2. k.ok = ok
  BY <1>1 DEF Job
<1>3. CASE Reply(s, pc, ok)
  <2>1. job' = [job EXCEPT ![s] = k]
    BY <1>j, <1>1, <1>3 DEF Reply, TypeOK
  <2> QED
    BY <1>j, <1>1, <1>2, <2>1
<1>4. CASE Goto(s, pc) /\ ok = job[s].ok
  <2>1. k = [j EXCEPT !.pc = pc]
    BY <1>j, <1>1, <1>4 DEF Job
  <2>2. job' = [job EXCEPT ![s] = k]
    BY <1>j, <1>4, <2>1 DEF Goto, TypeOK
  <2> QED
    BY <1>j, <1>1, <1>2, <2>2
<1> QED
  BY <1>3, <1>4

LEMMA JobFacts ==
    ASSUME RoomInv, NEW s \in Slots, job[s].pc # "idle"
    PROVE  /\ job[s] \in Job /\ JobIsRight(job[s])
           /\ job[s].uid \in Uids /\ job[s].room \in Rooms /\ job[s].ok \in BOOLEAN
  BY JobsInv DEF RoomInv, TypeOK, JobIsRight, Job

\* One step of the worker's job, as JobStep wants it
LEMMA WorkerGoes ==
    ASSUME RoomInv, NEW s \in Slots, job[s].pc \in CreatePcs \cup JoinPcs,
           job[s].pc \notin {"created", "joined"},
           NEW pc \in CreatePcs \cup JoinPcs, NEW ok \in BOOLEAN,
           Reply(s, pc, ok) \/ (Goto(s, pc) /\ ok = job[s].ok),
           UNCHANGED <<memory, early, restarts>>,
           faults' \in 0..MaxFaults, faults' = 0 => faults = 0,
           TablesGrow,
           pc = "member" \/ (pc = "joined" /\ ok) => creator'[job[s].room] # NoUid,
           pc = "joined" /\ ok => job[s].uid \in members'[job[s].room],
           pc = "creator" \/ (pc = "created" /\ ok) => creator'[job[s].room] = job[s].uid,
           \A r \in Rooms : \A u \in members'[r] \ members[r] :
               faults' = 0 => /\ pc \in {"created", "joined"} /\ ok
                              /\ r = job[s].room /\ u = job[s].uid
    PROVE  RoomInv'
<1>1. TypeOK /\ job[s].pc # "idle"
  BY DEF RoomInv, CreatePcs, JoinPcs
<1>2. PICK k \in Job : /\ job' = [job EXCEPT ![s] = k]
                       /\ k.pc = pc /\ k.ok = ok
                       /\ k.uid = job[s].uid /\ k.room = job[s].room
  BY <1>1, NextJob
<1>3. job[s].uid \in Uids /\ job[s].room \in Rooms
  BY <1>1, JobFacts
<1>4. JobIsRight(k)'
  BY <1>2, <1>3 DEF JobIsRight
<1>5. \A r \in Rooms : \A u \in members'[r] \ members[r] :
          faults' = 0 => Returns(k, u, r)
  BY <1>2 DEF Returns
<1>6. UNCHANGED <<known, roster, early, restarts>>
  BY DEF memory
<1> QED
  BY <1>2, <1>4, <1>5, <1>6, JobStep

LEMMA CheckRoomStep ==
    ASSUME RoomInv, NEW s \in Slots, CheckRoom(s)
    PROVE  RoomInv'
<1>1. /\ job[s].pc = "exists"
      /\ UNCHANGED <<tables, memory, early, faults, restarts>>
      /\ Reply(s, "created", FALSE) \/ Goto(s, "insert")
  BY DEF CheckRoom
<1>2. job[s].ok \in BOOLEAN
  BY <1>1, JobFacts
<1>3. TablesGrow /\ \A q \in Rooms : members'[q] \ members[q] = {}
  BY <1>1, TablesStay DEF RoomInv
<1>4. faults' \in 0..MaxFaults /\ faults' = faults
  BY <1>1 DEF RoomInv, TypeOK
<1>5. CASE Reply(s, "created", FALSE)
  BY <1>1, <1>3, <1>4, <1>5, WorkerGoes DEF CreatePcs
<1>6. CASE Goto(s, "insert")
  BY <1>1, <1>2, <1>3, <1>4, <1>6, WorkerGoes DEF CreatePcs
<1> QED
  BY <1>1, <1>5, <1>6

LEMMA InsertRoomStep ==
    ASSUME RoomInv, NEW s \in Slots, InsertRoom(s)
    PROVE  RoomInv'
<1>1. job[s].pc = "insert" /\ UNCHANGED <<members, memory, early, faults, restarts>>
  BY DEF InsertRoom
<1>2. job[s].uid \in Uids /\ job[s].room \in Rooms /\ job[s].ok \in BOOLEAN
  BY <1>1, JobFacts
<1>3. faults' \in 0..MaxFaults /\ faults' = faults /\ TypeOK
  BY <1>1 DEF RoomInv, TypeOK
<1>4. CASE Reply(s, "created", FALSE) /\ UNCHANGED creator
  <2>1. TablesGrow /\ \A q \in Rooms : members'[q] \ members[q] = {}
    BY <1>1, <1>3, <1>4, TablesStay DEF tables
  <2> QED
    BY <1>1, <1>3, <1>4, <2>1, WorkerGoes DEF CreatePcs
<1>5. CASE /\ ~RoomExists(job[s].room)
           /\ creator' = [creator EXCEPT ![job[s].room] = job[s].uid]
           /\ Goto(s, "creator")
  <2>1. /\ TablesGrow /\ creator'[job[s].room] = job[s].uid
        /\ \A q \in Rooms : members'[q] \ members[q] = {}
    BY <1>1, <1>2, <1>3, <1>5, CreatorGrows
  <2> QED
    BY <1>1, <1>2, <1>3, <1>5, <2>1, WorkerGoes DEF CreatePcs
<1> QED
  BY <1>4, <1>5 DEF InsertRoom

LEMMA AddCreatorStep ==
    ASSUME RoomInv, NEW s \in Slots, AddCreator(s)
    PROVE  RoomInv'
<1>1. /\ job[s].pc = "creator" /\ AddMember(job[s].room, job[s].uid)
      /\ Reply(s, "created", TRUE)
      /\ UNCHANGED <<creator, memory, early, faults, restarts>>
  BY DEF AddCreator
<1>2. job[s].uid \in Uids /\ job[s].room \in Rooms /\ creator[job[s].room] = job[s].uid
  BY <1>1, JobFacts DEF JobIsRight
<1>3. faults' \in 0..MaxFaults /\ faults' = faults /\ TypeOK
  BY <1>1 DEF RoomInv, TypeOK
<1>4. /\ TablesGrow
      /\ \A q \in Rooms : \A v \in members'[q] \ members[q] :
             q = job[s].room /\ v = job[s].uid
  BY <1>1, <1>2, <1>3, MembersGrow
<1> QED
  BY <1>1, <1>2, <1>3, <1>4, WorkerGoes DEF CreatePcs

LEMMA LookupRoomStep ==
    ASSUME RoomInv, NEW s \in Slots, LookupRoom(s)
    PROVE  RoomInv'
<1>1. /\ job[s].pc = "lookup"
      /\ UNCHANGED <<tables, memory, early, faults, restarts>>
      /\ \/ RoomExists(job[s].room) /\ Goto(s, "member")
         \/ Reply(s, "joined", FALSE)
  BY DEF LookupRoom
<1>2. job[s].ok \in BOOLEAN
  BY <1>1, JobFacts
<1>3. TablesGrow /\ \A q \in Rooms : members'[q] \ members[q] = {}
  BY <1>1, TablesStay DEF RoomInv
<1>4. faults' \in 0..MaxFaults /\ faults' = faults
  BY <1>1 DEF RoomInv, TypeOK
<1>5. CASE Reply(s, "joined", FALSE)
  BY <1>1, <1>3, <1>4, <1>5, WorkerGoes DEF JoinPcs
<1>6. CASE RoomExists(job[s].room) /\ Goto(s, "member")
  <2>1. creator'[job[s].room] # NoUid
    BY <1>1, <1>6 DEF RoomExists, tables
  <2> QED
    BY <1>1, <1>2, <1>3, <1>4, <1>6, <2>1, WorkerGoes DEF JoinPcs
<1> QED
  BY <1>1, <1>5, <1>6

LEMMA JoinMemberStep ==
    ASSUME RoomInv, NEW s \in Slots, JoinMember(s)
    PROVE  RoomInv'
<1>1. /\ job[s].pc = "member" /\ AddMember(job[s].room, job[s].uid)
      /\ Reply(s, "joined", TRUE)
      /\ UNCHANGED <<creator, memory, early, faults, restarts>>
  BY DEF JoinMember
<1>2. job[s].uid \in Uids /\ job[s].room \in Rooms /\ creator[job[s].room] # NoUid
  BY <1>1, JobFacts DEF JobIsRight
<1>3. faults' \in 0..MaxFaults /\ faults' = faults /\ TypeOK
  BY <1>1 DEF RoomInv, TypeOK
<1>4. /\ TablesGrow /\ job[s].uid \in members'[job[s].room]
      /\ \A q \in Rooms : \A v \in members'[q] \ members[q] :
             q = job[s].room /\ v = job[s].uid
  BY <1>1, <1>2, <1>3, MembersGrow
<1> QED
  BY <1>1, <1>2, <1>3, <1>4, WorkerGoes DEF JoinPcs

\* A statement that fails, or whose answer is lost: after it MembersCome asks
\* for nothing any more.
LEMMA FaultStep ==
    ASSUME RoomInv, NEW s \in Slots, Fault(s)
    PROVE  RoomInv'
<1> DEFINE j == job[s]
<1>1. /\ faults < MaxFaults /\ faults' = faults + 1
      /\ UNCHANGED <<memory, early, restarts>>
  BY DEF Fault
<1>2. TypeOK /\ faults' \in 0..MaxFaults /\ faults' # 0
  BY <1>1, RoomAssumption DEF RoomInv, TypeOK
<1>3. CASE j.pc = "exists" /\ Goto(s, "insert") /\ UNCHANGED tables
  <2>1. j.ok \in BOOLEAN
    BY <1>3, JobFacts
  <2>2. TablesGrow
    BY <1>2, <1>3, TablesStay
  <2> QED
    BY <1>1, <1>2, <1>3, <2>1, <2>2, WorkerGoes DEF CreatePcs
<1>4. CASE /\ j.pc = "insert" /\ Reply(s, "created", FALSE)
           /\ \/ UNCHANGED creator
              \/ /\ ~RoomExists(j.room)
                 /\ creator' = [creator EXCEPT ![j.room] = j.uid]
           /\ UNCHANGED members
  <2>1. j.uid \in Uids /\ j.room \in Rooms
    BY <1>4, JobFacts
  <2>2. TablesGrow
    <3>1. CASE UNCHANGED creator
      BY <1>2, <1>4, <3>1, TablesStay DEF tables
    <3>2. CASE ~RoomExists(j.room) /\ creator' = [creator EXCEPT ![j.room] = j.uid]
      BY <1>2, <1>4, <2>1, <3>2, CreatorGrows
    <3> QED
      BY <1>4, <3>1, <3>2
  <2> QED
    BY <1>1, <1>2, <1>4, <2>2, WorkerGoes DEF CreatePcs
<1>5. CASE j.pc = "creator" /\ Reply(s, "created", TRUE) /\ UNCHANGED tables
  <2>1. TablesGrow
    BY <1>2, <1>5, TablesStay
  <2>2. creator'[j.room] = j.uid
    BY <1>5, JobFacts DEF JobIsRight, tables
  <2> QED
    BY <1>1, <1>2, <1>5, <2>1, <2>2, WorkerGoes DEF CreatePcs
<1>6. CASE j.pc = "lookup" /\ Reply(s, "joined", FALSE) /\ UNCHANGED tables
  <2>1. TablesGrow
    BY <1>2, <1>6, TablesStay
  <2> QED
    BY <1>1, <1>2, <1>6, <2>1, WorkerGoes DEF JoinPcs
<1>7. CASE /\ j.pc = "member" /\ Reply(s, "joined", FALSE)
           /\ UNCHANGED members \/ AddMember(j.room, j.uid)
           /\ UNCHANGED creator
  <2>1. j.uid \in Uids /\ j.room \in Rooms
    BY <1>7, JobFacts
  <2>2. TablesGrow
    <3>1. CASE UNCHANGED members
      BY <1>2, <1>7, <3>1, TablesStay DEF tables
    <3>2. CASE AddMember(j.room, j.uid)
      BY <1>2, <1>7, <2>1, <3>2, MembersGrow
    <3> QED
      BY <1>7, <3>1, <3>2
  <2> QED
    BY <1>1, <1>2, <1>7, <2>2, WorkerGoes DEF JoinPcs
<1> QED
  BY <1>3, <1>4, <1>5, <1>6, <1>7 DEF Fault

\* A callback ends its request: whoever it returned is in the roster, or came
\* too early for it.
LEMMA CallbackStep ==
    ASSUME RoomInv, NEW s \in Slots, job' = [job EXCEPT ![s] = Idle],
           UNCHANGED <<tables, faults, restarts>>,
           known' \in SUBSET Rooms, roster' \in [Rooms -> SUBSET Uids],
           early' \in [Rooms -> SUBSET Uids],
           RosterIsBacked', CreatorsAreIn', UnknownIsEmpty',
           \A r \in Rooms : roster[r] \cup early[r] \subseteq roster'[r] \cup early'[r],
           \A r \in Rooms, u \in Uids :
               Returns(job[s], u, r) => u \in roster'[r] \cup early'[r]
    PROVE  RoomInv'
<1> USE DEF RoomInv
<1>1. job'[s] = Idle /\ \A q \in Slots : q # s => job'[q] = job[q]
  BY DEF TypeOK
<1>2. Idle \in Job
  BY DEF Idle, Job
<1>3. TypeOK'
  BY <1>2 DEF TypeOK, tables
<1>4. \A q \in Slots : JobIsRight(job[q])
  BY JobsInv
<1>5. \A q \in Slots : JobIsRight(job[q])'
  BY <1>1, <1>4 DEF JobIsRight, Idle, tables
<1>6. JobsAreBacked' /\ CreatorIsUnique'
  BY <1>5 DEF JobsAreBacked, CreatorIsUnique, JobIsRight, RoomExists, CreatorsAreIn
<1>7. MembersCome'
  <2> SUFFICES ASSUME faults' = 0, restarts' = 0, NEW r \in Rooms,
                      NEW u \in members'[r] \ (roster'[r] \cup early'[r])
               PROVE  Comes(u, r)'
    BY DEF MembersCome
  <2>1. u \in members[r] \ (roster[r] \cup early[r]) /\ u \in Uids
    BY DEF tables, TypeOK
  <2>2. Comes(u, r)
    BY <2>1 DEF MembersCome
  <2>3. PICK q \in Slots : Returns(job[q], u, r)
    BY <2>2, ComesIs
  <2>4. q # s
    BY <2>1, <2>3
  <2> QED
    BY <1>1, <2>3, <2>4 DEF Comes, Returns
<1> QED
  BY <1>3, <1>6, <1>7

LEMMA CreatedCallbackStep ==
    ASSUME RoomInv, NEW s \in Slots, CreatedCallback(s)
    PROVE  RoomInv'
<1>j. PICK j \in Job : j = job[s] /\ j.pc = "created"
  BY DEF CreatedCallback, RoomInv, TypeOK
<1>1. /\ j.uid \in Uids /\ j.room \in Rooms
      /\ j.ok => creator[j.room] = j.uid
  BY <1>j, JobFacts DEF JobIsRight
<1>2. job' = [job EXCEPT ![s] = Idle] /\ UNCHANGED <<tables, early, faults, restarts>>
  BY DEF CreatedCallback
<1>3. \A r \in Rooms, u \in Uids : Returns(job[s], u, r) => j.ok /\ r = j.room /\ u = j.uid
  BY <1>j DEF Returns
<1>t. TypeOK /\ RosterIsBacked /\ CreatorsAreIn /\ UnknownIsEmpty
  BY JobsInv DEF RoomInv
<1>4. CASE j.ok /\ j.room \notin known
  <2>1. known' = known \cup {j.room} /\ roster' = [roster EXCEPT ![j.room] = {j.uid}]
    BY <1>j, <1>4 DEF CreatedCallback
  <2>2. /\ roster'[j.room] = {j.uid}
        /\ \A r \in Rooms : r # j.room => roster'[r] = roster[r]
    BY <1>1, <1>t, <2>1 DEF TypeOK
  <2>3. known' \in SUBSET Rooms /\ roster' \in [Rooms -> SUBSET Uids]
        /\ early' \in [Rooms -> SUBSET Uids]
    BY <1>1, <1>2, <1>t, <2>1 DEF TypeOK
  <2>4. RosterIsBacked'
    BY <1>1, <1>2, <1>4, <1>t, <2>1, <2>2, RoomAssumption
       DEF RosterIsBacked, tables, TypeOK
  <2>5. CreatorsAreIn'
    BY <1>1, <1>2, <1>4, <1>t, <2>1, <2>2 DEF CreatorsAreIn, tables, TypeOK
  <2>6. UnknownIsEmpty'
    BY <1>t, <2>1, <2>2 DEF UnknownIsEmpty
  <2>7. \A r \in Rooms : roster[r] \cup early[r] \subseteq roster'[r] \cup early'[r]
    BY <1>2, <1>4, <1>t, <2>2 DEF UnknownIsEmpty
  <2>8. \A r \in Rooms, u \in Uids :
            Returns(job[s], u, r) => u \in roster'[r] \cup early'[r]
    BY <1>3, <2>2
  <2> QED
    BY <1>2, <2>3, <2>4, <2>5, <2>6, <2>7, <2>8, CallbackStep
<1>5. CASE ~(j.ok /\ j.room \notin known)
  <2>1. known' = known /\ roster' = roster
    BY <1>j, <1>5 DEF CreatedCallback, memory
  <2>2. known' \in SUBSET Rooms /\ roster' \in [Rooms -> SUBSET Uids]
        /\ early' \in [Rooms -> SUBSET Uids]
    BY <1>2, <1>t, <2>1 DEF TypeOK
  <2>3. RosterIsBacked' /\ CreatorsAreIn' /\ UnknownIsEmpty'
    BY <1>2, <1>t, <2>1 DEF RosterIsBacked, CreatorsAreIn, UnknownIsEmpty, tables
  <2>4. \A r \in Rooms : roster[r] \cup early[r] \subseteq roster'[r] \cup early'[r]
    BY <1>2, <2>1
  <2>5. \A r \in Rooms, u \in Uids :
            Returns(job[s], u, r) => u \in roster'[r] \cup early'[r]
    BY <1>1, <1>3, <1>5, <1>t, <2>1 DEF CreatorsAreIn
  <2> QED
    BY <1>2, <2>2, <2>3, <2>4, <2>5, CallbackStep
<1> QED
  BY <1>4, <1>5

LEMMA JoinedCallbackStep ==
    ASSUME RoomInv, NEW s \in Slots, JoinedCallback(s)
    PROVE  RoomInv'
<1>j. PICK j \in Job : j = job[s] /\ j.pc = "joined"
  BY DEF JoinedCallback, RoomInv, TypeOK
<1>1. /\ j.uid \in Uids /\ j.room \in Rooms
      /\ j.ok => j.uid \in members[j.room]
  BY <1>j, JobFacts DEF JobIsRight
<1>2. /\ job' = [job EXCEPT ![s] = Idle]
      /\ UNCHANGED <<tables, known, faults, restarts>>
  BY DEF JoinedCallback
<1>3. \A r \in Rooms, u \in Uids : Returns(job[s], u, r) => j.ok /\ r = j.room /\ u = j.uid
  BY <1>j DEF Returns
<1>t. TypeOK /\ RosterIsBacked /\ CreatorsAreIn /\ UnknownIsEmpty
  BY JobsInv DEF RoomInv
<1>4. CASE ~j.ok /\ UNCHANGED <<roster, early>>
  <2>1. known' \in SUBSET Rooms /\ roster' \in [Rooms -> SUBSET Uids]
        /\ early' \in [Rooms -> SUBSET Uids]
    BY <1>2, <1>4, <1>t DEF TypeOK
  <2>2. RosterIsBacked' /\ CreatorsAreIn' /\ UnknownIsEmpty'
    BY <1>2, <1>4, <1>t DEF RosterIsBacked, CreatorsAreIn, UnknownIsEmpty, tables
  <2>3. /\ \A r \in Rooms : roster[r] \cup early[r] \subseteq roster'[r] \cup early'[r]
        /\ \A r \in Rooms, u \in Uids :
               Returns(job[s], u, r) => u \in roster'[r] \cup early'[r]
    BY <1>3, <1>4
  <2> QED
    BY <1>2, <2>1, <2>2, <2>3, CallbackStep
<1>5. CASE /\ j.ok /\ j.room \in known
           /\ roster' = [roster EXCEPT ![j.room] = @ \cup {j.uid}]
           /\ UNCHANGED early
  <2>1. /\ roster'[j.room] = roster[j.room] \cup {j.uid}
        /\ \A r \in Rooms : r # j.room => roster'[r] = roster[r]
    BY <1>1, <1>5, <1>t DEF TypeOK
  <2>2. known' \in SUBSET Rooms /\ roster' \in [Rooms -> SUBSET Uids]
        /\ early' \in [Rooms -> SUBSET Uids]
    BY <1>1, <1>2, <1>5, <1>t DEF TypeOK
  <2>3. RosterIsBacked'
    BY <1>1, <1>2, <1>5, <1>t, <2>1 DEF RosterIsBacked, tables, TypeOK
  <2>4. CreatorsAreIn'
    BY <1>2, <1>t, <2>1 DEF CreatorsAreIn, tables, TypeOK
  <2>5. UnknownIsEmpty'
    BY <1>2, <1>5, <1>t, <2>1 DEF UnknownIsEmpty
  <2>6. /\ \A r \in Rooms : roster[r] \cup early[r] \subseteq roster'[r] \cup early'[r]
        /\ \A r \in Rooms, u \in Uids :
               Returns(job[s], u, r) => u \in roster'[r] \cup early'[r]
    BY <1>3, <1>5, <2>1
  <2> QED
    BY <1>2, <2>2, <2>3, <2>4, <2>5, <2>6, CallbackStep
<1>6. CASE /\ j.ok /\ j.room \notin known
           /\ early' = [early EXCEPT ![j.room] = @ \cup {j.uid}]
           /\ UNCHANGED roster
  <2>1. /\ early'[j.room] = early[j.room] \cup {j.uid}
        /\ \A r \in Rooms : r # j.room => early'[r] = early[r]
    BY <1>1, <1>6, <1>t DEF TypeOK
  <2>2. known' \in SUBSET Rooms /\ roster' \in [Rooms -> SUBSET Uids]
        /\ early' \in [Rooms -> SUBSET Uids]
    BY <1>1, <1>2, <1>6, <1>t DEF TypeOK
  <2>3. RosterIsBacked' /\ CreatorsAreIn' /\ UnknownIsEmpty'
    BY <1>2, <1>6, <1>t DEF RosterIsBacked, CreatorsAreIn, UnknownIsEmpty, tables
  <2>4. /\ \A r \in Rooms : roster[r] \cup early[r] \subseteq roster'[r] \cup early'[r]
        /\ \A r \in Rooms, u \in Uids :
               Returns(job[s], u, r) => u \in roster'[r] \cup early'[r]
    BY <1>3, <1>6, <2>1
  <2> QED
    BY <1>2, <2>2, <2>3, <2>4, CallbackStep
<1> QED
  BY <1>j, <1>4, <1>5, <1>6 DEF JoinedCallback

\* A restart forgets the rosters and every request, but no row.
LEMMA RestartStep ==
    ASSUME RoomInv, RestartServer
    PROVE  RoomInv'
<1> USE DEF RoomInv
<1>1. /\ restarts < MaxRestarts /\ restarts' = restarts + 1
      /\ known' = {} /\ roster' = [r \in Rooms |-> {}]
      /\ job' = [s \in Slots |-> Idle]
      /\ UNCHANGED <<creator, members, early, faults>>
  BY DEF RestartServer, tables
<1>2. restarts' \in 0..MaxRestarts /\ restarts' # 0
  BY <1>1, RoomAssumption DEF TypeOK
<1>3. Idle \in Job
  BY DEF Idle, Job
<1>4. TypeOK'
  BY <1>1, <1>2, <1>3 DEF TypeOK
<1>5. JobsAreBacked' /\ CreatorIsUnique'
  BY <1>1 DEF JobsAreBacked, CreatorIsUnique, Idle
<1>6. RosterIsBacked' /\ MembersCome' /\ UnknownIsEmpty'
  BY <1>1, <1>2 DEF RosterIsBacked, MembersCome, UnknownIsEmpty
<1> QED
  BY <1>4, <1>5, <1>6

LEMMA NextRoomInv == RoomInv /\ [Next]_vars => RoomInv'
<1> SUFFICES ASSUME RoomInv, [Next]_vars PROVE RoomInv'
  OBVIOUS
<1>1. ASSUME NEW s \in Slots, NEW u \in Uids, NEW r \in Rooms,
             HandleCreateRoom(s, u, r) \/ HandleJoinRoom(s, u, r)
      PROVE  RoomInv'
  BY <1>1, HandleStep
<1>2. ASSUME NEW s \in Slots, Worker(s)
      PROVE  RoomInv'
  BY <1>2, CheckRoomStep, InsertRoomStep, AddCreatorStep, LookupRoomStep,
     JoinMemberStep DEF Worker
<1>3. ASSUME NEW s \in Slots, Fault(s) \/ CreatedCallback(s) \/ JoinedCallback(s)
      PROVE  RoomInv'
  BY <1>3, FaultStep, CreatedCallbackStep, JoinedCallbackStep
<1>4. CASE RestartServer
  BY <1>4, RestartStep
<1>5. CASE UNCHANGED vars
  BY <1>5 DEF vars, tables, memory, RoomInv, TypeOK, JobsAreBacked, RosterIsBacked,
     CreatorIsUnique, MembersCome, UnknownIsEmpty, Comes, RoomExists
<1> QED
  BY <1>1, <1>2, <1>3, <1>4, <1>5 DEF Next

\* The inductive invariant of the rooms, in the tables and in memory
\* (room_service.cc, room_manager.cc).
THEOREM RoomInvariance == Spec => []RoomInv
<1>1. Init => RoomInv
  BY InitRoomInv
<1>2. RoomInv /\ [Next]_vars => RoomInv'
  BY NextRoomInv
<1> QED
  BY <1>1, <1>2, PTL DEF Spec

\* The roster that messages are sent by has nobody whom MySQL does not have as
\* a member or as the creator (chat_server.cc:284-288, 305-309).
THEOREM RosterBacked == Spec => []RosterIsBacked
<1>1. RoomInv => RosterIsBacked
  BY DEF RoomInv
<1> QED
  BY <1>1, RoomInvariance, PTL

\* Of all who create a room at one time, only the creator in MySQL is told that
\* it succeeded, and the creator is in the roster (room_service.cc:6-12).
THEOREM OneCreator == Spec => []CreatorIsUnique
<1>1. RoomInv => CreatorIsUnique
  BY DEF RoomInv
<1> QED
  BY <1>1, RoomInvariance, PTL

\* Without failed statements and restarts every member is in the roster once no
\* request is in progress, except those whose join came back too early
\* (room_manager.cc:12-20).
THEOREM MembersReachRoster == Spec => []MembersAreInRoster
<1>1. RoomInv => MembersAreInRoster
  <2> SUFFICES ASSUME RoomInv, Quiescent, faults = 0, restarts = 0, NEW r \in Rooms
               PROVE  members[r] \subseteq roster[r] \cup early[r]
    BY DEF MembersAreInRoster
  <2>1. \A u : ~Comes(u, r)
    BY DEF Quiescent, Comes
  <2> QED
    BY <2>1 DEF RoomInv, MembersCome
<1> QED
  BY <1>1, RoomInvariance, PTL
=============================================================================
