----------------------------- MODULE ChatFriends -----------------------------
(***************************************************************************)
(* Friends: the handlers of friend requests, answers and removals           *)
(* (src/src/chat_server.cc), FriendService and MySQLFriendRepo on a worker, *)
(* and the two caches in SessionManager, which callbacks change and a login *)
(* fills from the table.                                                    *)
(*                                                                          *)
(* A request in progress is a job in a slot; every SQL statement is a step. *)
(* A request comes from a connection that is logged in, and names any two   *)
(* registered users: only a removal takes one from the session.  No handler *)
(* looks at what the repository answers.                                    *)
(***************************************************************************)
EXTENDS Naturals, FiniteSets

CONSTANTS
    Uids,           \* registered users
    NoUid,          \* the empty uid
    Slots,          \* requests that may be in progress at one time
    MaxRequests,    \* bound on the requests that are accepted
    MaxFaults,      \* bound on the statements that fail
    MaxRestarts     \* bound on the restarts of the server

ASSUME FriendAssumption ==
    /\ NoUid \notin Uids
    /\ MaxRequests \in Nat /\ MaxFaults \in Nat /\ MaxRestarts \in Nat

VARIABLES
    status,         \* table friendships: the status of <<requester, target>>
    friendships,    \* friendships_
    pending,        \* pending_friend_requests_
    job,            \* requests in progress
    loaded,         \* history: users who logged in since the restart
    disturbed,      \* history: pairs of users that are excepted below
    requests,       \* requests accepted so far
    faults,         \* statements that failed so far
    restarts        \* restarts so far

cache == <<friendships, pending>>
history == <<loaded, disturbed>>
bounds == <<requests, faults, restarts>>
vars == <<status, cache, job, history, bounds>>

Pairs == Uids \X Uids

Statuses == {"none", "asked", "accepted", "refused"}

Idle == [pc |-> "idle", a |-> NoUid, b |-> NoUid, accepted |-> FALSE,
         friends |-> {}, askers |-> {}]

Pcs == {"idle", "exists", "ask", "asked",       \* request of a to b
        "answer", "reverse", "answered",        \* answer of b to a
        "delete", "removed",                    \* removal by a of b
        "list", "askers", "login"}              \* login of a

LoginPcs == {"list", "askers", "login"}

Job == [pc : Pcs, a : Uids \cup {NoUid}, b : Uids \cup {NoUid}, accepted : BOOLEAN,
        friends : SUBSET Uids, askers : SUBSET Uids]

\* The one type invariant of this component.
TypeOK ==
    /\ status \in [Pairs -> Statuses]
    /\ friendships \in [Uids -> SUBSET Uids]
    /\ pending \in SUBSET Pairs
    /\ job \in [Slots -> Job]
    /\ \A s \in Slots : job[s].pc # "idle" =>
         job[s].a \in Uids /\ (job[s].pc \notin LoginPcs => job[s].b \in Uids)
    /\ loaded \in SUBSET Uids
    /\ disturbed \in SUBSET Pairs
    /\ requests \in 0..MaxRequests
    /\ faults \in 0..MaxFaults
    /\ restarts \in 0..MaxRestarts

Init ==
    /\ status = [p \in Pairs |-> "none"]
    /\ friendships = [u \in Uids |-> {}]
    /\ pending = {}
    /\ job = [s \in Slots |-> Idle]
    /\ loaded = {}
    /\ disturbed = {}
    /\ requests = 0
    /\ faults = 0
    /\ restarts = 0

\* The pair of two users, in both orders
Both(a, b) == {<<a, b>>, <<b, a>>}

\* The pairs that a job may read or write
Touched(j) ==
    IF j.pc = "idle" THEN {}
    ELSE IF j.pc \in LoginPcs THEN {p \in Pairs : p[1] = j.a \/ p[2] = j.a}
    ELSE Both(j.a, j.b)

-----------------------------------------------------------------------------
(***************************************************************************)
(* The handlers, on the event loop                                          *)
(***************************************************************************)

\* The job j is given to a worker.  The pairs that it shares with a job in
\* progress are disturbed, unless both only read them, for a login.
Run(s, j) ==
    /\ job[s].pc = "idle"
    /\ job' = [job EXCEPT ![s] = j]
    /\ requests < MaxRequests
    /\ requests' = requests + 1
    /\ disturbed' = disturbed \cup
         {p \in Touched(j) : \E r \in Slots :
              p \in Touched(job[r]) /\ ~(j.pc = "list" /\ job[r].pc \in LoginPcs)}
    /\ UNCHANGED <<status, cache, loaded, faults, restarts>>

HandleFriendRequest(s, a, b) == Run(s, [Idle EXCEPT !.pc = "exists", !.a = a, !.b = b])

HandleFriendResponse(s, a, b, accepted) ==
    Run(s, [Idle EXCEPT !.pc = "answer", !.a = a, !.b = b, !.accepted = accepted])

HandleFriendRemove(s, a, b) == Run(s, [Idle EXCEPT !.pc = "delete", !.a = a, !.b = b])

\* A login of a that succeeds reads both lists before its callback.
HandleLogin(s, a) == Run(s, [Idle EXCEPT !.pc = "list", !.a = a])

-----------------------------------------------------------------------------
(***************************************************************************)
(* The worker                                                               *)
(***************************************************************************)

Goto(s, pc) == job' = [job EXCEPT ![s].pc = pc]

UserExists(s) ==
    /\ job[s].pc = "exists"
    /\ Goto(s, "ask")
    /\ UNCHANGED <<status, cache, history, bounds>>

\* INSERT IGNORE of a row, which leaves a row that is there alone
InsertIgnore(p, st) ==
    status' = [status EXCEPT ![p] = IF @ = "none" THEN st ELSE @]

AddFriendRequest(s) ==
    /\ job[s].pc = "ask"
    /\ InsertIgnore(<<job[s].a, job[s].b>>, "asked")
    /\ Goto(s, "asked")
    /\ UNCHANGED <<cache, history, bounds>>

\* UPDATE of a row, if it is there
Answer(j) ==
    status' = [status EXCEPT ![<<j.a, j.b>>] =
                 IF @ = "none" THEN @ ELSE IF j.accepted THEN "accepted" ELSE "refused"]

\* respondFriendRequest: the UPDATE.  An answer to a request that is not open
\* disturbs the pair.
AnswerRequest(s) ==
    LET j == job[s] IN
    /\ j.pc = "answer"
    /\ Answer(j)
    /\ disturbed' = IF status[<<j.a, j.b>>] = "asked" THEN disturbed
                    ELSE disturbed \cup Both(j.a, j.b)
    /\ Goto(s, IF j.accepted THEN "reverse" ELSE "answered")
    /\ UNCHANGED <<cache, loaded, bounds>>

\* respondFriendRequest: the row of the other direction
InsertReverse(s) ==
    /\ job[s].pc = "reverse"
    /\ InsertIgnore(<<job[s].b, job[s].a>>, "accepted")
    /\ Goto(s, "answered")
    /\ UNCHANGED <<cache, history, bounds>>

Delete(j) == status' = [p \in Pairs |-> IF p \in Both(j.a, j.b) THEN "none" ELSE status[p]]

\* Mutant: DELETE of the row of the requester alone.
RemoveFriendsOneWay(s) ==
    /\ job[s].pc = "delete"
    /\ status' = [status EXCEPT ![<<job[s].a, job[s].b>>] = "none"]
    /\ Goto(s, "removed")
    /\ UNCHANGED <<cache, history, bounds>>

RemoveFriends(s) ==
    /\ job[s].pc = "delete"
    /\ Delete(job[s])
    /\ Goto(s, "removed")
    /\ UNCHANGED <<cache, history, bounds>>

\* The table has a row of status 1 in either direction.
AreFriends(a, b) == "accepted" \in {status[<<a, b>>], status[<<b, a>>]}

\* Mutant: the rows that a user asked for are not read.
GetFriendListOneWay(s) ==
    /\ job[s].pc = "list"
    /\ job' = [job EXCEPT ![s].pc = "askers",
                 ![s].friends = {u \in Uids : status[<<u, job[s].a>>] = "accepted"}]
    /\ UNCHANGED <<status, cache, history, bounds>>

GetFriendList(s) ==
    /\ job[s].pc = "list"
    /\ job' = [job EXCEPT ![s].pc = "askers",
                          ![s].friends = {u \in Uids : AreFriends(job[s].a, u)}]
    /\ UNCHANGED <<status, cache, history, bounds>>

GetPendingRequests(s) ==
    /\ job[s].pc = "askers"
    /\ job' = [job EXCEPT ![s].pc = "login",
                 ![s].askers = {u \in Uids : status[<<u, job[s].a>>] = "asked"}]
    /\ UNCHANGED <<status, cache, history, bounds>>

\* What a repository call that fails goes on to
AfterFault(pc) ==
    CASE pc \in {"exists", "ask"}      -> "asked"
      [] pc \in {"answer", "reverse"}  -> "answered"
      [] pc = "delete"                 -> "removed"
      [] pc = "list"                   -> "askers"
      [] pc = "askers"                 -> "login"

\* A statement fails, or it is executed and its answer is lost.  A list that
\* cannot be read is empty.
Fault(s) ==
    LET j == job[s] IN
    /\ faults < MaxFaults
    /\ faults' = faults + 1
    /\ j.pc \in {"exists", "ask", "answer", "reverse", "delete", "list", "askers"}
    /\ Goto(s, AfterFault(j.pc))
    /\ disturbed' = disturbed \cup Touched(j)
    /\ \/ UNCHANGED status
       \/ j.pc = "ask" /\ InsertIgnore(<<j.a, j.b>>, "asked")
       \/ j.pc = "answer" /\ Answer(j)
       \/ j.pc = "reverse" /\ InsertIgnore(<<j.b, j.a>>, "accepted")
       \/ j.pc = "delete" /\ Delete(j)
    /\ UNCHANGED <<cache, loaded, requests, restarts>>

Worker(s) ==
    \/ UserExists(s) \/ AddFriendRequest(s) \/ AnswerRequest(s) \/ InsertReverse(s)
    \/ RemoveFriends(s) \/ GetFriendList(s) \/ GetPendingRequests(s)

-----------------------------------------------------------------------------
(***************************************************************************)
(* The callbacks, on the event loop, and the caches                         *)
(***************************************************************************)

\* addFriendship(a, u) for every u in us
AddFriendships(a, us) ==
    friendships' = [u \in Uids |->
        friendships[u] \cup (IF u \in us THEN {a} ELSE {}) \cup (IF u = a THEN us ELSE {})]

\* Mutant: removeFriendship erases one side.
RemoveFriendshipOneSide(a, b) == friendships' = [friendships EXCEPT ![a] = @ \ {b}]

RemoveFriendship(a, b) ==
    friendships' = [u \in Uids |->
        {v \in friendships[u] : <<u, v>> \notin Both(a, b)}]

Done(s) == job' = [job EXCEPT ![s] = Idle]

RequestedCallback(s) ==
    /\ job[s].pc = "asked"
    /\ pending' = pending \cup {<<job[s].a, job[s].b>>}
    /\ Done(s)
    /\ UNCHANGED <<status, friendships, history, bounds>>

AnsweredCallback(s) ==
    LET j == job[s] IN
    /\ j.pc = "answered"
    /\ IF j.accepted THEN AddFriendships(j.a, {j.b}) ELSE UNCHANGED friendships
    /\ pending' = pending \ {<<j.a, j.b>>}
    /\ Done(s)
    /\ UNCHANGED <<status, history, bounds>>

RemovedCallback(s) ==
    /\ job[s].pc = "removed"
    /\ RemoveFriendship(job[s].a, job[s].b)
    /\ Done(s)
    /\ UNCHANGED <<status, pending, history, bounds>>

\* The part of the login callback that fills the caches
LoginCallback(s) ==
    LET j == job[s] IN
    /\ j.pc = "login"
    /\ AddFriendships(j.a, j.friends)
    /\ pending' = pending \cup {<<u, j.a>> : u \in j.askers}
    /\ loaded' = loaded \cup {j.a}
    /\ Done(s)
    /\ UNCHANGED <<status, disturbed, bounds>>

\* The server is restarted: the table stays.  An answer that was cut between
\* its two statements leaves the first.
RestartServer ==
    /\ restarts < MaxRestarts
    /\ restarts' = restarts + 1
    /\ friendships' = [u \in Uids |-> {}]
    /\ pending' = {}
    /\ loaded' = {}
    /\ job' = [s \in Slots |-> Idle]
    /\ UNCHANGED <<status, disturbed, requests, faults>>

Request(s, a, b) ==
    \/ HandleFriendRequest(s, a, b)
    \/ \E accepted \in BOOLEAN : HandleFriendResponse(s, a, b, accepted)
    \/ HandleFriendRemove(s, a, b)

Next ==
    \/ \E s \in Slots, a \in Uids : HandleLogin(s, a) \/ \E b \in Uids : Request(s, a, b)
    \/ \E s \in Slots :
         \/ Worker(s) \/ Fault(s) \/ RequestedCallback(s) \/ AnsweredCallback(s)
         \/ RemovedCallback(s) \/ LoginCallback(s)
    \/ RestartServer

Spec == Init /\ [][Next]_vars

-----------------------------------------------------------------------------
(***************************************************************************)
(* Properties                                                               *)
(***************************************************************************)

\* Two users are in each other's cached lists or in neither's, whatever
\* requests interleave and fail (session_manager.cc:98-108, called from the
\* callbacks of three handlers and of every login).
CacheIsSymmetric ==
    \A a, b \in Uids : b \in friendships[a] <=> a \in friendships[b]

\* The cached friends of a among b and the table: a cached friend is one in the
\* table, and a user who logged in since the restart has all friends of the
\* table.
Agrees(a, b) ==
    /\ b \in friendships[a] => AreFriends(a, b)
    /\ a \in loaded /\ AreFriends(a, b) => b \in friendships[a]

\* The cache agrees with the table on two users when no job touches them.
\* Pairs are excepted on which two requests overlapped, a statement failed, or
\* an answer met no open request (chat_server.cc:348-357, 381-386;
\* mysql_friend_repo.cc:31-43): what happens to other pairs must not matter.
CacheAgreesWithTable ==
    \A a, b \in Uids :
        <<a, b>> \notin disturbed /\ (\A s \in Slots : <<a, b>> \notin Touched(job[s])) =>
            Agrees(a, b)

\* The jobs at work on an undisturbed pair are one, or logins.
OneJobAPair ==
    \A r, s \in Slots : r # s => \A p \in Touched(job[r]) \cap Touched(job[s]) :
        p \notin disturbed => job[r].pc \in LoginPcs /\ job[s].pc \in LoginPcs

\* How far a job j has come with a and b: the table is ahead of the cache only
\* as the callback will make up for, and what a login has read is still so.
JobAgrees(j, a, b) ==
    LET befriends == j.pc = "reverse" \/ (j.pc = "answered" /\ j.accepted) IN
    /\ befriends => AreFriends(a, b) /\ j.accepted
    /\ j.pc = "removed" => ~AreFriends(a, b)
    /\ ~befriends /\ j.pc # "removed" => Agrees(a, b)
    /\ j.pc \in {"askers", "login"} =>
         /\ a = j.a => (b \in j.friends <=> AreFriends(a, b))
         /\ b = j.a => (a \in j.friends <=> AreFriends(a, b))

JobsAgree ==
    \A s \in Slots : \A a, b \in Uids :
        <<a, b>> \in Touched(job[s]) \ disturbed => JobAgrees(job[s], a, b)

\* The inductive invariant of friends.
FriendInv ==
    /\ TypeOK
    /\ CacheIsSymmetric
    /\ CacheAgreesWithTable
    /\ OneJobAPair
    /\ JobsAgree
=============================================================================
