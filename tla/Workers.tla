-------------------------------- MODULE Workers --------------------------------
(***************************************************************************)
(* The event loops, the thread pool between them and the services, and the  *)
(* way back (src/src/chat_server.cc): a handler puts a job into the queue   *)
(* of the pool, a worker runs it, and its callback is a functor of the loop *)
(* of the connection.                                                       *)
(*                                                                          *)
(* The queue is bounded: run() blocks the loop that calls it until there is *)
(* room, in a handler or in a callback.  The functors of a loop are not     *)
(* bounded.  The jobs: a registration, statement by statement; logins and   *)
(* logouts, with the calls to Redis of the worker's thread; a message, and  *)
(* the second job that its callback starts for a user who is not there.     *)
(***************************************************************************)
EXTENDS RedisPool, Sequences

CONSTANTS
    Loops,          \* event loops
    MaxQueue,       \* setMaxQueueSize
    Uids,
    None,           \* no job, and no uid in a job
    MaxRequests,    \* bound on the requests
    MaxFaults,      \* bound on the SQL statements that fail
    MaxChanges      \* bound on the changes of Redis

\* A pool without threads would run the jobs on the loops.
ASSUME WorkersAssumption ==
    /\ Threads # {}
    /\ MaxQueue \in Nat \ {0}
    /\ None \notin Uids
    /\ MaxRequests \in Nat /\ MaxFaults \in Nat /\ MaxChanges \in Nat

VARIABLES
    users,          \* table users: the request whose data a row has, or 0
    calling,        \* per loop: the job that it is in run() with
    queue,          \* queue_ of the pool
    running,        \* per worker: its job
    functors,       \* per loop: the callbacks it is to run
    answers,        \* history: the requests that were answered
    silent,         \* history: those whose callback sent the client nothing
    accepted,       \* requests so far
    faults,         \* statements that failed so far
    changes         \* changes of Redis so far

poolVars == <<calling, queue, running, functors>>
bounds == <<accepted, faults, changes>>

vars == <<rpVars, users, poolVars, answers, silent, bounds>>

\* A message is for a user, "chat", or for a room or nobody, "room".
Kinds == {"register", "login", "token", "logout", "chat", "room", "peek"}

Pcs == {"idle", "select", "insert",         \* registration
        "connect", "command",     \* sessions
        "store", "peek"}                    \* messages

\* calls: the calls to Redis that are left; ok: the result.
Record == [id : 1..MaxRequests, kind : Kinds, loop : Loops,
           uid : Uids \cup {None}, pc : Pcs, calls : 0..2, ok : BOOLEAN]

\* What stands for no job is none.
ASSUME NoneAssumption == None \notin Record

Job == {j \in Record : j.kind = "register" => j.pc \in {"idle", "select", "insert"}}

\* A job that no worker has taken
Waiting == {j \in Job : j.pc # "command"}

\* The uid is that of a registration; what else is answered with does not
\* matter here.
Answer == [id : 1..MaxRequests, uid : Uids \cup {None}, ok : BOOLEAN]

\* The one type invariant of this component.
TypeOK ==
    /\ RPTypeOK
    /\ users \in [Uids -> 0..MaxRequests]
    /\ calling \in [Loops -> Waiting \cup {None}]
    /\ queue \in Seq(Waiting)
    /\ running \in [Threads -> Job \cup {None}]
    /\ functors \in [Loops -> Seq(Job)]
    /\ answers \in SUBSET Answer
    /\ silent \in SUBSET Job
    /\ accepted \in 0..MaxRequests
    /\ faults \in 0..MaxFaults
    /\ changes \in 0..MaxChanges

Init ==
    /\ RPInit
    /\ users = [u \in Uids |-> 0]
    /\ calling = [l \in Loops |-> None]
    /\ queue = << >>
    /\ running = [t \in Threads |-> None]
    /\ functors = [l \in Loops |-> << >>]
    /\ answers = {}
    /\ silent = {}
    /\ accepted = 0
    /\ faults = 0
    /\ changes = 0

-----------------------------------------------------------------------------
(***************************************************************************)
(* The event loops.  A loop that is in run() does nothing else.             *)
(***************************************************************************)

\* The job of a request, as its handler makes it
NewJob(l, kind, u, pc, calls) ==
    [id |-> accepted + 1, kind |-> kind, loop |-> l, uid |-> u,
     pc |-> pc, calls |-> calls, ok |-> FALSE]

\* What is left of a job when it has ended
Done(j, ok) == [j EXCEPT !.pc = "idle", !.calls = 0, !.ok = ok]

AnswerTo(j) ==
    [id |-> j.id, uid |-> IF j.kind = "register" THEN j.uid ELSE None,
     ok |-> (j.kind = "register" => j.ok)]

\* ThreadPool::run: with room in the queue it returns at once; otherwise the
\* loop stays in it.
HasRoom == Len(queue) < MaxQueue

Run(l, j) ==
    IF HasRoom THEN queue' = Append(queue, j) /\ UNCHANGED calling
    ELSE calling' = [calling EXCEPT ![l] = j] /\ UNCHANGED queue

\* What the handler goes on to answer when run() has returned: a logout.
AfterRun(j) == IF j.kind = "logout" THEN answers \cup {AnswerTo(j)} ELSE answers

\* A handler that does not refuse its request
Handle(l, j) ==
    /\ calling[l] = None
    /\ accepted < MaxRequests
    /\ accepted' = accepted + 1
    /\ Run(l, j)
    /\ answers' = IF HasRoom THEN AfterRun(j) ELSE answers
    /\ UNCHANGED <<rpVars, users, running, functors, silent, faults, changes>>

HandleRegister(l, u) == Handle(l, NewJob(l, "register", u, "select", 0))

\* createSession is one call.
HandleLogin(l) == Handle(l, NewJob(l, "login", None, "connect", 1))

\* getSessionByToken and updateSessionNode are two.
HandleToken(l) == Handle(l, NewJob(l, "token", None, "connect", 2))

\* revokeSession and revokeAllSessions are two.
HandleLogout(l) == Handle(l, NewJob(l, "logout", None, "connect", 2))

HandleChatMessage(l) ==
    \E kind \in {"chat", "room"} : Handle(l, NewJob(l, kind, None, "store", 0))

\* run() has waited until there is room.
RunReturns(l) ==
    /\ calling[l] # None
    /\ HasRoom
    /\ queue' = Append(queue, calling[l])
    /\ calling' = [calling EXCEPT ![l] = None]
    /\ answers' = AfterRun(calling[l])
    /\ UNCHANGED <<rpVars, users, running, functors, silent, bounds>>

\* The loop runs the callback of a job.  It answers an error, and every job but
\* the message for a room or for nobody: that one comes back to its sender only
\* if the sender is a member of the room and online.  The callback of a message
\* to a user who is not there calls run() again.
RunCallback(l) ==
    /\ calling[l] = None
    /\ functors[l] # << >>
    /\ functors' = [functors EXCEPT ![l] = Tail(@)]
    /\ LET j == Head(functors[l]) IN
       \/ /\ answers' = answers \cup {AnswerTo(j)}
          /\ \/ UNCHANGED <<calling, queue>>
             \/ /\ j.kind = "chat" /\ j.ok
                /\ Run(l, [j EXCEPT !.kind = "peek", !.pc = "peek"])
          /\ UNCHANGED silent
       \/ /\ j.kind = "room" /\ j.ok
          /\ silent' = silent \cup {j}
          /\ UNCHANGED <<answers, calling, queue>>
    /\ UNCHANGED <<rpVars, users, running, bounds>>

-----------------------------------------------------------------------------
(***************************************************************************)
(* The workers                                                              *)
(***************************************************************************)

Take(t) ==
    /\ running[t] = None
    /\ queue # << >>
    /\ running' = [running EXCEPT ![t] = Head(queue)]
    /\ queue' = Tail(queue)
    /\ UNCHANGED <<rpVars, users, calling, functors, answers, silent, bounds>>

At(t, pc) == running[t] # None /\ running[t].pc = pc

\* The job goes on.
Goto(t, pc) ==
    /\ running' = [running EXCEPT ![t].pc = pc]
    /\ UNCHANGED functors

\* Mutant: a job that failed returns before it posts its callback.
FinishSilent(t, ok) ==
    LET j == running[t] IN
    /\ running' = [running EXCEPT ![t] = None]
    /\ functors' = IF j.kind \in {"logout", "peek"} \/ ~ok THEN functors
                   ELSE [functors EXCEPT ![j.loop] = Append(@, Done(j, ok))]

\* The job ends, and posts its callback if it has one.
Finish(t, ok) ==
    LET j == running[t] IN
    /\ running' = [running EXCEPT ![t] = None]
    /\ functors' = IF j.kind \in {"logout", "peek"} THEN functors
                   ELSE [functors EXCEPT ![j.loop] = Append(@, Done(j, ok))]

\* Mutant: any result counts as a row.
SelectAnyResult(t) ==
    /\ At(t, "select")
    /\ Finish(t, FALSE)
    /\ UNCHANGED <<rpVars, users, calling, queue, answers, silent, bounds>>

\* registerUser: SELECT uid FROM users WHERE uid = ...
SelectUser(t) ==
    /\ At(t, "select")
    /\ IF users[running[t].uid] = 0 THEN Goto(t, "insert") ELSE Finish(t, FALSE)
    /\ UNCHANGED <<rpVars, users, calling, queue, answers, silent, bounds>>

Inserted(j) == users' = [users EXCEPT ![j.uid] = j.id]

\* Mutant: REPLACE INTO users.
ReplaceUser(t) ==
    /\ At(t, "insert")
    /\ Inserted(running[t])
    /\ Finish(t, TRUE)
    /\ UNCHANGED <<rpVars, calling, queue, answers, silent, bounds>>

\* registerUser: INSERT INTO users, refused by the primary key
InsertUser(t) ==
    /\ At(t, "insert")
    /\ IF users[running[t].uid] = 0
       THEN Inserted(running[t]) /\ Finish(t, TRUE)
       ELSE UNCHANGED users /\ Finish(t, FALSE)
    /\ UNCHANGED <<rpVars, calling, queue, answers, silent, bounds>>

\* login: the password is wrong or the user has no row; otherwise the job goes
\* straight on to Redis.
VerifyFails(t) ==
    /\ At(t, "connect")
    /\ running[t].kind = "login"
    /\ Finish(t, FALSE)
    /\ UNCHANGED <<rpVars, users, calling, queue, answers, silent, bounds>>

\* A call asks for the connection of its thread.
Connect(t) ==
    /\ At(t, "connect")
    /\ GetConnection(t)
    /\ Goto(t, "command")
    /\ UNCHANGED <<users, calling, queue, answers, silent, bounds>>

\* Mutant: a call that fails is made again.
CallRedisAgain(t) ==
    /\ At(t, "command")
    /\ Command(t)
    /\ IF Replies(t) THEN Finish(t, TRUE) ELSE Goto(t, "connect")
    /\ UNCHANGED <<users, calling, queue, answers, silent, bounds>>

\* createSession fails only for want of a connection.  A token that is not
\* read is refused; the second call of a token and both calls of a logout
\* are not looked at.  A token may be unknown, and a user gone.
CallRedis(t) ==
    /\ At(t, "command")
    /\ Command(t)
    /\ LET j == running[t] IN
       \/ /\ j.calls = 2
          /\ j.kind = "logout" \/ Replies(t)
          /\ running' = [running EXCEPT ![t].pc = "connect", ![t].calls = 1]
          /\ UNCHANGED functors
       \/ j.calls = 2 /\ j.kind = "token" /\ Finish(t, FALSE)
       \/ j.calls = 1 /\ Finish(t, j.kind # "login" \/ tls[t] # "null")
       \/ j.calls = 1 /\ j.kind = "token" /\ Finish(t, FALSE)
    /\ UNCHANGED <<users, calling, queue, answers, silent, bounds>>

\* sendMessage, or the getMessage of the second job
StoreMessage(t) ==
    /\ At(t, "store") \/ At(t, "peek")
    /\ \E ok \in BOOLEAN : Finish(t, ok)
    /\ UNCHANGED <<rpVars, users, calling, queue, answers, silent, bounds>>

\* No connection to MySQL, a statement that fails, or one that is executed
\* and its answer is lost
Fault(t) ==
    /\ At(t, "select") \/ At(t, "insert")
    /\ faults < MaxFaults
    /\ faults' = faults + 1
    /\ \/ UNCHANGED users
       \/ /\ At(t, "insert") /\ users[running[t].uid] = 0
          /\ Inserted(running[t])
    /\ Finish(t, FALSE)
    /\ UNCHANGED <<rpVars, calling, queue, answers, silent, accepted, changes>>

Worker(t) ==
    \/ Take(t) \/ SelectUser(t) \/ InsertUser(t) \/ VerifyFails(t)
    \/ Connect(t) \/ CallRedis(t) \/ StoreMessage(t)

-----------------------------------------------------------------------------

Redis ==
    /\ changes < MaxChanges
    /\ changes' = changes + 1
    /\ RedisChanges
    /\ UNCHANGED <<users, poolVars, answers, silent, accepted, faults>>

\* Nothing to do: the loops poll and the workers wait.
Idle ==
    /\ \A l \in Loops : calling[l] = None /\ functors[l] = << >>
    /\ queue = << >>
    /\ \A t \in Threads : running[t] = None

Request(l) ==
    \/ \E u \in Uids : HandleRegister(l, u)
    \/ HandleLogin(l) \/ HandleToken(l) \/ HandleLogout(l) \/ HandleChatMessage(l)

Next ==
    \/ \E l \in Loops : Request(l) \/ RunReturns(l) \/ RunCallback(l)
    \/ \E t \in Threads : Worker(t) \/ Fault(t)
    \/ Redis
    \/ Idle /\ UNCHANGED vars

Spec == Init /\ [][Next]_vars

\* The threads run; clients, faults and Redis owe nothing.  A loop in run()
\* is woken when there is room: the requests are finitely many, so that the
\* others cannot take its place for ever.
Fairness ==
    /\ \A l \in Loops : WF_vars(RunReturns(l)) /\ WF_vars(RunCallback(l))
    /\ \A t \in Threads : WF_vars(Worker(t))

FairSpec == Spec /\ Fairness

-----------------------------------------------------------------------------
(***************************************************************************)
(* Properties                                                               *)
(***************************************************************************)

\* A registration that succeeded made the row of its uid.
Owns(a) == a.uid # None /\ a.ok => users[a.uid] = a.id

\* A registration that was refused found its uid taken.
IsTaken(a) == a.uid # None /\ ~a.ok => users[a.uid] # 0

\* Of all registrations of a uid at most one is answered with success, and
\* the password that is stored is that of its client, whatever interleaves
\* between the SELECT and the INSERT (mysql_user_repo.cc:17-36).
RegisteredAsAnswered == \A a \in answers : Owns(a)

\* While no statement fails, a registration is refused only when the uid is
\* taken (mysql_user_repo.cc:26).
RefusedIsTaken ==
    faults = 0 => \A a \in answers : IsTaken(a)

\* What the two need to be inductive: so is every callback on its way.
CallbacksOwn ==
    \A l \in Loops : \A i \in 1..Len(functors[l]) :
        LET a == AnswerTo(functors[l][i]) IN Owns(a) /\ (faults = 0 => IsTaken(a))

\* What RecoversAfterOneFailure needs of the workers: a call is made on a
\* connection that its thread has just asked for.
CallsAreConnected ==
    \A t \in Threads : At(t, "command") => tls[t] \notin {"new", "err"}

\* The request was answered.
IsAnswered(i) == \E a \in answers : a.id = i

\* Its callback ran and owed no answer: a message for a room or for nobody that
\* was stored.
OwedNothing(i) == \E j \in silent : j.id = i /\ j.kind = "room" /\ j.ok

\* What NoneIsForgotten needs to be inductive: a request has come to its end, or
\* its job is in run(), in the queue, with a worker or on its way back.  The job
\* of a logout is not waited for, and that of a peek comes after the answer.
JobsIn(s) == {s[k] : k \in 1..Len(s)}

HasCallback(j) == j # None /\ j.kind \notin {"logout", "peek"}

OnItsWay(i) ==
    \/ IsAnswered(i) \/ OwedNothing(i)
    \/ \E l \in Loops : calling[l] # None /\ calling[l].kind # "peek" /\ calling[l].id = i
    \/ \E j \in JobsIn(queue) : HasCallback(j) /\ j.id = i
    \/ \E t \in Threads : HasCallback(running[t]) /\ running[t].id = i
    \/ \E l \in Loops : \E j \in JobsIn(functors[l]) : j.id = i

EachIsOnItsWay == \A i \in 1..accepted : OnItsWay(i)

WorkersInv ==
    /\ TypeOK
    /\ RPInv
    /\ CallsAreConnected
    /\ CallbacksOwn
    /\ RegisteredAsAnswered
    /\ RefusedIsTaken
    /\ EachIsOnItsWay

\* No request is forgotten: when the loops and the workers have nothing left
\* to do, every registration, login and logout, every message to a user and
\* every request that failed has its answer, and the callback of every message
\* for a room or for nobody has run (chat_server.cc:191-201, 212-268).
NoneIsForgotten ==
    Idle => \A i \in 1..accepted : IsAnswered(i) \/ OwedNothing(i)

\* However full the queue is, the server comes to rest: a loop that run()
\* blocks, in a handler or in a callback, is freed, because no worker waits
\* for a loop (chat_server.cc:22, 191, 248).
ComesToRest == []<>Idle
=============================================================================
