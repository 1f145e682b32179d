# TLA+ models of the Muduo chat server

This directory holds TLA+ specifications of the chat server in `src/`, the TLC
configurations that check them on small instances, and proofs that TLAPS checks
for every size. `PROJECT.json` lists, for every definition, the source lines it
stands for, the runs, the seeded mistakes that each property must detect, the
hazards of the code and the theorems.

## 1. The system

A `ChatServer` (`src/src/chat_server.cc`) accepts TCP connections on several
muduo event loops (one thread each; `main.cc` asks for four). `ChatCodec` cuts
the byte stream into protobuf envelopes and calls the handler of each kind on
the loop of its connection. A handler checks the session, copies what it needs
and gives a job to a pool of worker threads. The job calls a service, the
service calls repositories on MySQL or Redis, and the job ends by posting a
callback to the loop of the connection. The callback changes the maps in memory
and sends replies; a reply for a connection of another loop is posted to that
loop. So there are three kinds of actors, event loops, workers and the outside
(clients, databases, restarts), and every request is a sequence
*handler - commands of the worker - callback* in which anything may come
between.

| Component | State | Operations | Interacts by |
|---|---|---|---|
| `SessionManager` | session in each connection, `users_` (uid to connection), friend caches | onConnection, onDisconnection, authenticate, deauthenticate, lookups, cache updates | called by handlers and callbacks on all loops, one mutex |
| Login and logout: `handleLogin`, `handleLogout`, `LoginService`, `RedisSessionRepo` | Redis: `session:<token>` with expiry, `online:<uid>`, `user_route` | login by password, login by token, logout | workers; callback authenticates |
| `MySQLPool` | queue of idle connections, count of active ones, waiters | init, getConnection (wait of a second, ping, reconnect), returnConnection | shared by all workers; `verifyUser` closes and retries |
| Rooms: `handleCreateRoom`, `handleJoinRoom`, `RoomService`, `MySQLRoomRepo`, `RoomManager` | tables `rooms`, `room_members`; `rooms_` in memory | create, join | workers write the tables, callbacks the memory |
| Messages: `handleChatMessage`, `handleRecall`, `ChatService`, `MySQLMessageRepo` | table `messages`; queues of the loops | send, recall | workers store, callbacks look receivers up and send across loops |
| Friends: three handlers, `FriendService`, `MySQLFriendRepo` | table `friendships`; caches in `SessionManager` | request, answer, remove, list | workers, callbacks |
| Registration: `handleRegister`, `registerUser` | table `users` | register | worker |
| `RedisPool` | one connection for each thread | getConnection, reconnect | workers |
| `RedisPubSub` | two connections, one thread, callbacks | publish, subscribe, start, stop | started by main; the server publishes and subscribes nothing |
| Framing: `ChatCodec`, and the same code in the client | input buffer of a connection | onMessage, sendServerMessage | event loops of server and client |
| Thread pool | bounded queue of 10000 jobs | run | event loops and callbacks |
| `TlvCodec`, `RedisCache`, `thread_pool.h`, `MySQLSessionRepo` | - | - | not used by the server |
| Client (`client/chat_client.cc`) | `conn_`, `loggedIn_`, envelopes posted to its loop | the menus, onConnection, onMessage | console thread and event loop; the server over TCP |
| Benchmark, feature tests, schema | - | - | outside |

What is hard here: a result that is applied to a connection, or to a map, that
has changed since the request; two requests between a SELECT and an INSERT; the
close of a connection that is handled late; Redis or MySQL failing between two
commands whose results are not looked at; a restart with requests in progress;
a message and its recall on different loops; a queue that is full; frames that
come in pieces; answers that reach a client after its user has gone on.
`PROJECT.json` lists these under
"hazards", each at its line.

What makes each part correct:

* sessions: a user who is logged in is found in `users_`, and what is found is
  an open connection of that user;
* login: a token names the user it was made for, and nobody after a logout;
  every request comes to its end;
* pool: a connection has one user at a time, the pool does not grow, no thread
  sleeps while a connection is idle, no wait is endless;
* rooms: one creator, and messages go to members only, and to all of them;
* messages: the numbers of a room have no gap and follow causality, and a
  recall does not overtake a message that somebody was sent before it;
* friends: the cached lists are symmetric and agree with the table;
* registration: one registration of a uid succeeds, and its password is stored;
* workers: a full queue stops nobody for ever, and every request has its
  answer or, for a message to a room, its callback has run;
* Redis connections: a thread gets over a restart of Redis;
* framing: the messages come out as they went in, in order, whole and once;
* client: while it is connected, what it shows agrees with the server, and it
  ends when the user leaves.

## 2. The modules

| Module | Models | Extended by |
|---|---|---|
| `SessionManager` | `session_manager.cc` | `ChatLogin`, `ChatMessages` |
| `ChatLogin` | login and logout end to end | `ChatLoginProofs`, `MCChatLogin` |
| `MySQLPool` | `db.cc` and the retry of `verifyUser` | `MySQLPoolProofs`, `MCMySQLPool` |
| `ChatRooms` | creation and joining of rooms | `ChatRoomsProofs`, `MCChatRooms` |
| `ChatMessages` | sending and recalling, across loops | `ChatMessagesProofs`, `MCChatMessages` |
| `ChatFriends` | requests, answers, removals and the lists of a login | `ChatFriendsProofs`, `MCChatFriends` |
| `RedisPool` | `redis_pool.cc` | `Workers` |
| `Workers` | loops, the bounded queue and the workers; registration | `WorkersProofs` |
| `FrameChannel` | what the framing promises (abstract) | implemented by `Framing` |
| `Framing` | `codec.cc`, and the framing in the client | `FramingProofs`, `MCFraming` |
| `ChatClient` | the client and its connection | `ChatClientProofs` |

**SessionManager.** `tcp` is what muduo knows of a connection: not yet accepted,
up, shut down by the server (it still reads), down. `context` is the `Session`
in the connection, `users` is `users_`. Each action is one critical section of
the class on one loop. `OnDisconnection` erases the entry of the uid whichever
connection it names and keeps the context, as the code does; `Authenticate` may
run on a closed connection, because callbacks hold a `shared_ptr`. `rival` and
`irregular` are history variables: the first remembers that a session met
another one of the same user, the second that a connection logged in after its
close or over another user's session. The properties need them because the code
promises nothing in those cases.

**ChatLogin** is `SessionManager` with the rest of the flow. A request is a job
in a slot with a program counter; each Redis command is a step, so two jobs
interleave at every command. `session`, `online` and `route` are the keys in
Redis. `RedisFault` ends a repository call where it stands, because hiredis
keeps a connection in error until the next `getConnection` and the repository
ignores results; a command that was executed and whose answer was lost is the
same as a failure of the next one. Passwords, nicknames and the lists read at
login are abstracted to success or failure.

**MySQLPool.** `idle`, `activeConns` are the members of the class, `held` what
each thread has in its hands, `woken` the waiters that `notify_one` chose and
that have not run yet. `init` may stop early and main ignores that, so the
initial states have any number of connections up to the size.

**ChatRooms.** `creator` and `members` are the tables, `known` and `roster` the
map in `RoomManager`. A lost answer is a statement that was executed and read as
failed. `early` remembers joins that `RoomManager` refused.

**ChatMessages.** `messages` is the table, in the order of `msg_id`. A callback
keeps its loop busy (`Free`) and sends to one receiver at a time; `functors` is
the queue of each loop and `wire` what was sent on each connection. The set of
members is read through a reference without the lock, so a member who joins
meanwhile may be seen or not. Logins, closes and rooms are the environment.
Contents are left out; time is a choice (the window of two minutes is over or
not). A recall names any id, as in the code: ids are consecutive and the console
client lets its user type one. Whether the message had been sent to somebody when
its recall was requested is a history in the `kind` of the request ("recall" or
"guess"); no action looks at it.

**ChatFriends.** `status` is the table `friendships`, one row for each ordered
pair; `friendships` and `pending` are the caches in `SessionManager`. Requests
and answers name any two users, as in the code; each SQL statement is a step,
and the callback changes the caches whatever the statements did. What a login
does is the part of it that concerns friends: its two SELECTs and its callback.
A cache that is written after the table, by a callback that may run on any loop,
cannot agree with the table always; `disturbed` is a history variable of the
pairs on which two requests overlapped, a statement failed, or an answer met no
open request, and `CacheAgreesWithTable` is about all other pairs. All three
exceptions are real. A removal whose callback runs after that of a later answer
takes away a new friendship. A failed statement is told to nobody. And an answer
that accepts while only the other direction is asked changes no row and befriends
the two in the cache. `pending_friend_requests_` is only written:
`hasPendingRequest` has no caller.

**RedisPool.** `tls` is the pair `tls_conn_`, `tls_initialized_` of each thread.
A connection whose server went away is "broken" until a command finds out, then
"err" until the next `getConnection` makes it anew. If that fails the connection
is "null", which `getConnection` never tries again (`redis_pool.cc:26`): a worker
that asks for a connection while Redis is down has lost its sessions for good.
`failures` is a history variable of the calls that failed since Redis last
changed.

**Workers** is `RedisPool` with what calls it. A loop is either free or in
`run()` with a job (`calling`); `queue` is that of the pool, `running` the job of
each worker, `functors` the callbacks of each loop. A registration is its two SQL
statements; `users` has the request whose data a row holds, so that a stolen row
would show. Logins and logouts are their calls to Redis, one step to get the
connection and one for the commands, because the connection may break between
them; what they do to the keys is in `ChatLogin`. A message is one step of a
worker, and its callback may start a second job for a user who is not there
(`chat_server.cc:248`), which is what could make loops and workers wait for each
other. A message for a room comes back to its sender only as to any other member,
and one for nobody not at all (`chat_server.cc:252-267`): kind "room" stands for
both, its callback may answer or not, and `silent` is a history of those that did
not. `muduo::ThreadPool` is modelled from its use.

**FrameChannel and Framing.** `FrameChannel` is the promise: the messages that
one end sends are handled in order, each once, up to the first one whose length
is not admitted. `Framing` is how it is kept. The header is four digits in
two's complement, so a length may be negative or too large. The bytes of the
stream are kept and named by position: what was retrieved, what is in the buffer
and what is under way are three parts of it. `Receive` adds any number of bytes;
each turn of the loop of `onMessage` is a step. The refinement mapping is the
identity on what was sent and takes the bodies from what was handled. The sender
checks no limit, so that both ends may break the connection by a long message;
the channel says so too.

**ChatClient.** The console thread, the loop and the server with its workers are
the actors; envelopes wait in `posted` (the loop), then in `toServer`, answers in
`toClient`. The menu depends on `loggedIn_` when it is shown, not when the choice
is made. The console thread reads the `shared_ptr` `conn_` without a lock while
it waits for the connection; the model lets it go on, wait on or end the process
when the loop resets it at that moment. A close takes away the answers under way
and some of what was sent to the server, and nothing on the server: it may still
read the rest, and the callback of a login that is with a worker authenticates
the closed connection. Its answers are lost (`Reply`).

## 3. The runs

The runs that must pass:

| Run | Instance | Checks |
|---|---|---|
| `login` | 2 users, connections, tokens; 2 requests at once of 3; one Redis failure, one restart | `LoginInv`, `SMInv`, `SequentialLoginReachable`, `TokenNamesItsOwner`, `RevokedStaysRevoked`, `RegisteredIsOpen`, refinement `SMSpec` |
| `login_live` | 1 user, 2 connections, 2 requests at once of 3, with fairness | `RequestsEnd`, `LogoutRevokes` |
| `pool` | 4 threads, 2 connections, 3 `MYSQL` objects, with fairness | `PoolInv`, `ConnectionsAreExclusive`, `PoolAccounts`, `NoLostWakeup`, `WaitEnds` |
| `rooms` | 3 users, 1 room, 3 requests at once, one failure, one restart | `RoomInv`, `RosterIsBacked`, `CreatorIsUnique`, `MembersAreInRoster` |
| `messages` | 3 messages at once in one room, one failure, one restart | `SeqInv`, `SeqHasNoGaps`, `SeqFollowsCausality` |
| `recall` | 2 connections on 2 loops, a message and a recall of any id | `RecallInv`, `RecallFollowsMessage` |
| `friends` | 2 users, 2 requests at once of 4, one failure, one restart | `FriendInv`, `CacheIsSymmetric`, `CacheAgreesWithTable` |
| `framing` | bits for bytes, bodies of 0 to 3 bits with a limit of 2, lengths -1 and 7, 3 frames | `FrameInv`, `RestIsShort`, refinement `ChannelSpec` (with its fairness) |
| `client` | 4 choices, with fairness | `ClientInv`, `ShownOnlyAfterLogin`, `AgreeUntilLogout`, `ComesToRest`, `ExitEnds` |
| `workers` | 2 workers, 1 loop, a queue of 1, 3 requests, 1 failed statement, 2 changes of Redis, with fairness | `WorkersInv`, `RegisteredAsAnswered`, `RefusedIsTaken`, `RecoversAfterOneFailure`, `NoneIsForgotten`, `ComesToRest` |

The runs that show where the code does not do what `DESIGN.md` says:

| Run | What TLC finds |
|---|---|
| `newest_login` | The close of an old connection is handled after the user logged in on a new one; the user is erased from `users_` and gets no messages |
| `receiver` | A connection logs in as a second user; messages for the first one are sent to the second |

Other disagreements met while modelling, which the properties step around:

* `addOfflineMessage` has no caller, so a message for a user who is not online
  is kept in `messages` and never delivered (`DESIGN.md:181`);
* `loginWithToken` does not restore `online:<uid>` and `user_route`
  (`DESIGN.md:264`), and its `HMSET node_id` creates the key of a session that a
  logout deleted meanwhile, without expiry (`DESIGN.md:234` says seven days); the
  key has no uid, so the token stays revoked (`RevokedStaysRevoked`);
* a login that is answered after the close of its connection leaves the closed
  connection in `users_` (`DESIGN.md:463`), which is why `RegisteredIsOpen`
  excepts it, and why `AgreeUntilLogout` speaks of a connection that is up: after
  the close the server may have a user logged in whose client has not;
* a second login on one connection leaves the entry of the first user in
  `users_`, also after the close; the run `receiver` shows it and
  `RegisteredIsOpen` excepts it;
* a logout deletes `online:<uid>` and `user_route` of its uid even if the user
  has logged in anew meanwhile (`chat_server.cc:167`). The server uses no value of
  these keys, and no property looks at them;
* a recall of an id that nobody was sent yet may overtake its message: the row is
  there before the callback of the message is queued (`chat_server.cc:212-215`),
  and a worker may read and update it in between. `RecallFollowsMessage` is about
  recalls that were requested after somebody had been sent the message, which is
  what a client that shows the id gives; the model has the others too;
* a message for a room is not confirmed to a sender who is not in the roster, nor
  is a message that names neither a user nor a room (`chat_server.cc:252-267`).
  `NoneIsForgotten` therefore asks of such a message that it was answered or that
  it was stored and its callback ran;
* a join that is called back before the creation of its room is in MySQL and not
  in `RoomManager`, and gets no message of the room (`DESIGN.md:200`), which is
  why `MembersAreInRoster` excepts it;
* two messages that are stored at once in a room may get one `seq`
  (`DESIGN.md:120`): numbers have no gaps, but are not unique, and neither
  `SeqHasNoGaps` nor `SeqFollowsCausality` asks that they be;
* the server answers a logout with a `login_resp` whose `ok` is true
  (`chat_server.cc:174`), which the client takes for a login: it prints "已登出"
  and then shows the main menu again (`chat_client.cc:206`, 469). This is why
  `AgreeUntilLogout` stops at the first logout. The client never sets
  `currentUid_`, and its logout names no uid and no token, so it revokes nothing
  in Redis;
* a client whose connection comes and goes between two looks of the console
  thread waits for ever (`chat_client.cc:316`);
* a worker whose reconnection to Redis failed never tries again
  (`redis_pool.cc:26`), which is why `RecoversAfterOneFailure` excepts it.

**Bounds.** Every hazard above is a race between two requests, or between a
request and a close, so two slots and two connections show it; three slots are
used where a third actor could matter (a creation against two joins, three
numbers so that a gap is possible). Four requests on friends are enough for
two crossed requests, an answer and a login. Four threads on two connections is
the least in which two connections are returned to two waiters. A queue of one job is
full as soon as two requests wait, and with one loop every request and every
callback meets it; two workers race between the SELECT and the INSERT, and a
third request comes after both; two changes take Redis away and bring it back.
Frames of up to three bits around a limit of two are admitted, at the limit and
beyond it, and three of them leave parts of two in the buffer. Four choices are
two overlapping logins, a request and a logout. One failure and one
restart are enough to cut any sequence of commands at any place; the proofs have
no such bounds. Runs end when the bounds on requests are used up, so most of
them do not check for deadlock; in `pool`, `rooms`, `client` and `workers`
nothing is bounded that could stop the system, and deadlock is checked.

**Symmetry** is used in the runs without temporal properties that could be
affected by it (never in a run with fairness).

**Fairness.** `ChatLogin`: a worker that has a job goes on, and a loop runs what
was posted to it; clients owe nothing. The code justifies it because workers
block only in calls of Redis and MySQL, and loops never block in these handlers.
There are no more slots than workers, and the model assumes that Redis answers
or fails. `MySQLPool`: a thread in the pool or in a query goes on (connects,
reads and writes have timeouts of three seconds, `db.cc:48-51`), and the second
of a wait passes even if the waiter is woken in vain again and again.
`Framing`: TCP delivers while the connection lasts, and the loop runs.
`ChatClient`: the threads run, the network delivers or the connection is lost,
the workers of the server finish; the user may stop at any prompt. `Workers`:
loops and workers run. A loop that is blocked in `run()` is only weakly fair: that
is enough because requests are finitely many, so others cannot take the free
place for ever. The model assumes that the pool has a thread
(`WorkersAssumption`): with `hardware_concurrency()` equal to zero muduo would run
the jobs on the loops.

## 4. What is proved

All theorems hold for every value of the constants that the named assumptions
allow (`NullAssumption`, `NoneAssumption`, `LoginAssumption`, `PoolAssumption`,
`RoomAssumption`, `MessageAssumption`, `FriendAssumption`, `FramingAssumption`,
`ClientAssumption`, `WorkersAssumption`: null values are not members of their
sets, bounds are naturals, each connection has a loop, the set of threads is
finite, the pool has a size and the workers are at least one, the limit of a
frame fits its header). Every invariant that a run checks is a theorem; so is
the safety part of both refinements.

* `ChatLoginProofs`, first part: `SMInv` is inductive. `SequentialLoginReachable` is
  not inductive alone: one needs that an entry of `users_` names a session of
  that uid (`UsersNameSessions`), that two open sessions of one user have been
  recorded as rivals (`OverlapIsRecorded`), and that a session without a uid is
  not authenticated.
* `ChatLoginProofs`, second part: `LoginInv` is inductive. The core of `RevokedStaysRevoked`
  is `FreshTokenIsPrivate`: a token that is about to be stored has been given to
  no client and is in no other request, so no logout can have revoked it, and
  the only other write to a session sets `node_id`, not the uid.
  `TokenNamesItsOwner` needs that each job carries a token with its own user.
  `LoginImplementsSessionManager` shows that every step is a step of
  `SessionManager` or leaves its state alone; the two session properties then
  carry over.
* `MySQLPoolProofs`: `PoolInv` is inductive. `NoLostWakeup` compares the length
  of the queue with the number of woken threads, so its proof counts: a thread
  that takes removes one of each, a return adds one of each unless all waiters
  are awake.
* `ChatFriendsProofs`: `FriendInv` is inductive. `CacheAgreesWithTable` speaks of
  pairs at rest; `JobsAgree` adds, for a pair at work, that the table is ahead of
  the cache only as the callback will make up for (after an accepting answer the
  two are friends in the table, after a removal they are not, otherwise cache and
  table agree) and that the list a login has read is still right. That needs
  `OneJobAPair`: only logins share an undisturbed pair. All worker steps follow
  from one lemma, `WorkerStep`, all callbacks from another, `CallbackStep`.
* `FramingProofs`: `FrameInv` is inductive: the stream is the frames sent so far,
  one after the other, and `retrieved` is the start of the first one that was not
  handled. Then `Decode` undoes `Encode` for every length of 32 bits
  (for every base), so a header is read as it was written. From it follow
  `RestIsShort` and that every step is a step of `FrameChannel` or a stutter
  (`FramingImplementsChannel`).
* `ChatClientProofs`: `ClientInv` is inductive. "Logged in only after a login"
  needs to know of everything on its way: before the first login no logout is
  posted or sent, because only the main menu offers it, and no answer reads as a
  success (`NothingBeforeLogin`). `AgreeUntilLogout` speaks of a client and a
  server at rest; `AgreementUnderWay` says the same of every state before the
  first logout and of the close: the server has the user logged in exactly when the
  client does or a success is on its way to it. That no logout is under way before
  the first one holds after the close too, because the server goes on reading.
* `WorkersProofs`: `WorkersInv` is inductive. `RegisteredAsAnswered` needs the
  same of the callbacks that no loop has run yet (`CallbacksOwn`), and that rows
  are only added where there are none; `RecoversAfterOneFailure` needs that a
  command is given on a connection its thread has just asked for
  (`CallsAreConnected`) and that a connection without a known error has not
  failed (`FreshHasNotFailed`). `NoneIsForgotten` speaks of a server at rest;
  `EachIsOnItsWay` says where each request is until then: answered, with a loop
  that waits in `run()`, in the queue, on a worker or among the functors, or a
  message for a room or for nobody that was stored and whose callback sent its
  client nothing. The
  second job of a message (`peek`) does not count, since it answers nobody.
* `ChatRoomsProofs`: `RoomInv` is inductive. `JobsAreBacked` ties the requests to
  the tables, so that a callback adds to the roster only whom MySQL has, and a
  creation that goes on has its own row. `MembersAreInRoster` speaks of a server
  at rest; `MembersCome` says that a member who is in neither roster nor `early`
  is about to come by a callback, and `UnknownIsEmpty` that the callback of a
  creation, which starts the roster anew, loses nobody.
* `ChatMessagesProofs` has two inductive invariants over a common part, `MsgInv`
  (types, a uid in every session, and that each job is about a row that is there).
  `SeqInv`: between its SELECT and its INSERT a job carries a number whose
  predecessor is in the room (`SeqContinues`), and rows are never deleted, so it
  still is when the row is stored, whoever inserted meanwhile. For causality
  the highest number of the room at the time of the request is still there when
  the job reads the maximum. `RecallInv`: before the callback of a message it
  was sent to nobody and every recall of it is a guess (`UnsentIsUnknown`, from
  `ItemsAreStored`, `RecallsAreStored` and the fresh `msg_id`); while the callback
  runs, its loop reads no request of its connection, so that connection has no
  recall of it but guesses (`SendingComesFirst`); each message has one callback (`OneJobAMessage`). Then a
  message that is written or posted follows no recall of it but guesses. A direct write
  cannot overtake a functor, because what is posted to a loop was requested on a
  connection of another one (`FunctorsInOrder`), and functors run in order. Each
  action has one lemma that says what it does to the jobs, the rows and what was
  sent (`InsertMessageStep`, `SendNextStep`, ...); both inductions use it.

Only model-checked: the liveness properties (`RequestsEnd`, `LogoutRevokes`,
`WaitEnds`, both `ComesToRest`, `ExitEnds`) and the fairness of `ChannelSpec`,
which are outside the prover's reach; and the two violations, which are
counterexamples.

## 5. What is not modelled, and the plan

Not modelled:

* `RedisPubSub`: nothing publishes or subscribes, and `stop()` comes after a loop
  that never quits; its thread blocks or spins and touches no other state;
* `TlvCodec`, `RedisCache`, `thread_pool.h`, `MySQLSessionRepo`: nothing uses them;
* `leaveRoom` and `removeRoomMember`, `addOfflineMessage` and what would deliver
  it: no caller, so the state they would change does not change;
* the undefined behaviour of iterating a `std::set` while another loop changes it
  (`chat_server.cc:253`, `session_manager.cc:110`) beyond stale elements;
* the benchmark, the feature tests, the schema files; logging and the wording of
  replies.

Next: facts about pairs of states that the invariants imply and no run states
yet, as action properties (a row of `messages` is never taken back, what was sent
on a connection is only added to, a roster only loses members in a restart).
