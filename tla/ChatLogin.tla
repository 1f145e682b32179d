------------------------------ MODULE ChatLogin ------------------------------
(***************************************************************************)
(* Login and logout across the threads of the server: handleLogin and       *)
(* handleLogout (src/src/chat_server.cc) on the event loop of a connection, *)
(* LoginService (src/src/service/login_service.cc) and RedisSessionRepo     *)
(* (src/src/repository/redis_session_repo.cc) on a worker of the thread     *)
(* pool, and the callback that the worker posts back to the event loop.     *)
(*                                                                          *)
(* A request in progress is a job in a slot.  Its pc names the next         *)
(* command; every Redis command is one step, and steps of different jobs    *)
(* interleave.  There are no more slots than worker threads, so every job   *)
(* that was accepted may run.                                               *)
(***************************************************************************)
EXTENDS SessionManager, Naturals

CONSTANTS
    Slots,          \* requests that may be in progress at one time
    MaxRequests,    \* bound on the requests that are accepted
    MaxFaults,      \* bound on the failures of Redis
    MaxRestarts     \* bound on the restarts of the server

ASSUME LoginAssumption ==
    MaxRequests \in Nat /\ MaxFaults \in Nat /\ MaxRestarts \in Nat

VARIABLES
    session,        \* Redis: the hash session:<token>
    online,         \* Redis: the key online:<uid>
    route,          \* Redis: the field <uid> of user_route
    job,            \* requests in progress
    owner,          \* history: the uid for which a token was generated
    granted,        \* history: tokens that a login reply gave to a client
    revoked,        \* history: tokens whose session was deleted by a logout
    requests,       \* requests accepted so far
    faults,         \* failures of Redis so far
    restarts        \* restarts so far

redis == <<session, online, route>>
history == <<owner, granted, revoked>>
bounds == <<requests, faults, restarts>>
loginVars == <<redis, job, history, bounds>>

vars == <<smVars, loginVars>>

\* Every write to a session hash sets node_id, so the key exists iff node is
\* TRUE; ttl tells whether Redis will expire it.
NoHash == [uid |-> NoUid, node |-> FALSE, ttl |-> FALSE]

Hash == [uid : Uids \cup {NoUid}, node : BOOLEAN, ttl : BOOLEAN]

Idle == [pc |-> "idle", conn |-> NoConn, uid |-> NoUid, token |-> NoToken,
         ok |-> FALSE]

LoginPcs == {"verify", "hmset", "expire", "online", "route",   \* password
             "hmget", "setnode",                               \* token
             "reply"}                                          \* callback

LogoutPcs == {"del", "offline", "unroute"}

Job == [pc : LoginPcs \cup LogoutPcs \cup {"idle"},
        conn : Conns \cup {NoConn}, uid : Uids \cup {NoUid},
        token : Tokens \cup {NoToken}, ok : BOOLEAN]

\* The one type invariant of this component.
TypeOK ==
    /\ SMTypeOK
    /\ session \in [Tokens -> Hash]
    /\ online \in [Uids -> BOOLEAN]
    /\ route \in [Uids -> BOOLEAN]
    /\ job \in [Slots -> Job]
    /\ owner \in [Tokens -> Uids \cup {NoUid}]
    /\ granted \in SUBSET Tokens
    /\ revoked \in SUBSET Tokens
    /\ requests \in 0..MaxRequests
    /\ faults \in 0..MaxFaults
    /\ restarts \in 0..MaxRestarts

Init ==
    /\ SMInit
    /\ session = [t \in Tokens |-> NoHash]
    /\ online = [u \in Uids |-> FALSE]
    /\ route = [u \in Uids |-> FALSE]
    /\ job = [s \in Slots |-> Idle]
    /\ owner = [t \in Tokens |-> NoUid]
    /\ granted = {}
    /\ revoked = {}
    /\ requests = 0
    /\ faults = 0
    /\ restarts = 0

-----------------------------------------------------------------------------
(***************************************************************************)
(* Connections and handlers, on the event loops                             *)
(***************************************************************************)

Connection(c) ==
    /\ OnConnection(c) \/ Shutdown(c) \/ OnDisconnection(c)
    /\ UNCHANGED loginVars

Run(s, j) ==
    /\ job[s].pc = "idle"
    /\ job' = [job EXCEPT ![s] = j]
    /\ requests < MaxRequests
    /\ requests' = requests + 1

\* generateToken never repeats a token; the model has enough of them for the
\* password logins that are already in progress (the bound of this model).
Fresh == {t \in Tokens : owner[t] = NoUid}

HandleLoginPassword(s, c, u) ==
    /\ Reading(c)
    /\ Cardinality({r \in Slots : job[r].pc = "verify"}) < Cardinality(Fresh)
    /\ Run(s, [Idle EXCEPT !.pc = "verify", !.conn = c, !.uid = u])
    /\ UNCHANGED <<smVars, redis, history, faults, restarts>>

\* A token that no reply ever carried is answered like an expired one.
HandleLoginToken(s, c, t) ==
    /\ Reading(c)
    /\ Run(s, [Idle EXCEPT !.pc = "hmget", !.conn = c, !.token = t])
    /\ UNCHANGED <<smVars, redis, history, faults, restarts>>

\* The uid and the token are those of the request, which may leave either of
\* them empty; the session of the connection is closed at once, whatever they
\* are and whatever the worker will do.
HandleLogout(s, c, u, t) ==
    /\ Run(s, [Idle EXCEPT !.pc = "del", !.uid = u, !.token = t])
    /\ Deauthenticate(c)
    /\ UNCHANGED <<redis, history, faults, restarts>>

-----------------------------------------------------------------------------
(***************************************************************************)
(* The worker                                                               *)
(***************************************************************************)

Goto(s, pc) == job' = [job EXCEPT ![s].pc = pc]

Reply(s, ok) == job' = [job EXCEPT ![s].pc = "reply", ![s].ok = ok]

\* Mutant: generateToken repeats a token that it gave before.
VerifyReusesToken(s) ==
    /\ job[s].pc = "verify"
    /\ \/ Reply(s, FALSE) /\ UNCHANGED owner
       \/ \E t \in Tokens :
            /\ job' = [job EXCEPT ![s].pc = "hmset", ![s].token = t]
            /\ owner' = [owner EXCEPT ![t] = job[s].uid]
    /\ UNCHANGED <<smVars, redis, granted, revoked, bounds>>

\* verifyUser and getUserInfo read MySQL: the password is wrong, or the
\* database fails, or both are right and a token is generated.
Verify(s) ==
    /\ job[s].pc = "verify"
    /\ \/ Reply(s, FALSE) /\ UNCHANGED owner
       \/ \E t \in Fresh :
            /\ job' = [job EXCEPT ![s].pc = "hmset", ![s].token = t]
            /\ owner' = [owner EXCEPT ![t] = job[s].uid]
    /\ UNCHANGED <<smVars, redis, granted, revoked, bounds>>

\* createSession: HMSET uid, node_id and login_time
SetSession(s) ==
    /\ job[s].pc = "hmset"
    /\ session' = [session EXCEPT ![job[s].token] =
                     [@ EXCEPT !.uid = job[s].uid, !.node = TRUE]]
    /\ Goto(s, "expire")
    /\ UNCHANGED <<smVars, online, route, history, bounds>>

\* createSession: EXPIRE
ExpireSession(s) ==
    /\ job[s].pc = "expire"
    /\ session' = [session EXCEPT ![job[s].token].ttl = session[job[s].token].node]
    /\ Goto(s, "online")
    /\ UNCHANGED <<smVars, online, route, history, bounds>>

\* createSession: SET online:<uid>
SetOnline(s) ==
    /\ job[s].pc = "online"
    /\ online' = [online EXCEPT ![job[s].uid] = TRUE]
    /\ Goto(s, "route")
    /\ UNCHANGED <<smVars, session, route, history, bounds>>

\* createSession: HSET user_route.  The reads of MySQL that complete the
\* result of the login (friends, requests, offline messages) change nothing.
SetRoute(s) ==
    /\ job[s].pc = "route"
    /\ route' = [route EXCEPT ![job[s].uid] = TRUE]
    /\ Reply(s, TRUE)
    /\ UNCHANGED <<smVars, session, online, history, bounds>>

\* Mutant: loginWithToken returns early, with no callback, when it finds no
\* session.
GetSessionNoCallback(s) ==
    /\ job[s].pc = "hmget"
    /\ LET u == session[job[s].token].uid IN
       /\ u # NoUid
       /\ job' = [job EXCEPT ![s].pc = "setnode", ![s].uid = u]
    /\ UNCHANGED <<smVars, redis, history, bounds>>

\* getSessionByToken: HMGET uid node_id; a hash without a uid is no session.
GetSession(s) ==
    /\ job[s].pc = "hmget"
    /\ LET u == session[job[s].token].uid IN
       IF u = NoUid THEN Reply(s, FALSE)
       ELSE job' = [job EXCEPT ![s].pc = "setnode", ![s].uid = u]
    /\ UNCHANGED <<smVars, redis, history, bounds>>

\* Mutant: updateSessionNode writes the uid it read, with the node.
UpdateSessionNodeAndUid(s) ==
    /\ job[s].pc = "setnode"
    /\ session' = [session EXCEPT ![job[s].token] =
                     [@ EXCEPT !.uid = job[s].uid, !.node = TRUE]]
    /\ \E ok \in BOOLEAN : Reply(s, ok)
    /\ UNCHANGED <<smVars, online, route, history, bounds>>

\* updateSessionNode: HMSET node_id alone, which creates the hash again, with
\* no uid and no expiry, if a logout deleted it meanwhile.  Then getUserInfo
\* reads MySQL, and may fail.
UpdateSessionNode(s) ==
    /\ job[s].pc = "setnode"
    /\ session' = [session EXCEPT ![job[s].token].node = TRUE]
    /\ \E ok \in BOOLEAN : Reply(s, ok)
    /\ UNCHANGED <<smVars, online, route, history, bounds>>

\* Mutant: the logout closes the presence keys and forgets the session.
RevokeSessionSkipped(s) ==
    /\ job[s].pc = "del"
    /\ Goto(s, "offline")
    /\ UNCHANGED <<smVars, redis, history, bounds>>

\* revokeSession: DEL session:<token>
RevokeSession(s) ==
    /\ job[s].pc = "del"
    /\ session' = [t \in Tokens |-> IF t = job[s].token THEN NoHash ELSE session[t]]
    /\ revoked' = revoked \cup ({job[s].token} \cap Tokens)
    /\ Goto(s, "offline")
    /\ UNCHANGED <<smVars, online, route, owner, granted, bounds>>

\* revokeAllSessions: DEL online:<uid>
DelOnline(s) ==
    /\ job[s].pc = "offline"
    /\ online' = [u \in Uids |-> u # job[s].uid /\ online[u]]
    /\ Goto(s, "unroute")
    /\ UNCHANGED <<smVars, session, route, history, bounds>>

\* revokeAllSessions: HDEL user_route.  A logout has no callback.
DelRoute(s) ==
    /\ job[s].pc = "unroute"
    /\ route' = [u \in Uids |-> u # job[s].uid /\ route[u]]
    /\ job' = [job EXCEPT ![s] = Idle]
    /\ UNCHANGED <<smVars, session, online, history, bounds>>

\* A command of Redis fails.  The connection stays in error until the next
\* getConnection, so the rest of the repository call is lost with it; no
\* result of a command is looked at.  Where the connection cannot be made at
\* all, createSession fails, and so does every later call of that worker,
\* which is a sequence of these steps.
RedisFault(s) ==
    /\ faults < MaxFaults
    /\ faults' = faults + 1
    /\ LET pc == job[s].pc IN
       \/ pc \in {"hmset", "expire", "online", "route"} /\ Reply(s, TRUE)
       \/ pc \in {"hmset", "hmget"} /\ Reply(s, FALSE)
       \/ pc = "setnode" /\ \E ok \in BOOLEAN : Reply(s, ok)
       \/ pc = "del" /\ Goto(s, "offline")
       \/ pc \in {"offline", "unroute"} /\ job' = [job EXCEPT ![s] = Idle]
    /\ UNCHANGED <<smVars, redis, history, requests, restarts>>

-----------------------------------------------------------------------------
(***************************************************************************)
(* The callback, on the event loop of the connection                        *)
(***************************************************************************)

\* Mutant: the callback sets the context of the connection and leaves users_
\* to the first message.
LoginCallbackContextOnly(s) ==
    /\ job[s].pc = "reply"
    /\ job' = [job EXCEPT ![s] = Idle]
    /\ LET j == job[s] IN
       IF j.ok
       THEN /\ context' = [context EXCEPT ![j.conn] =
                 [uid |-> j.uid, token |-> j.token, authenticated |-> TRUE]]
            /\ RecordLogin(j.conn, j.uid)
            /\ granted' = IF tcp[j.conn] = "up" THEN granted \cup {j.token}
                          ELSE granted
       ELSE UNCHANGED <<context, rival, irregular, granted>>
    /\ UNCHANGED <<tcp, users, redis, owner, revoked, bounds>>

\* The result is applied whatever became of the connection since the request;
\* the reply reaches the client only if the connection is still up.
\* What it also adds to the caches of friends is no part of this module.
LoginCallback(s) ==
    /\ job[s].pc = "reply"
    /\ job' = [job EXCEPT ![s] = Idle]
    /\ LET j == job[s] IN
       IF j.ok
       THEN /\ Authenticate(j.conn, j.uid, j.token)
            /\ granted' = IF tcp[j.conn] = "up" THEN granted \cup {j.token}
                          ELSE granted
       ELSE UNCHANGED <<smVars, granted>>
    /\ UNCHANGED <<redis, owner, revoked, bounds>>

-----------------------------------------------------------------------------
(***************************************************************************)
(* The environment                                                          *)
(***************************************************************************)

\* Redis drops a session at the end of its seven days.
SessionExpires(t) ==
    /\ session[t].ttl
    /\ session' = [session EXCEPT ![t] = NoHash]
    /\ UNCHANGED <<smVars, online, route, job, history, bounds>>

\* The server is restarted: Redis keeps its keys, the requests in progress
\* are lost.
RestartServer ==
    /\ restarts < MaxRestarts
    /\ restarts' = restarts + 1
    /\ Restart
    /\ job' = [s \in Slots |-> Idle]
    /\ UNCHANGED <<redis, history, requests, faults>>

Worker(s) ==
    \/ Verify(s) \/ SetSession(s) \/ ExpireSession(s) \/ SetOnline(s)
    \/ SetRoute(s) \/ GetSession(s) \/ UpdateSessionNode(s)
    \/ RevokeSession(s) \/ DelOnline(s) \/ DelRoute(s)

Request(s, c) ==
    \/ \E u \in Uids : HandleLoginPassword(s, c, u)
    \/ \E t \in granted : HandleLoginToken(s, c, t)
    \/ \E u \in {GetUid(c), NoUid}, t \in granted \cup {NoToken} :
         HandleLogout(s, c, u, t)

Next ==
    \/ \E c \in Conns : Connection(c) \/ \E s \in Slots : Request(s, c)
    \/ \E s \in Slots : Worker(s) \/ RedisFault(s) \/ LoginCallback(s)
    \/ \E t \in Tokens : SessionExpires(t)
    \/ RestartServer

Spec == Init /\ [][Next]_vars

\* A worker thread that has a job runs it, and an event loop runs what was
\* posted to it; nothing says that a client sends or closes.
Fairness == \A s \in Slots : WF_vars(Worker(s)) /\ WF_vars(LoginCallback(s))

FairSpec == Spec /\ Fairness
-----------------------------------------------------------------------------
(***************************************************************************)
(* Properties                                                               *)
(***************************************************************************)

\* Once a logout deleted a session, its token never names a user again: not
\* even when a login with that token read the session before the DEL and
\* writes node_id after it (login_service.cc:52-60, redis_session_repo.cc:103),
\* and not through a session that another login is creating.
RevokedStaysRevoked == \A t \in revoked : session[t].uid = NoUid

\* A session, in Redis or on a connection, belongs to the user for whom its
\* token was generated, however the logins of two users interleave
\* (login_service.cc:31-41 and 59-71, chat_server.cc:99 and 137).
TokenNamesItsOwner ==
    /\ \A t \in Tokens : session[t].uid \in {NoUid, owner[t]}
    /\ \A c \in Conns : IsAuthenticated(c) =>
         context[c].token \in Tokens /\ owner[context[c].token] = GetUid(c)

\* Every request that was accepted is carried to its end: the callback of a
\* login runs, and a logout deletes its keys (chat_server.cc:93-121, 131-159,
\* 167-169), whatever the other requests do.
RequestsEnd == \A s \in Slots : job[s].pc # "idle" ~> job[s].pc = "idle"

\* A logout with a token makes it useless for good (login_service.cc:85), when
\* Redis does not fail and the server is not restarted.
LogoutRevokes ==
    \A t \in Tokens :
        (\E s \in Slots : job[s].pc = "del" /\ job[s].token = t)
            ~> [](session[t].uid = NoUid)

\* What RevokedStaysRevoked and TokenNamesItsOwner need to be inductive.
\* A token that is about to be stored is known to its own login alone.
FreshTokenIsPrivate ==
    \A s \in Slots : job[s].pc = "hmset" =>
        /\ job[s].token \in Tokens \ granted
        /\ \A r \in Slots \ {s} : job[r].token # job[s].token

KnownTokensWereGenerated ==
    /\ \A t \in granted \cup revoked : owner[t] # NoUid
    /\ revoked \subseteq granted
    /\ \A s \in Slots : job[s].token # NoToken => owner[job[s].token] # NoUid

StoredPcs == {"hmset", "expire", "online", "route", "setnode"}

JobsAreTyped ==
    \A s \in Slots :
        LET j == job[s] IN
        /\ j.pc \in LoginPcs => j.conn \in Conns /\ tcp[j.conn] # "none"
        /\ j.pc \in StoredPcs \/ (j.pc = "reply" /\ j.ok) =>
             j.token \in Tokens /\ j.uid \in Uids /\ owner[j.token] = j.uid
        /\ j.pc = "verify" => j.uid \in Uids /\ j.token = NoToken
        /\ j.pc = "hmget" => j.token \in granted
        /\ j.pc = "del" => j.token \in granted \cup {NoToken}

LoginInv ==
    /\ TypeOK
    /\ AuthenticatedHasUid
    /\ JobsAreTyped
    /\ KnownTokensWereGenerated
    /\ FreshTokenIsPrivate
    /\ TokenNamesItsOwner
    /\ RevokedStaysRevoked
=============================================================================
