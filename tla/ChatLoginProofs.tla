--------------------------- MODULE ChatLoginProofs ---------------------------
(* For any connections, users, tokens, slots and bounds: the invariants of   *)
(* SessionManager and of ChatLogin, and that ChatLogin implements            *)
(* SessionManager.                                                           *)
EXTENDS ChatLogin, TLAPS

(***************************************************************************)
(* SessionManager                                                           *)
(***************************************************************************)

\* The first state of the server satisfies the inductive invariant.
LEMMA SMInitInv == SMInit => SMInv
  BY NullAssumption
  DEF SMInit, SMInv, SMTypeOK, AuthenticatedHasUid, UnusedHasNoSession,
      UsersNameSessions, OverlapIsRecorded, SequentialLoginReachable,
      NoSession, Session, TcpStates, Reading, IsAuthenticated, GetUid

\* Every operation of the session manager preserves it.
LEMMA SMNextInv == SMInv /\ [SMNext]_smVars => SMInv'
  <1> SUFFICES ASSUME SMInv, [SMNext]_smVars PROVE SMInv'
    OBVIOUS
  <1> USE NullAssumption
  <1> USE DEF SMInv, Reading, IsAuthenticated, GetUid
  <1>1. ASSUME NEW c \in Conns, OnConnection(c) PROVE SMInv'
    BY <1>1 DEF OnConnection, SMTypeOK, AuthenticatedHasUid,
       UnusedHasNoSession, UsersNameSessions, OverlapIsRecorded,
       SequentialLoginReachable, TcpStates
  <1>2. ASSUME NEW c \in Conns, Shutdown(c) PROVE SMInv'
    BY <1>2 DEF Shutdown, SMTypeOK, AuthenticatedHasUid,
       UnusedHasNoSession, UsersNameSessions, OverlapIsRecorded,
       SequentialLoginReachable, TcpStates
  <1>3. ASSUME NEW c \in Conns, OnDisconnection(c) PROVE SMInv'
    <2>1. SMTypeOK'
      BY <1>3 DEF OnDisconnection, EraseUser, SMTypeOK, TcpStates
    <2>2. AuthenticatedHasUid' /\ UnusedHasNoSession'
      BY <1>3 DEF OnDisconnection, AuthenticatedHasUid, UnusedHasNoSession,
         SMTypeOK, TcpStates
    <2>3. UsersNameSessions'
      BY <1>3 DEF OnDisconnection, EraseUser, UsersNameSessions, SMTypeOK
    <2>4. OverlapIsRecorded'
      BY <1>3 DEF OnDisconnection, OverlapIsRecorded, SMTypeOK
    <2>5. SequentialLoginReachable'
      BY <1>3 DEF OnDisconnection, EraseUser, OverlapIsRecorded,
         SequentialLoginReachable, AuthenticatedHasUid, SMTypeOK, Session
    <2> QED BY <2>1, <2>2, <2>3, <2>4, <2>5
  <1>4. ASSUME NEW c \in Conns, Deauthenticate(c) PROVE SMInv'
    <2>1. SMTypeOK'
      BY <1>4 DEF Deauthenticate, EraseUser, SMTypeOK, Session, NoSession
    <2>2. AuthenticatedHasUid' /\ UnusedHasNoSession'
      BY <1>4 DEF Deauthenticate, AuthenticatedHasUid, UnusedHasNoSession,
         SMTypeOK, NoSession
    <2>3. UsersNameSessions'
      BY <1>4 DEF Deauthenticate, EraseUser, UsersNameSessions, SMTypeOK
    <2>4. OverlapIsRecorded'
      BY <1>4 DEF Deauthenticate, OverlapIsRecorded, AuthenticatedHasUid,
         SMTypeOK, Session, NoSession
    <2>5. SequentialLoginReachable'
      BY <1>4 DEF Deauthenticate, EraseUser, OverlapIsRecorded, NoSession,
         SequentialLoginReachable, AuthenticatedHasUid, SMTypeOK, Session
    <2> QED BY <2>1, <2>2, <2>3, <2>4, <2>5
  <1>5. ASSUME NEW c \in Conns, NEW u \in Uids, NEW t \in Tokens,
               Authenticate(c, u, t)
        PROVE SMInv'
    <2> USE <1>5 DEF Authenticate, RecordLogin, Rivals
    <2>1. SMTypeOK'
      BY DEF SMTypeOK, Session
    <2>2. AuthenticatedHasUid' /\ UnusedHasNoSession'
      BY DEF AuthenticatedHasUid, UnusedHasNoSession, SMTypeOK
    <2>3. UsersNameSessions'
      BY DEF UsersNameSessions, SMTypeOK, TcpStates
    <2>4. OverlapIsRecorded'
      BY DEF OverlapIsRecorded, SMTypeOK
    <2>5. SequentialLoginReachable'
      <3> SUFFICES ASSUME NEW d \in Conns, Reading(d)', IsAuthenticated(d)',
                          ~rival'[d]
                   PROVE  users'[GetUid(d)'] = d
        BY DEF SequentialLoginReachable
      <3>1. CASE d = c
        BY <3>1 DEF SMTypeOK
      <3>2. CASE d # c
        <4>1. context'[d] = context[d] /\ ~rival[d] /\ GetUid(d) # u
          BY <3>2 DEF SMTypeOK
        <4>2. GetUid(d) \in Uids /\ users[GetUid(d)] = d
          BY <4>1 DEF SequentialLoginReachable, AuthenticatedHasUid, SMTypeOK,
             Session
        <4> QED BY <4>1, <4>2 DEF SMTypeOK
      <3> QED BY <3>1, <3>2
    <2> QED BY <2>1, <2>2, <2>3, <2>4, <2>5
  <1>6. CASE Restart
    BY <1>6 DEF Restart, SMTypeOK, AuthenticatedHasUid, UnusedHasNoSession,
       UsersNameSessions, OverlapIsRecorded, SequentialLoginReachable,
       NoSession, Session, TcpStates
  <1>7. CASE UNCHANGED smVars
    BY <1>7 DEF smVars, SMTypeOK, AuthenticatedHasUid, UnusedHasNoSession,
       UsersNameSessions, OverlapIsRecorded, SequentialLoginReachable
  <1> QED BY <1>1, <1>2, <1>3, <1>4, <1>5, <1>6, <1>7 DEF SMNext

\* The inductive invariant holds of every behaviour of the session manager.
THEOREM SMInvariance == SMSpec => []SMInv
  BY SMInitInv, SMNextInv, PTL DEF SMSpec

\* A user whose session met no other session of the same uid is reachable on
\* its connection (authenticate, deauthenticate and onDisconnection of
\* session_manager.cc), for any number of connections and users.
THEOREM SMReachable == SMSpec => []SequentialLoginReachable
  BY SMInvariance, PTL DEF SMInv

\* users_ names no closed connection but one that logged in after its close or
\* over another user's session (session_manager.cc:10-58).
THEOREM SMRegisteredIsOpen == SMSpec => []RegisteredIsOpen
  <1>1. SMInv => RegisteredIsOpen
    BY DEF SMInv, UsersNameSessions, RegisteredIsOpen
  <1> QED BY <1>1, SMInvariance, PTL

-----------------------------------------------------------------------------
(***************************************************************************)
(* ChatLogin                                                                *)
(***************************************************************************)

USE DEF StoredPcs

\* The first state satisfies the inductive invariant.
LEMMA LoginInitInv == Init => LoginInv
  <1> SUFFICES ASSUME Init PROVE LoginInv
    OBVIOUS
  <1> USE NullAssumption, LoginAssumption DEF Init, SMInit, NoSession, Idle, NoHash
  <1>1. TypeOK
    BY DEF TypeOK, SMTypeOK, Session, TcpStates, Hash, Job, LoginPcs, LogoutPcs
  <1>2. AuthenticatedHasUid /\ TokenNamesItsOwner /\ RevokedStaysRevoked
    BY DEF AuthenticatedHasUid, TokenNamesItsOwner, RevokedStaysRevoked,
       IsAuthenticated, GetUid
  <1>3. JobsAreTyped /\ KnownTokensWereGenerated /\ FreshTokenIsPrivate
    BY DEF JobsAreTyped, KnownTokensWereGenerated, FreshTokenIsPrivate, LoginPcs
  <1> QED BY <1>1, <1>2, <1>3 DEF LoginInv

\* Accepting, shutting down and closing a connection.
LEMMA ConnectionInv ==
  ASSUME NEW c \in Conns, LoginInv, Connection(c) PROVE LoginInv'
  <1> USE DEF LoginInv
  <1>0. /\ UNCHANGED <<context, session, online, route, job, owner, granted,
                       revoked, requests, faults, restarts, rival, irregular>>
        /\ tcp' \in [Conns -> TcpStates]
        /\ users' \in [Uids -> Conns \cup {NoConn}]
        /\ \A d \in Conns : tcp[d] # "none" => tcp'[d] # "none"
    BY DEF Connection, OnConnection, Shutdown, OnDisconnection, EraseUser,
       loginVars, redis, history, bounds, TypeOK, SMTypeOK, TcpStates
  <1>1. TypeOK'
    BY <1>0 DEF TypeOK, SMTypeOK
  <1>2. AuthenticatedHasUid' /\ TokenNamesItsOwner' /\ RevokedStaysRevoked'
    BY <1>0 DEF AuthenticatedHasUid, TokenNamesItsOwner, RevokedStaysRevoked,
       IsAuthenticated, GetUid
  <1>3. JobsAreTyped' /\ KnownTokensWereGenerated' /\ FreshTokenIsPrivate'
    BY <1>0 DEF JobsAreTyped, KnownTokensWereGenerated, FreshTokenIsPrivate
  <1> QED BY <1>1, <1>2, <1>3

\* What a job may hold at each of its places.
JobMayBe(s, j) ==
  /\ j \in Job
  /\ j.pc # "hmset"
  /\ j.pc \in LoginPcs => j.conn \in Conns /\ tcp[j.conn] # "none"
  /\ j.pc \in StoredPcs \/ (j.pc = "reply" /\ j.ok) =>
       j.token \in Tokens /\ j.uid \in Uids /\ owner[j.token] = j.uid
  /\ j.pc = "verify" => j.uid \in Uids /\ j.token = NoToken
  /\ j.pc = "hmget" => j.token \in granted
  /\ j.pc = "del" => j.token \in granted \cup {NoToken}
  /\ j.token \in {job[s].token, NoToken} \cup granted

\* A step that takes one job to such a place keeps what is said of the jobs.
LEMMA JobChange ==
  ASSUME LoginInv, NEW s \in Slots, NEW j, JobMayBe(s, j),
         job' = [job EXCEPT ![s] = j],
         UNCHANGED <<tcp, owner, granted>>, revoked' \subseteq granted'
  PROVE  /\ job' \in [Slots -> Job]
         /\ JobsAreTyped' /\ KnownTokensWereGenerated' /\ FreshTokenIsPrivate'
  <1> USE DEF LoginInv, JobMayBe
  <1>1. job' \in [Slots -> Job]
    BY DEF TypeOK
  <1>2. JobsAreTyped'
    BY DEF JobsAreTyped, TypeOK
  <1>3. KnownTokensWereGenerated'
    BY DEF KnownTokensWereGenerated, TypeOK
  <1>4. FreshTokenIsPrivate'
    BY NullAssumption DEF FreshTokenIsPrivate, TypeOK
  <1> QED BY <1>1, <1>2, <1>3, <1>4

\* So does the whole invariant, when the step leaves the sessions alone.
LEMMA JobStepInv ==
  ASSUME LoginInv, NEW s \in Slots, NEW j, JobMayBe(s, j),
         UNCHANGED <<smVars, session, history>>,
         job' = [job EXCEPT ![s] = j],
         online' \in [Uids -> BOOLEAN], route' \in [Uids -> BOOLEAN],
         requests' \in 0..MaxRequests, faults' \in 0..MaxFaults,
         restarts' \in 0..MaxRestarts
  PROVE  LoginInv'
  <1> USE DEF LoginInv, smVars, history
  <1>0. /\ job' \in [Slots -> Job]
        /\ JobsAreTyped' /\ KnownTokensWereGenerated' /\ FreshTokenIsPrivate'
    BY JobChange DEF KnownTokensWereGenerated
  <1>1. TypeOK'
    BY <1>0 DEF TypeOK, SMTypeOK
  <1>2. AuthenticatedHasUid' /\ TokenNamesItsOwner' /\ RevokedStaysRevoked'
    BY DEF AuthenticatedHasUid, TokenNamesItsOwner, RevokedStaysRevoked,
       IsAuthenticated, GetUid
  <1> QED BY <1>0, <1>1, <1>2

\* The handlers of the three requests.
LEMMA RequestInv ==
  ASSUME NEW s \in Slots, NEW c \in Conns, LoginInv, Request(s, c)
  PROVE  LoginInv'
  <1> USE NullAssumption, LoginAssumption
  <1>0. requests' \in 0..MaxRequests /\ UNCHANGED <<redis, history, faults, restarts>>
    <2>1. /\ requests < MaxRequests /\ requests' = requests + 1
          /\ UNCHANGED <<redis, history, faults, restarts>>
      BY DEF Request, HandleLoginPassword, HandleLoginToken, HandleLogout, Run
    <2>2. requests \in 0..MaxRequests
      BY DEF LoginInv, TypeOK
    <2> QED BY <2>1, <2>2
  <1>1. ASSUME NEW u \in Uids, HandleLoginPassword(s, c, u) PROVE LoginInv'
    <2> DEFINE j == [Idle EXCEPT !.pc = "verify", !.conn = c, !.uid = u]
    <2>1. JobMayBe(s, j)
      BY <1>1 DEF JobMayBe, HandleLoginPassword, Reading, Idle, Job, LoginPcs
    <2>2. job' = [job EXCEPT ![s] = j] /\ UNCHANGED smVars
      BY <1>1 DEF HandleLoginPassword, Run
    <2> HIDE DEF j
    <2> QED BY <1>0, <2>1, <2>2, JobStepInv DEF LoginInv, TypeOK, redis, history
  <1>2. ASSUME NEW t \in granted, HandleLoginToken(s, c, t) PROVE LoginInv'
    <2> DEFINE j == [Idle EXCEPT !.pc = "hmget", !.conn = c, !.token = t]
    <2>1. JobMayBe(s, j)
      BY <1>2 DEF JobMayBe, HandleLoginToken, Reading, Idle, Job, LoginPcs,
         LoginInv, TypeOK
    <2>2. job' = [job EXCEPT ![s] = j] /\ UNCHANGED smVars
      BY <1>2 DEF HandleLoginToken, Run
    <2> HIDE DEF j
    <2> QED BY <1>0, <2>1, <2>2, JobStepInv DEF LoginInv, TypeOK, redis, history
  <1>3. ASSUME NEW u \in {GetUid(c), NoUid}, NEW t \in granted \cup {NoToken},
               HandleLogout(s, c, u, t)
        PROVE  LoginInv'
    <2> DEFINE j == [Idle EXCEPT !.pc = "del", !.uid = u, !.token = t]
    <2>1. JobMayBe(s, j)
      BY DEF JobMayBe, Idle, Job, LoginPcs, LogoutPcs, LoginInv, TypeOK,
         SMTypeOK, Session, GetUid
    <2>2. job' = [job EXCEPT ![s] = j] /\ Deauthenticate(c)
      BY <1>3 DEF HandleLogout, Run
    <2> HIDE DEF j
    <2> USE DEF LoginInv, Deauthenticate, NoSession
    <2>3. TypeOK'
      BY <1>0, <2>1, <2>2
      DEF JobMayBe, TypeOK, SMTypeOK, EraseUser, Session, redis, history
    <2>4. AuthenticatedHasUid'
      BY <2>2 DEF AuthenticatedHasUid, IsAuthenticated, GetUid, TypeOK, SMTypeOK
    <2>5. TokenNamesItsOwner' /\ RevokedStaysRevoked'
      BY <1>0, <2>2 DEF TokenNamesItsOwner, RevokedStaysRevoked,
         IsAuthenticated, GetUid, TypeOK, SMTypeOK, redis, history
    <2>6. JobsAreTyped' /\ KnownTokensWereGenerated' /\ FreshTokenIsPrivate'
      BY <1>0, <2>1, <2>2, JobChange DEF KnownTokensWereGenerated, history
    <2> QED BY <2>3, <2>4, <2>5, <2>6
  <1> QED BY <1>1, <1>2, <1>3 DEF Request

\* A callback that reports a failure, and one that logs the user in.
LEMMA CallbackInv ==
  ASSUME NEW s \in Slots, LoginInv, LoginCallback(s) PROVE LoginInv'
  <1> USE NullAssumption
  <1> DEFINE j == job[s]
  <1>1. CASE ~j.ok
    <2>1. JobMayBe(s, Idle)
      BY DEF JobMayBe, Idle, Job, LoginPcs
    <2>2. job' = [job EXCEPT ![s] = Idle] /\ UNCHANGED <<smVars, redis, history, bounds>>
      BY <1>1 DEF LoginCallback, history
    <2> QED BY <2>1, <2>2, JobStepInv
            DEF LoginInv, TypeOK, redis, bounds
  <1>2. CASE j.ok
    <2>1. /\ job' = [job EXCEPT ![s] = Idle]
          /\ Authenticate(j.conn, j.uid, j.token)
          /\ UNCHANGED <<redis, owner, revoked, bounds>>
          /\ granted' \in {granted, granted \cup {j.token}}
      BY <1>2 DEF LoginCallback
    <2>2. j.conn \in Conns /\ j.uid \in Uids /\ j.token \in Tokens
            /\ owner[j.token] = j.uid
      BY <1>2 DEF LoginCallback, LoginInv, JobsAreTyped, LoginPcs
    <2> HIDE DEF j
    <2> USE DEF LoginInv, Authenticate, Idle
    <2>3. TypeOK'
      BY <2>1, <2>2 DEF TypeOK, SMTypeOK, RecordLogin, Session, Job, redis, bounds
    <2>4. AuthenticatedHasUid'
      BY <2>1, <2>2
      DEF AuthenticatedHasUid, IsAuthenticated, GetUid, TypeOK, SMTypeOK
    <2>5. TokenNamesItsOwner' /\ RevokedStaysRevoked'
      BY <2>1, <2>2 DEF TokenNamesItsOwner, RevokedStaysRevoked,
         IsAuthenticated, GetUid, TypeOK, SMTypeOK, redis
    <2>6. JobsAreTyped'
      BY <2>1, <2>2 DEF JobsAreTyped, LoginPcs, TypeOK
    <2>7. KnownTokensWereGenerated'
      BY <2>1, <2>2 DEF KnownTokensWereGenerated, TypeOK
    <2>8. FreshTokenIsPrivate'
      BY <2>1, <2>2 DEF FreshTokenIsPrivate, LoginCallback, TypeOK, j
    <2> QED BY <2>3, <2>4, <2>5, <2>6, <2>7, <2>8
  <1> QED BY <1>1, <1>2

\* The steps that change the session of one token and nothing else in Redis:
\* they keep its uid, clear it, or are the step that stores it.
LEMMA SessionStepInv ==
  ASSUME LoginInv, NEW t \in Tokens, NEW h \in Hash,
         UNCHANGED <<smVars, online, route, owner, granted, bounds>>,
         session' = [session EXCEPT ![t] = h],
         h.uid \in {NoUid, owner[t]},
         revoked' \in {revoked, revoked \cup {t}},
         t \in revoked' => h.uid = NoUid /\ t \in granted
  PROVE  /\ SMTypeOK'
         /\ session' \in [Tokens -> Hash] /\ online' \in [Uids -> BOOLEAN]
         /\ route' \in [Uids -> BOOLEAN] /\ requests' \in 0..MaxRequests
         /\ faults' \in 0..MaxFaults /\ restarts' \in 0..MaxRestarts
         /\ granted' \in SUBSET Tokens /\ revoked' \in SUBSET Tokens
         /\ owner' \in [Tokens -> Uids \cup {NoUid}]
         /\ revoked' \subseteq granted'
         /\ AuthenticatedHasUid' /\ TokenNamesItsOwner' /\ RevokedStaysRevoked'
  <1> USE DEF LoginInv, TypeOK, smVars, bounds
  <1>1. AuthenticatedHasUid' /\ SMTypeOK'
    BY DEF AuthenticatedHasUid, IsAuthenticated, GetUid, SMTypeOK
  <1>2. TokenNamesItsOwner'
    BY DEF TokenNamesItsOwner, IsAuthenticated, GetUid
  <1>3. RevokedStaysRevoked' /\ revoked' \subseteq granted'
    BY DEF RevokedStaysRevoked, KnownTokensWereGenerated
  <1> QED BY <1>1, <1>2, <1>3

\* The commands of Redis, one by one.
LEMMA WorkerInv ==
  ASSUME NEW s \in Slots, LoginInv, Worker(s) PROVE LoginInv'
  <1> USE NullAssumption
  <1> DEFINE j == job[s]
  <1>0. j \in Job /\ j = job[s]
    BY DEF LoginInv, TypeOK
  <1>1. CASE Verify(s)
    <2>1. CASE Reply(s, FALSE) /\ UNCHANGED owner
      <3> DEFINE k == [j EXCEPT !.pc = "reply", !.ok = FALSE]
      <3>1. JobMayBe(s, k)
        BY <1>0, <1>1 DEF JobMayBe, Verify, LoginInv, JobsAreTyped, Job, LoginPcs
      <3>2. job' = [job EXCEPT ![s] = k]
        BY <2>1 DEF Reply, LoginInv, TypeOK
      <3>3. UNCHANGED <<smVars, redis, history, bounds>>
        BY <1>1, <2>1 DEF Verify, history
      <3> HIDE DEF k
      <3> QED BY <3>1, <3>2, <3>3, JobStepInv
              DEF LoginInv, TypeOK, redis, bounds
    <2>2. ASSUME NEW t \in Fresh,
                 job' = [job EXCEPT ![s].pc = "hmset", ![s].token = t],
                 owner' = [owner EXCEPT ![t] = job[s].uid]
          PROVE  LoginInv'
      <3>1. t \in Tokens /\ owner[t] = NoUid /\ j.uid \in Uids /\ j.pc = "verify"
              /\ j.conn \in Conns /\ tcp[j.conn] # "none"
        BY <1>1 DEF Verify, Fresh, LoginInv, JobsAreTyped, LoginPcs
      <3>2. UNCHANGED <<smVars, redis, granted, revoked, bounds>>
        BY <1>1 DEF Verify
      <3> DEFINE k == [j EXCEPT !.pc = "hmset", !.token = t]
      <3>3. k \in Job /\ k.pc = "hmset" /\ k.token = t /\ k.uid = j.uid
              /\ k.conn = j.conn
        BY <1>0, <3>1 DEF Job, LoginPcs
      <3>4. job' = [job EXCEPT ![s] = k]
        BY <2>2 DEF LoginInv, TypeOK
      <3> HIDE DEF k, j
      <3> USE DEF LoginInv, smVars, redis, bounds
      <3>5. TypeOK'
        BY <2>2, <3>1, <3>2, <3>3, <3>4, <1>0 DEF TypeOK, SMTypeOK
      <3>6. AuthenticatedHasUid' /\ RevokedStaysRevoked'
        BY <3>2 DEF AuthenticatedHasUid, RevokedStaysRevoked, IsAuthenticated,
           GetUid
      <3>7. TokenNamesItsOwner'
        BY <2>2, <3>1, <3>2 DEF TokenNamesItsOwner, AuthenticatedHasUid,
           IsAuthenticated, GetUid, TypeOK
      <3>8. KnownTokensWereGenerated'
        BY <2>2, <3>1, <3>2, <3>3, <3>4, <1>0
        DEF KnownTokensWereGenerated, TypeOK, Job
      <3>9. JobsAreTyped'
        <4> SUFFICES ASSUME NEW r \in Slots PROVE JobsAreTyped!(r)'
          BY DEF JobsAreTyped
        <4>1. CASE r = s
          BY <4>1, <2>2, <3>1, <3>2, <3>3, <3>4, <1>0 DEF TypeOK, LoginPcs
        <4>2. CASE r # s
          BY <4>2, <2>2, <3>1, <3>2, <3>4, <1>0
          DEF JobsAreTyped, KnownTokensWereGenerated, TypeOK
        <4> QED BY <4>1, <4>2
      <3>10. FreshTokenIsPrivate'
        BY <2>2, <3>1, <3>2, <3>3, <3>4
        DEF FreshTokenIsPrivate, KnownTokensWereGenerated, TypeOK
      <3> QED BY <3>5, <3>6, <3>7, <3>8, <3>9, <3>10
    <2> QED BY <1>1, <2>1, <2>2 DEF Verify
  <1>2. ASSUME NEW h \in Hash, NEW k, JobMayBe(s, k), j.token \in Tokens,
               UNCHANGED <<smVars, online, route, owner, granted, bounds>>,
               session' = [session EXCEPT ![j.token] = h],
               h.uid \in {NoUid, owner[j.token]},
               revoked' \in {revoked, revoked \cup {j.token}},
               j.token \in revoked' => h.uid = NoUid /\ j.token \in granted,
               job' = [job EXCEPT ![s] = k]
        PROVE  LoginInv'
    <2>1. /\ SMTypeOK'
          /\ session' \in [Tokens -> Hash] /\ online' \in [Uids -> BOOLEAN]
          /\ route' \in [Uids -> BOOLEAN] /\ requests' \in 0..MaxRequests
          /\ faults' \in 0..MaxFaults /\ restarts' \in 0..MaxRestarts
          /\ granted' \in SUBSET Tokens /\ revoked' \in SUBSET Tokens
          /\ owner' \in [Tokens -> Uids \cup {NoUid}]
          /\ revoked' \subseteq granted'
          /\ AuthenticatedHasUid' /\ TokenNamesItsOwner' /\ RevokedStaysRevoked'
      BY <1>2, SessionStepInv
    <2>2. /\ job' \in [Slots -> Job]
          /\ JobsAreTyped' /\ KnownTokensWereGenerated' /\ FreshTokenIsPrivate'
      BY <1>2, <2>1, JobChange DEF smVars
    <2> QED BY <2>1, <2>2 DEF LoginInv, TypeOK
  <1>3. ASSUME NEW k, JobMayBe(s, k), job' = [job EXCEPT ![s] = k],
               UNCHANGED <<smVars, session, history, bounds>>,
               online' \in [Uids -> BOOLEAN], route' \in [Uids -> BOOLEAN]
        PROVE  LoginInv'
    BY <1>3, JobStepInv DEF LoginInv, TypeOK, bounds
  <1>4. j.pc \in StoredPcs =>
          j.conn \in Conns /\ tcp[j.conn] # "none" /\ j.token \in Tokens
            /\ j.uid \in Uids /\ owner[j.token] = j.uid
    BY DEF LoginInv, JobsAreTyped, LoginPcs
  <1>5. ASSUME NEW pc \in {"expire", "online", "route"},
               j.pc \in {"hmset", "expire", "online"}
        PROVE  JobMayBe(s, [j EXCEPT !.pc = pc])
    BY <1>0, <1>4, <1>5 DEF JobMayBe, Job, LoginPcs
  <1>6. ASSUME NEW ok \in BOOLEAN, j.pc \in {"route", "setnode"}
        PROVE  JobMayBe(s, [j EXCEPT !.pc = "reply", !.ok = ok])
    BY <1>0, <1>4, <1>6 DEF JobMayBe, Job, LoginPcs
  <1>7. CASE SetSession(s)
    <2> DEFINE h == [session[j.token] EXCEPT !.uid = j.uid, !.node = TRUE]
    <2>1. h \in Hash /\ h.uid = j.uid
      BY <1>0, <1>4, <1>7 DEF SetSession, LoginInv, TypeOK, Hash
    <2>2. j.token \notin granted /\ revoked \subseteq granted
      BY <1>7 DEF SetSession, LoginInv, FreshTokenIsPrivate,
         KnownTokensWereGenerated
    <2>3. job' = [job EXCEPT ![s] = [j EXCEPT !.pc = "expire"]]
      BY <1>7 DEF SetSession, Goto, LoginInv, TypeOK
    <2>4. session' = [session EXCEPT ![j.token] = h]
      BY <1>7 DEF SetSession
    <2> HIDE DEF h
    <2> QED BY <1>2, <1>4, <1>5, <1>7, <2>1, <2>2, <2>3, <2>4
            DEF SetSession, history
  <1>8. CASE ExpireSession(s)
    <2> DEFINE h == [session[j.token] EXCEPT !.ttl = session[j.token].node]
    <2>1. h \in Hash /\ h.uid = session[j.token].uid
      BY <1>0, <1>4, <1>8 DEF ExpireSession, LoginInv, TypeOK, Hash
    <2>2. h.uid \in {NoUid, owner[j.token]}
            /\ (j.token \in revoked => h.uid = NoUid /\ j.token \in granted)
      BY <1>4, <1>8, <2>1 DEF ExpireSession, LoginInv, TokenNamesItsOwner,
         RevokedStaysRevoked, KnownTokensWereGenerated
    <2>3. job' = [job EXCEPT ![s] = [j EXCEPT !.pc = "online"]]
      BY <1>8 DEF ExpireSession, Goto, LoginInv, TypeOK
    <2>4. session' = [session EXCEPT ![j.token] = h]
      BY <1>4, <1>8 DEF ExpireSession, LoginInv, TypeOK
    <2> HIDE DEF h
    <2> QED BY <1>2, <1>4, <1>5, <1>8, <2>1, <2>2, <2>3, <2>4
            DEF ExpireSession, history
  <1>9. CASE SetOnline(s)
    <2>1. job' = [job EXCEPT ![s] = [j EXCEPT !.pc = "route"]]
      BY <1>9 DEF SetOnline, Goto, LoginInv, TypeOK
    <2> QED BY <1>3, <1>4, <1>5, <1>9, <2>1 DEF SetOnline, LoginInv, TypeOK
  <1>10. CASE SetRoute(s)
    <2>1. job' = [job EXCEPT ![s] = [j EXCEPT !.pc = "reply", !.ok = TRUE]]
      BY <1>10 DEF SetRoute, Reply, LoginInv, TypeOK
    <2> QED BY <1>3, <1>4, <1>6, <1>10, <2>1 DEF SetRoute, LoginInv, TypeOK
  <1>11. CASE GetSession(s)
    <2> DEFINE u == session[j.token].uid
               k == IF u = NoUid THEN [j EXCEPT !.pc = "reply", !.ok = FALSE]
                    ELSE [j EXCEPT !.pc = "setnode", !.uid = u]
    <2>1. j.token \in granted /\ j.token \in Tokens /\ j.conn \in Conns
            /\ tcp[j.conn] # "none"
      BY <1>11 DEF GetSession, LoginInv, TypeOK, JobsAreTyped, LoginPcs
    <2>2. u \in {NoUid, owner[j.token]} /\ u \in Uids \cup {NoUid}
      BY <2>1 DEF LoginInv, TypeOK, TokenNamesItsOwner, Hash
    <2>3. JobMayBe(s, k)
      BY <1>0, <2>1, <2>2 DEF JobMayBe, Job, LoginPcs
    <2>4. job' = [job EXCEPT ![s] = k]
      BY <1>11 DEF GetSession, Reply, LoginInv, TypeOK
    <2> HIDE DEF k
    <2> QED BY <1>3, <1>11, <2>3, <2>4
            DEF GetSession, LoginInv, TypeOK, redis
  <1>12. CASE UpdateSessionNode(s)
    <2> DEFINE h == [session[j.token] EXCEPT !.node = TRUE]
    <2>1. h \in Hash /\ h.uid = session[j.token].uid
      BY <1>0, <1>4, <1>12 DEF UpdateSessionNode, LoginInv, TypeOK, Hash
    <2>2. h.uid \in {NoUid, owner[j.token]}
            /\ (j.token \in revoked => h.uid = NoUid /\ j.token \in granted)
      BY <1>4, <1>12, <2>1 DEF UpdateSessionNode, LoginInv, TokenNamesItsOwner,
         RevokedStaysRevoked, KnownTokensWereGenerated
    <2>3. PICK ok \in BOOLEAN :
            job' = [job EXCEPT ![s] = [j EXCEPT !.pc = "reply", !.ok = ok]]
      BY <1>12 DEF UpdateSessionNode, Reply, LoginInv, TypeOK
    <2>4. session' = [session EXCEPT ![j.token] = h]
      BY <1>4, <1>12 DEF UpdateSessionNode, LoginInv, TypeOK
    <2> HIDE DEF h
    <2> QED BY <1>2, <1>4, <1>6, <1>12, <2>1, <2>2, <2>3, <2>4
            DEF UpdateSessionNode, history
  <1>13. ASSUME NEW pc \in {"offline", "unroute"}
         PROVE  JobMayBe(s, [j EXCEPT !.pc = pc])
    BY <1>0 DEF JobMayBe, Job, LoginPcs, LogoutPcs
  <1>14. CASE RevokeSession(s)
    <2>1. job' = [job EXCEPT ![s] = [j EXCEPT !.pc = "offline"]]
      BY <1>14 DEF RevokeSession, Goto, LoginInv, TypeOK
    <2>2. j.token \in granted \cup {NoToken}
      BY <1>14 DEF RevokeSession, LoginInv, JobsAreTyped
    <2>3. CASE j.token = NoToken
      <3>1. session' = session /\ revoked' = revoked
        BY <1>14, <2>3 DEF RevokeSession, LoginInv, TypeOK
      <3> QED BY <1>3, <1>13, <1>14, <2>1, <3>1
              DEF RevokeSession, LoginInv, TypeOK, history
    <2>4. CASE j.token \in granted
      <3>1. j.token \in Tokens
        BY <2>4 DEF LoginInv, TypeOK
      <3>2. NoHash \in Hash /\ NoHash.uid = NoUid
        BY DEF NoHash, Hash
      <3>3. session' = [session EXCEPT ![j.token] = NoHash]
              /\ revoked' = revoked \cup {j.token}
        BY <1>14, <3>1 DEF RevokeSession, LoginInv, TypeOK
      <3> QED BY <1>2, <1>13, <1>14, <2>1, <2>4, <3>1, <3>2, <3>3
              DEF RevokeSession
    <2> QED BY <2>2, <2>3, <2>4
  <1>15. CASE DelOnline(s)
    <2>1. job' = [job EXCEPT ![s] = [j EXCEPT !.pc = "unroute"]]
      BY <1>15 DEF DelOnline, Goto, LoginInv, TypeOK
    <2> QED BY <1>3, <1>13, <1>15, <2>1 DEF DelOnline, LoginInv, TypeOK
  <1>16. CASE DelRoute(s)
    <2>1. JobMayBe(s, Idle)
      BY DEF JobMayBe, Idle, Job, LoginPcs
    <2> QED BY <1>3, <1>16, <2>1 DEF DelRoute, LoginInv, TypeOK
  <1> QED BY <1>1, <1>7, <1>8, <1>9, <1>10, <1>11, <1>12, <1>14, <1>15, <1>16
          DEF Worker

\* A failure of Redis moves a job on and changes nothing else.
LEMMA FaultInv ==
  ASSUME NEW s \in Slots, LoginInv, RedisFault(s) PROVE LoginInv'
  <1> DEFINE j == job[s]
  <1>0. j \in Job /\ faults' \in 0..MaxFaults
          /\ UNCHANGED <<smVars, redis, history, requests, restarts>>
    BY LoginAssumption DEF RedisFault, LoginInv, TypeOK
  <1>1. ASSUME NEW k, JobMayBe(s, k), job' = [job EXCEPT ![s] = k] PROVE LoginInv'
    BY <1>0, <1>1, JobStepInv DEF LoginInv, TypeOK, redis
  <1>2. j.pc \in LoginPcs => j.conn \in Conns /\ tcp[j.conn] # "none"
    BY DEF LoginInv, JobsAreTyped
  <1>3. ASSUME NEW ok \in BOOLEAN, j.pc \in LoginPcs, ok => j.pc \in StoredPcs,
               Reply(s, ok)
        PROVE  LoginInv'
    <2> DEFINE k == [j EXCEPT !.pc = "reply", !.ok = ok]
    <2>1. JobMayBe(s, k)
      BY <1>0, <1>2, <1>3 DEF JobMayBe, Job, LoginPcs, LoginInv, JobsAreTyped
    <2>2. job' = [job EXCEPT ![s] = k]
      BY <1>3 DEF Reply, LoginInv, TypeOK
    <2> HIDE DEF k
    <2> QED BY <1>1, <2>1, <2>2
  <1>4. CASE Goto(s, "offline")
    <2> DEFINE k == [j EXCEPT !.pc = "offline"]
    <2>1. JobMayBe(s, k)
      BY <1>0 DEF JobMayBe, Job, LoginPcs, LogoutPcs
    <2>2. job' = [job EXCEPT ![s] = k]
      BY <1>4 DEF Goto, LoginInv, TypeOK
    <2> HIDE DEF k
    <2> QED BY <1>1, <2>1, <2>2
  <1>5. CASE job' = [job EXCEPT ![s] = Idle]
    <2>1. JobMayBe(s, Idle)
      BY NullAssumption DEF JobMayBe, Idle, Job, LoginPcs
    <2> QED BY <1>1, <1>5, <2>1
  <1> QED BY <1>3, <1>4, <1>5 DEF RedisFault, LoginPcs

\* The expiry of a session.
LEMMA ExpiryInv ==
  ASSUME NEW t \in Tokens, LoginInv, SessionExpires(t) PROVE LoginInv'
  <1>1. NoHash \in Hash /\ NoHash.uid = NoUid
    BY DEF NoHash, Hash
  <1>2. t \in revoked => t \in granted
    BY DEF LoginInv, KnownTokensWereGenerated
  <1>3. /\ SMTypeOK'
        /\ session' \in [Tokens -> Hash] /\ online' \in [Uids -> BOOLEAN]
        /\ route' \in [Uids -> BOOLEAN] /\ requests' \in 0..MaxRequests
        /\ faults' \in 0..MaxFaults /\ restarts' \in 0..MaxRestarts
        /\ granted' \in SUBSET Tokens /\ revoked' \in SUBSET Tokens
        /\ owner' \in [Tokens -> Uids \cup {NoUid}]
        /\ revoked' \subseteq granted'
        /\ AuthenticatedHasUid' /\ TokenNamesItsOwner' /\ RevokedStaysRevoked'
    BY <1>1, <1>2, SessionStepInv DEF SessionExpires, history
  <1>4. JobsAreTyped' /\ KnownTokensWereGenerated' /\ FreshTokenIsPrivate'
    BY DEF SessionExpires, LoginInv, JobsAreTyped, KnownTokensWereGenerated,
       FreshTokenIsPrivate, smVars, history
  <1> QED BY <1>3, <1>4 DEF SessionExpires, LoginInv, TypeOK

\* A restart of the server.
LEMMA RestartInv ==
  ASSUME LoginInv, RestartServer PROVE LoginInv'
  <1> USE NullAssumption DEF LoginInv, RestartServer, Restart, NoSession, Idle
  <1>1. TypeOK'
    BY LoginAssumption DEF TypeOK, SMTypeOK, Session, TcpStates, Job, redis, history
  <1>2. AuthenticatedHasUid' /\ TokenNamesItsOwner' /\ RevokedStaysRevoked'
    BY DEF AuthenticatedHasUid, TokenNamesItsOwner, RevokedStaysRevoked,
       IsAuthenticated, GetUid, redis, history
  <1>3. JobsAreTyped' /\ FreshTokenIsPrivate'
    BY DEF JobsAreTyped, FreshTokenIsPrivate, LoginPcs
  <1>4. KnownTokensWereGenerated'
    BY DEF KnownTokensWereGenerated, history
  <1> QED BY <1>1, <1>2, <1>3, <1>4

\* The inductive invariant holds of every behaviour, for any numbers of
\* connections, users, tokens, requests, failures and restarts.
THEOREM LoginInvariance == Spec => []LoginInv
  <1>1. LoginInv /\ [Next]_vars => LoginInv'
    <2> SUFFICES ASSUME LoginInv, [Next]_vars PROVE LoginInv'
      OBVIOUS
    <2>1. CASE Next
      BY <2>1, ConnectionInv, RequestInv, WorkerInv, FaultInv, CallbackInv,
         ExpiryInv, RestartInv DEF Next
    <2>2. CASE UNCHANGED vars
      BY <2>2 DEF vars, smVars, loginVars, redis, history, bounds, LoginInv,
         TypeOK, SMTypeOK, AuthenticatedHasUid, JobsAreTyped,
         KnownTokensWereGenerated, FreshTokenIsPrivate, TokenNamesItsOwner,
         RevokedStaysRevoked, IsAuthenticated, GetUid
    <2> QED BY <2>1, <2>2
  <1> QED BY <1>1, LoginInitInv, PTL DEF Spec

\* Every variable keeps its type.
THEOREM LoginTypeOK == Spec => []TypeOK
  BY LoginInvariance, PTL DEF LoginInv

\* A token that a logout deleted never names a user again, although
\* updateSessionNode may write to its key later (redis_session_repo.cc:103).
THEOREM RevokedForGood == Spec => []RevokedStaysRevoked
  BY LoginInvariance, PTL DEF LoginInv

\* A session belongs to the user for whom its token was generated, in Redis and
\* on every connection (login_service.cc, chat_server.cc:85-160).
THEOREM TokenOwnership == Spec => []TokenNamesItsOwner
  BY LoginInvariance, PTL DEF LoginInv

\* The login flow drives the session manager only through its operations: what
\* is proved of SessionManager holds of the server.
THEOREM LoginImplementsSessionManager == Spec => SMSpec
  <1>1. Init => SMInit
    BY DEF Init
  <1>2. LoginInv /\ [Next]_vars => [SMNext]_smVars
    <2> SUFFICES ASSUME LoginInv, [Next]_vars PROVE [SMNext]_smVars
      OBVIOUS
    <2>1. ASSUME NEW c \in Conns, Connection(c) PROVE SMNext
      BY <2>1 DEF Connection, SMNext
    <2>2. ASSUME NEW c \in Conns, NEW s \in Slots, Request(s, c)
          PROVE  [SMNext]_smVars
      BY <2>2 DEF Request, HandleLoginPassword, HandleLoginToken, HandleLogout,
         SMNext
    <2>3. ASSUME NEW s \in Slots, Worker(s) \/ RedisFault(s) PROVE UNCHANGED smVars
      BY <2>3 DEF Worker, Verify, SetSession, ExpireSession, SetOnline, SetRoute,
         GetSession, UpdateSessionNode, RevokeSession, DelOnline, DelRoute,
         RedisFault
    <2>4. ASSUME NEW s \in Slots, LoginCallback(s) PROVE [SMNext]_smVars
      <3>1. job[s].ok => job[s].conn \in Conns /\ job[s].uid \in Uids
                         /\ job[s].token \in Tokens
        BY <2>4 DEF LoginCallback, LoginInv, JobsAreTyped, LoginPcs
      <3> QED BY <2>4, <3>1 DEF LoginCallback, SMNext
    <2>5. ASSUME NEW t \in Tokens, SessionExpires(t) PROVE UNCHANGED smVars
      BY <2>5 DEF SessionExpires
    <2>6. CASE RestartServer
      BY <2>6 DEF RestartServer, SMNext
    <2>7. CASE UNCHANGED vars
      BY <2>7 DEF vars
    <2> QED BY <2>1, <2>2, <2>3, <2>4, <2>5, <2>6, <2>7 DEF Next
  <1> QED BY <1>1, <1>2, LoginInvariance, PTL DEF Spec, SMSpec

\* In the server, a user whose session met no other session of the same uid is
\* reachable, whatever logins, logouts, failures and restarts surround it.
THEOREM LoginReachable == Spec => []SequentialLoginReachable
  BY LoginImplementsSessionManager, SMReachable, PTL

\* In the server, users_ names a closed connection only after a login callback
\* that came after the close, or a login over another user's session.
THEOREM LoginRegisteredIsOpen == Spec => []RegisteredIsOpen
  BY LoginImplementsSessionManager, SMRegisteredIsOpen, PTL
=============================================================================
