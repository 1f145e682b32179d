--------------------------- MODULE SessionManager ---------------------------
(***************************************************************************)
(* src/src/session_manager.cc: the Session stored as the context of every   *)
(* TcpConnection, and users_, the map from a uid to the connection on which *)
(* messages for that uid are delivered.                                     *)
(*                                                                          *)
(* Every operation here runs as one step.  The code runs OnDisconnection,   *)
(* Deauthenticate and Authenticate on the event loop of the connection they *)
(* are given, so two of them never overlap on one connection, and every     *)
(* access to users_ is made under mutex_.                                   *)
(*                                                                          *)
(* A connection object is used once: it is accepted, it may be shut down by *)
(* the server, and it is closed.  A login callback holds a shared_ptr to    *)
(* the connection, so Authenticate may run after the connection closed.     *)
(***************************************************************************)
EXTENDS FiniteSets

CONSTANTS
    Conns,      \* connection objects, one for each accepted TCP connection
    Uids,       \* user ids (never the empty string)
    Tokens,     \* session tokens
    NoConn,     \* a null TcpConnectionPtr
    NoUid,      \* the empty uid
    NoToken     \* the empty token

ASSUME NullAssumption ==
    /\ NoConn \notin Conns
    /\ NoUid \notin Uids
    /\ NoToken \notin Tokens

VARIABLES
    tcp,        \* what the event loop knows of each connection
    context,    \* the Session kept in each connection
    users,      \* users_: uid -> connection
    rival,      \* history: a connection whose session of a uid met another one
    irregular   \* history: connections that logged in after their close, or
                \* over the session of another user

smVars == <<tcp, context, users, rival, irregular>>

\* An empty context and a default constructed Session act alike: the any_cast
\* that fails on the first reads as the empty uid and as not authenticated.
NoSession == [uid |-> NoUid, token |-> NoToken, authenticated |-> FALSE]

Session == [uid : Uids \cup {NoUid}, token : Tokens \cup {NoToken},
            authenticated : BOOLEAN]

TcpStates == {"none", "up", "closing", "down"}

\* The one type invariant of this component.
SMTypeOK ==
    /\ tcp \in [Conns -> TcpStates]
    /\ context \in [Conns -> Session]
    /\ users \in [Uids -> Conns \cup {NoConn}]
    /\ rival \in [Conns -> BOOLEAN]
    /\ irregular \in SUBSET Conns

\* A connection that was shut down by the server still reads until the peer
\* closes it; only one that is up still sends.
Reading(c) == tcp[c] \in {"up", "closing"}

IsAuthenticated(c) == context[c].authenticated

GetUid(c) == context[c].uid

GetConnection(u) == IF u \in Uids THEN users[u] ELSE NoConn

IsOnline(u) == GetConnection(u) # NoConn

-----------------------------------------------------------------------------
SMInit ==
    /\ tcp = [c \in Conns |-> "none"]
    /\ context = [c \in Conns |-> NoSession]
    /\ users = [u \in Uids |-> NoConn]
    /\ rival = [c \in Conns |-> FALSE]
    /\ irregular = {}

OnConnection(c) ==
    /\ tcp[c] = "none"
    /\ tcp' = [tcp EXCEPT ![c] = "up"]
    /\ UNCHANGED <<context, users, rival, irregular>>

\* conn->shutdown(), for a payload of an unknown kind or a bad frame length.
Shutdown(c) ==
    /\ tcp[c] = "up"
    /\ tcp' = [tcp EXCEPT ![c] = "closing"]
    /\ UNCHANGED <<context, users, rival, irregular>>

\* users_.erase(uid) for a uid that is not empty
EraseUser(uid) == [u \in Uids |-> IF u = uid THEN NoConn ELSE users[u]]

\* Mutant: the disconnection callback leaves users_ alone.
OnDisconnectionKeepsUser(c) ==
    /\ Reading(c)
    /\ tcp' = [tcp EXCEPT ![c] = "down"]
    /\ UNCHANGED <<context, users, rival, irregular>>

\* The context is not cleared, and the entry of the uid is erased whichever
\* connection it names.
OnDisconnection(c) ==
    /\ Reading(c)
    /\ tcp' = [tcp EXCEPT ![c] = "down"]
    /\ users' = EraseUser(GetUid(c))
    /\ UNCHANGED <<context, rival, irregular>>

\* The sessions of the uid u on other connections than c.
Rivals(c, u) == {d \in Conns \ {c} : GetUid(d) = u}

\* The history variables of a login of u on c.
RecordLogin(c, u) ==
    /\ rival' = [d \in Conns |->
                    IF d = c THEN \E e \in Rivals(c, u) : Reading(e)
                    ELSE rival[d] \/ d \in Rivals(c, u)]
    /\ irregular' = IF ~Reading(c) \/ GetUid(c) \notin {NoUid, u}
                    THEN irregular \cup {c} ELSE irregular

\* Mutant: users_.insert, which keeps an entry that is already there.
AuthenticateInsert(c, u, t) ==
    /\ tcp[c] # "none"
    /\ users' = [users EXCEPT ![u] = IF @ = NoConn THEN c ELSE @]
    /\ context' = [context EXCEPT
                     ![c] = [uid |-> u, token |-> t, authenticated |-> TRUE]]
    /\ RecordLogin(c, u)
    /\ UNCHANGED tcp

\* The token is stored and never read again.
Authenticate(c, u, t) ==
    /\ tcp[c] # "none"
    /\ users' = [users EXCEPT ![u] = c]
    /\ context' = [context EXCEPT
                     ![c] = [uid |-> u, token |-> t, authenticated |-> TRUE]]
    /\ RecordLogin(c, u)
    /\ UNCHANGED tcp

\* Mutant: the context is reset before the uid is read from it.
DeauthenticateResetFirst(c) ==
    /\ Reading(c)
    /\ context' = [context EXCEPT ![c] = NoSession]
    /\ UNCHANGED <<tcp, users, rival, irregular>>

Deauthenticate(c) ==
    /\ Reading(c)
    /\ users' = EraseUser(GetUid(c))
    /\ context' = [context EXCEPT ![c] = NoSession]
    /\ UNCHANGED <<tcp, rival, irregular>>

\* The process dies: the kernel closes every connection and the next process
\* starts with empty maps.
Restart ==
    /\ tcp' = [c \in Conns |-> IF tcp[c] = "none" THEN "none" ELSE "down"]
    /\ context' = [c \in Conns |-> NoSession]
    /\ users' = [u \in Uids |-> NoConn]
    /\ UNCHANGED <<rival, irregular>>

SMNext ==
    \/ \E c \in Conns :
         \/ OnConnection(c)
         \/ Shutdown(c)
         \/ OnDisconnection(c)
         \/ Deauthenticate(c)
         \/ \E u \in Uids, t \in Tokens : Authenticate(c, u, t)
    \/ Restart

SMSpec == SMInit /\ [][SMNext]_smVars

-----------------------------------------------------------------------------
(***************************************************************************)
(* Properties                                                               *)
(***************************************************************************)

\* A user whose connection reads, and whose session met no other session of
\* the same uid, is reachable: getConnection(uid) is that connection.  It is
\* about users_ being written by authenticate (session_manager.cc:31) and
\* erased by uid alone (lines 21 and 49): logging in again after the close of
\* the old connection was processed must find the user registered.
SequentialLoginReachable ==
    \A c \in Conns :
        Reading(c) /\ IsAuthenticated(c) /\ ~rival[c] => users[GetUid(c)] = c

\* users_ never names a closed connection, unless that connection logged in
\* after its close or over another user's session without a logout.  It is
\* about onDisconnection and deauthenticate erasing the uid they find in the
\* context (session_manager.cc:18-21, 47-49), whatever came in between.
RegisteredIsOpen ==
    \A u \in Uids :
        users[u] # NoConn /\ users[u] \notin irregular => Reading(users[u])

\* What the two properties need to be inductive.
UsersNameSessions ==
    \A u \in Uids :
        users[u] # NoConn /\ users[u] \notin irregular =>
            Reading(users[u]) /\ GetUid(users[u]) = u

AuthenticatedHasUid ==
    \A c \in Conns : IsAuthenticated(c) <=> GetUid(c) # NoUid

OverlapIsRecorded ==
    \A c, d \in Conns :
        c # d /\ Reading(c) /\ Reading(d) /\ IsAuthenticated(c)
              /\ GetUid(c) = GetUid(d) => rival[c]

UnusedHasNoSession ==
    \A c \in Conns : tcp[c] = "none" => ~IsAuthenticated(c)

SMInv ==
    /\ SMTypeOK
    /\ AuthenticatedHasUid
    /\ UnusedHasNoSession
    /\ UsersNameSessions
    /\ OverlapIsRecorded
    /\ SequentialLoginReachable
=============================================================================
