----------------------------- MODULE MCChatLogin -----------------------------
(* Small instances of ChatLogin, and what the documents say of it.          *)
EXTENDS ChatLogin, TLC

\* Only for the runs that check no liveness.
Symmetry == Permutations(Conns) \cup Permutations(Uids)
            \cup Permutations(Tokens) \cup Permutations(Slots)

\* History: the connection of the latest login of every user.  A login shows
\* as a change of users to a connection, or finds it there already.
VARIABLE newest

HInit ==
    /\ Init
    /\ newest = [u \in Uids |-> NoConn]

HNext ==
    /\ Next
    /\ newest' = [u \in Uids |->
                    IF users'[u] \notin {users[u], NoConn} THEN users'[u]
                    ELSE newest[u]]

HSpec == HInit /\ [][HNext]_<<vars, newest>>

HFairSpec == HSpec /\ Fairness

\* DESIGN.md:264 says that a login on a new connection restores the user and
\* binds the new connection.  So the connection of the latest login, while it
\* reads and is logged in as that user, is the registered one.  The close of
\* the old connection may be handled after the new login, and erases the uid
\* whichever connection it names (session_manager.cc:21).
NewestLoginReachable ==
    \A u \in Uids :
        LET c == newest[u] IN
        c # NoConn => (Reading(c) /\ GetUid(c) = u => users[u] = c)
=============================================================================
