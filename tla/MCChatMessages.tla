---------------------------- MODULE MCChatMessages ----------------------------
(* Small instances of ChatMessages, and what the documents say of it.       *)
EXTENDS ChatMessages, TLC

CONSTANTS c1, c2, l1, l2

\* Two loops; muduo deals the connections out to its loops in turn.
TwoLoops == [c \in Conns |-> IF c = c2 THEN l2 ELSE l1]

Symmetry == Permutations(Uids) \cup Permutations(Rooms) \cup Permutations(Slots)

\* DESIGN.md:178 says that a message is pushed to the client of its target.  So
\* a message for a user is never sent on a connection where another user is
\* logged in.  A connection that logs in over the session of another user
\* stays registered for both (session_manager.cc:31).
SentToItsReceiver ==
    \A c \in Conns : \A i \in 1..Len(wire[c]) :
        LET x == wire[c][i] IN
        x.item.kind = "msg" /\ x.item.uid = messages[x.item.msg].to
            => x.session \in {x.item.uid, NoUid}
=============================================================================
