------------------------------ MODULE MySQLPool ------------------------------
(***************************************************************************)
(* MySQLPool (src/src/db.cc): worker threads share maxSize_ connections to  *)
(* MySQL.  getConnection waits on cond_ for at most a second, takes the     *)
(* connection at the front of idle_, pings it without the lock and makes a  *)
(* new one if the ping fails; returnConnection puts one back and notifies   *)
(* one waiter.  Every repository calls the pool in that way; verifyUser     *)
(* (src/src/repository/mysql_user_repo.cc) also closes the connection of a  *)
(* failed query and asks for another one.                                   *)
(*                                                                          *)
(* What a thread does under mutex_ is one step, and so is what it does with *)
(* a connection that it alone holds.                                        *)
(***************************************************************************)
EXTENDS Naturals, Sequences, FiniteSets

CONSTANTS
    Threads,        \* the worker threads
    Handles,        \* MYSQL objects; a closed one may be allocated again
    NoHandle,       \* a null MYSQL*
    MaxSize         \* maxSize_

ASSUME PoolAssumption ==
    /\ IsFiniteSet(Threads)
    /\ NoHandle \notin Handles
    /\ MaxSize \in Nat \ {0}

VARIABLES
    idle,           \* idle_
    activeConns,    \* activeConns_
    open,           \* the connections that are not closed
    held,           \* the connection that each thread has in its hands
    pc,             \* where each thread is
    retry,          \* the threads in verifyUser that may still retry
    woken           \* waiters that were notified and have yet to run

vars == <<idle, activeConns, open, held, pc, retry, woken>>

Pcs == {"out", "wait", "ping", "use", "again"}

\* The one type invariant of this component.
TypeOK ==
    /\ idle \in Seq(Handles)
    /\ activeConns \in 0..MaxSize
    /\ open \in SUBSET Handles
    /\ held \in [Threads -> Handles \cup {NoHandle}]
    /\ pc \in [Threads -> Pcs]
    /\ retry \in SUBSET Threads
    /\ woken \in SUBSET Threads

\* init() stops at the first connection that cannot be made, and main ignores
\* that it failed: the server starts with the connections made so far.
Init ==
    /\ \E n \in 0..MaxSize : idle \in [1..n -> Handles]
    /\ \A i, j \in DOMAIN idle : idle[i] = idle[j] => i = j
    /\ activeConns = 0
    /\ open = {idle[i] : i \in DOMAIN idle}
    /\ held = [t \in Threads |-> NoHandle]
    /\ pc = [t \in Threads |-> "out"]
    /\ retry = {}
    /\ woken = {}

Waiters == {t \in Threads : pc[t] = "wait"}

Holders == {t \in Threads : held[t] # NoHandle}

-----------------------------------------------------------------------------
\* getConnection once the predicate of the wait holds
Take(t) ==
    /\ idle # << >>
    /\ held' = [held EXCEPT ![t] = Head(idle)]
    /\ idle' = Tail(idle)
    /\ activeConns' = activeConns + 1
    /\ pc' = [pc EXCEPT ![t] = "ping"]
    /\ woken' = woken \ {t}
    /\ UNCHANGED open

\* A repository asks for a connection; verify tells the call of verifyUser.
GetConnection(t, verify) ==
    /\ pc[t] = "out"
    /\ \/ Take(t)
       \/ /\ idle = << >>
          /\ pc' = [pc EXCEPT ![t] = "wait"]
          /\ UNCHANGED <<idle, activeConns, open, held, woken>>
    /\ retry' = IF verify THEN retry \cup {t} ELSE retry \ {t}

\* A waiter that was notified runs: another thread may have been faster.
Wake(t) ==
    /\ t \in woken
    /\ \/ Take(t)
       \/ /\ idle = << >>
          /\ woken' = woken \ {t}
          /\ UNCHANGED <<idle, activeConns, open, held, pc>>
    /\ UNCHANGED retry

\* Mutant: a wait without the limit of a second.
TimeoutNever(t) == FALSE /\ UNCHANGED vars

\* The second is over.  wait_for looks at idle_ a last time; if it is empty,
\* getConnection returns null and the repository call fails.
Timeout(t) ==
    /\ pc[t] = "wait"
    /\ \/ Take(t) /\ UNCHANGED retry
       \/ /\ idle = << >>
          /\ pc' = [pc EXCEPT ![t] = "out"]
          /\ woken' = woken \ {t}
          /\ retry' = retry \ {t}
          /\ UNCHANGED <<idle, activeConns, open, held>>

PingOk(t) ==
    /\ pc[t] = "ping"
    /\ pc' = [pc EXCEPT ![t] = "use"]
    /\ UNCHANGED <<idle, activeConns, open, held, retry, woken>>

\* Mutant: the stale connection goes back to the pool and is replaced too.
PingFailsKeepsStale(t) ==
    /\ pc[t] = "ping"
    /\ \E h \in Handles \ open :
         /\ open' = open \cup {h}
         /\ held' = [held EXCEPT ![t] = h]
         /\ idle' = Append(idle, held[t])
    /\ pc' = [pc EXCEPT ![t] = "use"]
    /\ UNCHANGED <<activeConns, retry, woken>>

\* The ping fails: the connection is closed and another is made.  When that
\* fails too, the pool has one connection less for good.
PingFails(t) ==
    /\ pc[t] = "ping"
    /\ \/ /\ \E h \in (Handles \ open) \cup {held[t]} :
               /\ open' = (open \ {held[t]}) \cup {h}
               /\ held' = [held EXCEPT ![t] = h]
          /\ pc' = [pc EXCEPT ![t] = "use"]
          /\ UNCHANGED <<activeConns, retry>>
       \/ /\ open' = open \ {held[t]}
          /\ held' = [held EXCEPT ![t] = NoHandle]
          /\ activeConns' = activeConns - 1
          /\ pc' = [pc EXCEPT ![t] = "out"]
          /\ retry' = retry \ {t}
    /\ UNCHANGED <<idle, woken>>

\* cond_.notify_one()
NotifyOne ==
    IF Waiters \subseteq woken THEN UNCHANGED woken
    ELSE \E w \in Waiters \ woken : woken' = woken \cup {w}

\* Mutant: notify_one only when the queue was empty.
ReturnConnectionNotifiesOnFirst(t) ==
    /\ pc[t] = "use"
    /\ idle' = Append(idle, held[t])
    /\ activeConns' = activeConns - 1
    /\ held' = [held EXCEPT ![t] = NoHandle]
    /\ pc' = [pc EXCEPT ![t] = "out"]
    /\ retry' = retry \ {t}
    /\ IF idle = << >> THEN NotifyOne ELSE UNCHANGED woken
    /\ UNCHANGED open

ReturnConnection(t) ==
    /\ pc[t] = "use"
    /\ idle' = Append(idle, held[t])
    /\ activeConns' = activeConns - 1
    /\ held' = [held EXCEPT ![t] = NoHandle]
    /\ pc' = [pc EXCEPT ![t] = "out"]
    /\ retry' = retry \ {t}
    /\ NotifyOne
    /\ UNCHANGED open

\* Mutant: the connection of the failed query is given back, and closed.
VerifyClosesReturns(t) ==
    /\ pc[t] = "use"
    /\ t \in retry
    /\ idle' = Append(idle, held[t])
    /\ activeConns' = activeConns - 1
    /\ open' = open \ {held[t]}
    /\ held' = [held EXCEPT ![t] = NoHandle]
    /\ pc' = [pc EXCEPT ![t] = "again"]
    /\ retry' = retry \ {t}
    /\ NotifyOne

\* verifyUser: the first query failed; the connection is closed and never
\* returned, so activeConns_ still counts it.
VerifyCloses(t) ==
    /\ pc[t] = "use"
    /\ t \in retry
    /\ open' = open \ {held[t]}
    /\ held' = [held EXCEPT ![t] = NoHandle]
    /\ pc' = [pc EXCEPT ![t] = "again"]
    /\ retry' = retry \ {t}
    /\ UNCHANGED <<idle, activeConns, woken>>

\* verifyUser: the second call of getConnection
VerifyGetsAnother(t) ==
    /\ pc[t] = "again"
    /\ \/ Take(t)
       \/ /\ idle = << >>
          /\ pc' = [pc EXCEPT ![t] = "wait"]
          /\ UNCHANGED <<idle, activeConns, open, held, woken>>
    /\ UNCHANGED retry

Inside(t) ==
    \/ Wake(t) \/ Timeout(t) \/ PingOk(t) \/ PingFails(t)
    \/ ReturnConnection(t) \/ VerifyCloses(t) \/ VerifyGetsAnother(t)

Next == \E t \in Threads :
    \/ \E verify \in BOOLEAN : GetConnection(t, verify)
    \/ Inside(t)

Spec == Init /\ [][Next]_vars

\* A thread in the pool, or in a query, goes on: the ping, the connect and the
\* query have timeouts of three seconds.  The second of a wait passes even if
\* the waiter is notified again and again and always comes too late.
Fairness == \A t \in Threads : WF_vars(Inside(t)) /\ WF_vars(Timeout(t))

FairSpec == Spec /\ Fairness

-----------------------------------------------------------------------------
(***************************************************************************)
(* Properties                                                               *)
(***************************************************************************)

IsIdle(h) == \E i \in 1..Len(idle) : idle[i] = h

\* No two threads use one connection, and no thread uses one that is in the
\* queue, stands in it twice or is closed, although stale connections are
\* replaced outside the lock (db.cc:180-188) and verifyUser closes what it
\* was given (mysql_user_repo.cc:62).
ConnectionsAreExclusive ==
    /\ \A t \in Holders : held[t] \in open /\ ~IsIdle(held[t])
    /\ \A t, r \in Holders : held[t] = held[r] => t = r
    /\ \A i \in 1..Len(idle) : idle[i] \in open
    /\ \A i, j \in 1..Len(idle) : idle[i] = idle[j] => i = j

\* activeConns_ is never less than the connections in use, and with the queue
\* never more than maxSize_: the pool does not grow, whatever pings, connects
\* and queries fail (db.cc:177, 185, 198; mysql_user_repo.cc:62-64).
PoolAccounts ==
    /\ Cardinality(Holders) <= activeConns
    /\ Len(idle) + activeConns <= MaxSize

\* While some waiter has not been notified, there are as many notified ones
\* about to run as there are connections in the queue: no connection lies in
\* the queue while every thread that wants it sleeps (db.cc:168-170, 197-199).
NoLostWakeup == Waiters \subseteq woken \/ Len(idle) <= Cardinality(woken)

\* A thread that asked for a connection is not left waiting: it gets one or is
\* refused (db.cc:168-173), even when the pool has lost all its connections.
WaitEnds == \A t \in Threads : pc[t] = "wait" ~> pc[t] # "wait"

\* What the invariants need to be inductive.
PlacesMatch ==
    /\ \A t \in Threads : held[t] # NoHandle <=> pc[t] \in {"ping", "use"}
    /\ woken \subseteq Waiters

PoolInv ==
    /\ TypeOK
    /\ PlacesMatch
    /\ ConnectionsAreExclusive
    /\ PoolAccounts
    /\ NoLostWakeup
=============================================================================
