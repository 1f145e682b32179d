--------------------------- MODULE MySQLPoolProofs ---------------------------
(* For any threads and any size of the pool: the invariants of MySQLPool.    *)
EXTENDS MySQLPool, FiniteSetTheorems, SequenceTheorems, TLAPS

\* The sets that are counted are finite.
LEMMA CountedAreFinite ==
  ASSUME TypeOK
  PROVE  /\ IsFiniteSet(Holders) /\ Cardinality(Holders) \in Nat
         /\ IsFiniteSet(woken) /\ Cardinality(woken) \in Nat
         /\ Len(idle) \in Nat
  <1>1. IsFiniteSet(Holders) /\ IsFiniteSet(woken)
    BY FS_Subset, PoolAssumption DEF TypeOK, Holders
  <1> QED BY <1>1, FS_CardinalityType, LenProperties DEF TypeOK

\* After init() nobody waits and every connection is in the queue.
LEMMA PoolInitInv == Init => PoolInv
  <1> SUFFICES ASSUME Init PROVE PoolInv
    OBVIOUS
  <1> USE PoolAssumption
  <1>1. idle \in Seq(Handles) /\ Len(idle) \in 0..MaxSize
          /\ DOMAIN idle = 1..Len(idle)
    BY DEF Init
  <1>2. TypeOK /\ PlacesMatch
    BY <1>1 DEF Init, TypeOK, PlacesMatch, Pcs, Waiters
  <1>3. Holders = {} /\ Waiters = {}
    BY DEF Init, Holders, Waiters
  <1>4. ConnectionsAreExclusive
    BY <1>1, <1>3 DEF Init, ConnectionsAreExclusive
  <1>5. PoolAccounts
    BY <1>1, <1>3, FS_EmptySet DEF Init, PoolAccounts
  <1>6. NoLostWakeup
    BY <1>3 DEF NoLostWakeup
  <1> QED BY <1>2, <1>4, <1>5, <1>6 DEF PoolInv

\* Taking the front of the queue, from whichever place in getConnection.
LEMMA TakeInv ==
  ASSUME PoolInv, NEW t \in Threads, pc[t] \in {"out", "wait", "again"},
         Take(t), retry' \in SUBSET Threads
  PROVE  PoolInv'
  <1> USE PoolAssumption DEF PoolInv
  <1>0. /\ Head(idle) \in Handles /\ Head(idle) = idle[1]
        /\ Tail(idle) \in Seq(Handles) /\ Len(Tail(idle)) = Len(idle) - 1
        /\ Len(idle) \in Nat \ {0}
        /\ \A i \in 1..Len(Tail(idle)) : Tail(idle)[i] = idle[i + 1]
    BY HeadTailProperties, LenProperties DEF Take, TypeOK
  <1>1. t \notin Holders
    BY DEF Holders, PlacesMatch
  <1>2. Holders' = Holders \cup {t}
    BY <1>0 DEF Take, Holders, TypeOK
  <1>3. Waiters' = Waiters \ {t}
    BY DEF Take, Waiters, TypeOK
  <1>4. PoolAccounts'
    <2>1. Cardinality(Holders') = Cardinality(Holders) + 1
      BY <1>1, <1>2, CountedAreFinite, FS_AddElement
    <2>2. activeConns' = activeConns + 1 /\ Len(idle') = Len(idle) - 1
      BY <1>0 DEF Take
    <2>3. activeConns \in Nat /\ Cardinality(Holders) \in Nat
      BY CountedAreFinite DEF TypeOK
    <2> QED BY <1>0, <2>1, <2>2, <2>3 DEF PoolAccounts
  <1>5. TypeOK'
    BY <1>0, CountedAreFinite DEF Take, TypeOK, Pcs, PoolAccounts
  <1>6. PlacesMatch'
    BY <1>0, <1>3 DEF Take, PlacesMatch, TypeOK
  <1>7. ConnectionsAreExclusive'
    <2>1. \A i \in 1..Len(idle') : idle'[i] \in open' /\ idle'[i] # Head(idle)
      BY <1>0 DEF Take, ConnectionsAreExclusive
    <2>2. \A i, k \in 1..Len(idle') : idle'[i] = idle'[k] => i = k
      BY <1>0 DEF Take, ConnectionsAreExclusive
    <2>3. held'[t] = Head(idle) /\ \A r \in Holders : held'[r] = held[r]
      BY <1>0, <1>1 DEF Take, TypeOK, Holders
    <2>4. Head(idle) \in open /\ \A r \in Holders : held[r] # Head(idle)
      BY <1>0 DEF ConnectionsAreExclusive, IsIdle
    <2>5. \A r \in Holders : held[r] \in open' /\ \A i \in 1..Len(idle') : idle'[i] # held[r]
      BY <1>0 DEF Take, ConnectionsAreExclusive, IsIdle
    <2>6. \A r, q \in Holders' : held'[r] = held'[q] => r = q
      BY <1>2, <2>3, <2>4 DEF ConnectionsAreExclusive
    <2>7. \A r \in Holders' : held'[r] \in open' /\ ~IsIdle(held[r])'
      BY <1>2, <2>1, <2>3, <2>4, <2>5 DEF Take, IsIdle
    <2> QED BY <2>1, <2>2, <2>6, <2>7 DEF ConnectionsAreExclusive
  <1>8. NoLostWakeup'
    <2>1. Cardinality(woken) \in Nat
      BY CountedAreFinite
    <2>2. Cardinality(woken \ {t}) \in {Cardinality(woken), Cardinality(woken) - 1}
      BY CountedAreFinite, FS_RemoveElement
    <2>3. woken' = woken \ {t} /\ Len(idle') = Len(idle) - 1
      BY <1>0 DEF Take
    <2>4. CASE Waiters \subseteq woken
      BY <1>3, <2>3, <2>4 DEF NoLostWakeup
    <2>5. CASE Len(idle) <= Cardinality(woken)
      BY <1>0, <2>1, <2>2, <2>3, <2>5 DEF NoLostWakeup
    <2> QED BY <2>4, <2>5 DEF NoLostWakeup
  <1> QED BY <1>4, <1>5, <1>6, <1>7, <1>8

\* Finding the queue empty: going to sleep, staying asleep, or giving up.
LEMMA EmptyInv ==
  ASSUME PoolInv, NEW t \in Threads, pc[t] \in {"out", "wait", "again"},
         idle = << >>, UNCHANGED <<idle, activeConns, open, held>>,
         NEW p \in {"out", "wait"}, pc' = [pc EXCEPT ![t] = p],
         woken' \in {woken, woken \ {t}}, p = "out" => t \notin woken',
         retry' \in SUBSET Threads
  PROVE  PoolInv'
  <1> USE DEF PoolInv
  <1>1. TypeOK' /\ PlacesMatch'
    BY DEF TypeOK, PlacesMatch, Pcs, Waiters
  <1>2. ConnectionsAreExclusive' /\ PoolAccounts'
    BY DEF ConnectionsAreExclusive, PoolAccounts, IsIdle, Holders
  <1>3. Len(idle') = 0 /\ Cardinality(woken') \in Nat
    BY <1>1, CountedAreFinite, FS_Subset, FS_CardinalityType, PoolAssumption DEF TypeOK
  <1>4. NoLostWakeup'
    BY <1>3 DEF NoLostWakeup
  <1> QED BY <1>1, <1>2, <1>4

\* Closing the connection in hand, without giving it back.
LEMMA CloseInv ==
  ASSUME PoolInv, NEW t \in Threads, pc[t] \in {"ping", "use"},
         open' = open \ {held[t]}, held' = [held EXCEPT ![t] = NoHandle],
         activeConns' \in {activeConns, activeConns - 1},
         NEW p \in {"out", "again"}, pc' = [pc EXCEPT ![t] = p],
         retry' \in SUBSET Threads, UNCHANGED <<idle, woken>>
  PROVE  PoolInv'
  <1> USE PoolAssumption DEF PoolInv
  <1>1. t \in Holders /\ Holders' = Holders \ {t}
    BY DEF Holders, PlacesMatch, TypeOK
  <1>2. Waiters' = Waiters
    BY DEF Waiters, TypeOK
  <1>3. PoolAccounts' /\ activeConns' \in 0..MaxSize
    <2>1. Cardinality(Holders') = Cardinality(Holders) - 1
      BY <1>1, CountedAreFinite, FS_RemoveElement
    <2>2. /\ Cardinality(Holders) \in Nat /\ Cardinality(Holders') \in Nat
          /\ activeConns \in Nat /\ Len(idle) \in Nat
      BY <1>1, CountedAreFinite, FS_RemoveElement, FS_CardinalityType DEF TypeOK
    <2> QED BY <2>1, <2>2 DEF PoolAccounts, TypeOK
  <1>4. TypeOK' /\ PlacesMatch'
    BY <1>2, <1>3 DEF TypeOK, PlacesMatch, Pcs
  <1>5. ConnectionsAreExclusive'
    BY <1>1 DEF ConnectionsAreExclusive, IsIdle, TypeOK, Holders
  <1>6. NoLostWakeup'
    BY <1>2 DEF NoLostWakeup
  <1> QED BY <1>3, <1>4, <1>5, <1>6

\* The ping succeeded, or its connection was replaced by a new one.
LEMMA UseInv ==
  ASSUME PoolInv, NEW t \in Threads, pc[t] = "ping",
         NEW h \in (Handles \ open) \cup {held[t]},
         open' = (open \ {held[t]}) \cup {h}, held' = [held EXCEPT ![t] = h],
         pc' = [pc EXCEPT ![t] = "use"],
         UNCHANGED <<idle, activeConns, retry, woken>>
  PROVE  PoolInv'
  <1> USE PoolAssumption DEF PoolInv
  <1>0. h \in Handles /\ held[t] \in Handles
    BY DEF TypeOK, PlacesMatch
  <1>1. Holders' = Holders /\ t \in Holders
    BY <1>0 DEF Holders, PlacesMatch, TypeOK
  <1>2. Waiters' = Waiters
    BY DEF Waiters, TypeOK
  <1>3. TypeOK' /\ PlacesMatch'
    BY <1>0, <1>2 DEF TypeOK, PlacesMatch, Pcs
  <1>4. PoolAccounts' /\ NoLostWakeup'
    BY <1>1, <1>2 DEF PoolAccounts, NoLostWakeup
  <1>5. ConnectionsAreExclusive'
    <2>1. ~IsIdle(h) /\ \A r \in Holders \ {t} : held[r] # h
      BY <1>1 DEF ConnectionsAreExclusive, IsIdle
    <2>2. \A r \in Holders : held'[r] = IF r = t THEN h ELSE held[r]
      BY DEF TypeOK, Holders
    <2>3. \A i \in 1..Len(idle) : idle[i] \in open'
      BY <1>1 DEF ConnectionsAreExclusive, IsIdle
    <2>4. \A r \in Holders \ {t} : held[r] \in open'
      BY <1>1 DEF ConnectionsAreExclusive
    <2>5. \A r \in Holders' : held'[r] \in open' /\ ~IsIdle(held[r])'
      BY <1>1, <2>1, <2>2, <2>4 DEF ConnectionsAreExclusive, IsIdle
    <2>6. \A r, q \in Holders' : held'[r] = held'[q] => r = q
      BY <1>1, <2>1, <2>2 DEF ConnectionsAreExclusive
    <2> QED BY <2>3, <2>5, <2>6 DEF ConnectionsAreExclusive
  <1> QED BY <1>3, <1>4, <1>5

\* Giving a connection back, and notifying one waiter.
LEMMA ReturnInv ==
  ASSUME PoolInv, NEW t \in Threads, ReturnConnection(t) PROVE PoolInv'
  <1> USE PoolAssumption DEF PoolInv
  <1>0. held[t] \in Handles /\ t \in Holders
    BY DEF ReturnConnection, TypeOK, PlacesMatch, Holders
  <1>1. /\ idle' \in Seq(Handles) /\ Len(idle') = Len(idle) + 1
        /\ \A i \in 1..Len(idle) : idle'[i] = idle[i]
        /\ idle'[Len(idle) + 1] = held[t]
    BY <1>0, AppendProperties DEF ReturnConnection, TypeOK
  <1>2. Holders' = Holders \ {t}
    BY DEF ReturnConnection, Holders, TypeOK
  <1>3. Waiters' = Waiters
    BY DEF ReturnConnection, Waiters, TypeOK
  <1>4. PoolAccounts' /\ activeConns' \in 0..MaxSize
    <2>1. Cardinality(Holders') = Cardinality(Holders) - 1
      BY <1>0, <1>2, CountedAreFinite, FS_RemoveElement
    <2>2. /\ Cardinality(Holders) \in Nat /\ Cardinality(Holders') \in Nat
          /\ activeConns \in Nat /\ Len(idle) \in Nat
      BY <1>2, CountedAreFinite, FS_RemoveElement, FS_CardinalityType DEF TypeOK
    <2> QED BY <1>1, <2>1, <2>2 DEF ReturnConnection, PoolAccounts, TypeOK
  <1>5. woken' \in SUBSET Threads /\ woken' \subseteq Waiters
    BY DEF ReturnConnection, NotifyOne, PlacesMatch, Waiters
  <1>6. TypeOK' /\ PlacesMatch'
    BY <1>1, <1>3, <1>4, <1>5 DEF ReturnConnection, TypeOK, PlacesMatch, Pcs
  <1>7. ConnectionsAreExclusive'
    <2>1. \A r \in Holders' : held'[r] = held[r] /\ held[r] # held[t]
      BY <1>0, <1>2 DEF ReturnConnection, ConnectionsAreExclusive, TypeOK, Holders
    <2>2. Len(idle) \in Nat /\ \A i \in 1..Len(idle') :
            i \in 1..Len(idle) \/ i = Len(idle) + 1
      BY <1>1, CountedAreFinite
    <2>3. \A i \in 1..Len(idle') : idle'[i] \in open'
      BY <1>0, <1>1, <2>2 DEF ReturnConnection, ConnectionsAreExclusive
    <2>4. \A i, k \in 1..Len(idle') : idle'[i] = idle'[k] => i = k
      BY <1>0, <1>1, <2>2 DEF ConnectionsAreExclusive, IsIdle
    <2>5. \A r \in Holders' : held'[r] \in open' /\ ~IsIdle(held[r])'
      BY <1>1, <1>2, <2>1, <2>2 DEF ReturnConnection, ConnectionsAreExclusive, IsIdle
    <2>6. \A r, q \in Holders' : held'[r] = held'[q] => r = q
      BY <1>2, <2>1 DEF ConnectionsAreExclusive
    <2> QED BY <2>3, <2>4, <2>5, <2>6 DEF ConnectionsAreExclusive
  <1>8. NoLostWakeup'
    <2>1. CASE Waiters \subseteq woken
      BY <1>3, <2>1 DEF ReturnConnection, NotifyOne, NoLostWakeup
    <2>2. CASE ~(Waiters \subseteq woken)
      <3>1. PICK w \in Waiters \ woken : woken' = woken \cup {w}
        BY <2>2 DEF ReturnConnection, NotifyOne
      <3>2. Cardinality(woken') = Cardinality(woken) + 1
        BY <3>1, CountedAreFinite, FS_AddElement
      <3> QED BY <1>1, <2>2, <3>2, CountedAreFinite DEF NoLostWakeup
    <2> QED BY <2>1, <2>2
  <1> QED BY <1>4, <1>6, <1>7, <1>8

\* The inductive invariant holds of every behaviour of the pool.
THEOREM PoolInvariance == Spec => []PoolInv
  <1>1. PoolInv /\ [Next]_vars => PoolInv'
    <2> SUFFICES ASSUME PoolInv, [Next]_vars PROVE PoolInv'
      OBVIOUS
    <2>0. retry \in SUBSET Threads /\ woken \subseteq Waiters
            /\ pc \in [Threads -> Pcs]
      BY DEF PoolInv, TypeOK, PlacesMatch
    <2>1. ASSUME NEW t \in Threads, NEW verify \in BOOLEAN, GetConnection(t, verify)
          PROVE  PoolInv'
      BY <2>0, <2>1, TakeInv, EmptyInv DEF GetConnection
    <2>2. ASSUME NEW t \in Threads, Wake(t) PROVE PoolInv'
      <3>1. pc[t] = "wait" /\ (UNCHANGED pc => pc' = [pc EXCEPT ![t] = "wait"])
        BY <2>0, <2>2 DEF Wake, Waiters
      <3> QED BY <2>0, <2>2, <3>1, TakeInv, EmptyInv DEF Wake
    <2>3. ASSUME NEW t \in Threads, Timeout(t) PROVE PoolInv'
      BY <2>0, <2>3, TakeInv, EmptyInv DEF Timeout
    <2>4. ASSUME NEW t \in Threads, PingOk(t) PROVE PoolInv'
      <3>1. open = (open \ {held[t]}) \cup {held[t]}
              /\ held = [held EXCEPT ![t] = held[t]]
        BY <2>4 DEF PingOk, PoolInv, TypeOK, PlacesMatch,
           ConnectionsAreExclusive, Holders
      <3> QED BY <2>4, <3>1, UseInv DEF PingOk
    <2>5. ASSUME NEW t \in Threads, PingFails(t) PROVE PoolInv'
      BY <2>0, <2>5, UseInv, CloseInv DEF PingFails
    <2>6. ASSUME NEW t \in Threads, VerifyCloses(t) PROVE PoolInv'
      BY <2>0, <2>6, CloseInv DEF VerifyCloses
    <2>7. ASSUME NEW t \in Threads, VerifyGetsAnother(t) PROVE PoolInv'
      BY <2>0, <2>7, TakeInv, EmptyInv DEF VerifyGetsAnother
    <2>8. CASE UNCHANGED vars
      BY <2>8 DEF vars, PoolInv, TypeOK, PlacesMatch, ConnectionsAreExclusive,
         PoolAccounts, NoLostWakeup, IsIdle, Holders, Waiters
    <2> QED BY <2>1, <2>2, <2>3, <2>4, <2>5, <2>6, <2>7, <2>8, ReturnInv
            DEF Next, Inside
  <1> QED BY <1>1, PoolInitInv, PTL DEF Spec

\* No connection is used by two threads, or used while it is in the queue or
\* closed, for any number of threads and connections (db.cc:165-200).
THEOREM PoolExclusive == Spec => []ConnectionsAreExclusive
  BY PoolInvariance, PTL DEF PoolInv

\* activeConns_ covers the connections in use and the pool never grows.
THEOREM PoolBounded == Spec => []PoolAccounts
  BY PoolInvariance, PTL DEF PoolInv

\* notify_one in returnConnection loses no wake-up, for any number of waiters
\* (db.cc:168-170, 197-199).
THEOREM PoolWakeups == Spec => []NoLostWakeup
  BY PoolInvariance, PTL DEF PoolInv
=============================================================================
