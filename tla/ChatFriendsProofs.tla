-------------------------- MODULE ChatFriendsProofs --------------------------
(* For any users, slots and bounds: the cached friends are symmetric, and     *)
(* agree with the table on the pairs that nothing disturbed.                  *)
EXTENDS ChatFriends, TLAPS

\* What a job touches is symmetric.
LEMMA TouchedIsSymmetric ==
  ASSUME NEW j \in Job, NEW a \in Uids, NEW b \in Uids
  PROVE  <<a, b>> \in Touched(j) <=> <<b, a>> \in Touched(j)
  BY DEF Touched, Both, Pairs

\* The first state satisfies the inductive invariant.
LEMMA FriendInitInv == Init => FriendInv
  <1> SUFFICES ASSUME Init PROVE FriendInv
    OBVIOUS
  <1> USE FriendAssumption DEF Init, Idle
  <1>1. TypeOK
    BY DEF TypeOK, Statuses, Job, Pcs
  <1>2. CacheIsSymmetric /\ CacheAgreesWithTable
    BY DEF CacheIsSymmetric, CacheAgreesWithTable, Agrees
  <1>3. \A s \in Slots : Touched(job[s]) = {}
    BY DEF Touched
  <1>4. OneJobAPair /\ JobsAgree
    BY <1>3 DEF OneJobAPair, JobsAgree
  <1> QED BY <1>1, <1>2, <1>4 DEF FriendInv

\* The bounds and the history stay in their sets.
BoundsOK ==
  /\ requests \in 0..MaxRequests
  /\ faults \in 0..MaxFaults
  /\ restarts \in 0..MaxRestarts
  /\ disturbed \in SUBSET Pairs
  /\ loaded \in SUBSET Uids

\* A job of the same request at another place touches the same pairs.
LEMMA SameTouched ==
  ASSUME NEW j \in Job, NEW k \in Job, j.pc # "idle", k.pc # "idle",
         k.a = j.a, k.b = j.b, k.pc \in LoginPcs <=> j.pc \in LoginPcs
  PROVE  Touched(k) = Touched(j)
  BY DEF Touched

\* A worker's step that takes its job from one place to the next keeps the
\* invariant, if it only writes rows of its own pair and the new place is right
\* for the table as it is then.
LEMMA WorkerStep ==
  ASSUME FriendInv, NEW s \in Slots, NEW k \in Job,
         job' = [job EXCEPT ![s] = k],
         job[s].pc # "idle", k.pc # "idle",
         k.a = job[s].a, k.b = job[s].b,
         k.pc \in LoginPcs <=> job[s].pc \in LoginPcs,
         status' \in [Pairs -> Statuses],
         \A p \in Pairs : p \notin Touched(job[s]) \/ job[s].pc \in LoginPcs
                            => status'[p] = status[p],
         UNCHANGED <<cache, loaded>>,
         disturbed \subseteq disturbed', BoundsOK',
         \A a, b \in Uids : <<a, b>> \in Touched(k) \ disturbed' => JobAgrees(k, a, b)'
  PROVE  FriendInv'
  <1> USE DEF FriendInv
  <1>1. /\ Touched(k) = Touched(job[s])
        /\ job'[s] = k
        /\ \A r \in Slots \ {s} : job'[r] = job[r]
        /\ \A r \in Slots : Touched(job'[r]) = Touched(job[r])
        /\ \A r \in Slots : job'[r].pc \in LoginPcs <=> job[r].pc \in LoginPcs
    BY SameTouched DEF TypeOK
  <1>2. TypeOK'
    BY <1>1 DEF TypeOK, BoundsOK, cache
  <1>3. CacheIsSymmetric'
    BY DEF CacheIsSymmetric, cache
  <1>4. OneJobAPair'
    BY <1>1 DEF OneJobAPair
  <1>5. ASSUME NEW a \in Uids, NEW b \in Uids,
               <<a, b>> \notin Touched(job[s]) \/ job[s].pc \in LoginPcs
        PROVE  (AreFriends(a, b)' <=> AreFriends(a, b)) /\ (Agrees(a, b)' <=> Agrees(a, b))
    <2>1. <<a, b>> \in Pairs /\ <<b, a>> \in Pairs
      BY DEF Pairs
    <2>2. status'[<<a, b>>] = status[<<a, b>>] /\ status'[<<b, a>>] = status[<<b, a>>]
      BY <1>5, <2>1, TouchedIsSymmetric DEF TypeOK
    <2> QED BY <2>2 DEF AreFriends, Agrees, cache
  <1>6. CacheAgreesWithTable'
    BY <1>1, <1>5 DEF CacheAgreesWithTable
  <1>7. JobsAgree'
    <2> SUFFICES ASSUME NEW r \in Slots, NEW a \in Uids, NEW b \in Uids,
                        <<a, b>> \in Touched(job'[r]) \ disturbed'
                 PROVE  JobAgrees(job[r], a, b)'
      BY DEF JobsAgree
    <2>1. CASE r = s
      BY <1>1, <2>1 DEF JobAgrees, Agrees, AreFriends
    <2>2. CASE r # s
      <3>1. JobAgrees(job[r], a, b)
        BY <1>1 DEF JobsAgree
      <3>2. <<a, b>> \notin Touched(job[s]) \/ job[s].pc \in LoginPcs
        BY <1>1, <2>2 DEF OneJobAPair
      <3> QED BY <1>1, <1>5, <2>2, <3>1, <3>2 DEF JobAgrees
    <2> QED BY <2>1, <2>2
  <1> QED BY <1>2, <1>3, <1>4, <1>6, <1>7

\* A callback ends its job; it keeps the invariant if it only writes the cache of
\* what its job touches, and what it leaves there agrees with the table.
LEMMA CallbackStep ==
  ASSUME FriendInv, NEW s \in Slots, job[s].pc # "idle",
         job' = [job EXCEPT ![s] = Idle],
         UNCHANGED <<status, disturbed>>, BoundsOK',
         pending' \in SUBSET Pairs,
         friendships' \in [Uids -> SUBSET Uids], CacheIsSymmetric',
         \A a, b \in Uids : <<a, b>> \notin Touched(job[s]) =>
             /\ b \in friendships'[a] <=> b \in friendships[a]
             /\ a \in loaded' <=> a \in loaded,
         \A a, b \in Uids : <<a, b>> \in Touched(job[s]) \ disturbed => Agrees(a, b)'
  PROVE  FriendInv'
  <1> USE FriendAssumption DEF FriendInv
  <1>1. /\ job'[s].pc = "idle" /\ Touched(job'[s]) = {}
        /\ \A r \in Slots \ {s} : job'[r] = job[r]
    BY DEF TypeOK, Idle, Touched
  <1>2. TypeOK'
    <2>1. Idle \in Job /\ Idle.pc = "idle"
      BY DEF Idle, Job, Pcs
    <2>2. job' \in [Slots -> Job]
      BY <2>1 DEF TypeOK
    <2> QED BY <1>1, <2>2 DEF TypeOK, BoundsOK
  <1>3. OneJobAPair'
    BY <1>1 DEF OneJobAPair
  <1>4. ASSUME NEW a \in Uids, NEW b \in Uids
        PROVE  /\ AreFriends(a, b)' <=> AreFriends(a, b)
               /\ <<a, b>> \notin Touched(job[s]) => (Agrees(a, b)' <=> Agrees(a, b))
    BY DEF AreFriends, Agrees
  <1>5. CacheAgreesWithTable'
    <2> SUFFICES ASSUME NEW a \in Uids, NEW b \in Uids, <<a, b>> \notin disturbed,
                        \A r \in Slots : <<a, b>> \notin Touched(job'[r])
                 PROVE  Agrees(a, b)'
      BY DEF CacheAgreesWithTable
    <2>1. CASE <<a, b>> \in Touched(job[s])
      BY <2>1
    <2>2. CASE <<a, b>> \notin Touched(job[s])
      <3>1. \A r \in Slots : <<a, b>> \notin Touched(job[r])
        BY <1>1, <2>2
      <3> QED BY <1>4, <2>2, <3>1 DEF CacheAgreesWithTable
    <2> QED BY <2>1, <2>2
  <1>6. JobsAgree'
    <2> SUFFICES ASSUME NEW r \in Slots \ {s}, NEW a \in Uids, NEW b \in Uids,
                        <<a, b>> \in Touched(job[r]) \ disturbed
                 PROVE  JobAgrees(job[r], a, b)'
      BY <1>1 DEF JobsAgree
    <2>1. JobAgrees(job[r], a, b)
      BY DEF JobsAgree
    <2>2. CASE <<a, b>> \notin Touched(job[s])
      BY <1>1, <1>4, <2>1, <2>2 DEF JobAgrees
    <2>3. CASE <<a, b>> \in Touched(job[s])
      <3>1. Agrees(a, b)'
        BY <2>3
      <3>2. job[r].pc \in LoginPcs
        BY <2>3 DEF OneJobAPair
      <3> QED BY <1>1, <1>4, <2>1, <3>1, <3>2 DEF JobAgrees, LoginPcs
    <2> QED BY <2>2, <2>3
  <1> QED BY <1>2, <1>3, <1>5, <1>6

\* A request is given to a worker.
LEMMA RunInv ==
  ASSUME FriendInv, NEW s \in Slots, NEW j \in Job, Run(s, j),
         j.pc \in {"exists", "answer", "delete", "list"},
         j.a \in Uids, j.pc # "list" => j.b \in Uids
  PROVE  FriendInv'
  <1> USE FriendAssumption DEF FriendInv
  <1>1. /\ job[s].pc = "idle" /\ Touched(job[s]) = {} /\ job'[s] = j
        /\ \A r \in Slots \ {s} : job'[r] = job[r]
        /\ UNCHANGED <<status, friendships, pending, loaded, faults, restarts>>
    BY DEF Run, TypeOK, Touched, cache
  <1>2. TypeOK'
    <2>1. job' \in [Slots -> Job]
      BY DEF Run, TypeOK
    <2>2. requests' \in 0..MaxRequests
      BY DEF Run, TypeOK
    <2>3. disturbed' \in SUBSET Pairs
      BY DEF Run, TypeOK, Touched, Both, Pairs
    <2> QED BY <1>1, <2>1, <2>2, <2>3 DEF TypeOK, LoginPcs
  <1>3. CacheIsSymmetric'
    BY <1>1 DEF CacheIsSymmetric
  <1>4. ASSUME NEW a \in Uids, NEW b \in Uids
        PROVE  (AreFriends(a, b)' <=> AreFriends(a, b)) /\ (Agrees(a, b)' <=> Agrees(a, b))
    BY <1>1 DEF AreFriends, Agrees
  <1>5. disturbed \subseteq disturbed'
    BY DEF Run
  <1>6. ASSUME NEW p \in Touched(j) \ disturbed', NEW r \in Slots, p \in Touched(job[r])
        PROVE  j.pc = "list" /\ job[r].pc \in LoginPcs
    BY <1>6 DEF Run
  <1>7. OneJobAPair'
    <2> SUFFICES ASSUME NEW q \in Slots, NEW r \in Slots, q # r,
                        NEW p \in Touched(job'[q]) \cap Touched(job'[r]), p \notin disturbed'
                 PROVE  job'[q].pc \in LoginPcs /\ job'[r].pc \in LoginPcs
      BY DEF OneJobAPair
    <2>1. CASE q = s
      BY <1>1, <1>6, <2>1 DEF LoginPcs
    <2>2. CASE r = s
      BY <1>1, <1>6, <2>2 DEF LoginPcs
    <2>3. CASE q # s /\ r # s
      BY <1>1, <1>5, <2>3 DEF OneJobAPair
    <2> QED BY <2>1, <2>2, <2>3
  <1>8. CacheAgreesWithTable'
    <2> SUFFICES ASSUME NEW a \in Uids, NEW b \in Uids, <<a, b>> \notin disturbed',
                        \A r \in Slots : <<a, b>> \notin Touched(job'[r])
                 PROVE  Agrees(a, b)
      BY <1>4 DEF CacheAgreesWithTable
    <2>1. \A r \in Slots : <<a, b>> \notin Touched(job[r])
      BY <1>1
    <2> QED BY <1>5, <2>1 DEF CacheAgreesWithTable
  <1>9. JobsAgree'
    <2> SUFFICES ASSUME NEW r \in Slots, NEW a \in Uids, NEW b \in Uids,
                        <<a, b>> \in Touched(job'[r]) \ disturbed'
                 PROVE  JobAgrees(job[r], a, b)'
      BY DEF JobsAgree
    <2>1. CASE r # s
      <3>1. JobAgrees(job[r], a, b)
        BY <1>1, <1>5, <2>1 DEF JobsAgree
      <3> QED BY <1>1, <1>4, <2>1, <3>1 DEF JobAgrees
    <2>2. CASE r = s
      <3>1. CASE \E q \in Slots : <<a, b>> \in Touched(job[q])
        <4>1. PICK q \in Slots : <<a, b>> \in Touched(job[q])
          BY <3>1
        <4>2. job[q].pc \in LoginPcs /\ JobAgrees(job[q], a, b)
          BY <1>1, <1>5, <1>6, <2>2, <4>1 DEF JobsAgree
        <4>3. Agrees(a, b)
          BY <4>2 DEF JobAgrees, LoginPcs
        <4> QED BY <1>1, <1>4, <2>2, <4>3 DEF JobAgrees
      <3>2. CASE \A q \in Slots : <<a, b>> \notin Touched(job[q])
        <4>1. Agrees(a, b)
          BY <1>5, <3>2 DEF CacheAgreesWithTable
        <4> QED BY <1>1, <1>4, <2>2, <4>1 DEF JobAgrees
      <3> QED BY <3>1, <3>2
    <2> QED BY <2>1, <2>2
  <1> QED BY <1>2, <1>3, <1>7, <1>8, <1>9

\* Where a job of a request, an answer or a removal is, and what it touches.
LEMMA PairJob ==
  ASSUME FriendInv, NEW s \in Slots, job[s].pc \notin {"idle"} \cup LoginPcs
  PROVE  /\ job[s] \in Job /\ job[s].a \in Uids /\ job[s].b \in Uids
         /\ <<job[s].a, job[s].b>> \in Pairs /\ <<job[s].b, job[s].a>> \in Pairs
         /\ Touched(job[s]) = Both(job[s].a, job[s].b)
         /\ BoundsOK
  BY DEF FriendInv, TypeOK, Touched, Pairs, BoundsOK

\* INSERT IGNORE writes no other row, and unfriends nobody.
LEMMA InsertIgnoreRow ==
  ASSUME status \in [Pairs -> Statuses], NEW p \in Pairs,
         NEW st \in {"asked", "accepted"}, InsertIgnore(p, st)
  PROVE  /\ status' \in [Pairs -> Statuses]
         /\ \A q \in Pairs : q # p => status'[q] = status[q]
         /\ status'[p] # status[p] => status[p] = "none" /\ status'[p] = st
  BY DEF InsertIgnore, Statuses

\* A friend request: SELECT of the target and INSERT IGNORE.
LEMMA RequestInv ==
  ASSUME FriendInv, NEW s \in Slots, UserExists(s) \/ AddFriendRequest(s)
  PROVE  FriendInv'
  <1> DEFINE j == job[s]
  <1>1. /\ j.pc \in {"exists", "ask"}
        /\ job' = [job EXCEPT ![s] = [j EXCEPT !.pc = IF j.pc = "exists" THEN "ask" ELSE "asked"]]
    BY DEF UserExists, AddFriendRequest, Goto, FriendInv, TypeOK, Job
  <1>k. PICK k : k = [j EXCEPT !.pc = IF j.pc = "exists" THEN "ask" ELSE "asked"]
    OBVIOUS
  <1>2. /\ j \in Job /\ j.a \in Uids /\ j.b \in Uids
        /\ <<j.a, j.b>> \in Pairs /\ Touched(j) = Both(j.a, j.b) /\ BoundsOK
    BY <1>1, PairJob DEF LoginPcs
  <1>3. /\ k \in Job /\ k.a = j.a /\ k.b = j.b /\ k.pc \in {"ask", "asked"}
        /\ Touched(k) = Touched(j)
    BY <1>1, <1>k, <1>2 DEF Job, Pcs, Touched, LoginPcs
  <1>4. UNCHANGED <<cache, loaded, disturbed, bounds>> /\ BoundsOK'
    BY <1>2 DEF UserExists, AddFriendRequest, history, BoundsOK, bounds
  <1>5. /\ status' \in [Pairs -> Statuses]
        /\ \A q \in Pairs : q # <<j.a, j.b>> => status'[q] = status[q]
        /\ status'[<<j.a, j.b>>] = "accepted" <=> status[<<j.a, j.b>>] = "accepted"
    <2>1. CASE UserExists(s)
      BY <2>1 DEF UserExists, FriendInv, TypeOK
    <2>2. CASE AddFriendRequest(s)
      BY <1>2, <2>2, InsertIgnoreRow DEF AddFriendRequest, FriendInv, TypeOK
    <2> QED BY <2>1, <2>2
  <1>6. ASSUME NEW a \in Uids, NEW b \in Uids, <<a, b>> \in Touched(k) \ disturbed'
        PROVE  JobAgrees(k, a, b)'
    <2>1. AreFriends(a, b)' <=> AreFriends(a, b)
      BY <1>5 DEF AreFriends, Pairs
    <2>2. JobAgrees(j, a, b)
      BY <1>3, <1>4, <1>6 DEF FriendInv, JobsAgree
    <2>3. Agrees(a, b)'
      BY <1>1, <1>4, <2>1, <2>2 DEF JobAgrees, Agrees, cache
    <2> QED BY <1>3, <2>3 DEF JobAgrees
  <1>7. \A q \in Pairs : q \notin Touched(j) => status'[q] = status[q]
    BY <1>2, <1>5 DEF Both
  <1> QED BY <1>1, <1>k, <1>2, <1>3, <1>4, <1>5, <1>6, <1>7, WorkerStep DEF LoginPcs

\* An answer: the UPDATE.
LEMMA AnswerInv ==
  ASSUME FriendInv, NEW s \in Slots, AnswerRequest(s) PROVE FriendInv'
  <1> DEFINE j == job[s]
  <1>1. /\ j.pc = "answer"
        /\ job' = [job EXCEPT ![s] =
                     [j EXCEPT !.pc = IF j.accepted THEN "reverse" ELSE "answered"]]
    BY DEF AnswerRequest, Goto, FriendInv, TypeOK, Job
  <1>k. PICK k : k = [j EXCEPT !.pc = IF j.accepted THEN "reverse" ELSE "answered"]
    OBVIOUS
  <1>2. /\ j \in Job /\ j.a \in Uids /\ j.b \in Uids
        /\ <<j.a, j.b>> \in Pairs /\ <<j.b, j.a>> \in Pairs
        /\ Touched(j) = Both(j.a, j.b) /\ BoundsOK
    BY <1>1, PairJob DEF LoginPcs
  <1>3. /\ k \in Job /\ k.a = j.a /\ k.b = j.b /\ k.accepted = j.accepted
        /\ k.pc = IF j.accepted THEN "reverse" ELSE "answered"
        /\ Touched(k) = Touched(j) /\ j.accepted \in BOOLEAN
    BY <1>1, <1>k, <1>2 DEF Job, Pcs, Touched, LoginPcs
  <1>4. /\ UNCHANGED <<cache, loaded, bounds>> /\ BoundsOK'
        /\ disturbed \subseteq disturbed'
        /\ status[<<j.a, j.b>>] # "asked" => Both(j.a, j.b) \subseteq disturbed'
    BY <1>2 DEF AnswerRequest, BoundsOK, bounds, Both
  <1>5. /\ status' \in [Pairs -> Statuses]
        /\ \A q \in Pairs : q # <<j.a, j.b>> => status'[q] = status[q]
        /\ status[<<j.a, j.b>>] = "asked" =>
             status'[<<j.a, j.b>>] = IF j.accepted THEN "accepted" ELSE "refused"
    BY <1>2 DEF AnswerRequest, Answer, FriendInv, TypeOK, Statuses
  <1>6. ASSUME NEW a \in Uids, NEW b \in Uids, <<a, b>> \in Touched(k) \ disturbed'
        PROVE  JobAgrees(k, a, b)'
    <2>1. <<a, b>> \in Both(j.a, j.b) /\ status[<<j.a, j.b>>] = "asked"
      BY <1>2, <1>3, <1>4, <1>6
    <2>2. /\ j.accepted => AreFriends(a, b)'
          /\ ~j.accepted => (AreFriends(a, b)' <=> AreFriends(a, b))
      BY <1>2, <1>5, <2>1 DEF AreFriends, Pairs, Both
    <2>3. JobAgrees(j, a, b)
      BY <1>3, <1>4, <1>6 DEF FriendInv, JobsAgree
    <2>4. ~j.accepted => Agrees(a, b)'
      BY <1>1, <1>4, <2>2, <2>3 DEF JobAgrees, Agrees, cache
    <2> QED BY <1>3, <2>2, <2>4 DEF JobAgrees
  <1>7. \A q \in Pairs : q \notin Touched(j) => status'[q] = status[q]
    BY <1>2, <1>5 DEF Both
  <1>8. k.pc # "idle" /\ k.pc \notin LoginPcs /\ j.pc \notin LoginPcs
    BY <1>1, <1>3 DEF LoginPcs
  <1> QED BY <1>1, <1>k, <1>2, <1>3, <1>4, <1>5, <1>6, <1>7, <1>8, WorkerStep

\* An answer: the row of the other direction.
LEMMA ReverseInv ==
  ASSUME FriendInv, NEW s \in Slots, InsertReverse(s) PROVE FriendInv'
  <1> DEFINE j == job[s]
  <1>1. j.pc = "reverse" /\ job' = [job EXCEPT ![s] = [j EXCEPT !.pc = "answered"]]
    BY DEF InsertReverse, Goto, FriendInv, TypeOK, Job
  <1>k. PICK k : k = [j EXCEPT !.pc = "answered"]
    OBVIOUS
  <1>2. /\ j \in Job /\ j.a \in Uids /\ j.b \in Uids
        /\ <<j.b, j.a>> \in Pairs /\ Touched(j) = Both(j.a, j.b) /\ BoundsOK
    BY <1>1, PairJob DEF LoginPcs
  <1>3. /\ k \in Job /\ k.a = j.a /\ k.b = j.b /\ k.pc = "answered"
        /\ k.accepted = j.accepted /\ Touched(k) = Touched(j)
    BY <1>1, <1>k, <1>2 DEF Job, Pcs, Touched, LoginPcs
  <1>4. UNCHANGED <<cache, loaded, disturbed, bounds>> /\ BoundsOK'
    BY <1>2 DEF InsertReverse, history, BoundsOK, bounds
  <1>5. /\ status' \in [Pairs -> Statuses]
        /\ \A q \in Pairs : q # <<j.b, j.a>> => status'[q] = status[q]
        /\ \A q \in Pairs : status[q] = "accepted" => status'[q] = "accepted"
    BY <1>2, InsertIgnoreRow DEF InsertReverse, FriendInv, TypeOK
  <1>6. ASSUME NEW a \in Uids, NEW b \in Uids, <<a, b>> \in Touched(k) \ disturbed'
        PROVE  JobAgrees(k, a, b)'
    <2>1. JobAgrees(j, a, b)
      BY <1>3, <1>4, <1>6 DEF FriendInv, JobsAgree
    <2>2. AreFriends(a, b)' /\ j.accepted
      BY <1>1, <1>5, <2>1 DEF JobAgrees, AreFriends, Pairs
    <2> QED BY <1>3, <2>2 DEF JobAgrees
  <1>7. \A q \in Pairs : q \notin Touched(j) => status'[q] = status[q]
    BY <1>2, <1>5 DEF Both
  <1>8. k.pc # "idle" /\ k.pc \notin LoginPcs /\ j.pc \notin LoginPcs
    BY <1>1, <1>3 DEF LoginPcs
  <1> QED BY <1>1, <1>k, <1>2, <1>3, <1>4, <1>5, <1>6, <1>7, <1>8, WorkerStep

\* DELETE removes both rows of the pair.
LEMMA DeleteRows ==
  ASSUME status \in [Pairs -> Statuses], NEW j, Delete(j)
  PROVE  /\ status' \in [Pairs -> Statuses]
         /\ \A q \in Pairs :
              status'[q] = IF q \in Both(j.a, j.b) THEN "none" ELSE status[q]
  BY DEF Delete, Statuses

\* A removal: the DELETE.
LEMMA RemoveInv ==
  ASSUME FriendInv, NEW s \in Slots, RemoveFriends(s) PROVE FriendInv'
  <1> DEFINE j == job[s]
  <1>1. j.pc = "delete" /\ job' = [job EXCEPT ![s] = [j EXCEPT !.pc = "removed"]]
    BY DEF RemoveFriends, Goto, FriendInv, TypeOK, Job
  <1>k. PICK k : k = [j EXCEPT !.pc = "removed"]
    OBVIOUS
  <1>2. /\ j \in Job /\ j.a \in Uids /\ j.b \in Uids
        /\ Touched(j) = Both(j.a, j.b) /\ BoundsOK
    BY <1>1, PairJob DEF LoginPcs
  <1>3. /\ k \in Job /\ k.a = j.a /\ k.b = j.b /\ k.pc = "removed"
        /\ Touched(k) = Touched(j)
    BY <1>1, <1>k, <1>2 DEF Job, Pcs, Touched, LoginPcs
  <1>4. UNCHANGED <<cache, loaded, disturbed, bounds>> /\ BoundsOK'
    BY <1>2 DEF RemoveFriends, history, BoundsOK, bounds
  <1>5. /\ status' \in [Pairs -> Statuses]
        /\ \A q \in Pairs :
             status'[q] = IF q \in Both(j.a, j.b) THEN "none" ELSE status[q]
    BY DeleteRows DEF RemoveFriends, FriendInv, TypeOK
  <1>6. ASSUME NEW a \in Uids, NEW b \in Uids, <<a, b>> \in Touched(k) \ disturbed'
        PROVE  JobAgrees(k, a, b)'
    <2>1. ~AreFriends(a, b)'
      BY <1>2, <1>3, <1>5, <1>6 DEF AreFriends, Pairs, Both
    <2> QED BY <1>3, <2>1 DEF JobAgrees
  <1>7. \A q \in Pairs : q \notin Touched(j) => status'[q] = status[q]
    BY <1>2, <1>5
  <1>8. k.pc # "idle" /\ k.pc \notin LoginPcs /\ j.pc \notin LoginPcs
    BY <1>1, <1>3 DEF LoginPcs
  <1> QED BY <1>1, <1>k, <1>2, <1>3, <1>4, <1>5, <1>6, <1>7, <1>8, WorkerStep

\* A login: its lists are read.
LEMMA ListInv ==
  ASSUME FriendInv, NEW s \in Slots, GetFriendList(s) \/ GetPendingRequests(s)
  PROVE  FriendInv'
  <1> DEFINE j == job[s]
             fs == {u \in Uids : AreFriends(j.a, u)}
             as == {u \in Uids : status[<<u, j.a>>] = "asked"}
  <1>1. PICK k : /\ job' = [job EXCEPT ![s] = k]
                 /\ \/ /\ GetFriendList(s) /\ j.pc = "list"
                       /\ k = [j EXCEPT !.pc = "askers", !.friends = fs]
                    \/ /\ GetPendingRequests(s) /\ j.pc = "askers"
                       /\ k = [j EXCEPT !.pc = "login", !.askers = as]
    BY DEF GetFriendList, GetPendingRequests, FriendInv, TypeOK, Job
  <1>2. j \in Job /\ j.a \in Uids /\ BoundsOK
    BY <1>1 DEF FriendInv, TypeOK, BoundsOK
  <1>3. /\ k \in Job /\ k.a = j.a /\ k.b = j.b /\ k.pc \in {"askers", "login"}
        /\ k.friends = IF j.pc = "list" THEN fs ELSE j.friends
    <2>1. fs \in SUBSET Uids /\ as \in SUBSET Uids
      OBVIOUS
    <2> HIDE DEF fs, as
    <2>2. CASE j.pc = "list"
      <3>1. k = [j EXCEPT !.pc = "askers", !.friends = fs]
        BY <1>1, <2>2
      <3> QED BY <1>2, <2>1, <2>2, <3>1 DEF Job, Pcs
    <2>3. CASE j.pc = "askers"
      <3>1. k = [j EXCEPT !.pc = "login", !.askers = as]
        BY <1>1, <2>3
      <3> QED BY <1>2, <2>1, <2>3, <3>1 DEF Job, Pcs
    <2> QED BY <1>1, <2>2, <2>3
  <1>4. UNCHANGED <<status, cache, loaded, disturbed, bounds>> /\ BoundsOK'
    BY <1>2 DEF GetFriendList, GetPendingRequests, history, BoundsOK, bounds
  <1>5. status' \in [Pairs -> Statuses]
    BY <1>4 DEF FriendInv, TypeOK
  <1>6. k.pc # "idle" /\ k.pc \in LoginPcs /\ j.pc \in LoginPcs /\ j.pc # "idle"
    BY <1>1, <1>3 DEF LoginPcs
  <1>7. Touched(k) = Touched(j)
    BY <1>2, <1>3, <1>6, SameTouched
  <1>8. ASSUME NEW a \in Uids, NEW b \in Uids, <<a, b>> \in Touched(k) \ disturbed'
        PROVE  JobAgrees(k, a, b)'
    <2>1. JobAgrees(j, a, b)
      BY <1>4, <1>7, <1>8 DEF FriendInv, JobsAgree
    <2>2. /\ AreFriends(a, b)' <=> AreFriends(a, b)
          /\ AreFriends(a, b) <=> AreFriends(b, a)
      BY <1>4 DEF AreFriends
    <2>3. Agrees(a, b)'
      BY <1>4, <1>6, <2>1, <2>2 DEF JobAgrees, Agrees, cache, LoginPcs
    <2>4. /\ a = j.a => (b \in k.friends <=> AreFriends(a, b))
          /\ b = j.a => (a \in k.friends <=> AreFriends(a, b))
      BY <1>1, <1>3, <2>1, <2>2 DEF JobAgrees
    <2> QED BY <1>3, <2>2, <2>3, <2>4 DEF JobAgrees
  <1> HIDE DEF fs, as
  <1> QED BY <1>1, <1>2, <1>3, <1>4, <1>5, <1>6, <1>8, WorkerStep

\* A statement fails: the pairs of its job are disturbed.
LEMMA FaultInv ==
  ASSUME FriendInv, NEW s \in Slots, Fault(s) PROVE FriendInv'
  <1> DEFINE j == job[s]
  <1>1. /\ j.pc \in {"exists", "ask", "answer", "reverse", "delete", "list", "askers"}
        /\ job' = [job EXCEPT ![s] = [j EXCEPT !.pc = AfterFault(j.pc)]]
        /\ j \in Job /\ BoundsOK
    BY DEF Fault, Goto, FriendInv, TypeOK, BoundsOK, Job
  <1>k. PICK k : k = [j EXCEPT !.pc = AfterFault(j.pc)]
    OBVIOUS
  <1>2. /\ AfterFault(j.pc) \in Pcs \ {"idle"}
        /\ AfterFault(j.pc) \in LoginPcs <=> j.pc \in LoginPcs
    BY <1>1 DEF AfterFault, Pcs, LoginPcs
  <1>3. /\ k \in Job /\ k.a = j.a /\ k.b = j.b /\ k.pc # "idle" /\ j.pc # "idle"
        /\ k.pc \in LoginPcs <=> j.pc \in LoginPcs
    BY <1>1, <1>k, <1>2 DEF Job
  <1>4. Touched(k) = Touched(j) /\ Touched(j) \subseteq Pairs
    <2>1. Touched(k) = Touched(j)
      BY <1>1, <1>3, SameTouched
    <2>2. j.a \in Uids /\ (j.pc \notin LoginPcs => j.b \in Uids)
      BY <1>3 DEF FriendInv, TypeOK
    <2> QED BY <1>3, <2>1, <2>2 DEF Touched, Both, Pairs
  <1>5. /\ UNCHANGED <<cache, loaded>> /\ disturbed \subseteq disturbed'
        /\ Touched(j) \subseteq disturbed' /\ BoundsOK'
    BY <1>1, <1>4, FriendAssumption DEF Fault, BoundsOK
  <1>6. /\ status' \in [Pairs -> Statuses]
        /\ \A q \in Pairs : q \notin Touched(j) \/ j.pc \in LoginPcs => status'[q] = status[q]
    <2>0. status \in [Pairs -> Statuses]
      BY DEF FriendInv, TypeOK
    <2>1. CASE UNCHANGED status
      BY <2>0, <2>1
    <2>2. CASE j.pc \in {"ask", "answer", "reverse", "delete"}
      <3>1. /\ Touched(j) = Both(j.a, j.b) /\ j.pc \notin LoginPcs
            /\ <<j.a, j.b>> \in Pairs /\ <<j.b, j.a>> \in Pairs
        BY <2>2, PairJob DEF LoginPcs
      <3>2. CASE InsertIgnore(<<j.a, j.b>>, "asked") \/ InsertIgnore(<<j.b, j.a>>, "accepted")
        BY <2>0, <3>1, <3>2, InsertIgnoreRow DEF Both
      <3>3. CASE Answer(j)
        BY <2>0, <3>1, <3>3 DEF Answer, Both, Statuses
      <3>4. CASE Delete(j)
        BY <2>0, <3>1, <3>4, DeleteRows
      <3> QED BY <2>1, <3>2, <3>3, <3>4 DEF Fault
    <2> QED BY <2>1, <2>2 DEF Fault
  <1>7. \A a, b \in Uids : <<a, b>> \in Touched(k) \ disturbed' => JobAgrees(k, a, b)'
    BY <1>4, <1>5
  <1> QED BY <1>1, <1>k, <1>3, <1>5, <1>6, <1>7, WorkerStep

\* The callback of a friend request leaves the lists of friends alone.
LEMMA RequestedInv ==
  ASSUME FriendInv, NEW s \in Slots, RequestedCallback(s) PROVE FriendInv'
  <1> DEFINE j == job[s]
  <1>1. /\ j.pc = "asked" /\ job' = [job EXCEPT ![s] = Idle]
        /\ UNCHANGED <<status, friendships, loaded, disturbed, bounds>>
    BY DEF RequestedCallback, Done, history
  <1>2. <<j.a, j.b>> \in Pairs /\ BoundsOK
    BY <1>1, PairJob DEF LoginPcs
  <1>3. BoundsOK' /\ pending' \in SUBSET Pairs
    BY <1>1, <1>2 DEF RequestedCallback, BoundsOK, bounds, FriendInv, TypeOK
  <1>4. friendships' \in [Uids -> SUBSET Uids] /\ CacheIsSymmetric'
    BY <1>1 DEF FriendInv, TypeOK, CacheIsSymmetric
  <1>5. \A a, b \in Uids : <<a, b>> \in Touched(j) \ disturbed => Agrees(a, b)'
    <2> SUFFICES ASSUME NEW a \in Uids, NEW b \in Uids, <<a, b>> \in Touched(j) \ disturbed
                 PROVE  Agrees(a, b)'
      OBVIOUS
    <2>1. Agrees(a, b)
      BY <1>1 DEF FriendInv, JobsAgree, JobAgrees
    <2> QED BY <1>1, <2>1 DEF Agrees, AreFriends
  <1> QED BY <1>1, <1>3, <1>4, <1>5, CallbackStep

\* addFriendship keeps the cache symmetric and adds the pairs of a and us.
LEMMA AddFriendshipsPairs ==
  ASSUME friendships \in [Uids -> SUBSET Uids], CacheIsSymmetric,
         NEW a \in Uids, NEW us \in SUBSET Uids, AddFriendships(a, us)
  PROVE  /\ friendships' \in [Uids -> SUBSET Uids] /\ CacheIsSymmetric'
         /\ \A x, y \in Uids : y \in friendships'[x] <=>
              y \in friendships[x] \/ (x = a /\ y \in us) \/ (y = a /\ x \in us)
  <1>1. friendships' \in [Uids -> SUBSET Uids]
    BY DEF AddFriendships
  <1>2. \A x, y \in Uids : y \in friendships'[x] <=>
          y \in friendships[x] \/ (x = a /\ y \in us) \/ (y = a /\ x \in us)
    BY DEF AddFriendships
  <1>3. CacheIsSymmetric'
    BY <1>2 DEF CacheIsSymmetric
  <1> QED BY <1>1, <1>2, <1>3

\* The callback of an answer makes up for what the answer did to the table.
LEMMA AnsweredInv ==
  ASSUME FriendInv, NEW s \in Slots, AnsweredCallback(s) PROVE FriendInv'
  <1> DEFINE j == job[s]
  <1>1. /\ j.pc = "answered" /\ job' = [job EXCEPT ![s] = Idle]
        /\ UNCHANGED <<status, loaded, disturbed, bounds>>
    BY DEF AnsweredCallback, Done, history
  <1>2. /\ j.a \in Uids /\ j.b \in Uids
        /\ Touched(j) = Both(j.a, j.b) /\ BoundsOK
    BY <1>1, PairJob DEF LoginPcs
  <1>3. BoundsOK' /\ pending' \in SUBSET Pairs
    BY <1>1, <1>2 DEF AnsweredCallback, BoundsOK, bounds, FriendInv, TypeOK
  <1>4. /\ friendships' \in [Uids -> SUBSET Uids] /\ CacheIsSymmetric'
        /\ \A x, y \in Uids : y \in friendships'[x] <=>
             y \in friendships[x] \/ (j.accepted /\ <<x, y>> \in Both(j.a, j.b))
    <2>1. CASE j.accepted
      BY <1>2, <2>1, AddFriendshipsPairs DEF AnsweredCallback, Both, FriendInv, TypeOK
    <2>2. CASE ~j.accepted
      BY <2>2 DEF AnsweredCallback, FriendInv, TypeOK, CacheIsSymmetric
    <2> QED BY <2>1, <2>2
  <1>5. \A a, b \in Uids : <<a, b>> \in Touched(j) \ disturbed => Agrees(a, b)'
    <2> SUFFICES ASSUME NEW a \in Uids, NEW b \in Uids, <<a, b>> \in Touched(j) \ disturbed
                 PROVE  Agrees(a, b)'
      OBVIOUS
    <2>1. JobAgrees(j, a, b)
      BY DEF FriendInv, JobsAgree
    <2>2. AreFriends(a, b)' <=> AreFriends(a, b)
      BY <1>1 DEF AreFriends
    <2> QED BY <1>1, <1>2, <1>4, <2>1, <2>2 DEF JobAgrees, Agrees
  <1> QED BY <1>1, <1>2, <1>3, <1>4, <1>5, CallbackStep

\* The callback of a removal.
LEMMA RemovedInv ==
  ASSUME FriendInv, NEW s \in Slots, RemovedCallback(s) PROVE FriendInv'
  <1> DEFINE j == job[s]
  <1>1. /\ j.pc = "removed" /\ job' = [job EXCEPT ![s] = Idle]
        /\ UNCHANGED <<status, pending, loaded, disturbed, bounds>>
    BY DEF RemovedCallback, Done, history
  <1>2. /\ j.a \in Uids /\ j.b \in Uids
        /\ Touched(j) = Both(j.a, j.b) /\ BoundsOK
    BY <1>1, PairJob DEF LoginPcs
  <1>3. BoundsOK' /\ pending' \in SUBSET Pairs
    BY <1>1, <1>2 DEF BoundsOK, bounds, FriendInv, TypeOK
  <1>4. /\ friendships' \in [Uids -> SUBSET Uids]
        /\ \A x, y \in Uids : y \in friendships'[x] <=>
             y \in friendships[x] /\ <<x, y>> \notin Both(j.a, j.b)
    BY <1>2 DEF RemovedCallback, RemoveFriendship, FriendInv, TypeOK
  <1>5. CacheIsSymmetric'
    BY <1>4 DEF CacheIsSymmetric, FriendInv, Both
  <1>6. \A a, b \in Uids : <<a, b>> \in Touched(j) \ disturbed => Agrees(a, b)'
    <2> SUFFICES ASSUME NEW a \in Uids, NEW b \in Uids, <<a, b>> \in Touched(j) \ disturbed
                 PROVE  Agrees(a, b)'
      OBVIOUS
    <2>1. ~AreFriends(a, b)
      BY <1>1 DEF FriendInv, JobsAgree, JobAgrees
    <2>2. ~AreFriends(a, b)'
      BY <1>1, <2>1 DEF AreFriends
    <2> QED BY <1>2, <1>4, <2>2 DEF Agrees
  <1> QED BY <1>1, <1>2, <1>3, <1>4, <1>5, <1>6, CallbackStep

\* The callback of a login: the list that it has read is still so.
LEMMA LoggedInInv ==
  ASSUME FriendInv, NEW s \in Slots, LoginCallback(s) PROVE FriendInv'
  <1> DEFINE j == job[s]
  <1>1. /\ j.pc = "login" /\ job' = [job EXCEPT ![s] = Idle]
        /\ loaded' = loaded \cup {j.a} /\ AddFriendships(j.a, j.friends)
        /\ UNCHANGED <<status, disturbed, bounds>>
    BY DEF LoginCallback, Done
  <1>2. /\ j \in Job /\ j.a \in Uids /\ j.friends \in SUBSET Uids
        /\ j.askers \in SUBSET Uids /\ BoundsOK
    BY <1>1 DEF FriendInv, TypeOK, BoundsOK, Job
  <1>3. BoundsOK' /\ pending' \in SUBSET Pairs
    BY <1>1, <1>2 DEF LoginCallback, BoundsOK, bounds, FriendInv, TypeOK, Pairs
  <1>4. \A a, b \in Uids : <<a, b>> \in Touched(j) <=> a = j.a \/ b = j.a
    BY <1>1 DEF Touched, LoginPcs, Pairs
  <1>5. /\ friendships' \in [Uids -> SUBSET Uids] /\ CacheIsSymmetric'
        /\ \A x, y \in Uids : y \in friendships'[x] <=>
             \/ y \in friendships[x]
             \/ x = j.a /\ y \in j.friends
             \/ y = j.a /\ x \in j.friends
    BY <1>1, <1>2, AddFriendshipsPairs DEF FriendInv, TypeOK
  <1>6. \A a, b \in Uids : <<a, b>> \in Touched(j) \ disturbed => Agrees(a, b)'
    <2> SUFFICES ASSUME NEW a \in Uids, NEW b \in Uids, <<a, b>> \in Touched(j) \ disturbed
                 PROVE  Agrees(a, b)'
      OBVIOUS
    <2>1. JobAgrees(j, a, b)
      BY DEF FriendInv, JobsAgree
    <2>2. AreFriends(a, b)' <=> AreFriends(a, b)
      BY <1>1 DEF AreFriends
    <2>3. /\ Agrees(a, b)
          /\ a = j.a => (b \in j.friends <=> AreFriends(a, b))
          /\ b = j.a => (a \in j.friends <=> AreFriends(a, b))
      BY <1>1, <2>1 DEF JobAgrees
    <2> QED BY <1>1, <1>4, <1>5, <2>2, <2>3 DEF Agrees
  <1>7. \A a, b \in Uids : <<a, b>> \notin Touched(j) =>
          /\ b \in friendships'[a] <=> b \in friendships[a]
          /\ a \in loaded' <=> a \in loaded
    BY <1>1, <1>4, <1>5
  <1> QED BY <1>1, <1>3, <1>5, <1>6, <1>7, CallbackStep

\* A restart empties the caches.
LEMMA RestartInv ==
  ASSUME FriendInv, RestartServer PROVE FriendInv'
  <1> USE FriendAssumption DEF FriendInv
  <1>1. Idle \in Job /\ Idle.pc = "idle"
    BY DEF Idle, Job, Pcs
  <1>2. \A s \in Slots : job'[s] = Idle /\ Touched(job'[s]) = {}
    BY <1>1 DEF RestartServer, Touched
  <1>3. TypeOK'
    BY <1>1, <1>2 DEF RestartServer, TypeOK
  <1>4. CacheIsSymmetric' /\ CacheAgreesWithTable'
    BY DEF RestartServer, CacheIsSymmetric, CacheAgreesWithTable, Agrees
  <1>5. OneJobAPair' /\ JobsAgree'
    BY <1>2 DEF OneJobAPair, JobsAgree
  <1> QED BY <1>3, <1>4, <1>5

\* Every step keeps the inductive invariant.
LEMMA FriendNextInv == FriendInv /\ [Next]_vars => FriendInv'
  <1> SUFFICES ASSUME FriendInv, [Next]_vars PROVE FriendInv'
    OBVIOUS
  <1> USE FriendAssumption
  <1>1. ASSUME NEW s \in Slots, NEW a \in Uids, HandleLogin(s, a) PROVE FriendInv'
    <2> DEFINE j == [Idle EXCEPT !.pc = "list", !.a = a]
    <2>1. j \in Job /\ j.pc = "list" /\ j.a = a
      BY DEF Idle, Job, Pcs
    <2>2. Run(s, j)
      BY <1>1 DEF HandleLogin
    <2> HIDE DEF j
    <2> QED BY <2>1, <2>2, RunInv
  <1>2. ASSUME NEW s \in Slots, NEW a \in Uids, NEW b \in Uids, Request(s, a, b)
        PROVE  FriendInv'
    <2> DEFINE J(pc) == [Idle EXCEPT !.pc = pc, !.a = a, !.b = b]
               A(acc) == [Idle EXCEPT !.pc = "answer", !.a = a, !.b = b, !.accepted = acc]
    <2>1. \A pc \in {"exists", "delete"} :
            J(pc) \in Job /\ J(pc).pc = pc /\ J(pc).a = a /\ J(pc).b = b
      BY DEF Idle, Job, Pcs
    <2>2. \A acc \in BOOLEAN :
            A(acc) \in Job /\ A(acc).pc = "answer" /\ A(acc).a = a /\ A(acc).b = b
      BY DEF Idle, Job, Pcs
    <2>3. \/ Run(s, J("exists")) \/ Run(s, J("delete"))
          \/ \E acc \in BOOLEAN : Run(s, A(acc))
      BY <1>2 DEF Request, HandleFriendRequest, HandleFriendResponse, HandleFriendRemove
    <2> HIDE DEF J, A
    <2>4. CASE Run(s, J("exists")) \/ Run(s, J("delete"))
      BY <2>1, <2>4, RunInv
    <2>5. CASE \E acc \in BOOLEAN : Run(s, A(acc))
      BY <2>2, <2>5, RunInv
    <2> QED BY <2>3, <2>4, <2>5
  <1>3. ASSUME NEW s \in Slots, Worker(s) PROVE FriendInv'
    BY <1>3, RequestInv, AnswerInv, ReverseInv, RemoveInv, ListInv DEF Worker
  <1>4. CASE UNCHANGED vars
    BY <1>4 DEF vars, cache, history, bounds, FriendInv, TypeOK, CacheIsSymmetric,
       CacheAgreesWithTable, OneJobAPair, JobsAgree, JobAgrees, Agrees, AreFriends
  <1> QED BY <1>1, <1>2, <1>3, <1>4, FaultInv, RequestedInv, AnsweredInv, RemovedInv,
             LoggedInInv, RestartInv DEF Next

\* The inductive invariant holds in every state, for any number of users and of
\* requests at once: above all, the table is ahead of the cache only as a
\* pending callback will make up for (chat_server.cc:348-357, 381-386).
THEOREM FriendInvariance == Spec => []FriendInv
  <1>1. FriendInv /\ [Next]_vars => FriendInv'
    BY FriendNextInv
  <1> QED BY <1>1, FriendInitInv, PTL DEF Spec

\* Two users are in each other's cached lists or in neither's
\* (session_manager.cc:98-108).
THEOREM FriendsAreSymmetric == Spec => []CacheIsSymmetric
  <1>1. FriendInv => CacheIsSymmetric
    BY DEF FriendInv
  <1> QED BY <1>1, FriendInvariance, PTL

\* The cache agrees with the table friendships on two users with no request in
\* progress, whatever happens to other users (session_manager.cc:98-108,
\* mysql_friend_repo.cc:12-94).
THEOREM FriendsAgreeWithTable == Spec => []CacheAgreesWithTable
  <1>1. FriendInv => CacheAgreesWithTable
    BY DEF FriendInv
  <1> QED BY <1>1, FriendInvariance, PTL
=============================================================================
