----------------------------- MODULE WorkersProofs -----------------------------
(***************************************************************************)
(* Proofs about Workers and RedisPool, for any number of loops, workers and *)
(* requests and any size of the queue.                                      *)
(***************************************************************************)
EXTENDS Workers, TLAPS

(***************************************************************************)
(* The connections to Redis                                                 *)
(***************************************************************************)

\* getConnection leaves its thread with a connection that is not in error, and
\* keeps the invariant of the pool (redis_pool.cc:22-30).
LEMMA GetConnectionStep ==
    ASSUME RPInv, NEW t \in Threads, GetConnection(t)
    PROVE  /\ RPInv'
           /\ tls'[t] \notin {"new", "err"}
           /\ \A u \in Threads : u # t => tls'[u] = tls[u]
  BY DEF RPInv, RPTypeOK, FreshHasNotFailed, RecoversAfterOneFailure, TlsStates,
         GetConnection, CreateConnection

\* A call on a connection without an error keeps it too.
LEMMA CommandStep ==
    ASSUME RPInv, NEW t \in Threads, Command(t), tls[t] \notin {"new", "err"}
    PROVE  /\ RPInv'
           /\ \A u \in Threads : u # t => tls'[u] = tls[u]
  BY DEF RPInv, RPTypeOK, FreshHasNotFailed, RecoversAfterOneFailure, TlsStates,
         Command, Replies

\* So does a change of Redis, and it gives no connection an error.
LEMMA RedisStep ==
    ASSUME RPInv, RedisChanges
    PROVE  /\ RPInv'
           /\ \A u \in Threads : tls[u] \notin {"new", "err"} => tls'[u] \notin {"new", "err"}
  BY DEF RPInv, RPTypeOK, FreshHasNotFailed, RecoversAfterOneFailure, TlsStates,
         RedisChanges

LEMMA RPUnchanged ==
    ASSUME RPInv, UNCHANGED rpVars
    PROVE  RPInv' /\ tls' = tls
  BY DEF RPInv, RPTypeOK, FreshHasNotFailed, RecoversAfterOneFailure, rpVars

-----------------------------------------------------------------------------
(***************************************************************************)
(* Answers.  Honest(a, us, f): the answer a is right when the table is us   *)
(* and f statements have failed.                                            *)
(***************************************************************************)

Honest(a, us, f) ==
    /\ a.uid # None /\ a.ok => us[a.uid] = a.id
    /\ f = 0 => (a.uid # None /\ ~a.ok => us[a.uid] # 0)

AllHonest ==
    /\ \A a \in answers : Honest(a, users, faults)
    /\ \A l \in Loops : \A i \in 1..Len(functors[l]) :
           Honest(AnswerTo(functors[l][i]), users, faults)

\* The parts of the invariant that speak of answers, as one
LEMMA HonestInv ==
    CallbacksOwn /\ RegisteredAsAnswered /\ RefusedIsTaken <=> AllHonest
  BY DEF CallbacksOwn, RegisteredAsAnswered, RefusedIsTaken, Owns, IsTaken,
         Honest, AllHonest

\* What a step may do to the table: nothing, or a row where there was none
Grows(us, vs) ==
    \/ vs = us
    \/ \E u \in Uids \cup {None}, n \in 1..MaxRequests :
           us[u] = 0 /\ vs = [us EXCEPT ![u] = n]

LEMMA AnswerType ==
    ASSUME NEW j \in Job
    PROVE  AnswerTo(j) \in Answer
  BY DEF AnswerTo, Answer, Job, Record

\* An answer stays right, whatever rows are inserted and statements fail.
LEMMA StaysHonest ==
    ASSUME NEW us \in [Uids -> 0..MaxRequests], NEW vs, Grows(us, vs),
           NEW f, NEW g, g = 0 => f = 0,
           NEW a \in Answer, Honest(a, us, f)
    PROVE  Honest(a, vs, g)
<1>1. a.uid \in Uids \/ a.uid = None
  BY DEF Answer
<1>2. a.id # 0
  BY WorkersAssumption DEF Answer
<1>3. ASSUME a.uid \in Uids
      PROVE  us[a.uid] # 0 => vs[a.uid] = us[a.uid]
  BY <1>3 DEF Grows
<1> QED
  BY <1>1, <1>2, <1>3 DEF Honest

-----------------------------------------------------------------------------
(***************************************************************************)
(* Steps                                                                    *)
(***************************************************************************)

\* The result of a job is a job, and its answer is that of the request.
LEMMA DoneFacts ==
    ASSUME NEW j \in Job, NEW ok \in BOOLEAN
    PROVE  /\ Done(j, ok) \in Job
           /\ AnswerTo(Done(j, ok)).uid = IF j.kind = "register" THEN j.uid ELSE None
           /\ AnswerTo(Done(j, ok)).id = j.id
           /\ j.kind = "register" => AnswerTo(Done(j, ok)).ok = ok
<1>1. j \in Record
  BY DEF Job
<1>2. Done(j, ok) \in Record
  <2>1. "idle" \in Pcs /\ 0 \in 0..2
    BY DEF Pcs
  <2> QED
    BY <1>1, <2>1 DEF Done, Record
<1>3. /\ Done(j, ok).kind = j.kind
      /\ Done(j, ok).uid = j.uid
      /\ Done(j, ok).id = j.id
      /\ Done(j, ok).pc = "idle"
  BY <1>1 DEF Done, Record
<1>4. Done(j, ok).ok = ok
  BY <1>1 DEF Done, Record
<1>5. Done(j, ok) \in Job
  BY <1>2, <1>3 DEF Job
<1>6. AnswerTo(Done(j, ok)).ok = (j.kind = "register" => ok)
  BY <1>3, <1>4 DEF AnswerTo
<1>7. j.kind = "register" => AnswerTo(Done(j, ok)).ok = ok
  BY <1>6
<1> QED
  BY <1>3, <1>5, <1>7 DEF AnswerTo

\* A job that is not a registration is answered with nothing that matters.
LEMMA OtherIsHonest ==
    ASSUME NEW j, j.kind # "register", NEW us, NEW f
    PROVE  Honest(AnswerTo(j), us, f)
  BY DEF Honest, AnswerTo

\* Answers and callbacks stay right when the new ones are right.
LEMMA HonestStep ==
    ASSUME TypeOK, AllHonest, Grows(users, users'), faults' = 0 => faults = 0,
           \A a \in answers' : a \in answers \/ Honest(a, users', faults'),
           \A l \in Loops : \A i \in 1..Len(functors'[l]) :
               \/ \E k \in 1..Len(functors[l]) : functors'[l][i] = functors[l][k]
               \/ Honest(AnswerTo(functors'[l][i]), users', faults')
    PROVE  AllHonest'
<1> USE DEF TypeOK
<1>1. ASSUME NEW a \in answers
      PROVE  Honest(a, users', faults')
  <2>1. Honest(a, users, faults) /\ a \in Answer
    BY DEF AllHonest
  <2> QED
    BY <2>1, StaysHonest
<1>2. ASSUME NEW l \in Loops, NEW k \in 1..Len(functors[l])
      PROVE  Honest(AnswerTo(functors[l][k]), users', faults')
  <2>1. Honest(AnswerTo(functors[l][k]), users, faults)
    BY DEF AllHonest
  <2>2. functors[l] \in Seq(Job)
    OBVIOUS
  <2>3. functors[l][k] \in Job
    BY <2>2
  <2>4. AnswerTo(functors[l][k]) \in Answer
    BY <2>3, AnswerType
  <2> QED
    BY <2>1, <2>4, StaysHonest
<1>3. \A a \in answers' : Honest(a, users', faults')
  BY <1>1
<1>4. \A l \in Loops : \A i \in 1..Len(functors'[l]) :
          Honest(AnswerTo(functors'[l][i]), users', faults')
  BY <1>2
<1> QED
  BY <1>3, <1>4 DEF AllHonest, AnswerTo

\* The end of a job, whose answer is right
LEMMA FinishStep ==
    ASSUME TypeOK, AllHonest, NEW t \in Threads, running[t] # None,
           NEW ok \in BOOLEAN, Finish(t, ok),
           Grows(users, users'), faults' = 0 => faults = 0, answers' = answers,
           Honest(AnswerTo(Done(running[t], ok)), users', faults')
    PROVE  /\ AllHonest'
           /\ functors' \in [Loops -> Seq(Job)]
           /\ running' \in [Threads -> Job \cup {None}]
           /\ \A u \in Threads : At(u, "command")' => u # t /\ At(u, "command")
<1>j. PICK j \in Job : j = running[t]
  BY DEF TypeOK
<1>d. PICK d \in Job : d = Done(j, ok)
  BY DoneFacts
<1>1. running' = [running EXCEPT ![t] = None]
  BY DEF Finish
<1>2. running' \in [Threads -> Job \cup {None}]
  BY <1>1 DEF TypeOK
<1>3. \A u \in Threads : At(u, "command")' => u # t /\ At(u, "command")
  BY <1>1 DEF TypeOK, At
<1>l. j.loop \in Loops
  BY DEF Job, Record
<1>4. functors' \in {functors, [functors EXCEPT ![j.loop] = Append(@, d)]}
  BY <1>j, <1>d DEF Finish
<1>5. functors' \in [Loops -> Seq(Job)]
  <2>1. functors \in [Loops -> Seq(Job)]
    BY DEF TypeOK
  <2>2. Append(functors[j.loop], d) \in Seq(Job)
    BY <1>l, <2>1
  <2>3. [functors EXCEPT ![j.loop] = Append(@, d)] \in [Loops -> Seq(Job)]
    BY <2>1, <2>2
  <2> QED
    BY <1>4, <2>1, <2>3
<1>6. ASSUME NEW l \in Loops, NEW i \in 1..Len(functors'[l])
      PROVE  \/ \E k \in 1..Len(functors[l]) : functors'[l][i] = functors[l][k]
             \/ functors'[l][i] = d
  <2>1. functors[l] \in Seq(Job)
    BY DEF TypeOK
  <2>2. functors'[l] \in {functors[l], Append(functors[l], d)}
    BY <1>4 DEF TypeOK
  <2>3. CASE functors'[l] = functors[l]
    BY <2>3
  <2>4. CASE functors'[l] = Append(functors[l], d)
    <3>1. Len(functors'[l]) = Len(functors[l]) + 1
      BY <2>1, <2>4
    <3>2. i \in 1..Len(functors[l]) \/ i = Len(functors[l]) + 1
      BY <2>1, <3>1
    <3> QED
      BY <2>1, <2>4, <3>2
  <2> QED
    BY <2>2, <2>3, <2>4
<1>7. Honest(AnswerTo(d), users', faults')
  BY <1>j, <1>d, Zenon
<1>8. \A l \in Loops : \A i \in 1..Len(functors'[l]) :
          \/ \E k \in 1..Len(functors[l]) : functors'[l][i] = functors[l][k]
          \/ Honest(AnswerTo(functors'[l][i]), users', faults')
  BY <1>6, <1>7, Zenon
<1>9. AllHonest'
  BY <1>8, HonestStep
<1> QED
  BY <1>2, <1>3, <1>5, <1>9

\* The parts of the invariant that the steps are about
Parts == TypeOK /\ RPInv /\ CallsAreConnected /\ AllHonest

LEMMA PartsAreInv == WorkersInv <=> Parts /\ EachIsOnItsWay
  BY HonestInv DEF WorkersInv, Parts

\* What the handlers make is a job that waits.
LEMMA NewJobType ==
    ASSUME TypeOK, accepted < MaxRequests, NEW l \in Loops, NEW kind \in Kinds,
           NEW u \in Uids \cup {None}, NEW pc \in {"select", "connect", "store"},
           NEW calls \in 0..2, kind = "register" => pc = "select"
    PROVE  NewJob(l, kind, u, pc, calls) \in Waiting
<1>1. accepted + 1 \in 1..MaxRequests
  BY WorkersAssumption DEF TypeOK
<1>2. pc \in Pcs /\ FALSE \in BOOLEAN
  BY DEF Pcs
<1>3. NewJob(l, kind, u, pc, calls) \in Record
  BY <1>1, <1>2 DEF NewJob, Record
<1>4. /\ NewJob(l, kind, u, pc, calls).kind = kind
      /\ NewJob(l, kind, u, pc, calls).pc = pc
  BY DEF NewJob
<1> QED
  BY <1>3, <1>4 DEF Job, Waiting

\* run() puts a job into the queue, or keeps its loop.
LEMMA RunStep ==
    ASSUME TypeOK, NEW l \in Loops, NEW j \in Waiting, Run(l, j)
    PROVE  queue' \in Seq(Waiting) /\ calling' \in [Loops -> Waiting \cup {None}]
<1>1. Append(queue, j) \in Seq(Waiting)
  BY DEF TypeOK
<1>2. [calling EXCEPT ![l] = j] \in [Loops -> Waiting \cup {None}]
  BY DEF TypeOK
<1> QED
  BY <1>1, <1>2 DEF Run, TypeOK

\* What a handler answers after run() concerns no registration.
LEMMA AfterRunFacts ==
    ASSUME TypeOK, NEW j \in Job
    PROVE  /\ AfterRun(j) \subseteq Answer
           /\ \A us, f : \A a \in AfterRun(j) : a \in answers \/ Honest(a, us, f)
<1>1. AnswerTo(j) \in Answer
  BY AnswerType
<1>2. j.kind = "logout" => \A us, f : Honest(AnswerTo(j), us, f)
  BY OtherIsHonest
<1> QED
  BY <1>1, <1>2 DEF AfterRun, TypeOK

LEMMA HandleStep ==
    ASSUME Parts, NEW l \in Loops, NEW j \in Waiting, Handle(l, j)
    PROVE  Parts'
<1> USE DEF Parts
<1>1. /\ UNCHANGED <<rpVars, users, running, functors, silent, faults, changes>>
      /\ accepted < MaxRequests /\ accepted' = accepted + 1
      /\ answers' \in {answers, AfterRun(j)}
  BY DEF Handle
<1>2. queue' \in Seq(Waiting) /\ calling' \in [Loops -> Waiting \cup {None}]
  BY RunStep DEF Handle
<1>3. j \in Job
  BY DEF Waiting
<1>4. answers' \subseteq Answer /\ \A us, f : \A a \in answers' : a \in answers \/ Honest(a, us, f)
  BY <1>1, <1>3, AfterRunFacts DEF TypeOK
<1>5. RPInv' /\ tls' = tls
  BY <1>1, RPUnchanged
<1>6. accepted' \in 0..MaxRequests
  BY <1>1, WorkersAssumption DEF TypeOK
<1>7. TypeOK'
  BY <1>1, <1>2, <1>4, <1>5, <1>6 DEF TypeOK, RPInv
<1>8. CallsAreConnected'
  BY <1>1, <1>5 DEF CallsAreConnected, At
<1>9. AllHonest'
  <2>1. Grows(users, users') /\ (faults' = 0 => faults = 0)
    BY <1>1 DEF Grows
  <2>2. \A a \in answers' : a \in answers \/ Honest(a, users', faults')
    BY <1>4, Zenon
  <2>3. \A m \in Loops : \A i \in 1..Len(functors'[m]) :
            \E k \in 1..Len(functors[m]) : functors'[m][i] = functors[m][k]
    BY <1>1
  <2> QED
    BY <2>1, <2>2, <2>3, HonestStep
<1> QED
  BY <1>5, <1>7, <1>8, <1>9

LEMMA RunReturnsStep ==
    ASSUME Parts, NEW l \in Loops, RunReturns(l)
    PROVE  Parts'
<1> USE DEF Parts
<1>j. PICK j \in Waiting : j = calling[l]
  BY DEF RunReturns, TypeOK
<1>1. /\ UNCHANGED <<rpVars, users, running, functors, silent, accepted, faults, changes>>
      /\ queue' = Append(queue, j)
      /\ calling' = [calling EXCEPT ![l] = None]
      /\ answers' = AfterRun(j)
  BY <1>j DEF RunReturns, bounds
<1>2. queue' \in Seq(Waiting)
  BY <1>1 DEF TypeOK
<1>3. calling' \in [Loops -> Waiting \cup {None}]
  BY <1>1 DEF TypeOK
<1>4. j \in Job
  BY DEF Waiting
<1>5. answers' \subseteq Answer /\ \A us, f : \A a \in answers' : a \in answers \/ Honest(a, us, f)
  BY <1>1, <1>4, AfterRunFacts
<1>6. RPInv' /\ tls' = tls
  BY <1>1, RPUnchanged
<1>7. TypeOK'
  BY <1>1, <1>2, <1>3, <1>5, <1>6 DEF TypeOK, RPInv
<1>8. CallsAreConnected'
  BY <1>1, <1>6 DEF CallsAreConnected, At
<1>9. AllHonest'
  <2>1. Grows(users, users') /\ (faults' = 0 => faults = 0)
    BY <1>1 DEF Grows
  <2>2. \A a \in answers' : a \in answers \/ Honest(a, users', faults')
    BY <1>5, Zenon
  <2>3. \A m \in Loops : \A i \in 1..Len(functors'[m]) :
            \E k \in 1..Len(functors[m]) : functors'[m][i] = functors[m][k]
    BY <1>1
  <2> QED
    BY <2>1, <2>2, <2>3, HonestStep
<1> QED
  BY <1>6, <1>7, <1>8, <1>9

LEMMA RunCallbackStep ==
    ASSUME Parts, NEW l \in Loops, RunCallback(l)
    PROVE  Parts'
<1> USE DEF Parts
<1>f. functors[l] \in Seq(Job) /\ functors[l] # << >>
  BY DEF RunCallback, TypeOK
<1>j. PICK j \in Job : j = Head(functors[l]) /\ j = functors[l][1]
  BY <1>f
<1>1. /\ UNCHANGED <<rpVars, users, running, accepted, faults, changes>>
      /\ functors' = [functors EXCEPT ![l] = Tail(@)]
      /\ answers' \in {answers, answers \cup {AnswerTo(j)}}
      /\ silent' \in {silent, silent \cup {j}}
  BY <1>j DEF RunCallback, bounds
<1>2. queue' \in Seq(Waiting) /\ calling' \in [Loops -> Waiting \cup {None}]
  <2>1. CASE UNCHANGED <<calling, queue>>
    BY <2>1 DEF TypeOK
  <2>2. CASE Run(l, [j EXCEPT !.kind = "peek", !.pc = "peek"])
    <3>1. "peek" \in Kinds /\ "peek" \in Pcs /\ j \in Record
      BY DEF Kinds, Pcs, Job
    <3>2. [j EXCEPT !.kind = "peek", !.pc = "peek"] \in Record
      BY <3>1 DEF Record
    <3>3. [j EXCEPT !.kind = "peek", !.pc = "peek"] \in Waiting
      BY <3>1, <3>2 DEF Job, Waiting, Record
    <3> QED
      BY <2>2, <3>3, RunStep
  <2> QED
    BY <1>j, <2>1, <2>2 DEF RunCallback
<1>3. functors' \in [Loops -> Seq(Job)]
  <2>1. Tail(functors[l]) \in Seq(Job)
    BY <1>f
  <2> QED
    BY <1>1, <2>1 DEF TypeOK
<1>4. answers' \subseteq Answer /\ silent' \subseteq Job
  BY <1>1, AnswerType DEF TypeOK
<1>5. RPInv' /\ tls' = tls
  BY <1>1, RPUnchanged
<1>6. TypeOK'
  BY <1>1, <1>2, <1>3, <1>4, <1>5 DEF TypeOK, RPInv
<1>7. CallsAreConnected'
  BY <1>1, <1>5 DEF CallsAreConnected, At
<1>8. AllHonest'
  <2>1. Grows(users, users') /\ (faults' = 0 => faults = 0)
    BY <1>1 DEF Grows
  <2>2. Honest(AnswerTo(j), users', faults')
    <3>1. 1 \in 1..Len(functors[l])
      BY <1>f
    <3>2. Honest(AnswerTo(functors[l][1]), users, faults)
      BY <3>1 DEF AllHonest
    <3> QED
      BY <1>j, <1>1, <3>2
  <2>3. ASSUME NEW m \in Loops, NEW i \in 1..Len(functors'[m])
        PROVE  \E k \in 1..Len(functors[m]) : functors'[m][i] = functors[m][k]
    <3>1. CASE m # l
      BY <1>1, <3>1 DEF TypeOK
    <3>2. CASE m = l
      <4>1. functors'[m] = Tail(functors[l])
        BY <1>1, <3>2 DEF TypeOK
      <4>2. i + 1 \in 1..Len(functors[l]) /\ Tail(functors[l])[i] = functors[l][i + 1]
        BY <1>f, <4>1
      <4> QED
        BY <3>2, <4>1, <4>2
    <3> QED
      BY <3>1, <3>2
  <2> QED
    BY <1>1, <2>1, <2>2, <2>3, HonestStep
<1> QED
  BY <1>5, <1>6, <1>7, <1>8

LEMMA TakeStep ==
    ASSUME Parts, NEW t \in Threads, Take(t)
    PROVE  Parts'
<1> USE DEF Parts
<1>q. queue \in Seq(Waiting) /\ queue # << >>
  BY DEF Take, TypeOK
<1>j. PICK j \in Waiting : j = Head(queue)
  BY <1>q
<1>1. /\ UNCHANGED <<rpVars, users, calling, functors, answers, silent, accepted, faults, changes>>
      /\ running' = [running EXCEPT ![t] = j]
      /\ queue' = Tail(queue)
  BY <1>j DEF Take, bounds
<1>2. j \in Job /\ j.pc # "command"
  BY DEF Waiting
<1>3. queue' \in Seq(Waiting)
  BY <1>1, <1>q
<1>4. running' \in [Threads -> Job \cup {None}]
  BY <1>1, <1>2 DEF TypeOK
<1>5. RPInv' /\ tls' = tls
  BY <1>1, RPUnchanged
<1>6. TypeOK'
  BY <1>1, <1>3, <1>4, <1>5 DEF TypeOK, RPInv
<1>7. CallsAreConnected'
  BY <1>1, <1>2, <1>5 DEF CallsAreConnected, At, TypeOK
<1>8. AllHonest'
  BY <1>1 DEF AllHonest, AnswerTo, Honest
<1> QED
  BY <1>5, <1>6, <1>7, <1>8

\* A step that ends a job, on any outcome of the table and of Redis
LEMMA EndStep ==
    ASSUME Parts, NEW t \in Threads, running[t] # None,
           NEW ok \in BOOLEAN, Finish(t, ok),
           UNCHANGED <<calling, queue, answers, silent, accepted, changes>>,
           users' \in [Uids -> 0..MaxRequests], Grows(users, users'),
           faults' \in 0..MaxFaults, faults' = 0 => faults = 0,
           RPInv', \A u \in Threads : u # t => tls'[u] = tls[u],
           Honest(AnswerTo(Done(running[t], ok)), users', faults')
    PROVE  Parts'
<1> USE DEF Parts
<1>1. /\ AllHonest'
      /\ functors' \in [Loops -> Seq(Job)]
      /\ running' \in [Threads -> Job \cup {None}]
      /\ \A u \in Threads : At(u, "command")' => u # t /\ At(u, "command")
  BY FinishStep
<1>2. TypeOK'
  BY <1>1 DEF TypeOK, RPInv
<1>3. CallsAreConnected'
  BY <1>1 DEF CallsAreConnected
<1> QED
  BY <1>1, <1>2, <1>3

\* A step that moves a job on: its kind stays, its pc is right for it, and a
\* call is made on a connection without an error.
LEMMA GotoStep ==
    ASSUME Parts, NEW t \in Threads, NEW j \in Job,
           running' = [running EXCEPT ![t] = j],
           UNCHANGED <<users, calling, queue, functors, answers, silent, accepted, faults, changes>>,
           RPInv', \A u \in Threads : u # t => tls'[u] = tls[u],
           j.pc = "command" => tls'[t] \notin {"new", "err"}
    PROVE  Parts'
<1> USE DEF Parts
<1>1. running' \in [Threads -> Job \cup {None}]
  BY DEF TypeOK
<1>2. TypeOK'
  BY <1>1 DEF TypeOK, RPInv
<1>3. ASSUME NEW u \in Threads, At(u, "command")'
      PROVE  tls'[u] \notin {"new", "err"}
  <2>1. CASE u = t
    BY <1>3, <2>1 DEF At, TypeOK
  <2>2. CASE u # t
    <3>1. running'[u] = running[u]
      BY <2>2 DEF TypeOK
    <3>2. At(u, "command")
      BY <1>3, <3>1 DEF At
    <3> QED
      BY <2>2, <3>2 DEF CallsAreConnected
  <2> QED
    BY <2>1, <2>2
<1>4. CallsAreConnected'
  BY <1>3 DEF CallsAreConnected
<1>5. AllHonest'
  BY DEF AllHonest, AnswerTo, Honest
<1> QED
  BY <1>2, <1>4, <1>5

\* The job of a worker, and what its pc says of its kind
LEMMA RunningJob ==
    ASSUME TypeOK, NEW t \in Threads, NEW pc, At(t, pc)
    PROVE  /\ running[t] \in Job /\ running[t] # None /\ running[t].pc = pc
           /\ running[t].id \in 1..MaxRequests
           /\ running[t].uid \in Uids \cup {None}
           /\ pc \in {"connect", "command", "store", "peek"} =>
                  running[t].kind # "register"
  BY DEF At, TypeOK, Job, Record

\* A job at another pc is answered with nothing that matters.
LEMMA OtherDone ==
    ASSUME NEW j \in Job, j.kind # "register", NEW ok \in BOOLEAN, NEW us, NEW f
    PROVE  Honest(AnswerTo(Done(j, ok)), us, f)
  BY DoneFacts DEF Honest

LEMMA SelectUserStep ==
    ASSUME Parts, NEW t \in Threads, SelectUser(t)
    PROVE  Parts'
<1> USE DEF Parts
<1>j. PICK j \in Job : j = running[t] /\ running[t] # None /\ j.pc = "select"
  BY RunningJob DEF SelectUser
<1>1. UNCHANGED <<rpVars, users, calling, queue, answers, silent, accepted, faults, changes>>
  BY DEF SelectUser, bounds
<1>2. RPInv' /\ tls' = tls
  BY <1>1, RPUnchanged
<1>3. CASE users[j.uid] = 0 /\ Goto(t, "insert")
  <2>1. [j EXCEPT !.pc = "insert"] \in Job /\ [j EXCEPT !.pc = "insert"].pc = "insert"
    BY DEF Job, Record, Pcs
  <2>2. running' = [running EXCEPT ![t] = [j EXCEPT !.pc = "insert"]] /\ functors' = functors
    BY <1>3, <1>j DEF Goto
  <2> QED
    BY <1>1, <1>2, <2>1, <2>2, GotoStep
<1>4. CASE users[j.uid] # 0 /\ Finish(t, FALSE)
  <2>1. Honest(AnswerTo(Done(j, FALSE)), users', faults')
    BY <1>1, <1>4, DoneFacts DEF Honest
  <2>2. Grows(users, users')
    BY <1>1 DEF Grows
  <2>3. users' \in [Uids -> 0..MaxRequests] /\ faults' \in 0..MaxFaults
    BY <1>1 DEF TypeOK
  <2> QED
    BY <1>j, <1>1, <1>2, <1>4, <2>1, <2>2, <2>3, EndStep
<1> QED
  BY <1>j, <1>3, <1>4 DEF SelectUser

LEMMA InsertedFacts ==
    ASSUME TypeOK, NEW j \in Job, users[j.uid] = 0, Inserted(j), NEW f
    PROVE  /\ users' \in [Uids -> 0..MaxRequests]
           /\ Grows(users, users')
           /\ Honest(AnswerTo(Done(j, TRUE)), users', f)
<1>1. j.uid \in Uids \cup {None} /\ j.id \in 1..MaxRequests
  BY DEF Job, Record
<1>2. users' = [users EXCEPT ![j.uid] = j.id]
  BY DEF Inserted
<1>3. users' \in [Uids -> 0..MaxRequests]
  <2>1. users \in [Uids -> 0..MaxRequests]
    BY DEF TypeOK
  <2>2. j.id \in 0..MaxRequests
    BY <1>1, WorkersAssumption
  <2> QED
    BY <1>2, <2>1, <2>2
<1>4. Grows(users, users')
  BY <1>1, <1>2 DEF Grows
<1>5. j.uid # None => users'[j.uid] = j.id
  BY <1>1, <1>2 DEF TypeOK
<1> QED
  BY <1>3, <1>4, <1>5, DoneFacts DEF Honest

LEMMA InsertUserStep ==
    ASSUME Parts, NEW t \in Threads, InsertUser(t)
    PROVE  Parts'
<1> USE DEF Parts
<1>j. PICK j \in Job : j = running[t] /\ running[t] # None
  BY RunningJob DEF InsertUser
<1>1. UNCHANGED <<rpVars, calling, queue, answers, silent, accepted, faults, changes>>
  BY DEF InsertUser, bounds
<1>2. RPInv' /\ tls' = tls /\ faults' \in 0..MaxFaults
  BY <1>1, RPUnchanged DEF TypeOK
<1>3. CASE users[j.uid] = 0 /\ Inserted(j) /\ Finish(t, TRUE)
  <2>1. /\ users' \in [Uids -> 0..MaxRequests]
        /\ Grows(users, users')
        /\ Honest(AnswerTo(Done(j, TRUE)), users', faults')
    BY <1>3, InsertedFacts
  <2> QED
    BY <1>j, <1>1, <1>2, <1>3, <2>1, EndStep
<1>4. CASE users[j.uid] # 0 /\ UNCHANGED users /\ Finish(t, FALSE)
  <2>1. Honest(AnswerTo(Done(j, FALSE)), users', faults')
    BY <1>1, <1>4, DoneFacts DEF Honest
  <2>2. Grows(users, users') /\ users' \in [Uids -> 0..MaxRequests]
    BY <1>4 DEF Grows, TypeOK
  <2> QED
    BY <1>j, <1>1, <1>2, <1>4, <2>1, <2>2, EndStep
<1> QED
  BY <1>j, <1>3, <1>4 DEF InsertUser

LEMMA FaultStep ==
    ASSUME Parts, NEW t \in Threads, Fault(t)
    PROVE  Parts'
<1> USE DEF Parts
<1>j. PICK j \in Job : j = running[t] /\ running[t] # None
  BY RunningJob DEF Fault
<1>1. /\ UNCHANGED <<rpVars, calling, queue, answers, silent, accepted, changes>>
      /\ faults < MaxFaults /\ faults' = faults + 1
      /\ Finish(t, FALSE)
  BY DEF Fault
<1>2. RPInv' /\ tls' = tls
  BY <1>1, RPUnchanged
<1>3. faults' \in 0..MaxFaults /\ faults' # 0
  BY <1>1, WorkersAssumption DEF TypeOK
<1>4. users' \in [Uids -> 0..MaxRequests] /\ Grows(users, users')
  <2>1. CASE UNCHANGED users
    BY <2>1 DEF Grows, TypeOK
  <2>2. CASE users[j.uid] = 0 /\ Inserted(j)
    BY <2>2, InsertedFacts
  <2> QED
    BY <1>j, <2>1, <2>2 DEF Fault
<1>5. Honest(AnswerTo(Done(j, FALSE)), users', faults')
  BY <1>3, DoneFacts DEF Honest
<1> QED
  BY <1>j, <1>1, <1>2, <1>3, <1>4, <1>5, EndStep

\* A job that is not a registration ends.
LEMMA OtherEndStep ==
    ASSUME Parts, NEW t \in Threads, NEW j \in Job, j = running[t],
           running[t] # None, j.kind # "register",
           NEW ok \in BOOLEAN, Finish(t, ok),
           UNCHANGED <<users, calling, queue, answers, silent, accepted, faults, changes>>,
           RPInv', \A u \in Threads : u # t => tls'[u] = tls[u]
    PROVE  Parts'
<1>1. Honest(AnswerTo(Done(running[t], ok)), users', faults')
  BY OtherDone
<1>2. /\ users' \in [Uids -> 0..MaxRequests] /\ faults' \in 0..MaxFaults
      /\ Grows(users, users')
  BY DEF Grows, Parts, TypeOK
<1> QED
  BY <1>1, <1>2, EndStep

LEMMA VerifyFailsStep ==
    ASSUME Parts, NEW t \in Threads, VerifyFails(t)
    PROVE  Parts'
<1>j. PICK j \in Job : j = running[t] /\ running[t] # None /\ j.kind # "register"
  BY RunningJob DEF VerifyFails, Parts
<1>1. /\ UNCHANGED <<rpVars, users, calling, queue, answers, silent, accepted, faults, changes>>
      /\ Finish(t, FALSE)
  BY DEF VerifyFails, bounds
<1>2. RPInv' /\ tls' = tls
  BY <1>1, RPUnchanged DEF Parts
<1> QED
  BY <1>j, <1>1, <1>2, OtherEndStep

LEMMA StoreMessageStep ==
    ASSUME Parts, NEW t \in Threads, StoreMessage(t)
    PROVE  Parts'
<1>j. PICK j \in Job : j = running[t] /\ running[t] # None /\ j.kind # "register"
  BY RunningJob DEF StoreMessage, Parts
<1>1. UNCHANGED <<rpVars, users, calling, queue, answers, silent, accepted, faults, changes>>
  BY DEF StoreMessage, bounds
<1>2. PICK ok \in BOOLEAN : Finish(t, ok)
  BY DEF StoreMessage
<1>3. RPInv' /\ tls' = tls
  BY <1>1, RPUnchanged DEF Parts
<1> QED
  BY <1>j, <1>1, <1>2, <1>3, OtherEndStep

LEMMA ConnectStep ==
    ASSUME Parts, NEW t \in Threads, Connect(t)
    PROVE  Parts'
<1>j. PICK j \in Job : j = running[t] /\ running[t] # None /\ j.kind # "register"
  BY RunningJob DEF Connect, Parts
<1>1. /\ UNCHANGED <<users, calling, queue, functors, answers, silent, accepted, faults, changes>>
      /\ running' = [running EXCEPT ![t] = [j EXCEPT !.pc = "command"]]
  BY <1>j DEF Connect, bounds, Goto
<1>2. [j EXCEPT !.pc = "command"] \in Job
  BY <1>j DEF Job, Record, Pcs
<1>3. /\ RPInv'
      /\ tls'[t] \notin {"new", "err"}
      /\ \A u \in Threads : u # t => tls'[u] = tls[u]
  BY GetConnectionStep DEF Connect, Parts
<1> QED
  BY <1>1, <1>2, <1>3, GotoStep

LEMMA CallRedisStep ==
    ASSUME Parts, NEW t \in Threads, CallRedis(t)
    PROVE  Parts'
<1>j. PICK j \in Job : j = running[t] /\ running[t] # None /\ j.kind # "register"
  BY RunningJob DEF CallRedis, Parts
<1>1. UNCHANGED <<users, calling, queue, answers, silent, accepted, faults, changes>>
  BY DEF CallRedis, bounds
<1>2. tls[t] \notin {"new", "err"}
  BY DEF CallRedis, Parts, CallsAreConnected
<1>3. RPInv' /\ \A u \in Threads : u # t => tls'[u] = tls[u]
  BY <1>2, CommandStep DEF CallRedis, Parts
<1>4. CASE /\ running' = [running EXCEPT ![t].pc = "connect", ![t].calls = 1]
           /\ UNCHANGED functors
  <2>1. j \in Record /\ "connect" \in Pcs /\ 1 \in 0..2
    BY DEF Job, Pcs
  <2>2. [j EXCEPT !.pc = "connect", !.calls = 1] \in Record
    BY <2>1 DEF Record
  <2>3. /\ [j EXCEPT !.pc = "connect", !.calls = 1].kind = j.kind
        /\ [j EXCEPT !.pc = "connect", !.calls = 1].pc = "connect"
    BY <2>1 DEF Record
  <2>4. [j EXCEPT !.pc = "connect", !.calls = 1] \in Job
    BY <1>j, <2>2, <2>3 DEF Job
  <2>5. running' = [running EXCEPT ![t] = [j EXCEPT !.pc = "connect", !.calls = 1]]
    BY <1>j, <1>4 DEF Parts, TypeOK
  <2> QED
    BY <1>1, <1>3, <1>4, <2>3, <2>4, <2>5, GotoStep
<1>5. CASE \E ok \in BOOLEAN : Finish(t, ok)
  BY <1>j, <1>1, <1>3, <1>5, OtherEndStep
<1>6. ASSUME Finish(t, running[t].kind # "login" \/ tls[t] # "null")
      PROVE  \E ok \in BOOLEAN : Finish(t, ok)
  <2>1. (running[t].kind # "login" \/ tls[t] # "null") \in BOOLEAN
    OBVIOUS
  <2> QED
    BY <1>6, <2>1, Zenon
<1>7. ASSUME Finish(t, FALSE)
      PROVE  \E ok \in BOOLEAN : Finish(t, ok)
  BY <1>7, Zenon
<1> QED
  BY <1>4, <1>5, <1>6, <1>7 DEF CallRedis

LEMMA RedisGoesStep ==
    ASSUME Parts, Redis
    PROVE  Parts'
<1> USE DEF Parts
<1>1. /\ UNCHANGED <<users, calling, queue, running, functors, answers, silent, accepted, faults>>
      /\ changes < MaxChanges /\ changes' = changes + 1 /\ RedisChanges
  BY DEF Redis, poolVars
<1>2. /\ RPInv'
      /\ \A u \in Threads : tls[u] \notin {"new", "err"} => tls'[u] \notin {"new", "err"}
  BY <1>1, RedisStep
<1>3. changes' \in 0..MaxChanges
  BY <1>1, WorkersAssumption DEF TypeOK
<1>4. TypeOK'
  BY <1>1, <1>2, <1>3 DEF TypeOK, RPInv
<1>5. CallsAreConnected'
  BY <1>1, <1>2 DEF CallsAreConnected, At
<1>6. AllHonest'
  BY <1>1 DEF AllHonest, AnswerTo, Honest
<1> QED
  BY <1>2, <1>4, <1>5, <1>6

LEMMA StutterStep ==
    ASSUME Parts, UNCHANGED vars
    PROVE  Parts'
<1> USE DEF Parts
<1>1. UNCHANGED <<rpVars, users, calling, queue, running, functors, answers, silent,
                  accepted, faults, changes>>
  BY DEF vars, poolVars, bounds
<1>2. RPInv' /\ tls' = tls
  BY <1>1, RPUnchanged
<1>3. TypeOK'
  BY <1>1, <1>2 DEF TypeOK, RPInv
<1>4. CallsAreConnected'
  BY <1>1, <1>2 DEF CallsAreConnected, At
<1>5. AllHonest'
  BY <1>1 DEF AllHonest, AnswerTo, Honest
<1> QED
  BY <1>2, <1>3, <1>4, <1>5

-----------------------------------------------------------------------------
(***************************************************************************)
(* Requests on their way                                                    *)
(***************************************************************************)

\* What Append and Tail do to the jobs of a sequence
LEMMA JobsInSteps ==
    ASSUME NEW S, NEW s \in Seq(S), NEW e \in S
    PROVE  /\ JobsIn(Append(s, e)) = JobsIn(s) \cup {e}
           /\ s # << >> => JobsIn(s) = JobsIn(Tail(s)) \cup {Head(s)}
<1>1. JobsIn(Append(s, e)) = JobsIn(s) \cup {e}
  <2>1. Len(Append(s, e)) = Len(s) + 1 /\ Len(s) \in Nat
    OBVIOUS
  <2>2. \A i \in 1..Len(s) : Append(s, e)[i] = s[i]
    OBVIOUS
  <2>3. Append(s, e)[Len(s) + 1] = e
    OBVIOUS
  <2> QED
    BY <2>1, <2>2, <2>3 DEF JobsIn
<1>2. ASSUME s # << >>
      PROVE  JobsIn(s) = JobsIn(Tail(s)) \cup {Head(s)}
  <2>1. Len(s) \in Nat /\ Len(s) > 0 /\ Len(Tail(s)) = Len(s) - 1
    BY <1>2
  <2>2. \A i \in 1..Len(Tail(s)) : Tail(s)[i] = s[i + 1]
    BY <1>2
  <2>3. Head(s) = s[1]
    BY <1>2
  <2>4. ASSUME NEW j \in JobsIn(s)
        PROVE  j \in JobsIn(Tail(s)) \cup {Head(s)}
    <3>1. PICK i \in 1..Len(s) : j = s[i]
      BY DEF JobsIn
    <3>2. CASE i # 1
      <4>1. i - 1 \in 1..Len(Tail(s)) /\ (i - 1) + 1 = i
        BY <2>1, <3>2
      <4>2. Tail(s)[i - 1] = j
        BY <2>2, <3>1, <4>1
      <4> QED
        BY <4>1, <4>2 DEF JobsIn
    <3> QED
      BY <2>3, <3>1, <3>2
  <2>5. ASSUME NEW j \in JobsIn(Tail(s)) \cup {Head(s)}
        PROVE  j \in JobsIn(s)
    BY <2>1, <2>2, <2>3 DEF JobsIn
  <2> QED
    BY <2>4, <2>5
<1> QED
  BY <1>1, <1>2

LEMMA JobIsNotNone == \A j \in Job : j # None
  BY NoneAssumption DEF Job

\* run() forgets neither the job nor what was there.
LEMMA RunKeeps ==
    ASSUME TypeOK, NEW l \in Loops, NEW j \in Waiting, Run(l, j), calling[l] = None
    PROVE  /\ JobsIn(queue) \subseteq JobsIn(queue')
           /\ \A m \in Loops : calling[m] # None => calling'[m] = calling[m]
           /\ HasRoom => j \in JobsIn(queue')
           /\ ~HasRoom => calling'[l] = j
<1>1. JobsIn(Append(queue, j)) = JobsIn(queue) \cup {j}
  BY JobsInSteps DEF TypeOK
<1>2. calling \in [Loops -> Waiting \cup {None}]
  BY DEF TypeOK
<1>3. CASE HasRoom
  <2>1. queue' = Append(queue, j) /\ calling' = calling
    BY <1>3 DEF Run
  <2> QED
    BY <1>1, <1>3, <2>1
<1>4. CASE ~HasRoom
  <2>1. queue' = queue /\ calling' = [calling EXCEPT ![l] = j]
    BY <1>4 DEF Run
  <2> QED
    BY <1>2, <1>4, <2>1
<1> QED
  BY <1>3, <1>4

\* A handler forgets no request, and its own is on its way.
LEMMA HandleWay ==
    ASSUME TypeOK, EachIsOnItsWay, NEW l \in Loops, NEW j \in Waiting,
           j.id = accepted + 1, j.kind # "peek", Handle(l, j)
    PROVE  EachIsOnItsWay'
<1>1. /\ calling[l] = None /\ Run(l, j) /\ accepted' = accepted + 1
      /\ UNCHANGED <<running, functors, silent>>
      /\ answers' = IF HasRoom THEN AfterRun(j) ELSE answers
  BY DEF Handle
<1>2. /\ JobsIn(queue) \subseteq JobsIn(queue')
      /\ \A m \in Loops : calling[m] # None => calling'[m] = calling[m]
      /\ HasRoom => j \in JobsIn(queue')
      /\ ~HasRoom => calling'[l] = j
  BY <1>1, RunKeeps
<1>3. answers \subseteq answers'
  BY <1>1 DEF AfterRun
<1>4. ASSUME NEW i, OnItsWay(i)
      PROVE  OnItsWay(i)'
  BY <1>1, <1>2, <1>3, <1>4 DEF OnItsWay, IsAnswered, OwedNothing, HasCallback
<1>5. j \in Job /\ j # None
  BY JobIsNotNone DEF Waiting
<1>6. OnItsWay(accepted)'
  <2>1. CASE ~HasRoom
    BY <1>1, <1>2, <1>5, <2>1 DEF OnItsWay, IsAnswered, OwedNothing
  <2>2. CASE HasRoom /\ j.kind # "logout"
    BY <1>1, <1>2, <1>5, <2>2 DEF OnItsWay, IsAnswered, OwedNothing, HasCallback
  <2>3. CASE HasRoom /\ j.kind = "logout"
    <3>1. AnswerTo(j) \in answers' /\ AnswerTo(j).id = accepted'
      BY <1>1, <2>3 DEF AfterRun, AnswerTo
    <3> QED
      BY <3>1 DEF OnItsWay, IsAnswered, OwedNothing
  <2> QED
    BY <2>1, <2>2, <2>3
<1>7. ASSUME NEW i \in 1..accepted'
      PROVE  i \in 1..accepted \/ i = accepted'
  BY <1>1 DEF TypeOK
<1>8. ASSUME NEW i \in 1..accepted'
      PROVE  OnItsWay(i)'
  BY <1>4, <1>6, <1>7 DEF EachIsOnItsWay
<1> QED
  BY <1>8 DEF EachIsOnItsWay

\* Every request that was on its way is still on its way, and there is no new
\* one.
LEMMA WayStep ==
    ASSUME EachIsOnItsWay, accepted' = accepted,
           \A i : OnItsWay(i) => OnItsWay(i)'
    PROVE  EachIsOnItsWay'
  BY DEF EachIsOnItsWay

LEMMA RunReturnsWay ==
    ASSUME TypeOK, NEW l \in Loops, RunReturns(l), NEW i, OnItsWay(i)
    PROVE  OnItsWay(i)'
<1>j. PICK j \in Waiting : j = calling[l] /\ calling[l] # None
  BY DEF RunReturns, TypeOK
<1>1. /\ UNCHANGED <<running, functors, silent>>
      /\ queue' = Append(queue, j)
      /\ calling' = [calling EXCEPT ![l] = None]
      /\ answers' = AfterRun(j)
  BY <1>j DEF RunReturns
<1>2. JobsIn(queue') = JobsIn(queue) \cup {j}
  BY <1>1, JobsInSteps DEF TypeOK
<1>3. answers \subseteq answers'
  BY <1>1 DEF AfterRun
<1>4. \A m \in Loops : m # l => calling'[m] = calling[m]
  BY <1>1 DEF TypeOK
<1>5. ASSUME j.kind # "peek", j.id = i
      PROVE  OnItsWay(i)'
  <2>1. CASE j.kind # "logout"
    BY <1>j, <1>2, <1>5, <2>1 DEF OnItsWay, IsAnswered, OwedNothing, HasCallback
  <2>2. CASE j.kind = "logout"
    <3>1. AnswerTo(j) \in answers' /\ AnswerTo(j).id = i
      BY <1>1, <1>5, <2>2 DEF AfterRun, AnswerTo
    <3> QED
      BY <3>1 DEF OnItsWay, IsAnswered, OwedNothing
  <2> QED
    BY <2>1, <2>2
<1>6. ASSUME NEW m \in Loops, calling[m] # None, calling[m].kind # "peek",
             calling[m].id = i
      PROVE  OnItsWay(i)'
  <2>1. CASE m = l
    BY <1>j, <1>5, <1>6, <2>1
  <2>2. CASE m # l
    BY <1>4, <1>6, <2>2 DEF OnItsWay, IsAnswered, OwedNothing
  <2> QED
    BY <2>1, <2>2
<1> QED
  BY <1>1, <1>2, <1>3, <1>6 DEF OnItsWay, IsAnswered, OwedNothing

LEMMA RunCallbackWay ==
    ASSUME TypeOK, NEW l \in Loops, RunCallback(l), NEW i, OnItsWay(i)
    PROVE  OnItsWay(i)'
<1>f. functors[l] \in Seq(Job) /\ functors[l] # << >>
  BY DEF RunCallback, TypeOK
<1>j. PICK j \in Job : j = Head(functors[l])
  BY <1>f
<1>1. /\ UNCHANGED running
      /\ functors' = [functors EXCEPT ![l] = Tail(@)]
      /\ answers \subseteq answers' /\ silent \subseteq silent'
      /\ \/ AnswerTo(j) \in answers'
         \/ j \in silent' /\ j.kind = "room" /\ j.ok
      /\ calling[l] = None
  BY <1>j DEF RunCallback
<1>2. /\ JobsIn(queue) \subseteq JobsIn(queue')
      /\ \A m \in Loops : calling[m] # None => calling'[m] = calling[m]
  <2>1. CASE UNCHANGED <<calling, queue>>
    BY <2>1
  <2>2. CASE Run(l, [j EXCEPT !.kind = "peek", !.pc = "peek"])
    <3>1. "peek" \in Kinds /\ "peek" \in Pcs /\ j \in Record
      BY DEF Kinds, Pcs, Job
    <3>2. [j EXCEPT !.kind = "peek", !.pc = "peek"] \in Record
      BY <3>1 DEF Record
    <3>3. [j EXCEPT !.kind = "peek", !.pc = "peek"] \in Waiting
      BY <3>1, <3>2 DEF Job, Waiting, Record
    <3> QED
      BY <1>1, <2>2, <3>3, RunKeeps
  <2> QED
    BY <1>j, <2>1, <2>2 DEF RunCallback
<1>3. JobsIn(functors[l]) = JobsIn(functors'[l]) \cup {j}
  BY <1>f, <1>j, <1>1, JobsInSteps DEF TypeOK
<1>4. \A m \in Loops : m # l => functors'[m] = functors[m]
  BY <1>1 DEF TypeOK
<1>5. AnswerTo(j).id = j.id
  BY DEF AnswerTo
<1>6. ASSUME NEW m \in Loops, NEW k \in JobsIn(functors[m]), k.id = i
      PROVE  OnItsWay(i)'
  <2>1. CASE m = l /\ k = j
    BY <1>1, <1>5, <1>6, <2>1 DEF OnItsWay, IsAnswered, OwedNothing
  <2>2. CASE k \in JobsIn(functors'[m])
    BY <1>6, <2>2 DEF OnItsWay, IsAnswered, OwedNothing
  <2> QED
    BY <1>3, <1>4, <2>1, <2>2
<1> QED
  BY <1>1, <1>2, <1>6 DEF OnItsWay, IsAnswered, OwedNothing, HasCallback

LEMMA TakeWay ==
    ASSUME TypeOK, NEW t \in Threads, Take(t), NEW i, OnItsWay(i)
    PROVE  OnItsWay(i)'
<1>q. queue \in Seq(Waiting) /\ queue # << >>
  BY DEF Take, TypeOK
<1>1. /\ UNCHANGED <<calling, functors, answers, silent>>
      /\ running[t] = None
      /\ running' = [running EXCEPT ![t] = Head(queue)]
      /\ queue' = Tail(queue)
  BY DEF Take
<1>2. JobsIn(queue) = JobsIn(queue') \cup {Head(queue)}
  <2>1. Head(queue) \in Waiting
    BY <1>q
  <2> QED
    BY <1>q, <1>1, <2>1, JobsInSteps
<1>3. running'[t] = Head(queue) /\ \A u \in Threads : u # t => running'[u] = running[u]
  BY <1>1 DEF TypeOK
<1>4. ASSUME NEW j \in JobsIn(queue), HasCallback(j), j.id = i
      PROVE  OnItsWay(i)'
  <2>1. CASE j = Head(queue)
    BY <1>3, <1>4, <2>1 DEF OnItsWay, IsAnswered, OwedNothing, HasCallback
  <2>2. CASE j \in JobsIn(queue')
    BY <1>4, <2>2 DEF OnItsWay, IsAnswered, OwedNothing, HasCallback
  <2> QED
    BY <1>2, <2>1, <2>2
<1>5. ASSUME NEW u \in Threads, HasCallback(running[u]), running[u].id = i
      PROVE  OnItsWay(i)'
  <2>1. u # t
    BY <1>1, <1>5 DEF HasCallback
  <2> QED
    BY <1>3, <1>5, <2>1 DEF OnItsWay, IsAnswered, OwedNothing, HasCallback
<1> QED
  BY <1>1, <1>4, <1>5 DEF OnItsWay, IsAnswered, OwedNothing

\* A job that goes on is the same job.
LEMMA GotoWay ==
    ASSUME TypeOK, NEW t \in Threads, NEW j \in Job, running[t] \in Job,
           j.id = running[t].id, j.kind = running[t].kind,
           running' = [running EXCEPT ![t] = j],
           UNCHANGED <<calling, queue, functors, answers, silent>>, NEW i, OnItsWay(i)
    PROVE  OnItsWay(i)'
<1>1. running'[t] = j /\ \A u \in Threads : u # t => running'[u] = running[u]
  BY DEF TypeOK
<1>2. j # None
  BY JobIsNotNone
<1>3. ASSUME NEW u \in Threads, HasCallback(running[u]), running[u].id = i
      PROVE  OnItsWay(i)'
  <2>1. HasCallback(running'[u]) /\ running'[u].id = i
    BY <1>1, <1>2, <1>3 DEF HasCallback
  <2> QED
    BY <2>1 DEF OnItsWay, IsAnswered, OwedNothing, HasCallback
<1> QED
  BY <1>3 DEF OnItsWay, IsAnswered, OwedNothing

\* A job that ends posts its callback, unless nobody waits for it.
LEMMA FinishWay ==
    ASSUME TypeOK, NEW t \in Threads, running[t] # None, NEW ok \in BOOLEAN,
           Finish(t, ok), UNCHANGED <<calling, queue, answers, silent>>,
           NEW i, OnItsWay(i)
    PROVE  OnItsWay(i)'
<1>j. PICK j \in Job : j = running[t]
  BY DEF TypeOK
<1>d. PICK d \in Job : d = Done(j, ok) /\ d.id = j.id
  <2>1. j \in Record
    BY DEF Job
  <2>2. Done(j, ok).id = j.id
    BY <2>1 DEF Done, Record
  <2> QED
    BY <2>2, DoneFacts
<1>l. j.loop \in Loops
  BY DEF Job, Record
<1>1. /\ running' = [running EXCEPT ![t] = None]
      /\ functors' = IF j.kind \in {"logout", "peek"} THEN functors
                     ELSE [functors EXCEPT ![j.loop] = Append(@, d)]
  BY <1>j, <1>d DEF Finish
<1>2. \A u \in Threads : u # t => running'[u] = running[u]
  BY <1>1 DEF TypeOK
<1>3. \A m \in Loops : JobsIn(functors[m]) \subseteq JobsIn(functors'[m])
  <2> TAKE m \in Loops
  <2>1. functors[m] \in Seq(Job)
    BY DEF TypeOK
  <2>2. functors'[m] \in {functors[m], Append(functors[m], d)}
    BY <1>1 DEF TypeOK
  <2>3. JobsIn(Append(functors[m], d)) = JobsIn(functors[m]) \cup {d}
    BY <2>1, JobsInSteps
  <2> QED
    BY <2>2, <2>3
<1>4. j.kind \notin {"logout", "peek"} => d \in JobsIn(functors'[j.loop])
  <2>1. functors[j.loop] \in Seq(Job)
    BY <1>l DEF TypeOK
  <2>2. JobsIn(Append(functors[j.loop], d)) = JobsIn(functors[j.loop]) \cup {d}
    BY <2>1, JobsInSteps
  <2>3. j.kind \notin {"logout", "peek"} => functors'[j.loop] = Append(functors[j.loop], d)
    BY <1>l, <1>1 DEF TypeOK
  <2> QED
    BY <2>2, <2>3
<1>5. ASSUME NEW u \in Threads, HasCallback(running[u]), running[u].id = i
      PROVE  OnItsWay(i)'
  <2>1. CASE u = t
    BY <1>j, <1>d, <1>l, <1>4, <1>5, <2>1 DEF OnItsWay, IsAnswered, OwedNothing, HasCallback
  <2>2. CASE u # t
    BY <1>2, <1>5, <2>2 DEF OnItsWay, IsAnswered, OwedNothing, HasCallback
  <2> QED
    BY <2>1, <2>2
<1> QED
  BY <1>3, <1>5 DEF OnItsWay, IsAnswered, OwedNothing

\* Whatever a worker does, a request stays on its way.
LEMMA WorkerWay ==
    ASSUME TypeOK, NEW t \in Threads, Worker(t) \/ Fault(t), NEW i, OnItsWay(i)
    PROVE  OnItsWay(i)'
<1>1. CASE Take(t)
  BY <1>1, TakeWay
<1>2. CASE ~Take(t)
  <2>1. UNCHANGED <<calling, queue, answers, silent>>
    BY <1>2 DEF Worker, SelectUser, InsertUser, VerifyFails, Connect, CallRedis,
       StoreMessage, Fault
  <2>j. PICK j \in Job : j = running[t] /\ running[t] # None
    BY <1>2 DEF Worker, SelectUser, InsertUser, VerifyFails, Connect, CallRedis,
       StoreMessage, Fault, At, TypeOK
  <2>2. ASSUME NEW ok \in BOOLEAN, Finish(t, ok)
        PROVE  OnItsWay(i)'
    BY <2>1, <2>2, <2>j, FinishWay
  <2>3. ASSUME NEW pc \in Pcs, NEW calls \in 0..2, pc \in {"insert", "command", "connect"},
               pc = "insert" \/ j.kind # "register",
               running' = [running EXCEPT ![t] = [j EXCEPT !.pc = pc, !.calls = calls]],
               UNCHANGED functors
        PROVE  OnItsWay(i)'
    <3>1. j \in Record
      BY DEF Job
    <3>2. /\ [j EXCEPT !.pc = pc, !.calls = calls] \in Record
          /\ [j EXCEPT !.pc = pc, !.calls = calls].pc = pc
          /\ [j EXCEPT !.pc = pc, !.calls = calls].id = j.id
          /\ [j EXCEPT !.pc = pc, !.calls = calls].kind = j.kind
      BY <3>1 DEF Record
    <3>3. [j EXCEPT !.pc = pc, !.calls = calls] \in Job
      BY <2>3, <3>2 DEF Job
    <3> QED
      BY <2>1, <2>3, <2>j, <3>2, <3>3, GotoWay
  <2>4. ASSUME NEW pc \in {"insert", "command"}, Goto(t, pc),
               pc = "insert" \/ j.kind # "register"
        PROVE  OnItsWay(i)'
    <3>1. j \in Record /\ j.calls \in 0..2 /\ pc \in Pcs
      BY DEF Job, Record, Pcs
    <3>2. running' = [running EXCEPT ![t] = [j EXCEPT !.pc = pc]] /\ UNCHANGED functors
      BY <2>4, <2>j DEF Goto
    <3>3. [j EXCEPT !.pc = pc] = [j EXCEPT !.pc = pc, !.calls = j.calls]
      BY <3>1 DEF Record
    <3> QED
      BY <2>3, <2>4, <3>1, <3>2, <3>3
  <2>5. CASE SelectUser(t)
    BY <2>2, <2>4, <2>5 DEF SelectUser
  <2>6. CASE InsertUser(t)
    BY <2>2, <2>6 DEF InsertUser
  <2>7. CASE VerifyFails(t) \/ Fault(t)
    BY <2>2, <2>7 DEF VerifyFails, Fault
  <2>8. CASE Connect(t)
    <3>1. j.kind # "register"
      BY <2>8, <2>j, RunningJob DEF Connect
    <3> QED
      BY <2>4, <2>8, <3>1 DEF Connect
  <2>9. CASE StoreMessage(t)
    BY <2>2, <2>9 DEF StoreMessage
  <2>10. CASE CallRedis(t)
    <3>1. j.kind # "register" /\ "connect" \in Pcs /\ 1 \in 0..2
      BY <2>10, <2>j, RunningJob DEF CallRedis, Pcs
    <3>2. CASE /\ running' = [running EXCEPT ![t].pc = "connect", ![t].calls = 1]
               /\ UNCHANGED functors
      <4>1. running' = [running EXCEPT ![t] = [j EXCEPT !.pc = "connect", !.calls = 1]]
        BY <2>j, <3>2 DEF TypeOK
      <4> QED
        BY <2>3, <3>1, <3>2, <4>1
    <3>3. ASSUME Finish(t, running[t].kind # "login" \/ tls[t] # "null")
          PROVE  OnItsWay(i)'
      <4>1. (running[t].kind # "login" \/ tls[t] # "null") \in BOOLEAN
        OBVIOUS
      <4> QED
        BY <2>2, <3>3, <4>1, Zenon
    <3>4. ASSUME Finish(t, FALSE)
          PROVE  OnItsWay(i)'
      BY <2>2, <3>4, Zenon
    <3> QED
      BY <2>10, <3>2, <3>3, <3>4 DEF CallRedis
  <2> QED
    BY <1>2, <2>5, <2>6, <2>7, <2>8, <2>9, <2>10 DEF Worker
<1> QED
  BY <1>1, <1>2

LEMMA RequestWay ==
    ASSUME TypeOK, EachIsOnItsWay, NEW l \in Loops, Request(l)
    PROVE  EachIsOnItsWay'
<1>1. ASSUME NEW kind \in Kinds, NEW u \in Uids \cup {None},
             NEW pc \in {"select", "connect", "store"}, NEW calls \in 0..2,
             kind = "register" => pc = "select", kind # "peek",
             Handle(l, NewJob(l, kind, u, pc, calls))
      PROVE  EachIsOnItsWay'
  <2>1. accepted < MaxRequests
    BY <1>1 DEF Handle
  <2>2. NewJob(l, kind, u, pc, calls) \in Waiting
    BY <1>1, <2>1, NewJobType
  <2>3. /\ NewJob(l, kind, u, pc, calls).id = accepted + 1
        /\ NewJob(l, kind, u, pc, calls).kind = kind
    BY DEF NewJob
  <2> QED
    BY <1>1, <2>2, <2>3, HandleWay
<1>2. /\ \A k \in {"register", "login", "token", "logout", "chat", "room"} : k \in Kinds
      /\ 0 \in 0..2 /\ 1 \in 0..2 /\ 2 \in 0..2
  BY DEF Kinds
<1>3. ASSUME NEW u \in Uids, HandleRegister(l, u)
      PROVE  EachIsOnItsWay'
  BY <1>1, <1>2, <1>3 DEF HandleRegister
<1>4. CASE HandleLogin(l)
  BY <1>1, <1>2, <1>4 DEF HandleLogin
<1>5. CASE HandleToken(l)
  BY <1>1, <1>2, <1>5 DEF HandleToken
<1>6. CASE HandleLogout(l)
  BY <1>1, <1>2, <1>6 DEF HandleLogout
<1>7. CASE HandleChatMessage(l)
  BY <1>1, <1>2, <1>7 DEF HandleChatMessage
<1> QED
  BY <1>3, <1>4, <1>5, <1>6, <1>7 DEF Request

LEMMA NextWay == TypeOK /\ EachIsOnItsWay /\ [Next]_vars => EachIsOnItsWay'
<1> SUFFICES ASSUME TypeOK, EachIsOnItsWay, [Next]_vars PROVE EachIsOnItsWay'
  OBVIOUS
<1>1. ASSUME NEW l \in Loops, Request(l)
      PROVE  EachIsOnItsWay'
  BY <1>1, RequestWay
<1>2. ASSUME NEW l \in Loops, RunReturns(l)
      PROVE  EachIsOnItsWay'
  <2>1. accepted' = accepted
    BY <1>2 DEF RunReturns, bounds
  <2> QED
    BY <1>2, <2>1, RunReturnsWay, WayStep
<1>3. ASSUME NEW l \in Loops, RunCallback(l)
      PROVE  EachIsOnItsWay'
  <2>1. accepted' = accepted
    BY <1>3 DEF RunCallback, bounds
  <2> QED
    BY <1>3, <2>1, RunCallbackWay, WayStep
<1>4. ASSUME NEW t \in Threads, Worker(t) \/ Fault(t)
      PROVE  EachIsOnItsWay'
  <2>1. accepted' = accepted
    BY <1>4 DEF Worker, Take, SelectUser, InsertUser, VerifyFails, Connect,
       CallRedis, StoreMessage, Fault, bounds
  <2> QED
    BY <1>4, <2>1, WorkerWay, WayStep
<1>5. CASE Redis \/ UNCHANGED vars
  <2>1. UNCHANGED <<calling, queue, running, functors, answers, silent, accepted>>
    BY <1>5 DEF Redis, vars, poolVars, bounds
  <2>2. \A i : OnItsWay(i) => OnItsWay(i)'
    BY <2>1 DEF OnItsWay, IsAnswered, OwedNothing, HasCallback
  <2> QED
    BY <2>1, <2>2, WayStep
<1> QED
  BY <1>1, <1>2, <1>3, <1>4, <1>5 DEF Next

-----------------------------------------------------------------------------
(***************************************************************************)
(* The invariant                                                            *)
(***************************************************************************)

LEMMA InitParts == Init => Parts
<1> SUFFICES ASSUME Init PROVE Parts
  OBVIOUS
<1>1. RPInv
  BY DEF Init, RPInit, RPInv, RPTypeOK, FreshHasNotFailed, RecoversAfterOneFailure,
         TlsStates
<1>2. << >> \in Seq(Waiting) /\ << >> \in Seq(Job)
  OBVIOUS
<1>3. 0 \in 0..MaxRequests /\ 0 \in 0..MaxFaults /\ 0 \in 0..MaxChanges
  BY WorkersAssumption
<1>4. TypeOK
  BY <1>1, <1>2, <1>3 DEF Init, TypeOK, RPInv
<1>5. CallsAreConnected
  BY DEF Init, CallsAreConnected, At
<1>6. AllHonest
  BY DEF Init, AllHonest
<1> QED
  BY <1>1, <1>4, <1>5, <1>6 DEF Parts

LEMMA RequestStep ==
    ASSUME Parts, NEW l \in Loops, Request(l)
    PROVE  Parts'
<1>1. ASSUME NEW kind \in Kinds, NEW u \in Uids \cup {None},
             NEW pc \in {"select", "connect", "store"}, NEW calls \in 0..2,
             kind = "register" => pc = "select",
             Handle(l, NewJob(l, kind, u, pc, calls))
      PROVE  Parts'
  <2>1. TypeOK /\ accepted < MaxRequests
    BY <1>1 DEF Parts, Handle
  <2>2. NewJob(l, kind, u, pc, calls) \in Waiting
    BY <1>1, <2>1, NewJobType
  <2> QED
    BY <1>1, <2>2, HandleStep
<1>2. /\ \A k \in {"register", "login", "token", "logout", "chat", "room"} : k \in Kinds
      /\ 0 \in 0..2 /\ 1 \in 0..2 /\ 2 \in 0..2
  BY DEF Kinds
<1>3. ASSUME NEW u \in Uids, HandleRegister(l, u)
      PROVE  Parts'
  BY <1>1, <1>2, <1>3 DEF HandleRegister
<1>4. CASE HandleLogin(l)
  BY <1>1, <1>2, <1>4 DEF HandleLogin
<1>5. CASE HandleToken(l)
  BY <1>1, <1>2, <1>5 DEF HandleToken
<1>6. CASE HandleLogout(l)
  BY <1>1, <1>2, <1>6 DEF HandleLogout
<1>7. CASE HandleChatMessage(l)
  BY <1>1, <1>2, <1>7 DEF HandleChatMessage
<1> QED
  BY <1>3, <1>4, <1>5, <1>6, <1>7 DEF Request

LEMMA NextParts == Parts /\ [Next]_vars => Parts'
<1> SUFFICES ASSUME Parts, [Next]_vars PROVE Parts'
  OBVIOUS
<1>1. ASSUME NEW l \in Loops, Request(l) \/ RunReturns(l) \/ RunCallback(l)
      PROVE  Parts'
  BY <1>1, RequestStep, RunReturnsStep, RunCallbackStep
<1>2. ASSUME NEW t \in Threads, Worker(t) \/ Fault(t)
      PROVE  Parts'
  BY <1>2, TakeStep, SelectUserStep, InsertUserStep, VerifyFailsStep, ConnectStep,
     CallRedisStep, StoreMessageStep, FaultStep DEF Worker
<1>3. CASE Redis
  BY <1>3, RedisGoesStep
<1>4. CASE UNCHANGED vars
  BY <1>4, StutterStep
<1> QED
  BY <1>1, <1>2, <1>3, <1>4 DEF Next

\* The inductive invariant of the loops, the pool and the workers, for any
\* number of them and any size of the queue (chat_server.cc, redis_pool.cc).
THEOREM WorkersInvariance == Spec => []WorkersInv
<1>1. Init => Parts /\ EachIsOnItsWay
  BY InitParts DEF Init, EachIsOnItsWay
<1>2. Parts /\ EachIsOnItsWay /\ [Next]_vars => (Parts /\ EachIsOnItsWay)'
  BY NextParts, NextWay DEF Parts
<1>3. Spec => [](Parts /\ EachIsOnItsWay)
  BY <1>1, <1>2, PTL DEF Spec
<1>4. Parts /\ EachIsOnItsWay => WorkersInv
  BY PartsAreInv
<1> QED
  BY <1>3, <1>4, PTL

\* A registration that is answered with success made the row of its uid, and
\* no other registration of that uid is (mysql_user_repo.cc:12-42).
THEOREM RegistrationIsAtomic == Spec => []RegisteredAsAnswered
<1>1. WorkersInv => RegisteredAsAnswered
  BY DEF WorkersInv
<1> QED
  BY <1>1, WorkersInvariance, PTL

\* While no statement fails, a registration is refused only for a uid that is
\* taken (mysql_user_repo.cc:26).
THEOREM RefusalIsRight == Spec => []RefusedIsTaken
<1>1. WorkersInv => RefusedIsTaken
  BY DEF WorkersInv
<1> QED
  BY <1>1, WorkersInvariance, PTL

\* A thread with a connection loses one call at most to each change of Redis
\* (redis_pool.cc:22-30).
THEOREM OneFailurePerChange == Spec => []RecoversAfterOneFailure
<1>1. WorkersInv => RecoversAfterOneFailure
  BY DEF WorkersInv, RPInv
<1> QED
  BY <1>1, WorkersInvariance, PTL

\* When the loops and the workers have nothing left to do, every request has
\* its answer, but for a stored message for a room or for nobody, whose callback
\* has run, however full the queue was (chat_server.cc:191-201, 212-268).
THEOREM NoRequestIsForgotten == Spec => []NoneIsForgotten
<1>1. WorkersInv => NoneIsForgotten
  <2> SUFFICES ASSUME WorkersInv, Idle, NEW i \in 1..accepted
               PROVE  IsAnswered(i) \/ OwedNothing(i)
    BY DEF NoneIsForgotten
  <2>1. OnItsWay(i)
    BY DEF WorkersInv, EachIsOnItsWay
  <2>2. /\ JobsIn(queue) = {}
        /\ \A l \in Loops : JobsIn(functors[l]) = {}
    BY DEF Idle, JobsIn
  <2> QED
    BY <2>1, <2>2 DEF OnItsWay, IsAnswered, OwedNothing, HasCallback, Idle
<1> QED
  BY <1>1, WorkersInvariance, PTL
=============================================================================
