------------------------------- MODULE RedisPool -------------------------------
(***************************************************************************)
(* The connections to Redis (src/src/redis_pool.cc): one for each thread,   *)
(* thread_local, made when the thread first asks for it and made anew when  *)
(* it has an error.                                                         *)
(*                                                                          *)
(* A connection whose server went away looks well until the next command    *)
(* on it fails; hiredis sets err then, and every later command fails too.   *)
(***************************************************************************)
EXTENDS Naturals

CONSTANT Threads

VARIABLES
    tls,            \* tls_conn_ and tls_initialized_ of each thread
    redisUp,        \* Redis accepts connections
    failures        \* history: calls that failed on a connection since Redis
                    \* last came or went

rpVars == <<tls, redisUp, failures>>

\* "new": tls_initialized_ is false; "null": it is true, and tls_conn_ is null;
\* "broken": err is not set yet.
TlsStates == {"new", "ok", "broken", "err", "null"}

RPTypeOK ==
    /\ tls \in [Threads -> TlsStates]
    /\ redisUp \in BOOLEAN
    /\ failures \in [Threads -> Nat]

\* init connects nothing and always succeeds; Redis may go before it is used.
RPInit ==
    /\ tls = [t \in Threads |-> "new"]
    /\ redisUp = TRUE
    /\ failures = [t \in Threads |-> 0]

-----------------------------------------------------------------------------

CreateConnection == IF redisUp THEN "ok" ELSE "null"

\* Mutant: a connection with an error is used again.
GetConnectionAsItIs(t) ==
    /\ tls' = [tls EXCEPT ![t] = IF @ = "new" THEN CreateConnection ELSE @]
    /\ UNCHANGED <<redisUp, failures>>

\* A null connection is neither new nor in error: it stays.
GetConnection(t) ==
    /\ tls' = [tls EXCEPT ![t] = IF @ \in {"new", "err"} THEN CreateConnection ELSE @]
    /\ UNCHANGED <<redisUp, failures>>

\* The commands of one call on the connection succeed.
Replies(t) == tls[t] = "ok"

\* The commands of one call that has its connection.  Without a connection the
\* call returns at once.
Command(t) ==
    /\ tls' = [tls EXCEPT ![t] = IF @ = "broken" THEN "err" ELSE @]
    /\ failures' = [failures EXCEPT ![t] = 
                       IF tls[t] \in {"broken", "err"} THEN @ + 1 ELSE @]
    /\ UNCHANGED redisUp

\* Redis goes away, and every connection with it, or it comes back.
RedisChanges ==
    /\ redisUp' = ~redisUp
    /\ tls' = [t \in Threads |->
                  IF redisUp /\ tls[t] = "ok" THEN "broken" ELSE tls[t]]
    /\ failures' = [t \in Threads |-> 0]

-----------------------------------------------------------------------------

\* A thread that has a connection loses at most one call to each change of
\* Redis: the one that finds the connection broken.  Only a thread whose
\* connection could not be made fails again and again (redis_pool.cc:26, 88).
RecoversAfterOneFailure ==
    \A t \in Threads : tls[t] # "null" => failures[t] <= 1

\* What RecoversAfterOneFailure needs to be inductive
FreshHasNotFailed ==
    \A t \in Threads : tls[t] \in {"new", "broken"} => failures[t] = 0

RPInv == RPTypeOK /\ FreshHasNotFailed /\ RecoversAfterOneFailure
=============================================================================
