------------------------------ MODULE ChatClient ------------------------------
(***************************************************************************)
(* The console client (src/client/chat_client.cc): its thread for the       *)
(* console, its event loop, and the connection to the server, whose answers *)
(* are those of src/src/chat_server.cc.                                     *)
(*                                                                          *)
(* The console thread posts envelopes to the loop and reads loggedIn_; the  *)
(* loop sends them, and sets loggedIn_ when an answer comes.  The server    *)
(* handles the envelopes of a connection in order; a login is decided by a  *)
(* worker, and answered whenever that is done, also after the connection    *)
(* was closed.                                                              *)
(***************************************************************************)
EXTENDS Naturals, Sequences

CONSTANT MaxChoices     \* bound on the envelopes that the user sends

ASSUME ClientAssumption == MaxChoices \in Nat

VARIABLES
    console,        \* where the console thread is
    loop,           \* the event loop of the client
    quit,           \* EventLoop::quit was called
    conn,           \* conn_: not there yet, up, or reset
    loggedIn,       \* loggedIn_
    posted,         \* envelopes posted to the loop
    toServer,       \* envelopes on their way
    toClient,       \* answers on their way
    auth,           \* server: a user is logged in on this connection
    pending,        \* server: logins on the workers
    choices,        \* envelopes so far
    everIn,         \* history: a login succeeded on this connection
    leaving         \* history: the user chose to log out

clientVars == <<console, loop, quit, conn, loggedIn, posted>>
netVars == <<toServer, toClient>>
serverVars == <<auth, pending>>
history == <<choices, everIn, leaving>>

vars == <<clientVars, netVars, serverVars, history>>

\* The envelopes that the server treats alike here are one kind, "request".
Envelope == {"login", "register", "request", "logout"}

\* A login_resp with ok = true, and any other ServerMessage
Answer == {"ok", "other"}

Consoles == {"waiting", "menu", "auth", "main", "sleep", "logout", "done", "crashed"}

\* The one type invariant of this component.
TypeOK ==
    /\ console \in Consoles
    /\ loop \in {"running", "ended"}
    /\ quit \in BOOLEAN
    /\ conn \in {"none", "up", "reset"}
    /\ loggedIn \in BOOLEAN
    /\ posted \in Seq(Envelope)
    /\ toServer \in Seq(Envelope)
    /\ toClient \in Seq(Answer)
    /\ auth \in BOOLEAN
    /\ pending \in Nat
    /\ choices \in 0..MaxChoices
    /\ everIn \in BOOLEAN
    /\ leaving \in BOOLEAN

Init ==
    /\ console = "waiting"
    /\ loop = "running"
    /\ quit = FALSE
    /\ conn = "none"
    /\ loggedIn = FALSE
    /\ posted = << >>
    /\ toServer = << >>
    /\ toClient = << >>
    /\ auth = FALSE
    /\ pending = 0
    /\ choices = 0
    /\ everIn = FALSE
    /\ leaving = FALSE

-----------------------------------------------------------------------------
(***************************************************************************)
(* The console thread                                                       *)
(***************************************************************************)

\* connected() is true at last.
Connected ==
    /\ console = "waiting"
    /\ conn = "up"
    /\ console' = "menu"
    /\ UNCHANGED <<loop, quit, conn, loggedIn, posted, netVars, serverVars, history>>

\* The loop of usleep, which goes on for ever when the connection came and
\* went between two looks at it.
KeepsWaiting == console = "waiting" /\ conn # "up" /\ UNCHANGED vars

\* The menu depends on isLoggedIn at this moment, not when the choice is made.
ShowMenu ==
    /\ console = "menu"
    /\ console' = IF loggedIn THEN "main" ELSE "auth"
    /\ UNCHANGED <<loop, quit, conn, loggedIn, posted, netVars, serverVars, history>>

\* An invalid choice, an empty field or the end of the input
InvalidChoice ==
    /\ console \in {"auth", "main"}
    /\ console' = "menu"
    /\ UNCHANGED <<loop, quit, conn, loggedIn, posted, netVars, serverVars, history>>

\* sendEnvelope: the loop is to run the send.
Post(env) ==
    /\ choices < MaxChoices
    /\ choices' = choices + 1
    /\ posted' = Append(posted, env)

\* Login and registration wait 200 ms, whatever comes meanwhile.
ChooseAuth ==
    /\ console = "auth"
    /\ \E env \in {"login", "register"} : Post(env)
    /\ console' = "sleep"
    /\ UNCHANGED <<loop, quit, conn, loggedIn, netVars, serverVars, everIn, leaving>>

WakeUp ==
    /\ console = "sleep"
    /\ console' = "menu"
    /\ UNCHANGED <<loop, quit, conn, loggedIn, posted, netVars, serverVars, history>>

\* Mutant: the loop is not told to end.
ChooseExitNoQuit ==
    /\ console = "auth"
    /\ console' = "done"
    /\ UNCHANGED <<loop, quit, conn, loggedIn, posted, netVars, serverVars, history>>

ChooseExit ==
    /\ console = "auth"
    /\ console' = "done"
    /\ quit' = TRUE
    /\ UNCHANGED <<loop, conn, loggedIn, posted, netVars, serverVars, history>>

\* Choices 1 to 7 of the main menu
ChooseRequest ==
    /\ console = "main"
    /\ Post("request")
    /\ console' = "menu"
    /\ UNCHANGED <<loop, quit, conn, loggedIn, netVars, serverVars, everIn, leaving>>

\* sendLogout, first the envelope
ChooseLogout ==
    /\ console = "main"
    /\ Post("logout")
    /\ console' = "logout"
    /\ leaving' = TRUE
    /\ UNCHANGED <<loop, quit, conn, loggedIn, netVars, serverVars, everIn>>

\* sendLogout, then loggedIn_ (and currentUid_, which is empty all along)
ClearLoggedIn ==
    /\ console = "logout"
    /\ loggedIn' = FALSE
    /\ console' = "menu"
    /\ UNCHANGED <<loop, quit, conn, posted, netVars, serverVars, history>>

Console ==
    \/ Connected \/ KeepsWaiting \/ ShowMenu \/ InvalidChoice \/ ChooseAuth \/ WakeUp
    \/ ChooseExit \/ ChooseRequest \/ ChooseLogout \/ ClearLoggedIn

-----------------------------------------------------------------------------
(***************************************************************************)
(* The event loop of the client                                             *)
(***************************************************************************)

ConnectionUp ==
    /\ loop = "running"
    /\ conn = "none"
    /\ conn' = "up"
    /\ UNCHANGED <<console, loop, quit, loggedIn, posted, netVars, serverVars, history>>

\* The connection is lost or closed by the server.  A console thread that is
\* just reading conn_ without a lock goes on, waits on or follows a null
\* pointer, which ends the process.  The server may still read what it had
\* received, and it cancels nothing: its context of the connection and the
\* logins on its workers stay.
ConnectionDown ==
    /\ loop = "running"
    /\ conn = "up"
    /\ conn' = "reset"
    /\ loggedIn' = FALSE
    /\ quit' = TRUE
    /\ \/ UNCHANGED <<console, loop>>
       \/ console = "waiting" /\ console' = "menu" /\ UNCHANGED loop
       \/ console = "waiting" /\ console' = "crashed" /\ loop' = "ended"
    /\ \E n \in 0..Len(toServer) : toServer' = SubSeq(toServer, 1, n)
    /\ toClient' = << >>
    /\ UNCHANGED <<posted, serverVars, history>>

\* A posted envelope is sent, or dropped when there is no connection.
RunFunctor ==
    /\ loop = "running"
    /\ posted # << >>
    /\ posted' = Tail(posted)
    /\ toServer' = IF conn = "up" THEN Append(toServer, Head(posted)) ELSE toServer
    /\ UNCHANGED <<console, loop, quit, conn, loggedIn, toClient, serverVars, history>>

\* Mutant: an answer that is not a success logs out.
OnMessageLogsOut ==
    /\ loop = "running"
    /\ toClient # << >>
    /\ toClient' = Tail(toClient)
    /\ loggedIn' = (Head(toClient) = "ok")
    /\ UNCHANGED <<console, loop, quit, conn, posted, toServer, serverVars, history>>

\* Mutant: any answer logs in.
OnMessageLogsIn ==
    /\ loop = "running"
    /\ toClient # << >>
    /\ toClient' = Tail(toClient)
    /\ loggedIn' = TRUE
    /\ UNCHANGED <<console, loop, quit, conn, posted, toServer, serverVars, history>>

\* onMessage: a login_resp with ok = true, also the one that answers a logout,
\* sets loggedIn_; everything else is printed.
OnMessage ==
    /\ loop = "running"
    /\ toClient # << >>
    /\ toClient' = Tail(toClient)
    /\ loggedIn' = (loggedIn \/ Head(toClient) = "ok")
    /\ UNCHANGED <<console, loop, quit, conn, posted, toServer, serverVars, history>>

\* The loop looks at quit_ when it has handled what was active.
LoopEnds ==
    /\ loop = "running"
    /\ quit
    /\ loop' = "ended"
    /\ UNCHANGED <<console, quit, conn, loggedIn, posted, netVars, serverVars, history>>

-----------------------------------------------------------------------------
(***************************************************************************)
(* The server                                                               *)
(***************************************************************************)

\* sendServerMessage: what is sent on a connection that was closed is lost.
Reply(answer) ==
    toClient' = IF conn = "reset" THEN toClient ELSE Append(toClient, answer)

\* onEnvelope: a login goes to a worker; a logout ends the session and is
\* answered at once; other requests are answered in any way or not at all.
OnEnvelope ==
    /\ toServer # << >>
    /\ toServer' = Tail(toServer)
    /\ LET env == Head(toServer) IN
       \/ /\ env = "login"
          /\ pending' = pending + 1
          /\ UNCHANGED <<toClient, auth>>
       \/ /\ env = "logout"
          /\ auth' = FALSE
          /\ Reply("ok")
          /\ UNCHANGED pending
       \/ /\ env \in {"register", "request"}
          /\ Reply("other") \/ UNCHANGED toClient
          /\ UNCHANGED <<auth, pending>>
    /\ UNCHANGED <<clientVars, history>>

\* Mutant: a login on a connection that is logged in already is not answered.
LoginCallbackOnce ==
    /\ pending > 0
    /\ ~auth
    /\ pending' = pending - 1
    /\ \/ /\ auth' = TRUE
          /\ everIn' = TRUE
          /\ Reply("ok")
       \/ /\ Reply("other")
          /\ UNCHANGED <<auth, everIn>>
    /\ UNCHANGED <<clientVars, toServer, choices, leaving>>

\* The callback of a login: authenticate and login_resp, or an error, whether
\* or not the connection is still open
LoginCallback ==
    /\ pending > 0
    /\ pending' = pending - 1
    /\ \/ /\ auth' = TRUE
          /\ everIn' = TRUE
          /\ Reply("ok")
       \/ /\ Reply("other")
          /\ UNCHANGED <<auth, everIn>>
    /\ UNCHANGED <<clientVars, toServer, choices, leaving>>

\* The process has ended.
Ended == loop = "ended" /\ console \in {"done", "crashed"}

Next ==
    \/ Console
    \/ ConnectionUp \/ ConnectionDown \/ RunFunctor \/ OnMessage \/ LoopEnds
    \/ OnEnvelope \/ LoginCallback
    \/ Ended /\ UNCHANGED vars

Spec == Init /\ [][Next]_vars

\* The threads run, the network delivers and the workers finish; the user and
\* the connection owe nothing.
Fairness ==
    /\ WF_vars(RunFunctor) /\ WF_vars(OnMessage) /\ WF_vars(LoopEnds)
    /\ WF_vars(OnEnvelope) /\ WF_vars(LoginCallback)
    /\ WF_vars(ClearLoggedIn) /\ WF_vars(WakeUp)

FairSpec == Spec /\ Fairness

-----------------------------------------------------------------------------
(***************************************************************************)
(* Properties                                                               *)
(***************************************************************************)

\* Nothing is under way between the console, the loop and the server.
Quiet ==
    /\ posted = << >> /\ toServer = << >> /\ toClient = << >>
    /\ pending = 0 /\ console # "logout"

\* The client takes itself for logged in only after a login has succeeded on
\* its connection, whatever answers come late (chat_client.cc:206).
ShownOnlyAfterLogin == loggedIn => everIn

\* What ShownOnlyAfterLogin needs to be inductive: before the first login no
\* logout is under way, and nothing that reads as a success.
NothingBeforeLogin ==
    ~everIn =>
        /\ ~loggedIn /\ ~auth /\ ~leaving
        /\ console \notin {"main", "logout"}
        /\ \A i \in 1..Len(posted) : posted[i] # "logout"
        /\ \A i \in 1..Len(toServer) : toServer[i] # "logout"
        /\ \A i \in 1..Len(toClient) : toClient[i] # "ok"

\* What AgreeUntilLogout needs: until the first logout no logout is under way,
\* and, until the connection is lost, the server has a user exactly when the
\* client knows, or a success that tells it is on its way.
AgreementUnderWay ==
    ~leaving =>
        /\ console # "logout"
        /\ \A i \in 1..Len(posted) : posted[i] # "logout"
        /\ \A i \in 1..Len(toServer) : toServer[i] # "logout"
        /\ conn # "reset" =>
             (auth <=> (loggedIn \/ \E i \in 1..Len(toClient) : toClient[i] = "ok"))

ClientInv == TypeOK /\ NothingBeforeLogin /\ AgreementUnderWay

\* While the connection is up and until the user first logs out, client and
\* server agree on the login once every answer has come, however many logins
\* overlapped, failed or were answered after the 200 ms (chat_client.cc:206,
\* chat_server.cc:135-157).  After a close they may disagree: the callback of a
\* login authenticates the closed connection.
AgreeUntilLogout == conn = "up" /\ Quiet /\ ~leaving => (loggedIn = auth)

\* Everything the user asks for is sent, dropped with the connection or
\* answered: the client and the server come to rest, unless the client ends
\* (chat_client.cc:54, chat_server.cc:131-160).
ComesToRest == []<>(Quiet \/ loop = "ended")

\* When the user leaves, the process ends (chat_client.cc:362, 480).
ExitEnds == (console = "done") ~> Ended
=============================================================================
