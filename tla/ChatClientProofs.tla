--------------------------- MODULE ChatClientProofs ---------------------------
(***************************************************************************)
(* Proofs about ChatClient: the client takes itself for logged in only when *)
(* a login has succeeded on its connection, for any number of requests.     *)
(***************************************************************************)
EXTENDS ChatClient, TLAPS

\* Lacks(s, x): no element of the sequence s is x.
Lacks(s, x) == \A i \in 1..Len(s) : s[i] # x

\* What Append and Tail do to a sequence of the model: its type, and that it
\* still lacks what it lacked.
LEMMA SeqSteps ==
    ASSUME NEW S, NEW s \in Seq(S), NEW e \in S, NEW x
    PROVE  /\ Append(s, e) \in Seq(S)
           /\ Lacks(s, x) /\ e # x => Lacks(Append(s, e), x)
           /\ s # << >> => Tail(s) \in Seq(S) /\ Head(s) \in S
           /\ s # << >> /\ Lacks(s, x) => Lacks(Tail(s), x) /\ Head(s) # x
<1>1. Append(s, e) \in Seq(S)
  OBVIOUS
<1>2. Lacks(s, x) /\ e # x => Lacks(Append(s, e), x)
  BY DEF Lacks
<1>3. s # << >> => Tail(s) \in Seq(S) /\ Head(s) \in S
  OBVIOUS
<1>4. ASSUME s # << >>, Lacks(s, x)
      PROVE  Lacks(Tail(s), x) /\ Head(s) # x
  <2>1. Len(s) \in Nat /\ Len(s) > 0
    BY <1>4
  <2>2. Len(Tail(s)) = Len(s) - 1
    BY <1>4
  <2>3. \A i \in 1..Len(Tail(s)) : Tail(s)[i] = s[i + 1]
    BY <1>4
  <2>4. Head(s) = s[1]
    BY <1>4
  <2> QED
    BY <1>4, <2>1, <2>2, <2>3, <2>4 DEF Lacks
<1> QED
  BY <1>1, <1>2, <1>3, <1>4

\* What is kept of a sequence has its type, and lacks what it lacked.
LEMMA PrefixSteps ==
    ASSUME NEW S, NEW s \in Seq(S), NEW n \in 0..Len(s), NEW x
    PROVE  /\ SubSeq(s, 1, n) \in Seq(S)
           /\ Lacks(s, x) => Lacks(SubSeq(s, 1, n), x)
<1>1. Len(s) \in Nat /\ n \in Nat /\ n <= Len(s)
  OBVIOUS
<1>2. SubSeq(s, 1, n) \in Seq(S) /\ Len(SubSeq(s, 1, n)) = n
  BY <1>1
<1>3. \A i \in 1..n : SubSeq(s, 1, n)[i] = s[i]
  BY <1>1
<1> QED
  BY <1>1, <1>2, <1>3 DEF Lacks

\* Before the first login, in terms of Lacks
LEMMA NothingIsLacks ==
    NothingBeforeLogin <=>
        (~everIn =>
            /\ ~loggedIn /\ ~auth /\ ~leaving
            /\ console \notin {"main", "logout"}
            /\ Lacks(posted, "logout")
            /\ Lacks(toServer, "logout")
            /\ Lacks(toClient, "ok"))
  BY DEF NothingBeforeLogin, Lacks

-----------------------------------------------------------------------------

\* The two invariants of the client without the agreement, kept first
EarlyInv == TypeOK /\ NothingBeforeLogin

LEMMA InitEarlyInv == Init => EarlyInv
<1> SUFFICES ASSUME Init PROVE EarlyInv
  OBVIOUS
<1>e. << >> \in Seq(Envelope) /\ << >> \in Seq(Answer)
  OBVIOUS
<1>c. 0 \in 0..MaxChoices /\ 0 \in Nat
  BY ClientAssumption
<1>1. TypeOK
  BY <1>e, <1>c DEF Init, TypeOK, Consoles
<1>2. NothingBeforeLogin
  BY DEF Init, NothingBeforeLogin
<1> QED
  BY <1>1, <1>2 DEF EarlyInv

\* Every step of the client, the network and the server keeps the type and
\* what holds before the first login.
LEMMA NextEarlyInv == EarlyInv /\ [Next]_vars => EarlyInv'
<1> SUFFICES ASSUME TypeOK, NothingBeforeLogin, [Next]_vars
             PROVE  TypeOK' /\ NothingBeforeLogin'
  BY DEF EarlyInv
<1> USE ClientAssumption
<1>n. ~everIn =>
            /\ ~loggedIn /\ ~auth /\ ~leaving
            /\ console \notin {"main", "logout"}
            /\ Lacks(posted, "logout")
            /\ Lacks(toServer, "logout")
            /\ Lacks(toClient, "ok")
  BY NothingIsLacks
<1>s. SUFFICES /\ TypeOK'
               /\ ~everIn' =>
                    /\ ~loggedIn' /\ ~auth' /\ ~leaving'
                    /\ console' \notin {"main", "logout"}
                    /\ Lacks(posted', "logout")
                    /\ Lacks(toServer', "logout")
                    /\ Lacks(toClient', "ok")
  BY DEF NothingBeforeLogin, Lacks
<1>1. CASE Connected \/ ShowMenu \/ InvalidChoice \/ WakeUp \/ ClearLoggedIn
  <2>1. /\ UNCHANGED <<loop, quit, conn, posted, toServer, toClient, auth,
                       pending, choices, everIn, leaving>>
        /\ loggedIn' \in {loggedIn, FALSE}
        /\ console' \in {"menu", "auth"} \/ (console' = "main" /\ loggedIn)
    BY <1>1 DEF Connected, ShowMenu, InvalidChoice, WakeUp, ClearLoggedIn,
       netVars, serverVars, history
  <2>2. loggedIn' \in BOOLEAN /\ console' \in Consoles
    BY <2>1 DEF TypeOK, Consoles
  <2>3. TypeOK'
    BY <2>1, <2>2 DEF TypeOK
  <2>4. ~everIn => ~loggedIn' /\ console' \notin {"main", "logout"}
    BY <1>n, <2>1
  <2> QED
    BY <1>n, <2>1, <2>3, <2>4
<1>2. CASE KeepsWaiting \/ UNCHANGED vars \/ (Ended /\ UNCHANGED vars)
  BY <1>2, <1>n DEF KeepsWaiting, vars, clientVars, netVars, serverVars,
     history, TypeOK
<1>3. CASE ChooseAuth
  <2> PICK env \in {"login", "register"} : Post(env)
    BY <1>3 DEF ChooseAuth
  <2>1. env \in Envelope /\ env # "logout"
    BY DEF Envelope
  <2>2. posted' = Append(posted, env)
    BY DEF Post
  <2>3. /\ posted' \in Seq(Envelope)
        /\ Lacks(posted, "logout") => Lacks(posted', "logout")
    BY <2>1, <2>2, SeqSteps DEF TypeOK
  <2> QED
    BY <1>3, <1>n, <2>3 DEF ChooseAuth, Post, TypeOK, Consoles, netVars, serverVars
<1>4. CASE ChooseExit
  BY <1>4, <1>n DEF ChooseExit, TypeOK, Consoles, netVars, serverVars, history
<1>5. CASE ChooseRequest
  <2>1. everIn
    BY <1>5, <1>n DEF ChooseRequest
  <2>2. posted' \in Seq(Envelope)
    BY <1>5 DEF ChooseRequest, Post, Envelope, TypeOK
  <2> QED
    BY <1>5, <2>1, <2>2 DEF ChooseRequest, Post, TypeOK, Consoles, netVars, serverVars
<1>6. CASE ChooseLogout
  <2>1. everIn
    BY <1>6, <1>n DEF ChooseLogout
  <2>2. posted' \in Seq(Envelope)
    BY <1>6 DEF ChooseLogout, Post, Envelope, TypeOK
  <2> QED
    BY <1>6, <2>1, <2>2 DEF ChooseLogout, Post, TypeOK, Consoles, netVars, serverVars
<1>7. CASE ConnectionUp \/ LoopEnds
  BY <1>7, <1>n DEF ConnectionUp, LoopEnds, TypeOK, netVars, serverVars, history
<1>8. CASE ConnectionDown
  <2>1. Lacks(<< >>, "ok")
    BY DEF Lacks
  <2>2. /\ conn' = "reset" /\ loggedIn' = FALSE /\ quit' = TRUE
        /\ toClient' = << >>
        /\ UNCHANGED <<posted, auth, pending, choices, everIn, leaving>>
    BY <1>8 DEF ConnectionDown, serverVars, history
  <2>s. /\ toServer' \in Seq(Envelope)
        /\ Lacks(toServer, "logout") => Lacks(toServer', "logout")
    <3>1. PICK n \in 0..Len(toServer) : toServer' = SubSeq(toServer, 1, n)
      BY <1>8 DEF ConnectionDown
    <3>2. toServer \in Seq(Envelope)
      BY DEF TypeOK
    <3> QED
      BY <3>1, <3>2, PrefixSteps
  <2>3. \/ console' = console /\ loop' = loop
        \/ console' = "menu" /\ loop' = loop
        \/ console' = "crashed" /\ loop' = "ended"
    BY <1>8 DEF ConnectionDown
  <2>4. console' \in Consoles /\ loop' \in {"running", "ended"}
    BY <2>3 DEF Consoles, TypeOK
  <2>5. << >> \in Seq(Answer)
    OBVIOUS
  <2>6. TypeOK'
    BY <2>2, <2>s, <2>4, <2>5 DEF TypeOK
  <2>7. console \notin {"main", "logout"} => console' \notin {"main", "logout"}
    BY <2>3
  <2> QED
    BY <1>n, <2>1, <2>2, <2>s, <2>6, <2>7
<1>9. CASE RunFunctor
  <2>1. posted \in Seq(Envelope) /\ toServer \in Seq(Envelope) /\ posted # << >>
    BY <1>9 DEF RunFunctor, TypeOK
  <2>2. posted' = Tail(posted) /\ toServer' \in {toServer, Append(toServer, Head(posted))}
    BY <1>9 DEF RunFunctor
  <2>3. /\ posted' \in Seq(Envelope)
        /\ Head(posted) \in Envelope
        /\ Lacks(posted, "logout") => Lacks(posted', "logout") /\ Head(posted) # "logout"
    BY <2>1, <2>2, SeqSteps
  <2>4. /\ toServer' \in Seq(Envelope)
        /\ Lacks(toServer, "logout") /\ Head(posted) # "logout" => Lacks(toServer', "logout")
    <3>1. /\ Append(toServer, Head(posted)) \in Seq(Envelope)
          /\ Lacks(toServer, "logout") /\ Head(posted) # "logout"
               => Lacks(Append(toServer, Head(posted)), "logout")
      BY <2>1, <2>3, SeqSteps
    <3> QED
      BY <2>1, <2>2, <3>1
  <2> QED
    BY <1>9, <1>n, <2>3, <2>4 DEF RunFunctor, TypeOK, serverVars, history
<1>10. CASE OnMessage
  <2>1. toClient \in Seq(Answer) /\ toClient # << >> /\ toClient' = Tail(toClient)
    BY <1>10 DEF OnMessage, TypeOK
  <2>2. /\ toClient' \in Seq(Answer)
        /\ Lacks(toClient, "ok") => Lacks(toClient', "ok") /\ Head(toClient) # "ok"
    BY <2>1, SeqSteps
  <2>3. loggedIn' = (loggedIn \/ Head(toClient) = "ok")
    BY <1>10 DEF OnMessage
  <2> QED
    BY <1>10, <1>n, <2>2, <2>3 DEF OnMessage, TypeOK, serverVars, history
<1>11. CASE OnEnvelope
  <2>1. toServer \in Seq(Envelope) /\ toServer # << >> /\ toServer' = Tail(toServer)
    BY <1>11 DEF OnEnvelope, TypeOK
  <2>2. /\ toServer' \in Seq(Envelope)
        /\ Lacks(toServer, "logout") => Lacks(toServer', "logout") /\ Head(toServer) # "logout"
    BY <2>1, SeqSteps
  <2>3. /\ Append(toClient, "ok") \in Seq(Answer)
        /\ Append(toClient, "other") \in Seq(Answer)
        /\ Lacks(toClient, "ok") => Lacks(Append(toClient, "other"), "ok")
    BY SeqSteps DEF Answer, TypeOK
  <2>4. /\ UNCHANGED <<console, loop, quit, conn, loggedIn, posted, choices,
                       everIn, leaving>>
        /\ auth' \in {auth, FALSE} /\ pending' \in {pending, pending + 1}
        /\ toClient' \in {toClient, Append(toClient, "other"), Append(toClient, "ok")}
        /\ Head(toServer) # "logout" => toClient' \in {toClient, Append(toClient, "other")}
    BY <1>11 DEF OnEnvelope, Reply, clientVars, history
  <2>5. /\ auth' \in BOOLEAN
        /\ pending' \in Nat
        /\ toClient' \in Seq(Answer)
    <3>1. auth' \in BOOLEAN
      BY <2>4 DEF TypeOK
    <3>2. pending' \in Nat
      BY <2>4 DEF TypeOK
    <3>3. toClient' \in Seq(Answer)
      BY <2>3, <2>4 DEF TypeOK
    <3> QED
      BY <3>1, <3>2, <3>3
  <2>6. TypeOK'
    BY <2>2, <2>4, <2>5 DEF TypeOK
  <2>7. ~everIn => ~auth' /\ Lacks(toServer', "logout") /\ Lacks(toClient', "ok")
    BY <1>n, <2>2, <2>3, <2>4
  <2> QED
    BY <1>n, <2>4, <2>6, <2>7
<1>12. CASE LoginCallback
  <2>1. /\ Append(toClient, "ok") \in Seq(Answer)
        /\ Append(toClient, "other") \in Seq(Answer)
        /\ Lacks(toClient, "ok") => Lacks(Append(toClient, "other"), "ok")
    BY SeqSteps DEF Answer, TypeOK
  <2>2. /\ UNCHANGED <<console, loop, quit, conn, loggedIn, posted, toServer,
                       choices, leaving>>
        /\ pending > 0 /\ pending' = pending - 1
        /\ \/ /\ auth' = TRUE /\ everIn' = TRUE
              /\ toClient' \in {toClient, Append(toClient, "ok")}
           \/ /\ auth' = auth /\ everIn' = everIn
              /\ toClient' \in {toClient, Append(toClient, "other")}
    BY <1>12 DEF LoginCallback, Reply, clientVars
  <2>3. pending' \in Nat
    BY <2>2 DEF TypeOK
  <2>4. auth' \in BOOLEAN /\ everIn' \in BOOLEAN /\ toClient' \in Seq(Answer)
    BY <2>1, <2>2 DEF TypeOK
  <2>5. TypeOK'
    BY <2>2, <2>3, <2>4 DEF TypeOK
  <2>6. ~everIn' => ~everIn /\ ~auth' /\ Lacks(toClient', "ok")
    <3> SUFFICES ASSUME ~everIn'
                 PROVE  ~everIn /\ ~auth' /\ Lacks(toClient', "ok")
      OBVIOUS
    <3>1. /\ auth' = auth /\ everIn' = everIn
          /\ toClient' \in {toClient, Append(toClient, "other")}
      BY <2>2, Zenon
    <3> QED
      BY <1>n, <2>1, <3>1, Zenon
  <2> QED
    BY <1>n, <2>2, <2>5, <2>6
<1> QED
  BY <1>1, <1>2, <1>3, <1>4, <1>5, <1>6, <1>7, <1>8, <1>9, <1>10, <1>11, <1>12
     DEF Next, Console

-----------------------------------------------------------------------------

\* What a sequence of answers or envelopes still holds after Append and Tail
LEMMA SeqHolds ==
    ASSUME NEW S, NEW s \in Seq(S), NEW e \in S, NEW x
    PROVE  /\ Lacks(Append(s, e), x) <=> Lacks(s, x) /\ e # x
           /\ s # << >> => (Lacks(s, x) <=> Lacks(Tail(s), x) /\ Head(s) # x)
<1>1. Lacks(s, x) /\ e # x => Lacks(Append(s, e), x)
  BY SeqSteps
<1>2. ASSUME Lacks(Append(s, e), x)
      PROVE  Lacks(s, x) /\ e # x
  <2>1. Len(Append(s, e)) = Len(s) + 1 /\ Len(s) \in Nat
    OBVIOUS
  <2>2. \A i \in 1..Len(s) : Append(s, e)[i] = s[i]
    OBVIOUS
  <2>3. Append(s, e)[Len(s) + 1] = e
    OBVIOUS
  <2> QED
    BY <1>2, <2>1, <2>2, <2>3 DEF Lacks
<1>3. s # << >> /\ Lacks(s, x) => Lacks(Tail(s), x) /\ Head(s) # x
  BY SeqSteps
<1>4. ASSUME s # << >>, Lacks(Tail(s), x), Head(s) # x
      PROVE  Lacks(s, x)
  <2>1. Len(s) \in Nat /\ Len(s) > 0 /\ Len(Tail(s)) = Len(s) - 1
    BY <1>4
  <2>2. \A i \in 1..Len(Tail(s)) : Tail(s)[i] = s[i + 1]
    BY <1>4
  <2>3. Head(s) = s[1]
    BY <1>4
  <2>4. SUFFICES ASSUME NEW i \in 1..Len(s) PROVE s[i] # x
    BY DEF Lacks
  <2>5. CASE i = 1
    BY <1>4, <2>3, <2>5
  <2>6. CASE i # 1
    <3>1. i - 1 \in 1..Len(Tail(s)) /\ (i - 1) + 1 = i
      BY <2>1, <2>6
    <3>2. Tail(s)[i - 1] = s[i]
      BY <2>2, <3>1
    <3> QED
      BY <1>4, <3>1, <3>2 DEF Lacks
  <2> QED
    BY <2>5, <2>6
<1> QED
  BY <1>1, <1>2, <1>3, <1>4

\* The agreement, in terms of Lacks
LEMMA AgreementIsLacks ==
    AgreementUnderWay <=>
        (~leaving =>
            /\ console # "logout"
            /\ Lacks(posted, "logout")
            /\ Lacks(toServer, "logout")
            /\ conn # "reset" => (auth <=> (loggedIn \/ ~Lacks(toClient, "ok"))))
  BY DEF AgreementUnderWay, Lacks

\* Every step keeps the agreement: a step of the console posts no logout
\* without leaving, the loop moves a success from the connection to loggedIn_,
\* and the server sends one whenever a user is logged in, which is lost only on
\* a connection that was lost.
LEMMA NextAgreement ==
    EarlyInv /\ AgreementUnderWay /\ [Next]_vars => AgreementUnderWay'
<1> SUFFICES ASSUME TypeOK, AgreementUnderWay, [Next]_vars, ~leaving'
             PROVE  /\ console' # "logout"
                    /\ Lacks(posted', "logout")
                    /\ Lacks(toServer', "logout")
                    /\ conn' # "reset" =>
                         (auth' <=> (loggedIn' \/ ~Lacks(toClient', "ok")))
  BY DEF EarlyInv, AgreementUnderWay, Lacks
<1>t. /\ posted \in Seq(Envelope) /\ toServer \in Seq(Envelope)
      /\ toClient \in Seq(Answer)
      /\ loggedIn \in BOOLEAN /\ auth \in BOOLEAN /\ leaving \in BOOLEAN
  BY DEF TypeOK
<1>l. ~leaving
  BY DEF Next, Console, Connected, KeepsWaiting, ShowMenu, InvalidChoice, ChooseAuth,
     WakeUp, ChooseExit, ChooseRequest, ChooseLogout, ClearLoggedIn, ConnectionUp,
     ConnectionDown, RunFunctor, OnMessage, LoopEnds, OnEnvelope, LoginCallback,
     vars, history
<1>n. /\ console # "logout"
      /\ Lacks(posted, "logout")
      /\ Lacks(toServer, "logout")
      /\ conn # "reset" => (auth <=> (loggedIn \/ ~Lacks(toClient, "ok")))
  BY <1>l, AgreementIsLacks
<1>1. CASE \/ Connected \/ ShowMenu \/ InvalidChoice \/ WakeUp \/ ChooseExit
           \/ ConnectionUp \/ LoopEnds \/ KeepsWaiting \/ UNCHANGED vars
  <2>0. conn' # "reset" => conn # "reset"
    BY <1>1 DEF Connected, ShowMenu, InvalidChoice, WakeUp, ChooseExit,
       ConnectionUp, LoopEnds, KeepsWaiting, vars, clientVars
  <2>1. UNCHANGED <<loggedIn, posted, toServer, toClient, auth>>
    BY <1>1 DEF Connected, ShowMenu, InvalidChoice, WakeUp, ChooseExit,
       ConnectionUp, LoopEnds, KeepsWaiting, vars, clientVars, netVars, serverVars
  <2>2. console' # "logout"
    BY <1>1, <1>n DEF Connected, ShowMenu, InvalidChoice, WakeUp, ChooseExit,
       ConnectionUp, LoopEnds, KeepsWaiting, vars, clientVars
  <2> QED
    BY <1>n, <2>0, <2>1, <2>2
<1>2. CASE ClearLoggedIn \/ ChooseLogout
  BY <1>2, <1>n DEF ClearLoggedIn, ChooseLogout
<1>3. CASE ChooseAuth \/ ChooseRequest
  <2>1. PICK env \in Envelope : env # "logout" /\ posted' = Append(posted, env)
    BY <1>3 DEF ChooseAuth, ChooseRequest, Post, Envelope
  <2>2. Lacks(posted', "logout")
    BY <1>t, <1>n, <2>1, SeqHolds
  <2>3. /\ UNCHANGED <<conn, loggedIn, toServer, toClient, auth>>
        /\ console' # "logout"
    BY <1>3 DEF ChooseAuth, ChooseRequest, netVars, serverVars
  <2> QED
    BY <1>n, <2>2, <2>3
<1>4. CASE ConnectionDown
  <2>1. conn' = "reset" /\ posted' = posted
    BY <1>4 DEF ConnectionDown
  <2>2. console' # "logout"
    BY <1>4, <1>n DEF ConnectionDown
  <2>3. PICK n \in 0..Len(toServer) : toServer' = SubSeq(toServer, 1, n)
    BY <1>4 DEF ConnectionDown
  <2>4. Lacks(toServer', "logout")
    BY <1>t, <1>n, <2>3, PrefixSteps
  <2> QED
    BY <1>n, <2>1, <2>2, <2>4
<1>5. CASE RunFunctor
  <2>1. posted # << >> /\ posted' = Tail(posted)
    BY <1>5 DEF RunFunctor
  <2>2. Head(posted) \in Envelope /\ Head(posted) # "logout" /\ Lacks(posted', "logout")
    BY <1>t, <1>n, <2>1, SeqHolds, SeqSteps
  <2>3. toServer' \in {toServer, Append(toServer, Head(posted))}
    BY <1>5 DEF RunFunctor
  <2>4. Lacks(toServer', "logout")
    <3>1. Lacks(Append(toServer, Head(posted)), "logout")
      BY <1>t, <1>n, <2>2, SeqHolds
    <3> QED
      BY <1>n, <2>3, <3>1
  <2>5. UNCHANGED <<console, conn, loggedIn, toClient, auth>>
    BY <1>5 DEF RunFunctor, serverVars
  <2> QED
    BY <1>n, <2>2, <2>4, <2>5
<1>6. CASE OnMessage
  <2>1. toClient # << >> /\ toClient' = Tail(toClient)
    BY <1>6 DEF OnMessage
  <2>2. Lacks(toClient, "ok") <=> Lacks(toClient', "ok") /\ Head(toClient) # "ok"
    BY <1>t, <2>1, SeqHolds, SeqSteps
  <2>3. loggedIn' = (loggedIn \/ Head(toClient) = "ok")
    BY <1>6 DEF OnMessage
  <2>4. UNCHANGED <<console, conn, posted, toServer, auth>>
    BY <1>6 DEF OnMessage, serverVars
  <2> QED
    BY <1>n, <2>2, <2>3, <2>4
<1>7. CASE OnEnvelope
  <2>1. toServer # << >> /\ toServer' = Tail(toServer)
    BY <1>7 DEF OnEnvelope
  <2>2. Head(toServer) # "logout" /\ Lacks(toServer', "logout")
    BY <1>t, <1>n, <2>1, SeqHolds, SeqSteps
  <2>3. /\ UNCHANGED <<console, conn, loggedIn, posted, auth>>
        /\ toClient' \in {toClient, Append(toClient, "other")}
    BY <1>7, <2>2 DEF OnEnvelope, Reply, clientVars
  <2>4. Lacks(toClient', "ok") <=> Lacks(toClient, "ok")
    <3>1. Lacks(Append(toClient, "other"), "ok") <=> Lacks(toClient, "ok")
      BY <1>t, SeqHolds DEF Answer
    <3> QED
      BY <2>3, <3>1
  <2> QED
    BY <1>n, <2>2, <2>3, <2>4
<1>8. CASE LoginCallback
  <2>1. UNCHANGED <<console, conn, loggedIn, posted, toServer>>
    BY <1>8 DEF LoginCallback, clientVars
  <2>3. CASE auth' = TRUE /\ toClient' = Append(toClient, "ok")
    <3>1. ~Lacks(toClient', "ok")
      BY <1>t, <2>3, SeqHolds DEF Answer
    <3> QED
      BY <1>n, <2>1, <2>3, <3>1
  <2>4. CASE auth' = auth /\ toClient' = Append(toClient, "other")
    <3>1. Lacks(toClient', "ok") <=> Lacks(toClient, "ok")
      BY <1>t, <2>4, SeqHolds DEF Answer
    <3> QED
      BY <1>n, <2>1, <2>4, <3>1
  <2>0. CASE conn = "reset"
    BY <1>n, <2>0, <2>1
  <2>2. CASE conn # "reset"
    <3>1. \/ auth' = TRUE /\ toClient' = Append(toClient, "ok")
          \/ auth' = auth /\ toClient' = Append(toClient, "other")
      BY <1>8, <2>2 DEF LoginCallback, Reply
    <3> QED
      BY <2>3, <2>4, <3>1
  <2> QED
    BY <2>0, <2>2
<1> QED
  BY <1>1, <1>2, <1>3, <1>4, <1>5, <1>6, <1>7, <1>8 DEF Next, Console

\* The invariant of the client, and of what is under way before the first
\* login and before the first logout (chat_client.cc:202-209), for any number
\* of requests and whatever the server still does after a close.
THEOREM ClientInvariance == Spec => []ClientInv
<1>1. Init => ClientInv
  BY InitEarlyInv DEF EarlyInv, ClientInv, Init, AgreementUnderWay
<1>2. ClientInv /\ [Next]_vars => ClientInv'
  BY NextEarlyInv, NextAgreement DEF EarlyInv, ClientInv
<1> QED
  BY <1>1, <1>2, PTL DEF Spec

\* The client takes itself for logged in only after a login has succeeded
\* (chat_client.cc:206).
THEOREM LoggedInAfterLogin == Spec => []ShownOnlyAfterLogin
<1>1. ClientInv => ShownOnlyAfterLogin
  BY DEF ClientInv, NothingBeforeLogin, ShownOnlyAfterLogin
<1> QED
  BY <1>1, ClientInvariance, PTL

\* While the connection is up and until the user first logs out, client and
\* server agree on the login once every answer has come, however many logins
\* overlapped or failed (chat_client.cc:206, chat_server.cc:135-157).
THEOREM AgreementUntilLogout == Spec => []AgreeUntilLogout
<1>1. ClientInv => AgreeUntilLogout
  <2> SUFFICES ASSUME ClientInv, conn = "up", Quiet, ~leaving
               PROVE  loggedIn = auth
    BY DEF AgreeUntilLogout
  <2>1. auth <=> (loggedIn \/ ~Lacks(toClient, "ok"))
    BY AgreementIsLacks DEF ClientInv
  <2>2. Lacks(toClient, "ok")
    BY DEF Quiet, Lacks
  <2>3. auth \in BOOLEAN /\ loggedIn \in BOOLEAN
    BY DEF ClientInv, TypeOK
  <2> QED
    BY <2>1, <2>2, <2>3
<1> QED
  BY <1>1, ClientInvariance, PTL
=============================================================================
