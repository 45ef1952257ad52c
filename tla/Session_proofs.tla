---------------------------- MODULE Session_proofs ----------------------------
(***************************************************************************)
(* Proofs about the control session, for any number of clients: that       *)
(* client and server never wait for each other, and which of the uploads   *)
(* reported as delivered were read to their end.                           *)
(***************************************************************************)
EXTENDS Session, SequenceTheorems, TLAPS

-----------------------------------------------------------------------------
(* The inductive invariant, a statement about each client on its own: where *)
(* its handler is and what is under way while the client is at some point.  *)
(* Of a dead client only the last three parts say anything.                 *)

LoggingIn(c) ==
  /\ cl[c] = "off" => hd[c] = "none" /\ Len(up[c]) = 0 /\ down[c] = <<>>
  /\ cl[c] = "hello" =>
       hd[c] \in {"queued", "creds", "ended"} /\ Len(up[c]) = 0 /\ down[c] = <<>>
  /\ cl[c] = "login" =>
       \/ hd[c] \in {"queued", "creds"} /\ Len(up[c]) = 2 /\ down[c] = <<>>
       \/ hd[c] = "check" /\ Len(up[c]) = 0 /\ down[c] = <<>>
       \/ hd[c] = "command" /\ Len(up[c]) = 0 /\ down[c] = <<"LOGIN_OK">>
       \/ hd[c] = "ended" /\ down[c] \in {<<>>, <<"LOGIN_FAILED">>}

Commanding(c) ==
  /\ cl[c] \in {"reply", "port"} =>
       \/ hd[c] = "command" /\ Len(up[c]) = 1 /\ down[c] = <<>>
       \/ hd[c] = "dispatch" /\ Len(up[c]) = 0 /\ down[c] = <<>>
       \/ /\ hd[c] = "accept" /\ cl[c] = "port" /\ data[c] = "listening"
          /\ down[c] = <<"TRANSFER_PORT">>
       \/ hd[c] = "ended" /\ down[c] \in {<<"REPLY">>, <<"TRANSFER_CREATION_FAILED">>}
  /\ cl[c] = "reply" => want[c].cmd = "ACCOUNT"
  /\ cl[c] = "port" => want[c].cmd # "ACCOUNT"

Transferring(c) ==
  /\ cl[c] = "connect" => hd[c] = "accept" /\ data[c] = "listening"
  /\ cl[c] \in {"send", "recv", "claimed"} =>
       \/ hd[c] = "accept" /\ data[c] = "pending"
       \/ hd[c] \in {"wait", "ended"}
  /\ cl[c] = "failed" => hd[c] \in {"none", "ended"}
  /\ cl[c] = "done" => hd[c] \in {"wait", "ended"}

Purpose(c) ==
  /\ cl[c] \in {"send", "claimed"} => want[c].cmd = "PUT"
  /\ cl[c] \in {"recv", "done"} => want[c].cmd # "PUT"

Serving(c) ==
  /\ hd[c] = "accept" => data[c] \in {"listening", "pending"}
  /\ hd[c] = "wait" => /\ child[c] # "none"
                       /\ cl[c] \in {"send", "recv", "claimed", "done", "dead"}
  /\ hd[c] = "ended" => child[c] \in {"none", "ended"}
  /\ hd[c] \notin {"wait", "ended"} => child[c] = "none"

Storing(c) ==
  /\ child[c] = "put" => want[c].cmd = "PUT"
  /\ child[c] = "get" => want[c].cmd # "PUT"
  /\ child[c] = "ended" /\ want[c].cmd = "PUT" => c \in stored \/ ~Understood(want[c])

Good(c) == /\ LoggingIn(c) /\ Commanding(c) /\ Transferring(c)
           /\ Purpose(c) /\ Serving(c) /\ Storing(c)

IInv == TypeOK /\ \A c \in Clients : Good(c)

\* A client whose part of the state does not change stays as it is.
Same(c) ==
  /\ cl'[c] = cl[c] /\ want'[c] = want[c] /\ hd'[c] = hd[c] /\ child'[c] = child[c]
  /\ up'[c] = up[c] /\ down'[c] = down[c] /\ data'[c] = data[c]
  /\ c \in stored' <=> c \in stored

Steps(c) ==
  \/ \E w \in Wants : ClConnects(c, w)
  \/ ClRefused(c) \/ Client(c) \/ ClDies(c)
  \/ MainForks(c) \/ Handler(c) \/ Child(c)

ClientStep(c) ==
  \/ \E w \in Wants : ClConnects(c, w)
  \/ ClRefused(c) \/ Client(c) \/ ClDies(c)

-----------------------------------------------------------------------------
(* Types *)

LEMMA InitIInv == Init => IInv
<1> SUFFICES ASSUME Init PROVE IInv
  OBVIOUS
<1>1. TypeOK
  <2>1. <<>> \in Seq(Lines)
    OBVIOUS
  <2> QED BY <2>1 DEF Init, TypeOK
<1>2. \A c \in Clients : Good(c)
  BY DEF Init, Good, LoggingIn, Commanding, Transferring, Purpose, Serving, Storing
<1> QED BY <1>1, <1>2 DEF IInv

\* The lines that are sent.
LEMMA SentAreLines ==
  /\ {"user", "pass", "command", "LOGIN_OK", "LOGIN_FAILED", "REPLY",
      "TRANSFER_PORT", "TRANSFER_CREATION_FAILED"} \subseteq Lines
  /\ <<"user", "pass">> \in Seq(Lines)
  BY DEF Lines

LEMMA TailOfLines ==
  ASSUME NEW s \in Seq(Lines), Len(s) >= 1
  PROVE  Tail(s) \in Seq(Lines) /\ Len(Tail(s)) = Len(s) - 1
<1>1. s # <<>>
  OBVIOUS
<1> QED BY <1>1

LEMMA NextTypeOK == TypeOK /\ [Next]_vars => TypeOK'
<1> SUFFICES ASSUME TypeOK, [Next]_vars PROVE TypeOK'
  OBVIOUS
<1> USE SentAreLines DEF TypeOK
<1>1. CASE UNCHANGED vars
  BY <1>1 DEF vars
<1>2. CASE MainDies \/ MainStarts
  BY <1>2 DEF MainDies, MainStarts
<1>3. ASSUME NEW c \in Clients, NEW w \in Wants, ClConnects(c, w) PROVE TypeOK'
  BY <1>3 DEF ClConnects
<1>4. ASSUME NEW c \in Clients, ClRefused(c) \/ ClDies(c) \/ MainForks(c) PROVE TypeOK'
  BY <1>4 DEF ClRefused, ClDies, MainForks
<1>5. ASSUME NEW c \in Clients, ClSendsLogin(c) PROVE TypeOK'
  <2>1. up[c] \o <<"user", "pass">> \in Seq(Lines)
    OBVIOUS
  <2> QED BY <1>5, <2>1 DEF ClSendsLogin
<1>6. ASSUME NEW c \in Clients, ClSendsCommand(c) PROVE TypeOK'
  <2>1. down[c] # <<>> /\ Tail(down[c]) \in Seq(Lines) /\ Append(up[c], "command") \in Seq(Lines)
    BY <1>6 DEF ClSendsCommand, Hears
  <2> QED BY <1>6, <2>1 DEF ClSendsCommand
<1>7. ASSUME NEW c \in Clients, ClReadsReply(c) \/ ClReadsPort(c) PROVE TypeOK'
  <2>1. down[c] # <<>> /\ Tail(down[c]) \in Seq(Lines)
    BY <1>7 DEF ClReadsReply, ClReadsPort, Hears
  <2> QED BY <1>7, <2>1 DEF ClReadsReply, ClReadsPort
<1>8. ASSUME NEW c \in Clients,
             ClGivesUp(c) \/ ClConnectsData(c) \/ ClClaims(c) \/ ClReceivesAll(c)
      PROVE  TypeOK'
  BY <1>8 DEF ClGivesUp, ClConnectsData, ClClaims, ClReceivesAll
<1>9. ASSUME NEW c \in Clients, HdReadsLogin(c) PROVE TypeOK'
  <2>1. Len(up[c]) >= 2 /\ Tail(up[c]) \in Seq(Lines)
    BY <1>9 DEF HdReadsLogin
  <2>2. Len(Tail(up[c])) >= 1
    BY <2>1, TailOfLines
  <2>3. Tail(Tail(up[c])) \in Seq(Lines)
    BY <2>1, <2>2, TailOfLines
  <2> QED BY <1>9, <2>3 DEF HdReadsLogin
<1>10. ASSUME NEW c \in Clients, HdReadsCommand(c) PROVE TypeOK'
  <2>1. Tail(up[c]) \in Seq(Lines)
    BY <1>10 DEF HdReadsCommand
  <2> QED BY <1>10, <2>1 DEF HdReadsCommand
<1>11. ASSUME NEW c \in Clients,
              HdAccepts(c) \/ HdRefuses(c) \/ HdReplies(c) \/ HdListens(c) \/ HdListenFails(c)
       PROVE  TypeOK'
  <2>1. /\ Append(down[c], "LOGIN_OK") \in Seq(Lines)
        /\ Append(down[c], "LOGIN_FAILED") \in Seq(Lines)
        /\ Append(down[c], "REPLY") \in Seq(Lines)
        /\ Append(down[c], "TRANSFER_PORT") \in Seq(Lines)
        /\ Append(down[c], "TRANSFER_CREATION_FAILED") \in Seq(Lines)
    OBVIOUS
  <2>2. CASE HdAccepts(c)
    BY <2>1, <2>2 DEF HdAccepts
  <2>3. CASE HdRefuses(c)
    BY <2>1, <2>3 DEF HdRefuses
  <2>4. CASE HdReplies(c)
    BY <2>1, <2>4 DEF HdReplies
  <2>5. CASE HdListens(c)
    BY <2>1, <2>5 DEF HdListens
  <2>6. CASE HdListenFails(c)
    BY <2>1, <2>6 DEF HdListenFails
  <2> QED BY <1>11, <2>2, <2>3, <2>4, <2>5, <2>6
<1>12. ASSUME NEW c \in Clients, HdHangsUp(c) \/ HdForks(c) \/ HdDrops(c) \/ HdWaits(c)
       PROVE  TypeOK'
  BY <1>12 DEF HdHangsUp, HdForks, HdDrops, HdWaits
<1>13. ASSUME NEW c \in Clients, Child(c) PROVE TypeOK'
  BY <1>13 DEF Child, ChildExecs, ChildExits, ChildPuts, ChildGets
<1> QED
  BY <1>1, <1>2, <1>3, <1>4, <1>5, <1>6, <1>7, <1>8, <1>9, <1>10, <1>11, <1>12, <1>13
  DEF Next, Client, Handler

-----------------------------------------------------------------------------
(* One client's steps leave the others alone. *)

LEMMA OthersSame ==
  ASSUME TypeOK, NEW c \in Clients, NEW d \in Clients, d # c, Steps(c)
  PROVE  Same(d)
<1> USE DEF TypeOK, Same
<1>1. CASE ClientStep(c)
  BY <1>1 DEF ClientStep, Client, ClConnects, ClRefused, ClDies, ClSendsLogin, ClSendsCommand,
     ClReadsReply, ClReadsPort, ClGivesUp, ClConnectsData, ClClaims, ClReceivesAll
<1>2. CASE MainForks(c) \/ Child(c)
  BY <1>2 DEF MainForks, Child, ChildExecs, ChildExits, ChildPuts, ChildGets
<1>3. CASE Handler(c)
  BY <1>3 DEF Handler, HdReadsLogin, HdHangsUp, HdAccepts, HdRefuses, HdReadsCommand, HdReplies,
     HdListens, HdListenFails, HdForks, HdDrops, HdWaits
<1> QED BY <1>1, <1>2, <1>3 DEF Steps, ClientStep

LEMMA SameGood ==
  ASSUME NEW c \in Clients, Same(c), Good(c)
  PROVE  Good(c)'
  BY DEF Same, Good, LoggingIn, Commanding, Transferring, Purpose, Serving, Storing

-----------------------------------------------------------------------------
(* Steps of a client, and of main *)

LEMMA ClientGood ==
  ASSUME TypeOK, NEW c \in Clients, Good(c), ClientStep(c)
  PROVE  Good(c)'
<1> USE DEF TypeOK, Good, LoggingIn, Commanding, Transferring, Purpose, Serving, Storing
<1>1. ASSUME NEW w \in Wants, ClConnects(c, w) PROVE Good(c)'
  BY <1>1 DEF ClConnects
<1>2. CASE ClRefused(c) \/ ClDies(c)
  BY <1>2 DEF ClRefused, ClDies
<1>3. CASE ClSendsLogin(c)
  <2>1. Len(up[c] \o <<"user", "pass">>) = Len(up[c]) + 2
    BY SentAreLines, ConcatProperties
  <2> QED BY <1>3, <2>1 DEF ClSendsLogin
<1>4. CASE ClSendsCommand(c)
  <2>1. hd[c] = "command" /\ Len(up[c]) = 0 /\ down[c] = <<"LOGIN_OK">>
    BY <1>4 DEF ClSendsCommand, Hears
  <2>2. Len(Append(up[c], "command")) = 1 /\ Tail(down[c]) = <<>>
    BY <2>1, SentAreLines
  <2> QED BY <1>4, <2>1, <2>2 DEF ClSendsCommand
<1>5. CASE ClReadsReply(c)
  <2>1. hd[c] = "ended"
    BY <1>5 DEF ClReadsReply, Hears
  <2> QED BY <1>5, <2>1 DEF ClReadsReply
<1>6. CASE ClReadsPort(c)
  <2>1. hd[c] = "accept" /\ data[c] = "listening"
    BY <1>6 DEF ClReadsPort, Hears
  <2> QED BY <1>6, <2>1 DEF ClReadsPort
<1>7. CASE ClGivesUp(c)
  <2>1. hd[c] = "ended"
    BY <1>7 DEF ClGivesUp, Hears, HearsEnd, ServerClosed
  <2> QED BY <1>7, <2>1 DEF ClGivesUp
<1>8. CASE ClConnectsData(c)
  BY <1>8 DEF ClConnectsData
<1>9. CASE ClClaims(c) \/ ClReceivesAll(c)
  BY <1>9 DEF ClClaims, ClReceivesAll
<1> QED BY <1>1, <1>2, <1>3, <1>4, <1>5, <1>6, <1>7, <1>8, <1>9 DEF ClientStep, Client

LEMMA MainGood ==
  ASSUME TypeOK, NEW c \in Clients, Good(c), MainForks(c) \/ MainDies \/ MainStarts
  PROVE  Good(c)'
<1> USE DEF TypeOK, Good, LoggingIn, Commanding, Transferring, Purpose, Serving, Storing
<1>1. CASE MainForks(c)
  BY <1>1 DEF MainForks
<1>2. CASE MainDies
  BY <1>2 DEF MainDies
<1>3. CASE MainStarts
  BY <1>3 DEF MainStarts
<1> QED BY <1>1, <1>2, <1>3

-----------------------------------------------------------------------------
(* Steps of a handler and of its child *)

LEMMA HandlerGood ==
  ASSUME TypeOK, NEW c \in Clients, Good(c), Handler(c)
  PROVE  Good(c)'
<1> USE DEF TypeOK, Good, LoggingIn, Commanding, Transferring, Purpose, Serving, Storing
<1>1. CASE HdReadsLogin(c)
  <2>1. up[c] \in Seq(Lines) /\ Len(up[c]) \in Nat /\ Len(up[c]) >= 2
    BY <1>1 DEF HdReadsLogin
  <2>2. Tail(up[c]) \in Seq(Lines) /\ Len(Tail(up[c])) = Len(up[c]) - 1
    BY <2>1, TailOfLines
  <2>3. Len(Tail(Tail(up[c]))) = Len(up[c]) - 2
    <3>1. Len(Tail(up[c])) >= 1
      BY <2>1, <2>2
    <3>2. Len(Tail(Tail(up[c]))) = Len(Tail(up[c])) - 1
      BY <2>2, <3>1, TailOfLines
    <3> QED BY <2>1, <2>2, <3>2
  <2> QED BY <1>1, <2>3 DEF HdReadsLogin
<1>2. CASE HdHangsUp(c)
  BY <1>2 DEF HdHangsUp, ClientClosed
<1>3. CASE HdAccepts(c)
  <2>1. cl[c] = "login" => Append(down[c], "LOGIN_OK") = <<"LOGIN_OK">>
    BY <1>3 DEF HdAccepts
  <2> QED BY <1>3, <2>1 DEF HdAccepts
<1>4. CASE HdRefuses(c)
  <2>1. cl[c] = "login" => Append(down[c], "LOGIN_FAILED") = <<"LOGIN_FAILED">>
    BY <1>4 DEF HdRefuses
  <2> QED BY <1>4, <2>1 DEF HdRefuses
<1>5. CASE HdReadsCommand(c)
  <2>1. Len(Tail(up[c])) = Len(up[c]) - 1
    BY <1>5 DEF HdReadsCommand
  <2> QED BY <1>5, <2>1 DEF HdReadsCommand
<1>6. CASE HdReplies(c)
  <2>1. cl[c] \in {"reply", "port"} => down[c] = <<>>
    BY <1>6 DEF HdReplies
  <2>2. Append(<<>>, "REPLY") = <<"REPLY">>
    OBVIOUS
  <2> QED BY <1>6, <2>1, <2>2 DEF HdReplies
<1>7. CASE HdListens(c)
  <2>1. cl[c] \in {"reply", "port"} => down[c] = <<>>
    BY <1>7 DEF HdListens
  <2>2. Append(<<>>, "TRANSFER_PORT") = <<"TRANSFER_PORT">>
    OBVIOUS
  <2> QED BY <1>7, <2>1, <2>2 DEF HdListens
<1>8. CASE HdListenFails(c)
  <2>1. cl[c] \in {"reply", "port"} => down[c] = <<>>
    BY <1>8 DEF HdListenFails
  <2>2. Append(<<>>, "TRANSFER_CREATION_FAILED") = <<"TRANSFER_CREATION_FAILED">>
    OBVIOUS
  <2> QED BY <1>8, <2>1, <2>2 DEF HdListenFails
<1>9. CASE HdForks(c)
  BY <1>9 DEF HdForks
<1>10. CASE HdDrops(c)
  BY <1>10 DEF HdDrops
<1>11. CASE HdWaits(c)
  BY <1>11 DEF HdWaits
<1> QED
  BY <1>1, <1>2, <1>3, <1>4, <1>5, <1>6, <1>7, <1>8, <1>9, <1>10, <1>11 DEF Handler

LEMMA ChildGood ==
  ASSUME TypeOK, NEW c \in Clients, Good(c), Child(c)
  PROVE  Good(c)'
<1> USE DEF TypeOK, Good, LoggingIn, Commanding, Transferring, Purpose, Serving, Storing
<1>1. hd[c] = "wait"
  BY DEF Child, ChildExecs, ChildExits, ChildPuts, ChildGets
<1>2. CASE ChildExecs(c)
  BY <1>1, <1>2 DEF ChildExecs
<1>3. CASE ChildExits(c)
  BY <1>1, <1>3 DEF ChildExits
<1>4. CASE ChildPuts(c)
  BY <1>1, <1>4 DEF ChildPuts
<1>5. CASE ChildGets(c)
  BY <1>1, <1>5 DEF ChildGets
<1> QED BY <1>2, <1>3, <1>4, <1>5 DEF Child

-----------------------------------------------------------------------------
LEMMA NextIInv == IInv /\ [Next]_vars => IInv'
<1> SUFFICES ASSUME IInv, [Next]_vars PROVE IInv'
  OBVIOUS
<1>1. TypeOK'
  BY NextTypeOK DEF IInv
<1>2. ASSUME NEW d \in Clients PROVE Good(d)'
  <2>1. TypeOK /\ Good(d)
    BY <1>2 DEF IInv
  <2>2. CASE UNCHANGED vars
    <3>1. Same(d)
      BY <2>2 DEF vars, Same
    <3> QED BY <2>1, <3>1, SameGood
  <2>3. CASE MainDies \/ MainStarts
    BY <2>1, <2>3, MainGood
  <2>4. ASSUME NEW c \in Clients, Steps(c) PROVE Good(d)'
    <3>1. CASE c = d
      BY <2>1, <2>4, <3>1, ClientGood, MainGood, HandlerGood, ChildGood DEF Steps, ClientStep
    <3>2. CASE c # d
      <4>1. Same(d)
        BY <2>1, <2>4, <3>2, OthersSame
      <4> QED BY <2>1, <4>1, SameGood
    <3> QED BY <3>1, <3>2
  <2> QED BY <2>2, <2>3, <2>4 DEF Next, Steps
<1> QED BY <1>1, <1>2 DEF IInv

LEMMA Invariance == Spec => []IInv
  BY InitIInv, NextIInv, PTL DEF Spec

(* Every line under way is one of the protocol's, and both ends, the child *)
(* and the connections are where the module says they can be.              *)
THEOREM TypeCorrect == Spec => []TypeOK
  BY Invariance, PTL DEF IInv

(* For any number of clients: whenever a client waits, its handler or the  *)
(* handler's child can go on, and the other way round.                     *)
THEOREM NobodyWaitsForEachOther == Spec => []NoMutualWait
<1>1. IInv => NoMutualWait
  <2> SUFFICES ASSUME IInv, NEW c \in Clients, ClientWaits(c), ServerWaits(c) PROVE FALSE
    BY DEF NoMutualWait
  <2>1. TypeOK /\ Good(c)
    BY DEF IInv
  <2>2. up[c] = <<>> => Len(up[c]) = 0
    OBVIOUS
  <2>3. child[c] = "put" => cl[c] \in {"send", "claimed", "dead"}
    BY <2>1 DEF Good, Purpose, Serving, Storing
  <2>4. CASE cl[c] = "login" /\ down[c] = <<>> /\ hd[c] # "ended"
    BY <2>1, <2>2, <2>3, <2>4 DEF ServerWaits, Good, LoggingIn
  <2>5. CASE cl[c] \in {"reply", "port"} /\ down[c] = <<>> /\ hd[c] # "ended"
    BY <2>1, <2>2, <2>3, <2>5 DEF ServerWaits, Good, Commanding
  <2>6. CASE cl[c] = "recv"
    BY <2>1, <2>2, <2>3, <2>6 DEF ServerWaits, ClientClosed, Good, Transferring
  <2> QED BY <2>4, <2>5, <2>6 DEF ClientWaits, ServerClosed
<1> QED BY <1>1, Invariance, PTL

(* For any number of clients: an upload that was reported as delivered and *)
(* whose handler is through was read to its end, but for the two causes    *)
(* that ClaimsAreStored names.                                             *)
THEOREM ClaimsAreKept == Spec => []ClaimsAreStored
<1>1. IInv => ClaimsAreStored
  BY DEF IInv, TypeOK, Good, Purpose, Serving, Storing, ClaimsAreStored, Understood
<1> QED BY <1>1, Invariance, PTL

=============================================================================
