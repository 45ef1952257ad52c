------------------------------- MODULE Session -------------------------------
(***************************************************************************)
(* The control session of the server: a client (sender, receive, or the    *)
(* command helper of server_api) logs in to handle_client on port 8012,    *)
(* sends one command, and for a transfer connects again to the port the    *)
(* handler names, where run_server_get or run_server_send serves it.       *)
(*                                                                         *)
(* Every client gets a handler process of its own; main only accepts and   *)
(* forks.  Lines and connections are modelled, not bytes; how a login is   *)
(* checked is SqlChannel's subject and has any outcome here, and what is   *)
(* transferred is Mailbox's.                                               *)
(***************************************************************************)
EXTENDS Naturals, Sequences

CONSTANT Clients

VARIABLES
    main,     \* whether init_server's main runs
    cl,       \* where each client is
    want,     \* what each client wants
    hd,       \* where the handler of each client is
    child,    \* the process that handles the transfer
    up, down, \* lines under way on the control connection
    data,     \* the data connection
    stored    \* history: clients whose upload was read to its end

vars == <<main, cl, want, hd, child, up, down, data, stored>>

-----------------------------------------------------------------------------
\* Recipients as the handler's strncmp with "admin" tells them apart: the
\* admin, a user whose name begins like that, any other user.
Wants ==
    [cmd : {"GET", "ACCOUNT"}]
        \cup [cmd : {"PUT"}, to : {"adminlike", "user"}, genre : {FALSE}]
        \cup [cmd : {"PUT"}, to : {"admin"}, genre : BOOLEAN]

NoWant == [cmd |-> "none"]

Lines == {"user", "pass", "command", "LOGIN_OK", "LOGIN_FAILED", "REPLY",
          "TRANSFER_PORT", "TRANSFER_CREATION_FAILED"}

TypeOK ==
    /\ main \in {"up", "down"}
    /\ cl \in [Clients -> {"off", "hello", "login", "reply", "port", "connect", "send",
                           "recv", "claimed", "done", "failed", "dead"}]
    /\ want \in [Clients -> Wants \cup {NoWant}]
    /\ hd \in [Clients -> {"none", "queued", "creds", "check", "command", "dispatch",
                           "accept", "wait", "ended"}]
    /\ child \in [Clients -> {"none", "forked", "put", "get", "ended"}]
    /\ up \in [Clients -> Seq(Lines)] /\ down \in [Clients -> Seq(Lines)]
    /\ data \in [Clients -> {"none", "listening", "pending", "open", "closed"}]
    /\ stored \subseteq Clients

Init ==
    /\ main = "up"
    /\ cl = [c \in Clients |-> "off"]
    /\ want = [c \in Clients |-> NoWant]
    /\ hd = [c \in Clients |-> "none"]
    /\ child = [c \in Clients |-> "none"]
    /\ up = [c \in Clients |-> <<>>]
    /\ down = [c \in Clients |-> <<>>]
    /\ data = [c \in Clients |-> "none"]
    /\ stored = {}

-----------------------------------------------------------------------------
(* What each end of the control connection sees of the other *)

ServerClosed(c) == hd[c] = "ended"
ClientClosed(c) == cl[c] \notin {"hello", "login", "reply", "port"}

\* The next line for the client, or the end of the connection.
Hears(c, line) == down[c] # <<>> /\ Head(down[c]) = line
HearsEnd(c)    == down[c] = <<>> /\ ServerClosed(c)

-----------------------------------------------------------------------------
(* The client *)

ClConnects(c, w) ==
    /\ cl[c] = "off"
    /\ main = "up"
    /\ cl' = [cl EXCEPT ![c] = "hello"]
    /\ want' = [want EXCEPT ![c] = w]
    /\ hd' = [hd EXCEPT ![c] = "queued"]
    /\ UNCHANGED <<main, child, up, down, data, stored>>

\* strt has not restarted the server yet: connection refused.
ClRefused(c) ==
    /\ cl[c] = "off"
    /\ main = "down"
    /\ cl' = [cl EXCEPT ![c] = "failed"]
    /\ UNCHANGED <<main, want, hd, child, up, down, data, stored>>

ClSendsLogin(c) ==
    /\ cl[c] = "hello"
    /\ cl' = [cl EXCEPT ![c] = "login"]
    /\ up' = [up EXCEPT ![c] = @ \o <<"user", "pass">>]
    /\ UNCHANGED <<main, want, hd, child, down, data, stored>>

\* LOGIN_OK is read and the command sent.
ClSendsCommand(c) ==
    /\ cl[c] = "login"
    /\ Hears(c, "LOGIN_OK")
    /\ down' = [down EXCEPT ![c] = Tail(@)]
    /\ up' = [up EXCEPT ![c] = Append(@, "command")]
    /\ cl' = [cl EXCEPT ![c] = IF want[c].cmd = "ACCOUNT" THEN "reply" ELSE "port"]
    /\ UNCHANGED <<main, want, hd, child, data, stored>>

ClReadsReply(c) ==
    /\ cl[c] = "reply"
    /\ Hears(c, "REPLY")
    /\ down' = [down EXCEPT ![c] = Tail(@)]
    /\ cl' = [cl EXCEPT ![c] = "done"]
    /\ UNCHANGED <<main, want, hd, child, up, data, stored>>

\* The port is read and the control connection closed, at once.
ClReadsPort(c) ==
    /\ cl[c] = "port"
    /\ Hears(c, "TRANSFER_PORT")
    /\ down' = [down EXCEPT ![c] = Tail(@)]
    /\ cl' = [cl EXCEPT ![c] = "connect"]
    /\ UNCHANGED <<main, want, hd, child, up, data, stored>>

\* Bug: the end of the connection is taken for an empty line and passed over.
ClGivesUpWhenTold(c) ==
    /\ cl[c] \in {"login", "reply", "port"}
    /\ Hears(c, "LOGIN_FAILED") \/ Hears(c, "TRANSFER_CREATION_FAILED")
    /\ cl' = [cl EXCEPT ![c] = "failed"]
    /\ UNCHANGED <<main, want, hd, child, up, down, data, stored>>

\* A line that is not the one expected, or none: the client gives up.
ClGivesUp(c) ==
    /\ cl[c] \in {"login", "reply", "port"}
    /\ \/ HearsEnd(c)
       \/ Hears(c, "LOGIN_FAILED")
       \/ Hears(c, "TRANSFER_CREATION_FAILED")
    /\ cl' = [cl EXCEPT ![c] = "failed"]
    /\ UNCHANGED <<main, want, hd, child, up, down, data, stored>>

ClConnectsData(c) ==
    /\ cl[c] = "connect"
    /\ IF data[c] = "listening"
       THEN /\ data' = [data EXCEPT ![c] = "pending"]
            /\ cl' = [cl EXCEPT ![c] = IF want[c].cmd = "PUT" THEN "send" ELSE "recv"]
       ELSE /\ UNCHANGED data
            /\ cl' = [cl EXCEPT ![c] = "failed"]
    /\ UNCHANGED <<main, want, hd, child, up, down, stored>>

\* Everything is sent, or sending failed: either way "Transfer complete".
ClClaims(c) ==
    /\ cl[c] = "send"
    /\ cl' = [cl EXCEPT ![c] = "claimed"]
    /\ UNCHANGED <<main, want, hd, child, up, down, data, stored>>

ClReceivesAll(c) ==
    /\ cl[c] = "recv"
    /\ data[c] = "closed"
    /\ cl' = [cl EXCEPT ![c] = "done"]
    /\ UNCHANGED <<main, want, hd, child, up, down, data, stored>>

ClDies(c) ==
    /\ cl[c] \notin {"off", "claimed", "done", "failed", "dead"}
    /\ cl' = [cl EXCEPT ![c] = "dead"]
    /\ UNCHANGED <<main, want, hd, child, up, down, data, stored>>

Client(c) ==
    \/ ClSendsLogin(c) \/ ClSendsCommand(c) \/ ClReadsReply(c) \/ ClReadsPort(c)
    \/ ClGivesUp(c) \/ ClConnectsData(c) \/ ClClaims(c) \/ ClReceivesAll(c)

-----------------------------------------------------------------------------
(* main: accept and fork; the handlers outlive it *)

MainForks(c) ==
    /\ main = "up"
    /\ hd[c] = "queued"
    /\ hd' = [hd EXCEPT ![c] = "creds"]
    /\ UNCHANGED <<main, cl, want, child, up, down, data, stored>>

MainDies ==
    /\ main = "up"
    /\ main' = "down"
    /\ hd' = [c \in Clients |-> IF hd[c] = "queued" THEN "ended" ELSE hd[c]]
    /\ UNCHANGED <<cl, want, child, up, down, data, stored>>

MainStarts ==
    /\ main = "down"
    /\ main' = "up"
    /\ UNCHANGED <<cl, want, hd, child, up, down, data, stored>>

-----------------------------------------------------------------------------
(* handle_client *)

HdReadsLogin(c) ==
    /\ hd[c] = "creds"
    /\ Len(up[c]) >= 2
    /\ up' = [up EXCEPT ![c] = Tail(Tail(@))]
    /\ hd' = [hd EXCEPT ![c] = "check"]
    /\ UNCHANGED <<main, cl, want, child, down, data, stored>>

\* Bug: only the login's read_line is tested for the end of the stream.
HdHangsUpAtLogin(c) ==
    /\ hd[c] = "creds"
    /\ up[c] = <<>>
    /\ ClientClosed(c)
    /\ hd' = [hd EXCEPT ![c] = "ended"]
    /\ UNCHANGED <<main, cl, want, child, up, down, data, stored>>

\* read_line returns 0: the client is gone.
HdHangsUp(c) ==
    /\ hd[c] \in {"creds", "command"}
    /\ up[c] = <<>>
    /\ ClientClosed(c)
    /\ hd' = [hd EXCEPT ![c] = "ended"]
    /\ UNCHANGED <<main, cl, want, child, up, down, data, stored>>

\* db_check_user says yes, says no, or does not come back (SqlChannel's SIGBUS).
HdAccepts(c) ==
    /\ hd[c] = "check"
    /\ down' = [down EXCEPT ![c] = Append(@, "LOGIN_OK")]
    /\ hd' = [hd EXCEPT ![c] = "command"]
    /\ UNCHANGED <<main, cl, want, child, up, data, stored>>

HdRefuses(c) ==
    /\ hd[c] = "check"
    /\ \/ down' = [down EXCEPT ![c] = Append(@, "LOGIN_FAILED")]
       \/ UNCHANGED down
    /\ hd' = [hd EXCEPT ![c] = "ended"]
    /\ UNCHANGED <<main, cl, want, child, up, data, stored>>

HdReadsCommand(c) ==
    /\ hd[c] = "command"
    /\ up[c] # <<>>
    /\ up' = [up EXCEPT ![c] = Tail(@)]
    /\ hd' = [hd EXCEPT ![c] = "dispatch"]
    /\ UNCHANGED <<main, cl, want, child, down, data, stored>>

\* Every command but PUT and GET: one line of answer, exit.
HdReplies(c) ==
    /\ hd[c] = "dispatch"
    /\ want[c].cmd = "ACCOUNT"
    /\ down' = [down EXCEPT ![c] = Append(@, "REPLY")]
    /\ hd' = [hd EXCEPT ![c] = "ended"]
    /\ UNCHANGED <<main, cl, want, child, up, data, stored>>

\* Bug: the port is not announced before accept.
HdListensSilently(c) ==
    /\ hd[c] = "dispatch"
    /\ want[c].cmd # "ACCOUNT"
    /\ data' = [data EXCEPT ![c] = "listening"]
    /\ hd' = [hd EXCEPT ![c] = "accept"]
    /\ UNCHANGED <<main, cl, want, child, up, down, stored>>

\* create_transfer_listener, then TRANSFER_PORT.
HdListens(c) ==
    /\ hd[c] = "dispatch"
    /\ want[c].cmd # "ACCOUNT"
    /\ data' = [data EXCEPT ![c] = "listening"]
    /\ down' = [down EXCEPT ![c] = Append(@, "TRANSFER_PORT")]
    /\ hd' = [hd EXCEPT ![c] = "accept"]
    /\ UNCHANGED <<main, cl, want, child, up, stored>>

\* Bug: the -1 of create_transfer_listener is announced as a port.
HdListenFailsUnseen(c) ==
    /\ hd[c] = "dispatch"
    /\ want[c].cmd # "ACCOUNT"
    /\ down' = [down EXCEPT ![c] = Append(@, "TRANSFER_PORT -1")]
    /\ hd' = [hd EXCEPT ![c] = "ended"]
    /\ UNCHANGED <<main, cl, want, child, up, data, stored>>

HdListenFails(c) ==
    /\ hd[c] = "dispatch"
    /\ want[c].cmd # "ACCOUNT"
    /\ down' = [down EXCEPT ![c] = Append(@, "TRANSFER_CREATION_FAILED")]
    /\ hd' = [hd EXCEPT ![c] = "ended"]
    /\ UNCHANGED <<main, cl, want, child, up, data, stored>>

\* accept waits for a connection, without a limit, and then fork.
HdForks(c) ==
    /\ hd[c] = "accept"
    /\ data[c] = "pending"
    /\ data' = [data EXCEPT ![c] = "open"]
    /\ child' = [child EXCEPT ![c] = "forked"]
    /\ hd' = [hd EXCEPT ![c] = "wait"]
    /\ UNCHANGED <<main, cl, want, up, down, stored>>

\* accept or fork fails: the connection is closed, nobody serves it.
HdDrops(c) ==
    /\ hd[c] = "accept"
    /\ data[c] = "pending"
    /\ data' = [data EXCEPT ![c] = "closed"]
    /\ hd' = [hd EXCEPT ![c] = "ended"]
    /\ UNCHANGED <<main, cl, want, child, up, down, stored>>

\* waitpid.
HdWaits(c) ==
    /\ hd[c] = "wait"
    /\ child[c] = "ended"
    /\ hd' = [hd EXCEPT ![c] = "ended"]
    /\ UNCHANGED <<main, cl, want, child, up, down, data, stored>>

Handler(c) ==
    \/ HdReadsLogin(c) \/ HdHangsUp(c) \/ HdAccepts(c) \/ HdRefuses(c)
    \/ HdReadsCommand(c) \/ HdReplies(c) \/ HdListens(c) \/ HdListenFails(c)
    \/ HdForks(c) \/ HdDrops(c) \/ HdWaits(c)

-----------------------------------------------------------------------------
(* The child: exec of run_server_get or run_server_send *)

\* Bug: every PUT needs its genre.
UnderstoodWithGenre(w) == w.genre

\* What begins with "admin" needs the genre as a fourth word; sender sends it
\* only to "admin" itself, and only if it was given one.
Understood(w) == w.to \in {"admin", "adminlike"} => w.genre

ChildExecs(c) ==
    /\ child[c] = "forked"
    /\ want[c].cmd = "PUT" => Understood(want[c])
    /\ child' = [child EXCEPT ![c] = IF want[c].cmd = "PUT" THEN "put" ELSE "get"]
    /\ UNCHANGED <<main, cl, want, hd, up, down, data, stored>>

ChildExits(c) ==
    /\ child[c] = "forked"
    /\ want[c].cmd = "PUT" /\ ~Understood(want[c])
    /\ child' = [child EXCEPT ![c] = "ended"]
    /\ data' = [data EXCEPT ![c] = "closed"]
    /\ UNCHANGED <<main, cl, want, hd, up, down, stored>>

\* run_server_get reads to the end of the stream.
ChildPuts(c) ==
    /\ child[c] = "put"
    /\ cl[c] \in {"claimed", "dead"}
    /\ child' = [child EXCEPT ![c] = "ended"]
    /\ data' = [data EXCEPT ![c] = "closed"]
    /\ stored' = stored \cup {c}
    /\ UNCHANGED <<main, cl, want, hd, up, down>>

\* run_server_send writes until there is nothing left, heard or not.
ChildGets(c) ==
    /\ child[c] = "get"
    /\ child' = [child EXCEPT ![c] = "ended"]
    /\ data' = [data EXCEPT ![c] = "closed"]
    /\ UNCHANGED <<main, cl, want, hd, up, down, stored>>

Child(c) == ChildExecs(c) \/ ChildExits(c) \/ ChildPuts(c) \/ ChildGets(c)

-----------------------------------------------------------------------------
Next ==
    \/ MainDies \/ MainStarts
    \/ \E c \in Clients :
        \/ \E w \in Wants : ClConnects(c, w)
        \/ ClRefused(c) \/ Client(c) \/ ClDies(c)
        \/ MainForks(c) \/ Handler(c) \/ Child(c)

Spec == Init /\ [][Next]_vars

\* Processes that run keep running; nobody has to connect or to die.
FairSpec ==
    /\ Spec
    /\ \A c \in Clients :
        /\ WF_vars(Client(c)) /\ WF_vars(MainForks(c))
        /\ WF_vars(Handler(c)) /\ WF_vars(Child(c))

-----------------------------------------------------------------------------
(* Properties *)

ClientWaits(c) ==
    \/ cl[c] \in {"login", "reply", "port"} /\ down[c] = <<>> /\ ~ServerClosed(c)
    \/ cl[c] = "recv" /\ data[c] # "closed"

ServerWaits(c) ==
    \/ hd[c] \in {"creds", "command"} /\ up[c] = <<>> /\ ~ClientClosed(c)
    \/ hd[c] = "accept" /\ data[c] = "listening"
    \/ child[c] = "put" /\ cl[c] \notin {"claimed", "dead"}

\* Client and server never wait for each other: the order of the lines, of the
\* listener's creation and its announcement, and of accept and exec against
\* the client's order of reads, of closing the control connection and of the
\* second connect.
NoMutualWait == \A c \in Clients : ~(ClientWaits(c) /\ ServerWaits(c))

\* An upload reported as delivered whose handler is through was read to its
\* end by run_server_get, but for two causes: its recipient begins with "admin"
\* and no genre came along, or accept or fork failed.
ClaimsAreStored ==
    \A c \in Clients : cl[c] = "claimed" /\ hd[c] = "ended" =>
        \/ c \in stored
        \/ want[c].to # "user" /\ ~want[c].genre
        \/ child[c] = "none"

\* Whether the client or main dies, every handler ends, but for one that waits in
\* accept for the data connection of a client that will not come.
HandlerEnds ==
    \A c \in Clients :
        hd[c] = "creds" ~>
            \/ hd[c] = "ended"
            \/ hd[c] = "accept" /\ data[c] = "listening" /\ cl[c] = "dead"

\* Every client that has connected comes to an end, also when main dies and comes
\* back: no handler leaves it without a line or the end of the connection.
ClientEnds ==
    \A c \in Clients :
        cl[c] = "hello" ~> cl[c] \in {"claimed", "done", "failed", "dead"}

=============================================================================
