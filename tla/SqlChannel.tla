----------------------------- MODULE SqlChannel -----------------------------
(***************************************************************************)
(* How init_server.c asks PostgreSQL: start_sql maps the shared-memory     *)
(* file /dev/shm/21, and ask_sql lets a shell redirect psql into the FILE  *)
(* of that name and then reads its own MAPPING.  The mapping is made once, *)
(* by the server's main, and every handler inherits it over fork; the name *)
(* is opened again by every shell, and end_sql, which run_server_get calls *)
(* after each upload to the admin space, unlinks it.                       *)
(*                                                                         *)
(* The model keeps the inodes behind the name and behind the mappings      *)
(* apart.  Of a file's content it keeps the first line, the only one the   *)
(* callers look at: every query they ask returns at most one row.  User    *)
(* names, stored file names and counts are different texts of the same     *)
(* length; a row is written and read in one step.                          *)
(***************************************************************************)
EXTENDS Naturals, FiniteSets

CONSTANTS
    Users,        \* user names that clients send
    Admin,        \* the account that main seeds
    Passwords,    \* passwords that clients send
    AdminPass,    \* the password of the seeded account
    Handlers,     \* slots for handler processes
    Uploaders,    \* slots for uploads to the admin space (run_server_get)
    Commands,     \* the commands clients send after a login
    Inodes,       \* inodes of the shared-memory file system
    MaxRestarts,  \* bound on how often the server dies or fails to bind
    Main,         \* the server's main process
    Nothing       \* no inode, no account, no row

Asker == Handlers \cup {Main}
Files == Uploaders          \* an uploader stands for the file it stores

ASSUME NamesAssumption ==
    /\ Admin \in Users
    /\ AdminPass \in Passwords
    /\ Nothing \notin Inodes \cup Passwords \cup Users \cup Files \cup Asker
    /\ Main \notin Handlers
    /\ Users \cap Files = {}
    /\ {"zero", "some", "no bytes", "zero bytes"} \cap (Users \cup Files) = {}
    /\ Nothing \notin {"zero", "some", "no bytes", "zero bytes"}
    /\ Commands \subseteq {"ADD_USER", "UPDATE_USER", "DELETE_USER",
                           "STREAM_GENRE", "other"}
ASSUME InodesAssumption ==
    /\ IsFiniteSet(Handlers)
    /\ IsFiniteSet(Inodes)
    /\ Cardinality(Inodes) > 2 * Cardinality(Asker) + 1
ASSUME RestartsAssumption == MaxRestarts \in Nat

VARIABLES
    pw,        \* table users: the password of each account
    meta,      \* table file_metadata: the files of the genre asked for
    name,      \* the inode that /dev/shm/21 denotes
    content,   \* what each inode holds
    pc,        \* where each asker is
    map,       \* the inode each asker's mapping of record 21 shows
    fd,        \* the inode an asker's psql writes to
    query,     \* the query an asker asks
    val,       \* the first row the asker read
    up,        \* where each uploader is
    restarts,  \* how often the server died or failed to bind
    own,       \* history: what the asker's own query returned
    disturbed, \* history: something came between the asker and its answer
    proven     \* history: users some login query found

tables == <<pw, meta>>
files  == <<name, content>>
askers == <<pc, map, fd, query, val>>
ghosts == <<own, disturbed, proven>>
vars   == <<tables, files, askers, up, restarts, ghosts>>

-----------------------------------------------------------------------------
NoBytes   == "no bytes"      \* size 0: touching the mapping is SIGBUS
ZeroBytes == "zero bytes"    \* s[0] is '\0': no row
Rows      == Users \cup Files \cup {"zero", "some"}

Queries ==
    [kind : {"login"}, user : Users, pass : Passwords]
        \cup [kind : {"genre", "count"}]

NoQuery == [kind |-> "none"]

\* Between the shell's open and the last byte read.
Asking(p) == pc[p] \in {"query", "scan", "copy"}

TypeOK ==
    /\ pw \in [Users -> Passwords \cup {Nothing}]
    /\ meta \subseteq Files
    /\ name \in Inodes \cup {Nothing}
    /\ content \in [Inodes -> Rows \cup {NoBytes, ZeroBytes}]
    /\ pc \in [Asker -> {"down", "ask", "query", "scan", "copy", "answered",
                         "listening", "ended", "silent"}]
    /\ map \in [Asker -> Inodes \cup {Nothing}]
    /\ fd \in [Asker -> Inodes \cup {Nothing}]
    /\ query \in [Asker -> Queries \cup {NoQuery}]
    /\ val \in [Asker -> Rows \cup {Nothing}]
    /\ up \in [Uploaders -> {"saved", "started", "inserted"}]
    /\ restarts \in 0 .. MaxRestarts
    /\ own \in [Asker -> Rows \cup {Nothing}]
    /\ disturbed \in [Asker -> BOOLEAN]
    /\ proven \subseteq Users

Init ==
    /\ pw = [u \in Users |-> Nothing]
    /\ meta = {}
    /\ name = Nothing
    /\ content = [i \in Inodes |-> NoBytes]
    /\ pc = [p \in Asker |-> IF p = Main THEN "down" ELSE "ended"]
    /\ map = [p \in Asker |-> Nothing]
    /\ fd = [p \in Asker |-> Nothing]
    /\ query = [p \in Asker |-> NoQuery]
    /\ val = [p \in Asker |-> Nothing]
    /\ up = [w \in Uploaders |-> "saved"]
    /\ restarts = 0
    /\ own = [p \in Asker |-> Nothing]
    /\ disturbed = [p \in Asker |-> FALSE]
    /\ proven = {}

-----------------------------------------------------------------------------
(* Files: opening, truncating, extending, unlinking /dev/shm/21 *)

\* Inodes that a name, a mapping or an open descriptor keeps alive.
Live == ({name} \cup {map[p] : p \in Asker} \cup {fd[p] : p \in Asker}) \ {Nothing}

\* The inode that opening the name with O_CREAT yields.
Opened ==
    IF name # Nothing THEN name
    ELSE CHOOSE i \in Inodes : i \notin Live

\* The file system frees an inode, and its bytes, with the last reference.
Keeping(c) == content' = [i \in Inodes |-> IF i \in Live' THEN c[i] ELSE NoBytes]

\* What ftruncate to 1 MB leaves of a shorter file: zeros after its bytes.
Extended(c) == IF c = NoBytes THEN ZeroBytes ELSE c

\* History: an asker is disturbed once a step of somebody else changes what
\* its mapping shows; its own steps set its flag to d.
Watch(actor, d) ==
    disturbed' = [p \in Asker |->
        IF p = actor THEN d
        ELSE disturbed[p] \/ (Asking(p) /\ content'[map[p]] # content[map[p]])]

\* start_sql, creat_space(21, 1 MB, 0): open or create, extend, map.
StartSql ==
    /\ name' = Opened
    /\ content' = [content EXCEPT ![Opened] = Extended(content[Opened])]

\* end_sql, unlink_all: the name goes, the mappings of others stay.
EndSql == name' = Nothing

-----------------------------------------------------------------------------
(* ask_sql, for a handler or for main *)

\* Bug: the shell appends (>>) to what the file holds.
ShellAppends(p) ==
    /\ pc[p] = "ask"
    /\ name' = Opened
    /\ content' = content
    /\ fd' = [fd EXCEPT ![p] = Opened]
    /\ pc' = [pc EXCEPT ![p] = "query"]
    /\ Watch(p, Opened # map[p])
    /\ UNCHANGED <<tables, map, query, val, up, restarts, own, proven>>
\* The shell of system() opens /dev/shm/21 with O_CREAT and O_TRUNC.
ShellTruncates(p) ==
    /\ pc[p] = "ask"
    /\ name' = Opened
    /\ content' = [content EXCEPT ![Opened] = NoBytes]
    /\ fd' = [fd EXCEPT ![p] = Opened]
    /\ pc' = [pc EXCEPT ![p] = "query"]
    /\ Watch(p, Opened # map[p])
    /\ UNCHANGED <<tables, map, query, val, up, restarts, own, proven>>

\* Bug: psql is run without -t and prints the header line first.
AnswersWithHeader(q) == {"header"}
\* What psql prints for a query: at most one row.
Answers(q) ==
    CASE q.kind = "login" ->
            IF pw[q.user] = q.pass THEN {q.user} ELSE {Nothing}
      [] q.kind = "genre" ->
            IF meta = {} THEN {Nothing} ELSE meta
      [] q.kind = "count" ->
            {IF \A u \in Users : pw[u] = Nothing THEN "zero" ELSE "some"}

\* psql runs the query and writes the row at the start of the file, if any.
PsqlWrites(p) ==
    /\ pc[p] = "query"
    /\ fd' = [fd EXCEPT ![p] = Nothing]
    /\ UNCHANGED <<tables, name, map, query, val, up, restarts>>
    /\ \E row \in Answers(query[p]) :
        /\ own' = [own EXCEPT ![p] = row]
        /\ Keeping(IF row = Nothing THEN content
                   ELSE [content EXCEPT ![fd[p]] = row])
        /\ proven' = IF query[p].kind = "login" /\ row # Nothing
                     THEN proven \cup {row} ELSE proven
    /\ pc' = [pc EXCEPT ![p] = "scan"]
    /\ Watch(p, disturbed[p])

\* The first pass counts the lines of the mapping, to size the result.
Scan(p) ==
    /\ pc[p] = "scan"
    /\ content[map[p]] # NoBytes
    /\ pc' = [pc EXCEPT ![p] = "copy"]
    /\ UNCHANGED <<tables, files, map, fd, query, val, up, restarts, ghosts>>

\* The second pass copies them.
Copy(p) ==
    /\ pc[p] = "copy"
    /\ content[map[p]] # NoBytes
    /\ val' = [val EXCEPT ![p] =
                  IF content[map[p]] = ZeroBytes THEN Nothing ELSE content[map[p]]]
    /\ pc' = [pc EXCEPT ![p] = "answered"]
    /\ UNCHANGED <<tables, files, map, fd, query, up, restarts, ghosts>>

\* Either pass touches a mapping of a file of size 0: SIGBUS.  A handler dies
\* and its client's connection is closed; main dies and strt starts it again.
Sigbus(p) ==
    /\ pc[p] \in {"scan", "copy"}
    /\ content[map[p]] = NoBytes
    /\ pc' = [pc EXCEPT ![p] = IF p = Main THEN "down" ELSE "silent"]
    /\ map' = [map EXCEPT ![p] = Nothing]
    /\ val' = [val EXCEPT ![p] = Nothing]
    /\ UNCHANGED <<tables, name, fd, query, up, restarts, ghosts>>
    /\ Keeping(content)

Ask(p) ==
    ShellTruncates(p) \/ PsqlWrites(p) \/ Scan(p) \/ Copy(p) \/ Sigbus(p)

-----------------------------------------------------------------------------
(* main: start, seed the admin account, listen, die *)

\* Bug: start_sql insists on creating the file (O_EXCL).
StartExclusive ==
    /\ pc[Main] = "down"
    /\ name = Nothing
    /\ StartSql
    /\ map' = [map EXCEPT ![Main] = Opened]
    /\ pc' = [pc EXCEPT ![Main] = "ask"]
    /\ query' = [query EXCEPT ![Main] = [kind |-> "count"]]
    /\ val' = [val EXCEPT ![Main] = Nothing]
    /\ Watch(Main, FALSE)
    /\ UNCHANGED <<tables, fd, up, restarts, own, proven>>
\* strt starts init_server, which calls start_sql and asks for the count.
Start ==
    /\ pc[Main] = "down"
    /\ StartSql
    /\ map' = [map EXCEPT ![Main] = Opened]
    /\ pc' = [pc EXCEPT ![Main] = "ask"]
    /\ query' = [query EXCEPT ![Main] = [kind |-> "count"]]
    /\ val' = [val EXCEPT ![Main] = Nothing]
    /\ Watch(Main, FALSE)
    /\ UNCHANGED <<tables, fd, up, restarts, own, proven>>

\* atoi of the row is 0 for the count 0, for no row and for any other text.
TotalUsersIsZero == val[Main] # "some"

\* db_add_user: INSERT ... ON CONFLICT DO NOTHING.
Inserted(u, p) == IF pw[u] = Nothing THEN [pw EXCEPT ![u] = p] ELSE pw

\* The account is seeded when the count reads 0; the socket is bound.
SeedAndListen ==
    /\ pc[Main] = "answered"
    /\ pw' = IF TotalUsersIsZero THEN Inserted(Admin, AdminPass) ELSE pw
    /\ pc' = [pc EXCEPT ![Main] = "listening"]
    /\ UNCHANGED <<meta, files, map, fd, query, val, up, restarts, ghosts>>

\* Binding the socket fails: end_sql, exit.
BindFails ==
    /\ pc[Main] = "answered"
    /\ restarts < MaxRestarts
    /\ restarts' = restarts + 1
    /\ pw' = IF TotalUsersIsZero THEN Inserted(Admin, AdminPass) ELSE pw
    /\ EndSql
    /\ pc' = [pc EXCEPT ![Main] = "down"]
    /\ map' = [map EXCEPT ![Main] = Nothing]
    /\ UNCHANGED <<meta, fd, query, val, up, ghosts>>
    /\ Keeping(content)

\* The server is killed; the handlers it forked live on.
Die ==
    /\ pc[Main] = "listening"
    /\ restarts < MaxRestarts
    /\ restarts' = restarts + 1
    /\ pc' = [pc EXCEPT ![Main] = "down"]
    /\ map' = [map EXCEPT ![Main] = Nothing]
    /\ UNCHANGED <<tables, name, fd, query, val, up, ghosts>>
    /\ Keeping(content)

-----------------------------------------------------------------------------
(* handle_client *)

\* main accepts and forks; the child inherits the mapping and reads the two
\* credential lines.
Accept(h, u, p) ==
    /\ pc[Main] = "listening"
    /\ pc[h] \in {"ended", "silent"}
    /\ pc' = [pc EXCEPT ![h] = "ask"]
    /\ map' = [map EXCEPT ![h] = map[Main]]
    /\ query' = [query EXCEPT ![h] = [kind |-> "login", user |-> u, pass |-> p]]
    /\ val' = [val EXCEPT ![h] = Nothing]
    /\ own' = [own EXCEPT ![h] = Nothing]
    /\ disturbed' = [disturbed EXCEPT ![h] = FALSE]
    /\ UNCHANGED <<tables, files, fd, up, restarts, proven>>

\* Bug: any row at all is taken for a match.
AnyRowIsValid(h) == val[h] # Nothing
\* The row read names the user who logs in.
IsValid(h) == val[h] = query[h].user

LoggedIn(h) == pc[h] = "answered" /\ query[h].kind = "login" /\ IsValid(h)

Exit(h) ==
    /\ pc' = [pc EXCEPT ![h] = "ended"]
    /\ map' = [map EXCEPT ![h] = Nothing]
    /\ query' = [query EXCEPT ![h] = NoQuery]
    /\ val' = [val EXCEPT ![h] = Nothing]
    /\ own' = [own EXCEPT ![h] = Nothing]
    /\ disturbed' = [disturbed EXCEPT ![h] = FALSE]
    /\ UNCHANGED <<name, fd>>
    /\ Keeping(content)

\* LOGIN_FAILED, exit.
Refuse(h) ==
    /\ pc[h] = "answered"
    /\ query[h].kind = "login"
    /\ ~IsValid(h)
    /\ Exit(h)
    /\ UNCHANGED <<tables, up, restarts, proven>>

\* LOGIN_OK, then one of the commands that go to the users table through
\* give_sql, which does not use the shared file.
AddUser(h, u, p) ==
    /\ LoggedIn(h)
    /\ "ADD_USER" \in Commands
    /\ pw' = Inserted(u, p)
    /\ Exit(h)
    /\ UNCHANGED <<meta, up, restarts, proven>>

UpdateUser(h, u, p) ==
    /\ LoggedIn(h)
    /\ "UPDATE_USER" \in Commands
    /\ pw' = IF pw[u] = Nothing THEN pw ELSE [pw EXCEPT ![u] = p]
    /\ Exit(h)
    /\ UNCHANGED <<meta, up, restarts, proven>>

DeleteUser(h, u) ==
    /\ LoggedIn(h)
    /\ "DELETE_USER" \in Commands
    /\ pw' = [pw EXCEPT ![u] = Nothing]
    /\ Exit(h)
    /\ UNCHANGED <<meta, up, restarts, proven>>

\* STREAM_GENRE asks for a file of the genre over the same channel.
StreamGenre(h) ==
    /\ LoggedIn(h)
    /\ "STREAM_GENRE" \in Commands
    /\ pc' = [pc EXCEPT ![h] = "ask"]
    /\ query' = [query EXCEPT ![h] = [kind |-> "genre"]]
    /\ val' = [val EXCEPT ![h] = Nothing]
    /\ own' = [own EXCEPT ![h] = Nothing]
    /\ disturbed' = [disturbed EXCEPT ![h] = FALSE]
    /\ UNCHANGED <<tables, files, map, fd, up, restarts, proven>>

\* The file of val is copied, or there was no row: exit either way.
StreamDone(h) ==
    /\ pc[h] = "answered"
    /\ query[h].kind = "genre"
    /\ Exit(h)
    /\ UNCHANGED <<tables, up, restarts, proven>>

\* A transfer, a command about files, or a client that hangs up.
OtherCommand(h) ==
    /\ LoggedIn(h)
    /\ "other" \in Commands
    /\ Exit(h)
    /\ UNCHANGED <<tables, up, restarts, proven>>

Handler(h) ==
    \/ Ask(h)
    \/ Refuse(h)
    \/ \E u \in Users, p \in Passwords : AddUser(h, u, p) \/ UpdateUser(h, u, p)
    \/ \E u \in Users : DeleteUser(h, u)
    \/ StreamGenre(h) \/ StreamDone(h) \/ OtherCommand(h)

-----------------------------------------------------------------------------
(* run_server_get after an upload to the admin space *)

UploadStarts(w) ==
    /\ up[w] = "saved"
    /\ StartSql
    /\ up' = [up EXCEPT ![w] = "started"]
    /\ Watch(Nothing, FALSE)
    /\ UNCHANGED <<tables, askers, restarts, own, proven>>

UploadInserts(w) ==
    /\ up[w] = "started"
    /\ meta' = meta \cup {w}
    /\ up' = [up EXCEPT ![w] = "inserted"]
    /\ UNCHANGED <<pw, files, askers, restarts, ghosts>>

UploadEnds(w) ==
    /\ up[w] = "inserted"
    /\ EndSql
    /\ up' = [up EXCEPT ![w] = "saved"]
    /\ UNCHANGED <<tables, askers, restarts, ghosts>>
    /\ Keeping(content)

Uploader(w) == UploadStarts(w) \/ UploadInserts(w) \/ UploadEnds(w)

-----------------------------------------------------------------------------
Server == Ask(Main) \/ Start \/ SeedAndListen

Next ==
    \/ Server \/ BindFails \/ Die
    \/ \E h \in Handlers :
        \/ Handler(h)
        \/ \E u \in Users, p \in Passwords : Accept(h, u, p)
    \/ \E w \in Uploaders : Uploader(w)

Spec == Init /\ [][Next]_vars

\* Processes that run keep running; nobody has to connect, upload or die.
FairSpec ==
    /\ Spec
    /\ WF_vars(Server)
    /\ \A h \in Handlers : WF_vars(Handler(h))

-----------------------------------------------------------------------------
(* Properties *)

\* Overlapping queries and a lost name are the ONLY ways to a wrong answer:
\* an asker whose mapping shows the named file when its shell opens it, and
\* whose file nobody else touches until it has read it, reads the answer of
\* its own query; and it is killed by SIGBUS exactly when that has no row.
UndisturbedAnswer ==
    \A p \in Asker : ~disturbed[p] =>
        /\ pc[p] = "answered" => val[p] = own[p] /\ own[p] # Nothing
        /\ pc[p] = "silent" => own[p] = Nothing

\* Whatever overlaps or is stale, LOGIN_OK is only sent for a user whom some
\* login query has found: no interference makes a name up.
OnlyFoundUsersLogIn ==
    \A h \in Handlers : LoggedIn(h) => query[h].user \in proven

\* strt's loop gets the server back to listening, though handlers of the
\* dead server may kill its seed query or feed it their rows.
ServerComesBack == pc[Main] = "down" ~> pc[Main] = "listening"

\* Check.sql:1-4 says a login is "select * from users where
\* password=sent_password and username=sent_username": whoever sends the
\* name and password of a row is let in.
MatchingLoginAccepted ==
    \A h \in Handlers :
        pc[h] = "answered" /\ query[h].kind = "login" /\ own[h] = query[h].user
            => IsValid(h)

\* server_test.c:62 ("2. Read login response") and every other client wait
\* for a response line to each login: no handler leaves without one.
EveryLoginAnswered ==
    \A h \in Handlers : pc[h] = "silent" => query[h].kind # "login"

=============================================================================
