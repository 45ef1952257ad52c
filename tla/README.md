# TLA+ models of the file-sharing system

This directory models the C/C++ file-sharing system of the repository: a
server that stores files for users and for an "admin space", the clients that
upload and fetch them, and the small shared-memory libraries underneath. The
reference is the code under `src/`, in particular `src/pack/`, which is the
deployed generation; `src/include/` holds the same headers, `src/src/` an
earlier generation of the programs.

Contents: [system](#1-the-system), [modules](#2-modules),
[runs](#3-runs-and-what-they-show), [fairness](#4-fairness),
[proofs](#5-proofs), [findings](#6-findings),
[not modelled](#7-what-is-not-modelled), [plan](#8-plan).

## 1. The system

### Components

| component | code | state it keeps | operations |
|---|---|---|---|
| control session | `init_server.c`, `sender.c`, `receive.c`, `client.c`, `server_api.c`, `strt.c` | one handler process per client, a control connection, a transfer port and a data connection | login, one command, TRANSFER_PORT, accept, fork and exec of the transfer program, waitpid; the server is restarted by `strt` |
| SQL channel | `network.h` as `init_server.c` and `run_server_get.c` use it | the shared-memory file `/dev/shm/21`, one mapping per process, the tables `users` and `file_metadata` | `start_sql`, `ask_sql`, `give_sql`, `end_sql` |
| mailbox transfer | `run_server_get.c`, `run_server_send.c`, `sender.c`, `receive.c`, `client.c` | `storage/users/<name>`, the data stream | upload, sync (send and unlink every file), ADD_USER's mkdir, DELETE_USER's rmdir, DELETE_FILE, DELETE_ALL_USER |
| admin space | `run_server_get.c`, `init_server.c` | `storage/admin`, `file_metadata` | upload and insert, DELETE_FILE, DELETE_ALL_USER admin, STREAM_GENRE |
| download byte queue | `memory.h`, `downloads.h` | a ring of 1024 bytes in shared memory, two bounds, a mutex and a named semaphore | `read_space`, `write_space`, `read_to_quee`, `read_from_donwloads`, `write_from_downloads` |
| shared-memory registry | `memory.h` | a linked list of mapped records per process | `creat_space`, `close_space`, `unlink_one`, `find_space`, ... |
| ownership table | `buffer.h` | the owner of each pack of data, in shared memory | `add_validity`, `validity`, `revalidate`, reads and writes |
| process table | `process.h` | a linked list of children, an image of it in shared memory | `process_create`, `process_kill`, `shutdown`, `update`, ... |
| promise list | `threadpool.h` | a linked list of running threads | `async`, `await` |
| download records | `downloads.h` | the file `records`, a request word in shared memory | `push_download`, `pop_download`, `close_download`, `get_data`, `download_handle` |
| web front ends | `webui.py`, `bridge.js`, `server_api.c` | a CLI process per session on a pseudo-terminal, its user, two locks, staged uploads | login, sign-up, commands, uploads, logout |
| socket wrapper | `internet.h` | a socket, a local file | `put_file`, `get_file` |
| stream recorder | `vid.h` | a thread that reads the ring | `run` |

### How they interact

A client connects to port 8012. The server's `main` forks a handler, which
reads a name and a password and asks psql for the row. psql is started by a
shell whose output is redirected into `/dev/shm/21`; every process of the
server has that file mapped, and the handler reads the answer from the
mapping. After `LOGIN_OK` the handler reads one command. Account and deletion
commands are answered with one line. For PUT and GET the handler opens a
listener on a free port, announces it, accepts one connection and execs
`run_server_get` or `run_server_send` with the connection as standard input
and output. The client has closed the control connection by then.

`run_server_get` writes what it reads to a file: in a mailbox, under the name
the sender gave, or in the admin space, under `<sender>_<second>`, followed by
a row in `file_metadata`, for which it maps and afterwards unlinks
`/dev/shm/21` itself. `run_server_send` lists a mailbox and sends every file
as name, size and payload, unlinks it, and ends with a line `EOF`.

No component locks anything that another process uses, but for the byte
queue. What keeps the system together is the order of calls, and that is what
the models are about.

The library headers are used one at a time: registry, ownership table, process
table, promise list, records file and socket wrapper share no state. The word
in shared memory 0 connects `downloads.h` with a JVM that is not in the
repository. `webui.py` is the browser's way to `server_api`: a thread per
request writes menu lines to the session's process and reads its terminal.

### What is hard, and what makes each part correct

- *Byte queue*: two threads on shared bounds, a full and an empty test that
  is off by one. Correct if the reader gets the file's bytes in order and is
  not stuck.
- *SQL channel*: overlapping queries share one file; `end_sql` unlinks it
  under everybody; an empty answer leaves a mapping without pages. Correct if
  an undisturbed query reads its own answer, and no disturbance lets a
  stranger in.
- *Mailbox*: uploads, syncs and deletions of one name interleave between
  listing, stat, open, read and unlink; the stream carries sizes that were
  true earlier. Correct if no complete upload vanishes and the receiver keeps
  its place in the stream.
- *Admin space*: a directory and a table change one after the other, in two
  orders. Correct if rows and files belong together and a genre is what it
  says.
- *Control session*: two parties alternate over two connections, either may
  die, the server may restart. Correct if nobody waits for one who waits, and
  all come to an end.
- *Linked lists* (registry, processes, promises): sequences of legal calls
  that leave a pointer to a freed node. Correct if what was put in is found
  until it is taken out.
- *Ownership table*: a shared counter read twice without a lock. Correct if an
  index has one owner.
- *Records file*: it survives crashes, and closing an entry moves it away and
  copies it back. Correct if what was pushed is there until it is closed.
- *Request word*: one word for two directions. Correct if the data is of the
  file it was asked for.
- *Socket wrapper*: sizes announced before the bytes, broken connections, one
  file after the other. Correct if the n-th file received is the n-th sent.
- *Web front ends*: a pause taken for the end of an answer, a program that
  dies under a request, files of one name from two browsers. Correct if
  commands run as the user shown, with their own files and answers, and every
  request is answered.

## 2. Modules

    LaggedStream   <-- implemented by --  DownloadRing    DownloadRing_proofs
    SqlChannel     <-- MCSqlChannel                       SqlChannel_proofs
    Mailbox        <-- MCMailbox                          Mailbox_proofs
    AdminSpace     <-- MCAdminSpace                       AdminSpace_proofs
    Session                                               Session_proofs
    WebStage                                              WebStage_proofs
    LinkedList  <-- SpaceList, PromiseList, ProcessTable
    MCLibraries <-- SpaceList, PromiseList, ProcessTable  Lists_proofs
                <-- OwnerTable, DownloadQueue,              <-- Libraries_proofs
                    DownloadHandshake, SocketFile

`Session` gives every login any outcome; what a login's outcome is, is
`SqlChannel`'s subject. `Session` and `Mailbox` meet at the data connection:
`Session` ends where the transfer program starts to read or write, `Mailbox`
starts there. `AdminSpace` and `SqlChannel` meet at `give_sql`: the first sees
a row come, the second how the statement gets to psql.

**DownloadRing** has one action per step of a critical section: taking mutex
and semaphore (one lock, `lock`), touching the slot, publishing the bound and
releasing. Byte *k* of the file is the number *k*. `read_to_quee`'s refusal,
its `fseek`, the sleeps and the end of the file are actions of their own.
**LaggedStream** is what the queue promises to somebody who knows neither
slots nor bounds: a byte stream, one byte behind, with at most `Size - 1` bytes
waiting, and with `Size` unwritten bytes in front when the reader came first.

**SqlChannel** keeps the inode that `/dev/shm/21` denotes (`name`), the inode
of each process's mapping (`map`) and of each psql's standard output (`fd`),
and what each inode holds (`content`). `ask_sql` is four steps: the shell opens
and truncates the file (`ShellTruncates`), psql answers from the tables and
writes (`PsqlWrites`), `ask_sql` scans the mapping for its size (`Scan`) and
copies the rows (`Copy`); touching a mapping whose file is empty is `Sigbus`. `own`,
`disturbed` and `proven` are history: the answer a query should read, whether
anybody interfered with it, and whom a login query ever found.

**Mailbox** follows an upload through `PutMkdir`, `PutOpen`, `PutRead`,
`PutClose` and a sync through `GetOpendir`, then for each name `GetStat`,
`GetSkip`, `GetOpen`, `GetSend`, `GetCloseFile`, `GetUnlink`, and `GetEof`.
Directory entries point to inodes, so that a writer goes on after its entry
was unlinked or its file truncated. The stream consists of headers, payload
units and the end marker; the receiver counts units as `receive.c` counts
bytes. `excused` and `tangled` are history: uploads whose loss has one of the
listed causes, syncs whose announced size came out wrong.

**AdminSpace** follows an upload through open, write, close and insert, a
deletion through unlink and delete, for one file or for all, and STREAM_GENRE
through lookup, open and copy. `late` and `overlaps` are history: rows that
came after their file had gone, and rows that came during a deletion.

**Session** follows a client, its handler and the handler's child line by
line. What a command is about is reduced to what the control flow tells apart
(`Wants`).

**LinkedList** is a heap: a link for each address, kept when the node is freed,
and the way from a head. **SpaceList**, **PromiseList** and **ProcessTable**
are the three lists over it, one action per call; `crashed` says that a call
followed NULL or freed a node twice. What the calls break is history that the
properties name: `astray` in the registry (a creation after the last record was
closed), `overtaken` and `reused` in the promise list (out of reverse order, or
`async` after `await`), `alone`, `stale` and `missed` in the process table.
`process_kill` of a dead child, a fork that fails and a call to `update` while
children end are actions; `shutdown_dead` and `update` are split where the
code waits or another process can look. `image` is the set of the files that a
reader of the table's image may find: none before the first `update`, one with
entries after that.

**OwnerTable** has a step for each access of `add_validity` to the shared
counter. `orderly` ends at the first call outside the order that
`OwnsItsSlot` describes; nothing is promised after that, so `Next` stops there.

**DownloadQueue** has names, inodes and open files, because `close_download`
moves `records` away under the feet of a push that has it open. Any process may
die at any step and come back. `torn` is history: the calls that lose lines.

**DownloadHandshake** is the C program's `get_data`, `listen_downloads`,
`download_handle` and `begin_state` against the JVM, one step per access to
the word, the name and the data. The JVM is external: it does what the comment
at `downloads.h:272` and the C program's reads require.

**SocketFile** counts units of payload; a size is an entry of the stream like
any other, so that a receiver out of step takes payload for a size. The local
file may be cut during a send, the connection may break with any part of the
stream lost.

**WebStage** has a session's `server_api` with its menus (`Program`), its
terminal as two queues of lines, and a request as `webui.py` runs it: stage,
lock, start the program when it is gone, write the lines, read until a prompt
or a timeout, unlock, restore the user's file. Output lines carry the request
whose input caused them; `asked`, `ran` and `sent` record for whom and with
which file a command ran. `lagged` says that some read ended by a timeout before
its program was through.

Operators named in a comment that begins with *Bug:* are variants of the
definition that follows them, the kind of mistake the properties are there to
catch; no specification uses them.

The field `map` of `PROJECT.json` names, for every definition, the lines of
the code it stands for.

## 3. Runs, and what they show

| run | instance | states | checks |
|---|---|---|---|
| `ring` | 4 slots, 6 bytes | small | `TypeOK`, `InOrder`, `KeepsOneBack`, refinement of `LaggedStream`, `AllButLast` |
| `sql` | 2 handlers, 2 users, 2 passwords, 1 restart | 624k | `TypeOK`, `UndisturbedAnswer`, `OnlyFoundUsersLogIn` |
| `sql_upload` | 1 handler, 1 upload, 1 restart | 376k | `UndisturbedAnswer`, `ServerComesBack` |
| `sql_stale` | 1 handler, 1 upload | | shows `MatchingLoginAccepted` violated |
| `sql_no_row` | 1 handler | | shows `EveryLoginAnswered` violated |
| `mailbox` | 2 names, 2 uploads of 2 units, 1 sync, administrator | 2.3M | `TypeOK`, `Conserved`, `FramedUnlessTangled` |
| `mailbox_ends` | 1 name, 1 upload of 1 unit, 2 syncs, administrator | 148k | `Conserved`, `SyncEnds` |
| `mailbox_claim` | 1 upload, 1 sync | | shows `ClaimedIsDelivered` violated |
| `admin_space` | 2 senders, 2 genres, 2 uploads, 1 administrator, 1 stream, 2 seconds | 1.1M | `TypeOK`, `RowsHaveFiles`, `FilesHaveRows`, `StreamedGenre` |
| `session` | 2 clients, any command each, restarts | 143k | `TypeOK`, `NoMutualWait`, `ClaimsAreStored`, `HandlerEnds`, `ClientEnds` |
| `libraries` | each library header on its own | 618k | `TypesOK`, `RegistryIsExact`, `AwaitJoins`, `TableIsWhole`, `SignalsAreAimed`, `ImageIsTable`, `OwnsItsSlot`, `RecordsKept`, `ReceivedInStep`, `DataForName` |
| `web` | 2 requests of 1 or 2 sessions, 2 users, a newcomer | 148k | `TypeOK`, `RanAsShown`, `SentIsStaged`, `AnswerIsOwn`, `UsersFileKept`, `Answered` |

What they say of the code:

- The locked queue never tears, loses or repeats a byte under any schedule of
  the two threads, but its last byte stays in it, and a reader that comes
  before the first byte reads a whole lap of bytes nobody wrote.
- An SQL answer is wrong only if another query overlapped or the file was
  unlinked in the meantime. Both happen in operation: every upload to the
  admin space unlinks it. Even then nobody logs in whom no query ever found.
  The restart loop gets a server up again although handlers of the dead one
  are still at the shared file.
- A complete upload is lost only in the ways that `Conserved` lists; each of
  them is a definite line of the code (`DeleteFile`, an upload under the same
  name, a sync that saw it unfinished, a receiver that was gone). Every sync
  ends, also one whose receiver was promised more than comes.
- A row without its file, and a file without its row, come about only by a
  deletion and an upload that overlap. A streamed file has the genre asked
  for, unless two uploads of a sender fell into one second.
- Client and server never wait for each other, in whatever order they die; the
  one handler that stays is that of a client that died between reading the port
  and connecting to it, because `accept` has no limit.
- The registry is right through any calls but a creation after the last record
  was closed, promises when awaited from the last to the first, the process
  table but for a shutdown of its only entry. No call that waits for the dead
  signals the living; `process_kill` may report a signal that the running
  process never got, when an older entry of its program stays in front.
- The ownership table gives every index to one process if nobody else is in
  `add_validity` or `generate_system` at the time. Death and unlinking in
  between do no harm.
- A records file survives any overlap of pushes to it and any death outside
  `close_download`; a closing that overlaps or dies, and two first pushes, lose
  lines.
- The word hands out the data of the right file but for two crossings of
  `get_data` with the JVM's reads and posts.
- A broken connection harms the file under way only, and `get_file` says so;
  a file that gets shorter during `put_file` shifts all that follow it.
- The web front end keeps users, files and answers apart across two sessions,
  tabs of one session, dying programs and Ctrl-C, as long as no read ends
  before its program is through. The user's own file survives even that, and
  every request is answered.

### Bounds, and why they are enough

- Ring: six bytes through four slots wrap the ring, fill it and empty it at
  each offset; the theorems hold for every size and length.
- SQL: what goes wrong needs two parties at the file, a query and one who
  truncates, writes or unlinks. Two handlers and the server's seed query, or a
  handler, an upload and the seed query, give three. `MCInodes` has one inode
  more than can be referenced at once, so running out of them never prevents a
  step. `MaxRestarts` is one: a restart forgets the old server's state, and a
  second one starts from the same kind of state.
- Mailbox: `MCInodes` is one inode more than entries and open files together.
  `Size` 2 is the least at which a file can be caught half written,
  and two names are the least at which the end marker can be confused with a
  file while another follows. Two uploads can share a name, two syncs a file;
  both pairs together are beyond the time a run may take, so they are two runs.
- Admin space: two seconds are the least at which names can differ by time,
  two uploads the least that can collide; the theorems hold for any number.
- Session: clients share only `main`, so two show whether one client's death
  or the restart reaches another.

- Libraries: `MCLibraries` chooses one library initially (`which`), so the run
  searches the sum of their state spaces. Three addresses and numbers are the
  least with a first, a middle and a last node; a fourth promise has to take a
  freed node; three children are two of one program and one of another. Two
  processes and four cells are two owners and one index past the table. Two
  clients and two names make every pair of calls on the records file meet,
  `MaxLines` is the number of names. Two files of up to two units are the least
  after which a shift of one shows in the next. `update` is called once: a
  second call writes where its reader does not look.
- Web: two requests are two tabs or two browsers. Requests of different
  sessions meet at staging only, so they are sends; requests of one session
  are of all kinds. After `lagged` no new request comes: the properties but
  for `UsersFileKept` and `Answered` say nothing then. A timeout may end a read
  while the program waits for the server, is gone, or has read all its input.

Symmetry is used for slots of uploads, syncs and handlers, for genres and for
names, in runs without temporal properties only. In `libraries` kinds of
values that never occur in the same library (addresses, numbers and inodes; names,
clients and tables) share model values, so that one set of permutations serves
all. Deadlock is checked in the `ring` and the SQL runs; the others end when
every process is through, the libraries also when the program is aborted.

## 4. Fairness

- *Ring*: both threads keep running, weakly fair. The two lock steps are
  strongly fair: a thread that is refused sleeps 10 ms with both locks
  released, so a waiting one is not passed over for ever. `AllButLast` rests on
  that.
- *SQL*: the server and its handlers keep running once started. Nobody has to
  connect, upload or die. `ServerComesBack` needs no fairness of handlers that
  the dead server left, other than that they finish.
- *Mailbox*: a sync that has started and its receiver keep running; uploads
  and administrators do as they like, also stop in the middle.
- *Session*: weak fairness for each client, handler, child and for `main`
  while it runs. Connecting, dying and restarting are never forced, so a server
  that stays down is covered.
- *Web*: weak fairness for each request's thread and for each program's
  menus: threads run, a program takes its lines, a read ends after 60 s at the
  latest. Nothing is assumed of the server behind `server_api` or of its child
  `./sender`, and the program may end at any point.

## 5. Proofs

TLAPS checks the eight modules `*_proofs`, for all values of the constants under
the assumptions stated in the modules. Each safety property that a run checks,
and each type invariant, is a theorem, and so is the refinement of
`LaggedStream`. The assumptions:

- `DownloadRing`: at least two slots (`SizeAssumption`) and a file length in Nat.
- `AdminSpace`: a clock that ends in Nat, and `Nothing` and the empty block
  different from every upload.
- `SqlChannel`: finitely many handlers and more inodes than names, mappings and
  descriptors can refer to (`InodesAssumption`), and names of users and files
  different from what marks an empty file (`NamesAssumption`).
- `Mailbox`: files of at least one unit, finitely many names, uploads and
  syncs, and again more inodes than references.
- `Session`: none, any set of clients.
- `WebStage`: numbers of sessions and requests in Nat (`BoundsAssumption`), the
  users there are before the first sign-up are users and `None` is none
  (`UsersAssumption`).
- The libraries: `NULL` is no address and addresses are finitely many
  (`NullIsNoAddress`); processes are numbered above the cells of the ownership
  table, and `NoTable` and `Unmapped` are no tables; numbers of promises, files,
  units and lines in Nat (`PromisesBound`, `FileBounds`, `LinesBound`); numbers of
  processes are positive, as fork returns them (`PidsArePositive`); no file is
  the inode `None` (`NoneIsNoInode`); and the content of a freed record is taken
  for no number of a record (`JunkIsNoNumber`). `DownloadHandshake` needs none.

**DownloadRing_proofs.** `InOrder` says what was returned, nothing of what is
in the slots, so it is not inductive. The invariant adds where things are:
`Locking` (who is inside a critical section holds the lock), `Counting` (the
two bounds are the counts of stored and returned bytes modulo `Size`), `Blank`
(before the first byte everything is unwritten), `Window` (the slots between
the bounds hold the next bytes in order), `Midway` (what a thread has read or
stored and not yet published). From it follow `TypeCorrect`, `Fifo` (InOrder),
`LastByteStays` (KeepsOneBack) and `Refinement`: every step of the locked ring
is a step of `LaggedStream` or leaves it alone.

**AdminSpace_proofs.** `TypeOK` alone is not inductive: an insertion uses the
name an upload computed earlier. `Known` says what each party knows of names:
an upload writes to an inode that was made under its name (`UploadsKnow`), a
directory entry points to such an inode (`EntriesKnow`), an inode holds what an
upload to it wrote (`DataKnow`), a row describes its upload (`RowsKnow`), a
stream goes by the name and genre of some upload (`StreamsKnow`). Names are
computed once, so all of it survives deletions (`UploadKeeps`, `LessKnown`).
`RowsHaveFiles` is inductive together with it. `FilesHaveRows` needs
`DeletionsKnow`: a deletion that started after a row was inserted has
unlinked the file or has it on its list; that the slot of a later upload is
never the inode of an earlier one makes it stay true when a name is used
again. `StreamedGenre` follows from `Known` alone: stream, row and content go
by the same name, and a name belongs to one upload unless two collide.

**Session_proofs.** `NoMutualWait` is a statement about two program counters and
two queues, so the invariant says for each point of the client where the handler
can be and what is under way (`LoggingIn`, `Commanding`, `Transferring`), what
the client is there for (`Purpose`), how handler and child belong together
(`Serving`) and what a child has done (`Storing`). It is about one client at a
time: a step of another client leaves all of it alone (`OthersSame`), and
`main`'s death and restart are steps of all clients at once (`MainGood`).

**SqlChannel_proofs.** Everybody who asks has a mapping (`Mapped`) and a
question, and its psql writes to an inode that exists (`Asks`); as long as
nobody interferes, psql's output and the asker's mapping are one inode, and its
content is what the steps of the query so far left there (`Fresh`). For logins
a weaker fact survives any interference: a user in any file, and a user that
any process copied from one, was once the answer to a login query (`Found`);
what truncates, unlinks or overwrites only moves such answers about. From them
follow `TypeCorrect`, `AnswersAreOwn` (UndisturbedAnswer) and `NoStrangers`
(OnlyFoundUsersLogIn). That a new file finds a free inode is a counting
argument over names, mappings and descriptors.

**Mailbox_proofs.** What the receiver does with the stream depends on where it
thinks it is in it. `Fits` says of a place in the stream that the units announced
there follow it, that then no unit follows, and that what is missing at the end
is what the sync has announced and not sent (`Rest`); `FramedSeq` says it of
the receiver's place and of every header under way. Sending and taking each kind
of token preserve it (`AppendUnit`, `AppendOther`, `TakeHeader`, `TakeUnit`)
unless the sync becomes tangled. From it follows `KeepsItsPlace`
(FramedUnlessTangled): a receiver between files never finds a unit. The proof of
`TypeCorrect` counts inodes as in the SQL channel and shows that a block
written past the end of a truncated file leaves a file within the size
(`WrittenTypes`).

Its last part is about `Conserved`, which says that a complete upload is
somewhere, not where, and a sync between its header and its deletion has it in
two places, in one of them in part. The invariant `KInv`, on top of `IInv`, says
where. While p is written, nobody else writes to its inode and no sync has
looked at its name (`Alone`): whoever breaks this excuses p. Once p is closed it
is `Kept`: whole under its name with every sync that has looked at the name
following it (`InMailbox`, `Follows`), or whole in a stream (`OnItsWay`), or
saved. A sync that `Follows` has announced the full size, reads p's own inode,
has sent exactly its offset in units of p and comes to the deletion only with
all of them sent. To hold for a receiver this has to be a statement about the
place in the stream: `Ahead`, a header of p's size which the receiver, counting
from what it still expects, comes to between two files, and units of p behind
it; or `Inside`, the receiver past that header with a prefix of p in its file.
The lemmas before the state show that appending a token and taking one preserve
both; that the header lands in such a place is `PlaceOf`. The steps that lose p
are then the ones that excuse it, one by one.

**WebStage_proofs.** The invariant has three layers, by how much must have gone
well. `Types` and `UsersFileKept` hold always. Until Ctrl-C (`stopped`) the two
locks and the stage do their work (`Staging`, `Locking`): the one request that
has a file staged has its own under the name, and the user's file is set aside
exactly when there was one. Until a read ends early (`lagged`) each session is
in step with its program (`Sessioned`): when nobody holds its lock, the program
waits at a menu with nothing to read and nothing unread (`Quiet`) and serves the
user the browser shows (`Settled`); and for the request that holds it (`Held`)
the invariant says, for the k-th of its lines, what the program is at
(`Stands`), and that a read is before the answer (`Waiting`), in it (`Working`),
behind it (`Through`) or at the end of a program that died (`Died`). `Done`
collects what commands have run, sent and printed so far. A session's part only
depends on its own state and that of its requests (`SameRequest`,
`SameSession`), so a step of another session is dealt with once. From it follow
`CommandsRunAsShown`, `SendsAreStaged`, `AnswersAreOwn`, and, from the outer
layers, `OwnFilesAreKept` and `TypeCorrect`.

**Lists_proofs.** The three lists are described by the sequence w of their
nodes: `IsChain` says that no node occurs twice and each leads to the next. Two
things are shown once for all of them. The recursive function `Walk` returns
just that sequence (`WalkIsChain`), by induction over the numbers, which the
library's well-foundedness of `<` gives for a set of them (`Least`,
`AllNumbers`). And the assignments of an insertion at the end or of taking out
a node lead to a list that is longer or shorter by that node (`NodeAtTheEnd`,
`NodeTakenOut`). Then each library has an invariant that says there is such a w:

- `SpaceIInv`: as long as no call has faulted and nothing was linked behind a
  freed node, either the nodes are allocated, carry the numbers that are open,
  each once, and `records` denotes the last or a freed one (`InUse`), or all of
  them were freed and left in place (`Cleared`). The second case is the one a
  creation gets `astray` in.
- `PromiseIInv`: until `overtaken` or `reused`, the p-th node is that of the
  p-th promise, and those not awaited are allocated (`Lined`), so `await` gets
  to it.
- `TableIInv`: entries hold different processes, namely those born and not
  taken out, and an entry whose process is somebody else's or was waited for has
  a stale name (`Whole`). The exceptions are part of it: after a failed fork
  without entries a freed node with nobody to signal (`Forkless`), after a
  shutdown of a single entry only its tail (`alone`). While `shutdown_dead` is on
  its way, those before its entry were waited for (`Visiting`); while `update` is,
  the file has the lines of the entries before its own (`Writing`). The first is
  why nobody alive is signalled, also when an earlier entry of the same name is
  taken out instead.

**Libraries_proofs.** The other four libraries, and the theorems about all
seven:

- The ownership table: there is one table and whoever maps one maps it
  (`OneTable`), an index somebody holds is below the counter and shows its
  holder (`Owned`), and the one process inside `add_validity` has read the
  counter that is still there (`UnderWay`). The last is what two overlapping
  calls break.
- The records: whoever makes or rewrites them meets no other call (`Alone`), a
  push writes into the file that is the records (`Pushing`), what is in it is
  what is wanted when nobody rewrites it (`Quiet`), and on the way of a close
  without its name, in one of the two files (`Rewriting`). That the loop of
  `close_download` keeps just the other names is an induction again (`KeptLines`).
- The files of a connection: units in the stream follow each other without a
  gap, from the one `get_file` expects to the one `put_file` sends next
  (`InOrder`), and what was written is the front of its file (`Written`). It
  says nothing of how much is in the stream, so that a break at any unit
  keeps it.
- The request word: the word is 25 and the name is the program's while it spins
  (`Waiting`), what the JVM has read is that name, and the data it wrote is of
  it (`Answered`), and a name under way to `listen_downloads` is posted
  (`Posting`). They hold until `crossed`.

A behaviour of `MCLibraries` is one of a single library, so its part is invariant
by the library's own lemma and the others do not apply (`QueuePart`, ...).

**Only model-checked.** The liveness properties (`AllButLast`,
`ServerComesBack`, `SyncEnds`, `HandlerEnds`, `ClientEnds`, `Answered`): temporal
properties under fairness and ENABLED are beyond the prover's backends. The
library's own induction theorems, which take an operator, are too; the proofs
use induction over sets of numbers instead, and no proved module uses RECURSIVE
operators. The three violated claims of section 6 are TLC's.

## 6. Findings

Three runs exhibit disagreements between the code and what a comment, a test
or the documentation says; the field `findings` of `PROJECT.json` quotes the
lines.

- `sql_stale`: after one upload to the admin space, logins are answered from a
  stale file (run_server_get.c:90).
- `sql_no_row`: a login without a matching row kills the handler by SIGBUS
  before it answers (network.h:63).
- `mailbox_claim`: a sync during an upload deletes the file that the sender
  then reports as delivered (run_server_send.c:75).

Other conduct that the models exhibit and no text contradicts: `read_space`
hands out bytes nobody wrote when nothing has been stored yet (memory.h:122;
`LaggedStream` counts them), and an upload to the admin space that is cut short
gets a row like a whole one (run_server_get.c:68).

## 7. What is not modelled

- Byte content, buffering and lengths of lines: a command fits its buffer, a
  block of payload is a value. How `sanitize_input` and `trim_string` change
  a name is left out; names are values. `server_api`'s menu takes a line longer
  than seven characters in pieces (`fgets(choice, 8)`); `webui.py` writes such
  lines at that menu only after a read that ended early.
- psql, the shell and the JVM are external, modelled from how the headers use
  them: the redirection truncates, psql writes rows, the database itself is
  atomic per statement.
- A killed handler: `Session` lets clients and `main` die and `db_check_user`
  not come back, `AdminSpace` lets uploads and deletions be killed.
- A second owner of a mailbox name: rmdir leaves a mailbox with files in it, and
  who is added again under the name gets them (init_server.c:211).
- `data_pack` in `buffer.h`: a template whose constructor cannot be called,
  since its second parameter appears in no argument; nothing of it is ever
  compiled.
- `vid.h`: `run` destroys the object of a thread it neither joined nor
  detached, which ends the program by `std::terminate`, so there is no state
  after the start of a recording.
- `update` called twice on a process table: the second call maps a new file and
  its reader stays at the old one.
- `bridge.js`, and downloads of registered files through `webui.py`: they read
  or forward, and keep nothing.
- The earlier generation in `src/src/` (no size headers, no unlink after a
  failed write): superseded by `pack/`. The headers in `pack/` and `include/`
  are the same.
- `tes.c`, `compile.c`, `logs.h`, `extract_numbers`, `inp_float`, pages, styles,
  the benchmark and its results, data files: formatting, presentation and
  measurement.

## 8. Plan

Done, in this order: the byte queue and its promise, the SQL channel, the
mailbox, the admin space, the control session; the library headers side by
side; the web front end; proofs of the queue, the admin space, the control
session, the SQL channel, the mailbox's stream and what it keeps, the web front
end, and all seven libraries.

Open, most important first:

1. `Mailbox`: an abstract specification of a mailbox (a bag of whole files)
   that it implements as long as nothing is excused, and a second owner of a
   name.
2. Action properties of the SQL channel and the session that say what a single
   step may never do, from the invariants there are.
