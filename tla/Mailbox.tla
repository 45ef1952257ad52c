------------------------------ MODULE Mailbox ------------------------------
(***************************************************************************)
(* A user's directory on the server, storage/users/<name>, as the place    *)
(* where uploads (sender.c, run_server_get.c) wait for the user's next     *)
(* sync (run_server_send.c, receive.c).  Uploads, syncs and administration *)
(* are separate processes that meet only in the file system: nothing locks *)
(* a file, and a sync deletes what it has sent.                            *)
(*                                                                         *)
(* A file is a sequence of units: unit p is a block of the upload p, Hole  *)
(* a block of zeros that a write past the end leaves.  The stream to the   *)
(* receiver is a sequence of tokens: a header line pair, a unit, or the    *)
(* EOF line; a header counts as one unit where it is read as payload.      *)
(***************************************************************************)
EXTENDS Naturals, Sequences, FiniteSets, SequencesExt

CONSTANTS
    Names,    \* remote file names
    Puts,     \* uploads to this user
    Gets,     \* syncs of this user
    Size,     \* units of every uploaded file
    Inodes,   \* inodes for the files of the directory
    AdminActs,\* whether an administrator deletes files and the user
    EofName,  \* the file name that reads like the EOF line, or Nothing
    Hole,     \* a block nobody wrote
    Nothing   \* no inode, no name

ASSUME SizeAssumption == Size \in Nat \ {0}
ASSUME IdsAssumption ==
    /\ AdminActs \in BOOLEAN
    /\ Hole \notin Puts
    /\ Nothing \notin Inodes \cup Names
    /\ EofName \in Names \cup {Nothing}
ASSUME InodesAssumption ==
    /\ IsFiniteSet(Names) /\ IsFiniteSet(Puts) /\ IsFiniteSet(Gets)
    /\ IsFiniteSet(Inodes)
    /\ Cardinality(Inodes) > Cardinality(Names) + Cardinality(Puts) + Cardinality(Gets)

VARIABLES
    dir,      \* whether the user's directory exists
    entry,    \* the inode of each name in the directory
    bytes,    \* the content of each inode
    put,      \* the uploads: run_server_get and its sender
    get,      \* the syncs: run_server_send
    wire,     \* the data connection from each sync to its receiver
    rcv,      \* the receivers
    saved,    \* history: contents receivers have saved as files
    excused,  \* history: uploads something else than a sync interfered with
    tangled   \* history: syncs whose receiver may have lost its place

vars == <<dir, entry, bytes, put, get, wire, rcv, saved, excused, tangled>>

-----------------------------------------------------------------------------
Header(n, s) == [type |-> "header", name |-> n, size |-> s]
Unit(u)      == [type |-> "unit", of |-> u]
Eof          == [type |-> "eof"]

Units  == Puts \cup {Hole}
Tokens == [type : {"header"}, name : Names, size : 0 .. Size]
            \cup {Unit(u) : u \in Units} \cup {Eof}

PutStates == [pc : {"idle", "open", "read", "closed", "failed"},
              name : Names \cup {Nothing},
              fd : Inodes \cup {Nothing},
              off : 0 .. Size,
              sender : {"sending", "claimed", "dead"}]
GetStates == [pc : {"idle", "next", "open", "read", "unlink", "closed"},
              todo : SUBSET Names,
              name : Names \cup {Nothing},
              size : 0 .. Size,
              fd : Inodes \cup {Nothing},
              off : 0 .. Size]
RcvStates == [pc : {"idle", "line", "data", "done", "garbled", "dead"},
              left : 0 .. Size,
              file : Seq(Tokens)]

TypeOK ==
    /\ dir \in BOOLEAN
    /\ entry \in [Names -> Inodes \cup {Nothing}]
    /\ bytes \in [Inodes -> Seq(Units)]
    /\ \A i \in Inodes : Len(bytes[i]) <= Size
    /\ put \in [Puts -> PutStates]
    /\ get \in [Gets -> GetStates]
    /\ wire \in [Gets -> Seq(Tokens)]
    /\ rcv \in [Gets -> RcvStates]
    /\ excused \subseteq Puts
    /\ tangled \subseteq Gets

Init ==
    /\ dir \in BOOLEAN
    /\ entry = [n \in Names |-> Nothing]
    /\ bytes = [i \in Inodes |-> <<>>]
    /\ put = [p \in Puts |-> [pc |-> "idle", name |-> Nothing, fd |-> Nothing,
                              off |-> 0, sender |-> "sending"]]
    /\ get = [g \in Gets |-> [pc |-> "idle", todo |-> {}, name |-> Nothing,
                              size |-> 0, fd |-> Nothing, off |-> 0]]
    /\ wire = [g \in Gets |-> <<>>]
    /\ rcv = [g \in Gets |-> [pc |-> "idle", left |-> 0, file |-> <<>>]]
    /\ saved = {}
    /\ excused = {}
    /\ tangled = {}

-----------------------------------------------------------------------------
(* The file system *)

Listed == {n \in Names : entry[n] # Nothing}

\* Inodes that an entry or an open descriptor keeps alive.
Live ==
    ({entry[n] : n \in Names} \cup {put[p].fd : p \in Puts}
        \cup {get[g].fd : g \in Gets}) \ {Nothing}

\* Bug: the file is open for appending.
WrittenAtEnd(file, off, u) == Append(file, u)
\* Write one unit at an offset; a gap reads as zeros.
Written(file, off, u) ==
    [k \in 1 .. (IF Len(file) > off THEN Len(file) ELSE off + 1) |->
        IF k = off + 1 THEN u
        ELSE IF k <= Len(file) THEN file[k] ELSE Hole]

-----------------------------------------------------------------------------
(* History: who is excused *)

\* A sync that has looked at the name and not yet deleted it.
Syncing(n) == \E g \in Gets : get[g].name = n /\ get[g].pc \in {"open", "read", "unlink"}

\* Uploads that write to, or have blocks in, the file under the name.
Writing(n) == {p \in Puts : entry[n] # Nothing /\ put[p].fd = entry[n]}
Under(n) ==
    Writing(n) \cup {p \in Puts : entry[n] # Nothing /\ p \in ToSet(bytes[entry[n]])}

\* Uploads with a block in a sequence of tokens.
In(tokens) == {p \in Puts : \E k \in 1 .. Len(tokens) : tokens[k] = Unit(p)}

-----------------------------------------------------------------------------
(* An upload: the sender, then run_server_get *)

\* The last block is in the connection, which may hold them all, or sending
\* failed: shutdown, "File delivered successfully!".
SenderClaims(p) ==
    /\ put[p].pc # "idle"
    /\ put[p].sender = "sending"
    /\ put' = [put EXCEPT ![p].sender = "claimed"]
    /\ UNCHANGED <<dir, entry, bytes, get, wire, rcv, saved, excused, tangled>>

\* The sender or its connection dies before that: what the server has not
\* read by then was not sent.
SenderDies(p) ==
    /\ put[p].pc \in {"open", "read"}
    /\ put[p].sender = "sending"
    /\ put' = [put EXCEPT ![p].sender = "dead"]
    /\ UNCHANGED <<dir, entry, bytes, get, wire, rcv, saved, excused, tangled>>

\* run_server_get makes the user's directory, whether there is such a user.
PutMkdir(p, n) ==
    /\ put[p].pc = "idle"
    /\ dir' = TRUE
    /\ put' = [put EXCEPT ![p].pc = "open", ![p].name = n]
    /\ UNCHANGED <<entry, bytes, get, wire, rcv, saved, excused, tangled>>

\* fopen "wb": a new inode, or the old one cut to length 0.
PutOpen(p) ==
    LET n == put[p].name
        i == IF entry[n] # Nothing THEN entry[n]
             ELSE CHOOSE j \in Inodes \ Live : TRUE
    IN  /\ put[p].pc = "open"
        /\ dir
        /\ entry' = [entry EXCEPT ![n] = i]
        /\ bytes' = [bytes EXCEPT ![i] = <<>>]
        /\ put' = [put EXCEPT ![p].pc = "read", ![p].fd = i]
        /\ excused' = excused \cup Under(n)
              \cup (IF Syncing(n) \/ Writing(n) # {} THEN {p} ELSE {})
        /\ UNCHANGED <<dir, get, wire, rcv, saved, tangled>>

\* The directory was removed in between: EXIT_FAILURE.
PutOpenFails(p) ==
    /\ put[p].pc = "open"
    /\ ~dir
    /\ put' = [put EXCEPT ![p].pc = "failed"]
    /\ UNCHANGED <<dir, entry, bytes, get, wire, rcv, saved, excused, tangled>>

\* The next block is there to be read.
Arrives(p) == put[p].pc = "read" /\ put[p].off < Size /\ put[p].sender # "dead"

\* read, fwrite.
PutRead(p) ==
    /\ Arrives(p)
    /\ bytes' = [bytes EXCEPT ![put[p].fd] = Written(@, put[p].off, p)]
    /\ put' = [put EXCEPT ![p].off = @ + 1]
    /\ UNCHANGED <<dir, entry, get, wire, rcv, saved, excused, tangled>>

\* fwrite fails: the file is closed as it is, EXIT_FAILURE.
PutWriteFails(p) ==
    /\ Arrives(p)
    /\ put' = [put EXCEPT ![p].pc = "failed", ![p].fd = Nothing]
    /\ UNCHANGED <<dir, entry, bytes, get, wire, rcv, saved, excused, tangled>>

\* read returns 0 or an error: the file is closed as it is.
PutClose(p) ==
    /\ put[p].pc = "read"
    /\ ~Arrives(p)
    /\ put[p].sender # "sending"
    /\ put' = [put EXCEPT ![p].pc = "closed", ![p].fd = Nothing]
    /\ UNCHANGED <<dir, entry, bytes, get, wire, rcv, saved, excused, tangled>>

Upload(p) ==
    \/ SenderClaims(p) \/ SenderDies(p)
    \/ \E n \in Names : PutMkdir(p, n)
    \/ PutOpen(p) \/ PutOpenFails(p)
    \/ PutRead(p) \/ PutWriteFails(p) \/ PutClose(p)

-----------------------------------------------------------------------------
(* A sync: run_server_send *)

\* The directory is listed.
GetOpendir(g) ==
    /\ get[g].pc = "idle"
    /\ dir
    /\ get' = [get EXCEPT ![g].pc = "next", ![g].todo = Listed]
    /\ rcv' = [rcv EXCEPT ![g].pc = "line"]
    /\ UNCHANGED <<dir, entry, bytes, put, wire, saved, excused, tangled>>

\* user_exists finds no directory: the connection ends without a word.
GetNoUser(g) ==
    /\ get[g].pc = "idle"
    /\ ~dir
    /\ get' = [get EXCEPT ![g].pc = "closed"]
    /\ rcv' = [rcv EXCEPT ![g].pc = "line"]
    /\ UNCHANGED <<dir, entry, bytes, put, wire, saved, excused, tangled>>

\* Nobody takes what is sent: the receiver died, lost its place or left.
Deaf(g) == rcv[g].pc \in {"dead", "garbled", "done"}

\* What is written to a connection that is gone is lost.
Sent(g, token) ==
    wire' = IF Deaf(g) THEN wire ELSE [wire EXCEPT ![g] = Append(@, token)]

\* stat, and the header with name and size.
GetStat(g, n) ==
    /\ get[g].pc = "next"
    /\ n \in get[g].todo
    /\ entry[n] # Nothing
    /\ Sent(g, Header(n, Len(bytes[entry[n]])))
    /\ get' = [get EXCEPT ![g].pc = "open", ![g].todo = @ \ {n}, ![g].name = n,
                          ![g].size = Len(bytes[entry[n]])]
    /\ excused' = excused \cup Writing(n)
    /\ UNCHANGED <<dir, entry, bytes, put, rcv, saved, tangled>>

\* Bug: an entry that stat does not find is tried again.
GetSkipRetries(g, n) ==
    /\ get[g].pc = "next"
    /\ n \in get[g].todo
    /\ entry[n] = Nothing
    /\ UNCHANGED vars
\* stat fails: the entry is gone.
GetSkip(g, n) ==
    /\ get[g].pc = "next"
    /\ n \in get[g].todo
    /\ entry[n] = Nothing
    /\ get' = [get EXCEPT ![g].todo = @ \ {n}]
    /\ UNCHANGED <<dir, entry, bytes, put, wire, rcv, saved, excused, tangled>>

\* Bug: the file is deleted as soon as it is open.
GetOpenUnlinks(g) ==
    /\ get[g].pc = "open"
    /\ entry[get[g].name] # Nothing
    /\ get' = [get EXCEPT ![g].pc = "read", ![g].fd = entry[get[g].name], ![g].off = 0]
    /\ entry' = [entry EXCEPT ![get[g].name] = Nothing]
    /\ UNCHANGED <<dir, bytes, put, wire, rcv, saved, excused, tangled>>
GetOpen(g) ==
    /\ get[g].pc = "open"
    /\ entry[get[g].name] # Nothing
    /\ get' = [get EXCEPT ![g].pc = "read", ![g].fd = entry[get[g].name], ![g].off = 0]
    /\ UNCHANGED <<dir, entry, bytes, put, wire, rcv, saved, excused, tangled>>

\* fopen fails: no payload, but the deletion below is still made.
GetOpenFails(g) ==
    /\ get[g].pc = "open"
    /\ entry[get[g].name] = Nothing
    /\ get' = [get EXCEPT ![g].pc = "unlink"]
    /\ tangled' = IF get[g].size > 0 THEN tangled \cup {g} ELSE tangled
    /\ UNCHANGED <<dir, entry, bytes, put, wire, rcv, saved, excused>>

\* fread, write; a failed write is passed over.
GetSend(g) ==
    /\ get[g].pc = "read"
    /\ get[g].off < Len(bytes[get[g].fd])
    /\ Sent(g, Unit(bytes[get[g].fd][get[g].off + 1]))
    /\ get' = [get EXCEPT ![g].off = @ + 1]
    /\ tangled' = IF get[g].off >= get[g].size THEN tangled \cup {g} ELSE tangled
    /\ UNCHANGED <<dir, entry, bytes, put, rcv, saved, excused>>

\* fread returns 0: fclose.
GetCloseFile(g) ==
    /\ get[g].pc = "read"
    /\ get[g].off >= Len(bytes[get[g].fd])
    /\ get' = [get EXCEPT ![g].pc = "unlink", ![g].fd = Nothing]
    /\ tangled' = IF get[g].off # get[g].size THEN tangled \cup {g} ELSE tangled
    /\ UNCHANGED <<dir, entry, bytes, put, wire, rcv, saved, excused>>

\* "Delete non-admin synced files immediately": whatever is there by now.
GetUnlink(g) ==
    /\ get[g].pc = "unlink"
    /\ entry' = [entry EXCEPT ![get[g].name] = Nothing]
    /\ get' = [get EXCEPT ![g].pc = "next", ![g].name = Nothing, ![g].size = 0,
                          ![g].off = 0]
    /\ excused' = IF g \in tangled \/ Deaf(g)
                  THEN excused \cup Under(get[g].name) ELSE excused
    /\ UNCHANGED <<dir, bytes, put, wire, rcv, saved, tangled>>

\* The EOF line, exit.
GetEof(g) ==
    /\ get[g].pc = "next"
    /\ get[g].todo = {}
    /\ Sent(g, Eof)
    /\ get' = [get EXCEPT ![g].pc = "closed"]
    /\ UNCHANGED <<dir, entry, bytes, put, rcv, saved, excused, tangled>>

Sync(g) ==
    \/ GetOpendir(g) \/ GetNoUser(g)
    \/ \E n \in Names : GetStat(g, n) \/ GetSkip(g, n)
    \/ GetOpen(g) \/ GetOpenFails(g) \/ GetSend(g) \/ GetCloseFile(g)
    \/ GetUnlink(g) \/ GetEof(g)

-----------------------------------------------------------------------------
(* The receiver: receive.c *)

Received(g) == wire' = [wire EXCEPT ![g] = Tail(@)]

\* Bug: the payload loop tests what remains only after it has read.
RecvHeaderReadsFirst(g) ==
    /\ rcv[g].pc = "line"
    /\ wire[g] # <<>>
    /\ Head(wire[g]).type = "header"
    /\ Head(wire[g]).name # EofName
    /\ Received(g)
    /\ rcv' = [rcv EXCEPT ![g] =
          [pc |-> "data", file |-> <<>>,
           left |-> IF Head(wire[g]).size = 0 THEN 1 ELSE Head(wire[g]).size]]
    /\ UNCHANGED <<dir, entry, bytes, put, get, saved, excused, tangled>>
\* A name line and a size line; the local file is opened.  An empty file is
\* closed at once.
RecvHeader(g) ==
    /\ rcv[g].pc = "line"
    /\ wire[g] # <<>>
    /\ Head(wire[g]).type = "header"
    /\ Head(wire[g]).name # EofName
    /\ Received(g)
    /\ IF Head(wire[g]).size = 0
       THEN /\ saved' = saved \cup {<<>>}
            /\ UNCHANGED rcv
       ELSE /\ rcv' = [rcv EXCEPT ![g] = [pc |-> "data", left |-> Head(wire[g]).size,
                                         file |-> <<>>]]
            /\ UNCHANGED saved
    /\ UNCHANGED <<dir, entry, bytes, put, get, excused, tangled>>

\* The local file cannot be opened: the next line is expected at once.
RecvOpenFails(g) ==
    /\ rcv[g].pc = "line"
    /\ wire[g] # <<>>
    /\ Head(wire[g]).type = "header"
    /\ Head(wire[g]).name # EofName
    /\ Received(g)
    /\ tangled' = IF Head(wire[g]).size > 0 THEN tangled \cup {g} ELSE tangled
    /\ excused' = IF Head(wire[g]).size > 0 THEN excused \cup In(wire[g]) ELSE excused
    /\ UNCHANGED <<dir, entry, bytes, put, get, rcv, saved>>

\* A file is named like the EOF line: the receiver leaves.
RecvEofName(g) ==
    /\ rcv[g].pc = "line"
    /\ wire[g] # <<>>
    /\ Head(wire[g]).type = "header"
    /\ Head(wire[g]).name = EofName
    /\ rcv' = [rcv EXCEPT ![g].pc = "done"]
    /\ wire' = [wire EXCEPT ![g] = <<>>]
    /\ excused' = excused \cup In(wire[g])
    /\ UNCHANGED <<dir, entry, bytes, put, get, saved, tangled>>

\* Payload, up to the announced size, whatever it is.
RecvData(g) ==
    /\ rcv[g].pc = "data"
    /\ wire[g] # <<>>
    /\ Received(g)
    /\ LET file == Append(rcv[g].file, Head(wire[g]))
       IN  IF rcv[g].left = 1
           THEN /\ rcv' = [rcv EXCEPT ![g] = [pc |-> "line", left |-> 0, file |-> <<>>]]
                /\ saved' = saved \cup {file}
           ELSE /\ rcv' = [rcv EXCEPT ![g] = [pc |-> "data", left |-> @.left - 1,
                                             file |-> file]]
                /\ UNCHANGED saved
    /\ UNCHANGED <<dir, entry, bytes, put, get, excused, tangled>>

RecvEof(g) ==
    /\ rcv[g].pc = "line"
    /\ wire[g] # <<>>
    /\ Head(wire[g]) = Eof
    /\ rcv' = [rcv EXCEPT ![g].pc = "done"]
    /\ Received(g)
    /\ UNCHANGED <<dir, entry, bytes, put, get, saved, excused, tangled>>

\* Payload is read as a name line: nothing that follows is where it should be.
RecvGarbage(g) ==
    /\ rcv[g].pc = "line"
    /\ wire[g] # <<>>
    /\ Head(wire[g]).type = "unit"
    /\ rcv' = [rcv EXCEPT ![g].pc = "garbled"]
    /\ wire' = [wire EXCEPT ![g] = <<>>]
    /\ excused' = excused \cup In(wire[g])
    /\ UNCHANGED <<dir, entry, bytes, put, get, saved, tangled>>

\* recv returns 0: a file in progress is closed as it is and counted.
RecvClosed(g) ==
    /\ rcv[g].pc \in {"line", "data", "garbled"}
    /\ wire[g] = <<>>
    /\ get[g].pc = "closed"
    /\ rcv' = [rcv EXCEPT ![g] = [pc |-> "done", left |-> 0, file |-> <<>>]]
    /\ saved' = IF rcv[g].pc = "data" THEN saved \cup {rcv[g].file} ELSE saved
    /\ UNCHANGED <<dir, entry, bytes, put, get, wire, excused, tangled>>

\* The receiver or its connection dies.
RecvDies(g) ==
    /\ rcv[g].pc \in {"line", "data", "garbled"}
    /\ rcv' = [rcv EXCEPT ![g] = [pc |-> "dead", left |-> 0, file |-> <<>>]]
    /\ wire' = [wire EXCEPT ![g] = <<>>]
    /\ excused' = excused \cup In(wire[g]) \cup In(rcv[g].file)
    /\ UNCHANGED <<dir, entry, bytes, put, get, saved, tangled>>

Receive(g) ==
    \/ RecvHeader(g) \/ RecvOpenFails(g) \/ RecvEofName(g) \/ RecvData(g)
    \/ RecvEof(g) \/ RecvGarbage(g) \/ RecvClosed(g)

-----------------------------------------------------------------------------
(* Administration *)

\* ADD_USER makes the directory before it inserts the row.
AddUser ==
    /\ AdminActs
    /\ ~dir
    /\ dir' = TRUE
    /\ UNCHANGED <<entry, bytes, put, get, wire, rcv, saved, excused, tangled>>

\* DELETE_USER, rmdir: only an empty directory goes.
DeleteUser ==
    /\ AdminActs
    /\ dir
    /\ Listed = {}
    /\ dir' = FALSE
    /\ UNCHANGED <<entry, bytes, put, get, wire, rcv, saved, excused, tangled>>

\* DELETE_FILE, or one turn of DELETE_ALL_USER's loop.
DeleteFile(n) ==
    /\ AdminActs
    /\ entry[n] # Nothing
    /\ entry' = [entry EXCEPT ![n] = Nothing]
    /\ excused' = excused \cup Under(n)
    /\ UNCHANGED <<dir, bytes, put, get, wire, rcv, saved, tangled>>

-----------------------------------------------------------------------------
Next ==
    \/ \E p \in Puts : Upload(p)
    \/ \E g \in Gets : Sync(g) \/ Receive(g) \/ RecvDies(g)
    \/ AddUser \/ DeleteUser
    \/ \E n \in Names : DeleteFile(n)

Spec == Init /\ [][Next]_vars

\* A sync and its receiver that run keep running; nobody has to start, upload,
\* die or administrate.
FairSpec ==
    /\ Spec
    /\ \A g \in Gets : WF_vars(get[g].pc # "idle" /\ Sync(g)) /\ WF_vars(Receive(g))

-----------------------------------------------------------------------------
(* Properties *)

Whole(p) == [k \in 1 .. Size |-> p]

\* The server has read and closed all of the upload.
Uploaded(p) == put[p].pc = "closed" /\ put[p].off = Size

Stored(p) == \E n \in Listed : bytes[entry[n]] = Whole(p)

InTransit(p) == \E g \in Gets : p \in In(wire[g]) \cup In(rcv[g].file)

Delivered(p) == [k \in 1 .. Size |-> Unit(p)] \in saved

\* An upload that the server has completely is in the mailbox, on its way or
\* with the receiver - unless another upload took its name, it was still
\* written when a sync looked at it, it was created while a sync was busy with
\* its name, an administrator deleted it, or the sync that sent it had lost its
\* receiver: dead, gone at a file named EOF, or out of place in the stream.
Conserved ==
    \A p \in Puts : Uploaded(p) /\ p \notin excused =>
        Stored(p) \/ InTransit(p) \/ Delivered(p)

\* The receiver loses its place in the stream, or saves a file with a header
\* in it, only in a sync some file of which changed its length or vanished
\* between the header and the payload, or could not be opened by the receiver.
FramedUnlessTangled ==
    /\ \A g \in Gets : rcv[g].pc = "garbled" => g \in tangled
    /\ tangled = {} => \A file \in saved : \A k \in 1 .. Len(file) :
                                                file[k].type = "unit"

\* Every sync that starts comes to an end on both sides, whatever happens to
\* the files it sends: also a receiver that waits for more than will come.
SyncEnds ==
    \A g \in Gets :
        get[g].pc # "idle" ~> get[g].pc = "closed" /\ rcv[g].pc \in {"done", "dead"}

\* sender.c:138, "File delivered successfully!": once the server has closed
\* the file of a sender that said so, and while no receiver has died, the
\* file is in the mailbox, on its way or with the receiver, whole.
ClaimedIsDelivered ==
    \A p \in Puts :
        /\ put[p].sender = "claimed" /\ put[p].pc = "closed"
        /\ \A g \in Gets : rcv[g].pc # "dead"
        => Stored(p) \/ InTransit(p) \/ Delivered(p)

=============================================================================
