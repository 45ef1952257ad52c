----------------------------- MODULE AdminSpace -----------------------------
(***************************************************************************)
(* The admin space of the server: the directory storage/admin and the      *)
(* table file_metadata that describes it.  An upload (run_server_get)      *)
(* stores a file under <sender>_<second> and then inserts its row; an      *)
(* administrator (handle_client) deletes files and then their rows;        *)
(* STREAM_GENRE looks a row up and then copies its file to a mailbox.      *)
(* All of them are processes of their own, and no lock or transaction      *)
(* spans the directory and the table.                                      *)
(*                                                                         *)
(* The payload of an upload is one block, named after the upload, and so   *)
(* is the inode that an upload creates.  How ask_sql finds a row is the    *)
(* subject of SqlChannel; here a query simply answers.                     *)
(***************************************************************************)
EXTENDS Naturals, FiniteSets

CONSTANTS
    Senders,  \* users who upload to the admin space
    Genres,
    Users,    \* users who stream, each with a mailbox
    Uploads,  \* slots for uploads
    Deleters, \* slots for the administrator's handlers
    Streams,  \* slots for STREAM_GENRE handlers
    MaxTime,  \* last second of the clock
    Nothing   \* no file, no block

ASSUME TimeAssumption == MaxTime \in Nat
ASSUME NothingAssumption == Nothing \notin Uploads
ASSUME EmptyAssumption == "empty" \notin Uploads

VARIABLES
    now,      \* time(NULL)
    entry,    \* the directory: the inode of each stored name
    data,     \* the block in each inode
    rows,     \* file_metadata; "of" is the upload that inserted the row
    up,       \* the uploads; "whole" and "by" (sender, second) are history
    del,      \* the deletions
    stream,   \* the streams
    box,      \* the mailboxes: the block under each stored name
    late,     \* history: uploads whose file was gone when the row came
    overlaps  \* history: uploads whose row came in the middle of a deletion

vars == <<now, entry, data, rows, up, del, stream, box, late, overlaps>>

-----------------------------------------------------------------------------
Names  == Senders \X (0 .. MaxTime)
Empty  == "empty"
Blocks == Uploads \cup {Empty}

RowSet == [name : Names, genre : Genres, of : Uploads]

UploadSet ==
    [pc    : {"idle", "open", "saved", "done", "failed"},
     name  : Names \cup {Nothing},
     genre : Genres \cup {Nothing},
     fd    : Uploads \cup {Nothing},
     whole : BOOLEAN,
     by    : Names \cup {Nothing}]

DeletionSet ==
    [pc : {"idle", "rows", "all", "killed"}, scope : SUBSET Names, todo : SUBSET Names]

StreamSet ==
    [pc     : {"idle", "found", "copy", "done", "failed"},
     user   : Users \cup {Nothing},
     genre  : Genres \cup {Nothing},
     name   : Names \cup {Nothing},
     src    : Uploads \cup {Nothing},
     linked : BOOLEAN,
     sent   : Blocks \cup {Nothing}]

TypeOK ==
    /\ now \in 0 .. MaxTime
    /\ entry \in [Names -> Uploads \cup {Nothing}]
    /\ data \in [Uploads -> Blocks]
    /\ rows \subseteq RowSet
    /\ up \in [Uploads -> UploadSet]
    /\ del \in [Deleters -> DeletionSet]
    /\ stream \in [Streams -> StreamSet]
    /\ box \in [Users \X Names -> Blocks \cup {Nothing}]
    /\ late \subseteq Uploads
    /\ overlaps \subseteq Uploads

Init ==
    /\ now = 0
    /\ entry = [n \in Names |-> Nothing]
    /\ data = [u \in Uploads |-> Empty]
    /\ rows = {}
    /\ up = [u \in Uploads |-> [pc |-> "idle", name |-> Nothing, genre |-> Nothing,
                                fd |-> Nothing, whole |-> FALSE, by |-> Nothing]]
    /\ del = [d \in Deleters |-> [pc |-> "idle", scope |-> {}, todo |-> {}]]
    /\ stream = [s \in Streams |-> [pc |-> "idle", user |-> Nothing,
                                    genre |-> Nothing, name |-> Nothing,
                                    src |-> Nothing, linked |-> FALSE,
                                    sent |-> Nothing]]
    /\ box = [b \in Users \X Names |-> Nothing]
    /\ late = {}
    /\ overlaps = {}

Tick ==
    /\ now < MaxTime
    /\ now' = now + 1
    /\ UNCHANGED <<entry, data, rows, up, del, stream, box, late, overlaps>>

-----------------------------------------------------------------------------
(* An upload: run_server_get with recipient admin *)

\* Bug: the file is named after the second alone.
StoredByTime(s, t) == <<CHOOSE x \in Senders : TRUE, t>>

StoredName(s, t) == <<s, t>>

\* fopen "wb": a new file, or one of the same sender and second cut to 0.
UploadOpens(u, s, g) ==
    LET n == StoredName(s, now)
        i == IF entry[n] = Nothing THEN u ELSE entry[n]
    IN  /\ up[u].pc = "idle"
        /\ entry' = [entry EXCEPT ![n] = i]
        /\ data' = [data EXCEPT ![i] = Empty]
        /\ up' = [up EXCEPT ![u] = [pc |-> "open", name |-> n, genre |-> g,
                                    fd |-> i, whole |-> FALSE, by |-> <<s, now>>]]
        /\ UNCHANGED <<now, rows, del, stream, box, late, overlaps>>

UploadWrites(u) ==
    /\ up[u].pc = "open"
    /\ ~up[u].whole
    /\ data' = [data EXCEPT ![up[u].fd] = u]
    /\ up' = [up EXCEPT ![u].whole = TRUE]
    /\ UNCHANGED <<now, entry, rows, del, stream, box, late, overlaps>>

\* read returns 0, or an error: the upload is over, whole or not; fclose.
UploadCloses(u) ==
    /\ up[u].pc = "open"
    /\ up' = [up EXCEPT ![u].pc = "saved"]
    /\ UNCHANGED <<now, entry, data, rows, del, stream, box, late, overlaps>>

\* fwrite fails, or the process is killed.
UploadFails(u) ==
    /\ up[u].pc \in {"open", "saved"}
    /\ up' = [up EXCEPT ![u].pc = "failed"]
    /\ UNCHANGED <<now, entry, data, rows, del, stream, box, late, overlaps>>

\* A deletion that has yet to delete rows of the name.
Covers(d, n) == del[d].pc = "all" \/ (del[d].pc = "rows" /\ n \in del[d].scope)

\* Bug: the row is written without its genre.
UploadInsertsNone(u) ==
    /\ up[u].pc = "saved"
    /\ rows' = rows \cup {[name |-> up[u].name, genre |-> Nothing, of |-> u]}
    /\ up' = [up EXCEPT ![u].pc = "done"]
    /\ UNCHANGED <<now, entry, data, del, stream, box, late, overlaps>>

\* give_sql: the row is inserted, whatever happened to the file.
UploadInserts(u) ==
    /\ up[u].pc = "saved"
    /\ rows' = rows \cup {[name |-> up[u].name, genre |-> up[u].genre, of |-> u]}
    /\ up' = [up EXCEPT ![u].pc = "done"]
    /\ late' = IF entry[up[u].name] = up[u].fd THEN late ELSE late \cup {u}
    /\ overlaps' = IF \E d \in Deleters : Covers(d, up[u].name)
                   THEN overlaps \cup {u} ELSE overlaps
    /\ UNCHANGED <<now, entry, data, del, stream, box>>

Upload(u) ==
    \/ \E s \in Senders, g \in Genres : UploadOpens(u, s, g)
    \/ UploadWrites(u) \/ UploadCloses(u) \/ UploadFails(u) \/ UploadInserts(u)

-----------------------------------------------------------------------------
(* A mailbox entry goes: whoever still writes to it writes to nothing *)

BoxUnlinked(usr, n) ==
    /\ box[<<usr, n>>] # Nothing
    /\ box' = [box EXCEPT ![<<usr, n>>] = Nothing]
    /\ stream' = [s \in Streams |->
          IF stream[s].user = usr /\ stream[s].name = n
          THEN [stream[s] EXCEPT !.linked = FALSE] ELSE stream[s]]

\* The user's next sync, or a turn of DELETE_ALL_USER's loop for a user: no
\* row of file_metadata has another owner than admin.
BoxEmptied(usr, n) ==
    /\ BoxUnlinked(usr, n)
    /\ UNCHANGED <<now, entry, data, rows, up, del, late, overlaps>>

-----------------------------------------------------------------------------
(* DELETE_FILE *)

DelUnlinks(d, n) ==
    /\ del[d].pc = "idle"
    /\ entry[n] # Nothing
    /\ entry' = [entry EXCEPT ![n] = Nothing]
    /\ del' = [del EXCEPT ![d] = [pc |-> "rows", scope |-> {n}, todo |-> {}]]
    /\ UNCHANGED <<now, data, rows, up, stream, box, late, overlaps>>

\* The admin space has no such file: the first mailbox that has.
DelUnlinksInBox(d, n, usr) ==
    /\ del[d].pc = "idle"
    /\ entry[n] = Nothing
    /\ BoxUnlinked(usr, n)
    /\ del' = [del EXCEPT ![d] = [pc |-> "rows", scope |-> {n}, todo |-> {}]]
    /\ UNCHANGED <<now, entry, data, rows, up, late, overlaps>>

\* Bug: the rows are looked for under another name.
DelRowsOfOther(d) ==
    /\ del[d].pc = "rows"
    /\ del' = [del EXCEPT ![d] = [pc |-> "idle", scope |-> {}, todo |-> {}]]
    /\ UNCHANGED <<now, entry, data, rows, up, stream, box, late, overlaps>>

DelRows(d) ==
    /\ del[d].pc = "rows"
    /\ rows' = {r \in rows : r.name \notin del[d].scope}
    /\ del' = [del EXCEPT ![d] = [pc |-> "idle", scope |-> {}, todo |-> {}]]
    /\ UNCHANGED <<now, entry, data, up, stream, box, late, overlaps>>

-----------------------------------------------------------------------------
(* DELETE_ALL_USER admin *)

\* Bug: the loop ends at the first entry it should pass over.
DelAllListsNone(d) ==
    /\ del[d].pc = "idle"
    /\ del' = [del EXCEPT ![d] = [pc |-> "all", scope |-> {}, todo |-> {}]]
    /\ UNCHANGED <<now, entry, data, rows, up, stream, box, late, overlaps>>

DelAllLists(d) ==
    /\ del[d].pc = "idle"
    /\ del' = [del EXCEPT ![d] = [pc |-> "all", scope |-> {},
                                  todo |-> {n \in Names : entry[n] # Nothing}]]
    /\ UNCHANGED <<now, entry, data, rows, up, stream, box, late, overlaps>>

\* An entry that was there from the start, or one that came in the meantime.
DelAllUnlinks(d, n) ==
    /\ del[d].pc = "all"
    /\ n \in del[d].todo \/ entry[n] # Nothing
    /\ entry' = [entry EXCEPT ![n] = Nothing]
    /\ del' = [del EXCEPT ![d].todo = @ \ {n}, ![d].scope = @ \cup {n}]
    /\ UNCHANGED <<now, data, rows, up, stream, box, late, overlaps>>

\* The rows of owner admin: all of them.
DelAllRows(d) ==
    /\ del[d].pc = "all"
    /\ del[d].todo = {}
    /\ rows' = {}
    /\ del' = [del EXCEPT ![d] = [pc |-> "idle", scope |-> {}, todo |-> {}]]
    /\ UNCHANGED <<now, entry, data, up, stream, box, late, overlaps>>

\* The handler is killed: the rows stay.
DelKilled(d) ==
    /\ del[d].pc \in {"rows", "all"}
    /\ del' = [del EXCEPT ![d].pc = "killed", ![d].todo = {}]
    /\ UNCHANGED <<now, entry, data, rows, up, stream, box, late, overlaps>>

Delete(d) ==
    \/ \E n \in Names :
        \/ DelUnlinks(d, n) \/ DelAllUnlinks(d, n)
        \/ \E usr \in Users : DelUnlinksInBox(d, n, usr)
    \/ DelRows(d) \/ DelAllLists(d) \/ DelAllRows(d) \/ DelKilled(d)

-----------------------------------------------------------------------------
(* STREAM_GENRE *)

\* SELECT ... LIMIT 1: any row of the genre.
StreamFinds(s, usr, r) ==
    /\ stream[s].pc = "idle"
    /\ stream' = [stream EXCEPT ![s].pc = "found", ![s].user = usr,
                                ![s].genre = r.genre, ![s].name = r.name]
    /\ UNCHANGED <<now, entry, data, rows, up, del, box, late, overlaps>>

\* Both files are opened: the one in the mailbox is there from now on, empty,
\* whether the other one exists.
StreamOpens(s) ==
    /\ stream[s].pc = "found"
    /\ box' = [box EXCEPT ![<<stream[s].user, stream[s].name>>] = Empty]
    /\ stream' = [stream EXCEPT
          ![s].pc = IF entry[stream[s].name] = Nothing THEN "failed" ELSE "copy",
          ![s].src = entry[stream[s].name],
          ![s].linked = TRUE]
    /\ UNCHANGED <<now, entry, data, rows, up, del, late, overlaps>>

StreamCopies(s) ==
    /\ stream[s].pc = "copy"
    /\ box' = IF stream[s].linked
              THEN [box EXCEPT ![<<stream[s].user, stream[s].name>>] = data[stream[s].src]]
              ELSE box
    /\ stream' = [stream EXCEPT ![s].pc = "done", ![s].sent = data[stream[s].src]]
    /\ UNCHANGED <<now, entry, data, rows, up, del, late, overlaps>>

Stream(s) ==
    \/ \E usr \in Users, r \in rows : StreamFinds(s, usr, r)
    \/ StreamOpens(s) \/ StreamCopies(s)

-----------------------------------------------------------------------------
Next ==
    \/ Tick
    \/ \E u \in Uploads : Upload(u)
    \/ \E d \in Deleters : Delete(d)
    \/ \E s \in Streams : Stream(s)
    \/ \E usr \in Users, n \in Names : BoxEmptied(usr, n)

Spec == Init /\ [][Next]_vars

-----------------------------------------------------------------------------
(* Properties *)

\* A second upload of the same sender within the same second.
Collided(u) == \E v \in Uploads \ {u} : up[v].pc # "idle" /\ up[v].by = up[u].by

\* A row without a file: the upload came to insert it after its file had been
\* deleted, or a deletion has unlinked the file and not yet, or never, come to
\* the rows.  (The order of unlink and give_sql in DELETE_FILE and
\* DELETE_ALL_USER against run_server_get's order of fclose and give_sql.)
RowsHaveFiles ==
    \A r \in rows :
        \/ entry[r.name] # Nothing
        \/ r.of \in late
        \/ \E d \in Deleters : del[d].pc # "idle" /\ r.name \in del[d].scope

\* A file whose row was inserted while no deletion was under way has a row for
\* as long as it is in the directory, so STREAM_GENRE can find it: deletions
\* take rows away only with the files, or under an upload that meets them.
FilesHaveRows ==
    \A u \in Uploads :
        up[u].pc = "done" /\ u \notin overlaps /\ entry[up[u].name] = up[u].fd
            => \E r \in rows : r.name = up[u].name

\* Whoever streams a genre gets a file that was uploaded as of this genre,
\* unless two uploads of one sender share a second and thereby a file.
StreamedGenre ==
    \A s \in Streams, u \in Uploads :
        stream[s].sent = u /\ ~Collided(u) => up[u].genre = stream[s].genre

=============================================================================
