-------------------------- MODULE AdminSpace_proofs --------------------------
(***************************************************************************)
(* Proofs about AdminSpace, for any sets of senders, genres, users,        *)
(* uploads, administrators and streams and any length of the clock: its    *)
(* types, that file and row part only in the listed ways, and that a       *)
(* stream delivers its genre.                                              *)
(***************************************************************************)
EXTENDS AdminSpace, TLAPS

-----------------------------------------------------------------------------
(* The inductive invariant: what a slot, an inode, a row and a stream know  *)
(* of the name they stand for.  Names of uploads never change, so all of    *)
(* it stays true of deleted files and rows.                                *)

Began(u) == up[u].pc # "idle"

\* An upload that began writes to an inode made under the name it computed.
UploadsKnow ==
    \A u \in Uploads : Began(u) =>
        /\ up[u].name = up[u].by
        /\ up[u].by \in Names
        /\ up[u].genre \in Genres
        /\ up[u].fd \in Uploads
        /\ Began(up[u].fd)
        /\ up[up[u].fd].name = up[u].name

\* An inode in the directory was made under the name it is found by.
EntriesKnow ==
    \A n \in Names : entry[n] # Nothing =>
        Began(entry[n]) /\ up[entry[n]].name = n

\* What an inode holds came from an upload to it.
DataKnow ==
    \A i \in Uploads : data[i] \in Uploads =>
        /\ Began(data[i])
        /\ up[data[i]].fd = i

\* A row describes the upload that inserted it.
RowsKnow ==
    \A r \in rows :
        /\ up[r.of].pc = "done"
        /\ up[r.of].name = r.name
        /\ up[r.of].genre = r.genre

\* A stream goes by the name and genre of some upload, and copies from an
\* inode that was made under the name.
StreamsKnow ==
    \A s \in Streams : stream[s].pc # "idle" =>
        /\ stream[s].name \in Names
        /\ \E u \in Uploads : /\ Began(u)
                              /\ up[u].name = stream[s].name
                              /\ up[u].genre = stream[s].genre
        /\ stream[s].src \in Uploads =>
              Began(stream[s].src) /\ up[stream[s].src].name = stream[s].name
        /\ stream[s].pc = "copy" => stream[s].src \in Uploads
        /\ stream[s].sent \in Uploads =>
              Began(stream[s].sent) /\ up[stream[s].sent].name = stream[s].name

NoneSent ==
    \A s \in Streams : stream[s].pc = "idle" =>
        stream[s].src = Nothing /\ stream[s].sent = Nothing

Known ==
    /\ UploadsKnow
    /\ EntriesKnow
    /\ DataKnow
    /\ RowsKnow
    /\ StreamsKnow
    /\ NoneSent

\* A deletion that came after a row either has unlinked the row's file
\* or still has it on its list.
DeletionsKnow ==
    \A u \in Uploads, d \in Deleters :
        /\ up[u].pc = "done"
        /\ u \notin overlaps
        /\ entry[up[u].name] = up[u].fd
        /\ Covers(d, up[u].name)
        => del[d].pc = "all" /\ up[u].name \in del[d].todo

Linked == FilesHaveRows /\ DeletionsKnow

IInv == TypeOK /\ Known /\ RowsHaveFiles /\ Linked

-----------------------------------------------------------------------------
(* Types *)

\* The assumptions on the constants, in one place.
LEMMA Constants ==
    /\ MaxTime \in Nat
    /\ Nothing \notin Uploads
    /\ Empty \notin Uploads
BY TimeAssumption, NothingAssumption, EmptyAssumption DEF Empty

LEMMA TypeInit == Init => TypeOK
BY Constants DEF Init, TypeOK, Blocks, UploadSet, DeletionSet, StreamSet

\* A name once computed stays, with all that goes with it.
LEMMA UploadKeeps ==
    ASSUME TypeOK, NEW u \in Uploads, Upload(u)
    PROVE  \A v \in Uploads : Began(v) =>
               /\ Began(v)'
               /\ up'[v].name = up[v].name
               /\ up'[v].by = up[v].by
               /\ up'[v].genre = up[v].genre
               /\ up'[v].fd = up[v].fd
               /\ up[v].pc = "done" => up'[v] = up[v]
<1>0. up \in [Uploads -> UploadSet]
    BY DEF TypeOK
<1>1. ASSUME NEW s \in Senders, NEW g \in Genres, UploadOpens(u, s, g)
      PROVE  \A v \in Uploads : Began(v) => up'[v] = up[v]
    BY <1>0, <1>1 DEF UploadOpens, Began
<1>2. CASE UploadWrites(u)
    BY <1>0, <1>2 DEF UploadWrites, Began, UploadSet
<1>3. CASE UploadCloses(u)
    BY <1>0, <1>3 DEF UploadCloses, Began, UploadSet
<1>4. CASE UploadFails(u)
    BY <1>0, <1>4 DEF UploadFails, Began, UploadSet
<1>5. CASE UploadInserts(u)
    BY <1>0, <1>5 DEF UploadInserts, Began, UploadSet
<1> QED
    BY <1>1, <1>2, <1>3, <1>4, <1>5 DEF Upload, Began

\* What an opening upload does, told by the inode it gets.
LEMMA OpensInode ==
    ASSUME TypeOK, EntriesKnow, NEW u \in Uploads, NEW s \in Senders,
           NEW g \in Genres, UploadOpens(u, s, g)
    PROVE  \E n \in Names, i \in Uploads :
                /\ i = u \/ (Began(i) /\ up[i].name = n)
                /\ entry[n] # Nothing => entry[n] = i
                /\ entry[n] = Nothing => i = u
                /\ entry' = [entry EXCEPT ![n] = i]
                /\ data' = [data EXCEPT ![i] = Empty]
                /\ up' = [up EXCEPT ![u] = [pc |-> "open", name |-> n, genre |-> g,
                                            fd |-> i, whole |-> FALSE, by |-> n]]
<1>1. PICK n \in Names : n = <<s, now>>
    BY DEF TypeOK, Names
<1>2. CASE entry[n] = Nothing
    BY <1>1, <1>2 DEF UploadOpens, StoredName
<1>3. CASE entry[n] # Nothing
    <2>1. entry[n] \in Uploads
        BY <1>1, <1>3 DEF TypeOK
    <2> QED
        BY <1>1, <1>3, <2>1 DEF UploadOpens, StoredName, EntriesKnow
<1> QED
    BY <1>1, <1>2, <1>3

LEMMA UploadTypes ==
    ASSUME TypeOK, UploadsKnow, EntriesKnow, NEW u \in Uploads, Upload(u)
    PROVE  TypeOK'
<1>0. /\ up \in [Uploads -> UploadSet]
      /\ data \in [Uploads -> Blocks]
      /\ entry \in [Names -> Uploads \cup {Nothing}]
    BY DEF TypeOK
<1>1. ASSUME NEW s \in Senders, NEW g \in Genres, UploadOpens(u, s, g)
      PROVE  TypeOK'
    <2>1. PICK n \in Names, i \in Uploads :
             /\ entry' = [entry EXCEPT ![n] = i]
             /\ data' = [data EXCEPT ![i] = Empty]
             /\ up' = [up EXCEPT ![u] = [pc |-> "open", name |-> n, genre |-> g,
                                         fd |-> i, whole |-> FALSE, by |-> n]]
        BY <1>1, OpensInode
    <2>2. up' \in [Uploads -> UploadSet]
        BY <1>0, <2>1 DEF UploadSet
    <2>3. entry' \in [Names -> Uploads \cup {Nothing}]
        BY <1>0, <2>1
    <2>4. data' \in [Uploads -> Blocks]
        BY <1>0, <2>1 DEF Blocks
    <2> QED
        BY <1>1, <2>2, <2>3, <2>4 DEF UploadOpens, TypeOK
<1>2. CASE UploadWrites(u)
    <2>1. up' \in [Uploads -> UploadSet]
        BY <1>0, <1>2 DEF UploadWrites, UploadSet
    <2>2. data' \in [Uploads -> Blocks]
        BY <1>0, <1>2 DEF UploadWrites, Blocks
    <2> QED
        BY <1>2, <2>1, <2>2 DEF UploadWrites, TypeOK
<1>3. CASE UploadCloses(u)
    <2>1. up' \in [Uploads -> UploadSet]
        BY <1>0, <1>3 DEF UploadCloses, UploadSet
    <2> QED
        BY <1>3, <2>1 DEF UploadCloses, TypeOK
<1>4. CASE UploadFails(u)
    <2>1. up' \in [Uploads -> UploadSet]
        BY <1>0, <1>4 DEF UploadFails, UploadSet
    <2> QED
        BY <1>4, <2>1 DEF UploadFails, TypeOK
<1>5. CASE UploadInserts(u)
    <2>1. up' \in [Uploads -> UploadSet]
        BY <1>0, <1>5 DEF UploadInserts, UploadSet
    <2>2. [name |-> up[u].name, genre |-> up[u].genre, of |-> u] \in RowSet
        BY <1>5 DEF UploadInserts, UploadsKnow, Began, RowSet
    <2> QED
        BY <1>5, <2>1, <2>2 DEF UploadInserts, TypeOK
<1> QED
    BY <1>1, <1>2, <1>3, <1>4, <1>5 DEF Upload

\* A mailbox entry that goes changes nothing of the streams but that they are
\* not linked any more.
LEMMA BoxKeeps ==
    ASSUME TypeOK, NEW usr \in Users, NEW n \in Names, BoxUnlinked(usr, n)
    PROVE  /\ box' \in [Users \X Names -> Blocks \cup {Nothing}]
           /\ stream' \in [Streams -> StreamSet]
           /\ \A s \in Streams :
                /\ stream'[s].pc = stream[s].pc
                /\ stream'[s].name = stream[s].name
                /\ stream'[s].genre = stream[s].genre
                /\ stream'[s].src = stream[s].src
                /\ stream'[s].sent = stream[s].sent
<1>1. stream \in [Streams -> StreamSet]
    BY DEF TypeOK
<1>2. box \in [Users \X Names -> Blocks \cup {Nothing}]
    BY DEF TypeOK
<1>3. box' \in [Users \X Names -> Blocks \cup {Nothing}]
    BY <1>2 DEF BoxUnlinked
<1>4. \A s \in Streams : [stream[s] EXCEPT !.linked = FALSE] \in StreamSet
    BY <1>1 DEF StreamSet
<1>5. \A s \in Streams : stream'[s] \in {stream[s], [stream[s] EXCEPT !.linked = FALSE]}
    BY DEF BoxUnlinked
<1>6. stream' \in [Streams -> StreamSet]
    BY <1>1, <1>4 DEF BoxUnlinked
<1> QED
    BY <1>1, <1>3, <1>5, <1>6 DEF StreamSet

LEMMA DeleteTypes ==
    ASSUME TypeOK, NEW d \in Deleters, Delete(d)
    PROVE  TypeOK'
<1>0. /\ del \in [Deleters -> DeletionSet]
      /\ entry \in [Names -> Uploads \cup {Nothing}]
    BY DEF TypeOK
<1>1. ASSUME NEW n \in Names, DelUnlinks(d, n)
      PROVE  TypeOK'
    <2>1. del' \in [Deleters -> DeletionSet]
        BY <1>0, <1>1 DEF DelUnlinks, DeletionSet
    <2>2. entry' \in [Names -> Uploads \cup {Nothing}]
        BY <1>0, <1>1 DEF DelUnlinks
    <2> QED
        BY <1>1, <2>1, <2>2 DEF DelUnlinks, TypeOK
<1>2. ASSUME NEW n \in Names, DelAllUnlinks(d, n)
      PROVE  TypeOK'
    <2>1. del' \in [Deleters -> DeletionSet]
        BY <1>0, <1>2 DEF DelAllUnlinks, DeletionSet
    <2>2. entry' \in [Names -> Uploads \cup {Nothing}]
        BY <1>0, <1>2 DEF DelAllUnlinks
    <2> QED
        BY <1>2, <2>1, <2>2 DEF DelAllUnlinks, TypeOK
<1>3. ASSUME NEW n \in Names, NEW usr \in Users, DelUnlinksInBox(d, n, usr)
      PROVE  TypeOK'
    <2>1. del' \in [Deleters -> DeletionSet]
        BY <1>0, <1>3 DEF DelUnlinksInBox, DeletionSet
    <2>2. BoxUnlinked(usr, n)
        BY <1>3 DEF DelUnlinksInBox
    <2>3. /\ box' \in [Users \X Names -> Blocks \cup {Nothing}]
          /\ stream' \in [Streams -> StreamSet]
        BY <2>2, BoxKeeps
    <2> QED
        BY <1>3, <2>1, <2>3 DEF DelUnlinksInBox, TypeOK
<1>4. CASE DelRows(d)
    <2>1. del' \in [Deleters -> DeletionSet]
        BY <1>0, <1>4 DEF DelRows, DeletionSet
    <2> QED
        BY <1>4, <2>1 DEF DelRows, TypeOK
<1>5. CASE DelAllLists(d)
    <2>1. {n \in Names : entry[n] # Nothing} \in SUBSET Names
        OBVIOUS
    <2>2. del' \in [Deleters -> DeletionSet]
        BY <1>0, <1>5, <2>1 DEF DelAllLists, DeletionSet
    <2> QED
        BY <1>5, <2>2 DEF DelAllLists, TypeOK
<1>6. CASE DelAllRows(d)
    <2>1. del' \in [Deleters -> DeletionSet]
        BY <1>0, <1>6 DEF DelAllRows, DeletionSet
    <2> QED
        BY <1>6, <2>1 DEF DelAllRows, TypeOK
<1>7. CASE DelKilled(d)
    <2>1. del' \in [Deleters -> DeletionSet]
        BY <1>0, <1>7 DEF DelKilled, DeletionSet
    <2> QED
        BY <1>7, <2>1 DEF DelKilled, TypeOK
<1> QED
    BY <1>1, <1>2, <1>3, <1>4, <1>5, <1>6, <1>7 DEF Delete

LEMMA StreamTypes ==
    ASSUME TypeOK, StreamsKnow, NEW s \in Streams, Stream(s)
    PROVE  TypeOK'
<1>0. /\ stream \in [Streams -> StreamSet]
      /\ box \in [Users \X Names -> Blocks \cup {Nothing}]
      /\ entry \in [Names -> Uploads \cup {Nothing}]
      /\ data \in [Uploads -> Blocks]
    BY DEF TypeOK
<1>1. ASSUME NEW usr \in Users, NEW r \in rows, StreamFinds(s, usr, r)
      PROVE  TypeOK'
    <2>1. r.name \in Names /\ r.genre \in Genres
        BY DEF TypeOK, RowSet
    <2>2. stream[s] \in StreamSet
        BY <1>0
    <2>3. [stream[s] EXCEPT !.pc = "found", !.user = usr, !.genre = r.genre, !.name = r.name]
              \in StreamSet
        BY <2>1, <2>2 DEF StreamSet
    <2>4. stream' = [stream EXCEPT ![s] = [stream[s] EXCEPT
              !.pc = "found", !.user = usr, !.genre = r.genre, !.name = r.name]]
        BY <1>0, <1>1 DEF StreamFinds
    <2>5. stream' \in [Streams -> StreamSet]
        BY <1>0, <2>3, <2>4
    <2> QED
        BY <1>1, <2>5 DEF StreamFinds, TypeOK
<1>2. CASE StreamOpens(s)
    <2>1. stream[s].name \in Names
        BY <1>2 DEF StreamOpens, StreamsKnow
    <2>2. entry[stream[s].name] \in Uploads \cup {Nothing}
        BY <1>0, <2>1
    <2>3. \A p \in {"failed", "copy"} :
              [stream[s] EXCEPT !.pc = p, !.src = entry[stream[s].name], !.linked = TRUE]
                  \in StreamSet
        BY <1>0, <2>2 DEF StreamSet
    <2>4. \E p \in {"failed", "copy"} : stream' = [stream EXCEPT ![s] =
              [stream[s] EXCEPT !.pc = p, !.src = entry[stream[s].name], !.linked = TRUE]]
        BY <1>0, <1>2 DEF StreamOpens
    <2>5. stream' \in [Streams -> StreamSet]
        BY <1>0, <2>3, <2>4
    <2>6. box' \in [Users \X Names -> Blocks \cup {Nothing}]
        BY <1>0, <1>2 DEF StreamOpens, Blocks
    <2> QED
        BY <1>2, <2>5, <2>6 DEF StreamOpens, TypeOK
<1>3. CASE StreamCopies(s)
    <2>1. data[stream[s].src] \in Blocks
        BY <1>0, <1>3 DEF StreamCopies, StreamsKnow
    <2>2. [stream[s] EXCEPT !.pc = "done", !.sent = data[stream[s].src]] \in StreamSet
        BY <1>0, <2>1 DEF StreamSet
    <2>3. stream' = [stream EXCEPT ![s] =
              [stream[s] EXCEPT !.pc = "done", !.sent = data[stream[s].src]]]
        BY <1>0, <1>3 DEF StreamCopies
    <2>4. stream' \in [Streams -> StreamSet]
        BY <1>0, <2>2, <2>3
    <2>5. box' \in [Users \X Names -> Blocks \cup {Nothing}]
        BY <1>0, <1>3, <2>1 DEF StreamCopies
    <2> QED
        BY <1>3, <2>4, <2>5 DEF StreamCopies, TypeOK
<1> QED
    BY <1>1, <1>2, <1>3 DEF Stream

-----------------------------------------------------------------------------
(* What is known stays known *)

LEMMA KnownInit == Init => Known
BY Constants DEF Init, Known, UploadsKnow, EntriesKnow, DataKnow, RowsKnow,
   StreamsKnow, NoneSent, Began

\* The parts of Known that only the uploads' names support.
LEMMA UploadKnown ==
    ASSUME TypeOK, Known, NEW u \in Uploads, Upload(u)
    PROVE  Known'
<1>0. /\ up \in [Uploads -> UploadSet]
      /\ data \in [Uploads -> Blocks]
      /\ entry \in [Names -> Uploads \cup {Nothing}]
      /\ rows \subseteq RowSet
      /\ stream \in [Streams -> StreamSet]
    BY DEF TypeOK
<1>1. \A v \in Uploads : Began(v) =>
          /\ Began(v)'
          /\ up'[v].name = up[v].name
          /\ up'[v].by = up[v].by
          /\ up'[v].genre = up[v].genre
          /\ up'[v].fd = up[v].fd
          /\ up[v].pc = "done" => up'[v] = up[v]
    BY UploadKeeps
<1>2. UNCHANGED <<stream, del, box>>
    BY DEF Upload, UploadOpens, UploadWrites, UploadCloses, UploadFails, UploadInserts
<1>3. StreamsKnow' /\ NoneSent'
    BY <1>1, <1>2 DEF Known, StreamsKnow, NoneSent
<1>6. \A r \in rows : up'[r.of] = up[r.of]
    BY <1>0, <1>1 DEF Known, RowsKnow, Began, RowSet
<1>4. ASSUME NEW s \in Senders, NEW g \in Genres, UploadOpens(u, s, g)
      PROVE  Known'
    <2>0. EntriesKnow
        BY DEF Known
    <2>1. PICK n \in Names, i \in Uploads :
             /\ i = u \/ (Began(i) /\ up[i].name = n)
             /\ entry' = [entry EXCEPT ![n] = i]
             /\ data' = [data EXCEPT ![i] = Empty]
             /\ up' = [up EXCEPT ![u] = [pc |-> "open", name |-> n, genre |-> g,
                                         fd |-> i, whole |-> FALSE, by |-> n]]
        BY <1>4, <2>0, OpensInode
    <2>2. /\ up'[u] = [pc |-> "open", name |-> n, genre |-> g,
                       fd |-> i, whole |-> FALSE, by |-> n]
          /\ \A v \in Uploads \ {u} : up'[v] = up[v]
          /\ ~Began(u)
        BY <1>0, <1>4, <2>1 DEF UploadOpens, Began
    <2>3. Began(i)' /\ up'[i].name = n
        BY <1>1, <2>1, <2>2 DEF Began
    <2>4. UploadsKnow'
        <3>1. ASSUME NEW v \in Uploads, v # u, Began(v)
              PROVE  /\ up[v].fd \in Uploads
                     /\ Began(up[v].fd)'
                     /\ up'[up[v].fd].name = up'[v].name
            BY <1>1, <3>1 DEF Known, UploadsKnow
        <3> QED
            BY <2>1, <2>2, <2>3, <3>1 DEF Known, UploadsKnow, Began
    <2>5. EntriesKnow'
        <3>1. ASSUME NEW k \in Names, k # n, entry'[k] # Nothing
              PROVE  Began(entry[k])' /\ up'[entry'[k]].name = k
            <4>1. entry'[k] = entry[k] /\ entry[k] \in Uploads
                BY <1>0, <2>1, <3>1
            <4> QED
                BY <1>1, <2>0, <3>1, <4>1 DEF EntriesKnow
        <3>2. entry'[n] = i
            BY <1>0, <2>1
        <3> QED
            BY <2>3, <3>1, <3>2 DEF EntriesKnow, Began
    <2>6. DataKnow'
        BY <1>0, <1>1, <2>1, Constants DEF Known, DataKnow, Began
    <2>7. RowsKnow'
        BY <1>6, <1>4 DEF UploadOpens, Known, RowsKnow
    <2> QED
        BY <1>3, <2>4, <2>5, <2>6, <2>7 DEF Known
<1>5. ASSUME UploadWrites(u) \/ UploadCloses(u) \/ UploadFails(u) \/ UploadInserts(u)
      PROVE  Known'
    <2>1. \A v \in Uploads : Began(v)' = Began(v)
        BY <1>0, <1>5 DEF UploadWrites, UploadCloses, UploadFails, UploadInserts,
           Began, UploadSet
    <2>2. UNCHANGED entry
        BY <1>5 DEF UploadWrites, UploadCloses, UploadFails, UploadInserts
    <2>3. UploadsKnow'
        BY <1>1, <2>1 DEF Known, UploadsKnow
    <2>4. EntriesKnow'
        BY <1>0, <1>1, <2>2 DEF Known, EntriesKnow
    <2>5. DataKnow'
        <3>1. CASE UploadWrites(u)
            <4>1. data' = [data EXCEPT ![up[u].fd] = u] /\ Began(u)
                BY <3>1 DEF UploadWrites, Began
            <4> QED
                BY <1>0, <1>1, <4>1 DEF Known, DataKnow
        <3>2. CASE ~UploadWrites(u)
            <4>1. UNCHANGED data
                BY <1>5, <3>2 DEF UploadCloses, UploadFails, UploadInserts
            <4> QED
                BY <1>0, <1>1, <4>1 DEF Known, DataKnow
        <3> QED
            BY <3>1, <3>2
    <2>6. RowsKnow'
        <3>1. CASE UploadInserts(u)
            <4>1. /\ up'[u].pc = "done"
                  /\ up'[u].name = up[u].name
                  /\ up'[u].genre = up[u].genre
                BY <1>0, <3>1 DEF UploadInserts, UploadSet
            <4>2. rows' = rows \cup {[name |-> up[u].name, genre |-> up[u].genre, of |-> u]}
                BY <3>1 DEF UploadInserts
            <4> QED
                BY <1>6, <4>1, <4>2 DEF Known, RowsKnow
        <3>2. CASE ~UploadInserts(u)
            <4>1. UNCHANGED rows
                BY <1>5, <3>2 DEF UploadCloses, UploadFails, UploadWrites
            <4> QED
                BY <1>6, <4>1 DEF Known, RowsKnow
        <3> QED
            BY <3>1, <3>2
    <2> QED
        BY <1>3, <2>3, <2>4, <2>5, <2>6 DEF Known
<1> QED
    BY <1>4, <1>5 DEF Upload

\* Streams that are where they were know what they knew.
LEMMA SameStreams ==
    ASSUME Known, UNCHANGED up,
           \A s \in Streams :
               /\ stream'[s].pc = stream[s].pc
               /\ stream'[s].name = stream[s].name
               /\ stream'[s].genre = stream[s].genre
               /\ stream'[s].src = stream[s].src
               /\ stream'[s].sent = stream[s].sent
    PROVE  StreamsKnow' /\ NoneSent'
<1>1. NoneSent'
    BY DEF Known, NoneSent
<1>2. ASSUME NEW u \in Uploads
      PROVE  Began(u)' = Began(u) /\ up'[u] = up[u]
    BY DEF Began
<1>3. StreamsKnow'
    BY <1>2 DEF Known, StreamsKnow
<1> QED
    BY <1>1, <1>3

\* A step that leaves uploads and inodes alone, adds neither entries nor rows
\* and does not move the streams.
LEMMA LessKnown ==
    ASSUME Known, UNCHANGED <<up, data>>, rows' \subseteq rows,
           \A n \in Names : entry'[n] \in {entry[n], Nothing},
           StreamsKnow', NoneSent'
    PROVE  Known'
<1>1. \A u : Began(u)' = Began(u)
    BY DEF Began
<1>2. UploadsKnow'
    BY <1>1 DEF Known, UploadsKnow
<1>3. EntriesKnow'
    <2>1. ASSUME NEW n \in Names, entry'[n] # Nothing
          PROVE  Began(entry[n]) /\ up[entry[n]].name = n /\ entry'[n] = entry[n]
        BY <2>1 DEF Known, EntriesKnow
    <2> QED
        BY <2>1 DEF EntriesKnow, Began
<1>4. DataKnow'
    BY <1>1 DEF Known, DataKnow
<1>5. RowsKnow'
    BY DEF Known, RowsKnow
<1> QED
    BY <1>2, <1>3, <1>4, <1>5 DEF Known

LEMMA DeleteKnown ==
    ASSUME TypeOK, Known, NEW d \in Deleters, Delete(d)
    PROVE  Known'
<1>0. entry \in [Names -> Uploads \cup {Nothing}]
    BY DEF TypeOK
<1>1. UNCHANGED <<up, data>> /\ rows' \subseteq rows
    BY DEF Delete, DelUnlinks, DelUnlinksInBox, DelRows, DelAllLists, DelAllUnlinks,
       DelAllRows, DelKilled
<1>2. \A n \in Names : entry'[n] \in {entry[n], Nothing}
    BY <1>0 DEF Delete, DelUnlinks, DelUnlinksInBox, DelRows, DelAllLists, DelAllUnlinks,
       DelAllRows, DelKilled
<1>3. StreamsKnow' /\ NoneSent'
    <2>1. ASSUME NEW n \in Names, NEW usr \in Users, DelUnlinksInBox(d, n, usr)
          PROVE  StreamsKnow' /\ NoneSent'
        <3>1. BoxUnlinked(usr, n)
            BY <2>1 DEF DelUnlinksInBox
        <3> QED
            BY <1>1, <3>1, BoxKeeps, SameStreams
    <2>2. CASE UNCHANGED stream
        BY <1>1, <2>2, SameStreams
    <2> QED
        BY <2>1, <2>2 DEF Delete, DelUnlinks, DelRows, DelAllLists, DelAllUnlinks,
           DelAllRows, DelKilled
<1> QED
    BY <1>1, <1>2, <1>3, LessKnown

LEMMA BoxKnown ==
    ASSUME TypeOK, Known, NEW usr \in Users, NEW n \in Names, BoxEmptied(usr, n)
    PROVE  TypeOK' /\ Known'
<1>1. BoxUnlinked(usr, n) /\ UNCHANGED <<now, entry, data, rows, up, del, late, overlaps>>
    BY DEF BoxEmptied
<1>2. StreamsKnow' /\ NoneSent'
    BY <1>1, BoxKeeps, SameStreams
<1>3. Known'
    BY <1>1, <1>2, LessKnown
<1>4. TypeOK'
    BY <1>1, BoxKeeps DEF TypeOK
<1> QED
    BY <1>3, <1>4

LEMMA StreamKnown ==
    ASSUME TypeOK, Known, NEW s \in Streams, Stream(s)
    PROVE  Known'
<1>0. /\ stream \in [Streams -> StreamSet]
      /\ entry \in [Names -> Uploads \cup {Nothing}]
      /\ data \in [Uploads -> Blocks]
      /\ rows \subseteq RowSet
    BY DEF TypeOK
<1>1. UNCHANGED <<up, data, rows, entry>>
    BY DEF Stream, StreamFinds, StreamOpens, StreamCopies
<1>2. \A u : Began(u)' = Began(u)
    BY <1>1 DEF Began
<1>3. \A t \in Streams \ {s} : stream'[t] = stream[t]
    BY <1>0 DEF Stream, StreamFinds, StreamOpens, StreamCopies
<1>4. NoneSent'
    <2>1. stream'[s].pc # "idle"
        <3>1. ASSUME NEW usr \in Users, NEW r \in rows, StreamFinds(s, usr, r)
              PROVE  stream'[s].pc = "found"
            BY <1>0, <3>1 DEF StreamFinds, StreamSet
        <3>2. ASSUME StreamOpens(s)
              PROVE  stream'[s].pc \in {"failed", "copy"}
            BY <1>0, <3>2 DEF StreamOpens, StreamSet
        <3>3. ASSUME StreamCopies(s)
              PROVE  stream'[s].pc = "done"
            BY <1>0, <3>3 DEF StreamCopies, StreamSet
        <3> QED
            BY <3>1, <3>2, <3>3 DEF Stream
    <2> QED
        BY <1>3, <2>1 DEF Known, NoneSent
<1>5. StreamsKnow'
    <2>1. ASSUME NEW usr \in Users, NEW r \in rows, StreamFinds(s, usr, r)
          PROVE  StreamsKnow'
        <3>1. /\ r.of \in Uploads /\ r.name \in Names
              /\ Began(r.of) /\ up[r.of].name = r.name /\ up[r.of].genre = r.genre
            BY <1>0 DEF Known, RowsKnow, RowSet, Began
        <3>2. /\ stream'[s].pc = "found"
              /\ stream'[s].name = r.name
              /\ stream'[s].genre = r.genre
              /\ stream'[s].src = Nothing
              /\ stream'[s].sent = Nothing
            BY <1>0, <2>1 DEF StreamFinds, StreamSet, Known, NoneSent
        <3> QED
            BY <1>1, <1>2, <1>3, <3>1, <3>2, Constants DEF Known, StreamsKnow
    <2>2. CASE StreamOpens(s)
        <3>1. stream[s].name \in Names
            BY <2>2 DEF StreamOpens, Known, StreamsKnow
        <3>2. /\ stream'[s].name = stream[s].name
              /\ stream'[s].genre = stream[s].genre
              /\ stream'[s].sent = stream[s].sent
              /\ stream'[s].src = entry[stream[s].name]
              /\ stream'[s].pc = "copy" => entry[stream[s].name] # Nothing
            BY <1>0, <2>2 DEF StreamOpens, StreamSet
        <3>3. entry[stream[s].name] \in Uploads =>
                  /\ Began(entry[stream[s].name])
                  /\ up[entry[stream[s].name]].name = stream[s].name
            BY <3>1, Constants DEF Known, EntriesKnow
        <3>4. stream[s].pc # "idle"
            BY <2>2 DEF StreamOpens
        <3> QED
            BY <1>0, <1>1, <1>2, <1>3, <3>1, <3>2, <3>3, <3>4 DEF Known, StreamsKnow
    <2>3. CASE StreamCopies(s)
        <3>1. stream[s].src \in Uploads
            BY <2>3 DEF StreamCopies, Known, StreamsKnow
        <3>2. /\ stream'[s].pc = "done"
              /\ stream'[s].name = stream[s].name
              /\ stream'[s].genre = stream[s].genre
              /\ stream'[s].src = stream[s].src
              /\ stream'[s].sent = data[stream[s].src]
            BY <1>0, <2>3 DEF StreamCopies, StreamSet
        <3>3. stream[s].pc # "idle"
            BY <2>3 DEF StreamCopies
        <3>4. data[stream[s].src] \in Uploads =>
                  /\ Began(data[stream[s].src])
                  /\ up[data[stream[s].src]].name = stream[s].name
            BY <3>1, <3>3 DEF Known, DataKnow, UploadsKnow, StreamsKnow
        <3> QED
            BY <1>1, <1>2, <1>3, <3>2, <3>3, <3>4 DEF Known, StreamsKnow
    <2> QED
        BY <2>1, <2>2, <2>3 DEF Stream
<1> QED
    <2>1. UploadsKnow'
        BY <1>1, <1>2 DEF Known, UploadsKnow
    <2>2. EntriesKnow'
        BY <1>1, <1>2 DEF Known, EntriesKnow
    <2>3. DataKnow'
        BY <1>1, <1>2 DEF Known, DataKnow
    <2>4. RowsKnow'
        BY <1>1 DEF Known, RowsKnow
    <2> QED
        BY <1>4, <1>5, <2>1, <2>2, <2>3, <2>4 DEF Known

LEMMA TypesAndKnownStep ==
    ASSUME TypeOK, Known, Next
    PROVE  TypeOK' /\ Known'
<1>1. CASE Tick
    <2>1. TypeOK'
        BY <1>1, Constants DEF Tick, TypeOK
    <2>2. StreamsKnow' /\ NoneSent'
        BY <1>1, SameStreams DEF Tick
    <2> QED
        BY <1>1, <2>1, <2>2, LessKnown DEF Tick
<1>2. ASSUME NEW u \in Uploads, Upload(u)
      PROVE  TypeOK' /\ Known'
    BY <1>2, UploadTypes, UploadKnown DEF Known
<1>3. ASSUME NEW d \in Deleters, Delete(d)
      PROVE  TypeOK' /\ Known'
    BY <1>3, DeleteTypes, DeleteKnown
<1>4. ASSUME NEW s \in Streams, Stream(s)
      PROVE  TypeOK' /\ Known'
    BY <1>4, StreamTypes, StreamKnown DEF Known
<1>5. ASSUME NEW usr \in Users, NEW n \in Names, BoxEmptied(usr, n)
      PROVE  TypeOK' /\ Known'
    BY <1>5, BoxKnown
<1> QED
    BY <1>1, <1>2, <1>3, <1>4, <1>5 DEF Next

-----------------------------------------------------------------------------
(* Files and rows *)

LEMMA RowsHaveFilesStep ==
    ASSUME TypeOK, Known, RowsHaveFiles, Next
    PROVE  RowsHaveFiles'
<1>0. /\ del \in [Deleters -> DeletionSet]
      /\ entry \in [Names -> Uploads \cup {Nothing}]
      /\ rows \subseteq RowSet
    BY DEF TypeOK
<1>1. ASSUME NEW u \in Uploads, Upload(u)
      PROVE  RowsHaveFiles'
    <2>1. ASSUME NEW s \in Senders, NEW g \in Genres, UploadOpens(u, s, g)
          PROVE  RowsHaveFiles'
        <3>1. PICK n \in Names, i \in Uploads : entry' = [entry EXCEPT ![n] = i]
            BY <2>1, OpensInode DEF Known
        <3>2. \A k \in Names : entry[k] # Nothing => entry'[k] # Nothing
            BY <1>0, <3>1, Constants
        <3>3. \A r \in rows : r.name \in Names
            BY <1>0 DEF RowSet
        <3> QED
            BY <2>1, <3>2, <3>3 DEF UploadOpens, RowsHaveFiles
    <2>2. CASE UploadInserts(u)
        <3>1. up[u].fd \in Uploads /\ up[u].name \in Names
            BY <2>2 DEF UploadInserts, Known, UploadsKnow, Began
        <3>2. entry[up[u].name] # Nothing \/ u \in late'
            BY <2>2, <3>1, Constants DEF UploadInserts
        <3>3. late \subseteq late' /\ UNCHANGED <<entry, del>>
            BY <2>2 DEF UploadInserts
        <3> QED
            BY <2>2, <3>2, <3>3 DEF UploadInserts, RowsHaveFiles
    <2>3. CASE UploadWrites(u) \/ UploadCloses(u) \/ UploadFails(u)
        BY <2>3 DEF UploadWrites, UploadCloses, UploadFails, RowsHaveFiles
    <2> QED
        BY <1>1, <2>1, <2>2, <2>3 DEF Upload
<1>2. ASSUME NEW d \in Deleters, Delete(d)
      PROVE  RowsHaveFiles'
    <2>0. UNCHANGED late /\ (\A e \in Deleters \ {d} : del'[e] = del[e])
        BY <1>0, <1>2 DEF Delete, DelUnlinks, DelUnlinksInBox, DelRows, DelAllLists,
           DelAllUnlinks, DelAllRows, DelKilled
    <2>1. ASSUME NEW n \in Names, DelUnlinks(d, n)
          PROVE  RowsHaveFiles'
        <3>1. del[d].pc = "idle" /\ del'[d].pc = "rows" /\ del'[d].scope = {n}
            BY <1>0, <2>1 DEF DelUnlinks
        <3>2. UNCHANGED rows /\ (\A k \in Names \ {n} : entry'[k] = entry[k])
            BY <1>0, <2>1 DEF DelUnlinks
        <3>3. \A r \in rows : r.name \in Names
            BY <1>0 DEF RowSet
        <3> QED
            BY <2>0, <3>1, <3>2, <3>3 DEF RowsHaveFiles
    <2>2. ASSUME NEW n \in Names, DelAllUnlinks(d, n)
          PROVE  RowsHaveFiles'
        <3>1. /\ del[d].pc = "all" /\ del'[d].pc = "all"
              /\ del'[d].scope = del[d].scope \cup {n}
            BY <1>0, <2>2 DEF DelAllUnlinks, DeletionSet
        <3>2. UNCHANGED rows /\ (\A k \in Names \ {n} : entry'[k] = entry[k])
            BY <1>0, <2>2 DEF DelAllUnlinks
        <3>3. \A r \in rows : r.name \in Names
            BY <1>0 DEF RowSet
        <3> QED
            BY <2>0, <3>1, <3>2, <3>3 DEF RowsHaveFiles
    <2>3. CASE DelRows(d)
        <3>1. /\ del[d].pc = "rows"
              /\ rows' = {r \in rows : r.name \notin del[d].scope}
              /\ UNCHANGED entry
            BY <2>3 DEF DelRows
        <3> QED
            BY <2>0, <3>1 DEF RowsHaveFiles
    <2>4. CASE DelAllRows(d)
        BY <2>4 DEF DelAllRows, RowsHaveFiles
    <2>5. CASE DelKilled(d)
        <3>1. del'[d].pc = "killed" /\ del'[d].scope = del[d].scope
            BY <1>0, <2>5 DEF DelKilled, DeletionSet
        <3>2. UNCHANGED <<rows, entry>>
            BY <2>5 DEF DelKilled
        <3> QED
            BY <2>0, <3>1, <3>2 DEF RowsHaveFiles
    <2>6. ASSUME \/ DelAllLists(d)
                 \/ \E n \in Names, usr \in Users : DelUnlinksInBox(d, n, usr)
          PROVE  RowsHaveFiles'
        <3>1. del[d].pc = "idle" /\ UNCHANGED <<rows, entry>>
            BY <2>6 DEF DelAllLists, DelUnlinksInBox
        <3> QED
            BY <2>0, <3>1 DEF RowsHaveFiles
    <2> QED
        BY <1>2, <2>1, <2>2, <2>3, <2>4, <2>5, <2>6 DEF Delete
<1>3. ASSUME UNCHANGED <<rows, entry, late, del>>
      PROVE  RowsHaveFiles'
    BY <1>3 DEF RowsHaveFiles
<1> QED
    BY <1>1, <1>2, <1>3 DEF Next, Tick, BoxEmptied, Stream, StreamFinds, StreamOpens,
       StreamCopies

LEMMA LinkedStep ==
    ASSUME TypeOK, Known, Linked, Next
    PROVE  Linked'
<1>0. /\ up \in [Uploads -> UploadSet]
      /\ del \in [Deleters -> DeletionSet]
      /\ entry \in [Names -> Uploads \cup {Nothing}]
      /\ rows \subseteq RowSet
    BY DEF TypeOK
<1>1. ASSUME NEW u \in Uploads, Upload(u)
      PROVE  Linked'
    <2>0. /\ UNCHANGED del
          /\ \A v \in Uploads : up[v].pc = "done" => up'[v] = up[v]
        <3>1. UNCHANGED del
            BY <1>1 DEF Upload, UploadOpens, UploadWrites, UploadCloses, UploadFails,
               UploadInserts
        <3> QED
            BY <1>1, <3>1, UploadKeeps DEF Began
    <2>1. ASSUME NEW s \in Senders, NEW g \in Genres, UploadOpens(u, s, g)
          PROVE  Linked'
        <3>1. PICK n \in Names, i \in Uploads :
                 /\ i = u \/ Began(i)
                 /\ entry[n] # Nothing => entry[n] = i
                 /\ entry[n] = Nothing => i = u
                 /\ entry' = [entry EXCEPT ![n] = i]
                 /\ up' = [up EXCEPT ![u] = [pc |-> "open", name |-> n, genre |-> g,
                                             fd |-> i, whole |-> FALSE, by |-> n]]
            BY <2>1, OpensInode DEF Known
        <3>2. UNCHANGED <<rows, overlaps>> /\ ~Began(u)
            BY <2>1 DEF UploadOpens, Began
        \* No upload that is through has the inode of a slot that was idle.
        <3>3. ASSUME NEW v \in Uploads, up'[v].pc = "done"
              PROVE  /\ up[v].pc = "done" /\ up'[v] = up[v] /\ up[v].name \in Names
                     /\ entry'[up[v].name] = up[v].fd => entry[up[v].name] = up[v].fd
            <4>1. v # u /\ up'[v] = up[v]
                BY <1>0, <3>1, <3>3
            <4>2. Began(v) /\ up[v].name \in Names /\ Began(up[v].fd)
                BY <3>3, <4>1 DEF Known, UploadsKnow, Began
            <4>3. up[v].fd # u
                BY <3>2, <4>2
            <4> QED
                BY <1>0, <3>1, <3>3, <4>1, <4>2, <4>3
        <3>4. FilesHaveRows'
            BY <3>2, <3>3 DEF Linked, FilesHaveRows
        <3>5. DeletionsKnow'
            BY <2>0, <3>2, <3>3 DEF Linked, DeletionsKnow, Covers
        <3> QED
            BY <3>4, <3>5 DEF Linked
    <2>2. CASE UploadInserts(u)
        <3>1. /\ UNCHANGED entry
              /\ overlaps \subseteq overlaps'
              /\ rows' = rows \cup {[name |-> up[u].name, genre |-> up[u].genre, of |-> u]}
              /\ (\E d \in Deleters : Covers(d, up[u].name)) => u \in overlaps'
            BY <2>2 DEF UploadInserts
        <3>2. up'[u].name = up[u].name
            BY <1>0, <2>2 DEF UploadInserts, UploadSet
        <3>3. \A v \in Uploads \ {u} : up'[v] = up[v]
            BY <1>0, <2>2 DEF UploadInserts
        <3>4. FilesHaveRows'
            <4> DEFINE row == [name |-> up[u].name, genre |-> up[u].genre, of |-> u]
            <4>1. row \in rows' /\ row.name = up'[u].name
                BY <3>1, <3>2
            <4>2. rows \subseteq rows'
                BY <3>1
            <4> QED
                BY <3>1, <3>3, <4>1, <4>2 DEF Linked, FilesHaveRows
        <3>5. DeletionsKnow'
            BY <2>0, <3>1, <3>2, <3>3 DEF Linked, DeletionsKnow, Covers
        <3> QED
            BY <3>4, <3>5 DEF Linked
    <2>3. ASSUME UploadWrites(u) \/ UploadCloses(u) \/ UploadFails(u)
          PROVE  Linked'
        <3>1. UNCHANGED <<entry, rows, overlaps>>
            BY <2>3 DEF UploadWrites, UploadCloses, UploadFails
        <3>2. up'[u].pc # "done"
            BY <1>0, <2>3 DEF UploadWrites, UploadCloses, UploadFails, UploadSet
        <3>3. \A v \in Uploads \ {u} : up'[v] = up[v]
            BY <1>0, <2>3 DEF UploadWrites, UploadCloses, UploadFails
        <3>4. FilesHaveRows'
            BY <3>1, <3>2, <3>3 DEF Linked, FilesHaveRows
        <3>5. DeletionsKnow'
            BY <2>0, <3>1, <3>2, <3>3 DEF Linked, DeletionsKnow, Covers
        <3> QED
            BY <3>4, <3>5 DEF Linked
    <2> QED
        BY <1>1, <2>1, <2>2, <2>3 DEF Upload
<1>2. ASSUME NEW d \in Deleters, Delete(d)
      PROVE  Linked'
    <2>0. /\ UNCHANGED <<up, overlaps>>
          /\ \A e \in Deleters \ {d} : del'[e] = del[e]
          /\ \A v \in Uploads : up[v].pc = "done" => up[v].name \in Names /\ up[v].fd # Nothing
        <3>1. \A v \in Uploads : up[v].pc = "done" => up[v].name \in Names /\ up[v].fd # Nothing
            BY Constants DEF Known, UploadsKnow, Began
        <3> QED
            BY <1>0, <1>2, <3>1 DEF Delete, DelUnlinks, DelUnlinksInBox, DelRows,
               DelAllLists, DelAllUnlinks, DelAllRows, DelKilled
    <2>1. ASSUME NEW n \in Names, DelUnlinks(d, n)
          PROVE  Linked'
        <3>1. del'[d].pc = "rows" /\ del'[d].scope = {n}
            BY <1>0, <2>1 DEF DelUnlinks
        <3>2. /\ UNCHANGED rows
              /\ entry'[n] = Nothing
              /\ \A k \in Names \ {n} : entry'[k] = entry[k]
            BY <1>0, <2>1 DEF DelUnlinks
        <3>3. FilesHaveRows'
            BY <2>0, <3>2 DEF Linked, FilesHaveRows
        <3>4. DeletionsKnow'
            BY <2>0, <3>1, <3>2 DEF Linked, DeletionsKnow, Covers
        <3> QED
            BY <3>3, <3>4 DEF Linked
    <2>2. ASSUME NEW n \in Names, DelAllUnlinks(d, n)
          PROVE  Linked'
        <3>1. del[d].pc = "all" /\ del'[d].pc = "all" /\ del'[d].todo = del[d].todo \ {n}
            BY <1>0, <2>2 DEF DelAllUnlinks, DeletionSet
        <3>2. /\ UNCHANGED rows
              /\ entry'[n] = Nothing
              /\ \A k \in Names \ {n} : entry'[k] = entry[k]
            BY <1>0, <2>2 DEF DelAllUnlinks
        <3>3. FilesHaveRows'
            BY <2>0, <3>2 DEF Linked, FilesHaveRows
        <3>4. DeletionsKnow'
            BY <2>0, <3>1, <3>2 DEF Linked, DeletionsKnow, Covers
        <3> QED
            BY <3>3, <3>4 DEF Linked
    <2>3. ASSUME NEW n \in Names, NEW usr \in Users, DelUnlinksInBox(d, n, usr)
          PROVE  Linked'
        <3>1. del'[d].pc = "rows" /\ del'[d].scope = {n}
            BY <1>0, <2>3 DEF DelUnlinksInBox
        <3>2. UNCHANGED <<rows, entry>> /\ entry[n] = Nothing
            BY <2>3 DEF DelUnlinksInBox
        <3>3. FilesHaveRows'
            BY <2>0, <3>2 DEF Linked, FilesHaveRows
        <3>4. DeletionsKnow'
            BY <2>0, <3>1, <3>2 DEF Linked, DeletionsKnow, Covers
        <3> QED
            BY <3>3, <3>4 DEF Linked
    \* The rows that go: a file of theirs would be on the deletion's list, but a
    \* deletion of one file has none and the one of all has come to its end.
    <2>4. ASSUME DelRows(d) \/ DelAllRows(d)
          PROVE  Linked'
        <3>1. del'[d].pc = "idle" /\ UNCHANGED entry
            BY <1>0, <2>4 DEF DelRows, DelAllRows
        <3>2. ASSUME NEW v \in Uploads, up[v].pc = "done", v \notin overlaps,
                     entry[up[v].name] = up[v].fd
              PROVE  ~Covers(d, up[v].name) /\ del[d].pc = "rows"
            BY <2>4, <3>2 DEF DelRows, DelAllRows, Linked, DeletionsKnow, Covers
        <3>3. del[d].pc = "rows" => rows' = {r \in rows : r.name \notin del[d].scope}
            BY <2>4 DEF DelRows, DelAllRows
        <3>4. FilesHaveRows'
            BY <2>0, <3>1, <3>2, <3>3 DEF Linked, FilesHaveRows, Covers
        <3>5. DeletionsKnow'
            BY <2>0, <3>1 DEF Linked, DeletionsKnow, Covers
        <3> QED
            BY <3>4, <3>5 DEF Linked
    <2>5. CASE DelAllLists(d)
        <3>1. del'[d].pc = "all" /\ del'[d].todo = {n \in Names : entry[n] # Nothing}
            BY <1>0, <2>5 DEF DelAllLists
        <3>2. UNCHANGED <<rows, entry>>
            BY <2>5 DEF DelAllLists
        <3>3. FilesHaveRows'
            BY <2>0, <3>2 DEF Linked, FilesHaveRows
        <3>4. DeletionsKnow'
            BY <2>0, <3>1, <3>2 DEF Linked, DeletionsKnow, Covers
        <3> QED
            BY <3>3, <3>4 DEF Linked
    <2>6. CASE DelKilled(d)
        <3>1. del'[d].pc = "killed" /\ UNCHANGED <<rows, entry>>
            BY <1>0, <2>6 DEF DelKilled, DeletionSet
        <3>2. FilesHaveRows'
            BY <2>0, <3>1 DEF Linked, FilesHaveRows
        <3>3. DeletionsKnow'
            BY <2>0, <3>1 DEF Linked, DeletionsKnow, Covers
        <3> QED
            BY <3>2, <3>3 DEF Linked
    <2> QED
        BY <1>2, <2>1, <2>2, <2>3, <2>4, <2>5, <2>6 DEF Delete
<1>3. ASSUME UNCHANGED <<rows, entry, up, overlaps, del>>
      PROVE  Linked'
    BY <1>3 DEF Linked, FilesHaveRows, DeletionsKnow, Covers
<1> QED
    BY <1>1, <1>2, <1>3 DEF Next, Tick, BoxEmptied, Stream, StreamFinds, StreamOpens,
       StreamCopies

-----------------------------------------------------------------------------
(* The theorems *)

LEMMA IInvInit == Init => IInv
<1> SUFFICES ASSUME Init
             PROVE  IInv
    OBVIOUS
<1>1. TypeOK /\ Known
    BY TypeInit, KnownInit
<1>2. RowsHaveFiles
    BY DEF Init, RowsHaveFiles
<1>3. \A u \in Uploads : up[u].pc = "idle"
    BY DEF Init
<1>4. Linked
    BY <1>3 DEF Linked, FilesHaveRows, DeletionsKnow
<1> QED
    BY <1>1, <1>2, <1>4 DEF IInv

LEMMA IInvStep == IInv /\ [Next]_vars => IInv'
<1> SUFFICES ASSUME IInv, [Next]_vars
             PROVE  IInv'
    OBVIOUS
<1>1. CASE Next
    BY <1>1, TypesAndKnownStep, RowsHaveFilesStep, LinkedStep DEF IInv
<1>2. CASE UNCHANGED vars
    BY <1>2 DEF vars, IInv, TypeOK, Known, UploadsKnow, EntriesKnow, DataKnow, RowsKnow,
       StreamsKnow, NoneSent, RowsHaveFiles, Linked, FilesHaveRows, DeletionsKnow,
       Began, Covers
<1> QED
    BY <1>1, <1>2

THEOREM Invariance == Spec => []IInv
BY IInvInit, IInvStep, PTL DEF Spec

\* The directory, the table, the uploads, deletions and streams keep their
\* types whatever the processes of init_server.c and run_server_get.c do.
THEOREM TypeCorrect == Spec => []TypeOK
<1>1. IInv => TypeOK
    BY DEF IInv
<1> QED
    BY <1>1, Invariance, PTL

\* file_metadata names no file that is not there, but for the two causes in
\* RowsHaveFiles, for any number of uploads and administrators.
THEOREM RowsAreBacked == Spec => []RowsHaveFiles
<1>1. IInv => RowsHaveFiles
    BY DEF IInv
<1> QED
    BY <1>1, Invariance, PTL

\* A stored file keeps a row, so that STREAM_GENRE can find it, unless its row
\* came in the middle of a deletion.
THEOREM FilesStayListed == Spec => []FilesHaveRows
<1>1. IInv => FilesHaveRows
    BY DEF IInv, Linked
<1> QED
    BY <1>1, Invariance, PTL

LEMMA KnownStreamsTheirGenre == TypeOK /\ Known => StreamedGenre
<1> SUFFICES ASSUME TypeOK, Known,
                    NEW s \in Streams, NEW u \in Uploads,
                    stream[s].sent = u, ~Collided(u)
             PROVE  up[u].genre = stream[s].genre
    BY DEF StreamedGenre
<1>1. stream[s].pc # "idle"
    BY Constants DEF Known, NoneSent
<1>2. Began(u) /\ up[u].name = stream[s].name
    BY <1>1 DEF Known, StreamsKnow
<1>3. PICK v \in Uploads : /\ Began(v)
                           /\ up[v].name = stream[s].name
                           /\ up[v].genre = stream[s].genre
    BY <1>1 DEF Known, StreamsKnow
<1>4. up[v].by = up[u].by
    BY <1>2, <1>3 DEF Known, UploadsKnow
<1>5. v = u
    BY <1>3, <1>4 DEF Collided, Began
<1> QED
    BY <1>3, <1>5

\* Who streams a genre gets a file of it, through any interleaving of uploads,
\* deletions and streams, unless two uploads of a sender share a second.
THEOREM GenreIsRight == Spec => []StreamedGenre
<1>1. IInv => StreamedGenre
    BY KnownStreamsTheirGenre DEF IInv
<1> QED
    BY <1>1, Invariance, PTL
=============================================================================
