------------------------------ MODULE SocketFile ------------------------------
(***************************************************************************)
(* put_file and get_file of the socket wrapper internet.h: a size, then    *)
(* that many bytes, one file after the other over one connection.          *)
(*                                                                         *)
(* Bytes are units, a size takes one.  A file may be cut by another        *)
(* program while it is sent; a connection may break at any time, with what *)
(* is on its way delivered or lost.  put_file then returns false in the    *)
(* middle of a file, and the stream says nothing of it.                    *)
(***************************************************************************)
EXTENDS Naturals, Sequences

CONSTANTS MaxSize,    \* units of the longest file
          MaxPuts     \* bound on the files sent over one connection

VARIABLES
  up,                 \* the connection stands
  stream,             \* units under way
  puts, cut, left,    \* put_file: how many calls, length of the file, size to go
  pc,                 \* where each of the two ends is
  gets, togo, local,  \* get_file: how many calls, size to go, the file it writes
  ok,                 \* what the last get_file returned
  (* history *)
  size,               \* what each put_file announced
  short               \* a put_file on this connection met a file that was cut

sending == <<puts, cut, left, size, short>>
receiving == <<gets, togo, local, ok>>
vars == <<up, stream, pc, sending, receiving>>

Init ==
  /\ up = TRUE /\ stream = <<>>
  /\ pc = [e \in {"put", "get"} |-> "idle"]
  /\ puts = 0 /\ cut = 0 /\ left = 0
  /\ gets = 0 /\ togo = 0 /\ local = <<>> /\ ok = FALSE
  /\ size = <<>> /\ short = FALSE

----------------------------------------------------------------------------
At(e, l) == pc[e] = l
Goto(e, l) == pc' = [pc EXCEPT ![e] = l]
Unit(i, k) == [put |-> i, at |-> k]

\* send_all.  On a broken connection it may return true: what it sends is lost.
Sends(u) == stream' = IF up THEN Append(stream, u) ELSE stream

\* fopen, ftell, and the size; unit 0 of each file is its size.
PutOpens(n) ==
  /\ At("put", "idle") /\ puts < MaxPuts
  /\ puts' = puts + 1 /\ cut' = n /\ left' = n /\ size' = Append(size, n)
  /\ \/ Sends(Unit(puts', 0)) /\ Goto("put", "chunks")
     \/ ~up /\ UNCHANGED <<stream, pc>>
  /\ UNCHANGED <<up, receiving, short>>

\* Somebody makes the file shorter.
FileCut ==
  /\ At("put", "chunks") /\ cut > 0 /\ cut' = cut - 1
  /\ UNCHANGED <<up, stream, pc, puts, left, size, short, receiving>>

NextUnit == size[puts] - left + 1
Readable == left > 0 /\ NextUnit <= cut

PutChunk ==
  /\ At("put", "chunks") /\ Readable
  /\ Sends(Unit(puts, NextUnit))
  /\ left' = left - 1
  /\ UNCHANGED <<up, pc, puts, cut, size, short, receiving>>

\* Bug: the end of the file is taken for the end of the loop.
PutShortAsEnd ==
  /\ At("put", "chunks") /\ left > 0 /\ ~Readable /\ Goto("put", "idle")
  /\ UNCHANGED <<up, stream, puts, cut, left, size, short, receiving>>

\* fread returns less than the chunk.
PutShort ==
  /\ At("put", "chunks") /\ left > 0 /\ ~Readable /\ Goto("put", "idle")
  /\ short' = TRUE
  /\ UNCHANGED <<up, stream, puts, cut, left, size, receiving>>

\* All sent, or send_all failed.
PutReturns ==
  /\ At("put", "chunks") /\ (left = 0 \/ ~up)
  /\ Goto("put", "idle")
  /\ UNCHANGED <<up, stream, sending, receiving>>

----------------------------------------------------------------------------
\* fopen(name, "wb"): the old file is gone before the first byte is there.
GetOpens ==
  /\ At("get", "idle") /\ gets < MaxPuts /\ Goto("get", "size")
  /\ gets' = gets + 1 /\ local' = <<>> /\ ok' = FALSE
  /\ UNCHANGED <<up, stream, sending, togo>>

Receives == stream # <<>> /\ stream' = Tail(stream)

\* Any unit makes a size, also one that was not sent as one.
GetSize ==
  /\ At("get", "size") /\ Receives /\ Goto("get", "chunks")
  /\ togo' = IF Head(stream).at = 0 THEN size[Head(stream).put] ELSE MaxSize
  /\ UNCHANGED <<up, sending, gets, local, ok>>

\* Bug: while (size >= 0), which is always true of an unsigned size.
GetChunkPastEnd ==
  /\ At("get", "chunks") /\ togo >= 0 /\ Receives
  /\ local' = Append(local, Head(stream)) /\ togo' = togo - 1
  /\ UNCHANGED <<up, pc, sending, gets, ok>>

GetChunk ==
  /\ At("get", "chunks") /\ togo > 0 /\ Receives
  /\ local' = Append(local, Head(stream)) /\ togo' = togo - 1
  /\ UNCHANGED <<up, pc, sending, gets, ok>>

GetReturns ==
  /\ At("get", "chunks") /\ togo = 0 /\ Goto("get", "idle")
  /\ ok' = TRUE
  /\ UNCHANGED <<up, stream, sending, gets, togo, local>>

\* recv returns 0 or an error.
GetFails ==
  /\ At("get", "size") \/ (At("get", "chunks") /\ togo > 0)
  /\ ~up /\ stream = <<>> /\ Goto("get", "idle")
  /\ UNCHANGED <<up, stream, sending, receiving>>

----------------------------------------------------------------------------
\* close_socket at one end, the end of its process, or the network.
Breaks ==
  /\ up /\ up' = FALSE
  /\ \E n \in 0..Len(stream) : stream' = SubSeq(stream, 1, n)
  /\ UNCHANGED <<pc, sending, receiving>>

\* listen_on, connect_to and accept_client give a new connection.
Connects ==
  /\ ~up /\ At("put", "idle") /\ At("get", "idle")
  /\ up' = TRUE /\ stream' = <<>>
  /\ puts' = 0 /\ cut' = 0 /\ left' = 0 /\ size' = <<>> /\ short' = FALSE
  /\ gets' = 0 /\ togo' = 0
  /\ UNCHANGED <<pc, local, ok>>

Next ==
  \/ \E n \in 0..MaxSize : PutOpens(n)
  \/ FileCut \/ PutChunk \/ PutShort \/ PutReturns
  \/ GetOpens \/ GetSize \/ GetChunk \/ GetReturns \/ GetFails
  \/ Breaks \/ Connects

Spec == Init /\ [][Next]_vars

----------------------------------------------------------------------------
TypeOK ==
  /\ up \in BOOLEAN /\ ok \in BOOLEAN /\ short \in BOOLEAN
  /\ \A u \in {stream[k] : k \in DOMAIN stream} \cup {local[k] : k \in DOMAIN local} :
       u.put \in 1..MaxPuts /\ u.at \in 0..MaxSize
  /\ {cut, left, togo} \subseteq 0..MaxSize
  /\ {puts, gets} \subseteq 0..MaxPuts
  /\ Len(size) = puts /\ \A k \in 1..puts : size[k] \in 0..MaxSize
  /\ pc["put"] \in {"idle", "chunks"} /\ pc["get"] \in {"idle", "size", "chunks"}

(* The n-th get_file writes the n-th file: nothing but its bytes, from the *)
(* first on, and all of them when it returns true, however often the       *)
(* connection broke before, and wherever.  Only a file that was cut while  *)
(* it was sent shifts all that follow it on its connection.                *)
ReceivedInStep ==
  gets > 0 /\ ~short =>
    /\ \A k \in DOMAIN local : local[k] = Unit(gets, k)
    /\ ok => gets <= puts /\ Len(local) = size[gets]
=============================================================================
