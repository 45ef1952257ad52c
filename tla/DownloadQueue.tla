---------------------------- MODULE DownloadQueue ----------------------------
(***************************************************************************)
(* The file `records' of downloads.h: the names still to be downloaded.    *)
(* push_download and open_download append a name, close_download takes one *)
(* out by moving the file to `temp', copying all other lines back and      *)
(* removing `temp', pop_download reads the first name that is not in the   *)
(* directory downloads.                                                    *)
(*                                                                         *)
(* The file outlives the processes: what is pending when one dies is for   *)
(* the next to find (downloads.h:285).  Each call of the C library or of   *)
(* the shell is a step.  A FILE goes on denoting its inode when the name   *)
(* moves.  What is written reaches the file at fclose.                     *)
(***************************************************************************)
EXTENDS Naturals, Sequences, FiniteSets

CONSTANTS Clients,    \* processes that use the queue
          Names,      \* what can be downloaded
          Inodes,     \* files that ever are `records' or `temp'
          MaxLines    \* bound on the length of the file

VARIABLES
  records, temp,      \* the inode behind each name, or None
  line,               \* the lines of each inode
  have,               \* what is in the directory downloads
  pc, arg,            \* of each process: where it is, the name of its call
  fp, fps,            \* the inodes it has open
  (* history *)
  wanted,             \* pushed, and not closed since
  torn                \* calls met in a way listed at RecordsKept

names == <<records, temp>>
open == <<fp, fps>>
vars == <<names, line, have, pc, arg, open, wanted, torn>>

None == "none"
Lines(i) == {line[i][k] : k \in DOMAIN line[i]}

Init ==
  /\ records = None /\ temp = None
  /\ line = [i \in Inodes |-> <<>>]
  /\ have \in SUBSET Names
  /\ pc = [c \in Clients |-> "idle"]
  /\ arg = [c \in Clients |-> None]
  /\ fp = [c \in Clients |-> None] /\ fps = [c \in Clients |-> None]
  /\ wanted = {} /\ torn = FALSE

----------------------------------------------------------------------------
At(c, l) == pc[c] = l
Goto(c, l) == pc' = [pc EXCEPT ![c] = l]
Closing(c) == pc[c] \in {"mv", "reopen", "copy", "remove"}
Creating(c) == pc[c] = "create"
Others(c) == Clients \ {c}

\* Files nobody can reach any more can be new ones.
Unused == {i \in Inodes : i \notin {records, temp}
             /\ \A c \in Clients : i \notin {fp[c], fps[c]}}

\* fopen(name, "w"): truncated, or made.
Truncated(i, name) ==
  /\ IF name # None THEN i = name ELSE i \in Unused
  /\ line' = [line EXCEPT ![i] = <<>>]

\* A call begins: it meets others.  Once they have met badly, those under way
\* run to their end and no more is asked of the file.
Begins(c, s, l) ==
  /\ At(c, "idle") /\ ~torn
  /\ Goto(c, l)
  /\ arg' = [arg EXCEPT ![c] = s]
  /\ torn' = \/ torn
             \/ \E d \in Others(c) : Closing(d) \/ Creating(d)
             \/ l \in {"create", "mv"} /\ \E d \in Others(c) : ~At(d, "idle")

\* push_download, open_download: is there a file?
PushChecks(c, s) ==
  /\ Begins(c, s, IF records = None THEN "create" ELSE "append")
  /\ UNCHANGED <<names, line, have, open, wanted>>

\* No: make one, by the mode that empties it.
PushCreates(c) ==
  /\ At(c, "create") /\ Goto(c, "append")
  /\ \E i \in Inodes : Truncated(i, records) /\ records' = i
  /\ UNCHANGED <<temp, have, arg, open, wanted, torn>>

PushOpens(c) ==
  /\ At(c, "append") /\ Goto(c, "write")
  /\ \E i \in Inodes :
       /\ IF records # None THEN i = records ELSE i \in Unused
       /\ line' = IF records # None THEN line ELSE [line EXCEPT ![i] = <<>>]
       /\ records' = i
       /\ fp' = [fp EXCEPT ![c] = i]
  /\ UNCHANGED <<temp, have, arg, fps, wanted, torn>>

\* Bug: the file was opened to be written from its start.
PushWritesOver(c) ==
  /\ At(c, "write") /\ Goto(c, "idle")
  /\ line' = [line EXCEPT ![fp[c]] = <<arg[c]>> \o SubSeq(@, 2, Len(@))]
  /\ fp' = [fp EXCEPT ![c] = None]
  /\ wanted' = wanted \cup {arg[c]}
  /\ UNCHANGED <<names, have, arg, fps, torn>>

PushWrites(c) ==
  /\ At(c, "write") /\ Goto(c, "idle")
  /\ Len(line[fp[c]]) < MaxLines
  /\ line' = [line EXCEPT ![fp[c]] = Append(@, arg[c])]
  /\ fp' = [fp EXCEPT ![c] = None]
  /\ wanted' = wanted \cup {arg[c]}
  /\ UNCHANGED <<names, have, arg, fps, torn>>

----------------------------------------------------------------------------
\* check, which makes the file when there is none: the call is over then.
CloseFindsNone(c, s) ==
  /\ Begins(c, s, "idle")
  /\ records = None
  /\ \E i \in Inodes : Truncated(i, records) /\ records' = i
  /\ wanted' = wanted \ {s}
  /\ UNCHANGED <<temp, have, open>>

CloseChecks(c, s) ==
  /\ Begins(c, s, "mv")
  /\ records # None
  /\ wanted' = wanted \ {s}
  /\ UNCHANGED <<names, line, have, open>>

\* mv records temp.
CloseMoves(c) ==
  /\ At(c, "mv") /\ Goto(c, "reopen")
  /\ IF records = None THEN UNCHANGED names
     ELSE temp' = records /\ records' = None
  /\ UNCHANGED <<line, have, arg, open, wanted, torn>>

CloseReopens(c) ==
  /\ At(c, "reopen") /\ temp # None /\ Goto(c, "copy")
  /\ fp' = [fp EXCEPT ![c] = temp]
  /\ \E i \in Inodes :
       /\ Truncated(i, records)
       /\ records' = i
       /\ fps' = [fps EXCEPT ![c] = i]
  /\ UNCHANGED <<temp, have, arg, wanted, torn>>

\* Without temp, fscanf is called with a null pointer.
CloseFaults(c) ==
  /\ At(c, "reopen") /\ temp = None /\ Goto(c, "dead")
  /\ torn' = TRUE
  /\ UNCHANGED <<names, line, have, arg, open, wanted>>

\* Bug: the loop keeps the lines that are equal.
KeptEqual(s, lines) ==
  LET kept[n \in 0..Len(lines)] ==
        IF n = 0 THEN <<>>
        ELSE IF lines[n] = s THEN Append(kept[n - 1], lines[n]) ELSE kept[n - 1]
  IN kept[Len(lines)]

\* What the loop has copied after n lines: all but s.
Kept(s, lines) ==
  LET kept[n \in 0..Len(lines)] ==
        IF n = 0 THEN <<>>
        ELSE IF lines[n] # s THEN Append(kept[n - 1], lines[n]) ELSE kept[n - 1]
  IN kept[Len(lines)]

\* The copy starts at the beginning of the new file, whatever got there since.
CloseCopies(c) ==
  /\ At(c, "copy") /\ Goto(c, "remove")
  /\ LET kept == Kept(arg[c], line[fp[c]]) IN
     line' = [line EXCEPT ![fps[c]] = kept \o SubSeq(@, Len(kept) + 1, Len(@))]
  /\ fp' = [fp EXCEPT ![c] = None] /\ fps' = [fps EXCEPT ![c] = None]
  /\ UNCHANGED <<names, have, arg, wanted, torn>>

CloseRemoves(c) ==
  /\ At(c, "remove") /\ Goto(c, "idle")
  /\ temp' = None
  /\ UNCHANGED <<records, line, have, arg, open, wanted, torn>>

----------------------------------------------------------------------------
\* pop_download makes the file when there is none, like check.
PopFindsNone(c) ==
  /\ Begins(c, arg[c], "idle")
  /\ records = None
  /\ \E i \in Inodes : Truncated(i, records) /\ records' = i
  /\ UNCHANGED <<temp, have, open, wanted>>

Pending == IF records = None THEN {} ELSE Lines(records) \ have

\* download_handle gives free the address of a local variable before it asks
\* for data: with anything pending, the process aborts.
DownloadHandle(c) ==
  /\ At(c, "idle") /\ Pending # {}
  /\ Goto(c, "dead")
  /\ UNCHANGED <<names, line, have, arg, open, wanted, torn>>

\* Somebody else fetches the file; delete_download deletes nothing (its test
\* for a missing file is inverted).
Fetched(s) ==
  /\ have' = have \cup {s}
  /\ UNCHANGED <<names, line, pc, arg, open, wanted, torn>>

Dies(c) ==
  /\ ~At(c, "idle") /\ ~At(c, "dead") /\ Goto(c, "dead")
  /\ torn' = (torn \/ Closing(c))
  /\ fp' = [fp EXCEPT ![c] = None] /\ fps' = [fps EXCEPT ![c] = None]
  /\ UNCHANGED <<names, line, have, arg, wanted>>

Restarts(c) ==
  /\ At(c, "dead") /\ Goto(c, "idle")
  /\ UNCHANGED <<names, line, have, arg, open, wanted, torn>>

Call(c) ==
  \/ \E s \in Names : PushChecks(c, s) \/ CloseFindsNone(c, s) \/ CloseChecks(c, s)
  \/ PushCreates(c) \/ PushOpens(c) \/ PushWrites(c)
  \/ CloseMoves(c) \/ CloseReopens(c) \/ CloseFaults(c) \/ CloseCopies(c) \/ CloseRemoves(c)
  \/ PopFindsNone(c) \/ DownloadHandle(c) \/ Dies(c) \/ Restarts(c)

Next ==
  \/ \E c \in Clients : Call(c)
  \/ \E s \in Names : Fetched(s)

Spec == Init /\ [][Next]_vars

----------------------------------------------------------------------------
TypeOK ==
  /\ {records, temp} \subseteq Inodes \cup {None}
  /\ \A i \in Inodes : Lines(i) \subseteq Names /\ Len(line[i]) <= 2 * MaxLines
  /\ have \subseteq Names /\ wanted \subseteq Names
  /\ pc \in [Clients -> {"idle", "dead", "create", "append", "write",
                         "mv", "reopen", "copy", "remove"}]
  /\ arg \in [Clients -> Names \cup {None}]
  /\ fp \in [Clients -> Inodes \cup {None}] /\ fps \in [Clients -> Inodes \cup {None}]
  /\ torn \in BOOLEAN

(* What was pushed is found until it is closed, by every process and after *)
(* any number of deaths and restarts, and what was closed is gone.         *)
(* Pushes may overlap.  What loses lines is a close_download that meets    *)
(* another call or does not come to its end, and a push that makes the     *)
(* file while another call is under way.                                   *)
RecordsKept ==
  ~torn /\ (\A c \in Clients : ~Closing(c)) =>
    /\ wanted # {} => records # None /\ wanted \subseteq Lines(records)
    /\ records # None /\ (\A c \in Clients : At(c, "idle")) => Lines(records) \subseteq wanted
=============================================================================
