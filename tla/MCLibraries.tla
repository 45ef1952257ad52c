----------------------------- MODULE MCLibraries -----------------------------
(***************************************************************************)
(* The library headers side by side for TLC.  They share no state and no   *)
(* call of one is needed to reach a state of another, so every behaviour   *)
(* is one of a single library, `which', chosen at the start.  The sum of   *)
(* the state spaces is searched, not the product.  The ownership table     *)
(* has its own variables; the others use s1, s2, ... for theirs, as many   *)
(* as they need.                                                           *)
(***************************************************************************)
EXTENDS OwnerTable, LinkedList, TLC

CONSTANTS Ids, Junk, Promises, Pids, Names, Clients, Inodes, MaxLines, MaxSize, MaxPuts

VARIABLES which, s1, s2, s3, s4, s5, s6, s7, s8, s9, s10, s11, s12, s13, s14,
  s15, s16, s17, s18, s19

Process == INSTANCE ProcessTable WITH next <- s1, pid <- s2, name <- s3, live <-
  s4, head_tracker <- s5, tail_tracker <- s6, proc <- s7, ours <- s8, crashed <-
  s9, doing <- s10, v <- s11, image <- s12, stale <- s13, shot <- s14, missed <-
  s15, alone <- s16, gone <- s17, updated <- s18, target <- s19

Space == INSTANCE SpaceList WITH next <- s1, value <- s2, live <- s3, head <-
  s4, records <- s5, crashed <- s6, opened <- s7, astray <- s8

Promise == INSTANCE PromiseList WITH next <- s1, live <- s2, head <- s3, temp <-
  s4, handle <- s5, thread <- s6, answer <- s7, crashed <- s8, overtaken <- s9,
  reused <- s10

Queue == INSTANCE DownloadQueue WITH records <- s1, temp <- s2, line <- s3, have
  <- s4, pc <- s5, arg <- s6, fp <- s7, fps <- s8, wanted <- s9, torn <- s10

File == INSTANCE SocketFile WITH up <- s1, stream <- s2, puts <- s3, cut <- s4,
  left <- s5, pc <- s6, gets <- s7, togo <- s8, local <- s9, ok <- s10, size <-
  s11, short <- s12

Ask == INSTANCE DownloadHandshake WITH word <- s1, name <- s2, data <- s3, pc <-
  s4, arg <- s5, got <- s6, lines <- s7, have <- s8, jpc <- s9, jarg <- s10,
  posted <- s11, crossed <- s12

\* Numbers bound loops and lengths, and fork returns positive ones; no file on
\* disk is the absent one, and no record is found by what a freed one holds.
ASSUME FileBounds == MaxSize \in Nat /\ MaxPuts \in Nat
ASSUME LinesBound == MaxLines \in Nat
ASSUME PromisesBound == Promises \in Nat
ASSUME PidsArePositive == Pids \subseteq Nat \ {0}
ASSUME NoneIsNoInode == Queue!None \notin Inodes
ASSUME JunkIsNoNumber == Junk \notin Ids

From1 == <<s1, s2, s3, s4, s5, s6, s7, s8, s9, s10, s11, s12, s13, s14, s15,
  s16, s17, s18, s19>>
From9 == <<s9, s10, s11, s12, s13, s14, s15, s16, s17, s18, s19>>
From11 == <<s11, s12, s13, s14, s15, s16, s17, s18, s19>>
From13 == <<s13, s14, s15, s16, s17, s18, s19>>

\* What a library has no use for is 0 all the time.
Unused13 == s13 = 0 /\ s14 = 0 /\ s15 = 0 /\ s16 = 0 /\ s17 = 0 /\ s18 = 0 /\
  s19 = 0
Unused11 == s11 = 0 /\ s12 = 0 /\ Unused13
Unused9 == s9 = 0 /\ s10 = 0 /\ Unused11
Unused1 == s1 = 0 /\ s2 = 0 /\ s3 = 0 /\ s4 = 0 /\ s5 = 0 /\ s6 = 0 /\ s7 = 0 /\
  s8 = 0 /\ Unused9

LibrariesInit ==
  /\ Init
  /\ \/ which = "owner" /\ Unused1
     \/ which = "process" /\ Process!Init
     \/ which = "space" /\ Space!Init /\ Unused9
     \/ which = "promise" /\ Promise!Init /\ Unused11
     \/ which = "queue" /\ Queue!Init /\ Unused11
     \/ which = "file" /\ File!Init /\ Unused13
     \/ which = "ask" /\ Ask!Init /\ Unused13

LibrariesNext ==
  /\ UNCHANGED which
  /\ \/ which = "owner" /\ Next /\ UNCHANGED From1
     \/ /\ which # "owner" /\ UNCHANGED vars
        /\ \/ which = "process" /\ Process!Next
           \/ which = "space" /\ Space!Next /\ UNCHANGED From9
           \/ which = "promise" /\ Promise!Next /\ UNCHANGED From11
           \/ which = "queue" /\ Queue!Next /\ UNCHANGED From11
           \/ which = "file" /\ File!Next /\ UNCHANGED From13
           \/ which = "ask" /\ Ask!Next /\ UNCHANGED From13

LibrariesSpec == LibrariesInit /\ [][LibrariesNext]_<<which, vars, From1>>

\* Where addresses, numbers and inodes are the same model values, and names,
\* clients and tables are, a library sees one kind or the other permuted
\* together, which is a symmetry of each.
LibrariesSymmetry == Permutations(Addr) \cup Permutations(Names)

----------------------------------------------------------------------------
\* Type invariants of all of them.
TypesOK ==
  CASE which = "owner" -> TypeOK
    [] which = "space" -> Space!TypeOK
    [] which = "promise" -> Promise!TypeOK
    [] which = "process" -> Process!TypeOK
    [] which = "queue" -> Queue!TypeOK
    [] which = "file" -> File!TypeOK
    [] which = "ask" -> Ask!TypeOK

\* memory.h: what is opened and not closed is found, in allocated nodes.
RegistryIsExact == which = "space" => Space!RegistryIsExact

\* threadpool.h: awaiting from the last promise to the first joins all.
AwaitJoins == which = "promise" => Promise!AwaitJoins

\* process.h: who was started or added is in the table until taken out.
TableIsWhole == which = "process" => Process!TableIsWhole

\* process.h: no signal for the dead hits a running child; none is claimed
\* that was not sent, but for programs with a stale entry.
SignalsAreAimed == which = "process" => Process!SignalsAreAimed

\* process.h: a reader of the table's image sees entries of the table.
ImageIsTable == which = "process" => Process!ImageIsTable

\* downloads.h: what was pushed is found until it is closed.
RecordsKept == which = "queue" => Queue!RecordsKept

\* internet.h: the n-th get_file gets the n-th file, or the front of it.
ReceivedInStep == which = "file" => File!ReceivedInStep

\* downloads.h: get_data gets the data of the file it names.
DataForName == which = "ask" => Ask!DataForName
=============================================================================
