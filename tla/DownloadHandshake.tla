-------------------------- MODULE DownloadHandshake --------------------------
(***************************************************************************)
(* Shared memory 0 of downloads.h, over which the C program asks a JVM for *)
(* the data of a file: a request word, a name at byte 4, data at byte 128. *)
(*   25 (C) send me data     12 (JVM) here it is     24 (C) taken          *)
(*   100 (JVM) a new name to download                128 (JVM) stop        *)
(* The word is the only synchronisation.  Each access to the memory is a   *)
(* step.  The JVM is not in this repository: it does here what the comment *)
(* at downloads.h:272 and the C side's reads require of it.                *)
(***************************************************************************)
EXTENDS Naturals, Sequences

CONSTANTS Names,      \* files to be asked for
          MaxLines    \* bound on the lines of `records'

VARIABLES
  word, name, data,   \* the memory; data is the name of the file it is of
  pc, arg,            \* the C program, and the name it asks for
  got,                \* what its last get_data returned
  lines,              \* what it wrote to `records'
  have,               \* the files in the directory downloads
  jpc, jarg,          \* the JVM, and the name it has read or posts
  (* history *)
  posted,             \* names the JVM posted
  crossed             \* the word was overtaken, as said at DataForName

memory == <<word, name, data>>
program == <<pc, arg, got, lines, have>>
jvm == <<jpc, jarg, posted>>
vars == <<memory, program, jvm, crossed>>

Nothing == "nothing"

Init ==
  /\ word = 0 /\ name = Nothing /\ data = Nothing
  /\ pc = "idle" /\ arg = Nothing /\ got = Nothing /\ lines = <<>>
  /\ have \in SUBSET Names
  /\ jpc = "idle" /\ jarg = Nothing /\ posted = {}
  /\ crossed = FALSE

----------------------------------------------------------------------------
\* get_data says that it waits, and stores the name after that.
Asks(s) ==
  /\ pc = "idle" /\ pc' = "store"
  /\ word' = 25 /\ arg' = s
  /\ crossed' = (crossed \/ jpc = "post")
  /\ UNCHANGED <<name, data, got, lines, have, jvm>>

Stores ==
  /\ pc = "store" /\ pc' = "spin"
  /\ name' = arg
  /\ crossed' = (crossed \/ jpc = "answer" \/ word = 12)
  /\ UNCHANGED <<word, data, arg, got, lines, have, jvm>>

\* Bug: any word but its own ends the wait.
SeesAny ==
  /\ pc = "spin" /\ word \in {0, 12, 24, 25} /\ pc' = "copy"
  /\ UNCHANGED <<memory, arg, got, lines, have, jvm, crossed>>

Sees ==
  /\ pc = "spin" /\ word = 12 /\ pc' = "copy"
  /\ UNCHANGED <<memory, arg, got, lines, have, jvm, crossed>>

Copies ==
  /\ pc = "copy" /\ pc' = "taken"
  /\ got' = data
  /\ UNCHANGED <<memory, arg, lines, have, jvm, crossed>>

Returns ==
  /\ pc = "taken" /\ pc' = "idle"
  /\ word' = 24
  /\ UNCHANGED <<name, data, arg, got, lines, have, jvm, crossed>>

----------------------------------------------------------------------------
\* listen_downloads: 128 ends the program.
ListenStops ==
  /\ pc = "idle" /\ word = 128 /\ pc' = "stopped"
  /\ UNCHANGED <<memory, arg, got, lines, have, jvm, crossed>>

\* 100 stays where it is: the name is pushed again by every call.
ListenPushes ==
  /\ pc = "idle" /\ word = 100 /\ pc' = "handle"
  /\ Len(lines) < MaxLines /\ lines' = Append(lines, name)
  /\ UNCHANGED <<memory, arg, got, have, jvm, crossed>>

\* download_handle comes back when the directory has all of them; else it
\* frees a local variable and the process is aborted.
HandleReturns ==
  /\ pc = "handle" /\ pc' = "idle"
  /\ \A k \in DOMAIN lines : lines[k] \in have
  /\ UNCHANGED <<memory, arg, got, lines, have, jvm, crossed>>

HandleAborts ==
  /\ pc = "handle" /\ pc' = "dead"
  /\ \E k \in DOMAIN lines : lines[k] \notin have
  /\ UNCHANGED <<memory, arg, got, lines, have, jvm, crossed>>

\* begin_state opens the memory as it was left; sem_init is never reached.
Begins ==
  /\ pc \in {"dead", "stopped"} /\ pc' = "idle"
  /\ got' = Nothing /\ arg' = Nothing
  /\ UNCHANGED <<memory, lines, have, jvm, crossed>>

----------------------------------------------------------------------------
\* The JVM answers a 25: reads the name, writes the data, sets 12.
JvmReads ==
  /\ jpc = "idle" /\ word = 25 /\ jpc' = "answer"
  /\ jarg' = name
  /\ crossed' = (crossed \/ pc = "store")
  /\ UNCHANGED <<memory, program, posted>>

JvmWrites ==
  /\ jpc = "answer" /\ jpc' = "tell"
  /\ data' = jarg
  /\ UNCHANGED <<word, name, program, jarg, posted, crossed>>

JvmTells ==
  /\ jpc = "tell" /\ jpc' = "idle"
  /\ word' = 12
  /\ UNCHANGED <<name, data, program, jarg, posted, crossed>>

\* It posts a name while nobody asks for data, in two steps.
JvmPosts(s) ==
  /\ jpc = "idle" /\ word \in {0, 24} /\ jpc' = "post"
  /\ jarg' = s /\ name' = s /\ posted' = posted \cup {s}
  /\ UNCHANGED <<word, data, program, crossed>>

JvmSignals ==
  /\ jpc = "post" /\ jpc' = "idle"
  /\ word' = 100
  /\ UNCHANGED <<name, data, program, jarg, posted, crossed>>

JvmStops ==
  /\ jpc = "idle" /\ word \in {0, 24, 100} /\ word' = 128
  /\ UNCHANGED <<name, data, program, jvm, crossed>>

\* Restarted after 128, it finds the word free again.
JvmBegins ==
  /\ jpc = "idle" /\ word \in {100, 128} /\ word' = 0
  /\ UNCHANGED <<name, data, program, jvm, crossed>>

Next ==
  \/ \E s \in Names : Asks(s) \/ JvmPosts(s)
  \/ Stores \/ Sees \/ Copies \/ Returns
  \/ ListenStops \/ ListenPushes \/ HandleReturns \/ HandleAborts \/ Begins
  \/ JvmReads \/ JvmWrites \/ JvmTells \/ JvmSignals \/ JvmStops \/ JvmBegins

Spec == Init /\ [][Next]_vars

----------------------------------------------------------------------------
TypeOK ==
  /\ word \in {0, 12, 24, 25, 100, 128}
  /\ {name, data, arg, got, jarg} \subseteq Names \cup {Nothing}
  /\ pc \in {"idle", "store", "spin", "copy", "taken", "handle", "dead", "stopped"}
  /\ jpc \in {"idle", "answer", "tell", "post"}
  /\ lines \in Seq(Names \cup {Nothing}) /\ have \subseteq Names
  /\ posted \subseteq Names /\ crossed \in BOOLEAN

(* get_data returns the data of the file it was called for, and what       *)
(* listen_downloads pushes is a name the JVM posted.  Two crossings break  *)
(* it: the JVM takes the 25 for a request before the name is there, and    *)
(* get_data sets its 25 between the name and the 100 of a post.            *)
DataForName ==
  ~crossed =>
    /\ pc = "taken" => got = arg
    /\ \A k \in DOMAIN lines : lines[k] \in posted
=============================================================================
