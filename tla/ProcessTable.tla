---------------------------- MODULE ProcessTable ----------------------------
(***************************************************************************)
(* The process table of process.h: a linked list of the children that a    *)
(* process started, or of processes it was told of, with calls to signal   *)
(* them, to wait for them, and to pass the table to another process        *)
(* through a shared-memory file.                                           *)
(*                                                                         *)
(* One action per call, but for the two that another process can watch:    *)
(* shutdown_dead waits once per entry, and update writes entry by entry    *)
(* with nobody kept out, since both sides initialise the semaphore they    *)
(* then wait for.  While one of the two runs, `doing' says so.             *)
(***************************************************************************)
EXTENDS LinkedList

CONSTANTS Pids,       \* a set of positive numbers: fork hands them out in order
          Names,      \* the programs
          Junk        \* what a freed entry holds as its name

VARIABLES
  next, pid, name,    \* the heap: link, pid and f_name of every node
  live,               \* nodes that are allocated
  head_tracker, tail_tracker,
  proc,               \* of each pid: "unborn", "running", "zombie", "reaped"
  ours,               \* the pids this process forked
  crashed,            \* a null pointer was followed, or a node freed twice
  doing, v,           \* "nothing", "shutdown_dead" or "update", and its cursor
  image,              \* the files another process can map: none, or one with entries
  (* history *)
  stale,              \* programs with a process waited for, or of somebody else
  shot,               \* running children signalled by calls that wait for the dead
  missed,             \* programs process_kill only claims to have signalled
  alone,              \* a single entry was shut down
  gone,               \* pids whose entry was taken out of the table
  updated,            \* update was called
  target              \* the table at the first call

heap == <<next, pid, name, live, head_tracker, tail_tracker>>
file == <<image, updated, target>>
past == <<stale, shot, missed, alone, gone>>
vars == <<heap, proc, ours, crashed, doing, v, file, past>>

Init ==
  /\ next = [a \in Addr |-> NULL]
  /\ pid = [a \in Addr |-> 0]
  /\ name = [a \in Addr |-> Junk]
  /\ live = {} /\ head_tracker = NULL /\ tail_tracker = NULL
  /\ proc = [p \in Pids |-> "unborn"] /\ ours = {}
  /\ crashed = FALSE /\ doing = "nothing" /\ v = NULL
  /\ image = {} /\ updated = FALSE /\ target = <<>>
  /\ stale = {} /\ shot = {} /\ missed = {} /\ alone = FALSE /\ gone = {}

----------------------------------------------------------------------------
Way == Walk(head_tracker, next)
Nodes == OnWalk(head_tracker, next)
EntryOf(s) == PlaceOf(Way, LAMBDA a : name[a] = s)
Listed == LET nodes == Nodes IN {pid[a] : a \in nodes}

Exits(p) ==
  /\ proc[p] = "running"
  /\ proc' = [proc EXCEPT ![p] = "zombie"]
  /\ UNCHANGED <<heap, ours, crashed, doing, v, file, past>>

\* The parent of a process of somebody else waits for it.
IsReaped(p) ==
  /\ proc[p] = "zombie" /\ p \notin ours
  /\ proc' = [proc EXCEPT ![p] = "reaped"]
  /\ UNCHANGED <<heap, ours, crashed, doing, v, file, past>>

\* The node that add_track and process_add make, behind tail_tracker.
Appended(a, p, s) ==
  /\ next' = IF tail_tracker = NULL THEN [next EXCEPT ![a] = NULL]
             ELSE [next EXCEPT ![tail_tracker] = a, ![a] = NULL]
  /\ head_tracker' = IF tail_tracker = NULL THEN a ELSE head_tracker
  /\ tail_tracker' = a
  /\ pid' = [pid EXCEPT ![a] = p]
  /\ name' = [name EXCEPT ![a] = s]
  /\ live' = live \cup {a}

NextPid(p) == proc[p] = "unborn" /\ \A q \in Pids : proc[q] = "unborn" => p <= q

\* process_create, and process_add for a process of somebody else.
ProcessCreate(s, mine) ==
  /\ \E a \in Addr \ live, p \in Pids :
       /\ NextPid(p)
       /\ Appended(a, p, s)
       /\ proc' = [proc EXCEPT ![p] = "running"]
       /\ ours' = IF mine THEN ours \cup {p} ELSE ours
  /\ stale' = IF mine THEN stale ELSE stale \cup {s}
  /\ UNCHANGED <<crashed, doing, v, file, shot, missed, alone, gone>>

\* fork fails: the loop that looks for the last entry but one tests
\* head_tracker, which it does not move, and ends in a null pointer.  A list
\* of one entry passes: it is freed, and head_tracker goes on pointing to it.
ForkFails ==
  /\ \E a \in Addr \ live :
       IF tail_tracker # NULL
       THEN /\ crashed' = TRUE
            /\ UNCHANGED heap
       ELSE /\ head_tracker' = a
            /\ next' = [next EXCEPT ![a] = NULL]
            /\ pid' = [pid EXCEPT ![a] = 0]
            /\ UNCHANGED <<name, live, tail_tracker, crashed>>
  /\ UNCHANGED <<proc, ours, doing, v, file, past>>

----------------------------------------------------------------------------
(* Signals.  kill succeeds on running processes and on zombies, and a      *)
(* freed entry holds no process.                                           *)
Killable(p, state) == p \in Pids /\ state[p] \in {"running", "zombie"}
Signalled(ps, state) ==
  [p \in Pids |-> IF p \in ps /\ state[p] = "running" THEN "zombie" ELSE state[p]]

\* Bug: the tail is not moved back when the last entry goes.
UnlinkedKeepsTail(point, back_tr) ==
  /\ IF back_tr = NULL
     THEN head_tracker' = next[point] /\ UNCHANGED next
     ELSE next' = [next EXCEPT ![back_tr] = next[point]] /\ UNCHANGED head_tracker
  /\ live' = live \ {point}
  /\ name' = [name EXCEPT ![point] = Junk]
  /\ pid' = [pid EXCEPT ![point] = 0]
  /\ UNCHANGED tail_tracker

\* process_kill takes an entry out of the list, given the one before it.
Unlinked(point, back_tr) ==
  /\ IF back_tr = NULL
     THEN head_tracker' = next[point] /\ UNCHANGED next
     ELSE next' = [next EXCEPT ![back_tr] = next[point]] /\ UNCHANGED head_tracker
  /\ tail_tracker' = IF next[point] = NULL THEN back_tr ELSE tail_tracker
  /\ live' = live \ {point}
  /\ name' = [name EXCEPT ![point] = Junk]
  /\ pid' = [pid EXCEPT ![point] = 0]

\* Bug: the last entry with the name is tried, the others are passed over.
TriedLast(s, state) ==
  LET way == Way
      i == CHOOSE k \in DOMAIN way :
             name[way[k]] = s /\ \A j \in (k + 1)..Len(way) : name[way[j]] # s
      p == pid[way[i]]
  IN IF Killable(p, state)
     THEN Unlinked(way[i], Before(way, i)) /\ proc' = Signalled({p}, state) /\ gone' = gone \cup {p}
     ELSE proc' = state /\ UNCHANGED <<heap, gone>>

\* The loop of process_kill, from a state of the processes: only the first
\* entry with the name is tried, and it stays when the signal fails.
Tried(s, state) ==
  LET way == Way
      i == EntryOf(s)
      p == pid[way[i]]
  IN IF Killable(p, state)
     THEN Unlinked(way[i], Before(way, i)) /\ proc' = Signalled({p}, state) /\ gone' = gone \cup {p}
     ELSE proc' = state /\ UNCHANGED <<heap, gone>>

\* 0 for each name in the table, 102 or 105 for others.
ProcessKill(s) ==
  /\ EntryOf(s) # 0
  /\ Tried(s, proc)
  /\ missed' = IF /\ gone' = gone
                  /\ \E a \in Nodes : name[a] = s /\ Killable(pid[a], proc)
               THEN missed \cup {s} ELSE missed
  /\ UNCHANGED <<ours, crashed, doing, v, file, stale, shot, alone>>

\* Two entries or more are signalled and freed.  With one, the loop is over
\* before it compares with tail_tracker, which stays.
AllShutDown(state) ==
  LET nodes == Nodes
      pids == {pid[a] : a \in nodes}
      single == Cardinality(nodes) = 1
  IN /\ crashed' = ~(nodes \subseteq live)
     /\ live' = live \ nodes
     /\ name' = [a \in Addr |-> IF a \in nodes THEN Junk ELSE name[a]]
     /\ pid' = [a \in Addr |-> IF a \in nodes THEN 0 ELSE pid[a]]
     /\ head_tracker' = NULL
     /\ tail_tracker' = IF single THEN tail_tracker ELSE NULL
     /\ proc' = Signalled(pids, state)
     /\ gone' = gone \cup (pids \cap Pids)
     /\ alone' = (alone \/ single)
     /\ UNCHANGED next

ShutDown ==
  /\ head_tracker # NULL
  /\ AllShutDown(proc)
  /\ UNCHANGED <<ours, doing, v, file, stale, shot, missed>>

----------------------------------------------------------------------------
(* Waiting.  waitpid returns when a child has ended; for a process of      *)
(* somebody else, and for one that was waited for, it returns at once.    *)
WaitReturns(p) == p \in ours => proc[p] # "running"
Reaped(ps) == [p \in Pids |-> IF p \in ps \cap ours THEN "reaped" ELSE proc[p]]
Running(ps) == {p \in ps \cap ours : proc[p] = "running"}

\* block(s, 0) and block(s, 1).
Block(s, stats) ==
  /\ EntryOf(s) # 0
  /\ LET p == pid[Way[EntryOf(s)]]
     IN /\ WaitReturns(p)
        /\ IF stats THEN Tried(s, Reaped({p}))
           ELSE proc' = Reaped({p}) /\ UNCHANGED <<heap, gone>>
  /\ stale' = stale \cup {s}
  /\ shot' = shot \cup {p \in Running(gone') : p \notin gone}
  /\ UNCHANGED <<ours, crashed, doing, v, file, missed, alone>>

\* block("*", 0) and block("*", 1).
BlockAll(stats) ==
  /\ head_tracker # NULL
  /\ \A p \in Listed : WaitReturns(p)
  /\ IF stats THEN AllShutDown(Reaped(Listed))
     ELSE proc' = Reaped(Listed) /\ UNCHANGED <<heap, crashed, gone, alone>>
  /\ stale' = stale \cup {name[a] : a \in Nodes}
  /\ shot' = shot \cup {p \in Running(gone') : p \notin gone}
  /\ UNCHANGED <<ours, doing, v, file, missed>>

ShutdownDead ==
  /\ head_tracker # NULL
  /\ doing' = "shutdown_dead" /\ v' = head_tracker
  /\ UNCHANGED <<heap, proc, ours, crashed, file, past>>

\* Bug: WNOHANG without a look at what waitpid returns.
ShutdownDeadNoWait ==
  /\ doing = "shutdown_dead"
  /\ Tried(name[v], proc)
  /\ stale' = stale \cup {name[v]}
  /\ shot' = shot \cup {p \in Running(gone') : p \notin gone}
  /\ v' = next[v]
  /\ doing' = IF next[v] = NULL THEN "nothing" ELSE doing
  /\ UNCHANGED <<ours, crashed, file, missed, alone>>

\* One turn of its loop: wait, process_kill with the entry's name, go on
\* from an entry that may have been freed.
ShutdownDeadTurn ==
  /\ doing = "shutdown_dead"
  /\ WaitReturns(pid[v])
  /\ Tried(name[v], Reaped({pid[v]}))
  /\ stale' = stale \cup {name[v]}
  /\ shot' = shot \cup {p \in Running(gone') : p \notin gone}
  /\ v' = next[v]
  /\ doing' = IF next[v] = NULL THEN "nothing" ELSE doing
  /\ UNCHANGED <<ours, crashed, file, missed, alone>>

----------------------------------------------------------------------------
(* The image.  The first update maps a new file and writes into it.  A     *)
(* later one would unlink it and write into the mapping it has, which      *)
(* nobody can open: the model ends with one.                               *)
Update ==
  /\ ~updated
  /\ updated' = TRUE
  /\ image' = {<<>>}
  /\ target' = [i \in DOMAIN Way |-> <<pid[Way[i]], name[Way[i]]>>]
  /\ IF head_tracker # NULL
     THEN doing' = "update_pid" /\ v' = head_tracker
     ELSE UNCHANGED <<doing, v>>
  /\ UNCHANGED <<heap, proc, ours, crashed, past>>

UpdatePid ==
  /\ doing = "update_pid"
  /\ image' = {Append(f, <<pid[v], Junk>>) : f \in image}
  /\ doing' = "update_name"
  /\ UNCHANGED <<heap, proc, ours, crashed, v, updated, target, past>>

\* Bug: the loop is over when the last entry is reached.
UpdateNameButLast ==
  /\ doing = "update_name"
  /\ image' = {[f EXCEPT ![Len(f)] = <<pid[v], name[v]>>] : f \in image}
  /\ v' = next[v]
  /\ doing' = IF next[v] = NULL \/ next[next[v]] = NULL THEN "nothing" ELSE "update_pid"
  /\ UNCHANGED <<heap, proc, ours, crashed, updated, target, past>>

UpdateName ==
  /\ doing = "update_name"
  /\ image' = {[f EXCEPT ![Len(f)] = <<pid[v], name[v]>>] : f \in image}
  /\ v' = next[v]
  /\ doing' = IF next[v] = NULL THEN "nothing" ELSE "update_pid"
  /\ UNCHANGED <<heap, proc, ours, crashed, updated, target, past>>

\* What process_init adds to the table of another process (none of those in
\* this one), for each file it may open.  It sets the semaphore in the file to
\* free, takes it, and reads up to the first zero; where there is no file, it
\* creates an empty one, and faults.
ProcessInit == image

Calls ==
  \/ \E s \in Names, mine \in BOOLEAN : ProcessCreate(s, mine)
  \/ ForkFails
  \/ \E s \in Names : ProcessKill(s)
  \/ ShutDown
  \/ \E s \in Names, stats \in BOOLEAN : Block(s, stats)
  \/ \E stats \in BOOLEAN : BlockAll(stats)
  \/ ShutdownDead
  \/ Update

Next ==
  /\ ~crashed
  /\ \/ doing = "nothing" /\ Calls
     \/ ShutdownDeadTurn \/ UpdatePid \/ UpdateName
     \/ \E p \in Pids : Exits(p) \/ IsReaped(p)

Spec == Init /\ [][Next]_vars

----------------------------------------------------------------------------
TypeOK ==
  /\ next \in [Addr -> Addr \cup {NULL}]
  /\ pid \in [Addr -> Pids \cup {0}]
  /\ name \in [Addr -> Names \cup {Junk}]
  /\ live \subseteq Addr
  /\ {head_tracker, tail_tracker, v} \subseteq Addr \cup {NULL}
  /\ proc \in [Pids -> {"unborn", "running", "zombie", "reaped"}]
  /\ ours \subseteq Pids
  /\ doing \in {"nothing", "shutdown_dead", "update_pid", "update_name"}
  /\ stale \subseteq Names \cup {Junk} /\ missed \subseteq Names
  /\ shot \cup gone \subseteq Pids
  /\ {crashed, alone, updated} \subseteq BOOLEAN

(* Every process that was started or added is in the table until a call    *)
(* takes it out, whatever was killed, waited for or failed to fork before, *)
(* and in a node that is allocated; but not after a shutdown of a single   *)
(* process, whose freed entry tail_tracker goes on denoting.               *)
TableIsWhole ==
  ~crashed /\ ~alone =>
    LET listed == {pid[a] : a \in Nodes \cap live}
    IN \A p \in Pids : proc[p] # "unborn" /\ p \notin gone => p \in listed

(* Signals go where they are meant to.  The calls that wait for the dead   *)
(* never signal a running child, also when programs run twice; and when    *)
(* process_kill says it sent a signal and there was a process of the       *)
(* program to get it, one did, unless an entry of the program belongs to   *)
(* somebody else or was waited for: the entry of a process that is no more *)
(* stays in front and hides the others.                                    *)
SignalsAreAimed == shot = {} /\ missed \subseteq stale

(* Another process that reads the image of the first update gets entries   *)
(* of the table in order, the last perhaps without its name, and all of    *)
(* them once update has returned, while the table may go on changing.      *)
ImageIsTable ==
  updated =>
    /\ ProcessInit # {}
    /\ \A read \in ProcessInit :
         /\ Len(read) <= Len(target)
         /\ \A i \in DOMAIN read :
              \/ read[i] = target[i]
              \/ /\ i = Len(read) /\ doing = "update_name"
                 /\ read[i] = <<target[i][1], Junk>>
         /\ doing \notin {"update_pid", "update_name"} => read = target
=============================================================================
