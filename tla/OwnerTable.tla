----------------------------- MODULE OwnerTable -----------------------------
(***************************************************************************)
(* The ownership table of buffer.h: shared memory 15 holds a counter at    *)
(* index 0 and, behind it, the owner of each pack of data.  Processes make *)
(* or open it, enter themselves with add_validity, ask validity and take   *)
(* over with revalidate.                                                   *)
(*                                                                         *)
(* Nothing is locked.  add_validity is four steps, one per access to the   *)
(* shared counter and table.                                               *)
(***************************************************************************)
EXTENDS Integers, FiniteSets

CONSTANTS Procs,      \* pids, numbers above Cells
          Cells,      \* the integers one can reach through the mapping
          Tables      \* shared-memory files that ever have the name 15

NoTable == "NULL"
Unmapped == "unmapped"

ASSUME OwnersAreNoIndices == Cells \in Nat \ {0} /\ Procs \subseteq Nat \ 0..Cells
ASSUME TablesAreFiles == NoTable \notin Tables /\ Unmapped \notin Tables

VARIABLES
  file,               \* the table that is called 15, or NoTable
  ready,              \* tables of full length; touching another is a fault
  cell,               \* contents of each table
  space,              \* of each process: the table it maps, NoTable, or Unmapped
  pc, index,          \* where a process is, and the index it holds in add_validity
  held,               \* indices a process was given and nobody took over
  (* history *)
  orderly             \* calls came in the order described at OwnsItsSlot

memory == <<file, ready, cell>>
vars == <<memory, space, pc, index, held, orderly>>

Indices == 0..(Cells - 1)

Init ==
  /\ file = NoTable /\ ready = {}
  /\ cell = [t \in Tables |-> [i \in Indices |-> 0]]
  /\ space = [p \in Procs |-> NoTable]
  /\ pc = [p \in Procs |-> "idle"]
  /\ index = [p \in Procs |-> 0]
  /\ held = [p \in Procs |-> {}]
  /\ orderly = TRUE

----------------------------------------------------------------------------
At(p, l) == pc[p] = l
Goto(p, l) == pc' = [pc EXCEPT ![p] = l]

\* shm_open finds the file of that name or makes an empty one.
Fresh == {t \in Tables : t # file /\ t \notin ready /\ \A p \in Procs : space[p] # t}
Opened(t) == IF file # NoTable THEN t = file ELSE t \in Fresh

\* generate_system: opened, extended, mapped; the counter is set afterwards.
\* A record 15 that the process has already is used as it is.
GenerateMaps(p) ==
  /\ At(p, "idle") /\ Goto(p, "generate")
  /\ IF space[p] \in Tables
     THEN UNCHANGED <<file, ready, space>>
     ELSE \E t \in Tables :
            /\ Opened(t)
            /\ file' = t /\ ready' = ready \cup {t}
            /\ space' = [space EXCEPT ![p] = t]
  /\ orderly' = (orderly /\ file = NoTable /\ ready = {})
  /\ UNCHANGED <<cell, index, held>>

GenerateCounts(p) ==
  /\ At(p, "generate") /\ Goto(p, "idle")
  /\ cell' = [cell EXCEPT ![space[p]][0] = 1]
  /\ UNCHANGED <<file, ready, space, index, held, orderly>>

\* start_system maps what there is, also an empty file.
StartSystem(p) ==
  /\ At(p, "idle") /\ space[p] \notin Tables
  /\ \E t \in Tables :
       /\ Opened(t)
       /\ file' = t
       /\ space' = [space EXCEPT ![p] = t]
       /\ orderly' = (orderly /\ t \in ready /\ \A q \in Procs : ~At(q, "generate"))
  /\ UNCHANGED <<ready, cell, pc, index, held>>

\* destroy_system and clear_system take record 15 out of the registry and die
\* when it is the first there (SpaceList).  unlink_one takes the name and
\* leaves the mapping, close_space the other way round; `space' stays.
Dies(p) ==
  /\ At(p, "idle") /\ space[p] \in Tables
  /\ Goto(p, "dead")
  /\ UNCHANGED <<memory, space, index, held, orderly>>

DestroySystem(p) ==
  /\ At(p, "idle") /\ space[p] \in Tables
  /\ file' = NoTable
  /\ UNCHANGED <<ready, cell, space, pc, index, held, orderly>>

ClearSystem(p) ==
  /\ At(p, "idle") /\ space[p] \in Tables
  /\ space' = [space EXCEPT ![p] = Unmapped]
  /\ UNCHANGED <<memory, pc, index, held, orderly>>

----------------------------------------------------------------------------
Reachable(p, i) == space[p] \in ready /\ i \in Indices

\* An access outside the file, or after the mapping has gone.
Faults(p) ==
  /\ \/ At(p, "idle") /\ space[p] # NoTable /\ ~Reachable(p, 0)
     \/ At(p, "store") /\ ~Reachable(p, index[p])
  /\ Goto(p, "dead")
  /\ UNCHANGED <<memory, space, index, held, orderly>>

\* add_validity: space[space[0]++] = owner; return space[0] - 1.
AddReads(p) ==
  /\ At(p, "idle") /\ Reachable(p, 0) /\ Goto(p, "bump")
  /\ index' = [index EXCEPT ![p] = cell[space[p]][0]]
  /\ orderly' = (orderly /\ \A q \in Procs \ {p} : pc[q] \in {"idle", "dead"})
  /\ UNCHANGED <<memory, space, held>>

AddBumps(p) ==
  /\ At(p, "bump") /\ Goto(p, "store")
  /\ cell' = [cell EXCEPT ![space[p]][0] = index[p] + 1]
  /\ UNCHANGED <<file, ready, space, index, held, orderly>>

AddStores(p) ==
  /\ At(p, "store") /\ Reachable(p, index[p]) /\ Goto(p, "return")
  /\ cell' = [cell EXCEPT ![space[p]][index[p]] = p]
  /\ UNCHANGED <<file, ready, space, index, held, orderly>>

\* Bug: the counter is returned, not the index before it.
AddReturnsCounter(p) ==
  /\ At(p, "return") /\ Goto(p, "idle")
  /\ held' = [held EXCEPT ![p] = @ \cup {cell[space[p]][0]}]
  /\ index' = [index EXCEPT ![p] = 0]
  /\ UNCHANGED <<memory, space, orderly>>

\* The counter is read a second time for the answer.
AddReturns(p) ==
  /\ At(p, "return") /\ Goto(p, "idle")
  /\ held' = [held EXCEPT ![p] = @ \cup {cell[space[p]][0] - 1}]
  /\ index' = [index EXCEPT ![p] = 0]
  /\ UNCHANGED <<memory, space, orderly>>

\* A pack's index goes from process to process; revalidate takes it over.
Revalidate(p) ==
  /\ At(p, "idle")
  /\ \E i \in UNION {held[q] : q \in Procs} :
       /\ Reachable(p, i)
       /\ cell' = [cell EXCEPT ![space[p]][i] = p]
       /\ held' = [q \in Procs |-> IF q = p THEN held[q] \cup {i} ELSE held[q] \ {i}]
  /\ UNCHANGED <<file, ready, space, pc, index, orderly>>

Validity(p, i) == space[p] # NoTable /\ cell[space[p]][i] = p

Call(p) ==
  \/ GenerateMaps(p) \/ GenerateCounts(p) \/ StartSystem(p)
  \/ Dies(p) \/ DestroySystem(p) \/ ClearSystem(p) \/ Faults(p)
  \/ AddReads(p) \/ AddBumps(p) \/ AddStores(p) \/ AddReturns(p)
  \/ Revalidate(p)

\* After the first call out of order nothing is promised: it ends the run.
Next == orderly /\ \E p \in Procs : Call(p)

Spec == Init /\ [][Next]_vars

----------------------------------------------------------------------------
TypeOK ==
  /\ file \in Tables \cup {NoTable} /\ ready \subseteq Tables
  /\ cell \in [Tables -> [Indices -> Nat]]
  /\ space \in [Procs -> Tables \cup {NoTable, Unmapped}]
  /\ pc \in [Procs -> {"idle", "dead", "generate", "bump", "store", "return"}]
  /\ index \in [Procs -> Nat]
  /\ held \in [Procs -> SUBSET Int]
  /\ orderly \in BOOLEAN

(* An index that add_validity gave to a process is its own: validity says  *)
(* so until somebody takes it over, and nobody else was given it.  The     *)
(* processes have to see to the order: one generate_system, ended before   *)
(* any other call, and no two add_validity at a time.  Unlinking and       *)
(* unmapping the table, or dying in between, do no harm.                   *)
OwnsItsSlot ==
  orderly =>
    \A p \in Procs : \A i \in held[p] :
      /\ i \in 1..(Cells - 1)
      /\ space[p] \in Tables => Validity(p, i)
      /\ \A q \in Procs \ {p} : i \notin held[q]
=============================================================================
