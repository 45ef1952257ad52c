------------------------------ MODULE SpaceList ------------------------------
(***************************************************************************)
(* The registry of mapped records of memory.h: a process opens             *)
(* shared-memory files under numbers and keeps them in a linked list from  *)
(* `head' to `records', the record created last.                           *)
(*                                                                         *)
(* One action per call.  The code sets `records' in creat_space only, so   *)
(* after the last record was closed it points to a freed node, and the     *)
(* next creat_space links the new record behind that: nobody who starts at *)
(* `head' finds it.  The first record cannot be closed at all.             *)
(*                                                                         *)
(* What is mapped, and the files under /dev/shm, are left out: they follow *)
(* the list, and SqlChannel is about a file that does not.                 *)
(***************************************************************************)
EXTENDS LinkedList

CONSTANTS Ids,      \* the numbers records are created under
          Junk      \* the value field of a node nobody has filled in

VARIABLES
  next,             \* the heap: link of every node ...
  value,            \* ... and the number it carries
  live,             \* addresses malloc handed out and nobody freed
  head, records,    \* the two globals
  crashed,          \* a null pointer was followed, or a node freed twice
  (* history *)
  opened,           \* numbers created and not closed, as the callers know it
  astray            \* a record was linked behind a freed node

list == <<next, value, live, head, records, crashed>>
vars == <<list, opened, astray>>

Init ==
  /\ next = [a \in Addr |-> NULL]
  /\ value = [a \in Addr |-> Junk]
  /\ live = {} /\ head = NULL /\ records = NULL /\ crashed = FALSE
  /\ opened = {} /\ astray = FALSE

----------------------------------------------------------------------------
Way == Walk(head, next)

\* find_space: the place of the first node with the number, 0 if none.
FindSpace(s) == PlaceOf(Way, LAMBDA a : value[a] = s)

\* What creat_space does before it looks at anything else but the number:
\* a node from malloc becomes the last one.
Linked(a) ==
  /\ next' = IF records = NULL THEN [next EXCEPT ![a] = NULL]
             ELSE [next EXCEPT ![records] = a, ![a] = NULL]
  /\ head' = IF records = NULL THEN a ELSE head
  /\ records' = a
  /\ live' = live \cup {a}
  /\ astray' = (astray \/ (records # NULL /\ records \notin live))

CreatSpace(s) ==
  /\ FindSpace(s) = 0
  /\ \E a \in Addr \ live :
       /\ Linked(a)
       /\ value' = [value EXCEPT ![a] = s]
  /\ opened' = opened \cup {s}
  /\ UNCHANGED crashed

\* A negative number, or shm_open fails: -1 or -2, with the node in the list.
CreatFails ==
  /\ \E a \in Addr \ live :
       /\ Linked(a)
       /\ value' = [value EXCEPT ![a] = Junk]
  /\ UNCHANGED <<crashed, opened>>

\* Bug: the freed node stays linked.
FreedOnly(i) ==
  /\ live' = live \ {Way[i]}
  /\ value' = [value EXCEPT ![Way[i]] = Junk]
  /\ UNCHANGED <<next, head, records, crashed, astray>>

\* Both close_space and unlink_one go to the node, relink and free it.
\* With the first node `backe' is still NULL.
Removed(i) ==
  IF Before(Way, i) = NULL
  THEN crashed' = TRUE /\ UNCHANGED <<next, value, live, head, records, astray>>
  ELSE /\ next' = [next EXCEPT ![Before(Way, i)] = next[Way[i]]]
       /\ live' = live \ {Way[i]}
       /\ value' = [value EXCEPT ![Way[i]] = Junk]
       /\ UNCHANGED <<head, records, crashed, astray>>

CloseSpace(s) ==
  /\ FindSpace(s) # 0
  /\ Removed(FindSpace(s))
  /\ opened' = IF crashed' THEN opened ELSE opened \ {s}

\* clear_space and decouple_space free all nodes and leave head and records
\* as they are; freeing a node a second time aborts.
ClearSpace ==
  LET nodes == OnWalk(head, next) IN
  /\ nodes # {}
  /\ crashed' = ~(nodes \subseteq live)
  /\ live' = live \ nodes
  /\ value' = [a \in Addr |-> IF a \in nodes THEN Junk ELSE value[a]]
  /\ opened' = opened \ {value[a] : a \in nodes}
  /\ UNCHANGED <<next, head, records, astray>>

\* find_space_ptr follows what find_space returns.
FindSpacePtr(s) ==
  /\ FindSpace(s) = 0
  /\ crashed' = TRUE
  /\ UNCHANGED <<next, value, live, head, records, opened, astray>>

Next ==
  /\ ~crashed
  /\ \/ \E s \in Ids : CreatSpace(s) \/ CloseSpace(s) \/ FindSpacePtr(s)
     \/ CreatFails
     \/ ClearSpace

Spec == Init /\ [][Next]_vars

----------------------------------------------------------------------------
TypeOK ==
  /\ next \in [Addr -> Addr \cup {NULL}]
  /\ value \in [Addr -> Ids \cup {Junk}]
  /\ live \subseteq Addr
  /\ {head, records} \subseteq Addr \cup {NULL}
  /\ opened \subseteq Ids
  /\ crashed \in BOOLEAN /\ astray \in BOOLEAN

(* What find_space finds is what the callers opened and did not close, in  *)
(* nodes that are allocated: through any sequence of creations, failed     *)
(* creations and closings, also of the last record and of all of them.     *)
(* The one way out is a creation after that: `records' is stale then.      *)
RegistryIsExact ==
  ~crashed /\ ~astray =>
    \A s \in Ids :
      /\ s \in opened <=> FindSpace(s) # 0
      /\ s \in opened => Way[FindSpace(s)] \in live
=============================================================================
