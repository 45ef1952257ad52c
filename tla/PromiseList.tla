----------------------------- MODULE PromiseList -----------------------------
(***************************************************************************)
(* Promises of threadpool.h: async starts a thread and appends a promise   *)
(* to a list, await finds the promise in the list, joins its thread and    *)
(* frees the promise.                                                      *)
(*                                                                         *)
(* await means to unlink the promise it frees, but assigns the successor   *)
(* to a local variable.  The freed node stays in the list; its link is the *)
(* first word, which the allocator overwrites, and its chunk may be the    *)
(* next promise.  Callers await a promise once.                            *)
(***************************************************************************)
EXTENDS LinkedList

CONSTANT Promises        \* how many calls of async: promises are numbered

VARIABLES
  next,             \* the heap: link of every node
  live,             \* nodes that are allocated
  head, temp,       \* the two globals
  handle,           \* what async returned for each promise, NULL before
  thread,           \* "unborn", "running", "finished" or "joined"
  answer,           \* of await: "none", "joined" or "missing"
  crashed,          \* an overwritten link was followed
  (* history of the order of calls *)
  overtaken,        \* a promise was awaited after an earlier one
  reused            \* async was called after an await

heap == <<next, live, head, temp>>
vars == <<heap, handle, thread, answer, crashed, overtaken, reused>>

Numbers == 1..Promises

Init ==
  /\ next = [a \in Addr |-> NULL]
  /\ live = {} /\ head = NULL /\ temp = NULL
  /\ handle = [p \in Numbers |-> NULL]
  /\ thread = [p \in Numbers |-> "unborn"]
  /\ answer = [p \in Numbers |-> "none"]
  /\ crashed = FALSE /\ overtaken = FALSE /\ reused = FALSE

----------------------------------------------------------------------------
Unborn(p) == thread[p] = "unborn"
Awaited(p) == answer[p] # "none"

\* Bug: the new node is linked, and `temp' stays where it is.
GeneratePromiseNoAdvance(a) ==
  /\ head' = IF temp = NULL THEN a ELSE head
  /\ temp' = IF temp = NULL THEN a ELSE temp
  /\ next' = IF temp = NULL THEN [next EXCEPT ![a] = NULL]
             ELSE [next EXCEPT ![temp] = a, ![a] = NULL]
  /\ live' = live \cup {a}

\* generate_promise: the node becomes the last one.  It does not ask
\* whether the last one is still a promise.
GeneratePromise(a) ==
  /\ head' = IF temp = NULL THEN a ELSE head
  /\ temp' = a
  /\ next' = IF temp = NULL THEN [next EXCEPT ![a] = NULL]
             ELSE [next EXCEPT ![temp] = a, ![a] = NULL]
  /\ live' = live \cup {a}

\* A link written into a freed node is written into the allocator's lists.
Async(p) ==
  /\ Unborn(p) /\ \A q \in 1..(p - 1) : ~Unborn(q)
  /\ \E a \in Addr \ live :
       /\ GeneratePromise(a)
       /\ handle' = [handle EXCEPT ![p] = a]
  /\ thread' = [thread EXCEPT ![p] = "running"]
  /\ crashed' \in (IF temp # NULL /\ temp \notin live THEN BOOLEAN ELSE {FALSE})
  /\ reused' = (reused \/ \E q \in Numbers : Awaited(q))
  /\ UNCHANGED <<answer, overtaken>>

ThreadEnds(p) ==
  /\ thread[p] = "running"
  /\ thread' = [thread EXCEPT ![p] = "finished"]
  /\ UNCHANGED <<heap, handle, answer, crashed, overtaken, reused>>

Way == Walk(head, next)

\* The first node on the way that await compares with A, or stumbles over.
Stop(A) == PlaceOf(Way, LAMBDA a : a = A \/ a \notin live)

Reaches(p) == LET i == Stop(handle[p]) IN i # 0 /\ Way[i] = handle[p]

Called(p) ==
  /\ ~Unborn(p) /\ ~Awaited(p)
  /\ overtaken' = (overtaken \/ \E q \in 1..(p - 1) : Awaited(q))
  /\ UNCHANGED <<handle, reused>>

\* delete A->value joins, so the call returns when the thread is through.
AwaitJoinsIt(p) ==
  /\ Called(p)
  /\ Reaches(p)
  /\ thread[p] = "finished"
  /\ thread' = [thread EXCEPT ![p] = "joined"]
  /\ answer' = [answer EXCEPT ![p] = "joined"]
  /\ live' = live \ {handle[p]}
  /\ UNCHANGED <<next, head, temp, crashed>>

\* Past the end of the list: await returns 1 and nobody joins the thread.
AwaitMisses(p) ==
  /\ Called(p)
  /\ ~Reaches(p)
  /\ answer' = [answer EXCEPT ![p] = "missing"]
  /\ UNCHANGED <<heap, thread, crashed>>

\* Over a freed node: its link is whatever the allocator left there.
AwaitStumbles(p) ==
  /\ Called(p)
  /\ ~Reaches(p) /\ Stop(handle[p]) # 0
  /\ crashed' = TRUE
  /\ UNCHANGED <<heap, thread, answer>>

Next ==
  /\ ~crashed
  /\ \E p \in Numbers : Async(p) \/ ThreadEnds(p) \/ AwaitJoinsIt(p)
                        \/ AwaitMisses(p) \/ AwaitStumbles(p)

Spec == Init /\ [][Next]_vars

----------------------------------------------------------------------------
TypeOK ==
  /\ next \in [Addr -> Addr \cup {NULL}]
  /\ live \subseteq Addr
  /\ {head, temp} \subseteq Addr \cup {NULL}
  /\ handle \in [Numbers -> Addr \cup {NULL}]
  /\ thread \in [Numbers -> {"unborn", "running", "finished", "joined"}]
  /\ answer \in [Numbers -> {"none", "joined", "missing"}]
  /\ {crashed, overtaken, reused} \subseteq BOOLEAN

(* Whoever starts all threads first and awaits them from the last to the   *)
(* first gets every one joined, although the list keeps its freed nodes.   *)
(* Each of the two conditions is needed: after an await, async may put the *)
(* new promise into the freed node, which cuts the list behind it.         *)
AwaitJoins ==
  ~overtaken /\ ~reused => ~crashed /\ \A p \in Numbers : answer[p] # "missing"
=============================================================================
