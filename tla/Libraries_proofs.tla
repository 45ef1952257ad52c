-------------------------- MODULE Libraries_proofs --------------------------
(***************************************************************************)
(* Proofs about the library headers: the ownership table of buffer.h, the  *)
(* byte queue's records of downloads.h, the files of internet.h and the    *)
(* handshake with the JVM, for any number of processes, files, names and   *)
(* inodes and any length of the table, a file or the records.  Each part   *)
(* has an inductive invariant of its own, like those of the three lists in *)
(* Lists_proofs; the last part carries all seven over to the behaviours of *)
(* MCLibraries, of which each is one of one library, and states what they  *)
(* are for.                                                                *)
(***************************************************************************)
EXTENDS Lists_proofs

----------------------------------------------------------------------------
(* buffer.h: the ownership table.                                          *)

\* Processes inside a call, and inside add_validity.
Busy(p) == pc[p] \notin {"idle", "dead"}
Adding(p) == pc[p] \in {"bump", "store", "return"}

\* One table, one process inside a call.
OneTable ==
  /\ \A t, u \in ready : t = u
  /\ \A p \in Procs : space[p] \in Tables => space[p] \in ready
  /\ \A p \in Procs : Busy(p) => space[p] \in ready
  /\ \A p, q \in Procs : Busy(p) /\ Busy(q) => p = q
  /\ \A p, q \in Procs : At(p, "generate") => held[q] = {}

\* Indices in use are below the counter and show their owner.
Owned ==
  /\ \A p \in Procs : held[p] \subseteq 1..(Cells - 1)
  /\ \A p \in Procs : held[p] # {} => ready # {}
  /\ \A p, q \in Procs : p # q => held[p] \cap held[q] = {}
  /\ \A t \in ready, p \in Procs : \A i \in held[p] : cell[t][i] = p /\ i < cell[t][0]
  /\ \A t \in ready : (\A p \in Procs : ~At(p, "generate")) => cell[t][0] >= 1

\* add_validity on its way: its index is that of nobody.
UnderWay ==
  \A p \in Procs : Adding(p) =>
    /\ index[p] >= 1
    /\ \A q \in Procs : \A i \in held[q] : i < index[p]
    /\ At(p, "bump") => cell[space[p]][0] = index[p]
    /\ ~At(p, "bump") => cell[space[p]][0] = index[p] + 1
    /\ At(p, "return") => index[p] < Cells /\ cell[space[p]][index[p]] = p

\* The inductive invariant.
IInv == TypeOK /\ (orderly => OneTable /\ Owned /\ UnderWay)

----------------------------------------------------------------------------
LEMMA InitIInv == Init => IInv
  BY OwnersAreNoIndices, TablesAreFiles
  DEF Init, IInv, TypeOK, OneTable, Owned, UnderWay, Busy, Adding, At, Indices

\* The calls that touch no cell and no index.
LEMMA GenerateMapsIInv ==
  ASSUME IInv, orderly, NEW p \in Procs, GenerateMaps(p)
  PROVE  IInv'
<1>1. TypeOK'
  BY DEF IInv, TypeOK, GenerateMaps, Opened, Goto
<1>2. ASSUME orderly' PROVE OneTable' /\ Owned' /\ UnderWay'
  <2>1. file = NoTable /\ ready = {} /\ pc' = [pc EXCEPT ![p] = "generate"]
        /\ UNCHANGED <<cell, index, held>>
    BY <1>2 DEF GenerateMaps, Goto
  <2>2. \A q \in Procs : space[q] \notin Tables /\ ~Busy(q) /\ held[q] = {}
    BY <2>1 DEF IInv, OneTable, Owned
  <2>3. PICK t \in Tables : ready' = {t} /\ space' = [space EXCEPT ![p] = t]
    BY <2>1, <2>2 DEF GenerateMaps
  <2>4. \A q \in Procs : Busy(q)' => q = p
    BY <2>1, <2>2 DEF IInv, TypeOK, Busy
  <2>5. \A q \in Procs : space'[q] \in Tables => q = p
    BY <2>2, <2>3 DEF IInv, TypeOK
  <2>6. \A q \in Procs : ~Adding(q)' /\ held'[q] = {}
    BY <2>1, <2>2, <2>4 DEF IInv, TypeOK, Adding, Busy
  <2>7. At(p, "generate")' /\ space'[p] = t
    BY <2>1, <2>3 DEF IInv, TypeOK, At
  <2>8. OneTable'
    BY <2>3, <2>4, <2>5, <2>6, <2>7 DEF OneTable
  <2>9. Owned'
    BY <2>3, <2>6, <2>7 DEF Owned
  <2> QED BY <2>6, <2>8, <2>9 DEF UnderWay
<1> QED BY <1>1, <1>2 DEF IInv

LEMMA GenerateCountsIInv ==
  ASSUME IInv, orderly, NEW p \in Procs, GenerateCounts(p)
  PROVE  IInv'
<1> USE DEF IInv
<1>1. /\ pc[p] = "generate" /\ pc' = [pc EXCEPT ![p] = "idle"]
      /\ cell' = [cell EXCEPT ![space[p]][0] = 1]
      /\ UNCHANGED <<file, ready, space, index, held, orderly>>
  BY DEF GenerateCounts, At, Goto
<1>2. space[p] \in ready /\ space[p] \in Tables /\ 0 \in Indices
  BY <1>1, OwnersAreNoIndices DEF OneTable, Busy, TypeOK, Indices
<1>3. TypeOK'
  BY <1>1, <1>2 DEF TypeOK
<1>4. \A q \in Procs : held[q] = {} /\ (Busy(q) <=> q = p)
  BY <1>1 DEF OneTable, Busy, At
<1>5. \A q \in Procs : ~Busy(q)'
  BY <1>1, <1>4 DEF Busy, TypeOK
<1>6. OneTable'
  BY <1>1, <1>5 DEF OneTable, Busy, At
<1>7. \A t \in ready : t = space[p] /\ cell'[t][0] = 1
  BY <1>1, <1>2 DEF OneTable, TypeOK
<1>8. Owned'
  BY <1>1, <1>4, <1>7 DEF Owned
<1>9. UnderWay'
  BY <1>5 DEF UnderWay, Adding, Busy
<1> QED BY <1>3, <1>6, <1>8, <1>9

LEMMA StartSystemIInv ==
  ASSUME IInv, orderly, NEW p \in Procs, StartSystem(p)
  PROVE  IInv'
<1> USE DEF IInv
<1>1. PICK t \in Tables :
        /\ Opened(t) /\ file' = t /\ space' = [space EXCEPT ![p] = t]
        /\ orderly' = (orderly /\ t \in ready /\ \A q \in Procs : ~At(q, "generate"))
  BY DEF StartSystem
<1>2. pc[p] = "idle" /\ UNCHANGED <<ready, cell, pc, index, held>>
  BY DEF StartSystem, At
<1>3. TypeOK'
  BY <1>1, <1>2 DEF TypeOK
<1>4. ASSUME orderly' PROVE OneTable' /\ Owned' /\ UnderWay'
  <2>1. t \in ready
    BY <1>1, <1>4
  <2>2. \A q \in Procs : q # p => space'[q] = space[q]
    BY <1>1 DEF TypeOK
  <2>3. space'[p] = t
    BY <1>1 DEF TypeOK
  <2>4. OneTable'
    BY <1>2, <2>1, <2>2, <2>3 DEF OneTable, Busy, At
  <2>5. Owned'
    BY <1>2 DEF Owned, At
  <2>6. UnderWay'
    BY <1>2, <2>2 DEF UnderWay, Adding, At
  <2> QED BY <2>4, <2>5, <2>6
<1> QED BY <1>3, <1>4

\* Ending, unlinking and unmapping: the process is in no call afterwards.
LEMMA LeavesIInv ==
  ASSUME IInv, orderly, NEW p \in Procs,
         Dies(p) \/ DestroySystem(p) \/ ClearSystem(p) \/ Faults(p)
  PROVE  IInv'
<1> USE DEF IInv
<1>1. /\ UNCHANGED <<ready, cell, index, held, orderly>>
      /\ pc' = pc \/ pc' = [pc EXCEPT ![p] = "dead"]
      /\ space' = space \/ (space' = [space EXCEPT ![p] = Unmapped] /\ pc[p] = "idle" /\ pc' = pc)
      /\ file' \in {file, NoTable}
  BY DEF Dies, DestroySystem, ClearSystem, Faults, Goto, At, memory
<1>2. TypeOK'
  BY <1>1 DEF TypeOK
<1>3. \A q \in Procs : Busy(q)' => Busy(q) /\ pc'[q] = pc[q] /\ space'[q] = space[q]
  BY <1>1 DEF Busy, TypeOK
<1>4. \A q \in Procs : space'[q] \in Tables => space'[q] = space[q]
  BY <1>1, TablesAreFiles DEF TypeOK
<1>5. OneTable'
  BY <1>1, <1>3, <1>4 DEF OneTable, At, Busy
<1>6. (\A q \in Procs : ~At(q, "generate")') => (\A q \in Procs : At(q, "generate") => q = p)
  BY <1>1 DEF At, TypeOK
<1>7. ~At(p, "generate")
  BY DEF Dies, DestroySystem, ClearSystem, Faults, At
<1>8. Owned'
  BY <1>1, <1>6, <1>7 DEF Owned
<1>9. UnderWay'
  BY <1>1, <1>3 DEF UnderWay, Adding, Busy, At
<1> QED BY <1>2, <1>5, <1>8, <1>9

----------------------------------------------------------------------------
\* The steps of add_validity.
LEMMA AddReadsIInv ==
  ASSUME IInv, orderly, NEW p \in Procs, AddReads(p)
  PROVE  IInv'
<1> USE DEF IInv
<1>1. /\ pc[p] = "idle" /\ pc' = [pc EXCEPT ![p] = "bump"]
      /\ index' = [index EXCEPT ![p] = cell[space[p]][0]]
      /\ space[p] \in ready /\ 0 \in Indices
      /\ UNCHANGED <<file, ready, cell, space, held>>
      /\ orderly' = (orderly /\ \A q \in Procs \ {p} : pc[q] \in {"idle", "dead"})
  BY DEF AddReads, At, Goto, Reachable, memory
<1>2. space[p] \in Tables /\ cell[space[p]][0] \in Nat
  BY <1>1 DEF TypeOK
<1>3. TypeOK'
  BY <1>1, <1>2 DEF TypeOK
<1>4. ASSUME orderly' PROVE OneTable' /\ Owned' /\ UnderWay'
  <2>1. \A q \in Procs : ~Busy(q)
    BY <1>1, <1>4 DEF Busy
  <2>2. \A q \in Procs : (Busy(q)' => q = p) /\ ~At(q, "generate")' /\ ~At(q, "generate")
    BY <1>1, <2>1 DEF Busy, At, TypeOK
  <2>3. OneTable'
    BY <1>1, <2>2 DEF OneTable
  <2>4. Owned'
    BY <1>1, <2>2 DEF Owned
  <2>5. At(p, "bump")' /\ index'[p] = cell[space[p]][0]
    BY <1>1 DEF At, TypeOK
  <2>6. /\ index'[p] >= 1
        /\ \A q \in Procs : \A i \in held[q] : i < index'[p]
    BY <1>1, <2>2, <2>5 DEF Owned
  <2>7. UnderWay'
    BY <1>1, <2>2, <2>5, <2>6 DEF UnderWay, Adding, Busy, At
  <2> QED BY <2>3, <2>4, <2>7
<1> QED BY <1>3, <1>4

LEMMA AddBumpsIInv ==
  ASSUME IInv, orderly, NEW p \in Procs, AddBumps(p)
  PROVE  IInv'
<1> USE DEF IInv
<1>1. /\ pc[p] = "bump" /\ pc' = [pc EXCEPT ![p] = "store"]
      /\ cell' = [cell EXCEPT ![space[p]][0] = index[p] + 1]
      /\ UNCHANGED <<file, ready, space, index, held, orderly>>
  BY DEF AddBumps, At, Goto
<1>2. space[p] \in ready /\ space[p] \in Tables /\ 0 \in Indices /\ index[p] \in Nat
  <2>1. space[p] \in ready
    BY <1>1 DEF OneTable, Busy
  <2>2. 0 \in Indices
    BY OwnersAreNoIndices DEF Indices
  <2> QED BY <2>1, <2>2 DEF TypeOK
<1>3. TypeOK'
  BY <1>1, <1>2 DEF TypeOK
<1>4. \A q \in Procs : Busy(q) <=> q = p
  BY <1>1 DEF OneTable, Busy
<1>5. \A q \in Procs : /\ (Busy(q)' => q = p)
                       /\ ~At(q, "generate")' /\ ~At(q, "generate")
  BY <1>1, <1>4 DEF Busy, At, TypeOK
<1>6. OneTable'
  BY <1>1, <1>2, <1>5 DEF OneTable
<1>7. \A t \in ready : /\ t = space[p] /\ t \in Tables
                       /\ cell'[t][0] = index[p] + 1
                       /\ \A i \in 1..(Cells - 1) : cell'[t][i] = cell[t][i]
  <2>1. \A t \in ready : t = space[p] /\ t \in Tables
    BY <1>2 DEF OneTable
  <2>2. cell[space[p]] \in [Indices -> Nat]
    BY <1>2 DEF TypeOK
  <2>3. cell'[space[p]] = [cell[space[p]] EXCEPT ![0] = index[p] + 1]
    BY <1>1, <1>2 DEF TypeOK
  <2>4. \A i \in 1..(Cells - 1) : i # 0 /\ i \in Indices
    BY OwnersAreNoIndices DEF Indices
  <2> QED BY <1>2, <2>1, <2>2, <2>3, <2>4
<1>8. index[p] >= 1 /\ \A q \in Procs : \A i \in held[q] : i < index[p]
  BY <1>1 DEF UnderWay, Adding
<1>9. \A q \in Procs : held[q] \subseteq 1..(Cells - 1) /\ held[q] \subseteq Int
  BY DEF Owned
<1>10. \A t \in ready, q \in Procs : \A i \in held[q] : cell'[t][i] = q /\ i < cell'[t][0]
  BY <1>2, <1>7, <1>8, <1>9 DEF Owned
<1>11. \A t \in ready : cell'[t][0] >= 1
  BY <1>2, <1>7, <1>8
<1>12. Owned'
  BY <1>1, <1>10, <1>11 DEF Owned
<1>13. At(p, "store")'
  BY <1>1 DEF At, TypeOK
<1>14. UnderWay'
  BY <1>1, <1>2, <1>5, <1>7, <1>8, <1>13 DEF UnderWay, Adding, Busy, At
<1> QED BY <1>3, <1>6, <1>12, <1>14

LEMMA AddStoresIInv ==
  ASSUME IInv, orderly, NEW p \in Procs, AddStores(p)
  PROVE  IInv'
<1> USE DEF IInv
<1>1. /\ pc[p] = "store" /\ pc' = [pc EXCEPT ![p] = "return"]
      /\ cell' = [cell EXCEPT ![space[p]][index[p]] = p]
      /\ index[p] \in Indices /\ space[p] \in ready
      /\ UNCHANGED <<file, ready, space, index, held, orderly>>
  BY DEF AddStores, At, Goto, Reachable
<1>2. space[p] \in Tables /\ p \in Nat
  BY <1>1, OwnersAreNoIndices DEF TypeOK
<1>3. TypeOK'
  BY <1>1, <1>2 DEF TypeOK
<1>4. \A q \in Procs : Busy(q) <=> q = p
  BY <1>1 DEF OneTable, Busy
<1>5. \A q \in Procs : /\ (Busy(q)' => q = p)
                       /\ ~At(q, "generate")' /\ ~At(q, "generate")
  BY <1>1, <1>4 DEF Busy, At, TypeOK
<1>6. OneTable'
  BY <1>1, <1>5 DEF OneTable
<1>7. /\ index[p] >= 1 /\ index[p] < Cells
      /\ \A q \in Procs : \A i \in held[q] : i < index[p]
      /\ cell[space[p]][0] = index[p] + 1
  BY <1>1, OwnersAreNoIndices DEF UnderWay, Adding, At, Indices
<1>8. \A t \in ready : /\ t = space[p] /\ t \in Tables
                       /\ cell'[t][index[p]] = p
                       /\ \A i \in Indices \ {index[p]} : cell'[t][i] = cell[t][i]
  BY <1>1, <1>2, <1>6 DEF OneTable, TypeOK
<1>9. 0 \in Indices \ {index[p]}
  BY <1>7, OwnersAreNoIndices DEF Indices
<1>10. \A q \in Procs : held[q] \subseteq Indices \ {index[p]}
  BY <1>7, OwnersAreNoIndices DEF Owned, Indices
<1>11. Owned'
  BY <1>1, <1>5, <1>8, <1>9, <1>10 DEF Owned
<1>12. At(p, "return")'
  BY <1>1 DEF At, TypeOK
<1>13. UnderWay'
  BY <1>1, <1>5, <1>7, <1>8, <1>9, <1>12 DEF UnderWay, Adding, Busy, At
<1> QED BY <1>3, <1>6, <1>11, <1>13

LEMMA AddReturnsIInv ==
  ASSUME IInv, orderly, NEW p \in Procs, AddReturns(p)
  PROVE  IInv'
<1> USE DEF IInv
<1>1. /\ pc[p] = "return" /\ pc' = [pc EXCEPT ![p] = "idle"]
      /\ held' = [held EXCEPT ![p] = @ \cup {cell[space[p]][0] - 1}]
      /\ index' = [index EXCEPT ![p] = 0]
      /\ UNCHANGED <<file, ready, cell, space, orderly>>
  BY DEF AddReturns, At, Goto, memory
<1>2. space[p] \in ready /\ space[p] \in Tables /\ index[p] \in Nat
  BY <1>1 DEF OneTable, Busy, TypeOK
<1>3. /\ index[p] >= 1 /\ index[p] < Cells
      /\ \A q \in Procs : \A i \in held[q] : i < index[p]
      /\ cell[space[p]][0] = index[p] + 1
      /\ cell[space[p]][index[p]] = p
  BY <1>1 DEF UnderWay, Adding, At
<1>4. held' = [held EXCEPT ![p] = @ \cup {index[p]}]
  <2>1. cell[space[p]][0] - 1 = index[p]
    BY <1>2, <1>3
  <2> QED BY <1>1, <2>1
<1>5. \A q \in Procs : \A i \in held'[q] : i \in held[q] \/ (q = p /\ i = index[p])
  BY <1>4 DEF TypeOK
<1>6. TypeOK'
  <2>1. \A q \in Procs : held'[q] \subseteq Int
    BY <1>2, <1>5 DEF TypeOK
  <2>2. held' \in [Procs -> SUBSET Int]
    BY <1>4, <2>1 DEF TypeOK
  <2> QED BY <1>1, <2>2 DEF TypeOK
<1>7. \A q \in Procs : ~Busy(q)'
  BY <1>1 DEF OneTable, Busy, TypeOK
<1>8. OneTable'
  BY <1>1, <1>7 DEF OneTable, At, Busy
<1>9. Owned'
  <2>1. \A q \in Procs : held'[q] \subseteq 1..(Cells - 1)
    BY <1>2, <1>3, <1>5, OwnersAreNoIndices DEF Owned
  <2>2. \A q, r \in Procs : q # r => held'[q] \cap held'[r] = {}
    <3> SUFFICES ASSUME NEW q \in Procs, NEW r \in Procs, q # r,
                        NEW i \in held'[q], i \in held'[r]
                 PROVE  FALSE
      OBVIOUS
    <3>1. index[p] \notin held[q] /\ index[p] \notin held[r]
      BY <1>2, <1>3
    <3> QED BY <1>5, <3>1 DEF Owned
  <2>3. \A t \in ready : t = space[p]
    BY <1>2 DEF OneTable
  <2>4. \A t \in ready, q \in Procs : \A i \in held'[q] : cell[t][i] = q /\ i < cell[t][0]
    BY <1>2, <1>3, <1>5, <2>3 DEF Owned
  <2>5. \A t \in ready : cell[t][0] >= 1
    BY <1>2, <1>3, <2>3
  <2> QED BY <1>1, <1>2, <2>1, <2>2, <2>4, <2>5 DEF Owned
<1>10. UnderWay'
  BY <1>7 DEF UnderWay, Adding, Busy
<1> QED BY <1>6, <1>8, <1>9, <1>10

----------------------------------------------------------------------------
\* An index changes hands; that of an add_validity under way is another one.
LEMMA RevalidateIInv ==
  ASSUME IInv, orderly, NEW p \in Procs, Revalidate(p)
  PROVE  IInv'
<1> USE DEF IInv
<1>1. PICK i \in UNION {held[q] : q \in Procs} :
        /\ space[p] \in ready /\ i \in Indices
        /\ cell' = [cell EXCEPT ![space[p]][i] = p]
        /\ held' = [q \in Procs |-> IF q = p THEN held[q] \cup {i} ELSE held[q] \ {i}]
  BY DEF Revalidate, Reachable
<1>2. UNCHANGED <<file, ready, space, pc, index, orderly>>
  BY DEF Revalidate
<1>3. PICK o \in Procs : i \in held[o]
  BY <1>1
<1>4. i \in Int /\ i >= 1 /\ i < Cells /\ p \in Nat /\ space[p] \in Tables
  BY <1>1, <1>3, OwnersAreNoIndices DEF Owned, TypeOK, Indices
<1>5. \A q \in Procs : \A j \in held'[q] : \/ q = p /\ j = i
                                           \/ j \in held[q] /\ (j # i \/ q = p)
  BY <1>1
<1>6. TypeOK'
  <2>1. \A q \in Procs : held'[q] \subseteq Int
    BY <1>4, <1>5 DEF TypeOK
  <2>2. held' \in [Procs -> SUBSET Int]
    BY <1>1, <2>1
  <2>3. TypeOK
    OBVIOUS
  <2> HIDE DEF IInv
  <2>4. cell' \in [Tables -> [Indices -> Nat]]
    BY <1>1, <1>4, <2>3 DEF TypeOK
  <2> QED BY <1>2, <2>2, <2>3, <2>4 DEF TypeOK
<1>7. \A t \in ready : /\ t = space[p] /\ t \in Tables /\ cell'[t][i] = p
                       /\ \A j \in Indices \ {i} : cell'[t][j] = cell[t][j]
  BY <1>1, <1>4 DEF OneTable, TypeOK
<1>8. 0 \in Indices \ {i} /\ \A q \in Procs : held[q] \subseteq Indices
  <2>1. \A q \in Procs : held[q] \subseteq 1..(Cells - 1)
    BY DEF Owned
  <2> HIDE DEF IInv
  <2>2. Cells \in Nat \ {0} /\ Indices = 0..(Cells - 1)
    BY OwnersAreNoIndices DEF Indices
  <2>3. 0 \in Indices \ {i}
    BY <1>4, <2>2
  <2>4. 1..(Cells - 1) \subseteq Indices
    BY <2>2
  <2> QED BY <2>1, <2>3, <2>4
<1>9. OneTable'
  <2>1. ASSUME NEW q \in Procs, NEW r \in Procs, At(q, "generate") PROVE held'[r] = {}
    BY <1>3, <2>1 DEF OneTable
  <2> QED BY <1>2, <2>1 DEF OneTable, Busy, At
<1>10. Owned'
  <2>1. \A q \in Procs : held'[q] \subseteq 1..(Cells - 1)
    BY <1>4, <1>5, OwnersAreNoIndices DEF Owned
  <2>2. \A q, r \in Procs : q # r => held'[q] \cap held'[r] = {}
    BY <1>1, <1>5 DEF Owned
  <2>3. \A t \in ready, q \in Procs : \A j \in held'[q] : cell'[t][j] = q /\ j < cell'[t][0]
    <3> SUFFICES ASSUME NEW t \in ready, NEW q \in Procs, NEW j \in held'[q]
                 PROVE  cell'[t][j] = q /\ j < cell'[t][0]
      OBVIOUS
    <3>1. CASE j = i
      <4>1. q = p
        BY <1>5, <3>1
      <4> QED BY <1>1, <1>7, <1>8, <3>1, <4>1 DEF Owned
    <3>2. CASE j # i
      BY <1>5, <1>7, <1>8, <3>2 DEF Owned
    <3> QED BY <3>1, <3>2
  <2> QED BY <1>1, <1>2, <1>7, <1>8, <2>1, <2>2, <2>3 DEF Owned, At
<1>11. UnderWay'
  <2> SUFFICES ASSUME NEW r \in Procs, Adding(r)
               PROVE  /\ index[r] >= 1
                      /\ \A q \in Procs : \A j \in held'[q] : j < index[r]
                      /\ At(r, "bump") => cell'[space[r]][0] = index[r]
                      /\ ~At(r, "bump") => cell'[space[r]][0] = index[r] + 1
                      /\ At(r, "return") => index[r] < Cells /\ cell'[space[r]][index[r]] = r
    BY <1>2 DEF UnderWay, Adding, At
  <2>1. space[r] \in ready /\ index[r] \in Nat
    BY DEF OneTable, Busy, Adding, TypeOK
  <2>2. i < index[r] /\ \A q \in Procs : \A j \in held[q] : j < index[r]
    BY <1>3 DEF UnderWay
  <2>3. cell'[space[r]][0] = cell[space[r]][0]
    BY <1>7, <1>8, <2>1
  <2>4. index[r] < Cells => cell'[space[r]][index[r]] = cell[space[r]][index[r]]
    <3>1. index[r] < Cells => index[r] \in Indices \ {i}
      BY <1>4, <2>1, <2>2, OwnersAreNoIndices DEF Indices
    <3> QED BY <1>7, <2>1, <3>1
  <2> QED BY <1>5, <2>2, <2>3, <2>4 DEF UnderWay
<1> QED BY <1>6, <1>9, <1>10, <1>11

----------------------------------------------------------------------------
\* Every step keeps the invariant.
LEMMA NextIInv == IInv /\ [Next]_vars => IInv'
<1> SUFFICES ASSUME IInv, [Next]_vars PROVE IInv'
  OBVIOUS
<1>1. CASE UNCHANGED vars
  BY <1>1 DEF vars, memory, IInv, TypeOK, OneTable, Owned, UnderWay, Busy, Adding, At
<1>2. CASE Next
  <2>1. orderly /\ \E p \in Procs : Call(p)
    BY <1>2 DEF Next
  <2> QED BY <2>1, GenerateMapsIInv, GenerateCountsIInv, StartSystemIInv, LeavesIInv,
             AddReadsIInv, AddBumpsIInv, AddStoresIInv, AddReturnsIInv, RevalidateIInv
          DEF Call
<1> QED BY <1>1, <1>2

\* What the invariant is for.
LEMMA InvIsOwned == IInv => OwnsItsSlot
  BY TablesAreFiles DEF IInv, OneTable, Owned, OwnsItsSlot, Validity

----------------------------------------------------------------------------
(* downloads.h: the records.  q... are the variables of Queue.             *)
qRecords == s1
qTemp == s2
qLine == s3
qHave == s4
qPc == s5
qArg == s6
qFp == s7
qFps == s8
qWanted == s9
qTorn == s10
USE DEF qRecords, qTemp, qLine, qHave, qPc, qArg, qFp, qFps, qWanted, qTorn

\* The contents that a file can have.
Short == {w \in Seq(Names) : Len(w) <= MaxLines}

\* Types, and what a client has at hand at each point of a call.
QueueTypes ==
  /\ qRecords \in Inodes \cup {Queue!None} /\ qTemp \in Inodes \cup {Queue!None}
  /\ qLine \in [Inodes -> Short]
  /\ qWanted \subseteq Names /\ qHave \subseteq Names
  /\ qPc \in [Clients -> {"idle", "dead", "create", "append", "write",
                         "mv", "reopen", "copy", "remove"}]
  /\ qArg \in [Clients -> Names \cup {Queue!None}]
  /\ qFp \in [Clients -> Inodes \cup {Queue!None}]
       /\ qFps \in [Clients -> Inodes \cup {Queue!None}]
  /\ qTorn \in BOOLEAN
  /\ \A c \in Clients : ~Queue!At(c, "idle") /\ ~Queue!At(c, "dead") => qArg[c] \in Names
  /\ \A c \in Clients : Queue!At(c, "write") => qFp[c] \in Inodes
  /\ \A c \in Clients : Queue!At(c, "copy") => qFp[c] \in Inodes /\ qFps[c] \in Inodes

\* The names in a file.
Elems(w) == {w[k] : k \in DOMAIN w}

\* Who makes the file or rewrites it meets no other call.
Alone ==
  \A c, d \in Clients : c # d /\ (Queue!Closing(c) \/ Queue!Creating(c))
    => qPc[d] \in {"idle", "dead"}

\* push_file writes into the file that is the records.
Pushing == \A c \in Clients :
  /\ Queue!At(c, "create") => qRecords = Queue!None
  /\ Queue!At(c, "append") \/ Queue!At(c, "write") => qRecords # Queue!None
  /\ Queue!At(c, "write") => qFp[c] = qRecords

\* When nobody rewrites them, the records are the names that are wanted.
Quiet == (\A c \in Clients : ~Queue!Closing(c)) =>
  /\ qTemp = Queue!None
  /\ qRecords = Queue!None => qWanted = {}
  /\ qRecords # Queue!None => Elems(qLine[qRecords]) = qWanted

\* On the way of a close, the name is taken out of the right one of the two files.
Rewriting == \A c \in Clients :
  /\ Queue!At(c, "mv") => qRecords # Queue!None /\ Elems(qLine[qRecords]) \ {qArg[c]} = qWanted
  /\ Queue!At(c, "reopen") => qRecords = Queue!None /\ qTemp # Queue!None
       /\ Elems(qLine[qTemp]) \ {qArg[c]} = qWanted
  /\ Queue!At(c, "copy") => /\ qTemp # Queue!None /\ qRecords # Queue!None /\ qTemp # qRecords
                      /\ qFp[c] = qTemp /\ qFps[c] = qRecords
                      /\ qLine[qRecords] = <<>> /\ Elems(qLine[qTemp]) \ {qArg[c]} = qWanted
  /\ Queue!At(c, "remove") => qRecords # Queue!None /\ Elems(qLine[qRecords]) = qWanted

\* The inductive invariant.
QueueIInv == QueueTypes /\ (~qTorn => Alone /\ Pushing /\ Quiet /\ Rewriting)

\* The loop of close_download, as Kept computes it, is defined for any number of lines.
IsKept(g, s, lines, L) ==
  g = [n \in 0..L |-> IF n = 0 THEN <<>>
         ELSE IF lines[n] # s THEN Append(g[n - 1], lines[n]) ELSE g[n - 1]]

LEMMA KeptExists == ASSUME NEW s, NEW lines PROVE \A L \in Nat : \E g : IsKept(g, s, lines, L)
<1> DEFINE S == {L \in Nat : \E g : IsKept(g, s, lines, L)}
<1>1. 0 \in S
  <2> DEFINE g == [n \in 0..0 |-> <<>>]
  <2>1. IsKept(g, s, lines, 0)
    BY DEF IsKept
  <2> QED BY <2>1
<1>2. ASSUME NEW L \in Nat, L \in S PROVE L + 1 \in S
  <2>1. PICK g : IsKept(g, s, lines, L)
    BY <1>2
  <2> DEFINE h == [n \in 0..(L + 1) |-> IF n <= L THEN g[n]
                     ELSE IF lines[n] # s THEN Append(g[n - 1], lines[n]) ELSE g[n - 1]]
             e(f, n) == IF n = 0 THEN <<>>
                  ELSE IF lines[n] # s THEN Append(f[n - 1], lines[n]) ELSE f[n - 1]
  <2>2. ASSUME NEW n \in 0..(L + 1) PROVE h[n] = e(h, n)
    <3>1. CASE n = L + 1
      BY <3>1
    <3>2. CASE n \in 0..L
      <4>1. g[n] = e(g, n)
        BY <2>1, <3>2 DEF IsKept
      <4>2. n # 0 => h[n - 1] = g[n - 1]
        BY <3>2
      <4> QED BY <3>2, <4>1, <4>2
    <3> QED BY <3>1, <3>2
  <2>3. h = [n \in 0..(L + 1) |-> h[n]]
    OBVIOUS
  <2>4. h = [n \in 0..(L + 1) |-> e(h, n)]
    <3> HIDE DEF e
    <3>1. [n \in 0..(L + 1) |-> h[n]] = [n \in 0..(L + 1) |-> e(h, n)]
      <4> HIDE DEF h
      <4> QED BY <2>2
    <3> QED BY <2>3, <3>1
  <2>5. IsKept(h, s, lines, L + 1)
    <3> HIDE DEF h
    <3> QED BY <2>4 DEF IsKept
  <2> QED BY <2>5
<1> HIDE DEF S
<1>3. \A L \in Nat : L \in S
  BY <1>1, <1>2, AllNumbers
<1> QED BY <1>3 DEF S

LEMMA KeptIsOne == ASSUME NEW s, NEW lines, Len(lines) \in Nat
  PROVE \E g : IsKept(g, s, lines, Len(lines)) /\ Queue!Kept(s, lines) = g[Len(lines)]
<1> DEFINE g == CHOOSE g : IsKept(g, s, lines, Len(lines))
<1>1. IsKept(g, s, lines, Len(lines))
  BY KeptExists
<1>2. Queue!Kept(s, lines) = g[Len(lines)]
  BY DEF Queue!Kept, IsKept
<1> QED BY <1>1, <1>2

\* It keeps exactly the names other than s.
LEMMA KeptLines ==
  ASSUME NEW s, NEW S, NEW lines \in Seq(S)
  PROVE  /\ Queue!Kept(s, lines) \in Seq(S) /\ Len(Queue!Kept(s, lines)) <= Len(lines)
         /\ Elems(Queue!Kept(s, lines)) = Elems(lines) \ {s}
<1> DEFINE L == Len(lines)
<1>1. L \in Nat /\ DOMAIN lines = 1..L /\ \A n \in 1..L : lines[n] \in S
  OBVIOUS
<1>2. PICK g : IsKept(g, s, lines, L) /\ Queue!Kept(s, lines) = g[L]
  BY <1>1, KeptIsOne
<1> DEFINE Good(w, n) == w \in Seq(S) /\ Len(w) <= n
      /\ {w[k] : k \in 1..Len(w)} = {lines[k] : k \in 1..n} \ {s}
           T == {n \in Nat : n <= L => Good(g[n], n)}
<1> HIDE DEF L, T
<1>3. 0 \in T
  <2>1. g[0] = <<>>
    BY <1>1, <1>2 DEF IsKept
  <2>2. <<>> \in Seq(S) /\ Len(<<>>) = 0 /\ 1..Len(<<>>) = {} /\ 1..0 = {}
    OBVIOUS
  <2>3. Good(<<>>, 0)
    BY <2>2
  <2> HIDE DEF Good
  <2> QED BY <2>1, <2>3 DEF T
<1>4. ASSUME NEW n \in Nat, n \in T PROVE n + 1 \in T
  <2> HIDE DEF Good
  <2> SUFFICES ASSUME n + 1 <= L PROVE Good(g[n + 1], n + 1)
    BY DEF T
  <2>1. Good(g[n], n) /\ n + 1 \in 1..L
    BY <1>1, <1>4 DEF T
  <2> USE DEF Good
  <2>2. g[n + 1] = IF lines[n + 1] # s THEN Append(g[n], lines[n + 1]) ELSE g[n]
    <3>1. n + 1 \in 0..L /\ n + 1 # 0 /\ (n + 1) - 1 = n
      BY <1>1, <2>1
    <3>2. g[n + 1] = IF n + 1 = 0 THEN <<>>
            ELSE IF lines[n + 1] # s THEN Append(g[(n + 1) - 1], lines[n + 1]) ELSE g[(n + 1) - 1]
      BY <1>2, <3>1, Zenon DEF IsKept
    <3> QED BY <3>1, <3>2
  <2>3. {lines[k] : k \in 1..(n + 1)} = {lines[k] : k \in 1..n} \cup {lines[n + 1]}
    OBVIOUS
  <2>4. CASE lines[n + 1] = s
    <3>1. g[n + 1] = g[n]
      BY <2>2, <2>4
    <3>2. Len(g[n]) <= n + 1
      <4>1. Len(g[n]) \in Nat /\ Len(g[n]) <= n
        BY <2>1
      <4> QED BY <4>1
    <3>3. {lines[k] : k \in 1..(n + 1)} \ {s} = {lines[k] : k \in 1..n} \ {s}
      BY <2>3, <2>4
    <3> QED BY <2>1, <3>1, <3>2, <3>3
  <2>5. CASE lines[n + 1] # s
    <3> DEFINE w == g[n]
               x == lines[n + 1]
    <3>1. g[n + 1] = Append(w, x) /\ w \in Seq(S) /\ x \in S
      BY <1>1, <2>1, <2>2, <2>5
    <3>2. {w[k] : k \in 1..Len(w)} = {lines[k] : k \in 1..n} \ {s} /\ x # s
      BY <2>1, <2>5
    <3>3. {lines[k] : k \in 1..(n + 1)} \ {s} = ({lines[k] : k \in 1..n} \ {s}) \cup {x}
      BY <2>3, <2>5
    <3> HIDE DEF w, x
    <3>4. Append(w, x) \in Seq(S) /\ Len(Append(w, x)) = Len(w) + 1
      BY <3>1
    <3>5. {Append(w, x)[k] : k \in 1..Len(Append(w, x))} = {w[k] : k \in 1..Len(w)} \cup {x}
      BY <3>1
    <3>6. {Append(w, x)[k] : k \in 1..Len(Append(w, x))} = {lines[k] : k \in 1..(n + 1)} \ {s}
      BY <3>2, <3>3, <3>5
    <3>7. Len(w) <= n /\ Len(w) \in Nat
      BY <2>1, <3>1 DEF w
    <3>8. Len(g[n + 1]) <= n + 1
      BY <3>1, <3>4, <3>7
    <3> QED BY <3>1, <3>4, <3>6, <3>8
  <2> QED BY <2>4, <2>5
<1> HIDE DEF Good
<1>5. L \in T
  BY <1>1, <1>3, <1>4, AllNumbers
<1>6. Good(g[L], L)
  BY <1>1, <1>5 DEF T
<1> USE DEF Good
<1>7. DOMAIN g[L] = 1..Len(g[L])
  BY <1>6
<1> QED BY <1>1, <1>2, <1>6, <1>7 DEF Elems, L

LEMMA ElemsOfAppended == ASSUME NEW S, NEW w \in Seq(S), NEW x \in S
  PROVE  Append(w, x) \in Seq(S) /\ Elems(Append(w, x)) = Elems(w) \cup {x}
<1>1. DOMAIN w = 1..Len(w) /\ DOMAIN Append(w, x) = 1..Len(Append(w, x))
  OBVIOUS
<1>2. {Append(w, x)[k] : k \in 1..Len(Append(w, x))} = {w[k] : k \in 1..Len(w)} \cup {x}
  OBVIOUS
<1> QED BY <1>1, <1>2 DEF Elems

LEMMA ElemsOfEmpty == Elems(<<>>) = {} /\ <<>> \in Short
  BY LinesBound DEF Elems, Short

QueueRest == Alone /\ Pushing /\ Quiet /\ Rewriting

LEMMA QueueInit == Queue!Init => QueueIInv
<1> SUFFICES ASSUME Queue!Init PROVE QueueIInv
  OBVIOUS
<1>1. QueueTypes
  BY ElemsOfEmpty DEF Queue!Init, QueueTypes, Queue!At
<1>2. Alone /\ Pushing /\ Quiet /\ Rewriting
  BY DEF Queue!Init, Alone, Pushing, Quiet, Rewriting, Queue!At, Queue!Closing, Queue!Creating
<1> QED BY <1>1, <1>2 DEF QueueIInv

\* A call begins.
LEMMA BeginsFacts ==
  ASSUME QueueTypes, NEW c \in Clients, NEW s, NEW l, Queue!Begins(c, s, l)
  PROVE  /\ qPc[c] = "idle" /\ ~qTorn /\ qPc' = [qPc EXCEPT ![c] = l]
         /\ qArg' = [qArg EXCEPT ![c] = s]
         /\ qTorn' \in BOOLEAN
         /\ ~qTorn' => \A d \in Clients : d # c =>
              /\ ~Queue!Closing(d) /\ ~Queue!Creating(d)
              /\ l \in {"create", "mv"} => qPc[d] = "idle"
  BY DEF Queue!Begins, Queue!At, Queue!Goto, Queue!Others, QueueTypes

LEMMA PushChecksIInv ==
  ASSUME QueueIInv, NEW c \in Clients, NEW s \in Names, Queue!PushChecks(c, s)
  PROVE  QueueIInv'
<1> DEFINE l == IF qRecords = Queue!None THEN "create" ELSE "append"
<1>1. QueueTypes /\ l \in {"create", "append"} /\ Queue!Begins(c, s, l)
  BY DEF QueueIInv, Queue!PushChecks
<1>2. UNCHANGED <<qRecords, qTemp, qLine, qHave, qFp, qFps, qWanted>>
  BY DEF Queue!PushChecks, Queue!names, Queue!open
<1>3. /\ qPc[c] = "idle" /\ ~qTorn /\ qPc' = [qPc EXCEPT ![c] = l]
           /\ qArg' = [qArg EXCEPT ![c] = s]
      /\ qTorn' \in BOOLEAN
  BY <1>1, BeginsFacts
<1>4. ~qTorn' => \A d \in Clients : d # c =>
              /\ ~Queue!Closing(d) /\ ~Queue!Creating(d)
              /\ l \in {"create", "mv"} => qPc[d] = "idle"
  BY <1>1, BeginsFacts
<1>5. QueueTypes'
  BY <1>1, <1>2, <1>3 DEF QueueTypes, Queue!At
<1>6. ASSUME ~qTorn' PROVE QueueRest'
  <2>1. QueueRest
    BY <1>3 DEF QueueIInv, QueueRest
  <2>2. Alone' /\ Pushing'
    BY <1>1, <1>2, <1>3, <1>4, <1>6, <2>1
    DEF QueueTypes, QueueRest, Alone, Pushing, Queue!At, Queue!Closing, Queue!Creating
  <2>3. Quiet' /\ Rewriting'
    BY <1>1, <1>2, <1>3, <1>4, <1>6, <2>1
    DEF QueueTypes, QueueRest, Quiet, Rewriting, Queue!At, Queue!Closing, Queue!Creating
  <2> QED BY <2>2, <2>3 DEF QueueRest
<1> QED BY <1>5, <1>6 DEF QueueIInv, QueueRest

LEMMA CloseChecksIInv ==
  ASSUME QueueIInv, NEW c \in Clients, NEW s \in Names, Queue!CloseChecks(c, s)
  PROVE  QueueIInv'
<1>1. QueueTypes /\ Queue!Begins(c, s, "mv")
  BY DEF QueueIInv, Queue!CloseChecks
<1>2. qRecords # Queue!None /\ qWanted' = qWanted \ {s}
        /\ UNCHANGED <<qRecords, qTemp, qLine, qHave, qFp, qFps>>
  BY DEF Queue!CloseChecks, Queue!names, Queue!open
<1>3. /\ qPc[c] = "idle" /\ ~qTorn /\ qPc' = [qPc EXCEPT ![c] = "mv"]
           /\ qArg' = [qArg EXCEPT ![c] = s]
      /\ qTorn' \in BOOLEAN
  BY <1>1, BeginsFacts
<1>4. ~qTorn' => \A d \in Clients : d # c => qPc[d] = "idle"
  BY <1>1, BeginsFacts
<1>5. QueueTypes'
  BY <1>1, <1>2, <1>3 DEF QueueTypes, Queue!At
<1>6. ASSUME ~qTorn' PROVE QueueRest'
  <2>1. QueueRest
    BY <1>3 DEF QueueIInv, QueueRest
  <2>2. Alone' /\ Pushing'
    BY <1>1, <1>2, <1>3, <1>4, <1>6
    DEF QueueTypes, Alone, Pushing, Queue!At, Queue!Closing, Queue!Creating
  <2>3. Elems(qLine[qRecords]) = qWanted
    BY <1>1, <1>2, <1>3, <1>4, <1>6, <2>1 DEF QueueTypes, QueueRest, Quiet, Queue!Closing
  <2>4. Queue!Closing(c)'
    BY <1>1, <1>3 DEF QueueTypes, Queue!Closing
  <2>5. Rewriting'
    BY <1>1, <1>2, <1>3, <1>4, <1>6, <2>3 DEF QueueTypes, Rewriting, Queue!At
  <2> QED BY <2>2, <2>4, <2>5 DEF QueueRest, Quiet
<1> QED BY <1>5, <1>6 DEF QueueIInv, QueueRest

\* The file is made, and the call is over.
LEMMA MakesIInv ==
  ASSUME QueueIInv, NEW c \in Clients, NEW s \in Names \cup {Queue!None},
         Queue!Begins(c, s, "idle"), qRecords = Queue!None,
         NEW i \in Inodes, Queue!Truncated(i, qRecords), qRecords' = i,
         qWanted' \subseteq qWanted, UNCHANGED <<qTemp, qHave, Queue!open>>
  PROVE  QueueIInv'
<1>1. QueueTypes
  BY DEF QueueIInv
<1>2. i # Queue!None /\ qLine' = [qLine EXCEPT ![i] = <<>>] /\ UNCHANGED <<qFp, qFps>>
  BY NoneIsNoInode DEF Queue!Truncated, Queue!open
<1>3. /\ qPc[c] = "idle" /\ ~qTorn /\ qPc' = [qPc EXCEPT ![c] = "idle"]
           /\ qArg' = [qArg EXCEPT ![c] = s]
      /\ qTorn' \in BOOLEAN
  BY <1>1, BeginsFacts
<1>4. ~qTorn' => \A d \in Clients : d # c => ~Queue!Closing(d) /\ ~Queue!Creating(d)
  BY <1>1, BeginsFacts
<1>5. qPc' = qPc
  BY <1>1, <1>3 DEF QueueTypes
<1>6. QueueTypes'
  BY <1>1, <1>2, <1>3, <1>5, ElemsOfEmpty DEF QueueTypes, Queue!At
<1>7. ASSUME ~qTorn' PROVE QueueRest'
  <2>1. QueueRest
    BY <1>3 DEF QueueIInv, QueueRest
  <2>2. \A d \in Clients : qPc[d] \in {"idle", "dead"}
    BY <1>1, <1>3, <1>4, <1>7, <2>1
    DEF QueueTypes, QueueRest, Pushing, Queue!At, Queue!Closing, Queue!Creating
  <2>3. qTemp = Queue!None /\ qWanted = {}
    BY <2>1, <2>2 DEF QueueRest, Quiet, Queue!Closing
  <2>4. qLine'[i] = <<>> /\ qWanted' = {}
    BY <1>1, <1>2, <2>3 DEF QueueTypes
  <2>5. Alone' /\ Pushing' /\ Rewriting'
    BY <1>5, <2>2 DEF Alone, Pushing, Rewriting, Queue!At, Queue!Closing, Queue!Creating
  <2>6. Quiet'
    BY <1>2, <2>3, <2>4, ElemsOfEmpty DEF Quiet
  <2> QED BY <2>5, <2>6 DEF QueueRest
<1> QED BY <1>6, <1>7 DEF QueueIInv, QueueRest

LEMMA FindsNoneIInv ==
  ASSUME QueueIInv, NEW c \in Clients, Queue!PopFindsNone(c)
         \/ \E s \in Names : Queue!CloseFindsNone(c, s)
  PROVE  QueueIInv'
<1>1. qArg[c] \in Names \cup {Queue!None}
  BY DEF QueueIInv, QueueTypes
<1>2. ASSUME NEW s \in Names, Queue!CloseFindsNone(c, s) PROVE QueueIInv'
  BY <1>2, MakesIInv DEF Queue!CloseFindsNone
<1>3. CASE Queue!PopFindsNone(c)
  BY <1>1, <1>3, MakesIInv DEF Queue!PopFindsNone
<1> QED BY <1>2, <1>3

LEMMA PushCreatesIInv ==
  ASSUME QueueIInv, NEW c \in Clients, Queue!PushCreates(c)
  PROVE  QueueIInv'
<1>1. QueueTypes
  BY DEF QueueIInv
<1>2. /\ qPc[c] = "create" /\ qPc' = [qPc EXCEPT ![c] = "append"]
      /\ UNCHANGED <<qTemp, qHave, qArg, qFp, qFps, qWanted, qTorn>>
  BY DEF Queue!PushCreates, Queue!At, Queue!Goto, Queue!open
<1>3. PICK i \in Inodes : Queue!Truncated(i, qRecords) /\ qRecords' = i
  BY DEF Queue!PushCreates
<1>4. i # Queue!None /\ qLine' = [qLine EXCEPT ![i] = <<>>]
  BY <1>3, NoneIsNoInode DEF Queue!Truncated
<1>5. QueueTypes'
  BY <1>1, <1>2, <1>3, <1>4, ElemsOfEmpty DEF QueueTypes, Queue!At
<1>6. ASSUME ~qTorn' PROVE QueueRest'
  <2>1. QueueRest
    BY <1>2, <1>6 DEF QueueIInv, QueueRest
  <2>2. \A d \in Clients : d # c => qPc[d] \in {"idle", "dead"}
    BY <1>2, <2>1 DEF QueueRest, Alone, Queue!Creating
  <2>3. qRecords = Queue!None /\ qTemp = Queue!None /\ qWanted = {}
    BY <1>2, <2>1, <2>2 DEF QueueRest, Pushing, Quiet, Queue!At, Queue!Closing
  <2>4. qLine'[i] = <<>>
    BY <1>1, <1>4 DEF QueueTypes
  <2>5. Alone' /\ Pushing' /\ Rewriting'
    BY <1>1, <1>2, <1>3, <1>4, <2>2
    DEF QueueTypes, Alone, Pushing, Rewriting, Queue!At, Queue!Closing, Queue!Creating
  <2>6. Quiet'
    BY <1>2, <1>3, <1>4, <2>3, <2>4, ElemsOfEmpty DEF Quiet
  <2> QED BY <2>5, <2>6 DEF QueueRest
<1> QED BY <1>5, <1>6 DEF QueueIInv, QueueRest

LEMMA PushOpensIInv ==
  ASSUME QueueIInv, NEW c \in Clients, Queue!PushOpens(c)
  PROVE  QueueIInv'
<1>1. QueueTypes
  BY DEF QueueIInv
<1>2. /\ qPc[c] = "append" /\ qPc' = [qPc EXCEPT ![c] = "write"]
      /\ UNCHANGED <<qTemp, qHave, qArg, qFps, qWanted, qTorn>>
  BY DEF Queue!PushOpens, Queue!At, Queue!Goto
<1>3. PICK i \in Inodes :
       /\ IF qRecords # Queue!None THEN i = qRecords ELSE i \in Queue!Unused
       /\ qLine' = IF qRecords # Queue!None THEN qLine ELSE [qLine EXCEPT ![i] = <<>>]
       /\ qRecords' = i
       /\ qFp' = [qFp EXCEPT ![c] = i]
  BY DEF Queue!PushOpens
<1>4. i # Queue!None
  BY NoneIsNoInode
<1>5. QueueTypes'
  <2>1. qLine' \in [Inodes -> Short]
    BY <1>1, <1>3, ElemsOfEmpty DEF QueueTypes
  <2> QED BY <1>1, <1>2, <1>3, <2>1 DEF QueueTypes, Queue!At
<1>6. ASSUME ~qTorn' PROVE QueueRest'
  <2>1. QueueRest
    BY <1>2, <1>6 DEF QueueIInv, QueueRest
  <2>2. qRecords # Queue!None
    BY <1>2, <2>1 DEF QueueRest, Pushing, Queue!At
  <2>3. qRecords' = qRecords /\ qLine' = qLine
    BY <1>3, <2>2
  <2>4. Alone' /\ Pushing'
    BY <1>1, <1>2, <1>3, <2>1, <2>2, <2>3
    DEF QueueTypes, QueueRest, Alone, Pushing, Queue!At, Queue!Closing, Queue!Creating
  <2>5. Quiet' /\ Rewriting'
    BY <1>1, <1>2, <1>3, <2>1, <2>2, <2>3
    DEF QueueTypes, QueueRest, Quiet, Rewriting, Queue!At, Queue!Closing, Queue!Creating
  <2> QED BY <2>4, <2>5 DEF QueueRest
<1> QED BY <1>5, <1>6 DEF QueueIInv, QueueRest

LEMMA PushWritesIInv ==
  ASSUME QueueIInv, NEW c \in Clients, Queue!PushWrites(c)
  PROVE  QueueIInv'
<1>1. QueueTypes
  BY DEF QueueIInv
<1>2. /\ qPc[c] = "write" /\ qPc' = [qPc EXCEPT ![c] = "idle"]
      /\ qFp' = [qFp EXCEPT ![c] = Queue!None]
      /\ qWanted' = qWanted \cup {qArg[c]}
      /\ UNCHANGED <<qRecords, qTemp, qHave, qArg, qFps, qTorn>>
  BY DEF Queue!PushWrites, Queue!At, Queue!Goto, Queue!names
<1>3. qFp[c] \in Inodes /\ qArg[c] \in Names /\ qLine[qFp[c]] \in Seq(Names)
  BY <1>1, <1>2 DEF QueueTypes, Queue!At, Short
<1>4. Len(qLine[qFp[c]]) < MaxLines
        /\ qLine' = [qLine EXCEPT ![qFp[c]] = Append(qLine[qFp[c]], qArg[c])]
  BY DEF Queue!PushWrites
<1>5. /\ qLine'[qFp[c]] \in Seq(Names)
           /\ Elems(qLine'[qFp[c]]) = Elems(qLine[qFp[c]]) \cup {qArg[c]}
      /\ qLine' \in [Inodes -> Short]
  <2>1. qLine'[qFp[c]] = Append(qLine[qFp[c]], qArg[c])
    BY <1>1, <1>3, <1>4 DEF QueueTypes
  <2>2. qLine' \in [Inodes -> Short]
    <3>1. Append(qLine[qFp[c]], qArg[c]) \in Seq(Names)
      BY <1>3, ElemsOfAppended
    <3>2. Append(qLine[qFp[c]], qArg[c]) \in Short
      BY <1>3, <1>4, <3>1, LinesBound DEF Short
    <3> QED BY <1>1, <1>3, <1>4, <3>2 DEF QueueTypes
  <2> QED BY <1>3, <2>1, <2>2, ElemsOfAppended
<1>6. QueueTypes'
  BY <1>1, <1>2, <1>3, <1>5 DEF QueueTypes, Queue!At
<1>7. ASSUME ~qTorn' PROVE QueueRest'
  <2>1. QueueRest
    BY <1>2, <1>7 DEF QueueIInv, QueueRest
  <2>2. qRecords # Queue!None /\ qFp[c] = qRecords
    BY <1>2, <2>1 DEF QueueRest, Pushing, Queue!At
  <2>3. \A d \in Clients : ~Queue!Closing(d) /\ ~Queue!Creating(d)
    BY <1>2, <2>1 DEF QueueRest, Alone, Queue!Closing, Queue!Creating
  <2>4. qTemp = Queue!None /\ Elems(qLine[qRecords]) = qWanted
    BY <2>1, <2>2, <2>3 DEF QueueRest, Quiet
  <2>5. Alone' /\ Pushing' /\ Rewriting'
    BY <1>1, <1>2, <2>1, <2>2, <2>3 DEF QueueTypes, QueueRest, Alone, Pushing, Rewriting,
       Queue!At, Queue!Closing, Queue!Creating
  <2>6. Quiet'
    BY <1>2, <1>5, <2>2, <2>4 DEF Quiet
  <2> QED BY <2>5, <2>6 DEF QueueRest
<1> QED BY <1>6, <1>7 DEF QueueIInv, QueueRest

----------------------------------------------------------------------------
\* close_download rewrites the file alone: what it has not yet taken over is in temp.
LEMMA CloseMovesIInv ==
  ASSUME QueueIInv, NEW c \in Clients, Queue!CloseMoves(c)
  PROVE  QueueIInv'
<1>1. QueueTypes
  BY DEF QueueIInv
<1>2. /\ qPc[c] = "mv" /\ qPc' = [qPc EXCEPT ![c] = "reopen"]
      /\ UNCHANGED <<qLine, qHave, qArg, qFp, qFps, qWanted, qTorn>>
      /\ IF qRecords = Queue!None THEN UNCHANGED <<qRecords, qTemp>> ELSE qTemp' = qRecords
           /\ qRecords' = Queue!None
  BY DEF Queue!CloseMoves, Queue!At, Queue!Goto, Queue!open, Queue!names
<1>3. QueueTypes'
  BY <1>1, <1>2 DEF QueueTypes, Queue!At
<1>4. ASSUME ~qTorn' PROVE QueueRest'
  <2>1. QueueRest
    BY <1>2, <1>4 DEF QueueIInv, QueueRest
  <2>2. \A d \in Clients : d # c => qPc[d] \in {"idle", "dead"}
    BY <1>2, <2>1 DEF QueueRest, Alone, Queue!Closing
  <2>3. qRecords # Queue!None /\ Elems(qLine[qRecords]) \ {qArg[c]} = qWanted
    BY <1>2, <2>1 DEF QueueRest, Rewriting, Queue!At
  <2>4. Alone' /\ Pushing' /\ Rewriting'
    BY <1>1, <1>2, <2>2, <2>3
    DEF QueueTypes, Alone, Pushing, Rewriting, Queue!At, Queue!Closing, Queue!Creating
  <2>5. Queue!Closing(c)'
    BY <1>1, <1>2 DEF QueueTypes, Queue!Closing
  <2> QED BY <2>4, <2>5 DEF QueueRest, Quiet
<1> QED BY <1>3, <1>4 DEF QueueIInv, QueueRest

LEMMA CloseReopensIInv ==
  ASSUME QueueIInv, NEW c \in Clients, Queue!CloseReopens(c)
  PROVE  QueueIInv'
<1>1. QueueTypes
  BY DEF QueueIInv
<1>2. /\ qPc[c] = "reopen" /\ qTemp # Queue!None /\ qPc' = [qPc EXCEPT ![c] = "copy"]
      /\ qFp' = [qFp EXCEPT ![c] = qTemp]
      /\ UNCHANGED <<qTemp, qHave, qArg, qWanted, qTorn>>
  BY DEF Queue!CloseReopens, Queue!At, Queue!Goto
<1>3. PICK i \in Inodes :
       /\ Queue!Truncated(i, qRecords)
       /\ qRecords' = i
       /\ qFps' = [qFps EXCEPT ![c] = i]
  BY DEF Queue!CloseReopens
<1>4. i # Queue!None /\ qLine' = [qLine EXCEPT ![i] = <<>>] /\ qTemp \in Inodes
  BY <1>1, <1>2, <1>3, NoneIsNoInode DEF Queue!Truncated, QueueTypes
<1>5. QueueTypes'
  <2>1. qLine' \in [Inodes -> Short]
    BY <1>1, <1>3, <1>4, ElemsOfEmpty DEF QueueTypes
  <2> QED BY <1>1, <1>2, <1>3, <1>4, <2>1 DEF QueueTypes, Queue!At
<1>6. ASSUME ~qTorn' PROVE QueueRest'
  <2>1. QueueRest
    BY <1>2, <1>6 DEF QueueIInv, QueueRest
  <2>2. \A d \in Clients : d # c => qPc[d] \in {"idle", "dead"}
    BY <1>2, <2>1 DEF QueueRest, Alone, Queue!Closing
  <2>3. qRecords = Queue!None /\ Elems(qLine[qTemp]) \ {qArg[c]} = qWanted
    BY <1>2, <2>1 DEF QueueRest, Rewriting, Queue!At
  <2>4. i # qTemp
    BY <1>3, <2>3 DEF Queue!Truncated, Queue!Unused
  <2>5. qLine'[i] = <<>> /\ qLine'[qTemp] = qLine[qTemp]
    BY <1>1, <1>4, <2>4 DEF QueueTypes
  <2>6. Alone' /\ Pushing' /\ Rewriting'
    BY <1>1, <1>2, <1>3, <1>4, <2>2, <2>3, <2>4, <2>5
    DEF QueueTypes, Alone, Pushing, Rewriting, Queue!At, Queue!Closing, Queue!Creating
  <2>7. Queue!Closing(c)'
    BY <1>1, <1>2 DEF QueueTypes, Queue!Closing
  <2> QED BY <2>6, <2>7 DEF QueueRest, Quiet
<1> QED BY <1>5, <1>6 DEF QueueIInv, QueueRest

LEMMA CloseCopiesIInv ==
  ASSUME QueueIInv, NEW c \in Clients, Queue!CloseCopies(c)
  PROVE  QueueIInv'
<1>1. QueueTypes
  BY DEF QueueIInv
<1>2. /\ qPc[c] = "copy" /\ qPc' = [qPc EXCEPT ![c] = "remove"]
      /\ qFp' = [qFp EXCEPT ![c] = Queue!None] /\ qFps' = [qFps EXCEPT ![c] = Queue!None]
      /\ UNCHANGED <<qRecords, qTemp, qHave, qArg, qWanted, qTorn>>
  BY DEF Queue!CloseCopies, Queue!At, Queue!Goto, Queue!names
<1> DEFINE kept == Queue!Kept(qArg[c], qLine[qFp[c]])
           old == qLine[qFps[c]]
<1>3. /\ qFp[c] \in Inodes /\ qLine[qFp[c]] \in Seq(Names) /\ Len(qLine[qFp[c]]) <= MaxLines
      /\ qFps[c] \in Inodes /\ old \in Seq(Names) /\ Len(old) <= MaxLines
  BY <1>1, <1>2 DEF QueueTypes, Queue!At, Short
<1>4. qLine' = [qLine EXCEPT ![qFps[c]] = kept \o SubSeq(old, Len(kept) + 1, Len(old))]
  BY DEF Queue!CloseCopies
<1>5. kept \in Seq(Names) /\ Len(kept) <= Len(qLine[qFp[c]])
        /\ Elems(kept) = Elems(qLine[qFp[c]]) \ {qArg[c]}
  BY <1>3, KeptLines
<1> HIDE DEF kept, old
<1>6. kept \o SubSeq(old, Len(kept) + 1, Len(old)) \in Short
  <2>1. kept \in Seq(Names) /\ old \in Seq(Names) /\ Len(kept) \in Nat /\ Len(old) \in Nat
        /\ Len(kept) <= MaxLines /\ Len(old) <= MaxLines
    BY <1>3, <1>5, LinesBound
  <2> DEFINE tail == SubSeq(old, Len(kept) + 1, Len(old))
  <2>2. tail \in Seq(Names) /\ Len(tail) = IF Len(kept) + 1 <= Len(old)
          THEN Len(old) - Len(kept) ELSE 0
    BY <2>1
  <2> HIDE DEF tail
  <2>3. kept \o tail \in Seq(Names) /\ Len(kept \o tail) = Len(kept) + Len(tail)
    BY <2>1, <2>2
  <2> QED BY <2>1, <2>2, <2>3, LinesBound DEF Short, tail
<1>7. qLine' \in [Inodes -> Short]
  BY <1>1, <1>3, <1>4, <1>6 DEF QueueTypes
<1>8. QueueTypes'
  BY <1>1, <1>2, <1>7 DEF QueueTypes, Queue!At
<1>9. ASSUME ~qTorn' PROVE QueueRest'
  <2>1. QueueRest
    BY <1>2, <1>9 DEF QueueIInv, QueueRest
  <2>2. \A d \in Clients : d # c => qPc[d] \in {"idle", "dead"}
    BY <1>2, <2>1 DEF QueueRest, Alone, Queue!Closing
  <2>3. /\ qRecords # Queue!None /\ qFp[c] = qTemp /\ qFps[c] = qRecords
        /\ qLine[qRecords] = <<>> /\ Elems(qLine[qTemp]) \ {qArg[c]} = qWanted
    BY <1>2, <2>1 DEF QueueRest, Rewriting, Queue!At
  <2>4. qLine'[qRecords] = kept
    <3>1. kept \o SubSeq(<<>>, Len(kept) + 1, Len(<<>>)) = kept
      BY <1>5
    <3>2. old = <<>>
      BY <2>3 DEF old
    <3> QED BY <1>1, <1>3, <1>4, <2>3, <3>1, <3>2 DEF QueueTypes
  <2>5. Elems(qLine'[qRecords']) = qWanted'
    BY <1>2, <1>5, <2>3, <2>4
  <2>6. Alone' /\ Pushing' /\ Rewriting'
    BY <1>1, <1>2, <2>2, <2>3, <2>5
    DEF QueueTypes, Alone, Pushing, Rewriting, Queue!At, Queue!Closing, Queue!Creating
  <2>7. Queue!Closing(c)'
    BY <1>1, <1>2 DEF QueueTypes, Queue!Closing
  <2> QED BY <2>6, <2>7 DEF QueueRest, Quiet
<1> QED BY <1>8, <1>9 DEF QueueIInv, QueueRest

LEMMA CloseRemovesIInv ==
  ASSUME QueueIInv, NEW c \in Clients, Queue!CloseRemoves(c)
  PROVE  QueueIInv'
<1>1. QueueTypes
  BY DEF QueueIInv
<1>2. /\ qPc[c] = "remove" /\ qPc' = [qPc EXCEPT ![c] = "idle"] /\ qTemp' = Queue!None
      /\ UNCHANGED <<qRecords, qLine, qHave, qArg, qFp, qFps, qWanted, qTorn>>
  BY DEF Queue!CloseRemoves, Queue!At, Queue!Goto, Queue!open
<1>3. QueueTypes'
  BY <1>1, <1>2 DEF QueueTypes, Queue!At
<1>4. ASSUME ~qTorn' PROVE QueueRest'
  <2>1. QueueRest
    BY <1>2, <1>4 DEF QueueIInv, QueueRest
  <2>2. \A d \in Clients : d # c => qPc[d] \in {"idle", "dead"}
    BY <1>2, <2>1 DEF QueueRest, Alone, Queue!Closing
  <2>3. qRecords # Queue!None /\ Elems(qLine[qRecords]) = qWanted
    BY <1>2, <2>1 DEF QueueRest, Rewriting, Queue!At
  <2>4. Alone' /\ Pushing' /\ Rewriting'
    BY <1>1, <1>2, <2>2
    DEF QueueTypes, Alone, Pushing, Rewriting, Queue!At, Queue!Closing, Queue!Creating
  <2>5. Quiet'
    BY <1>2, <2>3 DEF Quiet
  <2> QED BY <2>4, <2>5 DEF QueueRest
<1> QED BY <1>3, <1>4 DEF QueueIInv, QueueRest

LEMMA CloseFaultsIInv ==
  ASSUME QueueIInv, NEW c \in Clients, Queue!CloseFaults(c)
  PROVE  QueueIInv'
  BY DEF QueueIInv, QueueTypes, Queue!CloseFaults, Queue!At, Queue!Goto, Queue!names, Queue!open

----------------------------------------------------------------------------
LEMMA EndsIInv ==
  ASSUME QueueIInv, NEW c \in Clients, Queue!DownloadHandle(c) \/ Queue!Dies(c)
         \/ Queue!Restarts(c)
  PROVE  QueueIInv'
<1>1. QueueTypes
  BY DEF QueueIInv
<1> DEFINE l == IF Queue!Restarts(c) THEN "idle" ELSE "dead"
<1>2. /\ qPc' = [qPc EXCEPT ![c] = qPc'[c]] /\ qPc'[c] \in {"idle", "dead"}
      /\ UNCHANGED <<qRecords, qTemp, qLine, qHave, qArg, qWanted>>
      /\ qTorn' \in BOOLEAN
  BY <1>1 DEF Queue!DownloadHandle, Queue!Dies, Queue!Restarts, Queue!At, Queue!Goto,
     Queue!names, QueueTypes
<1>3. ~qTorn' => ~qTorn /\ ~Queue!Closing(c)
  BY <1>1
  DEF Queue!DownloadHandle, Queue!Dies, Queue!Restarts, Queue!At, Queue!Closing, QueueTypes
<1>4. /\ qFp' \in [Clients -> Inodes \cup {Queue!None}]
           /\ qFps' \in [Clients -> Inodes \cup {Queue!None}]
      /\ \A d \in Clients : d # c => qFp'[d] = qFp[d] /\ qFps'[d] = qFps[d]
  BY <1>1 DEF Queue!DownloadHandle, Queue!Dies, Queue!Restarts, Queue!open, QueueTypes
<1>5. QueueTypes'
  BY <1>1, <1>2, <1>4 DEF QueueTypes, Queue!At
<1>6. ASSUME ~qTorn' PROVE QueueRest'
  <2>1. QueueRest
    BY <1>3, <1>6 DEF QueueIInv, QueueRest
  <2>2. Alone' /\ Pushing'
    BY <1>1, <1>2, <1>4, <2>1
    DEF QueueTypes, QueueRest, Alone, Pushing, Queue!At, Queue!Closing, Queue!Creating
  <2>3. Quiet' /\ Rewriting'
    BY <1>1, <1>2, <1>3, <1>4, <1>6, <2>1
    DEF QueueTypes, QueueRest, Quiet, Rewriting, Queue!At, Queue!Closing
  <2> QED BY <2>2, <2>3 DEF QueueRest
<1> QED BY <1>5, <1>6 DEF QueueIInv, QueueRest

\* Every step keeps the invariant.
LEMMA QueueNext == QueueIInv /\ [Queue!Next]_Queue!vars => QueueIInv'
<1> SUFFICES ASSUME QueueIInv, [Queue!Next]_Queue!vars PROVE QueueIInv'
  OBVIOUS
<1>1. qHave \subseteq Names
  BY DEF QueueIInv, QueueTypes
<1>2. ASSUME qHave' \subseteq Names,
        UNCHANGED <<qRecords, qTemp, qLine, qPc, qArg, qFp, qFps, qWanted, qTorn>>
      PROVE  QueueIInv'
  BY <1>2 DEF QueueIInv, QueueTypes, Alone, Pushing, Quiet, Rewriting, Queue!At,
     Queue!Closing, Queue!Creating
<1>3. CASE UNCHANGED Queue!vars
  BY <1>1, <1>2, <1>3 DEF Queue!vars, Queue!names, Queue!open
<1>4. ASSUME NEW s \in Names, Queue!Fetched(s) PROVE QueueIInv'
  BY <1>1, <1>2, <1>4 DEF Queue!Fetched, Queue!names, Queue!open
<1>5. ASSUME NEW c \in Clients, Queue!Call(c) PROVE QueueIInv'
  <2>1. ASSUME NEW s \in Names, Queue!PushChecks(c, s) \/ Queue!CloseFindsNone(c, s)
          \/ Queue!CloseChecks(c, s)
        PROVE  QueueIInv'
    BY <2>1, PushChecksIInv, FindsNoneIInv, CloseChecksIInv
  <2>2. CASE Queue!PopFindsNone(c)
    BY <2>2, FindsNoneIInv
  <2>3. CASE Queue!PushCreates(c) \/ Queue!PushOpens(c) \/ Queue!PushWrites(c)
    BY <2>3, PushCreatesIInv, PushOpensIInv, PushWritesIInv
  <2>4. CASE Queue!CloseMoves(c) \/ Queue!CloseReopens(c) \/ Queue!CloseFaults(c)
          \/ Queue!CloseCopies(c) \/ Queue!CloseRemoves(c)
    BY <2>4, CloseMovesIInv, CloseReopensIInv, CloseFaultsIInv, CloseCopiesIInv,
       CloseRemovesIInv
  <2>5. CASE Queue!DownloadHandle(c) \/ Queue!Dies(c) \/ Queue!Restarts(c)
    BY <2>5, EndsIInv
  <2> QED BY <1>5, <2>1, <2>2, <2>3, <2>4, <2>5 DEF Queue!Call
<1> QED BY <1>3, <1>4, <1>5 DEF Queue!Next

\* What the invariant is for.
LEMMA QueueKeeps == QueueIInv => Queue!RecordsKept
  BY DEF QueueIInv, Quiet, Queue!RecordsKept, Queue!Lines, Elems

LEMMA QueueTypesOK == QueueIInv => Queue!TypeOK
<1> SUFFICES ASSUME QueueTypes PROVE Queue!TypeOK
  BY DEF QueueIInv
<1>1. ASSUME NEW i \in Inodes
      PROVE  Queue!Lines(i) \subseteq Names /\ Len(qLine[i]) <= 2 * MaxLines
  <2>1. qLine[i] \in Seq(Names) /\ Len(qLine[i]) <= MaxLines
    BY DEF QueueTypes, Short
  <2>2. Len(qLine[i]) \in Nat /\ Len(qLine[i]) <= 2 * MaxLines
    BY <2>1, LinesBound
  <2> QED BY <2>1, <2>2 DEF Queue!Lines
<1>2. {qRecords, qTemp} \subseteq Inodes \cup {Queue!None}
  BY DEF QueueTypes
<1>3. \A i \in Inodes : Queue!Lines(i) \subseteq Names /\ Len(qLine[i]) <= 2 * MaxLines
  BY <1>1
<1>4. qWanted \subseteq Names /\ qArg \in [Clients -> Names \cup {Queue!None}]
        /\ qTorn \in BOOLEAN
      /\ qHave \subseteq Names
  BY DEF QueueTypes
<1> QED BY <1>2, <1>3, <1>4 DEF QueueTypes, Queue!TypeOK

----------------------------------------------------------------------------
(* internet.h: files over a socket.  f... are the variables of File.       *)
fUp == s1
fStream == s2
fPuts == s3
fCut == s4
fLeft == s5
fPc == s6
fGets == s7
fTogo == s8
fLocal == s9
fOk == s10
fSize == s11
fShort == s12
USE DEF fUp, fStream, fPuts, fCut, fLeft, fPc, fGets, fTogo, fLocal, fOk, fSize, fShort

Units == [put : 1..MaxPuts, at : 0..MaxSize]

\* Types of the connection and of its two ends.
FileTypes ==
  /\ fUp \in BOOLEAN /\ fOk \in BOOLEAN /\ fShort \in BOOLEAN
  /\ fStream \in Seq(Units) /\ fLocal \in Seq(Units) /\ fSize \in Seq(0..MaxSize)
  /\ fCut \in 0..MaxSize /\ fLeft \in 0..MaxSize /\ fTogo \in 0..MaxSize
  /\ fPuts \in 0..MaxPuts /\ fGets \in 0..MaxPuts
  /\ Len(fSize) = fPuts
  /\ fPc \in [{"put", "get"} -> {"idle", "size", "chunks"}]
  /\ fPc["put"] # "size"

\* Units in the stream are of files announced.
Announced ==
  /\ \A k \in 1..Len(fStream) : fStream[k].put <= fPuts
  /\ File!At("put", "chunks") => fPuts > 0 /\ fLeft <= fSize[fPuts] /\ fCut <= fSize[fPuts]
  /\ File!At("get", "size") \/ File!At("get", "chunks") => fGets > 0

\* The unit v comes directly after u: in the same file, or as the size of the next one.
Follows(sizes, u, v) ==
  \/ u.at < sizes[u.put] /\ v = File!Unit(u.put, u.at + 1)
  \/ u.at = sizes[u.put] /\ v = File!Unit(u.put + 1, 0)

\* The unit put_file sends next, and the one get_file expects.
ToSend == IF File!At("put", "chunks") /\ fLeft > 0 THEN File!Unit(fPuts, File!NextUnit)
  ELSE File!Unit(fPuts + 1, 0)

Due ==
  IF File!At("get", "size") THEN File!Unit(fGets, 0)
  ELSE IF File!At("get", "chunks") /\ fTogo > 0 THEN File!Unit(fGets, Len(fLocal) + 1)
  ELSE File!Unit(fGets + 1, 0)

\* The stream has the units from the one expected to the one sent next, in order.
InOrder ==
  /\ \A k \in 1..Len(fStream) : fStream[k].at <= fSize[fStream[k].put]
  /\ \A k \in 1..(Len(fStream) - 1) : Follows(fSize, fStream[k], fStream[k + 1])
  /\ fStream # <<>> => fStream[1] = Due
  /\ fUp => IF fStream = <<>> THEN Due = ToSend ELSE Follows(fSize, fStream[Len(fStream)], ToSend)

\* What get_file has written is the front of its file, and all of it at success.
Written ==
  /\ fGets > 0 => \A k \in 1..Len(fLocal) : fLocal[k] = File!Unit(fGets, k)
  /\ File!At("get", "size") => fLocal = <<>>
  /\ File!At("get", "chunks") => fGets <= fPuts /\ Len(fLocal) + fTogo = fSize[fGets]
  /\ ~File!At("get", "idle") => ~fOk
  /\ File!At("get", "idle") /\ fGets > 0 /\ fOk => fGets <= fPuts /\ Len(fLocal) = fSize[fGets]

\* The inductive invariant.
FileIInv == FileTypes /\ Announced /\ (~fShort => InOrder /\ Written)

LEMMA FileInit == File!Init => FileIInv
<1> SUFFICES ASSUME File!Init PROVE FileIInv
  OBVIOUS
<1>1. fStream = <<>> /\ fSize = <<>> /\ fLocal = <<>> /\ fGets = 0 /\ fPuts = 0
        /\ fLeft = 0 /\ fCut = 0
      /\ fTogo = 0 /\ fPc = [e \in {"put", "get"} |-> "idle"] /\ fUp = TRUE /\ fOk = FALSE
           /\ fShort = FALSE
  BY DEF File!Init
<1>2. FileTypes
  <2>1. fStream \in Seq(Units) /\ fLocal \in Seq(Units) /\ fSize \in Seq(0..MaxSize)
          /\ Len(fSize) = 0
    BY <1>1
  <2>2. fPc \in [{"put", "get"} -> {"idle", "size", "chunks"}] /\ fPc["put"] = "idle"
    BY <1>1
  <2>3. 0 \in 0..MaxSize /\ 0 \in 0..MaxPuts
    BY FileBounds
  <2> QED BY <1>1, <2>1, <2>2, <2>3 DEF FileTypes
<1>3. Announced
  BY <1>1 DEF Announced, File!At
<1>4. InOrder /\ Written
  BY <1>1 DEF InOrder, Written, File!At, Due, ToSend, File!Unit
<1> QED BY <1>2, <1>3, <1>4 DEF FileIInv

----------------------------------------------------------------------------
\* What the types say of numbers.
FileNumbers ==
  /\ Len(fStream) \in Nat /\ Len(fLocal) \in Nat
  /\ fPuts \in Nat /\ fGets \in Nat /\ fLeft \in Nat /\ fCut \in Nat /\ fTogo \in Nat
  /\ \A k \in 1..Len(fStream) : fStream[k].put \in Nat \ {0} /\ fStream[k].at \in Nat
  /\ \A k \in 1..fPuts : fSize[k] \in Nat
  /\ fStream = <<>> <=> Len(fStream) = 0

LEMMA FileTypesAreNumbers == FileTypes => FileNumbers
<1> SUFFICES ASSUME FileTypes PROVE FileNumbers
  OBVIOUS
<1>1. \A k \in 1..Len(fStream) : fStream[k].put \in Nat \ {0} /\ fStream[k].at \in Nat
  <2> SUFFICES ASSUME NEW k \in 1..Len(fStream)
               PROVE  fStream[k].put \in Nat \ {0} /\ fStream[k].at \in Nat
    OBVIOUS
  <2>1. fStream[k] \in Units
    BY DEF FileTypes
  <2> QED BY <2>1, FileBounds DEF Units
<1>2. fStream = <<>> <=> Len(fStream) = 0
  BY EmptySeq DEF FileTypes
<1>3. Len(fStream) \in Nat /\ Len(fLocal) \in Nat
  BY DEF FileTypes
<1>4. fPuts \in Nat /\ fGets \in Nat /\ fLeft \in Nat /\ fCut \in Nat /\ fTogo \in Nat
  BY FileBounds DEF FileTypes
<1>5. \A k \in 1..fPuts : fSize[k] \in Nat
  BY FileBounds DEF FileTypes
<1> QED BY <1>1, <1>2, <1>3, <1>4, <1>5 DEF FileNumbers

LEMMA SizesAreSizes == ASSUME FileTypes PROVE \A k \in 1..fPuts : fSize[k] \in 0..MaxSize
<1>1. fSize \in Seq(0..MaxSize) /\ Len(fSize) = fPuts
  BY DEF FileTypes
<1> QED BY <1>1, ElementOfSeq

LEMMA SendsTypes ==
  ASSUME FileTypes, NEW u \in Units, File!Sends(u)
  PROVE  /\ fStream' \in Seq(Units)
         /\ fUp => Len(fStream') = Len(fStream) + 1
                  /\ fStream'[Len(fStream) + 1] = u
                  /\ \A k \in 1..Len(fStream) : fStream'[k] = fStream[k]
         /\ ~fUp => fStream' = fStream
  BY DEF FileTypes, File!Sends

LEMMA ReceivesTypes ==
  ASSUME FileTypes, File!Receives
  PROVE  /\ Len(fStream) > 0 /\ Head(fStream) = fStream[1] /\ fStream[1] \in Units
         /\ fStream' \in Seq(Units) /\ Len(fStream') = Len(fStream) - 1
         /\ \A k \in 1..Len(fStream') : fStream'[k] = fStream[k + 1]
<1>1. fStream \in Seq(Units) /\ fStream # <<>> /\ fStream' = Tail(fStream)
  BY DEF FileTypes, File!Receives
<1>2. Len(fStream) \in Nat /\ Len(fStream) > 0
  BY <1>1, EmptySeq
<1>3. Head(fStream) = fStream[1] /\ fStream[1] \in Units
  BY <1>1, <1>2
<1> QED BY <1>1, <1>2, <1>3, HeadTailProperties

\* A unit at the end of the stream, where the connection stands: the order goes on with
\* what is to be sent after it.
LEMMA SendsInOrder ==
  ASSUME InOrder, FileNumbers, Announced, FileTypes', FileNumbers',
         NEW u, u.put \in 1..fPuts', u.at \in 0..fSize'[u.put],
         fUp => u = ToSend,
         fUp => Len(fStream') = Len(fStream) + 1
               /\ fStream'[Len(fStream) + 1] = u
               /\ \A k \in 1..Len(fStream) : fStream'[k] = fStream[k],
         ~fUp => fStream' = fStream,
         fUp' = fUp, Due' = Due,
         \A k \in 1..fPuts : fSize'[k] = fSize[k],
         fUp => Follows(fSize', u, ToSend')
  PROVE  InOrder'
<1>1. /\ \A k \in 1..Len(fStream) : fStream[k].at <= fSize[fStream[k].put]
      /\ \A k \in 1..(Len(fStream) - 1) : Follows(fSize, fStream[k], fStream[k + 1])
      /\ Len(fStream) > 0 => fStream[1] = Due
      /\ fUp => IF Len(fStream) = 0 THEN Due = ToSend
           ELSE Follows(fSize, fStream[Len(fStream)], ToSend)
  BY DEF InOrder, FileNumbers
<1>2. /\ Len(fStream) \in Nat
      /\ \A k \in 1..Len(fStream) : fStream[k].put \in 1..fPuts
      /\ fStream' = <<>> <=> Len(fStream') = 0
  <2>1. Len(fStream) \in Nat /\ fPuts \in Nat
    BY DEF FileNumbers
  <2>2. \A k \in 1..Len(fStream) : fStream[k].put \in Nat \ {0}
    BY DEF FileNumbers
  <2>3. \A k \in 1..Len(fStream) : fStream[k].put <= fPuts
    BY DEF Announced
  <2>4. fStream' = <<>> <=> Len(fStream') = 0
    BY DEF FileNumbers
  <2> QED BY <2>1, <2>2, <2>3, <2>4
<1>3. \A k \in 1..Len(fStream) : \A v : Follows(fSize, fStream[k], v)
        => Follows(fSize', fStream[k], v)
  BY <1>2 DEF Follows
<1>4. \A k \in 1..Len(fStream) : fSize'[fStream[k].put] = fSize[fStream[k].put]
  BY <1>2
<1>5. CASE ~fUp
  <2>1. fStream' = fStream /\ ~fUp' /\ Due' = Due
    BY <1>5
  <2>2. \A k \in 1..Len(fStream) : fStream[k].at <= fSize'[fStream[k].put]
    BY <1>1, <1>4
  <2>3. ASSUME NEW k \in 1..(Len(fStream) - 1) PROVE Follows(fSize', fStream[k], fStream[k + 1])
    <3>1. k \in 1..Len(fStream) /\ Follows(fSize, fStream[k], fStream[k + 1])
      BY <1>1, <1>2
    <3> QED BY <1>3, <3>1
  <2> QED BY <1>1, <1>2, <2>1, <2>2, <2>3 DEF InOrder
<1>6. CASE fUp
  <2>1. /\ u = ToSend /\ Len(fStream') = Len(fStream) + 1 /\ fStream'[Len(fStream) + 1] = u
        /\ \A k \in 1..Len(fStream) : fStream'[k] = fStream[k]
    BY <1>6
  <2>2. \A k \in 1..Len(fStream') : fStream'[k].at <= fSize'[fStream'[k].put]
    <3> SUFFICES ASSUME NEW k \in 1..Len(fStream')
                 PROVE  fStream'[k].at <= fSize'[fStream'[k].put]
      OBVIOUS
    <3>1. CASE k = Len(fStream')
      BY <1>2, <2>1, <3>1
    <3>2. CASE k \in 1..Len(fStream)
      BY <1>1, <1>4, <2>1, <3>2
    <3> QED BY <1>2, <2>1, <3>1, <3>2
  <2>3. \A k \in 1..(Len(fStream') - 1) : Follows(fSize', fStream'[k], fStream'[k + 1])
    <3> SUFFICES ASSUME NEW k \in 1..(Len(fStream') - 1)
                 PROVE  Follows(fSize', fStream'[k], fStream'[k + 1])
      OBVIOUS
    <3>1. k \in 1..Len(fStream) /\ fStream'[k] = fStream[k]
      BY <1>2, <2>1
    <3>2. Follows(fSize, fStream[k], fStream'[k + 1])
      BY <1>1, <1>2, <1>6, <2>1, <3>1
    <3> QED BY <1>3, <3>1, <3>2
  <2>4. fStream'[1] = Due'
    BY <1>1, <1>2, <1>6, <2>1
  <2>5. Follows(fSize', fStream'[Len(fStream')], ToSend') /\ fStream' # <<>>
    BY <1>2, <1>6, <2>1
  <2> QED BY <2>2, <2>3, <2>4, <2>5 DEF InOrder
<1> QED BY <1>5, <1>6

LEMMA PutOpensIInv ==
  ASSUME FileIInv, NEW n \in 0..MaxSize, File!PutOpens(n)
  PROVE  FileIInv'
<1>1. FileTypes /\ Announced /\ FileNumbers /\ (~fShort => InOrder /\ Written)
  BY FileTypesAreNumbers DEF FileIInv
<1>2. /\ fPc["put"] = "idle" /\ fPuts < MaxPuts /\ fPuts' = fPuts + 1 /\ fCut' = n /\ fLeft' = n
      /\ UNCHANGED <<fUp, fGets, fTogo, fLocal, fOk, fShort>>
  BY DEF File!PutOpens, File!At, File!receiving
<1>3. fSize' \in Seq(0..MaxSize) /\ Len(fSize') = fPuts'
  <2>1. fSize' = Append(fSize, n) /\ fSize \in Seq(0..MaxSize) /\ Len(fSize) = fPuts
    BY <1>1 DEF File!PutOpens, FileTypes
  <2> QED BY <1>2, <2>1
<1>4. fSize'[fPuts'] = n /\ \A k \in 1..fPuts : fSize'[k] = fSize[k]
  <2>1. fSize' = Append(fSize, n) /\ fSize \in Seq(0..MaxSize) /\ Len(fSize) = fPuts
    BY <1>1 DEF File!PutOpens, FileTypes
  <2> QED BY <1>2, <2>1
<1>5. fPuts' \in 1..MaxPuts /\ fPuts' \in 0..MaxPuts /\ n \in Nat /\ fPuts \in Nat
  BY <1>1, <1>2, FileBounds DEF FileTypes
<1>6. File!Unit(fPuts', 0) \in Units
  BY <1>5, FileBounds DEF File!Unit, Units
<1>7. CASE File!Sends(File!Unit(fPuts', 0)) /\ File!Goto("put", "chunks")
  <2>1. fPc' \in [{"put", "get"} -> {"idle", "size", "chunks"}] /\ fPc'["put"] = "chunks"
        /\ fPc'["get"] = fPc["get"]
    BY <1>1, <1>7 DEF File!Goto, FileTypes
  <2>2. fStream' \in Seq(Units)
    BY <1>1, <1>6, <1>7, SendsTypes
  <2>3. /\ fUp => Len(fStream') = Len(fStream) + 1
                /\ fStream'[Len(fStream) + 1] = File!Unit(fPuts', 0)
                /\ \A k \in 1..Len(fStream) : fStream'[k] = fStream[k]
        /\ ~fUp => fStream' = fStream
    BY <1>1, <1>6, <1>7, SendsTypes
  <2>4. FileTypes' /\ FileNumbers'
    <3>1. FileTypes'
      BY <1>1, <1>2, <1>3, <1>5, <2>1, <2>2 DEF FileTypes
    <3> QED BY <3>1, FileTypesAreNumbers, PTL
  <2>5. Announced'
    <3>1. \A k \in 1..Len(fStream') : fStream'[k].put <= fPuts'
      <4> SUFFICES ASSUME NEW k \in 1..Len(fStream') PROVE fStream'[k].put <= fPuts'
        OBVIOUS
      <4>1. CASE k \in 1..Len(fStream)
        <5>1. fStream'[k] = fStream[k] /\ fStream[k].put <= fPuts /\ fStream[k].put \in Nat
          BY <1>1, <2>3, <4>1 DEF Announced, FileNumbers
        <5> QED BY <1>2, <1>5, <5>1
      <4>2. CASE fUp /\ k = Len(fStream) + 1
        BY <1>5, <2>3, <4>2 DEF File!Unit
      <4> QED BY <1>1, <2>3, <4>1, <4>2 DEF FileNumbers
    <3> QED BY <1>1, <1>2, <1>4, <1>5, <2>1, <3>1 DEF Announced, File!At
  <2>6. ASSUME ~fShort PROVE InOrder'
    <3>1. Due' = Due
      BY <1>2, <2>1 DEF Due, File!At
    <3>2. ToSend = File!Unit(fPuts', 0)
      BY <1>2 DEF ToSend, File!At
    <3>3. Follows(fSize', File!Unit(fPuts', 0), ToSend')
      BY <1>2, <1>4, <1>5, <2>1 DEF Follows, ToSend, File!NextUnit, File!At, File!Unit
    <3>4. File!Unit(fPuts', 0).put \in 1..fPuts'
            /\ File!Unit(fPuts', 0).at \in 0..fSize'[File!Unit(fPuts', 0).put]
      BY <1>4, <1>5 DEF File!Unit
    <3>5. InOrder /\ fUp' = fUp
      BY <1>1, <1>2, <2>6
    <3> DEFINE u == File!Unit(fPuts + 1, 0)
    <3>6. u = File!Unit(fPuts', 0)
      BY <1>2
    <3> HIDE DEF u
    <3> QED BY <1>1, <1>4, <2>3, <2>4, <3>1, <3>2, <3>3, <3>4, <3>5, <3>6, SendsInOrder
  <2>7. ASSUME ~fShort PROVE Written'
    <3>1. Written
      BY <1>1, <2>7
    <3>2. fGets \in Nat
            /\ (fGets <= fPuts => fGets <= fPuts' /\ (fSize'[fGets] = fSize[fGets] \/ fGets = 0))
      BY <1>1, <1>2, <1>4 DEF FileNumbers
    <3> QED BY <1>1, <1>2, <2>1, <3>1, <3>2 DEF Written, Announced, File!At
  <2> QED BY <1>2, <2>4, <2>5, <2>6, <2>7 DEF FileIInv
<1>8. CASE ~fUp /\ UNCHANGED <<fStream, fPc>>
  <2>1. FileTypes' /\ FileNumbers'
    <3>1. FileTypes'
      BY <1>1, <1>2, <1>3, <1>5, <1>8 DEF FileTypes
    <3> QED BY <3>1, FileTypesAreNumbers, PTL
  <2>2. Announced'
    BY <1>1, <1>2, <1>5, <1>8 DEF Announced, File!At, FileNumbers
  <2>3. ASSUME ~fShort PROVE InOrder' /\ Written'
    <3>1. Due' = Due
      BY <1>2, <1>8 DEF Due, File!At
    <3>2. InOrder /\ Written
      BY <1>1, <2>3
    <3>3. \A k \in 1..Len(fStream) : fSize'[fStream[k].put] = fSize[fStream[k].put]
      <4>1. fPuts \in Nat /\ \A k \in 1..Len(fStream) : fStream[k].put \in Nat \ {0}
        BY <1>1 DEF FileNumbers
      <4>2. \A k \in 1..Len(fStream) : fStream[k].put <= fPuts
        BY <1>1 DEF Announced
      <4>3. \A k \in 1..Len(fStream) : fStream[k].put \in 1..fPuts
        BY <4>1, <4>2
      <4> QED BY <1>4, <4>3
    <3>4. \A k \in 1..Len(fStream) : \A v : Follows(fSize, fStream[k], v)
            => Follows(fSize', fStream[k], v)
      BY <3>3 DEF Follows
    <3>5. InOrder'
      <4>1. \A k \in 1..Len(fStream) : fStream[k].at <= fSize'[fStream[k].put]
        BY <3>2, <3>3 DEF InOrder
      <4>2. ASSUME NEW k \in 1..(Len(fStream) - 1)
            PROVE  Follows(fSize', fStream[k], fStream[k + 1])
        <5>1. k \in 1..Len(fStream) /\ Follows(fSize, fStream[k], fStream[k + 1])
          BY <1>1, <3>2 DEF InOrder, FileNumbers
        <5> QED BY <3>4, <5>1
      <4> QED BY <1>2, <1>8, <3>1, <3>2, <4>1, <4>2 DEF InOrder
    <3>6. fGets \in Nat
            /\ (fGets <= fPuts => fGets <= fPuts' /\ (fSize'[fGets] = fSize[fGets] \/ fGets = 0))
      BY <1>1, <1>2, <1>4 DEF FileNumbers
    <3> QED BY <1>1, <1>2, <1>8, <3>2, <3>5, <3>6 DEF Written, Announced, File!At
  <2> QED BY <1>2, <2>1, <2>2, <2>3 DEF FileIInv
<1> QED BY <1>7, <1>8 DEF File!PutOpens

LEMMA FileCutIInv == ASSUME FileIInv, File!FileCut PROVE FileIInv'
<1>1. FileTypes /\ Announced /\ FileNumbers /\ (~fShort => InOrder /\ Written)
  BY FileTypesAreNumbers DEF FileIInv
<1>2. /\ fCut > 0 /\ fCut' = fCut - 1
      /\ UNCHANGED <<fUp, fStream, fPc, fPuts, fLeft, fSize, fShort, fGets, fTogo, fLocal, fOk>>
  BY DEF File!FileCut, File!receiving
<1>3. FileTypes'
  <2>1. fCut \in 0..MaxSize
    BY <1>1 DEF FileTypes
  <2>2. fCut' \in 0..MaxSize
    BY <1>2, <2>1, FileBounds
  <2> QED BY <1>1, <1>2, <2>2 DEF FileTypes
<1>4. Announced'
  BY <1>1, <1>2 DEF Announced, File!At, FileNumbers
<1>5. InOrder => InOrder'
  <2>1. Due' = Due /\ ToSend' = ToSend
    BY <1>2 DEF Due, ToSend, File!NextUnit, File!At
  <2> QED BY <1>2, <2>1 DEF InOrder
<1>6. Written => Written'
  BY <1>2 DEF Written, File!At
<1> QED BY <1>1, <1>2, <1>3, <1>4, <1>5, <1>6 DEF FileIInv

LEMMA PutChunkIInv == ASSUME FileIInv, File!PutChunk PROVE FileIInv'
<1>1. FileTypes /\ Announced /\ FileNumbers /\ (~fShort => InOrder /\ Written)
  BY FileTypesAreNumbers DEF FileIInv
<1>2. /\ fPc["put"] = "chunks" /\ fLeft > 0 /\ File!NextUnit <= fCut /\ fLeft' = fLeft - 1
      /\ File!Sends(File!Unit(fPuts, File!NextUnit))
      /\ UNCHANGED <<fUp, fPc, fPuts, fCut, fSize, fShort, fGets, fTogo, fLocal, fOk>>
  BY DEF File!PutChunk, File!Readable, File!At, File!receiving
<1>3. fPuts \in 1..MaxPuts /\ fSize[fPuts] \in 0..MaxSize /\ fLeft <= fSize[fPuts]
  BY <1>1, <1>2, FileBounds DEF FileTypes, Announced, File!At
<1>4. File!NextUnit \in 1..fSize[fPuts] /\ File!NextUnit = fSize[fPuts] - fLeft + 1
  BY <1>1, <1>2, <1>3, FileBounds DEF File!NextUnit, FileNumbers
<1>5. File!Unit(fPuts, File!NextUnit) \in Units
  BY <1>3, <1>4, FileBounds DEF File!Unit, Units
<1>6. fStream' \in Seq(Units)
  BY <1>1, <1>2, <1>5, SendsTypes
<1>7. /\ fUp => Len(fStream') = Len(fStream) + 1
              /\ fStream'[Len(fStream) + 1] = File!Unit(fPuts, File!NextUnit)
              /\ \A k \in 1..Len(fStream) : fStream'[k] = fStream[k]
      /\ ~fUp => fStream' = fStream
  BY <1>1, <1>2, <1>5, SendsTypes
<1>8. FileTypes' /\ FileNumbers'
  <2>1. fLeft \in 0..MaxSize
    BY <1>1 DEF FileTypes
  <2>2. fLeft' \in 0..MaxSize
    BY <1>2, <2>1, FileBounds
  <2>3. FileTypes'
    BY <1>1, <1>2, <1>6, <2>2 DEF FileTypes
  <2> QED BY <2>3, FileTypesAreNumbers, PTL
<1>9. Announced'
  <2>1. ASSUME NEW k \in 1..Len(fStream') PROVE fStream'[k].put <= fPuts'
    <3>1. CASE k \in 1..Len(fStream)
      BY <1>1, <1>2, <1>7, <3>1 DEF Announced
    <3>2. CASE fUp /\ k = Len(fStream) + 1
      BY <1>1, <1>2, <1>7, <3>2 DEF File!Unit, FileNumbers
    <3> QED BY <1>1, <1>7, <3>1, <3>2 DEF FileNumbers
  <2> QED BY <1>1, <1>2, <2>1 DEF Announced, File!At, FileNumbers
<1>10. ASSUME ~fShort PROVE InOrder' /\ Written'
  <2>1. Due' = Due
    BY <1>2 DEF Due, File!At
  <2>2. ToSend = File!Unit(fPuts, File!NextUnit)
    BY <1>2 DEF ToSend, File!At
  <2>3. Follows(fSize', File!Unit(fPuts, File!NextUnit), ToSend')
    BY <1>1, <1>2, <1>3, <1>4
    DEF Follows, ToSend, File!NextUnit, File!At, File!Unit, FileNumbers
  <2>4. File!Unit(fPuts, File!NextUnit).put \in 1..fPuts'
        /\ File!Unit(fPuts, File!NextUnit).at \in 0..fSize'[File!Unit(fPuts, File!NextUnit).put]
    BY <1>2, <1>3, <1>4 DEF File!Unit
  <2>5. PICK u : u = File!Unit(fPuts, File!NextUnit)
    OBVIOUS
  <2>6. InOrder /\ Written /\ fUp' = fUp
    BY <1>1, <1>2, <1>10
  <2>7. \A k \in 1..fPuts : fSize'[k] = fSize[k]
    BY <1>2
  <2>8. InOrder'
    BY <1>1, <1>7, <1>8, <2>1, <2>2, <2>3, <2>4, <2>5, <2>6, <2>7, SendsInOrder
  <2> QED BY <1>2, <2>6, <2>8 DEF Written, File!At
<1> QED BY <1>2, <1>8, <1>9, <1>10 DEF FileIInv

LEMMA PutEndsIInv == ASSUME FileIInv, File!PutShort \/ File!PutReturns PROVE FileIInv'
<1>1. FileTypes /\ Announced /\ FileNumbers /\ (~fShort => InOrder /\ Written)
  BY FileTypesAreNumbers DEF FileIInv
<1>2. /\ fPc["put"] = "chunks" /\ File!Goto("put", "idle")
      /\ UNCHANGED <<fUp, fStream, fPuts, fCut, fLeft, fSize, fGets, fTogo, fLocal, fOk>>
  BY DEF File!PutShort, File!PutReturns, File!At, File!receiving, File!sending
<1>3. /\ fShort' \in BOOLEAN
      /\ ~fShort' => ~fShort /\ (fLeft = 0 \/ ~fUp)
  BY <1>1 DEF File!PutShort, File!PutReturns, File!sending, FileTypes
<1>4. fPc' \in [{"put", "get"} -> {"idle", "size", "chunks"}] /\ fPc'["put"] = "idle"
      /\ fPc'["get"] = fPc["get"]
  BY <1>1, <1>2 DEF File!Goto, FileTypes
<1>5. FileTypes'
  BY <1>1, <1>2, <1>3, <1>4 DEF FileTypes
<1>6. Announced'
  BY <1>1, <1>2, <1>4 DEF Announced, File!At
<1>7. ASSUME ~fShort' PROVE InOrder' /\ Written'
  <2>1. InOrder /\ Written
    BY <1>1, <1>3, <1>7
  <2>2. Due' = Due
    BY <1>2, <1>4 DEF Due, File!At
  <2>3. fUp => ToSend' = ToSend
    BY <1>1, <1>2, <1>3, <1>4, <1>7 DEF ToSend, File!At, FileNumbers
  <2>4. InOrder'
    BY <1>2, <2>1, <2>2, <2>3 DEF InOrder
  <2> QED BY <1>2, <1>4, <2>1, <2>4 DEF Written, File!At
<1> QED BY <1>5, <1>6, <1>7 DEF FileIInv

----------------------------------------------------------------------------
LEMMA GetOpensIInv == ASSUME FileIInv, File!GetOpens PROVE FileIInv'
<1>1. FileTypes /\ Announced /\ FileNumbers /\ (~fShort => InOrder /\ Written)
  BY FileTypesAreNumbers DEF FileIInv
<1>2. /\ fPc["get"] = "idle" /\ fGets < MaxPuts /\ File!Goto("get", "size")
      /\ fGets' = fGets + 1 /\ fLocal' = <<>> /\ fOk' = FALSE
      /\ UNCHANGED <<fUp, fStream, fPuts, fCut, fLeft, fSize, fShort, fTogo>>
  BY DEF File!GetOpens, File!At, File!sending
<1>3. fPc' \in [{"put", "get"} -> {"idle", "size", "chunks"}] /\ fPc'["get"] = "size"
      /\ fPc'["put"] = fPc["put"]
  BY <1>1, <1>2 DEF File!Goto, FileTypes
<1>4. FileTypes'
  <2>1. fGets \in 0..MaxPuts
    BY <1>1 DEF FileTypes
  <2>2. fGets' \in 0..MaxPuts
    BY <1>2, <2>1, FileBounds
  <2>3. fLocal' \in Seq(Units)
    BY <1>2
  <2> QED BY <1>1, <1>2, <1>3, <2>2, <2>3 DEF FileTypes
<1>5. Announced'
  BY <1>1, <1>2, <1>3 DEF Announced, File!At, FileNumbers
<1>6. ASSUME ~fShort PROVE InOrder' /\ Written'
  <2>1. InOrder /\ Written
    BY <1>1, <1>6
  <2>2. Due' = Due
    BY <1>2, <1>3 DEF Due, File!At
  <2>3. ToSend' = ToSend
    BY <1>2, <1>3 DEF ToSend, File!NextUnit, File!At
  <2>4. InOrder'
    BY <1>2, <2>1, <2>2, <2>3 DEF InOrder
  <2>5. Written'
    BY <1>2, <1>3, <2>1 DEF Written, File!At
  <2> QED BY <2>4, <2>5
<1> QED BY <1>2, <1>4, <1>5, <1>6 DEF FileIInv

\* The front of the stream is taken: what is due then is what followed it.
LEMMA ReceivesInOrder ==
  ASSUME InOrder, FileNumbers, Announced, FileNumbers', Len(fStream) > 0,
         Len(fStream') = Len(fStream) - 1,
         \A k \in 1..Len(fStream') : fStream'[k] = fStream[k + 1],
         UNCHANGED <<fUp, fSize, fPuts>>, ToSend' = ToSend,
         \A v : Follows(fSize, fStream[1], v) => v = Due'
  PROVE  InOrder'
<1>1. /\ \A k \in 1..Len(fStream) : fStream[k].at <= fSize[fStream[k].put]
      /\ \A k \in 1..(Len(fStream) - 1) : Follows(fSize, fStream[k], fStream[k + 1])
      /\ fUp => Follows(fSize, fStream[Len(fStream)], ToSend)
  BY DEF InOrder, FileNumbers
<1>2. /\ Len(fStream) \in Nat /\ Len(fStream') \in Nat /\ fSize' = fSize /\ fUp' = fUp
      /\ fStream' = <<>> <=> Len(fStream') = 0
  BY DEF FileNumbers
<1>3. \A k \in 1..Len(fStream') : fStream'[k].at <= fSize'[fStream'[k].put]
  BY <1>1, <1>2
<1>4. ASSUME NEW k \in 1..(Len(fStream') - 1)
      PROVE  Follows(fSize', fStream'[k], fStream'[k + 1])
  <2>1. fStream'[k] = fStream[k + 1] /\ fStream'[k + 1] = fStream[(k + 1) + 1]
    BY <1>2
  <2>2. Follows(fSize, fStream[k + 1], fStream[(k + 1) + 1])
    BY <1>1, <1>2
  <2> QED BY <1>2, <2>1, <2>2
<1>5. ASSUME Len(fStream') > 0 PROVE fStream'[1] = Due'
  <2>1. Follows(fSize, fStream[1], fStream[1 + 1]) /\ fStream'[1] = fStream[1 + 1]
    BY <1>1, <1>2, <1>5
  <2> QED BY <2>1
<1>6. ASSUME fUp, Len(fStream') = 0 PROVE Due' = ToSend'
  <2>1. Len(fStream) = 1
    BY <1>2, <1>6
  <2>2. Follows(fSize, fStream[1], ToSend)
    BY <1>1, <1>2, <1>6, <2>1
  <2> QED BY <2>2
<1>7. ASSUME fUp, Len(fStream') > 0 PROVE Follows(fSize', fStream'[Len(fStream')], ToSend')
  <2>1. fStream'[Len(fStream')] = fStream[Len(fStream)]
    BY <1>2, <1>7
  <2> QED BY <1>1, <1>2, <1>7, <2>1
<1> QED BY <1>2, <1>3, <1>4, <1>5, <1>6, <1>7 DEF InOrder

LEMMA ReceivesAnnounced ==
  ASSUME Announced, FileNumbers, Len(fStream) > 0,
         Len(fStream') = Len(fStream) - 1,
         \A k \in 1..Len(fStream') : fStream'[k] = fStream[k + 1],
         UNCHANGED <<fPuts, fLeft, fCut, fSize, fGets>>,
         File!At("put", "chunks")' = File!At("put", "chunks"),
         fGets > 0
  PROVE  Announced'
  BY DEF Announced, FileNumbers

LEMMA GetSizeIInv == ASSUME FileIInv, File!GetSize PROVE FileIInv'
<1>1. FileTypes /\ Announced /\ FileNumbers /\ (~fShort => InOrder /\ Written)
  BY FileTypesAreNumbers DEF FileIInv
<1>2. /\ fPc["get"] = "size" /\ File!Goto("get", "chunks")
      /\ UNCHANGED <<fUp, fPuts, fCut, fLeft, fSize, fShort, fGets, fLocal, fOk>>
  BY DEF File!GetSize, File!At, File!sending
<1>3. /\ Len(fStream) > 0 /\ Head(fStream) = fStream[1] /\ fStream[1] \in Units
      /\ fStream' \in Seq(Units)
  BY <1>1, ReceivesTypes DEF File!GetSize
<1>4. /\ Len(fStream') = Len(fStream) - 1
      /\ \A k \in 1..Len(fStream') : fStream'[k] = fStream[k + 1]
  BY <1>1, ReceivesTypes DEF File!GetSize
<1>5. fTogo' = IF fStream[1].at = 0 THEN fSize[fStream[1].put] ELSE MaxSize
  BY <1>3 DEF File!GetSize
<1>6. fPc' \in [{"put", "get"} -> {"idle", "size", "chunks"}] /\ fPc'["get"] = "chunks"
      /\ fPc'["put"] = fPc["put"]
  BY <1>1, <1>2 DEF File!Goto, FileTypes
<1>7. fStream[1].put \in 1..fPuts /\ fGets > 0
  BY <1>1, <1>2, <1>3 DEF Announced, FileNumbers, File!At
<1>8. FileTypes' /\ FileNumbers'
  <2>1. fTogo' \in 0..MaxSize
    <3>1. fSize[fStream[1].put] \in 0..MaxSize
      BY <1>1, <1>7, SizesAreSizes
    <3> QED BY <1>5, <3>1, FileBounds
  <2>2. FileTypes'
    BY <1>1, <1>2, <1>3, <1>6, <2>1 DEF FileTypes
  <2> QED BY <2>2, FileTypesAreNumbers, PTL
<1>9. Announced'
  BY <1>1, <1>2, <1>3, <1>4, <1>6, <1>7, ReceivesAnnounced DEF File!At
<1>10. ASSUME ~fShort PROVE InOrder' /\ Written'
  <2>1. InOrder /\ Written
    BY <1>1, <1>10
  <2>2. fStream[1] = File!Unit(fGets, 0) /\ fLocal = <<>> /\ ~fOk
    BY <1>1, <1>2, <1>3, <2>1 DEF InOrder, Written, Due, File!At, FileNumbers
  <2>3. fStream[1].at = 0 /\ fStream[1].put = fGets /\ fGets \in 1..fPuts /\ fTogo' = fSize[fGets]
    BY <1>5, <1>7, <2>2 DEF File!Unit
  <2>4. fSize[fGets] \in Nat
    BY <1>1, <2>3 DEF FileNumbers
  <2>5. ToSend' = ToSend
    BY <1>2, <1>6 DEF ToSend, File!NextUnit, File!At
  <2>6. ASSUME NEW v, Follows(fSize, fStream[1], v) PROVE v = Due'
    <3>1. CASE fSize[fGets] = 0
      BY <1>2, <1>6, <2>2, <2>3, <2>6, <3>1 DEF Follows, Due, File!At, File!Unit
    <3>2. CASE fSize[fGets] > 0
      BY <1>2, <1>6, <2>2, <2>3, <2>6, <3>2 DEF Follows, Due, File!At, File!Unit
    <3> QED BY <2>4, <3>1, <3>2
  <2>7. InOrder'
    BY <1>1, <1>2, <1>3, <1>4, <1>8, <2>1, <2>5, <2>6, ReceivesInOrder
  <2>8. Written'
    BY <1>1, <1>2, <1>6, <2>1, <2>2, <2>3, <2>4 DEF Written, File!At
  <2> QED BY <2>7, <2>8
<1> QED BY <1>2, <1>8, <1>9, <1>10 DEF FileIInv

LEMMA GetChunkIInv == ASSUME FileIInv, File!GetChunk PROVE FileIInv'
<1>1. FileTypes /\ Announced /\ FileNumbers /\ (~fShort => InOrder /\ Written)
  BY FileTypesAreNumbers DEF FileIInv
<1>2. /\ fPc["get"] = "chunks" /\ fTogo > 0 /\ fTogo' = fTogo - 1
      /\ fLocal' = Append(fLocal, Head(fStream))
      /\ UNCHANGED <<fUp, fPc, fPuts, fCut, fLeft, fSize, fShort, fGets, fOk>>
  BY DEF File!GetChunk, File!At, File!sending
<1>3. /\ Len(fStream) > 0 /\ Head(fStream) = fStream[1] /\ fStream[1] \in Units
      /\ fStream' \in Seq(Units)
  BY <1>1, ReceivesTypes DEF File!GetChunk
<1>4. /\ Len(fStream') = Len(fStream) - 1
      /\ \A k \in 1..Len(fStream') : fStream'[k] = fStream[k + 1]
  BY <1>1, ReceivesTypes DEF File!GetChunk
<1>5. fLocal' \in Seq(Units)
  <2>1. fLocal \in Seq(Units) /\ fLocal' = Append(fLocal, fStream[1])
    BY <1>1, <1>2, <1>3 DEF FileTypes
  <2> QED BY <1>3, <2>1
<1>6. Len(fLocal') = Len(fLocal) + 1 /\ fLocal'[Len(fLocal) + 1] = fStream[1]
      /\ \A k \in 1..Len(fLocal) : fLocal'[k] = fLocal[k]
  <2>1. fLocal \in Seq(Units) /\ fLocal' = Append(fLocal, fStream[1])
    BY <1>1, <1>2, <1>3 DEF FileTypes
  <2> QED BY <1>3, <2>1
<1>7. fStream[1].put \in 1..fPuts /\ fGets > 0
  BY <1>1, <1>2, <1>3 DEF Announced, FileNumbers, File!At
<1>8. FileTypes' /\ FileNumbers'
  <2>1. fTogo \in 0..MaxSize
    BY <1>1 DEF FileTypes
  <2>2. fTogo' \in 0..MaxSize
    BY <1>2, <2>1, FileBounds
  <2>3. FileTypes'
    BY <1>1, <1>2, <1>3, <1>5, <2>2 DEF FileTypes
  <2> QED BY <2>3, FileTypesAreNumbers, PTL
<1>9. Announced'
  BY <1>1, <1>2, <1>3, <1>4, <1>7, ReceivesAnnounced DEF File!At
<1>10. ASSUME ~fShort PROVE InOrder' /\ Written'
  <2>1. InOrder /\ Written
    BY <1>1, <1>10
  <2>2. fStream[1] = File!Unit(fGets, Len(fLocal) + 1)
    BY <1>1, <1>2, <1>3, <2>1 DEF InOrder, Due, File!At, FileNumbers
  <2>3. fGets \in 1..fPuts /\ Len(fLocal) + fTogo = fSize[fGets] /\ ~fOk
    BY <1>1, <1>2, <1>7, <2>1 DEF Written, File!At, FileNumbers
  <2>4. fTogo \in Nat /\ Len(fLocal) \in Nat
    BY <1>1 DEF FileNumbers
  <2>5. ToSend' = ToSend
    BY <1>2 DEF ToSend, File!NextUnit, File!At
  <2>6. ASSUME NEW v, Follows(fSize, fStream[1], v) PROVE v = Due'
    <3>1. CASE fTogo = 1
      BY <1>2, <1>6, <2>2, <2>3, <2>4, <2>6, <3>1 DEF Follows, Due, File!At, File!Unit
    <3>2. CASE fTogo > 1
      BY <1>2, <1>6, <2>2, <2>3, <2>4, <2>6, <3>2 DEF Follows, Due, File!At, File!Unit
    <3> QED BY <1>2, <2>4, <3>1, <3>2
  <2>7. InOrder'
    BY <1>1, <1>2, <1>3, <1>4, <1>8, <2>1, <2>5, <2>6, ReceivesInOrder
  <2>8. ASSUME NEW k \in 1..Len(fLocal') PROVE fLocal'[k] = File!Unit(fGets', k)
    <3>1. CASE k \in 1..Len(fLocal)
      BY <1>2, <1>6, <1>7, <2>1, <3>1 DEF Written
    <3>2. CASE k = Len(fLocal) + 1
      BY <1>2, <1>6, <2>2, <3>2
    <3> QED BY <1>6, <2>4, <3>1, <3>2
  <2>9. fGets' <= fPuts' /\ Len(fLocal') + fTogo' = fSize'[fGets'] /\ ~fOk'
    BY <1>2, <1>6, <2>3, <2>4
  <2>10. fPc'["get"] = "chunks"
    BY <1>2
  <2>11. Written'
    BY <2>8, <2>9, <2>10 DEF Written, File!At
  <2> QED BY <2>7, <2>11
<1> QED BY <1>2, <1>8, <1>9, <1>10 DEF FileIInv

\* A get_file that comes to its end, with or without the whole file.
LEMMA GetReturnsIInv == ASSUME FileIInv, File!GetReturns PROVE FileIInv'
<1>1. FileTypes /\ Announced /\ FileNumbers /\ (~fShort => InOrder /\ Written)
  BY FileTypesAreNumbers DEF FileIInv
<1>2. /\ fPc["get"] = "chunks" /\ fTogo = 0 /\ File!Goto("get", "idle") /\ fOk' = TRUE
      /\ UNCHANGED <<fUp, fStream, fPuts, fCut, fLeft, fSize, fShort, fGets, fTogo, fLocal>>
  BY DEF File!GetReturns, File!At, File!sending
<1>3. fPc' \in [{"put", "get"} -> {"idle", "size", "chunks"}] /\ fPc'["get"] = "idle"
      /\ fPc'["put"] = fPc["put"]
  BY <1>1, <1>2 DEF File!Goto, FileTypes
<1>4. FileTypes'
  BY <1>1, <1>2, <1>3 DEF FileTypes
<1>5. Announced'
  BY <1>1, <1>2, <1>3 DEF Announced, File!At
<1>6. ASSUME ~fShort PROVE InOrder' /\ Written'
  <2>1. InOrder /\ Written
    BY <1>1, <1>6
  <2>2. Due' = Due /\ ToSend' = ToSend
    BY <1>2, <1>3 DEF Due, ToSend, File!NextUnit, File!At
  <2>3. InOrder'
    BY <1>2, <2>1, <2>2 DEF InOrder
  <2>4. Written'
    BY <1>1, <1>2, <1>3, <2>1 DEF Written, File!At, FileNumbers
  <2> QED BY <2>3, <2>4
<1> QED BY <1>2, <1>4, <1>5, <1>6 DEF FileIInv

LEMMA GetFailsIInv == ASSUME FileIInv, File!GetFails PROVE FileIInv'
<1>1. FileTypes /\ Announced /\ (~fShort => InOrder /\ Written)
  BY DEF FileIInv
<1>2. /\ fPc["get"] # "idle" /\ ~fUp /\ fStream = <<>> /\ File!Goto("get", "idle")
      /\ UNCHANGED <<fUp, fStream, fPuts, fCut, fLeft, fSize, fShort, fGets, fTogo, fLocal, fOk>>
  BY DEF File!GetFails, File!At, File!sending, File!receiving
<1>3. fPc' \in [{"put", "get"} -> {"idle", "size", "chunks"}] /\ fPc'["get"] = "idle"
      /\ fPc'["put"] = fPc["put"]
  BY <1>1, <1>2 DEF File!Goto, FileTypes
<1>4. FileTypes'
  BY <1>1, <1>2, <1>3 DEF FileTypes
<1>5. Announced'
  BY <1>1, <1>2, <1>3 DEF Announced, File!At
<1>6. ASSUME ~fShort PROVE InOrder' /\ Written'
  <2>1. InOrder /\ Written
    BY <1>1, <1>6
  <2>2. InOrder'
    BY <1>2, <2>1 DEF InOrder
  <2> QED BY <1>2, <1>3, <2>1, <2>2 DEF Written, File!At
<1> QED BY <1>2, <1>4, <1>5, <1>6 DEF FileIInv

----------------------------------------------------------------------------
LEMMA BreaksIInv == ASSUME FileIInv, File!Breaks PROVE FileIInv'
<1>1. FileTypes /\ Announced /\ FileNumbers /\ (~fShort => InOrder /\ Written)
  BY FileTypesAreNumbers DEF FileIInv
<1>2. /\ fUp' = FALSE
      /\ UNCHANGED <<fPc, fPuts, fCut, fLeft, fSize, fShort, fGets, fTogo, fLocal, fOk>>
  BY DEF File!Breaks, File!sending, File!receiving
<1>3. PICK n \in 0..Len(fStream) : fStream' = SubSeq(fStream, 1, n)
  BY DEF File!Breaks
<1>4. /\ fStream' \in Seq(Units) /\ Len(fStream') = n
      /\ \A k \in 1..n : fStream'[k] = fStream[k]
  <2>1. fStream \in Seq(Units) /\ n \in Nat /\ n <= Len(fStream) /\ Len(fStream) \in Nat
    BY <1>1 DEF FileTypes, FileNumbers
  <2> QED BY <1>3, <2>1
<1>5. FileTypes' /\ FileNumbers'
  <2>1. FileTypes'
    BY <1>1, <1>2, <1>4 DEF FileTypes
  <2> QED BY <2>1, FileTypesAreNumbers, PTL
<1>6. Announced'
  BY <1>1, <1>2, <1>4 DEF Announced, File!At, FileNumbers
<1>7. ASSUME ~fShort PROVE InOrder' /\ Written'
  <2>1. InOrder /\ Written
    BY <1>1, <1>7
  <2>2. Due' = Due
    BY <1>2 DEF Due, File!At
  <2>3. InOrder'
    <3>1. \A k \in 1..Len(fStream') : fStream'[k].at <= fSize'[fStream'[k].put]
      <4>1. \A k \in 1..n : fStream[k].at <= fSize[fStream[k].put]
        BY <1>1, <2>1 DEF InOrder, FileNumbers
      <4> QED BY <1>2, <1>4, <4>1
    <3>2. ASSUME NEW k \in 1..(Len(fStream') - 1)
          PROVE  Follows(fSize', fStream'[k], fStream'[k + 1])
      <4>1. k \in 1..(Len(fStream) - 1) /\ fStream'[k] = fStream[k]
              /\ fStream'[k + 1] = fStream[k + 1]
        BY <1>1, <1>4 DEF FileNumbers
      <4> QED BY <1>2, <2>1, <4>1 DEF InOrder
    <3>3. fStream' # <<>> => fStream'[1] = Due'
      <4>1. ASSUME fStream' # <<>> PROVE n > 0
        BY <1>4, <1>5, <4>1 DEF FileNumbers
      <4> QED BY <1>1, <1>4, <2>1, <2>2, <4>1 DEF InOrder, FileNumbers
    <3> QED BY <1>2, <3>1, <3>2, <3>3 DEF InOrder
  <2> QED BY <1>2, <2>1, <2>3 DEF Written, File!At
<1> QED BY <1>2, <1>5, <1>6, <1>7 DEF FileIInv

LEMMA ConnectsIInv == ASSUME FileIInv, File!Connects PROVE FileIInv'
<1>1. FileTypes
  BY DEF FileIInv
<1>2. /\ fPc["put"] = "idle" /\ fPc["get"] = "idle" /\ fUp' = TRUE /\ fStream' = <<>>
      /\ fPuts' = 0 /\ fCut' = 0 /\ fLeft' = 0 /\ fSize' = <<>> /\ fShort' = FALSE
      /\ fGets' = 0 /\ fTogo' = 0
      /\ UNCHANGED <<fPc, fLocal, fOk>>
  BY DEF File!Connects, File!At
<1>3. FileTypes'
  <2>1. fStream' \in Seq(Units) /\ fSize' \in Seq(0..MaxSize) /\ Len(fSize') = 0
          /\ Len(fStream') = 0
    BY <1>2
  <2>2. 0 \in 0..MaxSize /\ 0 \in 0..MaxPuts
    BY FileBounds
  <2> QED BY <1>1, <1>2, <2>1, <2>2 DEF FileTypes
<1>4. Announced'
  BY <1>2 DEF Announced, File!At
<1>5. InOrder' /\ Written'
  BY <1>2 DEF InOrder, Written, Due, ToSend, File!At, File!Unit
<1> QED BY <1>3, <1>4, <1>5 DEF FileIInv

\* Every step keeps the invariant.
LEMMA FileNext == FileIInv /\ [File!Next]_File!vars => FileIInv'
<1> SUFFICES ASSUME FileIInv, [File!Next]_File!vars PROVE FileIInv'
  OBVIOUS
<1>1. CASE UNCHANGED File!vars
  <2>1. UNCHANGED <<fUp, fStream, fPc, fPuts, fCut, fLeft, fSize, fShort, fGets, fTogo,
          fLocal, fOk>>
    BY <1>1 DEF File!vars, File!sending, File!receiving
  <2> QED
    BY <2>1
    DEF FileIInv, FileTypes, Announced, InOrder, Written, File!At, Due, ToSend, File!NextUnit
<1>2. CASE File!Next
  BY <1>2, PutOpensIInv, FileCutIInv, PutChunkIInv, PutEndsIInv, GetOpensIInv, GetSizeIInv,
     GetChunkIInv, GetReturnsIInv, GetFailsIInv, BreaksIInv, ConnectsIInv DEF File!Next
<1> QED BY <1>1, <1>2

\* What the invariant is for: the file that was written is the one that was sent.
LEMMA FileInStep == FileIInv => File!ReceivedInStep
<1> SUFFICES ASSUME FileIInv, fGets > 0, ~fShort PROVE
  /\ \A k \in DOMAIN fLocal : fLocal[k] = File!Unit(fGets, k)
  /\ fOk => fGets <= fPuts /\ Len(fLocal) = fSize[fGets]
  BY DEF File!ReceivedInStep
<1>1. DOMAIN fLocal = 1..Len(fLocal) /\ fPc["get"] \in {"idle", "size", "chunks"}
  BY DEF FileIInv, FileTypes
<1> QED BY <1>1 DEF FileIInv, Written, File!At

LEMMA FileTypesOK == FileIInv => File!TypeOK
<1> SUFFICES ASSUME FileTypes PROVE File!TypeOK
  BY DEF FileIInv
<1>1. ASSUME NEW u \in {fStream[k] : k \in DOMAIN fStream}
                   \cup {fLocal[k] : k \in DOMAIN fLocal}
      PROVE  u.put \in 1..MaxPuts /\ u.at \in 0..MaxSize
  <2>1. u \in Units
    BY DEF FileTypes
  <2> QED BY <2>1 DEF Units
<1>2. \A k \in 1..fPuts : fSize[k] \in 0..MaxSize
  BY SizesAreSizes
<1>3. fPc["put"] \in {"idle", "chunks"} /\ fPc["get"] \in {"idle", "size", "chunks"}
  BY DEF FileTypes
<1> QED BY <1>1, <1>2, <1>3 DEF FileTypes, File!TypeOK

----------------------------------------------------------------------------
(* downloads.h and the JVM: the request word.  a... are the variables of Ask.*)
aWord == s1
aName == s2
aData == s3
aPc == s4
aArg == s5
aGot == s6
aLines == s7
aHave == s8
aJpc == s9
aJarg == s10
aPosted == s11
aCrossed == s12
USE DEF aWord, aName, aData, aPc, aArg, aGot, aLines, aHave, aJpc, aJarg, aPosted, aCrossed

\* The JVM is answering a request.
Answering == aJpc \in {"answer", "tell"}

\* What each side may assume at each point, as long as nothing has crossed.
Waiting ==
  /\ aWord = 25 => aPc \in {"store", "spin"}
  /\ aWord = 12 => aPc \in {"spin", "copy", "taken"}
  /\ aPc = "store" => aWord = 25 /\ aJpc = "idle"
  /\ aPc = "spin" => aWord \in {25, 12} /\ aName = aArg

\* Who waits is answered for the name it asked for.
Answered ==
  /\ Answering => aPc = "spin" /\ aWord = 25 /\ aJarg = aArg
  /\ aJpc = "tell" => aData = aArg
  /\ aPc = "spin" /\ aWord = 12 => aData = aArg
  /\ aPc = "copy" => aWord = 12 /\ aData = aArg
  /\ aPc = "taken" => aWord = 12 /\ aGot = aArg

\* Names on the way to the records were posted.
Posting ==
  /\ aJpc = "post" => aWord \in {0, 24} /\ aName \in aPosted
  /\ aWord = 100 => aName \in aPosted
  /\ \A k \in DOMAIN aLines : aLines[k] \in aPosted

\* The inductive invariant.
AskIInv == Ask!TypeOK /\ (~aCrossed => Waiting /\ Answered /\ Posting)

----------------------------------------------------------------------------
LEMMA AskInit == Ask!Init => AskIInv
<1> SUFFICES ASSUME Ask!Init PROVE AskIInv
  OBVIOUS
<1>1. aWord = 0 /\ aPc = "idle" /\ aJpc = "idle" /\ aLines = <<>> /\ aCrossed = FALSE
  BY DEF Ask!Init
<1>2. Ask!TypeOK
  <2>1. aLines \in Seq(Names \cup {Ask!Nothing})
    BY <1>1
  <2> QED BY <2>1 DEF Ask!Init, Ask!TypeOK
<1>3. Waiting /\ Answered /\ Posting
  BY <1>1 DEF Waiting, Answered, Answering, Posting
<1> QED BY <1>2, <1>3 DEF AskIInv

LEMMA AskNextTypeOK == Ask!TypeOK /\ [Ask!Next]_Ask!vars => Ask!TypeOK'
<1> SUFFICES ASSUME Ask!TypeOK, [Ask!Next]_Ask!vars PROVE Ask!TypeOK'
  OBVIOUS
<1> USE DEF Ask!TypeOK, Ask!memory, Ask!program, Ask!jvm
<1>1. CASE UNCHANGED Ask!vars
  BY <1>1 DEF Ask!vars
<1>2. ASSUME NEW s \in Names, Ask!Asks(s) PROVE Ask!TypeOK'
  <2>1. aCrossed' \in BOOLEAN
    BY <1>2, Zenon DEF Ask!Asks
  <2> QED BY <1>2, <2>1 DEF Ask!Asks
<1>3. ASSUME NEW s \in Names, Ask!JvmPosts(s) PROVE Ask!TypeOK'
  BY <1>3 DEF Ask!JvmPosts
<1>4. CASE Ask!Stores
  <2>1. aCrossed' \in BOOLEAN
    BY <1>4, Zenon DEF Ask!Stores
  <2> QED BY <1>4, <2>1 DEF Ask!Stores
<1>5. CASE Ask!Sees \/ Ask!Copies \/ Ask!Returns
  BY <1>5 DEF Ask!Sees, Ask!Copies, Ask!Returns
<1>6. CASE Ask!ListenStops \/ Ask!HandleReturns \/ Ask!HandleAborts \/ Ask!Begins
  BY <1>6 DEF Ask!ListenStops, Ask!HandleReturns, Ask!HandleAborts, Ask!Begins
<1>7. CASE Ask!ListenPushes
  BY <1>7 DEF Ask!ListenPushes
<1>8. CASE Ask!JvmReads
  <2>1. aCrossed' \in BOOLEAN
    BY <1>8, Zenon DEF Ask!JvmReads
  <2> QED BY <1>8, <2>1 DEF Ask!JvmReads
<1>9. CASE Ask!JvmWrites \/ Ask!JvmTells
  BY <1>9 DEF Ask!JvmWrites, Ask!JvmTells
<1>10. CASE Ask!JvmSignals \/ Ask!JvmStops \/ Ask!JvmBegins
  BY <1>10 DEF Ask!JvmSignals, Ask!JvmStops, Ask!JvmBegins
<1> QED BY <1>1, <1>2, <1>3, <1>4, <1>5, <1>6, <1>7, <1>8, <1>9, <1>10 DEF Ask!Next

----------------------------------------------------------------------------
\* The C program: asking, waiting and taking; then the names it listens for.
LEMMA ProgramIInv ==
  ASSUME Ask!TypeOK, ~aCrossed, Waiting, Answered, Posting, ~aCrossed',
         \/ \E s \in Names : Ask!Asks(s)
         \/ Ask!Stores \/ Ask!Sees \/ Ask!Copies \/ Ask!Returns
  PROVE  Waiting' /\ Answered' /\ Posting'
<1> USE DEF Waiting, Answered, Answering, Posting, Ask!memory, Ask!program, Ask!jvm
<1>1. ASSUME NEW s \in Names, Ask!Asks(s) PROVE Waiting' /\ Answered' /\ Posting'
  <2>1. aPc = "idle" /\ aJpc # "post" /\ ~Answering
    BY <1>1 DEF Ask!Asks
  <2>2. aJpc = "idle"
    BY <2>1 DEF Ask!TypeOK
  <2> QED BY <1>1, <2>2 DEF Ask!Asks
<1>2. CASE Ask!Stores
  BY <1>2 DEF Ask!Stores
<1>3. CASE Ask!Sees
  BY <1>3 DEF Ask!Sees
<1>4. CASE Ask!Copies
  BY <1>4 DEF Ask!Copies
<1>5. CASE Ask!Returns
  BY <1>5 DEF Ask!Returns
<1> QED BY <1>1, <1>2, <1>3, <1>4, <1>5

LEMMA ListenIInv ==
  ASSUME Ask!TypeOK, ~aCrossed, Waiting, Answered, Posting,
         Ask!ListenStops \/ Ask!ListenPushes \/ Ask!HandleReturns \/ Ask!HandleAborts
           \/ Ask!Begins
  PROVE  Waiting' /\ Answered' /\ Posting'
<1> USE DEF Waiting, Answered, Answering, Posting, Ask!memory, Ask!program, Ask!jvm
<1>1. CASE Ask!ListenPushes
  <2>1. \A k \in DOMAIN aLines' : aLines'[k] = aName
          \/ (k \in DOMAIN aLines /\ aLines'[k] = aLines[k])
    BY <1>1 DEF Ask!ListenPushes, Ask!TypeOK
  <2>2. aName \in aPosted
    BY <1>1 DEF Ask!ListenPushes
  <2>3. \A k \in DOMAIN aLines' : aLines'[k] \in aPosted
    BY <2>1, <2>2
  <2> QED BY <1>1, <2>3 DEF Ask!ListenPushes
<1>2. CASE Ask!ListenStops \/ Ask!HandleReturns \/ Ask!HandleAborts \/ Ask!Begins
  BY <1>2 DEF Ask!ListenStops, Ask!HandleReturns, Ask!HandleAborts, Ask!Begins
<1> QED BY <1>1, <1>2

\* The JVM.
LEMMA JvmIInv ==
  ASSUME Ask!TypeOK, ~aCrossed, Waiting, Answered, Posting, ~aCrossed',
         \/ \E s \in Names : Ask!JvmPosts(s)
         \/ Ask!JvmReads \/ Ask!JvmWrites \/ Ask!JvmTells \/ Ask!JvmSignals \/ Ask!JvmStops
              \/ Ask!JvmBegins
  PROVE  Waiting' /\ Answered' /\ Posting'
<1> USE DEF Waiting, Answered, Answering, Posting, Ask!memory, Ask!program, Ask!jvm
<1>1. ASSUME NEW s \in Names, Ask!JvmPosts(s) PROVE Waiting' /\ Answered' /\ Posting'
  BY <1>1 DEF Ask!JvmPosts
<1>2. CASE Ask!JvmReads
  BY <1>2 DEF Ask!JvmReads
<1>3. CASE Ask!JvmWrites
  BY <1>3 DEF Ask!JvmWrites
<1>4. CASE Ask!JvmTells
  BY <1>4 DEF Ask!JvmTells
<1>5. CASE Ask!JvmSignals
  BY <1>5 DEF Ask!JvmSignals
<1>6. CASE Ask!JvmStops
  BY <1>6 DEF Ask!JvmStops
<1>7. CASE Ask!JvmBegins
  BY <1>7 DEF Ask!JvmBegins
<1> QED BY <1>1, <1>2, <1>3, <1>4, <1>5, <1>6, <1>7

\* A crossing is remembered.
LEMMA CrossedStays == aCrossed \in BOOLEAN /\ Ask!Next /\ ~aCrossed' => ~aCrossed
  BY DEF Ask!Next, Ask!Asks, Ask!Stores, Ask!Sees, Ask!Copies, Ask!Returns, Ask!ListenStops,
     Ask!ListenPushes,
         Ask!HandleReturns, Ask!HandleAborts, Ask!Begins, Ask!JvmReads, Ask!JvmWrites,
           Ask!JvmTells,
         Ask!JvmPosts, Ask!JvmSignals, Ask!JvmStops, Ask!JvmBegins

\* Every step keeps the invariant.
LEMMA AskNext == AskIInv /\ [Ask!Next]_Ask!vars => AskIInv'
<1> SUFFICES ASSUME AskIInv, [Ask!Next]_Ask!vars PROVE AskIInv'
  OBVIOUS
<1>1. Ask!TypeOK'
  BY AskNextTypeOK DEF AskIInv
<1>2. CASE UNCHANGED Ask!vars
  BY <1>1, <1>2 DEF Ask!vars, Ask!memory, Ask!program, Ask!jvm, AskIInv, Waiting, Answered,
     Answering, Posting
<1>3. ASSUME Ask!Next, ~aCrossed' PROVE Waiting' /\ Answered' /\ Posting'
  <2>1. Ask!TypeOK /\ ~aCrossed /\ Waiting /\ Answered /\ Posting
    BY <1>3, CrossedStays DEF AskIInv, Ask!TypeOK
  <2> QED BY <1>3, <2>1, ProgramIInv, ListenIInv, JvmIInv DEF Ask!Next
<1> QED BY <1>1, <1>2, <1>3 DEF AskIInv

\* What the invariant is for.
LEMMA AskForTheName == AskIInv => Ask!DataForName
  BY DEF AskIInv, Answered, Posting, Ask!DataForName

----------------------------------------------------------------------------
(* The libraries side by side: a behaviour is one of a single library.     *)
OwnerPart == IInv
\* The invariant of a library, where it is that one that runs.
QueuePart == which = "queue" => QueueIInv
FilePart == which = "file" => FileIInv
AskPart == which = "ask" => AskIInv
SpacePart == which = "space" => SpaceIInv
PromisePart == which = "promise" => PromiseIInv
ProcessPart == which = "process" => TableIInv

LEMMA OwnerPartInit == LibrariesInit => OwnerPart
  BY InitIInv DEF LibrariesInit, OwnerPart

\* Where another library runs, the table keeps its initial state.
LEMMA OwnerPartNext == OwnerPart /\ [LibrariesNext]_<<which, vars, From1>> => OwnerPart'
<1> SUFFICES ASSUME IInv, [LibrariesNext]_<<which, vars, From1>> PROVE IInv'
  BY DEF OwnerPart
<1>1. [Next]_vars
  BY DEF LibrariesNext
<1> QED BY <1>1, NextIInv

LEMMA QueuePartInit == LibrariesInit => QueuePart
  BY QueueInit DEF LibrariesInit, QueuePart

LEMMA QueuePartNext == QueuePart /\ [LibrariesNext]_<<which, vars, From1>> => QueuePart'
<1> SUFFICES ASSUME QueuePart, [LibrariesNext]_<<which, vars, From1>>, which' = "queue"
             PROVE  QueueIInv'
  BY DEF QueuePart
<1>1. which = "queue" /\ QueueIInv
  BY DEF LibrariesNext, QueuePart
<1>2. CASE LibrariesNext
  <2>1. Queue!Next
    BY <1>1, <1>2 DEF LibrariesNext
  <2> QED BY <1>1, <2>1, QueueNext
<1>3. CASE UNCHANGED <<which, vars, From1>>
  <2>1. UNCHANGED Queue!vars
    BY <1>3 DEF From1, Queue!vars, Queue!names, Queue!open
  <2> QED BY <1>1, <2>1, QueueNext
<1> QED BY <1>2, <1>3

LEMMA FilePartInit == LibrariesInit => FilePart
  BY FileInit DEF LibrariesInit, FilePart

LEMMA FilePartNext == FilePart /\ [LibrariesNext]_<<which, vars, From1>> => FilePart'
<1> SUFFICES ASSUME FilePart, [LibrariesNext]_<<which, vars, From1>>, which' = "file"
             PROVE  FileIInv'
  BY DEF FilePart
<1>1. which = "file" /\ FileIInv
  BY DEF LibrariesNext, FilePart
<1>2. CASE LibrariesNext
  <2>1. File!Next
    BY <1>1, <1>2 DEF LibrariesNext
  <2> QED BY <1>1, <2>1, FileNext
<1>3. CASE UNCHANGED <<which, vars, From1>>
  <2>1. UNCHANGED File!vars
    BY <1>3 DEF From1, File!vars, File!sending, File!receiving
  <2> QED BY <1>1, <2>1, FileNext
<1> QED BY <1>2, <1>3

LEMMA AskPartInit == LibrariesInit => AskPart
  BY AskInit DEF LibrariesInit, AskPart

LEMMA AskPartNext == AskPart /\ [LibrariesNext]_<<which, vars, From1>> => AskPart'
<1> SUFFICES ASSUME AskPart, [LibrariesNext]_<<which, vars, From1>>, which' = "ask"
             PROVE  AskIInv'
  BY DEF AskPart
<1>1. which = "ask" /\ AskIInv
  BY DEF LibrariesNext, AskPart
<1>2. CASE LibrariesNext
  <2>1. Ask!Next
    BY <1>1, <1>2 DEF LibrariesNext
  <2> QED BY <1>1, <2>1, AskNext
<1>3. CASE UNCHANGED <<which, vars, From1>>
  <2>1. UNCHANGED Ask!vars
    BY <1>3 DEF From1, Ask!vars, Ask!memory, Ask!program, Ask!jvm
  <2> QED BY <1>1, <2>1, AskNext
<1> QED BY <1>2, <1>3

LEMMA SpacePartInit == LibrariesInit => SpacePart
  BY SpaceInit DEF LibrariesInit, SpacePart

LEMMA SpacePartNext == SpacePart /\ [LibrariesNext]_<<which, vars, From1>> => SpacePart'
<1> SUFFICES ASSUME SpacePart, [LibrariesNext]_<<which, vars, From1>>, which' = "space"
             PROVE  SpaceIInv'
  BY DEF SpacePart
<1>1. which = "space" /\ SpaceIInv
  BY DEF LibrariesNext, SpacePart
<1>2. CASE LibrariesNext
  <2>1. Space!Next
    BY <1>1, <1>2 DEF LibrariesNext
  <2> QED BY <1>1, <2>1, SpaceNext
<1>3. CASE UNCHANGED <<which, vars, From1>>
  <2>1. UNCHANGED Space!vars
    BY <1>3 DEF From1, Space!vars, Space!list
  <2> QED BY <1>1, <2>1, SpaceNext
<1> QED BY <1>2, <1>3

LEMMA PromisePartInit == LibrariesInit => PromisePart
  BY PromiseInit DEF LibrariesInit, PromisePart

LEMMA PromisePartNext == PromisePart /\ [LibrariesNext]_<<which, vars, From1>> => PromisePart'
<1> SUFFICES ASSUME PromisePart, [LibrariesNext]_<<which, vars, From1>>, which' = "promise"
             PROVE  PromiseIInv'
  BY DEF PromisePart
<1>1. which = "promise" /\ PromiseIInv
  BY DEF LibrariesNext, PromisePart
<1>2. CASE LibrariesNext
  <2>1. Promise!Next
    BY <1>1, <1>2 DEF LibrariesNext
  <2> QED BY <1>1, <2>1, PromiseNext
<1>3. CASE UNCHANGED <<which, vars, From1>>
  <2>1. UNCHANGED Promise!vars
    BY <1>3 DEF From1, Promise!vars, Promise!heap
  <2> QED BY <1>1, <2>1, PromiseNext
<1> QED BY <1>2, <1>3

LEMMA ProcessPartInit == LibrariesInit => ProcessPart
  BY TableInit DEF LibrariesInit, ProcessPart

LEMMA ProcessPartNext == ProcessPart /\ [LibrariesNext]_<<which, vars, From1>> => ProcessPart'
<1> SUFFICES ASSUME ProcessPart, [LibrariesNext]_<<which, vars, From1>>, which' = "process"
             PROVE  TableIInv'
  BY DEF ProcessPart
<1>1. which = "process" /\ TableIInv
  BY DEF LibrariesNext, ProcessPart
<1>2. CASE LibrariesNext
  <2>1. Process!Next
    BY <1>1, <1>2 DEF LibrariesNext
  <2> QED BY <1>1, <2>1, TableNext
<1>3. CASE UNCHANGED <<which, vars, From1>>
  <2>1. UNCHANGED Process!vars
    BY <1>3 DEF From1, Process!vars, Process!heap, Process!file, Process!past
  <2> QED BY <1>1, <2>1, TableNext
<1> QED BY <1>2, <1>3

\* It is one of the seven.
Library == which \in {"owner", "space", "promise", "process", "queue", "file", "ask"}

LEMMA LibraryInit == LibrariesInit => Library
  BY DEF LibrariesInit, Library

LEMMA LibraryNext == Library /\ [LibrariesNext]_<<which, vars, From1>> => Library'
  BY DEF LibrariesNext, Library

(* However many processes there are, and however long the table: as long   *)
(* as calls come in order, an index that add_validity returned is owned by *)
(* the one it was returned to, or by who took it over, and by nobody else. *)
THEOREM OwnersKeepTheirSlots == LibrariesSpec => []OwnsItsSlot
<1>1. OwnerPart => OwnsItsSlot
  BY InvIsOwned DEF OwnerPart
<1> QED BY <1>1, OwnerPartInit, OwnerPartNext, PTL DEF LibrariesSpec

(* However many programs, names and inodes there are, and however long the *)
(* records may get: unless a call was cut short by the end of its program, *)
(* or two calls met that rewrite or make the file, the records hold every  *)
(* name that was pushed and not closed while nobody rewrites them, and no  *)
(* other name when no call is under way.                                   *)
THEOREM RecordsAreKept == LibrariesSpec => []RecordsKept
<1>1. QueuePart => RecordsKept
  BY QueueKeeps DEF QueuePart, RecordsKept
<1> QED BY <1>1, QueuePartInit, QueuePartNext, PTL DEF LibrariesSpec

(* However many files are sent over a connection, and of whatever sizes:   *)
(* as long as every put_file sent what it had announced, the n-th get_file *)
(* writes the units of the n-th file in their order, and all of them when  *)
(* it reports success; also when the connection breaks at any unit.        *)
THEOREM FilesArriveInStep == LibrariesSpec => []ReceivedInStep
<1>1. FilePart => ReceivedInStep
  BY FileInStep DEF FilePart, ReceivedInStep
<1> QED BY <1>1, FilePartInit, FilePartNext, PTL DEF LibrariesSpec

(* However many files there are: unless the word was overtaken in one of   *)
(* the two ways that `crossed' records, get_data returns the data of the   *)
(* file it was called for and only posted names get into the records.      *)
THEOREM AnswersAreForTheName == LibrariesSpec => []DataForName
<1>1. AskPart => DataForName
  BY AskForTheName DEF AskPart, DataForName
<1> QED BY <1>1, AskPartInit, AskPartNext, PTL DEF LibrariesSpec

(* However many records are opened, closed and opened again, on however    *)
(* many addresses: until a call faults or a record is linked behind a      *)
(* freed node, find_space finds exactly the records that are open, and     *)
(* each of them in a node that is allocated.                               *)
THEOREM RegistryStaysExact == LibrariesSpec => []RegistryIsExact
<1>1. SpacePart => RegistryIsExact
  BY SpaceIsExact DEF SpacePart, RegistryIsExact
<1> QED BY <1>1, SpacePartInit, SpacePartNext, PTL DEF LibrariesSpec

(* However many promises there are: as long as none is awaited after an    *)
(* earlier one, and none is made after an await, no await faults or fails  *)
(* to find its promise.                                                    *)
THEOREM AwaitJoinsAll == LibrariesSpec => []AwaitJoins
<1>1. PromisePart => AwaitJoins
  BY PromisesJoin DEF PromisePart, AwaitJoins
<1> QED BY <1>1, PromisePartInit, PromisePartNext, PTL DEF LibrariesSpec

(* However many processes and names there are, in whatever order they are  *)
(* started, added, signalled, waited for and shut down: up to a fault or   *)
(* a shutdown of a single entry, who was started or added and not taken    *)
(* out is in the table, in a node that is allocated.                       *)
THEOREM TableStaysWhole == LibrariesSpec => []TableIsWhole
<1>1. ProcessPart => TableIsWhole
  BY TableKeeps DEF ProcessPart, TableIsWhole
<1> QED BY <1>1, ProcessPartInit, ProcessPartNext, PTL DEF LibrariesSpec

(* In the same generality: the calls that wait for the dead signal no      *)
(* running child, and process_kill claims a signal it did not send only    *)
(* for programs of which an entry is stale.                                *)
THEOREM SignalsStayAimed == LibrariesSpec => []SignalsAreAimed
<1>1. ProcessPart => SignalsAreAimed
  BY TableKeeps DEF ProcessPart, SignalsAreAimed
<1> QED BY <1>1, ProcessPartInit, ProcessPartNext, PTL DEF LibrariesSpec

(* And whenever another process opens the file that the first update has   *)
(* written or is writing, it reads entries of the table in order, the last *)
(* perhaps without its name, and all of them once update has returned.     *)
THEOREM ImageStaysTable == LibrariesSpec => []ImageIsTable
<1>1. ProcessPart => ImageIsTable
  BY TableKeeps DEF ProcessPart, ImageIsTable
<1> QED BY <1>1, ProcessPartInit, ProcessPartNext, PTL DEF LibrariesSpec

(* Every library keeps to its types, whichever of them it is that runs.    *)
THEOREM TypesStayOK == LibrariesSpec => []TypesOK
<1> DEFINE All == /\ OwnerPart /\ SpacePart /\ PromisePart /\ ProcessPart
                  /\ QueuePart /\ FilePart /\ AskPart /\ Library
<1>1. OwnerPart => TypeOK
  BY DEF OwnerPart, IInv
<1>2. SpacePart => (which = "space" => Space!TypeOK)
  BY DEF SpacePart, SpaceIInv
<1>3. PromisePart => (which = "promise" => Promise!TypeOK)
  BY DEF PromisePart, PromiseIInv
<1>4. ProcessPart => (which = "process" => Process!TypeOK)
  BY DEF ProcessPart, TableIInv
<1>5. QueuePart => (which = "queue" => Queue!TypeOK)
  BY QueueTypesOK DEF QueuePart
<1>6. FilePart => (which = "file" => File!TypeOK)
  BY FileTypesOK DEF FilePart
<1>7. AskPart => (which = "ask" => Ask!TypeOK)
  BY DEF AskPart, AskIInv
<1>8. All => TypesOK
  BY <1>1, <1>2, <1>3, <1>4, <1>5, <1>6, <1>7 DEF TypesOK, Library
<1>9. LibrariesInit => All
  BY OwnerPartInit, SpacePartInit, PromisePartInit, ProcessPartInit,
     QueuePartInit, FilePartInit, AskPartInit, LibraryInit
<1>10. All /\ [LibrariesNext]_<<which, vars, From1>> => All'
  BY OwnerPartNext, SpacePartNext, PromisePartNext, ProcessPartNext,
     QueuePartNext, FilePartNext, AskPartNext, LibraryNext
<1> HIDE DEF All
<1> QED BY <1>8, <1>9, <1>10, PTL DEF LibrariesSpec
=============================================================================
