-------------------------- MODULE SqlChannel_proofs --------------------------
(***************************************************************************)
(* Proofs about the SQL channel, for any sets of users, handlers and       *)
(* uploads: a query that nobody disturbs reads its own answer, and no      *)
(* interference lets in a user whom no login query found.                  *)
(***************************************************************************)
EXTENDS SqlChannel, FiniteSetTheorems, TLAPS

-----------------------------------------------------------------------------
(* The inductive invariant *)

\* Who is at ask_sql, or may come there without start_sql, has a mapping.
Mapped(p) ==
  pc[p] \in {"ask", "query", "scan", "copy", "answered", "listening"} => map[p] \in Inodes

Asks(p) ==
  /\ pc[p] \in {"ask", "query", "scan", "copy", "answered"} => query[p] \in Queries
  /\ pc[p] = "query" => fd[p] \in Inodes

\* What an undisturbed asker finds in its mapping, and what it read.
Fresh(p) ==
  /\ pc[p] = "query" => fd[p] = map[p] /\ content[map[p]] = NoBytes
  /\ pc[p] = "scan" => content[map[p]] = (IF own[p] = Nothing THEN NoBytes ELSE own[p])
  /\ pc[p] = "copy" => own[p] # Nothing /\ content[map[p]] = own[p]
  /\ pc[p] = "answered" => own[p] # Nothing /\ val[p] = own[p]
  /\ pc[p] = "silent" => own[p] = Nothing

Each(p) == Mapped(p) /\ Asks(p) /\ (~disturbed[p] => Fresh(p))

\* Names in files and names read are names that a login query found.
Found ==
  /\ \A i \in Inodes : content[i] \in Users => content[i] \in proven
  /\ \A p \in Asker : val[p] \in Users => val[p] \in proven

IInv == TypeOK /\ (\A p \in Asker : Each(p)) /\ Found

\* Of an asker, nothing changes but its mapping's bytes, which disturbs it.
Same(p) ==
  /\ pc'[p] = pc[p] /\ map'[p] = map[p] /\ fd'[p] = fd[p]
  /\ query'[p] = query[p] /\ val'[p] = val[p] /\ own'[p] = own[p]
  /\ ~disturbed'[p] =>
       ~disturbed[p] /\ (Asking(p) => content'[map[p]] = content[map[p]])

-----------------------------------------------------------------------------
(* Files *)

LEMMA OpenedIsInode == TypeOK => Opened \in Inodes
<1> SUFFICES ASSUME TypeOK PROVE Opened \in Inodes
  OBVIOUS
<1>1. CASE name # Nothing
  BY <1>1 DEF Opened, TypeOK
<1>2. CASE name = Nothing
  <2> DEFINE Maps == {map[p] : p \in Asker}
             Fds == {fd[p] : p \in Asker}
             n == Cardinality(Asker)
  <2>1. IsFiniteSet(Asker)
    BY FS_AddElement, InodesAssumption DEF Asker
  <2>2. n \in Nat
    BY <2>1, FS_CardinalityType
  <2>3. IsFiniteSet(Maps) /\ Cardinality(Maps) <= n
    <3>1. map \in Surjection(Asker, Maps)
      BY DEF Surjection, TypeOK
    <3> QED BY <3>1, <2>1, FS_Surjection
  <2>4. IsFiniteSet(Fds) /\ Cardinality(Fds) <= n
    <3>1. fd \in Surjection(Asker, Fds)
      BY DEF Surjection, TypeOK
    <3> QED BY <3>1, <2>1, FS_Surjection
  <2>5. /\ IsFiniteSet(Maps \cup Fds)
        /\ Cardinality(Maps \cup Fds) =
             Cardinality(Maps) + Cardinality(Fds) - Cardinality(Maps \cap Fds)
    BY <2>3, <2>4, FS_Union
  <2>6. Cardinality(Maps \cap Fds) \in Nat
    <3>1. IsFiniteSet(Maps \cap Fds)
      BY <2>3, FS_Subset
    <3> QED BY <3>1, FS_CardinalityType
  <2>7. Cardinality(Maps) \in Nat /\ Cardinality(Fds) \in Nat
    BY <2>3, <2>4, FS_CardinalityType
  <2>8. Cardinality(Maps \cup Fds) <= 2 * n
    BY <2>2, <2>3, <2>4, <2>5, <2>6, <2>7
  <2>9. ~(Inodes \subseteq Maps \cup Fds)
    <3> SUFFICES ASSUME Inodes \subseteq Maps \cup Fds PROVE FALSE
      OBVIOUS
    <3>1. Cardinality(Inodes) <= Cardinality(Maps \cup Fds)
      BY <2>5, FS_Subset
    <3>2. Cardinality(Inodes) \in Nat /\ Cardinality(Maps \cup Fds) \in Nat
      BY <2>5, InodesAssumption, FS_CardinalityType
    <3> QED BY <3>1, <3>2, <2>2, <2>8, InodesAssumption
  <2>10. \E i \in Inodes : i \notin Live
    BY <2>9, <1>2 DEF Live
  <2> QED BY <2>10, <1>2 DEF Opened
<1> QED BY <1>1, <1>2

\* What another step leaves alone stays right.
LEMMA SameEach ==
  ASSUME NEW p \in Asker, Each(p), Same(p)
  PROVE  Each(p)'
BY DEF Each, Mapped, Asks, Fresh, Same, Asking

\* Freeing unreferenced inodes changes no file that somebody maps.
LEMMA KeepingMapped ==
  ASSUME TypeOK, NEW c, Keeping(c), NEW p \in Asker, map'[p] = map[p], map[p] \in Inodes
  PROVE  content'[map[p]] = c[map[p]]
<1>1. map[p] \in Live'
  <2>1. map[p] # Nothing
    BY NamesAssumption
  <2> QED BY <2>1 DEF Live
<1> QED BY <1>1 DEF Keeping

LEMMA KeepingTypes ==
  ASSUME NEW S, NEW c \in [Inodes -> S], NoBytes \in S, Keeping(c)
  PROVE  /\ content' \in [Inodes -> S]
         /\ \A i \in Inodes : content'[i] \in {c[i], NoBytes}
BY DEF Keeping

LEMMA Distinct ==
  /\ NoBytes \notin Users /\ ZeroBytes \notin Users /\ Nothing \notin Users
  /\ "zero" \notin Users /\ "some" \notin Users
  /\ NoBytes \notin Rows /\ ZeroBytes \notin Rows /\ Nothing \notin Rows
  /\ Main \in Asker /\ Handlers \subseteq Asker /\ Nothing \notin Asker
BY NamesAssumption DEF NoBytes, ZeroBytes, Rows, Asker

-----------------------------------------------------------------------------
(* Initial states *)

LEMMA InitIInv == Init => IInv
<1> SUFFICES ASSUME Init PROVE IInv
  OBVIOUS
<1> USE Distinct
<1>1. TypeOK
  BY RestartsAssumption DEF Init, TypeOK, Asker
<1>2. \A p \in Asker : pc[p] \in {"down", "ended"}
  BY DEF Init
<1>3. \A p \in Asker : Each(p)
  BY <1>2 DEF Each, Mapped, Asks, Fresh
<1>4. Found
  BY DEF Init, Found
<1> QED BY <1>1, <1>3, <1>4 DEF IInv

-----------------------------------------------------------------------------
(* ask_sql *)

LEMMA ShellTruncatesIInv ==
  ASSUME IInv, NEW p \in Asker, ShellTruncates(p)
  PROVE  IInv'
<1> USE Distinct DEF IInv
<1>1. Opened \in Inodes
  BY OpenedIsInode
<1>2. /\ pc[p] = "ask" /\ name' = Opened
      /\ content' = [content EXCEPT ![Opened] = NoBytes]
      /\ fd' = [fd EXCEPT ![p] = Opened] /\ pc' = [pc EXCEPT ![p] = "query"]
      /\ UNCHANGED <<pw, meta, map, query, val, up, restarts, own, proven>>
  BY DEF ShellTruncates, tables
<1>3. disturbed' = [q \in Asker |->
        IF q = p THEN Opened # map[p]
        ELSE disturbed[q] \/ (Asking(q) /\ content'[map[q]] # content[map[q]])]
  BY DEF ShellTruncates, Watch
<1>4. TypeOK'
  <2>1. disturbed' \in [Asker -> BOOLEAN]
    BY <1>3 DEF TypeOK, Asking
  <2> QED BY <1>1, <1>2, <2>1 DEF TypeOK
<1>5. Each(p)'
  BY <1>1, <1>2, <1>3 DEF TypeOK, Each, Mapped, Asks, Fresh
<1>6. ASSUME NEW q \in Asker, q # p PROVE Each(q)'
  <2>1. Same(q)
    BY <1>2, <1>3, <1>6 DEF Same, TypeOK
  <2> QED BY <2>1, SameEach
<1>7. Found'
  BY <1>1, <1>2 DEF Found, TypeOK
<1> QED BY <1>4, <1>5, <1>6, <1>7

LEMMA PsqlWritesIInv ==
  ASSUME IInv, NEW p \in Asker, PsqlWrites(p)
  PROVE  IInv'
<1> USE Distinct DEF IInv
<1>1. PICK row \in Answers(query[p]) :
        /\ own' = [own EXCEPT ![p] = row]
        /\ Keeping(IF row = Nothing THEN content
                   ELSE [content EXCEPT ![fd[p]] = row])
        /\ proven' = IF query[p].kind = "login" /\ row # Nothing
                     THEN proven \cup {row} ELSE proven
  BY DEF PsqlWrites
<1>2. /\ pc[p] = "query" /\ pc' = [pc EXCEPT ![p] = "scan"]
      /\ fd' = [fd EXCEPT ![p] = Nothing]
      /\ UNCHANGED <<pw, meta, name, map, query, val, up, restarts>>
  BY DEF PsqlWrites, tables
<1>3. disturbed' = [q \in Asker |->
        IF q = p THEN disturbed[p]
        ELSE disturbed[q] \/ (Asking(q) /\ content'[map[q]] # content[map[q]])]
  BY DEF PsqlWrites, Watch
<1>4. query[p] \in Queries /\ map[p] \in Inodes /\ fd[p] \in Inodes
  BY <1>2 DEF Each, Asks, Mapped
<1>5. /\ row \in Rows \cup {Nothing}
      /\ row \in Users => query[p].kind = "login"
      /\ query[p].kind = "login" /\ row # Nothing => row \in Users
  <2>1. CASE query[p].kind = "login"
    BY <2>1, <1>4 DEF Answers, Rows, Queries
  <2>2. CASE query[p].kind = "genre"
    BY <2>2, NamesAssumption DEF Answers, Rows, TypeOK
  <2>3. CASE query[p].kind = "count"
    BY <2>3 DEF Answers, Rows
  <2> QED BY <2>1, <2>2, <2>3, <1>4 DEF Queries
<1> DEFINE c == IF row = Nothing THEN content ELSE [content EXCEPT ![fd[p]] = row]
           Contents == Rows \cup {NoBytes, ZeroBytes}
<1>6. c \in [Inodes -> Contents] /\ Keeping(c)
  BY <1>1, <1>4, <1>5 DEF TypeOK
<1>7. /\ content' \in [Inodes -> Contents]
      /\ \A i \in Inodes : content'[i] \in {c[i], NoBytes}
  <2> HIDE DEF c
  <2> QED BY <1>6, KeepingTypes
<1>8. content'[map[p]] = c[map[p]]
  <2> HIDE DEF c
  <2> QED BY <1>2, <1>4, <1>6, KeepingMapped
<1>9. TypeOK'
  <2>1. disturbed' \in [Asker -> BOOLEAN]
    BY <1>3 DEF TypeOK, Asking
  <2>2. proven' \subseteq Users
    BY <1>1, <1>5 DEF TypeOK
  <2>3. own' \in [Asker -> Rows \cup {Nothing}]
    BY <1>1, <1>5 DEF TypeOK
  <2> QED BY <1>2, <1>7, <2>1, <2>2, <2>3 DEF TypeOK
<1>10. Each(p)'
  <2>1. Mapped(p)' /\ Asks(p)'
    BY <1>2, <1>4 DEF Mapped, Asks, TypeOK
  <2>2. ASSUME ~disturbed'[p] PROVE Fresh(p)'
    <3>1. fd[p] = map[p] /\ content[map[p]] = NoBytes
      BY <1>2, <1>3, <2>2 DEF Each, Fresh
    <3>2. content'[map[p]] = IF row = Nothing THEN NoBytes ELSE row
      BY <1>4, <1>8, <3>1 DEF TypeOK
    <3>3. own'[p] = row /\ pc'[p] = "scan" /\ map'[p] = map[p]
      BY <1>1, <1>2 DEF TypeOK
    <3> QED BY <3>2, <3>3 DEF Fresh
  <2> QED BY <2>1, <2>2 DEF Each
<1>11. ASSUME NEW q \in Asker, q # p PROVE Each(q)'
  <2>1. Same(q)
    BY <1>1, <1>2, <1>3, <1>11 DEF Same, TypeOK
  <2> QED BY <2>1, SameEach
<1>12. Found'
  <2>1. \A i \in Inodes : content'[i] \in Users => content'[i] \in proven'
    BY <1>1, <1>4, <1>5, <1>7 DEF Found, TypeOK
  <2>2. \A q \in Asker : val'[q] \in Users => val'[q] \in proven'
    BY <1>1, <1>2 DEF Found
  <2> QED BY <2>1, <2>2 DEF Found
<1> QED BY <1>9, <1>10, <1>11, <1>12

LEMMA ScanIInv ==
  ASSUME IInv, NEW p \in Asker, Scan(p)
  PROVE  IInv'
<1> USE Distinct DEF IInv
<1>1. /\ pc[p] = "scan" /\ content[map[p]] # NoBytes
      /\ pc' = [pc EXCEPT ![p] = "copy"]
      /\ UNCHANGED <<pw, meta, name, content, map, fd, query, val, up, restarts, own,
                     disturbed, proven>>
  BY DEF Scan, tables, files, ghosts
<1>2. TypeOK'
  BY <1>1 DEF TypeOK
<1>3. Each(p)'
  BY <1>1 DEF TypeOK, Each, Mapped, Asks, Fresh
<1>4. ASSUME NEW q \in Asker, q # p PROVE Each(q)'
  <2>1. Same(q)
    BY <1>1, <1>4 DEF Same, TypeOK
  <2> QED BY <2>1, SameEach
<1>5. Found'
  BY <1>1 DEF Found
<1> QED BY <1>2, <1>3, <1>4, <1>5

LEMMA CopyIInv ==
  ASSUME IInv, NEW p \in Asker, Copy(p)
  PROVE  IInv'
<1> USE Distinct DEF IInv
<1>1. /\ pc[p] = "copy" /\ content[map[p]] # NoBytes
      /\ val' = [val EXCEPT ![p] =
                   IF content[map[p]] = ZeroBytes THEN Nothing ELSE content[map[p]]]
      /\ pc' = [pc EXCEPT ![p] = "answered"]
      /\ UNCHANGED <<pw, meta, name, content, map, fd, query, up, restarts, own,
                     disturbed, proven>>
  BY DEF Copy, tables, files, ghosts
<1>2. map[p] \in Inodes
  BY <1>1 DEF Each, Mapped
<1>3. content[map[p]] \in Rows \cup {ZeroBytes}
  BY <1>1, <1>2 DEF TypeOK
<1>4. TypeOK'
  BY <1>1, <1>3 DEF TypeOK
<1>5. Each(p)'
  BY <1>1, <1>3 DEF TypeOK, Each, Mapped, Asks, Fresh
<1>6. ASSUME NEW q \in Asker, q # p PROVE Each(q)'
  <2>1. Same(q)
    BY <1>1, <1>6 DEF Same, TypeOK
  <2> QED BY <2>1, SameEach
<1>7. Found'
  BY <1>1, <1>2 DEF Found, TypeOK
<1> QED BY <1>4, <1>5, <1>6, <1>7

\* A process that lets go of its mapping frees no bytes that others map.
LEMMA KeepingSame ==
  ASSUME TypeOK, Keeping(content), NEW q \in Asker, Each(q),
         pc'[q] = pc[q], map'[q] = map[q], fd'[q] = fd[q], query'[q] = query[q],
         val'[q] = val[q], own'[q] = own[q], disturbed'[q] = disturbed[q]
  PROVE  Each(q)'
<1>1. Asking(q) => content'[map[q]] = content[map[q]]
  BY KeepingMapped DEF Asking, Each, Mapped
<1>2. Same(q)
  BY <1>1 DEF Same
<1> QED BY <1>2, SameEach

LEMMA KeepingFound ==
  ASSUME TypeOK, Found, Keeping(content), proven' = proven,
         \A p \in Asker : val'[p] \in {val[p], Nothing}
  PROVE  Found' /\ content' \in [Inodes -> Rows \cup {NoBytes, ZeroBytes}]
<1>1. /\ content' \in [Inodes -> Rows \cup {NoBytes, ZeroBytes}]
      /\ \A i \in Inodes : content'[i] \in {content[i], NoBytes}
  BY KeepingTypes DEF TypeOK
<1> QED BY <1>1, Distinct DEF Found

LEMMA SigbusIInv ==
  ASSUME IInv, NEW p \in Asker, Sigbus(p)
  PROVE  IInv'
<1> USE Distinct DEF IInv
<1>1. /\ pc[p] \in {"scan", "copy"} /\ content[map[p]] = NoBytes
      /\ pc' = [pc EXCEPT ![p] = IF p = Main THEN "down" ELSE "silent"]
      /\ map' = [map EXCEPT ![p] = Nothing] /\ val' = [val EXCEPT ![p] = Nothing]
      /\ UNCHANGED <<pw, meta, name, fd, query, up, restarts, own, disturbed, proven>>
      /\ Keeping(content)
  BY DEF Sigbus, tables, ghosts
<1>2. Found' /\ content' \in [Inodes -> Rows \cup {NoBytes, ZeroBytes}]
  <2>1. \A q \in Asker : val'[q] \in {val[q], Nothing}
    BY <1>1 DEF TypeOK
  <2> QED BY <1>1, <2>1, KeepingFound
<1>3. TypeOK'
  BY <1>1, <1>2 DEF TypeOK
<1>4. Each(p)'
  BY <1>1 DEF TypeOK, Each, Mapped, Asks, Fresh
<1>5. ASSUME NEW q \in Asker, q # p PROVE Each(q)'
  BY <1>1, <1>5, KeepingSame DEF TypeOK
<1> QED BY <1>2, <1>3, <1>4, <1>5

LEMMA AskIInv ==
  ASSUME IInv, NEW p \in Asker, Ask(p)
  PROVE  IInv'
BY ShellTruncatesIInv, PsqlWritesIInv, ScanIInv, CopyIInv, SigbusIInv DEF Ask

-----------------------------------------------------------------------------
(* main *)

LEMMA ExtendedTypes ==
  TypeOK => \A i \in Inodes : Extended(content[i]) \in {content[i], ZeroBytes}
BY DEF Extended, TypeOK

LEMMA StartIInv == IInv /\ Start => IInv'
<1> SUFFICES ASSUME IInv, Start PROVE IInv'
  OBVIOUS
<1> USE Distinct DEF IInv
<1>1. Opened \in Inodes
  BY OpenedIsInode
<1>2. /\ pc[Main] = "down" /\ name' = Opened
      /\ content' = [content EXCEPT ![Opened] = Extended(content[Opened])]
      /\ map' = [map EXCEPT ![Main] = Opened] /\ pc' = [pc EXCEPT ![Main] = "ask"]
      /\ query' = [query EXCEPT ![Main] = [kind |-> "count"]]
      /\ val' = [val EXCEPT ![Main] = Nothing]
      /\ UNCHANGED <<pw, meta, fd, up, restarts, own, proven>>
  BY DEF Start, StartSql, tables
<1>3. disturbed' = [q \in Asker |->
        IF q = Main THEN FALSE
        ELSE disturbed[q] \/ (Asking(q) /\ content'[map[q]] # content[map[q]])]
  BY DEF Start, Watch
<1>4. Extended(content[Opened]) \in {content[Opened], ZeroBytes}
  BY <1>1, ExtendedTypes
<1>5. [kind |-> "count"] \in Queries
  BY DEF Queries
<1>6. TypeOK'
  <2>1. disturbed' \in [Asker -> BOOLEAN]
    BY <1>3 DEF TypeOK, Asking
  <2>2. content' \in [Inodes -> Rows \cup {NoBytes, ZeroBytes}]
    BY <1>1, <1>2, <1>4 DEF TypeOK
  <2> QED BY <1>1, <1>2, <1>5, <2>1, <2>2 DEF TypeOK
<1>7. Each(Main)'
  BY <1>1, <1>2, <1>5 DEF TypeOK, Each, Mapped, Asks, Fresh
<1>8. ASSUME NEW q \in Asker, q # Main PROVE Each(q)'
  <2>1. Same(q)
    BY <1>2, <1>3, <1>8 DEF Same, TypeOK
  <2> QED BY <2>1, SameEach
<1>9. Found'
  BY <1>1, <1>2, <1>4 DEF Found, TypeOK
<1> QED BY <1>6, <1>7, <1>8, <1>9

LEMMA InsertedTypes ==
  ASSUME TypeOK, NEW u \in Users, NEW p \in Passwords
  PROVE  Inserted(u, p) \in [Users -> Passwords \cup {Nothing}]
BY DEF TypeOK, Inserted

LEMMA SeedAndListenIInv == IInv /\ SeedAndListen => IInv'
<1> SUFFICES ASSUME IInv, SeedAndListen PROVE IInv'
  OBVIOUS
<1> USE Distinct DEF IInv
<1>1. /\ pc[Main] = "answered" /\ pc' = [pc EXCEPT ![Main] = "listening"]
      /\ pw' \in [Users -> Passwords \cup {Nothing}]
      /\ UNCHANGED <<meta, name, content, map, fd, query, val, up, restarts, own,
                     disturbed, proven>>
  BY InsertedTypes, NamesAssumption DEF SeedAndListen, files, ghosts, TypeOK
<1>2. TypeOK'
  BY <1>1 DEF TypeOK
<1>3. Each(Main)'
  BY <1>1 DEF TypeOK, Each, Mapped, Asks, Fresh
<1>4. ASSUME NEW q \in Asker, q # Main PROVE Each(q)'
  <2>1. Same(q)
    BY <1>1, <1>4 DEF Same, TypeOK
  <2> QED BY <2>1, SameEach
<1>5. Found'
  BY <1>1 DEF Found
<1> QED BY <1>2, <1>3, <1>4, <1>5

\* The server goes, by itself or after it failed to bind.
LEMMA GoesDownIInv == IInv /\ (BindFails \/ Die) => IInv'
<1> SUFFICES ASSUME IInv, BindFails \/ Die PROVE IInv'
  OBVIOUS
<1> USE Distinct DEF IInv
<1>1. /\ pc' = [pc EXCEPT ![Main] = "down"] /\ map' = [map EXCEPT ![Main] = Nothing]
      /\ name' \in {name, Nothing} /\ restarts' = restarts + 1 /\ restarts < MaxRestarts
      /\ UNCHANGED <<meta, fd, query, val, up, own, disturbed, proven>>
      /\ Keeping(content)
  BY DEF BindFails, Die, EndSql, tables, ghosts
<1>2. pw' \in [Users -> Passwords \cup {Nothing}]
  <2>1. Inserted(Admin, AdminPass) \in [Users -> Passwords \cup {Nothing}]
    BY InsertedTypes, NamesAssumption
  <2> QED BY <2>1 DEF BindFails, Die, tables, TypeOK
<1>3. Found' /\ content' \in [Inodes -> Rows \cup {NoBytes, ZeroBytes}]
  BY <1>1, KeepingFound
<1>4. TypeOK'
  <2>1. restarts' \in 0 .. MaxRestarts
    BY <1>1, RestartsAssumption DEF TypeOK
  <2> QED BY <1>1, <1>2, <1>3, <2>1 DEF TypeOK
<1>5. Each(Main)'
  BY <1>1 DEF TypeOK, Each, Mapped, Asks, Fresh
<1>6. ASSUME NEW q \in Asker, q # Main PROVE Each(q)'
  BY <1>1, <1>6, KeepingSame DEF TypeOK
<1> QED BY <1>3, <1>4, <1>5, <1>6

-----------------------------------------------------------------------------
(* Handlers and uploads *)

LEMMA AcceptIInv ==
  ASSUME IInv, NEW h \in Handlers, NEW u \in Users, NEW p \in Passwords, Accept(h, u, p)
  PROVE  IInv'
<1> USE Distinct DEF IInv
<1> DEFINE q0 == [kind |-> "login", user |-> u, pass |-> p]
<1>1. /\ pc[Main] = "listening" /\ pc' = [pc EXCEPT ![h] = "ask"]
      /\ map' = [map EXCEPT ![h] = map[Main]]
      /\ query' = [query EXCEPT ![h] = q0]
      /\ val' = [val EXCEPT ![h] = Nothing]
      /\ own' = [own EXCEPT ![h] = Nothing]
      /\ disturbed' = [disturbed EXCEPT ![h] = FALSE]
      /\ UNCHANGED <<pw, meta, name, content, fd, up, restarts, proven>>
  BY DEF Accept, tables, files
<1>2. q0 \in Queries
  BY DEF Queries
<1> HIDE DEF q0
<1>3. map[Main] \in Inodes
  BY <1>1 DEF Each, Mapped
<1>4. TypeOK'
  BY <1>1, <1>2, <1>3 DEF TypeOK
<1>5. Each(h)'
  BY <1>1, <1>2, <1>3 DEF TypeOK, Each, Mapped, Asks, Fresh
<1>6. ASSUME NEW q \in Asker, q # h PROVE Each(q)'
  <2>1. Same(q)
    BY <1>1, <1>6 DEF Same, TypeOK
  <2> QED BY <2>1, SameEach
<1>7. Found'
  BY <1>1 DEF Found, TypeOK
<1> QED BY <1>4, <1>5, <1>6, <1>7

LEMMA ExitIInv ==
  ASSUME IInv, NEW h \in Handlers, Exit(h),
         pw' \in [Users -> Passwords \cup {Nothing}],
         UNCHANGED <<meta, up, restarts, proven>>
  PROVE  IInv'
<1> USE Distinct DEF IInv
<1>1. /\ pc' = [pc EXCEPT ![h] = "ended"] /\ map' = [map EXCEPT ![h] = Nothing]
      /\ query' = [query EXCEPT ![h] = NoQuery]
      /\ val' = [val EXCEPT ![h] = Nothing] /\ own' = [own EXCEPT ![h] = Nothing]
      /\ disturbed' = [disturbed EXCEPT ![h] = FALSE]
      /\ UNCHANGED <<name, fd>> /\ Keeping(content)
  BY DEF Exit
<1>2. Found' /\ content' \in [Inodes -> Rows \cup {NoBytes, ZeroBytes}]
  <2>1. \A q \in Asker : val'[q] \in {val[q], Nothing}
    BY <1>1 DEF TypeOK
  <2> QED BY <1>1, <2>1, KeepingFound
<1>3. TypeOK'
  BY <1>1, <1>2 DEF TypeOK
<1>4. Each(h)'
  BY <1>1 DEF TypeOK, Each, Mapped, Asks, Fresh
<1>5. ASSUME NEW q \in Asker, q # h PROVE Each(q)'
  BY <1>1, <1>5, KeepingSame DEF TypeOK
<1> QED BY <1>2, <1>3, <1>4, <1>5

LEMMA StreamGenreIInv ==
  ASSUME IInv, NEW h \in Handlers, StreamGenre(h)
  PROVE  IInv'
<1> USE Distinct DEF IInv
<1>1. /\ pc[h] = "answered" /\ pc' = [pc EXCEPT ![h] = "ask"]
      /\ query' = [query EXCEPT ![h] = [kind |-> "genre"]]
      /\ val' = [val EXCEPT ![h] = Nothing]
      /\ own' = [own EXCEPT ![h] = Nothing]
      /\ disturbed' = [disturbed EXCEPT ![h] = FALSE]
      /\ UNCHANGED <<pw, meta, name, content, map, fd, up, restarts, proven>>
  BY DEF StreamGenre, LoggedIn, tables, files
<1>2. [kind |-> "genre"] \in Queries
  BY DEF Queries
<1>3. TypeOK'
  BY <1>1, <1>2 DEF TypeOK
<1>4. Each(h)'
  BY <1>1, <1>2 DEF TypeOK, Each, Mapped, Asks, Fresh
<1>5. ASSUME NEW q \in Asker, q # h PROVE Each(q)'
  <2>1. Same(q)
    BY <1>1, <1>5 DEF Same, TypeOK
  <2> QED BY <2>1, SameEach
<1>6. Found'
  BY <1>1 DEF Found, TypeOK
<1> QED BY <1>3, <1>4, <1>5, <1>6

LEMMA HandlerIInv ==
  ASSUME IInv, NEW h \in Handlers, Handler(h)
  PROVE  IInv'
<1> USE Distinct
<1>1. CASE Ask(h)
  BY <1>1, AskIInv
<1>2. CASE Refuse(h) \/ StreamDone(h) \/ OtherCommand(h)
  <2>1. Exit(h) /\ UNCHANGED <<pw, meta, up, restarts, proven>>
    BY <1>2 DEF Refuse, StreamDone, OtherCommand, tables
  <2>2. pw' \in [Users -> Passwords \cup {Nothing}]
    BY <2>1 DEF IInv, TypeOK
  <2> QED BY <2>1, <2>2, ExitIInv
<1>3. CASE \E u \in Users, p \in Passwords : AddUser(h, u, p) \/ UpdateUser(h, u, p)
  <2>1. PICK u \in Users, p \in Passwords : AddUser(h, u, p) \/ UpdateUser(h, u, p)
    BY <1>3
  <2>2. Exit(h) /\ UNCHANGED <<meta, up, restarts, proven>>
    BY <2>1 DEF AddUser, UpdateUser
  <2>3. pw' \in [Users -> Passwords \cup {Nothing}]
    <3>1. Inserted(u, p) \in [Users -> Passwords \cup {Nothing}]
      BY InsertedTypes DEF IInv
    <3> QED BY <2>1, <3>1 DEF AddUser, UpdateUser, IInv, TypeOK
  <2> QED BY <2>2, <2>3, ExitIInv
<1>4. CASE \E u \in Users : DeleteUser(h, u)
  <2>1. PICK u \in Users : DeleteUser(h, u)
    BY <1>4
  <2>2. Exit(h) /\ UNCHANGED <<meta, up, restarts, proven>>
    BY <2>1 DEF DeleteUser
  <2>3. pw' \in [Users -> Passwords \cup {Nothing}]
    BY <2>1 DEF DeleteUser, IInv, TypeOK
  <2> QED BY <2>2, <2>3, ExitIInv
<1>5. CASE StreamGenre(h)
  BY <1>5, StreamGenreIInv
<1> QED BY <1>1, <1>2, <1>3, <1>4, <1>5 DEF Handler

LEMMA UploaderIInv ==
  ASSUME IInv, NEW w \in Uploaders, Uploader(w)
  PROVE  IInv'
<1> USE Distinct DEF IInv
<1>1. CASE UploadStarts(w)
  <2>1. Opened \in Inodes
    BY OpenedIsInode
  <2>2. /\ name' = Opened
        /\ content' = [content EXCEPT ![Opened] = Extended(content[Opened])]
        /\ up' = [up EXCEPT ![w] = "started"]
        /\ UNCHANGED <<pw, meta, pc, map, fd, query, val, restarts, own, proven>>
    BY <1>1 DEF UploadStarts, StartSql, tables, askers
  <2>3. disturbed' = [q \in Asker |->
          disturbed[q] \/ (Asking(q) /\ content'[map[q]] # content[map[q]])]
    BY <1>1 DEF UploadStarts, Watch
  <2>4. Extended(content[Opened]) \in {content[Opened], ZeroBytes}
    BY <2>1, ExtendedTypes
  <2>5. TypeOK'
    <3>1. disturbed' \in [Asker -> BOOLEAN]
      BY <2>3 DEF TypeOK, Asking
    <3>2. content' \in [Inodes -> Rows \cup {NoBytes, ZeroBytes}]
      BY <2>1, <2>2, <2>4 DEF TypeOK
    <3> QED BY <2>1, <2>2, <3>1, <3>2 DEF TypeOK
  <2>6. ASSUME NEW q \in Asker PROVE Each(q)'
    <3>1. Same(q)
      BY <2>2, <2>3 DEF Same
    <3> QED BY <3>1, SameEach
  <2>7. Found'
    BY <2>1, <2>2, <2>4 DEF Found, TypeOK
  <2> QED BY <2>5, <2>6, <2>7
<1>2. CASE UploadInserts(w)
  <2>1. /\ meta' = meta \cup {w} /\ up' = [up EXCEPT ![w] = "inserted"]
        /\ UNCHANGED <<pw, name, content, pc, map, fd, query, val, restarts, own,
                       disturbed, proven>>
    BY <1>2 DEF UploadInserts, files, askers, ghosts
  <2>2. TypeOK'
    BY <2>1 DEF TypeOK, Files
  <2>3. ASSUME NEW q \in Asker PROVE Each(q)'
    <3>1. Same(q)
      BY <2>1 DEF Same
    <3> QED BY <3>1, SameEach
  <2>4. Found'
    BY <2>1 DEF Found
  <2> QED BY <2>2, <2>3, <2>4
<1>3. CASE UploadEnds(w)
  <2>1. /\ name' = Nothing /\ up' = [up EXCEPT ![w] = "saved"]
        /\ UNCHANGED <<pw, meta, pc, map, fd, query, val, restarts, own, disturbed, proven>>
        /\ Keeping(content)
    BY <1>3 DEF UploadEnds, EndSql, tables, askers, ghosts
  <2>2. Found' /\ content' \in [Inodes -> Rows \cup {NoBytes, ZeroBytes}]
    BY <2>1, KeepingFound
  <2>3. TypeOK'
    BY <2>1, <2>2 DEF TypeOK
  <2>4. ASSUME NEW q \in Asker PROVE Each(q)'
    BY <2>1, KeepingSame
  <2> QED BY <2>2, <2>3, <2>4
<1> QED BY <1>1, <1>2, <1>3 DEF Uploader

-----------------------------------------------------------------------------
(* The theorems *)

LEMMA NextIInv == IInv /\ [Next]_vars => IInv'
<1> SUFFICES ASSUME IInv, [Next]_vars PROVE IInv'
  OBVIOUS
<1>1. CASE Server
  BY <1>1, Distinct, AskIInv, StartIInv, SeedAndListenIInv DEF Server
<1>2. CASE BindFails \/ Die
  BY <1>2, GoesDownIInv
<1>3. ASSUME NEW h \in Handlers, Handler(h) PROVE IInv'
  BY <1>3, HandlerIInv
<1>4. ASSUME NEW h \in Handlers, NEW u \in Users, NEW p \in Passwords, Accept(h, u, p)
      PROVE  IInv'
  BY <1>4, AcceptIInv
<1>5. ASSUME NEW w \in Uploaders, Uploader(w) PROVE IInv'
  BY <1>5, UploaderIInv
<1>6. CASE UNCHANGED vars
  BY <1>6 DEF vars, tables, files, askers, ghosts, IInv, TypeOK, Each, Mapped, Asks, Fresh,
              Found
<1> QED BY <1>1, <1>2, <1>3, <1>4, <1>5, <1>6 DEF Next

LEMMA Invariance == Spec => []IInv
BY InitIInv, NextIInv, PTL DEF Spec

\* The tables, the files and the processes keep their types: no query writes to a
\* file that is none, and whoever asks has a mapping.
THEOREM TypeCorrect == Spec => []TypeOK
<1>1. IInv => TypeOK
  BY DEF IInv
<1> QED BY <1>1, Invariance, PTL

\* ask_sql: an asker whose file nobody else touches reads the answer of its own
\* query, however many handlers, restarts and uploads there are.
THEOREM AnswersAreOwn == Spec => []UndisturbedAnswer
<1>1. IInv => UndisturbedAnswer
  BY DEF IInv, Each, Fresh, UndisturbedAnswer
<1> QED BY <1>1, Invariance, PTL

\* handle_client: through every overlap, stale mapping and restart, LOGIN_OK
\* goes only to a name that some login query found.
THEOREM NoStrangers == Spec => []OnlyFoundUsersLogIn
<1>1. IInv => OnlyFoundUsersLogIn
  <2> SUFFICES ASSUME IInv, NEW h \in Handlers, LoggedIn(h)
               PROVE  query[h].user \in proven
    BY DEF OnlyFoundUsersLogIn
  <2>1. h \in Asker
    BY Distinct
  <2>2. query[h] \in Queries /\ query[h].kind = "login" /\ val[h] = query[h].user
    BY <2>1 DEF IInv, Each, Asks, LoggedIn, IsValid
  <2>3. query[h].user \in Users
    BY <2>2 DEF Queries
  <2> QED BY <2>1, <2>2, <2>3 DEF IInv, Found
<1> QED BY <1>1, Invariance, PTL

=============================================================================
