--------------------------- MODULE Lists_proofs ---------------------------
(***************************************************************************)
(* Proofs about the three libraries that keep a linked list: the registry  *)
(* of mapped records of memory.h, the promises of threadpool.h and the     *)
(* table of processes of process.h, for any number of addresses, records,  *)
(* promises, processes and names.  The list is described by the sequence w *)
(* of its nodes; the first part shows that Walk finds just that sequence,  *)
(* the second what the links are after a node was put in or taken out.     *)
(* Each library then has an inductive invariant that speaks of such a w.   *)
(***************************************************************************)
EXTENDS MCLibraries, SequenceTheorems, FiniteSetTheorems, WellFoundedInduction, TLAPS

----------------------------------------------------------------------------
(* Induction over the numbers, for a set of them.                          *)

\* A set of numbers has a least one, and induction follows from that.
LEMMA Least == ASSUME NEW S, S \subseteq Nat, S # {}
  PROVE \E x \in S : \A y \in S : x <= y
<1> DEFINE R == {ss \in Nat \X Nat : ss[1] < ss[2]}
<1>1. IsWellFoundedOn(R, Nat)
  BY NatLessThanWellFounded DEF OpToRel
<1> HIDE DEF R
<1>2. \E x \in S : \A y \in S : ~ (<<y, x>> \in R)
  BY <1>1, WFMin
<1>3. \A x, y \in S : ~ (<<y, x>> \in R) => x <= y
  BY DEF R
<1> QED BY <1>2, <1>3

LEMMA AllNumbers == ASSUME NEW S, 0 \in S, \A n \in Nat : n \in S => n + 1 \in S
  PROVE \A n \in Nat : n \in S
<1> SUFFICES ASSUME Nat \ S # {} PROVE FALSE
  OBVIOUS
<1>1. PICK x \in Nat \ S : \A y \in Nat \ S : x <= y
  BY Least
<1>2. x # 0 /\ x - 1 \in Nat /\ ~(x <= x - 1)
  BY <1>1
<1>3. x - 1 \in S /\ x = (x - 1) + 1
  BY <1>1, <1>2
<1> QED BY <1>1, <1>2, <1>3

\* The nodes w, each of them once, lead from `first' to the end of the list.
Linking(w, next) ==
  /\ w \in Seq(Addr)
  /\ \A i, j \in 1..Len(w) : w[i] = w[j] => i = j
  /\ \A i \in 1..Len(w) : next[w[i]] = IF i = Len(w) THEN NULL ELSE w[i + 1]

\* They are the list that starts at `first'.
IsChain(w, first, next) ==
  /\ Linking(w, next)
  /\ first = IF Len(w) = 0 THEN NULL ELSE w[1]

\* The way as Walk computes it: the nodes, then NULL.
IsVisit(node, first, next, L) ==
  node = [i \in 0..L |->
            IF i = 0 THEN first
            ELSE LET a == node[i - 1] IN IF a = NULL THEN NULL ELSE next[a]]

\* The recursive function of Walk is what it says: one exists for any length.
LEMMA VisitExists ==
  ASSUME NEW first, NEW next PROVE \A L \in Nat : \E node : IsVisit(node, first, next, L)
<1> DEFINE S == {L \in Nat : \E node : IsVisit(node, first, next, L)}
<1>1. 0 \in S
  <2> DEFINE node == [i \in 0..0 |-> first]
  <2>1. IsVisit(node, first, next, 0)
    BY DEF IsVisit
  <2> QED BY <2>1
<1>2. ASSUME NEW L \in Nat, L \in S PROVE L + 1 \in S
  <2>1. PICK g : IsVisit(g, first, next, L)
    BY <1>2
  <2> DEFINE after(a) == IF a = NULL THEN NULL ELSE next[a]
             node == [i \in 0..(L + 1) |-> IF i <= L THEN g[i] ELSE after(g[i - 1])]
             e(f, i) == IF i = 0 THEN first ELSE after(f[i - 1])
  <2>2. g = [i \in 0..L |-> e(g, i)]
    BY <2>1 DEF IsVisit
  <2> HIDE DEF after
  <2>3. ASSUME NEW i \in 0..(L + 1) PROVE node[i] = e(node, i)
    <3>1. CASE i = L + 1
      BY <3>1
    <3>2. CASE i \in 0..L
      <4>1. g[i] = e(g, i)
        BY <2>2, <3>2
      <4>2. i # 0 => node[i - 1] = g[i - 1]
        BY <3>2
      <4> QED BY <3>2, <4>1, <4>2
    <3> QED BY <3>1, <3>2
  <2>4. node = [i \in 0..(L + 1) |-> e(node, i)]
    <3>1. node = [i \in 0..(L + 1) |-> node[i]]
      OBVIOUS
    <3> HIDE DEF node
    <3>2. \A i \in 0..(L + 1) : node[i] = e(node, i)
      BY <2>3
    <3> HIDE DEF e
    <3> QED BY <3>1, <3>2
  <2> HIDE DEF node
  <2>5. IsVisit(node, first, next, L + 1)
    BY <2>4 DEF IsVisit, after
  <2> QED BY <2>5
<1> HIDE DEF S
<1>3. \A L \in Nat : L \in S
  BY <1>1, <1>2, AllNumbers
<1> QED BY <1>3 DEF S

\* The way is the part of a visit before the first NULL.
Seen(node) == {i \in 0..Cardinality(Addr) : node[i] # NULL}
IsWay(way, node) == way = [i \in 1..Cardinality(Seen(node)) |-> node[i - 1]]

\* Walk is the way of such a visit.
LEMMA WalkIsVisit ==
  ASSUME NEW first, NEW next
  PROVE  \E node : IsVisit(node, first, next, Cardinality(Addr)) /\ IsWay(Walk(first, next), node)
<1> DEFINE node == CHOOSE node : IsVisit(node, first, next, Cardinality(Addr))
<1>1. Cardinality(Addr) \in Nat
  BY NullIsNoAddress, FS_CardinalityType
<1>2. IsVisit(node, first, next, Cardinality(Addr))
  BY <1>1, VisitExists
<1>3. IsWay(Walk(first, next), node)
  BY DEF Walk, IsVisit, IsWay, Seen
<1> QED BY <1>2, <1>3

\* Wherever the links lead, also in a circle: who walks visits addresses.
LEMMA WalkVisitsAddresses ==
  ASSUME NEW first \in Addr \cup {NULL}, NEW next \in [Addr -> Addr \cup {NULL}]
  PROVE  Walk(first, next) \in Seq(Addr)
<1> DEFINE N == Cardinality(Addr)
<1>1. PICK node : IsVisit(node, first, next, N) /\ IsWay(Walk(first, next), node)
  BY WalkIsVisit
<1> DEFINE seen == Seen(node)
           E == {i \in Nat : i <= N => node[i] \in Addr \cup {NULL}
                                        /\ (i # 0 /\ node[i] # NULL => node[i - 1] # NULL)}
<1>2. N \in Nat
  BY NullIsNoAddress, FS_CardinalityType
<1>3. \A i \in 0..N : node[i] = IF i = 0 THEN first
                       ELSE IF node[i - 1] = NULL THEN NULL ELSE next[node[i - 1]]
  BY <1>1 DEF IsVisit
<1>4. seen = {i \in 0..N : node[i] # NULL}
  BY DEF Seen
<1> HIDE DEF N, seen
<1>5. 0 \in E
  BY <1>2, <1>3
<1>6. ASSUME NEW i \in Nat, i \in E PROVE i + 1 \in E
  <2> SUFFICES ASSUME i + 1 <= N
               PROVE  node[i + 1] \in Addr \cup {NULL} /\ (node[i + 1] # NULL => node[i] # NULL)
    OBVIOUS
  <2>1. node[i] \in Addr \cup {NULL}
    BY <1>2, <1>6
  <2>2. node[i + 1] = IF node[i] = NULL THEN NULL ELSE next[node[i]]
    <3>1. i + 1 \in 0..N /\ i + 1 # 0 /\ (i + 1) - 1 = i
      BY <1>2
    <3> QED BY <1>3, <3>1
  <2> QED BY <2>1, <2>2
<1> HIDE DEF E
<1>7. \A i \in Nat : i \in E
  BY <1>5, <1>6, AllNumbers
<1>8. \A i \in 0..N : /\ node[i] \in Addr \cup {NULL}
                      /\ (i # 0 /\ node[i] # NULL => node[i - 1] # NULL)
  BY <1>2, <1>7 DEF E
<1>9. \E n \in Nat : seen = 0..(n - 1)
  <2>1. CASE \A i \in 0..N : node[i] # NULL
    <3>1. seen = 0..((N + 1) - 1)
      BY <1>2, <1>4, <2>1
    <3> QED BY <1>2, <3>1
  <2>2. CASE \E i \in 0..N : node[i] = NULL
    <3> DEFINE U == {i \in 0..N : node[i] = NULL}
    <3>1. PICK n \in U : \A i \in U : n <= i
      <4>1. U \subseteq Nat /\ U # {}
        BY <1>2, <2>2
      <4> QED BY <4>1, Least
    <3> DEFINE F == {i \in Nat : n <= i /\ i <= N => node[i] = NULL}
    <3>2. 0 \in F
      BY <1>2, <3>1
    <3>3. ASSUME NEW i \in Nat, i \in F PROVE i + 1 \in F
      <4> SUFFICES ASSUME n <= i + 1, i + 1 <= N PROVE node[i + 1] = NULL
        OBVIOUS
      <4>1. CASE n = i + 1
        BY <3>1, <4>1
      <4>2. CASE n <= i
        <5>1. node[i] = NULL /\ i + 1 \in 0..N /\ i + 1 # 0 /\ (i + 1) - 1 = i
          BY <1>2, <3>3, <4>2
        <5> QED BY <1>8, <5>1
      <4> QED BY <1>2, <3>1, <4>1, <4>2
    <3> HIDE DEF F
    <3>4. \A i \in Nat : i \in F
      BY <3>2, <3>3, AllNumbers
    <3>5. \A i \in 0..N : node[i] # NULL <=> i < n
      BY <1>2, <3>1, <3>4 DEF F
    <3>6. n \in Nat /\ n <= N
      BY <1>2, <3>1
    <3>7. seen = 0..(n - 1)
      BY <1>2, <1>4, <3>5, <3>6
    <3> QED BY <3>6, <3>7
  <2> QED BY <2>1, <2>2
<1>10. PICK n \in Nat : seen = 0..(n - 1)
  BY <1>9
<1>11. Cardinality(seen) = n
  <2>1. Cardinality(0..(n - 1)) = IF 0 > n - 1 THEN 0 ELSE (n - 1) - 0 + 1
    BY FS_Interval
  <2> QED BY <1>10, <2>1
<1>12. \A i \in 1..n : node[i - 1] \in Addr
  <2> SUFFICES ASSUME NEW i \in 1..n PROVE node[i - 1] \in Addr
    OBVIOUS
  <2>1. i - 1 \in seen
    BY <1>10
  <2> QED BY <1>4, <1>8, <2>1
<1>13. Walk(first, next) = [i \in 1..n |-> node[i - 1]]
  <2>1. Walk(first, next) = [i \in 1..Cardinality(seen) |-> node[i - 1]]
    BY <1>1 DEF seen, IsWay
  <2> QED BY <1>11, <2>1
<1> QED BY <1>12, <1>13

\* A list without a repetition is no longer than there are addresses.
LEMMA ChainFits == ASSUME NEW w \in Seq(Addr), \A i, j \in 1..Len(w) : w[i] = w[j] => i = j
  PROVE  Len(w) \in Nat /\ Cardinality(Addr) \in Nat /\ Len(w) <= Cardinality(Addr)
<1>1. Len(w) \in Nat /\ IsFiniteSet(Addr)
  BY NullIsNoAddress
<1>2. w \in Injection(1..Len(w), Addr)
  BY DEF Injection, IsInjective
<1>3. Cardinality(1..Len(w)) <= Cardinality(Addr) /\ Cardinality(1..Len(w)) = Len(w)
  <2>1. Cardinality(1..Len(w)) <= Cardinality(Addr)
    BY <1>1, <1>2, FS_Injection
  <2>2. Cardinality(1..Len(w)) = IF 1 > Len(w) THEN 0 ELSE Len(w) - 1 + 1
    BY <1>1, FS_Interval
  <2> QED BY <1>1, <2>1, <2>2
<1> QED BY <1>1, <1>3, FS_CardinalityType

\* The only way there is.
LEMMA VisitIsChain ==
  ASSUME NEW w, NEW first, NEW next, IsChain(w, first, next),
         NEW node, IsVisit(node, first, next, Cardinality(Addr))
  PROVE  node = [i \in 0..Cardinality(Addr) |-> IF i < Len(w) THEN w[i + 1] ELSE NULL]
<1> DEFINE N == Cardinality(Addr)
           T == {i \in Nat : i <= N => node[i] = IF i < Len(w) THEN w[i + 1] ELSE NULL}
<1>1. Len(w) \in Nat /\ N \in Nat /\ Len(w) <= N
  BY ChainFits DEF IsChain, Linking
<1>2. \A i \in 0..N : node[i] = IF i = 0 THEN first
                       ELSE IF node[i - 1] = NULL THEN NULL ELSE next[node[i - 1]]
  BY DEF IsVisit
<1>3. \A i \in 1..Len(w) : w[i] # NULL /\ next[w[i]] = IF i = Len(w) THEN NULL ELSE w[i + 1]
  BY NullIsNoAddress DEF IsChain, Linking
<1>4. first = IF Len(w) = 0 THEN NULL ELSE w[1]
  BY DEF IsChain
<1> HIDE DEF N
<1>5. 0 \in T
  BY <1>1, <1>2, <1>4
<1>6. ASSUME NEW i \in Nat, i \in T PROVE i + 1 \in T
  <2> SUFFICES ASSUME i + 1 <= N
               PROVE  node[i + 1] = IF i + 1 < Len(w) THEN w[(i + 1) + 1] ELSE NULL
    OBVIOUS
  <2>1. node[i] = IF i < Len(w) THEN w[i + 1] ELSE NULL
    BY <1>1, <1>6
  <2>2. node[i + 1] = IF node[i] = NULL THEN NULL ELSE next[node[i]]
    <3>1. i + 1 \in 0..N /\ i + 1 # 0 /\ (i + 1) - 1 = i
      BY <1>1
    <3> QED BY <1>2, <3>1
  <2>3. CASE i < Len(w)
    <3>1. i + 1 \in 1..Len(w)
      BY <1>1, <2>3
    <3> QED BY <1>1, <1>3, <2>1, <2>2, <2>3, <3>1
  <2>4. CASE ~(i < Len(w))
    BY <1>1, <2>1, <2>2, <2>4
  <2> QED BY <2>3, <2>4
<1> HIDE DEF T
<1>7. \A i \in Nat : i \in T
  BY <1>5, <1>6, AllNumbers
<1>8. \A i \in 0..N : node[i] = IF i < Len(w) THEN w[i + 1] ELSE NULL
  BY <1>1, <1>7 DEF T
<1>9. node = [i \in 0..N |-> node[i]]
  BY DEF IsVisit, N
<1> QED BY <1>8, <1>9 DEF N

\* Walk returns the nodes of the list, in order.
LEMMA WalkIsChain ==
  ASSUME NEW w, NEW first, NEW next, IsChain(w, first, next)
  PROVE  Walk(first, next) = w
<1> DEFINE N == Cardinality(Addr)
<1>1. PICK node : IsVisit(node, first, next, N) /\ IsWay(Walk(first, next), node)
  BY WalkIsVisit
<1> DEFINE seen == Seen(node)
<1>2. Walk(first, next) = [i \in 1..Cardinality(seen) |-> node[i - 1]]
  BY <1>1 DEF IsWay
<1>3. seen = {i \in 0..N : node[i] # NULL}
  BY DEF Seen
<1>4. node = [i \in 0..N |-> IF i < Len(w) THEN w[i + 1] ELSE NULL]
  BY <1>1, VisitIsChain
<1>5. /\ Len(w) \in Nat /\ N \in Nat /\ Len(w) <= N
      /\ w \in Seq(Addr) /\ \A i \in 1..Len(w) : w[i] # NULL
  BY ChainFits, NullIsNoAddress DEF IsChain, Linking
<1> HIDE DEF N, seen
<1>6. seen = 0..(Len(w) - 1)
  BY <1>3, <1>4, <1>5
<1>7. Cardinality(seen) = Len(w)
  <2>1. 0 \in Int /\ Len(w) - 1 \in Int
    BY <1>5
  <2>2. Cardinality(0..(Len(w) - 1)) = IF 0 > Len(w) - 1 THEN 0 ELSE (Len(w) - 1) - 0 + 1
    BY <2>1, FS_Interval
  <2> QED BY <1>5, <1>6, <2>2
<1>8. \A i \in 1..Len(w) : node[i - 1] = w[i]
  BY <1>4, <1>5
<1>9. w = [i \in 1..Len(w) |-> w[i]]
  BY <1>5
<1> QED BY <1>2, <1>7, <1>8, <1>9

\* It is the same Walk in each of the libraries.
LEMMA SpaceWalk == ASSUME NEW first, NEW next PROVE Space!Walk(first, next) = Walk(first, next)
  BY DEF Space!Walk, Walk, Space!Cardinality, Cardinality, Space!IsFiniteSet, IsFiniteSet
LEMMA PromiseWalk == ASSUME NEW first, NEW next
                     PROVE  Promise!Walk(first, next) = Walk(first, next)
  BY DEF Promise!Walk, Walk, Promise!Cardinality, Cardinality, Promise!IsFiniteSet, IsFiniteSet
LEMMA ProcessWalk == ASSUME NEW first, NEW next
                     PROVE  Process!Walk(first, next) = Walk(first, next)
  BY DEF Process!Walk, Walk, Process!Cardinality, Cardinality, Process!IsFiniteSet, IsFiniteSet

----------------------------------------------------------------------------
\* Lists of no node, of one, and where the first is.
LEMMA FirstOf ==
  ASSUME NEW n \in Nat, NEW S, S \subseteq 1..n, S # {}
  PROVE  \E i \in S : \A j \in 1..(i - 1) : j \notin S
<1>1. S \subseteq Nat
  OBVIOUS
<1>2. PICK i \in S : \A j \in S : i <= j
  BY <1>1, Least
<1> QED BY <1>2

LEMMA NoNodes ==
  ASSUME NEW w, NEW next
  PROVE  IsChain(<<>>, NULL, next) /\ (IsChain(w, NULL, next) => w = <<>>)
<1>1. IsChain(<<>>, NULL, next)
  BY DEF IsChain, Linking
<1>2. ASSUME IsChain(w, NULL, next) PROVE w = <<>>
  <2>1. w \in Seq(Addr)
    BY <1>2 DEF IsChain, Linking
  <2>2. Len(w) # 0 => w[1] \in Addr
    BY <2>1
  <2>3. Len(w) = 0
    BY <1>2, <2>2, NullIsNoAddress DEF IsChain
  <2> QED BY <2>1, <2>3, EmptySeq
<1> QED BY <1>1, <1>2

LEMMA OneNode ==
  ASSUME NEW a \in Addr, NEW after, after[a] = NULL
  PROVE  IsChain(<<a>>, a, after)
  BY DEF IsChain, Linking

\* The links `next' became `after' when a was put behind the last of the nodes w; u are
\* the nodes then.
PutBehind(a, w, next, after) ==
  /\ Len(w) # 0 /\ a \in Addr /\ \A i \in 1..Len(w) : w[i] # a
  /\ after[a] = NULL /\ after[w[Len(w)]] = a
  /\ \A i \in 1..Len(w) : i # Len(w) => after[w[i]] = next[w[i]]

\* The list u is w and then a; such a list is what there is after a was put behind.
Longer(u, w, a) ==
  u \in Seq(Addr) /\ Len(u) = Len(w) + 1 /\ u[Len(w) + 1] = a /\ \A i \in 1..Len(w) : u[i] = w[i]

LEMMA NodeAtTheEnd ==
  ASSUME NEW next, NEW after, NEW first, NEW w, NEW a,
         IsChain(w, first, next), PutBehind(a, w, next, after)
  PROVE  \E u : IsChain(u, first, after) /\ Longer(u, w, a)
<1> USE DEF PutBehind, Longer
<1> DEFINE u == Append(w, a)
           L == Len(w)
<1>1. w \in Seq(Addr) /\ L \in Nat /\ L # 0 /\ L \in 1..L /\ w[L] \in Addr
  BY DEF IsChain, Linking
<1>2. u \in Seq(Addr) /\ Len(u) = L + 1 /\ u[L + 1] = a /\ \A i \in 1..L : u[i] = w[i]
  BY <1>1
<1>3. /\ \A i, j \in 1..L : w[i] = w[j] => i = j
      /\ \A i \in 1..L : w[i] \in Addr /\ next[w[i]] = IF i = L THEN NULL ELSE w[i + 1]
      /\ first = w[1]
  BY <1>1 DEF IsChain, Linking
<1>4. after[a] = NULL /\ after[w[L]] = a /\ \A i \in 1..L : i # L => after[w[i]] = next[w[i]]
  OBVIOUS
<1> HIDE DEF u, L
<1>5. \A i, j \in 1..Len(u) : u[i] = u[j] => i = j
  <2>1. \A i \in 1..Len(u) : i \in 1..L \/ i = L + 1
    BY <1>1, <1>2
  <2>2. \A i \in 1..L : w[i] # a
    BY DEF L
  <2> QED BY <1>2, <1>3, <2>1, <2>2
<1>6. ASSUME NEW i \in 1..Len(u) PROVE after[u[i]] = IF i = Len(u) THEN NULL ELSE u[i + 1]
  <2>1. CASE i = L + 1
    BY <1>2, <1>4, <2>1
  <2>2. CASE i = L
    BY <1>1, <1>2, <1>4, <2>2
  <2>3. CASE i \in 1..L /\ i # L
    <3>1. i + 1 \in 1..L
      BY <1>1, <2>3
    <3>2. after[u[i]] = w[i + 1]
      BY <1>2, <1>3, <1>4, <2>3
    <3> QED BY <1>1, <1>2, <2>3, <3>1, <3>2
  <2> QED BY <1>1, <1>2, <2>1, <2>2, <2>3
<1>7. first = u[1]
  BY <1>1, <1>2, <1>3
<1>8. IsChain(u, first, after)
  BY <1>1, <1>2, <1>5, <1>6, <1>7 DEF IsChain, Linking
<1> QED BY <1>2, <1>8 DEF L

\* And when the i-th of them was taken out: the one before it got its link.
TakenOut(i, w, next, after) ==
  /\ i \in 1..Len(w)
  /\ i # 1 => after[w[i - 1]] = next[w[i]]
  /\ \A k \in 1..Len(w) : k # i - 1 => after[w[k]] = next[w[k]]

\* The list u is w without its i-th node; it is what is left when that was taken out.
Shorter(u, w, i) ==
  /\ u \in Seq(Addr) /\ Len(u) = Len(w) - 1
  /\ \A k \in 1..(Len(w) - 1) : u[k] = IF k < i THEN w[k] ELSE w[k + 1]

LEMMA NodeTakenOut ==
  ASSUME NEW next, NEW after, NEW first, NEW w, NEW i,
         IsChain(w, first, next), TakenOut(i, w, next, after)
  PROVE  \E u : /\ IsChain(u, IF i = 1 THEN next[w[i]] ELSE first, after)
                /\ Shorter(u, w, i)
<1> USE DEF TakenOut, Shorter
<1> DEFINE start == IF i = 1 THEN next[w[i]] ELSE first
<1> DEFINE L == Len(w)
           u == [k \in 1..(L - 1) |-> IF k < i THEN w[k] ELSE w[k + 1]]
<1>1. w \in Seq(Addr) /\ L \in Nat /\ L # 0 /\ L - 1 \in Nat /\ i \in 1..L
  BY DEF IsChain, Linking
<1>2. /\ \A m, n \in 1..L : w[m] = w[n] => m = n
      /\ \A m \in 1..L : w[m] \in Addr /\ next[w[m]] = IF m = L THEN NULL ELSE w[m + 1]
      /\ first = w[1]
  BY <1>1 DEF IsChain, Linking
<1> HIDE DEF L, start
<1>3. \A k \in 1..(L - 1) : k \in 1..L /\ k + 1 \in 1..L
  BY <1>1
<1>4. u \in Seq(Addr) /\ Len(u) = L - 1 /\ \A k \in 1..(L - 1) : u[k] = IF k < i THEN w[k]
        ELSE w[k + 1]
  <2>1. \A k \in 1..(L - 1) : (IF k < i THEN w[k] ELSE w[k + 1]) \in Addr
    BY <1>2, <1>3
  <2> QED BY <1>1, <2>1
<1> HIDE DEF u
<1>5. \A m, n \in 1..Len(u) : u[m] = u[n] => m = n
  <2> SUFFICES ASSUME NEW m \in 1..(L - 1), NEW n \in 1..(L - 1), u[m] = u[n] PROVE m = n
    BY <1>4
  <2> DEFINE p(k) == IF k < i THEN k ELSE k + 1
  <2>1. u[m] = w[p(m)] /\ u[n] = w[p(n)] /\ p(m) \in 1..L /\ p(n) \in 1..L
    BY <1>3, <1>4
  <2>2. p(m) = p(n)
    <3> HIDE DEF p
    <3> QED BY <1>2, <2>1
  <2> QED BY <1>1, <2>2
<1>6. i # 1 => i - 1 \in 1..L /\ after[w[i - 1]] = next[w[i]]
  BY <1>1, <1>2
<1>7. \A m \in 1..L : m # i - 1 => after[w[m]] = next[w[m]]
  BY DEF L
<1>8. ASSUME NEW k \in 1..Len(u) PROVE after[u[k]] = IF k = Len(u) THEN NULL ELSE u[k + 1]
  <2>1. k \in 1..(L - 1) /\ k \in 1..L /\ k + 1 \in 1..L /\ k \in Nat /\ i \in Nat
    BY <1>1, <1>3, <1>4
  <2>2. CASE k < i - 1
    <3>1. u[k] = w[k] /\ u[k + 1] = w[k + 1] /\ k # L - 1 /\ k # i - 1 /\ k # L
      BY <1>1, <1>4, <2>1, <2>2
    <3> QED BY <1>2, <1>4, <1>7, <2>1, <3>1
  <2>3. CASE k = i - 1
    <3>1. u[k] = w[i - 1] /\ i # 1 /\ (i = L <=> k = L - 1) /\ (i # L => u[k + 1] = w[i + 1])
      <4>1. u[k] = w[k]
        BY <1>4, <2>1, <2>3
      <4>2. i # 1 /\ (i = L <=> k = L - 1) /\ k = i - 1 /\ k + 1 = i
        BY <1>1, <2>1, <2>3
      <4>3. i # L => k + 1 \in 1..(L - 1) /\ ~(k + 1 < i) /\ (k + 1) + 1 = i + 1
        BY <1>1, <2>1, <4>2
      <4>4. i # L => u[k + 1] = w[(k + 1) + 1]
        BY <1>4, <4>3
      <4> QED BY <4>1, <4>2, <4>3, <4>4
    <3>2. after[u[k]] = next[w[i]]
      BY <1>6, <3>1
    <3> QED BY <1>1, <1>2, <1>4, <3>1, <3>2
  <2>4. CASE k > i - 1
    <3>1. ~(k < i) /\ ~(k + 1 < i) /\ k + 1 # i - 1 /\ (k + 1 = L <=> k = L - 1)
          /\ (k # L - 1 => k + 1 \in 1..(L - 1))
      BY <1>1, <2>1, <2>4
    <3>2. u[k] = w[k + 1] /\ (k # L - 1 => u[k + 1] = w[(k + 1) + 1])
      BY <1>4, <2>1, <3>1
    <3>3. after[w[k + 1]] = next[w[k + 1]]
      BY <1>7, <2>1, <3>1
    <3>4. next[w[k + 1]] = IF k + 1 = L THEN NULL ELSE w[(k + 1) + 1]
      BY <1>2, <2>1
    <3> QED BY <1>4, <3>1, <3>2, <3>3, <3>4
  <2> QED BY <2>1, <2>2, <2>3, <2>4
<1>9. Linking(u, after)
  BY <1>4, <1>5, <1>8 DEF Linking
<1>10. start = IF Len(u) = 0 THEN NULL ELSE u[1]
  <2>1. CASE i = 1
    BY <1>1, <1>2, <1>4, <2>1 DEF start
  <2>2. CASE i # 1
    BY <1>1, <1>2, <1>4, <2>2 DEF start
  <2> QED BY <2>1, <2>2
<1>11. IsChain(u, start, after)
  BY <1>9, <1>10 DEF IsChain
<1> QED BY <1>4, <1>11 DEF L, start

----------------------------------------------------------------------------
(* memory.h: the registry of mapped records.  r... are the variables of    *)
(* Space.                                                                  *)
rNext == s1
rValue == s2
rLive == s3
rHead == s4
rRecords == s5
rCrashed == s6
rOpened == s7
rAstray == s8
USE DEF rNext, rValue, rLive, rHead, rRecords, rCrashed, rOpened, rAstray

\* As long as records are opened and closed: the nodes are allocated, carry different
\* numbers, those that are open, and `records' denotes the last one or a freed node.
InUse(w, live, value, records, opened) ==
  /\ \A i \in 1..Len(w) : w[i] \in live
  /\ records = NULL <=> Len(w) = 0
  /\ records \in live => Len(w) # 0 /\ records = w[Len(w)]
  /\ \A i, j \in 1..Len(w) : value[w[i]] = value[w[j]] /\ value[w[i]] # Junk => i = j
  /\ \A s \in Ids : s \in opened <=> \E i \in 1..Len(w) : value[w[i]] = s

\* After clear_space: the list is there, its nodes are not.
Cleared(w, live, value, records, opened) ==
  /\ \A i \in 1..Len(w) : w[i] \notin live /\ value[w[i]] = Junk
  /\ records # NULL /\ records \notin live /\ opened = {}

\* The list of the registry, in use or cleared.
Registry(w) ==
  /\ IsChain(w, rHead, rNext)
  /\ \/ InUse(w, rLive, rValue, rRecords, rOpened)
     \/ Cleared(w, rLive, rValue, rRecords, rOpened)

\* The inductive invariant: up to a fault or a stale `records' there is such a list.
SpaceIInv == Space!TypeOK /\ (~rCrashed /\ ~rAstray => \E w : Registry(w))

\* Its nodes are the ones the calls visit.
LEMMA SpaceWay == ASSUME NEW w, IsChain(w, rHead, rNext) PROVE Space!Way = w
  BY SpaceWalk, WalkIsChain DEF Space!Way

\* find_space on such a list.
LEMMA SpaceFound ==
  ASSUME NEW w, IsChain(w, rHead, rNext), NEW s
  PROVE  IF \E i \in 1..Len(w) : rValue[w[i]] = s
         THEN /\ Space!FindSpace(s) \in 1..Len(w)
              /\ rValue[w[Space!FindSpace(s)]] = s
         ELSE Space!FindSpace(s) = 0
<1> DEFINE v == Space!Way
           S == {i \in 1..Len(v) : rValue[v[i]] = s}
<1>1. v = w
  BY SpaceWay
<1>2. Space!FindSpace(s) =
        IF \E i \in DOMAIN v : rValue[v[i]] = s
        THEN CHOOSE i \in DOMAIN v : rValue[v[i]] = s /\ \A j \in 1..(i - 1) : ~(rValue[v[j]] = s)
        ELSE 0
  BY DEF Space!FindSpace, Space!PlaceOf
<1> HIDE DEF v
<1>3. Len(v) \in Nat /\ DOMAIN v = 1..Len(v)
  BY <1>1 DEF IsChain, Linking
<1>4. CASE S # {}
  <2>1. PICK i \in S : \A j \in 1..(i - 1) : j \notin S
    BY <1>3, <1>4, FirstOf
  <2>2. \A j \in 1..(i - 1) : j \in 1..Len(v)
    BY <1>3, <2>1
  <2>3. \E k \in DOMAIN v : rValue[v[k]] = s /\ \A j \in 1..(k - 1) : ~(rValue[v[j]] = s)
    BY <1>3, <2>1, <2>2
  <2> QED BY <1>1, <1>2, <1>3, <2>3
<1>5. CASE S = {}
  BY <1>1, <1>2, <1>3, <1>5
<1> QED BY <1>4, <1>5

\* At the start the list is empty.
LEMMA SpaceInit == Space!Init => SpaceIInv
<1> SUFFICES ASSUME Space!Init PROVE SpaceIInv
  OBVIOUS
<1>1. Space!TypeOK
  BY DEF Space!Init, Space!TypeOK
<1>2. IsChain(<<>>, rHead, rNext)
  BY NoNodes DEF Space!Init
<1>3. InUse(<<>>, rLive, rValue, rRecords, rOpened)
  BY DEF Space!Init, InUse
<1> QED BY <1>1, <1>2, <1>3 DEF SpaceIInv, Registry

\* A record is created, or its creation fails with the node in the list.
LEMMA CreatesIInv ==
  ASSUME SpaceIInv, ~rCrashed, Space!CreatFails \/ \E s \in Ids : Space!CreatSpace(s)
  PROVE  SpaceIInv'
<1>1. PICK a \in Addr \ rLive, s \in Ids \cup {Junk} :
        /\ Space!Linked(a)
        /\ rValue' = [rValue EXCEPT ![a] = s]
        /\ IF s = Junk THEN rOpened' = rOpened
           ELSE rOpened' = rOpened \cup {s} /\ Space!FindSpace(s) = 0
        /\ rCrashed' = rCrashed
  BY JunkIsNoNumber DEF Space!CreatFails, Space!CreatSpace
<1>2. /\ rNext' = IF rRecords = NULL THEN [rNext EXCEPT ![a] = NULL]
                  ELSE [rNext EXCEPT ![rRecords] = a, ![a] = NULL]
      /\ rHead' = IF rRecords = NULL THEN a ELSE rHead
      /\ rRecords' = a
      /\ rLive' = rLive \cup {a}
      /\ rAstray' = (rAstray \/ (rRecords # NULL /\ rRecords \notin rLive))
  BY <1>1 DEF Space!Linked
<1>3. Space!TypeOK
  BY DEF SpaceIInv
<1>4. Space!TypeOK'
  <2>1. rNext' \in [Addr -> Addr \cup {NULL}] /\ rValue' \in [Addr -> Ids \cup {Junk}]
    BY <1>1, <1>2, <1>3 DEF Space!TypeOK
  <2>2. rOpened' \subseteq Ids /\ rLive' \subseteq Addr /\ rAstray' \in BOOLEAN
    BY <1>1, <1>2, <1>3 DEF Space!TypeOK
  <2> QED BY <1>1, <1>2, <1>3, <2>1, <2>2 DEF Space!TypeOK
<1>5. ASSUME ~rAstray' PROVE (\E w : Registry(w))'
  <2>1. ~rAstray /\ (rRecords = NULL \/ rRecords \in rLive)
    BY <1>2, <1>5
  <2>2. PICK w : Registry(w)
    BY <2>1 DEF SpaceIInv
  <2>3. IsChain(w, rHead, rNext) /\ InUse(w, rLive, rValue, rRecords, rOpened)
    BY <2>1, <2>2 DEF Registry, Cleared
  <2>4. w \in Seq(Addr) /\ Len(w) \in Nat /\ \A i \in 1..Len(w) : w[i] \in Addr /\ w[i] # a
    BY <1>1, <2>3 DEF IsChain, Linking, InUse
  <2>5. s # Junk => \A i \in 1..Len(w) : rValue[w[i]] # s
    BY <1>1, <2>3, <2>4, SpaceFound
  <2>6. rValue'[a] = s /\ \A i \in 1..Len(w) : rValue'[w[i]] = rValue[w[i]]
    BY <1>1, <1>3, <2>4 DEF Space!TypeOK
  <2>7. ASSUME NEW u, Longer(u, w, a)
        PROVE  InUse(u, rLive', rValue', rRecords', rOpened')
    <3> USE <2>7 DEF Longer
    <3>1. \A i \in 1..Len(u) : i \in 1..Len(w) \/ i = Len(w) + 1
      BY <2>4, <2>7
    <3>2. Len(w) + 1 \in 1..Len(u) /\ \A i \in 1..Len(w) : i \in 1..Len(u)
      BY <2>4, <2>7
    <3>3. \A i \in 1..Len(u) : u[i] \in rLive'
      BY <1>2, <2>3, <2>7, <3>1 DEF InUse
    <3>4. rRecords' # NULL /\ Len(u) # 0 /\ rRecords' = u[Len(u)]
      BY <1>1, <1>2, <2>4, <2>7, NullIsNoAddress
    <3>5. \A i, j \in 1..Len(u) : rValue'[u[i]] = rValue'[u[j]] /\ rValue'[u[i]] # Junk => i = j
      <4> SUFFICES ASSUME NEW i \in 1..Len(u), NEW j \in 1..Len(u),
                          rValue'[u[i]] = rValue'[u[j]], rValue'[u[i]] # Junk
                   PROVE  i = j
        OBVIOUS
      <4>1. CASE i \in 1..Len(w) /\ j \in 1..Len(w)
        BY <2>3, <2>6, <2>7, <4>1 DEF InUse
      <4>2. CASE i = Len(w) + 1 \/ j = Len(w) + 1
        BY <2>5, <2>6, <2>7, <3>1, <4>2
      <4> QED BY <3>1, <4>1, <4>2
    <3>6. ASSUME NEW t \in Ids PROVE t \in rOpened' <=> \E i \in 1..Len(u) : rValue'[u[i]] = t
      <4>1. t \in rOpened' <=> t \in rOpened \/ t = s
        BY <1>1, JunkIsNoNumber
      <4>2. (\E i \in 1..Len(u) : rValue'[u[i]] = t) <=> (\E i \in 1..Len(w) : rValue[w[i]] = t) \/ s = t
        BY <2>6, <2>7, <3>1, <3>2
      <4> QED BY <2>3, <4>1, <4>2 DEF InUse
    <3> QED BY <3>3, <3>4, <3>5, <3>6 DEF InUse
  <2>8. CASE rRecords = NULL
    <3>1. Len(w) = 0 /\ rNext' = [rNext EXCEPT ![a] = NULL] /\ rHead' = a
      BY <1>2, <2>3, <2>8 DEF InUse
    <3>2. IsChain(<<a>>, a, rNext')
      BY <1>3, OneNode, <3>1 DEF Space!TypeOK
    <3>3. InUse(<<a>>, rLive', rValue', rRecords', rOpened')
      <4> DEFINE u == <<a>>
      <4>1. Longer(u, w, a)
        BY <3>1 DEF Longer
      <4> HIDE DEF u
      <4>2. InUse(u, rLive', rValue', rRecords', rOpened')
        BY <2>7, <4>1
      <4> QED BY <4>2 DEF u
    <3> QED BY <3>1, <3>2, <3>3 DEF Registry
  <2>9. CASE rRecords # NULL
    <3>1. Len(w) # 0 /\ rRecords = w[Len(w)] /\ rHead' = rHead
          /\ rNext' = [rNext EXCEPT ![w[Len(w)]] = a, ![a] = NULL]
      BY <1>2, <2>1, <2>3, <2>9 DEF InUse
    <3>2. PutBehind(a, w, rNext, rNext')
      <4>1. Len(w) \in 1..Len(w) /\ rNext \in [Addr -> Addr \cup {NULL}]
        BY <1>3, <2>4, <3>1 DEF Space!TypeOK
      <4>2. \A i \in 1..Len(w) : i # Len(w) => w[i] # w[Len(w)]
        BY <2>3, <4>1 DEF IsChain, Linking
      <4> QED BY <2>4, <3>1, <4>1, <4>2 DEF PutBehind
    <3>3. PICK u : IsChain(u, rHead, rNext') /\ Longer(u, w, a)
      BY <2>3, <3>2, NodeAtTheEnd
    <3>4. InUse(u, rLive', rValue', rRecords', rOpened')
      BY <2>7, <3>3
    <3> QED BY <3>1, <3>3, <3>4 DEF Registry
  <2> QED BY <2>8, <2>9
<1> QED BY <1>4, <1>5 DEF SpaceIInv

\* In any list: find_space finds a node of it.
LEMMA SpaceFindsNode ==
  ASSUME Space!TypeOK
  PROVE  /\ Space!Way \in Seq(Addr)
         /\ \A s : Space!FindSpace(s) # 0 => Space!FindSpace(s) \in 1..Len(Space!Way)
<1> DEFINE v == Space!Way
<1>1. v \in Seq(Addr)
  BY SpaceWalk, WalkVisitsAddresses DEF Space!Way, Space!TypeOK
<1>2. ASSUME NEW s, Space!FindSpace(s) # 0 PROVE Space!FindSpace(s) \in 1..Len(v)
  <2>1. Space!FindSpace(s) =
          IF \E i \in DOMAIN v : rValue[v[i]] = s
          THEN CHOOSE i \in DOMAIN v : rValue[v[i]] = s
            /\ \A j \in 1..(i - 1) : ~(rValue[v[j]] = s)
          ELSE 0
    BY DEF Space!FindSpace, Space!PlaceOf
  <2> HIDE DEF v
  <2> DEFINE S == {i \in 1..Len(v) : rValue[v[i]] = s}
  <2>2. Len(v) \in Nat /\ DOMAIN v = 1..Len(v) /\ S # {}
    BY <1>1, <1>2, <2>1
  <2>3. PICK i \in S : \A j \in 1..(i - 1) : j \notin S
    BY <2>2, FirstOf
  <2>4. \A j \in 1..(i - 1) : j \in 1..Len(v)
    BY <2>2, <2>3
  <2>5. \E k \in DOMAIN v : rValue[v[k]] = s /\ \A j \in 1..(k - 1) : ~(rValue[v[j]] = s)
    BY <2>2, <2>3, <2>4
  <2> QED BY <2>1, <2>2, <2>5
<1> QED BY <1>1, <1>2

\* The record that is closed is not the first one: its node is taken out.
LEMMA ClosesIInv ==
  ASSUME SpaceIInv, ~rCrashed, NEW s \in Ids, Space!CloseSpace(s)
  PROVE  SpaceIInv'
<1> DEFINE v == Space!Way
           i == Space!FindSpace(s)
<1>1. Space!TypeOK
  BY DEF SpaceIInv
<1>2. /\ i # 0 /\ Space!Removed(i)
      /\ rOpened' = IF rCrashed' THEN rOpened ELSE rOpened \ {s}
  BY DEF Space!CloseSpace
<1>3. v \in Seq(Addr) /\ i \in 1..Len(v) /\ Len(v) \in Nat
  BY <1>1, <1>2, SpaceFindsNode
<1>4. CASE Space!Before(v, i) = NULL
  <2>1. rCrashed' = TRUE /\ UNCHANGED <<rNext, rValue, rLive, rHead, rRecords, rAstray, rOpened>>
    BY <1>2, <1>4 DEF Space!Removed
  <2>2. Space!TypeOK'
    BY <1>1, <2>1 DEF Space!TypeOK
  <2> QED BY <2>1, <2>2 DEF SpaceIInv
<1>5. CASE Space!Before(v, i) # NULL
  <2>1. /\ rNext' = [rNext EXCEPT ![Space!Before(v, i)] = rNext[v[i]]]
        /\ rLive' = rLive \ {v[i]}
        /\ rValue' = [rValue EXCEPT ![v[i]] = Junk]
        /\ UNCHANGED <<rHead, rRecords, rCrashed, rAstray>>
        /\ rOpened' = rOpened \ {s}
    BY <1>1, <1>2, <1>5 DEF Space!Removed, Space!TypeOK
  <2>2. i # 1 /\ Space!Before(v, i) = v[i - 1]
    BY <1>5 DEF Space!Before
  <2> HIDE DEF v, i
  <2>3. v[i] \in Addr /\ v[i - 1] \in Addr /\ i - 1 \in 1..Len(v)
    BY <1>3, <2>2
  <2>4. Space!TypeOK'
    <3>1. rLive' \subseteq Addr /\ rOpened' \subseteq Ids /\ rValue' \in [Addr -> Ids \cup {Junk}]
      BY <1>1, <2>1 DEF Space!TypeOK
    <3>2. rNext \in [Addr -> Addr \cup {NULL}]
      BY <1>1 DEF Space!TypeOK
    <3>3. rNext' \in [Addr -> Addr \cup {NULL}]
      BY <2>1, <2>3, <3>2
    <3> QED BY <1>1, <2>1, <3>1, <3>3 DEF Space!TypeOK
  <2>5. ASSUME ~rCrashed', ~rAstray' PROVE (\E w : Registry(w))'
    <3>1. PICK w : Registry(w)
      BY <2>1, <2>5 DEF SpaceIInv
    <3>2. IsChain(w, rHead, rNext) /\ v = w /\ s # Junk /\ rValue[w[i]] = s
      BY <1>2, <3>1, SpaceWay, SpaceFound, JunkIsNoNumber DEF Registry, v, i
    <3>3. InUse(w, rLive, rValue, rRecords, rOpened)
      BY <1>3, <3>1, <3>2 DEF Registry, Cleared
    <3>4. /\ \A k, j \in 1..Len(w) : w[k] = w[j] => k = j
          /\ \A k \in 1..Len(w) : w[k] \in Addr
      BY <3>2 DEF IsChain, Linking
    <3>5. TakenOut(i, w, rNext, rNext')
      <4>1. rNext \in [Addr -> Addr \cup {NULL}]
        BY <1>1 DEF Space!TypeOK
      <4>2. \A k \in 1..Len(w) : k # i - 1 => w[k] # w[i - 1]
        BY <2>3, <3>2, <3>4
      <4> QED BY <1>3, <2>1, <2>2, <2>3, <3>2, <3>4, <4>1, <4>2 DEF TakenOut
    <3>6. PICK u : IsChain(u, rHead, rNext') /\ Shorter(u, w, i)
      BY <2>2, <3>2, <3>5, NodeTakenOut
    <3>7. InUse(u, rLive', rValue', rRecords', rOpened')
      <4>1. Len(w) \in Nat /\ Len(u) = Len(w) - 1 /\ i \in 2..Len(w)
            /\ \A k \in 1..(Len(w) - 1) : u[k] = IF k < i THEN w[k] ELSE w[k + 1]
        BY <1>3, <2>2, <3>2, <3>6 DEF Shorter
      <4> DEFINE p(k) == IF k < i THEN k ELSE k + 1
      <4>2. \A k \in 1..Len(u) : p(k) \in 1..Len(w) /\ p(k) # i /\ u[k] = w[p(k)]
        BY <4>1
      <4>3. \A k, j \in 1..Len(u) : p(k) = p(j) => k = j
        BY <4>1
      <4>4. \A j \in 1..Len(w) : j # i => \E k \in 1..Len(u) : p(k) = j
        <5> SUFFICES ASSUME NEW j \in 1..Len(w), j # i PROVE \E k \in 1..Len(u) : p(k) = j
          OBVIOUS
        <5>1. CASE j < i
          BY <4>1, <5>1
        <5>2. CASE j > i
          <6>1. j - 1 \in 1..Len(u) /\ p(j - 1) = j
            BY <4>1, <5>2
          <6> QED BY <6>1
        <5> QED BY <4>1, <5>1, <5>2
      <4> HIDE DEF p
      <4>5. \A j \in 1..Len(w) : j # i => w[j] # w[i] /\ rValue'[w[j]] = rValue[w[j]]
        <5>1. rValue \in [Addr -> Ids \cup {Junk}]
          BY <1>1 DEF Space!TypeOK
        <5> QED BY <1>3, <2>1, <3>2, <3>4, <5>1
      <4>6. \A k \in 1..Len(u) : u[k] \in rLive'
        BY <2>1, <3>2, <3>3, <4>2, <4>5 DEF InUse
      <4>7. rRecords' # NULL /\ Len(u) # 0
        BY <2>1, <3>3, <4>1 DEF InUse
      <4>8. rRecords' \in rLive' => rRecords' = u[Len(u)]
        <5> SUFFICES ASSUME rRecords' \in rLive' PROVE rRecords' = u[Len(u)]
          OBVIOUS
        <5>1. rRecords = w[Len(w)] /\ Len(w) # i
          BY <2>1, <3>2, <3>3 DEF InUse
        <5>2. u[Len(u)] = w[Len(w)]
          BY <4>1, <5>1
        <5> QED BY <2>1, <5>1, <5>2
      <4>9. \A k, j \in 1..Len(u) : rValue'[u[k]] = rValue'[u[j]] /\ rValue'[u[k]] # Junk => k = j
        BY <3>3, <4>2, <4>3, <4>5 DEF InUse
      <4>10. ASSUME NEW t \in Ids PROVE t \in rOpened' <=> \E k \in 1..Len(u) : rValue'[u[k]] = t
        <5>1. t \in rOpened' <=> t # s /\ \E j \in 1..Len(w) : rValue[w[j]] = t
          BY <2>1, <3>3 DEF InUse
        <5>2. \A j \in 1..Len(w) : rValue[w[j]] = s => j = i
          BY <1>3, <3>2, <3>3 DEF InUse
        <5>3. ASSUME NEW j \in 1..Len(w), t # s, rValue[w[j]] = t
              PROVE  \E k \in 1..Len(u) : rValue'[u[k]] = t
          <6>1. j # i
            BY <3>2, <5>3
          <6>2. PICK k \in 1..Len(u) : p(k) = j
            BY <4>4, <6>1
          <6> QED BY <4>2, <4>5, <5>3, <6>1, <6>2
        <5>4. ASSUME NEW k \in 1..Len(u), rValue'[u[k]] = t
              PROVE  t # s /\ \E j \in 1..Len(w) : rValue[w[j]] = t
          <6>1. p(k) \in 1..Len(w) /\ p(k) # i /\ u[k] = w[p(k)]
            BY <4>2
          <6>2. rValue[w[p(k)]] = t
            BY <4>5, <5>4, <6>1
          <6> QED BY <5>2, <6>1, <6>2
        <5> QED BY <5>1, <5>3, <5>4
      <4> QED BY <4>6, <4>7, <4>8, <4>9, <4>10 DEF InUse
    <3> QED BY <2>1, <3>6, <3>7 DEF Registry
  <2> QED BY <2>4, <2>5 DEF SpaceIInv
<1> QED BY <1>4, <1>5

\* clear_space frees the nodes and keeps the list.
LEMMA ClearsIInv ==
  ASSUME SpaceIInv, ~rCrashed, Space!ClearSpace
  PROVE  SpaceIInv'
<1> DEFINE nodes == Space!OnWalk(rHead, rNext)
<1>1. Space!TypeOK
  BY DEF SpaceIInv
<1>2. /\ nodes # {} /\ rCrashed' = ~(nodes \subseteq rLive)
      /\ rLive' = rLive \ nodes
      /\ rValue' = [a \in Addr |-> IF a \in nodes THEN Junk ELSE rValue[a]]
      /\ rOpened' = rOpened \ {rValue[a] : a \in nodes}
      /\ UNCHANGED <<rNext, rHead, rRecords, rAstray>>
  BY DEF Space!ClearSpace
<1> DEFINE v == Space!Way
<1>3. nodes = {v[k] : k \in DOMAIN v}
  BY DEF Space!OnWalk, Space!Way
<1> HIDE DEF nodes, v
<1>4. Space!TypeOK'
  <2>1. rValue' \in [Addr -> Ids \cup {Junk}] /\ rCrashed' \in BOOLEAN
    BY <1>1, <1>2 DEF Space!TypeOK
  <2>2. rLive' \subseteq Addr /\ rOpened' \subseteq Ids
    BY <1>1, <1>2 DEF Space!TypeOK
  <2> QED BY <1>1, <1>2, <2>1, <2>2 DEF Space!TypeOK
<1>5. ASSUME ~rCrashed', ~rAstray' PROVE (\E w : Registry(w))'
  <2>1. PICK w : Registry(w)
    BY <1>2, <1>5 DEF SpaceIInv
  <2>2. IsChain(w, rHead, rNext) /\ v = w
    BY <2>1, SpaceWay DEF Registry, v
  <2>3. DOMAIN w = 1..Len(w) /\ \A k \in 1..Len(w) : w[k] \in Addr
    BY <2>2 DEF IsChain, Linking
  <2>4. nodes = {w[k] : k \in 1..Len(w)} /\ nodes \subseteq rLive /\ Len(w) # 0
    <3>1. Len(w) # 0
      <4>1. Len(w) = 0 => 1..Len(w) = {}
        OBVIOUS
      <4> QED BY <1>2, <1>3, <2>2, <2>3, <4>1
    <3> QED BY <1>2, <1>3, <1>5, <2>2, <2>3, <3>1
  <2>5. InUse(w, rLive, rValue, rRecords, rOpened)
    <3>1. 1 \in 1..Len(w)
      <4>1. Len(w) \in Nat
        BY <2>2 DEF IsChain, Linking
      <4> QED BY <2>4, <4>1
    <3>2. w[1] \in rLive
      BY <2>4, <3>1
    <3> QED BY <2>1, <3>1, <3>2 DEF Registry, Cleared
  <2>6. \A k \in 1..Len(w) : w[k] \notin rLive' /\ rValue'[w[k]] = Junk
    BY <1>2, <2>3, <2>4
  <2>7. rRecords' # NULL /\ rRecords' \notin rLive'
    <3>1. rRecords \in rLive => rRecords \in nodes
      <4>1. Len(w) \in Nat
        BY <2>2 DEF IsChain, Linking
      <4>2. Len(w) \in 1..Len(w)
        BY <2>4, <4>1
      <4> QED BY <2>4, <2>5, <4>2 DEF InUse
    <3> QED BY <1>2, <2>4, <2>5, <3>1 DEF InUse
  <2>8. rOpened' = {}
    <3>1. \A t \in rOpened : t \in {rValue[a] : a \in nodes}
      BY <1>1, <2>4, <2>5 DEF InUse, Space!TypeOK
    <3> QED BY <1>2, <3>1
  <2>9. Cleared(w, rLive', rValue', rRecords', rOpened')
    BY <2>6, <2>7, <2>8 DEF Cleared
  <2> QED BY <1>2, <2>2, <2>9 DEF Registry
<1> QED BY <1>4, <1>5 DEF SpaceIInv

\* Every step keeps the invariant.
LEMMA SpaceNext == SpaceIInv /\ [Space!Next]_Space!vars => SpaceIInv'
<1> SUFFICES ASSUME SpaceIInv, [Space!Next]_Space!vars PROVE SpaceIInv'
  OBVIOUS
<1>1. ASSUME UNCHANGED <<rNext, rValue, rLive, rHead, rRecords, rOpened, rAstray>>,
             rCrashed' \in BOOLEAN, rCrashed => rCrashed'
      PROVE  SpaceIInv'
  BY <1>1 DEF SpaceIInv, Space!TypeOK, Registry
<1>2. CASE UNCHANGED Space!vars
  BY <1>1, <1>2 DEF Space!vars, Space!list, SpaceIInv, Space!TypeOK
<1>3. ASSUME NEW s \in Ids, Space!FindSpacePtr(s) PROVE SpaceIInv'
  BY <1>1, <1>3 DEF Space!FindSpacePtr
<1>4. ASSUME Space!Next, ~\E s \in Ids : Space!FindSpacePtr(s) PROVE SpaceIInv'
  <2>1. ~rCrashed
    BY <1>4 DEF Space!Next
  <2>2. ASSUME NEW s \in Ids, Space!CloseSpace(s) PROVE SpaceIInv'
    BY <2>1, <2>2, ClosesIInv
  <2>3. ASSUME NEW s \in Ids, Space!CreatSpace(s) PROVE SpaceIInv'
    BY <2>1, <2>3, CreatesIInv
  <2> QED BY <1>4, <2>1, <2>2, <2>3, CreatesIInv, ClearsIInv DEF Space!Next
<1> QED BY <1>2, <1>3, <1>4

\* What the invariant is for.
LEMMA SpaceIsExact == SpaceIInv => Space!RegistryIsExact
<1> SUFFICES ASSUME SpaceIInv, ~rCrashed, ~rAstray, NEW s \in Ids
             PROVE  /\ s \in rOpened <=> Space!FindSpace(s) # 0
                    /\ s \in rOpened => Space!Way[Space!FindSpace(s)] \in rLive
  BY DEF Space!RegistryIsExact
<1>1. PICK w : Registry(w)
  BY DEF SpaceIInv
<1>2. IsChain(w, rHead, rNext) /\ Space!Way = w
  BY <1>1, SpaceWay DEF Registry
<1>3. IF \E k \in 1..Len(w) : rValue[w[k]] = s
      THEN Space!FindSpace(s) \in 1..Len(w) /\ rValue[w[Space!FindSpace(s)]] = s
      ELSE Space!FindSpace(s) = 0
  BY <1>2, SpaceFound
<1>4. 0 \notin 1..Len(w)
  OBVIOUS
<1>5. CASE InUse(w, rLive, rValue, rRecords, rOpened)
  BY <1>2, <1>3, <1>4, <1>5 DEF InUse
<1>6. CASE Cleared(w, rLive, rValue, rRecords, rOpened)
  BY <1>2, <1>3, <1>4, <1>6, JunkIsNoNumber DEF Cleared
<1> QED BY <1>1, <1>5, <1>6 DEF Registry

----------------------------------------------------------------------------
(* threadpool.h: the promises.  p... are the variables of Promise.         *)
pNext == s1
pLive == s2
pHead == s3
pTemp == s4
pHandle == s5
pThread == s6
pAnswer == s7
pCrashed == s8
pOvertaken == s9
pReused == s10
USE DEF pNext, pLive, pHead, pTemp, pHandle, pThread, pAnswer, pCrashed, pOvertaken, pReused

\* As long as no promise was overtaken or started late: the p-th node of the list is the
\* one of the p-th promise, and is allocated until that is awaited.
Lined(w, live, temp, handle, thread, answer) ==
  /\ \A p \in 1..Promises : thread[p] = "unborn" <=> p > Len(w)
  /\ \A p \in 1..Len(w) : p \in 1..Promises /\ handle[p] = w[p]
  /\ temp = IF Len(w) = 0 THEN NULL ELSE w[Len(w)]
  /\ \A p \in 1..Promises : answer[p] # "missing"
  /\ \A p \in 1..Len(w) : answer[p] = "none" => w[p] \in live

\* The list of the promises.
Promised(w) ==
  /\ IsChain(w, pHead, pNext)
  /\ Lined(w, pLive, pTemp, pHandle, pThread, pAnswer)

\* The inductive invariant: as long as promises are awaited from the last one on, and
\* none is made after that, there is such a list and nobody has failed.
PromiseIInv ==
  /\ Promise!TypeOK
  /\ ~pOvertaken /\ ~pReused => ~pCrashed /\ \E w : Promised(w)

\* Its nodes are the ones await visits.
LEMMA PromiseWay == ASSUME NEW w, IsChain(w, pHead, pNext) PROVE Promise!Way = w
  BY PromiseWalk, WalkIsChain DEF Promise!Way

\* await finds a promise when those before it are not awaited.
LEMMA PromiseReached ==
  ASSUME NEW w, IsChain(w, pHead, pNext), NEW p \in 1..Len(w), pHandle[p] = w[p],
         \A q \in 1..(p - 1) : w[q] \in pLive
  PROVE  Promise!Reaches(p)
<1> DEFINE v == Promise!Way
           A == pHandle[p]
           S == {i \in 1..Len(v) : v[i] = A \/ v[i] \notin pLive}
           First(i) == i \in S /\ \A j \in 1..(i - 1) : j \notin S
<1>1. v = w
  BY PromiseWay
<1>2. Promise!Stop(A) =
        IF \E i \in DOMAIN v : v[i] = A \/ v[i] \notin pLive
        THEN CHOOSE i \in DOMAIN v : /\ v[i] = A \/ v[i] \notin pLive
                                     /\ \A j \in 1..(i - 1) : ~(v[j] = A \/ v[j] \notin pLive)
        ELSE 0
  BY DEF Promise!Stop, Promise!PlaceOf
<1>3. Promise!Reaches(p) <=> Promise!Stop(A) # 0 /\ v[Promise!Stop(A)] = A
  BY DEF Promise!Reaches
<1> HIDE DEF v
<1>4. Len(w) \in Nat /\ DOMAIN w = 1..Len(w) /\ \A i, j \in 1..Len(w) : w[i] = w[j] => i = j
  BY DEF IsChain, Linking
<1>5. \A j \in 1..(p - 1) : j \in 1..Len(w) /\ w[j] # A /\ w[j] \in pLive
  BY <1>4
<1>6. \A i \in 1..Len(w) : /\ v[i] = A \/ v[i] \notin pLive
                           /\ \A j \in 1..(i - 1) : ~(v[j] = A \/ v[j] \notin pLive)
                           => i = p
  <2> SUFFICES ASSUME NEW i \in 1..Len(w), w[i] = A \/ w[i] \notin pLive,
                      \A j \in 1..(i - 1) : ~(w[j] = A \/ w[j] \notin pLive)
               PROVE  i = p
    BY <1>1
  <2>1. ~(i < p)
    BY <1>4, <1>5
  <2>2. ~(p < i)
    <3>1. p < i => p \in 1..(i - 1)
      BY <1>4
    <3> QED BY <3>1
  <2> QED BY <1>4, <2>1, <2>2
<1>7. p \in DOMAIN v /\ v[p] = A /\ \A j \in 1..(p - 1) : ~(v[j] = A \/ v[j] \notin pLive)
  BY <1>1, <1>4, <1>5
<1>8. Promise!Stop(A) = p
  <2> DEFINE M(i) == /\ v[i] = A \/ v[i] \notin pLive
                     /\ \A j \in 1..(i - 1) : ~(v[j] = A \/ v[j] \notin pLive)
  <2>1. p \in DOMAIN v /\ M(p)
    BY <1>7
  <2>2. \A i \in DOMAIN v : M(i) => i = p
    BY <1>1, <1>4, <1>6
  <2>3. Promise!Stop(A) = CHOOSE i \in DOMAIN v : M(i)
    BY <1>2, <1>7
  <2> HIDE DEF M
  <2> QED BY <2>1, <2>2, <2>3
<1> QED BY <1>1, <1>3, <1>4, <1>8

\* At the start the list is empty.
LEMMA PromiseInit == Promise!Init => PromiseIInv
<1> SUFFICES ASSUME Promise!Init PROVE PromiseIInv
  OBVIOUS
<1>1. Promise!TypeOK
  BY DEF Promise!Init, Promise!TypeOK
<1>2. IsChain(<<>>, pHead, pNext)
  BY NoNodes DEF Promise!Init
<1>3. Lined(<<>>, pLive, pTemp, pHandle, pThread, pAnswer)
  BY PromisesBound DEF Promise!Init, Promise!Numbers, Lined
<1> QED BY <1>1, <1>2, <1>3 DEF PromiseIInv, Promised, Promise!Init

\* The next promise gets the next node.
LEMMA AsyncIInv ==
  ASSUME PromiseIInv, ~pCrashed, NEW p \in Promise!Numbers, Promise!Async(p)
  PROVE  PromiseIInv'
<1>1. PICK a \in Addr \ pLive : Promise!GeneratePromise(a) /\ pHandle' = [pHandle EXCEPT ![p] = a]
  BY DEF Promise!Async
<1>2. /\ pNext' = IF pTemp = NULL THEN [pNext EXCEPT ![a] = NULL]
                  ELSE [pNext EXCEPT ![pTemp] = a, ![a] = NULL]
      /\ pHead' = IF pTemp = NULL THEN a ELSE pHead
      /\ pTemp' = a
      /\ pLive' = pLive \cup {a}
      /\ pThread' = [pThread EXCEPT ![p] = "running"]
      /\ pCrashed' \in (IF pTemp # NULL /\ pTemp \notin pLive THEN BOOLEAN ELSE {FALSE})
      /\ pReused' = (pReused \/ \E q \in 1..Promises : pAnswer[q] # "none")
      /\ pAnswer' = pAnswer /\ pOvertaken' = pOvertaken
      /\ pThread[p] = "unborn" /\ \A q \in 1..(p - 1) : pThread[q] # "unborn"
      /\ p \in 1..Promises
  BY <1>1 DEF Promise!Async, Promise!GeneratePromise, Promise!Unborn, Promise!Awaited,
     Promise!Numbers
<1>3. Promise!TypeOK
  BY DEF PromiseIInv
<1>4. Promise!TypeOK'
  <2>1. pNext' \in [Addr -> Addr \cup {NULL}]
          /\ pHandle' \in [Promise!Numbers -> Addr \cup {NULL}]
    BY <1>1, <1>2, <1>3 DEF Promise!TypeOK
  <2>2. pThread' \in [Promise!Numbers -> {"unborn", "running", "finished", "joined"}]
    BY <1>2, <1>3 DEF Promise!TypeOK
  <2>3. pReused' \in BOOLEAN /\ pCrashed' \in BOOLEAN
    BY <1>2, <1>3 DEF Promise!TypeOK
  <2> QED BY <1>1, <1>2, <1>3, <2>1, <2>2, <2>3 DEF Promise!TypeOK, Promise!Numbers
<1>5. ASSUME ~pOvertaken', ~pReused' PROVE ~pCrashed' /\ (\E w : Promised(w))'
  <2>1. ~pOvertaken /\ ~pReused /\ \A q \in 1..Promises : pAnswer[q] = "none"
    BY <1>2, <1>5
  <2>2. PICK w : Promised(w)
    BY <2>1 DEF PromiseIInv
  <2>3. IsChain(w, pHead, pNext) /\ Lined(w, pLive, pTemp, pHandle, pThread, pAnswer)
    BY <2>2 DEF Promised
  <2>4. w \in Seq(Addr) /\ Len(w) \in Nat /\ \A i \in 1..Len(w) : w[i] \in Addr /\ w[i] \in pLive
    BY <2>1, <2>3 DEF IsChain, Linking, Lined
  <2>5. p = Len(w) + 1
    <3>1. p > Len(w) /\ p \in Nat /\ p >= 1 /\ p <= Promises
      BY <1>2, <2>3, PromisesBound DEF Lined
    <3>2. ~(p - 1 > Len(w))
      <4> SUFFICES ASSUME p - 1 > Len(w) PROVE FALSE
        OBVIOUS
      <4>1. p - 1 \in 1..(p - 1) /\ p - 1 \in 1..Promises
        BY <2>4, <3>1, PromisesBound
      <4> QED BY <1>2, <2>3, <4>1 DEF Lined
    <3> QED BY <2>4, <3>1, <3>2
  <2>6. ~pCrashed'
    <3>1. pTemp = NULL \/ pTemp \in pLive
      <4>1. Len(w) # 0 => Len(w) \in 1..Len(w)
        BY <2>4
      <4> QED BY <2>3, <2>4, <4>1 DEF Lined
    <3> QED BY <1>2, <3>1
  <2>7. ASSUME NEW u, Longer(u, w, a)
        PROVE  Lined(u, pLive', pTemp', pHandle', pThread', pAnswer')
    <3> USE <2>7 DEF Longer
    <3>1. \A i \in 1..Len(u) : i \in 1..Len(w) \/ i = p
      BY <2>4, <2>5, <2>7
    <3>2. \A i \in 1..Len(u) : u[i] \in pLive'
      BY <1>2, <2>4, <2>5, <2>7, <3>1
    <3>3. pTemp' = IF Len(u) = 0 THEN NULL ELSE u[Len(u)]
      BY <1>2, <2>4, <2>7
    <3>4. ASSUME NEW i \in 1..Len(u) PROVE i \in 1..Promises /\ pHandle'[i] = u[i]
      <4>1. pHandle \in [1..Promises -> Addr \cup {NULL}]
        BY <1>3 DEF Promise!TypeOK, Promise!Numbers
      <4>2. CASE i = p
        BY <1>1, <1>2, <2>5, <2>7, <4>1, <4>2
      <4>3. CASE i \in 1..Len(w)
        BY <1>1, <2>3, <2>4, <2>5, <2>7, <4>1, <4>3 DEF Lined
      <4> QED BY <3>1, <4>2, <4>3
    <3>5. ASSUME NEW q \in 1..Promises PROVE pThread'[q] = "unborn" <=> q > Len(u)
      <4>1. pThread \in [1..Promises -> {"unborn", "running", "finished", "joined"}]
        BY <1>3 DEF Promise!TypeOK, Promise!Numbers
      <4>2. CASE q = p
        BY <1>2, <2>4, <2>5, <2>7, <4>1, <4>2
      <4>3. CASE q # p
        <5>1. pThread'[q] = pThread[q] /\ q \in Nat
          BY <1>2, <4>1, <4>3, PromisesBound
        <5>2. pThread[q] = "unborn" <=> q > Len(w)
          BY <2>3 DEF Lined
        <5> QED BY <2>4, <2>5, <2>7, <4>3, <5>1, <5>2
      <4> QED BY <4>2, <4>3
    <3> QED BY <1>2, <2>1, <3>2, <3>3, <3>4, <3>5 DEF Lined
  <2>8. CASE Len(w) = 0
    <3>1. pNext' = [pNext EXCEPT ![a] = NULL] /\ pHead' = a
      BY <1>2, <2>3, <2>8 DEF Lined
    <3>2. IsChain(<<a>>, a, pNext')
      BY <1>3, OneNode, <3>1 DEF Promise!TypeOK
    <3>3. Lined(<<a>>, pLive', pTemp', pHandle', pThread', pAnswer')
      <4> DEFINE u == <<a>>
      <4>1. Longer(u, w, a)
        BY <2>8 DEF Longer
      <4> HIDE DEF u
      <4>2. Lined(u, pLive', pTemp', pHandle', pThread', pAnswer')
        BY <2>7, <4>1
      <4> QED BY <4>2 DEF u
    <3> QED BY <2>6, <3>1, <3>2, <3>3 DEF Promised
  <2>9. CASE Len(w) # 0
    <3>1. Len(w) \in 1..Len(w) /\ pNext \in [Addr -> Addr \cup {NULL}]
      BY <1>3, <2>4, <2>9 DEF Promise!TypeOK
    <3>2. pHead' = pHead /\ pNext' = [pNext EXCEPT ![w[Len(w)]] = a, ![a] = NULL]
      BY <1>2, <2>3, <2>4, <2>9, <3>1, NullIsNoAddress DEF Lined
    <3>3. PutBehind(a, w, pNext, pNext')
      <4>1. \A i \in 1..Len(w) : i # Len(w) => w[i] # w[Len(w)]
        BY <2>3, <3>1 DEF IsChain, Linking
      <4> QED BY <2>4, <2>9, <3>1, <3>2, <4>1 DEF PutBehind
    <3>4. PICK u : IsChain(u, pHead, pNext') /\ Longer(u, w, a)
      BY <2>3, <3>3, NodeAtTheEnd
    <3>5. Lined(u, pLive', pTemp', pHandle', pThread', pAnswer')
      BY <2>7, <3>4
    <3> QED BY <2>6, <3>2, <3>4, <3>5 DEF Promised
  <2> QED BY <2>8, <2>9
<1> QED BY <1>4, <1>5 DEF PromiseIInv

\* Who is awaited before all that came earlier is reached.
LEMMA AwaitIInv ==
  ASSUME PromiseIInv, ~pCrashed, NEW p \in Promise!Numbers,
         Promise!AwaitJoinsIt(p) \/ Promise!AwaitMisses(p) \/ Promise!AwaitStumbles(p)
  PROVE  PromiseIInv'
<1>1. /\ p \in 1..Promises /\ pThread[p] # "unborn" /\ pAnswer[p] = "none"
      /\ pOvertaken' = (pOvertaken \/ \E q \in 1..(p - 1) : pAnswer[q] # "none")
      /\ UNCHANGED <<pHandle, pReused, pNext, pHead, pTemp>>
  BY DEF Promise!AwaitJoinsIt, Promise!AwaitMisses, Promise!AwaitStumbles, Promise!Called,
     Promise!Unborn, Promise!Awaited, Promise!Numbers, Promise!heap
<1>2. Promise!TypeOK
  BY DEF PromiseIInv
<1>3. \/ /\ pThread' = [pThread EXCEPT ![p] = "joined"]
         /\ pAnswer' = [pAnswer EXCEPT ![p] = "joined"]
         /\ pLive' = pLive \ {pHandle[p]} /\ pCrashed' = pCrashed
      \/ /\ ~Promise!Reaches(p)
         /\ pAnswer' = [pAnswer EXCEPT ![p] = "missing"]
         /\ UNCHANGED <<pLive, pThread, pCrashed>>
      \/ /\ ~Promise!Reaches(p)
         /\ pCrashed' = TRUE /\ UNCHANGED <<pLive, pThread, pAnswer>>
  BY DEF Promise!AwaitJoinsIt, Promise!AwaitMisses, Promise!AwaitStumbles, Promise!heap
<1>4. Promise!TypeOK'
  <2>1. pLive' \subseteq Addr /\ pCrashed' \in BOOLEAN
    BY <1>2, <1>3 DEF Promise!TypeOK
  <2>2. /\ pThread' \in [Promise!Numbers -> {"unborn", "running", "finished", "joined"}]
        /\ pAnswer' \in [Promise!Numbers -> {"none", "joined", "missing"}]
    BY <1>2, <1>3 DEF Promise!TypeOK
  <2>3. pOvertaken' \in BOOLEAN
    BY <1>1, <1>2 DEF Promise!TypeOK
  <2> QED BY <1>1, <1>2, <2>1, <2>2, <2>3 DEF Promise!TypeOK, Promise!Numbers
<1>5. ASSUME ~pOvertaken', ~pReused' PROVE ~pCrashed' /\ (\E w : Promised(w))'
  <2>1. ~pOvertaken /\ ~pReused /\ \A q \in 1..(p - 1) : pAnswer[q] = "none"
    BY <1>1, <1>5
  <2>2. PICK w : Promised(w)
    BY <2>1 DEF PromiseIInv
  <2>3. IsChain(w, pHead, pNext) /\ Lined(w, pLive, pTemp, pHandle, pThread, pAnswer)
    BY <2>2 DEF Promised
  <2>4. w \in Seq(Addr) /\ Len(w) \in Nat /\ \A i, j \in 1..Len(w) : w[i] = w[j] => i = j
    BY <2>3 DEF IsChain, Linking
  <2>5. p \in 1..Len(w) /\ pHandle[p] = w[p]
    <3>1. p \in Nat /\ p >= 1 /\ ~(p > Len(w))
      BY <1>1, <2>3, PromisesBound DEF Lined
    <3> QED BY <2>3, <2>4, <3>1 DEF Lined
  <2>6. Promise!Reaches(p)
    <3>1. \A q \in 1..(p - 1) : q \in 1..Len(w)
      BY <2>4, <2>5
    <3>2. \A q \in 1..(p - 1) : w[q] \in pLive
      BY <2>1, <2>3, <3>1 DEF Lined
    <3> QED BY <2>3, <2>5, <3>2, PromiseReached
  <2>7. /\ pThread' = [pThread EXCEPT ![p] = "joined"]
        /\ pAnswer' = [pAnswer EXCEPT ![p] = "joined"]
        /\ pLive' = pLive \ {w[p]} /\ ~pCrashed'
    BY <1>3, <2>1, <2>5, <2>6
  <2>8. Lined(w, pLive', pTemp', pHandle', pThread', pAnswer')
    <3>1. \A q \in 1..Promises : pThread'[q] = IF q = p THEN "joined" ELSE pThread[q]
      BY <1>2, <2>7 DEF Promise!TypeOK, Promise!Numbers
    <3>2. \A q \in 1..Promises : pAnswer'[q] = IF q = p THEN "joined" ELSE pAnswer[q]
      BY <1>2, <2>7 DEF Promise!TypeOK, Promise!Numbers
    <3>3. \A q \in 1..Promises : pThread'[q] = "unborn" <=> q > Len(w)
      BY <1>1, <2>3, <3>1 DEF Lined
    <3>4. \A q \in 1..Len(w) : pAnswer'[q] = "none" => w[q] \in pLive'
      BY <2>3, <2>4, <2>5, <2>7, <3>2 DEF Lined
    <3> QED BY <1>1, <2>3, <3>2, <3>3, <3>4 DEF Lined
  <2> QED BY <1>1, <2>3, <2>7, <2>8 DEF Promised
<1> QED BY <1>4, <1>5 DEF PromiseIInv

\* Every step keeps the invariant.
LEMMA PromiseNext == PromiseIInv /\ [Promise!Next]_Promise!vars => PromiseIInv'
<1> SUFFICES ASSUME PromiseIInv, [Promise!Next]_Promise!vars PROVE PromiseIInv'
  OBVIOUS
<1>1. CASE UNCHANGED Promise!vars
  BY <1>1 DEF Promise!vars, Promise!heap, PromiseIInv, Promise!TypeOK, Promised, Promise!Numbers
<1>2. ASSUME NEW p \in Promise!Numbers, Promise!ThreadEnds(p), ~pCrashed PROVE PromiseIInv'
  <2>1. /\ pThread[p] = "running" /\ pThread' = [pThread EXCEPT ![p] = "finished"]
        /\ UNCHANGED <<pNext, pLive, pHead, pTemp, pHandle, pAnswer, pCrashed, pOvertaken,
             pReused>>
    BY <1>2 DEF Promise!ThreadEnds, Promise!heap
  <2>2. Promise!TypeOK
    BY DEF PromiseIInv
  <2>3. pThread' \in [Promise!Numbers -> {"unborn", "running", "finished", "joined"}]
    BY <2>1, <2>2 DEF Promise!TypeOK
  <2>4. Promise!TypeOK'
    BY <2>1, <2>2, <2>3 DEF Promise!TypeOK, Promise!Numbers
  <2>5. \A q \in 1..Promises : pThread'[q] = "unborn" <=> pThread[q] = "unborn"
    BY <2>1, <2>2 DEF Promise!TypeOK, Promise!Numbers
  <2>6. ASSUME NEW w, Promised(w) PROVE Promised(w)'
    BY <2>1, <2>5, <2>6 DEF Promised, Lined
  <2> QED BY <2>1, <2>4, <2>6 DEF PromiseIInv
<1>3. ASSUME Promise!Next PROVE PromiseIInv'
  <2>1. ~pCrashed /\ \E p \in Promise!Numbers :
          \/ Promise!Async(p) \/ Promise!ThreadEnds(p) \/ Promise!AwaitJoinsIt(p)
          \/ Promise!AwaitMisses(p) \/ Promise!AwaitStumbles(p)
    BY <1>3 DEF Promise!Next
  <2>2. PICK p \in Promise!Numbers :
          \/ Promise!Async(p) \/ Promise!ThreadEnds(p) \/ Promise!AwaitJoinsIt(p)
          \/ Promise!AwaitMisses(p) \/ Promise!AwaitStumbles(p)
    BY <2>1
  <2>3. CASE Promise!Async(p)
    BY <2>1, <2>3, AsyncIInv
  <2>4. CASE Promise!ThreadEnds(p)
    BY <1>2, <2>1, <2>4
  <2>5. CASE Promise!AwaitJoinsIt(p) \/ Promise!AwaitMisses(p) \/ Promise!AwaitStumbles(p)
    BY <2>1, <2>5, AwaitIInv
  <2> QED BY <2>2, <2>3, <2>4, <2>5
<1> QED BY <1>1, <1>3

\* What the invariant is for.
LEMMA PromisesJoin == PromiseIInv => Promise!AwaitJoins
<1> SUFFICES ASSUME PromiseIInv, ~pOvertaken, ~pReused
             PROVE  ~pCrashed /\ \A p \in 1..Promises : pAnswer[p] # "missing"
  BY DEF Promise!AwaitJoins, Promise!Numbers
<1>1. ~pCrashed /\ \E w : Promised(w)
  BY DEF PromiseIInv
<1> QED BY <1>1 DEF Promised, Lined

----------------------------------------------------------------------------
(* process.h: the table of processes.  t... are the variables of Process.  *)
tNext == s1
tPid == s2
tName == s3
tLive == s4
tHead == s5
tTail == s6
tProc == s7
tOurs == s8
tCrashed == s9
tDoing == s10
tV == s11
tImage == s12
tStale == s13
tShot == s14
tMissed == s15
tAlone == s16
tGone == s17
tUpdated == s18
tTarget == s19
USE DEF tNext, tPid, tName, tLive, tHead, tTail, tProc, tOurs, tCrashed, tDoing, tV, tImage,
  tStale, tShot, tMissed, tAlone, tGone, tUpdated, tTarget

\* The nodes are allocated and hold different processes, those that were born and not
\* taken out; a node whose process is somebody else's or waited for has a stale name.
Whole(w, pid, name, live, tail, proc, ours, gone, stale) ==
  /\ \A i \in 1..Len(w) : w[i] \in live /\ pid[w[i]] \in Pids
  /\ tail = IF Len(w) = 0 THEN NULL ELSE w[Len(w)]
  /\ \A i, j \in 1..Len(w) : pid[w[i]] = pid[w[j]] => i = j
  /\ \A p \in Pids : proc[p] # "unborn" /\ p \notin gone <=> \E i \in 1..Len(w) : pid[w[i]] = p
  /\ \A p \in gone : proc[p] # "unborn"
  /\ \A i \in 1..Len(w) :
       pid[w[i]] \notin ours \/ proc[pid[w[i]]] = "reaped" => name[w[i]] \in stale

\* After fork failed with no entry: the freed one, and nobody to signal.
Forkless(w, pid, live, tail, proc, gone) ==
  /\ Len(w) = 1 /\ w[1] \notin live /\ pid[w[1]] = 0 /\ tail = NULL
  /\ \A p \in Pids : proc[p] # "unborn" <=> p \in gone

\* shutdown_dead is at a node of the list, and has waited for those before.
Visiting(w, v, pid, proc, ours) ==
  \E k \in 1..Len(w) :
    v = w[k] /\ \A j \in 1..(k - 1) : pid[w[j]] \in ours => proc[pid[w[j]]] = "reaped"

\* update is at a node of the list, the k-th, and has written those before: f.
Line == (Pids \cup {0}) \X (Names \cup {Junk})
Lines == Seq(Line)

\* The file f has the lines of the nodes before the k-th, and the front of its own.
Imaged(f, w, k, pid, name, doing, target) ==
  /\ f \in Lines
  /\ Len(target) = Len(w)
  /\ \A i \in 1..Len(w) : target[i] = <<pid[w[i]], name[w[i]]>>
  /\ Len(f) = IF doing = "update_pid" THEN k - 1 ELSE k
  /\ \A j \in 1..(k - 1) : f[j] = target[j]
  /\ doing = "update_name" => f[k] = <<pid[w[k]], Junk>>

Writing(w, v, pid, name, doing, image, target) ==
  \E k \in 1..Len(w) : /\ v = w[k]
                       /\ \E f : image = {f} /\ Imaged(f, w, k, pid, name, doing, target)

\* The call update is on its way.
Updating(doing) == doing \in {"update_pid", "update_name"}

\* The list of the processes, and where a call that visits it is.
Table(w) ==
  /\ IsChain(w, tHead, tNext)
  /\ \/ Whole(w, tPid, tName, tLive, tTail, tProc, tOurs, tGone, tStale)
     \/ Forkless(w, tPid, tLive, tTail, tProc, tGone)
  /\ tDoing = "shutdown_dead" => Visiting(w, tV, tPid, tProc, tOurs)
  /\ Updating(tDoing) => Writing(w, tV, tPid, tName, tDoing, tImage, tTarget)

\* What does not depend on the list.
Aimed ==
  /\ tShot = {} /\ tMissed \subseteq tStale
  /\ tTarget \in Lines
  /\ ~Updating(tDoing) /\ tUpdated => tImage = {tTarget}
  /\ Updating(tDoing) => tUpdated
  /\ tCrashed \/ tAlone => tDoing = "nothing"

\* There is such a list, but for a shutdown of a single entry, which leaves its tail.
Tabled ==
  IF tAlone THEN tHead = NULL /\ tTail # NULL ELSE \E w : Table(w)

\* The inductive invariant.
TableIInv == Process!TypeOK /\ Aimed /\ (~tCrashed => Tabled)

\* The nodes of the list are the ones the calls visit.
LEMMA ProcessWay == ASSUME NEW w, IsChain(w, tHead, tNext) PROVE Process!Way = w
  BY ProcessWalk, WalkIsChain DEF Process!Way

LEMMA ProcessNodes ==
  ASSUME NEW w, IsChain(w, tHead, tNext)
  PROVE  Process!Nodes = {w[k] : k \in 1..Len(w)}
         /\ Process!Listed = {tPid[w[k]] : k \in 1..Len(w)}
<1>1. Process!Walk(tHead, tNext) = w
  BY ProcessWalk, WalkIsChain
<1>2. DOMAIN w = 1..Len(w)
  BY DEF IsChain, Linking
<1>3. Process!Nodes = {w[k] : k \in 1..Len(w)}
  BY <1>1, <1>2 DEF Process!Nodes, Process!OnWalk
<1>4. Process!Listed = {tPid[a] : a \in {w[k] : k \in 1..Len(w)}}
  BY <1>3 DEF Process!Listed
<1> QED BY <1>3, <1>4

\* There is a list as long as the next call may come.
LEMMA TableIsList ==
  ASSUME Aimed, ~tCrashed => Tabled, ~tCrashed
  PROVE  \E w : IsChain(w, tHead, tNext) /\ (~tAlone => Table(w))
<1>1. CASE tAlone
  BY <1>1, NoNodes DEF Tabled
<1>2. CASE ~tAlone
  BY <1>2 DEF Tabled, Table
<1> QED BY <1>1, <1>2

\* The loop that looks for a name finds the first entry with it.
LEMMA EntryFound ==
  ASSUME NEW w, IsChain(w, tHead, tNext), NEW s
  PROVE  IF \E i \in 1..Len(w) : tName[w[i]] = s
         THEN /\ Process!EntryOf(s) \in 1..Len(w)
              /\ tName[w[Process!EntryOf(s)]] = s
              /\ \A j \in 1..(Process!EntryOf(s) - 1) : tName[w[j]] # s
         ELSE Process!EntryOf(s) = 0
<1> DEFINE v == Process!Way
           S == {i \in 1..Len(v) : tName[v[i]] = s}
<1>1. v = w
  BY ProcessWay
<1>2. Process!EntryOf(s) =
        IF \E i \in DOMAIN v : tName[v[i]] = s
        THEN CHOOSE i \in DOMAIN v : tName[v[i]] = s /\ \A j \in 1..(i - 1) : ~(tName[v[j]] = s)
        ELSE 0
  BY DEF Process!EntryOf, Process!PlaceOf
<1> HIDE DEF v
<1>3. Len(v) \in Nat /\ DOMAIN v = 1..Len(v)
  BY <1>1 DEF IsChain, Linking
<1>4. CASE S # {}
  <2>1. PICK i \in S : \A j \in 1..(i - 1) : j \notin S
    BY <1>3, <1>4, FirstOf
  <2>2. \A j \in 1..(i - 1) : j \in 1..Len(v)
    BY <1>3, <2>1
  <2>3. \E k \in DOMAIN v : tName[v[k]] = s /\ \A j \in 1..(k - 1) : ~(tName[v[j]] = s)
    BY <1>3, <2>1, <2>2
  <2> QED BY <1>1, <1>2, <1>3, <2>3
<1>5. CASE S = {}
  BY <1>1, <1>2, <1>3, <1>5
<1> QED BY <1>4, <1>5

\* Where the nodes of the shorter list were in the longer one.
Places(place, u, w, i) ==
  /\ place \in [1..Len(u) -> 1..Len(w)]
  /\ \A k \in 1..Len(u) : /\ place[k] = IF k < i THEN k ELSE k + 1
                          /\ place[k] # i /\ u[k] = w[place[k]]
  /\ \A j, k \in 1..Len(u) : place[j] = place[k] => j = k
  /\ \A k \in 1..Len(w) : k # i => \E j \in 1..Len(u) : place[j] = k

\* They are there: what precedes i stays, the others were one further.
LEMMA OldPlaces ==
  ASSUME NEW w, w \in Seq(Addr), NEW i \in 1..Len(w), NEW u, Shorter(u, w, i)
  PROVE  \E place : Places(place, u, w, i)
<1>1. Len(w) \in Nat /\ Len(u) = Len(w) - 1 /\ Len(u) \in Nat
      /\ \A k \in 1..(Len(w) - 1) : u[k] = IF k < i THEN w[k] ELSE w[k + 1]
  BY DEF Shorter
<1> DEFINE place == [k \in 1..Len(u) |-> IF k < i THEN k ELSE k + 1]
<1>2. \A k \in 1..Len(u) : place[k] \in 1..Len(w) /\ place[k] = IF k < i THEN k ELSE k + 1
  BY <1>1
<1>3. place \in [1..Len(u) -> 1..Len(w)]
  BY <1>2
<1> HIDE DEF place
<1>4. \A k \in 1..Len(u) : place[k] # i /\ u[k] = w[place[k]]
  BY <1>1, <1>2
<1>5. \A j, k \in 1..Len(u) : place[j] = place[k] => j = k
  BY <1>1, <1>2
<1>6. ASSUME NEW k \in 1..Len(w), k # i PROVE \E j \in 1..Len(u) : place[j] = k
  <2>1. CASE k < i
    <3>1. k \in 1..Len(u) /\ place[k] = k
      BY <1>1, <1>2, <2>1
    <3> QED BY <3>1
  <2>2. CASE k > i
    <3>1. k - 1 \in 1..Len(u) /\ ~(k - 1 < i) /\ (k - 1) + 1 = k
      BY <1>1, <2>2
    <3>2. place[k - 1] = k
      BY <1>2, <3>1
    <3> QED BY <3>1, <3>2
  <2> QED BY <1>1, <1>6, <2>1, <2>2
<1>7. Places(place, u, w, i)
  BY <1>2, <1>3, <1>4, <1>5, <1>6 DEF Places
<1> QED BY <1>7

\* The i-th entry of w was taken out, which left u, and its process signalled.
Killed(i, w, u, state) ==
  /\ Process!Killable(tPid[w[i]], state)
  /\ Shorter(u, w, i)
  /\ tTail' = IF i # Len(w) THEN tTail ELSE IF i = 1 THEN NULL ELSE w[i - 1]
  /\ tLive' = tLive \ {w[i]}
  /\ tName' = [tName EXCEPT ![w[i]] = Junk]
  /\ tPid' = [tPid EXCEPT ![w[i]] = 0]
  /\ tProc' = Process!Signalled({tPid[w[i]]}, state)
  /\ tGone' = tGone \cup {tPid[w[i]]}

\* The loop of process_kill: it takes out the first entry with the name, or nothing.
LEMMA TriedOnce ==
  ASSUME Process!TypeOK, NEW w, IsChain(w, tHead, tNext), NEW s, NEW state,
         Process!EntryOf(s) # 0, Process!Tried(s, state)
  PROVE  /\ Process!EntryOf(s) \in 1..Len(w) /\ Process!Way = w
         /\ tName[w[Process!EntryOf(s)]] = s
         /\ \A j \in 1..(Process!EntryOf(s) - 1) : tName[w[j]] # s
         /\ tNext' \in [Addr -> Addr \cup {NULL}] /\ tHead' \in Addr \cup {NULL}
         /\ \/ \E u : IsChain(u, tHead', tNext') /\ Killed(Process!EntryOf(s), w, u, state)
            \/ /\ ~Process!Killable(tPid[w[Process!EntryOf(s)]], state)
               /\ tProc' = state
               /\ UNCHANGED <<tNext, tPid, tName, tLive, tHead, tTail, tGone>>
<1> DEFINE i == Process!EntryOf(s)
<1>1. /\ i \in 1..Len(w) /\ tName[w[i]] = s
      /\ \A j \in 1..(i - 1) : tName[w[j]] # s
  BY EntryFound
<1>2. Process!Way = w
  BY ProcessWay
<1>3. IF Process!Killable(tPid[w[i]], state)
      THEN /\ Process!Unlinked(w[i], Process!Before(w, i))
           /\ tProc' = Process!Signalled({tPid[w[i]]}, state)
           /\ tGone' = tGone \cup {tPid[w[i]]}
      ELSE tProc' = state /\ UNCHANGED <<tNext, tPid, tName, tLive, tHead, tTail, tGone>>
  BY <1>2 DEF Process!Tried, Process!heap
<1> HIDE DEF i
<1>4. /\ w \in Seq(Addr) /\ Len(w) \in Nat /\ \A j \in 1..Len(w) : w[j] \in Addr
      /\ \A j, k \in 1..Len(w) : w[j] = w[k] => j = k
      /\ \A j \in 1..Len(w) : tNext[w[j]] = IF j = Len(w) THEN NULL ELSE w[j + 1]
  BY DEF IsChain, Linking
<1>5. tNext \in [Addr -> Addr \cup {NULL}] /\ tHead \in Addr \cup {NULL}
  BY DEF Process!TypeOK
<1>6. CASE ~Process!Killable(tPid[w[i]], state)
  BY <1>1, <1>2, <1>3, <1>5, <1>6 DEF i
<1>7. CASE Process!Killable(tPid[w[i]], state)
  <2>1. Process!Before(w, i) = IF i = 1 THEN NULL ELSE w[i - 1]
    BY DEF Process!Before
  <2>2. /\ IF Process!Before(w, i) = NULL
           THEN tHead' = tNext[w[i]] /\ UNCHANGED tNext
           ELSE tNext' = [tNext EXCEPT ![Process!Before(w, i)] = tNext[w[i]]] /\ UNCHANGED tHead
        /\ tTail' = IF tNext[w[i]] = NULL THEN Process!Before(w, i) ELSE tTail
        /\ tLive' = tLive \ {w[i]}
        /\ tName' = [tName EXCEPT ![w[i]] = Junk]
        /\ tPid' = [tPid EXCEPT ![w[i]] = 0]
    BY <1>3, <1>7 DEF Process!Unlinked
  <2>3. i # 1 => i - 1 \in 1..Len(w) /\ w[i - 1] \in Addr /\ w[i - 1] # NULL
    BY <1>1, <1>4, NullIsNoAddress
  <2>4. IF i = 1 THEN tHead' = tNext[w[i]] /\ UNCHANGED tNext
        ELSE tNext' = [tNext EXCEPT ![w[i - 1]] = tNext[w[i]]] /\ UNCHANGED tHead
    BY <2>1, <2>2, <2>3
  <2>5. tNext[w[i]] = NULL <=> i = Len(w)
    <3>1. i # Len(w) => i + 1 \in 1..Len(w)
      BY <1>1, <1>4
    <3> QED BY <1>1, <1>4, <3>1, NullIsNoAddress
  <2>6. tTail' = IF i # Len(w) THEN tTail ELSE IF i = 1 THEN NULL ELSE w[i - 1]
    BY <2>1, <2>2, <2>5
  <2>7. TakenOut(i, w, tNext, tNext')
    <3>1. CASE i = 1
      <4>1. tNext' = tNext
        BY <2>4, <3>1
      <4> QED BY <1>1, <3>1, <4>1 DEF TakenOut
    <3>2. CASE i # 1
      <4>1. \A k \in 1..Len(w) : k # i - 1 => w[k] # w[i - 1]
        BY <1>4, <2>3, <3>2
      <4>2. tNext' = [tNext EXCEPT ![w[i - 1]] = tNext[w[i]]]
        BY <2>4, <3>2
      <4>3. tNext'[w[i - 1]] = tNext[w[i]]
        BY <1>5, <2>3, <3>2, <4>2
      <4>4. \A k \in 1..Len(w) : k # i - 1 => tNext'[w[k]] = tNext[w[k]]
        BY <1>4, <1>5, <4>1, <4>2
      <4> QED BY <1>1, <4>3, <4>4 DEF TakenOut
    <3> QED BY <3>1, <3>2
  <2>8. PICK u : IsChain(u, IF i = 1 THEN tNext[w[i]] ELSE tHead, tNext') /\ Shorter(u, w, i)
    BY <2>7, NodeTakenOut
  <2>9. IsChain(u, tHead', tNext')
    <3>1. tHead' = IF i = 1 THEN tNext[w[i]] ELSE tHead
      BY <2>4
    <3> QED BY <2>8, <3>1
  <2>10. Killed(i, w, u, state)
    BY <1>3, <1>7, <2>2, <2>6, <2>8 DEF Killed
  <2>11. tNext' \in [Addr -> Addr \cup {NULL}] /\ tHead' \in Addr \cup {NULL}
    <3>1. tNext[w[i]] \in Addr \cup {NULL}
      BY <1>1, <1>4, <1>5
    <3> QED BY <1>5, <2>3, <2>4, <3>1
  <2> QED BY <1>1, <1>2, <2>9, <2>10, <2>11 DEF i
<1> QED BY <1>6, <1>7

\* States is what the processes may be in.
States == [Pids -> {"unborn", "running", "zombie", "reaped"}]

\* An entry that was taken out leaves the types as they are,
LEMMA KilledTypes ==
  ASSUME Process!TypeOK, NEW w, w \in Seq(Addr), NEW i \in 1..Len(w), NEW u, NEW state \in States,
         Killed(i, w, u, state)
  PROVE  /\ tPid' \in [Addr -> Pids \cup {0}] /\ tName' \in [Addr -> Names \cup {Junk}]
         /\ tLive' \subseteq Addr /\ tTail' \in Addr \cup {NULL}
         /\ tProc' \in States /\ tGone' \subseteq Pids
<1>1. /\ tPid \in [Addr -> Pids \cup {0}] /\ tName \in [Addr -> Names \cup {Junk}]
      /\ tLive \subseteq Addr /\ tTail \in Addr \cup {NULL} /\ tGone \subseteq Pids
  BY DEF Process!TypeOK
<1>2. Len(w) \in Nat /\ \A j \in 1..Len(w) : w[j] \in Addr
  OBVIOUS
<1>3. tPid' \in [Addr -> Pids \cup {0}] /\ tName' \in [Addr -> Names \cup {Junk}]
  BY <1>1, <1>2 DEF Killed
<1>4. tTail' \in Addr \cup {NULL}
  <2>1. i # 1 => i - 1 \in 1..Len(w)
    BY <1>2
  <2> QED BY <1>1, <1>2, <2>1 DEF Killed
<1>5. tProc' \in States
  BY DEF Killed, Process!Signalled, States
<1>6. tGone' \subseteq Pids /\ tLive' \subseteq Addr
  BY <1>1 DEF Killed, Process!Killable
<1> QED BY <1>3, <1>4, <1>5, <1>6

\* and the other entries whole, without the process that was in it.
LEMMA KilledWhole ==
  ASSUME Process!TypeOK, NEW w, w \in Seq(Addr), \A j, k \in 1..Len(w) : w[j] = w[k] => j = k,
         NEW i \in 1..Len(w), NEW u, NEW state \in States, NEW stale,
         Whole(w, tPid, tName, tLive, tTail, state, tOurs, tGone, stale),
         Killed(i, w, u, state)
  PROVE  Whole(u, tPid', tName', tLive', tTail', tProc', tOurs, tGone', stale)
<1> DEFINE p == tPid[w[i]]
<1>1. Shorter(u, w, i)
  BY DEF Killed
<1>2. /\ tPid \in [Addr -> Pids \cup {0}] /\ tName \in [Addr -> Names \cup {Junk}]
  BY DEF Process!TypeOK
<1>3. \A k \in 1..Len(w) : w[k] \in Addr
  OBVIOUS
<1>4. /\ Shorter(u, w, i)
      /\ tTail' = IF i # Len(w) THEN tTail ELSE IF i = 1 THEN NULL ELSE w[i - 1]
      /\ tLive' = tLive \ {w[i]}
      /\ tName' = [tName EXCEPT ![w[i]] = Junk]
      /\ tPid' = [tPid EXCEPT ![w[i]] = 0]
      /\ tProc' = Process!Signalled({p}, state)
      /\ tGone' = tGone \cup {p}
      /\ p \in Pids /\ state[p] \in {"running", "zombie"}
  BY DEF Killed, Process!Killable
<1>5. PICK place : Places(place, u, w, i)
  BY <1>1, OldPlaces
<1>6. /\ \A k \in 1..Len(u) : place[k] \in 1..Len(w)
      /\ \A k \in 1..Len(u) : /\ place[k] = IF k < i THEN k ELSE k + 1
                              /\ place[k] # i /\ u[k] = w[place[k]]
      /\ \A j, k \in 1..Len(u) : place[j] = place[k] => j = k
      /\ \A k \in 1..Len(w) : k # i => \E j \in 1..Len(u) : place[j] = k
  BY <1>5 DEF Places
<1>7. /\ \A k \in 1..Len(w) : w[k] \in tLive /\ tPid[w[k]] \in Pids
      /\ tTail = IF Len(w) = 0 THEN NULL ELSE w[Len(w)]
      /\ \A j, k \in 1..Len(w) : tPid[w[j]] = tPid[w[k]] => j = k
      /\ \A q \in Pids : state[q] # "unborn" /\ q \notin tGone
           <=> \E k \in 1..Len(w) : tPid[w[k]] = q
      /\ \A q \in tGone : state[q] # "unborn"
      /\ \A k \in 1..Len(w) :
           tPid[w[k]] \notin tOurs \/ state[tPid[w[k]]] = "reaped" => tName[w[k]] \in stale
  BY DEF Whole
<1>8. \A q \in Pids : tProc'[q] = IF q = p /\ state[q] = "running" THEN "zombie" ELSE state[q]
  BY <1>4 DEF Process!Signalled
<1>9. ASSUME NEW k \in 1..Len(u)
      PROVE  /\ place[k] \in 1..Len(w) /\ place[k] # i /\ w[place[k]] # w[i] /\ u[k] = w[place[k]]
             /\ tPid'[u[k]] = tPid[w[place[k]]] /\ tName'[u[k]] = tName[w[place[k]]]
             /\ tPid[w[place[k]]] # p
  <2>1. place[k] \in 1..Len(w) /\ place[k] # i /\ u[k] = w[place[k]]
    BY <1>6
  <2>2. w[place[k]] # w[i] /\ tPid[w[place[k]]] # p
    BY <1>7, <2>1
  <2>3. w[place[k]] \in Addr
    BY <1>3, <2>1
  <2>4. tPid'[w[place[k]]] = tPid[w[place[k]]] /\ tName'[w[place[k]]] = tName[w[place[k]]]
    BY <1>2, <1>4, <2>2, <2>3
  <2> QED BY <2>1, <2>2, <2>4
<1> HIDE DEF p
<1>10. \A k \in 1..Len(u) : u[k] \in tLive' /\ tPid'[u[k]] \in Pids
  BY <1>4, <1>7, <1>9
<1>11. tTail' = IF Len(u) = 0 THEN NULL ELSE u[Len(u)]
  <2>1. Len(w) \in Nat /\ Len(u) = Len(w) - 1 /\ Len(u) \in Nat
    BY <1>4 DEF Shorter
  <2>2. CASE Len(u) = 0
    <3>1. Len(w) = 1
      BY <2>1, <2>2
    <3>2. i = 1 /\ i = Len(w)
      BY <3>1
    <3> QED BY <1>4, <2>2, <3>2
  <2>3. CASE Len(u) # 0 /\ i = Len(w)
    <3>1. i # 1 /\ i - 1 = Len(u) /\ Len(u) \in 1..Len(u) /\ i - 1 < i
      BY <2>1, <2>3
    <3>2. u[Len(u)] = w[i - 1]
      BY <1>6, <3>1
    <3> QED BY <1>4, <2>3, <3>1, <3>2
  <2>4. CASE Len(u) # 0 /\ i # Len(w)
    <3>1. ~(Len(u) < i) /\ Len(u) + 1 = Len(w) /\ Len(u) \in 1..Len(u) /\ Len(w) # 0
      BY <2>1, <2>4
    <3>2. u[Len(u)] = w[Len(w)]
      BY <1>6, <3>1
    <3> QED BY <1>4, <1>7, <2>4, <3>1, <3>2
  <2> QED BY <2>2, <2>3, <2>4
<1>12. \A j, k \in 1..Len(u) : tPid'[u[j]] = tPid'[u[k]] => j = k
  <2> SUFFICES ASSUME NEW j \in 1..Len(u), NEW k \in 1..Len(u), tPid'[u[j]] = tPid'[u[k]]
               PROVE  j = k
    OBVIOUS
  <2>1. /\ place[j] \in 1..Len(w) /\ place[k] \in 1..Len(w)
        /\ tPid[w[place[j]]] = tPid[w[place[k]]]
    BY <1>9
  <2>2. place[j] = place[k]
    BY <1>7, <2>1
  <2> QED BY <1>6, <2>2
<1>13. ASSUME NEW q \in Pids
       PROVE  tProc'[q] # "unborn" /\ q \notin tGone' <=> \E k \in 1..Len(u) : tPid'[u[k]] = q
  <2>1. tProc'[q] # "unborn" <=> state[q] # "unborn"
    BY <1>8
  <2>2. q \notin tGone' <=> q \notin tGone /\ q # p
    BY <1>4
  <2>3. (\E k \in 1..Len(u) : tPid'[u[k]] = q) <=> q # p /\ \E k \in 1..Len(w) : tPid[w[k]] = q
    <3>1. ASSUME NEW k \in 1..Len(u), tPid'[u[k]] = q
          PROVE  q # p /\ \E j \in 1..Len(w) : tPid[w[j]] = q
      BY <1>9, <3>1
    <3>2. ASSUME q # p, NEW j \in 1..Len(w), tPid[w[j]] = q
          PROVE  \E k \in 1..Len(u) : tPid'[u[k]] = q
      <4>1. j # i
        BY <3>2 DEF p
      <4>2. PICK k \in 1..Len(u) : place[k] = j
        BY <1>6, <4>1
      <4>3. tPid'[u[k]] = q
        BY <1>9, <3>2, <4>2
      <4> QED BY <4>3
    <3> QED BY <3>1, <3>2
  <2> QED BY <1>7, <2>1, <2>2, <2>3
<1>14. \A q \in tGone' : tProc'[q] # "unborn"
  BY <1>4, <1>7, <1>8 DEF Process!TypeOK
<1>15. ASSUME NEW k \in 1..Len(u), tPid'[u[k]] \notin tOurs \/ tProc'[tPid'[u[k]]] = "reaped"
       PROVE  tName'[u[k]] \in stale
  <2>1. /\ place[k] \in 1..Len(w) /\ tPid'[u[k]] = tPid[w[place[k]]]
        /\ tName'[u[k]] = tName[w[place[k]]] /\ tPid[w[place[k]]] # p
    BY <1>9
  <2>2. tPid[w[place[k]]] \in Pids
    BY <1>7, <2>1
  <2>3. tPid[w[place[k]]] \notin tOurs \/ state[tPid[w[place[k]]]] = "reaped"
    BY <1>8, <1>15, <2>1, <2>2
  <2> QED BY <1>7, <2>1, <2>3
<1> QED BY <1>10, <1>11, <1>12, <1>13, <1>14, <1>15 DEF Whole

\* Waiting for processes of the table, whose names are stale then.
Waited(w, ps, pid, name, stale, after) ==
  /\ stale \subseteq after
  /\ \A p \in ps \cap Pids : \E i \in 1..Len(w) : pid[w[i]] = p
  /\ \A i \in 1..Len(w) : pid[w[i]] \in ps => name[w[i]] \in after

\* What is waited for is reaped, when it is a child, and nothing else.
LEMMA ReapedTable ==
  ASSUME Process!TypeOK, NEW w, NEW ps, NEW stale, Waited(w, ps, tPid, tName, tStale, stale)
  PROVE  /\ Process!Reaped(ps) \in States
         /\ \A p \in Pids : Process!Reaped(ps)[p] = IF p \in ps /\ p \in tOurs
              THEN "reaped" ELSE tProc[p]
         /\ Whole(w, tPid, tName, tLive, tTail, tProc, tOurs, tGone, tStale)
            => Whole(w, tPid, tName, tLive, tTail, Process!Reaped(ps), tOurs, tGone, stale)
         /\ Forkless(w, tPid, tLive, tTail, tProc, tGone)
            => Forkless(w, tPid, tLive, tTail, Process!Reaped(ps), tGone)
<1> DEFINE state == Process!Reaped(ps)
<1>1. tProc \in States
  BY DEF Process!TypeOK, States
<1>2. /\ tStale \subseteq stale
      /\ \A p \in ps \cap Pids : \E i \in 1..Len(w) : tPid[w[i]] = p
      /\ \A i \in 1..Len(w) : tPid[w[i]] \in ps => tName[w[i]] \in stale
  BY DEF Waited
<1>3. state \in States
  BY <1>1 DEF Process!Reaped, States
<1>4. \A p \in Pids : state[p] = IF p \in ps /\ p \in tOurs THEN "reaped" ELSE tProc[p]
  BY DEF Process!Reaped
<1> HIDE DEF state
<1>5. ASSUME Whole(w, tPid, tName, tLive, tTail, tProc, tOurs, tGone, tStale)
      PROVE  Whole(w, tPid, tName, tLive, tTail, state, tOurs, tGone, stale)
  <2>1. /\ \A q \in Pids : tProc[q] # "unborn" /\ q \notin tGone
             <=> \E k \in 1..Len(w) : tPid[w[k]] = q
        /\ \A q \in tGone : tProc[q] # "unborn"
        /\ \A k \in 1..Len(w) : tPid[w[k]] \in Pids
        /\ \A k \in 1..Len(w) :
             tPid[w[k]] \notin tOurs \/ tProc[tPid[w[k]]] = "reaped" => tName[w[k]] \in tStale
    BY <1>5 DEF Whole
  <2>2. \A q \in Pids : state[q] # "unborn" <=> tProc[q] # "unborn"
    BY <1>2, <1>4, <2>1
  <2>3. \A q \in tGone : state[q] # "unborn"
    BY <2>1, <2>2 DEF Process!TypeOK
  <2>4. \A k \in 1..Len(w) :
          tPid[w[k]] \notin tOurs \/ state[tPid[w[k]]] = "reaped" => tName[w[k]] \in stale
    BY <1>2, <1>4, <2>1
  <2> QED BY <1>5, <2>1, <2>2, <2>3, <2>4 DEF Whole
<1>6. ASSUME Forkless(w, tPid, tLive, tTail, tProc, tGone)
      PROVE  Forkless(w, tPid, tLive, tTail, state, tGone)
  <2>1. 0 \notin Pids
    BY PidsArePositive
  <2>2. \A p \in Pids : p \notin ps
    <3>1. \A i \in 1..Len(w) : i = 1
      BY <1>6 DEF Forkless
    <3> QED BY <1>2, <1>6, <2>1, <3>1 DEF Forkless
  <2> QED BY <1>4, <1>6, <2>2 DEF Forkless
<1> QED BY <1>3, <1>4, <1>5, <1>6 DEF state

\* At the start the list is empty.
LEMMA TableInit == Process!Init => TableIInv
<1> SUFFICES ASSUME Process!Init PROVE TableIInv
  OBVIOUS
<1>1. Process!TypeOK
  BY DEF Process!Init, Process!TypeOK
<1>2. Aimed
  BY DEF Process!Init, Aimed, Updating, Lines
<1>3. IsChain(<<>>, tHead, tNext)
  BY NoNodes DEF Process!Init
<1>4. Whole(<<>>, tPid, tName, tLive, tTail, tProc, tOurs, tGone, tStale)
  BY DEF Process!Init, Whole
<1>5. Table(<<>>)
  BY <1>3, <1>4 DEF Table, Process!Init, Updating
<1> QED BY <1>1, <1>2, <1>5 DEF TableIInv, Tabled, Process!Init

\* A process ends, or is waited for by its parent, who is somebody else.
LEMMA ExitsIInv ==
  ASSUME TableIInv, ~tCrashed, NEW p \in Pids, Process!Exits(p) \/ Process!IsReaped(p)
  PROVE  TableIInv'
<1>1. PICK x \in {"zombie", "reaped"} :
        /\ tProc' = [tProc EXCEPT ![p] = x]
        /\ tProc[p] \in {"running", "zombie"}
        /\ x = "reaped" => p \notin tOurs
  BY DEF Process!Exits, Process!IsReaped
<1>2. UNCHANGED <<tNext, tPid, tName, tLive, tHead, tTail, tOurs, tCrashed, tDoing, tV, tImage,
                  tStale, tShot, tMissed, tAlone, tGone, tUpdated, tTarget>>
  BY DEF Process!Exits, Process!IsReaped, Process!heap, Process!file, Process!past
<1>3. Process!TypeOK /\ Aimed /\ Tabled
  BY DEF TableIInv
<1>4. \A q \in Pids : tProc'[q] = IF q = p THEN x ELSE tProc[q]
  BY <1>1, <1>3 DEF Process!TypeOK
<1>5. Process!TypeOK'
  <2>1. tProc' \in [Pids -> {"unborn", "running", "zombie", "reaped"}]
    BY <1>1, <1>3 DEF Process!TypeOK
  <2> QED BY <1>2, <1>3, <2>1 DEF Process!TypeOK
<1>6. Aimed'
  BY <1>2, <1>3 DEF Aimed
<1>7. ASSUME NEW w, Table(w) PROVE Table(w)'
  <2>1. ASSUME Whole(w, tPid, tName, tLive, tTail, tProc, tOurs, tGone, tStale)
        PROVE  Whole(w, tPid, tName, tLive, tTail, tProc', tOurs, tGone, tStale)
    <3>1. /\ \A q \in Pids : tProc[q] # "unborn" /\ q \notin tGone
               <=> \E k \in 1..Len(w) : tPid[w[k]] = q
          /\ \A q \in tGone : tProc[q] # "unborn"
          /\ \A k \in 1..Len(w) : tPid[w[k]] \in Pids
          /\ \A k \in 1..Len(w) :
               tPid[w[k]] \notin tOurs \/ tProc[tPid[w[k]]] = "reaped" => tName[w[k]] \in tStale
      BY <2>1 DEF Whole
    <3>2. \A q \in Pids : tProc'[q] # "unborn" <=> tProc[q] # "unborn"
      BY <1>1, <1>4
    <3>3. \A q \in tGone : tProc'[q] # "unborn"
      BY <1>3, <3>1, <3>2 DEF Process!TypeOK
    <3>4. \A k \in 1..Len(w) :
            tPid[w[k]] \notin tOurs \/ tProc'[tPid[w[k]]] = "reaped" => tName[w[k]] \in tStale
      BY <1>1, <1>4, <3>1
    <3> QED BY <2>1, <3>1, <3>2, <3>3, <3>4 DEF Whole
  <2>2. ASSUME Forkless(w, tPid, tLive, tTail, tProc, tGone)
        PROVE  Forkless(w, tPid, tLive, tTail, tProc', tGone)
    BY <1>1, <1>4, <2>2 DEF Forkless
  <2>3. ASSUME Visiting(w, tV, tPid, tProc, tOurs) PROVE Visiting(w, tV, tPid, tProc', tOurs)
    <3>1. \A q \in tOurs : tProc[q] = "reaped" => tProc'[q] = "reaped"
      BY <1>1, <1>3, <1>4 DEF Process!TypeOK
    <3> QED BY <2>3, <3>1 DEF Visiting
  <2> QED BY <1>2, <1>7, <2>1, <2>2, <2>3 DEF Table
<1>8. Tabled'
  BY <1>2, <1>3, <1>7 DEF Tabled
<1> QED BY <1>5, <1>6, <1>8 DEF TableIInv

\* With no last entry, who was born was taken out.
LEMMA NoEntries ==
  ASSUME NEW w, Table(w), tTail = NULL
  PROVE  \A q \in Pids : tProc[q] # "unborn" <=> q \in tGone
<1>1. CASE Forkless(w, tPid, tLive, tTail, tProc, tGone)
  BY <1>1 DEF Forkless
<1>2. CASE Whole(w, tPid, tName, tLive, tTail, tProc, tOurs, tGone, tStale)
  <2>1. w \in Seq(Addr) /\ Len(w) \in Nat
    BY DEF Table, IsChain, Linking
  <2>2. Len(w) # 0 => Len(w) \in 1..Len(w) /\ w[Len(w)] \in Addr
    BY <2>1
  <2>3. Len(w) = 0
    BY <1>2, <2>2, NullIsNoAddress DEF Whole
  <2>4. ~\E i \in 1..Len(w) : TRUE
    BY <2>3
  <2> QED BY <1>2, <2>4 DEF Whole
<1> QED BY <1>1, <1>2 DEF Table

\* A failed fork links a freed node when there is no entry, and nothing otherwise.
LEMMA ForkFailsIInv ==
  ASSUME TableIInv, ~tCrashed, tDoing = "nothing", Process!ForkFails
  PROVE  TableIInv'
<1>1. PICK a \in Addr \ tLive :
        IF tTail # NULL
        THEN tCrashed' = TRUE /\ UNCHANGED <<tNext, tPid, tName, tLive, tHead, tTail>>
        ELSE /\ tHead' = a
             /\ tNext' = [tNext EXCEPT ![a] = NULL]
             /\ tPid' = [tPid EXCEPT ![a] = 0]
             /\ UNCHANGED <<tName, tLive, tTail, tCrashed>>
  BY DEF Process!ForkFails, Process!heap
<1>2. UNCHANGED <<tProc, tOurs, tDoing, tV, tImage, tUpdated, tTarget, tStale, tShot, tMissed,
                  tAlone, tGone>>
  BY DEF Process!ForkFails, Process!file, Process!past
<1>3. Process!TypeOK /\ Aimed /\ Tabled
  BY DEF TableIInv
<1>4. Process!TypeOK'
  <2>1. tNext' \in [Addr -> Addr \cup {NULL}] /\ tPid' \in [Addr -> Pids \cup {0}]
    BY <1>1, <1>3 DEF Process!TypeOK
  <2>2. tHead' \in Addr \cup {NULL} /\ tCrashed' \in BOOLEAN
        /\ UNCHANGED <<tName, tLive, tTail>>
    BY <1>1, <1>3 DEF Process!TypeOK
  <2> QED BY <1>2, <1>3, <2>1, <2>2 DEF Process!TypeOK
<1>5. Aimed'
  BY <1>2, <1>3 DEF Aimed, Updating
<1>6. ASSUME ~tCrashed' PROVE Tabled'
  <2>1. tTail = NULL
    BY <1>1, <1>6
  <2>2. PICK w : ~tAlone /\ Table(w)
    BY <1>3, <2>1 DEF Tabled
  <2>3. \A q \in Pids : tProc[q] # "unborn" <=> q \in tGone
    BY <2>1, <2>2, NoEntries
  <2>4. /\ tHead' = a /\ tTail' = NULL /\ tLive' = tLive /\ tProc' = tProc /\ tGone' = tGone
        /\ tNext' = [tNext EXCEPT ![a] = NULL] /\ tPid' = [tPid EXCEPT ![a] = 0]
    BY <1>1, <1>2, <2>1
  <2>5. IsChain(<<a>>, a, tNext') /\ tPid'[a] = 0
    <3>1. tNext'[a] = NULL /\ tPid'[a] = 0
      BY <1>3, <2>4 DEF Process!TypeOK
    <3> QED BY <3>1, OneNode
  <2>6. Forkless(<<a>>, tPid', tLive', tTail', tProc', tGone')
    BY <1>1, <2>3, <2>4, <2>5 DEF Forkless
  <2>7. Table(<<a>>)'
    BY <1>2, <2>4, <2>5, <2>6 DEF Table, Updating
  <2> QED BY <1>2, <2>2, <2>7 DEF Tabled
<1> QED BY <1>4, <1>5, <1>6 DEF TableIInv

\* The process p was born and got the entry a, the last one.
Entered(a, p, s) ==
  /\ a \in Addr \ tLive /\ p \in Pids /\ tProc[p] = "unborn"
  /\ tTail' = a /\ tGone' = tGone
  /\ tPid' = [tPid EXCEPT ![a] = p]
  /\ tName' = [tName EXCEPT ![a] = s]
  /\ tLive' = tLive \cup {a}
  /\ tProc' = [tProc EXCEPT ![p] = "running"]
  /\ tStale \subseteq tStale'
  /\ (tOurs' = tOurs /\ s \in tStale') \/ tOurs' = tOurs \cup {p}

\* The entries are whole with the new one.
LEMMA EnteredWhole ==
  ASSUME Process!TypeOK, NEW w, w \in Seq(Addr), NEW tail,
         Whole(w, tPid, tName, tLive, tail, tProc, tOurs, tGone, tStale),
         NEW u, NEW a, NEW p, NEW s, Longer(u, w, a), Entered(a, p, s)
  PROVE  Whole(u, tPid', tName', tLive', tTail', tProc', tOurs', tGone', tStale')
<1>1. /\ \A i \in 1..Len(w) : w[i] \in tLive /\ tPid[w[i]] \in Pids
      /\ \A i, j \in 1..Len(w) : tPid[w[i]] = tPid[w[j]] => i = j
      /\ \A q \in Pids : tProc[q] # "unborn" /\ q \notin tGone
           <=> \E i \in 1..Len(w) : tPid[w[i]] = q
      /\ \A q \in tGone : tProc[q] # "unborn"
      /\ \A i \in 1..Len(w) :
           tPid[w[i]] \notin tOurs \/ tProc[tPid[w[i]]] = "reaped" => tName[w[i]] \in tStale
  BY DEF Whole
<1>2. /\ a \in Addr /\ a \notin tLive /\ p \in Pids /\ tProc[p] = "unborn"
      /\ tTail' = a /\ tGone' = tGone /\ tLive' = tLive \cup {a}
      /\ tStale \subseteq tStale'
      /\ (tOurs' = tOurs /\ s \in tStale') \/ tOurs' = tOurs \cup {p}
  BY DEF Entered
<1>3. /\ \A b \in Addr : tPid'[b] = IF b = a THEN p ELSE tPid[b]
      /\ \A b \in Addr : tName'[b] = IF b = a THEN s ELSE tName[b]
      /\ \A q \in Pids : tProc'[q] = IF q = p THEN "running" ELSE tProc[q]
  BY DEF Entered, Process!TypeOK
<1>4. tGone \subseteq Pids
  BY DEF Process!TypeOK
<1>5. /\ Len(w) \in Nat /\ u \in Seq(Addr) /\ Len(u) = Len(w) + 1 /\ u[Len(w) + 1] = a
      /\ \A i \in 1..Len(w) : u[i] = w[i] /\ w[i] \in Addr
  BY DEF Longer
<1>6. \A i \in 1..Len(u) : i \in 1..Len(w) \/ i = Len(w) + 1
  BY <1>5
<1>7. ASSUME NEW i \in 1..Len(w)
      PROVE  /\ u[i] = w[i] /\ tPid'[u[i]] = tPid[w[i]] /\ tName'[u[i]] = tName[w[i]]
             /\ tPid[w[i]] # p /\ tPid[w[i]] \in Pids
             /\ tProc'[tPid[w[i]]] = tProc[tPid[w[i]]]
  <2>1. w[i] \in Addr /\ w[i] # a /\ u[i] = w[i] /\ tPid[w[i]] \in Pids
    BY <1>1, <1>2, <1>5
  <2>2. tPid[w[i]] # p
    BY <1>1, <1>2, <2>1
  <2> QED BY <1>3, <2>1, <2>2
<1>8. tPid'[a] = p /\ tName'[a] = s
  BY <1>2, <1>3
<1>9. \A i \in 1..Len(u) : u[i] \in tLive' /\ tPid'[u[i]] \in Pids
  BY <1>1, <1>2, <1>5, <1>6, <1>7, <1>8
<1>10. tTail' = IF Len(u) = 0 THEN NULL ELSE u[Len(u)]
  BY <1>2, <1>5
<1>11. \A i, j \in 1..Len(u) : tPid'[u[i]] = tPid'[u[j]] => i = j
  <2> SUFFICES ASSUME NEW i \in 1..Len(u), NEW j \in 1..Len(u), tPid'[u[i]] = tPid'[u[j]]
               PROVE  i = j
    OBVIOUS
  <2>1. CASE i \in 1..Len(w) /\ j \in 1..Len(w)
    <3>1. tPid[w[i]] = tPid[w[j]]
      BY <1>7, <2>1
    <3> QED BY <1>1, <2>1, <3>1
  <2>2. CASE i = Len(w) + 1 \/ j = Len(w) + 1
    BY <1>5, <1>6, <1>7, <1>8, <2>2
  <2> QED BY <1>6, <2>1, <2>2
<1>12. ASSUME NEW q \in Pids
       PROVE  tProc'[q] # "unborn" /\ q \notin tGone' <=> \E i \in 1..Len(u) : tPid'[u[i]] = q
  <2>1. tProc'[q] = IF q = p THEN "running" ELSE tProc[q]
    BY <1>3
  <2>2. p \notin tGone
    BY <1>1, <1>2
  <2>3. Len(w) + 1 \in 1..Len(u) /\ \A i \in 1..Len(w) : i \in 1..Len(u)
    BY <1>5
  <2>4. (\E i \in 1..Len(u) : tPid'[u[i]] = q) <=> q = p \/ \E i \in 1..Len(w) : tPid[w[i]] = q
    BY <1>5, <1>6, <1>7, <1>8, <2>3
  <2> QED BY <1>1, <1>2, <2>1, <2>2, <2>4
<1>13. \A q \in tGone' : tProc'[q] # "unborn"
  BY <1>1, <1>2, <1>3, <1>4
<1>14. ASSUME NEW i \in 1..Len(u), tPid'[u[i]] \notin tOurs' \/ tProc'[tPid'[u[i]]] = "reaped"
       PROVE  tName'[u[i]] \in tStale'
  <2>1. CASE i \in 1..Len(w)
    <3>1. tPid[w[i]] \notin tOurs \/ tProc[tPid[w[i]]] = "reaped"
      BY <1>2, <1>7, <1>14, <2>1
    <3>2. tName[w[i]] \in tStale
      BY <1>1, <2>1, <3>1
    <3> QED BY <1>2, <1>7, <2>1, <3>2
  <2>2. CASE i = Len(w) + 1
    <3>1. u[i] = a /\ tProc'[p] = "running"
      BY <1>2, <1>3, <1>5, <2>2
    <3> QED BY <1>2, <1>8, <1>14, <3>1
  <2> QED BY <1>6, <2>1, <2>2
<1> QED BY <1>9, <1>10, <1>11, <1>12, <1>13, <1>14 DEF Whole

\* process_create, or an entry for somebody else's process.
LEMMA CreatesEntryIInv ==
  ASSUME TableIInv, ~tCrashed, tDoing = "nothing", NEW s \in Names, NEW mine \in BOOLEAN,
         Process!ProcessCreate(s, mine)
  PROVE  TableIInv'
<1>1. PICK a \in Addr \ tLive, p \in Pids :
        /\ Process!NextPid(p) /\ Process!Appended(a, p, s)
        /\ tProc' = [tProc EXCEPT ![p] = "running"]
        /\ tOurs' = IF mine THEN tOurs \cup {p} ELSE tOurs
  BY DEF Process!ProcessCreate
<1>2. /\ tNext' = IF tTail = NULL THEN [tNext EXCEPT ![a] = NULL]
                  ELSE [tNext EXCEPT ![tTail] = a, ![a] = NULL]
      /\ tHead' = IF tTail = NULL THEN a ELSE tHead
      /\ tTail' = a
      /\ tPid' = [tPid EXCEPT ![a] = p]
      /\ tName' = [tName EXCEPT ![a] = s]
      /\ tLive' = tLive \cup {a}
      /\ tProc[p] = "unborn"
  BY <1>1 DEF Process!Appended, Process!NextPid
<1>3. /\ tStale' = IF mine THEN tStale ELSE tStale \cup {s}
      /\ UNCHANGED <<tCrashed, tDoing, tV, tImage, tUpdated, tTarget, tShot, tMissed,
           tAlone, tGone>>
  BY DEF Process!ProcessCreate, Process!file
<1>4. Process!TypeOK /\ Aimed /\ Tabled
  BY DEF TableIInv
<1>5. Process!TypeOK'
  <2>1. tNext' \in [Addr -> Addr \cup {NULL}] /\ tHead' \in Addr \cup {NULL}
    BY <1>1, <1>2, <1>4 DEF Process!TypeOK
  <2>2. tPid' \in [Addr -> Pids \cup {0}] /\ tName' \in [Addr -> Names \cup {Junk}]
    BY <1>1, <1>2, <1>4 DEF Process!TypeOK
  <2>3. tProc' \in [Pids -> {"unborn", "running", "zombie", "reaped"}]
    BY <1>1, <1>4 DEF Process!TypeOK
  <2>4. tLive' \subseteq Addr /\ tTail' \in Addr /\ tOurs' \subseteq Pids
        /\ tStale' \subseteq Names \cup {Junk}
    BY <1>1, <1>2, <1>3, <1>4 DEF Process!TypeOK
  <2> QED BY <1>3, <1>4, <2>1, <2>2, <2>3, <2>4 DEF Process!TypeOK
<1>6. Aimed'
  BY <1>3, <1>4 DEF Aimed, Updating
<1>7. CASE tAlone
  BY <1>1, <1>2, <1>3, <1>4, <1>5, <1>6, <1>7, NullIsNoAddress DEF TableIInv, Tabled
<1>8. CASE ~tAlone
  <2>1. Entered(a, p, s)
    BY <1>1, <1>2, <1>3 DEF Entered
  <2>2. PICK w : Table(w)
    BY <1>4, <1>8 DEF Tabled
  <2>3. IsChain(w, tHead, tNext) /\ w \in Seq(Addr) /\ Len(w) \in Nat
    BY <2>2 DEF Table, IsChain, Linking
  <2>4. \E u : IsChain(u, tHead', tNext')
               /\ Whole(u, tPid', tName', tLive', tTail', tProc', tOurs', tGone', tStale')
    <3>1. CASE tTail = NULL
      <4>1. tHead' = a /\ tNext'[a] = NULL
        BY <1>1, <1>2, <1>4, <3>1 DEF Process!TypeOK
      <4>2. IsChain(<<a>>, tHead', tNext')
        BY <1>1, <4>1, OneNode
      <4>3. \A q \in Pids : tProc[q] # "unborn" <=> q \in tGone
        BY <2>2, <3>1, NoEntries
      <4>4. Whole(<<>>, tPid, tName, tLive, NULL, tProc, tOurs, tGone, tStale)
        BY <1>4, <4>3 DEF Whole, Process!TypeOK
      <4>5. Longer(<<a>>, <<>>, a) /\ <<>> \in Seq(Addr)
        BY <1>1 DEF Longer
      <4>6. Whole(<<a>>, tPid', tName', tLive', tTail', tProc', tOurs', tGone', tStale')
        BY <1>4, <2>1, <4>4, <4>5, EnteredWhole
      <4> QED BY <4>2, <4>6
    <3>2. CASE tTail # NULL
      <4>1. Whole(w, tPid, tName, tLive, tTail, tProc, tOurs, tGone, tStale)
        BY <2>2, <3>2 DEF Table, Forkless
      <4>2. Len(w) # 0 /\ tTail = w[Len(w)] /\ \A i \in 1..Len(w) : w[i] \in tLive
        BY <3>2, <4>1 DEF Whole
      <4>3. /\ tNext' = [tNext EXCEPT ![w[Len(w)]] = a, ![a] = NULL] /\ tHead' = tHead
            /\ tNext \in [Addr -> Addr \cup {NULL}]
        BY <1>2, <1>4, <3>2, <4>2 DEF Process!TypeOK
      <4>4. PutBehind(a, w, tNext, tNext')
        <5>1. Len(w) \in 1..Len(w) /\ \A i \in 1..Len(w) : w[i] \in Addr /\ w[i] # a
          BY <1>1, <2>3, <4>2
        <5>2. \A i \in 1..Len(w) : i # Len(w) => w[i] # w[Len(w)]
          BY <2>3, <5>1 DEF IsChain, Linking
        <5> QED BY <1>1, <4>2, <4>3, <5>1, <5>2 DEF PutBehind
      <4>5. PICK u : IsChain(u, tHead, tNext') /\ Longer(u, w, a)
        BY <2>3, <4>4, NodeAtTheEnd
      <4>6. Whole(u, tPid', tName', tLive', tTail', tProc', tOurs', tGone', tStale')
        BY <1>4, <2>1, <2>3, <4>1, <4>5, EnteredWhole
      <4> QED BY <4>3, <4>5, <4>6
    <3> QED BY <3>1, <3>2
  <2>5. tDoing' = "nothing" /\ tAlone' = FALSE
    BY <1>3, <1>4, <1>8 DEF Process!TypeOK
  <2>6. (\E u : Table(u))'
    BY <2>4, <2>5 DEF Table, Updating
  <2>7. Tabled'
    BY <2>5, <2>6 DEF Tabled
  <2> QED BY <1>5, <1>6, <2>7 DEF TableIInv
<1> QED BY <1>7, <1>8

\* The call process_kill says it signalled a process when it did not only if an entry
\* with the name is stale.
LEMMA KillsIInv ==
  ASSUME TableIInv, ~tCrashed, tDoing = "nothing", NEW s \in Names, Process!ProcessKill(s)
  PROVE  TableIInv'
<1>1. /\ Process!EntryOf(s) # 0 /\ Process!Tried(s, tProc)
      /\ tMissed' = IF /\ tGone' = tGone
                       /\ \E a \in Process!Nodes : tName[a] = s
                            /\ Process!Killable(tPid[a], tProc)
                    THEN tMissed \cup {s} ELSE tMissed
      /\ UNCHANGED <<tOurs, tCrashed, tDoing, tV, tImage, tUpdated, tTarget, tStale, tShot,
           tAlone>>
  BY DEF Process!ProcessKill, Process!file
<1>2. Process!TypeOK /\ Aimed /\ Tabled /\ tProc \in States
  BY DEF TableIInv, Process!TypeOK, States
<1>3. PICK w : IsChain(w, tHead, tNext) /\ (~tAlone => Table(w))
  BY <1>2, TableIsList
<1> DEFINE i == Process!EntryOf(s)
<1>4. /\ i \in 1..Len(w) /\ tName[w[i]] = s
      /\ tNext' \in [Addr -> Addr \cup {NULL}] /\ tHead' \in Addr \cup {NULL}
      /\ \/ \E u : IsChain(u, tHead', tNext') /\ Killed(i, w, u, tProc)
         \/ /\ ~Process!Killable(tPid[w[i]], tProc)
            /\ tProc' = tProc
            /\ UNCHANGED <<tNext, tPid, tName, tLive, tHead, tTail, tGone>>
  BY <1>1, <1>2, <1>3, TriedOnce
<1> HIDE DEF i
<1>5. /\ w \in Seq(Addr) /\ Len(w) \in Nat
      /\ \A j, k \in 1..Len(w) : w[j] = w[k] => j = k
  BY <1>3 DEF IsChain, Linking
<1>6. ~tAlone /\ Table(w)
  <2>1. tAlone => w = <<>>
    BY <1>2, <1>3, NoNodes DEF Tabled
  <2>2. w # <<>>
    BY <1>4
  <2> QED BY <1>3, <2>1, <2>2
<1>7. Process!TypeOK'
  <2>1. tMissed' \subseteq Names
    BY <1>1, <1>2 DEF Process!TypeOK
  <2>2. /\ tPid' \in [Addr -> Pids \cup {0}] /\ tName' \in [Addr -> Names \cup {Junk}]
        /\ tLive' \subseteq Addr /\ tTail' \in Addr \cup {NULL}
        /\ tProc' \in States /\ tGone' \subseteq Pids
    <3>1. CASE \E u : IsChain(u, tHead', tNext') /\ Killed(i, w, u, tProc)
      BY <1>2, <1>4, <1>5, <3>1, KilledTypes
    <3>2. CASE UNCHANGED <<tNext, tPid, tName, tLive, tHead, tTail, tGone, tProc>>
      BY <1>2, <3>2 DEF Process!TypeOK
    <3> QED BY <1>4, <3>1, <3>2
  <2> QED BY <1>1, <1>2, <1>4, <2>1, <2>2 DEF Process!TypeOK, States
<1>8. CASE \E u : IsChain(u, tHead', tNext') /\ Killed(i, w, u, tProc)
  <2>1. PICK u : IsChain(u, tHead', tNext') /\ Killed(i, w, u, tProc)
    BY <1>8
  <2>2. tPid[w[i]] \in Pids /\ tGone' = tGone \cup {tPid[w[i]]}
    BY <2>1 DEF Killed, Process!Killable
  <2>3. Whole(w, tPid, tName, tLive, tTail, tProc, tOurs, tGone, tStale)
    <3>1. Forkless(w, tPid, tLive, tTail, tProc, tGone) => tPid[w[i]] = 0
      <4>1. Len(w) = 1 => i = 1
        BY <1>4
      <4> QED BY <4>1 DEF Forkless
    <3> QED BY <1>6, <2>2, <3>1, PidsArePositive DEF Table
  <2>4. Whole(u, tPid', tName', tLive', tTail', tProc', tOurs', tGone', tStale')
    <3>1. Whole(u, tPid', tName', tLive', tTail', tProc', tOurs, tGone', tStale)
      BY <1>2, <1>4, <1>5, <2>1, <2>3, KilledWhole
    <3> QED BY <1>1, <3>1
  <2>5. tMissed' = tMissed
    <3>1. tPid[w[i]] \notin tGone
      BY <1>4, <2>2, <2>3 DEF Whole
    <3> QED BY <1>1, <2>2, <3>1
  <2>6. Aimed'
    BY <1>1, <1>2, <2>5 DEF Aimed
  <2>7. Table(u)'
    BY <1>1, <2>1, <2>4 DEF Table, Updating
  <2> QED BY <1>1, <1>6, <1>7, <2>6, <2>7 DEF TableIInv, Tabled
<1>9. CASE /\ ~Process!Killable(tPid[w[i]], tProc)
           /\ UNCHANGED <<tNext, tPid, tName, tLive, tHead, tTail, tGone, tProc>>
  <2>1. Table(w)'
    BY <1>1, <1>6, <1>9 DEF Table, Updating
  <2>2. tMissed' \subseteq tStale
    <3>1. tMissed \subseteq tStale
      BY <1>2 DEF Aimed
    <3> SUFFICES ASSUME NEW a \in Process!Nodes, Process!Killable(tPid[a], tProc)
                 PROVE  s \in tStale
      BY <1>1, <3>1
    <3>2. PICK k \in 1..Len(w) : a = w[k]
      BY <1>3, ProcessNodes
    <3>3. CASE Whole(w, tPid, tName, tLive, tTail, tProc, tOurs, tGone, tStale)
      <4>1. tPid[w[i]] \in Pids /\ tProc[tPid[w[i]]] # "unborn"
        BY <1>4, <3>3 DEF Whole
      <4>2. tProc[tPid[w[i]]] = "reaped"
        BY <1>2, <1>9, <4>1 DEF Process!Killable, States
      <4> QED BY <1>4, <3>3, <4>2 DEF Whole
    <3>4. CASE Forkless(w, tPid, tLive, tTail, tProc, tGone)
      <4>1. Len(w) = 1 => k = 1
        BY <3>2
      <4>2. tPid[a] = 0
        BY <3>2, <3>4, <4>1 DEF Forkless
      <4> QED BY <4>2, PidsArePositive DEF Process!Killable
    <3> QED BY <1>6, <3>3, <3>4 DEF Table
  <2>3. Aimed'
    BY <1>1, <1>2, <2>2 DEF Aimed
  <2> QED BY <1>1, <1>6, <1>7, <2>1, <2>3 DEF TableIInv, Tabled
<1> QED BY <1>4, <1>8, <1>9

\* All entries are signalled and freed; a single one leaves its address in tail_tracker.
LEMMA AllFreed ==
  ASSUME Process!TypeOK, NEW w, IsChain(w, tHead, tNext), tHead # NULL, ~tAlone,
         NEW state \in States, NEW stale, Process!AllShutDown(state),
         \/ Whole(w, tPid, tName, tLive, tTail, state, tOurs, tGone, stale)
         \/ Forkless(w, tPid, tLive, tTail, state, tGone)
  PROVE  /\ tPid' \in [Addr -> Pids \cup {0}] /\ tName' \in [Addr -> Names \cup {Junk}]
         /\ tLive' \subseteq Addr /\ tTail' \in Addr \cup {NULL} /\ tHead' = NULL
         /\ tProc' \in States /\ tGone' \subseteq Pids /\ tCrashed' \in BOOLEAN
         /\ tAlone' \in BOOLEAN /\ tNext' = tNext
         /\ ~tCrashed' =>
              IF tAlone' THEN tTail' # NULL
              ELSE Whole(<<>>, tPid', tName', tLive', tTail', tProc', tOurs, tGone', stale)
<1> DEFINE nodes == Process!Nodes
           pids == {tPid[a] : a \in nodes}
           single == Process!Cardinality(nodes) = 1
<1>1. /\ tCrashed' = ~(nodes \subseteq tLive)
      /\ tLive' = tLive \ nodes
      /\ tName' = [a \in Addr |-> IF a \in nodes THEN Junk ELSE tName[a]]
      /\ tPid' = [a \in Addr |-> IF a \in nodes THEN 0 ELSE tPid[a]]
      /\ tHead' = NULL
      /\ tTail' = IF single THEN tTail ELSE NULL
      /\ tProc' = Process!Signalled(pids, state)
      /\ tGone' = tGone \cup (pids \cap Pids)
      /\ tAlone' = (tAlone \/ single)
      /\ UNCHANGED tNext
  BY DEF Process!AllShutDown
<1> HIDE DEF single
<1>2. /\ nodes = {w[k] : k \in 1..Len(w)} /\ w \in Seq(Addr) /\ Len(w) \in Nat /\ Len(w) # 0
      /\ \A k \in 1..Len(w) : w[k] \in Addr
  BY ProcessNodes DEF IsChain, Linking
<1> HIDE DEF nodes
<1>3. /\ tPid \in [Addr -> Pids \cup {0}] /\ tName \in [Addr -> Names \cup {Junk}]
      /\ tLive \subseteq Addr /\ tTail \in Addr \cup {NULL} /\ tGone \subseteq Pids
  BY DEF Process!TypeOK
<1>4. tPid' \in [Addr -> Pids \cup {0}] /\ tName' \in [Addr -> Names \cup {Junk}]
  BY <1>1, <1>3
<1>5. tProc' \in States
  BY <1>1 DEF Process!Signalled, States
<1>6. tAlone' \in BOOLEAN
  BY <1>1 DEF single
<1>7. ASSUME ~tCrashed'
      PROVE  IF tAlone' THEN tTail' # NULL
             ELSE Whole(<<>>, tPid', tName', tLive', tTail', tProc', tOurs, tGone', stale)
  <2>1. 1 \in 1..Len(w) /\ w[1] \in tLive
    <3>1. nodes \subseteq tLive
      BY <1>1, <1>7
    <3>2. 1 \in 1..Len(w)
      BY <1>2
    <3>3. w[1] \in nodes
      BY <1>2, <3>2
    <3> QED BY <3>1, <3>2, <3>3
  <2>2. Whole(w, tPid, tName, tLive, tTail, state, tOurs, tGone, stale)
    BY <2>1 DEF Forkless
  <2>3. /\ tTail = w[Len(w)] /\ Len(w) \in 1..Len(w)
        /\ \A k \in 1..Len(w) : tPid[w[k]] \in Pids
        /\ \A q \in Pids : state[q] # "unborn" /\ q \notin tGone
             <=> \E k \in 1..Len(w) : tPid[w[k]] = q
        /\ \A q \in tGone : state[q] # "unborn"
    BY <1>2, <2>2 DEF Whole
  <2>4. CASE tAlone'
    BY <1>1, <1>2, <2>3, <2>4, NullIsNoAddress
  <2>5. CASE ~tAlone'
    <3>1. tTail' = NULL
      BY <1>1, <2>5
    <3>2. \A q \in Pids : q \in pids <=> \E k \in 1..Len(w) : tPid[w[k]] = q
      BY <1>2
    <3>3. \A q \in Pids : tProc'[q] # "unborn" <=> state[q] # "unborn"
      BY <1>1 DEF Process!Signalled
    <3>4. \A q \in Pids : q \in tGone' <=> q \in tGone \/ \E k \in 1..Len(w) : tPid[w[k]] = q
      BY <1>1, <3>2
    <3>5. \A q \in Pids : tProc'[q] # "unborn" <=> q \in tGone'
      BY <1>3, <2>3, <3>3, <3>4
    <3>6. \A q \in tGone' : q \in Pids
      BY <1>1, <1>3
    <3> HIDE DEF pids
    <3>7. Whole(<<>>, tPid', tName', tLive', tTail', tProc', tOurs, tGone', stale)
      BY <3>1, <3>5, <3>6 DEF Whole
    <3> QED BY <2>5, <3>7
  <2> QED BY <1>6, <2>4, <2>5
<1> QED BY <1>1, <1>3, <1>4, <1>5, <1>6, <1>7

\* shutdown.
LEMMA ShutsDownIInv ==
  ASSUME TableIInv, ~tCrashed, tDoing = "nothing", Process!ShutDown
  PROVE  TableIInv'
<1>1. /\ tHead # NULL /\ Process!AllShutDown(tProc)
      /\ UNCHANGED <<tOurs, tDoing, tV, tImage, tUpdated, tTarget, tStale, tShot, tMissed>>
  BY DEF Process!ShutDown, Process!file
<1>2. Process!TypeOK /\ Aimed /\ Tabled /\ tProc \in States
  BY DEF TableIInv, Process!TypeOK, States
<1>3. PICK w : ~tAlone /\ Table(w)
  BY <1>1, <1>2 DEF Tabled
<1>4. /\ tPid' \in [Addr -> Pids \cup {0}] /\ tName' \in [Addr -> Names \cup {Junk}]
      /\ tLive' \subseteq Addr /\ tTail' \in Addr \cup {NULL} /\ tHead' = NULL
      /\ tProc' \in States /\ tGone' \subseteq Pids /\ tCrashed' \in BOOLEAN
      /\ tAlone' \in BOOLEAN /\ tNext' = tNext
      /\ ~tCrashed' =>
           IF tAlone' THEN tTail' # NULL
           ELSE Whole(<<>>, tPid', tName', tLive', tTail', tProc', tOurs, tGone', tStale)
  BY <1>1, <1>2, <1>3, AllFreed DEF Table
<1>5. Process!TypeOK'
  BY <1>1, <1>2, <1>4 DEF Process!TypeOK, States
<1>6. Aimed'
  BY <1>1, <1>2 DEF Aimed, Updating
<1>7. ASSUME ~tCrashed' PROVE Tabled'
  <2>1. IsChain(<<>>, tHead', tNext')
    BY <1>4, NoNodes
  <2>2. ~tAlone' => Table(<<>>)'
    BY <1>1, <1>4, <1>7, <2>1 DEF Table, Updating
  <2> QED BY <1>4, <1>7, <2>2 DEF Tabled
<1> QED BY <1>5, <1>6, <1>7 DEF TableIInv

\* block("*", stats) signals only what it has waited for.
LEMMA BlocksAllIInv ==
  ASSUME TableIInv, ~tCrashed, tDoing = "nothing", NEW stats \in BOOLEAN, Process!BlockAll(stats)
  PROVE  TableIInv'
<1> DEFINE ps == Process!Listed
           state == Process!Reaped(ps)
<1>1. /\ tHead # NULL
      /\ \A p \in ps : p \in tOurs => tProc[p] # "running"
      /\ IF stats THEN Process!AllShutDown(state)
         ELSE /\ tProc' = state
              /\ UNCHANGED <<tNext, tPid, tName, tLive, tHead, tTail, tCrashed, tGone, tAlone>>
      /\ tStale' = tStale \cup {tName[a] : a \in Process!Nodes}
      /\ tShot' = tShot \cup {p \in Process!Running(tGone') : p \notin tGone}
      /\ UNCHANGED <<tOurs, tDoing, tV, tImage, tUpdated, tTarget, tMissed>>
  BY DEF Process!BlockAll, Process!WaitReturns, Process!heap, Process!file
<1>2. Process!TypeOK /\ Aimed /\ Tabled
  BY DEF TableIInv
<1>3. PICK w : ~tAlone /\ Table(w)
  BY <1>1, <1>2 DEF Tabled
<1>4. /\ ps = {tPid[w[k]] : k \in 1..Len(w)} /\ Process!Nodes = {w[k] : k \in 1..Len(w)}
      /\ \A k \in 1..Len(w) : w[k] \in Addr
  BY <1>3, ProcessNodes DEF Table, IsChain, Linking
<1> HIDE DEF ps
<1>5. \A k \in 1..Len(w) : tName[w[k]] \in tStale'
  BY <1>1, <1>4
<1>6. /\ state \in States
      /\ Whole(w, tPid, tName, tLive, tTail, tProc, tOurs, tGone, tStale)
         => Whole(w, tPid, tName, tLive, tTail, state, tOurs, tGone, tStale')
      /\ Forkless(w, tPid, tLive, tTail, tProc, tGone)
           => Forkless(w, tPid, tLive, tTail, state, tGone)
  <2>1. tStale \subseteq tStale'
    BY <1>1
  <2>2. \A p \in ps \cap Pids : \E k \in 1..Len(w) : tPid[w[k]] = p
    BY <1>4
  <2>3. Waited(w, ps, tPid, tName, tStale, tStale')
    BY <1>5, <2>1, <2>2 DEF Waited
  <2> QED BY <1>2, <2>3, ReapedTable
<1> HIDE DEF state
<1>7. \/ Whole(w, tPid, tName, tLive, tTail, state, tOurs, tGone, tStale')
      \/ Forkless(w, tPid, tLive, tTail, state, tGone)
  BY <1>3, <1>6 DEF Table
<1>8. tStale' \subseteq Names \cup {Junk}
  BY <1>1, <1>2, <1>4 DEF Process!TypeOK
<1>9. CASE stats = TRUE
  <2>1. Process!AllShutDown(state)
    BY <1>1, <1>9
  <2>2. /\ tPid' \in [Addr -> Pids \cup {0}] /\ tName' \in [Addr -> Names \cup {Junk}]
        /\ tLive' \subseteq Addr /\ tTail' \in Addr \cup {NULL} /\ tHead' = NULL
        /\ tProc' \in States /\ tGone' \subseteq Pids /\ tCrashed' \in BOOLEAN
        /\ tAlone' \in BOOLEAN /\ tNext' = tNext
        /\ ~tCrashed' =>
             IF tAlone' THEN tTail' # NULL
             ELSE Whole(<<>>, tPid', tName', tLive', tTail', tProc', tOurs, tGone', tStale')
    BY <1>1, <1>2, <1>3, <1>6, <1>7, <2>1, AllFreed DEF Table
  <2>3. tShot' = tShot
    <3>1. tGone' = tGone \cup (ps \cap Pids)
      BY <2>1 DEF Process!AllShutDown, ps, Process!Listed
    <3> QED BY <1>1, <3>1 DEF Process!Running
  <2>4. Process!TypeOK'
    BY <1>1, <1>2, <1>8, <2>2, <2>3 DEF Process!TypeOK, States
  <2>5. Aimed'
    BY <1>1, <1>2, <2>3 DEF Aimed, Updating
  <2>6. ASSUME ~tCrashed' PROVE Tabled'
    <3>1. IsChain(<<>>, tHead', tNext')
      BY <2>2, NoNodes
    <3>2. ~tAlone' => Table(<<>>)'
      BY <1>1, <2>2, <2>6, <3>1 DEF Table, Updating
    <3> QED BY <2>2, <2>6, <3>2 DEF Tabled
  <2> QED BY <2>4, <2>5, <2>6 DEF TableIInv
<1>10. CASE stats = FALSE
  <2>1. /\ tProc' = state
        /\ UNCHANGED <<tNext, tPid, tName, tLive, tHead, tTail, tCrashed, tGone, tAlone>>
    BY <1>1, <1>10
  <2>2. tShot' = tShot
    BY <1>1, <2>1 DEF Process!Running
  <2>3. Process!TypeOK'
    BY <1>1, <1>2, <1>6, <1>8, <2>1, <2>2 DEF Process!TypeOK, States
  <2>4. Aimed'
    BY <1>1, <1>2, <2>1, <2>2 DEF Aimed, Updating
  <2>5. Table(w)'
    BY <1>1, <1>3, <1>7, <2>1 DEF Table, Updating
  <2> QED BY <1>3, <2>1, <2>3, <2>4, <2>5 DEF TableIInv, Tabled
<1> QED BY <1>9, <1>10

\* What block and shutdown_dead have in common: they wait for one entry's process, p, and
\* then try an entry with the same name.
LEMMA WaitsThenTries ==
  ASSUME Process!TypeOK, NEW w, IsChain(w, tHead, tNext),
         \/ Whole(w, tPid, tName, tLive, tTail, tProc, tOurs, tGone, tStale)
         \/ Forkless(w, tPid, tLive, tTail, tProc, tGone),
         NEW k \in 1..Len(w), tOurs' = tOurs, tStale' = tStale \cup {tName[w[k]]}
  PROVE  LET state == Process!Reaped({tPid[w[k]]})
             i == Process!EntryOf(tName[w[k]])
         IN /\ state \in States
            /\ \A p \in Pids : state[p] = IF p = tPid[w[k]] /\ p \in tOurs THEN "reaped"
                 ELSE tProc[p]
            /\ \/ Whole(w, tPid, tName, tLive, tTail, state, tOurs, tGone, tStale')
               \/ Forkless(w, tPid, tLive, tTail, state, tGone)
            /\ i # 0
            /\ Process!Tried(tName[w[k]], state) =>
                 /\ i \in 1..Len(w) /\ ~(k < i)
                 /\ tNext' \in [Addr -> Addr \cup {NULL}] /\ tHead' \in Addr \cup {NULL}
                 /\ tPid' \in [Addr -> Pids \cup {0}] /\ tName' \in [Addr -> Names \cup {Junk}]
                 /\ tLive' \subseteq Addr /\ tTail' \in Addr \cup {NULL}
                 /\ tProc' \in States /\ tGone' \subseteq Pids
                 /\ \E u : /\ IsChain(u, tHead', tNext')
                           /\ \/ Whole(u, tPid', tName', tLive', tTail', tProc', tOurs',
                                   tGone', tStale')
                              \/ Forkless(u, tPid', tLive', tTail', tProc', tGone')
                           /\ \/ Killed(i, w, u, state)
                              \/ /\ u = w /\ tProc' = state
                                 /\ UNCHANGED <<tPid, tName, tGone>>
<1> DEFINE p == tPid[w[k]]
           s == tName[w[k]]
           state == Process!Reaped({p})
           i == Process!EntryOf(s)
<1>1. /\ w \in Seq(Addr) /\ Len(w) \in Nat
      /\ \A j, m \in 1..Len(w) : w[j] = w[m] => j = m
  <2>1. Linking(w, tNext)
    BY DEF IsChain
  <2> QED BY <2>1 DEF Linking
<1>2. \A j \in 1..Len(w) : tPid[w[j]] = p => j = k
  <2>1. CASE Whole(w, tPid, tName, tLive, tTail, tProc, tOurs, tGone, tStale)
    BY <2>1 DEF Whole
  <2>2. CASE Forkless(w, tPid, tLive, tTail, tProc, tGone)
    <3>1. Len(w) = 1
      BY <2>2 DEF Forkless
    <3> QED BY <3>1
  <2> QED BY <2>1, <2>2
<1>3. /\ state \in States
      /\ \A q \in Pids : state[q] = IF q \in {p} /\ q \in tOurs THEN "reaped" ELSE tProc[q]
      /\ Whole(w, tPid, tName, tLive, tTail, tProc, tOurs, tGone, tStale)
         => Whole(w, tPid, tName, tLive, tTail, state, tOurs, tGone, tStale')
      /\ Forkless(w, tPid, tLive, tTail, tProc, tGone)
           => Forkless(w, tPid, tLive, tTail, state, tGone)
  <2> DEFINE ps == {p}
  <2>1. \A q \in ps \cap Pids : \E j \in 1..Len(w) : tPid[w[j]] = q
    OBVIOUS
  <2>2. \A j \in 1..Len(w) : tPid[w[j]] \in ps => tName[w[j]] \in tStale'
    BY <1>2
  <2>3. tStale \subseteq tStale'
    OBVIOUS
  <2>4. Waited(w, ps, tPid, tName, tStale, tStale')
    BY <2>1, <2>2, <2>3 DEF Waited
  <2> HIDE DEF ps
  <2>5. /\ Process!Reaped(ps) \in States
        /\ \A q \in Pids : Process!Reaped(ps)[q] = IF q \in ps /\ q \in tOurs THEN "reaped"
             ELSE tProc[q]
        /\ Whole(w, tPid, tName, tLive, tTail, tProc, tOurs, tGone, tStale)
           => Whole(w, tPid, tName, tLive, tTail, Process!Reaped(ps), tOurs, tGone, tStale')
        /\ Forkless(w, tPid, tLive, tTail, tProc, tGone)
           => Forkless(w, tPid, tLive, tTail, Process!Reaped(ps), tGone)
    BY <2>4, ReapedTable
  <2> QED BY <2>5 DEF ps
<1> HIDE DEF state
<1>4. \/ Whole(w, tPid, tName, tLive, tTail, state, tOurs, tGone, tStale')
      \/ Forkless(w, tPid, tLive, tTail, state, tGone)
  BY <1>3
<1>5. i \in 1..Len(w) /\ (\A j \in 1..(i - 1) : tName[w[j]] # s)
  BY EntryFound
<1>6. i # 0 /\ ~(k < i)
  <2>1. k < i => k \in 1..(i - 1)
    BY <1>1, <1>5
  <2> QED BY <1>5, <2>1
<1>7. ASSUME Process!Tried(s, state)
      PROVE  /\ tNext' \in [Addr -> Addr \cup {NULL}] /\ tHead' \in Addr \cup {NULL}
             /\ tPid' \in [Addr -> Pids \cup {0}] /\ tName' \in [Addr -> Names \cup {Junk}]
             /\ tLive' \subseteq Addr /\ tTail' \in Addr \cup {NULL}
             /\ tProc' \in States /\ tGone' \subseteq Pids
             /\ \E u : /\ IsChain(u, tHead', tNext')
                       /\ \/ Whole(u, tPid', tName', tLive', tTail', tProc', tOurs', tGone',
                               tStale')
                          \/ Forkless(u, tPid', tLive', tTail', tProc', tGone')
                       /\ \/ Killed(i, w, u, state)
                          \/ /\ u = w /\ tProc' = state
                             /\ UNCHANGED <<tPid, tName, tGone>>
  <2>1. /\ tNext' \in [Addr -> Addr \cup {NULL}] /\ tHead' \in Addr \cup {NULL}
        /\ \/ \E u : IsChain(u, tHead', tNext') /\ Killed(i, w, u, state)
           \/ /\ tProc' = state
              /\ UNCHANGED <<tNext, tPid, tName, tLive, tHead, tTail, tGone>>
    <3> HIDE DEF s
    <3> QED BY <1>6, <1>7, TriedOnce
  <2> HIDE DEF p, s, i
  <2>2. CASE \E u : IsChain(u, tHead', tNext') /\ Killed(i, w, u, state)
    <3>1. PICK u : IsChain(u, tHead', tNext') /\ Killed(i, w, u, state)
      BY <2>2
    <3>2. ~Forkless(w, tPid, tLive, tTail, state, tGone)
      <4>1. tPid[w[i]] \in Pids
        BY <3>1 DEF Killed, Process!Killable
      <4>2. Len(w) = 1 => i = 1
        BY <1>5
      <4> QED BY <4>1, <4>2, PidsArePositive DEF Forkless
    <3>3. Whole(u, tPid', tName', tLive', tTail', tProc', tOurs, tGone', tStale')
      BY <1>1, <1>3, <1>4, <1>5, <3>1, <3>2, KilledWhole
    <3>4. /\ tPid' \in [Addr -> Pids \cup {0}] /\ tName' \in [Addr -> Names \cup {Junk}]
          /\ tLive' \subseteq Addr /\ tTail' \in Addr \cup {NULL}
          /\ tProc' \in States /\ tGone' \subseteq Pids
      BY <1>1, <1>3, <1>5, <3>1, KilledTypes
    <3>5. Whole(u, tPid', tName', tLive', tTail', tProc', tOurs', tGone', tStale')
      BY <3>3
    <3> QED BY <2>1, <3>1, <3>4, <3>5
  <2>3. CASE tProc' = state /\ UNCHANGED <<tNext, tPid, tName, tLive, tHead, tTail, tGone>>
    <3>1. /\ tPid' \in [Addr -> Pids \cup {0}] /\ tName' \in [Addr -> Names \cup {Junk}]
          /\ tLive' \subseteq Addr /\ tTail' \in Addr \cup {NULL}
          /\ tProc' \in States /\ tGone' \subseteq Pids
      BY <1>3, <2>3 DEF Process!TypeOK
    <3>2. \/ Whole(w, tPid', tName', tLive', tTail', tProc', tOurs', tGone', tStale')
          \/ Forkless(w, tPid', tLive', tTail', tProc', tGone')
      BY <1>4, <2>3
    <3>3. IsChain(w, tHead', tNext')
      BY <2>3
    <3> QED BY <2>1, <2>3, <3>1, <3>2, <3>3
  <2> QED BY <2>1, <2>2, <2>3
<1>8. \A q \in Pids : state[q] = IF q = p /\ q \in tOurs THEN "reaped" ELSE tProc[q]
  BY <1>3
<1> QED BY <1>3, <1>4, <1>5, <1>6, <1>7, <1>8 DEF state

\* block for a name waits for one process and tries its name.
LEMMA BlocksIInv ==
  ASSUME TableIInv, ~tCrashed, tDoing = "nothing", NEW s \in Names, NEW stats \in BOOLEAN,
         Process!Block(s, stats)
  PROVE  TableIInv'
<1> DEFINE i == Process!EntryOf(s)
           p == tPid[Process!Way[i]]
           state == Process!Reaped({p})
<1>1. /\ i # 0
      /\ p \in tOurs => tProc[p] # "running"
      /\ IF stats THEN Process!Tried(s, state)
         ELSE tProc' = state /\ UNCHANGED <<tNext, tPid, tName, tLive, tHead, tTail, tGone>>
      /\ tStale' = tStale \cup {s}
      /\ tShot' = tShot \cup {q \in Process!Running(tGone') : q \notin tGone}
      /\ UNCHANGED <<tOurs, tCrashed, tDoing, tV, tImage, tUpdated, tTarget, tMissed, tAlone>>
  BY DEF Process!Block, Process!WaitReturns, Process!heap, Process!file
<1>2. Process!TypeOK /\ Aimed /\ Tabled
  BY DEF TableIInv
<1>3. PICK w : IsChain(w, tHead, tNext) /\ (~tAlone => Table(w))
  BY <1>2, TableIsList
<1>4. i \in 1..Len(w) /\ tName[w[i]] = s /\ p = tPid[w[i]]
  <2>1. Process!Way = w
    BY <1>3, ProcessWay
  <2> QED BY <1>1, <1>3, <2>1, EntryFound
<1>5. ~tAlone /\ Table(w)
  <2>1. tAlone => w = <<>>
    BY <1>2, <1>3, NoNodes DEF Tabled
  <2>2. w # <<>>
    BY <1>4
  <2> QED BY <1>3, <2>1, <2>2
<1> HIDE DEF p
<1>6. /\ state \in States
      /\ \/ Whole(w, tPid, tName, tLive, tTail, state, tOurs, tGone, tStale')
         \/ Forkless(w, tPid, tLive, tTail, state, tGone)
      /\ Process!Tried(s, state) =>
           /\ tNext' \in [Addr -> Addr \cup {NULL}] /\ tHead' \in Addr \cup {NULL}
           /\ tPid' \in [Addr -> Pids \cup {0}] /\ tName' \in [Addr -> Names \cup {Junk}]
           /\ tLive' \subseteq Addr /\ tTail' \in Addr \cup {NULL}
           /\ tProc' \in States /\ tGone' \subseteq Pids
           /\ \E u : /\ IsChain(u, tHead', tNext')
                     /\ \/ Whole(u, tPid', tName', tLive', tTail', tProc', tOurs', tGone',
                             tStale')
                        \/ Forkless(u, tPid', tLive', tTail', tProc', tGone')
                     /\ \/ Killed(i, w, u, state)
                        \/ UNCHANGED tGone
  <2>1. /\ \/ Whole(w, tPid, tName, tLive, tTail, tProc, tOurs, tGone, tStale)
           \/ Forkless(w, tPid, tLive, tTail, tProc, tGone)
        /\ tOurs' = tOurs /\ tStale' = tStale \cup {tName[w[i]]}
    BY <1>1, <1>4, <1>5 DEF Table
  <2>2. LET st == Process!Reaped({tPid[w[i]]})
            e == Process!EntryOf(tName[w[i]])
        IN /\ st \in States
           /\ \/ Whole(w, tPid, tName, tLive, tTail, st, tOurs, tGone, tStale')
              \/ Forkless(w, tPid, tLive, tTail, st, tGone)
           /\ Process!Tried(tName[w[i]], st) =>
                /\ tNext' \in [Addr -> Addr \cup {NULL}] /\ tHead' \in Addr \cup {NULL}
                /\ tPid' \in [Addr -> Pids \cup {0}] /\ tName' \in [Addr -> Names \cup {Junk}]
                /\ tLive' \subseteq Addr /\ tTail' \in Addr \cup {NULL}
                /\ tProc' \in States /\ tGone' \subseteq Pids
                /\ \E u : /\ IsChain(u, tHead', tNext')
                          /\ \/ Whole(u, tPid', tName', tLive', tTail', tProc', tOurs',
                                  tGone', tStale')
                             \/ Forkless(u, tPid', tLive', tTail', tProc', tGone')
                          /\ \/ Killed(e, w, u, st)
                             \/ UNCHANGED tGone
    <3> HIDE DEF i
    <3> QED BY <1>2, <1>3, <1>4, <2>1, WaitsThenTries
  <2> QED BY <1>4, <2>2
<1> HIDE DEF i, state
<1>7. tStale' \subseteq Names \cup {Junk}
  BY <1>1, <1>2 DEF Process!TypeOK
<1>8. CASE stats = TRUE
  <2>1. Process!Tried(s, state)
    BY <1>1, <1>8
  <2>2. /\ tNext' \in [Addr -> Addr \cup {NULL}] /\ tHead' \in Addr \cup {NULL}
        /\ tPid' \in [Addr -> Pids \cup {0}] /\ tName' \in [Addr -> Names \cup {Junk}]
        /\ tLive' \subseteq Addr /\ tTail' \in Addr \cup {NULL}
        /\ tProc' \in States /\ tGone' \subseteq Pids
    BY <1>6, <2>1
  <2>3. PICK u : /\ IsChain(u, tHead', tNext')
                 /\ \/ Whole(u, tPid', tName', tLive', tTail', tProc', tOurs', tGone', tStale')
                    \/ Forkless(u, tPid', tLive', tTail', tProc', tGone')
                 /\ Killed(i, w, u, state) \/ UNCHANGED tGone
    BY <1>6, <2>1
  <2>4. tShot' = tShot
    <3>1. tGone' \subseteq tGone \cup {p}
      BY <1>4, <2>3 DEF Killed
    <3> QED BY <1>1, <3>1 DEF Process!Running
  <2>5. Process!TypeOK'
    BY <1>1, <1>2, <1>7, <2>2, <2>4 DEF Process!TypeOK, States
  <2>6. Aimed'
    BY <1>1, <1>2, <2>4 DEF Aimed, Updating
  <2>7. Table(u)'
    BY <1>1, <2>3 DEF Table, Updating
  <2> QED BY <1>1, <1>5, <2>5, <2>6, <2>7 DEF TableIInv, Tabled
<1>9. CASE stats = FALSE
  <2>1. tProc' = state /\ UNCHANGED <<tNext, tPid, tName, tLive, tHead, tTail, tGone>>
    BY <1>1, <1>9
  <2>2. tShot' = tShot
    BY <1>1, <2>1 DEF Process!Running
  <2>3. Process!TypeOK'
    BY <1>1, <1>2, <1>6, <1>7, <2>1, <2>2 DEF Process!TypeOK, States
  <2>4. Aimed'
    BY <1>1, <1>2, <2>1, <2>2 DEF Aimed, Updating
  <2>5. Table(w)'
    BY <1>1, <1>3, <1>6, <2>1 DEF Table, Updating
  <2> QED BY <1>1, <1>5, <2>3, <2>4, <2>5 DEF TableIInv, Tabled
<1> QED BY <1>8, <1>9

\* shutdown_dead starts at the first entry.
LEMMA StartsShutdownIInv ==
  ASSUME TableIInv, ~tCrashed, tDoing = "nothing", Process!ShutdownDead
  PROVE  TableIInv'
<1>1. /\ tHead # NULL /\ tDoing' = "shutdown_dead" /\ tV' = tHead
      /\ UNCHANGED <<tNext, tPid, tName, tLive, tHead, tTail, tProc, tOurs, tCrashed, tImage,
                     tUpdated, tTarget, tStale, tShot, tMissed, tAlone, tGone>>
  BY DEF Process!ShutdownDead, Process!heap, Process!file, Process!past
<1>2. Process!TypeOK /\ Aimed /\ Tabled
  BY DEF TableIInv
<1>3. PICK w : ~tAlone /\ Table(w)
  BY <1>1, <1>2 DEF Tabled
<1>4. Process!TypeOK'
  BY <1>1, <1>2 DEF Process!TypeOK
<1>5. Aimed'
  BY <1>1, <1>2, <1>3 DEF Aimed, Updating, TableIInv
<1>6. Visiting(w, tV', tPid, tProc, tOurs)
  <2>1. Len(w) \in Nat /\ Len(w) # 0 /\ tHead = w[1]
    BY <1>1, <1>3 DEF Table, IsChain, Linking
  <2>2. 1 \in 1..Len(w) /\ \A j \in 1..(1 - 1) : FALSE
    BY <2>1
  <2> QED BY <1>1, <2>1, <2>2 DEF Visiting
<1>7. Table(w)'
  BY <1>1, <1>3, <1>6 DEF Table, Updating
<1> QED BY <1>1, <1>3, <1>4, <1>5, <1>7 DEF TableIInv, Tabled

\* shutdown_dead signals what it has waited for, also when it takes out an earlier entry
\* with the same name than the one it is at.
LEMMA TurnIInv ==
  ASSUME TableIInv, ~tCrashed, Process!ShutdownDeadTurn
  PROVE  TableIInv'
<1>1. Process!TypeOK /\ Aimed /\ Tabled
  BY DEF TableIInv
<1>2. tDoing = "shutdown_dead" /\ ~tAlone
  BY <1>1 DEF Process!ShutdownDeadTurn, Aimed
<1>3. PICK w : Table(w)
  BY <1>1, <1>2 DEF Tabled
<1>4. PICK k \in 1..Len(w) :
        tV = w[k] /\ \A j \in 1..(k - 1) : tPid[w[j]] \in tOurs => tProc[tPid[w[j]]] = "reaped"
  BY <1>2, <1>3 DEF Table, Visiting
<1> DEFINE p == tPid[w[k]]
           s == tName[w[k]]
           state == Process!Reaped({p})
           i == Process!EntryOf(s)
<1>5. /\ p \in tOurs => tProc[p] # "running"
      /\ Process!Tried(s, state)
      /\ tStale' = tStale \cup {s}
      /\ tShot' = tShot \cup {q \in Process!Running(tGone') : q \notin tGone}
      /\ tV' = tNext[w[k]]
      /\ tDoing' = IF tNext[w[k]] = NULL THEN "nothing" ELSE tDoing
      /\ UNCHANGED <<tOurs, tCrashed, tImage, tUpdated, tTarget, tMissed, tAlone>>
  BY <1>4 DEF Process!ShutdownDeadTurn, Process!WaitReturns, Process!file
<1>6. /\ w \in Seq(Addr) /\ Len(w) \in Nat /\ IsChain(w, tHead, tNext)
      /\ \A j \in 1..Len(w) : w[j] \in Addr /\ tNext[w[j]] = IF j = Len(w) THEN NULL ELSE w[j + 1]
      /\ \/ Whole(w, tPid, tName, tLive, tTail, tProc, tOurs, tGone, tStale)
         \/ Forkless(w, tPid, tLive, tTail, tProc, tGone)
  BY <1>3 DEF Table, IsChain, Linking
<1>7. /\ state \in States
      /\ \A q \in Pids : state[q] = IF q = p /\ q \in tOurs THEN "reaped" ELSE tProc[q]
      /\ i \in 1..Len(w) /\ ~(k < i)
      /\ tNext' \in [Addr -> Addr \cup {NULL}] /\ tHead' \in Addr \cup {NULL}
      /\ tPid' \in [Addr -> Pids \cup {0}] /\ tName' \in [Addr -> Names \cup {Junk}]
      /\ tLive' \subseteq Addr /\ tTail' \in Addr \cup {NULL}
      /\ tProc' \in States /\ tGone' \subseteq Pids
      /\ \E u : /\ IsChain(u, tHead', tNext')
                /\ \/ Whole(u, tPid', tName', tLive', tTail', tProc', tOurs', tGone', tStale')
                   \/ Forkless(u, tPid', tLive', tTail', tProc', tGone')
                /\ \/ Killed(i, w, u, state)
                   \/ /\ u = w /\ tProc' = state
                      /\ UNCHANGED <<tPid, tName, tGone>>
  <2>1. tOurs' = tOurs /\ tStale' = tStale \cup {s} /\ Process!Tried(s, state)
    BY <1>5
  <2> QED BY <1>1, <1>6, <2>1, WaitsThenTries
<1>8. PICK u : /\ IsChain(u, tHead', tNext')
               /\ \/ Whole(u, tPid', tName', tLive', tTail', tProc', tOurs', tGone', tStale')
                  \/ Forkless(u, tPid', tLive', tTail', tProc', tGone')
               /\ \/ Killed(i, w, u, state)
                  \/ /\ u = w /\ tProc' = state
                     /\ UNCHANGED <<tPid, tName, tGone>>
  BY <1>7
<1> HIDE DEF state, i
<1>9. tShot' = tShot
  <2>1. tGone' \subseteq tGone \cup {tPid[w[i]]}
    BY <1>8 DEF Killed
  <2>2. tPid[w[i]] \in tOurs => tProc[tPid[w[i]]] # "running"
    <3>1. CASE i = k
      BY <1>5, <3>1
    <3>2. CASE i # k
      <4>1. i \in 1..(k - 1)
        BY <1>6, <1>7, <3>2
      <4> QED BY <1>4, <4>1
    <3> QED BY <3>1, <3>2
  <2> QED BY <1>5, <2>1, <2>2 DEF Process!Running
<1>10. Process!TypeOK'
  <2>1. tStale' \subseteq Names \cup {Junk}
    BY <1>1, <1>5, <1>6 DEF Process!TypeOK
  <2>2. tV' \in Addr \cup {NULL} /\ tDoing' \in {"nothing", "shutdown_dead"}
    BY <1>1, <1>2, <1>5, <1>6 DEF Process!TypeOK
  <2> QED BY <1>1, <1>5, <1>7, <1>9, <2>1, <2>2 DEF Process!TypeOK, States
<1>11. Aimed'
  <2>1. tDoing' \in {"nothing", "shutdown_dead"}
    BY <1>2, <1>5
  <2>2. ~Updating(tDoing) /\ ~Updating(tDoing')
    BY <1>2, <2>1 DEF Updating
  <2>3. ~tCrashed /\ ~tAlone
    BY <1>2
  <2> QED BY <1>1, <1>5, <1>9, <2>2, <2>3 DEF Aimed
<1>12. ASSUME tDoing' = "shutdown_dead" PROVE Visiting(u, tV', tPid', tProc', tOurs')
  <2>1. tNext[w[k]] # NULL /\ k # Len(w) /\ k + 1 \in 1..Len(w) /\ tV' = w[k + 1] /\ k \in Nat
    BY <1>5, <1>6, <1>12
  <2>2. Whole(w, tPid, tName, tLive, tTail, tProc, tOurs, tGone, tStale)
    <3>1. Len(w) # 1
      BY <1>6, <2>1
    <3> QED BY <1>6, <3>1 DEF Forkless
  <2>3. \A j \in 1..Len(w) : tPid[w[j]] \in Pids
    BY <2>2 DEF Whole
  <2>4. \A j \in 1..k : j \in 1..Len(w) /\ (tPid[w[j]] \in tOurs => state[tPid[w[j]]] = "reaped")
    <3> SUFFICES ASSUME NEW j \in 1..k, tPid[w[j]] \in tOurs
                 PROVE  j \in 1..Len(w) /\ state[tPid[w[j]]] = "reaped"
      BY <1>6, <2>1
    <3>1. j \in 1..Len(w) /\ (j = k \/ j \in 1..(k - 1))
      BY <1>6, <2>1
    <3>2. tPid[w[j]] \in Pids
      BY <2>3, <3>1
    <3> QED BY <1>4, <1>7, <3>1, <3>2
  <2>5. CASE u = w /\ tProc' = state /\ UNCHANGED <<tPid, tName, tGone>>
    <3>1. \A j \in 1..((k + 1) - 1) : tPid'[u[j]] \in tOurs' => tProc'[tPid'[u[j]]] = "reaped"
      <4>1. (k + 1) - 1 = k
        BY <2>1
      <4>2. \A j \in 1..k : tPid[w[j]] \in tOurs => state[tPid[w[j]]] = "reaped"
        BY <2>4
      <4>3. u = w /\ tProc' = state /\ tPid' = tPid /\ tOurs' = tOurs
        BY <1>5, <2>5
      <4> QED BY <4>1, <4>2, <4>3
    <3> QED BY <2>1, <2>5, <3>1 DEF Visiting
  <2>6. CASE Killed(i, w, u, state)
    <3>1. /\ Shorter(u, w, i) /\ tPid' = [tPid EXCEPT ![w[i]] = 0]
          /\ tProc' = Process!Signalled({tPid[w[i]]}, state)
      BY <2>6 DEF Killed
    <3>2. \A q \in Pids : state[q] = "reaped" => tProc'[q] = "reaped"
      BY <3>1 DEF Process!Signalled
    <3>3. Len(u) = Len(w) - 1 /\ \A m \in 1..Len(u) : u[m] = IF m < i THEN w[m] ELSE w[m + 1]
      BY <3>1 DEF Shorter
    <3>4. k \in 1..Len(u) /\ u[k] = w[k + 1]
      BY <1>6, <1>7, <2>1, <3>3
    <3>5. ASSUME NEW j \in 1..(k - 1), tPid'[u[j]] \in tOurs
          PROVE  tProc'[tPid'[u[j]]] = "reaped"
      <4>1. PICK m \in 1..k : m # i /\ u[j] = w[m]
        <5>1. j \in 1..Len(u) /\ j \in 1..k /\ j + 1 \in 1..k
          BY <2>1, <3>4
        <5>2. CASE j < i
          BY <3>3, <5>1, <5>2
        <5>3. CASE ~(j < i)
          <6>1. j + 1 # i
            BY <1>7, <5>1, <5>3
          <6> QED BY <3>3, <5>1, <5>3, <6>1
        <5> QED BY <5>2, <5>3
      <4>2. m \in 1..Len(w) /\ w[m] # w[i] /\ w[m] \in Addr
        BY <1>6, <1>7, <2>4, <4>1 DEF IsChain, Linking
      <4>3. tPid'[u[j]] = tPid[w[m]]
        BY <1>1, <3>1, <4>1, <4>2 DEF Process!TypeOK
      <4>4. tPid[w[m]] \in Pids /\ state[tPid[w[m]]] = "reaped"
        BY <2>3, <2>4, <3>5, <4>2, <4>3
      <4> QED BY <3>2, <4>3, <4>4
    <3> QED BY <1>5, <2>1, <3>4, <3>5 DEF Visiting
  <2> QED BY <1>8, <2>5, <2>6
<1>13. Table(u)'
  <2>1. ~Updating(tDoing')
    BY <1>2, <1>5 DEF Updating
  <2> QED BY <1>8, <1>12, <2>1 DEF Table
<1> QED BY <1>2, <1>5, <1>10, <1>11, <1>13 DEF TableIInv, Tabled

\* update opens a new file and starts at the first entry.
LEMMA UpdateIInv ==
  ASSUME TableIInv, ~tCrashed, tDoing = "nothing", Process!Update
  PROVE  TableIInv'
<1>1. /\ tUpdated' = TRUE /\ tImage' = {<<>>}
      /\ tTarget' = [i \in DOMAIN Process!Way |-> <<tPid[Process!Way[i]], tName[Process!Way[i]]>>]
      /\ IF tHead # NULL THEN tDoing' = "update_pid" /\ tV' = tHead ELSE UNCHANGED <<tDoing, tV>>
      /\ UNCHANGED <<tNext, tPid, tName, tLive, tHead, tTail, tProc, tOurs, tCrashed, tStale,
                     tShot, tMissed, tAlone, tGone>>
  BY DEF Process!Update, Process!heap, Process!past
<1>2. Process!TypeOK /\ Aimed /\ Tabled
  BY DEF TableIInv
<1>3. PICK w : IsChain(w, tHead, tNext) /\ (~tAlone => Table(w))
  BY <1>2, TableIsList
<1>4. w \in Seq(Addr) /\ Len(w) \in Nat /\ tHead = IF Len(w) = 0 THEN NULL ELSE w[1]
  BY <1>3 DEF IsChain, Linking
<1>5. tTarget' = [i \in 1..Len(w) |-> <<tPid[w[i]], tName[w[i]]>>]
  <2>1. Process!Way = w /\ DOMAIN w = 1..Len(w)
    BY <1>3, <1>4, ProcessWay
  <2> QED BY <1>1, <2>1
<1>6. tTarget' \in Lines
  <2>1. \A i \in 1..Len(w) : w[i] \in Addr
    BY <1>4
  <2>2. \A i \in 1..Len(w) : <<tPid[w[i]], tName[w[i]]>> \in Line
    BY <1>2, <2>1 DEF Process!TypeOK, Line
  <2> QED BY <1>4, <1>5, <2>2 DEF Lines
<1>7. Process!TypeOK'
  BY <1>1, <1>2 DEF Process!TypeOK
<1>8. CASE tHead = NULL
  <2>1. Len(w) = 0
    BY <1>4, <1>8, NullIsNoAddress
  <2>2. tTarget' = <<>>
    BY <1>5, <2>1
  <2>3. Aimed'
    BY <1>1, <1>2, <1>6, <1>8, <2>2 DEF Aimed, Updating, Lines
  <2>4. ~tAlone => Table(w)'
    BY <1>1, <1>3, <1>8 DEF Table, Updating
  <2> QED BY <1>1, <1>2, <1>7, <2>3, <2>4 DEF TableIInv, Tabled
<1>9. CASE tHead # NULL
  <2>1. tDoing' = "update_pid" /\ tV' = tHead /\ ~tAlone
    BY <1>1, <1>2, <1>9 DEF Tabled
  <2>2. Aimed'
    BY <1>1, <1>2, <1>6, <2>1 DEF Aimed, Updating, Lines
  <2>3. Writing(w, tV', tPid', tName', tDoing', tImage', tTarget')
    <3>1. Len(w) # 0 /\ tV' = w[1]
      BY <1>4, <1>9, <2>1
    <3>2. 1 \in 1..Len(w)
      BY <1>4, <3>1
    <3>3. Len(tTarget') = Len(w)
            /\ \A i \in 1..Len(w) : tTarget'[i] = <<tPid'[w[i]], tName'[w[i]]>>
      <4>1. Len(tTarget') = Len(w)
              /\ \A i \in 1..Len(w) : tTarget'[i] = <<tPid[w[i]], tName[w[i]]>>
        BY <1>4, <1>5
      <4>2. tPid' = tPid /\ tName' = tName
        BY <1>1
      <4> QED BY <4>1, <4>2
    <3>4. <<>> \in Lines /\ Len(<<>>) = 1 - 1 /\ \A j \in 1..(1 - 1) : FALSE
      BY DEF Lines
    <3>5. Imaged(<<>>, w, 1, tPid', tName', tDoing', tTarget')
      BY <2>1, <3>3, <3>4 DEF Imaged
    <3> QED BY <1>1, <3>1, <3>2, <3>5 DEF Writing
  <2>4. Table(w)'
    BY <1>1, <1>3, <2>1, <2>3 DEF Table
  <2> QED BY <1>1, <1>7, <2>1, <2>2, <2>4 DEF TableIInv, Tabled
<1> QED BY <1>8, <1>9

\* It writes the number of an entry, then its name, and goes on to the next.
LEMMA UpdatesIInv ==
  ASSUME TableIInv, ~tCrashed, Process!UpdatePid \/ Process!UpdateName
  PROVE  TableIInv'
<1>1. Process!TypeOK /\ Aimed /\ Tabled
  BY DEF TableIInv
<1>2. Updating(tDoing) /\ tUpdated /\ ~tAlone
  BY <1>1 DEF Process!UpdatePid, Process!UpdateName, Aimed, Updating
<1>3. PICK w : Table(w)
  BY <1>1, <1>2 DEF Tabled
<1>4. PICK k \in 1..Len(w) :
        tV = w[k] /\ \E f : tImage = {f} /\ Imaged(f, w, k, tPid, tName, tDoing, tTarget)
  BY <1>2, <1>3 DEF Table, Writing
<1>5. PICK f : tV = w[k] /\ tImage = {f} /\ Imaged(f, w, k, tPid, tName, tDoing, tTarget)
  BY <1>4
<1>6. /\ f \in Lines /\ Len(tTarget) = Len(w)
      /\ \A i \in 1..Len(w) : tTarget[i] = <<tPid[w[i]], tName[w[i]]>>
      /\ Len(f) = IF tDoing = "update_pid" THEN k - 1 ELSE k
      /\ \A j \in 1..(k - 1) : f[j] = tTarget[j]
  BY <1>5 DEF Imaged
<1>7. f \in Lines
  BY <1>6
<1>8. /\ w \in Seq(Addr) /\ Len(w) \in Nat /\ k \in Nat /\ w[k] \in Addr
      /\ tNext[w[k]] = IF k = Len(w) THEN NULL ELSE w[k + 1]
  BY <1>3 DEF Table, IsChain, Linking
<1>9. <<tPid[w[k]], Junk>> \in Line
      /\ tTarget[k] = <<tPid[w[k]], tName[w[k]]>>
      /\ tTarget[k] \in Line
  <2>1. tPid[w[k]] \in Pids \cup {0} /\ tName[w[k]] \in Names \cup {Junk}
    BY <1>1, <1>8 DEF Process!TypeOK
  <2>2. tTarget[k] = <<tPid[w[k]], tName[w[k]]>>
    BY <1>6
  <2> QED BY <2>1, <2>2 DEF Line
<1>10. tTarget \in Lines
  BY <1>1 DEF Aimed, Lines
<1>11. UNCHANGED <<tNext, tPid, tName, tLive, tHead, tTail, tProc, tOurs, tCrashed,
         tUpdated, tTarget,
                   tStale, tShot, tMissed, tAlone, tGone>>
  BY DEF Process!UpdatePid, Process!UpdateName, Process!heap, Process!past
<1>12. ASSUME Process!UpdatePid PROVE TableIInv'
  <2>1. /\ tDoing = "update_pid" /\ tDoing' = "update_name" /\ tV' = tV
        /\ tImage' = {Append(g, <<tPid[tV], Junk>>) : g \in tImage}
    BY <1>12 DEF Process!UpdatePid
  <2> DEFINE h == Append(f, <<tPid[w[k]], Junk>>)
  <2>2. tImage' = {h} /\ Len(f) = k - 1
    BY <1>5, <1>6, <2>1
  <2>3. h \in Lines /\ Len(h) = k /\ h[k] = <<tPid[w[k]], Junk>>
          /\ \A j \in 1..(k - 1) : h[j] = f[j]
    <3>1. k \in Nat /\ <<tPid[w[k]], Junk>> \in Line
      BY <1>8, <1>9
    <3> DEFINE e == <<tPid[w[k]], Junk>>
    <3> HIDE DEF e
    <3>2. e \in Line
      BY <3>1 DEF e
    <3>3. Append(f, e) \in Lines /\ Len(Append(f, e)) = k /\ Append(f, e)[k] = e
      BY <1>7, <2>2, <3>1, <3>2 DEF Lines
    <3>4. \A j \in 1..(k - 1) : Append(f, e)[j] = f[j]
      BY <1>7, <2>2, <3>1, <3>2 DEF Lines
    <3> QED BY <3>3, <3>4 DEF e
  <2> HIDE DEF h
  <2>4. Writing(w, tV', tPid', tName', tDoing', tImage', tTarget')
    <3>1. Imaged(h, w, k, tPid', tName', tDoing', tTarget')
      BY <1>6, <1>11, <2>1, <2>3 DEF Imaged
    <3> QED BY <1>5, <2>1, <2>2, <3>1 DEF Writing
  <2>5. Table(w)'
    BY <1>3, <1>11, <2>1, <2>4 DEF Table
  <2>6. Process!TypeOK'
    BY <1>1, <1>11, <2>1 DEF Process!TypeOK
  <2>7. Aimed'
    <3>1. Updating(tDoing')
      BY <2>1 DEF Updating
    <3> QED BY <1>1, <1>2, <1>11, <3>1 DEF Aimed
  <2> QED BY <1>2, <1>11, <2>5, <2>6, <2>7 DEF TableIInv, Tabled
<1>13. ASSUME Process!UpdateName PROVE TableIInv'
  <2>1. /\ tDoing = "update_name" /\ tV' = tNext[tV]
        /\ tDoing' = IF tNext[tV] = NULL THEN "nothing" ELSE "update_pid"
        /\ tImage' = {[g EXCEPT ![Len(g)] = <<tPid[tV], tName[tV]>>] : g \in tImage}
    BY <1>13 DEF Process!UpdateName
  <2> DEFINE h == [f EXCEPT ![k] = tTarget[k]]
  <2>2. tImage' = {h} /\ Len(f) = k
    <3>1. Len(f) = k /\ <<tPid[tV], tName[tV]>> = tTarget[k]
      BY <1>5, <1>6, <1>9, <2>1
    <3>2. tImage' = {[f EXCEPT ![Len(f)] = <<tPid[tV], tName[tV]>>]}
      BY <1>5, <2>1
    <3> QED BY <3>1, <3>2
  <2>3. h \in Lines /\ Len(h) = k /\ \A j \in 1..k : h[j] = tTarget[j]
    <3>1. f \in Seq(Line) /\ DOMAIN f = 1..k
      <4>1. Len(f) = k
        BY <2>2
      <4> QED BY <1>7, <4>1 DEF Lines
    <3>2. h \in Lines /\ Len(h) = k
      BY <1>8, <1>9, <2>2, <3>1 DEF Lines
    <3>3. ASSUME NEW j \in 1..k PROVE h[j] = tTarget[j]
      <4>1. j = k \/ j \in 1..(k - 1)
        BY <1>8
      <4> QED BY <1>6, <3>1, <4>1
    <3> QED BY <3>2, <3>3
  <2> HIDE DEF h
  <2>4. tNext[tV] = IF k = Len(w) THEN NULL ELSE w[k + 1]
    BY <1>5, <1>8
  <2>5. Process!TypeOK'
    <3>1. tV' \in Addr \cup {NULL} /\ tDoing' \in {"nothing", "update_pid"}
      BY <1>1, <1>5, <1>8, <2>1 DEF Process!TypeOK
    <3> QED BY <1>1, <1>11, <3>1 DEF Process!TypeOK
  <2>6. CASE k = Len(w)
    <3>1. tDoing' = "nothing"
      BY <2>1, <2>4, <2>6
    <3>2. h = tTarget
      <4>1. /\ h \in Seq(Line)
            /\ tTarget \in Seq(Line)
            /\ Len(h) = Len(tTarget) /\ \A j \in 1..Len(h) : h[j] = tTarget[j]
        BY <1>6, <1>10, <2>3, <2>6 DEF Lines
      <4> HIDE DEF Lines
      <4> QED BY <4>1, SeqEqual
    <3>3. Aimed'
      BY <1>1, <1>2, <1>11, <2>2, <3>1, <3>2 DEF Aimed, Updating
    <3>4. Table(w)'
      BY <1>3, <1>11, <3>1 DEF Table, Updating
    <3> QED BY <1>2, <1>11, <2>5, <3>3, <3>4 DEF TableIInv, Tabled
  <2>7. CASE k # Len(w)
    <3>1. k + 1 \in 1..Len(w) /\ (k + 1) - 1 = k
      BY <1>8, <2>7
    <3>2. w[k + 1] # NULL
      BY <1>8, <3>1, NullIsNoAddress
    <3>3. tDoing' = "update_pid" /\ tV' = w[k + 1]
      BY <2>1, <2>4, <2>7, <3>2
    <3>4. Writing(w, tV', tPid', tName', tDoing', tImage', tTarget')
      <4>1. Imaged(h, w, k + 1, tPid', tName', tDoing', tTarget')
        BY <1>6, <1>11, <2>3, <3>1, <3>3 DEF Imaged
      <4> QED BY <2>2, <3>1, <3>3, <4>1 DEF Writing
    <3>5. Table(w)'
      BY <1>3, <1>11, <3>3, <3>4 DEF Table
    <3>6. Aimed'
      <4>1. Updating(tDoing')
        BY <3>3 DEF Updating
      <4> QED BY <1>1, <1>2, <1>11, <4>1 DEF Aimed
    <3> QED BY <1>2, <1>11, <2>5, <3>5, <3>6 DEF TableIInv, Tabled
  <2> QED BY <2>6, <2>7
<1> QED BY <1>12, <1>13

\* Every step keeps the invariant.
LEMMA TableNext == TableIInv /\ [Process!Next]_Process!vars => TableIInv'
<1> SUFFICES ASSUME TableIInv, [Process!Next]_Process!vars PROVE TableIInv'
  OBVIOUS
<1>1. CASE UNCHANGED Process!vars
  <2>1. UNCHANGED <<tNext, tPid, tName, tLive, tHead, tTail, tProc, tOurs, tCrashed, tDoing, tV,
                    tImage, tStale, tShot, tMissed, tAlone, tGone, tUpdated, tTarget>>
    BY <1>1 DEF Process!vars, Process!heap, Process!file, Process!past
  <2>2. Process!TypeOK' /\ Aimed'
    BY <2>1 DEF TableIInv, Process!TypeOK, Aimed
  <2>3. \A w : Table(w) => Table(w)'
    BY <2>1 DEF Table
  <2> QED BY <2>1, <2>2, <2>3 DEF TableIInv, Tabled
<1>2. CASE Process!Next
  <2>1. ~tCrashed
    BY <1>2 DEF Process!Next
  <2>2. ASSUME tDoing = "nothing", Process!Calls PROVE TableIInv'
    <3>1. ASSUME NEW s \in Names, NEW mine \in BOOLEAN, Process!ProcessCreate(s, mine)
          PROVE  TableIInv'
      BY <2>1, <2>2, <3>1, CreatesEntryIInv
    <3>2. ASSUME NEW s \in Names, Process!ProcessKill(s) PROVE TableIInv'
      BY <2>1, <2>2, <3>2, KillsIInv
    <3>3. ASSUME NEW s \in Names, NEW stats \in BOOLEAN, Process!Block(s, stats) PROVE TableIInv'
      BY <2>1, <2>2, <3>3, BlocksIInv
    <3>4. ASSUME NEW stats \in BOOLEAN, Process!BlockAll(stats) PROVE TableIInv'
      BY <2>1, <2>2, <3>4, BlocksAllIInv
    <3>5. CASE Process!ForkFails \/ Process!ShutDown \/ Process!ShutdownDead \/ Process!Update
      BY <2>1, <2>2, <3>5, ForkFailsIInv, ShutsDownIInv, StartsShutdownIInv, UpdateIInv
    <3> QED BY <2>2, <3>1, <3>2, <3>3, <3>4, <3>5 DEF Process!Calls
  <2>3. ASSUME NEW p \in Pids, Process!Exits(p) \/ Process!IsReaped(p) PROVE TableIInv'
    BY <2>1, <2>3, ExitsIInv
  <2>4. CASE Process!ShutdownDeadTurn \/ Process!UpdatePid \/ Process!UpdateName
    BY <2>1, <2>4, TurnIInv, UpdatesIInv
  <2> QED BY <1>2, <2>2, <2>3, <2>4 DEF Process!Next
<1> QED BY <1>1, <1>2

\* What the invariant is for.
LEMMA TableKeeps ==
  TableIInv => Process!TableIsWhole /\ Process!SignalsAreAimed /\ Process!ImageIsTable
<1> SUFFICES ASSUME TableIInv
             PROVE  Process!TableIsWhole /\ Process!SignalsAreAimed /\ Process!ImageIsTable
  OBVIOUS
<1>1. Aimed /\ (~tCrashed => Tabled)
  BY DEF TableIInv
<1>2. Process!SignalsAreAimed
  BY <1>1 DEF Aimed, Process!SignalsAreAimed
<1>3. Process!TableIsWhole
  <2>1. SUFFICES ASSUME ~tCrashed, ~tAlone, NEW p \in Pids, tProc[p] # "unborn", p \notin tGone
                 PROVE  p \in {tPid[a] : a \in Process!Nodes \cap tLive}
    BY DEF Process!TableIsWhole
  <2>2. PICK w : Table(w)
    BY <1>1, <2>1 DEF Tabled
  <2>3. Whole(w, tPid, tName, tLive, tTail, tProc, tOurs, tGone, tStale)
    BY <2>1, <2>2 DEF Table, Forkless
  <2>4. PICK i \in 1..Len(w) : tPid[w[i]] = p /\ w[i] \in tLive
    BY <2>1, <2>3 DEF Whole
  <2>5. w[i] \in Process!Nodes
    BY <2>2, ProcessNodes DEF Table
  <2> QED BY <2>4, <2>5
<1>4. Process!ImageIsTable
  <2> USE DEF Process!ProcessInit
  <2>1. tTarget \in Lines /\ Len(tTarget) \in Nat
    BY <1>1 DEF Aimed, Lines
  <2>2. CASE ~Updating(tDoing)
    <3>1. tUpdated => tImage = {tTarget}
      BY <1>1, <2>2 DEF Aimed
    <3>2. Len(tTarget) <= Len(tTarget)
      BY <2>1
    <3> QED BY <3>1, <3>2 DEF Process!ImageIsTable
  <2>3. CASE Updating(tDoing)
    <3>1. ~tCrashed /\ ~tAlone
      BY <1>1, <2>3 DEF Aimed, Updating
    <3>2. PICK w : Table(w)
      BY <1>1, <3>1 DEF Tabled
    <3>3. Len(w) \in Nat
      BY <3>2 DEF Table, IsChain, Linking
    <3>4. PICK k \in 1..Len(w) :
            \E f : tImage = {f} /\ Imaged(f, w, k, tPid, tName, tDoing, tTarget)
      BY <2>3, <3>2 DEF Table, Writing
    <3>5. PICK f : tImage = {f} /\ Imaged(f, w, k, tPid, tName, tDoing, tTarget)
      BY <3>4
    <3>6. /\ f \in Lines /\ Len(tTarget) = Len(w)
          /\ \A i \in 1..Len(w) : tTarget[i] = <<tPid[w[i]], tName[w[i]]>>
          /\ Len(f) = IF tDoing = "update_pid" THEN k - 1 ELSE k
          /\ \A j \in 1..(k - 1) : f[j] = tTarget[j]
          /\ tDoing = "update_name" => f[k] = <<tPid[w[k]], Junk>>
      BY <3>5 DEF Imaged
    <3>7. k \in Nat /\ k <= Len(w) /\ k >= 1
      BY <3>3
    <3>8. f \in Lines
      BY <3>6
    <3>9. Len(tTarget) = Len(w) /\ Len(f) = IF tDoing = "update_pid" THEN k - 1 ELSE k
      BY <3>6
    <3>10. DOMAIN f = 1..Len(f)
      BY <3>8 DEF Lines
    <3>11. Len(f) \in {k - 1, k} /\ (Len(f) = k => tDoing # "update_pid")
      BY <3>7, <3>9
    <3>12. Len(f) <= Len(tTarget)
      BY <3>3, <3>7, <3>9, <3>11
    <3>13. ASSUME NEW i \in DOMAIN f
           PROVE  \/ f[i] = tTarget[i]
                  \/ i = Len(f) /\ tDoing = "update_name" /\ f[i] = <<tTarget[i][1], Junk>>
      <4>1. i \in 1..Len(f)
        BY <3>10, <3>13
      <4>2. ASSUME i \in 1..(k - 1) PROVE f[i] = tTarget[i]
        BY <3>6, <4>2
      <4>3. ASSUME i = k, Len(f) = k
            PROVE  tDoing = "update_name" /\ f[i] = <<tTarget[i][1], Junk>>
        <5>1. tDoing = "update_name"
          BY <2>3, <3>11, <4>3 DEF Updating
        <5>2. f[k] = <<tPid[w[k]], Junk>> /\ tTarget[k] = <<tPid[w[k]], tName[w[k]]>>
          BY <3>6, <5>1
        <5>3. tTarget[k][1] = tPid[w[k]]
          BY <5>2
        <5> QED BY <4>3, <5>1, <5>2, <5>3
      <4>4. CASE Len(f) = k - 1
        BY <4>1, <4>2, <4>4
      <4>5. CASE Len(f) = k
        <5>1. i \in 1..(k - 1) \/ i = k
          BY <3>7, <4>1, <4>5
        <5> QED BY <4>2, <4>3, <4>5, <5>1
      <4> QED BY <3>11, <4>4, <4>5
    <3>14. tDoing \in {"update_pid", "update_name"}
      BY <2>3 DEF Updating
    <3> QED BY <3>5, <3>12, <3>13, <3>14 DEF Process!ImageIsTable
  <2> QED BY <2>2, <2>3
<1> QED BY <1>2, <1>3, <1>4
=============================================================================
