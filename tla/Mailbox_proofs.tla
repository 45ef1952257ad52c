---------------------------- MODULE Mailbox_proofs ----------------------------
(***************************************************************************)
(* Proofs about the mailbox, for any number of names, uploads and syncs    *)
(* and any file size: types, and that a receiver keeps its place in the    *)
(* stream as long as every announced size comes true.                      *)
(***************************************************************************)
EXTENDS Mailbox, FiniteSetTheorems, SequenceTheorems, TLAPS

-----------------------------------------------------------------------------
(* Streams: a header announces s units, which follow it *)

\* What follows place k of the stream w, behind an announcement of s units, when
\* `rest' units have been announced and not sent.
Fits(w, k, s, rest) ==
  /\ \A j \in 1..Len(w) : k < j /\ j <= k + s => w[j].type = "unit"
  /\ k + s < Len(w) => w[k + s + 1].type # "unit"
  /\ k + s >= Len(w) => rest = k + s - Len(w)

\* The receiver expects `left' units first.
FramedSeq(w, left, rest) ==
  /\ Fits(w, 0, left, rest)
  /\ \A k \in 1..Len(w) : w[k].type = "header" => Fits(w, k, w[k].size, rest)

LEMMA TokenKinds ==
  /\ \A t \in Tokens : t.type \in {"header", "unit", "eof"}
  /\ \A t \in Tokens : t.type = "header" => t.size \in 0..Size /\ t.name \in Names
  /\ \A t \in Tokens : t.type = "eof" => t = Eof
  /\ \A t \in Tokens : t.type = "unit" => \E u \in Units : t = Unit(u)
  /\ \A u \in Units : Unit(u) \in Tokens /\ Unit(u).type = "unit" /\ Unit(u).of = u
  /\ \A n \in Names : \A s \in 0..Size :
        /\ Header(n, s) \in Tokens /\ Header(n, s).type = "header"
        /\ Header(n, s).size = s /\ Header(n, s).name = n
  /\ Eof \in Tokens /\ Eof.type = "eof"
<1>1. ASSUME NEW u \in Units
      PROVE  Unit(u) \in Tokens /\ Unit(u).type = "unit" /\ Unit(u).of = u
  BY DEF Tokens, Unit
<1>2. ASSUME NEW n \in Names, NEW s \in 0..Size
      PROVE  /\ Header(n, s) \in Tokens /\ Header(n, s).type = "header"
             /\ Header(n, s).size = s /\ Header(n, s).name = n
  BY DEF Tokens, Header
<1>3. Eof \in Tokens /\ Eof.type = "eof"
  BY DEF Tokens, Eof
<1>4. ASSUME NEW t \in Tokens
      PROVE  \/ t.type = "header" /\ t.size \in 0..Size /\ t.name \in Names
             \/ t.type = "unit" /\ \E u \in Units : t = Unit(u)
             \/ t.type = "eof" /\ t = Eof
  <2>1. CASE t \in [type : {"header"}, name : Names, size : 0 .. Size]
    BY <2>1
  <2>2. CASE t \in {Unit(u) : u \in Units}
    BY <2>2, <1>1
  <2>3. CASE t = Eof
    BY <2>3, <1>3
  <2> QED BY <2>1, <2>2, <2>3 DEF Tokens
<1> QED BY <1>1, <1>2, <1>3, <1>4

LEMMA AppendUnit ==
  ASSUME NEW w \in Seq(Tokens), NEW left \in Nat, NEW rest \in Nat, rest > 0,
         FramedSeq(w, left, rest), NEW t \in Tokens, t.type = "unit"
  PROVE  FramedSeq(Append(w, t), left, rest - 1)
<1> DEFINE v == Append(w, t)
<1>1. /\ v \in Seq(Tokens) /\ Len(v) = Len(w) + 1 /\ v[Len(v)] = t
      /\ \A k \in 1..Len(w) : v[k] = w[k]
  OBVIOUS
<1>2. Len(w) \in Nat
  OBVIOUS
<1> HIDE DEF v
<1>3. ASSUME NEW k \in 0..Len(w), NEW s \in Nat, Fits(w, k, s, rest)
      PROVE  Fits(v, k, s, rest - 1)
  <2>1. ASSUME NEW j \in 1..Len(v), k < j, j <= k + s PROVE v[j].type = "unit"
    <3>1. CASE j \in 1..Len(w)
      <4>1. v[j] = w[j]
        BY <1>1, <3>1
      <4> QED BY <1>3, <2>1, <3>1, <4>1 DEF Fits
    <3>2. CASE j = Len(v)
      BY <1>1, <3>2
    <3> QED BY <1>1, <1>2, <3>1, <3>2
  <2>2. ASSUME k + s < Len(v) PROVE v[k + s + 1].type # "unit"
    <3>1. k + s < Len(w)
      BY <1>1, <1>2, <1>3, <2>2 DEF Fits
    <3>2. k + s + 1 \in 1..Len(w)
      BY <1>2, <3>1
    <3>3. v[k + s + 1] = w[k + s + 1]
      BY <1>1, <3>2
    <3> QED BY <1>3, <3>1, <3>3 DEF Fits
  <2>3. ASSUME k + s >= Len(v) PROVE rest - 1 = k + s - Len(v)
    BY <1>1, <1>2, <1>3, <2>3 DEF Fits
  <2> QED BY <2>1, <2>2, <2>3 DEF Fits
<1>4. Fits(v, 0, left, rest - 1)
  BY <1>2, <1>3 DEF FramedSeq
<1>5. ASSUME NEW k \in 1..Len(v), v[k].type = "header"
      PROVE  Fits(v, k, v[k].size, rest - 1)
  <2>1. k \in 1..Len(w) /\ v[k] = w[k] /\ w[k] \in Tokens
    BY <1>1, <1>2, <1>5
  <2> QED BY <2>1, <1>2, <1>3, <1>5, TokenKinds, SizeAssumption DEF FramedSeq
<1> QED BY <1>4, <1>5 DEF FramedSeq, v

\* Between two files, whatever is no payload may come.
LEMMA AppendOther ==
  ASSUME NEW w \in Seq(Tokens), NEW left \in Nat, FramedSeq(w, left, 0),
         NEW t \in Tokens, t.type # "unit",
         NEW rest \in Nat, t.type = "header" => rest = t.size
  PROVE  FramedSeq(Append(w, t), left, rest)
<1> DEFINE v == Append(w, t)
<1>1. /\ v \in Seq(Tokens) /\ Len(v) = Len(w) + 1 /\ v[Len(v)] = t
      /\ \A k \in 1..Len(w) : v[k] = w[k]
  OBVIOUS
<1>2. Len(w) \in Nat
  OBVIOUS
<1> HIDE DEF v
<1>3. ASSUME NEW k \in 0..Len(w), NEW s \in Nat, Fits(w, k, s, 0)
      PROVE  Fits(v, k, s, rest)
  <2>1. k + s \in Nat /\ k + s <= Len(w)
    BY <1>2, <1>3 DEF Fits
  <2>2. ASSUME NEW j \in 1..Len(v), k < j, j <= k + s PROVE v[j].type = "unit"
    <3>1. j \in 1..Len(w)
      BY <1>1, <1>2, <2>1, <2>2
    <3>2. v[j] = w[j]
      BY <1>1, <3>1
    <3> QED BY <1>3, <2>2, <3>1, <3>2 DEF Fits
  <2>3. v[k + s + 1].type # "unit"
    BY <1>1, <1>2, <1>3, <2>1 DEF Fits
  <2> QED BY <1>1, <1>2, <2>1, <2>2, <2>3 DEF Fits
<1>4. Fits(v, 0, left, rest)
  BY <1>2, <1>3 DEF FramedSeq
<1>5. ASSUME NEW k \in 1..Len(v), v[k].type = "header"
      PROVE  Fits(v, k, v[k].size, rest)
  <2>1. CASE k \in 1..Len(w)
    <3>1. v[k] = w[k] /\ w[k] \in Tokens
      BY <1>1, <2>1
    <3> QED BY <3>1, <2>1, <1>2, <1>3, <1>5, TokenKinds, SizeAssumption DEF FramedSeq
  <2>2. CASE k = Len(v)
    BY <2>2, <1>1, <1>2, <1>5, TokenKinds, SizeAssumption DEF Fits
  <2> QED BY <2>1, <2>2, <1>1, <1>2
<1> QED BY <1>4, <1>5 DEF FramedSeq, v

\* Taking the first token moves all places by one.
LEMMA TailFits ==
  ASSUME NEW w \in Seq(Tokens), w # <<>>, NEW k \in 1..Len(w), NEW s \in Nat,
         NEW rest \in Nat, Fits(w, k, s, rest)
  PROVE  Fits(Tail(w), k - 1, s, rest)
<1>1. /\ Len(w) \in Nat \ {0} /\ Len(Tail(w)) = Len(w) - 1
      /\ \A j \in 1..(Len(w) - 1) : Tail(w)[j] = w[j + 1]
  BY HeadTailProperties, EmptySeq
<1> QED BY <1>1 DEF Fits

LEMMA TailHeaders ==
  ASSUME NEW w \in Seq(Tokens), w # <<>>, NEW left \in Nat, NEW rest \in Nat,
         FramedSeq(w, left, rest), NEW k \in 1..Len(Tail(w)), Tail(w)[k].type = "header"
  PROVE  Fits(Tail(w), k, Tail(w)[k].size, rest)
<1>1. /\ Len(w) \in Nat /\ k + 1 \in 1..Len(w) /\ Tail(w)[k] = w[k + 1]
      /\ w[k + 1] \in Tokens
  BY HeadTailProperties, EmptySeq
<1>2. w[k + 1].size \in Nat
  BY <1>1, TokenKinds, SizeAssumption
<1>3. Fits(w, k + 1, w[k + 1].size, rest)
  BY <1>1 DEF FramedSeq
<1>4. Fits(Tail(w), (k + 1) - 1, w[k + 1].size, rest)
  BY <1>1, <1>2, <1>3, TailFits
<1> QED BY <1>1, <1>4

LEMMA TakeHeader ==
  ASSUME NEW w \in Seq(Tokens), w # <<>>, NEW left \in Nat, NEW rest \in Nat,
         FramedSeq(w, left, rest), Head(w).type = "header"
  PROVE  FramedSeq(Tail(w), Head(w).size, rest)
<1>1. Len(w) \in Nat \ {0} /\ Head(w) = w[1] /\ w[1] \in Tokens
  BY EmptySeq
<1>2. Fits(w, 1, w[1].size, rest) /\ w[1].size \in Nat
  BY <1>1, TokenKinds, SizeAssumption DEF FramedSeq
<1>3. Fits(Tail(w), 1 - 1, w[1].size, rest)
  BY <1>1, <1>2, TailFits
<1> QED BY <1>1, <1>3, TailHeaders DEF FramedSeq

LEMMA TakeUnit ==
  ASSUME NEW w \in Seq(Tokens), w # <<>>, NEW left \in Nat, left > 0, NEW rest \in Nat,
         FramedSeq(w, left, rest)
  PROVE  Head(w).type = "unit" /\ FramedSeq(Tail(w), left - 1, rest)
<1>1. /\ Len(w) \in Nat \ {0} /\ Head(w) = w[1] /\ Len(Tail(w)) = Len(w) - 1
      /\ \A j \in 1..(Len(w) - 1) : Tail(w)[j] = w[j + 1]
  BY HeadTailProperties, EmptySeq
<1>2. Fits(w, 0, left, rest)
  BY DEF FramedSeq
<1>3. Head(w).type = "unit"
  BY <1>1, <1>2 DEF Fits
<1>4. Fits(Tail(w), 0, left - 1, rest)
  <2> DEFINE v == Tail(w)
  <2>1. Len(v) = Len(w) - 1 /\ \A j \in 1..(Len(w) - 1) : v[j] = w[j + 1]
    BY <1>1
  <2> HIDE DEF v
  <2>2. \A j \in 1..Len(v) : 0 < j /\ j <= 0 + (left - 1) => v[j].type = "unit"
    BY <1>1, <1>2, <2>1 DEF Fits
  <2>3. 0 + (left - 1) < Len(v) => v[0 + (left - 1) + 1].type # "unit"
    BY <1>1, <1>2, <2>1 DEF Fits
  <2>4. 0 + (left - 1) >= Len(v) => rest = 0 + (left - 1) - Len(v)
    BY <1>1, <1>2, <2>1 DEF Fits
  <2> QED BY <2>2, <2>3, <2>4 DEF Fits, v
<1> QED BY <1>3, <1>4, TailHeaders DEF FramedSeq

LEMMA BetweenFiles ==
  ASSUME NEW w \in Seq(Tokens), w # <<>>, NEW rest \in Nat, FramedSeq(w, 0, rest)
  PROVE  Head(w).type # "unit"
<1>1. Len(w) \in Nat \ {0} /\ Head(w) = w[1]
  BY EmptySeq
<1> QED BY <1>1 DEF FramedSeq, Fits

-----------------------------------------------------------------------------
(* Types: who reads or writes has a file, and there is always a free inode *)

PutsOpen ==
  \A p \in Puts : /\ put[p].pc # "idle" => put[p].name \in Names
                  /\ put[p].pc = "read" => put[p].fd \in Inodes

GetsOpen ==
  \A g \in Gets : /\ get[g].pc \in {"open", "read", "unlink"} => get[g].name \in Names
                  /\ get[g].pc = "read" => get[g].fd \in Inodes

\* A receiver expects units while it is in a file, and none between files.
RcvsExpect ==
  \A g \in Gets : /\ rcv[g].pc \in {"idle", "line"} => rcv[g].left = 0
                  /\ rcv[g].pc = "data" => rcv[g].left > 0
                  /\ get[g].pc = "idle" => rcv[g].pc = "idle"

Types == TypeOK /\ PutsOpen /\ GetsOpen /\ RcvsExpect

LEMMA FreeInode == TypeOK => \E j \in Inodes : j \notin Live
<1> SUFFICES ASSUME TypeOK PROVE \E j \in Inodes : j \notin Live
  OBVIOUS
<1> DEFINE E == {entry[n] : n \in Names}
           P == {put[p].fd : p \in Puts}
           G == {get[g].fd : g \in Gets}
           pfd == [p \in Puts |-> put[p].fd]
           gfd == [g \in Gets |-> get[g].fd]
<1>1. IsFiniteSet(E) /\ Cardinality(E) <= Cardinality(Names)
  <2>1. entry \in Surjection(Names, E)
    BY DEF Surjection, TypeOK
  <2> QED BY <2>1, InodesAssumption, FS_Surjection
<1>2. IsFiniteSet(P) /\ Cardinality(P) <= Cardinality(Puts)
  <2>1. pfd \in Surjection(Puts, P)
    BY DEF Surjection
  <2> QED BY <2>1, InodesAssumption, FS_Surjection
<1>3. IsFiniteSet(G) /\ Cardinality(G) <= Cardinality(Gets)
  <2>1. gfd \in Surjection(Gets, G)
    BY DEF Surjection
  <2> QED BY <2>1, InodesAssumption, FS_Surjection
<1> HIDE DEF E, P, G
<1>4. /\ IsFiniteSet(E \cup P)
      /\ Cardinality(E \cup P) = Cardinality(E) + Cardinality(P) - Cardinality(E \cap P)
  BY <1>1, <1>2, FS_Union
<1>5. /\ IsFiniteSet(E \cup P \cup G)
      /\ Cardinality(E \cup P \cup G) =
           Cardinality(E \cup P) + Cardinality(G) - Cardinality((E \cup P) \cap G)
  BY <1>3, <1>4, FS_Union
<1>6. /\ Cardinality(E) \in Nat /\ Cardinality(P) \in Nat /\ Cardinality(G) \in Nat
      /\ Cardinality(E \cap P) \in Nat /\ Cardinality((E \cup P) \cap G) \in Nat
      /\ Cardinality(E \cup P \cup G) \in Nat /\ Cardinality(Inodes) \in Nat
  <2>1. IsFiniteSet(E \cap P)
    BY <1>1, FS_Subset
  <2>2. IsFiniteSet((E \cup P) \cap G)
    BY <1>3, FS_Subset
  <2> QED BY <2>1, <2>2, <1>1, <1>2, <1>3, <1>5, InodesAssumption, FS_CardinalityType
<1>7. /\ Cardinality(Names) \in Nat /\ Cardinality(Puts) \in Nat /\ Cardinality(Gets) \in Nat
  BY InodesAssumption, FS_CardinalityType
<1>8. Cardinality(E \cup P \cup G) < Cardinality(Inodes)
  BY <1>1, <1>2, <1>3, <1>4, <1>5, <1>6, <1>7, InodesAssumption
<1>9. ~(Inodes \subseteq E \cup P \cup G)
  <2> SUFFICES ASSUME Inodes \subseteq E \cup P \cup G PROVE FALSE
    OBVIOUS
  <2>1. Cardinality(Inodes) <= Cardinality(E \cup P \cup G)
    BY <1>5, FS_Subset
  <2> QED BY <2>1, <1>6, <1>8
<1> QED BY <1>9 DEF Live, E, P, G

\* Writing past the end fills the gap; the file ends at the later of the two ends.
LEMMA WrittenTypes ==
  ASSUME NEW f \in Seq(Units), Len(f) <= Size, NEW off \in 0..(Size - 1), NEW u \in Units
  PROVE  /\ Written(f, off, u) \in Seq(Units) /\ Len(Written(f, off, u)) <= Size
         /\ Len(f) <= off => Len(Written(f, off, u)) = off + 1
         /\ Written(f, off, u)[off + 1] = u
         /\ \A k \in 1..Len(f) : k # off + 1 => Written(f, off, u)[k] = f[k]
<1> DEFINE m == IF Len(f) > off THEN Len(f) ELSE off + 1
           w == [k \in 1..m |-> IF k = off + 1 THEN u
                                ELSE IF k <= Len(f) THEN f[k] ELSE Hole]
<1>1. Len(f) \in Nat /\ m \in Nat /\ m <= Size
  BY SizeAssumption
<1>2. \A k \in 1..m : w[k] \in Units
  BY <1>1 DEF Units
<1>3. w \in [1..m -> Units]
  BY <1>2
<1>4. w \in Seq(Units) /\ Len(w) = m
  <2> HIDE DEF m, w
  <2> QED BY <1>1, <1>3
<1>5. w[off + 1] = u /\ \A k \in 1..Len(f) : k # off + 1 => w[k] = f[k]
  <2>1. off + 1 \in 1..m /\ 1..Len(f) \subseteq 1..m
    BY <1>1
  <2>2. w[off + 1] = u
    BY <2>1
  <2>3. ASSUME NEW k \in 1..Len(f), k # off + 1 PROVE w[k] = f[k]
    BY <2>1, <2>3, <1>1
  <2> QED BY <2>2, <2>3
<1>6. Written(f, off, u) = w
  BY DEF Written
<1> QED BY <1>1, <1>4, <1>5, <1>6

LEMMA InitTypes == Init => Types
<1> SUFFICES ASSUME Init PROVE Types
  OBVIOUS
<1>1. put \in [Puts -> PutStates] /\ \A p \in Puts : put[p].pc = "idle"
  BY SizeAssumption DEF Init, PutStates
<1>2. get \in [Gets -> GetStates] /\ \A g \in Gets : get[g].pc = "idle"
  BY SizeAssumption DEF Init, GetStates
<1>3. rcv \in [Gets -> RcvStates]
  BY SizeAssumption, EmptySeq DEF Init, RcvStates
<1>4. wire \in [Gets -> Seq(Tokens)] /\ bytes \in [Inodes -> Seq(Units)]
  BY EmptySeq DEF Init
<1>5. \A i \in Inodes : Len(bytes[i]) <= Size
  BY SizeAssumption, EmptySeq DEF Init
<1>6. TypeOK
  BY <1>1, <1>2, <1>3, <1>4, <1>5 DEF Init, TypeOK
<1>7. RcvsExpect
  BY DEF Init, RcvsExpect
<1> QED BY <1>1, <1>2, <1>6, <1>7 DEF Types, PutsOpen, GetsOpen

LEMMA HistoryTypes ==
  /\ \A n \in Names : Under(n) \subseteq Puts /\ Writing(n) \subseteq Puts
  /\ \A w : In(w) \subseteq Puts
BY DEF Under, Writing, In

LEMMA UploadTypes ==
  ASSUME Types, NEW p \in Puts, Upload(p)
  PROVE  Types'
<1> USE DEF Types, TypeOK, PutsOpen, GetsOpen, RcvsExpect
<1>1. put[p] \in PutStates
  OBVIOUS
<1>2. CASE SenderClaims(p) \/ SenderDies(p) \/ PutOpenFails(p) \/ PutClose(p)
  <2> DEFINE Keeps == /\ put' \in [Puts -> PutStates]
                      /\ \A q \in Puts : put'[q].name = put[q].name
                      /\ \A q \in Puts : put'[q].pc # "idle" => put[q].pc # "idle"
                      /\ \A q \in Puts : put'[q].pc = "read" =>
                            put[q].pc = "read" /\ put'[q].fd = put[q].fd
  <2>1. Keeps
    <3>1. CASE SenderClaims(p)
      BY <1>1, <3>1 DEF SenderClaims, PutStates
    <3>2. CASE SenderDies(p)
      BY <1>1, <3>2 DEF SenderDies, PutStates
    <3>3. CASE PutOpenFails(p)
      BY <1>1, <3>3 DEF PutOpenFails, PutStates
    <3>4. CASE PutClose(p)
      BY <1>1, <3>4 DEF PutClose, PutStates
    <3> QED BY <1>2, <3>1, <3>2, <3>3, <3>4
  <2>2. UNCHANGED <<dir, entry, bytes, get, wire, rcv, excused, tangled>>
    BY <1>2 DEF SenderClaims, SenderDies, PutOpenFails, PutClose
  <2> QED BY <2>1, <2>2
<1>3. ASSUME NEW n \in Names, PutMkdir(p, n) PROVE Types'
  <2>1. /\ put' \in [Puts -> PutStates]
        /\ \A q \in Puts : q # p => put'[q] = put[q]
        /\ put'[p].name \in Names /\ put'[p].pc = "open"
    BY <1>1, <1>3 DEF PutMkdir, PutStates
  <2>2. dir' = TRUE /\ UNCHANGED <<entry, bytes, get, wire, rcv, excused, tangled>>
    BY <1>3 DEF PutMkdir
  <2> QED BY <2>1, <2>2
<1>4. CASE PutOpen(p)
  <2> DEFINE n == put[p].name
             i == IF entry[n] # Nothing THEN entry[n] ELSE CHOOSE j \in Inodes \ Live : TRUE
  <2>1. put[p].pc = "open" /\ n \in Names
    BY <1>4 DEF PutOpen
  <2>2. i \in Inodes
    BY <2>1, FreeInode
  <2>3. /\ entry' = [entry EXCEPT ![n] = i] /\ bytes' = [bytes EXCEPT ![i] = <<>>]
        /\ put' = [put EXCEPT ![p].pc = "read", ![p].fd = i]
        /\ UNCHANGED <<dir, get, wire, rcv, tangled>>
    BY <1>4 DEF PutOpen
  <2>4. excused' \subseteq Puts
    BY <1>4, <2>1, HistoryTypes DEF PutOpen
  <2> HIDE DEF i
  <2>5. /\ bytes' \in [Inodes -> Seq(Units)]
        /\ \A j \in Inodes : Len(bytes'[j]) <= Size
    BY <2>2, <2>3, SizeAssumption, EmptySeq
  <2>6. /\ put' \in [Puts -> PutStates]
        /\ \A q \in Puts : q # p => put'[q] = put[q]
        /\ put'[p].name = n /\ put'[p].fd = i
    BY <1>1, <2>2, <2>3 DEF PutStates
  <2> QED BY <2>1, <2>2, <2>3, <2>4, <2>5, <2>6
<1>5. CASE PutRead(p)
  <2> DEFINE w == Written(bytes[put[p].fd], put[p].off, p)
  <2>1. put[p].pc = "read" /\ put[p].off \in 0..(Size - 1) /\ put[p].fd \in Inodes
    <3>1. put[p].pc = "read" /\ put[p].off < Size
      BY <1>5 DEF PutRead, Arrives
    <3>2. put[p].off \in 0..Size
      BY <1>1 DEF PutStates
    <3> QED BY <3>1, <3>2, SizeAssumption
  <2>2. w \in Seq(Units) /\ Len(w) <= Size
    <3>1. p \in Units
      BY DEF Units
    <3> QED BY <2>1, <3>1, WrittenTypes
  <2>3. /\ bytes' = [bytes EXCEPT ![put[p].fd] = w]
        /\ put' = [put EXCEPT ![p].off = @ + 1]
        /\ UNCHANGED <<dir, entry, get, wire, rcv, excused, tangled>>
    BY <1>5, <2>1 DEF PutRead
  <2> HIDE DEF w
  <2>4. /\ put' \in [Puts -> PutStates]
        /\ \A q \in Puts : /\ put'[q].pc = put[q].pc /\ put'[q].name = put[q].name
                           /\ put'[q].fd = put[q].fd
    <3>1. put[p].off + 1 \in 0..Size
      BY <2>1, SizeAssumption
    <3> QED BY <1>1, <2>3, <3>1 DEF PutStates
  <2> QED BY <2>1, <2>2, <2>3, <2>4
<1>6. CASE PutWriteFails(p)
  <2>1. /\ put' \in [Puts -> PutStates]
        /\ \A q \in Puts : put'[q].name = put[q].name
        /\ \A q \in Puts : put'[q].pc # "idle" => put[q].pc # "idle"
        /\ \A q \in Puts : put'[q].pc = "read" => put[q].pc = "read" /\ put'[q].fd = put[q].fd
    BY <1>1, <1>6 DEF PutWriteFails, Arrives, PutStates
  <2>2. UNCHANGED <<dir, entry, bytes, get, wire, rcv, excused, tangled>>
    BY <1>6 DEF PutWriteFails
  <2> QED BY <2>1, <2>2
<1> QED BY <1>2, <1>3, <1>4, <1>5, <1>6 DEF Upload

LEMMA SentTypes ==
  ASSUME wire \in [Gets -> Seq(Tokens)], NEW g \in Gets, NEW t \in Tokens, Sent(g, t)
  PROVE  /\ wire' \in [Gets -> Seq(Tokens)]
         /\ \A f \in Gets : f # g => wire'[f] = wire[f]
         /\ wire'[g] = IF Deaf(g) THEN wire[g] ELSE Append(wire[g], t)
BY DEF Sent

\* What a step of a sync does to the state of syncs, the rest left alone.
SyncStep(g) ==
  /\ get' \in [Gets -> GetStates]
  /\ \A f \in Gets : f # g => get'[f] = get[f]
  /\ get'[g].pc \in {"open", "read", "unlink"} => get'[g].name \in Names
  /\ get'[g].pc = "read" => get'[g].fd \in Inodes
  /\ get'[g].pc # "idle"

LEMMA SyncSteps ==
  ASSUME Types, NEW g \in Gets, Sync(g)
  PROVE  SyncStep(g)
<1> USE DEF Types, TypeOK, GetsOpen, SyncStep
<1>0. 0 \in 0..Size
  BY SizeAssumption
<1>1. get[g] \in GetStates
  OBVIOUS
<1>2. CASE GetOpendir(g)
  <2>1. Listed \subseteq Names
    BY DEF Listed
  <2> QED BY <1>1, <1>2, <2>1 DEF GetOpendir, GetStates
<1>3. CASE GetNoUser(g)
  BY <1>1, <1>3 DEF GetNoUser, GetStates
<1>4. ASSUME NEW n \in Names, GetStat(g, n) PROVE SyncStep(g)
  <2>1. entry[n] \in Inodes
    BY <1>4 DEF GetStat
  <2>2. Len(bytes[entry[n]]) \in 0..Size
    BY <2>1, SizeAssumption
  <2> DEFINE r == [get[g] EXCEPT !.pc = "open", !.todo = @ \ {n}, !.name = n,
                                 !.size = Len(bytes[entry[n]])]
  <2>3. r \in GetStates /\ r.pc = "open" /\ r.name = n
    BY <1>1, <2>2 DEF GetStates
  <2>4. get' = [get EXCEPT ![g] = r]
    BY <1>4 DEF GetStat
  <2> HIDE DEF r
  <2> QED BY <2>3, <2>4
<1>5. ASSUME NEW n \in Names, GetSkip(g, n) PROVE SyncStep(g)
  BY <1>1, <1>5 DEF GetSkip, GetStates
<1>6. CASE GetOpen(g)
  <2>1. entry[get[g].name] \in Inodes
    BY <1>6 DEF GetOpen
  <2> DEFINE r == [get[g] EXCEPT !.pc = "read", !.fd = entry[get[g].name], !.off = 0]
  <2>2. r \in GetStates /\ r.pc = "read" /\ r.name = get[g].name /\ r.fd \in Inodes
    BY <1>0, <1>1, <2>1 DEF GetStates
  <2>3. get' = [get EXCEPT ![g] = r] /\ get[g].name \in Names
    BY <1>6 DEF GetOpen
  <2> HIDE DEF r
  <2> QED BY <2>2, <2>3
<1>7. CASE GetOpenFails(g)
  BY <1>1, <1>7 DEF GetOpenFails, GetStates
<1>8. CASE GetSend(g)
  <2>1. get[g].pc = "read" /\ get[g].off < Len(bytes[get[g].fd])
    BY <1>8 DEF GetSend
  <2>2. get[g].fd \in Inodes /\ get[g].off \in 0..Size
    BY <1>1, <2>1 DEF GetStates
  <2>3. get[g].off + 1 \in 0..Size
    BY <2>1, <2>2, SizeAssumption
  <2>4. [get[g] EXCEPT !.off = @ + 1] \in GetStates
    BY <1>1, <2>3 DEF GetStates
  <2> QED BY <1>1, <1>8, <2>2, <2>4 DEF GetSend, GetStates
<1>9. CASE GetCloseFile(g)
  BY <1>1, <1>9 DEF GetCloseFile, GetStates
<1>10. CASE GetUnlink(g)
  <2>1. [get[g] EXCEPT !.pc = "next", !.name = Nothing, !.size = 0, !.off = 0] \in GetStates
    BY <1>0, <1>1 DEF GetStates
  <2> QED BY <1>1, <1>10, <2>1 DEF GetUnlink, GetStates
<1>11. CASE GetEof(g)
  BY <1>1, <1>11 DEF GetEof, GetStates
<1> QED BY <1>2, <1>3, <1>4, <1>5, <1>6, <1>7, <1>8, <1>9, <1>10, <1>11 DEF Sync

LEMMA SyncTypes ==
  ASSUME Types, NEW g \in Gets, Sync(g)
  PROVE  Types'
<1> USE DEF Types, TypeOK
<1>1. SyncStep(g) /\ GetsOpen'
  BY SyncSteps DEF SyncStep, GetsOpen
<1>2. get[g] \in GetStates /\ rcv[g] \in RcvStates
  OBVIOUS
<1>3. UNCHANGED <<dir, bytes, put>>
  BY DEF Sync, GetOpendir, GetNoUser, GetStat, GetSkip, GetOpen, GetOpenFails, GetSend,
         GetCloseFile, GetUnlink, GetEof
<1>4. CASE GetOpendir(g) \/ GetNoUser(g)
  <2>1. /\ rcv' = [rcv EXCEPT ![g].pc = "line"]
        /\ UNCHANGED <<entry, wire, excused, tangled>>
    BY <1>4 DEF GetOpendir, GetNoUser
  <2>2. rcv' \in [Gets -> RcvStates]
    BY <1>2, <2>1 DEF RcvStates
  <2>3. RcvsExpect'
    <3>1. rcv[g].pc = "idle"
      BY <1>4 DEF GetOpendir, GetNoUser, RcvsExpect
    <3> QED BY <1>1, <1>2, <2>1, <3>1 DEF RcvsExpect, SyncStep, RcvStates
  <2> QED BY <1>1, <1>3, <2>1, <2>2, <2>3 DEF SyncStep, PutsOpen
<1>5. ASSUME NEW n \in Names, GetStat(g, n) PROVE Types'
  <2>1. Len(bytes[entry[n]]) \in 0..Size
    BY <1>5, SizeAssumption DEF GetStat
  <2>2. Header(n, Len(bytes[entry[n]])) \in Tokens
    BY <2>1, TokenKinds
  <2>3. wire' \in [Gets -> Seq(Tokens)]
    BY <1>5, <2>2, SentTypes DEF GetStat
  <2>4. excused' \subseteq Puts /\ UNCHANGED <<entry, rcv, tangled>>
    BY <1>5, HistoryTypes DEF GetStat
  <2> QED BY <1>1, <1>3, <2>3, <2>4 DEF SyncStep, PutsOpen, RcvsExpect
<1>6. CASE (\E n \in Names : GetSkip(g, n)) \/ GetOpen(g) \/ GetOpenFails(g) \/ GetCloseFile(g)
  <2>1. tangled' \subseteq Gets /\ UNCHANGED <<entry, wire, rcv, excused>>
    BY <1>6 DEF GetSkip, GetOpen, GetOpenFails, GetCloseFile
  <2> QED BY <1>1, <1>3, <2>1 DEF SyncStep, PutsOpen, RcvsExpect
<1>7. CASE GetSend(g)
  <2>1. get[g].pc = "read" /\ get[g].off < Len(bytes[get[g].fd])
    BY <1>7 DEF GetSend
  <2>2. get[g].fd \in Inodes /\ get[g].off \in 0..Size
    BY <1>2, <2>1 DEF GetStates, GetsOpen
  <2>3. bytes[get[g].fd][get[g].off + 1] \in Units
    BY <2>1, <2>2, SizeAssumption
  <2>4. wire' \in [Gets -> Seq(Tokens)]
    BY <1>7, <2>3, TokenKinds, SentTypes DEF GetSend
  <2>5. tangled' \subseteq Gets /\ UNCHANGED <<entry, rcv, excused>>
    BY <1>7 DEF GetSend
  <2> QED BY <1>1, <1>3, <2>4, <2>5 DEF SyncStep, PutsOpen, RcvsExpect
<1>8. CASE GetUnlink(g)
  <2>1. get[g].name \in Names
    BY <1>8 DEF GetUnlink, GetsOpen
  <2>2. /\ entry' = [entry EXCEPT ![get[g].name] = Nothing] /\ excused' \subseteq Puts
        /\ UNCHANGED <<wire, rcv, tangled>>
    BY <1>8, <2>1, HistoryTypes DEF GetUnlink
  <2> QED BY <1>1, <1>3, <2>2 DEF SyncStep, PutsOpen, RcvsExpect
<1>9. CASE GetEof(g)
  <2>1. wire' \in [Gets -> Seq(Tokens)]
    BY <1>9, TokenKinds, SentTypes DEF GetEof
  <2>2. UNCHANGED <<entry, rcv, excused, tangled>>
    BY <1>9 DEF GetEof
  <2> QED BY <1>1, <1>3, <2>1, <2>2 DEF SyncStep, PutsOpen, RcvsExpect
<1> QED BY <1>4, <1>5, <1>6, <1>7, <1>8, <1>9 DEF Sync

\* What a step of a receiver does to its own state; syncs, uploads and files stay.
RecvStep(g) ==
  /\ \A f \in Gets : f # g => wire'[f] = wire[f] /\ rcv'[f] = rcv[f]
  /\ wire' \in [Gets -> Seq(Tokens)] /\ rcv' \in [Gets -> RcvStates]
  /\ UNCHANGED <<dir, entry, bytes, put, get>>
  /\ excused \subseteq excused' /\ excused' \subseteq Puts
  /\ tangled \subseteq tangled' /\ tangled' \subseteq Gets
  /\ rcv'[g].pc \notin {"idle"} /\ get[g].pc # "idle"
  /\ rcv'[g].pc = "line" => rcv'[g].left = 0
  /\ rcv'[g].pc = "data" => rcv'[g].left > 0

LEMMA RecvSteps ==
  ASSUME Types, NEW g \in Gets, Receive(g) \/ RecvDies(g)
  PROVE  RecvStep(g)
<1> USE DEF Types, TypeOK, RecvStep, RcvsExpect
<1>1. rcv[g] \in RcvStates /\ wire[g] \in Seq(Tokens)
  OBVIOUS
<1>2. ASSUME wire[g] # <<>>
      PROVE  Head(wire[g]) \in Tokens /\ Tail(wire[g]) \in Seq(Tokens)
  BY <1>1, <1>2
<1>3. 0 \in 0..Size /\ <<>> \in Seq(Tokens)
  BY SizeAssumption, EmptySeq
<1>4. CASE RecvHeader(g)
  <2>1. wire[g] # <<>> /\ Head(wire[g]).type = "header"
    BY <1>4 DEF RecvHeader
  <2>2. Head(wire[g]).size \in 0..Size
    BY <1>2, <2>1, TokenKinds
  <2>3. /\ wire' = [wire EXCEPT ![g] = Tail(@)]
        /\ rcv' \in {rcv, [rcv EXCEPT ![g] = [pc |-> "data", left |-> Head(wire[g]).size,
                                              file |-> <<>>]]}
        /\ UNCHANGED <<dir, entry, bytes, put, get, excused, tangled>>
    BY <1>4 DEF RecvHeader, Received
  <2>4. Head(wire[g]).size # 0 => Head(wire[g]).size > 0
    BY <2>2, SizeAssumption
  <2>5. [pc |-> "data", left |-> Head(wire[g]).size, file |-> <<>>] \in RcvStates
    BY <1>3, <2>2 DEF RcvStates
  <2>6. get[g].pc # "idle" /\ rcv[g].pc = "line"
    BY <1>4 DEF RecvHeader
  <2>7. CASE rcv' = rcv
    BY <1>2, <2>1, <2>3, <2>6, <2>7
  <2>8. CASE rcv' # rcv
    <3>1. Head(wire[g]).size # 0
      BY <1>4, <2>8 DEF RecvHeader
    <3>2. rcv'[g] = [pc |-> "data", left |-> Head(wire[g]).size, file |-> <<>>]
      BY <2>3, <2>8
    <3> QED BY <1>2, <2>1, <2>3, <2>4, <2>5, <2>6, <2>8, <3>1, <3>2
  <2> QED BY <2>7, <2>8
<1>5. CASE RecvOpenFails(g)
  <2>1. excused' \subseteq Puts /\ tangled' \subseteq Gets
    BY <1>5, HistoryTypes DEF RecvOpenFails
  <2> QED BY <1>2, <1>5, <2>1 DEF RecvOpenFails, Received
<1>6. CASE RecvEofName(g) \/ RecvGarbage(g)
  <2>1. excused' \subseteq Puts
    BY <1>6, HistoryTypes DEF RecvEofName, RecvGarbage
  <2>2. \A x \in {"done", "garbled"} : /\ [rcv[g] EXCEPT !.pc = x] \in RcvStates
                                      /\ [rcv[g] EXCEPT !.pc = x].pc = x
    BY <1>1 DEF RcvStates
  <2>3. PICK r \in RcvStates : rcv' = [rcv EXCEPT ![g] = r] /\ r.pc \in {"done", "garbled"}
    BY <1>6, <2>2 DEF RecvEofName, RecvGarbage
  <2>4. /\ wire' = [wire EXCEPT ![g] = <<>>] /\ excused \subseteq excused'
        /\ UNCHANGED <<dir, entry, bytes, put, get, tangled>> /\ get[g].pc # "idle"
    BY <1>6 DEF RecvEofName, RecvGarbage
  <2> QED BY <1>3, <2>1, <2>3, <2>4
<1>7. CASE RecvData(g)
  <2> DEFINE file == Append(rcv[g].file, Head(wire[g]))
  <2>1. wire[g] # <<>> /\ rcv[g].left \in 0..Size /\ rcv[g].file \in Seq(Tokens)
    BY <1>1, <1>7 DEF RecvData, RcvStates
  <2>2. file \in Seq(Tokens)
    BY <1>2, <2>1
  <2>3. /\ wire' = [wire EXCEPT ![g] = Tail(@)]
        /\ rcv' = [rcv EXCEPT ![g] =
              IF rcv[g].left = 1 THEN [pc |-> "line", left |-> 0, file |-> <<>>]
              ELSE [pc |-> "data", left |-> rcv[g].left - 1, file |-> file]]
        /\ UNCHANGED <<dir, entry, bytes, put, get, excused, tangled>>
    BY <1>7 DEF RecvData, Received
  <2> HIDE DEF file
  <2>4. rcv[g].pc = "data" /\ rcv[g].left > 0
    BY <1>7 DEF RecvData
  <2>5. [pc |-> "line", left |-> 0, file |-> <<>>] \in RcvStates
    BY <1>3 DEF RcvStates
  <2>6. ASSUME rcv[g].left # 1
        PROVE  /\ [pc |-> "data", left |-> rcv[g].left - 1, file |-> file] \in RcvStates
               /\ rcv[g].left - 1 > 0
    <3>1. rcv[g].left - 1 \in 0..Size /\ rcv[g].left - 1 > 0
      BY <2>1, <2>4, <2>6, SizeAssumption
    <3> QED BY <2>2, <3>1 DEF RcvStates
  <2> QED BY <1>2, <2>1, <2>3, <2>4, <2>5, <2>6
<1>8. CASE RecvEof(g)
  BY <1>1, <1>2, <1>8 DEF RecvEof, Received, RcvStates
<1>9. CASE RecvClosed(g)
  BY <1>3, <1>9 DEF RecvClosed, RcvStates
<1>10. CASE RecvDies(g)
  <2>1. excused' \subseteq Puts
    BY <1>10, HistoryTypes DEF RecvDies
  <2> QED BY <1>3, <1>10, <2>1 DEF RecvDies, RcvStates
<1> QED BY <1>4, <1>5, <1>6, <1>7, <1>8, <1>9, <1>10 DEF Receive

LEMMA AdminTypes ==
  ASSUME Types, AddUser \/ DeleteUser \/ \E n \in Names : DeleteFile(n)
  PROVE  Types' /\ UNCHANGED <<bytes, put, get, wire, rcv, saved, tangled>>
<1>1. UNCHANGED <<bytes, put, get, wire, rcv, saved, tangled>> /\ dir' \in {dir, TRUE, FALSE}
  BY DEF AddUser, DeleteUser, DeleteFile
<1>2. entry' \in [Names -> Inodes \cup {Nothing}] /\ excused' \subseteq Puts
  BY HistoryTypes DEF AddUser, DeleteUser, DeleteFile, Types, TypeOK
<1> QED BY <1>1, <1>2 DEF Types, TypeOK, PutsOpen, GetsOpen, RcvsExpect

LEMMA RecvTypes ==
  ASSUME Types, NEW g \in Gets, Receive(g) \/ RecvDies(g)
  PROVE  Types'
<1>1. RecvStep(g)
  BY RecvSteps
<1>2. TypeOK'
  BY <1>1 DEF Types, TypeOK, RecvStep
<1>3. PutsOpen' /\ GetsOpen' /\ RcvsExpect'
  BY <1>1 DEF Types, PutsOpen, GetsOpen, RcvsExpect, RecvStep
<1> QED BY <1>2, <1>3 DEF Types

LEMMA NextTypes == Types /\ [Next]_vars => Types'
<1> SUFFICES ASSUME Types, [Next]_vars PROVE Types'
  OBVIOUS
<1>1. CASE UNCHANGED vars
  BY <1>1 DEF vars, Types, TypeOK, PutsOpen, GetsOpen, RcvsExpect
<1> QED BY <1>1, UploadTypes, SyncTypes, RecvTypes, AdminTypes DEF Next


-----------------------------------------------------------------------------
(* The receiver's place *)

\* Units announced and not yet sent.
Rest(g) == IF get[g].pc \in {"open", "read"} THEN get[g].size - get[g].off ELSE 0

AllUnits(file) == \A k \in 1..Len(file) : file[k].type = "unit"

PlaceOf(g) ==
  /\ get[g].pc \in {"idle", "next", "open"} => get[g].off = 0
  /\ g \notin tangled =>
        /\ get[g].pc = "read" => get[g].off <= get[g].size
        /\ rcv[g].pc # "garbled"
        /\ ~Deaf(g) => FramedSeq(wire[g], rcv[g].left, Rest(g))
        /\ AllUnits(rcv[g].file)

Placed == \A g \in Gets : PlaceOf(g)

OnlyUnitsSaved == tangled = {} => \A file \in saved : AllUnits(file)

IInv == Types /\ Placed /\ OnlyUnitsSaved

LEMMA InitPlaced == Init => Placed /\ OnlyUnitsSaved
<1> SUFFICES ASSUME Init PROVE Placed /\ OnlyUnitsSaved
  OBVIOUS
<1>1. ASSUME NEW g \in Gets PROVE PlaceOf(g)
  <2>1. get[g].pc = "idle" /\ get[g].off = 0 /\ wire[g] = <<>> /\ rcv[g].pc = "idle"
        /\ rcv[g].left = 0 /\ rcv[g].file = <<>>
    BY DEF Init
  <2>2. FramedSeq(wire[g], 0, 0)
    <3>1. Len(wire[g]) = 0 /\ 1..0 = {}
      BY <2>1, EmptySeq
    <3> QED BY <3>1 DEF FramedSeq, Fits
  <2> QED BY <2>1, <2>2, EmptySeq DEF PlaceOf, Rest, AllUnits
<1>2. OnlyUnitsSaved
  BY DEF Init, OnlyUnitsSaved
<1> QED BY <1>1, <1>2 DEF Placed

\* What a step leaves alone keeps its place.
LEMMA OthersPlaced ==
  ASSUME NEW g \in Gets, PlaceOf(g), get'[g] = get[g], wire'[g] = wire[g], rcv'[g] = rcv[g],
         g \in tangled => g \in tangled'
  PROVE  PlaceOf(g)'
BY DEF PlaceOf, Deaf, Rest, AllUnits

LEMMA RestTypes ==
  ASSUME Types, NEW g \in Gets, PlaceOf(g), g \notin tangled
  PROVE  Rest(g) \in Nat
<1>1. get[g].off \in 0..Size /\ get[g].size \in 0..Size
  BY DEF Types, TypeOK, GetStates
<1> QED BY <1>1, SizeAssumption DEF PlaceOf, Rest

\* What a sync sends is what its last header announced, in an order that the
\* receiver can follow, or the sync is tangled.
LEMMA SyncPlaced ==
  ASSUME Types, Placed, NEW g \in Gets, Sync(g)
  PROVE  Placed' /\ saved' = saved /\ tangled \subseteq tangled'
<1>1. saved' = saved /\ tangled' \in {tangled, tangled \cup {g}}
  BY DEF Sync, GetOpendir, GetNoUser, GetStat, GetSkip, GetOpen, GetOpenFails, GetSend,
         GetCloseFile, GetUnlink, GetEof
<1>2. ASSUME NEW f \in Gets, f # g PROVE PlaceOf(f)'
  <2>1. get'[f] = get[f]
    BY <1>2, SyncSteps DEF SyncStep
  <2>2. wire'[f] = wire[f] /\ rcv'[f] = rcv[f]
    BY <1>2 DEF Sync, GetOpendir, GetNoUser, GetStat, GetSkip, GetOpen, GetOpenFails, GetSend,
         GetCloseFile, GetUnlink, GetEof, Sent, Types, TypeOK
  <2> QED BY <1>1, <2>1, <2>2, OthersPlaced DEF Placed
<1>3. PlaceOf(g)'
  <2>1. /\ PlaceOf(g) /\ get[g] \in GetStates /\ rcv[g] \in RcvStates /\ wire[g] \in Seq(Tokens)
        /\ get[g].off \in 0..Size /\ get[g].size \in 0..Size /\ rcv[g].left \in Nat
    BY SizeAssumption DEF Placed, Types, TypeOK, GetStates, RcvStates
  <2>2. g \notin tangled' => g \notin tangled
    BY <1>1
  <2>3. CASE GetOpendir(g) \/ GetNoUser(g)
    <3>1. /\ rcv[g].pc = "idle" /\ rcv'[g].pc = "line" /\ rcv'[g].left = rcv[g].left
          /\ rcv'[g].file = rcv[g].file /\ wire' = wire
      BY <2>1, <2>3 DEF GetOpendir, GetNoUser, Types, TypeOK, RcvStates, RcvsExpect
    <3>2. /\ get[g].pc = "idle" /\ get'[g].pc \in {"next", "closed"}
          /\ get'[g].off = get[g].off
      BY <2>1, <2>3 DEF GetOpendir, GetNoUser, Types, TypeOK, GetStates
    <3> QED BY <2>1, <2>2, <3>1, <3>2 DEF PlaceOf, Deaf, Rest, AllUnits
  <2>4. ASSUME NEW n \in Names, GetStat(g, n) PROVE PlaceOf(g)'
    <3> DEFINE s == Len(bytes[entry[n]])
    <3>1. s \in 0..Size
      BY <2>4, SizeAssumption DEF GetStat, Types, TypeOK
    <3>2. get[g].pc = "next" /\ get'[g].pc = "open" /\ get'[g].size = s
          /\ get'[g].off = get[g].off
      BY <2>1, <2>4 DEF GetStat, Types, TypeOK, GetStates
    <3>3. rcv' = rcv /\ Sent(g, Header(n, s))
      BY <2>4 DEF GetStat
    <3> HIDE DEF s
    <3>4. /\ Header(n, s) \in Tokens /\ Header(n, s).type = "header"
          /\ Header(n, s).size = s
      BY <3>1, TokenKinds
    <3>5. ASSUME g \notin tangled, ~Deaf(g)
          PROVE  FramedSeq(Append(wire[g], Header(n, s)), rcv[g].left, s)
      <4>1. FramedSeq(wire[g], rcv[g].left, 0)
        BY <2>1, <3>2, <3>5 DEF PlaceOf, Rest
      <4>2. s \in Nat
        BY <3>1, SizeAssumption
      <4> QED BY <2>1, <3>4, <4>1, <4>2, AppendOther
    <3>6. Rest(g)' = s
      BY <2>1, <3>1, <3>2, SizeAssumption DEF PlaceOf, Rest
    <3>7. ~Deaf(g) => wire'[g] = Append(wire[g], Header(n, s))
      BY <3>3, <3>4, SentTypes DEF Types, TypeOK
    <3> QED BY <2>1, <2>2, <3>2, <3>3, <3>5, <3>6, <3>7 DEF PlaceOf, Deaf, AllUnits
  <2>5. ASSUME NEW n \in Names, GetSkip(g, n) PROVE PlaceOf(g)'
    <3>1. /\ get'[g].pc = get[g].pc /\ get'[g].size = get[g].size /\ get'[g].off = get[g].off
      BY <2>1, <2>5 DEF GetSkip, Types, TypeOK, GetStates
    <3>2. wire' = wire /\ rcv' = rcv
      BY <2>5 DEF GetSkip
    <3> QED BY <2>1, <2>2, <3>1, <3>2 DEF PlaceOf, Deaf, Rest, AllUnits
  <2>6. CASE GetOpen(g)
    <3>1. /\ get[g].pc = "open" /\ get'[g].pc = "read" /\ get'[g].size = get[g].size
          /\ get'[g].off = 0
      BY <2>1, <2>6 DEF GetOpen, Types, TypeOK, GetStates
    <3>2. wire' = wire /\ rcv' = rcv
      BY <2>6 DEF GetOpen
    <3> QED BY <2>1, <2>2, <3>1, <3>2, SizeAssumption DEF PlaceOf, Deaf, Rest, AllUnits
  <2>7. CASE GetOpenFails(g)
    <3>1. /\ get[g].pc = "open" /\ get'[g].pc = "unlink" /\ wire' = wire /\ rcv' = rcv
          /\ g \notin tangled' => get[g].size = 0
      BY <2>1, <2>7, SizeAssumption DEF GetOpenFails, Types, TypeOK, GetStates
    <3>2. g \notin tangled' => Rest(g) = 0 /\ Rest(g)' = 0
      BY <2>1, <3>1 DEF PlaceOf, Rest
    <3> QED BY <2>1, <2>2, <3>1, <3>2 DEF PlaceOf, Deaf, AllUnits
  <2>8. CASE GetSend(g)
    <3> DEFINE u == bytes[get[g].fd][get[g].off + 1]
    <3>1. get[g].pc = "read" /\ get[g].off < Len(bytes[get[g].fd]) /\ get[g].fd \in Inodes
      BY <2>8 DEF GetSend, Types, GetsOpen
    <3>2. u \in Units
      BY <2>1, <3>1, SizeAssumption DEF Types, TypeOK
    <3>3. /\ get'[g].pc = "read" /\ get'[g].size = get[g].size
          /\ get'[g].off = get[g].off + 1
      BY <2>1, <2>8, <3>1 DEF GetSend, Types, TypeOK, GetStates
    <3>4. /\ rcv' = rcv /\ Sent(g, Unit(u))
          /\ g \notin tangled' => get[g].off < get[g].size
      BY <2>1, <2>8, SizeAssumption DEF GetSend
    <3> HIDE DEF u
    <3>5. Unit(u) \in Tokens /\ Unit(u).type = "unit"
      BY <3>2, TokenKinds
    <3>6. ASSUME g \notin tangled'
          PROVE  /\ Rest(g) \in Nat /\ Rest(g) > 0 /\ Rest(g)' = Rest(g) - 1
                 /\ get'[g].off <= get'[g].size
      BY <2>1, <3>1, <3>3, <3>4, <3>6, SizeAssumption DEF Rest
    <3>7. ASSUME g \notin tangled', ~Deaf(g)
          PROVE  FramedSeq(Append(wire[g], Unit(u)), rcv[g].left, Rest(g)')
      <4>1. FramedSeq(wire[g], rcv[g].left, Rest(g))
        BY <2>1, <2>2, <3>7 DEF PlaceOf
      <4>2. FramedSeq(Append(wire[g], Unit(u)), rcv[g].left, Rest(g) - 1)
        BY <2>1, <3>5, <3>6, <3>7, <4>1, AppendUnit
      <4> QED BY <3>6, <3>7, <4>2
    <3>8. ~Deaf(g) => wire'[g] = Append(wire[g], Unit(u))
      BY <3>4, <3>5, SentTypes DEF Types, TypeOK
    <3> QED BY <2>1, <2>2, <3>3, <3>4, <3>6, <3>7, <3>8 DEF PlaceOf, Deaf, AllUnits
  <2>9. CASE GetCloseFile(g)
    <3>1. /\ get[g].pc = "read" /\ get'[g].pc = "unlink" /\ wire' = wire /\ rcv' = rcv
          /\ g \notin tangled' => get[g].off = get[g].size
      BY <2>1, <2>9 DEF GetCloseFile, Types, TypeOK, GetStates
    <3>2. g \notin tangled' => Rest(g) = 0 /\ Rest(g)' = 0
      BY <2>1, <3>1 DEF Rest
    <3> QED BY <2>1, <2>2, <3>1, <3>2 DEF PlaceOf, Deaf, AllUnits
  <2>10. CASE GetUnlink(g)
    <3>1. /\ get[g].pc = "unlink" /\ get'[g].pc = "next" /\ get'[g].off = 0
          /\ wire' = wire /\ rcv' = rcv
      BY <2>1, <2>10 DEF GetUnlink, Types, TypeOK, GetStates
    <3> QED BY <2>1, <2>2, <3>1 DEF PlaceOf, Deaf, Rest, AllUnits
  <2>11. CASE GetEof(g)
    <3>1. /\ get[g].pc = "next" /\ get'[g].pc = "closed" /\ rcv' = rcv /\ Sent(g, Eof)
      BY <2>1, <2>11 DEF GetEof, Types, TypeOK, GetStates
    <3>2. Eof \in Tokens /\ Eof.type = "eof"
      BY TokenKinds
    <3>3. ASSUME g \notin tangled, ~Deaf(g)
          PROVE  FramedSeq(Append(wire[g], Eof), rcv[g].left, 0)
      <4>1. FramedSeq(wire[g], rcv[g].left, 0)
        BY <2>1, <3>1, <3>3 DEF PlaceOf, Rest
      <4> QED BY <2>1, <3>2, <4>1, AppendOther
    <3>4. ~Deaf(g) => wire'[g] = Append(wire[g], Eof)
      BY <3>1, <3>2, SentTypes DEF Types, TypeOK
    <3> QED BY <2>1, <2>2, <3>1, <3>3, <3>4 DEF PlaceOf, Deaf, Rest, AllUnits
  <2> QED BY <2>3, <2>4, <2>5, <2>6, <2>7, <2>8, <2>9, <2>10, <2>11 DEF Sync
<1> QED BY <1>1, <1>2, <1>3 DEF Placed

\* A receiver in its place never meets payload where a line should be.
LEMMA RecvPlaced ==
  ASSUME IInv, NEW g \in Gets, Receive(g) \/ RecvDies(g)
  PROVE  Placed' /\ OnlyUnitsSaved'
<1>1. RecvStep(g)
  BY RecvSteps DEF IInv
<1>2. get' = get /\ tangled \subseteq tangled'
  BY <1>1 DEF RecvStep
<1>3. \A f \in Gets : f # g => PlaceOf(f)'
  BY <1>1, <1>2, OthersPlaced DEF RecvStep, IInv, Placed
<1>4. /\ PlaceOf(g) /\ rcv[g] \in RcvStates /\ wire[g] \in Seq(Tokens)
      /\ rcv[g].left \in Nat /\ rcv[g].file \in Seq(Tokens)
  BY SizeAssumption DEF IInv, Types, TypeOK, Placed, RcvStates
<1>5. g \notin tangled' => g \notin tangled /\ Rest(g) \in Nat /\ Rest(g)' = Rest(g)
  BY <1>2, <1>4, RestTypes DEF IInv, Rest
<1> DEFINE Clean == \A file \in saved' \ saved : g \notin tangled => AllUnits(file)
<1>6. PlaceOf(g)' /\ Clean
  <2>1. AllUnits(<<>>)
    BY EmptySeq DEF AllUnits
  <2>2. CASE RecvHeader(g)
    <3> DEFINE s == Head(wire[g]).size
    <3>1. /\ rcv[g].pc = "line" /\ rcv[g].left = 0 /\ wire[g] # <<>>
          /\ Head(wire[g]).type = "header" /\ wire'[g] = Tail(wire[g])
          /\ tangled' = tangled /\ saved' \ saved \subseteq {<<>>}
      BY <2>2 DEF RecvHeader, Received, IInv, Types, TypeOK, RcvsExpect
    <3>2. \/ s = 0 /\ rcv'[g] = rcv[g]
          \/ rcv'[g] = [pc |-> "data", left |-> s, file |-> <<>>]
      BY <2>2 DEF RecvHeader, IInv, Types, TypeOK
    <3>3. ~Deaf(g)
      BY <3>1 DEF Deaf
    <3>4. g \notin tangled => FramedSeq(Tail(wire[g]), s, Rest(g))
      BY <1>4, <1>5, <3>1, <3>3, TakeHeader DEF PlaceOf
    <3>5. rcv'[g].left = s /\ (g \notin tangled => AllUnits(rcv'[g].file))
      BY <1>4, <2>1, <3>1, <3>2 DEF PlaceOf
    <3>6. rcv'[g].pc \in {"line", "data"}
      BY <3>1, <3>2
    <3> HIDE DEF s
    <3> QED BY <1>2, <1>4, <1>5, <2>1, <3>1, <3>4, <3>5, <3>6 DEF PlaceOf, Deaf, AllUnits
  <2>3. CASE RecvOpenFails(g)
    <3> DEFINE s == Head(wire[g]).size
    <3>1. /\ rcv[g].pc = "line" /\ rcv[g].left = 0 /\ wire[g] # <<>>
          /\ Head(wire[g]).type = "header" /\ wire'[g] = Tail(wire[g])
          /\ rcv' = rcv /\ saved' = saved /\ (s > 0 => g \in tangled')
      BY <2>3 DEF RecvOpenFails, Received, IInv, Types, TypeOK, RcvsExpect
    <3>2. s \in Nat
      BY <1>4, <3>1, TokenKinds, SizeAssumption
    <3>3. ~Deaf(g)
      BY <3>1 DEF Deaf
    <3>4. g \notin tangled' => FramedSeq(Tail(wire[g]), s, Rest(g))
      BY <1>4, <1>5, <3>1, <3>3, TakeHeader DEF PlaceOf
    <3> HIDE DEF s
    <3>5. g \notin tangled' => FramedSeq(Tail(wire[g]), 0, Rest(g))
      BY <3>1, <3>2, <3>4
    <3> QED BY <1>2, <1>4, <1>5, <3>1, <3>5 DEF PlaceOf, Deaf, AllUnits
  <2>4. CASE RecvEofName(g) \/ RecvEof(g)
    <3>1. /\ rcv'[g].pc = "done" /\ rcv'[g].file = rcv[g].file /\ saved' = saved
      BY <1>4, <2>4 DEF RecvEofName, RecvEof, IInv, Types, TypeOK, RcvStates
    <3> QED BY <1>2, <1>4, <1>5, <3>1 DEF PlaceOf, Deaf, AllUnits
  <2>5. CASE RecvData(g)
    <3> DEFINE file == Append(rcv[g].file, Head(wire[g]))
    <3>1. /\ rcv[g].pc = "data" /\ wire[g] # <<>> /\ wire'[g] = Tail(wire[g])
          /\ tangled' = tangled /\ saved' \ saved \subseteq {file}
      BY <2>5 DEF RecvData, Received, IInv, Types, TypeOK
    <3>2. rcv[g].left > 0
      BY <3>1 DEF IInv, Types, RcvsExpect
    <3>3. rcv'[g] = IF rcv[g].left = 1 THEN [pc |-> "line", left |-> 0, file |-> <<>>]
                    ELSE [pc |-> "data", left |-> rcv[g].left - 1, file |-> file]
      BY <2>5 DEF RecvData, IInv, Types, TypeOK
    <3>4. Head(wire[g]) \in Tokens
      BY <1>4, <3>1
    <3>5. ~Deaf(g)
      BY <3>1 DEF Deaf
    <3>6. ASSUME g \notin tangled
          PROVE  Head(wire[g]).type = "unit" /\ FramedSeq(Tail(wire[g]), rcv[g].left - 1, Rest(g))
      BY <1>4, <1>5, <3>1, <3>2, <3>5, <3>6, TakeUnit DEF PlaceOf
    <3>7. ASSUME g \notin tangled PROVE AllUnits(file)
      <4>1. /\ Len(file) = Len(rcv[g].file) + 1 /\ file[Len(file)] = Head(wire[g])
            /\ \A k \in 1..Len(rcv[g].file) : file[k] = rcv[g].file[k]
        BY <1>4, <3>4
      <4>2. AllUnits(rcv[g].file)
        BY <1>4, <3>7 DEF PlaceOf
      <4>3. Len(rcv[g].file) \in Nat
        BY <1>4
      <4> HIDE DEF file
      <4> QED BY <3>6, <3>7, <4>1, <4>2, <4>3 DEF AllUnits
    <3> HIDE DEF file
    <3>8. /\ rcv'[g].left = rcv[g].left - 1 /\ rcv'[g].file \in {<<>>, file}
          /\ rcv'[g].pc \in {"line", "data"}
      BY <1>4, <3>3
    <3>9. g \notin tangled => AllUnits(rcv'[g].file)
      BY <2>1, <3>7, <3>8
    <3> QED BY <1>2, <1>4, <1>5, <3>1, <3>6, <3>7, <3>8, <3>9 DEF PlaceOf, Deaf, AllUnits
  <2>6. CASE RecvGarbage(g)
    <3>1. /\ rcv[g].pc = "line" /\ rcv[g].left = 0 /\ wire[g] # <<>>
          /\ Head(wire[g]).type = "unit" /\ tangled' = tangled /\ saved' = saved
      BY <2>6 DEF RecvGarbage, IInv, Types, RcvsExpect
    <3>2. g \in tangled
      BY <1>4, <1>5, <3>1, BetweenFiles DEF PlaceOf, Deaf
    <3> QED BY <1>2, <1>4, <3>1, <3>2 DEF PlaceOf
  <2>7. CASE RecvClosed(g) \/ RecvDies(g)
    <3>1. /\ rcv'[g].pc \in {"done", "dead"} /\ rcv'[g].file = <<>>
          /\ saved' \ saved \subseteq {rcv[g].file}
      BY <2>7 DEF RecvClosed, RecvDies, IInv, Types, TypeOK
    <3> QED BY <1>2, <1>4, <1>5, <2>1, <3>1 DEF PlaceOf, Deaf, AllUnits
  <2> QED BY <2>2, <2>3, <2>4, <2>5, <2>6, <2>7 DEF Receive
<1>7. OnlyUnitsSaved'
  BY <1>2, <1>6 DEF IInv, OnlyUnitsSaved, AllUnits
<1> QED BY <1>3, <1>6, <1>7 DEF Placed

LEMMA NextPlaced == IInv /\ [Next]_vars => IInv'
<1> SUFFICES ASSUME IInv, [Next]_vars PROVE Placed' /\ OnlyUnitsSaved'
  BY NextTypes DEF IInv
<1>1. ASSUME UNCHANGED <<get, wire, rcv, saved, tangled>> PROVE Placed' /\ OnlyUnitsSaved'
  BY <1>1, OthersPlaced DEF IInv, Placed, OnlyUnitsSaved, AllUnits
<1>2. CASE UNCHANGED vars
  BY <1>1, <1>2 DEF vars
<1>3. ASSUME NEW p \in Puts, Upload(p) PROVE Placed' /\ OnlyUnitsSaved'
  BY <1>1, <1>3 DEF Upload, SenderClaims, SenderDies, PutMkdir, PutOpen, PutOpenFails, PutRead,
         PutWriteFails, PutClose
<1>4. ASSUME NEW g \in Gets, Sync(g) PROVE Placed' /\ OnlyUnitsSaved'
  <2>1. Placed' /\ saved' = saved /\ tangled \subseteq tangled'
    BY <1>4, SyncPlaced DEF IInv
  <2> QED BY <2>1 DEF IInv, OnlyUnitsSaved, AllUnits
<1>5. CASE AddUser \/ DeleteUser \/ \E n \in Names : DeleteFile(n)
  BY <1>1, <1>5, AdminTypes DEF IInv
<1> QED BY <1>2, <1>3, <1>4, <1>5, RecvPlaced DEF Next

-----------------------------------------------------------------------------
\* Whatever uploads, syncs, receivers and administrators do to the directory at the
\* same time, every variable keeps its type; in particular nobody reads or writes
\* through a descriptor it does not hold, and no file exceeds the announced size.
THEOREM TypeCorrect == Spec => []TypeOK
<1>1. Init => Types
  BY InitTypes
<1>2. Types /\ [Next]_vars => Types'
  BY NextTypes
<1>3. Types => TypeOK
  BY DEF Types
<1> QED BY <1>1, <1>2, <1>3, PTL DEF Spec

\* However many files are sent and whatever happens to them in between, receive.c reads
\* payload as a name, or saves a header as payload, only in a sync one of whose files
\* changed its length or vanished between run_server_send's stat and its payload, or
\* could not be opened by the receiver.
THEOREM KeepsItsPlace == Spec => []FramedUnlessTangled
<1>1. Init => IInv
  BY InitTypes, InitPlaced DEF IInv
<1>2. IInv /\ [Next]_vars => IInv'
  BY NextPlaced
<1>3. IInv => FramedUnlessTangled
  BY DEF IInv, Placed, PlaceOf, OnlyUnitsSaved, AllUnits, FramedUnlessTangled
<1> QED BY <1>1, <1>2, <1>3, PTL DEF Spec


-----------------------------------------------------------------------------
(***************************************************************************)
(* Proof that a mailbox keeps what was uploaded to it, for any number of   *)
(* names, uploads and syncs and any file size: where a complete upload is  *)
(* at any time, until a receiver has it as a file.                         *)
(***************************************************************************)


-----------------------------------------------------------------------------
(* One upload's block in a stream *)

\* What follows place j of the stream w is s units and then no unit, before place k.
FitsTo(w, j, s, k) ==
  /\ j + s < k
  /\ \A x \in 1..Len(w) : j < x /\ x <= j + s => w[x].type = "unit"
  /\ w[j + s + 1].type # "unit"

\* A receiver that expects `left' units first comes to place k between two files.
LeadsTo(w, left, k) ==
  /\ k \in 1..Len(w)
  /\ FitsTo(w, 0, left, k)
  /\ \A j \in 1..Len(w) : j < k /\ w[j].type = "header" => FitsTo(w, j, w[j].size, k)

\* It finds a header there, and after it m units of p.
Ahead(w, left, p, m, k) ==
  /\ LeadsTo(w, left, k)
  /\ w[k].type = "header" /\ w[k].size = Size
  /\ k + m <= Len(w)
  /\ \A x \in 1..Len(w) : k < x /\ x <= k + m => w[x] = Unit(p)

\* Or it has taken the header, and m units of p are in its file or come next.
Inside(w, left, file, p, m) ==
  /\ left > 0 /\ left + Len(file) = Size
  /\ Len(file) <= m /\ m <= Len(file) + Len(w)
  /\ \A x \in 1..Len(file) : file[x] = Unit(p)
  /\ \A x \in 1..Len(w) : Len(file) + x <= m => w[x] = Unit(p)

-----------------------------------------------------------------------------
(* Where a complete upload is *)

\* m units of p under their header are in the stream to the receiver, and then r more
\* tokens.
Piece(g, p, m, r) ==
  \/ \E k \in 1..Len(wire[g]) : /\ Ahead(wire[g], rcv[g].left, p, m, k)
                                /\ Len(wire[g]) = k + m + r
  \/ /\ rcv[g].pc = "data"
     /\ Inside(wire[g], rcv[g].left, rcv[g].file, p, m)
     /\ Len(rcv[g].file) + Len(wire[g]) = m + r

\* All of p is on its way to a receiver that will know it for a file.
OnItsWay(g, p) ==
  IF Deaf(g) THEN p \in In(wire[g]) ELSE \E r \in Nat : Piece(g, p, Size, r)

Sending(g, n) == get[g].name = n /\ get[g].pc \in {"open", "read", "unlink"}

\* A sync that has looked at the name sends p, and deletes it only when all is sent.
Follows(g, p) ==
  g \notin tangled /\ ~Deaf(g) /\ Sending(g, put[p].name) =>
    /\ get[g].size = Size
    /\ get[g].pc = "read" => get[g].fd = entry[put[p].name]
    /\ get[g].pc = "unlink" => get[g].off = Size
    /\ Piece(g, p, get[g].off, 0) \/ Delivered(p)

InMailbox(p) ==
  /\ entry[put[p].name] \in Inodes
  /\ bytes[entry[put[p].name]] = Whole(p)
  /\ \A q \in Puts : put[q].fd # entry[put[p].name]
  /\ \A g \in Gets : Follows(g, p)

Kept(p) == InMailbox(p) \/ (\E g \in Gets : OnItsWay(g, p)) \/ Delivered(p)

\* Nobody else is at the file that p writes, and it holds what p has written.
Alone(p) ==
  /\ entry[put[p].name] = put[p].fd
  /\ bytes[put[p].fd] = [k \in 1..put[p].off |-> p]
  /\ \A q \in Puts : q # p => put[q].fd # put[p].fd
  /\ \A g \in Gets : ~Sending(g, put[p].name)

Safe(p) ==
  /\ put[p].pc \in {"idle", "open"} => put[p].off = 0
  /\ p \notin excused => /\ put[p].pc = "read" => Alone(p)
                         /\ Uploaded(p) => Kept(p)

OneName == \A m, n \in Names : m # n /\ entry[m] # Nothing => entry[m] # entry[n]

FilesOpen == \A g \in Gets : rcv[g].pc # "data" => rcv[g].file = <<>>

KInv == OneName /\ FilesOpen /\ \A p \in Puts : Safe(p)

-----------------------------------------------------------------------------
(* Streams grow at the end and are taken from the front *)

LEMMA AppendFits ==
  ASSUME NEW w \in Seq(Tokens), NEW t \in Tokens, NEW j \in Nat, NEW s \in Nat,
         NEW k \in 1..Len(w), FitsTo(w, j, s, k)
  PROVE  FitsTo(Append(w, t), j, s, k)
<1> DEFINE v == Append(w, t)
<1>1. /\ Len(w) \in Nat /\ Len(v) = Len(w) + 1
      /\ \A x \in 1..Len(w) : v[x] = w[x]
  OBVIOUS
<1> HIDE DEF v
<1>2. j + s < k /\ j + s + 1 \in 1..Len(w) /\ w[j + s + 1].type # "unit"
  BY <1>1 DEF FitsTo
<1>3. v[j + s + 1].type # "unit"
  BY <1>1, <1>2
<1>4. ASSUME NEW x \in 1..Len(v), j < x, x <= j + s PROVE v[x].type = "unit"
  <2>1. x \in 1..Len(w)
    BY <1>1, <1>2, <1>4
  <2> QED BY <1>1, <1>4, <2>1 DEF FitsTo
<1> QED BY <1>2, <1>3, <1>4 DEF FitsTo, v

\* What is appended does not disturb the way to an earlier place.
LEMMA AppendAhead ==
  ASSUME NEW w \in Seq(Tokens), NEW t \in Tokens, NEW left \in Nat, NEW p, NEW m \in Nat,
         NEW k \in 1..Len(w), Ahead(w, left, p, m, k)
  PROVE  /\ k \in 1..Len(Append(w, t)) /\ Ahead(Append(w, t), left, p, m, k)
         /\ Len(w) = k + m /\ t = Unit(p) => Ahead(Append(w, t), left, p, m + 1, k)
<1> DEFINE v == Append(w, t)
<1>1. /\ Len(w) \in Nat /\ Len(v) = Len(w) + 1 /\ v[Len(v)] = t
      /\ \A x \in 1..Len(w) : v[x] = w[x]
  OBVIOUS
<1>2. LeadsTo(w, left, k) /\ w[k].type = "header" /\ w[k].size = Size /\ k + m <= Len(w)
  BY DEF Ahead
<1>3. FitsTo(v, 0, left, k)
  BY <1>2, AppendFits DEF LeadsTo
<1>4. ASSUME NEW j \in 1..Len(v), j < k, v[j].type = "header"
      PROVE  FitsTo(v, j, v[j].size, k)
  <2>1. j \in 1..Len(w)
    BY <1>1, <1>4
  <2>2. v[j] = w[j] /\ w[j] \in Tokens
    BY <1>1, <2>1
  <2>3. w[j].size \in Nat /\ j \in Nat
    BY <1>4, <2>1, <2>2, TokenKinds, SizeAssumption
  <2>4. FitsTo(w, j, w[j].size, k)
    BY <1>2, <1>4, <2>1, <2>2 DEF LeadsTo
  <2>5. FitsTo(v, j, w[j].size, k)
    BY <2>3, <2>4, AppendFits
  <2> QED BY <2>2, <2>5
<1> HIDE DEF v
<1>5. k \in 1..Len(v) /\ LeadsTo(v, left, k) /\ v[k] = w[k]
  BY <1>1, <1>3, <1>4 DEF LeadsTo
<1>6. ASSUME NEW x \in 1..Len(v), k < x, x <= k + m PROVE v[x] = Unit(p)
  <2>1. x \in 1..Len(w)
    BY <1>1, <1>2, <1>6
  <2> QED BY <1>1, <1>6, <2>1 DEF Ahead
<1>7. Ahead(v, left, p, m, k)
  BY <1>1, <1>2, <1>5, <1>6 DEF Ahead
<1>8. ASSUME Len(w) = k + m, t = Unit(p) PROVE Ahead(v, left, p, m + 1, k)
  <2>1. ASSUME NEW x \in 1..Len(v), k < x, x <= k + (m + 1) PROVE v[x] = Unit(p)
    <3>1. x <= k + m \/ x = Len(v)
      BY <1>1, <1>8, <2>1
    <3> QED BY <1>1, <1>6, <1>8, <2>1, <3>1
  <2> QED BY <1>1, <1>2, <1>5, <1>8, <2>1 DEF Ahead
<1> QED BY <1>5, <1>7, <1>8 DEF v

LEMMA AppendInside ==
  ASSUME NEW w \in Seq(Tokens), NEW t \in Tokens, NEW left \in Nat,
         NEW file \in Seq(Tokens), NEW p, NEW m \in Nat, Inside(w, left, file, p, m)
  PROVE  /\ Inside(Append(w, t), left, file, p, m)
         /\ Len(file) + Len(w) = m /\ t = Unit(p) =>
                Inside(Append(w, t), left, file, p, m + 1)
<1> DEFINE v == Append(w, t)
<1>1. /\ Len(w) \in Nat /\ Len(v) = Len(w) + 1 /\ v[Len(v)] = t /\ Len(file) \in Nat
      /\ \A x \in 1..Len(w) : v[x] = w[x]
  OBVIOUS
<1> HIDE DEF v
<1>2. m <= Len(file) + Len(w)
  BY DEF Inside
<1>3. ASSUME NEW x \in 1..Len(v), Len(file) + x <= m PROVE v[x] = Unit(p)
  <2>1. x \in 1..Len(w)
    BY <1>1, <1>2, <1>3
  <2> QED BY <1>1, <1>3, <2>1 DEF Inside
<1>4. Inside(v, left, file, p, m)
  BY <1>1, <1>3 DEF Inside
<1>5. ASSUME Len(file) + Len(w) = m, t = Unit(p) PROVE Inside(v, left, file, p, m + 1)
  <2>1. ASSUME NEW x \in 1..Len(v), Len(file) + x <= m + 1 PROVE v[x] = Unit(p)
    <3>1. Len(file) + x <= m \/ x = Len(v)
      BY <1>1, <1>5, <2>1
    <3> QED BY <1>1, <1>3, <1>5, <2>1, <3>1
  <2> QED BY <1>1, <1>5, <2>1 DEF Inside
<1> QED BY <1>4, <1>5 DEF v

\* A stream in which every announced unit has been sent leads to what comes next.
LEMMA HeaderAhead ==
  ASSUME NEW w \in Seq(Tokens), NEW left \in Nat, FramedSeq(w, left, 0), NEW p,
         NEW t \in Tokens, t.type = "header", t.size = Size
  PROVE  /\ Len(w) + 1 \in 1..Len(Append(w, t))
         /\ Ahead(Append(w, t), left, p, 0, Len(w) + 1)
<1> DEFINE v == Append(w, t)
           k == Len(w) + 1
<1>1. /\ Len(w) \in Nat /\ Len(v) = Len(w) + 1 /\ v[Len(v)] = t
      /\ \A x \in 1..Len(w) : v[x] = w[x]
  OBVIOUS
<1> HIDE DEF v
<1>2. ASSUME NEW j \in 0..Len(w), NEW s \in Nat, Fits(w, j, s, 0)
      PROVE  FitsTo(v, j, s, k)
  <2>1. j + s <= Len(w) /\ j + s \in Nat
    BY <1>1, <1>2 DEF Fits
  <2>2. v[j + s + 1].type # "unit"
    <3>1. CASE j + s = Len(w)
      BY <1>1, <3>1
    <3>2. CASE j + s < Len(w)
      <4>1. j + s + 1 \in 1..Len(w)
        BY <1>1, <2>1, <3>2
      <4>2. w[j + s + 1].type # "unit"
        BY <1>2, <3>2 DEF Fits
      <4> QED BY <1>1, <4>1, <4>2
    <3> QED BY <1>1, <2>1, <3>1, <3>2
  <2>3. ASSUME NEW x \in 1..Len(v), j < x, x <= j + s PROVE v[x].type = "unit"
    <3>1. x \in 1..Len(w)
      BY <1>1, <2>1, <2>3
    <3>2. w[x].type = "unit"
      BY <1>2, <2>3, <3>1 DEF Fits
    <3> QED BY <1>1, <3>1, <3>2
  <2> QED BY <1>1, <2>1, <2>2, <2>3 DEF FitsTo
<1>3. FitsTo(v, 0, left, k)
  BY <1>1, <1>2 DEF FramedSeq
<1>4. ASSUME NEW j \in 1..Len(v), j < k, v[j].type = "header"
      PROVE  FitsTo(v, j, v[j].size, k)
  <2>1. j \in 1..Len(w)
    BY <1>1, <1>4
  <2>2. v[j] = w[j] /\ w[j] \in Tokens
    BY <1>1, <2>1
  <2>3. w[j].size \in Nat
    BY <1>4, <2>2, TokenKinds, SizeAssumption
  <2>4. Fits(w, j, w[j].size, 0)
    BY <1>4, <2>1, <2>2 DEF FramedSeq
  <2> QED BY <1>1, <1>2, <2>1, <2>2, <2>3, <2>4
<1>5. k \in 1..Len(v) /\ LeadsTo(v, left, k)
  BY <1>1, <1>3, <1>4 DEF LeadsTo
<1>6. Ahead(v, left, p, 0, k)
  BY <1>1, <1>5 DEF Ahead
<1> QED BY <1>5, <1>6 DEF v

LEMMA TakeFits ==
  ASSUME NEW w \in Seq(Tokens), NEW j \in Nat \ {0}, NEW s \in Nat,
         NEW k \in 1..Len(w), FitsTo(w, j, s, k)
  PROVE  FitsTo(Tail(w), j - 1, s, k - 1)
<1> DEFINE v == Tail(w)
<1>1. /\ Len(w) \in Nat \ {0} /\ Len(v) = Len(w) - 1
      /\ \A x \in 1..(Len(w) - 1) : v[x] = w[x + 1]
  BY HeadTailProperties, EmptySeq
<1> HIDE DEF v
<1>2. j + s < k /\ j + s \in 1..(Len(w) - 1) /\ w[j + s + 1].type # "unit"
  BY <1>1 DEF FitsTo
<1>3. v[(j - 1) + s + 1].type # "unit"
  <2>1. (j - 1) + s + 1 = j + s
    OBVIOUS
  <2> QED BY <1>1, <1>2, <2>1
<1>4. ASSUME NEW x \in 1..Len(v), j - 1 < x, x <= (j - 1) + s PROVE v[x].type = "unit"
  <2>1. x + 1 \in 1..Len(w) /\ j < x + 1 /\ x + 1 <= j + s
    BY <1>1, <1>4
  <2>2. w[x + 1].type = "unit"
    BY <2>1 DEF FitsTo
  <2> QED BY <1>1, <1>4, <2>2
<1> QED BY <1>2, <1>3, <1>4 DEF FitsTo, v

\* Taking the first token, a header or an expected unit, moves all places by one.
LEMMA TakeLeads ==
  ASSUME NEW w \in Seq(Tokens), NEW left \in Nat, NEW k \in 1..Len(w), k > 1,
         LeadsTo(w, left, k)
  PROVE  /\ left > 0 => w[1].type = "unit" /\ LeadsTo(Tail(w), left - 1, k - 1)
         /\ left = 0 /\ w[1].type = "header" => LeadsTo(Tail(w), w[1].size, k - 1)
<1> DEFINE v == Tail(w)
<1>1. /\ Len(w) \in Nat \ {0} /\ Len(v) = Len(w) - 1 /\ w[1] \in Tokens
      /\ \A x \in 1..(Len(w) - 1) : v[x] = w[x + 1]
  BY HeadTailProperties, EmptySeq
<1>2. k - 1 \in 1..Len(v)
  BY <1>1
<1>3. ASSUME NEW j \in 1..Len(v), j < k - 1, v[j].type = "header"
      PROVE  FitsTo(v, j, v[j].size, k - 1)
  <2>1. j + 1 \in 1..Len(w) /\ j + 1 < k /\ v[j] = w[j + 1] /\ w[j + 1] \in Tokens
    BY <1>1, <1>3
  <2>2. w[j + 1].size \in Nat /\ j + 1 \in Nat \ {0}
    BY <1>3, <2>1, TokenKinds, SizeAssumption
  <2>3. FitsTo(w, j + 1, w[j + 1].size, k)
    BY <1>3, <2>1 DEF LeadsTo
  <2>4. FitsTo(v, (j + 1) - 1, w[j + 1].size, k - 1)
    BY <2>2, <2>3, TakeFits
  <2>5. (j + 1) - 1 = j
    BY <2>2
  <2> QED BY <2>1, <2>4, <2>5
<1>4. ASSUME left = 0, w[1].type = "header" PROVE LeadsTo(v, w[1].size, k - 1)
  <2>1. w[1].size \in Nat
    BY <1>1, <1>4, TokenKinds, SizeAssumption
  <2>2. FitsTo(w, 1, w[1].size, k)
    BY <1>1, <1>4 DEF LeadsTo
  <2>3. FitsTo(v, 1 - 1, w[1].size, k - 1)
    BY <2>1, <2>2, TakeFits
  <2> QED BY <1>2, <1>3, <2>3 DEF LeadsTo
<1>5. ASSUME left > 0 PROVE w[1].type = "unit" /\ LeadsTo(v, left - 1, k - 1)
  <2>1. FitsTo(w, 0, left, k)
    BY DEF LeadsTo
  <2>2. w[1].type = "unit"
    BY <1>1, <1>5, <2>1 DEF FitsTo
  <2> HIDE DEF v
  <2>3. left < k /\ left \in 1..(Len(w) - 1) /\ w[left + 1].type # "unit"
    BY <1>1, <1>5, <2>1 DEF FitsTo
  <2>4. v[0 + (left - 1) + 1].type # "unit"
    <3>1. 0 + (left - 1) + 1 = left
      OBVIOUS
    <3> QED BY <1>1, <2>3, <3>1
  <2>5. ASSUME NEW x \in 1..Len(v), x <= 0 + (left - 1) PROVE v[x].type = "unit"
    <3>1. x + 1 \in 1..Len(w) /\ 0 < x + 1 /\ x + 1 <= 0 + left
      BY <1>1, <2>5
    <3>2. w[x + 1].type = "unit"
      BY <2>1, <3>1 DEF FitsTo
    <3> QED BY <1>1, <2>5, <3>2
  <2>6. FitsTo(v, 0, left - 1, k - 1)
    BY <2>3, <2>4, <2>5 DEF FitsTo
  <2> QED BY <1>2, <1>3, <2>2, <2>6 DEF LeadsTo
<1> QED BY <1>4, <1>5 DEF v

LEMMA TakeAhead ==
  ASSUME NEW w \in Seq(Tokens), NEW left \in Nat, NEW k \in 1..Len(w), k > 1,
         NEW p, NEW m \in Nat, Ahead(w, left, p, m, k)
  PROVE  /\ k - 1 \in 1..Len(Tail(w))
         /\ left > 0 => Ahead(Tail(w), left - 1, p, m, k - 1)
         /\ left = 0 /\ w[1].type = "header" => Ahead(Tail(w), w[1].size, p, m, k - 1)
<1> DEFINE v == Tail(w)
<1>1. /\ Len(w) \in Nat \ {0} /\ Len(v) = Len(w) - 1
      /\ \A x \in 1..(Len(w) - 1) : v[x] = w[x + 1]
  BY HeadTailProperties, EmptySeq
<1>2. /\ LeadsTo(w, left, k) /\ w[k].type = "header" /\ w[k].size = Size /\ k + m <= Len(w)
  BY DEF Ahead
<1>3. /\ left > 0 => LeadsTo(v, left - 1, k - 1)
      /\ left = 0 /\ w[1].type = "header" => LeadsTo(v, w[1].size, k - 1)
  BY <1>2, TakeLeads
<1> HIDE DEF v
<1>4. k - 1 \in 1..Len(v) /\ v[k - 1] = w[k]
  <2>1. k - 1 \in 1..(Len(w) - 1) /\ (k - 1) + 1 = k
    BY <1>1
  <2> QED BY <1>1, <2>1
<1>5. ASSUME NEW x \in 1..Len(v), k - 1 < x, x <= (k - 1) + m PROVE v[x] = Unit(p)
  <2>1. x + 1 \in 1..Len(w) /\ k < x + 1 /\ x + 1 <= k + m
    BY <1>1, <1>5
  <2>2. w[x + 1] = Unit(p)
    BY <2>1 DEF Ahead
  <2> QED BY <1>1, <1>5, <2>2
<1>6. ASSUME NEW l, LeadsTo(v, l, k - 1) PROVE Ahead(v, l, p, m, k - 1)
  BY <1>1, <1>2, <1>4, <1>5, <1>6 DEF Ahead
<1> QED BY <1>3, <1>4, <1>6 DEF v

\* The header itself is taken when the receiver expects no unit, and opens the file.
LEMMA OpenAhead ==
  ASSUME NEW w \in Seq(Tokens), NEW left \in Nat, NEW p, NEW m \in Nat, m <= Size,
         1 \in 1..Len(w), Ahead(w, left, p, m, 1)
  PROVE  /\ left = 0 /\ w[1].type = "header" /\ w[1].size = Size
         /\ Inside(Tail(w), Size, <<>>, p, m)
<1> DEFINE v == Tail(w)
<1>1. /\ Len(w) \in Nat \ {0} /\ Len(v) = Len(w) - 1
      /\ \A x \in 1..(Len(w) - 1) : v[x] = w[x + 1]
  BY HeadTailProperties, EmptySeq
<1> HIDE DEF v
<1>2. left = 0 /\ w[1].type = "header" /\ w[1].size = Size /\ 1 + m <= Len(w)
  BY DEF Ahead, LeadsTo, FitsTo
<1>3. ASSUME NEW x \in 1..Len(v), x <= m PROVE v[x] = Unit(p)
  <2>1. x + 1 \in 1..Len(w) /\ 1 < x + 1 /\ x + 1 <= 1 + m
    BY <1>1, <1>3
  <2>2. w[x + 1] = Unit(p)
    BY <2>1 DEF Ahead
  <2> QED BY <1>1, <1>3, <2>2
<1>4. Len(<<>>) = 0 /\ 1..0 = {}
  BY EmptySeq
<1>5. m <= Len(v)
  BY <1>1, <1>2
<1>6. Inside(v, Size, <<>>, p, m)
  BY <1>3, <1>4, <1>5, SizeAssumption DEF Inside
<1> QED BY <1>2, <1>6 DEF v

\* The last unit of the file completes it.
LEMMA TakeInside ==
  ASSUME NEW w \in Seq(Tokens), w # <<>>, NEW left \in Nat, NEW file \in Seq(Tokens),
         NEW p, NEW m \in Nat, Inside(w, left, file, p, m), Len(file) < m
  PROVE  /\ left > 1 => Inside(Tail(w), left - 1, Append(file, Head(w)), p, m)
         /\ left = 1 => Append(file, Head(w)) = [k \in 1..Size |-> Unit(p)]
<1> DEFINE v == Tail(w)
           f == Append(file, Head(w))
<1>1. /\ Len(w) \in Nat \ {0} /\ Len(v) = Len(w) - 1
      /\ \A x \in 1..(Len(w) - 1) : v[x] = w[x + 1]
  BY HeadTailProperties, EmptySeq
<1>2. Head(w) = w[1] /\ w[1] \in Tokens
  BY <1>1
<1>3. w[1] = Unit(p)
  BY <1>1 DEF Inside
<1>4. /\ f \in Seq(Tokens) /\ Len(f) = Len(file) + 1 /\ f[Len(f)] = Unit(p)
      /\ \A x \in 1..Len(file) : f[x] = file[x] /\ Len(file) \in Nat
  BY <1>2, <1>3
<1>5. Len(file) \in Nat
  OBVIOUS
<1> HIDE DEF v, f
<1>6. ASSUME NEW x \in 1..Len(f) PROVE f[x] = Unit(p)
  <2>1. x \in 1..Len(file) \/ x = Len(f)
    BY <1>4, <1>5
  <2> QED BY <1>4, <2>1 DEF Inside
<1>7. ASSUME NEW x \in 1..Len(v), Len(f) + x <= m PROVE v[x] = Unit(p)
  <2>1. x + 1 \in 1..Len(w) /\ Len(file) + (x + 1) <= m
    BY <1>1, <1>4, <1>5, <1>7
  <2>2. w[x + 1] = Unit(p)
    BY <2>1 DEF Inside
  <2> QED BY <1>1, <1>7, <2>2
<1>8. left + Len(file) = Size /\ m <= Len(file) + Len(w)
  BY DEF Inside
<1>9. ASSUME left > 1 PROVE Inside(v, left - 1, f, p, m)
  BY <1>1, <1>4, <1>5, <1>6, <1>7, <1>8, <1>9 DEF Inside
<1>10. ASSUME left = 1 PROVE f = [k \in 1..Size |-> Unit(p)]
  <2>1. Len(f) = Size
    BY <1>4, <1>5, <1>8, <1>10
  <2>2. f \in [1..Size -> Tokens]
    BY <1>4, <2>1
  <2> QED BY <1>6, <2>1, <2>2
<1> QED BY <1>9, <1>10 DEF v, f

-----------------------------------------------------------------------------
(* What a step leaves alone *)

LEMMA StreamTypes ==
  ASSUME Types, NEW g \in Gets
  PROVE  /\ wire[g] \in Seq(Tokens) /\ Len(wire[g]) \in Nat
         /\ rcv[g].left \in Nat /\ rcv[g].file \in Seq(Tokens) /\ Len(rcv[g].file) \in Nat
         /\ get[g].off \in Nat /\ get[g].size \in Nat
         /\ get[g].off <= Size /\ get[g].size <= Size
<1>1. wire[g] \in Seq(Tokens) /\ rcv[g] \in RcvStates /\ get[g] \in GetStates
  BY DEF Types, TypeOK
<1>2. rcv[g].left \in 0..Size /\ rcv[g].file \in Seq(Tokens)
      /\ get[g].off \in 0..Size /\ get[g].size \in 0..Size
  BY <1>1 DEF RcvStates, GetStates
<1> QED BY <1>1, <1>2, SizeAssumption

LEMMA SameStream ==
  ASSUME NEW g \in Gets, wire'[g] = wire[g], rcv'[g] = rcv[g]
  PROVE  /\ Deaf(g)' = Deaf(g)
         /\ \A p, m, r : Piece(g, p, m, r) => Piece(g, p, m, r)'
         /\ \A p : OnItsWay(g, p) => OnItsWay(g, p)'
<1>1. Deaf(g)' = Deaf(g)
  BY DEF Deaf
<1>2. \A p, m, r : Piece(g, p, m, r) => Piece(g, p, m, r)'
  BY DEF Piece
<1>3. \A p : OnItsWay(g, p) => OnItsWay(g, p)'
  BY <1>1, <1>2 DEF OnItsWay, In
<1> QED BY <1>1, <1>2, <1>3

LEMMA SavedStays == saved \subseteq saved' => \A p : Delivered(p) => Delivered(p)'
  BY DEF Delivered

\* A sync, its stream and what it knows of the file of p stay as they are.
LEMMA SameFollows ==
  ASSUME NEW g \in Gets, NEW p \in Puts, Follows(g, p),
         wire'[g] = wire[g], rcv'[g] = rcv[g], get'[g] = get[g],
         saved \subseteq saved', g \in tangled => g \in tangled',
         put'[p].name = put[p].name, entry'[put[p].name] = entry[put[p].name]
  PROVE  Follows(g, p)'
<1>1. Deaf(g)' = Deaf(g) /\ \A q, m, r : Piece(g, q, m, r) => Piece(g, q, m, r)'
  BY SameStream
<1>2. Delivered(p) => Delivered(p)'
  BY SavedStays
<1>3. Sending(g, put[p].name)' = Sending(g, put[p].name)
  BY DEF Sending
<1>4. Sending(g, put[p].name)' <=> (get'[g].name = put'[p].name
                                    /\ get'[g].pc \in {"open", "read", "unlink"})
  BY DEF Sending
<1> QED BY <1>1, <1>2, <1>3 DEF Follows, Sending

\* The file of p, its name, and who writes to it.
Untouched(p) ==
  LET i == entry[put[p].name]
  IN  /\ entry'[put[p].name] = i
      /\ i \in Inodes => bytes'[i] = bytes[i]
      /\ \A q \in Puts : put'[q].fd = i => put[q].fd = i

\* p writes its file, or has left it in the mailbox.
HasFile(p) == \/ put[p].pc = "read" /\ Alone(p)
              \/ Uploaded(p) /\ InMailbox(p)

\* Uploads and administration that leave the file of p alone leave p safe.
LEMMA UntouchedSafe ==
  ASSUME Types, NEW p \in Puts, Safe(p),
         put'[p].name = put[p].name, put'[p].pc = put[p].pc,
         put'[p].off = put[p].off, put'[p].fd = put[p].fd,
         UNCHANGED <<get, wire, rcv, saved, tangled>>, excused \subseteq excused',
         p \notin excused' /\ HasFile(p) => Untouched(p)
  PROVE  Safe(p)'
<1>1. put'[p].pc \in {"idle", "open"} => put'[p].off = 0
  BY DEF Safe
<1>2. ASSUME p \notin excused', put'[p].pc = "read" PROVE Alone(p)'
  <2>1. Alone(p) /\ Untouched(p)
    BY <1>2 DEF Safe, HasFile
  <2>2. put[p].fd \in Inodes
    BY <1>2 DEF Types, PutsOpen
  <2> QED BY <2>1, <2>2 DEF Alone, Untouched, Sending
<1>3. ASSUME p \notin excused', Uploaded(p)' PROVE Kept(p)'
  <2>1. Kept(p)
    BY <1>3 DEF Safe, Uploaded
  <2>2. CASE InMailbox(p)
    <3>1. Untouched(p)
      BY <1>3, <2>2 DEF HasFile, Uploaded
    <3>2. \A g \in Gets : Follows(g, p)'
      BY <2>2, <3>1, SameFollows DEF InMailbox, Untouched
    <3>3. InMailbox(p)'
      BY <2>2, <3>1, <3>2 DEF InMailbox, Untouched
    <3> QED BY <3>3 DEF Kept
  <2>3. ASSUME NEW g \in Gets, OnItsWay(g, p) PROVE Kept(p)'
    BY <2>3, SameStream DEF Kept
  <2>4. CASE Delivered(p)
    BY <2>4, SavedStays DEF Kept
  <2> QED BY <2>1, <2>2, <2>3, <2>4 DEF Kept
<1> QED BY <1>1, <1>2, <1>3 DEF Safe

LEMMA InitSafe == Init => KInv
<1> SUFFICES ASSUME Init PROVE KInv
  OBVIOUS
<1>1. \A p \in Puts : put[p].pc = "idle" /\ put[p].off = 0
  BY DEF Init
<1>2. OneName /\ FilesOpen
  BY DEF Init, OneName, FilesOpen
<1> QED BY <1>1, <1>2 DEF KInv, Safe, Uploaded

-----------------------------------------------------------------------------
(* Uploads and administration *)

\* Who takes p's name has p excused, and nobody else writes to its file.
LEMMA AtName ==
  ASSUME Types, NEW p \in Puts, HasFile(p)
  PROVE  /\ put[p].name \in Names
         /\ entry[put[p].name] \in Inodes
         /\ p \in Under(put[p].name)
         /\ \A q \in Puts : q # p => put[q].fd # entry[put[p].name]
<1>1. put[p].name \in Names
  BY DEF HasFile, Uploaded, Types, PutsOpen
<1>2. CASE put[p].pc = "read" /\ Alone(p)
  <2>1. put[p].fd \in Inodes
    BY <1>2 DEF Types, PutsOpen
  <2>2. p \in Writing(put[p].name)
    BY <1>2, <2>1, IdsAssumption DEF Alone, Writing
  <2> QED BY <1>1, <1>2, <2>1, <2>2 DEF Alone, Under
<1>3. CASE Uploaded(p) /\ InMailbox(p)
  <2>1. entry[put[p].name] \in Inodes /\ bytes[entry[put[p].name]] = Whole(p)
    BY <1>3 DEF InMailbox
  <2>2. p \in ToSet(Whole(p))
    BY SizeAssumption DEF ToSet, Whole
  <2>3. p \in Under(put[p].name)
    BY <2>1, <2>2, IdsAssumption DEF Under
  <2> QED BY <1>1, <1>3, <2>1, <2>3 DEF InMailbox
<1> QED BY <1>2, <1>3 DEF HasFile

\* The inode that PutOpen writes to is under the name, or is nobody's.
LEMMA OpenInode ==
  ASSUME Types, NEW q \in Puts, PutOpen(q)
  PROVE  \E i \in Inodes :
           /\ put[q].pc = "open" /\ put[q].name \in Names
           /\ i = entry[put[q].name] \/ (entry[put[q].name] = Nothing /\ i \notin Live)
           /\ entry' = [entry EXCEPT ![put[q].name] = i]
           /\ bytes' = [bytes EXCEPT ![i] = <<>>]
           /\ put' = [put EXCEPT ![q].pc = "read", ![q].fd = i]
           /\ excused' = excused \cup Under(put[q].name)
                 \cup (IF Syncing(put[q].name) \/ Writing(put[q].name) # {} THEN {q} ELSE {})
<1> DEFINE n == put[q].name
           i == IF entry[n] # Nothing THEN entry[n] ELSE CHOOSE j \in Inodes \ Live : TRUE
<1>1. put[q].pc = "open" /\ n \in Names
  BY DEF PutOpen, Types, PutsOpen
<1>2. entry[n] \in Inodes \cup {Nothing}
  BY <1>1 DEF Types, TypeOK
<1>3. i \in Inodes /\ (i = entry[n] \/ (entry[n] = Nothing /\ i \notin Live))
  <2>1. CASE entry[n] # Nothing
    BY <1>2, <2>1
  <2>2. CASE entry[n] = Nothing
    <3>1. (CHOOSE j \in Inodes \ Live : TRUE) \in Inodes \ Live
      BY FreeInode DEF Types
    <3> QED BY <2>2, <3>1
  <2> QED BY <2>1, <2>2
<1>4. /\ entry' = [entry EXCEPT ![n] = i] /\ bytes' = [bytes EXCEPT ![i] = <<>>]
      /\ put' = [put EXCEPT ![q].pc = "read", ![q].fd = i]
      /\ excused' = excused \cup Under(n)
            \cup (IF Syncing(n) \/ Writing(n) # {} THEN {q} ELSE {})
  BY DEF PutOpen
<1> HIDE DEF i
<1> QED BY <1>1, <1>3, <1>4

LEMMA LiveInodes ==
  /\ \A n \in Names : entry[n] # Nothing => entry[n] \in Live
  /\ \A p \in Puts : put[p].fd # Nothing => put[p].fd \in Live
BY DEF Live

\* The steps of an upload that do not touch the file system.
LEMMA QuietUpload ==
  ASSUME Types, NEW q \in Puts,
         \/ SenderClaims(q) \/ SenderDies(q) \/ PutOpenFails(q)
         \/ (\E m \in Names : PutMkdir(q, m)) \/ PutWriteFails(q) \/ PutClose(q)
  PROVE  /\ UNCHANGED <<entry, bytes, excused>>
         /\ \A r \in Puts : r # q => put'[r] = put[r]
         /\ put'[q].fd \in {put[q].fd, Nothing} /\ put'[q].off = put[q].off
         /\ \/ /\ put'[q].pc = put[q].pc /\ put'[q].name = put[q].name
               /\ put'[q].fd = put[q].fd
            \/ put[q].pc = "idle" /\ put'[q].pc = "open"
            \/ put'[q].pc = "failed"
            \/ /\ put[q].pc = "read" /\ put'[q].pc = "closed"
               /\ put'[q].name = put[q].name /\ put'[q].fd = Nothing
<1>1. put[q] \in PutStates /\ put \in [Puts -> PutStates]
  BY DEF Types, TypeOK
<1>2. CASE SenderClaims(q) \/ SenderDies(q)
  BY <1>1, <1>2 DEF SenderClaims, SenderDies, PutStates
<1>3. CASE PutOpenFails(q) \/ PutWriteFails(q)
  BY <1>1, <1>3 DEF PutOpenFails, PutWriteFails, PutStates
<1>4. ASSUME NEW m \in Names, PutMkdir(q, m)
      PROVE  /\ UNCHANGED <<entry, bytes, excused>> /\ put[q].pc = "idle"
             /\ put' = [put EXCEPT ![q].pc = "open", ![q].name = m]
  BY <1>4 DEF PutMkdir
<1>5. CASE \E m \in Names : PutMkdir(q, m)
  BY <1>1, <1>4, <1>5 DEF PutStates
<1>6. CASE PutClose(q)
  BY <1>1, <1>6 DEF PutClose, PutStates
<1> QED BY <1>2, <1>3, <1>5, <1>6

LEMMA UploadUntouched ==
  ASSUME Types, OneName, NEW q \in Puts, Upload(q), NEW p \in Puts, p # q,
         p \notin excused', HasFile(p)
  PROVE  Untouched(p)
<1> DEFINE n == put[p].name
           i == entry[n]
<1>1. /\ n \in Names /\ i \in Inodes /\ p \in Under(n)
      /\ \A r \in Puts : r # p => put[r].fd # i
  BY AtName
<1>2. i # Nothing
  BY <1>1, IdsAssumption
<1>3. put[q] \in PutStates /\ put \in [Puts -> PutStates] /\ bytes \in [Inodes -> Seq(Units)]
      /\ entry \in [Names -> Inodes \cup {Nothing}]
  BY DEF Types, TypeOK
<1> HIDE DEF n, i
<1>4. ASSUME entry'[n] = i, bytes'[i] = bytes[i],
             \A r \in Puts : put'[r].fd = i => put[r].fd = i
      PROVE  Untouched(p)
  BY <1>4 DEF Untouched, n, i
<1>5. ASSUME UNCHANGED <<entry, bytes>>, \A r \in Puts : put'[r].fd \in {put[r].fd, Nothing}
      PROVE  Untouched(p)
  BY <1>2, <1>4, <1>5 DEF i
<1>6. CASE SenderClaims(q) \/ SenderDies(q) \/ PutOpenFails(q) \/ (\E m \in Names : PutMkdir(q, m))
           \/ PutWriteFails(q) \/ PutClose(q)
  <2>1. /\ UNCHANGED <<entry, bytes>> /\ \A r \in Puts : r # q => put'[r] = put[r]
        /\ put'[q].fd \in {put[q].fd, Nothing}
    BY <1>6, QuietUpload
  <2> QED BY <1>5, <2>1
<1>7. CASE PutOpen(q)
  <2>1. PICK j \in Inodes :
           /\ put[q].name \in Names
           /\ j = entry[put[q].name] \/ (entry[put[q].name] = Nothing /\ j \notin Live)
           /\ entry' = [entry EXCEPT ![put[q].name] = j]
           /\ bytes' = [bytes EXCEPT ![j] = <<>>]
           /\ put' = [put EXCEPT ![q].pc = "read", ![q].fd = j]
           /\ Under(put[q].name) \subseteq excused'
    BY <1>7, OpenInode
  <2>2. put[q].name # n
    BY <1>1, <2>1
  <2>3. j # i
    <3>1. i \in Live
      BY <1>1, <1>2, LiveInodes DEF i
    <3>2. entry[put[q].name] # Nothing => entry[put[q].name] # i
      BY <1>1, <2>1, <2>2 DEF OneName, i
    <3> QED BY <2>1, <3>1, <3>2, IdsAssumption
  <2>4. entry'[n] = i /\ bytes'[i] = bytes[i]
    BY <1>1, <1>3, <2>1, <2>2, <2>3 DEF i
  <2>5. \A r \in Puts : put'[r].fd = i => put[r].fd = i
    BY <1>3, <2>1, <2>3 DEF PutStates
  <2> QED BY <1>4, <2>4, <2>5
<1>8. CASE PutRead(q)
  <2>1. /\ UNCHANGED entry
        /\ bytes' = [bytes EXCEPT ![put[q].fd] = Written(@, put[q].off, q)]
        /\ put' = [put EXCEPT ![q].off = @ + 1]
    BY <1>8 DEF PutRead
  <2>2. put[q].fd # i
    BY <1>1
  <2>3. bytes'[i] = bytes[i]
    BY <1>1, <1>3, <2>1, <2>2
  <2>4. \A r \in Puts : put'[r].fd = put[r].fd
    BY <1>3, <2>1 DEF PutStates
  <2> QED BY <1>4, <2>1, <2>3, <2>4 DEF i
<1> QED BY <1>6, <1>7, <1>8 DEF Upload

\* The upload itself: alone at its file from the open on, unless it is excused.
LEMMA UploadSafe ==
  ASSUME Types, OneName, NEW q \in Puts, Upload(q), Safe(q)
  PROVE  Safe(q)'
<1> DEFINE n == put[q].name
<1>1. /\ put[q] \in PutStates /\ put \in [Puts -> PutStates] /\ bytes \in [Inodes -> Seq(Units)]
      /\ entry \in [Names -> Inodes \cup {Nothing}]
  BY DEF Types, TypeOK
<1>2. /\ UNCHANGED <<get, wire, rcv, saved, tangled>> /\ excused \subseteq excused'
  BY DEF Upload, SenderClaims, SenderDies, PutMkdir, PutOpen, PutOpenFails, PutRead,
         PutWriteFails, PutClose
<1>3. CASE SenderClaims(q) \/ SenderDies(q) \/ PutOpenFails(q) \/ (\E m \in Names : PutMkdir(q, m))
           \/ PutWriteFails(q) \/ PutClose(q)
  <2>1. /\ UNCHANGED <<entry, bytes, excused>>
        /\ \A r \in Puts : r # q => put'[r] = put[r]
        /\ put'[q].fd \in {put[q].fd, Nothing} /\ put'[q].off = put[q].off
    BY <1>3, QuietUpload
  <2>2. CASE /\ put'[q].pc = put[q].pc /\ put'[q].name = n /\ put'[q].fd = put[q].fd
    <3>1. Untouched(q)
      BY <2>1, <2>2 DEF Untouched
    <3> QED BY <1>2, <2>1, <2>2, <3>1, UntouchedSafe
  <2>3. CASE put[q].pc = "idle" /\ put'[q].pc = "open"
    BY <2>1, <2>3 DEF Safe, Uploaded
  <2>4. CASE put'[q].pc = "failed"
    BY <2>1, <2>4 DEF Safe, Uploaded
  <2>5. CASE /\ put[q].pc = "read" /\ put'[q].pc = "closed"
             /\ put'[q].name = n /\ put'[q].fd = Nothing
    <3>1. ASSUME q \notin excused', Uploaded(q)' PROVE InMailbox(q)'
      <4>1. Alone(q) /\ put[q].off = Size
        BY <2>1, <2>5, <3>1 DEF Safe, Uploaded
      <4>2. put[q].fd \in Inodes
        BY <2>5 DEF Types, PutsOpen
      <4>3. /\ entry'[n] = put[q].fd /\ bytes'[put[q].fd] = Whole(q)
        BY <2>1, <4>1 DEF Alone, Whole
      <4>4. \A r \in Puts : put'[r].fd # put[q].fd
        BY <2>1, <2>5, <4>1, <4>2, IdsAssumption DEF Alone
      <4>5. ASSUME NEW g \in Gets PROVE Follows(g, q)'
        BY <1>2, <2>5, <4>1 DEF Alone, Follows, Sending
      <4> QED BY <2>5, <4>2, <4>3, <4>4, <4>5 DEF InMailbox, Whole
    <3> QED BY <2>5, <3>1 DEF Safe, Kept
  <2> QED BY <1>3, <2>2, <2>3, <2>4, <2>5, QuietUpload
<1>4. CASE PutOpen(q)
  <2>1. PICK i \in Inodes :
           /\ put[q].pc = "open" /\ n \in Names
           /\ i = entry[n] \/ (entry[n] = Nothing /\ i \notin Live)
           /\ entry' = [entry EXCEPT ![n] = i]
           /\ bytes' = [bytes EXCEPT ![i] = <<>>]
           /\ put' = [put EXCEPT ![q].pc = "read", ![q].fd = i]
           /\ excused' = excused \cup Under(n)
                 \cup (IF Syncing(n) \/ Writing(n) # {} THEN {q} ELSE {})
    BY <1>4, OpenInode
  <2>2. /\ put'[q].pc = "read" /\ put'[q].fd = i /\ put'[q].name = n
        /\ put'[q].off = put[q].off /\ \A r \in Puts : r # q => put'[r] = put[r]
    BY <1>1, <2>1 DEF PutStates
  <2>3. put[q].off = 0
    BY <2>1 DEF Safe
  <2>4. ASSUME q \notin excused' PROVE Alone(q)'
    <3>1. ~Syncing(n) /\ Writing(n) = {}
      BY <2>1, <2>4
    <3>2. \A r \in Puts : put[r].fd # i
      <4>1. CASE i = entry[n]
        BY <2>1, <3>1, <4>1, IdsAssumption DEF Writing
      <4>2. CASE i \notin Live
        BY <2>1, <4>2, LiveInodes, IdsAssumption
      <4> QED BY <2>1, <4>1, <4>2
    <3>3. entry'[n] = i
      BY <1>1, <2>1
    <3>4. bytes'[i] = [k \in 1..0 |-> q]
      <4>1. bytes'[i] = <<>>
        BY <1>1, <2>1
      <4>2. <<>> = [k \in 1..0 |-> q]
        OBVIOUS
      <4> QED BY <4>1, <4>2
    <3>5. \A g \in Gets : ~Sending(g, n)'
      BY <1>2, <3>1, <2>2 DEF Syncing, Sending
    <3> QED BY <2>2, <2>3, <3>2, <3>3, <3>4, <3>5 DEF Alone, Sending
  <2> QED BY <2>2, <2>4 DEF Safe, Uploaded
<1>5. CASE PutRead(q)
  <2> DEFINE i == put[q].fd
             w == Written(bytes[i], put[q].off, q)
  <2>1. /\ put[q].pc = "read" /\ put[q].off \in 0..(Size - 1) /\ i \in Inodes
    <3>1. put[q].pc = "read" /\ put[q].off < Size
      BY <1>5 DEF PutRead, Arrives
    <3>2. put[q].off \in 0..Size
      BY <1>1 DEF PutStates
    <3> QED BY <3>1, <3>2, SizeAssumption DEF Types, PutsOpen
  <2>2. /\ UNCHANGED <<entry, excused>> /\ bytes' = [bytes EXCEPT ![i] = w]
        /\ put' = [put EXCEPT ![q].off = @ + 1]
    BY <1>5 DEF PutRead
  <2>3. /\ put'[q].pc = "read" /\ put'[q].fd = i /\ put'[q].name = n
        /\ put'[q].off = put[q].off + 1 /\ \A r \in Puts : r # q => put'[r] = put[r]
    BY <1>1, <2>1, <2>2 DEF PutStates
  <2>4. ASSUME q \notin excused' PROVE Alone(q)'
    <3>1. Alone(q)
      BY <2>1, <2>2, <2>4 DEF Safe
    <3>2. w = [k \in 1..(put[q].off + 1) |-> q]
      <4>1. bytes[i] = [k \in 1..put[q].off |-> q] /\ bytes[i] \in Seq(Units)
        BY <1>1, <2>1, <3>1 DEF Alone
      <4>2. Len(bytes[i]) = put[q].off
        BY <2>1, <4>1
      <4> QED BY <2>1, <4>1, <4>2 DEF Written
    <3>3. bytes'[i] = w
      BY <1>1, <2>1, <2>2
    <3>4. \A g \in Gets : ~Sending(g, n)'
      BY <1>2, <2>3, <3>1 DEF Alone, Sending
    <3> QED BY <2>2, <2>3, <3>1, <3>2, <3>3, <3>4 DEF Alone, Sending
  <2> QED BY <2>3, <2>4 DEF Safe, Uploaded
<1> QED BY <1>3, <1>4, <1>5 DEF Upload

LEMMA UploadKeeps ==
  ASSUME Types, KInv, NEW q \in Puts, Upload(q)
  PROVE  KInv'
<1>1. UNCHANGED <<get, wire, rcv, saved, tangled>> /\ excused \subseteq excused'
  BY DEF Upload, SenderClaims, SenderDies, PutMkdir, PutOpen, PutOpenFails, PutRead,
         PutWriteFails, PutClose
<1>2. OneName'
  <2>1. CASE PutOpen(q)
    <3>1. PICK i \in Inodes :
             /\ put[q].name \in Names
             /\ i = entry[put[q].name] \/ (entry[put[q].name] = Nothing /\ i \notin Live)
             /\ entry' = [entry EXCEPT ![put[q].name] = i]
      BY <2>1, OpenInode
    <3>2. ASSUME NEW m \in Names, m # put[q].name PROVE entry[m] # i
      BY <3>1, <3>2, LiveInodes, IdsAssumption DEF KInv, OneName
    <3>3. entry \in [Names -> Inodes \cup {Nothing}]
      BY DEF Types, TypeOK
    <3> QED BY <3>1, <3>2, <3>3 DEF KInv, OneName
  <2>2. CASE ~PutOpen(q)
    <3>1. entry' = entry
      BY <2>2 DEF Upload, SenderClaims, SenderDies, PutMkdir, PutOpenFails, PutRead,
         PutWriteFails, PutClose
    <3> QED BY <3>1 DEF KInv, OneName
  <2> QED BY <2>1, <2>2
<1>3. FilesOpen'
  BY <1>1 DEF KInv, FilesOpen
<1>4. ASSUME NEW p \in Puts, p # q PROVE Safe(p)'
  <2>1. put'[p] = put[p]
    BY <1>4 DEF Upload, SenderClaims, SenderDies, PutMkdir, PutOpen, PutOpenFails, PutRead,
       PutWriteFails, PutClose, Types, TypeOK
  <2>2. p \notin excused' /\ HasFile(p) => Untouched(p)
    BY <1>4, UploadUntouched DEF KInv
  <2>3. Safe(p)
    BY DEF KInv
  <2> QED BY <1>1, <2>1, <2>2, <2>3, UntouchedSafe
<1>5. Safe(q)'
  BY UploadSafe DEF KInv
<1> QED BY <1>2, <1>3, <1>4, <1>5 DEF KInv

LEMMA AdminKeeps ==
  ASSUME Types, KInv, AddUser \/ DeleteUser \/ \E n \in Names : DeleteFile(n)
  PROVE  KInv'
<1>1. UNCHANGED <<bytes, put, get, wire, rcv, saved, tangled>>
  BY AdminTypes
<1>2. ASSUME UNCHANGED <<entry, excused>> PROVE KInv'
  <2>1. ASSUME NEW p \in Puts PROVE Safe(p)'
    <3>1. Untouched(p)
      BY <1>1, <1>2 DEF Untouched
    <3>2. Safe(p)
      BY DEF KInv
    <3> QED BY <1>1, <1>2, <3>1, <3>2, UntouchedSafe
  <2> QED BY <1>1, <1>2, <2>1 DEF KInv, OneName, FilesOpen
<1>3. ASSUME NEW n \in Names, DeleteFile(n) PROVE KInv'
  <2>1. /\ entry \in [Names -> Inodes \cup {Nothing}]
        /\ entry' = [entry EXCEPT ![n] = Nothing] /\ excused' = excused \cup Under(n)
    BY <1>3 DEF DeleteFile, Types, TypeOK
  <2>2. ASSUME NEW p \in Puts PROVE Safe(p)'
    <3>1. ASSUME p \notin excused', HasFile(p) PROVE Untouched(p)
      <4>1. put[p].name \in Names /\ p \in Under(put[p].name)
        BY <3>1, AtName
      <4>2. put[p].name # n
        BY <2>1, <3>1, <4>1
      <4> QED BY <1>1, <2>1, <4>1, <4>2 DEF Untouched
    <3>2. Safe(p)
      BY DEF KInv
    <3> QED BY <1>1, <2>1, <3>1, <3>2, UntouchedSafe
  <2>3. OneName'
    BY <2>1 DEF KInv, OneName
  <2> QED BY <1>1, <2>2, <2>3 DEF KInv, FilesOpen
<1>4. CASE AddUser \/ DeleteUser
  BY <1>2, <1>4 DEF AddUser, DeleteUser
<1> QED BY <1>3, <1>4

-----------------------------------------------------------------------------
(* Receivers *)

LEMMA PieceIn ==
  ASSUME Types, NEW g \in Gets, NEW p \in Puts, NEW r \in Nat, Piece(g, p, Size, r)
  PROVE  p \in In(wire[g])
<1> DEFINE w == wire[g]
<1>1. Len(w) \in Nat /\ Len(rcv[g].file) \in Nat /\ rcv[g].left \in Nat
  BY StreamTypes
<1>2. ASSUME NEW x \in 1..Len(w), w[x] = Unit(p) PROVE p \in In(w)
  BY <1>2 DEF In
<1> HIDE DEF w
<1>3. ASSUME NEW k \in 1..Len(w), Ahead(w, rcv[g].left, p, Size, k) PROVE p \in In(w)
  <2>1. k + 1 \in 1..Len(w) /\ k + 1 <= k + Size
    BY <1>1, <1>3, SizeAssumption DEF Ahead
  <2>2. w[k + 1] = Unit(p)
    BY <1>3, <2>1 DEF Ahead
  <2> QED BY <1>2, <2>1, <2>2
<1>4. ASSUME Inside(w, rcv[g].left, rcv[g].file, p, Size) PROVE p \in In(w)
  <2>1. 1 \in 1..Len(w) /\ Len(rcv[g].file) + 1 <= Size
    BY <1>1, <1>4, SizeAssumption DEF Inside
  <2>2. w[1] = Unit(p)
    BY <1>4, <2>1 DEF Inside
  <2> QED BY <1>2, <2>1, <2>2
<1> QED BY <1>3, <1>4 DEF Piece, w

\* A piece moves towards the receiver, becomes its file, or is lost by a cause that
\* the histories record.
Taken(g, p, m, r) ==
  \/ ~Deaf(g)' /\ Piece(g, p, m, r)'
  \/ Delivered(p)'
  \/ Deaf(g)' /\ (m = Size => p \in In(wire'[g]) \/ p \in excused')
  \/ g \in tangled' /\ (m = Size => p \in excused')

LEMMA TakePieceAhead ==
  ASSUME Types, NEW g \in Gets, Receive(g), ~Deaf(g), NEW p \in Puts, NEW m \in Nat, m <= Size,
         NEW r \in Nat, NEW k \in 1..Len(wire[g]), k > 1,
         Ahead(wire[g], rcv[g].left, p, m, k), Len(wire[g]) = k + m + r
  PROVE  Taken(g, p, m, r)
<1> DEFINE w == wire[g]
           left == rcv[g].left
           v == Tail(w)
<1>1. w \in Seq(Tokens) /\ Len(w) \in Nat \ {0} /\ left \in Nat /\ w # <<>>
  BY StreamTypes, EmptySeq
<1>2. Head(w) = w[1] /\ w[1] \in Tokens /\ Len(v) = Len(w) - 1
  BY <1>1, HeadTailProperties
<1>3. /\ k - 1 \in 1..Len(v)
      /\ left > 0 => Ahead(v, left - 1, p, m, k - 1)
      /\ left = 0 /\ w[1].type = "header" => Ahead(v, w[1].size, p, m, k - 1)
  BY <1>1, TakeAhead
<1>4. Len(v) = (k - 1) + m + r
  BY <1>1, <1>2
<1>5. rcv[g].pc = "line" => left = 0
  BY DEF Types, RcvsExpect
<1>6. m = Size => p \in In(w)
  <2>1. Piece(g, p, m, r)
    BY DEF Piece
  <2> QED BY <2>1, PieceIn
<1> HIDE DEF w, v, left
<1>7. ASSUME wire'[g] = v, NEW l, rcv'[g].left = l, Ahead(v, l, p, m, k - 1),
             rcv'[g].pc \in {"line", "data"}
      PROVE  Taken(g, p, m, r)
  BY <1>3, <1>4, <1>7 DEF Taken, Piece, Deaf
<1>8. ASSUME Received(g) PROVE wire'[g] = v
  BY <1>8 DEF Received, Types, TypeOK, w, v
<1>9. ASSUME rcv[g].pc = "line", Received(g), w[1].type = "header", w[1].size = 0, rcv' = rcv
      PROVE  Taken(g, p, m, r)
  BY <1>3, <1>5, <1>7, <1>8, <1>9 DEF left
<1>10. CASE RecvHeader(g)
  <2>1. rcv[g].pc = "line" /\ Received(g) /\ w[1].type = "header"
    BY <1>2, <1>10 DEF RecvHeader, w
  <2>2. CASE w[1].size = 0
    <3>1. rcv' = rcv
      BY <1>2, <1>10, <2>2 DEF RecvHeader, w
    <3> QED BY <1>9, <2>1, <2>2, <3>1
  <2>3. CASE w[1].size # 0
    <3>1. rcv'[g].left = w[1].size /\ rcv'[g].pc = "data"
      BY <1>2, <1>10, <2>3 DEF RecvHeader, Types, TypeOK, w
    <3> QED BY <1>3, <1>5, <1>7, <1>8, <2>1, <3>1
  <2> QED BY <2>2, <2>3
<1>11. CASE RecvOpenFails(g)
  <2>1. /\ rcv[g].pc = "line" /\ Received(g) /\ w[1].type = "header" /\ rcv' = rcv
        /\ w[1].size > 0 => g \in tangled' /\ In(w) \subseteq excused'
    BY <1>2, <1>11 DEF RecvOpenFails, w
  <2>2. w[1].size \in 0..Size
    BY <1>2, <2>1, TokenKinds
  <2>3. CASE w[1].size = 0
    BY <1>9, <2>1, <2>3
  <2>4. CASE w[1].size > 0
    BY <1>6, <2>1, <2>4 DEF Taken
  <2> QED BY <2>2, <2>3, <2>4, SizeAssumption
<1>12. CASE RecvEofName(g) \/ RecvGarbage(g)
  <2>1. rcv'[g].pc \in {"done", "garbled"} /\ In(w) \subseteq excused'
    BY <1>12 DEF RecvEofName, RecvGarbage, Types, TypeOK, RcvStates, w
  <2> QED BY <1>6, <2>1 DEF Taken, Deaf
<1>13. CASE RecvData(g)
  <2>1. rcv[g].pc = "data" /\ Received(g) /\ left > 0
    BY <1>13 DEF RecvData, Types, RcvsExpect, left
  <2>2. rcv'[g].left = left - 1 /\ rcv'[g].pc \in {"line", "data"}
    BY <1>1, <1>13 DEF RecvData, Types, TypeOK, left
  <2> QED BY <1>3, <1>7, <1>8, <2>1, <2>2
<1>14. CASE RecvEof(g)
  <2>1. rcv'[g].pc = "done" /\ wire'[g] = v
    BY <1>8, <1>14 DEF RecvEof, Types, TypeOK, RcvStates
  <2>2. ASSUME m = Size PROVE p \in In(v)
    <3>1. k + 1 \in 1..Len(w) /\ k \in 1..Len(v) /\ w[k + 1] = Unit(p)
      BY <1>1, <1>2, <2>2, SizeAssumption DEF Ahead, w, left
    <3>2. v[k] = w[k + 1]
      BY <1>1, <3>1, HeadTailProperties DEF v
    <3> QED BY <3>1, <3>2 DEF In
  <2> QED BY <2>1, <2>2 DEF Taken, Deaf
<1>15. CASE RecvClosed(g)
  BY <1>1, <1>15 DEF RecvClosed, w
<1> QED BY <1>10, <1>11, <1>12, <1>13, <1>14, <1>15 DEF Receive

LEMMA TakePieceHeader ==
  ASSUME Types, NEW g \in Gets, Receive(g), ~Deaf(g), NEW p \in Puts, NEW m \in Nat, m <= Size,
         NEW r \in Nat, 1 \in 1..Len(wire[g]),
         Ahead(wire[g], rcv[g].left, p, m, 1), Len(wire[g]) = 1 + m + r
  PROVE  Taken(g, p, m, r)
<1> DEFINE w == wire[g]
           left == rcv[g].left
           v == Tail(w)
<1>1. w \in Seq(Tokens) /\ Len(w) \in Nat \ {0} /\ left \in Nat /\ w # <<>>
  BY StreamTypes, EmptySeq
<1>2. Head(w) = w[1] /\ w[1] \in Tokens /\ Len(v) = Len(w) - 1
  BY <1>1, HeadTailProperties
<1>3. left = 0 /\ w[1].type = "header" /\ w[1].size = Size /\ Inside(v, Size, <<>>, p, m)
  BY <1>1, OpenAhead
<1>4. m = Size => p \in In(w)
  <2>1. Piece(g, p, m, r)
    BY DEF Piece
  <2> QED BY <2>1, PieceIn
<1>5. Len(<<>>) + Len(v) = m + r
  BY <1>1, <1>2, EmptySeq
<1> HIDE DEF w, v, left
<1>6. CASE RecvHeader(g)
  <2>1. wire'[g] = v
    BY <1>6 DEF RecvHeader, Received, Types, TypeOK, w, v
  <2>2. rcv'[g] = [pc |-> "data", left |-> Size, file |-> <<>>]
    BY <1>2, <1>3, <1>6, SizeAssumption DEF RecvHeader, Types, TypeOK, w
  <2> QED BY <1>3, <1>5, <2>1, <2>2 DEF Taken, Piece, Deaf
<1>7. CASE RecvOpenFails(g)
  <2>1. g \in tangled' /\ In(w) \subseteq excused'
    BY <1>2, <1>3, <1>7, SizeAssumption DEF RecvOpenFails, w
  <2> QED BY <1>4, <2>1 DEF Taken
<1>8. CASE RecvEofName(g)
  <2>1. rcv'[g].pc = "done" /\ In(w) \subseteq excused'
    BY <1>8 DEF RecvEofName, Types, TypeOK, RcvStates, w
  <2> QED BY <1>4, <2>1 DEF Taken, Deaf
<1>9. ~RecvData(g)
  BY <1>3 DEF RecvData, Types, RcvsExpect, left
<1>10. ~RecvEof(g) /\ ~RecvGarbage(g)
  BY <1>2, <1>3 DEF RecvEof, RecvGarbage, Eof, w
<1>11. ~RecvClosed(g)
  BY <1>1 DEF RecvClosed, w
<1> QED BY <1>6, <1>7, <1>8, <1>9, <1>10, <1>11 DEF Receive

LEMMA TakePieceInside ==
  ASSUME Types, NEW g \in Gets, Receive(g), ~Deaf(g), NEW p \in Puts, NEW m \in Nat, m <= Size,
         NEW r \in Nat, m = Size \/ r = 0, rcv[g].pc = "data",
         Inside(wire[g], rcv[g].left, rcv[g].file, p, m),
         Len(rcv[g].file) + Len(wire[g]) = m + r
  PROVE  Taken(g, p, m, r)
<1> DEFINE w == wire[g]
           left == rcv[g].left
           file == rcv[g].file
           v == Tail(w)
           f == Append(file, Head(w))
<1>1. /\ w \in Seq(Tokens) /\ Len(w) \in Nat /\ left \in Nat
      /\ file \in Seq(Tokens) /\ Len(file) \in Nat
  BY StreamTypes
<1>2. left > 0 /\ left + Len(file) = Size
  BY DEF Inside
<1>3. Inside(w, left, file, p, m) /\ Len(file) + Len(w) = m + r
  OBVIOUS
<1> HIDE DEF w, left, file
<1>4. CASE RecvData(g)
  <2>1. w # <<>> /\ Len(w) \in Nat \ {0} /\ Len(v) = Len(w) - 1 /\ Head(w) \in Tokens
    <3>1. w # <<>>
      BY <1>4 DEF RecvData, w
    <3> QED BY <1>1, <3>1, EmptySeq, HeadTailProperties
  <2>2. Len(file) < m
    BY <1>1, <1>2, <1>3, <2>1, SizeAssumption
  <2>3. /\ left > 1 => Inside(v, left - 1, f, p, m)
        /\ left = 1 => f = [k \in 1..Size |-> Unit(p)]
    BY <1>1, <1>3, <2>1, <2>2, TakeInside
  <2>4. Len(f) = Len(file) + 1
    BY <1>1, <2>1
  <2> HIDE DEF f, v
  <2>5. wire'[g] = v
    BY <1>4 DEF RecvData, Received, Types, TypeOK, v, w
  <2>6. CASE left = 1
    <3>1. f \in saved'
      BY <1>4, <2>6 DEF RecvData, f, w, left, file
    <3> QED BY <2>3, <2>6, <3>1 DEF Taken, Delivered
  <2>7. CASE left # 1
    <3>1. rcv'[g] = [pc |-> "data", left |-> left - 1, file |-> f]
      BY <1>4, <2>7 DEF RecvData, Types, TypeOK, f, w, left, file
    <3>2. left > 1 /\ Len(f) + Len(v) = m + r
      BY <1>1, <1>2, <1>3, <2>1, <2>4, <2>7
    <3> QED BY <2>3, <2>5, <3>1, <3>2 DEF Taken, Piece, Deaf
  <2> QED BY <2>6, <2>7
<1>5. CASE RecvClosed(g)
  <2>1. rcv'[g].pc = "done" /\ Len(w) = 0
    BY <1>5, EmptySeq DEF RecvClosed, Types, TypeOK, w
  <2>2. m # Size
    BY <1>1, <1>2, <1>3, <2>1, SizeAssumption
  <2> QED BY <2>1, <2>2 DEF Taken, Deaf
<1>6. RecvData(g) \/ RecvClosed(g)
  BY DEF Receive, RecvHeader, RecvOpenFails, RecvEofName, RecvEof, RecvGarbage
<1> QED BY <1>4, <1>5, <1>6

LEMMA RecvTakes ==
  ASSUME Types, NEW g \in Gets, Receive(g), ~Deaf(g), NEW p \in Puts, NEW m \in Nat, m <= Size,
         NEW r \in Nat, m = Size \/ r = 0, Piece(g, p, m, r)
  PROVE  Taken(g, p, m, r)
<1>1. ASSUME NEW k \in 1..Len(wire[g]), Ahead(wire[g], rcv[g].left, p, m, k),
             Len(wire[g]) = k + m + r
      PROVE  Taken(g, p, m, r)
  <2>1. CASE k > 1
    BY <1>1, <2>1, TakePieceAhead
  <2>2. CASE k = 1
    BY <1>1, <2>2, TakePieceHeader
  <2>3. k > 1 \/ k = 1
    BY StreamTypes
  <2> QED BY <2>1, <2>2, <2>3
<1> QED BY <1>1, TakePieceInside DEF Piece

LEMMA RecvFiles ==
  ASSUME Types, FilesOpen, NEW g \in Gets, Receive(g) \/ RecvDies(g)
  PROVE  FilesOpen' /\ saved \subseteq saved' /\ (Deaf(g) => Deaf(g)')
<1>1. \A f \in Gets : f # g => rcv'[f] = rcv[f]
  BY RecvSteps DEF RecvStep
<1>2. rcv[g] \in RcvStates /\ rcv \in [Gets -> RcvStates]
  BY DEF Types, TypeOK
<1>3. saved \subseteq saved'
  BY DEF Receive, RecvHeader, RecvOpenFails, RecvEofName, RecvData, RecvEof, RecvGarbage,
     RecvClosed, RecvDies
<1>4. /\ rcv'[g].pc # "data" => rcv'[g].file = <<>>
      /\ rcv[g].pc \in {"dead", "garbled", "done"} => rcv'[g].pc \in {"dead", "garbled", "done"}
  <2>1. CASE RecvHeader(g)
    <3>1. rcv[g].pc = "line" /\ (rcv'[g] = rcv[g] \/ rcv'[g].pc = "data")
      BY <1>2, <2>1 DEF RecvHeader
    <3> QED BY <3>1 DEF FilesOpen
  <2>2. CASE RecvData(g)
    <3>1. rcv[g].pc = "data" /\ (rcv'[g].pc = "data" \/ rcv'[g].file = <<>>)
      BY <1>2, <2>2 DEF RecvData
    <3> QED BY <3>1
  <2>3. CASE RecvOpenFails(g)
    <3>1. rcv' = rcv
      BY <2>3 DEF RecvOpenFails
    <3> QED BY <3>1 DEF FilesOpen
  <2>4. CASE RecvEofName(g) \/ RecvEof(g) \/ RecvGarbage(g)
    <3>1. /\ rcv[g].pc = "line" /\ rcv'[g].file = rcv[g].file
      BY <1>2, <2>4 DEF RecvEofName, RecvEof, RecvGarbage, RcvStates
    <3> QED BY <3>1 DEF FilesOpen
  <2>5. CASE RecvClosed(g) \/ RecvDies(g)
    <3>1. rcv'[g].file = <<>> /\ rcv'[g].pc \in {"done", "dead"}
      BY <1>2, <2>5 DEF RecvClosed, RecvDies
    <3> QED BY <3>1
  <2> QED BY <2>1, <2>2, <2>3, <2>4, <2>5 DEF Receive
<1> QED BY <1>1, <1>3, <1>4 DEF FilesOpen, Deaf

\* What is on its way arrives, stays on its way, or is lost to a receiver that dies,
\* leaves or loses its place.
LEMMA RecvOnItsWay ==
  ASSUME Types, KInv, NEW g \in Gets, Receive(g) \/ RecvDies(g),
         NEW p \in Puts, p \notin excused', OnItsWay(g, p)
  PROVE  OnItsWay(g, p)' \/ Delivered(p)'
<1>1. CASE Deaf(g)
  <2>1. p \in In(wire[g])
    BY <1>1 DEF OnItsWay
  <2>2. wire[g] # <<>>
    BY <2>1, EmptySeq DEF In
  <2>3. RecvDies(g)
    BY <1>1, <2>2 DEF Deaf, Receive, RecvHeader, RecvOpenFails, RecvEofName, RecvData, RecvEof,
       RecvGarbage, RecvClosed
  <2> QED BY <2>1, <2>3 DEF RecvDies
<1>2. CASE ~Deaf(g)
  <2>1. PICK r \in Nat : Piece(g, p, Size, r)
    BY <1>2 DEF OnItsWay
  <2>2. p \in In(wire[g])
    BY <2>1, PieceIn
  <2>3. Receive(g)
    BY <2>2 DEF RecvDies
  <2>4. Taken(g, p, Size, r)
    BY <1>2, <2>1, <2>3, RecvTakes, SizeAssumption
  <2> QED BY <2>1, <2>4 DEF Taken, OnItsWay
<1> QED BY <1>1, <1>2

LEMMA RecvFollows ==
  ASSUME Types, KInv, NEW g \in Gets, Receive(g) \/ RecvDies(g), NEW p \in Puts, Follows(g, p)
  PROVE  Follows(g, p)'
<1>1. UNCHANGED <<entry, put, get>> /\ tangled \subseteq tangled'
  BY RecvSteps DEF RecvStep
<1>2. saved \subseteq saved' /\ (Deaf(g) => Deaf(g)')
  BY RecvFiles DEF KInv
<1>3. SUFFICES ASSUME g \notin tangled', ~Deaf(g)', Sending(g, put[p].name)
               PROVE  Piece(g, p, get[g].off, 0)' \/ Delivered(p)'
  BY <1>1, <1>2 DEF Follows, Sending
<1>4. Piece(g, p, get[g].off, 0) \/ Delivered(p)
  BY <1>1, <1>2, <1>3 DEF Follows
<1>5. CASE Delivered(p)
  BY <1>2, <1>5, SavedStays
<1>6. CASE Piece(g, p, get[g].off, 0)
  <2>1. ~RecvDies(g)
    BY <1>3 DEF RecvDies, Deaf, Types, TypeOK
  <2>2. get[g].off \in Nat /\ get[g].off <= Size
    BY StreamTypes
  <2>3. Taken(g, p, get[g].off, 0)
    BY <1>2, <1>3, <1>6, <2>1, <2>2, RecvTakes
  <2> QED BY <1>1, <1>3, <2>3 DEF Taken
<1> QED BY <1>4, <1>5, <1>6

LEMMA RecvKeeps ==
  ASSUME Types, KInv, NEW g \in Gets, Receive(g) \/ RecvDies(g)
  PROVE  KInv'
<1>1. /\ \A f \in Gets : f # g => wire'[f] = wire[f] /\ rcv'[f] = rcv[f]
      /\ UNCHANGED <<dir, entry, bytes, put, get>>
      /\ excused \subseteq excused' /\ tangled \subseteq tangled'
  BY RecvSteps DEF RecvStep
<1>2. FilesOpen' /\ saved \subseteq saved'
  BY RecvFiles DEF KInv
<1>3. ASSUME NEW p \in Puts PROVE Safe(p)'
  <2>1. Safe(p)
    BY DEF KInv
  <2>2. ASSUME p \notin excused', put'[p].pc = "read" PROVE Alone(p)'
    BY <1>1, <2>1, <2>2 DEF Safe, Alone, Sending
  <2>3. ASSUME p \notin excused', Uploaded(p)' PROVE Kept(p)'
    <3>1. Kept(p)
      BY <1>1, <2>1, <2>3 DEF Safe, Uploaded
    <3>2. CASE InMailbox(p)
      <4>1. ASSUME NEW f \in Gets PROVE Follows(f, p)'
        <5>1. Follows(f, p)
          BY <3>2 DEF InMailbox
        <5>2. CASE f = g
          BY <5>1, <5>2, RecvFollows
        <5>3. CASE f # g
          BY <1>1, <1>2, <5>1, <5>3, SameFollows
        <5> QED BY <5>2, <5>3
      <4>2. InMailbox(p)'
        BY <1>1, <3>2, <4>1 DEF InMailbox
      <4> QED BY <4>2 DEF Kept
    <3>3. ASSUME NEW f \in Gets, OnItsWay(f, p) PROVE Kept(p)'
      <4>1. CASE f = g
        BY <2>3, <3>3, <4>1, RecvOnItsWay DEF Kept
      <4>2. CASE f # g
        BY <1>1, <3>3, <4>2, SameStream DEF Kept
      <4> QED BY <4>1, <4>2
    <3>4. CASE Delivered(p)
      BY <1>2, <3>4, SavedStays DEF Kept
    <3> QED BY <3>1, <3>2, <3>3, <3>4 DEF Kept
  <2> QED BY <1>1, <2>1, <2>2, <2>3 DEF Safe
<1> QED BY <1>1, <1>2, <1>3 DEF KInv, OneName

-----------------------------------------------------------------------------
(* Syncs *)

\* What is sent after p does not disturb it; a unit of p continues it.
LEMMA SendGrows ==
  ASSUME Types, NEW g \in Gets, NEW t \in Tokens, Sent(g, t), rcv' = rcv, NEW p \in Puts
  PROVE  /\ OnItsWay(g, p) => OnItsWay(g, p)'
         /\ \A m \in Nat : ~Deaf(g) /\ t = Unit(p) /\ Piece(g, p, m, 0) => Piece(g, p, m + 1, 0)'
<1> DEFINE w == wire[g]
           v == Append(w, t)
           left == rcv[g].left
           file == rcv[g].file
<1>1. /\ w \in Seq(Tokens) /\ Len(w) \in Nat /\ left \in Nat
      /\ file \in Seq(Tokens) /\ Len(file) \in Nat /\ Len(v) = Len(w) + 1
  BY StreamTypes
<1>2. Deaf(g)' = Deaf(g) /\ rcv'[g].left = left /\ rcv'[g].file = file /\ rcv'[g].pc = rcv[g].pc
  BY DEF Deaf
<1>3. wire'[g] = IF Deaf(g) THEN w ELSE v
  BY SentTypes DEF Types, TypeOK
<1>4. CASE Deaf(g)
  BY <1>2, <1>3, <1>4 DEF OnItsWay
<1>5. CASE ~Deaf(g)
  <2>1. ASSUME NEW m \in Nat, NEW r \in Nat, Piece(g, p, m, r)
        PROVE  /\ Piece(g, p, m, r + 1)'
               /\ r = 0 /\ t = Unit(p) => Piece(g, p, m + 1, 0)'
    <3>1. ASSUME NEW k \in 1..Len(w), Ahead(w, left, p, m, k), Len(w) = k + m + r
          PROVE  /\ Piece(g, p, m, r + 1)'
                 /\ r = 0 /\ t = Unit(p) => Piece(g, p, m + 1, 0)'
      <4>1. /\ k \in 1..Len(v) /\ Ahead(v, left, p, m, k)
            /\ Len(w) = k + m /\ t = Unit(p) => Ahead(v, left, p, m + 1, k)
        BY <1>1, <3>1, AppendAhead
      <4> HIDE DEF v, w, left, file
      <4>2. Len(v) = k + m + (r + 1) /\ (r = 0 => Len(w) = k + m /\ Len(v) = k + (m + 1) + 0)
        BY <1>1, <3>1
      <4> QED BY <1>2, <1>3, <1>5, <4>1, <4>2 DEF Piece
    <3>2. ASSUME rcv[g].pc = "data", Inside(w, left, file, p, m), Len(file) + Len(w) = m + r
          PROVE  /\ Piece(g, p, m, r + 1)'
                 /\ r = 0 /\ t = Unit(p) => Piece(g, p, m + 1, 0)'
      <4>1. /\ Inside(v, left, file, p, m)
            /\ Len(file) + Len(w) = m /\ t = Unit(p) => Inside(v, left, file, p, m + 1)
        BY <1>1, <3>2, AppendInside
      <4> HIDE DEF v, w, left, file
      <4>2. /\ Len(file) + Len(v) = m + (r + 1)
            /\ r = 0 => Len(file) + Len(w) = m /\ Len(file) + Len(v) = (m + 1) + 0
        BY <1>1, <3>2
      <4> QED BY <1>2, <1>3, <1>5, <3>2, <4>1, <4>2 DEF Piece
    <3> QED BY <2>1, <3>1, <3>2 DEF Piece
  <2>2. OnItsWay(g, p) => OnItsWay(g, p)'
    <3>1. ASSUME NEW r \in Nat, Piece(g, p, Size, r) PROVE OnItsWay(g, p)'
      <4>1. Piece(g, p, Size, r + 1)' /\ r + 1 \in Nat
        BY <2>1, <3>1, SizeAssumption
      <4> QED BY <1>2, <1>5, <4>1 DEF OnItsWay
    <3> QED BY <1>5, <3>1 DEF OnItsWay
  <2> QED BY <2>1, <2>2
<1> QED BY <1>4, <1>5

\* The streams under any step of a sync.
LEMMA SyncOnItsWay ==
  ASSUME Types, NEW g \in Gets, Sync(g), NEW f \in Gets, NEW p \in Puts, OnItsWay(f, p)
  PROVE  OnItsWay(f, p)'
<1>1. CASE f # g
  <2>1. wire'[f] = wire[f] /\ rcv'[f] = rcv[f]
    BY <1>1 DEF Sync, GetOpendir, GetNoUser, GetStat, GetSkip, GetOpen, GetOpenFails, GetSend,
       GetCloseFile, GetUnlink, GetEof, Sent, Types, TypeOK
  <2> QED BY <2>1, SameStream
<1>2. CASE GetOpendir(g) \/ GetNoUser(g)
  <2>1. rcv[g] \in RcvStates /\ rcv[g].pc = "idle" /\ rcv' = [rcv EXCEPT ![g].pc = "line"]
        /\ wire' = wire
    BY <1>2 DEF GetOpendir, GetNoUser, Types, TypeOK, RcvsExpect
  <2>2. /\ ~Deaf(g) /\ ~Deaf(g)' /\ rcv'[g].left = rcv[g].left /\ wire'[g] = wire[g]
    BY <2>1 DEF Deaf, Types, TypeOK, RcvStates
  <2>3. ASSUME f = g PROVE OnItsWay(f, p)'
    BY <2>1, <2>2, <2>3 DEF OnItsWay, Piece
  <2> QED BY <1>1, <2>3
<1>3. ASSUME NEW n \in Names, GetStat(g, n) PROVE f = g => OnItsWay(f, p)'
  <2>1. Len(bytes[entry[n]]) \in 0..Size
    BY <1>3, SizeAssumption DEF GetStat, Types, TypeOK
  <2>2. Header(n, Len(bytes[entry[n]])) \in Tokens
    BY <2>1, TokenKinds
  <2> QED BY <1>3, <2>2, SendGrows DEF GetStat
<1>4. CASE GetSend(g)
  <2>1. get[g].pc = "read" /\ get[g].off < Len(bytes[get[g].fd]) /\ get[g].fd \in Inodes
    BY <1>4 DEF GetSend, Types, GetsOpen
  <2>2. bytes[get[g].fd][get[g].off + 1] \in Units
    BY <2>1, StreamTypes DEF Types, TypeOK
  <2>3. f = g => OnItsWay(f, p)'
    BY <1>4, <2>2, TokenKinds, SendGrows DEF GetSend
  <2> QED BY <1>1, <2>3
<1>5. CASE GetEof(g)
  <2>1. f = g => OnItsWay(f, p)'
    BY <1>5, TokenKinds, SendGrows DEF GetEof
  <2> QED BY <1>1, <2>1
<1>6. CASE (\E n \in Names : GetSkip(g, n)) \/ GetOpen(g) \/ GetOpenFails(g) \/ GetCloseFile(g)
           \/ GetUnlink(g)
  <2>1. wire' = wire /\ rcv' = rcv
    BY <1>6 DEF GetSkip, GetOpen, GetOpenFails, GetCloseFile, GetUnlink
  <2> QED BY <2>1, SameStream
<1> QED BY <1>1, <1>2, <1>3, <1>4, <1>5, <1>6 DEF Sync

\* A sync that has looked at a name in the mailbox sends the file there, all of it,
\* before it deletes the name.
LEMMA SyncFollows ==
  ASSUME Types, Placed, NEW g \in Gets, Sync(g), ~GetUnlink(g),
         NEW p \in Puts, Uploaded(p), InMailbox(p)
  PROVE  Follows(g, p)'
<1> DEFINE n == put[p].name
<1>1. /\ get[g] \in GetStates /\ get \in [Gets -> GetStates] /\ rcv[g] \in RcvStates
      /\ get[g].off \in Nat /\ get[g].off <= Size
      /\ wire[g] \in Seq(Tokens) /\ rcv[g].left \in Nat
  BY StreamTypes DEF Types, TypeOK
<1>2. UNCHANGED <<put, entry, bytes, saved>> /\ tangled \subseteq tangled'
  BY DEF Sync, GetOpendir, GetNoUser, GetStat, GetSkip, GetOpen, GetOpenFails, GetSend,
         GetCloseFile, GetEof
<1>3. /\ n \in Names /\ entry[n] \in Inodes /\ bytes[entry[n]] = Whole(p) /\ Follows(g, p)
  BY DEF InMailbox, Uploaded, Types, PutsOpen
<1>4. Len(Whole(p)) = Size /\ \A k \in 1..Size : Whole(p)[k] = p
  BY SizeAssumption DEF Whole
<1>5. /\ PlaceOf(g) /\ (Delivered(p) => Delivered(p)')
  BY <1>2, SavedStays DEF Placed
<1> HIDE DEF n
<1>6. ASSUME ~Sending(g, n)' PROVE Follows(g, p)'
  BY <1>2, <1>6 DEF Follows, Sending, n
<1>7. ASSUME wire' = wire, rcv' = rcv
      PROVE  Deaf(g)' = Deaf(g) /\ \A m : Piece(g, p, m, 0) => Piece(g, p, m, 0)'
  BY <1>7, SameStream
<1>8. CASE GetOpendir(g) \/ GetNoUser(g) \/ GetEof(g) \/ (\E m \in Names : GetSkip(g, m))
  <2>1. get'[g].pc \in {"next", "closed"}
    BY <1>1, <1>8 DEF GetOpendir, GetNoUser, GetEof, GetSkip, GetStates
  <2> QED BY <1>6, <2>1 DEF Sending
<1>9. ASSUME NEW m \in Names, GetStat(g, m) PROVE Follows(g, p)'
  <2>1. /\ get[g].pc = "next" /\ get'[g].pc = "open" /\ get'[g].name = m
        /\ get'[g].size = Len(bytes[entry[m]]) /\ get'[g].off = get[g].off
        /\ rcv' = rcv /\ Sent(g, Header(m, Len(bytes[entry[m]])))
    BY <1>1, <1>9 DEF GetStat, GetStates
  <2>2. CASE m # n
    BY <1>2, <1>6, <2>1, <2>2 DEF Sending, n
  <2>3. CASE m = n
    <3>1. get'[g].size = Size /\ get'[g].off = 0
      BY <1>3, <1>4, <1>5, <2>1, <2>3 DEF PlaceOf
    <3>2. /\ Header(m, Size) \in Tokens /\ Header(m, Size).type = "header"
          /\ Header(m, Size).size = Size
      BY TokenKinds, SizeAssumption
    <3>3. Sent(g, Header(m, Size)) /\ Deaf(g)' = Deaf(g)
      BY <1>3, <1>4, <2>1, <2>3 DEF Deaf
    <3>4. ASSUME g \notin tangled', ~Deaf(g)' PROVE Piece(g, p, 0, 0)'
      <4>1. FramedSeq(wire[g], rcv[g].left, 0)
        BY <1>2, <1>5, <2>1, <3>3, <3>4 DEF PlaceOf, Rest
      <4>2. /\ Len(wire[g]) + 1 \in 1..Len(Append(wire[g], Header(m, Size)))
            /\ Ahead(Append(wire[g], Header(m, Size)), rcv[g].left, p, 0, Len(wire[g]) + 1)
        BY <1>1, <3>2, <4>1, HeaderAhead
      <4>3. wire'[g] = Append(wire[g], Header(m, Size))
        BY <3>2, <3>3, <3>4, SentTypes DEF Types, TypeOK
      <4>4. Len(wire'[g]) = (Len(wire[g]) + 1) + 0 + 0
        BY <1>1, <3>2, <4>3
      <4> QED BY <2>1, <4>2, <4>3, <4>4 DEF Piece
    <3> QED BY <2>1, <3>1, <3>4 DEF Follows
  <2> QED BY <2>2, <2>3
<1>10. CASE GetOpen(g)
  <2>1. /\ get[g].pc = "open" /\ get'[g].pc = "read" /\ get'[g].name = get[g].name
        /\ get'[g].fd = entry[get[g].name] /\ get'[g].size = get[g].size /\ get'[g].off = 0
        /\ rcv' = rcv /\ wire' = wire
    BY <1>1, <1>10 DEF GetOpen, GetStates
  <2>2. get[g].off = 0
    BY <1>5, <2>1 DEF PlaceOf
  <2> QED BY <1>2, <1>3, <1>5, <1>7, <2>1, <2>2 DEF Follows, Sending, n
<1>11. CASE GetOpenFails(g)
  <2>1. /\ get[g].pc = "open" /\ get'[g].name = get[g].name /\ entry[get[g].name] = Nothing
    BY <1>1, <1>11 DEF GetOpenFails, GetStates
  <2>2. get[g].name # n
    BY <1>3, <2>1, IdsAssumption
  <2> QED BY <1>2, <1>6, <2>1, <2>2 DEF Sending, n
<1>12. CASE GetSend(g)
  <2> DEFINE u == bytes[get[g].fd][get[g].off + 1]
  <2>1. /\ get[g].pc = "read" /\ get[g].off < Len(bytes[get[g].fd]) /\ get[g].fd \in Inodes
    BY <1>12 DEF GetSend, Types, GetsOpen
  <2>2. u \in Units
    BY <1>1, <2>1 DEF Types, TypeOK
  <2>3. /\ get'[g].pc = "read" /\ get'[g].name = get[g].name /\ get'[g].fd = get[g].fd
        /\ get'[g].size = get[g].size /\ get'[g].off = get[g].off + 1
        /\ rcv' = rcv /\ Sent(g, Unit(u))
    BY <1>1, <1>12 DEF GetSend, GetStates
  <2> HIDE DEF u
  <2>4. Deaf(g)' = Deaf(g)
    BY <2>3 DEF Deaf
  <2>5. CASE Sending(g, n) /\ g \notin tangled' /\ ~Deaf(g)
    <3>1. /\ get[g].size = Size /\ get[g].fd = entry[n]
          /\ Piece(g, p, get[g].off, 0) \/ Delivered(p)
      BY <1>2, <1>3, <2>1, <2>5 DEF Follows, n
    <3>2. u = p
      BY <1>1, <1>3, <1>4, <2>1, <3>1 DEF u
    <3>3. Unit(u) \in Tokens /\ Unit(u) = Unit(p) /\ get[g].off \in Nat
      BY <1>1, <2>2, <3>2, TokenKinds
    <3>4. ASSUME Piece(g, p, get[g].off, 0) PROVE Piece(g, p, get[g].off, 0)'
      <4>1. PICK m \in Nat : m = get[g].off
        BY <3>3
      <4>2. Piece(g, p, m, 0)
        BY <3>4, <4>1
      <4>3. Piece(g, p, m + 1, 0)'
        BY <2>3, <2>5, <3>3, <4>2, SendGrows
      <4>4. get'[g].off = m + 1
        BY <2>3, <4>1
      <4> QED BY <4>3, <4>4 DEF Piece
    <3>6. Piece(g, p, get[g].off, 0)' \/ Delivered(p)'
      BY <1>5, <3>1, <3>4
    <3>7. /\ get'[g].size = Size /\ get'[g].fd = entry'[put'[p].name] /\ get'[g].pc = "read"
      BY <1>2, <2>3, <3>1 DEF n
    <3> QED BY <3>6, <3>7 DEF Follows
  <2>6. CASE ~(Sending(g, n) /\ g \notin tangled' /\ ~Deaf(g))
    BY <1>2, <2>1, <2>3, <2>4, <2>6 DEF Follows, Sending, n
  <2> QED BY <2>5, <2>6
<1>13. CASE GetCloseFile(g)
  <2>1. /\ get[g].pc = "read" /\ get[g].off >= Len(bytes[get[g].fd])
        /\ get'[g].pc = "unlink" /\ get'[g].name = get[g].name
        /\ get'[g].size = get[g].size /\ get'[g].off = get[g].off
        /\ rcv' = rcv /\ wire' = wire
    BY <1>1, <1>13 DEF GetCloseFile, GetStates
  <2>2. ASSUME Sending(g, n), g \notin tangled, ~Deaf(g) PROVE get[g].off = Size
    <3>1. get[g].fd = entry[n]
      BY <2>1, <2>2, <1>3 DEF Follows, n
    <3> QED BY <1>1, <1>3, <1>4, <2>1, <3>1, SizeAssumption
  <2> QED BY <1>2, <1>3, <1>5, <1>7, <2>1, <2>2 DEF Follows, Sending, n
<1> QED BY <1>8, <1>9, <1>10, <1>11, <1>12, <1>13 DEF Sync

\* The name is deleted: all of the file has been sent, or the upload is excused.
LEMMA UnlinkKeeps ==
  ASSUME Types, NEW g \in Gets, GetUnlink(g),
         NEW p \in Puts, p \notin excused', Uploaded(p), InMailbox(p)
  PROVE  Kept(p)'
<1> DEFINE n == put[p].name
<1>1. /\ put' = put /\ bytes' = bytes /\ rcv' = rcv /\ wire' = wire /\ saved' = saved
      /\ tangled' = tangled /\ get[g].pc = "unlink"
      /\ entry' = [entry EXCEPT ![get[g].name] = Nothing]
      /\ g \in tangled \/ Deaf(g) => Under(get[g].name) \subseteq excused'
  BY DEF GetUnlink
<1>2. /\ n \in Names /\ p \in Under(n)
  BY AtName DEF HasFile
<1>3. get'[g].pc = "next" /\ \A f \in Gets : f # g => get'[f] = get[f]
  BY DEF GetUnlink, Types, TypeOK, GetStates
<1>4. \A f \in Gets : Deaf(f)' = Deaf(f) /\ \A q, m, r : Piece(f, q, m, r) => Piece(f, q, m, r)'
  BY <1>1, SameStream
<1>5. CASE get[g].name = n
  <2>1. g \notin tangled /\ ~Deaf(g)
    BY <1>1, <1>2, <1>5
  <2>2. Piece(g, p, Size, 0) \/ Delivered(p)
    BY <1>1, <1>5, <2>1 DEF InMailbox, Follows, Sending
  <2>3. CASE Delivered(p)
    BY <1>1, <2>3 DEF Kept, Delivered
  <2>4. CASE Piece(g, p, Size, 0)
    BY <1>4, <2>1, <2>4 DEF Kept, OnItsWay
  <2> QED BY <2>2, <2>3, <2>4
<1>6. CASE get[g].name # n
  <2>1. entry'[n] = entry[n]
    BY <1>1, <1>2, <1>6 DEF Types, TypeOK
  <2>2. ASSUME NEW f \in Gets PROVE Follows(f, p)'
    <3>1. CASE f = g
      BY <1>3, <3>1 DEF Follows, Sending
    <3>2. CASE f # g
      BY <1>1, <1>3, <2>1, <3>2, SameFollows DEF InMailbox
    <3> QED BY <3>1, <3>2
  <2>3. InMailbox(p)'
    BY <1>1, <2>1, <2>2 DEF InMailbox
  <2> QED BY <2>3 DEF Kept
<1> QED BY <1>5, <1>6

LEMMA SyncFrame ==
  ASSUME Types, NEW g \in Gets, Sync(g)
  PROVE  /\ UNCHANGED <<put, bytes, saved>>
         /\ excused \subseteq excused' /\ tangled \subseteq tangled'
         /\ \A f \in Gets : f # g => /\ get'[f] = get[f] /\ wire'[f] = wire[f]
                                     /\ rcv'[f] = rcv[f]
         /\ rcv'[g].file = rcv[g].file /\ (rcv'[g].pc = "data" <=> rcv[g].pc = "data")
         /\ entry' = entry \/ GetUnlink(g)
<1>1. \A f \in Gets : f # g => get'[f] = get[f]
  BY SyncSteps DEF SyncStep
<1>2. \A f \in Gets : f # g => wire'[f] = wire[f]
  BY DEF Sync, GetOpendir, GetNoUser, GetStat, GetSkip, GetOpen, GetOpenFails, GetSend,
     GetCloseFile, GetUnlink, GetEof, Sent, Types, TypeOK
<1>3. rcv' = rcv \/ (get[g].pc = "idle" /\ rcv' = [rcv EXCEPT ![g].pc = "line"])
  BY DEF Sync, GetOpendir, GetNoUser, GetStat, GetSkip, GetOpen, GetOpenFails, GetSend,
     GetCloseFile, GetUnlink, GetEof
<1>4. get[g].pc = "idle" => rcv[g].pc = "idle"
  BY DEF Types, RcvsExpect
<1>5. rcv \in [Gets -> RcvStates] /\ rcv[g] \in RcvStates
  BY DEF Types, TypeOK
<1>6. /\ \A f \in Gets : f # g => rcv'[f] = rcv[f]
      /\ rcv'[g].file = rcv[g].file /\ (rcv'[g].pc = "data" <=> rcv[g].pc = "data")
  BY <1>3, <1>4, <1>5 DEF RcvStates
<1>7. /\ UNCHANGED <<put, bytes, saved>>
      /\ excused \subseteq excused' /\ tangled \subseteq tangled'
      /\ entry' = entry \/ GetUnlink(g)
  BY DEF Sync, GetOpendir, GetNoUser, GetStat, GetSkip, GetOpen, GetOpenFails, GetSend,
     GetCloseFile, GetUnlink, GetEof
<1> QED BY <1>1, <1>2, <1>6, <1>7

\* A sync that looks at a file while it is written excuses the upload.
LEMMA SyncAlone ==
  ASSUME Types, NEW g \in Gets, Sync(g),
         NEW p \in Puts, p \notin excused', put[p].pc = "read", Alone(p)
  PROVE  Alone(p)'
<1> DEFINE n == put[p].name
<1>1. /\ n \in Names /\ put[p].fd \in Inodes /\ entry[n] = put[p].fd
      /\ \A f \in Gets : ~Sending(f, n)
  BY DEF Alone, Types, PutsOpen
<1>2. /\ UNCHANGED <<put, bytes>> /\ (entry' = entry \/ GetUnlink(g))
      /\ \A f \in Gets : f # g => get'[f] = get[f]
  BY SyncFrame
<1>3. get \in [Gets -> GetStates] /\ get[g] \in GetStates
  BY DEF Types, TypeOK
<1>4. p \in Writing(n)
  BY <1>1, IdsAssumption DEF Writing
<1> HIDE DEF n
<1>5. ~Sending(g, n)'
  <2>1. CASE GetOpendir(g) \/ GetNoUser(g) \/ GetEof(g) \/ GetUnlink(g)
             \/ (\E m \in Names : GetSkip(g, m))
    <3>1. get'[g].pc \in {"next", "closed"}
      BY <1>3, <2>1 DEF GetOpendir, GetNoUser, GetEof, GetUnlink, GetSkip, GetStates
    <3> QED BY <3>1 DEF Sending
  <2>2. ASSUME NEW m \in Names, GetStat(g, m) PROVE ~Sending(g, n)'
    <3>1. get'[g].name = m /\ excused' = excused \cup Writing(m)
      BY <1>3, <2>2 DEF GetStat, GetStates
    <3>2. m # n
      BY <1>4, <3>1
    <3> QED BY <1>2, <3>1, <3>2 DEF Sending, n
  <2>3. CASE GetOpen(g) \/ GetOpenFails(g) \/ GetSend(g) \/ GetCloseFile(g)
    <3>1. get'[g].name = get[g].name /\ get[g].pc \in {"open", "read"}
      BY <1>3, <2>3 DEF GetOpen, GetOpenFails, GetSend, GetCloseFile, GetStates
    <3>2. get[g].name # n
      BY <1>1, <3>1 DEF Sending
    <3> QED BY <1>2, <3>1, <3>2 DEF Sending, n
  <2> QED BY <2>1, <2>2, <2>3 DEF Sync
<1>6. entry'[n] = entry[n]
  <2>1. CASE GetUnlink(g)
    <3>1. get[g].pc = "unlink" /\ entry' = [entry EXCEPT ![get[g].name] = Nothing]
      BY <2>1 DEF GetUnlink
    <3>2. get[g].name # n
      BY <1>1, <3>1 DEF Sending
    <3> QED BY <1>1, <3>1, <3>2 DEF Types, TypeOK
  <2> QED BY <1>2, <2>1
<1>7. \A f \in Gets : ~Sending(f, put[p].name)'
  <2>1. ASSUME NEW f \in Gets, f # g PROVE ~Sending(f, n)'
    BY <1>1, <1>2, <2>1 DEF Sending, n
  <2> QED BY <1>5, <2>1 DEF n
<1> QED BY <1>2, <1>6, <1>7 DEF Alone, n

LEMMA SyncKeeps ==
  ASSUME Types, Placed, KInv, NEW g \in Gets, Sync(g)
  PROVE  KInv'
<1>1. /\ UNCHANGED <<put, bytes, saved>>
      /\ excused \subseteq excused' /\ tangled \subseteq tangled'
      /\ \A f \in Gets : f # g => /\ get'[f] = get[f] /\ wire'[f] = wire[f]
                                  /\ rcv'[f] = rcv[f]
      /\ rcv'[g].file = rcv[g].file /\ (rcv'[g].pc = "data" <=> rcv[g].pc = "data")
      /\ entry' = entry \/ GetUnlink(g)
  BY SyncFrame
<1>2. FilesOpen'
  BY <1>1 DEF KInv, FilesOpen
<1>3. OneName'
  <2>1. CASE GetUnlink(g)
    <3>1. entry' = [entry EXCEPT ![get[g].name] = Nothing]
      BY <2>1 DEF GetUnlink
    <3> QED BY <3>1 DEF KInv, OneName, Types, TypeOK
  <2> QED BY <1>1, <2>1 DEF KInv, OneName
<1>4. ASSUME NEW p \in Puts PROVE Safe(p)'
  <2>1. Safe(p)
    BY DEF KInv
  <2>2. ASSUME p \notin excused', put'[p].pc = "read" PROVE Alone(p)'
    BY <1>1, <2>1, <2>2, SyncAlone DEF Safe
  <2>3. ASSUME p \notin excused', Uploaded(p)' PROVE Kept(p)'
    <3>1. Kept(p) /\ Uploaded(p)
      BY <1>1, <2>1, <2>3 DEF Safe, Uploaded
    <3>2. CASE InMailbox(p) /\ GetUnlink(g)
      BY <2>3, <3>1, <3>2, UnlinkKeeps
    <3>3. CASE InMailbox(p) /\ ~GetUnlink(g)
      <4>1. ASSUME NEW f \in Gets PROVE Follows(f, p)'
        <5>1. CASE f = g
          BY <3>1, <3>3, <5>1, SyncFollows
        <5>2. CASE f # g
          BY <1>1, <3>3, <5>2, SameFollows DEF InMailbox
        <5> QED BY <5>1, <5>2
      <4>2. InMailbox(p)'
        BY <1>1, <3>3, <4>1 DEF InMailbox
      <4> QED BY <4>2 DEF Kept
    <3>4. ASSUME NEW f \in Gets, OnItsWay(f, p) PROVE Kept(p)'
      BY <3>4, SyncOnItsWay DEF Kept
    <3>5. CASE Delivered(p)
      BY <1>1, <3>5 DEF Kept, Delivered
    <3> QED BY <3>1, <3>2, <3>3, <3>4, <3>5 DEF Kept
  <2> QED BY <1>1, <2>1, <2>2, <2>3 DEF Safe
<1> QED BY <1>2, <1>3, <1>4 DEF KInv

-----------------------------------------------------------------------------
LEMMA KeepsNext == IInv /\ KInv /\ [Next]_vars => KInv'
<1> SUFFICES ASSUME IInv, KInv, [Next]_vars PROVE KInv'
  OBVIOUS
<1>1. Types /\ Placed
  BY DEF IInv
<1>2. CASE UNCHANGED vars
  <2>1. \A p \in Puts : Untouched(p)
    BY <1>2 DEF Untouched, vars
  <2>2. ASSUME NEW p \in Puts PROVE Safe(p)'
    BY <1>1, <1>2, <2>1, UntouchedSafe DEF KInv, vars
  <2> QED BY <1>2, <2>2 DEF KInv, OneName, FilesOpen, vars
<1> QED BY <1>1, <1>2, UploadKeeps, SyncKeeps, RecvKeeps, AdminKeeps DEF Next

\* Where a complete upload is by the invariant, it is for a reader of the directory and
\* the streams.
LEMMA KeptConserves == Types /\ KInv => Conserved
<1> SUFFICES ASSUME Types, KInv, NEW p \in Puts, Uploaded(p), p \notin excused
             PROVE  Stored(p) \/ InTransit(p) \/ Delivered(p)
  BY DEF Conserved
<1>1. Kept(p)
  BY DEF KInv, Safe
<1>2. CASE InMailbox(p)
  <2>1. put[p].name \in Names
    BY DEF Uploaded, Types, PutsOpen
  <2> QED BY <1>2, <2>1, IdsAssumption DEF InMailbox, Stored, Listed
<1>3. ASSUME NEW g \in Gets, OnItsWay(g, p) PROVE InTransit(p)
  <2>1. p \in In(wire[g])
    BY <1>3, PieceIn DEF OnItsWay
  <2> QED BY <2>1 DEF InTransit
<1> QED BY <1>1, <1>2, <1>3 DEF Kept

\* run_server_get has read all of an upload and closed the file: from then on the file
\* is whole in the user's directory, or its blocks are in a stream to a receiver, or
\* receive.c has saved it whole, however uploads, syncs, receivers and administrators
\* interleave.  A sync that looked at the name before it deletes it is the hard case:
\* all it has sent is p's block, in the place where the receiver will look for it.  The
\* only uploads that get lost are the excused ones: those whose name another upload
\* took, that a sync looked at before they were closed or was busy with when they were
\* created, that an administrator deleted, or whose sync had lost its receiver.
THEOREM MailboxKeeps == Spec => []Conserved
<1>1. Init => IInv /\ KInv
  BY InitTypes, InitPlaced, InitSafe DEF IInv
<1>2. IInv /\ KInv /\ [Next]_vars => IInv' /\ KInv'
  BY NextPlaced, KeepsNext
<1>3. IInv /\ KInv => Conserved
  BY KeptConserves DEF IInv
<1> QED BY <1>1, <1>2, <1>3, PTL DEF Spec

=============================================================================
