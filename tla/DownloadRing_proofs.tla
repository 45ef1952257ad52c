------------------------- MODULE DownloadRing_proofs -------------------------
(***************************************************************************)
(* Proofs about DownloadRing for every queue size and every file length.   *)
(*                                                                         *)
(* The inductive invariant IInv relates the three views of the queue: the  *)
(* two bounds (Waiting, how many slots lie between them), the history      *)
(* (Stored and got) and the content of the slots between the bounds        *)
(* (Window).                                                               *)
(***************************************************************************)
EXTENDS DownloadRing, TLAPS

\* The index reached by x steps from 0, x below two laps.
Wrap(x) == IF x < Size THEN x ELSE x - Size

\* Slots from the reader's bound up to the writer's.
Waiting == IF upper >= lower THEN upper - lower ELSE upper - lower + Size

\* Whoever is inside a critical section holds the lock.
Locking ==
    /\ lock = "producer" <=> pcP \in {"locked", "stored"}
    /\ lock = "consumer" <=> pcC \in {"locked", "loaded"}

\* The bounds count what the history says, and they meet only at the start.
Counting ==
    /\ Waiting = Stored + Lead - Len(got)
    /\ Waiting = 0 => got = <<>> /\ Stored = 0
    /\ pcP = "closed" => fpos = FileLen

\* Before the first byte is stored no slot was ever written.
Blank == fpos = 0 => \A i \in Slots : space[i] = NoByte

\* The slots between the bounds hold the next bytes of the stream.
Window ==
    \A j \in 0 .. Waiting - 1 :
        space[Wrap(lower + j)] = Item(Len(got) + 1 + j, Lead)

\* What is known in the middle of a critical section.
Midway ==
    /\ pcP = "stored" => fpos >= 1 /\ Waiting < Size - 1 /\ space[upper] = fpos
    /\ pcC = "loaded" => Waiting # 1 /\ held = space[lower]

IInv ==
    /\ TypeOK
    /\ Locking
    /\ Counting
    /\ Blank
    /\ Window
    /\ Midway
    /\ InOrder

-----------------------------------------------------------------------------
(* Index arithmetic *)

LEMMA IndexInRange ==
    ASSUME NEW x \in Slots
    PROVE  x % Size = x
BY SizeAssumption, SMT DEF Slots

LEMMA NextIndex ==
    ASSUME NEW x \in Slots
    PROVE  /\ (x + 1) % Size = Wrap(x + 1)
           /\ Wrap(x + 1) \in Slots
           /\ After(x) = Wrap(x + 1)
           /\ After(x) % Size = Wrap(x + 1)
<1>1. (x + 1) % Size = IF x + 1 = Size THEN 0 ELSE x + 1
    BY SizeAssumption, SMT DEF Slots
<1>2. Wrap(x + 1) = (IF x + 1 = Size THEN 0 ELSE x + 1) /\ Wrap(x + 1) \in Slots
    BY SizeAssumption, SMT DEF Slots, Wrap
<1> QED
    BY <1>1, <1>2, IndexInRange DEF After

\* The two refusals in terms of the distance between the bounds.
LEMMA Refusals ==
    ASSUME lower \in Slots, upper \in Slots
    PROVE  /\ Waiting \in 0 .. Size - 1
           /\ Full(lower, upper) <=> Waiting = Size - 1
           /\ Empty(lower, upper) <=> Waiting = 1
<1>1. /\ lower % Size = lower
      /\ upper % Size = upper
      /\ (lower + 1) % Size = Wrap(lower + 1)
      /\ (upper + 1) % Size = Wrap(upper + 1)
    BY IndexInRange, NextIndex
<1> QED
    BY <1>1, SizeAssumption, SMT DEF Full, Empty, Waiting, Wrap, Slots

-----------------------------------------------------------------------------
(* The inductive invariant *)

LEMMA InitIInv == Init => IInv
<1> SUFFICES ASSUME Init PROVE IInv
    OBVIOUS
<1>1. TypeOK
    BY SizeAssumption, FileAssumption DEF Init, TypeOK, Slots, Bytes, NoByte, Nobody
<1>2. Waiting = 0 /\ Stored = 0 /\ Lead = 0 /\ Len(got) = 0
    BY SizeAssumption DEF Init, Waiting, Stored, Lead
<1>3. Locking
    BY DEF Init, Locking, Nobody
<1>4. Blank
    BY DEF Init, Blank
<1>5. Window
    BY <1>2 DEF Window
<1>6. InOrder
    BY <1>2 DEF InOrder
<1>7. Counting
  <2>1. Waiting = Stored + Lead - Len(got)
      BY <1>2
  <2>2. got = <<>> /\ Stored = 0 /\ pcP # "closed"
      BY <1>2 DEF Init
  <2> QED
      BY <2>1, <2>2 DEF Counting
<1>8. Midway
    BY DEF Init, Midway
<1> QED
    BY <1>1, <1>3, <1>4, <1>5, <1>6, <1>7, <1>8 DEF IInv

\* Steps that touch neither the slots nor the bounds nor the history, and are
\* not taken in the middle of a critical section.
LEMMA QuietStep ==
    ASSUME IInv, TypeOK', Locking',
           UNCHANGED <<space, lower, upper, fpos, held, got>>,
           pcP' = "stored" <=> pcP = "stored",
           pcP' = "closed" => fpos = FileLen,
           pcC' = "loaded" => pcC = "loaded"
    PROVE  IInv'
<1>1. Lead' = Lead /\ Stored' = Stored /\ Waiting' = Waiting
    BY DEF Lead, Stored, Waiting
<1>2. Counting'
    BY <1>1 DEF IInv, Counting
<1>3. Blank' /\ InOrder'
    BY <1>1 DEF IInv, Blank, InOrder
<1>4. Window'
    BY <1>1 DEF IInv, Window, Item
<1>5. Midway'
    BY <1>1 DEF IInv, Midway
<1> QED
    BY <1>2, <1>3, <1>4, <1>5 DEF IInv

LEMMA StoreByteStep == IInv /\ StoreByte => IInv'
<1> SUFFICES ASSUME IInv, StoreByte PROVE IInv'
    OBVIOUS
<1> USE DEF IInv
<1>1. upper % Size = upper /\ upper \in Slots /\ lower \in Slots
    BY IndexInRange DEF TypeOK
<1>2. Waiting \in 0 .. Size - 2
    BY Refusals, <1>1, SizeAssumption DEF StoreByte
<1>3. TypeOK'
    BY <1>1, FileAssumption DEF TypeOK, StoreByte, Bytes
<1>4. Locking'
    BY DEF Locking, StoreByte, TypeOK
<1>5. Lead' = Lead /\ Stored' = Stored /\ Waiting' = Waiting /\ fpos \in Nat
    BY FileAssumption DEF Lead, Stored, Waiting, StoreByte, TypeOK
<1>6. Counting'
    BY <1>5 DEF Counting, StoreByte
<1>7. Blank' /\ InOrder'
    BY <1>5 DEF Blank, InOrder, StoreByte
<1>8. Window'
  <2>1. \A j \in 0 .. Waiting - 1 : Wrap(lower + j) # upper /\ Wrap(lower + j) \in Slots
      BY <1>1, <1>2, SizeAssumption, SMT DEF Wrap, Waiting, Slots
  <2>2. \A j \in 0 .. Waiting - 1 : space'[Wrap(lower + j)] = space[Wrap(lower + j)]
      BY <1>1, <2>1 DEF StoreByte, TypeOK
  <2> QED
      BY <1>5, <2>2 DEF Window, Item, StoreByte
<1>9. Midway'
    BY <1>1, <1>2, <1>5, SizeAssumption DEF Midway, StoreByte, TypeOK, Locking
<1> QED
    BY <1>3, <1>4, <1>6, <1>7, <1>8, <1>9

LEMMA PublishUpperStep == IInv /\ PublishUpper => IInv'
<1> SUFFICES ASSUME IInv, PublishUpper PROVE IInv'
    OBVIOUS
<1> USE DEF IInv
<1>1. /\ upper \in Slots
      /\ lower \in Slots
      /\ upper' = Wrap(upper + 1)
      /\ upper' \in Slots
    BY NextIndex DEF TypeOK, PublishUpper
<1>2. Waiting \in 0 .. Size - 2
    BY Refusals, <1>1, SizeAssumption DEF PublishUpper, Midway
<1>3. TypeOK'
    BY <1>1 DEF TypeOK, PublishUpper
<1>4. Locking'
    BY DEF Locking, PublishUpper, TypeOK, Nobody
<1>5. Waiting' = Waiting + 1
    BY <1>1, <1>2, SizeAssumption, SMT DEF Waiting, Wrap, Slots, PublishUpper
<1>6. Lead' = Lead /\ Stored' = Stored + 1 /\ Stored' = fpos
    BY DEF Lead, Stored, PublishUpper, TypeOK
<1>7. Lead \in Nat /\ Stored \in Nat /\ Len(got) \in Nat
    BY SizeAssumption DEF Lead, Stored, PublishUpper, TypeOK, Midway
<1>8. Counting'
    BY <1>2, <1>5, <1>6, <1>7 DEF Counting, PublishUpper
<1>9. Blank' /\ InOrder'
    BY <1>6 DEF Blank, InOrder, PublishUpper
<1>10. Window'
  <2>1. SUFFICES ASSUME NEW j \in 0 .. Waiting
                 PROVE  space[Wrap(lower + j)] = Item(Len(got) + 1 + j, Lead)
      BY <1>2, <1>5, <1>6 DEF Window, Item, PublishUpper
  <2>2. CASE j < Waiting
      BY <2>2, <1>2 DEF Window
  <2>3. CASE j = Waiting
    <3>1. Wrap(lower + j) = upper
        BY <2>3, <1>1, SizeAssumption, SMT DEF Wrap, Waiting, Slots
    <3>2. Len(got) + 1 + j = fpos + Lead
        BY <2>3, <1>6, <1>7 DEF Counting
    <3>3. fpos \in Nat /\ fpos >= 1 /\ space[upper] = fpos
        BY DEF Midway, PublishUpper, TypeOK
    <3> QED
        BY <3>1, <3>2, <3>3, <1>7 DEF Item
  <2> QED
      BY <2>2, <2>3, <1>2
<1>11. Midway'
    BY <1>5 DEF Midway, PublishUpper, Locking, TypeOK
<1> QED
    BY <1>3, <1>4, <1>8, <1>9, <1>10, <1>11

LEMMA LoadByteStep == IInv /\ LoadByte => IInv'
<1> SUFFICES ASSUME IInv, LoadByte PROVE IInv'
    OBVIOUS
<1> USE DEF IInv
<1>1. lower % Size = lower /\ lower \in Slots /\ upper \in Slots
    BY IndexInRange DEF TypeOK
<1>2. Waiting # 1
    BY Refusals, <1>1 DEF LoadByte
<1>3. TypeOK'
    BY <1>1 DEF TypeOK, LoadByte
<1>4. Locking'
    BY DEF Locking, LoadByte, TypeOK
<1>5. Lead' = Lead /\ Stored' = Stored /\ Waiting' = Waiting
    BY DEF Lead, Stored, Waiting, LoadByte
<1>6. Counting' /\ Blank' /\ InOrder' /\ Window'
    BY <1>5 DEF Counting, Blank, InOrder, Window, Item, LoadByte
<1>7. Midway'
    BY <1>1, <1>2, <1>5 DEF Midway, LoadByte
<1> QED
    BY <1>3, <1>4, <1>6, <1>7

\* The byte about to be returned is the next one of the stream.
LEMMA HeldIsNext ==
    ASSUME IInv, pcC = "loaded"
    PROVE  /\ Waiting # 0 => held = Item(Len(got) + 1, Lead)
           /\ Waiting = 0 => got = <<>> /\ held = NoByte /\ fpos = 0 /\ Stored = 0
<1> USE DEF IInv
<1>1. lower \in Slots /\ upper \in Slots /\ Len(got) \in Nat
    BY DEF TypeOK
<1>2. Waiting \in 0 .. Size - 1
    BY Refusals, <1>1
<1>3. Wrap(lower + 0) = lower
    BY <1>1, SizeAssumption DEF Wrap, Slots
<1>4. pcP # "stored"
    BY DEF Locking
<1>5. ASSUME Waiting # 0 PROVE held = Item(Len(got) + 1, Lead)
  <2>1. 0 \in 0 .. Waiting - 1
      BY <1>2, <1>5
  <2>2. space[Wrap(lower + 0)] = Item(Len(got) + 1 + 0, Lead)
      BY <2>1 DEF Window
  <2> QED
      BY <2>2, <1>1, <1>3 DEF Midway
<1>6. ASSUME Waiting = 0 PROVE got = <<>> /\ held = NoByte /\ fpos = 0 /\ Stored = 0
    BY <1>6, <1>1, <1>4 DEF Counting, Stored, Blank, Midway
<1> QED
    BY <1>5, <1>6

LEMMA ReturnByteStep == IInv /\ ReturnByte => IInv'
<1> SUFFICES ASSUME IInv, ReturnByte PROVE IInv'
    OBVIOUS
<1> USE DEF IInv
<1>1. /\ upper \in Slots
      /\ lower \in Slots
      /\ lower' = Wrap(lower + 1)
      /\ lower' \in Slots
    BY NextIndex DEF TypeOK, ReturnByte
<1>2. Waiting \in 0 .. Size - 1 /\ Waiting # 1
    BY Refusals, <1>1 DEF ReturnByte, Midway
<1>3. TypeOK'
    BY <1>1 DEF TypeOK, ReturnByte
<1>4. Locking'
    BY DEF Locking, ReturnByte, TypeOK, Nobody
<1>5. /\ Len(got') = Len(got) + 1
      /\ got'[Len(got) + 1] = held
      /\ \A k \in 1 .. Len(got) : got'[k] = got[k]
      /\ got' # <<>>
      /\ Len(got) \in Nat
    BY DEF ReturnByte, TypeOK
<1>6. Stored' = Stored /\ Stored \in Nat /\ Lead \in Nat
    BY SizeAssumption DEF ReturnByte, Stored, TypeOK, Locking, Lead
<1>7. Blank'
    BY DEF ReturnByte, Blank
<1>8. CASE Waiting = 0
  <2>1. got = <<>> /\ held = NoByte /\ fpos = 0 /\ Stored = 0
      BY <1>8, HeldIsNext DEF ReturnByte
  <2>2. Len(got) = 0 /\ got'[1] = NoByte /\ Len(got') = 1
      BY <2>1, <1>5
  <2>3. Lead' = Size /\ Lead = 0
      BY <2>1, <2>2, <1>5 DEF Lead
  <2>4. Waiting' = Size - 1
      BY <1>8, <1>1, SizeAssumption, SMT DEF Waiting, Wrap, Slots, ReturnByte
  <2>5. Counting'
      BY <1>6, <2>1, <2>2, <2>3, <2>4, SizeAssumption DEF Counting, ReturnByte
  <2>6. Window'
    <3>1. SUFFICES ASSUME NEW j \in 0 .. Size - 2
                   PROVE  space'[Wrap(lower' + j)] = Item(Len(got') + 1 + j, Lead')
        BY <2>4, SizeAssumption DEF Window, Item
    <3>2. Wrap(lower' + j) \in Slots
        BY <1>1, SizeAssumption, SMT DEF Wrap, Slots
    <3>3. space'[Wrap(lower' + j)] = NoByte
        BY <3>2, <2>1 DEF Blank, ReturnByte
    <3> QED
        BY <3>3, <2>2, <2>3, SizeAssumption DEF Item
  <2>7. InOrder'
    <3>1. \A k \in 1 .. Len(got') : k = 1
        BY <2>2
    <3>2. Item(1, Lead') = NoByte
        BY <2>3, SizeAssumption DEF Item
    <3> QED
        BY <3>1, <3>2, <2>2 DEF InOrder
  <2>8. Midway'
      BY DEF Midway, ReturnByte, Locking
  <2> QED
      BY <1>3, <1>4, <1>7, <2>5, <2>6, <2>7, <2>8
<1>9. CASE Waiting > 1
  <2>1. held = Item(Len(got) + 1, Lead)
      BY <1>9, HeldIsNext DEF ReturnByte
  <2>2. Lead' = Lead
    <3>1. CASE got = <<>>
      <4>1. Lead = 0 /\ Len(got) = 0
          BY <3>1 DEF Lead
      <4>2. got'[1] = 1
          BY <4>1, <2>1, <1>5 DEF Item
      <4> QED
          BY <4>1, <4>2 DEF Lead, NoByte
    <3>2. CASE got # <<>>
      <4>1. got'[1] = got[1]
          BY <3>2, <1>5 DEF TypeOK
      <4> QED
          BY <3>2, <4>1, <1>5 DEF Lead
    <3> QED
        BY <3>1, <3>2
  <2>3. Waiting' = Waiting - 1
      BY <1>9, <1>1, SizeAssumption, SMT DEF Waiting, Wrap, Slots, ReturnByte
  <2>4. Counting'
      BY <1>2, <1>5, <1>6, <1>9, <2>2, <2>3 DEF Counting, ReturnByte
  <2>5. Window'
    <3>1. SUFFICES ASSUME NEW j \in 0 .. Waiting - 2
                   PROVE  space[Wrap(lower' + j)] = Item(Len(got) + 1 + 1 + j, Lead)
        BY <1>2, <1>5, <2>2, <2>3 DEF Window, Item, ReturnByte
    <3>2. Wrap(lower' + j) = Wrap(lower + (j + 1))
        BY <1>1, <1>2, SizeAssumption, SMT DEF Wrap, Slots
    <3>3. j + 1 \in 0 .. Waiting - 1
        BY <1>2
    <3>4. space[Wrap(lower + (j + 1))] = Item(Len(got) + 1 + (j + 1), Lead)
        BY <3>3 DEF Window
    <3>5. Len(got) + 1 + (j + 1) = Len(got) + 1 + 1 + j
        BY <1>2, <1>5
    <3> QED
        BY <3>2, <3>4, <3>5
  <2>6. InOrder'
    <3>1. SUFFICES ASSUME NEW k \in 1 .. Len(got) + 1
                   PROVE  got'[k] = Item(k, Lead)
        BY <1>5, <2>2 DEF InOrder, Item
    <3>2. CASE k = Len(got) + 1
        BY <3>2, <2>1, <1>5
    <3>3. CASE k \in 1 .. Len(got)
        BY <3>3, <1>5 DEF InOrder, Item
    <3> QED
        BY <3>2, <3>3, <1>5
  <2>7. Midway'
      BY DEF Midway, ReturnByte, Locking
  <2> QED
      BY <1>3, <1>4, <1>7, <2>4, <2>5, <2>6, <2>7
<1> QED
    BY <1>2, <1>8, <1>9

LEMMA StepIInv == IInv /\ [Next]_vars => IInv'
<1> SUFFICES ASSUME IInv, [Next]_vars PROVE IInv'
    OBVIOUS
<1>1. CASE LockP
  <2>1. TypeOK' /\ Locking'
      BY <1>1 DEF LockP, IInv, TypeOK, Locking, Nobody
  <2> QED
      BY <1>1, <2>1, QuietStep DEF LockP
<1>2. CASE EndOfFile
  <2>1. TypeOK' /\ Locking'
      BY <1>2 DEF EndOfFile, IInv, TypeOK, Locking, Nobody
  <2> QED
      BY <1>2, <2>1, QuietStep DEF EndOfFile
<1>3. CASE Refused
  <2>1. upper % Size = upper
      BY IndexInRange DEF IInv, TypeOK
  <2>2. TypeOK' /\ Locking'
      BY <1>3, <2>1 DEF Refused, IInv, TypeOK, Locking, Nobody
  <2> QED
      BY <1>3, <2>1, <2>2, QuietStep DEF Refused
<1>4. CASE StoreByte
    BY <1>4, StoreByteStep
<1>5. CASE PublishUpper
    BY <1>5, PublishUpperStep
<1>6. CASE WakeP
  <2>1. TypeOK' /\ Locking'
      BY <1>6 DEF WakeP, IInv, TypeOK, Locking, Nobody
  <2> QED
      BY <1>6, <2>1, QuietStep DEF WakeP
<1>7. CASE LockC
  <2>1. TypeOK' /\ Locking'
      BY <1>7 DEF LockC, IInv, TypeOK, Locking, Nobody
  <2> QED
      BY <1>7, <2>1, QuietStep DEF LockC, IInv, Counting
<1>8. CASE NothingThere
  <2>1. (lower % Size) % Size = lower
      BY IndexInRange DEF IInv, TypeOK
  <2>2. TypeOK' /\ Locking'
      BY <1>8, <2>1 DEF NothingThere, IInv, TypeOK, Locking, Nobody
  <2> QED
      BY <1>8, <2>1, <2>2, QuietStep DEF NothingThere, IInv, Counting
<1>9. CASE LoadByte
    BY <1>9, LoadByteStep
<1>10. CASE ReturnByte
    BY <1>10, ReturnByteStep
<1>11. CASE WakeC
  <2>1. TypeOK' /\ Locking'
      BY <1>11 DEF WakeC, IInv, TypeOK, Locking, Nobody
  <2> QED
      BY <1>11, <2>1, QuietStep DEF WakeC, IInv, Counting
<1>12. CASE UNCHANGED vars
  <2>1. TypeOK' /\ Locking'
      BY <1>12 DEF vars, IInv, TypeOK, Locking
  <2> QED
      BY <1>12, <2>1, QuietStep DEF vars, IInv, Counting
<1> QED
    BY <1>1, <1>2, <1>3, <1>4, <1>5, <1>6, <1>7, <1>8, <1>9, <1>10, <1>11, <1>12
    DEF Next, Producer, Consumer

LEMMA Invariance == Spec => []IInv
<1> QED
    BY InitIInv, StepIInv, PTL DEF Spec

-----------------------------------------------------------------------------
(* The theorems *)

\* The bounds stay inside the mapping, the file position inside the file and
\* the program counters in the code, for every queue and every file.
THEOREM TypeCorrect == Spec => []TypeOK
<1>1. IInv => TypeOK
    BY DEF IInv
<1> QED
    BY Invariance, <1>1, PTL

\* Whatever the schedule of the two threads, the bytes returned are the file
\* in order, without a gap or a repetition, after no unwritten byte or exactly
\* Size of them.
THEOREM Fifo == Spec => []InOrder
<1>1. IInv => InOrder
    BY DEF IInv
<1> QED
    BY Invariance, <1>1, PTL

\* The last byte stored is never among those returned: with no byte to follow
\* it, the end of a file stays in the queue.
THEOREM LastByteStays == Spec => []KeepsOneBack
<1>1. IInv => KeepsOneBack
  <2> SUFFICES ASSUME IInv, got # <<>> PROVE Len(got) < Stored + Lead
      BY DEF KeepsOneBack
  <2>1. Waiting \in 0 .. Size - 1
      BY Refusals DEF IInv, TypeOK
  <2>2. Waiting # 0 /\ Waiting = Stored + Lead - Len(got)
      BY DEF IInv, Counting
  <2>3. Stored \in Int /\ Lead \in Int /\ Len(got) \in Int
      BY SizeAssumption DEF IInv, TypeOK, Stored, Lead
  <2> QED
      BY <2>1, <2>2, <2>3
<1> QED
    BY Invariance, <1>1, PTL

-----------------------------------------------------------------------------
(* Refinement: publishing the writer's bound is LaggedStream's Store, the   *)
(* return of a byte its Take or TakeUnwritten, and all else is a stutter.   *)

LEMMA MappedType ==
    ASSUME IInv
    PROVE  /\ Waiting \in 0 .. Size - 1
           /\ Stored \in Nat /\ Lead \in Nat /\ Len(got) \in Nat
           /\ Waiting = Stored + Lead - Len(got)
<1>1. Waiting \in 0 .. Size - 1
    BY Refusals DEF IInv, TypeOK
<1>2. Stored \in Nat
    BY DEF IInv, TypeOK, Stored, Midway
<1>3. Lead \in Nat /\ Len(got) \in Nat
    BY SizeAssumption DEF IInv, TypeOK, Lead
<1> QED
    BY <1>1, <1>2, <1>3 DEF IInv, Counting

LEMMA PublishUpperStores == IInv /\ PublishUpper => Abstract!Store
<1> SUFFICES ASSUME IInv, PublishUpper PROVE Abstract!Store
    OBVIOUS
<1>1. Stored < FileLen /\ Stored' = Stored + 1
    BY FileAssumption DEF IInv, TypeOK, PublishUpper, Stored
<1>2. Stored + Lead - Len(got) < Size - 1
    BY MappedType DEF IInv, Midway, PublishUpper
<1>3. Lead' = Lead /\ got' = got
    BY DEF PublishUpper, Lead
<1> QED
    BY <1>1, <1>2, <1>3 DEF Abstract!Store

LEMMA ReturnByteTakes ==
    IInv /\ IInv' /\ ReturnByte => Abstract!Take \/ Abstract!TakeUnwritten
<1> SUFFICES ASSUME IInv, IInv', ReturnByte
             PROVE  Abstract!Take \/ Abstract!TakeUnwritten
    OBVIOUS
<1>1. Stored' = Stored /\ got' = Append(got, held) /\ got \in Seq(Bytes)
    BY DEF ReturnByte, Stored, IInv, TypeOK, Locking
<1>2. CASE Waiting = 0
  <2>1. got = <<>> /\ held = NoByte /\ Stored = 0
      BY <1>2, HeldIsNext DEF ReturnByte
  <2>2. got' = <<NoByte>>
      BY <1>1, <2>1
  <2>3. Lead' = Size
      BY <2>2 DEF Lead
  <2> QED
      BY <1>1, <2>1, <2>2, <2>3 DEF Abstract!TakeUnwritten, Abstract!NoByte, NoByte
<1>3. CASE Waiting # 0
  <2>1. held = Item(Len(got) + 1, Lead)
      BY <1>3, HeldIsNext DEF ReturnByte
  <2>2. Len(got) + 1 < Stored + Lead
      BY <1>3, MappedType DEF IInv, Midway, ReturnByte
  <2>3. Lead' = Lead
    <3>1. CASE got = <<>>
        BY <3>1, <1>1, <2>1 DEF Lead, Item, NoByte
    <3>2. CASE got # <<>>
      <4>1. got' # <<>> /\ got'[1] = got[1]
          BY <3>2, <1>1
      <4> QED
          BY <3>2, <4>1 DEF Lead
    <3> QED
        BY <3>1, <3>2
  <2> QED
      BY <1>1, <2>1, <2>2, <2>3
      DEF Abstract!Take, Abstract!Item, Abstract!NoByte, Item, NoByte
<1> QED
    BY <1>2, <1>3

\* The queue implements LaggedStream: a reader of any file through a queue of
\* any size sees a stream it could have seen from the abstract one.
THEOREM Refinement == Spec => ImplementsLaggedStream
<1>1. Init => Abstract!Init
    BY DEF Init, Abstract!Init, Stored, Lead
<1>2. IInv /\ IInv' /\ [Next]_vars => [Abstract!Next]_(Abstract!vars)
  <2> SUFFICES ASSUME IInv, IInv', [Next]_vars
               PROVE  [Abstract!Next]_(Abstract!vars)
      OBVIOUS
  <2>1. CASE PublishUpper
      BY <2>1, PublishUpperStores DEF Abstract!Next
  <2>2. CASE ReturnByte
      BY <2>2, ReturnByteTakes DEF Abstract!Next
  <2>3. CASE StoreByte
    <3>1. Stored' = Stored /\ Lead' = Lead /\ got' = got
        BY <2>3, FileAssumption DEF StoreByte, Stored, Lead, IInv, TypeOK
    <3> QED
        BY <3>1 DEF Abstract!vars
  <2>4. CASE \/ LockP \/ EndOfFile \/ Refused \/ WakeP
             \/ LockC \/ NothingThere \/ LoadByte \/ WakeC
    <3>1. /\ fpos' = fpos /\ got' = got
          /\ pcP' = "stored" <=> pcP = "stored"
        BY <2>4 DEF LockP, EndOfFile, Refused, WakeP, LockC, NothingThere,
                    LoadByte, WakeC
    <3> QED
        BY <3>1 DEF Abstract!vars, Stored, Lead
  <2>5. CASE UNCHANGED vars
      BY <2>5 DEF vars, Abstract!vars, Stored, Lead
  <2> QED
      BY <2>1, <2>2, <2>3, <2>4, <2>5 DEF Next, Producer, Consumer
<1> QED
    BY Invariance, <1>1, <1>2, PTL DEF Spec, Abstract!Spec, ImplementsLaggedStream

=============================================================================
