---------------------------- MODULE DownloadRing ----------------------------
(***************************************************************************)
(* The circular byte queue of memory.h (read_space, write_space) as        *)
(* downloads.h uses it: a producer thread loads a file into it             *)
(* (read_from_donwloads / read_to_quee) and a consumer takes it out one    *)
(* byte per call (write_from_downloads).  Both hold the mutex and the      *)
(* named semaphore around one operation; both sleep 10 ms and try again    *)
(* when the operation is refused.                                          *)
(*                                                                         *)
(* Byte k of the file is the number k.  A critical section takes several   *)
(* steps, so that the lock is what makes it atomic: taking it, touching    *)
(* the slot, publishing the new bound and releasing it.                    *)
(***************************************************************************)
EXTENDS Integers, Sequences

CONSTANTS
    Size,     \* slots of the queue: KB, 1024
    FileLen   \* bytes of the file

ASSUME SizeAssumption == Size \in Nat /\ Size >= 2
ASSUME FileAssumption == FileLen \in Nat

VARIABLES
    space,    \* the shared mapping of record 1
    lower,    \* *lower_bound_space, the reader's bound
    upper,    \* *upper_bound_space, the writer's bound
    fpos,     \* position of the file stream
    lock,     \* who holds m and sem
    pcP, pcC, \* program counters of the producer and of the consumer
    held,     \* ptr.b of the consumer's call in progress
    got       \* history: the bytes the consumer's calls returned

vars == <<space, lower, upper, fpos, lock, pcP, pcC, held, got>>

-----------------------------------------------------------------------------
NoByte == 0                     \* content of a slot nobody wrote
Slots  == 0 .. Size - 1
Bytes  == 0 .. FileLen          \* NoByte and the bytes of the file
Nobody == "nobody"

TypeOK ==
    /\ space \in [Slots -> Bytes]
    /\ lower \in Slots
    /\ upper \in Slots
    /\ fpos \in 0 .. FileLen
    /\ lock \in {Nobody, "producer", "consumer"}
    /\ pcP \in {"call", "locked", "stored", "asleep", "closed"}
    /\ pcC \in {"call", "locked", "loaded", "asleep"}
    /\ held \in Bytes
    /\ got \in Seq(Bytes)

Init ==
    /\ space = [i \in Slots |-> NoByte]
    /\ lower = 0
    /\ upper = 0
    /\ fpos = 0
    /\ lock = Nobody
    /\ pcP = "call"
    /\ pcC = "call"
    /\ held = NoByte
    /\ got = <<>>

-----------------------------------------------------------------------------
(* write_space and read_space: the tests and the bound they return *)

Full(lo, up) == (up + 1) % Size = lo % Size

\* Bug: the reader tests the bounds before it moves its own.
EmptyWhenBoundsMeet(lo, up) == lo % Size = up % Size
Empty(lo, up) == (lo + 1) % Size = up % Size

\* Bug: the bound returned is not reduced.
AfterUnreduced(bound) == bound + 1
After(bound) == (bound + 1) % Size

-----------------------------------------------------------------------------
(* The producer: read_from_donwloads, one read_to_quee per turn of the loop *)

\* Bug: the loop turns without taking m and sem.
LockPNot ==
    /\ pcP = "call"
    /\ pcP' = "locked"
    /\ UNCHANGED <<space, lower, upper, fpos, lock, pcC, held, got>>
LockP ==
    /\ pcP = "call"
    /\ lock = Nobody
    /\ lock' = "producer"
    /\ pcP' = "locked"
    /\ UNCHANGED <<space, lower, upper, fpos, pcC, held, got>>

\* fscanf reports EOF: read_to_quee returns 0, the loop ends, fclose.
EndOfFile ==
    /\ pcP = "locked"
    /\ fpos = FileLen
    /\ lock' = Nobody
    /\ pcP' = "closed"
    /\ UNCHANGED <<space, lower, upper, fpos, pcC, held, got>>

\* Bug: the byte of a refused write is not given back to the stream.
RefusedKeepsByte ==
    /\ pcP = "locked"
    /\ fpos < FileLen
    /\ Full(lower, upper)
    /\ fpos' = fpos + 1
    /\ lock' = Nobody
    /\ pcP' = "asleep"
    /\ UNCHANGED <<space, lower, upper, pcC, held, got>>
\* Bug: the refused write leaves without releasing m and sem.
RefusedHoldsLock ==
    /\ pcP = "locked"
    /\ fpos < FileLen
    /\ Full(lower, upper)
    /\ upper' = upper % Size
    /\ pcP' = "asleep"
    /\ UNCHANGED <<space, lower, fpos, lock, pcC, held, got>>
\* write_space returns -1: fseek gives the byte back, sleep.
Refused ==
    /\ pcP = "locked"
    /\ fpos < FileLen
    /\ Full(lower, upper)
    /\ upper' = upper % Size
    /\ lock' = Nobody
    /\ pcP' = "asleep"
    /\ UNCHANGED <<space, lower, fpos, pcC, held, got>>

\* write_space stores the byte that fscanf read ...
StoreByte ==
    /\ pcP = "locked"
    /\ fpos < FileLen
    /\ ~Full(lower, upper)
    /\ space' = [space EXCEPT ![upper % Size] = fpos + 1]
    /\ fpos' = fpos + 1
    /\ pcP' = "stored"
    /\ UNCHANGED <<lower, upper, lock, pcC, held, got>>

\* ... and read_to_quee publishes the new bound.
PublishUpper ==
    /\ pcP = "stored"
    /\ upper' = After(upper)
    /\ lock' = Nobody
    /\ pcP' = "call"
    /\ UNCHANGED <<space, lower, fpos, pcC, held, got>>

WakeP ==
    /\ pcP = "asleep"
    /\ pcP' = "call"
    /\ UNCHANGED <<space, lower, upper, fpos, lock, pcC, held, got>>

Producer ==
    LockP \/ EndOfFile \/ Refused \/ StoreByte \/ PublishUpper \/ WakeP

-----------------------------------------------------------------------------
(* The consumer: write_from_downloads, called again as soon as it returns *)

LockC ==
    /\ pcC = "call"
    /\ lock = Nobody
    /\ lock' = "consumer"
    /\ pcC' = "locked"
    /\ UNCHANGED <<space, lower, upper, fpos, pcP, held, got>>

\* read_space returns -1: release, sleep, jump back.
NothingThere ==
    /\ pcC = "locked"
    /\ Empty(lower, upper)
    /\ lower' = (lower % Size) % Size
    /\ lock' = Nobody
    /\ pcC' = "asleep"
    /\ UNCHANGED <<space, upper, fpos, pcP, held, got>>

LoadByte ==
    /\ pcC = "locked"
    /\ ~Empty(lower, upper)
    /\ held' = space[lower % Size]
    /\ pcC' = "loaded"
    /\ UNCHANGED <<space, lower, upper, fpos, lock, pcP, got>>

\* The bound is published, the locks released and the byte returned.
ReturnByte ==
    /\ pcC = "loaded"
    /\ lower' = After(lower) % Size
    /\ lock' = Nobody
    /\ got' = Append(got, held)
    /\ pcC' = "call"
    /\ UNCHANGED <<space, upper, fpos, pcP, held>>

WakeC ==
    /\ pcC = "asleep"
    /\ pcC' = "call"
    /\ UNCHANGED <<space, lower, upper, fpos, lock, pcP, held, got>>

Consumer == LockC \/ NothingThere \/ LoadByte \/ ReturnByte \/ WakeC

Next == Producer \/ Consumer

Spec == Init /\ [][Next]_vars

\* Each thread keeps running.  A thread refused sleeps 10 ms with the locks
\* released, so one that waits for them gets them in the end: strong fairness
\* of the two lock steps, weak fairness of the rest.
FairSpec ==
    /\ Spec
    /\ WF_vars(Producer) /\ WF_vars(Consumer)
    /\ SF_vars(LockP) /\ SF_vars(LockC)

-----------------------------------------------------------------------------
(* Properties *)

\* Bytes nobody wrote that the stream starts with: Size of them when the
\* consumer's first call came before the first byte was stored.
Lead == IF got # <<>> /\ got[1] = NoByte THEN Size ELSE 0

\* Bytes of the file whose bound has been published.
Stored == IF pcP = "stored" THEN fpos - 1 ELSE fpos

\* Byte k of a stream that starts with l bytes nobody wrote.
Item(k, l) == IF k > l THEN k - l ELSE NoByte

\* What was returned is the stream of the file, in order, without a gap, a
\* repetition or a byte of an older lap: byte k of the file is the k-th one
\* returned, after either no unwritten byte or exactly Size of them.
\* (read_from_donwloads against write_from_downloads over any schedule)
InOrder == \A k \in 1 .. Len(got) : got[k] = Item(k, Lead)

\* The reader is always at least one stored byte behind: read_space's test
\* (lower + 1 = upper) keeps the youngest byte back, whatever the schedule.
KeepsOneBack == got # <<>> => Len(got) < Stored + Lead

\* The queue promises exactly what LaggedStream says.
Abstract == INSTANCE LaggedStream WITH stored <- Stored, lead <- Lead
ImplementsLaggedStream == Abstract!Spec

\* Once the producer has closed the file, the consumer ends up with all of it
\* but the last byte, for good: nothing else is lost, nothing is stuck.
AllButLast ==
    FileLen > 0 => <>[](Len(got) = Lead + FileLen - 1)

=============================================================================
