---------------------------- MODULE LaggedStream ----------------------------
(***************************************************************************)
(* What the download queue of downloads.h really promises, without slots,  *)
(* indices or locks: a byte stream of which the reader is always at least  *)
(* one byte behind, and which starts with Size bytes nobody wrote when the *)
(* reader calls before the first byte of the file is stored.               *)
(*                                                                         *)
(* Byte k of the file is the number k; NoByte is what a slot that was      *)
(* never written holds.                                                    *)
(***************************************************************************)
EXTENDS Naturals, Sequences

CONSTANTS
    Size,     \* number of slots of the queue (KB in the code)
    FileLen   \* number of bytes of the file being downloaded


VARIABLES
    stored,   \* bytes of the file put into the queue so far
    lead,     \* bytes nobody wrote that the stream starts with: 0 or Size
    got       \* bytes handed to the reader, in order

vars == <<stored, lead, got>>

NoByte == 0

\* The k-th byte of a stream that starts with l bytes nobody wrote.
Item(k, l) == IF k > l THEN k - l ELSE NoByte

Init ==
    /\ stored = 0
    /\ lead = 0
    /\ got = <<>>

\* One more byte of the file enters; at most Size - 1 wait at a time.
Store ==
    /\ stored < FileLen
    /\ stored + lead - Len(got) < Size - 1
    /\ stored' = stored + 1
    /\ UNCHANGED <<lead, got>>

\* The reader takes a byte only when another one is waiting behind it.
Take ==
    /\ Len(got) + 1 < stored + lead
    /\ got' = Append(got, Item(Len(got) + 1, lead))
    /\ UNCHANGED <<stored, lead>>

\* A reader that comes first finds Size slots that nobody filled.
TakeUnwritten ==
    /\ stored = 0
    /\ got = <<>>
    /\ lead' = Size
    /\ got' = <<NoByte>>
    /\ UNCHANGED stored

Next == Store \/ Take \/ TakeUnwritten

Spec == Init /\ [][Next]_vars

=============================================================================
