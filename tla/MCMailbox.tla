----------------------------- MODULE MCMailbox -----------------------------
(***************************************************************************)
(* Small instances of Mailbox for TLC.  Names, uploads and syncs are       *)
(* interchangeable among themselves.                                       *)
(***************************************************************************)
EXTENDS Mailbox, TLC

\* One inode more than entries and open files can hold.
MCInodes == 1 .. Cardinality(Names) + Cardinality(Puts) + Cardinality(Gets) + 1

MCSymmetry == Permutations(Names \ {EofName}) \cup Permutations(Puts) \cup Permutations(Gets)

=============================================================================
