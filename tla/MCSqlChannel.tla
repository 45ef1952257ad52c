---------------------------- MODULE MCSqlChannel ----------------------------
(***************************************************************************)
(* Small instances of SqlChannel for TLC.  Handler slots are               *)
(* interchangeable, and so are the slots for uploads.                      *)
(***************************************************************************)
EXTENDS SqlChannel, TLC

\* One inode more than the mappings, descriptors and the name can hold.
MCInodes == 1 .. 2 * (Cardinality(Handlers) + 1) + 2

HandlerSymmetry == Permutations(Handlers) \cup Permutations(Uploaders)

=============================================================================
