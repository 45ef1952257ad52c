---------------------------- MODULE MCAdminSpace ----------------------------
(***************************************************************************)
(* A small instance of AdminSpace for TLC.                                 *)
(***************************************************************************)
EXTENDS AdminSpace, TLC

MCSymmetry == Permutations(Uploads) \cup Permutations(Genres)
=============================================================================
