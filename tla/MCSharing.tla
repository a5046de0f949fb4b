------------------------------ MODULE MCSharing ------------------------------
(***************************************************************************)
(* Small instances of Sharing for TLC.                                     *)
(***************************************************************************)
EXTENDS Sharing, TLC

\* Invitees, links and handler runs are interchangeable.
SharingSymmetry == Permutations(Users) \cup Permutations(Tokens) \cup Permutations(Runs)
=============================================================================
