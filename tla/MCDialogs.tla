----------------------------- MODULE MCDialogs -----------------------------
(***************************************************************************)
(* A small chat for TLC: one user with room for two categories of their    *)
(* own and two reminders.  Nothing orders the identifiers or the titles.   *)
(***************************************************************************)
EXTENDS Dialogs, TLC

DialogsSymmetry ==
  Permutations(Own) \cup Permutations(Reminders) \cup Permutations(Titles)
=============================================================================
