---------------------------- MODULE MCRecipients ----------------------------
(***************************************************************************)
(* A small instance of the recipients.                                     *)
(***************************************************************************)
EXTENDS Recipients, TLC

MCSymmetry == Permutations(Machines) \cup Permutations(Keys) \cup Permutations(Names)
=============================================================================
