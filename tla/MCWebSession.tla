------------------------------ MODULE MCWebSession ------------------------------
(***************************************************************************)
(* An instance of WebSession for TLC.                                       *)
(***************************************************************************)
EXTENDS WebSession, TLC

\* Addresses, networks and functions under way are interchangeable.
Alike == Permutations(Wallets) \cup Permutations(Networks) \cup Permutations(Jobs)
===============================================================================
