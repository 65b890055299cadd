---------------------------- MODULE MCWebCheckout ----------------------------
(***************************************************************************)
(* An instance of WebCheckout for TLC.                                      *)
(***************************************************************************)
EXTENDS WebCheckout, TLC

\* The functions under way are interchangeable.
AnyJob == Permutations(Jobs)
===============================================================================
