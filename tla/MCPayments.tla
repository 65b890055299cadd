------------------------------- MODULE MCPayments -------------------------------
(***************************************************************************)
(* An instance of Payments for TLC: one buyer and one creator, who may each *)
(* pay a request or buy a seat, and two transfers of the buyer that either  *)
(* could be paid with.                                                     *)
(***************************************************************************)
EXTENDS Payments, TLC

CONSTANTS c, u, h1, h2, w, v

TwoTransfers == h1 :> u @@ h2 :> u

\* Transfers of one payer are interchangeable.
AnyTransfer == Permutations(Hashes)
=================================================================================
