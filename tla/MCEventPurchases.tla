--------------------------- MODULE MCEventPurchases ---------------------------
(***************************************************************************)
(* Instances of EventPurchases for TLC: which transfer is whose, and the    *)
(* restrictions of the specification the runs compare.                     *)
(***************************************************************************)
EXTENDS EventPurchases, TLC

CONSTANTS u1, u2, h1, h2, w, v

\* h1 was signed by u1, h2 by u2.
TwoPayers == h1 :> u1 @@ h2 :> u2
OneTransfer == h1 :> u1

\* Verifiers are interchangeable.
AnyVerifier == Permutations(Verifiers)

-------------------------------------------------------------------------------
\* Orderly selling with a live worker.
OrderlyFairSpec == OrderlySpec /\ Fairness(w)

\* Recovery of expired payments (by v) beside the worker w, on an event nobody
\* edits and for users who keep their identities.
RecoveryNext ==
  \/ Request \/ Verify(w) \/ Recovery(v) \/ Tick
  \/ Surroundings /\ UNCHANGED linked
RecoverySpec == Init /\ [][RecoveryNext]_vars

\* Everything that competes for a seat or resolves a payment.
ContentionNext ==
  \/ Request \/ Tick
  \/ \E x \in Verifiers : Verify(x) \/ Recovery(x)
  \/ \E e \in Events, c \in Capacities \cup {None} : EditCapacity(e, c)
  \/ Surroundings /\ UNCHANGED linked
ContentionSpec == Init /\ [][ContentionNext]_vars
===============================================================================
