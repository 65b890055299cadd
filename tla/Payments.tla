-------------------------------- MODULE Payments --------------------------------
(***************************************************************************)
(* Both payment domains of one server, over one chain, one table of linked  *)
(* identities and one store of consumed hashes: the payment requests of     *)
(* PaymentRequests beside the event purchases of EventPurchases (P!...).    *)
(*                                                                         *)
(* A step is one of either domain or of the chain.  What a domain knows of  *)
(* the other as ConsumeElsewhere is here the other's SubmitTransaction, and *)
(* the identities that purchases see revoked are those of a deletion.  The  *)
(* deadlines of the domains pass one by one, which only allows more.  A     *)
(* transfer may be what either asks for, if the creator is the merchant.    *)
(***************************************************************************)
EXTENDS PaymentRequests

CONSTANTS
  Events,          \* the paid, public events
  Capacities,      \* capacities an organizer may choose
  MaxPurchases,    \* bound: rows of event_purchases
  Cashiers,        \* goroutines that may verify a purchase
  HoldDuration,    \* how long a pending purchase keeps its seat
  ToMerchant       \* hashes with the merchant's address and an event's price

ASSUME PaymentsAssumption ==
  /\ MaxPurchases \in Nat /\ HoldDuration \in Nat
  /\ Capacities \subseteq Nat \ {0}
  /\ None \notin Events /\ ToMerchant \subseteq Hashes
  /\ Elsewhere = 1..MaxPurchases

VARIABLES
  eventStatus, over, capacity, attendeeCount,   \* events
  purchases,                                    \* the rows of event_purchases
  purchaseJobs                                  \* what each of Cashiers is doing

purchaseVars == <<eventStatus, over, capacity, attendeeCount, purchases, purchaseJobs>>
requestVars == <<requests, jobs>>
paymentVars == <<chainVars, consumed, purchaseVars, requestVars>>

\* One PaymentConfig sets the intervals and the deadline of both.  (P brings the
\* theorems of the purchases along with their specification.)
P == INSTANCE EventPurchasesProofs WITH
  Verifiers <- Cashiers, jobs <- purchaseJobs, Elsewhere <- RequestIds,
  WellFormed <- ToMerchant

PaymentsInit == Init /\ P!Init

PaymentsNext ==
  \/ P!Own /\ UNCHANGED requestVars
  \/ Own /\ UNCHANGED purchaseVars
  \/ ChainMoves /\ UNCHANGED purchaseVars

PaymentsSpec == PaymentsInit /\ [][PaymentsNext]_paymentVars

-------------------------------------------------------------------------------
\* Properties.

\* Everything somebody has got, and the transfer it was got for.
AllGranted == P!Granted \cup Granted

TransferOf(o) == IF o \in P!Granted THEN purchases[o.id].hash ELSE requests[o.id].hash

IsPaid(o) ==
  IF o \in P!Granted THEN P!Settled(TransferOf(o), purchases[o.id].user)
  ELSE Settled(TransferOf(o), requests[o.id].payer)

\* Whatever is granted, in either domain, was paid for by the final, well-formed
\* transfer of its payer, and no two things by the same one: as many transfers
\* have arrived as purchases are confirmed and requests paid.
EachPaidByItsOwn ==
  \A o \in AllGranted :
    /\ IsPaid(o)
    /\ \A other \in AllGranted : TransferOf(other) = TransferOf(o) => other = o

\* Together the domains are one ledger: each is the other's environment and no
\* step of either spends, settles or grants what the ledger would not.
Books == INSTANCE PaymentLedger WITH
  Transfers <- Hashes, Objects <- Objects, Unspent <- None,
  spentOn <- consumed, settled <- P!SettledFor \cup SettledFor, granted <- AllGranted

ImplementsOneLedger == Books!Spec
=================================================================================
