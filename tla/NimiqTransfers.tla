---------------------------- MODULE NimiqTransfers ----------------------------
(***************************************************************************)
(* The Nimiq chain as the payment domains of NimNear see it, and the one    *)
(* question they ask of it: NimiqVerifier.VerifyTransfer, "does this hash   *)
(* pay for that object?".                                                  *)
(*                                                                         *)
(* A transfer is a hash, signed once and for all by one account (Payer) and *)
(* either carrying the recipient, amount, type and network that the object  *)
(* asks for (WellFormed) or not.  The chain moves it from "unknown" to      *)
(* "unmined" (the node answers with a transaction that has no block yet),   *)
(* "mined" (in a micro block of the current batch) and "final" (a later     *)
(* batch has begun).                                                       *)
(***************************************************************************)
EXTENDS Naturals, FiniteSets

CONSTANTS
  Users,        \* accounts of NimNear
  Hashes,       \* transaction hashes the wallets can produce
  None,         \* SQL NULL / Go nil
  Payer,        \* Payer[h]: the account whose address signed transfer h
  WellFormed    \* hashes whose recipient, amount, type and network are right

ASSUME TransfersAssumption ==
  /\ Payer \in [Hashes -> Users]
  /\ WellFormed \subseteq Hashes
  /\ None \notin Users /\ None \notin Hashes /\ None \notin Nat

VARIABLES
  chain,        \* chain[h]: where transfer h is
  linked        \* linked[u]: u owns a verified, not revoked Nimiq identity

chainVars == <<chain, linked>>

Phase == {"unknown", "unmined", "mined", "final"}

\* What VerifyTransfer returns; "error" stands for every RPC or lookup error.
Outcome == {"not_found", "invalid", "not_final", "confirmed", "error"}

TransfersTypeOK ==
  /\ chain \in [Hashes -> Phase]
  /\ linked \in [Users -> BOOLEAN]

TransfersInit ==
  /\ chain = [h \in Hashes |-> "unknown"]
  /\ linked = [u \in Users |-> TRUE]

-------------------------------------------------------------------------------
\* senderMatchesVerifiedIdentity: tx.From is one of the payer's linked addresses.
MutantAnySender(h, u) == linked[u]
SenderMatches(h, u) == linked[u] /\ Payer[h] = u

\* The money of h really reached the recipient on behalf of u.
Settled(h, u) == h \in WellFormed /\ Payer[h] = u /\ chain[h] = "final"

\* The answer of an RPC node that does answer, in the order VerifyTransfer
\* checks: existence, then everything that makes a transfer conclusively
\* invalid (a missing block or execution result included), then finality.
Verdict(h, u) ==
  IF chain[h] = "unknown" THEN "not_found"
  ELSE IF ~SenderMatches(h, u) \/ h \notin WellFormed \/ chain[h] = "unmined"
       THEN "invalid"
  ELSE IF chain[h] = "mined" THEN "not_final" ELSE "confirmed"

\* VerifyTransfer: the node's verdict, or an error at any moment.
VerifyTransfer(h, u) == {Verdict(h, u), "error"}

-------------------------------------------------------------------------------
\* The wallet sends the transfer and a node that has not mined it reports it.
Broadcast(h) ==
  /\ chain[h] = "unknown"
  /\ chain' = [chain EXCEPT ![h] = "unmined"]
  /\ UNCHANGED linked

\* A micro block of the current batch includes the transfer.
Mine(h) ==
  /\ chain[h] \in {"unknown", "unmined"}
  /\ chain' = [chain EXCEPT ![h] = "mined"]
  /\ UNCHANGED linked

\* A macro block closes the batch: currentBatch exceeds the batch of every
\* transfer mined so far.
MacroBlock ==
  /\ \E h \in Hashes : chain[h] = "mined"
  /\ chain' = [h \in Hashes |-> IF chain[h] = "mined" THEN "final" ELSE chain[h]]
  /\ UNCHANGED linked

\* Account deletion revokes every identity of the user.
RevokeIdentities(u) ==
  /\ linked[u]
  /\ linked' = [linked EXCEPT ![u] = FALSE]
  /\ UNCHANGED chain

TransfersNext ==
  \/ \E h \in Hashes : Broadcast(h) \/ Mine(h)
  \/ MacroBlock
  \/ \E u \in Users : RevokeIdentities(u)
===============================================================================
