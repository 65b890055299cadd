---------------------------- MODULE PaymentRequests ----------------------------
(***************************************************************************)
(* Shareable payment requests: creation, lazy expiry, cancellation, hash    *)
(* submission by whichever user pays, verification, reconciliation, the     *)
(* recovery of expired payments, and the creator's account deletion.        *)
(*                                                                         *)
(* All requests of the model ask for the same amount and recipient (they    *)
(* are Creator's), the case in which one transfer could pay for several.    *)
(* Every action is one SQL transaction or statement; timestamps are the     *)
(* time left until they are reached.                                       *)
(***************************************************************************)
EXTENDS NimiqTransfers

CONSTANTS
  Creator,         \* the user whose requests these are
  MaxRequests,     \* bound: rows of payment_requests
  Verifiers,       \* goroutines that may verify a payment
  Worker,          \* the reconciliation worker among them
  Lifetime,        \* how long a pending request can be paid
  Interval,        \* reconciliation retry interval
  Deadline,        \* reconciliation deadline of a submitted hash
  ClaimDuration,   \* how long a verification attempt is reserved
  Elsewhere        \* the event purchases that a hash may pay for instead

ASSUME RequestsAssumption ==
  /\ Creator \in Users
  /\ MaxRequests \in Nat /\ Lifetime \in Nat
  /\ Interval \in Nat /\ Deadline \in Nat /\ ClaimDuration \in Nat

VARIABLES
  requests,        \* the rows of payment_requests
  consumed,        \* consumed_nimiq_transactions: hash -> the object it pays
  jobs             \* what each verifier is doing

vars == <<chain, linked, requests, consumed, jobs>>

RequestIds == 1..MaxRequests

Unresolved == {"submitted", "verifying"}
Status == {"pending", "submitted", "verifying", "paid", "failed", "expired", "cancelled"}

\* A row; "none" is a row that has not been inserted.
Row == [status   : Status \cup {"none"},
        payer    : Users \cup {None},
        hash     : Hashes \cup {None},
        expires  : 0..Lifetime,       \* expires_at
        deadline : 0..Deadline,       \* reconciliation_deadline_at
        retry    : 0..Interval,       \* last_verification_attempt_at + Interval
        claim    : 0..ClaimDuration]  \* verification_claimed_until

NoRow == [status |-> "none", payer |-> None, hash |-> None,
          expires |-> 0, deadline |-> 0, retry |-> 0, claim |-> 0]

\* The object a request is to the consumed-hash store.
RequestObject(r) == [domain |-> "payment_request", id |-> r]
OtherObjects == {[domain |-> "event_purchase", id |-> p] : p \in Elsewhere}
Objects == {RequestObject(r) : r \in RequestIds} \cup OtherObjects

ASSUME RequestObjectsAssumption == None \notin Objects

\* step: idle | calling, writing (reconcileRequest) | recalling, recovering
\* (RecoverExpired); write: the state about to be persisted.
Job == [step    : {"idle", "calling", "writing", "recalling", "recovering"},
        request : RequestIds \cup {None},
        stale   : BOOLEAN,
        write   : {"verifying", "paid", "failed", "expired", None}]

Idle == [step |-> "idle", request |-> None, stale |-> FALSE, write |-> None]

\* A pending row whose expires_at has passed.
Lapsed(r) == requests[r].status = "pending" /\ requests[r].expires = 0

\* UPDATE payment_requests SET status = 'expired' for the lapsed rows of R.
ExpireLapsed(R) ==
  [r \in RequestIds |->
     IF r \in R /\ Lapsed(r) THEN [requests[r] EXCEPT !.status = "expired"] ELSE requests[r]]

-------------------------------------------------------------------------------
\* The creator, the readers and the payers.

\* Create needs a verified identity to be paid at.
Create(r) ==
  /\ linked[Creator]
  /\ requests[r].status = "none"
  /\ \A q \in RequestIds : q < r => requests[q].status # "none"
  /\ requests' = [requests EXCEPT ![r] = [NoRow EXCEPT !.status = "pending", !.expires = Lifetime]]
  /\ UNCHANGED <<chainVars, consumed, jobs>>

\* GetByPublicID, GetOwnedByPublicID and a late Cancel expire the row they touch.
Read(r) ==
  /\ Lapsed(r)
  /\ requests' = ExpireLapsed({r})
  /\ UNCHANGED <<chainVars, consumed, jobs>>

\* ListByCreator expires all of the creator's lapsed rows.
List ==
  /\ \E r \in RequestIds : Lapsed(r)
  /\ requests' = ExpireLapsed(RequestIds)
  /\ UNCHANGED <<chainVars, consumed, jobs>>

\* Cancel: only a pending row, and not once its time is over.
MutantCancellable(r) == requests[r].status \in {"pending"} \cup Unresolved
Cancellable(r) == requests[r].status = "pending" /\ ~Lapsed(r)

Cancel(r) ==
  /\ Cancellable(r)
  /\ requests' = [requests EXCEPT ![r].status = "cancelled"]
  /\ UNCHANGED <<chainVars, consumed, jobs>>

\* consumeNimiqTransactionHash inserts the hash: nobody has it.
MutantOwnTableOnly(h) == \A r \in RequestIds : requests[r].hash # h
MutantReleasedOnExpiry(h) ==
  \A r \in RequestIds : requests[r].hash = h => requests[r].status = "expired"
Unconsumed(h) == consumed[h] = None

\* SubmitTransaction: the first payer to name an unused hash takes the request.
\* (The same payer naming the same hash again changes nothing; on a lapsed row
\* the expiry it would persist is rolled back with the refusal.)
SubmitTransaction(r, h, u) ==
  /\ requests[r].status = "pending"
  /\ ~Lapsed(r)
  /\ linked[u]
  /\ Unconsumed(h)
  /\ requests' = [requests EXCEPT ![r] =
                    [@ EXCEPT !.status = "submitted", !.hash = h, !.payer = u,
                              !.deadline = Deadline, !.retry = 0, !.claim = 0]]
  /\ consumed' = [consumed EXCEPT ![h] = RequestObject(r)]
  /\ UNCHANGED <<chainVars, jobs>>

\* The event-purchase domain consumes a hash in the same store.
ConsumeElsewhere(h) ==
  /\ Unconsumed(h)
  /\ \E o \in OtherObjects : consumed' = [consumed EXCEPT ![h] = o]
  /\ UNCHANGED <<chainVars, requests, jobs>>

\* DeleteAccount revokes the user's identities and cancels the pending requests
\* the user created, lapsed ones included.
DeleteAccount(u) ==
  /\ RevokeIdentities(u)
  /\ requests' = [r \in RequestIds |->
                    IF u = Creator /\ requests[r].status = "pending"
                    THEN [requests[r] EXCEPT !.status = "cancelled"] ELSE requests[r]]
  /\ UNCHANGED <<consumed, jobs>>

-------------------------------------------------------------------------------
\* reconcileRequest: claim, ask the chain, persist.

\* ClaimVerification; "stale" remembers that the deadline had passed, and then
\* the retry interval is not respected.
Claim(v, r) ==
  LET row == requests[r]
      stale == row.deadline = 0 IN
  /\ jobs[v] = Idle
  /\ row.status \in Unresolved
  /\ row.claim = 0
  /\ stale \/ row.retry = 0
  /\ requests' = [requests EXCEPT ![r] =
                    [@ EXCEPT !.retry = Interval, !.claim = ClaimDuration]]
  /\ jobs' = [jobs EXCEPT ![v] =
                [Idle EXCEPT !.step = "calling", !.request = r, !.stale = stale]]
  /\ UNCHANGED <<chainVars, consumed>>

\* What reconcileRequest does with an outcome: the state to persist, or None.
MutantForgetful(outcome, stale) ==
  CASE outcome = "confirmed" -> "paid"
    [] outcome = "invalid"   -> "failed"
    [] outcome = "not_final" -> "verifying"
    [] OTHER                 -> None
MutantTrusting(outcome, stale) ==
  CASE outcome \in {"confirmed", "not_final"} -> "paid"
    [] outcome = "invalid"   -> "failed"
    [] OTHER                 -> IF stale THEN "expired" ELSE None
StateFor(outcome, stale) ==
  CASE outcome = "confirmed" -> "paid"
    [] outcome = "invalid"   -> "failed"
    [] outcome = "not_final" -> IF stale THEN "expired" ELSE "verifying"
    [] OTHER                 -> IF stale THEN "expired" ELSE None

Answer(v) ==
  LET row == requests[jobs[v].request] IN
  /\ jobs[v].step = "calling"
  /\ \E outcome \in VerifyTransfer(row.hash, row.payer) :
       LET write == StateFor(outcome, jobs[v].stale) IN
       jobs' = [jobs EXCEPT ![v] =
                  IF write = None THEN Idle ELSE [@ EXCEPT !.step = "writing", !.write = write]]
  /\ UNCHANGED <<chainVars, requests, consumed>>

\* The WHERE clause of SetVerificationState and ExpireUnresolved.
MutantAlsoExpired(r) == requests[r].status \in Unresolved \cup {"expired"}
Open(r) == requests[r].status \in Unresolved

\* SetVerificationState and ExpireUnresolved: the single UPDATE applies if the
\* row is still unresolved (and, to expire, past its deadline); otherwise
\* somebody else resolved it first and nothing is written.
Persist(v) ==
  LET r == jobs[v].request
      applies == Open(r) /\ (jobs[v].write = "expired" => requests[r].deadline = 0) IN
  /\ jobs[v].step = "writing"
  /\ requests' = IF applies
                 THEN [requests EXCEPT ![r] = [@ EXCEPT !.status = jobs[v].write, !.claim = 0]]
                 ELSE requests
  /\ jobs' = [jobs EXCEPT ![v] = Idle]
  /\ UNCHANGED <<chainVars, consumed>>

\* A lost connection, a cancelled request or a crash: the attempt is forgotten.
Abandon(v) ==
  /\ jobs[v] # Idle
  /\ jobs' = [jobs EXCEPT ![v] = Idle]
  /\ UNCHANGED <<chainVars, requests, consumed>>

-------------------------------------------------------------------------------
\* RecoverExpired: the creator or the payer re-verifies an expired request that
\* still holds its hash.

Recover(v, r) ==
  /\ jobs[v] = Idle
  /\ requests[r].status = "expired"
  /\ requests[r].hash # None
  /\ jobs' = [jobs EXCEPT ![v] = [Idle EXCEPT !.step = "recalling", !.request = r]]
  /\ UNCHANGED <<chainVars, requests, consumed>>

RecoverAnswer(v) ==
  LET row == requests[jobs[v].request] IN
  /\ jobs[v].step = "recalling"
  /\ \E outcome \in VerifyTransfer(row.hash, row.payer) :
       jobs' = [jobs EXCEPT ![v] =
                  IF outcome = "confirmed" THEN [@ EXCEPT !.step = "recovering"] ELSE Idle]
  /\ UNCHANGED <<chainVars, requests, consumed>>

\* ConfirmExpiredRecovery: the row is still expired and its hash reserved for
\* it; a row that somebody paid meanwhile is left as it is.
ConfirmRecovery(v) ==
  LET r == jobs[v].request
      row == requests[r]
      recoverable == /\ row.status = "expired"
                     /\ row.hash # None
                     /\ consumed[row.hash] = RequestObject(r) IN
  /\ jobs[v].step = "recovering"
  /\ requests' = IF recoverable
                 THEN [requests EXCEPT ![r] = [@ EXCEPT !.status = "paid", !.claim = 0]]
                 ELSE requests
  /\ jobs' = [jobs EXCEPT ![v] = Idle]
  /\ UNCHANGED <<chainVars, consumed>>

-------------------------------------------------------------------------------
Less(t) == IF t = 0 THEN 0 ELSE t - 1

\* One unit of time passes for every deadline that still lies ahead.
Tick ==
  LET later(row) == [row EXCEPT !.expires = Less(@), !.deadline = Less(@),
                                !.retry = Less(@), !.claim = Less(@)] IN
  /\ \E r \in RequestIds : later(requests[r]) # requests[r]
  /\ requests' = [r \in RequestIds |-> later(requests[r])]
  /\ UNCHANGED <<chainVars, consumed, jobs>>

ChainMoves ==
  /\ \/ \E h \in Hashes : Broadcast(h) \/ Mine(h)
     \/ MacroBlock
  /\ UNCHANGED <<requests, consumed, jobs>>

Init ==
  /\ TransfersInit
  /\ requests = [r \in RequestIds |-> NoRow]
  /\ consumed = [h \in Hashes |-> None]
  /\ jobs = [v \in Verifiers |-> Idle]

Verify(v) ==
  \/ \E r \in RequestIds : Claim(v, r)
  \/ Answer(v) \/ Persist(v) \/ Abandon(v)

Recovery(v) ==
  \/ \E r \in RequestIds : Recover(v, r)
  \/ RecoverAnswer(v) \/ ConfirmRecovery(v)

\* The handlers of creators and payers.
Request ==
  \/ \E r \in RequestIds : Create(r) \/ Read(r) \/ Cancel(r)
  \/ List
  \/ \E r \in RequestIds, h \in Hashes, u \in Users : SubmitTransaction(r, h, u)

\* What the domain does itself, and what it meets in its store and on the chain.
Own ==
  \/ Request
  \/ \E u \in Users : DeleteAccount(u)
  \/ \E v \in Verifiers : Verify(v)
  \/ \E v \in Verifiers \ {Worker} : Recovery(v)
  \/ Tick

Surroundings == ChainMoves \/ \E h \in Hashes : ConsumeElsewhere(h)

Next == Own \/ Surroundings

Spec == Init /\ [][Next]_vars

\* The clock runs, and the reconciliation worker takes every step that is
\* possible again and again (crashes and claims of handlers may hinder it often,
\* not always).  Recoveries are for handlers: the worker never runs one.
Fairness ==
  /\ WF_vars(Tick)
  /\ \A r \in RequestIds : SF_vars(Claim(Worker, r))
  /\ SF_vars(Answer(Worker))
  /\ SF_vars(Persist(Worker))

FairSpec == Spec /\ Fairness

-------------------------------------------------------------------------------
\* Properties.

\* The type invariant.
TypeOK ==
  /\ TransfersTypeOK
  /\ requests \in [RequestIds -> Row]
  /\ consumed \in [Hashes -> Objects \cup {None}]
  /\ jobs \in [Verifiers -> Job]

\* A hash a request has taken stays reserved for exactly that request: one
\* transfer never pays for two requests, nor for a request and a purchase.
HashReserved ==
  \A r \in RequestIds :
    requests[r].hash # None => consumed[requests[r].hash] = RequestObject(r)

\* Whatever verifiers raced, stalled or were overtaken: a paid request holds a
\* hash whose transfer is well formed, signed by its payer, and final.
PaidMeansSettled ==
  \A r \in RequestIds :
    requests[r].status = "paid" =>
      /\ requests[r].hash # None
      /\ Settled(requests[r].hash, requests[r].payer)

\* A payer who got a hash accepted is never cancelled away, by the creator or
\* by the deletion of the creator's account; nor may a request expire unpaid
\* and be paid later without the hash it had accepted in time.
AcceptedHashBinds ==
  \A r \in RequestIds :
    /\ requests[r].status \in {"pending", "cancelled"} => requests[r].hash = None
    /\ requests[r].status \in Unresolved \cup {"paid", "failed"} =>
         requests[r].hash # None /\ requests[r].payer # None

\* Late, duplicated and stale results never undo a decision: the states of a
\* row change along these edges only, and its hash and payer stay.
Edges ==
  {<<"none", "pending">>, <<"pending", "submitted">>, <<"pending", "expired">>,
   <<"pending", "cancelled">>, <<"submitted", "verifying">>, <<"submitted", "paid">>,
   <<"submitted", "failed">>, <<"submitted", "expired">>, <<"verifying", "paid">>,
   <<"verifying", "failed">>, <<"verifying", "expired">>, <<"expired", "paid">>}

AlongEdges(old, new) ==
  /\ new.status # old.status => <<old.status, new.status>> \in Edges
  /\ old.hash # None => new.hash = old.hash /\ new.payer = old.payer
  /\ old.status = "expired" => new.hash = old.hash

Lifecycle == [][\A r \in RequestIds : AlongEdges(requests[r], requests'[r])]_vars

\* Every submitted payment is eventually paid, failed or expired, recoveries
\* and crashes beside the worker included.
EveryPaymentResolves ==
  \A r \in RequestIds :
    (requests[r].status \in Unresolved) ~> (requests[r].status \notin Unresolved)

\* The payment requests, too, are a payment ledger.
SettledFor ==
  {x \in Hashes \X {RequestObject(r) : r \in RequestIds} :
     Settled(x[1], requests[x[2].id].payer)}

Granted == {RequestObject(r) : r \in {q \in RequestIds : requests[q].status = "paid"}}

Ledger == INSTANCE PaymentLedger WITH
  Transfers <- Hashes, Objects <- Objects, Unspent <- None,
  spentOn <- consumed, settled <- SettledFor, granted <- Granted

ImplementsLedger == Ledger!Spec
===============================================================================
