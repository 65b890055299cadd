---------------------------- MODULE EventPurchases ----------------------------
(***************************************************************************)
(* Paid events: purchases, capacity holds, hash submission, verification,   *)
(* reconciliation and the recovery of expired payments.                     *)
(*                                                                         *)
(* Every action is one database transaction, or one statement of a          *)
(* transaction whose isolation does not make it atomic.  Request handlers   *)
(* and the reconciliation worker are Verifiers: between the claim, the RPC   *)
(* answer and the write of its outcome other goroutines run.                *)
(*                                                                         *)
(* Timestamps are the time left until they are reached: "x <= now" is        *)
(* "0 left".  Tick lets one unit of time pass for all of them.              *)
(***************************************************************************)
EXTENDS NimiqTransfers

CONSTANTS
  Events,          \* the paid, public events
  Capacities,      \* capacities an organizer may choose
  MaxPurchases,    \* bound: rows of event_purchases
  Verifiers,       \* goroutines that may verify a payment
  HoldDuration,    \* how long a pending purchase keeps its seat
  Interval,        \* reconciliation retry interval
  Deadline,        \* reconciliation deadline of a submitted hash
  ClaimDuration,   \* how long a verification attempt is reserved
  Elsewhere        \* the payment requests that a hash may pay for instead

ASSUME PurchasesAssumption ==
  /\ MaxPurchases \in Nat
  /\ Capacities \subseteq Nat \ {0}
  /\ HoldDuration \in Nat /\ Interval \in Nat
  /\ Deadline \in Nat /\ ClaimDuration \in Nat
  /\ None \notin Events

VARIABLES
  eventStatus,     \* events.status
  over,            \* events.ends_at <= now
  capacity,        \* events.capacity
  attendeeCount,   \* events.attendee_count
  purchases,       \* the rows of event_purchases
  consumed,        \* consumed_nimiq_transactions: hash -> the object it pays
  jobs             \* what each verifier is doing

eventVars == <<eventStatus, over, capacity, attendeeCount>>
vars == <<chain, linked, eventStatus, over, capacity, attendeeCount,
          purchases, consumed, jobs>>

PurchaseIds == 1..MaxPurchases

Unresolved == {"submitted", "verifying"}
Active     == {"pending", "submitted", "verifying", "confirmed"}
Status     == Active \cup {"failed", "expired", "cancelled"}

\* A row; "none" is a row that has not been inserted.
Row == [status   : Status \cup {"none"},
        event    : Events \cup {None},
        user     : Users \cup {None},
        hash     : Hashes \cup {None},
        hold     : (0..HoldDuration) \cup {None},  \* capacity_hold_expires_at
        deadline : 0..Deadline,       \* reconciliation_deadline_at
        retry    : 0..Interval,       \* last_verification_attempt_at + Interval
        claim    : 0..ClaimDuration]  \* verification_claimed_until

NoRow == [status |-> "none", event |-> None, user |-> None, hash |-> None,
          hold |-> None, deadline |-> 0, retry |-> 0, claim |-> 0]

\* The object a purchase is to the consumed-hash store.
PurchaseObject(p) == [domain |-> "event_purchase", id |-> p]
OtherObjects == {[domain |-> "payment_request", id |-> r] : r \in Elsewhere}
Objects == {PurchaseObject(p) : p \in PurchaseIds} \cup OtherObjects

ASSUME ObjectsAssumption == None \notin Objects

\* step: idle | calling, writing (reconcilePurchase)
\*            | recalling, recovering, syncing (RecoverExpired)
\* write: the state a verifier is about to persist; count: the attendee count
\* its synchronizing statement has computed.
Job == [step     : {"idle", "calling", "writing", "recalling", "recovering", "syncing"},
        purchase : PurchaseIds \cup {None},
        stale    : BOOLEAN,
        write    : {"verifying", "confirmed", "failed", "expired", None},
        count    : Nat]

Idle == [step |-> "idle", purchase |-> None, stale |-> FALSE, write |-> None, count |-> 0]

-------------------------------------------------------------------------------
\* Sets of rows and of users the SQL of the repositories selects.
Rows(e, S) == {p \in PurchaseIds : purchases[p].event = e /\ purchases[p].status \in S}

BuyersOf(P) == {purchases[p].user : p \in P}

\* A pending row whose hold has run out.
HoldLapsed(p) == purchases[p].status = "pending" /\ purchases[p].hold = 0

\* The WHERE clause every verification result is written under.
MutantOpenToRevival(p) == purchases[p].status \in Unresolved \cup {"expired"}
Open(p) == purchases[p].status \in Unresolved

\* The distinct-user union that Create and UpdateOwned count as occupied seats.
Occupants(e) == BuyersOf({p \in Rows(e, Active) : ~HoldLapsed(p)})

\* The users syncEventAttendeeCount counts.
Attendees(e) == BuyersOf(Rows(e, {"confirmed"}))

\* The count once p is confirmed: the status is updated before the count.
MutantCountFirst(p) == Cardinality(Attendees(purchases[p].event))
CountWith(p) == Cardinality(Attendees(purchases[p].event) \cup {purchases[p].user})

\* A seat is free.
MutantSeatUnsold(e) == capacity[e] # None => Cardinality(Attendees(e)) < capacity[e]
SeatFree(e) == capacity[e] # None => Cardinality(Occupants(e)) < capacity[e]

\* CHECK events_capacity_attendees.
CountAllowed(e, n) == capacity[e] # None => n <= capacity[e]

\* UPDATE event_purchases SET status = 'expired' for the lapsed holds in P.
ExpireHolds(P) ==
  [p \in PurchaseIds |->
     IF p \in P /\ HoldLapsed(p) THEN [purchases[p] EXCEPT !.status = "expired"]
     ELSE purchases[p]]

-------------------------------------------------------------------------------
\* Requests of users.

\* The event row Create locks: public, published, not ended; and the use case
\* has checked that the buyer has a verified identity.
MayBuy(u, e) == linked[u] /\ eventStatus[e] = "published" /\ ~over[e]

\* An active row of this user and event survives the expiry of lapsed holds.
HasActive(u, e) ==
  \E p \in Rows(e, Active) : purchases[p].user = u /\ ~HoldLapsed(p)

\* Create finds the user's active purchase: it returns it, and commits the
\* expiry of the event's lapsed holds.
CreateExisting(u, e) ==
  /\ MayBuy(u, e)
  /\ HasActive(u, e)
  /\ purchases' = ExpireHolds(Rows(e, {"pending"}))
  /\ UNCHANGED <<chainVars, eventVars, consumed, jobs>>

\* Create inserts a pending row while a seat is free ("sold out" rolls the
\* expiry back and changes nothing).
CreatePending(u, e, p) ==
  /\ MayBuy(u, e)
  /\ ~HasActive(u, e)
  /\ purchases[p].status = "none"
  /\ \A q \in PurchaseIds : q < p => purchases[q].status # "none"
  /\ SeatFree(e)
  /\ purchases' =
       [ExpireHolds(Rows(e, {"pending"})) EXCEPT
          ![p] = [NoRow EXCEPT !.status = "pending", !.event = e, !.user = u,
                               !.hold = IF capacity[e] = None THEN None ELSE HoldDuration]]
  /\ UNCHANGED <<chainVars, eventVars, consumed, jobs>>

\* GetActiveForEvent first expires the caller's own lapsed hold.
ExpireOwnHold(u, e) ==
  LET mine == {p \in Rows(e, {"pending"}) : purchases[p].user = u} IN
  /\ \E p \in mine : HoldLapsed(p)
  /\ purchases' = ExpireHolds(mine)
  /\ UNCHANGED <<chainVars, eventVars, consumed, jobs>>

\* consumeNimiqTransactionHash inserts the hash: nobody has it.
MutantReleasedOnFailure(h) ==
  \A p \in PurchaseIds : purchases[p].hash = h => purchases[p].status \in {"failed", "expired"}
Unconsumed(h) == consumed[h] = None

\* SubmitTransaction: a pending purchase takes a hash no object has consumed,
\* pins its seat and starts its reconciliation deadline.  Neither a lapsed hold
\* nor the end of the event stops it.  (The same hash again changes nothing.)
SubmitTransaction(p, h) ==
  LET row == purchases[p] IN
  /\ row.status = "pending"
  /\ linked[row.user]
  /\ eventStatus[row.event] # "cancelled"
  /\ Unconsumed(h)
  /\ purchases' = [purchases EXCEPT ![p] =
                     [@ EXCEPT !.status = "submitted", !.hash = h, !.hold = None,
                               !.deadline = Deadline, !.retry = 0, !.claim = 0]]
  /\ consumed' = [consumed EXCEPT ![h] = PurchaseObject(p)]
  /\ UNCHANGED <<chainVars, eventVars, jobs>>

\* The payment-request domain consumes a hash in the same store.
ConsumeElsewhere(h) ==
  /\ Unconsumed(h)
  /\ \E o \in OtherObjects : consumed' = [consumed EXCEPT ![h] = o]
  /\ UNCHANGED <<chainVars, eventVars, purchases, jobs>>

-------------------------------------------------------------------------------
\* reconcilePurchase: claim, ask the chain, persist.

\* ClaimVerification; "stale" remembers that the deadline had passed.
Claim(v, p) ==
  LET row == purchases[p]
      stale == row.deadline = 0 IN
  /\ jobs[v] = Idle
  /\ row.status \in Unresolved
  /\ row.claim = 0
  /\ stale \/ row.retry = 0
  /\ purchases' = [purchases EXCEPT ![p] =
                     [@ EXCEPT !.retry = Interval, !.claim = ClaimDuration]]
  /\ jobs' = [jobs EXCEPT ![v] =
                [Idle EXCEPT !.step = "calling", !.purchase = p, !.stale = stale]]
  /\ UNCHANGED <<chainVars, eventVars, consumed>>

\* What reconcilePurchase does with an outcome: the state to persist, or None.
MutantOptimist(outcome, stale) ==
  CASE outcome = "invalid" -> "failed"
    [] outcome = "confirmed" \/ (stale /\ outcome = "not_final") -> "confirmed"
    [] OTHER -> IF stale THEN "expired" ELSE None
MutantPatient(outcome, stale) ==
  CASE outcome = "confirmed" -> "confirmed"
    [] outcome = "invalid"   -> "failed"
    [] outcome = "not_final" -> "verifying"
    [] OTHER                 -> None
StateFor(outcome, stale) ==
  CASE outcome = "confirmed" -> "confirmed"
    [] outcome = "invalid"   -> "failed"
    [] outcome = "not_final" -> IF stale THEN "expired" ELSE "verifying"
    [] OTHER                 -> IF stale THEN "expired" ELSE None

Answer(v) ==
  LET row == purchases[jobs[v].purchase] IN
  /\ jobs[v].step = "calling"
  /\ \E outcome \in VerifyTransfer(row.hash, row.user) :
       LET write == StateFor(outcome, jobs[v].stale) IN
       jobs' = [jobs EXCEPT ![v] =
                  IF write = None THEN Idle ELSE [@ EXCEPT !.step = "writing", !.write = write]]
  /\ UNCHANGED <<chainVars, eventVars, purchases, consumed>>

Release(v) == jobs' = [jobs EXCEPT ![v] = Idle]

\* SetVerificationState(verifying | failed) on a row that is still unresolved.
PersistState(v) ==
  LET p == jobs[v].purchase IN
  /\ jobs[v].step = "writing"
  /\ jobs[v].write \in {"verifying", "failed"}
  /\ Open(p)
  /\ purchases' = [purchases EXCEPT ![p] =
                     [@ EXCEPT !.status = jobs[v].write, !.hold = None, !.claim = 0]]
  /\ Release(v)
  /\ UNCHANGED <<chainVars, eventVars, consumed>>

\* SetVerificationState(confirmed): the attendee count is synchronized under
\* the lock of the event row.
PersistConfirmed(v) ==
  LET p == jobs[v].purchase
      e == purchases[p].event IN
  /\ jobs[v].step = "writing"
  /\ jobs[v].write = "confirmed"
  /\ Open(p)
  /\ CountAllowed(e, CountWith(p))
  /\ purchases' = [purchases EXCEPT ![p] =
                     [@ EXCEPT !.status = "confirmed", !.hold = None, !.claim = 0]]
  /\ attendeeCount' = [attendeeCount EXCEPT ![e] = CountWith(p)]
  /\ Release(v)
  /\ UNCHANGED <<chainVars, eventStatus, over, capacity, consumed>>

\* The CHECK constraint refuses the new attendee count: the transaction rolls
\* back, the row keeps its state and its claim.
PersistConfirmedRefused(v) ==
  LET p == jobs[v].purchase IN
  /\ jobs[v].step = "writing"
  /\ jobs[v].write = "confirmed"
  /\ Open(p)
  /\ ~CountAllowed(purchases[p].event, CountWith(p))
  /\ Release(v)
  /\ UNCHANGED <<chainVars, eventVars, purchases, consumed>>

\* ExpireUnresolved: only past the deadline, only while unresolved.
PersistExpired(v) ==
  LET p == jobs[v].purchase IN
  /\ jobs[v].step = "writing"
  /\ jobs[v].write = "expired"
  /\ Open(p)
  /\ purchases[p].deadline = 0
  /\ purchases' = [purchases EXCEPT ![p] =
                     [@ EXCEPT !.status = "expired", !.hold = None, !.claim = 0]]
  /\ Release(v)
  /\ UNCHANGED <<chainVars, eventVars, consumed>>

\* Somebody else resolved the purchase first: the WHERE clause matches no row.
PersistTooLate(v) ==
  /\ jobs[v].step = "writing"
  /\ ~Open(jobs[v].purchase)
  /\ Release(v)
  /\ UNCHANGED <<chainVars, eventVars, purchases, consumed>>

\* A lost connection, a cancelled request or a crash: the attempt is forgotten
\* and any open transaction rolls back.
Abandon(v) ==
  /\ jobs[v] # Idle
  /\ Release(v)
  /\ UNCHANGED <<chainVars, eventVars, purchases, consumed>>

-------------------------------------------------------------------------------
\* RecoverExpired: the owner (reverify) or an operator (cmd/recover-payment)
\* re-verifies an expired purchase that still holds its hash.

Recover(v, p) ==
  /\ jobs[v] = Idle
  /\ purchases[p].status = "expired"
  /\ purchases[p].hash # None
  /\ jobs' = [jobs EXCEPT ![v] = [Idle EXCEPT !.step = "recalling", !.purchase = p]]
  /\ UNCHANGED <<chainVars, eventVars, purchases, consumed>>

RecoverAnswer(v) ==
  LET row == purchases[jobs[v].purchase] IN
  /\ jobs[v].step = "recalling"
  /\ \E outcome \in VerifyTransfer(row.hash, row.user) :
       jobs' = [jobs EXCEPT ![v] =
                  IF outcome = "confirmed" THEN [@ EXCEPT !.step = "recovering"] ELSE Idle]
  /\ UNCHANGED <<chainVars, eventVars, purchases, consumed>>

\* ConfirmExpiredRecovery may go through: the row is still expired, its hash is
\* reserved for it, and no other purchase of this user is being paid or is paid
\* (the unique index on active purchases).
MutantNoUniqueIndex(p) ==
  LET row == purchases[p] IN
  row.status = "expired" /\ row.hash # None /\ consumed[row.hash] = PurchaseObject(p)
Recoverable(p) ==
  LET row == purchases[p] IN
  /\ row.status = "expired"
  /\ row.hash # None
  /\ consumed[row.hash] = PurchaseObject(p)
  /\ \A q \in Rows(row.event, Unresolved \cup {"confirmed"}) : purchases[q].user # row.user

\* Its last statement updates the event without having locked it: the count is
\* computed from the snapshot taken when the statement starts, and may have to
\* wait for another transaction that holds the event row.
RecoverSnapshot(v) ==
  LET p == jobs[v].purchase IN
  /\ jobs[v].step = "recovering"
  /\ Recoverable(p)
  /\ jobs' = [jobs EXCEPT ![v] = [@ EXCEPT !.step = "syncing", !.count = CountWith(p)]]
  /\ UNCHANGED <<chainVars, eventVars, purchases, consumed>>

\* The commit: replacement holds of the user are cancelled, the purchase is
\* confirmed, the count is written.
RecoverCommit(v) ==
  LET p == jobs[v].purchase
      row == purchases[p] IN
  /\ jobs[v].step = "syncing"
  /\ Recoverable(p)
  /\ CountAllowed(row.event, jobs[v].count)
  /\ purchases' =
       [q \in PurchaseIds |->
          IF q = p THEN [row EXCEPT !.status = "confirmed", !.hold = None, !.claim = 0]
          ELSE IF q \in Rows(row.event, {"pending"}) /\ purchases[q].user = row.user
               THEN [purchases[q] EXCEPT !.status = "cancelled"]
          ELSE purchases[q]]
  /\ attendeeCount' = [attendeeCount EXCEPT ![row.event] = jobs[v].count]
  /\ Release(v)
  /\ UNCHANGED <<chainVars, eventStatus, over, capacity, consumed>>

-------------------------------------------------------------------------------
\* The organizer and the clock.

\* UpdateOwned with a capacity in its patch (nil clears it).
EditCapacity(e, c) ==
  /\ eventStatus[e] = "published"
  /\ c # capacity[e]
  /\ c # None => Cardinality(Occupants(e)) <= c /\ attendeeCount[e] <= c
  /\ capacity' = [capacity EXCEPT ![e] = c]
  /\ UNCHANGED <<chainVars, eventStatus, over, attendeeCount, purchases, consumed, jobs>>

\* cancel: organizer, operator or account deletion.
CancelEvent(e) ==
  /\ eventStatus[e] = "published"
  /\ eventStatus' = [eventStatus EXCEPT ![e] = "cancelled"]
  /\ UNCHANGED <<chainVars, over, capacity, attendeeCount, purchases, consumed, jobs>>

\* ends_at passes.
EventEnds(e) ==
  /\ ~over[e]
  /\ over' = [over EXCEPT ![e] = TRUE]
  /\ UNCHANGED <<chainVars, eventStatus, capacity, attendeeCount, purchases, consumed, jobs>>

Less(t) == IF t = None \/ t = 0 THEN t ELSE t - 1

\* One unit of time passes for every deadline that still lies ahead.
Tick ==
  LET later(row) == [row EXCEPT !.hold = Less(@), !.deadline = Less(@),
                                !.retry = Less(@), !.claim = Less(@)] IN
  /\ \E p \in PurchaseIds : later(purchases[p]) # purchases[p]
  /\ purchases' = [p \in PurchaseIds |-> later(purchases[p])]
  /\ UNCHANGED <<chainVars, eventVars, consumed, jobs>>

ChainMoves == TransfersNext /\ UNCHANGED <<eventVars, purchases, consumed, jobs>>

-------------------------------------------------------------------------------
Init ==
  /\ TransfersInit
  /\ eventStatus = [e \in Events |-> "published"]
  /\ over = [e \in Events |-> FALSE]
  /\ capacity \in [Events -> Capacities \cup {None}]
  /\ attendeeCount = [e \in Events |-> 0]
  /\ purchases = [p \in PurchaseIds |-> NoRow]
  /\ consumed = [h \in Hashes |-> None]
  /\ jobs = [v \in Verifiers |-> Idle]

Request ==
  \/ \E u \in Users, e \in Events : CreateExisting(u, e) \/ ExpireOwnHold(u, e)
  \/ \E u \in Users, e \in Events, p \in PurchaseIds : CreatePending(u, e, p)
  \/ \E p \in PurchaseIds, h \in Hashes : SubmitTransaction(p, h)

Persist(v) ==
  \/ PersistState(v) \/ PersistConfirmed(v) \/ PersistConfirmedRefused(v)
  \/ PersistExpired(v) \/ PersistTooLate(v)

Verify(v) ==
  \/ \E p \in PurchaseIds : Claim(v, p)
  \/ Answer(v) \/ Persist(v) \/ Abandon(v)

Recovery(v) ==
  \/ \E p \in PurchaseIds : Recover(v, p)
  \/ RecoverAnswer(v) \/ RecoverSnapshot(v) \/ RecoverCommit(v)

Organizer(e) ==
  \/ \E c \in Capacities \cup {None} : EditCapacity(e, c)
  \/ CancelEvent(e)
  \/ EventEnds(e)

\* What the domain does itself, and what it meets in its store and on the chain.
Own ==
  \/ Request
  \/ \E v \in Verifiers : Verify(v) \/ Recovery(v)
  \/ \E e \in Events : Organizer(e)
  \/ Tick

Surroundings == ChainMoves \/ \E h \in Hashes : ConsumeElsewhere(h)

Next == Own \/ Surroundings

Spec == Init /\ [][Next]_vars

\* The part of Next that never overrides a seat count: no recovery, and the
\* organizer only raises or lifts a capacity.
RaiseCapacity(e, c) ==
  /\ c # None => capacity[e] # None /\ c > capacity[e]
  /\ EditCapacity(e, c)

Orderly(workers) ==
  \/ Request
  \/ \E v \in workers : Verify(v)
  \/ \E e \in Events :
       \/ \E c \in Capacities \cup {None} : RaiseCapacity(e, c)
       \/ CancelEvent(e)
       \/ EventEnds(e)
  \/ Tick
  \/ Surroundings

OrderlySpec == Init /\ [][Orderly(Verifiers)]_vars

\* The clock runs; the reconciliation worker is a verifier whose every step is
\* taken when it is possible again and again (a crash or a claim held by a
\* request handler may hinder it often, not always).
Fairness(worker) ==
  /\ WF_vars(Tick)
  /\ \A p \in PurchaseIds : SF_vars(Claim(worker, p))
  /\ SF_vars(Answer(worker))
  /\ SF_vars(Persist(worker))

-------------------------------------------------------------------------------
\* Properties.

\* The type invariant.
TypeOK ==
  /\ TransfersTypeOK
  /\ eventStatus \in [Events -> {"published", "cancelled"}]
  /\ over \in [Events -> BOOLEAN]
  /\ capacity \in [Events -> Nat \cup {None}]
  /\ attendeeCount \in [Events -> Nat]
  /\ purchases \in [PurchaseIds -> Row]
  /\ consumed \in [Hashes -> Objects \cup {None}]
  /\ jobs \in [Verifiers -> Job]

\* A hash a purchase has taken stays reserved for exactly that purchase, so one
\* transfer never pays for two purchases, nor for a purchase and a request.
HashReserved ==
  \A p \in PurchaseIds :
    purchases[p].hash # None => consumed[purchases[p].hash] = PurchaseObject(p)

\* Whatever verifiers raced, stalled or were overtaken: a confirmed purchase
\* holds a hash whose transfer is well formed, signed by the buyer, and final.
PaidWhenConfirmed ==
  \A p \in PurchaseIds :
    purchases[p].status = "confirmed" =>
      /\ purchases[p].hash # None
      /\ Settled(purchases[p].hash, purchases[p].user)

\* What has failed was not paid for.  It is not so: a transfer that the node reports
\* before a block includes it, or whose payer has been deleted, is invalid at once.
FailedIsUnpaid ==
  \A p \in PurchaseIds :
    purchases[p].status = "failed" => ~Settled(purchases[p].hash, purchases[p].user)

\* No user ever has two purchases of one event in flight or paid, recovery of
\* an old one beside a replacement included.
OneActivePurchase ==
  \A p, q \in PurchaseIds :
    /\ purchases[p].status \in Active
    /\ purchases[q].status \in Active
    /\ purchases[p].event = purchases[q].event
    /\ purchases[p].user = purchases[q].user
    => p = q

\* Seats in use never exceed the capacity of the event.
NotOversold ==
  \A e \in Events : capacity[e] # None => Cardinality(Occupants(e)) <= capacity[e]

\* events.attendee_count is the number of users whose purchase is confirmed.
AttendeeCountExact ==
  \A e \in Events : attendeeCount[e] = Cardinality(Attendees(e))

\* Late, duplicated and stale verification results never undo a decision: the
\* states of a row change along these edges only, and its hash never changes.
Edges ==
  {<<"none", "pending">>, <<"pending", "submitted">>, <<"pending", "expired">>,
   <<"pending", "cancelled">>, <<"submitted", "verifying">>, <<"submitted", "confirmed">>,
   <<"submitted", "failed">>, <<"submitted", "expired">>, <<"verifying", "confirmed">>,
   <<"verifying", "failed">>, <<"verifying", "expired">>, <<"expired", "confirmed">>}

AlongEdges(old, new) ==
  /\ new.status # old.status => <<old.status, new.status>> \in Edges
  /\ old.hash # None => new.hash = old.hash

Lifecycle == [][\A p \in PurchaseIds : AlongEdges(purchases[p], purchases'[p])]_vars

\* Every submitted payment is eventually confirmed, failed or expired.
EveryPaymentResolves ==
  \A p \in PurchaseIds :
    (purchases[p].status \in Unresolved) ~> (purchases[p].status \notin Unresolved)

\* The whole machinery is a payment ledger: rows, verifiers, crashes, clocks and
\* recovery included, it only ever spends a transfer once and grants a purchase
\* against its own settled transfer.
SettledFor ==
  {x \in Hashes \X {PurchaseObject(p) : p \in PurchaseIds} :
     Settled(x[1], purchases[x[2].id].user)}

Granted == {PurchaseObject(p) : p \in {q \in PurchaseIds : purchases[q].status = "confirmed"}}

Ledger == INSTANCE PaymentLedger WITH
  Transfers <- Hashes, Objects <- Objects, Unspent <- None,
  spentOn <- consumed, settled <- SettledFor, granted <- Granted

ImplementsLedger == Ledger!Spec
===============================================================================
