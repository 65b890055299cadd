------------------------ MODULE EventPurchasesProofs ------------------------
(***************************************************************************)
(* Theorems of EventPurchases for any users, events, hashes, verifiers,     *)
(* capacities, durations and number of purchases.                          *)
(***************************************************************************)
EXTENDS EventPurchases, FiniteSetTheorems, TLAPS

-------------------------------------------------------------------------------
(***************************************************************************)
(* Buyers and their number.                                                *)
(***************************************************************************)

\* Any set of purchases has finitely many buyers (the union the SQL counts).
LEMMA BuyersFinite ==
  ASSUME NEW P \in SUBSET PurchaseIds
  PROVE  IsFiniteSet(BuyersOf(P))
<1>1. IsFiniteSet(P)
  <2>1. IsFiniteSet(PurchaseIds)
    BY PurchasesAssumption, FS_Interval DEF PurchaseIds
  <2> QED BY <2>1, FS_Subset
<1> DEFINE buyer == [p \in P |-> purchases[p].user]
<1>2. buyer \in Surjection(P, BuyersOf(P))
  BY DEF Surjection, BuyersOf
<1> QED BY <1>1, <1>2, FS_Surjection

\* The counts the code computes are natural numbers.
LEMMA CountsAreNat ==
  /\ \A p : CountWith(p) \in Nat
  /\ \A e : Cardinality(Attendees(e)) \in Nat
  /\ \A e : Cardinality(Occupants(e)) \in Nat
<1>1. ASSUME NEW P \in SUBSET PurchaseIds, NEW x
      PROVE  Cardinality(BuyersOf(P)) \in Nat /\ Cardinality(BuyersOf(P) \cup {x}) \in Nat
  BY BuyersFinite, FS_AddElement, FS_CardinalityType
<1>2. ASSUME NEW e, NEW S PROVE Rows(e, S) \in SUBSET PurchaseIds
  BY DEF Rows
<1> QED BY <1>1, <1>2 DEF CountWith, Attendees, Occupants
-------------------------------------------------------------------------------
(***************************************************************************)
(* Type correctness.                                                       *)
(***************************************************************************)

\* A row stays a row when a field is rewritten with a value of its type.
LEMMA RowFields ==
  ASSUME NEW r \in Row
  PROVE  /\ \A x \in Status : [r EXCEPT !.status = x] \in Row
         /\ \A x \in Events : [r EXCEPT !.event = x] \in Row
         /\ \A x \in Users : [r EXCEPT !.user = x] \in Row
         /\ \A x \in Hashes : [r EXCEPT !.hash = x] \in Row
         /\ \A x \in (0..HoldDuration) \cup {None} : [r EXCEPT !.hold = x] \in Row
         /\ \A x \in 0..Deadline : [r EXCEPT !.deadline = x] \in Row
         /\ \A x \in 0..Interval : [r EXCEPT !.retry = x] \in Row
         /\ \A x \in 0..ClaimDuration : [r EXCEPT !.claim = x] \in Row
BY DEF Row

\* The values the code writes are of their fields' types.
LEMMA RowValues ==
  /\ NoRow \in Row
  /\ {"pending", "submitted", "verifying", "confirmed", "failed", "expired", "cancelled"}
       \subseteq Status
  /\ HoldDuration \in 0..HoldDuration
  /\ Deadline \in 0..Deadline
  /\ Interval \in 0..Interval /\ 0 \in 0..Interval
  /\ ClaimDuration \in 0..ClaimDuration /\ 0 \in 0..ClaimDuration
BY PurchasesAssumption DEF NoRow, Row, Status, Active

\* The same for the state of a verifier.
LEMMA JobFields ==
  /\ Idle \in Job
  /\ \A j \in Job :
       /\ j.count \in Nat
       /\ \A x \in {"calling", "writing", "recalling", "recovering", "syncing"} :
            [j EXCEPT !.step = x] \in Job
       /\ \A x \in PurchaseIds : [j EXCEPT !.purchase = x] \in Job
       /\ \A x \in BOOLEAN : [j EXCEPT !.stale = x] \in Job
       /\ \A x \in {"verifying", "confirmed", "failed", "expired"} :
            [j EXCEPT !.write = x] \in Job
       /\ \A x \in Nat : [j EXCEPT !.count = x] \in Job
BY DEF Job, Idle

\* Expiring lapsed holds leaves typed rows.
LEMMA ExpireHoldsType ==
  ASSUME purchases \in [PurchaseIds -> Row], NEW P
  PROVE  ExpireHolds(P) \in [PurchaseIds -> Row]
BY RowFields, RowValues DEF ExpireHolds

\* Every step keeps every variable in its type.
LEMMA TypeStep == TypeOK /\ [Next]_vars => TypeOK'
<1> SUFFICES ASSUME TypeOK, [Next]_vars PROVE TypeOK'
  OBVIOUS
<1> USE DEF TypeOK, TransfersTypeOK
<1>1. ASSUME NEW u \in Users, NEW e \in Events, CreateExisting(u, e) \/ ExpireOwnHold(u, e)
      PROVE  TypeOK'
  BY <1>1, ExpireHoldsType DEF CreateExisting, ExpireOwnHold, chainVars, eventVars
<1>2. ASSUME NEW u \in Users, NEW e \in Events, NEW p \in PurchaseIds, CreatePending(u, e, p)
      PROVE  TypeOK'
  <2> DEFINE hold == IF capacity[e] = None THEN None ELSE HoldDuration
  <2>0. hold \in (0..HoldDuration) \cup {None}
    BY RowValues
  <2> HIDE DEF hold
  <2>1. [NoRow EXCEPT !.status = "pending", !.event = e, !.user = u, !.hold = hold] \in Row
    BY <2>0, RowFields, RowValues
  <2>2. purchases' \in [PurchaseIds -> Row]
    BY <1>2, <2>1, ExpireHoldsType DEF CreatePending, hold
  <2> QED BY <1>2, <2>2 DEF CreatePending, chainVars, eventVars
<1>3. ASSUME NEW p \in PurchaseIds, NEW h \in Hashes, SubmitTransaction(p, h)
      PROVE  TypeOK'
  <2>1. [purchases[p] EXCEPT !.status = "submitted", !.hash = h, !.hold = None,
                           !.deadline = Deadline, !.retry = 0, !.claim = 0] \in Row
    BY RowFields, RowValues
  <2>2. purchases' \in [PurchaseIds -> Row]
    BY <1>3, <2>1 DEF SubmitTransaction
  <2>3. consumed' \in [Hashes -> Objects \cup {None}]
    BY <1>3 DEF SubmitTransaction, Objects
  <2> QED BY <1>3, <2>2, <2>3 DEF SubmitTransaction, chainVars, eventVars
<1>4. ASSUME NEW h \in Hashes, ConsumeElsewhere(h) PROVE TypeOK'
  BY <1>4 DEF ConsumeElsewhere, chainVars, eventVars, Objects
<1>5. ASSUME NEW v \in Verifiers, NEW p \in PurchaseIds, Claim(v, p) PROVE TypeOK'
  <2>1. [purchases[p] EXCEPT !.retry = Interval, !.claim = ClaimDuration] \in Row
    BY RowFields, RowValues
  <2>2. purchases' \in [PurchaseIds -> Row]
    BY <1>5, <2>1 DEF Claim
  <2>3. ASSUME NEW stale \in BOOLEAN
        PROVE  [Idle EXCEPT !.step = "calling", !.purchase = p, !.stale = stale] \in Job
    BY JobFields
  <2>4. jobs' \in [Verifiers -> Job]
    BY <1>5, <2>3 DEF Claim
  <2> QED BY <1>5, <2>2, <2>4 DEF Claim, chainVars, eventVars
<1>6. ASSUME NEW v \in Verifiers, Answer(v) PROVE TypeOK'
  <2>1. PICK outcome \in VerifyTransfer(purchases[jobs[v].purchase].hash,
                                        purchases[jobs[v].purchase].user) :
          LET write == StateFor(outcome, jobs[v].stale) IN
          jobs' = [jobs EXCEPT ![v] =
            IF write = None THEN Idle ELSE [@ EXCEPT !.step = "writing", !.write = write]]
    BY <1>6 DEF Answer
  <2>2. StateFor(outcome, jobs[v].stale)
          \in {"verifying", "confirmed", "failed", "expired", None}
    BY DEF StateFor
  <2>3. jobs' \in [Verifiers -> Job]
    <3>1. CASE StateFor(outcome, jobs[v].stale) = None
      BY <2>1, <3>1, JobFields
    <3>2. CASE StateFor(outcome, jobs[v].stale) # None
      <4>1. [jobs[v] EXCEPT !.step = "writing", !.write = StateFor(outcome, jobs[v].stale)] \in Job
        BY <2>2, <3>2, JobFields
      <4> QED BY <2>1, <3>2, <4>1
    <3> QED BY <3>1, <3>2
  <2> QED BY <1>6, <2>3 DEF Answer, chainVars, eventVars
<1>7. ASSUME NEW v \in Verifiers, Persist(v) PROVE TypeOK'
  <2>1. ASSUME Release(v) PROVE jobs' \in [Verifiers -> Job]
    BY <2>1, JobFields DEF Release
  <2>2. CASE PersistState(v)
    <3>1. jobs[v].write \in Status
      BY <2>2, RowValues DEF PersistState
    <3>2. purchases' \in [PurchaseIds -> Row]
      <4>1. ASSUME NEW p \in PurchaseIds
            PROVE  [purchases[p] EXCEPT !.status = jobs[v].write, !.hold = None, !.claim = 0] \in Row
        BY <3>1, RowFields, RowValues
      <4> QED BY <2>2, <4>1 DEF PersistState
    <3> QED BY <2>1, <2>2, <3>2 DEF PersistState, chainVars, eventVars
  <2>3. CASE PersistConfirmed(v)
    <3>1. ASSUME NEW p \in PurchaseIds
          PROVE  [purchases[p] EXCEPT !.status = "confirmed", !.hold = None, !.claim = 0] \in Row
      BY RowFields, RowValues
    <3>2. purchases' \in [PurchaseIds -> Row]
      BY <2>3, <3>1 DEF PersistConfirmed
    <3> QED BY <2>1, <2>3, <3>2, CountsAreNat DEF PersistConfirmed, chainVars, eventVars
  <2>4. CASE PersistConfirmedRefused(v) \/ PersistTooLate(v)
    BY <2>1, <2>4 DEF PersistConfirmedRefused, PersistTooLate, chainVars, eventVars
  <2>5. CASE PersistExpired(v)
    <3>1. ASSUME NEW p \in PurchaseIds
          PROVE  [purchases[p] EXCEPT !.status = "expired", !.hold = None, !.claim = 0] \in Row
      BY RowFields, RowValues
    <3>2. purchases' \in [PurchaseIds -> Row]
      BY <2>5, <3>1 DEF PersistExpired
    <3> QED BY <2>1, <2>5, <3>2 DEF PersistExpired, chainVars, eventVars
  <2> QED BY <1>7, <2>2, <2>3, <2>4, <2>5 DEF Persist
<1>8. ASSUME NEW v \in Verifiers, Abandon(v) PROVE TypeOK'
  BY <1>8, JobFields DEF Abandon, Release, chainVars, eventVars
<1>9. ASSUME NEW v \in Verifiers, Recovery(v) PROVE TypeOK'
  <2>1. ASSUME NEW p \in PurchaseIds, Recover(v, p) PROVE TypeOK'
    <3>1. [Idle EXCEPT !.step = "recalling", !.purchase = p] \in Job
      BY JobFields
    <3> QED BY <2>1, <3>1 DEF Recover, chainVars, eventVars
  <2>2. CASE RecoverAnswer(v)
    <3>1. [jobs[v] EXCEPT !.step = "recovering"] \in Job
      BY JobFields
    <3>2. jobs' \in [Verifiers -> Job]
      BY <2>2, <3>1, JobFields DEF RecoverAnswer
    <3> QED BY <2>2, <3>2 DEF RecoverAnswer, chainVars, eventVars
  <2>3. CASE RecoverSnapshot(v)
    <3>1. ASSUME NEW n \in Nat
          PROVE  [jobs[v] EXCEPT !.step = "syncing", !.count = n] \in Job
      BY JobFields
    <3>2. jobs' \in [Verifiers -> Job]
      BY <2>3, <3>1, CountsAreNat DEF RecoverSnapshot
    <3> QED BY <2>3, <3>2 DEF RecoverSnapshot, chainVars, eventVars
  <2>4. CASE RecoverCommit(v)
    <3>1. ASSUME NEW q \in PurchaseIds
          PROVE  /\ [purchases[q] EXCEPT !.status = "confirmed", !.hold = None, !.claim = 0] \in Row
                 /\ [purchases[q] EXCEPT !.status = "cancelled"] \in Row
      BY RowFields, RowValues
    <3>2. purchases' \in [PurchaseIds -> Row]
      BY <2>4, <3>1 DEF RecoverCommit
    <3>3. jobs[v].count \in Nat /\ jobs' \in [Verifiers -> Job]
      BY <2>4, JobFields DEF RecoverCommit, Release
    <3> QED BY <2>4, <3>2, <3>3 DEF RecoverCommit, chainVars
  <2> QED BY <1>9, <2>1, <2>2, <2>3, <2>4 DEF Recovery
<1>10. ASSUME NEW e \in Events, Organizer(e) PROVE TypeOK'
  <2>1. ASSUME NEW c \in Capacities \cup {None}, EditCapacity(e, c) PROVE TypeOK'
    BY <2>1, PurchasesAssumption DEF EditCapacity, chainVars
  <2>2. CASE CancelEvent(e) \/ EventEnds(e)
    BY <2>2 DEF CancelEvent, EventEnds, chainVars
  <2> QED BY <1>10, <2>1, <2>2 DEF Organizer
<1>11. CASE ChainMoves
  BY <1>11 DEF ChainMoves, TransfersNext, Broadcast, Mine, MacroBlock, RevokeIdentities,
               Phase, eventVars
<1>12. CASE Tick
  <2>1. \A n \in Nat : \A t \in 0..n \cup {None} : Less(t) \in 0..n \cup {None}
    BY TransfersAssumption DEF Less
  <2>2. \A n \in Nat : \A t \in 0..n : Less(t) \in 0..n
    BY TransfersAssumption DEF Less
  <2>3. ASSUME NEW p \in PurchaseIds
        PROVE  [purchases[p] EXCEPT !.hold = Less(@), !.deadline = Less(@),
                                    !.retry = Less(@), !.claim = Less(@)] \in Row
    <3>1. /\ purchases[p].hold \in 0..HoldDuration \cup {None}
          /\ purchases[p].deadline \in 0..Deadline
          /\ purchases[p].retry \in 0..Interval
          /\ purchases[p].claim \in 0..ClaimDuration
      BY DEF Row
    <3>2. /\ Less(purchases[p].hold) \in 0..HoldDuration \cup {None}
          /\ Less(purchases[p].deadline) \in 0..Deadline
          /\ Less(purchases[p].retry) \in 0..Interval
          /\ Less(purchases[p].claim) \in 0..ClaimDuration
      BY <2>1, <2>2, <3>1, PurchasesAssumption
    <3> QED BY <3>2, RowFields
  <2>4. purchases' \in [PurchaseIds -> Row]
    BY <1>12, <2>3 DEF Tick
  <2> QED BY <1>12, <2>4 DEF Tick, chainVars, eventVars
<1>13. CASE UNCHANGED vars
  BY <1>13 DEF vars
<1> QED
  BY <1>1, <1>2, <1>3, <1>4, <1>5, <1>6, <1>7, <1>8, <1>9, <1>10, <1>11, <1>12, <1>13
     DEF Next, Own, Surroundings, Request, Verify

\* The database starts well typed: no rows, no hash consumed, idle verifiers.
LEMMA InitTypeOK == Init => TypeOK
<1> SUFFICES ASSUME Init PROVE TypeOK
  OBVIOUS
<1>1. TransfersTypeOK
  BY DEF Init, TransfersInit, TransfersTypeOK, Phase
<1>2. purchases \in [PurchaseIds -> Row] /\ jobs \in [Verifiers -> Job]
  BY RowValues, JobFields DEF Init
<1>3. /\ eventStatus \in [Events -> {"published", "cancelled"}]
      /\ over \in [Events -> BOOLEAN]
      /\ consumed \in [Hashes -> Objects \cup {None}]
  BY DEF Init
<1>4. capacity \in [Events -> Nat \cup {None}] /\ attendeeCount \in [Events -> Nat]
  BY PurchasesAssumption DEF Init
<1> QED BY <1>1, <1>2, <1>3, <1>4 DEF TypeOK

\* Every reachable state is well typed.
THEOREM TypeCorrect == Spec => []TypeOK
BY InitTypeOK, TypeStep, PTL DEF Spec
-------------------------------------------------------------------------------
(***************************************************************************)
(* What one step can do to a row, to the store of consumed hashes, to the   *)
(* chain: the rest of the safety argument speaks of these effects only.     *)
(***************************************************************************)

\* The buyer, the event and the hash of a row.
Kept(old, new) == new.hash = old.hash /\ new.user = old.user /\ new.event = old.event

\* Verifier v is about to confirm the purchase of its job.
Deciding(v) ==
  \/ jobs[v].step = "writing" /\ jobs[v].write = "confirmed"
  \/ jobs[v].step \in {"recovering", "syncing"}

\* Verifier v confirms the purchase of its job in this step.
Confirms(v) == PersistConfirmed(v) \/ RecoverCommit(v)

\* After this step no other purchase of p's buyer is active for p's event.
Unrivalled(p) ==
  \A q \in PurchaseIds \ {p} :
    ~ /\ purchases'[q].status \in Active
      /\ purchases'[q].event = purchases'[p].event
      /\ purchases'[q].user = purchases'[p].user

RowStep(p) ==
  LET old == purchases[p]
      new == purchases'[p] IN
  \/ new.status = old.status /\ Kept(old, new)
  \/ /\ old.status = "none" /\ new.status = "pending"
     /\ new.hash = None /\ new.user \in Users /\ new.event \in Events
     /\ Unrivalled(p)
     /\ \E u \in Users, e \in Events : CreatePending(u, e, p)
  \/ old.status = "pending" /\ new.status \in {"expired", "cancelled"} /\ Kept(old, new)
  \/ /\ old.status = "pending" /\ new.status = "submitted"
     /\ new.user = old.user /\ new.event = old.event
     /\ new.hash \in Hashes /\ consumed'[new.hash] = PurchaseObject(p)
  \/ /\ old.status \in Unresolved /\ new.status \in {"verifying", "failed", "expired"}
     /\ Kept(old, new)
  \/ /\ old.status \in Unresolved \cup {"expired"} /\ new.status = "confirmed"
     /\ Kept(old, new)
     /\ \E v \in Verifiers : jobs[v].purchase = p /\ Confirms(v)
     /\ old.status = "expired" => Unrivalled(p)

ConsumedStep ==
  /\ \A h \in Hashes : consumed[h] # None => consumed'[h] = consumed[h]
  /\ \/ consumed' = consumed
     \/ \E p \in PurchaseIds, h \in Hashes : SubmitTransaction(p, h)
     \/ \E h \in Hashes : ConsumeElsewhere(h)

ChainStep == \A h \in Hashes : chain[h] = "final" => chain'[h] = "final"

\* Expiring lapsed holds takes pending rows to expired and touches no other.
LEMMA ExpireHoldsEffect ==
  ASSUME purchases \in [PurchaseIds -> Row], NEW P, NEW p \in PurchaseIds
  PROVE  LET new == ExpireHolds(P)[p] IN
         /\ Kept(purchases[p], new)
         /\ \/ new = purchases[p]
            \/ HoldLapsed(p) /\ new.status = "expired" /\ purchases[p].status = "pending"
BY DEF ExpireHolds, HoldLapsed, Kept, Row

\* Only a verifier that was about to confirm confirms.
LEMMA ConfirmsDecided == \A v : Confirms(v) => Deciding(v)
BY DEF Confirms, Deciding, PersistConfirmed, RecoverCommit

\* Every row of every step changes in one of these ways.
LEMMA RowSteps == TypeOK /\ [Next]_vars => \A p \in PurchaseIds : RowStep(p)
<1> SUFFICES ASSUME TypeOK, [Next]_vars, NEW q \in PurchaseIds PROVE RowStep(q)
  OBVIOUS
<1>0. purchases \in [PurchaseIds -> Row] /\ purchases[q] \in Row
  BY DEF TypeOK
<1>a. ASSUME purchases' = purchases PROVE RowStep(q)
  BY <1>a DEF RowStep, Kept
<1>1. ASSUME NEW u \in Users, NEW e \in Events, CreateExisting(u, e) \/ ExpireOwnHold(u, e)
      PROVE  RowStep(q)
  <2>1. PICK P : purchases' = ExpireHolds(P)
    BY <1>1 DEF CreateExisting, ExpireOwnHold
  <2> QED BY <1>0, <2>1, ExpireHoldsEffect DEF RowStep
<1>2. ASSUME NEW u \in Users, NEW e \in Events, NEW p \in PurchaseIds, CreatePending(u, e, p)
      PROVE  RowStep(q)
  <2> DEFINE hold == IF capacity[e] = None THEN None ELSE HoldDuration
             row == [NoRow EXCEPT !.status = "pending", !.event = e, !.user = u, !.hold = hold]
  <2>1. row.status = "pending" /\ row.hash = None /\ row.user = u /\ row.event = e
    BY DEF NoRow
  <2> HIDE DEF row
  <2>2. purchases' = [ExpireHolds(Rows(e, {"pending"})) EXCEPT ![p] = row]
    BY <1>2 DEF CreatePending, row
  <2>3. ExpireHolds(Rows(e, {"pending"})) \in [PurchaseIds -> Row]
    BY <1>0, ExpireHoldsType
  <2>4. CASE q = p
    <3>1. purchases'[p] = row
      BY <2>2, <2>3
    <3>2. Unrivalled(p)
      <4> SUFFICES ASSUME NEW r \in PurchaseIds \ {p}, purchases'[r].status \in Active,
                          purchases'[r].event = e, purchases'[r].user = u
                   PROVE  FALSE
        BY <2>1, <3>1 DEF Unrivalled
      <4>1. purchases'[r] = ExpireHolds(Rows(e, {"pending"}))[r]
        BY <2>2, <2>3
      <4>2. /\ purchases[r].status \in Active
            /\ purchases[r].event = e /\ purchases[r].user = u
            /\ purchases'[r] = purchases[r]
        BY <1>0, <4>1, ExpireHoldsEffect DEF Kept, Active
      <4>3. ~HoldLapsed(r)
        BY <4>1, <4>2 DEF ExpireHolds, HoldLapsed, Rows, Row, TypeOK
      <4> QED BY <1>2, <4>2, <4>3 DEF CreatePending, HasActive, Rows
    <3> QED BY <1>2, <2>1, <2>4, <3>1, <3>2 DEF CreatePending, RowStep
  <2>5. CASE q # p
    BY <1>0, <2>2, <2>3, <2>5, ExpireHoldsEffect DEF RowStep
  <2> QED BY <2>4, <2>5
<1>3. ASSUME NEW p \in PurchaseIds, NEW h \in Hashes, SubmitTransaction(p, h)
      PROVE  RowStep(q)
  <2> DEFINE row == [purchases[p] EXCEPT !.status = "submitted", !.hash = h, !.hold = None,
                                         !.deadline = Deadline, !.retry = 0, !.claim = 0]
  <2>1. /\ row.status = "submitted" /\ row.hash = h
        /\ row.user = purchases[p].user /\ row.event = purchases[p].event
    BY <1>0 DEF Row
  <2> HIDE DEF row
  <2>2. purchases' = [purchases EXCEPT ![p] = row]
    BY <1>3 DEF SubmitTransaction, row
  <2>3. purchases[p].status = "pending" /\ consumed'[h] = PurchaseObject(p)
    BY <1>3 DEF SubmitTransaction, TypeOK
  <2>4. CASE q = p
    BY <1>0, <2>1, <2>2, <2>3, <2>4 DEF RowStep
  <2>5. CASE q # p
    BY <1>0, <2>2, <2>5 DEF RowStep, Kept
  <2> QED BY <2>4, <2>5
<1>4. ASSUME NEW h \in Hashes, ConsumeElsewhere(h) PROVE RowStep(q)
  BY <1>4, <1>a DEF ConsumeElsewhere
<1>5. ASSUME NEW v \in Verifiers, NEW p \in PurchaseIds, Claim(v, p) PROVE RowStep(q)
  BY <1>0, <1>5 DEF Claim, RowStep, Kept, Row
<1>6. ASSUME NEW v \in Verifiers, Answer(v) \/ Abandon(v) PROVE RowStep(q)
  BY <1>6, <1>a DEF Answer, Abandon
<1>7. ASSUME NEW v \in Verifiers, Persist(v) PROVE RowStep(q)
  <2>1. CASE PersistState(v)
    BY <1>0, <2>1 DEF PersistState, Open, RowStep, Kept, Row
  <2>2. CASE PersistConfirmed(v)
    <3>1. Confirms(v)
      BY <2>2 DEF Confirms
    <3> QED BY <1>0, <2>2, <3>1 DEF PersistConfirmed, Open, Unresolved, RowStep, Kept, Row
  <2>3. CASE PersistConfirmedRefused(v) \/ PersistTooLate(v)
    BY <1>a, <2>3 DEF PersistConfirmedRefused, PersistTooLate
  <2>4. CASE PersistExpired(v)
    BY <1>0, <2>4 DEF PersistExpired, Open, RowStep, Kept, Row
  <2> QED BY <1>7, <2>1, <2>2, <2>3, <2>4 DEF Persist
<1>8. ASSUME NEW v \in Verifiers, Recovery(v) PROVE RowStep(q)
  <2>1. CASE RecoverCommit(v)
    <3>1. /\ purchases[jobs[v].purchase].status = "expired"
          /\ Confirms(v)
      BY <2>1 DEF RecoverCommit, Recoverable, Confirms
    <3>2. CASE q = jobs[v].purchase
      <4>1. purchases'[q] = [purchases[q] EXCEPT !.status = "confirmed", !.hold = None, !.claim = 0]
        BY <2>1, <3>2 DEF RecoverCommit
      <4>2. Unrivalled(q)
        <5> SUFFICES ASSUME NEW r \in PurchaseIds \ {q}, purchases'[r].status \in Active,
                            purchases'[r].event = purchases[q].event,
                            purchases'[r].user = purchases[q].user
                     PROVE  FALSE
          BY <1>0, <4>1 DEF Unrivalled, Row
        <5>1. CASE r \in Rows(purchases[q].event, {"pending"})
                     /\ purchases[r].user = purchases[q].user
          <6>1. purchases'[r] = [purchases[r] EXCEPT !.status = "cancelled"]
            BY <2>1, <3>2, <5>1 DEF RecoverCommit
          <6> QED BY <1>0, <6>1 DEF Active, Row
        <5>2. CASE ~(r \in Rows(purchases[q].event, {"pending"})
                      /\ purchases[r].user = purchases[q].user)
          <6>1. purchases'[r] = purchases[r]
            BY <2>1, <3>2, <5>2 DEF RecoverCommit
          <6>2. r \in Rows(purchases[q].event, Unresolved \cup {"confirmed"})
            BY <5>2, <6>1 DEF Rows, Active, Unresolved
          <6> QED BY <2>1, <3>2, <6>1, <6>2 DEF RecoverCommit, Recoverable
        <5> QED BY <5>1, <5>2
      <4> QED BY <1>0, <3>1, <3>2, <4>1, <4>2 DEF RowStep, Kept, Row
    <3>3. CASE q # jobs[v].purchase
      <4>1. \/ purchases'[q] = purchases[q]
            \/ /\ purchases'[q] = [purchases[q] EXCEPT !.status = "cancelled"]
               /\ purchases[q].status = "pending"
        BY <2>1, <3>3 DEF RecoverCommit, Rows
      <4> QED BY <1>0, <4>1 DEF RowStep, Kept, Row
    <3> QED BY <3>2, <3>3
  <2>2. CASE ~RecoverCommit(v)
    BY <1>8, <1>a, <2>2 DEF Recovery, Recover, RecoverAnswer, RecoverSnapshot
  <2> QED BY <2>1, <2>2
<1>9. ASSUME NEW e \in Events, Organizer(e) PROVE RowStep(q)
  BY <1>9, <1>a DEF Organizer, EditCapacity, CancelEvent, EventEnds
<1>10. CASE ChainMoves
  BY <1>10, <1>a DEF ChainMoves
<1>11. CASE Tick
  BY <1>0, <1>11 DEF Tick, RowStep, Kept, Row
<1>12. CASE UNCHANGED vars
  BY <1>12, <1>a DEF vars
<1> QED
  BY <1>1, <1>2, <1>3, <1>4, <1>5, <1>6, <1>7, <1>8, <1>9, <1>10, <1>11, <1>12
     DEF Next, Own, Surroundings, Request, Verify

\* A consumed hash is never given to anybody else, and a final transfer stays so.
LEMMA StoreSteps == TypeOK /\ [Next]_vars => ConsumedStep /\ ChainStep
<1> SUFFICES ASSUME TypeOK, [Next]_vars PROVE ConsumedStep /\ ChainStep
  OBVIOUS
<1>1. ConsumedStep
  <2>1. ASSUME NEW p \in PurchaseIds, NEW h \in Hashes, SubmitTransaction(p, h)
        PROVE  ConsumedStep
    BY <2>1 DEF SubmitTransaction, Unconsumed, ConsumedStep, TypeOK
  <2>2. ASSUME NEW h \in Hashes, ConsumeElsewhere(h) PROVE ConsumedStep
    BY <2>2 DEF ConsumeElsewhere, Unconsumed, ConsumedStep, TypeOK
  <2>3. ASSUME consumed' = consumed PROVE ConsumedStep
    BY <2>3 DEF ConsumedStep
  <2> QED
    BY <2>1, <2>2, <2>3
       DEF Next, Own, Surroundings, Request, Verify, Recovery, Organizer, CreateExisting,
           CreatePending,
           ExpireOwnHold, Claim, Answer, Persist, PersistState, PersistConfirmed,
           PersistConfirmedRefused, PersistExpired, PersistTooLate, Abandon, Recover,
           RecoverAnswer, RecoverSnapshot, RecoverCommit, EditCapacity, CancelEvent,
           EventEnds, ChainMoves, Tick, vars
<1>2. ChainStep
  <2>1. CASE ChainMoves
    BY <2>1 DEF ChainMoves, TransfersNext, Broadcast, Mine, MacroBlock, RevokeIdentities,
                ChainStep, TypeOK, TransfersTypeOK
  <2>2. ASSUME chain' = chain PROVE ChainStep
    BY <2>2 DEF ChainStep
  <2> QED
    BY <2>1, <2>2
       DEF Next, Own, Surroundings, Request, Verify, Recovery, Organizer, CreateExisting,
           CreatePending,
           ExpireOwnHold, SubmitTransaction, ConsumeElsewhere, Claim, Answer, Persist,
           PersistState, PersistConfirmed, PersistConfirmedRefused, PersistExpired,
           PersistTooLate, Abandon, Recover, RecoverAnswer, RecoverSnapshot,
           RecoverCommit, EditCapacity, CancelEvent, EventEnds, Tick, chainVars, vars
<1> QED BY <1>1, <1>2
-------------------------------------------------------------------------------
(***************************************************************************)
(* The inductive invariant of the safety theorems.                         *)
(***************************************************************************)

\* A row in the table has a buyer and an event; it has a hash exactly when it
\* left "pending" through SubmitTransaction (or was resolved afterwards).
RowShape ==
  \A p \in PurchaseIds :
    LET row == purchases[p] IN
    /\ row.status # "none" => row.user \in Users /\ row.event \in Events
    /\ row.status = "none" => row.user = None
    /\ row.status \in {"none", "pending"} => row.hash = None
    /\ row.status \in Unresolved \cup {"confirmed", "failed"} => row.hash # None

\* A verifier works on a purchase with a hash, and is about to confirm it only
\* when its transfer has settled for its buyer.
JobsHonest ==
  \A v \in Verifiers :
    LET row == purchases[jobs[v].purchase] IN
    jobs[v].step # "idle" =>
      /\ jobs[v].purchase \in PurchaseIds
      /\ row.hash # None
      /\ Deciding(v) => Settled(row.hash, row.user)

IInv == TypeOK /\ RowShape /\ JobsHonest /\ HashReserved /\ PaidWhenConfirmed

\* A hash and its buyer are for good, and what has settled stays settled.
LEMMA SettledForGood ==
  ASSUME TypeOK, RowShape, [Next]_vars, NEW p \in PurchaseIds, purchases[p].hash # None
  PROVE  /\ purchases'[p].hash = purchases[p].hash
         /\ purchases'[p].user = purchases[p].user
         /\ Settled(purchases[p].hash, purchases[p].user)
              => Settled(purchases[p].hash, purchases[p].user)'
<1>1. RowStep(p) /\ ChainStep
  BY RowSteps, StoreSteps
<1>2. purchases[p].hash \in Hashes
  BY DEF TypeOK, Row
<1>3. purchases[p].status \notin {"none", "pending"}
  BY DEF RowShape
<1>4. Kept(purchases[p], purchases'[p])
  BY <1>1, <1>3 DEF RowStep
<1> QED BY <1>1, <1>2, <1>4 DEF Kept, Settled, ChainStep

\* Every step keeps rows in shape: an inserted row has its buyer, a submitted one
\* its hash.
LEMMA RowShapeStep == TypeOK /\ RowShape /\ JobsHonest /\ [Next]_vars => RowShape'
<1> SUFFICES ASSUME TypeOK, RowShape, JobsHonest, [Next]_vars, NEW p \in PurchaseIds
             PROVE  LET row == purchases'[p] IN
                    /\ row.status # "none" => row.user \in Users /\ row.event \in Events
                    /\ row.status = "none" => row.user = None
                    /\ row.status \in {"none", "pending"} => row.hash = None
                    /\ row.status \in Unresolved \cup {"confirmed", "failed"} => row.hash # None
  BY DEF RowShape
<1>1. RowStep(p)
  BY RowSteps
<1>2. None \notin Hashes
  BY TransfersAssumption
<1>3. (\E v \in Verifiers : jobs[v].purchase = p /\ Confirms(v)) => purchases[p].hash # None
  BY ConfirmsDecided DEF JobsHonest, Deciding
<1> QED BY <1>1, <1>2, <1>3 DEF RowStep, RowShape, Kept, Unresolved

\* VerifyTransfer answers "confirmed" only for a transfer that has settled.
LEMMA ConfirmedMeansSettled ==
  ASSUME TypeOK, NEW h \in Hashes, NEW u, "confirmed" \in VerifyTransfer(h, u)
  PROVE  Settled(h, u)
BY DEF VerifyTransfer, Verdict, SenderMatches, Settled, TypeOK, TransfersTypeOK, Phase

\* How the job of a verifier changes in one step: not at all, to idle, or to a
\* job that is honest about the rows as they are.
JobStep(v) ==
  LET row == purchases[jobs'[v].purchase] IN
  \/ jobs'[v] = jobs[v]
  \/ jobs'[v].step = "idle"
  \/ /\ jobs'[v].purchase \in PurchaseIds
     /\ row.hash # None
     /\ Deciding(v)' => Settled(row.hash, row.user)

\* A verifier that is told "confirmed" has seen the transfer settle; nothing else
\* makes it decide to confirm.
LEMMA JobSteps ==
  TypeOK /\ RowShape /\ JobsHonest /\ [Next]_vars => \A v \in Verifiers : JobStep(v)
<1> SUFFICES ASSUME TypeOK, RowShape, JobsHonest, [Next]_vars, NEW x \in Verifiers
             PROVE  JobStep(x)
  OBVIOUS
<1>0. jobs \in [Verifiers -> Job] /\ jobs[x] \in Job
  BY DEF TypeOK
<1>a. ASSUME jobs' = jobs PROVE JobStep(x)
  BY <1>a DEF JobStep
<1>b. ASSUME NEW v \in Verifiers, Release(v) PROVE JobStep(x)
  BY <1>0, <1>b DEF Release, Idle, JobStep
<1>1. ASSUME NEW v \in Verifiers, NEW p \in PurchaseIds, Claim(v, p) PROVE JobStep(x)
  <2>1. purchases[p].hash # None
    BY <1>1 DEF Claim, RowShape
  <2>2. jobs' = [jobs EXCEPT ![v] = [Idle EXCEPT !.step = "calling", !.purchase = p,
                                                  !.stale = (purchases[p].deadline = 0)]]
    BY <1>1 DEF Claim
  <2> QED BY <1>0, <2>1, <2>2 DEF JobStep, Deciding, Idle
<1>2. ASSUME NEW v \in Verifiers, Answer(v) PROVE JobStep(x)
  <2> DEFINE row == purchases[jobs[v].purchase]
  <2>1. /\ jobs[v].step = "calling"
        /\ jobs[v].purchase \in PurchaseIds /\ row.hash # None
    BY <1>2 DEF Answer, JobsHonest
  <2>2. row.hash \in Hashes
    BY <2>1 DEF TypeOK, Row
  <2>3. PICK outcome \in VerifyTransfer(row.hash, row.user) :
          LET write == StateFor(outcome, jobs[v].stale) IN
          jobs' = [jobs EXCEPT ![v] =
            IF write = None THEN Idle ELSE [@ EXCEPT !.step = "writing", !.write = write]]
    BY <1>2 DEF Answer
  <2>4. CASE StateFor(outcome, jobs[v].stale) = None
    BY <1>0, <2>3, <2>4 DEF JobStep, Idle
  <2>5. CASE StateFor(outcome, jobs[v].stale) # None
    <3>1. jobs' = [jobs EXCEPT ![v] =
            [jobs[v] EXCEPT !.step = "writing", !.write = StateFor(outcome, jobs[v].stale)]]
      BY <2>3, <2>5
    <3>2. /\ jobs'[v].purchase = jobs[v].purchase
          /\ jobs'[v].step = "writing"
          /\ jobs'[v].write = StateFor(outcome, jobs[v].stale)
      BY <1>0, <3>1 DEF TypeOK, Job
    <3>3. StateFor(outcome, jobs[v].stale) = "confirmed" => outcome = "confirmed"
      BY TransfersAssumption, <2>5 DEF StateFor
    <3>4. Deciding(v)' => Settled(row.hash, row.user)
      BY <2>2, <3>2, <3>3, ConfirmedMeansSettled DEF Deciding
    <3>5. CASE x = v
      BY <2>1, <3>2, <3>4, <3>5 DEF JobStep
    <3>6. CASE x # v
      BY <1>0, <3>1, <3>6 DEF JobStep
    <3> QED BY <3>5, <3>6
  <2> QED BY <2>4, <2>5
<1>3. ASSUME NEW v \in Verifiers, Persist(v) \/ Abandon(v) PROVE JobStep(x)
  BY <1>3, <1>b DEF Persist, PersistState, PersistConfirmed, PersistConfirmedRefused,
                    PersistExpired, PersistTooLate, Abandon
<1>4. ASSUME NEW v \in Verifiers, Recovery(v) PROVE JobStep(x)
  <2>1. ASSUME NEW p \in PurchaseIds, Recover(v, p) PROVE JobStep(x)
    BY <1>0, <2>1 DEF Recover, JobStep, Deciding, Idle
  <2>2. CASE RecoverAnswer(v)
    <3> DEFINE row == purchases[jobs[v].purchase]
    <3>1. /\ jobs[v].step = "recalling"
          /\ jobs[v].purchase \in PurchaseIds /\ row.hash # None
      BY <2>2 DEF RecoverAnswer, JobsHonest
    <3>2. row.hash \in Hashes
      BY <3>1 DEF TypeOK, Row
    <3>3. PICK outcome \in VerifyTransfer(row.hash, row.user) :
            jobs' = [jobs EXCEPT ![v] =
              IF outcome = "confirmed" THEN [@ EXCEPT !.step = "recovering"] ELSE Idle]
      BY <2>2 DEF RecoverAnswer
    <3>4. CASE outcome = "confirmed"
      <4>1. Settled(row.hash, row.user)
        BY <3>2, <3>4, ConfirmedMeansSettled
      <4>2. jobs' = [jobs EXCEPT ![v] = [jobs[v] EXCEPT !.step = "recovering"]]
        BY <3>3, <3>4
      <4>3. jobs'[v].purchase = jobs[v].purchase
        BY <1>0, <4>2 DEF TypeOK, Job
      <4> QED BY <1>0, <3>1, <4>1, <4>2, <4>3 DEF JobStep
    <3>5. CASE outcome # "confirmed"
      BY <1>0, <3>3, <3>5 DEF JobStep, Idle
    <3> QED BY <3>4, <3>5
  <2>3. CASE RecoverSnapshot(v)
    <3>1. jobs' = [jobs EXCEPT ![v] = [jobs[v] EXCEPT !.step = "syncing",
                                         !.count = CountWith(jobs[v].purchase)]]
      BY <2>3 DEF RecoverSnapshot
    <3>2. jobs'[v].purchase = jobs[v].purchase
      BY <1>0, <3>1 DEF TypeOK, Job
    <3>3. /\ jobs[v].purchase \in PurchaseIds
          /\ purchases[jobs[v].purchase].hash # None
          /\ Settled(purchases[jobs[v].purchase].hash, purchases[jobs[v].purchase].user)
      BY <2>3 DEF RecoverSnapshot, JobsHonest, Deciding
    <3> QED BY <1>0, <3>1, <3>2, <3>3 DEF JobStep
  <2>4. CASE RecoverCommit(v)
    BY <1>b, <2>4 DEF RecoverCommit
  <2> QED BY <1>4, <2>1, <2>2, <2>3, <2>4 DEF Recovery
<1> QED
  BY <1>a, <1>1, <1>2, <1>3, <1>4
     DEF Next, Own, Surroundings, Request, Verify, Organizer, CreateExisting,
         CreatePending, ExpireOwnHold,
         SubmitTransaction, ConsumeElsewhere, EditCapacity, CancelEvent, EventEnds,
         ChainMoves, Tick, vars

\* Every step keeps the jobs honest: what a verifier has decided stays true of its
\* row until the verifier writes it, whoever touches the row in between.
LEMMA JobsHonestStep == TypeOK /\ RowShape /\ JobsHonest /\ [Next]_vars => JobsHonest'
<1> SUFFICES ASSUME TypeOK, RowShape, JobsHonest, [Next]_vars, NEW v \in Verifiers,
                    jobs'[v].step # "idle"
             PROVE  (LET row == purchases[jobs[v].purchase] IN
                     /\ jobs[v].purchase \in PurchaseIds
                     /\ row.hash # None
                     /\ Deciding(v) => Settled(row.hash, row.user))'
  BY DEF JobsHonest
<1>1. PICK p \in PurchaseIds :
        /\ p = jobs'[v].purchase
        /\ purchases[p].hash # None
        /\ Deciding(v)' => Settled(purchases[p].hash, purchases[p].user)
  BY JobSteps DEF JobStep, JobsHonest, Deciding
<1>2. /\ purchases'[p].hash = purchases[p].hash
      /\ purchases'[p].user = purchases[p].user
      /\ Settled(purchases[p].hash, purchases[p].user)
           => Settled(purchases[p].hash, purchases[p].user)'
  BY <1>1, SettledForGood
<1> QED BY <1>1, <1>2 DEF Settled

\* No step gives a hash a purchase holds to anybody else.
LEMMA HashReservedStep == IInv /\ [Next]_vars => HashReserved'
<1> SUFFICES ASSUME IInv, [Next]_vars, NEW p \in PurchaseIds, purchases'[p].hash # None
             PROVE  consumed'[purchases'[p].hash] = PurchaseObject(p)
  BY DEF HashReserved
<1>1. RowStep(p) /\ ConsumedStep
  BY RowSteps, StoreSteps DEF IInv
<1>2. CASE purchases[p].hash # None
  <2>1. purchases'[p].hash = purchases[p].hash
    BY <1>2, SettledForGood DEF IInv
  <2>2. purchases[p].hash \in Hashes /\ consumed[purchases[p].hash] = PurchaseObject(p)
    BY <1>2 DEF IInv, HashReserved, TypeOK, Row
  <2>3. PurchaseObject(p) # None
    BY ObjectsAssumption DEF Objects
  <2> QED BY <1>1, <2>1, <2>2, <2>3 DEF ConsumedStep
<1>3. CASE purchases[p].hash = None
  BY <1>1, <1>3 DEF RowStep, Kept
<1> QED BY <1>2, <1>3

\* No step confirms a purchase whose transfer has not settled.
LEMMA PaidStep == IInv /\ [Next]_vars => PaidWhenConfirmed'
<1> SUFFICES ASSUME IInv, [Next]_vars, NEW p \in PurchaseIds,
                    purchases'[p].status = "confirmed"
             PROVE  (purchases[p].hash # None /\ Settled(purchases[p].hash, purchases[p].user))'
  BY DEF PaidWhenConfirmed
<1>1. RowStep(p)
  BY RowSteps DEF IInv
<1>2. purchases[p].hash # None /\ Settled(purchases[p].hash, purchases[p].user)
  BY <1>1, ConfirmsDecided DEF IInv, RowStep, PaidWhenConfirmed, JobsHonest, Deciding
<1>3. /\ purchases'[p].hash = purchases[p].hash
      /\ purchases'[p].user = purchases[p].user
      /\ Settled(purchases[p].hash, purchases[p].user)'
  BY <1>2, SettledForGood DEF IInv
<1> QED BY <1>2, <1>3 DEF Settled

\* The invariant holds of the empty database.
LEMMA InitIInv == Init => IInv
<1> SUFFICES ASSUME Init PROVE IInv
  OBVIOUS
<1>1. TypeOK
  BY InitTypeOK
<1>2. RowShape /\ HashReserved /\ PaidWhenConfirmed
  BY DEF Init, NoRow, RowShape, HashReserved, PaidWhenConfirmed, Unresolved
<1>3. JobsHonest
  BY DEF Init, Idle, JobsHonest
<1> QED BY <1>1, <1>2, <1>3 DEF IInv

\* The invariant holds in every reachable state.
THEOREM SafetyInvariant == Spec => []IInv
<1>1. IInv /\ [Next]_vars => IInv'
  BY TypeStep, RowShapeStep, JobsHonestStep, HashReservedStep, PaidStep DEF IInv
<1> QED BY <1>1, InitIInv, PTL DEF Spec

\* One transfer never pays for two objects: a hash a purchase took stays
\* reserved for that purchase in consumed_nimiq_transactions.
THEOREM HashStaysReserved == Spec => []HashReserved
<1>1. IInv => HashReserved
  BY DEF IInv
<1> QED BY <1>1, SafetyInvariant, PTL

\* Whatever verifiers race, stall or crash, with or without recovery: only a
\* purchase whose transfer has settled for its buyer is ever confirmed.
THEOREM NothingUnpaidConfirmed == Spec => []PaidWhenConfirmed
<1>1. IInv => PaidWhenConfirmed
  BY DEF IInv
<1> QED BY <1>1, SafetyInvariant, PTL
-------------------------------------------------------------------------------
(***************************************************************************)
(* One active purchase per buyer, and the life of a row.                   *)
(***************************************************************************)

\* No step gives a user a second active purchase of an event: Create looks for one
\* under the event lock, recovery cancels the replacement it overtakes.
LEMMA OneActiveStep == TypeOK /\ OneActivePurchase /\ [Next]_vars => OneActivePurchase'
<1> SUFFICES ASSUME TypeOK, OneActivePurchase, [Next]_vars,
                    NEW p \in PurchaseIds, NEW q \in PurchaseIds,
                    purchases'[p].status \in Active, purchases'[q].status \in Active,
                    purchases'[p].event = purchases'[q].event,
                    purchases'[p].user = purchases'[q].user
             PROVE  p = q
  BY DEF OneActivePurchase
<1>1. RowStep(p) /\ RowStep(q)
  BY RowSteps
<1>2. ASSUME NEW r \in PurchaseIds, RowStep(r), purchases'[r].status \in Active
      PROVE  \/ purchases[r].status \in Active /\ Kept(purchases[r], purchases'[r])
             \/ purchases[r].status = "pending" /\ purchases'[r].user = purchases[r].user
                                                /\ purchases'[r].event = purchases[r].event
             \/ Unrivalled(r)
  BY <1>2 DEF RowStep, Active, Unresolved
<1>3. CASE Unrivalled(p) \/ Unrivalled(q)
  BY <1>3 DEF Unrivalled
<1>4. CASE ~Unrivalled(p) /\ ~Unrivalled(q)
  BY <1>1, <1>2, <1>4 DEF OneActivePurchase, Kept, Active
<1> QED BY <1>3, <1>4

\* No user ever has two purchases of one event pending, in flight or paid,
\* although recovery confirms an expired purchase beside its replacement.
THEOREM NeverTwoActive == Spec => []OneActivePurchase
<1>1. Init => OneActivePurchase
  BY DEF Init, NoRow, OneActivePurchase, Active
<1>2. TypeOK /\ OneActivePurchase /\ [Next]_vars => OneActivePurchase'
  BY OneActiveStep
<1> QED BY <1>1, <1>2, TypeCorrect, PTL DEF Spec

\* Late, duplicated and stale results never undo a decision: every step takes a
\* row along Edges and leaves its hash alone.
THEOREM OnlyForward == Spec => Lifecycle
<1>1. ASSUME IInv, [Next]_vars
      PROVE  \A p \in PurchaseIds : AlongEdges(purchases[p], purchases'[p])
  <2> SUFFICES ASSUME NEW p \in PurchaseIds PROVE AlongEdges(purchases[p], purchases'[p])
    OBVIOUS
  <2>1. RowStep(p)
    BY <1>1, RowSteps DEF IInv
  <2>2. purchases[p].hash # None => purchases'[p].hash = purchases[p].hash
    BY <1>1, SettledForGood DEF IInv
  <2>3. purchases'[p].status # purchases[p].status
          => <<purchases[p].status, purchases'[p].status>> \in Edges
    BY <2>1 DEF RowStep, Unresolved, Edges
  <2> QED BY <2>2, <2>3 DEF AlongEdges
<1>2. IInv /\ [Next]_vars
        => [\A p \in PurchaseIds : AlongEdges(purchases[p], purchases'[p])]_vars
  BY <1>1
<1> QED BY <1>2, SafetyInvariant, PTL DEF Spec, Lifecycle

-------------------------------------------------------------------------------
(***************************************************************************)
(* The refinement of PaymentLedger.                                        *)
(***************************************************************************)

\* SettledFor, pair by pair.
LEMMA SettledForPairs ==
  ASSUME NEW h \in Hashes, NEW p \in PurchaseIds
  PROVE  <<h, PurchaseObject(p)>> \in SettledFor <=> Settled(h, purchases[p].user)
BY DEF SettledFor, PurchaseObject

\* What has settled are pairs of a transfer and an object of the store.
LEMMA SettledForShape == SettledFor \in SUBSET (Hashes \X Objects)
BY DEF SettledFor, Objects

\* What has settled for a purchase stays settled for it.
LEMMA SettledForGrows == IInv /\ [Next]_vars => SettledFor \subseteq SettledFor'
<1> SUFFICES ASSUME IInv, [Next]_vars, NEW h \in Hashes, NEW p \in PurchaseIds,
                    Settled(h, purchases[p].user)
             PROVE  Settled(h, purchases[p].user)'
  BY DEF SettledFor, PurchaseObject
<1>1. purchases[p].user \in Users
  BY TransfersAssumption DEF Settled
<1>2. purchases[p].status # "none"
  BY <1>1, TransfersAssumption DEF IInv, RowShape
<1>3. RowStep(p) /\ ChainStep
  BY RowSteps, StoreSteps DEF IInv
<1>4. purchases'[p].user = purchases[p].user
  BY <1>2, <1>3 DEF RowStep, Kept
<1> QED BY <1>3, <1>4 DEF Settled, ChainStep

\* A step that keeps the chain and the buyers settles nothing.
LEMMA SettledForKept ==
  ASSUME chain' = chain, \A p \in PurchaseIds : purchases'[p].user = purchases[p].user
  PROVE  SettledFor' = SettledFor
BY DEF SettledFor, Settled, PurchaseObject

\* Every step of the purchases is a step of the ledger, or none: submission and a
\* payment request spend, the chain settles, confirmation and recovery grant.
LEMMA RefinementStep == IInv /\ [Next]_vars => [Ledger!Next]_(Ledger!ledgerVars)
<1> SUFFICES ASSUME IInv, [Next]_vars PROVE [Ledger!Next]_(Ledger!ledgerVars)
  OBVIOUS
<1>0. TypeOK /\ \A p \in PurchaseIds : purchases[p] \in Row
  BY DEF IInv, TypeOK
<1>1. ASSUME NEW p \in PurchaseIds, NEW h \in Hashes, SubmitTransaction(p, h)
      PROVE  Ledger!Spend(h, PurchaseObject(p))
  <2>1. \A q \in PurchaseIds :
          /\ purchases'[q].user = purchases[q].user
          /\ purchases'[q].status = "confirmed" <=> purchases[q].status = "confirmed"
    BY <1>0, <1>1 DEF SubmitTransaction, TypeOK, Row
  <2>2. SettledFor' = SettledFor
    BY <1>1, <2>1, SettledForKept DEF SubmitTransaction, chainVars
  <2>3. Granted' = Granted
    BY <2>1 DEF Granted
  <2> QED BY <1>1, <2>2, <2>3, SettledForShape DEF SubmitTransaction, Unconsumed, Ledger!Spend,
          Ledger!MoreSettles
<1>2. ASSUME NEW h \in Hashes, ConsumeElsewhere(h)
      PROVE  \E o \in Objects : Ledger!Spend(h, o)
  <2>1. SettledFor' = SettledFor
    BY <1>2, SettledForKept DEF ConsumeElsewhere, chainVars
  <2>2. Granted' = Granted
    BY <1>2 DEF ConsumeElsewhere, Granted
  <2> QED BY <1>2, <2>1, <2>2, SettledForShape DEF ConsumeElsewhere, Unconsumed, Objects,
          Ledger!Spend, Ledger!MoreSettles
<1>3. ASSUME NEW v \in Verifiers, Confirms(v)
      PROVE  \E h \in Hashes, o \in Objects : Ledger!Grant(h, o)
  <2> DEFINE p == jobs[v].purchase
             row == purchases[p]
  <2>1. /\ p \in PurchaseIds /\ row.hash # None
        /\ Settled(row.hash, row.user)
    BY <1>3, ConfirmsDecided DEF IInv, JobsHonest, Deciding
  <2>2. row.hash \in Hashes /\ consumed[row.hash] = PurchaseObject(p)
    BY <1>0, <2>1 DEF IInv, HashReserved, Row
  <2>3. <<row.hash, PurchaseObject(p)>> \in SettledFor
    BY <2>1, <2>2, SettledForPairs
  <2>4. /\ consumed' = consumed /\ chain' = chain
        /\ \A q \in PurchaseIds :
             /\ purchases'[q].user = purchases[q].user
             /\ purchases'[q].status = "confirmed" <=> purchases[q].status = "confirmed" \/ q = p
    <3>1. CASE PersistConfirmed(v)
      BY <1>0, <2>1, <3>1 DEF PersistConfirmed, chainVars, TypeOK, Row
    <3>2. CASE RecoverCommit(v)
      <4>1. \A q \in PurchaseIds :
              \/ q = p /\ purchases'[q] = [purchases[q] EXCEPT !.status = "confirmed",
                                                        !.hold = None, !.claim = 0]
              \/ q # p /\ purchases'[q] = purchases[q]
              \/ /\ q # p /\ purchases[q].status = "pending"
                 /\ purchases'[q] = [purchases[q] EXCEPT !.status = "cancelled"]
        BY <3>2 DEF RecoverCommit, Rows
      <4>2. consumed' = consumed /\ chain' = chain
        BY <3>2 DEF RecoverCommit, chainVars
      <4>3. ASSUME NEW q \in PurchaseIds
            PROVE  /\ purchases'[q].user = purchases[q].user
                   /\ purchases'[q].status = "confirmed"
                        <=> purchases[q].status = "confirmed" \/ q = p
        <5>1. purchases[q] \in Row
          BY <1>0
        <5>2. CASE q = p
          BY <4>1, <5>1, <5>2 DEF Row
        <5>3. CASE q # p
          BY <4>1, <5>1, <5>3 DEF Row
        <5> QED BY <5>2, <5>3
      <4> QED BY <4>2, <4>3
    <3> QED BY <1>3, <3>1, <3>2 DEF Confirms
  <2>5. SettledFor' = SettledFor
    BY <2>4, SettledForKept
  <2>6. Granted' = Granted \cup {PurchaseObject(p)}
    BY <2>1, <2>4 DEF Granted
  <2>7. PurchaseObject(p) \in Objects
    BY <2>1 DEF Objects
  <2> QED BY <2>2, <2>3, <2>4, <2>5, <2>6, <2>7 DEF Ledger!Grant
<1>4. ASSUME consumed' = consumed, \A v \in Verifiers : ~Confirms(v)
      PROVE  Ledger!Settle
  <2>1. \A p \in PurchaseIds : purchases'[p].status = "confirmed" <=> purchases[p].status = "confirmed"
    <3> SUFFICES ASSUME NEW p \in PurchaseIds
                 PROVE  purchases'[p].status = "confirmed" <=> purchases[p].status = "confirmed"
      OBVIOUS
    <3>1. RowStep(p)
      BY <1>0, RowSteps
    <3> QED BY <1>4, <3>1 DEF RowStep, Unresolved
  <2>2. Granted' = Granted
    BY <2>1 DEF Granted
  <2>3. SettledFor \subseteq SettledFor' /\ SettledFor' \in SUBSET (Hashes \X Objects)
    BY SettledForGrows, SettledForShape DEF SettledFor, Objects
  <2> QED BY <1>4, <2>2, <2>3 DEF Ledger!Settle, Ledger!MoreSettles
<1>5. \A p \in PurchaseIds : PurchaseObject(p) \in Objects
  BY DEF Objects
<1>6. ConsumedStep
  BY <1>0, StoreSteps
<1> QED BY <1>1, <1>2, <1>3, <1>4, <1>5, <1>6 DEF ConsumedStep, Ledger!Next

\* Event purchases implement the payment ledger.
THEOREM PurchasesImplementLedger == Spec => ImplementsLedger
<1>1. Init => Ledger!Init
  <2> SUFFICES ASSUME Init PROVE Ledger!Init
    OBVIOUS
  <2>1. SettledFor = {}
    BY TransfersAssumption DEF Init, TransfersInit, SettledFor, Settled
  <2>2. Granted = {}
    BY DEF Init, NoRow, Granted
  <2> QED BY <2>1, <2>2 DEF Init, Ledger!Init
<1>2. IInv /\ [Next]_vars => [Ledger!Next]_(Ledger!ledgerVars)
  BY RefinementStep
<1> QED BY <1>1, <1>2, SafetyInvariant, PTL DEF Spec, ImplementsLedger, Ledger!Spec
-------------------------------------------------------------------------------
(***************************************************************************)
(* Seats and attendees.  Both are exact as long as nobody overrides a seat  *)
(* count: no recovery of expired payments, no lowered capacity.             *)
(***************************************************************************)

\* Orderly selling only leaves out steps.
LEMMA OrderlyIsNext == [Orderly(Verifiers)]_vars => [Next]_vars
BY DEF Orderly, Next, Own, Organizer, RaiseCapacity

\* Orderly selling is a behaviour of the whole system: what holds of Spec holds of it.
THEOREM OrderlyIsSpec == OrderlySpec => Spec
BY OrderlyIsNext, PTL DEF OrderlySpec, Spec

\* Orderly selling confirms through PersistConfirmed only.
LEMMA OrderlyNeverRecovers ==
  ASSUME IInv, [Orderly(Verifiers)]_vars, NEW v \in Verifiers, RecoverCommit(v)
  PROVE  FALSE
<1> DEFINE p == jobs[v].purchase
<1>1. /\ jobs[v].step = "syncing" /\ p \in PurchaseIds
      /\ jobs \in [Verifiers -> Job] /\ purchases[p] \in Row
  BY DEF RecoverCommit, IInv, JobsHonest, TypeOK
<1>2. jobs'[v].step = "idle"
  BY <1>1 DEF RecoverCommit, Release, Idle
<1>3. purchases' # purchases
  <2>1. purchases[p].status = "expired"
    BY DEF RecoverCommit, Recoverable
  <2>2. purchases'[p] = [purchases[p] EXCEPT !.status = "confirmed", !.hold = None, !.claim = 0]
    BY <1>1 DEF RecoverCommit
  <2> QED BY <1>1, <2>1, <2>2 DEF Row
<1>4. jobs' # jobs
  BY <1>1, <1>2
<1>5. PICK x \in Verifiers : Verify(x)
  BY <1>4 DEF Orderly, Surroundings, Request, CreateExisting, CreatePending, ExpireOwnHold,
     SubmitTransaction, ConsumeElsewhere, RaiseCapacity, EditCapacity, CancelEvent,
     EventEnds, ChainMoves, Tick, vars
<1>6. x = v
  BY <1>1, <1>2, <1>5
     DEF Verify, Claim, Answer, Persist, PersistState, PersistConfirmed,
         PersistConfirmedRefused, PersistExpired, PersistTooLate, Abandon, Release
<1>7. ~Abandon(v)
  BY <1>3 DEF Abandon
<1>8. ~Answer(v) /\ ~Persist(v)
  BY <1>1 DEF Answer, Persist, PersistState, PersistConfirmed, PersistConfirmedRefused,
              PersistExpired, PersistTooLate
<1>9. \A q \in PurchaseIds : ~Claim(v, q)
  BY <1>1 DEF Claim, Idle
<1> QED BY <1>5, <1>6, <1>7, <1>8, <1>9 DEF Verify

\* A row active after an orderly step was active before it, or was inserted.
LEMMA OrderlyRows ==
  ASSUME IInv, [Orderly(Verifiers)]_vars, NEW p \in PurchaseIds
  PROVE  /\ purchases'[p].status \in Active =>
              \/ purchases[p].status \in Active /\ purchases'[p].user = purchases[p].user
                                                /\ purchases'[p].event = purchases[p].event
              \/ \E u \in Users, e \in Events : CreatePending(u, e, p)
         /\ (\A v \in Verifiers : ~PersistConfirmed(v)) =>
              (purchases'[p].status = "confirmed" <=> purchases[p].status = "confirmed")
         /\ purchases[p].status # "none" =>
              purchases'[p].user = purchases[p].user /\ purchases'[p].event = purchases[p].event
<1>1. RowStep(p)
  BY OrderlyIsNext, RowSteps DEF IInv
<1>2. \A v \in Verifiers : Confirms(v) => PersistConfirmed(v)
  BY OrderlyNeverRecovers DEF Confirms
<1>3. \A v \in Verifiers : PersistConfirmed(v) => purchases[jobs[v].purchase].status \in Unresolved
  BY DEF PersistConfirmed, Open
<1> QED BY <1>1, <1>2, <1>3 DEF RowStep, Kept, Active, Unresolved

\* Every orderly step keeps attendee_count exact: the count is computed and written
\* under the lock of the event row, in the transaction that confirms.
LEMMA AttendeeCountStep ==
  IInv /\ AttendeeCountExact /\ [Orderly(Verifiers)]_vars => AttendeeCountExact'
<1> SUFFICES ASSUME IInv, AttendeeCountExact, [Orderly(Verifiers)]_vars, NEW e \in Events
             PROVE  attendeeCount'[e] = Cardinality(Attendees(e)')
  BY DEF AttendeeCountExact
<1>0. /\ attendeeCount \in [Events -> Nat]
      /\ \A p \in PurchaseIds : purchases[p] \in Row
      /\ attendeeCount[e] = Cardinality(Attendees(e))
  BY DEF IInv, TypeOK, AttendeeCountExact
<1>1. ASSUME NEW v \in Verifiers, PersistConfirmed(v)
      PROVE  attendeeCount'[e] = Cardinality(Attendees(e)')
  <2> DEFINE p == jobs[v].purchase
  <2>1. p \in PurchaseIds
    BY <1>1 DEF PersistConfirmed, IInv, JobsHonest
  <2>2. purchases[p].event \in Events
    BY <1>1, <2>1 DEF PersistConfirmed, Open, Unresolved, IInv, RowShape
  <2>3. \A q \in PurchaseIds :
          /\ purchases'[q].user = purchases[q].user /\ purchases'[q].event = purchases[q].event
          /\ purchases'[q].status = "confirmed" <=> purchases[q].status = "confirmed" \/ q = p
    BY <1>0, <1>1, <2>1 DEF PersistConfirmed, IInv, TypeOK, Row
  <2>4. attendeeCount' = [attendeeCount EXCEPT ![purchases[p].event] = CountWith(p)]
    BY <1>1 DEF PersistConfirmed
  <2>5. CASE e = purchases[p].event
    <3>1. Attendees(e)' = Attendees(e) \cup {purchases[p].user}
      BY <2>1, <2>3, <2>5 DEF Attendees, BuyersOf, Rows
    <3> QED BY <1>0, <2>4, <2>5, <3>1 DEF CountWith
  <2>6. CASE e # purchases[p].event
    <3>1. Attendees(e)' = Attendees(e)
      BY <2>1, <2>3, <2>6 DEF Attendees, BuyersOf, Rows
    <3> QED BY <1>0, <2>4, <2>6, <3>1
  <2> QED BY <2>5, <2>6
<1>2. ASSUME \A v \in Verifiers : ~PersistConfirmed(v)
      PROVE  attendeeCount'[e] = Cardinality(Attendees(e)')
  <2>1. \A q \in PurchaseIds :
          /\ purchases'[q].status = "confirmed" <=> purchases[q].status = "confirmed"
          /\ purchases[q].status = "confirmed" =>
               purchases'[q].user = purchases[q].user /\ purchases'[q].event = purchases[q].event
    BY <1>2, OrderlyRows
  <2>2. Attendees(e)' = Attendees(e)
    BY <2>1 DEF Attendees, BuyersOf, Rows
  <2>3. attendeeCount' = attendeeCount
    BY <1>2 DEF Orderly, Surroundings, Request, CreateExisting, CreatePending, ExpireOwnHold,
       SubmitTransaction, ConsumeElsewhere, Verify, Claim, Answer, Persist, PersistState,
       PersistConfirmedRefused, PersistExpired, PersistTooLate, Abandon, RaiseCapacity,
       EditCapacity, CancelEvent, EventEnds, ChainMoves, Tick, eventVars, vars
  <2> QED BY <1>0, <2>2, <2>3
<1> QED BY <1>1, <1>2

\* In orderly selling events.attendee_count is the number of confirmed buyers.
THEOREM AttendeesCounted == OrderlySpec => []AttendeeCountExact
<1>1. Init => AttendeeCountExact
  <2> SUFFICES ASSUME Init, NEW e \in Events PROVE attendeeCount[e] = Cardinality(Attendees(e))
    BY DEF AttendeeCountExact
  <2>1. Attendees(e) = {}
    BY DEF Init, NoRow, Attendees, BuyersOf, Rows
  <2> QED BY <2>1, FS_EmptySet DEF Init
<1>2. IInv /\ AttendeeCountExact /\ [Orderly(Verifiers)]_vars => AttendeeCountExact'
  BY AttendeeCountStep
<1> QED BY <1>1, <1>2, OrderlyIsSpec, SafetyInvariant, PTL DEF OrderlySpec

\* Every active purchase, lapsed holds included, has a seat.
Seats(e) == BuyersOf(Rows(e, Active))

SeatsFit == \A e \in Events : capacity[e] # None => Cardinality(Seats(e)) <= capacity[e]

\* Seats and their parts are finite sets, so they can be counted and compared.
LEMMA SeatsFinite ==
  ASSUME NEW e, NEW S \in SUBSET Seats(e)
  PROVE  /\ IsFiniteSet(S) /\ IsFiniteSet(Seats(e))
         /\ Cardinality(S) \in Nat /\ Cardinality(Seats(e)) \in Nat
         /\ Cardinality(S) <= Cardinality(Seats(e))
<1>1. Rows(e, Active) \in SUBSET PurchaseIds
  BY DEF Rows
<1>2. IsFiniteSet(Seats(e))
  BY <1>1, BuyersFinite DEF Seats
<1> QED BY <1>2, FS_Subset, FS_CardinalityType

\* The occupied seats are among the seats that can still be taken up.
LEMMA OccupantsSeated == \A e : Occupants(e) \subseteq Seats(e)
BY DEF Occupants, Seats, BuyersOf

\* Create expires every lapsed hold of the event before it takes a seat.
LEMMA CreateSeats ==
  ASSUME TypeOK, NEW u \in Users, NEW e \in Events, NEW p \in PurchaseIds,
         CreatePending(u, e, p)
  PROVE  /\ Seats(e)' \subseteq Occupants(e) \cup {u}
         /\ \A d \in Events \ {e} : Seats(d)' \subseteq Seats(d)
<1>0. purchases \in [PurchaseIds -> Row]
  BY DEF TypeOK
<1> DEFINE hold == IF capacity[e] = None THEN None ELSE HoldDuration
           row == [NoRow EXCEPT !.status = "pending", !.event = e, !.user = u, !.hold = hold]
<1>1. row.user = u /\ row.event = e
  BY DEF NoRow
<1> HIDE DEF row
<1>2. purchases' = [ExpireHolds(Rows(e, {"pending"})) EXCEPT ![p] = row]
  BY DEF CreatePending, row
<1>3. ExpireHolds(Rows(e, {"pending"})) \in [PurchaseIds -> Row]
  BY <1>0, ExpireHoldsType
<1>4. purchases'[p].user = u /\ purchases'[p].event = e
  BY <1>1, <1>2, <1>3
<1>5. ASSUME NEW q \in PurchaseIds \ {p}, purchases'[q].status \in Active
      PROVE  /\ purchases'[q] = purchases[q]
             /\ purchases[q].event = e => ~HoldLapsed(q)
  <2>1. purchases'[q] = ExpireHolds(Rows(e, {"pending"}))[q]
    BY <1>2, <1>3
  <2>2. purchases'[q] = purchases[q]
    BY <1>0, <1>5, <2>1, ExpireHoldsEffect DEF Active
  <2>3. ~(q \in Rows(e, {"pending"}) /\ HoldLapsed(q))
    BY <1>0, <1>5, <2>1, <2>2 DEF ExpireHolds, Row, Active, HoldLapsed
  <2> QED BY <2>2, <2>3 DEF Rows, HoldLapsed
<1>6. Seats(e)' \subseteq Occupants(e) \cup {u}
  BY <1>4, <1>5 DEF Seats, Occupants, BuyersOf, Rows
<1>7. ASSUME NEW d \in Events \ {e} PROVE Seats(d)' \subseteq Seats(d)
  BY <1>4, <1>5 DEF Seats, BuyersOf, Rows
<1> QED BY <1>6, <1>7

\* No orderly step seats more buyers than the capacity, lapsed holds counted.
LEMMA SeatsFitStep == IInv /\ SeatsFit /\ [Orderly(Verifiers)]_vars => SeatsFit'
<1> SUFFICES ASSUME IInv, SeatsFit, [Orderly(Verifiers)]_vars, NEW e \in Events,
                    capacity'[e] # None
             PROVE  Cardinality(Seats(e)') <= capacity'[e]
  BY DEF SeatsFit
<1>0. TypeOK /\ capacity \in [Events -> Nat \cup {None}]
  BY DEF IInv, TypeOK
<1>1. ASSUME NEW u \in Users, NEW d \in Events, NEW p \in PurchaseIds, CreatePending(u, d, p)
      PROVE  Cardinality(Seats(e)') <= capacity'[e]
  <2>1. capacity' = capacity /\ capacity[e] \in Nat
    BY <1>0, <1>1 DEF CreatePending, eventVars
  <2>2. CASE e = d
    <3>1. Cardinality(Occupants(e)) < capacity[e]
      BY <1>1, <2>1, <2>2 DEF CreatePending, SeatFree
    <3>2. IsFiniteSet(Occupants(e)) /\ Cardinality(Occupants(e)) \in Nat
      BY OccupantsSeated, SeatsFinite
    <3>3. /\ IsFiniteSet(Occupants(e) \cup {u})
          /\ Cardinality(Occupants(e) \cup {u}) \in Nat
          /\ Cardinality(Occupants(e) \cup {u}) <= Cardinality(Occupants(e)) + 1
      <4>1. /\ IsFiniteSet(Occupants(e) \cup {u})
            /\ Cardinality(Occupants(e) \cup {u})
                 = IF u \in Occupants(e) THEN Cardinality(Occupants(e))
                   ELSE Cardinality(Occupants(e)) + 1
        BY <3>2, FS_AddElement
      <4> QED BY <3>2, <4>1
    <3>4. Seats(e)' \subseteq Occupants(e) \cup {u}
      BY <1>0, <1>1, <2>2, CreateSeats
    <3>5. /\ Cardinality(Seats(e)') \in Nat
          /\ Cardinality(Seats(e)') <= Cardinality(Occupants(e) \cup {u})
      BY <3>3, <3>4, FS_Subset, FS_CardinalityType
    <3> QED BY <2>1, <3>1, <3>2, <3>3, <3>5
  <2>3. CASE e # d
    <3>1. Seats(e)' \subseteq Seats(e)
      BY <1>0, <1>1, <2>3, CreateSeats
    <3>2. Cardinality(Seats(e)) <= capacity[e]
      BY <2>1 DEF SeatsFit
    <3> QED BY <2>1, <3>1, <3>2, SeatsFinite
  <2> QED BY <2>2, <2>3
<1>2. ASSUME \A u \in Users, d \in Events, p \in PurchaseIds : ~CreatePending(u, d, p)
      PROVE  Cardinality(Seats(e)') <= capacity'[e]
  <2>1. \A p \in PurchaseIds : purchases'[p].status \in Active =>
          /\ purchases[p].status \in Active
          /\ purchases'[p].user = purchases[p].user
          /\ purchases'[p].event = purchases[p].event
    BY <1>2, OrderlyRows
  <2>2. Seats(e)' \subseteq Seats(e)
    BY <2>1 DEF Seats, BuyersOf, Rows
  <2>3. capacity[e] # None /\ capacity[e] <= capacity'[e]
    <3>1. ASSUME NEW d \in Events, NEW c \in Capacities \cup {None}, RaiseCapacity(d, c)
          PROVE  capacity[e] # None /\ capacity[e] <= capacity'[e]
      BY <1>0, <3>1, PurchasesAssumption DEF RaiseCapacity, EditCapacity
    <3>2. ASSUME capacity' = capacity
          PROVE  capacity[e] # None /\ capacity[e] <= capacity'[e]
      BY <1>0, <3>2
    <3> QED
      BY <3>1, <3>2 DEF Orderly, Surroundings, Request, CreateExisting, CreatePending,
                        ExpireOwnHold,
         SubmitTransaction, ConsumeElsewhere, Verify, Claim, Answer, Persist, PersistState,
         PersistConfirmed, PersistConfirmedRefused, PersistExpired, PersistTooLate, Abandon,
         CancelEvent, EventEnds, ChainMoves, Tick, eventVars, vars
  <2>4. Cardinality(Seats(e)) <= capacity[e]
    BY <2>3 DEF SeatsFit
  <2>5. capacity[e] \in Nat /\ capacity'[e] \in Nat
    BY <1>0, <2>3, OrderlyIsNext, TypeStep DEF TypeOK
  <2>6. /\ Cardinality(Seats(e)') \in Nat /\ Cardinality(Seats(e)) \in Nat
        /\ Cardinality(Seats(e)') <= Cardinality(Seats(e))
    BY <2>2, SeatsFinite
  <2> QED BY <2>3, <2>4, <2>5, <2>6
<1> QED BY <1>1, <1>2

\* In orderly selling the seats in use never exceed the capacity: SeatsFit is
\* inductive where NotOversold is not, because a lapsed hold that nobody has
\* expired yet can still be submitted.
THEOREM NeverOversold == OrderlySpec => []NotOversold
<1>1. Init => SeatsFit
  <2> SUFFICES ASSUME Init, NEW e \in Events, capacity[e] # None
               PROVE  Cardinality(Seats(e)) <= capacity[e]
    BY DEF SeatsFit
  <2>1. Seats(e) = {}
    BY DEF Init, NoRow, Seats, BuyersOf, Rows, Active
  <2>2. capacity[e] \in Nat
    BY PurchasesAssumption DEF Init
  <2> QED BY <2>1, <2>2, FS_EmptySet
<1>2. IInv /\ SeatsFit /\ [Orderly(Verifiers)]_vars => SeatsFit'
  BY SeatsFitStep
<1>3. IInv /\ SeatsFit => NotOversold
  <2> SUFFICES ASSUME TypeOK, SeatsFit, NEW e \in Events, capacity[e] # None
               PROVE  Cardinality(Occupants(e)) <= capacity[e]
    BY DEF NotOversold, IInv
  <2>1. capacity[e] \in Nat /\ Cardinality(Seats(e)) <= capacity[e]
    BY DEF TypeOK, SeatsFit
  <2> QED BY <2>1, OccupantsSeated, SeatsFinite
<1> QED BY <1>1, <1>2, <1>3, OrderlyIsSpec, SafetyInvariant, PTL DEF OrderlySpec
===============================================================================
