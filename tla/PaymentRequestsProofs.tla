------------------------ MODULE PaymentRequestsProofs ------------------------
(***************************************************************************)
(* Theorems of PaymentRequests for any users, hashes, verifiers, durations  *)
(* and number of requests; of Payments, which puts the event purchases      *)
(* beside them; and of the server process that settles both, for any        *)
(* workers, requests, settings, buffers, probes and times.                 *)
(***************************************************************************)
EXTENDS Payments, ServerLifecycle, TLAPS

-------------------------------------------------------------------------------
(***************************************************************************)
(* Type correctness.  A row is written with the state its verifier carries, *)
(* so the invariant also says that a verifier about to write carries one.   *)
(***************************************************************************)

WritesState == \A v \in Verifiers : jobs[v].step = "writing" => jobs[v].write # None

TInv == TypeOK /\ WritesState

\* A row stays a row when a field is rewritten with a value of its type.
LEMMA RowFields ==
  ASSUME NEW r \in Row
  PROVE  /\ \A x \in Status : [r EXCEPT !.status = x] \in Row
         /\ \A x \in Users : [r EXCEPT !.payer = x] \in Row
         /\ \A x \in Hashes : [r EXCEPT !.hash = x] \in Row
         /\ \A x \in 0..Lifetime : [r EXCEPT !.expires = x] \in Row
         /\ \A x \in 0..Deadline : [r EXCEPT !.deadline = x] \in Row
         /\ \A x \in 0..Interval : [r EXCEPT !.retry = x] \in Row
         /\ \A x \in 0..ClaimDuration : [r EXCEPT !.claim = x] \in Row
BY DEF Row

\* The values the code writes are of their fields' types.
LEMMA RowValues ==
  /\ NoRow \in Row
  /\ {"pending", "submitted", "verifying", "paid", "failed", "expired", "cancelled"}
       \subseteq Status
  /\ Lifetime \in 0..Lifetime
  /\ Deadline \in 0..Deadline
  /\ Interval \in 0..Interval /\ 0 \in 0..Interval
  /\ ClaimDuration \in 0..ClaimDuration /\ 0 \in 0..ClaimDuration
BY RequestsAssumption DEF NoRow, Row, Status

\* The same for the state of a verifier.
LEMMA JobFields ==
  /\ Idle \in Job
  /\ \A j \in Job :
       /\ \A x \in {"calling", "writing", "recalling", "recovering"} :
            [j EXCEPT !.step = x] \in Job
       /\ \A x \in RequestIds : [j EXCEPT !.request = x] \in Job
       /\ \A x \in BOOLEAN : [j EXCEPT !.stale = x] \in Job
       /\ \A x \in {"verifying", "paid", "failed", "expired"} :
            [j EXCEPT !.write = x] \in Job
BY DEF Job, Idle

\* Expiring lapsed rows leaves typed rows.
LEMMA ExpireLapsedType ==
  ASSUME requests \in [RequestIds -> Row], NEW R
  PROVE  ExpireLapsed(R) \in [RequestIds -> Row]
BY RowFields, RowValues DEF ExpireLapsed

\* The creator's and the payers' operations keep every variable in its type.
LEMMA TypeStepUsers ==
  ASSUME TypeOK
  PROVE  /\ \A r \in RequestIds : Create(r) \/ Read(r) \/ Cancel(r) => TypeOK'
         /\ List => TypeOK'
         /\ \A r \in RequestIds, h \in Hashes, u \in Users : SubmitTransaction(r, h, u) => TypeOK'
         /\ \A h \in Hashes : ConsumeElsewhere(h) => TypeOK'
         /\ \A u \in Users : DeleteAccount(u) => TypeOK'
<1> USE DEF TypeOK, TransfersTypeOK, chainVars
<1>1. ASSUME NEW r \in RequestIds, Create(r) PROVE TypeOK'
  <2>1. [NoRow EXCEPT !.status = "pending", !.expires = Lifetime] \in Row
    BY RowFields, RowValues
  <2> QED BY <1>1, <2>1 DEF Create
<1>2. ASSUME NEW r \in RequestIds, Read(r) PROVE TypeOK'
  BY <1>2, ExpireLapsedType DEF Read
<1>3. ASSUME NEW r \in RequestIds, Cancel(r) PROVE TypeOK'
  <2>1. [requests[r] EXCEPT !.status = "cancelled"] \in Row
    BY RowFields, RowValues
  <2> QED BY <1>3, <2>1 DEF Cancel
<1>4. ASSUME List PROVE TypeOK'
  BY <1>4, ExpireLapsedType DEF List
<1>5. ASSUME NEW r \in RequestIds, NEW h \in Hashes, NEW u \in Users, SubmitTransaction(r, h, u)
      PROVE  TypeOK'
  <2>1. [requests[r] EXCEPT !.status = "submitted", !.hash = h, !.payer = u,
                            !.deadline = Deadline, !.retry = 0, !.claim = 0] \in Row
    BY RowFields, RowValues
  <2>2. requests' \in [RequestIds -> Row]
    BY <1>5, <2>1 DEF SubmitTransaction
  <2>3. consumed' \in [Hashes -> Objects \cup {None}]
    BY <1>5 DEF SubmitTransaction, Objects
  <2> QED BY <1>5, <2>2, <2>3 DEF SubmitTransaction
<1>6. ASSUME NEW h \in Hashes, ConsumeElsewhere(h) PROVE TypeOK'
  BY <1>6 DEF ConsumeElsewhere, Objects
<1>7. ASSUME NEW u \in Users, DeleteAccount(u) PROVE TypeOK'
  <2>1. \A r \in RequestIds : [requests[r] EXCEPT !.status = "cancelled"] \in Row
    BY RowFields, RowValues
  <2>2. requests' \in [RequestIds -> Row]
    BY <1>7, <2>1 DEF DeleteAccount
  <2> QED BY <1>7, <2>2 DEF DeleteAccount, RevokeIdentities
<1> QED BY <1>1, <1>2, <1>3, <1>4, <1>5, <1>6, <1>7

\* A verification or a recovery keeps every variable in its type.
LEMMA TypeStepVerifiers ==
  ASSUME TInv, NEW v \in Verifiers
  PROVE  Verify(v) \/ Recovery(v) => TInv'
<1> USE DEF TInv, TypeOK, TransfersTypeOK, chainVars
<1>a. ASSUME NEW j \in Job, jobs' = [jobs EXCEPT ![v] = j],
             j.step = "writing" => j.write # None
      PROVE  jobs' \in [Verifiers -> Job] /\ WritesState'
  BY <1>a DEF WritesState
<1>1. ASSUME NEW r \in RequestIds, Claim(v, r) PROVE TInv'
  <2>1. [requests[r] EXCEPT !.retry = Interval, !.claim = ClaimDuration] \in Row
    BY RowFields, RowValues
  <2>2. requests' \in [RequestIds -> Row]
    BY <1>1, <2>1 DEF Claim
  <2> DEFINE j == [Idle EXCEPT !.step = "calling", !.request = r,
                               !.stale = (requests[r].deadline = 0)]
  <2>3. j \in Job /\ j.step # "writing"
    BY JobFields DEF Idle
  <2>4. jobs' = [jobs EXCEPT ![v] = j]
    BY <1>1 DEF Claim
  <2> HIDE DEF j
  <2> QED BY <1>1, <1>a, <2>2, <2>3, <2>4 DEF Claim
<1>2. ASSUME Answer(v) PROVE TInv'
  <2>1. PICK outcome \in VerifyTransfer(requests[jobs[v].request].hash,
                                        requests[jobs[v].request].payer) :
          LET write == StateFor(outcome, jobs[v].stale) IN
          jobs' = [jobs EXCEPT ![v] =
            IF write = None THEN Idle ELSE [@ EXCEPT !.step = "writing", !.write = write]]
    BY <1>2 DEF Answer
  <2> DEFINE write == StateFor(outcome, jobs[v].stale)
  <2>2. write \in {"verifying", "paid", "failed", "expired", None}
    BY DEF StateFor
  <2>3. CASE write = None
    BY <1>2, <1>a, <2>1, <2>3, JobFields DEF Answer, Idle
  <2>4. CASE write # None
    <3>1. [jobs[v] EXCEPT !.step = "writing", !.write = write] \in Job
      BY <2>2, <2>4, JobFields
    <3>2. [jobs[v] EXCEPT !.step = "writing", !.write = write].write # None
      BY <2>4 DEF Job
    <3>3. jobs' = [jobs EXCEPT ![v] = [jobs[v] EXCEPT !.step = "writing", !.write = write]]
      BY <2>1, <2>4
    <3>4. jobs' \in [Verifiers -> Job] /\ WritesState'
      BY <1>a, <3>1, <3>2, <3>3
    <3> QED BY <1>2, <3>4 DEF Answer
  <2> QED BY <2>3, <2>4
<1>3. ASSUME jobs' = [jobs EXCEPT ![v] = Idle]
      PROVE  jobs' \in [Verifiers -> Job] /\ WritesState'
  BY <1>3, <1>a, JobFields DEF Idle
<1>4. ASSUME Persist(v) PROVE TInv'
  <2>1. jobs[v].write \in {"verifying", "paid", "failed", "expired"}
    BY <1>4 DEF Persist, WritesState, Job
  <2>2. \A r \in RequestIds : [requests[r] EXCEPT !.status = jobs[v].write, !.claim = 0] \in Row
    BY <2>1, RowFields, RowValues
  <2>3. requests' \in [RequestIds -> Row]
    BY <1>4, <2>2 DEF Persist
  <2> QED BY <1>3, <1>4, <2>3 DEF Persist
<1>5. ASSUME Abandon(v) PROVE TInv'
  BY <1>3, <1>5 DEF Abandon
<1>6. ASSUME NEW r \in RequestIds, Recover(v, r) PROVE TInv'
  <2> DEFINE j == [Idle EXCEPT !.step = "recalling", !.request = r]
  <2>1. j \in Job /\ j.step # "writing"
    BY JobFields DEF Idle
  <2>2. jobs' = [jobs EXCEPT ![v] = j]
    BY <1>6 DEF Recover
  <2> HIDE DEF j
  <2> QED BY <1>6, <1>a, <2>1, <2>2 DEF Recover
<1>7. ASSUME RecoverAnswer(v) PROVE TInv'
  <2>1. [jobs[v] EXCEPT !.step = "recovering"] \in Job
    BY JobFields
  <2>2. [jobs[v] EXCEPT !.step = "recovering"].step # "writing"
    BY DEF Job
  <2>3. jobs' \in [Verifiers -> Job] /\ WritesState'
    BY <1>3, <1>7, <1>a, <2>1, <2>2 DEF RecoverAnswer
  <2> QED BY <1>7, <2>3 DEF RecoverAnswer
<1>8. ASSUME ConfirmRecovery(v) PROVE TInv'
  <2>1. \A r \in RequestIds : [requests[r] EXCEPT !.status = "paid", !.claim = 0] \in Row
    BY RowFields, RowValues
  <2>2. requests' \in [RequestIds -> Row]
    BY <1>8, <2>1 DEF ConfirmRecovery
  <2> QED BY <1>3, <1>8, <2>2 DEF ConfirmRecovery
<1> QED BY <1>1, <1>2, <1>4, <1>5, <1>6, <1>7, <1>8 DEF Verify, Recovery

\* The clock and the chain keep every variable in its type.
LEMMA TypeStepWorld ==
  ASSUME TypeOK PROVE (Tick => TypeOK') /\ (ChainMoves => TypeOK')
<1> USE DEF TypeOK, TransfersTypeOK, chainVars
<1>1. ASSUME Tick PROVE TypeOK'
  <2>1. \A n \in Nat : \A t \in 0..n : Less(t) \in 0..n
    BY DEF Less
  <2>2. ASSUME NEW r \in RequestIds
        PROVE  [requests[r] EXCEPT !.expires = Less(@), !.deadline = Less(@),
                                   !.retry = Less(@), !.claim = Less(@)] \in Row
    <3>1. /\ requests[r].expires \in 0..Lifetime
          /\ requests[r].deadline \in 0..Deadline
          /\ requests[r].retry \in 0..Interval
          /\ requests[r].claim \in 0..ClaimDuration
      BY DEF Row
    <3>2. /\ Less(requests[r].expires) \in 0..Lifetime
          /\ Less(requests[r].deadline) \in 0..Deadline
          /\ Less(requests[r].retry) \in 0..Interval
          /\ Less(requests[r].claim) \in 0..ClaimDuration
      BY <2>1, <3>1, RequestsAssumption
    <3> QED BY <3>2, RowFields
  <2>3. requests' \in [RequestIds -> Row]
    BY <1>1, <2>2 DEF Tick
  <2> QED BY <1>1, <2>3 DEF Tick
<1>2. ASSUME ChainMoves PROVE TypeOK'
  BY <1>2 DEF ChainMoves, Broadcast, Mine, MacroBlock, Phase
<1> QED BY <1>1, <1>2

\* Every step keeps every variable in its type.
LEMMA TypeStep == TInv /\ [Next]_vars => TInv'
<1> SUFFICES ASSUME TInv, [Next]_vars PROVE TInv'
  OBVIOUS
<1>1. ASSUME NEW v \in Verifiers, Verify(v) \/ Recovery(v) PROVE TInv'
  BY <1>1, TypeStepVerifiers
<1>2. ASSUME jobs' = jobs PROVE WritesState'
  BY <1>2 DEF TInv, WritesState
<1>3. CASE \/ \E r \in RequestIds : Create(r) \/ Read(r) \/ Cancel(r)
           \/ List
           \/ \E r \in RequestIds, h \in Hashes, u \in Users : SubmitTransaction(r, h, u)
           \/ \E h \in Hashes : ConsumeElsewhere(h)
           \/ \E u \in Users : DeleteAccount(u)
  <2>1. TypeOK'
    BY <1>3, TypeStepUsers DEF TInv
  <2>2. jobs' = jobs
    BY <1>3 DEF Create, Read, Cancel, List, SubmitTransaction, ConsumeElsewhere, DeleteAccount
  <2> QED BY <1>2, <2>1, <2>2 DEF TInv
<1>4. CASE ChainMoves \/ Tick
  <2>1. TypeOK'
    BY <1>4, TypeStepWorld DEF TInv
  <2>2. jobs' = jobs
    BY <1>4 DEF ChainMoves, Tick
  <2> QED BY <1>2, <2>1, <2>2 DEF TInv
<1>5. CASE UNCHANGED vars
  BY <1>2, <1>5 DEF TInv, vars, TypeOK, TransfersTypeOK
<1> QED BY <1>1, <1>3, <1>4, <1>5 DEF Next, Own, Surroundings, Request

\* The database starts well typed: no rows, no hash consumed, idle verifiers.
LEMMA InitTInv == Init => TInv
<1> SUFFICES ASSUME Init PROVE TInv
  OBVIOUS
<1>1. TransfersTypeOK
  BY DEF Init, TransfersInit, TransfersTypeOK, Phase
<1>2. requests \in [RequestIds -> Row] /\ jobs \in [Verifiers -> Job]
  BY RowValues, JobFields DEF Init
<1>3. consumed \in [Hashes -> Objects \cup {None}]
  BY DEF Init
<1>4. WritesState
  BY DEF Init, Idle, WritesState
<1> QED BY <1>1, <1>2, <1>3, <1>4 DEF TInv, TypeOK

\* Every reachable state is well typed.
THEOREM TypeCorrect == Spec => []TypeOK
<1>1. TInv => TypeOK
  BY DEF TInv
<1> QED BY <1>1, InitTInv, TypeStep, PTL DEF Spec
-------------------------------------------------------------------------------
(***************************************************************************)
(* What one step can do to a row, to the store of consumed hashes, to the   *)
(* chain: the rest of the safety argument speaks of these effects only.     *)
(***************************************************************************)

\* The payer and the hash of a row.
Kept(old, new) == new.hash = old.hash /\ new.payer = old.payer

\* Verifier v is about to mark the request of its job paid.
Deciding(v) ==
  \/ jobs[v].step = "writing" /\ jobs[v].write = "paid"
  \/ jobs[v].step = "recovering"

\* Verifier v marks request r paid in this step.
Pays(v, r) ==
  /\ jobs[v].request = r /\ Deciding(v)
  /\ requests[r].status \in Unresolved \cup {"expired"} /\ requests[r].hash # None
  /\ requests' = [requests EXCEPT ![r] = [@ EXCEPT !.status = "paid", !.claim = 0]]
  /\ UNCHANGED <<chainVars, consumed>>

RowStep(r) ==
  LET old == requests[r]
      new == requests'[r] IN
  \/ new.status = old.status /\ Kept(old, new)
  \/ old.status = "none" /\ new.status = "pending" /\ new.hash = None /\ new.payer = None
  \/ old.status = "pending" /\ new.status \in {"expired", "cancelled"} /\ Kept(old, new)
  \/ /\ old.status = "pending" /\ new.status = "submitted"
     /\ new.hash \in Hashes /\ new.payer \in Users
     /\ consumed'[new.hash] = RequestObject(r)
  \/ /\ old.status \in Unresolved /\ new.status \in {"verifying", "failed", "expired"}
     /\ Kept(old, new)
  \/ /\ old.status \in Unresolved \cup {"expired"} /\ new.status = "paid"
     /\ Kept(old, new)
     /\ \E v \in Verifiers : Pays(v, r)

ConsumedStep ==
  /\ \A h \in Hashes : consumed[h] # None => consumed'[h] = consumed[h]
  /\ \/ consumed' = consumed
     \/ \E r \in RequestIds, h \in Hashes, u \in Users : SubmitTransaction(r, h, u)
     \/ \E h \in Hashes : ConsumeElsewhere(h)

ChainStep == \A h \in Hashes : chain[h] = "final" => chain'[h] = "final"

\* A row in the table has a payer and a hash exactly when somebody submitted one.
RowShape ==
  \A r \in RequestIds :
    LET row == requests[r] IN
    /\ row.hash = None <=> row.payer = None
    /\ row.status \in {"none", "pending", "cancelled"} => row.hash = None
    /\ row.status \in Unresolved \cup {"paid", "failed"} => row.hash # None

\* A verifier works on a request with a hash, and is about to mark it paid only
\* when its transfer has settled for its payer.
JobsHonest ==
  \A v \in Verifiers :
    LET row == requests[jobs[v].request] IN
    jobs[v].step # "idle" =>
      /\ jobs[v].request \in RequestIds
      /\ row.hash # None
      /\ Deciding(v) => Settled(row.hash, row.payer)

\* Expiring lapsed rows takes pending ones to expired and touches no other.
LEMMA ExpireLapsedEffect ==
  ASSUME requests \in [RequestIds -> Row], NEW R, NEW r \in RequestIds,
         requests' = ExpireLapsed(R)
  PROVE  RowStep(r)
BY DEF ExpireLapsed, Lapsed, RowStep, Kept, Row

\* Every row of every step changes in one of these ways.
LEMMA RowSteps ==
  TInv /\ RowShape /\ JobsHonest /\ [Next]_vars => \A r \in RequestIds : RowStep(r)
<1> SUFFICES ASSUME TInv, RowShape, JobsHonest, [Next]_vars, NEW q \in RequestIds
             PROVE  RowStep(q)
  OBVIOUS
<1>0. requests \in [RequestIds -> Row] /\ requests[q] \in Row
  BY DEF TInv, TypeOK
<1>a. ASSUME requests' = requests PROVE RowStep(q)
  BY <1>a DEF RowStep, Kept
<1>1. ASSUME NEW r \in RequestIds, Create(r) PROVE RowStep(q)
  <2> DEFINE row == [NoRow EXCEPT !.status = "pending", !.expires = Lifetime]
  <2>1. row.status = "pending" /\ row.hash = None /\ row.payer = None
    BY DEF NoRow
  <2>2. requests' = [requests EXCEPT ![r] = row] /\ requests[r].status = "none"
    BY <1>1 DEF Create
  <2> HIDE DEF row
  <2> QED BY <1>0, <2>1, <2>2 DEF RowStep, Kept
<1>2. ASSUME NEW r \in RequestIds, Read(r) PROVE RowStep(q)
  BY <1>0, <1>2, ExpireLapsedEffect DEF Read
<1>3. ASSUME List PROVE RowStep(q)
  BY <1>0, <1>3, ExpireLapsedEffect DEF List
<1>4. ASSUME NEW r \in RequestIds, Cancel(r) PROVE RowStep(q)
  BY <1>0, <1>4 DEF Cancel, Cancellable, RowStep, Kept, Row
<1>5. ASSUME NEW r \in RequestIds, NEW h \in Hashes, NEW u \in Users, SubmitTransaction(r, h, u)
      PROVE  RowStep(q)
  <2> DEFINE row == [requests[r] EXCEPT !.status = "submitted", !.hash = h, !.payer = u,
                                        !.deadline = Deadline, !.retry = 0, !.claim = 0]
  <2>1. row.status = "submitted" /\ row.hash = h /\ row.payer = u
    BY <1>0 DEF Row
  <2>2. /\ requests' = [requests EXCEPT ![r] = row] /\ requests[r].status = "pending"
        /\ consumed'[h] = RequestObject(r)
    BY <1>5 DEF SubmitTransaction, TInv, TypeOK
  <2> HIDE DEF row
  <2> QED BY <1>0, <2>1, <2>2 DEF RowStep, Kept
<1>6. ASSUME NEW h \in Hashes, ConsumeElsewhere(h) PROVE RowStep(q)
  BY <1>6, <1>a DEF ConsumeElsewhere
<1>7. ASSUME NEW u \in Users, DeleteAccount(u) PROVE RowStep(q)
  BY <1>0, <1>7 DEF DeleteAccount, RowStep, Kept, Row
<1>8. ASSUME NEW v \in Verifiers, Verify(v) PROVE RowStep(q)
  <2>1. ASSUME NEW r \in RequestIds, Claim(v, r) PROVE RowStep(q)
    BY <1>0, <2>1 DEF Claim, RowStep, Kept, Row
  <2>2. ASSUME Answer(v) \/ Abandon(v) PROVE RowStep(q)
    BY <1>a, <2>2 DEF Answer, Abandon
  <2>3. ASSUME Persist(v) PROVE RowStep(q)
    <3> DEFINE r == jobs[v].request
    <3>1. /\ r \in RequestIds /\ requests[r].hash # None
          /\ jobs[v].write \in {"verifying", "paid", "failed", "expired"}
      BY <2>3 DEF Persist, JobsHonest, TInv, TypeOK, WritesState, Job
    <3>2. CASE requests' = requests
      BY <1>a, <3>2
    <3>3. CASE requests' # requests
      <4>1. /\ requests[r].status \in Unresolved
            /\ requests' = [requests EXCEPT ![r] = [@ EXCEPT !.status = jobs[v].write, !.claim = 0]]
        BY <2>3, <3>3 DEF Persist, Open
      <4>2. CASE q = r /\ jobs[v].write = "paid"
        <5>1. Pays(v, q)
          BY <2>3, <3>1, <4>1, <4>2 DEF Persist, Pays, Deciding
        <5> QED BY <1>0, <4>1, <4>2, <5>1 DEF RowStep, Kept, Row
      <4>3. CASE q = r /\ jobs[v].write # "paid"
        BY <1>0, <3>1, <4>1, <4>3 DEF RowStep, Kept, Row
      <4>4. CASE q # r
        BY <1>0, <4>1, <4>4 DEF RowStep, Kept
      <4> QED BY <4>2, <4>3, <4>4
    <3> QED BY <3>2, <3>3
  <2> QED BY <1>8, <2>1, <2>2, <2>3 DEF Verify
<1>9. ASSUME NEW v \in Verifiers, Recovery(v) PROVE RowStep(q)
  <2>1. CASE ConfirmRecovery(v) /\ requests' # requests
    <3> DEFINE r == jobs[v].request
    <3>1. /\ requests[r].status = "expired"
          /\ Pays(v, r)
      BY <2>1 DEF ConfirmRecovery, Pays, Deciding
    <3>2. r \in RequestIds
      BY <2>1 DEF ConfirmRecovery, JobsHonest
    <3>3. CASE q = r
      BY <1>0, <3>1, <3>3 DEF Pays, RowStep, Kept, Row
    <3>4. CASE q # r
      BY <1>0, <3>1, <3>4 DEF Pays, RowStep, Kept
    <3> QED BY <3>3, <3>4
  <2>2. CASE requests' = requests
    BY <1>a, <2>2
  <2> QED BY <1>9, <2>1, <2>2 DEF Recovery, Recover, RecoverAnswer
<1>10. ASSUME ChainMoves PROVE RowStep(q)
  BY <1>10, <1>a DEF ChainMoves
<1>11. ASSUME Tick PROVE RowStep(q)
  BY <1>0, <1>11 DEF Tick, RowStep, Kept, Row
<1>12. ASSUME UNCHANGED vars PROVE RowStep(q)
  BY <1>12, <1>a DEF vars
<1> QED
  BY <1>1, <1>2, <1>3, <1>4, <1>5, <1>6, <1>7, <1>8, <1>9, <1>10, <1>11, <1>12
  DEF Next, Own, Surroundings, Request

\* A consumed hash is never given to anybody else, and a final transfer stays so.
LEMMA StoreSteps == TypeOK /\ [Next]_vars => ConsumedStep /\ ChainStep
<1> SUFFICES ASSUME TypeOK, [Next]_vars PROVE ConsumedStep /\ ChainStep
  OBVIOUS
<1>1. ConsumedStep
  <2>1. ASSUME NEW r \in RequestIds, NEW h \in Hashes, NEW u \in Users, SubmitTransaction(r, h, u)
        PROVE  ConsumedStep
    BY <2>1 DEF SubmitTransaction, Unconsumed, ConsumedStep, TypeOK
  <2>2. ASSUME NEW h \in Hashes, ConsumeElsewhere(h) PROVE ConsumedStep
    BY <2>2 DEF ConsumeElsewhere, Unconsumed, ConsumedStep, TypeOK
  <2>3. ASSUME consumed' = consumed PROVE ConsumedStep
    BY <2>3 DEF ConsumedStep
  <2> QED
    BY <2>1, <2>2, <2>3
       DEF Next, Own, Surroundings, Request, Verify, Recovery, Create, Read, List, Cancel,
           DeleteAccount, Claim, Answer,
           Persist, Abandon, Recover, RecoverAnswer, ConfirmRecovery, ChainMoves, Tick, vars
<1>2. ChainStep
  <2>1. CASE ChainMoves
    BY <2>1 DEF ChainMoves, Broadcast, Mine, MacroBlock, ChainStep, TypeOK, TransfersTypeOK
  <2>2. ASSUME chain' = chain PROVE ChainStep
    BY <2>2 DEF ChainStep
  <2> QED
    BY <2>1, <2>2
       DEF Next, Own, Surroundings, Request, Verify, Recovery, Create, Read, List, Cancel,
           SubmitTransaction,
           ConsumeElsewhere, DeleteAccount, RevokeIdentities, Claim, Answer, Persist,
           Abandon, Recover, RecoverAnswer, ConfirmRecovery, Tick, chainVars, vars
<1> QED BY <1>1, <1>2
-------------------------------------------------------------------------------
(***************************************************************************)
(* The inductive invariant of the safety theorems.                         *)
(***************************************************************************)

IInv == TInv /\ RowShape /\ JobsHonest /\ HashReserved /\ PaidMeansSettled

\* A hash and its payer are for good, and what has settled stays settled.
LEMMA SettledForGood ==
  ASSUME TInv, RowShape, JobsHonest, [Next]_vars, NEW r \in RequestIds, requests[r].hash # None
  PROVE  /\ requests'[r].hash = requests[r].hash
         /\ requests'[r].payer = requests[r].payer
         /\ Settled(requests[r].hash, requests[r].payer)
              => Settled(requests[r].hash, requests[r].payer)'
<1>1. RowStep(r) /\ ChainStep
  BY RowSteps, StoreSteps DEF TInv
<1>2. requests[r].hash \in Hashes
  BY DEF TInv, TypeOK, Row
<1>3. requests[r].status \notin {"none", "pending"}
  BY DEF RowShape
<1>4. Kept(requests[r], requests'[r])
  BY <1>1, <1>3 DEF RowStep
<1> QED BY <1>1, <1>2, <1>4 DEF Kept, Settled, ChainStep

\* Every step keeps rows in shape: a submitted row has its hash and its payer.
LEMMA RowShapeStep == TInv /\ RowShape /\ JobsHonest /\ [Next]_vars => RowShape'
<1> SUFFICES ASSUME TInv, RowShape, JobsHonest, [Next]_vars, NEW r \in RequestIds
             PROVE  LET row == requests'[r] IN
                    /\ row.hash = None <=> row.payer = None
                    /\ row.status \in {"none", "pending", "cancelled"} => row.hash = None
                    /\ row.status \in Unresolved \cup {"paid", "failed"} => row.hash # None
  BY DEF RowShape
<1>1. RowStep(r)
  BY RowSteps
<1>2. None \notin Hashes /\ None \notin Users
  BY TransfersAssumption
<1>3. (\E v \in Verifiers : Pays(v, r)) => requests[r].hash # None
  BY DEF Pays
<1> QED BY <1>1, <1>2, <1>3 DEF RowStep, RowShape, Kept, Unresolved

\* VerifyTransfer answers "confirmed" only for a transfer that has settled.
LEMMA ConfirmedMeansSettled ==
  ASSUME TypeOK, NEW h \in Hashes, NEW u, "confirmed" \in VerifyTransfer(h, u)
  PROVE  Settled(h, u)
BY DEF VerifyTransfer, Verdict, SenderMatches, Settled, TypeOK, TransfersTypeOK, Phase

\* How the job of a verifier changes in one step: not at all, to idle, or to a
\* job that is honest about the rows as they are.
JobStep(v) ==
  LET row == requests[jobs'[v].request] IN
  \/ jobs'[v] = jobs[v]
  \/ jobs'[v].step = "idle"
  \/ /\ jobs'[v].request \in RequestIds
     /\ row.hash # None
     /\ Deciding(v)' => Settled(row.hash, row.payer)

\* A verifier that is told "confirmed" has seen the transfer settle; nothing else
\* makes it decide to mark a request paid.
LEMMA JobSteps ==
  TInv /\ RowShape /\ JobsHonest /\ [Next]_vars => \A v \in Verifiers : JobStep(v)
<1> SUFFICES ASSUME TInv, RowShape, JobsHonest, [Next]_vars, NEW x \in Verifiers
             PROVE  JobStep(x)
  OBVIOUS
<1>0. jobs \in [Verifiers -> Job] /\ jobs[x] \in Job
  BY DEF TInv, TypeOK
<1>a. ASSUME jobs' = jobs PROVE JobStep(x)
  BY <1>a DEF JobStep
<1>b. ASSUME NEW v \in Verifiers, jobs' = [jobs EXCEPT ![v] = Idle] PROVE JobStep(x)
  BY <1>0, <1>b DEF Idle, JobStep
<1>1. ASSUME NEW v \in Verifiers, NEW r \in RequestIds, Claim(v, r) PROVE JobStep(x)
  <2>1. requests[r].hash # None
    BY <1>1 DEF Claim, RowShape
  <2>2. jobs' = [jobs EXCEPT ![v] = [Idle EXCEPT !.step = "calling", !.request = r,
                                                  !.stale = (requests[r].deadline = 0)]]
    BY <1>1 DEF Claim
  <2> QED BY <1>0, <2>1, <2>2 DEF JobStep, Deciding, Idle
<1>2. ASSUME NEW v \in Verifiers, Answer(v) PROVE JobStep(x)
  <2> DEFINE row == requests[jobs[v].request]
             write(o) == StateFor(o, jobs[v].stale)
  <2>1. /\ jobs[v].step = "calling"
        /\ jobs[v].request \in RequestIds /\ row.hash # None
    BY <1>2 DEF Answer, JobsHonest
  <2>2. row.hash \in Hashes
    BY <2>1 DEF TInv, TypeOK, Row
  <2>3. PICK outcome \in VerifyTransfer(row.hash, row.payer) :
          jobs' = [jobs EXCEPT ![v] =
            IF write(outcome) = None THEN Idle
            ELSE [@ EXCEPT !.step = "writing", !.write = write(outcome)]]
    BY <1>2 DEF Answer
  <2>4. CASE write(outcome) = None
    BY <1>b, <2>3, <2>4
  <2>5. CASE write(outcome) # None
    <3>1. jobs' = [jobs EXCEPT ![v] =
            [jobs[v] EXCEPT !.step = "writing", !.write = write(outcome)]]
      BY <2>3, <2>5
    <3>2. /\ jobs'[v].request = jobs[v].request
          /\ jobs'[v].step = "writing"
          /\ jobs'[v].write = write(outcome)
      BY <1>0, <3>1 DEF TInv, TypeOK, Job
    <3>3. write(outcome) = "paid" => outcome = "confirmed"
      BY TransfersAssumption, <2>5 DEF StateFor
    <3>4. Deciding(v)' => Settled(row.hash, row.payer)
      BY <2>2, <3>2, <3>3, ConfirmedMeansSettled DEF Deciding, TInv
    <3>5. CASE x = v
      BY <2>1, <3>2, <3>4, <3>5 DEF JobStep
    <3>6. CASE x # v
      BY <1>0, <3>1, <3>6 DEF JobStep
    <3> QED BY <3>5, <3>6
  <2> QED BY <2>4, <2>5
<1>3. ASSUME NEW v \in Verifiers, Persist(v) \/ Abandon(v) \/ ConfirmRecovery(v) PROVE JobStep(x)
  BY <1>3, <1>b DEF Persist, Abandon, ConfirmRecovery
<1>4. ASSUME NEW v \in Verifiers, NEW r \in RequestIds, Recover(v, r) PROVE JobStep(x)
  BY <1>0, <1>4 DEF Recover, JobStep, Deciding, Idle
<1>5. ASSUME NEW v \in Verifiers, RecoverAnswer(v) PROVE JobStep(x)
  <2> DEFINE row == requests[jobs[v].request]
  <2>1. /\ jobs[v].step = "recalling"
        /\ jobs[v].request \in RequestIds /\ row.hash # None
    BY <1>5 DEF RecoverAnswer, JobsHonest
  <2>2. row.hash \in Hashes
    BY <2>1 DEF TInv, TypeOK, Row
  <2>3. PICK outcome \in VerifyTransfer(row.hash, row.payer) :
          jobs' = [jobs EXCEPT ![v] =
            IF outcome = "confirmed" THEN [@ EXCEPT !.step = "recovering"] ELSE Idle]
    BY <1>5 DEF RecoverAnswer
  <2>4. CASE outcome = "confirmed"
    <3>1. Settled(row.hash, row.payer)
      BY <2>2, <2>4, ConfirmedMeansSettled DEF TInv
    <3>2. jobs' = [jobs EXCEPT ![v] = [jobs[v] EXCEPT !.step = "recovering"]]
      BY <2>3, <2>4
    <3>3. jobs'[v].request = jobs[v].request
      BY <1>0, <3>2 DEF TInv, TypeOK, Job
    <3> QED BY <1>0, <2>1, <3>1, <3>2, <3>3 DEF JobStep
  <2>5. CASE outcome # "confirmed"
    BY <1>b, <2>3, <2>5
  <2> QED BY <2>4, <2>5
<1> QED
  BY <1>a, <1>1, <1>2, <1>3, <1>4, <1>5
     DEF Next, Own, Surroundings, Request, Verify, Recovery, Create, Read, List, Cancel,
         SubmitTransaction,
         ConsumeElsewhere, DeleteAccount, ChainMoves, Tick, vars

\* Every step keeps the jobs honest: what a verifier has decided stays true of its
\* row until the verifier writes it, whoever touches the row in between.
LEMMA JobsHonestStep == TInv /\ RowShape /\ JobsHonest /\ [Next]_vars => JobsHonest'
<1> SUFFICES ASSUME TInv, RowShape, JobsHonest, [Next]_vars, NEW v \in Verifiers,
                    jobs'[v].step # "idle"
             PROVE  (LET row == requests[jobs[v].request] IN
                     /\ jobs[v].request \in RequestIds
                     /\ row.hash # None
                     /\ Deciding(v) => Settled(row.hash, row.payer))'
  BY DEF JobsHonest
<1>1. PICK r \in RequestIds :
        /\ r = jobs'[v].request
        /\ requests[r].hash # None
        /\ Deciding(v)' => Settled(requests[r].hash, requests[r].payer)
  BY JobSteps DEF JobStep, JobsHonest, Deciding
<1>2. /\ requests'[r].hash = requests[r].hash
      /\ requests'[r].payer = requests[r].payer
      /\ Settled(requests[r].hash, requests[r].payer)
           => Settled(requests[r].hash, requests[r].payer)'
  BY <1>1, SettledForGood
<1> QED BY <1>1, <1>2 DEF Settled

\* No step gives a hash a request holds to anybody else.
LEMMA HashReservedStep == IInv /\ [Next]_vars => HashReserved'
<1> SUFFICES ASSUME IInv, [Next]_vars, NEW r \in RequestIds, requests'[r].hash # None
             PROVE  consumed'[requests'[r].hash] = RequestObject(r)
  BY DEF HashReserved
<1>1. RowStep(r) /\ ConsumedStep
  BY RowSteps, StoreSteps DEF IInv, TInv
<1>2. CASE requests[r].hash # None
  <2>1. requests'[r].hash = requests[r].hash
    BY <1>2, SettledForGood DEF IInv
  <2>2. requests[r].hash \in Hashes /\ consumed[requests[r].hash] = RequestObject(r)
    BY <1>2 DEF IInv, HashReserved, TInv, TypeOK, Row
  <2>3. RequestObject(r) # None
    BY RequestObjectsAssumption DEF Objects
  <2> QED BY <1>1, <2>1, <2>2, <2>3 DEF ConsumedStep
<1>3. CASE requests[r].hash = None
  BY <1>1, <1>3 DEF RowStep, Kept
<1> QED BY <1>2, <1>3

\* No step marks a request paid whose transfer has not settled.
LEMMA PaidStep == IInv /\ [Next]_vars => PaidMeansSettled'
<1> SUFFICES ASSUME IInv, [Next]_vars, NEW r \in RequestIds, requests'[r].status = "paid"
             PROVE  (requests[r].hash # None /\ Settled(requests[r].hash, requests[r].payer))'
  BY DEF PaidMeansSettled
<1>1. RowStep(r)
  BY RowSteps DEF IInv
<1>2. requests[r].hash # None /\ Settled(requests[r].hash, requests[r].payer)
  BY <1>1 DEF IInv, RowStep, Pays, PaidMeansSettled, JobsHonest, Deciding
<1>3. /\ requests'[r].hash = requests[r].hash
      /\ requests'[r].payer = requests[r].payer
      /\ Settled(requests[r].hash, requests[r].payer)'
  BY <1>2, SettledForGood DEF IInv
<1> QED BY <1>2, <1>3 DEF Settled

\* The invariant holds of the empty database.
LEMMA InitIInv == Init => IInv
<1> SUFFICES ASSUME Init PROVE IInv
  OBVIOUS
<1>1. RowShape /\ HashReserved /\ PaidMeansSettled
  BY DEF Init, NoRow, RowShape, HashReserved, PaidMeansSettled, Unresolved
<1>2. JobsHonest
  BY DEF Init, Idle, JobsHonest
<1> QED BY <1>1, <1>2, InitTInv DEF IInv

\* The invariant holds in every reachable state.
THEOREM SafetyInvariant == Spec => []IInv
<1>1. IInv /\ [Next]_vars => IInv'
  BY TypeStep, RowShapeStep, JobsHonestStep, HashReservedStep, PaidStep DEF IInv
<1> QED BY <1>1, InitIInv, PTL DEF Spec

\* One transfer never pays for two objects: a hash a request took stays
\* reserved for that request in consumed_nimiq_transactions.
THEOREM HashStaysReserved == Spec => []HashReserved
<1>1. IInv => HashReserved
  BY DEF IInv
<1> QED BY <1>1, SafetyInvariant, PTL

\* Whatever verifiers race, stall or crash: only a request whose transfer has
\* settled for its payer is ever paid.
THEOREM NothingUnpaidPaid == Spec => []PaidMeansSettled
<1>1. IInv => PaidMeansSettled
  BY DEF IInv
<1> QED BY <1>1, SafetyInvariant, PTL

\* Neither the creator nor the deletion of the creator's account ever cancels a
\* request whose payer got a hash accepted; nothing is paid without one.
THEOREM AcceptedHashesBind == Spec => []AcceptedHashBinds
<1>1. IInv => AcceptedHashBinds
  BY DEF IInv, RowShape, AcceptedHashBinds
<1> QED BY <1>1, SafetyInvariant, PTL

\* Late, duplicated and stale results never undo a decision: every step takes a
\* row along Edges and leaves its hash and payer alone.
THEOREM OnlyForward == Spec => Lifecycle
<1>1. ASSUME IInv, [Next]_vars
      PROVE  \A r \in RequestIds : AlongEdges(requests[r], requests'[r])
  <2> SUFFICES ASSUME NEW r \in RequestIds PROVE AlongEdges(requests[r], requests'[r])
    OBVIOUS
  <2>1. RowStep(r)
    BY <1>1, RowSteps DEF IInv
  <2>2. requests[r].hash # None =>
          requests'[r].hash = requests[r].hash /\ requests'[r].payer = requests[r].payer
    BY <1>1, SettledForGood DEF IInv
  <2>3. requests'[r].status # requests[r].status
          => <<requests[r].status, requests'[r].status>> \in Edges
    BY <2>1 DEF RowStep, Unresolved, Edges
  <2>4. requests[r].status = "expired" => requests'[r].hash = requests[r].hash
    BY <2>1 DEF RowStep, Kept, Unresolved
  <2> QED BY <2>2, <2>3, <2>4 DEF AlongEdges
<1>2. IInv /\ [Next]_vars
        => [\A r \in RequestIds : AlongEdges(requests[r], requests'[r])]_vars
  BY <1>1
<1> QED BY <1>2, SafetyInvariant, PTL DEF Spec, Lifecycle
-------------------------------------------------------------------------------
(***************************************************************************)
(* The refinement of PaymentLedger.                                        *)
(***************************************************************************)

\* SettledFor, pair by pair.
LEMMA SettledForPairs ==
  ASSUME NEW h \in Hashes, NEW r \in RequestIds
  PROVE  <<h, RequestObject(r)>> \in SettledFor <=> Settled(h, requests[r].payer)
BY DEF SettledFor, RequestObject

\* What has settled are pairs of a transfer and an object of the store.
LEMMA SettledForShape == SettledFor \in SUBSET (Hashes \X Objects)
BY DEF SettledFor, Objects

\* What has settled for a request stays settled for it; a request that is
\* submitted may find its transfer settled already.
LEMMA SettledForGrows == IInv /\ [Next]_vars => Ledger!MoreSettles
<1>1. ASSUME IInv, [Next]_vars, NEW h \in Hashes, NEW r \in RequestIds,
             Settled(h, requests[r].payer)
      PROVE  Settled(h, requests[r].payer)'
  <2>1. requests[r].payer \in Users
    BY <1>1, TransfersAssumption DEF Settled
  <2>2. requests[r].hash # None
    BY <1>1, <2>1, TransfersAssumption DEF IInv, RowShape
  <2>3. requests'[r].payer = requests[r].payer
    BY <1>1, <2>2, SettledForGood DEF IInv
  <2>4. ChainStep
    BY <1>1, StoreSteps DEF IInv, TInv
  <2> QED BY <1>1, <2>3, <2>4 DEF Settled, ChainStep
<1>2. IInv /\ [Next]_vars => SettledFor \subseteq SettledFor'
  BY <1>1 DEF SettledFor, RequestObject
<1>3. SettledFor' \in SUBSET (Hashes \X Objects)
  BY SettledForShape DEF SettledFor, Objects
<1> QED BY <1>2, <1>3 DEF Ledger!MoreSettles

\* Every step of the requests is a step of the ledger, or none: submission and a
\* purchase spend, the chain settles, verification and recovery grant.
LEMMA RefinementStep == IInv /\ [Next]_vars => [Ledger!Next]_(Ledger!ledgerVars)
<1> SUFFICES ASSUME IInv, [Next]_vars PROVE [Ledger!Next]_(Ledger!ledgerVars)
  OBVIOUS
<1>0. /\ TypeOK /\ \A r \in RequestIds : requests[r] \in Row
      /\ Ledger!MoreSettles
      /\ ConsumedStep /\ \A r \in RequestIds : RowStep(r)
  BY SettledForGrows, StoreSteps, RowSteps DEF IInv, TInv, TypeOK
<1>a. ASSUME \A q \in RequestIds : requests'[q].status = "paid" <=> requests[q].status = "paid"
      PROVE  Granted' = Granted
  BY <1>a DEF Granted
<1>1. ASSUME NEW r \in RequestIds, NEW h \in Hashes, NEW u \in Users, SubmitTransaction(r, h, u)
      PROVE  Ledger!Spend(h, RequestObject(r))
  <2>1. \A q \in RequestIds : requests'[q].status = "paid" <=> requests[q].status = "paid"
    BY <1>0, <1>1 DEF SubmitTransaction, TypeOK, Row
  <2> QED BY <1>0, <1>1, <1>a, <2>1 DEF SubmitTransaction, Unconsumed, Ledger!Spend
<1>2. ASSUME NEW h \in Hashes, ConsumeElsewhere(h)
      PROVE  \E o \in Objects : Ledger!Spend(h, o)
  <2>1. Granted' = Granted
    BY <1>2, <1>a DEF ConsumeElsewhere
  <2> QED BY <1>0, <1>2, <2>1 DEF ConsumeElsewhere, Unconsumed, Objects, Ledger!Spend
<1>3. ASSUME NEW v \in Verifiers, NEW r \in RequestIds, Pays(v, r)
      PROVE  \E h \in Hashes, o \in Objects : Ledger!Grant(h, o)
  <2> DEFINE h == requests[r].hash
  <2>1. h \in Hashes /\ consumed[h] = RequestObject(r) /\ Settled(h, requests[r].payer)
    BY <1>0, <1>3 DEF Pays, IInv, HashReserved, JobsHonest, Deciding, Row
  <2>2. <<h, RequestObject(r)>> \in SettledFor
    BY <2>1, SettledForPairs
  <2>3. \A q \in RequestIds :
          /\ requests'[q].payer = requests[q].payer
          /\ requests'[q].status = "paid" <=> requests[q].status = "paid" \/ q = r
    BY <1>0, <1>3 DEF Pays, TypeOK, Row
  <2>4. SettledFor' = SettledFor
    BY <1>3, <2>3 DEF Pays, chainVars, SettledFor, Settled, RequestObject
  <2>5. Granted' = Granted \cup {RequestObject(r)}
    BY <2>3 DEF Granted
  <2>6. RequestObject(r) \in Objects
    BY DEF Objects
  <2> QED BY <1>3, <2>1, <2>2, <2>4, <2>5, <2>6 DEF Pays, Ledger!Grant
<1>4. ASSUME consumed' = consumed, \A v \in Verifiers, r \in RequestIds : ~Pays(v, r)
      PROVE  Ledger!Settle
  <2>1. \A r \in RequestIds : requests'[r].status = "paid" <=> requests[r].status = "paid"
    BY <1>0, <1>4 DEF RowStep, Unresolved
  <2> QED BY <1>0, <1>4, <1>a, <2>1 DEF Ledger!Settle
<1>5. \A r \in RequestIds : RequestObject(r) \in Objects
  BY DEF Objects
<1> QED BY <1>0, <1>1, <1>2, <1>3, <1>4, <1>5 DEF ConsumedStep, Ledger!Next

\* Payment requests implement the payment ledger.
THEOREM RequestsImplementLedger == Spec => ImplementsLedger
<1>1. Init => Ledger!Init
  <2> SUFFICES ASSUME Init PROVE Ledger!Init
    OBVIOUS
  <2>1. SettledFor = {}
    BY TransfersAssumption DEF Init, TransfersInit, SettledFor, Settled
  <2>2. Granted = {}
    BY DEF Init, NoRow, Granted
  <2> QED BY <2>1, <2>2 DEF Init, Ledger!Init
<1>2. IInv /\ [Next]_vars => [Ledger!Next]_(Ledger!ledgerVars)
  BY RefinementStep
<1> QED BY <1>1, <1>2, SafetyInvariant, PTL DEF Spec, ImplementsLedger, Ledger!Spec
-------------------------------------------------------------------------------
(***************************************************************************)
(* Requests and purchases together.  Each domain, with the other as its     *)
(* surroundings, is what its own theorems are about.                       *)
(***************************************************************************)

\* Both domains call the same things objects of the store of hashes.
LEMMA SameObjects == P!Objects = Objects
BY PaymentsAssumption DEF P!Objects, Objects, P!OtherObjects, OtherObjects, P!PurchaseObject,
   RequestObject, P!PurchaseIds

\* What the purchases assume of their constants is true of them here.
LEMMA PurchasesAssumptions == P!TransfersAssumption /\ P!PurchasesAssumption /\ P!ObjectsAssumption
<1>1. P!TransfersAssumption
  BY TransfersAssumption, PaymentsAssumption
<1>2. P!PurchasesAssumption
  BY RequestsAssumption, PaymentsAssumption
<1>3. P!ObjectsAssumption
  BY SameObjects, RequestObjectsAssumption
<1> QED BY <1>1, <1>2, <1>3

\* What a step of the purchases does to what they share with the requests: it
\* consumes a hash for a purchase, or nothing.
LEMMA PurchasesShare ==
  P!Own => /\ UNCHANGED chainVars
           /\ \/ consumed' = consumed
              \/ \E p \in P!PurchaseIds, h \in Hashes : P!SubmitTransaction(p, h)
BY DEF P!Own, P!Request, P!CreateExisting, P!CreatePending, P!ExpireOwnHold,
       P!SubmitTransaction, P!Verify, P!Claim, P!Answer, P!Persist, P!PersistState,
       P!PersistConfirmed, P!PersistConfirmedRefused, P!PersistExpired, P!PersistTooLate,
       P!Abandon, P!Recovery, P!Recover, P!RecoverAnswer, P!RecoverSnapshot,
       P!RecoverCommit, P!Organizer, P!EditCapacity, P!CancelEvent, P!EventEnds, P!Tick,
       P!chainVars, chainVars

\* A step of the requests consumes a hash, or deletes an account, or leaves the
\* shared tables as they are; it never touches the chain.
LEMMA RequestsShare ==
  Own => /\ chain' = chain
         /\ \/ consumed' = consumed /\ linked' = linked
            \/ consumed' = consumed /\ \E u \in Users : RevokeIdentities(u)
            \/ linked' = linked /\ \E r \in RequestIds, h \in Hashes, u \in Users :
                                     SubmitTransaction(r, h, u)
BY DEF Own, Request, Create, Read, Cancel, List, SubmitTransaction, DeleteAccount,
       RevokeIdentities, Verify, Claim, Answer, Persist, Abandon, Recovery, Recover,
       RecoverAnswer, ConfirmRecovery, Tick, chainVars

\* To the requests, the purchases are their surroundings.
LEMMA RequestsGoOn == [PaymentsNext]_paymentVars => [Next]_vars
<1>1. ASSUME P!Own, UNCHANGED requestVars PROVE [Next]_vars
  <2>1. ASSUME NEW p \in P!PurchaseIds, NEW h \in Hashes, P!SubmitTransaction(p, h)
        PROVE  ConsumeElsewhere(h)
    <3>1. P!PurchaseObject(p) \in OtherObjects
      BY PaymentsAssumption DEF P!PurchaseObject, OtherObjects, P!PurchaseIds
    <3> QED BY <1>1, <2>1, <3>1
            DEF P!SubmitTransaction, P!Unconsumed, P!chainVars, ConsumeElsewhere, Unconsumed,
                chainVars, requestVars
  <2>2. CASE consumed' = consumed
    BY <1>1, <2>2, PurchasesShare DEF requestVars, chainVars, vars
  <2> QED BY <1>1, <2>1, <2>2, PurchasesShare DEF Next, Surroundings
<1>2. ASSUME UNCHANGED paymentVars PROVE UNCHANGED vars
  BY <1>2 DEF paymentVars, requestVars, chainVars, vars
<1> QED BY <1>1, <1>2 DEF PaymentsNext, Next, Surroundings

\* To the purchases, the requests are theirs.
LEMMA PurchasesGoOn == [PaymentsNext]_paymentVars => [P!Next]_(P!vars)
<1>1. ASSUME Own, UNCHANGED purchaseVars PROVE [P!Next]_(P!vars)
  <2>1. ASSUME NEW r \in RequestIds, NEW h \in Hashes, NEW u \in Users,
               SubmitTransaction(r, h, u)
        PROVE  P!ConsumeElsewhere(h)
    <3>1. RequestObject(r) \in P!OtherObjects
      BY DEF RequestObject, P!OtherObjects
    <3> QED BY <1>1, <2>1, <3>1
            DEF SubmitTransaction, Unconsumed, chainVars, P!ConsumeElsewhere, P!Unconsumed,
                P!chainVars, P!eventVars, purchaseVars
  <2>2. ASSUME NEW u \in Users, RevokeIdentities(u), consumed' = consumed PROVE P!ChainMoves
    BY <1>1, <2>2
       DEF RevokeIdentities, purchaseVars, P!ChainMoves, P!TransfersNext, P!RevokeIdentities,
           P!eventVars
  <2>3. ASSUME consumed' = consumed, linked' = linked, chain' = chain
        PROVE  UNCHANGED P!vars
    BY <1>1, <2>3 DEF purchaseVars, P!vars
  <2> QED BY <1>1, <2>1, <2>2, <2>3, RequestsShare DEF P!Next, P!Surroundings
<1>2. ASSUME ChainMoves, UNCHANGED purchaseVars PROVE P!ChainMoves
  BY <1>2 DEF ChainMoves, Broadcast, Mine, MacroBlock, purchaseVars,
              P!ChainMoves, P!TransfersNext, P!Broadcast, P!Mine, P!MacroBlock, P!eventVars
<1>3. ASSUME UNCHANGED paymentVars PROVE UNCHANGED P!vars
  BY <1>3 DEF paymentVars, purchaseVars, chainVars, P!vars
<1> QED BY <1>1, <1>2, <1>3 DEF PaymentsNext, P!Next, P!Surroundings

\* Whatever is proved of one domain holds of it beside the other.
THEOREM EachDomainGoesOn == PaymentsSpec => P!Spec /\ Spec
<1>1. PaymentsInit => P!Init /\ Init
  BY DEF PaymentsInit
<1> QED BY <1>1, RequestsGoOn, PurchasesGoOn, PTL DEF PaymentsSpec, P!Spec, Spec

\* The inductive invariants of both domains.
LEMMA BothInvariants == PaymentsSpec => [](P!IInv /\ IInv)
<1>1. P!Spec => []P!IInv
  BY P!SafetyInvariant, PurchasesAssumptions
<1> QED BY <1>1, EachDomainGoesOn, SafetyInvariant, PTL

\* Whatever is granted in either domain is paid by a transfer of its own.
THEOREM EachIsPaidByItsOwn == PaymentsSpec => []EachPaidByItsOwn
<1>1. ASSUME P!IInv, IInv, NEW o \in AllGranted
      PROVE  /\ IsPaid(o)
             /\ TransferOf(o) \in Hashes /\ consumed[TransferOf(o)] = o
  <2>1. CASE o \in P!Granted
    <3>1. PICK p \in P!PurchaseIds : o = P!PurchaseObject(p) /\ purchases[p].status = "confirmed"
      BY <2>1 DEF P!Granted
    <3>2. TransferOf(o) = purchases[p].hash /\ o.id = p
      BY <2>1, <3>1 DEF TransferOf, P!PurchaseObject
    <3>3. /\ purchases[p].hash # None /\ P!Settled(purchases[p].hash, purchases[p].user)
          /\ consumed[purchases[p].hash] = P!PurchaseObject(p)
      BY <1>1, <3>1 DEF P!IInv, P!PaidWhenConfirmed, P!HashReserved
    <3>4. purchases[p].hash \in Hashes
      BY <1>1, <3>3 DEF P!IInv, P!TypeOK, P!Row
    <3> QED BY <2>1, <3>1, <3>2, <3>3, <3>4 DEF IsPaid
  <2>2. CASE o \notin P!Granted
    <3>1. PICK r \in RequestIds : o = RequestObject(r) /\ requests[r].status = "paid"
      BY <1>1, <2>2 DEF AllGranted, Granted
    <3>2. TransferOf(o) = requests[r].hash /\ o.id = r
      BY <2>2, <3>1 DEF TransferOf, RequestObject
    <3>3. /\ requests[r].hash # None /\ Settled(requests[r].hash, requests[r].payer)
          /\ consumed[requests[r].hash] = RequestObject(r)
      BY <1>1, <3>1 DEF IInv, PaidMeansSettled, HashReserved
    <3>4. requests[r].hash \in Hashes
      BY <1>1, <3>3 DEF IInv, TInv, TypeOK, Row
    <3> QED BY <2>2, <3>1, <3>2, <3>3, <3>4 DEF IsPaid
  <2> QED BY <2>1, <2>2
<1>2. P!IInv /\ IInv => EachPaidByItsOwn
  BY <1>1 DEF EachPaidByItsOwn
<1> QED BY <1>2, BothInvariants, PTL

-------------------------------------------------------------------------------
(***************************************************************************)
(* One ledger for both.                                                    *)
(***************************************************************************)

\* Rows that do not change have the same grants, and on the same chain the same
\* transfers settled for them.
LEMMA BooksOfOthers ==
  /\ UNCHANGED <<chain, purchases>> => UNCHANGED <<P!SettledFor, P!Granted>>
  /\ UNCHANGED <<chain, requests>> => UNCHANGED <<SettledFor, Granted>>
  /\ UNCHANGED purchases => UNCHANGED P!Granted
  /\ UNCHANGED requests => UNCHANGED Granted
BY DEF P!SettledFor, P!Settled, P!Granted, SettledFor, Settled, Granted

\* Every step is one of the ledger of both, or none.
LEMMA BooksStep ==
  P!IInv /\ IInv /\ [PaymentsNext]_paymentVars => [Books!Next]_(Books!ledgerVars)
<1> SUFFICES ASSUME P!IInv, IInv, [PaymentsNext]_paymentVars
             PROVE  [Books!Next]_(Books!ledgerVars)
  OBVIOUS
<1>0. [P!Next]_(P!vars) /\ [Next]_vars
  BY RequestsGoOn, PurchasesGoOn
<1>a. /\ SettledFor \subseteq SettledFor' /\ P!SettledFor \subseteq P!SettledFor'
      /\ P!SettledFor' \cup SettledFor' \in SUBSET (Hashes \X Objects)
  <2>1. SettledFor \subseteq SettledFor' /\ SettledFor' \in SUBSET (Hashes \X Objects)
    BY <1>0, SettledForGrows DEF Ledger!MoreSettles
  <2>2. P!SettledFor \subseteq P!SettledFor'
    BY <1>0, P!SettledForGrows, PurchasesAssumptions
  <2>3. P!SettledFor' \in SUBSET (Hashes \X Objects)
    BY SameObjects DEF P!SettledFor, P!Objects
  <2> QED BY <2>1, <2>2, <2>3
<1>b. Books!MoreSettles
  BY <1>a DEF Books!MoreSettles
<1>1. CASE P!Own /\ UNCHANGED requestVars
  <2>1. UNCHANGED <<SettledFor, Granted>>
    BY <1>1, BooksOfOthers, PurchasesShare DEF requestVars, chainVars
  <2>2. [P!Ledger!Next]_(P!Ledger!ledgerVars)
    BY <1>0, P!RefinementStep, PurchasesAssumptions
  <2>3. CASE P!Ledger!Settle \/ UNCHANGED P!Ledger!ledgerVars
    BY <1>b, <2>1, <2>3 DEF P!Ledger!Settle, P!Ledger!ledgerVars, Books!Next, Books!Settle,
                            AllGranted
  <2>4. ASSUME NEW h \in Hashes, NEW o \in P!Objects, P!Ledger!Spend(h, o)
        PROVE  Books!Spend(h, o)
    BY <1>b, <2>1, <2>4 DEF P!Ledger!Spend, Books!Spend, AllGranted
  <2>5. ASSUME NEW h \in Hashes, NEW o \in P!Objects, P!Ledger!Grant(h, o)
        PROVE  Books!Grant(h, o)
    BY <2>1, <2>5 DEF P!Ledger!Grant, Books!Grant, AllGranted
  <2> QED BY <2>2, <2>3, <2>4, <2>5, SameObjects DEF P!Ledger!Next, Books!Next
<1>2. CASE Own /\ UNCHANGED purchaseVars
  <2>1. UNCHANGED <<P!SettledFor, P!Granted>>
    BY <1>2, BooksOfOthers, RequestsShare DEF purchaseVars
  <2>2. [Ledger!Next]_(Ledger!ledgerVars)
    BY <1>0, RefinementStep
  <2>3. CASE Ledger!Settle \/ UNCHANGED Ledger!ledgerVars
    BY <1>b, <2>1, <2>3 DEF Ledger!Settle, Ledger!ledgerVars, Books!Next, Books!Settle,
                            AllGranted
  <2>4. ASSUME NEW h \in Hashes, NEW o \in Objects, Ledger!Spend(h, o) PROVE Books!Spend(h, o)
    BY <1>b, <2>1, <2>4 DEF Ledger!Spend, Books!Spend, AllGranted
  <2>5. ASSUME NEW h \in Hashes, NEW o \in Objects, Ledger!Grant(h, o) PROVE Books!Grant(h, o)
    BY <2>1, <2>5 DEF Ledger!Grant, Books!Grant, AllGranted
  <2> QED BY <2>2, <2>3, <2>4, <2>5 DEF Ledger!Next, Books!Next
<1>3. CASE (ChainMoves /\ UNCHANGED purchaseVars) \/ UNCHANGED paymentVars
  <2>1. UNCHANGED <<consumed, P!Granted, Granted>>
    BY <1>3, BooksOfOthers DEF ChainMoves, purchaseVars, requestVars, paymentVars
  <2> QED BY <1>b, <2>1 DEF Books!Next, Books!Settle, AllGranted
<1> QED BY <1>1, <1>2, <1>3 DEF PaymentsNext

\* The domains together implement the payment ledger.
THEOREM PaymentsImplementLedger == PaymentsSpec => ImplementsOneLedger
<1>1. PaymentsInit => Books!Init
  <2> SUFFICES ASSUME PaymentsInit PROVE Books!Init
    OBVIOUS
  <2>1. SettledFor = {} /\ P!SettledFor = {}
    BY TransfersAssumption
       DEF PaymentsInit, Init, P!Init, TransfersInit, SettledFor, Settled, P!SettledFor,
           P!Settled
  <2>2. AllGranted = {}
    BY DEF PaymentsInit, Init, P!Init, NoRow, P!NoRow, Granted, P!Granted, AllGranted
  <2> QED BY <2>1, <2>2 DEF PaymentsInit, Init, Books!Init
<1> QED BY <1>1, BooksStep, BothInvariants, PTL DEF PaymentsSpec, ImplementsOneLedger,
                                                    Books!Spec
-------------------------------------------------------------------------------
(***************************************************************************)
(* The server process whose worker settles payment requests: its inductive  *)
(* invariant, in named parts.                                              *)
(***************************************************************************)

\* Nothing is opened or served before the settings have been found valid.
SettingsChecked == main \notin {"settings", "exited"} => Valid(settings)

\* What is connected at each step of the start.
OpenedInOrder ==
  /\ main \in {"settings", "postgres"} => opened = {}
  /\ main = "redis" => opened \subseteq {"postgres"}
  /\ main \in {"workers", "bind", "subscribe", "relay"} => "postgres" \in opened
  /\ Fatal /\ main = "redis" => "postgres" \in opened
  /\ Fatal /\ main \in (Starting \ {"settings", "postgres", "redis"}) \cup {"serving", "draining"}
       => opened = {"postgres", "redis"}

\* What is still connected at each step of the end.
ClosedInOrder ==
  /\ main = "closePostgres" => opened \subseteq {"postgres"}
  /\ main = "exited" /\ exit # "crash" => opened = {}

Untouched == \A a \in Actors : state[a] = "off"

\* Workers and handlers are started with the database, and the queue and the
\* dispatcher hold only what they have published.
ActorsHaveStores ==
  /\ main \in {"settings", "postgres", "redis", "bus", "build", "workers"} => Untouched
  /\ main # "exited" => Untouched \/ "postgres" \in opened
  /\ Untouched => DispatcherDone

\* The relay is used only between its setting and the closing of Redis.
RelayHasRedis ==
  /\ main \in Starting \ {"listen"} => ~relaying
  /\ relaying /\ main \notin {"closePostgres", "exited"} => "redis" \in opened
  /\ task.step = "relay" => relaying

\* Once the bus is closed nothing is added to it, and main goes on only when
\* the dispatcher has nothing left.
BusEmptied ==
  /\ main \in {"drainBus", "closeRedis", "closePostgres"} => bus.closed \/ Untouched
  /\ main \in {"closeRedis", "closePostgres"} \/ (main = "exited" /\ exit # "crash")
       => DispatcherDone

\* An exit without error has waited for the requests; nobody is admitted since.
RequestsAnswered ==
  /\ exit = "ok" => main \in Stopping \cup {"exited"} /\ \A r \in Requests : ~InFlight(r)
  /\ exit = "crash" => main = "exited"

ServerInv ==
  /\ SettingsChecked /\ OpenedInOrder /\ ClosedInOrder /\ ActorsHaveStores /\ RelayHasRedis
  /\ BusEmptied /\ RequestsAnswered /\ StoresOutliveUsers

\* A verdict that is repeated is not older than its age and the timeout.
Heard ==
  /\ cache.verdict = "healthy" => cache.since <= cache.age + Timeout
  /\ \A p \in Probes :
       probe[p].step \in {"checking", "asking"} =>
         probe[p].status = "" /\ (probe[p].spoken => probe[p].since <= probe[p].waited)
  /\ ReadyMeansReachable

-------------------------------------------------------------------------------
(***************************************************************************)
(* Its type correctness, with that of the probes.                          *)
(***************************************************************************)

\* The actors' topics are topics, and nobody is called Nobody.
LEMMA ActorsTyped ==
  /\ \A a \in Actors : TopicOf[a] \in Topics /\ a # Nobody
  /\ Workers \subseteq Actors /\ Requests \subseteq Actors
BY ServerAssumption DEF Actors

\* A server starts with the declared types.
LEMMA ServerTypeInit == ServerInit => ServerTypeOK /\ Heard
<1> SUFFICES ASSUME ServerInit PROVE ServerTypeOK /\ Heard
  OBVIOUS
<1>1. 0 \in 0..TTL /\ 0 \in 0..Oldest /\ 0 \in 0..Timeout
  BY HealthAssumption DEF Oldest
<1>2. cache \in Verdicts
  BY <1>1 DEF ServerInit, HealthInit, Verdicts
<1>3. NoProbe \in Requested
  BY <1>1 DEF NoProbe, Requested, Steps, Statuses, Endpoints
<1>4. HealthTypeOK
  BY <1>2, <1>3 DEF ServerInit, HealthInit, HealthTypeOK
<1>5. Heard
  BY DEF ServerInit, HealthInit, Heard, ReadyMeansReachable, NoProbe
<1>6. task \in [from : Actors \cup {Nobody}, step : {"idle", "handle", "relay"}]
  BY DEF ServerInit, NoTask
<1>7. queue \in Seq(Actors) /\ Len(queue) <= BusBuffer
  BY ServerAssumption DEF ServerInit
<1>8. settings \in Choices /\ bound \in BOOLEAN /\ relaying \in BOOLEAN /\ signalled \in BOOLEAN
  BY DEF ServerInit
<1>0. MaxEvents \in Nat /\ committed = 0
  BY ServerAssumption DEF ServerInit
<1>9. state \in [Actors -> Stages] /\ subscribed \subseteq Topics /\ polled \subseteq Topics
  BY DEF ServerInit, Stages
<1> QED
  BY <1>0, <1>4, <1>5, <1>6, <1>7, <1>8, <1>9 DEF ServerInit, ServerTypeOK, Starting

\* The probes keep their types; that ages stay in range needs what is known of them.
LEMMA HealthTypeStep ==
  ASSUME HealthTypeOK, Heard, Health \/ UNCHANGED healthVars
  PROVE  HealthTypeOK'
<1>a. /\ TTL \in Nat /\ Timeout \in Nat /\ Oldest \in Nat /\ TTL <= Oldest /\ Timeout <= Oldest
      /\ 0 \in 0..TTL /\ 0 \in 0..Oldest /\ 0 \in 0..Timeout
  BY HealthAssumption DEF Oldest
<1>b. \A e \in Endpoints, c, d, h \in BOOLEAN : StatusOf(e, c, d, h) \in Statuses
  BY DEF StatusOf, Statuses, Endpoints
<1>c. \A p \in Probes, d, h \in BOOLEAN, n \in 0..Oldest :
        Answered(p, d, h, n) \in [Probes -> Requested]
  <2> SUFFICES ASSUME NEW p \in Probes, NEW d \in BOOLEAN, NEW h \in BOOLEAN, NEW n \in 0..Oldest
               PROVE  Answered(p, d, h, n) \in [Probes -> Requested]
    OBVIOUS
  <2>1. probe[p] \in Requested
    BY DEF HealthTypeOK
  <2>2. StatusOf(probe[p].endpoint, probe[p].core, d, h) \in Statuses
    BY <1>b, <2>1 DEF Requested
  <2>3. [probe[p] EXCEPT !.step = "answered", !.since = n,
           !.status = StatusOf(probe[p].endpoint, probe[p].core, d, h)] \in Requested
    BY <2>1, <2>2 DEF Requested, Steps
  <2> QED BY <2>3 DEF Answered, HealthTypeOK
<1>0. CASE UNCHANGED healthVars
  BY <1>0 DEF healthVars, HealthTypeOK
<1>1. CASE TimePasses
  <2>1. cache' \in Verdicts
    <3>1. cache \in Verdicts
      BY DEF HealthTypeOK
    <3>2. Older(cache.age, TTL) \in 0..TTL /\ Older(cache.since, Oldest) \in 0..Oldest
      BY <3>1, <1>a DEF Older, Verdicts
    <3>3. [cache EXCEPT !.age = Older(cache.age, TTL), !.since = Older(cache.since, Oldest)]
            \in Verdicts
      BY <3>1, <3>2 DEF Verdicts
    <3> QED BY <1>1, <3>3 DEF TimePasses
  <2>2. ASSUME NEW p \in Probes PROVE probe'[p] \in Requested
    <3>1. probe[p] \in Requested
      BY DEF HealthTypeOK
    <3>2. CASE probe[p].step = "asking"
      <4>1. probe[p].waited \in 0..Timeout /\ probe[p].since \in 0..Oldest
        BY <3>1 DEF Requested
      <4>2. probe[p].waited < Timeout
        BY <1>1, <3>2 DEF TimePasses
      <4>3. probe[p].spoken => probe[p].since <= probe[p].waited
        BY <3>2 DEF Heard
      <4>4. probe[p].waited + 1 \in 0..Timeout
        BY <4>1, <4>2, <1>a
      <4>5. probe[p].spoken => probe[p].since + 1 \in 0..Oldest
        BY <4>1, <4>2, <4>3, <1>a
      <4>6. [probe[p] EXCEPT !.waited = probe[p].waited + 1,
               !.since = IF probe[p].spoken THEN probe[p].since + 1 ELSE probe[p].since]
               \in Requested
        BY <3>1, <4>1, <4>4, <4>5 DEF Requested
      <4> QED BY <1>1, <3>2, <4>6 DEF TimePasses
    <3>3. CASE probe[p].step # "asking"
      BY <1>1, <3>1, <3>3 DEF TimePasses
    <3> QED BY <3>2, <3>3
  <2> QED BY <2>1, <2>2, <1>1 DEF TimePasses, HealthTypeOK
<1>2. ASSUME NEW p \in Probes, ProbeArrives(p) PROVE HealthTypeOK'
  <2>1. PICK e \in Endpoints, c \in BOOLEAN :
          Arrive(p, e, c, PaymentsEnabled(settings), "postgres" \in opened)
    BY <1>2 DEF ProbeArrives
  <2>2. StatusOf(e, c, PaymentsEnabled(settings), FALSE) \in Statuses
    BY <1>b DEF PaymentsEnabled
  <2>3. NoProbe \in Requested
    BY <1>a DEF NoProbe, Requested, Steps, Statuses, Endpoints
  <2>4. ASSUME NEW s \in Steps, NEW v \in Statuses
        PROVE  [NoProbe EXCEPT !.endpoint = e, !.core = c, !.step = s, !.status = v] \in Requested
    BY <2>3 DEF Requested
  <2> QED BY <2>1, <2>2, <2>4 DEF Arrive, HealthTypeOK, Steps, Statuses
<1>3. ASSUME NEW p \in Probes, UseCache(p) PROVE HealthTypeOK'
  BY <1>3, <1>c DEF UseCache, HealthTypeOK, Verdicts
<1>4. ASSUME NEW p \in Probes, Ask(p) \/ RPCSpeaks(p) PROVE HealthTypeOK'
  <2>1. probe[p] \in Requested
    BY DEF HealthTypeOK
  <2>2. /\ [probe[p] EXCEPT !.step = "asking"] \in Requested
        /\ [probe[p] EXCEPT !.spoken = TRUE, !.since = 0] \in Requested
    BY <2>1, <1>a DEF Requested, Steps
  <2>3. CASE Ask(p)
    BY <2>2, <2>3 DEF Ask, HealthTypeOK
  <2>4. CASE RPCSpeaks(p)
    BY <2>2, <2>4 DEF RPCSpeaks, HealthTypeOK
  <2> QED BY <1>4, <2>3, <2>4
<1>5. ASSUME NEW p \in Probes, NEW healthy \in BOOLEAN, Return(p, healthy)
      PROVE  HealthTypeOK'
  <2>1. probe[p].since \in 0..Oldest
    BY DEF HealthTypeOK, Requested
  <2>2. probe' \in [Probes -> Requested]
    BY <1>5, <1>c, <2>1 DEF Return
  <2>3. cache' \in Verdicts
    BY <1>5, <1>a, <2>1 DEF Return, Verdicts
  <2> QED BY <2>2, <2>3 DEF HealthTypeOK
<1> QED BY <1>0, <1>1, <1>2, <1>3, <1>4, <1>5 DEF Health, Probe

\* A step of the probes keeps what is known of verdicts and answers.
LEMMA HeardStep ==
  ASSUME HealthTypeOK, Heard, Health \/ UNCHANGED healthVars
  PROVE  Heard'
<1>a. TTL \in Nat /\ Timeout \in Nat /\ TTL > 0 /\ Oldest = TTL + Timeout /\ Oldest \in Nat
  BY HealthAssumption DEF Oldest
<1>b. cache \in Verdicts /\ cache.age \in Nat /\ cache.since \in Nat
  BY <1>a DEF HealthTypeOK, Verdicts
<1>d. ASSUME NEW p \in Probes
      PROVE  probe[p] \in Requested /\ probe[p].waited \in 0..Timeout /\ probe[p].since \in Nat
  BY <1>a DEF HealthTypeOK, Requested
<1>e. DOMAIN probe = Probes
  BY DEF HealthTypeOK
<1>c. \A c, h \in BOOLEAN : /\ StatusOf("payments", c, TRUE, h) = "ready" => c /\ h
                            /\ StatusOf("payments", c, h, FALSE) # "ready"
  BY DEF StatusOf
<1>f. cache.verdict = "healthy" => cache.since <= cache.age + Timeout
  BY DEF Heard
<1>g. ASSUME NEW p \in Probes
      PROVE  /\ probe[p].step \in {"checking", "asking"} =>
                  probe[p].status = "" /\ (probe[p].spoken => probe[p].since <= probe[p].waited)
             /\ probe[p].endpoint = "payments" /\ probe[p].status = "ready"
                  => probe[p].core /\ probe[p].since < Oldest
  BY DEF Heard, ReadyMeansReachable
<1>0. CASE UNCHANGED healthVars
  BY <1>0 DEF healthVars, Heard, ReadyMeansReachable
<1>1. CASE TimePasses
  <2>1. cache'.verdict = "healthy" => cache'.since <= cache'.age + Timeout
    <3>1. cache'.verdict = cache.verdict /\ cache'.age = Older(cache.age, TTL)
          /\ cache'.since = Older(cache.since, Oldest)
      BY <1>1, <1>b DEF TimePasses, Verdicts
    <3>3. cache.age <= TTL /\ cache.since <= Oldest
      BY <1>a DEF HealthTypeOK, Verdicts
    <3>4. cache.since <= cache.age + Timeout
            => Older(cache.since, Oldest) <= Older(cache.age, TTL) + Timeout
      BY <1>a, <1>b, <3>3 DEF Older
    <3> QED BY <1>f, <3>1, <3>4
  <2>2. ASSUME NEW p \in Probes, probe[p].step = "asking"
        PROVE  /\ probe'[p].step = "asking" /\ probe'[p].status = probe[p].status
               /\ probe'[p].spoken = probe[p].spoken
               /\ probe'[p].waited = probe[p].waited + 1
               /\ probe[p].spoken => probe'[p].since = probe[p].since + 1
    BY <1>1, <1>d, <2>2 DEF TimePasses, Requested
  <2>3. ASSUME NEW p \in Probes, probe[p].step # "asking"
        PROVE  probe'[p] = probe[p]
    BY <1>1, <2>3 DEF TimePasses
  <2>4. ASSUME NEW p \in Probes
        PROVE  /\ probe'[p].step \in {"checking", "asking"} =>
                    /\ probe'[p].status = ""
                    /\ probe'[p].spoken => probe'[p].since <= probe'[p].waited
               /\ probe'[p].endpoint = "payments" /\ probe'[p].status = "ready"
                    => probe'[p].core /\ probe'[p].since < Oldest
    <3>1. CASE probe[p].step = "asking"
      <4>1. probe[p].waited \in Nat /\ probe[p].since \in Nat
        BY <1>a, <1>d
      <4>2. probe[p].spoken => probe[p].since <= probe[p].waited
        BY <1>g, <3>1
      <4>3. probe[p].status = ""
        BY <1>g, <3>1
      <4>4. /\ probe'[p].status = probe[p].status /\ probe'[p].spoken = probe[p].spoken
            /\ probe'[p].waited = probe[p].waited + 1
            /\ probe[p].spoken => probe'[p].since = probe[p].since + 1
        BY <2>2, <3>1
      <4>5. probe'[p].spoken => probe'[p].since <= probe'[p].waited
        BY <4>1, <4>2, <4>4
      <4> QED BY <4>3, <4>4, <4>5
    <3>2. CASE probe[p].step # "asking"
      BY <1>g, <2>3, <3>2
    <3> QED BY <3>1, <3>2
  <2> QED BY <2>1, <2>4 DEF Heard, ReadyMeansReachable, Oldest
<1>2. ASSUME NEW p \in Probes, ProbeArrives(p) PROVE Heard'
  <2>1. PICK e \in Endpoints, c \in BOOLEAN :
          Arrive(p, e, c, PaymentsEnabled(settings), "postgres" \in opened)
    BY <1>2 DEF ProbeArrives
  <2>2. StatusOf("payments", c, PaymentsEnabled(settings), FALSE) # "ready"
    BY <1>c DEF PaymentsEnabled
  <2> QED BY <2>1, <2>2, <1>e DEF Arrive, NoProbe, Oldest, Heard, ReadyMeansReachable
<1>3. ASSUME NEW p \in Probes, UseCache(p) PROVE Heard'
  <2>2. cache.age < TTL
    BY <1>3 DEF UseCache, Fresh
  <2>3. cache.verdict = "healthy" => cache.since < Oldest
    BY <1>f, <2>2, <1>a, <1>b
  <2>4. probe[p] \in Requested /\ cache' = cache
    BY <1>3, <1>d DEF UseCache
  <2>5. probe[p].core \in BOOLEAN
    BY <2>4 DEF Requested
  <2> QED BY <1>3, <2>3, <2>4, <2>5, <1>c, <1>e
     DEF UseCache, Answered, Requested, Oldest, Heard, ReadyMeansReachable
<1>4. ASSUME NEW p \in Probes, Ask(p) \/ RPCSpeaks(p) PROVE Heard'
  <2>1. probe[p] \in Requested /\ 0 <= probe[p].waited
    BY <1>a, <1>d
  <2>2. CASE Ask(p)
    BY <2>1, <2>2, <1>e, <1>f, <1>g DEF Ask, Requested, Oldest, Heard, ReadyMeansReachable
  <2>3. CASE RPCSpeaks(p)
    BY <2>1, <2>3, <1>e DEF RPCSpeaks, Requested, Oldest, Heard, ReadyMeansReachable
  <2> QED BY <1>4, <2>2, <2>3
<1>5. ASSUME NEW p \in Probes, NEW healthy \in BOOLEAN, Return(p, healthy)
      PROVE  Heard'
  <2>1. healthy => probe[p].since <= probe[p].waited
    BY <1>5, <1>g DEF Return
  <2>2. healthy => probe[p].since <= Timeout
    BY <2>1, <1>a, <1>d
  <2>3. healthy => probe[p].since < Oldest
    BY <2>2, <1>a, <1>d
  <2>4. cache'.verdict = "healthy" => cache'.since <= cache'.age + Timeout
    BY <1>5, <2>2, <1>a DEF Return
  <2>5. probe[p] \in Requested /\ probe[p].core \in BOOLEAN
    BY <1>d DEF Requested
  <2> QED BY <1>5, <2>3, <2>4, <2>5, <1>c, <1>e
     DEF Return, Answered, Requested, Oldest, Heard, ReadyMeansReachable
<1> QED BY <1>0, <1>1, <1>2, <1>3, <1>4, <1>5 DEF Health, Probe

\* main and Signal leave the work alone but for the start of the workers.
LEMMA MainTypeStep ==
  ASSUME ServerTypeOK, Main \/ Signal, UNCHANGED healthVars
  PROVE  ServerTypeOK'
<1> USE DEF ServerTypeOK, HealthTypeOK, healthVars, Starting, Stopping, Stages, Topics, Fail,
            setupVars, workVars
<1>1. CASE LoadSettings
  BY <1>1 DEF LoadSettings
<1>2. CASE ConnectPostgres
  <2>1. opened' \subseteq {"postgres", "redis"}
    BY <1>2 DEF ConnectPostgres
  <2>2. main' \in Starting \cup Stopping \cup {"exited"} /\ exit' \in {exit, "error"}
    BY <1>2 DEF ConnectPostgres
  <2> QED BY <1>2, <2>1, <2>2 DEF ConnectPostgres
<1>3. CASE ConnectRedis
  <2>1. opened' \subseteq {"postgres", "redis"}
    BY <1>3 DEF ConnectRedis
  <2>2. main' \in Starting \cup Stopping \cup {"exited"} /\ exit' \in {exit, "error"}
    BY <1>3 DEF ConnectRedis
  <2> QED BY <1>3, <2>1, <2>2 DEF ConnectRedis
<1>4. CASE StartBus
  BY <1>4 DEF StartBus, StartConsumer
<1>5. CASE Build
  BY <1>5 DEF Build
<1>6. CASE StartWorkers
  BY <1>6 DEF StartWorkers
<1>7. CASE Bind
  BY <1>7 DEF Bind
<1>8. CASE RegisterBridge
  BY <1>8 DEF RegisterBridge
<1>9. CASE SetRelay
  BY <1>9 DEF SetRelay
<1>10. CASE Listen
  BY <1>10 DEF Listen
<1>11. CASE BeginShutdown
  BY <1>11 DEF BeginShutdown
<1>12. CASE Drained
  BY <1>12 DEF Drained
<1>13. CASE DrainTimesOut
  BY <1>13 DEF DrainTimesOut
<1>14. CASE CancelReconciliation
  BY <1>14 DEF CancelReconciliation
<1>15. CASE CloseBus
  BY <1>15 DEF CloseBus
<1>16. CASE BusDrained
  BY <1>16 DEF BusDrained
<1>17. CASE CloseRedis
  BY <1>17 DEF CloseRedis
<1>18. CASE ClosePostgres
  BY <1>18 DEF ClosePostgres
<1>19. CASE Signal
  BY <1>19 DEF Signal
<1> QED
  BY <1>1, <1>2, <1>3, <1>4, <1>5, <1>6, <1>7, <1>8, <1>9,
     <1>10, <1>11, <1>12, <1>13, <1>14, <1>15, <1>16, <1>17, <1>18, <1>19 DEF Main

\* Workers, handlers and the dispatcher keep the types.
LEMMA WorkTypeStep ==
  ASSUME ServerTypeOK, UNCHANGED healthVars,
         \/ Dispatcher
         \/ \E a \in Actors : Acts(a)
         \/ \E r \in Requests : Admit(r) \/ PanicRecovered(r)
         \/ \E w \in Workers : NextPass(w) \/ WorkerStops(w) \/ PanicUnrecovered(w)
  PROVE  ServerTypeOK'
<1> USE ActorsTyped, ServerAssumption
    DEF ServerTypeOK, HealthTypeOK, healthVars, Starting, Stopping, Stages, setupVars, workVars,
        Becomes
<1>1. ASSUME NEW a \in Actors, Begin(a) \/ Leave(a) \/ Rollback(a) PROVE ServerTypeOK'
  <2>1. CASE Begin(a)
    BY <2>1 DEF Begin
  <2>2. CASE Leave(a)
    BY <2>2 DEF Leave
  <2>3. CASE Rollback(a)
    BY <2>3 DEF Rollback
  <2> QED BY <1>1, <2>1, <2>2, <2>3
<1>2. ASSUME NEW a \in Actors, Commit(a) PROVE ServerTypeOK'
  BY <1>2 DEF Commit
<1>3. ASSUME NEW a \in Actors, Publish(a) PROVE ServerTypeOK'
  <2>1. CASE PublishToNobody(a)
    BY <2>1 DEF PublishToNobody
  <2>2. CASE PublishToKafka(a)
    BY <2>2 DEF PublishToKafka
  <2>3. CASE PublishToMemory(a)
    BY <2>3 DEF PublishToMemory, Room
  <2> QED BY <1>3, <2>1, <2>2, <2>3 DEF Publish
<1>4. ASSUME NEW r \in Requests, Admit(r) \/ PanicRecovered(r) PROVE ServerTypeOK'
  <2>1. CASE Admit(r)
    BY <2>1 DEF Admit
  <2>2. CASE PanicRecovered(r)
    BY <2>2 DEF PanicRecovered
  <2> QED BY <1>4, <2>1, <2>2
<1>5. ASSUME NEW w \in Workers, NextPass(w) \/ WorkerStops(w) \/ PanicUnrecovered(w)
      PROVE  ServerTypeOK'
  <2>1. CASE NextPass(w)
    BY <2>1 DEF NextPass
  <2>2. CASE WorkerStops(w)
    BY <2>2 DEF WorkerStops
  <2>3. CASE PanicUnrecovered(w)
    BY <2>3 DEF PanicUnrecovered
  <2> QED BY <1>5, <2>1, <2>2, <2>3
<1>6. CASE Dispatch
  BY <1>6 DEF Dispatch, NoTask
<1>7. CASE Handle
  BY <1>7 DEF Handle, NoTask
<1>8. CASE Relay
  BY <1>8 DEF Relay, NoTask
<1> QED BY <1>1, <1>2, <1>3, <1>4, <1>5, <1>6, <1>7, <1>8 DEF Acts, EndTransaction, Dispatcher

\* Every step keeps the types, and what is known of the probes.
LEMMA ServerTypeStep ==
  ServerTypeOK /\ Heard /\ [ServerNext]_<<serverVars, healthVars>> => ServerTypeOK' /\ Heard'
<1> SUFFICES ASSUME ServerTypeOK, Heard, [ServerNext]_<<serverVars, healthVars>>
             PROVE  ServerTypeOK' /\ Heard'
  OBVIOUS
<1>0. HealthTypeOK
  BY DEF ServerTypeOK
<1>1. CASE Process /\ UNCHANGED healthVars
  <2>1. ServerTypeOK'
    BY <1>1, MainTypeStep, WorkTypeStep DEF Process
  <2> QED BY <1>0, <1>1, <2>1, HeardStep
<1>2. CASE (Health \/ UNCHANGED healthVars) /\ UNCHANGED serverVars
  <2>1. HealthTypeOK'
    BY <1>0, <1>2, HealthTypeStep
  <2>2. ServerTypeOK'
    BY <1>2, <2>1 DEF ServerTypeOK, serverVars
  <2> QED BY <1>0, <1>2, <2>2, HeardStep
<1> QED BY <1>1, <1>2 DEF ServerNext

\* main's own steps: it closes a store only when nobody can use it any more.
LEMMA MainStep == ServerTypeOK /\ ServerInv /\ Main => ServerInv'
<1> SUFFICES ASSUME ServerTypeOK, ServerInv, Main PROVE ServerInv'
  OBVIOUS
<1> USE ServerAssumption
    DEF ServerInv, SettingsChecked, OpenedInOrder, ClosedInOrder, ActorsHaveStores,
        RelayHasRedis, BusEmptied, RequestsAnswered, StoresOutliveUsers, Untouched,
        DispatcherDone, NoTask, Fatal, InFlight, Starting, Stopping, Fail,
        setupVars, workVars
<1>1. CASE LoadSettings
  BY <1>1 DEF LoadSettings
<1>2. CASE ConnectPostgres
  BY <1>2 DEF ConnectPostgres
<1>3. CASE ConnectRedis
  BY <1>3 DEF ConnectRedis
<1>4. CASE StartBus
  BY <1>4 DEF StartBus, StartConsumer
<1>5. CASE Build
  BY <1>5 DEF Build
<1>6. CASE StartWorkers
  BY <1>6 DEF StartWorkers
<1>7. CASE Bind
  BY <1>7 DEF Bind
<1>8. CASE RegisterBridge
  BY <1>8 DEF RegisterBridge
<1>9. CASE SetRelay
  BY <1>9 DEF SetRelay
<1>10. CASE Listen
  BY <1>10 DEF Listen
<1>11. CASE BeginShutdown
  BY <1>11 DEF BeginShutdown
<1>12. CASE Drained
  BY <1>12 DEF Drained, NobodyInFlight
<1>13. CASE DrainTimesOut
  BY <1>13 DEF DrainTimesOut
<1>14. CASE CancelReconciliation
  BY <1>14 DEF CancelReconciliation
<1>15. CASE CloseBus
  BY <1>15 DEF CloseBus
<1>16. CASE BusDrained
  BY <1>16 DEF BusDrained
<1>17. CASE CloseRedis
  BY <1>17 DEF CloseRedis, ServerTypeOK
<1>18. CASE ClosePostgres
  BY <1>18 DEF ClosePostgres
<1> QED BY <1>1, <1>2, <1>3, <1>4, <1>5, <1>6, <1>7, <1>8, <1>9,
     <1>10, <1>11, <1>12, <1>13, <1>14, <1>15, <1>16, <1>17, <1>18 DEF Main

\* Workers and handlers take what they need while it is there.
LEMMA ActorStep ==
  ASSUME ServerTypeOK, ServerInv, NEW a \in Actors, Acts(a)
  PROVE  ServerInv'
<1> USE ActorsTyped
    DEF ServerInv, SettingsChecked, OpenedInOrder, ClosedInOrder, ActorsHaveStores,
        RelayHasRedis, BusEmptied, RequestsAnswered, StoresOutliveUsers, Untouched,
        DispatcherDone, NoTask, Fatal, InFlight, Starting, Stopping, Fail,
        setupVars, workVars, Becomes, Running, ContextDone
<1>1. CASE Begin(a)
  BY <1>1 DEF Begin
<1>2. CASE Leave(a)
  BY <1>2 DEF Leave
<1>3. CASE Commit(a)
  BY <1>3 DEF Commit
<1>4. CASE Rollback(a)
  BY <1>4 DEF Rollback
<1>5. CASE Publish(a)
  <2>1. CASE PublishToNobody(a)
    BY <2>1 DEF PublishToNobody
  <2>2. CASE PublishToKafka(a)
    BY <2>2 DEF PublishToKafka
  <2>3. CASE PublishToMemory(a)
    BY <2>3 DEF PublishToMemory
  <2> QED BY <1>5, <2>1, <2>2, <2>3 DEF Publish
<1> QED BY <1>1, <1>2, <1>3, <1>4, <1>5 DEF Acts, EndTransaction

\* Handlers begin and end as requests.
LEMMA RequestStep ==
  ASSUME ServerTypeOK, ServerInv, NEW r \in Requests, Admit(r) \/ PanicRecovered(r)
  PROVE  ServerInv'
<1> USE ActorsTyped
    DEF ServerInv, SettingsChecked, OpenedInOrder, ClosedInOrder, ActorsHaveStores,
        RelayHasRedis, BusEmptied, RequestsAnswered, StoresOutliveUsers, Untouched,
        DispatcherDone, NoTask, Fatal, InFlight, Starting, Stopping, Fail,
        setupVars, workVars, Becomes, Running, ContextDone
<1>1. CASE Admit(r)
  BY <1>1 DEF Admit
<1>2. CASE PanicRecovered(r)
  BY <1>2 DEF PanicRecovered
<1> QED BY <1>1, <1>2

\* Workers go round, or die on the closed bus.
LEMMA WorkerStep ==
  ASSUME ServerTypeOK, ServerInv, NEW w \in Workers,
         NextPass(w) \/ WorkerStops(w) \/ PanicUnrecovered(w)
  PROVE  ServerInv'
<1> USE ActorsTyped, ServerAssumption
    DEF ServerInv, SettingsChecked, OpenedInOrder, ClosedInOrder, ActorsHaveStores,
        RelayHasRedis, BusEmptied, RequestsAnswered, StoresOutliveUsers, Untouched,
        DispatcherDone, NoTask, Fatal, InFlight, Starting, Stopping, Fail,
        setupVars, workVars, Becomes, Running, ContextDone
<1>1. CASE NextPass(w)
  BY <1>1 DEF NextPass
<1>2. CASE WorkerStops(w)
  BY <1>2 DEF WorkerStops
<1>3. CASE PanicUnrecovered(w)
  BY <1>3 DEF PanicUnrecovered
<1> QED BY <1>1, <1>2, <1>3

\* The dispatcher only works off what is there.
LEMMA DispatcherStep ==
  ASSUME ServerTypeOK, ServerInv, Dispatcher
  PROVE  ServerInv'
<1> USE ActorsTyped
    DEF ServerInv, SettingsChecked, OpenedInOrder, ClosedInOrder, ActorsHaveStores,
        RelayHasRedis, BusEmptied, RequestsAnswered, StoresOutliveUsers, Untouched,
        DispatcherDone, NoTask, Fatal, InFlight, Starting, Stopping, Fail,
        setupVars, workVars, Becomes, Running, ContextDone
<1>1. CASE Dispatch
  BY <1>1 DEF Dispatch
<1>2. CASE Handle
  BY <1>2 DEF Handle
<1>3. CASE Relay
  BY <1>3 DEF Relay
<1> QED BY <1>1, <1>2, <1>3 DEF Dispatcher

\* The probes keep what the rest of the server has, and the other way round.
LEMMA ServerInvStep ==
  ServerTypeOK /\ ServerInv /\ [ServerNext]_<<serverVars, healthVars>> => ServerInv'
<1> SUFFICES ASSUME ServerTypeOK, ServerInv, [ServerNext]_<<serverVars, healthVars>>
             PROVE  ServerInv'
  OBVIOUS
<1>1. CASE UNCHANGED serverVars
  BY <1>1 DEF serverVars, ServerInv, SettingsChecked, OpenedInOrder, ClosedInOrder,
     ActorsHaveStores, RelayHasRedis, BusEmptied, RequestsAnswered, StoresOutliveUsers, Untouched,
     DispatcherDone, Fatal, InFlight
<1>2. CASE Signal
  BY <1>2 DEF Signal, setupVars, workVars, ServerInv, SettingsChecked, OpenedInOrder,
              ClosedInOrder,
     ActorsHaveStores, RelayHasRedis, BusEmptied, RequestsAnswered, StoresOutliveUsers, Untouched,
     DispatcherDone, Fatal, InFlight
<1> QED
  BY <1>1, <1>2, MainStep, ActorStep, RequestStep, WorkerStep, DispatcherStep
     DEF ServerNext, Process

\* A server starts with everything closed.
LEMMA ServerInvInit == ServerInit => ServerInv
BY DEF ServerInit, ServerInv, SettingsChecked, OpenedInOrder, ClosedInOrder,
   ActorsHaveStores, RelayHasRedis, BusEmptied, RequestsAnswered, StoresOutliveUsers, Untouched,
   DispatcherDone, Fatal, InFlight, Starting, NoTask, InProduction

-------------------------------------------------------------------------------
(***************************************************************************)
(* The theorems of the server process.                                     *)
(***************************************************************************)

\* The inductive invariant of the server process.
THEOREM ServerSafetyInvariant == ServerSpec => [](ServerTypeOK /\ ServerInv /\ Heard)
<1>1. ServerInit => ServerTypeOK /\ ServerInv /\ Heard
  BY ServerTypeInit, ServerInvInit
<1>2. ServerTypeOK /\ ServerInv /\ Heard /\ [ServerNext]_<<serverVars, healthVars>>
        => (ServerTypeOK /\ ServerInv /\ Heard)'
  BY ServerTypeStep, ServerInvStep
<1> QED BY <1>1, <1>2, PTL DEF ServerSpec

\* Every reachable state of the server process has the declared types.
THEOREM ServerTypeCorrect == ServerSpec => []ServerTypeOK
BY ServerSafetyInvariant, PTL

\* Settings that could be opened at all agree on the network, and in production
\* a missing store has ended the start.
THEOREM OneNetwork == ServerSpec => []ServesOneNetwork
<1>1. ServerInv => ServesOneNetwork
  <2> SUFFICES ASSUME ServerInv, main \in {"listen", "serving", "draining"}
               PROVE  /\ RequestNetwork(settings) = settings.authNetwork
                      /\ InProduction(settings) =>
                           settings.authNetwork = "main" /\ opened = {"postgres", "redis"}
    BY DEF ServesOneNetwork
  <2>1. Valid(settings)
    BY DEF ServerInv, SettingsChecked
  <2>2. RequestNetwork(settings) = settings.authNetwork
    BY <2>1 DEF Valid, RequestNetwork, NetworksConsistent, PaymentsComplete, PaymentsEnabled
  <2>3. InProduction(settings) => settings.authNetwork = "main"
    BY <2>1 DEF Valid, SignInFits
  <2>4. InProduction(settings) => opened = {"postgres", "redis"}
    BY DEF ServerInv, OpenedInOrder, Fatal, Starting
  <2> QED BY <2>2, <2>3, <2>4
<1> QED BY <1>1, ServerSafetyInvariant, PTL

\* A store is closed after everybody who uses it has ended.
THEOREM StoresAreClosedLast == ServerSpec => []StoresOutliveUsers
<1>1. ServerInv => StoresOutliveUsers
  BY DEF ServerInv
<1> QED BY <1>1, ServerSafetyInvariant, PTL

\* An exit without error has answered every request; no exit but a crash loses
\* an event that the bus had accepted.
THEOREM ExitIsOrderly == ServerSpec => []OrderlyExit
<1>1. ServerInv => OrderlyExit
  BY DEF ServerInv, OrderlyExit, BusEmptied, ClosedInOrder, RequestsAnswered, DispatcherDone
<1> QED BY <1>1, ServerSafetyInvariant, PTL

\* Payments are reported ready only within the time to live and the timeout of
\* the RPC's last word.
THEOREM ReadyIsReachable == ServerSpec => []ReadyMeansReachable
<1>1. Heard => ReadyMeansReachable
  BY DEF Heard
<1> QED BY <1>1, ServerSafetyInvariant, PTL
===============================================================================
