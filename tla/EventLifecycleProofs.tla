------------------------- MODULE EventLifecycleProofs -------------------------
(***************************************************************************)
(* Theorems of EventLifecycle for any users, events, calendars, places,     *)
(* bodies and number of requests.                                           *)
(***************************************************************************)
EXTENDS EventLifecycle, FiniteSetTheorems, TLAPS

-------------------------------------------------------------------------------
(***************************************************************************)
(* The invariant: a request knows what it is about; one at a time holds a   *)
(* row, and what it has read of the row under the lock is still so; a free  *)
(* event has no buyers, and its seats are exact.                            *)
(***************************************************************************)

Holds(job) == job.step \in {"locked", "counted"}

Shaped(job) ==
  /\ job.op = "create" => job.draft \in Drafts
  /\ job.op = "edit" => job.patch \in Patches
  /\ job.op \in {"edit", "cancel", "rsvp", "leave"} => job.event \in Events
  /\ job.op \in {"create", "rsvp", "leave", "delete"} => job.user \in Users
  /\ job.op = "calendar" => job.calendar \in Calendars
  /\ job.op = "place" => job.place \in Places
  /\ Holds(job) => job.op \in {"rsvp", "edit"}

Holding(job, row) ==
  /\ row.status = "published"
  /\ job.op = "rsvp" => ~row.paid
  /\ job.step = "counted" =>
       /\ ~row.paid => job.seats = Cardinality(row.participants)
       /\ job.op = "edit" /\ ~job.paidActivity => row.buyers = {}

JobsOK ==
  \A p \in Requests : Shaped(jobs[p]) /\ (Holds(jobs[p]) => Holding(jobs[p], events[jobs[p].event]))

Alone ==
  \A p, q \in Requests :
    Holds(jobs[p]) /\ Holds(jobs[q]) /\ jobs[p].event = jobs[q].event => p = q

Seated(row) ==
  ~row.paid =>
    /\ row.buyers = {}
    /\ row.capacity # None => Cardinality(row.participants) <= row.capacity
    /\ row.count = Cardinality(row.participants)

RowsOK == \A e \in Events : Seated(events[e])

LifecycleInv == TypeOK /\ JobsOK /\ Alone /\ RowsOK

\* The sets of users that are counted are finite.
LEMMA Counts ==
  ASSUME NEW S \in SUBSET Users
  PROVE  Cardinality(S) \in Nat
BY LifecycleAssumption, FS_Subset, FS_CardinalityType

-------------------------------------------------------------------------------
\* A request goes on, and no row changes.
LEMMA Moves ==
  ASSUME LifecycleInv, NEW p \in Requests, NEW job \in Job, Shaped(job),
         jobs' = [jobs EXCEPT ![p] = job], UNCHANGED events,
         Holds(job) =>
           /\ Holding(job, events[job.event])
           /\ RowFree(job.event) \/ (Holds(jobs[p]) /\ jobs[p].event = job.event)
  PROVE  jobs' \in [Requests -> Job] /\ JobsOK' /\ Alone' /\ RowsOK'
<1>1. jobs \in [Requests -> Job]
  BY DEF LifecycleInv, TypeOK
<1>2. jobs' \in [Requests -> Job] /\ jobs'[p] = job /\ \A q \in Requests : q # p => jobs'[q] = jobs[q]
  BY <1>1
<1>3. JobsOK'
  BY <1>2 DEF LifecycleInv, JobsOK
<1>4. Alone'
  BY <1>2 DEF LifecycleInv, Alone, RowFree, Holds
<1> QED BY <1>2, <1>3, <1>4 DEF LifecycleInv, RowsOK

\* A request ends, having changed rows that no other one holds.
LEMMA Finishes ==
  ASSUME LifecycleInv, NEW p \in Requests, Done(p),
         \A e \in Events : events'[e] = events[e]
           \/ (Seated(events'[e])
               /\ \A q \in Requests : q # p /\ Holds(jobs[q]) => jobs[q].event # e)
  PROVE  jobs' \in [Requests -> Job] /\ JobsOK' /\ Alone' /\ RowsOK'
<1>1. jobs \in [Requests -> Job]
  BY DEF LifecycleInv, TypeOK
<1>2. Idle \in Job /\ Idle.op = None /\ Idle.step = "idle"
  BY LifecycleAssumption DEF Idle, Job, Times
<1>3. jobs' \in [Requests -> Job] /\ jobs'[p] = Idle /\ \A q \in Requests : q # p => jobs'[q] = jobs[q]
  BY <1>1, <1>2 DEF Done
<1>4. ~Holds(Idle)
  BY <1>2 DEF Holds
<1>5. JobsOK'
  <2>1. Shaped(Idle)
    BY <1>2, <1>4, LifecycleAssumption DEF Shaped, Operations
  <2>2. ASSUME NEW q \in Requests, q # p, Holds(jobs[q])
        PROVE  events'[jobs[q].event] = events[jobs[q].event]
    <3>1. jobs[q].event \in Events
      BY <2>2 DEF LifecycleInv, JobsOK, Shaped
    <3> QED BY <2>2, <3>1
  <2> QED BY <1>3, <1>4, <2>1, <2>2 DEF LifecycleInv, JobsOK
<1>6. Alone'
  BY <1>3, <1>4 DEF LifecycleInv, Alone
<1>7. RowsOK'
  BY DEF LifecycleInv, RowsOK
<1> QED BY <1>3, <1>5, <1>6, <1>7

LEMMA Asked ==
  ASSUME NEW op \in Operations, NEW u \in Users \cup {None}
  PROVE  /\ Request(op, u) \in Job
         /\ Request(op, u).op = op /\ Request(op, u).user = u /\ Request(op, u).step = "admitted"
<1> DEFINE a == [Idle EXCEPT !.step = "admitted"]
           b == [a EXCEPT !.op = op]
           d == [b EXCEPT !.user = u]
<1>1. Idle \in Job
  BY LifecycleAssumption DEF Idle, Job, Times
<1>2. a \in Job /\ a.step = "admitted"
  BY <1>1 DEF Job
<1> HIDE DEF a
<1>3. b \in Job /\ b.step = "admitted" /\ b.op = op
  BY <1>2 DEF Job
<1> HIDE DEF b
<1>4. d \in Job /\ d.step = "admitted" /\ d.op = op /\ d.user = u
  BY <1>3 DEF Job
<1>5. Request(op, u) = d
  BY DEF Request, a, b
<1> HIDE DEF d
<1> QED BY <1>4, <1>5

-------------------------------------------------------------------------------
(***************************************************************************)
(* The steps.                                                               *)
(***************************************************************************)

\* The handlers: what a request remembers is of the declared types.
LEMMA Admits ==
  ASSUME LifecycleInv, NEW p \in Requests, NEW job \in Job, job.step = "admitted", Shaped(job),
         Admit(p, job)
  PROVE  LifecycleInv'
<1>1. jobs' = [jobs EXCEPT ![p] = job] /\ UNCHANGED <<clock, deleted, places, calendars, followers, events>>
  BY DEF Admit, directory
<1>2. ~Holds(job)
  BY DEF Holds
<1>3. jobs' \in [Requests -> Job] /\ JobsOK' /\ Alone' /\ RowsOK'
  BY <1>1, <1>2, Moves
<1> QED BY <1>1, <1>3 DEF LifecycleInv, TypeOK

LEMMA UserAdmitted ==
  ASSUME LifecycleInv, NEW p \in Requests, NEW u \in Users, AdmitUser(p, u)
  PROVE  LifecycleInv'
<1> DEFINE R(op) == Request(op, u)
<1>1. ASSUME NEW op \in Operations
      PROVE  R(op) \in Job /\ R(op).op = op /\ R(op).user = u /\ R(op).step = "admitted"
  BY Asked
<1>2. ASSUME NEW op \in Operations
      PROVE  Timed(op, u) \in Job /\ Timed(op, u).op = op /\ Timed(op, u).user = u /\ Timed(op, u).step = "admitted"
  BY <1>1 DEF Timed, Job, LifecycleInv, TypeOK
<1> HIDE DEF R
<1>3. {"create", "edit", "cancel", "rsvp", "leave", "delete", "calendar"} \subseteq Operations
  BY DEF Operations
<1>4. ASSUME NEW d \in Drafts, Admit(p, [R("create") EXCEPT !.draft = d]) PROVE LifecycleInv'
  <2> DEFINE job == [R("create") EXCEPT !.draft = d]
  <2>1. job \in Job /\ job.op = "create" /\ job.user = u /\ job.step = "admitted" /\ job.draft = d
    BY <1>1, <1>3 DEF Job
  <2> HIDE DEF job
  <2>2. Shaped(job)
    BY <2>1 DEF Shaped, Holds
  <2>3. Admit(p, job)
    BY <1>4 DEF job
  <2> QED BY <2>1, <2>2, <2>3, Admits
<1>5. ASSUME NEW e \in Events, NEW patch \in Patches,
             Admit(p, [Timed("edit", u) EXCEPT !.event = e, !.patch = patch])
      PROVE  LifecycleInv'
  <2> DEFINE aimed == [Timed("edit", u) EXCEPT !.event = e]
             job == [aimed EXCEPT !.patch = patch]
  <2>1. aimed \in Job /\ aimed.op = "edit" /\ aimed.step = "admitted" /\ aimed.event = e
    BY <1>2, <1>3 DEF Job
  <2> HIDE DEF aimed
  <2>2. job \in Job /\ job.op = "edit" /\ job.step = "admitted" /\ job.event = e /\ job.patch = patch
    BY <2>1 DEF Job
  <2> HIDE DEF job
  <2>3. Shaped(job)
    BY <2>2 DEF Shaped, Holds
  <2>4. Admit(p, job)
    BY <1>5 DEF job, aimed
  <2> QED BY <2>2, <2>3, <2>4, Admits
<1>6. ASSUME NEW c \in Calendars, Admit(p, [R("calendar") EXCEPT !.calendar = c]) PROVE LifecycleInv'
  <2> DEFINE job == [R("calendar") EXCEPT !.calendar = c]
  <2>1. job \in Job /\ job.op = "calendar" /\ job.step = "admitted" /\ job.calendar = c
    BY <1>1, <1>3 DEF Job
  <2> HIDE DEF job
  <2>2. Shaped(job)
    BY <2>1 DEF Shaped, Holds
  <2>3. Admit(p, job)
    BY <1>6 DEF job
  <2> QED BY <2>1, <2>2, <2>3, Admits
<1>7. ASSUME NEW e \in Events, NEW op \in {"leave", "cancel"}, Admit(p, [R(op) EXCEPT !.event = e])
      PROVE  LifecycleInv'
  <2> DEFINE job == [R(op) EXCEPT !.event = e]
  <2>1. job \in Job /\ job.op = op /\ job.user = u /\ job.step = "admitted" /\ job.event = e
    BY <1>1, <1>3 DEF Job
  <2> HIDE DEF job
  <2>2. Shaped(job)
    BY <2>1 DEF Shaped, Holds
  <2>3. Admit(p, job)
    BY <1>7 DEF job
  <2> QED BY <2>1, <2>2, <2>3, Admits
<1>8. ASSUME NEW e \in Events, Admit(p, [Timed("rsvp", u) EXCEPT !.event = e]) PROVE LifecycleInv'
  <2> DEFINE job == [Timed("rsvp", u) EXCEPT !.event = e]
  <2>1. job \in Job /\ job.op = "rsvp" /\ job.user = u /\ job.step = "admitted" /\ job.event = e
    BY <1>2, <1>3 DEF Job
  <2> HIDE DEF job
  <2>2. Shaped(job)
    BY <2>1 DEF Shaped, Holds
  <2>3. Admit(p, job)
    BY <1>8 DEF job
  <2> QED BY <2>1, <2>2, <2>3, Admits
<1>9. CASE AdmitDelete(p, u)
  <2>1. Admit(p, Timed("delete", u))
    BY <1>9 DEF AdmitDelete
  <2>2. Shaped(Timed("delete", u))
    BY <1>2, <1>3 DEF Shaped, Holds
  <2> QED BY <1>2, <1>3, <2>1, <2>2, Admits
<1>10. CASE AdmitCreate(p, u)
  BY <1>4, <1>10 DEF AdmitCreate, R
<1>11. CASE AdmitEdit(p, u)
  BY <1>5, <1>11 DEF AdmitEdit
<1>12. CASE AdmitCancel(p, u)
  BY <1>7, <1>12 DEF AdmitCancel, R
<1>13. CASE AdmitParticipation(p, u)
  BY <1>7, <1>8, <1>13 DEF AdmitParticipation, R
<1>14. CASE AdmitCalendar(p, u)
  BY <1>6, <1>14 DEF AdmitCalendar, R
<1> QED BY <1>9, <1>10, <1>11, <1>12, <1>13, <1>14 DEF AdmitUser

LEMMA OperatorAdmitted ==
  ASSUME LifecycleInv, NEW p \in Requests, AdmitCancel(p, None) \/ AdmitPlace(p)
  PROVE  LifecycleInv'
<1> DEFINE R(op) == Request(op, None)
<1>1. ASSUME NEW op \in Operations
      PROVE  R(op) \in Job /\ R(op).op = op /\ R(op).step = "admitted"
  BY Asked
<1> HIDE DEF R
<1>2. {"cancel", "place"} \subseteq Operations
  BY DEF Operations
<1>3. ASSUME NEW e \in Events, Admit(p, [R("cancel") EXCEPT !.event = e]) PROVE LifecycleInv'
  <2> DEFINE job == [R("cancel") EXCEPT !.event = e]
  <2>1. job \in Job /\ job.op = "cancel" /\ job.step = "admitted" /\ job.event = e
    BY <1>1, <1>2 DEF Job
  <2> HIDE DEF job
  <2>2. Shaped(job)
    BY <2>1 DEF Shaped, Holds
  <2>3. Admit(p, job)
    BY <1>3 DEF job
  <2> QED BY <2>1, <2>2, <2>3, Admits
<1>4. ASSUME NEW l \in Places,
             Admit(p, [R("place") EXCEPT !.place = l, !.active = (places[l] = "active")])
      PROVE  LifecycleInv'
  <2> DEFINE named == [R("place") EXCEPT !.place = l]
             job == [named EXCEPT !.active = (places[l] = "active")]
  <2>1. named \in Job /\ named.op = "place" /\ named.step = "admitted" /\ named.place = l
    BY <1>1, <1>2 DEF Job
  <2> HIDE DEF named
  <2>2. job \in Job /\ job.op = "place" /\ job.step = "admitted" /\ job.place = l
    BY <2>1 DEF Job
  <2> HIDE DEF job
  <2>3. Shaped(job)
    BY <2>2 DEF Shaped, Holds
  <2>4. Admit(p, job)
    BY <1>4 DEF job, named
  <2> QED BY <2>2, <2>3, <2>4, Admits
<1> QED BY <1>3, <1>4 DEF AdmitCancel, AdmitPlace, R

\* A row that is free, or that the request alone holds.
LEMMA Mine ==
  ASSUME LifecycleInv, NEW p \in Requests, NEW e \in Events,
         RowFree(e) \/ (Holds(jobs[p]) /\ jobs[p].event = e)
  PROVE  \A q \in Requests : q # p /\ Holds(jobs[q]) => jobs[q].event # e
BY DEF LifecycleInv, Alone, RowFree, Holds

\* A request that changes one row, and ends.
LEMMA Writes ==
  ASSUME LifecycleInv, NEW p \in Requests, NEW e \in Events, NEW row \in Event, Seated(row),
         RowFree(e) \/ (Holds(jobs[p]) /\ jobs[p].event = e),
         events' = events \/ events' = [events EXCEPT ![e] = row],
         Done(p), UNCHANGED <<clock, deleted, places, calendars, followers>>
  PROVE  LifecycleInv'
<1>1. events \in [Events -> Event]
  BY DEF LifecycleInv, TypeOK
<1>2. events' \in [Events -> Event]
  BY <1>1
<1>3. \A q \in Requests : q # p /\ Holds(jobs[q]) => jobs[q].event # e
  BY Mine
<1>4. \A f \in Events : events'[f] = events[f]
        \/ (Seated(events'[f]) /\ \A q \in Requests : q # p /\ Holds(jobs[q]) => jobs[q].event # f)
  BY <1>1, <1>3
<1>5. jobs' \in [Requests -> Job] /\ JobsOK' /\ Alone' /\ RowsOK'
  BY <1>4, Finishes
<1> QED BY <1>2, <1>5 DEF LifecycleInv, TypeOK

LEMMA Creates ==
  ASSUME LifecycleInv, NEW p \in Requests, NEW e \in Events, CreateEvent(p, e)
  PROVE  LifecycleInv'
<1> DEFINE d == jobs[p].draft
           a == [NoEvent EXCEPT !.status = "published"]
           b == [a EXCEPT !.organizer = jobs[p].user]
           s == [b EXCEPT !.starts = d.starts]
           t == [s EXCEPT !.ends = d.ends]
           c == [t EXCEPT !.capacity = d.capacity]
           f == [c EXCEPT !.paid = d.paid]
           l == [f EXCEPT !.place = d.place]
           row == [l EXCEPT !.calendar = d.calendar]
           blank(x) == x \in Event /\ x.participants = {} /\ x.buyers = {} /\ x.count = 0
<1>1. jobs[p].op = "create" /\ jobs[p].user \in Users /\ d \in Draft
  BY LifecycleAssumption DEF CreateEvent, At, LifecycleInv, JobsOK, Shaped
<1>2. /\ d.starts \in Times /\ d.ends \in Times /\ d.capacity \in Capacity /\ d.paid \in BOOLEAN
      /\ d.place \in Places \cup {None} /\ d.calendar \in Calendars \cup {None}
  BY <1>1 DEF Draft
<1>3. events' = [events EXCEPT ![e] = row] /\ Done(p)
      /\ UNCHANGED <<clock, deleted, places, calendars, followers>>
  BY DEF CreateEvent, directory
<1> HIDE DEF d
<1>4. blank(NoEvent)
  BY LifecycleAssumption DEF NoEvent, Event, Capacity, Times
<1>5. blank(a)
  BY <1>4 DEF Event
<1> HIDE DEF a
<1>6. blank(b)
  BY <1>1, <1>5 DEF Event
<1> HIDE DEF b
<1>7. blank(s)
  BY <1>2, <1>6 DEF Event
<1> HIDE DEF s
<1>8. blank(t)
  BY <1>2, <1>7 DEF Event
<1> HIDE DEF t
<1>9. blank(c)
  BY <1>2, <1>8 DEF Event
<1> HIDE DEF c
<1>10. blank(f)
  BY <1>2, <1>9 DEF Event
<1> HIDE DEF f
<1>11. blank(l)
  BY <1>2, <1>10 DEF Event
<1> HIDE DEF l
<1>12. blank(row)
  BY <1>2, <1>11 DEF Event
<1> HIDE DEF row
<1>13. Seated(row)
  BY <1>12, FS_EmptySet, LifecycleAssumption DEF Seated, Event, Capacity
<1>14. RowFree(e)
  BY DEF CreateEvent, RowFree, LifecycleInv, JobsOK, Holding, Holds
<1> QED BY <1>3, <1>12, <1>13, <1>14, Writes

LEMMA Cancels ==
  ASSUME LifecycleInv, NEW p \in Requests, CancelEvent(p)
  PROVE  LifecycleInv'
<1> DEFINE e == jobs[p].event
           row == [events[e] EXCEPT !.status = "cancelled"]
<1>1. e \in Events /\ events \in [Events -> Event]
  BY DEF CancelEvent, At, LifecycleInv, TypeOK, JobsOK, Shaped
<1>2. RowFree(e) /\ Done(p) /\ UNCHANGED <<clock, deleted, places, calendars, followers>>
      /\ (events' = events \/ events' = [events EXCEPT ![e] = row])
  BY DEF CancelEvent, directory
<1>3. row \in Event /\ Seated(row)
  BY <1>1 DEF Event, Seated, LifecycleInv, RowsOK
<1> HIDE DEF e, row
<1> QED BY <1>1, <1>2, <1>3, Writes

\* syncAttendeeCount keeps the seats of a row exact, if those who stay fit it.
LEMMA Syncs ==
  ASSUME LifecycleInv, NEW p \in Requests, NEW e \in Events, NEW joined \in SUBSET Users,
         events[e].capacity # None /\ ~events[e].paid => Cardinality(joined) <= events[e].capacity,
         RowFree(e) \/ (Holds(jobs[p]) /\ jobs[p].event = e),
         events' = events \/ events' = Attended(e, joined),
         Done(p), UNCHANGED <<clock, deleted, places, calendars, followers>>
  PROVE  LifecycleInv'
<1> DEFINE named == [events[e] EXCEPT !.participants = joined]
           row == [named EXCEPT !.count = Cardinality(joined)]
<1>1. events \in [Events -> Event] /\ Cardinality(joined) \in Nat
  BY Counts DEF LifecycleInv, TypeOK
<1>2. named \in Event /\ named.participants = joined /\ named.buyers = events[e].buyers
      /\ named.paid = events[e].paid /\ named.capacity = events[e].capacity
  BY <1>1 DEF Event
<1>3. row \in Event /\ row.participants = joined /\ row.count = Cardinality(joined)
      /\ row.buyers = events[e].buyers /\ row.paid = events[e].paid /\ row.capacity = events[e].capacity
  <2> HIDE DEF named
  <2> QED BY <1>1, <1>2 DEF Event
<1>4. events' = events \/ events' = [events EXCEPT ![e] = row]
  BY <1>1 DEF Attended
<1> HIDE DEF row
<1>5. Seated(row)
  BY <1>3 DEF Seated, LifecycleInv, RowsOK
<1> QED BY <1>3, <1>4, <1>5, Writes

LEMMA Leaves ==
  ASSUME LifecycleInv, NEW p \in Requests, LeaveEvent(p)
  PROVE  LifecycleInv'
<1> DEFINE e == jobs[p].event
           stay == events[e].participants \ {jobs[p].user}
<1>1. e \in Events /\ events[e] \in Event /\ Seated(events[e])
  BY DEF LeaveEvent, At, LifecycleInv, TypeOK, JobsOK, Shaped, RowsOK
<1>2. events[e].participants \in SUBSET Users /\ stay \in SUBSET Users
      /\ (events[e].capacity # None => events[e].capacity \in Nat)
  BY <1>1 DEF Event, Capacity
<1>3. Cardinality(stay) <= Cardinality(events[e].participants)
  <2>1. IsFiniteSet(events[e].participants)
    BY <1>2, LifecycleAssumption, FS_Subset
  <2> QED BY <2>1, FS_Subset
<1>4. Cardinality(stay) \in Nat /\ Cardinality(events[e].participants) \in Nat
  BY <1>2, Counts
<1>5. events[e].capacity # None /\ ~events[e].paid => Cardinality(stay) <= events[e].capacity
  <2> HIDE DEF stay, e
  <2> QED BY <1>1, <1>2, <1>3, <1>4 DEF Seated
<1>6. RowFree(e) /\ Done(p) /\ UNCHANGED <<clock, deleted, places, calendars, followers>>
      /\ (events' = events \/ events' = Attended(e, stay))
  BY DEF LeaveEvent, directory
<1> HIDE DEF e, stay
<1> QED BY <1>1, <1>2, <1>5, <1>6, Syncs

\* A request for a row locks it, or ends.
LEMMA Locks ==
  ASSUME LifecycleInv, NEW p \in Requests, RsvpLock(p) \/ EditLock(p)
  PROVE  LifecycleInv'
<1> DEFINE e == jobs[p].event
           job == [jobs[p] EXCEPT !.step = "locked"]
<1>1. jobs \in [Requests -> Job] /\ Shaped(jobs[p]) /\ e \in Events /\ RowFree(e)
      /\ jobs[p].op \in {"rsvp", "edit"}
  BY DEF RsvpLock, EditLock, At, LifecycleInv, TypeOK, JobsOK, Shaped
<1>2. UNCHANGED <<clock, deleted, places, calendars, followers, events>>
  BY DEF RsvpLock, EditLock, directory
<1>3. CASE Done(p)
  <2>1. jobs' \in [Requests -> Job] /\ JobsOK' /\ Alone' /\ RowsOK'
    BY <1>2, <1>3, Finishes
  <2> QED BY <1>2, <2>1 DEF LifecycleInv, TypeOK
<1>4. CASE ~Done(p)
  <2>1. /\ jobs' = [jobs EXCEPT ![p] = job]
        /\ events[e].status = "published" /\ (jobs[p].op = "rsvp" => ~events[e].paid)
    BY <1>1, <1>4 DEF RsvpLock, EditLock, Joinable, At
  <2>2. /\ job \in Job /\ job.step = "locked" /\ job.event = e /\ job.op = jobs[p].op
        /\ job.patch = jobs[p].patch /\ job.user = jobs[p].user
    BY <1>1 DEF Job
  <2> HIDE DEF job, e
  <2>3. Shaped(job)
    BY <1>1, <2>2 DEF Shaped, Holds
  <2>4. Holding(job, events[e])
    BY <2>1, <2>2 DEF Holding
  <2>5. jobs' \in [Requests -> Job] /\ JobsOK' /\ Alone' /\ RowsOK'
    BY <1>1, <1>2, <2>1, <2>2, <2>3, <2>4, Moves
  <2> QED BY <1>2, <2>5 DEF LifecycleInv, TypeOK
<1> QED BY <1>3, <1>4

\* Under the lock, a free event's participants are counted, buyers or not.
LEMMA CountsRow ==
  ASSUME LifecycleInv, NEW p \in Requests, RsvpCount(p) \/ EditCount(p)
  PROVE  LifecycleInv'
<1> DEFINE e == jobs[p].event
<1>1. /\ jobs \in [Requests -> Job] /\ Shaped(jobs[p]) /\ e \in Events /\ Holds(jobs[p])
      /\ jobs[p].op \in {"rsvp", "edit"} /\ jobs[p].step = "locked" /\ Holding(jobs[p], events[e])
  BY DEF RsvpCount, EditCount, LifecycleInv, TypeOK, JobsOK, Shaped, Holds
<1>2. UNCHANGED <<clock, deleted, places, calendars, followers, events>>
  BY DEF RsvpCount, EditCount, directory
<1>3. events[e] \in Event /\ Seated(events[e])
  BY <1>1 DEF LifecycleInv, TypeOK, RowsOK
<1>4. PICK held \in SUBSET events[e].buyers, activity \in BOOLEAN :
        /\ jobs' = [jobs EXCEPT ![p].step = "counted", ![p].seats = Cardinality(Occupants(e, held)),
                                ![p].paidActivity = activity]
        /\ jobs[p].op = "edit" => (activity <=> events[e].buyers # {})
  <2>1. CASE RsvpCount(p)
    <3>1. PICK held \in SUBSET events[e].buyers :
            jobs' = [jobs EXCEPT ![p].step = "counted", ![p].seats = Cardinality(Occupants(e, held))]
      BY <2>1 DEF RsvpCount
    <3>2. jobs[p].op = "rsvp"
      BY <2>1 DEF RsvpCount
    <3>3. jobs[p].paidActivity \in BOOLEAN
      BY <1>1 DEF Job
    <3> DEFINE n == Cardinality(Occupants(e, held))
    <3>4. jobs' = [jobs EXCEPT ![p].step = "counted", ![p].seats = n,
                               ![p].paidActivity = jobs[p].paidActivity]
      <4> HIDE DEF n
      <4> DEFINE job == [[jobs[p] EXCEPT !.step = "counted"] EXCEPT !.seats = n]
      <4>1. job.paidActivity = jobs[p].paidActivity /\ job \in [step : {"counted"}, op : Operations \cup {None},
        user : Users \cup {None}, event : Events \cup {None}, place : Places \cup {None},
        calendar : Calendars \cup {None}, draft : Drafts \cup {None}, patch : Patches \cup {None},
        now : Times, seats : {n}, paidActivity : BOOLEAN, active : BOOLEAN]
        BY <1>1 DEF Job
      <4>2. job = [job EXCEPT !.paidActivity = jobs[p].paidActivity]
        <5> HIDE DEF job
        <5> QED BY <4>1
      <4>3. jobs' = [jobs EXCEPT ![p] = job]
        BY <1>1, <3>1 DEF n
      <4>4. jobs' = [jobs EXCEPT ![p] = [job EXCEPT !.paidActivity = jobs[p].paidActivity]]
        BY <4>2, <4>3
      <4> QED BY <1>1, <4>4
    <3> QED BY <3>2, <3>3, <3>4
  <2>2. CASE EditCount(p)
    BY <2>2 DEF EditCount
  <2> QED BY <2>1, <2>2
<1> DEFINE n == Cardinality(Occupants(e, held))
           a == [jobs[p] EXCEPT !.step = "counted"]
           b == [a EXCEPT !.seats = n]
           job == [b EXCEPT !.paidActivity = activity]
<1>5. n \in Nat /\ (~events[e].paid => n = Cardinality(events[e].participants))
  <2>1. Occupants(e, held) \in SUBSET Users
    BY <1>3 DEF Occupants, Event
  <2>2. ~events[e].paid => held = {}
    BY <1>3 DEF Seated
  <2>3. ~events[e].paid => Occupants(e, held) = events[e].participants
    BY <2>2 DEF Occupants
  <2> QED BY <2>1, <2>3, Counts
<1>6. jobs' = [jobs EXCEPT ![p] = job]
  BY <1>1, <1>4
<1> HIDE DEF n
<1>7. a \in Job /\ a.step = "counted" /\ a.event = e /\ a.op = jobs[p].op /\ a.patch = jobs[p].patch
      /\ a.user = jobs[p].user
  BY <1>1 DEF Job
<1> HIDE DEF a
<1>8. b \in Job /\ b.step = "counted" /\ b.event = e /\ b.op = jobs[p].op /\ b.patch = jobs[p].patch
      /\ b.user = jobs[p].user /\ b.seats = n
  BY <1>5, <1>7 DEF Job
<1> HIDE DEF b
<1>9. job \in Job /\ job.step = "counted" /\ job.event = e /\ job.op = jobs[p].op /\ job.patch = jobs[p].patch
      /\ job.user = jobs[p].user /\ job.seats = n /\ job.paidActivity = activity
  BY <1>8 DEF Job
<1> HIDE DEF job, e
<1>10. Shaped(job)
  BY <1>1, <1>9 DEF Shaped, Holds
<1>11. Holding(job, events[e])
  BY <1>1, <1>4, <1>5, <1>9 DEF Holding
<1>12. jobs' \in [Requests -> Job] /\ JobsOK' /\ Alone' /\ RowsOK'
  BY <1>1, <1>2, <1>6, <1>9, <1>10, <1>11, Moves DEF e
<1> QED BY <1>2, <1>12 DEF LifecycleInv, TypeOK

\* One more seat is taken only when one is left, counted under the lock.
LEMMA Commits ==
  ASSUME LifecycleInv, NEW p \in Requests, RsvpCommit(p)
  PROVE  LifecycleInv'
<1> DEFINE e == jobs[p].event
           u == jobs[p].user
           here == events[e].participants
<1>1. /\ jobs[p].step = "counted" /\ jobs[p].op = "rsvp" /\ Holds(jobs[p])
      /\ e \in Events /\ u \in Users /\ Holding(jobs[p], events[e])
      /\ events[e] \in Event /\ Seated(events[e])
  BY DEF RsvpCommit, LifecycleInv, TypeOK, RowsOK, JobsOK, Shaped, Holds
<1>2. here \in SUBSET Users /\ (events[e].capacity # None => events[e].capacity \in Nat)
      /\ here \cup {u} \in SUBSET Users
  BY <1>1 DEF Event, Capacity
<1>3. Cardinality(here) \in Nat /\ jobs[p].seats = Cardinality(here) /\ ~events[e].paid
  BY <1>1, <1>2, Counts DEF Holding
<1>4. u \notin here => Cardinality(here \cup {u}) = Cardinality(here) + 1
  <2>1. IsFiniteSet(here)
    BY <1>2, LifecycleAssumption, FS_Subset
  <2> QED BY <2>1, FS_AddElement
<1>5. Done(p) /\ UNCHANGED <<clock, deleted, places, calendars, followers>>
  BY DEF RsvpCommit, directory
<1>6. CASE events' = events \/ events' = Attended(e, here)
  BY <1>1, <1>2, <1>5, <1>6, Syncs DEF Seated
<1>7. CASE u \notin here /\ SeatLeft(e, jobs[p].seats) /\ events' = Attended(e, here \cup {u})
  <2>1. events[e].capacity # None => Cardinality(here \cup {u}) <= events[e].capacity
    BY <1>2, <1>3, <1>4, <1>7 DEF SeatLeft
  <2> HIDE DEF e, here, u
  <2> QED BY <1>1, <1>2, <1>5, <1>7, <2>1, Syncs DEF e
<1> QED BY <1>6, <1>7 DEF RsvpCommit

\* An edit leaves a schedule, a capacity and a place of their types.
LEMMA Edits ==
  ASSUME LifecycleInv, NEW p \in Requests, EditCommit(p)
  PROVE  LifecycleInv'
<1> DEFINE e == jobs[p].event
           patch == jobs[p].patch
           a == [events[e] EXCEPT !.starts = Patched(patch.starts, events[e].starts)]
           b == [a EXCEPT !.ends = Patched(patch.ends, events[e].ends)]
           c == [b EXCEPT !.capacity = Patched(patch.capacity, events[e].capacity)]
           row == [c EXCEPT !.place = Patched(patch.place, events[e].place)]
           same(x) == x.participants = events[e].participants /\ x.count = events[e].count
                      /\ x.buyers = events[e].buyers /\ x.paid = events[e].paid
<1>1. /\ jobs[p].step = "counted" /\ jobs[p].op = "edit" /\ Holds(jobs[p])
      /\ e \in Events /\ patch \in Patches /\ Holding(jobs[p], events[e])
      /\ events[e] \in Event /\ Seated(events[e]) /\ events \in [Events -> Event]
  BY DEF EditCommit, LifecycleInv, TypeOK, RowsOK, JobsOK, Shaped, Holds
<1>2. /\ patch.starts \in Times \cup {Keep} /\ patch.ends \in Times \cup {Keep}
      /\ patch.capacity \in Capacity \cup {Keep} /\ patch.place \in Places \cup {None, Keep}
  BY <1>1, LifecycleAssumption DEF Patch
<1>3. Done(p) /\ UNCHANGED <<clock, deleted, places, calendars, followers>>
  BY DEF EditCommit, directory
<1>4. CASE events' = events
  BY <1>1, <1>3, <1>4, Writes
<1>5. CASE events' # events
  <2>1. EditAllowed(p, e) /\ events' = [events EXCEPT ![e] = row]
    BY <1>1, <1>5 DEF EditCommit, Patched
  <2>2. patch.capacity \notin {Keep, None} => jobs[p].seats <= patch.capacity
    BY <2>1 DEF EditAllowed
  <2> HIDE DEF e, patch
  <2>3. a \in Event /\ same(a) /\ a.capacity = events[e].capacity /\ a.ends = events[e].ends
        /\ a.place = events[e].place
    BY <1>1, <1>2 DEF Event, Patched
  <2> HIDE DEF a
  <2>4. b \in Event /\ same(b) /\ b.capacity = events[e].capacity /\ b.place = events[e].place
    BY <1>1, <1>2, <2>3 DEF Event, Patched
  <2> HIDE DEF b
  <2>5. c \in Event /\ same(c) /\ c.capacity = Patched(patch.capacity, events[e].capacity)
        /\ c.place = events[e].place
    BY <1>1, <1>2, <2>4 DEF Event, Patched
  <2> HIDE DEF c
  <2>6. row \in Event /\ same(row) /\ row.capacity = Patched(patch.capacity, events[e].capacity)
    BY <1>1, <1>2, <2>5 DEF Event, Patched
  <2> HIDE DEF row
  <2>7. Seated(row)
    BY <1>1, <2>2, <2>6 DEF Seated, Patched, Holding, e
  <2> QED BY <1>1, <1>3, <2>1, <2>6, <2>7, Writes DEF e
<1> QED BY <1>4, <1>5

\* Purchases come under the lock of a paid event, and go at any time.
LEMMA Purchases ==
  ASSUME LifecycleInv, NEW e \in Events, NEW u \in Users, Buy(e, u) \/ PurchaseEnds(e, u)
  PROVE  LifecycleInv'
<1>1. events \in [Events -> Event] /\ Seated(events[e]) /\ events[e].buyers \in SUBSET Users
  BY DEF LifecycleInv, TypeOK, RowsOK, Event
<1>2. UNCHANGED <<clock, deleted, places, calendars, followers, jobs>>
  BY DEF Buy, PurchaseEnds, directory
<1>3. PICK buyers \in SUBSET Users :
        /\ events' = [events EXCEPT ![e].buyers = buyers]
        /\ Buy(e, u) \/ buyers \subseteq events[e].buyers
  BY <1>1 DEF Buy, PurchaseEnds
<1> DEFINE row == [events[e] EXCEPT !.buyers = buyers]
<1>4. /\ row \in Event /\ row.buyers = buyers /\ row.status = events[e].status
      /\ row.participants = events[e].participants /\ row.count = events[e].count
      /\ row.paid = events[e].paid /\ row.capacity = events[e].capacity
  BY <1>1, <1>3 DEF Event
<1>5. events' = [events EXCEPT ![e] = row]
  BY <1>1, <1>3
<1> HIDE DEF row
<1>6. events' \in [Events -> Event] /\ events'[e] = row
      /\ \A f \in Events : f # e => events'[f] = events[f]
  BY <1>1, <1>4, <1>5
<1>7. Seated(row)
  BY <1>1, <1>3, <1>4 DEF Seated, Buy
<1>8. RowsOK'
  BY <1>6, <1>7 DEF LifecycleInv, RowsOK
<1>9. ASSUME NEW q \in Requests, Holds(jobs[q]) PROVE Holding(jobs[q], events'[jobs[q].event])
  <2>1. jobs[q].event \in Events /\ Holding(jobs[q], events[jobs[q].event])
    BY <1>9 DEF LifecycleInv, JobsOK, Shaped
  <2>2. CASE jobs[q].event # e
    BY <1>6, <2>1, <2>2
  <2>3. CASE jobs[q].event = e
    <3>1. ~Buy(e, u)
      BY <1>9, <2>3 DEF Buy, RowFree, Holds
    <3>2. buyers \subseteq events[e].buyers
      BY <1>3, <3>1
    <3> QED BY <1>4, <1>6, <2>1, <2>3, <3>2 DEF Holding
  <2> QED BY <2>2, <2>3
<1>10. JobsOK' /\ Alone'
  BY <1>2, <1>9 DEF LifecycleInv, JobsOK, Alone
<1> QED BY <1>2, <1>6, <1>8, <1>10 DEF LifecycleInv, TypeOK

\* The rest of what a request or a person does changes no event.
LEMMA Others ==
  ASSUME LifecycleInv,
         \/ \E p \in Requests : UpdatePlace(p) \/ ArchiveCalendar(p)
                                \/ \E public \in BOOLEAN : UpdateCalendar(p, public)
         \/ \E c \in Calendars, u \in Users, public \in BOOLEAN : CreateCalendar(c, u, public)
         \/ \E c \in Calendars, u \in Users : Follow(c, u) \/ Unfollow(c, u)
         \/ \E l \in Places, active \in BOOLEAN : CreatePlace(l, active)
         \/ Tick
  PROVE  LifecycleInv'
<1>1. /\ clock \in Times /\ deleted \subseteq Users /\ followers \subseteq Calendars \X Users
      /\ places \in [Places -> {"none", "active", "inactive"}] /\ calendars \in [Calendars -> Calendar]
  BY DEF LifecycleInv, TypeOK
<1>2. events' = events /\ deleted' = deleted
  BY DEF UpdatePlace, ArchiveCalendar, UpdateCalendar, CreateCalendar, Follow, Unfollow, CreatePlace, Tick
<1>3. clock' \in Times
  <2>1. CASE clock' = clock
    BY <1>1, <2>1
  <2>2. CASE Tick
    BY <1>1, <2>2, LifecycleAssumption DEF Times, Tick
  <2> QED BY <2>1, <2>2
      DEF UpdatePlace, ArchiveCalendar, UpdateCalendar, CreateCalendar, Follow, Unfollow, CreatePlace
<1>4. places' \in [Places -> {"none", "active", "inactive"}] /\ followers' \subseteq Calendars \X Users
  <2>1. CASE places' = places /\ followers' = followers
    BY <1>1, <2>1
  <2>2. ASSUME NEW p \in Requests, UpdatePlace(p) PROVE places' \in [Places -> {"none", "active", "inactive"}]
    BY <1>1, <2>2 DEF UpdatePlace
  <2>3. ASSUME NEW l \in Places, NEW active \in BOOLEAN, CreatePlace(l, active)
        PROVE  places' \in [Places -> {"none", "active", "inactive"}]
    BY <1>1, <2>3 DEF CreatePlace
  <2>4. ASSUME NEW c \in Calendars, NEW u \in Users, Follow(c, u) \/ Unfollow(c, u)
        PROVE  followers' \subseteq Calendars \X Users
    BY <1>1, <2>4 DEF Follow, Unfollow
  <2>5. (\E p \in Requests : UpdatePlace(p)) \/ (\E l \in Places, active \in BOOLEAN : CreatePlace(l, active))
          => followers' = followers
    BY DEF UpdatePlace, CreatePlace
  <2>6. (\E c \in Calendars, u \in Users : Follow(c, u) \/ Unfollow(c, u)) => places' = places
    BY DEF Follow, Unfollow
  <2>7. (\E p \in Requests : ArchiveCalendar(p) \/ \E public \in BOOLEAN : UpdateCalendar(p, public))
        \/ (\E c \in Calendars, u \in Users, public \in BOOLEAN : CreateCalendar(c, u, public)) \/ Tick
          => places' = places /\ followers' = followers
    BY DEF ArchiveCalendar, UpdateCalendar, CreateCalendar, Tick
  <2> QED BY <1>1, <2>1, <2>2, <2>3, <2>4, <2>5, <2>6, <2>7
<1>5. calendars' \in [Calendars -> Calendar]
  <2>1. CASE calendars' = calendars
    BY <1>1, <2>1
  <2>2. ASSUME NEW c \in Calendars, NEW u \in Users, NEW public \in BOOLEAN, CreateCalendar(c, u, public)
        PROVE  calendars' \in [Calendars -> Calendar]
    BY <1>1, <2>2 DEF CreateCalendar, Calendar
  <2>3. ASSUME NEW p \in Requests, NEW public \in BOOLEAN, UpdateCalendar(p, public)
        PROVE  calendars' \in [Calendars -> Calendar]
    BY <1>1, <2>3 DEF UpdateCalendar, Calendar
  <2>4. ASSUME NEW p \in Requests, ArchiveCalendar(p) PROVE calendars' \in [Calendars -> Calendar]
    BY <1>1, <2>4 DEF ArchiveCalendar, Calendar
  <2> QED BY <2>1, <2>2, <2>3, <2>4 DEF UpdatePlace, Follow, Unfollow, CreatePlace, Tick
<1>7. jobs' \in [Requests -> Job] /\ JobsOK' /\ Alone' /\ RowsOK'
  <2>1. CASE jobs' = jobs
    BY <1>2, <2>1 DEF LifecycleInv, TypeOK, JobsOK, Alone, RowsOK
  <2>2. ASSUME NEW p \in Requests, Done(p) PROVE jobs' \in [Requests -> Job] /\ JobsOK' /\ Alone' /\ RowsOK'
    BY <1>2, <2>2, Finishes
  <2> QED BY <2>1, <2>2
      DEF UpdatePlace, ArchiveCalendar, UpdateCalendar, CreateCalendar, Follow, Unfollow, CreatePlace, Tick
<1> QED BY <1>1, <1>2, <1>3, <1>4, <1>5, <1>7 DEF LifecycleInv, TypeOK

LEMMA Deletes ==
  ASSUME LifecycleInv, NEW p \in Requests, DeleteAccount(p)
  PROVE  LifecycleInv'
<1>1. jobs[p].user \in Users /\ events \in [Events -> Event] /\ calendars \in [Calendars -> Calendar]
      /\ deleted \subseteq Users
  BY DEF DeleteAccount, At, LifecycleInv, TypeOK, JobsOK, Shaped
<1>2. /\ deleted' = deleted \cup {jobs[p].user}
      /\ \A e \in Events : CancelledByDeletion(p, e) => RowFree(e)
      /\ calendars' = [c \in Calendars |->
                         IF calendars[c].owner = jobs[p].user THEN [calendars[c] EXCEPT !.status = "archived"]
                         ELSE calendars[c]]
      /\ events' = [e \in Events |->
                      IF CancelledByDeletion(p, e) THEN [events[e] EXCEPT !.status = "cancelled"]
                      ELSE events[e]]
      /\ Done(p) /\ UNCHANGED <<clock, places, followers>>
  BY DEF DeleteAccount
<1>3. calendars' \in [Calendars -> Calendar]
  BY <1>1, <1>2 DEF Calendar
<1>4. ASSUME NEW e \in Events, CancelledByDeletion(p, e)
      PROVE  events'[e] \in Event /\ Seated(events'[e])
  <2>1. events'[e] = [events[e] EXCEPT !.status = "cancelled"]
    BY <1>2, <1>4
  <2> QED BY <1>1, <2>1 DEF Event, Seated, LifecycleInv, RowsOK
<1>5. events' \in [Events -> Event]
  BY <1>1, <1>2, <1>4
<1>6. \A e \in Events : events'[e] = events[e]
        \/ (Seated(events'[e]) /\ \A q \in Requests : q # p /\ Holds(jobs[q]) => jobs[q].event # e)
  <2>1. ASSUME NEW e \in Events, events'[e] # events[e]
        PROVE  Seated(events'[e]) /\ \A q \in Requests : q # p /\ Holds(jobs[q]) => jobs[q].event # e
    <3>1. CancelledByDeletion(p, e)
      BY <1>2, <2>1
    <3> QED BY <1>2, <1>4, <3>1, Mine
  <2> QED BY <2>1
<1>7. jobs' \in [Requests -> Job] /\ JobsOK' /\ Alone' /\ RowsOK'
  BY <1>2, <1>6, Finishes
<1> QED BY <1>1, <1>2, <1>3, <1>5, <1>7 DEF LifecycleInv, TypeOK

LEMMA StartInv == Init => LifecycleInv
<1> SUFFICES ASSUME Init PROVE LifecycleInv
  OBVIOUS
<1>1. Idle \in Job /\ Idle.op = None /\ Idle.step = "idle" /\ NoEvent \in Event /\ NoCalendar \in Calendar
  BY LifecycleAssumption DEF Idle, Job, Times, NoEvent, Event, Capacity, NoCalendar, Calendar
<1>2. Shaped(Idle) /\ ~Holds(Idle)
  BY <1>1, LifecycleAssumption DEF Shaped, Holds, Operations
<1>3. Seated(NoEvent)
  BY FS_EmptySet DEF Seated, NoEvent
<1>4. TypeOK
  BY <1>1, LifecycleAssumption DEF Init, TypeOK, Times
<1>5. JobsOK /\ Alone /\ RowsOK
  BY <1>2, <1>3 DEF Init, JobsOK, Alone, RowsOK
<1> QED BY <1>4, <1>5 DEF LifecycleInv

LEMMA StepInv == LifecycleInv /\ [Next]_vars => LifecycleInv'
<1> SUFFICES ASSUME LifecycleInv, [Next]_vars PROVE LifecycleInv'
  OBVIOUS
<1>1. CASE UNCHANGED vars
  BY <1>1 DEF vars, LifecycleInv, TypeOK, JobsOK, Alone, RowsOK
<1>2. ASSUME NEW p \in Requests, Serve(p) PROVE LifecycleInv'
  <2>1. ASSUME NEW u \in Users \ deleted, AdmitUser(p, u) PROVE LifecycleInv'
    BY <2>1, UserAdmitted
  <2>2. CASE AdmitCancel(p, None) \/ AdmitPlace(p)
    BY <2>2, OperatorAdmitted
  <2>3. ASSUME NEW e \in Events, CreateEvent(p, e) PROVE LifecycleInv'
    BY <2>3, Creates
  <2>4. CASE CancelEvent(p) \/ LeaveEvent(p) \/ DeleteAccount(p)
    BY <2>4, Cancels, Leaves, Deletes
  <2>5. CASE RsvpLock(p) \/ RsvpCount(p) \/ RsvpCommit(p)
    BY <2>5, Locks, CountsRow, Commits
  <2>6. CASE EditLock(p) \/ EditCount(p) \/ EditCommit(p)
    BY <2>6, Locks, CountsRow, Edits
  <2>7. CASE UpdatePlace(p) \/ ArchiveCalendar(p) \/ \E public \in BOOLEAN : UpdateCalendar(p, public)
    BY <2>7, Others
  <2> QED BY <1>2, <2>1, <2>2, <2>3, <2>4, <2>5, <2>6, <2>7 DEF Serve
<1>3. ASSUME NEW e \in Events, NEW u \in Users, Buy(e, u) \/ PurchaseEnds(e, u) PROVE LifecycleInv'
  BY <1>3, Purchases
<1>4. CASE \/ \E c \in Calendars, u \in Users, public \in BOOLEAN : CreateCalendar(c, u, public)
           \/ \E c \in Calendars, u \in Users : Follow(c, u) \/ Unfollow(c, u)
           \/ \E l \in Places, active \in BOOLEAN : CreatePlace(l, active)
           \/ Tick
  BY <1>4, Others
<1> QED BY <1>1, <1>2, <1>3, <1>4 DEF Next

THEOREM SafetyInvariant == Spec => []LifecycleInv
BY StartInv, StepInv, PTL DEF Spec

THEOREM TypeCorrect == Spec => []TypeOK
<1>1. LifecycleInv => TypeOK
  BY DEF LifecycleInv
<1> QED BY <1>1, SafetyInvariant, PTL

\* RSVPs and edits never oversubscribe a free event, and its count is exact.
THEOREM NeverOversubscribed == Spec => []SeatsExact
<1>1. LifecycleInv => SeatsExact
  BY DEF LifecycleInv, RowsOK, Seated, SeatsExact
<1> QED BY <1>1, SafetyInvariant, PTL

-------------------------------------------------------------------------------
(***************************************************************************)
(* The action properties: what a step may do to a row.                      *)
(***************************************************************************)

\* A step leaves a row alone, publishes it, changes a published one, which stays
\* where it is unless nobody is buying, or changes its buyers alone.
RowStep(old, new) ==
  \/ new = old
  \/ old.status = "none"
  \/ old.status = "published" /\ (new.place = old.place \/ (old.buyers = {} /\ new.buyers = {}))
  \/ new.place = old.place /\ [new EXCEPT !.buyers = {}] = [old EXCEPT !.buyers = {}]

LEMMA RowSteps ==
  ASSUME LifecycleInv, [Next]_vars, NEW e \in Events
  PROVE  RowStep(events[e], events'[e])
<1>1. events \in [Events -> Event] /\ events[e] \in Event
  BY DEF LifecycleInv, TypeOK
<1>2. CASE events'[e] = events[e]
  BY <1>2 DEF RowStep
<1>3. ASSUME NEW p \in Requests, NEW f \in Events, CreateEvent(p, f) PROVE RowStep(events[e], events'[e])
  BY <1>1, <1>3 DEF CreateEvent, RowStep
<1>4. ASSUME NEW p \in Requests, CancelEvent(p) PROVE RowStep(events[e], events'[e])
  <2>1. CASE events'[e] # events[e]
    <3>1. events[e].status = "published" /\ events'[e] = [events[e] EXCEPT !.status = "cancelled"]
      BY <1>1, <1>4, <2>1 DEF CancelEvent
    <3> QED BY <1>1, <3>1 DEF RowStep, Event
  <2> QED BY <1>2, <2>1
<1>5. ASSUME NEW p \in Requests, RsvpCommit(p) \/ LeaveEvent(p) PROVE RowStep(events[e], events'[e])
  <2>1. CASE events'[e] # events[e]
    <3>1. events[e].status = "published"
      BY <1>1, <1>5, <2>1 DEF RsvpCommit, LeaveEvent, Attended, LifecycleInv, JobsOK, Holding, Holds
    <3>2. events'[e].place = events[e].place
      BY <1>1, <1>5, <2>1 DEF RsvpCommit, LeaveEvent, Attended, Event
    <3> QED BY <3>1, <3>2 DEF RowStep
  <2> QED BY <1>2, <2>1
<1>6. ASSUME NEW p \in Requests, EditCommit(p) PROVE RowStep(events[e], events'[e])
  <2>1. CASE events'[e] # events[e]
    <3>1. /\ e = jobs[p].event /\ EditAllowed(p, e) /\ Holding(jobs[p], events[e])
          /\ jobs[p].op = "edit" /\ jobs[p].step = "counted"
      BY <1>1, <1>6, <2>1 DEF EditCommit, LifecycleInv, JobsOK, Holds
    <3>2. events'[e].buyers = events[e].buyers
          /\ events'[e].place = Patched(jobs[p].patch.place, events[e].place)
      BY <1>1, <1>6, <2>1, <3>1 DEF EditCommit, Event
    <3> QED BY <3>1, <3>2 DEF RowStep, Holding, EditAllowed, Patched
  <2> QED BY <1>2, <2>1
<1>7. ASSUME NEW f \in Events, NEW u \in Users, Buy(f, u) \/ PurchaseEnds(f, u) PROVE RowStep(events[e], events'[e])
  <2>1. PICK buyers : events' = [events EXCEPT ![f].buyers = buyers]
    BY <1>7 DEF Buy, PurchaseEnds
  <2>2. CASE e = f
    <3>1. events'[e] = [events[e] EXCEPT !.buyers = buyers]
      BY <1>1, <2>1, <2>2
    <3>2. events'[e].place = events[e].place
          /\ [events'[e] EXCEPT !.buyers = {}] = [events[e] EXCEPT !.buyers = {}]
      BY <1>1, <3>1 DEF Event
    <3> QED BY <3>2 DEF RowStep
  <2>3. CASE e # f
    BY <1>1, <1>2, <2>1, <2>3
  <2> QED BY <2>2, <2>3
<1>8. ASSUME NEW p \in Requests, DeleteAccount(p) PROVE RowStep(events[e], events'[e])
  <2>1. CASE events'[e] # events[e]
    <3>1. events[e].status = "published" /\ events'[e] = [events[e] EXCEPT !.status = "cancelled"]
      BY <1>8, <2>1 DEF DeleteAccount, CancelledByDeletion
    <3> QED BY <1>1, <3>1 DEF RowStep, Event
  <2> QED BY <1>2, <2>1
<1>9. CASE events' = events
  BY <1>2, <1>9
<1>10. ASSUME NEW p \in Requests, Serve(p) PROVE RowStep(events[e], events'[e])
  <2>1. ASSUME NEW u \in Users, AdmitUser(p, u) PROVE events' = events
    BY <2>1 DEF AdmitUser, AdmitCreate, AdmitEdit, AdmitCancel, AdmitParticipation, AdmitCalendar, AdmitDelete, Admit
  <2>2. CASE AdmitCancel(p, None) \/ AdmitPlace(p)
    BY <1>9, <2>2 DEF AdmitCancel, AdmitPlace, Admit
  <2>3. CASE RsvpLock(p) \/ RsvpCount(p) \/ EditLock(p) \/ EditCount(p) \/ UpdatePlace(p) \/ ArchiveCalendar(p)
             \/ \E public \in BOOLEAN : UpdateCalendar(p, public)
    BY <1>9, <2>3 DEF RsvpLock, RsvpCount, EditLock, EditCount, UpdatePlace, ArchiveCalendar, UpdateCalendar
  <2> QED BY <1>3, <1>4, <1>5, <1>6, <1>8, <1>9, <1>10, <2>1, <2>2, <2>3 DEF Serve
<1>11. CASE \/ \E c \in Calendars, u \in Users, public \in BOOLEAN : CreateCalendar(c, u, public)
            \/ \E c \in Calendars, u \in Users : Follow(c, u) \/ Unfollow(c, u)
            \/ \E l \in Places, active \in BOOLEAN : CreatePlace(l, active)
            \/ Tick \/ UNCHANGED vars
  BY <1>9, <1>11 DEF CreateCalendar, Follow, Unfollow, CreatePlace, Tick, vars
<1> QED BY <1>7, <1>10, <1>11 DEF Next

\* An archived calendar stays archived, whichever edit was admitted before.
LEMMA CalendarSteps ==
  ASSUME LifecycleInv, [Next]_vars, NEW c \in Calendars, calendars[c].status = "archived"
  PROVE  calendars'[c].status = "archived"
<1>1. calendars \in [Calendars -> Calendar] /\ calendars[c] \in Calendar
  BY DEF LifecycleInv, TypeOK
<1>2. CASE calendars' = calendars
  BY <1>2
<1>3. ASSUME NEW d \in Calendars, NEW u \in Users, NEW public \in BOOLEAN, CreateCalendar(d, u, public)
      PROVE  calendars'[c].status = "archived"
  BY <1>1, <1>3 DEF CreateCalendar
<1>4. ASSUME NEW p \in Requests, UpdatePlace(p) \/ ArchiveCalendar(p)
                \/ DeleteAccount(p) \/ \E public \in BOOLEAN : UpdateCalendar(p, public)
      PROVE  calendars'[c].status = "archived"
  <2>1. CASE UpdatePlace(p)
    BY <1>2, <2>1 DEF UpdatePlace
  <2>2. CASE ArchiveCalendar(p)
    BY <1>1, <2>2 DEF ArchiveCalendar, Calendar
  <2>3. CASE DeleteAccount(p)
    BY <1>1, <2>3 DEF DeleteAccount, Calendar
  <2>4. ASSUME NEW public \in BOOLEAN, UpdateCalendar(p, public) PROVE calendars'[c].status = "archived"
    <3>1. calendars' = [calendars EXCEPT ![jobs[p].calendar].public = public]
      BY <2>4 DEF UpdateCalendar
    <3>2. CASE jobs[p].calendar = c
      <4>1. calendars'[c] = [calendars[c] EXCEPT !.public = public]
        BY <1>1, <3>1, <3>2
      <4> QED BY <1>1, <4>1 DEF Calendar
    <3>3. CASE jobs[p].calendar # c
      BY <1>1, <3>1, <3>3
    <3> QED BY <3>2, <3>3
  <2> QED BY <1>4, <2>1, <2>2, <2>3, <2>4
<1>5. ASSUME NEW p \in Requests, Serve(p) PROVE calendars'[c].status = "archived"
  <2>1. ASSUME NEW u \in Users, AdmitUser(p, u) PROVE calendars' = calendars
    BY <2>1 DEF AdmitUser, AdmitCreate, AdmitEdit, AdmitCancel, AdmitParticipation, AdmitCalendar, AdmitDelete,
                Admit, directory
  <2>2. CASE AdmitCancel(p, None) \/ AdmitPlace(p)
    BY <1>2, <2>2 DEF AdmitCancel, AdmitPlace, Admit, directory
  <2>3. CASE RsvpLock(p) \/ RsvpCount(p) \/ RsvpCommit(p) \/ EditLock(p) \/ EditCount(p) \/ EditCommit(p)
             \/ CancelEvent(p) \/ LeaveEvent(p) \/ \E e \in Events : CreateEvent(p, e)
    BY <1>2, <2>3 DEF RsvpLock, RsvpCount, RsvpCommit, EditLock, EditCount, EditCommit, CancelEvent, LeaveEvent,
                      CreateEvent, directory
  <2> QED BY <1>2, <1>4, <1>5, <2>1, <2>2, <2>3 DEF Serve
<1>6. CASE \/ \E e \in Events, u \in Users : Buy(e, u) \/ PurchaseEnds(e, u)
           \/ \E d \in Calendars, u \in Users : Follow(d, u) \/ Unfollow(d, u)
           \/ \E l \in Places, active \in BOOLEAN : CreatePlace(l, active)
           \/ Tick \/ UNCHANGED vars
  BY <1>2, <1>6 DEF Buy, PurchaseEnds, Follow, Unfollow, CreatePlace, Tick, vars, directory
<1> QED BY <1>3, <1>5, <1>6 DEF Next

\* While somebody has bought or is buying, an event stays at its place.
THEOREM BuyersFindThePlace == Spec => PlaceFixedForBuyers
<1>1. LifecycleInv /\ [Next]_vars =>
        [\A e \in Events : events'[e].place # events[e].place /\ events[e].status # "none"
           => events[e].buyers = {} /\ events'[e].buyers = {}]_vars
  BY RowSteps DEF RowStep
<1> QED BY <1>1, SafetyInvariant, PTL DEF Spec, PlaceFixedForBuyers

\* No request, admitted before or after, changes an event that has been cancelled
\* (but for the purchases running out), or makes an archived calendar active again.
THEOREM StaysClosed == Spec => ClosedForGood
<1>1. LifecycleInv /\ [Next]_vars =>
        [/\ \A e \in Events : events[e].status = "cancelled" =>
              [events'[e] EXCEPT !.buyers = {}] = [events[e] EXCEPT !.buyers = {}]
         /\ \A c \in Calendars : calendars[c].status = "archived" => calendars'[c].status = "archived"]_vars
  BY RowSteps, CalendarSteps DEF RowStep
<1> QED BY <1>1, SafetyInvariant, PTL DEF Spec, ClosedForGood

===============================================================================
