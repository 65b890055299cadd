---------------------------- MODULE EventLifecycle ----------------------------
(***************************************************************************)
(* Events from publication to cancellation: their organizers, the users     *)
(* who RSVP, the calendars and places events belong to, and the operators.  *)
(*                                                                         *)
(* A handler first authenticates, validates and reads the clock, then runs  *)
(* its statement or transaction; a job remembers what the first part read.  *)
(* The transactions that count seats hold the event row and are three       *)
(* steps; what waits for that row waits.  Of paid events only the existence *)
(* of active purchases is kept: which of them hold a seat, and how many     *)
(* seats they may take, is EventPurchases' subject.                         *)
(***************************************************************************)
EXTENDS Naturals, FiniteSets

CONSTANTS
  None,          \* NULL; as a capacity: unlimited
  Keep,          \* a field absent from a PATCH
  Users,
  Requests,      \* goroutines and operator commands that serve a request
  Events,        \* bound: rows of events
  Calendars,     \* bound: rows of calendars
  Places,        \* bound: rows of places
  MaxTime,       \* bound of the clock
  Drafts,        \* bodies of POST /events the validation accepts
  Patches        \* bodies of PATCH /events/{id} the validation accepts

Times == 0..MaxTime + 1   \* an event may end after the last tick
Capacity == (Nat \ {0}) \cup {None}
Operations == {"create", "edit", "cancel", "rsvp", "leave", "delete", "calendar", "place"}

\* buildEvent accepts a schedule that ends after it starts, a positive capacity.
Draft == [starts : Times, ends : Times, capacity : Capacity, paid : BOOLEAN,
          place : Places \cup {None}, calendar : Calendars \cup {None}]
Patch == [starts : Times \cup {Keep}, ends : Times \cup {Keep},
          capacity : Capacity \cup {Keep}, place : Places \cup {None, Keep}]

ASSUME LifecycleAssumption ==
  /\ MaxTime \in Nat
  /\ IsFiniteSet(Users)
  /\ None \notin Users \cup Events \cup Calendars \cup Places \cup Nat \cup Operations
  /\ Keep \notin Places \cup Nat \cup BOOLEAN \cup {None}
  /\ Drafts \subseteq {d \in Draft : d.ends > d.starts}
  /\ Patches \subseteq Patch

VARIABLES
  clock,
  deleted,       \* users whose account is deleted
  places,        \* places.is_active
  calendars,
  followers,     \* calendar_followers
  events,
  jobs           \* what each request is doing

vars == <<clock, deleted, places, calendars, followers, events, jobs>>
directory == <<clock, deleted, places, calendars, followers>>

Calendar == [owner : Users \cup {None}, public : BOOLEAN, status : {"none", "active", "archived"}]
NoCalendar == [owner |-> None, public |-> FALSE, status |-> "none"]

Event == [status : {"none", "published", "cancelled"}, organizer : Users \cup {None},
          starts : Times, ends : Times, capacity : Capacity, paid : BOOLEAN,
          place : Places \cup {None}, calendar : Calendars \cup {None},
          participants : SUBSET Users,   \* event_participants
          count : Nat,                   \* attendee_count, less the confirmed purchases
          buyers : SUBSET Users]         \* users with an active purchase
NoEvent == [status |-> "none", organizer |-> None, starts |-> 0, ends |-> 0,
            capacity |-> None, paid |-> FALSE, place |-> None, calendar |-> None,
            participants |-> {}, count |-> 0, buyers |-> {}]

\* now: the clock the handler read; seats, paidActivity: what the transaction
\* that holds the event row has counted; active: is_active as an operator read it.
Job == [step : {"idle", "admitted", "locked", "counted"},
        op : Operations \cup {None},
        user : Users \cup {None}, event : Events \cup {None}, place : Places \cup {None},
        calendar : Calendars \cup {None}, draft : Drafts \cup {None}, patch : Patches \cup {None},
        now : Times, seats : Nat, paidActivity : BOOLEAN, active : BOOLEAN]
Idle == [step |-> "idle", op |-> None, user |-> None, event |-> None, place |-> None,
         calendar |-> None, draft |-> None, patch |-> None,
         now |-> 0, seats |-> 0, paidActivity |-> FALSE, active |-> FALSE]

-------------------------------------------------------------------------------
\* Handlers: authentication, validation, the clock.

Admit(p, job) ==
  /\ jobs[p].step = "idle"
  /\ jobs' = [jobs EXCEPT ![p] = job]
  /\ UNCHANGED <<directory, events>>

Request(op, u) == [Idle EXCEPT !.step = "admitted", !.op = op, !.user = u]
Timed(op, u) == [Request(op, u) EXCEPT !.now = clock]

\* An event row another transaction has selected FOR UPDATE.
MutantUnlocked(e) == TRUE
RowFree(e) ==
  \A q \in Requests : jobs[q].step \in {"locked", "counted"} => jobs[q].event # e

At(p, op) == jobs[p].step = "admitted" /\ jobs[p].op = op
Done(p) == jobs' = [jobs EXCEPT ![p] = Idle]

\* GetActiveByID.
PlaceOffered(l) == l \notin {None, Keep} => places[l] = "active"

\* validateAssociations.
Associable(u, d) ==
  /\ PlaceOffered(d.place)
  /\ d.calendar # None =>
       calendars[d.calendar].owner = u /\ calendars[d.calendar].status = "active"

\* Operators cancel through the same use case, without being the organizer.
MayCancel(u, e) == u = None \/ events[e].organizer = u

\* EventUseCase.Create and Update, CalendarUseCase.Update and Archive (which
\* compare the owner they read), the others without more ado.
AdmitCreate(p, u) ==
  \E d \in Drafts : Associable(u, d) /\ Admit(p, [Request("create", u) EXCEPT !.draft = d])

AdmitEdit(p, u) ==
  \E e \in Events, patch \in Patches :
    PlaceOffered(patch.place) /\ Admit(p, [Timed("edit", u) EXCEPT !.event = e, !.patch = patch])

AdmitCalendar(p, u) ==
  \E c \in Calendars :
    calendars[c].owner = u /\ Admit(p, [Request("calendar", u) EXCEPT !.calendar = c])

AdmitParticipation(p, u) ==
  \E e \in Events :
    \/ Admit(p, [Timed("rsvp", u) EXCEPT !.event = e])
    \/ Admit(p, [Request("leave", u) EXCEPT !.event = e])

AdmitCancel(p, u) == \E e \in Events : Admit(p, [Request("cancel", u) EXCEPT !.event = e])
AdmitDelete(p, u) == Admit(p, Timed("delete", u))

AdmitUser(p, u) ==
  \/ AdmitCreate(p, u) \/ AdmitEdit(p, u) \/ AdmitCancel(p, u)
  \/ AdmitParticipation(p, u) \/ AdmitCalendar(p, u) \/ AdmitDelete(p, u)

\* manage-place update and disable: GetByID, to be written back.
AdmitPlace(p) ==
  \E l \in Places :
    /\ places[l] # "none"
    /\ Admit(p, [Request("place", None) EXCEPT !.place = l, !.active = (places[l] = "active")])

-------------------------------------------------------------------------------
\* Publication and cancellation.

\* buildEvent and the INSERT: published and public at once, nobody attending.
CreateEvent(p, e) ==
  /\ At(p, "create")
  /\ events[e].status = "none"
  /\ LET d == jobs[p].draft IN
       events' = [events EXCEPT ![e] =
                    [NoEvent EXCEPT !.status = "published", !.organizer = jobs[p].user,
                                    !.starts = d.starts, !.ends = d.ends, !.capacity = d.capacity,
                                    !.paid = d.paid, !.place = d.place, !.calendar = d.calendar]]
  /\ Done(p)
  /\ UNCHANGED directory

\* cancel: repeating it changes nothing, and an event may be over.
CancelEvent(p) ==
  LET e == jobs[p].event IN
  /\ At(p, "cancel")
  /\ RowFree(e)
  /\ events' = IF events[e].status = "published" /\ MayCancel(jobs[p].user, e)
               THEN [events EXCEPT ![e].status = "cancelled"] ELSE events
  /\ Done(p)
  /\ UNCHANGED directory

-------------------------------------------------------------------------------
\* Participation: the transactions of event_participants.

\* Who takes a seat, when held are the buyers whose purchase holds one.
Occupants(e, held) == events[e].participants \cup held

\* syncAttendeeCount, for the participants a transaction leaves behind.
Attended(e, joined) == [events EXCEPT ![e].participants = joined, ![e].count = Cardinality(joined)]

\* lockEvent: a published event; the end is compared with the handler's clock.
MutantAnyStatus(p, e) == events[e].ends > jobs[p].now /\ ~events[e].paid
Joinable(p, e) ==
  /\ events[e].status = "published"
  /\ events[e].ends > jobs[p].now
  /\ ~events[e].paid

RsvpLock(p) ==
  LET e == jobs[p].event IN
  /\ At(p, "rsvp")
  /\ RowFree(e)
  /\ IF Joinable(p, e) THEN jobs' = [jobs EXCEPT ![p].step = "locked"] ELSE Done(p)
  /\ UNCHANGED <<directory, events>>

\* capacityOccupiedCount.
RsvpCount(p) ==
  /\ jobs[p].step = "locked" /\ jobs[p].op = "rsvp"
  /\ \E held \in SUBSET events[jobs[p].event].buyers :
       jobs' = [jobs EXCEPT ![p].step = "counted",
                            ![p].seats = Cardinality(Occupants(jobs[p].event, held))]
  /\ UNCHANGED <<directory, events>>

SeatLeft(e, seats) == events[e].capacity # None => seats < events[e].capacity

\* One who attends already keeps the seat; sold out refuses everybody else.
RsvpCommit(p) ==
  LET e == jobs[p].event
      u == jobs[p].user
  IN
  /\ jobs[p].step = "counted" /\ jobs[p].op = "rsvp"
  /\ events' = IF u \in events[e].participants THEN Attended(e, events[e].participants)
               ELSE IF SeatLeft(e, jobs[p].seats) THEN Attended(e, events[e].participants \cup {u})
               ELSE events
  /\ Done(p)
  /\ UNCHANGED directory

\* Cancel of a participation: not of a cancelled event, but of a past one.
LeaveEvent(p) ==
  LET e == jobs[p].event IN
  /\ At(p, "leave")
  /\ RowFree(e)
  /\ events' = IF events[e].status = "published"
               THEN Attended(e, events[e].participants \ {jobs[p].user}) ELSE events
  /\ Done(p)
  /\ UNCHANGED directory

-------------------------------------------------------------------------------
\* UpdateOwned.

\* A field of the patch, or what the event has.
Patched(field, old) == IF field = Keep THEN old ELSE field

\* The schedule is fixed once the event has started, by the handler's clock.
Reschedulable(p, e) ==
  (jobs[p].patch.starts # Keep \/ jobs[p].patch.ends # Keep) => events[e].starts > jobs[p].now

EditLock(p) ==
  LET e == jobs[p].event
      patch == jobs[p].patch
  IN
  /\ At(p, "edit")
  /\ RowFree(e)
  /\ IF /\ events[e].organizer = jobs[p].user
        /\ events[e].status = "published"
        /\ Reschedulable(p, e)
        /\ Patched(patch.ends, events[e].ends) > Patched(patch.starts, events[e].starts)
     THEN jobs' = [jobs EXCEPT ![p].step = "locked"] ELSE Done(p)
  /\ UNCHANGED <<directory, events>>

EditCount(p) ==
  /\ jobs[p].step = "locked" /\ jobs[p].op = "edit"
  /\ \E held \in SUBSET events[jobs[p].event].buyers :
       jobs' = [jobs EXCEPT ![p].step = "counted",
                            ![p].seats = Cardinality(Occupants(jobs[p].event, held)),
                            ![p].paidActivity = (events[jobs[p].event].buyers # {})]
  /\ UNCHANGED <<directory, events>>

MutantMovesBuyers(p, e) == jobs[p].patch.capacity \notin {Keep, None} => jobs[p].seats <= jobs[p].patch.capacity
EditAllowed(p, e) ==
  /\ jobs[p].patch.capacity \notin {Keep, None} => jobs[p].seats <= jobs[p].patch.capacity
  /\ jobs[p].patch.place \notin {Keep, events[e].place} => ~jobs[p].paidActivity

EditCommit(p) ==
  LET e == jobs[p].event
      patch == jobs[p].patch
  IN
  /\ jobs[p].step = "counted" /\ jobs[p].op = "edit"
  /\ events' = IF EditAllowed(p, e)
               THEN [events EXCEPT ![e].starts = Patched(patch.starts, @),
                                   ![e].ends = Patched(patch.ends, @),
                                   ![e].capacity = Patched(patch.capacity, @),
                                   ![e].place = Patched(patch.place, @)]
               ELSE events
  /\ Done(p)
  /\ UNCHANGED directory

-------------------------------------------------------------------------------
\* Purchases as they bear on the event row: one is created under its lock, if a
\* seat is left, and fails or expires without it.

Buy(e, u) ==
  /\ RowFree(e)
  /\ u \notin deleted
  /\ events[e].paid /\ events[e].status = "published" /\ events[e].ends > clock
  /\ events' = [events EXCEPT ![e].buyers = @ \cup {u}]
  /\ UNCHANGED <<directory, jobs>>

PurchaseEnds(e, u) ==
  /\ u \in events[e].buyers
  /\ events' = [events EXCEPT ![e].buyers = @ \ {u}]
  /\ UNCHANGED <<directory, jobs>>

-------------------------------------------------------------------------------
\* Calendars and places.

\* A calendar is one INSERT; anybody may own any number.
CreateCalendar(c, u, public) ==
  /\ u \notin deleted
  /\ calendars[c].status = "none"
  /\ calendars' = [calendars EXCEPT ![c] = [owner |-> u, public |-> public, status |-> "active"]]
  /\ UNCHANGED <<clock, deleted, places, followers, events, jobs>>

\* UpdateOwned changes the visibility, of an archived calendar too, and nothing
\* of the status.
UpdateCalendar(p, public) ==
  LET c == jobs[p].calendar IN
  /\ At(p, "calendar")
  /\ calendars' = [calendars EXCEPT ![c].public = public]
  /\ Done(p)
  /\ UNCHANGED <<clock, deleted, places, followers, events>>

ArchiveCalendar(p) ==
  LET c == jobs[p].calendar IN
  /\ At(p, "calendar")
  /\ calendars' = [calendars EXCEPT ![c].status = "archived"]
  /\ Done(p)
  /\ UNCHANGED <<clock, deleted, places, followers, events>>

Follow(c, u) ==
  /\ u \notin deleted
  /\ calendars[c].public /\ calendars[c].status = "active"
  /\ followers' = followers \cup {<<c, u>>}
  /\ UNCHANGED <<clock, deleted, places, calendars, events, jobs>>

Unfollow(c, u) ==
  /\ <<c, u>> \in followers
  /\ followers' = followers \ {<<c, u>>}
  /\ UNCHANGED <<clock, deleted, places, calendars, events, jobs>>

\* Create of a place; with a preset id that exists, nothing.
CreatePlace(l, active) ==
  /\ places[l] = "none"
  /\ places' = [places EXCEPT ![l] = IF active THEN "active" ELSE "inactive"]
  /\ UNCHANGED <<clock, deleted, calendars, followers, events, jobs>>

\* Update writes the whole row it read a statement earlier, is_active with it
\* unless the patch sets it; Disable is the patch that clears it.
PatchedActive(p, patch) == IF patch = Keep THEN jobs[p].active ELSE patch
UpdatePlace(p) ==
  /\ At(p, "place")
  /\ \E patch \in BOOLEAN \cup {Keep} :
       places' = [places EXCEPT ![jobs[p].place] =
                    IF PatchedActive(p, patch) THEN "active" ELSE "inactive"]
  /\ Done(p)
  /\ UNCHANGED <<clock, deleted, calendars, followers, events>>

-------------------------------------------------------------------------------
\* Account deletion and time.

\* DeleteUser archives the calendars and cancels the published events that were
\* not over when the handler read the clock; it needs those rows.
CancelledByDeletion(p, e) ==
  /\ events[e].organizer = jobs[p].user
  /\ events[e].status = "published"
  /\ events[e].ends > jobs[p].now

DeleteAccount(p) ==
  LET u == jobs[p].user IN
  /\ At(p, "delete")
  /\ \A e \in Events : CancelledByDeletion(p, e) => RowFree(e)
  /\ deleted' = deleted \cup {u}
  /\ calendars' = [c \in Calendars |->
                     IF calendars[c].owner = u THEN [calendars[c] EXCEPT !.status = "archived"]
                     ELSE calendars[c]]
  /\ events' = [e \in Events |->
                  IF CancelledByDeletion(p, e) THEN [events[e] EXCEPT !.status = "cancelled"]
                  ELSE events[e]]
  /\ Done(p)
  /\ UNCHANGED <<clock, places, followers>>

Tick ==
  /\ clock < MaxTime
  /\ clock' = clock + 1
  /\ UNCHANGED <<deleted, places, calendars, followers, events, jobs>>

-------------------------------------------------------------------------------
Init ==
  /\ clock = 0
  /\ deleted = {}
  /\ places = [l \in Places |-> "none"]
  /\ calendars = [c \in Calendars |-> NoCalendar]
  /\ followers = {}
  /\ events = [e \in Events |-> NoEvent]
  /\ jobs = [p \in Requests |-> Idle]

Serve(p) ==
  \/ \E u \in Users \ deleted : AdmitUser(p, u)
  \/ AdmitCancel(p, None) \/ AdmitPlace(p)
  \/ \E e \in Events : CreateEvent(p, e)
  \/ CancelEvent(p) \/ LeaveEvent(p) \/ DeleteAccount(p)
  \/ RsvpLock(p) \/ RsvpCount(p) \/ RsvpCommit(p)
  \/ EditLock(p) \/ EditCount(p) \/ EditCommit(p)
  \/ \E public \in BOOLEAN : UpdateCalendar(p, public)
  \/ ArchiveCalendar(p) \/ UpdatePlace(p)

Next ==
  \/ \E p \in Requests : Serve(p)
  \/ \E e \in Events, u \in Users : Buy(e, u) \/ PurchaseEnds(e, u)
  \/ \E c \in Calendars, u \in Users, public \in BOOLEAN : CreateCalendar(c, u, public)
  \/ \E c \in Calendars, u \in Users : Follow(c, u) \/ Unfollow(c, u)
  \/ \E l \in Places, active \in BOOLEAN : CreatePlace(l, active)
  \/ Tick

Spec == Init /\ [][Next]_vars

-------------------------------------------------------------------------------
TypeOK ==
  /\ clock \in Times
  /\ deleted \subseteq Users
  /\ places \in [Places -> {"none", "active", "inactive"}]
  /\ calendars \in [Calendars -> Calendar]
  /\ followers \subseteq Calendars \X Users
  /\ events \in [Events -> Event]
  /\ jobs \in [Requests -> Job]

\* "Concurrent requests cannot oversubscribe an event" (participation_repository
\* .go:26-28): whatever RSVPs and edits of the capacity overlap, those who attend a
\* free event fit its capacity, and attendee_count is the number of their rows.
SeatsExact ==
  \A e \in Events : ~events[e].paid =>
    /\ events[e].capacity # None => Cardinality(events[e].participants) <= events[e].capacity
    /\ events[e].count = Cardinality(events[e].participants)

\* Somebody who has paid, or is paying, for an event does not find it elsewhere:
\* its place never changes while a purchase is active (UpdateOwned).
PlaceFixedForBuyers ==
  [][\A e \in Events : events'[e].place # events[e].place /\ events[e].status # "none"
       => events[e].buyers = {} /\ events'[e].buyers = {}]_vars

\* A cancelled event stays as it was, its participants included, and an archived
\* calendar is never made active again, whichever request was admitted before they
\* closed.  (What else a calendar has, UpdateOwned rewrites archived or not.)
ClosedForGood ==
  [][/\ \A e \in Events : events[e].status = "cancelled" =>
          [events'[e] EXCEPT !.buyers = {}] = [events[e] EXCEPT !.buyers = {}]
     /\ \A c \in Calendars : calendars[c].status = "archived" => calendars'[c].status = "archived"]_vars
===============================================================================
