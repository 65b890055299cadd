--------------------------- MODULE MCEventLifecycle ---------------------------
(***************************************************************************)
(* An instance of EventLifecycle for TLC: the bodies clients send.          *)
(***************************************************************************)
EXTENDS EventLifecycle, TLC

CONSTANTS hall, club

\* A free event for one, and a paid one at a place, in a calendar.
SmallDrafts ==
  {[starts |-> 0, ends |-> 1, capacity |-> 1, paid |-> FALSE, place |-> None, calendar |-> None],
   [starts |-> 1, ends |-> 2, capacity |-> 1, paid |-> TRUE, place |-> hall, calendar |-> club]}

Unpatched == [starts |-> Keep, ends |-> Keep, capacity |-> Keep, place |-> Keep]

\* One field each: the schedule, the capacity up, down and away, the place.
SmallPatches ==
  {[Unpatched EXCEPT !.ends = 1, !.starts = 0],
   [Unpatched EXCEPT !.capacity = 1], [Unpatched EXCEPT !.capacity = None],
   [Unpatched EXCEPT !.place = None]}

\* Users are interchangeable, and so are requests.
Anyone == Permutations(Users) \cup Permutations(Requests)

\* Nothing reads the followers, and the free event is in no calendar and at no
\* place: these are explored without one another.
Apart ==
  \A e \in Events : events[e] # NoEvent =>
    /\ followers = {}
    /\ ~events[e].paid => calendars = [x \in Calendars |-> NoCalendar]
    /\ ~events[e].paid => places = [x \in Places |-> "none"]
===============================================================================
