SPECIFICATION Spec
CONSTANTS
  None = None
  Keep = Keep
  Users = {u1, u2}
  Requests = {p, q}
  Events = {e}
  Calendars = {club}
  Places = {hall}
  club = club
  hall = hall
  MaxTime = 1
  Drafts <- SmallDrafts
  Patches <- SmallPatches
INVARIANTS SeatsExact
PROPERTIES PlaceFixedForBuyers ClosedForGood
CONSTRAINT Apart
SYMMETRY Anyone
CHECK_DEADLOCK FALSE
