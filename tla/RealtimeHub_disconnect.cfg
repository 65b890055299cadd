SPECIFICATION Spec
CONSTANTS
  None = None
  s1 = s1
  s2 = s2
  a = a
  b = b
  t = t
  a1 = a1
  b1 = b1
  Instances = {s1, s2}
  Users = {a, b}
  Tenants = {t}
  Channels = {"events", "payments", "iam"}
  Conns = {a1, b1}
  Home <- Homes
  Owner <- Owners
  Tenant <- Contexts
  MaxConnections = 1
  SendBuffer = 1
  BusBuffer = 1
  UserLists <- Parties
  Scopes = {{t}}
  MaxEvents = 2
INVARIANTS NeverPanics
CHECK_DEADLOCK FALSE
