SPECIFICATION MCSpec
CONSTANTS
  Nobody = Nobody
  purchases = purchases
  pay = pay
  define = define
  Workers = {purchases}
  Requests = {pay, define}
  TopicOf <- TopicOfActor
  Choices <- Settings
  BusBuffer = 1
  MaxEvents = 3
  Probes = {p, q}
  TTL = 2
  Timeout = 1
INVARIANTS ServesOneNetwork StoresOutliveUsers OrderlyExit ReadyMeansReachable
PROPERTIES StopsWhenAsked
CHECK_DEADLOCK FALSE
