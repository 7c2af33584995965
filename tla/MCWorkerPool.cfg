SPECIFICATION MCSpec
CONSTANTS
  Lanes = {"plain", "deadlines"}
  r1 = r1
  r2 = r2
  r3 = r3
  r4 = r4
  Torn = torn
  Requests = {r1, r2, r3, r4}
  Route <- MCRoute
  Processes = {p1, p2}
  MaxWorkers = 1
  QueueCapacity = 2
  Deadlines = TRUE
INVARIANT
  AnswersSound
PROPERTY
  CallsComeBack
CHECK_DEADLOCK FALSE
