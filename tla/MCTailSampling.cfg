SPECIFICATION ScenarioSpec
CONSTANTS
  Client = {c1, c2}
  Workers = 3
  MaxHops = 3
  MaxRequests = 3
  Tests <- TestFiles
  None = None
  MaxTraces = 2
  MaxErrors = 1
INVARIANTS TraceAsDocumented EverySecondFails PassIsEarned
PROPERTIES AnsweredUnlessExhausted
CHECK_DEADLOCK FALSE
