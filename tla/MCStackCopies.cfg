SPECIFICATION CopiesSpec
CONSTANTS
  Client = {c1, c2}
  Key = {k1, k2}
  Body = {"a"}
  MaxEvents = 4
  MaxTxns = 4
  MaxFailures = 2
SYMMETRY Alike
INVARIANTS CopiesKept LossBounded
CHECK_DEADLOCK FALSE
