SPECIFICATION FairSpec
CONSTANTS
  Topics <- OneTopic
  Members = {m1, m2}
  Nobody = Nobody
  NoOffset = NoOffset
  NoMessage = NoMessage
  MaxTicks = 3
  MaxFaults = 2
INVARIANTS TypeOK CommittedTried
PROPERTIES KeepsGroupLog EventuallyTried Recovers
CHECK_DEADLOCK FALSE
