SPECIFICATION FairSpec
CONSTANTS
  Job = {j1, j2}
  Handler = {h1, h2}
  Idle = Idle
  MaxRounds = 3
  MaxFaults = 2
INVARIANTS RepeatsBounded
PROPERTIES KeepsQueue AnsweredIsProcessed ConsumerRecovers
CHECK_DEADLOCK FALSE
