SPECIFICATION FairSpec
CONSTANTS
  MaxEvents = 2
  MaxFaults = 2
PROPERTIES KeepQueues EventuallyHandled
CHECK_DEADLOCK FALSE
