SPECIFICATION FairSpec
CONSTANTS
  Slot = {1, 2}
  MaxFaults = 2
  Spelling <- MCSpelling
INVARIANTS AnswersTrue RoutedAsDocumented
PROPERTIES EveryRequestEnds EndsOrRecovers OrderlyShutdown
CHECK_DEADLOCK FALSE
