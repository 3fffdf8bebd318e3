SPECIFICATION Spec
CONSTANTS
  Thread = {t1, t2}
  Adjuster = {senior, junior}
  Senior = {senior}
  Partner = partner
  Amount <- Amounts
  Category = {"AUTO"}
  Seeded = 1
  MaxSubmitted = 2
  PolicyCount = 2
  LapseEvery = 2
  MaxRequests = 4
  NoClaim = NoClaim
SYMMETRY ThreadSymmetry
INVARIANTS TypeOK ApprovedIsSigned PayoutsAuthorised AuditTruthful AcknowledgedKept
PROPERTIES DecisionsStick
CHECK_DEADLOCK FALSE
