SPECIFICATION Spec
CONSTANTS
  Thread = {t1, t2}
  Adjuster = {senior, junior}
  Senior = {senior}
  Partner = partner
  Amount <- Amounts
  Category = {"AUTO"}
  Seeded = 1
  MaxSubmitted = 1
  PolicyCount = 2
  LapseEvery = 2
  MaxRequests = 2
  NoClaim = NoClaim
PROPERTIES AppendOnly
CHECK_DEADLOCK FALSE
