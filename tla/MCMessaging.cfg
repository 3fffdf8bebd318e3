SPECIFICATION FairSpec
CONSTANTS
  Client = {c1, c2}
  Sku = {s1}
  MaxTxns = 3
  MaxFaults = 1
INVARIANTS DiscountsCounted
PROPERTIES KeepsQueue SentIsHandled
CHECK_DEADLOCK FALSE
