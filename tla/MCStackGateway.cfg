SPECIFICATION Spec
CONSTANTS
  Request = {r1, r2}
  Txn = {"sync-catalog", "fulfill-shipment", "platform-wide"}
  User = {"user-1", "item-1"}
  MaxFaults = 1
SYMMETRY Alike
INVARIANTS  ChargeExplained EffectsReported
CHECK_DEADLOCK FALSE
