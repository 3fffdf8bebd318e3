SPECIFICATION QuerySpec
CONSTANTS
  Pod = {p1, p2}
  Querier = {c1}
  Startup = Startup
  Kubelet = Kubelet
  MaxAttempts = 2
  MaxRestarts = 1
  MaxFaults = 1
  ExactLen <- Lengths
  Marker <- Markers
  Deployed <- CutInWhere
INVARIANTS SeededOnce ExactAndValid
PROPERTIES Heals
CHECK_DEADLOCK FALSE
