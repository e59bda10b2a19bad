CONSTANTS
  Changes = {c1, c2}
  Rollbacks = {b1}
  Rulesets <- AnyShape
  Boot <- Basic
  None = None
  Foreign <- MCForeign
  Faults = {"stage", "rollback"}
  Words <- MCWords
  PortWord <- MCPortWord
  NetWord <- MCNetWord
  Packets <- MCPackets
  IPv6 <- MCIPv6
  IPv4Tables = {"docker", "nat"}
  IPv6Tables = {}
  Queries <- MCQueries
  Applies <- MCApplies
SPECIFICATION ReadsSpec
SYMMETRY Symmetry
INVARIANTS ForeignUntouched LastIsEnforced NoChangesMeansNone HitsAreReal SimulationIsSound
CHECK_DEADLOCK FALSE
