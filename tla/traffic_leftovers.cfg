CONSTANTS
  Addresses = {"a4", "b4", "c6"}
  AddressFamily <- MCFamily
  Ports = {0, 7, 22, 25, 53, 80, 123, 443, 5432}
  Interfaces = {"lo", "wg0"}
  None = None
  Rank <- MCRank
  NetworkRank <- MCNetworkRank
  Booted <- MCBefore
  Stageable <- MCUndone
  MaxConnections = 1
SPECIFICATION Spec
INVARIANTS OpenConnectionsSurvive
CHECK_DEADLOCK FALSE
