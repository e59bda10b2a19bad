CONSTANTS
  Addresses = {"a4", "b4", "c6"}
  AddressFamily <- MCFamily
  Ports = {0, 7, 22, 25, 53, 80, 443, 5432}
  Interfaces = {"lo", "wg0"}
  None = None
  Rank <- MCRank
  NetworkRank <- MCNetworkRank
  Configured <- MCConfigured
  Edits <- MCEdits
  MaxConfirms = 1
SPECIFICATION Spec
INVARIANTS EditKeepsOthers BasicsAreStagedAsReviewed
