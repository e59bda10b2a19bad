CONSTANTS
  Changes = {c1, c2, c3}
  Rollbacks = {b1, b2}
  Rulesets = {boot, r1, r2}
  Boot = boot
  None = None
  BootKernel = boot
  Install <- Replace
  Faults = {"stage"}
SPECIFICATION FairSerialSpec
INVARIANTS CacheIsLive SnapshotIsAccepted OnlyAcceptedIsLasting
PROPERTIES KeepsFairContract
CHECK_DEADLOCK FALSE
