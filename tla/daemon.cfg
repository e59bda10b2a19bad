CONSTANTS
  Changes = {c1, c2, c3}
  Rollbacks = {b1}
  Rulesets = {boot, r1, r2}
  Boot = boot
  None = None
  BootKernel = boot
  Install <- Replace
  Faults = {"stage"}
  MaxCrashes = 2
SPECIFICATION FairDaemonSpec
INVARIANTS DaemonTypeOK UpIsConsistent UpPanelShowsAccepted
PROPERTIES UnapprovedLeaves
CHECK_DEADLOCK FALSE
