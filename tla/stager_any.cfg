CONSTANTS
  Changes = {c1, c2, c3}
  Rollbacks = {b1}
  Rulesets = {boot, r1}
  Boot = boot
  None = None
  BootKernel = boot
  Install <- Replace
  Faults = {"stage", "rollback", "timeout", "kill"}
SPECIFICATION Spec
SYMMETRY Symmetry
INVARIANTS TypeOK RevertHasTarget
PROPERTIES GuardLostOnlyByFailedRollback
CHECK_DEADLOCK FALSE
