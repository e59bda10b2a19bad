CONSTANTS
  Changes = {c1, c2}
  Rollbacks = {b1}
  Rulesets = {boot, r1}
  Boot = boot
  None = None
  BootKernel = boot
  Install <- Replace
  Faults = {"stage", "rollback", "timeout", "kill"}
SPECIFICATION ClientSpec
INVARIANTS GuardedUnlessStranded OnlyLostRunsEscape
PROPERTIES PendingEnds YesConfirmsItsOwn
CHECK_DEADLOCK FALSE
