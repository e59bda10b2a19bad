CONSTANTS
  Changes = {c1}
  Rollbacks = {b1}
  Rulesets = {boot, r1}
  Boot = boot
  None = None
  BootKernel = boot
  Install <- Replace
  Faults = {}
SPECIFICATION OneOperatorSpec
PROPERTIES ConfirmIsPermanent
CHECK_DEADLOCK FALSE
