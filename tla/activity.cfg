CONSTANTS
  MaxBytes = 3
  MaxEvents = 9
  MaxFaults = 4
SPECIFICATION Spec
INVARIANTS TypeOK TimelineIsTrue LogIsBounded
CHECK_DEADLOCK FALSE
