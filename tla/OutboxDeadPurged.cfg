SPECIFICATION Spec
CONSTANTS
  Event = {1}
  Drain = {d1}
  Limit = 1
  MaxAttempts = 2
  MaxFaults = 0
INVARIANTS DeadLettersKept

CHECK_DEADLOCK FALSE
