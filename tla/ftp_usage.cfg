CONSTANTS
  Size = 2
  Worlds <- UsageWorld
SPECIFICATION Spec
INVARIANT UsageAccepted
CHECK_DEADLOCK FALSE
