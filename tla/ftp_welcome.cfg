CONSTANTS
  Size = 2
  Worlds <- WelcomeWorld
SPECIFICATION Spec
INVARIANT MultiLineUnderstood
CHECK_DEADLOCK FALSE
