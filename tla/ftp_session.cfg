CONSTANTS
  Size = 2
  Worlds <- AllWorlds
SPECIFICATION FairSpec
INVARIANTS TurnInv SuccessMeansWhole PartsOfUrl FailsOnlyWhenRefused
PROPERTIES InStep Ends
CHECK_DEADLOCK FALSE
