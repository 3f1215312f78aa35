CONSTANTS
  Callers = {"llwrite", "txOpen", "txClose", "rxOpen", "rxDisc", "rxUa"}
  NFrames = 3
  MaxNoise = 1
  NoiseBytes <- NoiseSet
  Garbage <- AnyGarbage
  OtherFrames <- Repeated
SPECIFICATION Spec
INVARIANTS TypeOK HeardExactly NothingInvented NothingMissed BackInStep
CHECK_DEADLOCK FALSE
