CONSTANTS
  Payloads <- AllPayloads
  Noisy <- NoisePayloads
  NFrames = 4
  MaxNoise = 2
  NoiseBytes <- NoiseSet
  Garbage <- AnyGarbage
  Pauses = FALSE
  FrameCap = 8
SPECIFICATION Spec
INVARIANTS TypeOK Transparent ChecksumFollows BackInStep OneAnswer
CHECK_DEADLOCK FALSE
