CONSTANTS
  Payloads <- NoisePayloads
  Noisy <- NoisePayloads
  NFrames = 1
  MaxNoise = 0
  NoiseBytes <- NoBytes
  Garbage <- AnyGarbage
  Pauses = TRUE
  FrameCap = 8
SPECIFICATION Spec
INVARIANTS PausesHarmless
CHECK_DEADLOCK FALSE
