CONSTANTS
  NPackets = 1
  LineCap = 2
  MaxFaults = 2
  Faulty = {"SET", "UA", "DISC", "RR", "REJ", "I"}
  MaxTries = 2
  Timeout = 1
  TriesWrap = 4
  SeqMod = 2
  Premature = TRUE
  Stalls = FALSE
  Interrupts = {}
SPECIFICATION Spec
INVARIANTS RRMeansReceived
CHECK_DEADLOCK FALSE
