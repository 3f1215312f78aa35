CONSTANTS
  NPackets = 3
  LineCap = 2
  MaxFaults = 3
  Faulty = {"SET", "UA", "DISC", "RR", "REJ", "I"}
  MaxTries = 2
  Timeout = 1
  TriesWrap = 4
  SeqMod = 2
  Premature = FALSE
  Stalls = FALSE
  Interrupts = {}
SPECIFICATION Spec
INVARIANTS TimelyInv RRMeansReceived WholeFile AlarmPending
PROPERTIES CopySpec
CHECK_DEADLOCK FALSE
