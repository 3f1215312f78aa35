CONSTANTS
  NPackets = 3
  LineCap = 2
  MaxFaults = 2
  Faulty = {"SET", "UA", "DISC", "RR", "REJ", "I"}
  MaxTries = 2
  Timeout = 1
  TriesWrap = 4
  SeqMod = 2
  Premature = TRUE
  Stalls = TRUE
  Interrupts = {}
SPECIFICATION Spec
INVARIANTS InOrder DataAfterStart PhasesAgree CommandsBounded IInv
PROPERTIES NeverTruncated
CHECK_DEADLOCK FALSE
