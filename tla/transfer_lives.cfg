CONSTANTS
  NPackets = 3
  LineCap = 2
  MaxFaults = 2
  Faulty = {"SET", "UA", "DISC", "RR", "REJ", "I"}
  MaxTries = 2
  Timeout = 1
  TriesWrap = 4
  SeqMod = 2
  Premature = FALSE
  Stalls = FALSE
  Interrupts = {"rx"}
SPECIFICATION FairSpec
PROPERTIES CommandsReturn AllDataArrives BothClose KeepsTrying
CHECK_DEADLOCK FALSE
