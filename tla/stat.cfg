\* Two frames on two CPUs next to one process that clears or only watches; a sum that wraps.
SPECIFICATION FairSpec
CONSTANTS
  p1 = p1
  Retransmitted = 1
  OtherTos = {0}
  LittleEndian = TRUE
  NrPossibleCpus = 2
  NrMaps = 1
  Frames <- AllFrames
  WordBits = 8
  Before <- AlmostFull
  MaxFrames = 2
  Procs = {p1}
  Options <- ClearOrWatch
  Garbage = {7}
INVARIANTS RateWithinTraffic RedirectedWithinReceived
PROPERTY Ends
CHECK_DEADLOCK FALSE
