\* A clear that the program undoes: load, clear, store.
SPECIFICATION Spec
CONSTANTS
  p1 = p1
  Retransmitted = 1
  OtherTos = {0}
  LittleEndian = TRUE
  NrPossibleCpus = 2
  NrMaps = 1
  Frames <- TwoFrames
  WordBits = 8
  Before <- AlmostFull
  MaxFrames = 1
  Procs = {p1}
  Options <- JustClear
  Garbage = {7}
PROPERTY ClearZeroes
CHECK_DEADLOCK FALSE
