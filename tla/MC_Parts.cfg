SPECIFICATION Spec
CONSTANTS
  Bits = 2
  None = None
  Tids = {0, 1, 2}
  SeqKind = "single_addr"
  Segs <- WordSegs
  Ops = {"STORE", "AMO_LR"}
  Data <- OneData
  MaxTransactions = 3
  MaxBetween = 1
  Bundle = 2
  SbDepth = 1
  NWays = 3
  NSets = 2
  Lines = {0, 1, 2, 4, 6, 8}
  Commands = {"0", "4", "5", "R", "r", "Q"}
  MaxCommands = 3
  MaxSessions = 2
  Leaves = TRUE
  Flags = {"NV", "NX"}
  Csrs = {"fflags", "mepc"}
  MaxCommits = 3
  Garbage = Garbage
  Programs = {"a", "b"}
  checkpoint_cycles = 2
  MaxCycles = 8
  MaxSaves = 3
  MaxStarts = 3
  NWords = 4
  LineWords = 2
  Enables <- StoreEnables
  FromHost = 2
  MaxStores = 1
  MaxCalls = 1
  MaxLength = 5
INVARIANTS DirectoryInv StimulusInv AmoExact BitbangInv LogExact ResumeExact MemoryInv
PROPERTIES RefinesLineSet CommandsServed
CHECK_DEADLOCK FALSE
