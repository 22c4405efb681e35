SPECIFICATION Spec
CONSTANTS
  Bits = 1
  None = None
  Words = {0, 1, 2, 3, 4, 5}
  MemIds = {0, 1, 2}
  NocWords = 2
  ErrorSegs <- SecondFails
  ReadRespDepth = 1
  WriteRespDepth = 2
  FifoDepth = 2
  Tids = {t1, t2}
  AmoDepth = 2
  SeqKind = "random"
  Segs <- MixedSegs
  Ops = {"LOAD", "STORE", "CMO_PREFETCH", "CMO_FENCE", "CMO_FLUSH_INVAL_NLINE","AMO_LR", "AMO_SWAP", "AMO_SC"}
  Data <- OneData
  MaxTransactions = 2
  MaxBetween = 0
  Bundle = 1
  SbDepth = 1
  LineWords = 2
  RtabEntries = 2
  WbufIds = {0}
  FlushIds = {1}
  ErrorLimit = 1
  Faults = {}
  LrscGarbage <- Zeroed
SYMMETRY TidSymmetry
INVARIANTS NoFalseAlarm ReferencesAgree BenchInv
