SPECIFICATION Spec
CONSTANTS
  Bits = 1
  None = None
  Words = {0, 1}
  MemIds = {0, 1, 2}
  NocWords = 1
  ErrorSegs <- NoErrors
  ReadRespDepth = 1
  WriteRespDepth = 2
  FifoDepth = 1
  Tids = {t1, t2}
  AmoDepth = 2
  SeqKind = "random"
  Segs <- HalfSegs
  Ops = {"LOAD", "STORE"}
  Data <- OneData
  MaxTransactions = 3
  MaxBetween = 0
  Bundle = 1
  SbDepth = 1
  LineWords = 2
  RtabEntries = 2
  WbufIds = {0}
  FlushIds = {}
  ErrorLimit = 9
  Faults = {"lose", "swap", "again"}
  LrscGarbage <- Zeroed
INVARIANTS FlitsKept FaultsReported
PROPERTY Terminates
CHECK_DEADLOCK FALSE
