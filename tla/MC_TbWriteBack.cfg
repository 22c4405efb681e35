SPECIFICATION Spec
CONSTANTS
  Bits = 1
  None = None
  Words = {0, 1}
  MemIds = {0, 1, 2, 3}
  NocWords = 1
  ErrorSegs <- NoErrors
  ReadRespDepth = 1
  WriteRespDepth = 2
  FifoDepth = 2
  Tids = {t1, t2}
  AmoDepth = 2
  SeqKind = "random"
  Segs <- BackSegs
  Ops = {"LOAD", "STORE"}
  Data <- OneData
  MaxTransactions = 3
  MaxBetween = 0
  Bundle = 1
  SbDepth = 1
  LineWords = 1
  RtabEntries = 2
  WbufIds = {0}
  FlushIds = {1}
  ErrorLimit = 9
  Faults = {}
  LrscGarbage <- Zeroed
INVARIANTS ReferencesAgree
SYMMETRY TidSymmetry
