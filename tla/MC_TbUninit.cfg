SPECIFICATION Spec
CONSTANTS
  Bits = 1
  None = None
  Words = {0}
  MemIds = {0, 1, 2}
  NocWords = 1
  ErrorSegs <- NoErrors
  ReadRespDepth = 1
  WriteRespDepth = 2
  FifoDepth = 2
  Tids = {t1, t2}
  AmoDepth = 2
  SeqKind = "random"
  Segs <- AtomicSegs
  Ops = {"LOAD", "AMO_ADD", "AMO_SC"}
  Data <- OneData
  MaxTransactions = 2
  MaxBetween = 0
  Bundle = 1
  SbDepth = 1
  LineWords = 1
  RtabEntries = 2
  WbufIds = {0, 1}
  FlushIds = {}
  ErrorLimit = 1
  Faults = {}
  LrscGarbage <- Anything
SYMMETRY TidSymmetry
INVARIANTS SingleAtomic
