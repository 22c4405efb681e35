SPECIFICATION Spec
CONSTANTS
    NUM_ENTRIES = 4
    NUM_CHECKPOINTS = 3
    NUM_ISA_REGISTERS = 2
    Kinds = {"BR", "LONG"}
    Sources = {0}
    Exceptions = {"memory"}
VIEW View
INVARIANTS
    CheckpointsExact
    ResultsOwnTheirEntry
PROPERTIES
    FreeListProtocol
