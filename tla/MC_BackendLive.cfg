SPECIFICATION FairSpec
CONSTANTS
    NUM_ENTRIES = 3
    NUM_CHECKPOINTS = 2
    NUM_ISA_REGISTERS = 2
    Kinds = {"LONG","BR","STORE","CSR"}
    Sources = {0, 1}
    Exceptions = {"frontend","memory"}
VIEW LiveView
PROPERTIES
    HeadRetires
