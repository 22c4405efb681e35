SPECIFICATION Spec
CONSTANTS
    NUM_ENTRIES = 3
    NUM_CHECKPOINTS = 3
    NUM_ISA_REGISTERS = 2
    Kinds = {"BR", "LONG", "STORE", "CSR"}
    Sources = {0, 1}
    Exceptions = {"frontend", "branch", "memory", "csr"}
VIEW View
INVARIANTS RegistersConserved RenameExact OldestException OperandsExact VersionsTogether ControlInv
PROPERTY GraduationListProtocol
