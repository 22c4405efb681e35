SPECIFICATION CheckpointSpec
CONSTANTS
  Programs = {"a", "b"}
  checkpoint_cycles = 2
  MaxCycles = 8
  MaxSaves = 3
  MaxStarts = 3
INVARIANT OldestOverwritten
CHECK_DEADLOCK FALSE
