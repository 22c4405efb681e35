SPECIFICATION LogSpec
CONSTANTS
  Flags = {"NV", "NX"}
  Csrs = {"fflags", "mepc"}
  MaxCommits = 3
  Garbage = Garbage
INVARIANT FlagsTaken
CHECK_DEADLOCK FALSE
