SPECIFICATION FairSpec
CONSTANTS
    NumEntries = 2
    StBufEntries = 3
    Addrs = {a, io}
    IoAddrs = {io}
    None = None
    MaxInstr = 3
INVARIANTS QueueInv LoadsSeeOlderStores StoresFinal
PROPERTY Drains
CHECK_DEADLOCK FALSE
