SPECIFICATION Spec
CONSTANTS
    p1 = p1
    p2 = p2
    w1 = w1
    w2 = w2
    w3 = w3
    Procs = {p1, p2}
    Workers = {w1, w2, w3}
    ProcOf <- MCShared
    Kinds = {"cache", "seek", "save"}
    Inodes = {i1, i2, i3, i4}
    NoFile = NoFile
    Nobody = Nobody
    Empty = Empty
    Torn = Torn
    MaxRecords = 3
    MaxCrashes = 1
    MaxFaults = 1
SYMMETRY MCSymmetry
CHECK_DEADLOCK FALSE
INVARIANTS
    TypeOK
    Conserved
    FlushedWhenIdle
    NeverCorruptedAlone
    NeverOvercounts
PROPERTIES
    HistoryOnlyGrows
