SPECIFICATION FairSpec
CONSTANTS
    small = small
    exact = exact
    large = large
    Contents = {small, large}
    Size <- MCSize
    Threshold = 2
    CacheIds = {i1, i2, i3}
    NoContent = NoContent
    OutCap = 1
    PipeCap = 1
    MaxSent = 3
    MaxSaid = 3
    Methods = {"tools/call", "seek_result"}
    OtherKinds = {}
    MayCrash = FALSE
INVARIANTS
    SeekReadsOriginal
PROPERTIES
    EOFReturns
    AllAnswered
    ImplementsGuard
