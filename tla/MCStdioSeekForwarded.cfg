SPECIFICATION Spec
CONSTANTS
    small = small
    exact = exact
    large = large
    Contents = {small, large}
    Size <- MCSize
    Threshold = 2
    CacheIds = {i1, i2}
    NoContent = NoContent
    OutCap = 1
    PipeCap = 2
    MaxSent = 2
    MaxSaid = 2
    Methods = {"tools/list", "tools/call", "seek_result", "bad_seek", "other"}
    OtherKinds = {"notification", "request", "garbage"}
    MayCrash = TRUE
SYMMETRY MCSymmetry
INVARIANT SeekNotForwarded
