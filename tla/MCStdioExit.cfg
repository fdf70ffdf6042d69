SPECIFICATION FairSpec
CONSTANTS
    small = small
    exact = exact
    large = large
    Contents = {small, large}
    Size <- MCSize
    Threshold = 2
    CacheIds = {i1, i2}
    NoContent = NoContent
    OutCap = 1
    PipeCap = 1
    MaxSent = 1
    MaxSaid = 1
    Methods = {"tools/call"}
    OtherKinds = {"notification"}
    MayCrash = TRUE
PROPERTIES
    ExitNoticed
