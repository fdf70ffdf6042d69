SPECIFICATION Spec
CONSTANTS
    small = small
    large = large
    long = long
    huge = huge
    Contents = {small, large, long, huge}
    Size <- MCSize
    Threshold = 2
    CacheIds = {i1, i2}
    NoContent = NoContent
    h1 = h1
    h2 = h2
    Handlers = {h1, h2}
    Methods <- MCMethods
    MaxBody = 4
    MaxLine = 3
    Defects <- MCDefects
    Strays <- MCStrays
INVARIANT OtherTrafficUnchanged
