SPECIFICATION FairSpec
CONSTANTS
    small = small
    middle = middle
    huge = huge
    Contents = {small, middle, huge}
    Size <- MCSize
    Callers = {w1, w2}
    NoCaller = NoCaller
    NoContent = NoContent
    Ids = {i1, i2, i3}
    CacheMaxBytes = 0
    DefaultMaxBytes = 3
INVARIANTS
    TypeOK
    IndexConsistent
    BytesExact
    LRUOrder
    WithinBudget
PROPERTIES
    NoPrematureEviction
    ImplementsResultStore
    StoreReturns
