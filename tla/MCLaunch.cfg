SPECIFICATION Spec
CONSTANTS
    Names = {"auth", "accept"}
    Spellings = {"Authorization", "authorization", "Accept"}
    Canon <- MCCanon
    Managed = {"accept"}
    CommandLines <- MCCommandLines
    Files <- MCFiles
INVARIANTS
    StatsFindable
    HeadersReach
