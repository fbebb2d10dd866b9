SPECIFICATION FairSpec
CONSTANTS
    Entries <- SomeEntries
    PlatformPage = 2
    Limits <- SomeLimits
    MaxLimit = 2
    MaxTime = 5
INVARIANTS
    TypeOK
    QuietListExact
    NothingOvertaken
    MissesBounded
    DuplicatesFromArrivals
PROPERTIES
    ReadingEnds
CHECK_DEADLOCK FALSE
