SPECIFICATION FairSpec
CONSTANTS
    Target <- AllTargets
    Unrenderable <- Blank
    MayDie = TRUE
    KeyOf <- Keys
    ResultLists <- TwoLists
    PerPage = 2
    MaxClicks = 3
INVARIANTS
    TypeOK
    ShownIsCurrent
    KeptAtRank
    CompleteAtRest
PROPERTIES
    EventuallyAnswered
    ScreenKept
CHECK_DEADLOCK FALSE
