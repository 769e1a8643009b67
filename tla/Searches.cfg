SPECIFICATION Spec
CONSTANTS
    Files <- ThreeFiles
    Lexemes <- AllLexemes
    Stripped <- StarredFoo
    Eager <- LeftToRight
    OnDisk <- TypedAndRead
    TextFile <- TheText
    Vocabulary <- AllWords
    Parts <- PartsOfWords
    Markup <- SpanTag
    ContextLines = 2
    MaxSnippets = 1
INVARIANTS
    FiltersFindWhatIsMeant
    WordsAreContent
    WordsAreBoth
    LinesInOrder
    ContextAround
    EveryMatchCounted
    FoundMeansMarked
CHECK_DEADLOCK FALSE
