SPECIFICATION Spec
CONSTANTS
    Files <- ThreeFiles
    Lexemes <- AllLexemes
    Stripped <- StarredFoo
    Eager <- LeftToRight
    OnDisk <- DocumentedOnly
    TextFile <- TheText
    Vocabulary <- AllWords
    Parts <- PartsOfWords
    Markup <- SpanTag
    ContextLines = 2
    MaxSnippets = 1
INVARIANTS
    EveryMatchIsFound
CHECK_DEADLOCK FALSE
