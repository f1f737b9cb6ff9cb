SPECIFICATION LspSpec
CONSTANTS
    Paths <- Files
    Modules <- Names
    Candidates <- Where
    NoFile = NoFile
    Texts <- SomeTexts
    Entry = "main"
    NoText = NoText
    MaxEdits = 3
    MaxAsks = 1
    MaxForeign = 1
INVARIANTS DocumentAnswersFit LoadIsMerged
CHECK_DEADLOCK FALSE
