SPECIFICATION Spec
CONSTANTS
    Versions <- FourVersions
    Tables <- UserAndNote
    NoFile = NoFile
    NoRows = NoRows
    MaxCommands = 4
    MaxAborts = 1
INVARIANTS SchemaDataAgree DataBeforeSurvives SquashTellsSchema
PROPERTY RollbackUndoes
CHECK_DEADLOCK FALSE
