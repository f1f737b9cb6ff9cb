SPECIFICATION Spec
CONSTANTS
    Programs <- AllPrograms
    Commands <- AllCommands
    Broken = Broken
    NoFile = NoFile
    Torn = Torn
    NoView = NoView
    NoPort = NoPort
    MaxCommands = 2
    MaxAborts = 1
    MaxEdits = 1
INVARIANTS AcceptedIsOneBuild WholeBuildAccepted SleepingDirVerifies
PROPERTY EditNoticed
CHECK_DEADLOCK FALSE
