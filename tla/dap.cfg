SPECIFICATION Spec
CONSTANTS
    Programs <- SmallPrograms
    MaxRequests = 2
    NoLaunch = NoLaunch
INVARIANTS UpToCurrentShown LiveIsStraight PausedMeansStopped NoOrphan
CHECK_DEADLOCK FALSE
