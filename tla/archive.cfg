SPECIFICATION ArchiveSpec
CONSTANTS
    Recoverers = {r1}
    Kinds = {"none", "file", "http"}
    NoCopy = NoCopy
    Attempts = 2
    MaxWrites = 2
    MaxTime = 1
    MaxCheckpoints = 1
    MaxArchives = 2
    MaxFlight = 1
INVARIANTS RecoveredIsArchived RecoveredAsOf AcknowledgedIsStored
CHECK_DEADLOCK FALSE
