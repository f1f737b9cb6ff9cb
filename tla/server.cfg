SPECIFICATION FairServerSpec
CONSTANTS
    NoTrace = NoTrace
    Reqs = {r1, r2, r3}
    Keys = {k1}
    Kinds = {"limited", "open", "unmatched", "events"}
    Limit = 1
    Window = 1
    MaxTime = 2
INVARIANTS StreamIsTrace TraceFileTellsResponses
PROPERTIES LimitExact FramesReachSubscribers
CHECK_DEADLOCK FALSE
