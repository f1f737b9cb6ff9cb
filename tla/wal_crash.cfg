SPECIFICATION FairSpec
CONSTANTS
    users = users  a = a  nan = nan  void = void
    NoTail = NoTail  Torn = Torn  Garbled = Garbled  NoDb = NoDb
    Tables = {users}
    Vals <- ThreeVals
    Json <- NanToVoid
    NeverEq = {nan}
    QueryVals = {a}
    Ops <- ServerOps
    TornForms = {Torn, Garbled}
    WriteErrors = FALSE
    MaxLog = 2
    MaxId = 2
    MaxDepth = 1
    MaxFaults = 1
INVARIANTS TypeOK RecoveryKeepsPromise
PROPERTIES   ImplementsDurableDb
CHECK_DEADLOCK FALSE
