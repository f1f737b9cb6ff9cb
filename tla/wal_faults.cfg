SPECIFICATION Spec
CONSTANTS
    users = users  a = a  nan = nan  void = void
    NoTail = NoTail  Torn = Torn  Garbled = Garbled  NoDb = NoDb
    Tables = {users}
    Vals <- OneVal
    Json <- NanToVoid
    NeverEq = {}
    QueryVals = {a}
    Ops = {"create", "delete", "transaction", "save", "load", "wal"}
    TornForms = {Torn}
    WriteErrors = TRUE
    MaxLog = 2
    MaxId = 2
    MaxDepth = 1
    MaxFaults = 1
INVARIANT RowsWellNumbered
CHECK_DEADLOCK FALSE
