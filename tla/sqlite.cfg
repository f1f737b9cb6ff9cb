SPECIFICATION Spec
CONSTANTS
    users = users  a = a  nan = nan  void = void
    NoDb = NoDb
    Tables = {users}
    Vals <- ThreeVals
    Json <- NanToVoid
    NeverEq = {nan}
    QueryVals = {a}
    Ops <- OpNames
    SyncErrors = TRUE
    MaxId = 2
    MaxDepth = 1
INVARIANTS RowsWellNumbered StoreKeepsPromise
PROPERTY ImplementsDurableDb
CHECK_DEADLOCK FALSE
