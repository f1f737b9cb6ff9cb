SPECIFICATION Spec
CONSTANTS
    MaxDepth = 4
    MaxStatements = 5
    MaxRetries = 1
    MaxAfters = 1
    Statements <- AllStatements
    Clients <- TwoClients
INVARIANTS SignalsEndBlocks OwnContext BoundariesKept TransactionsExact
CHECK_DEADLOCK FALSE
