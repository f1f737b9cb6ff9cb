SPECIFICATION Spec
CONSTANTS
    Width = 5
    Space = " "
    Numerals <- MCNumerals
    Programs <- MCPrograms
    Requests <- MCRequests
INVARIANT NativeAnswersLikeReference
INVARIANT DirectHandlersGenerated
CHECK_DEADLOCK FALSE
