SPECIFICATION Spec
CONSTANT Programs <- AllPrograms
INVARIANTS OnlyGenericsStall NoLeftRecursion FailureReported AcceptedIsBalanced
CHECK_DEADLOCK FALSE
