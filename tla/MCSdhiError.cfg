SPECIFICATION Spec
INVARIANTS SuccessMeansMoved
CHECK_DEADLOCK FALSE
