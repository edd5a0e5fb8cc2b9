CONSTANT Words = 4
SPECIFICATION Spec
INVARIANTS ScanRight ScanInv
PROPERTY Terminates
CHECK_DEADLOCK FALSE
