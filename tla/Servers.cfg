CONSTANT Single = {"http", "tftp"}
SPECIFICATION FairSpec
\* TypeOK is a conjunct of SInv.
INVARIANTS ExitTells SInv
PROPERTIES AllEnd ComesBack
\* A program that was told to stop stays stopped.
CHECK_DEADLOCK FALSE
