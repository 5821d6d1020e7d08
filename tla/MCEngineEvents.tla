--------------------------- MODULE MCEngineEvents ---------------------------
EXTENDS EngineOperations, TLC
CONSTANTS v1, v2
TwoValues == {v1, v2}
=============================================================================
