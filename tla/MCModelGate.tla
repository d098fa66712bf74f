------------------------------ MODULE MCModelGate ------------------------------
EXTENDS ModelGate
CONSTANTS c1, c2, c3
ThreeCalls == {c1, c2, c3}
=============================================================================
