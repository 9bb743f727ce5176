------------------------------ MODULE MCAvfVm ------------------------------
EXTENDS AvfVm, TLC
CONSTANTS r1, r2, r3

Sturdy == Points \ Fragile
Nowhere == {}
=============================================================================
