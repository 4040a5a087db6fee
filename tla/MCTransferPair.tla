--------------------------- MODULE MCTransferPair ---------------------------
\* Small instances of TransferPair for TLC.
EXTENDS TransferPair

TwoPlans == {1, 2}

TypedFigures == {0, 1, 3}

=============================================================================
