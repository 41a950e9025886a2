------------------------------ MODULE MCPayments ------------------------------
EXTENDS Payments, TLC

CONSTANTS h1, h2, i1

MCOutHashes == {h1, h2}
MCInHashes == {i1}

MCSymmetry == Permutations(MCOutHashes)
=============================================================================
