---------------------------- MODULE MCLowValueSpend ----------------------------
EXTENDS LowValueSpend, TLC

PayloadSymmetry == Permutations(Payloads)
=============================================================================
