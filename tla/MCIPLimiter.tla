---------------------------- MODULE MCIPLimiter ----------------------------
EXTENDS IPLimiter, TLC

CONSTANTS k1, k2

KeySymmetry == Permutations(Keys)
=============================================================================
