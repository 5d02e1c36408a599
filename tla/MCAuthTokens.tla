---------------------------- MODULE MCAuthTokens ----------------------------
EXTENDS AuthTokens, TLC

CONSTANTS a1, a2, r1, r2, r3, r4

\* Neither requests nor accounts are told apart by the specification.
Symmetry == Permutations(Requests) \cup Permutations(Accounts)
=============================================================================
