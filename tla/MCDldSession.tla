---------------------------- MODULE MCDldSession ----------------------------
EXTENDS DldSession, TLC

TwoLayouts == {{}, {1, 3}}
OneLayout == {{1, 3}}
ClientSymmetry == Permutations(Clients)
=============================================================================
