----------------------------- MODULE MCDldTrial -----------------------------
EXTENDS DldTrial, TLC

TrialSymmetry == Permutations(Launchers) \cup Permutations(Receivers)
=============================================================================
