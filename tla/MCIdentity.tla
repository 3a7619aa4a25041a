----------------------------- MODULE MCIdentity -----------------------------
EXTENDS Identity, TLC

Symmetry ==
  Permutations(Accounts) \cup Permutations(Challenges) \cup Permutations(Keys)
    \cup Permutations(Tokens) \cup Permutations(Requests)
=============================================================================
