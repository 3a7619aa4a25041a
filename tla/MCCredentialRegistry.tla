----------------------- MODULE MCCredentialRegistry -----------------------
EXTENDS CredentialRegistry, TLC

MCTypes == {1, 7}
MCRoles == {"issuer", "revoker"}

Symmetry ==
  Permutations(Ids) \cup Permutations(Issuers) \cup Permutations(Accounts)
    \cup Permutations(Subjects) \cup Permutations(Hashes)
=============================================================================
