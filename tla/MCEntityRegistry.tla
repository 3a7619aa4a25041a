-------------------------- MODULE MCEntityRegistry --------------------------
EXTENDS EntityRegistry, FiniteSets, TLC

MCRoles == {"registrar"}
MCSchema ==
  LET first == CHOOSE c \in Contents : TRUE
  IN  [c \in Contents |-> IF c = first THEN 1 ELSE Cardinality(Schemas)]

Symmetry == Permutations(Entities) \cup Permutations(Accounts)
=============================================================================
