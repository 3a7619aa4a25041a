----------------------------- MODULE MCIssuance -----------------------------
(* Instances of Issuance and of the pages around it for TLC.                *)
EXTENDS PublicPages, TLC

CONSTANT pair

\* Every credential is about the same subject and event.
MCPair == [f \in Facts |-> pair]

Symmetry == Permutations(Creds) \cup Permutations(Facts) \cup Permutations(Contents)
              \cup Permutations(Requests)
=============================================================================
