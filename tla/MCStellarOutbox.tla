--------------------------- MODULE MCStellarOutbox ---------------------------
(* Instances of StellarOutbox for TLC.                                      *)
EXTENDS StellarOutbox, TLC

CONSTANTS issue, revoke, cred

\* One credential, issued and revoked by one operation each.
MCKind ==
  [o \in Ops |-> IF o = revoke THEN "revoke_credential" ELSE "issue_credential"]
MCSubject == [o \in Ops |-> cred]

\* A single registration of an entity.
MCRegister == [o \in Ops |-> "register_entity"]

\* The workers differ only in their names, and so do the envelopes.
Symmetry == Permutations(Workers) \cup Permutations(Payloads)
==============================================================================
