-------------------------- MODULE CredentialLedger --------------------------
(***************************************************************************)
(* What the credential registry promises, without roles, indexes or        *)
(* events: for every fact an institution can attest (the business key      *)
(* issuer, subject, event and type) there is at most one credential, for   *)
(* ever; credentials are numbered one after the other; a revoked one never *)
(* comes back and its fact cannot be attested again.                       *)
(***************************************************************************)
EXTENDS Integers, FiniteSets

CONSTANTS Ids, Facts, None

VARIABLE entry  \* the credential of each fact, None while there is none

Attested == {f \in Facts : entry[f] # None}

LedgerInit == entry = [f \in Facts |-> None]

Attest(f, id) ==
  /\ entry[f] = None
  /\ \A g \in Attested : entry[g].id # id
  /\ entry' = [entry EXCEPT ![f] =
                 [id |-> id, token |-> Cardinality(Attested) + 1,
                  state |-> "valid"]]

Withdraw(f) ==
  /\ entry[f] # None
  /\ entry[f].state = "valid"
  /\ entry' = [entry EXCEPT ![f].state = "revoked"]

(* A step touches the credential of one fact.                              *)
LedgerNext ==
  \E f \in Facts :
    entry'[f] # entry[f] /\ (Withdraw(f) \/ \E id \in Ids : Attest(f, id))

LedgerSpec == LedgerInit /\ [][LedgerNext]_entry
=============================================================================
