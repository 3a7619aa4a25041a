--------------------------- MODULE AccessControl ---------------------------
(***************************************************************************)
(* What both registry contracts take from the stellar_access library: one  *)
(* administrator, a set of accounts per role, and a handover of the        *)
(* administrator in two steps that expires with a ledger.  The library is  *)
(* not in the repository; it is modelled from how the contracts call it.   *)
(* An action is a call whose authorisation succeeded: "some administrator  *)
(* signed" is the guard admin # None.                                      *)
(***************************************************************************)
EXTENDS Integers

CONSTANTS
  Accounts,  \* addresses that can sign
  Roles,     \* role symbols of the contract
  None,      \* Option::None
  MaxLedger  \* bound: last ledger of a behaviour

ASSUME AccessAssumption ==
  /\ None \notin Accounts
  /\ MaxLedger \in Nat \ {0}

VARIABLES
  admin,     \* the administrator, None after it renounced
  pending,   \* the offered handover, None when there is none
  roles,     \* [Roles -> SUBSET Accounts]
  ledger     \* env.ledger().sequence()

accessVars == <<admin, pending, roles>>

Handover == [to : Accounts, until : 1..MaxLedger]

AccessTypeOK ==
  /\ admin \in Accounts \cup {None}
  /\ pending \in Handover \cup {None}
  /\ roles \in [Roles -> SUBSET Accounts]
  /\ ledger \in 1..MaxLedger

AccessInit ==
  /\ admin \in Accounts
  /\ pending = None
  \* each constructor grants every role to one account
  /\ \E first \in [Roles -> Accounts] : roles = [r \in Roles |-> {first[r]}]
  /\ ledger = 1

EnforceAdmin == admin # None

GrantRole(r, a) ==
  /\ EnforceAdmin
  /\ roles' = [roles EXCEPT ![r] = @ \cup {a}]
  /\ UNCHANGED <<admin, pending>>

RevokeRole(r, a) ==
  /\ EnforceAdmin
  /\ a \in roles[r]
  /\ roles' = [roles EXCEPT ![r] = @ \ {a}]
  /\ UNCHANGED <<admin, pending>>

TransferAdmin(a, until) ==
  /\ EnforceAdmin
  /\ until >= ledger
  /\ pending' = [to |-> a, until |-> until]
  /\ UNCHANGED <<admin, roles>>

AcceptAdminTransfer ==
  /\ pending # None
  /\ ledger <= pending.until
  /\ admin' = pending.to
  /\ pending' = None
  /\ UNCHANGED roles

RenounceAdmin ==
  /\ EnforceAdmin
  /\ pending = None
  /\ admin' = None
  /\ UNCHANGED <<pending, roles>>

AdminStep ==
  \/ \E r \in Roles, a \in Accounts : GrantRole(r, a) \/ RevokeRole(r, a)
  \/ \E a \in Accounts, until \in 1..MaxLedger : TransferAdmin(a, until)
  \/ AcceptAdminTransfer
  \/ RenounceAdmin

CloseLedger ==
  /\ ledger < MaxLedger
  /\ ledger' = ledger + 1
=============================================================================
