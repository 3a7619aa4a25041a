---------------------------- MODULE MCSmartWallet -----------------------------
(* Instances of SmartWallet for TLC.                                         *)
EXTENDS SmartWallet, TLC

CONSTANTS a1, p1

\* two tabs of one account
SameAccount == [t \in Tabs |-> a1]
OnePerson   == [a \in Accounts |-> p1]

Symmetry == Permutations(Contracts)
==============================================================================
