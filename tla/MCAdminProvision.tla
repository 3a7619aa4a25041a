-------------------------- MODULE MCAdminProvision --------------------------
(* Instances of AdminProvision for TLC. *)
EXTENDS AdminProvision, TLC

CONSTANTS l1, role

Link   == [target |-> l1, to |-> "on"]
Unlink == [target |-> l1, to |-> "off"]
Revoke == [target |-> role, to |-> "off"]

\* requests that link and unlink, and a list that may fail half way
SinglePlans == {<<Link>>, <<Unlink>>}
ListPlan    == {<<Revoke, Link>>}

Symmetry == Permutations(Requests)
=============================================================================
