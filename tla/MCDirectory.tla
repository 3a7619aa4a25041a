---------------------------- MODULE MCDirectory -----------------------------
(* Instances of Directory for TLC.                                          *)
EXTENDS Directory, TLC

CONSTANTS x, y, s1, s2, e1

Form(s, t) == [common |-> [slug |-> s, name |-> t],
               detail |-> [profile |-> t, contact |-> t]]

\* two contents of an entity; the event may have its name
TwoForms == {Form(s1, x), Form(s1, y)}

\* the imported event
MCImported == [i \in {e1} |-> "event"]

Symmetry == Permutations(Admins) \cup Permutations(Texts)
==============================================================================
