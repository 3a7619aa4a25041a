---------------------------- MODULE MCPilotImport ----------------------------
(* Instances of PilotImport for TLC: a program of three presentations, one  *)
(* of a soloist and two of groups, in three spellings of its export.        *)
EXTENDS PilotImport, TLC

CONSTANTS fdvc, fdvc26, pa, pb, ga, twin, twinGroup, may, noSchool, noGroup, tba

Pres(n, t, p, s, g) ==
  [num |-> n, tipo |-> t, persona |-> p, escuela |-> s, grupo |-> g]

\* a school and a group of one name, a group still to be confirmed
Official  == <<Pres(1, "Solista", pa, twin, noGroup),
               Pres(2, "Grupal", pb, twin, twin),
               Pres(3, "Grupal", pb, noSchool, tba)>>
\* the order, the school and the group of a presentation corrected
Corrected == <<Pres(3, "Grupal", pb, twin, tba),
               Pres(1, "Solista", pa, noSchool, noGroup),
               Pres(2, "Grupal", pb, twin, ga)>>
\* a presentation lost
Short     == <<Pres(1, "Solista", pa, twin, noGroup),
               Pres(2, "Grupal", pb, twin, twin)>>

MCFiles     == {Official, Corrected, Short}
MCMailFiles == {{1, 2, 3}, {1, 2}}
MCExpected  == [total |-> 3, solo |-> 1, group |-> 2]
MCCustomSlug  == [g \in {twin} |-> twinGroup]
MCPersonOf    == [n \in {1, 2} |-> IF n = 1 THEN pa ELSE pb]
MCRelationsOf == [n \in {1, 2} |-> IF n = 1 THEN <<<<pa, "member_of">>, <<pb, "teacher_at">>>>
                                   ELSE <<<<pb, "director_of">>>>]
MCAlsoNamed   == <<pb>>
MCSubjectOf   == (<<1, "Solista">> :> pa) @@ (<<2, "Grupal">> :> twinGroup)
                 @@ (<<3, "Grupal">> :> may)

Symmetry == Permutations(Runs)
==============================================================================
