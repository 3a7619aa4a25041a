----------------------------- MODULE PilotImport -----------------------------
(***************************************************************************)
(* The two scripts that load the pilot event: import-fdvc2026-pilot.mjs    *)
(* turns the export of the inscriptions into entities, relationships and   *)
(* participations, update-fdvc2026-emails.mjs gives the participations     *)
(* their presentation code and e-mail.  Each writes in one transaction     *)
(* (READ COMMITTED) and only with --apply; a dry run writes nothing.  They *)
(* are run by hand, maybe twice and maybe at the same time, while the      *)
(* dashboard creates and renames entities; either may die at any point.    *)
(***************************************************************************)
EXTENDS Integers, Sequences, FiniteSets

CONSTANTS
  Files,          \* exports: sequences of presentations
  MailFiles,      \* e-mail files: each the numbers that have an address
  Expected,       \* the totals the import insists on
  Organizer, Event,                    \* slugs of the festival and its event
  Unknown, NotApplicable, ToConfirm,   \* "No informada", "No aplica", "Por confirmar"
  Provisional,    \* slug of the group whose name is to be confirmed
  ToConfirmNum,   \* its presentation
  CustomSlug,     \* groups named like a school, and the slug they get
  PersonOf,       \* number of a presentation -> its person
  RelationsOf,    \* number of a presentation -> <<person, type>> pairs
  AlsoNamed,      \* teachers the observations name
  SubjectOf,      \* <<number, type>> -> slug, the table of the e-mail script
  Names,          \* slugs, unique in entities
  Runs,           \* processes running a script
  Null,           \* null
  MaxStarts,      \* bound: scripts started
  MaxEdits        \* bound: edits on the dashboard

EntityIds == 1 .. Cardinality(Names)

Jobs      == {"import", "emails"}
RowKinds  == {"person", "organization", "event"}
LinkTypes == {"member_of", "teacher_at", "director_of", "participant_of"}

Presentation ==
  [num : Nat, tipo : STRING, persona : Names,
   escuela : Names \cup {Unknown}, grupo : Names \cup {NotApplicable, ToConfirm}]

\* A name stands for its slug.  The tables of the scripts name no person that
\* is not in the catalog, and give every number one presentation and every
\* subject one number.
ASSUME PilotAssumption ==
  /\ MaxStarts \in Nat /\ MaxEdits \in Nat
  /\ IsFiniteSet(Names)
  /\ {Organizer, Event, Provisional} \subseteq Names
  /\ {Unknown, NotApplicable, ToConfirm, Null} \cap Names = {}
  /\ Files \subseteq Seq(Presentation)
  /\ MailFiles \subseteq SUBSET Nat
  /\ AlsoNamed \in Seq(Names)
  /\ \A g \in DOMAIN CustomSlug : CustomSlug[g] \in Names
  /\ \A n \in DOMAIN PersonOf : PersonOf[n] \in Names
  /\ \A n \in DOMAIN RelationsOf :
       /\ RelationsOf[n] \in Seq(Names \X LinkTypes)
       /\ n \in DOMAIN PersonOf
       /\ \A k \in DOMAIN RelationsOf[n] :
            \/ RelationsOf[n][k][1] = PersonOf[n]
            \/ \E a \in DOMAIN AlsoNamed : RelationsOf[n][k][1] = AlsoNamed[a]
  /\ \A k, l \in DOMAIN SubjectOf :
       SubjectOf[k] = SubjectOf[l] \/ k[1] = l[1] => k = l

VARIABLES
  row,     \* entities with the row of their kind table
  link,    \* relationships, all in the context of the event
  part,    \* participations in the event
  run,     \* the scripts in progress
  starts,  \* how many were started
  edits    \* how many edits the dashboard made

pilotVars == <<row, link, part, run, starts, edits>>

\* by is the run whose open transaction wrote the row, Null once committed.
\* A row is read whatever its kind, status and active, so the last two are
\* left out.
Row  == [slug : Names, kind : RowKinds, by : Runs \cup {Null}]
Link == [from : EntityIds, to : EntityIds, type : LinkTypes, by : Runs \cup {Null}]

Nums == UNION {{f[k].num : k \in DOMAIN f} : f \in Files}
Contact == [code : Nums \cup {Null}, mail : BOOLEAN]
Participation == [contact : Contact, by : Runs \cup {Null}]

\* A null is none of the values a column or a variable of a script may have.
ASSUME NullAssumption ==
  Null \notin Runs \cup Nat \cup Jobs \cup Row \cup Participation \cup Contact

Blank == [code |-> Null, mail |-> FALSE]

------------------------------------------------------------------------------
(* From the file to the statements.  slugify gives two names the same slug *)
(* only if they are spelt alike.  Every statement says where in its script *)
(* it stands: at which loop, at which presentation, at which entry of it.  *)

\* The import has a variable for the organizer and one for the event, and a map
\* from slugs to ids for each of its catalogs.
KindIn == [organizer |-> "organization", event |-> "event", school |-> "organization",
           group |-> "organization", person |-> "person"]
Keys == (DOMAIN KindIn) \X Names

EventKey == <<"event", Event>>

Ensure(at, m, s)    == [at |-> at, do |-> "ensure", key |-> <<m, s>>]
Relate(at, a, b, k) == [at |-> at, do |-> "relate", key |-> a, to |-> b, type |-> k]
Participate(at, a)  == [at |-> at, do |-> "participate", key |-> a]

Before(a, b) ==
  \/ a[1] < b[1]
  \/ a[1] = b[1] /\ a[2] < b[2]
  \/ a[1] = b[1] /\ a[2] = b[2] /\ a[3] < b[3]

\* The catalogs and the set of relationships keep the first entry of a key.
Once(S) == {e \in S : \A q \in S : [q EXCEPT !.at = e.at] = e => ~ Before(q.at, e.at)}

Solo(p)  == p.tipo = "Solista"
Count(f, tipo) == Cardinality({k \in DOMAIN f : f[k].tipo = tipo})

Person(p) == IF p.num \in DOMAIN PersonOf THEN PersonOf[p.num] ELSE p.persona

PeopleCatalog(f) ==
  Once({Ensure(<<5, k, 0>>, "person", Person(f[k])) : k \in DOMAIN f}
       \cup {Ensure(<<5, Len(f) + k, 0>>, "person", AlsoNamed[k]) : k \in DOMAIN AlsoNamed})

Known(school) == school # Unknown
Schooled(f) == {k \in DOMAIN f : Known(f[k].escuela)}

SchoolsCatalog(f) ==
  Once({Ensure(<<3, k, 0>>, "school", f[k].escuela) : k \in Schooled(f)})

HasGroup(p) == p.grupo # NotApplicable

GroupSlug(p) ==
  IF p.num = ToConfirmNum \/ p.grupo = ToConfirm THEN Provisional
  ELSE IF p.grupo \in DOMAIN CustomSlug THEN CustomSlug[p.grupo]
  ELSE p.grupo

GroupsCatalog(f) ==
  Once({Ensure(<<4, k, 0>>, "group", GroupSlug(f[k])) :
          k \in {k \in DOMAIN f : HasGroup(f[k])}})

Subject(p) == IF Solo(p) THEN <<"person", Person(p)>> ELSE <<"group", GroupSlug(p)>>

\* The first presentation of a group gives it its school.
GroupSchoolRelationships(f) ==
  {Relate(<<6, g.at[2], 0>>, g.key, <<"school", f[g.at[2]].escuela>>, "member_of") :
     g \in {g \in GroupsCatalog(f) : g.at[2] \in Schooled(f)}}

PersonSchoolRelationships(f) ==
  LET RelationOf(k, j) ==
        Relate(<<7, k, j>>, <<"person", RelationsOf[f[k].num][j][1]>>,
               <<"school", f[k].escuela>>, RelationsOf[f[k].num][j][2])
  IN Once(UNION {{RelationOf(k, j) : j \in DOMAIN RelationsOf[f[k].num]} :
                   k \in {k \in Schooled(f) : f[k].num \in DOMAIN RelationsOf}})

Participations(f) ==
  {Relate(<<8, k, 1>>, Subject(f[k]), EventKey, "participant_of") : k \in DOMAIN f}
  \cup {Participate(<<8, k, 2>>, Subject(f[k])) : k \in DOMAIN f}

NormalizePilotData(f) ==
  {Ensure(<<1, 0, 0>>, "organizer", Organizer), Ensure(<<2, 0, 0>>, "event", Event)}
  \cup SchoolsCatalog(f) \cup GroupsCatalog(f) \cup PeopleCatalog(f)
  \cup GroupSchoolRelationships(f) \cup PersonSchoolRelationships(f)
  \cup Participations(f)

\* A group presentation without a group ends the script before it connects.
Importable(f) ==
  /\ Len(f) = Expected.total
  /\ Count(f, "Solista") = Expected.solo
  /\ Count(f, "Grupal") = Expected.group
  /\ \A k \in DOMAIN f : Solo(f[k]) \/ HasGroup(f[k])

Plan == [f \in {g \in Files : Importable(g)} |-> NormalizePilotData(f)]

\* The e-mail script goes through a file by number.
ByNumber == [f \in Files |-> {[at |-> <<f[k].num, k, 0>>, pres |-> f[k]] : k \in DOMAIN f}]

Statements ==
  UNION ({Plan[f] : f \in DOMAIN Plan} \cup {ByNumber[f] : f \in Files})

\* left: the statements still to make; ids: what the SELECTs by slug returned;
\* lock: on the table participations; update: the rows the transaction changed.
Run == [at : {"idle", "select", "insert", "write"},
        job : Jobs \cup {Null}, file : Files \cup {Null}, mails : MailFiles \cup {Null},
        left : SUBSET Statements, ids : [Keys -> EntityIds \cup {Null}],
        lock : {"none", "rows", "table"}, update : [EntityIds -> Contact \cup {Null}]]

NotRunning ==
  [at |-> "idle", job |-> Null, file |-> Null, mails |-> Null, left |-> {},
   ids |-> [e \in Keys |-> Null], lock |-> "none",
   update |-> [i \in EntityIds |-> Null]]

PilotTypeOK ==
  /\ row \in [EntityIds -> Row \cup {Null}]
  /\ link \subseteq Link
  /\ part \in [EntityIds -> Participation \cup {Null}]
  /\ run \in [Runs -> Run]
  /\ starts \in 0 .. MaxStarts /\ edits \in 0 .. MaxEdits
  /\ \A i, j \in EntityIds :
       row[i] # Null /\ row[j] # Null /\ row[i].slug = row[j].slug => i = j

------------------------------------------------------------------------------
(* PostgreSQL: a transaction sees what is committed and what it wrote.  A  *)
(* row another transaction has written and not ended makes an INSERT of    *)
(* the same key wait for it.                                               *)

Mine(r, x)    == x.by \in {Null, r}
ByOther(r, x) == x.by \notin {Null, r}

WithSlug(s)    == {i \in EntityIds : row[i] # Null /\ row[i].slug = s}
Readable(r, s) == {i \in WithSlug(s) : Mine(r, row[i])}
Published(x)   == x # Null /\ x.by = Null

Rollback(r) ==
  /\ row'  = [i \in EntityIds |-> IF row[i] # Null /\ row[i].by = r THEN Null ELSE row[i]]
  /\ link' = {l \in link : l.by # r}
  /\ part' = [i \in EntityIds |-> IF part[i] # Null /\ part[i].by = r THEN Null ELSE part[i]]
  /\ run'  = [run EXCEPT ![r] = NotRunning]

Commit(r) ==
  /\ row'  = [i \in EntityIds |-> IF row[i] # Null /\ row[i].by = r
                            THEN [row[i] EXCEPT !.by = Null] ELSE row[i]]
  /\ link' = {IF l.by = r THEN [l EXCEPT !.by = Null] ELSE l : l \in link}
  /\ part' = [i \in EntityIds |->
                LET p == part[i]
                    q == IF p # Null /\ p.by = r THEN [p EXCEPT !.by = Null] ELSE p
                IN IF run[r].update[i] = Null THEN q
                   ELSE [q EXCEPT !.contact = run[r].update[i]]]
  /\ run'  = [run EXCEPT ![r] = NotRunning]

\* A foreign key check locks the key of the rows a transaction refers to.
Referenced(i) ==
  \/ \E l \in link : l.by # Null /\ i \in {l.from, l.to}
  \/ part[i] # Null /\ part[i].by # Null

------------------------------------------------------------------------------
(* import-fdvc2026-pilot.mjs                                               *)

StartImport(r, f) ==
  /\ run[r].at = "idle" /\ starts < MaxStarts
  /\ f \in DOMAIN Plan
  /\ run' = [run EXCEPT ![r] = [NotRunning EXCEPT !.at = "select", !.job = "import",
                                                  !.file = f, !.left = Plan[f]]]
  /\ starts' = starts + 1
  /\ UNCHANGED <<row, link, part, edits>>

\* The statement a script is at.
IsNext(r, st) == st \in run[r].left /\ \A t \in run[r].left : ~ Before(t.at, st.at)

\* The run after the statement, v being the changed copy of its state.
Done(r, st, v) ==
  run' = [run EXCEPT ![r] = [v EXCEPT !.left = @ \ {st}, !.at = "select"]]

AtImport(r, step, st, do) ==
  run[r].job = "import" /\ run[r].at = step /\ IsNext(r, st) /\ st.do = do

\* SELECT id FROM entities WHERE slug = $1
SelectEntity(r, st) ==
  /\ AtImport(r, "select", st, "ensure")
  /\ LET s == st.key[2] IN
       IF Readable(r, s) = {} THEN run' = [run EXCEPT ![r].at = "insert"]
       ELSE \E i \in Readable(r, s) : Done(r, st, [run[r] EXCEPT !.ids[st.key] = i])
  /\ UNCHANGED <<row, link, part, starts, edits>>

\* INSERT INTO entities and into the table of the kind.  A row with the slug
\* that was committed since the SELECT raises.
InsertUnlessSeen(r, st) ==                                         \* mutant
  LET s == st.key[2]
      i == CHOOSE j \in EntityIds : row[j] = Null
  IN /\ AtImport(r, "insert", st, "ensure")
     /\ Readable(r, s) = {}
     /\ row' = [row EXCEPT ![i] = [slug |-> s, kind |-> KindIn[st.key[1]], by |-> r]]
     /\ Done(r, st, [run[r] EXCEPT !.ids[st.key] = i])
     /\ UNCHANGED <<link, part, starts, edits>>
InsertMissing(r, st) ==
  LET s == st.key[2]
      i == CHOOSE j \in EntityIds : row[j] = Null
  IN /\ AtImport(r, "insert", st, "ensure")
     /\ \A j \in WithSlug(s) : ~ ByOther(r, row[j])
     /\ IF WithSlug(s) # {} THEN Rollback(r)
        ELSE /\ row' = [row EXCEPT ![i] = [slug |-> s, kind |-> KindIn[st.key[1]], by |-> r]]
             /\ Done(r, st, [run[r] EXCEPT !.ids[st.key] = i])
             /\ UNCHANGED <<link, part>>
     /\ UNCHANGED <<starts, edits>>

\* INSERT INTO relationships ... ON CONFLICT DO NOTHING.  An entity is not put
\* in relation to itself: the script skips it, except that a participant raises
\* (CHECK).  context_event_id refers to events, so an entity of another kind
\* with the slug of the event raises.
InsertRelationship(r, st) ==
  LET from == run[r].ids[st.key]
      to == run[r].ids[st.to]
      same == {l \in link : l.from = from /\ l.to = to /\ l.type = st.type}
      skipped == from = to /\ st.type # "participant_of"
      allowed == from # to /\ row[run[r].ids[EventKey]].kind = "event"
  IN /\ AtImport(r, "select", st, "relate")
     /\ \A l \in same : ~ ByOther(r, l)
     /\ \/ /\ ~ skipped /\ ~ allowed
           /\ Rollback(r)
        \/ /\ skipped \/ (allowed /\ same # {})
           /\ Done(r, st, run[r])
           /\ UNCHANGED <<row, link, part>>
        \/ /\ allowed /\ same = {}
           /\ link' = link \cup {[from |-> from, to |-> to, type |-> st.type, by |-> r]}
           /\ Done(r, st, run[r])
           /\ UNCHANGED <<row, part>>
     /\ UNCHANGED <<starts, edits>>

\* INSERT INTO participations ... ON CONFLICT DO NOTHING
ParticipateOutside(r, st) ==                                       \* mutant
  LET i == run[r].ids[st.key]
  IN /\ AtImport(r, "select", st, "participate")
     /\ part' = IF part[i] # Null THEN part
                ELSE [part EXCEPT ![i] = [contact |-> Blank, by |-> Null]]
     /\ Done(r, st, run[r])
     /\ UNCHANGED <<row, link, starts, edits>>
InsertParticipation(r, st) ==
  LET i == run[r].ids[st.key]
  IN /\ AtImport(r, "select", st, "participate")
     /\ \A q \in Runs \ {r} : run[q].lock # "table"
     /\ part[i] # Null => ~ ByOther(r, part[i])
     /\ part' = IF part[i] # Null THEN part
                ELSE [part EXCEPT ![i] = [contact |-> Blank, by |-> r]]
     /\ Done(r, st, [run[r] EXCEPT !.lock = "rows"])
     /\ UNCHANGED <<row, link, starts, edits>>

CommitImport(r) ==
  /\ run[r].job = "import" /\ run[r].at = "select" /\ run[r].left = {}
  /\ Commit(r)
  /\ UNCHANGED <<starts, edits>>

------------------------------------------------------------------------------
(* update-fdvc2026-emails.mjs                                              *)

StartEmails(r, f, m) ==
  /\ run[r].at = "idle" /\ starts < MaxStarts
  /\ run' = [run EXCEPT ![r] = [NotRunning EXCEPT !.at = "select", !.job = "emails",
                                                  !.file = f, !.mails = m]]
  /\ starts' = starts + 1
  /\ UNCHANGED <<row, link, part, edits>>

AtEmails(r, step) == run[r].job = "emails" /\ run[r].at = step

\* ALTER TABLE ... ADD COLUMN IF NOT EXISTS locks the table to the end of the
\* transaction, also when the columns exist; then the event is looked up.
AlterParticipations(r) ==
  /\ AtEmails(r, "select")
  /\ \A q \in Runs \ {r} : run[q].lock = "none"
  /\ IF Readable(r, Event) = {} THEN Rollback(r)
     ELSE /\ \E i \in Readable(r, Event) :
               run' = [run EXCEPT ![r] = [run[r] EXCEPT !.at = "write", !.lock = "table",
                                          !.left = ByNumber[run[r].file], !.ids[EventKey] = i]]
          /\ UNCHANGED <<row, link, part>>
  /\ UNCHANGED <<starts, edits>>

\* The contact a file gives the subject of a presentation.
ContactOf(p, mails) == [code |-> p.num, mail |-> p.num \in mails]

\* Null, a slug of no row, where the script raises: no such presentation.
GetSubjectSlug(p) ==
  IF <<p.num, p.tipo>> \in DOMAIN SubjectOf THEN SubjectOf[<<p.num, p.tipo>>] ELSE Null

\* SELECT id by slug, then UPDATE participations, which must change one row.
UpdateParticipation(r, st) ==
  LET p == st.pres
      subject == Readable(r, GetSubjectSlug(p))
      isEvent == row[run[r].ids[EventKey]].kind = "event"
      hit == {i \in subject : isEvent /\ part[i] # Null}
  IN /\ AtEmails(r, "write") /\ IsNext(r, st)
     /\ IF hit = {} THEN Rollback(r)
        ELSE /\ \E i \in hit : run' = [run EXCEPT ![r] = [run[r] EXCEPT
                  !.update[i] = ContactOf(p, run[r].mails), !.left = @ \ {st}]]
             /\ UNCHANGED <<row, link, part>>
     /\ UNCHANGED <<starts, edits>>

\* SELECT COUNT(presentation_code), COUNT(registration_email), ...
AllUpdated(r) == Cardinality(ByNumber[run[r].file]) = Expected.total \* mutant
Complete(r) ==
  LET After(i) == IF run[r].update[i] # Null THEN run[r].update[i]
                  ELSE IF part[i] # Null THEN part[i].contact ELSE Blank
  IN /\ Cardinality({i \in EntityIds : After(i).code # Null}) = Expected.total
     /\ Cardinality({i \in EntityIds : After(i).mail}) = Expected.total

CheckAndCommit(r) ==
  /\ AtEmails(r, "write") /\ run[r].left = {}
  /\ IF Complete(r) THEN Commit(r) ELSE Rollback(r)
  /\ UNCHANGED <<starts, edits>>

------------------------------------------------------------------------------
(* Around the scripts.                                                     *)

\* The process or its connection dies, or PostgreSQL ends a deadlock with it.
Die(r) ==
  /\ run[r].at # "idle"
  /\ Rollback(r)
  /\ UNCHANGED <<starts, edits>>

\* createPersonEntity, createOrganizationEntity
CreateEntity(s, k) ==
  /\ edits < MaxEdits
  /\ WithSlug(s) = {}
  /\ LET i == CHOOSE j \in EntityIds : row[j] = Null
     IN row' = [row EXCEPT ![i] = [slug |-> s, kind |-> k, by |-> Null]]
  /\ edits' = edits + 1
  /\ UNCHANGED <<link, part, run, starts>>

\* UPDATE entities SET slug: waits for the transactions that refer to the row.
RenameEntity(i, s) ==
  /\ edits < MaxEdits
  /\ Published(row[i]) /\ row[i].kind # "event" /\ ~ Referenced(i)
  /\ WithSlug(s) = {}
  /\ row' = [row EXCEPT ![i].slug = s]
  /\ edits' = edits + 1
  /\ UNCHANGED <<link, part, run, starts>>

PilotInit ==
  /\ row = [i \in EntityIds |-> Null]
  /\ link = {}
  /\ part = [i \in EntityIds |-> Null]
  /\ run = [r \in Runs |-> NotRunning]
  /\ starts = 0 /\ edits = 0

PilotNext ==
  \/ \E r \in Runs :
       \/ \E f \in Files : StartImport(r, f)
       \/ \E f \in Files, m \in MailFiles : StartEmails(r, f, m)
       \/ \E st \in run[r].left :
            \/ SelectEntity(r, st) \/ InsertMissing(r, st) \/ InsertRelationship(r, st)
            \/ InsertParticipation(r, st) \/ UpdateParticipation(r, st)
       \/ CommitImport(r) \/ AlterParticipations(r) \/ CheckAndCommit(r)
       \/ Die(r)
  \/ \E s \in Names, k \in {"person", "organization"} : CreateEntity(s, k)
  \/ \E i \in EntityIds, s \in Names : RenameEntity(i, s)

PilotSpec == PilotInit /\ [][PilotNext]_pilotVars

------------------------------------------------------------------------------
(* Properties.                                                             *)

\* What another connection reads.
Seen == <<{<<i, row[i]>> : i \in {j \in EntityIds : Published(row[j])}},
          {l \in link : Published(l)},
          {<<i, part[i]>> : i \in {j \in EntityIds : Published(part[j])}}>>

\* After the step, the file is in the tables: every presentation has its
\* subject, with the link and the row of its participation, and every known
\* school its entity; a group is a member of the school of its first
\* presentation.  Without edits the entities still have the slugs of the file.
WholeNext(f, ids) ==
  LET In(a) == /\ ids[a] # Null /\ Published(row'[ids[a]])
               /\ edits = 0 => row'[ids[a]].slug = a[2]
      Linked(a, b, k) == [from |-> ids[a], to |-> ids[b], type |-> k, by |-> Null] \in link'
      First(k) == \A j \in 1 .. k - 1 : ~ HasGroup(f[j]) \/ GroupSlug(f[j]) # GroupSlug(f[k])
  IN \A k \in DOMAIN f :
       /\ In(Subject(f[k])) /\ In(<<"person", Person(f[k])>>)
       /\ Linked(Subject(f[k]), EventKey, "participant_of")
       /\ Published(part'[ids[Subject(f[k])]])
       /\ Known(f[k].escuela) =>
            LET school == <<"school", f[k].escuela>>
                group == <<"group", GroupSlug(f[k])>>
            IN /\ In(school)
               /\ HasGroup(f[k]) /\ First(k) =>
                    ids[group] = ids[school] \/ Linked(group, school, "member_of")

\* An import changes what others see in one step, its last, and then the whole
\* file is there: neither a crash, nor a second import that waits for it or
\* makes it wait, nor an entity the dashboard created with one of the names
\* leaves a part of it (import-fdvc2026-pilot.mjs: the transaction, ON CONFLICT
\* DO NOTHING and the reuse of a slug).
ImportIsWhole ==
  [][\A r \in Runs :
       /\ run[r].job = "import" /\ run'[r] # run[r] /\ Seen' # Seen
       => run'[r].at = "idle" /\ WholeNext(run[r].file, run[r].ids)]_pilotVars

\* The participations of the event have either no code at all or exactly as
\* many as the program has presentations, each of them with its e-mail; and
\* while nobody renames an entity no code is given twice, however often and
\* with whichever files the script runs (update-fdvc2026-emails.mjs).
ContactsComplete ==
  LET coded == {i \in EntityIds : Published(part[i]) /\ part[i].contact.code # Null}
  IN /\ Cardinality(coded) \in {0, Expected.total}
     /\ \A i \in coded : part[i].contact.mail
     /\ edits = 0 => \A i, j \in coded :
          part[i].contact.code = part[j].contact.code => i = j
==============================================================================
