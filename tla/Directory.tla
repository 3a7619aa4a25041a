------------------------------ MODULE Directory ------------------------------
(***************************************************************************)
(* The people, organizations, providers and events the dashboard keeps and *)
(* the public pages show.  Every server action is a few statements, each a *)
(* transaction of its own; only saveEntityRecord runs in one transaction.  *)
(* A registration passes through the outbox, taken at what it promises of  *)
(* calls that overlap, OverlapSpec of OperationLifecycle, and the route    *)
(* that relays it copies the confirmed hash into entity_versions.          *)
(*                                                                         *)
(* Several administrators work at once, each from a page loaded earlier.   *)
(* A query that names a column its table lacks raises; the migrations say  *)
(* which columns there are.                                                *)
(***************************************************************************)
EXTENDS Integers, Sequences, FiniteSets

CONSTANTS
  Ids,         \* entity ids a row may get
  Slugs,       \* public names, unique over all kinds
  Texts,       \* contents of a column that is only copied
  Forms,       \* what a dashboard form may be sent with
  Imported,    \* the kind of each entity the import script has left
  Admins,      \* browsers of administrators
  Flows,       \* what they do
  None,        \* null
  MaxInFlight  \* bound: administrators at work at the same time

FormKinds == {"person", "organization", "provider"}
Kinds     == FormKinds \cup {"event"}

\* profile: the columns of the kind table a public page may show; contact:
\* legal name, e-mail, phone and the contact person.  is_public is TRUE in
\* every row the forms and the scripts write, so it is left out.
Details  == [profile : Texts, contact : Texts]
Common   == [slug : Slugs, name : Texts]
FormData == [common : Common, detail : Details]

\* status is 'verified' for any status a form can choose.
Entity == [kind : Kinds, common : Common, status : {"verified", "archived"},
           active : BOOLEAN, latest : Nat]

\* What a metadata hash is computed from.  The organization page leaves the
\* kind out of the document, so the same rows hash differently there.
Payload == [shape : {"entity", "organization"}, common : Common,
            status : {"verified", "archived"}, detail : Details]

AllFlows == {"add", "addToEvent", "edit", "delete", "register", "relate"}

VARIABLES
  entity,   \* entities
  detail,   \* people, organizations, providers and events
  rel,      \* relationships
  version,  \* entity_versions: the numbered hashes of an entity
  offer,    \* the registration of an entity before it has a verdict
  intent,   \* the payload it was prepared with
  verdict,  \* what the outbox says about it
  effect,   \* what the ledger did with it
  deleted,  \* entities whose deletion was answered
  call      \* each administrator: the server action in progress

tables == <<entity, detail, rel, version>>
outbox == <<offer, intent, verdict, effect>>
vars   == <<tables, outbox, deleted, call>>

Version == [n : Nat \ {0}, hash : Payload]
Record  == [active : BOOLEAN, latest : Nat, versions : SUBSET Version]

\* The statement a server action runs next; its first one begins it.
Steps == {"idle", "insertDetail", "link", "updateDetail", "fetchDetail", "prepare",
          "post", "relay", "poll", "readRecord", "readVersions", "saveRecord"}

\* row is the entity row a query returned, hash the payload computed from it,
\* record the copy that saveEntityRecord will write.
Call == [at : Steps, flow : AllFlows \cup {"none"}, id : Ids \cup {None},
         form : FormData \cup {None}, row : Entity \cup {None},
         hash : Payload \cup {None}, record : Record \cup {None}]

Idle == [at |-> "idle", flow |-> "none", id |-> None, form |-> None,
         row |-> None, hash |-> None, record |-> None]

ASSUME DirectoryAssumption ==
  /\ IsFiniteSet(Ids)
  /\ Forms \subseteq FormData /\ Forms # {}
  /\ DOMAIN Imported \subseteq Ids /\ \A i \in DOMAIN Imported : Imported[i] \in Kinds
  /\ Flows \subseteq AllFlows
  /\ None \notin Ids \cup Kinds \cup FormData \cup Entity \cup Payload
                  \cup Record \cup Details \cup {"confirmed"}
  /\ MaxInFlight \in Nat

\* The outbox of registrations: one operation, register:<id>, per entity.
Outbox == INSTANCE OperationLifecycle WITH Ops <- Ids

TypeOK ==
  /\ entity \in [Ids -> Entity \cup {None}]
  /\ detail \in [Ids -> Details \cup {None}]
  /\ rel \subseteq Ids \X Ids
  /\ version \in [Ids -> SUBSET Version]
  /\ offer \in [Ids -> {"absent", "open", "signed", "refused"}]
  /\ intent \in [Ids -> Payload \cup {None}]
  /\ verdict \in [Ids -> {"open", "confirmed", "failed_terminal"}]
  /\ effect \in [Ids -> {"none", "success", "failed"}]
  /\ deleted \subseteq Ids
  /\ call \in [Admins -> Call]

NewEntity(k, c) == [kind |-> k, common |-> c, status |-> "verified",
                    active |-> TRUE, latest |-> 0]

\* The imported entities have slugs of their own; the people and groups among
\* them take part in the events.
Init ==
  /\ \E f \in Forms, slugOf \in [DOMAIN Imported -> Slugs] :
       /\ \A i, j \in DOMAIN Imported : slugOf[i] = slugOf[j] => i = j
       /\ entity = [i \in Ids |-> IF i \in DOMAIN Imported
            THEN NewEntity(Imported[i], [f.common EXCEPT !.slug = slugOf[i]])
            ELSE None]
       /\ detail = [i \in Ids |-> IF i \in DOMAIN Imported THEN f.detail ELSE None]
  /\ rel = {r \in (DOMAIN Imported) \X (DOMAIN Imported) :
              Imported[r[1]] # "event" /\ Imported[r[2]] = "event"}
  /\ version = [i \in Ids |-> {}]
  /\ offer = [i \in Ids |-> "absent"]
  /\ intent = [i \in Ids |-> None]
  /\ Outbox!Init
  /\ deleted = {}
  /\ call = [a \in Admins |-> Idle]

------------------------------------------------------------------------------
(* The schema, as far as the queries of this module depend on it.          *)

RelationshipColumns ==
  {"id", "from_entity_id", "to_entity_id", "relationship_type", "context_event_id",
   "status", "start_date", "end_date", "notes", "created_at"}

Raises(named, columns) == ~ (named \subseteq columns)

\* INSERT INTO relationships, and the two SELECTs that list them.
RelationshipInsertColumns == RelationshipColumns \cup {"updated_at"}
RelationshipSelectColumns == RelationshipColumns \cup {"updated_at"}

------------------------------------------------------------------------------
(* What the pages show.                                                    *)

\* The operation row of an entity, as its page joins it.
Phase(i) ==
  CASE offer[i] = "absent" -> None
    [] offer[i] = "open" -> "awaiting_signature"
    [] offer[i] = "refused" -> "failed_terminal"
    [] offer[i] = "signed" /\ verdict[i] = "open" -> "submitted"
    [] offer[i] = "signed" /\ verdict[i] # "open" -> verdict[i]

DeriveStellarStatus(phase) ==
  CASE phase = None -> "not_registered"
    [] phase = "confirmed" -> "registered"
    [] phase \in {"failed_retryable", "failed_terminal"} -> "failed"
    [] phase \notin {None, "confirmed", "failed_retryable", "failed_terminal"} -> "pending"

\* The hash of the newest version, or none.
LatestHash(i) ==
  {v.hash : v \in {u \in version[i] : \A w \in version[i] : w.n <= u.n}}

\* mapRowToEntity
EntityView(i) ==
  [id |-> i, type |-> entity[i].kind, common |-> entity[i].common,
   metadata_hash |-> LatestHash(i),
   stellar_status |-> DeriveStellarStatus(Phase(i))]

Exists(i) == entity[i] # None
Active(i) == Exists(i) /\ entity[i].active

\* The join with the table of kind k.
Joined(k, i) == Exists(i) /\ entity[i].kind = k /\ detail[i] # None

\* Public rows carry the contact columns; the mappers drop them.
PublicView(i) == [entity |-> EntityView(i), profile |-> detail[i].profile]
PersonView(i) == PublicView(i)
OrganizationView(i) == PublicView(i)
ProviderView(i) == PublicView(i)
EventView(i) == PublicView(i)

\* The server actions behind the public pages.
GetPublicEntities == {EntityView(i) : i \in {j \in Ids : Active(j)}}

PublicRows(k) == {i \in Ids : Joined(k, i) /\ Active(i)}
BySlug(k, s) == {i \in PublicRows(k) : entity[i].common.slug = s}
GetPublicPersonByEntitySlug(s) == {PersonView(i) : i \in BySlug("person", s)}
GetPublicOrganizationByEntitySlug(s) == {OrganizationView(i) : i \in BySlug("organization", s)}
GetPublicProviderByEntitySlug(s) == {ProviderView(i) : i \in BySlug("provider", s)}
GetPublicEventBySlug(s) == {EventView(i) : i \in BySlug("event", s)}
GetPublicPersonByEntityId(id) == {PersonView(i) : i \in PublicRows("person") \cap {id}}
GetPublicOrganizationByEntityId(id) ==
  {OrganizationView(i) : i \in PublicRows("organization") \cap {id}}
GetPublicProviderByEntityId(id) == {ProviderView(i) : i \in PublicRows("provider") \cap {id}}

\* A query that raises ends the load of a page; what it has read it shows.
PublicRelationshipView(r) == [from |-> EntityView(r[1]), to |-> EntityView(r[2])]
GetPublicRelationships ==
  IF Raises(RelationshipSelectColumns, RelationshipColumns) THEN {}
  ELSE {PublicRelationshipView(r) : r \in {q \in rel : Active(q[1]) /\ Active(q[2])}}

\* The organizations a passport names, the members of an organization and the
\* participants of an event follow the relationships of the page's entity.
LinkedFrom(s) == {r.to.id : r \in {q \in GetPublicRelationships : q.from.common.slug = s}}
LinkedTo(s)   == {r.from.id : r \in {q \in GetPublicRelationships : q.to.common.slug = s}}

PassportPage(s) ==
  [profile |-> GetPublicPersonByEntitySlug(s),
   linked  |-> UNION {GetPublicOrganizationByEntityId(i) : i \in LinkedFrom(s)}]
OrganizationPage(s) ==
  [profile |-> GetPublicOrganizationByEntitySlug(s),
   linked  |-> UNION {GetPublicPersonByEntityId(i) : i \in LinkedTo(s)}]
ProviderPage(s) ==
  [profile |-> GetPublicProviderByEntitySlug(s), linked |-> {}]
EventPage(s) ==
  [profile |-> GetPublicEventBySlug(s),
   linked  |-> UNION {GetPublicPersonByEntityId(i) \cup GetPublicOrganizationByEntityId(i)
                        \cup GetPublicProviderByEntityId(i) : i \in LinkedTo(s)}]

\* The landing page lists what is not an event.
HomePage == {v \in GetPublicEntities : v.type # "event"}

\* Everything a visitor can see of an entity.
Shown ==
  LET page(s) == {PassportPage(s), OrganizationPage(s), ProviderPage(s), EventPage(s)} IN
  HomePage \cup {v.entity : v \in UNION {p.profile \cup p.linked : p \in UNION {page(s) : s \in Slugs}}}

\* The lists of the dashboard, of active entities only.
Rows(k) == {i \in Ids : Joined(k, i)}
ListPeople == {i \in Rows("person") : Active(i)}
ListOrganizations == {i \in Rows("organization") : Active(i)}
ListProviders == {i \in Rows("provider") : Active(i)}
ListEntities == {i \in Ids : Active(i)}
Listed == ListPeople \cup ListOrganizations \cup ListProviders

\* The event panel loads an event whether active or not.  Its load ends at the
\* relationships, so the tabs of schools, people and providers stay empty and
\* only the pending registrations have rows.
GetEventBySlug == Rows("event")

\* What the numbers of the dashboard's first page count; unlike the lists they
\* do not ask whether an entity is active.
DashboardStats ==
  [organizations |-> Cardinality(Rows("organization")),
   people        |-> Cardinality(Rows("person")),
   providers     |-> Cardinality(Rows("provider")),
   pending       |-> Cardinality({i \in Ids : Phase(i) \in {"submitted", "failed_terminal"}}),
   registered    |-> Cardinality({i \in Ids : Phase(i) = "confirmed"})]

------------------------------------------------------------------------------
(* Server actions, a statement at a time.  One that has run none holds no   *)
(* more than its page gave it, and the rows it is about stay: so it begins  *)
(* with its first statement, and if that one is refused nothing happened.   *)

HasSlot == Cardinality({a \in Admins : call[a].at # "idle"}) < MaxInFlight

Return(a) == call' = [call EXCEPT ![a] = Idle]
GoTo(a, s) == call' = [call EXCEPT ![a].at = s]

Begins(a, flow) == flow \in Flows /\ call[a].at = "idle" /\ HasSlot

SlugFree(s, i) == \A j \in Ids \ {i} : Exists(j) => entity[j].common.slug # s

\* The bound: there is an insert as long as an id is free.
InsertEntity(a, flow, k, f) ==
  /\ Begins(a, flow)
  /\ SlugFree(f.common.slug, None)
  /\ \E i \in Ids :
       /\ ~ Exists(i)
       /\ entity' = [entity EXCEPT ![i] = NewEntity(k, f.common)]
       /\ call' = [call EXCEPT ![a] = [Idle EXCEPT
            !.at = "insertDetail", !.flow = flow, !.id = i, !.form = f]]
  /\ UNCHANGED <<detail, rel, version, outbox, deleted>>

\* The list page reloads; the event panel goes on to link the new entity.
InsertDetail(a) ==
  /\ call[a].at = "insertDetail"
  /\ detail' = [detail EXCEPT ![call[a].id] = call[a].form.detail]
  /\ IF call[a].flow = "addToEvent"
       THEN call' = [call EXCEPT ![a].at = "link", ![a].form = None]
       ELSE Return(a)
  /\ UNCHANGED <<entity, rel, version, outbox, deleted>>

CreateRow(a, flow, k) ==
  \/ \E f \in Forms : InsertEntity(a, flow, k, f)
  \/ InsertDetail(a) /\ call[a].flow = flow /\ entity[call[a].id].kind = k
CreatePerson(a, flow) == CreateRow(a, flow, "person")
CreateOrganization(a, flow) == CreateRow(a, flow, "organization")
CreateProvider(a, flow) == CreateRow(a, flow, "provider")

\* createRelationship: when it raises the entity stays, and a second try of
\* the same form meets its slug.
CreateRelationship(a) ==
  /\ call[a].at = "link"
  /\ rel' = IF Raises(RelationshipInsertColumns, RelationshipColumns) THEN rel
            ELSE rel \cup {<<call[a].id, i>> : i \in
                   IF call[a].flow = "addToEvent" THEN GetEventBySlug ELSE ListEntities}
  /\ Return(a)
  /\ UNCHANGED <<entity, detail, version, outbox, deleted>>

\* Neither UPDATE asks whether the entity is still active.
UpdateEntity(a, i, f) ==
  /\ Begins(a, "edit")
  /\ SlugFree(f.common.slug, i)
  /\ entity' = [entity EXCEPT ![i].common = f.common, ![i].status = "verified"]
  /\ call' = [call EXCEPT ![a] = [Idle EXCEPT
       !.at = "updateDetail", !.flow = "edit", !.id = i, !.form = f]]
  /\ UNCHANGED <<detail, rel, version, outbox, deleted>>

UpdateDetail(a) ==
  /\ call[a].at = "updateDetail"
  /\ detail' = [detail EXCEPT ![call[a].id] = call[a].form.detail]
  /\ Return(a)
  /\ UNCHANGED <<entity, rel, version, outbox, deleted>>

UpdateRow(a, k) ==
  \/ \E i \in Rows(k), f \in Forms : UpdateEntity(a, i, f)
  \/ UpdateDetail(a) /\ entity[call[a].id].kind = k
UpdatePerson(a) == UpdateRow(a, "person")
UpdateOrganization(a) == UpdateRow(a, "organization")
UpdateProvider(a) == UpdateRow(a, "provider")

Deactivate(a, i) ==
  /\ Begins(a, "delete")
  /\ entity' = [entity EXCEPT ![i].active = FALSE, ![i].status = "archived"]
  /\ deleted' = deleted \cup {i}
  /\ UNCHANGED <<detail, rel, version, outbox, call>>
DeletePerson(a) == \E i \in Rows("person") : Deactivate(a, i)
DeleteOrganization(a) == \E i \in Rows("organization") : Deactivate(a, i)
DeleteProvider(a) == \E i \in Rows("provider") : Deactivate(a, i)

------------------------------------------------------------------------------
(* Preparing a registration.                                               *)

PayloadOf(shape, row, d) ==
  [shape |-> shape, common |-> row.common, status |-> row.status, detail |-> d]

\* fetchEntityWithKind runs twice: for the kind, which no statement changes,
\* and for the payload.
FetchEntityWithKind(a, i) ==
  /\ Begins(a, "register")
  /\ Active(i)
  /\ call' = [call EXCEPT ![a] = [Idle EXCEPT
       !.at = "fetchDetail", !.flow = "register", !.id = i, !.row = entity[i]]]
  /\ UNCHANGED <<tables, outbox, deleted>>

\* The kind table is read last; a row that is missing is an error.
BuildPayload(a) ==
  LET i == call[a].id IN
  /\ call[a].at = "fetchDetail"
  /\ IF detail[i] # None
       THEN call' = [call EXCEPT ![a].at = "prepare", ![a].row = None,
                       ![a].hash = PayloadOf("entity", call[a].row, detail[i])]
       ELSE Return(a)
  /\ UNCHANGED <<tables, outbox, deleted>>

\* The organization page reads both rows with one join.
BuildOrganizationPayload(a, i) ==
  /\ Begins(a, "register")
  /\ i \in ListOrganizations
  /\ call' = [call EXCEPT ![a] = [Idle EXCEPT
       !.at = "prepare", !.flow = "register", !.id = i,
       !.hash = PayloadOf("organization", entity[i], detail[i])]]
  /\ UNCHANGED <<tables, outbox, deleted>>

\* prepareRegisterEntity and getPreparedPayload: a new key is simulated, and a
\* contract error is its verdict; a known key is offered again when it has the
\* same hash and has not been sent.
PrepareRegister(a) ==
  LET i == call[a].id
      Offered == call' = [call EXCEPT ![a].at = "post", ![a].hash = None] IN
  /\ call[a].at = "prepare"
  /\ \/ /\ offer[i] = "absent"
        /\ offer' = [offer EXCEPT ![i] = "open"]
        /\ intent' = [intent EXCEPT ![i] = call[a].hash]
        /\ Offered
        /\ UNCHANGED <<verdict, effect>>
     \/ /\ offer[i] = "absent"
        /\ offer' = [offer EXCEPT ![i] = "refused"]
        /\ intent' = [intent EXCEPT ![i] = call[a].hash]
        /\ Outbox!Save(i, "failed_terminal")
        /\ Return(a)
     \/ /\ offer[i] # "absent"
        /\ IF offer[i] = "open" /\ intent[i] = call[a].hash THEN Offered ELSE Return(a)
        /\ UNCHANGED outbox
  /\ UNCHANGED <<tables, deleted>>

\* A page starts them for an entity it shows.
PrepareEntityForStellar(a, shown) == \E i \in shown : FetchEntityWithKind(a, i)
PrepareOrganizationForStellar(a, shown) == \E i \in shown : BuildOrganizationPayload(a, i)

------------------------------------------------------------------------------
(* The pages.  They show what their load returned, however long ago: a row  *)
(* listed once can still be edited, deleted or registered, whatever it      *)
(* would say now.                                                           *)

PersonasPage(a) ==
  \/ CreatePerson(a, "add") \/ UpdatePerson(a) \/ DeletePerson(a)
  \/ PrepareEntityForStellar(a, Rows("person"))
OrganizacionesPage(a) ==
  \/ CreateOrganization(a, "add") \/ UpdateOrganization(a) \/ DeleteOrganization(a)
  \/ PrepareOrganizationForStellar(a, Rows("organization"))
ProveedoresPage(a) ==
  \/ CreateProvider(a, "add") \/ UpdateProvider(a) \/ DeleteProvider(a)
  \/ PrepareEntityForStellar(a, Rows("provider"))

\* The forms of the event panel, and its dialog for whatever is not an event
\* and was not registered when the panel was loaded.
AddToEvent(a) ==
  \/ CreatePerson(a, "addToEvent") \/ CreateOrganization(a, "addToEvent")
  \/ CreateProvider(a, "addToEvent")
RegisterPending(a) ==
  PrepareEntityForStellar(a, {i \in Ids : Exists(i) /\ entity[i].kind # "event"})
EventoPage(a) == GetEventBySlug # {} /\ (AddToEvent(a) \/ RegisterPending(a))

\* The manager of relationships, over any two entities.
RelationshipManager(a) ==
  \E i \in Ids :
    /\ Exists(i) /\ Begins(a, "relate")
    /\ call' = [call EXCEPT ![a] = [Idle EXCEPT !.at = "link", !.flow = "relate", !.id = i]]
    /\ UNCHANGED <<tables, outbox, deleted>>

------------------------------------------------------------------------------
(* Relaying it and copying the confirmed hash.                             *)

\* submitSigned accepts an operation that waits for its signature or to be
\* sent; two clients may both get past that check.
Post(a) ==
  /\ call[a].at = "post"
  /\ IF offer[call[a].id] = "open" THEN GoTo(a, "relay") ELSE Return(a)
  /\ UNCHANGED <<tables, outbox, deleted>>

Relay(a) ==
  /\ call[a].at = "relay"
  /\ offer' = [offer EXCEPT ![call[a].id] = "signed"]
  /\ GoTo(a, "poll")
  /\ UNCHANGED <<tables, intent, verdict, effect, deleted>>

LedgerActs(i) ==
  /\ offer[i] = "signed"
  /\ Outbox!TakeEffect(i)
  /\ UNCHANGED <<tables, offer, intent, deleted, call>>

\* A copy of the operation is saved and no client here is told: by the worker,
\* or after a client hung up.  It may overwrite the verdict, or withdraw it.
OutboxSaves(i) ==
  /\ offer[i] = "signed"
  /\ \E v \in Outbox!Verdicts \ {verdict[i]} : Outbox!Save(i, v)
  /\ UNCHANGED <<tables, offer, intent, deleted, call>>

\* The call saves and returns what it polled; only a confirmed state goes on
\* to the projection.
PollAny(a) ==                                                      \* mutant
  /\ call[a].at = "poll"
  /\ GoTo(a, "readRecord")
  /\ UNCHANGED <<tables, outbox, deleted>>
Poll(a) ==
  LET i == call[a].id IN
  /\ call[a].at = "poll"
  /\ \E v \in Outbox!Verdicts :
       /\ Outbox!Save(i, v)
       /\ IF v = "confirmed" THEN GoTo(a, "readRecord") ELSE Return(a)
  /\ UNCHANGED <<tables, offer, intent, deleted>>

\* getEntityRecord is two queries: the row, then its versions.
ReadRecord(a) ==
  /\ call[a].at = "readRecord"
  /\ call' = [call EXCEPT ![a].at = "readVersions",
       ![a].record = [active |-> entity[call[a].id].active,
                      latest |-> entity[call[a].id].latest, versions |-> {}]]
  /\ UNCHANGED <<tables, outbox, deleted>>

\* The copy gets the next version, with the hash of the intent.
AppendFromZero(r, known, h) ==                                     \* mutant
  [r EXCEPT !.latest = @ + 1, !.versions = known \cup {[n |-> r.latest, hash |-> h]}]
AppendVersion(r, known, h) ==
  [r EXCEPT !.latest = @ + 1, !.versions = known \cup {[n |-> r.latest + 1, hash |-> h]}]
ReadAndRehash(a) ==                                                \* mutant
  LET i == call[a].id IN
  /\ call[a].at = "readVersions"
  /\ call' = [call EXCEPT ![a].at = "saveRecord",
       ![a].record = AppendVersion(@, version[i], PayloadOf("entity", entity[i], detail[i]))]
  /\ UNCHANGED <<tables, outbox, deleted>>
ReadVersions(a) ==
  LET i == call[a].id IN
  /\ call[a].at = "readVersions"
  /\ call' = [call EXCEPT ![a].at = "saveRecord",
                ![a].record = AppendVersion(@, version[i], intent[i])]
  /\ UNCHANGED <<tables, outbox, deleted>>

\* saveEntityRecord, one transaction: the row only advances, and a version
\* that exists stays as it is.  The flag is the one that was read.
MayAdvance(i, r) == entity[i].latest <= r.latest
SaveEntityRecord(a) ==
  LET i == call[a].id  r == call[a].record IN
  /\ call[a].at = "saveRecord"
  /\ IF MayAdvance(i, r)
       THEN /\ entity' = [entity EXCEPT ![i].active = r.active, ![i].latest = r.latest]
            /\ version' = [version EXCEPT ![i] =
                 @ \cup {v \in r.versions : \A w \in version[i] : w.n # v.n}]
       ELSE UNCHANGED <<entity, version>>
  /\ Return(a)
  /\ UNCHANGED <<detail, rel, outbox, deleted>>

ProjectRegistration(a) == ReadRecord(a) \/ ReadVersions(a) \/ SaveEntityRecord(a)

\* A server action ends at any statement: an error, a lost connection, a
\* crash, a dialog that is closed.
Abort(a) ==
  /\ call[a].at # "idle"
  /\ Return(a)
  /\ UNCHANGED <<tables, outbox, deleted>>

------------------------------------------------------------------------------
AdminStep(a) ==
  \/ PersonasPage(a) \/ OrganizacionesPage(a) \/ ProveedoresPage(a)
  \/ EventoPage(a) \/ RelationshipManager(a) \/ CreateRelationship(a)
  \/ BuildPayload(a) \/ PrepareRegister(a)
  \/ Post(a) \/ Relay(a) \/ Poll(a) \/ ProjectRegistration(a)
  \/ Abort(a)

OutboxStep == \E i \in Ids : LedgerActs(i) \/ OutboxSaves(i)

Next == (\E a \in Admins : AdminStep(a)) \/ OutboxStep

Spec == Init /\ [][Next]_vars

------------------------------------------------------------------------------
(* Properties.                                                             *)

\* "Historial inmutable de versiones (append-only)": however relays of one
\* registration overlap, the versions of an entity are numbered without gaps
\* up to its latest_version and each carries the hash that the contract
\* confirmed for this entity.
AnchoredHistory ==
  \A i \in Ids :
    /\ {v.n : v \in version[i]} = 1..(IF Exists(i) THEN entity[i].latest ELSE 0)
    /\ \A v \in version[i] : effect[i] = "success" /\ v.hash = intent[i]

\* What a visitor sees is on chain: a page that calls an entity registered,
\* or shows its metadata hash, shows what the registry holds, although rows,
\* operations and versions are written by different requests and the worker.
\* The dashboard counts no registration the registry does not hold.
PagesShowAnchored ==
  /\ \A v \in Shown :
       /\ v.stellar_status = "registered" => effect[v.id] = "success"
       /\ \A h \in v.metadata_hash : effect[v.id] = "success" /\ h = intent[v.id]
  /\ DashboardStats.registered <= Cardinality({i \in Ids : effect[i] = "success"})

\* "Soft-deletes a person by deactivating its entity": once the deletion of an
\* entity was carried out, no public page and no list shows it.
DeletedIsHidden ==
  /\ \A v \in Shown : v.id \notin deleted
  /\ Listed \cap deleted = {}

\* A deletion that is over: the entity is inactive, and no projection of its
\* registration that is under way read the row while it was active.
Buried(i) ==
  /\ i \in deleted /\ Exists(i) /\ ~ entity[i].active
  /\ \A a \in Admins :
       call[a].at \in {"readVersions", "saveRecord"} /\ call[a].id = i
       => ~ call[a].record.active

\* In no list and on no public page.
Unseen(i) == i \notin Listed /\ \A v \in Shown : v.id # i

\* Such an entity never comes back: editing it, preparing, relaying and
\* projecting its registration leave it inactive for good, in no list and on
\* no public page.  So only a projection that read the row before the deletion
\* can undo it (deletePerson, upsertEntity).
DeletionsSettle ==
  [][\A i \in Ids : Buried(i) => Buried(i)' /\ Unseen(i)']_vars
==============================================================================
